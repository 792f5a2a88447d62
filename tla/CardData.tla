------------------------------ MODULE CardData ------------------------------
(***************************************************************************)
(* What is made of the data once it has been read: TLV objects, signed     *)
(* files and attributes, dates, and certificate chains.  The code keeps    *)
(* nothing from one to the next, so a behaviour is about one part, and the *)
(* others stand still.                                                     *)
(***************************************************************************)
EXTENDS Tlv, SignedRecords, X509Chain

VARIABLE part    \* which of the modules a behaviour is about

vars == <<tvars, rvars, calvars, xvars, part>>

\* One state is enough of a part that stands still
Init ==
  /\ part \in {"tlv", "records", "calendar", "x509"}
  /\ TlvInit      /\ (part # "tlv" => codec = "ber" /\ data = <<>> /\ written = <<>>)
  /\ RecordsInit  /\ (part # "records" => kind = "age" /\ filler = 0)
  /\ CalendarInit /\ (part # "calendar" => date.year = 1868)
  /\ X509Init     /\ (part # "x509" => moment = 0)

Next ==
  /\ \/ part = "tlv" /\ TlvNext /\ UNCHANGED <<rvars, calvars, xvars>>
     \/ part = "records" /\ RecordsNext /\ UNCHANGED <<tvars, calvars, xvars>>
     \/ part = "calendar" /\ CalendarNext /\ UNCHANGED <<tvars, rvars, xvars>>
     \/ part = "x509" /\ X509Next /\ UNCHANGED <<tvars, rvars, calvars>>
  /\ UNCHANGED part

Spec == Init /\ [][Next]_vars
-----------------------------------------------------------------------------
\* Types of all four parts
TypeOK == TlvTypeOK /\ RecordsTypeOK /\ CalendarTypeOK /\ X509TypeOK
=============================================================================
