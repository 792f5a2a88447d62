----------------------------- MODULE CardChain -----------------------------
(***************************************************************************)
(* The certificate chain from the card to its verdict, as                  *)
(* examples/read_card.rs goes about it: certificate_chain of a MasterFile  *)
(* (CardObjects) returns a chain, verify_chain (CvChain) is called with    *)
(* it.  Chains that come from elsewhere are verified as well.              *)
(***************************************************************************)
EXTENDS CardObjects, CvChain

\* A card holds certificates as CvChain has them, whole or not
ASSUME HeldAssumption ==
  \A c \in Card : "chain" \in c.ops =>
    \A d \in Df, i \in 1..2 :
      ParseCertificate(c.objects[d][ChainTag[i]].content) \subseteq Certificate

vars == <<ovars, cvars>>

Init == ObjectsInit /\ CvInit

\* The chain read is handed on
HandOver == op = "chain" /\ res = "ok" /\ VerifyChain(out)

\* A chain that was not read here.  Bound: where no call of the card is considered.
Elsewhere ==
  /\ card.ops = {} /\ df = "isd" /\ opened = "new"
  /\ \E n \in 0..MaxLinks : \E certs \in [1..n -> Certificate] : VerifyChain(certs)

Next ==
  \/ ObjectsNext /\ UNCHANGED cvars
  \/ (HandOver \/ Elsewhere \/ Verifying) /\ UNCHANGED ovars

\* The calls are sequential code over exchanges that always return
Spec == Init /\ [][Next]_vars /\ WF_ovars(Step)
-----------------------------------------------------------------------------
\* Types of both parts
TypeOK == ObjectsTypeOK /\ CvTypeOK

\* A chain read from a master file and found valid is all that the card holds, each
\* certificate with the key that really belongs to the identifier it is for: what was
\* cut short on the way, or is of another application, is never verified in its place.
VerifiedIsHeld ==
  op = "chain" /\ AtManager /\ verdict = "valid" =>
    /\ Len(chain) = Len(Held)
    /\ \A i \in 1..Len(chain) :
         /\ {chain[i]} = ParseCertificate(card.objects["isd"][Held[i]].content)
         /\ chain[i].key = Truth[chain[i].subject]
=============================================================================
