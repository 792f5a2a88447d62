-------------------------- MODULE SecureMessaging --------------------------
(***************************************************************************)
(* SecureSession (src/sm.rs) and TextAp::open_secure_session: encrypted    *)
(* commands whose IV is derived from a counter that the program and the    *)
(* card keep each on their own side, and that no message carries.          *)
(*                                                                         *)
(* VERIFY and SELECT carry ciphertext.  Under a wrong IV or key the card   *)
(* fails to strip the padding, answers 6988 and destroys its session.      *)
(* READ BINARY carries a plain length: the card has nothing to decrypt, so *)
(* it answers under its own counter.  In CBC a wrong IV garbles the first  *)
(* block alone, and unpad looks at the last one.                           *)
(*                                                                         *)
(* One command is one exchange (module Exchange).  It may fail before the  *)
(* card has it or after the card has acted on it.  A file is a sequence of *)
(* parts of one cipher block each; offsets and lengths count parts.  Reach *)
(* stands for 0x8000, the first offset that takes b8 of P1: the card then  *)
(* finds a short EF identifier in P1 and an offset in P2.                  *)
(***************************************************************************)
EXTENDS Integers, Sequences

CONSTANTS
  File,         \* elementary files that can be read under secure messaging
  Size,         \* Size[f]: parts in f, filler included
  Object,       \* Object[f]: parts that the BER-TLV header at the front of f announces; 0 without
  AtOnce,       \* files that fit one response: asked for no length, the card answers all of them
  Reach,        \* offsets that fit the 15 bits of P1-P2
  MaxTries,     \* what the retry counter of the code starts from
  MaxSessions,  \* bound: sessions opened, each with a fresh seed
  MaxCounter    \* bound: no method starts once a counter is there

ASSUME SizeAssumption == Size \in [File -> Nat \ {0}]
ASSUME ObjectAssumption == Object \in [File -> Nat]
ASSUME AtOnceAssumption == AtOnce \subseteq File
ASSUME ReachAssumption == Reach \in Nat \ {0}
ASSUME TriesAssumption == MaxTries \in Nat \ {0}
ASSUME BoundAssumption == MaxSessions \in Nat /\ MaxCounter \in Nat

None == "none"
KeyEf == "0006"   \* the public key that a seed is encrypted to
ASSUME FileAssumption == KeyEf \in File /\ None \notin File

\* What a first block decrypts to under the wrong IV
Garbled == <<None, 0>>

Part == (File \X Nat) \cup {Garbled}

VARIABLES
  inText,   \* card: the text application is current
  pin,      \* card: its PIN has been presented
  cef,      \* card: current EF
  skey,     \* card: session key, as the number of its seed; 0 without a session
  scount,   \* card: counter of the next command
  tries,    \* card: retry counter of the code that VERIFY names
  sess,     \* the SecureSession value: [open, key, counter, broken]
  call,     \* the method under way, or the last one and its result
  seeds,    \* seeds drawn so far
  lost      \* history: replies to commands of this session that were lost

card == <<inText, pin, cef, skey, scount, tries>>
vars == <<inText, pin, cef, skey, scount, tries, sess, call, seeds, lost>>

NoSession == [open |-> FALSE, key |-> 0, counter |-> 1, broken |-> FALSE]

\* id is the file a method names; for read_binary, the EF current when it is called
NoCall == [op |-> None, at |-> "idle", id |-> None, from |-> 0, right |-> FALSE,
           res |-> None, out |-> <<>>]

\* A u16
Offsets == 0..2 * Reach - 1

Live   == skey = sess.key
InStep == Live /\ scount = sess.counter

\* Types; counters start at 1, and the card has no session without the PIN
TypeOK ==
  /\ inText \in BOOLEAN
  /\ pin \in BOOLEAN
  /\ cef \in File \cup {None}
  /\ skey \in 0..seeds
  /\ scount \in Nat \ {0}
  /\ tries \in 0..MaxTries
  /\ sess \in [open : BOOLEAN, key : 0..seeds, counter : Nat \ {0}, broken : BOOLEAN]
  /\ sess.open <=> sess.key # 0
  /\ call \in [op : {None, "verify", "select", "read", "physical", "ef"},
               at : {"idle", "verify", "select", "read"},
               id : File \cup {None}, from : Offsets, right : BOOLEAN,
               res : {None, "ok", "error"}, out : Seq(Part)]
  /\ seeds \in 0..MaxSessions
  /\ lost \in Nat
  /\ skey # 0 => inText /\ pin      \* no session without the PIN

Init ==
  /\ inText \in BOOLEAN
  /\ pin = FALSE
  /\ cef = None
  /\ skey = 0
  /\ scount = 1
  /\ tries = MaxTries
  /\ sess = NoSession
  /\ call = NoCall
  /\ seeds = 0
  /\ lost = 0
-----------------------------------------------------------------------------
(* Plain commands, before and after a session or through its card() *)

Idle == call.at = "idle"

\* Selecting an application, or the card leaving the field, ends the session;
\* selecting the current one again keeps its security status
SelectApp(text) ==
  /\ Idle
  /\ inText' = text
  /\ pin' = (pin /\ text /\ inText)
  /\ cef' = None
  /\ skey' = 0
  /\ call' = NoCall
  /\ UNCHANGED <<scount, tries, sess, seeds, lost>>

\* TextAp::verify_pin or Card::verify: always in the clear
PresentPin ==
  /\ Idle
  /\ inText
  /\ pin' = TRUE
  /\ call' = NoCall
  /\ UNCHANGED <<inText, cef, skey, scount, tries, sess, seeds, lost>>

\* Card::select_ef moves no counter
PlainSelectEf(f) ==
  /\ Idle
  /\ inText
  /\ cef' = f
  /\ call' = NoCall
  /\ UNCHANGED <<inText, pin, skey, scount, tries, sess, seeds, lost>>
-----------------------------------------------------------------------------
(* SET SESSION KEY *)

\* Read the public key, unless establish is handed one, encrypt a fresh seed to it
\* and deliver it
Deliver ==
  /\ Idle
  /\ seeds < MaxSessions
  /\ seeds' = seeds + 1
  /\ cef' = cef \/ (inText /\ cef' = KeyEf)
  /\ call' = NoCall
  /\ UNCHANGED <<inText, pin, tries>>

Accepted ==
  /\ inText /\ pin
  /\ skey' = seeds + 1
  /\ scount' = 1

\* Mutant: the counter starts at zero
OpenAtZero ==
  /\ ~sess.open
  /\ Deliver
  /\ Accepted
  /\ sess' = [open |-> TRUE, key |-> seeds + 1, counter |-> 0, broken |-> FALSE]
  /\ lost' = 0

Open ==
  /\ ~sess.open
  /\ Deliver
  /\ Accepted
  /\ sess' = [open |-> TRUE, key |-> seeds + 1, counter |-> 1, broken |-> FALSE]
  /\ lost' = 0

\* Refused, not delivered, or delivered with the reply lost: no SecureSession,
\* and the seed is forgotten
OpenFails ==
  /\ ~sess.open
  /\ Deliver
  /\ Accepted \/ UNCHANGED <<skey, scount>>
  /\ UNCHANGED <<sess, lost>>

\* SecureSession::establish on the card() of an open session: the second session
\* runs some commands and is dropped, the first goes on
OpenInside ==
  /\ sess.open
  /\ Deliver
  /\ inText /\ pin
  /\ skey' = seeds + 1
  /\ scount' \in 1..MaxCounter
  /\ UNCHANGED <<sess, lost>>

\* Dropping the value sends nothing: the card keeps its session
Drop ==
  /\ Idle
  /\ sess.open
  /\ sess' = NoSession
  /\ call' = NoCall
  /\ UNCHANGED <<card, seeds, lost>>
-----------------------------------------------------------------------------
(* The methods of SecureSession *)

Begin(c) ==
  /\ Idle
  /\ sess.open
  /\ scount < MaxCounter /\ sess.counter + lost < MaxCounter
  /\ call' = c
  /\ UNCHANGED <<card, sess, seeds, lost>>

Verify(right) == Begin([NoCall EXCEPT !.op = "verify", !.at = "verify", !.right = right])

SelectEf(f) == Begin([NoCall EXCEPT !.op = "select", !.at = "select", !.id = f])

\* read_binary(offset, length) of the current EF; the card settles how much it answers
ReadBinary(offset) ==
  Begin([NoCall EXCEPT !.op = "read", !.at = "read", !.id = cef, !.from = offset])

ReadEfPhysical(f) == Begin([NoCall EXCEPT !.op = "physical", !.at = "select", !.id = f])

\* Mutant: the file is taken for selected
ReadEfUnselected(f) == Begin([NoCall EXCEPT !.op = "ef", !.at = "read", !.id = f])

ReadEf(f) == Begin([NoCall EXCEPT !.op = "ef", !.at = "select", !.id = f])
-----------------------------------------------------------------------------
(* SecureSession::call *)

Return(r, out) == call' = [call EXCEPT !.at = "idle", !.res = r, !.out = out]

Fail == Return("error", <<>>)

\* Mutant: 69FC is taken for a refusal by the application
IsSmErrorBut69FC(sw) == sw \in {"6987", "6988", "6882"}

\* Mutant: a refusal by the application ends the session too
IsSmErrorOnRefusal(sw) == sw # "9000"

IsSmError(sw) == sw \in {"6987", "6988", "69FC", "6882"}

\* Mutant: the counter stands still when the command is refused
ReceivedOnSuccess(sw) ==
  [sess EXCEPT !.counter = IF sw = "9000" THEN @ + 1 ELSE @, !.broken = IsSmError(sw)]

Received(sw) == [sess EXCEPT !.counter = @ + 1, !.broken = IsSmError(sw)]

\* The card has answered sw.  A lost reply returns before the counter is touched.
Answer(sw, success) ==
  \/ /\ sess' = Received(sw)
     /\ IF sw = "9000" THEN success ELSE Fail
     /\ UNCHANGED lost
  \/ /\ Fail
     /\ lost' = lost + 1
     /\ UNCHANGED sess

\* Mutant: the offset is one too far
PositionBehind == call.from + Len(call.out) + 1

Position == call.from + Len(call.out)

\* An offset that is no u16 stops read_ef before it sends
Sending == ~Idle /\ ~sess.broken /\ (call.at = "read" => Position \in Offsets) /\ UNCHANGED seeds

\* A broken session answers 69FC by itself
Broken == ~Idle /\ sess.broken /\ Fail /\ UNCHANGED <<card, sess, seeds, lost>>

\* The command does not reach the card
Misses == Sending /\ Fail /\ UNCHANGED <<card, sess, lost>>

NoCardSession ==
  /\ Sending
  /\ skey = 0
  /\ Answer("69FC", Fail)
  /\ UNCHANGED card

\* Ciphertext of another counter or key
OutOfStep ==
  /\ Sending
  /\ call.at \in {"verify", "select"}
  /\ skey # 0 /\ ~InStep
  /\ skey' = 0
  /\ Answer("6988", Fail)
  /\ UNCHANGED <<inText, pin, cef, scount, tries>>

Advance == scount' = scount + 1 /\ UNCHANGED <<inText, pin, skey>>

\* VERIFY: 9000, 63Cx for a wrong value, 6984 when blocked
CardVerifies ==
  /\ Sending
  /\ call.at = "verify" /\ InStep
  /\ Advance
  /\ IF tries > 0 /\ call.right
       THEN tries' = MaxTries /\ Answer("9000", Return("ok", <<>>))
       ELSE tries' = (IF tries > 0 THEN tries - 1 ELSE 0) /\ Answer("refused", Fail)
  /\ UNCHANGED cef

\* SELECT: a refusal leaves the current EF
CardSelects ==
  /\ Sending
  /\ call.at = "select" /\ InStep
  /\ Advance
  /\ \/ /\ cef' = call.id
        /\ Answer("9000", IF call.op = "select" THEN Return("ok", <<>>)
                                                ELSE call' = [call EXCEPT !.at = "read"])
     \/ UNCHANGED cef /\ Answer("refused", Fail)
  /\ UNCHANGED tries

\* What decrypt makes of parts encrypted under the card's key and counter, when
\* unpad finds the padding
Plaintext(parts) ==
  IF InStep THEN {parts}
  ELSE IF Live /\ parts # <<>> THEN {[parts EXCEPT ![1] = Garbled]}
  ELSE {}

\* The block that holds the padding is garbled: the one block there is, or every
\* block under another key.  A part that fills its block has the padding behind it,
\* in a block of its own, so one part may come with a second block that decrypts.
PaddingLost(parts) == ~InStep /\ (Live => Len(parts) <= 1)

Least(a, b) == IF a < b THEN a ELSE b

\* read_ef looks for an object in what it reads
Parsing == call.op = "ef" /\ Object[call.id] # 0

\* read_ef goes on until it has the object or the card answers nothing, and drops
\* the filler
GotPart(plain) ==
  LET out == call.out \o plain IN
  IF ~Parsing \/ plain = <<>>     THEN Return("ok", out)
  ELSE IF Len(out) < Object[call.id] THEN call' = [call EXCEPT !.out = out]
  ELSE Return("ok", SubSeq(out, 1, Object[call.id]))

\* What the card takes P1-P2 for: a place in the current EF or, with b8 of P1, in the
\* EF that P1 names or in the current one; which and where is open
Places(offset) ==
  IF offset < Reach
    THEN {<<cef, offset>>}
    ELSE {<<f, start>> : f \in File \cup {cef}, start \in 0..Reach - 1}

\* How many parts the card may answer from a place: what is left and was asked for,
\* or some of it.  read_ef asks for all at first, which is what the card answers of a
\* file in AtOnce, then for the rest of the object.
Counts(f, start) ==
  LET left   == IF start < Size[f] THEN Size[f] - start ELSE 0
      wanted == IF call.out = <<>> THEN left ELSE Least(left, Object[call.id] - Len(call.out))
      whole  == f \in AtOnce /\ call.op # "read" /\ call.out = <<>>
  IN  {k \in 0..wanted : (k = 0 => wanted = 0) /\ (whole => k = left)}

\* READ BINARY at the end of what has been read
CardReads ==
  /\ Sending
  /\ call.at = "read" /\ skey # 0
  /\ Advance
  /\ \/ \E place \in Places(Position) :
          /\ place[1] \in File
          /\ cef' = place[1]
          /\ \E k \in Counts(place[1], place[2]) :
               LET parts == [i \in 1..k |-> <<place[1], place[2] + i>>] IN
               Answer("9000", \/ PaddingLost(parts) /\ Fail
                              \/ \E plain \in Plaintext(parts) : GotPart(plain))
     \/ UNCHANGED cef /\ Answer("refused", Fail)
  /\ UNCHANGED tries

\* read_ef has come to an offset that is no u16: OffsetOutOfRange, and nothing is sent
OffsetTooWide ==
  /\ call.at = "read" /\ Position \notin Offsets
  /\ Fail
  /\ UNCHANGED <<card, sess, seeds, lost>>
-----------------------------------------------------------------------------
Plain == PresentPin \/ (\E text \in BOOLEAN : SelectApp(text)) \/ (\E f \in File : PlainSelectEf(f))

Session == Open \/ OpenFails \/ OpenInside \/ Drop

Method ==
  \/ \E right \in BOOLEAN : Verify(right)
  \/ \E offset \in Offsets : ReadBinary(offset)
  \/ \E f \in File : SelectEf(f) \/ ReadEfPhysical(f) \/ ReadEf(f)

Command ==
  Broken \/ Misses \/ NoCardSession \/ OutOfStep \/ CardVerifies \/ CardSelects \/ CardReads
  \/ OffsetTooWide

Next == Plain \/ Session \/ Method \/ Command

Spec == Init /\ [][Next]_vars
-----------------------------------------------------------------------------
(* Correctness *)

\* The two counters of a session drift apart by lost replies alone, one step
\* each, the card ahead: no refusal, plain command or failed transmission moves
\* one without the other.
OnlyLossesDrift == sess.open /\ Live => scount = sess.counter + lost

\* is_broken: "the session on the card is gone".  A session given up is one the
\* card does not hold, so it is never given up for nothing.
BrokenMeansGone == sess.open /\ sess.broken => ~Live

\* Reading f to the end of the object its header announces, or of f, takes no more than
\* 15 bits of offset.  What finds the end of f is a read there that gets nothing.
InReach(f) == Object[f] <= Reach \/ Size[f] < Reach

\* read_ef returns the whole object of the file it names, or what the file holds of it;
\* read_ef_physical, and read_ef of a file without a header, the whole of a file that
\* fits one response, else a part of it from the start.  All of it is decrypted right,
\* whatever was lost before: the SELECT in front makes the card check the counter first.
ReadsAreRight ==
  call.res = "ok" /\ (call.op = "physical" \/ (call.op = "ef" /\ InReach(call.id))) =>
    LET n == Len(call.out) IN
    /\ call.out = [i \in 1..n |-> <<call.id, i>>]
    /\ IF call.op = "ef" /\ Object[call.id] # 0
         THEN n = Least(Object[call.id], Size[call.id])
         ELSE n \in 1..Size[call.id] /\ (call.id \in AtOnce => n = Size[call.id])

\* read_binary returns the current EF from the offset on, the first block alone may be
\* something else, as long as 15 bits do for the offset.
OnlyFirstIsGarbled ==
  call.res = "ok" /\ call.op = "read" /\ call.from < Reach =>
    \A i \in 1..Len(call.out) :
      call.out[i] = <<call.id, call.from + i>> \/ (i = 1 /\ call.out[i] = Garbled)

\* A session that is out of step with the card, or that the card has dropped, is
\* known to be broken as soon as a VERIFY or SELECT of it is answered.
DriftIsNoticed ==
  [][call.at \in {"verify", "select"} /\ ~InStep /\ sess'.counter > sess.counter
       => sess'.broken]_vars

(* What the documentation says of any read *)

\* src/sm.rs: "SecureSession tracks the counter so that callers do not have to".
\* Data that read_binary returns is data that the card holds.
ReadsDecrypt ==
  call.res = "ok" /\ call.op = "read" => \A i \in DOMAIN call.out : call.out[i] # Garbled

\* src/sm.rs: "offset goes in P1-P2 as it does for a plain READ BINARY", which takes
\* 15 bits and refuses any more.  What read_binary returns is from the current EF.
OffsetsAreAsPlain ==
  call.res = "ok" /\ call.op = "read" =>
    \A i \in 1..Len(call.out) : call.out[i] \in {Garbled, <<call.id, call.from + i>>}
=============================================================================
