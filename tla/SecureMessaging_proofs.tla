----------------------- MODULE SecureMessaging_proofs -----------------------
(***************************************************************************)
(* Proofs about SecureMessaging, for files, objects and retry counters of  *)
(* any size and any number of sessions: the types, that the two counters   *)
(* drift apart by lost replies alone, that a session given up is gone from *)
(* the card, that reads of a named file return what the card holds, and    *)
(* that drift is noticed at the next VERIFY or SELECT.                     *)
(***************************************************************************)
EXTENDS SecureMessaging, SequenceTheorems, TLAPS

USE DEF Idle, None

(* Parts of a file *)

\* The first n parts of f
Parts(f, n) == [i \in 1..n |-> <<f, i>>]

LEMMA PartsAre ==
  ASSUME NEW f \in File, NEW n \in Nat
  PROVE  Parts(f, n) \in Seq(Part) /\ Len(Parts(f, n)) = n
<1>1. \A i \in 1..n : <<f, i>> \in Part
  BY DEF Part
<1>. QED  BY <1>1 DEF Parts

\* The parts that follow join.
LEMMA PartsJoin ==
  ASSUME NEW f, NEW n \in Nat, NEW k \in Nat
  PROVE  Parts(f, n) \o [i \in 1..k |-> <<f, n + i>>] = Parts(f, n + k)
BY DEF Parts

LEMMA PartsFront ==
  ASSUME NEW f, NEW n \in Nat, NEW m \in 0..n
  PROVE  SubSeq(Parts(f, n), 1, m) = Parts(f, m)
BY DEF Parts
-----------------------------------------------------------------------------
(* The inductive invariant *)

\* TypeOK, in parts that steps disturb apart
FlagsOK ==
  /\ inText \in BOOLEAN /\ pin \in BOOLEAN
  /\ skey # 0 => inText /\ pin

CardOK ==
  /\ cef \in File \cup {None}
  /\ skey \in 0..seeds
  /\ scount \in Nat \ {0}
  /\ tries \in 0..MaxTries
  /\ seeds \in 0..MaxSessions
  /\ lost \in Nat

Sessions(n) == [open : BOOLEAN, key : 0..n, counter : Nat \ {0}, broken : BOOLEAN]

SessOK == sess \in Sessions(seeds) /\ (sess.open <=> sess.key # 0)

CallRecords ==
  [op : {None, "verify", "select", "read", "physical", "ef"},
   at : {"idle", "verify", "select", "read"},
   id : File \cup {None}, from : Offsets, right : BOOLEAN,
   res : {None, "ok", "error"}, out : Seq(Part)]

CallOK == call \in CallRecords

LEMMA TypeParts == TypeOK <=> FlagsOK /\ CardOK /\ SessOK /\ CallOK
BY DEF TypeOK, FlagsOK, CardOK, SessOK, CallOK, Sessions, CallRecords

\* A method runs only while the session is open and has no result before it ends
Running ==
  /\ ~Idle => sess.open /\ call.res = None
  /\ call.at = "select" => call.op \in {"select", "physical", "ef"} /\ call.out = <<>>
  /\ call.at = "read" => call.op \in {"read", "physical", "ef"}
  /\ call.at = "verify" => call.op = "verify"
  /\ call.at \in {"select", "read"} /\ call.op \in {"select", "physical", "ef"} =>
       call.id \in File /\ call.from = 0

\* Reads that ReadsAreRight speaks of
Promised(c) == c.op = "physical" \/ (c.op = "ef" /\ InReach(c.id))

\* read_ef and read_ef_physical read in step with the card, in the file they selected
\* and no further than it goes; read_binary reads once, in the file current when called
Selected ==
  call.at = "read" =>
    /\ call.op = "read" => cef = call.id /\ call.out = <<>>
    /\ Promised(call) =>
         /\ InStep /\ cef = call.id
         /\ call.out = Parts(call.id, Len(call.out)) /\ Len(call.out) <= Size[call.id]
         /\ call.out # <<>> => Parsing /\ Len(call.out) < Object[call.id]

Results == ReadsAreRight /\ OnlyFirstIsGarbled

IInv == FlagsOK /\ CardOK /\ SessOK /\ CallOK
        /\ OnlyLossesDrift /\ BrokenMeansGone /\ Results /\ Running /\ Selected

\* A session that is open has a key of its own
LEMMA KeyIsDrawn ==
  ASSUME CardOK, SessOK, sess.open
  PROVE  sess.key \in 1..seeds /\ seeds \in Nat
BY BoundAssumption DEF CardOK, SessOK, Sessions

LEMMA InitInv == Init => IInv
<1>1. SUFFICES ASSUME Init PROVE IInv
  OBVIOUS
<1>2. <<>> \in Seq(Part) /\ 0 \in Offsets
  BY ReachAssumption DEF Offsets
<1>3. NoSession \in Sessions(0) /\ ~NoSession.open /\ NoSession.key = 0
  BY DEF NoSession, Sessions
<1>4. NoCall \in CallRecords /\ NoCall.at = "idle" /\ NoCall.res = None
  BY <1>2 DEF NoCall, CallRecords
<1>5. FlagsOK /\ CardOK /\ SessOK /\ CallOK
  <2>0. FlagsOK
    <3>1. inText \in BOOLEAN /\ pin \in BOOLEAN
      BY <1>1, Zenon DEF Init
    <3>2. skey = 0
      BY <1>1 DEF Init
    <3>. QED  BY <3>1, <3>2, Zenon DEF FlagsOK
  <2>1. CardOK
    BY <1>1, TriesAssumption, BoundAssumption DEF Init, CardOK
  <2>2. SessOK
    BY <1>1, <1>3, Zenon DEF Init, SessOK
  <2>3. CallOK
    BY <1>1, <1>4 DEF Init, CallOK
  <2>. QED  BY <2>0, <2>1, <2>2, <2>3
<1>6. OnlyLossesDrift /\ BrokenMeansGone /\ Results /\ Running /\ Selected
  BY <1>1, <1>3, <1>4 DEF Init, OnlyLossesDrift, BrokenMeansGone, Results, ReadsAreRight,
     OnlyFirstIsGarbled, Running, Selected
<1>. QED  BY <1>5, <1>6 DEF IInv
-----------------------------------------------------------------------------
(* What the parts of a step keep *)

\* A step that ends the account of the last call
LEMMA Cleared ==
  ASSUME call' = NoCall
  PROVE  CallOK' /\ Results' /\ Running' /\ Selected'
<1>1. <<>> \in Seq(Part) /\ 0 \in Offsets
  BY ReachAssumption DEF Offsets
<1>2. NoCall \in CallRecords /\ NoCall.at = "idle" /\ NoCall.res = None
  BY <1>1 DEF NoCall, CallRecords
<1>. QED  BY <1>2 DEF CallOK, Results, ReadsAreRight, OnlyFirstIsGarbled, Running, Selected

\* The end of a call; what it returns is as Results has it
RightResult(c) ==
  /\ c.res = "ok" /\ Promised(c) =>
       LET n == Len(c.out) IN
       /\ c.out = [i \in 1..n |-> <<c.id, i>>]
       /\ IF c.op = "ef" /\ Object[c.id] # 0
            THEN n = Least(Object[c.id], Size[c.id])
            ELSE n \in 1..Size[c.id] /\ (c.id \in AtOnce => n = Size[c.id])
  /\ c.res = "ok" /\ c.op = "read" /\ c.from < Reach =>
       \A i \in 1..Len(c.out) :
         c.out[i] = <<c.id, c.from + i>> \/ (i = 1 /\ c.out[i] = Garbled)

LEMMA Returned ==
  ASSUME CallOK, NEW r \in {"ok", "error"}, NEW o \in Seq(Part), Return(r, o),
         RightResult([call EXCEPT !.at = "idle", !.res = r, !.out = o])
  PROVE  CallOK' /\ Results' /\ Running' /\ Selected'
<1>1. call' = [call EXCEPT !.at = "idle", !.res = r, !.out = o]
  BY DEF Return
<1>2. call' \in CallRecords /\ call'.at = "idle"
  BY <1>1 DEF CallOK, CallRecords
<1>3. RightResult(call')
  BY <1>1
<1>4. Results'
  BY <1>3 DEF Results, ReadsAreRight, OnlyFirstIsGarbled, RightResult, Promised
<1>. QED  BY <1>2, <1>4 DEF CallOK, Running, Selected

LEMMA Failed ==
  ASSUME CallOK, Fail
  PROVE  CallOK' /\ Results' /\ Running' /\ Selected'
<1>1. <<>> \in Seq(Part) /\ Return("error", <<>>)
  BY DEF Fail
<1>2. [call EXCEPT !.at = "idle", !.res = "error", !.out = <<>>].res = "error"
  BY DEF CallOK, CallRecords
<1>3. RightResult([call EXCEPT !.at = "idle", !.res = "error", !.out = <<>>])
  BY <1>2 DEF RightResult
<1>. QED  BY <1>1, <1>3, Returned

\* A card without the session of the value can be neither in step nor broken wrongly
LEMMA Gone ==
  ASSUME CardOK, SessOK, skey' = 0, sess'.open => sess'.key # 0
  PROVE  OnlyLossesDrift' /\ BrokenMeansGone'
BY DEF OnlyLossesDrift, BrokenMeansGone, Live

\* An answer of the card counts on both sides, or on its side and among the lost
Counted(sw) ==
  \/ sess' = Received(sw) /\ lost' = lost
  \/ sess' = sess /\ lost' = lost + 1

LEMMA CountedSession ==
  ASSUME CardOK, SessOK, sess.open, NEW sw, Counted(sw), UNCHANGED seeds
  PROVE  /\ SessOK' /\ lost' \in Nat /\ sess'.open /\ sess'.key = sess.key
         /\ \/ lost' = lost /\ sess'.counter = sess.counter + 1 /\ sess'.broken = IsSmError(sw)
            \/ lost' = lost + 1 /\ sess' = sess
<1>1. sess \in Sessions(seeds) /\ lost \in Nat /\ (sess.open <=> sess.key # 0)
  BY DEF CardOK, SessOK
<1>2. CASE sess' = Received(sw) /\ lost' = lost
  <2>1. sess' = [sess EXCEPT !.counter = sess.counter + 1, !.broken = IsSmError(sw)]
    BY <1>2 DEF Received
  <2>2. IsSmError(sw) \in BOOLEAN
    BY DEF IsSmError
  <2>3. /\ sess'.open = sess.open /\ sess'.key = sess.key
        /\ sess'.counter = sess.counter + 1 /\ sess'.broken = IsSmError(sw)
    BY <1>1, <2>1 DEF Sessions
  <2>4. sess.counter \in Nat \ {0}
    BY <1>1 DEF Sessions
  <2>5. sess.counter + 1 \in Nat \ {0}
    BY <2>4
  <2>6. sess' \in Sessions(seeds)
    BY <1>1, <2>1, <2>2, <2>5 DEF Sessions
  <2>7. SessOK'
    BY <1>1, <2>3, <2>6, Zenon DEF SessOK
  <2>. QED  BY <1>1, <1>2, <2>3, <2>7
<1>3. CASE sess' = sess /\ lost' = lost + 1
  BY <1>1, <1>3 DEF SessOK
<1>. QED  BY <1>2, <1>3 DEF Counted

\* An answer under a counter that moves on
LEMMA Advanced ==
  ASSUME CardOK, SessOK, OnlyLossesDrift, BrokenMeansGone, sess.open, ~sess.broken,
         NEW sw \in {"9000", "refused"}, Counted(sw), UNCHANGED <<seeds, skey>>,
         scount' = scount + 1
  PROVE  SessOK' /\ lost' \in Nat /\ OnlyLossesDrift' /\ BrokenMeansGone'
<1>1. /\ SessOK' /\ lost' \in Nat /\ sess'.open /\ sess'.key = sess.key
      /\ \/ lost' = lost /\ sess'.counter = sess.counter + 1 /\ sess'.broken = IsSmError(sw)
         \/ lost' = lost + 1 /\ sess' = sess
  BY CountedSession
<1>2. ~sess'.broken
  BY <1>1 DEF IsSmError
<1>3. scount \in Nat /\ lost \in Nat /\ sess.counter \in Nat
  BY DEF CardOK, SessOK, Sessions
<1>4. sess'.counter + lost' = (sess.counter + lost) + 1
  BY <1>1, <1>3
<1>5. OnlyLossesDrift'
  BY <1>1, <1>3, <1>4 DEF OnlyLossesDrift, Live
<1>6. BrokenMeansGone'
  BY <1>2 DEF BrokenMeansGone
<1>. QED  BY <1>1, <1>5, <1>6
-----------------------------------------------------------------------------
(* Plain commands, and sessions opened and dropped *)

LEMMA PlainInv ==
  ASSUME IInv, Plain
  PROVE  IInv'
<1>1. CASE \E text \in BOOLEAN : SelectApp(text)
  <2>1. PICK text \in BOOLEAN : SelectApp(text)
    BY <1>1
  <2>2. FlagsOK'
    <3>1. inText' = text /\ skey' = 0 /\ pin' = (pin /\ text /\ inText)
      BY <2>1 DEF SelectApp
    <3>2. inText' \in BOOLEAN /\ pin' \in BOOLEAN
      BY <3>1, Zenon
    <3>. QED  BY <3>1, <3>2, Zenon DEF FlagsOK
  <2>3. CardOK' /\ SessOK'
    BY <2>1 DEF SelectApp, IInv, CardOK, SessOK
  <2>4. skey' = 0 /\ (sess'.open => sess'.key # 0) /\ call' = NoCall
    BY <2>1 DEF SelectApp, IInv, SessOK
  <2>5. OnlyLossesDrift' /\ BrokenMeansGone'
    BY <2>4, Gone DEF IInv
  <2>. QED  BY <2>2, <2>3, <2>4, <2>5, Cleared DEF IInv
<1>2. CASE PresentPin
  <2>1. FlagsOK'
    <3>1. inText' = inText /\ inText /\ pin' = TRUE
      BY <1>2 DEF PresentPin
    <3>. QED  BY <3>1, Zenon DEF FlagsOK, IInv
  <2>2. CardOK' /\ SessOK' /\ OnlyLossesDrift' /\ BrokenMeansGone' /\ call' = NoCall
    BY <1>2 DEF PresentPin, IInv, CardOK, SessOK, OnlyLossesDrift, BrokenMeansGone, Live
  <2>. QED  BY <2>1, <2>2, Cleared DEF IInv
<1>3. CASE \E f \in File : PlainSelectEf(f)
  <2>1. /\ FlagsOK' /\ CardOK' /\ SessOK' /\ OnlyLossesDrift' /\ BrokenMeansGone'
        /\ call' = NoCall
    BY <1>3 DEF PlainSelectEf, IInv, FlagsOK, CardOK, SessOK, OnlyLossesDrift, BrokenMeansGone, Live
  <2>. QED  BY <2>1, Cleared DEF IInv
<1>. QED  BY <1>1, <1>2, <1>3 DEF Plain

\* Drawing a seed: the number of every session before it is smaller
LEMMA Delivered ==
  ASSUME IInv, Deliver, skey' \in {skey, seeds + 1}, scount' \in Nat \ {0},
         lost' \in Nat, skey' # 0 => inText /\ pin
  PROVE  /\ FlagsOK' /\ CardOK' /\ CallOK' /\ Results' /\ Running' /\ Selected'
         /\ seeds' = seeds + 1 /\ seeds \in Nat
<1>1. /\ UNCHANGED <<inText, pin, tries>> /\ seeds' = seeds + 1 /\ seeds < MaxSessions
      /\ cef' = cef \/ cef' = KeyEf
      /\ call' = NoCall /\ seeds \in 0..MaxSessions /\ MaxSessions \in Nat
  BY BoundAssumption DEF Deliver, IInv, CardOK
<1>2. FlagsOK'
  BY <1>1, Zenon DEF IInv, FlagsOK
<1>3. cef' \in File \cup {None}
  BY <1>1, FileAssumption DEF IInv, CardOK
<1>4. skey' \in 0..seeds' /\ seeds' \in 0..MaxSessions
  BY <1>1 DEF IInv, CardOK
<1>5. CardOK'
  BY <1>1, <1>3, <1>4 DEF IInv, CardOK
<1>. QED  BY <1>1, <1>2, <1>5, Cleared

LEMMA SessionInv ==
  ASSUME IInv, Session
  PROVE  IInv'
<1>1. CASE Open
  <2>1. /\ Deliver /\ skey' = seeds + 1 /\ scount' = 1 /\ lost' = 0 /\ inText /\ pin
        /\ sess' = [open |-> TRUE, key |-> seeds + 1, counter |-> 1, broken |-> FALSE]
    BY <1>1 DEF Open, Accepted
  <2>2. /\ FlagsOK' /\ CardOK' /\ CallOK' /\ Results' /\ Running' /\ Selected'
        /\ seeds' = seeds + 1 /\ seeds \in Nat
    BY <2>1, Delivered
  <2>3. /\ sess'.open /\ sess'.open \in BOOLEAN /\ sess'.key = seeds + 1 /\ sess'.counter = 1
        /\ ~sess'.broken
    BY <2>1
  <2>4. sess' \in Sessions(seeds') /\ sess'.key # 0
    BY <2>1, <2>2, <2>3 DEF Sessions
  <2>5. SessOK'
    BY <2>3, <2>4, Zenon DEF SessOK
  <2>6. OnlyLossesDrift' /\ BrokenMeansGone'
    BY <2>1, <2>3 DEF OnlyLossesDrift, BrokenMeansGone
  <2>. QED  BY <2>2, <2>5, <2>6 DEF IInv
<1>2. CASE OpenFails
  <2>1. /\ Deliver /\ UNCHANGED <<sess, lost>> /\ ~sess.open
        /\ skey' \in {skey, seeds + 1} /\ scount' \in {1, scount}
        /\ skey' # 0 => inText /\ pin
    BY <1>2 DEF OpenFails, Accepted, IInv, FlagsOK
  <2>2. scount' \in Nat \ {0} /\ lost' \in Nat
    BY <2>1 DEF IInv, CardOK
  <2>3. /\ FlagsOK' /\ CardOK' /\ CallOK' /\ Results' /\ Running' /\ Selected'
        /\ seeds' = seeds + 1 /\ seeds \in Nat
    BY <2>1, <2>2, Delivered
  <2>4. SessOK'
    BY <2>1, <2>3 DEF IInv, SessOK, Sessions
  <2>5. OnlyLossesDrift' /\ BrokenMeansGone'
    BY <2>1 DEF OnlyLossesDrift, BrokenMeansGone
  <2>. QED  BY <2>3, <2>4, <2>5 DEF IInv
<1>3. CASE OpenInside
  <2>1. /\ Deliver /\ UNCHANGED <<sess, lost>> /\ sess.open /\ inText /\ pin
        /\ skey' = seeds + 1 /\ scount' \in 1..MaxCounter
    BY <1>3 DEF OpenInside
  <2>2. scount' \in Nat \ {0} /\ lost' \in Nat
    BY <2>1, BoundAssumption DEF IInv, CardOK
  <2>3. /\ FlagsOK' /\ CardOK' /\ CallOK' /\ Results' /\ Running' /\ Selected'
        /\ seeds' = seeds + 1 /\ seeds \in Nat
    BY <2>1, <2>2, Delivered
  <2>4. SessOK'
    BY <2>1, <2>3 DEF IInv, SessOK, Sessions
  <2>5. sess.key \in 0..seeds
    BY DEF IInv, SessOK, Sessions
  <2>6. skey' # sess'.key
    BY <2>1, <2>3, <2>5
  <2>7. OnlyLossesDrift' /\ BrokenMeansGone'
    BY <2>6 DEF OnlyLossesDrift, BrokenMeansGone, Live
  <2>. QED  BY <2>3, <2>4, <2>7 DEF IInv
<1>4. CASE Drop
  <2>1. UNCHANGED card /\ UNCHANGED <<seeds, lost>> /\ sess' = NoSession /\ call' = NoCall
    BY <1>4 DEF Drop
  <2>2. FlagsOK' /\ CardOK'
    BY <2>1 DEF IInv, FlagsOK, CardOK, card
  <2>3. NoSession \in Sessions(seeds) /\ ~NoSession.open /\ NoSession.key = 0
    BY BoundAssumption DEF NoSession, Sessions, IInv, CardOK
  <2>4. SessOK' /\ OnlyLossesDrift' /\ BrokenMeansGone'
    BY <2>1, <2>3 DEF SessOK, OnlyLossesDrift, BrokenMeansGone
  <2>. QED  BY <2>1, <2>2, <2>4, Cleared DEF IInv
<1>. QED  BY <1>1, <1>2, <1>3, <1>4 DEF Session

\* The record a method starts from
Fresh(c) ==
  /\ c \in CallRecords /\ c.res = None /\ c.out = <<>> /\ c.at # "idle"
  /\ c.at = "select" => c.op \in {"select", "physical", "ef"} /\ c.id \in File /\ c.from = 0
  /\ c.at = "read" => c.op = "read" /\ c.id = cef
  /\ c.at = "verify" => c.op = "verify"

LEMMA FreshCalls ==
  ASSUME CardOK
  PROVE
  /\ \A right \in BOOLEAN :
       Fresh([NoCall EXCEPT !.op = "verify", !.at = "verify", !.right = right])
  /\ \A offset \in Offsets :
       Fresh([NoCall EXCEPT !.op = "read", !.at = "read", !.id = cef, !.from = offset])
  /\ \A f \in File, op \in {"select", "physical", "ef"} :
       Fresh([NoCall EXCEPT !.op = op, !.at = "select", !.id = f])
<1>1. <<>> \in Seq(Part) /\ 0 \in Offsets
  BY ReachAssumption DEF Offsets
<1>2. ASSUME NEW right \in BOOLEAN
      PROVE  Fresh([NoCall EXCEPT !.op = "verify", !.at = "verify", !.right = right])
  <2>1. NoCall \in CallRecords /\ NoCall.res = None /\ NoCall.out = <<>>
    BY <1>1 DEF NoCall, CallRecords
  <2>. QED  BY <2>1 DEF Fresh, CallRecords
<1>3. ASSUME NEW offset \in Offsets
      PROVE  Fresh([NoCall EXCEPT !.op = "read", !.at = "read", !.id = cef, !.from = offset])
  BY <1>1 DEF Fresh, NoCall, CallRecords, CardOK
<1>4. ASSUME NEW f \in File, NEW op \in {"select", "physical", "ef"}
      PROVE  Fresh([NoCall EXCEPT !.op = op, !.at = "select", !.id = f])
  BY <1>1 DEF Fresh, NoCall, CallRecords
<1>. QED  BY <1>2, <1>3, <1>4

LEMMA MethodInv ==
  ASSUME IInv, Method
  PROVE  IInv'
<1>1. PICK c : Begin(c) /\ Fresh(c)
  <2>1. CASE \E right \in BOOLEAN : Verify(right)
    BY <2>1, FreshCalls DEF Verify, IInv
  <2>2. CASE \E offset \in Offsets : ReadBinary(offset)
    BY <2>2, FreshCalls DEF ReadBinary, IInv
  <2>3. CASE \E f \in File : SelectEf(f) \/ ReadEfPhysical(f) \/ ReadEf(f)
    BY <2>3, FreshCalls DEF SelectEf, ReadEfPhysical, ReadEf, IInv
  <2>. QED  BY <2>1, <2>2, <2>3 DEF Method
<1>2. UNCHANGED card /\ UNCHANGED <<sess, seeds, lost>> /\ call' = c /\ sess.open
  BY <1>1 DEF Begin
<1>3. FlagsOK' /\ CardOK' /\ SessOK' /\ OnlyLossesDrift' /\ BrokenMeansGone'
  BY <1>2 DEF IInv, FlagsOK, CardOK, SessOK, OnlyLossesDrift, BrokenMeansGone, Live, card
<1>4. CallOK' /\ Results' /\ Running'
  BY <1>1, <1>2 DEF Fresh, CallOK, Results, ReadsAreRight, OnlyFirstIsGarbled, Running
<1>5. Selected'
  BY <1>1, <1>2 DEF Fresh, Selected, Promised, card
<1>. QED  BY <1>3, <1>4, <1>5 DEF IInv
-----------------------------------------------------------------------------
(* Commands under secure messaging *)

\* Commands that neither count nor reach the card, and the ones a card without the
\* session answers
LEMMA RefusedInv ==
  ASSUME IInv, Broken \/ Misses \/ NoCardSession \/ OutOfStep \/ OffsetTooWide
  PROVE  IInv'
<1>1. CASE Broken \/ Misses \/ OffsetTooWide
  <2>1. Fail /\ UNCHANGED card /\ UNCHANGED <<sess, seeds, lost>>
    BY <1>1 DEF Broken, Misses, Sending, OffsetTooWide
  <2>2. FlagsOK' /\ CardOK' /\ SessOK' /\ OnlyLossesDrift' /\ BrokenMeansGone'
    BY <2>1 DEF IInv, FlagsOK, CardOK, SessOK, OnlyLossesDrift, BrokenMeansGone, Live, card
  <2>. QED  BY <2>1, <2>2, Failed DEF IInv
<1>2. CASE NoCardSession \/ OutOfStep
  <2>1. /\ \E sw \in {"69FC", "6988"} : Counted(sw)
        /\ Fail /\ skey' = 0 /\ ~Idle /\ UNCHANGED <<inText, pin, cef, scount, tries, seeds>>
    BY <1>2 DEF NoCardSession, OutOfStep, Answer, Counted, Sending, card
  <2>2. sess.open
    BY <2>1 DEF IInv, Running
  <2>3. SessOK' /\ lost' \in Nat /\ sess'.key = sess.key /\ sess'.open
    BY <2>1, <2>2, CountedSession DEF IInv
  <2>4. sess'.key # 0
    BY <2>2, <2>3 DEF IInv, SessOK
  <2>5. OnlyLossesDrift' /\ BrokenMeansGone'
    BY <2>1, <2>4, Gone DEF IInv
  <2>6. FlagsOK'
    BY <2>1 DEF IInv, FlagsOK
  <2>7. CardOK'
    BY <2>1, <2>3 DEF IInv, CardOK
  <2>. QED  BY <2>1, <2>3, <2>5, <2>6, <2>7, Failed DEF IInv
<1>. QED  BY <1>1, <1>2

\* What a command that the card has carried out does to the two counters
LEMMA AdvancedInv ==
  ASSUME IInv, Sending, Advance, NEW sw \in {"9000", "refused"}, Counted(sw),
         cef' \in File \cup {None}, tries' \in 0..MaxTries
  PROVE  /\ FlagsOK' /\ CardOK' /\ SessOK' /\ OnlyLossesDrift' /\ BrokenMeansGone'
         /\ sess' = Received(sw) /\ InStep => InStep'
<1>1. /\ ~Idle /\ ~sess.broken /\ sess.open /\ seeds' = seeds
      /\ scount' = scount + 1 /\ UNCHANGED <<inText, pin, skey>>
  BY DEF Sending, Advance, IInv, Running
<1>2. SessOK' /\ lost' \in Nat /\ OnlyLossesDrift' /\ BrokenMeansGone'
  BY <1>1, Advanced DEF IInv
<1>3. FlagsOK'
  BY <1>1 DEF IInv, FlagsOK
<1>4. CardOK'
  BY <1>1, <1>2 DEF IInv, CardOK
<1>5. ASSUME sess' = Received(sw), InStep PROVE InStep'
  <2>1. sess' = [sess EXCEPT !.counter = sess.counter + 1, !.broken = IsSmError(sw)]
    BY <1>5 DEF Received
  <2>2. sess'.key = sess.key /\ sess'.counter = sess.counter + 1
    BY <2>1 DEF IInv, SessOK, Sessions
  <2>. QED  BY <1>1, <1>5, <2>2 DEF InStep, Live
<1>. QED  BY <1>2, <1>3, <1>4, <1>5

LEMMA VerifiesInv ==
  ASSUME IInv, CardVerifies
  PROVE  IInv'
<1>1. /\ Sending /\ Advance /\ cef' = cef /\ call.op = "verify" /\ tries \in 0..MaxTries
      /\ MaxTries \in Nat
  BY TriesAssumption DEF CardVerifies, IInv, Running, CardOK
<1>2. /\ \E sw \in {"9000", "refused"} : Counted(sw)
      /\ Fail \/ Return("ok", <<>>)
      /\ tries' \in {MaxTries, 0, tries - 1} /\ (tries' = tries - 1 => tries > 0 \/ tries' = 0)
  <2>1. CASE tries > 0 /\ call.right
    <3>1. tries' = MaxTries /\ Answer("9000", Return("ok", <<>>))
      BY <2>1 DEF CardVerifies
    <3>. QED  BY <1>1, <3>1 DEF Answer, Counted
  <2>2. CASE ~(tries > 0 /\ call.right)
    <3>1. tries' = (IF tries > 0 THEN tries - 1 ELSE 0) /\ Answer("refused", Fail)
      BY <2>2 DEF CardVerifies
    <3>. QED  BY <1>1, <3>1 DEF Answer, Counted
  <2>. QED  BY <2>1, <2>2
<1>3. tries' \in 0..MaxTries
  BY <1>1, <1>2
<1>4. cef' \in File \cup {None}
  BY <1>1 DEF IInv, CardOK
<1>5. FlagsOK' /\ CardOK' /\ SessOK' /\ OnlyLossesDrift' /\ BrokenMeansGone'
  BY <1>1, <1>2, <1>3, <1>4, AdvancedInv
<1>6. CASE Return("ok", <<>>)
  <2>1. <<>> \in Seq(Part)
    OBVIOUS
  <2>2. [call EXCEPT !.at = "idle", !.res = "ok", !.out = <<>>].op = "verify"
    BY <1>1 DEF IInv, CallOK, CallRecords
  <2>3. RightResult([call EXCEPT !.at = "idle", !.res = "ok", !.out = <<>>])
    BY <2>2 DEF RightResult, Promised
  <2>. QED  BY <1>5, <1>6, <2>1, <2>3, Returned DEF IInv
<1>7. CASE Fail
  BY <1>5, <1>7, Failed DEF IInv
<1>. QED  BY <1>2, <1>6, <1>7

LEMMA SelectsInv ==
  ASSUME IInv, CardSelects
  PROVE  IInv'
<1>1. /\ Sending /\ Advance /\ InStep /\ call.at = "select" /\ tries' = tries
      /\ call.op \in {"select", "physical", "ef"} /\ call.id \in File /\ call.out = <<>>
      /\ call.res = None /\ call.from = 0
  BY DEF CardSelects, IInv, Running
<1>2. tries' \in 0..MaxTries
  BY <1>1 DEF IInv, CardOK
<1>3. CASE Fail /\ cef' \in File \cup {None} /\ \E sw \in {"9000", "refused"} : Counted(sw)
  <2>1. FlagsOK' /\ CardOK' /\ SessOK' /\ OnlyLossesDrift' /\ BrokenMeansGone'
    BY <1>1, <1>2, <1>3, AdvancedInv
  <2>. QED  BY <1>3, <2>1, Failed DEF IInv
<1>4. CASE /\ sess' = Received("9000") /\ lost' = lost /\ cef' = call.id
           /\ IF call.op = "select" THEN Return("ok", <<>>)
                                    ELSE call' = [call EXCEPT !.at = "read"]
  <2>1. Counted("9000") /\ cef' \in File \cup {None}
    BY <1>1, <1>4 DEF Counted
  <2>2. FlagsOK' /\ CardOK' /\ SessOK' /\ OnlyLossesDrift' /\ BrokenMeansGone' /\ InStep'
    BY <1>1, <1>2, <1>4, <2>1, AdvancedInv
  <2>3. CASE call.op = "select"
    <3>1. <<>> \in Seq(Part)
      OBVIOUS
    <3>2. [call EXCEPT !.at = "idle", !.res = "ok", !.out = <<>>].op = "select"
      BY <2>3 DEF IInv, CallOK, CallRecords
    <3>3. RightResult([call EXCEPT !.at = "idle", !.res = "ok", !.out = <<>>])
      BY <3>2 DEF RightResult, Promised
    <3>. QED  BY <1>4, <2>2, <2>3, <3>1, <3>3, Returned DEF IInv
  <2>4. CASE call.op # "select"
    <3>1. call' = [call EXCEPT !.at = "read"]
      BY <1>4, <2>4
    <3>2. /\ call' \in CallRecords /\ call'.at = "read" /\ call'.op = call.op
          /\ call'.id = call.id /\ call'.out = <<>> /\ call'.res = None /\ call'.from = call.from
      BY <1>1, <3>1 DEF IInv, CallOK, CallRecords
    <3>3. <<>> = Parts(call.id, 0) /\ Len(<<>>) = 0 /\ 0 <= Size[call.id]
      BY <1>1, SizeAssumption DEF Parts
    <3>4. Selected'
      BY <1>1, <1>4, <2>2, <2>4, <3>2, <3>3 DEF Selected, Parts
    <3>5. sess'.open
      BY <1>1, <2>1, CountedSession DEF IInv, Running, Sending, Advance
    <3>6. CallOK' /\ Results' /\ Running'
      BY <1>1, <2>4, <3>2, <3>5 DEF CallOK, Results, ReadsAreRight, OnlyFirstIsGarbled, Running
    <3>. QED  BY <2>2, <3>4, <3>6 DEF IInv
  <2>. QED  BY <2>3, <2>4
<1>5. \/ Fail /\ cef' \in File \cup {None} /\ \E sw \in {"9000", "refused"} : Counted(sw)
      \/ /\ sess' = Received("9000") /\ lost' = lost /\ cef' = call.id
         /\ IF call.op = "select" THEN Return("ok", <<>>)
                                  ELSE call' = [call EXCEPT !.at = "read"]
  BY <1>1 DEF CardSelects, Answer, Counted, IInv, CardOK
<1>. QED  BY <1>3, <1>4, <1>5

\* What decrypt makes of k parts of f from d on: the parts themselves but for the first,
\* and that too in step
IsPiece(plain, f, d, k) ==
  /\ plain \in Seq(Part)
  /\ InStep => plain = [i \in 1..k |-> <<f, d + i>>]
  /\ \A i \in 1..Len(plain) : plain[i] = <<f, d + i>> \/ (i = 1 /\ plain[i] = Garbled)

LEMMA Decrypted ==
  ASSUME NEW f \in File, NEW d \in Nat, NEW k \in Nat,
         NEW plain \in Plaintext([i \in 1..k |-> <<f, d + i>>])
  PROVE  IsPiece(plain, f, d, k)
<1>. DEFINE parts == [i \in 1..k |-> <<f, d + i>>]
<1>1. /\ parts \in Seq(Part) /\ Len(parts) = k
      /\ \A i \in 1..k : parts[i] = <<f, d + i>>
  <2>1. \A i \in 1..k : <<f, d + i>> \in Part
    BY DEF Part
  <2>2. parts \in [1..k -> Part] /\ \A i \in 1..k : parts[i] = <<f, d + i>>
    BY <2>1, Zenon
  <2>. HIDE DEF parts
  <2>. QED  BY <2>2
<1>2. Garbled \in Part
  BY DEF Part
<1>3. plain \in Plaintext(parts)
  OBVIOUS
<1>4. parts = [i \in 1..k |-> <<f, d + i>>]
  OBVIOUS
<1>. HIDE DEF parts
<1>5. CASE plain = parts
  BY <1>1, <1>4, <1>5 DEF IsPiece
<1>6. CASE ~InStep /\ parts # <<>> /\ plain = [parts EXCEPT ![1] = Garbled]
  <2>1. plain \in Seq(Part) /\ Len(plain) = k
    BY <1>1, <1>2, <1>6, ExceptSeq
  <2>2. \A i \in 1..k : plain[i] = <<f, d + i>> \/ (i = 1 /\ plain[i] = Garbled)
    BY <1>1, <1>6
  <2>. QED  BY <1>6, <2>1, <2>2 DEF IsPiece
<1>. QED  BY <1>3, <1>5, <1>6 DEF Plaintext

\* With 15 bits the card finds the place meant; where it finds any, it is in a file
LEMMA Placed ==
  ASSUME IInv, call.at = "read", NEW place \in Places(Position), place[1] \in File
  PROVE  /\ place[2] \in Nat /\ Position \in Nat
         /\ Position < Reach => place[1] = cef /\ place[2] = Position
<1>1. call \in CallRecords /\ call.from \in Nat /\ Len(call.out) \in Nat
  BY ReachAssumption DEF IInv, CallOK, CallRecords, Offsets
<1>2. Position \in Nat
  BY <1>1 DEF Position
<1>. QED  BY <1>2, ReachAssumption DEF Places

\* A read that ReadsAreRight speaks of starts where it has got to, and 15 bits do for that
LEMMA PromisedPlace ==
  ASSUME IInv, call.at = "read", Promised(call)
  PROVE  /\ call.id \in File /\ cef = call.id /\ Len(call.out) \in Nat
         /\ Position = Len(call.out) /\ Position < Reach
<1>. DEFINE done == Len(call.out)
<1>1. /\ call.id \in File /\ call.from = 0 /\ done \in Nat /\ cef = call.id
      /\ call.out \in Seq(Part) /\ done <= Size[cef]
      /\ call.out # <<>> => Parsing /\ done < Object[call.id]
  BY DEF IInv, Running, Selected, CallOK, CallRecords, Promised
<1>2. Size[cef] \in Nat \ {0} /\ Object[call.id] \in Nat
  BY <1>1, SizeAssumption, ObjectAssumption
<1>3. call.out = <<>> => done = 0
  OBVIOUS
<1>. HIDE DEF done
<1>4. Position = done
  BY <1>1 DEF Position, done
<1>5. CASE call.out = <<>>
  BY <1>1, <1>3, <1>4, <1>5, ReachAssumption DEF done
<1>6. CASE call.out # <<>>
  <2>1. InReach(call.id)
    BY <1>1, <1>6 DEF Promised, Parsing
  <2>2. done < Reach
    BY <1>1, <1>2, <1>6, <2>1, ReachAssumption DEF InReach
  <2>. QED  BY <1>1, <1>4, <2>2 DEF done
<1>. QED  BY <1>5, <1>6

\* It asks for parts that are there, and gets none at the end of the file alone
LEMMA PromisedCount ==
  ASSUME IInv, call.at = "read", Promised(call), NEW k \in Counts(cef, Len(call.out))
  PROVE  /\ k \in Nat /\ Len(call.out) + k <= Size[cef]
         /\ k = 0 => Parsing /\ Len(call.out) = Size[cef]
         /\ call.out = <<>> /\ cef \in AtOnce => k = Size[cef]
<1>. DEFINE done   == Len(call.out)
            left   == IF done < Size[cef] THEN Size[cef] - done ELSE 0
            wanted == IF call.out = <<>> THEN left ELSE Least(left, Object[call.id] - done)
<1>1. /\ done \in Nat /\ done <= Size[cef] /\ Size[cef] \in Nat \ {0}
      /\ call.out = <<>> => done = 0
      /\ call.out # <<>> => Parsing /\ done < Object[call.id] /\ Object[call.id] \in Nat
  BY PromisedPlace, SizeAssumption, ObjectAssumption DEF IInv, Selected
<1>0. call.op # "read"
  BY DEF Promised
<1>2. /\ k \in 0..wanted /\ (k = 0 => wanted = 0)
      /\ call.out = <<>> /\ cef \in AtOnce => k = left
  BY <1>0 DEF Counts
<1>. HIDE DEF done
<1>3. left = Size[cef] - done /\ left \in Nat
  BY <1>1
<1>. HIDE DEF left
<1>4. wanted \in Nat /\ wanted <= left /\ (wanted = 0 => call.out # <<>> /\ left = 0)
  BY <1>1, <1>3 DEF Least
<1>. HIDE DEF wanted
<1>5. /\ k \in Nat /\ done + k <= Size[cef] /\ (k = 0 => Parsing /\ done = Size[cef])
      /\ call.out = <<>> /\ cef \in AtOnce => k = Size[cef]
  BY <1>1, <1>2, <1>3, <1>4
<1>. QED  BY <1>5 DEF done

\* A piece that was read and decrypted
LEMMA PieceInv ==
  ASSUME IInv, Sending, Advance, call.at = "read", tries' = tries,
         NEW f \in File, NEW d \in Nat, Position < Reach => f = cef /\ d = Position,
         cef' = f, NEW k \in Nat, k \in Counts(f, d), sess' = Received("9000"), lost' = lost,
         NEW plain, IsPiece(plain, f, d, k), GotPart(plain)
  PROVE  IInv'
<1>. DEFINE done == Len(call.out)
            o    == call.out \o plain
<1>1. /\ call.op \in {"read", "physical", "ef"} /\ call.res = None /\ call.out \in Seq(Part)
      /\ done \in Nat /\ call \in CallRecords
      /\ call.op \in {"physical", "ef"} => call.id \in File
  BY DEF IInv, Running, CallOK, CallRecords
<1>2. /\ plain \in Seq(Part)
      /\ InStep => plain = [i \in 1..k |-> <<f, d + i>>]
      /\ \A i \in 1..Len(plain) : plain[i] = <<f, d + i>> \/ (i = 1 /\ plain[i] = Garbled)
  BY DEF IsPiece
<1>3. Counted("9000") /\ cef' \in File \cup {None} /\ tries' \in 0..MaxTries
  BY DEF Counted, IInv, CardOK
<1>4. /\ FlagsOK' /\ CardOK' /\ SessOK' /\ OnlyLossesDrift' /\ BrokenMeansGone'
      /\ InStep => InStep'
  BY <1>3, AdvancedInv
<1>5. sess'.open
  BY <1>3, CountedSession DEF IInv, Running, Sending, Advance
<1>6. o \in Seq(Part) /\ Len(o) \in Nat
  BY <1>1, <1>2, ConcatProperties
\* What a promised read has got: the file up to there, in step
<1>7. Promised(call) =>
        /\ InStep /\ f = call.id /\ cef = call.id /\ o = Parts(call.id, done + k)
        /\ Len(o) = done + k /\ done + k \in 0..Size[call.id]
        /\ plain = <<>> => Parsing /\ done = Size[call.id] /\ done < Object[call.id]
        /\ plain # <<>> => done + k \in 1..Size[call.id]
        /\ ~Parsing /\ call.id \in AtOnce => done + k = Size[call.id]
  <2>1. SUFFICES ASSUME Promised(call)
                 PROVE  /\ InStep /\ f = call.id /\ cef = call.id /\ o = Parts(call.id, done + k)
                        /\ Len(o) = done + k /\ done + k \in 0..Size[call.id]
                        /\ plain = <<>> => Parsing /\ done = Size[call.id] /\ done < Object[call.id]
                        /\ plain # <<>> => done + k \in 1..Size[call.id]
                        /\ ~Parsing /\ call.id \in AtOnce => done + k = Size[call.id]
    OBVIOUS
  <2>2. /\ InStep /\ cef = call.id /\ call.out = Parts(call.id, done)
        /\ call.out # <<>> => Parsing /\ done < Object[call.id]
    BY <2>1 DEF IInv, Selected
  <2>3. call.id \in File
    BY <1>1, <2>1 DEF Promised
  <2>4. Position = done /\ Position < Reach
    BY <2>1, PromisedPlace
  <2>5. f = cef /\ d = done
    BY <2>4
  <2>6. k \in Counts(cef, Len(call.out))
    BY <2>5
  <2>7. /\ Len(call.out) + k <= Size[cef]
        /\ k = 0 => Parsing /\ Len(call.out) = Size[cef]
        /\ call.out = <<>> /\ cef \in AtOnce => k = Size[cef]
    BY <2>1, <2>6, PromisedCount
  <2>8. plain = [i \in 1..k |-> <<call.id, done + i>>]
    BY <1>2, <2>2, <2>5
  <2>9. Len(plain) = k
    BY <2>8
  <2>10. Size[call.id] \in Nat \ {0}
    BY <2>3, SizeAssumption
  <2>11. o = Parts(call.id, done) \o [i \in 1..k |-> <<call.id, done + i>>]
    BY <2>2, <2>8
  <2>12. call.out = <<>> => done = 0
    OBVIOUS
  <2>. HIDE DEF done, o
  <2>13. o = Parts(call.id, done + k) /\ done + k \in Nat
    <3>1. done \in Nat /\ done + k \in Nat
      BY <1>1
    <3>2. Parts(call.id, done) \o [i \in 1..k |-> <<call.id, done + i>>] = Parts(call.id, done + k)
      BY <3>1, PartsJoin
    <3>. QED  BY <2>11, <3>1, <3>2
  <2>14. Len(o) = done + k
    BY <2>3, <2>13, PartsAre
  <2>15. done + k \in 0..Size[call.id]
    BY <1>1, <2>2, <2>7, <2>10 DEF done
  <2>16. plain = <<>> => Parsing /\ done = Size[call.id] /\ done < Object[call.id]
    <3>1. plain = <<>> => k = 0
      BY <2>9
    <3>2. k = 0 => Parsing /\ done = Size[call.id]
      BY <2>2, <2>7 DEF done
    <3>3. k = 0 => call.out # <<>>
      BY <2>10, <2>12, <3>2
    <3>. QED  BY <2>2, <3>1, <3>2, <3>3
  <2>17. plain # <<>> => done + k \in 1..Size[call.id]
    <3>1. plain # <<>> => k # 0
      BY <1>2, <2>9
    <3>. QED  BY <1>1, <2>15, <3>1
  <2>18. ~Parsing /\ call.id \in AtOnce => done + k = Size[call.id]
    BY <1>1, <2>2, <2>7, <2>12
  <2>. QED  BY <2>2, <2>5, <2>13, <2>14, <2>15, <2>16, <2>17, <2>18
<1>8. CASE (~Parsing \/ plain = <<>>) /\ Return("ok", o)
  <2>. DEFINE c == [call EXCEPT !.at = "idle", !.res = "ok", !.out = o]
  <2>1. c.op = call.op /\ c.id = call.id /\ c.from = call.from /\ c.out = o
    BY <1>1 DEF CallRecords
  <2>2. ASSUME Promised(c)
        PROVE  /\ o = [i \in 1..Len(o) |-> <<call.id, i>>]
               /\ IF call.op = "ef" /\ Object[call.id] # 0
                    THEN Len(o) = Least(Object[call.id], Size[call.id])
                    ELSE /\ Len(o) \in 1..Size[call.id]
                         /\ call.id \in AtOnce => Len(o) = Size[call.id]
    <3>1. Promised(call)
      BY <2>1, <2>2 DEF Promised
    <3>2. o = [i \in 1..Len(o) |-> <<call.id, i>>]
      BY <1>7, <3>1 DEF Parts
    <3>. HIDE DEF done, o
    <3>3. CASE Parsing
      <4>1. /\ done = Size[call.id] /\ done < Object[call.id] /\ Len(o) = done + k
            /\ done + k \in 0..Size[call.id]
        BY <1>7, <1>8, <3>1, <3>3
      <4>2. Size[call.id] \in Nat /\ Object[call.id] \in Nat
        BY <1>1, <3>1, SizeAssumption, ObjectAssumption DEF Promised
      <4>3. Len(o) = Least(Object[call.id], Size[call.id])
        BY <1>1, <4>1, <4>2 DEF Least
      <4>. QED  BY <3>2, <3>3, <4>3 DEF Parsing
    <3>4. CASE ~Parsing
      <4>1. Len(o) \in 1..Size[call.id] /\ (call.id \in AtOnce => Len(o) = Size[call.id])
        BY <1>7, <3>1, <3>4
      <4>. QED  BY <3>2, <3>4, <4>1 DEF Parsing
    <3>. QED  BY <3>3, <3>4
  <2>3. ASSUME call.op = "read", call.from < Reach, NEW i \in 1..Len(o)
        PROVE  o[i] = <<call.id, call.from + i>> \/ (i = 1 /\ o[i] = Garbled)
    <3>1. cef = call.id /\ call.out = <<>>
      BY <2>3 DEF IInv, Selected
    <3>2. o = plain
      BY <1>2, <3>1
    <3>3. Position = call.from
      BY <1>1, <3>1, ReachAssumption DEF Position, CallRecords, Offsets
    <3>4. f = call.id /\ d = call.from
      BY <2>3, <3>1, <3>3
    <3>. QED  BY <1>2, <3>2, <3>4
  <2>4. RightResult(c)
    BY <2>1, <2>2, <2>3 DEF RightResult
  <2>. QED  BY <1>4, <1>6, <1>8, <2>4, Returned DEF IInv
<1>9. CASE /\ Parsing /\ plain # <<>> /\ Len(o) < Object[call.id]
            /\ call' = [call EXCEPT !.out = o]
  <2>1. /\ call' \in CallRecords /\ call'.at = "read" /\ call'.op = "ef"
        /\ call'.id = call.id /\ call'.out = o /\ call'.res = None /\ call'.from = call.from
    BY <1>1, <1>6, <1>9 DEF CallRecords, Parsing
  <2>2. CallOK' /\ Results' /\ Running'
    <3>1. call.op = "ef" /\ call.id \in File /\ call.from = 0
      BY <1>9 DEF IInv, Running, Parsing
    <3>. QED  BY <1>5, <2>1, <3>1 DEF CallOK, Results, ReadsAreRight, OnlyFirstIsGarbled, Running
  <2>3. Promised(call') => Promised(call)
    BY <1>9, <2>1 DEF Promised, Parsing, InReach
  <2>4. Promised(call) => o = Parts(call.id, Len(o)) /\ Len(o) <= Size[call.id]
    <3>. HIDE DEF done, o
    <3>. QED  BY <1>7
  <2>5. Promised(call) => f = call.id /\ InStep'
    BY <1>4, <1>7
  <2>6. Parsing'
    BY <1>9, <2>1 DEF Parsing
  <2>. HIDE DEF done, o
  <2>7. Selected'
    BY <1>9, <2>1, <2>3, <2>4, <2>5, <2>6 DEF Selected, Parts
  <2>. QED  BY <1>4, <2>2, <2>7 DEF IInv
<1>10. CASE /\ Parsing /\ plain # <<>> /\ ~(Len(o) < Object[call.id])
            /\ Return("ok", SubSeq(o, 1, Object[call.id]))
  <2>. DEFINE n == Object[call.id]
              r == SubSeq(o, 1, n)
              c == [call EXCEPT !.at = "idle", !.res = "ok", !.out = r]
  <2>1. c.op = "ef" /\ c.id = call.id /\ c.out = r
    BY <1>1, <1>10 DEF CallRecords, Parsing
  <2>2. call.id \in File /\ n \in Nat \ {0} /\ n <= Len(o) /\ Size[call.id] \in Nat
    <3>1. call.id \in File /\ n # 0
      BY <1>1, <1>10 DEF Parsing
    <3>2. n \in Nat /\ Size[call.id] \in Nat
      BY <3>1, SizeAssumption, ObjectAssumption
    <3>. HIDE DEF o
    <3>. QED  BY <1>6, <1>10, <3>1, <3>2
  <2>3. r \in Seq(Part) /\ Len(r) = n
    <3>. HIDE DEF o, n
    <3>1. n \in 1..Len(o)
      BY <1>6, <2>2
    <3>. QED  BY <1>6, <3>1
  <2>4. ASSUME Promised(c)
        PROVE  /\ r = [i \in 1..n |-> <<call.id, i>>]
               /\ n = Least(Object[call.id], Size[call.id])
    <3>1. Promised(call)
      BY <1>10, <2>1, <2>4 DEF Promised, Parsing
    <3>2. o = Parts(call.id, done + k) /\ Len(o) = done + k /\ done + k \in 0..Size[call.id]
      BY <1>7, <3>1
    <3>. HIDE DEF done, o, n
    <3>3. n \in 0..done + k /\ done + k \in Nat
      BY <1>1, <2>2, <3>2
    <3>4. SubSeq(Parts(call.id, done + k), 1, n) = Parts(call.id, n)
      BY <3>3, PartsFront, Zenon
    <3>5. n = Least(n, Size[call.id])
      BY <2>2, <3>2, <3>3 DEF Least
    <3>. QED  BY <3>2, <3>4, <3>5 DEF Parts, n
  <2>. HIDE DEF n, r
  <2>5. RightResult(c)
    BY <1>10, <2>1, <2>3, <2>4 DEF RightResult, Parsing
  <2>. QED  BY <1>4, <1>10, <2>3, <2>5, Returned DEF IInv, n, r
<1>. QED  BY <1>8, <1>9, <1>10, Zenon DEF GotPart

LEMMA ReadsInv ==
  ASSUME IInv, CardReads
  PROVE  IInv'
<1>1. Sending /\ Advance /\ call.at = "read" /\ tries' = tries
  BY DEF CardReads
<1>2. CASE Fail /\ cef' \in File \cup {None} /\ \E sw \in {"9000", "refused"} : Counted(sw)
  <2>1. tries' \in 0..MaxTries
    BY <1>1 DEF IInv, CardOK
  <2>2. FlagsOK' /\ CardOK' /\ SessOK' /\ OnlyLossesDrift' /\ BrokenMeansGone'
    BY <1>1, <1>2, <2>1, AdvancedInv
  <2>. QED  BY <1>2, <2>2, Failed DEF IInv
<1>3. \/ Fail /\ cef' \in File \cup {None} /\ \E sw \in {"9000", "refused"} : Counted(sw)
      \/ \E place \in Places(Position) :
           /\ place[1] \in File /\ cef' = place[1]
           /\ sess' = Received("9000") /\ lost' = lost
           /\ \E k \in Counts(place[1], place[2]) :
              \E plain \in Plaintext([i \in 1..k |-> <<place[1], place[2] + i>>]) : GotPart(plain)
  <2>1. cef \in File \cup {None}
    BY DEF IInv, CardOK
  <2>. QED  BY <2>1 DEF CardReads, Answer, Counted
<1>4. ASSUME NEW place \in Places(Position), place[1] \in File, cef' = place[1],
             sess' = Received("9000"), lost' = lost, NEW k \in Counts(place[1], place[2]),
             NEW plain \in Plaintext([i \in 1..k |-> <<place[1], place[2] + i>>]),
             GotPart(plain)
      PROVE  IInv'
  <2>1. place[2] \in Nat /\ (Position < Reach => place[1] = cef /\ place[2] = Position)
    BY <1>1, <1>4, Placed
  <2>2. k \in Nat
    BY DEF Counts
  <2>3. IsPiece(plain, place[1], place[2], k)
    BY <1>4, <2>1, <2>2, Decrypted, Zenon
  <2>. QED  BY <1>1, <1>4, <2>1, <2>2, <2>3, PieceInv
<1>. QED  BY <1>2, <1>3, <1>4

LEMMA StepInv == IInv /\ [Next]_vars => IInv'
<1>1. SUFFICES ASSUME IInv, [Next]_vars PROVE IInv'
  OBVIOUS
<1>2. CASE Plain
  BY <1>1, <1>2, PlainInv
<1>3. CASE Session
  BY <1>1, <1>3, SessionInv
<1>4. CASE Method
  BY <1>1, <1>4, MethodInv
<1>5. CASE Command
  BY <1>1, <1>5, RefusedInv, VerifiesInv, SelectsInv, ReadsInv DEF Command
<1>6. CASE UNCHANGED vars
  BY <1>1, <1>6 DEF vars, IInv, FlagsOK, CardOK, SessOK, CallOK, OnlyLossesDrift, BrokenMeansGone,
     Results, ReadsAreRight, OnlyFirstIsGarbled, Running, Selected, Promised, Parsing, InStep, Live
<1>. QED  BY <1>1, <1>2, <1>3, <1>4, <1>5, <1>6 DEF Next
-----------------------------------------------------------------------------
(* The theorems *)

LEMMA Invariant == Spec => []IInv
BY InitInv, StepInv, PTL DEF Spec

\* The types hold, and the card holds a session key only of a text application whose
\* PIN has been presented, for any files and any number of sessions.
THEOREM SessionTypes == Spec => []TypeOK
<1>1. IInv => TypeOK
  BY TypeParts DEF IInv
<1>. QED  BY <1>1, Invariant, PTL

\* However many replies are lost, the card is ahead of the program by exactly those.
THEOREM DriftIsLoss == Spec => []OnlyLossesDrift
<1>1. IInv => OnlyLossesDrift
  BY DEF IInv
<1>. QED  BY <1>1, Invariant, PTL

\* A session the program has given up is one that the card does not hold.
THEOREM BrokenIsGone == Spec => []BrokenMeansGone
<1>1. IInv => BrokenMeansGone
  BY DEF IInv
<1>. QED  BY <1>1, Invariant, PTL

\* read_ef returns the object of the file it names whole, read_ef_physical a non-empty
\* part of the file from its start, and all of it where the card answers the file at
\* once; neither ever returns garbled or misplaced data, whatever was lost before and
\* whatever the sizes of the files and of their objects.
THEOREM NamedReadsAreRight == Spec => []ReadsAreRight
<1>1. IInv => ReadsAreRight
  BY DEF IInv, Results
<1>. QED  BY <1>1, Invariant, PTL

\* read_binary returns what the current EF holds there, but for a first block that a lost
\* reply may have garbled, for every offset that the card takes for one.
THEOREM OneBlockGarbled == Spec => []OnlyFirstIsGarbled
<1>1. IInv => OnlyFirstIsGarbled
  BY DEF IInv, Results
<1>. QED  BY <1>1, Invariant, PTL

\* Drift does not outlive the next VERIFY or SELECT that is answered.
THEOREM DriftNoticed == Spec => DriftIsNoticed
<1>1. IInv /\ [Next]_vars =>
        [call.at \in {"verify", "select"} /\ ~InStep /\ sess'.counter > sess.counter
           => sess'.broken]_vars
  <2>1. SUFFICES ASSUME IInv, Next, call.at \in {"verify", "select"}, ~InStep,
                        sess'.counter > sess.counter
                 PROVE  sess'.broken
    BY DEF IInv
  <2>2. sess.counter \in Nat /\ sess \in Sessions(seeds)
    BY <2>1 DEF IInv, SessOK, Sessions
  <2>3. sess' # sess
    BY <2>1, <2>2
  <2>4. NoCardSession \/ OutOfStep
    BY <2>1, <2>3 DEF Next, Plain, SelectApp, PresentPin, PlainSelectEf, Session, Open, OpenFails,
       OpenInside, Drop, Deliver, Method, Verify, ReadBinary, SelectEf, ReadEfPhysical, ReadEf,
       Begin, Command, Broken, Misses, CardVerifies, CardSelects, CardReads, OffsetTooWide
  <2>5. \E sw \in {"69FC", "6988"} : sess' = Received(sw)
    BY <2>3, <2>4 DEF NoCardSession, OutOfStep, Answer
  <2>. QED  BY <2>2, <2>5 DEF Received, IsSmError, Sessions
<1>. QED  BY <1>1, Invariant, PTL DEF Spec, DriftIsNoticed
=============================================================================
