------------------------- MODULE ApduExchange_proofs -------------------------
(***************************************************************************)
(* Proofs about ApduExchange, for an Le and an answer of any size: the     *)
(* types, that a command is carried out at most once, that no call takes   *)
(* more transmissions than its answer has bytes and the card keeps waiting *)
(* for, and that every step of Card::call is a step of the exchange it     *)
(* promises (module Exchange) or one that its caller does not see.         *)
(***************************************************************************)
EXTENDS ApduExchange, SequenceTheorems, TLAPS

(* Sequences *)

\* A sequence cut in two.
LEMMA Cut ==
  ASSUME NEW S, NEW s \in Seq(S), NEW k \in 0..Len(s)
  PROVE  /\ SubSeq(s, 1, k) \in Seq(S) /\ Len(SubSeq(s, 1, k)) = k
         /\ SubSeq(s, k + 1, Len(s)) \in Seq(S)
         /\ SubSeq(s, 1, k) \o SubSeq(s, k + 1, Len(s)) = s
<1>. DEFINE a == SubSeq(s, 1, k)  b == SubSeq(s, k + 1, Len(s))
<1>1. Len(s) \in Nat /\ \A i \in 1..Len(s) : s[i] \in S
  OBVIOUS
<1>2. /\ a \in Seq(S) /\ Len(a) = k
      /\ \A i \in 1..k : a[i] = s[i]
  <2>1. /\ a \in Seq(S)
        /\ Len(a) = IF 1 <= k THEN k - 1 + 1 ELSE 0
        /\ \A i \in 1..k - 1 + 1 : a[i] = s[1 + i - 1]
    BY <1>1, SubSeqProperties
  <2>. QED  BY <1>1, <2>1
<1>3. /\ b \in Seq(S) /\ Len(b) = Len(s) - k
      /\ \A i \in 1..Len(s) - k : b[i] = s[k + i]
  <2>1. /\ b \in Seq(S)
        /\ Len(b) = IF k + 1 <= Len(s) THEN Len(s) - (k + 1) + 1 ELSE 0
        /\ \A i \in 1..Len(s) - (k + 1) + 1 : b[i] = s[k + 1 + i - 1]
    <3>1. \A i \in k + 1..Len(s) : s[i] \in S
      BY <1>1
    <3>. QED  BY <1>1, <3>1, SubSeqProperties
  <2>. QED  BY <1>1, <2>1
<1>. HIDE DEF a, b
<1>4. /\ a \o b \in Seq(S) /\ Len(a \o b) = Len(s)
      /\ \A i \in 1..Len(s) : (a \o b)[i] = IF i <= k THEN a[i] ELSE b[i - k]
  BY <1>1, <1>2, <1>3, ConcatProperties
<1>5. \A i \in 1..Len(s) : (a \o b)[i] = s[i]
  BY <1>1, <1>2, <1>3, <1>4
<1>6. a \o b = s
  BY <1>4, <1>5, SeqEqual
<1>. QED  BY <1>2, <1>3, <1>6 DEF a, b

\* Nothing adds nothing.
LEMMA Empty ==
  ASSUME NEW S, NEW s \in Seq(S)
  PROVE  <<>> \in Seq(S) /\ <<>> \o s = s /\ s \o <<>> = s /\ SubSeq(s, 1, 0) = <<>>
         /\ SubSeq(s, Len(s) + 1, Len(s)) = <<>> /\ SubSeq(s, 1, Len(s)) = s
OBVIOUS
\* What was there before something was joined to it is the front of the whole.
LEMMA FrontOfJoined ==
  ASSUME NEW S, NEW s \in Seq(S), NEW t \in Seq(S)
  PROVE  SubSeq(s \o t, 1, Len(s)) = s /\ Len(s \o t) >= Len(s)
OBVIOUS
-----------------------------------------------------------------------------
(* The inductive invariant *)

Piece == Seq(1..MaxAnswer)

\* What has been collected and what the card still holds make up its answer, and
\* nothing was carried out before the command or its correction is answered
Collecting ==
  /\ at \in {"command", "retry"} => acted = 0 /\ data = <<>> /\ pending = answer.data
  /\ at = "collect" => data \o pending = answer.data

\* Every transmission so far but the first two brought a byte or was held back
Turned ==
  /\ at = "command" => sent = 0
  /\ at = "retry" => sent = 1
  /\ at = "collect" => pending # <<>> /\ sent <= 2 + Len(data) + held

IInv == TypeOK /\ ActsOnce /\ Collecting /\ Turned /\ TurnsAreBounded

LEMMA AnswerTypes ==
  ASSUME NEW a \in Answer
  PROVE  /\ a.data \in Piece /\ a.status \in {"9000", "warning", "refused"}
         /\ a = [data |-> a.data, status |-> a.status]
<1>1. ASSUME NEW n \in 0..MaxAnswer PROVE Bytes(n) \in Piece
  BY <1>1, AnswerAssumption DEF Bytes, Piece
<1>2. <<>> \in Piece
  BY DEF Piece
<1>3. CASE a \in [data : {Bytes(n) : n \in 0..MaxAnswer}, status : {"9000", "warning"}]
  BY <1>1, <1>3
<1>4. CASE a \in [data : {<<>>}, status : {"refused"}]
  BY <1>2, <1>4
<1>. QED  BY <1>3, <1>4 DEF Answer

\* What any reply of the card hands over is the front of what it holds.
Front(reply) ==
  /\ reply.kind \in {"final", "61", "6C", "warning", "refused"}
  /\ reply.sw2 \in 0..MaxLe - 1
  /\ \E k \in 0..Len(pending) :
       reply.data = SubSeq(pending, 1, k) /\ (reply.kind = "61" => k < Len(pending))
  /\ reply.kind = "final" => reply.data = pending
  /\ reply.kind = "6C" => reply.data = <<>>

LEMMA RepliesAreFront ==
  ASSUME TypeOK, NEW reply \in RetryReplies \cup ResponseReplies
  PROVE  Front(reply)
<1>1. pending \in Piece /\ Len(pending) \in Nat /\ le \in 0..MaxLe /\ MaxLe \in Nat \ {0, 1}
  BY LeAssumption DEF TypeOK, Piece
<1>2. SubSeq(pending, 1, 0) = <<>> /\ SubSeq(pending, 1, Len(pending)) = pending
  BY <1>1, Empty DEF Piece
<1>3. CASE reply = Final
  <2>1. reply.kind = "final" /\ reply.sw2 = 0 /\ reply.data = pending
    BY <1>3 DEF Final, Reply
  <2>2. Len(pending) \in 0..Len(pending) /\ reply.data = SubSeq(pending, 1, Len(pending))
    BY <1>1, <1>2, <2>1
  <2>3. reply.sw2 \in 0..MaxLe - 1
    BY <1>1, <2>1
  <2>. QED  BY <2>1, <2>2, <2>3 DEF Front
<1>4. CASE \E k \in 0..MaxLe : k < Len(pending) /\ reply \in More(k)
  <2>1. PICK k \in 0..MaxLe : k < Len(pending) /\ reply \in More(k)
    BY <1>4
  <2>2. PICK sw2 \in Announce(Len(pending) - k) : reply = Reply("61", SubSeq(pending, 1, k), sw2)
    BY <2>1 DEF More
  <2>3. sw2 \in 0..MaxLe - 1
    BY <1>1, <2>1, <2>2 DEF Announce
  <2>4. reply.kind = "61" /\ reply.sw2 = sw2 /\ reply.data = SubSeq(pending, 1, k)
    BY <2>2 DEF Reply
  <2>5. k \in 0..Len(pending) /\ k < Len(pending)
    BY <1>1, <2>1
  <2>. QED  BY <2>3, <2>4, <2>5 DEF Front
<1>5. CASE \E n \in 0..MaxLe - 1 : reply = Reply("6C", <<>>, n)
  <2>1. reply.kind = "6C" /\ reply.sw2 \in 0..MaxLe - 1 /\ reply.data = <<>>
    BY <1>5 DEF Reply
  <2>2. 0 \in 0..Len(pending)
    BY <1>1
  <2>. QED  BY <1>2, <2>1, <2>2 DEF Front
<1>6. \A n \in 1..MaxLe : n % MaxLe \in 0..MaxLe - 1
  BY <1>1
<1>7. CASE reply \in BrokenOff
  <2>1. /\ reply.kind \in {"6C", "warning", "refused"} /\ reply.sw2 = 0
        /\ \/ reply.data = <<>>
           \/ /\ reply.kind = "warning"
              /\ \E k \in 0..le : k <= Len(pending) /\ reply.data = SubSeq(pending, 1, k)
    BY <1>7 DEF BrokenOff, Reply
  <2>2. \E k \in 0..Len(pending) : reply.data = SubSeq(pending, 1, k)
    <3>1. 0 \in 0..Len(pending)
      BY <1>1
    <3>2. \A k \in 0..le : k <= Len(pending) => k \in 0..Len(pending)
      BY <1>1
    <3>. QED  BY <1>2, <2>1, <3>1, <3>2
  <2>3. 0 \in 0..MaxLe - 1
    BY <1>1
  <2>. QED  BY <2>1, <2>2, <2>3 DEF Front
<1>8. \/ reply = Final
      \/ \E k \in 0..MaxLe : k < Len(pending) /\ reply \in More(k)
      \/ \E n \in 0..MaxLe - 1 : reply = Reply("6C", <<>>, n)
      \/ reply \in BrokenOff
  <2>1. CASE reply \in CommandReplies
    BY <1>1, <1>6, <2>1 DEF CommandReplies
  <2>2. CASE reply \in {Reply("6C", <<>>, n) : n \in 0..MaxLe - 1}
    BY <2>2
  <2>3. CASE reply \in ResponseReplies
    BY <1>1, <2>3 DEF ResponseReplies
  <2>. QED  BY <2>1, <2>2, <2>3 DEF RetryReplies
<1>. QED  BY <1>3, <1>4, <1>5, <1>7, <1>8

\* What a reply hands over leaves the card and joins what is collected.
LEMMA HandedOver ==
  ASSUME TypeOK, NEW reply, Front(reply), HandOver(reply)
  PROVE  /\ pending' \in Piece /\ reply.data \in Piece /\ data \o reply.data \in Piece
         /\ (data \o reply.data) \o pending' = data \o pending
         /\ reply.data = <<>> => pending' = pending
         /\ reply.kind = "61" => pending' # <<>>
         /\ Len(data) \in Nat /\ Len(pending) \in Nat
         /\ Len(data \o reply.data) \in Nat /\ Len(data \o reply.data) >= Len(data)
         /\ reply.data # <<>> => Len(data \o reply.data) > Len(data)
<1>1. pending \in Piece /\ data \in Piece
  BY DEF TypeOK, Piece
<1>2. PICK k \in 0..Len(pending) :
        reply.data = SubSeq(pending, 1, k) /\ (reply.kind = "61" => k < Len(pending))
  BY DEF Front
<1>3. /\ SubSeq(pending, 1, k) \in Piece /\ Len(SubSeq(pending, 1, k)) = k
      /\ SubSeq(pending, k + 1, Len(pending)) \in Piece
      /\ SubSeq(pending, 1, k) \o SubSeq(pending, k + 1, Len(pending)) = pending
  BY <1>1, Cut DEF Piece
<1>4. /\ reply.data \in Piece /\ Len(reply.data) = k
      /\ pending' = SubSeq(pending, k + 1, Len(pending))
  BY <1>2, <1>3 DEF HandOver
<1>5. pending' \in Piece /\ reply.data \o pending' = pending
  BY <1>2, <1>3, <1>4
<1>6. /\ (data \o reply.data) \o pending' = data \o (reply.data \o pending')
      /\ data \o reply.data \in Piece
  <2>1. /\ data \in Seq(1..MaxAnswer) /\ reply.data \in Seq(1..MaxAnswer)
        /\ pending' \in Seq(1..MaxAnswer)
    BY <1>1, <1>4, <1>5 DEF Piece
  <2>2. (data \o reply.data) \o pending' = data \o (reply.data \o pending')
    <3>. DEFINE r == reply.data  p == pending'
    <3>1. data \in Seq(1..MaxAnswer) /\ r \in Seq(1..MaxAnswer) /\ p \in Seq(1..MaxAnswer)
      BY <2>1
    <3>. HIDE DEF r, p
    <3>2. (data \o r) \o p = data \o (r \o p)
      BY <3>1, ConcatAssociative
    <3>. QED  BY <3>2 DEF r, p
  <2>3. data \o reply.data \in Piece
    BY <2>1, ConcatProperties DEF Piece
  <2>. QED  BY <2>2, <2>3
<1>7. reply.data = <<>> => pending' = pending
  BY <1>5, Empty DEF Piece
<1>8. reply.kind = "61" => pending' # <<>>
  <2>1. SUFFICES ASSUME reply.kind = "61", pending' = <<>> PROVE FALSE
    OBVIOUS
  <2>2. SubSeq(pending, 1, k) = pending
    <3>. DEFINE d == reply.data
    <3>1. d = SubSeq(pending, 1, k) /\ d \in Seq(1..MaxAnswer) /\ d \o <<>> = pending
      BY <1>2, <1>4, <1>5, <2>1 DEF Piece
    <3>. HIDE DEF d
    <3>2. d \o <<>> = d
      BY <3>1, Empty
    <3>. QED  BY <3>1, <3>2
  <2>3. k = Len(pending)
    BY <1>3, <2>2
  <2>4. k < Len(pending)
    BY <1>2, <2>1
  <2>. QED  BY <2>3, <2>4
<1>9. /\ Len(data) \in Nat /\ Len(pending) \in Nat /\ Len(reply.data) \in Nat
      /\ Len(data \o reply.data) = Len(data) + Len(reply.data)
      /\ reply.data # <<>> => Len(reply.data) > 0
  <2>. DEFINE d == reply.data
  <2>1. data \in Seq(1..MaxAnswer) /\ d \in Seq(1..MaxAnswer) /\ pending \in Seq(1..MaxAnswer)
    BY <1>1, <1>4 DEF Piece
  <2>. HIDE DEF d
  <2>2. /\ Len(data) \in Nat /\ Len(pending) \in Nat /\ Len(d) \in Nat
        /\ Len(data \o d) = Len(data) + Len(d)
        /\ d # <<>> => Len(d) > 0
    BY <2>1
  <2>. QED  BY <2>2 DEF d
<1>10. /\ Len(data \o reply.data) \in Nat /\ Len(data \o reply.data) >= Len(data)
       /\ reply.data # <<>> => Len(data \o reply.data) > Len(data)
  <2>. DEFINE m == Len(data \o reply.data)  d == Len(data)  x == Len(reply.data)
  <2>1. m = d + x /\ d \in Nat /\ x \in Nat /\ (reply.data # <<>> => x > 0)
    BY <1>9
  <2>. HIDE DEF m, d, x
  <2>2. m \in Nat /\ m >= d /\ (reply.data # <<>> => m > d)
    BY <2>1
  <2>. QED  BY <2>2 DEF m, d
<1>11. data \o reply.data \o pending' = data \o pending
  BY <1>5, <1>6
<1>. QED  BY <1>4, <1>5, <1>6, <1>7, <1>8, <1>9, <1>10, <1>11, Zenon
-----------------------------------------------------------------------------
(* Every step keeps it, and is a step of the exchange or stutters *)

\* A step of the exchange that Card::call promises, or one its caller does not see
Seen == [Whole!Next]_<<at # "idle", answer, out>>

Good == IInv' /\ Seen

\* Handling a reply that is part of the answer or its end
LEMMA Handle ==
  ASSUME IInv, NEW reply, Front(reply), HandOver(reply), at # "idle",
         data \o pending = answer.data, answer' = answer, acted' \in {0, 1},
         sent' \in Nat, held' \in 0..MaxHeld, sent' <= 2 + Len(data \o reply.data) + held'
  PROVE  /\ Continue(reply) => Good
         /\ Finish(reply) => Good
<1>1. /\ pending' \in Piece /\ reply.data \in Piece /\ data \o reply.data \in Piece
      /\ (data \o reply.data) \o pending' = answer.data
      /\ reply.kind = "61" => pending' # <<>>
  BY HandedOver DEF IInv
<1>2. /\ reply.sw2 \in 0..MaxLe /\ answer \in Answer
      /\ reply.kind = "final" => reply.data = pending
  <2>1. reply.sw2 \in 0..MaxLe - 1 /\ MaxLe \in Nat
    BY LeAssumption DEF Front
  <2>. QED  BY <2>1 DEF Front, IInv, TypeOK
<1>3. answer.data \in Piece /\ answer.status \in {"9000", "warning", "refused"}
      /\ answer = [data |-> answer.data, status |-> answer.status]
  BY <1>2, AnswerTypes
<1>4. ASSUME Continue(reply) PROVE Good
  <2>1. at' = "collect" /\ le' = reply.sw2 /\ data' = data \o reply.data /\ out' = out
    BY <1>4 DEF Continue
  <2>2. TypeOK'
    BY <1>1, <1>2, <2>1 DEF IInv, TypeOK, Piece
  <2>3. ActsOnce' /\ Collecting'
    BY <1>1, <2>1 DEF ActsOnce, Collecting
  <2>4. Seen
    BY <2>1 DEF Seen
  <2>5. Turned'
    BY <1>1, <1>4, <2>1 DEF Turned, Continue
  <2>6. TurnsAreBounded'
    <3>1. Len((data \o reply.data) \o pending') >= Len(data \o reply.data)
      BY <1>1, FrontOfJoined DEF Piece
    <3>2. Len(data \o reply.data) \in Nat /\ Len(answer.data) \in Nat
      BY <1>1, <1>3 DEF Piece
    <3>3. held' \in Nat
      BY HeldAssumption
    <3>. QED  BY <1>1, <3>1, <3>2, <3>3 DEF TurnsAreBounded
  <2>. QED  BY <2>2, <2>3, <2>4, <2>5, <2>6 DEF Good, IInv
<1>5. ASSUME Finish(reply) PROVE Good
  <2>1. /\ at' = "idle" /\ le' = le /\ data' = data
        /\ out' = [data |-> data \o reply.data, status |-> answer.status]
    BY <1>5 DEF Finish, Return
  <2>2. out' = answer
    BY <1>2, <1>3, <1>5, <2>1 DEF Finish
  <2>3. out' \in Response
    BY <1>3, <2>2 DEF Response, Piece
  <2>4. TypeOK'
    BY <1>1, <1>2, <2>1, <2>3 DEF IInv, TypeOK, Piece
  <2>5. ActsOnce' /\ Collecting'
    BY <2>1 DEF ActsOnce, Collecting
  <2>6. Whole!Return
    BY <1>3, <2>1, <2>2 DEF Whole!Return
  <2>7. Turned' /\ TurnsAreBounded'
    <3>1. data \o reply.data = answer.data
      BY <1>2, <1>5 DEF Finish
    <3>. QED  BY <2>1, <3>1 DEF Turned, TurnsAreBounded
  <2>. QED  BY <2>4, <2>5, <2>6, <2>7 DEF Good, IInv, Seen, Whole!Next
<1>. QED  BY <1>4, <1>5

\* A call that ends before the answer is whole
LEMMA GiveUp ==
  ASSUME IInv, NEW o \in {Error} \cup (Whole!Partial(answer) \cap Response), at # "idle", Return(o),
         answer' = answer, acted' \in {0, 1}, pending' \in Piece,
         sent' \in Nat, held' = held, sent' <= 2 + Len(answer.data) + held
  PROVE  Good
<1>1. at' = "idle" /\ out' = o /\ UNCHANGED <<le, data>>
  BY DEF Return
<1>2. out' \in Response \cup {Error}
  BY <1>1
<1>3. TypeOK'
  BY <1>1, <1>2 DEF IInv, TypeOK, Piece
<1>4. ActsOnce' /\ Collecting'
  BY <1>1 DEF ActsOnce, Collecting
<1>5. out' \in {answer, Whole!Error} \cup Whole!Partial(answer)
  BY <1>1 DEF Error, Whole!Error
<1>6. Whole!Return
  BY <1>1, <1>5 DEF Whole!Return
<1>7. Turned' /\ TurnsAreBounded'
  BY <1>1 DEF Turned, TurnsAreBounded
<1>. QED  BY <1>3, <1>4, <1>6, <1>7 DEF Good, IInv, Seen, Whole!Next

LEMMA CallGood ==
  ASSUME IInv, NEW a \in Answer, NEW l \in 0..MaxLe, Call(a, l)
  PROVE  Good
<1>1. a.data \in Piece
  BY AnswerTypes
<1>2. /\ at = "idle" /\ at' = "command" /\ le' = l /\ data' = <<>> /\ answer' = a
      /\ pending' = a.data /\ acted' = 0 /\ sent' = 0 /\ held' = 0 /\ out' = out
  BY DEF Call
<1>3. TypeOK'
  BY <1>1, <1>2, HeldAssumption DEF IInv, TypeOK, Piece
<1>4. ActsOnce' /\ Collecting'
  BY <1>2 DEF ActsOnce, Collecting
<1>5. Whole!Call
  BY <1>2 DEF Whole!Call
<1>6. Turned' /\ TurnsAreBounded'
  <2>1. Len(a.data) \in Nat
    BY <1>1 DEF Piece
  <2>. QED  BY <1>2, <2>1 DEF Turned, TurnsAreBounded
<1>. QED  BY <1>3, <1>4, <1>5, <1>6 DEF Good, IInv, Seen, Whole!Next

\* What is collected before the command is answered is nothing.
LEMMA NothingYet ==
  ASSUME IInv, at # "idle"
  PROVE  /\ data \o pending = answer.data /\ acted \in {0, 1}
         /\ Len(answer.data) \in Nat /\ held \in Nat /\ sent \in Nat
         /\ sent + 1 <= 2 + Len(answer.data) + held
<1>1. /\ pending \in Piece /\ data \in Piece /\ acted \in Nat /\ acted <= 1
      /\ sent \in Nat /\ held \in Nat
  BY HeldAssumption DEF IInv, TypeOK, ActsOnce, Piece
<1>2. <<>> \o pending = pending
  BY <1>1, Empty DEF Piece
<1>3. data \o pending = answer.data
  BY <1>1, <1>2 DEF IInv, TypeOK, Collecting
<1>4. /\ Len(data) \in Nat /\ Len(pending) \in Nat
      /\ Len(data \o pending) = Len(data) + Len(pending)
      /\ pending # <<>> => Len(pending) > 0
  BY <1>1 DEF Piece
<1>5. sent + 1 <= 2 + Len(answer.data) + held
  BY <1>1, <1>3, <1>4 DEF IInv, Turned, TypeOK
<1>. QED  BY <1>1, <1>3, <1>4, <1>5

\* What a broken off answer leaves the caller with is a front of it.
LEMMA PartialAnswer ==
  ASSUME IInv, at # "idle", NEW reply, Front(reply), HandOver(reply), BreakOff(reply)
  PROVE  /\ Return([data |-> data \o reply.data, status |-> reply.kind])
         /\ [data |-> data \o reply.data, status |-> reply.kind]
              \in Whole!Partial(answer) \cap Response
         /\ pending' \in Piece
<1>. DEFINE d == data \o reply.data  rest == pending'
<1>1. /\ d \in Piece /\ rest \in Piece /\ d \o rest = answer.data
      /\ reply.kind \in {"warning", "refused", "6C"}
  BY HandedOver, NothingYet DEF IInv, BreakOff
<1>. HIDE DEF d, rest
<1>2. Len(d) \in 0..Len(answer.data) /\ d = SubSeq(answer.data, 1, Len(d))
  <2>1. SubSeq(d \o rest, 1, Len(d)) = d /\ Len(d \o rest) >= Len(d)
    BY <1>1, FrontOfJoined DEF Piece
  <2>2. Len(d) \in Nat /\ Len(d \o rest) \in Nat
    BY <1>1 DEF Piece
  <2>. QED  BY <1>1, <2>1, <2>2
<1>3. [data |-> d, status |-> reply.kind] \in Whole!Partial(answer)
  BY <1>1, <1>2 DEF Whole!Partial
<1>4. [data |-> d, status |-> reply.kind] \in Response
  BY <1>1 DEF Response, Piece
<1>. QED  BY <1>1, <1>3, <1>4 DEF BreakOff, d, rest

LEMMA CommandGood ==
  ASSUME IInv, SendCommand
  PROVE  Good
<1>1. PICK reply \in CommandReplies :
        /\ HandOver(reply)
        /\ acted' = IF reply.kind = "6C" THEN acted ELSE acted + 1
        /\ Correct(reply) \/ Continue(reply) \/ Finish(reply)
        /\ sent' = sent + 1 /\ held' = held
  BY DEF SendCommand, Sent
<1>2. Front(reply)
  BY RepliesAreFront DEF IInv, RetryReplies
<1>3. /\ at = "command" /\ answer' = answer /\ acted = 0 /\ acted' \in {0, 1}
      /\ data = <<>> /\ pending = answer.data /\ sent' = 1 /\ held' \in 0..MaxHeld
  BY <1>1 DEF SendCommand, IInv, TypeOK, Collecting, Turned
<1>4. /\ data \o pending = answer.data /\ Len(answer.data) \in Nat
      /\ sent' <= 2 + Len(data \o reply.data) + held'
  BY <1>1, <1>2, <1>3, NothingYet, HandedOver, HeldAssumption DEF IInv
<1>5. CASE Correct(reply)
  <2>1. /\ reply.kind = "6C" /\ reply.data = <<>> /\ at' = "retry" /\ UNCHANGED <<data, out>>
        /\ le' = CorrectedLe(reply.sw2) /\ acted' = 0
    BY <1>1, <1>2, <1>3, <1>5 DEF Correct, Front
  <2>2. pending' = pending /\ pending \in Piece
    BY <1>1, <1>2, <2>1, HandedOver DEF IInv, TypeOK, Piece
  <2>3. reply.sw2 \in 0..MaxLe - 1 /\ MaxLe \in Nat \ {0, 1}
    BY <1>2, LeAssumption DEF Front
  <2>4. le' \in 1..MaxLe
    BY <2>1, <2>3 DEF CorrectedLe
  <2>5. TypeOK'
    BY <1>3, <2>1, <2>2, <2>4 DEF IInv, TypeOK, NoLe, Piece
  <2>6. ActsOnce' /\ Collecting' /\ Turned' /\ TurnsAreBounded'
    BY <1>3, <1>4, <2>1, <2>2, HeldAssumption
    DEF ActsOnce, Collecting, Turned, TurnsAreBounded
  <2>7. Seen
    BY <1>3, <2>1 DEF Seen
  <2>. QED  BY <2>5, <2>6, <2>7 DEF Good, IInv
<1>. QED  BY <1>1, <1>2, <1>3, <1>4, <1>5, Handle

LEMMA RetryGood ==
  ASSUME IInv, SendRetry
  PROVE  Good
<1>1. PICK reply \in RetryReplies :
        /\ HandOver(reply)
        /\ acted' = IF reply.kind = "6C" THEN acted ELSE acted + 1
        /\ Continue(reply) \/ Finish(reply) \/ BreakOff(reply)
        /\ sent' = sent + 1 /\ held' = held
  BY DEF SendRetry, Sent
<1>2. Front(reply)
  BY RepliesAreFront DEF IInv
<1>3. /\ at = "retry" /\ answer' = answer /\ acted = 0 /\ acted' \in {0, 1}
      /\ sent' = 2 /\ held' \in 0..MaxHeld
  BY <1>1 DEF SendRetry, IInv, TypeOK, Collecting, Turned
<1>4. /\ data \o pending = answer.data /\ pending' \in Piece
      /\ sent' \in Nat /\ held' = held /\ sent' <= 2 + Len(answer.data) + held
      /\ sent' <= 2 + Len(data \o reply.data) + held'
  <2>1. /\ data \o pending = answer.data /\ pending' \in Piece
        /\ sent' <= 2 + Len(answer.data) + held
    BY <1>1, <1>2, <1>3, NothingYet, HandedOver DEF IInv
  <2>2. Len(data \o reply.data) \in Nat
    BY <1>1, <1>2, HandedOver DEF IInv
  <2>. QED  BY <1>1, <1>3, <2>1, <2>2, HeldAssumption
<1>5. CASE BreakOff(reply)
  BY <1>1, <1>2, <1>3, <1>4, <1>5, PartialAnswer, GiveUp
<1>. QED  BY <1>1, <1>2, <1>3, <1>4, <1>5, Handle

\* The card holds back only as often as the bound has it.
LEMMA EmptyIsCounted ==
  ASSUME IInv, pending # <<>>, NEW reply \in ResponseReplies,
         held' = IF reply.kind = "61" /\ reply.data = <<>> THEN held + 1 ELSE held
  PROVE  held' \in 0..MaxHeld
<1>1. held \in 0..MaxHeld /\ MaxHeld \in Nat /\ pending \in Piece /\ le \in 0..MaxLe
      /\ MaxLe \in Nat
  BY HeldAssumption, LeAssumption DEF IInv, TypeOK, Piece
<1>2. SUFFICES ASSUME reply.kind = "61", reply.data = <<>> PROVE held < MaxHeld
  BY <1>1
<1>3. reply # Final /\ reply \notin BrokenOff
  BY <1>2 DEF Final, BrokenOff, Reply
<1>4. PICK k \in (IF held < MaxHeld THEN 0 ELSE 1)..le :
        k < Len(pending) /\ reply \in More(k)
  BY <1>3 DEF ResponseReplies
<1>5. reply.data = SubSeq(pending, 1, k)
  BY <1>4 DEF More, Reply
<1>6. k \in 0..Len(pending)
  BY <1>1, <1>4 DEF Piece
<1>7. k = 0
  BY <1>1, <1>2, <1>5, <1>6, Cut DEF Piece
<1>. QED  BY <1>1, <1>4, <1>7

LEMMA ResponseGood ==
  ASSUME IInv, SendGetResponse
  PROVE  Good
<1>1. PICK reply \in ResponseReplies :
        /\ HandOver(reply)
        /\ held' = IF reply.kind = "61" /\ reply.data = <<>> THEN held + 1 ELSE held
        /\ Continue(reply) \/ Finish(reply) \/ BreakOff(reply)
  BY DEF SendGetResponse
<1>2. Front(reply)
  BY RepliesAreFront DEF IInv
<1>3. at = "collect" /\ answer' = answer /\ acted' = acted /\ sent' = sent + 1
  BY DEF SendGetResponse, Sent
<1>4. /\ data \o pending = answer.data /\ acted \in {0, 1} /\ sent \in Nat /\ held \in Nat
      /\ pending # <<>> /\ sent <= 2 + Len(data) + held
  BY <1>3, NothingYet DEF IInv, Turned
<1>5. held' \in 0..MaxHeld
  BY <1>1, <1>3, <1>4, EmptyIsCounted
<1>6. ~BreakOff(reply) => sent' <= 2 + Len(data \o reply.data) + held'
  <2>0. SUFFICES ASSUME Continue(reply) \/ Finish(reply)
                 PROVE  sent' <= 2 + Len(data \o reply.data) + held'
    BY <1>1
  <2>. DEFINE m == Len(data \o reply.data)  d == Len(data)
  <2>1. m \in Nat /\ d \in Nat /\ m >= d /\ (reply.data # <<>> => m > d)
    BY <1>1, <1>2, HandedOver DEF IInv
  <2>2. sent + 1 = sent' /\ sent <= 2 + d + held
    BY <1>3, <1>4
  <2>3. held' = held + 1 \/ (held' = held /\ reply.data # <<>>)
    BY <1>1, <1>2, <1>4, <2>0 DEF Continue, Finish, Front
  <2>. HIDE DEF m, d
  <2>4. sent' <= 2 + m + held'
    BY <1>4, <2>1, <2>2, <2>3
  <2>. QED  BY <2>4 DEF m
<1>7. sent' \in Nat
  BY <1>3, <1>4
<1>8. CASE BreakOff(reply)
  <2>1. held' = held
    BY <1>1, <1>8 DEF BreakOff
  <2>2. sent' <= 2 + Len(answer.data) + held
    BY <1>3, NothingYet
  <2>. QED  BY <1>1, <1>2, <1>3, <1>4, <1>7, <1>8, <2>1, <2>2, PartialAnswer, GiveUp
<1>. QED  BY <1>1, <1>2, <1>3, <1>4, <1>5, <1>6, <1>7, <1>8, Handle

LEMMA FailGood ==
  ASSUME IInv, RefuseZeroLe \/ TransmitFails
  PROVE  Good
<1>1. at # "idle" /\ Return(Error) /\ answer' = answer /\ pending' = pending
  BY DEF RefuseZeroLe, TransmitFails
<1>2. acted' \in {0, 1}
  <2>1. CASE at = "collect"
    <3>1. acted' = acted
      BY <2>1 DEF RefuseZeroLe, TransmitFails
    <3>. QED  BY <1>1, <3>1, NothingYet
  <2>2. CASE at # "collect"
    <3>1. acted = 0 /\ acted' \in {acted, acted + 1}
      BY <1>1, <2>2 DEF RefuseZeroLe, TransmitFails, IInv, Collecting, TypeOK
    <3>. QED  BY <3>1
  <2>. QED  BY <2>1, <2>2
<1>3. pending' \in Piece
  BY <1>1 DEF IInv, TypeOK, Piece
<1>4. sent' \in {sent, sent + 1} /\ held' = held
  BY DEF RefuseZeroLe, TransmitFails, Sent
<1>5. sent' \in Nat /\ sent' <= 2 + Len(answer.data) + held
  BY <1>1, <1>4, NothingYet
<1>. QED  BY <1>1, <1>2, <1>3, <1>4, <1>5, GiveUp

LEMMA InitGood == Init => IInv /\ Whole!Init
<1>1. SUFFICES ASSUME Init PROVE IInv /\ Whole!Init
  OBVIOUS
<1>2. TypeOK
  BY <1>1, LeAssumption, HeldAssumption DEF Init, TypeOK, NoLe
<1>3. ActsOnce /\ Collecting /\ Turned /\ TurnsAreBounded
  <2>1. answer.data \in Piece
    BY <1>1, AnswerTypes DEF Init
  <2>2. Len(answer.data) \in Nat
    BY <2>1 DEF Piece
  <2>. QED  BY <1>1, <2>2 DEF Init, ActsOnce, Collecting, Turned, TurnsAreBounded
<1>4. Whole!Init
  BY <1>1 DEF Init, Whole!Init, Error, Whole!Error
<1>. QED  BY <1>2, <1>3, <1>4 DEF IInv

LEMMA StepGood == IInv /\ [Next]_vars => Good
<1>1. SUFFICES ASSUME IInv, [Next]_vars PROVE Good
  OBVIOUS
<1>2. CASE \E a \in Answer, l \in 0..MaxLe : Call(a, l)
  BY <1>1, <1>2, CallGood
<1>3. CASE Transmit
  BY <1>1, <1>3, CommandGood, RetryGood, ResponseGood, FailGood DEF Transmit
<1>4. CASE UNCHANGED vars
  BY <1>1, <1>4 DEF vars, Good, Seen, IInv, TypeOK, ActsOnce, Collecting, Turned, TurnsAreBounded
<1>. QED  BY <1>1, <1>2, <1>3, <1>4 DEF Next
-----------------------------------------------------------------------------
(* The theorems *)

LEMMA Invariant == Spec => []IInv
<1>1. Init => IInv
  BY InitGood
<1>2. IInv /\ [Next]_vars => IInv'
  BY StepGood DEF Good
<1>. QED  BY <1>1, <1>2, PTL DEF Spec

\* The types hold, and a corrected command carries an Le that can be encoded,
\* whatever a short Le can ask for and however long the answer is.
THEOREM ExchangeTypes == Spec => []TypeOK
<1>1. IInv => TypeOK
  BY DEF IInv
<1>. QED  BY <1>1, Invariant, PTL

\* One Card::call has the card carry its command out at most once: neither 6Cxx nor
\* 61xx nor a failed transmission has it sent again after the card acted on it.
THEOREM CarriedOutOnce == Spec => []ActsOnce
<1>1. IInv => ActsOnce
  BY DEF IInv
<1>. QED  BY <1>1, Invariant, PTL

\* Whatever the answer and however it comes, a call takes no more transmissions than
\* two, its bytes, and the pieces the card kept empty: no card that hands over data
\* makes the loops of Card::call go round.
THEOREM TurnsBounded == Spec => []TurnsAreBounded
<1>1. IInv => TurnsAreBounded
  BY DEF IInv
<1>. QED  BY <1>1, Invariant, PTL

\* Every step of Card::call is a step of the exchange it promises or unseen: what a
\* call returns under 9000 is the whole answer of the card, in order; under the status
\* of a card that breaks the answer off it is a front of it, with nothing lost,
\* repeated or out of place; and otherwise it is an error.
THEOREM CallIsExchange == Spec => IsOneExchange
<1>1. Init => Whole!Init
  BY InitGood
<1>2. IInv /\ [Next]_vars
        => [Whole!Next]_<<at # "idle", answer, out>>
  BY StepGood DEF Good, Seen
<1>. QED  BY <1>1, <1>2, Invariant, PTL DEF Spec, IsOneExchange, Whole!Spec
=============================================================================
