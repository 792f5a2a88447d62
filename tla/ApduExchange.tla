---------------------------- MODULE ApduExchange ----------------------------
(***************************************************************************)
(* Card::call (src/card.rs): one command and everything it takes to get    *)
(* its whole answer.  6Cxx has the command sent once more with the Le the  *)
(* card names, 61xx has the rest of the answer collected by GET RESPONSE.  *)
(* A transmission is one step: the command goes out, the card replies, the *)
(* reply is handled.  Any transmission may fail, and `?' then ends the     *)
(* call with what was collected thrown away; a card that breaks the        *)
(* collecting off with another status ends it with what was collected.     *)
(*                                                                         *)
(* Bytes are numbered by their place in the card's answer, so that a piece *)
(* lost, repeated or out of order shows.  MaxLe stands for 256, the most a *)
(* short Le can ask for; on the wire it is spelt zero.                     *)
(***************************************************************************)
EXTENDS Integers, Sequences

CONSTANTS
  MaxLe,       \* 256 in the code
  MaxAnswer,   \* bound: the longest answer considered
  MaxHeld      \* bound: pieces of one answer that carry nothing

ASSUME LeAssumption == MaxLe \in Nat \ {0, 1}
ASSUME AnswerAssumption == MaxAnswer \in Nat
ASSUME HeldAssumption == MaxHeld \in Nat

NoLe == 0      \* a command of case 1 or 3, without Le

Bytes(n) == [i \in 1..n |-> i]

\* A refusal carries no data; a warning (62xx, 63xx) may
Answer ==
  [data : {Bytes(n) : n \in 0..MaxAnswer}, status : {"9000", "warning"}]
    \cup [data : {<<>>}, status : {"refused"}]

VARIABLES
  at,        \* what is transmitted next: "command", "retry", "collect"; or "idle"
  le,        \* the Le it carries
  data,      \* what the call has collected
  out,       \* what the last call returned
  answer,    \* card: its answer to the command
  pending,   \* card: the part of the answer it has not handed over
  acted,     \* card: how often it has carried out the command of the call
  sent,      \* history: transmissions of the call
  held       \* history: GET RESPONSEs among them that were answered with no data

vars == <<at, le, data, out, answer, pending, acted, sent, held>>

Error == [data |-> <<>>, status |-> "error"]

\* A response may still be a 6Cxx: to the corrected command, or to GET RESPONSE
Response == [data : Seq(1..MaxAnswer), status : {"9000", "warning", "refused", "6C"}]

\* Types; a corrected command always carries an Le that can be encoded
TypeOK ==
  /\ at \in {"idle", "command", "retry", "collect"}
  /\ le \in 0..MaxLe
  /\ at = "retry" => le # NoLe
  /\ data \in Seq(1..MaxAnswer)
  /\ out \in Response \cup {Error}
  /\ answer \in Answer
  /\ pending \in Seq(1..MaxAnswer)
  /\ acted \in Nat
  /\ sent \in Nat
  /\ held \in 0..MaxHeld

Init ==
  /\ at = "idle"
  /\ le = NoLe
  /\ data = <<>>
  /\ out = Error
  /\ answer \in Answer
  /\ pending = <<>>
  /\ acted = 0
  /\ sent = 0
  /\ held = 0
-----------------------------------------------------------------------------
(* The card.  A reply is its kind, the data it carries and SW2. *)

Reply(kind, d, sw2) == [kind |-> kind, data |-> d, sw2 |-> sw2]

\* SW2 of the 61xx for n waiting bytes: 256 or more is 6100 or, conservatively, 61FF
Announce(n) == IF n < MaxLe THEN {n} ELSE {0, MaxLe - 1}

\* k of the waiting bytes, and the rest announced
More(k) == {Reply("61", SubSeq(pending, 1, k), sw2) : sw2 \in Announce(Len(pending) - k)}

Final == Reply("final", pending, 0)

\* To the command: all of the answer if Le has room for it, or some of it, or
\* the length to ask for
CommandReplies ==
  LET n == Len(pending) IN
  {r \in {Final} : n <= le}
    \cup (UNION {More(k) : k \in {k \in 0..le : k < n}})
    \cup {r \in {Reply("6C", <<>>, n % MaxLe)} : n # le /\ n \in 1..MaxLe}

\* To the corrected command, which a card may still answer 6Cxx
RetryReplies == CommandReplies \cup {Reply("6C", <<>>, n) : n \in 0..MaxLe - 1}

\* No more of the answer: a warning with some of what waits, a refusal, or a 6Cxx,
\* which only the command itself is corrected for
BrokenOff ==
  {Reply("warning", SubSeq(pending, 1, k), 0) : k \in {k \in 0..le : k <= Len(pending)}}
    \cup {Reply(status, <<>>, 0) : status \in {"refused", "6C"}}

\* To GET RESPONSE: a piece, which the card may keep empty, all the rest, or the
\* status of a card that breaks off
ResponseReplies ==
  LET n     == Len(pending)
      least == IF held < MaxHeld THEN 0 ELSE 1
  IN  {r \in {Final} : n <= le} \cup (UNION {More(k) : k \in {k \in least..le : k < n}})
        \cup BrokenOff

HandOver(reply) == pending' = SubSeq(pending, Len(reply.data) + 1, Len(pending))
-----------------------------------------------------------------------------
(* Card::call *)

\* The caller's command: case 1 and 3 ask for nothing, case 2 and 4 for up to MaxLe
Call(a, l) ==
  /\ at = "idle"
  /\ at' = "command"
  /\ le' = l
  /\ data' = <<>>
  /\ answer' = a
  /\ pending' = a.data
  /\ acted' = 0 /\ sent' = 0 /\ held' = 0
  /\ UNCHANGED out

Return(o) == at' = "idle" /\ out' = o /\ UNCHANGED <<le, data>>

\* Mutant: SW2 of 6Cxx is taken for the length as it stands
CorrectedLeRaw(sw2) == sw2

\* 6C00 asks for the maximum
CorrectedLe(sw2) == IF sw2 = 0 THEN MaxLe ELSE sw2

Correct(reply) ==
  /\ reply.kind = "6C"
  /\ at' = "retry"
  /\ le' = CorrectedLe(reply.sw2)
  /\ UNCHANGED <<data, out>>

\* Mutant: the data of the last reply replaces what was collected
ContinueReplacing(reply) ==
  /\ reply.kind = "61"
  /\ at' = "collect"
  /\ le' = reply.sw2
  /\ data' = reply.data
  /\ UNCHANGED out

\* GET RESPONSE comes next and asks for SW2 bytes
Continue(reply) ==
  /\ reply.kind = "61"
  /\ at' = "collect"
  /\ le' = reply.sw2
  /\ data' = data \o reply.data
  /\ UNCHANGED out

\* Mutant: a refusal is taken for a wrong length and the command sent again
FinishRetrying(reply) ==
  /\ reply.kind = "final"
  /\ IF at = "command" /\ answer.status = "refused"
       THEN at' = "retry" /\ le' = MaxLe /\ UNCHANGED <<data, out>>
       ELSE Return([data |-> data \o reply.data, status |-> answer.status])

Finish(reply) ==
  /\ reply.kind = "final"
  /\ Return([data |-> data \o reply.data, status |-> answer.status])

\* Any status but 61xx ends the call with what was collected under that status
BreakOff(reply) ==
  /\ reply.kind \in {"warning", "refused", "6C"}
  /\ Return([data |-> data \o reply.data, status |-> reply.kind])

Sent == sent' = sent + 1

\* transmit_once of the caller's command
SendCommand ==
  /\ at = "command"
  /\ \E reply \in CommandReplies :
       /\ HandOver(reply)
       /\ acted' = IF reply.kind = "6C" THEN acted ELSE acted + 1
       /\ Correct(reply) \/ Continue(reply) \/ Finish(reply)
  /\ Sent
  /\ UNCHANGED <<answer, held>>

\* Mutant: a correction is followed as often as it comes
SendRetryAgain ==
  /\ at = "retry"
  /\ \E reply \in RetryReplies :
       /\ HandOver(reply)
       /\ acted' = IF reply.kind = "6C" THEN acted ELSE acted + 1
       /\ Correct(reply) \/ Continue(reply) \/ Finish(reply)
  /\ Sent
  /\ UNCHANGED <<answer, held>>

\* transmit_once of the command with the corrected Le: a second 6Cxx is returned
SendRetry ==
  /\ at = "retry"
  /\ \E reply \in RetryReplies :
       /\ HandOver(reply)
       /\ acted' = IF reply.kind = "6C" THEN acted ELSE acted + 1
       /\ Continue(reply) \/ Finish(reply) \/ BreakOff(reply)
  /\ Sent
  /\ UNCHANGED <<answer, held>>

\* transmit_once of GET RESPONSE
SendGetResponse ==
  /\ at = "collect"
  /\ le # 0
  /\ \E reply \in ResponseReplies :
       /\ HandOver(reply)
       /\ held' = IF reply.kind = "61" /\ reply.data = <<>> THEN held + 1 ELSE held
       /\ Continue(reply) \/ Finish(reply) \/ BreakOff(reply)
  /\ Sent
  /\ UNCHANGED <<answer, acted>>

\* Mutant: nothing to ask for, so the loop goes round
RefuseZeroLeLooping ==
  /\ at = "collect"
  /\ le = 0
  /\ UNCHANGED vars

\* Command::to_bytes refuses Le = 0: 6100 ends the call before anything is sent
\* and the announced data stays on the card
RefuseZeroLe ==
  /\ at = "collect"
  /\ le = 0
  /\ Return(Error)
  /\ UNCHANGED <<answer, pending, acted, sent, held>>

\* The transport fails, or hands back less than a status word: before the card
\* got the command or after
TransmitFails ==
  /\ at # "idle"
  /\ at = "collect" => le # 0
  /\ Return(Error)
  /\ acted' \in IF at = "collect" THEN {acted} ELSE {acted, acted + 1}
  /\ Sent
  /\ UNCHANGED <<answer, pending, held>>

Transmit == SendCommand \/ SendRetry \/ SendGetResponse \/ RefuseZeroLe \/ TransmitFails

Next == (\E a \in Answer, l \in 0..MaxLe : Call(a, l)) \/ Transmit

\* Transmission is synchronous: it comes back, with a reply or an error
Spec == Init /\ [][Next]_vars /\ WF_vars(Transmit)
-----------------------------------------------------------------------------
(* Correctness *)

\* One call has the card carry its command out at most once, whatever is resent
\* and whatever fails: a resent VERIFY would cost a second attempt.
ActsOnce == acted <= 1

\* A call takes two transmissions at most and one more for every byte of the answer:
\* corrections do not go round, and a card prolongs a call only by pieces with no
\* data in them, one transmission each.
TurnsAreBounded == sent <= 2 + Len(answer.data) + held

\* A call as its caller sees it
Whole == INSTANCE Exchange WITH busy <- at # "idle"

\* A call is one exchange: it returns once, and what it returns under 9000 is the
\* card's whole answer, in order.  Under the status of a card that broke the answer
\* off it is a front of it, with nothing lost, repeated or out of place.
IsOneExchange == Whole!Spec

\* Every call returns, in whatever pieces the answer comes and whatever is announced.
Returns == at # "idle" ~> at = "idle"

\* src/card.rs: "a 61xx reply causes the remaining data to be collected with GET
\* RESPONSE".  An announced answer is given up only when a transmission fails.
CollectsWhatIsAnnounced ==
  [][at = "collect" /\ at' = "idle" /\ out' = Error => TransmitFails]_vars
=============================================================================
