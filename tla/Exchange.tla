------------------------------ MODULE Exchange ------------------------------
(***************************************************************************)
(* What Card::call promises the layers above it: one command, and then one *)
(* of three results.  The card's whole answer to that command; the front   *)
(* of an answer the card broke off, under the status that broke it off; or *)
(* an error of the transport.  A 61xx is never returned, and 9000 never    *)
(* with part of an answer.  Callers that want data take it from 9000 alone *)
(* (Card::call_ok, Response::into_data), so to them it is the whole answer *)
(* or an error: that is how the file and application layers (ReadBinary,   *)
(* SharedCard, SecureMessaging) send their commands.                       *)
(***************************************************************************)
EXTENDS Integers, Sequences

CONSTANT Answer   \* what the card may answer to a command, data and status

VARIABLES
  busy,           \* a call is under way
  answer,         \* the card's answer to the call
  out             \* what the last call returned

Error == [data |-> <<>>, status |-> "error"]

\* What can be left of an answer that the card breaks off
Partial(a) ==
  [data : {SubSeq(a.data, 1, k) : k \in 0..Len(a.data)}, status : {"warning", "refused", "6C"}]

Init ==
  /\ busy = FALSE
  /\ answer \in Answer
  /\ out = Error

\* The command goes out, and the card settles what it answers
Call ==
  /\ ~busy
  /\ busy' = TRUE
  /\ answer' \in Answer
  /\ out' = out

Return ==
  /\ busy
  /\ busy' = FALSE
  /\ out' \in {answer, Error} \cup Partial(answer)
  /\ answer' = answer

Next == Call \/ Return

Spec == Init /\ [][Next]_<<busy, answer, out>>
=============================================================================
