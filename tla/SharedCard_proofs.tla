-------------------------- MODULE SharedCard_proofs --------------------------
(***************************************************************************)
(* Proofs about SharedCard, for any programs, applications, values and     *)
(* sharing modes: first the types, then the inductive invariant IInv from  *)
(* which the safety properties of a trusted program follow.                *)
(***************************************************************************)
EXTENDS SharedCard, TLAPS

(* The inductive invariant *)

\* What a call under way may rely on, by its own guards alone
CallFits(p) ==
  /\ call[p].at \notin {"idle", "throwaway"} => ap[p] # None /\ call[p].res = None
  /\ call[p].op \notin {None, "power"} => ap[p] # None
  /\ call[p].op \in {None, "power"} => call[p].got = {} /\ call[p].at \in {"idle", "throwaway"}
  /\ call[p].at = "verify" => call[p].op \in {"verify", "change"}
  /\ call[p].at = "change" => call[p].op = "change"
  /\ call[p].op = "change" /\ call[p].at # "idle" => call[p].new \in Value

CallOK == \A p \in Proc : CallFits(p)

\* An exclusive connection is the only one
Reserved == \A p, q \in Proc : mode[p] = "exclusive" /\ q # p => mode[q] = None

\* A program without a connection has nothing under way and nothing behind it
Offline ==
  \A p \in Proc :
    mode[p] = None => ap[p] = None /\ call[p] = NoCall /\ ~sure[p] /\ ~fresh[p]

\* Only keys of the current DF have a status
StatusInDf == status \subseteq Keys(df)

\* The call under way acts on its own target
OnTarget(p) ==
  /\ call[p].at \in {"verify", "change", "query", "chunk"} => Key = Target(p)
  /\ ap[p] # None => call[p].got \subseteq {Target(p)}

\* What the program has learnt about the key of its call still holds
StillTrue(p) ==
  /\ call[p].at = "change" => call[p].value = secret[Target(p)]
  /\ call[p].op = "retries" /\ call[p].res \in {"remaining", "blocked"} =>
       tries[Target(p)] = call[p].left
  /\ p \in Careful /\ call[p].at \in {"select", "verify"} /\ call[p].op \in {"verify", "change"} =>
       tries[Target(p)] > 1

Settled(p) == df = (IF ap[p] = None THEN MF ELSE ap[p])

\* What a program that holds the card alone can rely on
Own(p) ==
  /\ call[p].at = "throwaway" => ap[p] = None /\ df = MF
  /\ fresh[p] => status \subseteq mine[p]
  /\ sure[p] => Settled(p) /\ OnTarget(p) /\ StillTrue(p)

IInv ==
  /\ TypeOK
  /\ CallOK
  /\ Reserved
  /\ Offline
  /\ StatusInDf
  /\ \A p \in Proc : mode[p] = "exclusive" => Own(p)

-----------------------------------------------------------------------------
(* Types *)

LEMMA KeyRefType == KeyRef \subseteq DF \X Id
  BY DEF KeyRef

LEMMA NoCallType == NoCall \in Call
  BY TriesAssumption DEF NoCall, Call, Ops, Points, Outcomes, None

\* What Return and ReturnError leave in call, and that they touch only call[p]
LEMMA ReturnType ==
  ASSUME NEW p \in Proc, NEW c \in Call, call \in [Proc -> Call], Return(p, c)
  PROVE  call' \in [Proc -> Call]
  <1>1. [c EXCEPT !.at = "idle", !.value = None, !.new = None] \in Call
    BY DEF Call, Points
  <1>2. QED
    BY <1>1 DEF Return

LEMMA ReturnErrorType ==
  ASSUME NEW p \in Proc, call \in [Proc -> Call], ReturnError(p)
  PROVE  call' \in [Proc -> Call]
  <1>1. [call[p] EXCEPT !.res = "error", !.got = {}] \in Call
    BY DEF Call, Outcomes
  <1>2. QED
    BY <1>1, ReturnType DEF ReturnError

LEMMA ReturnOkType ==
  ASSUME NEW p \in Proc, call \in [Proc -> Call], ReturnOk(p)
  PROVE  call' \in [Proc -> Call]
  <1>1. [call[p] EXCEPT !.res = "ok"] \in Call
    BY DEF Call, Outcomes
  <1>2. QED
    BY <1>1, ReturnType DEF ReturnOk

LEMMA GotoType ==
  ASSUME NEW p \in Proc, NEW at \in Points, call \in [Proc -> Call], Goto(p, at)
  PROVE  call' \in [Proc -> Call]
  BY DEF Goto, Call

LEMMA InitType == Init => TypeOK
  <1> SUFFICES ASSUME Init PROVE TypeOK
    OBVIOUS
  <1>1. status \in SUBSET Id
    BY DEF Init, Keys
  <1>2. tries \in [KeyRef -> 0..MaxTries]
    BY TriesAssumption DEF Init
  <1>3. QED
    BY <1>1, <1>2, NoCallType DEF Init, TypeOK

LEMMA ConnectionType ==
  ASSUME TypeOK, NEW p \in Proc, Connection(p)
  PROVE  TypeOK'
  <1>1. CASE Disconnect(p)
    BY <1>1, NoCallType DEF TypeOK, Disconnect, card
  <1>2. CASE \E m \in Sharings : Connect(p, m)
    BY <1>2 DEF TypeOK, Connect, card
  <1>3. QED
    BY <1>1, <1>2 DEF Connection

LEMMA MethodType ==
  ASSUME TypeOK, NEW p \in Proc, Method(p)
  PROVE  TypeOK'
  <1> SUFFICES call' \in [Proc -> Call] /\ UNCHANGED <<card, prog, mine>>
    BY DEF TypeOK, card, prog
  <1> USE NoCallType DEF Begin, TypeOK
  <1>1. ASSUME NEW id \in Id, Retries(p, id)
        PROVE  call' \in [Proc -> Call] /\ UNCHANGED <<card, prog, mine>>
    <2>1. [NoCall EXCEPT !.op = "retries", !.at = "select", !.id = id] \in Call
      BY DEF Call, Ops, Points
    <2>2. QED
      BY <1>1, <2>1 DEF Retries
  <1>2. ASSUME NEW id \in Id, ReadEf(p, id)
        PROVE  call' \in [Proc -> Call] /\ UNCHANGED <<card, prog, mine>>
    <2>1. [NoCall EXCEPT !.op = "read", !.at = "select", !.id = id] \in Call
      BY DEF Call, Ops, Points
    <2>2. QED
      BY <1>2, <2>1 DEF ReadEf
  <1>3. ASSUME NEW id \in Id, CallNamed(p, id)
        PROVE  call' \in [Proc -> Call] /\ UNCHANGED <<card, prog, mine>>
    <2>1. [NoCall EXCEPT !.op = "named", !.at = "named", !.id = id] \in Call
      BY DEF Call, Ops, Points
    <2>2. QED
      BY <1>3, <2>1 DEF CallNamed
  <1>4. ASSUME NEW id \in Id, NEW v \in Value, VerifyKey(p, id, v)
        PROVE  call' \in [Proc -> Call] /\ UNCHANGED <<card, prog, mine>>
    <2>1. [NoCall EXCEPT !.op = "verify", !.at = "select", !.id = id, !.value = v] \in Call
      BY DEF Call, Ops, Points
    <2>2. QED
      BY <1>4, <2>1 DEF VerifyKey
  <1>5. ASSUME NEW id \in Id, NEW v \in Value, NEW n \in Value, ChangePin(p, id, v, n)
        PROVE  call' \in [Proc -> Call] /\ UNCHANGED <<card, prog, mine>>
    <2>1. [NoCall EXCEPT !.op = "change", !.at = "select", !.id = id,
                         !.value = v, !.new = n] \in Call
      BY DEF Call, Ops, Points
    <2>2. QED
      BY <1>5, <2>1 DEF ChangePin
  <1>6. QED
    BY <1>1, <1>2, <1>3, <1>4, <1>5 DEF Method

LEMMA CardSelectType ==
  ASSUME TypeOK, NEW d \in DF, CardSelect(d)
  PROVE  /\ df' \in DF
         /\ ef' \in Id \cup {None}
         /\ status' \in SUBSET Id
         /\ tries' \in [KeyRef -> 0..MaxTries]
         /\ secret' \in [KeyRef -> Value]
         /\ awake' \in BOOLEAN
         /\ mine' \in [Proc -> SUBSET Id]
  BY DEF CardSelect, TypeOK

LEMMA WrappingType ==
  ASSUME TypeOK, NEW p \in Proc, Wrapping(p)
  PROVE  TypeOK'
  <1> USE NoCallType
  <1>1. CASE SelectFails(p)
    BY <1>1 DEF TypeOK, SelectFails, CardMisses, Unsure
  <1>2. CASE NewMasterFile(p)
    BY <1>2 DEF TypeOK, NewMasterFile, card, DF
  <1>3. CASE DropWrapper(p)
    BY <1>3 DEF TypeOK, DropWrapper, card
  <1>4. CASE PowerCycle(p)
    <2>1. [NoCall EXCEPT !.op = "power", !.at = "throwaway"] \in Call
      BY DEF Call, Ops, Points
    <2>2. QED
      BY <1>4, <2>1 DEF TypeOK, PowerCycle, CardPowerUp, DF
  <1>5. CASE Throwaway(p)
    BY <1>5, ReturnOkType DEF TypeOK, Throwaway, CardMisses
  <1>6. ASSUME NEW d \in DF, Select(p, d)
        PROVE  TypeOK'
    BY <1>6, CardSelectType DEF TypeOK, Select
  <1>7. ASSUME NEW d \in DF, SelectLost(p, d)
        PROVE  TypeOK'
    BY <1>7, CardSelectType DEF TypeOK, SelectLost, Unsure
  <1>8. ASSUME NEW d \in DF, SelectBehindWrapper(p, d)
        PROVE  TypeOK'
    BY <1>8, CardSelectType DEF TypeOK, SelectBehindWrapper
  <1>9. CASE SelectBehindFails(p)
    BY <1>9 DEF TypeOK, SelectBehindFails, CardMisses, prog
  <1>10. CASE PowerCycleFails(p)
    BY <1>10 DEF TypeOK, PowerCycleFails, CardPowerUp, Unsure, card, DF
  <1>11. QED
    BY <1>1, <1>2, <1>3, <1>4, <1>5, <1>6, <1>7, <1>8, <1>9, <1>10 DEF Wrapping

LEMMA CommandType ==
  ASSUME TypeOK, CallOK, NEW p \in Proc, Command(p)
  PROVE  TypeOK'
  <1> USE DEF prog
  <1>a. call[p] \in Call /\ call \in [Proc -> Call]
    BY DEF TypeOK
  <1>1. CASE CommandFails(p)
    BY <1>1, ReturnErrorType DEF TypeOK, CommandFails, CardMisses
  <1>2. CASE SelectEf(p)
    <2>1. AfterSelect(call[p].op) \in Points
      BY DEF AfterSelect, Points
    <2>2. call' \in [Proc -> Call]
      BY <1>2, <1>a, <2>1, GotoType, ReturnErrorType DEF SelectEf
    <2>3. ef' \in Id \cup {None}
      BY <1>2 DEF SelectEf, Efs, Keys, Files
    <2>4. QED
      BY <1>2, <2>2, <2>3 DEF TypeOK, SelectEf, CardReads
  <1>3. CASE SelectEfRefused(p)
    BY <1>3, ReturnErrorType DEF TypeOK, SelectEfRefused, CardReads
  <1>4. CASE VerifyAccepted(p)
    <2>1. call' \in [Proc -> Call]
      BY <1>4, <1>a, GotoType, ReturnOkType, ReturnErrorType DEF VerifyAccepted, Points
    <2>2. ef \in Id
      BY <1>4 DEF VerifyAccepted, Key, KeyRef
    <2>3. tries' \in [KeyRef -> 0..MaxTries]
      BY <1>4, TriesAssumption DEF TypeOK, VerifyAccepted
    <2>4. status' \in SUBSET Id /\ mine' \in [Proc -> SUBSET Id]
      BY <1>4, <2>2 DEF TypeOK, VerifyAccepted
    <2>5. QED
      BY <1>4, <2>1, <2>3, <2>4 DEF TypeOK, VerifyAccepted
  <1>5. CASE VerifyRejected(p)
    <2> DEFINE c == [call[p] EXCEPT !.res = IF tries[Key] = 1 THEN "blocked" ELSE "incorrect",
                                    !.left = tries[Key] - 1]
    <2>1. Key \in KeyRef /\ tries[Key] \in 0..MaxTries /\ tries[Key] - 1 \in 0..MaxTries
      BY <1>5, TriesAssumption DEF TypeOK, VerifyRejected
    <2>2. c \in Call
      BY <1>a, <2>1 DEF Call, Outcomes
    <2>3. call' \in [Proc -> Call]
      BY <1>5, <1>a, <2>2, ReturnType, ReturnErrorType DEF VerifyRejected
    <2>4. tries' \in [KeyRef -> 0..MaxTries]
      BY <1>5, <2>1 DEF TypeOK, VerifyRejected
    <2>5. QED
      BY <1>5, <2>3, <2>4 DEF TypeOK, VerifyRejected
  <1>6. CASE VerifyBlocked(p)
    <2>1. [call[p] EXCEPT !.res = "blocked"] \in Call
      BY <1>a DEF Call, Outcomes
    <2>2. QED
      BY <1>6, <2>1, ReturnType, ReturnErrorType DEF TypeOK, VerifyBlocked, CardReads
  <1>7. CASE NotAKey(p)
    BY <1>7, ReturnErrorType DEF TypeOK, NotAKey, CardReads
  <1>8. CASE QueryTries(p)
    <2>1. Key \in KeyRef /\ tries[Key] \in 0..MaxTries
      BY <1>8 DEF TypeOK, QueryTries
    <2>2. [call[p] EXCEPT !.res = IF tries[Key] = 0 THEN "blocked" ELSE "remaining",
                          !.left = tries[Key]] \in Call
      BY <1>a, <2>1 DEF Call, Outcomes
    <2>3. [call[p] EXCEPT !.res = "unreported"] \in Call
      BY <1>a DEF Call, Outcomes
    <2>4. call' \in [Proc -> Call]
      BY <1>8, <1>a, <2>2, <2>3, ReturnType, ReturnErrorType DEF QueryTries
    <2>5. QED
      BY <1>8, <2>4 DEF TypeOK, QueryTries, CardReads
  <1>9. CASE Replace(p)
    <2>1. call[p].new \in Value
      BY <1>9 DEF CallOK, CallFits, Replace, At
    <2>2. secret' \in [KeyRef -> Value]
      BY <1>9, <2>1 DEF TypeOK, Replace
    <2>3. call' \in [Proc -> Call]
      BY <1>9, <1>a, ReturnOkType, ReturnErrorType DEF Replace
    <2>4. QED
      BY <1>9, <2>2, <2>3 DEF TypeOK, Replace
  <1>10. CASE ReplaceRefused(p)
    BY <1>10, ReturnErrorType DEF TypeOK, ReplaceRefused, CardReads
  <1>11. CASE ReadChunk(p)
    <2> DEFINE c == [call[p] EXCEPT !.got = @ \cup {Key}]
    <2>1. Key \in DF \X Id
      BY <1>11 DEF TypeOK, ReadChunk, Key, Files
    <2>2. c \in Call
      BY <1>a, <2>1 DEF Call
    <2>3. [c EXCEPT !.res = "ok"] \in Call
      BY <2>2 DEF Call, Outcomes
    <2>4. call' \in [Proc -> Call]
      BY <1>11, <1>a, <2>2, <2>3, ReturnType, ReturnErrorType DEF ReadChunk
    <2>5. QED
      BY <1>11, <2>4 DEF TypeOK, ReadChunk, CardReads
  <1>12. CASE ReadChunkRefused(p)
    BY <1>12, ReturnErrorType DEF TypeOK, ReadChunkRefused, CardReads
  <1>13. CASE UseNamed(p)
    <2>1. call[p].id \in Id /\ df \in DF
      BY <1>13 DEF TypeOK, UseNamed, Named
    <2>2. [call[p] EXCEPT !.res = "ok", !.got = {<<df, call[p].id>>}] \in Call
      <3> DEFINE got == {<<df, call[p].id>>}
      <3>1. got \in SUBSET (DF \X Id)
        BY <2>1
      <3> HIDE DEF got
      <3>2. [call[p] EXCEPT !.res = "ok", !.got = got] \in Call
        BY <1>a, <3>1 DEF Call, Outcomes
      <3>3. QED
        BY <3>2 DEF got
    <2>3. call' \in [Proc -> Call]
      BY <1>13, <1>a, <2>2, ReturnType, ReturnErrorType DEF UseNamed
    <2>4. QED
      BY <1>13, <2>1, <2>3 DEF TypeOK, UseNamed, CardReads
  <1>14. CASE UseNamedRefused(p)
    BY <1>14, ReturnErrorType DEF TypeOK, UseNamedRefused, CardReads
  <1>15. QED
    BY <1>1, <1>2, <1>3, <1>4, <1>5, <1>6, <1>7, <1>8, <1>9, <1>10, <1>11, <1>12,
       <1>13, <1>14 DEF Command

-----------------------------------------------------------------------------
(* A step is one program's, and touches that program only *)

Step(p) == Connection(p) \/ Wrapping(p) \/ Method(p) \/ Command(p)

LEMMA StepType ==
  ASSUME TypeOK, CallOK, NEW p \in Proc, Step(p)
  PROVE  TypeOK'
  BY ConnectionType, WrappingType, MethodType, CommandType DEF Step

\* q's own variables
Same(q) ==
  /\ mode'[q] = mode[q] /\ ap'[q] = ap[q] /\ sure'[q] = sure[q]
  /\ fresh'[q] = fresh[q] /\ call'[q] = call[q]

LEMMA OthersSame ==
  ASSUME TypeOK, NEW p \in Proc, NEW q \in Proc, q # p, Step(p)
  PROVE  Same(q)
  <1> USE DEF Same, TypeOK, prog
  <1>1. CASE Connection(p)
    BY <1>1 DEF Connection, Connect, Disconnect
  <1>2. CASE Wrapping(p)
    BY <1>2 DEF Wrapping, SelectFails, SelectBehindFails, NewMasterFile, DropWrapper, PowerCycle,
         PowerCycleFails, Throwaway, Select, SelectLost, SelectBehindWrapper, Unsure, ReturnOk,
         Return
  <1>3. CASE Method(p)
    BY <1>3 DEF Method, Retries, ReadEf, CallNamed, VerifyKey, ChangePin, Begin
  <1>4. CASE Command(p)
    <2> SUFFICES UNCHANGED prog /\ call'[q] = call[q]
      OBVIOUS
    <2> USE DEF Return, ReturnOk, ReturnError, Goto
    <2>1. CASE CommandFails(p) \/ SelectEf(p) \/ SelectEfRefused(p) \/ NotAKey(p)
      BY <2>1 DEF CommandFails, SelectEf, SelectEfRefused, NotAKey
    <2>2. CASE VerifyAccepted(p) \/ VerifyRejected(p) \/ VerifyBlocked(p)
      BY <2>2 DEF VerifyAccepted, VerifyRejected, VerifyBlocked
    <2>3. CASE QueryTries(p) \/ Replace(p) \/ ReplaceRefused(p)
      BY <2>3 DEF QueryTries, Replace, ReplaceRefused
    <2>4. CASE ReadChunk(p) \/ ReadChunkRefused(p) \/ UseNamed(p) \/ UseNamedRefused(p)
      BY <2>4 DEF ReadChunk, ReadChunkRefused, UseNamed, UseNamedRefused
    <2>5. QED
      BY <1>4, <2>1, <2>2, <2>3, <2>4 DEF Command
  <1>5. QED
    BY <1>1, <1>2, <1>3, <1>4 DEF Step
-----------------------------------------------------------------------------
(* What a call is after a step *)

LEMMA AfterReturn ==
  ASSUME NEW p \in Proc, NEW c \in Call, call \in [Proc -> Call], Return(p, c)
  PROVE  /\ call'[p].at = "idle"
         /\ call'[p].op = c.op /\ call'[p].id = c.id /\ call'[p].got = c.got
         /\ call'[p].res = c.res /\ call'[p].left = c.left
  BY DEF Return, Call

LEMMA AfterReturnError ==
  ASSUME NEW p \in Proc, call \in [Proc -> Call], ReturnError(p)
  PROVE  /\ call'[p].at = "idle" /\ call'[p].res = "error" /\ call'[p].got = {}
         /\ call'[p].op = call[p].op /\ call'[p].id = call[p].id
  BY DEF ReturnError, Return, Call

LEMMA AfterReturnOk ==
  ASSUME NEW p \in Proc, call \in [Proc -> Call], ReturnOk(p)
  PROVE  /\ call'[p].at = "idle" /\ call'[p].res = "ok" /\ call'[p].got = call[p].got
         /\ call'[p].op = call[p].op /\ call'[p].id = call[p].id
  BY DEF ReturnOk, Return, Call

LEMMA AfterGoto ==
  ASSUME NEW p \in Proc, NEW at, call \in [Proc -> Call], Goto(p, at)
  PROVE  /\ call'[p].at = at
         /\ call'[p].op = call[p].op /\ call'[p].id = call[p].id
         /\ call'[p].res = call[p].res /\ call'[p].got = call[p].got
         /\ call'[p].value = call[p].value /\ call'[p].new = call[p].new
  BY DEF Goto, Call

\* The call a command leaves behind: over, or on its way to the next command
Going(p) ==
  /\ call'[p].res = call[p].res
  /\ call'[p].value = call[p].value /\ call'[p].new = call[p].new
  /\ \/ /\ call[p].at = "select"
        /\ call'[p].at = AfterSelect(call[p].op)
        /\ call'[p].got = call[p].got
     \/ /\ call[p].at = "verify" /\ call[p].op = "change"
        /\ call'[p].at = "change"
        /\ call'[p].got = call[p].got
     \/ /\ call[p].at = "chunk"
        /\ call'[p].at = "chunk"
        /\ call'[p].got = call[p].got \cup {Key}

\* What a returned call has collected
Collected(p) ==
  \/ call'[p].got \subseteq call[p].got
  \/ call[p].at = "chunk" /\ call'[p].got = call[p].got \cup {Key}
  \/ call[p].at = "named" /\ call'[p].got = {<<df, call[p].id>>}

LEMMA CommandCall ==
  ASSUME TypeOK, NEW p \in Proc, Command(p)
  PROVE  /\ UNCHANGED prog /\ df' = df
         /\ call[p].at \notin {"idle", "throwaway"}
         /\ call'[p].op = call[p].op /\ call'[p].id = call[p].id
         /\ call'[p].at = "idle" \/ Going(p)
         /\ Collected(p)
  <1> DEFINE Goal ==
        /\ UNCHANGED prog /\ df' = df
        /\ call[p].at \notin {"idle", "throwaway"}
        /\ call'[p].op = call[p].op /\ call'[p].id = call[p].id
        /\ call'[p].at = "idle" \/ Going(p)
        /\ Collected(p)
  <1>a. call \in [Proc -> Call] /\ call[p] \in Call
    BY DEF TypeOK
  <1>e. ASSUME ReturnError(p)
        PROVE  /\ call'[p].op = call[p].op /\ call'[p].id = call[p].id
               /\ call'[p].at = "idle" /\ Collected(p)
    BY <1>a, <1>e, AfterReturnError DEF Collected
  <1>o. ASSUME ReturnOk(p)
        PROVE  /\ call'[p].op = call[p].op /\ call'[p].id = call[p].id
               /\ call'[p].at = "idle" /\ Collected(p)
    BY <1>a, <1>o, AfterReturnOk DEF Collected
  <1>1. CASE CommandFails(p)
    BY <1>1, <1>e DEF CommandFails, CardMisses
  <1>2. CASE SelectEf(p)
    <2>1. CASE Goto(p, AfterSelect(call[p].op))
      BY <1>2, <2>1, <1>a, AfterGoto DEF SelectEf, CardReads, At, Going, Collected
    <2>2. QED
      BY <1>2, <2>1, <1>e DEF SelectEf, CardReads, At
  <1>3. CASE SelectEfRefused(p) \/ NotAKey(p) \/ ReplaceRefused(p) \/ ReadChunkRefused(p)
               \/ UseNamedRefused(p)
    BY <1>3, <1>e DEF SelectEfRefused, NotAKey, ReplaceRefused, ReadChunkRefused,
         UseNamedRefused, CardReads, At
  <1>4. CASE VerifyAccepted(p)
    <2>1. CASE call[p].op = "change" /\ Goto(p, "change")
      BY <1>4, <2>1, <1>a, AfterGoto DEF VerifyAccepted, At, Going, Collected
    <2>2. QED
      BY <1>4, <2>1, <1>e, <1>o DEF VerifyAccepted, At
  <1>5. CASE VerifyRejected(p)
    <2> DEFINE c == [call[p] EXCEPT !.res = IF tries[Key] = 1 THEN "blocked" ELSE "incorrect",
                                    !.left = tries[Key] - 1]
    <2>1. CASE Return(p, c)
      BY <2>1, <1>5, <1>a DEF Return, Call, Collected, VerifyRejected, At
    <2>2. QED
      BY <1>5, <2>1, <1>e DEF VerifyRejected, At
  <1>6. CASE VerifyBlocked(p)
    <2>1. CASE Return(p, [call[p] EXCEPT !.res = "blocked"])
      BY <2>1, <1>6, <1>a DEF Return, Call, Collected, VerifyBlocked, CardReads, At
    <2>2. QED
      BY <1>6, <2>1, <1>e DEF VerifyBlocked, CardReads, At
  <1>7. CASE QueryTries(p)
    <2> DEFINE c == [call[p] EXCEPT !.res = IF tries[Key] = 0 THEN "blocked" ELSE "remaining",
                                    !.left = tries[Key]]
    <2>1. CASE Return(p, c)
      BY <2>1, <1>7, <1>a DEF Return, Call, Collected, QueryTries, CardReads, At
    <2>2. CASE Return(p, [call[p] EXCEPT !.res = "unreported"])
      BY <2>2, <1>7, <1>a DEF Return, Call, Collected, QueryTries, CardReads, At
    <2>3. QED
      BY <1>7, <2>1, <2>2, <1>e DEF QueryTries, CardReads, At
  <1>8. CASE Replace(p)
    BY <1>8, <1>e, <1>o DEF Replace, At
  <1>9. CASE ReadChunk(p)
    <2> DEFINE c == [call[p] EXCEPT !.got = @ \cup {Key}]
    <2>1. CASE call' = [call EXCEPT ![p] = c]
      BY <2>1, <1>9, <1>a DEF Call, Going, Collected, ReadChunk, CardReads, At
    <2>2. CASE Return(p, [c EXCEPT !.res = "ok"])
      BY <2>2, <1>9, <1>a DEF Return, Call, Collected, ReadChunk, CardReads, At
    <2>3. QED
      BY <1>9, <2>1, <2>2, <1>e DEF ReadChunk, CardReads, At
  <1>10. CASE UseNamed(p)
    <2>1. CASE Return(p, [call[p] EXCEPT !.res = "ok", !.got = {<<df, call[p].id>>}])
      <3> DEFINE got == {<<df, call[p].id>>}
      <3>1. Return(p, [call[p] EXCEPT !.res = "ok", !.got = got])
        BY <2>1
      <3> HIDE DEF got
      <3>2. /\ call'[p].at = "idle" /\ call'[p].got = got
            /\ call'[p].op = call[p].op /\ call'[p].id = call[p].id
        BY <3>1, <1>a DEF Return, Call
      <3>3. QED
        BY <3>2, <1>10 DEF got, Collected, UseNamed, CardReads, At
    <2>2. QED
      BY <1>10, <2>1, <1>e DEF UseNamed, CardReads, At
  <1>11. QED
    BY <1>1, <1>2, <1>3, <1>4, <1>5, <1>6, <1>7, <1>8, <1>9, <1>10 DEF Command

LEMMA InitCall == Init => CallOK
  BY DEF Init, CallOK, CallFits, NoCall, None

LEMMA CommandFits ==
  ASSUME TypeOK, NEW p \in Proc, CallFits(p), Command(p)
  PROVE  CallFits(p)'
  <1>1. CASE call'[p].at = "idle"
    <2>1. call[p].op \notin {None, "power"}
      BY CommandCall DEF CallFits
    <2>2. QED
      BY <1>1, <2>1, CommandCall DEF CallFits, prog
  <1>2. CASE Going(p)
    BY <1>2, CommandCall DEF CallFits, Going, AfterSelect, prog
  <1>3. QED
    BY <1>1, <1>2, CommandCall

LEMMA MethodFits ==
  ASSUME TypeOK, NEW p \in Proc, Method(p)
  PROVE  CallFits(p)'
  <1> USE DEF Begin, Wrapped, NoCall, CallFits, TypeOK, prog, None
  <1>1. ASSUME NEW id \in Id, Retries(p, id)
        PROVE  CallFits(p)'
    BY <1>1 DEF Retries
  <1>2. ASSUME NEW id \in Id, ReadEf(p, id)
        PROVE  CallFits(p)'
    BY <1>2 DEF ReadEf
  <1>3. ASSUME NEW id \in Id, CallNamed(p, id)
        PROVE  CallFits(p)'
    BY <1>3 DEF CallNamed
  <1>4. ASSUME NEW id \in Id, NEW v \in Value, VerifyKey(p, id, v)
        PROVE  CallFits(p)'
    BY <1>4 DEF VerifyKey
  <1>5. ASSUME NEW id \in Id, NEW v \in Value, NEW n \in Value, ChangePin(p, id, v, n)
        PROVE  CallFits(p)'
    BY <1>5 DEF ChangePin
  <1>6. QED
    BY <1>1, <1>2, <1>3, <1>4, <1>5 DEF Method

LEMMA WrappingFits ==
  ASSUME TypeOK, NEW p \in Proc, CallFits(p), Wrapping(p)
  PROVE  CallFits(p)'
  <1> USE DEF CallFits, TypeOK, Idle, Unwrapped, Wrapped
  <1>1. CASE SelectFails(p) \/ NewMasterFile(p) \/ PowerCycleFails(p)
    BY <1>1 DEF SelectFails, NewMasterFile, PowerCycleFails, CardMisses, Unsure, None, MF
  <1>2. CASE DropWrapper(p) \/ SelectBehindFails(p)
    BY <1>2 DEF DropWrapper, SelectBehindFails, NoCall, None
  <1>3. CASE PowerCycle(p)
    BY <1>3 DEF PowerCycle, CardPowerUp, NoCall, None
  <1>4. CASE Throwaway(p)
    BY <1>4, AfterReturnOk DEF Throwaway, At, None
  <1>5. ASSUME NEW d \in DF, Select(p, d)
        PROVE  CallFits(p)'
    BY <1>5 DEF Select, CardSelect, DF, Apps, MF, None
  <1>6. ASSUME NEW d \in DF, SelectLost(p, d)
        PROVE  CallFits(p)'
    BY <1>6 DEF SelectLost, CardSelect, Unsure
  <1>7. ASSUME NEW d \in DF, SelectBehindWrapper(p, d)
        PROVE  CallFits(p)'
    BY <1>7 DEF SelectBehindWrapper, CardSelect, NoCall, None
  <1>8. QED
    BY <1>1, <1>2, <1>3, <1>4, <1>5, <1>6, <1>7 DEF Wrapping

LEMMA StepCall ==
  ASSUME TypeOK, CallOK, NEW p \in Proc, Step(p)
  PROVE  CallOK'
  <1>1. CallFits(p)'
    <2>1. CASE Connection(p)
      BY <2>1 DEF Connection, Connect, Disconnect, CallOK, CallFits, TypeOK, NoCall, None
    <2>2. QED
      BY <2>1, CommandFits, MethodFits, WrappingFits DEF Step, CallOK
  <1>2. ASSUME NEW q \in Proc, q # p
        PROVE  CallFits(q)'
    BY <1>2, OthersSame DEF Same, CallOK, CallFits
  <1>3. QED
    BY <1>1, <1>2 DEF CallOK

LEMMA NextStep == Next <=> \E p \in Proc : Step(p)
  BY DEF Next, Step

\* Every variable keeps its type: in particular no counter runs below zero or
\* above MaxTries, whoever presents whatever value (VERIFY, card.rs).
THEOREM TypeCorrect == Spec => []TypeOK
  <1>1. Init => TypeOK /\ CallOK
    BY InitType, InitCall
  <1>2. TypeOK /\ CallOK /\ [Next]_vars => (TypeOK /\ CallOK)'
    <2> SUFFICES ASSUME TypeOK, CallOK, [Next]_vars
                 PROVE  (TypeOK /\ CallOK)'
      OBVIOUS
    <2>1. CASE Next
      BY <2>1, NextStep, StepType, StepCall
    <2>2. CASE UNCHANGED vars
      BY <2>2 DEF vars, TypeOK, CallOK, CallFits
    <2>3. QED
      BY <2>1, <2>2
  <1>3. QED
    BY <1>1, <1>2, PTL DEF Spec
-----------------------------------------------------------------------------
(* The rest of the inductive invariant *)

\* The master file has no key references
LEMMA NoKeyOfMF == Keys(MF) = {}
  BY DEF Keys, Wrapper, MasterFile, Apps, MF

LEMMA NoneIsNoDF == None \notin DF /\ None \notin Sharings
  BY AppAssumption, SharingAssumption DEF None, DF, Apps, MF

\* While a program holds the card alone, no other can take a step
LEMMA Alone ==
  ASSUME TypeOK, Reserved, Offline, NEW p \in Proc, NEW q \in Proc, q # p,
         mode[q] = "exclusive", Step(p)
  PROVE  FALSE
  <1>1. mode[p] = None /\ call[p].at = "idle"
    BY DEF Reserved, Offline, NoCall
  <1>2. CASE Connection(p)
    BY <1>1, <1>2 DEF Connection, Connect, Disconnect
  <1>3. CASE Wrapping(p)
    BY <1>1, <1>3 DEF Wrapping, SelectFails, SelectBehindFails, NewMasterFile, DropWrapper,
         PowerCycle, PowerCycleFails, Throwaway, Select, SelectLost, SelectBehindWrapper,
         Unwrapped, Wrapped, Idle, At
  <1>4. CASE Method(p)
    BY <1>1, <1>4 DEF Method, Retries, ReadEf, CallNamed, VerifyKey, ChangePin, Wrapped, Idle
  <1>5. CASE Command(p)
    BY <1>1, <1>5, CommandCall
  <1>6. QED
    BY <1>2, <1>3, <1>4, <1>5 DEF Step

\* Calling a method sends nothing
LEMMA MethodSendsNothing ==
  ASSUME NEW p \in Proc, Method(p)
  PROVE  Wrapped(p) /\ UNCHANGED <<card, prog, mine>>
  <1> USE DEF Begin
  <1>1. ASSUME NEW id \in Id, Retries(p, id) \/ ReadEf(p, id) \/ CallNamed(p, id)
        PROVE  Wrapped(p) /\ UNCHANGED <<card, prog, mine>>
    BY <1>1 DEF Retries, ReadEf, CallNamed
  <1>2. ASSUME NEW id \in Id, NEW v \in Value, VerifyKey(p, id, v)
        PROVE  Wrapped(p) /\ UNCHANGED <<card, prog, mine>>
    BY <1>2 DEF VerifyKey
  <1>3. ASSUME NEW id \in Id, NEW v \in Value, NEW n \in Value, ChangePin(p, id, v, n)
        PROVE  Wrapped(p) /\ UNCHANGED <<card, prog, mine>>
    BY <1>3 DEF ChangePin
  <1>4. QED
    BY <1>1, <1>2, <1>3 DEF Method

\* Only a program with a connection does anything but connect, and it keeps its mode
LEMMA Connected ==
  ASSUME TypeOK, Offline, NEW p \in Proc, Wrapping(p) \/ Method(p) \/ Command(p)
  PROVE  mode[p] # None /\ mode' = mode
  <1>1. CASE Wrapping(p)
    <2>1. CASE \E d \in DF : Select(p, d) \/ SelectLost(p, d) \/ SelectBehindWrapper(p, d)
      BY <2>1 DEF Select, SelectLost, SelectBehindWrapper, Unwrapped, Wrapped, Idle, Unsure
    <2>2. CASE Throwaway(p)
      BY <2>2 DEF Throwaway, At, Offline, NoCall
    <2>3. CASE \/ SelectFails(p) \/ SelectBehindFails(p) \/ NewMasterFile(p) \/ DropWrapper(p)
               \/ PowerCycle(p) \/ PowerCycleFails(p)
      BY <2>3 DEF SelectFails, SelectBehindFails, NewMasterFile, DropWrapper, PowerCycle,
           PowerCycleFails, Unwrapped, Wrapped, Idle, Unsure, prog
    <2>4. QED
      BY <1>1, <2>1, <2>2, <2>3 DEF Wrapping
  <1>2. CASE Method(p)
    BY <1>2, MethodSendsNothing DEF Wrapped, Idle, prog
  <1>3. CASE Command(p)
    BY <1>3, CommandCall DEF Offline, NoCall, prog
  <1>4. QED
    BY <1>1, <1>2, <1>3

LEMMA StepReserved ==
  ASSUME TypeOK, Reserved, Offline, NEW p \in Proc, Step(p)
  PROVE  Reserved'
  <1>1. CASE Disconnect(p)
    <2> SUFFICES ASSUME NEW r \in Proc, NEW q \in Proc, mode'[r] = "exclusive", q # r
                 PROVE  mode'[q] = None
      BY DEF Reserved
    <2>1. mode[r] = "exclusive"
      BY <1>1 DEF Disconnect, TypeOK, None
    <2>2. QED
      BY <1>1, <2>1 DEF Disconnect, Reserved, TypeOK
  <1>2. ASSUME NEW m \in Sharings, Connect(p, m)
        PROVE  Reserved'
    <2> SUFFICES ASSUME NEW r \in Proc, NEW q \in Proc, mode'[r] = "exclusive", q # r
                 PROVE  mode'[q] = None
      BY DEF Reserved
    <2>1. r = p /\ m = "exclusive"
      BY <1>2 DEF Connect, TypeOK
    <2>2. QED
      BY <1>2, <2>1 DEF Connect, TypeOK
  <1>3. CASE Wrapping(p) \/ Method(p) \/ Command(p)
    BY <1>3, Connected DEF Reserved
  <1>4. QED
    BY <1>1, <1>2, <1>3 DEF Step, Connection

LEMMA StepOffline ==
  ASSUME TypeOK, Offline, NEW p \in Proc, Step(p)
  PROVE  Offline'
  <1> DEFINE Off(q) == mode[q] = None => ap[q] = None /\ call[q] = NoCall /\ ~sure[q] /\ ~fresh[q]
  <1>1. ASSUME NEW q \in Proc, q # p
        PROVE  Off(q)'
    BY <1>1, OthersSame DEF Same, Offline
  <1>2. Off(p)'
    <2>1. CASE Disconnect(p)
      BY <2>1 DEF Disconnect, TypeOK
    <2>2. CASE \E m \in Sharings : Connect(p, m)
      BY <2>2, NoneIsNoDF DEF Connect, TypeOK
    <2>3. CASE Wrapping(p) \/ Method(p) \/ Command(p)
      BY <2>3, Connected
    <2>4. QED
      BY <2>1, <2>2, <2>3 DEF Step, Connection
  <1>3. QED
    BY <1>1, <1>2 DEF Offline

LEMMA StepStatus ==
  ASSUME TypeOK, StatusInDf, NEW p \in Proc, Step(p)
  PROVE  StatusInDf'
  <1> USE DEF StatusInDf
  <1>0. CASE Connection(p)
    BY <1>0 DEF Connection, Connect, Disconnect, card
  <1>1. CASE Method(p)
    BY <1>1, MethodSendsNothing DEF card
  <1>2. CASE Wrapping(p)
    <2>1. ASSUME NEW d \in DF, CardSelect(d)
          PROVE  StatusInDf'
      BY <2>1 DEF CardSelect
    <2>2. CASE SelectFails(p) \/ SelectBehindFails(p) \/ NewMasterFile(p) \/ DropWrapper(p)
               \/ Throwaway(p)
      BY <2>2 DEF SelectFails, SelectBehindFails, NewMasterFile, DropWrapper, Throwaway, card,
           CardMisses
    <2>3. CASE PowerCycle(p) \/ PowerCycleFails(p)
      BY <2>3 DEF PowerCycle, PowerCycleFails, CardPowerUp, card
    <2>4. QED
      BY <1>2, <2>1, <2>2, <2>3 DEF Wrapping, Select, SelectLost, SelectBehindWrapper
  <1>3. CASE VerifyAccepted(p)
    BY <1>3 DEF VerifyAccepted, Key, KeyRef
  <1>4. CASE VerifyRejected(p)
    BY <1>4 DEF VerifyRejected
  <1>5. CASE Command(p) /\ ~VerifyAccepted(p) /\ ~VerifyRejected(p)
    BY <1>5 DEF Command, CommandFails, SelectEf, SelectEfRefused, VerifyBlocked, NotAKey,
         QueryTries, Replace, ReplaceRefused, ReadChunk, ReadChunkRefused, UseNamed,
         UseNamedRefused, CardMisses, CardReads
  <1>6. QED
    BY <1>0, <1>1, <1>2, <1>3, <1>4, <1>5 DEF Step
-----------------------------------------------------------------------------
(* A program that holds the card alone keeps what it can rely on *)

LEMMA OwnConnection ==
  ASSUME TypeOK, Offline, NEW p \in Proc, Connection(p), mode'[p] = "exclusive"
  PROVE  Own(p)'
  <1>1. CASE Disconnect(p)
    BY <1>1 DEF Disconnect, TypeOK, None
  <1>2. ASSUME NEW m \in Sharings, Connect(p, m)
        PROVE  Own(p)'
    BY <1>2 DEF Connect, Offline, NoCall, Own
  <1>3. QED
    BY <1>1, <1>2 DEF Connection

LEMMA OwnWrapping ==
  ASSUME TypeOK, CallOK, StatusInDf, NEW p \in Proc, Own(p), Wrapping(p)
  PROVE  Own(p)'
  <1> USE NoneIsNoDF DEF Unwrapped, Wrapped, Idle, TypeOK
  <1>1. CASE SelectFails(p)
    BY <1>1 DEF SelectFails, CardMisses, Unsure, Own
  <1>2. CASE NewMasterFile(p)
    <2>1. call[p].got = {} /\ call[p].op # "retries"
      BY <1>2 DEF NewMasterFile, CallOK, CallFits, None
    <2>2. df' = df /\ ap'[p] = MF /\ call' = call /\ sure' = sure /\ fresh' = fresh
          /\ status' = status /\ mine' = mine /\ call[p].at = "idle" /\ MF # None
      BY <1>2 DEF NewMasterFile, card, DF
    <2>3. sure[p] => Settled(p)'
      BY <1>2, <2>2 DEF Own, Settled, NewMasterFile
    <2>4. QED
      BY <2>1, <2>2, <2>3 DEF Own, OnTarget, StillTrue
  <1>3. CASE DropWrapper(p)
    BY <1>3 DEF DropWrapper, card, Own, Settled, OnTarget, StillTrue, NoCall, None
  <1>4. CASE PowerCycle(p)
    BY <1>4 DEF PowerCycle, CardPowerUp, Own
  <1>5. CASE Throwaway(p)
    <2>1. ap[p] = None /\ df = MF
      BY <1>5 DEF Throwaway, At, Own
    <2>2. call[p].op \in {None, "power"}
      BY <2>1 DEF CallOK, CallFits
    <2>3. call'[p].at = "idle" /\ call'[p].op \in {None, "power"}
      BY <1>5, <2>2, AfterReturnOk DEF Throwaway
    <2>4. ap' = ap /\ fresh' = fresh /\ UNCHANGED <<df, status, mine>>
      BY <1>5 DEF Throwaway, CardMisses
    <2>5. QED
      BY <2>1, <2>3, <2>4 DEF Own, Settled, OnTarget, StillTrue, None
  <1>6. ASSUME NEW d \in DF, CardSelect(d), fresh'[p] => fresh[p] \/ d = MF
        PROVE  fresh'[p] => status' \subseteq mine'[p]
    <2>1. CASE d # df
      BY <1>6, <2>1 DEF CardSelect
    <2>2. CASE d = df
      BY <1>6, <2>2, NoKeyOfMF DEF CardSelect, Own, StatusInDf
    <2>3. QED
      BY <2>1, <2>2
  <1>7. ASSUME NEW d \in DF, Select(p, d)
        PROVE  Own(p)'
    <2>1. call[p].got = {} /\ call[p].op # "retries"
      BY <1>7 DEF Select, CallOK, CallFits, None
    <2>2. df' = d /\ ap'[p] = d /\ call' = call /\ call[p].at = "idle"
      BY <1>7 DEF Select, CardSelect
    <2>3. fresh'[p] => status' \subseteq mine'[p]
      BY <1>6, <1>7 DEF Select
    <2>4. QED
      BY <2>1, <2>2, <2>3 DEF Own, Settled, OnTarget, StillTrue
  <1>8. ASSUME NEW d \in DF, SelectLost(p, d)
        PROVE  Own(p)'
    BY <1>6, <1>8 DEF SelectLost, Unsure, Own
  <1>9. ASSUME NEW d \in DF, SelectBehindWrapper(p, d)
        PROVE  Own(p)'
    <2>1. fresh'[p] => status' \subseteq mine'[p]
      BY <1>6, <1>9 DEF SelectBehindWrapper
    <2>2. /\ df' = d /\ ap' = ap /\ ap[p] # None /\ call'[p] = NoCall
          /\ sure'[p] => d = ap[p]
      BY <1>9 DEF SelectBehindWrapper, CardSelect
    <2>3. QED
      BY <2>1, <2>2 DEF Own, Settled, OnTarget, StillTrue, NoCall, None
  <1>10. CASE SelectBehindFails(p)
    BY <1>10 DEF SelectBehindFails, CardMisses, prog, Own, Settled, OnTarget, StillTrue, NoCall,
         None
  <1>11. CASE PowerCycleFails(p)
    BY <1>11 DEF PowerCycleFails, CardPowerUp, Unsure, Own, card
  <1>12. QED
    BY <1>1, <1>2, <1>3, <1>4, <1>5, <1>7, <1>8, <1>9, <1>10, <1>11 DEF Wrapping

\* The call a method starts with
LEMMA MethodCall ==
  ASSUME TypeOK, NEW p \in Proc, Method(p)
  PROVE  /\ call'[p].at \in {"select", "named"}
         /\ call'[p].res = None /\ call'[p].got = {}
         /\ call'[p].op \in {"verify", "change"} => MayPresent(p, call'[p].id)
  <1> DEFINE Goal == /\ call'[p].at \in {"select", "named"}
                     /\ call'[p].res = None /\ call'[p].got = {}
                     /\ call'[p].op \in {"verify", "change"} => MayPresent(p, call'[p].id)
  <1> USE DEF Begin, TypeOK, NoCall, None
  <1>1. ASSUME NEW id \in Id, Retries(p, id)
        PROVE  Goal
    BY <1>1 DEF Retries
  <1>2. ASSUME NEW id \in Id, ReadEf(p, id)
        PROVE  Goal
    BY <1>2 DEF ReadEf
  <1>3. ASSUME NEW id \in Id, CallNamed(p, id)
        PROVE  Goal
    BY <1>3 DEF CallNamed
  <1>4. ASSUME NEW id \in Id, NEW v \in Value, VerifyKey(p, id, v)
        PROVE  Goal
    BY <1>4 DEF VerifyKey
  <1>5. ASSUME NEW id \in Id, NEW v \in Value, NEW n \in Value, ChangePin(p, id, v, n)
        PROVE  Goal
    BY <1>5 DEF ChangePin
  <1>6. QED
    BY <1>1, <1>2, <1>3, <1>4, <1>5 DEF Method

LEMMA OwnMethod ==
  ASSUME TypeOK, NEW p \in Proc, Own(p), Method(p)
  PROVE  Own(p)'
  <1>1. /\ UNCHANGED <<df, ef, status, tries, secret, ap, sure, fresh, mine>>
        /\ call'[p].at \in {"select", "named"}
        /\ call'[p].res = None /\ call'[p].got = {}
    BY MethodSendsNothing, MethodCall DEF card, prog
  <1>2. ASSUME sure[p], p \in Careful, call'[p].op \in {"verify", "change"}
        PROVE  tries[<<ap[p], call'[p].id>>] > 1
    BY <1>2, MethodCall DEF MayPresent, Own, StillTrue, Target
  <1>3. sure[p] => Settled(p)' /\ OnTarget(p)'
    BY <1>1 DEF Own, Settled, OnTarget
  <1>4. sure[p] => StillTrue(p)'
    BY <1>1, <1>2 DEF StillTrue, Target, None
  <1>5. QED
    BY <1>1, <1>3, <1>4 DEF Own

LEMMA OwnCommand ==
  ASSUME TypeOK, CallOK, NEW p \in Proc, Own(p), Command(p)
  PROVE  Own(p)'
  <1>a. call \in [Proc -> Call] /\ call[p] \in Call
    BY DEF TypeOK
  <1>1. /\ UNCHANGED <<df, ap, sure, fresh>>
        /\ call'[p].op = call[p].op /\ call'[p].id = call[p].id
        /\ call'[p].at = "idle" \/ Going(p)
        /\ Collected(p)
        /\ ap[p] # None /\ call[p].res = None
    BY CommandCall DEF prog, CallOK, CallFits
  <1>2. call'[p].at # "throwaway"
    BY <1>1 DEF Going, AfterSelect
  <1>3. fresh[p] => status' \subseteq mine'[p]
    <2>1. CASE VerifyAccepted(p)
      BY <2>1 DEF VerifyAccepted, TypeOK, Own
    <2>2. CASE VerifyRejected(p)
      BY <2>2 DEF VerifyRejected, TypeOK, Own
    <2>3. CASE UNCHANGED <<status, mine>>
      BY <2>3 DEF Own
    <2>4. QED
      BY <2>1, <2>2, <2>3 DEF Command, CommandFails, SelectEf, SelectEfRefused, VerifyBlocked,
         NotAKey, QueryTries, Replace, ReplaceRefused, ReadChunk, ReadChunkRefused, UseNamed,
         UseNamedRefused, CardMisses, CardReads
  <1>4. SUFFICES ASSUME sure[p]
                 PROVE  OnTarget(p)' /\ StillTrue(p)'
    BY <1>1, <1>2, <1>3 DEF Own, Settled
  <1>5. df = ap[p] /\ Target(p)' = Target(p)
    BY <1>1, <1>4 DEF Own, Settled, Target
  <1>6. call'[p].got \subseteq {Target(p)}
    BY <1>1, <1>4, <1>5 DEF Own, OnTarget, Collected, Target
  <1> DEFINE Goal == /\ call'[p].at \in {"verify", "change", "query", "chunk"} => Key' = Target(p)
                     /\ StillTrue(p)'
  <1> SUFFICES Goal
    BY <1>5, <1>6 DEF OnTarget
  <1>7. call[p].at \in {"verify", "change", "query", "chunk"} => Key = Target(p)
    BY <1>4 DEF Own, OnTarget
  <1>e. ASSUME ReturnError(p)
        PROVE  Goal
    BY <1>e, <1>a, AfterReturnError DEF StillTrue
  <1>8. CASE CommandFails(p)
    BY <1>8, <1>e DEF CommandFails
  <1>9. CASE SelectEfRefused(p) \/ NotAKey(p) \/ ReplaceRefused(p) \/ ReadChunkRefused(p)
               \/ UseNamedRefused(p)
    BY <1>9, <1>e DEF SelectEfRefused, NotAKey, ReplaceRefused, ReadChunkRefused, UseNamedRefused
  <1>10. CASE SelectEf(p)
    <2>1. CASE Goto(p, AfterSelect(call[p].op))
      <3>1. Key' = Target(p) /\ tries' = tries /\ call[p].at = "select"
        BY <1>10, <1>1, <1>5 DEF SelectEf, CardReads, At, Key, Target
      <3>2. call'[p].at # "change" /\ call'[p].res = None
        BY <2>1, <1>1, <1>a, AfterGoto DEF AfterSelect
      <3>3. p \in Careful /\ call[p].op \in {"verify", "change"} => tries[Target(p)] > 1
        BY <3>1, <1>4 DEF Own, StillTrue
      <3>4. QED
        BY <3>1, <3>2, <3>3, <1>1, <1>5 DEF StillTrue, None
    <2>2. QED
      BY <1>10, <2>1, <1>e DEF SelectEf
  <1>11. CASE VerifyAccepted(p)
    <2>1. CASE ReturnOk(p)
      BY <2>1, <1>a, AfterReturnOk DEF StillTrue
    <2>2. CASE call[p].op = "change" /\ Goto(p, "change")
      <3>1. Key = Target(p) /\ Key' = Key /\ secret' = secret /\ call[p].value = secret[Key]
        BY <1>11, <1>7 DEF VerifyAccepted, At, Key
      <3>2. call'[p].at = "change" /\ call'[p].value = call[p].value /\ call'[p].op = "change"
        BY <2>2, <1>a, AfterGoto
      <3>3. QED
        BY <3>1, <3>2, <1>5 DEF StillTrue
    <2>3. QED
      BY <1>11, <2>1, <2>2, <1>e DEF VerifyAccepted
  <1>12. CASE VerifyRejected(p) \/ VerifyBlocked(p)
    <2>1. call[p].op # "retries"
      BY <1>12 DEF VerifyRejected, VerifyBlocked, At, CallOK, CallFits
    <2> DEFINE c == [call[p] EXCEPT !.res = IF tries[Key] = 1 THEN "blocked" ELSE "incorrect",
                                    !.left = tries[Key] - 1]
    <2>2. Return(p, c) => call'[p].at = "idle"
      BY <1>a DEF Return, Call
    <2>3. Return(p, [call[p] EXCEPT !.res = "blocked"]) => call'[p].at = "idle"
      BY <1>a DEF Return, Call
    <2>4. ReturnError(p) \/ call'[p].at = "idle"
      BY <1>12, <2>2, <2>3 DEF VerifyRejected, VerifyBlocked
    <2>5. QED
      BY <2>1, <2>4, <1>1, <1>e DEF StillTrue
  <1>13. CASE QueryTries(p)
    <2> DEFINE c == [call[p] EXCEPT !.res = IF tries[Key] = 0 THEN "blocked" ELSE "remaining",
                                    !.left = tries[Key]]
    <2>1. CASE Return(p, c)
      <3>1. call'[p].at = "idle" /\ call'[p].left = tries[Key]
        BY <2>1, <1>a DEF Return, Call
      <3>2. Key = Target(p) /\ tries' = tries
        BY <1>13, <1>7 DEF QueryTries, At, CardReads
      <3>3. QED
        BY <3>1, <3>2, <1>5 DEF StillTrue
    <2>2. CASE Return(p, [call[p] EXCEPT !.res = "unreported"])
      BY <2>2, <1>a DEF Return, Call, StillTrue
    <2>3. QED
      BY <1>13, <2>1, <2>2, <1>e DEF QueryTries
  <1>14. CASE Replace(p)
    BY <1>14, <1>e, <1>a, AfterReturnOk DEF Replace, StillTrue
  <1>15. CASE ReadChunk(p)
    <2> DEFINE c == [call[p] EXCEPT !.got = @ \cup {Key}]
    <2>1. CASE call' = [call EXCEPT ![p] = c]
      <3>1. call'[p].at = "chunk" /\ call'[p].res = None
        BY <2>1, <1>15, <1>1, <1>a DEF Call, ReadChunk, At
      <3>2. Key' = Key /\ Key = Target(p)
        BY <1>15, <1>7, <1>1 DEF ReadChunk, At, Key
      <3>3. QED
        BY <3>1, <3>2 DEF StillTrue, None
    <2>2. CASE Return(p, [c EXCEPT !.res = "ok"])
      BY <2>2, <1>a DEF Return, Call, StillTrue
    <2>3. QED
      BY <1>15, <2>1, <2>2, <1>e DEF ReadChunk
  <1>16. CASE UseNamed(p)
    <2> DEFINE got == {<<df, call[p].id>>}
    <2> HIDE DEF got
    <2>1. CASE Return(p, [call[p] EXCEPT !.res = "ok", !.got = got])
      BY <2>1, <1>a DEF Return, Call, StillTrue
    <2>2. QED
      BY <1>16, <2>1, <1>e DEF UseNamed, got
  <1>17. QED
    BY <1>8, <1>9, <1>10, <1>11, <1>12, <1>13, <1>14, <1>15, <1>16 DEF Command
-----------------------------------------------------------------------------
(* The inductive invariant, and what follows from it *)

LEMMA InitIInv == Init => IInv
  <1> SUFFICES ASSUME Init
               PROVE  IInv
    OBVIOUS
  <1>1. TypeOK /\ CallOK
    BY InitType, InitCall
  <1>2. Reserved /\ Offline /\ StatusInDf
    BY DEF Init, Reserved, Offline, StatusInDf
  <1>3. \A p \in Proc : mode[p] = "exclusive" => Own(p)
    BY DEF Init, None
  <1>4. QED
    BY <1>1, <1>2, <1>3 DEF IInv

LEMMA StepIInv ==
  ASSUME IInv, NEW p \in Proc, Step(p)
  PROVE  IInv'
  <1>1. TypeOK /\ CallOK /\ Reserved /\ Offline /\ StatusInDf
    BY DEF IInv
  <1>2. (TypeOK /\ CallOK /\ Reserved /\ Offline /\ StatusInDf)'
    BY <1>1, StepType, StepCall, StepReserved, StepOffline, StepStatus
  <1>3. ASSUME NEW q \in Proc, mode'[q] = "exclusive"
        PROVE  Own(q)'
    <2>1. q = p
      BY <1>1, <1>3, OthersSame, Alone DEF Same
    <2>2. CASE Connection(p)
      BY <1>1, <1>3, <2>1, <2>2, OwnConnection
    <2>3. CASE Wrapping(p) \/ Method(p) \/ Command(p)
      <3>1. mode[p] = "exclusive"
        BY <1>1, <1>3, <2>1, <2>3, Connected
      <3>2. Own(p)
        BY <3>1 DEF IInv
      <3>3. QED
        BY <1>1, <2>1, <2>3, <3>2, OwnWrapping, OwnMethod, OwnCommand
    <2>4. QED
      BY <2>2, <2>3 DEF Step
  <1>4. QED
    BY <1>2, <1>3 DEF IInv

LEMMA Inductive == IInv /\ [Next]_vars => IInv'
  <1> SUFFICES ASSUME IInv, [Next]_vars
               PROVE  IInv'
    OBVIOUS
  <1>1. CASE Next
    BY <1>1, NextStep, StepIInv
  <1>2. CASE UNCHANGED vars
    BY <1>2 DEF vars, IInv, TypeOK, CallOK, CallFits, Reserved, Offline, StatusInDf, Own,
         Settled, OnTarget, StillTrue, Key, Target, Keys
  <1>3. QED
    BY <1>1, <1>2

\* The inductive invariant: a reservation excludes every other connection, a
\* program without one has nothing under way, the status is that of the current DF,
\* and an exclusive program's view of the card is right.
THEOREM Invariant == Spec => []IInv
  BY InitIInv, Inductive, PTL DEF Spec

\* However many programs take turns with the card and whatever state they leave
\* it in, the commands that follow a method's SELECT act on the key or file the
\* method was asked for.
THEOREM OwnKeyOnlyHolds == Spec => []OwnKeyOnly
  <1>1. IInv => OwnKeyOnly
    BY DEF IInv, Own, OnTarget, OwnKeyOnly, Trusted
  <1>2. QED
    BY <1>1, Invariant, PTL

\* A method returns data of its target alone.
THEOREM DataOfTargetHolds == Spec => []DataOfTarget
  <1>1. IInv => DataOfTarget
    BY DEF IInv, Own, OnTarget, DataOfTarget, Trusted
  <1>2. QED
    BY <1>1, Invariant, PTL

\* The attempts the last query reported are those the key has.
THEOREM ReportStillHoldsHolds == Spec => []ReportStillHolds
  <1>1. IInv => ReportStillHolds
    BY DEF IInv, Own, StillTrue, ReportStillHolds, Trusted
  <1>2. QED
    BY <1>1, Invariant, PTL

\* A program that cleared the card has no status but what it earned.
THEOREM NoInheritedStatusHolds == Spec => []NoInheritedStatus
  <1>1. IInv => NoInheritedStatus
    BY DEF IInv, Own, NoInheritedStatus
  <1>2. QED
    BY <1>1, Invariant, PTL

\* Where a counter, or a value, changes
LEMMA WhoSpends ==
  ASSUME TypeOK, NEW p \in Proc, Step(p), NEW r \in KeyRef, tries'[r] < tries[r]
  PROVE  VerifyRejected(p) /\ r = Key
  <1>1. CASE tries' = tries
    BY <1>1 DEF TypeOK
  <1>2. tries' = tries \/ VerifyAccepted(p) \/ VerifyRejected(p)
    <2>1. CASE Connection(p) \/ Method(p)
      BY <2>1, MethodSendsNothing DEF Connection, Connect, Disconnect, card
    <2>2. CASE Wrapping(p)
      BY <2>2 DEF Wrapping, SelectFails, SelectBehindFails, NewMasterFile, DropWrapper,
           PowerCycle, PowerCycleFails, Throwaway, card, Select, SelectLost,
           SelectBehindWrapper, CardMisses, CardSelect, CardPowerUp
    <2>3. CASE Command(p)
      BY <2>3 DEF Command, CommandFails, SelectEf, SelectEfRefused, VerifyBlocked, NotAKey,
         QueryTries, Replace, ReplaceRefused, ReadChunk, ReadChunkRefused, UseNamed,
         UseNamedRefused, CardMisses, CardReads
    <2>4. QED
      BY <2>1, <2>2, <2>3 DEF Step
  <1>3. CASE VerifyAccepted(p)
    BY <1>3, TriesAssumption DEF VerifyAccepted, TypeOK
  <1>4. CASE VerifyRejected(p)
    BY <1>4 DEF VerifyRejected, TypeOK
  <1>5. QED
    BY <1>1, <1>2, <1>3, <1>4

LEMMA WhoReplaces ==
  ASSUME TypeOK, NEW p \in Proc, Step(p), NEW r \in KeyRef, secret'[r] # secret[r]
  PROVE  Replace(p) /\ r = Key /\ secret'[r] = call[p].new
  <1>1. secret' = secret \/ Replace(p)
    <2>1. CASE Connection(p) \/ Method(p)
      BY <2>1, MethodSendsNothing DEF Connection, Connect, Disconnect, card
    <2>2. CASE Wrapping(p)
      BY <2>2 DEF Wrapping, SelectFails, SelectBehindFails, NewMasterFile, DropWrapper,
           PowerCycle, PowerCycleFails, Throwaway, card, Select, SelectLost,
           SelectBehindWrapper, CardMisses, CardSelect, CardPowerUp
    <2>3. CASE Command(p)
      BY <2>3 DEF Command, CommandFails, SelectEf, SelectEfRefused, VerifyBlocked, NotAKey,
         QueryTries, VerifyAccepted, VerifyRejected, ReplaceRefused, ReadChunk,
         ReadChunkRefused, UseNamed, UseNamedRefused, CardMisses, CardReads
    <2>4. QED
      BY <2>1, <2>2, <2>3 DEF Step
  <1>2. CASE Replace(p)
    BY <1>2 DEF Replace, TypeOK
  <1>3. QED
    BY <1>1, <1>2

\* A step while q is trusted is q's own
LEMMA TrustedStep ==
  ASSUME IInv, NEW q \in Proc, Trusted(q), Next
  PROVE  Step(q)
  BY NextStep, Alone DEF IInv, Trusted

\* An attempt is spent only on a wrong value for the key the method names.
THEOREM AttemptsOnlyOnWrongValueHolds == Spec => AttemptsOnlyOnWrongValue
  <1> DEFINE A == \A p \in Proc, r \in KeyRef :
                    Trusted(p) /\ tries'[r] < tries[r] =>
                      At(p, "verify") /\ Target(p) = r /\ call[p].value # secret[r]
  <1>1. IInv /\ [Next]_vars => [A]_vars
    <2> SUFFICES ASSUME IInv, Next, NEW p \in Proc, NEW r \in KeyRef,
                        Trusted(p), tries'[r] < tries[r]
                 PROVE  At(p, "verify") /\ Target(p) = r /\ call[p].value # secret[r]
      OBVIOUS
    <2>1. VerifyRejected(p) /\ r = Key
      BY TrustedStep, WhoSpends DEF IInv
    <2>2. Key = Target(p)
      BY <2>1 DEF IInv, Own, OnTarget, Trusted, VerifyRejected, At
    <2>3. QED
      BY <2>1, <2>2 DEF VerifyRejected
  <1>2. QED
    BY <1>1, Invariant, PTL DEF Spec, AttemptsOnlyOnWrongValue

\* A value is replaced only by whoever presented it.
THEOREM ChangeOnlyByHolderHolds == Spec => ChangeOnlyByHolder
  <1> DEFINE A == \A p \in Proc, r \in KeyRef :
                    Trusted(p) /\ secret'[r] # secret[r] =>
                      /\ At(p, "change")
                      /\ Target(p) = r
                      /\ call[p].value = secret[r]
                      /\ call[p].new = secret'[r]
  <1>1. IInv /\ [Next]_vars => [A]_vars
    <2> SUFFICES ASSUME IInv, Next, NEW p \in Proc, NEW r \in KeyRef,
                        Trusted(p), secret'[r] # secret[r]
                 PROVE  /\ At(p, "change")
                        /\ Target(p) = r
                        /\ call[p].value = secret[r]
                        /\ call[p].new = secret'[r]
      OBVIOUS
    <2>1. Replace(p) /\ r = Key /\ secret'[r] = call[p].new
      BY TrustedStep, WhoReplaces DEF IInv
    <2>2. OnTarget(p) /\ StillTrue(p)
      BY DEF IInv, Own, Trusted
    <2>3. QED
      BY <2>1, <2>2 DEF OnTarget, StillTrue, Replace, At
  <1>2. QED
    BY <1>1, Invariant, PTL DEF Spec, ChangeOnlyByHolder

\* Asking first and keeping the last attempt never blocks a key.
THEOREM CarefulNeverBlocksHolds == Spec => CarefulNeverBlocks
  <1> DEFINE A == \A p \in Careful, r \in KeyRef :
                    Trusted(p) /\ tries[r] > 0 => tries'[r] > 0
  <1>1. IInv /\ [Next]_vars => [A]_vars
    <2> SUFFICES ASSUME IInv, Next, NEW p \in Careful, NEW r \in KeyRef,
                        Trusted(p), tries[r] > 0
                 PROVE  tries'[r] > 0
      OBVIOUS
    <2>0. p \in Proc
      BY CarefulAssumption
    <2>a. tries[r] \in Int /\ tries'[r] \in Int
      <3>1. TypeOK'
        BY Inductive DEF IInv
      <3>2. QED
        BY <3>1 DEF IInv, TypeOK
    <2>1. CASE tries'[r] < tries[r]
      <3>1. VerifyRejected(p) /\ r = Key
        BY <2>0, <2>1, TrustedStep, WhoSpends DEF IInv
      <3>2. OnTarget(p) /\ StillTrue(p)
        BY <2>0 DEF IInv, Own, Trusted
      <3>3. call[p].at = "verify" /\ call[p].op \in {"verify", "change"}
        BY <2>0, <3>1 DEF VerifyRejected, At, IInv, CallOK, CallFits
      <3>4. tries[r] > 1
        BY <3>1, <3>2, <3>3 DEF OnTarget, StillTrue
      <3>5. tries'[r] = tries[r] - 1
        BY <3>1 DEF VerifyRejected, IInv, TypeOK
      <3>6. QED
        BY <2>a, <3>4, <3>5
    <2>2. QED
      BY <2>a, <2>1
  <1>2. QED
    BY <1>1, Invariant, PTL DEF Spec, CarefulNeverBlocks
=============================================================================
