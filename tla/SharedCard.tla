----------------------------- MODULE SharedCard -----------------------------
(***************************************************************************)
(* Programs that use one Individual Number Card through the application    *)
(* wrappers of src/ap.  A wrapper method is a short sequence of commands,  *)
(* one action per command here.  No PC/SC transaction brackets a sequence, *)
(* so another program that holds a shared connection can get its own       *)
(* commands in between.  The card keeps the state the commands rely on:    *)
(* the current DF, the current EF and the security status, all of which    *)
(* outlive the program that set them (src/lib.rs, "Security status can     *)
(* outlive your program").                                                 *)
(*                                                                         *)
(* Beside the program's own calls a step can be a failed transmission: the *)
(* command never reaches the card, or it does and the reply is lost.       *)
(* Either way `?' makes the wrapper method return the error at once.       *)
(***************************************************************************)
EXTENDS CardLayout, Integers

CONSTANTS
  Proc,       \* programs that may hold a connection to the reader
  App,        \* the applications they use
  Id,         \* the identifiers (files, key references, objects) they use
  Value,      \* the values a key reference may hold
  MaxTries,   \* what a retry counter starts from
  Sharings,   \* the sharing modes in use, a subset of {"shared", "exclusive"}
  Careful     \* programs that follow the advice of Card::verify: query first

ASSUME AppAssumption == App \subseteq Apps
ASSUME TriesAssumption == MaxTries \in Nat \ {0}
ASSUME SharingAssumption == Sharings \subseteq {"shared", "exclusive"}
ASSUME CarefulAssumption == Careful \subseteq Proc

DF == App \cup {MF}

Keys(d)    == Wrapper[d].keys \cap Id
Changes(d) == Wrapper[d].changes \cap Id
Files(d)   == Wrapper[d].files \cap Id
Named(d)   == Wrapper[d].named \cap Id

KeyRef == {r \in DF \X Id : r[2] \in Keys(r[1])}

None == "none"

Ops      == {None, "verify", "change", "retries", "read", "named", "power"}
Points   == {"idle", "select", "verify", "change", "query", "chunk", "named", "throwaway"}
Outcomes == {None, "ok", "error", "incorrect", "blocked", "remaining", "unreported"}

VARIABLES
  df,       \* card: current DF
  ef,       \* card: current EF of that DF, or None
  status,   \* card: key references of df whose verification is in effect
  tries,    \* card: retry counter of each key reference
  secret,   \* card: value of each key reference
  awake,    \* card: the first command after power-up has been consumed
  mode,     \* sharing mode of each program's connection, None without one
  ap,       \* wrapper each program holds: a DF, or None
  sure,     \* by its own commands alone, the program knows which DF is current
  fresh,    \* the program has cleared the card since it connected
  call,     \* the wrapper method under way, or the last one and its result
  mine      \* history: the part of status this connection earned by VERIFY

card == <<df, ef, status, tries, secret, awake>>
prog == <<mode, ap, sure, fresh>>
vars == <<df, ef, status, tries, secret, awake, mode, ap, sure, fresh, call, mine>>

Call == [op : Ops, at : Points, id : Id \cup {None},
         value : Value \cup {None}, new : Value \cup {None},
         res : Outcomes, left : 0..MaxTries, got : SUBSET (DF \X Id)]

NoCall == [op |-> None, at |-> "idle", id |-> None, value |-> None,
           new |-> None, res |-> None, left |-> 0, got |-> {}]

\* Types; retry counters stay within 0..MaxTries (VERIFY never counts below zero)
TypeOK ==
  /\ df \in DF
  /\ ef \in Id \cup {None}
  /\ status \in SUBSET Id
  /\ tries \in [KeyRef -> 0..MaxTries]
  /\ secret \in [KeyRef -> Value]
  /\ awake \in BOOLEAN
  /\ mode \in [Proc -> Sharings \cup {None}]
  /\ ap \in [Proc -> DF \cup {None}]
  /\ sure \in [Proc -> BOOLEAN]
  /\ fresh \in [Proc -> BOOLEAN]
  /\ call \in [Proc -> Call]
  /\ mine \in [Proc -> SUBSET Id]

\* The card is found in any state an earlier program may have left it in
Init ==
  /\ df \in DF
  /\ ef = None
  /\ status \in SUBSET Keys(df)
  /\ tries = [r \in KeyRef |-> IF r \in IssuedBlocked THEN 0 ELSE MaxTries]
  /\ secret \in [KeyRef -> Value]
  /\ awake = TRUE
  /\ mode = [p \in Proc |-> None]
  /\ ap = [p \in Proc |-> None]
  /\ sure = [p \in Proc |-> FALSE]
  /\ fresh = [p \in Proc |-> FALSE]
  /\ call = [p \in Proc |-> NoCall]
  /\ mine = [p \in Proc |-> {}]
-----------------------------------------------------------------------------
(* PC/SC connections (src/transport/pcsc.rs) *)

\* Mutant: the reservation of another program is not looked at
ConnectIgnoringHolder(p, m) ==
  /\ mode[p] = None
  /\ mode' = [mode EXCEPT ![p] = m]
  /\ UNCHANGED <<card, ap, sure, fresh, call, mine>>

\* An exclusive reservation is refused while anyone holds the card, and anyone
\* is refused while it lasts (SharingViolation)
Connect(p, m) ==
  /\ mode[p] = None
  /\ \A q \in Proc : mode[q] # "exclusive"
  /\ m = "exclusive" => \A q \in Proc : mode[q] = None
  /\ mode' = [mode EXCEPT ![p] = m]
  /\ UNCHANGED <<card, ap, sure, fresh, call, mine>>

\* The program drops its connection or dies, possibly in the middle of a wrapper
\* method.  Nothing is sent and the card keeps its state.
Disconnect(p) ==
  /\ mode[p] # None
  /\ mode' = [mode EXCEPT ![p] = None]
  /\ ap' = [ap EXCEPT ![p] = None]
  /\ sure' = [sure EXCEPT ![p] = FALSE]
  /\ fresh' = [fresh EXCEPT ![p] = FALSE]
  /\ call' = [call EXCEPT ![p] = NoCall]
  /\ mine' = [mine EXCEPT ![p] = {}]
  /\ UNCHANGED card

-----------------------------------------------------------------------------
(* The card *)

\* Elementary files SELECT finds under d
Efs(d) == Keys(d) \cup Files(d) \cup (ShortEf(d) \cap Id)

\* x is unguarded under the current DF, or one of the keys that open it is verified
Open(x) ==
  LET opens == Wrapper[df].opens IN
  \/ \A o \in opens : o[2] # x
  \/ \E k \in status : <<k, x>> \in opens

\* SELECT of DF d.  Leaving a DF ends its security status, selecting it again
\* keeps it.
CardSelect(d) ==
  /\ awake
  /\ df' = d
  /\ ef' = None
  /\ IF d = df THEN UNCHANGED <<status, mine>>
               ELSE status' = {} /\ mine' = [q \in Proc |-> {}]
  /\ UNCHANGED <<tries, secret, awake>>

\* UnpowerCard: everything volatile is lost and the master file is current
CardPowerUp ==
  /\ df' = MF
  /\ ef' = None
  /\ status' = {}
  /\ mine' = [q \in Proc |-> {}]
  /\ awake' = FALSE
  /\ UNCHANGED <<tries, secret>>

\* A command that changes nothing on the card but the selected EF
CardReads == awake /\ UNCHANGED <<df, status, tries, secret, awake, mine>>

\* A command that never reaches the card, or is the first after a power-up and
\* is answered 6F00
CardMisses ==
  /\ awake' \in {awake, TRUE}
  /\ UNCHANGED <<df, ef, status, tries, secret, mine>>
-----------------------------------------------------------------------------
(* Calls and returns *)

Idle(p) == mode[p] # None /\ call[p].at = "idle"

\* The wrapper borrows the card: one at a time
Unwrapped(p) == Idle(p) /\ ap[p] = None

Wrapped(p) == Idle(p) /\ ap[p] # None

At(p, point) == call[p].at = point

\* The arguments of a method that has returned are gone
Return(p, c) ==
  call' = [call EXCEPT ![p] = [c EXCEPT !.at = "idle", !.value = None, !.new = None]]

ReturnOk(p) == Return(p, [call[p] EXCEPT !.res = "ok"])

\* `?' hands on the error and nothing of the data collected so far
ReturnError(p) == Return(p, [call[p] EXCEPT !.res = "error", !.got = {}])

Goto(p, point) == call' = [call EXCEPT ![p] = [@ EXCEPT !.at = point]]

Begin(p, c) ==
  /\ call' = [call EXCEPT ![p] = c]
  /\ UNCHANGED <<card, prog, mine>>

\* Mutant: the last attempt is given away too
MayPresentLast(p, id) ==
  p \in Careful => call[p].op = "retries" /\ call[p].id = id /\ call[p].res = "remaining"

\* The advice of Card::verify: a value is presented only while the key, asked
\* just before, has more than the last attempt left
MayPresent(p, id) ==
  p \in Careful =>
    /\ call[p].op = "retries"
    /\ call[p].id = id
    /\ call[p].res = "remaining"
    /\ call[p].left > 1

VerifyKey(p, id, v) ==
  /\ Wrapped(p)
  /\ id \in Keys(ap[p])
  /\ MayPresent(p, id)
  /\ Begin(p, [NoCall EXCEPT !.op = "verify", !.at = "select", !.id = id, !.value = v])

ChangePin(p, id, v, n) ==
  /\ Wrapped(p)
  /\ id \in Changes(ap[p])
  /\ MayPresent(p, id)
  /\ Begin(p, [NoCall EXCEPT !.op = "change", !.at = "select", !.id = id,
                             !.value = v, !.new = n])

\* Mutant: the query names whatever EF was selected last
RetriesUnselected(p, id) ==
  /\ Wrapped(p)
  /\ id \in Keys(ap[p])
  /\ Begin(p, [NoCall EXCEPT !.op = "retries", !.at = "query", !.id = id])

Retries(p, id) ==
  /\ Wrapped(p)
  /\ id \in Keys(ap[p])
  /\ Begin(p, [NoCall EXCEPT !.op = "retries", !.at = "select", !.id = id])

ReadEf(p, id) ==
  /\ Wrapped(p)
  /\ id \in Files(ap[p])
  /\ Begin(p, [NoCall EXCEPT !.op = "read", !.at = "select", !.id = id])

\* A method of one command that names its key or object: sign, data_object
CallNamed(p, id) ==
  /\ Wrapped(p)
  /\ id \in Named(ap[p])
  /\ Begin(p, [NoCall EXCEPT !.op = "named", !.at = "named", !.id = id])
-----------------------------------------------------------------------------
(* Wrappers: a method that takes the card needs the previous wrapper gone *)

\* p sent a SELECT and cannot tell what became of it
Unsure(p) ==
  /\ sure' = [sure EXCEPT ![p] = FALSE]
  /\ UNCHANGED <<mode, ap, fresh, call>>

SelectFails(p) == Unwrapped(p) /\ CardMisses /\ Unsure(p)

SelectLost(p, d) == Unwrapped(p) /\ CardSelect(d) /\ Unsure(p)

\* Mutant: MasterFile::select by the ISO form 00 A4 00 00, which answers 9000 and
\* leaves the DF where it was
SelectIsoMf(p, d) ==
  /\ Unwrapped(p)
  /\ IF d = MF THEN awake /\ UNCHANGED card /\ UNCHANGED mine ELSE CardSelect(d)
  /\ ap' = [ap EXCEPT ![p] = d]
  /\ sure' = [sure EXCEPT ![p] = TRUE]
  /\ fresh' = [fresh EXCEPT ![p] = @ \/ d = MF]
  /\ UNCHANGED <<mode, call>>

\* Mutant: the wrapper takes its application for selected, as MasterFile::new does
SelectNothing(p, d) ==
  /\ Unwrapped(p)
  /\ ap' = [ap EXCEPT ![p] = d]
  /\ sure' = [sure EXCEPT ![p] = TRUE]
  /\ fresh' = [fresh EXCEPT ![p] = @ \/ d = MF]
  /\ UNCHANGED <<card, mode, call, mine>>

\* CommonAp::select ... JpkiAp::select, and MasterFile::select
Select(p, d) ==
  /\ Unwrapped(p)
  /\ CardSelect(d)
  /\ ap' = [ap EXCEPT ![p] = d]
  /\ sure' = [sure EXCEPT ![p] = TRUE]
  /\ fresh' = [fresh EXCEPT ![p] = @ \/ d = MF]
  /\ UNCHANGED <<mode, call>>

\* MasterFile::new wraps the card and sends nothing
NewMasterFile(p) ==
  /\ Unwrapped(p)
  /\ ap' = [ap EXCEPT ![p] = MF]
  /\ UNCHANGED <<card, mode, sure, fresh, call, mine>>

\* Dropping a wrapper sends nothing: its DF stays current
DropWrapper(p) ==
  /\ Wrapped(p)
  /\ ap' = [ap EXCEPT ![p] = None]
  /\ sure' = [sure EXCEPT ![p] = @ /\ ap[p] = MF]
  /\ call' = [call EXCEPT ![p] = NoCall]
  /\ UNCHANGED <<card, mode, fresh, mine>>

\* The escape hatch: the wrapper stays while its card() selects DF d.  Whether the
\* reply comes back makes no difference: a program that selects the DF of its
\* wrapper again is held to know it, one that selects another is not.
SelectBehindWrapper(p, d) ==
  /\ Wrapped(p)
  /\ CardSelect(d)
  /\ sure' = [sure EXCEPT ![p] = d = ap[p]]
  /\ call' = [call EXCEPT ![p] = NoCall]
  /\ UNCHANGED <<mode, ap, fresh>>

\* The SELECT never reaches the card; the program loses nothing it knew, which
\* is more than it can claim and gives the properties more to hold for
SelectBehindFails(p) ==
  /\ Wrapped(p)
  /\ CardMisses
  /\ call' = [call EXCEPT ![p] = NoCall]
  /\ UNCHANGED prog

\* PcscTransport::power_cycle: reconnect in the same sharing mode with
\* UnpowerCard, then one throwaway SELECT whose result is ignored
PowerCycle(p) ==
  /\ Unwrapped(p)
  /\ CardPowerUp
  /\ sure' = [sure EXCEPT ![p] = FALSE]
  /\ fresh' = [fresh EXCEPT ![p] = TRUE]
  /\ call' = [call EXCEPT ![p] = [NoCall EXCEPT !.op = "power", !.at = "throwaway"]]
  /\ UNCHANGED <<mode, ap>>

\* The reconnect fails, with the card powered down and up or not: no throwaway command
PowerCycleFails(p) ==
  /\ Unwrapped(p)
  /\ CardPowerUp \/ UNCHANGED <<card, mine>>
  /\ Unsure(p)

Throwaway(p) ==
  /\ At(p, "throwaway")
  /\ CardMisses
  /\ sure' = [sure EXCEPT ![p] = TRUE]
  /\ ReturnOk(p)
  /\ UNCHANGED <<mode, ap, fresh>>
-----------------------------------------------------------------------------
(* The commands of a wrapper method *)

\* Transmission fails before the card, or the card answers 6F00
CommandFails(p) ==
  /\ call[p].at \notin {"idle", "throwaway"}
  /\ CardMisses
  /\ ReturnError(p)
  /\ UNCHANGED prog

\* Mutant: change_pin replaces without presenting the current value
AfterSelectUnverified(op) ==
  CASE op = "verify"  -> "verify"
    [] op = "change"  -> "change"
    [] op = "retries" -> "query"
    [] OTHER          -> "chunk"

\* What follows SELECT in each method
AfterSelect(op) ==
  CASE op \in {"verify", "change"} -> "verify"
    [] op = "retries"              -> "query"
    [] OTHER                       -> "chunk"

SelectEf(p) ==
  /\ At(p, "select")
  /\ CardReads
  /\ call[p].id \in Efs(df)
  /\ ef' = call[p].id
  /\ Goto(p, AfterSelect(call[p].op)) \/ ReturnError(p)
  /\ UNCHANGED prog

\* 6A82: the identifier does not exist under the current DF
SelectEfRefused(p) ==
  /\ At(p, "select")
  /\ CardReads
  /\ call[p].id \notin Efs(df)
  /\ ReturnError(p)
  /\ UNCHANGED <<ef, prog>>

Key == <<df, ef>>

\* VERIFY of the right value: the counter is restored, the key's status is set
VerifyAccepted(p) ==
  /\ At(p, "verify")
  /\ awake
  /\ Key \in KeyRef
  /\ tries[Key] > 0
  /\ call[p].value = secret[Key]
  /\ tries' = [tries EXCEPT ![Key] = MaxTries]
  /\ status' = status \cup {ef}
  /\ mine' = [mine EXCEPT ![p] = @ \cup {ef}]
  /\ \/ call[p].op = "verify" /\ ReturnOk(p)
     \/ call[p].op = "change" /\ Goto(p, "change")
     \/ ReturnError(p)
  /\ UNCHANGED <<df, ef, secret, awake, prog>>

\* Mutant: the counter of a blocked key goes on counting
VerifyRejectedUnbounded(p) ==
  /\ At(p, "verify")
  /\ awake
  /\ Key \in KeyRef
  /\ call[p].value # secret[Key]
  /\ tries' = [tries EXCEPT ![Key] = @ - 1]
  /\ ReturnError(p)
  /\ UNCHANGED <<df, ef, status, secret, awake, prog, mine>>

\* VERIFY of another value costs an attempt (63Cx, from 63C0 on the key is
\* blocked); whether the card then also ends the key's status is left open
VerifyRejected(p) ==
  /\ At(p, "verify")
  /\ awake
  /\ Key \in KeyRef
  /\ tries[Key] > 0
  /\ call[p].value # secret[Key]
  /\ tries' = [tries EXCEPT ![Key] = @ - 1]
  /\ status' \in {status, status \ {ef}}
  /\ mine' = [q \in Proc |-> mine[q] \cap status']
  /\ \/ Return(p, [call[p] EXCEPT !.res = IF tries[Key] = 1 THEN "blocked" ELSE "incorrect",
                                  !.left = tries[Key] - 1])
     \/ ReturnError(p)
  /\ UNCHANGED <<df, ef, secret, awake, prog>>

\* 6984: a blocked key reference compares nothing
VerifyBlocked(p) ==
  /\ At(p, "verify")
  /\ CardReads
  /\ Key \in KeyRef
  /\ tries[Key] = 0
  /\ Return(p, [call[p] EXCEPT !.res = "blocked"]) \/ ReturnError(p)
  /\ UNCHANGED <<ef, prog>>

\* The current EF is not a key reference
NotAKey(p) ==
  /\ call[p].at \in {"verify", "change", "query"}
  /\ CardReads
  /\ Key \notin KeyRef
  /\ ReturnError(p)
  /\ UNCHANGED <<ef, prog>>

\* Mutant: the query carries an (empty) value, which the card compares
QuerySpends(p) ==
  /\ At(p, "query")
  /\ awake
  /\ Key \in KeyRef
  /\ tries[Key] > 0
  /\ tries' = [tries EXCEPT ![Key] = @ - 1]
  /\ Return(p, [call[p] EXCEPT !.res = "remaining", !.left = tries[Key]])
  /\ UNCHANGED <<df, ef, status, secret, awake, mine, prog>>

\* The empty VERIFY: 63Cx, or 6984 and 63C0 when blocked.  Some cards answer
\* 9000 for a key whose status is set.  6300, no limit, is no answer for these keys:
\* each has a counter.
QueryTries(p) ==
  /\ At(p, "query")
  /\ CardReads
  /\ Key \in KeyRef
  /\ \/ Return(p, [call[p] EXCEPT !.res = IF tries[Key] = 0 THEN "blocked" ELSE "remaining",
                                  !.left = tries[Key]])
     \/ tries[Key] > 0 /\ ef \in status /\ Return(p, [call[p] EXCEPT !.res = "unreported"])
     \/ ReturnError(p)
  /\ UNCHANGED <<ef, prog>>

\* CHANGE REFERENCE DATA or CHANGE KEY: the card asks for the key's status only
Replace(p) ==
  /\ At(p, "change")
  /\ awake
  /\ Key \in KeyRef
  /\ ef \in Changes(df) \cap status
  /\ secret' = [secret EXCEPT ![Key] = call[p].new]
  /\ ReturnOk(p) \/ ReturnError(p)
  /\ UNCHANGED <<df, ef, status, tries, awake, mine, prog>>

\* 6982, or a refused format: nothing is replaced
ReplaceRefused(p) ==
  /\ At(p, "change")
  /\ CardReads
  /\ Key \in KeyRef
  /\ ReturnError(p)
  /\ UNCHANGED <<ef, prog>>

\* One READ BINARY or READ RECORD of the current EF; a longer file takes more
ReadChunk(p) ==
  /\ At(p, "chunk")
  /\ CardReads
  /\ ef \in Files(df)
  /\ Open(ef)
  /\ LET c == [call[p] EXCEPT !.got = @ \cup {Key}] IN
     \/ call' = [call EXCEPT ![p] = c]
     \/ Return(p, [c EXCEPT !.res = "ok"])
     \/ ReturnError(p)
  /\ UNCHANGED <<ef, prog>>

\* 6982 without the status the file asks for; a key reference is not readable
ReadChunkRefused(p) ==
  /\ At(p, "chunk")
  /\ CardReads
  /\ ef \notin Files(df) \/ ~Open(ef)
  /\ ReturnError(p)
  /\ UNCHANGED <<ef, prog>>

\* A command that carries the name of its key or object acts under the current DF
UseNamed(p) ==
  /\ At(p, "named")
  /\ CardReads
  /\ call[p].id \in Named(df)
  /\ Open(call[p].id)
  /\ ef' = IF call[p].id \in ShortEf(df) THEN call[p].id ELSE ef
  /\ \/ Return(p, [call[p] EXCEPT !.res = "ok", !.got = {<<df, call[p].id>>}])
     \/ ReturnError(p)
  /\ UNCHANGED prog

UseNamedRefused(p) ==
  /\ At(p, "named")
  /\ CardReads
  /\ call[p].id \notin Named(df) \/ ~Open(call[p].id)
  /\ ReturnError(p)
  /\ UNCHANGED <<ef, prog>>
-----------------------------------------------------------------------------
Connection(p) == Disconnect(p) \/ \E m \in Sharings : Connect(p, m)

Wrapping(p) ==
  \/ SelectFails(p) \/ SelectBehindFails(p) \/ NewMasterFile(p) \/ DropWrapper(p)
  \/ PowerCycle(p) \/ PowerCycleFails(p) \/ Throwaway(p)
  \/ \E d \in DF : Select(p, d) \/ SelectLost(p, d) \/ SelectBehindWrapper(p, d)

Method(p) ==
  \/ \E id \in Id : Retries(p, id) \/ ReadEf(p, id) \/ CallNamed(p, id)
  \/ \E id \in Id, v \in Value : VerifyKey(p, id, v)
  \/ \E id \in Id, v, n \in Value : ChangePin(p, id, v, n)

Command(p) ==
  \/ CommandFails(p)
  \/ SelectEf(p) \/ SelectEfRefused(p)
  \/ VerifyAccepted(p) \/ VerifyRejected(p) \/ VerifyBlocked(p) \/ NotAKey(p)
  \/ QueryTries(p) \/ Replace(p) \/ ReplaceRefused(p)
  \/ ReadChunk(p) \/ ReadChunkRefused(p)
  \/ UseNamed(p) \/ UseNamedRefused(p)

Next == \E p \in Proc : Connection(p) \/ Wrapping(p) \/ Method(p) \/ Command(p)

Spec == Init /\ [][Next]_vars
-----------------------------------------------------------------------------
(* Correctness.  Trusted(p): p holds the card alone and has not lost track of *)
(* the current DF, by a failed SELECT or by selecting behind its wrapper.     *)

Trusted(p) == mode[p] = "exclusive" /\ sure[p]

Target(p) == <<ap[p], call[p].id>>

\* What follows a method's SELECT acts on the file or key reference the method
\* was asked for: no value is compared with another key, no other counter is
\* reported and no other file is read.  The wrapper's later commands carry P2=80,
\* "the current EF", so this rests on nothing moving the card's selection.
OwnKeyOnly ==
  \A p \in Proc :
    Trusted(p) /\ call[p].at \in {"verify", "change", "query", "chunk"} => Key = Target(p)

\* A method that returned data returned data of its own target alone, however
\* many commands it took to collect them.
DataOfTarget ==
  \A p \in Proc : Trusted(p) /\ ap[p] # None => call[p].got \subseteq {Target(p)}

\* The attempts reported by the last query are still those of the key when the
\* program acts on the report: between Card::pin_retries and Card::verify nothing
\* has spent one.
ReportStillHolds ==
  \A p \in Proc :
    Trusted(p) /\ call[p].op = "retries" /\ call[p].res \in {"remaining", "blocked"} =>
      tries[Target(p)] = call[p].left

\* A program that cleared the card since it connected, by MasterFile::select or
\* by power_cycle, finds no security status but what its own VERIFYs earned
\* (src/lib.rs, "a fresh process is not necessarily a fresh card").
NoInheritedStatus ==
  \A p \in Proc : mode[p] = "exclusive" /\ fresh[p] => status \subseteq mine[p]

\* An attempt is spent only on a wrong value for the key the method names, and
\* only by the method that names it.
AttemptsOnlyOnWrongValue ==
  [][\A p \in Proc, r \in KeyRef :
       Trusted(p) /\ tries'[r] < tries[r] =>
         At(p, "verify") /\ Target(p) = r /\ call[p].value # secret[r]]_vars

\* The value of a key reference is replaced only by a change_pin of that very
\* key whose own VERIFY presented the value it replaces.
ChangeOnlyByHolder ==
  [][\A p \in Proc, r \in KeyRef :
       Trusted(p) /\ secret'[r] # secret[r] =>
         /\ At(p, "change")
         /\ Target(p) = r
         /\ call[p].value = secret[r]
         /\ call[p].new = secret'[r]]_vars

\* A program that asks for the attempts left before it presents a value, and
\* keeps the last one, never blocks a key, whatever values it presents and
\* whatever other programs did before it connected.
CarefulNeverBlocks ==
  [][\A p \in Careful, r \in KeyRef :
       Trusted(p) /\ tries[r] > 0 => tries'[r] > 0]_vars

(* What the documentation promises under any sharing *)

\* src/transport/pcsc.rs: programs that share the card to read it "can each ask
\* the card what it is without getting in each other's way".  A program that
\* knows its wrapper's DF gets data of the file it read.
ReadsDoNotMix ==
  \A p \in Proc :
    mode[p] # None /\ sure[p] /\ ap[p] # None => call[p].got \subseteq {Target(p)}
=============================================================================
