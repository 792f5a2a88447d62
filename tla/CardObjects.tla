---------------------------- MODULE CardObjects ----------------------------
(***************************************************************************)
(* What lies beside the application files: the data objects that GET DATA  *)
(* reads, and the record files of JICSAP under the master file.  Models    *)
(* MasterFile (src/mf.rs) with get_data, contact_atr, read_record and      *)
(* read_records_from (src/card.rs).  Every command is one exchange (module *)
(* Exchange): the card's whole answer, or an error.                        *)
(*                                                                         *)
(* A record holds one simple TLV object, or nothing.  Its value is a       *)
(* sequence of bytes.  The tag "FF" stands for erased bytes, "cut" for an  *)
(* object whose length reaches past what was read.  MaxRecord stands for   *)
(* 255, the last record number.                                            *)
(***************************************************************************)
EXTENDS Integers, SequencesExt, FiniteSetsExt

CONSTANTS
  Card,          \* cards: the calls considered on each, the objects, files and ATR
                 \* it holds, whether READ RECORDS is provided in its multiple form
  MaxRecord      \* u8::MAX

ASSUME RecordAssumption == MaxRecord \in Nat /\ MaxRecord >= 2

\* Files whose objects GET DATA finds: the card manager (Issuer Security Domain)
\* and an application
Df == {"isd", "app"}

\* An object refuses a short Le (6700) when it is large, and any Le when it is huge
Sizes == {"absent", "small", "large", "huge"}

VARIABLES
  card,      \* the card
  df,        \* card: the current DF
  opened,    \* how the MasterFile was obtained: "select" or "new"
  op,        \* the call
  at,        \* where it is
  nth,       \* the object or record it is at
  out,       \* what it has read; in the end, what it returns
  res        \* "none", "ok", "malformed", "status", "error"

ovars == <<card, df, opened, op, at, nth, out, res>>

Ops == {"chain", "atr", "identifier", "folders", "manufacturer"}
ASSUME CardAssumption == \A c \in Card : c.ops \subseteq Ops

\* A byte is the set of its bits
Byte == SUBSET (1..8)

Xor(a, b) == (a \cup b) \ (a \cap b)

XorOf(bytes) ==
  LET upTo[i \in 0..Len(bytes)] == IF i = 0 THEN {} ELSE Xor(upTo[i - 1], bytes[i])
  IN  upTo[Len(bytes)]

\* What GET DATA finds of an ATR: nothing, or the ATR with one byte damaged at most
LeftOf(atr) ==
  {<<>>} \cup {[atr EXCEPT ![i] = b] : i \in 1..Len(atr), b \in Byte}

\* An ATR is issued with its checksum, so over the whole of it every bit cancels out
ASSUME AtrAssumption ==
  \A c \in Card : "atr" \in c.ops =>
    /\ c.atr \in Seq(Byte) /\ XorOf(c.atr) = {}
    /\ \A d \in Df : c.objects[d]["5F51"].content \in LeftOf(c.atr)

\* An object in a record: its tag, one of those told apart, and its value
RecordObject ==
  [tag   : {"00", "01", "02", "07", "45", "46", "FE", "FF", "cut"},
   value : Seq(0..255)]

\* A file has no more records than there are numbers for them.
ASSUME FilesAssumption ==
  \A c \in Card : \A d \in Df : \A f \in DOMAIN c.files[d] :
    c.files[d][f] \in Seq(Seq(RecordObject)) /\ Len(c.files[d][f]) <= MaxRecord

\* The tags certificate_chain asks for: CHAIN_UPPER, CHAIN_LOWER
ChainTag == <<"F8", "7F21">>

\* Types; the loops stay within the tags and the record numbers
ObjectsTypeOK ==
  /\ df \in Df
  /\ opened \in {"select", "new"}
  /\ op \in Ops \cup {"none"}
  /\ at \in {"idle", "open", "short", "long", "file", "multi", "single", "done"}
  /\ nth \in 1..MaxRecord + 1
  /\ at \in {"short", "long"} => nth \in 1..2
  /\ res \in {"none", "ok", "malformed", "status", "error"}
  /\ (res = "none") = (at # "done")

ObjectsInit ==
  /\ card \in Card
  /\ df \in Df
  /\ opened \in {"select", "new"}
  /\ op = "none"
  /\ at = "idle"
  /\ nth = 1
  /\ out = <<>>
  /\ res = "none"

Return(r, value) == at' = "done" /\ res' = r /\ out' = value

GoTo(point) == at' = point /\ UNCHANGED res
-----------------------------------------------------------------------------
(* Calls *)

\* MasterFile::select sends a SELECT first, MasterFile::new sends nothing;
\* contact_atr is a method of the card, whatever is current
Call ==
  /\ at = "idle"
  /\ op' \in card.ops
  /\ GoTo(CASE op' = "atr"                          -> "short"
            [] op' # "atr" /\ opened = "select"     -> "open"
            [] op' = "chain" /\ opened = "new"      -> "short"
            [] op' \notin {"atr", "chain"} /\ opened = "new" -> "file")
  /\ UNCHANGED <<card, df, opened, nth, out>>

\* MasterFile::select
Open ==
  /\ at = "open"
  /\ df' = "isd"
  /\ GoTo(IF op = "chain" THEN "short" ELSE "file")
  /\ UNCHANGED <<card, opened, op, nth, out>>
-----------------------------------------------------------------------------
(* GET DATA *)

Object == card.objects[df][IF op = "atr" THEN "5F51" ELSE ChainTag[nth]]

\* CardVerifiableCertificate::parse: the last body (5F4E), which must be of the fixed
\* length, split into two identifiers and a key; and the last signature (5F37)
ParseCertificate(raw) ==
  LET bodies     == SelectSeq(raw, LAMBDA o : o.tag = "5F4E")
      signatures == SelectSeq(raw, LAMBDA o : o.tag = "5F37")
  IN  IF bodies = <<>> \/ signatures = <<>> \/ ~Last(bodies).fits
        THEN {}
        ELSE {[issuer |-> Last(bodies).issuer, subject |-> Last(bodies).subject,
               key |-> Last(bodies).key, signer |-> Last(signatures).signer]}

\* Mutant: an object that is no certificate ends the chain
TakeCertificateOrEnd(raw) ==
  \/ /\ ParseCertificate(raw) = {}
     /\ Return("ok", out)
     /\ UNCHANGED nth
  \/ \E cert \in ParseCertificate(raw) :
       IF nth < 2 THEN GoTo("short") /\ nth' = nth + 1 /\ out' = Append(out, cert)
                  ELSE Return("ok", Append(out, cert)) /\ UNCHANGED nth

\* certificate_chain takes an object in and goes on to the next tag
TakeCertificate(raw) ==
  \/ /\ ParseCertificate(raw) = {}
     /\ Return("malformed", <<>>)
     /\ UNCHANGED nth
  \/ \E cert \in ParseCertificate(raw) :
       IF nth < 2 THEN GoTo("short") /\ nth' = nth + 1 /\ out' = Append(out, cert)
                  ELSE Return("ok", Append(out, cert)) /\ UNCHANGED nth

TS == {1}

\* Mutant: T0, the first byte stored, is left out of the checksum as TS is
ChecksumWithoutFirst(body) == IF body = <<>> THEN {} ELSE XorOf(Tail(body))

Checksum(body) == XorOf(body)

\* contact_atr checks TCK, the last byte, and puts TS in front
TakeAtr(stored) ==
  /\ IF stored # <<>> /\ Last(stored) = Checksum(Front(stored))
       THEN Return("ok", <<TS>> \o stored)
       ELSE Return("malformed", <<>>)
  /\ UNCHANGED nth

Take(content) == IF op = "atr" THEN TakeAtr(content) ELSE TakeCertificate(content)

\* 6A88 or 6A82: the end of the chain, for contact_atr an error
NoObject ==
  /\ IF op = "chain" THEN Return("ok", out) ELSE Return("status", <<>>)
  /\ UNCHANGED nth

\* get_data: the short Le of 256
GetShort ==
  /\ at = "short"
  /\ \/ Object.size = "absent" /\ NoObject
     \/ Object.size = "small" /\ Take(Object.content)
     \/ Object.size \in {"large", "huge"} /\ GoTo("long") /\ UNCHANGED <<nth, out>>
  /\ UNCHANGED <<card, df, opened, op>>

\* Mutant: 6700 to the extended Le is answered with the same command again
GetLongAgain ==
  /\ at = "long"
  /\ \/ Object.size = "large" /\ Take(Object.content)
     \/ Object.size = "huge" /\ GoTo("short") /\ UNCHANGED <<nth, out>>
  /\ UNCHANGED <<card, df, opened, op>>

\* Mutant: any status ends the chain
GetLongOrEnd ==
  /\ at = "long"
  /\ \/ Object.size = "large" /\ Take(Object.content)
     \/ Object.size = "huge" /\ NoObject
  /\ UNCHANGED <<card, df, opened, op>>

\* ... and once more with the extended one of 65536
GetLong ==
  /\ at = "long"
  /\ \/ Object.size = "large" /\ Take(Object.content)
     \/ Object.size = "huge" /\ Return("status", <<>>) /\ UNCHANGED nth
  /\ UNCHANGED <<card, df, opened, op>>
-----------------------------------------------------------------------------
(* READ RECORD(S) *)

File == card.files[df][op]

\* select_ef: 6A82 where there is no such file
SelectFile ==
  /\ at = "file"
  /\ IF op \in DOMAIN card.files[df] THEN GoTo("multi") /\ UNCHANGED out ELSE Return("status", <<>>)
  /\ UNCHANGED <<card, df, opened, op, nth>>

\* Objects the iterator of tlv::simple yields: up to erased bytes or to a cut object
Items(records) ==
  LET stops == {i \in 1..Len(records) : records[i].tag \in {"FF", "cut"}}
  IN  IF stops = {} THEN records ELSE SubSeq(records, 1, Min(stops) - 1)

\* ... which then is an error
EndsBroken(records) ==
  LET n == Len(Items(records)) IN n < Len(records) /\ records[n + 1].tag = "cut"

Missing == <<-1>>

Tagged(items, tag) == {i \in 1..Len(items) : items[i].tag = tag}

\* simple::find: the first object of a tag, or the error met on the way to it
Find(records, tag) ==
  LET hits == Tagged(Items(records), tag)
  IN  IF hits = {} THEN Missing ELSE Items(records)[Min(hits)].value

Lost(records, tag) == Find(records, tag) = Missing /\ EndsBroken(records)

\* CardIdentifier::parse
ParseIdentifier(records) ==
  IF \/ \E t \in {"00", "01", "02"} : Lost(records, t)
     \/ Find(records, "00") = Missing
     \/ Len(Find(records, "00")) # 3
    THEN Return("malformed", <<>>)
    ELSE Return("ok",
           [manufacturer |-> Find(records, "00"),
            functions    |-> IF Find(records, "01") \in {Missing, <<>>}
                               THEN Missing ELSE <<Head(Find(records, "01"))>>,
            proprietary  |-> Find(records, "02")])

\* One object of an application folder list
AddFolder(folders, r) ==
  CASE r.tag = "01"         -> [folders EXCEPT !.own = r.value]
    [] r.tag = "02"         -> [folders EXCEPT !.children = Append(@, r.value)]
    [] r.tag \notin {"01", "02"} -> folders

FoldersIn(items) ==
  LET upTo[i \in 0..Len(items)] == IF i = 0 THEN [own |-> <<>>, children |-> <<>>]
                                    ELSE AddFolder(upTo[i - 1], items[i])
  IN  upTo[Len(items)]

\* ApplicationFolders::parse: "FE" and "00" mark free records, any other tag is an error
ParseFolders(records) ==
  IF EndsBroken(records)
     \/ \E i \in 1..Len(Items(records)) : Items(records)[i].tag \notin {"01", "02", "FE", "00"}
    THEN Return("malformed", <<>>)
    ELSE Return("ok", FoldersIn(Items(records)))

\* IcManufacturerId::parse
ParseManufacturer(records) ==
  IF \/ \E t \in {"45", "46"} : Lost(records, t) \/ Find(records, t) = Missing
     \/ Len(Find(records, "45")) # 5 \/ Len(Find(records, "46")) # 3
    THEN Return("malformed", <<>>)
    ELSE Return("ok", [embedder |-> Find(records, "45"), ic |-> Find(records, "46")])

ParseFile(records) ==
  CASE op = "identifier"   -> ParseIdentifier(records)
    [] op = "folders"      -> ParseFolders(records)
    [] op = "manufacturer" -> ParseManufacturer(records)

\* read_all_records: all from the first on, or 6A81 where a card only reads one
ReadMulti ==
  /\ at = "multi"
  /\ \/ card.multi /\ ParseFile(FlattenSeq(File)) /\ UNCHANGED nth
     \/ ~card.multi /\ GoTo("single") /\ nth' = 1 /\ UNCHANGED out
  /\ UNCHANGED <<card, df, opened, op>>

\* Mutant: the last record number is left out
ReadSingleShort ==
  /\ at = "single"
  /\ IF nth < MaxRecord /\ nth <= Len(File) /\ File[nth] # <<>>
       THEN out' = out \o File[nth] /\ nth' = nth + 1 /\ UNCHANGED <<at, res>>
       ELSE ParseFile(out) /\ UNCHANGED nth
  /\ UNCHANGED <<card, df, opened, op>>

\* read_records_one_by_one: until 6A83, an empty record or the last record number
ReadSingle ==
  /\ at = "single"
  /\ IF nth <= MaxRecord /\ nth <= Len(File) /\ File[nth] # <<>>
       THEN out' = out \o File[nth] /\ nth' = nth + 1 /\ UNCHANGED <<at, res>>
       ELSE ParseFile(out) /\ UNCHANGED nth
  /\ UNCHANGED <<card, df, opened, op>>
-----------------------------------------------------------------------------
\* Any exchange may fail, or be answered with a status no branch is for
ExchangeFails ==
  /\ at \notin {"idle", "done"}
  /\ Return("error", <<>>)
  /\ UNCHANGED <<card, df, opened, op, nth>>

Step == Open \/ GetShort \/ GetLong \/ SelectFile \/ ReadMulti \/ ReadSingle

ObjectsNext == Call \/ Step \/ ExchangeFails

ObjectsSpec == ObjectsInit /\ [][ObjectsNext]_ovars
-----------------------------------------------------------------------------
(* Correctness *)

\* The tags under which the card manager holds certificates, up to the first that has none
Held ==
  LET objects == card.objects["isd"]
  IN  IF objects["F8"].size = "absent"        THEN <<>>
      ELSE IF objects["7F21"].size = "absent" THEN <<"F8">>
      ELSE ChainTag

\* MasterFile::select makes the card manager current; MasterFile::new may find it so,
\* as after a power cycle
AtManager == opened = "select" \/ df = "isd"

\* A chain read from a master file that was selected, or is current, is the chain the
\* card holds, root first and to the last certificate: nothing that goes wrong on the
\* way passes for its end, and no application is read in place of a selected one.
ChainIsComplete ==
  op = "chain" /\ AtManager /\ res = "ok" =>
    /\ Len(out) = Len(Held)
    /\ \A i \in 1..Len(out) :
         {out[i]} = ParseCertificate(card.objects["isd"][Held[i]].content)

\* Records a call is to go by: all of them, or all up to an empty one on a card that
\* reads one at a time
Whole(file) ==
  LET empty == {i \in 1..Len(file) : file[i] = <<>>}
  IN  IF card.multi \/ empty = {} THEN file ELSE SubSeq(file, 1, Min(empty) - 1)

\* value is that of the first object of a tag, or of the last
IsFirst(items, tag, value) ==
  \E i \in Tagged(items, tag) : items[i].value = value /\ \A j \in Tagged(items, tag) : i <= j

IsLast(items, tag, value) ==
  \E i \in Tagged(items, tag) : items[i].value = value /\ \A j \in Tagged(items, tag) : j <= i

\* How many of the first n objects have a tag
CountUpTo(items, tag, n) == Cardinality({i \in 1..n : items[i].tag = tag})

\* values are those of the objects of a tag, in their order
AreValues(items, tag, values) ==
  /\ Len(values) = CountUpTo(items, tag, Len(items))
  /\ \A i \in Tagged(items, tag) : values[CountUpTo(items, tag, i)] = items[i].value

\* What a call tells of a file is what the file says
Told(call, told, items) ==
  CASE call = "identifier"   -> /\ IsFirst(items, "00", told.manufacturer)
                                /\ IF Tagged(items, "02") = {} THEN told.proprietary = Missing
                                   ELSE IsFirst(items, "02", told.proprietary)
    [] call = "folders"      -> /\ AreValues(items, "02", told.children)
                                /\ IF Tagged(items, "01") = {} THEN told.own = <<>>
                                   ELSE IsLast(items, "01", told.own)
    [] call = "manufacturer" -> /\ IsFirst(items, "45", told.embedder)
                                /\ IsFirst(items, "46", told.ic)

\* A file read from such a master file is told as it was written, whichever form
\* of READ RECORD the card knows and up to the last record there may be: the folders
\* are those of its records that name one, in their order; an identifier is the
\* first record of its tag.
FilesAreToldAsWritten ==
  op \in {"identifier", "folders", "manufacturer"} /\ AtManager /\ res = "ok" =>
    Told(op, out, Items(FlattenSeq(Whole(card.files["isd"][op]))))

\* An ATR is handed on only as the card was issued with it: one damaged byte,
\* the checksum itself included, never goes unnoticed.
AtrIsUndamaged ==
  op = "atr" /\ res = "ok" => out = <<TS>> \o card.atr

\* The way of a call, from its start to its return
Stage ==
  [idle |-> 0, open |-> 1, file |-> 2, multi |-> 3, short |-> 4, long |-> 4, single |-> 4,
   done |-> 5]

\* Every command brings a call further on its way, or to the next object or record, or
\* from the short Le to the extended one.  None is repeated, whatever the card refuses:
\* a call costs two commands an object or one a record, and four at most besides.
CallsProceed ==
  [][\/ Stage[at'] > Stage[at]
     \/ Stage[at'] = Stage[at] /\ nth' > nth
     \/ at = "short" /\ at' = "long" /\ nth' = nth]_ovars

\* Every call returns, whatever objects and records the card holds and whatever it
\* refuses.
CallsReturn == at # "idle" ~> at = "done"
=============================================================================
