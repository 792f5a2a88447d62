--------------------------- MODULE SignedRecords ---------------------------
(***************************************************************************)
(* The data files of the two surface applications and what vouches for     *)
(* them: TlvFields and check_offsets (src/data.rs), AgeRecord, CardFace    *)
(* and MyNumberImage (src/ap/surface.rs), Attributes, IntegrityRecord and  *)
(* SignedPublicKey (src/ap/text.rs).                                       *)
(*                                                                         *)
(* A file is a sequence of objects.  There are two editions of each,       *)
(* issued one after the other, and an object belongs to one of them: a     *)
(* field with that edition's value, a signature over that edition's        *)
(* fields, a table of that edition's offsets.  A file that is read may     *)
(* have lost objects, hold some twice, in another order, or from the other *)
(* edition.                                                                *)
(***************************************************************************)
EXTENDS Integers, SequencesExt, FiniteSetsExt

CONSTANTS
  Kinds,       \* kinds of files considered
  MaxEdits,    \* bound: how often a file is interfered with
  MaxFiller    \* bound: bytes of filler after the objects

Editions == {1, 2}

VARIABLES
  kind,        \* the kind of the file
  file,        \* its objects
  filler,      \* bytes of filler after them
  edits        \* how often it has been interfered with

rvars == <<kind, file, filler, edits>>

\* The objects of each kind in the order they are issued in: the table of offsets, the
\* fields, those its signature covers, the signature, and what is not signed
Layout ==
  [age        |-> [table |-> <<>>, fields |-> <<"DF11", "DF12">>,
                   signature |-> <<"DF13">>, after |-> <<>>],
   face       |-> [table |-> <<"DF21">>,
                   fields |-> <<"DF22", "DF23", "DF24", "DF25", "DF26", "DF27">>,
                   signature |-> <<"DF28">>, after |-> <<"DF29", "DF2A">>],
   image      |-> [table |-> <<>>, fields |-> <<"DF41", "DF42">>,
                   signature |-> <<"DF43">>, after |-> <<>>],
   integrity  |-> [table |-> <<>>, fields |-> <<"DF31", "DF32">>,
                   signature |-> <<"DF33">>, after |-> <<>>],
   publicKey  |-> [table |-> <<>>, fields |-> <<"DF51">>,
                   signature |-> <<"DF52">>, after |-> <<>>],
   attributes |-> [table |-> <<"DF21">>, fields |-> <<"DF22", "DF23", "DF24", "DF25">>,
                   signature |-> <<>>, after |-> <<>>]]

ASSUME KindsAssumption == Kinds \subseteq DOMAIN Layout

ASSUME EditsAssumption == MaxEdits \in Nat /\ MaxFiller \in Nat

\* Attributes carry none: a digest of them is in the integrity record.
SignatureOf(k) == Layout[k].signature

Tags(k) == Layout[k].table \o Layout[k].fields \o SignatureOf(k) \o Layout[k].after

\* A file as it is issued
Issued(k, e) == [i \in 1..Len(Tags(k)) |-> [tag |-> Tags(k)[i], edition |-> e]]

IsTable(k, o) == Layout[k].table = <<o.tag>>

\* Length of an object with its header: some differ from one edition to the other
Size(o) == IF o.tag \in {"DF22", "DF25", "DF41"} THEN 3 + o.edition ELSE 4

HeaderLen == 3

SizeOf(objects) ==
  LET upTo[i \in 0..Len(objects)] == IF i = 0 THEN 0 ELSE upTo[i - 1] + Size(objects[i])
  IN  upTo[Len(objects)]

\* Types
RecordsTypeOK ==
  /\ kind \in Kinds
  /\ file \in Seq([tag : Range(Tags(kind)), edition : Editions])
  /\ filler \in 0..MaxFiller
  /\ edits \in 0..MaxEdits

RecordsInit ==
  /\ kind \in Kinds
  /\ file = Issued(kind, 1)
  /\ filler \in 0..MaxFiller
  /\ edits = 0
-----------------------------------------------------------------------------
(* What may become of a file before it is read *)

Interfere(f) ==
  /\ edits < MaxEdits
  /\ edits' = edits + 1
  /\ file' = f
  /\ UNCHANGED <<kind, filler>>

Lose == \E i \in 1..Len(file) : Interfere(RemoveAt(file, i))

Replace == \E i \in 1..Len(file) : Interfere([file EXCEPT ![i].edition = 3 - @])

Repeat ==
  \E i \in 1..Len(file) + 1, t \in Range(Tags(kind)), e \in Editions :
    Interfere(InsertAt(file, i, [tag |-> t, edition |-> e]))

Swap ==
  \E i, j \in 1..Len(file) :
    i < j /\ Interfere([file EXCEPT ![i] = file[j], ![j] = file[i]])

RecordsNext == Lose \/ Replace \/ Repeat \/ Swap

RecordsSpec == RecordsInit /\ [][RecordsNext]_rvars
-----------------------------------------------------------------------------
(* TlvFields *)

\* Mutant: the header is what the value leaves of the file read
StartFromLength(k, f, raw) == raw - SizeOf(f)

\* Where the first object starts: TlvFields goes by the header of the file,
\* Attributes::parse by what the value leaves of what it is given
Start(k, f, raw) == IF k = "attributes" THEN raw - SizeOf(f) ELSE HeaderLen

\* Offsets of the objects of f that are no tables.  They grow from one object to the
\* next, so two files whose sets of offsets agree have the same list of them.
StartsFrom(k, f, start) ==
  {start + SizeOf(SubSeq(f, 1, i - 1)) : i \in {j \in 1..Len(f) : ~IsTable(k, f[j])}}

\* check_offsets: the last table must name exactly the objects there are
OffsetsHold(k, f, raw) ==
  LET tables == {i \in 1..Len(f) : IsTable(k, f[i])} IN
  tables # {} =>
    StartsFrom(k, Issued(k, f[Max(tables)].edition), HeaderLen)
      = StartsFrom(k, f, Start(k, f, raw))

\* The objects of a tag that are no tables
Places(k, f, tag) == {i \in 1..Len(f) : ~IsTable(k, f[i]) /\ f[i].tag = tag}

\* get: the first of them
First(k, f, tag) == f[Min(Places(k, f, tag))]

\* Mutant: the last object of a tag is the one signed
LastOf(k, f, tag) == f[Max(Places(k, f, tag))]

\* The parse functions: every tag there, the offsets right
Parses(k, f, raw) ==
  /\ \A tag \in Range(Tags(k)) \ Range(Layout[k].table) : Places(k, f, tag) # {}
  /\ OffsetsHold(k, f, raw)

\* bytes_before: every object before the first of a tag, as written.  The files it is
\* used of have no table.
BytesBefore(k, f, tag) == SubSeq(f, 1, Min(Places(k, f, tag)) - 1)

\* Mutant: bytes_of takes the last object of each tag, where get takes the first
BytesOfLast(k, f, tags) == [i \in 1..Len(tags) |-> LastOf(k, f, tags[i])]

\* bytes_of: the named objects
BytesOf(k, f, tags) == [i \in 1..Len(tags) |-> First(k, f, tags[i])]

\* signed_data, and the three signed_segments of a card face
SignedData(k, f) ==
  IF k = "face"
    THEN <<BytesOf(k, f, <<"DF22", "DF23", "DF24">>), BytesOf(k, f, <<"DF25", "DF26">>),
           BytesOf(k, f, <<"DF27">>)>>
    ELSE BytesBefore(k, f, SignatureOf(k)[1])

\* verify: the signature of an edition is over the data of that edition
Verifies(k, f) ==
  SignedData(k, f) = SignedData(k, Issued(k, First(k, f, SignatureOf(k)[1]).edition))

\* Mutant: whatever comes first is skipped as the table
DigestSourceUnchecked(f) == IF f = <<>> THEN {} ELSE {Tail(f)}

\* Attributes::digest_source: what follows the table, which must come first
DigestSource(f) == IF f # <<>> /\ IsTable("attributes", f[1]) THEN {Tail(f)} ELSE {}

\* matches_attributes_file, with the digest of an edition
MatchesAttributes(f, e) ==
  DigestSource(f) # {} /\ DigestSource(f) = DigestSource(Issued("attributes", e))
-----------------------------------------------------------------------------
(* Correctness *)

\* Bytes the parse functions are given.  read_attributes cuts off the filler before.
Raw == HeaderLen + SizeOf(file) + (IF kind = "attributes" THEN 0 ELSE filler)

AllOf(e) == \A i \in 1..Len(Layout[kind].fields) :
              First(kind, file, Layout[kind].fields[i]).edition = e

\* A record that parses and whose signature verifies holds the values that were signed
\* together, all of one edition, wherever else in the file an object of the same tag
\* may be: the value handed out is the value the signature covers.
VerifiedIsIssued ==
  SignatureOf(kind) # <<>> /\ Parses(kind, file, Raw) =>
    (Verifies(kind, file) => AllOf(First(kind, file, SignatureOf(kind)[1]).edition))

\* Attributes that parse and match the digest of an edition are those of that edition.
MatchedIsIssued ==
  kind = "attributes" /\ Parses(kind, file, Raw) =>
    \A e \in Editions : MatchesAttributes(file, e) => AllOf(e)

\* A file as it was issued is accepted with any filler after it, its table of offsets
\* included, and its signature or digest bears it out.
IssuedIsAccepted ==
  edits = 0 =>
    /\ Parses(kind, file, Raw)
    /\ SignatureOf(kind) # <<>> => Verifies(kind, file)
    /\ kind = "attributes" => MatchesAttributes(file, 1)
=============================================================================
