----------------------------- MODULE ReadBinary -----------------------------
(***************************************************************************)
(* Card::read_binary, read_binary_all and read_binary_physical             *)
(* (src/card.rs): the selected transparent EF is read chunk by chunk, and  *)
(* the end is guessed from the BER-TLV header at the front of the file,    *)
(* from a short or empty chunk, or from a status word.  One READ BINARY    *)
(* is one exchange (module Exchange): a whole answer or an error.          *)
(*                                                                         *)
(* Bytes are numbered by their place in the file, 1 to size.  MaxChunk     *)
(* stands for 256 and MaxOffset for 0x7FFF, the largest offset that fits   *)
(* the 15 bits of P1-P2.                                                   *)
(***************************************************************************)
EXTENDS Integers, Sequences

CONSTANTS
  MaxChunk,    \* MAX_CHUNK
  MaxOffset,   \* MAX_OFFSET
  MaxSize,     \* bound: the longest file, object and read considered
  Ends         \* how cards mark the end of a file: "6B00", "empty" or "6282"

\* 0x8000 is a whole number of chunks, so whole chunks stop right at it
ASSUME ChunkAssumption == MaxChunk \in Nat \ {0}
ASSUME OffsetAssumption == MaxOffset \in Nat /\ (MaxOffset + 1) % MaxChunk = 0
ASSUME SizeAssumption == MaxSize \in Nat
ASSUME EndsAssumption == Ends \subseteq {"6B00", "empty", "6282"}

None == -1

Least(a, b) == IF a < b THEN a ELSE b

VARIABLES
  ends,    \* card: how it marks the end of a file
  size,    \* card: bytes the selected EF holds, filler included
  total,   \* length of the BER-TLV object its header announces, None without one
  op,      \* "all", "physical", or "exact" for read_binary(offset, length)
  from,    \* read_binary's offset
  want,    \* what the loop of read_binary goes for: offset + length
  at,      \* "head": the first read of read_binary_all; "exact", "rest": the loops
  out,     \* bytes collected
  reads,   \* READ BINARYs sent
  res      \* "none", "ok", "offset" (OffsetOutOfRange), "error"

vars == <<ends, size, total, op, from, want, at, out, reads, res>>

Ops == {"all", "physical", "exact"}

\* Types; read_binary never collects more than it was asked for
TypeOK ==
  /\ ends \in Ends
  /\ size \in 0..MaxSize
  /\ total \in {None} \cup 1..MaxSize
  /\ op \in Ops
  /\ from \in 0..MaxSize
  /\ want \in 0..2 * MaxSize
  /\ at \in {"head", "exact", "rest", "done"}
  /\ out \in Seq(1..size)
  /\ at = "exact" => Len(out) <= want - from
  /\ reads \in Nat
  /\ res \in {"none", "ok", "offset", "error"}

\* ber::parse_header of the first chunk: a header that parses belongs to a file
\* that is not empty
Init ==
  /\ ends \in Ends
  /\ size \in 0..MaxSize
  /\ total \in {None} \cup {n \in 1..MaxSize : size > 0}
  /\ op \in Ops
  /\ from \in 0..MaxSize /\ (op # "exact" => from = 0)
  /\ \E length \in 0..MaxSize : want = from + length /\ (op # "exact" => length = 0)
  /\ at = CASE op = "all" -> "head" [] op = "physical" -> "rest" [] op = "exact" -> "exact"
  /\ out = <<>>
  /\ reads = 0
  /\ res = "none"
-----------------------------------------------------------------------------
(* The card's answer to READ BINARY of up to le bytes at an offset *)

Bytes(offset, n) == [i \in 1..n |-> offset + i]

Chunk(offset, n) == [end |-> FALSE, data |-> Bytes(offset, n)]

\* 6B00, or 6282 in place of 9000 where less than le is left
EndOfFile == [end |-> TRUE, data |-> <<>>]

\* The bytes within le and the end of the file.  Past the end 6B00, or nothing.
\* The 6282 of a read that meets the end carries the bytes too, but into_data
\* hands on none of them.
Answer(offset, le) ==
  LET left == IF offset < size THEN size - offset ELSE 0 IN
  IF (ends = "6B00" /\ left = 0) \/ (ends = "6282" /\ left < le)
    THEN EndOfFile
    ELSE Chunk(offset, Least(left, le))
-----------------------------------------------------------------------------
Offset == from + Len(out)

Done(r) == at' = "done" /\ res' = r

Sent == reads' = reads + 1

\* Mutant: the last offset is taken for one too many
AddressableBelow(offset) == offset < MaxOffset

\* 15 bits of P1-P2
Addressable(offset) == offset <= MaxOffset

\* Mutant: the loop goes on after an offset that was refused
OutOfRangeLooping ==
  /\ at = "exact"
  /\ Len(out) < want - from
  /\ ~Addressable(Offset)
  /\ UNCHANGED vars

\* read_binary_chunk refuses any other offset before sending anything
OutOfRange ==
  /\ at = "exact"
  /\ Len(out) < want - from
  /\ ~Addressable(Offset)
  /\ Done("offset")
  /\ UNCHANGED <<ends, size, total, op, from, want, out, reads>>

\* The first chunk decides how read_binary_all goes on
ReadHead ==
  /\ at = "head"
  /\ LET a == Answer(0, MaxChunk) IN
       IF a.end \/ a.data = <<>>
         THEN Done("ok") /\ UNCHANGED <<out, want>>
         ELSE \/ /\ total # None /\ total <= Len(a.data)
                 /\ out' = SubSeq(a.data, 1, total)
                 /\ Done("ok")
                 /\ UNCHANGED want
              \/ /\ total > Len(a.data)
                 /\ out' = a.data
                 /\ want' = total
                 /\ at' = "exact"
                 /\ UNCHANGED res
              \/ /\ total = None
                 /\ out' = a.data
                 /\ at' = "rest"
                 /\ UNCHANGED <<want, res>>
  /\ Sent
  /\ UNCHANGED <<ends, size, total, op, from>>

Collect(a) == out' = out \o a.data

\* Mutant: an empty chunk does not end the loop
ReadExactOnEmpty ==
  /\ at = "exact"
  /\ Len(out) < want - from
  /\ Addressable(Offset)
  /\ LET a == Answer(Offset, Least(want - from - Len(out), MaxChunk)) IN
       IF a.end THEN Done("ok") /\ UNCHANGED out ELSE Collect(a) /\ UNCHANGED <<at, res>>
  /\ Sent
  /\ UNCHANGED <<ends, size, total, op, from, want>>

\* Mutant: each read asks for a whole chunk
ReadExactWhole ==
  /\ at = "exact"
  /\ Len(out) < want - from
  /\ Addressable(Offset)
  /\ LET a == Answer(Offset, MaxChunk) IN
       IF a.end \/ a.data = <<>>
         THEN Done("ok") /\ UNCHANGED out
         ELSE Collect(a) /\ UNCHANGED <<at, res>>
  /\ Sent
  /\ UNCHANGED <<ends, size, total, op, from, want>>

\* read_binary: the loop over what is still wanted, which the end of the file cuts short
ReadExact ==
  /\ at = "exact"
  /\ Len(out) < want - from
  /\ Addressable(Offset)
  /\ LET a == Answer(Offset, Least(want - from - Len(out), MaxChunk)) IN
       IF a.end \/ a.data = <<>>
         THEN Done("ok") /\ UNCHANGED out
         ELSE Collect(a) /\ UNCHANGED <<at, res>>
  /\ Sent
  /\ UNCHANGED <<ends, size, total, op, from, want>>

ExactDone ==
  /\ at = "exact"
  /\ Len(out) >= want - from
  /\ Done("ok")
  /\ UNCHANGED <<ends, size, total, op, from, want, out, reads>>

\* Mutant: the last chunk is dropped when it is short
ReadRestDroppingShort ==
  /\ at = "rest"
  /\ Len(out) <= MaxOffset
  /\ LET a == Answer(Len(out), MaxChunk) IN
       IF a.end \/ Len(a.data) < MaxChunk
         THEN Done("ok") /\ UNCHANGED out
         ELSE Collect(a) /\ UNCHANGED <<at, res>>
  /\ Sent
  /\ UNCHANGED <<ends, size, total, op, from, want>>

\* The loop that stops at a short chunk, an empty one or the end of the file
ReadRest ==
  /\ at = "rest"
  /\ Len(out) <= MaxOffset
  /\ LET a == Answer(Len(out), MaxChunk) IN
       \/ /\ a.end \/ a.data = <<>>
          /\ Done("ok")
          /\ UNCHANGED out
       \/ /\ ~a.end /\ Len(a.data) \in 1..MaxChunk - 1
          /\ Collect(a)
          /\ Done("ok")
       \/ /\ ~a.end /\ Len(a.data) = MaxChunk
          /\ Collect(a)
          /\ UNCHANGED <<at, res>>
  /\ Sent
  /\ UNCHANGED <<ends, size, total, op, from, want>>

\* ... or at the end of what P1-P2 can address
RestOutOfReach ==
  /\ at = "rest"
  /\ Len(out) > MaxOffset
  /\ Done("ok")
  /\ UNCHANGED <<ends, size, total, op, from, want, out, reads>>

\* Any other status, and any failure of the transport, is handed on by `?'
ReadFails ==
  /\ \/ at = "head"
     \/ at = "exact" /\ Len(out) < want - from /\ Addressable(Offset)
     \/ at = "rest" /\ Len(out) <= MaxOffset
  /\ Done("error")
  /\ out' = <<>>
  /\ Sent
  /\ UNCHANGED <<ends, size, total, op, from, want>>

Step == ReadHead \/ ReadExact \/ ExactDone \/ OutOfRange \/ ReadRest \/ RestOutOfReach

Next == Step \/ ReadFails

\* The calls are sequential code over synchronous exchanges that always return.
\* Nothing obliges an exchange to fail.
Spec == Init /\ [][Next]_vars /\ WF_vars(Step)
-----------------------------------------------------------------------------
(* Correctness *)

\* The reads that go on until the card says that the file has ended
UntilTheEnd == op = "physical" \/ (op = "all" /\ total = None)

\* How many bytes each call is for: the object its header announces and no filler,
\* the whole file, or the part asked for; and never more than there is
Expected ==
  CASE op = "all" /\ total # None -> Least(total, size)
    [] op = "exact"               -> IF from < size THEN Least(want, size) - from ELSE 0
    [] OTHER                      -> size

\* 15 bits of offset reach all that the call may have to read.  The other reads say
\* so when they do not (OffsetOutOfRange).
WithinReach == UntilTheEnd => size <= MaxOffset + 1

\* A call that succeeds returns exactly the bytes it is for, in order, however the
\* chunks fall and whichever way the card says that the file has ended.  Of a file
\* beyond reach that is read to its end, see WholeFileIsRead.
ReadsWhatIsThere == res = "ok" /\ WithinReach => out = Bytes(from, Expected)

\* src/card.rs: "whole physical content ... reads until the card refuses", and "until
\* the card signals the end".  A read that succeeds has come to the end of the file.
WholeFileIsRead == res = "ok" /\ UntilTheEnd => Len(out) = size

\* A call gives up for want of an address only where one is needed: neither a file
\* nor an object that 15 bits of offset reach is ever refused.
RefusesOnlyBeyondReach ==
  res = "offset" => want > MaxOffset + 1 /\ (size > MaxOffset \/ from > MaxOffset)

\* A call costs one READ BINARY per chunk of what it is for, and at most one that
\* finds the end: a card that keeps answering nothing, or less than it was asked for,
\* is not asked again and again.
ReadsAreFew == MaxChunk * (reads - 2) < Expected

\* Every call returns: a card that keeps answering nothing ends the loops.
Returns == <>(at = "done")
=============================================================================
