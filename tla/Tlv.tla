-------------------------------- MODULE Tlv --------------------------------
(***************************************************************************)
(* The two TLV codecs (src/tlv/ber.rs, src/tlv/simple.rs), byte by byte:   *)
(* the iterators that take concatenated objects out of what was read, when *)
(* that is cut short, padded or damaged.                                   *)
(***************************************************************************)
EXTENDS Integers, SequencesExt, FiniteSetsExt

CONSTANTS
  Object,        \* objects that may be written: codec, tag bytes, value, form of length
  Tails,         \* what may follow the last one: filler or a damaged header
  MaxObjects,    \* bound: objects in a row
  UsizeBytes     \* bytes of a usize; stands for 8

ASSUME UsizeAssumption == UsizeBytes \in Nat \ {0}

VARIABLES
  codec,         \* "ber" or "simple"
  written,       \* the objects written
  data,          \* the bytes read of them and of what follows
  pos,           \* bytes the iterator has consumed
  items,         \* objects it has yielded
  stop           \* "no", "end", "malformed"

tvars == <<codec, written, data, pos, items, stop>>

Octet == 0..255

\* Types; the iterator stays within the data
TlvTypeOK ==
  /\ codec \in {"ber", "simple"}
  /\ data \in Seq(Octet)
  /\ pos \in 0..Len(data)
  /\ stop \in {"no", "end", "malformed"}

\* A length is written in one byte, or in a given number of bytes after a marker
LengthBytes(c, n, form) ==
  CASE form = 0                 -> <<n>>
    [] c = "simple" /\ form = 2 -> <<255, n \div 256, n % 256>>
    [] c = "ber" /\ form = 1    -> <<129, n>>
    [] c = "ber" /\ form = 2    -> <<130, n \div 256, n % 256>>

Encode(o) == o.tag \o LengthBytes(o.codec, Len(o.value), o.form) \o o.value

EncodeAll(objects) ==
  LET upTo[i \in 0..Len(objects)] ==
        IF i = 0 THEN <<>> ELSE upTo[i - 1] \o Encode(objects[i])
  IN  upTo[Len(objects)]

-----------------------------------------------------------------------------
\* Big-endian
Number(bytes) ==
  LET upTo[i \in 0..Len(bytes)] == IF i = 0 THEN 0 ELSE upTo[i - 1] * 256 + bytes[i]
  IN  upTo[Len(bytes)]

\* How many values a usize has
UsizeSize ==
  LET upTo[i \in 0..UsizeBytes] == IF i = 0 THEN 1 ELSE upTo[i - 1] * 256
  IN  upTo[UsizeBytes]

\* Sums of usize wrap
Usize(n) == n % UsizeSize

\* Bytes of the tag at the front of d: one, or up to four while bit 8 goes on;
\* 0 without one
TagLength(d) ==
  IF d[1] % 32 # 31 THEN 1
  ELSE LET lasts == {i \in 2..4 : i <= Len(d) /\ d[i] < 128}
       IN  IF lasts = {} THEN 0 ELSE Min(lasts)

\* ber::parse_header: at most one header
BerHeader(d) ==
  LET t == TagLength(d)
      first == d[t + 1]
      count == first % 128
  IN  IF t = 0 \/ Len(d) <= t THEN {}
      ELSE IF first < 128 THEN {[tag |-> SubSeq(d, 1, t), length |-> first, size |-> t + 1]}
      ELSE IF count = 0 \/ count > UsizeBytes \/ Len(d) < t + 1 + count THEN {}
      ELSE {[tag |-> SubSeq(d, 1, t),
             length |-> Number(SubSeq(d, t + 2, t + 1 + count)),
             size |-> t + 1 + count]}

\* simple::parse_header: a tag of one byte, a length of one byte or of two after FF
SimpleHeader(d) ==
  IF d[1] = 255 \/ Len(d) < 2 THEN {}
  ELSE IF d[2] # 255 THEN {[tag |-> <<d[1]>>, length |-> d[2], size |-> 2]}
  ELSE IF Len(d) < 4 THEN {}
  ELSE {[tag |-> <<d[1]>>, length |-> Number(SubSeq(d, 3, 4)), size |-> 4]}

Header(d) == IF codec = "ber" THEN BerHeader(d) ELSE SimpleHeader(d)

\* Header::total_len.  A simple object is short of any wrap: 4 + 65535 at most.
TotalLen(h) == IF codec = "ber" THEN Usize(h.size + h.length) ELSE h.size + h.length

\* Mutant: only the end of the value is held against the data
HoldsUpTo(d, from, to) == to <= Len(d)

\* slice::get(from..to): neither past the end nor backwards
Holds(d, from, to) == from <= to /\ to <= Len(d)

\* ... and the header whose value is there, as parse and the iterators take it
Whole(d) == {h \in Header(d) : Holds(d, h.size, TotalLen(h))}

\* What ends the objects: filler of 00 or FF, for simple TLV FF alone
Filler(c) == IF c = "ber" THEN {0, 255} ELSE {255}
-----------------------------------------------------------------------------
(* What a card may hold *)

\* A tag is one byte that is not filler, for BER up to four, each but the last of
\* which says that it goes on
IsTag(c, t) ==
  /\ t \in Seq(Octet) /\ Len(t) \in 1..4
  /\ t[1] \notin Filler(c)
  /\ IF c = "simple" THEN Len(t) = 1
     ELSE /\ t[1] % 32 = 31 <=> Len(t) > 1
          /\ \A i \in 2..Len(t) : t[i] < 128 <=> i = Len(t)

\* Lengths that a form has room for
Fits(c, n, form) ==
  \/ form = 0 /\ n < (IF c = "ber" THEN 128 ELSE 255)
  \/ form = 1 /\ n < 256 /\ c = "ber"
  \/ form = 2 /\ n < 65536 /\ (c = "ber" => UsizeBytes >= 2)

ASSUME ObjectsAssumption ==
  \A o \in Object :
    /\ o.codec \in {"ber", "simple"} /\ o.value \in Seq(Octet)
    /\ IsTag(o.codec, o.tag) /\ Fits(o.codec, Len(o.value), o.form)
    /\ Len(Encode(o)) < UsizeSize

\* Whatever there is of a tail is filler or has no header, or one with too long a length
ASSUME TailsAssumption ==
  \A t \in Tails :
    /\ t \in Seq(Octet)
    /\ \A k \in 1..Len(t) :
         /\ t[1] \in Filler("ber")
            \/ \A h \in BerHeader(SubSeq(t, 1, k)) : h.size + h.length > k
         /\ t[1] \in Filler("simple")
            \/ \A h \in SimpleHeader(SubSeq(t, 1, k)) : h.size + h.length > k

TlvInit ==
  /\ codec \in {"ber", "simple"}
  /\ \E n \in 0..MaxObjects : written \in [1..n -> {o \in Object : o.codec = codec}]
  /\ \E tail \in Tails :
       LET all == EncodeAll(written) \o tail IN
       \E cut \in 0..Len(all) : data = SubSeq(all, 1, cut)
  /\ pos = 0
  /\ items = <<>>
  /\ stop = "no"
-----------------------------------------------------------------------------
Rest == SubSeq(data, pos + 1, Len(data))

\* Iter::next
NextItem ==
  /\ stop = "no"
  /\ IF Rest = <<>> THEN stop' = "end" /\ UNCHANGED <<pos, items>>
     ELSE IF Head(Rest) \in Filler(codec) THEN stop' = "end" /\ UNCHANGED <<pos, items>>
     ELSE IF Whole(Rest) = {} THEN stop' = "malformed" /\ UNCHANGED <<pos, items>>
     ELSE \E h \in Whole(Rest) :
            /\ pos' = pos + TotalLen(h)
            /\ items' = Append(items, [tag |-> h.tag,
                                       value |-> SubSeq(Rest, h.size + 1, TotalLen(h))])
            /\ UNCHANGED stop
  /\ UNCHANGED <<codec, written, data>>

TlvNext == NextItem

TlvSpec == TlvInit /\ [][TlvNext]_tvars
-----------------------------------------------------------------------------
(* Correctness *)

\* How many of the objects written are in the data from end to end
Complete ==
  Max({n \in 0..Len(written) :
         Len(EncodeAll(SubSeq(written, 1, n))) <= Len(data)})

\* What is left after them
After == SubSeq(data, Len(EncodeAll(SubSeq(written, 1, Complete))) + 1, Len(data))

\* An iterator yields the objects written, in whichever form their lengths are, up to
\* the place where the data was cut, and nothing that was not written; it ends quietly
\* at the end and at filler, and with an error at part of an object, or at a header
\* that no object can have: one without an end, too long a tag, a length that a usize
\* cannot hold or that wraps when the header is added.
ItemsAreObjects ==
  /\ IsPrefix(items, [i \in 1..Complete |-> [tag |-> written[i].tag, value |-> written[i].value]])
  /\ stop # "no" =>
       /\ Len(items) = Complete
       /\ (stop = "end") = (After = <<>> \/ (After # <<>> /\ Head(After) \in
                                  (IF codec = "ber" THEN {0, 255} ELSE {255})))
=============================================================================
