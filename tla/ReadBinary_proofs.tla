-------------------------- MODULE ReadBinary_proofs --------------------------
(***************************************************************************)
(* Proofs about ReadBinary, for chunks, files and offsets of any size: the *)
(* types, what a refusal means, how many commands a read takes, and that   *)
(* it returns exactly the bytes it is for, where the file is within reach  *)
(* and the card does not mark its end with a warning (6282).  Without      *)
(* either the bytes are lost, as runs of module ReadBinary show.           *)
(***************************************************************************)
EXTENDS ReadBinary, TLAPS

(* Arithmetic and sequences *)

\* What lies below a multiple of m and is one itself leaves room for another m.
LEMMA RoomForAnother ==
  ASSUME NEW m \in Nat \ {0}, NEW k \in Nat, NEW l \in Nat, m * k < m * l
  PROVE  m * k + m <= m * l /\ m * k + m = m * (k + 1)
<1>1. k < l  BY SMT
<1>2. k + 1 <= l  BY <1>1
<1>3. m * (k + 1) <= m * l  BY <1>2, SMT
<1>. QED  BY <1>3, SMT

\* The reach of P1-P2 is a whole number of chunks.
LEMMA Reach == \E l \in Nat : MaxOffset + 1 = MaxChunk * l
<1>1. MaxOffset + 1 = MaxChunk * ((MaxOffset + 1) \div MaxChunk)
      /\ (MaxOffset + 1) \div MaxChunk \in Nat
  BY ChunkAssumption, OffsetAssumption, SMT
<1>. QED  BY <1>1

\* Bytes(f, n) are n bytes, all of them numbered f + 1 to f + n.
LEMMA BytesAre ==
  ASSUME NEW f \in Nat, NEW n \in Nat
  PROVE  /\ Bytes(f, n) \in Seq(Nat) /\ Len(Bytes(f, n)) = n
         /\ \A s \in Nat : n = 0 \/ f + n <= s => Bytes(f, n) \in Seq(1..s)
         /\ n = 0 <=> Bytes(f, n) = <<>>
BY DEF Bytes

\* Consecutive bytes join.
LEMMA BytesJoin ==
  ASSUME NEW f \in Nat, NEW n \in Nat, NEW m \in Nat
  PROVE  Bytes(f, n) \o Bytes(f + n, m) = Bytes(f, n + m)
BY DEF Bytes

\* The front of some bytes.
LEMMA BytesFront ==
  ASSUME NEW f \in Nat, NEW n \in Nat, NEW m \in 0..n
  PROVE  SubSeq(Bytes(f, n), 1, m) = Bytes(f, m)
BY DEF Bytes

-----------------------------------------------------------------------------
(* What an answer of the card holds *)

\* What is known of the answer a to a read of up to le bytes at an offset
Honest(a, offset, le) ==
  /\ a.end \in BOOLEAN
  /\ a.data = Bytes(offset, Len(a.data)) /\ Len(a.data) \in 0..le
  /\ a.data = <<>> <=> Len(a.data) = 0
  /\ Len(a.data) > 0 => offset + Len(a.data) <= size
  /\ ends # "6282" /\ (a.end \/ a.data = <<>>) => offset >= size
  /\ Len(a.data) \in 1..le - 1 => offset + Len(a.data) = size

LEMMA AnswerIs ==
  ASSUME NEW offset \in Nat, NEW le \in Nat \ {0}, size \in Nat
  PROVE  Honest(Answer(offset, le), offset, le)
<1>. DEFINE a == Answer(offset, le)
<1>. SUFFICES Honest(a, offset, le)
  OBVIOUS
<1>. DEFINE left == IF offset < size THEN size - offset ELSE 0
            n == Least(left, le)
<1>1. left \in Nat /\ n \in Nat /\ n <= le /\ n <= left /\ (n = left \/ n = le)
  BY DEF Least
<1>2. /\ Bytes(offset, n) \in Seq(Nat) /\ Len(Bytes(offset, n)) = n
      /\ n = 0 <=> Bytes(offset, n) = <<>>
  BY <1>1, BytesAre
<1>3. <<>> = Bytes(offset, 0) /\ Len(<<>>) = 0
  BY BytesAre
<1>. HIDE DEF a
<1>4. CASE (ends = "6B00" /\ left = 0) \/ (ends = "6282" /\ left < le)
  <2>1. a = [end |-> TRUE, data |-> <<>>]
    BY <1>4 DEF a, Answer, EndOfFile
  <2>. QED  BY <2>1, <1>1, <1>3, <1>4 DEF Honest
<1>5. CASE ~((ends = "6B00" /\ left = 0) \/ (ends = "6282" /\ left < le))
  <2>1. a = [end |-> FALSE, data |-> Bytes(offset, n)]
    BY <1>5 DEF a, Answer, Chunk
  <2>2. a.end = FALSE /\ a.data = Bytes(offset, n) /\ Len(a.data) = n
    BY <2>1, <1>2
  <2>8. a.end \in BOOLEAN /\ ~a.end
    BY <2>2
  <2>3. a.data = <<>> <=> n = 0
    BY <2>2, <1>2
  <2>4. (left = 0 => offset >= size) /\ (left > 0 => offset + left = size)
    OBVIOUS
  <2>. HIDE DEF n, left
  <2>5. n > 0 => offset + n <= size
    BY <1>1, <2>4
  <2>6. n = 0 => offset >= size
    BY <1>1, <2>4
  <2>7. n \in 1..le - 1 => offset + n = size
    BY <1>1, <2>4
  <2>9. a.data = Bytes(offset, Len(a.data)) /\ Len(a.data) \in 0..le
    BY <2>2, <1>1
  <2>10. Len(a.data) = n
    BY <2>2
  <2>. QED  BY <2>3, <2>5, <2>6, <2>7, <2>8, <2>9, <2>10 DEF Honest
<1>. QED  BY <1>4, <1>5
-----------------------------------------------------------------------------
(* The inductive invariant *)

Typed ==
  /\ ends \in Ends
  /\ size \in 0..MaxSize
  /\ total \in {None} \cup 1..MaxSize
  /\ op \in Ops
  /\ from \in 0..MaxSize
  /\ want \in 0..2 * MaxSize
  /\ at \in {"head", "exact", "rest", "done"}
  /\ out \in Seq(Nat)
  /\ res \in {"none", "ok", "offset", "error"}
  /\ res = "none" <=> at # "done"

\* What is collected is what lies in the file from the offset on
Held ==
  /\ out = Bytes(from, Len(out))
  /\ Len(out) = 0 \/ from + Len(out) <= size

\* What each call is after, and how far each loop has come
Aims ==
  /\ op # "exact" => from = 0
  /\ total # None => size > 0
  /\ at = "head" => op = "all" /\ Len(out) = 0
  /\ at = "exact" => /\ Len(out) <= want - from
                     /\ op = "exact" \/ (op = "all" /\ total # None /\ want = total)
  /\ at = "rest" => /\ op = "physical" \/ (op = "all" /\ total = None)
                    /\ Len(out) = size \/ \E k \in Nat : Len(out) = MaxChunk * k
                    /\ Len(out) <= MaxOffset + 1

\* ReadsWhatIsThere, of the cards it holds for, in terms of lengths
Right == ends # "6282" /\ res = "ok" /\ WithinReach => Len(out) = Expected

IInv == Typed /\ Held /\ Aims /\ Right /\ RefusesOnlyBeyondReach

LEMMA InitInv == Init => IInv
<1>1. SUFFICES ASSUME Init PROVE IInv
  OBVIOUS
<1>2. PICK length \in 0..MaxSize : want = from + length /\ (op # "exact" => length = 0)
  BY <1>1 DEF Init
<1>3. from \in Nat /\ size \in Nat /\ from \in 0..MaxSize
  BY <1>1, SizeAssumption DEF Init
<1>4. out = <<>> /\ Len(out) = 0 /\ out \in Seq(Nat) /\ Bytes(from, 0) = <<>>
  BY <1>1, <1>3, BytesAre DEF Init
<1>5. /\ op = "all" => at = "head"
      /\ op = "physical" => at = "rest"
      /\ op = "exact" => at = "exact"
  BY <1>1 DEF Init
<1>6. op \in {"all", "physical", "exact"}
  BY <1>1 DEF Init, Ops
<1>7. Typed
  <2>1. want \in 0..2 * MaxSize
    BY <1>2, <1>3, SizeAssumption
  <2>2. at \in {"head", "exact", "rest"} /\ res = "none"
    BY <1>1, <1>5, <1>6 DEF Init
  <2>. QED  BY <1>1, <1>4, <2>1, <2>2 DEF Init, Typed
<1>8. Held
  BY <1>4 DEF Held
<1>9. Aims
  <2>1. 0 = MaxChunk * 0 /\ 0 \in Nat /\ 0 <= MaxOffset + 1
    BY ChunkAssumption, OffsetAssumption, SMT
  <2>2. op # "exact" => from = 0
    BY <1>1 DEF Init
  <2>3. total # None => size > 0
    BY <1>1 DEF Init
  <2>4. at = "exact" => Len(out) <= want - from /\ op = "exact"
    BY <1>2, <1>3, <1>4, <1>5, <1>6
  <2>5. at = "head" => op = "all"
    BY <1>5, <1>6
  <2>6. at = "rest" => op = "physical"
    BY <1>5, <1>6
  <2>. QED  BY <1>4, <2>1, <2>2, <2>3, <2>4, <2>5, <2>6 DEF Aims
<1>10. Right /\ RefusesOnlyBeyondReach
  BY <1>1 DEF Init, Right, RefusesOnlyBeyondReach
<1>. QED  BY <1>7, <1>8, <1>9, <1>10 DEF IInv
-----------------------------------------------------------------------------
(* Every step keeps it *)

\* Whatever the card hands over next joins what is collected.
LEMMA Grows ==
  ASSUME IInv, NEW le \in Nat \ {0},
         out' = out \o Answer(Offset, le).data, UNCHANGED <<size, from>>
  PROVE  Len(out') = Len(out) + Len(Answer(Offset, le).data) /\ out' \in Seq(Nat) /\ Held'
<1>. DEFINE a == Answer(Offset, le)  n == Len(out)  m == Len(a.data)
<1>1. /\ size \in Nat /\ from \in Nat /\ n \in Nat /\ out \in Seq(Nat)
      /\ Offset \in Nat /\ Offset = from + n
  BY SizeAssumption DEF IInv, Typed, Offset
<1>2. Honest(a, Offset, le)
  BY <1>1, AnswerIs
<1>3. out = Bytes(from, n) /\ (n = 0 \/ from + n <= size)
  BY DEF IInv, Held
<1>. HIDE DEF a, n
<1>4. Honest(a, from + n, le)
  BY <1>1, <1>2
<1>5. /\ a.data = Bytes(from + n, m) /\ m \in Nat
      /\ m > 0 => from + n + m <= size
  <2>1. /\ a.data = Bytes(from + n, Len(a.data)) /\ Len(a.data) \in 0..le
        /\ Len(a.data) > 0 => (from + n) + Len(a.data) <= size
    BY <1>4, Zenon DEF Honest
  <2>. HIDE DEF m
  <2>2. m = Len(a.data)
    BY DEF m
  <2>3. m \in 0..le /\ (m > 0 => (from + n) + m <= size) /\ a.data = Bytes(from + n, m)
    BY <2>1, <2>2
  <2>. QED  BY <1>1, <2>3
<1>6. out' = Bytes(from, n) \o Bytes(from + n, m)
  BY <1>3, <1>5 DEF a
<1>. HIDE DEF m
<1>7. Bytes(from, n) \o Bytes(from + n, m) = Bytes(from, n + m)
  <2>1. from \in Nat /\ n \in Nat /\ m \in Nat
    BY <1>1, <1>5
  <2>. QED  BY <2>1, BytesJoin, Zenon
<1>8. n + m \in Nat
  BY <1>1, <1>5
<1>9. Bytes(from, n + m) \in Seq(Nat) /\ Len(Bytes(from, n + m)) = n + m
  BY <1>1, <1>8, BytesAre, Zenon
<1>10. out' = Bytes(from, n + m) /\ Len(out') = n + m /\ out' \in Seq(Nat)
  BY <1>6, <1>7, <1>9
<1>11. n + m = 0 \/ from + (n + m) <= size
  BY <1>1, <1>3, <1>5
<1>12. Held'
  BY <1>10, <1>11 DEF Held
<1>. QED  BY <1>10, <1>12 DEF n, m, a

\* Where the end of the file cuts the loop of read_binary short, all is collected.
LEMMA EndIsEnd ==
  ASSUME IInv, at = "exact", Len(out) < want - from, ends # "6282", Offset >= size
  PROVE  Len(out) = Expected
<1>1. /\ size \in Nat /\ from \in Nat /\ Len(out) \in Nat /\ want \in Nat
      /\ total \in Nat \cup {-1} /\ from + Len(out) >= size
      /\ Len(out) = 0 \/ from + Len(out) <= size
      /\ op # "exact" => from = 0
      /\ total # None => size > 0
      /\ op = "exact" \/ (op = "all" /\ total # None /\ want = total)
  BY SizeAssumption DEF IInv, Typed, Held, Aims, Offset, None
<1>2. CASE op = "exact"
  BY <1>1, <1>2 DEF Expected, Least
<1>3. CASE op = "all" /\ total # None /\ want = total
  BY <1>1, <1>3 DEF Expected, Least
<1>. QED  BY <1>1, <1>2, <1>3

LEMMA HeadInv ==
  ASSUME IInv, ReadHead
  PROVE  IInv'
<1>. DEFINE a == Answer(0, MaxChunk)
<1>1. /\ size \in Nat /\ from = 0 /\ op = "all" /\ Len(out) = 0 /\ out = <<>>
      /\ total \in {None} \cup 1..MaxSize /\ at = "head" /\ res = "none"
      /\ MaxChunk \in Nat \ {0}
  <2>1. out \in Seq(Nat) /\ Len(out) = 0
    BY DEF IInv, Typed, Aims, ReadHead
  <2>2. out = <<>>
    BY <2>1
  <2>. QED  BY <2>1, <2>2, SizeAssumption, ChunkAssumption DEF IInv, Typed, Aims, ReadHead
<1>. HIDE DEF a
<1>0. Honest(a, 0, MaxChunk)
  BY <1>1, AnswerIs DEF a
<1>2. /\ a.end \in BOOLEAN
      /\ a.data = Bytes(0, Len(a.data)) /\ Len(a.data) \in 0..MaxChunk
      /\ a.data = <<>> <=> Len(a.data) = 0
      /\ Len(a.data) > 0 => Len(a.data) <= size
      /\ ends # "6282" /\ (a.end \/ a.data = <<>>) => size = 0
      /\ Len(a.data) \in 1..MaxChunk - 1 => Len(a.data) = size
  BY <1>0, <1>1 DEF Honest
<1>3. UNCHANGED <<ends, size, total, op, from>>
  BY DEF ReadHead
<1>4. CASE a.end \/ a.data = <<>>
  <2>1. at' = "done" /\ res' = "ok" /\ UNCHANGED <<out, want>>
    BY <1>4 DEF a, ReadHead, Done
  <2>2. ends # "6282" => total = None /\ Len(out) = Expected
    BY <1>1, <1>2, <1>4, OffsetAssumption DEF IInv, Aims, Expected, Least
  <2>3. Typed'
    BY <1>1, <1>3, <2>1 DEF IInv, Typed
  <2>4. Held' /\ Aims' /\ RefusesOnlyBeyondReach'
    BY <1>1, <1>3, <2>1 DEF IInv, Held, Bytes, Aims, RefusesOnlyBeyondReach
  <2>5. Right'
    BY <1>3, <2>1, <2>2 DEF Right, Expected, WithinReach, UntilTheEnd
  <2>. QED  BY <2>3, <2>4, <2>5 DEF IInv
<1>5. CASE ~(a.end \/ a.data = <<>>) /\ total # None /\ total <= Len(a.data)
  <2>1. at' = "done" /\ res' = "ok" /\ out' = SubSeq(a.data, 1, total) /\ UNCHANGED want
    BY <1>1, <1>2, <1>5 DEF a, ReadHead, Done, None
  <2>2. total \in 1..Len(a.data) /\ Len(a.data) \in Nat
    BY <1>1, <1>2, <1>5
  <2>3. out' = SubSeq(Bytes(0, Len(a.data)), 1, total)
    BY <1>2, <2>1
  <2>4. out' = Bytes(0, total)
    <3>1. 0 \in Nat /\ total \in 0..Len(a.data)
      BY <2>2
    <3>2. SubSeq(Bytes(0, Len(a.data)), 1, total) = Bytes(0, total)
      BY <2>2, <3>1, BytesFront, Zenon
    <3>. QED  BY <2>3, <3>2
  <2>5. Len(out') = total /\ out' \in Seq(Nat) /\ total \in Nat /\ total <= size
    <3>1. 0 \in Nat /\ total \in Nat /\ total <= size
      BY <1>1, <1>2, <2>2
    <3>2. Bytes(0, total) \in Seq(Nat) /\ Len(Bytes(0, total)) = total
      BY <3>1, BytesAre, Zenon
    <3>. QED  BY <2>4, <3>1, <3>2
  <2>6. Typed'
    BY <1>1, <1>3, <2>1, <2>5 DEF IInv, Typed
  <2>7. Held' /\ Aims' /\ RefusesOnlyBeyondReach'
    BY <1>1, <1>3, <2>1, <2>4, <2>5 DEF IInv, Held, Aims, RefusesOnlyBeyondReach
  <2>8. Right'
    BY <1>1, <1>3, <1>5, <2>1, <2>5 DEF Right, Expected, WithinReach, UntilTheEnd, Least
  <2>. QED  BY <2>6, <2>7, <2>8 DEF IInv
<1>6. CASE ~(a.end \/ a.data = <<>>) /\ ~(total # None /\ total <= Len(a.data))
  <2>1. /\ out' = a.data /\ UNCHANGED res
        /\ \/ total # None /\ total > Len(a.data) /\ want' = total /\ at' = "exact"
           \/ total = None /\ UNCHANGED want /\ at' = "rest"
    BY <1>1, <1>2, <1>6 DEF a, ReadHead, None
  <2>2. out' = <<>> \o a.data
    BY <1>2, <2>1, BytesAre
  <2>3. Offset = 0
    BY <1>1 DEF Offset
  <2>4. Len(out') = Len(a.data) /\ out' \in Seq(Nat) /\ Held'
    <3>1. Len(out) = 0
      BY <1>1
    <3>. QED  BY <1>1, <1>2, <1>3, <2>2, <2>3, <3>1, Grows DEF a
  <2>5. Typed'
    BY <1>1, <1>3, <2>1, <2>4, SizeAssumption DEF IInv, Typed
  <2>6. Aims'
    <3>1. Len(a.data) = size \/ Len(a.data) = MaxChunk * 1
      BY <1>1, <1>2, <1>6, SMT
    <3>2. MaxChunk <= MaxOffset + 1
      <4>1. PICK l \in Nat : MaxOffset + 1 = MaxChunk * l
        BY Reach
      <4>2. MaxChunk * 0 = 0 /\ MaxChunk * 0 < MaxChunk * l
        BY <1>1, <4>1, OffsetAssumption, SMT
      <4>3. MaxChunk * 0 + MaxChunk <= MaxChunk * l
        BY <1>1, <4>1, <4>2, RoomForAnother
      <4>. QED  BY <1>1, <4>1, <4>2, <4>3
    <3>3. at' = "exact" =>
            Len(out') <= want' - from' /\ op' = "all" /\ total' # None /\ want' = total'
      BY <1>1, <1>2, <1>3, <2>1, <2>4
    <3>4. at' = "rest" =>
            /\ op' = "all" /\ total' = None /\ Len(out') <= MaxOffset + 1
            /\ Len(out') = size' \/ \E k \in Nat : Len(out') = MaxChunk * k
      <4>1. op' = "all" /\ size' = size /\ Len(out') = Len(a.data)
        BY <1>1, <1>3, <2>4
      <4>2. at' = "rest" => total' = None
        BY <1>3, <2>1
      <4>3. Len(out') <= MaxOffset + 1
        BY <1>1, <1>2, <3>2, <4>1, OffsetAssumption
      <4>4. 1 \in Nat /\ (Len(out') = size' \/ Len(out') = MaxChunk * 1)
        BY <3>1, <4>1
      <4>5. Len(out') = size' \/ \E k \in Nat : Len(out') = MaxChunk * k
        BY <4>4, Zenon
      <4>. QED  BY <4>1, <4>2, <4>3, <4>5, Zenon
    <3>5. from' = 0 /\ (total' # None => size' > 0) /\ at' # "head"
      BY <1>1, <1>3, <2>1 DEF IInv, Aims
    <3>. QED  BY <3>3, <3>4, <3>5 DEF Aims
  <2>7. Right' /\ RefusesOnlyBeyondReach'
    BY <1>1, <2>1 DEF Right, RefusesOnlyBeyondReach
  <2>. QED  BY <2>4, <2>5, <2>6, <2>7 DEF IInv
<1>. QED  BY <1>4, <1>5, <1>6

LEMMA ExactInv ==
  ASSUME IInv, ReadExact
  PROVE  IInv'
<1>. DEFINE le == Least(want - from - Len(out), MaxChunk)  a == Answer(Offset, le)
<1>1. /\ size \in Nat /\ from \in Nat /\ Len(out) \in Nat /\ want \in Nat
      /\ at = "exact" /\ Len(out) < want - from /\ MaxChunk \in Nat \ {0}
  BY SizeAssumption, ChunkAssumption DEF IInv, Typed, ReadExact
<1>2. le \in Nat \ {0} /\ le <= want - from - Len(out) /\ Offset \in Nat
  BY <1>1 DEF Least, Offset
<1>3. UNCHANGED <<ends, size, total, op, from, want>>
  BY DEF ReadExact
<1>4. Honest(a, Offset, le)
  BY <1>1, <1>2, AnswerIs
<1>. HIDE DEF le
<1>5. CASE a.end \/ a.data = <<>>
  <2>1. at' = "done" /\ res' = "ok" /\ UNCHANGED out
    BY <1>5 DEF le, ReadExact, Done
  <2>2. ends # "6282" => Offset >= size
    BY <1>4, <1>5, Zenon DEF Honest
  <2>3. ends # "6282" => Len(out) = Expected
    BY <1>1, <2>2, EndIsEnd
  <2>4. Typed' /\ Held' /\ Aims' /\ RefusesOnlyBeyondReach'
    BY <1>3, <2>1 DEF IInv, Typed, Held, Bytes, Aims, RefusesOnlyBeyondReach
  <2>5. Right'
    BY <1>3, <2>1, <2>3 DEF Right, Expected, WithinReach, UntilTheEnd
  <2>. QED  BY <2>4, <2>5 DEF IInv
<1>6. CASE ~(a.end \/ a.data = <<>>)
  <2>1. out' = out \o a.data /\ UNCHANGED <<at, res>>
    BY <1>6 DEF le, ReadExact, Collect
  <2>2. Len(out') = Len(out) + Len(a.data) /\ out' \in Seq(Nat) /\ Held'
    BY <1>2, <1>3, <2>1, Grows
  <2>3. Len(a.data) \in 0..le
    BY <1>4, Zenon DEF Honest
  <2>. HIDE DEF a
  <2>4. Len(out') <= want - from
    BY <1>1, <1>2, <2>2, <2>3
  <2>5. Typed'
    BY <1>3, <2>1, <2>2 DEF IInv, Typed
  <2>6. Aims'
    BY <1>1, <1>3, <2>1, <2>4 DEF IInv, Aims
  <2>7. Right' /\ RefusesOnlyBeyondReach'
    BY <1>1, <2>1 DEF IInv, Typed, Right, RefusesOnlyBeyondReach
  <2>. QED  BY <2>2, <2>5, <2>6, <2>7 DEF IInv
<1>. QED  BY <1>5, <1>6

LEMMA RestInv ==
  ASSUME IInv, ReadRest
  PROVE  IInv'
<1>. DEFINE a == Answer(Len(out), MaxChunk)
<1>1. /\ size \in Nat /\ from = 0 /\ Len(out) \in Nat /\ out \in Seq(Nat)
      /\ at = "rest" /\ MaxChunk \in Nat \ {0} /\ Len(out) <= MaxOffset
      /\ op = "physical" \/ (op = "all" /\ total = None)
      /\ Len(out) = 0 \/ Len(out) <= size
  BY SizeAssumption, ChunkAssumption DEF IInv, Typed, Held, Aims, ReadRest, Ops
<1>2. Offset = Len(out) /\ a = Answer(Offset, MaxChunk)
  BY <1>1 DEF Offset
<1>3. UNCHANGED <<ends, size, total, op, from, want>>
  BY DEF ReadRest
<1>4. Honest(a, Len(out), MaxChunk)
  BY <1>1, AnswerIs
<1>. HIDE DEF a
<1>5. /\ Len(a.data) \in 0..MaxChunk /\ (a.data = <<>> <=> Len(a.data) = 0)
      /\ Len(a.data) > 0 => Len(out) + Len(a.data) <= size
      /\ ends # "6282" /\ (a.end \/ a.data = <<>>) => Len(out) >= size
      /\ Len(a.data) \in 1..MaxChunk - 1 => Len(out) + Len(a.data) = size
  BY <1>4, Zenon DEF Honest
\* A chunk that is handed over stays within reach
<1>6. Len(a.data) > 0 => Len(out) + Len(a.data) <= MaxOffset + 1
                        /\ (Len(a.data) = MaxChunk =>
                              \E k \in Nat : Len(out) + Len(a.data) = MaxChunk * k)
  <2>1. SUFFICES ASSUME Len(a.data) > 0
                 PROVE  Len(out) + Len(a.data) <= MaxOffset + 1
                        /\ (Len(a.data) = MaxChunk =>
                              \E k \in Nat : Len(out) + Len(a.data) = MaxChunk * k)
    OBVIOUS
  <2>2. PICK k \in Nat : Len(out) = MaxChunk * k
    BY <1>1, <1>5, <2>1 DEF IInv, Aims
  <2>3. PICK l \in Nat : MaxOffset + 1 = MaxChunk * l
    BY Reach
  <2>4. MaxChunk * k < MaxChunk * l
    BY <1>1, <2>2, <2>3, OffsetAssumption
  <2>5. MaxChunk * k + MaxChunk <= MaxChunk * l /\ MaxChunk * k + MaxChunk = MaxChunk * (k + 1)
    BY <1>1, <2>4, RoomForAnother
  <2>6. Len(out) + MaxChunk <= MaxOffset + 1 /\ Len(out) + MaxChunk = MaxChunk * (k + 1)
    BY <2>2, <2>3, <2>5
  <2>7. k + 1 \in Nat
    BY <2>2
  <2>8. Len(out) + Len(a.data) <= MaxOffset + 1
    BY <1>1, <1>5, <2>6, OffsetAssumption
  <2>9. Len(a.data) = MaxChunk => Len(out) + Len(a.data) = MaxChunk * (k + 1)
    BY <2>6
  <2>. QED  BY <2>7, <2>8, <2>9
<1>7. CASE a.end \/ a.data = <<>>
  <2>1. at' = "done" /\ res' = "ok" /\ UNCHANGED out
    BY <1>1, <1>5, <1>7 DEF a, ReadRest, Done
  <2>2. ends # "6282" => Len(out) = Expected
    BY <1>1, <1>5, <1>7, OffsetAssumption DEF Expected, Least
  <2>3. Typed' /\ Held' /\ Aims' /\ RefusesOnlyBeyondReach'
    BY <1>3, <2>1 DEF IInv, Typed, Held, Bytes, Aims, RefusesOnlyBeyondReach
  <2>4. Right'
    BY <1>3, <2>1, <2>2 DEF Right, Expected, WithinReach, UntilTheEnd
  <2>. QED  BY <2>3, <2>4 DEF IInv
<1>8. CASE ~(a.end \/ a.data = <<>>)
  <2>1. /\ out' = out \o a.data
        /\ \/ Len(a.data) \in 1..MaxChunk - 1 /\ at' = "done" /\ res' = "ok"
           \/ Len(a.data) = MaxChunk /\ UNCHANGED <<at, res>>
    BY <1>8 DEF a, ReadRest, Done, Collect
  <2>2. Len(out') = Len(out) + Len(a.data) /\ out' \in Seq(Nat) /\ Held'
    BY <1>1, <1>2, <1>3, <2>1, Grows
  <2>3. Len(a.data) > 0
    BY <1>5, <1>8
  <2>4. Typed'
    BY <1>3, <2>1, <2>2 DEF IInv, Typed
  <2>5. at' = "done" => Len(out') = Expected
    <3>1. Expected = size
      BY <1>1 DEF Expected
    <3>2. at' = "done" => Len(out') = size
      BY <1>1, <1>5, <2>1, <2>2
    <3>. QED  BY <3>1, <3>2
  <2>6. Right'
    <3>1. res' = "ok" => at' = "done"
      BY <2>4 DEF Typed
    <3>. QED  BY <1>3, <2>5, <3>1 DEF Right, Expected, WithinReach, UntilTheEnd
  <2>7. Aims'
    BY <1>1, <1>3, <1>6, <2>1, <2>2, <2>3 DEF IInv, Aims
  <2>8. RefusesOnlyBeyondReach'
    BY <1>1, <2>1 DEF IInv, Typed, RefusesOnlyBeyondReach
  <2>. QED  BY <2>2, <2>4, <2>6, <2>7, <2>8 DEF IInv
<1>. QED  BY <1>7, <1>8

\* The steps that only end the call
LEMMA EndInv ==
  ASSUME IInv, ExactDone \/ OutOfRange \/ RestOutOfReach \/ ReadFails
  PROVE  IInv'
<1>1. /\ size \in Nat /\ from \in Nat /\ Len(out) \in Nat /\ want \in Nat /\ MaxOffset \in Nat
      /\ Len(out) = 0 \/ from + Len(out) <= size
      /\ op # "exact" => from = 0
      /\ total \in {None} \cup 1..MaxSize
      /\ UNCHANGED <<ends, size, total, op, from, want>>
  BY SizeAssumption, OffsetAssumption
     DEF IInv, Typed, Held, Aims, ExactDone, OutOfRange, RestOutOfReach, ReadFails
<1>2. CASE ExactDone
  <2>1. /\ at = "exact" /\ Len(out) = want - from
        /\ op = "exact" \/ (op = "all" /\ total # None /\ want = total)
        /\ at' = "done" /\ res' = "ok" /\ UNCHANGED out
    BY <1>1, <1>2 DEF IInv, Aims, ExactDone, Done
  <2>2. op = "exact" => Len(out) = Expected
    BY <1>1, <2>1 DEF Expected, Least
  <2>3. op = "all" /\ total # None /\ want = total => Len(out) = Expected
    BY <1>1, <2>1, SizeAssumption DEF Expected, Least
  <2>4. Len(out) = Expected
    BY <2>1, <2>2, <2>3
  <2>5. Right'
    BY <1>1, <2>1, <2>4 DEF Right, Expected, WithinReach, UntilTheEnd
  <2>6. Typed' /\ Held' /\ Aims' /\ RefusesOnlyBeyondReach'
    BY <1>1, <2>1 DEF IInv, Typed, Held, Bytes, Aims, RefusesOnlyBeyondReach
  <2>. QED  BY <2>5, <2>6 DEF IInv
<1>3. CASE OutOfRange
  <2>1. /\ Len(out) < want - from /\ from + Len(out) > MaxOffset
        /\ at' = "done" /\ res' = "offset" /\ UNCHANGED out
    BY <1>1, <1>3 DEF OutOfRange, Addressable, Offset, Done
  <2>2. Typed' /\ Held' /\ Aims' /\ Right'
    BY <1>1, <2>1 DEF IInv, Typed, Held, Bytes, Aims, Right
  <2>3. RefusesOnlyBeyondReach'
    BY <1>1, <2>1 DEF RefusesOnlyBeyondReach
  <2>. QED  BY <2>2, <2>3 DEF IInv
<1>4. CASE RestOutOfReach
  <2>1. /\ Len(out) = MaxOffset + 1 /\ (op = "physical" \/ (op = "all" /\ total = None))
        /\ at' = "done" /\ res' = "ok" /\ UNCHANGED out
    BY <1>1, <1>4 DEF IInv, Aims, RestOutOfReach, Done
  <2>2. from = 0 /\ Len(out) <= size
    BY <1>1, <2>1
  <2>3. Expected = size
    BY <2>1 DEF Expected
  <2>4. WithinReach => Len(out) = Expected
    BY <1>1, <2>1, <2>2, <2>3 DEF WithinReach, UntilTheEnd
  <2>5. Right'
    BY <1>1, <2>1, <2>4 DEF Right, Expected, WithinReach, UntilTheEnd
  <2>6. Typed' /\ Held' /\ Aims' /\ RefusesOnlyBeyondReach'
    BY <1>1, <2>1 DEF IInv, Typed, Held, Bytes, Aims, RefusesOnlyBeyondReach
  <2>. QED  BY <2>5, <2>6 DEF IInv
<1>5. CASE ReadFails
  <2>1. at' = "done" /\ res' = "error" /\ out' = <<>>
    BY <1>5 DEF ReadFails, Done
  <2>2. Len(out') = 0 /\ out' \in Seq(Nat) /\ Bytes(from, 0) = <<>>
    BY <1>1, <2>1, BytesAre
  <2>3. Held'
    BY <1>1, <2>1, <2>2 DEF Held, Bytes
  <2>4. Typed' /\ Aims' /\ Right' /\ RefusesOnlyBeyondReach'
    BY <1>1, <2>1, <2>2 DEF IInv, Typed, Aims, Right, RefusesOnlyBeyondReach
  <2>. QED  BY <2>3, <2>4 DEF IInv
<1>. QED  BY <1>2, <1>3, <1>4, <1>5

LEMMA StepInv == IInv /\ [Next]_vars => IInv'
<1>1. SUFFICES ASSUME IInv, [Next]_vars PROVE IInv'
  OBVIOUS
<1>2. CASE ReadHead
  BY <1>1, <1>2, HeadInv
<1>3. CASE ReadExact
  BY <1>1, <1>3, ExactInv
<1>4. CASE ReadRest
  BY <1>1, <1>4, RestInv
<1>5. CASE ExactDone \/ OutOfRange \/ RestOutOfReach \/ ReadFails
  BY <1>1, <1>5, EndInv
<1>6. CASE UNCHANGED vars
  BY <1>1, <1>6 DEF vars, IInv, Typed, Held, Aims, Right, Expected, WithinReach, UntilTheEnd, RefusesOnlyBeyondReach, Bytes
<1>. QED  BY <1>1, <1>2, <1>3, <1>4, <1>5, <1>6 DEF Next, Step
-----------------------------------------------------------------------------
(* How many commands *)

\* Every command so far brought a whole chunk, but for one that met the end of the file
\* or of what is wanted
Few ==
  /\ reads \in Nat
  /\ ReadsAreFew
  /\ at = "head" => reads = 0
  /\ at \in {"exact", "rest"} =>
       \/ MaxChunk * reads <= Len(out)
       \/ /\ MaxChunk * (reads - 1) < Len(out)
          /\ from + Len(out) = size \/ (at = "exact" /\ Len(out) = want - from)

LEMMA Times ==
  ASSUME NEW m \in Nat, NEW k \in Int
  PROVE  /\ m * k \in Int /\ m * (k + 1) = m * k + m
         /\ m * (k - 1) = m * k - m /\ m * (k - 2) = m * k - m - m
BY SMT

\* A loop never collects more than the call is for.
LEMMA SoFar ==
  ASSUME IInv, at # "done"
  PROVE  Expected \in Nat /\ Len(out) <= Expected
<1>1. /\ size \in Nat /\ from \in Nat /\ Len(out) \in Nat /\ want \in Nat /\ MaxOffset \in Nat
      /\ total \in {None} \cup 1..MaxSize /\ op \in Ops
      /\ Len(out) = 0 \/ from + Len(out) <= size
      /\ op # "exact" => from = 0
      /\ at \in {"head", "exact", "rest"}
  BY SizeAssumption, OffsetAssumption DEF IInv, Typed, Held, Aims
<1>2. Expected \in Nat
  <2>1. op = "all" /\ total # None => total \in Nat
    BY <1>1, SizeAssumption
  <2>2. CASE op = "all" /\ total # None
    BY <1>1, <2>1, <2>2 DEF Expected, Least
  <2>3. CASE op = "exact"
    <3>1. from <= want
      BY <1>1, <2>3 DEF IInv, Aims
    <3>. QED  BY <1>1, <2>3, <3>1 DEF Expected, Least
  <2>4. CASE ~(op = "all" /\ total # None) /\ op # "exact"
    <3>1. Expected = size
      BY <1>1, <2>4 DEF Expected
    <3>. QED  BY <1>1, <3>1
  <2>. QED  BY <2>2, <2>3, <2>4
<1>3. CASE at = "head"
  BY <1>2, <1>3 DEF IInv, Aims
<1>4. CASE at = "exact"
  <2>1. Len(out) <= want - from /\ (op = "exact" \/ (op = "all" /\ total # None /\ want = total))
    BY <1>4 DEF IInv, Aims
  <2>. QED  BY <1>1, <1>2, <2>1 DEF Expected, Least
<1>5. CASE at = "rest"
  <2>1. Len(out) <= MaxOffset + 1 /\ (op = "physical" \/ (op = "all" /\ total = None))
    BY <1>5 DEF IInv, Aims
  <2>. QED  BY <1>1, <1>2, <2>1 DEF Expected, Least
<1>. QED  BY <1>1, <1>3, <1>4, <1>5

LEMMA InitFew == Init => Few
<1>1. SUFFICES ASSUME Init PROVE Few
  OBVIOUS
<1>2. IInv /\ at # "done"
  <2>1. IInv /\ res = "none"
    BY <1>1, InitInv DEF Init
  <2>. QED  BY <2>1 DEF IInv, Typed
<1>3. reads = 0 /\ Len(out) = 0 /\ Expected \in Nat
  BY <1>1, <1>2, SoFar DEF Init
<1>4. MaxChunk \in Nat \ {0} /\ MaxChunk * 0 = 0 /\ MaxChunk * (0 - 2) < 0
  BY ChunkAssumption, SMT
<1>. QED  BY <1>3, <1>4 DEF Few, ReadsAreFew

\* What a call is for does not change, and a step sends one command at most.
LEMMA SentOnce ==
  ASSUME IInv, Few, Next
  PROVE  ReadsAreFew' /\ reads' \in Nat
<1>1. at # "done" /\ UNCHANGED <<size, total, op, from>> /\ reads' \in {reads, reads + 1}
  BY DEF Next, Step, ReadHead, ReadExact, ExactDone, OutOfRange, ReadRest, RestOutOfReach,
         ReadFails, Sent
<1>2. at # "head" => UNCHANGED want
  BY DEF Next, Step, ReadHead, ReadExact, ExactDone, OutOfRange, ReadRest, RestOutOfReach,
         ReadFails
<1>3. op = "exact" => UNCHANGED want
  BY <1>2 DEF IInv, Aims
<1>4. Expected' = Expected
  BY <1>1, <1>3 DEF Expected
<1>5. Expected \in Nat /\ Len(out) <= Expected /\ Len(out) \in Nat
  BY <1>1, SoFar DEF IInv, Typed
<1>6. reads \in Nat /\ MaxChunk \in Nat \ {0}
  BY ChunkAssumption DEF Few
<1>. DEFINE p == MaxChunk * reads
<1>7. /\ p \in Int /\ MaxChunk * (reads - 1) = p - MaxChunk
      /\ MaxChunk * (reads - 2) = p - MaxChunk - MaxChunk
      /\ MaxChunk * ((reads + 1) - 2) = p - MaxChunk
  <2>1. (reads + 1) - 2 = reads - 1
    BY <1>6
  <2>. QED  BY <1>6, <2>1, Times
<1>8. at = "head" => p = 0
  BY <1>6, SMT DEF Few
<1>. HIDE DEF p
<1>9. at \in {"head", "exact", "rest"}
  BY <1>1 DEF IInv, Typed
<1>10. p - MaxChunk < Expected
  <2>1. CASE at = "head"
    BY <1>5, <1>6, <1>8, <2>1
  <2>2. CASE at \in {"exact", "rest"}
    <3>1. p <= Len(out) \/ p - MaxChunk < Len(out)
      BY <1>7, <2>2 DEF Few, p
    <3>. QED  BY <1>5, <1>6, <1>7, <3>1
  <2>. QED  BY <1>9, <2>1, <2>2
<1>11. MaxChunk * (reads' - 2) < Expected
  <2>1. CASE reads' = reads
    <3>1. MaxChunk * (reads' - 2) = p - MaxChunk - MaxChunk
      BY <1>7, <2>1
    <3>. QED  BY <1>5, <1>6, <1>7, <1>10, <3>1
  <2>2. CASE reads' = reads + 1
    <3>1. MaxChunk * (reads' - 2) = p - MaxChunk
      BY <1>7, <2>2
    <3>. QED  BY <1>10, <3>1
  <2>. QED  BY <1>1, <2>1, <2>2
<1>. QED  BY <1>1, <1>4, <1>6, <1>11 DEF ReadsAreFew

\* A chunk that does not end a loop is whole, or meets the end of what there is to read.
LEMMA MoreFew ==
  ASSUME IInv, Few, NEW le \in 1..MaxChunk, NEW rest \in Nat,
         le = rest \/ le = MaxChunk,
         at = "exact" => rest = want - from - Len(out),
         at \in {"exact", "rest"}, at = "exact" => Len(out) < want - from,
         Answer(Offset, le).data # <<>>, out' = out \o Answer(Offset, le).data, Sent,
         at = "rest" => Len(Answer(Offset, le).data) = MaxChunk,
         UNCHANGED <<size, from, want, at>>
  PROVE  \/ MaxChunk * reads' <= Len(out')
         \/ /\ MaxChunk * (reads' - 1) < Len(out')
            /\ from' + Len(out') = size' \/ (at' = "exact" /\ Len(out') = want' - from')
<1>. DEFINE m == Len(Answer(Offset, le).data)  p == MaxChunk * reads
<1>1. /\ size \in Nat /\ from \in Nat /\ Len(out) \in Nat /\ want \in Nat
      /\ MaxChunk \in Nat \ {0} /\ reads \in Nat /\ le \in Nat \ {0}
      /\ Offset = from + Len(out) /\ Offset \in Nat
  <2>1. size \in Nat /\ from \in Nat /\ Len(out) \in Nat /\ want \in Nat /\ reads \in Nat
    BY SizeAssumption DEF IInv, Typed, Few
  <2>2. MaxChunk \in Nat \ {0} /\ le \in Nat \ {0}
    BY ChunkAssumption
  <2>. QED  BY <2>1, <2>2 DEF Offset
<1>2. Honest(Answer(Offset, le), Offset, le)
  BY <1>1, AnswerIs
<1>3. /\ m \in 1..le /\ from + Len(out) + m <= size
      /\ m < le => from + Len(out) + m = size
  <2>1. /\ m \in 0..le /\ m # 0
        /\ m > 0 => Offset + m <= size
        /\ m \in 1..le - 1 => Offset + m = size
    BY <1>2, Zenon DEF Honest
  <2>. HIDE DEF m
  <2>. QED  BY <1>1, <2>1
<1>4. Len(out') = Len(out) + m
  BY <1>1, Grows
<1>5. at = "rest" => m = MaxChunk
  OBVIOUS
<1>6. /\ p \in Int /\ MaxChunk * (reads + 1) = p + MaxChunk
      /\ MaxChunk * ((reads + 1) - 1) = p
  <2>1. (reads + 1) - 1 = reads
    BY <1>1
  <2>. QED  BY <1>1, <2>1, Times
<1>7. p <= Len(out) \/ from + Len(out) = size \/ (at = "exact" /\ Len(out) = want - from)
  BY DEF Few
<1>. HIDE DEF m, p
<1>8. p <= Len(out)
  BY <1>1, <1>3, <1>7
<1>9. MaxChunk * reads' = p + MaxChunk /\ MaxChunk * (reads' - 1) = p
  <2>1. reads' = reads + 1
    BY DEF Sent
  <2>. QED  BY <1>6, <2>1
<1>10. size' = size /\ from' = from /\ want' = want /\ at' = at
  OBVIOUS
<1>11. p < Len(out') /\ Len(out') = Len(out) + m /\ m \in Nat
  <2>1. m \in Nat /\ m > 0
    BY <1>1, <1>3
  <2>. QED  BY <1>1, <1>4, <1>6, <1>8, <2>1
<1>12. CASE m = MaxChunk
  <2>1. p + MaxChunk <= Len(out')
    BY <1>1, <1>4, <1>6, <1>8, <1>12
  <2>. QED  BY <1>9, <2>1
<1>13. CASE m < le
  <2>1. from + Len(out) + m = size
    BY <1>3, <1>13
  <2>2. p < Len(out') /\ from + Len(out') = size
    BY <1>1, <1>11, <2>1
  <2>3. MaxChunk * (reads' - 1) < Len(out')
    BY <1>9, <2>2
  <2>4. from' + Len(out') = size'
    BY <1>10, <2>2
  <2>. QED  BY <2>3, <2>4, Zenon
<1>14. CASE m = le /\ le = rest /\ at = "exact"
  <2>1. rest = want - from - Len(out)
    BY <1>14
  <2>2. p < Len(out') /\ Len(out') = want - from
    BY <1>1, <1>14, <1>11, <2>1
  <2>3. MaxChunk * (reads' - 1) < Len(out')
    BY <1>9, <2>2
  <2>4. at' = "exact" /\ Len(out') = want' - from'
    BY <1>14, <1>10, <2>2
  <2>. QED  BY <2>3, <2>4, Zenon
<1>. QED  BY <1>1, <1>3, <1>5, <1>12, <1>13, <1>14

LEMMA StepFew == IInv /\ Few /\ [Next]_vars => Few'
<1>1. SUFFICES ASSUME IInv, Few, Next PROVE Few'
  <2>1. CASE UNCHANGED vars
    BY <2>1 DEF vars, Few, ReadsAreFew, Expected
  <2>. QED  BY <2>1
<1>2. ReadsAreFew' /\ reads' \in Nat
  BY <1>1, SentOnce
<1>3. /\ size \in Nat /\ from \in Nat /\ Len(out) \in Nat /\ want \in Nat
      /\ MaxChunk \in Nat \ {0} /\ reads \in Nat
  BY <1>1, SizeAssumption, ChunkAssumption DEF IInv, Typed, Few
<1>4. CASE at' = "done"
  BY <1>2, <1>4 DEF Few
<1>5. CASE at' # "done" /\ ReadHead
  <2>. DEFINE a == Answer(0, MaxChunk)
  <2>1. at = "head" /\ Len(out) = 0 /\ from = 0 /\ reads = 0 /\ reads' = 1 /\ UNCHANGED <<size, from>>
    BY <1>1, <1>5 DEF ReadHead, IInv, Aims, Few, Sent
  <2>2. out' = a.data /\ a.data # <<>> /\ at' \in {"exact", "rest"}
    BY <1>5 DEF ReadHead, Done
  <2>3. Honest(a, 0, MaxChunk)
    BY <1>3, AnswerIs
  <2>4. Len(a.data) \in 1..MaxChunk /\ (Len(a.data) < MaxChunk => Len(a.data) = size)
    <3>1. /\ Len(a.data) \in 0..MaxChunk /\ Len(a.data) # 0
          /\ Len(a.data) \in 1..MaxChunk - 1 => 0 + Len(a.data) = size
      BY <2>2, <2>3, Zenon DEF Honest
    <3>. HIDE DEF a
    <3>. QED  BY <1>3, <3>1
  <2>5. MaxChunk * 1 = MaxChunk /\ MaxChunk * (1 - 1) = 0
    BY <1>3, SMT
  <2>. HIDE DEF a
  <2>6. MaxChunk * reads' <= Len(out') \/ (MaxChunk * (reads' - 1) < Len(out') /\ from' + Len(out') = size')
    BY <1>3, <2>1, <2>2, <2>4, <2>5
  <2>. QED  BY <1>2, <2>2, <2>6 DEF Few
<1>6. CASE at' # "done" /\ ReadExact
  <2>. DEFINE rest == want - from - Len(out)  le == Least(rest, MaxChunk)
  <2>1. /\ at = "exact" /\ Len(out) < want - from /\ UNCHANGED <<size, from, want, at>> /\ Sent
        /\ Answer(Offset, le).data # <<>> /\ out' = out \o Answer(Offset, le).data
    BY <1>6 DEF ReadExact, Done, Collect
  <2>2. rest \in Nat /\ le \in 1..MaxChunk /\ (le = rest \/ le = MaxChunk)
    BY <1>3, <2>1 DEF Least
  <2>. HIDE DEF le
  <2>3. \/ MaxChunk * reads' <= Len(out')
        \/ /\ MaxChunk * (reads' - 1) < Len(out')
           /\ from' + Len(out') = size' \/ (at' = "exact" /\ Len(out') = want' - from')
    BY <1>1, <2>1, <2>2, MoreFew
  <2>. QED  BY <1>2, <2>1, <2>3 DEF Few
<1>7. CASE at' # "done" /\ ReadRest
  <2>1. at = "rest" /\ UNCHANGED <<size, from, want, at>> /\ Sent /\ from = 0
    BY <1>1, <1>7 DEF ReadRest, Done, IInv, Aims
  <2>2. Offset = Len(out)
    BY <1>3, <2>1 DEF Offset
  <2>3. /\ Len(Answer(Offset, MaxChunk).data) = MaxChunk
        /\ out' = out \o Answer(Offset, MaxChunk).data
    BY <1>7, <2>2 DEF ReadRest, Done, Collect
  <2>4. Answer(Offset, MaxChunk).data # <<>> /\ MaxChunk \in 1..MaxChunk
    BY <1>3, <2>3
  <2>5. \/ MaxChunk * reads' <= Len(out')
        \/ /\ MaxChunk * (reads' - 1) < Len(out')
           /\ from' + Len(out') = size' \/ (at' = "exact" /\ Len(out') = want' - from')
    BY <1>1, <1>3, <2>1, <2>3, <2>4, MoreFew
  <2>. QED  BY <1>2, <2>1, <2>5 DEF Few
<1>8. CASE ExactDone \/ OutOfRange \/ RestOutOfReach \/ ReadFails
  BY <1>4, <1>8 DEF ExactDone, OutOfRange, RestOutOfReach, ReadFails, Done
<1>. QED  BY <1>1, <1>4, <1>5, <1>6, <1>7, <1>8 DEF Next, Step
-----------------------------------------------------------------------------
(* The theorems *)

LEMMA InvImplies == IInv /\ Few => TypeOK /\ (ends # "6282" => ReadsWhatIsThere)
<1>1. SUFFICES ASSUME IInv, Few PROVE TypeOK /\ (ends # "6282" => ReadsWhatIsThere)
  OBVIOUS
<1>2. Len(out) \in Nat /\ from \in Nat /\ size \in Nat
  BY <1>1, SizeAssumption DEF IInv, Typed
<1>3. Bytes(from, Len(out)) \in Seq(1..size)
  BY <1>1, <1>2, BytesAre DEF IInv, Held
<1>4. out \in Seq(1..size)
  BY <1>1, <1>3 DEF IInv, Held
<1>5. TypeOK
  BY <1>1, <1>4 DEF IInv, Typed, Aims, Few, TypeOK
<1>6. ends # "6282" => ReadsWhatIsThere
  BY <1>1 DEF IInv, Held, Right, ReadsWhatIsThere
<1>. QED  BY <1>5, <1>6

LEMMA Invariant == Spec => [](IInv /\ Few)
<1>1. Init => IInv /\ Few
  BY InitInv, InitFew
<1>2. (IInv /\ Few) /\ [Next]_vars => (IInv /\ Few)'
  BY StepInv, StepFew
<1>. QED  BY <1>1, <1>2, PTL DEF Spec

\* Every read keeps its types, whatever the sizes, and read_binary never collects
\* more than it was asked for.
THEOREM ReadTypes == Spec => []TypeOK
BY Invariant, InvImplies, PTL

\* A read is given up as out of range only where an offset beyond 15 bits is needed
\* for a byte that is wanted, for every size of chunk, of file and of object.
THEOREM RefusesRightly == Spec => []RefusesOnlyBeyondReach
<1>1. IInv => RefusesOnlyBeyondReach
  BY DEF IInv
<1>. QED  BY <1>1, Invariant, PTL

\* A read takes no more commands than the chunks of what it is for and one to find the
\* end, whatever the sizes and however the card marks the end: the loops run no longer.
THEOREM ReadsFew == Spec => []ReadsAreFew
<1>1. Few => ReadsAreFew
  BY DEF Few
<1>. QED  BY <1>1, Invariant, PTL

\* On cards that do not mark the end with 6282, a read that succeeds has exactly the
\* bytes it is for, for every size of chunk and object and every file within reach of
\* an offset of 15 bits.
THEOREM ReadsRightly ==
  ASSUME "6282" \notin Ends
  PROVE  Spec => []ReadsWhatIsThere
<1>1. IInv /\ Few => ReadsWhatIsThere
  BY InvImplies DEF IInv, Typed
<1>. QED  BY <1>1, Invariant, PTL
=============================================================================
