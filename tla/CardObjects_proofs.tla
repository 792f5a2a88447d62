------------------------- MODULE CardObjects_proofs -------------------------
(***************************************************************************)
(* That what a master file returns is what the card holds: the certificate *)
(* chain, the record files, the contact ATR (CardObjects); that a chain    *)
(* which verify_chain accepts certifies true keys (CvChain); and both of   *)
(* the chain that is read and then verified (CardChain).                   *)
(***************************************************************************)
EXTENDS CardChain, Induction, SequenceTheorems, FiniteSetTheorems

-----------------------------------------------------------------------------
(* Checksums *)

LEMMA XorFacts ==
  /\ \A x : Xor(x, x) = {}
  /\ \A x, y : Xor(x, y) = {} => x = y
  /\ \A x, y, c : Xor(Xor(x, c), Xor(y, c)) = Xor(x, y)
  /\ \A x, b, c : Xor(Xor(x, b), Xor(x, c)) = Xor(b, c)
  /\ \A x, y \in Byte : Xor(x, y) \in Byte
  /\ {} \in Byte
<1>1. \A x : Xor(x, x) = {}
  BY DEF Xor
<1>2. \A x, y : Xor(x, y) = {} => x = y
  BY DEF Xor
<1>3. \A x, y, c : Xor(Xor(x, c), Xor(y, c)) = Xor(x, y)
  BY DEF Xor
<1>4. \A x, b, c : Xor(Xor(x, b), Xor(x, c)) = Xor(b, c)
  BY DEF Xor
<1>5. \A x, y \in Byte : Xor(x, y) \in Byte
  BY DEF Xor, Byte
<1>6. {} \in Byte
  BY DEF Byte
<1>. QED  BY <1>1, <1>2, <1>3, <1>4, <1>5, <1>6

Xors(f, s, n) == f[0] = {} /\ \A i \in 1..n : f[i] = Xor(f[i - 1], s[i])

LEMMA XorIs ==
  ASSUME NEW s \in Seq(Byte)
  PROVE  \E f : Xors(f, s, Len(s)) /\ XorOf(s) = f[Len(s)]
<1>. DEFINE n == Len(s)
           Along(f) == [i \in 0..n |-> IF i = 0 THEN {} ELSE Xor(f[i - 1], s[i])]
           g == [i \in 1..n |-> [x \in Byte |-> Xor(x, s[i])]]
           upTo == CHOOSE f : f = Along(f)
<1>1. n \in Nat /\ \A i \in 1..n : s[i] \in Byte
  OBVIOUS
<1>2. XorOf(s) = upTo[n]
  BY DEF XorOf
<1>. HIDE DEF n
<1>3. \A i \in 1..n : g[i] \in [Byte -> Byte] /\ \A x \in Byte : g[i][x] = Xor(x, s[i])
  BY <1>1, XorFacts
<1>. HIDE DEF g
<1>4. \E f : Goes(f, Byte, {}, g, n)
  BY <1>1, <1>3, XorFacts, GoesOnce, Zenon
<1>5. PICK f : f = Along(f)
  <2>1. PICK f : Goes(f, Byte, {}, g, n)
    BY <1>4
  <2>2. f \in [0..n -> Byte] /\ f[0] = {} /\ \A i \in 1..n : f[i] = Xor(f[i - 1], s[i])
    <3>1. \A i \in 1..n : f[i - 1] \in Byte
      BY <1>1, <2>1 DEF Goes
    <3>. QED  BY <1>3, <2>1, <3>1 DEF Goes
  <2>3. \A i \in 0..n : f[i] = Along(f)[i]
    BY <1>1, <2>2
  <2>4. f = Along(f)
    BY <2>2, <2>3
  <2>. QED  BY <2>4
<1>6. upTo = Along(upTo)
  BY <1>5
<1>. HIDE DEF upTo
<1>7. Xors(upTo, s, n)
  <2>1. upTo[0] = {}
    <3>1. 0 \in 0..n
      BY <1>1
    <3>. QED  BY <1>6, <3>1
  <2>2. ASSUME NEW i \in 1..n PROVE upTo[i] = Xor(upTo[i - 1], s[i])
    <3>1. i \in 0..n /\ i # 0
      BY <1>1
    <3>. QED  BY <1>6, <3>1
  <2>. QED  BY <2>1, <2>2 DEF Xors
<1>. QED  BY <1>2, <1>7 DEF n

\* Of an ATR that passes the check no byte is damaged
LEMMA Undamaged ==
  ASSUME NEW a \in Seq(Byte), XorOf(a) = {}, NEW s \in LeftOf(a), s # <<>>,
         Last(s) = XorOf(Front(s))
  PROVE  s = a
<1>1. PICK p \in 1..Len(a), b \in Byte : s = [a EXCEPT ![p] = b]
  BY DEF LeftOf
<1>. DEFINE n == Len(a)
           u == Front(s)
<1>2. n \in Nat /\ n >= 1 /\ \A i \in 1..n : a[i] \in Byte
  BY <1>1
<1>3. s \in Seq(Byte) /\ Len(s) = n /\ s[p] = b /\ \A i \in 1..n : i # p => s[i] = a[i]
  BY <1>1
<1>4. u \in Seq(Byte) /\ Len(u) = n - 1 /\ \A i \in 1..n - 1 : u[i] = s[i]
  <2>1. \A i \in 1..n - 1 : s[i] \in Byte
    BY <1>3
  <2>2. u = SubSeq(s, 1, n - 1)
    BY <1>3 DEF Front
  <2>3. /\ u \in Seq(Byte)
        /\ Len(u) = (IF 1 <= n - 1 THEN n - 1 - 1 + 1 ELSE 0)
        /\ \A i \in 1..n - 1 - 1 + 1 : u[i] = s[1 + i - 1]
    BY <1>2, <2>1, <2>2, SubSeqProperties
  <2>. HIDE DEF u
  <2>4. Len(u) = n - 1
    <3>. HIDE DEF n
    <3>1. CASE n = 1
      BY <2>3, <3>1
    <3>2. CASE n # 1
      <4>1. 1 <= n - 1 /\ n - 1 - 1 + 1 = n - 1
        BY <1>2, <3>2
      <4>. QED  BY <2>3, <4>1
    <3>. QED  BY <3>1, <3>2
  <2>5. ASSUME NEW i \in 1..n - 1 PROVE u[i] = s[i]
    <3>1. i \in 1..n - 1 - 1 + 1 /\ 1 + i - 1 = i
      BY <1>2
    <3>. QED  BY <2>3, <3>1
  <2>. QED  BY <2>3, <2>4, <2>5
<1>5. Last(s) = s[n]
  BY <1>3 DEF Last
<1>6. PICK f : Xors(f, s, n)
  BY <1>3, XorIs
<1>7. PICK h : Xors(h, a, n) /\ h[n] = {}
  BY XorIs
<1>. HIDE DEF u
<1>8. PICK e : Xors(e, u, n - 1) /\ XorOf(u) = e[n - 1]
  BY <1>4, XorIs
<1>. HIDE DEF n
<1>9. e[n - 1] = f[n - 1]
  <2>. DEFINE S == {i \in 0..n - 1 : e[i] = f[i]}
  <2>1. 0 \in S /\ n - 1 \in Nat
    <3>1. 0 \in 0..n - 1 /\ n - 1 \in Nat
      BY <1>2
    <3>2. e[0] = f[0]
      BY <1>6, <1>8 DEF Xors
    <3>. QED  BY <3>1, <3>2
  <2>2. \A i \in 1..n - 1 : i - 1 \in S => i \in S
    BY <1>2, <1>4, <1>6, <1>8 DEF Xors
  <2>. HIDE DEF S
  <2>3. \A i \in 0..n - 1 : i \in S
    BY <2>1, <2>2, Induct, Zenon
  <2>. QED  BY <2>1, <2>3 DEF S
<1>10. f[n] = {}
  <2>1. f[n] = Xor(f[n - 1], s[n])
    BY <1>2, <1>6 DEF Xors
  <2>2. s[n] = f[n - 1]
    BY <1>5, <1>8, <1>9 DEF u
  <2>. QED  BY <2>1, <2>2, XorFacts
<1>11. Xor(f[n], h[n]) = Xor(b, a[p])
  <2>. DEFINE S == {i \in 0..n : Xor(f[i], h[i]) = IF i < p THEN {} ELSE Xor(b, a[p])}
  <2>1. p \in 1..n
    BY DEF n
  <2>2. 0 \in S
    <3>1. 0 \in 0..n /\ 0 < p
      BY <1>2, <2>1
    <3>2. Xor(f[0], h[0]) = {}
      BY <1>6, <1>7, XorFacts DEF Xors
    <3>. QED  BY <3>1, <3>2
  <2>3. ASSUME NEW i \in 1..n, i - 1 \in S PROVE i \in S
    <3>1. f[i] = Xor(f[i - 1], s[i]) /\ h[i] = Xor(h[i - 1], a[i])
      BY <1>6, <1>7 DEF Xors
    <3>2. i - 1 < p <=> i <= p
      BY <2>1
    <3>3. Xor(f[i - 1], h[i - 1]) = IF i <= p THEN {} ELSE Xor(b, a[p])
      BY <2>3, <3>2
    <3>4. CASE i # p
      <4>1. Xor(f[i], h[i]) = Xor(f[i - 1], h[i - 1])
        BY <1>3, <3>1, <3>4, XorFacts
      <4>2. i < p <=> i <= p
        BY <2>1, <3>4
      <4>. QED  BY <3>3, <4>1, <4>2
    <3>5. CASE i = p
      <4>1. f[i - 1] = h[i - 1]
        BY <2>1, <3>3, <3>5, XorFacts
      <4>2. Xor(f[i], h[i]) = Xor(b, a[p])
        BY <1>3, <3>1, <3>5, <4>1, XorFacts
      <4>. QED  BY <2>1, <3>5, <4>2
    <3>. QED  BY <3>4, <3>5
  <2>. HIDE DEF S
  <2>4. \A i \in 0..n : i \in S
    BY <1>2, <2>2, <2>3, Induct, Zenon
  <2>. QED  BY <1>2, <2>1, <2>4 DEF S
<1>12. b = a[p]
  BY <1>7, <1>10, <1>11, XorFacts
<1>. QED  BY <1>1, <1>12
-----------------------------------------------------------------------------
(* Records read one at a time *)

\* f tells the first i records of a file put together
Joined(f, file, n) ==
  f[0] = <<>> /\ \A i \in 1..n : f[i] = f[i - 1] \o file[i]

LEMMA FlattenIs ==
  ASSUME NEW S, NEW file \in Seq(Seq(S)), NEW f, Joined(f, file, Len(file))
  PROVE  FlattenSeq(file) = f[Len(file)]
<1>. DEFINE n == Len(file)
           Along(e) == [i \in 1..n |-> IF i = 1 THEN file[i] ELSE e[i - 1] \o file[i]]
           flatten == CHOOSE e : e = Along(e)
<1>1. n \in Nat /\ \A i \in 1..n : file[i] \in Seq(S)
  OBVIOUS
<1>2. FlattenSeq(file) = IF n = 0 THEN file ELSE flatten[n]
  BY DEF FlattenSeq
<1>3. n = 0 => file = <<>>
  OBVIOUS
<1>. HIDE DEF n
<1>4. f[0] = <<>> /\ \A i \in 1..n : f[i] = f[i - 1] \o file[i]
  BY DEF Joined, n
<1>5. 1 \in 1..n => f[1] = file[1]
  <2>. SUFFICES ASSUME 1 \in 1..n PROVE f[1] = file[1]
    OBVIOUS
  <2>1. f[1] = f[0] \o file[1] /\ file[1] \in Seq(S)
    <3>1. f[1] = f[1 - 1] \o file[1] /\ file[1] \in Seq(S)
      BY <1>1, <1>4, Zenon
    <3>2. 1 - 1 = 0
      OBVIOUS
    <3>. QED  BY <3>1, <3>2, Zenon
  <2>2. <<>> \o file[1] = file[1]
    BY <2>1, ConcatEmptySeq, Zenon
  <2>. QED  BY <1>4, <2>1, <2>2
<1>6. \E e : e = Along(e)
  <2>. DEFINE e == [i \in 1..n |-> f[i]]
  <2>1. ASSUME NEW i \in 1..n PROVE e[i] = Along(e)[i]
    <3>1. CASE i = 1
      BY <1>5, <3>1
    <3>2. CASE i # 1
      <4>1. i - 1 \in 1..n /\ e[i - 1] = f[i - 1] /\ e[i] = f[i]
        BY <1>1, <3>2
      <4>2. f[i] = f[i - 1] \o file[i]
        BY <1>4
      <4>. QED  BY <3>2, <4>1, <4>2
    <3>. QED  BY <3>1, <3>2
  <2>2. e = [i \in 1..n |-> e[i]] /\ Along(e) = [i \in 1..n |-> Along(e)[i]]
    OBVIOUS
  <2>. HIDE DEF e
  <2>3. e = Along(e)
    BY <2>1, <2>2, Zenon
  <2>. QED  BY <2>3
<1>7. flatten = Along(flatten)
  BY <1>6
<1>. HIDE DEF flatten
<1>8. \A i \in 0..n : i = 0 \/ flatten[i] = f[i]
  <2>. DEFINE T == {i \in 0..n : i = 0 \/ flatten[i] = f[i]}
  <2>1. 0 \in T
    BY <1>1
  <2>2. ASSUME NEW i \in 1..n, i - 1 \in T PROVE i \in T
    <3>1. i \in 0..n
      BY <1>1
    <3>2. flatten[i] = IF i = 1 THEN file[i] ELSE flatten[i - 1] \o file[i]
      BY <1>7
    <3>3. CASE i = 1
      BY <1>5, <3>1, <3>2, <3>3
    <3>4. CASE i # 1
      <4>1. flatten[i - 1] = f[i - 1]
        BY <2>2, <3>4
      <4>2. f[i] = f[i - 1] \o file[i]
        BY <1>4
      <4>. QED  BY <3>1, <3>2, <3>4, <4>1, <4>2
    <3>. QED  BY <3>3, <3>4
  <2>. HIDE DEF T
  <2>3. \A i \in 0..n : i \in T
    BY <1>1, <2>1, <2>2, Induct, Zenon
  <2>. QED  BY <2>3 DEF T
<1>9. FlattenSeq(file) = f[n]
  <2>1. CASE n = 0
    BY <1>2, <1>3, <1>4, <2>1
  <2>2. CASE n # 0
    <3>1. n \in 0..n
      BY <1>1
    <3>. QED  BY <1>2, <1>8, <2>2, <3>1
  <2>. QED  BY <2>1, <2>2
<1>. QED  BY <1>9 DEF n

LEMMA JoinedExists ==
  ASSUME NEW S, NEW file \in Seq(Seq(S))
  PROVE  \E f : Joined(f, file, Len(file)) /\ \A i \in 0..Len(file) : f[i] \in Seq(S)
<1>. DEFINE n == Len(file)
           X == Seq(S)
           g == [i \in 1..n |-> [x \in X |-> x \o file[i]]]
<1>1. n \in Nat /\ \A i \in 1..n : file[i] \in X
  OBVIOUS
<1>2. <<>> \in X /\ \A x, y \in X : x \o y \in X
  BY ConcatProperties
<1>. HIDE DEF n, X
<1>3. \A i \in 1..n : g[i] \in [X -> X] /\ \A x \in X : g[i][x] = x \o file[i]
  BY <1>1, <1>2
<1>. HIDE DEF g
<1>4. \E f : Goes(f, X, <<>>, g, n)
  BY <1>1, <1>2, <1>3, GoesOnce, Zenon
<1>5. PICK f : Goes(f, X, <<>>, g, n)
  BY <1>4
<1>6. f[0] = <<>> /\ \A i \in 0..n : f[i] \in X
  BY <1>5 DEF Goes
<1>7. ASSUME NEW i \in 1..n PROVE f[i] = f[i - 1] \o file[i]
  <2>1. i - 1 \in 0..n
    BY <1>1
  <2>2. f[i - 1] \in X
    BY <1>6, <2>1
  <2>3. f[i] = g[i][f[i - 1]]
    BY <1>5 DEF Goes
  <2>. QED  BY <1>3, <2>2, <2>3
<1>8. Joined(f, file, n)
  BY <1>6, <1>7 DEF Joined
<1>. QED  BY <1>6, <1>8 DEF n, X

\* What the first n records of a file hold
HeldBy(file, n) == FlattenSeq(SubSeq(file, 1, n))

LEMMA HeldByUpTo ==
  ASSUME NEW S, NEW file \in Seq(Seq(S)), NEW f, Joined(f, file, Len(file)),
         NEW n \in 0..Len(file)
  PROVE  HeldBy(file, n) = f[n]
<1>. DEFINE begin == SubSeq(file, 1, n)
<1>1. \A i \in 1..n : file[i] \in Seq(S)
  OBVIOUS
<1>2. /\ begin \in Seq(Seq(S))
      /\ Len(begin) = (IF 1 <= n THEN n - 1 + 1 ELSE 0)
      /\ \A i \in 1..n - 1 + 1 : begin[i] = file[1 + i - 1]
  BY <1>1, SubSeqProperties
<1>. HIDE DEF begin
<1>3. Len(begin) = n
  BY <1>2
<1>4. ASSUME NEW i \in 1..n PROVE begin[i] = file[i]
  <2>1. i \in 1..n - 1 + 1 /\ 1 + i - 1 = i
    OBVIOUS
  <2>. QED  BY <1>2, <2>1
<1>5. Joined(f, begin, Len(begin))
  <2>1. \A i \in 1..n : i \in 1..Len(file)
    OBVIOUS
  <2>. QED  BY <1>3, <1>4, <2>1 DEF Joined
<1>6. FlattenSeq(begin) = f[Len(begin)]
  BY <1>2, <1>5, FlattenIs, Zenon
<1>. QED  BY <1>3, <1>6 DEF HeldBy, begin

LEMMA HeldByIs ==
  ASSUME NEW S, NEW file \in Seq(Seq(S))
  PROVE  /\ HeldBy(file, 0) = <<>>
         /\ HeldBy(file, Len(file)) = FlattenSeq(file)
         /\ \A n \in 0..Len(file) : HeldBy(file, n) \in Seq(S)
         /\ \A n \in 1..Len(file) : HeldBy(file, n) = HeldBy(file, n - 1) \o file[n]
<1>1. PICK f : Joined(f, file, Len(file)) /\ \A i \in 0..Len(file) : f[i] \in Seq(S)
  BY JoinedExists, Zenon
<1>2. \A n \in 0..Len(file) : HeldBy(file, n) = f[n]
  BY <1>1, HeldByUpTo, Zenon
<1>3. FlattenSeq(file) = f[Len(file)]
  BY <1>1, FlattenIs, Zenon
<1>. DEFINE N == Len(file)
<1>4. N \in Nat
  OBVIOUS
<1>5. f[0] = <<>> /\ \A n \in 1..N : f[n] = f[n - 1] \o file[n]
  BY <1>1 DEF Joined
<1>. HIDE DEF N
<1>6. 0 \in 0..N /\ N \in 0..N /\ \A n \in 1..N : n \in 0..N /\ n - 1 \in 0..N
  BY <1>4
<1>7. HeldBy(file, 0) = <<>> /\ HeldBy(file, N) = FlattenSeq(file)
  BY <1>2, <1>3, <1>5, <1>6 DEF N
<1>8. \A n \in 0..N : HeldBy(file, n) \in Seq(S)
  BY <1>1, <1>2 DEF N
<1>9. ASSUME NEW n \in 1..N PROVE HeldBy(file, n) = HeldBy(file, n - 1) \o file[n]
  <2>1. HeldBy(file, n) = f[n] /\ HeldBy(file, n - 1) = f[n - 1]
    BY <1>2, <1>6 DEF N
  <2>. QED  BY <1>5, <2>1
<1>. QED  BY <1>7, <1>8, <1>9 DEF N
-----------------------------------------------------------------------------
(* Record files *)

Value == Seq(0..255)

LEMMA ItemsAre ==
  ASSUME NEW records \in Seq(RecordObject)
  PROVE  /\ Items(records) \in Seq(RecordObject)
         /\ \A i \in 1..Len(Items(records)) : Items(records)[i].value \in Value
<1>. DEFINE stops == {i \in 1..Len(records) : records[i].tag \in {"FF", "cut"}}
            items == Items(records)
<1>1. items \in Seq(RecordObject)
  <2>1. CASE stops = {}
    BY <2>1 DEF Items
  <2>2. CASE stops # {}
    <3>1. Min(stops) \in stops
      <4>1. stops \subseteq Nat
        OBVIOUS
      <4>. QED  BY <2>2, <4>1, Least
    <3>2. items = SubSeq(records, 1, Min(stops) - 1)
      BY <2>2 DEF Items
    <3>3. PICK m \in 1..Len(records) : items = SubSeq(records, 1, m - 1)
      BY <3>1, <3>2
    <3>4. \A i \in 1..m - 1 : records[i] \in RecordObject
      OBVIOUS
    <3>. QED  BY <3>3, <3>4, SubSeqProperties
  <2>. QED  BY <2>1, <2>2
<1>. HIDE DEF items
<1>2. \A i \in 1..Len(items) : items[i] \in RecordObject
  BY <1>1
<1>3. \A o \in RecordObject : o.value \in Value
  BY DEF RecordObject, Value
<1>. QED  BY <1>1, <1>2, <1>3 DEF items

\* A value found is that of the first object of the tag
LEMMA FindIs ==
  ASSUME NEW records \in Seq(RecordObject), NEW tag
  PROVE  IF Tagged(Items(records), tag) = {} THEN Find(records, tag) = Missing
         ELSE Find(records, tag) # Missing /\ IsFirst(Items(records), tag, Find(records, tag))
<1>. DEFINE items == Items(records)
            hits == Tagged(items, tag)
<1>1. Find(records, tag) = IF hits = {} THEN Missing ELSE items[Min(hits)].value
  BY DEF Find
<1>2. ASSUME hits # {}
      PROVE  Find(records, tag) # Missing /\ IsFirst(items, tag, Find(records, tag))
  <2>1. hits \subseteq Nat /\ hits \subseteq 1..Len(items)
    BY DEF Tagged
  <2>2. Min(hits) \in hits /\ \A j \in hits : Min(hits) <= j
    BY <1>2, <2>1, Least
  <2>3. PICK i \in hits : Find(records, tag) = items[i].value /\ \A j \in hits : i <= j
    BY <1>1, <1>2, <2>2
  <2>4. items[i].value \in Value
    BY <2>1, ItemsAre
  <2>5. Missing \notin Value
    <3>. SUFFICES ASSUME Missing \in Value PROVE FALSE
      OBVIOUS
    <3>1. Missing[1] = -1 /\ 1 \in DOMAIN Missing
      BY DEF Missing
    <3>2. ASSUME NEW T, NEW v \in Seq(T), NEW k \in DOMAIN v PROVE v[k] \in T
      OBVIOUS
    <3>3. Missing[1] \in 0..255
      BY <3>1, <3>2, Zenon DEF Value
    <3>. QED  BY <3>1, <3>3
  <2>. QED  BY <2>3, <2>4, <2>5 DEF IsFirst
<1>. QED  BY <1>1, <1>2

\* How the count of a tag goes on
LEMMA CountIs ==
  ASSUME NEW items, NEW tag
  PROVE  /\ CountUpTo(items, tag, 0) = 0
         /\ \A n \in Nat : CountUpTo(items, tag, n) \in Nat
         /\ \A n \in Nat \ {0} :
              CountUpTo(items, tag, n) = CountUpTo(items, tag, n - 1)
                                           + (IF items[n].tag = tag THEN 1 ELSE 0)
<1>. DEFINE S(n) == {i \in 1..n : items[i].tag = tag}
<1>1. S(0) = {}
  OBVIOUS
<1>2. CountUpTo(items, tag, 0) = 0
  BY <1>1, FS_EmptySet DEF CountUpTo
<1>3. ASSUME NEW n \in Nat PROVE IsFiniteSet(S(n)) /\ Cardinality(S(n)) \in Nat
  <2>1. IsFiniteSet(1..n)
    BY FS_Interval
  <2>2. IsFiniteSet(S(n))
    BY <2>1, FS_Subset
  <2>. QED  BY <2>2, FS_CardinalityType
<1>4. ASSUME NEW n \in Nat \ {0}
      PROVE  CountUpTo(items, tag, n) = CountUpTo(items, tag, n - 1)
                                          + (IF items[n].tag = tag THEN 1 ELSE 0)
  <2>1. n - 1 \in Nat /\ n \notin S(n - 1)
    OBVIOUS
  <2>2. CountUpTo(items, tag, n) = Cardinality(S(n))
        /\ CountUpTo(items, tag, n - 1) = Cardinality(S(n - 1))
    BY DEF CountUpTo
  <2>3. CASE items[n].tag = tag
    <3>1. S(n) = S(n - 1) \cup {n}
      BY <2>3
    <3>2. Cardinality(S(n - 1) \cup {n}) = Cardinality(S(n - 1)) + 1
      BY <1>3, <2>1, FS_AddElement
    <3>. HIDE DEF S
    <3>. QED  BY <2>2, <2>3, <3>1, <3>2
  <2>4. CASE items[n].tag # tag
    <3>1. S(n) = S(n - 1)
      BY <2>4
    <3>2. Cardinality(S(n - 1)) \in Nat
      BY <1>3, <2>1
    <3>. HIDE DEF S
    <3>. QED  BY <2>2, <2>4, <3>1, <3>2
  <2>. QED  BY <2>3, <2>4
<1>5. \A n \in Nat : CountUpTo(items, tag, n) \in Nat
  BY <1>3 DEF CountUpTo
<1>. QED  BY <1>2, <1>4, <1>5
Folders == [own : Value, children : Seq(Value)]
NoFolders == [own |-> <<>>, children |-> <<>>]

LEMMA FoldersAre ==
  ASSUME NEW items, Len(items) \in Nat, \A i \in 1..Len(items) : items[i].value \in Value
  PROVE  \E f : /\ FoldersIn(items) = f[Len(items)]
                /\ f[0] = NoFolders
                /\ \A i \in 0..Len(items) : f[i] \in Folders
                /\ \A i \in 1..Len(items) : f[i] = AddFolder(f[i - 1], items[i])
<1>. DEFINE n == Len(items)
           Along(f) == [i \in 0..n |-> IF i = 0 THEN [own |-> <<>>, children |-> <<>>]
                                      ELSE AddFolder(f[i - 1], items[i])]
           g == [i \in 1..n |-> [x \in Folders |-> AddFolder(x, items[i])]]
           upTo == CHOOSE f : f = Along(f)
<1>1. n \in Nat /\ \A i \in 1..n : items[i].value \in Value
  OBVIOUS
<1>2. FoldersIn(items) = upTo[n]
  BY DEF FoldersIn
<1>. HIDE DEF n
<1>3. NoFolders \in Folders
  BY DEF Folders, NoFolders, Value
<1>4. ASSUME NEW i \in 1..n, NEW x \in Folders PROVE AddFolder(x, items[i]) \in Folders
  <2>1. x = [own |-> x.own, children |-> x.children] /\ x.own \in Value
        /\ x.children \in Seq(Value)
    BY DEF Folders
  <2>2. items[i].value \in Value
    BY <1>1
  <2>3. CASE items[i].tag = "01"
    <3>1. AddFolder(x, items[i]) = [x EXCEPT !.own = items[i].value]
      BY <2>3 DEF AddFolder
    <3>. QED  BY <2>2, <3>1 DEF Folders
  <2>4. CASE items[i].tag = "02"
    <3>1. AddFolder(x, items[i]) = [x EXCEPT !.children = Append(@, items[i].value)]
      BY <2>4 DEF AddFolder
    <3>2. Append(x.children, items[i].value) \in Seq(Value)
      BY <2>1, <2>2, AppendProperties
    <3>. QED  BY <3>1, <3>2 DEF Folders
  <2>5. CASE items[i].tag \notin {"01", "02"}
    BY <2>5 DEF AddFolder
  <2>. QED  BY <2>3, <2>4, <2>5
<1>5. \A i \in 1..n : g[i] \in [Folders -> Folders]
                      /\ \A x \in Folders : g[i][x] = AddFolder(x, items[i])
  BY <1>4
<1>. HIDE DEF g
<1>6. \E f : Goes(f, Folders, NoFolders, g, n)
  BY <1>1, <1>3, <1>5, GoesOnce, Zenon
<1>7. PICK f : Goes(f, Folders, NoFolders, g, n)
  BY <1>6
<1>8. f \in [0..n -> Folders] /\ f[0] = NoFolders
  BY <1>7 DEF Goes
<1>9. \A i \in 1..n : i \in 0..n /\ i - 1 \in 0..n /\ i # 0
  BY <1>1
<1>10. \A i \in 1..n : f[i] = AddFolder(f[i - 1], items[i])
  BY <1>5, <1>7, <1>8, <1>9 DEF Goes
<1>11. f = Along(f)
  <2>1. ASSUME NEW i \in 0..n
        PROVE  f[i] = IF i = 0 THEN [own |-> <<>>, children |-> <<>>]
                      ELSE AddFolder(f[i - 1], items[i])
    <3>1. i = 0 \/ i \in 1..n
      BY <1>1
    <3>. QED  BY <1>8, <1>9, <1>10, <3>1 DEF NoFolders
  <2>. QED  BY <1>8, <2>1
<1>12. upTo = Along(upTo)
  BY <1>11
<1>. HIDE DEF upTo
<1>13. \A i \in 0..n : upTo[i] = f[i]
  <2>. DEFINE T == {i \in 0..n : upTo[i] = f[i]}
  <2>1. 0 \in T
    <3>1. 0 \in 0..n
      BY <1>1
    <3>2. upTo[0] = NoFolders
      BY <1>12, <3>1 DEF NoFolders
    <3>. QED  BY <1>8, <3>1, <3>2
  <2>2. ASSUME NEW i \in 1..n, i - 1 \in T PROVE i \in T
    <3>1. upTo[i] = AddFolder(upTo[i - 1], items[i])
      BY <1>9, <1>12
    <3>. QED  BY <1>9, <1>10, <2>2, <3>1
  <2>. HIDE DEF T
  <2>3. \A i \in 0..n : i \in T
    BY <1>1, <2>1, <2>2, Induct, Zenon
  <2>. QED  BY <2>3 DEF T
<1>14. FoldersIn(items) = f[n]
  <2>1. n \in 0..n
    BY <1>1
  <2>. QED  BY <1>2, <1>13, <2>1
<1>. QED  BY <1>8, <1>10, <1>14 DEF n

\* What the first n objects tell of folders
ChildrenUpTo(items, n, children) ==
  /\ Len(children) = CountUpTo(items, "02", n)
  /\ \A j \in 1..n : items[j].tag = "02" =>
       /\ CountUpTo(items, "02", j) \in 1..Len(children)
       /\ children[CountUpTo(items, "02", j)] = items[j].value

OwnUpTo(items, n, own) ==
  \/ own = <<>> /\ \A j \in 1..n : items[j].tag # "01"
  \/ \E j \in 1..n : /\ items[j].tag = "01" /\ items[j].value = own
                     /\ \A k \in 1..n : items[k].tag = "01" => k <= j

LEMMA ChildrenGoOn ==
  ASSUME NEW items, NEW n \in Nat \ {0}, NEW children \in Seq(Value),
         items[n].value \in Value, ChildrenUpTo(items, n - 1, children),
         NEW more, more = IF items[n].tag = "02" THEN Append(children, items[n].value)
                          ELSE children
  PROVE  ChildrenUpTo(items, n, more)
<1>. DEFINE count(j) == CountUpTo(items, "02", j)
           v == items[n].value
<1>1. count(n) \in Nat /\ count(n - 1) \in Nat
      /\ count(n) = count(n - 1) + (IF items[n].tag = "02" THEN 1 ELSE 0)
  <2>1. n - 1 \in Nat /\ n \in Nat
    OBVIOUS
  <2>. QED  BY <2>1, CountIs
<1>2. /\ Len(children) = count(n - 1)
      /\ \A j \in 1..n - 1 : items[j].tag = "02" =>
           count(j) \in 1..Len(children) /\ children[count(j)] = items[j].value
  BY DEF ChildrenUpTo
<1>3. \A j \in 1..n : j = n \/ j \in 1..n - 1
  OBVIOUS
<1>. HIDE DEF count
<1>4. CASE items[n].tag = "02"
  <2>1. more = Append(children, v)
    BY <1>4
  <2>2. Len(more) = Len(children) + 1 /\ more[Len(children) + 1] = v
        /\ \A k \in 1..Len(children) : more[k] = children[k]
    BY <2>1, AppendProperties
  <2>3. Len(children) \in Nat
    OBVIOUS
  <2>. HIDE DEF v
  <2>4. Len(more) = count(n)
    BY <1>1, <1>2, <1>4, <2>2
  <2>5. ASSUME NEW j \in 1..n, items[j].tag = "02"
        PROVE  count(j) \in 1..Len(more) /\ more[count(j)] = items[j].value
    <3>1. CASE j = n
      <4>1. count(j) = Len(children) + 1
        BY <1>1, <1>2, <1>4, <3>1
      <4>. QED  BY <2>2, <2>3, <3>1, <4>1 DEF v
    <3>2. CASE j \in 1..n - 1
      <4>1. count(j) \in 1..Len(children) /\ children[count(j)] = items[j].value
        BY <1>2, <2>5, <3>2
      <4>. QED  BY <2>2, <2>3, <4>1
    <3>. QED  BY <1>3, <3>1, <3>2
  <2>. QED  BY <2>4, <2>5 DEF ChildrenUpTo, count
<1>5. CASE items[n].tag # "02"
  <2>1. more = children /\ Len(more) = count(n)
    BY <1>1, <1>2, <1>5
  <2>2. ASSUME NEW j \in 1..n, items[j].tag = "02"
        PROVE  count(j) \in 1..Len(more) /\ more[count(j)] = items[j].value
    BY <1>2, <1>3, <1>5, <2>1, <2>2
  <2>. QED  BY <2>1, <2>2 DEF ChildrenUpTo, count
<1>. QED  BY <1>4, <1>5

LEMMA OwnGoesOn ==
  ASSUME NEW items, NEW n \in Nat \ {0}, NEW own, OwnUpTo(items, n - 1, own)
  PROVE  OwnUpTo(items, n, IF items[n].tag = "01" THEN items[n].value ELSE own)
<1>1. \A j \in 1..n : j = n \/ j \in 1..n - 1
  OBVIOUS
<1>2. CASE items[n].tag = "01"
  <2>1. n \in 1..n /\ \A k \in 1..n : k <= n
    OBVIOUS
  <2>. QED  BY <1>2, <2>1 DEF OwnUpTo
<1>3. CASE items[n].tag # "01"
  BY <1>1, <1>3 DEF OwnUpTo
<1>. QED  BY <1>2, <1>3

LEMMA FoldersTold ==
  ASSUME NEW items, Len(items) \in Nat, \A i \in 1..Len(items) : items[i].value \in Value
  PROVE  Told("folders", FoldersIn(items), items)
<1>. DEFINE n == Len(items)
<1>1. PICK f : /\ FoldersIn(items) = f[n]
               /\ f[0] = NoFolders
               /\ \A i \in 0..n : f[i] \in Folders
               /\ \A i \in 1..n : f[i] = AddFolder(f[i - 1], items[i])
  BY FoldersAre
<1>2. n \in Nat /\ \A i \in 1..n : items[i].value \in Value
  OBVIOUS
<1>. HIDE DEF n
<1>. DEFINE T == {i \in 0..n : /\ ChildrenUpTo(items, i, f[i].children)
                               /\ OwnUpTo(items, i, f[i].own)}
<1>3. 0 \in T
  <2>1. 0 \in 0..n /\ f[0].children = <<>> /\ f[0].own = <<>>
    BY <1>1, <1>2 DEF NoFolders
  <2>2. Len(<<>>) = CountUpTo(items, "02", 0)
    BY CountIs
  <2>3. ChildrenUpTo(items, 0, <<>>)
    BY <2>2 DEF ChildrenUpTo
  <2>4. OwnUpTo(items, 0, <<>>)
    BY DEF OwnUpTo
  <2>. QED  BY <2>1, <2>3, <2>4
<1>4. ASSUME NEW i \in 1..n, i - 1 \in T PROVE i \in T
  <2>1. i \in 0..n /\ i - 1 \in 0..n /\ i \in Nat \ {0}
    BY <1>2
  <2>. DEFINE x == f[i - 1]
             y == f[i]
             o == items[i]
  <2>2. x \in Folders /\ o.value \in Value /\ y = AddFolder(x, o)
    BY <1>1, <1>2, <2>1
  <2>3. ChildrenUpTo(items, i - 1, x.children) /\ OwnUpTo(items, i - 1, x.own)
    BY <1>4
  <2>. HIDE DEF x, y
  <2>4. x.children \in Seq(Value)
    BY <2>2 DEF Folders
  <2>5. /\ y.children = IF o.tag = "02" THEN Append(x.children, o.value) ELSE x.children
        /\ y.own = IF o.tag = "01" THEN o.value ELSE x.own
    <3>. HIDE DEF o
    <3>0. x = [own |-> x.own, children |-> x.children]
      BY <2>2 DEF Folders
    <3>1. CASE o.tag = "01"
      <4>1. y = [x EXCEPT !.own = o.value]
        BY <2>2, <3>1 DEF AddFolder
      <4>. QED  BY <3>0, <3>1, <4>1
    <3>2. CASE o.tag = "02"
      <4>1. y = [x EXCEPT !.children = Append(@, o.value)]
        BY <2>2, <3>2 DEF AddFolder
      <4>. QED  BY <3>0, <3>2, <4>1
    <3>3. CASE o.tag \notin {"01", "02"}
      BY <2>2, <3>3 DEF AddFolder
    <3>. QED  BY <3>1, <3>2, <3>3
  <2>6. ChildrenUpTo(items, i, y.children)
    BY <2>1, <2>2, <2>3, <2>4, <2>5, ChildrenGoOn, Zenon
  <2>7. OwnUpTo(items, i, y.own)
    <3>1. OwnUpTo(items, i, IF items[i].tag = "01" THEN items[i].value ELSE x.own)
      BY <2>1, <2>3, OwnGoesOn, Zenon
    <3>. QED  BY <2>5, <3>1, Zenon
  <2>. QED  BY <2>1, <2>6, <2>7 DEF y
<1>. HIDE DEF T
<1>5. \A i \in 0..n : i \in T
  BY <1>2, <1>3, <1>4, Induct, Zenon
<1>6. n \in 0..n
  BY <1>2
<1>. DEFINE told == FoldersIn(items)
<1>7. ChildrenUpTo(items, n, told.children) /\ OwnUpTo(items, n, told.own)
  BY <1>1, <1>5, <1>6 DEF T
<1>. HIDE DEF told
<1>8. AreValues(items, "02", told.children)
  BY <1>7 DEF ChildrenUpTo, AreValues, Tagged, n
<1>9. IF Tagged(items, "01") = {} THEN told.own = <<>> ELSE IsLast(items, "01", told.own)
  <2>1. CASE told.own = <<>> /\ \A j \in 1..n : items[j].tag # "01"
    BY <2>1 DEF Tagged, n
  <2>2. ASSUME NEW j \in 1..n, items[j].tag = "01", items[j].value = told.own,
               \A k \in 1..n : items[k].tag = "01" => k <= j
        PROVE  Tagged(items, "01") # {} /\ IsLast(items, "01", told.own)
    BY <2>2 DEF Tagged, IsLast, n
  <2>. QED  BY <1>7, <2>1, <2>2 DEF OwnUpTo
<1>. QED  BY <1>8, <1>9 DEF Told, told

\* What a parser hands out of the objects it is given
LEMMA FileTold ==
  ASSUME NEW records \in Seq(RecordObject), ParseFile(records), res' = "ok",
         op \in {"identifier", "folders", "manufacturer"}
  PROVE  Told(op, out', Items(records))
<1>. DEFINE items == Items(records)
<1>1. ASSUME NEW tag, Find(records, tag) # Missing PROVE IsFirst(items, tag, Find(records, tag))
  BY <1>1, FindIs
<1>2. ASSUME NEW tag, Find(records, tag) = Missing PROVE Tagged(items, tag) = {}
  BY <1>2, FindIs
<1>3. CASE op = "identifier"
  <2>1. /\ Find(records, "00") # Missing
        /\ out'.manufacturer = Find(records, "00") /\ out'.proprietary = Find(records, "02")
    BY <1>3 DEF ParseFile, ParseIdentifier, Return
  <2>2. IF Tagged(items, "02") = {} THEN Find(records, "02") = Missing
        ELSE IsFirst(items, "02", Find(records, "02"))
    BY FindIs
  <2>. QED  BY <1>1, <1>3, <2>1, <2>2 DEF Told
<1>4. CASE op = "folders"
  <2>1. out' = FoldersIn(items)
    BY <1>4 DEF ParseFile, ParseFolders, Return
  <2>2. Len(items) \in Nat /\ \A i \in 1..Len(items) : items[i].value \in Value
    BY ItemsAre
  <2>. QED  BY <1>4, <2>1, <2>2, FoldersTold
<1>5. CASE op = "manufacturer"
  <2>1. /\ Find(records, "45") # Missing /\ Find(records, "46") # Missing
        /\ out'.embedder = Find(records, "45") /\ out'.ic = Find(records, "46")
    BY <1>5 DEF ParseFile, ParseManufacturer, Return
  <2>. QED  BY <1>1, <1>5, <2>1 DEF Told
<1>. QED  BY <1>3, <1>4, <1>5
-----------------------------------------------------------------------------
(* MasterFile *)

USE DEF AtManager

\* A call goes by the commands of its own operation
Course ==
  /\ at = "idle" => op = "none" /\ res = "none"
  /\ at # "idle" => op \in Ops /\ op \in card.ops
  /\ at \in {"idle", "open"} => nth = 1 /\ out = <<>>
  /\ at = "open" => op # "atr" /\ opened = "select"
  /\ at \in {"file", "multi", "single"} => op \notin {"chain", "atr"}
  /\ at \in {"short", "long"} => op \in {"chain", "atr"}

\* Where chain and files are read
Manager ==
  op # "atr" /\ AtManager /\ at \in {"short", "long", "file", "multi", "single"} =>
    df = "isd"

\* What a chain holds before its nth object is read
Gathered ==
  op = "chain" /\ AtManager /\ at \in {"short", "long"} =>
    /\ nth = 1 => out = <<>>
    /\ nth = 2 => /\ card.objects["isd"]["F8"].size # "absent"
                  /\ \E c \in ParseCertificate(card.objects["isd"]["F8"].content) : out = <<c>>
    /\ at = "long" => Object.size # "absent"

\* What a file read record by record has told before its nth
Reading ==
  /\ at \in {"file", "multi"} => out = <<>>
  /\ at \in {"multi", "single"} => op \in DOMAIN card.files[df]
  /\ at = "single" => /\ ~card.multi
                     /\ nth - 1 <= Len(File)
                     /\ out = HeldBy(File, nth - 1)
                     /\ \A i \in 1..nth - 1 : File[i] # <<>>

Promised == ChainIsComplete /\ AtrIsUndamaged /\ FilesAreToldAsWritten

ObjectsInv ==
  card \in Card /\ ObjectsTypeOK /\ Course /\ Manager /\ Gathered /\ Reading /\ Promised

\* Nothing is promised of a call under way
LEMMA NoneYet == res = "none" => Promised
BY DEF Promised, ChainIsComplete, AtrIsUndamaged, FilesAreToldAsWritten

\* There is one certificate in an object, or none
LEMMA OneCertificate ==
  ASSUME NEW raw, NEW c \in ParseCertificate(raw)
  PROVE  {c} = ParseCertificate(raw)
BY DEF ParseCertificate

LEMMA ObjectsInitInv ==
  ASSUME ObjectsInit
  PROVE  ObjectsInv
BY RecordAssumption, NoneYet
   DEF ObjectsInit, ObjectsInv, ObjectsTypeOK, Course, Manager, Gathered, Reading, Ops

\* A call that ends without what it is for leaves the rest in order
LEMMA Ends ==
  ASSUME ObjectsInv, at # "idle",
         NEW r \in {"ok", "malformed", "status", "error"}, NEW value,
         Return(r, value),
         nth' \in 1..MaxRecord + 1, df' \in Df,
         UNCHANGED <<card, opened, op>>,
         r = "ok" => Promised'
  PROVE  ObjectsInv'
<1>1. at' = "done" /\ res' = r
  BY DEF Return
<1>2. Promised'
  BY <1>1 DEF Promised, ChainIsComplete, AtrIsUndamaged, FilesAreToldAsWritten
<1>. QED  BY <1>1, <1>2 DEF ObjectsInv, ObjectsTypeOK, Course, Manager, Gathered, Reading, Ops

LEMMA CallInv ==
  ASSUME ObjectsInv, Call
  PROVE  ObjectsInv'
<1>1. op' \in Ops
  BY CardAssumption DEF ObjectsInv, Call
<1>2. at' \in {"short", "open", "file"} /\ res' = "none" /\ nth' = 1 /\ out' = <<>>
  BY <1>1 DEF ObjectsInv, Call, GoTo, Course, Ops, ObjectsTypeOK
<1>3. opened = "select" /\ op' = "chain" => at' = "open"
  BY <1>1 DEF Call, GoTo, Ops
<1>4. /\ at' = "short" => op' \in {"chain", "atr"}
      /\ at' = "open" => op' # "atr" /\ opened = "select"
      /\ at' = "file" => op' \notin {"chain", "atr"}
  BY <1>1 DEF ObjectsInv, Call, GoTo, Ops, ObjectsTypeOK
<1>5. UNCHANGED <<card, df, opened>>
  BY DEF Call
<1>6. Promised'
  BY <1>2 DEF Promised, ChainIsComplete, AtrIsUndamaged, FilesAreToldAsWritten
<1>7. op' \in card.ops
  BY DEF Call
<1>8. at # "done" /\ opened \in {"select", "new"} /\ df \in Df /\ card \in Card /\ 1 \in 1..MaxRecord + 1
  BY RecordAssumption DEF ObjectsInv, ObjectsTypeOK, Call
<1>9. ObjectsTypeOK'
  <2>1. nth' \in 1..MaxRecord + 1 /\ nth' \in 1..2
    BY <1>2, <1>8
  <2>. QED  BY <1>1, <1>2, <1>5, <1>8, <2>1 DEF ObjectsTypeOK
<1>10. Course'
  BY <1>1, <1>2, <1>4, <1>5, <1>7 DEF Course
<1>11. Manager' /\ Gathered' /\ Reading'
  <2>1. Manager'
    BY <1>1, <1>2, <1>3, <1>4, <1>5, <1>8 DEF Manager, ObjectsInv, Call, GoTo, Ops
  <2>2. Gathered'
    BY <1>2 DEF Gathered
  <2>3. Reading'
    BY <1>2 DEF Reading
  <2>. QED  BY <2>1, <2>2, <2>3
<1>. QED  BY <1>5, <1>6, <1>8, <1>9, <1>10, <1>11 DEF ObjectsInv

LEMMA OpenInv ==
  ASSUME ObjectsInv, Open
  PROVE  ObjectsInv'
<1>1. at' \in {"short", "file"} /\ res' = "none" /\ df' = "isd" /\ nth' = 1 /\ out' = <<>>
      /\ UNCHANGED <<card, opened, op>>
  BY DEF ObjectsInv, Open, GoTo, Course, ObjectsTypeOK
<1>2. (at' = "short" <=> op = "chain") /\ op # "atr" /\ op \in Ops /\ op \in card.ops
  BY DEF ObjectsInv, Open, GoTo, Course
<1>3. Promised'
  BY <1>1 DEF Promised, ChainIsComplete, AtrIsUndamaged, FilesAreToldAsWritten
<1>. QED  BY <1>1, <1>2, <1>3, RecordAssumption
          DEF ObjectsInv, ObjectsTypeOK, Course, Manager, Gathered, Reading, Df

\* Taking in a certificate: the second follows the first, and both make the chain
LEMMA TakeInv ==
  ASSUME ObjectsInv, at \in {"short", "long"}, Object.size # "absent",
         op = "chain", TakeCertificate(Object.content), UNCHANGED <<card, df, opened, op>>
  PROVE  ObjectsInv'
<1>1. CASE ParseCertificate(Object.content) = {} /\ Return("malformed", <<>>) /\ UNCHANGED nth
  BY <1>1, Ends DEF ObjectsInv, ObjectsTypeOK
<1>2. ASSUME NEW cert \in ParseCertificate(Object.content),
             nth < 2, GoTo("short"), nth' = nth + 1, out' = Append(out, cert)
      PROVE  ObjectsInv'
  <2>1. nth = 1 /\ nth' = 2 /\ at' = "short" /\ res' = "none"
    BY <1>2 DEF ObjectsInv, ObjectsTypeOK, GoTo
  <2>2. ASSUME AtManager
        PROVE  Object = card.objects["isd"]["F8"] /\ out' = <<cert>>
    <3>1. df = "isd" /\ out = <<>>
      BY <2>1, <2>2 DEF ObjectsInv, Manager, Gathered
    <3>2. Object = card.objects["isd"]["F8"]
      BY <2>1, <3>1 DEF Object, ChainTag
    <3>3. out' = <<cert>>
      BY <1>2, <3>1
    <3>. QED  BY <3>2, <3>3
  <2>3. Gathered'
    BY <1>2, <2>1, <2>2 DEF Gathered, Object
  <2>4. ObjectsTypeOK'
    BY <2>1, RecordAssumption DEF ObjectsInv, ObjectsTypeOK
  <2>5. Promised'
    BY <2>1 DEF Promised, ChainIsComplete, AtrIsUndamaged, FilesAreToldAsWritten
  <2>6. Course' /\ Manager' /\ Reading'
    BY <2>1 DEF ObjectsInv, Course, Manager, Reading
  <2>. QED  BY <2>3, <2>4, <2>5, <2>6 DEF ObjectsInv
<1>3. ASSUME NEW cert \in ParseCertificate(Object.content),
             ~(nth < 2), Return("ok", Append(out, cert)), UNCHANGED nth
      PROVE  ObjectsInv'
  <2>1. nth = 2 /\ at' = "done" /\ res' = "ok" /\ out' = Append(out, cert)
    BY <1>3 DEF ObjectsInv, ObjectsTypeOK, Return
  <2>2. ASSUME AtManager PROVE ChainIsComplete'
    <3>1. PICK c \in ParseCertificate(card.objects["isd"]["F8"].content) : out = <<c>>
      BY <2>1, <2>2 DEF ObjectsInv, Gathered
    <3>2. /\ Object = card.objects["isd"]["7F21"]
          /\ card.objects["isd"]["F8"].size # "absent"
      BY <2>1, <2>2 DEF ObjectsInv, Manager, Gathered, Object, ChainTag
    <3>3. Held = ChainTag /\ Held' = ChainTag
      BY <3>2 DEF Held
    <3>4. Len(out') = 2 /\ out'[1] = c /\ out'[2] = cert
      BY <2>1, <3>1
    <3>5. {c} = ParseCertificate(card.objects["isd"]["F8"].content)
      BY <3>1, OneCertificate
    <3>6. {cert} = ParseCertificate(card.objects["isd"]["7F21"].content)
      BY <1>3, <3>2, OneCertificate
    <3>7. ChainTag[1] = "F8" /\ ChainTag[2] = "7F21" /\ Len(ChainTag) = 2
      BY DEF ChainTag
    <3>. QED  BY <3>3, <3>4, <3>5, <3>6, <3>7 DEF ChainIsComplete
  <2>3. Promised'
    BY <2>2 DEF Promised, ChainIsComplete, AtrIsUndamaged, FilesAreToldAsWritten
  <2>. QED  BY <1>3, <2>3, Ends DEF ObjectsInv, ObjectsTypeOK
<1>. QED  BY <1>1, <1>2, <1>3 DEF TakeCertificate

\* Taking in an ATR
LEMMA TakeAtrInv ==
  ASSUME ObjectsInv, at \in {"short", "long"}, op = "atr", TakeAtr(Object.content),
         UNCHANGED <<card, df, opened, op>>
  PROVE  ObjectsInv'
<1>. DEFINE stored == Object.content
<1>1. /\ card \in Card /\ "atr" \in card.ops /\ df \in Df
      /\ stored = card.objects[df]["5F51"].content
  BY DEF ObjectsInv, ObjectsTypeOK, Course, Object
<1>2. /\ card.atr \in Seq(Byte) /\ XorOf(card.atr) = {}
      /\ stored \in LeftOf(card.atr)
  BY <1>1, AtrAssumption
<1>. HIDE DEF stored
<1>3. CASE stored # <<>> /\ Last(stored) = Checksum(Front(stored)) /\ Return("ok", <<TS>> \o stored)
  <2>1. Last(stored) = XorOf(Front(stored))
    BY <1>3 DEF Checksum
  <2>2. stored = card.atr
    BY <1>2, <1>3, <2>1, Undamaged, Zenon
  <2>3. out' = <<TS>> \o card.atr
    BY <1>3, <2>2 DEF Return
  <2>4. Promised'
    BY <2>3 DEF Promised, ChainIsComplete, AtrIsUndamaged, FilesAreToldAsWritten
  <2>5. UNCHANGED nth
    BY DEF TakeAtr
  <2>. QED  BY <1>3, <2>4, <2>5, Ends DEF ObjectsInv, ObjectsTypeOK
<1>4. CASE Return("malformed", <<>>)
  <2>1. UNCHANGED nth
    BY DEF TakeAtr
  <2>. QED  BY <1>4, <2>1, Ends DEF ObjectsInv, ObjectsTypeOK
<1>. QED  BY <1>3, <1>4 DEF TakeAtr, stored

LEMMA GetShortInv ==
  ASSUME ObjectsInv, GetShort
  PROVE  ObjectsInv'
<1>1. at = "short" /\ op \in {"chain", "atr"} /\ UNCHANGED <<card, df, opened, op>>
  BY DEF GetShort, ObjectsInv, Course
<1>2. CASE Object.size = "absent" /\ NoObject
  <2>1. CASE op = "chain" /\ AtManager
    <3>1. Return("ok", out) /\ UNCHANGED nth
      BY <1>2, <2>1 DEF NoObject
    <3>2. nth \in 1..2 /\ df = "isd"
      BY <1>1, <2>1 DEF ObjectsInv, ObjectsTypeOK, Manager
    <3>3. ASSUME nth = 1 PROVE ChainIsComplete'
      <4>1. Held' = <<>> /\ out' = <<>>
        BY <1>1, <1>2, <2>1, <3>1, <3>2, <3>3
           DEF Held, Object, ChainTag, ObjectsInv, Gathered, Return
      <4>2. Len(out') = 0 /\ Len(Held') = 0
        BY <4>1
      <4>. QED  BY <4>2 DEF ChainIsComplete
    <3>4. ASSUME nth = 2 PROVE ChainIsComplete'
      <4>1. Held' = <<"F8">>
        BY <1>1, <1>2, <2>1, <3>2, <3>4 DEF Held, Object, ChainTag, ObjectsInv, Gathered
      <4>2. PICK c \in ParseCertificate(card.objects["isd"]["F8"].content) : out = <<c>>
        BY <1>1, <2>1, <3>4 DEF ObjectsInv, Gathered
      <4>3. {c} = ParseCertificate(card.objects["isd"]["F8"].content)
        BY <4>2, OneCertificate
      <4>4. out' = <<c>>
        BY <3>1, <4>2 DEF Return
      <4>5. Len(out') = 1 /\ out'[1] = c /\ Len(Held') = 1 /\ Held'[1] = "F8"
        BY <4>1, <4>4
      <4>6. \A i \in 1..Len(out') : i = 1
        BY <4>5
      <4>. QED  BY <1>1, <4>3, <4>5, <4>6 DEF ChainIsComplete
    <3>5. nth = 1 \/ nth = 2
      BY <3>2
    <3>6. ChainIsComplete'
      BY <3>3, <3>4, <3>5
    <3>7. Promised'
      BY <1>1, <2>1, <3>6 DEF Promised, ChainIsComplete, AtrIsUndamaged, FilesAreToldAsWritten
    <3>. QED  BY <1>1, <3>1, <3>7, Ends DEF ObjectsInv, ObjectsTypeOK
  <2>2. CASE op = "chain" /\ ~AtManager
    <3>1. Promised'
      BY <1>1, <2>2 DEF Promised, ChainIsComplete, AtrIsUndamaged, FilesAreToldAsWritten
    <3>. QED  BY <1>1, <1>2, <2>2, <3>1, Ends DEF NoObject, ObjectsInv, ObjectsTypeOK
  <2>3. CASE op = "atr"
    BY <1>1, <1>2, <2>3, Ends DEF NoObject, ObjectsInv, ObjectsTypeOK
  <2>. QED  BY <1>1, <2>1, <2>2, <2>3
<1>3. CASE Object.size = "small" /\ Take(Object.content)
  <2>1. CASE op = "chain"
    BY <1>1, <1>3, <2>1, TakeInv DEF Take
  <2>2. CASE op = "atr"
    BY <1>1, <1>3, <2>2, TakeAtrInv DEF Take
  <2>. QED  BY <1>1, <2>1, <2>2
<1>4. CASE Object.size \in {"large", "huge"} /\ GoTo("long") /\ UNCHANGED <<nth, out>>
  <2>1. at' = "long" /\ UNCHANGED <<nth, out, res>> /\ res = "none"
    BY <1>1, <1>4 DEF GoTo, ObjectsInv, ObjectsTypeOK
  <2>2. Promised'
    BY <2>1 DEF Promised, ChainIsComplete, AtrIsUndamaged, FilesAreToldAsWritten
  <2>. QED  BY <1>1, <1>4, <2>1, <2>2
            DEF ObjectsInv, ObjectsTypeOK, Course, Manager, Gathered, Reading, Object
<1>. QED  BY <1>2, <1>3, <1>4 DEF GetShort

LEMMA GetLongInv ==
  ASSUME ObjectsInv, GetLong
  PROVE  ObjectsInv'
<1>1. at = "long" /\ op \in {"chain", "atr"} /\ UNCHANGED <<card, df, opened, op>>
  BY DEF GetLong, ObjectsInv, Course
<1>2. CASE Object.size = "large" /\ Take(Object.content)
  <2>1. CASE op = "chain"
    BY <1>1, <1>2, <2>1, TakeInv DEF Take
  <2>2. CASE op = "atr"
    BY <1>1, <1>2, <2>2, TakeAtrInv DEF Take
  <2>. QED  BY <1>1, <2>1, <2>2
<1>3. CASE Object.size = "huge" /\ Return("status", <<>>) /\ UNCHANGED nth
  BY <1>1, <1>3, Ends DEF ObjectsInv, ObjectsTypeOK
<1>. QED  BY <1>2, <1>3 DEF GetLong

LEMMA SelectFileInv ==
  ASSUME ObjectsInv, SelectFile
  PROVE  ObjectsInv'
<1>1. at = "file" /\ op \notin {"chain", "atr"} /\ UNCHANGED <<card, df, opened, op, nth>>
  BY DEF SelectFile, ObjectsInv, Course
<1>2. CASE op \in DOMAIN card.files[df] /\ GoTo("multi") /\ UNCHANGED out
  <2>1. at' = "multi" /\ UNCHANGED <<out, res>> /\ res = "none"
    BY <1>1, <1>2 DEF GoTo, ObjectsInv, ObjectsTypeOK
  <2>2. Promised'
    BY <2>1 DEF Promised, ChainIsComplete, AtrIsUndamaged, FilesAreToldAsWritten
  <2>. QED  BY <1>1, <1>2, <2>1, <2>2
            DEF ObjectsInv, ObjectsTypeOK, Course, Manager, Gathered, Reading
<1>3. CASE Return("status", <<>>)
  BY <1>1, <1>3, Ends DEF ObjectsInv, ObjectsTypeOK
<1>. QED  BY <1>2, <1>3 DEF SelectFile

\* Every parser ends the call
LEMMA ParseEnds ==
  ASSUME NEW records, op \in {"identifier", "folders", "manufacturer"}, ParseFile(records)
  PROVE  \E r \in {"ok", "malformed", "status", "error"}, value \in {out'} : Return(r, value)
BY DEF ParseFile, ParseIdentifier, ParseFolders, ParseManufacturer, Return

LEMMA FileIs ==
  ASSUME ObjectsInv, at \in {"multi", "single"}
  PROVE  File \in Seq(Seq(RecordObject)) /\ Len(File) \in Nat /\ Len(File) <= MaxRecord
<1>1. File \in Seq(Seq(RecordObject)) /\ Len(File) <= MaxRecord
  BY FilesAssumption DEF ObjectsInv, ObjectsTypeOK, Reading, File
<1>. QED  BY <1>1

\* Parsing what the file holds ends the call as promised
LEMMA ParseInv ==
  ASSUME ObjectsInv, at \in {"multi", "single"}, op \in {"identifier", "folders", "manufacturer"},
         NEW records \in Seq(RecordObject), records = FlattenSeq(Whole(File)),
         ParseFile(records), UNCHANGED <<card, df, opened, op, nth>>
  PROVE  ObjectsInv'
<1>1. PICK r \in {"ok", "malformed", "status", "error"}, value \in {out'} : Return(r, value)
  BY ParseEnds
<1>2. ASSUME r = "ok", AtManager PROVE FilesAreToldAsWritten'
  <2>1. res' = "ok"
    BY <1>1, <1>2 DEF Return
  <2>2. Told(op, out', Items(records))
    BY <2>1, FileTold
  <2>3. File = card.files["isd"][op]
    BY <1>2 DEF ObjectsInv, Manager, File
  <2>4. Told(op, out', Items(FlattenSeq(Whole(card.files["isd"][op]))))
    BY <2>2, <2>3
  <2>. QED  BY <2>4 DEF FilesAreToldAsWritten, Whole
<1>3. r = "ok" => Promised'
  BY <1>2 DEF Promised, ChainIsComplete, AtrIsUndamaged, FilesAreToldAsWritten
<1>. QED  BY <1>1, <1>3, Ends DEF ObjectsInv, ObjectsTypeOK

LEMMA ReadMultiInv ==
  ASSUME ObjectsInv, ReadMulti
  PROVE  ObjectsInv'
<1>1. at = "multi" /\ op \in {"identifier", "folders", "manufacturer"}
      /\ UNCHANGED <<card, df, opened, op>>
  BY DEF ReadMulti, ObjectsInv, Course, Ops
<1>2. File \in Seq(Seq(RecordObject)) /\ Len(File) \in Nat
  BY <1>1, FileIs
<1>3. CASE card.multi /\ ParseFile(FlattenSeq(File)) /\ UNCHANGED nth
  <2>1. Whole(File) = File
    BY <1>3 DEF Whole
  <2>2. FlattenSeq(File) \in Seq(RecordObject)
    <3>1. Len(File) \in 0..Len(File)
      BY <1>2
    <3>2. HeldBy(File, Len(File)) = FlattenSeq(File)
          /\ HeldBy(File, Len(File)) \in Seq(RecordObject)
      BY <1>2, <3>1, HeldByIs
    <3>. QED  BY <3>2
  <2>. QED  BY <1>1, <1>3, <2>1, <2>2, ParseInv
<1>4. CASE ~card.multi /\ GoTo("single") /\ nth' = 1 /\ UNCHANGED out
  <2>1. at' = "single" /\ nth' = 1 /\ out' = <<>> /\ res' = "none" /\ ~card.multi
        /\ op \in DOMAIN card.files[df]
    BY <1>1, <1>4 DEF GoTo, ObjectsInv, ObjectsTypeOK, Reading
  <2>2. Promised'
    BY <2>1 DEF Promised, ChainIsComplete, AtrIsUndamaged, FilesAreToldAsWritten
  <2>3. HeldBy(File, nth' - 1) = <<>> /\ nth' - 1 <= Len(File) /\ 1..nth' - 1 = {}
    <3>1. nth' - 1 = 0
      BY <2>1
    <3>2. HeldBy(File, 0) = <<>>
      BY <1>2, HeldByIs
    <3>. QED  BY <1>2, <3>1, <3>2
  <2>4. Reading'
    BY <1>1, <2>1, <2>3 DEF Reading, File
  <2>. QED  BY <1>1, <2>1, <2>2, <2>4, RecordAssumption
            DEF ObjectsInv, ObjectsTypeOK, Course, Manager, Gathered
<1>. QED  BY <1>3, <1>4 DEF ReadMulti

LEMMA ReadSingleInv ==
  ASSUME ObjectsInv, ReadSingle
  PROVE  ObjectsInv'
<1>1. at = "single" /\ op \in {"identifier", "folders", "manufacturer"}
      /\ UNCHANGED <<card, df, opened, op>>
  BY DEF ReadSingle, ObjectsInv, Course, Ops
<1>2. File \in Seq(Seq(RecordObject)) /\ Len(File) \in Nat /\ Len(File) <= MaxRecord
  BY <1>1, FileIs
<1>3. /\ ~card.multi /\ nth - 1 <= Len(File)
      /\ out = HeldBy(File, nth - 1) /\ op \in DOMAIN card.files[df]
      /\ nth \in 1..MaxRecord + 1 /\ res = "none"
      /\ \A i \in 1..nth - 1 : File[i] # <<>>
  BY <1>1 DEF ObjectsInv, ObjectsTypeOK, Reading
<1>4. MaxRecord \in Nat /\ nth \in Nat /\ nth >= 1 /\ nth - 1 \in 0..Len(File)
  BY <1>2, <1>3, RecordAssumption
<1>5. CASE nth <= MaxRecord /\ nth <= Len(File) /\ File[nth] # <<>>
           /\ out' = out \o File[nth] /\ nth' = nth + 1 /\ UNCHANGED <<at, res>>
  <2>1. out' = HeldBy(File, nth)
    <3>1. nth \in 1..Len(File)
      BY <1>2, <1>4, <1>5
    <3>2. HeldBy(File, nth) = HeldBy(File, nth - 1) \o File[nth]
      BY <1>2, <3>1, HeldByIs, Zenon
    <3>. QED  BY <1>3, <1>5, <3>2, Zenon
  <2>2. nth' - 1 = nth
    BY <1>4, <1>5
  <2>3. \A i \in 1..nth : File[i] # <<>>
    <3>1. \A i \in 1..nth : i = nth \/ i \in 1..nth - 1
      BY <1>4
    <3>. QED  BY <1>3, <1>5, <3>1
  <2>4. Reading'
    BY <1>1, <1>3, <1>5, <2>1, <2>2, <2>3 DEF Reading, File
  <2>5. Promised'
    BY <1>3, <1>5 DEF Promised, ChainIsComplete, AtrIsUndamaged, FilesAreToldAsWritten
  <2>6. nth' \in 1..MaxRecord + 1
    BY <1>4, <1>5
  <2>. QED  BY <1>1, <1>5, <2>4, <2>5, <2>6
            DEF ObjectsInv, ObjectsTypeOK, Course, Manager, Gathered
<1>6. CASE ~(nth <= MaxRecord /\ nth <= Len(File) /\ File[nth] # <<>>)
           /\ ParseFile(out) /\ UNCHANGED nth
  <2>. DEFINE empty == {i \in 1..Len(File) : File[i] = <<>>}
  <2>1. out = FlattenSeq(Whole(File))
    <3>1. CASE empty = {}
      <4>1. nth \notin 1..Len(File)
        <5>. SUFFICES ASSUME nth \in 1..Len(File) PROVE FALSE
          OBVIOUS
        <5>1. File[nth] # <<>>
          BY <3>1
        <5>2. nth <= MaxRecord /\ nth <= Len(File)
          BY <1>2, <1>4
        <5>. QED  BY <1>6, <5>1, <5>2
      <4>2. nth - 1 = Len(File)
        BY <1>2, <1>4, <4>1
      <4>3. HeldBy(File, Len(File)) = FlattenSeq(File)
        BY <1>2, HeldByIs
      <4>4. Whole(File) = File
        BY <3>1 DEF Whole
      <4>. QED  BY <1>3, <4>2, <4>3, <4>4
    <3>2. CASE empty # {}
      <4>1. empty \subseteq Nat
        BY <1>2
      <4>2. Min(empty) \in empty /\ \A i \in empty : Min(empty) <= i
        BY <3>2, <4>1, Least
      <4>3. PICK m \in empty : m = Min(empty) /\ \A i \in empty : m <= i
        BY <4>2
      <4>4. m \in 1..Len(File) /\ File[m] = <<>> /\ m \notin 1..nth - 1
        BY <1>3, <4>3
      <4>5. nth \in 1..Len(File)
        BY <1>2, <1>4, <4>4
      <4>6. nth \in empty
        BY <1>2, <1>4, <1>6, <4>5
      <4>7. m = nth
        <5>1. m <= nth
          BY <4>3, <4>6
        <5>2. m \in Nat /\ m >= 1 /\ ~(m <= nth - 1)
          BY <1>2, <1>4, <4>4
        <5>. QED  BY <1>4, <5>1, <5>2
      <4>8. Whole(File) = SubSeq(File, 1, nth - 1)
        BY <1>3, <3>2, <4>3, <4>7 DEF Whole
      <4>. QED  BY <1>3, <4>8 DEF HeldBy
    <3>. QED  BY <3>1, <3>2
  <2>2. out \in Seq(RecordObject)
    <3>1. HeldBy(File, nth - 1) \in Seq(RecordObject)
      BY <1>2, <1>4, HeldByIs
    <3>. QED  BY <1>3, <3>1
  <2>. QED  BY <1>1, <1>6, <2>1, <2>2, ParseInv
<1>. QED  BY <1>5, <1>6 DEF ReadSingle

LEMMA FailsInv ==
  ASSUME ObjectsInv, ExchangeFails
  PROVE  ObjectsInv'
BY Ends DEF ExchangeFails, ObjectsInv, ObjectsTypeOK

LEMMA StepInv == ObjectsInv /\ [ObjectsNext]_ovars => ObjectsInv'
<1>1. ASSUME ObjectsInv, UNCHANGED ovars PROVE ObjectsInv'
  <2>1. UNCHANGED <<card, df, opened, op, at, nth, out, res>>
    BY <1>1 DEF ovars
  <2>2. Gathered' /\ Reading'
    BY <1>1, <2>1 DEF ObjectsInv, Gathered, Reading, Object, File
  <2>3. ChainIsComplete' /\ AtrIsUndamaged' /\ FilesAreToldAsWritten'
    BY <1>1, <2>1
       DEF ObjectsInv, Promised, ChainIsComplete, Held, AtrIsUndamaged, FilesAreToldAsWritten, Whole
  <2>. QED  BY <1>1, <2>1, <2>2, <2>3 DEF ObjectsInv, ObjectsTypeOK, Course, Manager, Promised
<1>. QED  BY <1>1, CallInv, OpenInv, GetShortInv, GetLongInv, SelectFileInv, ReadMultiInv,
             ReadSingleInv, FailsInv
          DEF ObjectsNext, Step

\* Calls on a master file keep their types, and their loops stay within tags and records.
THEOREM ObjectsTypes == ObjectsSpec => []ObjectsTypeOK
<1>1. ObjectsInv => ObjectsTypeOK
  BY DEF ObjectsInv
<1>. QED  BY <1>1, ObjectsInitInv, StepInv, PTL DEF ObjectsSpec

\* A chain that certificate_chain returns from a selected master file is the whole
\* chain that the card holds, root first, whatever a card holds, refuses and fails.
THEOREM ChainComplete == ObjectsSpec => []ChainIsComplete
<1>1. ObjectsInv => ChainIsComplete
  BY DEF ObjectsInv, Promised
<1>. QED  BY <1>1, ObjectsInitInv, StepInv, PTL DEF ObjectsSpec

\* What is told of a record file of a selected master file is what it says, in either
\* form of READ RECORD, for any records and any number of them.
THEOREM FilesTold == ObjectsSpec => []FilesAreToldAsWritten
<1>1. ObjectsInv => FilesAreToldAsWritten
  BY DEF ObjectsInv, Promised
<1>. QED  BY <1>1, ObjectsInitInv, StepInv, PTL DEF ObjectsSpec

\* A contact ATR that is handed out is the one the card was issued with, whatever its
\* length and whichever of its bytes may have been damaged.
THEOREM AtrIntact == ObjectsSpec => []AtrIsUndamaged
<1>1. ObjectsInv => AtrIsUndamaged
  BY DEF ObjectsInv, Promised
<1>. QED  BY <1>1, ObjectsInitInv, StepInv, PTL DEF ObjectsSpec

\* No command is repeated: each brings its call further, to a next object or record or to
\* the other Le.  With the types, whose nth ends at MaxRecord + 1, every call is finite,
\* for any card, any number of records and any refusals.
THEOREM CallsGoOn == ObjectsSpec => CallsProceed
<1>1. ASSUME ObjectsInv, ObjectsNext
      PROVE  \/ Stage[at'] > Stage[at]
             \/ Stage[at'] = Stage[at] /\ nth' > nth
             \/ at = "short" /\ at' = "long" /\ nth' = nth
  <2>1. nth \in Nat /\ MaxRecord \in Nat
    BY <1>1, RecordAssumption DEF ObjectsInv, ObjectsTypeOK
  <2>2. nth + 1 > nth
    BY <2>1
  <2>3. at \in {"idle", "open", "short", "long", "file", "multi", "single", "done"}
    BY <1>1 DEF ObjectsInv, ObjectsTypeOK
  <2>4. CASE Call
    <3>1. op' \in Ops
      BY <1>1, <2>4, CardAssumption DEF ObjectsInv, Call
    <3>2. at = "idle" /\ at' \in {"open", "short", "file"}
      BY <1>1, <2>4, <3>1 DEF ObjectsInv, ObjectsTypeOK, Call, GoTo, Ops
    <3>. QED  BY <3>2 DEF Stage
  <2>5. CASE Open
    BY <2>5 DEF Open, GoTo, Stage
  <2>6. CASE SelectFile
    BY <2>6 DEF SelectFile, GoTo, Return, Stage
  <2>7. CASE GetShort \/ GetLong
    <3>1. ASSUME NEW content, Take(content) PROVE at' = "done" \/ (at' = "short" /\ nth' = nth + 1)
      BY <3>1 DEF Take, TakeAtr, TakeCertificate, GoTo, Return
    <3>2. NoObject => at' = "done"
      BY DEF NoObject, Return
    <3>3. /\ at \in {"short", "long"}
          /\ \/ at' = "done"
             \/ at' = "short" /\ nth' = nth + 1
             \/ at = "short" /\ at' = "long" /\ nth' = nth
      BY <2>7, <3>1, <3>2 DEF GetShort, GetLong, GoTo, Return
    <3>. QED  BY <2>2, <3>3 DEF Stage
  <2>8. CASE ReadMulti \/ ReadSingle
    <3>1. op \in {"identifier", "folders", "manufacturer"}
      BY <1>1, <2>8 DEF ReadMulti, ReadSingle, ObjectsInv, Course, Ops
    <3>2. ASSUME NEW records, ParseFile(records) PROVE at' = "done"
      BY <3>1, <3>2, ParseEnds DEF Return
    <3>3. \/ at = "multi" /\ at' \in {"single", "done"}
          \/ at = "single" /\ (at' = "done" \/ (at' = at /\ nth' = nth + 1))
      BY <2>8, <3>2 DEF ReadMulti, ReadSingle, GoTo
    <3>. QED  BY <2>2, <3>3 DEF Stage
  <2>9. CASE ExchangeFails
    BY <2>3, <2>9 DEF ExchangeFails, Return, Stage
  <2>. QED
    BY <1>1, <2>4, <2>5, <2>6, <2>7, <2>8, <2>9 DEF ObjectsNext, Step
<1>. QED  BY <1>1, ObjectsInitInv, StepInv, PTL DEF ObjectsSpec, CallsProceed
-----------------------------------------------------------------------------
(* verify_chain *)

\* Every certificate passed so far is signed with the key it should be, and certifies
\* a true key: the second follows for each from the first and from its predecessor,
\* which is why both are carried along the chain.
Passed ==
  verdict \in {"checking", "valid"} =>
    /\ chain # <<>>
    /\ \A i \in 1..next - 1 : Anchored(chain, i) /\ chain[i].key = Truth[chain[i].subject]

Reached ==
  /\ verdict = "idle" => next = 1
  /\ verdict = "valid" => next = Len(chain) + 1

Refused ==
  /\ verdict \in {"malformed", "unknown", "signature"} =>
       chain = <<>> \/ \E i \in 1..Len(chain) : ~Anchored(chain, i)
  /\ verdict = "unknown" => chain[1].issuer \notin Known
  /\ verdict = "signature" => chain[1].issuer \in Known

CvInv == CvTypeOK /\ Passed /\ Reached /\ Refused

\* A certificate is as its fields say, and true where its signer is its issuer's key.
LEMMA HonestSignature ==
  ASSUME NEW c \in Certificate
  PROVE  /\ c.issuer \in KeyId /\ c.subject \in KeyId /\ c.key \in Key /\ c.signer \in Key
         /\ c.signer = Truth[c.issuer] => c.key = Truth[c.subject]
BY DEF Certificate

LEMMA CvInitInv == CvInit => CvInv
BY DEF CvInit, CvInv, CvTypeOK, Passed, Reached, Refused, Verdicts

LEMMA VerifyChainInv ==
  ASSUME CvInv, NEW certs \in Seq(Certificate), VerifyChain(certs)
  PROVE  CvInv'
<1>1. CvTypeOK'
  BY DEF CvInv, CvTypeOK, Reached, VerifyChain, Verdicts
<1>2. Passed' /\ Reached' /\ Refused'
  BY DEF CvInv, CvTypeOK, Passed, Reached, Refused, VerifyChain
<1>. QED  BY <1>1, <1>2 DEF CvInv

\* Chains of any length within the bound
LEMMA AnyChainInv ==
  ASSUME CvInv, NEW n \in 0..MaxLinks, NEW certs \in [1..n -> Certificate], VerifyChain(certs)
  PROVE  CvInv'
<1>1. certs \in Seq(Certificate)
  BY LinksAssumption
<1>. QED  BY <1>1, VerifyChainInv

LEMMA VerifyFirstInv ==
  ASSUME CvInv, VerifyFirst
  PROVE  CvInv'
<1>1. chain # <<>> /\ chain \in Seq(Certificate) /\ next = 1 /\ above = 0 /\ 1 \in 1..Len(chain)
  BY DEF CvInv, CvTypeOK, Passed, VerifyFirst
<1>2. chain[1] \in Certificate
  BY <1>1
<1>3. CASE chain[1].issuer \notin Known /\ verdict' = "unknown"
           /\ UNCHANGED <<above, next>>
  <2>1. ~Anchored(chain, 1)  BY <1>3 DEF Anchored
  <2>. QED  BY <1>1, <1>3, <2>1
         DEF CvInv, CvTypeOK, Passed, Reached, Refused, VerifyFirst, Verdicts, Anchored
<1>4. CASE chain[1].issuer \in Known
           /\ ~VerifyWith(chain[1], Table[chain[1].issuer])
           /\ verdict' = "signature" /\ UNCHANGED <<above, next>>
  <2>1. ~Anchored(chain, 1)  BY <1>4 DEF Anchored
  <2>. QED  BY <1>1, <1>4, <2>1
         DEF CvInv, CvTypeOK, Passed, Reached, Refused, VerifyFirst, Verdicts, Anchored
<1>5. CASE chain[1].issuer \in Known
           /\ VerifyWith(chain[1], Table[chain[1].issuer])
           /\ above' = 1 /\ next' = 2 /\ UNCHANGED verdict
  <2>1. Anchored(chain, 1)  BY <1>5 DEF Anchored
  <2>2. chain[1].key = Truth[chain[1].subject]
    BY <1>2, <1>5, HonestSignature DEF VerifyWith, Table
  <2>3. CvTypeOK' /\ Reached' /\ Refused'
    BY <1>1, <1>5 DEF CvInv, CvTypeOK, Reached, Refused, VerifyFirst, Verdicts
  <2>4. Passed'
    BY <1>1, <1>5, <2>1, <2>2 DEF Passed, VerifyFirst, Anchored
  <2>. QED  BY <2>3, <2>4 DEF CvInv
<1>. QED  BY <1>3, <1>4, <1>5 DEF VerifyFirst

LEMMA VerifyNextInv ==
  ASSUME CvInv, VerifyNext
  PROVE  CvInv'
<1>1. /\ chain # <<>> /\ chain \in Seq(Certificate)
      /\ next \in 2..Len(chain) /\ above = next - 1 /\ above \in 1..Len(chain)
      /\ verdict = "checking"
  BY DEF CvInv, CvTypeOK, Passed, VerifyNext
<1>2. /\ chain[next] \in Certificate /\ chain[above] \in Certificate
      /\ Anchored(chain, next) <=> Linked /\ VerifyWith(chain[next], chain[above].key)
  BY <1>1 DEF Anchored, Linked
<1>3. ASSUME ~(Linked /\ VerifyWith(chain[next], chain[above].key)),
             verdict' \in {"malformed", "signature"}, UNCHANGED <<chain, above, next>>
      PROVE  CvInv'
  <2>1. ~Anchored(chain, next)  BY <1>2, <1>3
  <2>2. chain[1].issuer \in Known
    BY <1>1 DEF CvInv, Passed, Anchored
  <2>3. CvTypeOK' /\ Passed' /\ Reached'
    BY <1>1, <1>3 DEF CvInv, CvTypeOK, Passed, Reached, Verdicts
  <2>4. Refused'
    BY <1>1, <1>3, <2>1, <2>2 DEF Refused, Anchored
  <2>. QED  BY <2>3, <2>4 DEF CvInv
<1>4. CASE Linked /\ VerifyWith(chain[next], chain[above].key)
           /\ above' = next /\ next' = next + 1 /\ UNCHANGED verdict
  <2>1. chain[above].key = Truth[chain[above].subject]
    BY <1>1 DEF CvInv, Passed
  <2>2. chain[next].key = Truth[chain[next].subject]
    BY <1>2, <1>4, <2>1, HonestSignature DEF Linked, VerifyWith
  <2>3. CvTypeOK' /\ Reached' /\ Refused'
    BY <1>1, <1>4 DEF CvInv, CvTypeOK, Reached, Refused, VerifyNext, Verdicts
  <2>4. \A i \in 1..next : Anchored(chain, i) /\ chain[i].key = Truth[chain[i].subject]
    BY <1>1, <1>2, <1>4, <2>2 DEF CvInv, Passed
  <2>5. Passed'
    BY <1>1, <1>4, <2>4 DEF Passed, VerifyNext, Anchored
  <2>. QED  BY <2>3, <2>5 DEF CvInv
<1>5. CASE /\ ~Linked
           /\ verdict' = "malformed"
           /\ UNCHANGED <<above, next>>
  BY <1>3, <1>5 DEF VerifyNext
<1>6. CASE /\ Linked
           /\ ~VerifyWith(chain[next], chain[above].key)
           /\ verdict' = "signature"
           /\ UNCHANGED <<above, next>>
  BY <1>3, <1>6 DEF VerifyNext
<1>. QED  BY <1>4, <1>5, <1>6 DEF VerifyNext

LEMMA VerifyDoneInv ==
  ASSUME CvInv, VerifyDone
  PROVE  CvInv'
BY DEF CvInv, CvTypeOK, Passed, Reached, Refused, VerifyDone, Verdicts, Anchored

LEMMA CvStepInv == CvInv /\ [CvNext]_cvars => CvInv'
<1> SUFFICES ASSUME CvInv, [CvNext]_cvars PROVE CvInv'
  OBVIOUS
<1>1. CASE \E n \in 0..MaxLinks : \E certs \in [1..n -> Certificate] : VerifyChain(certs)
  BY <1>1, AnyChainInv
<1>2. CASE Verifying
  BY <1>2, VerifyFirstInv, VerifyNextInv, VerifyDoneInv DEF Verifying
<1>3. CASE UNCHANGED cvars
  BY <1>3 DEF CvInv, CvTypeOK, Passed, Reached, Refused, cvars, Anchored
<1>. QED  BY <1>1, <1>2, <1>3 DEF CvNext

LEMMA CvInvariant == CvSpec => []CvInv
BY CvInitInv, CvStepInv, PTL DEF CvSpec

\* The variables keep their types, and the certificate above is always the one before
\* the next (verify_chain, src/data.rs).
THEOREM CvTypes == CvSpec => []CvTypeOK
BY CvInvariant, PTL DEF CvInv

\* A valid chain certifies only true keys, although only its first certificate is
\* held against a key of the table (verify_chain, src/data.rs).
THEOREM CertifiedTrue == CvSpec => []CertifiedKeysAreTrue
<1>1. CvInv => CertifiedKeysAreTrue
  BY DEF CvInv, CvTypeOK, Passed, Reached, CertifiedKeysAreTrue
<1>. QED  BY <1>1, CvInvariant, PTL

\* verify_chain accepts exactly the chains that hang together from a known authority,
\* and says of the others what it could not check and what failed.
THEOREM Accepts == CvSpec => []AcceptsWhatHangsTogether
<1>1. CvInv => AcceptsWhatHangsTogether
  BY DEF CvInv, CvTypeOK, Passed, Reached, Refused, AcceptsWhatHangsTogether
<1>. QED  BY <1>1, CvInvariant, PTL
-----------------------------------------------------------------------------
(* From the card to the verdict *)

\* What certificate_chain has read are certificates
CertificatesRead == op = "chain" => out \in Seq(Certificate)

\* What verify_chain was called with
Handed ==
  verdict # "idle" => card.ops = {} \/ (op = "chain" /\ res = "ok" /\ chain = out)

CardChainInv == ObjectsInv /\ CvInv /\ CertificatesRead /\ Handed

\* A step takes in the certificate it is at, or no other
LEMMA CertificatesInv ==
  ASSUME ObjectsInv, CertificatesRead, ObjectsNext
  PROVE  CertificatesRead'
<1>1. SUFFICES ASSUME op' = "chain" PROVE out' \in Seq(Certificate)
  BY DEF CertificatesRead
<1>2. <<>> \in Seq(Certificate)
  OBVIOUS
<1>3. CASE Call \/ Open \/ ExchangeFails
  BY <1>2, <1>3 DEF Call, Open, ExchangeFails, Return, ObjectsInv, Course
<1>4. CASE SelectFile \/ ReadMulti \/ ReadSingle
  BY <1>1, <1>4 DEF SelectFile, ReadMulti, ReadSingle, ObjectsInv, Course
<1>5. CASE GetShort \/ GetLong
  <2>1. op = "chain" /\ out \in Seq(Certificate)
    BY <1>1, <1>5 DEF CertificatesRead, GetShort, GetLong
  <2>2. CASE out' = out \/ out' = <<>>
    BY <1>2, <2>1, <2>2
  <2>3. CASE ~(out' = out \/ out' = <<>>)
    <3>1. at \in {"short", "long"} /\ TakeCertificate(Object.content)
      BY <1>5, <2>1, <2>3 DEF GetShort, GetLong, Take, NoObject, Return
    <3>2. PICK cert \in ParseCertificate(Object.content) : out' = Append(out, cert)
      BY <2>3, <3>1 DEF TakeCertificate, Return
    <3>3. card \in Card /\ "chain" \in card.ops /\ df \in Df /\ nth \in 1..2
      BY <2>1, <3>1 DEF ObjectsInv, ObjectsTypeOK, Course
    <3>4. Object = card.objects[df][ChainTag[nth]]
      BY <2>1 DEF Object
    <3>5. ParseCertificate(Object.content) \subseteq Certificate
      BY <3>3, <3>4, HeldAssumption
    <3>6. cert \in Certificate
      BY <3>2, <3>5
    <3>. QED  BY <2>1, <3>2, <3>6
  <2>. QED  BY <2>2, <2>3
<1>. QED  BY <1>3, <1>4, <1>5 DEF ObjectsNext, Step

\* A call that has returned does nothing more
LEMMA HandedInv ==
  ASSUME ObjectsInv, Handed, ObjectsNext, UNCHANGED cvars
  PROVE  Handed'
<1>1. card' = card /\ UNCHANGED <<chain, verdict>>
  BY DEF ObjectsNext, Step, Call, Open, GetShort, GetLong, SelectFile, ReadMulti, ReadSingle,
     ExchangeFails, cvars
<1>2. at # "done"
  BY DEF ObjectsNext, Step, Call, Open, GetShort, GetLong, SelectFile, ReadMulti, ReadSingle,
     ExchangeFails
<1>3. res # "ok"
  BY <1>2 DEF ObjectsInv, ObjectsTypeOK
<1>. QED  BY <1>1, <1>3 DEF Handed

LEMMA CardChainStep == CardChainInv /\ [Next]_vars => CardChainInv'
<1>1. SUFFICES ASSUME CardChainInv, [Next]_vars PROVE CardChainInv'
  OBVIOUS
<1>2. CASE ObjectsNext /\ UNCHANGED cvars
  <2>1. ObjectsInv' /\ CvInv'
    BY <1>1, <1>2, StepInv, CvStepInv DEF CardChainInv
  <2>. QED  BY <1>1, <1>2, <2>1, CertificatesInv, HandedInv DEF CardChainInv
<1>3. CASE (HandOver \/ Elsewhere \/ Verifying) /\ UNCHANGED ovars
  <2>1. ObjectsInv' /\ CertificatesRead'
    BY <1>1, <1>3, StepInv DEF CardChainInv, CertificatesRead, ovars
  <2>2. UNCHANGED <<card, op, out, res>>
    BY <1>3 DEF ovars
  <2>3. CASE HandOver
    <3>1. out \in Seq(Certificate) /\ VerifyChain(out) /\ op = "chain" /\ res = "ok"
      BY <1>1, <2>3 DEF HandOver, CardChainInv, CertificatesRead
    <3>2. chain' = out
      BY <3>1 DEF VerifyChain
    <3>. QED  BY <1>1, <2>1, <2>2, <3>1, <3>2, VerifyChainInv DEF CardChainInv, Handed
  <2>4. CASE Elsewhere
    BY <1>1, <2>1, <2>2, <2>4, AnyChainInv DEF Elsewhere, CardChainInv, Handed
  <2>5. CASE Verifying
    <3>1. CvInv'
      BY <1>1, <2>5, CvStepInv DEF CardChainInv, CvNext
    <3>2. verdict # "idle" /\ chain' = chain
      BY <2>5 DEF Verifying, VerifyFirst, VerifyNext, VerifyDone
    <3>. QED  BY <1>1, <2>1, <2>2, <3>1, <3>2 DEF CardChainInv, Handed
  <2>. QED  BY <1>3, <2>3, <2>4, <2>5
<1>4. CASE UNCHANGED vars
  <2>1. UNCHANGED ovars /\ UNCHANGED cvars
    BY <1>4 DEF vars
  <2>2. ObjectsInv' /\ CvInv'
    BY <1>1, <2>1, StepInv, CvStepInv DEF CardChainInv
  <2>. QED  BY <1>1, <2>1, <2>2 DEF CardChainInv, CertificatesRead, Handed, ovars, cvars
<1>. QED  BY <1>1, <1>2, <1>3, <1>4 DEF Next

LEMMA CardChainInvariant == Spec => []CardChainInv
<1>1. Init => CardChainInv
  <2>1. Init => ObjectsInv /\ CvInv
    BY ObjectsInitInv, CvInitInv DEF Init
  <2>2. Init => CertificatesRead /\ Handed
    BY DEF Init, ObjectsInit, CvInit, CertificatesRead, Handed
  <2>. QED  BY <2>1, <2>2 DEF CardChainInv
<1>. QED  BY <1>1, CardChainStep, PTL DEF Spec

\* Both parts keep their types when the one is handed what the other has read: no
\* card makes certificate_chain return anything but certificates.
THEOREM CardChainTypes == Spec => []TypeOK
<1>1. CardChainInv => TypeOK
  BY DEF CardChainInv, ObjectsInv, CvInv, TypeOK
<1>. QED  BY <1>1, CardChainInvariant, PTL

\* Reading goes on as on its own, whatever is verified meanwhile: a step of the
\* composition is one of MasterFile or leaves it alone.
THEOREM ReadingIsObjects == Spec => ObjectsSpec
<1>1. Init => ObjectsInit
  BY DEF Init
<1>2. [Next]_vars => [ObjectsNext]_ovars
  BY DEF Next, vars
<1>. QED  BY <1>1, <1>2, PTL DEF Spec, ObjectsSpec

\* What each part promises on its own it promises here.
THEOREM PartsHold ==
  Spec => /\ [](/\ ChainIsComplete /\ FilesAreToldAsWritten /\ AtrIsUndamaged
                /\ CertifiedKeysAreTrue /\ AcceptsWhatHangsTogether)
          /\ CallsProceed
<1>1. ObjectsInv => ChainIsComplete /\ FilesAreToldAsWritten /\ AtrIsUndamaged
  BY DEF ObjectsInv, Promised
<1>2. CvInv => CertifiedKeysAreTrue /\ AcceptsWhatHangsTogether
  BY DEF CvInv, CvTypeOK, Passed, Reached, Refused, CertifiedKeysAreTrue, AcceptsWhatHangsTogether
<1>3. CardChainInv => ObjectsInv /\ CvInv
  BY DEF CardChainInv
<1>. QED  BY <1>1, <1>2, <1>3, CardChainInvariant, ReadingIsObjects, CallsGoOn, PTL

\* A chain read from the master file that verifies is all that the card holds, and its
\* keys are true, for any card, any authorities and any keys.
THEOREM VerifiedHeld == Spec => []VerifiedIsHeld
<1>1. CardChainInv => VerifiedIsHeld
  <2>1. SUFFICES ASSUME CardChainInv, op = "chain", AtManager, verdict = "valid"
                 PROVE  /\ Len(chain) = Len(Held)
                        /\ \A i \in 1..Len(chain) :
                             /\ {chain[i]} = ParseCertificate(card.objects["isd"][Held[i]].content)
                             /\ chain[i].key = Truth[chain[i].subject]
    BY DEF VerifiedIsHeld
  <2>2. op \in card.ops
    BY <2>1 DEF CardChainInv, ObjectsInv, Course
  <2>3. res = "ok" /\ chain = out
    BY <2>1, <2>2 DEF CardChainInv, Handed
  <2>4. ChainIsComplete
    BY <2>1 DEF CardChainInv, ObjectsInv, Promised
  <2>5. \A i \in 1..Len(chain) : chain[i].key = Truth[chain[i].subject]
    BY <2>1 DEF CardChainInv, CvInv, CvTypeOK, Passed, Reached
  <2>. QED  BY <2>1, <2>3, <2>4, <2>5 DEF ChainIsComplete
<1>. QED  BY <1>1, CardChainInvariant, PTL
=============================================================================
