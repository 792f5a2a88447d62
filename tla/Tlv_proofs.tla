----------------------------- MODULE Tlv_proofs -----------------------------
(***************************************************************************)
(* Proofs about Tlv, for objects of any number and length and a usize of   *)
(* any width: a header of an object is read as it was written, or not at   *)
(* all while it is cut short; a length that does not fit what is there is  *)
(* refused even where adding the header to it wraps; and so the iterators  *)
(* yield the objects written, up to the cut.                               *)
(***************************************************************************)
EXTENDS Tlv, Induction, SequenceTheorems

-----------------------------------------------------------------------------
(* Numbers of a usize *)

LEMMA Octets == \A x \in Octet : x \in Nat /\ x < 256
BY DEF Octet

\* f goes through the powers of 256
Powers(f, n) == f \in [0..n -> Nat] /\ f[0] = 1 /\ \A i \in 1..n : f[i] = f[i - 1] * 256

LEMMA UsizeSizeIs == \E f : Powers(f, UsizeBytes) /\ UsizeSize = f[UsizeBytes]
<1>. DEFINE n == UsizeBytes
           Along(f) == [i \in 0..n |-> IF i = 0 THEN 1 ELSE f[i - 1] * 256]
           g == [i \in 1..n |-> [x \in Nat |-> x * 256]]
           upTo == CHOOSE f : f = Along(f)
           S == {i \in 0..n : upTo[i] \in Nat}
<1>1. n \in Nat
  BY UsizeAssumption
<1>2. UsizeSize = upTo[n]
  BY DEF UsizeSize
<1>. HIDE DEF n
<1>3. \A i \in 1..n : g[i] \in [Nat -> Nat] /\ \A x \in Nat : g[i][x] = x * 256
  OBVIOUS
<1>. HIDE DEF g
<1>4. \E f : Goes(f, Nat, 1, g, n)
  <2>1. 1 \in Nat
    OBVIOUS
  <2>. QED  BY <1>1, <1>3, <2>1, GoesOnce, Zenon
<1>5. PICK f : f = Along(f)
  <2>1. PICK f : Goes(f, Nat, 1, g, n)
    BY <1>4
  <2>2. f \in [0..n -> Nat] /\ f[0] = 1 /\ \A i \in 1..n : f[i] = f[i - 1] * 256
    <3>1. /\ f \in [0..n -> Nat] /\ f[0] = 1
          /\ \A i \in 1..n : f[i] = g[i][f[i - 1]] /\ f[i - 1] \in Nat
      BY <1>1, <2>1, GoesAre, Zenon
    <3>2. ASSUME NEW i \in 1..n PROVE f[i] = f[i - 1] * 256
      <4>1. PICK x \in Nat : x = f[i - 1] /\ f[i] = g[i][x]
        BY <3>1, Zenon
      <4>2. g[i][x] = x * 256
        BY <1>3
      <4>. QED  BY <4>1, <4>2
    <3>. QED  BY <3>1, <3>2, Zenon
  <2>3. \A i \in 0..n : f[i] = Along(f)[i]
    BY <1>1, <2>2
  <2>4. f = Along(f)
    <3>1. f = [i \in 0..n |-> f[i]]
      BY <2>2, Zenon
    <3>2. \A i \in 0..n : Along(f)[i] = f[i]
      BY <2>3, Zenon
    <3>. QED  BY <3>1, <3>2, Zenon
  <2>. QED  BY <2>4
<1>6. upTo = Along(upTo)
  BY <1>5
<1>. HIDE DEF upTo
<1>7. upTo[0] = 1 /\ \A i \in 1..n : upTo[i] = upTo[i - 1] * 256
  BY <1>1, <1>6
<1>8. 0 \in S /\ \A i \in 1..n : i - 1 \in S => i \in S
  BY <1>1, <1>7
<1>. HIDE DEF S
<1>9. \A i \in 0..n : i \in S
  BY <1>1, <1>8, Induct, Zenon
<1>10. upTo \in [0..n -> Nat]
  <2>1. \A i \in 0..n : upTo[i] \in Nat
    BY <1>9 DEF S
  <2>. QED  BY <1>6, <2>1
<1>11. Powers(upTo, n)
  BY <1>7, <1>10 DEF Powers
<1>. QED  BY <1>2, <1>11 DEF n

\* f goes along a big-endian number
Along256(f, s, n) ==
  f \in [0..n -> Nat] /\ f[0] = 0 /\ \A i \in 1..n : f[i] = f[i - 1] * 256 + s[i]

LEMMA NumberIs ==
  ASSUME NEW s \in Seq(Octet)
  PROVE  \E f : Along256(f, s, Len(s)) /\ Number(s) = f[Len(s)]
<1>. DEFINE n == Len(s)
           Along(f) == [i \in 0..n |-> IF i = 0 THEN 0 ELSE f[i - 1] * 256 + s[i]]
           g == [i \in 1..n |-> [x \in Nat |-> x * 256 + s[i]]]
           upTo == CHOOSE f : f = Along(f)
           S == {i \in 0..n : upTo[i] \in Nat}
<1>1. n \in Nat /\ \A i \in 1..n : s[i] \in Nat
  <2>1. \A i \in 1..n : s[i] \in Octet
    OBVIOUS
  <2>2. n \in Nat
    OBVIOUS
  <2>. HIDE DEF n
  <2>. QED  BY <2>1, <2>2, Octets
<1>2. Number(s) = upTo[n]
  BY DEF Number
<1>. HIDE DEF n
<1>3. \A i \in 1..n : g[i] \in [Nat -> Nat] /\ \A x \in Nat : g[i][x] = x * 256 + s[i]
  BY <1>1
<1>. HIDE DEF g
<1>4. \E f : Goes(f, Nat, 0, g, n)
  <2>1. 0 \in Nat
    OBVIOUS
  <2>. QED  BY <1>1, <1>3, <2>1, GoesOnce, Zenon
<1>5. PICK f : f = Along(f)
  <2>1. PICK f : Goes(f, Nat, 0, g, n)
    BY <1>4
  <2>2. f \in [0..n -> Nat] /\ f[0] = 0 /\ \A i \in 1..n : f[i] = f[i - 1] * 256 + s[i]
    <3>1. /\ f \in [0..n -> Nat] /\ f[0] = 0
          /\ \A i \in 1..n : f[i] = g[i][f[i - 1]] /\ f[i - 1] \in Nat
      BY <1>1, <2>1, GoesAre, Zenon
    <3>2. ASSUME NEW i \in 1..n PROVE f[i] = f[i - 1] * 256 + s[i]
      BY <1>3, <3>1, Zenon
    <3>. QED  BY <3>1, <3>2, Zenon
  <2>3. \A i \in 0..n : f[i] = Along(f)[i]
    BY <1>1, <2>2
  <2>4. f = Along(f)
    <3>1. f = [i \in 0..n |-> f[i]]
      BY <2>2, Zenon
    <3>2. \A i \in 0..n : Along(f)[i] = f[i]
      BY <2>3, Zenon
    <3>. QED  BY <3>1, <3>2, Zenon
  <2>. QED  BY <2>4
<1>6. upTo = Along(upTo)
  BY <1>5
<1>. HIDE DEF upTo
<1>7. upTo[0] = 0 /\ \A i \in 1..n : upTo[i] = upTo[i - 1] * 256 + s[i]
  BY <1>1, <1>6
<1>8. 0 \in S /\ \A i \in 1..n : i - 1 \in S => i \in S
  <2>1. ASSUME NEW i \in 1..n, upTo[i - 1] \in Nat PROVE upTo[i] \in Nat
    <3>1. \A x, y \in Nat : x * 256 + y \in Nat
      OBVIOUS
    <3>2. upTo[i] = upTo[i - 1] * 256 + s[i]
      BY <1>7, Zenon
    <3>3. s[i] \in Nat
      BY <1>1, Zenon
    <3>4. upTo[i - 1] * 256 + s[i] \in Nat
      BY <2>1, <3>1, <3>3, Zenon
    <3>. QED  BY <3>2, <3>4, Zenon
  <2>2. 0 \in S
    BY <1>1, <1>7
  <2>. QED  BY <2>1, <2>2
<1>. HIDE DEF S
<1>9. \A i \in 0..n : i \in S
  BY <1>1, <1>8, Induct, Zenon
<1>10. upTo \in [0..n -> Nat]
  <2>1. \A i \in 0..n : upTo[i] \in Nat
    BY <1>9 DEF S
  <2>. QED  BY <1>6, <2>1
<1>11. Along256(upTo, s, n)
  BY <1>7, <1>10 DEF Along256
<1>. QED  BY <1>2, <1>11 DEF n

\* The length of a header fits a usize
LEMMA NumberFits ==
  ASSUME NEW s \in Seq(Octet), Len(s) <= UsizeBytes
  PROVE  Number(s) \in Nat /\ Number(s) < UsizeSize
<1>. DEFINE n == Len(s)
           u == UsizeBytes
<1>1. n \in Nat /\ u \in Nat /\ n <= u /\ \A i \in 1..n : s[i] \in Octet
  BY UsizeAssumption
<1>2. PICK f : Along256(f, s, n) /\ Number(s) = f[n]
  BY NumberIs
<1>3. PICK p : Powers(p, u) /\ UsizeSize = p[u]
  BY UsizeSizeIs
<1>. HIDE DEF n, u
<1>. DEFINE S == {i \in 0..n : f[i] < p[i]}
           T == {i \in 0..u : p[u - i] <= p[u]}
<1>4. 0 \in S /\ \A i \in 1..n : i - 1 \in S => i \in S
  <2>1. 0 \in S
    BY <1>1, <1>2, <1>3 DEF Along256, Powers
  <2>2. ASSUME NEW i \in 1..n, i - 1 \in S PROVE i \in S
    <3>1. i \in 1..u /\ i - 1 \in 0..n /\ i - 1 \in 0..u
      BY <1>1
    <3>2. f[i] = f[i - 1] * 256 + s[i] /\ p[i] = p[i - 1] * 256
      BY <1>2, <1>3, <3>1 DEF Along256, Powers
    <3>3. f[i - 1] \in Nat /\ p[i - 1] \in Nat /\ s[i] \in Octet /\ f[i - 1] < p[i - 1]
      BY <1>1, <1>2, <1>3, <2>2, <3>1 DEF Along256, Powers
    <3>4. \A x, y \in Nat, c \in Octet : x < y => x * 256 + c < y * 256
      BY DEF Octet
    <3>5. f[i] < p[i]
      BY <3>2, <3>3, <3>4
    <3>. QED  BY <3>5
  <2>. QED  BY <2>1, <2>2
<1>5. 0 \in T /\ \A i \in 1..u : i - 1 \in T => i \in T
  <2>1. 0 \in T
    <3>1. u - 0 = u /\ u \in 0..u
      BY <1>1
    <3>2. p[u] \in Nat
      BY <1>3, <3>1 DEF Powers
    <3>. QED  BY <1>1, <3>1, <3>2
  <2>2. ASSUME NEW i \in 1..u, i - 1 \in T PROVE i \in T
    <3>1. u - (i - 1) \in 1..u /\ u - (i - 1) - 1 = u - i /\ u - i \in 0..u /\ u \in 0..u
      BY <1>1
    <3>2. p[u - (i - 1)] = p[u - i] * 256 /\ p[u - i] \in Nat /\ p[u] \in Nat
      BY <1>3, <3>1 DEF Powers
    <3>. QED  BY <2>2, <3>2
  <2>. QED  BY <2>1, <2>2
<1>. HIDE DEF S, T
<1>6. n \in S
  <2>1. \A i \in 0..n : i \in S
    BY <1>1, <1>4, Induct, Zenon
  <2>. QED  BY <1>1, <2>1
<1>7. u - n \in T
  <2>1. \A i \in 0..u : i \in T
    BY <1>1, <1>5, Induct, Zenon
  <2>. QED  BY <1>1, <2>1
<1>8. p[n] <= p[u] /\ f[n] < p[n]
  <2>1. u - (u - n) = n
    BY <1>1
  <2>2. p[u - (u - n)] <= p[u]
    BY <1>7, Zenon DEF T
  <2>3. f[n] < p[n]
    BY <1>6, Zenon DEF S
  <2>. QED  BY <2>1, <2>2, <2>3, Zenon
<1>9. f[n] \in Nat /\ p[n] \in Nat /\ p[u] \in Nat
  <2>1. n \in 0..n /\ n \in 0..u /\ u \in 0..u
    BY <1>1
  <2>. QED  BY <1>2, <1>3, <2>1 DEF Along256, Powers
<1>. QED  BY <1>2, <1>3, <1>8, <1>9

LEMMA UsizeHoldsAByte == UsizeSize \in Nat /\ UsizeSize >= 256
<1>1. PICK p : Powers(p, UsizeBytes) /\ UsizeSize = p[UsizeBytes]
  BY UsizeSizeIs
<1>. DEFINE u == UsizeBytes
           S == {i \in 0..u : i # 0 => p[i] >= 256}
<1>2. u \in Nat /\ u # 0
  BY UsizeAssumption
<1>. HIDE DEF u
<1>3. p \in [0..u -> Nat] /\ p[0] = 1 /\ \A i \in 1..u : p[i] = p[i - 1] * 256
  BY <1>1 DEF Powers, u
<1>4. 0 \in S /\ \A i \in 1..u : i - 1 \in S => i \in S
  <2>1. 0 \in S
    BY <1>2
  <2>2. ASSUME NEW i \in 1..u, i - 1 \in S PROVE i \in S
    <3>1. p[i] = p[i - 1] * 256 /\ p[i - 1] \in Nat
      BY <1>2, <1>3
    <3>2. CASE i = 1
      <4>1. i - 1 = 0
        BY <3>2
      <4>. QED  BY <1>3, <3>1, <4>1
    <3>3. CASE i # 1
      BY <2>2, <3>1, <3>3
    <3>. QED  BY <3>2, <3>3
  <2>. QED  BY <2>1, <2>2
<1>. HIDE DEF S
<1>5. u \in S
  BY <1>2, <1>4, Induct
<1>. QED  BY <1>1, <1>2, <1>3, <1>5 DEF S, u

LEMMA NumberOfOne ==
  ASSUME NEW s \in Seq(Octet), Len(s) = 1
  PROVE  Number(s) = s[1]
<1>1. PICK f : Along256(f, s, 1) /\ Number(s) = f[1]
  BY NumberIs
<1>2. f[1] = f[1 - 1] * 256 + s[1] /\ f[0] = 0 /\ s[1] \in Nat
  <2>1. s[1] \in Octet
    OBVIOUS
  <2>2. 1 \in 1..1
    OBVIOUS
  <2>. QED  BY <1>1, <2>1, <2>2, Octets DEF Along256
<1>3. f[1] = 0 * 256 + s[1]
  <2>1. 1 - 1 = 0
    OBVIOUS
  <2>. QED  BY <1>2, <2>1
<1>. QED  BY <1>1, <1>2, <1>3

LEMMA NumberOfTwo ==
  ASSUME NEW s \in Seq(Octet), Len(s) = 2
  PROVE  Number(s) = s[1] * 256 + s[2]
<1>1. PICK f : Along256(f, s, 2) /\ Number(s) = f[2]
  BY NumberIs
<1>2. s[1] \in Nat /\ s[2] \in Nat
  <2>1. s[1] \in Octet /\ s[2] \in Octet
    OBVIOUS
  <2>. QED  BY <2>1, Octets
<1>3. /\ f[1] = f[1 - 1] * 256 + s[1] /\ f[0] = 0
      /\ f[2] = f[2 - 1] * 256 + s[2]
  BY <1>1 DEF Along256
<1>4. 1 - 1 = 0 /\ 2 - 1 = 1
  OBVIOUS
<1>5. f[1] = 0 * 256 + s[1] /\ f[2] = f[1] * 256 + s[2]
  BY <1>3, <1>4
<1>. QED  BY <1>1, <1>2, <1>5
-----------------------------------------------------------------------------
(* Headers of objects *)

HeaderOf(c, d) == IF c = "ber" THEN BerHeader(d) ELSE SimpleHeader(d)

LengthOf(o) == LengthBytes(o.codec, Len(o.value), o.form)

LEMMA TwoBytes ==
  ASSUME NEW n \in Nat
  PROVE  /\ LengthBytes("ber", n, 2) = <<130, n \div 256, n % 256>>
         /\ LengthBytes("simple", n, 2) = <<255, n \div 256, n % 256>>
         /\ (n \div 256) * 256 + (n % 256) = n
         /\ n < 65536 => n \div 256 \in Octet /\ n % 256 \in Octet
<1>1. LengthBytes("ber", n, 2) = <<130, n \div 256, n % 256>>
  BY DEF LengthBytes
<1>2. LengthBytes("simple", n, 2) = <<255, n \div 256, n % 256>>
  BY DEF LengthBytes
<1>3. (n \div 256) * 256 + (n % 256) = n
  OBVIOUS
<1>4. n < 65536 => n \div 256 \in Octet /\ n % 256 \in Octet
  BY DEF Octet
<1>. QED  BY <1>1, <1>2, <1>3, <1>4

LEMMA LengthIs ==
  ASSUME NEW c \in {"ber", "simple"}, NEW n \in Nat, NEW form, Fits(c, n, form)
  PROVE  LengthBytes(c, n, form) \in Seq(Octet) /\ Len(LengthBytes(c, n, form)) \in 1..3
<1>1. 255 \in Octet /\ 129 \in Octet /\ 130 \in Octet
  BY DEF Octet
<1>2. /\ \A x \in Octet : <<x>> \in Seq(Octet) /\ Len(<<x>>) \in 1..3
      /\ \A x, y \in Octet : <<x, y>> \in Seq(Octet) /\ Len(<<x, y>>) \in 1..3
  OBVIOUS
<1>3. n < 256 => n \in Octet
  BY DEF Octet
<1>4. CASE form = 0
  <2>1. LengthBytes(c, n, form) = <<n>> /\ n < 256
    BY <1>4 DEF LengthBytes, Fits
  <2>. QED  BY <1>2, <1>3, <2>1, Zenon
<1>5. CASE form = 1
  <2>1. LengthBytes(c, n, form) = <<129, n>> /\ n < 256
    BY <1>5 DEF LengthBytes, Fits
  <2>. QED  BY <1>1, <1>2, <1>3, <2>1
<1>6. CASE form = 2
  <2>1. n < 65536
    BY <1>6 DEF Fits
  <2>. DEFINE x == n \div 256
              y == n % 256
  <2>2. x \in Octet /\ y \in Octet
    BY <2>1, TwoBytes
  <2>3. c = "ber" => LengthBytes(c, n, form) = <<130, x, y>>
    BY <1>6, TwoBytes
  <2>4. c = "simple" => LengthBytes(c, n, form) = <<255, x, y>>
    BY <1>6, TwoBytes
  <2>. HIDE DEF x, y
  <2>5. CASE c = "ber"
    <3>1. \A a, b \in Octet : <<130, a, b>> \in Seq(Octet) /\ Len(<<130, a, b>>) \in 1..3
      BY <1>1
    <3>2. <<130, x, y>> \in Seq(Octet) /\ Len(<<130, x, y>>) \in 1..3
      BY <2>2, <3>1, Zenon
    <3>. QED  BY <2>3, <2>5, <3>2, Zenon
  <2>6. CASE c = "simple"
    <3>1. \A a, b \in Octet : <<255, a, b>> \in Seq(Octet) /\ Len(<<255, a, b>>) \in 1..3
      BY <1>1
    <3>2. <<255, x, y>> \in Seq(Octet) /\ Len(<<255, x, y>>) \in 1..3
      BY <2>2, <3>1, Zenon
    <3>. QED  BY <2>4, <2>6, <3>2, Zenon
  <2>. QED  BY <2>5, <2>6
<1>. QED  BY <1>4, <1>5, <1>6 DEF Fits

\* j is t, l and v in a row
Joined(j, t, l, v) ==
  /\ j \in Seq(Octet) /\ Len(j) = Len(t) + Len(l) + Len(v)
  /\ \A i \in 1..Len(t) : j[i] = t[i]
  /\ \A i \in 1..Len(l) : j[Len(t) + i] = l[i]
  /\ \A i \in 1..Len(v) : j[Len(t) + Len(l) + i] = v[i]

LEMMA JoinedIs ==
  ASSUME NEW t \in Seq(Octet), NEW l \in Seq(Octet), NEW v \in Seq(Octet)
  PROVE  Joined(t \o l \o v, t, l, v)
<1>. DEFINE j == t \o l \o v
<1>1. Len(t) \in Nat /\ Len(l) \in Nat /\ Len(v) \in Nat
  OBVIOUS
<1>2. j \in Seq(Octet) /\ Len(j) = Len(t) + Len(l) + Len(v)
  OBVIOUS
<1>3. ASSUME NEW i \in 1..Len(t) PROVE j[i] = t[i]
  OBVIOUS
<1>4. ASSUME NEW i \in 1..Len(l) PROVE j[Len(t) + i] = l[i]
  OBVIOUS
<1>5. ASSUME NEW i \in 1..Len(v) PROVE j[Len(t) + Len(l) + i] = v[i]
  OBVIOUS
<1>. HIDE DEF j
<1>6. Joined(j, t, l, v)
  BY <1>2, <1>3, <1>4, <1>5 DEF Joined
<1>. QED  BY <1>6 DEF j

\* The parts of an object
LEMMA ObjectIs ==
  ASSUME NEW o \in Object
  PROVE  /\ o.codec \in {"ber", "simple"}
         /\ o.tag \in Seq(Octet) /\ Len(o.tag) \in 1..4
         /\ LengthOf(o) \in Seq(Octet) /\ Len(LengthOf(o)) \in 1..3
         /\ o.value \in Seq(Octet) /\ Len(o.value) \in Nat
         /\ Joined(Encode(o), o.tag, LengthOf(o), o.value)
<1>1. /\ o.codec \in {"ber", "simple"} /\ Fits(o.codec, Len(o.value), o.form)
      /\ o.tag \in Seq(Octet) /\ Len(o.tag) \in 1..4 /\ o.value \in Seq(Octet)
  BY ObjectsAssumption DEF IsTag
<1>2. Len(o.value) \in Nat
  BY <1>1
<1>3. LengthOf(o) \in Seq(Octet) /\ Len(LengthOf(o)) \in 1..3
  BY <1>1, <1>2, LengthIs, Zenon DEF LengthOf
<1>4. Encode(o) = o.tag \o LengthOf(o) \o o.value
  BY DEF Encode, LengthOf
<1>5. Joined(Encode(o), o.tag, LengthOf(o), o.value)
  BY <1>1, <1>3, <1>4, JoinedIs, Zenon
<1>. QED  BY <1>1, <1>2, <1>3, <1>5

\* d is what there is of e, and of what follows it
Fronts(d, e) ==
  /\ d \in Seq(Octet) /\ d # <<>>
  /\ \A i \in 1..Len(d) : i <= Len(e) => d[i] = e[i]

\* d starts with t and then l, as far as it goes
HeadedBy(d, t, l) ==
  /\ \A i \in 1..Len(t) : i <= Len(d) => d[i] = t[i]
  /\ \A i \in 1..Len(l) : Len(t) + i <= Len(d) => d[Len(t) + i] = l[i]

LEMMA FrontIs ==
  ASSUME NEW t \in Seq(Octet), NEW l \in Seq(Octet), NEW v \in Seq(Octet), Len(t) >= 1,
         NEW e, Joined(e, t, l, v), NEW d, Fronts(d, e)
  PROVE  d \in Seq(Octet) /\ Len(d) \in Nat /\ Len(d) >= 1 /\ d[1] = t[1] /\ HeadedBy(d, t, l)
<1>1. d \in Seq(Octet) /\ Len(d) \in Nat /\ Len(d) >= 1
  BY DEF Fronts
<1>2. Len(t) \in Nat /\ Len(l) \in Nat /\ Len(v) \in Nat /\ Len(e) = Len(t) + Len(l) + Len(v)
  BY DEF Joined
<1>3. ASSUME NEW i \in 1..Len(t), i <= Len(d) PROVE d[i] = t[i]
  <2>1. i \in 1..Len(d) /\ i <= Len(e)
    BY <1>1, <1>2, <1>3
  <2>. QED  BY <2>1 DEF Fronts, Joined
<1>4. ASSUME NEW i \in 1..Len(l), Len(t) + i <= Len(d) PROVE d[Len(t) + i] = l[i]
  <2>1. Len(t) + i \in 1..Len(d) /\ Len(t) + i <= Len(e)
    BY <1>1, <1>2, <1>4
  <2>2. e[Len(t) + i] = l[i]
    BY DEF Joined
  <2>. QED  BY <2>1, <2>2 DEF Fronts
<1>5. 1 \in 1..Len(t)
  BY <1>2
<1>. QED  BY <1>1, <1>3, <1>4, <1>5 DEF HeadedBy

LEMMA Slice ==
  ASSUME NEW d \in Seq(Octet), NEW a \in Nat, NEW b \in Nat, 1 <= a, a <= b + 1, b <= Len(d)
  PROVE  /\ SubSeq(d, a, b) \in Seq(Octet) /\ Len(SubSeq(d, a, b)) = b - a + 1
         /\ \A i \in 1..b - a + 1 : SubSeq(d, a, b)[i] = d[a + i - 1]
<1>1. \A i \in a..b : d[i] \in Octet
  OBVIOUS
<1>2. /\ SubSeq(d, a, b) \in Seq(Octet)
      /\ Len(SubSeq(d, a, b)) = IF a <= b THEN b - a + 1 ELSE 0
      /\ \A i \in 1..b - a + 1 : SubSeq(d, a, b)[i] = d[a + i - 1]
  BY <1>1, SubSeqProperties
<1>3. ~(a <= b) => b - a + 1 = 0
  OBVIOUS
<1>. QED  BY <1>2, <1>3

\* The v bytes behind p, and the first n
LEMMA PartOf ==
  ASSUME NEW d \in Seq(Octet), NEW p \in Nat, NEW v \in Nat, p + v <= Len(d)
  PROVE  /\ SubSeq(d, p + 1, p + v) \in Seq(Octet) /\ Len(SubSeq(d, p + 1, p + v)) = v
         /\ \A i \in 1..v : SubSeq(d, p + 1, p + v)[i] = d[p + i]
<1>1. PICK a \in Nat, b \in Nat : a = p + 1 /\ b = p + v
  OBVIOUS
<1>2. 1 <= a /\ a <= b + 1 /\ b <= Len(d) /\ b - a + 1 = v /\ \A i \in 1..v : a + i - 1 = p + i
  BY <1>1
<1>3. /\ SubSeq(d, a, b) \in Seq(Octet) /\ Len(SubSeq(d, a, b)) = b - a + 1
      /\ \A i \in 1..b - a + 1 : SubSeq(d, a, b)[i] = d[a + i - 1]
  BY <1>2, Slice, Zenon
<1>4. /\ SubSeq(d, a, b) \in Seq(Octet) /\ Len(SubSeq(d, a, b)) = v
      /\ \A i \in 1..v : SubSeq(d, a, b)[i] = d[p + i]
  BY <1>2, <1>3, Zenon
<1>. QED  BY <1>1, <1>4, Zenon

LEMMA FirstPart ==
  ASSUME NEW d \in Seq(Octet), NEW n \in Nat, n <= Len(d)
  PROVE  /\ SubSeq(d, 1, n) \in Seq(Octet) /\ Len(SubSeq(d, 1, n)) = n
         /\ \A i \in 1..n : SubSeq(d, 1, n)[i] = d[i]
<1>1. 0 \in Nat /\ 0 + n = n /\ 0 + 1 = 1 /\ \A i \in 1..n : 0 + i = i
  OBVIOUS
<1>2. /\ SubSeq(d, 0 + 1, 0 + n) \in Seq(Octet) /\ Len(SubSeq(d, 0 + 1, 0 + n)) = n
      /\ \A i \in 1..n : SubSeq(d, 0 + 1, 0 + n)[i] = d[0 + i]
  BY <1>1, PartOf, Zenon
<1>. QED  BY <1>1, <1>2, Zenon

LEMMA TagLengthIs ==
  ASSUME NEW t, IsTag("ber", t), NEW d \in Seq(Octet), Len(d) >= 1,
         \A i \in 1..Len(t) : i <= Len(d) => d[i] = t[i]
  PROVE  TagLength(d) = IF Len(d) >= Len(t) THEN Len(t) ELSE 0
<1>1. /\ t \in Seq(Octet) /\ Len(t) \in 1..4
      /\ t[1] % 32 = 31 <=> Len(t) > 1
      /\ \A i \in 2..Len(t) : t[i] < 128 <=> i = Len(t)
  BY DEF IsTag
<1>2. d[1] = t[1] /\ Len(d) \in Nat
  BY <1>1
<1>3. CASE Len(t) = 1
  BY <1>1, <1>2, <1>3 DEF TagLength
<1>4. CASE Len(t) > 1
  <2>. DEFINE lasts == {i \in 2..4 : i <= Len(d) /\ d[i] < 128}
  <2>1. TagLength(d) = IF lasts = {} THEN 0 ELSE Min(lasts)
    BY <1>1, <1>2, <1>4 DEF TagLength
  <2>2. \A i \in 2..Len(t) : i <= Len(d) => (i \in lasts <=> i = Len(t))
    <3>1. ASSUME NEW i \in 2..Len(t), i <= Len(d) PROVE i \in lasts <=> i = Len(t)
      <4>1. d[i] = t[i] /\ i \in 2..4
        BY <1>1, <3>1
      <4>. QED  BY <1>1, <3>1, <4>1
    <3>. QED  BY <3>1
  <2>3. lasts \subseteq Nat /\ \A i \in lasts : i >= 2 /\ i <= Len(d)
    OBVIOUS
  <2>. HIDE DEF lasts
  <2>4. CASE Len(d) >= Len(t)
    <3>1. Len(t) \in lasts
      BY <1>1, <1>2, <1>4, <2>2, <2>4
    <3>2. \A i \in lasts : Len(t) <= i
      <4>1. ASSUME NEW i \in lasts, i < Len(t) PROVE FALSE
        <5>1. i \in 2..Len(t) /\ i <= Len(d) /\ i # Len(t)
          BY <1>1, <2>3, <4>1
        <5>. QED  BY <2>2, <5>1
      <4>. QED  BY <1>1, <2>3, <4>1
    <3>3. Min(lasts) = Len(t)
      <4>1. Min(lasts) \in lasts /\ \A i \in lasts : Min(lasts) <= i
        BY <2>3, <3>1, Least
      <4>2. PICK m \in lasts : m = Min(lasts) /\ \A i \in lasts : m <= i
        BY <4>1
      <4>3. m <= Len(t) /\ Len(t) <= m /\ m \in Nat /\ Len(t) \in Nat
        BY <1>1, <2>3, <3>1, <3>2, <4>2
      <4>. QED  BY <4>2, <4>3
    <3>. QED  BY <2>1, <2>4, <3>1, <3>3
  <2>5. CASE ~(Len(d) >= Len(t))
    <3>1. lasts = {}
      <4>1. ASSUME NEW i \in lasts PROVE FALSE
        <5>1. i \in 2..Len(t) /\ i <= Len(d) /\ i # Len(t)
          BY <1>1, <1>2, <2>3, <2>5
        <5>. QED  BY <2>2, <5>1
      <4>. QED  BY <4>1
    <3>. QED  BY <2>1, <2>5, <3>1
  <2>. QED  BY <2>4, <2>5
<1>5. Len(t) = 1 \/ Len(t) > 1
  <2>1. \A n \in 1..4 : n = 1 \/ n > 1
    OBVIOUS
  <2>. QED  BY <1>1, <2>1, Zenon
<1>. QED  BY <1>3, <1>4, <1>5, Zenon

\* The header that the parts of an object make
Parsed(t, l, v) == [tag |-> t, length |-> Len(v), size |-> Len(t) + Len(l)]

LEMMA BerShort ==
  ASSUME NEW d, TagLength(d) = 0 \/ Len(d) <= TagLength(d)
  PROVE  BerHeader(d) = {}
BY DEF BerHeader

LEMMA BerOneByte ==
  ASSUME NEW d, Len(d) \in Nat, NEW k \in 1..4, TagLength(d) = k, Len(d) > k, d[k + 1] \in Nat, d[k + 1] < 128
  PROVE  BerHeader(d) = {[tag |-> SubSeq(d, 1, k), length |-> d[k + 1], size |-> k + 1]}
<1>1. ~(k = 0 \/ Len(d) <= k)
  OBVIOUS
<1>. QED  BY <1>1 DEF BerHeader

LEMMA BerMoreBytes ==
  ASSUME NEW d, Len(d) \in Nat, NEW k \in 1..4, TagLength(d) = k, Len(d) > k,
         NEW c \in 1..127, d[k + 1] = 128 + c, c <= UsizeBytes
  PROVE  /\ Len(d) < k + 1 + c => BerHeader(d) = {}
         /\ Len(d) >= k + 1 + c =>
              BerHeader(d) = {[tag |-> SubSeq(d, 1, k),
                               length |-> Number(SubSeq(d, k + 2, k + 1 + c)), size |-> k + 1 + c]}
<1>1. /\ ~(k = 0 \/ Len(d) <= k) /\ ~(d[k + 1] < 128) /\ d[k + 1] % 128 = c
      /\ ~(c = 0) /\ ~(c > UsizeBytes)
  BY UsizeAssumption
<1>2. Len(d) < k + 1 + c => BerHeader(d) = {}
  BY <1>1 DEF BerHeader
<1>3. ASSUME Len(d) >= k + 1 + c
      PROVE  BerHeader(d) = {[tag |-> SubSeq(d, 1, k),
                              length |-> Number(SubSeq(d, k + 2, k + 1 + c)), size |-> k + 1 + c]}
  <2>1. ~(Len(d) < k + 1 + c)
    BY <1>3
  <2>. QED  BY <1>1, <2>1 DEF BerHeader
<1>. QED  BY <1>2, <1>3

LEMMA FirstSlice ==
  ASSUME NEW t \in Seq(Octet), NEW d \in Seq(Octet), Len(d) >= Len(t),
         \A i \in 1..Len(t) : d[i] = t[i]
  PROVE  SubSeq(d, 1, Len(t)) = t
<1>. DEFINE s == SubSeq(d, 1, Len(t))
            k == Len(t)
<1>1. k \in Nat
  OBVIOUS
<1>2. s \in Seq(Octet) /\ Len(s) = k - 1 + 1 /\ \A i \in 1..k - 1 + 1 : s[i] = d[1 + i - 1]
  BY <1>1, Slice
<1>. HIDE DEF s
<1>3. k - 1 + 1 = k /\ \A i \in 1..k : 1 + i - 1 = i
  BY <1>1
<1>4. Len(s) = Len(t) /\ \A i \in 1..Len(t) : s[i] = t[i]
  BY <1>2, <1>3
<1>5. s = t
  BY <1>2, <1>4
<1>. QED  BY <1>5 DEF s

LEMMA LengthSlice ==
  ASSUME NEW d \in Seq(Octet), NEW k \in Nat, NEW c \in 1..2, Len(d) >= k + 1 + c
  PROVE  Number(SubSeq(d, k + 2, k + 1 + c)) = IF c = 1 THEN d[k + 2] ELSE d[k + 2] * 256 + d[k + 3]
<1>1. PICK a \in Nat, b \in Nat : a = k + 2 /\ b = k + 1 + c
  OBVIOUS
<1>. DEFINE s == SubSeq(d, a, b)
<1>2. s \in Seq(Octet) /\ Len(s) = b - a + 1 /\ \A i \in 1..b - a + 1 : s[i] = d[a + i - 1]
  <2>1. 1 <= a /\ a <= b + 1 /\ b <= Len(d)
    BY <1>1
  <2>. QED  BY <2>1, Slice, Zenon
<1>. HIDE DEF s
<1>3. b - a + 1 = c /\ a + 1 - 1 = k + 2 /\ a + 2 - 1 = k + 3 /\ 1 \in 1..c
  BY <1>1
<1>4. Len(s) = c /\ s[1] = d[k + 2] /\ (c = 2 => s[2] = d[k + 3])
  BY <1>2, <1>3
<1>5. c = 1 => Number(s) = d[k + 2]
  BY <1>2, <1>4, NumberOfOne
<1>6. c = 2 => Number(s) = d[k + 2] * 256 + d[k + 3]
  BY <1>2, <1>4, NumberOfTwo
<1>7. c = 1 \/ c = 2
  OBVIOUS
<1>. QED  BY <1>1, <1>5, <1>6, <1>7 DEF s

LEMMA Beyond ==
  \A k \in 1..4, m \in Nat, a \in 1..3 : m > k \/ (m <= k /\ m < k + a /\ ~(m >= k + a))
OBVIOUS

LEMMA BerOf ==
  ASSUME NEW t, IsTag("ber", t), NEW v \in Seq(Octet), NEW form, Fits("ber", Len(v), form),
         NEW l, l = LengthBytes("ber", Len(v), form), NEW d \in Seq(Octet), Len(d) >= 1,
         HeadedBy(d, t, l)
  PROVE  /\ Len(d) >= Len(t) + Len(l) => BerHeader(d) = {Parsed(t, l, v)}
         /\ Len(d) < Len(t) + Len(l) => BerHeader(d) = {}
<1>1. PICK k \in 1..4 : k = Len(t)
  BY DEF IsTag
<1>2. PICK n \in Nat : n = Len(v)
  OBVIOUS
<1>3. t \in Seq(Octet) /\ l \in Seq(Octet) /\ Len(l) \in 1..3 /\ Len(d) \in Nat
  BY <1>2, LengthIs DEF IsTag
<1>4. TagLength(d) = IF Len(d) >= k THEN k ELSE 0
  BY <1>1, TagLengthIs DEF HeadedBy
<1>5. ASSUME Len(d) <= k PROVE BerHeader(d) = {}
  <2>1. TagLength(d) = 0 \/ Len(d) <= TagLength(d)
    BY <1>1, <1>3, <1>4, <1>5
  <2>. QED  BY <2>1, BerShort
<1>6. ASSUME Len(d) > k
      PROVE  /\ Len(d) >= k + Len(l) => BerHeader(d) = {Parsed(t, l, v)}
             /\ Len(d) < k + Len(l) => BerHeader(d) = {}
  <2>1. TagLength(d) = k
    BY <1>3, <1>4, <1>6
  <2>2. SubSeq(d, 1, k) = t
    <3>1. \A i \in 1..k : i <= Len(d)
      BY <1>3, <1>6
    <3>2. \A i \in 1..Len(t) : d[i] = t[i]
      BY <1>1, <3>1 DEF HeadedBy
    <3>3. Len(d) >= Len(t)
      BY <1>1, <1>3, <1>6
    <3>4. SubSeq(d, 1, Len(t)) = t
      BY <1>3, <3>2, <3>3, FirstSlice, Zenon
    <3>. QED  BY <1>1, <3>4
  <2>3. \A i \in 1..Len(l) : k + i <= Len(d) => d[k + i] = l[i]
    BY <1>1 DEF HeadedBy
  <2>4. Parsed(t, l, v) = [tag |-> t, length |-> n, size |-> k + Len(l)]
    BY <1>1, <1>2 DEF Parsed
  <2>5. d[k + 1] = l[1]
    BY <1>3, <1>6, <2>3
  <2>6. CASE form = 0
    <3>1. l = <<n>> /\ n < 128
      BY <1>2, <2>6 DEF LengthBytes, Fits
    <3>2. d[k + 1] = n /\ Len(l) = 1
      BY <2>5, <3>1
    <3>3. BerHeader(d) = {[tag |-> t, length |-> n, size |-> k + 1]}
      BY <1>3, <1>6, <2>1, <2>2, <3>1, <3>2, BerOneByte
    <3>4. k + Len(l) = k + 1 /\ ~(Len(d) < k + 1)
      <4>1. \A m \in Nat : m > k => ~(m < k + 1)
        OBVIOUS
      <4>. QED  BY <1>3, <1>6, <3>2, <4>1, Zenon
    <3>. QED  BY <2>4, <3>3, <3>4
  <2>7. ASSUME NEW c \in 1..2, form = c
        PROVE  /\ Len(d) >= k + Len(l) => BerHeader(d) = {Parsed(t, l, v)}
               /\ Len(d) < k + Len(l) => BerHeader(d) = {}
    <3>1. /\ Len(l) = 1 + c /\ l[1] = 128 + c /\ c <= UsizeBytes
          /\ c = 1 => l[2] = n
          /\ c = 2 => l[2] * 256 + l[3] = n
      <4>1. CASE c = 1
        <5>1. l = <<129, n>>
          BY <1>2, <2>7, <4>1 DEF LengthBytes
        <5>. QED  BY <4>1, <5>1, UsizeAssumption
      <4>2. CASE c = 2
        <5>. DEFINE x == n \div 256
                    y == n % 256
        <5>1. l = <<130, x, y>> /\ x * 256 + y = n
          BY <1>2, <2>7, <4>2, TwoBytes
        <5>2. c <= UsizeBytes
          BY <2>7, <4>2 DEF Fits
        <5>. HIDE DEF x, y
        <5>. QED  BY <4>2, <5>1, <5>2
      <4>. QED  BY <4>1, <4>2
    <3>2. c \in 1..127 /\ d[k + 1] = 128 + c /\ k + Len(l) = k + 1 + c
      BY <2>5, <3>1
    <3>3. ASSUME Len(d) >= k + 1 + c PROVE BerHeader(d) = {Parsed(t, l, v)}
      <4>1. Number(SubSeq(d, k + 2, k + 1 + c)) =
              IF c = 1 THEN d[k + 2] ELSE d[k + 2] * 256 + d[k + 3]
        BY <3>3, LengthSlice
      <4>2. d[k + 2] = l[2] /\ (c = 2 => d[k + 3] = l[3])
        <5>1. 2 \in 1..Len(l) /\ k + 2 <= Len(d) /\ (c = 2 => 3 \in 1..Len(l) /\ k + 3 <= Len(d))
          BY <1>3, <3>1, <3>3
        <5>. QED  BY <2>3, <5>1, Zenon
      <4>3. Number(SubSeq(d, k + 2, k + 1 + c)) = n
        BY <3>1, <4>1, <4>2
      <4>4. BerHeader(d) = {[tag |-> SubSeq(d, 1, k),
                             length |-> Number(SubSeq(d, k + 2, k + 1 + c)), size |-> k + 1 + c]}
        BY <1>3, <1>6, <2>1, <3>1, <3>2, <3>3, BerMoreBytes
      <4>. QED  BY <2>2, <2>4, <3>2, <4>3, <4>4
    <3>4. ASSUME Len(d) < k + 1 + c PROVE BerHeader(d) = {}
      BY <1>3, <1>6, <2>1, <3>1, <3>2, <3>4, BerMoreBytes
    <3>. QED  BY <3>2, <3>3, <3>4
  <2>8. form \in {0, 1, 2}
    BY DEF Fits
  <2>. QED  BY <2>6, <2>7, <2>8
<1>7. \/ Len(d) > k
      \/ Len(d) <= k /\ Len(d) < k + Len(l) /\ ~(Len(d) >= k + Len(l))
  BY <1>3, Beyond, Zenon
<1>8. /\ Len(d) >= k + Len(l) => BerHeader(d) = {Parsed(t, l, v)}
      /\ Len(d) < k + Len(l) => BerHeader(d) = {}
  BY <1>5, <1>6, <1>7, Zenon
<1>. QED  BY <1>1, <1>8

LEMMA ThirdAndFourth ==
  ASSUME NEW d \in Seq(Octet), Len(d) >= 4
  PROVE  Number(SubSeq(d, 3, 4)) = d[3] * 256 + d[4]
<1>1. 2 \in Nat /\ 2 + 2 <= Len(d) /\ 2 + 1 = 3 /\ 2 + 2 = 4
  OBVIOUS
<1>2. PICK s : s = SubSeq(d, 2 + 1, 2 + 2)
  OBVIOUS
<1>3. s \in Seq(Octet) /\ Len(s) = 2 /\ \A i \in 1..2 : s[i] = d[2 + i]
  BY <1>1, <1>2, PartOf, Zenon
<1>4. Number(s) = s[1] * 256 + s[2]
  BY <1>3, NumberOfTwo
<1>5. s[1] = d[3] /\ s[2] = d[4]
  BY <1>3
<1>. QED  BY <1>1, <1>2, <1>4, <1>5, Zenon

LEMMA SimpleOf ==
  ASSUME NEW t, IsTag("simple", t), NEW v \in Seq(Octet), NEW form,
         Fits("simple", Len(v), form), NEW l, l = LengthBytes("simple", Len(v), form),
         NEW d \in Seq(Octet), Len(d) >= 1, HeadedBy(d, t, l)
  PROVE  /\ Len(d) >= Len(t) + Len(l) => SimpleHeader(d) = {Parsed(t, l, v)}
         /\ Len(d) < Len(t) + Len(l) => SimpleHeader(d) = {}
<1>1. PICK n \in Nat : n = Len(v)
  OBVIOUS
<1>2. PICK m \in Nat : m = Len(d)
  OBVIOUS
<1>3. t \in Seq(Octet) /\ Len(t) = 1 /\ t[1] # 255
  BY DEF IsTag, Filler
<1>4. l \in Seq(Octet) /\ Len(l) \in 1..3
  BY <1>1, LengthIs
<1>5. d[1] = t[1] /\ \A i \in 1..Len(l) : 1 + i <= m => d[1 + i] = l[i]
  BY <1>2, <1>3 DEF HeadedBy
<1>6. t = <<d[1]>>
  BY <1>3, <1>5
<1>7. m >= 2 => d[2] = l[1]
  <2>1. \A a \in 1..3 : m >= 2 => 1 \in 1..a /\ 1 + 1 <= m /\ 1 + 1 = 2
    OBVIOUS
  <2>2. ASSUME m >= 2 PROVE 1 \in 1..Len(l) /\ 1 + 1 <= m /\ 1 + 1 = 2
    BY <1>4, <2>1, <2>2, Zenon
  <2>. QED  BY <1>5, <2>2, Zenon
<1>8. Parsed(t, l, v) = [tag |-> t, length |-> n, size |-> 1 + Len(l)]
  BY <1>1, <1>3 DEF Parsed
<1>9. ASSUME m < 2 PROVE SimpleHeader(d) = {}
  BY <1>2, <1>9 DEF SimpleHeader
<1>10. CASE form = 0
  <2>1. l = <<n>> /\ n < 255
    BY <1>1, <1>10 DEF LengthBytes, Fits
  <2>2. Len(l) = 1 /\ l[1] = n /\ n # 255
    BY <2>1
  <2>3. ASSUME m >= 2 PROVE SimpleHeader(d) = {Parsed(t, l, v)}
    <3>1. d[2] = n /\ ~(m < 2) /\ 1 + Len(l) = 2 /\ d[1] # 255
      BY <1>3, <1>5, <1>7, <2>2, <2>3
    <3>. QED  BY <1>2, <1>6, <1>8, <2>2, <3>1 DEF SimpleHeader
  <2>4. Len(t) + Len(l) = 2
    <3>1. 1 + 1 = 2
      OBVIOUS
    <3>. QED  BY <1>3, <2>2, <3>1, Zenon
  <2>5. m >= 2 \/ m < 2
    OBVIOUS
  <2>. QED  BY <1>2, <1>9, <2>3, <2>4, <2>5
<1>11. CASE form = 2
  <2>. DEFINE x == n \div 256
              y == n % 256
  <2>1. l = <<255, x, y>> /\ x * 256 + y = n
    BY <1>1, <1>11, TwoBytes
  <2>. HIDE DEF x, y
  <2>2. Len(l) = 3 /\ l[1] = 255 /\ l[2] = x /\ l[3] = y
    BY <2>1
  <2>3. ASSUME m >= 4 PROVE SimpleHeader(d) = {Parsed(t, l, v)}
    <3>1. Number(SubSeq(d, 3, 4)) = d[3] * 256 + d[4]
      <4>1. Len(d) >= 4
        BY <1>2, <2>3, Zenon
      <4>. QED  BY <4>1, ThirdAndFourth, Zenon
    <3>2. d[3] = x /\ d[4] = y
      <4>1. 2 \in 1..3 /\ 1 + 2 <= m /\ 1 + 2 = 3 /\ 3 \in 1..3 /\ 1 + 3 <= m /\ 1 + 3 = 4
        BY <2>3
      <4>2. d[1 + 2] = l[2] /\ d[1 + 3] = l[3]
        BY <1>5, <2>2, <4>1, Zenon
      <4>. QED  BY <2>2, <4>1, <4>2, Zenon
    <3>3. d[2] = 255 /\ ~(m < 2) /\ ~(m < 4) /\ 1 + Len(l) = 4 /\ d[1] # 255
      <4>1. m >= 2 /\ ~(m < 2) /\ ~(m < 4) /\ 1 + 3 = 4
        BY <2>3
      <4>2. d[2] = 255
        BY <1>7, <2>2, <4>1, Zenon
      <4>3. 1 + Len(l) = 4 /\ d[1] # 255
        BY <1>3, <1>5, <2>2, <4>1, Zenon
      <4>. QED  BY <4>1, <4>2, <4>3, Zenon
    <3>4. Number(SubSeq(d, 3, 4)) = n
      BY <2>1, <3>1, <3>2
    <3>. QED  BY <1>2, <1>6, <1>8, <3>3, <3>4 DEF SimpleHeader
  <2>4. ASSUME m < 4 PROVE SimpleHeader(d) = {}
    <3>1. ASSUME m >= 2 PROVE SimpleHeader(d) = {}
      <4>1. d[2] = 255 /\ Len(d) < 4
        BY <1>2, <1>7, <2>2, <2>4, <3>1
      <4>. QED  BY <4>1 DEF SimpleHeader
    <3>. QED  BY <1>9, <3>1
  <2>5. Len(t) + Len(l) = 4
    <3>1. 1 + 3 = 4
      OBVIOUS
    <3>. QED  BY <1>3, <2>2, <3>1, Zenon
  <2>6. m >= 4 \/ m < 4
    OBVIOUS
  <2>. QED  BY <1>2, <2>3, <2>4, <2>5, <2>6
<1>. QED  BY <1>10, <1>11 DEF Fits
-----------------------------------------------------------------------------
(* Whole objects *)

\* The header of an object, or of as much of it as there is
LEMMA HeaderOfObject ==
  ASSUME NEW o \in Object, NEW d, Fronts(d, Encode(o))
  PROVE  /\ d \in Seq(Octet) /\ Len(d) \in Nat /\ Len(d) >= 1 /\ d[1] \notin Filler(o.codec)
         /\ HeaderOf(o.codec, d) \subseteq {Parsed(o.tag, LengthOf(o), o.value)}
         /\ Len(d) >= Len(o.tag) + Len(LengthOf(o)) => HeaderOf(o.codec, d) # {}
<1>. DEFINE t == o.tag
            l == LengthOf(o)
            v == o.value
<1>1. /\ t \in Seq(Octet) /\ Len(t) \in 1..4 /\ l \in Seq(Octet) /\ v \in Seq(Octet)
      /\ Joined(Encode(o), t, l, v)
  BY ObjectIs
<1>2. IsTag(o.codec, t) /\ Fits(o.codec, Len(v), o.form) /\ o.codec \in {"ber", "simple"}
  BY ObjectsAssumption
<1>3. l = LengthBytes(o.codec, Len(v), o.form)
  BY DEF LengthOf
<1>. HIDE DEF t, l, v
<1>4. d \in Seq(Octet) /\ Len(d) \in Nat /\ Len(d) >= 1 /\ d[1] = t[1] /\ HeadedBy(d, t, l)
  <2>1. Len(t) >= 1
    BY <1>1
  <2>. QED  BY <1>1, <2>1, FrontIs, Zenon
<1>5. d[1] \notin Filler(o.codec)
  BY <1>2, <1>4 DEF IsTag
<1>6. /\ Len(d) >= Len(t) + Len(l) => HeaderOf(o.codec, d) = {Parsed(t, l, v)}
      /\ Len(d) < Len(t) + Len(l) => HeaderOf(o.codec, d) = {}
  <2>1. CASE o.codec = "ber"
    <3>1. /\ Len(d) >= Len(t) + Len(l) => BerHeader(d) = {Parsed(t, l, v)}
          /\ Len(d) < Len(t) + Len(l) => BerHeader(d) = {}
      <4>1. IsTag("ber", t) /\ Fits("ber", Len(v), o.form) /\ l = LengthBytes("ber", Len(v), o.form)
        BY <1>2, <1>3, <2>1, Zenon
      <4>. QED  BY <1>1, <1>4, <4>1, BerOf, Zenon
    <3>. QED  BY <2>1, <3>1 DEF HeaderOf
  <2>2. CASE o.codec = "simple"
    <3>1. /\ Len(d) >= Len(t) + Len(l) => SimpleHeader(d) = {Parsed(t, l, v)}
          /\ Len(d) < Len(t) + Len(l) => SimpleHeader(d) = {}
      <4>1. /\ IsTag("simple", t) /\ Fits("simple", Len(v), o.form)
            /\ l = LengthBytes("simple", Len(v), o.form)
        BY <1>2, <1>3, <2>2, Zenon
      <4>. QED  BY <1>1, <1>4, <4>1, SimpleOf, Zenon
    <3>. QED  BY <2>2, <3>1 DEF HeaderOf
  <2>. QED  BY <1>2, <2>1, <2>2
<1>7. Len(t) + Len(l) \in Nat
  BY <1>1
<1>8. Len(d) >= Len(t) + Len(l) \/ Len(d) < Len(t) + Len(l)
  BY <1>4, <1>7
<1>. QED  BY <1>4, <1>5, <1>6, <1>8 DEF t, l, v

LEMMA SmallIsNotWrapped ==
  ASSUME NEW n \in Nat, n < UsizeSize
  PROVE  Usize(n) = n
<1>1. PICK m \in Nat : m = UsizeSize
  BY UsizeHoldsAByte
<1>2. n % m = n
  BY <1>1
<1>. QED  BY <1>1, <1>2 DEF Usize

\* A sum that wraps comes out below the summand that is no length
LEMMA WrappedIsLess ==
  ASSUME NEW size \in Nat, NEW length \in Nat, length < UsizeSize, size + length >= UsizeSize
  PROVE  Usize(size + length) < size
<1>1. PICK m \in Nat \ {0} : m = UsizeSize
  BY UsizeHoldsAByte
<1>2. PICK n \in Nat : n = size + length
  OBVIOUS
<1>. DEFINE q == n \div m
            r == n % m
<1>3. q \in Int /\ r \in Nat /\ r < m
  OBVIOUS
<1>4. n = m * q + r
  OBVIOUS
<1>. HIDE DEF q, r
<1>5. q >= 1
  <2>1. ASSUME q <= 0 PROVE m * q <= 0
    BY <1>3, <2>1
  <2>2. n >= m
    BY <1>1, <1>2
  <2>. QED BY <1>3, <1>4, <2>1, <2>2
<1>6. m * q >= m
  BY <1>3, <1>5
<1>7. r < size
  BY <1>1, <1>2, <1>3, <1>4, <1>6
<1>. QED  BY <1>1, <1>2, <1>7 DEF Usize, r

\* A whole object is found, its value in its place; of part of one nothing is
LEMMA WholeOfObject ==
  ASSUME NEW o \in Object, o.codec = codec, NEW d, Fronts(d, Encode(o))
  PROVE  /\ Len(d) < Len(Encode(o)) => Whole(d) = {}
         /\ Len(d) >= Len(Encode(o)) =>
              \A h : h \in Whole(d) <=> h = Parsed(o.tag, LengthOf(o), o.value)
         /\ TotalLen(Parsed(o.tag, LengthOf(o), o.value)) = Len(Encode(o))
<1>1. PICK t \in Nat, l \in Nat, n \in Nat :
        t = Len(o.tag) /\ l = Len(LengthOf(o)) /\ n = Len(o.value) /\ Len(Encode(o)) = t + l + n
  <2>1. Len(Encode(o)) = Len(o.tag) + Len(LengthOf(o)) + Len(o.value)
    BY ObjectIs DEF Joined
  <2>2. Len(o.tag) \in Nat /\ Len(LengthOf(o)) \in Nat /\ Len(o.value) \in Nat
    BY ObjectIs
  <2>. QED  BY <2>1, <2>2
<1>. DEFINE h0 == Parsed(o.tag, LengthOf(o), o.value)
<1>2. h0.size = t + l /\ h0.length = n
  BY <1>1 DEF Parsed
<1>3. /\ Len(d) \in Nat
      /\ HeaderOf(codec, d) \subseteq {h0}
      /\ Len(d) >= t + l => HeaderOf(codec, d) # {}
  BY <1>1, HeaderOfObject
<1>4. Header(d) = HeaderOf(codec, d)
  BY DEF Header, HeaderOf
<1>. HIDE DEF h0
<1>5. TotalLen(h0) = t + l + n
  <2>1. t + l + n \in Nat /\ t + l + n < UsizeSize
    <3>1. Len(Encode(o)) < UsizeSize
      BY ObjectsAssumption, Zenon
    <3>2. t + l + n < UsizeSize
      BY <1>1, <3>1, Zenon
    <3>. QED  BY <3>2
  <2>2. Usize(t + l + n) = t + l + n
    BY <2>1, SmallIsNotWrapped
  <2>. QED  BY <1>2, <2>2 DEF TotalLen
<1>6. Holds(d, h0.size, TotalLen(h0)) <=> t + l + n <= Len(d)
  BY <1>2, <1>5 DEF Holds
<1>7. ASSUME Len(d) < t + l + n PROVE Whole(d) = {}
  <2>1. ~(t + l + n <= Len(d))
    BY <1>3, <1>7
  <2>. QED  BY <1>3, <1>4, <1>6, <2>1 DEF Whole
<1>8. ASSUME Len(d) >= t + l + n, NEW h PROVE h \in Whole(d) <=> h = h0
  <2>1. t + l + n <= Len(d) /\ Len(d) >= t + l
    BY <1>3, <1>8
  <2>2. Header(d) = {h0}
    BY <1>3, <1>4, <2>1
  <2>. QED  BY <1>6, <2>1, <2>2 DEF Whole
<1>. QED  BY <1>1, <1>5, <1>7, <1>8 DEF h0

LEMMA BerTypes ==
  ASSUME NEW d \in Seq(Octet), d # <<>>, NEW h \in BerHeader(d)
  PROVE  h.size \in Nat /\ h.length \in Nat /\ h.length < UsizeSize
<1>1. Len(d) \in Nat /\ Len(d) >= 1 /\ \A i \in 1..Len(d) : d[i] \in Octet
  OBVIOUS
<1>2. TagLength(d) \in Nat
  <2>. DEFINE lasts == {i \in 2..4 : i <= Len(d) /\ d[i] < 128}
  <2>1. CASE lasts = {}
    BY <2>1 DEF TagLength
  <2>2. CASE lasts # {}
    <3>1. lasts \subseteq Nat
      OBVIOUS
    <3>2. Min(lasts) \in Nat
      BY <2>2, <3>1, Least
    <3>. QED  BY <3>2 DEF TagLength
  <2>. QED  BY <2>1, <2>2
<1>3. PICK t \in Nat : t = TagLength(d)
  BY <1>2
<1>4. t # 0 /\ Len(d) > t /\ d[t + 1] \in Octet
  <2>1. ~(t = 0 \/ Len(d) <= t)
    BY <1>3 DEF BerHeader
  <2>2. t # 0 /\ Len(d) > t /\ t + 1 \in 1..Len(d)
    BY <1>1, <2>1
  <2>. QED  BY <1>1, <2>2
<1>5. ~(t = 0 \/ Len(d) <= t)
  BY <1>1, <1>4
<1>6. CASE d[t + 1] < 128
  <2>1. h = [tag |-> SubSeq(d, 1, t), length |-> d[t + 1], size |-> t + 1]
    BY <1>3, <1>5, <1>6 DEF BerHeader
  <2>2. h.size = t + 1 /\ h.length = d[t + 1]
    BY <2>1
  <2>3. d[t + 1] \in Nat /\ d[t + 1] < 256
    BY <1>4, Octets
  <2>. QED  BY <2>2, <2>3, UsizeHoldsAByte
<1>7. CASE ~(d[t + 1] < 128)
  <2>1. PICK c \in Nat : c = d[t + 1] % 128
    BY <1>4, Octets
  <2>2. /\ ~(c = 0 \/ c > UsizeBytes \/ Len(d) < t + 1 + c)
        /\ h = [tag |-> SubSeq(d, 1, t), length |-> Number(SubSeq(d, t + 2, t + 1 + c)),
                size |-> t + 1 + c]
    BY <1>3, <1>5, <1>7, <2>1 DEF BerHeader
  <2>. DEFINE s == SubSeq(d, t + 2, t + 1 + c)
  <2>3. s \in Seq(Octet) /\ Len(s) = c
    <3>1. PICK a \in Nat, b \in Nat : a = t + 2 /\ b = t + 1 + c
      OBVIOUS
    <3>2. 1 <= a /\ a <= b + 1 /\ b <= Len(d) /\ b - a + 1 = c
      BY <1>1, <2>2, <3>1
    <3>3. SubSeq(d, a, b) \in Seq(Octet) /\ Len(SubSeq(d, a, b)) = b - a + 1
      BY <3>2, Slice, Zenon
    <3>. QED  BY <3>1, <3>2, <3>3
  <2>4. h.length = Number(s) /\ h.size = t + 1 + c
    BY <2>2
  <2>. HIDE DEF s
  <2>5. Len(s) <= UsizeBytes
    BY <2>2, <2>3, UsizeAssumption
  <2>6. Number(s) \in Nat /\ Number(s) < UsizeSize
    BY <2>3, <2>5, NumberFits
  <2>. QED  BY <2>4, <2>6
<1>. QED  BY <1>6, <1>7

LEMMA SimpleTypes ==
  ASSUME NEW d \in Seq(Octet), d # <<>>, NEW h \in SimpleHeader(d)
  PROVE  h.size \in Nat /\ h.length \in Nat
<1>1. PICK m \in Nat : m = Len(d)
  OBVIOUS
<1>2. ~(d[1] = 255 \/ m < 2)
  BY <1>1 DEF SimpleHeader
<1>3. CASE d[2] # 255
  <2>1. h = [tag |-> <<d[1]>>, length |-> d[2], size |-> 2]
    BY <1>1, <1>2, <1>3 DEF SimpleHeader
  <2>2. 2 \in 1..Len(d)
    BY <1>1, <1>2
  <2>3. d[2] \in Nat
    BY <2>2, Octets
  <2>4. h.size = 2 /\ h.length = d[2]
    BY <2>1
  <2>. QED  BY <2>3, <2>4
<1>4. CASE d[2] = 255
  <2>1. /\ ~(m < 4)
        /\ h = [tag |-> <<d[1]>>, length |-> Number(SubSeq(d, 3, 4)), size |-> 4]
    BY <1>1, <1>2, <1>4 DEF SimpleHeader
  <2>2. SubSeq(d, 3, 4) \in Seq(Octet)
    <3>1. 3 \in Nat /\ 4 \in Nat /\ 1 <= 3 /\ 3 <= 4 + 1 /\ 4 <= Len(d)
      BY <1>1, <2>1
    <3>. QED  BY <3>1, Slice, Zenon
  <2>3. Number(SubSeq(d, 3, 4)) \in Nat
    <3>. DEFINE s == SubSeq(d, 3, 4)
    <3>1. s \in Seq(Octet)
      BY <2>2
    <3>. HIDE DEF s
    <3>2. PICK f : Along256(f, s, Len(s)) /\ Number(s) = f[Len(s)]
      BY <3>1, NumberIs
    <3>3. Len(s) \in 0..Len(s)
      BY <3>1
    <3>4. Number(s) \in Nat
      BY <3>2, <3>3 DEF Along256
    <3>. QED  BY <3>4 DEF s
  <2>4. h.size = 4 /\ h.length = Number(SubSeq(d, 3, 4))
    BY <2>1
  <2>. QED  BY <2>3, <2>4
<1>. QED  BY <1>3, <1>4

\* Where every header promises more than there is nothing is found, wrapped or not
LEMMA NothingWhole ==
  ASSUME codec \in {"ber", "simple"}, NEW d \in Seq(Octet), d # <<>>,
         \A h \in HeaderOf(codec, d) : h.size + h.length > Len(d)
  PROVE  Whole(d) = {}
<1>. SUFFICES ASSUME NEW h \in Whole(d) PROVE FALSE
  OBVIOUS
<1>1. h \in HeaderOf(codec, d) /\ Holds(d, h.size, TotalLen(h)) /\ h.size + h.length > Len(d)
  BY DEF Whole, Header, HeaderOf
<1>2. Len(d) \in Nat
  OBVIOUS
<1>3. CASE codec = "ber"
  <2>1. h \in BerHeader(d) /\ TotalLen(h) = Usize(h.size + h.length)
    BY <1>1, <1>3 DEF HeaderOf, TotalLen
  <2>2. h.size \in Nat /\ h.length \in Nat /\ h.length < UsizeSize
    BY <2>1, BerTypes
  <2>3. PICK size \in Nat, length \in Nat : size = h.size /\ length = h.length
    BY <2>2
  <2>4. UsizeSize \in Nat
    BY UsizeHoldsAByte
  <2>5. CASE size + length < UsizeSize
    <3>1. Usize(size + length) = size + length
      BY <2>5, SmallIsNotWrapped
    <3>. QED  BY <1>1, <1>2, <2>1, <2>3, <3>1 DEF Holds
  <2>6. CASE size + length >= UsizeSize
    <3>1. Usize(size + length) < size
      BY <2>2, <2>3, <2>6, WrappedIsLess
    <3>2. Usize(size + length) \in Int
      BY <2>4, UsizeHoldsAByte DEF Usize
    <3>. QED  BY <1>1, <1>2, <2>1, <2>3, <3>1, <3>2 DEF Holds
  <2>. QED  BY <2>4, <2>5, <2>6
<1>4. CASE codec = "simple"
  <2>1. h \in SimpleHeader(d) /\ TotalLen(h) = h.size + h.length
    BY <1>1, <1>4 DEF HeaderOf, TotalLen
  <2>2. h.size \in Nat /\ h.length \in Nat
    BY <2>1, SimpleTypes
  <2>. QED  BY <1>1, <1>2, <2>1, <2>2 DEF Holds
<1>. QED  BY <1>3, <1>4
-----------------------------------------------------------------------------
(* Objects in a row *)

\* f goes along n objects
AlongObjects(f, s, n) ==
  f \in [0..n -> Seq(Octet)] /\ f[0] = <<>> /\ \A i \in 1..n : f[i] = f[i - 1] \o Encode(s[i])

LEMMA EncodeAllIs ==
  ASSUME NEW s \in Seq(Object)
  PROVE  \E f : AlongObjects(f, s, Len(s)) /\ EncodeAll(s) = f[Len(s)]
<1>. DEFINE n == Len(s)
           Along(f) == [i \in 0..n |-> IF i = 0 THEN <<>> ELSE f[i - 1] \o Encode(s[i])]
           g == [i \in 1..n |-> [x \in Seq(Octet) |-> x \o Encode(s[i])]]
           upTo == CHOOSE f : f = Along(f)
           S == {i \in 0..n : upTo[i] \in Seq(Octet)}
<1>1. n \in Nat /\ \A i \in 1..n : Encode(s[i]) \in Seq(Octet)
  <2>1. \A i \in 1..n : s[i] \in Object
    OBVIOUS
  <2>2. n \in Nat
    OBVIOUS
  <2>. QED  BY <2>1, <2>2, ObjectIs DEF Joined
<1>2. EncodeAll(s) = upTo[n]
  BY DEF EncodeAll
<1>. HIDE DEF n
<1>3. \A i \in 1..n : /\ g[i] \in [Seq(Octet) -> Seq(Octet)]
                      /\ \A x \in Seq(Octet) : g[i][x] = x \o Encode(s[i])
  BY <1>1
<1>. HIDE DEF g
<1>4. \E f : Goes(f, Seq(Octet), <<>>, g, n)
  <2>1. <<>> \in Seq(Octet)
    OBVIOUS
  <2>. QED  BY <1>1, <1>3, <2>1, GoesOnce, Zenon
<1>5. PICK f : f = Along(f)
  <2>1. PICK f : Goes(f, Seq(Octet), <<>>, g, n)
    BY <1>4
  <2>2. /\ f \in [0..n -> Seq(Octet)] /\ f[0] = <<>>
        /\ \A i \in 1..n : f[i] = f[i - 1] \o Encode(s[i])
    <3>1. /\ f \in [0..n -> Seq(Octet)] /\ f[0] = <<>>
          /\ \A i \in 1..n : f[i] = g[i][f[i - 1]] /\ f[i - 1] \in Seq(Octet)
      BY <1>1, <2>1, GoesAre, Zenon
    <3>. QED  BY <1>3, <3>1, Zenon
  <2>3. ASSUME NEW i \in 0..n PROVE f[i] = Along(f)[i]
    <3>1. Along(f)[i] = IF i = 0 THEN <<>> ELSE f[i - 1] \o Encode(s[i])
      BY Zenon
    <3>2. i # 0 => i \in 1..n
      BY <1>1
    <3>. QED  BY <2>2, <3>1, <3>2, Zenon
  <2>4. f = Along(f)
    <3>1. f = [i \in 0..n |-> f[i]]
      BY <2>2, Zenon
    <3>2. \A i \in 0..n : Along(f)[i] = f[i]
      BY <2>3, Zenon
    <3>. QED  BY <3>1, <3>2, Zenon
  <2>. QED  BY <2>4
<1>6. upTo = Along(upTo)
  BY <1>5
<1>. HIDE DEF upTo
<1>7. upTo[0] = <<>> /\ \A i \in 1..n : upTo[i] = upTo[i - 1] \o Encode(s[i])
  BY <1>1, <1>6
<1>8. 0 \in S /\ \A i \in 1..n : i - 1 \in S => i \in S
  <2>1. ASSUME NEW i \in 1..n, upTo[i - 1] \in Seq(Octet) PROVE upTo[i] \in Seq(Octet)
    <3>1. \A x, y \in Seq(Octet) : x \o y \in Seq(Octet)
      OBVIOUS
    <3>. QED  BY <1>1, <1>7, <2>1, <3>1, Zenon
  <2>2. 0 \in S
    <3>1. 0 \in 0..n /\ <<>> \in Seq(Octet)
      BY <1>1
    <3>. QED  BY <1>7, <3>1, Zenon
  <2>. QED  BY <2>1, <2>2
<1>. HIDE DEF S
<1>9. \A i \in 0..n : i \in S
  BY <1>1, <1>8, Induct, Zenon
<1>10. upTo \in [0..n -> Seq(Octet)]
  <2>1. \A i \in 0..n : upTo[i] \in Seq(Octet)
    BY <1>9 DEF S
  <2>. QED  BY <1>6, <2>1
<1>11. AlongObjects(upTo, s, n)
  BY <1>7, <1>10 DEF AlongObjects
<1>. QED  BY <1>2, <1>11 DEF n

\* What there is of the objects in a row is the same however many follow
LEMMA RowsAgree ==
  ASSUME NEW s \in Seq(Object),
         NEW f, AlongObjects(f, s, Len(s)), NEW n \in 0..Len(s)
  PROVE  EncodeAll(SubSeq(s, 1, n)) = f[n]
<1>. DEFINE r == SubSeq(s, 1, n)
<1>1. r \in Seq(Object) /\ Len(r) = n /\ \A i \in 1..n : r[i] = s[i]
  <2>1. \A i \in 1..n : s[i] \in Object
    OBVIOUS
  <2>2. n \in Nat /\ (1 <= n => n - 1 + 1 = n) /\ (~(1 <= n) => n = 0)
    OBVIOUS
  <2>. QED  BY <2>1, <2>2, SubSeqProperties
<1>. HIDE DEF r
<1>2. PICK h : AlongObjects(h, r, n) /\ EncodeAll(r) = h[n]
  BY <1>1, EncodeAllIs
<1>. DEFINE S == {i \in 0..n : h[i] = f[i]}
<1>3. n \in Nat /\ \A i \in 1..n : i \in 1..Len(s)
  OBVIOUS
<1>4. 0 \in S /\ \A i \in 1..n : i - 1 \in S => i \in S
  <2>1. 0 \in S
    BY <1>2, <1>3 DEF AlongObjects
  <2>2. ASSUME NEW i \in 1..n, i - 1 \in S PROVE i \in S
    <3>1. h[i] = h[i - 1] \o Encode(s[i]) /\ f[i] = f[i - 1] \o Encode(s[i])
      BY <1>1, <1>2, <1>3, Zenon DEF AlongObjects
    <3>2. h[i - 1] = f[i - 1] /\ i \in 0..n
      BY <2>2, <1>3
    <3>. QED  BY <3>1, <3>2, Zenon
  <2>. QED  BY <2>1, <2>2
<1>. HIDE DEF S
<1>5. n \in S
  BY <1>3, <1>4, Induct
<1>. QED  BY <1>2, <1>5 DEF r, S

\* b goes on where a ends
Extends(a, b) == Len(a) <= Len(b) /\ \A i \in 1..Len(a) : b[i] = a[i]

LEMMA Appended ==
  ASSUME NEW a \in Seq(Octet), NEW b \in Seq(Octet)
  PROVE  /\ a \o b \in Seq(Octet) /\ Len(a \o b) = Len(a) + Len(b)
         /\ \A i \in 1..Len(a) : (a \o b)[i] = a[i]
         /\ \A i \in 1..Len(b) : (a \o b)[Len(a) + i] = b[i]
OBVIOUS

LEMMA RowExtends ==
  ASSUME NEW s, NEW n \in Nat, NEW f, AlongObjects(f, s, n),
         \A i \in 1..n : Encode(s[i]) \in Seq(Octet),
         NEW k \in 0..n, NEW m \in k..n
  PROVE  Extends(f[k], f[m])
<1>. DEFINE S == {j \in 0..n - k : Extends(f[k], f[k + j])}
<1>1. n - k \in Nat /\ f[k] \in Seq(Octet) /\ Len(f[k]) \in Nat
  BY DEF AlongObjects
<1>2. 0 \in S
  <2>1. k + 0 = k /\ 0 \in 0..n - k /\ Len(f[k]) <= Len(f[k])
    BY <1>1
  <2>. QED  BY <2>1 DEF Extends
<1>3. ASSUME NEW j \in 1..n - k, j - 1 \in S PROVE j \in S
  <2>1. k + j \in 1..n /\ k + j - 1 \in 0..n /\ j \in 0..n - k
    OBVIOUS
  <2>2. PICK a \in Seq(Octet) : a = f[k + j - 1]
    BY <2>1 DEF AlongObjects
  <2>3. PICK b \in Seq(Octet) : b = Encode(s[k + j])
    BY <2>1
  <2>4. f[k + j] = a \o b
    <3>1. PICK q \in 1..n : q = k + j /\ q - 1 = k + j - 1
      BY <2>1
    <3>2. f[q] = f[q - 1] \o Encode(s[q])
      BY Zenon DEF AlongObjects
    <3>. QED  BY <2>2, <2>3, <3>1, <3>2, Zenon
  <2>5. Extends(f[k], a)
    BY <1>3, <2>1, <2>2
  <2>6. Extends(f[k], a \o b)
    <3>1. Len(a \o b) = Len(a) + Len(b) /\ Len(a) \in Nat /\ Len(b) \in Nat
      BY Appended
    <3>2. \A x, y, z \in Nat : x <= y => x <= y + z
      OBVIOUS
    <3>3. Len(f[k]) <= Len(a \o b)
      BY <1>1, <2>5, <3>1, <3>2 DEF Extends
    <3>4. ASSUME NEW i \in 1..Len(f[k]) PROVE (a \o b)[i] = f[k][i]
      <4>1. i \in 1..Len(a)
        BY <1>1, <2>5, <3>1 DEF Extends
      <4>. QED  BY <2>5, <4>1, Appended DEF Extends
    <3>. QED  BY <3>3, <3>4 DEF Extends
  <2>. QED  BY <2>1, <2>4, <2>6
<1>. HIDE DEF S
<1>4. m - k \in S
  <2>1. \A j \in 0..n - k : j \in S
    BY <1>1, <1>2, <1>3, Induct, Zenon
  <2>. QED  BY <2>1
<1>5. k + (m - k) = m
  OBVIOUS
<1>. QED  BY <1>4, <1>5 DEF S
-----------------------------------------------------------------------------
(* The iterator *)

\* The bytes of the first k objects
UpTo(k) == EncodeAll(SubSeq(written, 1, k))

\* The data is the objects and a tail, cut somewhere
DataLaid ==
  /\ codec \in {"ber", "simple"}
  /\ written \in Seq({o \in Object : o.codec = codec})
  /\ \E tail \in Tails :
       LET all == EncodeAll(written) \o tail IN
       \E cut \in 0..Len(all) : data = SubSeq(all, 1, cut)

\* The iterator is behind an object, and has yielded that and those before it
ItemsYielded ==
  /\ items \in Seq([tag : Seq(Octet), value : Seq(Octet)])
  /\ Len(items) <= Len(written)
  /\ \A i \in 1..Len(items) : items[i] = [tag |-> written[i].tag, value |-> written[i].value]
  /\ pos = Len(UpTo(Len(items))) /\ pos <= Len(data)

\* ... at the last complete one once it has stopped
Stopped ==
  /\ stop \in {"no", "end", "malformed"}
  /\ stop # "no" =>
       /\ Len(items) = Complete
       /\ (stop = "end") = (After = <<>> \/ (After # <<>> /\ Head(After) \in
                                  (IF codec = "ber" THEN {0, 255} ELSE {255})))

TlvInv == DataLaid /\ ItemsYielded /\ Stopped

\* f goes along what was written, n objects; the data is those and a tail
Laid(f, n, tail) ==
  /\ n = Len(written) /\ n \in Nat
  /\ \A i \in 1..n : written[i] \in Object /\ written[i].codec = codec
  /\ AlongObjects(f, written, n)
  /\ \A k \in 0..n : UpTo(k) = f[k]
  /\ tail \in Tails /\ tail \in Seq(Octet)
  /\ data \in Seq(Octet) /\ Len(data) \in Nat
  /\ \A i \in 1..Len(data) : i <= Len(f[n]) => data[i] = f[n][i]
  /\ \A i \in 1..Len(data) - Len(f[n]) :
       i <= Len(tail) /\ data[Len(f[n]) + i] = tail[i]

LEMMA LaidOut ==
  ASSUME DataLaid
  PROVE  \E f, n, tail : Laid(f, n, tail)
<1>1. written \in Seq(Object)
  <2>1. \A c : {o \in Object : o.codec = c} \subseteq Object
    OBVIOUS
  <2>. QED  BY <2>1 DEF DataLaid
<1>2. PICK n \in Nat : n = Len(written)
  BY <1>1
<1>3. \A i \in 1..n : written[i] \in Object /\ written[i].codec = codec
  BY <1>2 DEF DataLaid
<1>4. PICK f : AlongObjects(f, written, n) /\ EncodeAll(written) = f[n]
  BY <1>1, <1>2, EncodeAllIs
<1>5. \A k \in 0..n : UpTo(k) = f[k]
  BY <1>1, <1>2, <1>4, RowsAgree, Zenon DEF UpTo
<1>6. PICK tail \in Tails : \E cut \in 0..Len(f[n] \o tail) : data = SubSeq(f[n] \o tail, 1, cut)
  BY <1>4 DEF DataLaid
<1>7. tail \in Seq(Octet)
  BY <1>6, TailsAssumption
<1>8. PICK a \in Seq(Octet) : a = f[n]
  BY <1>2, <1>4 DEF AlongObjects
<1>9. PICK b : b = a \o tail
  OBVIOUS
<1>10. /\ b \in Seq(Octet) /\ Len(b) = Len(a) + Len(tail)
       /\ \A i \in 1..Len(a) : b[i] = a[i]
       /\ \A i \in 1..Len(tail) : b[Len(a) + i] = tail[i]
  BY <1>7, <1>9, Appended, Zenon
<1>11. PICK cut \in 0..Len(b) : data = SubSeq(b, 1, cut)
  BY <1>6, <1>8, <1>9
<1>12. PICK la \in Nat, lt \in Nat : la = Len(a) /\ lt = Len(tail) /\ Len(b) = la + lt
  BY <1>7, <1>10
<1>13. data \in Seq(Octet) /\ Len(data) = cut /\ \A i \in 1..cut : data[i] = b[i]
  <2>1. cut \in Nat /\ cut <= Len(b)
    BY <1>11, <1>12
  <2>. QED  BY <1>10, <1>11, <2>1, FirstPart, Zenon
<1>14. ASSUME NEW i \in 1..cut, i <= la PROVE data[i] = a[i]
  <2>1. i \in 1..la
    BY <1>12, <1>14
  <2>. QED  BY <1>10, <1>12, <1>13, <2>1, Zenon
<1>15. ASSUME NEW i \in 1..cut - la PROVE i <= lt /\ data[la + i] = tail[i]
  <2>1. i \in 1..lt /\ la + i \in 1..cut /\ i <= lt
    BY <1>11, <1>12
  <2>. QED  BY <1>10, <1>12, <1>13, <2>1, Zenon
<1>16. Laid(f, n, tail)
  <2>1. cut \in Nat
    BY <1>11, <1>12
  <2>. QED  BY <1>2, <1>3, <1>4, <1>5, <1>6, <1>7, <1>8, <1>12, <1>13, <1>14, <1>15, <2>1, Zenon DEF Laid
<1>. QED  BY <1>16

\* Behind the k-th object
Behind(d, f, k) == d = SubSeq(data, Len(f[k]) + 1, Len(data))

LEMMA BehindIs ==
  ASSUME NEW f, NEW n, NEW tail, Laid(f, n, tail),
         NEW k \in 0..n, Len(f[k]) <= Len(data), NEW d, Behind(d, f, k)
  PROVE  /\ d \in Seq(Octet) /\ Len(d) = Len(data) - Len(f[k])
         /\ \A i \in 1..Len(d) : d[i] = data[Len(f[k]) + i]
<1>1. PICK p \in Nat, m \in Nat : p = Len(f[k]) /\ m = Len(data) /\ p <= m
  BY DEF Laid, AlongObjects
<1>2. PICK v \in Nat : v = m - p /\ p + v = m /\ p + v <= Len(data)
  <2>1. m - p \in Nat /\ p + (m - p) = m /\ m <= m
    BY <1>1
  <2>. QED  BY <1>1, <2>1, Zenon
<1>3. d = SubSeq(data, p + 1, p + v) /\ data \in Seq(Octet)
  BY <1>1, <1>2, Zenon DEF Behind, Laid
<1>4. d \in Seq(Octet) /\ Len(d) = v /\ \A i \in 1..v : d[i] = data[p + i]
  BY <1>2, <1>3, PartOf, Zenon
<1>. QED  BY <1>1, <1>2, <1>4, Zenon

\* ... is the next one, or as much of it as there is
LEMMA NextFronts ==
  ASSUME NEW f, NEW n, NEW tail, Laid(f, n, tail),
         NEW k \in 0..n - 1, Len(f[k]) <= Len(data), NEW d, Behind(d, f, k), d # <<>>
  PROVE  /\ written[k + 1] \in Object /\ written[k + 1].codec = codec
         /\ Fronts(d, Encode(written[k + 1]))
         /\ Len(f[k + 1]) = Len(f[k]) + Len(Encode(written[k + 1]))
<1>1. n \in Nat /\ k \in 0..n /\ k + 1 \in 1..n /\ (k + 1) - 1 = k /\ k + 1 \in (k + 1)..n
      /\ n \in (k + 1)..n /\ k + 1 \in 0..n
  BY DEF Laid
<1>2. written[k + 1] \in Object /\ written[k + 1].codec = codec
  BY <1>1 DEF Laid
<1>3. /\ d \in Seq(Octet) /\ Len(d) = Len(data) - Len(f[k])
      /\ \A i \in 1..Len(d) : d[i] = data[Len(f[k]) + i]
  BY <1>1, BehindIs
<1>4. \A i \in 1..n : Encode(written[i]) \in Seq(Octet)
  <2>1. \A i \in 1..n : written[i] \in Object
    BY DEF Laid
  <2>. QED  BY <2>1, ObjectIs DEF Joined
<1>5. PICK e \in Seq(Octet) : e = Encode(written[k + 1])
  BY <1>1, <1>4
<1>6. PICK a \in Seq(Octet) : a = f[k]
  BY <1>1 DEF Laid, AlongObjects
<1>7. f[k + 1] = a \o e
  <2>1. AlongObjects(f, written, n)
    BY DEF Laid
  <2>2. f[k + 1] = f[(k + 1) - 1] \o Encode(written[k + 1])
    BY <1>1, <2>1, Zenon DEF AlongObjects
  <2>. QED  BY <1>1, <1>5, <1>6, <2>2, Zenon
<1>8. PICK b : b = a \o e
  OBVIOUS
<1>9. Len(b) = Len(a) + Len(e) /\ \A i \in 1..Len(e) : b[Len(a) + i] = e[i]
  BY <1>8, Appended, Zenon
<1>10. PICK la \in Nat, le \in Nat, m \in Nat, ld \in Nat :
         la = Len(a) /\ le = Len(e) /\ m = Len(data) /\ ld = Len(d)
  <2>1. \A s \in Seq(Octet) : Len(s) \in Nat
    OBVIOUS
  <2>2. Len(data) \in Nat
    BY DEF Laid
  <2>. QED  BY <1>3, <2>1, <2>2, Zenon
<1>11. Extends(f[k + 1], f[n])
  BY <1>1, <1>4, RowExtends DEF Laid
<1>12. Len(b) = la + le /\ ld = m - la
  BY <1>3, <1>6, <1>9, <1>10
<1>13. Len(f[n]) \in Nat /\ la + le <= Len(f[n])
  <2>1. Len(f[n]) \in Nat
    BY <1>1 DEF Laid, AlongObjects
  <2>. QED  BY <1>7, <1>8, <1>11, <1>12, <2>1, Zenon DEF Extends
<1>14. ASSUME NEW i \in 1..ld, i <= le PROVE d[i] = e[i]
  <2>1. la + i \in 1..m /\ la + i <= Len(f[n]) /\ la + i \in 1..la + le /\ i \in 1..le
    BY <1>10, <1>12, <1>13, <1>14
  <2>2. d[i] = data[la + i]
    BY <1>3, <1>6, <1>10, Zenon
  <2>3. data[la + i] = f[n][la + i]
    BY <1>10, <2>1, Zenon DEF Laid
  <2>4. f[n][la + i] = b[la + i]
    BY <1>7, <1>8, <1>11, <1>12, <2>1, Zenon DEF Extends
  <2>5. b[la + i] = e[i]
    BY <1>9, <1>10, <2>1, Zenon
  <2>. QED  BY <2>2, <2>3, <2>4, <2>5, Zenon
<1>15. Fronts(d, e)
  BY <1>3, <1>10, <1>14, Zenon DEF Fronts
<1>. QED  BY <1>2, <1>5, <1>6, <1>7, <1>8, <1>9, <1>15, Zenon

\* Behind the last one is a tail, as far as the data goes
LEMMA TailBehind ==
  ASSUME NEW f, NEW n, NEW tail, Laid(f, n, tail),
         Len(f[n]) <= Len(data), NEW d, Behind(d, f, n), d # <<>>
  PROVE  Len(d) \in 1..Len(tail) /\ d = SubSeq(tail, 1, Len(d)) /\ d[1] = tail[1]
<1>1. n \in 0..n
  BY DEF Laid
<1>2. /\ d \in Seq(Octet) /\ Len(d) = Len(data) - Len(f[n])
      /\ \A i \in 1..Len(d) : d[i] = data[Len(f[n]) + i]
  <2>1. ASSUME NEW k \in 0..n, Len(f[k]) <= Len(data), Behind(d, f, k)
        PROVE  /\ d \in Seq(Octet) /\ Len(d) = Len(data) - Len(f[k])
               /\ \A i \in 1..Len(d) : d[i] = data[Len(f[k]) + i]
    BY <2>1, BehindIs
  <2>. QED  BY <1>1, <2>1, Zenon
<1>3. PICK ld \in Nat \ {0} : ld = Len(d)
  <2>1. \A s \in Seq(Octet) : s # <<>> => Len(s) \in Nat \ {0}
    OBVIOUS
  <2>. QED  BY <1>2, <2>1, Zenon
<1>4. \A i \in 1..ld : i <= Len(tail) /\ d[i] = tail[i]
  <2>1. \A i \in 1..Len(data) - Len(f[n]) : i <= Len(tail) /\ data[Len(f[n]) + i] = tail[i]
    BY DEF Laid
  <2>. QED  BY <1>2, <1>3, <2>1, Zenon
<1>5. PICK s \in Seq(Octet) : s = tail
  BY DEF Laid
<1>6. ld \in 1..Len(s) /\ 1 \in 1..ld
  <2>1. ld \in 1..ld /\ 1 \in 1..ld
    OBVIOUS
  <2>2. ld <= Len(s)
    BY <1>4, <1>5, <2>1
  <2>. QED  BY <2>1, <2>2
<1>7. PICK r : r = SubSeq(s, 1, ld)
  OBVIOUS
<1>8. r \in Seq(Octet) /\ Len(r) = ld /\ \A i \in 1..ld : r[i] = s[i]
  <2>1. ld \in Nat /\ ld <= Len(s)
    BY <1>6
  <2>. QED  BY <1>7, <2>1, FirstPart, Zenon
<1>9. r = d
  <2>1. \A i \in 1..Len(r) : r[i] = d[i]
    BY <1>4, <1>5, <1>8, Zenon
  <2>. QED  BY <1>2, <1>3, <1>8, <2>1, SeqEqual, Zenon
<1>. QED  BY <1>3, <1>4, <1>5, <1>6, <1>7, <1>9

\* How far the complete objects go
LEMMA CompleteIs ==
  ASSUME NEW f, NEW n, NEW tail, Laid(f, n, tail)
  PROVE  /\ Complete \in 0..n /\ Len(f[Complete]) <= Len(data)
         /\ \A k \in 0..n : Len(f[k]) <= Len(data) => k <= Complete
<1>. DEFINE S == {k \in 0..n : Len(f[k]) <= Len(data)}
<1>1. n \in Nat /\ n = Len(written) /\ Len(data) \in Nat /\ f[0] = <<>>
  BY DEF Laid, AlongObjects
<1>2. Complete = Max(S)
  <2>1. \A k \in 0..n : EncodeAll(SubSeq(written, 1, k)) = f[k]
    BY DEF Laid, UpTo
  <2>2. {k \in 0..Len(written) : Len(EncodeAll(SubSeq(written, 1, k))) <= Len(data)} = S
    BY <1>1, <2>1, Zenon
  <2>. QED  BY <2>2, Zenon DEF Complete
<1>3. S \subseteq 0..n /\ S # {}
  <2>1. 0 \in S
    <3>1. Len(<<>>) = 0
      OBVIOUS
    <3>. QED  BY <1>1, <3>1
  <2>. QED  BY <2>1
<1>4. Max(S) \in S /\ \A k \in S : k <= Max(S)
  <2>. HIDE DEF S
  <2>. QED  BY <1>1, <1>3, Greatest, Zenon
<1>. QED  BY <1>2, <1>4, Zenon

LEMMA LengthsGrow ==
  ASSUME NEW f, NEW n, NEW tail, Laid(f, n, tail), NEW k \in 0..n, NEW m \in k..n
  PROVE  Len(f[k]) <= Len(f[m])
<1>1. \A i \in 1..n : Encode(written[i]) \in Seq(Octet)
  <2>1. \A i \in 1..n : written[i] \in Object
    BY DEF Laid
  <2>. QED  BY <2>1, ObjectIs DEF Joined
<1>2. n \in Nat /\ AlongObjects(f, written, n)
  BY DEF Laid
<1>3. Extends(f[k], f[m])
  BY <1>1, <1>2, RowExtends
<1>. QED  BY <1>3 DEF Extends

\* The next object ends behind this one, by its length
LEMMA NextLength ==
  ASSUME NEW f, NEW n, NEW tail, Laid(f, n, tail), NEW k \in 0..n - 1
  PROVE  /\ Len(f[k]) \in Nat /\ Len(Encode(written[k + 1])) \in Nat \ {0}
         /\ Len(f[k + 1]) = Len(f[k]) + Len(Encode(written[k + 1]))
<1>1. n \in Nat /\ k \in 0..n /\ k + 1 \in 1..n /\ (k + 1) - 1 = k
  BY DEF Laid
<1>2. PICK o \in Object : o = written[k + 1]
  BY <1>1 DEF Laid
<1>3. Encode(o) \in Seq(Octet) /\ Len(Encode(o)) \in Nat \ {0}
  <2>1. Len(Encode(o)) = Len(o.tag) + Len(LengthOf(o)) + Len(o.value)
    BY ObjectIs DEF Joined
  <2>2. Len(o.tag) \in 1..4 /\ Len(LengthOf(o)) \in 1..3 /\ Len(o.value) \in Nat
    BY ObjectIs
  <2>3. \A x \in 1..4, y \in 1..3, z \in Nat : x + y + z \in Nat \ {0}
    OBVIOUS
  <2>4. Encode(o) \in Seq(Octet)
    BY ObjectIs DEF Joined
  <2>. QED  BY <2>1, <2>2, <2>3, <2>4, Zenon
<1>4. PICK a \in Seq(Octet) : a = f[k]
  BY <1>1 DEF Laid, AlongObjects
<1>5. f[k + 1] = a \o Encode(o)
  <2>1. AlongObjects(f, written, n)
    BY DEF Laid
  <2>2. f[k + 1] = f[(k + 1) - 1] \o Encode(written[k + 1])
    BY <1>1, <2>1, Zenon DEF AlongObjects
  <2>. QED  BY <1>1, <1>2, <1>4, <2>2, Zenon
<1>6. Len(f[k + 1]) = Len(a) + Len(Encode(o))
  BY <1>3, <1>5, Appended, Zenon
<1>7. Len(a) \in Nat
  OBVIOUS
<1>. QED  BY <1>2, <1>3, <1>4, <1>6, <1>7, Zenon

\* The k-th is the last complete one if the next one is not there or not complete
LEMMA CompleteHere ==
  ASSUME NEW f, NEW n, NEW tail, Laid(f, n, tail),
         NEW k \in 0..n, Len(f[k]) <= Len(data),
         k < n => Len(data) < Len(f[k]) + Len(Encode(written[k + 1]))
  PROVE  k = Complete
<1>1. PICK c \in 0..n : c = Complete /\ Len(f[c]) <= Len(data) /\ k <= c
  BY CompleteIs
<1>. SUFFICES ASSUME k < c PROVE FALSE
  BY <1>1
<1>2. n \in Nat /\ k \in 0..n - 1 /\ k + 1 \in 0..n /\ c \in (k + 1)..n /\ k < n
  BY <1>1 DEF Laid
<1>3. Len(f[k + 1]) <= Len(f[c])
  BY <1>2, LengthsGrow
<1>4. PICK x \in Nat, y \in Nat : x = Len(f[k]) /\ y = Len(Encode(written[k + 1])) /\ Len(f[k + 1]) = x + y
  BY <1>2, NextLength, Zenon
<1>5. Len(data) \in Nat /\ Len(f[c]) \in Nat
  BY <1>1 DEF Laid, AlongObjects
<1>6. x + y <= Len(f[c]) /\ Len(data) < x + y
  BY <1>2, <1>3, <1>4, Zenon
<1>. QED  BY <1>1, <1>5, <1>6

\* What is taken out of a whole object is its tag and its value
LEMMA TakenIs ==
  ASSUME NEW o \in Object, NEW d, Fronts(d, Encode(o)), Len(d) >= Len(Encode(o)),
         NEW h, h = Parsed(o.tag, LengthOf(o), o.value)
  PROVE  h.tag = o.tag /\ SubSeq(d, h.size + 1, Len(Encode(o))) = o.value
<1>1. /\ o.value \in Seq(Octet) /\ Joined(Encode(o), o.tag, LengthOf(o), o.value)
      /\ d \in Seq(Octet)
  BY ObjectIs DEF Fronts
<1>2. PICK t \in Nat, l \in Nat, v \in Nat :
        t = Len(o.tag) /\ l = Len(LengthOf(o)) /\ v = Len(o.value) /\ Len(Encode(o)) = t + l + v
  <2>1. Len(o.tag) \in Nat /\ Len(LengthOf(o)) \in Nat /\ Len(o.value) \in Nat
    BY ObjectIs
  <2>. QED  BY <1>1, <2>1 DEF Joined
<1>3. h.tag = o.tag /\ h.size = t + l
  BY <1>2 DEF Parsed
<1>4. PICK p \in Nat : p = t + l /\ p + v = t + l + v
  OBVIOUS
<1>5. PICK m \in Nat : m = Len(d) /\ p + v <= m
  <2>1. Len(d) \in Nat
    BY <1>1
  <2>. QED  BY <1>2, <1>4, <2>1
<1>6. \A i \in 1..v : /\ p + i \in 1..m /\ p + i <= p + v
                       /\ p + i = t + l + i
  BY <1>4, <1>5
<1>7. PICK s : s = SubSeq(d, p + 1, p + v)
  OBVIOUS
<1>8. s \in Seq(Octet) /\ Len(s) = v /\ \A i \in 1..v : s[i] = d[p + i]
  <2>1. p + v <= Len(d)
    BY <1>5, Zenon
  <2>. QED  BY <1>1, <1>7, <2>1, PartOf, Zenon
<1>9. ASSUME NEW i \in 1..v PROVE s[i] = o.value[i]
  <2>1. d[p + i] = Encode(o)[p + i]
    BY <1>2, <1>4, <1>5, <1>6, Zenon DEF Fronts
  <2>2. Encode(o)[t + l + i] = o.value[i]
    BY <1>1, <1>2, Zenon DEF Joined
  <2>. QED  BY <1>6, <1>8, <2>1, <2>2, Zenon
<1>10. s = o.value
  BY <1>1, <1>2, <1>8, <1>9, SeqEqual, Zenon
<1>11. h.size + 1 = p + 1 /\ Len(Encode(o)) = p + v
  BY <1>2, <1>3, <1>4, Zenon
<1>. QED  BY <1>3, <1>7, <1>10, <1>11, Zenon

\* What is behind the objects yielded so far, d, and what the iterator may find there
Here(f, n, tail, k, d) ==
  /\ Laid(f, n, tail) /\ k = Len(items) /\ k \in 0..n
  /\ pos = Len(f[k]) /\ Len(f[k]) <= Len(data)
  /\ d = Rest /\ Behind(d, f, k) /\ d \in Seq(Octet)
  /\ Len(d) \in Nat /\ Len(d) = Len(data) - Len(f[k])

LEMMA HereIs ==
  ASSUME TlvInv
  PROVE  \E f, n, tail, k, d : Here(f, n, tail, k, d)
<1>1. PICK f, n, tail : Laid(f, n, tail)
  BY LaidOut DEF TlvInv
<1>2. n \in Nat /\ n = Len(written) /\ Len(data) \in Nat
  BY <1>1 DEF Laid
<1>3. PICK k \in Nat : k = Len(items)
  BY DEF TlvInv, ItemsYielded
<1>4. k \in 0..n
  BY <1>2, <1>3 DEF TlvInv, ItemsYielded
<1>5. pos = Len(f[k]) /\ pos <= Len(data)
  <2>1. UpTo(k) = f[k]
    BY <1>1, <1>4 DEF Laid
  <2>. QED  BY <1>3, <2>1 DEF TlvInv, ItemsYielded
<1>6. PICK d : d = Rest
  OBVIOUS
<1>7. Behind(d, f, k)
  BY <1>5, <1>6 DEF Rest, Behind
<1>8. d \in Seq(Octet) /\ Len(d) = Len(data) - Len(f[k])
  BY <1>1, <1>4, <1>5, <1>7, BehindIs
<1>9. Len(d) \in Nat
  BY <1>8
<1>10. Here(f, n, tail, k, d)
  BY <1>1, <1>3, <1>4, <1>5, <1>6, <1>7, <1>8, <1>9 DEF Here
<1>. QED  BY <1>10

\* Behind the last complete object is what After says
LEMMA AfterIs ==
  ASSUME NEW f, NEW n, NEW tail, NEW k, NEW d, Here(f, n, tail, k, d), k = Complete
  PROVE  After = d
<1>1. EncodeAll(SubSeq(written, 1, Complete)) = f[k]
  BY DEF Here, Laid, UpTo
<1>2. After = SubSeq(data, Len(f[k]) + 1, Len(data))
  BY <1>1, Zenon DEF After
<1>. QED  BY <1>2 DEF Here, Behind

\* An object that the iterator takes is the next one
LEMMA TakesNext ==
  ASSUME TlvInv, NEW f, NEW n, NEW tail, NEW k, NEW d, Here(f, n, tail, k, d),
         d # <<>>, d[1] \notin Filler(codec), NEW h \in Whole(d)
  PROVE  /\ k \in 0..n - 1
         /\ h.tag = written[k + 1].tag
         /\ TotalLen(h) = Len(Encode(written[k + 1]))
         /\ SubSeq(d, h.size + 1, TotalLen(h)) = written[k + 1].value
         /\ TotalLen(h) <= Len(d)
<1>1. n \in Nat /\ k \in 0..n /\ Laid(f, n, tail) /\ Behind(d, f, k) /\ Len(f[k]) <= Len(data)
  BY DEF Here, Laid
<1>2. ASSUME k = n PROVE FALSE
  <2>1. Len(d) \in 1..Len(tail) /\ d = SubSeq(tail, 1, Len(d)) /\ d[1] = tail[1]
    BY <1>1, <1>2, TailBehind
  <2>2. tail \in Tails
    BY <1>1 DEF Laid
  <2>3. codec \in {"ber", "simple"} /\ d \in Seq(Octet)
    BY DEF TlvInv, DataLaid, Here
  <2>4. ASSUME NEW h1 \in HeaderOf(codec, d) PROVE h1.size + h1.length > Len(d)
    <3>1. PICK j \in 1..Len(tail) : j = Len(d) /\ SubSeq(tail, 1, j) = d
      BY <2>1
    <3>2. CASE codec = "ber"
      <4>1. tail[1] \notin Filler("ber") /\ h1 \in BerHeader(SubSeq(tail, 1, j))
        BY <2>1, <2>4, <3>1, <3>2 DEF HeaderOf
      <4>. QED  BY <2>2, <3>1, <4>1, TailsAssumption, Zenon
    <3>3. CASE codec = "simple"
      <4>1. tail[1] \notin Filler("simple") /\ h1 \in SimpleHeader(SubSeq(tail, 1, j))
        BY <2>1, <2>4, <3>1, <3>3 DEF HeaderOf
      <4>. QED  BY <2>2, <3>1, <4>1, TailsAssumption, Zenon
    <3>. QED  BY <2>3, <3>2, <3>3
  <2>5. Whole(d) = {}
    BY <2>3, <2>4, NothingWhole
  <2>. QED  BY <2>5
<1>3. k \in 0..n - 1
  BY <1>1, <1>2
<1>4. PICK o : o = written[k + 1] /\ o \in Object /\ o.codec = codec /\ Fronts(d, Encode(o))
  BY <1>1, <1>3, NextFronts
<1>5. PICK h0 : h0 = Parsed(o.tag, LengthOf(o), o.value)
  OBVIOUS
<1>6. /\ Len(d) < Len(Encode(o)) => Whole(d) = {}
      /\ Len(d) >= Len(Encode(o)) => \A h1 : h1 \in Whole(d) <=> h1 = h0
      /\ TotalLen(h0) = Len(Encode(o))
  BY <1>4, <1>5, WholeOfObject, Zenon
<1>7. Len(d) \in Nat /\ Len(Encode(o)) \in Nat
  BY <1>1, <1>3, <1>4, NextLength DEF Here
<1>8. Len(d) >= Len(Encode(o)) /\ Len(Encode(o)) <= Len(d)
  <2>1. ~(Len(d) < Len(Encode(o)))
    BY <1>6
  <2>. QED  BY <1>7, <2>1
<1>9. h = h0
  BY <1>6, <1>8, Zenon
<1>10. h.tag = o.tag /\ SubSeq(d, h.size + 1, Len(Encode(o))) = o.value
  BY <1>4, <1>5, <1>8, <1>9, TakenIs, Zenon
<1>. QED  BY <1>3, <1>4, <1>6, <1>8, <1>9, <1>10

\* Where the iterator ends all complete objects have been yielded
LEMMA EndsBehindAll ==
  ASSUME TlvInv, NEW f, NEW n, NEW tail, NEW k, NEW d, Here(f, n, tail, k, d),
         \/ d = <<>>
         \/ d # <<>> /\ d[1] \in Filler(codec)
         \/ d # <<>> /\ Whole(d) = {}
  PROVE  k = Complete
<1>1. n \in Nat /\ k \in 0..n /\ Laid(f, n, tail) /\ Behind(d, f, k) /\ Len(f[k]) <= Len(data)
      /\ Len(d) = Len(data) - Len(f[k])
  BY DEF Here, Laid
<1>2. ASSUME k < n PROVE Len(data) < Len(f[k]) + Len(Encode(written[k + 1]))
  <2>1. k \in 0..n - 1
    BY <1>1, <1>2
  <2>2. PICK x \in Nat, y \in Nat \ {0} : x = Len(f[k]) /\ y = Len(Encode(written[k + 1]))
    BY <1>1, <2>1, NextLength
  <2>3. PICK m \in Nat, w \in Nat : m = Len(data) /\ w = Len(d) /\ w = m - x
    BY <1>1, <2>2 DEF Laid, Here
  <2>4. w < y
    <3>1. CASE d = <<>>
      <4>1. Len(<<>>) = 0
        OBVIOUS
      <4>2. w = 0
        BY <2>3, <3>1, <4>1, Zenon
      <4>. QED  BY <4>2
    <3>2. CASE d # <<>>
      <4>1. PICK o : o = written[k + 1] /\ o \in Object /\ o.codec = codec /\ Fronts(d, Encode(o))
        BY <1>1, <2>1, <3>2, NextFronts
      <4>2. d[1] \notin Filler(codec)
        BY <4>1, HeaderOfObject, Zenon
      <4>3. Whole(d) = {}
        BY <3>2, <4>2
      <4>4. ~(Len(d) >= Len(Encode(o)))
        BY <4>1, <4>3, WholeOfObject
      <4>5. ~(w >= y)
        BY <2>2, <2>3, <4>1, <4>4, Zenon
      <4>. QED  BY <4>5
    <3>. QED  BY <3>1, <3>2
  <2>5. m < x + y
    BY <2>3, <2>4
  <2>. QED  BY <2>2, <2>3, <2>5
<1>. QED  BY <1>1, <1>2, CompleteHere

LEMMA TlvInvInit == TlvInit => TlvInv
<1>. SUFFICES ASSUME TlvInit PROVE TlvInv
  OBVIOUS
<1>1. PICK n \in 0..MaxObjects : written \in [1..n -> {o \in Object : o.codec = codec}]
  BY DEF TlvInit
<1>2. written \in Seq({o \in Object : o.codec = codec}) /\ codec \in {"ber", "simple"}
  <2>1. n \in Nat
    OBVIOUS
  <2>2. codec \in {"ber", "simple"}
    BY DEF TlvInit
  <2>. QED  BY <1>1, <2>1, <2>2
<1>3. DataLaid
  BY <1>2 DEF TlvInit, DataLaid
<1>4. PICK f, m, tail : Laid(f, m, tail)
  BY <1>3, LaidOut
<1>5. UpTo(0) = <<>> /\ Len(data) \in Nat /\ Len(written) \in Nat
  BY <1>4 DEF Laid, AlongObjects
<1>6. Len(<<>>) = 0 /\ items = <<>> /\ pos = 0
  BY DEF TlvInit
<1>7. ItemsYielded
  <2>1. items \in Seq([tag : Seq(Octet), value : Seq(Octet)])
    BY <1>6
  <2>2. Len(items) = 0
    BY <1>6
  <2>3. \A i \in 1..Len(items) : items[i] = [tag |-> written[i].tag, value |-> written[i].value]
    BY <2>2
  <2>4. pos = Len(UpTo(Len(items)))
    BY <1>5, <1>6, <2>2, Zenon
  <2>5. Len(items) <= Len(written) /\ pos <= Len(data)
    BY <1>5, <1>6, <2>2
  <2>. QED  BY <2>1, <2>3, <2>4, <2>5 DEF ItemsYielded
<1>8. Stopped
  BY DEF TlvInit, Stopped
<1>. QED  BY <1>3, <1>7, <1>8 DEF TlvInv

LEMMA TlvInvNext == TlvInv /\ [TlvNext]_tvars => TlvInv'
<1>. SUFFICES ASSUME TlvInv, [TlvNext]_tvars PROVE TlvInv'
  OBVIOUS
<1>1. UNCHANGED <<codec, written, data>>
  BY DEF TlvNext, NextItem, tvars
<1>2. DataLaid'
  <2>1. DataLaid
    BY DEF TlvInv
  <2>. QED  BY <1>1, <2>1 DEF DataLaid
<1>3. Complete' = Complete /\ After' = After /\ \A k : UpTo(k)' = UpTo(k)
  <2>1. Complete' = Complete
    BY <1>1 DEF Complete
  <2>. QED  BY <1>1, <2>1 DEF After, UpTo
<1>4. CASE UNCHANGED tvars
  <2>1. UNCHANGED <<pos, items, stop>>
    BY <1>4 DEF tvars
  <2>2. ItemsYielded'
    BY <1>1, <1>3, <2>1 DEF TlvInv, ItemsYielded, UpTo
  <2>3. Stopped'
    BY <1>1, <1>3, <2>1 DEF TlvInv, Stopped
  <2>. QED  BY <1>2, <2>2, <2>3 DEF TlvInv
<1>5. CASE NextItem
  <2>1. PICK f, n, tail, k, d : Here(f, n, tail, k, d)
    BY HereIs
  <2>2. stop = "no" /\ d = Rest /\ d \in Seq(Octet)
    BY <1>5, <2>1 DEF NextItem, Here
  <2>3. d # <<>> => Head(d) = d[1]
    BY <2>2
  <2>4. ASSUME UNCHANGED <<pos, items>>, stop' \in {"end", "malformed"}, k = Complete,
               (stop' = "end") = (d = <<>> \/ (d # <<>> /\ Head(d) \in Filler(codec)))
        PROVE  TlvInv'
    <3>1. ItemsYielded'
      BY <1>1, <1>3, <2>4 DEF TlvInv, ItemsYielded, UpTo
    <3>2. After = d /\ Len(items) = Complete
      BY <2>1, <2>4, AfterIs DEF Here
    <3>3. Filler(codec) = IF codec = "ber" THEN {0, 255} ELSE {255}
      BY DEF Filler
    <3>4. Stopped'
      BY <1>1, <1>3, <2>4, <3>2, <3>3 DEF Stopped
    <3>. QED  BY <1>2, <3>1, <3>4 DEF TlvInv
  <2>5. CASE d = <<>>
    <3>1. stop' = "end" /\ UNCHANGED <<pos, items>>
      BY <1>5, <2>2, <2>5 DEF NextItem
    <3>2. k = Complete
      BY <2>1, <2>5, EndsBehindAll
    <3>. QED  BY <2>4, <2>5, <3>1, <3>2
  <2>6. CASE d # <<>> /\ Head(d) \in Filler(codec)
    <3>1. stop' = "end" /\ UNCHANGED <<pos, items>>
      BY <1>5, <2>2, <2>6 DEF NextItem
    <3>2. k = Complete
      BY <2>1, <2>3, <2>6, EndsBehindAll
    <3>. QED  BY <2>4, <2>6, <3>1, <3>2
  <2>7. CASE d # <<>> /\ Head(d) \notin Filler(codec) /\ Whole(d) = {}
    <3>1. stop' = "malformed" /\ UNCHANGED <<pos, items>>
      BY <1>5, <2>2, <2>7 DEF NextItem
    <3>2. k = Complete
      BY <2>1, <2>7, EndsBehindAll
    <3>. QED  BY <2>4, <2>7, <3>1, <3>2
  <2>8. CASE d # <<>> /\ Head(d) \notin Filler(codec) /\ Whole(d) # {}
    <3>1. PICK h \in Whole(d) :
            /\ pos' = pos + TotalLen(h)
            /\ items' = Append(items, [tag |-> h.tag, value |-> SubSeq(d, h.size + 1, TotalLen(h))])
            /\ UNCHANGED stop
      BY <1>5, <2>2, <2>8 DEF NextItem
    <3>2. PICK o : o = written[k + 1]
      OBVIOUS
    <3>3. /\ k \in 0..n - 1 /\ h.tag = o.tag /\ TotalLen(h) = Len(Encode(o))
          /\ SubSeq(d, h.size + 1, TotalLen(h)) = o.value /\ TotalLen(h) <= Len(d)
      <4>1. d[1] \notin Filler(codec)
        BY <2>3, <2>8
      <4>. QED  BY <2>1, <2>8, <3>2, <4>1, TakesNext
    <3>4. /\ n \in Nat /\ n = Len(written) /\ k + 1 \in 1..n /\ k + 1 \in 0..n /\ k = Len(items)
          /\ Laid(f, n, tail) /\ pos = Len(f[k])
      BY <2>1, <3>3 DEF Here, Laid
    <3>5. PICK x \in Nat, y \in Nat \ {0} :
            x = Len(f[k]) /\ y = Len(Encode(o)) /\ Len(f[k + 1]) = x + y
      <4>1. /\ Len(f[k]) \in Nat /\ Len(Encode(written[k + 1])) \in Nat \ {0}
            /\ Len(f[k + 1]) = Len(f[k]) + Len(Encode(written[k + 1]))
        BY <3>3, <3>4, NextLength, Zenon
      <4>. QED  BY <3>2, <4>1, Zenon
    <3>6. PICK m \in Nat : m = Len(data) /\ x + y <= m
      <4>1. PICK m \in Nat, w \in Nat : m = Len(data) /\ w = Len(d) /\ w = m - x /\ y <= w
        BY <2>1, <3>3, <3>5 DEF Here, Laid
      <4>2. x + y <= m
        BY <4>1
      <4>. QED  BY <4>1, <4>2
    <3>7. PICK e : e = [tag |-> o.tag, value |-> o.value]
      OBVIOUS
    <3>8. e \in [tag : Seq(Octet), value : Seq(Octet)]
      <4>1. o \in Object
        BY <3>2, <3>4 DEF Laid
      <4>. QED  BY <3>7, <4>1, ObjectIs
    <3>9. items' = Append(items, e)
      BY <3>1, <3>3, <3>7, Zenon
    <3>10. /\ items' \in Seq([tag : Seq(Octet), value : Seq(Octet)])
           /\ Len(items') = k + 1 /\ items'[k + 1] = e
           /\ \A i \in 1..k : items'[i] = items[i]
      <4>1. items \in Seq([tag : Seq(Octet), value : Seq(Octet)])
        BY DEF TlvInv, ItemsYielded
      <4>2. /\ items' \in Seq([tag : Seq(Octet), value : Seq(Octet)])
            /\ Len(items') = Len(items) + 1 /\ items'[Len(items) + 1] = e
            /\ \A i \in 1..Len(items) : items'[i] = items[i]
        BY <3>8, <3>9, <4>1, AppendProperties
      <4>. QED  BY <3>4, <4>2, Zenon
    <3>11. pos' = Len(UpTo(k + 1)) /\ pos' <= Len(data)
      <4>1. UpTo(k + 1) = f[k + 1]
        BY <3>4 DEF Laid
      <4>2. pos' = x + y
        BY <3>1, <3>3, <3>4, <3>5, Zenon
      <4>. QED  BY <3>5, <3>6, <4>1, <4>2, Zenon
    <3>12. ItemsYielded'
      <4>1. ASSUME NEW i \in 1..k + 1
            PROVE  items'[i] = [tag |-> written[i].tag, value |-> written[i].value]
        <5>1. CASE i = k + 1
          BY <3>2, <3>7, <3>10, <5>1
        <5>2. CASE i # k + 1
          <6>1. i \in 1..k
            BY <3>4, <5>2
          <6>. QED  BY <3>4, <3>10, <6>1, Zenon DEF TlvInv, ItemsYielded
        <5>. QED  BY <5>1, <5>2
      <4>2. k + 1 <= Len(written)
        BY <3>4
      <4>3. pos' = Len(UpTo(k + 1)') /\ pos' <= Len(data')
        BY <1>1, <1>3, <3>11
      <4>. QED  BY <1>1, <3>10, <4>1, <4>2, <4>3, Zenon DEF ItemsYielded, UpTo
    <3>13. Stopped'
      BY <2>2, <3>1 DEF Stopped
    <3>. QED  BY <1>2, <3>12, <3>13 DEF TlvInv
  <2>. QED  BY <2>5, <2>6, <2>7, <2>8
<1>. QED  BY <1>4, <1>5 DEF TlvNext

LEMMA TlvInvAlways == TlvSpec => []TlvInv
BY TlvInvInit, TlvInvNext, PTL DEF TlvSpec

LEMMA PrefixOf ==
  ASSUME NEW T, NEW s \in Seq(T), NEW t \in Seq(T), Len(s) <= Len(t),
         \A i \in 1..Len(s) : s[i] = t[i]
  PROVE  IsPrefix(s, t)
<1>1. PICK n \in Nat, m \in Nat : n = Len(s) /\ m = Len(t) /\ n <= m
  OBVIOUS
<1>2. SubSeq(s, 1, n) = s
  BY <1>1
<1>3. /\ \A i \in 1..n : t[i] \in T
      /\ (1 <= n => n - 1 + 1 = n) /\ (~(1 <= n) => n = 0)
      /\ \A i \in 1..n : 1 + i - 1 = i
  <2>1. \A i \in 1..m : t[i] \in T
    BY <1>1
  <2>. QED  BY <1>1, <2>1
<1>4. PICK r : r = SubSeq(t, 1, n)
  OBVIOUS
<1>5. r \in Seq(T) /\ Len(r) = n /\ \A i \in 1..n : r[i] = t[i]
  <2>1. /\ r \in Seq(T) /\ Len(r) = IF 1 <= n THEN n - 1 + 1 ELSE 0
        /\ \A i \in 1..n - 1 + 1 : r[i] = t[1 + i - 1]
    BY <1>3, <1>4, SubSeqProperties
  <2>2. n - 1 + 1 = n
    OBVIOUS
  <2>. QED  BY <1>3, <2>1, <2>2
<1>6. s = r
  BY <1>1, <1>5, SeqEqual
<1>. QED  BY <1>1, <1>2, <1>4, <1>6 DEF IsPrefix

\* The iterators stay within the data.
THEOREM TlvTypes == TlvSpec => []TlvTypeOK
<1>1. TlvInv => TlvTypeOK
  <2>. SUFFICES ASSUME TlvInv PROVE TlvTypeOK
    OBVIOUS
  <2>1. PICK f, n, tail, k, d : Here(f, n, tail, k, d)
    BY HereIs
  <2>2. data \in Seq(Octet) /\ Len(data) \in Nat /\ Len(f[k]) \in Nat
    BY <2>1 DEF Here, Laid, AlongObjects
  <2>3. pos \in 0..Len(data)
    BY <2>1, <2>2 DEF Here
  <2>. QED  BY <2>2, <2>3 DEF TlvTypeOK, TlvInv, DataLaid, Stopped
<1>. QED  BY <1>1, TlvInvAlways, PTL

\* The iterators of tlv/ber.rs and tlv/simple.rs yield the objects written and nothing
\* else, and end as what is left of the data says, wherever that was cut.
THEOREM ItemsRight == TlvSpec => []ItemsAreObjects
<1>1. TlvInv => ItemsAreObjects
  <2>. SUFFICES ASSUME TlvInv PROVE ItemsAreObjects
    OBVIOUS
  <2>1. PICK f, n, tail, k, d : Here(f, n, tail, k, d)
    BY HereIs
  <2>2. k <= Complete /\ Complete \in 0..n /\ n \in Nat
    BY <2>1, CompleteIs DEF Here, Laid
  <2>. DEFINE all == [i \in 1..Complete |-> [tag |-> written[i].tag, value |-> written[i].value]]
  <2>3. k \in Nat /\ k = Len(items) /\ items \in Seq([tag : Seq(Octet), value : Seq(Octet)])
    BY <2>1 DEF Here, TlvInv, ItemsYielded
  <2>4. all \in Seq([tag : Seq(Octet), value : Seq(Octet)]) /\ Len(all) = Complete
    <3>1. ASSUME NEW i \in 1..Complete
          PROVE  [tag |-> written[i].tag, value |-> written[i].value]
                   \in [tag : Seq(Octet), value : Seq(Octet)]
      <4>1. i \in 1..n
        BY <2>2
      <4>2. written[i] \in Object
        BY <2>1, <4>1 DEF Here, Laid
      <4>. QED  BY <4>2, ObjectIs
    <3>2. \A T, g : g \in [1..Complete -> T] => g \in Seq(T) /\ Len(g) = Complete
      BY <2>2
    <3>3. all \in [1..Complete -> [tag : Seq(Octet), value : Seq(Octet)]]
      BY <3>1, Zenon
    <3>. QED  BY <3>2, <3>3, Zenon
  <2>5. ASSUME NEW i \in 1..k PROVE items[i] = all[i]
    <3>1. i \in 1..Complete
      BY <2>2, <2>3
    <3>2. items[i] = [tag |-> written[i].tag, value |-> written[i].value]
      BY <2>3, Zenon DEF TlvInv, ItemsYielded
    <3>. QED  BY <3>1, <3>2, Zenon
  <2>. HIDE DEF all
  <2>6. IsPrefix(items, all)
    <3>1. Len(items) <= Len(all)
      BY <2>2, <2>3, <2>4
    <3>. QED  BY <2>3, <2>4, <2>5, <3>1, PrefixOf, Zenon
  <2>. QED  BY <2>6 DEF ItemsAreObjects, TlvInv, Stopped, all
<1>. QED  BY <1>1, TlvInvAlways, PTL
=============================================================================
