--------------------------- MODULE Records_proofs ---------------------------
(***************************************************************************)
(* Theorems about what is made of what a card hands out: signed files and  *)
(* attributes (SignedRecords), dates (Calendar), and certificate chains,   *)
(* whose periods are compared by date (X509Chain); and about the whole of  *)
(* it (CardData), the objects of Tlv included.                             *)
(***************************************************************************)
EXTENDS CardData, Tlv_proofs

-----------------------------------------------------------------------------
(* The layouts *)

AnyTag ==
  {"DF11", "DF12", "DF13", "DF21", "DF22", "DF23", "DF24", "DF25", "DF26", "DF27", "DF28",
   "DF29", "DF2A", "DF31", "DF32", "DF33", "DF41", "DF42", "DF43", "DF51", "DF52"}

TagSeq == Seq(AnyTag)

\* What the layouts have in common: the table and the signature are single objects and
\* have tags that no field has
SoundLayout(l) ==
  /\ l.table \in TagSeq /\ l.fields \in TagSeq /\ l.signature \in TagSeq /\ l.after \in TagSeq
  /\ \A i \in 1..Len(l.fields) : l.table # <<l.fields[i]>> /\ l.signature # <<l.fields[i]>>
  /\ l.signature # <<>> => Len(l.signature) = 1 /\ l.table # l.signature
  /\ l.table # <<>> => Len(l.table) = 1

LEMMA AgeSound == SoundLayout(Layout["age"])
<1>. DEFINE l == Layout["age"]
<1>1. /\ l.table = <<>> /\ l.fields = <<"DF11", "DF12">>
      /\ l.signature = <<"DF13">> /\ l.after = <<>>
  BY DEF Layout
<1>. HIDE DEF l
<1>2. "DF11" \in AnyTag /\ "DF12" \in AnyTag /\ "DF13" \in AnyTag
  BY DEF AnyTag
<1>3. l.table \in TagSeq /\ l.fields \in TagSeq /\ l.signature \in TagSeq /\ l.after \in TagSeq
  BY <1>1, <1>2 DEF TagSeq
<1>4. Len(l.fields) = 2 /\ Len(l.signature) = 1 /\ Len(l.table) = 0
  BY <1>1
<1>5. ASSUME NEW i \in 1..Len(l.fields)
      PROVE  l.table # <<l.fields[i]>> /\ l.signature # <<l.fields[i]>>
  BY <1>1, <1>4
<1>6. l.table # l.signature
  BY <1>1
<1>. QED  BY <1>1, <1>3, <1>4, <1>5, <1>6 DEF SoundLayout, l

LEMMA FaceSound == SoundLayout(Layout["face"])
<1>. DEFINE l == Layout["face"]
<1>1. /\ l.table = <<"DF21">> /\ l.fields = <<"DF22", "DF23", "DF24", "DF25", "DF26", "DF27">>
      /\ l.signature = <<"DF28">> /\ l.after = <<"DF29", "DF2A">>
  BY DEF Layout
<1>. HIDE DEF l
<1>2. /\ "DF21" \in AnyTag
      /\ "DF22" \in AnyTag
      /\ "DF23" \in AnyTag
      /\ "DF24" \in AnyTag
      /\ "DF25" \in AnyTag
      /\ "DF26" \in AnyTag
      /\ "DF27" \in AnyTag
      /\ "DF28" \in AnyTag
      /\ "DF29" \in AnyTag
      /\ "DF2A" \in AnyTag
  BY DEF AnyTag
<1>3. l.table \in TagSeq /\ l.fields \in TagSeq /\ l.signature \in TagSeq /\ l.after \in TagSeq
  BY <1>1, <1>2 DEF TagSeq
<1>4. Len(l.fields) = 6 /\ Len(l.signature) = 1 /\ Len(l.table) = 1
  BY <1>1
<1>5. ASSUME NEW i \in 1..Len(l.fields)
      PROVE  l.table # <<l.fields[i]>> /\ l.signature # <<l.fields[i]>>
  BY <1>1, <1>4
<1>6. l.table # l.signature
  BY <1>1
<1>. QED  BY <1>1, <1>3, <1>4, <1>5, <1>6 DEF SoundLayout, l

LEMMA ImageSound == SoundLayout(Layout["image"])
<1>. DEFINE l == Layout["image"]
<1>1. /\ l.table = <<>> /\ l.fields = <<"DF41", "DF42">>
      /\ l.signature = <<"DF43">> /\ l.after = <<>>
  BY DEF Layout
<1>. HIDE DEF l
<1>2. "DF41" \in AnyTag /\ "DF42" \in AnyTag /\ "DF43" \in AnyTag
  BY DEF AnyTag
<1>3. l.table \in TagSeq /\ l.fields \in TagSeq /\ l.signature \in TagSeq /\ l.after \in TagSeq
  BY <1>1, <1>2 DEF TagSeq
<1>4. Len(l.fields) = 2 /\ Len(l.signature) = 1 /\ Len(l.table) = 0
  BY <1>1
<1>5. ASSUME NEW i \in 1..Len(l.fields)
      PROVE  l.table # <<l.fields[i]>> /\ l.signature # <<l.fields[i]>>
  BY <1>1, <1>4
<1>6. l.table # l.signature
  BY <1>1
<1>. QED  BY <1>1, <1>3, <1>4, <1>5, <1>6 DEF SoundLayout, l

LEMMA IntegritySound == SoundLayout(Layout["integrity"])
<1>. DEFINE l == Layout["integrity"]
<1>1. /\ l.table = <<>> /\ l.fields = <<"DF31", "DF32">>
      /\ l.signature = <<"DF33">> /\ l.after = <<>>
  BY DEF Layout
<1>. HIDE DEF l
<1>2. "DF31" \in AnyTag /\ "DF32" \in AnyTag /\ "DF33" \in AnyTag
  BY DEF AnyTag
<1>3. l.table \in TagSeq /\ l.fields \in TagSeq /\ l.signature \in TagSeq /\ l.after \in TagSeq
  BY <1>1, <1>2 DEF TagSeq
<1>4. Len(l.fields) = 2 /\ Len(l.signature) = 1 /\ Len(l.table) = 0
  BY <1>1
<1>5. ASSUME NEW i \in 1..Len(l.fields)
      PROVE  l.table # <<l.fields[i]>> /\ l.signature # <<l.fields[i]>>
  BY <1>1, <1>4
<1>6. l.table # l.signature
  BY <1>1
<1>. QED  BY <1>1, <1>3, <1>4, <1>5, <1>6 DEF SoundLayout, l

LEMMA PublicKeySound == SoundLayout(Layout["publicKey"])
<1>. DEFINE l == Layout["publicKey"]
<1>1. /\ l.table = <<>> /\ l.fields = <<"DF51">>
      /\ l.signature = <<"DF52">> /\ l.after = <<>>
  BY DEF Layout
<1>. HIDE DEF l
<1>2. "DF51" \in AnyTag /\ "DF52" \in AnyTag
  BY DEF AnyTag
<1>3. l.table \in TagSeq /\ l.fields \in TagSeq /\ l.signature \in TagSeq /\ l.after \in TagSeq
  BY <1>1, <1>2 DEF TagSeq
<1>4. Len(l.fields) = 1 /\ Len(l.signature) = 1 /\ Len(l.table) = 0
  BY <1>1
<1>5. ASSUME NEW i \in 1..Len(l.fields)
      PROVE  l.table # <<l.fields[i]>> /\ l.signature # <<l.fields[i]>>
  BY <1>1, <1>4
<1>6. l.table # l.signature
  BY <1>1
<1>. QED  BY <1>1, <1>3, <1>4, <1>5, <1>6 DEF SoundLayout, l

LEMMA AttributesSound == SoundLayout(Layout["attributes"])
<1>. DEFINE l == Layout["attributes"]
<1>1. /\ l.table = <<"DF21">> /\ l.fields = <<"DF22", "DF23", "DF24", "DF25">>
      /\ l.signature = <<>> /\ l.after = <<>>
  BY DEF Layout
<1>. HIDE DEF l
<1>2. /\ "DF21" \in AnyTag
      /\ "DF22" \in AnyTag
      /\ "DF23" \in AnyTag
      /\ "DF24" \in AnyTag
      /\ "DF25" \in AnyTag
  BY DEF AnyTag
<1>3. l.table \in TagSeq /\ l.fields \in TagSeq /\ l.signature \in TagSeq /\ l.after \in TagSeq
  BY <1>1, <1>2 DEF TagSeq
<1>4. Len(l.fields) = 4 /\ Len(l.signature) = 0 /\ Len(l.table) = 1
  BY <1>1
<1>5. ASSUME NEW i \in 1..Len(l.fields)
      PROVE  l.table # <<l.fields[i]>> /\ l.signature # <<l.fields[i]>>
  BY <1>1, <1>4
<1>6. l.signature = <<>>
  BY <1>1
<1>. QED  BY <1>1, <1>3, <1>4, <1>5, <1>6 DEF SoundLayout, l

LEMMA LayoutsAreSound == \A k \in DOMAIN Layout : SoundLayout(Layout[k])
<1>1. DOMAIN Layout = {"age", "face", "image", "integrity", "publicKey", "attributes"}
  BY DEF Layout
<1>. QED
  BY <1>1, AgeSound, FaceSound, ImageSound, IntegritySound, PublicKeySound, AttributesSound

Joins(u, s, t) ==
  /\ u \in TagSeq
  /\ Len(u) = Len(s) + Len(t)
  /\ \A i \in 1..Len(s) : u[i] = s[i]
  /\ \A i \in 1..Len(t) : u[Len(s) + i] = t[i]

LEMMA JoinTags ==
  ASSUME NEW s \in TagSeq, NEW t \in TagSeq, NEW u, u = s \o t
  PROVE  Joins(u, s, t)
BY DEF TagSeq, Joins

\* Where the tags of a kind stand: the table, the fields, the signature
TagsStand(tags, table, fields, signature, after) ==
  /\ tags \in TagSeq /\ Len(tags) \in Nat /\ Len(table) \in Nat /\ Len(fields) \in Nat
  /\ \A i \in 1..Len(table) : i \in 1..Len(tags) /\ tags[i] = table[i]
  /\ \A i \in 1..Len(fields) :
       Len(table) + i \in 1..Len(tags) /\ tags[Len(table) + i] = fields[i]
  /\ \A i \in 1..Len(signature) :
       /\ Len(table) + Len(fields) + i \in 1..Len(tags)
       /\ tags[Len(table) + Len(fields) + i] = signature[i]
  /\ Len(after) = 0 => Len(tags) = Len(table) + Len(fields) + Len(signature)

LEMMA FourParts ==
  ASSUME NEW table \in TagSeq, NEW fields \in TagSeq, NEW signature \in TagSeq,
         NEW after \in TagSeq, NEW a, NEW b, NEW c,
         a = table \o fields, b = a \o signature, c = b \o after
  PROVE  TagsStand(c, table, fields, signature, after)
<1>1. Joins(a, table, fields)
  BY JoinTags, Zenon
<1>2. a \in TagSeq
  BY <1>1 DEF Joins
<1>3. Joins(b, a, signature)
  BY <1>2, JoinTags, Zenon
<1>4. b \in TagSeq
  BY <1>3 DEF Joins
<1>5. Joins(c, b, after)
  BY <1>4, JoinTags, Zenon
<1>6. /\ Len(table) \in Nat /\ Len(fields) \in Nat /\ Len(signature) \in Nat
      /\ Len(after) \in Nat
  BY DEF TagSeq
<1>7. /\ c \in TagSeq
      /\ Len(c) = Len(table) + Len(fields) + Len(signature) + Len(after)
  BY <1>1, <1>3, <1>5, <1>6 DEF Joins
<1>8. \A i \in 1..Len(b) : i \in 1..Len(c) /\ c[i] = b[i]
  BY <1>1, <1>3, <1>5, <1>6 DEF Joins
<1>9. \A i \in 1..Len(a) : i \in 1..Len(c) /\ c[i] = a[i]
  BY <1>1, <1>3, <1>6, <1>8 DEF Joins
<1>10. \A i \in 1..Len(table) : i \in 1..Len(c) /\ c[i] = table[i]
  BY <1>1, <1>6, <1>9 DEF Joins
<1>11. ASSUME NEW i \in 1..Len(fields)
       PROVE  Len(table) + i \in 1..Len(c) /\ c[Len(table) + i] = fields[i]
  BY <1>1, <1>6, <1>9 DEF Joins
<1>12. ASSUME NEW i \in 1..Len(signature)
       PROVE
         /\ Len(table) + Len(fields) + i \in 1..Len(c)
         /\ c[Len(table) + Len(fields) + i] = signature[i]
  BY <1>1, <1>3, <1>6, <1>8 DEF Joins
<1>13. Len(c) \in Nat
  BY <1>6, <1>7
<1>14. Len(after) = 0 => Len(c) = Len(table) + Len(fields) + Len(signature)
  BY <1>6, <1>7
<1>. QED  BY <1>6, <1>7, <1>10, <1>11, <1>12, <1>13, <1>14, Zenon DEF TagsStand

LEMMA TagsOf ==
  ASSUME NEW k \in DOMAIN Layout
  PROVE  /\ SoundLayout(Layout[k])
         /\ TagsStand(Tags(k), Layout[k].table, Layout[k].fields, Layout[k].signature,
                      Layout[k].after)
<1>1. SoundLayout(Layout[k])
  BY LayoutsAreSound
<1>2. /\ Layout[k].table \in TagSeq /\ Layout[k].fields \in TagSeq
      /\ Layout[k].signature \in TagSeq /\ Layout[k].after \in TagSeq
  BY <1>1 DEF SoundLayout
<1>. DEFINE a == Layout[k].table \o Layout[k].fields
           b == a \o Layout[k].signature
           c == b \o Layout[k].after
<1>3. c = Tags(k)
  BY DEF Tags, SignatureOf
<1>. HIDE DEF c
<1>4. c = b \o Layout[k].after
  BY DEF c
<1>. HIDE DEF b
<1>5. b = a \o Layout[k].signature
  BY DEF b
<1>. HIDE DEF a
<1>6. a = Layout[k].table \o Layout[k].fields
  BY DEF a
<1>7. TagsStand(c, Layout[k].table, Layout[k].fields, Layout[k].signature, Layout[k].after)
  BY <1>2, <1>4, <1>5, <1>6, FourParts, Zenon
<1>. QED  BY <1>1, <1>3, <1>7
-----------------------------------------------------------------------------
(* Files *)

Obj(k) == [tag : Range(Tags(k)), edition : Editions]

LEMMA IssuedIs ==
  ASSUME NEW k \in DOMAIN Layout, NEW e \in Editions
  PROVE  /\ Issued(k, e) \in Seq(Obj(k))
         /\ Len(Issued(k, e)) = Len(Tags(k))
         /\ \A i \in 1..Len(Tags(k)) :
              Issued(k, e)[i].tag = Tags(k)[i] /\ Issued(k, e)[i].edition = e
<1>. DEFINE n == Len(Tags(k))
<1>1. n \in Nat /\ Tags(k) \in TagSeq
  BY TagsOf DEF TagsStand
<1>2. \A i \in 1..n : Tags(k)[i] \in Range(Tags(k))
  BY <1>1 DEF Range, TagSeq
<1>. HIDE DEF n
<1>3. \A i \in 1..n : [tag |-> Tags(k)[i], edition |-> e] \in Obj(k)
  BY <1>2 DEF Obj
<1>4. Issued(k, e) = [i \in 1..n |-> [tag |-> Tags(k)[i], edition |-> e]]
  BY DEF Issued, n
<1>5. Issued(k, e) \in [1..n -> Obj(k)]
  BY <1>3, <1>4
<1>6. Issued(k, e) \in Seq(Obj(k)) /\ Len(Issued(k, e)) = n
  BY <1>1, <1>5
<1>7. \A i \in 1..n : Issued(k, e)[i].tag = Tags(k)[i] /\ Issued(k, e)[i].edition = e
  BY <1>4
<1>. QED  BY <1>6, <1>7 DEF n

\* What is left of a sequence without one element, or with one more
LEMMA OneLost ==
  ASSUME NEW S, NEW s \in Seq(S), NEW i \in 1..Len(s)
  PROVE  RemoveAt(s, i) \in Seq(S)
<1>1. Len(s) \in Nat /\ \A j \in 1..Len(s) : s[j] \in S
  OBVIOUS
<1>2. SubSeq(s, 1, i - 1) \in Seq(S)
  BY <1>1, SubSeqProperties
<1>3. SubSeq(s, i + 1, Len(s)) \in Seq(S)
  BY <1>1, SubSeqProperties
<1>. QED  BY <1>2, <1>3, ConcatProperties DEF RemoveAt

LEMMA OneAdded ==
  ASSUME NEW S, NEW s \in Seq(S), NEW i \in 1..Len(s) + 1, NEW x \in S
  PROVE  InsertAt(s, i, x) \in Seq(S)
<1>1. Len(s) \in Nat /\ \A j \in 1..Len(s) : s[j] \in S
  OBVIOUS
<1>2. SubSeq(s, 1, i - 1) \in Seq(S)
  BY <1>1, SubSeqProperties
<1>3. SubSeq(s, i, Len(s)) \in Seq(S)
  BY <1>1, SubSeqProperties
<1>4. <<x>> \in Seq(S)
  OBVIOUS
<1>5. SubSeq(s, 1, i - 1) \o <<x>> \in Seq(S)
  BY <1>2, <1>4, ConcatProperties
<1>. QED  BY <1>3, <1>5, ConcatProperties DEF InsertAt

LEMMA InterfereTypes ==
  ASSUME RecordsTypeOK, NEW f \in Seq(Obj(kind)), Interfere(f)
  PROVE  RecordsTypeOK'
<1>1. edits' \in 0..MaxEdits
  BY EditsAssumption DEF RecordsTypeOK, Interfere
<1>. QED  BY <1>1 DEF RecordsTypeOK, Interfere, Obj

LEMMA RecordsInitTypes == RecordsInit => RecordsTypeOK
<1>1. ASSUME RecordsInit PROVE file \in Seq(Obj(kind))
  BY <1>1, KindsAssumption, IssuedIs DEF RecordsInit, Editions
<1>2. 0 \in 0..MaxEdits
  BY EditsAssumption
<1>. QED  BY <1>1, <1>2 DEF RecordsInit, RecordsTypeOK, Obj

LEMMA RecordsStepTypes == RecordsTypeOK /\ [RecordsNext]_rvars => RecordsTypeOK'
<1>. SUFFICES ASSUME RecordsTypeOK, [RecordsNext]_rvars PROVE RecordsTypeOK'
  OBVIOUS
<1>1. file \in Seq(Obj(kind)) /\ \A i \in 1..Len(file) : file[i] \in Obj(kind)
  <2>1. file \in Seq(Obj(kind))
    BY DEF RecordsTypeOK, Obj
  <2>. QED  BY <2>1
<1>2. ASSUME NEW i \in 1..Len(file), Interfere(RemoveAt(file, i)) PROVE RecordsTypeOK'
  BY <1>1, <1>2, OneLost, InterfereTypes
<1>3. ASSUME NEW i \in 1..Len(file), Interfere([file EXCEPT ![i].edition = 3 - @])
      PROVE  RecordsTypeOK'
  <2>1. [file[i] EXCEPT !.edition = 3 - @] \in Obj(kind)
    BY <1>1 DEF Obj, Editions
  <2>2. [file EXCEPT ![i].edition = 3 - @] \in Seq(Obj(kind))
    BY <1>1, <2>1
  <2>. QED  BY <1>3, <2>2, InterfereTypes
<1>4. ASSUME NEW i \in 1..Len(file) + 1, NEW t \in Range(Tags(kind)), NEW e \in Editions,
             Interfere(InsertAt(file, i, [tag |-> t, edition |-> e]))
      PROVE  RecordsTypeOK'
  <2>1. [tag |-> t, edition |-> e] \in Obj(kind)
    BY DEF Obj
  <2>. QED  BY <1>1, <1>4, <2>1, OneAdded, InterfereTypes
<1>5. ASSUME NEW i \in 1..Len(file), NEW j \in 1..Len(file),
             Interfere([file EXCEPT ![i] = file[j], ![j] = file[i]])
      PROVE  RecordsTypeOK'
  <2>1. [file EXCEPT ![i] = file[j], ![j] = file[i]] \in Seq(Obj(kind))
    BY <1>1
  <2>. QED  BY <1>5, <2>1, InterfereTypes
<1>6. CASE UNCHANGED rvars
  BY <1>6 DEF rvars, RecordsTypeOK
<1>. QED
  BY <1>2, <1>3, <1>4, <1>5, <1>6 DEF RecordsNext, Lose, Replace, Repeat, Swap

\* However a file is interfered with, it stays a sequence of objects of its kind.
THEOREM RecordsTypes == RecordsSpec => []RecordsTypeOK
BY RecordsInitTypes, RecordsStepTypes, PTL DEF RecordsSpec
-----------------------------------------------------------------------------
(* What is signed *)

\* A file of a kind, and what TlvFields finds in it
LEMMA FirstIs ==
  ASSUME NEW k, NEW f \in Seq(Obj(k)), NEW tag, Places(k, f, tag) # {}, NEW m,
         m = Min(Places(k, f, tag))
  PROVE  /\ m \in 1..Len(f) /\ First(k, f, tag) = f[m]
         /\ f[m].tag = tag /\ f[m].edition \in Editions /\ ~IsTable(k, f[m])
         /\ \A i \in 1..Len(f) : f[i].tag = tag /\ ~IsTable(k, f[i]) => m <= i
<1>. DEFINE places == Places(k, f, tag)
<1>1. places \subseteq Nat /\ places # {}
  BY DEF Places
<1>2. places = {i \in 1..Len(f) : ~IsTable(k, f[i]) /\ f[i].tag = tag}
  BY DEF Places
<1>. HIDE DEF places
<1>3. m \in places /\ \A i \in places : m <= i
  BY <1>1, Least DEF places
<1>4. \A i \in 1..Len(f) : f[i] \in Obj(k)
  OBVIOUS
<1>5. \A i \in 1..Len(f) : f[i].edition \in Editions
  BY <1>4 DEF Obj
<1>. QED  BY <1>2, <1>3, <1>5 DEF First

\* The objects of a file as issued: each of the issue's edition; a field stands where its
\* kind says
LEMMA IssuedFields ==
  ASSUME NEW k \in DOMAIN Layout, NEW e \in Editions, NEW i \in 1..Len(Layout[k].fields)
  PROVE  /\ Len(Layout[k].table) + i \in 1..Len(Issued(k, e))
         /\ Issued(k, e)[Len(Layout[k].table) + i].tag = Layout[k].fields[i]
         /\ Places(k, Issued(k, e), Layout[k].fields[i]) # {}
         /\ First(k, Issued(k, e), Layout[k].fields[i]).edition = e
<1>. DEFINE f == Issued(k, e)
           tag == Layout[k].fields[i]
           j == Len(Layout[k].table) + i
<1>1. f \in Seq(Obj(k)) /\ Len(f) = Len(Tags(k))
      /\ \A n \in 1..Len(Tags(k)) : f[n].tag = Tags(k)[n] /\ f[n].edition = e
  BY IssuedIs
<1>2. j \in 1..Len(Tags(k)) /\ Tags(k)[j] = tag /\ Layout[k].table # <<tag>>
  BY TagsOf DEF TagsStand, SoundLayout
<1>. HIDE DEF f, tag, j
<1>3. j \in 1..Len(f) /\ f[j].tag = tag
  BY <1>1, <1>2
<1>4. j \in Places(k, f, tag)
  BY <1>2, <1>3 DEF Places, IsTable
<1>5. Min(Places(k, f, tag)) \in 1..Len(f) /\ First(k, f, tag) = f[Min(Places(k, f, tag))]
  BY <1>1, <1>4, FirstIs
<1>6. First(k, f, tag).edition = e
  BY <1>1, <1>5
<1>. QED  BY <1>3, <1>4, <1>6 DEF f, tag, j

\* A card face is signed by name
LEMMA FaceIsIssued ==
  ASSUME NEW f \in Seq(Obj("face")), NEW e \in Editions,
         SignedData("face", f) = SignedData("face", Issued("face", e))
  PROVE  \A i \in 1..Len(Layout["face"].fields) :
           First("face", f, Layout["face"].fields[i]).edition = e
<1>. DEFINE g == Issued("face", e)
           F(tag) == First("face", f, tag)
           G(tag) == First("face", g, tag)
<1>1. BytesOf("face", f, <<"DF22", "DF23", "DF24">>) = BytesOf("face", g, <<"DF22", "DF23", "DF24">>)
      /\ BytesOf("face", f, <<"DF25", "DF26">>) = BytesOf("face", g, <<"DF25", "DF26">>)
      /\ BytesOf("face", f, <<"DF27">>) = BytesOf("face", g, <<"DF27">>)
  BY DEF SignedData
<1>2. [i \in 1..3 |-> F(<<"DF22", "DF23", "DF24">>[i])] = [i \in 1..3 |-> G(<<"DF22", "DF23", "DF24">>[i])]
      /\ [i \in 1..2 |-> F(<<"DF25", "DF26">>[i])] = [i \in 1..2 |-> G(<<"DF25", "DF26">>[i])]
      /\ [i \in 1..1 |-> F(<<"DF27">>[i])] = [i \in 1..1 |-> G(<<"DF27">>[i])]
  BY <1>1 DEF BytesOf
<1>. HIDE DEF F, G
<1>3. F("DF22") = G("DF22") /\ F("DF23") = G("DF23") /\ F("DF24") = G("DF24")
  BY <1>2
<1>4. F("DF25") = G("DF25") /\ F("DF26") = G("DF26")
  BY <1>2
<1>5. F("DF27") = G("DF27")
  BY <1>2
<1>6. Layout["face"].fields = <<"DF22", "DF23", "DF24", "DF25", "DF26", "DF27">>
      /\ "face" \in DOMAIN Layout
  BY DEF Layout
<1>7. ASSUME NEW i \in 1..Len(Layout["face"].fields)
      PROVE  F(Layout["face"].fields[i]) = G(Layout["face"].fields[i])
  <2>1. Len(Layout["face"].fields) = 6
    BY <1>6
  <2>. QED  BY <1>3, <1>4, <1>5, <1>6, <2>1
<1>8. \A i \in 1..Len(Layout["face"].fields) : G(Layout["face"].fields[i]).edition = e
  BY <1>6, IssuedFields DEF G
<1>. QED  BY <1>7, <1>8 DEF F

\* Two sequences whose beginnings are the same
SameUpTo(f, m, g, n) == m = n /\ \A i \in 1..m - 1 : f[i] = g[i]

LEMMA SameBeginning ==
  ASSUME NEW S, NEW f \in Seq(S), NEW g \in Seq(S), NEW m \in 1..Len(f), NEW n \in 1..Len(g),
         SubSeq(f, 1, m - 1) = SubSeq(g, 1, n - 1)
  PROVE  SameUpTo(f, m, g, n)
<1>1. \A i \in 1..m - 1 : f[i] \in S
  OBVIOUS
<1>2. \A i \in 1..n - 1 : g[i] \in S
  OBVIOUS
<1>. DEFINE u == SubSeq(f, 1, m - 1)
           v == SubSeq(g, 1, n - 1)
<1>3. /\ Len(u) = (IF 1 <= m - 1 THEN m - 1 - 1 + 1 ELSE 0)
      /\ \A i \in 1..m - 1 - 1 + 1 : u[i] = f[1 + i - 1]
  BY <1>1, SubSeqProperties
<1>4. /\ Len(v) = (IF 1 <= n - 1 THEN n - 1 - 1 + 1 ELSE 0)
      /\ \A i \in 1..n - 1 - 1 + 1 : v[i] = g[1 + i - 1]
  BY <1>2, SubSeqProperties
<1>5. u = v
  OBVIOUS
<1>. HIDE DEF u, v
<1>6. m = n
  BY <1>3, <1>4, <1>5
<1>7. ASSUME NEW i \in 1..m - 1 PROVE f[i] = g[i]
  <2>1. i \in 1..m - 1 - 1 + 1 /\ i \in 1..n - 1 - 1 + 1 /\ 1 + i - 1 = i
    BY <1>6
  <2>. QED  BY <1>3, <1>4, <1>5, <2>1
<1>. QED  BY <1>6, <1>7 DEF SameUpTo

\* The other files are signed by what comes before the signature
LEMMA BeforeIsIssued ==
  ASSUME NEW k \in DOMAIN Layout, Layout[k].table = <<>>, Layout[k].signature # <<>>,
         Layout[k].after = <<>>,
         NEW f \in Seq(Obj(k)), NEW e \in Editions, NEW tag, tag = Layout[k].signature[1],
         Places(k, f, tag) # {},
         BytesBefore(k, f, tag) = BytesBefore(k, Issued(k, e), tag)
  PROVE  \A i \in 1..Len(Layout[k].fields) : First(k, f, Layout[k].fields[i]).edition = e
<1>. DEFINE g == Issued(k, e)
           fields == Layout[k].fields
           n == Len(fields)
           mf == Min(Places(k, f, tag))
           mg == Min(Places(k, g, tag))
<1>1. SoundLayout(Layout[k])
      /\ TagsStand(Tags(k), <<>>, fields, Layout[k].signature, <<>>)
  BY TagsOf
<1>2. Len(Layout[k].signature) = 1 /\ n \in Nat
      /\ \A i \in 1..n : Layout[k].signature # <<fields[i]>>
  BY <1>1 DEF SoundLayout, TagsStand
<1>3. Layout[k].signature = <<tag>>
  BY <1>1, <1>2 DEF SoundLayout, TagSeq
<1>4. \A i \in 1..n : tag # fields[i]
  BY <1>2, <1>3
<1>5. /\ Len(Tags(k)) = n + 1 /\ Tags(k)[n + 1] = tag
      /\ \A i \in 1..n : i \in 1..Len(Tags(k)) /\ Tags(k)[i] = fields[i]
  <2>1. Len(<<>>) = 0 /\ 1 \in 1..Len(Layout[k].signature)
    BY <1>2
  <2>2. Len(Tags(k)) = 0 + n + 1 /\ Tags(k)[0 + n + 1] = tag
    BY <1>1, <1>2, <2>1 DEF TagsStand
  <2>3. \A i \in 1..n : 0 + i \in 1..Len(Tags(k)) /\ Tags(k)[0 + i] = fields[i]
    BY <1>1, <2>1, Zenon DEF TagsStand
  <2>. QED  BY <1>2, <2>2, <2>3
<1>6. g \in Seq(Obj(k)) /\ Len(g) = Len(Tags(k))
      /\ \A i \in 1..Len(Tags(k)) : g[i].tag = Tags(k)[i] /\ g[i].edition = e
  BY IssuedIs
<1>7. \A o : ~IsTable(k, o)
  BY DEF IsTable
<1>. HIDE DEF g, fields, n
<1>8. Len(g) = n + 1 /\ g[n + 1].tag = tag /\ \A i \in 1..n : g[i].tag = fields[i] /\ g[i].edition = e
  BY <1>2, <1>5, <1>6
<1>9. n + 1 \in Places(k, g, tag)
  BY <1>2, <1>7, <1>8 DEF Places
<1>10. mg \in 1..Len(g) /\ g[mg].tag = tag /\ mg <= n + 1
  BY <1>2, <1>6, <1>7, <1>8, <1>9, FirstIs
<1>11. mg = n + 1
  BY <1>2, <1>4, <1>8, <1>10
<1>12. mf \in 1..Len(f)
  BY FirstIs
<1>13. SubSeq(f, 1, mf - 1) = SubSeq(g, 1, mg - 1)
  BY DEF BytesBefore, g
<1>. HIDE DEF mf, mg
<1>14. mf = n + 1 /\ \A i \in 1..mf - 1 : f[i] = g[i]
  <2>1. SameUpTo(f, mf, g, mg)
    BY <1>6, <1>10, <1>12, <1>13, SameBeginning, Zenon
  <2>. QED  BY <1>11, <2>1 DEF SameUpTo
<1>15. ASSUME NEW i \in 1..n PROVE First(k, f, fields[i]).edition = e
  <2>1. i \in 1..Len(f) /\ f[i].tag = fields[i]
    BY <1>2, <1>8, <1>12, <1>14
  <2>2. Places(k, f, fields[i]) # {}
    BY <1>7, <2>1 DEF Places
  <2>. DEFINE j == Min(Places(k, f, fields[i]))
  <2>3. j \in 1..Len(f) /\ j <= i /\ First(k, f, fields[i]) = f[j]
    BY <1>7, <2>1, <2>2, FirstIs
  <2>. HIDE DEF j
  <2>4. j \in 1..n /\ j \in 1..mf - 1
    BY <1>2, <1>14, <2>3
  <2>. QED  BY <1>8, <1>14, <2>3, <2>4
<1>. QED  BY <1>15 DEF fields, n

LEMMA Single ==
  ASSUME NEW S, NEW s \in Seq(S), Len(s) = 1
  PROVE  s = <<s[1]>> /\ DOMAIN s = {1}
OBVIOUS

LEMMA NoTable ==
  ASSUME NEW k \in DOMAIN Layout, k # "face", SignatureOf(k) # <<>>
  PROVE  Layout[k].table = <<>> /\ Layout[k].after = <<>>
BY DEF Layout, SignatureOf

\* What parses has a signature where its kind has one
LEMMA HasSignature ==
  ASSUME NEW k \in DOMAIN Layout, SignatureOf(k) # <<>>, NEW f \in Seq(Obj(k)), NEW raw,
         Parses(k, f, raw)
  PROVE  /\ Places(k, f, SignatureOf(k)[1]) # {}
         /\ First(k, f, SignatureOf(k)[1]).edition \in Editions
<1>. DEFINE l == Layout[k]
           tag == SignatureOf(k)[1]
           i == Len(l.table) + Len(l.fields) + 1
<1>1. /\ l.table \in TagSeq /\ l.signature \in TagSeq /\ Len(l.signature) = 1
      /\ l.table # l.signature
      /\ l.table # <<>> => Len(l.table) = 1
  BY TagsOf DEF SoundLayout, SignatureOf
<1>2. Tags(k) \in TagSeq /\ i \in 1..Len(Tags(k)) /\ Tags(k)[i] = tag
  <2>1. 1 \in 1..Len(l.signature)
    BY <1>1
  <2>2. TagsStand(Tags(k), l.table, l.fields, l.signature, l.after)
    BY TagsOf
  <2>. QED  BY <2>1, <2>2, Zenon DEF TagsStand, SignatureOf
<1>3. tag \in Range(Tags(k))
  <2>1. DOMAIN Tags(k) = 1..Len(Tags(k))
    BY <1>2 DEF TagSeq
  <2>. QED  BY <1>2, <2>1 DEF Range
<1>4. l.signature = <<tag>>
  BY <1>1 DEF SignatureOf, TagSeq
<1>. HIDE DEF l, tag, i
<1>5. tag \notin Range(l.table)
  <2>1. DOMAIN l.table = 1..Len(l.table)
    BY <1>1 DEF TagSeq
  <2>2. CASE l.table = <<>>
    BY <2>2 DEF Range
  <2>3. CASE l.table # <<>>
    <3>1. l.table = <<l.table[1]>> /\ DOMAIN l.table = {1}
      BY <1>1, <2>3, Single DEF TagSeq
    <3>2. l.table[1] # tag
      BY <1>1, <1>4, <3>1
    <3>. QED  BY <3>1, <3>2 DEF Range
  <2>. QED  BY <2>2, <2>3
<1>6. Places(k, f, tag) # {}
  BY <1>3, <1>5 DEF Parses, l
<1>7. First(k, f, tag).edition \in Editions
  BY <1>6, FirstIs
<1>. QED  BY <1>6, <1>7 DEF tag

\* Whatever was lost, added, replaced or moved: the values handed out of a file that
\* parses and verifies are those of one edition, as VerifiedIsIssued says.
THEOREM Verified == RecordsSpec => []VerifiedIsIssued
<1>1. ASSUME RecordsTypeOK, SignatureOf(kind) # <<>>, Parses(kind, file, Raw),
             Verifies(kind, file)
      PROVE  AllOf(First(kind, file, SignatureOf(kind)[1]).edition)
  <2>. DEFINE tag == SignatureOf(kind)[1]
             e == First(kind, file, tag).edition
  <2>1. kind \in DOMAIN Layout /\ file \in Seq(Obj(kind))
    BY <1>1, KindsAssumption DEF RecordsTypeOK, Obj
  <2>2. Places(kind, file, tag) # {} /\ e \in Editions
    BY <1>1, <2>1, HasSignature
  <2>3. SignedData(kind, file) = SignedData(kind, Issued(kind, e))
    BY <1>1 DEF Verifies
  <2>. HIDE DEF e
  <2>4. CASE kind = "face"
    BY <2>1, <2>2, <2>3, <2>4, FaceIsIssued DEF AllOf, e
  <2>5. CASE kind # "face"
    <3>1. Layout[kind].table = <<>> /\ Layout[kind].after = <<>>
      BY <1>1, <2>1, <2>5, NoTable
    <3>2. tag = Layout[kind].signature[1] /\ Layout[kind].signature # <<>>
      BY <1>1 DEF SignatureOf
    <3>3. BytesBefore(kind, file, tag) = BytesBefore(kind, Issued(kind, e), tag)
      BY <2>3, <2>5 DEF SignedData
    <3>. HIDE DEF tag
    <3>. QED  BY <2>1, <2>2, <3>1, <3>2, <3>3, BeforeIsIssued DEF AllOf, e, tag
  <2>. QED  BY <2>4, <2>5
<1>2. RecordsTypeOK => VerifiedIsIssued
  BY <1>1 DEF VerifiedIsIssued
<1>. QED  BY <1>2, RecordsTypes, PTL
-----------------------------------------------------------------------------
(* Attributes *)

SameAfterFirst(f, g) == Len(f) = Len(g) /\ \A i \in 2..Len(f) : f[i] = g[i]

LEMMA SameTails ==
  ASSUME NEW S, NEW f \in Seq(S), NEW g \in Seq(S), f # <<>>, g # <<>>, Tail(f) = Tail(g)
  PROVE  SameAfterFirst(f, g)
<1>. DEFINE s == Tail(f)
           t == Tail(g)
<1>1. Len(s) = Len(f) - 1 /\ \A i \in 1..Len(s) : s[i] = f[i + 1]
  BY HeadTailProperties
<1>2. Len(t) = Len(g) - 1 /\ \A i \in 1..Len(t) : t[i] = g[i + 1]
  BY HeadTailProperties
<1>3. Len(f) \in Nat /\ Len(g) \in Nat /\ s = t
  OBVIOUS
<1>. HIDE DEF s, t
<1>4. Len(f) = Len(g)
  BY <1>1, <1>2, <1>3
<1>5. ASSUME NEW i \in 2..Len(f) PROVE f[i] = g[i]
  <2>1. i - 1 \in 1..Len(s) /\ i - 1 \in 1..Len(t) /\ (i - 1) + 1 = i
    BY <1>1, <1>2, <1>3
  <2>2. s[i - 1] = f[i] /\ t[i - 1] = g[i]
    BY <1>1, <1>2, <2>1
  <2>. QED  BY <1>3, <2>2
<1>. QED  BY <1>4, <1>5 DEF SameAfterFirst

\* Attributes that parse and match the digest of an edition hold that edition's fields,
\* wherever an object of the same tag was added, as MatchedIsIssued says.
THEOREM Matched == RecordsSpec => []MatchedIsIssued
<1>1. ASSUME RecordsTypeOK, kind = "attributes", NEW e \in Editions, MatchesAttributes(file, e)
      PROVE  AllOf(e)
  <2>. DEFINE g == Issued(kind, e)
             fields == Layout[kind].fields
  <2>1. kind \in DOMAIN Layout /\ file \in Seq(Obj(kind))
    BY <1>1, KindsAssumption DEF RecordsTypeOK, Obj
  <2>2. Layout[kind].table = <<"DF21">>
    BY <1>1 DEF Layout
  <2>3. Len(Layout[kind].table) = 1
    BY <2>2
  <2>4. g \in Seq(Obj(kind)) /\ Len(g) = Len(Tags(kind)) /\ Len(Tags(kind)) \in Nat
        /\ \A i \in 1..Len(Tags(kind)) : g[i].edition = e
    BY <2>1, IssuedIs, TagsOf DEF TagsStand
  <2>5. \A i \in 1..Len(fields) : 1 + i \in 1..Len(g) /\ g[1 + i].tag = fields[i]
    <3>1. ASSUME NEW i \in 1..Len(fields)
          PROVE  /\ Len(Layout[kind].table) + i \in 1..Len(g)
                 /\ g[Len(Layout[kind].table) + i].tag = fields[i]
      BY <2>1, IssuedFields
    <3>. HIDE DEF g, fields
    <3>. QED  BY <2>3, <3>1
  <2>6. \A i \in 1..Len(fields) : Layout[kind].table # <<fields[i]>>
    BY <2>1, TagsOf DEF SoundLayout
  <2>7. file # <<>> /\ IsTable(kind, file[1]) /\ g # <<>> /\ Tail(file) = Tail(g)
    <3>. DEFINE h == Issued("attributes", e)
    <3>1. DigestSource(file) # {} /\ DigestSource(file) = DigestSource(h)
      BY <1>1 DEF MatchesAttributes
    <3>. HIDE DEF h
    <3>2. file # <<>> /\ IsTable("attributes", file[1]) /\ DigestSource(file) = {Tail(file)}
      BY <3>1 DEF DigestSource
    <3>3. h # <<>> /\ DigestSource(h) = {Tail(h)}
      BY <3>1 DEF DigestSource
    <3>4. Tail(file) = Tail(h)
      BY <3>1, <3>2, <3>3
    <3>5. g = h
      BY <1>1 DEF h
    <3>. QED  BY <1>1, <3>2, <3>3, <3>4, <3>5
  <2>. HIDE DEF g, fields
  <2>8. Len(file) = Len(g) /\ \A i \in 2..Len(file) : file[i] = g[i]
    <3>1. SameAfterFirst(file, g)
      BY <2>1, <2>4, <2>7, SameTails, Zenon
    <3>. QED  BY <3>1 DEF SameAfterFirst
  <2>9. ASSUME NEW i \in 1..Len(fields) PROVE First(kind, file, fields[i]).edition = e
    <3>1. 1 + i \in 1..Len(file) /\ file[1 + i].tag = fields[i]
      BY <2>5, <2>8
    <3>2. ~IsTable(kind, file[1 + i])
      BY <2>6, <3>1 DEF IsTable
    <3>3. Places(kind, file, fields[i]) # {}
      BY <3>1, <3>2 DEF Places
    <3>. DEFINE m == Min(Places(kind, file, fields[i]))
    <3>4. m \in 1..Len(file) /\ First(kind, file, fields[i]) = file[m] /\ ~IsTable(kind, file[m])
      BY <2>1, <3>3, FirstIs
    <3>. HIDE DEF m
    <3>5. m \in 2..Len(file)
      BY <2>4, <2>7, <2>8, <3>4
    <3>. QED  BY <2>4, <2>8, <3>4, <3>5
  <2>. QED  BY <2>9 DEF AllOf, fields
<1>2. RecordsTypeOK => MatchedIsIssued
  BY <1>1 DEF MatchedIsIssued
<1>. QED  BY <1>2, RecordsTypes, PTL
-----------------------------------------------------------------------------
(* A file as it was issued *)

LEMMA SizeIsInt ==
  ASSUME NEW k, NEW s \in Seq(Obj(k))
  PROVE  SizeOf(s) \in Int
<1>. DEFINE n == Len(s)
           Step(f) == [i \in 0..n |-> IF i = 0 THEN 0 ELSE f[i - 1] + Size(s[i])]
           g == [i \in 1..n |-> [x \in Int |-> x + Size(s[i])]]
           upTo == CHOOSE f : f = Step(f)
           S == {i \in 0..n : upTo[i] \in Int}
<1>1. n \in Nat /\ \A i \in 1..n : Size(s[i]) \in Int
  <2>1. \A i \in 1..n : s[i] \in Obj(k)
    OBVIOUS
  <2>. QED  BY <2>1 DEF Obj, Size, Editions
<1>2. SizeOf(s) = upTo[n]
  BY DEF SizeOf
<1>. HIDE DEF n
<1>3. \A i \in 1..n : g[i] \in [Int -> Int] /\ \A x \in Int : g[i][x] = x + Size(s[i])
  BY <1>1
<1>. HIDE DEF g
<1>4. \E f : Goes(f, Int, 0, g, n)
  <2>1. 0 \in Int
    OBVIOUS
  <2>. QED  BY <1>1, <1>3, <2>1, GoesOnce, Zenon
<1>5. PICK f : f = Step(f)
  <2>1. PICK f : Goes(f, Int, 0, g, n)
    BY <1>4
  <2>2. /\ f \in [0..n -> Int] /\ f[0] = 0
        /\ \A i \in 1..n : f[i] = f[i - 1] + Size(s[i])
    <3>1. \A i \in 1..n : f[i - 1] \in Int
      BY <1>1, <2>1 DEF Goes
    <3>. QED  BY <1>3, <2>1, <3>1 DEF Goes
  <2>3. \A i \in 0..n : f[i] = Step(f)[i]
    BY <1>1, <2>2
  <2>4. f = Step(f)
    BY <2>2, <2>3
  <2>. QED  BY <2>4
<1>6. upTo = Step(upTo)
  BY <1>5
<1>. HIDE DEF upTo
<1>7. upTo[0] = 0 /\ \A i \in 1..n : upTo[i] = upTo[i - 1] + Size(s[i])
  BY <1>1, <1>6
<1>8. 0 \in S /\ \A i \in 1..n : i - 1 \in S => i \in S
  BY <1>1, <1>7
<1>. HIDE DEF S
<1>9. \A i \in 0..n : i \in S
  BY <1>1, <1>8, Induct, Zenon
<1>. QED  BY <1>1, <1>2, <1>9 DEF S

\* Its table, if it has one, names the objects it has
LEMMA IssuedOffsets ==
  ASSUME NEW k \in DOMAIN Layout, NEW raw,
         k = "attributes" => raw = HeaderLen + SizeOf(Issued(k, 1))
  PROVE  OffsetsHold(k, Issued(k, 1), raw)
<1>. DEFINE f == Issued(k, 1)
           tables == {i \in 1..Len(f) : IsTable(k, f[i])}
<1>1. f \in Seq(Obj(k)) /\ Len(f) \in Nat /\ \A i \in 1..Len(f) : f[i].edition = 1
  <2>1. 1 \in Editions
    BY DEF Editions
  <2>2. Len(Tags(k)) \in Nat
    BY TagsOf DEF TagsStand
  <2>. QED  BY <2>1, <2>2, IssuedIs
<1>2. SizeOf(f) \in Int
  BY <1>1, SizeIsInt
<1>3. k = "attributes" => raw = HeaderLen + SizeOf(f)
  OBVIOUS
<1>. HIDE DEF f
<1>4. Start(k, f, raw) = HeaderLen
  BY <1>2, <1>3 DEF Start, HeaderLen
<1>5. ASSUME tables # {} PROVE f[Max(tables)].edition = 1
  <2>1. Max(tables) \in tables
    <3>1. PICK n \in Nat : n = Len(f)
      BY <1>1
    <3>2. tables \subseteq 0..n
      BY <3>1
    <3>. HIDE DEF tables
    <3>. QED  BY <1>5, <3>2, Greatest, Zenon
  <2>. QED  BY <1>1, <2>1
<1>6. tables # {} => StartsFrom(k, Issued(k, f[Max(tables)].edition), HeaderLen)
                       = StartsFrom(k, f, Start(k, f, raw))
  BY <1>4, <1>5 DEF f
<1>7. OffsetsHold(k, f, raw)
  BY <1>6 DEF OffsetsHold
<1>. QED  BY <1>7 DEF f

LEMMA IssuedParses ==
  ASSUME NEW k \in DOMAIN Layout, NEW raw,
         k = "attributes" => raw = HeaderLen + SizeOf(Issued(k, 1))
  PROVE  Parses(k, Issued(k, 1), raw)
<1>. DEFINE f == Issued(k, 1)
           table == Layout[k].table
<1>1. Tags(k) \in TagSeq /\ table \in TagSeq /\ (table # <<>> => Len(table) = 1)
  BY TagsOf DEF TagsStand, SoundLayout
<1>2. Len(f) = Len(Tags(k)) /\ \A i \in 1..Len(Tags(k)) : f[i].tag = Tags(k)[i]
  <2>1. 1 \in Editions
    BY DEF Editions
  <2>. QED  BY <2>1, IssuedIs
<1>3. DOMAIN Tags(k) = 1..Len(Tags(k)) /\ DOMAIN table = 1..Len(table)
  BY <1>1 DEF TagSeq
<1>. HIDE DEF f
<1>4. ASSUME NEW tag \in Range(Tags(k)) \ Range(table) PROVE Places(k, f, tag) # {}
  <2>1. PICK i \in 1..Len(f) : f[i].tag = tag
    BY <1>2, <1>3 DEF Range
  <2>2. table # <<tag>>
    <3>. SUFFICES ASSUME table = <<tag>> PROVE FALSE
      OBVIOUS
    <3>1. table[1] = tag /\ 1 \in DOMAIN table
      OBVIOUS
    <3>. QED  BY <3>1 DEF Range
  <2>3. ~IsTable(k, f[i])
    BY <2>1, <2>2 DEF IsTable
  <2>. QED  BY <2>1, <2>3 DEF Places
<1>5. OffsetsHold(k, f, raw)
  BY IssuedOffsets DEF f
<1>6. Parses(k, f, raw)
  BY <1>4, <1>5 DEF Parses
<1>. QED  BY <1>6 DEF f

LEMMA IssuedMatches == MatchesAttributes(Issued("attributes", 1), 1)
<1>. DEFINE k == "attributes"
           f == Issued(k, 1)
<1>1. k \in DOMAIN Layout /\ 1 \in Editions /\ Layout[k].table = <<"DF21">>
  BY DEF Layout, Editions
<1>2. Len(Layout[k].table) = 1 /\ Layout[k].table[1] = "DF21"
  BY <1>1
<1>3. 1 \in 1..Len(Tags(k)) /\ Tags(k)[1] = "DF21"
  <2>1. TagsStand(Tags(k), Layout[k].table, Layout[k].fields, Layout[k].signature,
                  Layout[k].after)
    BY <1>1, TagsOf
  <2>2. 1 \in 1..Len(Layout[k].table)
    BY <1>2
  <2>. QED  BY <1>2, <2>1, <2>2, Zenon DEF TagsStand
<1>4. Len(f) = Len(Tags(k)) /\ f[1].tag = "DF21"
  BY <1>1, <1>3, IssuedIs
<1>. HIDE DEF f
<1>5. f # <<>>
  BY <1>3, <1>4
<1>6. IsTable("attributes", f[1])
  BY <1>1, <1>4 DEF IsTable
<1>7. DigestSource(f) # {}
  BY <1>5, <1>6 DEF DigestSource
<1>. QED  BY <1>7 DEF MatchesAttributes, f

\* A file nothing has become of is the one that was issued
Untouched == edits = 0 => file = Issued(kind, 1)

LEMMA UntouchedIsIssued == RecordsSpec => []Untouched
<1>1. RecordsInit => Untouched
  BY DEF RecordsInit, Untouched
<1>2. RecordsTypeOK /\ Untouched /\ [RecordsNext]_rvars => Untouched'
  <2>. SUFFICES ASSUME RecordsTypeOK, Untouched, [RecordsNext]_rvars PROVE Untouched'
    OBVIOUS
  <2>1. ASSUME NEW f, Interfere(f) PROVE Untouched'
    BY <2>1 DEF Interfere, RecordsTypeOK, Untouched
  <2>2. CASE UNCHANGED rvars
    BY <2>2 DEF rvars, Untouched
  <2>. QED  BY <2>1, <2>2 DEF RecordsNext, Lose, Replace, Repeat, Swap
<1>. QED  BY <1>1, <1>2, RecordsTypes, PTL DEF RecordsSpec

\* A file as it was issued is accepted with any filler after it, as IssuedIsAccepted says.
THEOREM Accepted == RecordsSpec => []IssuedIsAccepted
<1>1. ASSUME RecordsTypeOK, Untouched, edits = 0
      PROVE  /\ Parses(kind, file, Raw)
             /\ SignatureOf(kind) # <<>> => Verifies(kind, file)
             /\ kind = "attributes" => MatchesAttributes(file, 1)
  <2>1. kind \in DOMAIN Layout /\ file = Issued(kind, 1)
    BY <1>1, KindsAssumption DEF RecordsTypeOK, Untouched
  <2>2. file \in Seq(Obj(kind))
    BY <1>1 DEF RecordsTypeOK, Obj
  <2>3. kind = "attributes" => Raw = HeaderLen + SizeOf(Issued(kind, 1))
    <3>1. SizeOf(file) \in Int
      BY <2>2, SizeIsInt
    <3>. QED  BY <2>1, <3>1 DEF Raw, HeaderLen
  <2>4. Parses(kind, file, Raw)
    BY <2>1, <2>3, IssuedParses
  <2>5. ASSUME SignatureOf(kind) # <<>> PROVE Verifies(kind, file)
    <3>. DEFINE tag == SignatureOf(kind)[1]
    <3>1. Places(kind, file, tag) # {}
      BY <2>1, <2>2, <2>4, <2>5, HasSignature
    <3>. DEFINE m == Min(Places(kind, file, tag))
    <3>2. m \in 1..Len(file) /\ First(kind, file, tag) = file[m]
      BY <2>2, <3>1, FirstIs
    <3>. HIDE DEF m
    <3>3. \A i \in 1..Len(file) : file[i].edition = 1
      <4>1. 1 \in Editions
        BY DEF Editions
      <4>. QED  BY <2>1, <4>1, IssuedIs
    <3>4. First(kind, file, tag).edition = 1
      BY <3>2, <3>3
    <3>. QED  BY <2>1, <3>4 DEF Verifies
  <2>6. kind = "attributes" => MatchesAttributes(file, 1)
    BY <2>1, IssuedMatches
  <2>. QED  BY <2>4, <2>5, <2>6
<1>2. RecordsTypeOK /\ Untouched => IssuedIsAccepted
  BY <1>1 DEF IssuedIsAccepted
<1>. QED  BY <1>2, RecordsTypes, UntouchedIsIssued, PTL
-----------------------------------------------------------------------------
(* civil_from_days, step by step *)

YearOfEra(doe) == (doe - (doe \div 1460) + (doe \div 36524) - (doe \div 146096)) \div 365

DayOfYear(doe) ==
  doe - (365 * YearOfEra(doe) + (YearOfEra(doe) \div 4) - (YearOfEra(doe) \div 100))

\* A day of an era of 400 years falls in a year of the era, and on the last day of
\* that year only where the next February has 29 days
LEMMA EraDivides ==
  ASSUME NEW doe \in Int, 0 <= doe, doe <= 146096
  PROVE  /\ YearOfEra(doe) \in Int /\ 0 <= YearOfEra(doe) /\ YearOfEra(doe) <= 399
         /\ DayOfYear(doe) \in Int /\ 0 <= DayOfYear(doe) /\ DayOfYear(doe) <= 365
         /\ DayOfYear(doe) = 365 =>
              /\ YearOfEra(doe) % 4 = 3
              /\ YearOfEra(doe) % 100 # 99 \/ YearOfEra(doe) = 399
<1> DEFINE yoe == YearOfEra(doe)
           doy == DayOfYear(doe)
\* centuries, of 36524 days but for the last
<1>1. PICK c \in 0..3, r \in Int :
        0 <= r /\ r <= 36524 /\ doe = 36524 * c + r /\ (r = 36524 => c = 3)
  <2>1. CASE doe = 146096
    BY <2>1
  <2>2. CASE doe < 146096
    <3>1. doe \div 36524 \in 0..3 /\ 0 <= doe % 36524 /\ doe % 36524 < 36524
          /\ doe = 36524 * (doe \div 36524) + (doe % 36524)
      BY <2>2
    <3>. QED  BY <3>1
  <2>. QED  BY <2>1, <2>2
\* four years
<1>2. PICK q \in 0..24, s \in Int : 0 <= s /\ s <= 1460 /\ r = 1461 * q + s
  <2>1. r \div 1461 \in 0..24 /\ 0 <= r % 1461 /\ r % 1461 <= 1460
        /\ r = 1461 * (r \div 1461) + (r % 1461)
    BY <1>1
  <2>. QED  BY <2>1
\* years, of 365 days but for the last
<1>3. PICK y \in 0..3, t \in Int : 0 <= t /\ t <= 365 /\ s = 365 * y + t /\ (t = 365 => y = 3)
  <2>1. CASE s = 1460
    BY <2>1
  <2>2. CASE s < 1460
    <3>1. s \div 365 \in 0..3 /\ 0 <= s % 365 /\ s % 365 < 365
          /\ s = 365 * (s \div 365) + (s % 365)
      BY <1>2, <2>2
    <3>. QED  BY <3>1
  <2>. QED  BY <1>2, <2>1, <2>2
<1>4. PICK e \in 0..1 : /\ e = 1 <=> 24 * c + q + s >= 1460
                        /\ doe \div 1460 = 25 * c + q + e
  <2>1. doe = 1460 * (25 * c + q) + (24 * c + q + s)
    BY <1>1, <1>2
  <2>2. 0 <= 24 * c + q + s /\ 24 * c + q + s <= 1556
    BY <1>1, <1>2
  <2>. QED  BY <2>1, <2>2
<1>5. (doe \div 36524) - (doe \div 146096) = c
  BY <1>1
<1>6. doe - (doe \div 1460) + (doe \div 36524) - (doe \div 146096) = 36500 * c + 1460 * q + s - e
  BY <1>1, <1>2, <1>4, <1>5
<1>7. 0 <= s - e - 365 * y /\ s - e - 365 * y < 365
  BY <1>1, <1>2, <1>3, <1>4
<1>8. yoe = 100 * c + 4 * q + y
  BY <1>6, <1>7 DEF YearOfEra
<1>9. yoe \div 4 = 25 * c + q /\ yoe \div 100 = c /\ yoe % 4 = y
  BY <1>8
<1>10. doy = t
  BY <1>1, <1>2, <1>3, <1>8, <1>9 DEF DayOfYear
<1>. HIDE DEF yoe, doy
<1>11. t = 365 => s = 1460 /\ y = 3
  BY <1>3
<1>12. t = 365 => yoe % 100 # 99 \/ yoe = 399
  <2>1. SUFFICES ASSUME t = 365, yoe % 100 = 99 PROVE yoe = 399
    OBVIOUS
  <2>2. q = 24
    BY <1>8, <1>11, <2>1
  <2>3. r = 36524
    BY <1>2, <1>11, <2>1, <2>2
  <2>. QED  BY <1>1, <1>8, <1>11, <2>1, <2>2, <2>3
<1>. QED  BY <1>3, <1>8, <1>9, <1>10, <1>11, <1>12 DEF yoe, doy

MarchMonth(doy) == (5 * doy + 2) \div 153

MonthOf(doy) == IF MarchMonth(doy) < 10 THEN MarchMonth(doy) + 3 ELSE MarchMonth(doy) - 9

DayInMonth(doy) == doy - ((153 * MarchMonth(doy) + 2) \div 5) + 1

\* A day of a year that starts in March falls in a month, at a day the month has
LEMMA YearDivides ==
  ASSUME NEW doy \in Int, 0 <= doy, doy <= 365
  PROVE  /\ MonthOf(doy) \in 1..12
         /\ DayInMonth(doy) \in Nat \ {0}
         /\ MonthOf(doy) = 2 => DayInMonth(doy) = doy - 336 /\ DayInMonth(doy) <= 29
         /\ MonthOf(doy) # 2 =>
              DayInMonth(doy) <= IF MonthOf(doy) \in {4, 6, 9, 11} THEN 30 ELSE 31
         /\ MonthStart[MonthOf(doy)] + DayInMonth(doy)
              = IF MonthOf(doy) <= 2 THEN doy - 305 ELSE doy + 60
         /\ doy = 365 => MonthOf(doy) = 2
<1>1. MarchMonth(doy) \in 0..11
  BY DEF MarchMonth
<1>2. ASSUME NEW m \in 0..11, MarchMonth(doy) = m
      PROVE  153 * m <= 5 * doy + 2 /\ 5 * doy + 2 <= 153 * m + 152
  BY <1>2 DEF MarchMonth
<1>. QED  BY <1>1, <1>2 DEF MonthOf, DayInMonth, MonthStart

\* A leap year ends a day later
LEMMA LeapDay ==
  ASSUME NEW y \in Int
  PROVE  YearEnd(y) = YearEnd(y - 1) + (IF Leap(y) THEN 366 ELSE 365)
BY DEF YearEnd, Leap

LEMMA YearsGoOn ==
  ASSUME NEW y \in Int, NEW z \in Int, y <= z
  PROVE  YearEnd(y) <= YearEnd(z) /\ YearEnd(y) \in Int
BY DEF YearEnd

LEMMA EpochIs == Epoch = 719162
BY SMT DEF Epoch, YearEnd

\* civil_from_days names a day there is, and the day that was asked for
LEMMA CivilDate ==
  ASSUME NEW n \in Int
  PROVE  IsDate(FromDays(n)) /\ DayNumber(FromDays(n)) = n
<1> DEFINE shifted == n + 719468
           era == shifted \div 146097
           doe == shifted % 146097
           y   == YearOfEra(doe) + era * 400
           doy == DayOfYear(doe)
           m   == MonthOf(doy)
           year == y + (IF m <= 2 THEN 1 ELSE 0)
<1>1. era \in Int /\ doe \in Int /\ 0 <= doe /\ doe <= 146096 /\ shifted = 146097 * era + doe
  OBVIOUS
<1>2. FromDays(n) = [year |-> year, month |-> m, day |-> DayInMonth(doy)]
  BY DEF FromDays, YearOfEra, DayOfYear, MarchMonth, MonthOf, DayInMonth
<1>. HIDE DEF shifted, era, doe
<1>3. /\ YearOfEra(doe) \in Int /\ 0 <= YearOfEra(doe) /\ YearOfEra(doe) <= 399
      /\ doy \in Int /\ 0 <= doy /\ doy <= 365
      /\ doy = 365 => /\ YearOfEra(doe) % 4 = 3
                      /\ YearOfEra(doe) % 100 # 99 \/ YearOfEra(doe) = 399
      /\ doe = doy + 365 * YearOfEra(doe) + (YearOfEra(doe) \div 4) - (YearOfEra(doe) \div 100)
  BY <1>1, EraDivides DEF DayOfYear
<1>. HIDE DEF doy
<1>4. /\ m \in 1..12
      /\ DayInMonth(doy) \in Nat \ {0}
      /\ m = 2 => DayInMonth(doy) = doy - 336 /\ DayInMonth(doy) <= 29
      /\ m # 2 => DayInMonth(doy) <= IF m \in {4, 6, 9, 11} THEN 30 ELSE 31
      /\ MonthStart[m] + DayInMonth(doy) = IF m <= 2 THEN doy - 305 ELSE doy + 60
      /\ doy = 365 => m = 2
  BY <1>3, YearDivides
<1>. HIDE DEF m
<1>5. YearEnd(y) = 146097 * era + 365 * YearOfEra(doe)
                     + (YearOfEra(doe) \div 4) - (YearOfEra(doe) \div 100)
  <2>. HIDE DEF y
  <2>1. y = YearOfEra(doe) + era * 400
    BY DEF y
  <2>2. y \div 4 = (YearOfEra(doe) \div 4) + 100 * era
    BY <1>1, <1>3, <2>1, SMT
  <2>3. y \div 100 = (YearOfEra(doe) \div 100) + 4 * era /\ y \div 400 = era
    BY <1>1, <1>3, <2>1, SMT
  <2>. QED  BY <1>1, <1>3, <2>1, <2>2, <2>3, SMT DEF YearEnd
<1>6. doy = 365 => Leap(y + 1)
  BY <1>1, <1>3 DEF Leap
<1>7. y \in Int /\ YearEnd(y) \in Int
  BY <1>1, <1>3 DEF YearEnd
<1>. HIDE DEF y
<1>8. DayInMonth(doy) <= MonthDays(year, m)
  BY <1>3, <1>4, <1>6, SMT DEF MonthDays
<1>9. IsDate(FromDays(n))
  BY <1>2, <1>4, <1>7, <1>8, SMT DEF IsDate
<1>10. DayNumber(FromDays(n)) = YearEnd(year - 1) - Epoch - 1 + MonthStart[m]
                                 + (IF m > 2 /\ Leap(year) THEN 1 ELSE 0) + DayInMonth(doy)
  BY <1>2, SMT DEF DayNumber
<1>11. YearEnd(year - 1) + (IF m > 2 /\ Leap(year) THEN 1 ELSE 0)
         = YearEnd(y) - (IF m > 2 THEN 365 ELSE 0)
  <2>1. CASE m <= 2
    BY <1>4, <1>7, <2>1, SMT
  <2>2. CASE m > 2
    <3>1. YearEnd(y) = YearEnd(y - 1) + (IF Leap(y) THEN 366 ELSE 365) /\ YearEnd(y - 1) \in Int
      BY <1>7, LeapDay, YearsGoOn, SMT
    <3>. QED  BY <1>4, <1>7, <2>2, <3>1, SMT
  <2>. QED  BY <1>4, <2>1, <2>2, SMT
<1>12. YearEnd(y) + doy = n + 719468
  BY <1>1, <1>3, <1>5, <1>7, SMT DEF shifted
<1>13. MonthStart[m] \in Int /\ YearEnd(year - 1) \in Int
  BY <1>4, <1>7, YearsGoOn, SMT DEF MonthStart
<1>14. DayNumber(FromDays(n)) = n
  <2>1. CASE m <= 2
    BY <1>3, <1>4, <1>7, <1>10, <1>11, <1>12, <1>13, EpochIs, SMT, <2>1
  <2>2. CASE m > 2
    BY <1>3, <1>4, <1>7, <1>10, <1>11, <1>12, <1>13, EpochIs, SMT, <2>2
  <2>. QED  BY <1>4, <2>1, <2>2
<1>. QED  BY <1>9, <1>14
-----------------------------------------------------------------------------
(* The order of dates is the order of days *)

\* Days of a year before a month
FirstOf(y, m) == MonthStart[m] + (IF m > 2 /\ Leap(y) THEN 1 ELSE 0)

YearDays(y) == IF Leap(y) THEN 366 ELSE 365

\* The days of a month lie between those of the months before and after it
LEMMA MonthsGoOn ==
  ASSUME NEW y \in Int, NEW m \in 1..12
  PROVE  /\ FirstOf(y, m) \in Nat
         /\ MonthDays(y, m) \in Nat
         /\ \A k \in 1..12 : m < k => FirstOf(y, m) + MonthDays(y, m) <= FirstOf(y, k)
         /\ m < 12 => FirstOf(y, m + 1) = FirstOf(y, m) + MonthDays(y, m)
         /\ m = 12 => FirstOf(y, m) + MonthDays(y, m) = YearDays(y)
         /\ FirstOf(y, m) + MonthDays(y, m) <= YearDays(y)
<1>1. CASE Leap(y)
  BY <1>1 DEF MonthStart, MonthDays, FirstOf, YearDays
<1>2. CASE ~Leap(y)
  BY <1>2 DEF MonthStart, MonthDays, FirstOf, YearDays
<1>. QED  BY <1>1, <1>2

LEMMA DayOfDate ==
  ASSUME NEW d, IsDate(d)
  PROVE  /\ d.year \in Int /\ d.month \in 1..12 /\ d.day \in Nat \ {0}
         /\ d.day <= MonthDays(d.year, d.month)
         /\ FirstOf(d.year, d.month) \in Nat
         /\ YearEnd(d.year - 1) \in Int /\ Epoch \in Int
         /\ DayNumber(d) = YearEnd(d.year - 1) - Epoch - 1 + FirstOf(d.year, d.month) + d.day
<1>1. d.year \in Int /\ d.month \in 1..12 /\ d.day \in Nat \ {0}
      /\ d.day <= MonthDays(d.year, d.month)
  BY DEF IsDate
<1>2. FirstOf(d.year, d.month) \in Nat
  BY <1>1, MonthsGoOn
<1>3. YearEnd(d.year - 1) \in Int /\ Epoch \in Int
  BY <1>1, YearsGoOn, EpochIs
<1>4. MonthStart[d.month] \in Int
  BY <1>1 DEF MonthStart
<1>. QED  BY <1>1, <1>2, <1>3, <1>4, SMT DEF DayNumber, FirstOf

\* A date lies in its year
LEMMA DayInYear ==
  ASSUME NEW d, IsDate(d)
  PROVE  /\ d.year \in Int
         /\ DayNumber(d) \in Int
         /\ YearEnd(d.year - 1) - Epoch <= DayNumber(d)
         /\ DayNumber(d) < YearEnd(d.year) - Epoch
<1>1. FirstOf(d.year, d.month) + MonthDays(d.year, d.month) <= YearDays(d.year)
      /\ MonthDays(d.year, d.month) \in Nat
  BY DayOfDate, MonthsGoOn
<1>2. YearEnd(d.year) = YearEnd(d.year - 1) + YearDays(d.year) /\ YearDays(d.year) \in Nat
  BY DayOfDate, LeapDay, SMT DEF YearDays
<1>. HIDE DEF YearDays
<1>. QED  BY <1>1, <1>2, DayOfDate, SMT

LEMMA OrderOfDates ==
  ASSUME NEW a, NEW b, IsDate(a), IsDate(b), Before(a, b)
  PROVE  DayNumber(a) < DayNumber(b)
<1>1. CASE a.year < b.year
  <2>1. YearEnd(a.year) <= YearEnd(b.year - 1) /\ YearEnd(a.year) \in Int
    BY <1>1, DayOfDate, YearsGoOn, SMT
  <2>. QED  BY <2>1, DayInYear, DayOfDate, SMT
<1>2. CASE a.year = b.year /\ a.month < b.month
  <2>1. FirstOf(a.year, a.month) + MonthDays(a.year, a.month) <= FirstOf(b.year, b.month)
        /\ MonthDays(a.year, a.month) \in Nat
    BY <1>2, DayOfDate, MonthsGoOn
  <2>. QED  BY <1>2, <2>1, DayOfDate, SMT
<1>3. CASE a.year = b.year /\ a.month = b.month /\ a.day < b.day
  BY <1>3, DayOfDate, SMT
<1>. QED  BY <1>1, <1>2, <1>3 DEF Before

\* Of two dates that differ one is the earlier
LEMMA DatesAreOrdered ==
  ASSUME NEW a, NEW b, IsDate(a), IsDate(b)
  PROVE  a = b \/ Before(a, b) \/ Before(b, a)
BY DEF IsDate, Before

\* The days of two dates are in the order of the dates
LEMMA OrderOfDays ==
  ASSUME NEW a, NEW b, IsDate(a), IsDate(b)
  PROVE  Before(a, b) <=> DayNumber(a) < DayNumber(b)
<1>1. DayNumber(a) \in Int /\ DayNumber(b) \in Int
  BY DayInYear
<1>. QED  BY <1>1, OrderOfDates, DatesAreOrdered

\* civil_from_days finds every date
LEMMA DateOfItsDay ==
  ASSUME NEW d, IsDate(d)
  PROVE  FromDays(DayNumber(d)) = d
<1>1. DayNumber(d) \in Int
  BY DayInYear
<1>2. IsDate(FromDays(DayNumber(d))) /\ DayNumber(FromDays(DayNumber(d))) = DayNumber(d)
  BY <1>1, CivilDate
<1>. QED  BY <1>1, <1>2, OrderOfDates, DatesAreOrdered
-----------------------------------------------------------------------------
(* The calendar *)

LEMMA DayAfter ==
  ASSUME NEW d, IsDate(d), NEW t,
         t = IF d.day < MonthDays(d.year, d.month)
               THEN [d EXCEPT !.day = @ + 1]
               ELSE IF d.month < 12
                 THEN [d EXCEPT !.month = @ + 1, !.day = 1]
                 ELSE [year |-> d.year + 1, month |-> 1, day |-> 1]
  PROVE  IsDate(t) /\ DayNumber(t) = DayNumber(d) + 1
<1>1. d = [year |-> d.year, month |-> d.month, day |-> d.day]
  BY DEF IsDate
<1>5. /\ MonthDays(d.year, d.month) \in Nat
      /\ d.month < 12 => FirstOf(d.year, d.month + 1) = FirstOf(d.year, d.month) + MonthDays(d.year, d.month)
      /\ d.month = 12 => FirstOf(d.year, d.month) + MonthDays(d.year, d.month) = YearDays(d.year)
  BY DayOfDate, MonthsGoOn
<1>6. d.day \in Int /\ d.day <= MonthDays(d.year, d.month)
  BY DayOfDate
<1>2. CASE d.day < MonthDays(d.year, d.month)
  <2>1. t = [year |-> d.year, month |-> d.month, day |-> d.day + 1]
    BY <1>1, <1>2
  <2>2. IsDate(t)
    BY <1>2, <2>1, DayOfDate, MonthsGoOn DEF IsDate
  <2>. QED  BY <2>1, <2>2, DayOfDate, SMT
<1>3. CASE ~(d.day < MonthDays(d.year, d.month)) /\ d.month < 12
  <2>1. t = [year |-> d.year, month |-> d.month + 1, day |-> 1]
    BY <1>1, <1>3
  <2>2. d.day = MonthDays(d.year, d.month)
    BY <1>3, <1>5, <1>6
  <2>3. FirstOf(d.year, d.month + 1) = FirstOf(d.year, d.month) + d.day
    BY <1>3, <1>5, <2>2
  <2>4. IsDate(t)
    BY <1>3, <2>1, DayOfDate DEF IsDate, MonthDays
  <2>. QED  BY <2>1, <2>3, <2>4, DayOfDate, SMT
<1>4. CASE ~(d.day < MonthDays(d.year, d.month)) /\ ~(d.month < 12)
  <2>1. t = [year |-> d.year + 1, month |-> 1, day |-> 1] /\ d.month = 12
    BY <1>4, DayOfDate
  <2>2. d.day = MonthDays(d.year, d.month)
    BY <1>4, <1>5, <1>6
  <2>3. YearEnd(d.year) = YearEnd(d.year - 1) + FirstOf(d.year, d.month) + d.day
    <3>1. YearEnd(d.year) = YearEnd(d.year - 1) + YearDays(d.year)
      BY DayOfDate, LeapDay, SMT DEF YearDays
    <3>2. FirstOf(d.year, d.month) + d.day = YearDays(d.year)
      BY <1>5, <2>1, <2>2, SMT
    <3>. QED  BY <3>1, <3>2, DayOfDate, SMT
  <2>4. IsDate(t)
    BY <2>1, DayOfDate DEF IsDate, MonthDays
  <2>5. FirstOf(d.year + 1, 1) = 0
    BY SMT DEF FirstOf, MonthStart
  <2>6. (d.year + 1) - 1 = d.year
    BY DayOfDate
  <2>. QED  BY <2>1, <2>3, <2>4, <2>5, <2>6, DayOfDate, SMT
<1>. QED  BY <1>2, <1>3, <1>4

\* The calendar's date is that of its day
CalendarInv == IsDate(date) /\ day = DayNumber(date) /\ date \in Date

LastDate == [year |-> MaxYear, month |-> 12, day |-> 31]

LEMMA LastIsDate == IsDate(LastDate) /\ LastDate.year = MaxYear /\ MaxYear \in Nat
<1>1. MaxYear \in Nat
  BY SMT DEF MaxYear
<1>2. LastDate = [year |-> MaxYear, month |-> 12, day |-> 31]
  BY DEF LastDate
<1>. HIDE DEF LastDate
<1>. QED  BY <1>1, <1>2 DEF IsDate, MonthDays

LEMMA CalendarInitInv == CalendarInit => CalendarInv
BY SpansAssumption DEF CalendarInit, CalendarInv

LEMMA CalendarStepInv == CalendarInv /\ [CalendarNext]_calvars => CalendarInv'
<1>1. ASSUME CalendarInv, Midnight PROVE CalendarInv'
  <2>1. IsDate(date') /\ DayNumber(date') = DayNumber(date) + 1
    BY <1>1, DayAfter DEF CalendarInv, Midnight
  <2>2. day' = DayNumber(date') /\ day \in Int
    BY <1>1, <2>1, DayInYear DEF CalendarInv, Midnight
  <2>3. PICK span \in Spans : day < span.last
    BY <1>1 DEF Midnight
  <2>4. day' <= DayNumber(LastDate)
    BY <1>1, <2>2, <2>3, SpansAssumption, LastIsDate, DayInYear DEF Midnight, LastDate
  <2>5. ~Before(LastDate, date')
    BY <2>1, <2>2, <2>4, LastIsDate, OrderOfDates, DayInYear
  <2>6. date'.year <= MaxYear /\ date'.year \in Int
    BY <2>1, <2>5, LastIsDate, DayOfDate DEF Before
  <2>7. ~Before(date', date)
    BY <1>1, <2>1, OrderOfDates, DayInYear DEF CalendarInv
  <2>8. date'.year >= date.year /\ date.year >= 1 /\ date.year \in Int
    BY <1>1, <2>1, <2>6, <2>7, DayOfDate, LastIsDate DEF CalendarInv, Before, Date
  <2>9. date' \in Date
    BY <2>1, <2>6, <2>8, LastIsDate DEF IsDate, Date, MonthDays
  <2>. QED  BY <2>1, <2>2, <2>9 DEF CalendarInv
<1>2. ASSUME CalendarInv, UNCHANGED calvars PROVE CalendarInv'
  BY <1>2 DEF CalendarInv, calvars
<1>. QED  BY <1>1, <1>2 DEF CalendarNext

\* A moment falls on the day whose seconds it is among
LEMMA DayOfMoment ==
  ASSUME NEW t \in Int
  PROVE  /\ DayOf(t) \in Int
         /\ DayOf(t) * DaySeconds <= t
         /\ t < (DayOf(t) + 1) * DaySeconds
BY DaySecondsAssumption DEF DayOf

LEMMA DaysInOrder ==
  ASSUME NEW a \in Int, NEW b \in Int
  PROVE  a < b <=> a * DaySeconds < b * DaySeconds
<1>1. DaySeconds \in Nat /\ DaySeconds > 0
  BY DaySecondsAssumption
<1>2. ASSUME NEW x \in Int, NEW y \in Int, x < y PROVE x * DaySeconds < y * DaySeconds
  <2>1. PICK z \in Nat : y = x + 1 + z
    BY <1>2
  <2>2. z * DaySeconds \in Nat
    BY <1>1
  <2>3. y * DaySeconds = x * DaySeconds + DaySeconds + z * DaySeconds
    BY <1>1, <2>1
  <2>. QED  BY <1>1, <2>2, <2>3
<1>3. CASE a < b
  BY <1>2, <1>3
<1>4. CASE b < a
  <2>1. b * DaySeconds < a * DaySeconds
    BY <1>2, <1>4
  <2>. QED  BY <1>1, <1>4, <2>1
<1>5. CASE a = b
  BY <1>1, <1>5
<1>. QED  BY <1>3, <1>4, <1>5

LEMMA DayOfSecond ==
  ASSUME NEW k \in Int, NEW t \in Int, k * DaySeconds <= t, t < (k + 1) * DaySeconds
  PROVE  DayOf(t) = k
<1>. DEFINE j == DayOf(t)
<1>1. j \in Int /\ j * DaySeconds <= t /\ t < (j + 1) * DaySeconds
  BY DayOfMoment
<1>. HIDE DEF j
<1>2. j * DaySeconds < (k + 1) * DaySeconds /\ k * DaySeconds < (j + 1) * DaySeconds
  BY <1>1, DaySecondsAssumption
<1>3. j < k + 1 /\ k < j + 1
  BY <1>1, <1>2, DaysInOrder
<1>. QED  BY <1>1, <1>3 DEF j

\* The calendar stays within the spans it is looked at in, and in years of four digits.
THEOREM CalendarTypes == CalendarSpec => []CalendarTypeOK
<1>1. CalendarInv => CalendarTypeOK
  BY DayInYear DEF CalendarInv, CalendarTypeOK
<1>. QED  BY <1>1, CalendarInitInv, CalendarStepInv, PTL DEF CalendarSpec

\* Date::from_unix_seconds names the date of every day, by whichever of its seconds:
\* in any year, before 1970 as after.
THEOREM DatesTrue == CalendarSpec => []DatesAreTrue
<1>1. CalendarInv => DatesAreTrue
  <2>1. SUFFICES ASSUME CalendarInv, NEW s \in 0..DaySeconds - 1
                 PROVE  FromUnixSeconds(day * DaySeconds + s) = date
    BY DEF DatesAreTrue
  <2>2. day \in Int /\ IsDate(date) /\ day = DayNumber(date)
    BY <2>1, DayInYear DEF CalendarInv
  <2>3. s \in Int /\ 0 <= s /\ s < DaySeconds /\ day * DaySeconds \in Int
        /\ (day + 1) * DaySeconds = day * DaySeconds + DaySeconds
    BY <2>2, DaySecondsAssumption
  <2>4. DayOf(day * DaySeconds + s) = day
    BY <2>2, <2>3, DayOfSecond, DaySecondsAssumption
  <2>. QED  BY <2>2, <2>4, DateOfItsDay DEF FromUnixSeconds
<1>. QED  BY <1>1, CalendarInitInv, CalendarStepInv, PTL DEF CalendarSpec
-----------------------------------------------------------------------------
(* Eras *)

Begins(i) == Eras[i].begins

\* Eras begun by a date
Begun(d) == {i \in 1..5 : ~Before(d, Begins(i))}

\* The eras are dated, and each begins before the one listed above it
LEMMA ErasAreInOrder ==
  /\ Len(Eras) = 5
  /\ \A i \in 1..5 : IsDate(Begins(i))
  /\ \A i \in 1..4 : Before(Begins(i + 1), Begins(i))
<1>1. Len(Eras) = 5
  BY DEF Eras
<1>2. /\ Begins(1) = [year |-> 2019, month |-> 5, day |-> 1]
      /\ Begins(2) = [year |-> 1989, month |-> 1, day |-> 8]
      /\ Begins(3) = [year |-> 1926, month |-> 12, day |-> 25]
      /\ Begins(4) = [year |-> 1912, month |-> 7, day |-> 30]
      /\ Begins(5) = [year |-> 1868, month |-> 1, day |-> 25]
  BY DEF Begins, Eras, Era
<1>3. \A i \in 1..5 : IsDate(Begins(i))
  BY <1>2, SMT DEF IsDate, MonthDays
<1>4. \A i \in 1..4 : Before(Begins(i + 1), Begins(i))
  <2>1. /\ Before(Begins(2), Begins(1)) /\ Before(Begins(3), Begins(2))
        /\ Before(Begins(4), Begins(3)) /\ Before(Begins(5), Begins(4))
    BY <1>2, SMT DEF Before
  <2>. QED  BY <2>1
<1>. QED  BY <1>1, <1>3, <1>4

\* to_era finds the latest era begun
LEMMA EraOfDate ==
  ASSUME NEW d, NEW e
  PROVE  e \in ToEra(d) <=>
           \E i \in Begun(d) : /\ \A k \in Begun(d) : i <= k
                              /\ e = [era |-> i, year |-> d.year - Begins(i).year + 1]
<1>1. {i \in 1..Len(Eras) : ~Before(d, Eras[i].begins)} = Begun(d)
  BY ErasAreInOrder DEF Begun, Begins
<1>. QED  BY <1>1 DEF ToEra, Begins

\* What an era is told for: from one day to the next it goes on or gives way to the next
LEMMA EraOfNextDay ==
  ASSUME NEW d, IsDate(d), NEW t, IsDate(t), DayNumber(t) = DayNumber(d) + 1,
         NEW now \in ToEra(t)
  PROVE  \/ ToEra(d) = {} /\ now = [era |-> 5, year |-> 1]
         \/ \E old \in ToEra(d) :
              \/ now.era = old.era /\ now.year = old.year + (t.year - d.year)
              \/ now.era = old.era - 1 /\ now.year = 1
<1>1. PICK i \in Begun(t) : /\ \A k \in Begun(t) : i <= k
                            /\ now = [era |-> i, year |-> t.year - Begins(i).year + 1]
  BY EraOfDate
<1>2. Begun(d) \subseteq Begun(t)
  <2>1. ASSUME NEW k \in 1..5, Before(t, Begins(k)) PROVE Before(d, Begins(k))
    <3>1. IsDate(Begins(k)) /\ DayNumber(t) < DayNumber(Begins(k))
      BY <2>1, ErasAreInOrder, OrderOfDates
    <3>. QED  BY <3>1, OrderOfDays, DayInYear
  <2>. QED  BY <2>1 DEF Begun
<1>3. i \in 1..5 /\ IsDate(Begins(i)) /\ d.year \in Int /\ t.year \in Int /\ Begins(i).year \in Int
  BY <1>1, ErasAreInOrder, DayInYear DEF Begun
<1>4. CASE i \in Begun(d)
  <2>. DEFINE old == [era |-> i, year |-> d.year - Begins(i).year + 1]
  <2>1. old \in ToEra(d)
    BY <1>1, <1>2, <1>4, EraOfDate
  <2>2. now.era = old.era /\ now.year = old.year + (t.year - d.year)
    BY <1>1, <1>3
  <2>. QED  BY <2>1, <2>2
<1>5. CASE i \notin Begun(d)
  <2>1. t = Begins(i)
    <3>1. Before(d, Begins(i)) /\ ~Before(t, Begins(i))
      BY <1>1, <1>3, <1>5 DEF Begun
    <3>2. DayNumber(d) < DayNumber(Begins(i)) /\ ~(DayNumber(t) < DayNumber(Begins(i)))
      BY <1>3, <3>1, OrderOfDays
    <3>3. DayNumber(t) = DayNumber(Begins(i))
      BY <1>3, <3>2, DayInYear
    <3>. QED  BY <1>3, <3>3, DateOfItsDay
  <2>2. now.era = i /\ now.year = 1
    BY <1>1, <1>3, <2>1
  <2>3. \A k \in Begun(d) : k \in 1..5 /\ i < k
    BY <1>1, <1>2, <1>5 DEF Begun
  <2>4. CASE i = 5
    <3>1. Begun(d) = {}
      <4>1. ASSUME NEW k \in Begun(d) PROVE FALSE
        BY <2>3, <2>4, <4>1
      <4>. QED  BY <4>1
    <3>2. ToEra(d) = {}
      BY <3>1, EraOfDate
    <3>. QED  BY <1>1, <1>3, <2>1, <2>4, <3>2
  <2>5. CASE i # 5
    <3>1. i \in 1..4 /\ i + 1 \in 1..5
      BY <1>3, <2>5
    <3>2. IsDate(Begins(i + 1)) /\ DayNumber(Begins(i + 1)) < DayNumber(Begins(i))
      BY <1>3, <3>1, ErasAreInOrder, OrderOfDates
    <3>3. ~(DayNumber(d) < DayNumber(Begins(i + 1)))
      BY <2>1, <3>2, DayInYear
    <3>4. i + 1 \in Begun(d)
      <4>1. ~Before(d, Begins(i + 1))
        BY <3>2, <3>3, OrderOfDates
      <4>. QED  BY <3>1, <4>1 DEF Begun
    <3>. DEFINE old == [era |-> i + 1, year |-> d.year - Begins(i + 1).year + 1]
    <3>5. old \in ToEra(d)
      BY <1>3, <2>3, <3>4, EraOfDate
    <3>6. now.era = old.era - 1
      BY <1>3, <2>2
    <3>. QED  BY <2>2, <3>5, <3>6
  <2>. QED  BY <2>4, <2>5
<1>. QED  BY <1>4, <1>5

\* Eras follow one another day by day, as ErasTurn says of to_era, for all dates.
THEOREM ErasInTurn == CalendarSpec => ErasTurn
<1>1. ASSUME CalendarInv, Midnight PROVE EraTurns
  <2>1. IsDate(date) /\ IsDate(date') /\ DayNumber(date') = DayNumber(date) + 1
    BY <1>1, DayAfter DEF CalendarInv, Midnight
  <2>2. date'.year - date.year = IF date'.year > date.year THEN 1 ELSE 0
    BY <1>1, <2>1, DayOfDate DEF Midnight
  <2>. QED  BY <2>1, <2>2, EraOfNextDay, ErasAreInOrder DEF EraTurns
<1>2. CalendarInv /\ [CalendarNext]_calvars => [EraTurns]_calvars
  BY <1>1 DEF CalendarNext
<1>. QED  BY <1>2, CalendarInitInv, CalendarStepInv, PTL DEF CalendarSpec, ErasTurn

Digit == 0..9

DigitSeq == Seq(Digit)

\* Two decimal digits
LEMMA Digits ==
  ASSUME NEW n \in Int, 0 <= n, n <= 99
  PROVE  /\ TwoDigits(n) \in DigitSeq
         /\ Len(TwoDigits(n)) = 2
         /\ 10 * TwoDigits(n)[1] + TwoDigits(n)[2] = n
<1>. DEFINE tens == n \div 10
           units == n % 10
<1>1. tens \in 0..9 /\ units \in 0..9 /\ 10 * tens + units = n
  OBVIOUS
<1>2. TwoDigits(n) = <<tens, units>>
  BY DEF TwoDigits
<1>. HIDE DEF tens, units
<1>3. tens \in Digit /\ units \in Digit
  BY <1>1, Zenon DEF Digit
<1>4. <<tens, units>> \in DigitSeq /\ Len(<<tens, units>>) = 2
  BY <1>3 DEF DigitSeq
<1>. QED  BY <1>1, <1>2, <1>4

JoinsDigits(u, s, t) ==
  /\ u \in DigitSeq
  /\ Len(u) = Len(s) + Len(t)
  /\ \A i \in 1..Len(s) : u[i] = s[i]
  /\ \A i \in 1..Len(t) : u[Len(s) + i] = t[i]

LEMMA JoinDigits ==
  ASSUME NEW s \in DigitSeq, NEW t \in DigitSeq, NEW u, u = s \o t
  PROVE  JoinsDigits(u, s, t)
BY DEF DigitSeq, JoinsDigits

LEMMA DigitOfSeq ==
  ASSUME NEW s \in DigitSeq, NEW k \in Nat, Len(s) = k
  PROVE  \A i \in 1..k : s[i] \in Digit
BY DEF DigitSeq

LEMMA ExpiryDigits == FourDigits(2035) \in DigitSeq /\ Len(FourDigits(2035)) = 4
<1>1. 2035 \div 100 = 20 /\ 2035 % 100 = 35
  BY SMT
<1>2. FourDigits(2035) = TwoDigits(20) \o TwoDigits(35)
  BY <1>1, SMT DEF FourDigits
<1>3. TwoDigits(20) \in DigitSeq /\ Len(TwoDigits(20)) = 2
      /\ TwoDigits(35) \in DigitSeq /\ Len(TwoDigits(35)) = 2
  BY Digits
<1>. DEFINE s == TwoDigits(20)
           t == TwoDigits(35)
           u == FourDigits(2035)
<1>. HIDE DEF s, t, u
<1>4. u = s \o t
  BY <1>2, SMT DEF s, t, u
<1>5. s \in DigitSeq /\ Len(s) = 2 /\ t \in DigitSeq /\ Len(t) = 2
  BY <1>3 DEF s, t
<1>6. PICK k \in Nat : k = 2
  OBVIOUS
<1>7. Len(s) = k /\ Len(t) = k
  BY <1>5, <1>6
<1>8. JoinsDigits(u, s, t)
  BY <1>4, <1>5, JoinDigits, Zenon
<1>. QED  BY <1>6, <1>7, <1>8 DEF u, JoinsDigits

\* A code that consists of these five parts and tells the first three
Tells(code, y, m, d, x, z) ==
  /\ code \in DigitSeq
  /\ Len(code) = Len(y) + Len(m) + Len(d) + Len(x) + Len(z)
  /\ \A i \in 1..Len(y) : code[i] = y[i]
  /\ \A i \in 1..Len(m) : code[Len(y) + i] = m[i]
  /\ \A i \in 1..Len(d) : code[Len(y) + Len(m) + i] = d[i]

LEMMA CodeDigits ==
  ASSUME NEW y \in DigitSeq, NEW m \in DigitSeq, NEW d \in DigitSeq, NEW x \in DigitSeq,
         NEW z \in DigitSeq, NEW a, NEW b, NEW c, NEW code,
         a = y \o m, b = a \o d, c = b \o x, code = c \o z
  PROVE  Tells(code, y, m, d, x, z)
<1>1. JoinsDigits(a, y, m)
  BY JoinDigits, Zenon
<1>2. a \in DigitSeq
  BY <1>1 DEF JoinsDigits
<1>3. JoinsDigits(b, a, d)
  BY <1>2, JoinDigits, Zenon
<1>4. b \in DigitSeq
  BY <1>3 DEF JoinsDigits
<1>5. JoinsDigits(c, b, x)
  BY <1>4, JoinDigits, Zenon
<1>6. c \in DigitSeq
  BY <1>5 DEF JoinsDigits
<1>7. JoinsDigits(code, c, z)
  BY <1>6, JoinDigits, Zenon
<1>8. /\ Len(y) \in Nat /\ Len(m) \in Nat /\ Len(d) \in Nat /\ Len(x) \in Nat
      /\ Len(z) \in Nat
  BY DEF DigitSeq
<1>9. \A i \in 1..Len(b) : code[i] = b[i]
  BY <1>3, <1>5, <1>7, <1>1, <1>8 DEF JoinsDigits
<1>10. \A i \in 1..Len(a) : code[i] = a[i]
  BY <1>1, <1>3, <1>8, <1>9 DEF JoinsDigits
<1>11. \A i \in 1..Len(y) : code[i] = y[i]
  BY <1>1, <1>8, <1>10 DEF JoinsDigits
<1>12. ASSUME NEW i \in 1..Len(m) PROVE code[Len(y) + i] = m[i]
  BY <1>1, <1>8, <1>10 DEF JoinsDigits
<1>13. ASSUME NEW i \in 1..Len(d) PROVE code[Len(y) + Len(m) + i] = d[i]
  BY <1>1, <1>3, <1>8, <1>9 DEF JoinsDigits
<1>. QED  BY <1>1, <1>3, <1>5, <1>7, <1>8, <1>11, <1>12, <1>13 DEF JoinsDigits, Tells

\* verification_code_b tells every date of birth, as CodeTellsBirthDate says.
THEOREM CodesTell == CalendarSpec => []CodeTellsBirthDate
<1>1. ASSUME CalendarInv, NEW s \in SecurityCodes, NEW code,
             code = VerificationCodeB(date, 2035, s), code # NoCode
      PROVE  /\ Len(code) = 14
             /\ \A i \in 1..14 : code[i] \in 0..9
             /\ \E i \in 1..5 :
                  FromDays(day) = [year  |-> Eras[i].begins.year + 10 * code[1] + code[2] - 1,
                                   month |-> 10 * code[3] + code[4],
                                   day   |-> 10 * code[5] + code[6]]
  <2>1. IsDate(date) /\ FromDays(day) = date
    BY <1>1, DateOfItsDay DEF CalendarInv
  <2>2. /\ ToEra(date) # {} /\ \A e \in ToEra(date) : ~(e.year > 99)
        /\ IsSecurityCode(s)
    BY <1>1 DEF VerificationCodeB
  <2>. DEFINE era == CHOOSE e \in ToEra(date) : TRUE
  <2>3. era \in ToEra(date)
    BY <2>2
  <2>4. code = TwoDigits(era.year) \o TwoDigits(date.month) \o TwoDigits(date.day)
                 \o FourDigits(2035) \o s
    BY <1>1, <2>2 DEF VerificationCodeB
  <2>s. s \in DigitSeq /\ Len(s) = 4
    <3>1. s = <<1, 2, 3, 4>>
      BY <2>2 DEF IsSecurityCode, SecurityCodes
    <3>. QED  BY <3>1 DEF DigitSeq, Digit
  <2>. HIDE DEF era
  <2>5. PICK i \in Begun(date) : era = [era |-> i, year |-> date.year - Begins(i).year + 1]
    BY <2>3, EraOfDate
  <2>6. i \in 1..5 /\ ~Before(date, Begins(i)) /\ IsDate(Begins(i))
    BY ErasAreInOrder DEF Begun
  <2>7. /\ date.year \in Int /\ Begins(i).year \in Int /\ date.year >= Begins(i).year
        /\ date.month \in Int /\ 0 <= date.month /\ date.month <= 99
        /\ date.day \in Int /\ 0 <= date.day /\ date.day <= 99
    BY <1>1, <2>1, <2>6, DayOfDate DEF Before, CalendarInv, Date
  <2>8. /\ era.year \in Int /\ 0 <= era.year /\ era.year <= 99
        /\ date.year = Begins(i).year + era.year - 1
    BY <2>2, <2>3, <2>5, <2>7
  <2>9. date = [year |-> date.year, month |-> date.month, day |-> date.day]
    BY <2>1 DEF IsDate
  <2>. DEFINE y == TwoDigits(era.year)
             m == TwoDigits(date.month)
             d == TwoDigits(date.day)
  <2>10. /\ y \in DigitSeq /\ Len(y) = 2 /\ 10 * y[1] + y[2] = era.year
         /\ m \in DigitSeq /\ Len(m) = 2 /\ 10 * m[1] + m[2] = date.month
         /\ d \in DigitSeq /\ Len(d) = 2 /\ 10 * d[1] + d[2] = date.day
    BY <2>7, <2>8, Digits
  <2>11. /\ code \in DigitSeq /\ Len(code) = 14
         /\ code[1] = y[1] /\ code[2] = y[2] /\ code[3] = m[1] /\ code[4] = m[2]
         /\ code[5] = d[1] /\ code[6] = d[2]
    <3>. DEFINE x == FourDigits(2035)
               z == s
               a == y \o m
               b == a \o d
               c == b \o x
    <3>1. z \in DigitSeq /\ Len(z) = 4
      BY <2>s
    <3>2. x \in DigitSeq /\ Len(x) = 4
      BY ExpiryDigits
    <3>3. code = c \o z
      BY <2>4, Zenon
    <3>. HIDE DEF x, y, m, d, z
    <3>4. a = y \o m /\ b = a \o d /\ c = b \o x
      OBVIOUS
    <3>. HIDE DEF a, b, c
    <3>5. PICK k \in Nat : k = 2
      OBVIOUS
    <3>6. PICK l \in Nat : l = 4
      OBVIOUS
    <3>7. Len(y) = k /\ Len(m) = k /\ Len(d) = k /\ Len(x) = l /\ Len(z) = l
      BY <2>10, <3>1, <3>2, <3>5, <3>6, Zenon
    <3>8. Tells(code, y, m, d, x, z)
      BY <2>10, <3>1, <3>2, <3>3, <3>4, CodeDigits, Zenon
    <3>9. code[1] = y[1] /\ code[2] = y[2] /\ code[k + 1] = m[1] /\ code[k + 2] = m[2]
          /\ code[k + k + 1] = d[1] /\ code[k + k + 2] = d[2]
      BY <3>5, <3>7, <3>8 DEF Tells
    <3>. QED  BY <3>5, <3>6, <3>7, <3>8, <3>9 DEF Tells
  <2>12. \A k \in 1..14 : code[k] \in 0..9
    BY <2>11, DigitOfSeq, Zenon DEF Digit
  <2>13. y[1] \in Int /\ y[2] \in Int
    <3>1. \A k \in 1..2 : y[k] \in Digit
      BY <2>10, DigitOfSeq, Zenon
    <3>. QED  BY <3>1 DEF Digit
  <2>. HIDE DEF y, m, d
  <2>14. /\ date.year = Eras[i].begins.year + 10 * code[1] + code[2] - 1
         /\ date.month = 10 * code[3] + code[4]
         /\ date.day = 10 * code[5] + code[6]
    BY <2>7, <2>8, <2>10, <2>11, <2>13 DEF Begins
  <2>. QED  BY <2>1, <2>6, <2>9, <2>11, <2>12, <2>14
<1>2. CalendarInv => CodeTellsBirthDate
  BY <1>1, ErasAreInOrder DEF CodeTellsBirthDate
<1>. QED  BY <1>2, CalendarInitInv, CalendarStepInv, PTL DEF CalendarSpec
-----------------------------------------------------------------------------
(* Certificates: validity by dates and by seconds *)

\* Comparing dates compares days
LEMMA ValidByDays ==
  ASSUME NEW cert \in Certificate, moment \in Int
  PROVE  IsValidOn(cert, On) <=>
           DayOf(cert.from) <= DayOf(moment) /\ DayOf(moment) <= DayOf(cert.to)
<1>1. cert.from \in Int /\ cert.to \in Int
  BY CertificatesAssumption
<1>2. DayOf(cert.from) \in Int /\ DayOf(cert.to) \in Int /\ DayOf(moment) \in Int
  BY <1>1, DayOfMoment
<1>3. \A n \in Int : IsDate(FromDays(n)) /\ DayNumber(FromDays(n)) = n
  BY CivilDate
<1>4. /\ Before(On, FromUnixSeconds(cert.from)) <=> DayOf(moment) < DayOf(cert.from)
      /\ Before(FromUnixSeconds(cert.to), On) <=> DayOf(cert.to) < DayOf(moment)
  BY <1>2, <1>3, OrderOfDays DEF On, FromUnixSeconds
<1>. QED  BY <1>2, <1>4 DEF IsValidOn

\* Earlier seconds are not of later days
LEMMA DayOfInOrder ==
  ASSUME NEW s \in Int, NEW t \in Int, s <= t
  PROVE  DayOf(s) <= DayOf(t)
<1>. DEFINE j == DayOf(s)
           k == DayOf(t)
<1>1. j \in Int /\ k \in Int /\ j * DaySeconds <= s /\ t < (k + 1) * DaySeconds
  BY DayOfMoment
<1>. HIDE DEF j, k
<1>2. j * DaySeconds \in Int /\ (k + 1) * DaySeconds \in Int
  BY <1>1, DaySecondsAssumption
<1>3. j < k + 1
  BY <1>1, <1>2, DaysInOrder
<1>. QED  BY <1>1, <1>3 DEF j, k

\* A certificate valid at the second is found valid on the day
LEMMA InForceIsValid ==
  ASSUME NEW cert \in Certificate, moment \in Int, InForce(cert)
  PROVE  IsValidOn(cert, On)
BY CertificatesAssumption, DayOfInOrder, ValidByDays DEF InForce

\* One found valid on the day has begun by the end of it and was not over before
LEMMA ValidIsInForceToday ==
  ASSUME NEW cert \in Certificate, moment \in Int, IsValidOn(cert, On)
  PROVE  InForceToday(cert)
<1>. DEFINE f == DayOf(cert.from)
           d == DayOf(moment)
           t == DayOf(cert.to)
<1>1. cert.from \in Int /\ cert.to \in Int
  BY CertificatesAssumption
<1>2. /\ f \in Int /\ cert.from < (f + 1) * DaySeconds
      /\ t \in Int /\ t * DaySeconds <= cert.to
      /\ d \in Int
  BY <1>1, DayOfMoment
<1>3. f <= d /\ d <= t
  BY ValidByDays
<1>. HIDE DEF f, d, t
<1>4. /\ f * DaySeconds \in Int /\ d * DaySeconds \in Int /\ t * DaySeconds \in Int
      /\ (f + 1) * DaySeconds = f * DaySeconds + DaySeconds
      /\ (d + 1) * DaySeconds = d * DaySeconds + DaySeconds
      /\ DaySeconds \in Nat
  BY <1>2, DaySecondsAssumption
<1>5. ~(d * DaySeconds < f * DaySeconds) /\ ~(t * DaySeconds < d * DaySeconds)
  BY <1>2, <1>3, DaysInOrder
<1>6. cert.from <= d * DaySeconds + DaySeconds - 1 /\ d * DaySeconds <= cert.to
  BY <1>1, <1>2, <1>4, <1>5
<1>. QED  BY <1>4, <1>6 DEF InForceToday, d
-----------------------------------------------------------------------------
(* Chains *)

CertSeq == Seq(Certificate)

Linked(i) ==
  certs[i].issuer = certs[i + 1].subject /\ VerifySignature(certs[i], certs[i + 1])

AllLinked == \A i \in 1..Len(certs) - 1 : Linked(i)

AllValid == \A i \in 1..Len(certs) : IsValidOn(certs[i], On)

\* The chain verify_to_root makes: the certificate and the root that issued it
RootedBy(i) == Len(certs) = 2 /\ certs[2] = Roots[i] /\ Issues(Roots[i], certs[1])

IsRooted == \E i \in 1..Len(Roots) : RootedBy(i)

NoneIssues == \A i \in 1..Len(Roots) : ~Issues(Roots[i], certs[1])

\* Where a call stands: what it has been found so far
Progress ==
  /\ step = "idle" => index = 1 /\ call = "none"
  /\ step # "idle" => call \in {"root", "chain"}
  /\ step = "lookup" =>
       /\ call = "root" /\ Len(certs) = 1
       /\ \A i \in 1..index - 1 : ~Issues(Roots[i], certs[1])
  /\ step = "leaf" => index = 1
  /\ step \in {"leaf", "links"} =>
       /\ Len(certs) > 0
       /\ call = "root" => IsRooted
  /\ step = "links" =>
       /\ IsValidOn(certs[1], On)
       /\ \A i \in 1..index - 1 : Linked(i) /\ IsValidOn(certs[i + 1], On)

\* What an answer says of the chain
Answered ==
  /\ answer = "ok" => Len(certs) > 0 /\ AllLinked /\ AllValid /\ (call = "root" => IsRooted)
  /\ answer = "malformed" =>
       IF call = "root" THEN IsRooted /\ ~AllValid
                        ELSE Len(certs) = 0 \/ ~AllLinked \/ ~AllValid
  /\ answer = "signature" => IF call = "root" THEN NoneIssues ELSE ~AllLinked

X509Inv == X509TypeOK /\ certs \in CertSeq /\ Progress /\ Answered

LEMMA X509InitInv == X509Init => X509Inv
<1>1. <<>> \in CertSeq /\ Len(<<>>) = 0
  BY DEF CertSeq
<1>. QED  BY <1>1 DEF X509Init, X509Inv, X509TypeOK, Progress, Answered

\* The seconds are numbers and the chain a sequence of certificates with numbers
LEMMA Chained ==
  ASSUME X509Inv
  PROVE  /\ moment \in Int
         /\ Len(certs) \in Nat
         /\ \A i \in 1..Len(certs) : certs[i] \in Certificate
BY CertificatesAssumption DEF X509Inv, X509TypeOK, CertSeq

LEMMA ToRootKeeps ==
  ASSUME X509Inv, NEW leaf \in Leaf, VerifyToRoot(leaf)
  PROVE  X509Inv'
<1>1. <<leaf>> \in CertSeq /\ Len(<<leaf>>) = 1
  BY DEF CertSeq, Certificate
<1>2. Len(Roots) \in Nat
  BY CertificatesAssumption
<1>. QED
  BY <1>1, <1>2 DEF VerifyToRoot, X509Inv, X509TypeOK, Progress, Answered

\* Up to two certificates and perhaps a root
LEMMA ChosenChain ==
  ASSUME NEW n \in 0..2, NEW tops \in [1..n -> Leaf],
         NEW root \in {<<>>} \cup {<<Roots[i]>> : i \in 1..Len(Roots)}
  PROVE  tops \o root \in CertSeq /\ Len(tops \o root) \in 0..3
<1>1. tops \in Seq(Certificate) /\ Len(tops) = n
  <2>1. n \in Nat /\ Leaf \subseteq Certificate
    BY DEF Certificate
  <2>2. tops \in [1..n -> Certificate]
    BY <2>1
  <2>. QED  BY <2>1, <2>2
<1>2. root \in Seq(Certificate) /\ Len(root) \in 0..1
  <2>1. CASE root = <<>>
    BY <2>1
  <2>2. ASSUME NEW i \in 1..Len(Roots), root = <<Roots[i]>>
        PROVE  root \in Seq(Certificate) /\ Len(root) = 1
    <3>1. Roots[i] \in Certificate
      BY DEF Certificate
    <3>. QED  BY <2>2, <3>1
  <2>. QED  BY <2>1, <2>2, SMT
<1>3. Len(tops \o root) = Len(tops) + Len(root) /\ tops \o root \in Seq(Certificate)
  BY <1>1, <1>2
<1>4. \A k \in 0..1 : n + k \in 0..3
  OBVIOUS
<1>5. Len(tops \o root) \in 0..3
  BY <1>1, <1>2, <1>3, <1>4, Zenon
<1>. QED  BY <1>3, <1>5, Zenon DEF CertSeq

LEMMA CertificatesKeep ==
  ASSUME X509Inv, step = "idle", NEW chosen \in CertSeq, Len(chosen) \in 0..3,
         VerifyCertificates(chosen)
  PROVE  X509Inv'
<1>1. CASE chosen = <<>>
  <2>1. Len(certs') = 0
    BY <1>1 DEF VerifyCertificates
  <2>. QED
    BY <1>1, <2>1 DEF VerifyCertificates, Settle, X509Inv, X509TypeOK, Progress, Answered
<1>2. CASE chosen # <<>>
  <2>1. Len(certs') > 0
    BY <1>2 DEF VerifyCertificates, CertSeq
  <2>. QED
    BY <1>2, <2>1 DEF VerifyCertificates, Settle, X509Inv, X509TypeOK, Progress, Answered
<1>. QED  BY <1>1, <1>2

\* A chain that goes on from another by one certificate
GoesOn(u, s, cert) ==
  /\ u \in CertSeq
  /\ Len(u) = Len(s) + 1
  /\ u[Len(s) + 1] = cert
  /\ \A i \in 1..Len(s) : u[i] = s[i]

LEMMA OneMore ==
  ASSUME NEW s \in CertSeq, NEW cert \in Certificate, NEW u, u = Append(s, cert)
  PROVE  GoesOn(u, s, cert)
BY DEF CertSeq, GoesOn

LEMMA IssuerOfKeeps ==
  ASSUME X509Inv, IssuerOf
  PROVE  X509Inv'
<1>. DEFINE leaf == certs[1]
<1>1. /\ step = "lookup" /\ call = "root" /\ Len(certs) = 1 /\ certs \in CertSeq
      /\ index \in 1..Len(Roots) + 1 /\ Len(Roots) \in Nat
      /\ \A i \in 1..index - 1 : ~Issues(Roots[i], leaf)
      /\ UNCHANGED <<moment, accept, call>>
  BY CertificatesAssumption DEF X509Inv, X509TypeOK, Progress, IssuerOf
<1>2. CASE index > Len(Roots)
  <2>1. step' = "done" /\ answer' = "signature" /\ UNCHANGED <<certs, index>>
    BY <1>2 DEF IssuerOf, Settle
  <2>2. NoneIssues'
    BY <1>1, <1>2, <2>1 DEF NoneIssues, Issues, Allows
  <2>. QED
    BY <1>1, <2>1, <2>2 DEF X509Inv, X509TypeOK, Progress, Answered
<1>3. CASE index <= Len(Roots) /\ Issues(Roots[index], leaf)
  <2>1. certs' = Append(certs, Roots[index]) /\ step' = "leaf" /\ index' = 1 /\ answer' = answer
    BY <1>1, <1>3 DEF IssuerOf, Issues, VerifySignature
  <2>2. Roots[index] \in Certificate
    BY <1>1, <1>3 DEF Certificate
  <2>3. certs' \in CertSeq /\ Len(certs') = 2 /\ certs'[1] = leaf /\ certs'[2] = Roots[index]
    <3>1. GoesOn(certs', certs, Roots[index])
      BY <1>1, <2>1, <2>2, OneMore, Zenon
    <3>. QED  BY <1>1, <3>1 DEF GoesOn
  <2>4. IsRooted'
    BY <1>1, <1>3, <2>3 DEF IsRooted, RootedBy, Issues, Allows
  <2>. QED
    BY <1>1, <2>1, <2>3, <2>4 DEF X509Inv, X509TypeOK, Progress, Answered
<1>4. CASE index <= Len(Roots) /\ ~Issues(Roots[index], leaf)
  <2>1. index' = index + 1 /\ UNCHANGED <<certs, step, answer>>
    BY <1>1, <1>4 DEF IssuerOf, Issues, VerifySignature
  <2>2. \A i \in 1..index' - 1 : ~Issues(Roots[i], leaf)'
    BY <1>1, <1>4, <2>1 DEF Issues, Allows
  <2>. QED
    BY <1>1, <1>4, <2>1, <2>2 DEF X509Inv, X509TypeOK, Progress, Answered
<1>. QED  BY <1>1, <1>2, <1>3, <1>4

\* What the checks of a chain do not change
LEMMA SameChain ==
  ASSUME UNCHANGED <<certs, moment, accept, call>>
  PROVE  /\ \A i : Linked(i)' <=> Linked(i)
         /\ AllLinked' <=> AllLinked
         /\ AllValid' <=> AllValid
         /\ IsRooted' <=> IsRooted
         /\ \A cert : IsValidOn(cert, On)' <=> IsValidOn(cert, On)
BY DEF Linked, VerifySignature, AllLinked, AllValid, IsRooted, RootedBy, Issues, Allows,
       IsValidOn, On

LEMMA CheckLeafKeeps ==
  ASSUME X509Inv, CheckLeaf
  PROVE  X509Inv'
<1>1. UNCHANGED <<certs, moment, accept, call, index>>
  BY DEF CheckLeaf
<1>2. step = "leaf" /\ index = 1 /\ Len(certs) \in Nat /\ Len(certs) > 0
  BY Chained DEF CheckLeaf, X509Inv, Progress
<1>3. CASE IsValidOn(certs[1], On)
  <2>1. step' = "links" /\ answer' = answer
    BY <1>3 DEF CheckLeaf
  <2>. QED
    BY <1>1, <1>2, <1>3, <2>1, SameChain DEF X509Inv, X509TypeOK, Progress, Answered
<1>4. CASE ~IsValidOn(certs[1], On)
  <2>1. step' = "done" /\ answer' = "malformed"
    BY <1>4 DEF CheckLeaf, Settle
  <2>2. ~AllValid
    BY <1>2, <1>4 DEF AllValid
  <2>. QED
    BY <1>1, <1>2, <2>1, <2>2, SameChain DEF X509Inv, X509TypeOK, Progress, Answered
<1>. QED  BY <1>3, <1>4

LEMMA CheckLinkKeeps ==
  ASSUME X509Inv, CheckLink
  PROVE  X509Inv'
<1>. DEFINE subject == certs[index]
           issuer  == certs[index + 1]
<1>1. UNCHANGED <<certs, moment, accept, call>>
  BY DEF CheckLink
<1>2. /\ step = "links" /\ index \in 1..Len(certs) /\ index < Len(certs) /\ Len(certs) \in Nat
      /\ index \in Nat
      /\ IsValidOn(certs[1], On) /\ \A i \in 1..index - 1 : Linked(i) /\ IsValidOn(certs[i + 1], On)
      /\ call = "root" => IsRooted
      /\ call \in {"root", "chain"}
  BY Chained DEF CheckLink, X509Inv, X509TypeOK, Progress
<1>3. ASSUME call = "root" PROVE index = 1 /\ Linked(index)
  <2>1. PICK i \in 1..Len(Roots) : RootedBy(i)
    BY <1>2, <1>3, Zenon DEF IsRooted
  <2>2. Len(certs) = 2 /\ certs[2] = Roots[i] /\ Issues(Roots[i], certs[1])
    BY <2>1, Zenon DEF RootedBy
  <2>3. index = 1 /\ index + 1 = 2
    BY <1>2, <2>2
  <2>. QED  BY <2>2, <2>3 DEF Issues, Linked, VerifySignature
<1>4. CASE subject.issuer # issuer.subject \/ ~IsValidOn(issuer, On)
  <2>1. step' = "done" /\ answer' = "malformed" /\ index' = index
    BY <1>4 DEF CheckLink, Settle
  <2>2. ~Linked(index) \/ ~AllValid
    BY <1>2, <1>4 DEF AllValid, Linked
  <2>3. ~AllLinked \/ ~AllValid
    BY <1>2, <2>2 DEF AllLinked
  <2>. QED
    BY <1>1, <1>2, <1>3, <2>1, <2>2, <2>3, SameChain
    DEF X509Inv, X509TypeOK, Progress, Answered
<1>5. CASE ~(subject.issuer # issuer.subject \/ ~IsValidOn(issuer, On)) /\ ~Linked(index)
  <2>1. step' = "done" /\ answer' = "signature" /\ index' = index
    BY <1>5 DEF CheckLink, Settle, Linked
  <2>2. ~AllLinked
    BY <1>2, <1>5 DEF AllLinked
  <2>. QED
    BY <1>1, <1>2, <1>3, <1>5, <2>1, <2>2, SameChain
    DEF X509Inv, X509TypeOK, Progress, Answered
<1>6. CASE IsValidOn(issuer, On) /\ Linked(index)
  <2>1. index' = index + 1 /\ step' = step /\ answer' = answer
    BY <1>6 DEF CheckLink, Linked
  <2>2. \A i \in 1..index' - 1 : Linked(i) /\ IsValidOn(certs[i + 1], On)
    BY <1>2, <1>6, <2>1
  <2>. QED
    BY <1>1, <1>2, <2>1, <2>2, SameChain DEF X509Inv, X509TypeOK, Progress, Answered
<1>. QED  BY <1>4, <1>5, <1>6 DEF Linked

LEMMA ChainVerifiedKeeps ==
  ASSUME X509Inv, ChainVerified
  PROVE  X509Inv'
<1>1. /\ UNCHANGED <<certs, moment, accept, call, index>>
      /\ step' = "done" /\ answer' = "ok"
  BY DEF ChainVerified, Settle
<1>2. /\ step = "links" /\ index = Len(certs) /\ Len(certs) \in Nat /\ Len(certs) > 0
      /\ IsValidOn(certs[1], On) /\ \A i \in 1..index - 1 : Linked(i) /\ IsValidOn(certs[i + 1], On)
      /\ call = "root" => IsRooted
      /\ call \in {"root", "chain"}
  BY Chained DEF ChainVerified, X509Inv, X509TypeOK, Progress
<1>3. AllLinked
  BY <1>2 DEF AllLinked
<1>4. ASSUME NEW i \in 1..Len(certs) PROVE IsValidOn(certs[i], On)
  <2>1. CASE i = 1
    BY <1>2, <2>1
  <2>2. CASE i # 1
    <3>1. i - 1 \in 1..index - 1 /\ (i - 1) + 1 = i
      BY <1>2, <2>2
    <3>2. IsValidOn(certs[(i - 1) + 1], On)
      BY <1>2, <3>1
    <3>. QED  BY <3>1, <3>2
  <2>. QED  BY <2>1, <2>2
<1>5. AllValid
  BY <1>4 DEF AllValid
<1>. QED
  BY <1>1, <1>2, <1>3, <1>5, SameChain DEF X509Inv, X509TypeOK, Progress, Answered

LEMMA X509StepInv == X509Inv /\ [X509Next]_xvars => X509Inv'
<1>1. ASSUME X509Inv, NEW n \in 0..2, NEW tops \in [1..n -> Leaf],
             NEW root \in {<<>>} \cup {<<Roots[i]>> : i \in 1..Len(Roots)},
             step = "idle", VerifyCertificates(tops \o root)
      PROVE  X509Inv'
  <2>1. tops \o root \in CertSeq /\ Len(tops \o root) \in 0..3
    BY ChosenChain
  <2>. DEFINE chosen == tops \o root
  <2>2. VerifyCertificates(chosen) /\ chosen \in CertSeq /\ Len(chosen) \in 0..3
    BY <1>1, <2>1
  <2>. HIDE DEF chosen
  <2>. QED  BY <1>1, <2>2, CertificatesKeep
<1>2. ASSUME X509Inv, UNCHANGED xvars PROVE X509Inv'
  BY <1>2, SameChain
  DEF xvars, X509Inv, X509TypeOK, Progress, Answered, NoneIssues, Issues, Allows
<1>. QED
  BY <1>1, <1>2, ToRootKeeps, IssuerOfKeeps, CheckLeafKeeps, CheckLinkKeeps, ChainVerifiedKeeps
  DEF X509Next

LEMMA X509Always == X509Spec => []X509Inv
BY X509InitInv, X509StepInv, PTL DEF X509Spec

\* The lookup stays within the table of roots and the loop within the chain.
THEOREM X509Types == X509Spec => []X509TypeOK
<1>1. X509Inv => X509TypeOK
  BY DEF X509Inv
<1>. QED  BY <1>1, X509Always, PTL

\* verify_to_root goes by the root that issued the certificate and by the days of both,
\* as RootedIffIssued says, whatever roots and certificates there are.
THEOREM Rooted == X509Spec => []RootedIffIssued
<1>1. ASSUME X509Inv, call = "root" PROVE RootedIffIssued
  <2>. DEFINE issuing == {i \in 1..Len(Roots) : Issues(Roots[i], certs[1])}
  <2>1. /\ moment \in Int /\ Len(certs) \in Nat
        /\ \A i \in 1..Len(certs) : certs[i] \in Certificate
    BY <1>1, Chained
  <2>2. ASSUME NEW i \in 1..Len(Roots), RootedBy(i)
        PROVE  /\ i \in issuing /\ certs[1] \in Certificate /\ Roots[i] \in Certificate
               /\ AllValid <=> IsValidOn(certs[1], On) /\ IsValidOn(Roots[i], On)
    BY <2>1, <2>2 DEF RootedBy, AllValid
  <2>3. ASSUME answer = "ok"
        PROVE  \E i \in issuing : InForceToday(Roots[i]) /\ InForceToday(certs[1])
    <3>1. AllValid /\ IsRooted
      BY <1>1, <2>3 DEF X509Inv, Answered
    <3>2. PICK i \in 1..Len(Roots) : RootedBy(i)
      BY <3>1 DEF IsRooted
    <3>. QED  BY <2>1, <2>2, <3>1, <3>2, ValidIsInForceToday
  <2>4. ASSUME answer = "malformed"
        PROVE  \E i \in issuing : ~(InForce(Roots[i]) /\ InForce(certs[1]))
    <3>1. ~AllValid /\ IsRooted
      BY <1>1, <2>4 DEF X509Inv, Answered
    <3>2. PICK i \in 1..Len(Roots) : RootedBy(i)
      BY <3>1 DEF IsRooted
    <3>. QED  BY <2>1, <2>2, <3>1, <3>2, InForceIsValid
  <2>5. ASSUME answer = "signature" PROVE issuing = {}
    BY <1>1, <2>5 DEF X509Inv, Answered, NoneIssues
  <2>. QED  BY <2>3, <2>4, <2>5 DEF RootedIffIssued
<1>2. X509Inv => RootedIffIssued
  BY <1>1 DEF RootedIffIssued
<1>. QED  BY <1>2, X509Always, PTL

\* verify_chain accepts exactly the chains whose links hold and whose certificates are
\* valid, up to the day, as ChainsAcceptedWhileInForce says: chains of any certificates.
THEOREM ChainsInForce == X509Spec => []ChainsAcceptedWhileInForce
<1>1. ASSUME X509Inv, call = "chain" PROVE ChainsAcceptedWhileInForce
  <2>1. /\ moment \in Int /\ Len(certs) \in Nat
        /\ \A i \in 1..Len(certs) : certs[i] \in Certificate
    BY <1>1, Chained
  <2>2. certs = <<>> <=> Len(certs) = 0
    BY <1>1 DEF X509Inv, CertSeq
  <2>3. ASSUME answer = "ok"
        PROVE  Len(certs) > 0 /\ AllLinked /\ \A i \in 1..Len(certs) : InForceToday(certs[i])
    BY <1>1, <2>1, <2>3, ValidIsInForceToday DEF X509Inv, Answered, AllValid
  <2>4. ASSUME answer \in {"malformed", "signature"}
        PROVE  Len(certs) = 0 \/ ~AllLinked \/ ~(\A i \in 1..Len(certs) : InForce(certs[i]))
    BY <1>1, <2>1, <2>4, InForceIsValid DEF X509Inv, Answered, AllValid
  <2>. QED
    BY <2>1, <2>2, <2>3, <2>4 DEF ChainsAcceptedWhileInForce, AllLinked, Linked
<1>2. X509Inv => ChainsAcceptedWhileInForce
  BY <1>1 DEF ChainsAcceptedWhileInForce
<1>. QED  BY <1>2, X509Always, PTL
-----------------------------------------------------------------------------
(* CardData *)

\* Each part goes its own way in the whole.
THEOREM DataIsItsParts == Spec => TlvSpec /\ RecordsSpec /\ CalendarSpec /\ X509Spec
<1>1. Init => TlvInit /\ RecordsInit /\ CalendarInit /\ X509Init
  BY DEF Init
<1>2. ASSUME [Next]_vars
      PROVE  [TlvNext]_tvars /\ [RecordsNext]_rvars /\ [CalendarNext]_calvars /\ [X509Next]_xvars
  <2>1. CASE part = "tlv" /\ TlvNext /\ UNCHANGED <<rvars, calvars, xvars>>
    BY <2>1
  <2>2. CASE part = "records" /\ RecordsNext /\ UNCHANGED <<tvars, calvars, xvars>>
    BY <2>2
  <2>3. CASE part = "calendar" /\ CalendarNext /\ UNCHANGED <<tvars, rvars, xvars>>
    BY <2>3
  <2>4. CASE part = "x509" /\ X509Next /\ UNCHANGED <<tvars, rvars, calvars>>
    BY <2>4
  <2>5. CASE UNCHANGED vars
    BY <2>5 DEF vars
  <2>. QED  BY <1>2, <2>1, <2>2, <2>3, <2>4, <2>5 DEF Next
<1>. QED
  BY <1>1, <1>2, PTL DEF Spec, TlvSpec, RecordsSpec, CalendarSpec, X509Spec

\* All four parts keep their types, whatever is made of the data.
THEOREM DataTypes == Spec => []TypeOK
<1>1. TypeOK <=> TlvTypeOK /\ RecordsTypeOK /\ CalendarTypeOK /\ X509TypeOK
  BY DEF TypeOK
<1>. QED
  BY <1>1, DataIsItsParts, TlvTypes, RecordsTypes, CalendarTypes, X509Types, PTL

\* What each part promises on its own it promises in the whole.
THEOREM DataHolds ==
  Spec => /\ [](/\ ItemsAreObjects /\ VerifiedIsIssued /\ MatchedIsIssued /\ IssuedIsAccepted
                /\ DatesAreTrue /\ CodeTellsBirthDate
                /\ RootedIffIssued /\ ChainsAcceptedWhileInForce)
          /\ ErasTurn
BY DataIsItsParts, ItemsRight, Verified, Matched, Accepted, DatesTrue, CodesTell, ErasInTurn,
   Rooted, ChainsInForce, PTL
=============================================================================
