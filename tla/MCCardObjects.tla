--------------------------- MODULE MCCardObjects ---------------------------
(***************************************************************************)
(* Cards for TLC: chains, ATRs and record files, one kind on each card.    *)
(***************************************************************************)
EXTENDS CardChain

MCKeyId == {"root", "low"}
MCKey == {"kr", "kl"}
MCTruth == [id \in MCKeyId |-> IF id = "root" THEN "kr" ELSE "kl"]
MCKnown == {"root"}
-----------------------------------------------------------------------------
(* Cards *)

\* A certificate as the card holds it
Contents(c) ==
  <<[tag |-> "5F4E", fits |-> TRUE, issuer |-> c.issuer, subject |-> c.subject, key |-> c.key],
    [tag |-> "5F37", signer |-> c.signer]>>

Unsigned(c) == SubSeq(Contents(c), 1, 1)
Misshapen(c) == [Contents(c) EXCEPT ![1].fits = FALSE]
\* An older body in front, which the last one supersedes
Doubled(c, old) == SubSeq(Contents(old), 1, 1) \o Contents(c)

Upper == [issuer |-> "root", subject |-> "low", key |-> "kl", signer |-> "kr"]
Lower == [issuer |-> "low", subject |-> "low", key |-> "kl", signer |-> "kl"]

Absent == [size |-> "absent", content |-> <<>>]

ChainObjects ==
  {Absent} \cup
  [size : {"small"}, content : {Contents(c) : c \in Certificate} \cup
     {Unsigned(Upper), Misshapen(Upper), Doubled(Upper, Lower), Doubled(Lower, Upper)}] \cup
  [size : {"large", "huge"}, content : {Contents(Upper), Contents(Lower), Unsigned(Lower)}]

NoObjects == [t \in {"F8", "7F21", "5F51"} |-> Absent]
NoFiles == [f \in {} |-> <<>>]
Plain == [ops |-> {}, objects |-> [d \in Df |-> NoObjects],
          files |-> [d \in Df |-> NoFiles], atr |-> <<>>, multi |-> TRUE]

\* The application holds a certificate of its own under the same tag, or nothing
ChainCards ==
  {[Plain EXCEPT !.ops = {"chain"},
      !.objects["isd"] = [NoObjects EXCEPT !["F8"] = u, !["7F21"] = l],
      !.objects["app"] = [NoObjects EXCEPT !["F8"] = a]] :
     u \in ChainObjects, l \in ChainObjects,
     a \in {Absent, [size |-> "small", content |-> Contents(Lower)]}}

SmallByte == SUBSET {1, 2}
\* Over a whole ATR every bit is set in an even number of bytes
Issued ==
  {a \in UNION {[1..n -> SmallByte] : n \in 1..3} :
     \A bit \in {1, 2} : Cardinality({i \in DOMAIN a : bit \in a[i]}) % 2 = 0}

\* The ATR as issued, with one byte damaged, or lost altogether
AtrCards ==
  UNION {{[Plain EXCEPT !.ops = {"atr"}, !.atr = a,
             !.objects[d]["5F51"] = [size |-> z, content |-> stored]] :
            d \in Df, z \in {"small", "large"},
            stored \in {a, <<>>} \cup {[a EXCEPT ![i] = b] : i \in 1..Len(a), b \in SmallByte}} :
         a \in Issued}

R(tag, value) == <<[tag |-> tag, value |-> value]>>

RecordOf ==
  [identifier   |-> {R("00", <<1, 2, 1>>), R("00", <<3, 1, 2>>), R("00", <<1>>),
                     R("01", <<5>>), R("01", <<>>), R("02", <<6, 7>>), R("cut", <<>>), <<>>},
   folders      |-> {R("01", <<1>>), R("01", <<2>>), R("02", <<3>>), R("02", <<4>>),
                     R("FE", <<3>>), R("00", <<>>), R("07", <<>>), R("FF", <<>>), <<>>},
   manufacturer |-> {R("45", <<1, 1, 1, 1, 1>>), R("45", <<1>>), R("46", <<1, 2, 3>>),
                     R("46", <<>>), R("FF", <<>>), R("cut", <<>>), <<>>}]

FileCards ==
  UNION {{[Plain EXCEPT !.ops = {o}, !.multi = m, !.files["isd"] = o :> f] :
            m \in BOOLEAN, f \in UNION {[1..n -> RecordOf[o]] : n \in 0..MaxRecord}} :
         o \in DOMAIN RecordOf}

\* Every DF has a folder list of its own
ListCards ==
  {[Plain EXCEPT !.ops = {"folders"}, !.files["app"] = "folders" :> <<R("01", <<5>>)>>,
      !.files["isd"] = f] : f \in {NoFiles, "folders" :> <<R("02", <<5>>)>>}}

MCCard == {Plain} \cup ChainCards \cup AtrCards \cup FileCards \cup ListCards
=============================================================================
