----------------------------- MODULE MCRecords -----------------------------
(***************************************************************************)
(* Constants for CardData in TLC: one instance of each of its parts.       *)
(***************************************************************************)
EXTENDS CardData
-----------------------------------------------------------------------------
(* Tlv: tags of one and four bytes, values that look like filler *)

T(c, tag, n, form) == [codec |-> c, tag |-> tag, value |-> [i \in 1..n |-> 0], form |-> form]

MCObject ==
  {T("ber", t, n, f) : t \in {<<48>>, <<31, 129, 130, 3>>}, n \in {0, 2}, f \in 0..2}
  \cup {T("simple", <<t>>, n, f) : t \in {0, 69}, n \in {0, 2}, f \in {0, 2}}

\* Filler; a length without an end; one that wraps; one beyond usize; a tag of five
\* bytes; the simple tag 00 and a long simple length
MCTails ==
  {<<>>, <<0>>, <<255, 255>>, <<48, 128, 1>>, <<48, 130, 255, 255>>, <<48, 131, 0, 0, 1, 7>>,
   <<31, 129, 130, 131, 1, 0>>, <<0, 9, 1>>, <<5, 255, 1, 0>>}
-----------------------------------------------------------------------------
MCKinds == {"age", "face", "image", "integrity", "publicKey", "attributes"}
-----------------------------------------------------------------------------
(* Calendar: from before Meiji on, and around the hundredth year of Reiwa *)

Span(first, year, last) ==
  [first |-> first, date |-> [year |-> year, month |-> 1, day |-> 1], last |-> last]

\* Each goes on to the first day of the next; the last ends on 2120-01-01
MCSpans ==
  {Span(-37255, 1868, -21915),
   Span(-21915, 1910, -7305),
   Span(-7305, 1950, 7305),
   Span(7305, 1990, 21915),
   Span(53325, 2116, 54786)}
-----------------------------------------------------------------------------
(* X509Chain: two generations of a production root under one name, of which the
   first has expired before the second day, and a test root under another *)

Cert(subject, issuer, key, signer, from, to) ==
  [subject |-> subject, issuer |-> issuer, key |-> key, signer |-> signer,
   from |-> from, to |-> to, sha256WithRSA |-> TRUE]

Root(name, key, hierarchy, from, to) ==
  Cert(name, name, key, key, from, to) @@ [hierarchy |-> hierarchy]

MCRoots ==
  <<Root("JPKI", "k1", "production", 0, 5),
    Root("JPKI", "k2", "production", 2, 11),
    Root("JPKI-TEST", "k3", "test", 0, 11)>>

\* The card's own CA certificate may stand in for a root; a period may be empty
MCLeaf ==
  {Cert("holder", i, "k0", s, f, t) :
     i \in {"JPKI", "JPKI-TEST"}, s \in {"k1", "k2", "k3"}, f \in {1, 4}, t \in {4, 8}}
  \cup {[Cert("holder", "JPKI", "k0", "k2", 1, 8) EXCEPT !.sha256WithRSA = FALSE],
        Cert("JPKI", "JPKI", "k4", "k4", 1, 8), Cert("JPKI", "JPKI", "k2", "k2", 1, 8),
        Cert("holder", "JPKI", "k0", "k4", 1, 8), Cert("JPKI", "JPKI-TEST", "k2", "k3", 1, 8),
        Cert("holder", "JPKI", "k0", "k2", 5, 3)}
=============================================================================
