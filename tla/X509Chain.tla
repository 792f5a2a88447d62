----------------------------- MODULE X509Chain -----------------------------
(***************************************************************************)
(* The X.509 certificates of the JPKI application (src/certificate.rs):    *)
(* Certificate::verify_chain, leaf first, and verify_to_root, which looks  *)
(* its root up in roots::KNOWN.  Several roots share one name; only the    *)
(* signature tells them apart.  Validity runs to the second in the         *)
(* certificate and is compared by date (module Calendar).                  *)
(***************************************************************************)
EXTENDS Calendar

CONSTANTS
  Roots,     \* roots::KNOWN: a sequence of self-signed certificates, each with its
             \* hierarchy, "production" or "test"
  Leaf,      \* certificates that may be verified
  Moment     \* bound: the seconds at which they are

Certificate == Leaf \cup {Roots[i] : i \in 1..Len(Roots)}

\* Times are seconds, before 1970 as well as after
ASSUME CertificatesAssumption ==
  /\ Roots \in Seq(Certificate)
  /\ \A cert \in Certificate : cert.from \in Int /\ cert.to \in Int
  /\ Moment \subseteq Int

\* No two roots share a key
ASSUME RootsAssumption ==
  \A i, j \in 1..Len(Roots) : Roots[i].key = Roots[j].key => i = j

VARIABLES
  certs,     \* the chain, leaf first; the leaf alone until its root is found
  moment,    \* when it is verified; the caller gives its date
  accept,    \* verify_to_root: "ProductionOnly" or "ProductionAndTest"
  call,      \* "none", "root" (verify_to_root), "chain" (verify_chain)
  step,      \* "idle", "lookup", "leaf", "links", "done"
  index,     \* the root looked at; the subject of the link checked
  answer     \* "none", "ok", "malformed", "signature"

xvars == <<certs, moment, accept, call, step, index, answer>>

\* Types; the lookup stays within the table and the loop within the chain
X509TypeOK ==
  /\ Len(certs) \in 0..3
  /\ moment \in Moment
  /\ accept \in {"ProductionOnly", "ProductionAndTest"}
  /\ step \in {"idle", "lookup", "leaf", "links", "done"}
  /\ index \in Nat \ {0}
  /\ step = "lookup" => index \in 1..Len(Roots) + 1
  /\ step = "links" => index \in 1..Len(certs)
  /\ (answer = "none") = (step # "done")

X509Init ==
  /\ certs = <<>>
  /\ moment \in Moment
  /\ accept = "ProductionOnly"
  /\ call = "none"
  /\ step = "idle"
  /\ index = 1
  /\ answer = "none"

Settle(a) == step' = "done" /\ answer' = a

\* Accept::allows
Allows(root) == accept = "ProductionAndTest" \/ root.hierarchy = "production"

\* verify_signature: sha256WithRSAEncryption and nothing else
VerifySignature(cert, issuer) == cert.sha256WithRSA /\ cert.signer = issuer.key

\* The date the caller passes
On == FromUnixSeconds(moment)

\* is_valid_on: inclusive, by dates in UTC
IsValidOn(cert, d) ==
  /\ ~Before(d, FromUnixSeconds(cert.from))
  /\ ~Before(FromUnixSeconds(cert.to), d)

\* verify_to_root is called
VerifyToRoot(leaf) ==
  /\ step = "idle"
  /\ accept' \in {"ProductionOnly", "ProductionAndTest"}
  /\ certs' = <<leaf>>
  /\ call' = "root"
  /\ step' = "lookup"
  /\ UNCHANGED <<moment, index, answer>>

\* verify_chain is called; an empty chain verifies nothing
VerifyCertificates(chosen) ==
  /\ step = "idle"
  /\ certs' = chosen
  /\ call' = "chain"
  /\ IF chosen = <<>> THEN Settle("malformed") ELSE step' = "leaf" /\ UNCHANGED answer
  /\ UNCHANGED <<moment, accept, index>>

\* Mutant: a root is told by its name
IssuerOfByName ==
  /\ step = "lookup"
  /\ IF index > Len(Roots)
       THEN Settle("signature") /\ UNCHANGED <<certs, index>>
       ELSE IF Allows(Roots[index]) /\ Roots[index].subject = certs[1].issuer
         THEN /\ certs' = Append(certs, Roots[index])
              /\ step' = "leaf" /\ index' = 1 /\ UNCHANGED answer
         ELSE index' = index + 1 /\ UNCHANGED <<certs, step, answer>>
  /\ UNCHANGED <<moment, accept, call>>

\* roots::issuer_of: the first root allowed that has the name and made the signature
IssuerOf ==
  /\ step = "lookup"
  /\ IF index > Len(Roots)
       THEN Settle("signature") /\ UNCHANGED <<certs, index>>
       ELSE IF Allows(Roots[index]) /\ Roots[index].subject = certs[1].issuer
               /\ VerifySignature(certs[1], Roots[index])
         THEN /\ certs' = Append(certs, Roots[index])
              /\ step' = "leaf" /\ index' = 1 /\ UNCHANGED answer
         ELSE index' = index + 1 /\ UNCHANGED <<certs, step, answer>>
  /\ UNCHANGED <<moment, accept, call>>

\* The leaf must be valid on the day
CheckLeaf ==
  /\ step = "leaf"
  /\ IF IsValidOn(certs[1], On) THEN step' = "links" /\ UNCHANGED answer
                                ELSE Settle("malformed")
  /\ UNCHANGED <<certs, moment, accept, call, index>>

\* Mutant: `subject = issuer' is forgotten, so that each certificate has to have
\* signed the leaf
CheckLinkOfLeaf ==
  /\ step = "links" /\ index < Len(certs)
  /\ LET subject == certs[1]
         issuer  == certs[index + 1]
     IN  IF subject.issuer # issuer.subject \/ ~IsValidOn(issuer, On)
           THEN Settle("malformed") /\ UNCHANGED index
           ELSE IF ~VerifySignature(subject, issuer)
             THEN Settle("signature") /\ UNCHANGED index
             ELSE index' = index + 1 /\ UNCHANGED <<step, answer>>
  /\ UNCHANGED <<certs, moment, accept, call>>

\* Each link: the name, the issuer's validity, the signature
CheckLink ==
  /\ step = "links" /\ index < Len(certs)
  /\ LET subject == certs[index]
         issuer  == certs[index + 1]
     IN  IF subject.issuer # issuer.subject \/ ~IsValidOn(issuer, On)
           THEN Settle("malformed") /\ UNCHANGED index
           ELSE IF ~VerifySignature(subject, issuer)
             THEN Settle("signature") /\ UNCHANGED index
             ELSE index' = index + 1 /\ UNCHANGED <<step, answer>>
  /\ UNCHANGED <<certs, moment, accept, call>>

ChainVerified ==
  /\ step = "links" /\ index = Len(certs)
  /\ Settle("ok")
  /\ UNCHANGED <<certs, moment, accept, call, index>>

X509Next ==
  \/ \E leaf \in Leaf : VerifyToRoot(leaf)
  \/ /\ step = "idle"
     /\ \E n \in 0..2 : \E tops \in [1..n -> Leaf] :
          \E root \in {<<>>} \cup {<<Roots[i]>> : i \in 1..Len(Roots)} :
            VerifyCertificates(tops \o root)
  \/ IssuerOf \/ CheckLeaf \/ CheckLink \/ ChainVerified

X509Spec == X509Init /\ [][X509Next]_xvars
-----------------------------------------------------------------------------
(* Correctness *)

\* Valid at the very second
InForce(cert) == cert.from <= moment /\ moment <= cert.to

\* ... or, of the same day: begun by its last second and not over at its first.  A
\* certificate whose period is not empty is then valid at some second of the day.
InForceToday(cert) ==
  /\ cert.from <= (DayOf(moment) + 1) * DaySeconds - 1
  /\ DayOf(moment) * DaySeconds <= cert.to

Issues(root, cert) ==
  /\ Allows(root)
  /\ root.subject = cert.issuer
  /\ cert.sha256WithRSA
  /\ cert.signer = root.key

\* verify_to_root accepts a certificate at every second at which it and the root that
\* issued it are valid, although other roots have the name of that root, and at none
\* of a day on which one of them is not valid at all.  Where it speaks of the
\* signature, no root that may be accepted has issued the certificate.
RootedIffIssued ==
  call = "root" =>
    LET issuing == {i \in 1..Len(Roots) : Issues(Roots[i], certs[1])} IN
    /\ answer = "ok" => \E i \in issuing : InForceToday(Roots[i]) /\ InForceToday(certs[1])
    /\ answer = "malformed" => \E i \in issuing : ~(InForce(Roots[i]) /\ InForce(certs[1]))
    /\ answer = "signature" => issuing = {}

\* verify_chain accepts a chain in which each certificate has issued the one below it,
\* at every second at which all of them are valid, and no chain where a link is
\* missing or one of them is valid at no time of the day.
ChainsAcceptedWhileInForce ==
  call = "chain" =>
    LET linked == /\ certs # <<>>
                  /\ \A i \in 1..Len(certs) - 1 :
                       /\ certs[i].issuer = certs[i + 1].subject
                       /\ VerifySignature(certs[i], certs[i + 1])
    IN  /\ answer = "ok" => linked /\ \A i \in 1..Len(certs) : InForceToday(certs[i])
        /\ answer \in {"malformed", "signature"} =>
             ~(linked /\ \A i \in 1..Len(certs) : InForce(certs[i]))
=============================================================================
