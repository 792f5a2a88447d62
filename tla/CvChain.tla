------------------------------ MODULE CvChain ------------------------------
(***************************************************************************)
(* Chains of card-verifiable certificates: CardVerifiableCertificate::     *)
(* verify, verify_with and verify_chain (src/data.rs) over the table of    *)
(* authorities in src/ca.rs.  A certificate binds a key to the identifier  *)
(* of its subject, names the identifier of its issuer, and was signed with *)
(* some key; RSA with SHA-256 accepts the signature under that key alone.  *)
(***************************************************************************)
EXTENDS Integers, Sequences

CONSTANTS
  KeyId,      \* key identifiers
  Key,        \* RSA key pairs
  Truth,      \* which key each identifier really belongs to
  Known,      \* identifiers of the authorities in ca::KNOWN
  MaxLinks    \* bound: the longest chain considered

ASSUME TruthAssumption == Truth \in [KeyId -> Key]
ASSUME KnownAssumption == Known \subseteq KeyId
ASSUME LinksAssumption == MaxLinks \in Nat

\* ca::KNOWN holds the authorities' own keys
Table == [id \in Known |-> Truth[id]]

\* What a chain may be made of.  An authority signs in its own name only what is
\* true; anything else may turn up as well: a certificate signed with another's
\* key, or with a key of nobody.
Certificate ==
  {c \in [issuer : KeyId, subject : KeyId, key : Key, signer : Key] :
     c.signer = Truth[c.issuer] => c.key = Truth[c.subject]}

VARIABLES
  chain,     \* the certificates verify_chain is called with
  above,     \* which of them `issuer' refers to; 0 before the first is verified
  next,      \* which of them is verified next
  verdict    \* "idle", "checking", or what verify_chain returned

cvars == <<chain, above, next, verdict>>

Verdicts == {"idle", "checking", "valid", "malformed", "unknown", "signature"}

\* Types.  The certificate above is the one before the next.
CvTypeOK ==
  /\ chain \in Seq(Certificate)
  /\ next \in 1..Len(chain) + 1
  /\ above = next - 1
  /\ verdict \in Verdicts

CvInit ==
  /\ chain = <<>>
  /\ above = 0
  /\ next = 1
  /\ verdict = "idle"

\* verify_with: PKCS #1 v1.5 over the body
VerifyWith(cert, key) == cert.signer = key

\* verify_chain is called; an empty chain verifies nothing
VerifyChain(certs) ==
  /\ verdict = "idle"
  /\ chain' = certs
  /\ verdict' = IF certs = <<>> THEN "malformed" ELSE "checking"
  /\ UNCHANGED <<above, next>>

\* The first certificate: ca::find, then verify_with
VerifyFirst ==
  /\ verdict = "checking" /\ next = 1
  /\ \/ /\ chain[1].issuer \notin Known
        /\ verdict' = "unknown"
        /\ UNCHANGED <<above, next>>
     \/ /\ chain[1].issuer \in Known
        /\ ~VerifyWith(chain[1], Table[chain[1].issuer])
        /\ verdict' = "signature"
        /\ UNCHANGED <<above, next>>
     \/ /\ chain[1].issuer \in Known
        /\ VerifyWith(chain[1], Table[chain[1].issuer])
        /\ above' = 1 /\ next' = 2
        /\ UNCHANGED verdict
  /\ UNCHANGED chain

Linked == chain[next].issuer = chain[above].subject

\* Mutant: names are not compared
VerifyNextUnlinked ==
  /\ verdict = "checking" /\ next \in 2..Len(chain)
  /\ \/ /\ ~VerifyWith(chain[next], chain[above].key)
        /\ verdict' = "signature"
        /\ UNCHANGED <<above, next>>
     \/ /\ VerifyWith(chain[next], chain[above].key)
        /\ above' = next /\ next' = next + 1
        /\ UNCHANGED verdict
  /\ UNCHANGED chain

\* Mutant: `issuer = cert' is forgotten, so that every certificate is held
\* against the first
VerifyNextStale ==
  /\ verdict = "checking" /\ next \in 2..Len(chain)
  /\ \/ /\ chain[next].issuer # chain[1].subject
        /\ verdict' = "malformed"
        /\ UNCHANGED <<above, next>>
     \/ /\ chain[next].issuer = chain[1].subject
        /\ ~VerifyWith(chain[next], chain[1].key)
        /\ verdict' = "signature"
        /\ UNCHANGED <<above, next>>
     \/ /\ chain[next].issuer = chain[1].subject
        /\ VerifyWith(chain[next], chain[1].key)
        /\ above' = next /\ next' = next + 1
        /\ UNCHANGED verdict
  /\ UNCHANGED chain

\* Each later one: named by the one above, and signed with the key that one certifies
VerifyNext ==
  /\ verdict = "checking" /\ next \in 2..Len(chain)
  /\ \/ /\ ~Linked
        /\ verdict' = "malformed"
        /\ UNCHANGED <<above, next>>
     \/ /\ Linked
        /\ ~VerifyWith(chain[next], chain[above].key)
        /\ verdict' = "signature"
        /\ UNCHANGED <<above, next>>
     \/ /\ Linked
        /\ VerifyWith(chain[next], chain[above].key)
        /\ above' = next /\ next' = next + 1
        /\ UNCHANGED verdict
  /\ UNCHANGED chain

VerifyDone ==
  /\ verdict = "checking" /\ next = Len(chain) + 1
  /\ verdict' = "valid"
  /\ UNCHANGED <<chain, above, next>>

Verifying == VerifyFirst \/ VerifyNext \/ VerifyDone

CvNext ==
  \/ \E n \in 0..MaxLinks : \E certs \in [1..n -> Certificate] : VerifyChain(certs)
  \/ Verifying

CvSpec == CvInit /\ [][CvNext]_cvars
-----------------------------------------------------------------------------
(* Correctness *)

\* The key that certs[i] has to be signed with: its authority's for the first, the
\* one certified above for every other
Anchored(certs, i) ==
  IF i = 1
    THEN certs[1].issuer \in Known /\ VerifyWith(certs[1], Table[certs[1].issuer])
    ELSE certs[i].issuer = certs[i - 1].subject /\ VerifyWith(certs[i], certs[i - 1].key)

\* A chain that verify_chain accepts certifies nothing but the truth: every key in
\* it belongs to the identifier it is certified for, although only the first
\* certificate is held against a key that did not come with the chain.
CertifiedKeysAreTrue ==
  verdict = "valid" => \A i \in 1..Len(chain) : chain[i].key = Truth[chain[i].subject]

\* verify_chain accepts a chain that hangs together from a known authority down to
\* its last link and refuses any other.  It says that the authority is unknown only
\* where nothing could be checked, and speaks of a signature only where a key to
\* check it with was at hand.
AcceptsWhatHangsTogether ==
  /\ verdict = "valid" => chain # <<>> /\ \A i \in 1..Len(chain) : Anchored(chain, i)
  /\ verdict \in {"malformed", "unknown", "signature"} =>
       chain = <<>> \/ \E i \in 1..Len(chain) : ~Anchored(chain, i)
  /\ verdict = "unknown" => chain[1].issuer \notin Known
  /\ verdict = "signature" => chain[1].issuer \in Known
=============================================================================
