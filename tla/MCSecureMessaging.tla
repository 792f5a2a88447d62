------------------------- MODULE MCSecureMessaging -------------------------
(* An instance of SecureMessaging for TLC *)
EXTENDS SecureMessaging

\* One file has filler behind its object, one announces an object that goes on where
\* no offset reaches, one has no header and one less than its header announces
MCFile == {"0001", "0002", "0006", "0007"}
MCSize == [f \in MCFile |-> CASE f = "0001" -> 1 [] f = "0006" -> 3 [] f = "0002" -> 6 [] f = "0007" -> 2]
MCAtOnce == {"0001", "0007"}
MCObject == [f \in MCFile |-> CASE f = "0001" -> 3 [] f = "0006" -> 2 [] f = "0002" -> 6 [] f = "0007" -> 0]
=============================================================================
