---------------------------- MODULE MCSharedCard ----------------------------
(* Instances of SharedCard for TLC.  text has a PIN 0011 that can be changed   *)
(* and guards file 0001; common has a file 0001 that anyone reads and a key    *)
(* 0019, which is named without a SELECT and is then the current EF.           *)
EXTENDS SharedCard, TLC

CONSTANTS p1, p2

MCProc == {p1, p2}
MCCareful == {p1}

\* Values are only ever compared with each other
MCSymmetry == Permutations(Value)
=============================================================================
