--------------------------- MODULE MCBackupChain ---------------------------
(* Model of BackupChain for TLC. *)
EXTENDS BackupChain, TLC

CONSTANTS k, a, r1, r2, c1, c2

MCKeys == {k}
MCVals == {a}
Symmetry == Permutations({c1, c2})
=============================================================================
