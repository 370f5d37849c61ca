--------------------------- MODULE MCCommitEngine ---------------------------
(* Small instances of CommitEngine for TLC. *)
EXTENDS CommitEngine, TLC

Symmetry == Permutations(Keys) \cup Permutations(Digests) \cup Permutations(Readers)
=============================================================================
