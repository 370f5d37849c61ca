------------------------- MODULE MCShadowMigration -------------------------
(* Model of ShadowMigration for TLC: the lists of files and their defects. *)
EXTENDS ShadowMigration

CONSTANTS a, b, x, d1, d2

\* x is an edited copy of a (same id, other checksum).
MCFiles == {a, b, x}
MCLists == {<<a, b>>, <<x>>}
MCData == {d1, d2}
\* x cannot convert rows that hold d2, and where there are none it breaks a
\* constraint of the whole table.
MCBatchRejects == {<<x, d2>>}
MCReadyRejects == {x}
=============================================================================
