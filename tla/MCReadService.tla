--------------------------- MODULE MCReadService ---------------------------
(* Instances of ReadService for TLC; the configurations name the threads. *)
EXTENDS ReadService
=============================================================================
