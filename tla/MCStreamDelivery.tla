-------------------------- MODULE MCStreamDelivery --------------------------
(* Model of StreamDelivery for TLC: the constants are given in the .cfg files. *)
EXTENDS StreamDelivery
=============================================================================
