----------------------------- MODULE MCLegacyWal -----------------------------
(* Configurations of LegacyWal for TLC. *)
EXTENDS LegacyWal

\* A new database that is checkpointed, and a prototype's log without snapshot.
MCConfigurations ==
    {[prototype |-> 0, hasSnapshot |-> TRUE, every |-> 2],
     [prototype |-> 2, hasSnapshot |-> FALSE, every |-> 0]}

\* A prototype's log that is continued with a snapshot.
PrototypeWithSnapshot == {[prototype |-> 1, hasSnapshot |-> TRUE, every |-> 1]}
=============================================================================
