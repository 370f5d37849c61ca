--------------------------- MODULE IdempotentStore ---------------------------
(***************************************************************************)
(* What a client of an Engine may rely on, without Engine, views, faults   *)
(* or crashes: a store whose every change is one atomic commit, in which a *)
(* key that holds a receipt cannot execute, and in which a successful      *)
(* response always tells the truth about some commit.                      *)
(***************************************************************************)
EXTENDS Integers

CONSTANTS Keys, Digests, NoKey, NoReceipt

VARIABLES
    store,  \* sequence, executions of every key, receipts
    done,   \* every idempotent execution ever committed
    acks    \* the executions reported to clients

vars == <<store, done, acks>>

Init ==
    /\ store = [sequence |-> 0,
                rows |-> [k \in Keys \cup {NoKey} |-> 0],
                receipts |-> [k \in Keys |-> NoReceipt]]
    /\ done = {}
    /\ acks = {}

Execute(k, d) ==
    LET next == store.sequence + 1 IN
    /\ store.receipts[k] = NoReceipt
    /\ store' = [sequence |-> next,
                 rows |-> [store.rows EXCEPT ![k] = @ + 1],
                 receipts |-> [store.receipts EXCEPT ![k] = [digest |-> d, committed_sequence |-> next]]]
    /\ done' = done \cup {[key |-> k, digest |-> d, committed_sequence |-> next]}
    /\ UNCHANGED acks

ExecutePlain ==
    /\ store' = [store EXCEPT !.sequence = @ + 1, !.rows[NoKey] = @ + 1]
    /\ UNCHANGED <<done, acks>>

\* Only keys that hold a receipt are pruned, and nothing else changes.
Prune(selected) ==
    /\ \A k \in selected : store.receipts[k] # NoReceipt
    /\ store' = [store EXCEPT !.sequence = @ + 1,
                              !.receipts = [k \in Keys |-> IF k \in selected THEN NoReceipt ELSE @[k]]]
    /\ UNCHANGED <<done, acks>>

Acknowledge(execution) ==
    /\ acks' = acks \cup {execution}
    /\ UNCHANGED <<store, done>>

Next ==
    \/ \E k \in Keys, d \in Digests : Execute(k, d)
    \/ ExecutePlain
    \/ \E selected \in SUBSET Keys \ {{}} : Prune(selected)
    \/ \E execution \in done : Acknowledge(execution)

Spec == Init /\ [][Next]_vars
==============================================================================
