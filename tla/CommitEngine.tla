---------------------------- MODULE CommitEngine ----------------------------
(***************************************************************************)
(* The commit path of an Engine opened on a redb file (src/engine.rs and   *)
(* src/redb_storage.rs): a mutating script builds a private candidate, one *)
(* redb transaction makes rows, sequence and idempotency receipt durable   *)
(* together, and only then is the committed view that readers share        *)
(* replaced.  A commit may fail for certain, fail with an unknown outcome, *)
(* or succeed without a usable read view; the process may stop anywhere.   *)
(*                                                                         *)
(* Data is abstracted to what these outcomes can confuse.  A database is a *)
(* commit sequence, the number of committed executions of every            *)
(* idempotency key (NoKey: scripts without one), and the receipts.  A call *)
(* that is rejected and leaves all state alone (a conflict, an error of    *)
(* the script, a missed deadline, a failed `expect`) is a stuttering step. *)
(* Requests are serialised by the Engine's exclusive borrow, so at most    *)
(* one mutating call is in flight; read snapshots run beside it.           *)
(***************************************************************************)
EXTENDS Integers, FiniteSets, Sequences

CONSTANTS
    Keys,         \* idempotency keys
    Digests,      \* digests of canonical requests
    Readers,      \* read requests that run on a captured snapshot
    NoKey,        \* stands for a script without idempotency key
    NoReceipt,    \* stands for an absent entry of the receipt map
    MaxReceipts,  \* MAX_IDEMPOTENCY_RECEIPTS
    MaxSequence,  \* bound of the model: commits in a behaviour
    Faults        \* failures the storage may show, a subset of AllFaults

AllFaults == {"definite", "uncertain", "commit_view", "integrity_view", "compaction"}

Receipt == [digest : Digests, committed_sequence : 1 .. MaxSequence]

ASSUME ConstantsAssumption ==
    /\ NoKey \notin Keys
    /\ NoReceipt \notin Receipt
    /\ IsFiniteSet(Keys)
    /\ MaxReceipts \in Nat
    /\ MaxSequence \in Nat
    /\ Faults \subseteq AllFaults

VARIABLES
    disk,                  \* the committed state of the redb file
    up,                    \* an Engine has the file open
    view,                  \* Engine.committed
    durable,               \* Engine.durable is Some
    write_failed,
    read_reopen_required,
    call,                  \* the mutating call in flight
    snapshot,              \* reader -> the view it captured
    commits,               \* history: every state the file has committed
    pruned,                \* history: receipts of a key removed on disk
    acks                   \* history: successful idempotent responses

engineVars == <<up, view, durable, write_failed, read_reopen_required>>
historyVars == <<commits, pruned, acks>>
vars == <<disk, engineVars, call, snapshot, historyVars>>

NoCall == [stage |-> "idle"]
NoSnapshot == [reopen |-> "none"]

Database == [sequence : 0 .. MaxSequence,
             rows : [Keys \cup {NoKey} -> Nat],
             receipts : [Keys -> Receipt \cup {NoReceipt}]]
Ack == [key : Keys, digest : Digests, committed_sequence : 1 .. MaxSequence]

\* Rows of a metadata-only database: the catalog is there, the tables are empty.
NoRows == [k \in Keys \cup {NoKey} |-> 0]
WithRows(database, rows) ==
    [sequence |-> database.sequence, rows |-> rows, receipts |-> database.receipts]
EmptyDatabase == [sequence |-> 0, rows |-> NoRows, receipts |-> [k \in Keys |-> NoReceipt]]

Held(receipts) == {k \in Keys : receipts[k] # NoReceipt}
Idle == up /\ call = NoCall

Init ==
    /\ disk = EmptyDatabase
    /\ up = TRUE
    /\ view = EmptyDatabase
    /\ durable = TRUE
    /\ write_failed = FALSE
    /\ read_reopen_required = FALSE
    /\ call = NoCall
    /\ snapshot = [r \in Readers |-> NoSnapshot]
    /\ commits = <<>>
    /\ pruned = [k \in Keys |-> 0]
    /\ acks = {}

-----------------------------------------------------------------------------
(* Requests *)

\* Mutation: the guard on write_failed is missing.
MutationAllowedAfterFailure == Idle /\ ~read_reopen_required

\* What the guards of try_execute_statements and of receipt pruning demand.
MutationAllowed == Idle /\ ~read_reopen_required /\ ~write_failed

\* The candidate is the committed view, read through its row source, plus what
\* the request changes.  A `full` candidate (schema change, pruning) is written
\* as a whole, the others through their logical write set.
Stage(rows, receipts, full, key) ==
    /\ MutationAllowed
    /\ view.sequence < MaxSequence
    /\ call' = [stage |-> "staged", full |-> full, key |-> key,
                candidate |-> [sequence |-> view.sequence + 1, rows |-> rows, receipts |-> receipts]]
    /\ UNCHANGED <<disk, engineVars, snapshot, historyVars>>

Executed(key) == [view.rows EXCEPT ![key] = @ + 1]

ExecutePlain(full) == Stage(Executed(NoKey), view.receipts, full, NoKey)

\* Mutation: the receipt is stamped with the sequence of the base.
ExecuteIdempotentBaseSequence(k, d, full) ==
    /\ view.receipts[k] = NoReceipt
    /\ Cardinality(Held(view.receipts)) < MaxReceipts
    /\ Stage(Executed(k),
             [view.receipts EXCEPT ![k] = [digest |-> d, committed_sequence |-> view.sequence]],
             full, k)

\* Mutation: a key that already holds a receipt executes again.
ExecuteIdempotentTwice(k, d, full) ==
    Stage(Executed(k),
          [view.receipts EXCEPT ![k] = [digest |-> d, committed_sequence |-> view.sequence + 1]],
          full, k)

\* prepare_new_receipt refuses a receipt beyond the capacity of the table.
ExecuteIdempotent(k, d, full) ==
    /\ view.receipts[k] = NoReceipt
    /\ Cardinality(Held(view.receipts)) < MaxReceipts
    /\ Stage(Executed(k),
             [view.receipts EXCEPT ![k] = [digest |-> d, committed_sequence |-> view.sequence + 1]],
             full, k)

Acknowledgement(k, receipt) ==
    [key |-> k, digest |-> receipt.digest, committed_sequence |-> receipt.committed_sequence]

\* A receipt with the same digest answers the retry from the published view,
\* whatever the state of the durable handle.
Replay(k, d) ==
    /\ Idle
    /\ view.receipts[k] # NoReceipt
    /\ view.receipts[k].digest = d
    /\ acks' = acks \cup {Acknowledgement(k, view.receipts[k])}
    /\ UNCHANGED <<disk, engineVars, call, snapshot, commits, pruned>>

\* The oldest `max` receipts that pass both cutoffs.  Receipts carry wall-clock
\* times the service does not control: any set may be the one completed early.
Selection(early, through, max) ==
    LET passing == {k \in Held(view.receipts) \cap early :
                        view.receipts[k].committed_sequence <= through}
        before(k) == {j \in passing : view.receipts[j].committed_sequence
                                          < view.receipts[k].committed_sequence}
    IN  {k \in passing : Cardinality(before(k)) < max}

\* Mutation: the pruning candidate is the metadata of the view, without rows.
PruneReceiptsMetadataOnly(early, through, max) ==
    LET selected == Selection(early, through, max) IN
    /\ selected # {}
    /\ Stage(NoRows,
             [k \in Keys |-> IF k \in selected THEN NoReceipt ELSE view.receipts[k]],
             TRUE, NoKey)

PruneReceipts(early, through, max) ==
    LET selected == Selection(early, through, max) IN
    /\ selected # {}
    /\ Stage(view.rows,
             [k \in Keys |-> IF k \in selected THEN NoReceipt ELSE view.receipts[k]],
             TRUE, NoKey)

-----------------------------------------------------------------------------
(* The durable transaction and the publication of its view *)

\* Mutation: the transaction writes the rows and leaves the receipt table.
StoredWithoutReceipts(c) == [c.candidate EXCEPT !.receipts = disk.receipts]

\* A full commit reloads the file and replaces its content by the candidate's;
\* an incremental one adds the write set to the rows that are stored.
Stored(c) ==
    IF c.full THEN c.candidate
    ELSE WithRows(c.candidate, [k \in Keys \cup {NoKey} |->
                                   disk.rows[k] + (c.candidate.rows[k] - view.rows[k])])

\* The base of an incremental commit must be the stored head.
BaseIsCurrent(c) == c.full \/ disk.sequence = view.sequence

Write(database) ==
    /\ disk' = database
    /\ commits' = Append(commits, database)
    /\ pruned' = [k \in Keys |-> IF k \in Held(disk.receipts) \ Held(database.receipts)
                                 THEN pruned[k] + 1 ELSE pruned[k]]

\* Without a durable handle commit_candidate has nothing to write before it
\* publishes: the guards on the requests are all that keeps it from that.
CommitSucceeds ==
    /\ call.stage = "staged"
    /\ BaseIsCurrent(call)
    /\ IF durable THEN Write(Stored(call)) ELSE UNCHANGED <<disk, commits, pruned>>
    /\ call' = [stage |-> "landed", full |-> call.full, key |-> call.key, candidate |-> call.candidate]
    /\ UNCHANGED <<engineVars, snapshot, acks>>

\* Any error before transaction.commit: nothing was written.
CommitDefinitelyFails ==
    /\ call.stage = "staged"
    /\ "definite" \in Faults \/ ~BaseIsCurrent(call)
    /\ call' = NoCall
    /\ UNCHANGED <<disk, engineVars, snapshot, historyVars>>

\* transaction.commit itself fails; the file may hold either state.
CommitIsUncertain(landed) ==
    /\ "uncertain" \in Faults
    /\ durable
    /\ call.stage = "staged"
    /\ BaseIsCurrent(call)
    /\ IF landed THEN Write(Stored(call)) ELSE UNCHANGED <<disk, commits, pruned>>
    /\ durable' = FALSE
    /\ write_failed' = TRUE
    /\ call' = NoCall
    /\ UNCHANGED <<up, view, read_reopen_required, snapshot, acks>>

\* Mutation: the receipts of the old view are published with the new rows.
PublishViewOldReceipts ==
    /\ call.stage = "landed"
    /\ view' = [call.candidate EXCEPT !.rows = disk.rows, !.receipts = view.receipts]
    /\ acks' = IF call.key = NoKey THEN acks
               ELSE acks \cup {Acknowledgement(call.key, call.candidate.receipts[call.key])}
    /\ call' = NoCall
    /\ UNCHANGED <<disk, up, durable, write_failed, read_reopen_required, snapshot, commits, pruned>>

\* Mutation: the response leaves before the new view is published.
PublishViewTooLate ==
    /\ call.stage = "landed"
    /\ acks' = IF call.key = NoKey THEN acks
               ELSE acks \cup {Acknowledgement(call.key, call.candidate.receipts[call.key])}
    /\ call' = NoCall
    /\ UNCHANGED <<disk, engineVars, snapshot, commits, pruned>>

\* The source of the new view is a redb reader positioned on the new commit.
PublishView ==
    /\ call.stage = "landed"
    /\ view' = IF durable THEN WithRows(call.candidate, disk.rows) ELSE call.candidate
    /\ acks' = IF call.key = NoKey THEN acks
               ELSE acks \cup {Acknowledgement(call.key, call.candidate.receipts[call.key])}
    /\ call' = NoCall
    /\ UNCHANGED <<disk, up, durable, write_failed, read_reopen_required, snapshot, commits, pruned>>

\* Mutation: only writes are stopped, reads go on.
ReopenRequiredForWrites ==
    /\ durable' = FALSE
    /\ write_failed' = TRUE
    /\ UNCHANGED read_reopen_required

ReopenRequired ==
    /\ durable' = FALSE
    /\ write_failed' = TRUE
    /\ read_reopen_required' = TRUE

PublishViewFails ==
    /\ "commit_view" \in Faults
    /\ call.stage = "landed"
    /\ ReopenRequired
    /\ call' = NoCall
    /\ UNCHANGED <<disk, up, view, snapshot, historyVars>>

-----------------------------------------------------------------------------
(* Offline maintenance through the same Engine *)

\* redb refuses physical maintenance while a snapshot holds a read transaction.
NoRetainedSnapshot == \A r \in Readers : snapshot[r] = NoSnapshot

\* check_integrity gives up the view's read transaction, verifies the file and
\* reads the view back; an error of the check itself restores the old view,
\* which is a stuttering step.
CheckIntegrity ==
    /\ Idle /\ ~write_failed /\ NoRetainedSnapshot
    /\ view' = disk
    /\ UNCHANGED <<disk, up, durable, write_failed, read_reopen_required, call, snapshot, historyVars>>

\* Mutation: the view published for the duration of the check has no receipts.
CheckIntegrityViewFailsNoReceipts ==
    /\ "integrity_view" \in Faults
    /\ Idle /\ ~write_failed
    /\ view' = [EmptyDatabase EXCEPT !.sequence = view.sequence]
    /\ UNCHANGED <<disk, up, durable, write_failed, read_reopen_required, call, snapshot, historyVars>>

\* Reading the view back fails: the error is returned and the metadata-only
\* view that was published for the duration of the check stays.
CheckIntegrityViewFails ==
    /\ "integrity_view" \in Faults
    /\ Idle /\ ~write_failed
    /\ view' = WithRows(view, NoRows)
    /\ UNCHANGED <<disk, up, durable, write_failed, read_reopen_required, call, snapshot, historyVars>>

\* compact_storage moves pages, never content.  It starts with the check above
\* and ends with a view read back from the file, or with neither handle nor view.
CompactStorage ==
    /\ Idle /\ ~write_failed /\ ~read_reopen_required /\ NoRetainedSnapshot
    /\ view' = disk
    /\ UNCHANGED <<disk, up, durable, write_failed, read_reopen_required, call, snapshot, historyVars>>

CompactStorageFails ==
    /\ "compaction" \in Faults
    /\ Idle /\ ~write_failed /\ ~read_reopen_required /\ NoRetainedSnapshot
    /\ view' = WithRows(disk, NoRows)
    /\ ReopenRequired
    /\ UNCHANGED <<disk, up, call, snapshot, historyVars>>

-----------------------------------------------------------------------------
(* Readers, and the life of the process *)

ReadSnapshot(r) ==
    /\ Idle
    /\ snapshot[r] = NoSnapshot
    /\ snapshot' = [snapshot EXCEPT ![r] = [reopen |-> read_reopen_required, database |-> view]]
    /\ UNCHANGED <<disk, engineVars, call, historyVars>>

\* The read executes, or fails with E_STORAGE_REOPEN_REQUIRED, and lets go.
ReleaseSnapshot(r) ==
    /\ snapshot[r] # NoSnapshot
    /\ snapshot' = [snapshot EXCEPT ![r] = NoSnapshot]
    /\ UNCHANGED <<disk, engineVars, call, historyVars>>

Crash ==
    /\ up
    /\ up' = FALSE
    /\ call' = NoCall
    /\ snapshot' = [r \in Readers |-> NoSnapshot]
    /\ UNCHANGED <<disk, view, durable, write_failed, read_reopen_required, historyVars>>

OpenRedb ==
    /\ ~up
    /\ up' = TRUE
    /\ view' = disk
    /\ durable' = TRUE
    /\ write_failed' = FALSE
    /\ read_reopen_required' = FALSE
    /\ UNCHANGED <<disk, call, snapshot, historyVars>>

Next ==
    \/ \E full \in BOOLEAN : ExecutePlain(full)
    \/ \E k \in Keys, d \in Digests, full \in BOOLEAN : ExecuteIdempotent(k, d, full)
    \/ \E k \in Keys, d \in Digests : Replay(k, d)
    \/ \E early \in SUBSET Keys, through \in 1 .. MaxSequence, max \in 1 .. Cardinality(Keys) :
          PruneReceipts(early, through, max)
    \/ CommitSucceeds
    \/ CommitDefinitelyFails
    \/ \E landed \in BOOLEAN : CommitIsUncertain(landed)
    \/ PublishView
    \/ PublishViewFails
    \/ CheckIntegrity
    \/ CheckIntegrityViewFails
    \/ CompactStorage
    \/ CompactStorageFails
    \/ \E r \in Readers : ReadSnapshot(r) \/ ReleaseSnapshot(r)
    \/ Crash
    \/ OpenRedb

Spec == Init /\ [][Next]_vars

-----------------------------------------------------------------------------
(* Properties *)

TypeOK ==
    /\ disk \in Database
    /\ view \in Database
    /\ up \in BOOLEAN /\ durable \in BOOLEAN
    /\ write_failed \in BOOLEAN /\ read_reopen_required \in BOOLEAN
    /\ \/ call = NoCall
       \/ call \in [stage : {"staged", "landed"}, full : BOOLEAN, key : Keys \cup {NoKey},
                    candidate : Database]
    /\ snapshot \in [Readers -> [reopen : BOOLEAN, database : Database] \cup {NoSnapshot}]
    /\ commits \in Seq(Database)
    /\ pruned \in [Keys -> Nat]
    /\ acks \subseteq Ack

\* Between two calls an Engine that still accepts writes has published exactly
\* what the file holds, receipts included: the next candidate is built from the
\* last durable commit, never from an older or a half-published one.
ViewIsCurrent == Idle /\ ~write_failed => view = disk

IsCommit(database) == database = EmptyDatabase \/ \E n \in 1 .. Len(commits) : commits[n] = database

\* A read that is answered, from the live view or from a snapshot captured any
\* time earlier, sees the rows and receipts of one commit, the one whose
\* sequence it reports; a view that is none of the commits is never readable.
ReadersSeeOneCommit ==
    /\ up /\ ~read_reopen_required => IsCommit(view)
    /\ \A r \in Readers : snapshot[r] # NoSnapshot /\ ~snapshot[r].reopen
                              => IsCommit(snapshot[r].database)

\* A key's script is committed once for every receipt it has had: its effect and
\* its receipt land together through uncertain commits, crashes and retries,
\* and only a pruned key can execute again.
EffectsMatchReceipts ==
    \A k \in Keys : disk.rows[k] = pruned[k] + (IF disk.receipts[k] = NoReceipt THEN 0 ELSE 1)

\* A successful response, replayed or not, names a commit of the file that
\* holds this key's receipt, with this digest, at this sequence.
AcknowledgedIsDurable ==
    \A a \in acks :
        /\ a.committed_sequence <= Len(commits)
        /\ commits[a.committed_sequence].receipts[a.key]
               = [digest |-> a.digest, committed_sequence |-> a.committed_sequence]

\* The file's sequence counts its commits: none is lost or numbered twice.
SequenceCountsCommits ==
    /\ disk.sequence = Len(commits)
    /\ \A n \in 1 .. Len(commits) : commits[n].sequence = n

\* After a response, every read this Engine or a later one answers is at least
\* as new as the commit the response named, also when a later commit failed.
ReadYourWrites ==
    Idle /\ ~read_reopen_required => \A a \in acks : a.committed_sequence <= view.sequence

\* Every idempotent execution some commit of the file holds a receipt of.
Done == {Acknowledgement(p[2], commits[p[1]].receipts[p[2]]) :
            p \in {q \in (1 .. Len(commits)) \X Keys : commits[q[1]].receipts[q[2]] # NoReceipt}}

Store == INSTANCE IdempotentStore WITH store <- disk, done <- Done

\* The file and the responses, through all faults and crashes, behave like the
\* atomic store of IdempotentStore.
ImplementsIdempotentStore == Store!Spec

\* Only pruning removes receipts, and removing receipts leaves every row.
PruningKeepsRows == [][Held(disk.receipts) \subseteq Held(disk'.receipts) \/ disk'.rows = disk.rows]_vars

\* A stored receipt is never overwritten, and the only commit that removes one
\* is one that executes nothing: no key executes again while the file has its
\* receipt.  This must also survive a check_integrity that could not read its
\* view back: requests go on and are answered from the metadata-only view it
\* left (the receipts given to CommittedView::memory).
ExecutionsKeepReceipts ==
    [][\A k \in Held(disk.receipts) :
          \/ disk'.receipts[k] = disk.receipts[k]
          \/ disk'.receipts[k] = NoReceipt /\ call.candidate.rows = view.rows]_vars
=============================================================================
