-------------------------- MODULE ShadowMigration --------------------------
(***************************************************************************)
(* Recoverable schema migrations of a redb database (Engine's migration    *)
(* calls over RedbStore's maintenance transactions).  A migration copies   *)
(* the active generation of catalog and rows, batch by batch, into a       *)
(* shadow generation, validates it, cuts over to it together with the      *)
(* ledger entry, and reclaims the old generation in bounded steps.  Every  *)
(* durable step is one two-phase redb transaction, so a call may stop      *)
(* between any two of them (step budget, deadline, error, crash) and a     *)
(* later call, perhaps with other files, finds the manifest it left.       *)
(*                                                                         *)
(* A row's content is a data value and the schema it is encoded under, the *)
(* sequence of the migration files applied so far.  Rows are numbered in   *)
(* scan order (table id, row id); index entries follow their rows and are  *)
(* not modelled.  An Engine call has the store to itself (&mut self).      *)
(***************************************************************************)
EXTENDS Integers, Sequences, FiniteSets

CONSTANTS
    Files,           \* migration files (id and checksum)
    Lists,           \* file lists an operator may pass to a migration call
    Data,            \* contents of a row
    BatchRejects,    \* <<file, data>>: the file's steps fail on a row with that data
    ReadyRejects,    \* files whose target breaks a constraint over the whole table
    NoRow, NoCatalog, NoManifest, NoCall,
    MaxRow,          \* rows are 1..MaxRow
    MaxBatchRows,    \* rows in one source batch (SOURCE_BATCH_MAX_ROWS)
    ReclaimEntries,  \* entries one reclaim step deletes (MAINTENANCE_RECLAIM_MAX_ENTRIES)
    MaxSteps,        \* largest max_steps of advance_migrations
    MaxGeneration,   \* bound on generation ids
    MaxWrites,       \* bound on ordinary commits
    MaxDisruptions   \* bound on crashes, failed commits and operator aborts

ASSUME ConstantsAssumption ==
    /\ \A list \in Lists : list \in Seq(Files)
    /\ BatchRejects \subseteq Files \X Data
    /\ ReadyRejects \subseteq Files
    /\ NoRow \notin Data
    /\ {MaxRow, MaxBatchRows, ReclaimEntries, MaxSteps} \subseteq Nat \ {0}
    /\ {MaxGeneration, MaxWrites, MaxDisruptions} \subseteq Nat

VARIABLES
    active,      \* GenerationState.active: the generation readers and writers use
    nextId,      \* GenerationState.next_id
    sequence,    \* DurableMeta.sequence
    ledger,      \* MIGRATION_LEDGER: the applied files, in order
    catalog,     \* schema stored in each generation's catalog, or NoCatalog
    rows,        \* rows stored in each generation
    manifest,    \* the only entry of MAINTENANCE_GENERATION, or NoManifest
    engine,      \* "open", "failed" (durable = None, reopen required), "down"
    call,        \* the migration call in progress, or NoCall
    viewSchema,  \* schema and
    viewRows,    \* rows of the Engine's committed view
    logical,     \* history: the data each row should have
    disruptions  \* history: crashes, failed commits and operator aborts so far

disk == <<active, nextId, sequence, ledger, catalog, rows, manifest>>
view == <<viewSchema, viewRows>>
vars == <<disk, engine, call, view, logical, disruptions>>

RowIds == 1..MaxRow
Generations == 0..MaxGeneration      \* 0 is GenerationRef::Legacy0
Unlimited == MaxSteps + 1            \* MaintenanceStepBudget::unlimited
Schemas == UNION {{SubSeq(list, 1, n) : n \in 0..Len(list)} : list \in Lists}
Stored == [data : Data, schema : Schemas]
NoRows == [r \in RowIds |-> NoRow]

States == {"building", "ready", "aborting", "reclaimable"}
Manifest(state, source, target, file, seq, checkpoint) ==
    [state |-> state, source |-> source, target |-> target, file |-> file,
     sequence |-> seq, checkpoint |-> checkpoint]
Call(mode, files, budget) == [mode |-> mode, files |-> files, budget |-> budget]

InState(S) == manifest # NoManifest /\ manifest.state \in S
InManifestState(s) ==
    Manifest(s, manifest.source, manifest.target, manifest.file,
             manifest.sequence, manifest.checkpoint)

Present(f) == {r \in RowIds : f[r] # NoRow}
\* The first n rows of f after a checkpoint, in scan order.
FirstRows(f, after, n) ==
    LET rest == {r \in Present(f) : r > after}
    IN  {r \in rest : Cardinality({q \in rest : q <= r}) <= n}

Migrated(row, file) == [data |-> row.data, schema |-> Append(row.schema, file)]

Init ==
    /\ active = 0 /\ nextId = 1 /\ sequence = 0 /\ ledger = <<>>
    /\ catalog = [g \in Generations |-> IF g = 0 THEN <<>> ELSE NoCatalog]
    /\ logical \in [RowIds -> Data \cup {NoRow}]
    /\ rows = [g \in Generations |->
                 IF g = 0
                 THEN [r \in RowIds |-> IF logical[r] = NoRow THEN NoRow
                                        ELSE [data |-> logical[r], schema |-> <<>>]]
                 ELSE NoRows]
    /\ manifest = NoManifest
    /\ engine = "open" /\ call = NoCall
    /\ viewSchema = <<>> /\ viewRows = rows[0]
    /\ disruptions = 0
-----------------------------------------------------------------------------
(* What a durable step leaves behind in memory.                            *)

Disrupt == disruptions < MaxDisruptions /\ disruptions' = disruptions + 1

\* finish_maintenance_result on CommitFailure::Uncertain
LoseBackend == Disrupt /\ engine' = "failed" /\ call' = NoCall /\ UNCHANGED view

\* The transaction committed; the Engine learns so, or sees an uncertain failure.
Committed(next) ==
    \/ engine' = engine /\ call' = next /\ UNCHANGED <<view, disruptions>>
    \/ LoseBackend

\* MaintenanceStepBudget::record_commit and ::exhausted
RecordCommit(c) ==
    Call(c.mode, c.files, IF c.budget = Unlimited THEN Unlimited ELSE c.budget - 1)
Running(mode) == engine = "open" /\ call # NoCall /\ call.mode = mode
CanStep(mode) == Running(mode) /\ call.budget > 0
-----------------------------------------------------------------------------
(* Ordinary writes: insert, update or delete of one row.                   *)

\* A ready generation no longer blocks writes.
UnfinishedMaintenanceBuildingOnly == InState({"building"})

\* Writes stay blocked until the migration is resumed or aborted; a cut-over
\* generation that is only being reclaimed does not block them.
UnfinishedMaintenance == InState({"building", "ready", "aborting"})

Write(r, d) ==
    /\ engine = "open" /\ call = NoCall
    /\ ~UnfinishedMaintenance
    /\ sequence - Len(ledger) < MaxWrites
    /\ d # logical[r]
    /\ rows' = [rows EXCEPT ![active] =
                  [rows[active] EXCEPT ![r] = IF d = NoRow THEN NoRow
                                              ELSE [data |-> d, schema |-> viewSchema]]]
    /\ sequence' = sequence + 1
    /\ logical' = [logical EXCEPT ![r] = d]
    /\ \/ engine' = engine /\ viewRows' = rows'[active] /\ UNCHANGED <<viewSchema, call, disruptions>>
       \/ LoseBackend
    /\ UNCHANGED <<active, nextId, ledger, catalog, manifest>>
-----------------------------------------------------------------------------
(* Migration calls.                                                        *)

\* advance_migrations (budget 1..MaxSteps), apply_migrations_until (Unlimited)
BeginApply(list, budget) ==
    /\ engine = "open" /\ call = NoCall
    /\ Len(ledger) <= Len(list)
    /\ ledger = SubSeq(list, 1, Len(ledger))
    /\ call' = Call("apply", SubSeq(list, Len(ledger) + 1, Len(list)), budget)
    /\ UNCHANGED <<disk, engine, view, logical, disruptions>>

\* abort_migration
AbortMigration ==
    /\ engine = "open" /\ call = NoCall /\ manifest # NoManifest
    /\ Disrupt
    /\ call' = Call("abort", <<>>, Unlimited)
    /\ UNCHANGED <<disk, engine, view, logical>>

StartMaintenance ==
    /\ CanStep("apply") /\ call.files # <<>> /\ manifest = NoManifest
    /\ nextId <= MaxGeneration
    /\ manifest' = Manifest("building", active, nextId, Head(call.files), sequence, 0)
    /\ catalog' = [catalog EXCEPT ![nextId] = Append(viewSchema, Head(call.files))]
    /\ nextId' = nextId + 1
    /\ Committed(RecordCommit(call))
    /\ UNCHANGED <<active, sequence, ledger, rows, logical>>

Building == CanStep("apply") /\ call.files # <<>> /\ InState({"building"})
NextBatch(n) == FirstRows(viewRows, manifest.checkpoint, n)
Rejects(batch) == \E r \in batch : <<Head(call.files), viewRows[r].data>> \in BatchRejects
FileMatches == manifest.file = Head(call.files)

CopyBatch(batch, checkpoint) ==
    /\ Building /\ batch # {} /\ ~Rejects(batch) /\ FileMatches
    /\ rows' = [rows EXCEPT ![manifest.target] =
                  [r \in RowIds |-> IF r \in batch
                                    THEN Migrated(viewRows[r], manifest.file)
                                    ELSE rows[manifest.target][r]]]
    /\ manifest' = Manifest("building", manifest.source, manifest.target, manifest.file,
                            manifest.sequence, checkpoint)
    /\ Committed(RecordCommit(call))
    /\ UNCHANGED <<active, nextId, sequence, ledger, catalog, logical>>

\* The checkpoint skips the row after the batch.
AppendBatchSkipsRow(n) ==
    CopyBatch(NextBatch(n), 1 + CHOOSE r \in NextBatch(n) : \A q \in NextBatch(n) : q <= r)

\* Batches are cut by rows and by bytes: any size up to MaxBatchRows.
AppendBatch(n) ==
    CopyBatch(NextBatch(n), CHOOSE r \in NextBatch(n) : \A q \in NextBatch(n) : q <= r)

Reject(n, next) ==
    /\ Building /\ NextBatch(n) # {} /\ Rejects(NextBatch(n))
    /\ call' = next
    /\ UNCHANGED <<disk, engine, view, logical, disruptions>>

\* The error is returned and the shadow generation stays as it is.
BatchRejectedWithoutAbort(n) == Reject(n, NoCall)

\* The steps of the file fail on a row: the call turns to aborting.
BatchRejected(n) == Reject(n, Call("abort", <<>>, call.budget))

CopyComplete == FirstRows(viewRows, manifest.checkpoint, 1) = {}

MarkReady ==
    /\ Building /\ CopyComplete /\ FileMatches
    /\ Head(call.files) \notin ReadyRejects
    /\ manifest' = InManifestState("ready")
    /\ Committed(RecordCommit(call))
    /\ UNCHANGED <<active, nextId, sequence, ledger, catalog, rows, logical>>

ReadyRejected ==
    /\ Building /\ CopyComplete /\ FileMatches
    /\ Head(call.files) \in ReadyRejects
    /\ call' = Call("abort", <<>>, call.budget)
    /\ UNCHANGED <<disk, engine, view, logical, disruptions>>

ReadyForCutover ==
    /\ CanStep("apply") /\ call.files # <<>> /\ InState({"ready"})
    /\ FileMatches
    /\ manifest.source = active /\ manifest.sequence = sequence
    /\ catalog[manifest.target] = Append(viewSchema, Head(call.files))

\* The read view keeps the generation it was built on.
PublishViewOfSource == UNCHANGED view

PublishView == viewSchema' = catalog[active'] /\ viewRows' = rows[active']

\* One transaction (active generation, ledger, manifest), then the view.
CutoverMaintenance ==
    /\ ReadyForCutover
    /\ active' = manifest.target
    /\ sequence' = sequence + 1
    /\ ledger' = Append(ledger, manifest.file)
    /\ manifest' = InManifestState("reclaimable")
    /\ \/ /\ engine' = engine
          /\ call' = RecordCommit(Call("apply", Tail(call.files), call.budget))
          /\ PublishView
          /\ UNCHANGED disruptions
       \/ LoseBackend
    /\ UNCHANGED <<nextId, catalog, rows, logical>>

AbortFrom(states) ==
    /\ CanStep("abort") /\ InState(states)
    /\ manifest' = InManifestState("aborting")
    /\ Committed(RecordCommit(call))
    /\ UNCHANGED <<active, nextId, sequence, ledger, catalog, rows, logical>>

\* An applied migration is aborted like an unfinished one.
BeginMaintenanceAbortAlways == AbortFrom({"building", "ready", "reclaimable"})

BeginMaintenanceAbort == AbortFrom({"building", "ready"})

\* The generation a reclaim step empties.
ReclaimedGeneration ==
    IF manifest.state = "aborting" THEN manifest.target ELSE manifest.source

\* One bounded step; the manifest goes with the last entry.  The cleanup of a
\* running migration continues with its files, an abort ends here.
ReclaimStep(lastRows) ==
    LET g == ReclaimedGeneration
        deleted == FirstRows(rows[g], 0, IF catalog[g] = NoCatalog THEN ReclaimEntries
                                         ELSE ReclaimEntries - 1)
        complete == Present(rows[g]) \ deleted \subseteq lastRows
    IN  /\ CanStep("apply") \/ CanStep("abort")
        /\ InState({"aborting", "reclaimable"})
        /\ catalog' = [catalog EXCEPT ![g] = NoCatalog]
        /\ rows' = [rows EXCEPT ![g] = [r \in RowIds |-> IF r \in deleted THEN NoRow
                                                         ELSE rows[g][r]]]
        /\ manifest' = IF complete THEN NoManifest ELSE manifest
        /\ Committed(IF complete /\ call.mode = "abort" THEN NoCall ELSE RecordCommit(call))
        /\ UNCHANGED <<active, nextId, sequence, ledger, logical>>

\* The manifest goes when the step used up its entries exactly.
ReclaimMaintenanceStepForgetsLast == ReclaimStep({MaxRow})

ReclaimMaintenanceStep == ReclaimStep({})
-----------------------------------------------------------------------------
(* How a call ends without another durable step.                           *)

\* The checkpoint belongs to another file (E_MAINTENANCE_CONFLICT).
Conflict ==
    /\ call.files # <<>> /\ InState({"building", "ready"}) /\ ~FileMatches
    /\ \/ InState({"ready"})
       \/ CopyComplete
       \/ \E n \in 1..MaxBatchRows : ~Rejects(NextBatch(n))

\* The last permitted step is never taken.
StepsUsedUpEarly == call.budget <= 1

\* A bounded call that has used its steps leaves the rest to a later one.
StepsUsedUp == call.budget = 0

\* Generation ids are used up (E_LIMIT).
IdsUsedUp == manifest = NoManifest /\ nextId > MaxGeneration

EndCall ==
    /\ engine = "open" /\ call # NoCall
    /\ \/ StepsUsedUp
       \/ call.mode = "apply" /\ call.files = <<>> /\ ~InState({"aborting", "reclaimable"})
       \/ call.mode = "apply" /\ Conflict
       \/ call.mode = "apply" /\ IdsUsedUp
       \/ call.mode = "apply" /\ call.budget = Unlimited     \* the deadline passes
    /\ call' = NoCall
    /\ UNCHANGED <<disk, engine, view, logical, disruptions>>

\* The transaction fails before its commit: nothing changes (CommitFailure::Definite).
StepFails ==
    /\ engine = "open" /\ call # NoCall
    /\ Disrupt /\ call' = NoCall
    /\ UNCHANGED <<disk, engine, view, logical>>

\* The commit fails and did not land (CommitFailure::Uncertain).
CommitLost ==
    /\ engine = "open" /\ LoseBackend
    /\ UNCHANGED <<disk, logical>>

Crash ==
    /\ engine # "down" /\ Disrupt
    /\ engine' = "down" /\ call' = NoCall
    /\ UNCHANGED <<disk, view, logical>>

\* validate_generation_state: what open_redb refuses to load without.
ValidGenerationState ==
    /\ active < nextId
    /\ manifest # NoManifest =>
         /\ manifest.target \in 1..(nextId - 1) /\ manifest.source < nextId
         /\ IF manifest.state = "reclaimable"
            THEN manifest.target = active /\ manifest.source # active
            ELSE manifest.source = active /\ manifest.target # active

Reopen ==
    /\ engine \in {"failed", "down"}
    /\ ValidGenerationState /\ catalog[active] # NoCatalog
    /\ engine' = "open" /\ call' = NoCall
    /\ viewSchema' = catalog[active] /\ viewRows' = rows[active]
    /\ UNCHANGED <<disk, logical, disruptions>>
-----------------------------------------------------------------------------
CallStep ==
    \/ StartMaintenance
    \/ \E n \in 1..MaxBatchRows : AppendBatch(n) \/ BatchRejected(n)
    \/ MarkReady
    \/ ReadyRejected
    \/ CutoverMaintenance
    \/ BeginMaintenanceAbort
    \/ ReclaimMaintenanceStep
    \/ EndCall

Next ==
    \/ CallStep
    \/ \E r \in RowIds, d \in Data \cup {NoRow} : Write(r, d)
    \/ \E list \in Lists, budget \in 1..Unlimited : BeginApply(list, budget)
    \/ AbortMigration
    \/ StepFails
    \/ CommitLost
    \/ Crash
    \/ Reopen

Spec == Init /\ [][Next]_vars

\* A call in progress keeps running, a stopped database is opened again, and the
\* operator calls advance_migrations with every list again and again, until it
\* reports complete.
FairSpec ==
    /\ Spec
    /\ WF_vars(CallStep) /\ WF_vars(Reopen)
    /\ \A list \in Lists : SF_vars(\E budget \in 1..MaxSteps : BeginApply(list, budget))
-----------------------------------------------------------------------------
(* Properties.                                                             *)

TypeOK ==
    /\ active \in Generations /\ nextId \in 1..(MaxGeneration + 1)
    /\ sequence \in Nat
    /\ ledger \in Schemas
    /\ catalog \in [Generations -> Schemas \cup {NoCatalog}]
    /\ rows \in [Generations -> [RowIds -> Stored \cup {NoRow}]]
    /\ manifest = NoManifest \/
         /\ manifest.state \in States
         /\ {manifest.source, manifest.target} \subseteq Generations
         /\ manifest.file \in Files
         /\ manifest.sequence \in Nat /\ manifest.checkpoint \in 0..MaxRow
    /\ engine \in {"open", "failed", "down"}
    /\ call = NoCall \/ (call.mode \in {"apply", "abort"} /\ call.budget \in 0..Unlimited)
    /\ viewSchema \in Schemas /\ viewRows \in [RowIds -> Stored \cup {NoRow}]
    /\ logical \in [RowIds -> Data \cup {NoRow}]
    /\ disruptions \in 0..MaxDisruptions

\* Through writes, migrations, aborts, crashes and reclaiming, the active
\* generation holds exactly the rows that were written, each encoded under the
\* schema of the ledger: no row is lost, doubled, left in an older schema or
\* migrated by another file than the one the ledger names.
RowsSurvive ==
    /\ catalog[active] = ledger
    /\ \A r \in RowIds :
         rows[active][r] = IF logical[r] = NoRow THEN NoRow
                           ELSE [data |-> logical[r], schema |-> ledger]

\* Whatever the shadow generation was built by (several calls, several processes),
\* it holds the migrated rows up to the checkpoint and nothing else, and all of
\* them once it is ready.
ShadowIsMigratedPrefix ==
    InState({"building", "ready"}) =>
        /\ catalog[manifest.target] = Append(ledger, manifest.file)
        /\ manifest.sequence = sequence
        /\ \A r \in RowIds :
             rows[manifest.target][r] =
                 IF r <= manifest.checkpoint /\ rows[active][r] # NoRow
                 THEN Migrated(rows[active][r], manifest.file) ELSE NoRow
        /\ manifest.state = "ready" => Present(rows[active]) \subseteq 1..manifest.checkpoint

\* No crash, failure or abort leaves a database that the next open refuses
\* (validate_generation_state) or whose active catalog has been reclaimed.
AlwaysOpens == ValidGenerationState /\ catalog[active] # NoCatalog

\* Storage of a generation that is neither active nor under maintenance has been
\* reclaimed completely: nothing can find it later to delete it.
NoOrphanGeneration ==
    \A g \in Generations :
        (catalog[g] # NoCatalog \/ Present(rows[g]) # {}) =>
            g = active \/ (manifest # NoManifest /\ g \in {manifest.source, manifest.target})

\* An Engine that serves reads serves the active generation: the view follows the
\* cutover in the call that made it, or the Engine demands a reopen.
ReadersFollowCutover ==
    engine = "open" => viewSchema = ledger /\ viewRows = rows[active]

\* Maintenance never stays half done when the operator keeps calling
\* advance_migrations, whatever the step budget of the calls and even if the
\* file is rejected: it is cut over and reclaimed, or aborted and reclaimed.
MaintenanceSettles == (manifest # NoManifest) ~> (manifest = NoManifest)

\* A list of files that are not rejected is applied in the end, unless calls for
\* rejected files have used up the generation ids.
MigrationsApply ==
    \A list \in Lists :
        (\A i \in DOMAIN list : list[i] \notin ReadyRejects) =>
            <>[](ledger = list /\ manifest = NoManifest) \/ <>[](nextId > MaxGeneration)
=============================================================================
