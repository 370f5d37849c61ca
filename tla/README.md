# A TLA+ model of unionid

unionid is a database for algebraic data types that is embedded in a Rust program
or served over TCP and HTTP. This directory holds TLA+ modules that model the parts
of it whose correctness depends on order, failure and concurrency, TLC
configurations that check them on small instances, and TLAPS proofs that hold for
every instance. Paths such as `engine.rs` are relative to the repository's `src/`.
`PROJECT.json` maps every definition that models code to its lines, and lists the
runs, the hazards, the findings and the theorems.

## 1. The system and its parts

| Part | Code | State and concurrency | Model |
|---|---|---|---|
| Engine commit path | `engine.rs` | exclusive `&mut` calls; candidate, durable commit, published view; flags `write_failed`, `read_reopen_required` | `CommitEngine` |
| redb backend | `redb_storage.rs` | atomic transactions with definite or uncertain failure | file of `CommitEngine`, generations of `ShadowMigration` |
| Idempotency receipts | `idempotency.rs`, `idempotency/`, `engine.rs` | map of the committed view, stored with the rows | `CommitEngine`, `IdempotentStore` |
| Recoverable migrations | `engine.rs`, `redb_storage.rs` | manifest and generations on disk, resumed by later calls | `ShadowMigration` |
| Concurrent reads, operation registry | `server.rs`, `control.rs` | threads, two mutexes, a condition variable, atomic flags | `ReadService` |
| Streams | `stream.rs`, `server.rs` | producer and worker threads, bounded channel, byte budget, shutdown | `StreamDelivery` |
| Transitional WAL and snapshot | `wal.rs`, `snapshot.rs`, `engine.rs` | two files, sync, rename, truncate | `LegacyWal` |
| Receipt retention worker | `server/retention.rs` | timer thread beside the Engine, clock guard | planned |
| Incremental backup journal and chains | `redb_storage.rs`, `backup/incremental/` | journal written with each commit; archive files and a manifest; commands that overlap and stop half-way | `BackupChain` |
| Full backup, restore, legacy import | `backup.rs`, `redb_storage.rs` | copy of one snapshot, published by rename | planned |
| Tables, indexes, constraints | `db.rs`, `db/index_predicate.rs`, `db/mutation_plan.rs` | candidate of one request | planned |
| Typed references | `db/reference.rs` | candidate of one request | planned |
| Generated defaults | `db/generated.rs` | per-request generation | planned |
| Pagination cursors | `pagination.rs` | cursor held by the client between requests | planned |
| Ordered keys, scalars | `ordered_key.rs`, `scalars/`, `codec.rs` | pure functions | planned, as operators |
| Parser, formatter, binding, matching | `syntax.rs`, `formatter.rs`, `query.rs`, `expression.rs`, `matching.rs`, `script.rs` | pure functions over text and trees | match arms planned, text left out |
| Project checks, exports, code generation, protocol, clients, CLI, metrics | remaining files | conversions and input/output | left out |

How they interact: a request reaches the Engine directly or through
`ConcurrentEngine`. A write holds the Engine mutex, builds a private candidate from
the committed view, commits it to redb (or to the WAL) and publishes a new view. A
read takes one of a bounded number of read slots, takes the Engine mutex only to
capture the view, and then runs without it. A streamed read hands its rows to a
connection worker through a bounded channel. Migrations, compaction and integrity
checks are Engine calls as well, and therefore never overlap a write.

## 2. Modules

`CommitEngine` (with `IdempotentStore`, `MCCommitEngine`, `CommitEngineProofs`,
`CommitReceiptProofs`).
State: the committed content of the redb file (`disk`), the Engine's view and flags,
the mutating call in flight, the snapshots readers hold, and as history every state
the file committed, the receipts pruned and the responses given. A database is a
sequence number, the number of committed executions of each idempotency key, and the
receipts: this tells apart a lost effect, a repeated effect and an effect without its
receipt. One call is three actions, since a crash may fall between them: `Stage`
builds the candidate, `CommitSucceeds` / `CommitDefinitelyFails` /
`CommitIsUncertain` is the transaction, `PublishView` / `PublishViewFails` replaces
the view and answers. `CheckIntegrity*` and `CompactStorage*` are the maintenance
calls that take the view away and give it back. `Faults` chooses which failures the
storage may show. `IdempotentStore` is the abstract specification: an atomic store in
which a key that holds a receipt cannot execute and a response names an execution
that was committed.

`ShadowMigration` (with `MCShadowMigration`). State: the active generation, the
catalog and rows of each generation, the ledger, the maintenance manifest, and the
Engine with its call and view. Each durable maintenance transaction is one action
(`StartMaintenance`, `AppendBatch`, `MarkReady`, `CutoverMaintenance`,
`BeginMaintenanceAbort`, `ReclaimMaintenanceStep`); calls with step budgets, deadline,
rejection, conflict, failed and uncertain commits, crash and reopen surround them.
`Write` is an ordinary insert, update or delete. A row is its data and the sequence of
files it was migrated by. Index entries follow their rows and are left out.

`ReadService` (with `MCReadService`). One program counter per thread; threads
interleave wherever the code takes a lock. `parking` is the interval in which a
thread holds `read_slots` between its last check and its wait; `cancel` notifies
without that lock. Three kinds of reader follow `with_read_snapshot`,
`ReadOperation::start` and `ReadOperation::start_stream`. Deadlines and shutdown may
come at any step. Each reader makes one request and each writer one write.

`StreamDelivery` (with `MCStreamDelivery`). A producer, a worker and the channel
between them, with both bounds (frames and bytes), the limit on emitted bytes,
cancellation, deadline, failing query, failing socket, the timeout of the terminal
frame and the drain of connections at shutdown. Frames are their kind and number.

`LegacyWal` (with `MCLegacyWal`). Each file is what a reader sees now and the set of
contents that may be found after a loss of power. Append, sync, the steps of a
checkpoint (rename over the old snapshot, directory sync, truncation, sync) and their
failures are separate actions; `Open` refuses a log with a torn last line and repairs
nothing (`Repair` is the operator following the error message), and `ProcessEnds` and `PowerLoss` may come between any two steps.
Assumed of the operating system: a successful `sync_all` makes the current content
durable, and a loss of power leaves the old content, the new one, or the new one with
its last line torn. Executing a source again is modelled as applying it again.

`BackupChain` (with `MCBackupChain`). The database side is the history of contents,
the journal and the commits it retains, which change in one transaction with each
commit; the archive side is a manifest and a set of files per repository. Each command
of `backup/incremental/workflow.rs` is a sequence of actions, one for each durable
step (file, manifest, journal transaction) and for each read that a later step relies
on; `Stop` ends a command after any step, by crash or by error, and any command may be
run next. `owner` is the lock on the database file: prune and restore work without it,
checkpoint and disable read the manifest before they have it, and checkpoint gives it
up after its export. A checksum is what it covers, so two checksums are equal exactly
when baseline and commits are. Journal limits are an input; `MaxSegmentCommits` is the
option of that name, and a smaller segment stands for one cut by bytes. Compression is
left out. The name of an artifact carries the checksum of its payload, so without
compression an existing entry has the same content: `WriteFile` is a union, and the
refusal of an entry that exists with other content does not occur.

The modules share no state. They meet at three places: the snapshot a `ReadService` read
captures is the `view` of `CommitEngine`, a commit of `BackupChain` is the transaction
`CommitSucceeds` of `CommitEngine`, and a stream's query in `StreamDelivery` runs
between `EnterEmitting` and `EndRead` of `ReadService`.

Operators marked "Mutation" (or described as a defect) stand before the definition
they vary. They are never part of a specification; each is a plausible error in the
code, and replacing the definition by it makes TLC report the property named for it in
`PROJECT.json`.

## 3. Runs

All runs finish in under two minutes on two cores. State counts are of distinct states.

| Run | Instance | What it shows |
|---|---|---|
| `commit_engine` (35,384) | 3 keys, 2 digests, 2 readers, 2 receipts at most, 4 commits; definite, uncertain, view and compaction failures | `ViewIsCurrent`, `ReadersSeeOneCommit`, `EffectsMatchReceipts`, `AcknowledgedIsDurable`, `ReadYourWrites`, `PruningKeepsRows`, and that the file with its responses implements `IdempotentStore` |
| `commit_engine_integrity` (34,319) | 2 keys, 1 reader, 3 commits; uncertain commits and an integrity check that cannot read its view back | what survives that failure: `ExecutionsKeepReceipts`. Requests are answered from the view it left, which has the receipts and no rows, and still no key executes again while the file has its receipt |
| `integrity_view_lost` | the same failure | a violation of `ReadersSeeOneCommit`, see section 6 |
| `read_service` (1,411,608) | a stream, a registered read, a plain read, a writer; 1 slot, 2 operations, 1 tombstone | no slot or gauge leaks, an accepted cancellation decides the answer, a tombstone repeats the answer |
| `read_queue` (167,280) | a registered read, two plain reads, a writer; 1 slot | liveness of the queue: lost and misdirected notifications strand nobody |
| `shadow_migration` (313,370) | 3 rows, batches of 2, reclaim of 2 entries, calls of 1, 2 or unlimited steps, 3 generation ids, 2 writes, 2 disruptions; lists `<<a, b>>` and `<<x>>` with `x` an edited `a` that is rejected | rows survive, the shadow is a migrated prefix, every state can be opened, no generation is orphaned, the ledger names the schema of the active rows, readers follow the cutover |
| `shadow_migration_liveness` (38,300) | 2 rows, calls of one step, 4 generation ids | maintenance settles; a list that is not rejected is applied |
| `stream_delivery` (5,672) | one stream, 4 rows of which one is big, 3 frames, 3 bytes, 7 emitted bytes | the wire is a correct frame sequence that tells the registry's outcome, bytes are returned, both threads and the server end |
| `legacy_wal` (22,954) | 4 requests; a new database checkpointed every 2 writes, and a prototype log of 2 lines without snapshot | every restart recovers each answered request exactly once, only a torn tail is refused, no published view is taken back |
| `legacy_wal_prototype` | a prototype log with a snapshot | a violation of `AppliedOnce`, see section 6 |
| `backup_chain` (538,766) | one archive, two processes that each run any command, one key, 3 sequences, journal limits 1 and 2, segments of at most 2 commits | every sequence a manifest declares restores exactly, no commit falls between archive and journal, an interrupted export can be taken up, a restore racing checkpoint and prune is exact or fails, ranges only move forward |
| `backup_journal_full` | one archive, one process, journal limit 1, 4 sequences | a violation of `FullJournalCanBeEmptied`, see section 6 |

**Why the bounds are enough.** Each bound is large enough for the case it limits to
occur on both sides. Three keys against two receipts reach the capacity of the receipt
table, and pruning makes room again; four commits allow execute, prune, execute again
and one more commit with a failure at each of them. One read slot with two or three
contenders makes every admission contended, and one tombstone makes the second one
evict the first. Three rows in batches of at most two need at least two batches and
leave a remainder; reclaiming two entries at a time (the catalog is one) stops between
entries; two disruptions allow a failure during the recovery from a failure. Three
queued bytes with a two-byte frame fill the byte budget before the frame bound, and the
frame bound before the byte budget. Four requests with a checkpoint every two give two
checkpoints, the second over a log that an interrupted first one left untruncated.
Two commits after a baseline, in one segment or in two, give an export that is
interrupted between segments and a checkpoint that retires segments; two processes are
enough for a prune, a restore or a stale manifest against each other command.

**Symmetry** is used by the safety runs `commit_engine` (keys, digests, readers) and
`backup_chain` (processes), never in a liveness run. Deadlock is checked except in the
run of `StreamDelivery`, where every connection ends, and in those of `BackupChain`,
where nobody is obliged to run a command and the bound on commits is reached.

**Fairness.**
- `StreamDelivery!FairSpec`: weak fairness of each worker, each producer and the
  drain. Every socket write, channel wait and join in the code has a timeout, and a
  query is a finite loop over its rows, so no thread stays at an enabled step.
- `ReadService!QueueSpec`: strong fairness of each queued thread's own steps and
  nothing else: holders of slots and writers may stay for ever. It has to be strong
  because `read_slots` is a mutex others take repeatedly; each holds it for an instant
  once per `CONNECTION_POLL`, so a thread that keeps trying gets it.
- `ShadowMigration!FairSpec`: weak fairness of the steps of a running call and of
  reopening, strong fairness of an operator's repeated `advance_migrations` with each
  list, which is what the documentation tells an operator to do until it reports
  complete. Writes may be interleaved and may never happen.

## 4. Proofs

`CommitEngineProofs` and `CommitReceiptProofs`, which extends it, prove for all sets of
keys, digests and readers, all capacities and any number of commits, from
`ConstantsAssumption` alone:

- `TypeCorrect`: `Spec => []TypeOK`;
- `ReceiptsOutliveExecutions`: the action property `ExecutionsKeepReceipts` of the run
  `commit_engine_integrity`;

and, with the further assumption `"integrity_view" \notin Faults` (the failure behind
the finding of section 6, which breaks `ViewIsCurrent` and `ReadersSeeOneCommit`):

- `ViewStaysCurrent`, `SequencesCount`, `ReadsAreCommits`,
  `EffectsAndReceiptsLandTogether`, `ResponsesAreDurable`, `ReadsFollowResponses`: the
  safety invariants of the run `commit_engine`, and `SequenceCountsCommits`, which the
  others need;
- `PruningIsPure`: the action property `PruningKeepsRows`.

None of the invariants is inductive. They are proved in layers, each assuming the ones
before it:

1. `Typing` adds `CandidateAdds` to `TypeOK`: an incremental candidate never has fewer
   rows than its base, without which the subtraction in `Stored` could leave `Nat`.
2. `Coupling` relates Engine and file. Flags agree (the durable handle is given up
   exactly when writes are); a call in flight belongs to a healthy Engine, and the file
   equals the view before the transaction and the candidate after it. This makes
   `ViewIsCurrent` inductive: alone it says nothing about the middle of a call.
3. `FileSteps`, a consequence: every step leaves the file alone or writes the staged
   candidate. All later layers treat the file through this one lemma, not by action.
4. `History`: the sequence number of the file is the length of its history.
5. `CandidateReceipts`: a candidate treats each key in one of three ways (untouched,
   pruned, executed), which gives `EffectsMatchReceipts` and `PruningKeepsRows`.
6. `ReceiptsCoupled`: the part of `Coupling` that a failed integrity check leaves true.
   The receipts, unlike the rows, of view and file still agree. With `ReceiptSteps` and
   layer 5 it gives `ExecutionsKeepReceipts` for every choice of `Faults`.
7. `ReceiptsRecorded` and `ReadableIsNew`: a receipt in the view or in the file is
   recorded in the commit it names, and no readable view is older than a response;
   with `HeadSteps` and `AckSteps` these give the two theorems about responses.

Model-checked only: the refinement `ImplementsIdempotentStore`, all properties of
the other five component modules, and every liveness property (liveness under
fairness is outside what TLAPS can prove).

## 5. Hazards

`PROJECT.json` lists the hazards with the line where each bites. They fall into six
groups: failures between the durable commit and the answer; threads that meet in the
operation registry and the slot queue; threads that meet in a stream's channel;
maintenance that is resumed by another call or process; files that are replaced in
several steps; backup commands that stop half-way or work from a manifest that has
been replaced. The two hazards of the retention worker have no property yet; three
others carry a note that says why none is stated.

## 6. Findings

- `integrity_view_lost`: `Engine::check_integrity` publishes a view without rows while
  the file is checked. If the view cannot be read back afterwards, the error is
  returned with that view still published and no reopen required, so reads find the
  sequence of a commit and none of its rows. After a commit or a compaction the same
  failure does require a reopen.
- `legacy_wal_prototype`: the watermark of the snapshot is not compared with lines that
  carry no sequence number, so a stop between the rename of the snapshot and the
  truncation of the log applies them again.

- `backup_journal_full`: a checkpoint publishes its prepared manifest, with the new
  baseline, before it ends the old journal. If it stops in between and the database
  commits once, resuming is refused because the journal is not empty, and export, init
  and disable are refused because its baseline is not the manifest's. When that journal
  is full every commit fails, while RFC 0016 says that operators then export or disable.
  No command gets out of this; `Engine::disable_backup_journal(true)` would.

More differences between documents and code have no run. `docs/SERVICE.md` and RFC 0007
say that the snapshot is released before the emitting phase; a stream emits while it
owns snapshot and slot, as `docs/PROTOCOL.md` says (`EnterEmitting` of `ReadService`).
RFC 0007 promises exactly one terminal frame; it is given up after five seconds without
room in the channel, and the stream then closes in an orderly way without it
(`TerminalUnsent` of `StreamDelivery`). RFC 0007 says that frames still queued at a
cancellation are dropped; the worker writes every frame it receives. `docs/SERVICE.md`
says that the Engine is released when the server returns; the server waits for
connection workers, and a detached producer may hold the Engine a little longer
(`ProducersEnd` shows that it does end). RFC 0016 lists the pairs of manifest and
journal states that are valid and says every other returns `E_BACKUP_CHAIN`; export on
a prepared manifest with a disabled journal publishes it as active before it fails, and
disable accepts the resulting pair (`ExportActivate`, `DisableOpen` of `BackupChain`).

## 7. Plan

In this order:

1. `RetentionWorker`: the clock guard, skips while the Engine is busy, stop and
   shutdown against a pass, progress of pruning. Composed with the selection of
   `CommitEngine`.
2. Full backup and restore (`backup.rs`), and the storage headers of `BackupChain`
   with the upgrade that authenticates an archive first. An abstract specification of
   `BackupChain` says that a chain restores exactly a range of the file's commits.
3. `Candidate`: one request against tables with a primary key, unique and partial
   unique indexes, typed references, upsert and generated defaults; checked against a
   definition of the final state that knows no indexes.
4. Pure algorithms as operators against reference definitions over bounded inputs:
   ordered keys, cursors and pages, decimal scaling, usefulness of match arms.
5. Storage upgrades, capabilities and the full compaction workflow.
6. Proofs, after the module has settled: the refinement of `IdempotentStore`;
   `RowsSurvive` and `ShadowIsMigratedPrefix` of `ShadowMigration`;
   `AcceptedCancelWins` and `SlotsAreConserved` of `ReadService`;
   `AcknowledgedIsRecoverable` of `LegacyWal`; `JournalCoversTheRest` of `BackupChain`.

Left out for good: parsing and formatting of text, code generation, Parquet and
portable exports, command line, metrics text (conversions or input/output without
retained state), the byte layout of redb keys, and redb itself, which is modelled from
how the code uses it.
