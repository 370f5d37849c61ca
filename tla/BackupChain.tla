---------------------------- MODULE BackupChain ----------------------------
(***************************************************************************)
(* Incremental backup: the journal a redb database keeps of its commits    *)
(* (RedbStore) and the archive repositories the commands of               *)
(* backup::incremental write from it.  A commit and its journal records    *)
(* are one transaction.  Export moves a prefix of the journal into an      *)
(* archive in three durable steps, segment file, manifest, journal prune;  *)
(* init, checkpoint and disable change the two sides in other orders.  A   *)
(* command may stop between any two steps and is simply run again.         *)
(*                                                                         *)
(* Opening the database locks it for the command (or for the server that   *)
(* commits), but several commands read the manifest before they open the   *)
(* database, and prune and restore never open it.                          *)
(*                                                                         *)
(* Archive files are named by their checksum, so a file is its content and *)
(* a repository is a set of them.  A checksum is modelled by what it       *)
(* covers: the baseline and the commits hashed on top of it.  Record       *)
(* codecs, storage headers, compression and byte limits are left out.      *)
(***************************************************************************)
EXTENDS Integers, Sequences, SequencesExt

CONSTANTS
    Repos,              \* archive repositories
    Commands,           \* processes that run backup commands
    Keys, Vals,         \* durable keys and their values
    Absent,             \* no value under a key
    Failed,             \* a replay that returns an error
    NoJournal, NoManifest, NoOwner, Idle,
    MaxSegmentCommits,  \* IncrementalExportOptions.max_commits_per_segment
    JournalLimits,      \* values of IncrementalInitOptions.journal_max_commits
    MaxSequence,        \* bound on commits
    MaxChains           \* bound on fresh chains

ASSUME ConstantsAssumption ==
    /\ Absent \notin Vals
    /\ JournalLimits \cup {MaxSegmentCommits, MaxSequence, MaxChains} \subseteq Nat \ {0}

VARIABLES
    history,    \* the contents the database had after each sequence
    journal,    \* BACKUP_CHAIN_STATE, or NoJournal
    retained,   \* BACKUP_JOURNAL: the commits it still holds
    manifest,   \* manifest.json of each repository, or NoManifest
    files,      \* baselines and segments in each repository
    owner,      \* the command that has the database open, or NoOwner
    op,         \* what each command is doing, or Idle
    nextChain   \* the next chain id

vars == <<history, journal, retained, manifest, files, owner, op, nextChain>>

Contents == [Keys -> Vals \cup {Absent}]
HeadSequence == Len(history)
-----------------------------------------------------------------------------
(* Journal commits and archive artifacts.                                  *)

\* PreparedDelta: the keys written, with Absent for a delete record.
Delta(before, after) == [k \in {k \in Keys : before[k] # after[k]} |-> after[k]]

Checksum(parent, sequence, delta) == Append(parent, <<sequence, delta>>)

JournalCommit(parent, sequence, delta) ==
    [sequence |-> sequence, parent |-> parent, delta |-> delta,
     checksum |-> Checksum(parent, sequence, delta)]

Baseline(chain) ==
    [kind |-> "baseline", chain |-> chain, first |-> HeadSequence, last |-> HeadSequence,
     payload |-> <<history[HeadSequence]>>]

Segment(chain, commits) ==
    [kind |-> "segment", chain |-> chain, first |-> commits[1].sequence,
     last |-> Last(commits).sequence, payload |-> commits]

\* verify_segment_commits: sequences and checksums continue from the parent.
Continues(commits, first, parent) ==
    \A i \in DOMAIN commits :
        /\ commits[i].sequence = first + i - 1
        /\ commits[i].parent = IF i = 1 THEN parent ELSE commits[i - 1].checksum
        /\ commits[i].checksum = Checksum(commits[i].parent, commits[i].sequence, commits[i].delta)

Manifest(state, chain, baseline, segments, limit) ==
    [state |-> state, chain |-> chain, baseline |-> baseline, segments |-> segments, limit |-> limit]
InState(m, state, limit) == Manifest(state, m.chain, m.baseline, m.segments, limit)

Artifacts(m) == {m.baseline} \cup Range(m.segments)
RecoverableFirst(m) == m.baseline.first
RecoverableLast(m) == IF m.segments = <<>> THEN m.baseline.last ELSE Last(m.segments).last

ValidManifest(m) ==
    \A i \in DOMAIN m.segments :
        m.segments[i].first = 1 + IF i = 1 THEN m.baseline.last ELSE m.segments[i - 1].last

\* The commits of a list of segments, in order.
Commits(segments) == FlattenSeq([i \in DOMAIN segments |-> segments[i].payload])

\* verify_manifest_artifacts
Verified(m, stored) ==
    /\ Artifacts(m) \subseteq stored
    /\ Continues(Commits(m.segments), m.baseline.first + 1, <<m.baseline>>)

\* apply_delta_frame
Apply(content, commit) ==
    IF content = Failed \/ \E k \in DOMAIN commit.delta :
                              commit.delta[k] = Absent /\ content[k] = Absent
    THEN Failed
    ELSE [k \in Keys |-> IF k \in DOMAIN commit.delta THEN commit.delta[k] ELSE content[k]]

\* An artifact that is missing contributes nothing.
ReplaySkippingMissing(m, stored, at) ==
    LET needed == SelectSeq(m.segments, LAMBDA s : s.first <= at /\ s \in stored)
        commits == SelectSeq(Commits(needed), LAMBDA c : c.sequence <= at)
    IN  FoldLeft(Apply, m.baseline.payload[1], commits)

\* replay_to_sequence
Replay(m, stored, at) ==
    LET needed == SelectSeq(m.segments, LAMBDA s : s.first <= at)
        commits == SelectSeq(Commits(needed), LAMBDA c : c.sequence <= at)
    IN  IF m.baseline \in stored /\ Range(needed) \subseteq stored
           /\ Continues(commits, m.baseline.first + 1, <<m.baseline>>)
           /\ m.baseline.first + Len(commits) = at
        THEN FoldLeft(Apply, m.baseline.payload[1], commits)
        ELSE Failed
-----------------------------------------------------------------------------
(* The database: commits and the transactions on the journal.              *)

Journal(chain, baseline, exported, exportedChecksum, headChecksum, count, limit) ==
    [chain |-> chain, baseline |-> baseline, exported |-> exported,
     exportedChecksum |-> exportedChecksum, headChecksum |-> headChecksum,
     count |-> count, limit |-> limit]

Init ==
    /\ history = <<[k \in Keys |-> Absent]>>   \* the schema is committed, no row yet
    /\ journal = NoJournal /\ retained = <<>>
    /\ manifest = [r \in Repos |-> NoManifest]
    /\ files = [r \in Repos |-> {}]
    /\ owner = NoOwner /\ op = [p \in Commands |-> Idle]
    /\ nextChain = 1

\* The limit is compared with the commits before this one.
HasRoomBefore == journal.count <= journal.limit
HasRoom == journal.count + 1 <= journal.limit

\* The server commits a change; with an active journal its records are part of
\* the transaction, and a journal at its limit refuses the commit.
Commit(content) ==
    /\ owner = NoOwner
    /\ HeadSequence < MaxSequence
    /\ content # history[HeadSequence]
    /\ \/ journal = NoJournal /\ UNCHANGED <<journal, retained>>
       \/ /\ journal # NoJournal
          /\ HasRoom
          /\ LET commit == JournalCommit(journal.headChecksum, HeadSequence + 1, Delta(history[HeadSequence], content))
             IN  /\ journal' = Journal(journal.chain, journal.baseline, journal.exported,
                                       journal.exportedChecksum, commit.checksum,
                                       journal.count + 1, journal.limit)
                 /\ retained' = Append(retained, commit)
    /\ history' = Append(history, content)
    /\ UNCHANGED <<manifest, files, owner, op, nextChain>>

\* enable_backup_journal, for a baseline of the database as it is now
EnableJournal(m, limit) ==
    /\ journal = NoJournal /\ retained = <<>>
    /\ m.baseline.first = HeadSequence
    /\ journal' = Journal(m.chain, m.baseline.first, m.baseline.first,
                          <<m.baseline>>, <<m.baseline>>, 0, limit)
    /\ UNCHANGED retained

DisableJournal == journal' = NoJournal /\ retained' = <<>>

\* The exported checksum stays the one of the previous export.
PruneExportedKeepingChecksum(through, checksum) ==
    /\ through > journal.exported /\ retained # <<>>
    /\ LET prefix == SelectSeq(retained, LAMBDA c : c.sequence <= through)
       IN  /\ journal' = Journal(journal.chain, journal.baseline, through, journal.exportedChecksum,
                                 journal.headChecksum, journal.count - Len(prefix), journal.limit)
           /\ retained' = SubSeq(retained, Len(prefix) + 1, Len(retained))

\* prune_exported_journal: only a retained prefix that ends in the exported
\* checksum is dropped; repeating the last prune changes nothing.
PruneExported(through, checksum) ==
    IF through <= journal.exported
    THEN through = journal.exported /\ checksum = journal.exportedChecksum /\ UNCHANGED <<journal, retained>>
    ELSE /\ retained # <<>>
         /\ retained[1].sequence = journal.exported + 1
         /\ through <= Last(retained).sequence
         /\ LET prefix == SelectSeq(retained, LAMBDA c : c.sequence <= through)
            IN  /\ Last(prefix).checksum = checksum
                /\ journal' = Journal(journal.chain, journal.baseline, through, checksum,
                                      journal.headChecksum, journal.count - Len(prefix), journal.limit)
                /\ retained' = SubSeq(retained, Len(prefix) + 1, Len(retained))
-----------------------------------------------------------------------------
(* Commands.  A command keeps the manifest it read, the one it is about to *)
(* publish, and where it has got to.                                       *)

Op(pc, r, read, work, nested, goal, found) ==
    [pc |-> pc, repo |-> r, read |-> read, work |-> work, nested |-> nested,
     goal |-> goal, found |-> found]
Working(pc, r, read, work) == Op(pc, r, read, work, FALSE, 0, {})

At(p, pc) == op[p] # Idle /\ op[p].pc = pc
Go(p, next) == op' = [op EXCEPT ![p] = next]
Proceed(p, pc, read, work) ==
    Go(p, Op(pc, op[p].repo, read, work, op[p].nested, op[p].goal, {}))

OpenDatabase(p) == owner = NoOwner /\ owner' = p
CloseDatabase(p) == owner' = IF owner = p THEN NoOwner ELSE owner
Finish(p) == Go(p, Idle) /\ CloseDatabase(p)

\* The manifest is replaced whatever it has become since it was read.
PublishBlindly(p, m) == manifest' = [manifest EXCEPT ![op[p].repo] = m]

\* publish_manifest: only over the manifest the command started from.
Publish(p, m) ==
    /\ manifest[op[p].repo] = op[p].read
    /\ ValidManifest(m)
    /\ manifest' = [manifest EXCEPT ![op[p].repo] = m]

WriteFile(r, file) == files' = [files EXCEPT ![r] = @ \cup {file}]

\* reconcile_identity
Reconcile(m, j) ==
    \/ j = NoJournal /\ m.state = "prepared"
    \/ j # NoJournal /\ j.chain = m.chain /\ j.baseline = m.baseline.first

\* Any command may stop after any of its steps: the process is killed, a write
\* fails, or a check refuses to go on and the error is returned.
Stop(p) ==
    /\ op[p] # Idle
    /\ Finish(p)
    /\ UNCHANGED <<history, journal, retained, manifest, files, nextChain>>
-----------------------------------------------------------------------------
(* init                                                                    *)

\* A repository without manifest: a new chain, from a baseline of the database.
InitFresh(p, r) ==
    /\ op[p] = Idle /\ OpenDatabase(p)
    /\ manifest[r] = NoManifest /\ journal = NoJournal
    /\ nextChain <= MaxChains /\ nextChain' = nextChain + 1
    /\ WriteFile(r, Baseline(nextChain))
    /\ Go(p, Working("publish_prepared", r, NoManifest,
                     Manifest("prepared", nextChain, Baseline(nextChain), <<>>, 0)))
    /\ UNCHANGED <<history, journal, retained, manifest>>

\* A repository with a manifest: finish what an earlier command left undone.
InitResume(p, r) ==
    /\ op[p] = Idle /\ OpenDatabase(p)
    /\ manifest[r] # NoManifest
    /\ Verified(manifest[r], files[r]) /\ Reconcile(manifest[r], journal)
    /\ \/ /\ journal = NoJournal
          /\ HeadSequence = manifest[r].baseline.first
          /\ Go(p, Working("enable", r, manifest[r], NoManifest))
       \/ /\ journal # NoJournal
          /\ manifest[r].state = "prepared"
          /\ Go(p, Working("activate", r, manifest[r], NoManifest))
    /\ UNCHANGED <<history, journal, retained, manifest, files, nextChain>>

\* The prepared manifest of init, or of checkpoint (it carries the limit).
PublishPrepared(p) ==
    /\ At(p, "publish_prepared")
    /\ Publish(p, op[p].work)
    /\ Proceed(p, IF op[p].work.limit = 0 THEN "enable" ELSE "finish", op[p].work, NoManifest)
    /\ UNCHANGED <<history, journal, retained, files, owner, nextChain>>

Enable(p) ==
    /\ At(p, "enable")
    /\ \E limit \in JournalLimits : EnableJournal(op[p].read, limit)
    /\ Proceed(p, "activate", op[p].read, NoManifest)
    /\ UNCHANGED <<history, manifest, files, owner, nextChain>>

Activate(p) ==
    /\ At(p, "activate")
    /\ Publish(p, InState(op[p].read, "active", 0))
    /\ Finish(p)
    /\ UNCHANGED <<history, journal, retained, files, nextChain>>
-----------------------------------------------------------------------------
(* export, alone or as the first part of checkpoint                        *)

ExportOpen(p, r) ==
    /\ op[p] = Idle \/ (At(p, "checkpoint_export") /\ op[p].repo = r)
    /\ OpenDatabase(p)
    /\ manifest[r] # NoManifest
    /\ \/ /\ manifest[r].state = "prepared" /\ Reconcile(manifest[r], journal)
          /\ Go(p, Op("export_activate", r, manifest[r], NoManifest, op[p] # Idle, 0, {}))
       \/ /\ manifest[r].state = "active"
          /\ Go(p, Op("export_reconcile", r, manifest[r], NoManifest, op[p] # Idle, 0, {}))
    /\ UNCHANGED <<history, journal, retained, manifest, files, nextChain>>

ExportActivate(p) ==
    /\ At(p, "export_activate")
    /\ LET active == InState(op[p].read, "active", 0)
       IN  Publish(p, active) /\ Proceed(p, "export_reconcile", active, NoManifest)
    /\ UNCHANGED <<history, journal, retained, files, owner, nextChain>>

\* reconcile_exported_prefix: an archive one segment ahead of the journal.
PrefixReconciles(m, j, stored) ==
    \/ j.exported = RecoverableLast(m)
    \/ /\ j.exported < RecoverableLast(m) /\ m.segments # <<>>
       /\ j.exported + 1 = Last(m.segments).first
       /\ {m.baseline, Last(m.segments)} \subseteq stored
       /\ Continues(Last(m.segments).payload, j.exported + 1, j.exportedChecksum)

ExportReconcile(p) ==
    /\ At(p, "export_reconcile")
    /\ journal # NoJournal
    /\ LET m == op[p].read
       IN  /\ PrefixReconciles(m, journal, files[op[p].repo])
           /\ IF journal.exported = RecoverableLast(m) THEN UNCHANGED <<journal, retained>>
              ELSE PruneExported(RecoverableLast(m), Last(Last(m.segments).payload).checksum)
           /\ Proceed(p, "export_select", m, NoManifest)
    /\ UNCHANGED <<history, manifest, files, owner, nextChain>>

\* verify_export_head: the archive ends where the journal says it does.
HeadMatches(m, j, stored) ==
    /\ m.baseline \in stored
    /\ j.exported = RecoverableLast(m)
    /\ IF m.segments = <<>> THEN j.exportedChecksum = <<m.baseline>>
       ELSE /\ Last(m.segments) \in stored
            /\ Last(Last(m.segments).payload).checksum = j.exportedChecksum

\* The end of an export gives the database back; checkpoint opens it again.
ExportDone(p) ==
    /\ CloseDatabase(p)
    /\ Go(p, IF op[p].nested THEN Working("checkpoint_open", op[p].repo, NoManifest, NoManifest) ELSE Idle)

ExportSelect(p) ==
    /\ At(p, "export_select")
    /\ HeadMatches(op[p].read, journal, files[op[p].repo])
    /\ Reconcile(op[p].read, journal)
    /\ LET last == IF retained = <<>> THEN journal.exported ELSE Last(retained).sequence
       IN  \E target \in (IF op[p].nested THEN {last} ELSE 0..last) :
              IF target <= RecoverableLast(op[p].read) THEN ExportDone(p)
              ELSE /\ Go(p, Op("export_write", op[p].repo, op[p].read, NoManifest, op[p].nested, target, {}))
                   /\ UNCHANGED owner
    /\ UNCHANGED <<history, journal, retained, manifest, files, nextChain>>

\* A segment ends at the target or the commit limit, or, when its bytes are too
\* many, at a sequence reached by halving.
WriteSegment(p) ==
    /\ At(p, "export_write")
    /\ LET m == op[p].read
           first == RecoverableLast(m) + 1
       IN  \E through \in first..op[p].goal :
              /\ through < first + MaxSegmentCommits
              /\ retained # <<>> /\ retained[1].sequence = first
              /\ LET segment == Segment(journal.chain,
                                        SelectSeq(retained, LAMBDA c : c.sequence <= through))
                 IN  /\ WriteFile(op[p].repo, segment)
                     /\ Proceed(p, "export_publish", m,
                                Manifest(m.state, m.chain, m.baseline, Append(m.segments, segment), m.limit))
    /\ UNCHANGED <<history, journal, retained, manifest, owner, nextChain>>

PublishSegment(p) ==
    /\ At(p, "export_publish")
    /\ Publish(p, op[p].work)
    /\ Proceed(p, "export_prune", op[p].work, NoManifest)
    /\ UNCHANGED <<history, journal, retained, files, owner, nextChain>>

ExportPrune(p) ==
    /\ At(p, "export_prune")
    /\ LET m == op[p].read
       IN  /\ PruneExported(RecoverableLast(m), Last(Last(m.segments).payload).checksum)
           /\ IF RecoverableLast(m) < op[p].goal
              THEN Proceed(p, "export_write", m, NoManifest) /\ UNCHANGED owner
              ELSE ExportDone(p)
    /\ UNCHANGED <<history, manifest, files, nextChain>>
-----------------------------------------------------------------------------
(* checkpoint: a new baseline, and a journal that starts from it           *)

\* The manifest is read before the database is opened.
StartCheckpoint(p, r) ==
    /\ op[p] = Idle /\ manifest[r] # NoManifest
    /\ IF manifest[r].state = "prepared" /\ manifest[r].limit # 0
       THEN Verified(manifest[r], files[r]) /\ Go(p, Working("resume_open", r, manifest[r], NoManifest))
       ELSE Go(p, Working("checkpoint_export", r, NoManifest, NoManifest))
    /\ UNCHANGED <<history, journal, retained, manifest, files, owner, nextChain>>

\* The baseline is taken whatever the journal still holds.
CheckpointOpenUnexported(p) ==
    /\ At(p, "checkpoint_open") /\ OpenDatabase(p)
    /\ LET old == manifest[op[p].repo]
           baseline == Baseline(old.chain)
       IN  /\ journal # NoJournal /\ Reconcile(old, journal)
           /\ WriteFile(op[p].repo, baseline)
           /\ Proceed(p, "publish_prepared", old,
                      Manifest("prepared", old.chain, baseline, <<>>, journal.limit))
    /\ UNCHANGED <<history, journal, retained, manifest, nextChain>>

CheckpointOpen(p) ==
    /\ At(p, "checkpoint_open") /\ OpenDatabase(p)
    /\ LET old == manifest[op[p].repo]
           baseline == Baseline(old.chain)
       IN  /\ journal # NoJournal /\ Reconcile(old, journal)
           /\ journal.count = 0 /\ journal.exported = HeadSequence
           /\ WriteFile(op[p].repo, baseline)
           /\ Proceed(p, "publish_prepared", old,
                      Manifest("prepared", old.chain, baseline, <<>>, journal.limit))
    /\ UNCHANGED <<history, journal, retained, manifest, nextChain>>

ResumeOpen(p) ==
    /\ At(p, "resume_open") /\ OpenDatabase(p)
    /\ Proceed(p, "finish", op[p].read, NoManifest)
    /\ UNCHANGED <<history, journal, retained, manifest, files, nextChain>>

\* finish_checkpoint, first half: the old journal ends at the new baseline.
FinishDisable(p) ==
    /\ At(p, "finish")
    /\ Verified(op[p].read, files[op[p].repo])
    /\ LET m == op[p].read
       IN  /\ journal # NoJournal /\ journal.baseline # m.baseline.first
           /\ journal.chain = m.chain /\ journal.count = 0 /\ journal.exported = m.baseline.first
           /\ DisableJournal
           /\ Proceed(p, "finish_enable", m, NoManifest)
    /\ UNCHANGED <<history, manifest, files, owner, nextChain>>

\* finish_checkpoint, second half: the journal starts again at the baseline.
FinishEnable(p) ==
    /\ \/ At(p, "finish") /\ Verified(op[p].read, files[op[p].repo])
       \/ At(p, "finish_enable")
    /\ IF journal = NoJournal THEN EnableJournal(op[p].read, op[p].read.limit)
       ELSE Reconcile(op[p].read, journal) /\ UNCHANGED <<journal, retained>>
    /\ Proceed(p, "activate", op[p].read, NoManifest)
    /\ UNCHANGED <<history, manifest, files, owner, nextChain>>
-----------------------------------------------------------------------------
(* disable                                                                 *)

\* The manifest is read before the database is opened.
StartDisable(p, r) ==
    /\ op[p] = Idle /\ manifest[r] # NoManifest
    /\ Verified(manifest[r], files[r])
    /\ Go(p, Working("disable_open", r, manifest[r], NoManifest))
    /\ UNCHANGED <<history, journal, retained, manifest, files, owner, nextChain>>

\* discard stands for --discard-unexported --confirm.
DisableOpen(p, discard) ==
    /\ At(p, "disable_open") /\ OpenDatabase(p)
    /\ \/ /\ journal # NoJournal /\ Reconcile(op[p].read, journal)
          /\ journal.count = 0 \/ discard
          /\ DisableJournal
       \/ /\ journal = NoJournal /\ op[p].read.state = "active"
          /\ UNCHANGED <<journal, retained>>
    /\ Proceed(p, "seal", op[p].read, NoManifest)
    /\ UNCHANGED <<history, manifest, files, nextChain>>

Seal(p) ==
    /\ At(p, "seal")
    /\ Publish(p, InState(op[p].read, "sealed", op[p].read.limit))
    /\ Finish(p)
    /\ UNCHANGED <<history, journal, retained, files, nextChain>>
-----------------------------------------------------------------------------
(* prune and restore: they do not open the database                        *)

\* The bound on before_sequence is the end of the range.
StartPruneToLast(p, r, before) ==
    /\ op[p] = Idle /\ manifest[r] # NoManifest
    /\ before <= RecoverableLast(manifest[r]) + MaxSegmentCommits
    /\ Go(p, Op("prune_scan", r, manifest[r], NoManifest, FALSE, before, {}))
    /\ UNCHANGED <<history, journal, retained, manifest, files, owner, nextChain>>

StartPrune(p, r, before) ==
    /\ op[p] = Idle /\ manifest[r] # NoManifest
    /\ before <= RecoverableFirst(manifest[r])
    /\ Go(p, Op("prune_scan", r, manifest[r], NoManifest, FALSE, before, {}))
    /\ UNCHANGED <<history, journal, retained, manifest, files, owner, nextChain>>

\* find_orphans and the selection by chain and sequence
ScanOrphans(p) ==
    /\ At(p, "prune_scan")
    /\ LET m == op[p].read
           selected == {f \in files[op[p].repo] \ Artifacts(m) : f.chain = m.chain /\ f.last <= op[p].goal}
       IN  /\ selected # {}
           /\ Go(p, Op("prune_remove", op[p].repo, NoManifest, NoManifest, FALSE, 0, selected))
    /\ UNCHANGED <<history, journal, retained, manifest, files, owner, nextChain>>

\* The selected files go one at a time (in any order here); one that another
\* prune has removed is an error.
RemoveFile(p) ==
    /\ At(p, "prune_remove")
    /\ \E f \in op[p].found \cap files[op[p].repo] :
          /\ files' = [files EXCEPT ![op[p].repo] = @ \ {f}]
          /\ Go(p, IF op[p].found = {f} THEN Idle
                   ELSE Op("prune_remove", op[p].repo, NoManifest, NoManifest, FALSE, 0,
                           op[p].found \ {f}))
    /\ UNCHANGED <<history, journal, retained, manifest, owner, nextChain>>

StartRestore(p, r, at) ==
    /\ op[p] = Idle /\ manifest[r] # NoManifest
    /\ at \in RecoverableFirst(manifest[r])..RecoverableLast(manifest[r])
    /\ Go(p, Op("replay", r, manifest[r], NoManifest, FALSE, at, {}))
    /\ UNCHANGED <<history, journal, retained, manifest, files, owner, nextChain>>

\* The target database is published only if the replay succeeds.  Files never
\* change, so reading them one after the other or at once gives the same content.
PublishRestored(p) ==
    /\ At(p, "replay")
    /\ LET content == Replay(op[p].read, files[op[p].repo], op[p].goal)
       IN  /\ content # Failed
           /\ Go(p, Op("restored", op[p].repo, NoManifest, NoManifest, FALSE, op[p].goal, {content}))
    /\ UNCHANGED <<history, journal, retained, manifest, files, owner, nextChain>>
-----------------------------------------------------------------------------
Step(p) ==
    \/ \E r \in Repos :
          \/ InitFresh(p, r) \/ InitResume(p, r) \/ ExportOpen(p, r)
          \/ StartCheckpoint(p, r) \/ StartDisable(p, r)
          \/ \E n \in 1..MaxSequence : StartPrune(p, r, n) \/ StartRestore(p, r, n)
    \/ PublishPrepared(p) \/ Enable(p) \/ Activate(p)
    \/ ExportActivate(p) \/ ExportReconcile(p) \/ ExportSelect(p)
    \/ WriteSegment(p) \/ PublishSegment(p) \/ ExportPrune(p)
    \/ CheckpointOpen(p) \/ ResumeOpen(p) \/ FinishDisable(p) \/ FinishEnable(p)
    \/ \E discard \in BOOLEAN : DisableOpen(p, discard)
    \/ Seal(p) \/ ScanOrphans(p) \/ RemoveFile(p) \/ PublishRestored(p)
    \/ Stop(p)

Next == (\E content \in Contents : Commit(content)) \/ \E p \in Commands : Step(p)

Spec == Init /\ [][Next]_vars
-----------------------------------------------------------------------------
(* Properties.                                                             *)

Archives == {r \in Repos : manifest[r] # NoManifest}
Pcs == {"publish_prepared", "enable", "activate", "export_activate", "export_reconcile",
        "export_select", "export_write", "export_publish", "export_prune", "checkpoint_export",
        "checkpoint_open", "resume_open", "finish", "finish_enable", "disable_open", "seal",
        "prune_scan", "prune_remove", "replay", "restored"}

\* Types, and the bounds of the journal: the number of commits it says it holds
\* is the number it holds and never exceeds journal_max_commits, and only a
\* command at work has the database open.
TypeOK ==
    /\ history \in Seq(Contents) /\ HeadSequence \in 1..MaxSequence
    /\ journal # NoJournal => /\ journal.count = Len(retained)
                              /\ journal.count <= journal.limit
                              /\ journal.chain \in 1..nextChain - 1
    /\ \A r \in Archives : manifest[r].state \in {"prepared", "active", "sealed"}
    /\ \A p \in Commands : op[p] # Idle => op[p].pc \in Pcs /\ op[p].repo \in Repos
    /\ owner # NoOwner => op[owner] # Idle
    /\ nextChain \in 1..MaxChains + 1

\* Whatever commands ran, overlapped or stopped half-way, every sequence a
\* manifest declares recoverable is restored by replay_to_sequence from the
\* files in its repository to what the database contained at that sequence.
RecoverableRangeRestores ==
    \A r \in Archives :
        \A n \in RecoverableFirst(manifest[r])..RecoverableLast(manifest[r]) :
            Replay(manifest[r], files[r], n) = history[n]

\* While a journal is active no commit since its baseline is lost: an archive
\* of its chain reaches at least the exported sequence, and the journal holds
\* every later commit up to the head of the database, in order.
JournalCoversTheRest ==
    journal # NoJournal =>
        /\ \E r \in Archives : /\ manifest[r].chain = journal.chain
                               /\ RecoverableFirst(manifest[r]) <= journal.exported
                               /\ journal.exported <= RecoverableLast(manifest[r])
        /\ journal.exported + Len(retained) = HeadSequence
        /\ Continues(retained, journal.exported + 1, journal.exportedChecksum)
        /\ \A i \in DOMAIN retained :
              retained[i].delta = Delta(history[journal.exported + i - 1], history[journal.exported + i])

\* An interrupted export can always be taken up again: whenever a manifest that
\* is not sealed belongs to the active journal, the checks of
\* reconcile_exported_prefix accept it, and where the journal is not behind so
\* does verify_export_head.
ExportTakesUp ==
    \A r \in Archives :
        (journal # NoJournal /\ Reconcile(manifest[r], journal) /\ manifest[r].state # "sealed")
        => /\ PrefixReconciles(manifest[r], journal, files[r])
           /\ journal.exported = RecoverableLast(manifest[r]) => HeadMatches(manifest[r], journal, files[r])
           /\ journal.exported < RecoverableLast(manifest[r]) =>
                 /\ RecoverableLast(manifest[r]) <= Last(retained).sequence
                 /\ retained[RecoverableLast(manifest[r]) - journal.exported].checksum
                       = Last(Last(manifest[r].segments).payload).checksum

\* A restore that started from a manifest since replaced, its files perhaps
\* pruned, either fails or publishes what the database contained at the
\* requested sequence.
RestoredIsHistory ==
    \A p \in Commands : At(p, "restored") => op[p].found = {history[op[p].goal]}

\* The end of the recoverable range never moves back, its start moves only to
\* the end (checkpoint), and a sealed archive never changes again.
RangeMovesForward ==
    [][\A r \in Archives :
          /\ manifest'[r] # NoManifest
          /\ RecoverableLast(manifest[r]) <= RecoverableLast(manifest'[r])
          /\ RecoverableFirst(manifest'[r]) \in {RecoverableFirst(manifest[r]), RecoverableLast(manifest[r])}
          /\ manifest[r].state = "sealed" => manifest'[r] = manifest[r]]_vars

\* RFC 0016: when the journal is full "operators export or explicitly disable
\* and accept a closed chain"; so with no command at work some archive must
\* pass the identity check that export and disable begin with.
FullJournalCanBeEmptied ==
    (journal # NoJournal /\ journal.count = journal.limit /\ \A p \in Commands : op[p] = Idle)
    => \E r \in Archives : Reconcile(manifest[r], journal)
=============================================================================
