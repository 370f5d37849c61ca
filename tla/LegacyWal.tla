------------------------------ MODULE LegacyWal ------------------------------
(***************************************************************************)
(* The transitional storage of an Engine: a log of request sources (Wal)   *)
(* and a snapshot that replaces its beginning (SnapshotStore), with the    *)
(* places where a write, a sync, a rename or the whole machine may fail.   *)
(*                                                                         *)
(* A file is modelled by what a reader sees now and by the contents that   *)
(* may be found after a loss of power; a sync leaves one of the latter.    *)
(* A request source is a number, a database is the sequence number of its  *)
(* last commit and the sources applied to it, in order.                    *)
(***************************************************************************)
EXTENDS Integers, Sequences, FiniteSets, SequencesExt

CONSTANTS
    MaxSource,        \* bound: requests are numbered 1..MaxSource
    Configurations,   \* how the Engine may be set up, see below
    Torn              \* a last line without its newline

\* prototype: lines without sequence number in the first log;
\* hasSnapshot, every: snapshot path and snapshot_every given to Engine::open.
ASSUME ConstantsAssumption ==
    /\ MaxSource \in Nat
    /\ \A c \in Configurations :
         /\ c \in [prototype : 0..MaxSource, hasSnapshot : BOOLEAN, every : Nat]
         /\ c.every > 0 => c.hasSnapshot

VARIABLES
    wal,         \* log file: a sequence of lines
    walAfter,    \* contents of the log that a loss of power may leave
    snap,        \* snapshot file; a missing one is the empty database
    snapAfter,   \* contents of the snapshot that a loss of power may leave
    pc,          \* where the Engine is
    committed,   \* Engine.committed
    writeFailed, \* Engine.write_failed
    sinceSnap,   \* Engine.writes_since_snapshot
    request,     \* source in execution, 0 for a call of checkpoint
    issued,      \* number of sources that were issued
    config,      \* the configuration in use
    acked,       \* history: sources answered with success
    published    \* history: what the last committed view has applied

files == <<wal, walAfter, snap, snapAfter>>
engine == <<pc, committed, writeFailed, sinceSnap, request>>
history == <<issued, acked, published>>
vars == <<files, engine, history, config>>

Record(n, source) == [sequence |-> n, source |-> source]
Prototype(source) == [sequence |-> 0, source |-> source]   \* a bare line
Database(n, sources) == [sequence |-> n, applied |-> sources]
Empty == Database(0, <<>>)

Init ==
    /\ config \in Configurations
    /\ wal = [i \in 1..config.prototype |-> Prototype(i)] /\ walAfter = {wal}
    /\ snap = Empty /\ snapAfter = {Empty}
    /\ pc = "closed" /\ committed = Empty /\ writeFailed = FALSE
    /\ sinceSnap = 0 /\ request = 0
    /\ issued = config.prototype /\ acked = 1..config.prototype
    /\ published = [i \in 1..config.prototype |-> i]
-----------------------------------------------------------------------------
(* Recovery.                                                               *)

Applied(db, source) == Database(db.sequence + 1, Append(db.applied, source))
Refused == Database(-1, <<>>)

\* Every line is applied, as if all were lines of the prototype.
ReplayLineAsPrototype(watermark, db, line) ==
    IF db = Refused \/ line = Torn THEN Refused ELSE Applied(db, line.source)

\* One line of the log over a database, watermark being the snapshot's sequence.
ReplayLine(watermark, db, line) ==
    IF db = Refused \/ line = Torn THEN Refused
    ELSE IF line.sequence = 0 THEN Applied(db, line.source)
    ELSE IF line.sequence <= watermark THEN db
    ELSE IF line.sequence # db.sequence + 1 THEN Refused
    ELSE Applied(db, line.source)

Replay(s, w) == FoldLeft(LAMBDA db, line : ReplayLine(s.sequence, db, line), s, w)

OpenOver(db, after) ==
    /\ pc = "closed"
    /\ walAfter' = after
    /\ committed' = db
    /\ published' = db.applied
    /\ pc' = "ready" /\ writeFailed' = FALSE /\ sinceSnap' = 0
    /\ UNCHANGED <<wal, snap, snapAfter, request, issued, acked>>

\* The result of the replay is not looked at.
OpenIgnoresRefusal == OpenOver(Replay(snap, wal), {wal})

\* The log is read as it is found.
OpenWithoutSync == Replay(snap, wal) # Refused /\ OpenOver(Replay(snap, wal), walAfter)

\* Engine::open: the log is synced, then read.
Open == Replay(snap, wal) # Refused /\ OpenOver(Replay(snap, wal), {wal})

\* A log that is not accepted in full is left as it is.
OpenRefused ==
    /\ pc = "closed" /\ Replay(snap, wal) = Refused
    /\ walAfter' = {wal}
    /\ UNCHANGED <<wal, snap, snapAfter, engine, history>>

\* The operator removes an incomplete last line, as the error asks.
Repair ==
    /\ pc = "closed" /\ wal # <<>> /\ Last(wal) = Torn
    /\ wal' = Front(wal) /\ walAfter' = {wal'}
    /\ UNCHANGED <<snap, snapAfter, engine, history>>
-----------------------------------------------------------------------------
(* A write.                                                                *)

Line == Record(committed.sequence + 1, issued + 1)

\* The write may also stop half way or before its first byte.
AppendLine ==
    /\ pc = "ready" /\ ~writeFailed /\ issued < MaxSource
    /\ request' = issued + 1 /\ issued' = issued + 1
    /\ \/ wal' = Append(wal, Line) /\ pc' = "syncing" /\ UNCHANGED writeFailed
       \/ wal' \in {wal, Append(wal, Torn)} /\ writeFailed' = TRUE /\ UNCHANGED pc
    /\ walAfter' = walAfter \cup {wal'} \cup (IF wal' = wal THEN {} ELSE {Append(wal, Torn)})
    /\ UNCHANGED <<snap, snapAfter, committed, sinceSnap, acked, published>>

SyncFailed(failed) ==
    /\ pc = "syncing"
    /\ writeFailed' = failed /\ pc' = "ready"
    /\ UNCHANGED <<files, committed, sinceSnap, request, history>>

\* The failure is reported, and the Engine goes on.
SyncFailsAndWritesGoOn == SyncFailed(FALSE)

\* The record may or may not be on disk: no view, no further write.
SyncFails == SyncFailed(TRUE)

Respond ==
    /\ pc' = "ready"
    /\ acked' = acked \cup ({request} \ {0})

\* Wal::append has returned: the view is published, then a checkpoint may be due.
SyncLine ==
    /\ pc = "syncing"
    /\ walAfter' = {wal}
    /\ committed' = Applied(committed, request)
    /\ published' = committed'.applied
    /\ sinceSnap' = sinceSnap + 1
    /\ IF config.every > 0 /\ sinceSnap' >= config.every
       THEN pc' = "saving" /\ UNCHANGED acked
       ELSE Respond
    /\ UNCHANGED <<wal, snap, snapAfter, writeFailed, request, issued>>
-----------------------------------------------------------------------------
(* Checkpoint, called by a write or by the owner of the Engine.            *)

Checkpoint ==
    /\ pc = "ready" /\ ~writeFailed /\ config.hasSnapshot
    /\ pc' = "saving" /\ request' = 0
    /\ UNCHANGED <<files, committed, writeFailed, sinceSnap, history>>

\* The temporary file is synced, read back and renamed.
RenameSnapshot ==
    /\ pc = "saving"
    /\ snap' = committed /\ snapAfter' = snapAfter \cup {committed}
    /\ pc' = "renamed"
    /\ UNCHANGED <<wal, walAfter, committed, writeFailed, sinceSnap, request, history>>

\* The log is emptied without waiting for the directory.
TruncateBeforeDirectorySync ==
    /\ pc = "renamed"
    /\ pc' = "truncating"
    /\ UNCHANGED <<files, committed, writeFailed, sinceSnap, request, history>>

SyncDirectory ==
    /\ pc = "renamed"
    /\ snapAfter' = {snap}
    /\ pc' = "truncating"
    /\ UNCHANGED <<wal, walAfter, snap, committed, writeFailed, sinceSnap, request, history>>

Truncate ==
    /\ pc = "truncating"
    /\ wal' = <<>> /\ walAfter' = walAfter \cup {<<>>}
    /\ pc' = "truncated"
    /\ UNCHANGED <<snap, snapAfter, committed, writeFailed, sinceSnap, request, history>>

SyncTruncated ==
    /\ pc = "truncated"
    /\ walAfter' = {wal}
    /\ sinceSnap' = 0
    /\ Respond
    /\ UNCHANGED <<wal, snap, snapAfter, committed, writeFailed, request, issued, published>>

\* Any step of the checkpoint fails: for a write it is only a warning.
CheckpointFails ==
    /\ pc \in {"saving", "renamed", "truncating", "truncated"}
    /\ Respond
    /\ UNCHANGED <<files, committed, writeFailed, sinceSnap, request, issued, published>>
-----------------------------------------------------------------------------
(* The process ends, or the machine stops.                                 *)

Down ==
    /\ pc' = "closed" /\ committed' = Empty /\ writeFailed' = FALSE
    /\ sinceSnap' = 0 /\ request' = 0
    /\ UNCHANGED history

ProcessEnds == pc # "closed" /\ Down /\ UNCHANGED files

PowerLoss ==
    /\ Down
    /\ wal' \in walAfter /\ walAfter' = {wal'}
    /\ snap' \in snapAfter /\ snapAfter' = {snap'}

Next ==
    /\ \/ Open \/ OpenRefused \/ Repair
       \/ AppendLine \/ SyncLine \/ SyncFails
       \/ Checkpoint \/ RenameSnapshot \/ SyncDirectory \/ Truncate \/ SyncTruncated
       \/ CheckpointFails
       \/ ProcessEnds \/ PowerLoss
    /\ UNCHANGED config

Spec == Init /\ [][Next]_vars
-----------------------------------------------------------------------------
(* Properties.                                                             *)

Lines == [sequence : 0..MaxSource, source : 1..MaxSource] \cup {Torn}
IsDatabase(db) == db.sequence \in 0..MaxSource /\ db.applied \in Seq(1..MaxSource)

TypeOK ==
    /\ config \in Configurations
    /\ wal \in Seq(Lines) /\ walAfter \subseteq Seq(Lines)
    /\ IsDatabase(snap) /\ \A s \in snapAfter : IsDatabase(s)
    /\ pc \in {"closed", "ready", "syncing", "saving", "renamed", "truncating", "truncated"}
    /\ IsDatabase(committed) /\ writeFailed \in BOOLEAN
    /\ sinceSnap \in 0..MaxSource /\ request \in 0..MaxSource
    /\ issued \in 0..MaxSource /\ acked \subseteq 1..MaxSource
    /\ published \in Seq(1..MaxSource)

\* The log as the operator repairs it.
Repaired(w) == IF w # <<>> /\ Last(w) = Torn THEN Front(w) ELSE w

\* Every database that a restart may find: files as they are, or as a loss of
\* power at this moment may leave them.
Recoverable ==
    {Replay(s, Repaired(w)) : s \in snapAfter \cup {snap}, w \in walAfter \cup {wal}}

\* Nothing but an incomplete last line ever refuses an open: whatever snapshot
\* is found beside whatever log, the sequence numbers of the log continue it.
OnlyTornTailRefused == Refused \notin Recoverable

\* A request that was answered with success is part of every database a restart
\* may find, between all steps of writes and checkpoints and after any failure
\* of them.
AcknowledgedIsRecoverable ==
    \A db \in Recoverable : acked \subseteq ToSet(db.applied)

\* A restart applies every request at most once, although the log may still
\* hold requests that the snapshot contains.
AppliedOnce ==
    \A db \in Recoverable \cup {committed} : IsInjective(db.applied)

\* What a reader has seen is never taken back or reordered: each view extends
\* the view before it, across restarts, uncertain appends and loss of power.
PublishedNeverShrinks == [][IsPrefix(published, published')]_published
=============================================================================
