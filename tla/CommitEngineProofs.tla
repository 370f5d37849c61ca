------------------------- MODULE CommitEngineProofs -------------------------
(***************************************************************************)
(* Proofs about CommitEngine for every set of keys, digests and readers,   *)
(* every capacity and every bound.  Except where a theorem says otherwise  *)
(* the storage may show every failure but "integrity_view".                *)
(***************************************************************************)
EXTENDS CommitEngine, TLAPS

Call == [stage : {"staged", "landed"}, full : BOOLEAN, key : Keys \cup {NoKey}, candidate : Database]

LEMMA WithOwnRows ==
    ASSUME NEW database \in Database
    PROVE  WithRows(database, database.rows) = database
  BY DEF WithRows, Database

LEMMA StoredIsCandidate ==
    ASSUME TypeOK, call \in Call, disk = view
    PROVE  Stored(call) = call.candidate
<1>1. call.candidate \in Database /\ disk \in Database
  BY DEF TypeOK, Call
<1>2. \A k \in Keys \cup {NoKey} : disk.rows[k] + (call.candidate.rows[k] - view.rows[k]) = call.candidate.rows[k]
  BY <1>1 DEF Database
<1>3. [k \in Keys \cup {NoKey} |-> disk.rows[k] + (call.candidate.rows[k] - view.rows[k])] = call.candidate.rows
  BY <1>1, <1>2 DEF Database
<1> QED BY <1>1, <1>3, WithOwnRows DEF Stored

-----------------------------------------------------------------------------
(* Types: these hold whatever the storage does *)

\* A call runs in an open Engine.  Its candidate only adds executions to the
\* view it was built from, and that of an idempotent request has its receipt.
CandidateAdds ==
    call # NoCall =>
        /\ up
        /\ \A k \in Keys \cup {NoKey} : view.rows[k] <= call.candidate.rows[k]
        /\ call.key # NoKey => call.candidate.receipts[call.key] # NoReceipt

Typing == TypeOK /\ CandidateAdds

LEMMA StoredType ==
    ASSUME Typing, call # NoCall
    PROVE  Stored(call) \in Database
<1>1. call.candidate \in Database /\ disk \in Database /\ view \in Database
  BY DEF Typing, TypeOK
<1>2. \A k \in Keys \cup {NoKey} : disk.rows[k] + (call.candidate.rows[k] - view.rows[k]) \in Nat
  BY <1>1 DEF Database, Typing, CandidateAdds
<1> QED BY <1>1, <1>2 DEF Stored, WithRows, Database

LEMMA WriteType ==
    ASSUME TypeOK, NEW database \in Database, Write(database)
    PROVE  /\ disk' \in Database
           /\ commits' \in Seq(Database)
           /\ pruned' \in [Keys -> Nat]
  BY DEF TypeOK, Write

LEMMA StageType ==
    ASSUME Typing, NEW rows \in [Keys \cup {NoKey} -> Nat],
           \A k \in Keys \cup {NoKey} : view.rows[k] <= rows[k],
           NEW receipts \in [Keys -> Receipt \cup {NoReceipt}],
           NEW full \in BOOLEAN, NEW key \in Keys \cup {NoKey},
           key # NoKey => receipts[key] # NoReceipt,
           Stage(rows, receipts, full, key)
    PROVE  Typing'
<1>1. view.sequence + 1 \in 0 .. MaxSequence
  BY ConstantsAssumption DEF Typing, TypeOK, Database, Stage
<1>2. [sequence |-> view.sequence + 1, rows |-> rows, receipts |-> receipts] \in Database
  BY <1>1 DEF Database
<1>3. call' \in Call
  BY <1>2 DEF Stage, Call
<1>4. CandidateAdds'
  BY DEF Stage, MutationAllowed, Idle, CandidateAdds, engineVars
<1>5. TypeOK'
  BY <1>3 DEF Typing, TypeOK, Stage, Call, engineVars, historyVars
<1> QED BY <1>4, <1>5 DEF Typing

LEMMA ExecutedType ==
    ASSUME TypeOK, NEW key \in Keys \cup {NoKey}
    PROVE  /\ Executed(key) \in [Keys \cup {NoKey} -> Nat]
           /\ \A k \in Keys \cup {NoKey} : view.rows[k] <= Executed(key)[k]
<1>1. view.rows \in [Keys \cup {NoKey} -> Nat]
  BY DEF TypeOK, Database
<1> QED BY <1>1 DEF Executed

LEMMA TypingHolds == Spec => []Typing
<1>1. Init => Typing
  <2>1. EmptyDatabase \in Database
    BY ConstantsAssumption DEF EmptyDatabase, Database, NoRows
  <2>2. <<>> \in Seq(Database)
    OBVIOUS
  <2>3. [r \in Readers |-> NoSnapshot] \in [Readers -> [reopen : BOOLEAN, database : Database] \cup {NoSnapshot}]
    OBVIOUS
  <2>4. [k \in Keys |-> 0] \in [Keys -> Nat]
    OBVIOUS
  <2>5. Init => CandidateAdds
    BY DEF Init, CandidateAdds
  <2>6. Init => TypeOK
    BY <2>1, <2>2, <2>3, <2>4, Zenon DEF Init, TypeOK
  <2> QED BY <2>5, <2>6 DEF Typing
<1>2. Typing /\ [Next]_vars => Typing'
  <2> SUFFICES ASSUME Typing, [Next]_vars PROVE Typing'
    OBVIOUS
  <2> USE DEF engineVars, historyVars
  <2>0. view \in Database /\ disk \in Database /\ NoRows \in [Keys \cup {NoKey} -> Nat]
    BY DEF Typing, TypeOK, NoRows
  <2>1. ASSUME NEW full \in BOOLEAN, ExecutePlain(full) PROVE Typing'
    <3>1. view.receipts \in [Keys -> Receipt \cup {NoReceipt}]
      BY <2>0 DEF Database
    <3>2. Stage(Executed(NoKey), view.receipts, full, NoKey)
      BY <2>1 DEF ExecutePlain
    <3>3. /\ Executed(NoKey) \in [Keys \cup {NoKey} -> Nat]
          /\ \A k \in Keys \cup {NoKey} : view.rows[k] <= Executed(NoKey)[k]
      BY ExecutedType DEF Typing
    <3> QED BY <3>1, <3>2, <3>3, StageType, ZenonT(40)
  <2>2. ASSUME NEW k \in Keys, NEW d \in Digests, NEW full \in BOOLEAN, ExecuteIdempotent(k, d, full)
        PROVE Typing'
    <3>1. view.sequence + 1 \in 1 .. MaxSequence
      BY <2>0, <2>2, ConstantsAssumption DEF ExecuteIdempotent, Stage, Database
    <3>2. [view.receipts EXCEPT ![k] = [digest |-> d, committed_sequence |-> view.sequence + 1]]
             \in [Keys -> Receipt \cup {NoReceipt}]
      BY <2>0, <3>1 DEF Database, Receipt
    <3>3. [digest |-> d, committed_sequence |-> view.sequence + 1] # NoReceipt
      BY <3>1, ConstantsAssumption DEF Receipt
    <3> DEFINE receipts == [view.receipts EXCEPT ![k] = [digest |-> d, committed_sequence |-> view.sequence + 1]]
    <3>4. receipts[k] # NoReceipt
      BY <2>0, <3>3 DEF Database
    <3>5. Stage(Executed(k), receipts, full, k)
      BY <2>2 DEF ExecuteIdempotent
    <3> HIDE DEF receipts
    <3> QED BY <3>2, <3>4, <3>5, ExecutedType, StageType, ZenonT(40) DEF receipts, Typing
  <2>3. ASSUME NEW k \in Keys, NEW d \in Digests, Replay(k, d) PROVE Typing'
    <3>1. view.receipts[k] \in Receipt
      BY <2>0, <2>3 DEF Replay, Database
    <3>2. Acknowledgement(k, view.receipts[k]) \in Ack
      BY <3>1 DEF Acknowledgement, Receipt, Ack
    <3> QED BY <2>3, <3>2 DEF Replay, Typing, TypeOK, CandidateAdds
  <2>4. ASSUME NEW early, NEW through, NEW max, PruneReceipts(early, through, max) PROVE Typing'
    <3> DEFINE kept == [k \in Keys |-> IF k \in Selection(early, through, max)
                                        THEN NoReceipt ELSE view.receipts[k]]
    <3>1. kept \in [Keys -> Receipt \cup {NoReceipt}]
      BY <2>0 DEF Database
    <3>2. view.rows \in [Keys \cup {NoKey} -> Nat] /\ \A k \in Keys \cup {NoKey} : view.rows[k] <= view.rows[k]
      BY <2>0 DEF Database
    <3>3. Stage(view.rows, kept, TRUE, NoKey)
      BY <2>4, ZenonT(40) DEF PruneReceipts
    <3> HIDE DEF kept
    <3> QED BY <3>1, <3>2, <3>3, StageType, ZenonT(40)
  <2>5. CASE CommitSucceeds
    <3>1. call # NoCall
      BY <2>5 DEF CommitSucceeds, NoCall
    <3>2. disk' \in Database /\ commits' \in Seq(Database) /\ pruned' \in [Keys -> Nat]
      BY <2>5, <3>1, StoredType, WriteType DEF CommitSucceeds, Typing, TypeOK
    <3> QED BY <2>5, <3>1, <3>2 DEF CommitSucceeds, Typing, TypeOK, CandidateAdds
  <2>6. ASSUME NEW landed \in BOOLEAN, CommitIsUncertain(landed) PROVE Typing'
    <3>1. call # NoCall
      BY <2>6 DEF CommitIsUncertain, NoCall
    <3>2. disk' \in Database /\ commits' \in Seq(Database) /\ pruned' \in [Keys -> Nat]
      BY <2>6, <3>1, StoredType, WriteType DEF CommitIsUncertain, Typing, TypeOK
    <3> QED BY <2>6, <3>1, <3>2, ZenonT(40) DEF CommitIsUncertain, Typing, TypeOK, CandidateAdds
  <2>7. CASE PublishView
    <3>1. call \in Call
      BY <2>7 DEF PublishView, NoCall, Typing, TypeOK, Call
    <3>2. view' \in Database
      BY <2>0, <2>7, <3>1 DEF PublishView, WithRows, Database, Call
    <3>3. ASSUME call.key # NoKey
          PROVE  Acknowledgement(call.key, call.candidate.receipts[call.key]) \in Ack
      <4>1. call.key \in Keys /\ call.candidate \in Database
        BY <3>1, <3>3 DEF Call
      <4>2. call.candidate.receipts[call.key] \in Receipt
        BY <2>7, <3>3, <4>1 DEF PublishView, NoCall, Typing, CandidateAdds, Database
      <4> QED BY <4>1, <4>2 DEF Acknowledgement, Receipt, Ack
    <3>4. acks' \subseteq Ack
      BY <2>7, <3>3 DEF PublishView, Typing, TypeOK
    <3> QED BY <2>7, <3>2, <3>4 DEF PublishView, Typing, TypeOK, CandidateAdds
  <2>8. CASE CommitDefinitelyFails \/ PublishViewFails
    BY <2>8, ZenonT(40) DEF CommitDefinitelyFails, PublishViewFails, ReopenRequired, Typing, TypeOK, CandidateAdds
  <2>12. CASE Crash
    BY <2>12, ZenonT(40) DEF Crash, Typing, TypeOK, CandidateAdds
  <2>13. CASE OpenRedb
    BY <2>0, <2>13, ZenonT(40) DEF OpenRedb, Typing, TypeOK, CandidateAdds
  <2>9. CASE CheckIntegrity \/ CheckIntegrityViewFails \/ CompactStorage \/ CompactStorageFails
    <3>1. WithRows(disk, NoRows) \in Database /\ WithRows(view, NoRows) \in Database
      BY <2>0 DEF WithRows, Database
    <3> QED BY <2>0, <2>9, <3>1, ZenonT(40) DEF CheckIntegrity, CheckIntegrityViewFails, CompactStorage,
               CompactStorageFails, ReopenRequired, Idle, Typing, TypeOK, CandidateAdds
  <2>10. ASSUME NEW r \in Readers, ReadSnapshot(r) \/ ReleaseSnapshot(r) PROVE Typing'
    <3>1. [reopen |-> read_reopen_required, database |-> view] \in [reopen : BOOLEAN, database : Database]
      BY <2>0 DEF Typing, TypeOK
    <3>2. snapshot' \in [Readers -> [reopen : BOOLEAN, database : Database] \cup {NoSnapshot}]
      BY <2>10, <3>1 DEF ReadSnapshot, ReleaseSnapshot, Typing, TypeOK
    <3> QED BY <2>10, <3>2 DEF ReadSnapshot, ReleaseSnapshot, Typing, TypeOK, CandidateAdds
  <2>11. CASE UNCHANGED vars
    BY <2>11 DEF vars, Typing, TypeOK, CandidateAdds
  <2> QED BY <2>1, <2>2, <2>3, <2>4, <2>5, <2>6, <2>7, <2>8, <2>9, <2>10, <2>11, <2>12, <2>13 DEF Next
<1> QED BY <1>1, <1>2, PTL DEF Spec

\* Every variable keeps the type the code gives it, through every failure.
THEOREM TypeCorrect == Spec => []TypeOK
  BY TypingHolds, PTL DEF Typing

-----------------------------------------------------------------------------
(* Engine and file *)

\* The flags of an open Engine agree: the handle is given up exactly when writes
\* are, and reads are never stopped alone.
FlagsAgree == up => (durable <=> ~write_failed) /\ (read_reopen_required => write_failed)

\* A call in flight belongs to a healthy Engine.  Until its transaction the
\* view is the stored state; after it the stored state is the candidate.
CallInProgress ==
    call # NoCall =>
        /\ up /\ ~write_failed
        /\ call.candidate.sequence = view.sequence + 1
        /\ call.stage = "staged" => disk = view
        /\ call.stage = "landed" => disk = call.candidate

\* The part of the inductive invariant that couples Engine and file.
Coupling == Typing /\ FlagsAgree /\ CallInProgress /\ ViewIsCurrent

\* The two transitions of the file: it is left alone, or it takes the staged
\* candidate of a healthy Engine.
FileUnchanged == UNCHANGED <<disk, commits, pruned>>
FileTakesCandidate ==
    /\ call # NoCall /\ call.stage = "staged"
    /\ Write(call.candidate)

LEMMA FileSteps ==
    ASSUME Coupling, [Next]_vars
    PROVE  FileUnchanged \/ FileTakesCandidate
<1> USE DEF Coupling, Typing
<1>1. call # NoCall => call \in Call
  BY DEF TypeOK, Call
<1>2. CASE CommitSucceeds
  <2>1. call # NoCall /\ disk = view
    BY <1>2 DEF CommitSucceeds, NoCall, CallInProgress
  <2>2. Stored(call) = call.candidate
    BY <1>1, <2>1, StoredIsCandidate
  <2> QED BY <1>2, <2>1, <2>2 DEF CommitSucceeds, FileUnchanged, FileTakesCandidate
<1>3. CASE \E landed \in BOOLEAN : CommitIsUncertain(landed)
  <2>1. call # NoCall /\ disk = view
    BY <1>3 DEF CommitIsUncertain, NoCall, CallInProgress
  <2>2. Stored(call) = call.candidate
    BY <1>1, <2>1, StoredIsCandidate
  <2> QED BY <1>3, <2>1, <2>2 DEF CommitIsUncertain, FileUnchanged, FileTakesCandidate
<1>4. ASSUME NEW k \in Keys, NEW d \in Digests, NEW full \in BOOLEAN, ExecuteIdempotent(k, d, full)
      PROVE FileUnchanged
  BY <1>4 DEF ExecuteIdempotent, Stage, historyVars, FileUnchanged
<1>5. ASSUME NEW full \in BOOLEAN, ExecutePlain(full)
      PROVE FileUnchanged
  BY <1>5 DEF ExecutePlain, Stage, historyVars, FileUnchanged
<1>6. ASSUME NEW early, NEW through, NEW max, PruneReceipts(early, through, max)
      PROVE FileUnchanged
  BY <1>6 DEF PruneReceipts, Stage, historyVars, FileUnchanged
<1>7. ASSUME NEW k, NEW d, Replay(k, d)
      PROVE FileUnchanged
  BY <1>7 DEF Replay, FileUnchanged
<1>8. CASE \/ CommitDefinitelyFails \/ PublishView \/ PublishViewFails
           \/ CheckIntegrity \/ CheckIntegrityViewFails \/ CompactStorage \/ CompactStorageFails
           \/ Crash \/ OpenRedb \/ UNCHANGED vars
  BY <1>8 DEF CommitDefinitelyFails, PublishView, PublishViewFails, CheckIntegrity, CheckIntegrityViewFails,
              CompactStorage, CompactStorageFails, Crash, OpenRedb, historyVars, vars, FileUnchanged
<1>9. CASE \E r \in Readers : ReadSnapshot(r) \/ ReleaseSnapshot(r)
  BY <1>9 DEF ReadSnapshot, ReleaseSnapshot, historyVars, FileUnchanged
<1> QED BY <1>2, <1>3, <1>4, <1>5, <1>6, <1>7, <1>8, <1>9 DEF Next

LEMMA CouplingHolds ==
    ASSUME "integrity_view" \notin Faults
    PROVE  Spec => []Coupling
<1>1. Init => FlagsAgree /\ CallInProgress /\ ViewIsCurrent
  BY DEF Init, FlagsAgree, CallInProgress, ViewIsCurrent
<1>2. Coupling /\ [Next]_vars => (FlagsAgree /\ CallInProgress /\ ViewIsCurrent)'
  <2> SUFFICES ASSUME Coupling, [Next]_vars
               PROVE  (FlagsAgree /\ CallInProgress /\ ViewIsCurrent)'
    OBVIOUS
  <2> USE DEF engineVars, historyVars, Coupling, Typing, FlagsAgree, CallInProgress, ViewIsCurrent, Idle
  <2>0. call # NoCall => call \in Call
    BY DEF TypeOK, Call
  <2>1. ASSUME NEW rows, NEW receipts, NEW full, NEW key, Stage(rows, receipts, full, key)
        PROVE  (FlagsAgree /\ CallInProgress /\ ViewIsCurrent)'
    BY <2>1 DEF Stage, MutationAllowed, NoCall
  <2>2. ASSUME NEW full \in BOOLEAN, ExecutePlain(full)
        PROVE  (FlagsAgree /\ CallInProgress /\ ViewIsCurrent)'
    BY <2>1, <2>2 DEF ExecutePlain
  <2>3. ASSUME NEW k \in Keys, NEW d \in Digests, NEW full \in BOOLEAN, ExecuteIdempotent(k, d, full)
        PROVE  (FlagsAgree /\ CallInProgress /\ ViewIsCurrent)'
    BY <2>1, <2>3 DEF ExecuteIdempotent
  <2>4. ASSUME NEW early, NEW through, NEW max, PruneReceipts(early, through, max)
        PROVE  (FlagsAgree /\ CallInProgress /\ ViewIsCurrent)'
    BY <2>1, <2>4, ZenonT(40) DEF PruneReceipts
  <2>5. ASSUME NEW k, NEW d, Replay(k, d)
        PROVE  (FlagsAgree /\ CallInProgress /\ ViewIsCurrent)'
    BY <2>5 DEF Replay
  <2>6. CASE CommitSucceeds
    <3>1. call \in Call /\ durable /\ disk = view
      BY <2>0, <2>6 DEF CommitSucceeds, NoCall
    <3>2. disk' = call.candidate
      BY <2>6, <3>1, StoredIsCandidate DEF CommitSucceeds, Write
    <3> QED BY <2>6, <3>1, <3>2 DEF CommitSucceeds, Call, NoCall
  <2>7. ASSUME NEW landed \in BOOLEAN, CommitIsUncertain(landed)
        PROVE  (FlagsAgree /\ CallInProgress /\ ViewIsCurrent)'
    BY <2>7 DEF CommitIsUncertain, TypeOK
  <2>8. CASE PublishView
    <3>1. call \in Call /\ durable /\ disk = call.candidate
      BY <2>0, <2>8 DEF PublishView, NoCall
    <3>2. view' = disk
      BY <2>8, <3>1, WithOwnRows DEF PublishView, Call
    <3> QED BY <2>8, <3>1, <3>2 DEF PublishView
  <2>9. CASE CommitDefinitelyFails \/ PublishViewFails \/ Crash \/ OpenRedb
    BY <2>9 DEF CommitDefinitelyFails, PublishViewFails, ReopenRequired, Crash, OpenRedb, NoCall, CandidateAdds
  <2>10. CASE CheckIntegrity \/ CheckIntegrityViewFails \/ CompactStorage \/ CompactStorageFails
    BY <2>10 DEF CheckIntegrity, CheckIntegrityViewFails, CompactStorage, CompactStorageFails, ReopenRequired
  <2>11. CASE \E r \in Readers : ReadSnapshot(r) \/ ReleaseSnapshot(r)
    BY <2>11 DEF ReadSnapshot, ReleaseSnapshot
  <2>12. CASE UNCHANGED vars
    BY <2>12 DEF vars
  <2> QED BY <2>2, <2>3, <2>4, <2>5, <2>6, <2>7, <2>8, <2>9, <2>10, <2>11, <2>12 DEF Next
<1> QED BY <1>1, <1>2, TypingHolds, PTL DEF Spec, Coupling

\* Between two calls a healthy Engine has published exactly what its file holds.
THEOREM ViewStaysCurrent ==
    ASSUME "integrity_view" \notin Faults
    PROVE  Spec => []ViewIsCurrent
  BY CouplingHolds, PTL DEF Coupling

-----------------------------------------------------------------------------
(* The history of the file *)

History ==
    /\ SequenceCountsCommits
    /\ disk = IF commits = <<>> THEN EmptyDatabase ELSE commits[Len(commits)]

\* The committed states are only ever appended to.
LEMMA CommitsGrow ==
    ASSUME Coupling, [Next]_vars
    PROVE  /\ Len(commits) <= Len(commits')
           /\ \A n \in 1 .. Len(commits) : commits'[n] = commits[n]
<1>1. commits \in Seq(Database)
  BY DEF Coupling, Typing, TypeOK
<1>2. call # NoCall => call.candidate \in Database
  BY DEF Coupling, Typing, TypeOK
<1> QED BY <1>1, <1>2, FileSteps DEF FileUnchanged, FileTakesCandidate, Write

LEMMA HistoryHolds ==
    ASSUME "integrity_view" \notin Faults
    PROVE  Spec => []History
<1>1. Init => History
  BY DEF Init, History, SequenceCountsCommits, EmptyDatabase
<1>2. Coupling /\ History /\ [Next]_vars => History'
  <2> SUFFICES ASSUME Coupling, History, [Next]_vars PROVE History'
    OBVIOUS
  <2>1. commits \in Seq(Database)
    BY DEF Coupling, Typing, TypeOK
  <2>2. CASE FileUnchanged
    BY <2>2 DEF FileUnchanged, History, SequenceCountsCommits
  <2>3. CASE FileTakesCandidate
    <3>1. call.candidate \in Database /\ call.candidate.sequence = disk.sequence + 1
      BY <2>3 DEF FileTakesCandidate, Coupling, Typing, TypeOK, CallInProgress
    <3>2. disk' = call.candidate /\ commits' = Append(commits, call.candidate)
      BY <2>3 DEF FileTakesCandidate, Write
    <3>3. Len(commits') = Len(commits) + 1 /\ commits'[Len(commits) + 1] = call.candidate /\ commits' # <<>>
      BY <2>1, <3>1, <3>2
    <3>4. \A n \in 1 .. Len(commits) : commits'[n] = commits[n]
      BY <2>1, <3>1, <3>2
    <3> QED BY <2>1, <3>1, <3>2, <3>3, <3>4 DEF History, SequenceCountsCommits
  <2> QED BY <2>2, <2>3, FileSteps
<1> QED BY <1>1, <1>2, CouplingHolds, PTL DEF Spec

\* No commit of the file is lost and none is numbered twice.
THEOREM SequencesCount ==
    ASSUME "integrity_view" \notin Faults
    PROVE  Spec => []SequenceCountsCommits
  BY HistoryHolds, PTL DEF History

\* What a step may do to a view that can be read: leave it, or read it from the file.
LEMMA ViewSteps ==
    ASSUME "integrity_view" \notin Faults, Coupling, [Next]_vars, up', ~read_reopen_required'
    PROVE  view' = disk' \/ (up /\ ~read_reopen_required /\ view' = view)
<1> USE DEF engineVars
<1>1. ASSUME NEW k \in Keys, NEW d \in Digests, NEW full \in BOOLEAN, ExecuteIdempotent(k, d, full)
      PROVE up /\ ~read_reopen_required /\ view' = view
  BY <1>1 DEF ExecuteIdempotent, Stage
<1>2. ASSUME NEW full \in BOOLEAN, ExecutePlain(full)
      PROVE up /\ ~read_reopen_required /\ view' = view
  BY <1>2 DEF ExecutePlain, Stage
<1>3. ASSUME NEW early, NEW through, NEW max, PruneReceipts(early, through, max)
      PROVE up /\ ~read_reopen_required /\ view' = view
  BY <1>3 DEF PruneReceipts, Stage
<1>4. ASSUME NEW k, NEW d, Replay(k, d)
      PROVE up /\ ~read_reopen_required /\ view' = view
  BY <1>4 DEF Replay
<1>5. CASE PublishView
  <2>1. call \in Call /\ durable /\ disk = call.candidate
    BY <1>5 DEF PublishView, NoCall, Coupling, Typing, TypeOK, Call, CallInProgress, FlagsAgree
  <2> QED BY <1>5, <2>1, WithOwnRows DEF PublishView, Call
<1>6. CASE \/ CommitSucceeds \/ CommitDefinitelyFails \/ PublishViewFails
           \/ CheckIntegrity \/ CheckIntegrityViewFails \/ CompactStorage \/ CompactStorageFails
           \/ Crash \/ OpenRedb \/ UNCHANGED vars
  BY <1>6, ZenonT(40) DEF CommitSucceeds, CommitDefinitelyFails, PublishViewFails, CheckIntegrity, CheckIntegrityViewFails,
              CompactStorage, CompactStorageFails, ReopenRequired, Crash, OpenRedb, vars
<1>7. CASE \E landed \in BOOLEAN : CommitIsUncertain(landed)
  BY <1>7 DEF CommitIsUncertain
<1>8. CASE \E r \in Readers : ReadSnapshot(r) \/ ReleaseSnapshot(r)
  BY <1>8, ZenonT(40) DEF ReadSnapshot, ReleaseSnapshot
<1> QED BY <1>1, <1>2, <1>3, <1>4, <1>5, <1>6, <1>7, <1>8 DEF Next

\* A snapshot is captured from the live view, and then left alone.
LEMMA SnapshotSteps ==
    ASSUME Typing, [Next]_vars, NEW r \in Readers, snapshot'[r] # NoSnapshot, ~snapshot'[r].reopen
    PROVE  snapshot'[r] = snapshot[r] \/ (up /\ ~read_reopen_required /\ snapshot'[r].database = view)
<1>0. snapshot \in [Readers -> [reopen : BOOLEAN, database : Database] \cup {NoSnapshot}]
  BY DEF Typing, TypeOK
<1>1. ASSUME NEW q \in Readers, ReadSnapshot(q) \/ ReleaseSnapshot(q)
      PROVE  snapshot'[r] = snapshot[r] \/ (up /\ ~read_reopen_required /\ snapshot'[r].database = view)
  BY <1>0, <1>1 DEF ReadSnapshot, ReleaseSnapshot, Idle
<1>2. CASE \E q \in Readers : ReadSnapshot(q) \/ ReleaseSnapshot(q)
  BY <1>1, <1>2
<1>3. CASE \/ \E full \in BOOLEAN : ExecutePlain(full)
           \/ \E k \in Keys, d \in Digests, full \in BOOLEAN : ExecuteIdempotent(k, d, full)
           \/ \E k \in Keys, d \in Digests : Replay(k, d)
           \/ \E early \in SUBSET Keys, through \in 1 .. MaxSequence, max \in 1 .. Cardinality(Keys) :
                 PruneReceipts(early, through, max)
  BY <1>3 DEF ExecutePlain, ExecuteIdempotent, Replay, PruneReceipts, Stage
<1>4. CASE \/ CommitSucceeds \/ CommitDefinitelyFails \/ PublishView \/ PublishViewFails
           \/ CheckIntegrity \/ CheckIntegrityViewFails \/ CompactStorage \/ CompactStorageFails
           \/ OpenRedb \/ UNCHANGED vars
  BY <1>4 DEF CommitSucceeds, CommitDefinitelyFails, PublishView, PublishViewFails, CheckIntegrity,
              CheckIntegrityViewFails, CompactStorage, CompactStorageFails, OpenRedb, vars
<1>5. CASE (\E landed \in BOOLEAN : CommitIsUncertain(landed)) \/ Crash
  BY <1>5 DEF CommitIsUncertain, Crash
<1> QED BY <1>2, <1>3, <1>4, <1>5 DEF Next

\* Every answered read sees exactly one commit, also from an old snapshot.
THEOREM ReadsAreCommits ==
    ASSUME "integrity_view" \notin Faults
    PROVE  Spec => []ReadersSeeOneCommit
<1>1. Init => ReadersSeeOneCommit
  BY DEF Init, ReadersSeeOneCommit, IsCommit
<1>2. Coupling /\ Coupling' /\ History' /\ ReadersSeeOneCommit /\ [Next]_vars => ReadersSeeOneCommit'
  <2> SUFFICES ASSUME Coupling, Coupling', History', ReadersSeeOneCommit, [Next]_vars
               PROVE  ReadersSeeOneCommit'
    OBVIOUS
  <2>0. commits \in Seq(Database) /\ commits' \in Seq(Database)
    BY DEF Coupling, Typing, TypeOK
  <2>1. ASSUME NEW database, IsCommit(database)
        PROVE  database = EmptyDatabase \/ \E n \in 1 .. Len(commits') : commits'[n] = database
    BY <2>0, <2>1, CommitsGrow DEF IsCommit
  <2>2. disk' = EmptyDatabase \/ \E n \in 1 .. Len(commits') : commits'[n] = disk'
    BY <2>0 DEF History
  <2>3. up' /\ ~read_reopen_required' => IsCommit(view)'
    BY <2>1, <2>2, ViewSteps, SMTT(20) DEF ReadersSeeOneCommit, IsCommit
  <2>4. ASSUME NEW r \in Readers, snapshot'[r] # NoSnapshot, ~snapshot'[r].reopen
        PROVE  IsCommit(snapshot[r].database)'
    <3>1. snapshot'[r] = snapshot[r] \/ (up /\ ~read_reopen_required /\ snapshot'[r].database = view)
      BY <2>4, SnapshotSteps DEF Coupling
    <3>2. CASE snapshot'[r] = snapshot[r]
      <4>1. IsCommit(snapshot[r].database)
        BY <2>4, <3>2 DEF ReadersSeeOneCommit
      <4> QED BY <2>1, <3>2, <4>1, ZenonT(40) DEF IsCommit
    <3>3. CASE up /\ ~read_reopen_required /\ snapshot'[r].database = view
      BY <2>1, <3>3, ZenonT(40) DEF IsCommit, ReadersSeeOneCommit
    <3> QED BY <3>1, <3>2, <3>3
  <2> QED BY <2>3, <2>4 DEF ReadersSeeOneCommit
<1> QED BY <1>1, <1>2, CouplingHolds, HistoryHolds, PTL DEF Spec
=============================================================================
