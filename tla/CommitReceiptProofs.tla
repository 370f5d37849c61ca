------------------------ MODULE CommitReceiptProofs -------------------------
(***************************************************************************)
(* Proofs about CommitEngine, continued: effects, receipts and responses.  *)
(* The types, the coupling of Engine and file and the history of the file  *)
(* come from CommitEngineProofs.                                           *)
(***************************************************************************)
EXTENDS CommitEngineProofs

-----------------------------------------------------------------------------
(* Effects and receipts *)

\* What a candidate does to one key: nothing; it prunes the receipt, and then
\* changes no row at all; or it executes the script of a key without receipt
\* and stamps the new receipt with its own sequence.
KeyUntouched(k) ==
    call.candidate.receipts[k] = view.receipts[k] /\ call.candidate.rows[k] = view.rows[k]
KeyPruned(k) ==
    /\ view.receipts[k] # NoReceipt /\ call.candidate.receipts[k] = NoReceipt
    /\ call.candidate.rows = view.rows
KeyExecuted(k) ==
    /\ view.receipts[k] = NoReceipt /\ call.candidate.receipts[k] # NoReceipt
    /\ call.candidate.receipts[k].committed_sequence = call.candidate.sequence
    /\ call.candidate.rows[k] = view.rows[k] + 1

CandidateReceipts ==
    call # NoCall => \A k \in Keys : KeyUntouched(k) \/ KeyPruned(k) \/ KeyExecuted(k)

LEMMA CandidateReceiptsHold == Spec => []CandidateReceipts
<1>1. Init => CandidateReceipts
  BY DEF Init, CandidateReceipts
<1>2. Typing /\ CandidateReceipts /\ [Next]_vars => CandidateReceipts'
  <2> SUFFICES ASSUME Typing, CandidateReceipts, [Next]_vars PROVE CandidateReceipts'
    OBVIOUS
  <2> USE DEF engineVars, historyVars
  <2>0. view.rows \in [Keys \cup {NoKey} -> Nat] /\ view.sequence \in Nat
           /\ view.receipts \in [Keys -> Receipt \cup {NoReceipt}]
    BY ConstantsAssumption DEF Typing, TypeOK, Database
  <2>1. ASSUME NEW full \in BOOLEAN, ExecutePlain(full) PROVE CandidateReceipts'
    <3>1. \A k \in Keys : Executed(NoKey)[k] = view.rows[k]
      BY <2>0, ConstantsAssumption DEF Executed
    <3> QED BY <2>1, <3>1 DEF ExecutePlain, Stage, CandidateReceipts, KeyUntouched
  <2>2. ASSUME NEW k \in Keys, NEW d \in Digests, NEW full \in BOOLEAN, ExecuteIdempotent(k, d, full)
        PROVE  CandidateReceipts'
    <3> DEFINE receipt == [digest |-> d, committed_sequence |-> view.sequence + 1]
               receipts == [view.receipts EXCEPT ![k] = receipt]
    <3>1. receipt \in Receipt
      BY <2>0, <2>2, ConstantsAssumption DEF ExecuteIdempotent, Stage, Receipt
    <3>2. \A j \in Keys : j # k => Executed(k)[j] = view.rows[j] /\ receipts[j] = view.receipts[j]
      BY <2>0 DEF Executed
    <3>3. Executed(k)[k] = view.rows[k] + 1 /\ receipts[k] = receipt /\ receipt # NoReceipt
      BY <2>0, <3>1, ConstantsAssumption DEF Executed
    <3>4. receipt.committed_sequence = view.sequence + 1
      OBVIOUS
    <3>5. view.receipts[k] = NoReceipt /\ Stage(Executed(k), receipts, full, k)
      BY <2>2 DEF ExecuteIdempotent
    <3> HIDE DEF receipt, receipts
    <3>6. view' = view /\ call'.candidate = [sequence |-> view.sequence + 1, rows |-> Executed(k), receipts |-> receipts]
      BY <3>5 DEF Stage
    <3>7. ASSUME NEW j \in Keys PROVE (KeyUntouched(j) \/ KeyExecuted(j))'
      BY <3>2, <3>3, <3>4, <3>5, <3>6 DEF KeyUntouched, KeyExecuted
    <3> QED BY <3>7 DEF CandidateReceipts
  <2>3. ASSUME NEW early, NEW through, NEW max, PruneReceipts(early, through, max) PROVE CandidateReceipts'
    <3> DEFINE kept == [k \in Keys |-> IF k \in Selection(early, through, max)
                                        THEN NoReceipt ELSE view.receipts[k]]
    <3>1. \A k \in Keys : k \in Selection(early, through, max) => view.receipts[k] # NoReceipt
      BY DEF Selection, Held
    <3>2. view' = view /\ call'.candidate = [sequence |-> view.sequence + 1, rows |-> view.rows, receipts |-> kept]
      BY <2>3 DEF PruneReceipts, Stage
    <3>3. \A k \in Keys : kept[k] = view.receipts[k] \/ (kept[k] = NoReceipt /\ view.receipts[k] # NoReceipt)
      BY <3>1
    <3> HIDE DEF kept
    <3> QED BY <3>2, <3>3 DEF CandidateReceipts, KeyUntouched, KeyPruned
  <2>4. ASSUME NEW k, NEW d, Replay(k, d) PROVE CandidateReceipts'
    BY <2>4 DEF Replay, Idle, CandidateReceipts
  <2>5. CASE CommitSucceeds
    <3>1. call # NoCall /\ view' = view /\ call'.candidate = call.candidate
      BY <2>5 DEF CommitSucceeds, NoCall
    <3> QED BY <3>1 DEF CandidateReceipts, KeyUntouched, KeyPruned, KeyExecuted
  <2>6. CASE \/ CommitDefinitelyFails \/ PublishView \/ PublishViewFails \/ Crash
             \/ \E landed \in BOOLEAN : CommitIsUncertain(landed)
    BY <2>6 DEF CommitDefinitelyFails, PublishView, PublishViewFails, Crash, CommitIsUncertain, CandidateReceipts
  <2>7. CASE \/ CheckIntegrity \/ CheckIntegrityViewFails \/ CompactStorage \/ CompactStorageFails
    BY <2>7 DEF CheckIntegrity, CheckIntegrityViewFails, CompactStorage, CompactStorageFails, Idle, CandidateReceipts
  <2>8. CASE OpenRedb
    BY <2>8 DEF OpenRedb, Typing, CandidateAdds, CandidateReceipts
  <2>9. CASE (\E r \in Readers : ReadSnapshot(r) \/ ReleaseSnapshot(r)) \/ UNCHANGED vars
    BY <2>9 DEF ReadSnapshot, ReleaseSnapshot, vars, CandidateReceipts, KeyUntouched, KeyPruned, KeyExecuted
  <2> QED BY <2>1, <2>2, <2>3, <2>4, <2>5, <2>6, <2>7, <2>8, <2>9 DEF Next
<1> QED BY <1>1, <1>2, TypingHolds, PTL DEF Spec

\* A key's script is committed once for every receipt the key has had, through
\* uncertain commits, crashes and retries.
THEOREM EffectsAndReceiptsLandTogether ==
    ASSUME "integrity_view" \notin Faults
    PROVE  Spec => []EffectsMatchReceipts
<1>1. Init => EffectsMatchReceipts
  BY DEF Init, EffectsMatchReceipts, EmptyDatabase, NoRows
<1>2. Coupling /\ CandidateReceipts /\ EffectsMatchReceipts /\ [Next]_vars => EffectsMatchReceipts'
  <2> SUFFICES ASSUME Coupling, CandidateReceipts, EffectsMatchReceipts, [Next]_vars PROVE EffectsMatchReceipts'
    OBVIOUS
  <2>1. CASE FileUnchanged
    BY <2>1 DEF FileUnchanged, EffectsMatchReceipts
  <2>2. CASE FileTakesCandidate
    <3>1. call # NoCall /\ disk = view /\ disk' = call.candidate
      BY <2>2 DEF FileTakesCandidate, Write, Coupling, CallInProgress
    <3>2. disk.rows \in [Keys \cup {NoKey} -> Nat] /\ pruned \in [Keys -> Nat]
      BY DEF Coupling, Typing, TypeOK, Database
    <3> SUFFICES ASSUME NEW k \in Keys
                 PROVE  disk'.rows[k] = pruned'[k] + (IF disk'.receipts[k] = NoReceipt THEN 0 ELSE 1)
      BY DEF EffectsMatchReceipts
    <3>3. pruned'[k] = IF disk.receipts[k] # NoReceipt /\ disk'.receipts[k] = NoReceipt
                       THEN pruned[k] + 1 ELSE pruned[k]
      BY <2>2, <3>1 DEF FileTakesCandidate, Write, Held
    <3>4. disk.rows[k] = pruned[k] + (IF disk.receipts[k] = NoReceipt THEN 0 ELSE 1)
      BY DEF EffectsMatchReceipts
    <3>5. KeyUntouched(k) \/ KeyPruned(k) \/ KeyExecuted(k)
      BY <3>1 DEF CandidateReceipts
    <3> QED BY <3>1, <3>2, <3>3, <3>4, <3>5 DEF KeyUntouched, KeyPruned, KeyExecuted
  <2> QED BY <2>1, <2>2, FileSteps
<1> QED BY <1>1, <1>2, CouplingHolds, CandidateReceiptsHold, PTL DEF Spec

\* Only pruning removes receipts, and a commit that removes one keeps every row.
THEOREM PruningIsPure ==
    ASSUME "integrity_view" \notin Faults
    PROVE  Spec => PruningKeepsRows
<1>1. Coupling /\ CandidateReceipts /\ [Next]_vars
         => [Held(disk.receipts) \subseteq Held(disk'.receipts) \/ disk'.rows = disk.rows]_vars
  <2> SUFFICES ASSUME Coupling, CandidateReceipts, [Next]_vars
               PROVE  Held(disk.receipts) \subseteq Held(disk'.receipts) \/ disk'.rows = disk.rows
    OBVIOUS
  <2>1. CASE FileUnchanged
    BY <2>1 DEF FileUnchanged
  <2>2. CASE FileTakesCandidate
    BY <2>2 DEF FileTakesCandidate, Write, Coupling, CallInProgress, CandidateReceipts, Held,
                KeyUntouched, KeyPruned, KeyExecuted
  <2> QED BY <2>1, <2>2, FileSteps
<1> QED BY <1>1, CouplingHolds, CandidateReceiptsHold, PTL DEF Spec, PruningKeepsRows

\* What remains of Coupling when a failed integrity check may leave a view that
\* has lost its rows: the receipts of Engine and file still agree.
ReceiptsCoupled ==
    /\ up => (durable <=> ~write_failed)
    /\ call # NoCall => up /\ ~write_failed
    /\ call # NoCall /\ call.stage = "landed" => call.candidate.receipts = disk.receipts
    /\ up /\ ~write_failed /\ (call = NoCall \/ call.stage = "staged") => view.receipts = disk.receipts

LEMMA ReceiptsCoupledHolds == Spec => []ReceiptsCoupled
<1>1. Init => ReceiptsCoupled
  BY DEF Init, ReceiptsCoupled
<1>2. Typing /\ ReceiptsCoupled /\ [Next]_vars => ReceiptsCoupled'
  <2> SUFFICES ASSUME Typing, ReceiptsCoupled, [Next]_vars PROVE ReceiptsCoupled'
    OBVIOUS
  <2> USE DEF engineVars, historyVars, ReceiptsCoupled, Idle
  <2>1. ASSUME NEW rows, NEW receipts, NEW full, NEW key, Stage(rows, receipts, full, key)
        PROVE  ReceiptsCoupled'
    BY <2>1 DEF Stage, MutationAllowed, NoCall
  <2>2. ASSUME NEW full \in BOOLEAN, ExecutePlain(full) PROVE ReceiptsCoupled'
    BY <2>1, <2>2 DEF ExecutePlain
  <2>3. ASSUME NEW k \in Keys, NEW d \in Digests, NEW full \in BOOLEAN, ExecuteIdempotent(k, d, full)
        PROVE  ReceiptsCoupled'
    BY <2>1, <2>3 DEF ExecuteIdempotent
  <2>4. ASSUME NEW early, NEW through, NEW max, PruneReceipts(early, through, max) PROVE ReceiptsCoupled'
    BY <2>1, <2>4, ZenonT(40) DEF PruneReceipts
  <2>5. ASSUME NEW k, NEW d, Replay(k, d) PROVE ReceiptsCoupled'
    BY <2>5 DEF Replay
  <2>6. CASE CommitSucceeds
    <3>1. call # NoCall /\ durable /\ Stored(call).receipts = call.candidate.receipts
      BY <2>6 DEF CommitSucceeds, NoCall, Stored, WithRows
    <3> QED BY <2>6, <3>1 DEF CommitSucceeds, Write, NoCall
  <2>7. ASSUME NEW landed \in BOOLEAN, CommitIsUncertain(landed) PROVE ReceiptsCoupled'
    BY <2>7 DEF CommitIsUncertain
  <2>8. CASE PublishView
    BY <2>8 DEF PublishView, NoCall, WithRows
  <2>9. CASE CommitDefinitelyFails \/ PublishViewFails \/ Crash \/ OpenRedb
    BY <2>9 DEF CommitDefinitelyFails, PublishViewFails, ReopenRequired, Crash, OpenRedb, NoCall,
                Typing, CandidateAdds
  <2>10. CASE CheckIntegrity \/ CheckIntegrityViewFails \/ CompactStorage \/ CompactStorageFails
    BY <2>10 DEF CheckIntegrity, CheckIntegrityViewFails, CompactStorage, CompactStorageFails,
                 ReopenRequired, WithRows
  <2>11. CASE (\E r \in Readers : ReadSnapshot(r) \/ ReleaseSnapshot(r)) \/ UNCHANGED vars
    BY <2>11 DEF ReadSnapshot, ReleaseSnapshot, vars
  <2> QED BY <2>2, <2>3, <2>4, <2>5, <2>6, <2>7, <2>8, <2>9, <2>10, <2>11 DEF Next
<1> QED BY <1>1, <1>2, TypingHolds, PTL DEF Spec

\* The receipts of the file are left alone, or become those of the staged candidate.
LEMMA ReceiptSteps ==
    ASSUME [Next]_vars
    PROVE  \/ disk'.receipts = disk.receipts
           \/ call # NoCall /\ call.stage = "staged" /\ disk'.receipts = call.candidate.receipts
<1> USE DEF engineVars, historyVars
<1>1. CASE CommitSucceeds \/ \E landed \in BOOLEAN : CommitIsUncertain(landed)
  <2>1. Stored(call).receipts = call.candidate.receipts
    BY DEF Stored, WithRows
  <2> QED BY <1>1, <2>1 DEF CommitSucceeds, CommitIsUncertain, Write, NoCall
<1>2. CASE \/ \E full \in BOOLEAN : ExecutePlain(full)
           \/ \E k \in Keys, d \in Digests, full \in BOOLEAN : ExecuteIdempotent(k, d, full)
           \/ \E k \in Keys, d \in Digests : Replay(k, d)
           \/ \E early \in SUBSET Keys, through \in 1 .. MaxSequence, max \in 1 .. Cardinality(Keys) :
                 PruneReceipts(early, through, max)
  BY <1>2 DEF ExecutePlain, ExecuteIdempotent, Replay, PruneReceipts, Stage
<1>3. CASE \/ CommitDefinitelyFails \/ PublishView \/ PublishViewFails
           \/ CheckIntegrity \/ CheckIntegrityViewFails \/ CompactStorage \/ CompactStorageFails
           \/ Crash \/ OpenRedb \/ UNCHANGED vars
  BY <1>3 DEF CommitDefinitelyFails, PublishView, PublishViewFails, CheckIntegrity, CheckIntegrityViewFails,
              CompactStorage, CompactStorageFails, Crash, OpenRedb, vars
<1>4. CASE \E r \in Readers : ReadSnapshot(r) \/ ReleaseSnapshot(r)
  BY <1>4 DEF ReadSnapshot, ReleaseSnapshot
<1> QED BY <1>1, <1>2, <1>3, <1>4 DEF Next

\* A stored receipt is never overwritten, and only a commit that executes nothing
\* removes one, whatever the storage does, a failed integrity check included.
THEOREM ReceiptsOutliveExecutions == Spec => ExecutionsKeepReceipts
<1> DEFINE Keeps == \A k \in Held(disk.receipts) :
                       \/ disk'.receipts[k] = disk.receipts[k]
                       \/ disk'.receipts[k] = NoReceipt /\ call.candidate.rows = view.rows
<1>1. ReceiptsCoupled /\ CandidateReceipts /\ [Next]_vars => [Keeps]_vars
  <2> SUFFICES ASSUME ReceiptsCoupled, CandidateReceipts, [Next]_vars, NEW k \in Held(disk.receipts)
               PROVE  \/ disk'.receipts[k] = disk.receipts[k]
                      \/ disk'.receipts[k] = NoReceipt /\ call.candidate.rows = view.rows
    OBVIOUS
  <2>1. CASE disk'.receipts = disk.receipts
    BY <2>1
  <2>2. CASE call # NoCall /\ call.stage = "staged" /\ disk'.receipts = call.candidate.receipts
    <3>1. view.receipts = disk.receipts /\ k \in Keys /\ view.receipts[k] # NoReceipt
      BY <2>2 DEF ReceiptsCoupled, Held
    <3>2. KeyUntouched(k) \/ KeyPruned(k) \/ KeyExecuted(k)
      BY <2>2, <3>1 DEF CandidateReceipts
    <3> QED BY <2>2, <3>1, <3>2 DEF KeyUntouched, KeyPruned, KeyExecuted
  <2> QED BY <2>1, <2>2, ReceiptSteps
<1> QED BY <1>1, ReceiptsCoupledHolds, CandidateReceiptsHold, PTL DEF Spec, ExecutionsKeepReceipts

-----------------------------------------------------------------------------
(* Responses *)

\* Every receipt of a database was stored by the commit it names, which is not
\* newer than the database.
Recorded(database) ==
    \A k \in Held(database.receipts) :
        LET n == database.receipts[k].committed_sequence IN
        /\ n <= database.sequence
        /\ n <= Len(commits)
        /\ commits[n].receipts[k] = database.receipts[k]

ReceiptsRecorded == Recorded(disk) /\ (up => Recorded(view)) /\ AcknowledgedIsDurable

SameHead(a, b) == a.sequence = b.sequence /\ a.receipts = b.receipts

\* Sequence and receipts of the view, readable or not, are those it had or those of the file.
LEMMA HeadSteps ==
    ASSUME "integrity_view" \notin Faults, Coupling, [Next]_vars, up'
    PROVE  SameHead(view', disk') \/ (up /\ SameHead(view', view))
<1>1. CASE CompactStorageFails
  BY <1>1 DEF CompactStorageFails, WithRows, SameHead
<1>2. CASE PublishViewFails
  BY <1>2 DEF PublishViewFails, SameHead
<1>3. CASE ~read_reopen_required'
  BY <1>3, ViewSteps DEF SameHead
<1>4. CASE read_reopen_required' /\ ~CompactStorageFails /\ ~PublishViewFails
  <2> USE <1>4 DEF engineVars, SameHead
  <2>1. CASE \/ \E full \in BOOLEAN : ExecutePlain(full)
             \/ \E k \in Keys, d \in Digests, full \in BOOLEAN : ExecuteIdempotent(k, d, full)
             \/ \E k \in Keys, d \in Digests : Replay(k, d)
             \/ \E early \in SUBSET Keys, through \in 1 .. MaxSequence, max \in 1 .. Cardinality(Keys) :
                   PruneReceipts(early, through, max)
    BY <2>1, ZenonT(40) DEF ExecutePlain, ExecuteIdempotent, Replay, PruneReceipts, Stage
  <2>2. CASE PublishView
    <3>1. call # NoCall /\ read_reopen_required
      BY <2>2 DEF PublishView, NoCall
    <3>2. up /\ ~write_failed
      BY <3>1 DEF Coupling, CallInProgress
    <3> QED BY <3>1, <3>2 DEF Coupling, FlagsAgree
  <2>3. CASE \/ CommitSucceeds \/ CommitDefinitelyFails \/ CheckIntegrity \/ CheckIntegrityViewFails
             \/ CompactStorage \/ Crash \/ OpenRedb \/ UNCHANGED vars
    BY <2>3, ZenonT(40) DEF CommitSucceeds, CommitDefinitelyFails, CheckIntegrity, CheckIntegrityViewFails, CompactStorage,
                Crash, OpenRedb, vars
  <2>4. CASE \/ \E landed \in BOOLEAN : CommitIsUncertain(landed)
             \/ \E r \in Readers : ReadSnapshot(r) \/ ReleaseSnapshot(r)
    BY <2>4, ZenonT(40) DEF CommitIsUncertain, ReadSnapshot, ReleaseSnapshot
  <2> QED BY <2>1, <2>2, <2>3, <2>4 DEF Next
<1> QED BY <1>1, <1>2, <1>3, <1>4

\* A new response takes its receipt from the view of an open Engine or from the
\* commit that has just landed, which becomes the view.
LEMMA AckSteps ==
    ASSUME Coupling, [Next]_vars
    PROVE  \/ acks' = acks
           \/ \E k \in Keys : /\ up /\ view' = view
                              /\ view.receipts[k] # NoReceipt
                              /\ acks' = acks \cup {Acknowledgement(k, view.receipts[k])}
           \/ \E k \in Keys : /\ up /\ view' = disk /\ disk' = disk
                              /\ disk.receipts[k] # NoReceipt
                              /\ acks' = acks \cup {Acknowledgement(k, disk.receipts[k])}
<1> USE DEF engineVars, historyVars
<1>1. CASE \E k \in Keys, d \in Digests : Replay(k, d)
  BY <1>1 DEF Replay, Idle
<1>2. CASE PublishView
  <2>1. call # NoCall /\ call \in Call /\ up /\ durable /\ disk = call.candidate
    BY <1>2 DEF PublishView, NoCall, Coupling, Typing, TypeOK, Call, CallInProgress, FlagsAgree
  <2>2. view' = disk /\ disk' = disk
    BY <1>2, <2>1, WithOwnRows DEF PublishView, Call
  <2>3. call.key # NoKey => call.key \in Keys /\ disk.receipts[call.key] # NoReceipt
    BY <2>1 DEF Coupling, Typing, CandidateAdds, Call
  <2> QED BY <1>2, <2>1, <2>2, <2>3 DEF PublishView
<1>3. CASE \/ \E full \in BOOLEAN : ExecutePlain(full)
           \/ \E k \in Keys, d \in Digests, full \in BOOLEAN : ExecuteIdempotent(k, d, full)
           \/ \E early \in SUBSET Keys, through \in 1 .. MaxSequence, max \in 1 .. Cardinality(Keys) :
                 PruneReceipts(early, through, max)
  BY <1>3 DEF ExecutePlain, ExecuteIdempotent, PruneReceipts, Stage
<1>4. CASE \/ CommitSucceeds \/ CommitDefinitelyFails \/ PublishViewFails
           \/ CheckIntegrity \/ CheckIntegrityViewFails \/ CompactStorage \/ CompactStorageFails
           \/ Crash \/ OpenRedb \/ UNCHANGED vars
  BY <1>4 DEF CommitSucceeds, CommitDefinitelyFails, PublishViewFails, CheckIntegrity, CheckIntegrityViewFails,
              CompactStorage, CompactStorageFails, Crash, OpenRedb, vars
<1>5. CASE \/ \E landed \in BOOLEAN : CommitIsUncertain(landed)
           \/ \E r \in Readers : ReadSnapshot(r) \/ ReleaseSnapshot(r)
  BY <1>5 DEF CommitIsUncertain, ReadSnapshot, ReleaseSnapshot
<1> QED BY <1>1, <1>2, <1>3, <1>4, <1>5 DEF Next

LEMMA ReceiptsStayRecorded ==
    ASSUME "integrity_view" \notin Faults, Coupling, Coupling', History, CandidateReceipts, ReceiptsRecorded,
           [Next]_vars
    PROVE  ReceiptsRecorded'
<1> DEFINE Now(database) ==
        \A k \in Held(database.receipts) :
            LET n == database.receipts[k].committed_sequence IN
            /\ n <= database.sequence
            /\ n <= Len(commits')
            /\ commits'[n].receipts[k] = database.receipts[k]
<1>0. disk \in Database /\ view \in Database /\ commits \in Seq(Database) /\ commits' \in Seq(Database)
  BY DEF Coupling, Typing, TypeOK
<1>1. ASSUME NEW database \in Database, Recorded(database) PROVE Now(database)
  <2> SUFFICES ASSUME NEW k \in Held(database.receipts)
               PROVE  LET n == database.receipts[k].committed_sequence IN
                      /\ n <= database.sequence
                      /\ n <= Len(commits')
                      /\ commits'[n].receipts[k] = database.receipts[k]
    OBVIOUS
  <2>1. database.receipts[k] \in Receipt
    BY DEF Held, Database
  <2>2. database.receipts[k].committed_sequence \in Nat /\ database.receipts[k].committed_sequence >= 1
    BY <2>1, ConstantsAssumption DEF Receipt
  <2>3. /\ database.receipts[k].committed_sequence <= database.sequence
        /\ database.receipts[k].committed_sequence <= Len(commits)
        /\ commits[database.receipts[k].committed_sequence].receipts[k] = database.receipts[k]
    BY <1>1 DEF Recorded
  <2>4. commits'[database.receipts[k].committed_sequence] = commits[database.receipts[k].committed_sequence]
    BY <1>0, <2>2, <2>3, CommitsGrow
  <2> QED BY <1>0, <2>2, <2>3, <2>4, CommitsGrow
<1>2. Now(disk')
  <2>1. CASE FileUnchanged
    BY <1>0, <1>1, <2>1 DEF FileUnchanged, ReceiptsRecorded
  <2>2. CASE FileTakesCandidate
    <3>1. call # NoCall /\ disk = view /\ disk' = call.candidate /\ call.candidate \in Database
             /\ call.candidate.sequence = disk.sequence + 1 /\ commits' = Append(commits, call.candidate)
      BY <2>2 DEF FileTakesCandidate, Write, Coupling, CallInProgress, Typing, TypeOK
    <3>2. disk'.sequence = Len(commits') /\ commits'[Len(commits')] = disk' /\ disk'.sequence = disk.sequence + 1
      <4>1. Len(commits') = Len(commits) + 1 /\ commits'[Len(commits) + 1] = call.candidate
        BY <1>0, <3>1
      <4> QED BY <3>1, <4>1 DEF History, SequenceCountsCommits
    <3> SUFFICES ASSUME NEW k \in Held(disk'.receipts)
                 PROVE  LET n == disk'.receipts[k].committed_sequence IN
                        /\ n <= disk'.sequence
                        /\ n <= Len(commits')
                        /\ commits'[n].receipts[k] = disk'.receipts[k]
      OBVIOUS
    <3>3. k \in Keys /\ disk'.receipts[k] # NoReceipt
      BY DEF Held
    <3>4. CASE KeyExecuted(k)
      <4>1. disk' = call.candidate
        BY <3>1
      <4>2. disk'.receipts[k].committed_sequence = disk'.sequence
        BY <3>4, <4>1 DEF KeyExecuted
      <4>3. Len(commits') \in Nat
        BY <1>0
      <4>4. disk'.receipts[k].committed_sequence = Len(commits')
        BY <3>2, <4>2
      <4>5. commits'[disk'.receipts[k].committed_sequence] = disk'
        BY <3>2, <4>4, ZenonT(40)
      <4>6. Len(commits') <= Len(commits')
        BY <4>3
      <4> QED BY <3>2, <4>4, <4>5, <4>6, ZenonT(40)
    <3>5. CASE KeyUntouched(k)
      <4>1. k \in Held(disk.receipts) /\ disk.receipts[k] = disk'.receipts[k]
        BY <3>1, <3>3, <3>5 DEF KeyUntouched, Held
      <4>2. Now(disk)
        BY <1>0, <1>1 DEF ReceiptsRecorded
      <4>3. disk.receipts[k].committed_sequence \in Nat /\ disk.sequence \in Nat
        BY <1>0, <4>1, ConstantsAssumption DEF Held, Database, Receipt
      <4>4. LET n == disk.receipts[k].committed_sequence IN
            /\ n <= disk.sequence
            /\ n <= Len(commits')
            /\ commits'[n].receipts[k] = disk.receipts[k]
        BY <4>1, <4>2
      <4> QED BY <1>0, <3>2, <4>1, <4>3, <4>4
    <3> QED BY <3>1, <3>3, <3>4, <3>5 DEF CandidateReceipts, KeyPruned
  <2> QED BY <2>1, <2>2, FileSteps
<1>3. up' => Now(view')
  <2>1. up => Now(view)
    BY <1>0, <1>1 DEF ReceiptsRecorded
  <2> QED BY <1>2, <2>1, HeadSteps DEF SameHead
<1>4. ASSUME NEW a \in acks'
      PROVE  /\ a.committed_sequence <= Len(commits')
             /\ commits'[a.committed_sequence].receipts[a.key]
                    = [digest |-> a.digest, committed_sequence |-> a.committed_sequence]
  <2>1. CASE a \in acks
    <3>1. a.committed_sequence \in Nat /\ a.committed_sequence >= 1
      BY <2>1, ConstantsAssumption DEF Coupling, Typing, TypeOK, Ack
    <3>2. /\ a.committed_sequence <= Len(commits)
          /\ commits[a.committed_sequence].receipts[a.key]
                 = [digest |-> a.digest, committed_sequence |-> a.committed_sequence]
      BY <2>1 DEF ReceiptsRecorded, AcknowledgedIsDurable
    <3> QED BY <1>0, <3>1, <3>2, CommitsGrow
  <2>2. ASSUME NEW database \in Database, Now(database), NEW k \in Keys, database.receipts[k] # NoReceipt,
               a = Acknowledgement(k, database.receipts[k])
        PROVE  /\ a.committed_sequence <= Len(commits')
               /\ commits'[a.committed_sequence].receipts[a.key]
                      = [digest |-> a.digest, committed_sequence |-> a.committed_sequence]
    <3>1. database.receipts[k] \in Receipt /\ k \in Held(database.receipts)
      BY <2>2 DEF Held, Database
    <3>2. a.key = k /\ database.receipts[k] = [digest |-> a.digest, committed_sequence |-> a.committed_sequence]
      BY <2>2, <3>1 DEF Acknowledgement, Receipt
    <3>3. /\ database.receipts[k].committed_sequence <= Len(commits')
          /\ commits'[database.receipts[k].committed_sequence].receipts[k] = database.receipts[k]
      BY <2>2, <3>1
    <3>4. database.receipts[k].committed_sequence = a.committed_sequence
      BY <3>2
    <3> QED BY <3>2, <3>3, <3>4
  <2>3. Now(disk) /\ (up => Now(view))
    BY <1>0, <1>1 DEF ReceiptsRecorded
  <2> HIDE DEF Now
  <2>4. CASE \E k \in Keys : /\ up /\ view.receipts[k] # NoReceipt
                             /\ acks' = acks \cup {Acknowledgement(k, view.receipts[k])}
    BY <1>0, <2>1, <2>2, <2>3, <2>4
  <2>5. CASE \E k \in Keys : /\ disk.receipts[k] # NoReceipt
                             /\ acks' = acks \cup {Acknowledgement(k, disk.receipts[k])}
    BY <1>0, <2>1, <2>2, <2>3, <2>5
  <2> QED BY <2>1, <2>4, <2>5, AckSteps
<1> QED BY <1>2, <1>3, <1>4 DEF ReceiptsRecorded, Recorded, AcknowledgedIsDurable

LEMMA ReceiptsAreRecorded ==
    ASSUME "integrity_view" \notin Faults
    PROVE  Spec => []ReceiptsRecorded
<1>1. Init => ReceiptsRecorded
  BY DEF Init, ReceiptsRecorded, Recorded, Held, EmptyDatabase, AcknowledgedIsDurable
<1> QED BY <1>1, ReceiptsStayRecorded, CouplingHolds, HistoryHolds, CandidateReceiptsHold, PTL DEF Spec

\* A successful response names a commit of the file that holds its receipt.
THEOREM ResponsesAreDurable ==
    ASSUME "integrity_view" \notin Faults
    PROVE  Spec => []AcknowledgedIsDurable
  BY ReceiptsAreRecorded, PTL DEF ReceiptsRecorded

\* The strengthening of ReadYourWrites: it also holds while a call is in flight.
ReadableIsNew == up /\ ~read_reopen_required => \A a \in acks : a.committed_sequence <= view.sequence

\* A read that is answered after a response is at least as new as the commit
\* the response named, also in a later Engine and after a failed commit.
THEOREM ReadsFollowResponses ==
    ASSUME "integrity_view" \notin Faults
    PROVE  Spec => []ReadYourWrites
<1>1. Init => ReadableIsNew
  BY DEF Init, ReadableIsNew
<1>2. Coupling /\ History' /\ ReceiptsRecorded /\ ReceiptsRecorded' /\ ReadableIsNew /\ [Next]_vars => ReadableIsNew'
  <2> SUFFICES ASSUME Coupling, History', ReceiptsRecorded, ReceiptsRecorded', ReadableIsNew, [Next]_vars,
                      up', ~read_reopen_required', NEW a \in acks'
               PROVE  a.committed_sequence <= view'.sequence
    BY DEF ReadableIsNew
  <2>1. CASE view' = disk'
    BY <2>1, ZenonT(40) DEF History, SequenceCountsCommits, ReceiptsRecorded, AcknowledgedIsDurable
  <2>2. CASE up /\ ~read_reopen_required /\ view' = view /\ view' # disk'
    <3>1. CASE a \in acks
      BY <2>2, <3>1 DEF ReadableIsNew
    <3>2. ASSUME NEW k \in Keys, view.receipts[k] # NoReceipt, a = Acknowledgement(k, view.receipts[k])
          PROVE  a.committed_sequence <= view.sequence
      <4>1. k \in Held(view.receipts) /\ a.committed_sequence = view.receipts[k].committed_sequence
        BY <3>2 DEF Held, Acknowledgement
      <4> QED BY <2>2, <4>1 DEF ReceiptsRecorded, Recorded
    <3> QED BY <2>2, <3>1, <3>2, AckSteps
  <2> QED BY <2>1, <2>2, ViewSteps
<1>3. ReadableIsNew => ReadYourWrites
  BY DEF ReadableIsNew, ReadYourWrites, Idle
<1> QED BY <1>1, <1>2, <1>3, CouplingHolds, HistoryHolds, ReceiptsAreRecorded, PTL DEF Spec
=============================================================================
