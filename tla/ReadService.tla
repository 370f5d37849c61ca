----------------------------- MODULE ReadService -----------------------------
(***************************************************************************)
(* ConcurrentEngine of src/server.rs: threads that read on a snapshot      *)
(* compete for a bounded number of read slots, writers hold the Engine     *)
(* mutex, and reads that were registered can be cancelled.                 *)
(*                                                                         *)
(* Three kinds of thread read: Plains run with_read_snapshot; Collects run *)
(* ReadOperation::start and Streams ReadOperation::start_stream, both      *)
(* under an operation of the registry.  Threads interleave wherever the    *)
(* code takes a lock.  `read_slots` is held by a thread that is about to   *)
(* park on the condition variable; cancel() notifies without that lock.    *)
(***************************************************************************)
EXTENDS Integers, FiniteSets, Sequences

CONSTANTS
    Streams, Collects, Plains,   \* reading threads, one request each
    Writers,                     \* threads that call with_writer once
    Free,                        \* the Engine mutex has no owner
    MaxConcurrentReads,          \* MAX_CONCURRENT_READS
    MaxReadOperations,           \* MAX_READ_OPERATIONS
    MaxTombstones                \* MAX_OPERATION_TOMBSTONES

Operations == Streams \cup Collects
Readers == Operations \cup Plains
Threads == Readers \cup Writers

ASSUME ConstantsAssumption ==
    /\ IsFiniteSet(Threads)
    /\ Free \notin Threads
    /\ MaxConcurrentReads \in Nat \ {0}
    /\ MaxReadOperations \in Nat
    /\ MaxTombstones \in Nat

VARIABLES
    pc,             \* where each thread is
    engine,         \* owner of the Engine mutex
    slots,          \* *read_slots
    queued_reads, active_reads, queued_writes, active_writes,
    active,         \* OperationRegistry.active: operation -> phase
    cancelled,      \* the operations whose AtomicBool is set
    terminal,       \* OperationRegistry.terminal
    shutdown,
    expired,        \* threads whose deadline has passed
    proposed,       \* how the execution of a read ended
    answer,         \* history: what its caller was told
    accepted,       \* history: cancellations answered Accepted
    told            \* history: outcomes reported as AlreadyTerminal

gauges == <<queued_reads, active_reads, queued_writes, active_writes>>
registry == <<active, cancelled, terminal>>
signals == <<shutdown, expired>>
history == <<answer, accepted, told>>
vars == <<pc, engine, slots, gauges, registry, signals, proposed, history>>

Phases == {"absent", "Registered", "Queued", "Executing", "Emitting", "Cancelling"}
Outcomes == {"Completed", "Cancelled", "Failed"}
InQueue == {"queued", "parking", "waiting"}
Admitted == {"admitted", "locking"}              \* a permit that has not started
Running == {"running", "emitting", "stopping"}   \* a permit that has

Init ==
    /\ pc = [t \in Threads |-> "idle"]
    /\ engine = Free
    /\ slots = 0
    /\ queued_reads = 0 /\ active_reads = 0 /\ queued_writes = 0 /\ active_writes = 0
    /\ active = [o \in Operations |-> "absent"]
    /\ cancelled = {}
    /\ terminal = <<>>
    /\ shutdown = FALSE
    /\ expired = {}
    /\ proposed = [r \in Readers |-> "none"]
    /\ answer = [r \in Readers |-> "none"]
    /\ accepted = {}
    /\ told = {}

Goto(t, label) == pc' = [pc EXCEPT ![t] = label]
FailWith(t, outcome) == Goto(t, "failed") /\ proposed' = [proposed EXCEPT ![t] = outcome]

\* ExecutionControl::checkpoint: cancellation is looked at first.
Stopped(t) == t \in cancelled \/ shutdown \/ t \in expired
StopOutcome(t) == IF t \in cancelled THEN "Cancelled" ELSE "Failed"

\* std::sync::Mutex around read_slots
SlotsUnlocked == \A t \in Readers : pc[t] # "parking"

-----------------------------------------------------------------------------
(* The operation registry *)

\* Mutation: the oldest tombstones are never dropped.
ExpireNothing(tombstones, old) == tombstones

\* OperationRegistry::expire: the first `old` entries have outlived their TTL.
Expire(tombstones, old) ==
    LET drop == IF Len(tombstones) - old > MaxTombstones THEN Len(tombstones) - MaxTombstones ELSE old
    IN  SubSeq(tombstones, drop + 1, Len(tombstones))

ActiveOperations == {o \in Operations : active[o] # "absent"}

RegisterRead(o) ==
    /\ pc[o] = "idle"
    /\ \E old \in 0 .. Len(terminal) : terminal' = Expire(terminal, old)
    /\ IF Cardinality(ActiveOperations) >= MaxReadOperations
       THEN UNCHANGED <<pc, active>>       \* E_OPERATION_CAPACITY
       ELSE Goto(o, "registered") /\ active' = [active EXCEPT ![o] = "Registered"]
    /\ UNCHANGED <<engine, slots, gauges, cancelled, signals, proposed, history>>

\* The accepted frame could not be published: the entry is withdrawn.
DropRead(o) ==
    /\ pc[o] = "registered"
    /\ Goto(o, "dropped")
    /\ active' = [active EXCEPT ![o] = "absent"]
    /\ UNCHANGED <<engine, slots, gauges, cancelled, terminal, signals, proposed, history>>

\* try_cancel, with an operation the client has heard of.
Cancel(o) ==
    /\ pc[o] # "idle"
    /\ \E old \in 0 .. Len(terminal) : terminal' = Expire(terminal, old)
    /\ IF active[o] # "absent"
       THEN /\ active' = [active EXCEPT ![o] = "Cancelling"]
            /\ cancelled' = cancelled \cup {o}
            /\ accepted' = accepted \cup {o}
            /\ pc' = IF active[o] = "Cancelling" THEN pc      \* notify_all
                     ELSE [t \in Threads |-> IF pc[t] = "waiting" THEN "queued" ELSE pc[t]]
            /\ UNCHANGED told
       ELSE /\ told' = told \cup {terminal'[i] : i \in {j \in 1 .. Len(terminal') : terminal'[j].id = o}}
            /\ UNCHANGED <<pc, active, cancelled, accepted>>
    /\ UNCHANGED <<engine, slots, gauges, signals, proposed, answer>>

\* operation_phase(Queued), the decoding of the parameters (which may fail), and
\* the entry of acquire_controlled_read.
StartRead(o) ==
    /\ pc[o] = "registered"
    /\ \/ /\ active[o] = "Cancelling"
          /\ FailWith(o, "Cancelled")
          /\ UNCHANGED <<active, queued_reads>>
       \/ /\ active[o] # "Cancelling"
          /\ active' = [active EXCEPT ![o] = "Queued"]
          /\ \/ FailWith(o, "Failed") /\ UNCHANGED queued_reads
             \/ Goto(o, "queued") /\ queued_reads' = queued_reads + 1 /\ UNCHANGED proposed
    /\ UNCHANGED <<engine, slots, active_reads, queued_writes, active_writes, cancelled, terminal, signals, history>>

-----------------------------------------------------------------------------
(* Read slots *)

\* Entry of acquire_read.
StartPlainRead(r) ==
    /\ pc[r] = "idle"
    /\ IF shutdown
       THEN FailWith(r, "Failed") /\ UNCHANGED queued_reads
       ELSE Goto(r, "queued") /\ queued_reads' = queued_reads + 1 /\ UNCHANGED proposed
    /\ UNCHANGED <<engine, slots, active_reads, queued_writes, active_writes, registry, signals, history>>

\* Mutation: the number of slots is not looked at.
TakeSlotAlways(r) ==
    /\ pc[r] = "queued" /\ SlotsUnlocked
    /\ ~(r \in Operations /\ Stopped(r))
    /\ slots' = slots + 1
    /\ Goto(r, IF r \in Plains THEN "locking" ELSE "admitted")
    /\ UNCHANGED <<engine, gauges, registry, signals, proposed, history>>

\* acquire_controlled_read looks at its control once more before it takes a
\* slot; acquire_read does not.
TakeSlot(r) ==
    /\ pc[r] = "queued" /\ SlotsUnlocked
    /\ slots < MaxConcurrentReads
    /\ ~(r \in Operations /\ Stopped(r))
    /\ slots' = slots + 1
    /\ Goto(r, IF r \in Plains THEN "locking" ELSE "admitted")
    /\ UNCHANGED <<engine, gauges, registry, signals, proposed, history>>

\* The error paths of both loops leave the queue without a permit, and without
\* waking anyone.
LeaveQueue(r) ==
    /\ pc[r] = "queued" /\ SlotsUnlocked
    /\ Stopped(r)
    /\ r \in Operations \/ slots >= MaxConcurrentReads
    /\ queued_reads' = queued_reads - 1
    /\ FailWith(r, StopOutcome(r))
    /\ UNCHANGED <<engine, slots, active_reads, queued_writes, active_writes, registry, signals, history>>

\* Between the checkpoint and wait_timeout the lock is held.
Park(r) ==
    /\ pc[r] = "queued" /\ SlotsUnlocked
    /\ slots >= MaxConcurrentReads
    /\ ~Stopped(r)
    /\ Goto(r, "parking")
    /\ UNCHANGED <<engine, slots, gauges, registry, signals, proposed, history>>

Wait(r) ==
    /\ pc[r] = "parking"
    /\ Goto(r, "waiting")
    /\ UNCHANGED <<engine, slots, gauges, registry, signals, proposed, history>>

\* Mutation: wait() instead of wait_timeout().
WaitForNotificationOnly(r) == FALSE /\ UNCHANGED vars

\* wait_timeout returns after at most CONNECTION_POLL, or spuriously.
Poll(r) ==
    /\ pc[r] = "waiting"
    /\ Goto(r, "queued")
    /\ UNCHANGED <<engine, slots, gauges, registry, signals, proposed, history>>

Waiting == {r \in Readers : pc[r] = "waiting"}
NotifyOne == IF Waiting = {} THEN {{}} ELSE {{t} : t \in Waiting}

\* Mutation: the drop of an unstarted permit forgets the queue gauge.
DropPermitKeepsQueued(r, label) ==
    /\ SlotsUnlocked
    /\ slots' = slots - 1
    /\ active_reads' = IF pc[r] \in Running THEN active_reads - 1 ELSE active_reads
    /\ UNCHANGED queued_reads
    /\ \E woken \in NotifyOne :
          pc' = [t \in Threads |-> IF t = r THEN label ELSE IF t \in woken THEN "queued" ELSE pc[t]]
    /\ UNCHANGED <<queued_writes, active_writes>>

\* Drop for ReadPermit: gives the slot back and wakes one waiter.
DropPermit(r, label) ==
    /\ SlotsUnlocked
    /\ slots' = slots - 1
    /\ active_reads' = IF pc[r] \in Running THEN active_reads - 1 ELSE active_reads
    /\ queued_reads' = IF pc[r] \in Running THEN queued_reads ELSE queued_reads - 1
    /\ \E woken \in NotifyOne :
          pc' = [t \in Threads |-> IF t = r THEN label ELSE IF t \in woken THEN "queued" ELSE pc[t]]
    /\ UNCHANGED <<queued_writes, active_writes>>

-----------------------------------------------------------------------------
(* Execution on a snapshot *)

\* operation_phase(Executing); its error drops the unstarted permit.
EnterExecuting(o) ==
    /\ pc[o] = "admitted"
    /\ IF active[o] = "Cancelling"
       THEN /\ DropPermit(o, "failed")
            /\ proposed' = [proposed EXCEPT ![o] = "Cancelled"]
            /\ UNCHANGED active
       ELSE /\ active' = [active EXCEPT ![o] = "Executing"]
            /\ Goto(o, "locking")
            /\ UNCHANGED <<slots, gauges, proposed>>
    /\ UNCHANGED <<engine, cancelled, terminal, signals, history>>

\* read_snapshot under the Engine mutex, permit.start(), and the checkpoint of a
\* registered read.
CaptureSnapshot(r) ==
    /\ pc[r] = "locking"
    /\ engine = Free
    /\ queued_reads' = queued_reads - 1
    /\ active_reads' = active_reads + 1
    /\ IF r \in Operations /\ Stopped(r)
       THEN /\ Goto(r, "stopping")
            /\ proposed' = [proposed EXCEPT ![r] = StopOutcome(r)]
       ELSE Goto(r, "running") /\ UNCHANGED proposed
    /\ UNCHANGED <<engine, slots, queued_writes, active_writes, registry, signals, history>>

\* operation_phase(Emitting), inside the closure that owns permit and snapshot.
EnterEmitting(o) ==
    /\ pc[o] = "running" /\ o \in Streams
    /\ IF active[o] = "Cancelling"
       THEN /\ Goto(o, "stopping")
            /\ proposed' = [proposed EXCEPT ![o] = "Cancelled"]
            /\ UNCHANGED active
       ELSE /\ active' = [active EXCEPT ![o] = "Emitting"]
            /\ Goto(o, "emitting")
            /\ UNCHANGED proposed
    /\ UNCHANGED <<engine, slots, gauges, cancelled, terminal, signals, history>>

\* The query ends, successfully or not, or a checkpoint of it stops it.  A
\* stream whose consumer has gone ends with E_CANCELLED.
EndRead(r, outcome) ==
    /\ pc[r] = IF r \in Streams THEN "emitting" ELSE "running"
    /\ outcome = "Cancelled" => r \in Streams \/ r \in cancelled
    /\ DropPermit(r, IF r \in Streams /\ outcome # "Completed" THEN "failed" ELSE "finishing")
    /\ proposed' = [proposed EXCEPT ![r] = outcome]
    /\ UNCHANGED <<engine, registry, signals, history>>

StopRead(o) ==
    /\ pc[o] = "stopping"
    /\ DropPermit(o, "failed")
    /\ UNCHANGED <<engine, registry, signals, proposed, history>>

\* An error response carries the current schema, read under the Engine mutex.
SchemaInfo(r) ==
    /\ pc[r] = "failed"
    /\ engine = Free
    /\ Goto(r, "finishing")
    /\ UNCHANGED <<engine, slots, gauges, registry, signals, proposed, history>>

FinishPlainRead(r) ==
    /\ pc[r] = "finishing" /\ r \in Plains
    /\ Goto(r, "done")
    /\ answer' = [answer EXCEPT ![r] = proposed[r]]
    /\ UNCHANGED <<engine, slots, gauges, registry, signals, proposed, accepted, told>>

\* Mutation: the outcome is the proposed one, whatever the phase says.
FinishOperationAsProposed(o) ==
    /\ pc[o] = "finishing" /\ o \in Operations
    /\ active' = [active EXCEPT ![o] = "absent"]
    /\ \E old \in 0 .. Len(terminal) + 1 :
          terminal' = Expire(Append(terminal, [id |-> o, outcome |-> proposed[o]]), old)
    /\ answer' = [answer EXCEPT ![o] = proposed[o]]
    /\ Goto(o, "done")
    /\ UNCHANGED <<engine, slots, gauges, cancelled, signals, proposed, accepted, told>>

\* Mutation: the tombstone records the proposed outcome.
FinishOperationTombstoneAsProposed(o) ==
    LET outcome == IF active[o] = "Cancelling" THEN "Cancelled" ELSE proposed[o] IN
    /\ pc[o] = "finishing" /\ o \in Operations
    /\ active' = [active EXCEPT ![o] = "absent"]
    /\ \E old \in 0 .. Len(terminal) + 1 :
          terminal' = Expire(Append(terminal, [id |-> o, outcome |-> proposed[o]]), old)
    /\ answer' = [answer EXCEPT ![o] = outcome]
    /\ Goto(o, "done")
    /\ UNCHANGED <<engine, slots, gauges, cancelled, signals, proposed, accepted, told>>

\* finish_operation: the registry decides between completion and cancellation.
FinishOperation(o) ==
    LET outcome == IF active[o] = "Cancelling" THEN "Cancelled" ELSE proposed[o] IN
    /\ pc[o] = "finishing" /\ o \in Operations
    /\ active' = [active EXCEPT ![o] = "absent"]
    /\ \E old \in 0 .. Len(terminal) + 1 :
          terminal' = Expire(Append(terminal, [id |-> o, outcome |-> outcome]), old)
    /\ answer' = [answer EXCEPT ![o] = outcome]
    /\ Goto(o, "done")
    /\ UNCHANGED <<engine, slots, gauges, cancelled, signals, proposed, accepted, told>>

-----------------------------------------------------------------------------
(* Writers and the environment *)

StartWrite(w) ==
    /\ pc[w] = "idle"
    /\ Goto(w, "queued")
    /\ queued_writes' = queued_writes + 1
    /\ UNCHANGED <<engine, slots, queued_reads, active_reads, active_writes, registry, signals, proposed, history>>

LockEngine(w) ==
    /\ pc[w] = "queued" /\ w \in Writers
    /\ engine = Free
    /\ engine' = w
    /\ queued_writes' = queued_writes - 1
    /\ active_writes' = active_writes + 1
    /\ Goto(w, "writing")
    /\ UNCHANGED <<slots, queued_reads, active_reads, registry, signals, proposed, history>>

EndWrite(w) ==
    /\ pc[w] = "writing"
    /\ engine' = Free
    /\ active_writes' = active_writes - 1
    /\ Goto(w, "done")
    /\ UNCHANGED <<slots, queued_reads, active_reads, queued_writes, registry, signals, proposed, history>>

Shutdown ==
    /\ ~shutdown
    /\ shutdown' = TRUE
    /\ UNCHANGED <<pc, engine, slots, gauges, registry, expired, proposed, history>>

DeadlinePasses(r) ==
    /\ r \notin expired
    /\ expired' = expired \cup {r}
    /\ UNCHANGED <<pc, engine, slots, gauges, registry, shutdown, proposed, history>>

\* One thread's way through the queue, and all of its way once it has started.
QueueStep(r) == TakeSlot(r) \/ LeaveQueue(r) \/ Park(r) \/ Wait(r) \/ Poll(r)

ReadStep(r) ==
    \/ QueueStep(r)
    \/ CaptureSnapshot(r)
    \/ \E outcome \in Outcomes : EndRead(r, outcome)
    \/ SchemaInfo(r)
    \/ FinishPlainRead(r)

OperationStep(o) == EnterExecuting(o) \/ EnterEmitting(o) \/ StopRead(o) \/ FinishOperation(o)

WriteStep(w) == LockEngine(w) \/ EndWrite(w)

Next ==
    \/ \E o \in Operations : RegisterRead(o) \/ DropRead(o) \/ StartRead(o) \/ Cancel(o) \/ OperationStep(o)
    \/ \E r \in Plains : StartPlainRead(r)
    \/ \E r \in Readers : ReadStep(r) \/ DeadlinePasses(r)
    \/ \E w \in Writers : StartWrite(w) \/ WriteStep(w)
    \/ Shutdown

Spec == Init /\ [][Next]_vars

\* Only the queue moves: reads that hold a slot may keep it, the writer too.  A
\* thread that keeps trying read_slots gets it, for the mutex is held for an
\* instant every CONNECTION_POLL.
QueueSpec == Spec /\ \A r \in Readers : SF_vars(QueueStep(r))

-----------------------------------------------------------------------------
(* Properties *)

Count(labels) == Cardinality({r \in Readers : pc[r] \in labels})

TypeOK ==
    /\ engine \in Writers \cup {Free}
    /\ slots \in 0 .. MaxConcurrentReads
    /\ queued_reads \in 0 .. Cardinality(Readers) /\ active_reads \in 0 .. MaxConcurrentReads
    /\ queued_writes \in 0 .. Cardinality(Writers) /\ active_writes \in 0 .. 1
    /\ active \in [Operations -> Phases]
    /\ Cardinality(ActiveOperations) <= MaxReadOperations
    /\ cancelled \subseteq Operations /\ accepted \subseteq Operations /\ expired \subseteq Readers
    /\ terminal \in Seq([id : Operations, outcome : Outcomes])
    /\ Len(terminal) <= MaxTombstones
    /\ shutdown \in BOOLEAN
    /\ proposed \in [Readers -> Outcomes \cup {"none"}] /\ answer \in [Readers -> Outcomes \cup {"none"}]

\* No path through admission, cancellation, timeout and shutdown leaks or
\* returns twice a slot, and the gauges of stats() count what they name.
SlotsAreConserved ==
    /\ slots = Count(Admitted \cup Running)
    /\ queued_reads = Count(InQueue \cup Admitted)
    /\ active_reads = Count(Running)
    /\ active_writes = IF engine = Free THEN 0 ELSE 1

\* A cancellation that was answered Accepted decides the operation: the caller
\* of the read is never told that it completed, however late the cancellation.
AcceptedCancelWins == \A o \in accepted : answer[o] \in {"none", "Cancelled"}

\* What a late cancellation is told about a terminal operation is what the
\* caller of the read was told.
TombstonesTellTheAnswer == \A t \in told : answer[t.id] = t.outcome

\* A slot that is free does not stay free while a read waits for one, although
\* the only thread a release wakes may leave with an error and cancel() may
\* notify a thread that is not yet waiting.
FreeSlotIsTaken == []<>(slots = MaxConcurrentReads \/ \A r \in Readers : pc[r] \notin InQueue)

\* Cancellation, shutdown and the deadline get a read out of the queue while all
\* the slots stay taken and nobody else makes progress.
QueueHonoursControl == \A r \in Readers : (pc[r] \in InQueue /\ Stopped(r)) ~> pc[r] \notin InQueue
=============================================================================
