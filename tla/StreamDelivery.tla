--------------------------- MODULE StreamDelivery ---------------------------
(***************************************************************************)
(* Delivery of streamed reads over TCP: for each stream a connection       *)
(* worker (handle_stream_request) and a detached producer thread           *)
(* (stream::produce) joined by a channel bounded in frames and in bytes,   *)
(* and the server that drains its connections at shutdown.  The way of a   *)
(* read to its snapshot is the subject of ReadService; here the query      *)
(* yields its rows one after the other and may fail after any of them.     *)
(***************************************************************************)
EXTENDS Integers, Sequences, FiniteSets, FiniteSetsExt, SequencesExt

CONSTANTS
    Streams,           \* stream requests, each on a connection of its own
    ResultRows,        \* number of rows of the query
    BigRows,           \* rows whose frame has two bytes, all others have one
    NoFrame,
    MaxQueuedFrames,   \* MAX_QUEUED_FRAMES
    MaxQueuedBytes,    \* MAX_QUEUED_BYTES
    MaxEmittedBytes    \* MAX_EMITTED_BYTES

ASSUME ConstantsAssumption ==
    /\ IsFiniteSet(Streams)
    /\ {ResultRows, MaxEmittedBytes} \subseteq Nat
    /\ BigRows \subseteq Nat
    /\ MaxQueuedFrames \in Nat \ {0} /\ MaxQueuedBytes \in Nat \ {0}

VARIABLES
    worker,     \* connection worker: where it is, or how it ended
    producer,   \* producer thread
    frame,      \* the frame the producer is sending
    channel,    \* sync_channel between them
    hand,       \* the chunk the worker is writing
    used,       \* ByteBudget.used
    emitted,    \* PipelineFrameSink.emitted_rows
    encoded,    \* PipelineFrameSink.encoded_bytes
    proposed,   \* how the execution ended
    outcome,    \* terminal outcome in the operation registry
    written,    \* frames completely written to the socket
    cancelled, expired, shutdown,
    late,       \* streams whose TERMINAL_SEND_TIMEOUT has passed
    server      \* serve_until_concurrent: "serving", "draining", "returned"

ends == <<worker, producer>>
pipe == <<frame, channel, hand, used, written>>
sink == <<emitted, encoded>>
verdict == <<proposed, outcome>>
signals == <<cancelled, expired, shutdown, late>>
vars == <<ends, pipe, sink, verdict, signals, server>>

Frame(kind, n) == [kind |-> kind, n |-> n]
Terminals == {"complete", "error"}
Frames == {Frame("schema", 0)} \cup {Frame("row", n) : n \in 0..ResultRows}
          \cup {Frame(kind, n) : kind \in Terminals, n \in 0..ResultRows}
Bytes(f) == IF f.kind = "row" /\ f.n \in BigRows THEN 2 ELSE 1

Gone == {"broken", "closed"}          \* the worker has returned
Holds == {"sending", "trying", "ending"}   \* the producer holds a reservation

Init ==
    /\ worker = [s \in Streams |-> "idle"] /\ producer = [s \in Streams |-> "none"]
    /\ frame = [s \in Streams |-> NoFrame] /\ hand = [s \in Streams |-> NoFrame]
    /\ channel = [s \in Streams |-> <<>>] /\ written = [s \in Streams |-> <<>>]
    /\ used = [s \in Streams |-> 0]
    /\ emitted = [s \in Streams |-> 0] /\ encoded = [s \in Streams |-> 0]
    /\ proposed = [s \in Streams |-> "none"] /\ outcome = [s \in Streams |-> "none"]
    /\ cancelled = {} /\ expired = {} /\ shutdown = FALSE /\ late = {}
    /\ server = "serving"

Set(f, s, value) == [f EXCEPT ![s] = value]
Stopped(s) == s \in cancelled \/ shutdown \/ s \in expired
-----------------------------------------------------------------------------
(* The connection worker.                                                  *)

Accept(s) ==
    /\ worker[s] = "idle" /\ server = "serving" /\ ~shutdown
    /\ worker' = Set(worker, s, "flushing")
    /\ UNCHANGED <<producer, pipe, sink, verdict, signals, server>>

\* The producer starts once the accepted frame is flushed; a connection that
\* breaks before withdraws the operation.
FlushAccepted(s) ==
    /\ worker[s] = "flushing"
    /\ \/ /\ worker' = Set(worker, s, "receiving")
          /\ producer' = Set(producer, s, "running")
          /\ encoded' = Set(encoded, s, 1)
       \/ worker' = Set(worker, s, "broken") /\ UNCHANGED <<producer, encoded>>
    /\ UNCHANGED <<pipe, emitted, verdict, signals, server>>

ReceiveOrClose(s, ended) ==
    /\ worker[s] = "receiving"
    /\ \/ /\ channel[s] # <<>>
          /\ hand' = Set(hand, s, Head(channel[s]))
          /\ channel' = Set(channel, s, Tail(channel[s]))
          /\ worker' = Set(worker, s, "writing")
       \/ /\ channel[s] = <<>> /\ ended
          /\ worker' = Set(worker, s, "closed")
          /\ UNCHANGED <<hand, channel>>
    /\ UNCHANGED <<producer, frame, used, written, sink, verdict, signals, server>>

\* The worker waits for a terminal frame instead of the end of the channel.
ReceiveUntilTerminal(s) ==
    ReceiveOrClose(s, written[s] # <<>> /\ Last(written[s]).kind \in Terminals)

\* The loop over the receiver ends when the sender is gone.
Receive(s) == ReceiveOrClose(s, producer[s] = "done")

\* write_all and flush return; dropping the chunk gives its bytes back.
WriteFrame(s) ==
    /\ worker[s] = "writing"
    /\ written' = Set(written, s, Append(written[s], hand[s]))
    /\ used' = Set(used, s, used[s] - Bytes(hand[s]))
    /\ hand' = Set(hand, s, NoFrame)
    /\ worker' = Set(worker, s, "receiving")
    /\ UNCHANGED <<producer, frame, channel, sink, verdict, signals, server>>

Break(s, left) ==
    /\ worker[s] = "writing"
    /\ hand' = Set(hand, s, NoFrame)
    /\ channel' = Set(channel, s, <<>>)
    /\ used' = Set(used, s, left)
    /\ worker' = Set(worker, s, "broken")
    /\ UNCHANGED <<producer, frame, written, sink, verdict, signals, server>>

\* The chunk the worker was writing keeps its reservation.
WriteFailsKeepsBytes(s) ==
    Break(s, Bytes(hand[s]) + IF producer[s] \in Holds THEN Bytes(frame[s]) ELSE 0)

\* The client is gone or reads nothing for STREAM_WRITE_TIMEOUT: the worker
\* returns, and the receiver drops the queued chunks with their reservations.
WriteFails(s) == Break(s, IF producer[s] \in Holds THEN Bytes(frame[s]) ELSE 0)
-----------------------------------------------------------------------------
(* The producer.                                                           *)

\* The execution ends with this result; a reservation in hand is dropped.
EndExecution(s, result) ==
    /\ proposed' = Set(proposed, s, result)
    /\ producer' = Set(producer, s, "finishing")
    /\ frame' = Set(frame, s, NoFrame)
    /\ used' = Set(used, s, IF producer[s] \in Holds THEN used[s] - Bytes(frame[s]) ELSE used[s])
    /\ UNCHANGED <<worker, channel, hand, written, sink, outcome, signals, server>>

StopResult(s) == IF s \in cancelled THEN "Cancelled" ELSE "Failed"

Offer(s, f) ==
    /\ frame' = Set(frame, s, f)
    /\ producer' = Set(producer, s, "reserving")
    /\ UNCHANGED <<worker, channel, hand, used, written, sink, verdict, signals, server>>

\* The frame after the last one that was sent.
NextFrame(s) == IF encoded[s] = 1 THEN Frame("schema", 0) ELSE Frame("row", emitted[s])
NextFrameDue(s) == encoded[s] = 1 \/ emitted[s] < ResultRows

\* QueryRowSink::begin and ::row up to the reservation, and the query between them.
Produce(s) ==
    /\ producer[s] = "running"
    /\ \/ Stopped(s) /\ EndExecution(s, StopResult(s))
       \/ EndExecution(s, "Failed")                          \* the query fails
       \/ ~NextFrameDue(s) /\ EndExecution(s, "Completed")
       \/ /\ NextFrameDue(s) /\ (Stopped(s) => encoded[s] = 1)
          /\ IF encoded[s] + Bytes(NextFrame(s)) > MaxEmittedBytes
                \/ Bytes(NextFrame(s)) > MaxQueuedBytes
             THEN EndExecution(s, "Failed")                  \* E_STREAM_LIMIT
             ELSE Offer(s, NextFrame(s))

ReserveIf(s, room) ==
    /\ producer[s] = "reserving"
    /\ IF room
       THEN /\ used' = Set(used, s, used[s] + Bytes(frame[s]))
            /\ producer' = Set(producer, s, "sending")
            /\ UNCHANGED <<worker, frame, channel, hand, written, sink, verdict, signals, server>>
       ELSE Stopped(s) /\ EndExecution(s, StopResult(s))

\* Any frame fits while the budget is not used up.
ReserveWhileAnyLeft(s) == ReserveIf(s, used[s] < MaxQueuedBytes)

\* ByteBudget::reserve of a frame of the result
Reserve(s) == ReserveIf(s, used[s] + Bytes(frame[s]) <= MaxQueuedBytes)

Push(s, next) ==
    /\ Len(channel[s]) < MaxQueuedFrames
    /\ channel' = Set(channel, s, Append(channel[s], frame[s]))
    /\ frame' = Set(frame, s, NoFrame)
    /\ producer' = Set(producer, s, next)
    /\ UNCHANGED <<worker, hand, used, written, verdict, signals, server>>

\* The checkpoint before every attempt to send.
Checkpoint(s) ==
    /\ producer[s] = "sending"
    /\ IF Stopped(s)
       THEN EndExecution(s, StopResult(s))
       ELSE /\ producer' = Set(producer, s, "trying")
            /\ UNCHANGED <<worker, pipe, sink, verdict, signals, server>>

SendOrRetry(s, disconnected) ==
    /\ producer[s] = "trying"
    /\ \/ disconnected /\ EndExecution(s, "Cancelled")
       \/ /\ ~disconnected /\ Len(channel[s]) >= MaxQueuedFrames
          /\ producer' = Set(producer, s, "sending")
          /\ UNCHANGED <<worker, pipe, sink, verdict, signals, server>>
       \/ /\ ~disconnected /\ Push(s, "running")
          /\ encoded' = Set(encoded, s, encoded[s] + Bytes(frame[s]))
          /\ emitted' = Set(emitted, s, emitted[s] + IF frame[s].kind = "row" THEN 1 ELSE 0)

\* A channel without receiver is taken for a full one.
SendRetriesDisconnected(s) ==
    IF worker[s] \in Gone
    THEN /\ producer[s] = "trying"
         /\ producer' = Set(producer, s, "sending")
         /\ UNCHANGED <<worker, pipe, sink, verdict, signals, server>>
    ELSE SendOrRetry(s, FALSE)

\* try_send of send_frame_controlled
Send(s) == SendOrRetry(s, worker[s] \in Gone)

Finished(s, result, terminal) ==
    /\ producer[s] = "finishing"
    /\ outcome' = Set(outcome, s, result)
    /\ frame' = Set(frame, s, terminal)
    /\ producer' = Set(producer, s, "reserving_end")
    /\ UNCHANGED <<worker, channel, hand, used, written, sink, proposed, signals, server>>

TerminalFrame(s, result) ==
    Frame(IF result = "Completed" THEN "complete" ELSE "error", emitted[s])

\* The terminal frame is chosen before the registry has decided.
FinishFramesProposal(s) ==
    LET result == IF s \in cancelled THEN "Cancelled" ELSE proposed[s]
    IN  Finished(s, result, TerminalFrame(s, proposed[s]))

\* The terminal frame counts the row that could not be sent.
FinishCountsUnsent(s) ==
    LET result == IF s \in cancelled THEN "Cancelled" ELSE proposed[s]
    IN  Finished(s, result, Frame(TerminalFrame(s, result).kind,
                                  IF emitted[s] < ResultRows THEN emitted[s] + 1 ELSE emitted[s]))

\* finish: the registry turns the proposal into the outcome the frame reports.
Finish(s) ==
    LET result == IF s \in cancelled THEN "Cancelled" ELSE proposed[s]
    IN  Finished(s, result, TerminalFrame(s, result))

\* The terminal frame is not bound by the control, only by TERMINAL_SEND_TIMEOUT.
ReserveTerminal(s) ==
    /\ producer[s] = "reserving_end"
    /\ used[s] + Bytes(frame[s]) <= MaxQueuedBytes
    /\ used' = Set(used, s, used[s] + Bytes(frame[s]))
    /\ producer' = Set(producer, s, "ending")
    /\ UNCHANGED <<worker, frame, channel, hand, written, sink, verdict, signals, server>>

SendTerminal(s) ==
    /\ producer[s] = "ending" /\ worker[s] \notin Gone /\ s \notin late
    /\ Push(s, "done")
    /\ UNCHANGED sink

\* The terminal frame finds no room.
TerminalBlocked(s) ==
    \/ producer[s] = "ending" /\ Len(channel[s]) >= MaxQueuedFrames
    \/ producer[s] = "reserving_end" /\ used[s] + Bytes(frame[s]) > MaxQueuedBytes

\* The receiver is gone, or the deadline of the terminal frame has passed.
TerminalUnsent(s) ==
    /\ \/ producer[s] = "ending" /\ (worker[s] \in Gone \/ s \in late)
       \/ producer[s] = "reserving_end" /\ s \in late /\ TerminalBlocked(s)
    /\ producer' = Set(producer, s, "done")
    /\ frame' = Set(frame, s, NoFrame)
    /\ used' = Set(used, s, IF producer[s] \in Holds THEN used[s] - Bytes(frame[s]) ELSE used[s])
    /\ UNCHANGED <<worker, channel, hand, written, sink, verdict, signals, server>>
-----------------------------------------------------------------------------
(* Control from outside.                                                   *)

\* A cancel request that the registry answers with Accepted.
Cancel(s) ==
    /\ worker[s] # "idle" /\ outcome[s] = "none"
    /\ producer[s] = "none" => worker[s] = "flushing"
    /\ s \notin cancelled
    /\ cancelled' = cancelled \cup {s}
    /\ UNCHANGED <<ends, pipe, sink, verdict, expired, shutdown, late, server>>

DeadlinePasses(s) ==
    /\ s \notin expired /\ worker[s] # "idle"
    /\ expired' = expired \cup {s}
    /\ UNCHANGED <<ends, pipe, sink, verdict, cancelled, shutdown, late, server>>

\* The terminal frame waits for longer than TERMINAL_SEND_TIMEOUT: a worker may
\* spend that time in a write_all whose writes each make some progress.
TerminalDeadlinePasses(s) ==
    /\ TerminalBlocked(s) /\ worker[s] = "writing"
    /\ late' = late \cup {s}
    /\ UNCHANGED <<ends, pipe, sink, verdict, cancelled, expired, shutdown, server>>

Shutdown ==
    /\ ~shutdown /\ shutdown' = TRUE
    /\ UNCHANGED <<ends, pipe, sink, verdict, cancelled, expired, late, server>>

\* The accept loop sees the flag; then the server waits for stats.active = 0.
Drain ==
    /\ \/ server = "serving" /\ shutdown /\ server' = "draining"
       \/ /\ server = "draining" /\ \A s \in Streams : worker[s] \in Gone \cup {"idle"}
          /\ server' = "returned"
    /\ UNCHANGED <<ends, pipe, sink, verdict, signals>>

WorkerStep(s) == FlushAccepted(s) \/ Receive(s) \/ WriteFrame(s) \/ WriteFails(s)
ProducerStep(s) ==
    \/ Produce(s) \/ Reserve(s) \/ Checkpoint(s) \/ Send(s)
    \/ Finish(s) \/ ReserveTerminal(s) \/ SendTerminal(s) \/ TerminalUnsent(s)

Next ==
    \/ \E s \in Streams : Accept(s) \/ WorkerStep(s) \/ ProducerStep(s)
    \/ \E s \in Streams : Cancel(s) \/ DeadlinePasses(s) \/ TerminalDeadlinePasses(s)
    \/ Shutdown
    \/ Drain

Spec == Init /\ [][Next]_vars

\* Threads run: every socket write and every wait in the code has a timeout.
FairSpec ==
    /\ Spec
    /\ \A s \in Streams : WF_vars(WorkerStep(s)) /\ WF_vars(ProducerStep(s))
    /\ WF_vars(Drain)
-----------------------------------------------------------------------------
(* Properties.                                                             *)

TypeOK ==
    /\ worker \in [Streams -> {"idle", "flushing", "receiving", "writing"} \cup Gone]
    /\ producer \in [Streams -> {"none", "running", "reserving", "finishing",
                                 "reserving_end", "done"} \cup Holds]
    /\ frame \in [Streams -> Frames \cup {NoFrame}] /\ hand \in [Streams -> Frames \cup {NoFrame}]
    /\ \A s \in Streams : channel[s] \in Seq(Frames) /\ Len(channel[s]) <= MaxQueuedFrames
    /\ \A s \in Streams : written[s] \in Seq(Frames)
    /\ used \in [Streams -> 0..MaxQueuedBytes]
    /\ emitted \in [Streams -> 0..ResultRows] /\ encoded \in [Streams -> 0..MaxEmittedBytes]
    /\ proposed \in [Streams -> {"none", "Completed", "Cancelled", "Failed"}]
    /\ outcome \in [Streams -> {"none", "Completed", "Cancelled", "Failed"}]
    /\ cancelled \subseteq Streams /\ expired \subseteq Streams /\ late \subseteq Streams
    /\ shutdown \in BOOLEAN
    /\ server \in {"serving", "draining", "returned"}

Held(f) == IF f = NoFrame THEN <<>> ELSE <<f>>

\* Everything that has been or will be written to the socket of a stream.
Wire(s) == written[s] \o Held(hand[s]) \o channel[s]

\* The frames of one stream, in the order and with the numbers the protocol
\* fixes: a schema, rows numbered from 0 without a gap, at most one terminal
\* frame, at the end; complete after every row of the result, error with the
\* exact number of rows before it.  An error may come before the schema.
IsFrameSequence(w) ==
    \A i \in 1..Len(w) :
        CASE w[i].kind = "schema"   -> i = 1
          [] w[i].kind = "row"      -> i > 1 /\ w[i].n = i - 2
          [] w[i].kind = "complete" -> i = Len(w) /\ w[i].n = ResultRows /\ i = ResultRows + 2
          [] w[i].kind = "error"    -> i = Len(w) /\ w[i].n = IF i = 1 THEN 0 ELSE i - 2

\* Whatever blocks, cancels, stops or breaks a stream (backpressure, deadline,
\* shutdown, a failing query), the client reads a correct prefix of a frame
\* sequence: no gap, no row after the terminal frame, no complete after a
\* partial result, no wrong count in an error.
WireIsFrameSequence == \A s \in Streams : IsFrameSequence(Wire(s))

\* The byte budget is exactly the frames in the channel and in the hands of the
\* two threads, on every path out of them: nothing leaks a reservation that
\* would block the terminal frame, nothing gives one back twice.
BytesAreAccounted ==
    \A s \in Streams :
        used[s] = MapThenSumSet(LAMBDA i : Bytes(channel[s][i]), DOMAIN channel[s])
                  + (IF hand[s] = NoFrame THEN 0 ELSE Bytes(hand[s]))
                  + (IF producer[s] \in Holds THEN Bytes(frame[s]) ELSE 0)

\* The terminal frame a client reads is the outcome the registry reports for the
\* operation: after an accepted cancellation no complete frame is ever sent,
\* and a complete frame is never followed by another answer to a cancel.
TerminalFrameTellsOutcome ==
    \A s \in Streams : \A i \in 1..Len(Wire(s)) :
        Wire(s)[i].kind \in Terminals =>
            /\ (Wire(s)[i].kind = "complete") = (outcome[s] = "Completed")
            /\ s \in cancelled => Wire(s)[i].kind = "error"

\* At shutdown every connection worker returns, and with them the server, though
\* nothing joins the producer threads they wait for: no worker waits for a
\* producer that waits for it.
ShutdownDrains == shutdown ~> server = "returned"

\* A producer that has started ends, also when its consumer has gone away while
\* the channel was full, and leaves a terminal outcome in the registry.
ProducersEnd ==
    \A s \in Streams : (producer[s] = "running") ~> (producer[s] = "done" /\ outcome[s] # "none")
=============================================================================
