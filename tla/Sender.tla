------------------------------- MODULE Sender -------------------------------
(***************************************************************************)
(* pkg/backends/sender: the goroutine that writes the streams of the       *)
(* graphite and statsdaemon backends to one connection at a time, and      *)
(* connects again when a write fails.  SendMetricsAsync hands it a stream  *)
(* (a context, a callback and a channel of buffers) through Sink and, in   *)
(* statsdaemon, fills the channel while it is read.                        *)
(*                                                                         *)
(* A buffer is a number, the errors of a stream are abstracted to whether  *)
(* there are any, and a write or a connection attempt may fail at any time.*)
(***************************************************************************)
EXTENDS Naturals, Sequences, FiniteSets

CONSTANTS
    Streams,            \* one for each call of SendMetricsAsync
    Bufs,               \* buffers a stream fills
    BufSize,            \* capacity of the channel Buf (sendChannelSize)
    SinkSize,           \* capacity of Sink (maxConcurrentSends)
    MaxOutstanding,     \* streams without a callback at a time: one for each worker
    MaxStreams,         \* maxStreamsPerConnection
    NoStream            \* a nil *Stream

VARIABLES
    submitted,          \* streams SendMetricsAsync was called for
    Sink,               \* the channel of streams
    produced, taken,    \* per stream: buffers put into Buf, and read from it
    closed,             \* streams whose Buf is closed
    ended,              \* streams whose context is done
    callbacks,          \* per stream: calls of Cb
    reported,           \* streams whose callback was given an error
    lost,               \* streams with a buffer that was not written
    pc,                 \* where Run is
    stream, errs,       \* Run: the current stream and whether it has errors
    sink,               \* Run: the variable sink is s.Sink, not nil
    streamCancel,       \* Run: the stream whose Done channel it watches
    streamCount,        \* innerRun: streams done on this connection
    cancelled           \* Run's context is done

clientVars == <<submitted, produced, closed, ended>>
cbVars == <<callbacks, reported>>
runVars == <<stream, errs, sink, streamCancel, streamCount>>
vars == <<clientVars, Sink, taken, cbVars, lost, pc, runVars, cancelled>>

Init ==
    /\ submitted = {}
    /\ Sink = <<>>
    /\ produced = [s \in Streams |-> 0]
    /\ taken = [s \in Streams |-> 0]
    /\ closed = {}
    /\ ended = {}
    /\ callbacks = [s \in Streams |-> 0]
    /\ reported = {}
    /\ lost = {}
    /\ pc = "connect"
    /\ stream = NoStream
    /\ errs = FALSE
    /\ sink = FALSE
    /\ streamCancel = NoStream
    /\ streamCount = 0
    /\ cancelled = FALSE

Callback(s, failed) ==
    /\ callbacks' = [callbacks EXCEPT ![s] = @ + 1]
    /\ reported' = IF failed THEN reported \cup {s} ELSE reported
-----------------------------------------------------------------------------
(* SendMetricsAsync                                                        *)

Outstanding == {s \in submitted : callbacks[s] = 0}

\* client.sender.Sink <- Stream{...}.  Run's context is done only after the
\* stages that call SendMetricsAsync have stopped.
Submit(s) ==
    /\ ~cancelled
    /\ s \notin submitted
    /\ Cardinality(Outstanding) < MaxOutstanding
    /\ Len(Sink) < SinkSize
    /\ submitted' = submitted \cup {s}
    /\ Sink' = Append(Sink, s)
    /\ UNCHANGED <<produced, closed, ended, taken, cbVars, lost, pc, runVars, cancelled>>

\* case <-ctx.Done(): cb([]error{ctx.Err()})
Refuse(s) ==
    /\ ~cancelled
    /\ s \notin submitted
    /\ s \in ended
    /\ submitted' = submitted \cup {s}
    /\ closed' = closed \cup {s}
    /\ Callback(s, TRUE)
    /\ UNCHANGED <<produced, ended, Sink, taken, lost, pc, runVars, cancelled>>

\* sink <- buf, until there is nothing left
Produce(s) ==
    /\ s \in submitted \ closed
    /\ produced[s] < Bufs
    /\ produced[s] - taken[s] < BufSize
    /\ produced' = [produced EXCEPT ![s] = @ + 1]
    /\ UNCHANGED <<submitted, closed, ended, Sink, taken, cbVars, lost, pc, runVars,
                   cancelled>>

\* defer close(sink), after the last buffer or when the context is done
Close(s) ==
    /\ s \in submitted \ closed
    /\ produced[s] = Bufs \/ s \in ended
    /\ closed' = closed \cup {s}
    /\ UNCHANGED <<submitted, produced, ended, Sink, taken, cbVars, lost, pc, runVars,
                   cancelled>>

ContextEnds(s) ==
    /\ s \notin ended
    /\ ended' = ended \cup {s}
    /\ UNCHANGED <<submitted, produced, closed, Sink, taken, cbVars, lost, pc, runVars,
                   cancelled>>
-----------------------------------------------------------------------------
(* Run                                                                     *)

\* The top of the inner loop of Run: sink and streamCancel are set, and never
\* cleared here.
BackoffTop(st, snk, cancel) ==
    /\ sink' = IF st = NoStream THEN TRUE ELSE snk
    /\ streamCancel' = IF st = NoStream THEN cancel ELSE st

\* Mutant: the errors of a stream are those of its last connection.
ConnectForgetsErrors ==
    /\ pc = "connect"
    /\ pc' = "inner"
    /\ streamCount' = 0
    /\ errs' = FALSE
    /\ UNCHANGED <<clientVars, Sink, taken, cbVars, lost, stream, sink, streamCancel, cancelled>>

Connect ==
    /\ pc = "connect"
    /\ pc' = "inner"
    /\ streamCount' = 0
    /\ UNCHANGED <<clientVars, Sink, taken, cbVars, lost, stream, errs, sink, streamCancel,
                   cancelled>>

ConnectFails ==
    /\ pc = "connect"
    /\ pc' = "backoff"
    /\ BackoffTop(stream, sink, streamCancel)
    /\ UNCHANGED <<clientVars, Sink, taken, cbVars, lost, stream, errs, streamCount,
                   cancelled>>

\* case st := <-sink
BackoffTake ==
    /\ pc = "backoff"
    /\ sink
    /\ Sink # <<>>
    /\ stream' = Head(Sink)
    /\ Sink' = Tail(Sink)
    /\ BackoffTop(Head(Sink), FALSE, streamCancel)
    /\ UNCHANGED <<clientVars, taken, cbVars, lost, pc, errs, streamCount, cancelled>>

\* Mutant: the stream that was called back stays the current one.
BackoffStreamCancelKeepsStream ==
    /\ pc = "backoff"
    /\ streamCancel \in ended
    /\ IF stream = NoStream
       THEN /\ pc' = "panic"
            /\ UNCHANGED <<cbVars, stream, errs, sink, streamCancel>>
       ELSE /\ Callback(stream, TRUE)
            /\ errs' = FALSE
            /\ BackoffTop(stream, sink, NoStream)
            /\ UNCHANGED <<pc, stream>>
    /\ UNCHANGED <<clientVars, Sink, taken, lost, streamCount, cancelled>>

\* case <-streamCancel: with no stream, stream.Cb is a nil dereference.
BackoffStreamCancel ==
    /\ pc = "backoff"
    /\ streamCancel \in ended
    /\ IF stream = NoStream
       THEN /\ pc' = "panic"
            /\ UNCHANGED <<cbVars, stream, errs, sink, streamCancel>>
       ELSE /\ Callback(stream, TRUE)
            /\ stream' = NoStream
            /\ errs' = FALSE
            /\ BackoffTop(NoStream, sink, NoStream)
            /\ UNCHANGED pc
    /\ UNCHANGED <<clientVars, Sink, taken, lost, streamCount, cancelled>>

\* case <-timer.C
BackoffTimer ==
    /\ pc = "backoff"
    /\ pc' = "connect"
    /\ UNCHANGED <<clientVars, Sink, taken, cbVars, lost, runVars, cancelled>>

\* case <-ctx.Done(); the deferred callback of the current stream.
BackoffDone ==
    /\ pc = "backoff"
    /\ cancelled
    /\ IF stream = NoStream THEN UNCHANGED cbVars ELSE Callback(stream, TRUE)
    /\ stream' = NoStream
    /\ errs' = TRUE
    /\ pc' = "cleanup"
    /\ UNCHANGED <<clientVars, Sink, taken, lost, sink, streamCancel, streamCount,
                   cancelled>>
-----------------------------------------------------------------------------
(* innerRun                                                                *)

InnerTake ==
    /\ pc = "inner"
    /\ stream = NoStream
    /\ Sink # <<>>
    /\ stream' = Head(Sink)
    /\ Sink' = Tail(Sink)
    /\ UNCHANGED <<clientVars, taken, cbVars, lost, pc, errs, sink, streamCancel,
                   streamCount, cancelled>>

InnerDone ==
    /\ pc = "inner"
    /\ stream = NoStream
    /\ cancelled
    /\ errs' = TRUE
    /\ pc' = "cleanup"
    /\ UNCHANGED <<clientVars, Sink, taken, cbVars, lost, stream, sink, streamCancel,
                   streamCount, cancelled>>

HasBuffer(s) == taken[s] < produced[s]

Write ==
    /\ pc = "inner"
    /\ stream # NoStream
    /\ HasBuffer(stream)
    /\ taken' = [taken EXCEPT ![stream] = @ + 1]
    /\ UNCHANGED <<clientVars, Sink, cbVars, lost, pc, runVars, cancelled>>

\* The buffer is gone; Run adds the error to errs and connects again.
WriteFails ==
    /\ pc = "inner"
    /\ stream # NoStream
    /\ HasBuffer(stream)
    /\ taken' = [taken EXCEPT ![stream] = @ + 1]
    /\ lost' = lost \cup {stream}
    /\ errs' = TRUE
    /\ pc' = "connect"
    /\ UNCHANGED <<clientVars, Sink, cbVars, stream, sink, streamCancel, streamCount,
                   cancelled>>

\* Buf is closed and empty: stream.Cb(errs), and a new connection after the
\* last stream for this one.
StreamEnds ==
    /\ pc = "inner"
    /\ stream \in closed
    /\ ~HasBuffer(stream)
    /\ Callback(stream, errs)
    /\ stream' = NoStream
    /\ errs' = FALSE
    /\ streamCount' = streamCount + 1
    /\ pc' = IF streamCount + 1 < MaxStreams THEN "inner" ELSE "connect"
    /\ UNCHANGED <<clientVars, Sink, taken, lost, sink, streamCancel, cancelled>>

\* cleanup: the streams left in Sink are called back.
Cleanup ==
    /\ pc = "cleanup"
    /\ IF Sink = <<>>
       THEN /\ pc' = "returned"
            /\ UNCHANGED <<Sink, cbVars>>
       ELSE /\ Callback(Head(Sink), TRUE)
            /\ Sink' = Tail(Sink)
            /\ UNCHANGED pc
    /\ UNCHANGED <<clientVars, taken, lost, runVars, cancelled>>

Cancel ==
    /\ ~cancelled
    /\ cancelled' = TRUE
    /\ UNCHANGED <<clientVars, Sink, taken, cbVars, lost, pc, runVars>>
-----------------------------------------------------------------------------
Client(s) == Submit(s) \/ Refuse(s) \/ Produce(s) \/ Close(s)

\* Everything Run does by itself once it has a connection, or is done.
Progress ==
    \/ InnerTake
    \/ InnerDone
    \/ Write
    \/ WriteFails
    \/ StreamEnds
    \/ Cleanup

Backoff == BackoffTake \/ BackoffStreamCancel \/ BackoffTimer \/ BackoffDone

Next ==
    \/ \E s \in Streams : Client(s) \/ ContextEnds(s)
    \/ Connect
    \/ ConnectFails
    \/ Backoff
    \/ Progress
    \/ Cancel

Spec == Init /\ [][Next]_vars

\* Run and the callers of SendMetricsAsync are scheduled, the 1s timer fires,
\* and the server cannot be unreachable for ever.
FairSpec ==
    /\ Spec
    /\ \A s \in Streams : WF_vars(Produce(s)) /\ WF_vars(Close(s))
    /\ WF_vars(Progress)
    /\ WF_vars(Backoff)
    /\ SF_vars(BackoffTimer)
    /\ SF_vars(Connect)
-----------------------------------------------------------------------------
(* Properties                                                              *)

\* The types of the sender's state.
TypeOK ==
    /\ submitted \subseteq Streams
    /\ Sink \in Seq(Streams)
    /\ Len(Sink) <= SinkSize
    /\ produced \in [Streams -> 0..Bufs]
    /\ taken \in [Streams -> 0..Bufs]
    /\ closed \subseteq Streams
    /\ ended \subseteq Streams
    /\ callbacks \in [Streams -> Nat]
    /\ reported \subseteq Streams
    /\ lost \subseteq Streams
    /\ pc \in {"connect", "backoff", "inner", "cleanup", "returned", "panic"}
    /\ stream \in Streams \cup {NoStream}
    /\ errs \in BOOLEAN
    /\ sink \in BOOLEAN
    /\ streamCancel \in Streams \cup {NoStream}
    /\ streamCount \in 0..MaxStreams
    /\ cancelled \in BOOLEAN

\* Where a stream is: how often in Sink, with Run, and how often it was called back.
Places(s) ==
    Cardinality({k \in DOMAIN Sink : Sink[k] = s}) + (IF stream = s THEN 1 ELSE 0) + callbacks[s]

\* A stream that was accepted is in Sink, is Run's, or has been called back, and only one of
\* these: without an owner it would never be called back.
OwnedUntilCalledBack == \A s \in submitted : Places(s) = 1

\* A stream is called back no more than once, whichever of SendMetricsAsync, the backoff,
\* innerRun, the deferred function and cleanup does it, and whoever calls it back has parted
\* with it: a second call would make the WaitGroup of the flush negative.  This holds with
\* several streams at a time too, some of which may then have no owner at all.
CalledBackAtMostOnce == \A s \in submitted : Places(s) <= 1

\* The callback of a stream that lost a buffer to a failed write is given an error, over as
\* many connections as the stream takes; and when Run has no stream it has no errors to give
\* to the callback of the next.
LossIsReported ==
    /\ \A s \in lost : callbacks[s] > 0 => s \in reported
    /\ stream = NoStream /\ pc \in {"connect", "backoff", "inner"} => ~errs

\* Whoever has a stream that was not called back does not keep it for ever: every stream that
\* is in Sink or Run's is called back in the end.  "SendCallback is called by
\* Backend.SendMetricsAsync() to notify about the result of operation", and a flush waits for
\* it.  That streams submitted while another one is under way may lose their owner is a matter
\* of OwnedUntilCalledBack.  The exception is a Run that was woken, in a backoff without a
\* stream, by the context of an earlier one, and calls a nil callback.  (There are finitely
\* many streams, so that again and again nobody has one.)
EveryStreamIsCalledBack ==
    []<>((\A s \in Outstanding : Places(s) = 0) \/ pc = "panic")
=============================================================================
