---------------------------- MODULE MC_Backends ----------------------------
(***************************************************************************)
(* The backends for TLC: one that posts over HTTP, or one that writes to a *)
(* connection through a Sender.  The choice is made once, and the other    *)
(* one stays as it was created.                                            *)
(*                                                                         *)
(* Over HTTP there are a flush of three metrics, one of them without       *)
(* series, another of one metric, and an event.                            *)
(***************************************************************************)
EXTENDS HttpBackend, Sequences

CONSTANTS Second, Streams, Bufs, BufSize, SinkSize, MaxOutstanding, MaxStreams, NoStream

MCWidth == [m \in Metrics |-> IF m = "timer" THEN 0 ELSE IF m = "counter" THEN 2 ELSE 1]
MCMetricMap == [f \in Flushes |-> IF f = Second THEN {"counter"} ELSE Metrics]

VARIABLES transport, submitted, sSink, produced, taken, closed, ended, callbacks, reported,
          lost, pc, stream, errs, sink, streamCancel, streamCount, cancelled

S == INSTANCE Sender WITH Sink <- sSink

senderVars == <<submitted, sSink, produced, taken, closed, ended, callbacks, reported, lost, pc,
                stream, errs, sink, streamCancel, streamCount, cancelled>>

BackendsInit ==
    /\ Init
    /\ S!Init
    /\ transport \in {"http", "stream"}
    /\ transport = "stream" => kind = "datadog"

BackendsNext ==
    \/ transport = "http" /\ Next /\ UNCHANGED <<transport, senderVars>>
    \/ transport = "stream" /\ S!Next /\ UNCHANGED <<transport, vars>>

Streaming(A) == transport = "stream" /\ A

BackendsSpec ==
    /\ BackendsInit
    /\ [][BackendsNext]_<<transport, vars, senderVars>>
    /\ WF_vars(transport = "http" /\ up /\ Step)
    /\ \A s \in Streams : WF_senderVars(Streaming(S!Produce(s))) /\ WF_senderVars(Streaming(S!Close(s)))
    /\ WF_senderVars(Streaming(S!Progress))
    /\ WF_senderVars(Streaming(S!Backoff))
    /\ SF_senderVars(Streaming(S!BackoffTimer))
    /\ SF_senderVars(Streaming(S!Connect))

\* No stream is called back twice, or kept after it was called back (see Sender).
CalledBackAtMostOnce == S!CalledBackAtMostOnce

\* What a stream loses its callback is told of (see Sender).
StreamLossIsReported == S!LossIsReported

\* Every flush is called back, over HTTP with all the buffers back in their channels, and over
\* a Sender if it has not lost the stream (see HttpBackend and Sender).
EverySendIsCalledBack == (transport = "http" => EveryFlushIsCalledBack) /\ S!EveryStreamIsCalledBack
=============================================================================
