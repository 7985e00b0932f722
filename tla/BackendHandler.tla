--------------------------- MODULE BackendHandler ---------------------------
(***************************************************************************)
(* The standalone sink: handler_backend.go, worker.go and flusher.go.      *)
(*                                                                         *)
(* Dispatchers (parsers and whatever else feeds the pipeline) split a      *)
(* MetricMap by worker and queue the parts.  Every worker owns one         *)
(* aggregator; in a select it either merges a queued map or executes a     *)
(* command.  Process hands a command to each worker in turn and returns a  *)
(* WaitGroup; it has two concurrent callers, the flusher (Flush, Process,  *)
(* Reset of the aggregator) and RunMetrics.  Sending to the backends is    *)
(* asynchronous and ends with a callback.  The stager cancels the stages   *)
(* one after the other, each when the goroutines of the one before are     *)
(* gone.                                                                   *)
(*                                                                         *)
(* A MetricMap, like the content of an aggregator, is the set of data      *)
(* points merged into it: contributions to counters, timers and sets,      *)
(* which Reset clears (gauges survive it, see Aggregator).  Bucket says    *)
(* which worker the series of a point belongs to.                          *)
(***************************************************************************)
EXTENDS Integers, Sequences, FiniteSets

CONSTANTS
    Points,         \* data points
    Dispatchers,    \* goroutines calling DispatchMetricMap
    Backends,
    NumWorkers,
    QueueSize,      \* perWorkerBufferSize, cap(metricMapQueue)
    Bucket          \* the worker of each point

Workers == 1..NumWorkers

ASSUME NumWorkersAssumption == NumWorkers \in Nat \ {0}
ASSUME QueueSizeAssumption == QueueSize \in Nat \ {0}
ASSUME BucketAssumption == Bucket \in [Points -> Workers]
ASSUME BackendsAssumption == IsFiniteSet(Backends)

Callers == {"flusher", "metrics"}       \* of Process
Feeders == Dispatchers \cup {"flusher"} \* of DispatchMetricMap
ASSUME FeedersAssumption == {"flusher", "metrics", "run"} \cap Dispatchers = {}

VARIABLES
    submitted,      \* points some feeder has dispatched
    rest,           \* what a feeder's DispatchMetricMap still has to queue
    running,        \* dispatchers whose Run has not returned
    queue,          \* metricMapQueue of each worker
    closed,         \* workers whose queue has been closed
    wpc,            \* where each worker is
    cmd,            \* the caller whose command a worker executes
    aggr,           \* the aggregator of each worker
    toSend,         \* backends a worker still has to hand its map to
    cpc,            \* where each caller of Process is
    cmdSent,        \* cmdSent of each caller
    wg,             \* the WaitGroup of each call of Process
    sendWg,         \* the WaitGroup of flushData
    callbacks,      \* sends in progress, as <<worker, backend>>
    delivered,      \* how often each backend was handed each point
    dropped,        \* points dropped because a context was done
    phase           \* how far the shutdown has come

feedVars == <<submitted, rest, running, dropped>>
workerVars == <<queue, wpc, cmd, aggr, toSend>>
callerVars == <<cpc, cmdSent, wg>>
sendVars == <<sendWg, callbacks, delivered>>
vars == <<feedVars, workerVars, callerVars, sendVars, closed, phase>>

Init ==
    /\ submitted = {}
    /\ rest = [d \in Feeders |-> {}]
    /\ running = Dispatchers
    /\ queue = [w \in Workers |-> <<>>]
    /\ closed = {}
    /\ wpc = [w \in Workers |-> "select"]
    /\ cmd = [w \in Workers |-> "none"]
    /\ aggr = [w \in Workers |-> {}]
    /\ toSend = [w \in Workers |-> {}]
    /\ cpc = [c \in Callers |-> "idle"]
    /\ cmdSent = [c \in Callers |-> 0]
    /\ wg = [c \in Callers |-> 0]
    /\ sendWg = 0
    /\ callbacks = {}
    /\ delivered = [b \in Backends |-> [p \in Points |-> 0]]
    /\ dropped = {}
    /\ phase = 0

(* The context of a stage: the stager cancels the dispatchers first, then  *)
(* the flusher, then RunMetrics, and BackendHandler.Run last.              *)
Done(actor) ==
    CASE actor \in Dispatchers -> phase >= 1
      [] actor = "flusher" -> phase >= 2
      [] actor = "metrics" -> phase >= 3
      [] actor = "run" -> phase >= 4

-----------------------------------------------------------------------------
(* DispatchMetricMap.                                                      *)

DispatchStart(d, mm) ==
    /\ d \in running
    /\ rest[d] = {}
    /\ mm # {}
    /\ mm \cap submitted = {}
    /\ rest' = [rest EXCEPT ![d] = mm]
    /\ submitted' = submitted \cup mm
    /\ UNCHANGED <<running, dropped, workerVars, callerVars, sendVars, closed, phase>>

\* The loop visits the non-empty parts of Split in the order of the workers.
Target(d) == CHOOSE w \in {Bucket[p] : p \in rest[d]} :
                \A p \in rest[d] : w <= Bucket[p]
Part(d) == {p \in rest[d] : Bucket[p] = Target(d)}

DispatchQueue(d) ==
    /\ rest[d] # {}
    /\ Target(d) \notin closed
    /\ Len(queue[Target(d)]) < QueueSize
    /\ queue' = [queue EXCEPT ![Target(d)] = Append(@, Part(d))]
    /\ rest' = [rest EXCEPT ![d] = @ \ Part(d)]
    /\ UNCHANGED <<submitted, running, dropped, wpc, cmd, aggr, toSend, callerVars,
                   sendVars, closed, phase>>

DispatchDone(d) ==
    /\ rest[d] # {}
    /\ Done(d)
    /\ dropped' = dropped \cup Part(d)
    /\ rest' = [rest EXCEPT ![d] = @ \ Part(d)]
    /\ UNCHANGED <<submitted, running, workerVars, callerVars, sendVars, closed, phase>>

DispatcherStop(d) ==
    /\ d \in running
    /\ rest[d] = {}
    /\ Done(d)
    /\ running' = running \ {d}
    /\ UNCHANGED <<submitted, rest, dropped, workerVars, callerVars, sendVars, closed,
                   phase>>
-----------------------------------------------------------------------------
(* worker.work.                                                            *)

WorkerReceive(w) ==
    /\ wpc[w] = "select"
    /\ queue[w] # <<>>
    /\ aggr' = [aggr EXCEPT ![w] = @ \cup Head(queue[w])]
    /\ queue' = [queue EXCEPT ![w] = Tail(@)]
    /\ UNCHANGED <<feedVars, wpc, cmd, toSend, callerVars, sendVars, closed, phase>>

\* A closed channel yields what is left in it before it reports !ok.
WorkerReturn(w) ==
    /\ wpc[w] = "select"
    /\ queue[w] = <<>>
    /\ w \in closed
    /\ wpc' = [wpc EXCEPT ![w] = "returned"]
    /\ UNCHANGED <<feedVars, queue, cmd, aggr, toSend, callerVars, sendVars, closed,
                   phase>>

\* flushData's function: aggr.Flush, then aggr.Process, which starts with
\* wg.Add(len(f.backends)) in sendMetricsAsync.
WorkerFlush(w) ==
    /\ wpc[w] = "execute"
    /\ cmd[w] = "flusher"
    /\ sendWg' = sendWg + Cardinality(Backends)
    /\ toSend' = [toSend EXCEPT ![w] = Backends]
    /\ wpc' = [wpc EXCEPT ![w] = "send"]
    /\ UNCHANGED <<feedVars, queue, cmd, aggr, callerVars, callbacks, delivered, closed,
                   phase>>

\* SendMetricsAsync of one backend, which reads the map before it returns.
WorkerSend(w, b) ==
    /\ wpc[w] = "send"
    /\ b \in toSend[w]
    /\ toSend' = [toSend EXCEPT ![w] = @ \ {b}]
    /\ delivered' = [delivered EXCEPT ![b] =
            [p \in Points |-> @[p] + IF p \in aggr[w] THEN 1 ELSE 0]]
    /\ callbacks' = callbacks \cup {<<w, b>>}
    /\ UNCHANGED <<feedVars, queue, wpc, cmd, aggr, callerVars, sendWg, closed, phase>>

\* Mutant: the aggregator is not reset.
WorkerResetMissing(w) ==
    /\ wpc[w] = "send"
    /\ toSend[w] = {}
    /\ wpc' = [wpc EXCEPT ![w] = "select"]
    /\ wg' = [wg EXCEPT !["flusher"] = @ - 1]
    /\ cmd' = [cmd EXCEPT ![w] = "none"]
    /\ UNCHANGED <<feedVars, queue, aggr, toSend, cpc, cmdSent, sendVars, closed, phase>>

\* aggr.Reset(), then cmd.done().
WorkerReset(w) ==
    /\ wpc[w] = "send"
    /\ toSend[w] = {}
    /\ aggr' = [aggr EXCEPT ![w] = {}]
    /\ wpc' = [wpc EXCEPT ![w] = "select"]
    /\ wg' = [wg EXCEPT !["flusher"] = @ - 1]
    /\ cmd' = [cmd EXCEPT ![w] = "none"]
    /\ UNCHANGED <<feedVars, queue, toSend, cpc, cmdSent, sendVars, closed, phase>>

\* The command of RunMetrics attaches a Statser to the aggregator.
WorkerAttach(w) ==
    /\ wpc[w] = "execute"
    /\ cmd[w] = "metrics"
    /\ wpc' = [wpc EXCEPT ![w] = "select"]
    /\ wg' = [wg EXCEPT !["metrics"] = @ - 1]
    /\ cmd' = [cmd EXCEPT ![w] = "none"]
    /\ UNCHANGED <<feedVars, queue, aggr, toSend, cpc, cmdSent, sendVars, closed, phase>>

\* Mutant: the callback does not call wg.Done() (say, when there are errors).
CallbackNoDone(w, b) ==
    /\ <<w, b>> \in callbacks
    /\ callbacks' = callbacks \ {<<w, b>>}
    /\ UNCHANGED <<feedVars, workerVars, callerVars, sendWg, delivered, closed, phase>>

\* A backend finishes sending and calls the callback, which calls wg.Done().
Callback(w, b) ==
    /\ <<w, b>> \in callbacks
    /\ callbacks' = callbacks \ {<<w, b>>}
    /\ sendWg' = sendWg - 1
    /\ UNCHANGED <<feedVars, workerVars, callerVars, delivered, closed, phase>>
-----------------------------------------------------------------------------
(* MetricFlusher.Run and flushData, RunMetrics, and Process.               *)

\* A tick: NotifyFlush dispatches the map mm of the internal statser first.
FlusherTick(mm) ==
    /\ cpc["flusher"] = "idle"
    /\ mm \cap submitted = {}
    /\ rest' = [rest EXCEPT !["flusher"] = mm]
    /\ submitted' = submitted \cup mm
    /\ cpc' = [cpc EXCEPT !["flusher"] = "notify"]
    /\ UNCHANGED <<running, dropped, workerVars, cmdSent, wg, sendVars, closed, phase>>

\* Process: wg.Add(bh.numWorkers).
ProcessStart(c) ==
    /\ IF c = "flusher"
       THEN cpc[c] = "notify" /\ rest[c] = {}
       ELSE cpc[c] = "idle"
    /\ cpc' = [cpc EXCEPT ![c] = "process"]
    /\ cmdSent' = [cmdSent EXCEPT ![c] = 0]
    /\ wg' = [wg EXCEPT ![c] = @ + NumWorkers]
    /\ UNCHANGED <<feedVars, workerVars, sendVars, closed, phase>>

\* processChan is unbuffered: the worker has to be in its select.
ProcessSend(c) ==
    /\ cpc[c] = "process"
    /\ LET w == cmdSent[c] + 1
       IN  /\ wpc[w] = "select"
           /\ wpc' = [wpc EXCEPT ![w] = "execute"]
           /\ cmd' = [cmd EXCEPT ![w] = c]
           /\ cmdSent' = [cmdSent EXCEPT ![c] = w]
           /\ cpc' = [cpc EXCEPT ![c] = IF w = NumWorkers THEN "wait" ELSE "process"]
    /\ UNCHANGED <<feedVars, queue, aggr, toSend, wg, sendVars, closed, phase>>

ProcessDone(c) ==
    /\ cpc[c] = "process"
    /\ Done(c)
    /\ wg' = [wg EXCEPT ![c] = @ + cmdSent[c] - NumWorkers]
    /\ cpc' = [cpc EXCEPT ![c] = "wait"]
    /\ UNCHANGED <<feedVars, workerVars, cmdSent, sendVars, closed, phase>>

\* Mutant: flushData does not call processWait.
ProcessWaitSkipped ==
    /\ cpc["flusher"] = "wait"
    /\ cpc' = [cpc EXCEPT !["flusher"] = "sendwait"]
    /\ UNCHANGED <<feedVars, workerVars, cmdSent, wg, sendVars, closed, phase>>

\* processWait().  RunMetrics does not call the Wait that Process returns.
ProcessWait ==
    /\ cpc["flusher"] = "wait"
    /\ wg["flusher"] = 0
    /\ cpc' = [cpc EXCEPT !["flusher"] = "sendwait"]
    /\ UNCHANGED <<feedVars, workerVars, cmdSent, wg, sendVars, closed, phase>>

\* sendWg.Wait() ends flushData.
SendWait ==
    /\ cpc["flusher"] = "sendwait"
    /\ sendWg = 0
    /\ cpc' = [cpc EXCEPT !["flusher"] = "idle"]
    /\ UNCHANGED <<feedVars, workerVars, cmdSent, wg, sendVars, closed, phase>>

\* Mutant: the flusher's select has no case <-ctx.Done().
CallerReturnTickerOnly(c) ==
    /\ c # "flusher"
    /\ cpc[c] = "wait"
    /\ Done(c)
    /\ cpc' = [cpc EXCEPT ![c] = "returned"]
    /\ UNCHANGED <<feedVars, workerVars, cmdSent, wg, sendVars, closed, phase>>

\* The flusher's select, and the end of RunMetrics (its watchers stop).
CallerReturn(c) ==
    /\ cpc[c] = IF c = "flusher" THEN "idle" ELSE "wait"
    /\ Done(c)
    /\ cpc' = [cpc EXCEPT ![c] = "returned"]
    /\ UNCHANGED <<feedVars, workerVars, cmdSent, wg, sendVars, closed, phase>>
-----------------------------------------------------------------------------
(* Shutdown: the stager, and the deferred function of BackendHandler.Run.  *)

StageEmpty ==
    CASE phase = 0 -> TRUE
      [] phase = 1 -> running = {}
      [] phase = 2 -> cpc["flusher"] = "returned"
      [] phase = 3 -> cpc["metrics"] = "returned"
      [] OTHER -> FALSE

StagerCancel ==
    /\ StageEmpty
    /\ phase' = phase + 1
    /\ UNCHANGED <<feedVars, workerVars, callerVars, sendVars, closed>>

RunClose(w) ==
    /\ Done("run")
    /\ w \notin closed
    /\ \A v \in 1..(w - 1) : v \in closed
    /\ closed' = closed \cup {w}
    /\ UNCHANGED <<feedVars, workerVars, callerVars, sendVars, phase>>

\* Every worker has returned, and so has Run.
Finished ==
    /\ \A w \in Workers : wpc[w] = "returned"
    /\ UNCHANGED vars

Feeder(d) == DispatchQueue(d) \/ DispatchDone(d)

Worker(w) ==
    \/ WorkerReceive(w)
    \/ WorkerReturn(w)
    \/ WorkerFlush(w)
    \/ \E b \in Backends : WorkerSend(w, b)
    \/ WorkerReset(w)
    \/ WorkerAttach(w)

Caller(c) ==
    \/ ProcessStart(c)
    \/ ProcessSend(c)
    \/ ProcessDone(c)
    \/ CallerReturn(c)

Next ==
    \/ \E d \in Dispatchers, mm \in SUBSET Points : DispatchStart(d, mm)
    \/ \E d \in Dispatchers : DispatcherStop(d)
    \/ \E d \in Feeders : Feeder(d)
    \/ \E w \in Workers : Worker(w)
    \/ \E w \in Workers, b \in Backends : Callback(w, b)
    \/ \E mm \in SUBSET Points : FlusherTick(mm)
    \/ \E c \in Callers : Caller(c)
    \/ ProcessWait
    \/ SendWait
    \/ StagerCancel
    \/ \E w \in Workers : RunClose(w)
    \/ Finished

Spec == Init /\ [][Next]_vars

(* Every goroutine that can run does.  A select with two ready cases picks *)
(* at random, so a worker does not execute commands for ever while a map   *)
(* waits, and the flusher does not tick for ever while its context is      *)
(* done.  The ticker keeps ticking, and a backend always calls back:       *)
(* SendMetricsAsync promises to, and every send has a timeout or a         *)
(* context.  Nothing forces the shutdown to begin.                         *)
Fairness ==
    /\ \A d \in Feeders : WF_vars(Feeder(d))
    /\ \A d \in Dispatchers : WF_vars(DispatcherStop(d))
    /\ \A w \in Workers : WF_vars(Worker(w)) /\ SF_vars(WorkerReceive(w))
    /\ WF_vars(\E w \in Workers, b \in Backends : Callback(w, b))
    /\ \A c \in Callers : WF_vars(Caller(c))
    /\ SF_vars(CallerReturn("flusher"))
    /\ WF_vars((\E mm \in SUBSET Points : FlusherTick(mm)) \/ ProcessWait \/ SendWait)
    /\ WF_vars(phase > 0 /\ StagerCancel)
    /\ WF_vars(\E w \in Workers : RunClose(w))

FairSpec == Spec /\ Fairness
-----------------------------------------------------------------------------
Executing(c) == {w \in Workers : cmd[w] = c}

TypeOK ==
    /\ submitted \in SUBSET Points
    /\ rest \in [Feeders -> SUBSET Points]
    /\ running \in SUBSET Dispatchers
    /\ queue \in [Workers -> Seq(SUBSET Points)]
    /\ closed \in SUBSET Workers
    /\ wpc \in [Workers -> {"select", "execute", "send", "returned"}]
    /\ cmd \in [Workers -> Callers \cup {"none"}]
    /\ aggr \in [Workers -> SUBSET Points]
    /\ toSend \in [Workers -> SUBSET Backends]
    /\ cpc \in [Callers -> {"idle", "notify", "process", "wait", "sendwait",
                            "returned"}]
    /\ cmdSent \in [Callers -> 0..NumWorkers]
    /\ wg \in [Callers -> Int]
    /\ sendWg \in Int
    /\ callbacks \in SUBSET (Workers \X Backends)
    /\ delivered \in [Backends -> [Points -> Nat]]
    /\ dropped \in SUBSET Points
    /\ phase \in 0..4

\* The WaitGroup of a call of Process counts the commands being executed and,
\* while the loop runs, those still to be sent.  So it is never negative
\* (which would panic), also when the context is done half way through the
\* loop, and processWait returns exactly when the last worker is done.
ProcessWaitGroup ==
    \A c \in Callers :
        wg[c] = Cardinality(Executing(c))
                + IF cpc[c] = "process" THEN NumWorkers - cmdSent[c] ELSE 0

\* When flushData has returned no worker is in its function any more and no
\* backend is still sending: two flushes never overlap, because the WaitGroup
\* that the flusher waits for is exact.
FlushesDoNotOverlap ==
    /\ ProcessWaitGroup
    /\ cpc["flusher"] \in {"idle", "notify", "returned"}
        => Executing("flusher") = {} /\ callbacks = {}

InTransit(p) ==
    \/ \E d \in Feeders : p \in rest[d]
    \/ \E w \in Workers : \/ p \in aggr[w]
                          \/ \E i \in 1..Len(queue[w]) : p \in queue[w][i]

\* A dispatched point is on its way, or was dropped because of a cancelled
\* context, or every backend has been handed it exactly once.
ExactlyOnce ==
    \A p \in submitted :
        \/ InTransit(p) /\ p \notin dropped
                        /\ \A b \in Backends : delivered[b][p] <= 1
        \/ ~InTransit(p) /\ p \in dropped
                         /\ \A b \in Backends : delivered[b][p] = 0
        \/ ~InTransit(p) /\ p \notin dropped
                         /\ \A b \in Backends : delivered[b][p] = 1

\* Until the shutdown starts every dispatched point reaches every backend,
\* however full the queues are: again and again nothing is outstanding.
EventuallyDelivered ==
    []<>(phase > 0 \/ \A p \in submitted, b \in Backends : delivered[b][p] = 1)

\* Run closes the queues only when nobody is left who could send on one, which
\* would panic.
NoSendOnClosed == \A d \in Feeders : rest[d] # {} => Target(d) \notin closed

\* Once the shutdown has started, every worker returns, and no feeder meets a
\* closed queue on the way.
ShutdownCompletes ==
    /\ phase > 0 ~> \A w \in Workers : wpc[w] = "returned"
    /\ []NoSendOnClosed
=============================================================================
