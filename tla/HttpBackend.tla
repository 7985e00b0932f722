---------------------------- MODULE HttpBackend ----------------------------
(***************************************************************************)
(* The backends that send over HTTP: pkg/backends/datadog, newrelic,       *)
(* influxdb and cloudwatch.  SendMetricsAsync splits a flush into batches. *)
(* Each batch is sent by a goroutine of its own, which holds one of a      *)
(* fixed number of buffers (the channel of buffers is also a semaphore)    *)
(* while it posts and retries, and hands its error to the goroutine that   *)
(* gathers the errors of the flush and calls the callback.  The workers of *)
(* the BackendHandler flush concurrently, events are sent meanwhile, and   *)
(* the context may end at any time.                                        *)
(*                                                                         *)
(* A metric is a name with the number of series it adds to a batch, an     *)
(* error is whether there is one, and the elapsed time that stops the      *)
(* retries is nondeterministic.  cloudwatch sends its batches one after    *)
(* the other, without buffers, retries or a context.                       *)
(***************************************************************************)
EXTENDS Naturals, FiniteSets

CONSTANTS
    Backends,           \* the backends to explore
    Flushes,            \* calls of SendMetricsAsync
    Events,             \* calls of SendEvent
    Metrics,            \* names of metrics
    MetricMap,          \* the metrics of each flush
    Width,              \* series each metric adds to a batch
    PerBatch,           \* metricsPerBatch; 20 in cloudwatch
    Slack,              \* the 20 of maybeFlush in datadog and newrelic
    MetricBuffers,      \* metricsBufferSem, reqBufferSem
    EventBuffers,       \* eventsBufferSem (datadog)
    MaxRetries,         \* bound: retries of a batch
    NoBuf               \* a nil *bytes.Buffer

\* A batch is named by its flush and its metrics: no metric is added to two batches.
Batches == {t \in Flushes \X SUBSET Metrics : t[2] # {} /\ t[2] \subseteq MetricMap[t[1]]}
Tasks == Batches \cup Events
Holders == Flushes \cup Tasks
Buffers == MetricBuffers \cup EventBuffers

ASSUME MetricsAssumption ==
    /\ MetricMap \in [Flushes -> SUBSET Metrics]
    /\ Width \in [Metrics -> Nat]
ASSUME SizeAssumption == PerBatch \in Nat \ {0} /\ Slack \in Nat
ASSUME NoBufAssumption == NoBuf \notin Buffers
\* A flush, a batch and an event are different goroutines.
ASSUME HoldersAssumption ==
    /\ Flushes \cap Tasks = {}
    /\ Events \cap (Flushes \X SUBSET Metrics) = {}

VARIABLES
    kind,               \* the backend
    done,               \* the context is done
    up,                 \* FALSE once the program has panicked
    sem,                \* buffers in the channels
    hold,               \* per goroutine: its buffer, or NoBuf
    content,            \* per buffer: what is written in it
    phase,              \* per flush: where SendMetricsAsync is
    todo, cur,          \* per flush: metrics to add, metrics in the batch being built
    made,               \* per flush: counter, the batches handed to a goroutine
    got, bad, cut,      \* per flush: results gathered, errors among them, ended by the context
    st, tries,          \* per goroutine: where it is, its retries
    accepted,           \* batches and events posted without an error
    unwritten           \* influxdb: metrics of batches that could not be created

poolVars == <<sem, hold, content>>
flushVars == <<phase, todo, cur, made>>
cbVars == <<got, bad, cut>>
taskVars == <<st, tries, accepted>>
envVars == <<kind, done, up>>
vars == <<poolVars, flushVars, cbVars, taskVars, envVars, unwritten>>

Init ==
    /\ kind \in Backends
    /\ done = FALSE
    /\ up = TRUE
    /\ sem = Buffers
    /\ hold = [h \in Holders |-> NoBuf]
    /\ content = [b \in Buffers |-> {}]
    /\ phase = [f \in Flushes |-> "idle"]
    /\ todo = MetricMap
    /\ cur = [f \in Flushes |-> {}]
    /\ made = [f \in Flushes |-> 0]
    /\ got = [f \in Flushes |-> 0]
    /\ bad = [f \in Flushes |-> 0]
    /\ cut = {}
    /\ st = [t \in Tasks |-> "idle"]
    /\ tries = [t \in Tasks |-> 0]
    /\ accepted = {}
    /\ unwritten = {}

\* The series of a batch with the metrics ms, and their number.
Series(ms) == UNION {{m} \X (1 .. Width[m]) : m \in ms}
Size(ms) == Cardinality(Series(ms))

\* What the buffer of t must contain: the series of the batch, or the event.
Body(t) == IF t \in Events THEN {t} ELSE {t[1]} \X t[2]

-----------------------------------------------------------------------------
(* The pool of buffers. *)

\* The channel a goroutine takes its buffer from.
Channel(t) == IF kind = "datadog" /\ t \in Events THEN EventBuffers ELSE MetricBuffers

Take(h, b, what) ==
    /\ b \in sem \cap Channel(h)
    /\ sem' = sem \ {b}
    /\ hold' = [hold EXCEPT ![h] = b]
    /\ content' = [content EXCEPT ![b] = what]

\* buffer.Reset(), then back into the channel.
Release(h) ==
    /\ sem' = sem \cup {hold[h]}
    /\ content' = [content EXCEPT ![hold[h]] = {}]
    /\ hold' = [hold EXCEPT ![h] = NoBuf]

-----------------------------------------------------------------------------
(* A flush: processMetrics and the batches it hands over. *)

\* The callback of processMetrics: the batch gets a goroutine of its own.
Spawn(f, ms, at) ==
    /\ made' = [made EXCEPT ![f] = @ + 1]
    /\ st' = [st EXCEPT ![<<f, ms>>] = at]
    /\ cur' = [cur EXCEPT ![f] = {}]

\* datadog and newrelic: the batch is handed over before it can outgrow its slice.
BatchIsFull(ms) == Size(ms) + Slack >= PerBatch

AddSeries(f, m) ==
    /\ phase[f] = "idle"
    /\ m \in todo[f]
    /\ todo' = [todo EXCEPT ![f] = @ \ {m}]
    /\ IF BatchIsFull(cur[f] \cup {m})
       THEN Spawn(f, cur[f] \cup {m}, "waiting")
       ELSE cur' = [cur EXCEPT ![f] = @ \cup {m}] /\ UNCHANGED <<made, st>>
    /\ UNCHANGED <<poolVars, phase, cbVars, tries, accepted, envVars, unwritten>>

FinishSeries(f) ==
    /\ phase[f] = "idle"
    /\ todo[f] = {}
    /\ phase' = [phase EXCEPT ![f] = "gather"]
    /\ IF Size(cur[f]) > 0 THEN Spawn(f, cur[f], "waiting")
                           ELSE UNCHANGED <<made, st, cur>>
    /\ UNCHANGED <<poolVars, todo, cbVars, tries, accepted, envVars, unwritten>>

\* influxdb: getBuffer, before the first metric and after each batch.  It returns nil
\* when it finds the context done.
InfluxGetBuffer(f) ==
    /\ phase[f] = "idle"
    /\ phase' = [phase EXCEPT ![f] = "adding"]
    /\ \/ \E b \in Buffers : Take(f, b, {})
       \/ done /\ UNCHANGED poolVars
    /\ UNCHANGED <<todo, cur, made, cbVars, taskVars, envVars, unwritten>>

\* Mutant: the buffer is also put back in the channel when the batch is handed over.
InfluxFlushAndPutBack(f, ms) ==
    /\ phase' = [phase EXCEPT ![f] = "idle"]
    /\ Spawn(f, ms, "posting")
    /\ sem' = sem \cup {hold[f]}
    /\ hold' = [hold EXCEPT ![f] = NoBuf, ![<<f, ms>>] = hold[f]]
    /\ content' = [content EXCEPT ![hold[f]] = {f} \X ms]
    /\ UNCHANGED unwritten

\* influxdb, flush: the buffer goes to the goroutine of the batch, or back to the pool
\* if the writer could not be closed; another one is needed either way.
InfluxFlush(f, ms) ==
    /\ phase' = [phase EXCEPT ![f] = "idle"]
    /\ \/ /\ Spawn(f, ms, "posting")
          /\ hold' = [hold EXCEPT ![f] = NoBuf, ![<<f, ms>>] = hold[f]]
          /\ content' = [content EXCEPT ![hold[f]] = {f} \X ms]
          /\ UNCHANGED <<sem, unwritten>>
       \/ /\ Release(f)
          /\ unwritten' = unwritten \cup {f} \X ms
          /\ cur' = [cur EXCEPT ![f] = {}]
          /\ UNCHANGED <<made, st>>

\* influxdb, the add functions: a timer with all its fields disabled is not written.
InfluxAdd(f, m) ==
    /\ phase[f] = "adding"
    /\ hold[f] # NoBuf
    /\ m \in todo[f]
    /\ todo' = [todo EXCEPT ![f] = @ \ {m}]
    /\ LET ms == IF Width[m] = 0 THEN cur[f] ELSE cur[f] \cup {m} IN
       IF Width[m] > 0 /\ Cardinality(ms) >= PerBatch
       THEN InfluxFlush(f, ms)
       ELSE /\ cur' = [cur EXCEPT ![f] = ms]
            /\ content' = [content EXCEPT ![hold[f]] = {f} \X ms]
            /\ UNCHANGED <<sem, hold, phase, made, st, unwritten>>
    /\ UNCHANGED <<cbVars, tries, accepted, envVars>>

\* influxdb, without a buffer: the remaining metrics are passed over.
InfluxSkip(f) ==
    /\ phase[f] = "adding"
    /\ hold[f] = NoBuf
    /\ todo[f] # {}
    /\ todo' = [todo EXCEPT ![f] = {}]
    /\ UNCHANGED <<poolVars, phase, cur, made, cbVars, taskVars, envVars, unwritten>>

\* influxdb, after the last metric: a batch that holds something is flushed, which gets
\* a new buffer; then the buffer is released.  Releasing nil is a panic.
InfluxFinish(f) ==
    /\ phase[f] = "adding"
    /\ todo[f] = {}
    /\ IF cur[f] # {}
       THEN InfluxFlush(f, cur[f]) /\ UNCHANGED up
       ELSE IF hold[f] = NoBuf
       THEN up' = FALSE /\ UNCHANGED <<poolVars, phase, cur, made, st, unwritten>>
       ELSE /\ Release(f)
            /\ phase' = [phase EXCEPT ![f] = "gather"]
            /\ UNCHANGED <<cur, made, st, unwritten, up>>
    /\ UNCHANGED <<todo, cbVars, tries, accepted, kind, done>>

\* cloudwatch: the number of requests of PerBatch data each.
CloudwatchRequests(n) == (n + PerBatch - 1) \div PerBatch

CloudwatchSend(f) ==
    /\ phase[f] = "idle"
    /\ made' = [made EXCEPT ![f] = CloudwatchRequests(Size(MetricMap[f]))]
    /\ phase' = [phase EXCEPT ![f] = "gather"]
    /\ todo' = [todo EXCEPT ![f] = {}]
    /\ UNCHANGED <<poolVars, cur, cbVars, taskVars, envVars, unwritten>>

\* cloudwatch: one PutMetricData, whose error, nil or not, is appended.
CloudwatchPut(f) ==
    /\ phase[f] = "gather"
    /\ got[f] < made[f]
    /\ got' = [got EXCEPT ![f] = @ + 1]
    /\ \E err \in {0, 1} : bad' = [bad EXCEPT ![f] = @ + err]
    /\ UNCHANGED <<poolVars, flushVars, cut, taskVars, envVars, unwritten>>

-----------------------------------------------------------------------------
(* The goroutine of a batch, and SendEvent. *)

\* Mutant: SendEvent does not return its buffer.
AfterPostKeepsEventBuffer(t) == IF t \in Events THEN "gone"
                                ELSE IF kind = "influxdb" THEN "release" ELSE "result"

\* Where a goroutine goes when its post has returned: influxdb releases the buffer before
\* it hands over the error, the others after it, and newrelic's events have no buffer.
AfterPost(t) == IF t \in Events /\ kind = "newrelic" THEN "gone"
                ELSE IF t \in Events \/ kind = "influxdb" THEN "release"
                ELSE "result"
AfterRelease(t) == IF t \in Batches /\ kind = "influxdb" THEN "result" ELSE "gone"
AfterResult(t) == IF kind = "influxdb" THEN "gone" ELSE "release"

\* post returns.
Settle(t, err) ==
    /\ st' = [st EXCEPT ![t] = AfterPost(t)]
    /\ tries' = [tries EXCEPT ![t] = 0]
    /\ accepted' = IF err THEN accepted ELSE accepted \cup {t}

\* The payload is written into the buffer (not by newrelic), or cannot be.
StartPost(t, b) ==
    /\ st[t] = IF t \in Events THEN "idle" ELSE "waiting"
    /\ Take(t, b, IF kind = "newrelic" THEN {} ELSE Body(t))
    /\ \/ st' = [st EXCEPT ![t] = "posting"] /\ UNCHANGED <<tries, accepted>>
       \/ Settle(t, TRUE)
    /\ UNCHANGED <<flushVars, cbVars, envVars, unwritten>>

\* The context ends while the goroutine waits for a buffer: no post and no result.
CancelWaiting(t) ==
    /\ done
    /\ st[t] = IF t \in Events THEN "idle" ELSE "waiting"
    /\ st' = [st EXCEPT ![t] = "gone"]
    /\ UNCHANGED <<poolVars, flushVars, cbVars, tries, accepted, envVars, unwritten>>

\* One request succeeds or fails; after a failure the backoff asks for a retry or to stop.
Attempt(t) ==
    /\ st[t] = "posting"
    /\ \/ \E err \in BOOLEAN : Settle(t, err)
       \/ /\ tries[t] < MaxRetries
          /\ kind # "newrelic" \/ t \in Batches
          /\ st' = [st EXCEPT ![t] = "backoff"]
          /\ UNCHANGED <<tries, accepted>>
    /\ UNCHANGED <<poolVars, flushVars, cbVars, envVars, unwritten>>

\* The timer of the backoff fires, or the context ends.
Retry(t) ==
    /\ st[t] = "backoff"
    /\ \/ /\ st' = [st EXCEPT ![t] = "posting"]
          /\ tries' = [tries EXCEPT ![t] = @ + 1]
          /\ UNCHANGED accepted
       \/ done /\ Settle(t, TRUE)
    /\ UNCHANGED <<poolVars, flushVars, cbVars, envVars, unwritten>>

ReleaseBuffer(t) ==
    /\ st[t] = "release"
    /\ Release(t)
    /\ st' = [st EXCEPT ![t] = AfterRelease(t)]
    /\ UNCHANGED <<flushVars, cbVars, tries, accepted, envVars, unwritten>>

\* results <- err, or the context ends.
Deliver(t) ==
    /\ st[t] = "result"
    /\ st' = [st EXCEPT ![t] = AfterResult(t)]
    /\ \/ /\ phase[t[1]] = "gather"
          /\ got' = [got EXCEPT ![t[1]] = @ + 1]
          /\ bad' = [bad EXCEPT ![t[1]] = IF t \in accepted THEN @ ELSE @ + 1]
       \/ done /\ UNCHANGED <<got, bad>>
    /\ UNCHANGED <<poolVars, flushVars, cut, tries, accepted, envVars, unwritten>>

\* Mutant: the callback does not wait for the last result.
GatherOneShort(f) ==
    /\ phase[f] = "gather"
    /\ got[f] + 1 >= made[f]
    /\ phase' = [phase EXCEPT ![f] = "called"]
    /\ UNCHANGED <<poolVars, todo, cur, made, cbVars, taskVars, envVars, unwritten>>

\* Mutant: the gathering goroutine does not look at the context.
GatherWithoutContext(f) ==
    /\ phase[f] = "gather"
    /\ got[f] = made[f]
    /\ phase' = [phase EXCEPT ![f] = "called"]
    /\ UNCHANGED <<poolVars, todo, cur, made, cbVars, taskVars, envVars, unwritten>>

\* The goroutine that gathers the errors calls the callback: it has them all, or the
\* context ends and its error is the last one.
Gather(f) ==
    /\ phase[f] = "gather"
    /\ \/ got[f] = made[f] /\ UNCHANGED cut
       \/ got[f] < made[f] /\ done /\ kind # "cloudwatch" /\ cut' = cut \cup {f}
    /\ phase' = [phase EXCEPT ![f] = "called"]
    /\ UNCHANGED <<poolVars, todo, cur, made, got, bad, taskVars, envVars, unwritten>>

-----------------------------------------------------------------------------
(* The four backends. *)

DatadogFlush(f) == (\E m \in Metrics : AddSeries(f, m)) \/ FinishSeries(f)
DatadogBatch(t) == (\E b \in Buffers : StartPost(t, b)) \/ CancelWaiting(t)
                   \/ Deliver(t) \/ ReleaseBuffer(t)
DatadogPost(t) == Attempt(t) \/ Retry(t)
DatadogEvent(e) == (\E b \in Buffers : StartPost(e, b)) \/ CancelWaiting(e)
                   \/ DatadogPost(e) \/ ReleaseBuffer(e)
Datadog ==
    \/ \E f \in Flushes : DatadogFlush(f) \/ Gather(f)
    \/ \E t \in Batches : DatadogBatch(t) \/ DatadogPost(t)
    \/ \E e \in Events : DatadogEvent(e)

NewRelicFlush(f) == (\E m \in Metrics : AddSeries(f, m)) \/ FinishSeries(f)
NewRelicBatch(t) == (\E b \in Buffers : StartPost(t, b)) \/ CancelWaiting(t)
                    \/ Deliver(t) \/ ReleaseBuffer(t)
NewRelicGather(f) == Gather(f)
NewRelicPost(t) == Attempt(t) \/ Retry(t)

\* newrelic's SendEvent posts once, without a buffer, or not at all: it has no address, or
\* the event cannot be marshalled.
NewRelicEvent(e) ==
    \/ /\ st[e] = "idle"
       /\ \E to \in {"posting", "gone"} : st' = [st EXCEPT ![e] = to]
       /\ UNCHANGED <<poolVars, flushVars, cbVars, tries, accepted, envVars,
                      unwritten>>
    \/ Attempt(e)
NewRelic ==
    \/ \E f \in Flushes : NewRelicFlush(f) \/ NewRelicGather(f)
    \/ \E t \in Batches : NewRelicBatch(t) \/ NewRelicPost(t)
    \/ \E e \in Events : NewRelicEvent(e)

InfluxMetrics(f) == InfluxGetBuffer(f) \/ (\E m \in Metrics : InfluxAdd(f, m))
                    \/ InfluxSkip(f) \/ InfluxFinish(f)
InfluxBatch(t) == ReleaseBuffer(t) \/ Deliver(t)
InfluxGather(f) == Gather(f)
InfluxPost(t) == Attempt(t) \/ Retry(t)
InfluxEvent(e) == (\E b \in Buffers : StartPost(e, b)) \/ CancelWaiting(e)
                  \/ InfluxPost(e) \/ ReleaseBuffer(e)
Influx ==
    \/ \E f \in Flushes : InfluxMetrics(f) \/ InfluxGather(f)
    \/ \E t \in Batches : InfluxBatch(t) \/ InfluxPost(t)
    \/ \E e \in Events : InfluxEvent(e)

\* cloudwatch has no events: SendEvent returns nil.
CloudwatchEvent(e) ==
    /\ st[e] = "idle"
    /\ st' = [st EXCEPT ![e] = "gone"]
    /\ UNCHANGED <<poolVars, flushVars, cbVars, tries, accepted, envVars, unwritten>>
Cloudwatch ==
    \/ \E f \in Flushes : CloudwatchSend(f) \/ CloudwatchPut(f) \/ Gather(f)
    \/ \E e \in Events : CloudwatchEvent(e)

Step ==
    \/ kind = "datadog" /\ Datadog
    \/ kind = "newrelic" /\ NewRelic
    \/ kind = "influxdb" /\ Influx
    \/ kind = "cloudwatch" /\ Cloudwatch

\* The context of the flushes and of the events ends.
Cancel ==
    /\ ~done
    /\ done' = TRUE
    /\ UNCHANGED <<poolVars, flushVars, cbVars, taskVars, kind, up, unwritten>>

Next == up /\ (Step \/ Cancel)

Spec == Init /\ [][Next]_vars

\* Goroutines run, timers fire and requests time out.
FairSpec == Spec /\ WF_vars(up /\ Step)

-----------------------------------------------------------------------------
(* Properties *)

TypeOK ==
    /\ kind \in Backends
    /\ {done, up} \subseteq BOOLEAN
    /\ sem \subseteq Buffers
    /\ hold \in [Holders -> Buffers \cup {NoBuf}]
    /\ phase \in [Flushes -> {"idle", "adding", "gather", "called"}]
    /\ st \in [Tasks -> {"idle", "waiting", "posting", "backoff", "result", "release", "gone"}]

\* A buffer is in its channel or with exactly one goroutine, which is still going to return
\* it: the channel is the semaphore that limits the requests, so a buffer that is not
\* returned on some path lowers the limit for good and one that is returned twice raises
\* it, or blocks the goroutine that returns it.
BuffersConserved ==
    /\ \A b \in Buffers :
        /\ b \in sem \/ \E h \in Holders : hold[h] = b
        /\ b \in sem => \A h \in Holders : hold[h] # b
        /\ \A h1, h2 \in Holders : hold[h1] = b /\ hold[h2] = b => h1 = h2
    /\ \A f \in Flushes : hold[f] # NoBuf => phase[f] = "adding"
    /\ \A t \in Tasks : hold[t] # NoBuf => st[t] \in {"posting", "backoff", "result", "release"}

\* What is posted, and posted again by a retry, is the goroutine's own payload: the body of
\* the request is the buffer itself (buffer.Bytes()), which nobody resets or writes to
\* until the last attempt is over.
PostsItsOwn ==
    \A t \in Tasks :
        st[t] \in {"posting", "backoff"} /\ kind \in {"datadog", "influxdb"}
            => hold[t] # NoBuf /\ content[hold[t]] = Body(t)

\* When the callback is called, it has been told of as many errors as batches were not
\* accepted, or of the end of the context; and every metric that has anything to send was
\* in a batch, unless influxdb counted it in batchesCreateFailed or had no buffer left.
LossIsReported ==
    \A f \in Flushes :
        phase[f] = "called" =>
            /\ f \in cut
               \/ bad[f] >= Cardinality({t \in Batches : /\ t[1] = f
                                                         /\ st[t] # "idle"
                                                         /\ t \notin accepted})
            /\ kind \in {"datadog", "newrelic"} \/ (kind = "influxdb" /\ ~done) =>
               \A m \in MetricMap[f] :
                   Width[m] > 0 => \/ <<f, m>> \in unwritten
                                   \/ \E t \in Batches : t[1] = f /\ m \in t[2] /\ st[t] # "idle"

\* Every flush is called back and every goroutine ends, with all the buffers back in their
\* channels, unless the program panics.
EveryFlushIsCalledBack ==
    <>[](up => /\ \A f \in Flushes : phase[f] = "called"
               /\ \A t \in Tasks : st[t] = "gone" \/ (st[t] = "idle" /\ t \in Batches)
               /\ sem = Buffers)
====
