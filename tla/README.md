# gostatsd in TLA+

This directory models gostatsd, checks it with TLC on small instances, and
proves some of it with TLAPS for every instance. Each definition that models
code is listed with its source lines under `map` in `PROJECT.json`, which also
lists the parts of the system, the hazards each property is aimed at, the
mutants that show each property can fail, and the findings.

## The system

A gostatsd server reads datagrams, parses metrics and events out of them, adds
tags, and either aggregates and sends them to backends (standalone) or posts
them to another gostatsd (forwarder).

```
 sockets -> receiver -> parser -\
 HTTP receiver ------------------+-> CloudHandler -> TagHandler -> BackendHandler -> workers -> backends
 internal statser --------------/        |                    \                     (aggregators)   (Sender, HTTP)
                                  cached instances             \-> HttpForwarderV2 -> HTTP receiver of another server
                                  (cloud provider, k8s)
```

`components` in `PROJECT.json` says file by file what is modelled, what only in
part, and what is not.

## Modules

Two modules state contracts: **MetricBuffer** (what a consolidator promises: a
flush takes, at once, everything accepted so far) and **CachedInstances** (what
a provider of instances promises: an address that is asked for is answered, and
more answers may come). The detailed module of each is shown to implement its
contract, and the users of each are built on the contract alone. **Server**
composes the shutdown with the dispatch of events:

```
MetricConsolidator  implements  MetricBuffer     <-- used by -- HttpForwarder
CachedCloudProvider implements  CachedInstances  <-- used by -- CloudHandler
MetricMap (pure operators)                       <-- used by -- Aggregator
EventDispatch                                    <-- used by -- Server
```

| Module | Code | Correspondence |
|---|---|---|
| Ingest | `receiver.go`, `parser.go`, the pools | Readers and parsers share a pool of buffers and one of metrics. A step is one statement that others can see: read, hand over, parse, return a buffer, collect, dispatch, log. |
| Lexer | `lexer.go`, `handleDatagram`, `constructEventMessage` | Each state function of the lexer, on a sequence of bytes that it edits in place. The alphabet has one letter for each class of bytes. |
| TagHandler | `handler_tags.go`, `filtering.go`, `matcher.go` | `Walk` is one iteration over a Go map, in any order; the filters, the added tags and the merge of series that become equal are operators. |
| CloudHandler | `handler_cloud.go` | Dispatchers look up the cache, pass hits on, hand misses to Run. Run's select is one action per case; the goroutines that dispatch answered items are modelled one by one. |
| CachedCloudProvider | `cached_cloud_provider.go`, `cached_cloud_provider_lookup.go` | Run's select, the refresh (`doRefresh`, with any set of idle and expired entries), the dispatcher with batch, timer and limiter. |
| K8sProvider | `k8s.go` | `instanceFromCache` in the steps between its locks, for parsers and for Run; the informer changes its index first and notifies later. |
| AwsProvider | `aws.go` | One call of Instance: EC2 returns instances one by one, and fails or ends. |
| NodeTracker | `nodes_redis.go` | Every process has a list with the time left to each node, a ticker and a queue of messages, which are lost or late while the system is faulty. |
| EventDispatch | `handler_backend.go` (events) | One step for each statement of DispatchEvent and of the deferred functions of its goroutines. |
| Server | `statsd.go` (`RunWithCustomSocket`, `sendStopEvent`), `handler_cloud.go`, `httpservers.go` | An item (map or event) is with its client, in the cloud handler, waiting for its host, in a goroutine, or in the backend handler, where EventDispatch takes over. `main` is where RunWithCustomSocket is; stages are cancelled last one first. |
| BackendHandler | `handler_backend.go`, `worker.go`, `flusher.go` | Dispatchers split and queue points; workers select between queue and command; `Process` has two callers (flusher, RunMetrics); sends end with callbacks. `StagerCancel` and `RunClose` are the shutdown. |
| FlushTicker | `aligned_ticker.go`, `flusher.go` (Run) | A clock, timers that fire late, channels that hold one tick, and the two looks at the clock of Run. |
| MetricMap | `metric_map.go`, `metrics.go` and the types | Receive, Merge, Split, SplitByTags as operators on functions from series to entries. |
| Aggregator | `aggregator.go`, and the way of a map from parser to worker | Batches enter maps; maps are merged, posted, split and received in any order; `Flush` is Flush, Process and Reset of one worker. |
| TimerStats | `aggregator.go` (timers), `latency_histogram.go` | Statistics, percentiles and histogram as the code computes them, compared with definitions that count instead of sorting. |
| MetricConsolidator | `metric_consolidator.go`, `InternalStatser.NotifyFlush` | `maps` is the channel, a map is the set of batches merged into it. `ReceiveCall/Take/Put` are a call of ReceiveMetrics or ReceiveMetricMap; the flusher goes through drain, put back, send and fill one channel operation at a time. `fillFirst`, which no step changes, chooses between Flush (send, then fill) and NotifyFlush (fill, then dispatch). |
| FlushNotifier | `flush_notifier.go`, `channel_stats_watcher.go`, `change_gauge.go`, the counters of `http_receiver_v2.go` | One consumer for each way to report; a notification reaches a goroutine only in its select, and counters are swapped one at a time while requests add to them. |
| HttpForwarder | `handler_http_forwarder_v2.go` | Run splits what is flushed, takes a slot of the semaphore for each part and starts a goroutine; `PostStep` is one step of such a goroutine. An attempt may fail before or after the server has the message. |
| Sender | `sender.go`, `statsdaemon.go` (submission) | Run's local variables `sink`, `streamCancel`, `stream`, `errs` are state; connecting, writing and contexts may fail at any step. |
| HttpBackend | datadog, newrelic, influxdb, cloudwatch | A flush becomes batches; each batch is a goroutine that waits for a buffer, posts, retries, hands over its error and returns the buffer, in the order of its backend. |
| Payload | datadog, influxdb, cloudwatch, graphite and stdout (what is written), `aggregator.go` (percentiles) | A series is received, flushed, written and reset again and again. `disabled-sub-metrics` is applied in `SetPercentiles` by the aggregator and in `BaseTimer` by a backend; what is written is the sequence of the statistics, without keys and tags. |

The `MC_` modules give values to constants and put several modules into one run:
MC_Stats, MC_Cloud, MC_Providers, MC_Backends and MC_Data have a variable
(`part`, `provider` or `transport`) that chooses one module at the start. The
others stay as they were created, so the states of such a run are those of its
modules side by side, and a property of the run is a property of its modules.
The `Proofs` modules hold the theorems.

Data is abstracted to what the properties tell apart: a batch, a point, an
event, an address or an instance is a model value. Logging, wire formats and
the server's metrics about itself are left out, except where a property is
about them. A context that "may be done during any call" is an action that is
always possible.

## Runs

"Violation" runs check something that a document or a comment of the repository
says and the code does not do.

| Run | Shows | Instance |
|---|---|---|
| stats | Consolidator: no slot is lost, no batch is doubled, MetricBuffer is implemented, what is accepted is flushed. Ticker: the time between flushes is positive. Notifier: what is counted is reported once | 2 receivers, 3 batches, 3 slots; interval 3, offset 1, timers late by 1, time to 14; 2 of 3 consumers, channel of 2, 1 request, 2 samples |
| backend | The WaitGroup of Process is balanced and flushes do not overlap, each point reaches the backend once or was dropped by a done context; points are delivered and a shutdown completes without a send on a closed queue | 2 workers, queues of 1, 1 dispatcher, 1 backend, 3 points, shutdown anywhere |
| server | Both WaitGroups are exact, the stages go down when the events dispatched before are done and outlive those that call them, the shutdown ends | 1 event, 1 map, the stop event, 2 backends, 1 slot, at most one item from a request |
| cloud | An item is in exactly one place and everything passes on. Cluster: after the faults all processes choose the same live node | 2 dispatchers, 2 series, 1 event, 2 addresses; 2 nodes and a watcher, 2 up at a time, 1 crash, expiry 2 |
| provider | Statistics are those of the cache, failures forget nothing, CachedInstances is implemented, questions are answered. Kubernetes: a stale entry is corrected. AWS: an address is answered with an instance that has it, and `instancesFound` counts those | 2 addresses, 2 questions, 2 ticks, batches of 2; 2 pods, 1 address, 3 changes; 2 addresses asked, up to 3 instances |
| backends | Buffers are conserved, a retry posts its own payload, losses are reported, a stream is called back at most once, every send is called back unless Run has dropped its stream | one of 4 HTTP backends, 2 flushes, 1 event, 1 buffer of each kind, 1 retry; or a Sender with 2 streams of 2 buffers at a time |
| forwarder | Goroutines, series and counters are accounted for, what is accepted is settled, a cancelled Run returns | 2 series with different header values, 1 event, 2 flushes, 1 request, 2 attempts |
| data | Datagrams are handed on once, lines are read as a definition over the whole line says, tags, series and timers are exact, and each backend writes what is enabled of a series, once, at every flush | see below |
| cloud_hosts_queued | violation | 1 address, an event and a series |
| sender_forgets | violation | 2 streams at a time |
| timer_negative | violation | a percentile of -90, up to 4 values |
| gauge_last_received | violation | 1 gauge, batches of up to 2 values |

`data` has a reader and two parsers over shared pools; a chosen set of
datagrams of two lines, one of them with a byte missing; maps of series that filters make equal; 2
workers and series of all four types with expiry intervals below, at and above
zero; all short sequences of timer values with tags in and out of order; and
a series of each type in each backend, over repeated flushes, with 43 sets of
disabled statistics and percentiles that have values or not. `MC_Data.tla` has the values.

A `TypeOK` documents the state of some modules; the one of MetricConsolidator is
proved, as are `PutsNeverBlock` and `NothingLost`, which no run repeats.

Several liveness properties have the form "again and again nothing is left". As
an instance has finitely many items, each of which is settled for good, this
says the same as "every item is settled in the end".

**Why the bounds are enough.** Actors that compete come in twos where TLC can
afford it (receivers, dispatchers, workers, flushes, parsers, pods, nodes); a
queue, pool or semaphore is smaller than the demand, so that it fills; and there
is an item that can arrive while another one is in a later stage. Two ticks or
flushes let state left by the first be met by the second. `MaxOwed`, `MaxAsked`,
`MaxTicks`, `MaxTries`, `MaxFlushes`, `MaxMetrics`, `MaxTime`, `MaxBatch`,
`MaxValues`, `MaxRetries`, `MaxRequests`, `MaxSamples`, `MaxConsumers`,
`MaxChanges`, `MaxQueue`, `MaxUp`, `MaxCrashes`, `MaxReturned` and `MaxBuffers`
bound what the code does without limit. The statistics of CloudHandler are
counted modulo 8 for 2^64; no instance has eight items, so a wrap-around is
always a decrement too many. What the small instance of `server` cannot show,
several events at once, is what its three safety properties are proved for.

**Deadlock** is not checked in `backends`, `provider`, `forwarder`, `data`,
`gauge_last_received` and `sender_forgets`, whose modules end: a Run returns, the
flushes are called back, or an input has been read. MetricConsolidator,
BackendHandler and Server have an explicit final step (`Finished`), so that TLC
tells an end from a deadlock; the parts of `cloud` always have a step. In `stats`
the ticker and the notifier may stutter at their bounds.

**Fairness.** Weak fairness of a step says that a goroutine that can run does.
Strong fairness is used in three situations: a goroutine blocked on a channel
that others use too (`ReceiveTake`, `DrainTake`: Go serves waiters in order of
arrival); a select with several ready cases (`WorkerReceive`, `Stop`,
`CallerReturn`, `RunLookup`, `BackoffTimer`: Go picks a ready case at random, so
none is passed over for ever); and, in Sender, the environment (`Connect`: the
server cannot be unreachable for ever). Also assumed of the environment:
backends call back, requests and retries come to an end, the limiter lets a
batch through, a lookup is answered or fails, the consumer of a channel keeps
reading, the informer of Kubernetes notifies and resyncs, and, once the faults
of a cluster are over, time passes only when what is due has been done. No
cancellation is ever assumed to happen and no shutdown to begin; one that has
begun goes on.

## Proofs

The assumptions are the named `ASSUME`s of the modules, which TLC evaluates.

`MetricConsolidatorProofs` proves, for any finite set of receivers, any
batches and any positive number of slots, for both users of the type:

- `TypeCorrect`, `SlotsAreConserved`, `PutsDoNotBlock`: the maps in the
  channel, lent, collected by Drain and owed by Fill add up to the capacity,
  and therefore none of the sends without a context can block.
- `NoBatchIsLost`, `NoBatchIsDuplicated`: each submitted batch is somewhere,
  and counted over all places it is there once.
- `Refinement`: `Spec` implies the specification of MetricBuffer, with the
  batches in maps, with Drain and with receivers as the pending pool and a
  completed Drain as the snapshot.

Counting slots is not inductive: a step of Drain or Fill needs to know what is
in hand. `SlotInv` adds `Control`, which says for each place of the flusher
which of its slices is empty and how much of Fill is left. `BatchInv` adds
`Lending` (only a receiver between take and put holds a map) and `Fresh` (a
batch being submitted is nowhere else). The key step is the last take of
Drain: by conservation all slots are then in its hands, so no receiver holds a
map, and the pending pool moves to the snapshot at once. One lemma per
operation says what it does to the two pools; the refinement combines them.
That nothing is duplicated is shown by a count of the places of a batch
(`OnceInv`), which a step moves by at most one from one place to another.

`ServerProofs` proves the safety properties of the `server` run for any finite
set of events, any maps, and any number of backends and slots:

- `EventsAreCounted`: the semaphore and both WaitGroups count
  what is under way. `EventInv` joins the counts of EventDispatch with what a
  caller has dispatched so far and which of its goroutines exist, without which
  the correction of the WaitGroup when a caller gives up cannot be shown exact.
  `CloudInv` says that the WaitGroup of the cloud handler is the size of the
  set `Own` of events it has not passed on; each step changes that set by at
  most one event.
- `WaitCoversEverything`: when the stages are cancelled,
  the events dispatched before the waits are done. `WaitFacts` says that after
  the first wait each of them is in the backend handler or has left it and is
  not in `Own`; an event never goes back. `ZeroMeansNone` turns the zero that
  the second wait sees into the absence of goroutines.
- `StagesOutliveCallers`: no parser, flusher or main
  goroutine is in a handler that has returned. `StageInv` relates the number of
  stages that are cancelled to the stages that have returned and to who may
  still hold an item.

`BackendHandlerProofs` proves about the workers and the flusher, for any number
of dispatchers, workers and points and any finite set of backends:

- `ClosedQueuesAreQuiet`: nobody sends on a queue after Run has closed it,
  because every stage that dispatches has returned by then (`StageInv`).
- `FlushesAreSeparate`: when flushData has returned, no worker is in its
  function and no backend still sends. `FlushInv` says that the WaitGroup of a
  call of Process is the number of workers that have its command plus those it
  has yet to reach, and that the WaitGroup of the sends is the number of
  callbacks outstanding.
- `PointsGoOutOnce`: a point is with its dispatcher, in a queue, aggregated,
  dropped, or was handed to every backend once. `PointInv` says where a point
  is and what each place means for each backend. Handing over is one step per
  backend, so a point that is being flushed has reached some and not others;
  the backends a worker has yet to send to tell which.

`HttpBackendProofs` proves about all four backends, for any number of flushes,
events, metrics and buffers:

- `BuffersAreConserved`: a buffer is in its channel or with one goroutine.
  `TaskInv` says for each place of a goroutine whether it holds a buffer, and
  `FlushInv` that a batch is given a goroutine once, since its metrics are no
  longer among those to be added.
- `RequestsPostTheirOwn`: while a goroutine posts or waits to retry, its buffer
  holds what it wrote. It follows from single ownership.
- `LossesAreTold`: the callback of a flush has as many errors as batches were
  not accepted, or the end of the context, and every metric with something to
  send was in a batch or in `batchesCreateFailed`. `Tally` says that the results
  a flush has gathered are those of a set of its batches, with as many failures
  as it has counted; when it has as many results as it made batches, that set is
  all of them. `Covered` follows a metric from the map into a batch.

`HttpForwarderProofs` proves for any series, events, header values, slots and
attempts, with the consolidator as MetricBuffer describes it:

- `GoroutinesAreCounted`: a slot of the semaphore is with each goroutine that
  posts metrics, and eventWg counts those that post events.
- `SeriesAreInOnePlace`: a series is in the consolidator, in one part that waits
  for the semaphore, with one goroutine, or has one outcome. A step that settles
  the series of a goroutine must know that nobody else has them, which the
  property alone does not say: `PlaceInv` says it part by part (`PartsOK`) and
  goroutine by goroutine (`PostsOK`), and that only what was delivered or
  dispatched has an outcome (`HomesOK`).
- `CountersOfMessagesAddUp`: `CreatedOK` balances created messages against those
  sent, dropped and being posted; `ReceivedOK` bounds what the server has
  received by the attempts of the goroutine that has the item.

`CloudHandlerProofs` proves `ItemsAreInOnePlace` for any dispatchers, series and
events, any finite set of addresses, and a provider that does anything
CachedInstances allows. Of each item the invariant names the one place that
has it and says that no other has (`At`), so a step that finds the item in one
place knows about all others; most steps move one item, or the items of one
address, and leave the rest alone (`Unmoved`). For each address `LookedUp` says
that what waits for it waits for a lookup that is on the stack, offered, or
owed by the provider. The lemmas about `Refill` carry it: the refill at the
end of every case of the select moves an address from the stack to the offer
and loses none, in whatever order the new addresses were pushed.

`CachedCloudProviderProofs` proves for any finite set of addresses, any
instances and any size of a batch:

- `StatsAreExact` and `InstancesStayUntilIdle`: the statistics count the cache,
  and a lookup that fails does not replace an instance.
- `ProviderRefinement`: the provider implements CachedInstances. What an address
  is owed is counted over two stacks, two slots and the batch of the
  dispatcher, so the proof rests on lemmas about how often an element is in a
  sequence: a refill moves an element and leaves the sum as it is. `ControlOK`
  adds that a batch that is looked up is not empty.

CloudHandler is built on CachedInstances and HttpForwarder on MetricBuffer, and
the two refinements say that the provider and the consolidator behave as these
contracts do. That a handler over its contract may therefore be read as a
handler over the real component is the usual composition argument; the composed
specification is not written out, and TLAPS does not check this last step.
`MaxOwed`, the bound on refreshes, is no loss here: the theorem holds for each
value of it, and a finite behaviour stays below some value.

`MetricMapProofs` proves about every map over any series, with values in any
unit:

- `ReceiveIsMerge`: receiving a metric is merging a map of that metric alone,
  so how a batch is cut into maps does not matter.
- `MergeCommutes` (up to the order of a timer's values and gauges whose
  timestamps tie) and `MergeAssociates` (without exception): the reason why
  consolidators, forwarders and workers may merge in any grouping.
- `MergeMovesForward`: a merge never lowers a timestamp, and changes a gauge
  only if it raises it.
- `SplitIsPartition`, `SplitByTagsIsPartition`: a split gives each series,
  unchanged, to exactly one part.

The inductive invariants were checked with TLC on the instances of the runs
before they were proved.

**Only model-checked:** all liveness properties (TLAPS does not handle fairness
and ENABLED), which includes that nothing sent is forgotten for ever in Sender
and that a shutdown ends; what folds, sorts and the lexer compute, which needs
induction over data (`LinesReadExactly`, `TimersExact`, `TagsExact`, and
`SeriesConserved` and `SeriesKept`, which add up over sets of any size); and the safety properties of Sender, FlushTicker, FlushNotifier,
Ingest, Payload, AwsProvider, K8sProvider and NodeTracker.

## Findings

`findings` in `PROJECT.json` gives each with its line and the text it is
measured against.

| Run | Code | What happens |
|---|---|---|
| cloud_hosts_queued | `handler_cloud.go:229` | A host that has an event waiting is not counted for metrics but is uncounted, so the gauge can wrap. |
| sender_forgets | `sender.go:52` | With several workers, a backoff may replace a stream that waits to be resumed; its callback is never called. |
| timer_negative | `aggregator.go:134` | A negative percentile that covers all values reads index -1. |
| gauge_last_received | `metric_map.go:296` | Of the values of a gauge in one batch, which have the same timestamp, the first is sent and not the last. |

Also met while modelling. The models do what the code does here, unless it says
otherwise, and each item says which property leaves the case out or has it as
an exception; no property claims that it is right:

- `sender.go:66`: `streamCancel` outlives its backoff, so a later backoff
  without a stream may act on an old context and dereference nil. This is an
  exception in `EverySendIsCalledBack`.
- `statsd.go:253`: parsers may add to a WaitGroup that has been waited for
  before that Wait has returned, and `handler_cloud.go:217`, `httpservers.go:218`:
  a goroutine of the cloud handler or a slow request may outlive the stages and
  send on a closed queue. Both are panics, and ends in `ShutdownCompletes`.
- `flusher.go:62`: Run looks at the clock after its ticker has, so the first
  time between flushes may be zero or negative. `aligned_ticker.go:60` and `:86`:
  if the repeating ticker is created late, ticks are rounded to the same
  instant, and the time is zero. These are the two exceptions in
  `FlushTimesAdvance`.
- `channel_stats_watcher.go:26`: `min` starts at zero, so that the first
  `channel.min` is zero whatever was sampled, against `METRICS.md:32`.
  `ReportsExact` claims nothing about the minimum. `http_receiver_v2.go:24`:
  `metricsProcessed`, reported as `http.incoming.metrics`, is never added to.
- `statser_internal.go:48`: a NotifyFlush whose Drain is cancelled notifies nobody.
- `nodes_redis.go:155`: nodes expire after five seconds; `expiryInterval`, by
  default 30 seconds in `cmd/cluster/server.go:35`, is stored and not used.
  `nodes_redis.go:63`: a watcher, whose nodeid is empty, announces itself once
  and is a node of the others until it expires.
- `aws.go:154`: an instance that has two addresses of a batch answers for the
  first of them, and the other is answered as not found. `AwsAnswers` claims
  nothing about addresses that are answered as not found.
- `cached_cloud_provider_lookup.go:46`: the limiter fails when its context ends,
  or at once if its burst is 0, after which the dispatcher returns. The model
  has the first only.
- `metrics.go:99`: the key of a series has its source as one more tag, `s:host`,
  so that a series with this tag and none of that host has the same key. TagHandler
  has the key as the code makes it; the instance has no such tag.
- `lexer.go:128`: a metric is taken from the pool when a line does not begin like
  an event and is not returned if the line is bad. Ingest has this, and the pool
  makes a new one.
- `parser.go:125`: the raw-metric log is given metrics that `Receive` has
  returned to their pool (`metric_map.go:45`), against `metric_pool.go:29`. The
  model has this order; `DatagramsConserved` does not speak of the log.
- `handler_http_forwarder_v2.go:473`: events are posted without a slot, so
  `max-requests` bounds the posts of metrics only. `GoroutinesCounted` counts
  the two separately. `:360`: a retry is counted before the wait in which it may
  be given up. `CountersAddUp` leaves this counter out.
- `statser_internal.go:60`, `http_receiver_v2.go:187`: a gauge keeps the value
  with the newest timestamp, and timestamps are missing in the server's own
  metrics and are those of the arrival behind a forwarder. `SeriesKept` speaks
  of these timestamps and of the first value in a batch that has them;
  `gauge_last_received` is about the last.
- `latency_histogram.go:55` and `:32`: the bucket of `+Inf` comes on top of
  the limit, and histogram counts ignore the sample rate, so that `+Inf` is not
  the count of a sampled timer, against `README.md:295`. `TimersExact` claims
  that it is for timers that are not sampled.
- `aggregator.go:63`: the names of a percentile have the integer part of its
  threshold, so that 99 and 99.9 have the same names. `EnabledAreWritten` is
  checked for thresholds whose integer parts differ.
- `newrelic.go:390`: the closure that posts compresses its payload in place, so
  a retry posts it compressed twice. Compression is not modelled, and
  `PostsItsOwn` is about datadog and influxdb.
- `influxdb.go:206`: when the context ends while no buffer is free, the nil that
  is returned is released later, a panic and an exception in
  `EverySendIsCalledBack`. `influxdb/flush.go:225`: with a histogram limit of 0,
  which `README.md:300` allows, an empty string is sliced, also a panic.
  Payload reaches it, and `EnabledAreWritten` is about what is written.
- `newrelic.go:151`: `seriesSent` counts the series of the batches that failed,
  against `newrelic.go:83` and `METRICS.md:44`. The counter is not modelled.
- `newrelic/flush.go:47`: the summary of a timer has its minimum, maximum, count
  and sum, and `:94` its value the count, whether they are disabled or not, and
  `:184`: a set has no value, against `README.md:247`. Payload leaves newrelic out.
- Backends may write two values to one name. graphite without tags writes all
  buckets of a histogram to one (`graphite.go:164`), against `README.md:284`;
  cloudwatch keeps ten dimensions (`cloudwatch.go:103`); influxdb, newrelic and
  cloudwatch drop the host; datadog writes the value of a counter `a` and the
  rate of a counter `a.count` as `a.count` (`datadog.go:171`); stdout writes a
  series `a` with the tag `x` like `a.x` (`stdout.go:43`). No property is about
  the names: Payload has none.

## Not modelled

- Generated protocol buffers, configuration, construction of HTTP clients, the
  commands and the tools for load tests have no state that steps share. The
  null backend does nothing.
- Text formats are modelled where a property is about them (the lexer, the
  message of an event). How statsdaemon cuts its output into
  packets, escaping, and the encoding of numbers, JSON and compression are not.
- Rates and standard deviations are quotients and roots of numbers that are
  modelled; TLC has neither.
- In CachedCloudProvider, `updateAccess` may store the time of an access in an
  entry that is being replaced, so the access is forgotten. Times are abstracted
  there to which entries are idle at a tick, which any entry may be.
- TagHandler's DispatchEvent, routes and health checks of the HTTP servers, the
  counters of AWS, and the statsers that only pass calls on have no action.
