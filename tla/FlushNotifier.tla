--------------------------- MODULE FlushNotifier ---------------------------
(***************************************************************************)
(* The notifications of pkg/stats and who acts on them: after each flush   *)
(* the flushNotifier tries to notify every goroutine that has registered,  *)
(* and drops the notification of one that is not in its select.  Three of  *)
(* those goroutines are here, one for each way to report:                  *)
(*   - Http, the RunMetricsContext of the HTTP receiver, reports counters  *)
(*     that its requests add to, and sets them to zero;                    *)
(*   - Parser, that of the parser, reports a ChangeGauge;                  *)
(*   - Watcher, a ChannelStatsWatcher, reports on the samples it has taken *)
(*     of the length of a channel.                                         *)
(***************************************************************************)
EXTENDS Naturals, Sequences, SequencesExt, FiniteSets, FiniteSetsExt

CONSTANTS
    Http, Parser, Watcher,
    repeatCount,
    Capacity,       \* of the channel that is watched
    MaxRequests,    \* bound: requests, and bad lines
    MaxSamples,     \* bound: samples between two reports
    MaxConsumers    \* bound: how many of the goroutines there are

Consumers == {Http, Parser, Watcher}

Failures == {"read", "decompress", "encoding", "unmarshal"}
Counters == Failures \cup {"success", "events"}

\* The order in which emitMetrics comes to them.
SwapOrder == <<"success", "read", "decompress", "encoding", "unmarshal", "events">>

VARIABLES
    flushTargets,   \* the goroutines whose channels are registered
    hook,           \* the one that NotifyFlush is at, or 0; it has the read lock
    closed,         \* the goroutines whose channels are closed
    consumer,       \* where each goroutine is: "absent", "register", "select", "notified" or
                    \* "returned"
    swapped,        \* how many counters emitMetrics has come to
    counters,       \* of rawHttpHandlerV2
    counted,        \* what has been counted since the start
    sent,           \* what the statser was told in all
    halfway,        \* requests with an event whose success is not counted yet
    badLines,       \* the ChangeGauge: [Cur, prev, pending]
    reported,       \* the last value sent of it, and how often it was sent
    changed,        \* Cur has changed since Parser looked at it
    csw,            \* the ChannelStatsWatcher: [samples, accumulated, min, max, last]
    taken           \* the samples taken since the last report

vars == <<flushTargets, hook, closed, consumer, swapped, counters, counted, sent, halfway, badLines,
          reported, changed, csw, taken>>
notifierVars == <<flushTargets, hook, closed, consumer>>
httpVars == <<swapped, counters, counted, sent, halfway>>
parserVars == <<badLines, reported, changed>>
watcherVars == <<csw, taken>>

Zero == [c \in Counters |-> 0]

Init ==
    /\ flushTargets = <<>>
    /\ hook = 0
    /\ closed = {}
    /\ \E there \in SUBSET Consumers :
        /\ Cardinality(there) <= MaxConsumers
        /\ consumer = [c \in Consumers |-> IF c \in there THEN "register" ELSE "absent"]
    /\ swapped = 0
    /\ counters = Zero /\ counted = Zero /\ sent = Zero
    /\ halfway = 0
    /\ badLines = [Cur |-> 0, prev |-> 0, pending |-> 0]
    /\ reported = [value |-> 0, times |-> 0]
    /\ changed = FALSE
    /\ csw = [samples |-> 0, accumulated |-> 0, min |-> 0, max |-> 0, last |-> 0]
    /\ taken = <<>>

-----------------------------------------------------------------------------
(* ChannelStatsWatcher *)

Sampled(w, s) ==
    [samples |-> w.samples + 1, accumulated |-> w.accumulated + s,
     min |-> IF s < w.min THEN s ELSE w.min, max |-> IF s > w.max THEN s ELSE w.max, last |-> s]

\* Mutant: the largest sample is not forgotten.
ResetKeepsMax(w) == [w EXCEPT !.samples = 0, !.accumulated = 0, !.min = Capacity]

Reset(w) == [w EXCEPT !.samples = 0, !.accumulated = 0, !.min = Capacity, !.max = 0]

\* case <-ticker.C
sample ==
    /\ consumer[Watcher] = "select"
    /\ Len(taken) < MaxSamples
    /\ \E s \in 0 .. Capacity : csw' = Sampled(csw, s) /\ taken' = Append(taken, s)
    /\ UNCHANGED <<notifierVars, httpVars, parserVars>>

\* emit, and the sample that is taken at once so that there is one to report
emit ==
    /\ consumer[Watcher] = "notified"
    /\ \E s \in 0 .. Capacity : csw' = Sampled(Reset(csw), s) /\ taken' = <<s>>
    /\ consumer' = [consumer EXCEPT ![Watcher] = "select"]
    /\ UNCHANGED <<flushTargets, hook, closed, httpVars, parserVars>>

-----------------------------------------------------------------------------
(* flushNotifier *)

\* RegisterFlush; Run of the watcher takes its first sample then.
RegisterFlush(c) ==
    /\ hook = 0
    /\ consumer[c] = "register"
    /\ consumer' = [consumer EXCEPT ![c] = "select"]
    /\ flushTargets' = Append(flushTargets, c)
    /\ IF c = Watcher
       THEN \E s \in 0 .. Capacity : csw' = Sampled(csw, s) /\ taken' = <<s>>
       ELSE UNCHANGED watcherVars
    /\ UNCHANGED <<hook, closed, httpVars, parserVars>>

\* case <-ctx.Done(), and the deferred call of what RegisterFlush returned
unregister(c) ==
    /\ hook = 0
    /\ consumer[c] = "select"
    /\ consumer' = [consumer EXCEPT ![c] = "returned"]
    /\ flushTargets' = SelectSeq(flushTargets, LAMBDA t : t # c)
    /\ closed' = closed \cup {c}
    /\ UNCHANGED <<hook, httpVars, parserVars, watcherVars>>

\* The flusher calls NotifyFlush, which takes the read lock.
NotifyFlush ==
    /\ hook = 0
    /\ flushTargets # <<>>
    /\ hook' = 1
    /\ UNCHANGED <<flushTargets, closed, consumer, httpVars, parserVars, watcherVars>>

\* The loop: case hook <- d, or default.
Notify ==
    /\ hook # 0
    /\ hook' = IF hook = Len(flushTargets) THEN 0 ELSE hook + 1
    /\ LET c == flushTargets[hook]
       IN  IF consumer[c] = "select"
           THEN consumer' = [consumer EXCEPT ![c] = "notified"]
           ELSE UNCHANGED consumer
    /\ UNCHANGED <<flushTargets, closed, httpVars, parserVars, watcherVars>>

-----------------------------------------------------------------------------
(* rawHttpHandlerV2 *)

Requests == FoldSet(LAMBDA c, n : counted[c] + n, halfway, Counters \ {"events"})

Count(c) ==
    /\ counters' = [counters EXCEPT ![c] = @ + 1]
    /\ counted' = [counted EXCEPT ![c] = @ + 1]

\* MetricHandler and EventHandler: a request fails, or its map is dispatched.
MetricHandler ==
    /\ consumer[Http] # "absent"
    /\ Requests < MaxRequests
    /\ \E c \in Failures \cup {"success"} : Count(c)
    /\ UNCHANGED <<notifierVars, swapped, sent, halfway, parserVars, watcherVars>>

\* EventHandler: its event is dispatched and counted, and then the request is.
EventHandler ==
    /\ consumer[Http] # "absent"
    /\ Requests < MaxRequests
    /\ Count("events")
    /\ halfway' = halfway + 1
    /\ UNCHANGED <<notifierVars, swapped, sent, parserVars, watcherVars>>

EventHandlerReturns ==
    /\ halfway > 0
    /\ halfway' = halfway - 1
    /\ Count("success")
    /\ UNCHANGED <<notifierVars, swapped, sent, parserVars, watcherVars>>

\* Each counter is read and set to zero at once, one after the other.
emitMetrics ==
    /\ consumer[Http] = "notified"
    /\ LET c == SwapOrder[swapped + 1]
       IN  /\ sent' = [sent EXCEPT ![c] = @ + counters[c]]
           /\ counters' = [counters EXCEPT ![c] = 0]
    /\ IF swapped + 1 < Len(SwapOrder) THEN swapped' = swapped + 1 /\ UNCHANGED consumer
       ELSE swapped' = 0 /\ consumer' = [consumer EXCEPT ![Http] = "select"]
    /\ UNCHANGED <<flushTargets, hook, closed, counted, halfway, parserVars, watcherVars>>

-----------------------------------------------------------------------------
(* ChangeGauge *)

\* A batch with a bad line has been parsed.
badLine ==
    /\ consumer[Parser] # "absent"
    /\ badLines.Cur < MaxRequests
    /\ badLines' = [badLines EXCEPT !.Cur = @ + 1]
    /\ changed' = TRUE
    /\ UNCHANGED <<notifierVars, httpVars, reported, watcherVars>>

SendIfChanged ==
    /\ consumer[Parser] = "notified"
    /\ consumer' = [consumer EXCEPT ![Parser] = "select"]
    /\ LET v == badLines.Cur
           pending == IF v # badLines.prev THEN repeatCount ELSE badLines.pending
       IN  IF pending > 0
           THEN /\ badLines' = [Cur |-> v, prev |-> v, pending |-> pending - 1]
                /\ reported' = [value |-> v, times |-> IF v = reported.value THEN reported.times + 1 ELSE 1]
           ELSE UNCHANGED <<badLines, reported>>
    /\ changed' = FALSE
    /\ UNCHANGED <<flushTargets, hook, closed, httpVars, watcherVars>>

-----------------------------------------------------------------------------

Next ==
    \/ \E c \in Consumers : RegisterFlush(c) \/ unregister(c)
    \/ NotifyFlush \/ Notify
    \/ MetricHandler \/ EventHandler \/ EventHandlerReturns \/ emitMetrics
    \/ badLine \/ SendIfChanged
    \/ sample \/ emit

Spec == Init /\ [][Next]_vars

-----------------------------------------------------------------------------
(* Properties *)

\* The number, the sum, the greatest and the last of what the watcher would report are those
\* of the samples taken since its last report.  Nothing is claimed of min: it starts from zero,
\* so that the first channel.min is no sample's, while METRICS.md has "The minimum sample seen".
WatcherExact ==
    taken # <<>> =>
        /\ csw.samples = Len(taken)
        /\ csw.accumulated = FoldSeq(LAMBDA s, n : s + n, 0, taken)
        /\ csw.max = Max(ToSet(taken))
        /\ csw.last = Last(taken)

\* However many notifications are dropped, and wherever the requests are when one comes,
\* every request and event is reported once: what was counted is what the statser was told
\* and what it is still to be told.  A value of the ChangeGauge is the one reported last
\* unless it has changed since it was looked at, and is reported no more than repeatCount
\* times; the watcher has a sample to report whenever it is notified; and no notification
\* is sent on a channel that is closed.
ReportsExact ==
    /\ \A c \in Counters : counted[c] = sent[c] + counters[c]
    /\ changed \/ reported.value = badLines.Cur
    /\ reported.times <= repeatCount
    /\ WatcherExact
    /\ consumer[Watcher] = "notified" => taken # <<>>
    /\ hook # 0 => flushTargets[hook] \notin closed
====
