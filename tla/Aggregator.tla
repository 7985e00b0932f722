----------------------------- MODULE Aggregator -----------------------------
(***************************************************************************)
(* The life of a series, from the parser to the reports of the             *)
(* MetricAggregators: metrics enter maps, maps are merged, possibly sent   *)
(* to another server, split between the workers, and merged into the map   *)
(* of an aggregator, which is reported and reset at every flush and keeps  *)
(* a series until it expires.  The maps overtake each other on the way.    *)
(*                                                                         *)
(* The queues, the semaphores and the shutdown of the handlers on that way *)
(* are the subject of other modules; here a map on its way is a member of  *)
(* a sequence from which any one may be taken.  The clock is advanced by   *)
(* every batch of datagrams and every post that arrives, so that no two of *)
(* them have the same time.                                                *)
(***************************************************************************)
EXTENDS MetricMap, SequencesExt, BagsExt

CONSTANTS
    Metrics,        \* what clients send: records with series, value, weight
    Internal,       \* what the server reports about itself, alike
    Count,          \* the number of workers, each with an aggregator
    Expiry,         \* the expiry interval of each type
    Forwarded,      \* series whose clients talk to a forwarder, not to the server
    MaxBatch,       \* bound: metrics in one batch of datagrams
    MaxMetrics,     \* bound: metrics received
    MaxTime         \* bound: the clock

ASSUME ExpiryAssumption == Expiry \in [Types -> Int]
ASSUME CountAssumption == Count \in Nat \ {0}
ASSUME ForwardedAssumption == Forwarded \subseteq Series

VARIABLES
    now,            \* the clock
    left,           \* how many more metrics clients will send
    edge,           \* maps in the forwarder or the server that clients talk to
    posted,         \* maps on their way from a forwarder to the server
    queue,          \* the maps waiting for each worker
    agg,            \* the metricMap of each worker's MetricAggregator
    due,            \* counters, timers: what was received minus what was reported
    unreported,     \* timers, sets: the values received and not yet reported
    newest          \* the newest timestamp, and the values of gauges that have it: [ts, values],
                    \* values being the sequences in which batches had them

pipeline == <<edge, posted, queue, agg>>
history == <<due, unreported, newest>>
vars == <<now, left, pipeline, history>>

Workers == 0 .. Count - 1

OfType(types) == {s \in Series : Type[s] \in types}

Init ==
    /\ now = 1
    /\ left = MaxMetrics
    /\ edge = <<>>
    /\ posted = <<>>
    /\ queue = [w \in Workers |-> <<>>]
    /\ agg = [w \in Workers |-> NewMetricMap]
    /\ due = [s \in OfType({"counter", "timer"}) |-> 0]
    /\ unreported = [s \in OfType({"timer", "set"}) |->
                        IF Type[s] = "timer" THEN EmptyBag ELSE {}]
    /\ newest = [s \in Series |-> [ts |-> -1, values |-> {}]]

-----------------------------------------------------------------------------
(* The history variables, which see the metrics and the reports only.      *)

Contribution(m) ==
    IF Type[m.series] = "counter" THEN Int64(m.value * m.weight) ELSE m.weight

\* The newest of s after the values, in this order, have come with the time ts.
NotedAt(s, ts, values) ==
    LET gauges == IF Type[s] = "gauge" THEN {values} ELSE {}
    IN  IF ts < newest[s].ts THEN newest[s]
        ELSE IF ts = newest[s].ts THEN [newest[s] EXCEPT !.values = @ \cup gauges]
        ELSE [ts |-> ts, values |-> gauges]

\* What a sequence ms of metrics adds to the history.  What is forwarded has no time before it
\* arrives.
Note(ms) ==
    LET Of(s) == SelectSeq(ms, LAMBDA m : m.series = s)
        ValuesOf(s) == [i \in 1 .. Len(Of(s)) |-> Of(s)[i].value]
    IN  /\ due' = [s \in DOMAIN due |->
                    FoldLeft(LAMBDA sum, m : sum + Contribution(m), due[s], Of(s))]
        /\ unreported' = [s \in DOMAIN unreported |->
                            IF Type[s] = "timer"
                            THEN unreported[s] (+) ToBag(ValuesOf(s))
                            ELSE unreported[s] \cup ToSet(ValuesOf(s))]
        /\ newest' = [s \in DOMAIN newest |->
                        IF s \in Forwarded \/ Of(s) = <<>> THEN newest[s]
                        ELSE NotedAt(s, ms[1].ts, ValuesOf(s))]

CountOf(mm, s) ==
    IF s \notin DOMAIN mm THEN 0
    ELSE IF Type[s] = "counter" THEN mm[s].value ELSE mm[s].sampled

\* What the report of a map removes from the history.
NoteReport(mm) ==
    /\ due' = [s \in DOMAIN due |-> due[s] - CountOf(mm, s)]
    /\ unreported' = [s \in DOMAIN unreported |->
                        IF s \notin DOMAIN mm THEN unreported[s]
                        ELSE IF Type[s] = "timer"
                        THEN unreported[s] (-) ToBag(mm[s].values)
                        ELSE unreported[s] \ mm[s].values]
    /\ UNCHANGED newest

-----------------------------------------------------------------------------

Stamped(ms, ts) ==
    [i \in 1 .. Len(ms) |-> [series |-> ms[i].series, value |-> ms[i].value,
                             weight |-> ms[i].weight, ts |-> ts]]

\* Series whose clients talk to one and the same process.
SameServer(series) == series \subseteq Forwarded \/ series \cap Forwarded = {}

\* What a parser of one process may find in a batch of datagrams.
Batches ==
    {batch \in BoundedSeq(Metrics, MaxBatch) : /\ batch # <<>>
                                              /\ SameServer({m.series : m \in ToSet(batch)})}

\* One batch of datagrams: all its metrics carry the time at which it was read.
ParseBatch(batch) ==
    LET ms == Stamped(batch, now)
    IN  /\ Len(batch) <= left
        /\ now < MaxTime
        /\ now' = now + 1
        /\ left' = left - Len(ms)
        /\ edge' = Append(edge, FoldLeft(Receive, NewMetricMap, ms))
        /\ Note(ms)
        /\ UNCHANGED <<posted, queue, agg>>

\* InternalStatser sets no timestamp.
StatserReport(m) ==
    LET ms == Stamped(<<m>>, 0)
    IN  /\ left > 0
        /\ left' = left - 1
        /\ edge' = Append(edge, Receive(NewMetricMap, ms[1]))
        /\ Note(ms)
        /\ UNCHANGED <<now, posted, queue, agg>>

\* A MetricConsolidator is flushed: its maps become one.
Consolidate(i, j) ==
    /\ i # j
    /\ SameServer(DOMAIN edge[i] \cup DOMAIN edge[j])
    /\ edge' = LET merged == Merge(Merge(NewMetricMap, edge[i]), edge[j])
               IN  RemoveAt(ReplaceAt(edge, i, merged), j)
    /\ UNCHANGED <<now, left, posted, queue, agg, history>>

\* HttpForwarderHandlerV2.Run: a post for each combination of header tags.
Forward(i) ==
    /\ DOMAIN edge[i] \subseteq Forwarded
    /\ LET parts == SplitByTags(edge[i])
           keys == SetToSeq(DOMAIN parts)
       IN  posted' = posted \o [k \in 1 .. Len(keys) |-> parts[keys[k]]]
    /\ edge' = RemoveAt(edge, i)
    /\ UNCHANGED <<now, left, queue, agg, history>>

\* BackendHandler.DispatchMetricMap: every worker gets its part, if it has one.
Queued(mm) ==
    LET parts == Split(mm, Count)
    IN  [w \in Workers |->
            IF IsEmpty(parts[w]) THEN queue[w] ELSE Append(queue[w], parts[w])]

\* rawHttpHandlerV2.MetricHandler: a post arrives; posts overtake each other.
Arrive(i) ==
    /\ now < MaxTime
    /\ now' = now + 1
    /\ queue' = Queued(Restamp(posted[i], now))
    /\ posted' = RemoveAt(posted, i)
    /\ newest' = [s \in DOMAIN newest |->
                    IF s \notin DOMAIN posted[i] THEN newest[s]
                    ELSE NotedAt(s, now, IF Type[s] = "gauge" THEN <<posted[i][s].value>> ELSE <<>>)]
    /\ UNCHANGED <<left, edge, agg, due, unreported>>

Dispatch(i) ==
    /\ DOMAIN edge[i] \cap Forwarded = {}
    /\ queue' = Queued(edge[i])
    /\ edge' = RemoveAt(edge, i)
    /\ UNCHANGED <<now, left, posted, agg, history>>

ReceiveMap(w) ==
    /\ queue[w] # <<>>
    /\ agg' = [agg EXCEPT ![w] = Merge(@, Head(queue[w]))]
    /\ queue' = [queue EXCEPT ![w] = Tail(@)]
    /\ UNCHANGED <<now, left, edge, posted, history>>

\* Mutant: a series expires when it is exactly as old as the interval.
isExpiredEarly(interval, ts) == interval # 0 /\ now - ts >= interval

isExpired(interval, ts) == interval # 0 /\ now - ts > interval

Cleared(s, entry) ==
    CASE Type[s] = "counter" -> [entry EXCEPT !.value = 0]
      [] Type[s] = "gauge" -> entry
      [] Type[s] = "set" -> [entry EXCEPT !.values = {}]
      [] Type[s] = "timer" -> [entry EXCEPT !.values = <<>>, !.sampled = 0]

Reset(mm) ==
    [s \in {s \in DOMAIN mm : ~isExpired(Expiry[Type[s]], mm[s].ts)} |->
        Cleared(s, mm[s])]

\* Mutant: Reset is called before Process.
FlushResetsFirst(w) ==
    /\ NoteReport(Reset(agg[w]))
    /\ agg' = [agg EXCEPT ![w] = Reset(@)]
    /\ UNCHANGED <<now, left, edge, posted, queue>>

\* flushData on one worker: Flush, Process and Reset, with no ReceiveMap between.
Flush(w) ==
    /\ NoteReport(agg[w])
    /\ agg' = [agg EXCEPT ![w] = Reset(@)]
    /\ UNCHANGED <<now, left, edge, posted, queue>>

Tick ==
    /\ now < MaxTime
    /\ now' = now + 1
    /\ UNCHANGED <<left, pipeline, history>>

Next ==
    \/ left > 0 /\ \E batch \in Batches : ParseBatch(batch)
    \/ \E m \in Internal : StatserReport(m)
    \/ \E i, j \in 1 .. Len(edge) : Consolidate(i, j)
    \/ \E i \in 1 .. Len(edge) : Forward(i) \/ Dispatch(i)
    \/ \E i \in 1 .. Len(posted) : Arrive(i)
    \/ \E w \in Workers : ReceiveMap(w) \/ Flush(w)
    \/ Tick

Spec == Init /\ [][Next]_vars

-----------------------------------------------------------------------------
(* Properties.                                                             *)

InFlight ==
    edge \o posted \o FlattenSeq([w \in 1 .. Count |-> queue[w - 1]])

Places == InFlight \o [w \in 1 .. Count |-> agg[w - 1]]

IsEntry(s, entry) ==
    /\ entry.ts \in 0 .. MaxTime
    /\ CASE Type[s] \in {"counter", "gauge"} -> entry.value \in Int
         [] Type[s] = "set" -> IsFiniteSet(entry.values)
         [] Type[s] = "timer" -> entry.sampled >= Len(entry.values)

\* Every map holds entries of the kind its series has, none of them later than
\* the bound of the clock, and a timer counts at least its values.
TypeOK ==
    /\ now \in 1 .. MaxTime
    /\ left \in 0 .. MaxMetrics
    /\ \A i \in 1 .. Len(Places) : \A s \in DOMAIN Places[i] :
            s \in Series /\ IsEntry(s, Places[i][s])

\* Whatever the order in which maps are merged, split, forwarded and flushed,
\* the counts of all reports and of all maps on their way add up to what was
\* received: Reset and expiry discard nothing that has not been reported.
CountsConserved ==
    \A s \in DOMAIN due :
        due[s] = FoldLeft(LAMBDA sum, mm : sum + CountOf(mm, s), 0, Places)

\* The same of the values of timers, each as often as it was received, and of
\* the members of sets, which may be reported more than once.
ValuesConserved ==
    \A s \in DOMAIN unreported :
        LET of == SelectSeq(Places, LAMBDA mm : s \in DOMAIN mm)
        IN  IF Type[s] = "timer"
            THEN unreported[s] =
                    FoldLeft(LAMBDA bag, mm : bag (+) ToBag(mm[s].values), EmptyBag, of)
            ELSE unreported[s] \subseteq UNION {of[i][s].values : i \in 1 .. Len(of)}

Settled(s) == \A i \in 1 .. Len(InFlight) : s \notin DOMAIN InFlight[i]

Owner(s) == Bucket(s, Count)

\* A series is reported at every flush from its first report until it is older
\* than the expiry interval of its type: once no map with the series is on its
\* way, its owner has it, whichever map came last.
KeptUntilExpired ==
    \A s \in Series :
        /\ newest[s].ts >= 0
        /\ Settled(s)
        /\ Expiry[Type[s]] = 0 \/ now - newest[s].ts <= Expiry[Type[s]]
        => s \in DOMAIN agg[Owner(s)]

\* A gauge that is reported and has not expired.
Reported(s) ==
    /\ Settled(s)
    /\ s \in DOMAIN agg[Owner(s)]
    /\ Expiry["gauge"] = 0 \/ now - newest[s].ts <= Expiry["gauge"]

\* The value that is reported of a gauge is that of the newest batch, and of the values of
\* that batch the first, however the maps have overtaken each other; behind a forwarder it is
\* that of the post that arrived last.  Only the server's own gauges, which have no time, may
\* tie between batches.  (A value that arrives after a newer one has expired is reported, but
\* it has expired too.)
NewestGaugeWins ==
    \A s \in OfType({"gauge"}) :
        Reported(s) => \E values \in newest[s].values : agg[Owner(s)][s].value = Head(values)

\* "gauge ... sends the last received value": of a gauge that clients send to this server, the
\* last value of the last batch.
LastReceivedIsSent ==
    \A s \in OfType({"gauge"}) \ Forwarded :
        Reported(s) => \E values \in newest[s].values : agg[Owner(s)][s].value = Last(values)

=============================================================================
