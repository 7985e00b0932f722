---------------------------- MODULE CloudHandler ----------------------------
(***************************************************************************)
(* pkg/statsd/handler_cloud.go: metrics and events whose source is in the  *)
(* cache of the instance provider are tagged and passed on at once; the    *)
(* others wait, by address, in the goroutine of Run until the provider has *)
(* answered.  Run, its dispatchers, the goroutines it starts for answered  *)
(* addresses and the provider (CachedInstances) run concurrently.          *)
(*                                                                         *)
(* A metric is one series of a MetricMap.  Tagging is abstracted to the    *)
(* instance an item is passed on with.                                     *)
(***************************************************************************)
EXTENDS CachedInstances, Integers, Sequences, FiniteSets

CONSTANTS
    Metrics, Events,    \* what is dispatched
    Source,             \* the source of every item
    UnknownSource,
    Dispatchers,        \* goroutines calling DispatchMetricMap, DispatchEvent
    StatMod,            \* the statistics are uint64: arithmetic modulo 2^64
    MaxOwed,            \* bound: the provider refreshes only below it
    None                \* no value

Items == Metrics \cup Events

ASSUME ItemsAssumption == Metrics \cap Events = {}
ASSUME IPsAssumption == IsFiniteSet(IPs)
ASSUME UnknownSourceAssumption == UnknownSource \notin IPs
ASSUME SourceAssumption == Source \in [Items -> IPs \cup {UnknownSource}]
ASSUME StatModAssumption == StatMod \in Nat \ {0}
ASSUME MaxOwedAssumption == MaxOwed \in Nat
ASSUME NoneAssumption == None \notin IPs \cup Answers

VARIABLES
    submitted,          \* items some dispatcher was called with
    dpc,                \* where each dispatcher is
    todo,               \* items it has not looked up yet
    hits,               \* items to pass on, as <<item, instance>>
    misses,             \* items to hand to Run
    stopped,            \* Run has returned
    awaitingMetrics, awaitingEvents,
    toLookupIPs,        \* the stack of addresses to send to IpSink
    toLookupIP,         \* the address offered to IpSink (toLookupC is set)
    statsMetricHostsQueued, statsEventItemsQueued, statsEventHostsQueued,
    goMetrics,          \* updateAndDispatchMetrics goroutines
    goEvents,           \* updateAndDispatchEvents goroutines
    wg,                 \* the WaitGroup of WaitForEvents
    passedOn,           \* the instance an item went downstream with
    dropped             \* items given up because a context was done

dispatchVars == <<dpc, todo, hits, misses, submitted>>
lookupVars == <<toLookupIPs, toLookupIP>>
statsVars == <<statsMetricHostsQueued, statsEventItemsQueued, statsEventHostsQueued>>
queueVars == <<awaitingMetrics, awaitingEvents>>
goVars == <<goMetrics, goEvents>>
outVars == <<passedOn, dropped>>
vars == <<instancesVars, dispatchVars, lookupVars, statsVars, queueVars, goVars, wg,
          outVars, stopped>>

Init ==
    /\ InstancesInit
    /\ submitted = {}
    /\ dpc = [d \in Dispatchers |-> "idle"]
    /\ todo = [d \in Dispatchers |-> {}]
    /\ hits = [d \in Dispatchers |-> {}]
    /\ misses = [d \in Dispatchers |-> {}]
    /\ stopped = FALSE
    /\ awaitingMetrics = [ip \in IPs |-> {}]
    /\ awaitingEvents = [ip \in IPs |-> {}]
    /\ toLookupIPs = <<>>
    /\ toLookupIP = None
    /\ statsMetricHostsQueued = 0
    /\ statsEventItemsQueued = 0
    /\ statsEventHostsQueued = 0
    /\ goMetrics = {}
    /\ goEvents = {}
    /\ wg = 0
    /\ passedOn = [i \in Items |-> None]
    /\ dropped = {}

\* getInstance: an unknown source counts as a hit without an instance.
getInstance(ip) == IF ip = UnknownSource THEN NoInstance ELSE cached[ip]

\* handler.DispatchMetricMap or DispatchEvent of the next stage, for a set of
\* pairs <<item, instance>>.
PassOn(pairs) ==
    passedOn' = [i \in Items |->
        IF \E p \in pairs : p[1] = i
        THEN (CHOOSE p \in pairs : p[1] = i)[2]
        ELSE passedOn[i]]
-----------------------------------------------------------------------------
(* DispatchMetricMap and DispatchEvent, in the goroutine of their caller.  *)

DispatchMetricMap(d, mm) ==
    /\ dpc[d] = "idle"
    /\ mm # {}
    /\ mm \cap submitted = {}
    /\ dpc' = [dpc EXCEPT ![d] = "peek"]
    /\ todo' = [todo EXCEPT ![d] = mm]
    /\ submitted' = submitted \cup mm
    /\ UNCHANGED <<instancesVars, hits, misses, lookupVars, statsVars, queueVars,
                   goVars, wg, outVars, stopped>>

DispatchEvent(d, e) ==
    /\ dpc[d] = "idle"
    /\ e \notin submitted
    /\ dpc' = [dpc EXCEPT ![d] = "peek"]
    /\ todo' = [todo EXCEPT ![d] = {e}]
    /\ submitted' = submitted \cup {e}
    /\ UNCHANGED <<instancesVars, hits, misses, lookupVars, statsVars, queueVars,
                   goVars, wg, outVars, stopped>>

\* updateTagsAndHostname for one item.
Peek(d, i) ==
    /\ dpc[d] = "peek"
    /\ i \in todo[d]
    /\ todo' = [todo EXCEPT ![d] = @ \ {i}]
    /\ IF getInstance(Source[i]) = Miss
       THEN /\ misses' = [misses EXCEPT ![d] = @ \cup {i}]
            /\ UNCHANGED hits
       ELSE /\ hits' = [hits EXCEPT ![d] = @ \cup {<<i, getInstance(Source[i])>>}]
            /\ UNCHANGED misses
    /\ dpc' = [dpc EXCEPT ![d] = IF todo[d] = {i} THEN "pass" ELSE "peek"]
    /\ UNCHANGED <<instancesVars, submitted, lookupVars, statsVars, queueVars, goVars,
                   wg, outVars, stopped>>

\* Mutant: the map that came in is passed on, not the map of the hits.
PassWholeMap(d) ==
    /\ dpc[d] = "pass"
    /\ PassOn(hits[d] \cup {<<i, NoInstance>> : i \in misses[d]})
    /\ hits' = [hits EXCEPT ![d] = {}]
    /\ wg' = wg + Cardinality(misses[d] \cap Events)
    /\ dpc' = [dpc EXCEPT ![d] = IF misses[d] = {} THEN "idle" ELSE "send"]
    /\ UNCHANGED <<instancesVars, submitted, todo, misses, lookupVars, statsVars,
                   queueVars, goVars, dropped, stopped>>

\* What was a hit goes downstream; an event that was a miss is counted in wg
\* before it is sent to Run.
Pass(d) ==
    /\ dpc[d] = "pass"
    /\ PassOn(hits[d])
    /\ hits' = [hits EXCEPT ![d] = {}]
    /\ wg' = wg + Cardinality(misses[d] \cap Events)
    /\ dpc' = [dpc EXCEPT ![d] = IF misses[d] = {} THEN "idle" ELSE "send"]
    /\ UNCHANGED <<instancesVars, submitted, todo, misses, lookupVars, statsVars,
                   queueVars, goVars, dropped, stopped>>

\* case <-ctx.Done(), which may happen in any call.
SendCancelled(d) ==
    /\ dpc[d] = "send"
    /\ wg' = wg - Cardinality(misses[d] \cap Events)
    /\ dropped' = dropped \cup misses[d]
    /\ misses' = [misses EXCEPT ![d] = {}]
    /\ dpc' = [dpc EXCEPT ![d] = "idle"]
    /\ UNCHANGED <<instancesVars, submitted, todo, hits, lookupVars, statsVars, queueVars,
                   goVars, passedOn, stopped>>
-----------------------------------------------------------------------------
(* Run.  Every case of the select ends with the refill of toLookupIP.      *)

Refill(ip, ips) ==
    IF ip = None /\ ips # <<>>
    THEN /\ toLookupIP' = ips[Len(ips)]
         /\ toLookupIPs' = SubSeq(ips, 1, Len(ips) - 1)
    ELSE /\ toLookupIP' = ip
         /\ toLookupIPs' = ips

\* case toLookupC <- toLookupIP
RunLookup ==
    /\ ~stopped
    /\ toLookupIP # None
    /\ Request(toLookupIP)
    /\ Refill(None, toLookupIPs)
    /\ UNCHANGED <<dispatchVars, statsVars, queueVars, goVars, wg, outVars, stopped>>

\* Mutant: the events are only looked at when no metrics wait.
RunInfoMetricsElseEvents(ip, instance) ==
    /\ ~stopped
    /\ Answer(ip)
    /\ IF awaitingMetrics[ip] = {}
       THEN UNCHANGED <<awaitingMetrics, statsMetricHostsQueued, goMetrics>>
       ELSE /\ awaitingMetrics' = [awaitingMetrics EXCEPT ![ip] = {}]
            /\ statsMetricHostsQueued' = (statsMetricHostsQueued - 1) % StatMod
            /\ goMetrics' = goMetrics \cup
                   {[items |-> awaitingMetrics[ip], instance |-> instance]}
    /\ IF awaitingEvents[ip] = {} \/ awaitingMetrics[ip] # {}
       THEN UNCHANGED <<awaitingEvents, statsEventItemsQueued, statsEventHostsQueued,
                        goEvents>>
       ELSE /\ awaitingEvents' = [awaitingEvents EXCEPT ![ip] = {}]
            /\ statsEventItemsQueued' =
                   (statsEventItemsQueued - Cardinality(awaitingEvents[ip])) % StatMod
            /\ statsEventHostsQueued' = (statsEventHostsQueued - 1) % StatMod
            /\ goEvents' = goEvents \cup
                   {[items |-> awaitingEvents[ip], instance |-> instance,
                     dispatched |-> {}]}
    /\ Refill(toLookupIP, toLookupIPs)
    /\ UNCHANGED <<dispatchVars, wg, outVars, stopped>>

\* case info := <-infoSource: handleInstanceInfo
RunInfo(ip, instance) ==
    /\ ~stopped
    /\ Answer(ip)
    /\ IF awaitingMetrics[ip] = {}
       THEN UNCHANGED <<awaitingMetrics, statsMetricHostsQueued, goMetrics>>
       ELSE /\ awaitingMetrics' = [awaitingMetrics EXCEPT ![ip] = {}]
            /\ statsMetricHostsQueued' = (statsMetricHostsQueued - 1) % StatMod
            /\ goMetrics' = goMetrics \cup
                   {[items |-> awaitingMetrics[ip], instance |-> instance]}
    /\ IF awaitingEvents[ip] = {}
       THEN UNCHANGED <<awaitingEvents, statsEventItemsQueued, statsEventHostsQueued,
                        goEvents>>
       ELSE /\ awaitingEvents' = [awaitingEvents EXCEPT ![ip] = {}]
            /\ statsEventItemsQueued' =
                   (statsEventItemsQueued - Cardinality(awaitingEvents[ip])) % StatMod
            /\ statsEventHostsQueued' = (statsEventHostsQueued - 1) % StatMod
            /\ goEvents' = goEvents \cup
                   {[items |-> awaitingEvents[ip], instance |-> instance,
                     dispatched |-> {}]}
    /\ Refill(toLookupIP, toLookupIPs)
    /\ UNCHANGED <<dispatchVars, wg, outVars, stopped>>

Orders(S) == {s \in [1..Cardinality(S) -> S] : \A i, j \in DOMAIN s : s[i] = s[j] => i = j}

\* prepareMetricQueue asks for an address if nothing waits for it yet.
NewHosts(mm) ==
    {ip \in {Source[m] : m \in mm} : awaitingMetrics[ip] = {} /\ awaitingEvents[ip] = {}}

\* case metrics := <-ch.incomingMetrics: handleIncomingMetrics, which visits
\* the series of the map in any order.
RunMetrics(d) ==
    /\ ~stopped
    /\ dpc[d] = "send"
    /\ misses[d] \subseteq Metrics
    /\ awaitingMetrics' = [ip \in IPs |->
           awaitingMetrics[ip] \cup {m \in misses[d] : Source[m] = ip}]
    /\ statsMetricHostsQueued' =
           (statsMetricHostsQueued + Cardinality(NewHosts(misses[d]))) % StatMod
    /\ \E order \in Orders(NewHosts(misses[d])) :
           Refill(toLookupIP, toLookupIPs \o order)
    /\ misses' = [misses EXCEPT ![d] = {}]
    /\ dpc' = [dpc EXCEPT ![d] = "idle"]
    /\ UNCHANGED <<instancesVars, submitted, todo, hits, statsEventItemsQueued,
                   statsEventHostsQueued, awaitingEvents, goVars, wg, outVars, stopped>>

\* case e := <-ch.incomingEvents: handleIncomingEvent
RunEvent(d, e) ==
    /\ ~stopped
    /\ dpc[d] = "send"
    /\ misses[d] = {e}
    /\ e \in Events
    /\ LET ip == Source[e]
       IN  /\ awaitingEvents' = [awaitingEvents EXCEPT ![ip] = @ \cup {e}]
           /\ IF awaitingEvents[ip] = {} /\ awaitingMetrics[ip] = {}
              THEN /\ Refill(toLookupIP, Append(toLookupIPs, ip))
                   /\ statsEventHostsQueued' = (statsEventHostsQueued + 1) % StatMod
              ELSE /\ Refill(toLookupIP, toLookupIPs)
                   /\ UNCHANGED statsEventHostsQueued
    /\ statsEventItemsQueued' = (statsEventItemsQueued + 1) % StatMod
    /\ misses' = [misses EXCEPT ![d] = {}]
    /\ dpc' = [dpc EXCEPT ![d] = "idle"]
    /\ UNCHANGED <<instancesVars, submitted, todo, hits, statsMetricHostsQueued,
                   awaitingMetrics, goVars, wg, outVars, stopped>>

\* case <-ctx.Done().  The stager cancels Run after the stages of its callers,
\* but an HTTP request may outlive its stage, so Run may stop at any time.
RunReturn ==
    /\ ~stopped
    /\ stopped' = TRUE
    /\ UNCHANGED <<instancesVars, dispatchVars, lookupVars, statsVars, queueVars, goVars,
                   wg, outVars>>
-----------------------------------------------------------------------------
(* The goroutines Run starts and does not wait for.                        *)

updateAndDispatchMetrics(g) ==
    /\ g \in goMetrics
    /\ PassOn({<<m, g.instance>> : m \in g.items})
    /\ goMetrics' = goMetrics \ {g}
    /\ UNCHANGED <<instancesVars, dispatchVars, lookupVars, statsVars, queueVars,
                   goEvents, wg, dropped, stopped>>

updateAndDispatchEvent(g, e) ==
    /\ g \in goEvents
    /\ e \in g.items
    /\ PassOn({<<e, g.instance>>})
    /\ goEvents' = (goEvents \ {g}) \cup
           {[g EXCEPT !.items = @ \ {e}, !.dispatched = @ \cup {e}]}
    /\ UNCHANGED <<instancesVars, dispatchVars, lookupVars, statsVars, queueVars,
                   goMetrics, wg, dropped, stopped>>

\* The deferred ch.wg.Add(-dispatched).
updateAndDispatchEventsReturn(g) ==
    /\ g \in goEvents
    /\ g.items = {}
    /\ wg' = wg - Cardinality(g.dispatched)
    /\ goEvents' = goEvents \ {g}
    /\ UNCHANGED <<instancesVars, dispatchVars, lookupVars, statsVars, queueVars,
                   goMetrics, outVars, stopped>>
-----------------------------------------------------------------------------
\* The provider fills and empties its cache and refreshes entries by itself.
Provider ==
    /\ \/ \E ip \in IPs, instance \in Answers : Learn(ip, instance)
       \/ \E idle, stale \in SUBSET IPs :
             /\ \A ip \in stale : owed[ip] < MaxOwed
             /\ Tick(idle, stale)
    /\ UNCHANGED <<dispatchVars, lookupVars, statsVars, queueVars, goVars, wg, outVars,
                   stopped>>

Dispatcher(d) ==
    \/ \E i \in Items : Peek(d, i)
    \/ Pass(d)

Goroutines ==
    \/ \E g \in goMetrics : updateAndDispatchMetrics(g)
    \/ \E g \in goEvents, e \in Events : updateAndDispatchEvent(g, e)
    \/ \E g \in goEvents : updateAndDispatchEventsReturn(g)

RunReceive ==
    \/ \E d \in Dispatchers : RunMetrics(d)
    \/ \E d \in Dispatchers, e \in Events : RunEvent(d, e)

Next ==
    \/ \E d \in Dispatchers, mm \in SUBSET Metrics : DispatchMetricMap(d, mm)
    \/ \E d \in Dispatchers, e \in Events : DispatchEvent(d, e)
    \/ \E d \in Dispatchers : Dispatcher(d) \/ SendCancelled(d)
    \/ RunLookup
    \/ \E ip \in IPs, instance \in Answers : RunInfo(ip, instance)
    \/ RunReceive
    \/ RunReturn
    \/ Goroutines
    \/ Provider

Spec == Init /\ [][Next]_vars

\* The handler's own goroutines do not all stop while one of them can run,
\* and Run's select, which picks any ready case, does not pass over the
\* answers for an address for ever; the provider answers (it is shown to in
\* CachedCloudProvider).
FairSpec ==
    /\ Spec
    /\ WF_vars(RunLookup \/ RunReceive \/ Goroutines \/ \E d \in Dispatchers : Dispatcher(d))
    /\ \A ip \in IPs : WF_vars(\E instance \in Answers : RunInfo(ip, instance))
-----------------------------------------------------------------------------
(* Properties                                                              *)

GoMetrics == [items : SUBSET Metrics, instance : Answers]
GoEvents == [items : SUBSET Events, instance : Answers,
             dispatched : SUBSET Events]

\* The types of the handler's state.
TypeOK ==
    /\ cached \in [IPs -> Answers \cup {Miss}]
    /\ owed \in [IPs -> Nat]
    /\ submitted \subseteq Items
    /\ dpc \in [Dispatchers -> {"idle", "peek", "pass", "send"}]
    /\ todo \in [Dispatchers -> SUBSET Items]
    /\ hits \in [Dispatchers -> SUBSET (Items \X Answers)]
    /\ misses \in [Dispatchers -> SUBSET {i \in Items : Source[i] \in IPs}]
    /\ stopped \in BOOLEAN
    /\ awaitingMetrics \in [IPs -> SUBSET Metrics]
    /\ awaitingEvents \in [IPs -> SUBSET Events]
    /\ toLookupIPs \in Seq(IPs)
    /\ toLookupIP \in IPs \cup {None}
    /\ statsMetricHostsQueued \in 0..(StatMod - 1)
    /\ statsEventItemsQueued \in 0..(StatMod - 1)
    /\ statsEventHostsQueued \in 0..(StatMod - 1)
    /\ goMetrics \subseteq GoMetrics
    /\ goEvents \subseteq GoEvents
    /\ wg \in Int
    /\ passedOn \in [Items -> Answers \cup {None}]
    /\ dropped \subseteq Items

\* The address is on the stack, offered to IpSink, or with the provider.
BeingLookedUp(ip) ==
    \/ \E k \in DOMAIN toLookupIPs : toLookupIPs[k] = ip
    \/ toLookupIP = ip
    \/ owed[ip] > 0

\* Where an item is while the handler has it, one entry per place.
Places(i) ==
    {<<"todo", d>> : d \in {d \in Dispatchers : i \in todo[d]}} \cup
    {<<"hit", d>> : d \in {d \in Dispatchers : \E a \in Answers : <<i, a>> \in hits[d]}} \cup
    {<<"miss", d>> : d \in {d \in Dispatchers : i \in misses[d]}} \cup
    {<<"awaiting", ip>> : ip \in
        {ip \in IPs : i \in awaitingMetrics[ip] \cup awaitingEvents[ip]}} \cup
    {<<"goroutine", g.items>> : g \in {g \in goMetrics \cup goEvents : i \in g.items}} \cup
    {<<"dropped", i>> : x \in dropped \cap {i}} \cup
    {<<"passed", i>> : x \in {p \in {passedOn[i]} : p # None}}

\* Every item dispatched to the handler is in exactly one place: none is
\* lost between cache, queues and goroutines, and none goes on twice.  And
\* whatever waits for an address waits for an answer that is still to come:
\* prepareMetricQueue and handleIncomingEvent may leave a lookup out only
\* because one is under way, also when answers nobody asked for come between.
ExactlyOnePlace ==
    /\ \A i \in Items : Cardinality(Places(i)) = IF i \in submitted THEN 1 ELSE 0
    /\ \A ip \in IPs :
        awaitingMetrics[ip] # {} \/ awaitingEvents[ip] # {} => BeingLookedUp(ip)

\* "Absolute number of IPs waiting for a CP to respond for metrics", the
\* comment on statsMetricHostsQueued.  The code counts an address only when
\* no event waits for it, and uncounts it always.
MetricHostsQueuedExact ==
    statsMetricHostsQueued =
        Cardinality({ip \in IPs : awaitingMetrics[ip] # {}}) % StatMod

\* Everything dispatched goes downstream in the end, unless its caller's
\* context or Run's is done: again and again the handler holds nothing.
EverythingPassesOn ==
    []<>(stopped \/ \A i \in submitted : passedOn[i] # None \/ i \in dropped)
=============================================================================
