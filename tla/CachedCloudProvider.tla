------------------------ MODULE CachedCloudProvider ------------------------
(***************************************************************************)
(* pkg/cachedinstances/cloudprovider: a cache of instances in front of a   *)
(* cloud provider.  Run owns the cache; a cloudProviderLookupDispatcher    *)
(* collects addresses into batches and looks them up; addresses come from  *)
(* the consumer and, to refresh entries, from Run itself, through the same *)
(* unbuffered channel.                                                     *)
(*                                                                         *)
(* Time is abstracted: at a tick any entry may have been idle for too long *)
(* or have expired, and the batch timer may fire whenever it is set.       *)
(***************************************************************************)
EXTENDS Integers, Sequences, FiniteSets

CONSTANTS
    IPs,
    Instances,
    NoInstance,         \* a nil *Instance
    Miss,               \* no entry in the cache
    None,
    MaxInstancesBatch,  \* cloudProvider.MaxInstancesBatch()
    MaxAsked,           \* bound: addresses the consumer asks for
    MaxTicks            \* bound: ticks of refreshTicker

ASSUME IPsAssumption == IsFiniteSet(IPs)
ASSUME ValuesAssumption ==
    /\ NoInstance \notin Instances
    /\ Miss \notin Instances \cup {NoInstance}
    /\ None \notin IPs
ASSUME BatchAssumption == MaxInstancesBatch \in Nat \ {0}
ASSUME BoundsAssumption == MaxAsked \in Nat /\ MaxTicks \in Nat

VARIABLES
    cache,              \* the instance held for each address, or Miss
    toLookupIPs,        \* the stack of addresses to refresh
    toLookupIP,         \* the address Run offers to the dispatcher
    toReturnInfos,      \* the stack of answers for the consumer
    toReturnInfo,       \* the answer Run offers to the consumer
    statsCachePositive, statsCacheNegative,
    ips,                \* the dispatcher's batch
    timer,              \* its 10ms timer c is set
    instances,          \* what the provider returned for the batch
    ldpc,               \* the dispatcher: collects, waits for its limiter, sends
    rpc,                \* Run: running, waiting for the dispatcher, returned
    cancelled,          \* Run's context is done
    asked, ticks        \* how much of the bounds is used

cacheVars == <<cache, statsCachePositive, statsCacheNegative>>
lookupVars == <<toLookupIPs, toLookupIP>>
returnVars == <<toReturnInfos, toReturnInfo>>
ldVars == <<ips, timer, instances, ldpc>>
boundVars == <<asked, ticks>>
stopVars == <<rpc, cancelled>>
vars == <<cacheVars, lookupVars, returnVars, ldVars, boundVars, stopVars>>

Answers == Instances \cup {NoInstance}
Infos == [ip : IPs, instance : Answers]
NoInfo == [ip |-> None, instance |-> NoInstance]
NoInstances == [ip \in IPs |-> NoInstance]

Init ==
    /\ cache = [ip \in IPs |-> Miss]
    /\ toLookupIPs = <<>>
    /\ toLookupIP = None
    /\ toReturnInfos = <<>>
    /\ toReturnInfo = NoInfo
    /\ statsCachePositive = 0
    /\ statsCacheNegative = 0
    /\ ips = <<>>
    /\ timer = FALSE
    /\ instances = NoInstances
    /\ ldpc = "collect"
    /\ rpc = "running"
    /\ cancelled = FALSE
    /\ asked = 0
    /\ ticks = 0
-----------------------------------------------------------------------------
(* The refill of both slots, which ends every case of Run's select.        *)

RefillLookup(ip, stack) ==
    IF ip = None /\ stack # <<>>
    THEN /\ toLookupIP' = stack[Len(stack)]
         /\ toLookupIPs' = SubSeq(stack, 1, Len(stack) - 1)
    ELSE /\ toLookupIP' = ip
         /\ toLookupIPs' = stack

RefillReturn(info, stack) ==
    IF info = NoInfo /\ stack # <<>>
    THEN /\ toReturnInfo' = stack[Len(stack)]
         /\ toReturnInfos' = SubSeq(stack, 1, Len(stack) - 1)
    ELSE /\ toReturnInfo' = info
         /\ toReturnInfos' = stack
-----------------------------------------------------------------------------
(* cloudProviderLookupDispatcher.run                                       *)

\* Mutant: no timer is started for a batch that is not full.
ReceiveIPNoTimer(ip) ==
    /\ ldpc = "collect"
    /\ ips' = Append(ips, ip)
    /\ IF Len(ips) + 1 >= MaxInstancesBatch
       THEN /\ ldpc' = "limit"
            /\ timer' = FALSE
       ELSE /\ ldpc' = "collect"
            /\ timer' = FALSE
    /\ UNCHANGED instances

\* case ip := <-ld.ipSource
ReceiveIP(ip) ==
    /\ ldpc = "collect"
    /\ ips' = Append(ips, ip)
    /\ IF Len(ips) + 1 >= MaxInstancesBatch
       THEN /\ ldpc' = "limit"
            /\ timer' = FALSE
       ELSE /\ ldpc' = "collect"
            /\ timer' = TRUE
    /\ UNCHANGED instances

\* case <-c
BatchTimer ==
    /\ ldpc = "collect"
    /\ timer
    /\ ldpc' = "limit"
    /\ timer' = FALSE
    /\ UNCHANGED <<cacheVars, lookupVars, returnVars, ips, instances, boundVars, stopVars>>

\* limiter.Wait returns and cloudProvider.Instance answers, for some of the
\* addresses or, after an error, for none.
Lookup ==
    /\ ldpc = "limit"
    /\ \E found \in [IPs -> Answers] :
           /\ \A ip \in IPs : (\A k \in DOMAIN ips : ips[k] # ip) => found[ip] = NoInstance
           /\ instances' = found
    /\ ldpc' = "send"
    /\ UNCHANGED <<cacheVars, lookupVars, returnVars, ips, timer, boundVars, stopVars>>

\* case <-ctx.Done(), in either select, and the error of limiter.Wait.  The context is the
\* only cause of that error here: it has no deadline, and the limiter's burst is assumed
\* to be positive.  With a burst of zero, which the configuration allows, every Wait fails,
\* and the dispatcher returns without having been cancelled.
DispatcherReturn ==
    /\ cancelled
    /\ ldpc # "returned"
    /\ ldpc' = "returned"
    /\ UNCHANGED <<cacheVars, lookupVars, returnVars, ips, timer, instances, boundVars,
                   stopVars>>
-----------------------------------------------------------------------------
(* The consumer                                                            *)

\* The consumer sends an address to IpSink.
Ask(ip) ==
    /\ asked < MaxAsked
    /\ asked' = asked + 1
    /\ ReceiveIP(ip)
    /\ UNCHANGED <<cacheVars, lookupVars, returnVars, ticks, stopVars>>

\* case toReturnInfoC <- toReturnInfo: the consumer receives from InfoSource.
ReturnInfo ==
    /\ rpc = "running"
    /\ toReturnInfo # NoInfo
    /\ RefillReturn(NoInfo, toReturnInfos)
    /\ RefillLookup(toLookupIP, toLookupIPs)
    /\ UNCHANGED <<cacheVars, ldVars, boundVars, stopVars>>
-----------------------------------------------------------------------------
(* CachedCloudProvider.Run                                                 *)

\* case toLookupC <- toLookupIP
RunLookup ==
    /\ rpc = "running"
    /\ toLookupIP # None
    /\ ReceiveIP(toLookupIP)
    /\ RefillLookup(None, toLookupIPs)
    /\ RefillReturn(toReturnInfo, toReturnInfos)
    /\ UNCHANGED <<cacheVars, boundVars, stopVars>>

\* Mutant: an entry that turns positive is not counted again.
UpdateCacheNoFlip(ip, instance) ==
    LET current == cache[ip]
        kept == IF current # Miss /\ instance = NoInstance THEN current ELSE instance
    IN  /\ cache' = [cache EXCEPT ![ip] = kept]
        /\ statsCachePositive' = statsCachePositive +
               IF current = Miss /\ instance # NoInstance THEN 1 ELSE 0
        /\ statsCacheNegative' = statsCacheNegative +
               IF current = Miss /\ instance = NoInstance THEN 1
               ELSE 0

\* Mutant: a failed lookup replaces the instance.
UpdateCacheForgets(ip, instance) ==
    LET current == cache[ip]
        kept == instance
    IN  /\ cache' = [cache EXCEPT ![ip] = kept]
        /\ statsCachePositive' = statsCachePositive +
               IF current \in {Miss, NoInstance} /\ instance # NoInstance THEN 1 ELSE 0
        /\ statsCacheNegative' = statsCacheNegative +
               IF current = Miss /\ instance = NoInstance THEN 1
               ELSE IF current = NoInstance /\ instance # NoInstance THEN -1
               ELSE 0

\* The cache and its statistics after an InstanceInfo: a new entry is counted;
\* a failed lookup keeps the instance of an entry there was; an entry may turn
\* from negative to positive.
UpdateCache(ip, instance) ==
    LET current == cache[ip]
        kept == IF current # Miss /\ instance = NoInstance THEN current ELSE instance
    IN  /\ cache' = [cache EXCEPT ![ip] = kept]
        /\ statsCachePositive' = statsCachePositive +
               IF current \in {Miss, NoInstance} /\ instance # NoInstance THEN 1 ELSE 0
        /\ statsCacheNegative' = statsCacheNegative +
               IF current = Miss /\ instance = NoInstance THEN 1
               ELSE IF current = NoInstance /\ instance # NoInstance THEN -1
               ELSE 0

\* Mutant: only what was found is returned to the consumer.
handleInstanceInfoPositive ==
    /\ rpc = "running"
    /\ ldpc = "send"
    /\ LET ip == ips[1]
       IN  /\ UpdateCache(ip, instances[ip])
           /\ RefillReturn(toReturnInfo,
                  IF instances[ip] = NoInstance THEN toReturnInfos
                  ELSE Append(toReturnInfos, [ip |-> ip, instance |-> instances[ip]]))
    /\ RefillLookup(toLookupIP, toLookupIPs)
    /\ ips' = SubSeq(ips, 2, Len(ips))
    /\ IF Len(ips) = 1
       THEN /\ ldpc' = "collect"
            /\ instances' = NoInstances
       ELSE UNCHANGED <<ldpc, instances>>
    /\ UNCHANGED <<timer, boundVars, stopVars>>

\* case info := <-ownInfoSource: doLookup sends the next result and
\* handleInstanceInfo receives it.
handleInstanceInfo ==
    /\ rpc = "running"
    /\ ldpc = "send"
    /\ LET ip == ips[1]
       IN  /\ UpdateCache(ip, instances[ip])
           /\ RefillReturn(toReturnInfo,
                  Append(toReturnInfos, [ip |-> ip, instance |-> instances[ip]]))
    /\ RefillLookup(toLookupIP, toLookupIPs)
    /\ ips' = SubSeq(ips, 2, Len(ips))
    /\ IF Len(ips) = 1
       THEN /\ ldpc' = "collect"
            /\ instances' = NoInstances
       ELSE UNCHANGED <<ldpc, instances>>
    /\ UNCHANGED <<timer, boundVars, stopVars>>

Orders(S) == {s \in [1..Cardinality(S) -> S] : \A i, j \in DOMAIN s : s[i] = s[j] => i = j}

\* case t := <-refreshTicker.C: doRefresh drops the idle entries and asks
\* again for the expired ones among the rest, in any order.
doRefresh(idle, expired) ==
    /\ rpc = "running"
    /\ ticks < MaxTicks
    /\ ticks' = ticks + 1
    /\ idle \cap expired = {}
    /\ \A ip \in idle \cup expired : cache[ip] # Miss
    /\ cache' = [ip \in IPs |-> IF ip \in idle THEN Miss ELSE cache[ip]]
    /\ statsCacheNegative' = statsCacheNegative -
           Cardinality({ip \in idle : cache[ip] = NoInstance})
    /\ statsCachePositive' = statsCachePositive -
           Cardinality({ip \in idle : cache[ip] # NoInstance})
    /\ \E order \in Orders(expired) : RefillLookup(toLookupIP, toLookupIPs \o order)
    /\ RefillReturn(toReturnInfo, toReturnInfos)
    /\ UNCHANGED <<ldVars, asked, stopVars>>

Cancel ==
    /\ ~cancelled
    /\ cancelled' = TRUE
    /\ UNCHANGED <<cacheVars, lookupVars, returnVars, ldVars, boundVars, rpc>>

\* case <-ctx.Done(); the deferred wg.Wait is for the dispatcher.
RunStops ==
    /\ cancelled
    /\ rpc = "running"
    /\ rpc' = "waiting"
    /\ UNCHANGED <<cacheVars, lookupVars, returnVars, ldVars, boundVars, cancelled>>

RunReturns ==
    /\ rpc = "waiting"
    /\ ldpc = "returned"
    /\ rpc' = "returned"
    /\ UNCHANGED <<cacheVars, lookupVars, returnVars, ldVars, boundVars, cancelled>>
-----------------------------------------------------------------------------
Next ==
    \/ \E ip \in IPs : Ask(ip)
    \/ BatchTimer
    \/ Lookup
    \/ DispatcherReturn
    \/ ReturnInfo
    \/ RunLookup
    \/ handleInstanceInfo
    \/ \E idle, expired \in SUBSET IPs : doRefresh(idle, expired)
    \/ Cancel
    \/ RunStops
    \/ RunReturns

Spec == Init /\ [][Next]_vars

\* Run and the dispatcher are scheduled, their selects starve no case, the
\* limiter lets a batch through, the provider answers or fails, and the
\* consumer (CloudHandler.Run) keeps receiving.
Fairness ==
    /\ WF_vars(BatchTimer)
    /\ WF_vars(Lookup)
    /\ SF_vars(RunLookup)
    /\ WF_vars(ReturnInfo)
    /\ WF_vars(handleInstanceInfo)
    /\ WF_vars(DispatcherReturn)
    /\ WF_vars(RunStops)
    /\ WF_vars(RunReturns)

FairSpec == Spec /\ Fairness

-----------------------------------------------------------------------------
(* Properties                                                              *)

\* The types of the provider's state.
TypeOK ==
    /\ cache \in [IPs -> Answers \cup {Miss}]
    /\ toLookupIPs \in Seq(IPs)
    /\ toLookupIP \in IPs \cup {None}
    /\ toReturnInfos \in Seq(Infos)
    /\ toReturnInfo \in Infos \cup {NoInfo}
    /\ statsCachePositive \in Int
    /\ statsCacheNegative \in Int
    /\ ips \in Seq(IPs)
    /\ timer \in BOOLEAN
    /\ instances \in [IPs -> Answers]
    /\ ldpc \in {"collect", "limit", "send", "returned"}
    /\ rpc \in {"running", "waiting", "returned"}
    /\ cancelled \in BOOLEAN
    /\ asked \in 0..MaxAsked
    /\ ticks \in 0..MaxTicks

\* cloudprovider.cache_positive and cache_negative are the numbers of positive
\* and negative entries, however refreshes, failures and evictions of the same
\* address follow each other; in particular the uint64 never wraps.
StatsExact ==
    /\ statsCachePositive = Cardinality({ip \in IPs : cache[ip] \in Instances})
    /\ statsCacheNegative = Cardinality({ip \in IPs : cache[ip] = NoInstance})

Count(s, x) == Cardinality({k \in DOMAIN s : s[k] = x})

Owed == [ip \in IPs |->
    Count(toLookupIPs, ip) + (IF toLookupIP = ip THEN 1 ELSE 0) + Count(ips, ip)
    + Cardinality({k \in DOMAIN toReturnInfos : toReturnInfos[k].ip = ip})
    + (IF toReturnInfo.ip = ip THEN 1 ELSE 0)]

Contract == INSTANCE CachedInstances WITH cached <- cache, owed <- Owed

\* The provider is what CloudHandler takes it to be: an address sent to it is
\* owed an answer until the answer is received, and the cache only changes by
\* the outcome of a lookup that is under way or by a tick.
ImplementsCachedInstances == Contract!InstancesSpec

\* A lookup that fails never takes away an instance the cache has ("Use the
\* old instance if there was a lookup error"); only idleness does.
PositiveUntilIdle ==
    [][\A ip \in IPs : cache[ip] \in Instances => cache'[ip] # NoInstance]_vars

\* Every address sent to the provider, and every refresh, is answered in the
\* end unless Run is cancelled; and a cancelled Run returns, and not before the
\* dispatcher has.
EveryLookupIsAnswered ==
    /\ \A ip \in IPs : Owed[ip] > 0 ~> Owed[ip] = 0 \/ cancelled
    /\ cancelled ~> rpc = "returned"
=============================================================================
