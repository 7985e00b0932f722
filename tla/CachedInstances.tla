-------------------------- MODULE CachedInstances --------------------------
(***************************************************************************)
(* The interface gostatsd.CachedInstances as its consumer, CloudHandler,   *)
(* sees it: Peek reads a cache that changes behind its back, an address    *)
(* sent to IpSink is answered, some time later, on InfoSource, and more    *)
(* answers may come than were asked for, because the provider refreshes    *)
(* the entries of its cache by itself.                                     *)
(***************************************************************************)
EXTENDS Naturals

CONSTANTS
    IPs,            \* addresses of sources
    Instances,      \* what the provider knows about an address
    NoInstance,     \* a nil *Instance: the lookup found nothing, or failed
    Miss            \* Peek's (nil, false)

ASSUME NoInstanceAssumption == NoInstance \notin Instances
ASSUME MissAssumption == Miss \notin Instances \cup {NoInstance}

VARIABLES
    cached,         \* what Peek returns for each address
    owed            \* for each address, the answers still to come

instancesVars == <<cached, owed>>

Answers == Instances \cup {NoInstance}

InstancesInit ==
    /\ cached = [ip \in IPs |-> Miss]
    /\ owed = [ip \in IPs |-> 0]

\* The consumer sends ip to IpSink.
Request(ip) ==
    /\ owed' = [owed EXCEPT ![ip] = @ + 1]
    /\ UNCHANGED cached

\* The outcome of a lookup enters the cache before it is sent to the consumer.
Learn(ip, instance) ==
    /\ owed[ip] > 0
    /\ cached' = [cached EXCEPT ![ip] = instance]
    /\ UNCHANGED owed

\* The consumer receives an InstanceInfo for ip from InfoSource.
Answer(ip) ==
    /\ owed[ip] > 0
    /\ owed' = [owed EXCEPT ![ip] = @ - 1]
    /\ UNCHANGED cached

\* One tick of the provider evicts some entries and refreshes others.
Tick(idle, stale) ==
    /\ idle \cap stale = {}
    /\ \A ip \in idle \cup stale : cached[ip] # Miss
    /\ cached' = [ip \in IPs |-> IF ip \in idle THEN Miss ELSE cached[ip]]
    /\ owed' = [ip \in IPs |-> IF ip \in stale THEN owed[ip] + 1 ELSE owed[ip]]

InstancesNext ==
    \/ \E ip \in IPs : Request(ip) \/ Answer(ip)
    \/ \E ip \in IPs, instance \in Answers : Learn(ip, instance)
    \/ \E idle, stale \in SUBSET IPs : Tick(idle, stale)

InstancesSpec == InstancesInit /\ [][InstancesNext]_instancesVars
=============================================================================
