---------------------------- MODULE K8sProvider ----------------------------
(***************************************************************************)
(* pkg/cachedinstances/k8s: a CachedInstances that knows the pods of a     *)
(* Kubernetes cluster.  An informer of client-go keeps an index of pods by *)
(* their addresses; what the provider made of a pod is kept in a cache,    *)
(* whose entries are deleted when the informer notifies it of a change.    *)
(* The informer changes its index first and notifies later, in order.      *)
(*                                                                         *)
(* Lookers are the goroutines in instanceFromCache: the parsers in Peek,   *)
(* and Run, which answers what it is asked on its channels.                *)
(***************************************************************************)
EXTENDS Naturals, Sequences, FiniteSets, SequencesExt

CONSTANTS
    Pods,           \* names of pods
    IPs,
    PodStates,      \* [ip, running, hostNetwork, version]: what a pod may become; its
                    \* version stands for its labels and annotations
    Parsers,        \* goroutines that call Peek
    Run,            \* the goroutine of Run
    None,           \* nil
    MaxChanges,     \* bound: changes to pods
    MaxAsked        \* bound: addresses sent to IpSink

VARIABLES
    pods,           \* the informer's index: what it knows of each pod, or None
    notifications,  \* the old states of pods whose changes are to be notified
    cache,          \* None for an address that is not in the map, or has nil there
    looker,         \* [Lookers -> [st, ip, instance]]; Run may have returned
    infoToSend,     \* Run's stack of answers
    info,           \* the answer on offer, or None
    owed,           \* how many answers the consumer waits for, for each address
    changes, asked

vars == <<pods, notifications, cache, looker, infoToSend, info, owed, changes, asked>>

Lookers == Parsers \cup {Run}

Idle == [st |-> "idle", ip |-> None, instance |-> None]

Init ==
    /\ pods = [p \in Pods |-> None]
    /\ notifications = <<>>
    /\ cache = [ip \in IPs |-> None]
    /\ looker = [l \in Lookers |-> Idle]
    /\ infoToSend = <<>>
    /\ info = None
    /\ owed = [ip \in IPs |-> 0]
    /\ changes = 0
    /\ asked = 0

-----------------------------------------------------------------------------
(* The informer, of client-go *)

isIndexablePod(pod) == pod.ip # None /\ pod.running /\ ~pod.hostNetwork

\* The pods found under an address: podByIpIndexFunc.
ByIndex(ip) == {p \in Pods : pods[p] # None /\ isIndexablePod(pods[p]) /\ pods[p].ip = ip}

\* No two pods have an address at the same time, other than the one of their host.
Consistent(index) ==
    \A p, q \in Pods :
        (p # q /\ None \notin {index[p], index[q]} /\ isIndexablePod(index[p]) /\ isIndexablePod(index[q]))
            => index[p].ip # index[q].ip

\* A pod is added, of which OnAdd takes no notice, or changes, or is deleted.
Change(p) ==
    /\ changes < MaxChanges
    /\ changes' = changes + 1
    /\ \E state \in PodStates \cup {None} :
        /\ state # pods[p]
        /\ pods' = [pods EXCEPT ![p] = state]
    /\ Consistent(pods')
    /\ notifications' = IF pods[p] = None THEN notifications ELSE Append(notifications, pods[p])
    /\ UNCHANGED <<cache, looker, infoToSend, info, owed, asked>>

\* All pods are notified as updated, from time to time.
Resync ==
    /\ notifications = <<>>
    /\ notifications' = SetToSeq({pods[p] : p \in Pods} \ {None})
    /\ UNCHANGED <<pods, cache, looker, infoToSend, info, owed, changes, asked>>

-----------------------------------------------------------------------------
(* cacheInvalidationHandler *)

\* Mutant: the pods that are not in the index are taken for the ones that are.
InvalidatedWhenFinished(pod) == IF ~isIndexablePod(pod) THEN {pod.ip} ELSE {}

Invalidated(pod) == IF isIndexablePod(pod) THEN {pod.ip} ELSE {}

\* OnUpdate and OnDelete
maybeInvalidateCacheForPod ==
    /\ notifications # <<>>
    /\ cache' = [ip \in IPs |-> IF ip \in Invalidated(Head(notifications)) THEN None ELSE cache[ip]]
    /\ notifications' = Tail(notifications)
    /\ UNCHANGED <<pods, looker, infoToSend, info, owed, changes, asked>>

-----------------------------------------------------------------------------
(* instanceFromCache and Run *)

\* What is known of a pod: its namespace and name, and tags made of its labels.
InstanceOf(p) == [name |-> p, version |-> pods[p].version]

\* Run appends the answer, and offers the last one if none is on offer.
Reply(ip, instance) ==
    LET answers == Append(infoToSend, [ip |-> ip, instance |-> instance])
    IN  IF info = None THEN info' = Last(answers) /\ infoToSend' = Front(answers)
        ELSE info' = info /\ infoToSend' = answers

\* The looker returns the instance.
Returns(l, ip, instance) ==
    /\ looker' = [looker EXCEPT ![l] = Idle]
    /\ IF l = Run THEN Reply(ip, instance) ELSE UNCHANGED <<infoToSend, info>>

\* The read lock is held for the first look only.
ReadCache(l, ip) ==
    /\ looker[l].st = "idle"
    /\ IF cache[ip] # None THEN Returns(l, ip, cache[ip])
       ELSE /\ looker' = [looker EXCEPT ![l] = [st |-> "informer", ip |-> ip, instance |-> None]]
            /\ UNCHANGED <<infoToSend, info>>
    /\ UNCHANGED <<pods, notifications, cache, changes>>

Peek(l, ip) == ReadCache(l, ip) /\ UNCHANGED <<owed, asked>>

\* case ip := <-p.ipSinkSource
ReceiveIP(ip) ==
    /\ asked < MaxAsked
    /\ asked' = asked + 1
    /\ owed' = [owed EXCEPT ![ip] = @ + 1]
    /\ ReadCache(Run, ip)

instanceFromInformer(l) ==
    /\ looker[l].st = "informer"
    /\ LET found == {InstanceOf(p) : p \in ByIndex(looker[l].ip)}
       IN  \E instance \in IF found = {} THEN {None} ELSE found :
               looker' = [looker EXCEPT ![l].st = "store", ![l].instance = instance]
    /\ UNCHANGED <<pods, notifications, cache, infoToSend, info, owed, changes, asked>>

StoreInCache(l) ==
    /\ looker[l].st = "store"
    /\ cache' = [cache EXCEPT ![looker[l].ip] = looker[l].instance]
    /\ Returns(l, looker[l].ip, looker[l].instance)
    /\ UNCHANGED <<pods, notifications, owed, changes, asked>>

NextAnswer ==
    IF infoToSend = <<>> THEN info' = None /\ UNCHANGED infoToSend
    ELSE info' = Last(infoToSend) /\ infoToSend' = Front(infoToSend)

\* case infoSink <- info, while Run is in its select
SendInfo ==
    /\ info # None
    /\ looker[Run].st = "idle"
    /\ owed' = [owed EXCEPT ![info.ip] = @ - 1]
    /\ NextAnswer
    /\ UNCHANGED <<pods, notifications, cache, looker, changes, asked>>

\* case <-ctx.Done()
RunReturns ==
    /\ looker[Run].st = "idle"
    /\ looker' = [looker EXCEPT ![Run].st = "returned"]
    /\ UNCHANGED <<pods, notifications, cache, infoToSend, info, owed, changes, asked>>

-----------------------------------------------------------------------------

Looks(l) == instanceFromInformer(l) \/ StoreInCache(l)

Next ==
    \/ \E p \in Pods : Change(p)
    \/ Resync
    \/ maybeInvalidateCacheForPod
    \/ \E l \in Parsers, ip \in IPs : Peek(l, ip)
    \/ \E ip \in IPs : ReceiveIP(ip)
    \/ \E l \in Lookers : Looks(l)
    \/ SendInfo
    \/ RunReturns

Spec == Init /\ [][Next]_vars

\* Goroutines run, the consumer receives, and the informer notifies and resyncs, which it
\* does every five minutes.
Fairness ==
    /\ WF_vars(Resync)
    /\ WF_vars(maybeInvalidateCacheForPod)
    /\ \A l \in Lookers : WF_vars(Looks(l))
    /\ WF_vars(SendInfo)

FairSpec == Spec /\ Fairness

-----------------------------------------------------------------------------
(* Properties *)

\* An entry of the cache that the pod with its address, if there is one, does not confirm.
Stale(ip) ==
    cache[ip] # None /\ ByIndex(ip) # {} /\ \A p \in ByIndex(ip) : cache[ip] # InstanceOf(p)

\* instanceFromCache may put back what a notification has just deleted, because it holds no
\* lock while it reads the informer.  Such an entry does not last: when pods no longer
\* change, every address of a pod is in the end looked up as what the pod is.  A nil in the
\* cache is not trusted, so the first lookup of a new pod finds it.
StaleIsCorrected == <>[](\A ip \in IPs : ~Stale(ip))

\* Whatever Run is asked is answered, as often as it was asked, unless it is cancelled.
AsksAreAnswered == []<>(looker[Run].st = "returned" \/ \A ip \in IPs : owed[ip] = 0)
====
