---------------------------- MODULE NodeTracker ----------------------------
(***************************************************************************)
(* redisNodeTracker of pkg/cluster/nodes: every node of a cluster tells    *)
(* the others through a channel of Redis that it is there, and keeps a     *)
(* list of those it has heard of lately, from which Select takes the node  *)
(* that is responsible for a key.  A node knows of itself as it knows of   *)
(* the others: from its own message.                                       *)
(*                                                                         *)
(* Redis delivers to those that are subscribed, in order, and at most      *)
(* once.  While the system is faulty messages are lost or late, processes  *)
(* crash, and goroutines are slow.  When it is not, whatever is to be done *)
(* is done before the time passes.                                         *)
(***************************************************************************)
EXTENDS Naturals, Sequences, SequencesExt, FiniteSets

CONSTANTS
    Nodes,          \* nodeids, as positive numbers in their order
    Expiry,         \* the five seconds of updateNode, in units of time
    UpdateInterval, \* updateInterval, less than Expiry
    MaxQueue,       \* bound: messages on their way to a process
    MaxUp,          \* bound: processes that are up at the same time
    MaxCrashes      \* bound

\* The process with the empty nodeid, which sorts before the others, only watches.
Watcher == 0

Processes == Nodes \cup {Watcher}

VARIABLES
    up,         \* the processes that are in Run
    nodes,      \* [Processes -> Seq([nodeid, left])], left being the time until expiry
    psChan,     \* the messages on their way to each process
    ticker,     \* the time until the ticker of each process fires
    due,        \* the processes with a tick in ticker.C
    faulty,
    crashes

vars == <<up, nodes, psChan, ticker, due, faulty, crashes>>

Init ==
    /\ up = {}
    /\ nodes = [p \in Processes |-> <<>>]
    /\ psChan = [p \in Processes |-> <<>>]
    /\ ticker = [p \in Processes |-> 0]
    /\ due = {}
    /\ faulty = TRUE
    /\ crashes = 0

-----------------------------------------------------------------------------
(* The list *)

Ids(list) == [i \in DOMAIN list |-> list[i].nodeid]

Known(p) == ToSet(Ids(nodes[p]))

\* Mutant: a node is dropped while it has time left.
expireNodesEarly(list) == SelectSeq(list, LAMBDA n : n.left > UpdateInterval)

expireNodes(list) == SelectSeq(list, LAMBDA n : n.left > 0)

tryUpdateExistingNode(list, nodeid) ==
    [i \in DOMAIN list |-> IF list[i].nodeid = nodeid THEN [list[i] EXCEPT !.left = Expiry] ELSE list[i]]

updateNode(list, nodeid) ==
    IF nodeid \in ToSet(Ids(list)) THEN tryUpdateExistingNode(list, nodeid)
    ELSE SortSeq(Append(list, [nodeid |-> nodeid, left |-> Expiry]),
                 LAMBDA a, b : a.nodeid < b.nodeid)

Select(p, key) == nodes[p][(key % Len(nodes[p])) + 1].nodeid

-----------------------------------------------------------------------------
(* Run *)

\* Those in missed do not get the message.
emitPresence(p, subscribed, missed) ==
    /\ \A q \in subscribed \ missed : Len(psChan[q]) < MaxQueue
    /\ psChan' = [q \in Processes |-> IF q \in subscribed \ missed THEN Append(psChan[q], p) ELSE psChan[q]]

\* The first message may overtake the subscription; the watcher sends one too.
Start(p) ==
    /\ p \notin up
    /\ Cardinality(up) < MaxUp
    /\ up' = up \cup {p}
    /\ ticker' = [ticker EXCEPT ![p] = UpdateInterval]
    /\ \E missed \in SUBSET up' : (faulty \/ missed \subseteq {p}) /\ emitPresence(p, up', missed)
    /\ UNCHANGED <<nodes, due, faulty, crashes>>

\* case <-ticker.C
Tick(p) ==
    /\ p \in due
    /\ due' = due \ {p}
    /\ nodes' = [nodes EXCEPT ![p] = expireNodes(nodes[p])]
    /\ IF p = Watcher THEN UNCHANGED psChan
       ELSE \E missed \in SUBSET up : (faulty \/ missed = {}) /\ emitPresence(p, up, missed)
    /\ UNCHANGED <<up, ticker, faulty, crashes>>

\* case msg := <-psChan
Receive(p) ==
    /\ psChan[p] # <<>>
    /\ nodes' = [nodes EXCEPT ![p] = updateNode(nodes[p], Head(psChan[p]))]
    /\ psChan' = [psChan EXCEPT ![p] = Tail(@)]
    /\ UNCHANGED <<up, ticker, due, faulty, crashes>>

\* The process ends, and what it knew is lost.
Crash(p) ==
    /\ faulty
    /\ crashes < MaxCrashes
    /\ p \in up
    /\ crashes' = crashes + 1
    /\ up' = up \ {p}
    /\ nodes' = [nodes EXCEPT ![p] = <<>>]
    /\ psChan' = [psChan EXCEPT ![p] = <<>>]
    /\ ticker' = [ticker EXCEPT ![p] = 0]
    /\ due' = due \ {p}
    /\ UNCHANGED faulty

\* The tickers of the runtime fire on time, and drop a tick that is not taken.
Passes ==
    /\ ~faulty => due = {} /\ \A p \in up : psChan[p] = <<>>
    /\ nodes' = [p \in Processes |->
                    [i \in DOMAIN nodes[p] |->
                        [nodes[p][i] EXCEPT !.left = IF @ = 0 THEN 0 ELSE @ - 1]]]
    /\ ticker' = [p \in Processes |->
                     IF p \notin up THEN 0 ELSE IF ticker[p] = 1 THEN UpdateInterval ELSE ticker[p] - 1]
    /\ due' = due \cup {p \in up : ticker[p] = 1}
    /\ UNCHANGED <<up, psChan, faulty, crashes>>

Recover ==
    /\ faulty
    /\ faulty' = FALSE
    /\ UNCHANGED <<up, nodes, psChan, ticker, due, crashes>>

Run(p) == Tick(p) \/ Receive(p)

Next ==
    \/ \E p \in Processes : Start(p) \/ Run(p) \/ Crash(p)
    \/ Passes
    \/ Recover

Fairness == WF_vars(Passes) /\ \A p \in Processes : WF_vars(Run(p))

Spec == Init /\ [][Next]_vars
FairSpec == Spec /\ Fairness

-----------------------------------------------------------------------------
(* Properties *)

\* Two processes that know of the same nodes take the same one for every key, whatever the
\* order in which they have heard of them.
SelectAgrees ==
    \A p, q \in up : (Known(p) = Known(q) /\ Known(p) # {}) =>
        \A key \in 0 .. 2 * Cardinality(Known(p)) : Select(p, key) = Select(q, key)

\* When the faults are over every process comes to know of exactly the nodes that are up,
\* and of the watcher no longer: who has crashed is forgotten, who is up is never dropped
\* again, and nothing that was lost or late matters.
MembersAgree == <>[](faulty \/ \A p \in up : Known(p) = up \ {Watcher})

\* After the faults all processes take the same node, which is up, for every key.
ClusterAgrees == []SelectAgrees /\ MembersAgree
====
