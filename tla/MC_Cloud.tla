------------------------------ MODULE MC_Cloud ------------------------------
(***************************************************************************)
(* For TLC: who looks after what is looked up, one part at a time.  The    *)
(* variable part says which: the cloud handler, which this module extends, *)
(* or the trackers of the nodes of a cluster.  The other one stays as it   *)
(* was created.                                                            *)
(***************************************************************************)
EXTENDS MC_CloudHandler

VARIABLES part, up, nodes, psChan, ticker, due, faulty, crashes

N == INSTANCE NodeTracker WITH
        Nodes <- {1, 2}, Expiry <- 2, UpdateInterval <- 1, MaxQueue <- 1, MaxUp <- 2, MaxCrashes <- 1

nodeVars == <<up, nodes, psChan, ticker, due, faulty, crashes>>

CloudInit == Init /\ N!Init /\ part \in {"cloud", "cluster"}

CloudNext ==
    \/ part = "cloud" /\ Next /\ UNCHANGED <<part, nodeVars>>
    \/ part = "cluster" /\ N!Next /\ UNCHANGED <<part, vars>>

Clouded(A) == part = "cloud" /\ A
Clustered(A) == part = "cluster" /\ A

CloudSpec ==
    /\ CloudInit
    /\ [][CloudNext]_<<part, vars, nodeVars>>
    /\ WF_vars(Clouded(RunLookup \/ RunReceive \/ Goroutines \/ \E d \in Dispatchers : Dispatcher(d)))
    /\ \A ip \in IPs : WF_vars(Clouded(\E instance \in Answers : RunInfo(ip, instance)))
    /\ WF_nodeVars(Clustered(N!Passes))
    /\ \A p \in N!Processes : WF_nodeVars(Clustered(N!Run(p)))

\* After the faults all trackers take the same node, which is up, for a key (see NodeTracker).
ClusterAgrees == N!ClusterAgrees
=============================================================================
