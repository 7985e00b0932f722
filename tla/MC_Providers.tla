---------------------------- MODULE MC_Providers ----------------------------
(***************************************************************************)
(* The providers of instances for TLC: CachedCloudProvider, which this     *)
(* module extends, the one for Kubernetes, and what the first one asks, of *)
(* which AWS is modelled.  The choice is made once, and the others stay as *)
(* they were created.                                                      *)
(***************************************************************************)
EXTENDS CachedCloudProvider, SequencesExt

CONSTANTS Pods, k1, Parsers, Run, MaxChanges, a1, a2, a3, UnknownSource

VARIABLES provider, kpods, knotifications, kcache, klooker, kinfoToSend, kinfo, kowed,
          kchanges, kasked, batch, described, returned, instancesFound, err, ast

\* A pod that runs with either of two sets of labels, and one that has finished.
PodStates ==
    LET running(v) == [ip |-> k1, running |-> TRUE, hostNetwork |-> FALSE, version |-> v]
    IN  {running(1), running(2), [running(1) EXCEPT !.running = FALSE]}

K == INSTANCE K8sProvider WITH
         IPs <- {k1}, MaxAsked <- 1,
         pods <- kpods, notifications <- knotifications, cache <- kcache,
         looker <- klooker, infoToSend <- kinfoToSend, info <- kinfo, owed <- kowed,
         changes <- kchanges, asked <- kasked

kVars == <<kpods, knotifications, kcache, klooker, kinfoToSend, kinfo, kowed, kchanges, kasked>>

\* Instances with one address, with two in either order, and with none of the others'.
A == INSTANCE AwsProvider WITH
         IPs <- {a1, a2}, Ec2 <- {<<a1>>, <<a1, a2>>, <<a2, a1>>, <<a3, a2>>, <<a3>>},
         MaxBatch <- 2, MaxReturned <- 3, Nil <- None,
         asked <- batch, instances <- described, st <- ast

aVars == <<batch, described, returned, instancesFound, err, ast>>

ProvidersInit ==
    /\ Init /\ K!Init /\ A!Init
    /\ provider \in {"cloud", "k8s", "aws"}
    /\ provider # "aws" => batch = {a1}

ProvidersNext ==
    \/ provider = "cloud" /\ Next /\ UNCHANGED <<provider, kVars, aVars>>
    \/ provider = "k8s" /\ K!Next /\ UNCHANGED <<provider, vars, aVars>>
    \/ provider = "aws" /\ A!Next /\ UNCHANGED <<provider, vars, kVars>>

allVars == <<provider, vars, kVars, aVars>>

K8sFairness ==
    /\ WF_kVars(provider = "k8s" /\ K!Resync)
    /\ WF_kVars(provider = "k8s" /\ K!maybeInvalidateCacheForPod)
    /\ \A l \in K!Lookers : WF_kVars(provider = "k8s" /\ K!Looks(l))
    /\ WF_kVars(provider = "k8s" /\ K!SendInfo)

ProvidersSpec == ProvidersInit /\ [][ProvidersNext]_allVars /\ Fairness /\ K8sFairness

\* An entry of the cache that a race has left behind does not last (see K8sProvider).
StaleIsCorrected == K!StaleIsCorrected

\* Whatever a provider is asked is answered, unless it is cancelled (see CachedCloudProvider
\* and K8sProvider).
QuestionsAreAnswered == EveryLookupIsAnswered /\ K!AsksAreAnswered

\* An instance is given for no address but its own, and none that EC2 returns for the batch is
\* passed over (see AwsProvider).
AwsAnswers == A!AwsAnswers
=============================================================================
