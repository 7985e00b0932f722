---------------------------- MODULE AwsProvider ----------------------------
(***************************************************************************)
(* Instance of pkg/cloudproviders/aws: it asks EC2 for the instances with  *)
(* the addresses of a batch and says, for each address, which instance has *)
(* it.  EC2 answers in pages, may fail between them, and may return        *)
(* instances that have none of the addresses or more than one of them.     *)
(***************************************************************************)
EXTENDS Naturals, Sequences, SequencesExt, FiniteSets

CONSTANTS
    IPs,
    Ec2,            \* instances: their addresses in the order getInterestingInstanceIP looks
                    \* at them, the primary one first
    MaxBatch,       \* MaxInstancesBatch
    MaxReturned,    \* bound: instances that EC2 returns
    UnknownSource,
    Nil

VARIABLES
    asked,          \* the addresses of the call
    instances,      \* the map that is returned
    returned,       \* what EC2 has returned
    instancesFound,
    err,            \* what Instance returns beside the map: "none" or "error"
    st              \* "asked", "paging" or "returned"

vars == <<asked, instances, returned, instancesFound, err, st>>

Init ==
    /\ asked \in {ips \in SUBSET IPs : Cardinality(ips) \in 1 .. MaxBatch}
    /\ instances = [ip \in asked |-> Nil]
    /\ returned = <<>>
    /\ instancesFound = 0
    /\ err = "none"
    /\ st = "paging"

\* Mutant: only the primary address is looked at.
getInterestingInstanceIPPrimary(instance) ==
    IF Head(instance) \in DOMAIN instances THEN Head(instance) ELSE UnknownSource

\* The first of its addresses that was asked for.
getInterestingInstanceIP(instance) ==
    LET interesting == SelectSeq(instance, LAMBDA ip : ip \in DOMAIN instances)
    IN  IF interesting = <<>> THEN UnknownSource ELSE Head(interesting)

\* One instance of a page.
Described(instance) ==
    /\ st = "paging"
    /\ Len(returned) < MaxReturned
    /\ returned' = Append(returned, instance)
    /\ LET ip == getInterestingInstanceIP(instance)
       IN  IF ip = UnknownSource THEN UNCHANGED <<instances, instancesFound>>
           ELSE /\ instances' = [instances EXCEPT ![ip] = instance]
                /\ instancesFound' = instancesFound + 1
    /\ UNCHANGED <<asked, err, st>>

\* There are no more pages, or EC2 fails; that an instance is not found is no failure.
Returns ==
    /\ st = "paging"
    /\ st' = "returned"
    /\ err' \in {"none", "error"}
    /\ UNCHANGED <<asked, instances, returned, instancesFound>>

Next == (\E instance \in Ec2 : Described(instance)) \/ Returns

Spec == Init /\ [][Next]_vars

-----------------------------------------------------------------------------
(* Properties *)

\* The answer is about the addresses that were asked for, and about all of them, whether EC2
\* fails or not.  An address that is answered with an instance is answered with one that EC2
\* has returned and that has it; every instance that EC2 returns with an address that was
\* asked for leaves one of its addresses with an answer, and is counted as found.  Nothing is
\* claimed of when an address is answered by nil: getInterestingInstanceIP takes one address of
\* an instance, so that a second one of the batch gets nil, while aws.go:73 has "ip -> nil
\* pointer if instance was not found".
AwsAnswers ==
    LET interesting == {i \in DOMAIN returned : ToSet(returned[i]) \cap asked # {}}
    IN  /\ DOMAIN instances = asked
        /\ \A ip \in asked :
            instances[ip] # Nil => instances[ip] \in ToSet(returned) /\ ip \in ToSet(instances[ip])
        /\ \A i \in interesting : \E ip \in ToSet(returned[i]) \cap asked : instances[ip] # Nil
        /\ instancesFound = Cardinality(interesting)
====
