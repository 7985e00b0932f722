---------------------------- MODULE MetricBuffer ----------------------------
(***************************************************************************)
(* What a MetricConsolidator promises the code around it, without its      *)
(* slots.  Batches of metrics are accepted into a pending pool; a flush    *)
(* takes everything that is pending in one indivisible step, and then      *)
(* either hands it to the consumer or, once the context is cancelled,      *)
(* gives it up.                                                            *)
(***************************************************************************)

CONSTANT Batches        \* everything callers will ever submit

VARIABLES
    pending,            \* accepted, not yet part of a flush
    snapshot,           \* what the flush in progress carries
    delivered,          \* what the consumer has been given
    dropped             \* what a cancelled flush gave up

bufferVars == <<pending, snapshot, delivered, dropped>>

Known == pending \cup snapshot \cup delivered \cup dropped

Init ==
    /\ pending = {}
    /\ snapshot = {}
    /\ delivered = {}
    /\ dropped = {}

\* A batch is accepted once, whatever happens to it later.
Accept(b) ==
    /\ b \notin Known
    /\ pending' = pending \cup {b}
    /\ UNCHANGED <<snapshot, delivered, dropped>>

\* Nothing that was accepted stays behind.
Snapshot ==
    /\ snapshot = {}
    /\ snapshot' = pending
    /\ pending' = {}
    /\ UNCHANGED <<delivered, dropped>>

Deliver ==
    /\ delivered' = delivered \cup snapshot
    /\ snapshot' = {}
    /\ UNCHANGED <<pending, dropped>>

GiveUp ==
    /\ dropped' = dropped \cup snapshot
    /\ snapshot' = {}
    /\ UNCHANGED <<pending, delivered>>

Next ==
    \/ \E b \in Batches : Accept(b)
    \/ Snapshot
    \/ Deliver
    \/ GiveUp

Spec == Init /\ [][Next]_bufferVars
=============================================================================
