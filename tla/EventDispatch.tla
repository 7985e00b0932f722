---------------------------- MODULE EventDispatch ----------------------------
(***************************************************************************)
(* BackendHandler.DispatchEvent, internalDispatchEvent and WaitForEvents.  *)
(* Every event goes to every backend in a goroutine of its own; the        *)
(* channel concurrentEvents is the semaphore that limits the goroutines,   *)
(* and eventWg is what WaitForEvents waits on.  The goroutines have a      *)
(* context with a timeout, so SendEvent always returns.                    *)
(*                                                                         *)
(* The waiter of a sync.WaitGroup is woken by the Done that makes the      *)
(* count zero; it panics if the count is not zero when it runs again.      *)
(***************************************************************************)
EXTENDS Integers, FiniteSets

CONSTANTS
    Callers,        \* calls of DispatchEvent, one event each
    NumBackends,    \* len(bh.backends)
    MaxConcurrent   \* maxConcurrentEvents, cap(concurrentEvents)

Backends == 1..NumBackends

VARIABLES
    pc,             \* where each caller is
    eventsDispatched,
    ctxDone,        \* callers whose context is done
    eventWg,
    sem,            \* len(concurrentEvents)
    sending,        \* goroutines in SendEvent, as <<caller, backend>>
    releasing,      \* goroutines between the two deferred functions
    waiter          \* the goroutine in WaitForEvents

callerVars == <<pc, eventsDispatched, ctxDone>>
vars == <<callerVars, eventWg, sem, sending, releasing, waiter>>

Init ==
    /\ pc = [c \in Callers |-> "start"]
    /\ eventsDispatched = [c \in Callers |-> 0]
    /\ ctxDone = {}
    /\ eventWg = 0
    /\ sem = 0
    /\ sending = {}
    /\ releasing = {}
    /\ waiter = "idle"

\* Mutant: the event is not added to the WaitGroup before its goroutines are.
DispatchEventUncounted(c) ==
    /\ pc[c] = "start"
    /\ pc' = [pc EXCEPT ![c] = IF NumBackends = 0 THEN "returned" ELSE "loop"]
    /\ UNCHANGED <<eventsDispatched, ctxDone, eventWg, sem, sending, releasing, waiter>>

\* eventWg.Add(len(bh.backends)), before the first goroutine exists.
DispatchEvent(c) ==
    /\ pc[c] = "start"
    /\ eventWg' = eventWg + NumBackends
    /\ pc' = [pc EXCEPT ![c] = IF NumBackends = 0 THEN "returned" ELSE "loop"]
    /\ UNCHANGED <<eventsDispatched, ctxDone, sem, sending, releasing, waiter>>

\* The Done that makes the count wg wakes a waiter.
Wake(wg) == IF waiter = "parked" /\ wg = 0 THEN "woken" ELSE waiter

\* Mutant: the WaitGroup is decremented for the event as a whole.
GiveUpOne(c) ==
    /\ pc[c] = "loop"
    /\ c \in ctxDone
    /\ eventWg' = eventWg - 1
    /\ waiter' = Wake(eventWg')
    /\ pc' = [pc EXCEPT ![c] = "returned"]
    /\ UNCHANGED <<eventsDispatched, ctxDone, sem, sending, releasing>>

\* case <-ctx.Done()
GiveUp(c) ==
    /\ pc[c] = "loop"
    /\ c \in ctxDone
    /\ eventWg' = eventWg + eventsDispatched[c] - NumBackends
    /\ waiter' = Wake(eventWg')
    /\ pc' = [pc EXCEPT ![c] = "returned"]
    /\ UNCHANGED <<eventsDispatched, ctxDone, sem, sending, releasing>>

\* case bh.concurrentEvents <- struct{}{}
Start(c) ==
    /\ pc[c] = "loop"
    /\ sem < MaxConcurrent
    /\ sem' = sem + 1
    /\ LET b == eventsDispatched[c] + 1
       IN  /\ eventsDispatched' = [eventsDispatched EXCEPT ![c] = b]
           /\ sending' = sending \cup {<<c, b>>}
           /\ pc' = [pc EXCEPT ![c] = IF b = NumBackends THEN "returned" ELSE "loop"]
    /\ UNCHANGED <<ctxDone, eventWg, releasing, waiter>>

\* SendEvent returns; the deferred functions run in reverse order, first the
\* release of the semaphore,
Release(g) ==
    /\ g \in sending
    /\ sem > 0
    /\ sem' = sem - 1
    /\ sending' = sending \ {g}
    /\ releasing' = releasing \cup {g}
    /\ UNCHANGED <<callerVars, eventWg, waiter>>

\* Mutant: the deferred Done is lost.
WgDoneLost(g) ==
    /\ g \in releasing
    /\ releasing' = releasing \ {g}
    /\ UNCHANGED <<callerVars, eventWg, sem, sending, waiter>>

\* and then eventWg.Done().
WgDone(g) ==
    /\ g \in releasing
    /\ releasing' = releasing \ {g}
    /\ eventWg' = eventWg - 1
    /\ waiter' = Wake(eventWg')
    /\ UNCHANGED <<callerVars, sem, sending>>

WaitForEvents ==
    /\ waiter = "idle"
    /\ waiter' = IF eventWg = 0 THEN "returned" ELSE "parked"
    /\ UNCHANGED <<callerVars, eventWg, sem, sending, releasing>>

WaitReturns ==
    /\ waiter = "woken"
    /\ waiter' = IF eventWg = 0 THEN "returned" ELSE "panic"
    /\ UNCHANGED <<callerVars, eventWg, sem, sending, releasing>>

Goroutine(g) == Release(g) \/ WgDone(g)

-----------------------------------------------------------------------------
Running == sending \cup releasing

\* Goroutines that callers in the loop have yet to start.
Owed == {g \in Callers \X Backends :
            pc[g[1]] = "loop" /\ g[2] > eventsDispatched[g[1]]}

\* The semaphore counts the goroutines in SendEvent, each of which gives its
\* slot back; and eventWg counts the goroutines that are running and those
\* still to be started, so it is never negative (which would panic), also
\* when a dispatch gives up between two backends.
GoroutinesCounted ==
    /\ sem = Cardinality(sending)
    /\ eventWg = Cardinality(Running) + Cardinality(Owed)

\* Nothing is left to do for the event: every goroutine of it that was started has
\* returned, and no more will be.
Settled(c) == pc[c] = "returned" /\ \A b \in Backends : <<c, b>> \notin Running
=============================================================================
