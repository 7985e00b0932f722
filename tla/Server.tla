------------------------------- MODULE Server -------------------------------
(***************************************************************************)
(* RunWithCustomSocket of statsd.go, from the running server until it      *)
(* returns: the parsers and the flusher call the cloud handler, that calls *)
(* the backend handler, at once or from a goroutine when the host has been *)
(* looked up; then the context is done, the stop event is sent, events are *)
(* waited for, and the stages are shut down, the last one first.           *)
(*                                                                         *)
(* An item is what is dispatched: a metric map, or an event.  Every item   *)
(* has a host of its own.  The stage "parser" stands for all that is       *)
(* started after the cloud handler, but for the HTTP servers, which are    *)
(* the last stage; the answers to lookups come from stages that outlive    *)
(* all of these.  EventDispatch has what the backend handler does with an  *)
(* event, BackendHandler what it does with a map.                          *)
(***************************************************************************)
EXTENDS Integers, Sequences, FiniteSets, SequencesExt

CONSTANTS
    Events,         \* dispatched by parsers
    Maps,           \* dispatched by parsers, or by the flusher when it notifies the statser
    StopEvent,      \* the event of sendStopEvent
    NumBackends,
    MaxConcurrent   \* maxConcurrentEvents

ASSUME ItemsAssumption ==
    /\ IsFiniteSet(Events)
    /\ Events \cap Maps = {}
    /\ StopEvent \notin Events \cup Maps
ASSUME NumbersAssumption == NumBackends \in Nat /\ MaxConcurrent \in Nat

AllEvents == Events \cup {StopEvent}
Items == AllEvents \cup Maps

\* In the order in which they are started.
Stages == <<"backend", "flusher", "cloud", "parser", "http">>

VARIABLES
    pc, eventsDispatched, ctxDone, eventWg, sem, sending, releasing, waiter,
    where,      \* where each item is
    by,         \* whose goroutine has it: a stage, or "main"
    cloudWg,    \* CloudHandler.wg
    main,       \* where RunWithCustomSocket is
    down,       \* how many stages have been cancelled
    ended,      \* the stages that have returned
    before      \* the events that main waits for

eventVars == <<pc, eventsDispatched, ctxDone, eventWg, sem, sending, releasing, waiter>>
vars == <<eventVars, where, by, cloudWg, main, down, ended, before>>

E == INSTANCE EventDispatch WITH Callers <- AllEvents

Cancelled(s) == \E i \in DOMAIN Stages : Stages[i] = s /\ i > Len(Stages) - down

\* The process ends when its main goroutine does, or panics.
Alive == main \notin {"returned", "panic"}

Init ==
    /\ E!Init
    /\ where = [x \in Items |-> "client"]
    /\ by \in [Items -> {"parser", "flusher", "http", "main"}]
    /\ \A x \in Items : CASE x = StopEvent -> by[x] = "main"
                           [] x \in Events -> by[x] \in {"parser", "http"}
                           [] OTHER -> by[x] # "main"
    /\ cloudWg = 0
    /\ main = "running"
    /\ down = 0
    /\ ended = {}
    /\ before = {}

-----------------------------------------------------------------------------
(* CloudHandler *)

\* As for eventWg, the Done that makes the count zero wakes the waiter.
WakeMain(wg) == IF main = "parked" /\ wg = 0 THEN "woken" ELSE main

\* DispatchEvent and DispatchMetricMap: the host is in the cache, or the item goes to Run.
Dispatch(x) ==
    /\ where[x] = "client"
    /\ UNCHANGED <<by, down, ended, before>>
    /\ \/ /\ where' = [where EXCEPT ![x] = "backend"]
          /\ IF x \in AllEvents THEN E!DispatchEvent(x) ELSE UNCHANGED eventVars
          /\ UNCHANGED cloudWg
       \/ /\ where' = [where EXCEPT ![x] = "cloud"]
          /\ cloudWg' = IF x \in AllEvents THEN cloudWg + 1 ELSE cloudWg
          /\ UNCHANGED eventVars

\* A goroutine of a stage dispatches an item.  A handler of a request may do so after its
\* server has returned, which waits for no more than some seconds.
Call(x) ==
    /\ x # StopEvent
    /\ Alive
    /\ by[x] \notin ended \ {"http"}
    /\ Dispatch(x)
    /\ UNCHANGED main

\* The context of a request, which is not the one of its stage, ends with its connection.
RequestEnds(x) ==
    /\ Alive
    /\ by[x] = "http"
    /\ x \notin ctxDone
    /\ where[x] \in {"cloud", "backend"}
    /\ ctxDone' = ctxDone \cup {x}
    /\ UNCHANGED <<pc, eventsDispatched, eventWg, sem, sending, releasing, waiter, where, by,
                   cloudWg, main, down, ended, before>>

\* case ch.incomingEvents <- e, and the same for metrics
CloudTakes(x) ==
    /\ where[x] = "cloud"
    /\ "cloud" \notin ended
    /\ where' = [where EXCEPT ![x] = "awaiting"]
    /\ UNCHANGED <<eventVars, by, cloudWg, main, down, ended, before>>

\* case <-ctx.Done()
CloudGivesUp(x) ==
    /\ where[x] = "cloud"
    /\ x \in ctxDone
    /\ where' = [where EXCEPT ![x] = "dropped"]
    /\ cloudWg' = IF x \in AllEvents THEN cloudWg - 1 ELSE cloudWg
    /\ main' = WakeMain(cloudWg')
    /\ UNCHANGED <<eventVars, by, down, ended, before>>

\* handleInstanceInfo starts a goroutine, which has the context of Run.
handleInstanceInfo(x) ==
    /\ where[x] = "awaiting"
    /\ "cloud" \notin ended
    /\ where' = [where EXCEPT ![x] = "goroutine"]
    /\ by' = [by EXCEPT ![x] = "cloud"]
    /\ ctxDone' = IF Cancelled("cloud") THEN ctxDone \cup {x} ELSE ctxDone \ {x}
    /\ UNCHANGED <<pc, eventsDispatched, eventWg, sem, sending, releasing, waiter, cloudWg, main,
                   down, ended, before>>

\* updateAndDispatchMetrics or updateAndDispatchEvents
updateAndDispatch(x) ==
    /\ where[x] = "goroutine"
    /\ where' = [where EXCEPT ![x] = "backend"]
    /\ IF x \in AllEvents THEN E!DispatchEvent(x) ELSE UNCHANGED eventVars
    /\ UNCHANGED <<by, cloudWg, main, down, ended, before>>

-----------------------------------------------------------------------------
(* BackendHandler *)

\* The loop over the backends of DispatchEvent.
DispatchLoop(x) ==
    /\ where[x] = "backend"
    /\ x \in AllEvents
    /\ E!GiveUp(x) \/ E!Start(x)
    /\ UNCHANGED <<where, by, cloudWg, main, down, ended, before>>

\* DispatchEvent returns, to the parser or to updateAndDispatchEvents.
Return(x) ==
    /\ where[x] = "backend"
    /\ x \in AllEvents
    /\ pc[x] = "returned"
    /\ where' = [where EXCEPT ![x] = "done"]
    /\ cloudWg' = IF by[x] = "cloud" THEN cloudWg - 1 ELSE cloudWg
    /\ main' = WakeMain(cloudWg')
    /\ UNCHANGED <<eventVars, by, down, ended, before>>

\* DispatchMetricMap: the queues are closed when Run has returned, and a send panics then.
SendMap(x) ==
    /\ where[x] = "backend"
    /\ x \notin AllEvents
    /\ \/ /\ where' = [where EXCEPT ![x] = "done"]
          /\ main' = IF "backend" \in ended THEN "panic" ELSE main
       \/ /\ x \in ctxDone
          /\ where' = [where EXCEPT ![x] = "dropped"]
          /\ UNCHANGED main
    /\ UNCHANGED <<eventVars, by, cloudWg, down, ended, before>>

EventGoroutine(g) ==
    /\ Alive
    /\ E!Goroutine(g)
    /\ UNCHANGED <<where, by, cloudWg, main, down, ended, before>>

-----------------------------------------------------------------------------
(* RunWithCustomSocket after its context is done *)

\* sendStopEvent dispatches its event.
sendStopEvent ==
    /\ main = "running"
    /\ main' = "stopEvent"
    /\ Dispatch(StopEvent)

\* Its context ends after two seconds.
StopEventTimeout ==
    /\ main = "stopEvent"
    /\ StopEvent \notin ctxDone
    /\ ctxDone' = ctxDone \cup {StopEvent}
    /\ UNCHANGED <<pc, eventsDispatched, eventWg, sem, sending, releasing, waiter, where, by,
                   cloudWg, main, down, ended, before>>

\* CloudHandler.WaitForEvents waits for its own events, and then for those of the next
\* handler.  The events it must see the end of are those that have been dispatched.
WaitForEvents ==
    /\ main = "stopEvent"
    /\ where[StopEvent] \notin {"cloud", "backend"}
    /\ main' = IF cloudWg = 0 THEN "waitBackend" ELSE "parked"
    /\ before' = {x \in AllEvents : where[x] # "client"}
    /\ UNCHANGED <<eventVars, where, by, cloudWg, down, ended>>

WaitCloudReturns ==
    /\ main = "woken"
    /\ main' = IF cloudWg = 0 THEN "waitBackend" ELSE "panic"
    /\ UNCHANGED <<eventVars, where, by, cloudWg, down, ended, before>>

WaitBackend ==
    /\ main = "waitBackend"
    /\ E!WaitForEvents \/ E!WaitReturns
    /\ main' = CASE waiter' = "returned" -> "shutdown" [] waiter' = "panic" -> "panic" [] OTHER -> main
    /\ UNCHANGED <<where, by, cloudWg, down, ended, before>>

\* Mutant: the stages are cancelled all at once.
CancelAll ==
    /\ main = "shutdown"
    /\ down = 0
    /\ down' = Len(Stages)
    /\ ctxDone' = ctxDone \cup {x \in Items : by[x] # "main"}
    /\ UNCHANGED <<pc, eventsDispatched, eventWg, sem, sending, releasing, waiter, where, by,
                   cloudWg, main, ended, before>>

\* Stager.Shutdown cancels a stage when the one after it has returned.
Cancel ==
    /\ main = "shutdown"
    /\ down < Len(Stages)
    /\ \A s \in ToSet(Stages) : Cancelled(s) => s \in ended
    /\ down' = down + 1
    /\ ctxDone' = ctxDone \cup {x \in Items : by[x] = Stages[Len(Stages) - down] /\ by[x] # "http"}
    /\ UNCHANGED <<pc, eventsDispatched, eventWg, sem, sending, releasing, waiter, where, by,
                   cloudWg, main, ended, before>>

\* A stage returns when it is in no call.  The goroutines of the cloud handler are not
\* waited for, nor are the requests that last too long.
StageEnds(s) ==
    /\ Alive
    /\ Cancelled(s)
    /\ s \notin ended
    /\ s \notin {"cloud", "http"} => \A x \in Items : by[x] = s => where[x] \notin {"cloud", "backend"}
    /\ ended' = ended \cup {s}
    /\ UNCHANGED <<eventVars, where, by, cloudWg, main, down, before>>

Returns ==
    /\ main = "shutdown"
    /\ ended = ToSet(Stages)
    /\ main' = "returned"
    /\ UNCHANGED <<eventVars, where, by, cloudWg, down, ended, before>>

Finished == ~Alive /\ UNCHANGED vars

Item(x) ==
    /\ Alive
    /\ \/ CloudTakes(x) \/ CloudGivesUp(x) \/ handleInstanceInfo(x) \/ updateAndDispatch(x)
       \/ DispatchLoop(x) \/ Return(x) \/ SendMap(x)

Main == sendStopEvent \/ WaitForEvents \/ WaitCloudReturns \/ WaitBackend \/ Cancel \/ Returns

Next ==
    \/ \E x \in Items : Call(x) \/ RequestEnds(x) \/ Item(x)
    \/ \E g \in sending \cup releasing : EventGoroutine(g)
    \/ Main
    \/ StopEventTimeout
    \/ \E s \in ToSet(Stages) : StageEnds(s)
    \/ Finished

Spec == Init /\ [][Next]_vars

\* Goroutines run, lookups are answered, and the select of a full channel is served in its
\* turn; nobody has to dispatch anything, nor to stop the server.
Fairness ==
    /\ \A x \in Items : WF_vars(Item(x))
    /\ \A x \in AllEvents, b \in 1 .. NumBackends : WF_vars(EventGoroutine(<<x, b>>))
    /\ WF_vars(main # "running" /\ Main)
    /\ \A s \in ToSet(Stages) : WF_vars(StageEnds(s))

FairSpec == Spec /\ Fairness

-----------------------------------------------------------------------------
(* Properties *)

\* EventDispatch!GoroutinesCounted, also with calls from two handlers, and the WaitGroup of
\* the cloud handler counts the events that it has not passed on: those on their way to Run,
\* waiting for their host, and in a goroutine whose call has not returned.
EventsCounted ==
    /\ E!GoroutinesCounted
    /\ cloudWg = Cardinality({x \in AllEvents :
                                 \/ where[x] \in {"cloud", "awaiting", "goroutine"}
                                 \/ where[x] = "backend" /\ by[x] = "cloud"})

\* The shutdown of the stages starts when every event that was dispatched before the wait
\* has been sent to all backends, or was given up: none is missed while it passes from one
\* handler, and the WaitGroup waited for first, to the next.
WaitMeansAllDone ==
    main \in {"shutdown", "returned"} =>
        \A x \in before : where[x] = "dropped" \/ E!Settled(x)

\* A stage is up for as long as one that was started after it may call it, but for the
\* goroutines of the cloud handler and slow requests: no parser and no flusher waits for,
\* or sends to, a handler that has returned.
CallersOutlived ==
    \A x \in Items :
        (where[x] \in {"cloud", "backend"} /\ by[x] \notin {"cloud", "http"}) =>
            /\ "backend" \notin ended
            /\ by[x] \notin ended
            /\ where[x] = "cloud" /\ "cloud" \in ended => by[x] = "flusher"

\* The server returns, or panics, once it has been told to stop: neither wait of
\* sendStopEvent is for something that cannot happen any more, and each stage that is
\* cancelled returns.
ShutdownCompletes == main = "stopEvent" ~> main \in {"returned", "panic"}
====
