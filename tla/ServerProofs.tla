--------------------------- MODULE ServerProofs ---------------------------
(***************************************************************************)
(* Proofs about Server, and the EventDispatch in it, for any number of     *)
(* events, maps, backends and slots: the WaitGroups are exact, the waits   *)
(* of sendStopEvent cover every event dispatched before them, and the      *)
(* order of the stages keeps every callee up.                              *)
(***************************************************************************)
EXTENDS Server, FiniteSetTheorems, TLAPS

-----------------------------------------------------------------------------
(* The invariants of the WaitGroups                                        *)

Pairs == AllEvents \X (1 .. NumBackends)

Places == {"client", "cloud", "awaiting", "goroutine", "backend", "done", "dropped"}

EventTypes ==
    /\ pc \in [AllEvents -> {"start", "loop", "returned"}]
    /\ eventsDispatched \in [AllEvents -> 0 .. NumBackends]
    /\ eventWg \in Int
    /\ sem \in Int
    /\ sending \subseteq Pairs
    /\ releasing \subseteq Pairs

\* A goroutine is started once, in the order of the backends, and is in one place.
EventFacts ==
    /\ \A c \in AllEvents : pc[c] = "start" => eventsDispatched[c] = 0
    /\ \A c \in AllEvents : pc[c] = "loop" => eventsDispatched[c] < NumBackends
    /\ sending \cap releasing = {}
    /\ \A g \in sending \cup releasing : g[2] <= eventsDispatched[g[1]]

EventInv == EventTypes /\ EventFacts /\ E!GoroutinesCounted

\* The events that CloudHandler.wg counts.
Own == {x \in AllEvents : \/ where[x] \in {"cloud", "awaiting", "goroutine"}
                          \/ where[x] = "backend" /\ by[x] = "cloud"}

\* An item has a goroutine of the cloud handler from handleInstanceInfo on.
CloudInv ==
    /\ where \in [Items -> Places]
    /\ by \in [Items -> {"parser", "flusher", "http", "main", "cloud"}]
    /\ cloudWg \in Int
    /\ \A x \in Items : where[x] \in {"client", "cloud", "awaiting"} => by[x] # "cloud"
    /\ \A x \in Items : where[x] = "goroutine" => by[x] = "cloud"
    /\ cloudWg = Cardinality(Own)

-----------------------------------------------------------------------------
(* They are inductive                                                     *)

\* The Cardinality of EventDispatch is that of FiniteSets.
LEMMA SameCardinality == \A S : E!Cardinality(S) = Cardinality(S)
  BY DEF E!Cardinality, Cardinality

\* An event is counted for each of its goroutines.
LEMMA PairsFinite == IsFiniteSet(AllEvents) /\ IsFiniteSet(Pairs)
<1>1. IsFiniteSet(AllEvents)
  BY ItemsAssumption, FS_AddElement DEF AllEvents
<1>2. IsFiniteSet(1 .. NumBackends)
  BY NumbersAssumption, FS_Interval
<1> QED
  BY <1>1, <1>2, FS_Product DEF Pairs

\* The goroutines an event has from the one after the k-th on.
LEMMA PairsOfOne ==
    ASSUME NEW c \in AllEvents, NEW k \in 0 .. NumBackends
    PROVE  /\ IsFiniteSet({c} \X ((k + 1) .. NumBackends))
           /\ Cardinality({c} \X ((k + 1) .. NumBackends)) = NumBackends - k
<1> DEFINE T == (k + 1) .. NumBackends
<1>1. IsFiniteSet(T) /\ Cardinality(T) = NumBackends - k
  <2>1. k + 1 \in Int /\ NumBackends \in Int
    BY NumbersAssumption
  <2>2. IsFiniteSet(T) /\ Cardinality(T) = IF k + 1 > NumBackends THEN 0 ELSE NumBackends - (k + 1) + 1
    BY <2>1, FS_Interval
  <2> QED
    BY <2>2, NumbersAssumption
<1>2. IsFiniteSet({c}) /\ Cardinality({c}) = 1
  BY FS_Singleton
<1>3. IsFiniteSet({c} \X T) /\ Cardinality({c} \X T) = Cardinality({c}) * Cardinality(T)
  <2> HIDE DEF T
  <2> QED
    BY <1>1, <1>2, FS_Product
<1>4. NumBackends - k \in Int
  BY NumbersAssumption
<1> QED
  BY <1>1, <1>2, <1>3, <1>4

\* A set of pairs that is the disjoint union of two.
LEMMA PairsAdd ==
    ASSUME NEW S, NEW T, S \subseteq Pairs, IsFiniteSet(T), S \cap T = {}
    PROVE  /\ Cardinality(S) \in Nat
           /\ Cardinality(T) \in Nat
           /\ Cardinality(S \cup T) = Cardinality(S) + Cardinality(T)
<1>1. IsFiniteSet(S)
  BY PairsFinite, FS_Subset
<1>2. Cardinality(S) \in Nat /\ Cardinality(T) \in Nat
  BY <1>1, FS_CardinalityType
<1>3. Cardinality(S \cup T) = Cardinality(S) + Cardinality(T) - Cardinality(S \cap T)
  BY <1>1, FS_Union
<1>4. Cardinality(S \cap T) = 0
  BY FS_EmptySet
<1> QED
  BY <1>2, <1>3, <1>4

\* No goroutine runs, and none is owed, before the first dispatch.
LEMMA EventInit == E!Init => EventInv
<1> SUFFICES ASSUME E!Init PROVE EventInv
  OBVIOUS
<1>1. EventTypes /\ EventFacts
  BY NumbersAssumption DEF E!Init, EventTypes, EventFacts
<1>2. sending = {} /\ E!Running = {} /\ E!Owed = {}
  BY DEF E!Init, E!Running, E!Owed
<1>3. E!GoroutinesCounted
  BY <1>2, FS_EmptySet, SameCardinality DEF E!Init, E!GoroutinesCounted
<1> QED
  BY <1>1, <1>3 DEF EventInv

\* The goroutines that are running, or are owed, are pairs, so that they can be counted.
LEMMA EventSets ==
    ASSUME EventTypes
    PROVE  /\ E!Running \subseteq Pairs /\ IsFiniteSet(E!Running) /\ Cardinality(E!Running) \in Nat
           /\ E!Owed \subseteq Pairs /\ IsFiniteSet(E!Owed) /\ Cardinality(E!Owed) \in Nat
           /\ IsFiniteSet(sending) /\ Cardinality(sending) \in Nat
<1>1. E!Running \subseteq Pairs /\ E!Owed \subseteq Pairs /\ sending \subseteq Pairs
  BY DEF E!Running, E!Owed, E!Backends, EventTypes, Pairs
<1> QED
  BY <1>1, PairsFinite, FS_Subset, FS_CardinalityType

\* A dispatch owes as many goroutines as it adds to the WaitGroup.
LEMMA EventDispatched ==
    ASSUME EventInv, NEW c \in AllEvents, E!DispatchEvent(c)
    PROVE  EventInv'
<1> USE DEF EventInv
<1>1. EventTypes' /\ EventFacts'
  BY NumbersAssumption DEF E!DispatchEvent, EventTypes, EventFacts
<1>2. E!Running' = E!Running /\ sending' = sending /\ sem' = sem
  BY DEF E!DispatchEvent, E!Running
<1> DEFINE T == {c} \X ((0 + 1) .. NumBackends)
<1>3. E!Owed' = E!Owed \cup T
  BY NumbersAssumption DEF E!DispatchEvent, E!Owed, E!Backends, EventTypes, EventFacts
<1>4. E!Owed \cap T = {} /\ E!Owed \subseteq Pairs
  BY DEF E!DispatchEvent, E!Owed, E!Backends, Pairs
<1>5. IsFiniteSet(T) /\ Cardinality(T) = NumBackends
  BY PairsOfOne, NumbersAssumption
<1>6. /\ Cardinality(E!Owed) \in Nat
      /\ Cardinality(E!Owed') = Cardinality(E!Owed) + NumBackends
  <2> HIDE DEF T
  <2> QED
    BY <1>3, <1>4, <1>5, PairsAdd
<1>7. Cardinality(E!Running) \in Nat
  BY EventSets
<1>8. E!GoroutinesCounted'
  BY <1>2, <1>6, <1>7, NumbersAssumption, SameCardinality DEF E!DispatchEvent, E!GoroutinesCounted
<1> QED
  BY <1>1, <1>8

\* A dispatch that gives up takes back what it still owes.
LEMMA EventGivenUp ==
    ASSUME EventInv, NEW c \in AllEvents, E!GiveUp(c)
    PROVE  EventInv'
<1> USE DEF EventInv
<1>1. EventTypes' /\ EventFacts'
  BY NumbersAssumption DEF E!GiveUp, EventTypes, EventFacts
<1>2. E!Running' = E!Running /\ sending' = sending /\ sem' = sem
  BY DEF E!GiveUp, E!Running
<1> DEFINE k == eventsDispatched[c]
           T == {c} \X ((k + 1) .. NumBackends)
<1>3. k \in 0 .. NumBackends
  BY DEF EventTypes
<1>4. E!Owed = E!Owed' \cup T
  BY <1>3, NumbersAssumption DEF E!GiveUp, E!Owed, E!Backends, EventTypes
<1>5. E!Owed' \cap T = {}
  BY DEF E!GiveUp, E!Owed, E!Backends, EventTypes
<1>6. E!Owed' \subseteq Pairs
  BY DEF E!Owed, E!Backends, Pairs
<1>7. IsFiniteSet(T) /\ Cardinality(T) = NumBackends - k
  <2> HIDE DEF k
  <2> QED
    BY <1>3, PairsOfOne
<1>8. /\ Cardinality(E!Owed') \in Nat
      /\ Cardinality(E!Owed) = Cardinality(E!Owed') + (NumBackends - k)
  <2> HIDE DEF T, k
  <2> QED
    BY <1>4, <1>5, <1>6, <1>7, PairsAdd
<1>9. Cardinality(E!Running) \in Nat
  BY EventSets
<1>10. eventWg' = eventWg + k - NumBackends
  BY DEF E!GiveUp
<1>11. E!GoroutinesCounted'
  <2> HIDE DEF k
  <2> QED
    BY <1>2, <1>3, <1>8, <1>9, <1>10, NumbersAssumption, SameCardinality DEF E!GoroutinesCounted
<1> QED
  BY <1>1, <1>11

\* A goroutine that is started is no longer owed, and takes a slot of the semaphore.
LEMMA EventStarted ==
    ASSUME EventInv, NEW c \in AllEvents, E!Start(c)
    PROVE  EventInv'
<1> USE DEF EventInv
<1> DEFINE b == eventsDispatched[c] + 1
           g == <<c, b>>
<1>1. b \in 1 .. NumBackends
  BY NumbersAssumption DEF E!Start, EventTypes, EventFacts
<1>2. g \in Pairs /\ g \notin E!Running /\ g \notin sending
  BY <1>1 DEF Pairs, E!Running, EventTypes, EventFacts
<1>3. EventTypes'
  BY <1>1, <1>2, NumbersAssumption DEF E!Start, EventTypes
<1>4. EventFacts'
  <2>1. \A d \in AllEvents : pc'[d] = "start" => eventsDispatched'[d] = 0
    BY DEF E!Start, EventTypes, EventFacts
  <2>2. \A d \in AllEvents : pc'[d] = "loop" => eventsDispatched'[d] < NumBackends
    BY <1>1, NumbersAssumption DEF E!Start, EventTypes, EventFacts
  <2>3. sending' \cap releasing' = {}
    BY <1>2 DEF E!Start, E!Running, EventFacts
  <2>4. \A h \in sending' \cup releasing' : h[2] <= eventsDispatched'[h[1]]
    <3> SUFFICES ASSUME NEW h \in sending' \cup releasing' PROVE h[2] <= eventsDispatched'[h[1]]
      OBVIOUS
    <3>1. CASE h = g
      BY <1>1, <3>1 DEF E!Start, EventTypes
    <3>2. CASE h # g
      <4>1. h \in sending \cup releasing /\ h \in Pairs
        BY <3>2 DEF E!Start, EventTypes
      <4>2. h[1] \in AllEvents /\ h[2] \in 1 .. NumBackends /\ h[2] <= eventsDispatched[h[1]]
        BY <4>1 DEF Pairs, EventFacts
      <4>3. /\ eventsDispatched[h[1]] \in Int /\ eventsDispatched[c] \in Int
            /\ eventsDispatched' = [eventsDispatched EXCEPT ![c] = b]
            /\ eventsDispatched \in [AllEvents -> 0 .. NumBackends]
        BY <4>2 DEF E!Start, EventTypes
      <4> QED
        BY <4>2, <4>3
    <3> QED
      BY <3>1, <3>2
  <2> QED
    BY <2>1, <2>2, <2>3, <2>4 DEF EventFacts
<1>5. E!Owed = E!Owed' \cup {g} /\ g \notin E!Owed'
  BY <1>1, NumbersAssumption DEF E!Start, E!Owed, E!Backends, EventTypes
<1>6. E!Running' = E!Running \cup {g} /\ sending' = sending \cup {g}
  BY DEF E!Start, E!Running
<1>7. /\ IsFiniteSet(E!Owed') /\ Cardinality(E!Owed') \in Nat
      /\ IsFiniteSet(E!Running) /\ Cardinality(E!Running) \in Nat
      /\ IsFiniteSet(sending) /\ Cardinality(sending) \in Nat
  <2>1. E!Owed' \subseteq Pairs
    BY DEF E!Owed, E!Backends, Pairs
  <2> QED
    BY <2>1, EventSets, PairsFinite, FS_Subset, FS_CardinalityType
<1>8. /\ Cardinality(E!Owed) = Cardinality(E!Owed') + 1
      /\ Cardinality(E!Running') = Cardinality(E!Running) + 1
      /\ Cardinality(sending') = Cardinality(sending) + 1
  <2> HIDE DEF g
  <2> QED
    BY <1>2, <1>5, <1>6, <1>7, FS_AddElement
<1>9. sem' = sem + 1 /\ eventWg' = eventWg
  BY DEF E!Start
<1>10. E!GoroutinesCounted'
  BY <1>7, <1>8, <1>9, SameCardinality DEF E!GoroutinesCounted
<1> QED
  BY <1>3, <1>4, <1>10

\* A goroutine gives its slot back, and is then counted out, once.
LEMMA EventGoroutineEnds ==
    ASSUME EventInv, NEW g, E!Goroutine(g)
    PROVE  EventInv'
<1> USE DEF EventInv
<1>1. EventTypes' /\ EventFacts' /\ E!Owed' = E!Owed
  BY DEF E!Goroutine, E!Release, E!WgDone, E!callerVars, EventTypes, EventFacts, E!Owed
<1>2. CASE E!Release(g)
  <2>1. /\ g \in sending /\ sending' = sending \ {g} /\ sem' = sem - 1
        /\ eventWg' = eventWg /\ E!Running' = E!Running
    BY <1>2 DEF E!Release, E!Running
  <2>2. Cardinality(sending') = Cardinality(sending) - 1
    BY <2>1, EventSets, FS_RemoveElement
  <2>3. E!GoroutinesCounted'
    BY <1>1, <2>1, <2>2, SameCardinality DEF E!GoroutinesCounted
  <2> QED
    BY <1>1, <2>3
<1>3. CASE E!WgDone(g)
  <2>1. /\ g \in E!Running /\ E!Running' = E!Running \ {g}
        /\ eventWg' = eventWg - 1 /\ sem' = sem /\ sending' = sending
    BY <1>3 DEF E!WgDone, E!Running, EventFacts
  <2>2. Cardinality(E!Running') = Cardinality(E!Running) - 1
    BY <2>1, EventSets, FS_RemoveElement
  <2>3. E!GoroutinesCounted'
    BY <1>1, <2>1, <2>2, EventSets, SameCardinality DEF E!GoroutinesCounted
  <2> QED
    BY <1>1, <2>3
<1> QED
  BY <1>2, <1>3 DEF E!Goroutine

\* The steps that change neither the callers nor the goroutines.
LEMMA EventUnchanged ==
    ASSUME EventInv, UNCHANGED <<pc, eventsDispatched, eventWg, sem, sending, releasing>>
    PROVE  EventInv'
  BY DEF EventInv, EventTypes, EventFacts, E!GoroutinesCounted, E!Running, E!Owed

\* Each step of the server keeps the goroutines counted.
LEMMA EventStep == EventInv /\ [Next]_vars => EventInv'
<1> SUFFICES ASSUME EventInv, [Next]_vars PROVE EventInv'
  OBVIOUS
<1>1. ASSUME NEW x \in Items, Dispatch(x) PROVE EventInv'
  BY <1>1, EventDispatched, EventUnchanged DEF Dispatch, eventVars
<1>2. ASSUME NEW x \in Items, Call(x) PROVE EventInv'
  BY <1>1, <1>2 DEF Call
<1>3. ASSUME NEW x \in Items, updateAndDispatch(x) PROVE EventInv'
  BY <1>3, EventDispatched, EventUnchanged DEF updateAndDispatch, eventVars
<1>4. ASSUME NEW x \in Items, DispatchLoop(x) PROVE EventInv'
  BY <1>4, EventGivenUp, EventStarted DEF DispatchLoop
<1>5. ASSUME NEW g, EventGoroutine(g) PROVE EventInv'
  BY <1>5, EventGoroutineEnds DEF EventGoroutine
<1>6. CASE sendStopEvent
  BY <1>1, <1>6 DEF sendStopEvent, Items, AllEvents
<1>7. CASE WaitBackend
  BY <1>7, EventUnchanged DEF WaitBackend, E!WaitForEvents, E!WaitReturns, E!callerVars
<1>8. ASSUME NEW x \in Items,
             RequestEnds(x) \/ CloudTakes(x) \/ CloudGivesUp(x) \/ handleInstanceInfo(x) \/ Return(x)
                \/ SendMap(x)
      PROVE  EventInv'
  BY <1>8, EventUnchanged
     DEF RequestEnds, CloudTakes, CloudGivesUp, handleInstanceInfo, Return, SendMap, eventVars
<1>9. ASSUME NEW s \in ToSet(Stages), StageEnds(s) PROVE EventInv'
  BY <1>9, EventUnchanged DEF StageEnds, eventVars
<1>10. CASE WaitForEvents \/ WaitCloudReturns \/ Cancel \/ Returns \/ StopEventTimeout \/ UNCHANGED vars
  BY <1>10, EventUnchanged
     DEF WaitForEvents, WaitCloudReturns, Cancel, Returns, StopEventTimeout, vars, eventVars
<1> QED
  BY <1>2, <1>3, <1>4, <1>5, <1>6, <1>7, <1>8, <1>9, <1>10 DEF Next, Item, Main, Finished

\* The cloud handler has no event when the server starts.
LEMMA CloudInit == Init => CloudInv
<1> SUFFICES ASSUME Init PROVE CloudInv
  OBVIOUS
<1>1. Own = {}
  BY DEF Init, Own, Items, AllEvents
<1> QED
  BY <1>1, FS_EmptySet DEF Init, CloudInv, Places

\* The count follows from what a step does to the set that is counted.
LEMMA OwnChanges ==
    ASSUME CloudInv, NEW x \in AllEvents
    PROVE  /\ x \notin Own /\ Own' = Own \cup {x} /\ cloudWg' = cloudWg + 1 => cloudWg' = Cardinality(Own')
           /\ x \in Own /\ Own' = Own \ {x} /\ cloudWg' = cloudWg - 1 => cloudWg' = Cardinality(Own')
           /\ Own' = Own /\ cloudWg' = cloudWg => cloudWg' = Cardinality(Own')
<1>1. IsFiniteSet(Own)
  BY PairsFinite, FS_Subset DEF Own
<1> QED
  BY <1>1, FS_AddElement, FS_RemoveElement DEF CloudInv

\* Each step of the server keeps the events of the cloud handler counted.
LEMMA CloudStep == CloudInv /\ [Next]_vars => CloudInv'
<1> SUFFICES ASSUME CloudInv, [Next]_vars PROVE CloudInv'
  OBVIOUS
<1> DEFINE Facts ==
        /\ where \in [Items -> Places]
        /\ by \in [Items -> {"parser", "flusher", "http", "main", "cloud"}]
        /\ cloudWg \in Int
        /\ \A x \in Items : where[x] \in {"client", "cloud", "awaiting"} => by[x] # "cloud"
        /\ \A x \in Items : where[x] = "goroutine" => by[x] = "cloud"
<1>0. Facts /\ cloudWg = Cardinality(Own) /\ AllEvents \subseteq Items
  BY DEF CloudInv, Items
<1>1. ASSUME NEW x \in Items, Dispatch(x) PROVE CloudInv'
  <2>1. Facts'
    <3>1. where[x] = "client" /\ by' = by /\ where' \in {[where EXCEPT ![x] = "backend"], [where EXCEPT ![x] = "cloud"]}
      BY <1>1 DEF Dispatch
    <3>2. cloudWg' \in Int
      <4>1. cloudWg' = cloudWg \/ cloudWg' = cloudWg + 1
        BY <1>1 DEF Dispatch
      <4> QED
        BY <1>0, <4>1
    <3> QED
      BY <1>0, <3>1, <3>2 DEF Places
  <2>2. CASE where' = [where EXCEPT ![x] = "backend"] /\ UNCHANGED cloudWg
    <3>1. Own' = Own
      BY <1>0, <1>1, <2>2 DEF Dispatch, Own
    <3> QED
      BY <1>0, <2>1, <2>2, <3>1 DEF CloudInv
  <2>3. CASE where' = [where EXCEPT ![x] = "cloud"] /\ x \in AllEvents /\ cloudWg' = cloudWg + 1
    <3>1. x \notin Own /\ Own' = Own \cup {x}
      BY <1>0, <1>1, <2>3 DEF Dispatch, Own
    <3> QED
      BY <2>1, <2>3, <3>1, OwnChanges DEF CloudInv
  <2>4. CASE where' = [where EXCEPT ![x] = "cloud"] /\ x \notin AllEvents /\ cloudWg' = cloudWg
    <3>1. Own' = Own
      BY <1>0, <1>1, <2>4 DEF Dispatch, Own
    <3> QED
      BY <1>0, <2>1, <2>4, <3>1 DEF CloudInv
  <2> QED
    BY <1>1, <2>2, <2>3, <2>4 DEF Dispatch
<1>2. ASSUME NEW x \in Items, Call(x) PROVE CloudInv'
  BY <1>1, <1>2 DEF Call
<1>3. ASSUME NEW x \in Items,
             CloudTakes(x) \/ handleInstanceInfo(x) \/ updateAndDispatch(x) \/ SendMap(x)
      PROVE  CloudInv'
  <2>1. Facts'
    BY <1>0, <1>3 DEF CloudTakes, handleInstanceInfo, updateAndDispatch, SendMap, Places
  <2>2. Own' = Own
    BY <1>0, <1>3 DEF CloudTakes, handleInstanceInfo, updateAndDispatch, SendMap, Own
  <2>3. cloudWg' = cloudWg
    BY <1>3 DEF CloudTakes, handleInstanceInfo, updateAndDispatch, SendMap
  <2> QED
    BY <1>0, <2>1, <2>2, <2>3 DEF CloudInv
<1>4. ASSUME NEW x \in Items, CloudGivesUp(x) PROVE CloudInv'
  <2>1. Facts'
    <3>1. where[x] = "cloud" /\ by' = by /\ where' = [where EXCEPT ![x] = "dropped"]
      BY <1>4 DEF CloudGivesUp
    <3>2. cloudWg' \in Int
      BY <1>0, <1>4 DEF CloudGivesUp
    <3> QED
      BY <1>0, <3>1, <3>2 DEF Places
  <2>2. CASE x \in AllEvents
    <3>1. x \in Own /\ Own' = Own \ {x} /\ cloudWg' = cloudWg - 1
      BY <1>0, <1>4, <2>2 DEF CloudGivesUp, Own
    <3> QED
      BY <2>1, <2>2, <3>1, OwnChanges DEF CloudInv
  <2>3. CASE x \notin AllEvents
    <3>1. Own' = Own /\ cloudWg' = cloudWg
      BY <1>0, <1>4, <2>3 DEF CloudGivesUp, Own
    <3> QED
      BY <1>0, <2>1, <3>1 DEF CloudInv
  <2> QED
    BY <2>2, <2>3
<1>5. ASSUME NEW x \in Items, Return(x) PROVE CloudInv'
  <2>1. Facts'
    <3>1. where[x] = "backend" /\ by' = by /\ where' = [where EXCEPT ![x] = "done"]
      BY <1>5 DEF Return
    <3>2. cloudWg' \in Int
      BY <1>0, <1>5 DEF Return
    <3> QED
      BY <1>0, <3>1, <3>2 DEF Places
  <2>2. CASE by[x] = "cloud"
    <3>1. x \in Own /\ Own' = Own \ {x} /\ cloudWg' = cloudWg - 1
      BY <1>0, <1>5, <2>2 DEF Return, Own
    <3> QED
      BY <1>5, <2>1, <3>1, OwnChanges DEF CloudInv, Return
  <2>3. CASE by[x] # "cloud"
    <3>1. Own' = Own /\ cloudWg' = cloudWg
      BY <1>0, <1>5, <2>3 DEF Return, Own
    <3> QED
      BY <1>0, <2>1, <3>1 DEF CloudInv
  <2> QED
    BY <2>2, <2>3
<1>6. CASE sendStopEvent
  BY <1>1, <1>6 DEF sendStopEvent, Items, AllEvents
<1>7. CASE UNCHANGED <<where, by, cloudWg>>
  BY <1>7 DEF CloudInv, Own
<1>8. ASSUME NEW x \in Items, RequestEnds(x) \/ DispatchLoop(x) PROVE CloudInv'
  BY <1>7, <1>8 DEF RequestEnds, DispatchLoop
<1>9. ASSUME NEW g, EventGoroutine(g) PROVE CloudInv'
  BY <1>7, <1>9 DEF EventGoroutine
<1>10. ASSUME NEW s \in ToSet(Stages), StageEnds(s) PROVE CloudInv'
  BY <1>7, <1>10 DEF StageEnds
<1>11. CASE WaitForEvents \/ WaitCloudReturns \/ WaitBackend \/ Cancel \/ Returns \/ StopEventTimeout
              \/ UNCHANGED vars
  BY <1>7, <1>11
     DEF WaitForEvents, WaitCloudReturns, WaitBackend, Cancel, Returns, StopEventTimeout, vars
<1> QED
  BY <1>2, <1>3, <1>4, <1>5, <1>6, <1>8, <1>9, <1>10, <1>11 DEF Next, Item, Main, Finished

\* Both WaitGroups, and the semaphore, count what they are there to count in every state, for
\* any number of events, maps, backends and slots: what WaitForEvents waits for is neither
\* more nor less than the events that are under way, and no count is ever negative.
THEOREM EventsAreCounted == Spec => []EventsCounted
<1>1. Init => EventInv /\ CloudInv
  BY EventInit, CloudInit DEF Init
<1>2. EventInv /\ CloudInv /\ [Next]_vars => (EventInv /\ CloudInv)'
  BY EventStep, CloudStep
<1>3. EventInv /\ CloudInv => EventsCounted
  BY DEF EventInv, CloudInv, Own, EventsCounted
<1> QED
  BY <1>1, <1>2, <1>3, PTL DEF Spec

-----------------------------------------------------------------------------
(* The two waits of sendStopEvent, from what is proved about the WaitGroups *)

\* An event that has passed the cloud handler is in the dispatch loop, or has left it; those
\* that are waited for have passed the cloud handler when its WaitGroup has been waited for.
WaitFacts ==
    /\ before \subseteq AllEvents
    /\ \A x \in AllEvents : where[x] = "backend" => pc[x] # "start"
    /\ \A x \in AllEvents : where[x] = "done" => pc[x] = "returned"
    /\ \A x \in before : where[x] # "client"
    /\ main \in {"running", "stopEvent"} => before = {}
    /\ main \in {"waitBackend", "shutdown", "returned"} =>
          \A x \in before : where[x] \in {"backend", "done", "dropped"} /\ x \notin Own

WaitInv == EventInv /\ CloudInv /\ WaitFacts /\ WaitMeansAllDone

\* What EventDispatch does to the place of a caller in it.
LEMMA EventMoves ==
    ASSUME EventTypes, [Next]_vars, NEW x \in AllEvents
    PROVE  /\ pc[x] = "returned" => pc'[x] = "returned"
           /\ pc[x] # "start" => pc'[x] # "start"
           /\ E!Settled(x) => E!Settled(x)'
<1>1. ASSUME UNCHANGED <<pc, sending, releasing>>
      PROVE  UNCHANGED pc /\ E!Settled(x) = E!Settled(x)'
  BY <1>1 DEF E!Settled, E!Running
<1>2. ASSUME NEW c \in AllEvents, E!DispatchEvent(c)
      PROVE  /\ pc[x] = "returned" => pc'[x] = "returned"
             /\ pc[x] # "start" => pc'[x] # "start"
             /\ E!Settled(x) => E!Settled(x)'
  BY <1>2 DEF E!DispatchEvent, E!Settled, E!Running, EventTypes
<1>3. ASSUME NEW c \in AllEvents, E!GiveUp(c) \/ E!Start(c)
      PROVE  /\ pc[x] = "returned" => pc'[x] = "returned"
             /\ pc[x] # "start" => pc'[x] # "start"
             /\ E!Settled(x) => E!Settled(x)'
  BY <1>3 DEF E!GiveUp, E!Start, E!Settled, E!Running, EventTypes
<1>4. ASSUME NEW g, E!Goroutine(g)
      PROVE  UNCHANGED pc /\ (E!Settled(x) => E!Settled(x)')
  BY <1>4 DEF E!Goroutine, E!Release, E!WgDone, E!callerVars, E!Settled, E!Running
<1>5. \/ UNCHANGED <<pc, sending, releasing>>
      \/ \E c \in AllEvents : E!DispatchEvent(c) \/ E!GiveUp(c) \/ E!Start(c)
      \/ \E g : E!Goroutine(g)
  <2> DEFINE Quiet == UNCHANGED <<pc, sending, releasing>>
             Moves == \E c \in AllEvents : E!DispatchEvent(c) \/ E!GiveUp(c) \/ E!Start(c)
  <2>1. ASSUME NEW y \in Items, Dispatch(y) \/ updateAndDispatch(y) PROVE Quiet \/ Moves
    <3>1. \/ y \in AllEvents /\ E!DispatchEvent(y)
          \/ UNCHANGED eventVars
      BY <2>1, Zenon DEF Dispatch, updateAndDispatch
    <3> QED
      BY <3>1, Zenon DEF eventVars
  <2>2. ASSUME NEW y \in Items, \/ RequestEnds(y) \/ CloudTakes(y) \/ CloudGivesUp(y)
                               \/ handleInstanceInfo(y) \/ Return(y) \/ SendMap(y)
        PROVE  Quiet
    BY <2>2, Zenon DEF RequestEnds, CloudTakes, CloudGivesUp, handleInstanceInfo, Return,
                       SendMap, eventVars
  <2>3. ASSUME NEW y \in Items, DispatchLoop(y) PROVE Moves
    BY <2>3, Zenon DEF DispatchLoop
  <2>4. ASSUME NEW y \in Items, Call(y) \/ RequestEnds(y) \/ Item(y) PROVE Quiet \/ Moves
    BY <2>1, <2>2, <2>3, <2>4, Zenon DEF Call, Item
  <2>5. ASSUME Main PROVE Quiet \/ Moves
    <3>1. ASSUME sendStopEvent PROVE Quiet \/ Moves
      BY <2>1, <3>1, Zenon DEF sendStopEvent, Items, AllEvents
    <3>2. ASSUME WaitForEvents \/ WaitCloudReturns \/ Cancel \/ Returns PROVE Quiet
      BY <3>2, Zenon DEF WaitForEvents, WaitCloudReturns, Cancel, Returns, eventVars
    <3>3. ASSUME WaitBackend PROVE Quiet
      BY <3>3, Zenon DEF WaitBackend, E!WaitForEvents, E!WaitReturns, E!callerVars
    <3> QED
      BY <2>5, <3>1, <3>2, <3>3, Zenon DEF Main
  <2>6. ASSUME NEW s, StageEnds(s) PROVE Quiet
    BY <2>6, Zenon DEF StageEnds, eventVars
  <2>7. ASSUME StopEventTimeout \/ Finished \/ UNCHANGED vars PROVE Quiet
    BY <2>7, Zenon DEF StopEventTimeout, Finished, vars, eventVars
  <2>8. ASSUME NEW g, EventGoroutine(g) PROVE E!Goroutine(g)
    BY <2>8, Zenon DEF EventGoroutine
  <2> HIDE DEF Quiet, Moves
  <2>9. Quiet \/ Moves \/ \E g : E!Goroutine(g)
    BY <2>4, <2>5, <2>6, <2>7, <2>8, Zenon DEF Next
  <2> QED
    BY <2>9, Zenon DEF Quiet, Moves
<1> QED
  BY <1>1, <1>2, <1>3, <1>4, <1>5

\* A count of zero means that nothing is under way.
LEMMA ZeroMeansNone ==
    ASSUME EventInv, CloudInv
    PROVE  /\ cloudWg = 0 => Own = {}
           /\ eventWg = 0 => \A x \in AllEvents : pc[x] # "start" => E!Settled(x)
<1>1. cloudWg = 0 => Own = {}
  BY PairsFinite, FS_Subset, FS_EmptySet DEF Own, CloudInv
<1>2. ASSUME eventWg = 0, NEW x \in AllEvents, pc[x] # "start"
      PROVE  E!Settled(x)
  <2>1. Cardinality(E!Running) = 0 /\ Cardinality(E!Owed) = 0
    BY <1>2, EventSets, SameCardinality DEF EventInv, E!GoroutinesCounted
  <2>2. E!Running = {} /\ E!Owed = {}
    BY <2>1, EventSets, FS_EmptySet DEF EventInv
  <2>3. pc[x] # "loop"
    <3>1. SUFFICES ASSUME pc[x] = "loop" PROVE <<x, NumBackends>> \in E!Owed
      BY <2>2
    <3>2. eventsDispatched[x] \in 0 .. NumBackends /\ eventsDispatched[x] < NumBackends
      BY <3>1 DEF EventInv, EventTypes, EventFacts
    <3> QED
      BY <3>1, <3>2, NumbersAssumption DEF E!Owed, E!Backends
  <2> QED
    BY <1>2, <2>2, <2>3 DEF E!Settled, EventInv, EventTypes
<1> QED
  BY <1>1, <1>2

\* Nothing is waited for before the context is done.
LEMMA WaitInit == Init => WaitInv
  BY EventInit, CloudInit DEF Init, WaitInv, WaitFacts, WaitMeansAllDone, Items

\* Each step keeps what has been waited for settled.
LEMMA WaitStep == WaitInv /\ [Next]_vars => WaitInv'
<1> SUFFICES ASSUME WaitInv, [Next]_vars PROVE WaitFacts' /\ WaitMeansAllDone'
  BY EventStep, CloudStep DEF WaitInv
<1>1. /\ EventTypes /\ CloudInv /\ EventInv
      /\ AllEvents \subseteq Items /\ before \subseteq AllEvents
      /\ where \in [Items -> Places]
  BY DEF WaitInv, EventInv, CloudInv, WaitFacts, Items
<1>2. \A x \in AllEvents : /\ pc[x] = "returned" => pc'[x] = "returned"
                           /\ pc[x] # "start" => pc'[x] # "start"
                           /\ E!Settled(x) => E!Settled(x)'
  BY <1>1, EventMoves
<1>3. ASSUME NEW x \in Items, Dispatch(x), main' = main \/ (main = "running" /\ main' = "stopEvent")
      PROVE  WaitFacts' /\ WaitMeansAllDone'
  <2>1. /\ where[x] = "client" /\ UNCHANGED <<by, before>> /\ x \notin before
        /\ where' \in {[where EXCEPT ![x] = "backend"], [where EXCEPT ![x] = "cloud"]}
    BY <1>3 DEF Dispatch, WaitInv, WaitFacts
  <2>2. x \in AllEvents /\ where'[x] = "backend" => pc'[x] # "start"
    BY <1>1, <1>3 DEF Dispatch, E!DispatchEvent, EventTypes
  <2>3. \A y \in before : where'[y] = where[y] /\ (y \in Own <=> y \in Own')
    BY <1>1, <2>1 DEF Own
  <2>4. WaitFacts'
    BY <1>1, <1>2, <1>3, <2>1, <2>2, <2>3 DEF WaitInv, WaitFacts
  <2>5. WaitMeansAllDone'
    BY <1>1, <1>2, <1>3, <2>1, <2>3 DEF WaitInv, WaitMeansAllDone
  <2> QED
    BY <2>4, <2>5
<1>4. ASSUME NEW x \in Items, Call(x) PROVE WaitFacts' /\ WaitMeansAllDone'
  BY <1>3, <1>4 DEF Call
<1>5. CASE sendStopEvent
  BY <1>3, <1>5 DEF sendStopEvent, Items, AllEvents
<1>6. CASE UNCHANGED <<where, by, before>> /\ (main' = main \/ (main = "shutdown" /\ main' = "returned")
                                              \/ main' = "panic")
  <2>1. Own' = Own
    BY <1>6 DEF Own
  <2> QED
    BY <1>1, <1>2, <1>6, <2>1 DEF WaitInv, WaitFacts, WaitMeansAllDone
<1>7. ASSUME NEW x \in Items, RequestEnds(x) \/ DispatchLoop(x) PROVE WaitFacts' /\ WaitMeansAllDone'
  BY <1>6, <1>7 DEF RequestEnds, DispatchLoop
<1>8. ASSUME NEW g, EventGoroutine(g) PROVE WaitFacts' /\ WaitMeansAllDone'
  BY <1>6, <1>8 DEF EventGoroutine
<1>9. ASSUME NEW s \in ToSet(Stages), StageEnds(s) PROVE WaitFacts' /\ WaitMeansAllDone'
  BY <1>6, <1>9 DEF StageEnds
<1>10. CASE Cancel \/ StopEventTimeout \/ Returns \/ UNCHANGED vars
  BY <1>6, <1>10 DEF Cancel, StopEventTimeout, Returns, vars
<1>11. ASSUME NEW x \in Items,
              \/ CloudTakes(x) \/ CloudGivesUp(x) \/ handleInstanceInfo(x) \/ updateAndDispatch(x)
              \/ Return(x) \/ SendMap(x)
       PROVE  WaitFacts' /\ WaitMeansAllDone'
  <2>1. /\ UNCHANGED before
        /\ main' \in {main, "woken", "panic"} /\ (main' = "woken" => main \in {"parked", "woken"})
    BY <1>11 DEF CloudTakes, CloudGivesUp, handleInstanceInfo, updateAndDispatch, Return, SendMap,
                 WakeMain
  <2>2. /\ \A y \in Items : y # x => where'[y] = where[y] /\ by'[y] = by[y]
        /\ where'[x] \in {"awaiting", "dropped", "goroutine", "backend", "done"}
        /\ where[x] \in {"cloud", "awaiting", "goroutine", "backend"}
    BY <1>1, <1>11
       DEF CloudTakes, CloudGivesUp, handleInstanceInfo, updateAndDispatch, Return, SendMap, CloudInv
  <2>3. x \in AllEvents => /\ where'[x] = "backend" => pc'[x] # "start"
                           /\ where'[x] = "done" => pc'[x] = "returned"
    BY <1>1, <1>11
       DEF CloudTakes, CloudGivesUp, handleInstanceInfo, updateAndDispatch, Return, SendMap,
           E!DispatchEvent, EventTypes, eventVars
  <2>4. x \in AllEvents /\ x \notin Own =>
            where[x] = "backend" /\ where'[x] \in {"done"} /\ x \notin Own'
    BY <1>1, <1>11, <2>2
       DEF CloudTakes, CloudGivesUp, handleInstanceInfo, updateAndDispatch, Return, SendMap, Own
  <2>5. \A y \in AllEvents : y # x => (y \in Own <=> y \in Own')
    BY <1>1, <2>2 DEF Own
  <2>6. WaitFacts'
    BY <1>1, <1>2, <2>1, <2>2, <2>3, <2>4, <2>5 DEF WaitInv, WaitFacts
  <2>7. WaitMeansAllDone'
    BY <1>1, <1>2, <2>1, <2>2, <2>3, <2>4 DEF WaitInv, WaitFacts, WaitMeansAllDone
  <2> QED
    BY <2>6, <2>7
<1>12. CASE WaitForEvents \/ WaitCloudReturns
  <2>1. /\ UNCHANGED <<pc, where, by>>
        /\ main' \in {"waitBackend", "parked", "panic"} /\ (main' = "waitBackend" => cloudWg = 0)
        /\ before' \subseteq {x \in AllEvents : where[x] # "client"}
    BY <1>1, <1>12 DEF WaitForEvents, WaitCloudReturns, eventVars, WaitInv, WaitFacts
  <2>2. Own' = Own /\ (cloudWg = 0 => Own = {})
    BY <1>1, <2>1, ZeroMeansNone DEF Own
  <2>3. cloudWg = 0 => \A x \in before' : where'[x] \in {"backend", "done", "dropped"}
    BY <1>1, <2>1, <2>2 DEF Own, Places
  <2> QED
    BY <1>1, <2>1, <2>2, <2>3 DEF WaitInv, WaitFacts, WaitMeansAllDone
<1>13. CASE WaitBackend
  <2>1. /\ UNCHANGED <<pc, sending, releasing, eventWg, where, by, before>> /\ main = "waitBackend"
        /\ main' \in {"waitBackend", "shutdown", "panic"} /\ (main' = "shutdown" => eventWg = 0)
    BY <1>13 DEF WaitBackend, E!WaitForEvents, E!WaitReturns, E!callerVars
  <2>2. Own' = Own
    BY <2>1 DEF Own
  <2>3. WaitFacts'
    BY <2>1, <2>2 DEF WaitInv, WaitFacts
  <2>4. eventWg = 0 => \A x \in before : where[x] = "dropped" \/ E!Settled(x)
    BY <1>1, <2>1, ZeroMeansNone DEF WaitInv, WaitFacts
  <2>5. WaitMeansAllDone'
    BY <1>1, <1>2, <2>1, <2>4 DEF WaitMeansAllDone
  <2> QED
    BY <2>3, <2>5
<1> QED
  BY <1>4, <1>5, <1>7, <1>8, <1>9, <1>10, <1>11, <1>12, <1>13 DEF Next, Item, Main, Finished

\* The stages are shut down only when every event that was dispatched before the wait began
\* has been sent to all backends, or given up: the two WaitGroups, waited for one after the
\* other, miss no event on its way from the cloud handler to the backend handler.
THEOREM WaitCoversEverything == Spec => []WaitMeansAllDone
<1>1. WaitInv => WaitMeansAllDone
  BY DEF WaitInv
<1> QED
  BY <1>1, WaitInit, WaitStep, PTL DEF Spec

-----------------------------------------------------------------------------
(* The order in which the stages are shut down                             *)

Quiet(x) == where[x] \notin {"cloud", "backend"}

\* Who has been cancelled, and who has returned.
StageOrder ==
    /\ down \in 0 .. 5
    /\ ended \subseteq {"http", "parser", "cloud", "flusher", "backend"}
    /\ "http" \in ended => down >= 1
    /\ "parser" \in ended => down >= 2
    /\ "cloud" \in ended => down >= 3
    /\ "flusher" \in ended => down >= 4
    /\ "backend" \in ended => down >= 5
    /\ down >= 3 => "parser" \in ended
    /\ down >= 5 => "flusher" \in ended

\* What has returned is in no call, and neither is RunWithCustomSocket when it shuts down.
StageFacts ==
    /\ where \in [Items -> Places]
    /\ by \in [Items -> {"parser", "flusher", "http", "main", "cloud"}]
    /\ \A s \in {"parser", "flusher"} \cap ended : \A x \in Items : by[x] = s => Quiet(x)
    /\ \A x \in Items : by[x] = "main" => x = StopEvent
    /\ by[StopEvent] \in {"main", "cloud"}
    /\ main = "running" => where[StopEvent] = "client"
    /\ down > 0 => main \in {"shutdown", "returned", "panic"}
    /\ main # "running" => where[StopEvent] # "client"
    /\ \A x \in Items : where[x] = "goroutine" => by[x] = "cloud"
    /\ main \notin {"running", "stopEvent"} /\ by[StopEvent] = "main" => Quiet(StopEvent)

StageInv == StageOrder /\ StageFacts

\* The stages are cancelled from the last to the first.
LEMMA StagesAre ==
    /\ Len(Stages) = 5
    /\ ToSet(Stages) = {"http", "parser", "cloud", "flusher", "backend"}
    /\ down \in 0 .. 5 =>
          /\ Cancelled("http") <=> down >= 1
          /\ Cancelled("parser") <=> down >= 2
          /\ Cancelled("cloud") <=> down >= 3
          /\ Cancelled("flusher") <=> down >= 4
          /\ Cancelled("backend") <=> down >= 5
<1>1. /\ Len(Stages) = 5
      /\ DOMAIN Stages = {1, 2, 3, 4, 5}
      /\ Stages[1] = "backend" /\ Stages[2] = "flusher" /\ Stages[3] = "cloud"
      /\ Stages[4] = "parser" /\ Stages[5] = "http"
  BY DEF Stages
<1>2. ToSet(Stages) = {"http", "parser", "cloud", "flusher", "backend"}
  BY <1>1 DEF ToSet
<1>3. down \in 0 .. 5 => \A s : Cancelled(s) <=> \E i \in {1, 2, 3, 4, 5} : Stages[i] = s /\ i > 5 - down
  BY <1>1 DEF Cancelled
<1> QED
  BY <1>1, <1>2, <1>3

\* Nothing has been cancelled when the server runs.
LEMMA StageInit == Init => StageInv
<1> SUFFICES ASSUME Init PROVE StageInv
  OBVIOUS
<1>1. ASSUME NEW x \in Items
      PROVE  x = StopEvent => by[x] = "main"
  BY ItemsAssumption DEF Init, Items, AllEvents
<1>2. ASSUME NEW x \in Items
      PROVE  x # StopEvent => by[x] # "main"
  <2>1. CASE x \in Events
    BY <2>1, ItemsAssumption DEF Init, Items, AllEvents
  <2>2. CASE x \notin Events
    BY <2>2, ItemsAssumption DEF Init, Items, AllEvents
  <2> QED
    BY <2>1, <2>2
<1>3. StopEvent \in Items
  BY DEF Items, AllEvents
<1>4. StageOrder
  BY DEF Init, StageOrder
<1>5. StageFacts
  BY <1>1, <1>2, <1>3 DEF Init, StageFacts, Quiet, Places
<1> QED
  BY <1>4, <1>5 DEF StageInv

\* Each step keeps the order of the stages, and that what has returned is in no call.
LEMMA StageStep == StageInv /\ [Next]_vars => StageInv'
<1> SUFFICES ASSUME StageInv, [Next]_vars PROVE StageInv'
  OBVIOUS
<1> USE DEF StageInv, StageOrder, StageFacts, Quiet, Items, AllEvents, Places
<1>1. ASSUME NEW x \in Items, Dispatch(x), by[x] \notin ended \ {"http"}
      PROVE  /\ StageOrder'
             /\ where' \in [Items -> Places]
             /\ UNCHANGED by
             /\ where'[x] \in {"cloud", "backend"}
             /\ \A y \in Items : y # x => where'[y] = where[y]
             /\ \A s \in {"parser", "flusher"} \cap ended' : \A y \in Items : by'[y] = s => Quiet(y)'
  BY <1>1 DEF Dispatch
<1>2. ASSUME NEW x \in Items, Call(x) PROVE StageInv'
  BY <1>1, <1>2 DEF Call, Dispatch
<1>3. ASSUME NEW x \in Items, RequestEnds(x) PROVE StageInv'
  BY <1>3 DEF RequestEnds
<1>4. ASSUME NEW x \in Items, CloudTakes(x) PROVE StageInv'
  BY <1>4 DEF CloudTakes
<1>5. ASSUME NEW x \in Items, CloudGivesUp(x) PROVE StageInv'
  BY <1>5 DEF CloudGivesUp, WakeMain
<1>6. ASSUME NEW x \in Items, handleInstanceInfo(x) PROVE StageInv'
  BY <1>6 DEF handleInstanceInfo
<1>7. ASSUME NEW x \in Items, updateAndDispatch(x) PROVE StageInv'
  BY <1>7 DEF updateAndDispatch
<1>8. ASSUME NEW x \in Items, DispatchLoop(x) PROVE StageInv'
  BY <1>8 DEF DispatchLoop
<1>9. ASSUME NEW x \in Items, Return(x) PROVE StageInv'
  BY <1>9 DEF Return, WakeMain
<1>10. ASSUME NEW x \in Items, SendMap(x) PROVE StageInv'
  BY <1>10 DEF SendMap
<1>11. ASSUME NEW g, EventGoroutine(g) PROVE StageInv'
  BY <1>11 DEF EventGoroutine
<1>12. CASE sendStopEvent
  <2>1. by[StopEvent] \notin ended \ {"http"}
    BY <1>12 DEF sendStopEvent
  <2> QED
    BY <1>1, <1>12, <2>1 DEF sendStopEvent, Dispatch
<1>13. CASE StopEventTimeout
  BY <1>13 DEF StopEventTimeout
<1>14. CASE WaitForEvents
  BY <1>14 DEF WaitForEvents
<1>15. CASE WaitCloudReturns
  BY <1>15 DEF WaitCloudReturns
<1>16. CASE WaitBackend
  BY <1>16 DEF WaitBackend
<1>17. CASE Cancel
  BY <1>17, StagesAre DEF Cancel
<1>18. ASSUME NEW s \in ToSet(Stages), StageEnds(s) PROVE StageInv'
  <2>1. s \in {"http", "parser", "cloud", "flusher", "backend"}
    BY StagesAre
  <2>2. ended' = ended \cup {s} /\ UNCHANGED <<where, by, main, down>>
    BY <1>18 DEF StageEnds
  <2>3. StageOrder'
    BY <1>18, <2>1, <2>2, StagesAre DEF StageEnds
  <2>4. StageFacts'
    BY <1>18, <2>1, <2>2 DEF StageEnds
  <2> QED
    BY <2>3, <2>4
<1>19. CASE Returns
  BY <1>19 DEF Returns
<1>20. CASE UNCHANGED vars
  BY <1>20 DEF vars
<1> QED
  BY <1>2, <1>3, <1>4, <1>5, <1>6, <1>7, <1>8, <1>9, <1>10, <1>11, <1>12, <1>13, <1>14, <1>15,
     <1>16, <1>17, <1>18, <1>19, <1>20 DEF Next, Item, Main, Finished

\* The order in which the stages return is what keeps a callee up.
LEMMA StageInvImplies == StageInv => CallersOutlived
  BY DEF StageInv, StageOrder, StageFacts, Quiet, CallersOutlived

\* No parser, no flusher and not RunWithCustomSocket waits for, or sends to, a handler whose
\* stage has returned, for any number of items and backends: RunWithCustomSocket starts the
\* callees first and the stager stops them last.
THEOREM StagesOutliveCallers == Spec => []CallersOutlived
<1>1. Init => StageInv
  BY StageInit
<1>2. StageInv /\ [Next]_vars => StageInv'
  BY StageStep
<1>3. StageInv => CallersOutlived
  BY StageInvImplies
<1> QED
  BY <1>1, <1>2, <1>3, PTL DEF Spec
=============================================================================
