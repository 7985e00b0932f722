------------------------ MODULE BackendHandlerProofs ------------------------
(***************************************************************************)
(* Proofs about BackendHandler, for any number of dispatchers, workers,    *)
(* backends and points.                                                    *)
(***************************************************************************)
EXTENDS BackendHandler, FiniteSetTheorems, SequenceTheorems, TLAPS

(* Types.                                                                  *)

\* While Process runs there is a worker left that has not got the command.
ProcessRange == \A c \in Callers : cpc[c] = "process" => cmdSent[c] < NumWorkers

TypeInv == TypeOK /\ ProcessRange

LEMMA TypeInit == Init => TypeInv
<1> SUFFICES ASSUME Init PROVE TypeInv
  OBVIOUS
<1>1. \A S : <<>> \in Seq(S)
  OBVIOUS
<1> QED
  BY <1>1, NumWorkersAssumption DEF Init, TypeInv, TypeOK, ProcessRange, Callers, Feeders

LEMMA TypeStep == TypeInv /\ [Next]_vars => TypeInv'
<1> SUFFICES ASSUME TypeInv, [Next]_vars PROVE TypeInv'
  OBVIOUS
<1> USE NumWorkersAssumption DEF TypeInv, TypeOK, ProcessRange, Callers, Feeders, feedVars,
        workerVars, callerVars, sendVars
<1>1. ASSUME NEW d \in Dispatchers, NEW mm \in SUBSET Points, DispatchStart(d, mm)
      PROVE  TypeInv'
  BY <1>1, Zenon DEF DispatchStart
<1>2. ASSUME NEW d \in Dispatchers, DispatcherStop(d) PROVE TypeInv'
  BY <1>2 DEF DispatcherStop
<1>3. ASSUME NEW d \in Feeders, DispatchQueue(d) PROVE TypeInv'
  <2>1. Part(d) \in SUBSET Points
    BY DEF Part
  <2>2. queue' \in [Workers -> Seq(SUBSET Points)]
    <3>1. queue' = [queue EXCEPT ![Target(d)] = Append(@, Part(d))]
      BY <1>3 DEF DispatchQueue
    <3>2. ASSUME NEW w \in Workers PROVE queue'[w] \in Seq(SUBSET Points)
      <4>1. Append(queue[w], Part(d)) \in Seq(SUBSET Points)
        BY <2>1
      <4> QED
        BY <3>1, <4>1
    <3> QED
      BY <3>1, <3>2, Zenon
  <2> QED
    BY <1>3, <2>2, Zenon DEF DispatchQueue
<1>4. ASSUME NEW d \in Feeders, DispatchDone(d) PROVE TypeInv'
  BY <1>4, Zenon DEF DispatchDone, Part
<1>5. ASSUME NEW w \in Workers, WorkerReceive(w) PROVE TypeInv'
  <2>1. Head(queue[w]) \in SUBSET Points /\ Tail(queue[w]) \in Seq(SUBSET Points)
    BY <1>5 DEF WorkerReceive
  <2> QED
    BY <1>5, <2>1, Zenon DEF WorkerReceive
<1>6. ASSUME NEW w \in Workers, WorkerReturn(w) PROVE TypeInv'
  BY <1>6 DEF WorkerReturn
<1>7. ASSUME NEW w \in Workers, WorkerFlush(w) PROVE TypeInv'
  BY <1>7, BackendsAssumption, FS_CardinalityType DEF WorkerFlush
<1>8. ASSUME NEW w \in Workers, NEW b \in Backends, WorkerSend(w, b) PROVE TypeInv'
  BY <1>8 DEF WorkerSend
<1>9. ASSUME NEW w \in Workers, WorkerReset(w) PROVE TypeInv'
  BY <1>9 DEF WorkerReset
<1>10. ASSUME NEW w \in Workers, WorkerAttach(w) PROVE TypeInv'
  BY <1>10 DEF WorkerAttach
<1>11. ASSUME NEW w \in Workers, NEW b \in Backends, Callback(w, b) PROVE TypeInv'
  BY <1>11 DEF Callback
<1>12. ASSUME NEW mm \in SUBSET Points, FlusherTick(mm) PROVE TypeInv'
  BY <1>12, Zenon DEF FlusherTick
<1>13. ASSUME NEW c \in Callers, ProcessStart(c) PROVE TypeInv'
  BY <1>13 DEF ProcessStart
<1>14. ASSUME NEW c \in Callers, ProcessSend(c) PROVE TypeInv'
  <2>1. cmdSent[c] + 1 \in Workers
    BY <1>14 DEF ProcessSend, Workers
  <2>2. /\ wpc' \in [Workers -> {"select", "execute", "send", "returned"}]
        /\ cmd' \in [Workers -> Callers \cup {"none"}]
        /\ UNCHANGED <<feedVars, queue, aggr, toSend, wg, sendVars, closed, phase>>
    BY <1>14, Zenon DEF ProcessSend
  <2>3. /\ cpc' \in [Callers -> {"idle", "notify", "process", "wait", "sendwait", "returned"}]
        /\ cmdSent' \in [Callers -> 0..NumWorkers]
    BY <1>14, <2>1 DEF ProcessSend, Workers
  <2>4. ProcessRange'
    BY <1>14, <2>1, <2>3 DEF ProcessSend, Workers
  <2> QED
    BY <2>2, <2>3, <2>4, Zenon
<1>15. ASSUME NEW c \in Callers, ProcessDone(c) PROVE TypeInv'
  BY <1>15 DEF ProcessDone
<1>16. ASSUME NEW c \in Callers, CallerReturn(c) PROVE TypeInv'
  BY <1>16, Zenon DEF CallerReturn
<1>17. CASE ProcessWait
  BY <1>17, Zenon DEF ProcessWait
<1>18. CASE SendWait
  BY <1>18, Zenon DEF SendWait
<1>19. CASE StagerCancel
  BY <1>19 DEF StagerCancel, StageEmpty
<1>20. ASSUME NEW w \in Workers, RunClose(w) PROVE TypeInv'
  BY <1>20, Zenon DEF RunClose
<1>21. CASE UNCHANGED vars
  BY <1>21 DEF vars
<1> QED
  BY <1>1, <1>2, <1>3, <1>4, <1>5, <1>6, <1>7, <1>8, <1>9, <1>10, <1>11, <1>12, <1>13,
     <1>14, <1>15, <1>16, <1>17, <1>18, <1>19, <1>20, <1>21, Zenon
     DEF Next, Feeder, Worker, Caller, Finished

\* The state of the handler has its types, for any number of workers.
THEOREM TypeCorrect == Spec => []TypeInv
<1>1. Init => TypeInv
  BY TypeInit
<1>2. TypeInv /\ [Next]_vars => TypeInv'
  BY TypeStep
<1> QED
  BY <1>1, <1>2, PTL DEF Spec
-----------------------------------------------------------------------------
(* The invariant about the shutdown.                                       *)

StageInv ==
    /\ \A d \in Dispatchers : rest[d] # {} => d \in running
    /\ rest["flusher"] # {} => cpc["flusher"] = "notify"
    /\ phase >= 2 => running = {}
    /\ phase >= 3 => cpc["flusher"] = "returned"
    /\ closed # {} => phase = 4

LEMMA StageStep == TypeInv /\ StageInv /\ [Next]_vars => StageInv'
<1> SUFFICES ASSUME TypeInv, StageInv, [Next]_vars PROVE StageInv'
  OBVIOUS
<1> USE FeedersAssumption DEF TypeInv, TypeOK, StageInv, Callers, Feeders, feedVars,
        callerVars
<1>1. ASSUME NEW d \in Dispatchers, NEW mm \in SUBSET Points, DispatchStart(d, mm)
      PROVE  StageInv'
  BY <1>1 DEF DispatchStart
<1>2. ASSUME NEW d \in Dispatchers, DispatcherStop(d) PROVE StageInv'
  BY <1>2 DEF DispatcherStop
<1>3. ASSUME NEW d \in Feeders, Feeder(d) PROVE StageInv'
  BY <1>3, Zenon DEF Feeder, DispatchQueue, DispatchDone
<1>4. ASSUME NEW w \in Workers, Worker(w) PROVE StageInv'
  BY <1>4, Zenon DEF Worker, WorkerReceive, WorkerReturn, WorkerFlush, WorkerSend, WorkerReset,
              WorkerAttach
<1>5. ASSUME NEW w \in Workers, NEW b \in Backends, Callback(w, b) PROVE StageInv'
  BY <1>5 DEF Callback
<1>6. ASSUME NEW mm \in SUBSET Points, FlusherTick(mm) PROVE StageInv'
  BY <1>6 DEF FlusherTick
<1>7. ASSUME NEW c \in Callers, Caller(c) PROVE StageInv'
  BY <1>7 DEF Caller, ProcessStart, ProcessSend, ProcessDone, CallerReturn
<1>8. CASE ProcessWait \/ SendWait
  BY <1>8, Zenon DEF ProcessWait, SendWait
<1>9. CASE StagerCancel
  BY <1>9 DEF StagerCancel, StageEmpty
<1>10. ASSUME NEW w \in Workers, RunClose(w) PROVE StageInv'
  BY <1>10 DEF RunClose, Done
<1>11. CASE UNCHANGED vars
  BY <1>11 DEF vars
<1> QED
  BY <1>1, <1>2, <1>3, <1>4, <1>5, <1>6, <1>7, <1>8, <1>9, <1>10, <1>11, Zenon DEF Next, Finished

\* The stages end in order, each without anything left to dispatch.
LEMMA ShutdownStages == Spec => []StageInv
<1>1. Init => StageInv
  BY FeedersAssumption DEF Init, StageInv, Feeders, Callers
<1>2. TypeInv /\ StageInv /\ [Next]_vars => StageInv'
  BY StageStep
<1> QED
  BY <1>1, <1>2, TypeCorrect, PTL DEF Spec

\* No goroutine sends on a queue that Run has closed, whatever the number of
\* dispatchers and however the shutdown interleaves with what they still have
\* to queue: when the first queue is closed nothing is left to dispatch.
THEOREM ClosedQueuesAreQuiet == Spec => []NoSendOnClosed
<1>1. TypeInv /\ StageInv => NoSendOnClosed
  <2> SUFFICES ASSUME TypeInv, StageInv, NEW d \in Feeders, rest[d] # {}, closed # {}
               PROVE  FALSE
    BY DEF NoSendOnClosed
  <2>1. running = {} /\ cpc["flusher"] = "returned"
    BY DEF TypeInv, TypeOK, StageInv
  <2>2. d \notin Dispatchers
    BY <2>1 DEF StageInv
  <2>3. d # "flusher"
    BY <2>1 DEF StageInv
  <2> QED
    BY <2>2, <2>3 DEF Feeders
<1> QED
  BY <1>1, ShutdownStages, TypeCorrect, PTL
-----------------------------------------------------------------------------
(* The invariant about flushes.                                            *)

\* The sends that sendWg counts: those in progress and those a worker still
\* has to start.
Outstanding ==
    callbacks \cup {x \in Workers \X Backends : x[2] \in toSend[x[1]]}

\* A worker has a command exactly while it executes one; only flushData's
\* function sends.
CommandOfWorker ==
    \A w \in Workers :
        /\ cmd[w] = "none" <=> wpc[w] \in {"select", "returned"}
        /\ cmd[w] = "metrics" => wpc[w] = "execute"
        /\ toSend[w] # {} => wpc[w] = "send"

\* The command of the flusher is with the first cmdSent workers only, each gets
\* it once, and what they send belongs to this flush.
OneCommandEach ==
    /\ \A w \in Workers : cmd[w] = "flusher" =>
           /\ w <= cmdSent["flusher"]
           /\ cpc["flusher"] \in {"process", "wait"}
    /\ \A x \in callbacks :
           /\ x[1] <= cmdSent["flusher"]
           /\ cpc["flusher"] \in {"process", "wait", "sendwait"}
           /\ ~(cmd[x[1]] = "flusher" /\ wpc[x[1]] = "execute")
           /\ x[2] \notin toSend[x[1]]

FlushInv ==
    /\ CommandOfWorker
    /\ ProcessWaitGroup
    /\ OneCommandEach
    /\ sendWg = Cardinality(Outstanding)

LEMMA FiniteWorkers == \A S \in SUBSET Workers : IsFiniteSet(S)
<1>1. IsFiniteSet(Workers)
  BY FS_Interval, NumWorkersAssumption DEF Workers
<1> QED
  BY <1>1, FS_Subset

LEMMA FiniteSends == \A S \in SUBSET (Workers \X Backends) : IsFiniteSet(S)
<1>1. IsFiniteSet(Workers \X Backends)
  BY FiniteWorkers, BackendsAssumption, FS_Product
<1> QED
  BY <1>1, FS_Subset

\* wg.Add(len(f.backends)): one more for every backend of the worker.
LEMMA SendsOfWorker ==
  ASSUME NEW w \in Workers, NEW S \in SUBSET (Workers \X Backends),
         \A b \in Backends : <<w, b>> \notin S
  PROVE  Cardinality(S \cup ({w} \X Backends)) = Cardinality(S) + Cardinality(Backends)
<1> DEFINE T == {w} \X Backends
<1>1. IsFiniteSet({w}) /\ Cardinality({w}) = 1
  BY FS_Singleton, Zenon
<1>2. IsFiniteSet(T) /\ Cardinality(T) = Cardinality({w}) * Cardinality(Backends)
  BY <1>1, FS_Product, BackendsAssumption
<1>3. IsFiniteSet(S) /\ Cardinality(S) \in Nat /\ Cardinality(Backends) \in Nat
  BY FiniteSends, FS_CardinalityType, BackendsAssumption
<1>4. S \cap T = {}
  OBVIOUS
<1> HIDE DEF T
<1>5. Cardinality(T) = Cardinality(Backends)
  BY <1>1, <1>2, <1>3
<1>6. Cardinality(S \cup T) = Cardinality(S) + Cardinality(T) - Cardinality(S \cap T)
  BY <1>2, <1>3, FS_Union
<1>7. Cardinality(S \cap T) = 0
  BY <1>4, FS_EmptySet
<1> QED
  BY <1>3, <1>5, <1>6, <1>7 DEF T

\* A step that touches neither commands nor WaitGroups.
LEMMA WaitGroupStays ==
  ASSUME ProcessWaitGroup, UNCHANGED <<cmd, wg, cmdSent>>,
         \A c \in Callers : cpc'[c] = "process" <=> cpc[c] = "process"
  PROVE  ProcessWaitGroup'
<1>1. \A c \in Callers : Executing(c)' = Executing(c)
  BY DEF Executing
<1> QED
  BY <1>1 DEF ProcessWaitGroup

LEMMA FlushStep == TypeInv /\ FlushInv /\ [Next]_vars => FlushInv'
<1> SUFFICES ASSUME TypeInv, FlushInv, [Next]_vars PROVE FlushInv'
  OBVIOUS
<1> USE DEF Callers
<1>t. /\ wpc \in [Workers -> {"select", "execute", "send", "returned"}]
      /\ cmd \in [Workers -> Callers \cup {"none"}]
      /\ toSend \in [Workers -> SUBSET Backends]
      /\ cpc \in [Callers -> {"idle", "notify", "process", "wait", "sendwait", "returned"}]
      /\ cmdSent \in [Callers -> 0..NumWorkers]
      /\ wg \in [Callers -> Int]
      /\ sendWg \in Int
      /\ callbacks \in SUBSET (Workers \X Backends)
      /\ NumWorkers \in Nat
  BY NumWorkersAssumption DEF TypeInv, TypeOK
<1>e. \A c \in Callers : /\ Executing(c) \in SUBSET Workers
                         /\ IsFiniteSet(Executing(c))
                         /\ Cardinality(Executing(c)) \in Nat
  BY FiniteWorkers, FS_CardinalityType DEF Executing
<1>o. /\ Outstanding \in SUBSET (Workers \X Backends)
      /\ IsFiniteSet(Outstanding)
      /\ Cardinality(Outstanding) \in Nat
  <2>1. Outstanding \in SUBSET (Workers \X Backends)
    BY <1>t DEF Outstanding
  <2> QED
    BY <2>1, FiniteSends, FS_CardinalityType
<1>i. CommandOfWorker /\ ProcessWaitGroup /\ OneCommandEach /\ sendWg = Cardinality(Outstanding)
  BY DEF FlushInv
<1>1. CASE UNCHANGED <<wpc, cmd, toSend, cpc, cmdSent, wg, sendWg, callbacks>>
  BY <1>1, <1>i DEF FlushInv, CommandOfWorker, ProcessWaitGroup, OneCommandEach, Outstanding,
                    Executing
<1>2. ASSUME NEW w \in Workers, WorkerReturn(w) PROVE FlushInv'
  <2> USE <1>2, <1>t, <1>i DEF WorkerReturn, callerVars, sendVars
  <2>1. CommandOfWorker'
    BY Zenon DEF CommandOfWorker
  <2>2. ProcessWaitGroup'
    BY WaitGroupStays
  <2>3. OneCommandEach'
    BY DEF OneCommandEach
  <2>4. (sendWg = Cardinality(Outstanding))'
    BY DEF Outstanding
  <2> QED
    BY <2>1, <2>2, <2>3, <2>4, Zenon DEF FlushInv
<1>3. ASSUME NEW w \in Workers, WorkerFlush(w) PROVE FlushInv'
  <2> USE <1>3, <1>t, <1>i DEF WorkerFlush, callerVars
  <2>1. CommandOfWorker'
    BY DEF CommandOfWorker
  <2>2. ProcessWaitGroup'
    BY WaitGroupStays
  <2>3. OneCommandEach'
    BY DEF OneCommandEach
  <2>4. (sendWg = Cardinality(Outstanding))'
    <3>1. \A b \in Backends : <<w, b>> \notin Outstanding
      <4>1. toSend[w] = {}
        BY DEF CommandOfWorker
      <4>2. \A b \in Backends : <<w, b>> \notin callbacks
        BY Zenon DEF OneCommandEach
      <4> QED
        BY <4>1, <4>2, Zenon DEF Outstanding
    <3>2. Outstanding' = Outstanding \cup ({w} \X Backends)
      BY <1>t DEF Outstanding
    <3> QED
      BY <3>1, <3>2, <1>o, SendsOfWorker, Zenon
  <2> QED
    BY <2>1, <2>2, <2>3, <2>4 DEF FlushInv
<1>4. ASSUME NEW w \in Workers, NEW b \in Backends, WorkerSend(w, b) PROVE FlushInv'
  <2> USE <1>4, <1>t, <1>i DEF WorkerSend, callerVars
  <2>1. CommandOfWorker'
    BY Zenon DEF CommandOfWorker
  <2>2. ProcessWaitGroup'
    BY WaitGroupStays, Zenon
  <2>3. OneCommandEach'
    <3>1. cmd[w] = "flusher"
      BY Zenon DEF CommandOfWorker
    <3> QED
      BY <3>1 DEF OneCommandEach
  <2>4. (sendWg = Cardinality(Outstanding))'
    <3>1. Outstanding' = Outstanding
      BY DEF Outstanding
    <3> QED
      BY <3>1, Zenon
  <2> QED
    BY <2>1, <2>2, <2>3, <2>4, Zenon DEF FlushInv

<1>5. ASSUME NEW w \in Workers, WorkerReset(w) PROVE FlushInv'
  <2> USE <1>5, <1>t, <1>i DEF WorkerReset, sendVars
  <2>1. CommandOfWorker'
    BY DEF CommandOfWorker
  <2>2. ProcessWaitGroup'
    <3>1. cmd[w] = "flusher"
      BY DEF CommandOfWorker
    <3>2. /\ Executing("flusher")' = Executing("flusher") \ {w}
          /\ w \in Executing("flusher")
          /\ Executing("metrics")' = Executing("metrics")
      BY <3>1 DEF Executing
    <3>3. Cardinality(Executing("flusher"))' = Cardinality(Executing("flusher")) - 1
      BY <3>2, <1>e, FS_RemoveElement
    <3> QED
      BY <3>2, <3>3, <1>e DEF ProcessWaitGroup
  <2>3. OneCommandEach'
    BY DEF OneCommandEach
  <2>4. (sendWg = Cardinality(Outstanding))'
    BY Zenon DEF Outstanding
  <2> QED
    BY <2>1, <2>2, <2>3, <2>4 DEF FlushInv
<1>6. ASSUME NEW w \in Workers, WorkerAttach(w) PROVE FlushInv'
  <2> USE <1>6, <1>t, <1>i DEF WorkerAttach, sendVars
  <2>1. CommandOfWorker'
    BY DEF CommandOfWorker
  <2>2. ProcessWaitGroup'
    <3>1. /\ Executing("metrics")' = Executing("metrics") \ {w}
          /\ w \in Executing("metrics")
          /\ Executing("flusher")' = Executing("flusher")
      BY Zenon DEF Executing
    <3>2. Cardinality(Executing("metrics"))' = Cardinality(Executing("metrics")) - 1
      BY <3>1, <1>e, FS_RemoveElement
    <3> QED
      BY <3>1, <3>2, <1>e DEF ProcessWaitGroup
  <2>3. OneCommandEach'
    BY DEF OneCommandEach
  <2>4. (sendWg = Cardinality(Outstanding))'
    BY Zenon DEF Outstanding
  <2> QED
    BY <2>1, <2>2, <2>3, <2>4, Zenon DEF FlushInv
<1>7. ASSUME NEW w \in Workers, NEW b \in Backends, Callback(w, b) PROVE FlushInv'
  <2> USE <1>7, <1>t, <1>i DEF Callback, callerVars, workerVars
  <2>1. CommandOfWorker'
    BY Zenon DEF CommandOfWorker
  <2>2. ProcessWaitGroup'
    BY WaitGroupStays
  <2>3. OneCommandEach'
    BY Zenon DEF OneCommandEach
  <2>4. (sendWg = Cardinality(Outstanding))'
    <3>1. b \notin toSend[w]
      BY DEF OneCommandEach
    <3>2. Outstanding' = Outstanding \ {<<w, b>>} /\ <<w, b>> \in Outstanding
      BY <3>1 DEF Outstanding
    <3>3. Cardinality(Outstanding') = Cardinality(Outstanding) - 1
      BY ONLY <3>2, <1>o, FS_RemoveElement, Zenon
    <3> QED
      BY <3>3, Zenon
  <2> QED
    BY <2>1, <2>2, <2>3, <2>4, Zenon DEF FlushInv
<1>8. ASSUME NEW mm \in SUBSET Points, FlusherTick(mm) PROVE FlushInv'
  <2> USE <1>8, <1>t, <1>i DEF FlusherTick, workerVars, sendVars
  <2>1. CommandOfWorker'
    BY Zenon DEF CommandOfWorker
  <2>2. ProcessWaitGroup'
    BY WaitGroupStays
  <2>3. OneCommandEach'
    BY DEF OneCommandEach
  <2>4. (sendWg = Cardinality(Outstanding))'
    BY DEF Outstanding
  <2> QED
    BY <2>1, <2>2, <2>3, <2>4 DEF FlushInv
<1>9. ASSUME NEW c \in Callers, ProcessStart(c) PROVE FlushInv'
  <2> USE <1>9, <1>t, <1>i DEF ProcessStart, workerVars, sendVars
  <2>1. CommandOfWorker'
    BY Zenon DEF CommandOfWorker
  <2>2. ProcessWaitGroup'
    <3>1. \A k \in Callers : Executing(k)' = Executing(k)
      BY Zenon DEF Executing
    <3> QED
      BY <3>1, <1>e DEF ProcessWaitGroup
  <2>3. OneCommandEach'
    BY Zenon DEF OneCommandEach
  <2>4. (sendWg = Cardinality(Outstanding))'
    BY Zenon DEF Outstanding
  <2> QED
    BY <2>1, <2>2, <2>3, <2>4, Zenon DEF FlushInv
<1>10. ASSUME NEW c \in Callers, ProcessSend(c) PROVE FlushInv'
  <2>w. PICK w \in Workers :
          /\ w = cmdSent[c] + 1
          /\ cpc[c] = "process"
          /\ wpc[w] = "select"
          /\ cmd[w] = "none"
          /\ wpc' = [wpc EXCEPT ![w] = "execute"]
          /\ cmd' = [cmd EXCEPT ![w] = c]
          /\ cmdSent' = [cmdSent EXCEPT ![c] = w]
          /\ cpc' = [cpc EXCEPT ![c] = IF w = NumWorkers THEN "wait" ELSE "process"]
          /\ UNCHANGED <<toSend, wg, sendWg, callbacks>>
    <3>1. cmdSent[c] + 1 \in Workers
      BY <1>10, <1>t DEF ProcessSend, TypeInv, ProcessRange, Workers
    <3> QED
      BY <3>1, <1>10, <1>i, Zenon DEF ProcessSend, CommandOfWorker, sendVars
  <2>1. CommandOfWorker'
    BY <2>w, <1>t, <1>i DEF CommandOfWorker
  <2>2. ProcessWaitGroup'
    <3>1. /\ Executing(c)' = Executing(c) \cup {w}
          /\ w \notin Executing(c)
          /\ \A k \in Callers \ {c} : Executing(k)' = Executing(k)
      BY <2>w, <1>t DEF Executing
    <3>2. Cardinality(Executing(c)') = Cardinality(Executing(c)) + 1
      <4>1. IsFiniteSet(Executing(c))
        BY <1>e
      <4>2. Cardinality(Executing(c) \cup {w}) = Cardinality(Executing(c)) + 1
        BY ONLY <3>1, <4>1, FS_AddElement
      <4> QED
        BY ONLY <3>1, <4>2, Zenon
    <3>3. ASSUME NEW k \in Callers
          PROVE  wg'[k] = Cardinality(Executing(k)')
                          + IF cpc'[k] = "process" THEN NumWorkers - cmdSent'[k] ELSE 0
      <4>1. CASE k = c
        BY <4>1, <3>2, <2>w, <1>e, <1>t, <1>i DEF ProcessWaitGroup
      <4>2. CASE k # c
        BY <4>2, <3>1, <2>w, <1>t, <1>i DEF ProcessWaitGroup
      <4> QED
        BY <4>1, <4>2
    <3> QED
      BY <3>3 DEF ProcessWaitGroup
  <2>3. OneCommandEach'
    BY <2>w, <1>t, <1>i DEF OneCommandEach, Workers
  <2>4. (sendWg = Cardinality(Outstanding))'
    BY <2>w, <1>i DEF Outstanding
  <2> QED
    BY <2>1, <2>2, <2>3, <2>4 DEF FlushInv
<1>11. ASSUME NEW c \in Callers, ProcessDone(c) PROVE FlushInv'
  <2> USE <1>11, <1>t, <1>i DEF ProcessDone, workerVars, sendVars
  <2>1. CommandOfWorker'
    BY Zenon DEF CommandOfWorker
  <2>2. ProcessWaitGroup'
    <3>1. \A k \in Callers : Executing(k)' = Executing(k)
      BY Zenon DEF Executing
    <3> QED
      BY <3>1, <1>e DEF ProcessWaitGroup
  <2>3. OneCommandEach'
    BY Zenon DEF OneCommandEach
  <2>4. (sendWg = Cardinality(Outstanding))'
    BY Zenon DEF Outstanding
  <2> QED
    BY <2>1, <2>2, <2>3, <2>4 DEF FlushInv
<1>12. ASSUME NEW c \in Callers, CallerReturn(c) PROVE FlushInv'
  <2> USE <1>12, <1>t, <1>i DEF CallerReturn, workerVars, sendVars
  <2>1. CommandOfWorker'
    BY Zenon DEF CommandOfWorker
  <2>2. ProcessWaitGroup'
    BY WaitGroupStays, Zenon
  <2>3. OneCommandEach'
    BY Zenon DEF OneCommandEach
  <2>4. (sendWg = Cardinality(Outstanding))'
    BY Zenon DEF Outstanding
  <2> QED
    BY <2>1, <2>2, <2>3, <2>4, Zenon DEF FlushInv
<1>13. CASE ProcessWait
  <2> USE <1>13, <1>t, <1>i DEF ProcessWait, workerVars, sendVars
  <2>1. CommandOfWorker'
    BY Zenon DEF CommandOfWorker
  <2>2. ProcessWaitGroup'
    BY WaitGroupStays, Zenon
  <2>3. OneCommandEach'
    <3>1. Cardinality(Executing("flusher")) = 0
      BY <1>e DEF ProcessWaitGroup
    <3>2. Executing("flusher") = {}
      BY ONLY <3>1, <1>e, FS_EmptySet DEF Callers
    <3>3. \A w \in Workers : cmd[w] # "flusher"
      BY <3>2, Zenon DEF Executing
    <3> QED
      BY <3>3, Zenon DEF OneCommandEach
  <2>4. (sendWg = Cardinality(Outstanding))'
    BY Zenon DEF Outstanding
  <2> QED
    BY <2>1, <2>2, <2>3, <2>4, Zenon DEF FlushInv
<1>14. CASE SendWait
  <2> USE <1>14, <1>t, <1>i DEF SendWait, workerVars, sendVars
  <2>1. CommandOfWorker'
    BY Zenon DEF CommandOfWorker
  <2>2. ProcessWaitGroup'
    BY WaitGroupStays, Zenon
  <2>3. OneCommandEach'
    <3>1. callbacks = {}
      BY <1>o, FS_EmptySet DEF Outstanding
    <3> QED
      BY <3>1, Zenon DEF OneCommandEach
  <2>4. (sendWg = Cardinality(Outstanding))'
    BY Zenon DEF Outstanding
  <2> QED
    BY <2>1, <2>2, <2>3, <2>4, Zenon DEF FlushInv
<1>15. CASE \/ \E d \in Dispatchers, mm \in SUBSET Points : DispatchStart(d, mm)
            \/ \E d \in Dispatchers : DispatcherStop(d)
            \/ \E d \in Feeders : Feeder(d)
            \/ \E w \in Workers : WorkerReceive(w)
            \/ StagerCancel
            \/ \E w \in Workers : RunClose(w)
            \/ UNCHANGED vars
  BY <1>1, <1>15, Zenon DEF DispatchStart, DispatcherStop, Feeder, DispatchQueue, DispatchDone,
     WorkerReceive, StagerCancel, RunClose, vars, workerVars, callerVars, sendVars
<1> QED
  BY <1>2, <1>3, <1>4, <1>5, <1>6, <1>7, <1>8, <1>9, <1>10, <1>11, <1>12, <1>13, <1>14, <1>15, Zenon
     DEF Next, Worker, Caller, Finished

\* The WaitGroup that Process returns counts exactly the commands that are not
\* done, and when flushData has returned no worker is in its function and no
\* backend is sending, for any number of workers and backends.
THEOREM FlushesAreSeparate == Spec => []FlushesDoNotOverlap
<1>1. Init => FlushInv
  <2> SUFFICES ASSUME Init PROVE FlushInv
    OBVIOUS
  <2>1. Outstanding = {} /\ \A c \in Callers : Executing(c) = {}
    BY DEF Init, Outstanding, Executing, Callers
  <2>2. Cardinality(Outstanding) = 0 /\ \A c \in Callers : Cardinality(Executing(c)) = 0
    BY <2>1, FS_EmptySet
  <2>3. CommandOfWorker /\ OneCommandEach
    BY DEF Init, CommandOfWorker, OneCommandEach, Callers
  <2>4. ProcessWaitGroup
    BY <2>2 DEF Init, ProcessWaitGroup
  <2> QED
    BY <2>2, <2>3, <2>4 DEF Init, FlushInv
<1>2. TypeInv /\ FlushInv /\ [Next]_vars => FlushInv'
  BY FlushStep
<1>3. TypeInv /\ FlushInv => FlushesDoNotOverlap
  BY Zenon DEF FlushInv, FlushesDoNotOverlap, OneCommandEach, Executing, TypeInv, TypeOK
<1> QED
  BY <1>1, <1>2, <1>3, TypeCorrect, PTL DEF Spec
-----------------------------------------------------------------------------
(* The invariant about points.                                             *)

\* A point is in one of the maps of a queue; it is in no two of them.
In(p, q) == \E i \in 1..Len(q) : p \in q[i]
Once(p, q) == \A i, j \in 1..Len(q) : p \in q[i] /\ p \in q[j] => i = j

Fed(p) == \E d \in Feeders : p \in rest[d]
Queued(p) == \E w \in Workers : In(p, queue[w])
Aggregated(p) == \E w \in Workers : p \in aggr[w]

\* A point is with one feeder, or in one map of the queue of its worker, or in
\* the aggregator of its worker, or dropped.
OnePlace(p) ==
    /\ \A d, e \in Feeders : p \in rest[d] /\ p \in rest[e] => d = e
    /\ \A w \in Workers : /\ In(p, queue[w]) => Bucket[p] = w
                          /\ Once(p, queue[w])
                          /\ p \in aggr[w] => Bucket[p] = w
    /\ Fed(p) => ~Queued(p) /\ ~Aggregated(p)
    /\ Queued(p) => ~Aggregated(p)
    /\ p \in dropped => ~Fed(p) /\ ~Queued(p) /\ ~Aggregated(p)
    /\ Fed(p) \/ Queued(p) \/ Aggregated(p) \/ p \in dropped => p \in submitted

\* How often a backend has been handed a point, by where the point is.
DeliveredByPlace(p) ==
    \A b \in Backends :
        /\ p \notin submitted \/ p \in dropped \/ Fed(p) \/ Queued(p) => delivered[b][p] = 0
        /\ \A w \in Workers : p \in aggr[w] =>
            delivered[b][p] = IF wpc[w] = "send" /\ b \notin toSend[w] THEN 1 ELSE 0
        /\ p \in submitted /\ p \notin dropped /\ ~Fed(p) /\ ~Queued(p) /\ ~Aggregated(p)
            => delivered[b][p] = 1

PointInv == \A p \in Points : OnePlace(p) /\ DeliveredByPlace(p)

\* metricMapQueue <- mm
LEMMA InAppend ==
  ASSUME NEW q \in Seq(SUBSET Points), NEW m \in SUBSET Points, NEW p
  PROVE  /\ In(p, Append(q, m)) <=> In(p, q) \/ p \in m
         /\ Once(p, q) /\ ~(In(p, q) /\ p \in m) => Once(p, Append(q, m))
<1> DEFINE t == Append(q, m)
<1>1. /\ Len(q) \in Nat
      /\ Len(t) = Len(q) + 1
      /\ t[Len(q) + 1] = m
      /\ \A i \in 1..Len(q) : t[i] = q[i]
  OBVIOUS
<1> HIDE DEF t
<1>2. In(p, t) <=> In(p, q) \/ p \in m
  <2>1. ASSUME In(p, t) PROVE In(p, q) \/ p \in m
    BY <2>1, <1>1 DEF In
  <2>2. ASSUME In(p, q) PROVE In(p, t)
    BY <2>2, <1>1 DEF In
  <2>3. ASSUME p \in m PROVE In(p, t)
    BY <2>3, <1>1 DEF In
  <2> QED
    BY <2>1, <2>2, <2>3
<1>3. ASSUME Once(p, q), ~(In(p, q) /\ p \in m) PROVE Once(p, t)
  BY <1>1, <1>3 DEF In, Once
<1> QED
  BY <1>2, <1>3 DEF t

\* mm := <-metricMapQueue
LEMMA InTail ==
  ASSUME NEW q \in Seq(SUBSET Points), q # <<>>, NEW p
  PROVE  /\ In(p, q) <=> p \in Head(q) \/ In(p, Tail(q))
         /\ Once(p, q) => Once(p, Tail(q)) /\ ~(p \in Head(q) /\ In(p, Tail(q)))
<1> DEFINE t == Tail(q)
<1>1. /\ Len(q) \in Nat \ {0}
      /\ Len(t) = Len(q) - 1
      /\ Head(q) = q[1]
      /\ \A i \in 1..Len(t) : t[i] = q[i + 1]
  OBVIOUS
<1> HIDE DEF t
<1>2. In(p, q) <=> p \in Head(q) \/ In(p, t)
  <2>1. ASSUME In(p, q) PROVE p \in Head(q) \/ In(p, t)
    <3>1. PICK i \in 1..Len(q) : p \in q[i]
      BY <2>1 DEF In
    <3>2. CASE i = 1
      BY <3>1, <3>2, <1>1
    <3>3. CASE i # 1
      <4>1. i - 1 \in 1..Len(t) /\ p \in t[i - 1]
        BY <3>1, <3>3, <1>1
      <4> QED
        BY <4>1 DEF In
    <3> QED
      BY <3>2, <3>3
  <2>2. ASSUME p \in Head(q) PROVE In(p, q)
    BY <2>2, <1>1 DEF In
  <2>3. ASSUME In(p, t) PROVE In(p, q)
    <3>1. PICK i \in 1..Len(t) : p \in t[i]
      BY <2>3, Zenon DEF In
    <3>2. i + 1 \in 1..Len(q) /\ p \in q[i + 1]
      BY <3>1, <1>1
    <3> QED
      BY <3>2 DEF In
  <2> QED
    BY <2>1, <2>2, <2>3
<1>3. ASSUME Once(p, q) PROVE Once(p, t) /\ ~(p \in Head(q) /\ In(p, t))
  <2>1. ASSUME NEW i \in 1..Len(t), NEW k \in 1..Len(t), p \in t[i], p \in t[k] PROVE i = k
    <3>1. i + 1 \in 1..Len(q) /\ k + 1 \in 1..Len(q) /\ p \in q[i + 1] /\ p \in q[k + 1]
      BY <2>1, <1>1
    <3>2. i + 1 = k + 1
      BY <3>1, <1>3 DEF Once
    <3> QED
      BY <3>2, <1>1
  <2>2. ASSUME p \in Head(q), NEW i \in 1..Len(t), p \in t[i] PROVE FALSE
    <3>1. 1 \in 1..Len(q) /\ p \in q[1] /\ i + 1 \in 1..Len(q) /\ p \in q[i + 1]
      BY <2>2, <1>1
    <3>2. 1 = i + 1
      BY <3>1, <1>3 DEF Once
    <3> QED
      BY <3>2, <1>1
  <2> QED
    BY <2>1, <2>2, Zenon DEF Once, In
<1> QED
  BY <1>2, <1>3 DEF t

\* What a step does to a point that stays where it is.
LEMMA PointStays ==
  ASSUME NEW p \in Points, OnePlace(p), DeliveredByPlace(p),
         \A d \in Feeders : p \in rest'[d] <=> p \in rest[d],
         \A w \in Workers : /\ p \in aggr'[w] <=> p \in aggr[w]
                            /\ In(p, queue'[w]) <=> In(p, queue[w])
                            /\ Once(p, queue'[w]),
         p \in submitted' <=> p \in submitted,
         p \in dropped' <=> p \in dropped,
         \A b \in Backends : delivered'[b][p] = delivered[b][p],
         \A w \in Workers : p \in aggr[w] =>
            \A b \in Backends : wpc'[w] = "send" /\ b \notin toSend'[w]
                                <=> wpc[w] = "send" /\ b \notin toSend[w]
  PROVE  (OnePlace(p) /\ DeliveredByPlace(p))'
<1>1. /\ Fed(p)' <=> Fed(p)
      /\ Queued(p)' <=> Queued(p)
      /\ Aggregated(p)' <=> Aggregated(p)
  BY Zenon DEF Fed, Queued, Aggregated
<1>2. OnePlace(p)'
  BY <1>1, Zenon DEF OnePlace
<1>3. ASSUME NEW w \in Workers, p \in aggr'[w], NEW b \in Backends
      PROVE  delivered'[b][p] = IF wpc'[w] = "send" /\ b \notin toSend'[w] THEN 1 ELSE 0
  <2>1. p \in aggr[w]
    BY <1>3, Zenon
  <2>2. delivered[b][p] = IF wpc[w] = "send" /\ b \notin toSend[w] THEN 1 ELSE 0
    BY <2>1, Zenon DEF DeliveredByPlace
  <2>3. wpc'[w] = "send" /\ b \notin toSend'[w] <=> wpc[w] = "send" /\ b \notin toSend[w]
    BY <2>1, Zenon
  <2>4. delivered'[b][p] = delivered[b][p]
    BY Zenon
  <2> QED
    BY <2>2, <2>3, <2>4
<1>4. DeliveredByPlace(p)'
  BY <1>1, <1>3, Zenon DEF DeliveredByPlace
<1> QED
  BY <1>2, <1>4, Zenon

\* A feeder starts to dispatch a map of points nobody has dispatched before.
LEMMA PointSubmitted ==
  ASSUME TypeInv, NEW p \in Points, OnePlace(p), DeliveredByPlace(p),
         NEW d \in Feeders, NEW mm \in SUBSET Points,
         rest[d] = {}, mm \cap submitted = {},
         rest' = [rest EXCEPT ![d] = mm],
         submitted' = submitted \cup mm,
         UNCHANGED <<queue, aggr, dropped, delivered, wpc, toSend>>
  PROVE  (OnePlace(p) /\ DeliveredByPlace(p))'
<1>t. rest \in [Feeders -> SUBSET Points]
  BY Zenon DEF TypeInv, TypeOK
<1>1. CASE p \notin mm
  BY <1>1, <1>t, PointStays, Zenon DEF OnePlace
<1>2. CASE p \in mm
  <2>1. ~Fed(p) /\ ~Queued(p) /\ ~Aggregated(p) /\ p \notin dropped /\ p \notin submitted
    BY <1>2, Zenon DEF OnePlace
  <2>2. Fed(p)' /\ ~Queued(p)' /\ ~Aggregated(p)' /\ p \in submitted' /\ p \notin dropped'
    BY <1>2, <1>t, <2>1, Zenon DEF Fed, Queued, Aggregated
  <2>3. \A e \in Feeders : p \in rest'[e] => e = d
    BY <2>1, <1>t, Zenon DEF Fed
  <2>4. OnePlace(p)'
    BY <2>2, <2>3, Zenon DEF OnePlace
  <2>5. DeliveredByPlace(p)'
    BY <2>1, <2>2, Zenon DEF DeliveredByPlace, Aggregated
  <2> QED
    BY <2>4, <2>5
<1> QED
  BY <1>1, <1>2

LEMMA PointStep == TypeInv /\ StageInv /\ PointInv /\ [Next]_vars => PointInv'
<1> SUFFICES ASSUME TypeInv, StageInv, PointInv, [Next]_vars, NEW p \in Points
             PROVE  (OnePlace(p) /\ DeliveredByPlace(p))'
  BY DEF PointInv
<1>p. OnePlace(p) /\ DeliveredByPlace(p)
  BY DEF PointInv
<1>t. /\ rest \in [Feeders -> SUBSET Points]
      /\ queue \in [Workers -> Seq(SUBSET Points)]
      /\ wpc \in [Workers -> {"select", "execute", "send", "returned"}]
      /\ aggr \in [Workers -> SUBSET Points]
      /\ toSend \in [Workers -> SUBSET Backends]
      /\ delivered \in [Backends -> [Points -> Nat]]
  BY Zenon DEF TypeInv, TypeOK
<1>o. \A w \in Workers : Once(p, queue[w])
  BY <1>p, Zenon DEF OnePlace
<1>1. ASSUME NEW d \in Dispatchers, NEW mm \in SUBSET Points, DispatchStart(d, mm)
      PROVE  (OnePlace(p) /\ DeliveredByPlace(p))'
  BY <1>1, <1>p, PointSubmitted, Zenon DEF DispatchStart, Feeders, workerVars, sendVars
<1>2. ASSUME NEW mm \in SUBSET Points, FlusherTick(mm)
      PROVE  (OnePlace(p) /\ DeliveredByPlace(p))'
  <2>1. "flusher" \in Feeders /\ rest["flusher"] = {}
    BY <1>2, Zenon DEF FlusherTick, StageInv, Feeders
  <2> QED
    BY <1>2, <2>1, <1>p, PointSubmitted, Zenon DEF FlusherTick, workerVars, sendVars
<1>3. ASSUME NEW d \in Feeders, DispatchQueue(d)
      PROVE  (OnePlace(p) /\ DeliveredByPlace(p))'
  <2> DEFINE t == Target(d)
  <2>a. /\ queue' = [queue EXCEPT ![t] = Append(@, Part(d))]
        /\ rest' = [rest EXCEPT ![d] = @ \ Part(d)]
        /\ UNCHANGED <<submitted, dropped, wpc, aggr, toSend, delivered>>
    BY <1>3, Zenon DEF DispatchQueue, sendVars
  <2>b. /\ p \in Part(d) <=> p \in rest[d] /\ Bucket[p] = t
        /\ Part(d) \in SUBSET Points
    BY <1>t, Zenon DEF Part
  <2> HIDE DEF t
  <2>c. \A w \in Workers :
            /\ In(p, queue'[w]) <=> In(p, queue[w]) \/ (w = t /\ p \in Part(d))
            /\ Once(p, queue[w]) /\ ~(In(p, queue[w]) /\ p \in Part(d)) => Once(p, queue'[w])
    <3> SUFFICES ASSUME NEW w \in Workers
                 PROVE  /\ In(p, queue'[w]) <=> In(p, queue[w]) \/ (w = t /\ p \in Part(d))
                        /\ Once(p, queue[w]) /\ ~(In(p, queue[w]) /\ p \in Part(d))
                              => Once(p, queue'[w])
      BY Zenon
    <3>1. CASE w = t
      <4>1. queue[w] \in Seq(SUBSET Points) /\ queue'[w] = Append(queue[w], Part(d))
        BY <3>1, <2>a, <1>t, Zenon
      <4>2. /\ In(p, Append(queue[w], Part(d))) <=> In(p, queue[w]) \/ p \in Part(d)
            /\ Once(p, queue[w]) /\ ~(In(p, queue[w]) /\ p \in Part(d))
                  => Once(p, Append(queue[w], Part(d)))
        BY ONLY <4>1, <2>b, InAppend, Zenon
      <4> QED
        BY <3>1, <4>1, <4>2, Zenon
    <3>2. CASE w # t
      BY <3>2, <2>a, <1>t, Zenon
    <3> QED
      BY <3>1, <3>2, Zenon
  <2>1. CASE p \notin Part(d)
    <3>1. \A e \in Feeders : p \in rest'[e] <=> p \in rest[e]
      BY <2>1, <2>a, <1>t, Zenon
    <3> QED
      BY <2>1, <2>a, <2>c, <3>1, <1>p, <1>o, PointStays, Zenon
  <2>2. CASE p \in Part(d)
    <3>1. /\ Fed(p) /\ ~Queued(p) /\ ~Aggregated(p) /\ p \notin dropped /\ p \in submitted
          /\ \A e \in Feeders : p \in rest[e] => e = d
      BY <2>2, <2>b, <1>p, Zenon DEF OnePlace, Fed
    <3>2. Bucket[p] = t /\ t \in Workers
      BY <2>2, <2>b, BucketAssumption, Zenon
    <3>3. ~Fed(p)'
      BY <2>2, <2>a, <1>t, <3>1, Zenon DEF Fed
    <3>4. Queued(p)'
      BY <2>2, <2>c, <3>2, Zenon DEF Queued
    <3>5. ~Aggregated(p)' /\ p \notin dropped' /\ p \in submitted'
      BY <2>a, <3>1, Zenon DEF Aggregated
    <3>6. \A w \in Workers : /\ In(p, queue'[w]) => Bucket[p] = w
                             /\ Once(p, queue'[w])
      BY <2>c, <3>1, <3>2, <1>o, Zenon DEF Queued
    <3>7. OnePlace(p)'
      BY <3>3, <3>4, <3>5, <3>6, Zenon DEF OnePlace, Fed, Aggregated
    <3>8. DeliveredByPlace(p)'
      BY <2>a, <3>1, <3>4, <3>5, <1>p, Zenon DEF DeliveredByPlace, Aggregated
    <3> QED
      BY <3>7, <3>8
  <2> QED
    BY <2>1, <2>2
<1>4. ASSUME NEW d \in Feeders, DispatchDone(d)
      PROVE  (OnePlace(p) /\ DeliveredByPlace(p))'
  <2>a. /\ rest' = [rest EXCEPT ![d] = @ \ Part(d)]
        /\ dropped' = dropped \cup Part(d)
        /\ UNCHANGED <<submitted, queue, wpc, aggr, toSend, delivered>>
    BY <1>4, Zenon DEF DispatchDone, workerVars, sendVars
  <2>b. p \in Part(d) => p \in rest[d]
    BY Zenon DEF Part
  <2>1. CASE p \notin Part(d)
    <3>1. \A e \in Feeders : p \in rest'[e] <=> p \in rest[e]
      BY <2>1, <2>a, <1>t, Zenon
    <3> QED
      BY <2>1, <2>a, <3>1, <1>p, <1>o, PointStays, Zenon
  <2>2. CASE p \in Part(d)
    <3>1. /\ Fed(p) /\ ~Queued(p) /\ ~Aggregated(p) /\ p \in submitted
          /\ \A e \in Feeders : p \in rest[e] => e = d
      BY <2>2, <2>b, <1>p, Zenon DEF OnePlace, Fed
    <3>2. ~Fed(p)'
      BY <2>2, <2>a, <1>t, <3>1, Zenon DEF Fed
    <3>3. ~Queued(p)' /\ ~Aggregated(p)' /\ p \in dropped' /\ p \in submitted'
      BY <2>2, <2>a, <3>1, Zenon DEF Queued, Aggregated
    <3>4. OnePlace(p)'
      BY <3>2, <3>3, <2>a, <1>p, Zenon DEF OnePlace, Fed
    <3>5. DeliveredByPlace(p)'
      BY <2>a, <3>1, <3>3, <1>p, Zenon DEF DeliveredByPlace, Aggregated
    <3> QED
      BY <3>4, <3>5
  <2> QED
    BY <2>1, <2>2
<1>5. ASSUME NEW w \in Workers, WorkerReceive(w)
      PROVE  (OnePlace(p) /\ DeliveredByPlace(p))'
  <2>a. /\ wpc[w] = "select" /\ queue[w] # <<>>
        /\ aggr' = [aggr EXCEPT ![w] = @ \cup Head(queue[w])]
        /\ queue' = [queue EXCEPT ![w] = Tail(@)]
        /\ UNCHANGED <<submitted, rest, dropped, wpc, toSend, delivered>>
    BY <1>5, Zenon DEF WorkerReceive, feedVars, sendVars
  <2>b. /\ In(p, queue[w]) <=> p \in Head(queue[w]) \/ In(p, queue'[w])
        /\ Once(p, queue'[w]) /\ ~(p \in Head(queue[w]) /\ In(p, queue'[w]))
    <3>1. queue[w] \in Seq(SUBSET Points) /\ queue'[w] = Tail(queue[w])
      BY <2>a, <1>t, Zenon
    <3>2. /\ In(p, queue[w]) <=> p \in Head(queue[w]) \/ In(p, Tail(queue[w]))
          /\ Once(p, queue[w]) =>
                Once(p, Tail(queue[w])) /\ ~(p \in Head(queue[w]) /\ In(p, Tail(queue[w])))
      BY <3>1, <2>a, InTail, Zenon
    <3> QED
      BY <3>1, <3>2, <1>o, Zenon
  <2>c. \A v \in Workers \ {w} : queue'[v] = queue[v] /\ aggr'[v] = aggr[v]
    BY <2>a
  <2>d. p \in aggr'[w] <=> p \in aggr[w] \/ p \in Head(queue[w])
    BY <2>a, <1>t, Zenon
  <2>1. CASE p \notin Head(queue[w])
    BY <2>1, <2>a, <2>b, <2>c, <2>d, <1>p, <1>o, PointStays, Zenon
  <2>2. CASE p \in Head(queue[w])
    <3>1. /\ ~Fed(p) /\ Queued(p) /\ ~Aggregated(p) /\ p \notin dropped /\ p \in submitted
          /\ Bucket[p] = w
      BY <2>2, <2>b, <1>p, Zenon DEF OnePlace, Queued
    <3>2. \A v \in Workers : ~In(p, queue'[v])
      BY <2>2, <2>b, <2>c, <3>1, <1>p, Zenon DEF OnePlace
    <3>3. \A v \in Workers : p \in aggr'[v] <=> v = w
      BY <2>2, <2>c, <2>d, <3>1, Zenon DEF Aggregated
    <3>4. ~Fed(p)' /\ ~Queued(p)' /\ Aggregated(p)' /\ p \notin dropped' /\ p \in submitted'
      BY <2>a, <3>1, <3>2, <3>3, Zenon DEF Fed, Queued, Aggregated
    <3>5. OnePlace(p)'
      BY <2>a, <2>b, <2>c, <3>1, <3>2, <3>3, <3>4, <1>p, <1>o, Zenon DEF OnePlace, Fed
    <3>6. DeliveredByPlace(p)'
      BY <2>a, <3>1, <3>3, <3>4, <1>p, Zenon DEF DeliveredByPlace
    <3> QED
      BY <3>5, <3>6
  <2> QED
    BY <2>1, <2>2, Zenon
<1>6. ASSUME NEW w \in Workers, WorkerReturn(w) \/ WorkerAttach(w) \/ WorkerFlush(w)
      PROVE  (OnePlace(p) /\ DeliveredByPlace(p))'
  <2>1. /\ UNCHANGED <<submitted, rest, dropped, queue, aggr, delivered>>
        /\ \A v \in Workers \ {w} : wpc'[v] = wpc[v] /\ toSend'[v] = toSend[v]
        /\ wpc[w] # "send"
        /\ wpc'[w] = "send" => toSend'[w] = Backends
    BY <1>6, <1>t, Zenon DEF WorkerReturn, WorkerAttach, WorkerFlush, feedVars, sendVars
  <2> QED
    BY <2>1, <1>p, <1>o, PointStays, Zenon
<1>7. ASSUME NEW w \in Workers, NEW b \in Backends, WorkerSend(w, b)
      PROVE  (OnePlace(p) /\ DeliveredByPlace(p))'
  <2>a. /\ wpc[w] = "send" /\ b \in toSend[w]
        /\ toSend' = [toSend EXCEPT ![w] = @ \ {b}]
        /\ delivered' = [delivered EXCEPT ![b] =
               [q \in Points |-> @[q] + IF q \in aggr[w] THEN 1 ELSE 0]]
        /\ UNCHANGED <<submitted, rest, dropped, queue, aggr, wpc>>
    BY <1>7, Zenon DEF WorkerSend, feedVars
  <2>b. /\ \A c \in Backends \ {b} : delivered'[c][p] = delivered[c][p]
        /\ delivered'[b][p] = delivered[b][p] + IF p \in aggr[w] THEN 1 ELSE 0
    BY <2>a, <1>t, Zenon
  <2>c. /\ \A v \in Workers \ {w} : toSend'[v] = toSend[v]
        /\ \A c \in Backends : c \in toSend'[w] <=> c \in toSend[w] /\ c # b
    BY <2>a, <1>t, Zenon
  <2>1. CASE p \notin aggr[w]
    <3>0. delivered[b][p] \in Nat
      BY <1>t
    <3>1. \A c \in Backends : delivered'[c][p] = delivered[c][p]
      BY <2>1, <2>b, <3>0
    <3> QED
      BY <2>1, <2>a, <2>c, <3>1, <1>p, <1>o, PointStays, Zenon
  <2>2. CASE p \in aggr[w]
    <3>1. ~Fed(p) /\ ~Queued(p) /\ Aggregated(p) /\ p \notin dropped /\ p \in submitted
      BY <2>2, <1>p, Zenon DEF OnePlace, Aggregated
    <3>2. ~Fed(p)' /\ ~Queued(p)' /\ Aggregated(p)' /\ p \notin dropped' /\ p \in submitted'
      BY <2>a, <3>1, Zenon DEF Fed, Queued, Aggregated
    <3>3. OnePlace(p)'
      BY <2>a, <3>2, <1>p, Zenon DEF OnePlace
    <3>4. \A v \in Workers : p \in aggr'[v] => v = w
      BY <2>2, <2>a, <1>p, Zenon DEF OnePlace
    <3>5. \A c \in Backends : delivered'[c][p] = IF c \notin toSend'[w] THEN 1 ELSE 0
      <4>1. \A c \in Backends : delivered[c][p] = IF c \notin toSend[w] THEN 1 ELSE 0
        BY <2>2, <2>a, <1>p, Zenon DEF DeliveredByPlace
      <4> QED
        BY <2>2, <2>a, <2>b, <2>c, <4>1
    <3>6. DeliveredByPlace(p)'
      BY <2>a, <3>2, <3>4, <3>5, Zenon DEF DeliveredByPlace
    <3> QED
      BY <3>3, <3>6
  <2> QED
    BY <2>1, <2>2, Zenon
<1>8. ASSUME NEW w \in Workers, WorkerReset(w)
      PROVE  (OnePlace(p) /\ DeliveredByPlace(p))'
  <2>a. /\ wpc[w] = "send" /\ toSend[w] = {}
        /\ aggr' = [aggr EXCEPT ![w] = {}]
        /\ wpc' = [wpc EXCEPT ![w] = "select"]
        /\ UNCHANGED <<submitted, rest, dropped, queue, toSend, delivered>>
    BY <1>8, Zenon DEF WorkerReset, feedVars, sendVars
  <2>b. /\ \A v \in Workers \ {w} : aggr'[v] = aggr[v] /\ wpc'[v] = wpc[v]
        /\ p \notin aggr'[w]
    BY <2>a, <1>t, Zenon
  <2>1. CASE p \notin aggr[w]
    BY <2>1, <2>a, <2>b, <1>p, <1>o, PointStays, Zenon
  <2>2. CASE p \in aggr[w]
    <3>1. /\ ~Fed(p) /\ ~Queued(p) /\ p \notin dropped /\ p \in submitted
          /\ \A v \in Workers : p \in aggr[v] => v = w
      BY <2>2, <1>p, Zenon DEF OnePlace, Aggregated
    <3>2. ~Fed(p)' /\ ~Queued(p)' /\ ~Aggregated(p)' /\ p \notin dropped' /\ p \in submitted'
      BY <2>a, <2>b, <3>1, Zenon DEF Fed, Queued, Aggregated
    <3>3. OnePlace(p)'
      BY <2>a, <3>2, <1>p, Zenon DEF OnePlace, Aggregated
    <3>4. \A c \in Backends : delivered'[c][p] = 1
      BY <2>2, <2>a, <1>p, Zenon DEF DeliveredByPlace
    <3>5. DeliveredByPlace(p)'
      BY <3>2, <3>4, Zenon DEF DeliveredByPlace, Aggregated
    <3> QED
      BY <3>3, <3>5
  <2> QED
    BY <2>1, <2>2, Zenon
<1>9. ASSUME NEW c \in Callers, ProcessSend(c)
      PROVE  (OnePlace(p) /\ DeliveredByPlace(p))'
  <2>1. /\ UNCHANGED <<submitted, rest, dropped, queue, aggr, delivered, toSend>>
        /\ \A v \in Workers : wpc'[v] = "send" <=> wpc[v] = "send"
    BY <1>9, <1>t, Zenon DEF ProcessSend, feedVars, sendVars
  <2> QED
    BY <2>1, <1>p, <1>o, PointStays, Zenon
<1>10. CASE UNCHANGED <<submitted, rest, dropped, queue, aggr, delivered, wpc, toSend>>
  BY <1>10, <1>p, <1>o, PointStays, Zenon
<1>11. CASE \/ \E d \in Dispatchers : DispatcherStop(d)
            \/ \E w \in Workers, b \in Backends : Callback(w, b)
            \/ \E c \in Callers : ProcessStart(c) \/ ProcessDone(c) \/ CallerReturn(c)
            \/ ProcessWait
            \/ SendWait
            \/ StagerCancel
            \/ \E w \in Workers : RunClose(w)
            \/ UNCHANGED vars
  BY <1>10, <1>11, Zenon DEF DispatcherStop, Callback, ProcessStart, ProcessDone, CallerReturn,
     ProcessWait, SendWait, StagerCancel, RunClose, vars, feedVars, workerVars, sendVars
<1> QED
  BY <1>1, <1>2, <1>3, <1>4, <1>5, <1>6, <1>7, <1>8, <1>9, <1>11, Zenon
     DEF Next, Feeder, Worker, Caller, Finished

\* A point that was dispatched is on its way to one worker, or was dropped by a
\* cancelled context, or every backend has been handed it exactly once: no
\* interleaving of feeders, workers, flushes and the shutdown loses or repeats it.
THEOREM PointsGoOutOnce == Spec => []ExactlyOnce
<1>1. Init => PointInv
  <2> SUFFICES ASSUME Init, NEW p \in Points PROVE OnePlace(p) /\ DeliveredByPlace(p)
    BY DEF PointInv
  <2>1. \A w \in Workers : ~In(p, queue[w]) /\ Once(p, queue[w])
    <3>1. Len(<<>>) = 0
      OBVIOUS
    <3> QED
      BY <3>1 DEF Init, In, Once
  <2>2. ~Fed(p) /\ ~Queued(p) /\ ~Aggregated(p)
    BY <2>1, Zenon DEF Init, Fed, Queued, Aggregated
  <2>3. OnePlace(p)
    BY <2>1, <2>2, Zenon DEF Init, OnePlace
  <2>4. DeliveredByPlace(p)
    BY <2>2, Zenon DEF Init, DeliveredByPlace
  <2> QED
    BY <2>3, <2>4
<1>2. TypeInv /\ StageInv /\ PointInv /\ [Next]_vars => PointInv'
  BY PointStep
<1>3. TypeInv /\ PointInv => ExactlyOnce
  <2> SUFFICES ASSUME TypeInv, PointInv, NEW p \in submitted
               PROVE  \/ /\ InTransit(p) /\ p \notin dropped
                         /\ \A b \in Backends : delivered[b][p] <= 1
                      \/ /\ ~InTransit(p) /\ p \in dropped
                         /\ \A b \in Backends : delivered[b][p] = 0
                      \/ /\ ~InTransit(p) /\ p \notin dropped
                         /\ \A b \in Backends : delivered[b][p] = 1
    BY Zenon DEF ExactlyOnce
  <2>1. p \in Points
    BY Zenon DEF TypeInv, TypeOK
  <2>2. InTransit(p) <=> Fed(p) \/ Queued(p) \/ Aggregated(p)
    BY Zenon DEF InTransit, Fed, Queued, Aggregated, In
  <2>3. OnePlace(p) /\ DeliveredByPlace(p)
    BY <2>1 DEF PointInv
  <2>4. InTransit(p) => p \notin dropped /\ \A b \in Backends : delivered[b][p] <= 1
    <3>1. Aggregated(p) => \A b \in Backends : delivered[b][p] \in {0, 1}
      BY <2>3, Zenon DEF DeliveredByPlace, Aggregated
    <3>2. Fed(p) \/ Queued(p) => \A b \in Backends : delivered[b][p] = 0
      BY <2>3, Zenon DEF DeliveredByPlace
    <3>3. InTransit(p) => p \notin dropped
      BY <2>2, <2>3, Zenon DEF OnePlace
    <3>4. InTransit(p) => \A b \in Backends : delivered[b][p] \in {0, 1}
      BY <2>2, <3>1, <3>2, Zenon
    <3> QED
      BY <3>3, <3>4
  <2>5. ~InTransit(p) => \A b \in Backends : delivered[b][p] = IF p \in dropped THEN 0 ELSE 1
    BY <2>2, <2>3, Zenon DEF DeliveredByPlace
  <2> QED
    BY <2>4, <2>5, Zenon
<1>4. Spec => []StageInv
  BY ShutdownStages
<1> QED
  BY <1>1, <1>2, <1>3, <1>4, TypeCorrect, PTL DEF Spec
=============================================================================
