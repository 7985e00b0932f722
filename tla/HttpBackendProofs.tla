------------------------- MODULE HttpBackendProofs --------------------------
(***************************************************************************)
(* Proofs about the buffers and the callbacks of HttpBackend, for every    *)
(* backend and any number of flushes, events, metrics and buffers.         *)
(***************************************************************************)
EXTENDS HttpBackend, FiniteSetTheorems, TLAPS

(* The inductive invariant.  Who holds a buffer follows from where each    *)
(* goroutine is (TaskInv), and a goroutine is only started for a batch     *)
(* that has none yet, since its metrics are no longer to be added          *)
(* (FlushInv).                                                             *)

Contents == SUBSET (Events \cup (Flushes \X Metrics))

\* A buffer is in its channel or with exactly one goroutine.
OneOwner(b) ==
    /\ b \in sem \/ \E h \in Holders : hold[h] = b
    /\ b \in sem => \A h \in Holders : hold[h] # b
    /\ \A h1, h2 \in Holders : hold[h1] = b /\ hold[h2] = b => h1 = h2

PoolOK ==
    /\ sem \in SUBSET Buffers
    /\ hold \in [Holders -> Buffers \cup {NoBuf}]
    /\ content \in [Buffers -> Contents]
    /\ \A b \in Buffers : OneOwner(b)

ControlOK ==
    /\ kind \in Backends
    /\ phase \in [Flushes -> {"idle", "adding", "gather", "called"}]
    /\ st \in [Tasks -> {"idle", "waiting", "posting", "backoff", "result", "release", "gone"}]
    /\ todo \in [Flushes -> SUBSET Metrics]
    /\ cur \in [Flushes -> SUBSET Metrics]

\* Whether t posts without a buffer: SendEvent of newrelic does.
Bufferless(t) == kind = "newrelic" /\ t \in Events

TaskInv(t) ==
    /\ st[t] \in {"idle", "waiting", "gone"} => hold[t] = NoBuf
    /\ st[t] \in {"posting", "backoff"} => (hold[t] = NoBuf <=> Bufferless(t))
    /\ st[t] = "release" => hold[t] # NoBuf
    /\ st[t] = "result" => t \in Batches /\ (hold[t] = NoBuf <=> kind = "influxdb")
    /\ st[t] \in {"posting", "backoff"} /\ kind \in {"datadog", "influxdb"}
        => content[hold[t]] = Body(t)

FlushInv(f) ==
    /\ hold[f] # NoBuf => phase[f] = "adding"
    /\ todo[f] \cup cur[f] \subseteq MetricMap[f]
    /\ todo[f] \cap cur[f] = {}
    /\ kind = "influxdb" /\ hold[f] = NoBuf => cur[f] = {}

\* A batch that has its goroutine is built only once.
Fresh(t) == st[t] # "idle" => t[2] \cap (todo[t[1]] \cup cur[t[1]]) = {}

PoolInv ==
    /\ ControlOK
    /\ PoolOK
    /\ \A t \in Tasks : TaskInv(t)
    /\ \A f \in Flushes : FlushInv(f)
    /\ \A t \in Batches : Fresh(t)
-----------------------------------------------------------------------------
(* Names of goroutines.                                                    *)

\* A flush with some of its metrics is a batch, and nothing else is named so.
LEMMA BatchName ==
  ASSUME NEW f \in Flushes, NEW ms \in SUBSET MetricMap[f], ms # {}
  PROVE  <<f, ms>> \in Batches
  BY MetricsAssumption DEF Batches

LEMMA BatchParts ==
  ASSUME NEW t \in Batches
  PROVE  /\ t[1] \in Flushes
         /\ t[2] \in SUBSET Metrics
         /\ t[2] # {}
         /\ t[2] \subseteq MetricMap[t[1]]
         /\ t = <<t[1], t[2]>>
  BY DEF Batches

LEMMA Names ==
  /\ Batches \subseteq Tasks /\ Events \subseteq Tasks
  /\ Batches \cap Events = {}
  /\ Flushes \cap Tasks = {}
  /\ Flushes \subseteq Holders /\ Tasks \subseteq Holders
  /\ \A f \in Flushes : <<f, {}>> \notin Tasks
<1>1. Batches \subseteq Flushes \X SUBSET Metrics
  BY DEF Batches
<1>2. \A f \in Flushes : <<f, {}>> \notin Batches
  BY BatchParts
<1>3. \A f \in Flushes : <<f, {}>> \in Flushes \X SUBSET Metrics
  OBVIOUS
<1> QED
  BY <1>1, <1>2, <1>3, HoldersAssumption DEF Tasks, Holders
-----------------------------------------------------------------------------
(* The pool: taking a buffer, returning it and handing it over.            *)

\* A step that leaves g its buffer and what is written in it.
Keeps(g) == /\ hold'[g] = hold[g]
            /\ hold[g] # NoBuf => content'[hold[g]] = content[hold[g]]

LEMMA TakeEffect ==
  ASSUME PoolOK, NEW h \in Holders, NEW b \in Buffers, NEW what \in Contents,
         hold[h] = NoBuf, Take(h, b, what)
  PROVE  /\ PoolOK'
         /\ \A g \in Holders \ {h} : Keeps(g)
         /\ hold'[h] = b
         /\ content'[b] = what
<1> USE NoBufAssumption
<1>1. /\ b \in sem
      /\ sem' = sem \ {b}
      /\ hold' = [hold EXCEPT ![h] = b]
      /\ content' = [content EXCEPT ![b] = what]
  BY DEF Take
<1>2. /\ hold'[h] = b
      /\ \A g \in Holders \ {h} : hold'[g] = hold[g] /\ hold[g] # b
      /\ content'[b] = what
      /\ \A c \in Buffers \ {b} : content'[c] = content[c]
  BY <1>1 DEF PoolOK, OneOwner
<1>3. \A g \in Holders \ {h} : Keeps(g)
  BY <1>2 DEF PoolOK, Keeps
<1>4. \A c \in Buffers : OneOwner(c)'
  BY <1>1, <1>2 DEF PoolOK, OneOwner
<1>5. /\ sem' \in SUBSET Buffers
      /\ hold' \in [Holders -> Buffers \cup {NoBuf}]
      /\ content' \in [Buffers -> Contents]
  BY <1>1 DEF PoolOK
<1> QED
  BY <1>2, <1>3, <1>4, <1>5 DEF PoolOK

LEMMA ReleaseEffect ==
  ASSUME PoolOK, NEW h \in Holders, hold[h] # NoBuf, Release(h)
  PROVE  /\ PoolOK'
         /\ \A g \in Holders \ {h} : Keeps(g)
         /\ hold'[h] = NoBuf
<1> USE NoBufAssumption
<1> DEFINE b == hold[h]
<1>1. /\ b \in Buffers
      /\ sem' = sem \cup {b}
      /\ hold' = [hold EXCEPT ![h] = NoBuf]
      /\ content' = [content EXCEPT ![b] = {}]
  BY DEF Release, PoolOK
<1>2. /\ hold'[h] = NoBuf
      /\ \A g \in Holders \ {h} : hold'[g] = hold[g] /\ hold[g] # b
      /\ \A c \in Buffers \ {b} : content'[c] = content[c]
  BY <1>1 DEF PoolOK, OneOwner
<1>3. \A g \in Holders \ {h} : Keeps(g)
  BY <1>2 DEF PoolOK, Keeps
<1>4. \A c \in Buffers : OneOwner(c)'
  BY <1>1, <1>2 DEF PoolOK, OneOwner
<1>5. /\ sem' \in SUBSET Buffers
      /\ hold' \in [Holders -> Buffers \cup {NoBuf}]
      /\ content' \in [Buffers -> Contents]
  BY <1>1 DEF PoolOK, Contents
<1> QED
  BY <1>2, <1>3, <1>4, <1>5 DEF PoolOK

\* influxdb: the flush hands its buffer, with the batch written in it, to the
\* goroutine of the batch.
HandOver(f, t, what) ==
    /\ sem' = sem
    /\ hold' = [hold EXCEPT ![f] = NoBuf, ![t] = hold[f]]
    /\ content' = [content EXCEPT ![hold[f]] = what]

LEMMA HandOverEffect ==
  ASSUME PoolOK, NEW f \in Holders, NEW t \in Holders, f # t, NEW what \in Contents,
         hold[f] # NoBuf, hold[t] = NoBuf, HandOver(f, t, what)
  PROVE  /\ PoolOK'
         /\ \A g \in Holders \ {f, t} : Keeps(g)
         /\ hold'[f] = NoBuf
         /\ hold'[t] # NoBuf
         /\ content'[hold'[t]] = what
<1> USE NoBufAssumption
<1> DEFINE b == hold[f]
<1>1. b \in Buffers
  BY DEF PoolOK
<1>2. /\ hold'[f] = NoBuf
      /\ hold'[t] = b
      /\ \A g \in Holders \ {f, t} : hold'[g] = hold[g] /\ hold[g] # b
      /\ content'[b] = what
      /\ \A c \in Buffers \ {b} : content'[c] = content[c]
  BY <1>1 DEF PoolOK, HandOver, OneOwner
<1>3. \A g \in Holders \ {f, t} : Keeps(g)
  BY <1>2 DEF PoolOK, Keeps
<1>4. \A c \in Buffers : OneOwner(c)'
  BY <1>1, <1>2 DEF PoolOK, OneOwner, HandOver
<1>5. /\ sem' \in SUBSET Buffers
      /\ hold' \in [Holders -> Buffers \cup {NoBuf}]
      /\ content' \in [Buffers -> Contents]
  BY <1>1 DEF PoolOK, HandOver
<1> QED
  BY <1>1, <1>2, <1>3, <1>4, <1>5 DEF PoolOK

LEMMA PoolKept ==
  ASSUME PoolOK, UNCHANGED poolVars
  PROVE  PoolOK' /\ \A g \in Holders : Keeps(g)
  BY DEF PoolOK, OneOwner, poolVars, Keeps
-----------------------------------------------------------------------------
(* What the steps of one goroutine leave alone.                            *)

LEMMA TaskKept ==
  ASSUME NEW t \in Tasks, TaskInv(t), kind' = kind, st'[t] = st[t], Keeps(t)
  PROVE  TaskInv(t)'
<1>1. Bufferless(t)' <=> Bufferless(t)
  BY DEF Bufferless
<1>2. ASSUME st[t] \in {"posting", "backoff"}, kind \in {"datadog", "influxdb"}
      PROVE  content'[hold'[t]] = Body(t)
  <2>1. hold[t] # NoBuf /\ content[hold[t]] = Body(t)
    BY <1>2 DEF TaskInv, Bufferless
  <2> QED
    BY <2>1 DEF Keeps
<1> QED
  BY <1>1, <1>2 DEF TaskInv, Keeps

\* A goroutine that waits for its buffer, or has ended, has none.
LEMMA WaitingOK ==
  ASSUME NEW t \in Tasks, hold'[t] = NoBuf, st'[t] \in {"idle", "waiting", "gone"}
  PROVE  TaskInv(t)'
  BY DEF TaskInv

\* post has returned: the goroutine still has its buffer, if it needed one.
LEMMA SettleKeeps ==
  ASSUME NEW t \in Tasks, kind' = kind, st'[t] = AfterPost(t),
         hold'[t] = NoBuf <=> Bufferless(t)
  PROVE  TaskInv(t)'
<1>1. CASE t \in Events /\ kind = "newrelic"
  BY <1>1 DEF TaskInv, AfterPost, Bufferless
<1>2. CASE ~(t \in Events /\ kind = "newrelic") /\ (t \in Events \/ kind = "influxdb")
  <2>1. st'[t] = "release" /\ hold'[t] # NoBuf
    BY <1>2 DEF AfterPost, Bufferless
  <2> QED
    BY <2>1 DEF TaskInv
<1>3. CASE t \notin Events /\ kind # "influxdb"
  <2>1. st'[t] = "result" /\ hold'[t] # NoBuf /\ t \in Batches
    BY <1>3 DEF AfterPost, Bufferless, Tasks
  <2> QED
    BY <1>3, <2>1 DEF TaskInv
<1> QED
  BY <1>1, <1>2, <1>3

LEMMA FlushKept ==
  ASSUME NEW f \in Flushes, FlushInv(f), kind' = kind, Keeps(f), phase'[f] = phase[f],
         todo'[f] = todo[f], cur'[f] = cur[f]
  PROVE  FlushInv(f)'
  BY DEF FlushInv, Keeps

\* A step of the goroutine t.
LEMMA TaskStep ==
  ASSUME PoolInv, NEW t \in Tasks, NEW to \in {"posting", "backoff", "result", "release", "gone"},
         kind' = kind, UNCHANGED flushVars, PoolOK', \A g \in Holders \ {t} : Keeps(g),
         st' = [st EXCEPT ![t] = to], t \in Batches => st[t] # "idle", TaskInv(t)'
  PROVE  PoolInv'
<1> USE Names DEF PoolInv
<1>1. ControlOK'
  BY DEF ControlOK, flushVars
<1>2. ASSUME NEW u \in Tasks PROVE TaskInv(u)'
  <2>1. ASSUME u # t PROVE TaskInv(u)'
    <3>1. st'[u] = st[u] /\ Keeps(u)
      BY <2>1 DEF ControlOK
    <3> QED
      BY <3>1, TaskKept
  <2> QED
    BY <2>1
<1>3. ASSUME NEW f \in Flushes PROVE FlushInv(f)'
  <2>1. Keeps(f)
    OBVIOUS
  <2> QED
    BY <2>1, FlushKept DEF flushVars
<1>4. ASSUME NEW u \in Batches PROVE Fresh(u)'
  <2>1. st'[u] # "idle" => st[u] # "idle"
    BY DEF ControlOK
  <2> QED
    BY <2>1 DEF Fresh, flushVars
<1> QED
  BY <1>1, <1>2, <1>3, <1>4

\* A step of the flush f that starts no goroutine.
LEMMA FlushStep ==
  ASSUME PoolInv, NEW f \in Flushes, ControlOK', kind' = kind, st' = st,
         PoolOK', \A g \in Holders \ {f} : Keeps(g),
         \A g \in Flushes \ {f} : /\ phase'[g] = phase[g]
                                  /\ todo'[g] = todo[g]
                                  /\ cur'[g] = cur[g],
         todo'[f] \cup cur'[f] \subseteq todo[f] \cup cur[f],
         FlushInv(f)'
  PROVE  PoolInv'
<1> USE Names DEF PoolInv
<1>1. ASSUME NEW u \in Tasks PROVE TaskInv(u)'
  <2>1. Keeps(u)
    OBVIOUS
  <2> QED
    BY <2>1, TaskKept
<1>2. ASSUME NEW g \in Flushes PROVE FlushInv(g)'
  BY FlushKept
<1>3. ASSUME NEW u \in Batches PROVE Fresh(u)'
  <2>1. todo'[u[1]] \cup cur'[u[1]] \subseteq todo[u[1]] \cup cur[u[1]]
    BY BatchParts
  <2> QED
    BY <2>1 DEF Fresh
<1> QED
  BY <1>1, <1>2, <1>3

\* The batch about to be handed over has no goroutine yet.
LEMMA BatchIsNew ==
  ASSUME PoolInv, NEW f \in Flushes, NEW ms \in SUBSET (todo[f] \cup cur[f]), ms # {}
  PROVE  /\ <<f, ms>> \in Batches
         /\ st[<<f, ms>>] = "idle"
         /\ hold[<<f, ms>>] = NoBuf
<1>1. <<f, ms>> \in Batches
  <2>1. ms \subseteq MetricMap[f]
    BY DEF PoolInv, FlushInv
  <2> QED
    BY <2>1, BatchName
<1>2. st[<<f, ms>>] = "idle"
  <2>1. Fresh(<<f, ms>>)
    BY <1>1 DEF PoolInv
  <2> QED
    BY <2>1 DEF Fresh
<1> QED
  BY <1>1, <1>2, Names DEF PoolInv, TaskInv

\* A step of the flush f that starts a goroutine for the batch of ms.
LEMMA SpawnStep ==
  ASSUME PoolInv, NEW f \in Flushes, NEW ms \in SUBSET (todo[f] \cup cur[f]), ms # {},
         NEW at \in {"waiting", "posting"},
         ControlOK', kind' = kind, st' = [st EXCEPT ![<<f, ms>>] = at],
         PoolOK', \A g \in Holders \ {f, <<f, ms>>} : Keeps(g),
         \A g \in Flushes \ {f} : /\ phase'[g] = phase[g]
                                  /\ todo'[g] = todo[g]
                                  /\ cur'[g] = cur[g],
         todo'[f] \cup cur'[f] \subseteq (todo[f] \cup cur[f]) \ ms,
         FlushInv(f)', TaskInv(<<f, ms>>)'
  PROVE  PoolInv'
<1> USE Names DEF PoolInv
<1> DEFINE t == <<f, ms>>
<1>0. t \in Batches
  BY BatchIsNew
<1> HIDE DEF t
<1>1. ASSUME NEW u \in Tasks PROVE TaskInv(u)'
  <2>1. ASSUME u # t PROVE TaskInv(u)'
    <3>1. Keeps(u)
      BY <2>1 DEF t
    <3>2. st'[u] = st[u]
      BY <2>1 DEF t, ControlOK
    <3> QED
      BY <3>1, <3>2, TaskKept
  <2> QED
    BY <2>1 DEF t
<1>2. ASSUME NEW g \in Flushes PROVE FlushInv(g)'
  <2>1. ASSUME g # f PROVE Keeps(g)
    BY <1>0, <2>1 DEF t
  <2> QED
    BY <2>1, FlushKept
<1>3. ASSUME NEW u \in Batches PROVE Fresh(u)'
  <2>1. CASE u = t
    BY <2>1 DEF Fresh, t
  <2>2. CASE u # t
    <3>1. st'[u] = st[u]
      BY <2>2 DEF t, ControlOK
    <3>2. todo'[u[1]] \cup cur'[u[1]] \subseteq todo[u[1]] \cup cur[u[1]]
      BY BatchParts
    <3> QED
      BY <3>1, <3>2 DEF Fresh
  <2> QED
    BY <2>1, <2>2
<1> QED
  BY <1>1, <1>2, <1>3
-----------------------------------------------------------------------------
(* The steps of a flush.                                                   *)

LEMMA AddSeriesStep ==
  ASSUME PoolInv, NEW f \in Flushes, NEW m \in Metrics, kind # "influxdb",
         AddSeries(f, m)
  PROVE  PoolInv'
<1>0. PICK ms : ms = cur[f] \cup {m}
  BY Zenon
<1>1. /\ PoolOK' /\ (\A g \in Holders : Keeps(g))
      /\ kind' = kind /\ phase' = phase
      /\ m \in todo[f]
      /\ todo' = [todo EXCEPT ![f] = @ \ {m}]
  BY PoolKept DEF PoolInv, AddSeries, envVars
<1>2. CASE BatchIsFull(ms)
  <2>1. /\ st' = [st EXCEPT ![<<f, ms>>] = "waiting"]
        /\ cur' = [cur EXCEPT ![f] = {}]
    BY <1>0, <1>2 DEF AddSeries, Spawn
  <2>2. /\ ms \in SUBSET (todo[f] \cup cur[f]) /\ ms # {}
        /\ todo'[f] \cup cur'[f] \subseteq (todo[f] \cup cur[f]) \ ms
        /\ \A g \in Flushes \ {f} : todo'[g] = todo[g] /\ cur'[g] = cur[g]
    BY <1>0, <1>1, <2>1 DEF PoolInv, ControlOK, FlushInv
  <2>3. FlushInv(f)'
    BY <1>0, <1>1, <2>1, Names DEF PoolInv, ControlOK, FlushInv, Keeps
  <2>4. ControlOK'
    BY <1>0, <1>1, <2>1, Zenon DEF PoolInv, ControlOK
  <2>5. TaskInv(<<f, ms>>)'
    <3>1. <<f, ms>> \in Tasks /\ hold[<<f, ms>>] = NoBuf
      BY <2>2, BatchIsNew, Names
    <3>2. hold'[<<f, ms>>] = NoBuf /\ st'[<<f, ms>>] = "waiting"
      BY <1>1, <2>1, <3>1, Names DEF Keeps, PoolInv, ControlOK
    <3> QED
      BY <3>1, <3>2, WaitingOK
  <2> QED
    BY <1>1, <2>1, <2>2, <2>3, <2>4, <2>5, SpawnStep, Zenon
<1>3. CASE ~BatchIsFull(ms)
  <2>1. cur' = [cur EXCEPT ![f] = ms] /\ st' = st
    BY <1>0, <1>3 DEF AddSeries
  <2>2. /\ todo'[f] \cup cur'[f] \subseteq todo[f] \cup cur[f]
        /\ \A g \in Flushes \ {f} : todo'[g] = todo[g] /\ cur'[g] = cur[g]
    BY <1>0, <1>1, <2>1 DEF PoolInv, ControlOK
  <2>3. FlushInv(f)'
    BY <1>0, <1>1, <2>1, Names DEF PoolInv, ControlOK, FlushInv, Keeps
  <2>4. ControlOK'
    BY <1>0, <1>1, <2>1 DEF PoolInv, ControlOK
  <2> QED
    BY <1>1, <2>1, <2>2, <2>3, <2>4, FlushStep
<1> QED
  BY <1>2, <1>3

LEMMA FinishSeriesStep ==
  ASSUME PoolInv, NEW f \in Flushes, kind # "influxdb", FinishSeries(f)
  PROVE  PoolInv'
<1>0. PICK ms : ms = cur[f]
  OBVIOUS
<1>1. /\ PoolOK' /\ (\A g \in Holders : Keeps(g))
      /\ kind' = kind
      /\ phase[f] = "idle"
      /\ phase' = [phase EXCEPT ![f] = "gather"]
      /\ todo' = todo
  BY PoolKept, Zenon DEF PoolInv, FinishSeries, envVars
<1>2. hold[f] = NoBuf /\ hold'[f] = NoBuf
  BY <1>1, Names DEF PoolInv, FlushInv, Keeps
<1>3. ASSUME cur' = cur, st' = st PROVE PoolInv'
  <2>1. ControlOK' /\ FlushInv(f)'
    BY <1>1, <1>2, <1>3 DEF PoolInv, ControlOK, FlushInv
  <2>2. \A g \in Flushes \ {f} : phase'[g] = phase[g]
    BY <1>1 DEF PoolInv, ControlOK
  <2> QED
    BY <1>1, <1>3, <2>1, <2>2, FlushStep, Zenon
<1>4. ASSUME st' = [st EXCEPT ![<<f, ms>>] = "waiting"], cur' = [cur EXCEPT ![f] = {}],
             ms # {}
      PROVE  PoolInv'
  <2>1. /\ ms \in SUBSET (todo[f] \cup cur[f])
        /\ todo'[f] \cup cur'[f] \subseteq (todo[f] \cup cur[f]) \ ms
        /\ \A g \in Flushes \ {f} : phase'[g] = phase[g] /\ cur'[g] = cur[g]
    BY <1>0, <1>1, <1>4, Zenon DEF PoolInv, ControlOK, FlushInv
  <2>2. ControlOK' /\ FlushInv(f)'
    BY <1>1, <1>2, <1>4, Zenon DEF PoolInv, ControlOK, FlushInv
  <2>3. TaskInv(<<f, ms>>)'
    <3>1. <<f, ms>> \in Tasks /\ hold[<<f, ms>>] = NoBuf
      BY <1>4, <2>1, BatchIsNew, Names
    <3>2. hold'[<<f, ms>>] = NoBuf /\ st'[<<f, ms>>] = "waiting"
      BY <1>1, <1>4, <3>1, Names DEF Keeps, PoolInv, ControlOK
    <3> QED
      BY <3>1, <3>2, WaitingOK
  <2> QED
    BY <1>1, <1>4, <2>1, <2>2, <2>3, SpawnStep, Zenon
<1>5. CASE Size(cur[f]) > 0
  <2>1. st' = [st EXCEPT ![<<f, ms>>] = "waiting"] /\ cur' = [cur EXCEPT ![f] = {}]
    BY <1>0, <1>5 DEF FinishSeries, Spawn
  <2>2. CASE ms = {}
    <3>1. st' = st /\ cur' = cur
      BY <1>0, <2>1, <2>2, Names, Zenon DEF PoolInv, ControlOK
    <3> QED
      BY <1>3, <3>1
  <2> QED
    BY <1>4, <2>1, <2>2
<1>6. CASE ~(Size(cur[f]) > 0)
  BY <1>3, <1>6 DEF FinishSeries
<1> QED
  BY <1>5, <1>6

LEMMA InfluxGetBufferStep ==
  ASSUME PoolInv, NEW f \in Flushes, InfluxGetBuffer(f)
  PROVE  PoolInv'
<1>1. /\ kind' = kind /\ todo' = todo /\ cur' = cur /\ st' = st
      /\ phase[f] = "idle"
      /\ phase' = [phase EXCEPT ![f] = "adding"]
  BY DEF InfluxGetBuffer, taskVars, envVars
<1>2. PoolOK' /\ \A g \in Holders \ {f} : Keeps(g)
  <2>1. ASSUME NEW b \in Buffers, Take(f, b, {})
        PROVE  PoolOK' /\ \A g \in Holders \ {f} : Keeps(g)
    <3>1. hold[f] = NoBuf /\ f \in Holders /\ {} \in Contents
      BY <1>1, Names DEF PoolInv, FlushInv, Contents
    <3> QED
      BY <2>1, <3>1, TakeEffect DEF PoolInv
  <2>2. CASE UNCHANGED poolVars
    BY <2>2, PoolKept DEF PoolInv
  <2> QED
    BY <2>1, <2>2 DEF InfluxGetBuffer
<1>3. ControlOK' /\ FlushInv(f)'
  BY <1>1 DEF PoolInv, ControlOK, FlushInv
<1>4. \A g \in Flushes \ {f} : phase'[g] = phase[g]
  BY <1>1 DEF PoolInv, ControlOK
<1> QED
  BY <1>1, <1>2, <1>3, <1>4, FlushStep

\* The batch is in the buffer the flush holds, and flush hands it over or
\* releases it.
LEMMA InfluxFlushStep ==
  ASSUME PoolInv, NEW f \in Flushes, NEW ms \in SUBSET (todo[f] \cup cur[f]), ms # {},
         cur[f] \subseteq ms, kind' = kind, hold[f] # NoBuf, InfluxFlush(f, ms),
         todo' = [todo EXCEPT ![f] = @ \ ms]
  PROVE  PoolInv'
<1>1. /\ phase' = [phase EXCEPT ![f] = "idle"]
      /\ cur' = [cur EXCEPT ![f] = {}]
  BY DEF InfluxFlush, Spawn
<1>2. /\ todo'[f] \cup cur'[f] \subseteq (todo[f] \cup cur[f]) \ ms
      /\ \A g \in Flushes \ {f} : /\ phase'[g] = phase[g]
                                  /\ todo'[g] = todo[g]
                                  /\ cur'[g] = cur[g]
  BY <1>1 DEF PoolInv, ControlOK
<1>3. hold'[f] = NoBuf => FlushInv(f)'
  BY <1>1 DEF PoolInv, ControlOK, FlushInv
<1>4. st' \in [Tasks -> {"idle", "waiting", "posting", "backoff", "result", "release", "gone"}]
      => ControlOK'
  BY <1>1 DEF PoolInv, ControlOK
<1>5. PICK t : t = <<f, ms>>
  BY Zenon
<1>6. /\ t \in Batches /\ t \in Tasks /\ t \in Holders /\ t \notin Events
      /\ f \in Holders /\ f # t
      /\ hold[t] = NoBuf
  BY <1>5, BatchIsNew, Names
<1>7. ASSUME Spawn(f, ms, "posting"), sem' = sem,
             hold' = [hold EXCEPT ![f] = NoBuf, ![<<f, ms>>] = hold[f]],
             content' = [content EXCEPT ![hold[f]] = {f} \X ms]
      PROVE  PoolInv'
  <2>1. {f} \X ms \in Contents /\ {f} \X ms = Body(t)
    BY <1>5, <1>6 DEF Contents, Body, PoolInv, ControlOK
  <2>2. /\ PoolOK' /\ (\A g \in Holders \ {f, t} : Keeps(g))
        /\ hold'[f] = NoBuf
        /\ hold'[t] # NoBuf
        /\ content'[hold'[t]] = Body(t)
    <3>1. PoolOK /\ HandOver(f, t, Body(t)) /\ Body(t) \in Contents
      BY <1>5, <1>7, <2>1, Zenon DEF PoolInv, HandOver
    <3> QED
      BY <1>6, <3>1, HandOverEffect, Zenon
  <2>3. st' = [st EXCEPT ![t] = "posting"] /\ st'[t] = "posting"
    BY <1>5, <1>6, <1>7 DEF Spawn, PoolInv, ControlOK
  <2>4. ControlOK'
    BY <1>4, <2>3, Zenon DEF PoolInv, ControlOK
  <2>5. TaskInv(t)'
    BY <1>6, <2>2, <2>3, Zenon DEF TaskInv, Bufferless
  <2> QED
    BY <1>2, <1>3, <1>5, <2>2, <2>3, <2>4, <2>5, SpawnStep, Zenon
<1>8. ASSUME Release(f), st' = st PROVE PoolInv'
  <2>1. PoolOK' /\ (\A g \in Holders \ {f} : Keeps(g)) /\ hold'[f] = NoBuf
    BY <1>6, <1>8, ReleaseEffect, Zenon DEF PoolInv
  <2>2. ControlOK' /\ FlushInv(f)'
    BY <1>3, <1>4, <1>8, <2>1, Zenon DEF PoolInv, ControlOK
  <2> QED
    BY <1>2, <1>8, <2>1, <2>2, FlushStep
<1> QED
  BY <1>7, <1>8 DEF InfluxFlush

LEMMA InfluxAddStep ==
  ASSUME PoolInv, NEW f \in Flushes, NEW m \in Metrics, InfluxAdd(f, m)
  PROVE  PoolInv'
<1>0. PICK ms : ms = IF Width[m] = 0 THEN cur[f] ELSE cur[f] \cup {m}
  BY Zenon
<1>1. /\ phase[f] = "adding" /\ hold[f] # NoBuf /\ kind' = kind
      /\ m \in todo[f]
      /\ todo' = [todo EXCEPT ![f] = @ \ {m}]
      /\ cur[f] \subseteq Metrics /\ m \notin cur[f]
      /\ cur[f] \subseteq ms /\ ms \subseteq cur[f] \cup {m}
  BY <1>0, Zenon DEF InfluxAdd, envVars, PoolInv, ControlOK, FlushInv
<1>2. CASE Width[m] > 0 /\ Cardinality(ms) >= PerBatch
  <2>1. InfluxFlush(f, ms)
    BY <1>0, <1>2 DEF InfluxAdd
  <2>2. m \in ms
    BY <1>0, <1>2
  <2>3. todo' = [todo EXCEPT ![f] = @ \ ms]
    <3>1. todo[f] \ {m} = todo[f] \ ms
      BY <1>1, <2>2 DEF PoolInv, FlushInv
    <3> QED
      BY <1>1, <3>1, Zenon
  <2> QED
    BY <1>1, <2>1, <2>2, <2>3, InfluxFlushStep, Zenon
<1>3. CASE ~(Width[m] > 0 /\ Cardinality(ms) >= PerBatch)
  <2>1. /\ cur' = [cur EXCEPT ![f] = ms]
        /\ content' = [content EXCEPT ![hold[f]] = {f} \X ms]
        /\ sem' = sem /\ hold' = hold /\ phase' = phase /\ st' = st
    BY <1>0, <1>3 DEF InfluxAdd
  <2>2. ControlOK'
    BY <1>1, <2>1 DEF PoolInv, ControlOK
  <2>3. FlushInv(f)'
    BY <1>1, <2>1, Zenon DEF PoolInv, ControlOK, FlushInv
  <2>4. PoolOK' /\ \A g \in Holders \ {f} : Keeps(g)
    <3>1. hold[f] \in Buffers /\ f \in Holders /\ {f} \X ms \in Contents
      BY <1>1, Names DEF PoolInv, PoolOK, Contents
    <3>2. \A g \in Holders \ {f} : hold[g] # hold[f]
      BY <3>1 DEF PoolInv, PoolOK, OneOwner
    <3>3. \A g \in Holders \ {f} : Keeps(g)
      BY <2>1, <3>2 DEF PoolInv, PoolOK, Keeps
    <3>4. content' \in [Buffers -> Contents]
      BY <2>1, <3>1 DEF PoolInv, PoolOK
    <3> QED
      BY <2>1, <3>3, <3>4 DEF PoolInv, PoolOK, OneOwner
  <2>5. /\ todo'[f] \cup cur'[f] \subseteq todo[f] \cup cur[f]
        /\ \A g \in Flushes \ {f} : todo'[g] = todo[g] /\ cur'[g] = cur[g]
    BY <1>1, <2>1, Zenon DEF PoolInv, ControlOK
  <2> QED
    BY <1>1, <2>1, <2>2, <2>3, <2>4, <2>5, FlushStep, Zenon
<1> QED
  BY <1>2, <1>3

LEMMA InfluxSkipStep ==
  ASSUME PoolInv, NEW f \in Flushes, InfluxSkip(f)
  PROVE  PoolInv'
<1>1. /\ PoolOK' /\ (\A g \in Holders : Keeps(g))
      /\ kind' = kind /\ phase' = phase /\ cur' = cur /\ st' = st
      /\ todo' = [todo EXCEPT ![f] = {}]
  BY PoolKept DEF PoolInv, InfluxSkip, taskVars, envVars
<1>2. ControlOK' /\ FlushInv(f)'
  BY <1>1, Names DEF PoolInv, ControlOK, FlushInv, Keeps
<1>3. /\ todo'[f] \cup cur'[f] \subseteq todo[f] \cup cur[f]
      /\ \A g \in Flushes \ {f} : todo'[g] = todo[g]
  BY <1>1 DEF PoolInv, ControlOK
<1> QED
  BY <1>1, <1>2, <1>3, FlushStep

\* Without a buffer there is no batch either: what remains of InfluxFinish is
\* the release, or the panic.
LEMMA InfluxFinishStep ==
  ASSUME PoolInv, NEW f \in Flushes, kind = "influxdb", InfluxFinish(f)
  PROVE  PoolInv'
<1>1. phase[f] = "adding" /\ todo[f] = {} /\ todo' = todo /\ kind' = kind
  BY DEF InfluxFinish
<1>2. CASE cur[f] # {}
  <2>1. PICK ms : ms = cur[f]
    OBVIOUS
  <2>2. hold[f] # NoBuf
    BY <1>2 DEF PoolInv, FlushInv
  <2>3. InfluxFlush(f, ms)
    BY <1>2, <2>1 DEF InfluxFinish
  <2>4. todo' = [todo EXCEPT ![f] = @ \ ms]
    BY <1>1 DEF PoolInv, ControlOK
  <2>5. ms \in SUBSET (todo[f] \cup cur[f]) /\ ms # {} /\ cur[f] \subseteq ms
    BY <1>2, <2>1
  <2> QED
    BY <1>1, <2>2, <2>3, <2>4, <2>5, InfluxFlushStep, Zenon
<1>3. CASE cur[f] = {} /\ hold[f] = NoBuf
  <2>1. /\ PoolOK' /\ (\A g \in Holders : Keeps(g))
        /\ phase' = phase /\ cur' = cur /\ st' = st
    BY <1>3, PoolKept DEF PoolInv, InfluxFinish
  <2>2. ControlOK' /\ FlushInv(f)'
    BY <1>1, <2>1, Names DEF PoolInv, ControlOK, FlushInv, Keeps
  <2> QED
    BY <1>1, <2>1, <2>2, FlushStep, Zenon
<1>4. CASE cur[f] = {} /\ hold[f] # NoBuf
  <2>1. /\ Release(f)
        /\ phase' = [phase EXCEPT ![f] = "gather"]
        /\ cur' = cur /\ st' = st
    BY <1>4, Zenon DEF InfluxFinish
  <2>2. PoolOK' /\ (\A g \in Holders \ {f} : Keeps(g)) /\ hold'[f] = NoBuf
    BY <1>4, <2>1, ReleaseEffect, Names DEF PoolInv
  <2>3. ControlOK' /\ FlushInv(f)'
    BY <1>1, <1>4, <2>1, <2>2, Zenon DEF PoolInv, ControlOK, FlushInv
  <2>4. \A g \in Flushes \ {f} : phase'[g] = phase[g]
    BY <2>1 DEF PoolInv, ControlOK
  <2> QED
    BY <1>1, <2>1, <2>2, <2>3, <2>4, FlushStep
<1> QED
  BY <1>2, <1>3, <1>4

LEMMA CloudwatchSendStep ==
  ASSUME PoolInv, NEW f \in Flushes, kind # "influxdb", CloudwatchSend(f)
  PROVE  PoolInv'
<1>1. /\ PoolOK' /\ (\A g \in Holders : Keeps(g))
      /\ kind' = kind /\ cur' = cur /\ st' = st
      /\ phase[f] = "idle"
      /\ phase' = [phase EXCEPT ![f] = "gather"]
      /\ todo' = [todo EXCEPT ![f] = {}]
  BY PoolKept DEF PoolInv, CloudwatchSend, taskVars, envVars
<1>2. hold'[f] = NoBuf
  BY <1>1, Names DEF PoolInv, FlushInv, Keeps
<1>3. ControlOK' /\ FlushInv(f)'
  BY <1>1, <1>2, Zenon DEF PoolInv, ControlOK, FlushInv
<1>4. /\ todo'[f] \cup cur'[f] \subseteq todo[f] \cup cur[f]
      /\ \A g \in Flushes \ {f} : phase'[g] = phase[g] /\ todo'[g] = todo[g]
  BY <1>1 DEF PoolInv, ControlOK
<1> QED
  BY <1>1, <1>3, <1>4, FlushStep, Zenon

LEMMA GatherStep ==
  ASSUME PoolInv, NEW f \in Flushes, Gather(f)
  PROVE  PoolInv'
<1>1. /\ PoolOK' /\ (\A g \in Holders : Keeps(g))
      /\ kind' = kind /\ cur' = cur /\ todo' = todo /\ st' = st
      /\ phase[f] = "gather"
      /\ phase' = [phase EXCEPT ![f] = "called"]
  BY PoolKept DEF PoolInv, Gather, taskVars, envVars
<1>2. hold[f] = NoBuf /\ hold'[f] = NoBuf
  BY <1>1, Names DEF PoolInv, FlushInv, Keeps
<1>3. ControlOK' /\ FlushInv(f)'
  BY <1>1, <1>2 DEF PoolInv, ControlOK, FlushInv
<1>4. \A g \in Flushes \ {f} : phase'[g] = phase[g]
  BY <1>1 DEF PoolInv, ControlOK
<1> QED
  BY <1>1, <1>3, <1>4, FlushStep, Zenon
-----------------------------------------------------------------------------
(* The steps of the goroutine of a batch, and of SendEvent.                *)

LEMMA AfterPostRange ==
  ASSUME NEW t \in Tasks PROVE AfterPost(t) \in {"gone", "release", "result"}
  BY DEF AfterPost

\* Whoever starts to post takes a buffer and writes the payload into it.
\* SendEvent of newrelic does not, and influxdb has handed the batch its buffer.
LEMMA StartPostStep ==
  ASSUME PoolInv, NEW t \in Tasks, NEW b \in Buffers, ~Bufferless(t), StartPost(t, b)
  PROVE  PoolInv'
<1>1. /\ st[t] = IF t \in Events THEN "idle" ELSE "waiting"
      /\ kind' = kind /\ UNCHANGED flushVars
      /\ t \in Holders
  BY Names DEF StartPost, envVars
<1>2. PICK what : what = IF kind = "newrelic" THEN {} ELSE Body(t)
  BY Zenon
<1>3. hold[t] = NoBuf
  BY <1>1 DEF PoolInv, TaskInv
<1>4. what \in Contents
  <2>1. CASE t \in Events
    BY <1>2, <2>1 DEF Body, Contents
  <2>2. CASE t \in Batches
    <3>1. Body(t) = {t[1]} \X t[2]
      BY <2>2, Names DEF Body
    <3> QED
      BY <1>2, <2>2, <3>1, BatchParts DEF Contents
  <2> QED
    BY <2>1, <2>2 DEF Tasks
<1>5. /\ PoolOK' /\ (\A g \in Holders \ {t} : Keeps(g))
      /\ hold'[t] = b
      /\ content'[b] = what
  <2>1. Take(t, b, what)
    BY <1>2 DEF StartPost
  <2> QED
    BY <1>1, <1>3, <1>4, <2>1, TakeEffect, Zenon DEF PoolInv
<1>6. hold'[t] # NoBuf
  BY <1>5, NoBufAssumption
<1>7. t \in Batches => st[t] # "idle"
  BY <1>1, Names
<1>8. CASE st' = [st EXCEPT ![t] = "posting"]
  <2>1. st'[t] = "posting"
    BY <1>8 DEF PoolInv, ControlOK
  <2>2. TaskInv(t)'
    BY <1>1, <1>2, <1>5, <1>6, <2>1 DEF TaskInv, Bufferless
  <2> QED
    BY <1>1, <1>5, <1>7, <1>8, <2>2, TaskStep, Zenon
<1>9. CASE Settle(t, TRUE)
  <2>1. st' = [st EXCEPT ![t] = AfterPost(t)] /\ st'[t] = AfterPost(t)
    BY <1>9 DEF Settle, PoolInv, ControlOK
  <2>2. TaskInv(t)'
    BY <1>1, <1>6, <2>1, SettleKeeps
  <2> QED
    BY <1>1, <1>5, <1>7, <2>1, <2>2, AfterPostRange, TaskStep, Zenon
<1> QED
  BY <1>8, <1>9, Zenon DEF StartPost

\* A step of t that leaves the pool alone.
LEMMA QuietStep ==
  ASSUME PoolInv, NEW t \in Tasks, NEW to \in {"posting", "backoff", "result", "release", "gone"},
         kind' = kind, UNCHANGED flushVars, UNCHANGED poolVars,
         st' = [st EXCEPT ![t] = to], t \in Batches => st[t] # "idle",
         hold'[t] = hold[t] /\ st'[t] = to => TaskInv(t)'
  PROVE  PoolInv'
<1>1. PoolOK' /\ \A g \in Holders : Keeps(g)
  BY PoolKept DEF PoolInv
<1>2. TaskInv(t)'
  BY DEF PoolInv, ControlOK, poolVars
<1> QED
  BY <1>1, <1>2, TaskStep, Zenon

LEMMA CancelWaitingStep ==
  ASSUME PoolInv, NEW t \in Tasks, CancelWaiting(t)
  PROVE  PoolInv'
<1>1. /\ st[t] = IF t \in Events THEN "idle" ELSE "waiting"
      /\ st' = [st EXCEPT ![t] = "gone"]
      /\ kind' = kind /\ UNCHANGED flushVars /\ UNCHANGED poolVars
  BY DEF CancelWaiting, envVars
<1>2. hold[t] = NoBuf /\ (t \in Batches => st[t] # "idle")
  BY <1>1, Names DEF PoolInv, TaskInv
<1>3. hold'[t] = hold[t] /\ st'[t] = "gone" => TaskInv(t)'
  BY <1>2, WaitingOK
<1> QED
  BY <1>1, <1>2, <1>3, QuietStep, Zenon

\* An attempt, the wait before the next one and the end of the last leave the
\* buffer with the goroutine.
LEMMA PostStep ==
  ASSUME PoolInv, NEW t \in Tasks, Attempt(t) \/ Retry(t)
  PROVE  PoolInv'
<1>1. /\ st[t] \in {"posting", "backoff"}
      /\ kind' = kind /\ UNCHANGED flushVars /\ UNCHANGED poolVars
  BY Zenon DEF Attempt, Retry, envVars
<1>2. /\ hold[t] = NoBuf <=> Bufferless(t)
      /\ kind \in {"datadog", "influxdb"} => content[hold[t]] = Body(t)
      /\ st[t] # "idle"
  BY <1>1, Zenon DEF PoolInv, TaskInv
<1>3. ASSUME NEW to \in {"posting", "backoff"}, st' = [st EXCEPT ![t] = to]
      PROVE  PoolInv'
  <2>1. hold'[t] = hold[t] /\ st'[t] = to => TaskInv(t)'
    BY <1>1, <1>2 DEF TaskInv, Bufferless, poolVars
  <2> QED
    BY <1>1, <1>2, <1>3, <2>1, QuietStep, Zenon
<1>4. ASSUME st' = [st EXCEPT ![t] = AfterPost(t)]
      PROVE  PoolInv'
  <2>1. hold'[t] = hold[t] /\ st'[t] = AfterPost(t) => TaskInv(t)'
    BY <1>1, <1>2, SettleKeeps, Zenon
  <2> QED
    BY <1>1, <1>2, <1>4, <2>1, AfterPostRange, QuietStep, Zenon
<1> QED
  BY <1>3, <1>4, Zenon DEF Attempt, Retry, Settle

LEMMA ReleaseBufferStep ==
  ASSUME PoolInv, NEW t \in Tasks, ReleaseBuffer(t)
  PROVE  PoolInv'
<1>1. /\ st[t] = "release" /\ Release(t)
      /\ st' = [st EXCEPT ![t] = AfterRelease(t)]
      /\ kind' = kind /\ UNCHANGED flushVars
      /\ AfterRelease(t) \in {"result", "gone"}
      /\ t \in Holders
  BY Names DEF ReleaseBuffer, AfterRelease, envVars
<1>2. hold[t] # NoBuf /\ PoolOK
  BY <1>1, Zenon DEF PoolInv, TaskInv
<1>3. PoolOK' /\ (\A g \in Holders \ {t} : Keeps(g)) /\ hold'[t] = NoBuf
  BY <1>1, <1>2, ReleaseEffect, Zenon
<1>4. st'[t] = AfterRelease(t)
  BY <1>1 DEF PoolInv, ControlOK
<1>5. TaskInv(t)'
  BY <1>1, <1>3, <1>4, Zenon DEF TaskInv, AfterRelease
<1> QED
  BY <1>1, <1>3, <1>5, TaskStep, Zenon

LEMMA DeliverStep ==
  ASSUME PoolInv, NEW t \in Batches, Deliver(t)
  PROVE  PoolInv'
<1>1. /\ t \in Tasks
      /\ st[t] = "result"
      /\ st' = [st EXCEPT ![t] = AfterResult(t)]
      /\ kind' = kind /\ UNCHANGED flushVars /\ UNCHANGED poolVars
      /\ AfterResult(t) \in {"gone", "release"}
  BY Names DEF Deliver, AfterResult, envVars
<1>2. hold[t] = NoBuf <=> kind = "influxdb"
  BY <1>1 DEF PoolInv, TaskInv
<1>3. hold'[t] = hold[t] /\ st'[t] = AfterResult(t) => TaskInv(t)'
  BY <1>2, Zenon DEF TaskInv, AfterResult
<1> QED
  BY <1>1, <1>3, QuietStep, Zenon

\* SendEvent of newrelic and of cloudwatch: no buffer is involved.
LEMMA EventStep ==
  ASSUME PoolInv, NEW e \in Events, NEW to \in {"posting", "gone"},
         st[e] = "idle", st' = [st EXCEPT ![e] = to], to = "posting" => kind = "newrelic",
         kind' = kind, UNCHANGED flushVars, UNCHANGED poolVars
  PROVE  PoolInv'
<1>1. e \in Tasks /\ e \notin Batches
  BY Names
<1>2. hold[e] = NoBuf
  BY <1>1 DEF PoolInv, TaskInv
<1>3. hold'[e] = hold[e] /\ st'[e] = to => TaskInv(e)'
  BY <1>2, Zenon DEF TaskInv, Bufferless
<1> QED
  BY <1>1, <1>3, QuietStep, Zenon

\* A step that concerns neither the pool nor where a goroutine is.
LEMMA OtherStep ==
  ASSUME PoolInv, UNCHANGED poolVars, UNCHANGED flushVars, st' = st, kind' = kind
  PROVE  PoolInv'
<1>1. PoolOK' /\ \A g \in Holders : Keeps(g)
  BY PoolKept DEF PoolInv
<1>2. ControlOK' /\ \A t \in Batches : Fresh(t)'
  BY Zenon DEF PoolInv, ControlOK, Fresh, flushVars
<1>3. \A t \in Tasks : TaskInv(t)'
  BY <1>1, TaskKept, Names DEF PoolInv
<1>4. \A f \in Flushes : FlushInv(f)'
  BY <1>1, FlushKept, Names DEF PoolInv, flushVars
<1> QED
  BY <1>1, <1>2, <1>3, <1>4 DEF PoolInv
-----------------------------------------------------------------------------
(* The invariant holds.                                                    *)

LEMMA PoolInvInit == Init => PoolInv
<1> SUFFICES ASSUME Init PROVE PoolInv
  OBVIOUS
<1> USE Names, MetricsAssumption, NoBufAssumption DEF Init
<1>1. ControlOK
  BY DEF ControlOK
<1>2. PoolOK
  BY DEF PoolOK, OneOwner, Contents
<1>3. \A t \in Tasks : TaskInv(t)
  BY DEF TaskInv
<1>4. \A f \in Flushes : FlushInv(f)
  BY DEF FlushInv
<1>5. \A t \in Batches : Fresh(t)
  BY DEF Fresh
<1> QED
  BY <1>1, <1>2, <1>3, <1>4, <1>5 DEF PoolInv

LEMMA DatadogSteps ==
  ASSUME PoolInv, kind = "datadog", Datadog PROVE PoolInv'
<1>1. ASSUME NEW f \in Flushes, DatadogFlush(f) \/ Gather(f) PROVE PoolInv'
  BY <1>1, AddSeriesStep, FinishSeriesStep, GatherStep DEF DatadogFlush
<1>2. ASSUME NEW t \in Tasks, NEW b \in Buffers, StartPost(t, b) PROVE PoolInv'
  BY <1>2, StartPostStep DEF Bufferless
<1>3. ASSUME NEW t \in Batches, DatadogBatch(t) \/ DatadogPost(t) PROVE PoolInv'
  BY <1>2, <1>3, CancelWaitingStep, DeliverStep, ReleaseBufferStep, PostStep, Names
  DEF DatadogBatch, DatadogPost
<1>4. ASSUME NEW e \in Events, DatadogEvent(e) PROVE PoolInv'
  BY <1>2, <1>4, CancelWaitingStep, ReleaseBufferStep, PostStep, Names
  DEF DatadogEvent, DatadogPost
<1> QED
  BY <1>1, <1>3, <1>4 DEF Datadog

LEMMA NewRelicSteps ==
  ASSUME PoolInv, kind = "newrelic", NewRelic PROVE PoolInv'
<1>1. ASSUME NEW f \in Flushes, NewRelicFlush(f) \/ NewRelicGather(f) PROVE PoolInv'
  BY <1>1, AddSeriesStep, FinishSeriesStep, GatherStep DEF NewRelicFlush, NewRelicGather
<1>2. ASSUME NEW t \in Batches, NEW b \in Buffers, StartPost(t, b) PROVE PoolInv'
  BY <1>2, StartPostStep, Names DEF Bufferless
<1>3. ASSUME NEW t \in Batches, NewRelicBatch(t) \/ NewRelicPost(t) PROVE PoolInv'
  BY <1>2, <1>3, CancelWaitingStep, DeliverStep, ReleaseBufferStep, PostStep, Names
  DEF NewRelicBatch, NewRelicPost
<1>4. ASSUME NEW e \in Events, NewRelicEvent(e) PROVE PoolInv'
  <2>1. CASE Attempt(e)
    BY <2>1, PostStep, Names
  <2>2. CASE ~Attempt(e)
    <3>1. /\ st[e] = "idle" /\ kind' = kind /\ UNCHANGED flushVars /\ UNCHANGED poolVars
          /\ \E to \in {"posting", "gone"} : st' = [st EXCEPT ![e] = to]
      BY <1>4, <2>2 DEF NewRelicEvent, envVars
    <3> QED
      BY <3>1, EventStep, Zenon
  <2> QED
    BY <2>1, <2>2
<1> QED
  BY <1>1, <1>3, <1>4 DEF NewRelic

LEMMA InfluxSteps ==
  ASSUME PoolInv, kind = "influxdb", Influx PROVE PoolInv'
<1>1. ASSUME NEW f \in Flushes, InfluxMetrics(f) \/ InfluxGather(f) PROVE PoolInv'
  BY <1>1, InfluxGetBufferStep, InfluxAddStep, InfluxSkipStep, InfluxFinishStep, GatherStep
  DEF InfluxMetrics, InfluxGather
<1>2. ASSUME NEW t \in Batches, InfluxBatch(t) \/ InfluxPost(t) PROVE PoolInv'
  BY <1>2, DeliverStep, ReleaseBufferStep, PostStep, Names DEF InfluxBatch, InfluxPost
<1>3. ASSUME NEW e \in Events, NEW b \in Buffers, StartPost(e, b) PROVE PoolInv'
  BY <1>3, StartPostStep, Names DEF Bufferless
<1>4. ASSUME NEW e \in Events, InfluxEvent(e) PROVE PoolInv'
  BY <1>3, <1>4, CancelWaitingStep, ReleaseBufferStep, PostStep, Names
  DEF InfluxEvent, InfluxPost
<1> QED
  BY <1>1, <1>2, <1>4 DEF Influx

LEMMA CloudwatchSteps ==
  ASSUME PoolInv, kind = "cloudwatch", Cloudwatch PROVE PoolInv'
<1>1. ASSUME NEW f \in Flushes, CloudwatchPut(f) PROVE PoolInv'
  BY <1>1, OtherStep DEF CloudwatchPut, taskVars, envVars
<1>2. ASSUME NEW e \in Events, CloudwatchEvent(e) PROVE PoolInv'
  BY <1>2, EventStep, Zenon DEF CloudwatchEvent, envVars
<1> QED
  BY <1>1, <1>2, CloudwatchSendStep, GatherStep DEF Cloudwatch

LEMMA PoolInvNext == PoolInv /\ [Next]_vars => PoolInv'
<1> SUFFICES ASSUME PoolInv, [Next]_vars PROVE PoolInv'
  OBVIOUS
<1>1. CASE Step
  BY <1>1, DatadogSteps, NewRelicSteps, InfluxSteps, CloudwatchSteps DEF Step
<1>2. CASE Cancel
  BY <1>2, OtherStep DEF Cancel, taskVars
<1>3. CASE UNCHANGED vars
  BY <1>3, OtherStep DEF vars, taskVars, envVars
<1> QED
  BY <1>1, <1>2, <1>3 DEF Next

\* The channel of buffers is an exact semaphore, whichever the backend and
\* however many flushes and events share it: every buffer is in it or with the
\* one goroutine that is going to return it, also on the paths of retries,
\* of the end of the context and of batches that could not be created.
THEOREM BuffersAreConserved == Spec => []BuffersConserved
<1>1. PoolInv => BuffersConserved
  <2> SUFFICES ASSUME PoolInv PROVE BuffersConserved
    OBVIOUS
  <2>1. \A b \in Buffers : OneOwner(b)
    BY DEF PoolInv, PoolOK
  <2>2. \A f \in Flushes : hold[f] # NoBuf => phase[f] = "adding"
    BY DEF PoolInv, FlushInv
  <2>3. \A t \in Tasks :
            hold[t] # NoBuf => st[t] \in {"posting", "backoff", "result", "release"}
    BY Zenon DEF PoolInv, ControlOK, TaskInv
  <2> QED
    BY <2>1, <2>2, <2>3, Zenon DEF BuffersConserved, OneOwner
<1> QED
  BY <1>1, PoolInvInit, PoolInvNext, PTL DEF Spec

\* A request, and every retry of it, posts the goroutine's own payload: from
\* the write into the buffer to the last attempt nobody else writes to it,
\* resets it or takes it.
THEOREM RequestsPostTheirOwn == Spec => []PostsItsOwn
<1>1. PoolInv => PostsItsOwn
  BY Zenon DEF PoolInv, TaskInv, Bufferless, PostsItsOwn
<1> QED
  BY <1>1, PoolInvInit, PoolInvNext, PTL DEF Spec
-----------------------------------------------------------------------------
(* What the callback of a flush is told.  The counter made has one for     *)
(* each batch with a goroutine, and got and bad count the results and the  *)
(* errors of a set of batches that have handed theirs over: when got has   *)
(* reached made, that set is all of them (Tally).  A metric with something *)
(* to send is never forgotten on its way into a batch (CoverOK).           *)

\* The batches of f that were handed to a goroutine, and whether the goroutine
\* of one has handed over its error.
Spawned(f) == {t \in Batches : t[1] = f /\ st[t] # "idle"}
Over(t) == st[t] = "gone" \/ (st[t] = "release" /\ kind # "influxdb")

\* The results gathered are those of some of the batches, the errors among them
\* those of the ones that were not accepted.
Tally(f) ==
    /\ IsFiniteSet(Spawned(f))
    /\ Cardinality(Spawned(f)) = made[f]
    /\ \E D \in SUBSET Spawned(f) :
        /\ \A t \in D : Over(t)
        /\ Cardinality(D) = got[f]
        /\ Cardinality(D \ accepted) = bad[f]

CountOK(f) ==
    IF kind = "cloudwatch"
    THEN Spawned(f) = {}
    ELSE Tally(f) /\ (phase[f] = "called" /\ f \notin cut => got[f] = made[f])

\* A metric with something to send is still to be added, in the batch being
\* built, or in a batch that has its goroutine, unless influxdb counted it.
Covered(f, m) ==
    \/ m \in todo[f] \cup cur[f]
    \/ <<f, m>> \in unwritten
    \/ \E t \in Batches : t[1] = f /\ m \in t[2] /\ st[t] # "idle"

CoverOK(f) ==
    /\ IsFiniteSet(Series(cur[f]))
    /\ kind = "influxdb" /\ phase[f] = "adding" /\ hold[f] = NoBuf => done
    /\ kind \in {"datadog", "newrelic"} \/ (kind = "influxdb" /\ ~done) =>
        \A m \in MetricMap[f] : Width[m] > 0 => Covered(f, m)
    /\ kind # "cloudwatch" /\ phase[f] \in {"gather", "called"} =>
        todo[f] = {} /\ \A m \in cur[f] : Width[m] = 0

LossInv ==
    /\ got \in [Flushes -> Nat] /\ bad \in [Flushes -> Nat]
    /\ kind # "cloudwatch" => made \in [Flushes -> Nat]
    /\ \A f \in Flushes : CountOK(f) /\ CoverOK(f)

\* The number of series is 0 only if no metric has any.
LEMMA SeriesMore ==
  ASSUME NEW ms, IsFiniteSet(Series(ms)), NEW m \in Metrics
  PROVE  IsFiniteSet(Series(ms \cup {m}))
<1>1. PICK q : q = {m} \X (1 .. Width[m])
  BY Zenon
<1>2. Series(ms \cup {m}) = Series(ms) \cup q
  BY <1>1, Zenon DEF Series
<1>3. IsFiniteSet(1 .. Width[m])
  BY FS_Interval, MetricsAssumption
<1>4. IsFiniteSet(q)
  BY <1>1, <1>3, FS_Singleton, FS_Product, Zenon
<1>5. IsFiniteSet(Series(ms) \cup q)
  BY <1>4, FS_Union, Zenon
<1> QED
  BY <1>2, <1>5, Zenon

LEMMA NoSeries == Series({}) = {} /\ IsFiniteSet(Series({}))
BY FS_EmptySet, Zenon DEF Series

LEMMA SeriesNone ==
  ASSUME NEW ms \in SUBSET Metrics, IsFiniteSet(Series(ms)), ~(Size(ms) > 0)
  PROVE  \A m \in ms : Width[m] = 0
<1>1. Series(ms) = {}
  <2>1. Cardinality(Series(ms)) \in Nat
    BY FS_CardinalityType
  <2>2. Cardinality(Series(ms)) = 0
    BY <2>1 DEF Size
  <2> QED
    BY <2>2, FS_EmptySet
<1>2. ASSUME NEW m \in ms, Width[m] # 0 PROVE FALSE
  <2>1. 1 \in 1 .. Width[m]
    BY <1>2, MetricsAssumption
  <2>2. <<m, 1>> \in {m} \X (1 .. Width[m])
    BY <2>1
  <2>3. <<m, 1>> \in Series(ms)
    BY <2>2, Zenon DEF Series
  <2> QED
    BY <1>1, <2>3
<1> QED
  BY <1>2

\* Nothing that the count of f is about changes.
LEMMA TallyKept ==
  ASSUME NEW f \in Flushes, Tally(f), got'[f] = got[f], bad'[f] = bad[f], made'[f] = made[f],
         \A t \in Batches : t[1] = f =>
            /\ st'[t] = "idle" <=> st[t] = "idle"
            /\ Over(t) => Over(t)' /\ (t \in accepted' <=> t \in accepted)
  PROVE  Tally(f)'
<1>1. Spawned(f)' = Spawned(f)
  BY DEF Spawned
<1>2. PICK D \in SUBSET Spawned(f) :
        /\ \A t \in D : Over(t)
        /\ Cardinality(D) = got[f]
        /\ Cardinality(D \ accepted) = bad[f]
  BY Zenon DEF Tally
<1>3. \A t \in D : t \in Batches /\ t[1] = f
  BY <1>2, Zenon DEF Spawned
<1>4. D \ accepted' = D \ accepted
  BY <1>2, <1>3, Zenon
<1>5. \A t \in D : Over(t)'
  BY <1>2, <1>3, Zenon
<1> QED
  BY <1>1, <1>2, <1>4, <1>5, Zenon DEF Tally

\* A batch is handed to its goroutine.
LEMMA TallySpawned ==
  ASSUME NEW f \in Flushes, Tally(f), made[f] \in Nat, NEW t \in Batches, t[1] = f, st[t] = "idle",
         st'[t] \in {"waiting", "posting"}, \A u \in Batches \ {t} : st'[u] = st[u],
         got'[f] = got[f], bad'[f] = bad[f], made'[f] = made[f] + 1, accepted' = accepted,
         kind' = kind
  PROVE  Tally(f)'
<1>1. Spawned(f)' = Spawned(f) \cup {t} /\ t \notin Spawned(f)
  BY Zenon DEF Spawned
<1>2. PICK D \in SUBSET Spawned(f) :
        /\ \A u \in D : Over(u)
        /\ Cardinality(D) = got[f]
        /\ Cardinality(D \ accepted) = bad[f]
  BY Zenon DEF Tally
<1>3. \A u \in D : u \in Batches \ {t}
  BY <1>1, <1>2, Zenon DEF Spawned
<1>4. \A u \in D : Over(u)'
  BY <1>2, <1>3, Zenon DEF Over
<1>5. IsFiniteSet(Spawned(f)') /\ Cardinality(Spawned(f)') = made'[f]
  <2>1. IsFiniteSet(Spawned(f)) /\ Cardinality(Spawned(f)) = made[f]
    BY Zenon DEF Tally
  <2>2. PICK B : B = Spawned(f)
    BY Zenon
  <2>3. /\ IsFiniteSet(B \cup {t})
        /\ Cardinality(B \cup {t}) = IF t \in B THEN Cardinality(B) ELSE Cardinality(B) + 1
    BY <2>1, <2>2, FS_AddElement
  <2> QED
    BY <1>1, <2>1, <2>2, <2>3
<1> QED
  BY <1>1, <1>2, <1>4, <1>5, Zenon DEF Tally

\* The goroutine of a batch hands over its error.
LEMMA TallyDelivered ==
  ASSUME NEW f \in Flushes, Tally(f), got[f] \in Nat, bad[f] \in Nat, NEW t \in Batches, t[1] = f,
         st[t] = "result", st'[t] # "idle", Over(t)', \A u \in Batches \ {t} : st'[u] = st[u],
         got'[f] = got[f] + 1, bad'[f] = IF t \in accepted THEN bad[f] ELSE bad[f] + 1,
         made'[f] = made[f], accepted' = accepted, kind' = kind
  PROVE  Tally(f)'
<1>1. Spawned(f)' = Spawned(f) /\ t \in Spawned(f)
  BY Zenon DEF Spawned
<1>2. PICK D \in SUBSET Spawned(f) :
        /\ \A u \in D : Over(u)
        /\ Cardinality(D) = got[f]
        /\ Cardinality(D \ accepted) = bad[f]
  BY Zenon DEF Tally
<1>3. t \notin D /\ \A u \in D : u \in Batches \ {t}
  BY <1>2, Zenon DEF Spawned, Over
<1>4. IsFiniteSet(D) /\ IsFiniteSet(D \ accepted)
  BY FS_Subset, Zenon DEF Tally
<1>5. PICK E : E = D \cup {t}
  BY Zenon
<1>6. E \in SUBSET Spawned(f) /\ \A u \in E : Over(u)'
  BY <1>1, <1>2, <1>3, <1>5 DEF Over
<1>7. Cardinality(E) = got'[f]
  <2>1. Cardinality(E) = Cardinality(D) + 1
    BY <1>3, <1>4, <1>5, FS_AddElement, Zenon
  <2> QED
    BY <1>2, <2>1, Zenon
<1>8. Cardinality(E \ accepted) = bad'[f]
  <2>1. CASE t \in accepted
    <3>1. E \ accepted = D \ accepted
      BY <1>5, <2>1, Zenon
    <3> QED
      BY <1>2, <2>1, <3>1, Zenon
  <2>2. CASE t \notin accepted
    <3>1. E \ accepted = (D \ accepted) \cup {t} /\ t \notin D \ accepted
      BY <1>3, <1>5, <2>2, Zenon
    <3>2. Cardinality(E \ accepted) = Cardinality(D \ accepted) + 1
      BY <1>4, <3>1, FS_AddElement, Zenon
    <3> QED
      BY <1>2, <2>2, <3>2, Zenon
  <2> QED
    BY <2>1, <2>2, Zenon
<1> QED
  BY <1>1, <1>6, <1>7, <1>8, Zenon DEF Tally

LEMMA LossStarts == Init => LossInv
<1> SUFFICES ASSUME Init PROVE LossInv
  OBVIOUS
<1> USE DEF Init
<1>1. ASSUME NEW f \in Flushes PROVE CountOK(f)
  <2>1. Spawned(f) = {}
    BY Names DEF Spawned
  <2>2. Tally(f)
    BY <2>1, FS_EmptySet DEF Tally
  <2> QED
    BY <2>1, <2>2 DEF CountOK
<1>2. ASSUME NEW f \in Flushes PROVE CoverOK(f)
  BY NoSeries, Zenon DEF CoverOK, Covered
<1> QED
  BY <1>1, <1>2 DEF LossInv

\* A batch that has its goroutine keeps it.
LEMMA CoveredKept ==
  ASSUME NEW f \in Flushes, NEW m, Covered(f, m), m \in todo[f] \cup cur[f] => m \in todo'[f] \cup cur'[f],
         unwritten \subseteq unwritten', \A t \in Batches : st[t] # "idle" => st'[t] # "idle"
  PROVE  Covered(f, m)'
BY Zenon DEF Covered

\* A step of the goroutine t that hands over no error.
LEMMA LossTask ==
  ASSUME PoolInv, LossInv, NEW t \in Tasks, NEW to, to # "idle",
         UNCHANGED <<flushVars, cbVars, envVars, unwritten>>,
         st' = [st EXCEPT ![t] = to], t \in Batches => st[t] # "idle",
         accepted' = accepted \/ accepted' = accepted \cup {t},
         Over(t) => to = "gone" /\ accepted' = accepted,
         \A f \in Flushes : hold'[f] = hold[f]
  PROVE  LossInv'
<1> USE DEF flushVars, cbVars, envVars
<1>1. /\ st \in [Tasks -> {"idle", "waiting", "posting", "backoff", "result", "release", "gone"}]
      /\ st'[t] = to
      /\ \A u \in Tasks \ {t} : st'[u] = st[u]
  BY Zenon DEF PoolInv, ControlOK
<1>2. ASSUME NEW u \in Batches
      PROVE  /\ st'[u] = "idle" <=> st[u] = "idle"
             /\ Over(u) => Over(u)' /\ (u \in accepted' <=> u \in accepted)
  BY <1>1, Names, Zenon DEF Over
<1>3. ASSUME NEW f \in Flushes PROVE CountOK(f)'
  <2>1. Spawned(f)' = Spawned(f)
    BY <1>2, Zenon DEF Spawned
  <2>2. Tally(f) => Tally(f)'
    BY <1>2, TallyKept, Zenon
  <2> QED
    BY <2>1, <2>2, Zenon DEF CountOK, LossInv
<1>4. ASSUME NEW f \in Flushes PROVE CoverOK(f)'
  <2>1. \A m : Covered(f, m) => Covered(f, m)'
    BY <1>2, CoveredKept, Zenon
  <2>2. CoverOK(f)
    BY Zenon DEF LossInv
  <2> QED
    BY <2>1, <2>2, Zenon DEF CoverOK
<1> QED
  BY <1>3, <1>4, Zenon DEF LossInv

\* A step that starts no goroutine and delivers no result, in which f alone
\* gets further.
LEMMA LossFlush ==
  ASSUME LossInv, NEW f \in Flushes, UNCHANGED <<got, bad, made, taskVars>>, kind' = kind,
         done' = done, unwritten \subseteq unwritten', cut \subseteq cut', cut' \subseteq cut \cup {f},
         \A g \in Flushes \ {f} : /\ phase'[g] = phase[g] /\ todo'[g] = todo[g]
                                  /\ cur'[g] = cur[g] /\ hold'[g] = hold[g],
         phase'[f] = "called" => got[f] = made[f] \/ f \in cut',
         CoverOK(f)'
  PROVE  LossInv'
<1> USE DEF taskVars
<1>1. ASSUME NEW g \in Flushes PROVE CountOK(g)'
  <2>1. Spawned(g)' = Spawned(g) /\ (Tally(g) => Tally(g)')
    BY TallyKept, Zenon DEF Spawned, Over
  <2>2. CountOK(g)
    BY Zenon DEF LossInv
  <2> QED
    BY <2>1, <2>2, Zenon DEF CountOK
<1>2. ASSUME NEW g \in Flushes \ {f} PROVE CoverOK(g)'
  <2>1. \A m : Covered(g, m) => Covered(g, m)'
    BY CoveredKept, Zenon
  <2>2. CoverOK(g)
    BY Zenon DEF LossInv
  <2> QED
    BY <2>1, <2>2, Zenon DEF CoverOK
<1> QED
  BY <1>1, <1>2, Zenon DEF LossInv

\* The batch of ms is handed to its goroutine.
LEMMA LossSpawn ==
  ASSUME PoolInv, LossInv, NEW f \in Flushes, NEW ms \in SUBSET (todo[f] \cup cur[f]), ms # {},
         NEW at \in {"waiting", "posting"}, Spawn(f, ms, at), kind # "cloudwatch",
         UNCHANGED <<cbVars, kind, done, accepted, unwritten>>,
         \A g \in Flushes \ {f} : /\ phase'[g] = phase[g] /\ todo'[g] = todo[g]
                                  /\ hold'[g] = hold[g],
         phase'[f] \in {"idle", "gather"}, phase'[f] = "gather" => todo'[f] = {},
         todo[f] \cup cur[f] \subseteq ms \cup todo'[f]
  PROVE  LossInv'
<1> USE DEF cbVars
<1>1. PICK t : t = <<f, ms>>
  BY Zenon
<1>2. t \in Batches /\ st[t] = "idle" /\ t[1] = f /\ t[2] = ms
  BY <1>1, BatchIsNew, Zenon
<1>3. /\ made \in [Flushes -> Nat] /\ cur \in [Flushes -> SUBSET Metrics]
      /\ made' = [made EXCEPT ![f] = @ + 1] /\ cur' = [cur EXCEPT ![f] = {}]
      /\ st' = [st EXCEPT ![t] = at]
  BY <1>1, Zenon DEF Spawn, LossInv, PoolInv, ControlOK
<1>4. /\ made' \in [Flushes -> Nat] /\ made'[f] = made[f] + 1
      /\ \A g \in Flushes \ {f} : made'[g] = made[g] /\ cur'[g] = cur[g]
      /\ cur'[f] = {}
  <2>1. made[f] + 1 \in Nat
    BY <1>3
  <2>2. /\ made' \in [Flushes -> Nat] /\ made'[f] = made[f] + 1
        /\ \A g \in Flushes \ {f} : made'[g] = made[g]
    BY <1>3, <2>1, Zenon
  <2>3. cur'[f] = {} /\ \A g \in Flushes \ {f} : cur'[g] = cur[g]
    BY <1>3, Zenon
  <2> QED
    BY <2>2, <2>3, Zenon
<1>5. st'[t] = at /\ \A u \in Batches \ {t} : st'[u] = st[u]
  BY <1>2, <1>3, Names, Zenon DEF PoolInv, ControlOK
<1>6. ASSUME NEW g \in Flushes PROVE CountOK(g)'
  <2>1. CountOK(g) /\ Tally(g) /\ made[g] \in Nat
    BY <1>3, Zenon DEF LossInv, CountOK
  <2>2. Tally(g)'
    <3>1. CASE g = f
      BY <1>2, <1>4, <1>5, <2>1, <3>1, TallySpawned, Zenon
    <3>2. CASE g # f
      BY <1>2, <1>4, <1>5, <2>1, <3>2, TallyKept, Zenon DEF Over
    <3> QED
      BY <3>1, <3>2, Zenon
  <2>3. phase'[g] = "called" /\ g \notin cut' => got'[g] = made'[g]
    BY <1>4, <2>1, Zenon DEF CountOK
  <2> QED
    BY <2>2, <2>3, Zenon DEF CountOK
<1>7. \A u \in Batches : st[u] # "idle" => st'[u] # "idle"
  BY <1>5, Zenon
<1>8. ASSUME NEW g \in Flushes \ {f} PROVE CoverOK(g)'
  <2>1. \A m : Covered(g, m) => Covered(g, m)'
    BY <1>4, <1>7, CoveredKept, Zenon
  <2>2. CoverOK(g)
    BY Zenon DEF LossInv
  <2> QED
    BY <1>4, <2>1, <2>2, Zenon DEF CoverOK
<1>9. CoverOK(f)'
  <2>1. CoverOK(f)
    BY Zenon DEF LossInv
  <2>2. ASSUME NEW m, Covered(f, m) PROVE Covered(f, m)'
    <3>1. CASE m \in todo[f] \cup cur[f]
      <4>1. m \in todo'[f] \/ (m \in t[2] /\ t[1] = f /\ t \in Batches /\ st'[t] # "idle")
        BY <1>2, <1>5, <3>1, Zenon
      <4> QED
        BY <4>1, Zenon DEF Covered
    <3>2. CASE ~(m \in todo[f] \cup cur[f])
      BY <1>7, <2>2, <3>2, CoveredKept, Zenon
    <3> QED
      BY <3>1, <3>2, Zenon
  <2> QED
    BY <1>4, <2>1, <2>2, NoSeries, Zenon DEF CoverOK
<1> QED
  BY <1>4, <1>6, <1>8, <1>9, Zenon DEF LossInv

LEMMA LossAddSeries ==
  ASSUME PoolInv, LossInv, kind \in {"datadog", "newrelic"}, NEW f \in Flushes, NEW m \in Metrics,
         AddSeries(f, m)
  PROVE  LossInv'
<1> USE DEF AddSeries, poolVars, envVars
<1>1. PICK ms : ms = cur[f] \cup {m}
  BY Zenon
<1>2. /\ phase[f] = "idle" /\ m \in todo[f] /\ todo' = [todo EXCEPT ![f] = @ \ {m}]
      /\ todo \in [Flushes -> SUBSET Metrics] /\ cur \in [Flushes -> SUBSET Metrics]
  BY Zenon DEF PoolInv, ControlOK
<1>3. /\ todo'[f] = todo[f] \ {m} /\ \A g \in Flushes \ {f} : todo'[g] = todo[g]
  BY <1>2, Zenon
<1>4. CASE BatchIsFull(ms)
  <2>1. Spawn(f, ms, "waiting")
    BY <1>1, <1>4, Zenon
  <2>2. ms \in SUBSET (todo[f] \cup cur[f]) /\ ms # {} /\ todo[f] \cup cur[f] \subseteq ms \cup todo'[f]
    BY <1>1, <1>2, <1>3, Zenon
  <2> QED
    BY <1>2, <1>3, <2>1, <2>2, LossSpawn, Zenon
<1>5. CASE ~BatchIsFull(ms)
  <2>1. cur' = [cur EXCEPT ![f] = ms] /\ UNCHANGED <<made, st>>
    BY <1>1, <1>5, Zenon
  <2>2. cur'[f] = ms /\ \A g \in Flushes \ {f} : cur'[g] = cur[g]
    BY <1>1, <1>2, <2>1, Zenon
  <2>3. CoverOK(f)
    BY Zenon DEF LossInv
  <2>4. \A n : Covered(f, n) => Covered(f, n)'
    BY <1>1, <1>3, <2>1, <2>2, CoveredKept, Zenon
  <2>5. IsFiniteSet(Series(ms))
    BY <1>1, <2>3, SeriesMore, Zenon DEF CoverOK
  <2>6. CoverOK(f)'
    BY <1>2, <2>2, <2>3, <2>4, <2>5, Zenon DEF CoverOK
  <2> QED
    BY <1>2, <1>3, <2>1, <2>2, <2>6, LossFlush, Zenon DEF cbVars, taskVars
<1> QED
  BY <1>4, <1>5, Zenon

LEMMA LossFinishSeries ==
  ASSUME PoolInv, LossInv, kind \in {"datadog", "newrelic"}, NEW f \in Flushes, FinishSeries(f)
  PROVE  LossInv'
<1> USE DEF FinishSeries, poolVars, envVars
<1>1. PICK ms : ms = cur[f]
  BY Zenon
<1>2. /\ phase[f] = "idle" /\ todo[f] = {} /\ todo' = todo
      /\ phase'[f] = "gather" /\ \A g \in Flushes \ {f} : phase'[g] = phase[g]
      /\ ms \in SUBSET Metrics
  BY <1>1, Zenon DEF PoolInv, ControlOK
<1>3. CoverOK(f)
  BY Zenon DEF LossInv
<1>4. CASE Size(ms) > 0
  <2>1. Spawn(f, ms, "waiting")
    BY <1>1, <1>4, Zenon
  <2>2. ms # {}
    BY <1>4, NoSeries, FS_EmptySet DEF Size
  <2> QED
    BY <1>1, <1>2, <2>1, <2>2, LossSpawn, Zenon
<1>5. CASE ~(Size(ms) > 0)
  <2>1. UNCHANGED <<made, st, cur>>
    BY <1>1, <1>5, Zenon
  <2>2. \A n \in cur[f] : Width[n] = 0
    BY <1>1, <1>2, <1>3, <1>5, SeriesNone, Zenon DEF CoverOK
  <2>3. \A n : Covered(f, n) => Covered(f, n)'
    BY <1>2, <2>1, CoveredKept, Zenon
  <2>4. CoverOK(f)'
    BY <1>2, <1>3, <2>1, <2>2, <2>3, Zenon DEF CoverOK
  <2> QED
    BY <1>2, <2>1, <2>4, LossFlush, Zenon DEF cbVars, taskVars
<1> QED
  BY <1>4, <1>5, Zenon

LEMMA LossInfluxGetBuffer ==
  ASSUME PoolInv, LossInv, kind = "influxdb", NEW f \in Flushes, InfluxGetBuffer(f)
  PROVE  LossInv'
<1> USE DEF InfluxGetBuffer, envVars
<1>1. /\ phase[f] = "idle" /\ phase'[f] = "adding"
      /\ \A g \in Flushes \ {f} : phase'[g] = phase[g]
  BY DEF PoolInv, ControlOK
<1>2. /\ hold \in [Holders -> Buffers \cup {NoBuf}] /\ f \in Holders /\ Flushes \subseteq Holders
  BY Names DEF PoolInv, PoolOK
<1>3. /\ \A g \in Flushes \ {f} : hold'[g] = hold[g]
      /\ hold'[f] = NoBuf => done
  <2>1. CASE \E b \in Buffers : Take(f, b, {})
    BY <1>2, <2>1, NoBufAssumption DEF Take
  <2>2. CASE done /\ UNCHANGED poolVars
    BY <2>2 DEF poolVars
  <2> QED
    BY <2>1, <2>2, Zenon
<1>4. CoverOK(f)
  BY DEF LossInv
<1>5. \A n : Covered(f, n) => Covered(f, n)'
  BY CoveredKept, Zenon DEF taskVars
<1>6. CoverOK(f)'
  BY <1>1, <1>3, <1>4, <1>5, Zenon DEF CoverOK
<1> QED
  BY <1>1, <1>3, <1>6, LossFlush, Zenon DEF cbVars

\* influxdb hands a batch over, or counts it as one that could not be created.
LEMMA LossInfluxFlush ==
  ASSUME PoolInv, LossInv, kind = "influxdb", NEW f \in Flushes,
         NEW ms \in SUBSET (todo[f] \cup cur[f]), ms # {}, InfluxFlush(f, ms),
         UNCHANGED <<cbVars, tries, accepted, kind, done>>,
         todo[f] \cup cur[f] \subseteq ms \cup todo'[f],
         \A g \in Flushes \ {f} : todo'[g] = todo[g]
  PROVE  LossInv'
<1>1. /\ hold \in [Holders -> Buffers \cup {NoBuf}] /\ Flushes \subseteq Holders
      /\ cur \in [Flushes -> SUBSET Metrics]
  BY Names, Zenon DEF PoolInv, PoolOK, ControlOK
<1>2. /\ phase'[f] = "idle" /\ \A g \in Flushes \ {f} : phase'[g] = phase[g]
  BY Zenon DEF InfluxFlush, PoolInv, ControlOK
<1>3. ASSUME Spawn(f, ms, "posting"), UNCHANGED unwritten,
             hold' = [hold EXCEPT ![f] = NoBuf, ![<<f, ms>>] = hold[f]]
      PROVE  LossInv'
  <2>1. PICK t : t = <<f, ms>>
    BY Zenon
  <2>2. t \in Batches /\ t \notin Flushes
    BY <2>1, BatchIsNew, Names, Zenon
  <2>3. \A g \in Flushes \ {f} : hold'[g] = hold[g]
    BY <1>1, <1>3, <2>1, <2>2, Zenon
  <2> QED
    BY <1>2, <1>3, <2>3, LossSpawn, Zenon
<1>4. ASSUME Release(f), unwritten' = unwritten \cup {f} \X ms, cur' = [cur EXCEPT ![f] = {}],
             UNCHANGED <<made, st>>
      PROVE  LossInv'
  <2>1. /\ cur'[f] = {} /\ \A g \in Flushes \ {f} : cur'[g] = cur[g]
    BY <1>1, <1>4, Zenon
  <2>2. \A g \in Flushes \ {f} : hold'[g] = hold[g]
    BY <1>1, <1>4, Zenon DEF Release
  <2>3. CoverOK(f)
    BY Zenon DEF LossInv
  <2>4. ASSUME NEW n, Covered(f, n) PROVE Covered(f, n)'
    <3>1. CASE n \in todo[f] \cup cur[f]
      <4>1. n \in todo'[f] \/ <<f, n>> \in unwritten'
        BY <1>4, <3>1, Zenon
      <4> QED
        BY <4>1 DEF Covered
    <3>2. CASE ~(n \in todo[f] \cup cur[f])
      BY <1>4, <2>4, <3>2, CoveredKept, Zenon
    <3> QED
      BY <3>1, <3>2, Zenon
  <2>5. CoverOK(f)'
    BY <1>2, <2>1, <2>3, <2>4, NoSeries, Zenon DEF CoverOK
  <2> QED
    BY <1>2, <1>4, <2>1, <2>2, <2>5, LossFlush DEF cbVars, taskVars
<1> QED
  BY <1>3, <1>4, Zenon DEF InfluxFlush

LEMMA LossInfluxAdd ==
  ASSUME PoolInv, LossInv, kind = "influxdb", NEW f \in Flushes, NEW m \in Metrics, InfluxAdd(f, m)
  PROVE  LossInv'
<1>1. PICK ms : ms = IF Width[m] = 0 THEN cur[f] ELSE cur[f] \cup {m}
  BY Zenon
<1>2. /\ phase[f] = "adding" /\ hold[f] # NoBuf /\ m \in todo[f]
      /\ todo' = [todo EXCEPT ![f] = @ \ {m}]
      /\ UNCHANGED <<cbVars, tries, accepted, kind, done>>
      /\ todo \in [Flushes -> SUBSET Metrics] /\ cur \in [Flushes -> SUBSET Metrics]
      /\ Width[m] \in Nat
  BY MetricsAssumption, Zenon DEF InfluxAdd, envVars, PoolInv, ControlOK
<1>3. /\ todo'[f] = todo[f] \ {m} /\ \A g \in Flushes \ {f} : todo'[g] = todo[g]
  BY <1>2, Zenon
<1>4. CASE Width[m] > 0 /\ Cardinality(ms) >= PerBatch
  <2>1. InfluxFlush(f, ms)
    BY <1>1, <1>4, Zenon DEF InfluxAdd
  <2>2. Width[m] \in Nat /\ Width[m] > 0
    BY <1>2, <1>4, Zenon
  <2>3. ms = cur[f] \cup {m}
    <3>1. Width[m] # 0
      BY <2>2
    <3> QED
      BY <1>1, <3>1, Zenon
  <2>4. ms \in SUBSET (todo[f] \cup cur[f]) /\ ms # {} /\ todo[f] \cup cur[f] \subseteq ms \cup todo'[f]
    BY <1>2, <1>3, <2>3, Zenon
  <2> QED
    BY <1>2, <1>3, <2>1, <2>4, LossInfluxFlush, Zenon
<1>5. CASE ~(Width[m] > 0 /\ Cardinality(ms) >= PerBatch)
  <2>1. cur' = [cur EXCEPT ![f] = ms] /\ UNCHANGED <<hold, phase, made, st, unwritten>>
    BY <1>1, <1>5, Zenon DEF InfluxAdd
  <2>2. /\ ms \subseteq Metrics
        /\ cur'[f] = ms /\ \A g \in Flushes \ {f} : cur'[g] = cur[g]
    BY <1>1, <1>2, <2>1, Zenon
  <2>3. CoverOK(f)
    BY DEF LossInv
  <2>4. ASSUME NEW n \in MetricMap[f], Width[n] > 0, Covered(f, n) PROVE Covered(f, n)'
    <3>1. n \in todo[f] \cup cur[f] => n \in todo'[f] \cup cur'[f]
      BY <1>1, <1>3, <2>2, <2>4
    <3> QED
      BY <2>1, <2>4, <3>1, CoveredKept, Zenon
  <2>5. IsFiniteSet(Series(ms))
    BY <1>1, <2>3, SeriesMore, Zenon DEF CoverOK
  <2>6. CoverOK(f)'
    BY <1>2, <2>1, <2>2, <2>3, <2>4, <2>5, Zenon DEF CoverOK
  <2> QED
    BY <1>2, <1>3, <2>1, <2>2, <2>6, LossFlush, Zenon DEF cbVars, taskVars
<1> QED
  BY <1>4, <1>5

LEMMA LossInfluxSkip ==
  ASSUME PoolInv, LossInv, kind = "influxdb", NEW f \in Flushes, InfluxSkip(f)
  PROVE  LossInv'
<1> USE DEF InfluxSkip, poolVars, envVars
<1>1. todo'[f] = {} /\ \A g \in Flushes \ {f} : todo'[g] = todo[g]
  BY Zenon DEF PoolInv, ControlOK
<1>2. CoverOK(f) /\ done
  BY Zenon DEF LossInv, CoverOK
<1>3. CoverOK(f)'
  BY <1>1, <1>2, Zenon DEF CoverOK
<1> QED
  BY <1>1, <1>3, LossFlush, Zenon DEF cbVars, taskVars

LEMMA LossInfluxFinish ==
  ASSUME PoolInv, LossInv, kind = "influxdb", NEW f \in Flushes, InfluxFinish(f)
  PROVE  LossInv'
<1>1. /\ phase[f] = "adding" /\ todo[f] = {} /\ todo' = todo
      /\ UNCHANGED <<cbVars, tries, accepted, kind, done>>
  BY Zenon DEF InfluxFinish
<1>2. CASE cur[f] # {}
  <2>1. PICK ms : ms = cur[f]
    BY Zenon
  <2>2. InfluxFlush(f, ms)
    BY <1>2, <2>1, Zenon DEF InfluxFinish
  <2> QED
    BY <1>1, <1>2, <2>1, <2>2, LossInfluxFlush, Zenon
<1>3. CASE cur[f] = {} /\ hold[f] = NoBuf
  <2>1. UNCHANGED <<poolVars, phase, cur, made, st, unwritten>>
    BY <1>3, Zenon DEF InfluxFinish
  <2>2. CoverOK(f) /\ \A n : Covered(f, n) => Covered(f, n)'
    BY <1>1, <2>1, CoveredKept, Zenon DEF LossInv
  <2>3. CoverOK(f)'
    BY <1>1, <2>1, <2>2, Zenon DEF CoverOK, poolVars
  <2> QED
    BY <1>1, <2>1, <2>3, LossFlush, Zenon DEF cbVars, taskVars, poolVars
<1>4. CASE cur[f] = {} /\ hold[f] # NoBuf
  <2>1. Release(f) /\ phase' = [phase EXCEPT ![f] = "gather"] /\ UNCHANGED <<cur, made, st, unwritten>>
    BY <1>4, Zenon DEF InfluxFinish
  <2>2. /\ phase'[f] = "gather" /\ \A g \in Flushes \ {f} : phase'[g] = phase[g]
    BY <2>1 DEF PoolInv, ControlOK
  <2>3. \A g \in Flushes \ {f} : hold'[g] = hold[g]
    BY <2>1, Names, Zenon DEF Release, PoolInv, PoolOK
  <2>4. CoverOK(f) /\ \A n : Covered(f, n) => Covered(f, n)'
    BY <1>1, <2>1, CoveredKept, Zenon DEF LossInv
  <2>5. CoverOK(f)'
    BY <1>1, <1>4, <2>1, <2>2, <2>4, Zenon DEF CoverOK
  <2> QED
    BY <1>1, <2>1, <2>2, <2>3, <2>5, LossFlush, Zenon DEF cbVars, taskVars
<1> QED
  BY <1>2, <1>3, <1>4, Zenon

\* cloudwatch: the requests are counted, and no batch gets a goroutine.
LEMMA LossCloudwatch ==
  ASSUME PoolInv, LossInv, kind = "cloudwatch", NEW f \in Flushes,
         CloudwatchSend(f) \/ CloudwatchPut(f)
  PROVE  LossInv'
<1>1. UNCHANGED <<kind, done, cur, st, hold, unwritten>>
  BY Zenon DEF CloudwatchSend, CloudwatchPut, flushVars, poolVars, taskVars, envVars
<1>2. got' \in [Flushes -> Nat] /\ bad' \in [Flushes -> Nat]
  <2>1. CASE CloudwatchSend(f)
    BY <2>1, Zenon DEF CloudwatchSend, cbVars, LossInv
  <2>2. CASE CloudwatchPut(f)
    <3>1. /\ got \in [Flushes -> Nat] /\ bad \in [Flushes -> Nat]
          /\ got' = [got EXCEPT ![f] = @ + 1]
      BY <2>2, Zenon DEF CloudwatchPut, LossInv
    <3>2. PICK err \in {0, 1} : bad' = [bad EXCEPT ![f] = @ + err]
      BY <2>2, Zenon DEF CloudwatchPut
    <3> QED
      BY <3>1, <3>2
  <2> QED
    BY <2>1, <2>2
<1>3. ASSUME NEW g \in Flushes PROVE CountOK(g)'
  BY <1>1, Zenon DEF LossInv, CountOK, Spawned
<1>4. ASSUME NEW g \in Flushes PROVE CoverOK(g)'
  BY <1>1, Zenon DEF LossInv, CoverOK
<1> QED
  BY <1>1, <1>2, <1>3, <1>4 DEF LossInv

LEMMA LossGather ==
  ASSUME PoolInv, LossInv, NEW f \in Flushes, Gather(f)
  PROVE  LossInv'
<1> USE DEF Gather, poolVars, envVars
<1>1. /\ phase[f] = "gather" /\ phase'[f] = "called"
      /\ \A g \in Flushes \ {f} : phase'[g] = phase[g]
  BY Zenon DEF PoolInv, ControlOK
<1>2. CoverOK(f) /\ \A n : Covered(f, n) => Covered(f, n)'
  BY CoveredKept, Zenon DEF LossInv, taskVars
<1>3. CoverOK(f)'
  BY <1>1, <1>2, Zenon DEF CoverOK
<1> QED
  BY <1>1, <1>3, LossFlush, Zenon DEF taskVars

-----------------------------------------------------------------------------
(* The goroutines of the batches and of the events.                        *)

\* Taking and returning a buffer leaves the flushes theirs.
LEMMA FlushesHold ==
  ASSUME PoolInv, NEW t \in Tasks, (\E b, what : Take(t, b, what)) \/ Release(t) \/ UNCHANGED poolVars
  PROVE  \A f \in Flushes : hold'[f] = hold[f]
<1>1. hold \in [Holders -> Buffers \cup {NoBuf}] /\ t \notin Flushes /\ Flushes \subseteq Holders
  BY Names DEF PoolInv, PoolOK
<1> QED
  BY <1>1 DEF Take, Release, poolVars

LEMMA LossStartPost ==
  ASSUME PoolInv, LossInv, NEW t \in Tasks, NEW b \in Buffers, StartPost(t, b)
  PROVE  LossInv'
<1>1. \A f \in Flushes : hold'[f] = hold[f]
  BY FlushesHold, Zenon DEF StartPost
<1>2. /\ st[t] \in {"idle", "waiting"} /\ (t \in Batches => st[t] = "waiting")
      /\ UNCHANGED <<flushVars, cbVars, envVars, unwritten>>
  BY Names, Zenon DEF StartPost
<1>3. ~Over(t)
  BY <1>2 DEF Over
<1>4. CASE Settle(t, TRUE)
  BY <1>1, <1>2, <1>3, <1>4, AfterPostRange, LossTask, Zenon DEF Settle
<1>5. CASE st' = [st EXCEPT ![t] = "posting"] /\ UNCHANGED accepted
  BY <1>1, <1>2, <1>3, <1>5, LossTask
<1> QED
  BY <1>4, <1>5, Zenon DEF StartPost

LEMMA LossCancelWaiting ==
  ASSUME PoolInv, LossInv, NEW t \in Tasks, CancelWaiting(t)
  PROVE  LossInv'
<1>1. \A f \in Flushes : hold'[f] = hold[f]
  BY FlushesHold, Zenon DEF CancelWaiting
<1>2. /\ st[t] \in {"idle", "waiting"} /\ (t \in Batches => st[t] = "waiting")
      /\ UNCHANGED <<flushVars, cbVars, envVars, unwritten, accepted>>
      /\ st' = [st EXCEPT ![t] = "gone"]
  BY Names DEF CancelWaiting
<1> QED
  BY <1>1, <1>2, LossTask, Zenon

LEMMA LossPost ==
  ASSUME PoolInv, LossInv, NEW t \in Tasks, Attempt(t) \/ Retry(t)
  PROVE  LossInv'
<1>1. \A f \in Flushes : hold'[f] = hold[f]
  BY FlushesHold, Zenon DEF Attempt, Retry
<1>2. st[t] \in {"posting", "backoff"} /\ UNCHANGED <<flushVars, cbVars, envVars, unwritten>>
  BY Zenon DEF Attempt, Retry
<1>3. ~Over(t)
  BY <1>2 DEF Over
<1>4. ASSUME NEW err \in BOOLEAN, Settle(t, err) PROVE LossInv'
  BY <1>1, <1>2, <1>3, <1>4, AfterPostRange, LossTask, Zenon DEF Settle
<1>5. ASSUME NEW to \in {"posting", "backoff"}, st' = [st EXCEPT ![t] = to], UNCHANGED accepted
      PROVE  LossInv'
  BY <1>1, <1>2, <1>3, <1>5, LossTask, Zenon
<1> QED
  BY <1>4, <1>5, Zenon DEF Attempt, Retry

LEMMA LossRelease ==
  ASSUME PoolInv, LossInv, NEW t \in Tasks, ReleaseBuffer(t)
  PROVE  LossInv'
<1>1. \A f \in Flushes : hold'[f] = hold[f]
  BY FlushesHold, Zenon DEF ReleaseBuffer
<1>2. /\ st[t] = "release" /\ UNCHANGED <<flushVars, cbVars, envVars, unwritten, accepted>>
      /\ st' = [st EXCEPT ![t] = AfterRelease(t)]
  BY Zenon DEF ReleaseBuffer
<1>3. AfterRelease(t) # "idle" /\ (Over(t) => AfterRelease(t) = "gone")
  BY <1>2 DEF AfterRelease, Over
<1> QED
  BY <1>1, <1>2, <1>3, LossTask, Zenon

LEMMA LossDeliver ==
  ASSUME PoolInv, LossInv, NEW t \in Batches, kind # "cloudwatch", Deliver(t)
  PROVE  LossInv'
<1>1. /\ st[t] = "result" /\ UNCHANGED <<flushVars, cut, envVars, unwritten, accepted>>
      /\ st' = [st EXCEPT ![t] = AfterResult(t)]
      /\ UNCHANGED hold
  BY Zenon DEF Deliver, poolVars
<1>2. t \in Tasks /\ ~Over(t) /\ AfterResult(t) # "idle"
  BY <1>1, Names DEF Over, AfterResult
<1>3. CASE UNCHANGED <<got, bad>>
  BY <1>1, <1>2, <1>3, LossTask, Zenon DEF cbVars
<1>4. ASSUME phase[t[1]] = "gather", got' = [got EXCEPT ![t[1]] = @ + 1],
             bad' = [bad EXCEPT ![t[1]] = IF t \in accepted THEN @ ELSE @ + 1]
      PROVE  LossInv'
  <2> USE DEF flushVars, envVars
  <2>1. PICK f \in Flushes : f = t[1]
    BY BatchParts
  <2>2. /\ got \in [Flushes -> Nat] /\ bad \in [Flushes -> Nat]
    BY DEF LossInv
  <2>3. /\ got' \in [Flushes -> Nat] /\ bad' \in [Flushes -> Nat]
        /\ got'[f] = got[f] + 1 /\ bad'[f] = IF t \in accepted THEN bad[f] ELSE bad[f] + 1
        /\ \A g \in Flushes \ {f} : got'[g] = got[g] /\ bad'[g] = bad[g]
    BY <1>4, <2>1, <2>2
  <2>4. st'[t] = AfterResult(t) /\ \A u \in Batches \ {t} : st'[u] = st[u]
    BY <1>1, <1>2, Names, Zenon DEF PoolInv, ControlOK
  <2>5. Over(t)'
    BY <1>1, <2>4 DEF Over, AfterResult
  <2>6. ASSUME NEW g \in Flushes PROVE CountOK(g)'
    <3>1. CountOK(g) /\ Tally(g)
      BY Zenon DEF LossInv, CountOK
    <3>2. CASE g = f
      <4>1. Tally(g)'
        BY <1>1, <1>2, <2>1, <2>2, <2>3, <2>4, <2>5, <3>1, <3>2, TallyDelivered, Zenon
      <4> QED
        BY <1>1, <1>4, <2>1, <3>2, <4>1, Zenon DEF CountOK
    <3>3. CASE g # f
      <4>1. Tally(g)'
        BY <1>1, <2>1, <2>3, <2>4, <3>1, <3>3, TallyKept, Zenon DEF Over
      <4> QED
        BY <1>1, <2>3, <3>1, <3>3, <4>1, Zenon DEF CountOK
    <3> QED
      BY <3>2, <3>3
  <2>7. ASSUME NEW g \in Flushes PROVE CoverOK(g)'
    <3>1. \A u \in Batches : st[u] # "idle" => st'[u] # "idle"
      BY <1>2, <2>4, Zenon
    <3>2. CoverOK(g) /\ \A n : Covered(g, n) => Covered(g, n)'
      BY <1>1, <3>1, CoveredKept, Zenon DEF LossInv
    <3> QED
      BY <1>1, <3>2, Zenon DEF CoverOK
  <2> QED
    BY <1>1, <2>3, <2>6, <2>7, Zenon DEF LossInv
<1> QED
  BY <1>3, <1>4, Zenon DEF Deliver

\* SendEvent of newrelic and of cloudwatch.
LEMMA LossEvent ==
  ASSUME PoolInv, LossInv, NEW e \in Events, NEW to \in {"posting", "gone"}, st[e] = "idle",
         st' = [st EXCEPT ![e] = to],
         UNCHANGED <<poolVars, flushVars, cbVars, tries, accepted, envVars, unwritten>>
  PROVE  LossInv'
<1>1. e \in Tasks /\ e \notin Batches /\ ~Over(e)
  BY Names DEF Over
<1>2. \A f \in Flushes : hold'[f] = hold[f]
  BY DEF poolVars
<1> QED
  BY <1>1, <1>2, LossTask, Zenon

LEMMA LossOther ==
  ASSUME LossInv, UNCHANGED <<poolVars, flushVars, cbVars, taskVars, kind, unwritten>>, done => done'
  PROVE  LossInv'
<1> USE DEF poolVars, flushVars, cbVars, taskVars
<1>1. ASSUME NEW f \in Flushes PROVE CountOK(f)'
  <2>1. Spawned(f)' = Spawned(f) /\ (Tally(f) => Tally(f)')
    BY TallyKept, Zenon DEF Spawned, Over
  <2> QED
    BY <2>1, Zenon DEF CountOK, LossInv
<1>2. ASSUME NEW f \in Flushes PROVE CoverOK(f)'
  <2>1. CoverOK(f) /\ \A n : Covered(f, n) => Covered(f, n)'
    BY CoveredKept, Zenon DEF LossInv
  <2> QED
    BY <2>1, Zenon DEF CoverOK
<1> QED
  BY <1>1, <1>2, Zenon DEF LossInv

LEMMA LossNext == PoolInv /\ LossInv /\ [Next]_vars => LossInv'
<1> SUFFICES ASSUME PoolInv, LossInv, [Next]_vars PROVE LossInv'
  OBVIOUS
<1>1. CASE kind = "datadog" /\ Datadog
  <2>1. ASSUME NEW f \in Flushes, DatadogFlush(f) \/ Gather(f) PROVE LossInv'
    BY <1>1, <2>1, LossAddSeries, LossFinishSeries, LossGather DEF DatadogFlush
  <2>2. ASSUME NEW t \in Batches, DatadogBatch(t) \/ DatadogPost(t) PROVE LossInv'
    BY <1>1, <2>2, Names, LossStartPost, LossCancelWaiting, LossPost, LossDeliver, LossRelease
    DEF DatadogBatch, DatadogPost
  <2>3. ASSUME NEW e \in Events, DatadogEvent(e) PROVE LossInv'
    BY <2>3, Names, LossStartPost, LossCancelWaiting, LossPost, LossRelease
    DEF DatadogEvent, DatadogPost
  <2> QED
    BY <1>1, <2>1, <2>2, <2>3 DEF Datadog
<1>2. CASE kind = "newrelic" /\ NewRelic
  <2>1. ASSUME NEW f \in Flushes, NewRelicFlush(f) \/ NewRelicGather(f) PROVE LossInv'
    BY <1>2, <2>1, LossAddSeries, LossFinishSeries, LossGather DEF NewRelicFlush, NewRelicGather
  <2>2. ASSUME NEW t \in Batches, NewRelicBatch(t) \/ NewRelicPost(t) PROVE LossInv'
    BY <1>2, <2>2, Names, LossStartPost, LossCancelWaiting, LossPost, LossDeliver, LossRelease
    DEF NewRelicBatch, NewRelicPost
  <2>3. ASSUME NEW e \in Events, NewRelicEvent(e) PROVE LossInv'
    <3>1. CASE Attempt(e)
      BY <3>1, Names, LossPost
    <3>2. CASE ~Attempt(e)
      BY <2>3, <3>2, LossEvent, Zenon DEF NewRelicEvent
    <3> QED
      BY <3>1, <3>2
  <2> QED
    BY <1>2, <2>1, <2>2, <2>3 DEF NewRelic
<1>3. CASE kind = "influxdb" /\ Influx
  <2>1. ASSUME NEW f \in Flushes, InfluxMetrics(f) \/ InfluxGather(f) PROVE LossInv'
    BY <1>3, <2>1, LossInfluxGetBuffer, LossInfluxAdd, LossInfluxSkip, LossInfluxFinish, LossGather
    DEF InfluxMetrics, InfluxGather
  <2>2. ASSUME NEW t \in Batches, InfluxBatch(t) \/ InfluxPost(t) PROVE LossInv'
    BY <1>3, <2>2, Names, LossPost, LossDeliver, LossRelease DEF InfluxBatch, InfluxPost
  <2>3. ASSUME NEW e \in Events, InfluxEvent(e) PROVE LossInv'
    BY <2>3, Names, LossStartPost, LossCancelWaiting, LossPost, LossRelease
    DEF InfluxEvent, InfluxPost
  <2> QED
    BY <1>3, <2>1, <2>2, <2>3 DEF Influx
<1>4. CASE kind = "cloudwatch" /\ Cloudwatch
  <2>1. ASSUME NEW e \in Events, CloudwatchEvent(e) PROVE LossInv'
    BY <2>1, LossEvent, Zenon DEF CloudwatchEvent
  <2> QED
    BY <1>4, <2>1, LossCloudwatch, LossGather DEF Cloudwatch
<1>5. CASE Cancel
  BY <1>5, LossOther DEF Cancel
<1>6. CASE UNCHANGED vars
  BY <1>6, LossOther DEF vars, envVars
<1> QED
  BY <1>1, <1>2, <1>3, <1>4, <1>5, <1>6 DEF Next, Step

\* What the gathering goroutine has when it calls the callback.
LEMMA AllGathered == LossInv => LossIsReported
<1> SUFFICES ASSUME LossInv, NEW f \in Flushes, phase[f] = "called"
             PROVE  /\ f \in cut
                       \/ bad[f] >= Cardinality({t \in Batches : /\ t[1] = f
                                                                 /\ st[t] # "idle"
                                                                 /\ t \notin accepted})
                    /\ kind \in {"datadog", "newrelic"} \/ (kind = "influxdb" /\ ~done) =>
                       \A m \in MetricMap[f] :
                           Width[m] > 0 => \/ <<f, m>> \in unwritten
                                           \/ \E t \in Batches : t[1] = f /\ m \in t[2] /\ st[t] # "idle"
  BY Zenon DEF LossIsReported
<1>1. CountOK(f) /\ CoverOK(f) /\ bad[f] \in Nat
  BY DEF LossInv
<1>2. PICK F : F = {t \in Batches : t[1] = f /\ st[t] # "idle" /\ t \notin accepted}
  BY Zenon
<1>3. F = Spawned(f) \ accepted
  BY <1>2 DEF Spawned
<1>4. ASSUME f \notin cut PROVE bad[f] >= Cardinality(F)
  <2>1. CASE kind = "cloudwatch"
    <3>1. F = {}
      BY <1>1, <1>3, <2>1 DEF CountOK
    <3> QED
      BY <1>1, <3>1, FS_EmptySet
  <2>2. CASE kind # "cloudwatch"
    <3>1. Tally(f) /\ got[f] = made[f]
      BY <1>1, <1>4, <2>2, Zenon DEF CountOK
    <3>2. PICK D \in SUBSET Spawned(f) :
            Cardinality(D) = got[f] /\ Cardinality(D \ accepted) = bad[f]
      BY <3>1, Zenon DEF Tally
    <3>3. D = Spawned(f)
      BY <3>1, <3>2, FS_Subset, Zenon DEF Tally
    <3> QED
      BY <1>1, <1>3, <3>2, <3>3
  <2> QED
    BY <2>1, <2>2
<1>5. ASSUME kind \in {"datadog", "newrelic"} \/ (kind = "influxdb" /\ ~done),
             NEW m \in MetricMap[f], Width[m] > 0
      PROVE  \/ <<f, m>> \in unwritten
             \/ \E t \in Batches : t[1] = f /\ m \in t[2] /\ st[t] # "idle"
  <2>1. Covered(f, m) /\ kind # "cloudwatch"
    BY <1>1, <1>5, Zenon DEF CoverOK
  <2>2. m \notin todo[f] \cup cur[f]
    BY <1>1, <1>5, <2>1 DEF CoverOK
  <2> QED
    BY <2>1, <2>2, Zenon DEF Covered
<1> QED
  BY <1>2, <1>4, <1>5, Zenon

\* The callback of a flush is told of what the flush lost, whichever the
\* backend: it has as many errors as batches were not accepted, or the end of
\* the context, and every metric with something to send was in a batch or in
\* batchesCreateFailed, for any metrics, sizes of batches and retries.
THEOREM LossesAreTold == Spec => []LossIsReported
<1>1. PoolInv /\ LossInv /\ [Next]_vars => PoolInv' /\ LossInv'
  BY PoolInvNext, LossNext
<1> QED
  BY <1>1, PoolInvInit, LossStarts, AllGathered, PTL DEF Spec
=============================================================================
