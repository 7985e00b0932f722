-------------------------- MODULE MetricMapProofs --------------------------
(***************************************************************************)
(* What the order of arrival may not change: the algebra of MetricMap that *)
(* the consolidators, the workers and the forwarders rely on, for every    *)
(* set of series and all values and timestamps.                            *)
(***************************************************************************)
EXTENDS MetricMap, SequenceTheorems, TLAPS

Counter == [ts : Int, value : Int]
Gauge == [ts : Int, value : Int]
Set == [ts : Int, values : SUBSET Int]
Timer == [ts : Int, values : Seq(Int), sampled : Int]

Metric == [series : Series, value : Int, weight : Nat, ts : Int]

Entry(s) ==
    CASE Type[s] = "counter" -> Counter
      [] Type[s] = "gauge" -> Gauge
      [] Type[s] = "set" -> Set
      [] Type[s] = "timer" -> Timer

IsMetricMap(mm) ==
    /\ DOMAIN mm \subseteq Series
    /\ mm = [s \in DOMAIN mm |-> mm[s]]
    /\ \A s \in DOMAIN mm : mm[s] \in Entry(s)

\* Of the types of a metric, exactly one is meant.
LEMMA TypeCases ==
    ASSUME NEW s \in Series
    PROVE  \/ Type[s] = "counter"
           \/ Type[s] = "gauge"
           \/ Type[s] = "set"
           \/ Type[s] = "timer"
BY TypeAssumption DEF Types

\* The conversion of receiveCounter yields an integer.
LEMMA Int64IsInt ==
    ASSUME NEW v \in Int
    PROVE  Int64(v) \in Int
BY UnitAssumption DEF Int64

\* receiveCounter, receiveGauge, receiveSet and receiveTimer create entries of
\* the kind of the series.
LEMMA NewEntryType ==
    ASSUME NEW m \in Metric
    PROVE  NewEntry(m) \in Entry(m.series)
<1>. m.series \in Series /\ m.value \in Int /\ m.weight \in Nat /\ m.ts \in Int
  BY DEF Metric
<1>1. CASE Type[m.series] = "counter"
  <2>1. m.value * m.weight \in Int
    OBVIOUS
  <2>2. Int64(m.value * m.weight) \in Int
    BY <2>1, Int64IsInt
  <2>. QED  BY <1>1, <2>2 DEF NewEntry, Entry, Counter
<1>2. CASE Type[m.series] = "gauge"
  BY <1>2 DEF NewEntry, Entry, Gauge
<1>3. CASE Type[m.series] = "set"
  BY <1>3 DEF NewEntry, Entry, Set
<1>4. CASE Type[m.series] = "timer"
  BY <1>4 DEF NewEntry, Entry, Timer
<1>. QED  BY <1>1, <1>2, <1>3, <1>4, TypeCases

\* Receiving a metric into an entry that exists does what merging an entry with
\* that metric alone does.
LEMMA ReceiveIntoIsMergeEntry ==
    ASSUME NEW m \in Metric, NEW entry \in Entry(m.series)
    PROVE  ReceiveInto(entry, m) = MergeEntry(Type[m.series], entry, NewEntry(m))
<1>. m.series \in Series /\ m.value \in Int /\ m.weight \in Nat /\ m.ts \in Int
  BY DEF Metric
<1>1. CASE Type[m.series] = "counter"
  BY <1>1 DEF NewEntry, Entry, ReceiveInto, MergeEntry, receiveCounter, MergeCounter, Counter
<1>2. CASE Type[m.series] = "gauge"
  BY <1>2 DEF NewEntry, Entry, ReceiveInto, MergeEntry, receiveGauge, MergeGauge, Gauge
<1>3. CASE Type[m.series] = "set"
  BY <1>3 DEF NewEntry, Entry, ReceiveInto, MergeEntry, receiveSet, MergeSet, Set
<1>4. CASE Type[m.series] = "timer"
  <2>1. /\ entry.values \in Seq(Int)
        /\ entry = [ts |-> entry.ts, values |-> entry.values, sampled |-> entry.sampled]
    BY <1>4 DEF Entry, Timer
  <2>2. Append(entry.values, m.value) = entry.values \o <<m.value>>
    BY <2>1
  <2>. QED
    BY <1>4, <2>1, <2>2 DEF NewEntry, ReceiveInto, MergeEntry, receiveTimer, MergeTimer
<1>. QED  BY <1>1, <1>2, <1>3, <1>4, TypeCases

\* A batch can be parsed into one map, or into one map for each metric that are
\* merged afterwards: MetricMap.Receive is MetricMap.Merge of a map with a single
\* metric.
THEOREM ReceiveIsMerge ==
    ASSUME NEW mm, IsMetricMap(mm), NEW m \in Metric
    PROVE  Receive(mm, m) = Merge(mm, [s \in {m.series} |-> NewEntry(m)])
<1>. DEFINE single == [s \in {m.series} |-> NewEntry(m)]
<1>1. DOMAIN single = {m.series} /\ single[m.series] = NewEntry(m)
  OBVIOUS
<1>2. ASSUME m.series \in DOMAIN mm
      PROVE  ReceiveInto(mm[m.series], m) = MergeEntry(Type[m.series], mm[m.series], NewEntry(m))
  BY <1>2, ReceiveIntoIsMergeEntry DEF IsMetricMap
<1>. QED
  BY <1>1, <1>2 DEF Receive, Merge

-----------------------------------------------------------------------------

\* Merging entries is a matter of which entries they are, not of their order, for
\* counters and sets, and for gauges that were not read at the same time: this is
\* what lets maps overtake each other between the parsers and an aggregator.
LEMMA MergeEntryCommutes ==
    ASSUME NEW s \in Series, Type[s] # "timer",
           NEW a \in Entry(s), NEW b \in Entry(s),
           Type[s] = "gauge" => a.ts # b.ts \/ a = b
    PROVE  MergeEntry(Type[s], a, b) = MergeEntry(Type[s], b, a)
<1>1. CASE Type[s] = "counter"
  BY <1>1 DEF Entry, MergeEntry, MergeCounter, Counter, Later
<1>2. CASE Type[s] = "gauge"
  BY <1>2 DEF Entry, MergeEntry, MergeGauge, Gauge
<1>3. CASE Type[s] = "set"
  BY <1>3 DEF Entry, MergeEntry, MergeSet, Set, Later
<1>. QED  BY <1>1, <1>2, <1>3, TypeCases

\* The values of timers are appended to each other.
LEMMA ValuesAssociate ==
    ASSUME NEW x \in Seq(Int), NEW y \in Seq(Int), NEW z \in Seq(Int)
    PROVE  (x \o y) \o z = x \o (y \o z)
BY ConcatAssociative, SMTT(20)

\* Merging is associative for every type, ties of gauges and the order of the
\* values of timers included: it makes no difference which of the maps a
\* consolidator has already merged.
LEMMA MergeEntryAssociates ==
    ASSUME NEW s \in Series,
           NEW a \in Entry(s), NEW b \in Entry(s), NEW c \in Entry(s)
    PROVE  MergeEntry(Type[s], MergeEntry(Type[s], a, b), c)
             = MergeEntry(Type[s], a, MergeEntry(Type[s], b, c))
<1>1. CASE Type[s] = "counter"
  BY <1>1 DEF Entry, MergeEntry, MergeCounter, Counter, Later
<1>2. CASE Type[s] = "gauge"
  BY <1>2 DEF Entry, MergeEntry, MergeGauge, Gauge
<1>3. CASE Type[s] = "set"
  <2>1. (a.values \cup b.values) \cup c.values = a.values \cup (b.values \cup c.values)
    OBVIOUS
  <2>2. Later(Later(a.ts, b.ts), c.ts) = Later(a.ts, Later(b.ts, c.ts))
    BY <1>3 DEF Entry, Set, Later
  <2>. QED  BY <1>3, <2>1, <2>2 DEF MergeEntry, MergeSet
<1>4. CASE Type[s] = "timer"
  <2>1. (a.values \o b.values) \o c.values = a.values \o (b.values \o c.values)
    <3>1. a.values \in Seq(Int) /\ b.values \in Seq(Int) /\ c.values \in Seq(Int)
      BY <1>4 DEF Entry, Timer
    <3>. QED  BY <3>1, ValuesAssociate, Zenon
  <2>2. /\ Later(Later(a.ts, b.ts), c.ts) = Later(a.ts, Later(b.ts, c.ts))
        /\ (a.sampled + b.sampled) + c.sampled = a.sampled + (b.sampled + c.sampled)
    BY <1>4 DEF Entry, Timer, Later
  <2>. QED  BY <1>4, <2>1, <2>2 DEF MergeEntry, MergeTimer
<1>. QED  BY <1>1, <1>2, <1>3, <1>4, TypeCases

\* It makes no difference which of two maps reaches an aggregator first, unless
\* they share a timer, whose values are then in another order, or a gauge with
\* the same timestamp.
THEOREM MergeCommutes ==
    ASSUME NEW a, NEW b, IsMetricMap(a), IsMetricMap(b),
           \A s \in DOMAIN a \cap DOMAIN b :
              /\ Type[s] # "timer"
              /\ Type[s] = "gauge" => a[s].ts # b[s].ts \/ a[s] = b[s]
    PROVE  Merge(a, b) = Merge(b, a)
<1>1. ASSUME NEW s \in DOMAIN a \cap DOMAIN b
      PROVE  MergeEntry(Type[s], a[s], b[s]) = MergeEntry(Type[s], b[s], a[s])
  BY MergeEntryCommutes DEF IsMetricMap
<1>. QED  BY <1>1 DEF Merge

\* MergeMaps and a series of calls of Merge on an aggregator agree, however the
\* maps are grouped.
THEOREM MergeAssociates ==
    ASSUME NEW a, NEW b, NEW c, IsMetricMap(a), IsMetricMap(b), IsMetricMap(c)
    PROVE  Merge(Merge(a, b), c) = Merge(a, Merge(b, c))
<1>. DEFINE left == Merge(Merge(a, b), c)
            right == Merge(a, Merge(b, c))
            all == DOMAIN a \cup DOMAIN b \cup DOMAIN c
<1>1. ASSUME NEW s \in DOMAIN a \cap DOMAIN b \cap DOMAIN c
      PROVE  MergeEntry(Type[s], MergeEntry(Type[s], a[s], b[s]), c[s])
               = MergeEntry(Type[s], a[s], MergeEntry(Type[s], b[s], c[s]))
  BY MergeEntryAssociates DEF IsMetricMap
<1>2. left = [s \in all |-> left[s]] /\ right = [s \in all |-> right[s]]
  BY DEF Merge
<1>3. ASSUME NEW s \in all PROVE left[s] = right[s]
  BY <1>1 DEF Merge
<1>. QED  BY <1>2, <1>3

\* Merging never takes a series back in time, and changes a gauge only together
\* with its timestamp: MergeCounter, MergeGauge, MergeSet and MergeTimer, and so
\* MetricAggregator.ReceiveMap.
THEOREM MergeMovesForward ==
    ASSUME NEW a, NEW b, IsMetricMap(a), IsMetricMap(b), NEW s \in DOMAIN a
    PROVE  /\ s \in DOMAIN Merge(a, b)
           /\ a[s].ts <= Merge(a, b)[s].ts
           /\ (Type[s] = "gauge" /\ a[s].ts = Merge(a, b)[s].ts) => Merge(a, b)[s] = a[s]
<1>1. s \in Series /\ a[s] \in Entry(s)
  BY DEF IsMetricMap
<1>2. a[s].ts \in Int
  BY <1>1, TypeCases DEF Entry, Counter, Gauge, Set, Timer
<1>3. CASE s \notin DOMAIN b
  BY <1>2, <1>3 DEF Merge
<1>4. CASE s \in DOMAIN b
  <2>1. b[s] \in Entry(s)
    BY <1>4 DEF IsMetricMap
  <2>2. s \in DOMAIN Merge(a, b) /\ Merge(a, b)[s] = MergeEntry(Type[s], a[s], b[s])
    BY <1>4 DEF Merge
  <2>3. b[s].ts \in Int
    BY <1>1, <2>1, TypeCases DEF Entry, Counter, Gauge, Set, Timer
  <2>4. CASE Type[s] = "counter"
    BY <1>2, <2>2, <2>3, <2>4 DEF MergeEntry, MergeCounter, Later
  <2>5. CASE Type[s] = "gauge"
    BY <1>2, <2>2, <2>3, <2>5 DEF MergeEntry, MergeGauge
  <2>6. CASE Type[s] = "set"
    BY <1>2, <2>2, <2>3, <2>6 DEF MergeEntry, MergeSet, Later
  <2>7. CASE Type[s] = "timer"
    BY <1>2, <2>2, <2>3, <2>7 DEF MergeEntry, MergeTimer, Later
  <2>. QED  BY <1>1, <2>4, <2>5, <2>6, <2>7, TypeCases
<1>. QED  BY <1>3, <1>4

\* MetricMap.Split: every series goes to exactly one worker, with its entry, and
\* always to the same one, so that an aggregator sees all of a series.
THEOREM SplitIsPartition ==
    ASSUME NEW mm, IsMetricMap(mm), NEW count \in Nat \ {0}
    PROVE  /\ \A s \in DOMAIN mm : Bucket(s, count) \in 0 .. count - 1
           /\ \A w \in 0 .. count - 1 :
                 /\ DOMAIN Split(mm, count)[w] = {s \in DOMAIN mm : Bucket(s, count) = w}
                 /\ \A s \in DOMAIN Split(mm, count)[w] : Split(mm, count)[w][s] = mm[s]
<1>1. ASSUME NEW s \in DOMAIN mm PROVE Bucket(s, count) \in 0 .. count - 1
  BY HashAssumption DEF Bucket, IsMetricMap
<1>2. ASSUME NEW w \in 0 .. count - 1
      PROVE  Split(mm, count)[w] = [s \in {s \in DOMAIN mm : Bucket(s, count) = w} |-> mm[s]]
  BY DEF Split, Restrict
<1>3. ASSUME NEW w \in 0 .. count - 1
      PROVE  /\ DOMAIN Split(mm, count)[w] = {s \in DOMAIN mm : Bucket(s, count) = w}
             /\ \A s \in DOMAIN Split(mm, count)[w] : Split(mm, count)[w][s] = mm[s]
  BY <1>2
<1>. QED  BY <1>1, <1>3

\* MetricMap.SplitByTags: the posts of a forwarder together carry every series
\* once, with its entry.
THEOREM SplitByTagsIsPartition ==
    ASSUME NEW mm, IsMetricMap(mm)
    PROVE  LET parts == SplitByTags(mm)
           IN  \A s \in DOMAIN mm : \E key \in DOMAIN parts :
                 /\ s \in DOMAIN parts[key]
                 /\ parts[key][s] = mm[s]
                 /\ \A other \in DOMAIN parts \ {key} : s \notin DOMAIN parts[other]
<1>1. CASE TagNames
  <2>. DEFINE parts == SplitByTags(mm)
  <2>1. /\ DOMAIN parts = {MatchingTags[s] : s \in DOMAIN mm}
        /\ \A key \in DOMAIN parts :
              parts[key] = [s \in {s \in DOMAIN mm : MatchingTags[s] = key} |-> mm[s]]
    BY <1>1 DEF SplitByTags, Restrict
  <2>2. SUFFICES ASSUME NEW s \in DOMAIN mm
                 PROVE  /\ MatchingTags[s] \in DOMAIN parts
                        /\ s \in DOMAIN parts[MatchingTags[s]]
                        /\ parts[MatchingTags[s]][s] = mm[s]
                        /\ \A other \in DOMAIN parts \ {MatchingTags[s]} :
                              s \notin DOMAIN parts[other]
    OBVIOUS
  <2>. HIDE DEF parts
  <2>3. MatchingTags[s] \in DOMAIN parts
    BY <2>1
  <2>4. s \in DOMAIN parts[MatchingTags[s]] /\ parts[MatchingTags[s]][s] = mm[s]
    <3>1. parts[MatchingTags[s]]
             = [r \in {r \in DOMAIN mm : MatchingTags[r] = MatchingTags[s]} |-> mm[r]]
      BY <2>1, <2>3, Zenon
    <3> QED
      BY <3>1
  <2>5. ASSUME NEW other \in DOMAIN parts, other # MatchingTags[s]
        PROVE  s \notin DOMAIN parts[other]
    <3>1. DOMAIN parts[other] = {r \in DOMAIN mm : MatchingTags[r] = other}
      BY <2>1, Zenon
    <3> QED
      BY <3>1, <2>5
  <2>. QED  BY <2>3, <2>4, <2>5
<1>2. CASE ~TagNames
  BY <1>2 DEF SplitByTags
<1>. QED  BY <1>1, <1>2
=============================================================================
