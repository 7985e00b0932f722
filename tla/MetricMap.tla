----------------------------- MODULE MetricMap -----------------------------
(***************************************************************************)
(* gostatsd.MetricMap as a value: the operations on it, which are pure     *)
(* apart from the map they update.  A series stands for a type, a metric   *)
(* name and a tags key (which includes the source); a MetricMap is a       *)
(* function from the series it holds to their entries.                     *)
(*                                                                         *)
(* A metric is a record with its series, its value, the inverse of its     *)
(* sample rate (weight) and its timestamp (ts).  Values are integers       *)
(* counted in 1/Unit, so that a value can have a fraction.                 *)
(***************************************************************************)
EXTENDS Integers, Sequences, Functions

CONSTANTS
    Series,             \* every series of the system
    Type,               \* the type of each series
    Hash,               \* checksum of the name plus checksum of the source
    TagNames,           \* are there tag names to split by?
    MatchingTags,       \* the tags of each series that have one of them
    Unit                \* values are counted in 1/Unit

Types == {"counter", "gauge", "set", "timer"}

ASSUME TypeAssumption == Type \in [Series -> Types]
ASSUME HashAssumption == Hash \in [Series -> Nat]
ASSUME TagNamesAssumption == TagNames \in BOOLEAN
ASSUME MatchingTagsAssumption == DOMAIN MatchingTags = Series
ASSUME UnitAssumption == Unit \in Nat \ {0}

\* What an int64 conversion leaves of a value: it rounds towards zero.
Int64(value) == IF value >= 0 THEN value \div Unit ELSE -((-value) \div Unit)

Later(a, b) == IF a < b THEN b ELSE a

NewMetricMap == [s \in {} |-> 0]

-----------------------------------------------------------------------------
(* Receiving one metric.                                                   *)

NewEntry(m) ==
    CASE Type[m.series] = "counter" ->
            [ts |-> m.ts, value |-> Int64(m.value * m.weight)]
      [] Type[m.series] = "gauge" -> [ts |-> m.ts, value |-> m.value]
      [] Type[m.series] = "set" -> [ts |-> m.ts, values |-> {m.value}]
      [] Type[m.series] = "timer" ->
            [ts |-> m.ts, values |-> <<m.value>>, sampled |-> m.weight]

receiveCounter(c, m) ==
    [ts |-> Later(c.ts, m.ts), value |-> c.value + Int64(m.value * m.weight)]

\* A gauge gives way only to a metric that is strictly newer.
receiveGauge(g, m) ==
    IF m.ts > g.ts THEN [ts |-> m.ts, value |-> m.value] ELSE g

receiveSet(s, m) ==
    [ts |-> Later(s.ts, m.ts), values |-> s.values \cup {m.value}]

receiveTimer(t, m) ==
    [ts |-> Later(t.ts, m.ts),
     values |-> Append(t.values, m.value),
     sampled |-> t.sampled + m.weight]

ReceiveInto(entry, m) ==
    CASE Type[m.series] = "counter" -> receiveCounter(entry, m)
      [] Type[m.series] = "gauge" -> receiveGauge(entry, m)
      [] Type[m.series] = "set" -> receiveSet(entry, m)
      [] Type[m.series] = "timer" -> receiveTimer(entry, m)

Receive(mm, m) ==
    [s \in DOMAIN mm \cup {m.series} |->
        IF s # m.series THEN mm[s]
        ELSE IF s \in DOMAIN mm THEN ReceiveInto(mm[s], m)
        ELSE NewEntry(m)]

-----------------------------------------------------------------------------
(* Merging one map into another.                                           *)

MergeCounter(into, from) ==
    [ts |-> Later(into.ts, from.ts), value |-> into.value + from.value]

MergeGauge(into, from) == IF into.ts < from.ts THEN from ELSE into

MergeSet(into, from) ==
    [ts |-> Later(into.ts, from.ts), values |-> into.values \cup from.values]

MergeTimer(into, from) ==
    [ts |-> Later(into.ts, from.ts),
     values |-> into.values \o from.values,
     sampled |-> into.sampled + from.sampled]

MergeEntry(type, into, from) ==
    CASE type = "counter" -> MergeCounter(into, from)
      [] type = "gauge" -> MergeGauge(into, from)
      [] type = "set" -> MergeSet(into, from)
      [] type = "timer" -> MergeTimer(into, from)

Merge(mm, mmFrom) ==
    [s \in DOMAIN mm \cup DOMAIN mmFrom |->
        IF s \notin DOMAIN mmFrom THEN mm[s]
        ELSE IF s \in DOMAIN mm THEN MergeEntry(Type[s], mm[s], mmFrom[s])
        ELSE mmFrom[s]]

IsEmpty(mm) == DOMAIN mm = {}

-----------------------------------------------------------------------------
(* Taking a map apart: by worker, and by the tags that become headers.     *)

Bucket(s, count) == Hash[s] % count

Split(mm, count) ==
    [w \in 0 .. count - 1 |->
        Restrict(mm, {s \in DOMAIN mm : Bucket(s, count) = w})]

SplitByTags(mm) ==
    IF TagNames
    THEN [key \in {MatchingTags[s] : s \in DOMAIN mm} |->
            Restrict(mm, {s \in DOMAIN mm : MatchingTags[s] = key})]
    ELSE [key \in {""} |-> mm]

\* A map that is sent to another server: its series keep everything but the
\* timestamp, which becomes the time of arrival.
Restamp(mm, now) == [s \in DOMAIN mm |-> [mm[s] EXCEPT !.ts = now]]
=============================================================================
