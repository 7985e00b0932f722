----------------------------- MODULE TimerStats -----------------------------
(***************************************************************************)
(* What MetricAggregator.Flush computes of one timer: the statistics of    *)
(* its values, the same for the part of them below or above each           *)
(* configured percentile, or a histogram if the series has the tag for it. *)
(* Every result is compared with a definition that does not sort.          *)
(*                                                                         *)
(* Values are integers.  Quotients are kept as pairs and the median is     *)
(* doubled; standard deviation and rates are left out, as is the choice of *)
(* results that the configuration disables.                                *)
(***************************************************************************)
EXTENDS Integers, Sequences, FiniteSets, FiniteSetsExt, Functions, SequencesExt

CONSTANTS
    Values,             \* what a client may measure
    Weights,            \* the inverses of the sample rates
    PercentThresholds,  \* the configured percentiles, in percent
    Tags,               \* the values of the histogram tag: sequences of bounds
    NoTag,              \* the series has no such tag
    NotANumber,         \* a bound that does not parse
    Infinity,           \* above all values and bounds
    HistogramLimit,     \* timer-histogram-limit
    None,               \* not computed
    MaxValues           \* bound: values between two flushes


VARIABLES
    tag,        \* the histogram tag of the series, or NoTag
    values,     \* timer.Values
    sampled,    \* timer.SampledCount
    stats,      \* the statistics of the flush that has just been made, or None
    histogram,  \* timer.Histogram, a function from bounds to counts, or None
    received    \* what has been received since the last reset, in that order

vars == <<tag, values, sampled, stats, histogram, received>>

Init ==
    /\ tag \in Tags \cup {NoTag}
    /\ values = <<>>
    /\ sampled = 0
    /\ stats = None
    /\ histogram = None
    /\ received = <<>>

-----------------------------------------------------------------------------
(* Percentiles.                                                            *)

AbsoluteValue(x) == IF x < 0 THEN -x ELSE x

\* The sums of the prefixes of a sequence.
Cumulative(seq) ==
    LET sums[i \in 0 .. Len(seq)] == IF i = 0 THEN 0 ELSE sums[i - 1] + seq[i]
    IN  [i \in 1 .. Len(seq) |-> sums[i]]

Squares(seq) == [i \in 1 .. Len(seq) |-> seq[i] * seq[i]]

\* Mutant: the share of the values is truncated.
NumInThresholdTruncated(pct, n) ==
    IF n > 1 THEN (2 * AbsoluteValue(pct) * n) \div 200 ELSE n

\* round(|pct| / 100 * n), where a half is rounded up
NumInThreshold(pct, n) ==
    IF n > 1 THEN (2 * AbsoluteValue(pct) * n + 100) \div 200 ELSE n

\* An index into one of Go's slices, which count from 0; None stands for a panic.
At(seq, i) == IF i \in 0 .. Len(seq) - 1 THEN seq[i + 1] ELSE None

Difference(a, b) == IF None \in {a, b} THEN None ELSE a - b

\* None if the threshold is skipped.
PercentileOf(sorted, pct) ==
    LET n == Len(sorted)
        k == NumInThreshold(pct, n)
        cumul == Cumulative(sorted)
        cumulSquares == Cumulative(Squares(sorted))
    IN  IF k = 0 THEN None
        ELSE IF n = 1 \/ pct > 0
        THEN [count |-> k, boundary |-> At(sorted, k - 1),
              sum |-> At(cumul, k - 1), sumSquares |-> At(cumulSquares, k - 1)]
        ELSE [count |-> k, boundary |-> At(sorted, n - k),
              sum |-> Difference(At(cumul, n - 1), At(cumul, n - k - 1)),
              sumSquares |-> Difference(At(cumulSquares, n - 1),
                                        At(cumulSquares, n - k - 1))]

Median2(sorted) ==
    LET n == Len(sorted)
        mid == n \div 2
    IN  IF n % 2 = 0 THEN At(sorted, mid - 1) + At(sorted, mid)
                     ELSE 2 * At(sorted, mid)

Statistics(sorted) ==
    IF sorted = <<>> THEN [count |-> 0]
    ELSE [count |-> sampled,
          min |-> sorted[1],
          max |-> Last(sorted),
          sum |-> Last(Cumulative(sorted)),
          sumSquares |-> Last(Cumulative(Squares(sorted))),
          median2 |-> Median2(sorted),
          percentiles |-> [pct \in PercentThresholds |-> PercentileOf(sorted, pct)]]

-----------------------------------------------------------------------------
(* Histograms.                                                             *)

\* The bounds that parse, in the order of the tag, and no more than the limit.
retrieveThresholds ==
    LET parsed == SelectSeq(tag, LAMBDA bound : bound # NotANumber)
    IN  SubSeq(parsed, 1, Min({Len(parsed), HistogramLimit}))

emptyHistogram ==
    IF HistogramLimit = 0 THEN [bound \in {} |-> 0]
    ELSE [bound \in ToSet(retrieveThresholds) \cup {Infinity} |-> 0]

latencyHistogram ==
    [bound \in DOMAIN emptyHistogram |->
        IF bound = Infinity THEN Len(values)
        ELSE Len(SelectSeq(values, LAMBDA value : value <= bound))]

-----------------------------------------------------------------------------

Receive(v, weight) ==
    /\ stats = None
    /\ Len(values) < MaxValues
    /\ values' = Append(values, v)
    /\ sampled' = sampled + weight
    /\ received' = Append(received, v)
    /\ UNCHANGED <<tag, stats, histogram>>

\* A timer with the tag has a histogram and nothing else.
FlushHistogram ==
    /\ stats = None
    /\ tag # NoTag
    /\ stats' = [count |-> 0]
    /\ histogram' = latencyHistogram
    /\ UNCHANGED <<tag, values, sampled, received>>

\* Flush sorts timer.Values where they are.
FlushStatistics ==
    /\ stats = None
    /\ tag = NoTag
    /\ values' = SortSeq(values, <)
    /\ stats' = Statistics(values')
    /\ sampled' = IF values = <<>> THEN 0 ELSE sampled
    /\ UNCHANGED <<tag, histogram, received>>

\* The series is persisted: it is empty, but keeps its bounds.
Reset ==
    /\ stats # None
    /\ values' = <<>>
    /\ sampled' = 0
    /\ stats' = None
    /\ histogram' = IF tag = NoTag THEN None ELSE emptyHistogram
    /\ received' = <<>>
    /\ UNCHANGED tag

Next ==
    \/ \E v \in Values, weight \in Weights : Receive(v, weight)
    \/ FlushHistogram
    \/ FlushStatistics
    \/ Reset

Spec == Init /\ [][Next]_vars

-----------------------------------------------------------------------------
(* Properties.                                                             *)

Positions == DOMAIN received

SumOver(positions) == MapThenSumSet(LAMBDA i : received[i], positions)
SumSquaresOver(positions) == MapThenSumSet(LAMBDA i : received[i] ^ 2, positions)

\* The value that is the k-th in size, by counting.
Kth(k) ==
    CHOOSE v \in ToSet(received) :
        /\ Cardinality({i \in Positions : received[i] < v}) < k
        /\ k <= Cardinality({i \in Positions : received[i] <= v})

HasStatistics == stats # None /\ tag = NoTag /\ received # <<>>

\* The values of the timer are those received since the last reset, each with
\* its weight, and a timer is only counted as sampled when it has values.
TypeOK ==
    /\ tag \in Tags \cup {NoTag}
    /\ ToBag(values) = ToBag(received)
    /\ sampled >= Len(values)
    /\ values = <<>> => sampled = 0
    /\ stats # None => stats.count \in Nat
    /\ histogram # None => tag # NoTag

\* The statistics reported of a timer are those of the values received, whatever
\* their order, and not of what was there before the reset.
StatisticsExact ==
    HasStatistics =>
        /\ stats.min = Kth(1)
        /\ stats.max = Kth(Len(received))
        /\ stats.sum = SumOver(Positions)
        /\ stats.sumSquares = SumSquaresOver(Positions)
        /\ stats.median2 = Kth((Len(received) + 1) \div 2) + Kth(Len(received) \div 2 + 1)

\* p reports count of the values received, none of them above one it leaves out.
IsLowest(p) ==
    \E chosen \in kSubset(p.count, Positions) :
        /\ \A i \in chosen, j \in Positions \ chosen : received[i] <= received[j]
        /\ p.boundary = Max({received[i] : i \in chosen})
        /\ p.sum = SumOver(chosen)
        /\ p.sumSquares = SumSquaresOver(chosen)

IsHighest(p) ==
    \E chosen \in kSubset(p.count, Positions) :
        /\ \A i \in chosen, j \in Positions \ chosen : received[i] >= received[j]
        /\ p.boundary = Min({received[i] : i \in chosen})
        /\ p.sum = SumOver(chosen)
        /\ p.sumSquares = SumSquaresOver(chosen)

\* A positive percentile describes that share of the values, the lowest ones,
\* and a negative one the highest ones, to the nearest number of values, unless
\* the share is all of them (see NegativePercentileDefined) or none.
PercentilesExact ==
    HasStatistics =>
        \A pct \in PercentThresholds :
            LET p == stats.percentiles[pct]
                n == Len(received)
            IN  /\ p = None => 2 * AbsoluteValue(pct) * n < 100
                /\ p # None => /\ n > 1 => AbsoluteValue(100 * p.count
                                                         - AbsoluteValue(pct) * n) <= 50
                               /\ pct > 0 => IsLowest(p)
                               /\ pct < 0 /\ p.count < n => IsHighest(p)

\* README.md, "Timers": the metrics for a percentile, Lower_-XX among them, "will
\* be emitted for each configured percentile".
NegativePercentileDefined ==
    HasStatistics =>
        \A pct \in PercentThresholds :
            stats.percentiles[pct] # None => stats.percentiles[pct].sum # None

\* The bounds a histogram should have: those of the tag that can be read and have fewer than
\* HistogramLimit such bounds before them.
Bounds ==
    LET readable == {k \in DOMAIN tag : tag[k] # NotANumber}
    IN  {tag[k] : k \in {k \in readable : Cardinality({j \in readable : j < k}) < HistogramLimit}}

\* README.md, "Timer histograms": there is a bucket for each bound of the tag that can be read,
\* up to the limit, and one for +Inf, and for no other; each of the first counts the values
\* received that are not above its bound, and +Inf "is equivalent to <base>.count".  The last
\* is claimed for timers that were not sampled: for others the code counts values, not what
\* they stand for (SampledCount).  With the histogram of an empty timer, and of bounds that
\* are repeated, out of order or unreadable.
HistogramExact ==
    (stats # None /\ tag # NoTag) =>
        /\ DOMAIN histogram = IF HistogramLimit = 0 THEN {} ELSE Bounds \cup {Infinity}
        /\ \A bound \in Bounds :
            histogram[bound] = Cardinality({i \in Positions : received[i] <= bound})
        /\ HistogramLimit > 0 /\ sampled = Len(received) => histogram[Infinity] = sampled

=============================================================================
