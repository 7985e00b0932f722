------------------------------ MODULE Payload ------------------------------
(***************************************************************************)
(* Which statistics of a series reach the output of a backend.  The option *)
(* disabled-sub-metrics is applied in two places: the MetricAggregator     *)
(* makes no percentile of a disabled kind, and the preparePayload,         *)
(* processMetrics or buildMetricData of each backend leaves out the other  *)
(* statistics.  A series is received, flushed, written and reset, again    *)
(* and again; TimerStats and Aggregator have its values.                   *)
(*                                                                         *)
(* What is written is a sequence of entries, in the order of the code: a   *)
(* line, a datum, or a field of influxdb.  An entry says which statistic   *)
(* it is; keys, the names made from them, tags, hosts and values are left  *)
(* out.  So is newrelic, whose timers have four statistics whether they    *)
(* are disabled or not.                                                    *)
(***************************************************************************)
EXTENDS Integers, Sequences, FiniteSets, Functions, SequencesExt

CONSTANTS
    Series,             \* [type, bounds]: bounds is the set of those in the histogram tag
                        \* and +Inf, or NoHistogram if the series has no such tag
    Disabled,           \* the sets of subtypes that may be disabled
    PercentThresholds,  \* the configured percentiles, in tenths of a percent
    NoHistogram,        \* a nil histogram
    MaxValues           \* bound: values of a timer between two flushes

VARIABLES
    backend,        \* with its mode
    disabled,       \* disabledSubtypes, the same in the aggregator and the backend
    series,
    timer,          \* [values, percentiles, histogram]: how many values, the names of the
                    \* percentiles in the order in which they were set, the bounds
    written,        \* the entries of this flush
    st              \* "open", "flushed", "written" or "panic"

vars == <<backend, disabled, series, timer, written, st>>

Backends == {"datadog", "influxdb", "cloudwatch", "graphite_legacy", "graphite", "stdout"}

Init ==
    /\ backend \in Backends
    /\ disabled \in Disabled
    /\ series \in Series
    /\ timer = [values |-> 0, percentiles |-> <<>>, histogram |-> NoHistogram]
    /\ written = <<>>
    /\ st = "open"

-----------------------------------------------------------------------------
(* MetricAggregator *)

Receive ==
    /\ st = "open"
    /\ timer.values < MaxValues
    /\ timer' = [timer EXCEPT !.values = @ + 1]
    /\ UNCHANGED <<backend, disabled, series, written, st>>

Magnitude(x) == IF x < 0 THEN -x ELSE x

\* int(pct), which is what the names of a threshold end in.
Truncated(pct) == IF pct < 0 THEN -(Magnitude(pct) \div 10) ELSE pct \div 10

\* round(|pct| / 100 * n)
NumInThreshold(pct, n) == IF n > 1 THEN (2 * Magnitude(pct) * n + 1000) \div 2000 ELSE n

\* The calls of Percentiles.Set for one threshold.
SetPercentiles(pct, n) ==
    LET subtypes == <<"CountPct", "MeanPct", "SumPct", "SumSquaresPct",
                      IF pct > 0 THEN "UpperPct" ELSE "LowerPct">>
        enabled == SelectSeq(subtypes, LAMBDA s : s \notin disabled)
    IN  IF NumInThreshold(pct, n) = 0 THEN <<>>
        ELSE [i \in DOMAIN enabled |-> <<enabled[i], Truncated(pct)>>]

\* Flush goes through a Go map of thresholds in any order, for which one order stands.
Flush ==
    /\ st = "open"
    /\ st' = "flushed"
    /\ timer' = IF series.bounds # NoHistogram THEN [timer EXCEPT !.histogram = series.bounds]
                ELSE IF timer.values = 0 THEN timer
                ELSE [timer EXCEPT !.percentiles = @ \o
                        FlattenSeq([i \in 1 .. Cardinality(PercentThresholds) |->
                            SetPercentiles(SetToSeq(PercentThresholds)[i], timer.values)])]
    /\ UNCHANGED <<backend, disabled, series, written>>

\* Mutant: the timer that is kept has its percentiles still.
ResetKeepsPercentiles ==
    /\ st = "written"
    /\ st' = "open"
    /\ timer' = [timer EXCEPT !.values = 0, !.histogram = series.bounds]
    /\ written' = <<>>
    /\ UNCHANGED <<backend, disabled, series>>

\* The series is kept; emptyHistogram of a series without the tag is not called.
Reset ==
    /\ st = "written"
    /\ st' = "open"
    /\ timer' = [values |-> 0, percentiles |-> <<>>, histogram |-> series.bounds]
    /\ written' = <<>>
    /\ UNCHANGED <<backend, disabled, series>>

-----------------------------------------------------------------------------
(* The backends *)

Subtypes == <<"Lower", "Upper", "Count", "CountPerSecond", "Mean", "Median", "StdDev", "Sum",
              "SumSquares">>

BaseTimer ==
    LET enabled == SelectSeq(Subtypes, LAMBDA s : s \notin disabled)
    IN  [i \in DOMAIN enabled |-> <<enabled[i]>>] \o timer.percentiles

\* A Go map as well.
Buckets == SetToSeq({<<"Histogram", bound>> : bound \in timer.histogram})

Timer == IF timer.histogram # NoHistogram THEN Buckets ELSE BaseTimer

Write(counter) ==
    /\ st = "flushed"
    /\ st' = "written"
    /\ written' = CASE series.type = "counter" -> counter
                    [] series.type = "timer" -> Timer
                    [] OTHER -> <<<<"Value">>>>
    /\ UNCHANGED <<backend, disabled, series, timer>>

ValueThenRate == <<<<"Value">>, <<"PerSecond">>>>
RateThenValue == Reverse(ValueThenRate)

datadogProcessMetrics == backend = "datadog" /\ Write(RateThenValue)

stdoutPreparePayload == backend = "stdout" /\ Write(ValueThenRate)

buildMetricData == backend = "cloudwatch" /\ Write(ValueThenRate)

\* The value and the rate of a counter differ in their namespace in legacy mode, else in
\* their suffix.
graphitePreparePayload == backend \in {"graphite_legacy", "graphite"} /\ Write(ValueThenRate)

\* addHistogramTimer cuts the last comma off the fields, of which there are none if
\* timer-histogram-limit is 0: the slice is out of range.
NoFields == series.type = "timer" /\ timer.histogram = {}

influxProcessMetrics == backend = "influxdb" /\ ~NoFields /\ Write(ValueThenRate)

influxPanics ==
    /\ backend = "influxdb" /\ st = "flushed" /\ NoFields
    /\ st' = "panic"
    /\ UNCHANGED <<backend, disabled, series, timer, written>>

Next ==
    \/ Receive
    \/ Flush
    \/ datadogProcessMetrics
    \/ stdoutPreparePayload
    \/ buildMetricData
    \/ graphitePreparePayload
    \/ influxProcessMetrics
    \/ influxPanics
    \/ Reset

Spec == Init /\ [][Next]_vars

-----------------------------------------------------------------------------
(* Properties *)

\* The share of the values that the threshold stands for is half a value or more.
HasValues(pct) == timer.values = 1 \/ 2 * Magnitude(pct) * timer.values >= 1000

\* README.md, "Configuring timer sub-metrics": the metrics of a timer, with those of every
\* percentile that has values: the upper bound of a positive one, the lower of a negative one.
\* Of a timer that has received nothing percentiles "are not sent at all" (README.md:165).
WantedOfTimer ==
    {<<s>> : s \in {"Count", "CountPerSecond", "Mean", "Median", "Lower", "Upper", "StdDev", "Sum",
                    "SumSquares"} \ disabled}
    \cup
    {<<s, Truncated(pct)>> :
        s \in {"CountPct", "MeanPct", "SumPct", "SumSquaresPct", "UpperPct"} \ disabled,
        pct \in {p \in PercentThresholds : p > 0 /\ HasValues(p)}}
    \cup
    {<<s, Truncated(pct)>> :
        s \in {"CountPct", "MeanPct", "SumPct", "SumSquaresPct", "LowerPct"} \ disabled,
        pct \in {p \in PercentThresholds : p < 0 /\ HasValues(p)}}

Wanted ==
    CASE series.type = "counter" -> {<<"Value">>, <<"PerSecond">>}
      [] series.type = "timer" /\ series.bounds # NoHistogram ->
            {<<"Histogram", bound>> : bound \in series.bounds}
      [] series.type = "timer" -> WantedOfTimer
      [] OTHER -> {<<"Value">>}

\* Whatever is written of a series at a flush, the first or one of many, is every statistic of
\* it that is not disabled, once each, and nothing else: what the aggregator makes of a
\* disabled-sub-metrics section and what the backend makes of it fit together, a timer with
\* the histogram tag has its buckets instead, and no percentile of an earlier flush is there
\* again.  Two thresholds with the same integer part have the same names; the configurations
\* checked have no two such.
EnabledAreWritten ==
    st = "written" => IsInjective(written) /\ ToSet(written) = Wanted
====
