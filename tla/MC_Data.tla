------------------------------ MODULE MC_Data ------------------------------
(***************************************************************************)
(* For TLC: what happens to the data on its way, one part at a time.  The  *)
(* variable part says which; the variables of the other parts are Unused.  *)
(* The parts are the life of a series (Aggregator, which this module       *)
(* extends), the statistics of a timer, the lines of a datagram, the tags  *)
(* of a series, the payload of a flush, and the buffers of the receivers   *)
(* and parsers.                                                            *)
(***************************************************************************)
EXTENDS Aggregator, TLC

CONSTANTS Unused, None, NoSource, NoTag, NotANumber, NoHistogram, Ip, r1, p1, p2

VARIABLES
    part,
    tag, values, sampled, stats, histogram, received,               \* TimerStats
    lines, ignoreHost, l, rest, busy, outcome,                      \* Lexer
    tmm, filters, ttodo, mmNew, sent,                               \* TagHandler
    backend, disabled, pseries, ptimer, written, pst,                            \* Payload
    socket, mem, bufPool, reader, parser, metric, metricPool, made, logRawMetricChan,
    dispatched, dropped, counters, stage                            \* Ingest

timerVars == <<tag, values, sampled, stats, histogram, received>>
lexerVars == <<lines, ignoreHost, l, rest, busy, outcome>>
tagVars == <<tmm, filters, ttodo, mmNew, sent>>
payloadVars == <<backend, disabled, pseries, ptimer, written, pst>>
ingestVars == <<socket, mem, bufPool, reader, parser, metric, metricPool, made, logRawMetricChan,
                dispatched, dropped, counters, stage>>

-----------------------------------------------------------------------------
(* TagHandler: maps of up to three series that the filters may make the same. *)

\* Name, host and tags of a series: what tells it from the others of its map.
SeriesKeys ==
    {<<"a", h, t>> : h \in {"h", NoSource}, t \in {<<"t1">>, <<"t1", "t1", "t2">>, <<"s1">>}}
        \cup {<<"ab", "h", <<>>>>}

\* Two series of a map are told apart by their values as well.
ValueOf(type, key) ==
    LET n == Len(key[3]) IN
    CASE type = "timer" -> <<1, n>> [] type = "set" -> {1, n} [] OTHER -> n + 1

MapsOf(type) ==
    UNION {{{[type |-> type, name |-> k[1], source |-> k[2], tags |-> k[3], timestamp |-> at[k],
              value |-> ValueOf(type, k), sampled |-> 2] : k \in keys} : at \in [keys -> {1, 2}]} :
           keys \in kSubset(3, SeriesKeys) \cup kSubset(2, SeriesKeys)}

SomeMaps == UNION {MapsOf(type) : type \in {"counter", "gauge", "timer", "set"}}

Filter(match, exclude, tags, dropTags, dropMetric, dropHost) ==
    [matchMetrics |-> match, excludeMetrics |-> exclude, matchTags |-> tags,
     dropTags |-> dropTags, dropMetric |-> dropMetric, dropHost |-> dropHost]
Test(kind, test, invert) == [kind |-> kind, test |-> test, invert |-> invert]

DropT == Filter({}, {}, {}, {Test("prefix", "t", FALSE)}, FALSE, FALSE)
DropOthers == Filter({}, {Test("exact", "ab", FALSE)}, {}, {Test("exact", "s1", TRUE)}, FALSE, FALSE)
NoHost == Filter({Test("prefix", "a", FALSE)}, {}, {Test("regex", "t.*", FALSE)}, {}, FALSE, TRUE)
NoMetric == Filter({Test("exact", "ab", TRUE)}, {}, {Test("exact", "s1", FALSE)}, {}, TRUE, FALSE)

G == INSTANCE TagHandler WITH
        Maps <- SomeMaps,
        Filters <- {<<>>, <<DropT>>, <<DropOthers, NoHost>>, <<NoHost, NoMetric, DropT>>},
        StaticTags <- <<"s1", "s2", "s1">>,
        TagOrder <- <<"s1", "s2", "t1", "t2">>,
        Begins <- {<<"t1", "t">>, <<"t2", "t">>, <<"a", "a">>, <<"ab", "a">>},
        Matching <- {<<"t1", "t.*">>, <<"t2", "t.*">>},
        mm <- tmm, todo <- ttodo

-----------------------------------------------------------------------------
(* Aggregator *)

Metric(s, v, w) == [series |-> s, value |-> v, weight |-> w]

AllTypes == [s \in Series |-> IF s = "remote" THEN "gauge" ELSE s]
Hashes == [s \in Series |-> IF s \in {"counter", "timer"} THEN 6 ELSE 7]
Headers == [s \in Series |-> IF s \in {"counter", "timer"} THEN "env:a" ELSE "env:b"]

\* A counter of 3/2, sampled at 1/2, a counter of -1/2, two values of a gauge and of one that
\* is forwarded, two timers and two members of a set.
SomeMetrics ==
    {Metric("counter", 3, 2), Metric("counter", -1, 1),
     Metric("gauge", 2, 1), Metric("gauge", 4, 1), Metric("remote", 2, 1), Metric("remote", 4, 1),
     Metric("timer", 2, 2), Metric("timer", 4, 1),
     Metric("set", 1, 1), Metric("set", 2, 1)}

ServerGauge == {Metric("gauge", 6, 1)}

\* Counters are not kept, sets are kept for ever, the others for a while.
Mixed == [t \in Types |-> CASE t = "counter" -> -1 [] t = "set" -> 0 [] OTHER -> 2]

-----------------------------------------------------------------------------
(* TimerStats: bounds in order, out of order, repeated, unreadable, and more than the limit. *)

HistogramTags == {<<0, 2>>, <<2, -1, 2>>, <<NotANumber, 1, NotANumber, 0, -1>>, <<NotANumber>>}

T == INSTANCE TimerStats WITH
        Values <- {-1, 0, 2, 3}, Weights <- {1, 2}, PercentThresholds <- {90, 50, 5, -10, -50},
        Tags <- HistogramTags, Infinity <- 1000, HistogramLimit <- 2, MaxValues <- 5

-----------------------------------------------------------------------------
(* Lexer: datagrams of two lines: metrics, the same with one byte missing, and events. *)

MetricLines == {
    <<"x", "/", "!", " ", ":", "1", "|", "c">>,
    <<"!", ":", "1", "|", "g">>,
    <<"x", ":", "N", "|", "m", "s">>,
    <<"x", ":", "N", "|", "s", "|", "#", "x", ",", ",", "H", "x">>,
    <<"c", ":", "1", "2", "|", "m", "s", "|", "@", "1", "|", "#", "H", "s", ",", "x">>,
    <<"!", "x", ":", "1", "|", "h", "|", "@", "2", "|">>,
    <<"x", ":", "1", "|", "c", "|", "#", "H", "d">>}

SomeEvents == {
    [title |-> <<"x">>, text |-> <<"x", "\n", "n">>, date |-> 0, source |-> <<>>, key |-> <<>>,
     sourceType |-> <<>>, priority |-> "normal", alert |-> "info", tags |-> <<>>],
    [title |-> <<"|", "x">>, text |-> <<>>, date |-> 7, source |-> <<"x">>, key |-> <<"k">>,
     sourceType |-> <<"s">>, priority |-> "low", alert |-> "error", tags |-> <<<<"x">>, <<"d">>>>],
    [title |-> <<>>, text |-> <<"|">>, date |-> 0, source |-> <<>>, key |-> <<>>,
     sourceType |-> <<>>, priority |-> "normal", alert |-> "success", tags |-> <<<<"x">>>>]}

\* For constructEventMessage alone.
Encoder == INSTANCE Lexer WITH Datagrams <- {}, Events <- {}, Namespace <- <<"n">>, Now <- 9

SomeLines == MetricLines \cup {Encoder!constructEventMessage(e) : e \in SomeEvents}

\* The line without one of its bytes.
Shortened(line) == {RemoveAt(line, i) : i \in DOMAIN line}

\* An odd line before or after a good one.
SomeDatagrams ==
    LET odd == UNION {Shortened(line) : line \in SomeLines} \ {<<>>}
    IN  {<<a, b>> : a \in odd \cup {<<>>}, b \in SomeLines}
        \cup {<<a, b>> : a \in SomeLines, b \in odd}

L == INSTANCE Lexer WITH
        Datagrams <- SomeDatagrams, Events <- SomeEvents, Namespace <- <<"n">>, Now <- 9

-----------------------------------------------------------------------------
(* Payload: a series of each type, and timers with and without buckets. *)

FlushedSeries ==
    [type : {"counter", "gauge", "set"}, bounds : {NoHistogram}]
    \cup [type : {"timer"}, bounds : {NoHistogram, {}, {"+Inf"}, {"5", "10", "+Inf"}}]

DisabledSets ==
    UNION {kSubset(n, {"Lower", "Count", "StdDev", "CountPct", "UpperPct", "LowerPct"}) : n \in 0 .. 3}
    \cup {{"Lower", "Upper", "Count", "CountPerSecond", "Mean", "Median", "StdDev", "Sum",
           "SumSquares"}}

P == INSTANCE Payload WITH
        Series <- FlushedSeries, Disabled <- DisabledSets,
        PercentThresholds <- {900, 995, 100, -105}, MaxValues <- 5,
        series <- pseries, timer <- ptimer, st <- pst

-----------------------------------------------------------------------------
(* Ingest: two metrics, an event and a bad line. *)

I == INSTANCE Ingest WITH
        Readers <- {r1}, Parsers <- {p1, p2}, KindOf <- <<"metric", "event", "metric", "bad">>,
        MaxBuffers <- 4, MaxMetrics <- 3, BatchSize <- 2, LogCapacity <- 1

-----------------------------------------------------------------------------

AggregatorUnused ==
    now = Unused /\ left = Unused /\ edge = Unused /\ posted = Unused /\ queue = Unused
    /\ agg = Unused /\ due = Unused /\ unreported = Unused /\ newest = Unused
TimerUnused ==
    tag = Unused /\ values = Unused /\ sampled = Unused /\ stats = Unused
    /\ histogram = Unused /\ received = Unused
LexerUnused ==
    lines = Unused /\ ignoreHost = Unused /\ l = Unused /\ rest = Unused /\ busy = Unused
    /\ outcome = Unused
TagsUnused ==
    tmm = Unused /\ filters = Unused /\ ttodo = Unused /\ mmNew = Unused /\ sent = Unused
PayloadUnused ==
    backend = Unused /\ disabled = Unused /\ pseries = Unused /\ ptimer = Unused
    /\ written = Unused /\ pst = Unused
IngestUnused ==
    socket = Unused /\ mem = Unused /\ bufPool = Unused /\ reader = Unused /\ parser = Unused
    /\ metric = Unused /\ metricPool = Unused /\ made = Unused /\ logRawMetricChan = Unused
    /\ dispatched = Unused /\ dropped = Unused /\ counters = Unused /\ stage = Unused

DataInit ==
    /\ part \in {"series", "timer", "lexer", "tags", "payload", "ingest"}
    /\ IF part = "series" THEN Init ELSE AggregatorUnused
    /\ IF part = "timer" THEN T!Init ELSE TimerUnused
    /\ IF part = "lexer" THEN L!Init ELSE LexerUnused
    /\ IF part = "tags" THEN G!Init ELSE TagsUnused
    /\ IF part = "payload" THEN P!Init ELSE PayloadUnused
    /\ IF part = "ingest" THEN I!Init ELSE IngestUnused

DataNext ==
    /\ UNCHANGED part
    /\ \/ part = "series" /\ Next
          /\ UNCHANGED <<timerVars, lexerVars, tagVars, payloadVars, ingestVars>>
       \/ part = "timer" /\ T!Next
          /\ UNCHANGED <<vars, lexerVars, tagVars, payloadVars, ingestVars>>
       \/ part = "lexer" /\ L!Next
          /\ UNCHANGED <<vars, timerVars, tagVars, payloadVars, ingestVars>>
       \/ part = "tags" /\ G!Next
          /\ UNCHANGED <<vars, timerVars, lexerVars, payloadVars, ingestVars>>
       \/ part = "payload" /\ P!Next
          /\ UNCHANGED <<vars, timerVars, lexerVars, tagVars, ingestVars>>
       \/ part = "ingest" /\ I!Next
          /\ UNCHANGED <<vars, timerVars, lexerVars, tagVars, payloadVars>>

DataSpec == DataInit /\ [][DataNext]_<<part, vars, timerVars, lexerVars, tagVars, payloadVars, ingestVars>>

-----------------------------------------------------------------------------

\* Aggregator: what is received is reported, exactly.
SeriesConserved == part = "series" => CountsConserved /\ ValuesConserved

\* Aggregator: a series is reported until it expires, a gauge with its newest value.
SeriesKept == part = "series" => KeptUntilExpired /\ NewestGaugeWins

\* TimerStats: statistics, percentiles and histogram are those of the values.
TimersExact == part = "timer" => T!StatisticsExact /\ T!PercentilesExact /\ T!HistogramExact

\* Lexer: a line is read as what it says, whatever the lines before it were.
LinesReadExactly == part = "lexer" => L!LinesReadExactly

\* TagHandler: the map that is passed on has the series the filters make of the one that
\* arrived.
TagsExact == part = "tags" => G!TagsExact

\* Payload: at every flush a backend writes what is enabled of a series, once.
EnabledAreWritten == part = "payload" => P!EnabledAreWritten

\* Ingest: every datagram is handled once and is in one place, with a buffer of its own.
DatagramsConserved == part = "ingest" => I!DatagramsConserved
=============================================================================
