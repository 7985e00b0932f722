------------------------------- MODULE Ingest -------------------------------
(***************************************************************************)
(* The way of a datagram from the socket to the first handler:             *)
(* DatagramReceiver.Receive reads batches into buffers of a pool and hands *)
(* them to a DatagramParser over a channel without a buffer, which parses  *)
(* them into metrics of another pool, returns the buffers, collects the    *)
(* metrics in a map, returns them too and dispatches the map.              *)
(*                                                                         *)
(* A datagram has one line: a metric, an event, or a bad line that does    *)
(* not begin like an event.  What a buffer or a metric holds is the        *)
(* datagram it was filled from; Lexer has the lines.                       *)
(***************************************************************************)
EXTENDS Naturals, Sequences, FiniteSets, FiniteSetsExt, Functions, SequencesExt

CONSTANTS
    Readers,        \* goroutines in Receive
    Parsers,        \* goroutines in DatagramParser.Run
    KindOf,         \* what clients send, in the order of its arrival: a sequence of
                    \* "metric", "event" and "bad"
    MaxBuffers,     \* bound: buffers that exist
    MaxMetrics,     \* bound: metrics that exist
    BatchSize,      \* receiveBatchSize
    LogCapacity,    \* logRawMetricChannelBufferSize
    None

Datagrams == DOMAIN KindOf
Buffers == 1 .. MaxBuffers

VARIABLES
    socket,             \* datagrams not read yet
    mem,                \* what each buffer holds
    bufPool,
    reader,             \* [Readers -> [st, slots, dgs]]: slots are the retBuffers
    parser,             \* [Parsers -> [st, dgs, metrics, mm, accumE, accumB]]
    metric,             \* what each metric holds
    metricPool,
    made,               \* [buffers, metrics] that exist
    logRawMetricChan,   \* how many lists of metrics are waiting to be logged
    dispatched,         \* how often the handler got each datagram
    dropped,            \* datagrams of batches no parser took
    counters,           \* [received, metrics, events, bad]
    stage               \* what has been cancelled: "run", "receiver" or "parser"

vars == <<socket, mem, bufPool, reader, parser, metric, metricPool, made, logRawMetricChan,
          dispatched, dropped, counters, stage>>

\* A datagram that has been read: its buffer, and the client's datagram it stands for.
Datagram == [buf : Buffers, is : Datagrams]

\* Between two batches.
Selecting == [st |-> "select", dgs |-> <<>>, metrics |-> <<>>, mm |-> <<>>, accumE |-> 0, accumB |-> 0]

Init ==
    /\ socket = Datagrams
    /\ mem = [b \in Buffers |-> None]
    /\ \E slots \in [Readers -> [1 .. BatchSize -> Buffers]] :
        /\ {slots[r][i] : r \in Readers, i \in 1 .. BatchSize} = 1 .. BatchSize * Cardinality(Readers)
        /\ reader = [r \in Readers |-> [st |-> "read", slots |-> slots[r], dgs |-> <<>>]]
    /\ bufPool = {}
    /\ parser = [p \in Parsers |-> Selecting]
    /\ metric = [m \in 1 .. MaxMetrics |-> None]
    /\ metricPool = {}
    /\ made = [buffers |-> BatchSize * Cardinality(Readers), metrics |-> 0]
    /\ logRawMetricChan = 0
    /\ dispatched = [d \in Datagrams |-> 0]
    /\ dropped = {}
    /\ counters = [received |-> 0, metrics |-> 0, events |-> 0, bad |-> 0]
    /\ stage = "run"

-----------------------------------------------------------------------------
(* sync.Pool *)

\* Get takes n different members of the pool, or makes new ones, the next being numbers
\* existing + 1 and so on.
Get(n, pool, existing, max) ==
    {got \in [1 .. n -> pool \cup (existing + 1 .. max)] :
        /\ IsInjective(got)
        /\ Range(got) \ pool = existing + 1 .. existing + Cardinality(Range(got) \ pool)}

\* How many have been made after Get has returned got.
MadeBy(got, existing) == Max({existing} \cup Range(got))

-----------------------------------------------------------------------------
(* DatagramReceiver *)

\* Mutant: the buffers handed to the parser are read into again.
RefillKeeping(slots, fresh, n) == slots

\* Every slot whose buffer goes to the parser gets another one from the pool.
Refill(slots, fresh, n) == [i \in 1 .. BatchSize |-> IF i <= n THEN fresh[i] ELSE slots[i]]

\* ReadBatch returns n datagrams, in the order of their arrival.
Receive(r) ==
    /\ reader[r].st = "read"
    /\ \E n \in 1 .. BatchSize : \E fresh \in Get(n, bufPool, made.buffers, MaxBuffers) :
        LET read == [i \in 1 .. n |-> Min(socket) + i - 1] IN
        /\ n <= Cardinality(socket)
        /\ socket' = socket \ Range(read)
        /\ mem' = [b \in Buffers |->
                      IF \E i \in 1 .. n : reader[r].slots[i] = b
                      THEN read[CHOOSE i \in 1 .. n : reader[r].slots[i] = b] ELSE mem[b]]
        /\ bufPool' = bufPool \ Range(fresh)
        /\ made' = [made EXCEPT !.buffers = MadeBy(fresh, @)]
        /\ reader' = [reader EXCEPT
                         ![r] = [st |-> "send", slots |-> Refill(@.slots, fresh, n),
                                 dgs |-> [i \in 1 .. n |-> [buf |-> @.slots[i], is |-> read[i]]]]]
        /\ counters' = [counters EXCEPT !.received = @ + n]
    /\ UNCHANGED <<parser, metric, metricPool, logRawMetricChan, dispatched, dropped, stage>>

\* The socket has been closed, so ReadBatch fails.
ReceiveFails(r) ==
    /\ reader[r].st = "read"
    /\ stage # "run"
    /\ reader' = [reader EXCEPT ![r].st = "stopped"]
    /\ UNCHANGED <<socket, mem, bufPool, parser, metric, metricPool, made, logRawMetricChan,
                   dispatched, dropped, counters, stage>>

\* case <-ctx.Done() while no parser takes the batch.
ReceiveGivesUp(r) ==
    /\ reader[r].st = "send"
    /\ stage # "run"
    /\ dropped' = dropped \cup {dg.is : dg \in ToSet(reader[r].dgs)}
    /\ reader' = [reader EXCEPT ![r].st = "stopped", ![r].dgs = <<>>]
    /\ UNCHANGED <<socket, mem, bufPool, parser, metric, metricPool, made, logRawMetricChan,
                   dispatched, counters, stage>>

-----------------------------------------------------------------------------
(* DatagramParser *)

\* case dgs := <-dp.in
Take(r, p) ==
    /\ reader[r].st = "send"
    /\ parser[p].st = "select"
    /\ parser' = [parser EXCEPT ![p].st = "handle", ![p].dgs = reader[r].dgs]
    /\ reader' = [reader EXCEPT ![r].st = "read", ![r].dgs = <<>>]
    /\ UNCHANGED <<socket, mem, bufPool, metric, metricPool, made, logRawMetricChan, dispatched,
                   dropped, counters, stage>>

\* handleDatagram.  An event is dispatched at once; it is counted when the batch is done.  The
\* lexer takes a metric from the pool as soon as a line does not begin like an event, and nobody
\* returns it if the line turns out to be bad.
Handle(p) ==
    /\ parser[p].st = "handle"
    /\ parser[p].dgs # <<>>
    /\ LET read == mem[Head(parser[p].dgs).buf]
       IN  \/ /\ KindOf[read] \in {"metric", "bad"}
              /\ \E got \in Get(1, metricPool, made.metrics, MaxMetrics) :
                  /\ metricPool' = metricPool \ Range(got)
                  /\ made' = [made EXCEPT !.metrics = MadeBy(got, @)]
                  /\ IF KindOf[read] = "metric"
                     THEN /\ metric' = [metric EXCEPT ![got[1]] = read]
                          /\ parser' = [parser EXCEPT ![p].st = "free", ![p].metrics = @ \o got]
                     ELSE /\ parser' = [parser EXCEPT ![p].st = "free", ![p].accumB = @ + 1]
                          /\ UNCHANGED metric
              /\ UNCHANGED dispatched
           \/ /\ KindOf[read] = "event"
              /\ dispatched' = [dispatched EXCEPT ![read] = @ + 1]
              /\ parser' = [parser EXCEPT ![p].st = "free", ![p].accumE = @ + 1]
              /\ UNCHANGED <<metric, metricPool, made>>
    /\ UNCHANGED <<socket, mem, bufPool, reader, logRawMetricChan, dropped, counters, stage>>

\* dg.DoneFunc()
Free(p) ==
    /\ parser[p].st = "free"
    /\ bufPool' = bufPool \cup {Head(parser[p].dgs).buf}
    /\ parser' = [parser EXCEPT ![p].st = "handle", ![p].dgs = Tail(@)]
    /\ UNCHANGED <<socket, mem, reader, metric, metricPool, made, logRawMetricChan, dispatched,
                   dropped, counters, stage>>

\* MetricMap.Receive of the next metric, which goes back to the pool.
Collect(p) ==
    LET seen == Len(parser[p].mm)
    IN  /\ parser[p].st = "handle"
        /\ parser[p].dgs = <<>>
        /\ seen < Len(parser[p].metrics)
        /\ LET m == parser[p].metrics[seen + 1]
           IN  /\ parser' = [parser EXCEPT ![p].mm = Append(@, metric[m])]
               /\ metricPool' = metricPool \cup {m}
        /\ UNCHANGED <<socket, mem, bufPool, reader, metric, made, logRawMetricChan, dispatched,
                       dropped, counters, stage>>

\* DispatchMetricMap, if there is a metric.
Dispatch(p) ==
    /\ parser[p].st = "handle"
    /\ parser[p].dgs = <<>>
    /\ Len(parser[p].mm) = Len(parser[p].metrics)
    /\ dispatched' = [d \in Datagrams |->
                         dispatched[d] + Len(SelectSeq(parser[p].mm, LAMBDA x : x = d))]
    /\ parser' = [parser EXCEPT ![p].st = "log"]
    /\ UNCHANGED <<socket, mem, bufPool, reader, metric, metricPool, made, logRawMetricChan,
                   dropped, counters, stage>>

\* doLogRawMetric sends the metrics, which are in the pool by now, unless the channel is full;
\* then the counters are updated.
doLogRawMetric(p) ==
    /\ parser[p].st = "log"
    /\ logRawMetricChan' = IF parser[p].metrics = <<>> \/ logRawMetricChan = LogCapacity
                           THEN logRawMetricChan ELSE logRawMetricChan + 1
    /\ counters' = [counters EXCEPT !.metrics = @ + Len(parser[p].metrics),
                                    !.events = @ + parser[p].accumE, !.bad = @ + parser[p].accumB]
    /\ parser' = [parser EXCEPT ![p] = Selecting]
    /\ UNCHANGED <<socket, mem, bufPool, reader, metric, metricPool, made, dispatched, dropped,
                   stage>>

\* The goroutine of initLogRawMetric, which has the context of the first parser.
LogRawMetric ==
    /\ logRawMetricChan > 0
    /\ stage # "parser"
    /\ logRawMetricChan' = logRawMetricChan - 1
    /\ UNCHANGED <<socket, mem, bufPool, reader, parser, metric, metricPool, made, dispatched, dropped,
                   counters, stage>>

\* case <-ctx.Done()
ParserStops(p) ==
    /\ parser[p].st = "select"
    /\ stage = "parser"
    /\ parser' = [parser EXCEPT ![p].st = "stopped"]
    /\ UNCHANGED <<socket, mem, bufPool, reader, metric, metricPool, made, logRawMetricChan,
                   dispatched, dropped, counters, stage>>

-----------------------------------------------------------------------------

\* The stages are shut down in turn, the receiver before the parsers.
Cancel ==
    /\ \/ stage = "run" /\ stage' = "receiver"
       \/ /\ stage = "receiver"
          /\ \A r \in Readers : reader[r].st = "stopped"
          /\ stage' = "parser"
    /\ UNCHANGED <<socket, mem, bufPool, reader, parser, metric, metricPool, made, logRawMetricChan, dispatched, dropped, counters>>

Next ==
    \/ \E r \in Readers : Receive(r) \/ ReceiveFails(r) \/ ReceiveGivesUp(r)
    \/ \E r \in Readers, p \in Parsers : Take(r, p)
    \/ \E p \in Parsers :
        Handle(p) \/ Free(p) \/ Collect(p) \/ Dispatch(p) \/ doLogRawMetric(p) \/ ParserStops(p)
    \/ LogRawMetric
    \/ Cancel

Spec == Init /\ [][Next]_vars

-----------------------------------------------------------------------------
(* Properties *)

\* Datagrams that have been read and neither dispatched nor counted as bad yet.
InReader(d) == \E r \in Readers, dg \in Datagram : dg \in ToSet(reader[r].dgs) /\ dg.is = d
ToHandle(p) ==
    IF parser[p].st = "free" THEN ToSet(Tail(parser[p].dgs)) ELSE ToSet(parser[p].dgs)
InParser(d) == \E p \in Parsers : \E dg \in ToHandle(p) : dg.is = d
Parsed(p) ==
    IF parser[p].st = "log" THEN {}
    ELSE ToSet(parser[p].mm) \cup {metric[parser[p].metrics[i]] :
                                      i \in Len(parser[p].mm) + 1 .. Len(parser[p].metrics)}

Handled(kind) == Cardinality({d \in Datagrams \ socket : KindOf[d] = kind /\ ~InReader(d)
                                                         /\ ~InParser(d) /\ d \notin dropped})

\* What the parsers will add to a counter when their batches are done.
ToCount(Field(_)) == MapThenSumSet(LAMBDA p : Field(parser[p]), Parsers)

\* A datagram is handed on unchanged and once, however the goroutines share the two pools:
\* while a parser or a batch has a buffer, nobody reads into it, a metric is not reused
\* before it has been collected, and what is lost is only what no parser took when the
\* receiver stopped.  The counters report what happened.
DatagramsConserved ==
    /\ \A r \in Readers : \A dg \in ToSet(reader[r].dgs) : mem[dg.buf] = dg.is
    /\ \A p \in Parsers : \A dg \in ToHandle(p) : mem[dg.buf] = dg.is
    /\ \A d \in Datagrams \ socket :
        /\ dispatched[d] <= 1
        /\ KindOf[d] # "bad" =>
            Cardinality({x \in {"reader", "parser", "parsed", "dispatched", "dropped"} :
                            \/ x = "reader" /\ InReader(d)
                            \/ x = "parser" /\ InParser(d)
                            \/ x = "parsed" /\ \E p \in Parsers : d \in Parsed(p)
                            \/ x = "dispatched" /\ dispatched[d] = 1
                            \/ x = "dropped" /\ d \in dropped}) = 1
    /\ counters.received = Cardinality(Datagrams \ socket)
    /\ counters.metrics + ToCount(LAMBDA batch : Len(batch.metrics)) = Handled("metric")
    /\ counters.events + ToCount(LAMBDA batch : batch.accumE) = Handled("event")
    /\ counters.bad + ToCount(LAMBDA batch : batch.accumB) = Handled("bad")
====
