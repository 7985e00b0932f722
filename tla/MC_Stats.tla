------------------------------ MODULE MC_Stats ------------------------------
(***************************************************************************)
(* For TLC: what the flushes of the server's own metrics rest on, one part *)
(* at a time.  The variable part says which: the MetricConsolidator that   *)
(* collects them, which this module extends, the ticker that flushes them, *)
(* or the notifications after a flush.  The other parts stay as they were  *)
(* created.                                                                *)
(***************************************************************************)
EXTENDS MetricConsolidator

CONSTANTS r1, r2, b1, b2, b3, None, Http, Parser, Watcher

MCReceivers == {r1, r2}
MCBatches == {b1, b2, b3}

VARIABLES
    part,
    now, aligned, ticker, first, timer, timerC, created, next, tickerC, C, stopped, flusher,
    lastFlush, thisFlush, flushed,                                              \* FlushTicker
    flushTargets, hook, closed, consumer, swapped, counters, counted, sent, halfway, badLines,
    reported, changed, csw, taken                                               \* FlushNotifier

F == INSTANCE FlushTicker WITH Interval <- 3, Offset <- 1, Lag <- 1, MaxTime <- 14

N == INSTANCE FlushNotifier WITH
        repeatCount <- 2, Capacity <- 2, MaxRequests <- 1, MaxSamples <- 2, MaxConsumers <- 2

tickerVars == <<now, aligned, ticker, first, timer, timerC, created, next, tickerC, C, stopped,
                flusher, lastFlush, thisFlush, flushed>>
notifyVars == <<flushTargets, hook, closed, consumer, swapped, counters, counted, sent, halfway,
                badLines, reported, changed, csw, taken>>

\* The parts that are not looked at have one initial state.
StatsInit ==
    /\ part \in {"consolidator", "ticker", "notifier"}
    /\ Init /\ F!Init /\ N!Init
    /\ part # "consolidator" => fillFirst
    /\ part # "ticker" => aligned /\ now = 3
    /\ part # "notifier" => \A c \in N!Consumers : consumer[c] = "absent"

\* The ticker and the notifier may stop: the clock does, and whoever is notified.
StatsNext ==
    \/ part = "consolidator" /\ Next /\ UNCHANGED <<part, tickerVars, notifyVars>>
    \/ part = "ticker" /\ F!Next /\ UNCHANGED <<part, vars, notifyVars>>
    \/ part = "notifier" /\ N!Next /\ UNCHANGED <<part, vars, tickerVars>>
    \/ part # "consolidator" /\ UNCHANGED <<part, vars, tickerVars, notifyVars>>

Collecting(A) == part = "consolidator" /\ A

StatsSpec ==
    /\ StatsInit
    /\ [][StatsNext]_<<part, vars, tickerVars, notifyVars>>
    /\ \A r \in Receivers :
        SF_vars(Collecting(ReceiveTake(r))) /\ WF_vars(Collecting(ReceivePut(r)))
    /\ SF_vars(Collecting(DrainTake))
    /\ SF_vars(Collecting(Stop))
    /\ WF_vars(Collecting(Flusher))

\* A flush is told of a positive time (see FlushTicker).
FlushTimesAdvance == F!FlushTimesAdvance

\* What is counted is reported once, whichever notifications are dropped (see FlushNotifier).
ReportsExact == N!ReportsExact
=============================================================================
