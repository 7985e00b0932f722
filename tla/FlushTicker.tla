---------------------------- MODULE FlushTicker ----------------------------
(***************************************************************************)
(* When a flush happens, and the time it is told has passed: the           *)
(* AlignedTicker of internal/util, or a ticker of the runtime, and Run of  *)
(* MetricFlusher, which takes the ticks and divides the counters by the    *)
(* time between them.                                                      *)
(*                                                                         *)
(* Goroutines are as slow as they like.  A timer of the runtime fires no   *)
(* later than Lag after it is due, and its channel holds one tick: those   *)
(* that find it full are dropped.  Ticks are times since an instant that   *)
(* Truncate rounds to.                                                     *)
(***************************************************************************)
EXTENDS Integers

CONSTANTS
    Interval,   \* flushInterval
    Offset,     \* flushOffset, less than Interval
    Lag,        \* less than Interval
    MaxTime,    \* bound: the time when the clock stops
    None

VARIABLES
    now,
    aligned,    \* flushAligned
    ticker,     \* the goroutine of the AlignedTicker: "start", "phase1", "phase2" or "gone"
    first,      \* when the first tick is due
    timer,      \* when its timer fires, or None
    timerC,     \* tmr.C: a time or None
    created,    \* when the repeating ticker was created
    next,       \* when the repeating ticker fires, or None
    tickerC,    \* tckr.C
    C,          \* the channel that Run receives from
    stopped,    \* chStop is closed
    flusher,    \* where Run is: "make", "time", "select", "flush" or "returned"
    lastFlush,
    thisFlush,
    flushed     \* a flush is done

vars == <<now, aligned, ticker, first, timer, timerC, created, next, tickerC, C, stopped, flusher,
          lastFlush, thisFlush, flushed>>

Init ==
    /\ now \in Interval .. 2 * Interval - 1
    /\ aligned \in BOOLEAN
    /\ ticker = "gone"
    /\ first = None
    /\ timer = None
    /\ timerC = None
    /\ created = None
    /\ next = None
    /\ tickerC = None
    /\ C = None
    /\ stopped = FALSE
    /\ flusher = "make"
    /\ lastFlush = None
    /\ thisFlush = None
    /\ flushed = FALSE

-----------------------------------------------------------------------------
(* The clock and the timers of the runtime *)

InTime(due) == due # None => now < due + Lag

Passes ==
    /\ now < MaxTime
    /\ InTime(timer) /\ InTime(next)
    /\ now' = now + 1
    /\ UNCHANGED <<aligned, ticker, first, timer, timerC, created, next, tickerC, C, stopped,
                   flusher, lastFlush, thisFlush, flushed>>

TimerFires ==
    /\ timer # None
    /\ now >= timer
    /\ timer' = None
    /\ timerC' = now
    /\ UNCHANGED <<now, aligned, ticker, first, created, next, tickerC, C, stopped, flusher,
                   lastFlush, thisFlush, flushed>>

TickerFires ==
    /\ next # None
    /\ now >= next
    /\ next' = next + Interval
    /\ IF aligned
       THEN tickerC' = (IF tickerC = None THEN now ELSE tickerC) /\ UNCHANGED C
       ELSE C' = (IF C = None THEN now ELSE C) /\ UNCHANGED tickerC
    /\ UNCHANGED <<now, aligned, ticker, first, timer, timerC, created, stopped, flusher,
                   lastFlush, thisFlush, flushed>>

-----------------------------------------------------------------------------
(* AlignedTicker *)

Truncate(t) == t - (t % Interval)

roundup(t) == Truncate(t) + Interval

\* The goroutine looks at the clock and starts the timer.
Start ==
    /\ ticker = "start"
    /\ ticker' = "phase1"
    /\ first' = roundup(now - Offset) + Offset
    /\ timer' = first'
    /\ UNCHANGED <<now, aligned, timerC, created, next, tickerC, C, stopped, flusher, lastFlush,
                   thisFlush, flushed>>

\* Mutant: the tick is sent as it fired.
sendTickUnrounded(t) ==
    \/ C = None /\ C' = t /\ ticker' = "phase2"
    \/ stopped /\ ticker' = "gone" /\ UNCHANGED C
    \/ C # None /\ ~stopped /\ ticker' = "phase2" /\ UNCHANGED C

\* A tick that finds the channel full is dropped.
sendTick(t) ==
    \/ C = None /\ C' = Truncate(t - Offset) + Offset /\ ticker' = "phase2"
    \/ stopped /\ ticker' = "gone" /\ UNCHANGED C
    \/ C # None /\ ~stopped /\ ticker' = "phase2" /\ UNCHANGED C

Phase1 ==
    /\ ticker = "phase1"
    /\ timerC # None
    /\ timerC' = None
    /\ sendTick(timerC)
    /\ created' = now
    /\ next' = IF ticker' = "gone" THEN None ELSE now + Interval
    /\ UNCHANGED <<now, aligned, first, timer, tickerC, stopped, flusher, lastFlush, thisFlush,
                   flushed>>

Phase2 ==
    /\ ticker = "phase2"
    /\ tickerC # None
    /\ tickerC' = None
    /\ sendTick(tickerC)
    /\ next' = IF ticker' = "gone" THEN None ELSE next
    /\ UNCHANGED <<now, aligned, first, timer, timerC, created, stopped, flusher, lastFlush,
                   thisFlush, flushed>>

\* case <-at.chStop, in either phase
Stopped ==
    /\ ticker \in {"phase1", "phase2"}
    /\ stopped
    /\ ticker' = "gone"
    /\ timer' = None
    /\ next' = None
    /\ UNCHANGED <<now, aligned, first, timerC, created, tickerC, C, stopped, flusher, lastFlush,
                   thisFlush, flushed>>

-----------------------------------------------------------------------------
(* MetricFlusher *)

makeTicker ==
    /\ flusher = "make"
    /\ flusher' = "time"
    /\ IF aligned THEN ticker' = "start" /\ UNCHANGED <<created, next, first>>
       ELSE created' = now /\ next' = now + Interval /\ first' = next' /\ UNCHANGED ticker
    /\ UNCHANGED <<now, aligned, timer, timerC, tickerC, C, stopped, lastFlush, thisFlush, flushed>>

\* lastFlush := time.Now(), when the ticker runs already
TimeNow ==
    /\ flusher = "time"
    /\ flusher' = "select"
    /\ lastFlush' = now
    /\ UNCHANGED <<now, aligned, ticker, first, timer, timerC, created, next, tickerC, C, stopped,
                   thisFlush, flushed>>

\* case thisFlush := <-ch: the flush is told thisFlush - lastFlush.
Flush ==
    /\ flusher = "select"
    /\ C # None
    /\ thisFlush' = C
    /\ C' = None
    /\ flusher' = "flush"
    /\ UNCHANGED <<now, aligned, ticker, first, timer, timerC, created, next, tickerC, stopped,
                   lastFlush, flushed>>

FlushDone ==
    /\ flusher = "flush"
    /\ flusher' = "select"
    /\ lastFlush' = thisFlush
    /\ flushed' = TRUE
    /\ UNCHANGED <<now, aligned, ticker, first, timer, timerC, created, next, tickerC, C, stopped,
                   thisFlush>>

\* case <-ctx.Done()
Return ==
    /\ flusher = "select"
    /\ flusher' = "returned"
    /\ stopped' = TRUE
    /\ next' = IF aligned THEN next ELSE None
    /\ UNCHANGED <<now, aligned, ticker, first, timer, timerC, created, tickerC, C, lastFlush,
                   thisFlush, flushed>>

Next ==
    \/ Passes \/ TimerFires \/ TickerFires
    \/ Start \/ Phase1 \/ Phase2 \/ Stopped
    \/ makeTicker \/ TimeNow \/ Flush \/ FlushDone \/ Return

Spec == Init /\ [][Next]_vars

-----------------------------------------------------------------------------
(* Properties *)

\* Run had looked at the clock when the first tick was due.
LookedInTime == flushed \/ lastFlush < first

\* No timer of the runtime fires so late that it is rounded to the next tick.
NeverRoundedUp == ((created - Offset) % Interval) + Lag < Interval

\* A flush is told of a time that is not in the future and, if it is aligned, is a multiple
\* of the interval but for the offset.  It is later than the one before, so that the rates
\* of counters are divided by a positive time, however slow the flushes and the goroutines
\* are and whichever ticks are dropped.  Two things are needed.  The first tick may be
\* earlier than the time that Run starts from, because Run looks at the clock after the
\* ticker does.  And ticks that are rounded may be the same when the repeating ticker was
\* created long after the first instant.
FlushTimesAdvance ==
    flusher = "flush" =>
        /\ thisFlush <= now
        /\ aligned => (thisFlush - Offset) % Interval = 0
        /\ thisFlush >= lastFlush \/ ~LookedInTime
        /\ thisFlush > lastFlush \/ ~LookedInTime \/ (aligned /\ ~NeverRoundedUp)
====
