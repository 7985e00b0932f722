------------------------- MODULE MetricConsolidator -------------------------
(***************************************************************************)
(* metric_consolidator.go: a fixed number of MetricMaps circulate through  *)
(* the channel "maps".  A receiver borrows one, merges its batch into it   *)
(* and puts it back.  The flusher collects all of them (Drain), hands them *)
(* on, and puts fresh ones in place (Fill).                                *)
(*                                                                         *)
(* A MetricMap is the set of batches merged into it.  How two MetricMaps   *)
(* merge is not the concern of this module; who holds which map, and       *)
(* whether a batch can be lost or counted twice on the way, is.            *)
(*                                                                         *)
(* There are two users of the type, and fillFirst tells them apart:        *)
(*   FALSE  Run/Flush, in the HTTP forwarder: Drain, send to sink, Fill;   *)
(*   TRUE   InternalStatser.NotifyFlush: Drain, Fill, dispatch the maps.   *)
(***************************************************************************)
EXTENDS Naturals, Sequences, FiniteSets

CONSTANTS
    Receivers,      \* goroutines calling ReceiveMetrics or ReceiveMetricMap
    Batches,        \* what they submit, each batch by one call
    Spots           \* cap(mc.maps)

ASSUME SpotsAssumption == Spots \in Nat \ {0}
ASSUME ReceiversAssumption == IsFiniteSet(Receivers)

VARIABLES
    fillFirst,      \* which of the two users has made this consolidator
    maps,           \* the channel: a sequence of MetricMaps
    rpc,            \* where each receiver is
    batch,          \* the batch a receiver is submitting
    mmTo,           \* the map a receiver has borrowed
    fpc,            \* where the flushing goroutine is
    mms,            \* maps collected so far by Drain
    drained,        \* the slice a successful Drain returned
    fillLeft,       \* iterations left of the loop in Fill
    cancelled,      \* the context of the flushing goroutine is done
    submitted,      \* batches some call has been made with
    delivered,      \* batches the sink (or the handler) has been given
    dropped         \* batches thrown away because the context was done

receiverVars == <<rpc, batch, mmTo, submitted>>
flusherVars == <<fpc, mms, drained, fillLeft>>
vars == <<fillFirst, maps, receiverVars, flusherVars, cancelled, delivered, dropped>>

NewMetricMap == {}

\* The batches in a sequence of maps.
Contents(s) == UNION {s[i] : i \in 1..Len(s)}

Init ==
    /\ fillFirst \in BOOLEAN
    /\ maps = [i \in 1..Spots |-> NewMetricMap]
    /\ rpc = [r \in Receivers |-> "idle"]
    /\ batch = [r \in Receivers |-> {}]
    /\ mmTo = [r \in Receivers |-> {}]
    /\ fpc = "idle"
    /\ mms = <<>>
    /\ drained = <<>>
    /\ fillLeft = 0
    /\ cancelled = FALSE
    /\ submitted = {}
    /\ delivered = {}
    /\ dropped = {}
-----------------------------------------------------------------------------
(* ReceiveMetrics and ReceiveMetricMap.  They take no context.             *)

ReceiveCall(r, b) ==
    /\ rpc[r] = "idle"
    /\ b \notin submitted
    /\ rpc' = [rpc EXCEPT ![r] = "take"]
    /\ batch' = [batch EXCEPT ![r] = {b}]
    /\ submitted' = submitted \cup {b}
    /\ UNCHANGED <<fillFirst, maps, mmTo, flusherVars, cancelled, delivered,
                   dropped>>

ReceiveTake(r) ==
    /\ rpc[r] = "take"
    /\ maps # <<>>
    /\ rpc' = [rpc EXCEPT ![r] = "put"]
    /\ mmTo' = [mmTo EXCEPT ![r] = Head(maps)]
    /\ maps' = Tail(maps)
    /\ UNCHANGED <<fillFirst, batch, submitted, flusherVars, cancelled,
                   delivered, dropped>>

\* The merge is private to the receiver, so it is one step with the put.
ReceivePut(r) ==
    /\ rpc[r] = "put"
    /\ Len(maps) < Spots
    /\ maps' = Append(maps, mmTo[r] \cup batch[r])
    /\ rpc' = [rpc EXCEPT ![r] = "idle"]
    /\ batch' = [batch EXCEPT ![r] = {}]
    /\ mmTo' = [mmTo EXCEPT ![r] = {}]
    /\ UNCHANGED <<fillFirst, submitted, flusherVars, cancelled, delivered,
                   dropped>>
-----------------------------------------------------------------------------
(* The flushing goroutine.                                                 *)

\* Run's select, or MetricFlusher.Run calling NotifyFlush.
Tick ==
    /\ fpc = "idle"
    /\ fpc' = "drain"
    /\ UNCHANGED <<fillFirst, maps, receiverVars, mms, drained, fillLeft,
                   cancelled, delivered, dropped>>

\* Mutant: Run returns after a flush although its context is not done.
StopEarly ==
    /\ fpc = "idle"
    /\ fpc' = "stopped"
    /\ UNCHANGED <<fillFirst, maps, receiverVars, mms, drained, fillLeft,
                   cancelled, delivered, dropped>>

Stop ==
    /\ fpc = "idle"
    /\ cancelled
    /\ fpc' = "stopped"
    /\ UNCHANGED <<fillFirst, maps, receiverVars, mms, drained, fillLeft,
                   cancelled, delivered, dropped>>

\* Mutant: Drain is done when the channel is empty, len instead of cap.
DrainTakeUntilEmpty ==
    /\ fpc = "drain"
    /\ maps # <<>>
    /\ maps' = Tail(maps)
    /\ IF Len(maps) > 1
       THEN /\ mms' = Append(mms, Head(maps))
            /\ UNCHANGED <<fpc, drained, fillLeft>>
       ELSE /\ mms' = <<>>
            /\ drained' = Append(mms, Head(maps))
            /\ fillLeft' = Len(mms) + 1
            /\ fpc' = IF fillFirst THEN "fill" ELSE "send"
    /\ UNCHANGED <<fillFirst, receiverVars, cancelled, delivered, dropped>>

\* One iteration of the loop in Drain; the last one returns the slice.
DrainTake ==
    /\ fpc = "drain"
    /\ maps # <<>>
    /\ maps' = Tail(maps)
    /\ LET collected == Append(mms, Head(maps))
       IN  IF Len(collected) < Spots
           THEN /\ mms' = collected
                /\ UNCHANGED <<fpc, drained, fillLeft>>
           ELSE /\ mms' = <<>>
                /\ drained' = collected
                /\ fillLeft' = Spots
                /\ fpc' = IF fillFirst THEN "fill" ELSE "send"
    /\ UNCHANGED <<fillFirst, receiverVars, cancelled, delivered, dropped>>

\* Mutant: a cancelled Drain forgets the maps it has collected.
DrainCancelForgets ==
    /\ fpc = "drain"
    /\ cancelled
    /\ fpc' = "idle"
    /\ mms' = <<>>
    /\ UNCHANGED <<fillFirst, maps, receiverVars, drained, fillLeft,
                   cancelled, delivered, dropped>>

DrainCancel ==
    /\ fpc = "drain"
    /\ cancelled
    /\ fpc' = IF mms = <<>> THEN "idle" ELSE "putback"
    /\ UNCHANGED <<fillFirst, maps, receiverVars, mms, drained, fillLeft,
                   cancelled, delivered, dropped>>

DrainPutBack ==
    /\ fpc = "putback"
    /\ Len(maps) < Spots
    /\ maps' = Append(maps, Head(mms))
    /\ mms' = Tail(mms)
    /\ fpc' = IF Len(mms) = 1 THEN "idle" ELSE "putback"
    /\ UNCHANGED <<fillFirst, receiverVars, drained, fillLeft, cancelled,
                   delivered, dropped>>

\* Where the flusher goes once the drained maps are dealt with.
AfterSend == IF fillFirst THEN "idle" ELSE "fill"

\* Flush: case mc.sink <- mms; NotifyFlush: the handler accepts the map.
Send ==
    /\ fpc = "send"
    /\ delivered' = delivered \cup Contents(drained)
    /\ drained' = <<>>
    /\ fpc' = AfterSend
    /\ UNCHANGED <<fillFirst, maps, receiverVars, mms, fillLeft, cancelled,
                   dropped>>

\* Flush: case <-ctx.Done(); NotifyFlush: the same select in the handler.
SendCancel ==
    /\ fpc = "send"
    /\ cancelled
    /\ dropped' = dropped \cup Contents(drained)
    /\ drained' = <<>>
    /\ fpc' = AfterSend
    /\ UNCHANGED <<fillFirst, maps, receiverVars, mms, fillLeft, cancelled,
                   delivered>>

\* Mutant: Fill puts the drained maps back into circulation.
FillPutReuses ==
    /\ fpc = "fill"
    /\ Len(maps) < Spots
    /\ maps' = Append(maps, IF fillFirst THEN drained[fillLeft] ELSE NewMetricMap)
    /\ fillLeft' = fillLeft - 1
    /\ fpc' = IF fillLeft > 1 THEN "fill"
              ELSE IF fillFirst THEN "send" ELSE "idle"
    /\ UNCHANGED <<fillFirst, receiverVars, mms, drained, cancelled,
                   delivered, dropped>>

\* One iteration of the loop in Fill.
FillPut ==
    /\ fpc = "fill"
    /\ Len(maps) < Spots
    /\ maps' = Append(maps, NewMetricMap)
    /\ fillLeft' = fillLeft - 1
    /\ fpc' = IF fillLeft > 1 THEN "fill"
              ELSE IF fillFirst THEN "send" ELSE "idle"
    /\ UNCHANGED <<fillFirst, receiverVars, mms, drained, cancelled,
                   delivered, dropped>>

Cancel ==
    /\ ~cancelled
    /\ cancelled' = TRUE
    /\ UNCHANGED <<fillFirst, maps, receiverVars, flusherVars, delivered,
                   dropped>>

\* Every call has been made and answered and the flusher has returned.
Finished ==
    /\ fpc = "stopped"
    /\ submitted = Batches
    /\ \A r \in Receivers : rpc[r] = "idle"
    /\ UNCHANGED vars

Receive(r) == ReceiveTake(r) \/ ReceivePut(r)

Flusher ==
    \/ Tick
    \/ Stop
    \/ DrainTake
    \/ DrainCancel
    \/ DrainPutBack
    \/ Send
    \/ SendCancel
    \/ FillPut

Next ==
    \/ \E r \in Receivers, b \in Batches : ReceiveCall(r, b)
    \/ \E r \in Receivers : Receive(r)
    \/ Flusher
    \/ Cancel
    \/ Finished

Spec == Init /\ [][Next]_vars

(* A goroutine that can run does run.  Goroutines blocked on a channel are *)
(* served in the order they arrived, so one that is enabled again and      *)
(* again on "maps" gets its turn; a select whose ctx.Done() stays ready    *)
(* chooses it sooner or later.  The reader of the sink keeps reading.      *)
Fairness ==
    /\ \A r \in Receivers : SF_vars(ReceiveTake(r)) /\ WF_vars(ReceivePut(r))
    /\ SF_vars(DrainTake)
    /\ SF_vars(Stop)
    /\ WF_vars(Flusher)

FairSpec == Spec /\ Fairness
-----------------------------------------------------------------------------
Holders == {r \in Receivers : rpc[r] = "put"}

\* Batches that have been merged and have not left the consolidator.
Pending ==
    Contents(maps) \cup Contents(mms) \cup UNION {mmTo[r] : r \in Receivers}

Accepted == Pending \cup Contents(drained) \cup delivered \cup dropped

TypeOK ==
    /\ fillFirst \in BOOLEAN
    /\ maps \in Seq(SUBSET Batches)
    /\ rpc \in [Receivers -> {"idle", "take", "put"}]
    /\ batch \in [Receivers -> SUBSET Batches]
    /\ mmTo \in [Receivers -> SUBSET Batches]
    /\ fpc \in {"idle", "drain", "putback", "send", "fill", "stopped"}
    /\ mms \in Seq(SUBSET Batches)
    /\ drained \in Seq(SUBSET Batches)
    /\ fillLeft \in 0..Spots
    /\ cancelled \in BOOLEAN
    /\ submitted \in SUBSET Batches
    /\ delivered \in SUBSET Batches
    /\ dropped \in SUBSET Batches

\* The maps in the channel, those lent to receivers, those Drain has
\* collected and those Fill still owes always add up to the capacity: no
\* path through Drain, Flush, Fill and the receivers mislays a slot or
\* mints one.
SlotsConserved ==
    Len(maps) + Cardinality(Holders) + Len(mms) + fillLeft = Spots

\* "Put everything back (we know it will fit exactly)": whoever is about to
\* send on the channel, a receiver, the cancelled Drain or Fill, finds room,
\* so none of these context-free sends can block.
PutsNeverBlock ==
    (\/ Holders # {}
     \/ fpc = "putback"
     \/ fpc = "fill") => Len(maps) < Spots

\* What a call submitted and completed is still somewhere: in a map, in the
\* slice being flushed, with the consumer, or given up by a cancelled flush.
NothingLost ==
    submitted = Accepted \cup UNION {batch[r] : r \in Receivers}

\* The number of places a batch is in.
Occurrences(b) ==
    LET In(s) == Cardinality({i \in 1..Len(s) : b \in s[i]})
        One(P) == IF P THEN 1 ELSE 0
    IN  In(maps) + In(mms) + In(drained)
        + Cardinality({r \in Receivers : b \in mmTo[r] \cup batch[r]})
        + One(b \in delivered) + One(b \in dropped)

\* No batch is ever in two maps, or delivered and still pending: a counter
\* merged from it is added once.
NothingDuplicated == \A b \in Batches : Occurrences(b) <= 1

\* The consolidator is a MetricBuffer: Drain takes everything accepted so
\* far in one step, although it collects the maps one at a time while
\* receivers go on merging into the ones it has not collected.
Buffer == INSTANCE MetricBuffer
            WITH pending <- Pending, snapshot <- Contents(drained)

ImplementsMetricBuffer == Buffer!Spec

\* Whatever is accepted reaches the consumer unless the context is done.  And
\* ReceiveMetricMap, which has no context and no timeout, still returns, also
\* when it is called during or after the shutdown of the flusher.
AcceptedIsFlushed ==
    /\ \A b \in Batches : b \in Accepted ~> b \in delivered \/ cancelled
    /\ \A r \in Receivers : rpc[r] = "take" ~> rpc[r] = "idle"
=============================================================================
