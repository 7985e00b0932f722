---------------------------- MODULE HttpForwarder ----------------------------
(***************************************************************************)
(* pkg/statsd/handler_http_forwarder_v2.go: Run takes what the consolidator*)
(* flushes, splits it by the values of the dynamic headers and starts a    *)
(* goroutine for each part, limited by the semaphore metricsSem.  A        *)
(* goroutine posts its message until it succeeds, until the backoff gives  *)
(* up, or until the context is done.  Events have a goroutine each, outside*)
(* the semaphore, and eventWg counts them.                                 *)
(*                                                                         *)
(* The consolidator is MetricBuffer, which MetricConsolidator implements.  *)
(* Its batches are single series here; the wire format and the headers are *)
(* abstracted to the set of series in a message.                           *)
(***************************************************************************)
EXTENDS Integers, Sequences, FiniteSets

CONSTANTS
    Batches,            \* series to forward
    Events,
    DynHeaders,         \* TRUE if dynamic headers are configured
    Key,                \* tagsMatch of every series
    MaxRequests,
    MaxTries,           \* bound: attempts before the backoff must stop
    MaxFlushes          \* bound: flushes of the consolidator

Items == Batches \cup Events

ASSUME ItemsAssumption == Batches \cap Events = {}
ASSUME LimitsAssumption ==
    /\ {MaxRequests, MaxTries} \subseteq Nat \ {0}
    /\ MaxFlushes \in Nat
    /\ DynHeaders \in BOOLEAN

VARIABLES
    pending, snapshot, delivered, dropped,      \* the consolidator
    flushing,           \* its Flush is sending to the sink
    flushes,            \* flushes so far
    consolidatorDone,   \* its Run has returned
    rpc,                \* where Run is
    mms,                \* what SplitByTags returned and Run has not started yet
    metricsSem,         \* tokens in the semaphore
    posts,              \* the goroutines, by postId
    eventWg,
    dispatched,         \* events dispatched
    messagesInvalid, messagesCreated, messagesSent, messagesRetried, messagesDropped,
    received,           \* how often the upstream server got each item
    outcome,            \* what became of each item
    cancelled           \* the context of Run is done

Buffer == INSTANCE MetricBuffer

bufferVars == <<pending, snapshot, delivered, dropped>>
flushVars == <<flushing, flushes, consolidatorDone>>
runVars == <<rpc, mms>>
counterVars == <<messagesInvalid, messagesCreated, messagesSent, messagesRetried,
                 messagesDropped>>
eventVars == <<eventWg, dispatched>>
resultVars == <<received, outcome>>
vars == <<bufferVars, flushVars, runVars, metricsSem, posts, eventVars, counterVars,
          resultVars, cancelled>>

Init ==
    /\ Buffer!Init
    /\ flushing = FALSE
    /\ flushes = 0
    /\ consolidatorDone = FALSE
    /\ rpc = "select"
    /\ mms = {}
    /\ metricsSem = MaxRequests
    /\ posts = <<>>
    /\ eventWg = 0
    /\ dispatched = {}
    /\ messagesInvalid = 0
    /\ messagesCreated = 0
    /\ messagesSent = 0
    /\ messagesRetried = 0
    /\ messagesDropped = 0
    /\ received = [i \in Items |-> 0]
    /\ outcome = [i \in Items |-> "none"]
    /\ cancelled = FALSE

Post(items, kind) == [items |-> items, kind |-> kind, st |-> "construct", tries |-> 0]

Settle(items, how) == outcome' = [i \in Items |-> IF i \in items THEN how ELSE outcome[i]]
-----------------------------------------------------------------------------
(* The consolidator                                                        *)

DispatchMetricMap(b) ==
    /\ Buffer!Accept(b)
    /\ UNCHANGED <<flushVars, runVars, metricsSem, posts, eventVars, counterVars,
                   resultVars, cancelled>>

Flush ==
    /\ ~consolidatorDone
    /\ ~flushing
    /\ flushes < MaxFlushes
    /\ Buffer!Snapshot
    /\ flushing' = TRUE
    /\ flushes' = flushes + 1
    /\ UNCHANGED <<consolidatorDone, runVars, metricsSem, posts, eventVars, counterVars,
                   resultVars, cancelled>>

\* Mutant: Flush sends to its sink without looking at the context.
ConsolidatorReturnsUnlessSending ==
    /\ cancelled
    /\ ~consolidatorDone
    /\ ~flushing
    /\ Buffer!GiveUp
    /\ flushing' = FALSE
    /\ consolidatorDone' = TRUE
    /\ UNCHANGED <<flushes, runVars, metricsSem, posts, eventVars, counterVars, resultVars,
                   cancelled>>

ConsolidatorReturns ==
    /\ cancelled
    /\ ~consolidatorDone
    /\ Buffer!GiveUp
    /\ flushing' = FALSE
    /\ consolidatorDone' = TRUE
    /\ UNCHANGED <<flushes, runVars, metricsSem, posts, eventVars, counterVars, resultVars,
                   cancelled>>
-----------------------------------------------------------------------------
(* Run                                                                     *)

\* Mutant: the map itself stays among its parts.
SplitByTagsOverlap(mm) ==
    IF DynHeaders
    THEN {{b \in mm : Key[b] = k} : k \in {Key[b] : b \in mm}} \cup {mm}
    ELSE {mm}

\* Without dynamic headers everything is one part, even when there is nothing.
SplitByTags(mm) ==
    IF DynHeaders
    THEN {{b \in mm : Key[b] = k} : k \in {Key[b] : b \in mm}}
    ELSE {mm}

\* case metricMaps := <-hfh.consolidatedMetrics
RunReceive ==
    /\ rpc = "select"
    /\ flushing
    /\ Buffer!Deliver
    /\ flushing' = FALSE
    /\ mms' = SplitByTags(snapshot)
    /\ rpc' = IF SplitByTags(snapshot) = {} THEN "select" ELSE "loop"
    /\ UNCHANGED <<flushes, consolidatorDone, metricsSem, posts, eventVars, counterVars,
                   resultVars, cancelled>>

\* acquireSem succeeds and a goroutine is started for one part.
RunStart(mm) ==
    /\ rpc = "loop"
    /\ mm \in mms
    /\ metricsSem > 0
    /\ metricsSem' = metricsSem - 1
    /\ posts' = Append(posts, Post(mm, "metrics"))
    /\ mms' = mms \ {mm}
    /\ rpc' = IF mms = {mm} THEN "select" ELSE "loop"
    /\ UNCHANGED <<bufferVars, flushVars, eventVars, counterVars, resultVars, cancelled>>

\* acquireSem fails: the parts that are left are gone.
RunStartCancelled ==
    /\ rpc = "loop"
    /\ cancelled
    /\ Settle(UNION mms, "abandoned")
    /\ mms' = {}
    /\ rpc' = "wait"
    /\ UNCHANGED <<bufferVars, flushVars, metricsSem, posts, eventVars, counterVars,
                   received, cancelled>>

RunDone ==
    /\ rpc = "select"
    /\ cancelled
    /\ rpc' = "wait"
    /\ UNCHANGED <<bufferVars, flushVars, mms, metricsSem, posts, eventVars, counterVars,
                   resultVars, cancelled>>

\* The deferred wg.Wait is for the consolidator only.
RunReturns ==
    /\ rpc = "wait"
    /\ consolidatorDone
    /\ rpc' = "returned"
    /\ UNCHANGED <<bufferVars, flushVars, mms, metricsSem, posts, eventVars, counterVars,
                   resultVars, cancelled>>
-----------------------------------------------------------------------------
(* post, in a goroutine of its own                                         *)

Goes(p, st) == posts' = [posts EXCEPT ![p].st = st]

\* Mutant: the goroutine ends without a word when the message is invalid.
ConstructPostStops(p) ==
    /\ posts[p].st = "construct"
    /\ \/ /\ messagesCreated' = messagesCreated + 1
          /\ Goes(p, "post")
          /\ UNCHANGED <<messagesInvalid, outcome>>
       \/ /\ messagesInvalid' = messagesInvalid + 1
          /\ Goes(p, "done")
          /\ Settle(posts[p].items, "invalid")
          /\ UNCHANGED messagesCreated
    /\ UNCHANGED <<bufferVars, flushVars, runVars, metricsSem, eventVars, messagesSent,
                   messagesRetried, messagesDropped, received, cancelled>>

\* constructPost
ConstructPost(p) ==
    /\ posts[p].st = "construct"
    /\ \/ /\ messagesCreated' = messagesCreated + 1
          /\ Goes(p, "post")
          /\ UNCHANGED <<messagesInvalid, outcome>>
       \/ /\ messagesInvalid' = messagesInvalid + 1
          /\ Goes(p, "after")
          /\ Settle(posts[p].items, "invalid")
          /\ UNCHANGED messagesCreated
    /\ UNCHANGED <<bufferVars, flushVars, runVars, metricsSem, eventVars, messagesSent,
                   messagesRetried, messagesDropped, received, cancelled>>

\* One attempt reaches the server or does not.
Attempt(p, reaches) ==
    received' = [i \in Items |->
        IF reaches /\ i \in posts[p].items THEN received[i] + 1 ELSE received[i]]

\* post() returned nil
PostSucceeds(p) ==
    /\ posts[p].st = "post"
    /\ Attempt(p, TRUE)
    /\ messagesSent' = messagesSent + 1
    /\ posts' = [posts EXCEPT ![p].st = "after", ![p].tries = @ + 1]
    /\ Settle(posts[p].items, "sent")
    /\ UNCHANGED <<bufferVars, flushVars, runVars, metricsSem, eventVars, messagesInvalid,
                   messagesCreated, messagesRetried, messagesDropped, cancelled>>

\* Mutant: a message that is given up is not counted.
PostGivesUpUncounted(p) ==
    /\ posts[p].st = "post"
    /\ \E reaches \in BOOLEAN : Attempt(p, reaches)
    /\ UNCHANGED messagesDropped
    /\ posts' = [posts EXCEPT ![p].st = "after", ![p].tries = @ + 1]
    /\ Settle(posts[p].items, "dropped")
    /\ UNCHANGED <<bufferVars, flushVars, runVars, metricsSem, eventVars, messagesInvalid,
                   messagesCreated, messagesSent, messagesRetried, cancelled>>

\* post() failed, perhaps after the server had the message, and NextBackOff
\* says to stop.
PostGivesUp(p) ==
    /\ posts[p].st = "post"
    /\ \E reaches \in BOOLEAN : Attempt(p, reaches)
    /\ messagesDropped' = messagesDropped + 1
    /\ posts' = [posts EXCEPT ![p].st = "after", ![p].tries = @ + 1]
    /\ Settle(posts[p].items, "dropped")
    /\ UNCHANGED <<bufferVars, flushVars, runVars, metricsSem, eventVars, messagesInvalid,
                   messagesCreated, messagesSent, messagesRetried, cancelled>>

\* post() failed and there will be another attempt, after a while.
PostFails(p) ==
    /\ posts[p].st = "post"
    /\ posts[p].tries + 1 < MaxTries
    /\ \E reaches \in BOOLEAN : Attempt(p, reaches)
    /\ messagesRetried' = messagesRetried + 1
    /\ posts' = [posts EXCEPT ![p].st = "backoff", ![p].tries = @ + 1]
    /\ UNCHANGED <<bufferVars, flushVars, runVars, metricsSem, eventVars, messagesInvalid,
                   messagesCreated, messagesSent, messagesDropped, outcome,
                   cancelled>>

\* case <-timer.C
BackoffTimer(p) ==
    /\ posts[p].st = "backoff"
    /\ Goes(p, "post")
    /\ UNCHANGED <<bufferVars, flushVars, runVars, metricsSem, eventVars, counterVars,
                   resultVars, cancelled>>

\* case <-ctx.Done(); an event has the context of its caller.
BackoffCancelled(p) ==
    /\ posts[p].st = "backoff"
    /\ cancelled \/ posts[p].kind = "event"
    /\ Goes(p, "after")
    /\ Settle(posts[p].items, "abandoned")
    /\ UNCHANGED <<bufferVars, flushVars, runVars, metricsSem, eventVars, counterVars,
                   received, cancelled>>

\* releaseSem, or eventWg.Done
PostReturns(p) ==
    /\ posts[p].st = "after"
    /\ Goes(p, "done")
    /\ IF posts[p].kind = "metrics"
       THEN /\ metricsSem' = metricsSem + 1
            /\ UNCHANGED eventWg
       ELSE /\ eventWg' = eventWg - 1
            /\ UNCHANGED metricsSem
    /\ UNCHANGED <<bufferVars, flushVars, runVars, dispatched, counterVars, resultVars,
                   cancelled>>

DispatchEvent(e) ==
    /\ e \notin dispatched
    /\ dispatched' = dispatched \cup {e}
    /\ eventWg' = eventWg + 1
    /\ posts' = Append(posts, Post({e}, "event"))
    /\ UNCHANGED <<bufferVars, flushVars, runVars, metricsSem, counterVars, resultVars,
                   cancelled>>

Cancel ==
    /\ ~cancelled
    /\ cancelled' = TRUE
    /\ UNCHANGED <<bufferVars, flushVars, runVars, metricsSem, posts, eventVars,
                   counterVars, resultVars>>
-----------------------------------------------------------------------------
PostStep(p) ==
    \/ ConstructPost(p)
    \/ PostSucceeds(p)
    \/ PostGivesUp(p)
    \/ PostFails(p)
    \/ BackoffTimer(p)
    \/ BackoffCancelled(p)
    \/ PostReturns(p)

RunStep ==
    \/ RunReceive
    \/ \E mm \in mms : RunStart(mm)
    \/ RunStartCancelled
    \/ RunDone
    \/ RunReturns

Next ==
    \/ \E b \in Batches : DispatchMetricMap(b)
    \/ \E e \in Events : DispatchEvent(e)
    \/ Flush
    \/ ConsolidatorReturns
    \/ RunStep
    \/ \E p \in DOMAIN posts : PostStep(p)
    \/ Cancel

Spec == Init /\ [][Next]_vars

\* All goroutines are scheduled, and an HTTP request ends by itself (the
\* client has a timeout).  Nothing is assumed about its success.
FairSpec ==
    /\ Spec
    /\ WF_vars(Flush)
    /\ WF_vars(ConsolidatorReturns)
    /\ WF_vars(RunStep)
    /\ WF_vars(\E p \in DOMAIN posts : PostStep(p))
-----------------------------------------------------------------------------
(* Properties                                                              *)

Posts == [items : SUBSET Items, kind : {"metrics", "event"},
          st : {"construct", "post", "backoff", "after", "done"}, tries : 0..MaxTries]

\* The types of the forwarder's state.
TypeOK ==
    /\ {pending, snapshot, delivered, dropped} \subseteq SUBSET Batches
    /\ flushing \in BOOLEAN
    /\ flushes \in 0..MaxFlushes
    /\ consolidatorDone \in BOOLEAN
    /\ rpc \in {"select", "loop", "wait", "returned"}
    /\ mms \subseteq SUBSET Batches
    /\ metricsSem \in Int
    /\ posts \in Seq(Posts)
    /\ eventWg \in Int
    /\ dispatched \subseteq Events
    /\ {messagesInvalid, messagesCreated, messagesSent, messagesRetried, messagesDropped} \subseteq Nat
    /\ received \in [Items -> Nat]
    /\ outcome \in [Items -> {"none", "sent", "dropped", "invalid", "abandoned"}]
    /\ cancelled \in BOOLEAN

InFlight(kind) == {p \in DOMAIN posts : posts[p].st # "done" /\ posts[p].kind = kind}

\* A token of the semaphore is with each goroutine that posts metrics, so
\* max-requests bounds them and releaseSem "will never block"; and eventWg
\* counts the goroutines that post events, so WaitForEvents waits for all.
GoroutinesCounted ==
    /\ metricsSem >= 0
    /\ metricsSem + Cardinality(InFlight("metrics")) = MaxRequests
    /\ eventWg = Cardinality(InFlight("event"))

Accepted == pending \cup snapshot \cup delivered \cup dropped

Places(b) ==
    {x \in {"pending"} : b \in pending} \cup {x \in {"snapshot"} : b \in snapshot}
    \cup {x \in {"dropped"} : b \in dropped}
    \cup {<<"part", mm>> : mm \in {mm \in mms : b \in mm}}
    \cup {<<"post", p>> : p \in {p \in DOMAIN posts : b \in posts[p].items /\
                                     posts[p].st \in {"construct", "post", "backoff"}}}
    \cup {x \in {<<"outcome", outcome[b]>>} : outcome[b] # "none"}

\* A series that was accepted is in one place: the consolidator, a part that
\* waits for the semaphore, one message, or one outcome.  The parts do not
\* overlap, and none is abandoned unless the context is done.
ExactlyOnePlace ==
    /\ \A b \in Accepted : Cardinality(Places(b)) = 1
    /\ ~cancelled => dropped = {} /\ \A b \in Batches : outcome[b] # "abandoned"

\* What is counted as sent has arrived, and it has arrived more than once
\* only by way of retries.  Unless a context is done, a message that was
\* created is counted as sent, counted as dropped, or still in flight.
CountersAddUp ==
    /\ \A i \in Items : outcome[i] = "sent" => received[i] > 0
    /\ \A p \in DOMAIN posts : \A i \in posts[p].items : received[i] <= posts[p].tries
    /\ ~cancelled /\ (\A e \in Events : outcome[e] # "abandoned") =>
        messagesCreated = messagesSent + messagesDropped +
            Cardinality({p \in DOMAIN posts : posts[p].st \in {"post", "backoff"}})

\* Every series that is flushed and every event is sent, dropped or invalid in
\* the end, whatever the server does, unless the context of the series is done;
\* and then Run returns, also when the semaphore is empty or the consolidator is
\* waiting to hand over a flush.
EverythingIsSettled ==
    []<>(/\ \A i \in snapshot \cup delivered \cup dispatched :
                outcome[i] # "none" \/ (i \in Batches /\ cancelled)
         /\ cancelled => rpc = "returned")
=============================================================================
