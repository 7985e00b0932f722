------------------------ MODULE HttpForwarderProofs ------------------------
(***************************************************************************)
(* Proofs about HttpForwarder, for any series, events, headers, number of  *)
(* requests and of attempts.                                               *)
(*                                                                         *)
(* ExactlyOnePlace is not inductive: a goroutine that settles a series     *)
(* must be the only one that has it, a part that waits for the semaphore   *)
(* must not have been started before, and a series that was settled must   *)
(* have come from the consolidator.  ForwarderInv says this goroutine by   *)
(* goroutine and part by part.                                             *)
(***************************************************************************)
EXTENDS HttpForwarder, FiniteSetTheorems, SequenceTheorems, TLAPS

-----------------------------------------------------------------------------
(* The inductive invariant                                                 *)

\* The goroutine has not settled its message yet.
Live(p) == posts[p].st \in {"construct", "post", "backoff"}

\* The loop over the parts leaves none behind, and an attempt is left for
\* every message that is not settled.
ControlOK ==
    /\ TypeOK
    /\ rpc # "loop" => mms = {}
    /\ \A p \in DOMAIN posts : Live(p) => posts[p].tries < MaxTries

\* A batch is in one set of the consolidator.
BufferOK ==
    /\ pending \cap (snapshot \cup delivered \cup dropped) = {}
    /\ snapshot \cap (delivered \cup dropped) = {}
    /\ delivered \cap dropped = {}

\* What waits for the semaphore was delivered, is in one part and nowhere else.
PartsOK ==
    /\ \A mm \in mms : \A b \in mm : b \in delivered /\ outcome[b] = "none"
    /\ \A mm \in mms : \A b \in mm : \A p \in DOMAIN posts : b \notin posts[p].items
    /\ \A mm, nn \in mms : \A b \in mm : b \in nn => mm = nn

\* A goroutine has items of its own kind, and settles them when it ends.
PostOK(p) ==
    /\ posts[p].kind = "metrics" => posts[p].items \subseteq delivered
    /\ posts[p].kind = "event" => posts[p].items \subseteq dispatched /\ posts[p].items # {}
    /\ \A i \in posts[p].items : outcome[i] = "none" <=> Live(p)

\* No two goroutines have the same item.
PostsOK ==
    /\ \A p \in DOMAIN posts : PostOK(p)
    /\ \A p, q \in DOMAIN posts : \A i \in posts[p].items : i \in posts[q].items => p = q

\* What was delivered is in a part, with a goroutine or settled, and only
\* what was delivered or dispatched is settled.
HomesOK ==
    /\ \A b \in delivered : \/ outcome[b] # "none"
                            \/ \E mm \in mms : b \in mm
                            \/ \E p \in DOMAIN posts : b \in posts[p].items
    /\ \A i \in Items : outcome[i] # "none" => i \in delivered \cup dispatched

\* Series are given up only after the context is done.
CancelOK == ~cancelled => dropped = {} /\ \A b \in Batches : outcome[b] # "abandoned"

\* The server knows an item only from the attempts of its goroutine.
ReceivedOK ==
    /\ \A i \in Items : outcome[i] = "sent" => received[i] > 0
    /\ \A p \in DOMAIN posts : \A i \in posts[p].items : received[i] <= posts[p].tries
    /\ \A i \in Items : (\A p \in DOMAIN posts : i \notin posts[p].items) => received[i] = 0

\* The goroutines between constructPost and the end of the attempts.
Posting == {p \in DOMAIN posts : posts[p].st \in {"post", "backoff"}}

\* What was created is sent, dropped or being posted, unless it was abandoned.
CreatedOK ==
    ~cancelled /\ (\A e \in Events : outcome[e] # "abandoned") =>
        messagesCreated = messagesSent + messagesDropped + Cardinality(Posting)

PlaceInv == BufferOK /\ PartsOK /\ PostsOK /\ HomesOK /\ CancelOK

ForwarderInv ==
    /\ ControlOK
    /\ GoroutinesCounted
    /\ PlaceInv
    /\ ReceivedOK
    /\ CreatedOK
-----------------------------------------------------------------------------
(* How the goroutines change                                               *)

States == {"construct", "post", "backoff", "after", "done"}

\* One goroutine is in state st after n attempts; the others stay.
Moves(p, st, n) ==
    /\ posts' \in Seq(Posts)
    /\ DOMAIN posts' = DOMAIN posts
    /\ \A q \in DOMAIN posts : q # p => posts'[q] = posts[q]
    /\ posts'[p].items = posts[p].items
    /\ posts'[p].kind = posts[p].kind
    /\ posts'[p].st = st
    /\ posts'[p].tries = n

\* The goroutine has made one more attempt.
Tried(p, st) == posts' = [posts EXCEPT ![p].st = st, ![p].tries = @ + 1]

\* There is one more goroutine, k, and it does what r says.
Adds(k, r) ==
    /\ posts' \in Seq(Posts)
    /\ k \notin DOMAIN posts
    /\ DOMAIN posts' = DOMAIN posts \cup {k}
    /\ \A q \in DOMAIN posts : posts'[q] = posts[q]
    /\ posts'[k] = r

LEMMA GoesMoves ==
  ASSUME posts \in Seq(Posts), NEW p \in DOMAIN posts, NEW st \in States, Goes(p, st)
  PROVE  Moves(p, st, posts[p].tries)
<1> DEFINE r == [posts[p] EXCEPT !.st = st]
<1>1. posts[p] \in Posts /\ p \in 1..Len(posts)
  BY ElementOfSeq, LenProperties
<1>2. /\ r \in Posts /\ r.items = posts[p].items /\ r.kind = posts[p].kind
      /\ r.st = st /\ r.tries = posts[p].tries
  BY <1>1 DEF Posts, States
<1>3. posts' = [posts EXCEPT ![p] = r]
  BY DEF Goes
<1> HIDE DEF r
<1>4. /\ posts' \in Seq(Posts) /\ Len(posts') = Len(posts)
      /\ \A q \in 1..Len(posts) : posts'[q] = IF q = p THEN r ELSE posts[q]
  BY <1>1, <1>2, <1>3, ExceptSeq
<1>5. DOMAIN posts' = 1..Len(posts) /\ DOMAIN posts = 1..Len(posts)
  BY <1>4, LenProperties
<1> QED
  BY <1>1, <1>2, <1>4, <1>5 DEF Moves

LEMMA TriedMoves ==
  ASSUME posts \in Seq(Posts), NEW p \in DOMAIN posts, NEW st \in States, Tried(p, st),
         posts[p].tries < MaxTries
  PROVE  Moves(p, st, posts[p].tries + 1)
<1> DEFINE r == [posts[p] EXCEPT !.st = st, !.tries = @ + 1]
<1>1. posts[p] \in Posts /\ p \in 1..Len(posts)
  BY ElementOfSeq, LenProperties
<1>6. posts[p].tries + 1 \in 0..MaxTries
  BY <1>1, LimitsAssumption DEF Posts
<1>2. /\ r \in Posts /\ r.items = posts[p].items /\ r.kind = posts[p].kind
      /\ r.st = st /\ r.tries = posts[p].tries + 1
  BY <1>1, <1>6, Zenon DEF Posts, States
<1>3. posts' = [posts EXCEPT ![p] = r]
  BY Zenon DEF Tried
<1> HIDE DEF r
<1>4. /\ posts' \in Seq(Posts) /\ Len(posts') = Len(posts)
      /\ \A q \in 1..Len(posts) : posts'[q] = IF q = p THEN r ELSE posts[q]
  BY <1>1, <1>2, <1>3, ExceptSeq
<1>5. DOMAIN posts' = 1..Len(posts) /\ DOMAIN posts = 1..Len(posts)
  BY <1>4, LenProperties
<1> QED
  BY <1>1, <1>2, <1>4, <1>5 DEF Moves

LEMMA AppendAdds ==
  ASSUME posts \in Seq(Posts), NEW items \in SUBSET Items, NEW kind \in {"metrics", "event"},
         posts' = Append(posts, Post(items, kind))
  PROVE  \E k : Adds(k, Post(items, kind))
<1>1. Post(items, kind) \in Posts
  BY LimitsAssumption DEF Post, Posts
<1> DEFINE r == Post(items, kind)
<1> HIDE DEF r
<1>2. /\ posts' \in Seq(Posts) /\ Len(posts') = Len(posts) + 1
      /\ \A q \in 1..Len(posts) : posts'[q] = posts[q]
      /\ posts'[Len(posts) + 1] = r
  BY <1>1, AppendProperties DEF r
<1>3. DOMAIN posts = 1..Len(posts) /\ DOMAIN posts' = 1..(Len(posts) + 1) /\ Len(posts) \in Nat
  BY <1>2, LenProperties
<1>4. /\ Len(posts) + 1 \notin 1..Len(posts)
      /\ 1..(Len(posts) + 1) = 1..Len(posts) \cup {Len(posts) + 1}
  BY <1>3
<1>5. Adds(Len(posts) + 1, r)
  BY <1>2, <1>3, <1>4 DEF Adds
<1> QED
  BY <1>5 DEF r

LEMMA PostTypes ==
  ASSUME posts \in Seq(Posts), NEW p \in DOMAIN posts
  PROVE  /\ posts[p].items \subseteq Items /\ posts[p].kind \in {"metrics", "event"}
         /\ posts[p].st \in States /\ posts[p].tries \in Nat /\ posts[p].tries <= MaxTries
<1>1. posts[p] \in Posts
  BY ElementOfSeq, LenProperties
<1> QED
  BY <1>1, LimitsAssumption DEF Posts, States

-----------------------------------------------------------------------------
(* Control and types                                                       *)

LEMMA InitControl == Init => ControlOK
<1> SUFFICES ASSUME Init PROVE ControlOK
  OBVIOUS
<1>1. posts \in Seq(Posts) /\ DOMAIN posts = {}
  BY EmptySeq DEF Init
<1>2. MaxRequests \in Int /\ MaxFlushes \in Nat
  BY LimitsAssumption
<1>3. {pending, snapshot, delivered, dropped} \subseteq SUBSET Batches
  BY DEF Init, Buffer!Init
<1>4. /\ received \in [Items -> Nat]
      /\ outcome \in [Items -> {"none", "sent", "dropped", "invalid", "abandoned"}]
  BY DEF Init
<1>5. /\ flushing \in BOOLEAN /\ flushes \in 0..MaxFlushes /\ consolidatorDone \in BOOLEAN
      /\ rpc \in {"select", "loop", "wait", "returned"} /\ mms \subseteq SUBSET Batches
      /\ metricsSem \in Int /\ eventWg \in Int /\ dispatched \subseteq Events
      /\ cancelled \in BOOLEAN
  <2>1. metricsSem = MaxRequests /\ flushes = 0
    BY DEF Init
  <2>2. metricsSem \in Int /\ flushes \in 0..MaxFlushes
    BY <1>2, <2>1
  <2>3. flushing \in BOOLEAN /\ consolidatorDone \in BOOLEAN /\ cancelled \in BOOLEAN
    BY Zenon DEF Init
  <2>4. /\ rpc \in {"select", "loop", "wait", "returned"} /\ mms \subseteq SUBSET Batches
        /\ eventWg \in Int /\ dispatched \subseteq Events
    BY DEF Init
  <2> QED
    BY <2>2, <2>3, <2>4
<1>6. {messagesInvalid, messagesCreated, messagesSent, messagesRetried, messagesDropped}
          \subseteq Nat
  BY DEF Init
<1>7. TypeOK
  BY <1>1, <1>3, <1>4, <1>5, <1>6 DEF TypeOK
<1> QED
  BY <1>1, <1>7 DEF Init, ControlOK

\* A goroutine that moves keeps the types of the goroutines.
LEMMA MovesControl ==
  ASSUME ControlOK, NEW p \in DOMAIN posts, NEW st, NEW n, Moves(p, st, n),
         st \in {"construct", "post", "backoff"} => n < MaxTries
  PROVE  /\ posts' \in Seq(Posts)
         /\ \A q \in DOMAIN posts' : Live(q)' => posts'[q].tries < MaxTries
  BY DEF ControlOK, Moves, Live

LEMMA AddsControl ==
  ASSUME ControlOK, NEW k, NEW items, NEW kind, Adds(k, Post(items, kind))
  PROVE  /\ posts' \in Seq(Posts)
         /\ \A q \in DOMAIN posts' : Live(q)' => posts'[q].tries < MaxTries
<1>1. 0 < MaxTries
  BY LimitsAssumption
<1> QED
  BY <1>1 DEF ControlOK, Adds, Live, Post

\* What a step of a goroutine leaves alone.
Frame == UNCHANGED <<bufferVars, flushVars, runVars, dispatched, cancelled>>

\* The goroutine goes on, or returns after it has settled its message.
Carries(p, st, n) ==
    /\ Frame
    /\ Moves(p, st, n)
    /\ UNCHANGED outcome
    /\ Live(p) <=> st \in {"construct", "post", "backoff"}
    /\ Live(p) => n < MaxTries

\* The goroutine settles its message.
Settles(p, n, how) ==
    /\ Frame
    /\ Moves(p, "after", n)
    /\ Live(p)
    /\ Settle(posts[p].items, how)
    /\ how \in {"sent", "dropped", "invalid", "abandoned"}
    /\ how = "abandoned" => cancelled \/ posts[p].kind = "event"

LEMMA ConstructPostIs ==
  ASSUME ControlOK, NEW p \in DOMAIN posts, ConstructPost(p)
  PROVE  /\ \/ /\ Carries(p, "post", posts[p].tries)
               /\ messagesCreated' = messagesCreated + 1 /\ UNCHANGED messagesInvalid
            \/ /\ Settles(p, posts[p].tries, "invalid")
               /\ messagesInvalid' = messagesInvalid + 1 /\ UNCHANGED messagesCreated
         /\ posts[p].st = "construct"
         /\ UNCHANGED <<metricsSem, eventWg, received>>
         /\ UNCHANGED <<messagesSent, messagesRetried, messagesDropped>>
<1>1. posts \in Seq(Posts) /\ Live(p) /\ posts[p].tries < MaxTries
  BY DEF ConstructPost, ControlOK, TypeOK, Live
<1>2. Goes(p, "post") => Moves(p, "post", posts[p].tries)
  BY <1>1, GoesMoves DEF States
<1>3. Goes(p, "after") => Moves(p, "after", posts[p].tries)
  BY <1>1, GoesMoves DEF States
<1>4. Frame
  BY DEF ConstructPost, Frame, eventVars
<1> QED
  BY <1>1, <1>2, <1>3, <1>4 DEF ConstructPost, Carries, Settles, eventVars

LEMMA PostSucceedsIs ==
  ASSUME ControlOK, NEW p \in DOMAIN posts, PostSucceeds(p)
  PROVE  /\ Settles(p, posts[p].tries + 1, "sent")
         /\ Attempt(p, TRUE)
         /\ posts[p].st = "post"
         /\ messagesSent' = messagesSent + 1
         /\ UNCHANGED <<metricsSem, eventWg>>
         /\ UNCHANGED <<messagesInvalid, messagesCreated, messagesRetried, messagesDropped>>
<1>1. posts \in Seq(Posts) /\ Live(p) /\ posts[p].tries < MaxTries
  BY DEF PostSucceeds, ControlOK, TypeOK, Live
<1>2. Tried(p, "after")
  BY DEF PostSucceeds, Tried
<1>3. Moves(p, "after", posts[p].tries + 1)
  BY <1>1, <1>2, TriedMoves DEF States
<1>4. Frame
  BY DEF PostSucceeds, Frame, eventVars
<1> QED
  BY <1>1, <1>3, <1>4, Zenon DEF PostSucceeds, Settles, eventVars

LEMMA PostGivesUpIs ==
  ASSUME ControlOK, NEW p \in DOMAIN posts, PostGivesUp(p)
  PROVE  /\ Settles(p, posts[p].tries + 1, "dropped")
         /\ \E reaches \in BOOLEAN : Attempt(p, reaches)
         /\ posts[p].st = "post"
         /\ messagesDropped' = messagesDropped + 1
         /\ UNCHANGED <<metricsSem, eventWg>>
         /\ UNCHANGED <<messagesInvalid, messagesCreated, messagesSent, messagesRetried>>
<1>1. posts \in Seq(Posts) /\ Live(p) /\ posts[p].tries < MaxTries
  BY DEF PostGivesUp, ControlOK, TypeOK, Live
<1>2. Tried(p, "after")
  BY DEF PostGivesUp, Tried
<1>3. Moves(p, "after", posts[p].tries + 1)
  BY <1>1, <1>2, TriedMoves DEF States
<1>4. Frame
  BY DEF PostGivesUp, Frame, eventVars
<1> QED
  BY <1>1, <1>3, <1>4 DEF PostGivesUp, Settles, eventVars

LEMMA PostFailsIs ==
  ASSUME ControlOK, NEW p \in DOMAIN posts, PostFails(p)
  PROVE  /\ Carries(p, "backoff", posts[p].tries + 1)
         /\ \E reaches \in BOOLEAN : Attempt(p, reaches)
         /\ posts[p].st = "post"
         /\ messagesRetried' = messagesRetried + 1
         /\ UNCHANGED <<metricsSem, eventWg>>
         /\ UNCHANGED <<messagesInvalid, messagesCreated, messagesSent, messagesDropped>>
<1>1. /\ posts \in Seq(Posts) /\ Live(p) /\ posts[p].tries < MaxTries
      /\ posts[p].tries + 1 < MaxTries
  BY DEF PostFails, ControlOK, TypeOK, Live
<1>2. Tried(p, "backoff")
  BY DEF PostFails, Tried
<1>3. Moves(p, "backoff", posts[p].tries + 1)
  BY <1>1, <1>2, TriedMoves DEF States
<1>4. Frame
  BY DEF PostFails, Frame, eventVars
<1> QED
  BY <1>1, <1>3, <1>4 DEF PostFails, Carries, eventVars

LEMMA BackoffTimerIs ==
  ASSUME ControlOK, NEW p \in DOMAIN posts, BackoffTimer(p)
  PROVE  /\ Carries(p, "post", posts[p].tries)
         /\ posts[p].st = "backoff"
         /\ UNCHANGED <<metricsSem, eventWg, received, counterVars>>
<1>1. posts \in Seq(Posts) /\ Live(p) /\ posts[p].tries < MaxTries
  BY DEF BackoffTimer, ControlOK, TypeOK, Live
<1>2. Moves(p, "post", posts[p].tries)
  BY <1>1, GoesMoves DEF States, BackoffTimer
<1>3. Frame
  BY DEF BackoffTimer, Frame, eventVars
<1> QED
  BY <1>1, <1>2, <1>3 DEF BackoffTimer, Carries, eventVars, resultVars

LEMMA BackoffCancelledIs ==
  ASSUME ControlOK, NEW p \in DOMAIN posts, BackoffCancelled(p)
  PROVE  /\ Settles(p, posts[p].tries, "abandoned")
         /\ posts[p].st = "backoff"
         /\ UNCHANGED <<metricsSem, eventWg, received, counterVars>>
<1>1. posts \in Seq(Posts) /\ Live(p)
  BY DEF BackoffCancelled, ControlOK, TypeOK, Live
<1>2. Moves(p, "after", posts[p].tries)
  BY <1>1, GoesMoves DEF States, BackoffCancelled
<1>3. Frame
  BY DEF BackoffCancelled, Frame, eventVars
<1> QED
  BY <1>1, <1>2, <1>3 DEF BackoffCancelled, Settles, eventVars, resultVars

LEMMA PostReturnsIs ==
  ASSUME ControlOK, NEW p \in DOMAIN posts, PostReturns(p)
  PROVE  /\ Carries(p, "done", posts[p].tries)
         /\ posts[p].st = "after"
         /\ posts[p].kind = "metrics" => metricsSem' = metricsSem + 1 /\ UNCHANGED eventWg
         /\ posts[p].kind # "metrics" => eventWg' = eventWg - 1 /\ UNCHANGED metricsSem
         /\ UNCHANGED <<received, counterVars>>
<1>1. posts \in Seq(Posts) /\ ~Live(p)
  BY DEF PostReturns, ControlOK, TypeOK, Live
<1>2. Moves(p, "done", posts[p].tries)
  BY <1>1, GoesMoves DEF States, PostReturns
<1>3. Frame
  BY DEF PostReturns, Frame
<1> QED
  BY <1>1, <1>2, <1>3 DEF PostReturns, Carries, resultVars

-----------------------------------------------------------------------------
(* Control, continued                                                      *)

\* The types of what a step of a goroutine does not count.
StepOK ==
    /\ posts' \in Seq(Posts)
    /\ \A q \in DOMAIN posts' : Live(q)' => posts'[q].tries < MaxTries
    /\ outcome' \in [Items -> {"none", "sent", "dropped", "invalid", "abandoned"}]

LEMMA CarriesControl ==
  ASSUME ControlOK, NEW p \in DOMAIN posts, NEW st, NEW n, Carries(p, st, n)
  PROVE  StepOK
<1>1. Moves(p, st, n) /\ (st \in {"construct", "post", "backoff"} => n < MaxTries)
  BY DEF Carries
<1>2. /\ posts' \in Seq(Posts)
      /\ \A q \in DOMAIN posts' : Live(q)' => posts'[q].tries < MaxTries
  BY <1>1, MovesControl, Zenon
<1> QED
  BY <1>2 DEF StepOK, Carries, ControlOK, TypeOK

LEMMA SettlesControl ==
  ASSUME ControlOK, NEW p \in DOMAIN posts, NEW n, NEW how, Settles(p, n, how)
  PROVE  StepOK
<1>1. Moves(p, "after", n)
  BY DEF Settles
<1>2. /\ posts' \in Seq(Posts)
      /\ \A q \in DOMAIN posts' : Live(q)' => posts'[q].tries < MaxTries
  BY <1>1, MovesControl
<1>3. outcome' \in [Items -> {"none", "sent", "dropped", "invalid", "abandoned"}]
  BY DEF Settles, Settle, ControlOK, TypeOK
<1> QED
  BY <1>2, <1>3 DEF StepOK

LEMMA AttemptType ==
  ASSUME ControlOK, NEW p, NEW reaches \in BOOLEAN, Attempt(p, reaches)
  PROVE  /\ received' \in [Items -> Nat]
         /\ \A i \in Items : received'[i] = IF reaches /\ i \in posts[p].items
                                            THEN received[i] + 1 ELSE received[i]
<1>1. received \in [Items -> Nat]
  BY DEF ControlOK, TypeOK
<1> QED
  BY <1>1 DEF Attempt

\* The invariant of control, from the parts a goroutine may change.
LEMMA StepControl ==
  ASSUME ControlOK, Frame, StepOK, received' \in [Items -> Nat],
         metricsSem' \in Int, eventWg' \in Int,
         messagesInvalid' \in Nat, messagesCreated' \in Nat, messagesSent' \in Nat,
         messagesRetried' \in Nat, messagesDropped' \in Nat
  PROVE  ControlOK'
<1>1. TypeOK'
  BY Zenon DEF ControlOK, TypeOK, Frame, StepOK, bufferVars, flushVars, runVars
<1> QED
  BY <1>1 DEF ControlOK, Frame, StepOK, runVars

LEMMA PostStepControl ==
  ASSUME ControlOK, NEW p \in DOMAIN posts, PostStep(p)
  PROVE  ControlOK'
<1>1. /\ received \in [Items -> Nat] /\ metricsSem \in Int /\ eventWg \in Int
      /\ messagesInvalid \in Nat /\ messagesCreated \in Nat /\ messagesSent \in Nat
      /\ messagesRetried \in Nat /\ messagesDropped \in Nat
  BY DEF ControlOK, TypeOK
<1>2. CASE ConstructPost(p)
  <2>1. Frame /\ StepOK
    BY <1>2, ConstructPostIs, CarriesControl, SettlesControl DEF Carries, Settles
  <2>2. /\ messagesInvalid' \in Nat /\ messagesCreated' \in Nat
        /\ UNCHANGED <<metricsSem, eventWg, received>>
        /\ UNCHANGED <<messagesSent, messagesRetried, messagesDropped>>
    BY <1>1, <1>2, ConstructPostIs
  <2> QED
    BY <1>1, <2>1, <2>2, StepControl
<1>3. CASE PostSucceeds(p)
  <2>1. Frame /\ StepOK
    BY <1>3, PostSucceedsIs, SettlesControl, Zenon DEF Settles
  <2>2. received' \in [Items -> Nat]
    BY <1>3, PostSucceedsIs, AttemptType, Zenon
  <2>3. /\ messagesSent' = messagesSent + 1 /\ UNCHANGED <<metricsSem, eventWg>>
        /\ UNCHANGED <<messagesInvalid, messagesCreated, messagesRetried, messagesDropped>>
    BY <1>3, PostSucceedsIs, Zenon
  <2>4. messagesSent' \in Nat
    BY <1>1, <2>3
  <2> QED
    BY <1>1, <2>1, <2>2, <2>3, <2>4, StepControl
<1>4. CASE PostGivesUp(p)
  <2>1. Frame /\ StepOK
    BY <1>4, PostGivesUpIs, SettlesControl DEF Settles
  <2>2. received' \in [Items -> Nat]
    BY <1>4, PostGivesUpIs, AttemptType
  <2>3. /\ messagesDropped' \in Nat /\ UNCHANGED <<metricsSem, eventWg>>
        /\ UNCHANGED <<messagesInvalid, messagesCreated, messagesSent, messagesRetried>>
    BY <1>1, <1>4, PostGivesUpIs
  <2> QED
    BY <1>1, <2>1, <2>2, <2>3, StepControl
<1>5. CASE PostFails(p)
  <2>1. Frame /\ StepOK
    BY <1>5, PostFailsIs, CarriesControl DEF Carries
  <2>2. received' \in [Items -> Nat]
    BY <1>5, PostFailsIs, AttemptType
  <2>3. /\ messagesRetried' \in Nat /\ UNCHANGED <<metricsSem, eventWg>>
        /\ UNCHANGED <<messagesInvalid, messagesCreated, messagesSent, messagesDropped>>
    BY <1>1, <1>5, PostFailsIs
  <2> QED
    BY <1>1, <2>1, <2>2, <2>3, StepControl
<1>6. CASE BackoffTimer(p)
  <2>1. Frame /\ StepOK
    BY <1>6, BackoffTimerIs, CarriesControl DEF Carries
  <2>2. UNCHANGED <<metricsSem, eventWg, received, counterVars>>
    BY <1>6, BackoffTimerIs
  <2> QED
    BY <1>1, <2>1, <2>2, StepControl DEF counterVars
<1>7. CASE BackoffCancelled(p)
  <2>1. Frame /\ StepOK
    BY <1>7, BackoffCancelledIs, SettlesControl DEF Settles
  <2>2. UNCHANGED <<metricsSem, eventWg, received, counterVars>>
    BY <1>7, BackoffCancelledIs
  <2> QED
    BY <1>1, <2>1, <2>2, StepControl DEF counterVars
<1>8. CASE PostReturns(p)
  <2>1. Frame /\ StepOK
    BY <1>8, PostReturnsIs, CarriesControl DEF Carries
  <2>2. metricsSem' \in Int /\ eventWg' \in Int /\ UNCHANGED <<received, counterVars>>
    BY <1>1, <1>8, PostReturnsIs
  <2> QED
    BY <1>1, <2>1, <2>2, StepControl DEF counterVars
<1> QED
  BY <1>2, <1>3, <1>4, <1>5, <1>6, <1>7, <1>8 DEF PostStep

\* The parts of a map are parts of it, and no two of them overlap.
LEMMA SplitParts ==
  ASSUME NEW S \in SUBSET Batches
  PROVE  /\ SplitByTags(S) \subseteq SUBSET Batches
         /\ \A mm \in SplitByTags(S) : mm \subseteq S
         /\ \A b \in S : \E mm \in SplitByTags(S) : b \in mm
         /\ \A mm, nn \in SplitByTags(S) : \A b \in mm : b \in nn => mm = nn
<1>1. CASE DynHeaders
  <2>1. \A mm : mm \in SplitByTags(S) <=>
            \E k \in {Key[b] : b \in S} : mm = {b \in S : Key[b] = k}
    BY <1>1 DEF SplitByTags
  <2>2. \A b \in S : {c \in S : Key[c] = Key[b]} \in SplitByTags(S)
    BY <2>1
  <2>3. \A mm \in SplitByTags(S) : \E k : mm = {b \in S : Key[b] = k}
    BY <2>1
  <2>4. \A b \in S : \E mm \in SplitByTags(S) : b \in mm
    BY <2>2, Zenon
  <2>5. ASSUME NEW mm \in SplitByTags(S), NEW nn \in SplitByTags(S), NEW b \in mm, b \in nn
        PROVE  mm = nn
    <3>1. PICK k : mm = {c \in S : Key[c] = k}
      BY <2>3, Zenon
    <3>2. PICK j : nn = {c \in S : Key[c] = j}
      BY <2>3, Zenon
    <3>3. Key[b] = k /\ Key[b] = j
      BY <2>5, <3>1, <3>2
    <3> QED
      BY <3>1, <3>2, <3>3
  <2> QED
    BY <2>3, <2>4, <2>5
<1>2. CASE ~DynHeaders
  BY <1>2 DEF SplitByTags
<1> QED
  BY <1>1, <1>2

LEMMA RunStartAdds ==
  ASSUME ControlOK, NEW mm \in mms, RunStart(mm)
  PROVE  \E k : Adds(k, Post(mm, "metrics"))
  BY AppendAdds, Zenon DEF RunStart, ControlOK, TypeOK, Items

LEMMA DispatchEventAdds ==
  ASSUME ControlOK, NEW e \in Events, DispatchEvent(e)
  PROVE  \E k : Adds(k, Post({e}, "event"))
  BY AppendAdds, Zenon DEF DispatchEvent, ControlOK, TypeOK, Items

\* The other steps change no goroutine that there is.
LEMMA OtherStepControl ==
  ASSUME ControlOK, Next, ~ \E p \in DOMAIN posts : PostStep(p)
  PROVE  ControlOK'
<1> USE DEF ControlOK, TypeOK, Live
<1>1. ASSUME NEW b \in Batches, DispatchMetricMap(b) PROVE ControlOK'
  BY <1>1 DEF DispatchMetricMap, Buffer!Accept, flushVars, runVars, eventVars, counterVars,
              resultVars
<1>2. CASE Flush
  BY <1>2, LimitsAssumption DEF Flush, Buffer!Snapshot, runVars, eventVars, counterVars,
                                resultVars
<1>3. CASE ConsolidatorReturns
  <2>1. {pending', snapshot', delivered', dropped'} \subseteq SUBSET Batches
    BY <1>3 DEF ConsolidatorReturns, Buffer!GiveUp
  <2> QED
    BY <1>3, <2>1, Zenon DEF ConsolidatorReturns, runVars, eventVars, counterVars, resultVars
<1>4. CASE RunReceive
  <2>1. SplitByTags(snapshot) \subseteq SUBSET Batches
    BY SplitParts
  <2>2. {pending', snapshot', delivered', dropped'} \subseteq SUBSET Batches
    BY <1>4 DEF RunReceive, Buffer!Deliver
  <2>3. /\ rpc' \in {"select", "loop"} /\ mms' \subseteq SUBSET Batches
        /\ rpc' # "loop" => mms' = {}
    BY <1>4, <2>1 DEF RunReceive
  <2> QED
    BY <1>4, <2>1, <2>2, <2>3, Zenon DEF RunReceive, eventVars, counterVars, resultVars
<1>5. ASSUME NEW mm \in mms, RunStart(mm) PROVE ControlOK'
  <2>1. /\ posts' \in Seq(Posts)
        /\ \A q \in DOMAIN posts' : Live(q)' => posts'[q].tries < MaxTries
    BY <1>5, RunStartAdds, AddsControl
  <2>2. metricsSem' \in Int /\ mms' \subseteq SUBSET Batches
        /\ rpc' \in {"select", "loop"} /\ (rpc' # "loop" => mms' = {})
    BY <1>5 DEF RunStart
  <2> QED
    BY <1>5, <2>1, <2>2 DEF RunStart, bufferVars, flushVars, eventVars, counterVars, resultVars
<1>6. CASE RunStartCancelled
  BY <1>6 DEF RunStartCancelled, Settle, bufferVars, flushVars, eventVars, counterVars
<1>7. CASE RunDone
  BY <1>7 DEF RunDone, bufferVars, flushVars, eventVars, counterVars, resultVars
<1>8. CASE RunReturns
  BY <1>8 DEF RunReturns, bufferVars, flushVars, eventVars, counterVars, resultVars
<1>9. ASSUME NEW e \in Events, DispatchEvent(e) PROVE ControlOK'
  <2>1. /\ posts' \in Seq(Posts)
        /\ \A q \in DOMAIN posts' : Live(q)' => posts'[q].tries < MaxTries
    BY <1>9, DispatchEventAdds, AddsControl, Zenon
  <2>2. dispatched' \subseteq Events /\ eventWg' \in Int
    BY <1>9 DEF DispatchEvent
  <2> QED
    BY <1>9, <2>1, <2>2, Zenon DEF DispatchEvent, bufferVars, flushVars, runVars, counterVars,
                                   resultVars
<1>10. CASE Cancel
  BY <1>10 DEF Cancel, bufferVars, flushVars, runVars, eventVars, counterVars, resultVars
<1> QED
  BY <1>1, <1>2, <1>3, <1>4, <1>5, <1>6, <1>7, <1>8, <1>9, <1>10, Zenon DEF Next, RunStep

LEMMA ControlNext == ControlOK /\ [Next]_vars => ControlOK'
<1>1. ASSUME ControlOK, UNCHANGED vars PROVE ControlOK'
  BY <1>1 DEF ControlOK, TypeOK, Live, vars, bufferVars, flushVars, runVars, eventVars,
              counterVars, resultVars
<1> QED
  BY <1>1, PostStepControl, OtherStepControl

-----------------------------------------------------------------------------
(* The semaphore and the WaitGroup                                         *)

LEMMA PostsFinite ==
  ASSUME ControlOK
  PROVE  IsFiniteSet(DOMAIN posts)
<1>1. DOMAIN posts = 1..Len(posts) /\ Len(posts) \in Nat
  BY LenProperties DEF ControlOK, TypeOK
<1>2. IsFiniteSet(1..Len(posts))
  BY <1>1, FS_Interval
<1> QED
  BY <1>1, <1>2

LEMMA FlightFinite ==
  ASSUME ControlOK, NEW kind
  PROVE  IsFiniteSet(InFlight(kind)) /\ Cardinality(InFlight(kind)) \in Nat
<1>1. IsFiniteSet(DOMAIN posts)
  BY PostsFinite
<1>2. IsFiniteSet(InFlight(kind))
  BY <1>1, FS_Subset DEF InFlight
<1> QED
  BY <1>2, FS_CardinalityType

LEMMA FlightMoves ==
  ASSUME NEW p \in DOMAIN posts, NEW st, NEW n, Moves(p, st, n), NEW kind,
         posts[p].st # "done", st # "done"
  PROVE  InFlight(kind)' = InFlight(kind)
  BY DEF InFlight, Moves

LEMMA FlightEnds ==
  ASSUME ControlOK, NEW p \in DOMAIN posts, NEW n, Moves(p, "done", n), NEW kind,
         posts[p].st # "done"
  PROVE  Cardinality(InFlight(kind)') =
             Cardinality(InFlight(kind)) - (IF posts[p].kind = kind THEN 1 ELSE 0)
<1>1. IsFiniteSet(InFlight(kind)) /\ Cardinality(InFlight(kind)) \in Nat
  BY FlightFinite
<1>2. CASE posts[p].kind = kind
  <2>1. InFlight(kind)' = InFlight(kind) \ {p} /\ p \in InFlight(kind)
    BY <1>2 DEF InFlight, Moves
  <2> QED
    BY <1>1, <1>2, <2>1, FS_RemoveElement
<1>3. CASE posts[p].kind # kind
  <2>1. InFlight(kind)' = InFlight(kind)
    BY <1>3 DEF InFlight, Moves
  <2> QED
    BY <1>1, <1>3, <2>1
<1> QED
  BY <1>2, <1>3

LEMMA FlightAdds ==
  ASSUME ControlOK, NEW k, NEW items, NEW started, Adds(k, Post(items, started)), NEW kind
  PROVE  Cardinality(InFlight(kind)') =
             Cardinality(InFlight(kind)) + (IF started = kind THEN 1 ELSE 0)
<1>1. IsFiniteSet(InFlight(kind)) /\ Cardinality(InFlight(kind)) \in Nat
  BY FlightFinite
<1>2. CASE started = kind
  <2>1. InFlight(kind)' = InFlight(kind) \cup {k} /\ k \notin InFlight(kind)
    BY <1>2 DEF InFlight, Adds, Post
  <2> QED
    BY <1>1, <1>2, <2>1, FS_AddElement
<1>3. CASE started # kind
  <2>1. InFlight(kind)' = InFlight(kind)
    BY <1>3 DEF InFlight, Adds, Post
  <2> QED
    BY <1>1, <1>3, <2>1
<1> QED
  BY <1>2, <1>3

LEMMA InitCounted == Init => GoroutinesCounted
<1> SUFFICES ASSUME Init PROVE GoroutinesCounted
  OBVIOUS
<1>1. InFlight("metrics") = {} /\ InFlight("event") = {}
  BY DEF Init, InFlight
<1>2. Cardinality({}) = 0 /\ MaxRequests \in Nat
  BY FS_EmptySet, LimitsAssumption
<1>3. metricsSem = MaxRequests /\ eventWg = 0
  BY DEF Init
<1> QED
  BY <1>1, <1>2, <1>3 DEF GoroutinesCounted

\* No goroutine starts or returns.
LEMMA CountedKeeps ==
  ASSUME GoroutinesCounted, UNCHANGED <<metricsSem, eventWg>>,
         InFlight("metrics")' = InFlight("metrics"), InFlight("event")' = InFlight("event")
  PROVE  GoroutinesCounted'
  BY DEF GoroutinesCounted

LEMMA CarriesCounted ==
  ASSUME GoroutinesCounted, NEW p \in DOMAIN posts, NEW st, NEW n, Moves(p, st, n),
         posts[p].st # "done", st # "done", UNCHANGED <<metricsSem, eventWg>>
  PROVE  GoroutinesCounted'
<1>1. InFlight("metrics")' = InFlight("metrics") /\ InFlight("event")' = InFlight("event")
  BY FlightMoves, Zenon
<1> QED
  BY <1>1, CountedKeeps, Zenon

LEMMA PostStepCounted ==
  ASSUME ControlOK, GoroutinesCounted, NEW p \in DOMAIN posts, PostStep(p)
  PROVE  GoroutinesCounted'
<1>1. CASE ConstructPost(p)
  BY <1>1, ConstructPostIs, CarriesCounted DEF Carries, Settles
<1>2. CASE PostSucceeds(p)
  BY <1>2, PostSucceedsIs, CarriesCounted, Zenon DEF Settles
<1>3. CASE PostGivesUp(p)
  BY <1>3, PostGivesUpIs, CarriesCounted DEF Settles
<1>4. CASE PostFails(p)
  BY <1>4, PostFailsIs, CarriesCounted DEF Carries
<1>5. CASE BackoffTimer(p)
  BY <1>5, BackoffTimerIs, CarriesCounted DEF Carries
<1>6. CASE BackoffCancelled(p)
  BY <1>6, BackoffCancelledIs, CarriesCounted DEF Settles
<1>7. CASE PostReturns(p)
  <2>1. Moves(p, "done", posts[p].tries) /\ posts[p].st # "done"
    BY <1>7, PostReturnsIs DEF Carries
  <2>2. /\ Cardinality(InFlight("metrics")') =
               Cardinality(InFlight("metrics")) - (IF posts[p].kind = "metrics" THEN 1 ELSE 0)
        /\ Cardinality(InFlight("event")') =
               Cardinality(InFlight("event")) - (IF posts[p].kind = "event" THEN 1 ELSE 0)
    BY <2>1, FlightEnds, Zenon
  <2>3. /\ Cardinality(InFlight("metrics")) \in Nat /\ Cardinality(InFlight("event")) \in Nat
        /\ metricsSem \in Int /\ posts[p].kind \in {"metrics", "event"} /\ MaxRequests \in Nat
    BY FlightFinite, PostTypes, LimitsAssumption DEF ControlOK, TypeOK
  <2>4. CASE posts[p].kind = "metrics"
    <3>1. /\ Cardinality(InFlight("metrics")') = Cardinality(InFlight("metrics")) - 1
          /\ Cardinality(InFlight("event")') = Cardinality(InFlight("event"))
          /\ metricsSem' = metricsSem + 1 /\ eventWg' = eventWg
      BY <1>7, <2>2, <2>3, <2>4, PostReturnsIs
    <3> QED
      BY <2>3, <3>1 DEF GoroutinesCounted
  <2>5. CASE posts[p].kind = "event"
    <3>1. /\ Cardinality(InFlight("metrics")') = Cardinality(InFlight("metrics"))
          /\ Cardinality(InFlight("event")') = Cardinality(InFlight("event")) - 1
          /\ metricsSem' = metricsSem /\ eventWg' = eventWg - 1
      BY <1>7, <2>2, <2>3, <2>5, PostReturnsIs
    <3> QED
      BY <2>3, <3>1 DEF GoroutinesCounted
  <2> QED
    BY <2>3, <2>4, <2>5
<1> QED
  BY <1>1, <1>2, <1>3, <1>4, <1>5, <1>6, <1>7 DEF PostStep

LEMMA CountedNext ==
  ASSUME ControlOK, GoroutinesCounted, [Next]_vars
  PROVE  GoroutinesCounted'
<1>1. ASSUME UNCHANGED <<posts, metricsSem, eventWg>> PROVE GoroutinesCounted'
  BY <1>1, CountedKeeps DEF InFlight
<1>2. ASSUME NEW b \in Batches, DispatchMetricMap(b) PROVE GoroutinesCounted'
  BY <1>1, <1>2 DEF DispatchMetricMap, eventVars
<1>3. CASE Flush \/ ConsolidatorReturns \/ Cancel
  BY <1>1, <1>3 DEF Flush, ConsolidatorReturns, Cancel, eventVars
<1>4. CASE RunReceive \/ RunStartCancelled \/ RunDone \/ RunReturns
  BY <1>1, <1>4 DEF RunReceive, RunStartCancelled, RunDone, RunReturns, eventVars
<1>5. ASSUME NEW mm \in mms, RunStart(mm) PROVE GoroutinesCounted'
  <2>1. \A kind : Cardinality(InFlight(kind)') =
            Cardinality(InFlight(kind)) + (IF "metrics" = kind THEN 1 ELSE 0)
    BY <1>5, RunStartAdds, FlightAdds
  <2>2. /\ Cardinality(InFlight("metrics")') = Cardinality(InFlight("metrics")) + 1
        /\ Cardinality(InFlight("event")') = Cardinality(InFlight("event"))
        /\ Cardinality(InFlight("metrics")) \in Nat /\ Cardinality(InFlight("event")) \in Nat
    BY <2>1, FlightFinite
  <2>3. /\ metricsSem > 0 /\ metricsSem' = metricsSem - 1 /\ eventWg' = eventWg
        /\ metricsSem \in Int /\ MaxRequests \in Nat
    BY <1>5, LimitsAssumption DEF RunStart, eventVars, ControlOK, TypeOK
  <2> QED
    BY <2>2, <2>3 DEF GoroutinesCounted
<1>6. ASSUME NEW e \in Events, DispatchEvent(e) PROVE GoroutinesCounted'
  <2>1. \A kind : Cardinality(InFlight(kind)') =
            Cardinality(InFlight(kind)) + (IF "event" = kind THEN 1 ELSE 0)
    <3>1. PICK k : Adds(k, Post({e}, "event"))
      BY <1>6, DispatchEventAdds
    <3> QED
      BY <3>1, FlightAdds
  <2>2. /\ Cardinality(InFlight("metrics")') = Cardinality(InFlight("metrics"))
        /\ Cardinality(InFlight("event")') = Cardinality(InFlight("event")) + 1
        /\ Cardinality(InFlight("metrics")) \in Nat /\ Cardinality(InFlight("event")) \in Nat
    BY <2>1, FlightFinite
  <2>3. metricsSem' = metricsSem /\ eventWg' = eventWg + 1
    BY <1>6 DEF DispatchEvent
  <2> QED
    BY <2>2, <2>3 DEF GoroutinesCounted
<1>7. CASE UNCHANGED vars
  BY <1>1, <1>7 DEF vars, eventVars
<1> QED
  BY <1>2, <1>3, <1>4, <1>5, <1>6, <1>7, PostStepCounted DEF Next, RunStep

-----------------------------------------------------------------------------
(* The place of a series                                                   *)

LEMMA InitPlace == Init => PlaceInv
<1> SUFFICES ASSUME Init PROVE PlaceInv
  OBVIOUS
<1>1. DOMAIN posts = {} /\ mms = {} /\ dropped = {} /\ delivered = {}
      /\ \A i \in Items : outcome[i] = "none"
  BY DEF Init, Buffer!Init
<1>2. BufferOK
  BY DEF Init, Buffer!Init, BufferOK
<1> QED
  BY <1>1, <1>2 DEF PlaceInv, PartsOK, PostsOK, HomesOK, CancelOK, Items

LEMMA CarriesPlace ==
  ASSUME PlaceInv, NEW p \in DOMAIN posts, NEW st, NEW n, Carries(p, st, n)
  PROVE  PlaceInv'
<1>1. /\ UNCHANGED <<pending, snapshot, delivered, dropped, mms, dispatched, cancelled, outcome>>
      /\ DOMAIN posts' = DOMAIN posts
  BY DEF Carries, Frame, Moves, bufferVars, runVars
<1>2. \A q \in DOMAIN posts : /\ posts'[q].items = posts[q].items
                              /\ posts'[q].kind = posts[q].kind
                              /\ Live(q)' <=> Live(q)
  BY DEF Carries, Moves, Live
<1>3. BufferOK' /\ CancelOK'
  BY <1>1 DEF PlaceInv, BufferOK, CancelOK
<1>4. PartsOK' /\ HomesOK'
  BY <1>1, <1>2 DEF PlaceInv, PartsOK, HomesOK
<1>5. PostsOK'
  BY <1>1, <1>2, Zenon DEF PlaceInv, PostsOK, PostOK
<1> QED
  BY <1>3, <1>4, <1>5 DEF PlaceInv

LEMMA SettlesPlace ==
  ASSUME ControlOK, PlaceInv, NEW p \in DOMAIN posts, NEW n, NEW how, Settles(p, n, how)
  PROVE  PlaceInv'
<1>1. /\ UNCHANGED <<pending, snapshot, delivered, dropped, mms, dispatched, cancelled>>
      /\ DOMAIN posts' = DOMAIN posts
  BY DEF Settles, Frame, Moves, bufferVars, runVars
<1>2. /\ \A q \in DOMAIN posts : posts'[q].items = posts[q].items /\ posts'[q].kind = posts[q].kind
      /\ \A q \in DOMAIN posts : q # p => (Live(q)' <=> Live(q))
      /\ ~Live(p)'
  BY DEF Settles, Moves, Live
<1>3. /\ \A i \in Items : outcome'[i] = IF i \in posts[p].items THEN how ELSE outcome[i]
      /\ how # "none"
  BY DEF Settles, Settle
<1>4. \A q \in DOMAIN posts : posts[q].items \subseteq Items
  BY PostTypes DEF ControlOK, TypeOK
<1>5. BufferOK'
  BY <1>1 DEF PlaceInv, BufferOK
<1>6. PartsOK'
  <2>1. \A mm \in mms : \A b \in mm : b \in Items /\ b \notin posts[p].items
    BY DEF PlaceInv, PartsOK, ControlOK, TypeOK, Items
  <2>2. \A mm \in mms : \A b \in mm : outcome'[b] = "none"
    BY <1>3, <2>1 DEF PlaceInv, PartsOK
  <2> QED
    BY <1>1, <1>2, <2>2 DEF PlaceInv, PartsOK
<1>7. PostsOK'
  <2>1. \A q \in DOMAIN posts : \A i \in posts[q].items : outcome'[i] = "none" <=> Live(q)'
    <3> SUFFICES ASSUME NEW q \in DOMAIN posts, NEW i \in posts[q].items
                 PROVE  outcome'[i] = "none" <=> Live(q)'
      OBVIOUS
    <3>1. CASE q = p
      BY <1>2, <1>3, <1>4, <3>1
    <3>2. CASE q # p
      <4>1. i \notin posts[p].items /\ i \in Items
        BY <1>4, <3>2 DEF PlaceInv, PostsOK
      <4> QED
        BY <1>2, <1>3, <3>2, <4>1 DEF PlaceInv, PostsOK, PostOK
    <3> QED
      BY <3>1, <3>2
  <2> QED
    BY <1>1, <1>2, <2>1, Zenon DEF PlaceInv, PostsOK, PostOK
<1>8. HomesOK'
  <2>1. posts[p].items \subseteq delivered \cup dispatched
    BY PostTypes DEF PlaceInv, PostsOK, PostOK, ControlOK, TypeOK
  <2>2. \A i \in Items : outcome'[i] # "none" => i \in delivered \cup dispatched
    BY <1>3, <2>1 DEF PlaceInv, HomesOK
  <2>3. delivered \subseteq Items
    BY DEF ControlOK, TypeOK, Items
  <2>4. \A b \in delivered : outcome[b] # "none" => outcome'[b] # "none"
    BY <1>3, <2>3
  <2> QED
    BY <1>1, <1>2, <2>2, <2>4 DEF PlaceInv, HomesOK
<1>9. CancelOK'
  <2> SUFFICES ASSUME ~cancelled PROVE dropped = {} /\ \A b \in Batches : outcome'[b] # "abandoned"
    BY <1>1 DEF CancelOK
  <2>1. ASSUME how = "abandoned" PROVE posts[p].items \cap Batches = {}
    BY <2>1, ItemsAssumption DEF Settles, PlaceInv, PostsOK, PostOK, ControlOK, TypeOK
  <2> QED
    BY <1>3, <2>1 DEF PlaceInv, CancelOK, Items
<1> QED
  BY <1>5, <1>6, <1>7, <1>8, <1>9 DEF PlaceInv

LEMMA PostStepPlace ==
  ASSUME ControlOK, PlaceInv, NEW p \in DOMAIN posts, PostStep(p)
  PROVE  PlaceInv'
<1>1. CASE ConstructPost(p)
  BY <1>1, ConstructPostIs, CarriesPlace, SettlesPlace, Zenon
<1>2. CASE PostSucceeds(p)
  BY <1>2, PostSucceedsIs, SettlesPlace, Zenon
<1>3. CASE PostGivesUp(p)
  BY <1>3, PostGivesUpIs, SettlesPlace, Zenon
<1>4. CASE PostFails(p)
  BY <1>4, PostFailsIs, CarriesPlace, Zenon
<1>5. CASE BackoffTimer(p)
  BY <1>5, BackoffTimerIs, CarriesPlace, Zenon
<1>6. CASE BackoffCancelled(p)
  BY <1>6, BackoffCancelledIs, SettlesPlace, Zenon
<1>7. CASE PostReturns(p)
  BY <1>7, PostReturnsIs, CarriesPlace, Zenon
<1> QED
  BY <1>1, <1>2, <1>3, <1>4, <1>5, <1>6, <1>7 DEF PostStep

\* The steps of the consolidator leave alone what was delivered.
LEMMA BufferPlace ==
  ASSUME PlaceInv, BufferOK', CancelOK',
         UNCHANGED <<delivered, mms, posts, dispatched, outcome>>
  PROVE  PlaceInv'
  BY DEF PlaceInv, PartsOK, PostsOK, PostOK, Live, HomesOK

\* Run takes over what the consolidator sends.
LEMMA ReceivePlace ==
  ASSUME ControlOK, PlaceInv, RunReceive
  PROVE  PlaceInv'
<1>1. /\ mms = {} /\ mms' = SplitByTags(snapshot) /\ snapshot \subseteq Batches
      /\ delivered' = delivered \cup snapshot /\ snapshot' = {}
      /\ UNCHANGED <<pending, dropped, posts, dispatched, outcome, cancelled>>
  BY DEF RunReceive, Buffer!Deliver, ControlOK, TypeOK, eventVars, resultVars
<1>2. /\ \A mm \in mms' : mm \subseteq snapshot
      /\ \A b \in snapshot : \E mm \in mms' : b \in mm
      /\ \A mm, nn \in mms' : \A b \in mm : b \in nn => mm = nn
  BY <1>1, SplitParts
<1>3. \A b \in snapshot : b \notin delivered /\ b \notin dispatched /\ b \in Items
  BY <1>1, ItemsAssumption DEF PlaceInv, BufferOK, ControlOK, TypeOK, Items
<1>4. \A b \in snapshot : outcome[b] = "none"
  BY <1>3 DEF PlaceInv, HomesOK
<1>5. \A p \in DOMAIN posts : posts[p].items \subseteq delivered \cup dispatched
  BY PostTypes DEF PlaceInv, PostsOK, PostOK, ControlOK, TypeOK
<1>6. BufferOK' /\ CancelOK'
  BY <1>1 DEF PlaceInv, BufferOK, CancelOK
<1>7. PartsOK'
  <2>1. \A mm \in mms' : \A b \in mm : b \in delivered' /\ outcome'[b] = "none"
    BY <1>1, <1>2, <1>4
  <2>2. \A mm \in mms' : \A b \in mm : \A p \in DOMAIN posts' : b \notin posts'[p].items
    BY <1>1, <1>2, <1>3, <1>5
  <2> QED
    BY <1>2, <2>1, <2>2 DEF PartsOK
<1>8. PostsOK'
  BY <1>1 DEF PlaceInv, PostsOK, PostOK, Live
<1>9. HomesOK'
  BY <1>1, <1>2 DEF PlaceInv, HomesOK
<1> QED
  BY <1>6, <1>7, <1>8, <1>9 DEF PlaceInv

\* A part becomes the message of a goroutine of its own.
LEMMA StartPlace ==
  ASSUME ControlOK, PlaceInv, NEW mm \in mms, RunStart(mm)
  PROVE  PlaceInv'
<1>1. /\ mms' = mms \ {mm}
      /\ UNCHANGED <<pending, snapshot, delivered, dropped, dispatched, outcome, cancelled>>
  BY DEF RunStart, bufferVars, eventVars, resultVars
<1>2. PICK k : Adds(k, Post(mm, "metrics"))
  BY RunStartAdds
<1>3. /\ DOMAIN posts' = DOMAIN posts \cup {k}
      /\ \A q \in DOMAIN posts : posts'[q] = posts[q]
      /\ posts'[k].items = mm /\ posts'[k].kind = "metrics" /\ posts'[k].st = "construct"
  BY <1>2 DEF Adds, Post
<1>4. /\ \A b \in mm : b \in delivered /\ outcome[b] = "none"
      /\ \A b \in mm : \A p \in DOMAIN posts : b \notin posts[p].items
      /\ \A nn \in mms \ {mm} : \A b \in nn : b \notin mm
  BY DEF PlaceInv, PartsOK
<1>5. BufferOK' /\ CancelOK'
  BY <1>1 DEF PlaceInv, BufferOK, CancelOK
<1>6. PartsOK'
  BY <1>1, <1>3, <1>4 DEF PlaceInv, PartsOK
<1>7. PostsOK'
  <2>1. PostOK(k)'
    BY <1>1, <1>3, <1>4 DEF PostOK, Live
  <2>2. \A q \in DOMAIN posts : PostOK(q)'
    BY <1>1, <1>3 DEF PlaceInv, PostsOK, PostOK, Live
  <2> QED
    BY <1>3, <1>4, <2>1, <2>2 DEF PlaceInv, PostsOK
<1>8. HomesOK'
  <2> SUFFICES ASSUME NEW b \in delivered
               PROVE  \/ outcome[b] # "none"
                      \/ \E nn \in mms' : b \in nn
                      \/ \E p \in DOMAIN posts' : b \in posts'[p].items
    BY <1>1 DEF PlaceInv, HomesOK
  <2>1. CASE b \in mm
    BY <1>3, <2>1
  <2>2. CASE b \notin mm
    BY <1>1, <1>3, <2>2 DEF PlaceInv, HomesOK
  <2> QED
    BY <2>1, <2>2
<1> QED
  BY <1>5, <1>6, <1>7, <1>8 DEF PlaceInv

\* The parts that are left when the context is done are settled by Run.
LEMMA AbandonPlace ==
  ASSUME ControlOK, PlaceInv, RunStartCancelled
  PROVE  PlaceInv'
<1>1. /\ mms' = {} /\ cancelled /\ mms \subseteq SUBSET Batches
      /\ UNCHANGED <<pending, snapshot, delivered, dropped, dispatched, posts, cancelled>>
  BY DEF RunStartCancelled, bufferVars, eventVars, ControlOK, TypeOK
<1>2. \A i \in Items : outcome'[i] = IF i \in UNION mms THEN "abandoned" ELSE outcome[i]
  BY DEF RunStartCancelled, Settle
<1>3. /\ \A i \in UNION mms : i \in delivered
      /\ \A i \in UNION mms : \A p \in DOMAIN posts : i \notin posts[p].items
  BY DEF PlaceInv, PartsOK
<1>4. BufferOK' /\ CancelOK' /\ PartsOK'
  BY <1>1 DEF PlaceInv, BufferOK, CancelOK, PartsOK
<1>5. PostsOK'
  <2>1. \A p \in DOMAIN posts : posts[p].items \subseteq Items
    BY PostTypes DEF ControlOK, TypeOK
  <2>2. \A p \in DOMAIN posts : \A i \in posts[p].items : outcome'[i] = outcome[i]
    BY <1>2, <1>3, <2>1
  <2> QED
    BY <1>1, <2>2 DEF PlaceInv, PostsOK, PostOK, Live
<1>6. HomesOK'
  <2>1. delivered \subseteq Items
    BY DEF ControlOK, TypeOK, Items
  <2>2. \A b \in delivered : \/ outcome'[b] # "none"
                             \/ \E p \in DOMAIN posts : b \in posts[p].items
    BY <1>2, <2>1 DEF PlaceInv, HomesOK
  <2>3. \A i \in Items : outcome'[i] # "none" => i \in delivered \cup dispatched
    BY <1>2, <1>3 DEF PlaceInv, HomesOK
  <2> QED
    BY <1>1, <2>2, <2>3 DEF HomesOK
<1> QED
  BY <1>4, <1>5, <1>6 DEF PlaceInv

\* An event gets a goroutine of its own.
LEMMA EventPlace ==
  ASSUME ControlOK, PlaceInv, NEW e \in Events, DispatchEvent(e)
  PROVE  PlaceInv'
<1>1. /\ dispatched' = dispatched \cup {e} /\ e \notin dispatched
      /\ UNCHANGED <<pending, snapshot, delivered, dropped, mms, outcome, cancelled>>
  BY DEF DispatchEvent, bufferVars, runVars, resultVars
<1>2. PICK k : Adds(k, Post({e}, "event"))
  BY DispatchEventAdds
<1>3. /\ DOMAIN posts' = DOMAIN posts \cup {k}
      /\ \A q \in DOMAIN posts : posts'[q] = posts[q]
      /\ posts'[k].items = {e} /\ posts'[k].kind = "event" /\ posts'[k].st = "construct"
  BY <1>2 DEF Adds, Post
<1>4. e \notin delivered /\ e \in Items /\ e \notin Batches
  BY ItemsAssumption DEF ControlOK, TypeOK, Items
<1>5. outcome[e] = "none"
  BY <1>1, <1>4 DEF PlaceInv, HomesOK
<1>6. \A p \in DOMAIN posts : e \notin posts[p].items
  BY <1>1, <1>4, PostTypes DEF PlaceInv, PostsOK, PostOK, ControlOK, TypeOK
<1>7. BufferOK' /\ CancelOK'
  BY <1>1 DEF PlaceInv, BufferOK, CancelOK
<1>8. PartsOK'
  <2>1. \A mm \in mms : e \notin mm
    BY <1>4 DEF ControlOK, TypeOK
  <2> QED
    BY <1>1, <1>3, <2>1 DEF PlaceInv, PartsOK
<1>9. PostsOK'
  <2>1. PostOK(k)'
    BY <1>1, <1>3, <1>5 DEF PostOK, Live
  <2>2. \A q \in DOMAIN posts : PostOK(q)'
    BY <1>1, <1>3 DEF PlaceInv, PostsOK, PostOK, Live
  <2>3. \A q \in DOMAIN posts' : PostOK(q)'
    BY <1>3, <2>1, <2>2, Zenon
  <2>4. ASSUME NEW p \in DOMAIN posts', NEW q \in DOMAIN posts', NEW i \in posts'[p].items,
               i \in posts'[q].items
        PROVE  p = q
    <3>1. CASE p \in DOMAIN posts /\ q \in DOMAIN posts
      BY <1>3, <2>4, <3>1, Zenon DEF PlaceInv, PostsOK
    <3>2. CASE p = k \/ q = k
      BY <1>3, <1>6, <2>4, <3>2
    <3> QED
      BY <1>3, <3>1, <3>2, Zenon
  <2> QED
    BY <2>3, <2>4, Zenon DEF PostsOK
<1>10. HomesOK'
  BY <1>1, <1>3 DEF PlaceInv, HomesOK
<1> QED
  BY <1>7, <1>8, <1>9, <1>10 DEF PlaceInv

LEMMA PlaceNext ==
  ASSUME ControlOK, PlaceInv, [Next]_vars
  PROVE  PlaceInv'
<1>1. ASSUME NEW b \in Batches, DispatchMetricMap(b) PROVE PlaceInv'
  <2>1. UNCHANGED <<delivered, mms, posts, dispatched, outcome, dropped, cancelled>>
    BY <1>1 DEF DispatchMetricMap, Buffer!Accept, runVars, eventVars, resultVars
  <2>2. BufferOK'
    BY <1>1 DEF DispatchMetricMap, Buffer!Accept, Buffer!Known, PlaceInv, BufferOK
  <2>3. CancelOK'
    BY <2>1 DEF PlaceInv, CancelOK
  <2> QED
    BY <2>1, <2>2, <2>3, BufferPlace
<1>2. CASE Flush
  <2>1. UNCHANGED <<delivered, mms, posts, dispatched, outcome, dropped, cancelled>>
    BY <1>2 DEF Flush, Buffer!Snapshot, runVars, eventVars, resultVars
  <2>2. BufferOK'
    BY <1>2 DEF Flush, Buffer!Snapshot, PlaceInv, BufferOK
  <2>3. CancelOK'
    BY <2>1 DEF PlaceInv, CancelOK
  <2> QED
    BY <2>1, <2>2, <2>3, BufferPlace
<1>3. CASE ConsolidatorReturns
  <2>1. /\ UNCHANGED <<delivered, mms, posts, dispatched, outcome, cancelled>>
        /\ cancelled
    BY <1>3 DEF ConsolidatorReturns, Buffer!GiveUp, runVars, eventVars, resultVars
  <2>2. BufferOK'
    BY <1>3 DEF ConsolidatorReturns, Buffer!GiveUp, PlaceInv, BufferOK
  <2>3. CancelOK'
    BY <2>1 DEF CancelOK
  <2> QED
    BY <2>1, <2>2, <2>3, BufferPlace
<1>4. CASE Cancel
  <2>1. /\ UNCHANGED <<pending, snapshot, delivered, dropped, mms, posts, dispatched, outcome>>
        /\ cancelled'
    BY <1>4 DEF Cancel, bufferVars, runVars, eventVars, resultVars
  <2>2. BufferOK' /\ CancelOK'
    BY <2>1 DEF PlaceInv, BufferOK, CancelOK
  <2> QED
    BY <2>1, <2>2, BufferPlace
<1>5. CASE RunDone \/ RunReturns \/ UNCHANGED vars
  <2>1. UNCHANGED <<pending, snapshot, delivered, dropped, mms, posts, dispatched, outcome,
                    cancelled>>
    BY <1>5 DEF RunDone, RunReturns, vars, bufferVars, runVars, eventVars, resultVars
  <2>2. BufferOK' /\ CancelOK'
    BY <2>1 DEF PlaceInv, BufferOK, CancelOK
  <2> QED
    BY <2>1, <2>2, BufferPlace
<1> QED
  BY <1>1, <1>2, <1>3, <1>4, <1>5, ReceivePlace, StartPlace, AbandonPlace, EventPlace,
     PostStepPlace, Zenon DEF Next, RunStep

\* ExactlyOnePlace is a consequence: the places of a batch form a set with
\* one element, whichever of the parts of the invariant the batch is under.
LEMMA PlaceImplies ==
  ASSUME ControlOK, PlaceInv
  PROVE  ExactlyOnePlace
<1> SUFFICES ASSUME NEW b \in Accepted PROVE \E x : Places(b) = {x}
  <2>1. \A x : Cardinality({x}) = 1
    BY FS_Singleton, Zenon
  <2> QED
    BY <2>1, Zenon DEF ExactlyOnePlace, PlaceInv, CancelOK
<1> DEFINE parts == {mm \in mms : b \in mm}
           live == {p \in DOMAIN posts : b \in posts[p].items /\
                        posts[p].st \in {"construct", "post", "backoff"}}
<1>1. /\ b \in Batches /\ b \in Items /\ b \notin dispatched
      /\ Accepted = pending \cup snapshot \cup delivered \cup dropped
  BY ItemsAssumption DEF Accepted, ControlOK, TypeOK, Items
<1>2. CASE b \notin delivered
  <2>1. parts = {} /\ live = {} /\ outcome[b] = "none"
    <3>1. parts = {} /\ outcome[b] = "none"
      BY <1>1, <1>2 DEF PlaceInv, PartsOK, HomesOK
    <3>2. \A p \in DOMAIN posts : posts[p].kind \in {"metrics", "event"}
      BY PostTypes DEF ControlOK, TypeOK
    <3>3. \A p \in DOMAIN posts : b \notin posts[p].items
      BY <1>1, <1>2, <3>2 DEF PlaceInv, PostsOK, PostOK
    <3> QED
      BY <3>1, <3>3
  <2>2. CASE b \in pending
    <3>1. b \notin snapshot /\ b \notin dropped
      BY <2>2 DEF PlaceInv, BufferOK
    <3>2. Places(b) = {"pending"}
      BY <2>1, <2>2, <3>1 DEF Places
    <3> QED
      BY <3>2
  <2>3. CASE b \in snapshot
    <3>1. b \notin pending /\ b \notin dropped
      BY <2>3 DEF PlaceInv, BufferOK
    <3>2. Places(b) = {"snapshot"}
      BY <2>1, <2>3, <3>1 DEF Places
    <3> QED
      BY <3>2
  <2>4. CASE b \in dropped
    <3>1. b \notin pending /\ b \notin snapshot
      BY <2>4 DEF PlaceInv, BufferOK
    <3>2. Places(b) = {"dropped"}
      BY <2>1, <2>4, <3>1 DEF Places
    <3> QED
      BY <3>2
  <2> QED
    BY <1>1, <1>2, <2>2, <2>3, <2>4
<1>3. CASE b \in delivered
  <2>1. b \notin pending /\ b \notin snapshot /\ b \notin dropped
    BY <1>3 DEF PlaceInv, BufferOK
  <2>2. CASE outcome[b] # "none"
    <3>1. parts = {} /\ live = {}
      BY <2>2 DEF PlaceInv, PartsOK, PostsOK, PostOK, Live
    <3>2. Places(b) = {<<"outcome", outcome[b]>>}
      BY <2>1, <2>2, <3>1 DEF Places
    <3> QED
      BY <3>2, Zenon
  <2>3. ASSUME NEW mm \in mms, b \in mm PROVE \E x : Places(b) = {x}
    <3>1. parts = {mm} /\ live = {} /\ outcome[b] = "none"
      BY <2>3 DEF PlaceInv, PartsOK
    <3>2. Places(b) = {<<"part", mm>>}
      BY <2>1, <3>1 DEF Places
    <3> QED
      BY <3>2, Zenon
  <2>4. ASSUME NEW p \in DOMAIN posts, b \in posts[p].items, outcome[b] = "none"
        PROVE  \E x : Places(b) = {x}
    <3>1. parts = {} /\ live = {p}
      BY <2>4 DEF PlaceInv, PartsOK, PostsOK, PostOK, Live
    <3>2. Places(b) = {<<"post", p>>}
      BY <2>1, <2>4, <3>1 DEF Places
    <3> QED
      BY <3>2, Zenon
  <2> QED
    BY <1>3, <2>2, <2>3, <2>4, Zenon DEF PlaceInv, HomesOK
<1> QED
  BY <1>2, <1>3

-----------------------------------------------------------------------------
(* What the server received                                                *)

LEMMA InitReceived == Init => ReceivedOK
  BY DEF Init, ReceivedOK, Items

\* An item is settled as sent only by an attempt that reaches the server.
SentReaches(p, reaches) ==
    \A i \in Items : outcome'[i] = "sent" =>
        outcome[i] = "sent" \/ (reaches /\ i \in posts[p].items)

\* One more attempt, after which the outcome stays open or is settled.
LEMMA AttemptReceived ==
  ASSUME ControlOK, PlaceInv, ReceivedOK, NEW p \in DOMAIN posts, NEW st,
         Moves(p, st, posts[p].tries + 1), NEW reaches \in BOOLEAN, Attempt(p, reaches),
         SentReaches(p, reaches)
  PROVE  ReceivedOK'
<1>1. /\ \A i \in Items : received'[i] = IF reaches /\ i \in posts[p].items
                                         THEN received[i] + 1 ELSE received[i]
      /\ \A i \in Items : received[i] \in Nat
  BY AttemptType, Zenon DEF ControlOK, TypeOK
<1>2. /\ DOMAIN posts' = DOMAIN posts
      /\ \A q \in DOMAIN posts : posts'[q].items = posts[q].items
      /\ \A q \in DOMAIN posts : q # p => posts'[q].tries = posts[q].tries
      /\ posts'[p].tries = posts[p].tries + 1
  BY DEF Moves
<1>3. \A q \in DOMAIN posts : posts[q].items \subseteq Items /\ posts[q].tries \in Nat
  BY PostTypes DEF ControlOK, TypeOK
<1>4. ASSUME NEW i \in Items, outcome'[i] = "sent" PROVE received'[i] > 0
  <2>1. received[i] \in Nat /\ received'[i] \in {received[i], received[i] + 1}
    BY <1>1
  <2>2. CASE outcome[i] = "sent"
    <3>1. received[i] > 0
      BY <2>2 DEF ReceivedOK
    <3> QED
      BY <2>1, <3>1
  <2>3. CASE reaches /\ i \in posts[p].items
    <3>1. received'[i] = received[i] + 1
      BY <1>1, <2>3
    <3> QED
      BY <2>1, <3>1
  <2> QED
    BY <1>4, <2>2, <2>3, Zenon DEF SentReaches
<1>5. \A q \in DOMAIN posts : \A i \in posts[q].items : received'[i] <= posts'[q].tries
  <2> SUFFICES ASSUME NEW q \in DOMAIN posts, NEW i \in posts[q].items
               PROVE  received'[i] <= posts'[q].tries
    OBVIOUS
  <2>1. /\ received[i] <= posts[q].tries /\ i \in Items
        /\ received[i] \in Nat /\ posts[q].tries \in Nat
    BY <1>1, <1>3 DEF ReceivedOK
  <2>2. CASE q = p
    <3>1. received'[i] \in {received[i], received[i] + 1}
      BY <1>1, <2>1
    <3>2. posts'[q].tries = posts[q].tries + 1
      BY <1>2, <2>2
    <3> QED
      BY <2>1, <3>1, <3>2
  <2>3. CASE q # p
    <3>1. i \notin posts[p].items
      BY <2>3 DEF PlaceInv, PostsOK
    <3>2. received'[i] = received[i]
      BY <1>1, <2>1, <3>1
    <3>3. posts'[q].tries = posts[q].tries
      BY <1>2, <2>3
    <3> QED
      BY <2>1, <3>2, <3>3
  <2> QED
    BY <2>2, <2>3
<1>6. ASSUME NEW i \in Items, \A q \in DOMAIN posts : i \notin posts[q].items
      PROVE  received'[i] = 0
  <2>1. received[i] = 0 /\ i \notin posts[p].items
    BY <1>6 DEF ReceivedOK
  <2> QED
    BY <1>1, <2>1
<1> QED
  BY <1>2, <1>4, <1>5, <1>6, Zenon DEF ReceivedOK

\* No attempt.
LEMMA QuietReceived ==
  ASSUME ReceivedOK, NEW p \in DOMAIN posts, NEW st, Moves(p, st, posts[p].tries),
         UNCHANGED received, \A i \in Items : outcome'[i] = "sent" => outcome[i] = "sent"
  PROVE  ReceivedOK'
<1>1. /\ DOMAIN posts' = DOMAIN posts
      /\ \A q \in DOMAIN posts : posts'[q].items = posts[q].items
      /\ \A q \in DOMAIN posts : posts'[q].tries = posts[q].tries
  BY DEF Moves
<1> QED
  BY <1>1 DEF ReceivedOK

\* No goroutine has any of these items.
Fresh(items) == \A i \in items : \A p \in DOMAIN posts : i \notin posts[p].items

\* A new goroutine has items nobody has sent yet.
LEMMA AddsReceived ==
  ASSUME ReceivedOK, NEW k, NEW items \in SUBSET Items, NEW kind, Adds(k, Post(items, kind)),
         UNCHANGED <<received, outcome>>, Fresh(items)
  PROVE  ReceivedOK'
<1>1. /\ DOMAIN posts' = DOMAIN posts \cup {k}
      /\ \A q \in DOMAIN posts : posts'[q] = posts[q]
      /\ posts'[k].items = items /\ posts'[k].tries = 0
  BY DEF Adds, Post
<1>2. \A i \in items : received[i] = 0
  BY DEF ReceivedOK, Fresh
<1>3. ASSUME NEW p \in DOMAIN posts', NEW i \in posts'[p].items
      PROVE  received'[i] <= posts'[p].tries
  <2>1. CASE p = k
    <3>1. received'[i] = 0 /\ posts'[p].tries = 0
      BY <1>1, <1>2, <2>1
    <3>2. 0 <= 0
      OBVIOUS
    <3> QED
      BY <3>1, <3>2, Zenon
  <2>2. CASE p \in DOMAIN posts
    BY <1>1, <2>2 DEF ReceivedOK
  <2> QED
    BY <1>1, <2>1, <2>2
<1>4. \A i \in Items : (\A p \in DOMAIN posts' : i \notin posts'[p].items) => received'[i] = 0
  BY <1>1 DEF ReceivedOK
<1> QED
  BY <1>3, <1>4 DEF ReceivedOK

LEMMA PostStepReceived ==
  ASSUME ControlOK, PlaceInv, ReceivedOK, NEW p \in DOMAIN posts, PostStep(p)
  PROVE  ReceivedOK'
<1>1. ASSUME NEW st, NEW n, Carries(p, st, n)
      PROVE  Moves(p, st, n) /\ \A i \in Items : outcome'[i] = "sent" => outcome[i] = "sent"
  BY <1>1 DEF Carries
<1>2. ASSUME NEW n, NEW how, Settles(p, n, how)
      PROVE  /\ Moves(p, "after", n)
             /\ \A i \in Items : outcome'[i] = "sent" =>
                    outcome[i] = "sent" \/ (how = "sent" /\ i \in posts[p].items)
  BY <1>2 DEF Settles, Settle
<1>3. ASSUME NEW st, Moves(p, st, posts[p].tries), UNCHANGED received,
             \A i \in Items : outcome'[i] = "sent" => outcome[i] = "sent"
      PROVE  ReceivedOK'
  BY <1>3, QuietReceived, Zenon
<1>4. CASE ConstructPost(p)
  <2>1. UNCHANGED received
    BY <1>4, ConstructPostIs, Zenon
  <2>2. CASE Carries(p, "post", posts[p].tries)
    BY <1>1, <1>3, <2>1, <2>2, Zenon
  <2>3. CASE Settles(p, posts[p].tries, "invalid")
    <3>1. /\ Moves(p, "after", posts[p].tries)
          /\ \A i \in Items : outcome'[i] = "sent" => outcome[i] = "sent"
      BY <1>2, <2>3
    <3> QED
      BY <1>3, <2>1, <3>1, Zenon
  <2> QED
    BY <1>4, <2>2, <2>3, ConstructPostIs, Zenon
<1>5. CASE PostSucceeds(p)
  <2>1. Attempt(p, TRUE) /\ Settles(p, posts[p].tries + 1, "sent")
    BY <1>5, PostSucceedsIs, Zenon
  <2>2. Moves(p, "after", posts[p].tries + 1) /\ SentReaches(p, TRUE)
    BY <1>2, <2>1, Zenon DEF SentReaches
  <2> QED
    BY <2>1, <2>2, AttemptReceived, Zenon
<1>6. CASE PostGivesUp(p)
  <2>1. PICK reaches \in BOOLEAN : Attempt(p, reaches)
    BY <1>6, PostGivesUpIs, Zenon
  <2>2. Settles(p, posts[p].tries + 1, "dropped")
    BY <1>6, PostGivesUpIs, Zenon
  <2>3. Moves(p, "after", posts[p].tries + 1) /\ SentReaches(p, reaches)
    BY <1>2, <2>2 DEF SentReaches
  <2> QED
    BY <2>1, <2>3, AttemptReceived, Zenon
<1>7. CASE PostFails(p)
  <2>1. PICK reaches \in BOOLEAN : Attempt(p, reaches)
    BY <1>7, PostFailsIs, Zenon
  <2>2. Carries(p, "backoff", posts[p].tries + 1)
    BY <1>7, PostFailsIs, Zenon
  <2>3. Moves(p, "backoff", posts[p].tries + 1) /\ SentReaches(p, reaches)
    BY <1>1, <2>2, Zenon DEF SentReaches
  <2> QED
    BY <2>1, <2>3, AttemptReceived, Zenon
<1>8. CASE BackoffTimer(p)
  <2>1. Carries(p, "post", posts[p].tries) /\ UNCHANGED received
    BY <1>8, BackoffTimerIs, Zenon
  <2> QED
    BY <1>1, <1>3, <2>1, Zenon
<1>9. CASE BackoffCancelled(p)
  <2>1. Settles(p, posts[p].tries, "abandoned") /\ UNCHANGED received
    BY <1>9, BackoffCancelledIs, Zenon
  <2>2. /\ Moves(p, "after", posts[p].tries)
        /\ \A i \in Items : outcome'[i] = "sent" => outcome[i] = "sent"
    BY <1>2, <2>1
  <2> QED
    BY <1>3, <2>1, <2>2, Zenon
<1>10. CASE PostReturns(p)
  <2>1. Carries(p, "done", posts[p].tries) /\ UNCHANGED received
    BY <1>10, PostReturnsIs, Zenon
  <2> QED
    BY <1>1, <1>3, <2>1, Zenon
<1> QED
  BY <1>4, <1>5, <1>6, <1>7, <1>8, <1>9, <1>10, Zenon DEF PostStep

LEMMA ReceivedNext ==
  ASSUME ControlOK, PlaceInv, ReceivedOK, [Next]_vars
  PROVE  ReceivedOK'
<1>1. ASSUME UNCHANGED <<posts, received>>,
             \A i \in Items : outcome'[i] = "sent" => outcome[i] = "sent"
      PROVE  ReceivedOK'
  BY <1>1 DEF ReceivedOK
<1>2. ASSUME NEW b \in Batches, DispatchMetricMap(b) PROVE ReceivedOK'
  BY <1>1, <1>2 DEF DispatchMetricMap, resultVars
<1>3. CASE Flush \/ ConsolidatorReturns \/ Cancel \/ UNCHANGED vars
  BY <1>1, <1>3 DEF Flush, ConsolidatorReturns, Cancel, vars, resultVars
<1>4. CASE RunReceive \/ RunDone \/ RunReturns
  BY <1>1, <1>4 DEF RunReceive, RunDone, RunReturns, resultVars
<1>5. CASE RunStartCancelled
  BY <1>1, <1>5 DEF RunStartCancelled, Settle
<1>6. ASSUME NEW mm \in mms, RunStart(mm) PROVE ReceivedOK'
  <2>1. PICK k : Adds(k, Post(mm, "metrics"))
    BY <1>6, RunStartAdds
  <2>2. mm \in SUBSET Items /\ Fresh(mm)
    BY DEF PlaceInv, PartsOK, ControlOK, TypeOK, Items, Fresh
  <2>3. UNCHANGED <<received, outcome>>
    BY <1>6 DEF RunStart, resultVars
  <2> QED
    BY <2>1, <2>2, <2>3, AddsReceived
<1>7. ASSUME NEW e \in Events, DispatchEvent(e) PROVE ReceivedOK'
  <2>1. PICK k : Adds(k, Post({e}, "event"))
    BY <1>7, DispatchEventAdds
  <2>2. {e} \in SUBSET Items /\ e \notin dispatched /\ e \notin delivered
    BY <1>7, ItemsAssumption DEF DispatchEvent, ControlOK, TypeOK, Items
  <2>3. Fresh({e})
    <3>1. \A p \in DOMAIN posts : posts[p].kind \in {"metrics", "event"}
      BY PostTypes DEF ControlOK, TypeOK
    <3> QED
      BY <2>2, <3>1 DEF PlaceInv, PostsOK, PostOK, Fresh
  <2>4. UNCHANGED <<received, outcome>>
    BY <1>7 DEF DispatchEvent, resultVars
  <2> QED
    BY <2>1, <2>2, <2>3, <2>4, AddsReceived
<1> QED
  BY <1>2, <1>3, <1>4, <1>5, <1>6, <1>7, PostStepReceived, Zenon DEF Next, RunStep

-----------------------------------------------------------------------------
(* The counters of messages                                                *)

\* Every message is sent or dropped once it is created.
NoneAbandoned == ~cancelled /\ \A e \in Events : outcome[e] # "abandoned"

LEMMA PostingFinite ==
  ASSUME ControlOK
  PROVE  IsFiniteSet(Posting) /\ Cardinality(Posting) \in Nat
<1>1. IsFiniteSet(DOMAIN posts)
  BY PostsFinite
<1>2. IsFiniteSet(Posting)
  BY <1>1, FS_Subset DEF Posting
<1> QED
  BY <1>2, FS_CardinalityType

LEMMA InitCreated == Init => CreatedOK
<1> SUFFICES ASSUME Init PROVE CreatedOK
  OBVIOUS
<1>1. Posting = {}
  BY DEF Init, Posting
<1>2. Cardinality(Posting) = 0
  BY <1>1, FS_EmptySet
<1> QED
  BY <1>2 DEF Init, CreatedOK

\* A message that was abandoned stays abandoned.
LEMMA CarriesNone ==
  ASSUME NEW p, NEW st, NEW n, Carries(p, st, n), NoneAbandoned'
  PROVE  NoneAbandoned
  BY DEF Carries, Frame, NoneAbandoned

LEMMA SettlesNone ==
  ASSUME PlaceInv, NEW p \in DOMAIN posts, NEW n, NEW how, Settles(p, n, how), NoneAbandoned'
  PROVE  NoneAbandoned
<1>1. ~cancelled /\ \A i \in Items : outcome'[i] = IF i \in posts[p].items THEN how ELSE outcome[i]
  BY DEF Settles, Settle, Frame, NoneAbandoned
<1>2. \A i \in posts[p].items : outcome[i] = "none"
  BY DEF Settles, PlaceInv, PostsOK, PostOK
<1> QED
  BY <1>1, <1>2 DEF NoneAbandoned, Items

\* How the set of goroutines that post changes with one of them.
LEMMA PostingEnters ==
  ASSUME ControlOK, NEW p \in DOMAIN posts, NEW st, NEW n, Moves(p, st, n),
         posts[p].st \notin {"post", "backoff"}, st \in {"post", "backoff"}
  PROVE  Cardinality(Posting') = Cardinality(Posting) + 1
<1>1. Posting' = Posting \cup {p} /\ p \notin Posting
  BY DEF Posting, Moves
<1> QED
  BY <1>1, PostingFinite, FS_AddElement

LEMMA PostingLeaves ==
  ASSUME ControlOK, NEW p \in DOMAIN posts, NEW st, NEW n, Moves(p, st, n),
         posts[p].st \in {"post", "backoff"}, st \notin {"post", "backoff"}
  PROVE  Cardinality(Posting') = Cardinality(Posting) - 1
<1>1. Posting' = Posting \ {p} /\ p \in Posting
  BY DEF Posting, Moves
<1> QED
  BY <1>1, PostingFinite, FS_RemoveElement

LEMMA PostingStays ==
  ASSUME NEW p \in DOMAIN posts, NEW st, NEW n, Moves(p, st, n),
         posts[p].st \in {"post", "backoff"} <=> st \in {"post", "backoff"}
  PROVE  Posting' = Posting
  BY DEF Posting, Moves

\* The counters change as the number of goroutines that post does.
Balanced ==
    messagesCreated' + messagesSent + messagesDropped + Cardinality(Posting)
    = messagesCreated + messagesSent' + messagesDropped' + Cardinality(Posting')

CountersType ==
    /\ messagesCreated \in Nat /\ messagesSent \in Nat /\ messagesDropped \in Nat
    /\ Cardinality(Posting) \in Nat

LEMMA CountersAreTyped ==
  ASSUME ControlOK
  PROVE  CountersType
  BY PostingFinite DEF ControlOK, TypeOK, CountersType

LEMMA Recount ==
  ASSUME CountersType, CountersType', CreatedOK, NoneAbandoned' => NoneAbandoned, Balanced
  PROVE  CreatedOK'
<1> SUFFICES ASSUME NoneAbandoned'
             PROVE  messagesCreated' = messagesSent' + messagesDropped' + Cardinality(Posting')
  BY DEF CreatedOK, NoneAbandoned
<1>1. messagesCreated = messagesSent + messagesDropped + Cardinality(Posting)
  BY DEF CreatedOK, NoneAbandoned
<1> QED
  BY <1>1 DEF CountersType, Balanced

LEMMA CountersWillBeTyped == ControlOK' => CountersType'
<1>1. ControlOK => CountersType
  BY CountersAreTyped
<1> QED
  BY <1>1, PTL

LEMMA PostStepCreated ==
  ASSUME ControlOK, ControlOK', PlaceInv, CreatedOK, NEW p \in DOMAIN posts, PostStep(p)
  PROVE  CreatedOK'
<1>1. CountersType /\ CountersType'
  BY CountersAreTyped, CountersWillBeTyped, Zenon
<1>2. (NoneAbandoned' => NoneAbandoned) /\ Balanced => CreatedOK'
  BY <1>1, Recount, Zenon
<1>3. CASE ConstructPost(p)
  <2>1. posts[p].st = "construct" /\ UNCHANGED <<messagesSent, messagesDropped>>
    BY <1>3, ConstructPostIs, Zenon
  <2>2. CASE Carries(p, "post", posts[p].tries) /\ messagesCreated' = messagesCreated + 1
    <3>1. Moves(p, "post", posts[p].tries)
      BY <2>2, Zenon DEF Carries
    <3>2. Cardinality(Posting') = Cardinality(Posting) + 1
      BY <2>1, <3>1, PostingEnters
    <3>3. Balanced
      BY <1>1, <2>1, <2>2, <3>2 DEF Balanced, CountersType
    <3> QED
      BY <1>2, <2>2, <3>3, CarriesNone, Zenon
  <2>3. CASE Settles(p, posts[p].tries, "invalid") /\ UNCHANGED messagesCreated
    <3>1. Moves(p, "after", posts[p].tries)
      BY <2>3, Zenon DEF Settles
    <3>2. Posting' = Posting
      BY <2>1, <3>1, PostingStays
    <3>3. Balanced
      BY <1>1, <2>1, <2>3, <3>2 DEF Balanced, CountersType
    <3> QED
      BY <1>2, <2>3, <3>3, SettlesNone, Zenon
  <2> QED
    BY <1>3, <2>2, <2>3, ConstructPostIs, Zenon
<1>4. CASE PostSucceeds(p)
  <2>1. /\ Settles(p, posts[p].tries + 1, "sent") /\ posts[p].st = "post"
        /\ messagesSent' = messagesSent + 1 /\ UNCHANGED <<messagesCreated, messagesDropped>>
    BY <1>4, PostSucceedsIs, Zenon
  <2>2. Moves(p, "after", posts[p].tries + 1)
    BY <2>1, Zenon DEF Settles
  <2>3. Cardinality(Posting') = Cardinality(Posting) - 1
    BY <2>1, <2>2, PostingLeaves
  <2>4. Balanced
    BY <1>1, <2>1, <2>3 DEF Balanced, CountersType
  <2> QED
    BY <1>2, <2>1, <2>4, SettlesNone, Zenon
<1>5. CASE PostGivesUp(p)
  <2>1. /\ Settles(p, posts[p].tries + 1, "dropped") /\ posts[p].st = "post"
        /\ messagesDropped' = messagesDropped + 1 /\ UNCHANGED <<messagesCreated, messagesSent>>
    BY <1>5, PostGivesUpIs, Zenon
  <2>2. Moves(p, "after", posts[p].tries + 1)
    BY <2>1, Zenon DEF Settles
  <2>3. Cardinality(Posting') = Cardinality(Posting) - 1
    BY <2>1, <2>2, PostingLeaves
  <2>4. Balanced
    BY <1>1, <2>1, <2>3 DEF Balanced, CountersType
  <2> QED
    BY <1>2, <2>1, <2>4, SettlesNone, Zenon
<1>6. ASSUME NEW st, NEW n, Carries(p, st, n),
             posts[p].st \in {"post", "backoff"} <=> st \in {"post", "backoff"},
             UNCHANGED <<messagesCreated, messagesSent, messagesDropped>>
      PROVE  CreatedOK'
  <2>1. Moves(p, st, n)
    BY <1>6, Zenon DEF Carries
  <2>2. Posting' = Posting
    BY <1>6, <2>1, PostingStays
  <2>3. Balanced
    BY <1>1, <1>6, <2>2 DEF Balanced, CountersType
  <2> QED
    BY <1>2, <1>6, <2>3, CarriesNone, Zenon
<1>7. CASE PostFails(p)
  <2>1. /\ Carries(p, "backoff", posts[p].tries + 1) /\ posts[p].st = "post"
        /\ UNCHANGED <<messagesCreated, messagesSent, messagesDropped>>
    BY <1>7, PostFailsIs, Zenon
  <2> QED
    BY <1>6, <2>1
<1>8. CASE BackoffTimer(p)
  <2>1. /\ Carries(p, "post", posts[p].tries) /\ posts[p].st = "backoff"
        /\ UNCHANGED <<messagesCreated, messagesSent, messagesDropped>>
    BY <1>8, BackoffTimerIs, Zenon DEF counterVars
  <2> QED
    BY <1>6, <2>1
<1>9. CASE PostReturns(p)
  <2>1. /\ Carries(p, "done", posts[p].tries) /\ posts[p].st = "after"
        /\ UNCHANGED <<messagesCreated, messagesSent, messagesDropped>>
    BY <1>9, PostReturnsIs, Zenon DEF counterVars
  <2> QED
    BY <1>6, <2>1
<1>10. CASE BackoffCancelled(p)
  <2> SUFFICES ~NoneAbandoned'
    BY DEF CreatedOK, NoneAbandoned
  <2>1. Settles(p, posts[p].tries, "abandoned")
    BY <1>10, BackoffCancelledIs
  <2>2. CASE cancelled
    BY <2>1, <2>2 DEF Settles, Frame, NoneAbandoned
  <2>3. CASE posts[p].kind = "event"
    <3>1. PICK e \in posts[p].items : e \in Events
      <4>1. posts[p].items \subseteq dispatched /\ posts[p].items # {}
        BY <2>3 DEF PlaceInv, PostsOK, PostOK
      <4>2. dispatched \subseteq Events
        BY DEF ControlOK, TypeOK
      <4> QED
        BY <4>1, <4>2, Zenon
    <3>2. outcome'[e] = "abandoned"
      BY <2>1, <3>1 DEF Settles, Settle, Items
    <3> QED
      BY <3>1, <3>2 DEF NoneAbandoned
  <2> QED
    BY <2>1, <2>2, <2>3 DEF Settles
<1> QED
  BY <1>3, <1>4, <1>5, <1>7, <1>8, <1>9, <1>10, Zenon DEF PostStep

LEMMA CreatedNext ==
  ASSUME ControlOK, PlaceInv, CreatedOK, [Next]_vars
  PROVE  CreatedOK'
<1>1. ASSUME Posting' = Posting, NoneAbandoned' => NoneAbandoned, UNCHANGED counterVars
      PROVE  CreatedOK'
  BY <1>1 DEF CreatedOK, NoneAbandoned, counterVars
<1>2. ASSUME UNCHANGED <<posts, outcome, counterVars>>, cancelled => cancelled'
      PROVE  CreatedOK'
  <2>1. Posting' = Posting /\ (NoneAbandoned' => NoneAbandoned)
    BY <1>2 DEF Posting, NoneAbandoned
  <2> QED
    BY <1>1, <1>2, <2>1
<1>3. ASSUME NEW b \in Batches, DispatchMetricMap(b) PROVE CreatedOK'
  BY <1>2, <1>3 DEF DispatchMetricMap, resultVars
<1>4. CASE Flush \/ ConsolidatorReturns \/ Cancel \/ UNCHANGED vars
  BY <1>2, <1>4 DEF Flush, ConsolidatorReturns, Cancel, vars, resultVars
<1>5. CASE RunReceive \/ RunDone \/ RunReturns
  BY <1>2, <1>5 DEF RunReceive, RunDone, RunReturns, resultVars
<1>6. CASE RunStartCancelled
  BY <1>6 DEF RunStartCancelled, CreatedOK
<1>7. ASSUME NEW k, NEW items, NEW kind, Adds(k, Post(items, kind)),
             UNCHANGED <<outcome, counterVars, cancelled>>
      PROVE  CreatedOK'
  <2>1. Posting' = Posting
    BY <1>7 DEF Posting, Adds, Post
  <2>2. NoneAbandoned' => NoneAbandoned
    BY <1>7 DEF NoneAbandoned
  <2> QED
    BY <1>1, <1>7, <2>1, <2>2
<1>8. ASSUME NEW mm \in mms, RunStart(mm) PROVE CreatedOK'
  BY <1>7, <1>8, RunStartAdds DEF RunStart, resultVars
<1>9. ASSUME NEW e \in Events, DispatchEvent(e) PROVE CreatedOK'
  BY <1>7, <1>9, DispatchEventAdds DEF DispatchEvent, resultVars
<1>10. ASSUME NEW p \in DOMAIN posts, PostStep(p) PROVE CreatedOK'
  BY <1>10, PostStepControl, PostStepCreated, Zenon
<1> QED
  BY <1>3, <1>4, <1>5, <1>6, <1>8, <1>9, <1>10, Zenon DEF Next, RunStep

-----------------------------------------------------------------------------
(* The theorems                                                            *)

\* The invariant holds in every reachable state of the forwarder.
THEOREM ForwarderInvariant == Spec => []ForwarderInv
<1>1. Init => ForwarderInv
  BY InitControl, InitCounted, InitPlace, InitReceived, InitCreated DEF ForwarderInv
<1>2. ForwarderInv /\ [Next]_vars => ForwarderInv'
  BY ControlNext, CountedNext, PlaceNext, ReceivedNext, CreatedNext DEF ForwarderInv
<1> QED
  BY <1>1, <1>2, PTL DEF Spec

\* acquireSem and releaseSem keep a token for every goroutine that posts
\* metrics, so max-requests bounds them and releaseSem never blocks; eventWg
\* counts the goroutines that post events.
THEOREM GoroutinesAreCounted == Spec => []GoroutinesCounted
<1>1. ForwarderInv => GoroutinesCounted
  BY DEF ForwarderInv
<1> QED
  BY <1>1, ForwarderInvariant, PTL

\* A series that was accepted is in the consolidator, in one part, in one
\* message or in one outcome, whatever the headers split it into and however
\* the goroutines of Run and post interleave with the end of the context.
THEOREM SeriesAreInOnePlace == Spec => []ExactlyOnePlace
<1>1. ForwarderInv => ExactlyOnePlace
  BY PlaceImplies DEF ForwarderInv
<1> QED
  BY <1>1, ForwarderInvariant, PTL

\* What postMetrics and dispatchEvent count as sent has arrived, an item
\* arrives at most once for every attempt of its own message, and the
\* counters of messages add up as long as nothing was abandoned.
THEOREM CountersOfMessagesAddUp == Spec => []CountersAddUp
<1>1. ForwarderInv => CountersAddUp
  BY DEF ForwarderInv, ReceivedOK, CreatedOK, Posting, CountersAddUp
<1> QED
  BY <1>1, ForwarderInvariant, PTL
=============================================================================
