------------------------- MODULE CloudHandlerProofs -------------------------
(***************************************************************************)
(* Proofs about CloudHandler, for any series, events, addresses and        *)
(* dispatchers: what is dispatched is in one place until it is passed on   *)
(* or given up, and what waits for an address waits for an answer that is  *)
(* still to come.                                                          *)
(*                                                                         *)
(* ExactlyOnePlace counts the places of an item.  The invariant names the  *)
(* place instead, so that a step that finds an item in one place knows     *)
(* that it is in no other.                                                 *)
(***************************************************************************)
EXTENDS CloudHandler, FiniteSetTheorems, SequenceTheorems, TLAPS

-----------------------------------------------------------------------------
(* The inductive invariant                                                 *)

\* The types of what an item or an address can be in; a dispatcher that is
\* not looking items up has none left to look up.
Types ==
    /\ cached \in [IPs -> Answers \cup {Miss}]
    /\ owed \in [IPs -> Nat]
    /\ submitted \subseteq Items
    /\ dpc \in [Dispatchers -> {"idle", "peek", "pass", "send"}]
    /\ todo \in [Dispatchers -> SUBSET Items]
    /\ hits \in [Dispatchers -> SUBSET (Items \X Answers)]
    /\ misses \in [Dispatchers -> SUBSET {i \in Items : Source[i] \in IPs}]
    /\ awaitingMetrics \in [IPs -> SUBSET Metrics]
    /\ awaitingEvents \in [IPs -> SUBSET Events]
    /\ toLookupIPs \in Seq(IPs)
    /\ toLookupIP \in IPs \cup {None}
    /\ goMetrics \subseteq GoMetrics
    /\ goEvents \subseteq GoEvents
    /\ passedOn \in [Items -> Answers \cup {None}]
    /\ dropped \subseteq Items
    /\ \A d \in Dispatchers : dpc[d] # "peek" => todo[d] = {}

\* Who has item i, place by place.
InTodo(i) == {d \in Dispatchers : i \in todo[d]}
InHits(i) == {d \in Dispatchers : \E a \in Answers : <<i, a>> \in hits[d]}
InMisses(i) == {d \in Dispatchers : i \in misses[d]}
InMetrics(i) == {ip \in IPs : i \in awaitingMetrics[ip]}
InEvents(i) == {ip \in IPs : i \in awaitingEvents[ip]}
InGoMetrics(i) == {g \in goMetrics : i \in g.items}
InGoEvents(i) == {g \in goEvents : i \in g.items}

Tags == {"none", "todo", "hit", "miss", "metrics", "events", "goMetrics", "goEvents",
         "dropped", "passed"}

Only(is, key) == IF is THEN {key} ELSE {}

\* Item i is in one place and in no other: key has it.
At(i, tag, key) ==
    /\ tag \in Tags
    /\ i \in submitted <=> tag # "none"
    /\ InTodo(i) = Only(tag = "todo", key)
    /\ InHits(i) = Only(tag = "hit", key)
    /\ InMisses(i) = Only(tag = "miss", key)
    /\ InMetrics(i) = Only(tag = "metrics", key)
    /\ InEvents(i) = Only(tag = "events", key)
    /\ InGoMetrics(i) = Only(tag = "goMetrics", key)
    /\ InGoEvents(i) = Only(tag = "goEvents", key)
    /\ i \in dropped <=> tag = "dropped"
    /\ passedOn[i] # None <=> tag = "passed"

Homed(i) == \E tag, key : At(i, tag, key)

\* The address is on the stack or offered to IpSink.
OnTheWay(ip) == (\E k \in DOMAIN toLookupIPs : toLookupIPs[k] = ip) \/ toLookupIP = ip

\* Whatever waits for an address waits for an answer.
LookedUp(ip) ==
    awaitingMetrics[ip] # {} \/ awaitingEvents[ip] # {} => OnTheWay(ip) \/ owed[ip] > 0

HandlerInv ==
    /\ Types
    /\ \A i \in Items : Homed(i)
    /\ \A ip \in IPs : LookedUp(ip)
-----------------------------------------------------------------------------
(* The operators of the model                                              *)

\* PassOn gives an instance to the items of its pairs and to no other item.
LEMMA PassOnIs ==
  ASSUME NEW pairs \in SUBSET (Items \X Answers), PassOn(pairs),
         passedOn \in [Items -> Answers \cup {None}]
  PROVE  /\ passedOn' \in [Items -> Answers \cup {None}]
         /\ \A i \in Items : (\E p \in pairs : p[1] = i) => passedOn'[i] # None
         /\ \A i \in Items : (~ \E p \in pairs : p[1] = i) => passedOn'[i] = passedOn[i]
<1>1. ASSUME NEW i \in Items, \E p \in pairs : p[1] = i
      PROVE  passedOn'[i] \in Answers
  <2>1. PICK q : q = CHOOSE p \in pairs : p[1] = i
    OBVIOUS
  <2>2. q \in pairs /\ q[1] = i
    BY <1>1, <2>1, Zenon
  <2>3. q[2] \in Answers
    BY <2>2
  <2>4. passedOn'[i] = q[2]
    BY <1>1, <2>1 DEF PassOn
  <2> QED
    BY <2>3, <2>4
<1>2. ASSUME NEW i \in Items, ~ \E p \in pairs : p[1] = i
      PROVE  passedOn'[i] = passedOn[i]
  BY <1>2 DEF PassOn
<1>3. passedOn' \in [Items -> Answers \cup {None}]
  <2>1. \A i \in Items : passedOn'[i] \in Answers \cup {None}
    BY <1>1, <1>2
  <2>2. PICK f : f = passedOn'
    OBVIOUS
  <2>3. f = [i \in Items |-> f[i]]
    BY <2>2 DEF PassOn
  <2> QED
    BY <2>1, <2>2, <2>3
<1> QED
  BY <1>1, <1>2, <1>3, NoneAssumption

\* The refill at the end of every case of Run's select keeps the addresses:
\* what was offered or on the stack is offered or on the stack afterwards.
LEMMA RefillKeeps ==
  ASSUME NEW offered \in IPs \cup {None}, NEW stack \in Seq(IPs), Refill(offered, stack)
  PROVE  /\ toLookupIP' \in IPs \cup {None}
         /\ toLookupIPs' \in Seq(IPs)
         /\ \A ip \in IPs : ip = offered => OnTheWay(ip)'
         /\ \A ip \in IPs : (\E k \in 1..Len(stack) : stack[k] = ip) => OnTheWay(ip)'
<1>1. CASE offered = None /\ stack # <<>>
  <2>1. Len(stack) \in Nat /\ Len(stack) > 0
    BY <1>1, EmptySeq, LenProperties
  <2>2. toLookupIP' = stack[Len(stack)] /\ toLookupIPs' = SubSeq(stack, 1, Len(stack) - 1)
    BY <1>1 DEF Refill
  <2>3. toLookupIP' \in IPs
    BY <2>1, <2>2, ElementOfSeq
  <2>4. /\ toLookupIPs' \in Seq(IPs)
        /\ Len(toLookupIPs') = Len(stack) - 1
        /\ \A k \in 1..(Len(stack) - 1) : toLookupIPs'[k] = stack[k]
    <3>1. \A k \in 1..(Len(stack) - 1) : stack[k] \in IPs
      BY <2>1, ElementOfSeq
    <3>2. PICK n : n = Len(stack) - 1
      OBVIOUS
    <3>3. n \in Int /\ n >= 0
      BY <2>1, <3>2
    <3>4. /\ SubSeq(stack, 1, n) \in Seq(IPs)
          /\ Len(SubSeq(stack, 1, n)) = n
          /\ \A k \in 1..n : SubSeq(stack, 1, n)[k] = stack[k]
      BY <3>1, <3>2, <3>3, SubSeqProperties
    <3> QED
      BY <3>2, <3>4, <2>2
  <2>5. DOMAIN toLookupIPs' = 1..(Len(stack) - 1)
    BY <2>4, LenProperties
  <2>6. ASSUME NEW ip \in IPs, NEW k \in 1..Len(stack), stack[k] = ip
        PROVE  OnTheWay(ip)'
    <3>1. k = Len(stack) \/ k \in 1..(Len(stack) - 1)
      BY <2>1
    <3>2. CASE k = Len(stack)
      BY <3>2, <2>2, <2>6 DEF OnTheWay
    <3>3. CASE k \in 1..(Len(stack) - 1)
      BY <3>3, <2>4, <2>5, <2>6 DEF OnTheWay
    <3> QED
      BY <3>1, <3>2, <3>3
  <2>7. \A ip \in IPs : ip # offered
    BY <1>1, NoneAssumption
  <2> QED
    BY <2>3, <2>4, <2>6, <2>7
<1>2. CASE ~(offered = None /\ stack # <<>>)
  <2>1. toLookupIP' = offered /\ toLookupIPs' = stack
    BY <1>2 DEF Refill
  <2>2. DOMAIN stack = 1..Len(stack)
    BY LenProperties
  <2> QED
    BY <2>1, <2>2 DEF OnTheWay
<1> QED
  BY <1>1, <1>2

\* Any order of a finite set of addresses has all of them.
LEMMA OrderCovers ==
  ASSUME NEW S \in SUBSET IPs, NEW order \in Orders(S)
  PROVE  /\ order \in Seq(IPs)
         /\ \A ip \in S : \E k \in 1..Len(order) : order[k] = ip
<1> DEFINE n == Cardinality(S)
<1>1. IsFiniteSet(S) /\ n \in Nat
  BY IPsAssumption, FS_Subset, FS_CardinalityType
<1>2. order \in [1..n -> S] /\ \A i, j \in 1..n : order[i] = order[j] => i = j
  BY DEF Orders
<1>3. order \in Injection(1..n, S)
  BY <1>2 DEF Injection, IsInjective
<1>4. IsFiniteSet(1..n) /\ Cardinality(1..n) = n
  BY <1>1, FS_Interval
<1>5. order \in Surjection(1..n, S)
  BY <1>1, <1>3, <1>4, FS_Injection
<1> HIDE DEF n
<1>6. order \in Seq(IPs) /\ Len(order) = n
  BY <1>1, <1>2
<1> QED
  BY <1>5, <1>6 DEF Surjection

\* Everything on the stack or offered stays so in a refill that only adds.
LEMMA RefillStays ==
  ASSUME Types, NEW more \in Seq(IPs), Refill(toLookupIP, toLookupIPs \o more)
  PROVE  /\ toLookupIP' \in IPs \cup {None}
         /\ toLookupIPs' \in Seq(IPs)
         /\ \A ip \in IPs : OnTheWay(ip) => OnTheWay(ip)'
         /\ \A ip \in IPs : (\E k \in 1..Len(more) : more[k] = ip) => OnTheWay(ip)'
<1>1. toLookupIPs \in Seq(IPs) /\ toLookupIP \in IPs \cup {None}
  BY DEF Types
<1>s. PICK stack : stack = toLookupIPs \o more
  BY Zenon
<1>o. PICK offered : offered = toLookupIP
  OBVIOUS
<1>2. /\ stack \in Seq(IPs)
      /\ Len(stack) = Len(toLookupIPs) + Len(more)
      /\ \A k \in 1..Len(toLookupIPs) : stack[k] = toLookupIPs[k]
      /\ \A k \in 1..Len(more) : stack[Len(toLookupIPs) + k] = more[k]
  BY <1>1, <1>s, ConcatProperties
<1>3. Len(toLookupIPs) \in Nat /\ Len(more) \in Nat
  BY <1>1, LenProperties
<1>4. Refill(offered, stack)
  BY <1>s, <1>o
<1>5. /\ toLookupIP' \in IPs \cup {None}
      /\ toLookupIPs' \in Seq(IPs)
      /\ \A ip \in IPs : ip = toLookupIP => OnTheWay(ip)'
      /\ \A ip \in IPs : (\E k \in 1..Len(stack) : stack[k] = ip) => OnTheWay(ip)'
  <2>1. offered \in IPs \cup {None} /\ stack \in Seq(IPs)
    BY <1>1, <1>2, <1>o
  <2> QED
    BY <2>1, <1>4, <1>o, RefillKeeps
<1>6. ASSUME NEW ip \in IPs, OnTheWay(ip)
      PROVE  OnTheWay(ip)'
  <2>1. DOMAIN toLookupIPs = 1..Len(toLookupIPs)
    BY <1>1, LenProperties
  <2>2. CASE toLookupIP = ip
    BY <2>2, <1>5
  <2>3. CASE toLookupIP # ip
    <3>1. PICK k \in 1..Len(toLookupIPs) : toLookupIPs[k] = ip
      BY <1>6, <2>1, <2>3 DEF OnTheWay
    <3>2. k \in 1..Len(stack) /\ stack[k] = ip
      BY <3>1, <1>2, <1>3
    <3> QED
      BY <3>2, <1>5
  <2> QED
    BY <2>2, <2>3
<1>7. ASSUME NEW ip \in IPs, NEW k \in 1..Len(more), more[k] = ip
      PROVE  OnTheWay(ip)'
  <2>1. /\ Len(toLookupIPs) + k \in 1..Len(stack)
        /\ stack[Len(toLookupIPs) + k] = more[k]
    BY <1>2, <1>3
  <2> QED
    BY <2>1, <1>5, <1>7
<1> QED
  BY <1>5, <1>6, <1>7
-----------------------------------------------------------------------------
(* Every step keeps the types                                              *)

LEMMA InstanceType ==
  ASSUME Types, NEW i \in Items
  PROVE  /\ getInstance(Source[i]) = Miss => Source[i] \in IPs
         /\ getInstance(Source[i]) # Miss => getInstance(Source[i]) \in Answers
  BY SourceAssumption, MissAssumption DEF Types, getInstance, Answers

LEMMA DispatchTypes ==
  ASSUME Types, NEW d \in Dispatchers, NEW mm \in SUBSET Items,
         dpc' = [dpc EXCEPT ![d] = "peek"],
         todo' = [todo EXCEPT ![d] = mm],
         submitted' = submitted \cup mm,
         UNCHANGED <<instancesVars, hits, misses, lookupVars, queueVars, goVars, outVars>>
  PROVE  Types'
  BY DEF Types, instancesVars, lookupVars, queueVars, goVars, outVars

LEMMA PeekTypes ==
  ASSUME Types, NEW d \in Dispatchers, NEW i \in Items, Peek(d, i)
  PROVE  Types'
<1>1. dpc' \in [Dispatchers -> {"idle", "peek", "pass", "send"}]
  BY DEF Types, Peek
<1>2. todo' \in [Dispatchers -> SUBSET Items]
  BY DEF Types, Peek
<1>3. hits' \in [Dispatchers -> SUBSET (Items \X Answers)]
  <2>1. PICK a : a = getInstance(Source[i])
    OBVIOUS
  <2>2. CASE a = Miss
    BY <2>1, <2>2 DEF Types, Peek
  <2>3. CASE a # Miss
    <3>1. a \in Answers
      BY <2>1, <2>3, InstanceType
    <3>2. hits' = [hits EXCEPT ![d] = @ \cup {<<i, a>>}]
      BY <2>1, <2>3 DEF Peek
    <3>3. <<i, a>> \in Items \X Answers
      BY <3>1
    <3>4. hits[d] \cup {<<i, a>>} \in SUBSET (Items \X Answers)
      BY <3>3 DEF Types
    <3> QED
      BY <3>2, <3>4 DEF Types
  <2> QED
    BY <2>2, <2>3
<1>4. misses' \in [Dispatchers -> SUBSET {j \in Items : Source[j] \in IPs}]
  <2>1. PICK M : M = SUBSET {j \in Items : Source[j] \in IPs}
    BY Zenon
  <2>2. misses \in [Dispatchers -> M]
    BY <2>1, Zenon DEF Types
  <2>3. CASE getInstance(Source[i]) = Miss
    <3>1. Source[i] \in IPs
      BY <2>3, InstanceType, Zenon
    <3>2. misses' = [misses EXCEPT ![d] = @ \cup {i}]
      BY <2>3, Zenon DEF Peek
    <3>3. misses[d] \cup {i} \in M
      <4>1. misses[d] \in M
        BY <2>2, Zenon
      <4> QED
        BY <2>1, <3>1, <4>1, Zenon
    <3> QED
      BY <2>1, <2>2, <3>2, <3>3, Zenon
  <2>4. CASE getInstance(Source[i]) # Miss
    <3>1. misses' = misses
      BY <2>4, Zenon DEF Peek
    <3> QED
      BY <2>1, <2>2, <3>1, Zenon
  <2> QED
    BY <2>3, <2>4, Zenon
<1>5. \A c \in Dispatchers : dpc'[c] # "peek" => todo'[c] = {}
  BY DEF Types, Peek
<1> QED
  BY <1>1, <1>2, <1>3, <1>4, <1>5
     DEF Types, Peek, instancesVars, lookupVars, queueVars, goVars, outVars

LEMMA PassTypes ==
  ASSUME Types, NEW d \in Dispatchers, Pass(d)
  PROVE  Types'
<1>1. passedOn' \in [Items -> Answers \cup {None}]
  BY PassOnIs, Zenon DEF Types, Pass
<1>2. dpc' \in [Dispatchers -> {"idle", "peek", "pass", "send"}]
  BY DEF Types, Pass
<1>3. hits' \in [Dispatchers -> SUBSET (Items \X Answers)]
  BY DEF Types, Pass
<1>4. \A c \in Dispatchers : dpc'[c] # "peek" => todo'[c] = {}
  BY DEF Types, Pass
<1> QED
  BY <1>1, <1>2, <1>3, <1>4 DEF Types, Pass, instancesVars, lookupVars, queueVars, goVars

LEMMA SendCancelledTypes ==
  ASSUME Types, NEW d \in Dispatchers, SendCancelled(d)
  PROVE  Types'
  BY DEF Types, SendCancelled, instancesVars, lookupVars, queueVars, goVars

LEMMA RunLookupTypes ==
  ASSUME Types, RunLookup
  PROVE  /\ Types'
         /\ \A ip \in IPs : OnTheWay(ip) => OnTheWay(ip)' \/ owed'[ip] > 0
         /\ \A ip \in IPs : owed'[ip] >= owed[ip]
<1>1. /\ toLookupIP \in IPs
      /\ owed' = [owed EXCEPT ![toLookupIP] = @ + 1]
      /\ toLookupIPs \in Seq(IPs)
  BY DEF Types, RunLookup, Request
<1>2. PICK stack : stack = toLookupIPs
  OBVIOUS
<1>3. stack \in Seq(IPs) /\ Refill(None, stack)
  BY <1>1, <1>2 DEF RunLookup
<1>4. /\ toLookupIP' \in IPs \cup {None}
      /\ toLookupIPs' \in Seq(IPs)
      /\ \A ip \in IPs : (\E k \in 1..Len(stack) : stack[k] = ip) => OnTheWay(ip)'
  BY <1>3, RefillKeeps, Zenon
<1>5. DOMAIN stack = 1..Len(stack)
  BY <1>3, LenProperties
<1>6. owed' \in [IPs -> Nat] /\ \A ip \in IPs : owed'[ip] >= owed[ip]
  BY <1>1 DEF Types
<1>7. owed'[toLookupIP] > 0
  BY <1>1 DEF Types
<1>8. \A ip \in IPs : OnTheWay(ip) => OnTheWay(ip)' \/ owed'[ip] > 0
  BY <1>2, <1>4, <1>5, <1>7 DEF OnTheWay
<1>9. Types'
  BY <1>4, <1>6 DEF Types, RunLookup, Request, dispatchVars, queueVars, goVars, outVars
<1> QED
  BY <1>6, <1>8, <1>9

\* A refill with nothing new on the stack.
LEMMA RefillPlain ==
  ASSUME Types, Refill(toLookupIP, toLookupIPs)
  PROVE  /\ toLookupIP' \in IPs \cup {None}
         /\ toLookupIPs' \in Seq(IPs)
         /\ \A ip \in IPs : OnTheWay(ip) => OnTheWay(ip)'
<1>1. toLookupIPs \o << >> = toLookupIPs
  BY ConcatEmptySeq DEF Types
<1>2. << >> \in Seq(IPs)
  BY EmptySeq
<1> QED
  BY <1>1, <1>2, RefillStays, Zenon

\* An answer: nothing waits for its address any more.
LEMMA RunInfoTypes ==
  ASSUME Types, NEW ip \in IPs, NEW instance \in Answers, RunInfo(ip, instance)
  PROVE  /\ Types'
         /\ awaitingMetrics'[ip] = {} /\ awaitingEvents'[ip] = {}
         /\ \A other \in IPs \ {ip} : /\ awaitingMetrics'[other] = awaitingMetrics[other]
                                      /\ awaitingEvents'[other] = awaitingEvents[other]
                                      /\ owed'[other] = owed[other]
         /\ \A other \in IPs : OnTheWay(other) => OnTheWay(other)'
<1>1. /\ toLookupIP' \in IPs \cup {None}
      /\ toLookupIPs' \in Seq(IPs)
      /\ \A other \in IPs : OnTheWay(other) => OnTheWay(other)'
  BY RefillPlain DEF RunInfo
<1>2. /\ owed' \in [IPs -> Nat]
      /\ \A other \in IPs \ {ip} : owed'[other] = owed[other]
  BY DEF Types, RunInfo, Answer
<1>3. /\ awaitingMetrics' \in [IPs -> SUBSET Metrics]
      /\ awaitingMetrics'[ip] = {}
      /\ \A other \in IPs \ {ip} : awaitingMetrics'[other] = awaitingMetrics[other]
      /\ goMetrics' \subseteq GoMetrics
  <2>1. CASE awaitingMetrics[ip] = {}
    BY <2>1 DEF Types, RunInfo
  <2>2. CASE awaitingMetrics[ip] # {}
    <3>1. [items |-> awaitingMetrics[ip], instance |-> instance] \in GoMetrics
      BY DEF Types, GoMetrics
    <3>2. /\ awaitingMetrics' = [awaitingMetrics EXCEPT ![ip] = {}]
          /\ goMetrics' = goMetrics \cup
                 {[items |-> awaitingMetrics[ip], instance |-> instance]}
      BY <2>2 DEF RunInfo
    <3> QED
      BY <3>1, <3>2 DEF Types
  <2> QED
    BY <2>1, <2>2
<1>4. /\ awaitingEvents' \in [IPs -> SUBSET Events]
      /\ awaitingEvents'[ip] = {}
      /\ \A other \in IPs \ {ip} : awaitingEvents'[other] = awaitingEvents[other]
      /\ goEvents' \subseteq GoEvents
  <2>1. CASE awaitingEvents[ip] = {}
    BY <2>1 DEF Types, RunInfo
  <2>2. CASE awaitingEvents[ip] # {}
    <3>1. [items |-> awaitingEvents[ip], instance |-> instance, dispatched |-> {}]
          \in GoEvents
      BY DEF Types, GoEvents
    <3>2. /\ awaitingEvents' = [awaitingEvents EXCEPT ![ip] = {}]
          /\ goEvents' = goEvents \cup
                 {[items |-> awaitingEvents[ip], instance |-> instance, dispatched |-> {}]}
      BY <2>2 DEF RunInfo
    <3> QED
      BY <3>1, <3>2, Zenon DEF Types
  <2> QED
    BY <2>1, <2>2
<1>5. Types'
  BY <1>1, <1>2, <1>3, <1>4, Zenon DEF Types, RunInfo, Answer, dispatchVars, outVars
<1> QED
  BY <1>1, <1>2, <1>3, <1>4, <1>5

\* A map of series to look up: an address that nothing waits for goes on the
\* stack.
LEMMA RunMetricsTypes ==
  ASSUME Types, NEW d \in Dispatchers, RunMetrics(d)
  PROVE  /\ Types'
         /\ \A ip \in IPs : OnTheWay(ip) => OnTheWay(ip)'
         /\ \A ip \in IPs :
               /\ awaitingMetrics[ip] = {} /\ awaitingEvents[ip] = {}
               /\ awaitingMetrics'[ip] # {}
               => OnTheWay(ip)'
<1>1. PICK order \in Orders(NewHosts(misses[d])) : Refill(toLookupIP, toLookupIPs \o order)
  BY Zenon DEF RunMetrics
<1>2. PICK S : S = NewHosts(misses[d])
  OBVIOUS
<1>3. S \subseteq IPs
  BY <1>2 DEF NewHosts, Types
<1>4. order \in Seq(IPs) /\ \A ip \in S : \E k \in 1..Len(order) : order[k] = ip
  BY <1>1, <1>2, <1>3, OrderCovers
<1>5. /\ toLookupIP' \in IPs \cup {None}
      /\ toLookupIPs' \in Seq(IPs)
      /\ \A ip \in IPs : OnTheWay(ip) => OnTheWay(ip)'
      /\ \A ip \in IPs : (\E k \in 1..Len(order) : order[k] = ip) => OnTheWay(ip)'
  BY <1>1, <1>4, RefillStays
<1>6. awaitingMetrics' = [ip \in IPs |->
          awaitingMetrics[ip] \cup {m \in misses[d] : Source[m] = ip}]
  BY DEF RunMetrics
<1>7. ASSUME NEW ip \in IPs, awaitingMetrics[ip] = {}, awaitingEvents[ip] = {},
             awaitingMetrics'[ip] # {}
      PROVE  OnTheWay(ip)'
  <2>1. PICK m \in misses[d] : Source[m] = ip
    BY <1>6, <1>7
  <2>2. ip \in S
    BY <1>2, <1>7, <2>1 DEF NewHosts
  <2> QED
    BY <2>2, <1>4, <1>5
<1>8. awaitingMetrics' \in [IPs -> SUBSET Metrics]
  BY <1>6 DEF Types, RunMetrics
<1>9. /\ misses' \in [Dispatchers -> SUBSET {i \in Items : Source[i] \in IPs}]
      /\ dpc' \in [Dispatchers -> {"idle", "peek", "pass", "send"}]
      /\ \A c \in Dispatchers : dpc'[c] # "peek" => todo'[c] = {}
  BY DEF Types, RunMetrics
<1>10. Types'
  BY <1>5, <1>8, <1>9 DEF Types, RunMetrics, instancesVars, goVars, outVars
<1> QED
  BY <1>5, <1>7, <1>10, Zenon

\* The same for an event.
LEMMA RunEventTypes ==
  ASSUME Types, NEW d \in Dispatchers, NEW e \in Events, RunEvent(d, e)
  PROVE  /\ Types'
         /\ Source[e] \in IPs
         /\ \A ip \in IPs : OnTheWay(ip) => OnTheWay(ip)'
         /\ \A ip \in IPs \ {Source[e]} : awaitingEvents'[ip] = awaitingEvents[ip]
         /\ awaitingMetrics[Source[e]] = {} /\ awaitingEvents[Source[e]] = {}
            => OnTheWay(Source[e])'
<1>1. PICK host : host = Source[e]
  OBVIOUS
<1>2. host \in IPs
  BY <1>1 DEF Types, RunEvent
<1>3. awaitingEvents' = [awaitingEvents EXCEPT ![host] = @ \cup {e}]
  BY <1>1 DEF RunEvent
<1>4. /\ toLookupIP' \in IPs \cup {None}
      /\ toLookupIPs' \in Seq(IPs)
      /\ \A ip \in IPs : OnTheWay(ip) => OnTheWay(ip)'
      /\ awaitingMetrics[host] = {} /\ awaitingEvents[host] = {} => OnTheWay(host)'
  <2>1. CASE awaitingEvents[host] = {} /\ awaitingMetrics[host] = {}
    <3>1. PICK more : more = <<host>>
      BY Zenon
    <3>2. more \in Seq(IPs) /\ Len(more) = 1 /\ more[1] = host
      BY <1>2, <3>1
    <3>3. Append(toLookupIPs, host) = toLookupIPs \o more
      BY <1>2, <3>1, AppendIsConcat DEF Types
    <3>4. Refill(toLookupIP, toLookupIPs \o more)
      BY <2>1, <1>1, <3>3 DEF RunEvent
    <3> QED
      BY <1>2, <3>2, <3>4, RefillStays
  <2>2. CASE ~(awaitingEvents[host] = {} /\ awaitingMetrics[host] = {})
    <3>1. Refill(toLookupIP, toLookupIPs)
      BY <2>2, <1>1 DEF RunEvent
    <3> QED
      BY <2>2, <3>1, RefillPlain
  <2> QED
    BY <2>1, <2>2
<1>5. awaitingEvents' \in [IPs -> SUBSET Events]
  BY <1>2, <1>3 DEF Types
<1>6. /\ misses' \in [Dispatchers -> SUBSET {i \in Items : Source[i] \in IPs}]
      /\ dpc' \in [Dispatchers -> {"idle", "peek", "pass", "send"}]
      /\ \A c \in Dispatchers : dpc'[c] # "peek" => todo'[c] = {}
  BY DEF Types, RunEvent
<1>7. Types'
  BY <1>4, <1>5, <1>6, Zenon DEF Types, RunEvent, instancesVars, goVars, outVars
<1>8. \A ip \in IPs \ {host} : awaitingEvents'[ip] = awaitingEvents[ip]
  BY <1>3 DEF Types
<1> QED
  BY <1>1, <1>2, <1>4, <1>7, <1>8

LEMMA MetricsDispatchedTypes ==
  ASSUME Types, NEW g \in goMetrics, updateAndDispatchMetrics(g)
  PROVE  /\ Types'
         /\ \A i \in g.items : passedOn'[i] # None
         /\ \A i \in Items \ g.items : passedOn'[i] = passedOn[i]
<1>1. PICK pairs : pairs = {<<m, g.instance>> : m \in g.items}
  BY Zenon
<1>2. g.items \subseteq Metrics /\ g.instance \in Answers
  BY DEF Types, GoMetrics
<1>3. pairs \in SUBSET (Items \X Answers)
  BY <1>1, <1>2 DEF Items
<1>4. PassOn(pairs)
  BY <1>1 DEF updateAndDispatchMetrics
<1>5. \A i \in Items : (\E p \in pairs : p[1] = i) <=> i \in g.items
  <2>1. ASSUME NEW i \in Items, i \in g.items
        PROVE  \E p \in pairs : p[1] = i
    <3>1. <<i, g.instance>> \in pairs
      BY <1>1, <2>1
    <3>2. <<i, g.instance>>[1] = i
      OBVIOUS
    <3> QED
      BY <3>1, <3>2
  <2>2. ASSUME NEW i \in Items, NEW p \in pairs, p[1] = i
        PROVE  i \in g.items
    <3>1. PICK m \in g.items : p = <<m, g.instance>>
      BY <1>1
    <3> QED
      BY <2>2, <3>1
  <2> QED
    BY <2>1, <2>2
<1>6. /\ passedOn' \in [Items -> Answers \cup {None}]
      /\ \A i \in g.items : passedOn'[i] # None
      /\ \A i \in Items \ g.items : passedOn'[i] = passedOn[i]
  BY <1>2, <1>3, <1>4, <1>5, PassOnIs, Zenon DEF Types, Items
<1>7. Types'
  BY <1>6, Zenon DEF Types, updateAndDispatchMetrics, instancesVars, dispatchVars, lookupVars, queueVars
<1> QED
  BY <1>6, <1>7

LEMMA EventDispatchedTypes ==
  ASSUME Types, NEW g \in goEvents, NEW e \in Events, updateAndDispatchEvent(g, e)
  PROVE  /\ Types'
         /\ passedOn'[e] # None
         /\ \A i \in Items \ {e} : passedOn'[i] = passedOn[i]
<1>1. PICK pairs : pairs = {<<e, g.instance>>}
  BY Zenon
<1>2. g \in GoEvents /\ g.instance \in Answers
  BY DEF Types, GoEvents
<1>3. pairs \in SUBSET (Items \X Answers)
  BY <1>1, <1>2 DEF Items
<1>4. PassOn(pairs)
  BY <1>1 DEF updateAndDispatchEvent
<1>5. \A i \in Items : (\E p \in pairs : p[1] = i) <=> i = e
  BY <1>1
<1>6. /\ passedOn' \in [Items -> Answers \cup {None}]
      /\ passedOn'[e] # None
      /\ \A i \in Items \ {e} : passedOn'[i] = passedOn[i]
  <2>1. e \in Items /\ passedOn \in [Items -> Answers \cup {None}]
    BY DEF Types, Items
  <2>2. /\ passedOn' \in [Items -> Answers \cup {None}]
        /\ \A i \in Items : (\E p \in pairs : p[1] = i) => passedOn'[i] # None
        /\ \A i \in Items : (~ \E p \in pairs : p[1] = i) => passedOn'[i] = passedOn[i]
    BY <1>3, <1>4, <2>1, PassOnIs
  <2> QED
    BY <1>5, <2>1, <2>2
<1>7. [g EXCEPT !.items = @ \ {e}, !.dispatched = @ \cup {e}] \in GoEvents
  BY <1>2, Zenon DEF GoEvents
<1>8. goEvents' \subseteq GoEvents
  BY <1>7 DEF Types, updateAndDispatchEvent
<1>9. Types'
  BY <1>6, <1>8 DEF Types, updateAndDispatchEvent, instancesVars, dispatchVars, lookupVars, queueVars
<1> QED
  BY <1>6, <1>9

LEMMA EventsReturnTypes ==
  ASSUME Types, NEW g \in goEvents, updateAndDispatchEventsReturn(g)
  PROVE  Types'
  BY DEF Types, updateAndDispatchEventsReturn, instancesVars, dispatchVars, lookupVars,
         queueVars, outVars

LEMMA ProviderTypes ==
  ASSUME Types, Provider
  PROVE  /\ Types'
         /\ \A ip \in IPs : owed'[ip] >= owed[ip]
<1>1. /\ cached' \in [IPs -> Answers \cup {Miss}]
      /\ owed' \in [IPs -> Nat]
      /\ \A ip \in IPs : owed'[ip] >= owed[ip]
  <2>1. CASE \E ip \in IPs, instance \in Answers : Learn(ip, instance)
    BY <2>1 DEF Types, Learn
  <2>2. CASE \E idle, stale \in SUBSET IPs : Tick(idle, stale)
    BY <2>2 DEF Types, Tick
  <2> QED
    BY <2>1, <2>2 DEF Provider
<1>2. Types'
  BY <1>1 DEF Types, Provider, dispatchVars, lookupVars, queueVars, goVars, outVars
<1> QED
  BY <1>1, <1>2

-----------------------------------------------------------------------------
(* Whatever waits for an address waits for an answer                       *)

\* A step that leaves the queues alone and takes no answer away.
LEMMA StillLookedUp ==
  ASSUME NEW ip \in IPs, LookedUp(ip), UNCHANGED queueVars,
         owed[ip] \in Nat, owed'[ip] \in Nat, owed'[ip] >= owed[ip],
         OnTheWay(ip) => OnTheWay(ip)' \/ owed'[ip] > 0
  PROVE  LookedUp(ip)'
<1>1. owed[ip] > 0 => owed'[ip] > 0
  OBVIOUS
<1>2. awaitingMetrics' = awaitingMetrics /\ awaitingEvents' = awaitingEvents
  BY DEF queueVars
<1> QED
  BY <1>1, <1>2, Zenon DEF LookedUp

LEMMA LookedUpStep ==
  ASSUME Types, Types', \A ip \in IPs : LookedUp(ip), [Next]_vars
  PROVE  \A ip \in IPs : LookedUp(ip)'
<1> SUFFICES ASSUME NEW ip \in IPs
             PROVE  LookedUp(ip)'
  OBVIOUS
<1>n. owed[ip] \in Nat /\ owed'[ip] \in Nat
  BY DEF Types
<1>q. ASSUME UNCHANGED <<instancesVars, lookupVars, queueVars>>
      PROVE  LookedUp(ip)'
  BY <1>q DEF LookedUp, OnTheWay, instancesVars, lookupVars, queueVars
<1>1. ASSUME NEW d \in Dispatchers, NEW mm \in SUBSET Metrics, DispatchMetricMap(d, mm)
      PROVE  LookedUp(ip)'
  BY <1>1, <1>q DEF DispatchMetricMap
<1>2. ASSUME NEW d \in Dispatchers, NEW e \in Events, DispatchEvent(d, e)
      PROVE  LookedUp(ip)'
  BY <1>2, <1>q DEF DispatchEvent
<1>3. ASSUME NEW d \in Dispatchers, NEW i \in Items, Peek(d, i)
      PROVE  LookedUp(ip)'
  BY <1>3, <1>q DEF Peek
<1>4. ASSUME NEW d \in Dispatchers, Pass(d) \/ SendCancelled(d)
      PROVE  LookedUp(ip)'
  BY <1>4, <1>q DEF Pass, SendCancelled
<1>5. CASE RunLookup
  <2>1. /\ OnTheWay(ip) => OnTheWay(ip)' \/ owed'[ip] > 0
        /\ owed'[ip] >= owed[ip]
    BY <1>5, RunLookupTypes
  <2>2. UNCHANGED queueVars
    BY <1>5 DEF RunLookup
  <2> QED
    BY <1>n, <2>1, <2>2, StillLookedUp
<1>6. ASSUME NEW host \in IPs, NEW instance \in Answers, RunInfo(host, instance)
      PROVE  LookedUp(ip)'
  <2>1. CASE ip = host
    <3>1. awaitingMetrics'[ip] = {} /\ awaitingEvents'[ip] = {}
      BY <1>6, <2>1, RunInfoTypes
    <3> QED
      BY <3>1 DEF LookedUp
  <2>2. CASE ip # host
    <3>1. /\ awaitingMetrics'[ip] = awaitingMetrics[ip]
          /\ awaitingEvents'[ip] = awaitingEvents[ip]
          /\ owed'[ip] = owed[ip]
          /\ OnTheWay(ip) => OnTheWay(ip)'
      BY <1>6, <2>2, RunInfoTypes
    <3> QED
      BY <3>1 DEF LookedUp
  <2> QED
    BY <2>1, <2>2
<1>7. ASSUME NEW d \in Dispatchers, RunMetrics(d)
      PROVE  LookedUp(ip)'
  <2>1. /\ OnTheWay(ip) => OnTheWay(ip)'
        /\ /\ awaitingMetrics[ip] = {} /\ awaitingEvents[ip] = {}
           /\ awaitingMetrics'[ip] # {}
           => OnTheWay(ip)'
    BY <1>7, RunMetricsTypes
  <2>2. awaitingEvents' = awaitingEvents /\ owed' = owed
    BY <1>7 DEF RunMetrics, instancesVars
  <2> QED
    BY <2>1, <2>2 DEF LookedUp
<1>8. ASSUME NEW d \in Dispatchers, NEW e \in Events, RunEvent(d, e)
      PROVE  LookedUp(ip)'
  <2>1. /\ OnTheWay(ip) => OnTheWay(ip)'
        /\ ip # Source[e] => awaitingEvents'[ip] = awaitingEvents[ip]
        /\ ip = Source[e] /\ awaitingMetrics[ip] = {} /\ awaitingEvents[ip] = {}
           => OnTheWay(ip)'
    BY <1>8, RunEventTypes
  <2>2. awaitingMetrics' = awaitingMetrics /\ owed' = owed
    BY <1>8 DEF RunEvent, instancesVars
  <2> QED
    BY <2>1, <2>2 DEF LookedUp
<1>9. CASE RunReturn
  BY <1>9, <1>q DEF RunReturn
<1>10. CASE Goroutines
  BY <1>10, <1>q, Zenon DEF Goroutines, updateAndDispatchMetrics, updateAndDispatchEvent,
                     updateAndDispatchEventsReturn
<1>11. CASE Provider
  <2>1. owed'[ip] >= owed[ip]
    BY <1>11, ProviderTypes
  <2>2. UNCHANGED queueVars /\ UNCHANGED lookupVars
    BY <1>11 DEF Provider
  <2>3. OnTheWay(ip) => OnTheWay(ip)'
    BY <2>2 DEF OnTheWay, lookupVars
  <2> QED
    BY <1>n, <2>1, <2>2, <2>3, StillLookedUp
<1>12. CASE UNCHANGED vars
  BY <1>12, <1>q DEF vars
<1> QED
  BY <1>1, <1>2, <1>3, <1>4, <1>5, <1>6, <1>7, <1>8, <1>9, <1>10, <1>11, <1>12
     DEF Next, Dispatcher, RunReceive

-----------------------------------------------------------------------------
(* Every item stays in one place                                           *)

\* A step that an item has no part in.
Unmoved(i) ==
    /\ i \in submitted' <=> i \in submitted
    /\ InTodo(i)' = InTodo(i)
    /\ InHits(i)' = InHits(i)
    /\ InMisses(i)' = InMisses(i)
    /\ InMetrics(i)' = InMetrics(i)
    /\ InEvents(i)' = InEvents(i)
    /\ InGoMetrics(i)' = InGoMetrics(i)
    /\ InGoEvents(i)' = InGoEvents(i)
    /\ i \in dropped' <=> i \in dropped
    /\ passedOn'[i] = passedOn[i]

LEMMA UnmovedHome ==
  ASSUME NEW i, Homed(i), Unmoved(i)
  PROVE  Homed(i)'
<1>1. PICK tag, key : At(i, tag, key)
  BY DEF Homed
<1>2. At(i, tag, key)'
  BY <1>1 DEF At, Unmoved
<1> QED
  BY <1>2 DEF Homed

\* What a place tells about an item: it is there and nowhere else.
LEMMA InPlace ==
  ASSUME NEW i, Homed(i)
  PROVE  /\ i \notin submitted => At(i, "none", None)
         /\ \A d \in InTodo(i) : At(i, "todo", d)
         /\ \A d \in InHits(i) : At(i, "hit", d)
         /\ \A d \in InMisses(i) : At(i, "miss", d)
         /\ \A ip \in InMetrics(i) : At(i, "metrics", ip)
         /\ \A ip \in InEvents(i) : At(i, "events", ip)
         /\ \A g \in InGoMetrics(i) : At(i, "goMetrics", g)
         /\ \A g \in InGoEvents(i) : At(i, "goEvents", g)
<1>1. PICK tag, key : At(i, tag, key)
  BY DEF Homed
<1>2. i \notin submitted => At(i, "none", None)
  BY <1>1 DEF At, Only, Tags
<1>3. \A d \in InTodo(i) : At(i, "todo", d)
  BY <1>1 DEF At, Only
<1>4. \A d \in InHits(i) : At(i, "hit", d)
  BY <1>1 DEF At, Only
<1>5. \A d \in InMisses(i) : At(i, "miss", d)
  BY <1>1 DEF At, Only
<1>6. \A ip \in InMetrics(i) : At(i, "metrics", ip)
  BY <1>1 DEF At, Only
<1>7. \A ip \in InEvents(i) : At(i, "events", ip)
  BY <1>1 DEF At, Only
<1>8. \A g \in InGoMetrics(i) : At(i, "goMetrics", g)
  BY <1>1 DEF At, Only
<1>9. \A g \in InGoEvents(i) : At(i, "goEvents", g)
  BY <1>1 DEF At, Only
<1> QED
  BY <1>2, <1>3, <1>4, <1>5, <1>6, <1>7, <1>8, <1>9

\* DispatchMetricMap and DispatchEvent: new items, for a dispatcher with none.
LEMMA DispatchHome ==
  ASSUME Types, NEW d \in Dispatchers, NEW mm \in SUBSET Items,
         dpc[d] = "idle", mm \cap submitted = {},
         todo' = [todo EXCEPT ![d] = mm],
         submitted' = submitted \cup mm,
         UNCHANGED <<hits, misses, queueVars, goVars, outVars>>,
         NEW i \in Items, Homed(i)
  PROVE  Homed(i)'
<1>1. /\ InHits(i)' = InHits(i) /\ InMisses(i)' = InMisses(i)
      /\ InMetrics(i)' = InMetrics(i) /\ InEvents(i)' = InEvents(i)
      /\ InGoMetrics(i)' = InGoMetrics(i) /\ InGoEvents(i)' = InGoEvents(i)
      /\ dropped' = dropped /\ passedOn' = passedOn
  BY DEF InHits, InMisses, InMetrics, InEvents, InGoMetrics, InGoEvents, queueVars, goVars,
         outVars
<1>2. todo[d] = {}
  BY Zenon DEF Types
<1>3. CASE i \in mm
  <2>1. At(i, "none", None)
    BY <1>3, InPlace
  <2>2. InTodo(i) = {}
    BY <2>1 DEF At, Only
  <2>3. InTodo(i)' = {d}
    BY <1>3, <2>2 DEF InTodo, Types
  <2>4. i \in submitted'
    BY <1>3
  <2>5. At(i, "todo", d)'
    BY <1>1, <2>1, <2>3, <2>4 DEF At, Only, Tags
  <2> QED
    BY <2>5 DEF Homed
<1>4. CASE i \notin mm
  <2>1. InTodo(i)' = InTodo(i)
    BY <1>2, <1>4 DEF InTodo, Types
  <2>2. Unmoved(i)
    BY <1>1, <1>4, <2>1, Zenon DEF Unmoved
  <2> QED
    BY <2>2, UnmovedHome
<1> QED
  BY <1>3, <1>4

LEMMA PeekHome ==
  ASSUME Types, NEW d \in Dispatchers, NEW j \in Items, Peek(d, j), NEW i \in Items, Homed(i)
  PROVE  Homed(i)'
<1>1. /\ InMetrics(i)' = InMetrics(i) /\ InEvents(i)' = InEvents(i)
      /\ InGoMetrics(i)' = InGoMetrics(i) /\ InGoEvents(i)' = InGoEvents(i)
      /\ dropped' = dropped /\ passedOn' = passedOn /\ submitted' = submitted
  BY Zenon DEF Peek, InMetrics, InEvents, InGoMetrics, InGoEvents, queueVars, goVars, outVars
<1>2. todo' = [todo EXCEPT ![d] = @ \ {j}] /\ j \in todo[d]
  BY DEF Peek
<1>3. PICK a : a = getInstance(Source[j])
  OBVIOUS
<1>4. /\ a = Miss => misses' = [misses EXCEPT ![d] = @ \cup {j}] /\ hits' = hits
      /\ a # Miss => hits' = [hits EXCEPT ![d] = @ \cup {<<j, a>>}] /\ misses' = misses
      /\ a # Miss => a \in Answers
  BY <1>3, InstanceType DEF Peek
<1>5. CASE i = j
  <2>1. At(i, "todo", d)
    BY <1>2, <1>5, InPlace DEF InTodo
  <2>2. InTodo(i)' = {}
    <3>1. \A c \in Dispatchers \ {d} : i \notin todo[c]
      BY <2>1 DEF At, Only, InTodo
    <3> QED
      BY <3>1, <1>2, <1>5 DEF InTodo, Types
  <2>3. CASE a = Miss
    <3>1. InHits(i)' = InHits(i)
      BY <1>4, <2>3 DEF InHits
    <3>2. InMisses(i)' = {d}
      <4>1. \A c \in Dispatchers : i \notin misses[c]
        BY <2>1 DEF At, Only, InMisses
      <4> QED
        <5>1. misses' = [misses EXCEPT ![d] = @ \cup {i}]
          BY <1>4, <1>5, <2>3
        <5>2. \A c \in Dispatchers :
                  misses'[c] = IF c = d THEN misses[c] \cup {i} ELSE misses[c]
          BY <5>1 DEF Types
        <5> QED
          BY <4>1, <5>2, Zenon DEF InMisses
    <3>3. At(i, "miss", d)'
      BY <1>1, <2>1, <2>2, <3>1, <3>2 DEF At, Only, Tags
    <3> QED
      BY <3>3 DEF Homed
  <2>4. CASE a # Miss
    <3>1. InMisses(i)' = InMisses(i)
      BY <1>4, <2>4 DEF InMisses
    <3>2. InHits(i)' = {d}
      <4>1. \A c \in Dispatchers : \A b \in Answers : <<i, b>> \notin hits[c]
        BY <2>1 DEF At, Only, InHits
      <4>2. hits' = [hits EXCEPT ![d] = @ \cup {<<i, a>>}] /\ a \in Answers
        BY <1>4, <1>5, <2>4
      <4>3. <<i, a>> \in hits'[d]
        BY <4>2 DEF Types
      <4>4. \A c \in Dispatchers \ {d} : hits'[c] = hits[c]
        BY <4>2 DEF Types
      <4> QED
        BY <4>1, <4>2, <4>3, <4>4, Zenon DEF InHits
    <3>3. At(i, "hit", d)'
      BY <1>1, <2>1, <2>2, <3>1, <3>2 DEF At, Only, Tags
    <3> QED
      BY <3>3 DEF Homed
  <2> QED
    BY <2>3, <2>4
<1>6. CASE i # j
  <2>1. InTodo(i)' = InTodo(i)
    BY <1>2, <1>6 DEF InTodo, Types
  <2>2. InMisses(i)' = InMisses(i)
    <3>1. CASE a = Miss
      <4>1. misses' = [misses EXCEPT ![d] = @ \cup {j}]
        BY <1>4, <3>1
      <4>2. \A c \in Dispatchers :
                misses'[c] = IF c = d THEN misses[c] \cup {j} ELSE misses[c]
        BY <4>1, Zenon DEF Types
      <4> QED
        BY <1>6, <4>2, Zenon DEF InMisses
    <3>2. CASE a # Miss
      BY <1>4, <3>2 DEF InMisses
    <3> QED
      BY <3>1, <3>2
  <2>3. InHits(i)' = InHits(i)
    <3>1. CASE a = Miss
      BY <1>4, <3>1 DEF InHits
    <3>2. CASE a # Miss
      <4>1. \A c \in Dispatchers, b \in Answers : <<i, b>> \in hits'[c] <=> <<i, b>> \in hits[c]
        <5>1. hits' = [hits EXCEPT ![d] = @ \cup {<<j, a>>}]
          BY <1>4, <3>2
        <5>2. \A b \in Answers : <<i, b>> # <<j, a>>
          BY <1>6
        <5>3. ASSUME NEW c \in Dispatchers, NEW b \in Answers
              PROVE  <<i, b>> \in hits'[c] <=> <<i, b>> \in hits[c]
          <6>1. hits'[c] = IF c = d THEN hits[c] \cup {<<j, a>>} ELSE hits[c]
            BY <5>1, Zenon DEF Types
          <6> QED
            BY <5>2, <6>1, Zenon
        <5> QED
          BY <5>3
      <4> QED
        BY <4>1, Zenon DEF InHits
    <3> QED
      BY <3>1, <3>2
  <2>4. Unmoved(i)
    BY <1>1, <2>1, <2>2, <2>3 DEF Unmoved
  <2> QED
    BY <2>4, UnmovedHome
<1> QED
  BY <1>5, <1>6

LEMMA PassHome ==
  ASSUME Types, NEW d \in Dispatchers, Pass(d), NEW i \in Items, Homed(i)
  PROVE  Homed(i)'
<1>1. /\ InTodo(i)' = InTodo(i) /\ InMisses(i)' = InMisses(i)
      /\ InMetrics(i)' = InMetrics(i) /\ InEvents(i)' = InEvents(i)
      /\ InGoMetrics(i)' = InGoMetrics(i) /\ InGoEvents(i)' = InGoEvents(i)
      /\ dropped' = dropped /\ submitted' = submitted
  BY DEF Pass, InTodo, InMisses, InMetrics, InEvents, InGoMetrics, InGoEvents, queueVars,
         goVars
<1>2. hits' = [hits EXCEPT ![d] = {}] /\ PassOn(hits[d])
  BY DEF Pass
<1>3. hits[d] \in SUBSET (Items \X Answers)
  BY DEF Types
<1>4. /\ (\E p \in hits[d] : p[1] = i) => passedOn'[i] # None
      /\ (~ \E p \in hits[d] : p[1] = i) => passedOn'[i] = passedOn[i]
  BY <1>2, <1>3, PassOnIs, Zenon DEF Types
<1>5. (\E p \in hits[d] : p[1] = i) <=> \E a \in Answers : <<i, a>> \in hits[d]
  <2>1. ASSUME NEW p \in hits[d], p[1] = i
        PROVE  \E a \in Answers : <<i, a>> \in hits[d]
    <3>1. p[2] \in Answers /\ p = <<i, p[2]>>
      BY <1>3, <2>1
    <3> QED
      BY <2>1, <3>1
  <2>2. ASSUME NEW a \in Answers, <<i, a>> \in hits[d]
        PROVE  \E p \in hits[d] : p[1] = i
    <3>1. <<i, a>>[1] = i
      OBVIOUS
    <3> QED
      BY <2>2, <3>1
  <2> QED
    BY <2>1, <2>2, Zenon
<1>6. \A c \in Dispatchers : hits'[c] = IF c = d THEN {} ELSE hits[c]
  BY <1>2 DEF Types
<1>7. InHits(i)' = InHits(i) \ {d}
  BY <1>6, Zenon DEF InHits
<1>8. CASE d \in InHits(i)
  <2>1. At(i, "hit", d)
    BY <1>8, InPlace
  <2>2. passedOn'[i] # None
    BY <1>4, <1>5, <1>8 DEF InHits
  <2>3. InHits(i)' = {}
    BY <1>7, <2>1 DEF At, Only
  <2>4. At(i, "passed", None)'
    BY <1>1, <2>1, <2>2, <2>3, Zenon DEF At, Only, Tags
  <2> QED
    BY <2>4 DEF Homed
<1>9. CASE d \notin InHits(i)
  <2>1. passedOn'[i] = passedOn[i]
    BY <1>4, <1>5, <1>9, Zenon DEF InHits
  <2>2. InHits(i)' = InHits(i)
    BY <1>7, <1>9
  <2>3. Unmoved(i)
    BY <1>1, <2>1, <2>2, Zenon DEF Unmoved
  <2> QED
    BY <2>3, UnmovedHome
<1> QED
  BY <1>8, <1>9

LEMMA SendCancelledHome ==
  ASSUME Types, NEW d \in Dispatchers, SendCancelled(d), NEW i \in Items, Homed(i)
  PROVE  Homed(i)'
<1>1. /\ InTodo(i)' = InTodo(i) /\ InHits(i)' = InHits(i)
      /\ InMetrics(i)' = InMetrics(i) /\ InEvents(i)' = InEvents(i)
      /\ InGoMetrics(i)' = InGoMetrics(i) /\ InGoEvents(i)' = InGoEvents(i)
      /\ passedOn' = passedOn /\ submitted' = submitted
  BY DEF SendCancelled, InTodo, InHits, InMetrics, InEvents, InGoMetrics, InGoEvents,
         queueVars, goVars
<1>2. misses' = [misses EXCEPT ![d] = {}] /\ dropped' = dropped \cup misses[d]
  BY DEF SendCancelled
<1>3. \A c \in Dispatchers : misses'[c] = IF c = d THEN {} ELSE misses[c]
  BY <1>2 DEF Types
<1>4. InMisses(i)' = InMisses(i) \ {d}
  BY <1>3, Zenon DEF InMisses
<1>5. CASE i \in misses[d]
  <2>1. At(i, "miss", d)
    BY <1>5, InPlace DEF InMisses
  <2>2. InMisses(i)' = {} /\ i \in dropped'
    BY <1>2, <1>4, <1>5, <2>1 DEF At, Only
  <2>3. At(i, "dropped", None)'
    BY <1>1, <2>1, <2>2 DEF At, Only, Tags
  <2> QED
    BY <2>3 DEF Homed
<1>6. CASE i \notin misses[d]
  <2>1. InMisses(i)' = InMisses(i) /\ (i \in dropped' <=> i \in dropped)
    BY <1>2, <1>4, <1>6 DEF InMisses
  <2>2. Unmoved(i)
    BY <1>1, <2>1 DEF Unmoved
  <2> QED
    BY <2>2, UnmovedHome
<1> QED
  BY <1>5, <1>6

LEMMA RunMetricsHome ==
  ASSUME Types, NEW d \in Dispatchers, RunMetrics(d), NEW i \in Items, Homed(i)
  PROVE  Homed(i)'
<1>1. /\ InTodo(i)' = InTodo(i) /\ InHits(i)' = InHits(i) /\ InEvents(i)' = InEvents(i)
      /\ InGoMetrics(i)' = InGoMetrics(i) /\ InGoEvents(i)' = InGoEvents(i)
      /\ passedOn' = passedOn /\ submitted' = submitted /\ dropped' = dropped
  BY Zenon DEF RunMetrics, InTodo, InHits, InEvents, InGoMetrics, InGoEvents, goVars, outVars
<1>2. /\ misses' = [misses EXCEPT ![d] = {}]
      /\ awaitingMetrics' = [ip \in IPs |->
             awaitingMetrics[ip] \cup {m \in misses[d] : Source[m] = ip}]
  BY DEF RunMetrics
<1>3. \A c \in Dispatchers : misses'[c] = IF c = d THEN {} ELSE misses[c]
  BY <1>2 DEF Types
<1>4. InMisses(i)' = InMisses(i) \ {d}
  BY <1>3, Zenon DEF InMisses
<1>5. CASE i \in misses[d]
  <2>1. At(i, "miss", d)
    BY <1>5, InPlace DEF InMisses
  <2>2. Source[i] \in IPs
    BY <1>5 DEF Types
  <2>3. InMisses(i)' = {}
    BY <1>4, <2>1 DEF At, Only
  <2>4. InMetrics(i)' = {Source[i]}
    <3>1. \A ip \in IPs : i \notin awaitingMetrics[ip]
      BY <2>1 DEF At, Only, InMetrics
    <3> QED
      BY <1>2, <1>5, <2>2, <3>1 DEF InMetrics
  <2>5. At(i, "metrics", Source[i])'
    BY <1>1, <2>1, <2>3, <2>4, Zenon DEF At, Only, Tags
  <2> QED
    BY <2>5 DEF Homed
<1>6. CASE i \notin misses[d]
  <2>1. InMisses(i)' = InMisses(i)
    BY <1>4, <1>6 DEF InMisses
  <2>2. InMetrics(i)' = InMetrics(i)
    BY <1>2, <1>6 DEF InMetrics
  <2>3. Unmoved(i)
    BY <1>1, <2>1, <2>2 DEF Unmoved
  <2> QED
    BY <2>3, UnmovedHome
<1> QED
  BY <1>5, <1>6

LEMMA RunEventHome ==
  ASSUME Types, NEW d \in Dispatchers, NEW e \in Events, RunEvent(d, e), NEW i \in Items,
         Homed(i)
  PROVE  Homed(i)'
<1>1. /\ InTodo(i)' = InTodo(i) /\ InHits(i)' = InHits(i) /\ InMetrics(i)' = InMetrics(i)
      /\ InGoMetrics(i)' = InGoMetrics(i) /\ InGoEvents(i)' = InGoEvents(i)
      /\ passedOn' = passedOn /\ submitted' = submitted /\ dropped' = dropped
  BY Zenon DEF RunEvent, InTodo, InHits, InMetrics, InGoMetrics, InGoEvents, goVars, outVars
<1>2. /\ misses' = [misses EXCEPT ![d] = {}]
      /\ misses[d] = {e}
      /\ awaitingEvents' = [awaitingEvents EXCEPT ![Source[e]] = @ \cup {e}]
  BY DEF RunEvent
<1>3. \A c \in Dispatchers : misses'[c] = IF c = d THEN {} ELSE misses[c]
  BY <1>2, Zenon DEF Types
<1>4. InMisses(i)' = InMisses(i) \ {d}
  BY <1>3, Zenon DEF InMisses
<1>5. \A ip \in IPs : awaitingEvents'[ip] =
          IF ip = Source[e] THEN awaitingEvents[ip] \cup {e} ELSE awaitingEvents[ip]
  BY <1>2, Zenon DEF Types
<1>6. CASE i = e
  <2>1. At(i, "miss", d)
    BY <1>2, <1>6, InPlace DEF InMisses
  <2>2. Source[i] \in IPs
    BY <1>6, RunEventTypes, Zenon
  <2>3. InMisses(i)' = {}
    BY <1>4, <2>1 DEF At, Only
  <2>4. InEvents(i)' = {Source[i]}
    <3>1. \A ip \in IPs : i \notin awaitingEvents[ip]
      BY <2>1 DEF At, Only, InEvents
    <3> QED
      BY <1>5, <1>6, <2>2, <3>1, Zenon DEF InEvents
  <2>5. At(i, "events", Source[i])'
    BY <1>1, <2>1, <2>3, <2>4, Zenon DEF At, Only, Tags
  <2> QED
    BY <2>5 DEF Homed
<1>7. CASE i # e
  <2>1. InMisses(i)' = InMisses(i)
    BY <1>2, <1>4, <1>7 DEF InMisses
  <2>2. InEvents(i)' = InEvents(i)
    BY <1>5, <1>7, Zenon DEF InEvents
  <2>3. Unmoved(i)
    BY <1>1, <2>1, <2>2 DEF Unmoved
  <2> QED
    BY <2>3, UnmovedHome
<1> QED
  BY <1>6, <1>7

LEMMA RunInfoHome ==
  ASSUME Types, NEW ip \in IPs, NEW instance \in Answers, RunInfo(ip, instance),
         NEW i \in Items, Homed(i)
  PROVE  Homed(i)'
<1>1. /\ InTodo(i)' = InTodo(i) /\ InHits(i)' = InHits(i) /\ InMisses(i)' = InMisses(i)
      /\ passedOn' = passedOn /\ submitted' = submitted /\ dropped' = dropped
  BY Zenon DEF RunInfo, InTodo, InHits, InMisses, dispatchVars, outVars
<1>2. PICK gm : gm = [items |-> awaitingMetrics[ip], instance |-> instance]
  BY Zenon
<1>3. PICK ge :
          ge = [items |-> awaitingEvents[ip], instance |-> instance, dispatched |-> {}]
  BY Zenon
<1>4. gm.items = awaitingMetrics[ip] /\ ge.items = awaitingEvents[ip]
  BY <1>2, <1>3
<1>5. InMetrics(i)' = InMetrics(i) \ {ip} /\ InEvents(i)' = InEvents(i) \ {ip}
  <2>1. \A h \in IPs : /\ awaitingMetrics'[h] = IF h = ip THEN {} ELSE awaitingMetrics[h]
                       /\ awaitingEvents'[h] = IF h = ip THEN {} ELSE awaitingEvents[h]
    BY RunInfoTypes, Zenon
  <2> QED
    BY <2>1, Zenon DEF InMetrics, InEvents
<1>6. InGoMetrics(i)' = IF i \in awaitingMetrics[ip] THEN InGoMetrics(i) \cup {gm}
                                                     ELSE InGoMetrics(i)
  <2>1. CASE awaitingMetrics[ip] = {}
    <3>1. goMetrics' = goMetrics
      BY <2>1 DEF RunInfo
    <3> QED
      BY <2>1, <3>1, Zenon DEF InGoMetrics
  <2>2. CASE awaitingMetrics[ip] # {}
    <3>1. goMetrics' = goMetrics \cup {gm}
      BY <2>2, <1>2 DEF RunInfo
    <3> QED
      BY <1>4, <3>1, Zenon DEF InGoMetrics
  <2> QED
    BY <2>1, <2>2, Zenon
<1>7. InGoEvents(i)' = IF i \in awaitingEvents[ip] THEN InGoEvents(i) \cup {ge}
                                                   ELSE InGoEvents(i)
  <2>1. CASE awaitingEvents[ip] = {}
    <3>1. goEvents' = goEvents
      BY <2>1 DEF RunInfo
    <3> QED
      BY <2>1, <3>1 DEF InGoEvents
  <2>2. CASE awaitingEvents[ip] # {}
    <3>1. goEvents' = goEvents \cup {ge}
      BY <2>2, <1>3, Zenon DEF RunInfo
    <3> QED
      BY <1>4, <3>1, Zenon DEF InGoEvents
  <2> QED
    BY <2>1, <2>2
<1>8. CASE i \in awaitingMetrics[ip]
  <2>1. At(i, "metrics", ip)
    BY <1>8, InPlace, Zenon DEF InMetrics
  <2>2. i \notin awaitingEvents[ip]
    BY <2>1 DEF At, Only, InEvents
  <2>3. InMetrics(i)' = {} /\ InEvents(i)' = {}
    BY <1>5, <2>1 DEF At, Only
  <2>4. InGoMetrics(i)' = {gm} /\ InGoEvents(i)' = {}
    BY <1>6, <1>7, <1>8, <2>1, <2>2, Zenon DEF At, Only
  <2>5. At(i, "goMetrics", gm)'
    BY <1>1, <2>1, <2>3, <2>4 DEF At, Only, Tags
  <2> QED
    BY <2>5 DEF Homed
<1>9. CASE i \in awaitingEvents[ip]
  <2>1. At(i, "events", ip)
    BY <1>9, InPlace, Zenon DEF InEvents
  <2>2. i \notin awaitingMetrics[ip]
    BY <2>1 DEF At, Only, InMetrics
  <2>3. InMetrics(i)' = {} /\ InEvents(i)' = {}
    BY <1>5, <2>1 DEF At, Only
  <2>4. InGoMetrics(i)' = {} /\ InGoEvents(i)' = {ge}
    BY <1>6, <1>7, <1>9, <2>1, <2>2, Zenon DEF At, Only
  <2>5. At(i, "goEvents", ge)'
    BY <1>1, <2>1, <2>3, <2>4 DEF At, Only, Tags
  <2> QED
    BY <2>5 DEF Homed
<1>10. CASE i \notin awaitingMetrics[ip] /\ i \notin awaitingEvents[ip]
  <2>1. InMetrics(i)' = InMetrics(i) /\ InEvents(i)' = InEvents(i)
    BY <1>5, <1>10 DEF InMetrics, InEvents
  <2>2. InGoMetrics(i)' = InGoMetrics(i) /\ InGoEvents(i)' = InGoEvents(i)
    BY <1>6, <1>7, <1>10
  <2>3. Unmoved(i)
    BY <1>1, <2>1, <2>2 DEF Unmoved
  <2> QED
    BY <2>3, UnmovedHome
<1> QED
  BY <1>8, <1>9, <1>10

LEMMA MetricsDispatchedHome ==
  ASSUME Types, NEW g \in goMetrics, updateAndDispatchMetrics(g), NEW i \in Items, Homed(i)
  PROVE  Homed(i)'
<1>1. /\ InTodo(i)' = InTodo(i) /\ InHits(i)' = InHits(i) /\ InMisses(i)' = InMisses(i)
      /\ InMetrics(i)' = InMetrics(i) /\ InEvents(i)' = InEvents(i)
      /\ InGoEvents(i)' = InGoEvents(i)
      /\ submitted' = submitted /\ dropped' = dropped
  BY DEF updateAndDispatchMetrics, InTodo, InHits, InMisses, InMetrics, InEvents, InGoEvents,
         dispatchVars, queueVars
<1>2. InGoMetrics(i)' = InGoMetrics(i) \ {g}
  BY DEF updateAndDispatchMetrics, InGoMetrics
<1>3. CASE i \in g.items
  <2>1. At(i, "goMetrics", g)
    BY <1>3, InPlace DEF InGoMetrics
  <2>2. passedOn'[i] # None
    BY <1>3, MetricsDispatchedTypes
  <2>3. InGoMetrics(i)' = {}
    BY <1>2, <2>1 DEF At, Only
  <2>4. At(i, "passed", None)'
    BY <1>1, <2>1, <2>2, <2>3, Zenon DEF At, Only, Tags
  <2> QED
    BY <2>4 DEF Homed
<1>4. CASE i \notin g.items
  <2>1. passedOn'[i] = passedOn[i]
    BY <1>4, MetricsDispatchedTypes, Zenon
  <2>2. InGoMetrics(i)' = InGoMetrics(i)
    BY <1>2, <1>4 DEF InGoMetrics
  <2>3. Unmoved(i)
    BY <1>1, <2>1, <2>2, Zenon DEF Unmoved
  <2> QED
    BY <2>3, UnmovedHome
<1> QED
  BY <1>3, <1>4

\* One event goes downstream; the goroutine keeps the others.
LEMMA EventDispatchedHome ==
  ASSUME Types, NEW g \in goEvents, NEW e \in Events, updateAndDispatchEvent(g, e),
         NEW i \in Items, Homed(i)
  PROVE  Homed(i)'
<1>1. /\ InTodo(i)' = InTodo(i) /\ InHits(i)' = InHits(i) /\ InMisses(i)' = InMisses(i)
      /\ InMetrics(i)' = InMetrics(i) /\ InEvents(i)' = InEvents(i)
      /\ InGoMetrics(i)' = InGoMetrics(i)
      /\ submitted' = submitted /\ dropped' = dropped
  BY DEF updateAndDispatchEvent, InTodo, InHits, InMisses, InMetrics, InEvents, InGoMetrics,
         dispatchVars, queueVars
<1>2. PICK h : h = [g EXCEPT !.items = @ \ {e}, !.dispatched = @ \cup {e}]
  OBVIOUS
<1>3. h.items = g.items \ {e} /\ e \in g.items
  BY <1>2 DEF Types, GoEvents, updateAndDispatchEvent
<1>4. goEvents' = (goEvents \ {g}) \cup {h}
  BY <1>2 DEF updateAndDispatchEvent
<1>5. /\ i \in h.items => InGoEvents(i)' = (InGoEvents(i) \ {g}) \cup {h}
      /\ i \notin h.items => InGoEvents(i)' = InGoEvents(i) \ {g}
  BY <1>4, Zenon DEF InGoEvents
<1>6. CASE i = e
  <2>1. At(i, "goEvents", g)
    BY <1>3, <1>6, InPlace, Zenon DEF InGoEvents
  <2>2. passedOn'[i] # None
    BY <1>6, EventDispatchedTypes
  <2>3. InGoEvents(i)' = {}
    BY <1>3, <1>5, <1>6, <2>1 DEF At, Only
  <2>4. At(i, "passed", None)'
    BY <1>1, <2>1, <2>2, <2>3, Zenon DEF At, Only, Tags
  <2> QED
    BY <2>4 DEF Homed
<1>7. CASE i # e /\ i \in g.items
  <2>1. At(i, "goEvents", g)
    BY <1>7, InPlace DEF InGoEvents
  <2>2. passedOn'[i] = passedOn[i]
    BY <1>7, EventDispatchedTypes
  <2>3. InGoEvents(i)' = {h}
    BY <1>3, <1>5, <1>7, <2>1, Zenon DEF At, Only
  <2>4. At(i, "goEvents", h)'
    BY <1>1, <2>1, <2>2, <2>3, Zenon DEF At, Only, Tags
  <2> QED
    BY <2>4 DEF Homed
<1>8. CASE i \notin g.items
  <2>1. passedOn'[i] = passedOn[i]
    BY <1>3, <1>8, EventDispatchedTypes
  <2>2. InGoEvents(i)' = InGoEvents(i)
    BY <1>3, <1>5, <1>8 DEF InGoEvents
  <2>3. Unmoved(i)
    BY <1>1, <2>1, <2>2, Zenon DEF Unmoved
  <2> QED
    BY <2>3, UnmovedHome
<1> QED
  BY <1>6, <1>7, <1>8

\* The steps no item has a part in.
LEMMA OtherHome ==
  ASSUME Types, NEW i \in Items, Homed(i),
         UNCHANGED <<dispatchVars, queueVars, goMetrics, outVars>>,
         \/ UNCHANGED goEvents
         \/ \E g \in goEvents : g.items = {} /\ goEvents' = goEvents \ {g}
  PROVE  Homed(i)'
<1>1. InGoEvents(i)' = InGoEvents(i)
  <2>1. CASE UNCHANGED goEvents
    BY <2>1, Zenon DEF InGoEvents
  <2>2. CASE \E g \in goEvents : g.items = {} /\ goEvents' = goEvents \ {g}
    BY <2>2, Zenon DEF InGoEvents
  <2> QED
    BY <2>1, <2>2, Zenon
<1>2. Unmoved(i)
  BY <1>1 DEF Unmoved, InTodo, InHits, InMisses, InMetrics, InEvents, InGoMetrics,
              dispatchVars, queueVars, outVars
<1> QED
  BY <1>2, UnmovedHome

-----------------------------------------------------------------------------
(* The invariant                                                           *)

LEMMA InitInv == Init => HandlerInv
<1> SUFFICES ASSUME Init
             PROVE  HandlerInv
  OBVIOUS
<1>1. Types
  BY EmptySeq, Zenon DEF Init, InstancesInit, Types
<1>2. ASSUME NEW i \in Items
      PROVE  Homed(i)
  <2>1. /\ InTodo(i) = {} /\ InHits(i) = {} /\ InMisses(i) = {} /\ InMetrics(i) = {}
        /\ InEvents(i) = {} /\ InGoMetrics(i) = {} /\ InGoEvents(i) = {}
    BY Zenon DEF Init, InTodo, InHits, InMisses, InMetrics, InEvents, InGoMetrics, InGoEvents
  <2>2. i \notin submitted /\ i \notin dropped /\ passedOn[i] = None
    BY DEF Init
  <2>3. At(i, "none", None)
    BY <2>1, <2>2 DEF At, Only, Tags
  <2> QED
    BY <2>3 DEF Homed
<1>3. \A ip \in IPs : LookedUp(ip)
  BY DEF Init, LookedUp
<1> QED
  BY <1>1, <1>2, <1>3 DEF HandlerInv

LEMMA TypesStep ==
  ASSUME Types, [Next]_vars
  PROVE  Types'
<1>1. ASSUME NEW d \in Dispatchers, NEW mm \in SUBSET Metrics, DispatchMetricMap(d, mm)
      PROVE  Types'
  BY <1>1, DispatchTypes, Zenon DEF DispatchMetricMap, Items
<1>2. ASSUME NEW d \in Dispatchers, NEW e \in Events, DispatchEvent(d, e)
      PROVE  Types'
  <2>1. {e} \in SUBSET Items
    BY DEF Items
  <2> QED
    BY <1>2, <2>1, DispatchTypes, Zenon DEF DispatchEvent
<1>3. CASE RunReturn
  BY <1>3, Zenon DEF RunReturn, Types, instancesVars, dispatchVars, lookupVars, queueVars, goVars,
              outVars
<1>4. CASE Goroutines
  BY <1>4, MetricsDispatchedTypes, EventDispatchedTypes, EventsReturnTypes, Zenon DEF Goroutines
<1>5. CASE UNCHANGED vars
  BY <1>5, Zenon DEF vars, Types, instancesVars, dispatchVars, lookupVars, queueVars, goVars, outVars
<1> QED
  BY <1>1, <1>2, <1>3, <1>4, <1>5, PeekTypes, PassTypes, SendCancelledTypes, RunLookupTypes,
     RunInfoTypes, RunMetricsTypes, RunEventTypes, ProviderTypes, Zenon
     DEF Next, Dispatcher, RunReceive

LEMMA HomedStep ==
  ASSUME Types, NEW i \in Items, Homed(i), [Next]_vars
  PROVE  Homed(i)'
<1>1. ASSUME NEW d \in Dispatchers, NEW mm \in SUBSET Metrics, DispatchMetricMap(d, mm)
      PROVE  Homed(i)'
  BY <1>1, DispatchHome, Zenon DEF DispatchMetricMap, Items
<1>2. ASSUME NEW d \in Dispatchers, NEW e \in Events, DispatchEvent(d, e)
      PROVE  Homed(i)'
  <2>1. {e} \in SUBSET Items
    BY DEF Items
  <2>2. {e} \cap submitted = {}
    BY <1>2 DEF DispatchEvent
  <2> QED
    BY <1>2, <2>1, <2>2, DispatchHome, Zenon DEF DispatchEvent
<1>3. CASE RunLookup
  BY <1>3, OtherHome DEF RunLookup, goVars
<1>4. CASE RunReturn
  BY <1>4, OtherHome DEF RunReturn, goVars
<1>5. CASE Provider
  BY <1>5, OtherHome DEF Provider, goVars
<1>6. ASSUME NEW g \in goEvents, updateAndDispatchEventsReturn(g)
      PROVE  Homed(i)'
  BY <1>6, OtherHome DEF updateAndDispatchEventsReturn
<1>7. CASE Goroutines
  BY <1>6, <1>7, MetricsDispatchedHome, EventDispatchedHome DEF Goroutines
<1>8. CASE UNCHANGED vars
  BY <1>8, OtherHome DEF vars, goVars
<1> QED
  BY <1>1, <1>2, <1>3, <1>4, <1>5, <1>7, <1>8, PeekHome, PassHome, SendCancelledHome,
     RunInfoHome, RunMetricsHome, RunEventHome
     DEF Next, Dispatcher, RunReceive

\* The handler's invariant holds.
THEOREM HandlerInvariant == Spec => []HandlerInv
<1>1. HandlerInv /\ [Next]_vars => HandlerInv'
  <2> SUFFICES ASSUME HandlerInv, [Next]_vars
               PROVE  HandlerInv'
    OBVIOUS
  <2>1. Types /\ (\A i \in Items : Homed(i)) /\ \A ip \in IPs : LookedUp(ip)
    BY DEF HandlerInv
  <2>2. Types'
    BY <2>1, TypesStep
  <2>3. \A i \in Items : Homed(i)'
    BY <2>1, HomedStep
  <2>4. \A ip \in IPs : LookedUp(ip)'
    BY <2>1, <2>2, LookedUpStep
  <2> QED
    BY <2>2, <2>3, <2>4 DEF HandlerInv
<1> QED
  BY <1>1, InitInv, PTL DEF Spec

\* An item in one place has one entry in Places.
LEMMA OnePlace ==
  ASSUME NEW i \in Items, Homed(i)
  PROVE  Cardinality(Places(i)) = IF i \in submitted THEN 1 ELSE 0
<1>1. PICK tag, key : At(i, tag, key)
  BY DEF Homed
<1>2. Places(i) =
          {<<"todo", d>> : d \in InTodo(i)} \cup {<<"hit", d>> : d \in InHits(i)} \cup
          {<<"miss", d>> : d \in InMisses(i)} \cup
          {<<"awaiting", ip>> : ip \in InMetrics(i) \cup InEvents(i)} \cup
          {<<"goroutine", g.items>> : g \in InGoMetrics(i) \cup InGoEvents(i)} \cup
          {<<"dropped", i>> : x \in dropped \cap {i}} \cup
          {<<"passed", i>> : x \in {p \in {passedOn[i]} : p # None}}
  <2>1. {ip \in IPs : i \in awaitingMetrics[ip] \cup awaitingEvents[ip]}
        = InMetrics(i) \cup InEvents(i)
    BY DEF InMetrics, InEvents
  <2>2. {g \in goMetrics \cup goEvents : i \in g.items} = InGoMetrics(i) \cup InGoEvents(i)
    BY DEF InGoMetrics, InGoEvents
  <2> QED
    BY <2>1, <2>2, Zenon DEF Places, InTodo, InHits, InMisses
<1>3. CASE tag = "none"
  <2>1. Places(i) = {} /\ i \notin submitted
    BY <1>1, <1>2, <1>3, Zenon DEF At, Only
  <2> QED
    BY <2>1, FS_EmptySet
<1>4. CASE tag # "none"
  <2>1. i \in submitted /\ tag \in Tags \ {"none"}
    BY <1>1, <1>4 DEF At
  <2>2. \E x : Places(i) = {x}
    <3>1. CASE tag = "todo"
      <4>1. Places(i) = {<<"todo", key>>}
        BY <1>1, <1>2, <3>1, Zenon DEF At, Only
      <4> QED
        BY <4>1, Zenon
    <3>2. CASE tag = "hit"
      <4>1. Places(i) = {<<"hit", key>>}
        BY <1>1, <1>2, <3>2, Zenon DEF At, Only
      <4> QED
        BY <4>1, Zenon
    <3>3. CASE tag = "miss"
      <4>1. Places(i) = {<<"miss", key>>}
        BY <1>1, <1>2, <3>3, Zenon DEF At, Only
      <4> QED
        BY <4>1, Zenon
    <3>4. CASE tag = "metrics" \/ tag = "events"
      <4>1. Places(i) = {<<"awaiting", key>>}
        BY <1>1, <1>2, <3>4, Zenon DEF At, Only
      <4> QED
        BY <4>1, Zenon
    <3>5. CASE tag = "goMetrics" \/ tag = "goEvents"
      <4>1. Places(i) = {<<"goroutine", key.items>>}
        BY <1>1, <1>2, <3>5, Zenon DEF At, Only
      <4> QED
        BY <4>1, Zenon
    <3>6. CASE tag = "dropped"
      <4>1. Places(i) = {<<"dropped", i>>}
        BY <1>1, <1>2, <3>6, Zenon DEF At, Only
      <4> QED
        BY <4>1, Zenon
    <3>7. CASE tag = "passed"
      <4>1. Places(i) = {<<"passed", i>>}
        BY <1>1, <1>2, <3>7, Zenon DEF At, Only
      <4> QED
        BY <4>1, Zenon
    <3> QED
      BY <2>1, <3>1, <3>2, <3>3, <3>4, <3>5, <3>6, <3>7, Zenon DEF Tags
  <2> QED
    BY <2>1, <2>2, FS_Singleton, Zenon
<1> QED
  BY <1>3, <1>4

\* Whatever the number of dispatchers, items and addresses, and however the
\* provider answers: an item that was dispatched is in exactly one place, and
\* what waits for an address waits for an answer that is still to come.
THEOREM ItemsAreInOnePlace == Spec => []ExactlyOnePlace
<1>1. HandlerInv => ExactlyOnePlace
  BY OnePlace DEF HandlerInv, ExactlyOnePlace, LookedUp, OnTheWay, BeingLookedUp
<1> QED
  BY <1>1, HandlerInvariant, PTL
=============================================================================
