---------------------- MODULE CachedCloudProviderProofs ----------------------
(***************************************************************************)
(* Proofs about CachedCloudProvider, for any addresses, instances and size *)
(* of a batch: the statistics count the cache, a lookup that fails takes   *)
(* nothing away, and the provider implements CachedInstances.              *)
(*                                                                         *)
(* The refinement counts the answers an address is owed over two stacks,   *)
(* two slots and the batch of the dispatcher.  Every step of Run ends with *)
(* a refill of the slots, which moves an element without changing a count, *)
(* so the lemmas about the counts of sequences carry the proof.            *)
(***************************************************************************)
EXTENDS CachedCloudProvider, FiniteSetTheorems, SequenceTheorems, TLAPS

-----------------------------------------------------------------------------
(* How often the elements of a set are in a sequence                       *)

Spots(s, S) == {k \in 1..Len(s) : s[k] \in S}
CountIn(s, S) == Cardinality(Spots(s, S))
Flag(x, S) == IF x \in S THEN 1 ELSE 0

LEMMA FlagType == \A x, S : Flag(x, S) \in Nat
  BY DEF Flag

LEMMA CountType ==
  ASSUME NEW T, NEW s \in Seq(T), NEW S
  PROVE  IsFiniteSet(Spots(s, S)) /\ CountIn(s, S) \in Nat
<1>1. IsFiniteSet(1..Len(s))
  BY FS_Interval
<1>2. IsFiniteSet(Spots(s, S))
  BY <1>1, FS_Subset DEF Spots
<1> QED
  BY <1>2, FS_CardinalityType DEF CountIn

LEMMA CountEmpty == \A S : CountIn(<<>>, S) = 0
<1>1. \A S : Spots(<<>>, S) = {}
  BY DEF Spots
<1> QED
  BY <1>1, FS_EmptySet DEF CountIn

\* Two sequences one behind the other.
LEMMA CountConcat ==
  ASSUME NEW T, NEW s \in Seq(T), NEW t \in Seq(T), NEW S
  PROVE  CountIn(s \o t, S) = CountIn(s, S) + CountIn(t, S)
<1> DEFINE n == Len(s)
           A == Spots(s, S)
           B == Spots(t, S)
           C == {k \in (n + 1)..(n + Len(t)) : t[k - n] \in S}
           shift == [k \in B |-> k + n]
<1>1. /\ Len(s) \in Nat /\ Len(t) \in Nat /\ Len(s \o t) = Len(s) + Len(t)
      /\ \A i \in 1..(Len(s) + Len(t)) : (s \o t)[i] = IF i <= Len(s) THEN s[i] ELSE t[i - Len(s)]
  BY ConcatProperties
<1>2. Spots(s \o t, S) = A \cup C /\ A \cap C = {}
  BY <1>1 DEF Spots
<1>3. Cardinality(C) = Cardinality(B) /\ IsFiniteSet(C)
  <2>1. shift \in [B -> C]
    BY <1>1 DEF Spots
  <2>2. \A i, j \in B : shift[i] = shift[j] => i = j
    BY <1>1 DEF Spots
  <2>3. \A k \in C : \E i \in B : shift[i] = k
    <3> SUFFICES ASSUME NEW k \in C PROVE \E i \in B : shift[i] = k
      OBVIOUS
    <3>1. k - n \in B
      BY <1>1 DEF Spots
    <3>2. shift[k - n] = k
      BY <1>1, <3>1
    <3> QED
      BY <3>1, <3>2
  <2>4. ExistsBijection(B, C)
    <3> HIDE DEF B, C, shift
    <3> QED
      BY <2>1, <2>2, <2>3 DEF ExistsBijection, Bijection, Injection, Surjection, IsInjective
  <2>5. IsFiniteSet(B)
    BY CountType
  <2> HIDE DEF B, C
  <2> QED
    BY <2>4, <2>5, FS_Bijection
<1>4. /\ IsFiniteSet(A) /\ Cardinality(A) \in Nat /\ Cardinality(B) \in Nat
  BY CountType DEF CountIn
<1> HIDE DEF A, B, C
<1>5. Cardinality(A \cup C) = Cardinality(A) + Cardinality(C)
  <2>1. Cardinality(A \cup C) = Cardinality(A) + Cardinality(C) - Cardinality(A \cap C)
    BY <1>3, <1>4, FS_Union
  <2>2. Cardinality(A \cap C) = 0
    BY <1>2, FS_EmptySet
  <2> QED
    BY <1>3, <1>4, <2>1, <2>2
<1>6. CountIn(s \o t, S) = Cardinality(A) + Cardinality(B)
  BY <1>2, <1>3, <1>5 DEF CountIn
<1> QED
  BY <1>6 DEF A, B, CountIn

LEMMA CountOne ==
  ASSUME NEW e, NEW S
  PROVE  CountIn(<<e>>, S) = Flag(e, S)
<1>1. CASE e \in S
  <2>1. Spots(<<e>>, S) = {1}
    BY <1>1 DEF Spots
  <2> QED
    BY <1>1, <2>1, FS_Singleton DEF CountIn, Flag
<1>2. CASE e \notin S
  <2>1. Spots(<<e>>, S) = {}
    BY <1>2 DEF Spots
  <2> QED
    BY <1>2, <2>1, FS_EmptySet DEF CountIn, Flag
<1> QED
  BY <1>1, <1>2

LEMMA CountAppend ==
  ASSUME NEW T, NEW s \in Seq(T), NEW e \in T, NEW S
  PROVE  CountIn(Append(s, e), S) = CountIn(s, S) + Flag(e, S)
<1>1. Append(s, e) = s \o <<e>> /\ <<e>> \in Seq(T)
  BY AppendIsConcat
<1>2. CountIn(s \o <<e>>, S) = CountIn(s, S) + CountIn(<<e>>, S)
  BY <1>1, CountConcat
<1>3. CountIn(<<e>>, S) = Flag(e, S)
  BY CountOne
<1> QED
  BY <1>1, <1>2, <1>3

\* The last element is popped.
LEMMA CountPop ==
  ASSUME NEW T, NEW s \in Seq(T), s # <<>>, NEW S
  PROVE  /\ SubSeq(s, 1, Len(s) - 1) \in Seq(T) /\ s[Len(s)] \in T
         /\ CountIn(s, S) = CountIn(SubSeq(s, 1, Len(s) - 1), S) + Flag(s[Len(s)], S)
<1>1. Len(s) \in Nat \ {0} /\ s[Len(s)] \in T /\ SubSeq(s, 1, Len(s) - 1) \in Seq(T)
  BY EmptySeq, ElementOfSeq, SubSeqProperties
<1>2. s = SubSeq(s, 1, Len(s) - 1) \o <<s[Len(s)]>>
  BY <1>1, SubSeqRecursiveSecond, SubSeqFull
<1>3. <<s[Len(s)]>> \in Seq(T)
  BY <1>1
<1>4. CountIn(SubSeq(s, 1, Len(s) - 1) \o <<s[Len(s)]>>, S)
      = CountIn(SubSeq(s, 1, Len(s) - 1), S) + CountIn(<<s[Len(s)]>>, S)
  BY <1>1, <1>3, CountConcat
<1>5. CountIn(s, S) = CountIn(SubSeq(s, 1, Len(s) - 1), S) + CountIn(<<s[Len(s)]>>, S)
  BY <1>2, <1>4
<1>6. CountIn(<<s[Len(s)]>>, S) = Flag(s[Len(s)], S)
  BY CountOne
<1> QED
  BY <1>1, <1>5, <1>6

\* The first element is taken.
LEMMA CountTail ==
  ASSUME NEW T, NEW s \in Seq(T), s # <<>>, NEW S
  PROVE  /\ SubSeq(s, 2, Len(s)) \in Seq(T) /\ s[1] \in T
         /\ CountIn(s, S) = Flag(s[1], S) + CountIn(SubSeq(s, 2, Len(s)), S)
<1>1. Len(s) \in Nat \ {0} /\ s[1] \in T /\ SubSeq(s, 2, Len(s)) \in Seq(T)
  BY EmptySeq, ElementOfSeq, SubSeqProperties
<1>2. s = <<s[1]>> \o SubSeq(s, 2, Len(s))
  BY <1>1, SubSeqRecursiveFirst, SubSeqFull
<1>3. <<s[1]>> \in Seq(T)
  BY <1>1
<1>4. CountIn(<<s[1]>> \o SubSeq(s, 2, Len(s)), S)
      = CountIn(<<s[1]>>, S) + CountIn(SubSeq(s, 2, Len(s)), S)
  BY <1>1, <1>3, CountConcat
<1>5. CountIn(s, S) = CountIn(<<s[1]>>, S) + CountIn(SubSeq(s, 2, Len(s)), S)
  BY <1>2, <1>4
<1>6. CountIn(<<s[1]>>, S) = Flag(s[1], S)
  BY CountOne
<1> QED
  BY <1>1, <1>5, <1>6

\* doRefresh visits the entries in any order, and each of them once.
LEMMA CountOrder ==
  ASSUME NEW S, IsFiniteSet(S), NEW order \in Orders(S), NEW x
  PROVE  order \in Seq(S) /\ CountIn(order, {x}) = Flag(x, S)
<1> DEFINE n == Cardinality(S)
<1>1. /\ n \in Nat /\ order \in [1..n -> S]
      /\ \A i, j \in 1..n : order[i] = order[j] => i = j
  BY FS_CardinalityType DEF Orders
<1> HIDE DEF n
<1>2. order \in Seq(S) /\ Len(order) = n
  BY <1>1
<1>3. order \in Injection(1..n, S)
  BY <1>1 DEF Injection, IsInjective
<1>4. IsFiniteSet(1..n) /\ Cardinality(1..n) = n
  BY <1>1, FS_Interval
<1>5. order \in Surjection(1..n, S)
  BY <1>3, <1>4, FS_Injection DEF n
<1>6. CASE x \in S
  <2>1. PICK k \in 1..n : order[k] = x
    BY <1>5, <1>6 DEF Surjection
  <2>2. Spots(order, {x}) = {k}
    BY <1>1, <1>2, <2>1 DEF Spots
  <2> QED
    BY <1>2, <1>6, <2>2, FS_Singleton DEF CountIn, Flag
<1>7. CASE x \notin S
  <2>1. Spots(order, {x}) = {}
    BY <1>1, <1>2, <1>7 DEF Spots
  <2> QED
    BY <1>2, <1>7, <2>1, FS_EmptySet DEF CountIn, Flag
<1> QED
  BY <1>6, <1>7

-----------------------------------------------------------------------------
(* The refill of the slots moves an element and loses none                 *)

LEMMA LookupRefilled ==
  ASSUME NEW stack \in Seq(IPs), NEW offered \in IPs \cup {None}, RefillLookup(offered, stack)
  PROVE  /\ toLookupIPs' \in Seq(IPs) /\ toLookupIP' \in IPs \cup {None}
         /\ \A ip \in IPs : CountIn(toLookupIPs', {ip}) + Flag(toLookupIP', {ip})
                            = CountIn(stack, {ip}) + Flag(offered, {ip})
<1>1. CASE offered = None /\ stack # <<>>
  <2>1. /\ toLookupIP' = stack[Len(stack)] /\ toLookupIPs' = SubSeq(stack, 1, Len(stack) - 1)
        /\ \A ip \in IPs : Flag(offered, {ip}) = 0
    BY <1>1, ValuesAssumption DEF RefillLookup, Flag
  <2>2. /\ toLookupIPs' \in Seq(IPs) /\ toLookupIP' \in IPs
        /\ \A ip : CountIn(stack, {ip}) = CountIn(toLookupIPs', {ip}) + Flag(toLookupIP', {ip})
    BY <1>1, <2>1, CountPop
  <2>3. ASSUME NEW ip \in IPs
        PROVE  CountIn(toLookupIPs', {ip}) + Flag(toLookupIP', {ip})
               = CountIn(stack, {ip}) + Flag(offered, {ip})
    <3>1. CountIn(stack, {ip}) \in Nat
      BY CountType
    <3>2. /\ Flag(offered, {ip}) = 0
          /\ CountIn(stack, {ip}) = CountIn(toLookupIPs', {ip}) + Flag(toLookupIP', {ip})
      BY <2>1, <2>2
    <3> QED
      BY <3>1, <3>2
  <2> QED
    BY <2>2, <2>3
<1>2. CASE ~(offered = None /\ stack # <<>>)
  BY <1>2 DEF RefillLookup
<1> QED
  BY <1>1, <1>2

\* The answers about an address.
About(ip) == {info \in Infos : info.ip = ip}

LEMMA NoInfoIsNone == NoInfo \notin Infos /\ \A ip \in IPs : Flag(NoInfo, About(ip)) = 0
  BY ValuesAssumption DEF NoInfo, Infos, About, Flag

LEMMA ReturnRefilled ==
  ASSUME NEW stack \in Seq(Infos), NEW offered \in Infos \cup {NoInfo},
         RefillReturn(offered, stack)
  PROVE  /\ toReturnInfos' \in Seq(Infos) /\ toReturnInfo' \in Infos \cup {NoInfo}
         /\ \A ip \in IPs : CountIn(toReturnInfos', About(ip)) + Flag(toReturnInfo', About(ip))
                            = CountIn(stack, About(ip)) + Flag(offered, About(ip))
<1>1. CASE offered = NoInfo /\ stack # <<>>
  <2>1. /\ toReturnInfo' = stack[Len(stack)]
        /\ toReturnInfos' = SubSeq(stack, 1, Len(stack) - 1)
        /\ \A ip \in IPs : Flag(offered, About(ip)) = 0
    BY <1>1, NoInfoIsNone DEF RefillReturn
  <2>2. /\ toReturnInfos' \in Seq(Infos) /\ toReturnInfo' \in Infos
        /\ \A ip : CountIn(stack, About(ip))
                   = CountIn(toReturnInfos', About(ip)) + Flag(toReturnInfo', About(ip))
    BY <1>1, <2>1, CountPop
  <2>3. \A ip : CountIn(stack, About(ip)) \in Nat
    BY CountType
  <2> QED
    BY <2>1, <2>2, <2>3
<1>2. CASE ~(offered = NoInfo /\ stack # <<>>)
  BY <1>2 DEF RefillReturn
<1> QED
  BY <1>1, <1>2

-----------------------------------------------------------------------------
(* Types and control                                                       *)

\* A batch that is looked up or sent, or for which the timer runs, is not
\* empty, and the timer is stopped as soon as the batch is closed.
ControlOK ==
    /\ TypeOK
    /\ timer => ips # <<>>
    /\ ldpc \in {"limit", "send"} => ips # <<>> /\ ~timer

LEMMA InitControl == Init => ControlOK
<1> SUFFICES ASSUME Init PROVE ControlOK
  OBVIOUS
<1>1. /\ toLookupIPs \in Seq(IPs) /\ toReturnInfos \in Seq(Infos) /\ ips \in Seq(IPs)
      /\ toLookupIP \in IPs \cup {None} /\ toReturnInfo \in Infos \cup {NoInfo}
  BY EmptySeq DEF Init
<1>2. cache \in [IPs -> Answers \cup {Miss}] /\ instances \in [IPs -> Answers]
  BY DEF Init, NoInstances, Answers
<1>3. /\ asked \in 0..MaxAsked /\ ticks \in 0..MaxTicks
      /\ statsCachePositive \in Int /\ statsCacheNegative \in Int
  BY BoundsAssumption DEF Init
<1>4. /\ timer \in BOOLEAN /\ cancelled \in BOOLEAN
      /\ ldpc \in {"collect", "limit", "send", "returned"}
      /\ rpc \in {"running", "waiting", "returned"}
      /\ ldpc \notin {"limit", "send"} /\ ~timer
  BY DEF Init
<1> QED
  BY <1>1, <1>2, <1>3, <1>4 DEF TypeOK, ControlOK

\* The dispatcher takes an address.
LEMMA ReceiveIPControl ==
  ASSUME ControlOK, NEW ip \in IPs, ReceiveIP(ip)
  PROVE  /\ ips' \in Seq(IPs) /\ ips' # <<>> /\ instances' = instances
         /\ timer' \in BOOLEAN /\ ldpc' \in {"collect", "limit"}
         /\ ldpc' = "limit" => ~timer'
<1>1. ips' \in Seq(IPs) /\ ips' # <<>>
  BY AppendProperties DEF ReceiveIP, ControlOK, TypeOK
<1> QED
  BY <1>1 DEF ReceiveIP

\* The result Run receives from the dispatcher.
LEMMA NextResult ==
  ASSUME ControlOK, ldpc = "send"
  PROVE  /\ ips # <<>> /\ ips[1] \in IPs /\ instances[ips[1]] \in Answers
         /\ [ip |-> ips[1], instance |-> instances[ips[1]]] \in Infos
         /\ SubSeq(ips, 2, Len(ips)) \in Seq(IPs)
         /\ Len(ips) # 1 => SubSeq(ips, 2, Len(ips)) # <<>>
<1>1. ips \in Seq(IPs) /\ ips # <<>> /\ instances \in [IPs -> Answers]
  BY DEF ControlOK, TypeOK
<1>2. Len(ips) \in Nat \ {0}
  BY <1>1, EmptySeq
<1>3. ips[1] \in IPs /\ SubSeq(ips, 2, Len(ips)) \in Seq(IPs)
  BY <1>1, CountTail
<1>4. Len(SubSeq(ips, 2, Len(ips))) = IF 2 <= Len(ips) THEN Len(ips) - 1 ELSE 0
  BY <1>1, <1>2
<1>5. Len(ips) # 1 => SubSeq(ips, 2, Len(ips)) # <<>>
  <2>1. \A n \in Nat \ {0} : n # 1 => (IF 2 <= n THEN n - 1 ELSE 0) # 0
    OBVIOUS
  <2>2. Len(ips) # 1 => Len(SubSeq(ips, 2, Len(ips))) # 0
    BY <1>2, <1>4, <2>1, Zenon
  <2> QED
    BY <1>3, <2>2, EmptySeq
<1>6. instances[ips[1]] \in Answers
  BY <1>1, <1>3
<1> QED
  BY <1>1, <1>3, <1>5, <1>6 DEF Infos

\* The stack with the addresses to refresh.
LEMMA RefreshStack ==
  ASSUME TypeOK, NEW expired \in SUBSET IPs, NEW order \in Orders(expired)
  PROVE  /\ toLookupIPs \o order \in Seq(IPs)
         /\ \A ip \in IPs : CountIn(toLookupIPs \o order, {ip})
                            = CountIn(toLookupIPs, {ip}) + Flag(ip, expired)
<1>1. IsFiniteSet(expired)
  BY IPsAssumption, FS_Subset
<1>2. order \in Seq(expired) /\ \A ip : CountIn(order, {ip}) = Flag(ip, expired)
  BY <1>1, CountOrder
<1>3. order \in Seq(IPs) /\ toLookupIPs \in Seq(IPs)
  BY <1>2, SeqMonotonic DEF TypeOK
<1> QED
  BY <1>2, <1>3, CountConcat, ConcatProperties

LEMMA UpdateCacheType ==
  ASSUME TypeOK, NEW ip \in IPs, NEW instance \in Answers, UpdateCache(ip, instance)
  PROVE  /\ cache' \in [IPs -> Answers \cup {Miss}]
         /\ statsCachePositive' \in Int /\ statsCacheNegative' \in Int
  BY DEF TypeOK, UpdateCache

LEMMA ControlNext == ControlOK /\ [Next]_vars => ControlOK'
<1> SUFFICES ASSUME ControlOK, [Next]_vars PROVE ControlOK'
  OBVIOUS
<1> USE DEF cacheVars, lookupVars, returnVars, ldVars, boundVars, stopVars
<1>1. ASSUME NEW ip \in IPs, Ask(ip) PROVE ControlOK'
  <2>1. /\ ips' \in Seq(IPs) /\ ips' # <<>> /\ instances' = instances
        /\ timer' \in BOOLEAN /\ ldpc' \in {"collect", "limit"}
        /\ ldpc' = "limit" => ~timer'
    BY <1>1, ReceiveIPControl DEF Ask
  <2>2. asked' \in 0..MaxAsked
    BY <1>1, BoundsAssumption DEF Ask, ControlOK, TypeOK
  <2> QED
    BY <1>1, <2>1, <2>2 DEF Ask, ControlOK, TypeOK
<1>2. CASE BatchTimer
  BY <1>2 DEF BatchTimer, ControlOK, TypeOK
<1>3. CASE Lookup
  BY <1>3 DEF Lookup, ControlOK, TypeOK
<1>4. CASE DispatcherReturn
  BY <1>4 DEF DispatcherReturn, ControlOK, TypeOK
<1>5. CASE ReturnInfo
  <2>1. /\ toReturnInfos' \in Seq(Infos) /\ toReturnInfo' \in Infos \cup {NoInfo}
        /\ toLookupIPs' \in Seq(IPs) /\ toLookupIP' \in IPs \cup {None}
    BY <1>5, ReturnRefilled, LookupRefilled DEF ReturnInfo, ControlOK, TypeOK
  <2> QED
    BY <1>5, <2>1 DEF ReturnInfo, ControlOK, TypeOK
<1>6. CASE RunLookup
  <2>1. /\ ips' \in Seq(IPs) /\ ips' # <<>> /\ instances' = instances
        /\ timer' \in BOOLEAN /\ ldpc' \in {"collect", "limit"}
        /\ ldpc' = "limit" => ~timer'
    BY <1>6, ReceiveIPControl DEF RunLookup, ControlOK, TypeOK
  <2>2. /\ toReturnInfos' \in Seq(Infos) /\ toReturnInfo' \in Infos \cup {NoInfo}
        /\ toLookupIPs' \in Seq(IPs) /\ toLookupIP' \in IPs \cup {None}
    BY <1>6, ReturnRefilled, LookupRefilled DEF RunLookup, ControlOK, TypeOK
  <2> QED
    BY <1>6, <2>1, <2>2 DEF RunLookup, ControlOK, TypeOK
<1>7. CASE handleInstanceInfo
  <2>1. PICK ip, instance, stack :
            /\ ip = ips[1] /\ instance = instances[ips[1]]
            /\ stack = Append(toReturnInfos, [ip |-> ip, instance |-> instance])
    OBVIOUS
  <2>2. /\ ips # <<>> /\ ip \in IPs /\ instance \in Answers
        /\ [ip |-> ip, instance |-> instance] \in Infos
        /\ ips' \in Seq(IPs) /\ (Len(ips) # 1 => ips' # <<>>)
    BY <1>7, <2>1, NextResult DEF handleInstanceInfo
  <2>3. stack \in Seq(Infos)
    BY <2>1, <2>2, AppendProperties DEF ControlOK, TypeOK
  <2>4. /\ cache' \in [IPs -> Answers \cup {Miss}]
        /\ statsCachePositive' \in Int /\ statsCacheNegative' \in Int
    BY <1>7, <2>1, <2>2, UpdateCacheType DEF handleInstanceInfo, ControlOK
  <2>5. /\ toReturnInfos' \in Seq(Infos) /\ toReturnInfo' \in Infos \cup {NoInfo}
    BY <1>7, <2>1, <2>3, ReturnRefilled DEF handleInstanceInfo, ControlOK, TypeOK
  <2>6. toLookupIPs' \in Seq(IPs) /\ toLookupIP' \in IPs \cup {None}
    BY <1>7, LookupRefilled DEF handleInstanceInfo, ControlOK, TypeOK
  <2>7. /\ ldpc' \in {"collect", "send"} /\ (ldpc' = "send" => ips' # <<>>)
        /\ timer' = timer /\ ~timer /\ instances' \in [IPs -> Answers]
    BY <1>7, <2>2 DEF handleInstanceInfo, ControlOK, TypeOK, NoInstances, Answers
  <2> QED
    BY <1>7, <2>2, <2>4, <2>5, <2>6, <2>7 DEF handleInstanceInfo, ControlOK, TypeOK
<1>8. ASSUME NEW idle \in SUBSET IPs, NEW expired \in SUBSET IPs, doRefresh(idle, expired)
      PROVE  ControlOK'
  <2>1. PICK order \in Orders(expired) : RefillLookup(toLookupIP, toLookupIPs \o order)
    BY <1>8 DEF doRefresh
  <2>2. toLookupIPs' \in Seq(IPs) /\ toLookupIP' \in IPs \cup {None}
    BY <2>1, RefreshStack, LookupRefilled DEF ControlOK, TypeOK
  <2>3. toReturnInfos' \in Seq(Infos) /\ toReturnInfo' \in Infos \cup {NoInfo}
    BY <1>8, ReturnRefilled DEF doRefresh, ControlOK, TypeOK
  <2>4. /\ Cardinality({ip \in idle : cache[ip] = NoInstance}) \in Nat
        /\ Cardinality({ip \in idle : cache[ip] # NoInstance}) \in Nat
    BY IPsAssumption, FS_Subset, FS_CardinalityType
  <2>5. /\ statsCachePositive' \in Int /\ statsCacheNegative' \in Int
        /\ ticks' \in 0..MaxTicks /\ cache' \in [IPs -> Answers \cup {Miss}]
    BY <1>8, <2>4, BoundsAssumption DEF doRefresh, ControlOK, TypeOK
  <2> QED
    BY <1>8, <2>2, <2>3, <2>5 DEF doRefresh, ControlOK, TypeOK
<1>9. CASE Cancel
  BY <1>9 DEF Cancel, ControlOK, TypeOK
<1>10. CASE RunStops \/ RunReturns
  BY <1>10 DEF RunStops, RunReturns, ControlOK, TypeOK
<1>11. CASE UNCHANGED vars
  BY <1>11 DEF vars, ControlOK, TypeOK
<1> QED
  BY <1>1, <1>2, <1>3, <1>4, <1>5, <1>6, <1>7, <1>8, <1>9, <1>10, <1>11, Zenon DEF Next

-----------------------------------------------------------------------------
(* The statistics of the cache                                             *)

\* The cache changes when a result is received and when entries are dropped.
LEMMA CacheSteps ==
  ASSUME ControlOK, [Next]_vars
  PROVE  \/ UNCHANGED cacheVars
         \/ \E ip \in IPs, instance \in Answers : UpdateCache(ip, instance)
         \/ \E idle, expired \in SUBSET IPs : doRefresh(idle, expired)
<1>1. ASSUME NEW ip \in IPs, Ask(ip) PROVE UNCHANGED cacheVars
  BY <1>1 DEF Ask
<1>2. CASE BatchTimer \/ Lookup \/ DispatcherReturn \/ ReturnInfo \/ RunLookup
  BY <1>2 DEF BatchTimer, Lookup, DispatcherReturn, ReturnInfo, RunLookup
<1>3. CASE Cancel \/ RunStops \/ RunReturns \/ UNCHANGED vars
  BY <1>3 DEF Cancel, RunStops, RunReturns, vars
<1>4. CASE handleInstanceInfo
  <2>1. ips[1] \in IPs /\ instances[ips[1]] \in Answers
    BY <1>4, NextResult DEF handleInstanceInfo
  <2>2. UpdateCache(ips[1], instances[ips[1]])
    BY <1>4 DEF handleInstanceInfo
  <2> QED
    BY <2>1, <2>2
<1> QED
  BY <1>1, <1>2, <1>3, <1>4, Zenon DEF Next

Positive == {ip \in IPs : cache[ip] \in Instances}
Negative == {ip \in IPs : cache[ip] = NoInstance}

LEMMA EntriesFinite ==
  /\ IsFiniteSet(Positive) /\ Cardinality(Positive) \in Nat
  /\ IsFiniteSet(Negative) /\ Cardinality(Negative) \in Nat
<1>1. IsFiniteSet(Positive) /\ IsFiniteSet(Negative)
  BY IPsAssumption, FS_Subset DEF Positive, Negative
<1> QED
  BY <1>1, FS_CardinalityType

LEMMA UpdateStats ==
  ASSUME TypeOK, StatsExact, NEW ip \in IPs, NEW instance \in Answers, UpdateCache(ip, instance)
  PROVE  StatsExact'
<1>1. /\ statsCachePositive = Cardinality(Positive) /\ statsCacheNegative = Cardinality(Negative)
      /\ cache \in [IPs -> Answers \cup {Miss}]
  BY DEF StatsExact, Positive, Negative, TypeOK
<1>2. CASE cache[ip] \in Instances
  <2>1. Positive' = Positive /\ Negative' = Negative
    BY <1>1, <1>2, ValuesAssumption DEF UpdateCache, Positive, Negative, Answers
  <2>2. statsCachePositive' = statsCachePositive /\ statsCacheNegative' = statsCacheNegative
    BY <1>1, <1>2, ValuesAssumption, EntriesFinite DEF UpdateCache
  <2> QED
    BY <1>1, <2>1, <2>2 DEF StatsExact, Positive, Negative
<1>3. CASE cache[ip] = NoInstance /\ instance = NoInstance
  <2>1. Positive' = Positive /\ Negative' = Negative
    BY <1>1, <1>3, ValuesAssumption DEF UpdateCache, Positive, Negative, Answers
  <2>2. statsCachePositive' = statsCachePositive /\ statsCacheNegative' = statsCacheNegative
    BY <1>1, <1>3, ValuesAssumption, EntriesFinite DEF UpdateCache
  <2> QED
    BY <1>1, <2>1, <2>2 DEF StatsExact, Positive, Negative
<1>4. CASE cache[ip] = NoInstance /\ instance # NoInstance
  <2>1. /\ Positive' = Positive \cup {ip} /\ ip \notin Positive
        /\ Negative' = Negative \ {ip} /\ ip \in Negative
    BY <1>1, <1>4, ValuesAssumption DEF UpdateCache, Positive, Negative, Answers
  <2>2. /\ statsCachePositive' = statsCachePositive + 1
        /\ statsCacheNegative' = statsCacheNegative - 1
    BY <1>1, <1>4, ValuesAssumption, EntriesFinite DEF UpdateCache
  <2>3. Cardinality(Positive') = Cardinality(Positive) + 1
    BY <2>1, EntriesFinite, FS_AddElement
  <2>4. Cardinality(Negative') = Cardinality(Negative) - 1
    BY <2>1, EntriesFinite, FS_RemoveElement
  <2> QED
    BY <1>1, <2>2, <2>3, <2>4 DEF StatsExact, Positive, Negative
<1>5. CASE cache[ip] = Miss /\ instance = NoInstance
  <2>1. Positive' = Positive /\ Negative' = Negative \cup {ip} /\ ip \notin Negative
    BY <1>1, <1>5, ValuesAssumption DEF UpdateCache, Positive, Negative, Answers
  <2>2. statsCachePositive' = statsCachePositive /\ statsCacheNegative' = statsCacheNegative + 1
    BY <1>1, <1>5, ValuesAssumption, EntriesFinite DEF UpdateCache
  <2>3. Cardinality(Negative') = Cardinality(Negative) + 1
    BY <2>1, EntriesFinite, FS_AddElement
  <2> QED
    BY <1>1, <2>1, <2>2, <2>3 DEF StatsExact, Positive, Negative
<1>6. CASE cache[ip] = Miss /\ instance # NoInstance
  <2>1. Positive' = Positive \cup {ip} /\ ip \notin Positive /\ Negative' = Negative
    BY <1>1, <1>6, ValuesAssumption DEF UpdateCache, Positive, Negative, Answers
  <2>2. statsCachePositive' = statsCachePositive + 1 /\ statsCacheNegative' = statsCacheNegative
    BY <1>1, <1>6, ValuesAssumption, EntriesFinite DEF UpdateCache
  <2>3. Cardinality(Positive') = Cardinality(Positive) + 1
    BY <2>1, EntriesFinite, FS_AddElement
  <2> QED
    BY <1>1, <2>1, <2>2, <2>3 DEF StatsExact, Positive, Negative
<1> QED
  BY <1>1, <1>2, <1>3, <1>4, <1>5, <1>6 DEF Answers

LEMMA RefreshStats ==
  ASSUME TypeOK, StatsExact, NEW idle \in SUBSET IPs, NEW expired \in SUBSET IPs,
         doRefresh(idle, expired)
  PROVE  StatsExact'
<1>1. /\ statsCachePositive = Cardinality(Positive) /\ statsCacheNegative = Cardinality(Negative)
      /\ cache \in [IPs -> Answers \cup {Miss}] /\ \A ip \in idle : cache[ip] # Miss
      /\ cache' = [ip \in IPs |-> IF ip \in idle THEN Miss ELSE cache[ip]]
  BY DEF StatsExact, Positive, Negative, TypeOK, doRefresh
<1>2. /\ Positive' = Positive \ idle
      /\ {ip \in idle : cache[ip] # NoInstance} = Positive \cap idle
  BY <1>1, ValuesAssumption DEF Positive, Answers
<1>3. /\ Negative' = Negative \ idle
      /\ {ip \in idle : cache[ip] = NoInstance} = Negative \cap idle
  BY <1>1, ValuesAssumption DEF Negative
<1>4. Cardinality(Positive') = statsCachePositive - Cardinality(Positive \cap idle)
  BY <1>1, <1>2, EntriesFinite, FS_Difference
<1>5. Cardinality(Negative') = statsCacheNegative - Cardinality(Negative \cap idle)
  BY <1>1, <1>3, EntriesFinite, FS_Difference
<1>6. /\ statsCachePositive' = statsCachePositive - Cardinality(Positive \cap idle)
      /\ statsCacheNegative' = statsCacheNegative - Cardinality(Negative \cap idle)
  BY <1>2, <1>3 DEF doRefresh
<1> QED
  BY <1>4, <1>5, <1>6 DEF StatsExact, Positive, Negative

LEMMA InitStats == Init => StatsExact
<1> SUFFICES ASSUME Init PROVE StatsExact
  OBVIOUS
<1>1. {ip \in IPs : cache[ip] \in Instances} = {} /\ {ip \in IPs : cache[ip] = NoInstance} = {}
  BY ValuesAssumption DEF Init
<1> QED
  BY <1>1, FS_EmptySet DEF Init, StatsExact

LEMMA StatsNext ==
  ASSUME ControlOK, StatsExact, [Next]_vars
  PROVE  StatsExact'
<1>1. CASE UNCHANGED cacheVars
  BY <1>1 DEF cacheVars, StatsExact
<1> QED
  BY <1>1, CacheSteps, UpdateStats, RefreshStats DEF ControlOK

-----------------------------------------------------------------------------
(* What an address is owed                                                 *)

Lookups(ip) == CountIn(toLookupIPs, {ip}) + Flag(toLookupIP, {ip})
Batched(ip) == CountIn(ips, {ip})
Returns(ip) == CountIn(toReturnInfos, About(ip)) + Flag(toReturnInfo, About(ip))

LEMMA TotalTypes ==
  ASSUME TypeOK, NEW ip
  PROVE  Lookups(ip) \in Nat /\ Batched(ip) \in Nat /\ Returns(ip) \in Nat
  BY CountType, FlagType DEF TypeOK, Lookups, Batched, Returns

\* What an address is owed is in these three places.
OwedSum == Owed = [ip \in IPs |-> Lookups(ip) + Batched(ip) + Returns(ip)]

LEMMA OwedAdds == TypeOK => OwedSum
<1> SUFFICES ASSUME TypeOK, NEW ip \in IPs
             PROVE  Count(toLookupIPs, ip) + (IF toLookupIP = ip THEN 1 ELSE 0) + Count(ips, ip)
                    + Cardinality({k \in DOMAIN toReturnInfos : toReturnInfos[k].ip = ip})
                    + (IF toReturnInfo.ip = ip THEN 1 ELSE 0)
                    = Lookups(ip) + Batched(ip) + Returns(ip)
  BY DEF OwedSum, Owed
<1>1. /\ toLookupIPs \in Seq(IPs) /\ ips \in Seq(IPs) /\ toReturnInfos \in Seq(Infos)
      /\ toReturnInfo \in Infos \cup {NoInfo}
  BY DEF TypeOK
<1>2. Count(toLookupIPs, ip) = CountIn(toLookupIPs, {ip}) /\ Count(ips, ip) = CountIn(ips, {ip})
  <2>1. \A s \in Seq(IPs) : {k \in DOMAIN s : s[k] = ip} = Spots(s, {ip})
    BY LenProperties DEF Spots
  <2> QED
    BY <1>1, <2>1 DEF Count, CountIn
<1>3. Cardinality({k \in DOMAIN toReturnInfos : toReturnInfos[k].ip = ip})
      = CountIn(toReturnInfos, About(ip))
  <2>1. {k \in DOMAIN toReturnInfos : toReturnInfos[k].ip = ip} = Spots(toReturnInfos, About(ip))
    BY <1>1, LenProperties, ElementOfSeq DEF Spots, About
  <2> QED
    BY <2>1 DEF CountIn
<1>4. (IF toLookupIP = ip THEN 1 ELSE 0) = Flag(toLookupIP, {ip})
  BY DEF Flag
<1>5. (IF toReturnInfo.ip = ip THEN 1 ELSE 0) = Flag(toReturnInfo, About(ip))
  <2>1. NoInfo.ip # ip
    BY ValuesAssumption DEF NoInfo
  <2> QED
    BY <1>1, <2>1, NoInfoIsNone DEF Flag, About
<1>6. /\ CountIn(toLookupIPs, {ip}) \in Nat /\ CountIn(ips, {ip}) \in Nat
      /\ CountIn(toReturnInfos, About(ip)) \in Nat
      /\ Flag(toLookupIP, {ip}) \in Nat /\ Flag(toReturnInfo, About(ip)) \in Nat
  BY <1>1, CountType, FlagType
<1> QED
  BY <1>2, <1>3, <1>4, <1>5, <1>6 DEF Lookups, Batched, Returns

LEMMA OwedIs == TypeOK => Owed = [ip \in IPs |-> Lookups(ip) + Batched(ip) + Returns(ip)]
  BY OwedAdds DEF OwedSum

LEMMA OwedWillBe ==
  TypeOK' => Owed' = [ip \in IPs |-> Lookups(ip)' + Batched(ip)' + Returns(ip)']
<1>1. TypeOK' => OwedSum'
  BY OwedAdds, PTL
<1> QED
  BY <1>1 DEF OwedSum

\* What the refills leave of the counts.
LEMMA LookupsAfter ==
  ASSUME NEW stack \in Seq(IPs), NEW offered \in IPs \cup {None},
         RefillLookup(offered, stack), NEW ip \in IPs
  PROVE  Lookups(ip)' = CountIn(stack, {ip}) + Flag(offered, {ip})
  BY LookupRefilled DEF Lookups

LEMMA ReturnsAfter ==
  ASSUME NEW stack \in Seq(Infos), NEW offered \in Infos \cup {NoInfo},
         RefillReturn(offered, stack), NEW ip \in IPs
  PROVE  Returns(ip)' = CountIn(stack, About(ip)) + Flag(offered, About(ip))
  BY ReturnRefilled DEF Returns

\* A refill alone changes nothing.
LEMMA LookupsKeep ==
  ASSUME TypeOK, RefillLookup(toLookupIP, toLookupIPs), NEW ip \in IPs
  PROVE  Lookups(ip)' = Lookups(ip)
  BY LookupsAfter DEF TypeOK, Lookups

LEMMA ReturnsKeep ==
  ASSUME TypeOK, RefillReturn(toReturnInfo, toReturnInfos), NEW ip \in IPs
  PROVE  Returns(ip)' = Returns(ip)
  BY ReturnsAfter DEF TypeOK, Returns

LEMMA BatchedAfter ==
  ASSUME TypeOK, NEW new \in IPs, ReceiveIP(new), NEW ip \in IPs
  PROVE  Batched(ip)' = Batched(ip) + Flag(new, {ip})
<1>1. ips' = Append(ips, new) /\ ips \in Seq(IPs)
  BY DEF ReceiveIP, TypeOK
<1> QED
  BY <1>1, CountAppend DEF Batched

\* Nothing is owed that was not, and nothing is answered.
LEMMA OwedKeeps ==
  ASSUME TypeOK, TypeOK',
         \A ip \in IPs : Lookups(ip)' + Batched(ip)' + Returns(ip)'
                         = Lookups(ip) + Batched(ip) + Returns(ip)
  PROVE  Owed' = Owed
  BY OwedIs, OwedWillBe

-----------------------------------------------------------------------------
(* The steps of the provider as steps of CachedInstances                   *)

LEMMA AskRequests ==
  ASSUME TypeOK, TypeOK', NEW new \in IPs, Ask(new)
  PROVE  Contract!Request(new)
<1>1. UNCHANGED <<cache, toLookupIPs, toLookupIP, toReturnInfos, toReturnInfo>> /\ ReceiveIP(new)
  BY DEF Ask, cacheVars, lookupVars, returnVars
<1>2. \A ip \in IPs : /\ Lookups(ip)' = Lookups(ip) /\ Returns(ip)' = Returns(ip)
                      /\ Batched(ip)' = Batched(ip) + (IF ip = new THEN 1 ELSE 0)
  <2>1. \A ip \in IPs : Lookups(ip)' = Lookups(ip) /\ Returns(ip)' = Returns(ip)
    BY <1>1 DEF Lookups, Returns
  <2>2. \A ip \in IPs : Batched(ip)' = Batched(ip) + Flag(new, {ip})
    BY <1>1, BatchedAfter
  <2> QED
    BY <2>1, <2>2 DEF Flag
<1>3. \A ip \in IPs : Lookups(ip) \in Nat /\ Batched(ip) \in Nat /\ Returns(ip) \in Nat
  BY TotalTypes
<1>4. Owed' = [Owed EXCEPT ![new] = @ + 1]
  BY <1>2, <1>3, OwedIs, OwedWillBe
<1> QED
  BY <1>1, <1>4 DEF Contract!Request

LEMMA ReturnAnswers ==
  ASSUME TypeOK, TypeOK', ReturnInfo
  PROVE  \E ip \in IPs : Contract!Answer(ip)
<1>1. /\ toReturnInfo \in Infos /\ toReturnInfos \in Seq(Infos)
      /\ RefillReturn(NoInfo, toReturnInfos) /\ RefillLookup(toLookupIP, toLookupIPs)
      /\ UNCHANGED <<cache, ips>>
  BY DEF ReturnInfo, TypeOK, cacheVars, ldVars
<1>2. PICK new : new = toReturnInfo.ip
  OBVIOUS
<1>3. new \in IPs
  BY <1>1, <1>2 DEF Infos
<1>4. \A ip \in IPs : /\ Lookups(ip)' = Lookups(ip) /\ Batched(ip)' = Batched(ip)
                      /\ Returns(ip) = Returns(ip)' + (IF ip = new THEN 1 ELSE 0)
                      /\ Returns(ip)' \in Nat
  <2> SUFFICES ASSUME NEW ip \in IPs
               PROVE  /\ Lookups(ip)' = Lookups(ip) /\ Batched(ip)' = Batched(ip)
                      /\ Returns(ip) = Returns(ip)' + (IF ip = new THEN 1 ELSE 0)
                      /\ Returns(ip)' \in Nat
    OBVIOUS
  <2>1. Lookups(ip)' = Lookups(ip) /\ Batched(ip)' = Batched(ip)
    BY <1>1, LookupsKeep DEF Batched
  <2>2. Returns(ip)' = CountIn(toReturnInfos, About(ip)) + Flag(NoInfo, About(ip))
    BY <1>1, ReturnsAfter
  <2>3. Flag(NoInfo, About(ip)) = 0 /\ CountIn(toReturnInfos, About(ip)) \in Nat
    BY <1>1, NoInfoIsNone, CountType
  <2>4. Flag(toReturnInfo, About(ip)) = IF ip = new THEN 1 ELSE 0
    BY <1>1, <1>2 DEF Flag, About
  <2>5. Returns(ip) = CountIn(toReturnInfos, About(ip)) + Flag(toReturnInfo, About(ip))
    BY DEF Returns
  <2> QED
    BY <2>1, <2>2, <2>3, <2>4, <2>5
<1>5. \A ip \in IPs : Lookups(ip) \in Nat /\ Batched(ip) \in Nat /\ Returns(ip) \in Nat
  BY TotalTypes
<1>6. Owed' = [Owed EXCEPT ![new] = @ - 1] /\ Owed[new] > 0
  BY <1>3, <1>4, <1>5, OwedIs, OwedWillBe
<1> QED
  BY <1>1, <1>3, <1>6 DEF Contract!Answer

LEMMA LookupStutters ==
  ASSUME TypeOK, TypeOK', RunLookup
  PROVE  UNCHANGED <<cache, Owed>>
<1>1. /\ toLookupIP \in IPs /\ toLookupIPs \in Seq(IPs) /\ ReceiveIP(toLookupIP)
      /\ RefillLookup(None, toLookupIPs) /\ RefillReturn(toReturnInfo, toReturnInfos)
      /\ UNCHANGED cache
  BY DEF RunLookup, TypeOK, cacheVars
<1>2. \A ip \in IPs : Lookups(ip)' + Batched(ip)' + Returns(ip)'
                      = Lookups(ip) + Batched(ip) + Returns(ip)
  <2> SUFFICES ASSUME NEW ip \in IPs
               PROVE  Lookups(ip)' + Batched(ip)' + Returns(ip)'
                      = Lookups(ip) + Batched(ip) + Returns(ip)
    OBVIOUS
  <2>1. Returns(ip)' = Returns(ip) /\ Batched(ip)' = Batched(ip) + Flag(toLookupIP, {ip})
    BY <1>1, ReturnsKeep, BatchedAfter
  <2>2. Lookups(ip)' = CountIn(toLookupIPs, {ip}) + Flag(None, {ip})
    BY <1>1, LookupsAfter
  <2>3. Flag(None, {ip}) = 0 /\ Flag(toLookupIP, {ip}) \in Nat
    BY ValuesAssumption DEF Flag
  <2>4. /\ CountIn(toLookupIPs, {ip}) \in Nat /\ Batched(ip) \in Nat /\ Returns(ip) \in Nat
    BY <1>1, CountType, TotalTypes
  <2> QED
    BY <2>1, <2>2, <2>3, <2>4 DEF Lookups
<1> QED
  BY <1>1, <1>2, OwedKeeps

LEMMA InfoLearns ==
  ASSUME ControlOK, TypeOK', handleInstanceInfo
  PROVE  \E ip \in IPs, instance \in Answers : Contract!Learn(ip, instance)
<1>1. PICK new, instance, info, stack :
          /\ new = ips[1] /\ instance = instances[ips[1]]
          /\ info = [ip |-> new, instance |-> instance]
          /\ stack = Append(toReturnInfos, info)
  OBVIOUS
<1>2. /\ new \in IPs /\ instance \in Answers /\ info \in Infos /\ info.ip = new /\ ips # <<>>
  BY <1>1, NextResult DEF handleInstanceInfo
<1>3. /\ TypeOK /\ ips \in Seq(IPs) /\ toReturnInfos \in Seq(Infos) /\ stack \in Seq(Infos)
      /\ toReturnInfo \in Infos \cup {NoInfo} /\ cache \in [IPs -> Answers \cup {Miss}]
  BY <1>1, <1>2, AppendProperties DEF ControlOK, TypeOK
<1>4. /\ UpdateCache(new, instance) /\ RefillReturn(toReturnInfo, stack)
      /\ RefillLookup(toLookupIP, toLookupIPs) /\ ips' = SubSeq(ips, 2, Len(ips))
  BY <1>1 DEF handleInstanceInfo
<1>5. \A ip \in IPs : /\ Lookups(ip)' + Batched(ip)' + Returns(ip)'
                         = Lookups(ip) + Batched(ip) + Returns(ip)
                      /\ ip = new => Batched(ip) > 0
  <2> SUFFICES ASSUME NEW ip \in IPs
               PROVE  /\ Lookups(ip)' + Batched(ip)' + Returns(ip)'
                         = Lookups(ip) + Batched(ip) + Returns(ip)
                      /\ ip = new => Batched(ip) > 0
    OBVIOUS
  <2>1. Lookups(ip)' = Lookups(ip)
    BY <1>3, <1>4, LookupsKeep
  <2>2. Batched(ip) = Flag(new, {ip}) + Batched(ip)'
    BY <1>1, <1>2, <1>3, <1>4, CountTail DEF Batched
  <2>3. Returns(ip)' = CountIn(stack, About(ip)) + Flag(toReturnInfo, About(ip))
    BY <1>3, <1>4, ReturnsAfter
  <2>4. CountIn(stack, About(ip)) = CountIn(toReturnInfos, About(ip)) + Flag(info, About(ip))
    BY <1>1, <1>2, <1>3, CountAppend
  <2>5. Flag(info, About(ip)) = Flag(new, {ip})
    BY <1>2 DEF Flag, About
  <2>6. /\ Lookups(ip) \in Nat /\ Batched(ip)' \in Nat /\ Flag(new, {ip}) \in Nat
        /\ CountIn(toReturnInfos, About(ip)) \in Nat /\ Flag(toReturnInfo, About(ip)) \in Nat
    <3>1. Batched(ip)' \in Nat
      BY CountType DEF TypeOK, Batched
    <3> QED
      BY <1>3, <3>1, TotalTypes, CountType, FlagType
  <2>7. Flag(new, {new}) = 1
    BY DEF Flag
  <2> QED
    BY <2>1, <2>2, <2>3, <2>4, <2>5, <2>6, <2>7 DEF Returns
<1>6. Owed' = Owed
  BY <1>3, <1>5, OwedKeeps
<1>7. Owed[new] > 0
  BY <1>2, <1>3, <1>5, OwedIs, TotalTypes
<1>8. \E kept \in Answers : cache' = [cache EXCEPT ![new] = kept]
  BY <1>2, <1>3, <1>4 DEF UpdateCache, Answers
<1> QED
  BY <1>2, <1>6, <1>7, <1>8 DEF Contract!Learn

LEMMA RefreshTicks ==
  ASSUME TypeOK, TypeOK', NEW idle \in SUBSET IPs, NEW expired \in SUBSET IPs,
         doRefresh(idle, expired)
  PROVE  Contract!Tick(idle, expired)
<1>1. PICK order \in Orders(expired) : RefillLookup(toLookupIP, toLookupIPs \o order)
  BY DEF doRefresh
<1>2. RefillReturn(toReturnInfo, toReturnInfos) /\ UNCHANGED ips /\ toLookupIP \in IPs \cup {None}
  BY DEF doRefresh, ldVars, TypeOK
<1>3. \A ip \in IPs : /\ Lookups(ip)' = Lookups(ip) + Flag(ip, expired)
                      /\ Batched(ip)' = Batched(ip) /\ Returns(ip)' = Returns(ip)
  <2> SUFFICES ASSUME NEW ip \in IPs
               PROVE  /\ Lookups(ip)' = Lookups(ip) + Flag(ip, expired)
                      /\ Batched(ip)' = Batched(ip) /\ Returns(ip)' = Returns(ip)
    OBVIOUS
  <2>1. Batched(ip)' = Batched(ip) /\ Returns(ip)' = Returns(ip)
    BY <1>2, ReturnsKeep DEF Batched
  <2>2. /\ toLookupIPs \o order \in Seq(IPs)
        /\ CountIn(toLookupIPs \o order, {ip}) = CountIn(toLookupIPs, {ip}) + Flag(ip, expired)
    BY RefreshStack
  <2>3. Lookups(ip)' = CountIn(toLookupIPs \o order, {ip}) + Flag(toLookupIP, {ip})
    BY <1>1, <1>2, <2>2, LookupsAfter
  <2>4. /\ CountIn(toLookupIPs, {ip}) \in Nat /\ Flag(ip, expired) \in Nat
        /\ Flag(toLookupIP, {ip}) \in Nat
    BY CountType, FlagType DEF TypeOK
  <2> QED
    BY <2>1, <2>2, <2>3, <2>4 DEF Lookups
<1>4. \A ip \in IPs : Lookups(ip) \in Nat /\ Batched(ip) \in Nat /\ Returns(ip) \in Nat
  BY TotalTypes
<1>5. Owed' = [ip \in IPs |-> IF ip \in expired THEN Owed[ip] + 1 ELSE Owed[ip]]
  BY <1>3, <1>4, OwedIs, OwedWillBe DEF Flag
<1>6. /\ idle \cap expired = {} /\ \A ip \in idle \cup expired : cache[ip] # Miss
      /\ cache' = [ip \in IPs |-> IF ip \in idle THEN Miss ELSE cache[ip]]
  BY DEF doRefresh
<1> QED
  BY <1>5, <1>6 DEF Contract!Tick

LEMMA InitImplements == Init => Contract!InstancesInit
<1> SUFFICES ASSUME Init PROVE Contract!InstancesInit
  OBVIOUS
<1>1. TypeOK
  BY InitControl DEF ControlOK
<1>2. \A ip \in IPs : Lookups(ip) = 0 /\ Batched(ip) = 0 /\ Returns(ip) = 0
  BY CountEmpty, NoInfoIsNone, ValuesAssumption DEF Init, Lookups, Batched, Returns, Flag
<1>3. Owed = [ip \in IPs |-> 0]
  BY <1>1, <1>2, OwedIs
<1> QED
  BY <1>3 DEF Init, Contract!InstancesInit

LEMMA NextImplements ==
  ASSUME ControlOK, ControlOK', [Next]_vars
  PROVE  [Contract!InstancesNext]_(Contract!instancesVars)
<1>1. TypeOK /\ TypeOK'
  BY DEF ControlOK
<1>2. ASSUME NEW ip \in IPs, Ask(ip) PROVE Contract!InstancesNext
  BY <1>1, <1>2, AskRequests DEF Contract!InstancesNext
<1>3. CASE ReturnInfo
  BY <1>1, <1>3, ReturnAnswers DEF Contract!InstancesNext
<1>4. CASE RunLookup
  BY <1>1, <1>4, LookupStutters DEF Contract!instancesVars
<1>5. CASE handleInstanceInfo
  BY <1>1, <1>5, InfoLearns DEF Contract!InstancesNext, Contract!Answers, Answers
<1>6. ASSUME NEW idle \in SUBSET IPs, NEW expired \in SUBSET IPs, doRefresh(idle, expired)
      PROVE  Contract!InstancesNext
  BY <1>1, <1>6, RefreshTicks DEF Contract!InstancesNext
<1>7. CASE BatchTimer \/ Lookup \/ DispatcherReturn \/ Cancel \/ RunStops \/ RunReturns
           \/ UNCHANGED vars
  <2>1. UNCHANGED <<cache, toLookupIPs, toLookupIP, ips, toReturnInfos, toReturnInfo>>
    BY <1>7 DEF BatchTimer, Lookup, DispatcherReturn, Cancel, RunStops, RunReturns, vars,
                cacheVars, lookupVars, returnVars, ldVars
  <2>2. UNCHANGED <<cache, Owed>>
    BY <2>1 DEF Owed, Count
  <2> QED
    BY <2>2 DEF Contract!instancesVars
<1> QED
  BY <1>2, <1>3, <1>4, <1>5, <1>6, <1>7, Zenon DEF Next

-----------------------------------------------------------------------------
(* The theorems                                                            *)

\* The types of the provider, and that a batch that is closed is not empty:
\* doLookup always has a result to send.
THEOREM BatchesAreNotEmpty == Spec => []ControlOK
  BY InitControl, ControlNext, PTL DEF Spec

\* handleInstanceInfo and doRefresh keep statsCachePositive and
\* statsCacheNegative equal to what the cache holds; the counters never wrap.
THEOREM StatsAreExact == Spec => []StatsExact
<1>1. Init => StatsExact
  BY InitStats
<1>2. ControlOK /\ StatsExact /\ [Next]_vars => StatsExact'
  BY StatsNext
<1> QED
  BY <1>1, <1>2, BatchesAreNotEmpty, PTL DEF Spec

\* A lookup that fails never takes an instance away from the cache.
THEOREM InstancesStayUntilIdle == Spec => PositiveUntilIdle
<1>1. ASSUME ControlOK, [Next]_vars, NEW ip \in IPs, cache[ip] \in Instances
      PROVE  cache'[ip] # NoInstance
  <2>1. cache \in [IPs -> Answers \cup {Miss}] /\ NoInstance \notin Instances /\ Miss # NoInstance
    BY <1>1, ValuesAssumption DEF ControlOK, TypeOK
  <2>2. CASE UNCHANGED cacheVars
    BY <1>1, <2>1, <2>2 DEF cacheVars
  <2>3. ASSUME NEW new \in IPs, NEW instance \in Answers, UpdateCache(new, instance)
        PROVE  cache'[ip] # NoInstance
    BY <1>1, <2>1, <2>3, ValuesAssumption DEF UpdateCache
  <2>4. ASSUME NEW idle \in SUBSET IPs, NEW expired \in SUBSET IPs, doRefresh(idle, expired)
        PROVE  cache'[ip] # NoInstance
    BY <1>1, <2>1, <2>4 DEF doRefresh
  <2> QED
    BY <1>1, <2>2, <2>3, <2>4, CacheSteps
<1>2. ControlOK /\ [Next]_vars =>
          [\A ip \in IPs : cache[ip] \in Instances => cache'[ip] # NoInstance]_vars
  BY <1>1
<1> QED
  BY <1>2, BatchesAreNotEmpty, PTL DEF Spec, PositiveUntilIdle

\* The provider is what CloudHandler takes it to be: an address that is sent
\* to it is owed an answer until the answer is received, and the cache only
\* changes by the outcome of a lookup that is under way, or by a tick.
THEOREM ProviderRefinement == Spec => ImplementsCachedInstances
<1>1. Init => Contract!InstancesInit
  BY InitImplements
<1>2. ControlOK /\ ControlOK' /\ [Next]_vars =>
          [Contract!InstancesNext]_(Contract!instancesVars)
  BY NextImplements
<1> QED
  BY <1>1, <1>2, BatchesAreNotEmpty, PTL
     DEF Spec, ImplementsCachedInstances, Contract!InstancesSpec
=============================================================================
