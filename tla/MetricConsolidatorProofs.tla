---------------------- MODULE MetricConsolidatorProofs ----------------------
(***************************************************************************)
(* Proofs about MetricConsolidator, for any number of receivers, batches   *)
(* and slots and for both of its users.                                    *)
(***************************************************************************)
EXTENDS MetricConsolidator, FiniteSetTheorems, SequenceTheorems, TLAPS

\* The only sequence of length 0 is the empty one.
LEMMA LenZero ==
  ASSUME NEW S, NEW s \in Seq(S)
  PROVE  s = <<>> <=> Len(s) = 0
  BY EmptySeq

(* What Contents makes of the operations on the channel and the slices.    *)

\* An empty slice of maps holds no batch.
LEMMA ContentsEmpty == Contents(<<>>) = {}
  BY DEF Contents

\* Membership in Contents, the form the other lemmas are proved from.
LEMMA ContentsMember ==
  ASSUME NEW s, NEW x
  PROVE  x \in Contents(s) <=> \E i \in 1..Len(s) : x \in s[i]
  BY DEF Contents

\* Sending a map on the channel (or appending it to mms) adds its batches.
LEMMA ContentsAppend ==
  ASSUME NEW S, NEW s \in Seq(S), NEW e \in S
  PROVE  Contents(Append(s, e)) = Contents(s) \cup e
<1> DEFINE t == Append(s, e)
<1>1. /\ Len(t) = Len(s) + 1
      /\ t[Len(s) + 1] = e
      /\ \A i \in 1..Len(s) : t[i] = s[i]
      /\ Len(s) \in Nat
  OBVIOUS
<1> HIDE DEF t
<1>2. ASSUME NEW x \in Contents(t) PROVE x \in Contents(s) \cup e
  BY <1>1, ContentsMember
<1>3. ASSUME NEW x \in Contents(s) \cup e PROVE x \in Contents(t)
  BY <1>1, ContentsMember
<1> QED
  BY <1>2, <1>3 DEF t

\* Receiving from the channel takes the batches of the head out of it.
LEMMA ContentsTail ==
  ASSUME NEW S, NEW s \in Seq(S), s # <<>>
  PROVE  Contents(s) = Head(s) \cup Contents(Tail(s))
<1> DEFINE t == Tail(s)
<1>1. /\ Len(s) \in Nat \ {0}
      /\ Len(t) = Len(s) - 1
      /\ Head(s) = s[1]
      /\ \A i \in 1..Len(t) : t[i] = s[i + 1]
  OBVIOUS
<1> HIDE DEF t
<1>2. ASSUME NEW x \in Contents(s) PROVE x \in Head(s) \cup Contents(t)
  <2>1. PICK i \in 1..Len(s) : x \in s[i]
    BY <1>2, ContentsMember
  <2>2. CASE i = 1
    BY <2>1, <2>2, <1>1
  <2>3. CASE i # 1
    <3>1. /\ i - 1 \in 1..Len(t)
          /\ t[i - 1] = s[i]
      BY <2>3, <1>1
    <3> QED
      BY <2>1, <3>1, ContentsMember
  <2> QED
    BY <2>2, <2>3
<1>3. ASSUME NEW x \in Head(s) \cup Contents(t) PROVE x \in Contents(s)
  <2>1. CASE x \in Head(s)
    <3>1. 1 \in 1..Len(s)
      BY <1>1
    <3> QED
      BY <2>1, <3>1, <1>1, ContentsMember
  <2>2. CASE x \in Contents(t)
    <3>1. PICK i \in 1..Len(t) : x \in t[i]
      BY <2>2, ContentsMember
    <3>2. /\ i + 1 \in 1..Len(s)
          /\ x \in s[i + 1]
      BY <3>1, <1>1
    <3> QED
      BY <3>2, ContentsMember
  <2> QED
    BY <1>3, <2>1, <2>2
<1> QED
  BY <1>2, <1>3 DEF t
-----------------------------------------------------------------------------
(* The inductive invariant.  SlotsConserved is what rules out a blocked    *)
(* send and a Drain that leaves something behind, but counting alone does  *)
(* not survive a step: Control says what each place in Drain, Flush and    *)
(* Fill implies about the slices in hand, Lending that only a receiver     *)
(* between its take and its put holds a map, and Fresh that a batch not    *)
(* yet merged is nowhere else.                                             *)

Control ==
    /\ fpc = "putback" => mms # <<>>
    /\ fpc \notin {"drain", "putback"} => mms = <<>>
    /\ fpc = "fill" => fillLeft > 0
    /\ fpc = "send" => fillLeft = IF fillFirst THEN 0 ELSE Spots
    /\ fpc \notin {"send", "fill"} => fillLeft = 0
    /\ fpc \notin {"send", "fill"} => drained = <<>>
    /\ fpc = "fill" /\ ~fillFirst => drained = <<>>

Lending ==
    \A r \in Receivers : /\ rpc[r] # "put" => mmTo[r] = {}
                         /\ rpc[r] = "idle" => batch[r] = {}
                         /\ rpc[r] # "idle" => \E b \in Batches : batch[r] = {b}

Fresh ==
    \A r \in Receivers :
        /\ batch[r] \cap Accepted = {}
        /\ \A q \in Receivers : q # r => batch[r] \cap batch[q] = {}

SlotInv == TypeOK /\ SlotsConserved /\ Control

BatchInv == Lending /\ Fresh /\ NothingLost
-----------------------------------------------------------------------------
(* Slots.                                                                  *)

\* Some receivers hold a map; how many is a natural number.
LEMMA HoldersCount ==
  /\ IsFiniteSet(Holders)
  /\ Cardinality(Holders) \in Nat
  /\ Cardinality(Holders) = 0 <=> Holders = {}
<1>1. IsFiniteSet(Holders)
  BY ReceiversAssumption, FS_Subset DEF Holders
<1> QED
  BY <1>1, FS_CardinalityType, FS_EmptySet

\* Between two steps of a flush the flusher owes or holds nothing it should
\* not; this is where "we know it will fit exactly" comes from.
LEMMA SlotInvPuts == SlotInv => PutsNeverBlock
<1> SUFFICES ASSUME SlotInv PROVE PutsNeverBlock
  OBVIOUS
<1>1. Len(maps) \in Nat /\ Len(mms) \in Nat /\ fillLeft \in Nat /\ Spots \in Nat
  BY SpotsAssumption DEF SlotInv, TypeOK
<1>2. ASSUME Holders # {} PROVE Len(maps) < Spots
  BY <1>1, <1>2, HoldersCount DEF SlotInv, SlotsConserved
<1>3. ASSUME fpc = "putback" PROVE Len(maps) < Spots
  <2>1. Len(mms) > 0
    BY <1>3 DEF SlotInv, Control, TypeOK
  <2> QED
    BY <1>1, <2>1, HoldersCount DEF SlotInv, SlotsConserved
<1>4. ASSUME fpc = "fill" PROVE Len(maps) < Spots
  BY <1>1, <1>4, HoldersCount DEF SlotInv, SlotsConserved, Control
<1> QED
  BY <1>2, <1>3, <1>4 DEF PutsNeverBlock

\* NewMetricConsolidator leaves the channel full.
LEMMA SlotInvInit == Init => SlotInv
<1> SUFFICES ASSUME Init PROVE SlotInv
  OBVIOUS
<1>1. TypeOK
  <2>1. maps \in [1..Spots -> SUBSET Batches]
    BY DEF Init, NewMetricMap
  <2>2. maps \in Seq(SUBSET Batches)
    BY <2>1, SpotsAssumption
  <2>3. mms \in Seq(SUBSET Batches) /\ drained \in Seq(SUBSET Batches)
    BY EmptySeq DEF Init
  <2>4. /\ rpc \in [Receivers -> {"idle", "take", "put"}]
        /\ batch \in [Receivers -> SUBSET Batches]
        /\ mmTo \in [Receivers -> SUBSET Batches]
    BY DEF Init
  <2>5. /\ fpc \in {"idle", "drain", "putback", "send", "fill", "stopped"}
        /\ fillLeft \in 0..Spots
    BY SpotsAssumption DEF Init
  <2>6. /\ fillFirst \in BOOLEAN
        /\ cancelled \in BOOLEAN
        /\ submitted \in SUBSET Batches
        /\ delivered \in SUBSET Batches
        /\ dropped \in SUBSET Batches
    BY Zenon DEF Init
  <2> QED
    BY <2>2, <2>3, <2>4, <2>5, <2>6, Zenon DEF TypeOK
<1>2. Len(maps) = Spots /\ Holders = {}
  BY SpotsAssumption DEF Init, Holders
<1>3. SlotsConserved
  BY <1>2, FS_EmptySet, SpotsAssumption DEF Init, SlotsConserved
<1>4. Control
  BY DEF Init, Control
<1> QED
  BY <1>1, <1>3, <1>4 DEF SlotInv

\* Every step of the consolidator keeps the slots accounted for.
LEMMA SlotInvNext == SlotInv /\ [Next]_vars => SlotInv'
<1> SUFFICES ASSUME SlotInv, [Next]_vars PROVE SlotInv'
  OBVIOUS
<1> USE SpotsAssumption
<1>1. ASSUME NEW r \in Receivers, NEW b \in Batches, ReceiveCall(r, b)
      PROVE  SlotInv'
  <2>1. TypeOK'
    BY <1>1 DEF SlotInv, TypeOK, ReceiveCall, flusherVars
  <2>2. Holders' = Holders
    BY <1>1 DEF SlotInv, TypeOK, ReceiveCall, Holders
  <2>3. SlotsConserved' /\ Control'
    BY <1>1, <2>2 DEF SlotInv, SlotsConserved, Control, ReceiveCall, flusherVars
  <2> QED
    BY <2>1, <2>3 DEF SlotInv
<1>2. ASSUME NEW r \in Receivers, ReceiveTake(r)
      PROVE  SlotInv'
  <2>1. TypeOK'
    BY <1>2 DEF SlotInv, TypeOK, ReceiveTake, flusherVars
  <2>2. r \notin Holders /\ Holders' = Holders \cup {r}
    BY <1>2 DEF SlotInv, TypeOK, ReceiveTake, Holders
  <2>3. Cardinality(Holders') = Cardinality(Holders) + 1
    BY <2>2, HoldersCount, FS_AddElement
  <2>4. Len(maps') = Len(maps) - 1 /\ Len(maps) \in Nat
    BY <1>2 DEF SlotInv, TypeOK, ReceiveTake
  <2>5. SlotsConserved'
    BY <1>2, <2>3, <2>4, HoldersCount
    DEF SlotInv, TypeOK, SlotsConserved, ReceiveTake, flusherVars
  <2>6. Control'
    BY <1>2 DEF SlotInv, Control, ReceiveTake, flusherVars
  <2> QED
    BY <2>1, <2>5, <2>6 DEF SlotInv
<1>3. ASSUME NEW r \in Receivers, ReceivePut(r)
      PROVE  SlotInv'
  <2>1. TypeOK'
    BY <1>3 DEF SlotInv, TypeOK, ReceivePut, flusherVars
  <2>2. r \in Holders /\ Holders' = Holders \ {r}
    BY <1>3 DEF SlotInv, TypeOK, ReceivePut, Holders
  <2>3. Cardinality(Holders') = Cardinality(Holders) - 1
    BY <2>2, HoldersCount, FS_RemoveElement
  <2>4. Len(maps') = Len(maps) + 1 /\ Len(maps) \in Nat
    BY <1>3 DEF SlotInv, TypeOK, ReceivePut
  <2>5. SlotsConserved'
    BY <1>3, <2>3, <2>4, HoldersCount
    DEF SlotInv, TypeOK, SlotsConserved, ReceivePut, flusherVars
  <2>6. Control'
    BY <1>3 DEF SlotInv, Control, ReceivePut, flusherVars
  <2> QED
    BY <2>1, <2>5, <2>6 DEF SlotInv
<1>4. ASSUME Flusher PROVE SlotInv'
  <2>1. Holders' = Holders
    BY <1>4 DEF Flusher, Tick, Stop, DrainTake, DrainCancel, DrainPutBack, Send,
                SendCancel, FillPut, receiverVars, Holders
  <2>2. ASSUME Tick \/ Stop \/ DrainCancel \/ Send \/ SendCancel PROVE SlotInv'
    <3>1. TypeOK'
      <4>1. Contents(drained) \in SUBSET Batches
        BY DEF SlotInv, TypeOK, Contents
      <4> QED
        <5>1. ASSUME Tick \/ Stop \/ DrainCancel PROVE TypeOK'
          BY <5>1 DEF SlotInv, TypeOK, Tick, Stop, DrainCancel, receiverVars
        <5>2. ASSUME Send PROVE TypeOK'
          BY <4>1, <5>2 DEF SlotInv, TypeOK, Send, AfterSend, receiverVars
        <5>3. ASSUME SendCancel PROVE TypeOK'
          BY <4>1, <5>3 DEF SlotInv, TypeOK, SendCancel, AfterSend, receiverVars
        <5> QED
          BY <2>2, <5>1, <5>2, <5>3
    <3>2. SlotsConserved'
      BY <2>1, <2>2 DEF SlotInv, SlotsConserved, Tick, Stop, DrainCancel, Send,
                        SendCancel
    <3>3. Control'
      BY <2>2 DEF SlotInv, TypeOK, Control, Tick, Stop, DrainCancel, Send, SendCancel,
                  AfterSend
    <3> QED
      BY <3>1, <3>2, <3>3 DEF SlotInv
  <2>3. ASSUME DrainTake PROVE SlotInv'
    <3> DEFINE collected == Append(mms, Head(maps))
    <3>1. /\ Head(maps) \in SUBSET Batches
          /\ Tail(maps) \in Seq(SUBSET Batches)
          /\ collected \in Seq(SUBSET Batches)
          /\ Len(collected) = Len(mms) + 1
          /\ Len(maps') = Len(maps) - 1
          /\ Len(maps) \in Nat \ {0}
          /\ Len(mms) \in Nat
          /\ maps' = Tail(maps)
      BY <2>3 DEF SlotInv, TypeOK, DrainTake
    <3>2. fillLeft = 0 /\ drained = <<>>
      BY <2>3 DEF SlotInv, Control, DrainTake
    <3>3. CASE Len(collected) < Spots
      <4>1. mms' = collected /\ UNCHANGED <<fpc, drained, fillLeft>>
        BY <2>3, <3>3 DEF DrainTake
      <4>2. TypeOK'
        BY <2>3, <3>1, <4>1 DEF SlotInv, TypeOK, DrainTake, receiverVars
      <4>3. SlotsConserved'
        BY <2>1, <3>1, <4>1, HoldersCount DEF SlotInv, TypeOK, SlotsConserved
      <4>4. Control'
        BY <2>3, <4>1 DEF SlotInv, Control, DrainTake
      <4> QED
        BY <4>2, <4>3, <4>4 DEF SlotInv
    <3>4. CASE ~(Len(collected) < Spots)
      <4>1. /\ mms' = <<>>
            /\ drained' = collected
            /\ fillLeft' = Spots
            /\ fpc' = IF fillFirst THEN "fill" ELSE "send"
        BY <2>3, <3>4 DEF DrainTake
      <4>2. TypeOK'
        BY <2>3, <3>1, <4>1 DEF SlotInv, TypeOK, DrainTake, receiverVars
      <4>3. Len(mms') = 0
        BY <4>1
      <4>4. SlotsConserved'
        BY <2>1, <3>1, <3>2, <3>4, <4>1, <4>3, HoldersCount
        DEF SlotInv, TypeOK, SlotsConserved
      <4>5. fillFirst' = fillFirst
        BY <2>3 DEF DrainTake
      <4>6. Control'
        BY <4>1, <4>5, SMT DEF SlotInv, TypeOK, Control
      <4> QED
        BY <4>2, <4>4, <4>6 DEF SlotInv
    <3> QED
      BY <3>3, <3>4
  <2>4. ASSUME DrainPutBack PROVE SlotInv'
    <3>1. mms # <<>>
      BY <2>4 DEF SlotInv, Control, DrainPutBack
    <3>2. /\ Head(mms) \in SUBSET Batches
          /\ mms' \in Seq(SUBSET Batches)
          /\ maps' \in Seq(SUBSET Batches)
          /\ Len(maps') = Len(maps) + 1
          /\ Len(mms') = Len(mms) - 1
          /\ Len(maps) \in Nat
          /\ Len(mms) \in Nat \ {0}
      BY <2>4, <3>1 DEF SlotInv, TypeOK, DrainPutBack
    <3>3. TypeOK'
      BY <2>4, <3>2 DEF SlotInv, TypeOK, DrainPutBack, receiverVars
    <3>4. SlotsConserved'
      BY <2>1, <2>4, <3>2, HoldersCount DEF SlotInv, TypeOK, SlotsConserved, DrainPutBack
    <3>5. Control'
      <4>1. mms' = <<>> <=> Len(mms') = 0
        BY <3>2, LenZero, Zenon
      <4>2. Len(mms) = 1 <=> mms' = <<>>
        BY <3>2, <4>1
      <4> QED
        BY <2>4, <4>2 DEF SlotInv, Control, DrainPutBack
    <3> QED
      BY <3>3, <3>4, <3>5 DEF SlotInv
  <2>5. ASSUME FillPut PROVE SlotInv'
    <3>1. /\ maps' \in Seq(SUBSET Batches)
          /\ Len(maps') = Len(maps) + 1
          /\ Len(maps) \in Nat
          /\ Len(mms) \in Nat
      BY <2>5 DEF SlotInv, TypeOK, FillPut, NewMetricMap
    <3>2. fillLeft \in 1..Spots /\ fillLeft' = fillLeft - 1
      BY <2>5 DEF SlotInv, TypeOK, Control, FillPut
    <3>3. TypeOK'
      BY <2>5, <3>1, <3>2 DEF SlotInv, TypeOK, FillPut, receiverVars
    <3>4. SlotsConserved'
      BY <2>1, <2>5, <3>1, <3>2, HoldersCount
      DEF SlotInv, TypeOK, SlotsConserved, FillPut
    <3>5. Control'
      BY <2>5, <3>2 DEF SlotInv, Control, FillPut
    <3> QED
      BY <3>3, <3>4, <3>5 DEF SlotInv
  <2> QED
    BY <1>4, <2>2, <2>3, <2>4, <2>5 DEF Flusher
<1>5. ASSUME Cancel PROVE SlotInv'
  BY <1>5 DEF SlotInv, TypeOK, SlotsConserved, Control, Holders, Cancel,
              receiverVars, flusherVars
<1>6. ASSUME UNCHANGED vars PROVE SlotInv'
  BY <1>6 DEF SlotInv, TypeOK, SlotsConserved, Control, Holders, vars,
              receiverVars, flusherVars
<1> QED
  BY <1>1, <1>2, <1>3, <1>4, <1>5, <1>6 DEF Next, Receive, Finished

\* The variables keep their types.
THEOREM TypeCorrect == Spec => []TypeOK
<1>1. SlotInv => TypeOK
  BY DEF SlotInv
<1> QED
  BY <1>1, SlotInvInit, SlotInvNext, PTL DEF Spec

\* No interleaving of receivers, Drain, Flush, Fill and cancellation mislays
\* or mints a slot of the channel.
THEOREM SlotsAreConserved == Spec => []SlotsConserved
<1>1. SlotInv => SlotsConserved
  BY DEF SlotInv
<1> QED
  BY <1>1, SlotInvInit, SlotInvNext, PTL DEF Spec

\* The sends on the channel that have no context (a receiver's put, the put
\* back of a cancelled Drain, Fill) always find room.
THEOREM PutsDoNotBlock == Spec => []PutsNeverBlock
  BY SlotInvPuts, SlotInvInit, SlotInvNext, PTL DEF Spec
-----------------------------------------------------------------------------
(* Batches.  One lemma per operation says where the batches are after it.  *)

Borrowed == UNION {mmTo[r] : r \in Receivers}
Submitting == UNION {batch[r] : r \in Receivers}
Snap == Contents(drained)

\* Pending in the terms the lemmas below are about.
LEMMA PendingParts ==
  /\ Pending = Contents(maps) \cup Contents(mms) \cup Borrowed
  /\ Pending' = Contents(maps') \cup Contents(mms') \cup Borrowed'
  BY DEF Pending, Borrowed

\* A receiver taking a map moves batches, and neither adds nor removes one.
LEMMA ReceiveTakeEffect ==
  ASSUME SlotInv, Lending, NEW r \in Receivers, ReceiveTake(r)
  PROVE  Pending' = Pending
<1>1. Contents(maps) = Head(maps) \cup Contents(maps')
  BY ContentsTail DEF ReceiveTake, SlotInv, TypeOK
<1>2. mmTo[r] = {}
  BY DEF Lending, ReceiveTake
<1>3. mmTo' = [mmTo EXCEPT ![r] = Head(maps)] /\ mmTo \in [Receivers -> SUBSET Batches]
  BY DEF ReceiveTake, SlotInv, TypeOK
<1>4. Borrowed' = Borrowed \cup Head(maps)
  BY <1>2, <1>3 DEF Borrowed
<1>5. mms' = mms
  BY DEF ReceiveTake, flusherVars
<1> QED
  BY <1>1, <1>4, <1>5, PendingParts

\* Putting the map back is the step that accepts the batch.
LEMMA ReceivePutEffect ==
  ASSUME SlotInv, NEW r \in Receivers, ReceivePut(r)
  PROVE  Pending' = Pending \cup batch[r]
<1> DEFINE merged == mmTo[r] \cup batch[r]
<1>1. /\ merged \in SUBSET Batches
      /\ maps \in Seq(SUBSET Batches)
      /\ maps' = Append(maps, merged)
  BY DEF ReceivePut, SlotInv, TypeOK
<1>2. Contents(maps') = Contents(maps) \cup merged
  <2> HIDE DEF merged
  <2> QED
    BY <1>1, ContentsAppend
<1>3. mmTo' = [mmTo EXCEPT ![r] = {}] /\ mmTo \in [Receivers -> SUBSET Batches]
  BY DEF ReceivePut, SlotInv, TypeOK
<1>4. Borrowed = Borrowed' \cup mmTo[r]
  BY <1>3 DEF Borrowed
<1>5. mms' = mms
  BY DEF ReceivePut, flusherVars
<1> QED
  BY <1>2, <1>4, <1>5, PendingParts

\* Until its last iteration Drain only moves maps; the last iteration finds
\* every other slot empty-handed, so it takes all that is pending.
LEMMA DrainTakeEffect ==
  ASSUME SlotInv, Lending, DrainTake
  PROVE  /\ Snap = {}
         /\ \/ Pending' = Pending /\ Snap' = Snap
            \/ Pending' = {} /\ Snap' = Pending
<1> USE SpotsAssumption
<1> DEFINE collected == Append(mms, Head(maps))
<1>1. Contents(maps) = Head(maps) \cup Contents(maps')
  BY ContentsTail DEF DrainTake, SlotInv, TypeOK
<1>2. Contents(collected) = Contents(mms) \cup Head(maps)
  <2>1. Head(maps) \in SUBSET Batches /\ mms \in Seq(SUBSET Batches)
    BY DEF DrainTake, SlotInv, TypeOK
  <2> QED
    BY <2>1, ContentsAppend
<1>3. Borrowed' = Borrowed
  BY DEF DrainTake, receiverVars, Borrowed
<1>4. Snap = {}
  BY ContentsEmpty DEF DrainTake, SlotInv, Control, Snap
<1>5. CASE Len(collected) < Spots
  <2>1. mms' = collected /\ drained' = drained
    BY <1>5 DEF DrainTake
  <2> QED
    BY <1>1, <1>2, <1>3, <1>4, <2>1, PendingParts DEF Snap
<1>6. CASE ~(Len(collected) < Spots)
  <2>1. mms' = <<>> /\ drained' = collected
    BY <1>6 DEF DrainTake
  <2>2. /\ Len(collected) = Len(mms) + 1
        /\ Len(mms) \in Nat
        /\ Len(maps) \in Nat \ {0}
        /\ maps' \in Seq(SUBSET Batches)
        /\ Len(maps') = Len(maps) - 1
        /\ fillLeft \in Nat
    BY DEF DrainTake, SlotInv, TypeOK
  <2>3. Len(maps') = 0 /\ Cardinality(Holders) = 0
    BY <1>6, <2>2, HoldersCount DEF SlotInv, SlotsConserved
  <2>4. maps' = <<>>
    BY <2>2, <2>3, LenZero
  <2>5. Borrowed = {}
    BY <2>3, HoldersCount DEF Borrowed, Holders, Lending
  <2>6. Contents(maps') = {} /\ Contents(mms') = {}
    BY <2>1, <2>4, ContentsEmpty
  <2> QED
    BY <1>1, <1>2, <1>3, <1>4, <2>1, <2>5, <2>6, PendingParts DEF Snap
<1> QED
  BY <1>4, <1>5, <1>6

\* A cancelled Drain puts back what it collected.
LEMMA DrainPutBackEffect ==
  ASSUME SlotInv, DrainPutBack
  PROVE  Pending' = Pending
<1>1. mms # <<>>
  BY DEF SlotInv, Control, DrainPutBack
<1>2. Contents(mms) = Head(mms) \cup Contents(mms')
  BY <1>1, ContentsTail DEF SlotInv, TypeOK, DrainPutBack
<1>3. Contents(maps') = Contents(maps) \cup Head(mms)
  <2>1. Head(mms) \in SUBSET Batches
    BY <1>1 DEF SlotInv, TypeOK
  <2>2. maps \in Seq(SUBSET Batches) /\ maps' = Append(maps, Head(mms))
    BY DEF SlotInv, TypeOK, DrainPutBack
  <2> QED
    BY <2>1, <2>2, ContentsAppend
<1>4. Borrowed' = Borrowed
  BY DEF DrainPutBack, receiverVars, Borrowed
<1> QED
  BY <1>2, <1>3, <1>4, PendingParts

\* Fill adds empty maps.
LEMMA FillPutEffect ==
  ASSUME SlotInv, FillPut
  PROVE  Pending' = Pending
<1>1. Contents(maps') = Contents(maps)
  <2>1. NewMetricMap \in SUBSET Batches
    BY DEF NewMetricMap
  <2>2. maps \in Seq(SUBSET Batches) /\ maps' = Append(maps, NewMetricMap)
    BY DEF SlotInv, TypeOK, FillPut
  <2>3. Contents(maps') = Contents(maps) \cup NewMetricMap
    BY <2>1, <2>2, ContentsAppend
  <2> QED
    BY <2>3 DEF NewMetricMap
<1>2. Borrowed' = Borrowed /\ mms' = mms
  BY DEF FillPut, receiverVars, Borrowed
<1> QED
  BY <1>1, <1>2, PendingParts

\* A step of the flusher moves batches from pending to the snapshot to the
\* consumer (or to the dropped ones), each time all of them.
LEMMA FlusherEffect ==
  ASSUME SlotInv, Lending, Flusher
  PROVE  /\ UNCHANGED receiverVars
         /\ \/ UNCHANGED <<Pending, Snap, delivered, dropped>>
            \/ /\ Snap = {} /\ Snap' = Pending /\ Pending' = {}
               /\ UNCHANGED <<delivered, dropped>>
            \/ /\ delivered' = delivered \cup Snap /\ Snap' = {}
               /\ UNCHANGED <<Pending, dropped>>
            \/ /\ dropped' = dropped \cup Snap /\ Snap' = {}
               /\ UNCHANGED <<Pending, delivered>>
<1>1. UNCHANGED receiverVars
  BY DEF Flusher, Tick, Stop, DrainTake, DrainCancel, DrainPutBack, Send,
         SendCancel, FillPut
<1>2. Borrowed' = Borrowed
  BY <1>1 DEF receiverVars, Borrowed
<1>3. ASSUME Tick \/ Stop \/ DrainCancel
      PROVE  UNCHANGED <<Pending, Snap, delivered, dropped>>
  <2>1. UNCHANGED <<maps, mms, drained, delivered, dropped>>
    BY <1>3 DEF Tick, Stop, DrainCancel
  <2> QED
    BY <1>2, <2>1, PendingParts DEF Snap
<1>4. ASSUME DrainTake
      PROVE  \/ UNCHANGED <<Pending, Snap, delivered, dropped>>
             \/ /\ Snap = {} /\ Snap' = Pending /\ Pending' = {}
                /\ UNCHANGED <<delivered, dropped>>
  <2>1. UNCHANGED <<delivered, dropped>>
    BY <1>4 DEF DrainTake
  <2> QED
    BY <1>4, <2>1, DrainTakeEffect
<1>5. ASSUME DrainPutBack
      PROVE  UNCHANGED <<Pending, Snap, delivered, dropped>>
  BY <1>5, DrainPutBackEffect DEF DrainPutBack, Snap
<1>6. ASSUME FillPut
      PROVE  UNCHANGED <<Pending, Snap, delivered, dropped>>
  BY <1>6, FillPutEffect DEF FillPut, Snap
<1>7. ASSUME Send
      PROVE  /\ delivered' = delivered \cup Snap /\ Snap' = {}
             /\ UNCHANGED <<Pending, dropped>>
  <2>1. Snap' = {}
    BY <1>7, ContentsEmpty DEF Send, Snap
  <2>2. UNCHANGED <<maps, mms, dropped>> /\ delivered' = delivered \cup Snap
    BY <1>7 DEF Send, Snap
  <2> QED
    BY <1>2, <2>1, <2>2, PendingParts
<1>8. ASSUME SendCancel
      PROVE  /\ dropped' = dropped \cup Snap /\ Snap' = {}
             /\ UNCHANGED <<Pending, delivered>>
  <2>1. Snap' = {}
    BY <1>8, ContentsEmpty DEF SendCancel, Snap
  <2>2. UNCHANGED <<maps, mms, delivered>> /\ dropped' = dropped \cup Snap
    BY <1>8 DEF SendCancel, Snap
  <2> QED
    BY <1>2, <2>1, <2>2, PendingParts
<1> QED
  BY <1>1, <1>3, <1>4, <1>5, <1>6, <1>7, <1>8 DEF Flusher

\* Everything that was accepted, in the terms of the lemmas above.
LEMMA AcceptedParts ==
  /\ Accepted = Pending \cup Snap \cup delivered \cup dropped
  /\ Accepted' = Pending' \cup Snap' \cup delivered' \cup dropped'
  BY DEF Accepted, Snap

\* Nothing is pending in a new consolidator.
LEMMA InitEmpty == Init => Pending = {} /\ Snap = {}
<1> SUFFICES ASSUME Init PROVE Pending = {} /\ Snap = {}
  OBVIOUS
<1>1. mms = <<>> /\ drained = <<>> /\ \A r \in Receivers : mmTo[r] = {}
  BY DEF Init
<1>2. Borrowed = {}
  BY <1>1 DEF Borrowed
<1>3. \A i \in 1..Len(maps) : maps[i] = {}
  BY SpotsAssumption DEF Init, NewMetricMap
<1>4. Contents(maps) = {}
  BY <1>3, ContentsMember
<1> QED
  BY <1>1, <1>2, <1>4, ContentsEmpty, PendingParts DEF Snap

\* Nothing has been submitted to a new consolidator.
LEMMA BatchInvInit == Init => BatchInv
<1> SUFFICES ASSUME Init PROVE BatchInv
  OBVIOUS
<1>1. /\ \A r \in Receivers : rpc[r] = "idle" /\ mmTo[r] = {} /\ batch[r] = {}
      /\ submitted = {} /\ delivered = {} /\ dropped = {}
  BY DEF Init
<1>2. Submitting = {}
  BY <1>1 DEF Submitting
<1>3. Accepted = {}
  BY <1>1, InitEmpty, AcceptedParts
<1> QED
  BY <1>1, <1>2, <1>3 DEF BatchInv, Lending, Fresh, NothingLost, Submitting

\* A step that changes neither what is accepted nor what is being submitted
\* keeps every batch accounted for.
LEMMA BatchInvQuiet ==
  ASSUME Fresh, NothingLost, Accepted' = Accepted, batch' = batch,
         submitted' = submitted
  PROVE  Fresh' /\ NothingLost'
  BY DEF Fresh, NothingLost

\* Every step keeps every submitted batch accounted for, and in one place.
LEMMA BatchInvNext == SlotInv /\ BatchInv /\ [Next]_vars => BatchInv'
<1> SUFFICES ASSUME SlotInv, BatchInv, [Next]_vars PROVE BatchInv'
  OBVIOUS
<1>0. /\ Lending /\ Fresh /\ NothingLost
      /\ rpc \in [Receivers -> {"idle", "take", "put"}]
      /\ batch \in [Receivers -> SUBSET Batches]
      /\ mmTo \in [Receivers -> SUBSET Batches]
  BY DEF BatchInv, SlotInv, TypeOK
<1>1. ASSUME NEW r \in Receivers, NEW b \in Batches, ReceiveCall(r, b)
      PROVE  BatchInv'
  <2>1. /\ UNCHANGED <<maps, mmTo, mms, drained, delivered, dropped>>
        /\ batch' = [batch EXCEPT ![r] = {b}]
        /\ submitted' = submitted \cup {b}
        /\ b \notin submitted
        /\ batch[r] = {}
    BY <1>0, <1>1 DEF ReceiveCall, flusherVars, Lending
  <2>2. Accepted' = Accepted
    BY <2>1 DEF Accepted, Pending
  <2>3. b \notin Accepted /\ \A q \in Receivers : b \notin batch[q]
    BY <1>0, <2>1 DEF NothingLost
  <2>4. Lending'
    BY <1>0, <1>1, <2>1 DEF Lending, ReceiveCall
  <2>5. Fresh'
    BY <1>0, <2>1, <2>2, <2>3 DEF Fresh
  <2>6. Submitting' = Submitting \cup {b}
    BY <1>0, <2>1 DEF Submitting
  <2>7. NothingLost'
    BY <1>0, <2>1, <2>2, <2>6 DEF NothingLost, Submitting
  <2> QED
    BY <2>4, <2>5, <2>7 DEF BatchInv
<1>2. ASSUME NEW r \in Receivers, ReceiveTake(r)
      PROVE  BatchInv'
  <2>1. Pending' = Pending
    BY <1>0, <1>2, ReceiveTakeEffect
  <2>2. UNCHANGED <<batch, submitted, drained, delivered, dropped>>
    BY <1>2 DEF ReceiveTake, flusherVars
  <2>3. Accepted' = Accepted
    BY <2>1, <2>2, AcceptedParts DEF Snap
  <2>4. Lending'
    BY <1>0, <1>2 DEF Lending, ReceiveTake
  <2> QED
    BY <1>0, <2>2, <2>3, <2>4, BatchInvQuiet DEF BatchInv
<1>3. ASSUME NEW r \in Receivers, ReceivePut(r)
      PROVE  BatchInv'
  <2>1. Pending' = Pending \cup batch[r]
    BY <1>3, ReceivePutEffect
  <2>2. /\ batch' = [batch EXCEPT ![r] = {}]
        /\ UNCHANGED <<submitted, drained, delivered, dropped>>
    BY <1>3 DEF ReceivePut, flusherVars
  <2>3. Accepted' = Accepted \cup batch[r]
    BY <2>1, <2>2, AcceptedParts DEF Snap
  <2>4. Lending'
    BY <1>0, <1>3 DEF Lending, ReceivePut
  <2>5. Fresh'
    BY <1>0, <2>2, <2>3 DEF Fresh
  <2>6. Submitting = Submitting' \cup batch[r]
    BY <1>0, <2>2 DEF Submitting
  <2>7. NothingLost'
    BY <1>0, <2>2, <2>3, <2>6 DEF NothingLost, Submitting
  <2> QED
    BY <2>4, <2>5, <2>7 DEF BatchInv
<1>4. ASSUME Flusher PROVE BatchInv'
  <2>1. UNCHANGED receiverVars
    BY <1>0, <1>4, FlusherEffect
  <2>2. Accepted' = Accepted
    BY <1>0, <1>4, FlusherEffect, AcceptedParts
  <2>3. Lending'
    BY <1>0, <2>1 DEF Lending, receiverVars
  <2> QED
    BY <1>0, <2>1, <2>2, <2>3, BatchInvQuiet DEF BatchInv, receiverVars
<1>5. ASSUME Cancel \/ UNCHANGED vars PROVE BatchInv'
  <2>1. /\ UNCHANGED <<maps, mms, drained, delivered, dropped>>
        /\ UNCHANGED <<rpc, batch, mmTo, submitted>>
    BY <1>5 DEF Cancel, vars, receiverVars, flusherVars
  <2>2. Accepted' = Accepted
    BY <2>1 DEF Accepted, Pending
  <2>3. Lending'
    BY <1>0, <2>1 DEF Lending
  <2> QED
    BY <1>0, <2>1, <2>2, <2>3, BatchInvQuiet DEF BatchInv
<1> QED
  BY <1>1, <1>2, <1>3, <1>4, <1>5 DEF Next, Receive, Finished

\* A batch that a completed call submitted is in a map, in the slice being
\* flushed, with the consumer, or was given up by a cancelled flush.
THEOREM NoBatchIsLost == Spec => []NothingLost
<1>1. SlotInv /\ BatchInv => NothingLost
  BY DEF BatchInv
<1> QED
  BY <1>1, SlotInvInit, SlotInvNext, BatchInvInit, BatchInvNext, PTL DEF Spec

\* The consolidator implements MetricBuffer: although Drain collects the maps
\* one by one, a flush takes everything accepted so far in a single step, and
\* hands it on, or gives it up, as a whole.
THEOREM Refinement == Spec => ImplementsMetricBuffer
<1>1. Init => Buffer!Init
  <2> SUFFICES ASSUME Init PROVE Buffer!Init
    OBVIOUS
  <2>1. delivered = {} /\ dropped = {}
    BY DEF Init
  <2> QED
    BY <2>1, InitEmpty DEF Buffer!Init, Snap
<1>2. SlotInv /\ BatchInv /\ [Next]_vars => [Buffer!Next]_(Buffer!bufferVars)
  <2> SUFFICES ASSUME SlotInv, BatchInv, [Next]_vars
               PROVE  [Buffer!Next]_(Buffer!bufferVars)
    OBVIOUS
  <2>0. Lending /\ Fresh
    BY DEF BatchInv
  <2>1. ASSUME NEW r \in Receivers, NEW b \in Batches, ReceiveCall(r, b)
        PROVE  UNCHANGED Buffer!bufferVars
    <3>1. UNCHANGED <<maps, mmTo, mms, drained, delivered, dropped>>
      BY <2>1 DEF ReceiveCall, flusherVars
    <3> QED
      BY <3>1 DEF Buffer!bufferVars, Pending
  <2>2. ASSUME NEW r \in Receivers, ReceiveTake(r)
        PROVE  UNCHANGED Buffer!bufferVars
    BY <2>0, <2>2, ReceiveTakeEffect, Zenon DEF ReceiveTake, flusherVars, Buffer!bufferVars
  <2>3. ASSUME NEW r \in Receivers, ReceivePut(r)
        PROVE  [Buffer!Next]_(Buffer!bufferVars)
    <3>1. UNCHANGED <<drained, delivered, dropped>>
      BY <2>3 DEF ReceivePut, flusherVars
    <3>2. Pending' = Pending \cup batch[r]
      BY <2>3, ReceivePutEffect
    <3>3. PICK b \in Batches : batch[r] = {b}
      BY <2>0, <2>3 DEF Lending, ReceivePut
    <3>4. Buffer!Accept(b)
      <4>1. b \notin Accepted
        BY <2>0, <3>3 DEF Fresh
      <4> QED
        BY <3>1, <3>2, <3>3, <4>1
        DEF Buffer!Accept, Buffer!Known, Accepted
    <3> QED
      BY <3>4 DEF Buffer!Next
  <2>4. ASSUME Flusher PROVE [Buffer!Next]_(Buffer!bufferVars)
    BY <2>0, <2>4, FlusherEffect
    DEF Snap, Buffer!bufferVars, Buffer!Next, Buffer!Snapshot, Buffer!Deliver,
        Buffer!GiveUp
  <2>5. ASSUME Cancel \/ UNCHANGED vars PROVE UNCHANGED Buffer!bufferVars
    BY <2>5 DEF Cancel, vars, receiverVars, flusherVars, Buffer!bufferVars, Pending
  <2> QED
    BY <2>1, <2>2, <2>3, <2>4, <2>5 DEF Next, Receive, Finished
<1> QED
  BY <1>1, <1>2, SlotInvInit, SlotInvNext, BatchInvInit, BatchInvNext, PTL
  DEF Spec, ImplementsMetricBuffer, Buffer!Spec
-----------------------------------------------------------------------------
(* Copies.  A batch that was submitted is counted in exactly one place:    *)
(* every operation takes away where it adds.                               *)

Flag(b, S) == IF b \in S THEN 1 ELSE 0
Places(b, s) == {i \in 1..Len(s) : b \in s[i]}
Copies(b, s) == Cardinality(Places(b, s))
Borrowers(b) == {r \in Receivers : b \in mmTo[r] \cup batch[r]}

OnceInv == \A b \in Batches : Occurrences(b) = Flag(b, submitted)

LEMMA CopiesType ==
  ASSUME NEW s \in Seq(SUBSET Batches), NEW b
  PROVE  IsFiniteSet(Places(b, s)) /\ Copies(b, s) \in Nat
<1>1. IsFiniteSet(1..Len(s))
  BY FS_Interval
<1>2. IsFiniteSet(Places(b, s))
  BY <1>1, FS_Subset DEF Places
<1> QED
  BY <1>2, FS_CardinalityType DEF Copies

LEMMA CopiesEmpty == \A b : Copies(b, <<>>) = 0
<1>1. \A b : Places(b, <<>>) = {}
  BY DEF Places
<1> QED
  BY <1>1, FS_EmptySet DEF Copies

LEMMA CopiesAppend ==
  ASSUME NEW s \in Seq(SUBSET Batches), NEW e \in SUBSET Batches, NEW b
  PROVE  Copies(b, Append(s, e)) = Copies(b, s) + Flag(b, e)
<1> DEFINE t == Append(s, e)
           n == Len(s) + 1
<1>1. /\ Len(t) = n /\ n \in Nat /\ t[n] = e /\ n \notin Places(b, s)
      /\ \A i \in 1..Len(s) : t[i] = s[i]
  BY DEF Places
<1>2. CASE b \in e
  <2>1. Places(b, t) = Places(b, s) \cup {n}
    BY <1>1, <1>2 DEF Places
  <2>2. Copies(b, t) = Copies(b, s) + 1
    <3>1. IsFiniteSet(Places(b, s)) /\ n \notin Places(b, s)
      BY <1>1, CopiesType
    <3>2. Cardinality(Places(b, s) \cup {n}) = Cardinality(Places(b, s)) + 1
      BY <3>1, FS_AddElement, Zenon
    <3> QED
      BY <2>1, <3>2 DEF Copies
  <2> QED
    BY <1>2, <2>2 DEF Flag
<1>3. CASE b \notin e
  <2>1. Places(b, t) = Places(b, s)
    BY <1>1, <1>3 DEF Places
  <2>2. Copies(b, t) = Copies(b, s) /\ Copies(b, s) \in Nat /\ Flag(b, e) = 0
    BY <1>3, <2>1, CopiesType, Zenon DEF Copies, Flag
  <2> HIDE DEF t
  <2>3. Copies(b, t) = Copies(b, s) + Flag(b, e)
    BY <2>2
  <2> QED
    BY <2>3 DEF t
<1> QED
  BY <1>2, <1>3

LEMMA CopiesTail ==
  ASSUME NEW s \in Seq(SUBSET Batches), s # <<>>, NEW b
  PROVE  Copies(b, s) = Flag(b, Head(s)) + Copies(b, Tail(s))
<1> DEFINE t == Tail(s)
           A == Places(b, t)
           B == Places(b, s) \ {1}
           shift == [i \in A |-> i + 1]
<1>1. /\ t \in Seq(SUBSET Batches) /\ Len(s) \in Nat \ {0} /\ Len(t) = Len(s) - 1
      /\ Head(s) = s[1]
      /\ \A i \in 1..Len(t) : t[i] = s[i + 1]
  OBVIOUS
<1>2. Cardinality(B) = Cardinality(A) /\ IsFiniteSet(B)
  <2>1. shift \in [A -> B]
    BY <1>1 DEF Places
  <2>2. \A i, j \in A : shift[i] = shift[j] => i = j
    BY <1>1 DEF Places
  <2>3. \A k \in B : \E i \in A : shift[i] = k
    <3> SUFFICES ASSUME NEW k \in B PROVE \E i \in A : shift[i] = k
      OBVIOUS
    <3>1. k - 1 \in A
      BY <1>1 DEF Places
    <3>2. shift[k - 1] = k
      BY <3>1 DEF Places
    <3> QED
      BY <3>1, <3>2
  <2>4. ExistsBijection(A, B)
    <3> HIDE DEF A, B, shift
    <3> QED
      BY <2>1, <2>2, <2>3 DEF ExistsBijection, Bijection, Injection, Surjection, IsInjective
  <2>5. IsFiniteSet(A)
    BY <1>1, CopiesType, Zenon
  <2> HIDE DEF A, B
  <2> QED
    BY <2>4, <2>5, FS_Bijection
<1>3. Cardinality(A) \in Nat
  BY <1>1, CopiesType, Zenon DEF Copies
<1>4. CASE b \in Head(s)
  <2>1. Places(b, s) = B \cup {1} /\ 1 \notin B
    BY <1>1, <1>4 DEF Places
  <2>2. Cardinality(Places(b, s)) = Cardinality(B) + 1
    <3> HIDE DEF B
    <3> QED
      BY <1>2, <2>1, FS_AddElement
  <2> QED
    BY <1>2, <1>3, <1>4, <2>2 DEF Copies, Flag
<1>5. CASE b \notin Head(s)
  <2>1. Places(b, s) = B
    BY <1>1, <1>5 DEF Places
  <2>2. Copies(b, s) = Cardinality(B) /\ Copies(b, t) = Cardinality(A) /\ Flag(b, Head(s)) = 0
    BY <1>5, <2>1, Zenon DEF Copies, Flag
  <2> HIDE DEF A, B
  <2> QED
    BY <1>2, <1>3, <2>2
<1> QED
  BY <1>4, <1>5

\* A batch is among the contents when there is a copy of it.
LEMMA CopiesContents ==
  ASSUME NEW s \in Seq(SUBSET Batches), NEW b
  PROVE  b \in Contents(s) <=> Copies(b, s) # 0
<1>1. Copies(b, s) = 0 <=> Places(b, s) = {}
  BY CopiesType, FS_EmptySet, Zenon DEF Copies
<1> QED
  BY <1>1, ContentsMember DEF Places

\* Occurrences in the terms of the lemmas above, before and after a step.
LEMMA OccurrencesAre ==
  ASSUME NEW b
  PROVE  /\ Occurrences(b) = Copies(b, maps) + Copies(b, mms) + Copies(b, drained)
                             + Cardinality(Borrowers(b))
                             + Flag(b, delivered) + Flag(b, dropped)
         /\ Occurrences(b)' = Copies(b, maps') + Copies(b, mms') + Copies(b, drained')
                              + Cardinality(Borrowers(b)')
                              + Flag(b, delivered') + Flag(b, dropped')
  BY DEF Occurrences, Copies, Places, Borrowers, Flag

LEMMA PartTypes ==
  ASSUME SlotInv, NEW b
  PROVE  /\ Copies(b, maps) \in Nat /\ Copies(b, mms) \in Nat /\ Copies(b, drained) \in Nat
         /\ IsFiniteSet(Borrowers(b)) /\ Cardinality(Borrowers(b)) \in Nat
         /\ Cardinality(Borrowers(b)) = 0 <=> Borrowers(b) = {}
         /\ \A S : Flag(b, S) \in 0..1
<1>1. IsFiniteSet(Borrowers(b))
  BY ReceiversAssumption, FS_Subset DEF Borrowers
<1>2. Copies(b, maps) \in Nat /\ Copies(b, mms) \in Nat /\ Copies(b, drained) \in Nat
  BY CopiesType, Zenon DEF SlotInv, TypeOK
<1>3. \A S : Flag(b, S) \in 0..1
  BY DEF Flag
<1> QED
  BY <1>1, <1>2, <1>3, FS_CardinalityType, FS_EmptySet

LEMMA OnceInit == Init => OnceInv
<1> SUFFICES ASSUME Init, NEW b \in Batches PROVE Occurrences(b) = Flag(b, submitted)
  BY DEF OnceInv
<1>1. Places(b, maps) = {}
  BY SpotsAssumption DEF Init, NewMetricMap, Places
<1>2. Borrowers(b) = {}
  BY DEF Init, Borrowers
<1>3. Copies(b, maps) = 0 /\ Cardinality(Borrowers(b)) = 0
  BY <1>1, <1>2, FS_EmptySet DEF Copies
<1>4. Copies(b, mms) = 0 /\ Copies(b, drained) = 0
  BY CopiesEmpty DEF Init
<1>5. Flag(b, delivered) = 0 /\ Flag(b, dropped) = 0 /\ Flag(b, submitted) = 0
  BY DEF Init, Flag
<1> QED
  BY <1>3, <1>4, <1>5, OccurrencesAre

\* The count of a batch, term by term.
LEMMA Ledger ==
  ASSUME SlotInv, OnceInv, NEW b \in Batches
  PROVE  /\ Copies(b, maps) + Copies(b, mms) + Copies(b, drained) + Cardinality(Borrowers(b))
            + Flag(b, delivered) + Flag(b, dropped) = Flag(b, submitted)
         /\ Copies(b, maps) \in Nat /\ Copies(b, mms) \in Nat /\ Copies(b, drained) \in Nat
         /\ Cardinality(Borrowers(b)) \in Nat
         /\ Flag(b, delivered) \in Nat /\ Flag(b, dropped) \in Nat
         /\ Flag(b, submitted) \in Nat /\ Flag(b, submitted) <= 1
<1>1. Occurrences(b) = Flag(b, submitted)
  BY DEF OnceInv
<1>2. /\ Flag(b, delivered) \in Nat /\ Flag(b, dropped) \in Nat
      /\ Flag(b, submitted) \in Nat /\ Flag(b, submitted) <= 1
  BY DEF Flag
<1>3. Copies(b, maps) + Copies(b, mms) + Copies(b, drained) + Cardinality(Borrowers(b))
      + Flag(b, delivered) + Flag(b, dropped) = Flag(b, submitted)
  BY <1>1, OccurrencesAre, Zenon
<1> QED
  BY <1>2, <1>3, PartTypes, Zenon

\* A step of a receiver: what the channel and the receivers gain was submitted.
LEMMA Balance ==
  ASSUME SlotInv, OnceInv, NEW b \in Batches, UNCHANGED <<mms, drained, delivered, dropped>>,
         Copies(b, maps') + Cardinality(Borrowers(b)') + Flag(b, submitted)
         = Copies(b, maps) + Cardinality(Borrowers(b)) + Flag(b, submitted'),
         Copies(b, maps') \in Nat, Cardinality(Borrowers(b)') \in Nat,
         Flag(b, submitted') \in Nat
  PROVE  Occurrences(b)' = Flag(b, submitted')
<1> DEFINE rest == Copies(b, mms) + Copies(b, drained) + Flag(b, delivered) + Flag(b, dropped)
<1>1. Occurrences(b)' = Copies(b, maps') + Copies(b, mms) + Copies(b, drained)
                        + Cardinality(Borrowers(b)') + Flag(b, delivered) + Flag(b, dropped)
  BY OccurrencesAre
<1>2. /\ rest \in Nat
      /\ Copies(b, maps) + Cardinality(Borrowers(b)) + rest = Flag(b, submitted)
      /\ Copies(b, maps) \in Nat /\ Cardinality(Borrowers(b)) \in Nat
      /\ Flag(b, submitted) \in Nat
  BY Ledger
<1>3. Occurrences(b)' = Copies(b, maps') + Cardinality(Borrowers(b)') + rest
  BY <1>1, Ledger
<1> HIDE DEF rest
<1> QED
  BY <1>2, <1>3

\* A call with a new batch adds its receiver to those that have the batch.
LEMMA CallCounts ==
  ASSUME SlotInv, BatchInv, OnceInv, NEW r \in Receivers, NEW n \in Batches, ReceiveCall(r, n),
         NEW b \in Batches
  PROVE  Occurrences(b)' = Flag(b, submitted')
<1>1. /\ UNCHANGED <<maps, mms, drained, delivered, dropped, mmTo>>
      /\ batch' = [batch EXCEPT ![r] = {n}] /\ batch \in [Receivers -> SUBSET Batches]
      /\ submitted' = submitted \cup {n} /\ n \notin submitted
      /\ batch[r] = {} /\ mmTo[r] = {}
  BY DEF ReceiveCall, flusherVars, BatchInv, Lending, SlotInv, TypeOK
<1>2. Copies(b, maps') = Copies(b, maps) /\ Copies(b, maps) \in Nat
  BY <1>1, Ledger
<1>3. CASE b = n
  <2>1. Flag(b, submitted) = 0 /\ Flag(b, submitted') = 1
    BY <1>1, <1>3 DEF Flag
  <2>2. Cardinality(Borrowers(b)) = 0
    BY <2>1, Ledger
  <2>3. Borrowers(b) = {}
    BY <2>2, PartTypes
  <2>4. Borrowers(b)' = {r}
    BY <1>1, <1>3, <2>3 DEF Borrowers
  <2>5. Cardinality(Borrowers(b)') = 1
    BY <2>4, FS_Singleton, Zenon
  <2>6. Copies(b, maps') + Cardinality(Borrowers(b)') + Flag(b, submitted)
        = Copies(b, maps) + Cardinality(Borrowers(b)) + Flag(b, submitted')
    BY <1>2, <2>1, <2>2, <2>5
  <2>7. /\ Copies(b, maps') \in Nat /\ Cardinality(Borrowers(b)') \in Nat
        /\ Flag(b, submitted') \in Nat
    BY <1>2, <2>1, <2>5
  <2>8. UNCHANGED <<mms, drained, delivered, dropped>>
    BY <1>1
  <2> QED
    BY <2>6, <2>7, <2>8, Balance, Zenon
<1>4. CASE b # n
  <2>1. Borrowers(b)' = Borrowers(b) /\ Flag(b, submitted') = Flag(b, submitted)
    BY <1>1, <1>4 DEF Borrowers, Flag
  <2>2. /\ Flag(b, submitted') \in Nat
        /\ Cardinality(Borrowers(b)') \in Nat
        /\ Copies(b, maps') + Cardinality(Borrowers(b)') + Flag(b, submitted)
           = Copies(b, maps) + Cardinality(Borrowers(b)) + Flag(b, submitted')
    BY <1>2, <2>1, Ledger
  <2> QED
    BY <1>1, <1>2, <2>2, Balance
<1> QED
  BY <1>3, <1>4

\* The map a receiver borrows leaves the channel.
LEMMA TakeCounts ==
  ASSUME SlotInv, BatchInv, OnceInv, NEW r \in Receivers, ReceiveTake(r), NEW b \in Batches
  PROVE  Occurrences(b)' = Flag(b, submitted')
<1>1. /\ UNCHANGED <<mms, drained, delivered, dropped, batch, submitted>>
      /\ maps \in Seq(SUBSET Batches) /\ maps # <<>> /\ maps' = Tail(maps)
      /\ mmTo' = [mmTo EXCEPT ![r] = Head(maps)] /\ mmTo \in [Receivers -> SUBSET Batches]
      /\ mmTo[r] = {}
  BY DEF ReceiveTake, flusherVars, BatchInv, Lending, SlotInv, TypeOK
<1>2. Copies(b, maps) = Flag(b, Head(maps)) + Copies(b, maps') /\ Copies(b, maps') \in Nat
  <2>1. maps' \in Seq(SUBSET Batches)
    BY <1>1
  <2>2. Copies(b, maps) = Flag(b, Head(maps)) + Copies(b, Tail(maps))
    BY <1>1, CopiesTail
  <2> QED
    BY <1>1, <2>1, <2>2, CopiesType, Zenon
<1>3. Flag(b, submitted') = Flag(b, submitted) /\ Flag(b, submitted) \in Nat
  BY <1>1, Ledger
<1>4. CASE b \in Head(maps)
  <2>1. Flag(b, Head(maps)) = 1
    BY <1>4 DEF Flag
  <2>2. Copies(b, maps) = 1 + Copies(b, maps')
    BY <1>2, <2>1
  <2>3. Cardinality(Borrowers(b)) = 0
    BY <1>2, <2>2, Ledger
  <2>4. Borrowers(b) = {}
    BY <2>3, PartTypes
  <2>5. Borrowers(b)' = {r}
    BY <1>1, <1>4, <2>4 DEF Borrowers
  <2>6. Cardinality(Borrowers(b)') = 1
    BY <2>5, FS_Singleton, Zenon
  <2>7. Copies(b, maps') + Cardinality(Borrowers(b)') + Flag(b, submitted)
        = Copies(b, maps) + Cardinality(Borrowers(b)) + Flag(b, submitted')
    BY <1>2, <1>3, <2>2, <2>3, <2>6
  <2> QED
    BY <1>1, <1>2, <1>3, <2>6, <2>7, Balance
<1>5. CASE b \notin Head(maps)
  <2>1. Borrowers(b)' = Borrowers(b) /\ Flag(b, Head(maps)) = 0
    BY <1>1, <1>5 DEF Borrowers, Flag
  <2>2. /\ Cardinality(Borrowers(b)') \in Nat
        /\ Copies(b, maps') + Cardinality(Borrowers(b)') + Flag(b, submitted)
           = Copies(b, maps) + Cardinality(Borrowers(b)) + Flag(b, submitted')
    BY <1>2, <1>3, <2>1, Ledger
  <2> QED
    BY <1>1, <1>2, <1>3, <2>2, Balance
<1> QED
  BY <1>4, <1>5

\* The merged map has what the receiver had.
LEMMA PutCounts ==
  ASSUME SlotInv, OnceInv, NEW r \in Receivers, ReceivePut(r), NEW b \in Batches
  PROVE  Occurrences(b)' = Flag(b, submitted')
<1>0. PICK merged : merged = mmTo[r] \cup batch[r]
  BY Zenon
<1>1. /\ UNCHANGED <<mms, drained, delivered, dropped, submitted>>
      /\ maps \in Seq(SUBSET Batches) /\ merged \in SUBSET Batches
      /\ maps' = Append(maps, merged)
      /\ mmTo' = [mmTo EXCEPT ![r] = {}] /\ mmTo \in [Receivers -> SUBSET Batches]
      /\ batch' = [batch EXCEPT ![r] = {}] /\ batch \in [Receivers -> SUBSET Batches]
  BY <1>0 DEF ReceivePut, flusherVars, SlotInv, TypeOK
<1>2. Copies(b, maps') = Copies(b, maps) + Flag(b, merged)
  BY <1>1, CopiesAppend, Zenon
<1>3. Flag(b, submitted') = Flag(b, submitted) /\ Flag(b, submitted) \in Nat
  BY <1>1, Ledger
<1>4. CASE b \in merged
  <2>1. Borrowers(b)' = Borrowers(b) \ {r} /\ r \in Borrowers(b)
    BY <1>0, <1>1, <1>4 DEF Borrowers
  <2>2. /\ Cardinality(Borrowers(b)') = Cardinality(Borrowers(b)) - 1
        /\ Cardinality(Borrowers(b)') \in Nat
    <3>1. IsFiniteSet(Borrowers(b))
      BY PartTypes
    <3>2. Cardinality(Borrowers(b) \ {r}) = Cardinality(Borrowers(b)) - 1
      BY <2>1, <3>1, FS_RemoveElement, Zenon
    <3>3. IsFiniteSet(Borrowers(b) \ {r})
      BY <3>1, FS_Subset
    <3>4. Cardinality(Borrowers(b) \ {r}) \in Nat
      BY <3>3, FS_CardinalityType
    <3> QED
      BY <2>1, <3>2, <3>4
  <2>3. Copies(b, maps') = Copies(b, maps) + 1
    BY <1>2, <1>4 DEF Flag
  <2>4. /\ Copies(b, maps') \in Nat
        /\ Copies(b, maps') + Cardinality(Borrowers(b)') + Flag(b, submitted)
           = Copies(b, maps) + Cardinality(Borrowers(b)) + Flag(b, submitted')
    BY <1>3, <2>2, <2>3, Ledger
  <2> QED
    BY <1>1, <1>3, <2>2, <2>4, Balance
<1>5. CASE b \notin merged
  <2>1. Borrowers(b)' = Borrowers(b) /\ Flag(b, merged) = 0
    BY <1>0, <1>1, <1>5 DEF Borrowers, Flag
  <2>2. /\ Copies(b, maps') \in Nat /\ Cardinality(Borrowers(b)') \in Nat
        /\ Copies(b, maps') + Cardinality(Borrowers(b)') + Flag(b, submitted)
           = Copies(b, maps) + Cardinality(Borrowers(b)) + Flag(b, submitted')
    BY <1>2, <1>3, <2>1, Ledger
  <2> QED
    BY <1>1, <1>3, <2>2, Balance
<1> QED
  BY <1>4, <1>5

\* A step of the flusher that moves maps between the channel and its slices.
LEMMA MoveCounts ==
  ASSUME SlotInv, OnceInv, UNCHANGED <<receiverVars, delivered, dropped>>, NEW b \in Batches,
         Copies(b, maps') + Copies(b, mms') + Copies(b, drained')
         = Copies(b, maps) + Copies(b, mms) + Copies(b, drained)
  PROVE  Occurrences(b)' = Flag(b, submitted')
<1>1. Borrowers(b)' = Borrowers(b) /\ submitted' = submitted
  BY DEF Borrowers, receiverVars
<1>2. Occurrences(b) = Flag(b, submitted)
  BY DEF OnceInv
<1> QED
  BY <1>1, <1>2, OccurrencesAre

LEMMA DrainTakeCounts ==
  ASSUME SlotInv, OnceInv, DrainTake, NEW b \in Batches
  PROVE  Occurrences(b)' = Flag(b, submitted')
<1>0. PICK collected : collected = Append(mms, Head(maps))
  BY Zenon
<1>1. /\ UNCHANGED <<receiverVars, delivered, dropped>>
      /\ maps \in Seq(SUBSET Batches) /\ maps # <<>> /\ maps' = Tail(maps)
      /\ Head(maps) \in SUBSET Batches /\ mms \in Seq(SUBSET Batches)
      /\ drained = <<>>
      /\ \/ mms' = collected /\ drained' = drained
         \/ mms' = <<>> /\ drained' = collected
  BY <1>0 DEF DrainTake, SlotInv, TypeOK, Control
<1>2. Copies(b, maps) = Flag(b, Head(maps)) + Copies(b, maps')
  BY <1>1, CopiesTail
<1>3. Copies(b, collected) = Copies(b, mms) + Flag(b, Head(maps))
  BY <1>0, <1>1, CopiesAppend, Zenon
<1>4. /\ Copies(b, mms) \in Nat /\ Copies(b, maps') \in Nat
      /\ Flag(b, Head(maps)) \in Nat
  <2>1. maps' \in Seq(SUBSET Batches)
    BY <1>1
  <2> QED
    BY <1>1, <2>1, CopiesType, Zenon DEF Flag
<1>5. Copies(b, maps') + Copies(b, mms') + Copies(b, drained')
      = Copies(b, maps) + Copies(b, mms) + Copies(b, drained)
  BY <1>1, <1>2, <1>3, <1>4, CopiesEmpty
<1> QED
  BY <1>1, <1>5, MoveCounts

LEMMA PutBackCounts ==
  ASSUME SlotInv, OnceInv, DrainPutBack, NEW b \in Batches
  PROVE  Occurrences(b)' = Flag(b, submitted')
<1>1. /\ UNCHANGED <<receiverVars, delivered, dropped>>
      /\ maps \in Seq(SUBSET Batches) /\ mms \in Seq(SUBSET Batches) /\ mms # <<>>
      /\ maps' = Append(maps, Head(mms)) /\ mms' = Tail(mms) /\ drained' = drained
  BY DEF DrainPutBack, SlotInv, TypeOK, Control
<1>2. Head(mms) \in SUBSET Batches /\ mms' \in Seq(SUBSET Batches)
  BY <1>1
<1>3. Copies(b, maps') = Copies(b, maps) + Flag(b, Head(mms))
  BY <1>1, <1>2, CopiesAppend, Zenon
<1>4. Copies(b, mms) = Flag(b, Head(mms)) + Copies(b, mms')
  BY <1>1, CopiesTail, SMTT(20)
<1>5. /\ Copies(b, maps) \in Nat /\ Copies(b, mms') \in Nat /\ Copies(b, drained) \in Nat
      /\ Flag(b, Head(mms)) \in Nat
  BY <1>1, <1>2, CopiesType, PartTypes, Zenon DEF Flag
<1>6. Copies(b, maps') + Copies(b, mms') + Copies(b, drained')
      = Copies(b, maps) + Copies(b, mms) + Copies(b, drained)
  BY <1>1, <1>3, <1>4, <1>5
<1> QED
  BY <1>1, <1>6, MoveCounts

LEMMA FillCounts ==
  ASSUME SlotInv, OnceInv, FillPut, NEW b \in Batches
  PROVE  Occurrences(b)' = Flag(b, submitted')
<1>1. /\ UNCHANGED <<receiverVars, delivered, dropped, mms, drained>>
      /\ maps \in Seq(SUBSET Batches) /\ maps' = Append(maps, NewMetricMap)
  BY DEF FillPut, SlotInv, TypeOK
<1>2. Copies(b, maps') = Copies(b, maps) + Flag(b, NewMetricMap)
  BY <1>1, CopiesAppend, Zenon DEF NewMetricMap
<1>3. Flag(b, NewMetricMap) = 0 /\ Copies(b, maps) \in Nat
  BY PartTypes DEF Flag, NewMetricMap
<1>4. Copies(b, maps') = Copies(b, maps)
  BY <1>2, <1>3
<1> QED
  BY <1>1, <1>4, MoveCounts

\* What is delivered or dropped was drained, once.
LEMMA SendCounts ==
  ASSUME SlotInv, OnceInv, Send \/ SendCancel, NEW b \in Batches
  PROVE  Occurrences(b)' = Flag(b, submitted')
<1>1. /\ UNCHANGED <<receiverVars, maps, mms>> /\ drained' = <<>>
      /\ \/ delivered' = delivered \cup Contents(drained) /\ dropped' = dropped
         \/ dropped' = dropped \cup Contents(drained) /\ delivered' = delivered
  BY DEF Send, SendCancel
<1>2. Borrowers(b)' = Borrowers(b) /\ submitted' = submitted
  BY <1>1 DEF Borrowers, receiverVars
<1>3. Copies(b, maps) + Copies(b, mms) + Copies(b, drained) + Cardinality(Borrowers(b))
      + Flag(b, delivered) + Flag(b, dropped) = Flag(b, submitted)
  BY Ledger
<1>4. /\ Copies(b, maps) \in Nat /\ Copies(b, mms) \in Nat /\ Copies(b, drained) \in Nat
      /\ Cardinality(Borrowers(b)) \in Nat
      /\ Flag(b, delivered) \in Nat /\ Flag(b, dropped) \in Nat 
      /\ Flag(b, submitted) \in Nat /\ Flag(b, submitted) <= 1
  BY Ledger
<1>5. b \in Contents(drained) <=> Copies(b, drained) # 0
  BY CopiesContents DEF SlotInv, TypeOK
<1>6. \A S : Copies(b, drained) + Flag(b, S) <= 1
             => Flag(b, S \cup Contents(drained)) = Flag(b, S) + Copies(b, drained)
  BY <1>4, <1>5 DEF Flag
<1>7. /\ Copies(b, drained) + Flag(b, delivered) <= 1
      /\ Copies(b, drained) + Flag(b, dropped) <= 1
  BY ONLY <1>3, <1>4
<1>8. \/ /\ Flag(b, delivered') = Flag(b, delivered) + Copies(b, drained)
         /\ dropped' = dropped
      \/ /\ Flag(b, dropped') = Flag(b, dropped) + Copies(b, drained)
         /\ delivered' = delivered
  BY <1>1, <1>6, <1>7
<1>9. Copies(b, drained') = 0
  BY <1>1, CopiesEmpty
<1>10. Occurrences(b)' = Copies(b, maps) + Copies(b, mms) + 0 + Cardinality(Borrowers(b))
                         + Flag(b, delivered') + Flag(b, dropped')
  BY <1>1, <1>2, <1>9, OccurrencesAre
<1>11. Flag(b, delivered') + Flag(b, dropped')
       = Flag(b, delivered) + Flag(b, dropped) + Copies(b, drained)
  BY <1>4, <1>8
<1>12. Flag(b, delivered') \in Nat /\ Flag(b, dropped') \in Nat
  BY DEF Flag
<1>13. Occurrences(b)' = Flag(b, submitted)
  BY ONLY <1>3, <1>4, <1>10, <1>11, <1>12
<1> QED
  BY <1>2, <1>13

LEMMA OnceNext == SlotInv /\ BatchInv /\ OnceInv /\ [Next]_vars => OnceInv'
<1> SUFFICES ASSUME SlotInv, BatchInv, OnceInv, [Next]_vars, NEW b \in Batches
             PROVE  Occurrences(b)' = Flag(b, submitted')
  BY DEF OnceInv
<1>1. CASE \/ \E r \in Receivers, n \in Batches : ReceiveCall(r, n)
           \/ \E r \in Receivers : Receive(r)
  BY <1>1, CallCounts, TakeCounts, PutCounts DEF Receive
<1>2. CASE DrainTake \/ DrainPutBack \/ FillPut \/ Send \/ SendCancel
  BY <1>2, DrainTakeCounts, PutBackCounts, FillCounts, SendCounts
<1>3. CASE Tick \/ Stop \/ DrainCancel \/ Cancel \/ UNCHANGED vars
  <2>1. UNCHANGED <<receiverVars, delivered, dropped, maps, mms, drained>>
    BY <1>3 DEF Tick, Stop, DrainCancel, Cancel, vars, flusherVars
  <2> QED
    BY <2>1, MoveCounts
<1> QED
  BY <1>1, <1>2, <1>3 DEF Next, Flusher, Finished

\* However receivers, Drain, Flush, Fill and cancellation interleave, a batch
\* is never in two maps, nor handed on and still pending.
THEOREM NoBatchIsDuplicated == Spec => []NothingDuplicated
<1>1. OnceInv => NothingDuplicated
  BY DEF OnceInv, NothingDuplicated, Flag
<1> QED
  BY <1>1, SlotInvInit, SlotInvNext, BatchInvInit, BatchInvNext, OnceInit, OnceNext, PTL DEF Spec
=============================================================================
