-------------------------- MODULE LidarDriverProofs --------------------------
(***************************************************************************)
(* Proofs about SyncQueue and about LidarDriver on top of it.              *)
(*                                                                         *)
(* SyncQueue, for every Capacity >= 2, every MaxBatch >= 1 and every set   *)
(* of values: the inductive invariant IInv, from which follow type         *)
(* correctness, the exclusion of the two threads from each other's slots,  *)
(* and the refinement of the bounded FIFO queue.                           *)
(*                                                                         *)
(* LidarDriver, for every ring, every set of buffers and every number of   *)
(* packets and sessions: the clouds have every point of the packets        *)
(* decoded, and as long as no clear() meets a popBatch(), no buffer is in  *)
(* two places, every packet is accounted for, and packets are decoded in   *)
(* order.                                                                  *)
(***************************************************************************)
EXTENDS LidarDriver, FoldTheorems

-----------------------------------------------------------------------------
(* Arithmetic of the ring *)

\* The remainder by Capacity, for the positions the code computes.
LEMMA SlotBelow == ASSUME NEW n \in 0..(Capacity - 1) PROVE Slot(n) = n
BY CapacityAssumption, SMT DEF Slot

LEMMA SlotAbove == ASSUME NEW n \in Capacity..(2 * Capacity - 1)
                   PROVE  Slot(n) = n - Capacity
BY CapacityAssumption, SMT DEF Slot

LEMMA SlotCases ==
  ASSUME NEW n \in 0..(2 * Capacity - 1)
  PROVE  Slot(n) = IF n < Capacity THEN n ELSE n - Capacity
<1>1. CASE n < Capacity
  BY <1>1, SlotBelow, CapacityAssumption
<1>2. CASE ~(n < Capacity)
  BY <1>2, SlotAbove, CapacityAssumption
<1>3. QED BY <1>1, <1>2

LEMMA SlotIndex == ASSUME NEW n \in 0..(2 * Capacity - 1) PROVE Slot(n) \in Index
BY SlotCases, CapacityAssumption DEF Index

LEMMA SizeType ==
  ASSUME NEW h \in Index, NEW t \in Index
  PROVE  /\ Size(h, t) \in 0..(Capacity - 1)
         /\ Size(h, t) = 0 <=> h = t
BY CapacityAssumption DEF Index, Size

\* A slot behind the head, counted from 0, is none of the occupied ones.
LEMMA SlotOfTail ==
  ASSUME NEW h \in Index, NEW t \in Index, NEW i \in 0..(Capacity - 1)
  PROVE  Slot(h + i) = t <=> i = Size(h, t)
BY SlotCases, CapacityAssumption DEF Index, Size

\* Storing tail_ makes the ring one longer, unless it is full.
LEMMA SizeAfterPush ==
  ASSUME NEW h \in Index, NEW t \in Index
  PROVE  /\ Slot(t + 1) \in Index
         /\ Slot(t + 1) = h <=> Size(h, t) = Capacity - 1
         /\ Slot(t + 1) # h => Size(h, Slot(t + 1)) = Size(h, t) + 1
BY SlotCases, CapacityAssumption DEF Index, Size

\* Storing head_ makes it n shorter, and renumbers what is left.
LEMMA SizeAfterPop ==
  ASSUME NEW h \in Index, NEW t \in Index, NEW n \in 0..Size(h, t)
  PROVE  /\ Slot(h + n) \in Index
         /\ Size(Slot(h + n), t) = Size(h, t) - n
         /\ \A i \in 0..(Size(h, t) - n - 1) : Slot(Slot(h + n) + i) = Slot(h + (n + i))
<1>1. n \in 0..(Capacity - 1) /\ Size(h, t) \in 0..(Capacity - 1)
  BY SizeType, CapacityAssumption
<1>2. Slot(h + n) \in Index /\ Size(Slot(h + n), t) = Size(h, t) - n
  BY <1>1, SlotCases, CapacityAssumption DEF Index, Size
<1>3. ASSUME NEW i \in 0..(Size(h, t) - n - 1)
      PROVE  Slot(Slot(h + n) + i) = Slot(h + (n + i))
  <2>1. h + n \in 0..(2 * Capacity - 1) /\ h + (n + i) \in 0..(2 * Capacity - 1)
    BY <1>1, CapacityAssumption DEF Index
  <2>2. Slot(h + n) + i \in 0..(2 * Capacity - 1)
    BY <1>1, <1>2, CapacityAssumption DEF Index
  <2>3. QED BY <1>1, <2>1, <2>2, SlotCases, CapacityAssumption DEF Index
<1>4. QED BY <1>2, <1>3

-----------------------------------------------------------------------------
(* The inductive invariant *)

LEMMA InitInv == Init => IInv
<1> SUFFICES ASSUME Init PROVE IInv
  OBVIOUS
<1>1. 0 \in Index /\ Size(head, tail) = 0
  BY CapacityAssumption DEF Init, Index, Size
<1>2. <<>> \in Seq(Value \cup {NoValue})
  OBVIOUS
<1>3. TypeOK
  BY <1>1, <1>2, CapacityAssumption DEF Init, TypeOK
<1>4. QED BY <1>1, <1>3 DEF Init, IInv, PushInv, PopInv, RingInv

\* The slots of the queue, numbered from its head.
LEMMA OccupiedSlot ==
  ASSUME TypeOK, NEW i \in 1..Size(head, tail)
  PROVE  Slot(head + i - 1) \in Index /\ Slot(head + i - 1) # tail
<1> DEFINE j == i - 1
<1>1. Size(head, tail) \in 0..(Capacity - 1)
  BY SizeType DEF TypeOK
<1>2. j \in 0..(Capacity - 1) /\ j # Size(head, tail) /\ head + i - 1 = head + j
  BY <1>1, CapacityAssumption DEF TypeOK, Index
<1>3. head + j \in 0..(2 * Capacity - 1)
  BY <1>2, CapacityAssumption DEF TypeOK, Index
<1>4. Slot(head + j) \in Index
  BY <1>3, SlotIndex
<1>5. Slot(head + j) # tail
  BY <1>2, SlotOfTail DEF TypeOK
<1>6. QED BY <1>2, <1>4, <1>5

LEMMA PushBeginInv ==
  ASSUME IInv, NEW v \in Value, PushBegin(v) PROVE IInv'
<1>1. Size(head, tail) < Capacity - 1
  <2>1. head \in Index /\ tail \in Index /\ Slot(tail + 1) # head
    BY DEF IInv, TypeOK, PushBegin
  <2>2. Size(head, tail) \in 0..(Capacity - 1) /\ Size(head, tail) # Capacity - 1
    BY <2>1, SizeAfterPush, SizeType
  <2>3. QED BY <2>2, CapacityAssumption
<1>2. TypeOK'
  BY DEF IInv, TypeOK, PushBegin, consumerVars
<1>3. PushInv'
  BY <1>1 DEF IInv, PushInv, PushBegin
<1>4. PopInv' /\ RingInv'
  BY DEF IInv, PopInv, RingInv, PushBegin, consumerVars
<1>5. QED BY <1>2, <1>3, <1>4 DEF IInv

LEMMA PushWriteInv == ASSUME IInv, PushWrite PROVE IInv'
<1>1. TypeOK /\ ptail = tail /\ pvalue \in Value /\ Size(head, tail) < Capacity - 1
  BY DEF IInv, PushInv, PushWrite
<1>2. \A i \in 1..Size(head, tail) : buffer'[Slot(head + i - 1)] = buffer[Slot(head + i - 1)]
  BY <1>1, OccupiedSlot DEF TypeOK, PushWrite
<1>3. buffer'[ptail] = pvalue
  BY <1>1 DEF TypeOK, PushWrite
<1>4. TypeOK'
  BY <1>1 DEF TypeOK, PushWrite, consumerVars
<1>5. PushInv'
  BY <1>1, <1>3 DEF PushInv, PushWrite
<1>6. RingInv'
  BY <1>2 DEF IInv, RingInv, PushWrite, consumerVars
<1>7. ASSUME cpc' = "copy" 
      PROVE  /\ count' \in 1..Size(head, tail)'
             /\ Len(out') <= count'
             /\ \A i \in 1..Len(out') : out'[i] = buffer'[Slot(head' + i - 1)]
  <2>1. /\ count \in 1..Size(head, tail)
        /\ Len(out) <= count
        /\ \A i \in 1..Len(out) : out[i] = buffer[Slot(head + i - 1)]
    BY <1>7 DEF IInv, PopInv, PushWrite, consumerVars
  <2>2. head' = head /\ tail' = tail /\ count' = count /\ out' = out
    BY DEF PushWrite, consumerVars
  <2>3. \A i \in 1..Len(out) : i \in 1..Size(head, tail)
    BY <2>1, SizeType, CapacityAssumption, SMTT(20) DEF IInv, TypeOK
  <2>4. QED BY <1>2, <2>1, <2>2, <2>3
<1>8. PopInv'
  BY <1>7 DEF IInv, PopInv, PushWrite, consumerVars
<1>9. QED BY <1>4, <1>5, <1>6, <1>8 DEF IInv

LEMMA PushPublishInv == ASSUME IInv, PushPublish PROVE IInv'
<1>1. /\ TypeOK /\ ptail = tail /\ pvalue \in Value /\ buffer[tail] = pvalue
      /\ Size(head, tail) \in 0..(Capacity - 2)
  BY SizeType, CapacityAssumption DEF IInv, PushInv, PushPublish, TypeOK
<1>2. tail' \in Index /\ Size(head, tail') = Size(head, tail) + 1
  BY <1>1, SizeAfterPush, CapacityAssumption DEF TypeOK, PushPublish
<1>3. head' = head /\ buffer' = buffer
  BY DEF PushPublish
<1>4. TypeOK'
  BY <1>1, <1>2 DEF TypeOK, PushPublish, consumerVars
<1>5. PushInv'
  BY DEF PushInv, PushPublish
<1>6. ASSUME NEW i \in 1..(Size(head, tail) + 1)
      PROVE  buffer[Slot(head + i - 1)] \in Value
  <2>1. CASE i \in 1..Size(head, tail)
    BY <2>1 DEF IInv, RingInv
  <2>2. CASE i = Size(head, tail) + 1
    <3>1. Slot(head + Size(head, tail)) = tail
      BY <1>1, SlotOfTail, CapacityAssumption DEF TypeOK
    <3>2. head + i - 1 = head + Size(head, tail)
      BY <1>1, <2>2 DEF TypeOK, Index
    <3>3. QED BY <1>1, <3>1, <3>2
  <2>3. QED BY <1>1, <2>1, <2>2
<1>7. RingInv'
  BY <1>2, <1>3, <1>6 DEF RingInv
<1>8. PopInv'
  <2>1. head # tail => head' # tail'
    BY <1>1, <1>2, <1>3, SizeType, CapacityAssumption DEF TypeOK
  <2>2. count \in 1..Size(head, tail) => count \in 1..Size(head, tail')
    BY <1>1, <1>2
  <2>3. QED BY <1>3, <2>1, <2>2 DEF IInv, PopInv, PushPublish, consumerVars
<1>9. QED BY <1>4, <1>5, <1>7, <1>8 DEF IInv

LEMMA LoadInv ==
  ASSUME IInv, PopLoadHead \/ BatchPoll \/ BatchTimeout \/ BatchLoadHead
  PROVE  IInv'
<1>1. /\ buffer' = buffer /\ head' = head /\ tail' = tail
      /\ ppc' = ppc /\ ptail' = ptail /\ pvalue' = pvalue
  BY DEF PopLoadHead, BatchPoll, BatchTimeout, BatchLoadHead, producerVars
<1>2. TypeOK'
  <2>1. <<>> \in Seq(Value \cup {NoValue})
    OBVIOUS
  <2>2. QED BY <2>1 DEF IInv, TypeOK, PopLoadHead, BatchPoll, BatchTimeout, BatchLoadHead, producerVars
<1>3. PushInv' /\ RingInv'
  BY <1>1 DEF IInv, PushInv, RingInv
<1>4. PopInv'
  BY DEF IInv, PopInv, PopLoadHead, BatchPoll, BatchTimeout, BatchLoadHead, producerVars
<1>5. QED BY <1>2, <1>3, <1>4 DEF IInv

LEMMA CompareInv == ASSUME IInv, PopCompare PROVE IInv'
<1>1. /\ buffer' = buffer /\ head' = head /\ tail' = tail
      /\ ppc' = ppc /\ ptail' = ptail /\ pvalue' = pvalue
  BY DEF PopCompare, producerVars
<1>2. TypeOK'
  <2>1. <<>> \in Seq(Value \cup {NoValue}) /\ 1 \in 0..(Capacity - 1)
    BY CapacityAssumption
  <2>2. QED BY <2>1 DEF IInv, TypeOK, PopCompare, producerVars
<1>3. PushInv' /\ RingInv'
  BY <1>1 DEF IInv, PushInv, RingInv
<1>4. PopInv'
  <2>1. chead = head
    BY DEF IInv, PopInv, PopCompare
  <2>2. CASE chead = tail
    BY <2>2 DEF PopInv, PopCompare
  <2>3. CASE chead # tail
    <3>1. Size(head, tail) \in 0..(Capacity - 1) /\ Size(head, tail) # 0
      BY <2>1, <2>3, SizeType DEF IInv, TypeOK
    <3>2. 1 \in 1..Size(head, tail)
      BY <3>1, CapacityAssumption
    <3>3. cpc' = "copy" /\ count' = 1 /\ out' = <<>> /\ chead' = chead
      BY <2>3 DEF PopCompare
    <3>4. QED BY <1>1, <2>1, <3>2, <3>3 DEF PopInv
  <2>4. QED BY <2>2, <2>3
<1>5. QED BY <1>2, <1>3, <1>4 DEF IInv

LEMMA LoadTailInv == ASSUME IInv, BatchLoadTail PROVE IInv'
<1>1. /\ buffer' = buffer /\ head' = head /\ tail' = tail
      /\ ppc' = ppc /\ ptail' = ptail /\ pvalue' = pvalue
  BY DEF BatchLoadTail, producerVars
<1>2. chead = head /\ head # tail
  BY DEF IInv, PopInv, BatchLoadTail
<1>3. Size(head, tail) \in 1..(Capacity - 1)
  BY <1>2, SizeType, CapacityAssumption DEF IInv, TypeOK
<1>4. count' \in 1..Size(head, tail)
  BY <1>2, <1>3, MaxBatchAssumption, CapacityAssumption DEF BatchLoadTail
<1>5. TypeOK'
  <2>1. <<>> \in Seq(Value \cup {NoValue}) /\ count' \in 0..(Capacity - 1)
    BY <1>3, <1>4, CapacityAssumption
  <2>2. QED BY <2>1 DEF IInv, TypeOK, BatchLoadTail, producerVars
<1>6. PushInv' /\ RingInv'
  BY <1>1 DEF IInv, PushInv, RingInv
<1>7. PopInv'
  <2>1. cpc' = "copy" /\ out' = <<>> /\ chead' = chead
    BY DEF BatchLoadTail
  <2>2. Len(out') <= count'
    BY <1>3, <1>4, <2>1
  <2>3. QED BY <1>1, <1>2, <1>4, <2>1, <2>2 DEF PopInv
<1>8. QED BY <1>5, <1>6, <1>7 DEF IInv

LEMMA CopyInv == ASSUME IInv, PopCopy PROVE IInv'
<1>1. /\ buffer' = buffer /\ head' = head /\ tail' = tail
      /\ ppc' = ppc /\ ptail' = ptail /\ pvalue' = pvalue
      /\ cpc' = "copy" /\ cpc = "copy" /\ chead' = chead /\ count' = count
  BY DEF PopCopy, producerVars
<1>2. /\ chead = head /\ count \in 1..Size(head, tail)
      /\ \A i \in 1..Len(out) : out[i] = buffer[Slot(head + i - 1)]
      /\ Len(out) \in Nat /\ Len(out) < count /\ Size(head, tail) \in 0..(Capacity - 1)
      /\ out \in Seq(Value \cup {NoValue}) /\ head \in Index
  BY SizeType DEF IInv, TypeOK, PopInv, PopCopy
<1> DEFINE w == buffer[Slot(head + Len(out))]
<1>3. out' = Append(out, w)
  BY <1>2 DEF PopCopy
<1>4. w \in Value \cup {NoValue}
  <2>1. head + Len(out) \in 0..(2 * Capacity - 1)
    BY <1>2, CapacityAssumption DEF Index
  <2>2. QED BY <2>1, SlotIndex DEF IInv, TypeOK
<1>5. out' \in Seq(Value \cup {NoValue}) /\ Len(out') = Len(out) + 1
  BY <1>2, <1>3, <1>4
<1>6. \A i \in 1..Len(out') : out'[i] = buffer[Slot(head + i - 1)]
  <2> SUFFICES ASSUME NEW i \in 1..Len(out') PROVE out'[i] = buffer[Slot(head + i - 1)]
    OBVIOUS
  <2>1. CASE i \in 1..Len(out)
    BY <1>2, <1>3, <2>1
  <2>2. CASE i = Len(out) + 1
    <3>1. head + i - 1 = head + Len(out)
      BY <1>2, <2>2 DEF Index
    <3>2. out'[i] = w
      BY <1>2, <1>3, <2>2
    <3>3. QED BY <3>1, <3>2
  <2>3. QED BY <1>2, <1>5, <2>1, <2>2
<1>7. TypeOK'
  BY <1>1, <1>5 DEF IInv, TypeOK, PopCopy, producerVars
<1>8. PushInv' /\ RingInv'
  BY <1>1 DEF IInv, PushInv, RingInv
<1>9. PopInv'
  <2>1. Len(out') <= count'
    BY <1>1, <1>2, <1>5
  <2>2. QED BY <1>1, <1>2, <1>6, <2>1 DEF PopInv
<1>10. QED BY <1>7, <1>8, <1>9 DEF IInv

LEMMA ReleaseInv == ASSUME IInv, PopRelease PROVE IInv'
<1>1. /\ buffer' = buffer /\ tail' = tail /\ cpc' = "idle"
      /\ ppc' = ppc /\ ptail' = ptail /\ pvalue' = pvalue
      /\ head' = Slot(head + count)
  BY DEF PopRelease, producerVars, IInv, PopInv
<1>2. /\ count \in 1..Size(head, tail) /\ head \in Index /\ tail \in Index
      /\ Size(head, tail) \in 0..(Capacity - 1)
  BY SizeType DEF IInv, TypeOK, PopInv, PopRelease
<1>3. /\ head' \in Index
      /\ Size(head', tail) = Size(head, tail) - count
      /\ \A i \in 0..(Size(head, tail) - count - 1) : Slot(head' + i) = Slot(head + (count + i))
  BY <1>1, <1>2, SizeAfterPop
<1>4. TypeOK'
  BY <1>3 DEF IInv, TypeOK, PopRelease, producerVars
<1>5. PushInv'
  BY <1>1, <1>2, <1>3, CapacityAssumption DEF IInv, PushInv
<1>6. PopInv'
  BY <1>1 DEF PopInv
<1>7. RingInv'
  <2> SUFFICES ASSUME NEW i \in 1..Size(head', tail)
               PROVE  buffer[Slot(head' + i - 1)] \in Value
    BY <1>1 DEF RingInv
  <2> DEFINE j == i + count
  <2>1. j \in 1..Size(head, tail)
    BY <1>2, <1>3
  <2>2. /\ i - 1 \in 0..(Size(head, tail) - count - 1)
        /\ head' + (i - 1) = head' + i - 1
        /\ head + (count + (i - 1)) = head + j - 1
    BY <1>2, <1>3 DEF Index
  <2>3. Slot(head' + i - 1) = Slot(head + j - 1)
    BY <1>3, <2>2
  <2>4. QED BY <2>1, <2>3 DEF IInv, RingInv
<1>8. QED BY <1>4, <1>5, <1>6, <1>7 DEF IInv

LEMMA NextInv == IInv /\ [Next]_vars => IInv'
<1> SUFFICES ASSUME IInv, [Next]_vars PROVE IInv'
  OBVIOUS
<1>1. CASE \E v \in Value : PushBegin(v)
  BY <1>1, PushBeginInv
<1>2. CASE PushFull
  <2>1. TypeOK'
    BY <1>2 DEF IInv, TypeOK, PushFull, consumerVars
  <2>2. PushInv' /\ PopInv' /\ RingInv'
    BY <1>2 DEF IInv, PushInv, PopInv, RingInv, PushFull, consumerVars
  <2>3. QED BY <2>1, <2>2 DEF IInv
<1>3. CASE PushWrite
  BY <1>3, PushWriteInv
<1>4. CASE PushPublish
  BY <1>4, PushPublishInv
<1>5. CASE PopLoadHead \/ BatchPoll \/ BatchTimeout \/ BatchLoadHead
  BY <1>5, LoadInv
<1>6. CASE PopCompare
  BY <1>6, CompareInv
<1>7. CASE BatchLoadTail
  BY <1>7, LoadTailInv
<1>8. CASE PopCopy
  BY <1>8, CopyInv
<1>9. CASE PopRelease
  BY <1>9, ReleaseInv
<1>10. CASE UNCHANGED vars
  BY <1>10 DEF vars, producerVars, consumerVars, IInv, TypeOK, PushInv, PopInv, RingInv
<1>11. QED
  BY <1>1, <1>2, <1>3, <1>4, <1>5, <1>6, <1>7, <1>8, <1>9, <1>10 DEF Next, Push, Pop

-----------------------------------------------------------------------------
(* Invariance theorems *)

\* IInv holds in every reachable state.
THEOREM Invariance == Spec => []IInv
<1>1. Init => IInv
  BY InitInv
<1>2. IInv /\ [Next]_vars => IInv'
  BY NextInv
<1>3. QED BY <1>1, <1>2, PTL DEF Spec

\* The indices stay inside the ring and every slot holds a value or nothing.
THEOREM TypeCorrect == Spec => []TypeOK
<1>1. IInv => TypeOK
  BY DEF IInv
<1>2. QED BY <1>1, Invariance, PTL

LEMMA InvExcludes == IInv => SlotExclusion
<1> SUFFICES ASSUME IInv, ppc = "write", cpc = "copy", NEW i \in Len(out)..(count - 1)
             PROVE  ptail # Slot(chead + i)
  BY DEF SlotExclusion, Unread
<1>1. /\ ptail = tail /\ chead = head /\ count \in 1..Size(head, tail)
      /\ Len(out) \in Nat
  BY DEF IInv, TypeOK, PushInv, PopInv
<1>2. head \in Index /\ tail \in Index /\ Size(head, tail) \in 0..(Capacity - 1)
  BY SizeType DEF IInv, TypeOK
<1>3. i \in 0..(Capacity - 1) /\ i # Size(head, tail)
  BY <1>1, <1>2, CapacityAssumption
<1>4. QED BY <1>1, <1>2, <1>3, SlotOfTail

\* push() never writes a slot that popBatch is still going to read.
THEOREM NoSlotRace == Spec => []SlotExclusion
BY Invariance, InvExcludes, PTL

-----------------------------------------------------------------------------
(* The ring implements the bounded FIFO queue *)

\* The queue held by slots b between head h and tail t, now or after a step.
Held(b, h, t) == [i \in 1..Size(h, t) |-> b[Slot(h + i - 1)]]

LEMMA HeldType ==
  ASSUME NEW b, NEW h \in Index, NEW t \in Index,
         \A i \in 1..Size(h, t) : b[Slot(h + i - 1)] \in Value
  PROVE  /\ Held(b, h, t) \in Seq(Value)
         /\ Len(Held(b, h, t)) = Size(h, t)
         /\ Size(h, t) \in 0..(Capacity - 1)
         /\ \A i \in 1..Size(h, t) : Held(b, h, t)[i] = b[Slot(h + i - 1)]
<1>1. Size(h, t) \in 0..(Capacity - 1)
  BY SizeType
<1>2. Size(h, t) \in Nat
  BY <1>1, CapacityAssumption
<1>3. Held(b, h, t) \in [1..Size(h, t) -> Value]
  BY DEF Held
<1>4. Held(b, h, t) \in Seq(Value)
  BY <1>2, <1>3, SeqDef
<1>5. Len(Held(b, h, t)) = Size(h, t)
  BY <1>2, <1>3
<1>6. QED BY <1>1, <1>4, <1>5 DEF Held

LEMMA ContentsType ==
  ASSUME IInv
  PROVE  /\ Contents \in Seq(Value)
         /\ Len(Contents) = Size(head, tail)
         /\ Size(head, tail) \in 0..(Capacity - 1)
         /\ \A i \in 1..Size(head, tail) : Contents[i] = buffer[Slot(head + i - 1)]
<1>1. Contents = Held(buffer, head, tail)
  BY DEF Contents, Held
<1>2. QED BY <1>1, HeldType DEF IInv, TypeOK, RingInv

LEMMA ContentsTypeNext ==
  ASSUME IInv'
  PROVE  /\ Contents' \in Seq(Value)
         /\ Len(Contents') = Size(head', tail')
         /\ \A i \in 1..Size(head', tail') : Contents'[i] = buffer'[Slot(head' + i - 1)]
<1>1. Contents' = Held(buffer', head', tail')
  BY DEF Contents, Held
<1>2. QED BY <1>1, HeldType DEF IInv, TypeOK, RingInv

LEMMA FifoInit == Init => Fifo!Init
<1> SUFFICES ASSUME Init PROVE Fifo!Init
  OBVIOUS
<1>1. Contents \in Seq(Value) /\ Len(Contents) = 0
  BY InitInv, ContentsType, CapacityAssumption DEF Init, Size
<1>2. Contents = <<>>
  BY <1>1, EmptySeq
<1>3. QED BY <1>2 DEF Init, Fifo!Init

LEMMA FifoPut == ASSUME IInv, IInv', PushPublish PROVE Fifo!Put(pvalue)
<1>1. /\ head' = head /\ buffer' = buffer /\ tail' = Slot(tail + 1)
      /\ status' = "ok" /\ result' = result
  BY DEF IInv, PushInv, PushPublish, consumerVars
<1>2. /\ pvalue \in Value /\ buffer[tail] = pvalue /\ Size(head, tail) < Capacity - 1
      /\ head \in Index /\ tail \in Index
  BY DEF IInv, TypeOK, PushInv, PushPublish
<1>3. Size(head, tail') = Size(head, tail) + 1
  <2>1. Size(head, tail) \in 0..(Capacity - 1) /\ Size(head, tail) # Capacity - 1
    BY <1>2, SizeType, CapacityAssumption
  <2>2. QED BY <1>1, <1>2, <2>1, SizeAfterPush
<1>4. /\ Contents \in Seq(Value) /\ Len(Contents) = Size(head, tail)
      /\ Size(head, tail) \in 0..(Capacity - 1)
      /\ \A i \in 1..Size(head, tail) : Contents[i] = buffer[Slot(head + i - 1)]
  BY ContentsType
<1>5. /\ Contents' \in Seq(Value) /\ Len(Contents') = Size(head, tail')
      /\ \A i \in 1..Size(head, tail') : Contents'[i] = buffer[Slot(head + i - 1)]
  BY <1>1, ContentsTypeNext
<1>6. Append(Contents, pvalue) \in Seq(Value) /\ Len(Append(Contents, pvalue)) = Size(head, tail) + 1
  BY <1>2, <1>4
<1>7. ASSUME NEW i \in 1..(Size(head, tail) + 1)
      PROVE  Contents'[i] = Append(Contents, pvalue)[i]
  <2>1. CASE i \in 1..Size(head, tail)
    BY <1>3, <1>4, <1>5, <2>1
  <2>2. CASE i = Size(head, tail) + 1
    <3>1. Slot(head + Size(head, tail)) = tail
      BY <1>2, <1>4, SlotOfTail
    <3>2. head + i - 1 = head + Size(head, tail)
      BY <1>2, <1>4, <2>2 DEF Index
    <3>3. Append(Contents, pvalue)[i] = pvalue
      BY <1>4, <2>2
    <3>4. Contents'[i] = buffer[Slot(head + i - 1)]
      BY <1>3, <1>5
    <3>5. QED BY <1>2, <3>1, <3>2, <3>3, <3>4
  <2>3. QED BY <1>4, <2>1, <2>2
<1>8. Contents' = Append(Contents, pvalue)
  BY <1>3, <1>5, <1>6, <1>7, SeqEqual
<1>9. QED BY <1>1, <1>2, <1>4, <1>8 DEF Fifo!Put

LEMMA FifoTake == ASSUME IInv, IInv', PopRelease PROVE Fifo!Take(count) /\ count \in 1..Len(Contents)
<1>1. /\ buffer' = buffer /\ tail' = tail /\ head' = Slot(head + count)
      /\ status' = status /\ result' = out
  BY DEF IInv, PopInv, PopRelease, producerVars
<1>2. /\ count \in 1..Size(head, tail) /\ Len(out) = count
      /\ \A i \in 1..Len(out) : out[i] = buffer[Slot(head + i - 1)]
      /\ out \in Seq(Value \cup {NoValue}) /\ head \in Index /\ tail \in Index
  BY DEF IInv, TypeOK, PopInv, PopRelease
<1>3. /\ Contents \in Seq(Value) /\ Len(Contents) = Size(head, tail)
      /\ Size(head, tail) \in 0..(Capacity - 1)
      /\ \A i \in 1..Size(head, tail) : Contents[i] = buffer[Slot(head + i - 1)]
  BY ContentsType
<1>4. /\ head' \in Index /\ Size(head', tail) = Size(head, tail) - count
      /\ \A i \in 0..(Size(head, tail) - count - 1) : Slot(head' + i) = Slot(head + (count + i))
  <2>1. count \in 0..Size(head, tail) /\ head \in Index /\ tail \in Index
    BY <1>2, <1>3
  <2>2. QED BY <1>1, <2>1, SizeAfterPop
<1>5. /\ Contents' \in Seq(Value) /\ Len(Contents') = Size(head, tail) - count
      /\ \A i \in 1..(Size(head, tail) - count) : Contents'[i] = buffer[Slot(head' + i - 1)]
  BY <1>1, <1>4, ContentsTypeNext
<1>6. result' = SubSeq(Contents, 1, count)
  <2> DEFINE s == SubSeq(Contents, 1, count)
  <2>1. /\ s \in Seq(Value) /\ Len(s) = count
        /\ \A i \in 1..count : s[i] = Contents[i]
    BY <1>2, <1>3
  <2>2. s \in Seq(Value \cup {NoValue})
    BY <2>1, SeqMonotonic
  <2>3. \A i \in 1..count : out[i] = s[i]
    BY <1>2, <1>3, <2>1
  <2>4. out = s
    BY <1>2, <2>1, <2>2, <2>3, SeqEqual
  <2>5. QED BY <1>1, <2>4
<1>7. Contents' = SubSeq(Contents, count + 1, Len(Contents))
  <2> DEFINE s == SubSeq(Contents, count + 1, Len(Contents))
             m == Size(head, tail) - count
  <2>1. /\ s \in Seq(Value) /\ Len(s) = m
        /\ \A i \in 1..m : s[i] = Contents[count + i]
    BY <1>2, <1>3
  <2>2. ASSUME NEW i \in 1..m PROVE Contents'[i] = s[i]
    <3>1. i - 1 \in 0..(m - 1) /\ count + i \in 1..Size(head, tail)
      BY <1>2, <1>3
    <3>2. Slot(head' + (i - 1)) = Slot(head + (count + (i - 1)))
      BY <1>4, <3>1
    <3>3. head' + (i - 1) = head' + i - 1 /\ head + (count + (i - 1)) = head + (count + i) - 1
      BY <1>2, <1>3, <1>4 DEF Index
    <3>4. Contents'[i] = buffer[Slot(head + (count + i) - 1)]
      BY <1>5, <3>2, <3>3
    <3>5. QED BY <1>3, <2>1, <3>1, <3>4
  <2>3. QED BY <1>5, <2>1, <2>2, SeqEqual
<1>8. QED BY <1>1, <1>2, <1>3, <1>6, <1>7 DEF Fifo!Take

LEMMA FifoStep == ASSUME IInv, IInv', [Next]_vars PROVE [Fifo!Next]_(Fifo!vars)
<1>1. /\ Contents \in Seq(Value) /\ Len(Contents) = Size(head, tail)
      /\ Size(head, tail) \in 0..(Capacity - 1)
      /\ head \in Index /\ tail \in Index
  BY ContentsType DEF IInv, TypeOK
<1>2. CASE PushFull
  <2>1. Len(Contents) = Capacity - 1
    BY <1>1, <1>2, SizeAfterPush DEF PushFull
  <2>2. Contents' = Contents /\ status' = "full" /\ result' = result
    BY <1>2 DEF PushFull, Contents, consumerVars
  <2>3. Fifo!Refuse
    BY <2>1, <2>2 DEF Fifo!Refuse
  <2>4. QED BY <2>3 DEF Fifo!Next
<1>3. CASE PushPublish
  <2>1. Fifo!Put(pvalue) /\ pvalue \in Value
    BY <1>3, FifoPut DEF IInv, PushInv, PushPublish
  <2>2. QED BY <2>1 DEF Fifo!Next
<1>4. CASE PushWrite
  <2>1. ptail = tail /\ \A i \in 1..Size(head, tail) :
                            buffer'[Slot(head + i - 1)] = buffer[Slot(head + i - 1)]
    BY <1>4, OccupiedSlot DEF IInv, TypeOK, PushInv, PushWrite
  <2>2. head' = head /\ tail' = tail /\ status' = status /\ result' = result
    BY <1>4 DEF PushWrite, consumerVars
  <2>3. Contents' = Contents
    BY <2>1, <2>2 DEF Contents
  <2>4. QED BY <2>2, <2>3 DEF Fifo!vars
<1>5. CASE \/ \E v \in Value : PushBegin(v)
           \/ PopLoadHead \/ BatchPoll \/ BatchLoadHead \/ BatchLoadTail \/ PopCopy
           \/ UNCHANGED vars
  <2>1. /\ buffer' = buffer /\ head' = head /\ tail' = tail
        /\ status' = status /\ result' = result
    BY <1>5 DEF PushBegin, PopLoadHead, BatchPoll, BatchLoadHead, BatchLoadTail, PopCopy,
                vars, producerVars, consumerVars
  <2>2. Contents' = Contents
    BY <2>1 DEF Contents
  <2>3. QED BY <2>1, <2>2 DEF Fifo!vars
<1>6. CASE PopCompare
  <2>1. /\ buffer' = buffer /\ head' = head /\ tail' = tail /\ status' = status
        /\ chead = head
    BY <1>6 DEF PopCompare, producerVars, IInv, PopInv
  <2>2. Contents' = Contents
    BY <2>1 DEF Contents
  <2>3. CASE head # tail
    <3>1. result' = result
      BY <1>6, <2>1, <2>3 DEF PopCompare
    <3>2. QED BY <2>1, <2>2, <3>1 DEF Fifo!vars
  <2>4. CASE head = tail
    <3>1. result' = <<>> /\ Contents = <<>>
      BY <1>1, <1>6, <2>1, <2>4, SizeType, EmptySeq DEF PopCompare
    <3>2. Fifo!TakeNothing
      BY <2>1, <2>2, <3>1 DEF Fifo!TakeNothing
    <3>3. QED BY <3>2 DEF Fifo!Next
  <2>5. QED BY <2>3, <2>4
<1>7. CASE BatchTimeout
  <2>1. /\ buffer' = buffer /\ head' = head /\ tail' = tail /\ status' = status
        /\ head = tail /\ result' = <<>>
    BY <1>7 DEF BatchTimeout, producerVars
  <2>2. Contents' = Contents
    BY <2>1 DEF Contents
  <2>3. Contents = <<>>
    BY <1>1, <2>1, SizeType, EmptySeq
  <2>4. Fifo!TakeNothing
    BY <2>1, <2>2, <2>3 DEF Fifo!TakeNothing
  <2>5. QED BY <2>4 DEF Fifo!Next
<1>8. CASE PopRelease
  <2>1. Fifo!Take(count) /\ count \in 1..Len(Contents)
    BY <1>8, FifoTake
  <2>2. QED BY <2>1 DEF Fifo!Next
<1>9. QED
  BY <1>2, <1>3, <1>4, <1>5, <1>6, <1>7, <1>8 DEF Next, Push, Pop

\* The lock-free ring is a FIFO queue of Capacity - 1 values, linearised at the
\* stores of tail_ and head_.
THEOREM RingIsFifo == Spec => ImplementsFifo
<1>1. Init => Fifo!Init
  BY FifoInit
<1>2. IInv /\ IInv' /\ [Next]_vars => [Fifo!Next]_(Fifo!vars)
  BY FifoStep
<1>3. QED BY <1>1, <1>2, Invariance, PTL DEF Spec, ImplementsFifo, Fifo!Spec

-----------------------------------------------------------------------------
(* What always holds, whatever the two threads do to the ring *)

\* The receiving thread is disposing of what recvmmsg returned.
InPass == rpc \in {"push", "put", "overflow"}

\* start() and stop() change what the threads poll only when they are not there.
Life ==
  /\ apc = "idle" /\ ~start_flag => rpc = "off" /\ hpc \in {"off", "dead"}
  /\ apc \in {"starting", "joinHandle"} => rpc = "off"

\* What recvmmsg is given, and what of it is still to be pushed, is in the pool.
PassInv ==
  /\ rpc = "put" <=> ppc \in {"write", "publish"}
  /\ ppc = "clear" => rpc = "overflow"
  /\ rpc = "put" => pvalue = pool[k]
  /\ rpc \in {"put", "overflow"} => k <= got
  /\ InPass => /\ k <= got + 1 /\ got <= arrived
               /\ \A i \in k..got : pool[i] # NoValue
  /\ rpc = "fill" => \A i \in 1..(k - 1) : pool[i] # NoValue
  /\ rpc = "fill" \/ InPass => ready >= 1

\* A batch is never longer than the ring.
BatchInv == hpc = "decode" => next \in 1..Len(result) /\ Len(result) < Capacity

TypeInv == TypeOK /\ DriverTypeOK /\ Life /\ PassInv /\ BatchInv

-----------------------------------------------------------------------------
(* What holds until a clear() meets a popBatch() *)

\* clear() leaves the ring inconsistent between its two stores, when nothing is
\* being popped.
QueueInv == IF ppc = "clear" THEN TypeOK /\ cpc = "idle" /\ head = 0 ELSE IInv

\* The buffers that wait to be decoded, the next one first.
Waiting == Remaining \o Queued

\* A pool pl, the waiting buffers w and the free buffers f have none in common.
HoldersOf(pl, w, f) ==
  /\ \A i, j \in 1..Vlen : pl[i] = pl[j] /\ pl[i] # NoValue => i = j
  /\ \A i, j \in 1..Len(f) : f[i] = f[j] => i = j
  /\ \A i \in 1..Vlen, j \in 1..Len(w) : pl[i] # w[j]
  /\ \A i \in 1..Vlen, j \in 1..Len(f) : pl[i] # f[j]
  /\ \A i \in 1..Len(w), j \in 1..Len(f) : w[i] # f[j]

\* The packets up to this one are settled: decoded, dropped or waiting.
Settled == IF InPass THEN arrived - got + (IF ppc = "clear" THEN k ELSE k - 1) ELSE arrived

\* With contents c, each packet up to n is in the dropped set x, or once among the
\* decoded packets d followed by those of the waiting buffers w, which are in order.
NumbersOf(c, w, d, x, n) ==
  /\ \A i, j \in 1..Len(w) : i < j => c[w[i]].seq < c[w[j]].seq
  /\ \A i, j \in 1..Len(d) : i < j => d[i].seq < d[j].seq
  /\ \A i \in 1..Len(d), j \in 1..Len(w) : d[i].seq < c[w[j]].seq
  /\ \A i \in 1..Len(w) : c[w[i]].seq \in 1..n \ x
  /\ \A i \in 1..Len(d) : d[i].seq \in 1..n \ x
  /\ x \subseteq 1..n
  /\ \A m \in 1..n \ x : \/ \E i \in 1..Len(w) : c[w[i]].seq = m
                         \/ \E i \in 1..Len(d) : d[i].seq = m

\* The pool holds the other packets, in the order they arrived.
PassNumbers == InPass => \A i \in k..got : content[pool[i]].seq = arrived - got + i

Ordered ==
  /\ hpc # "dead"
  /\ QueueInv
  /\ Remaining \in Seq(Value)
  /\ HoldersOf(pool, Waiting, free)
  /\ NumbersOf(content, Waiting, decoded, dropped, Settled)
  /\ PassNumbers

DriverInv == TypeInv /\ (overlapped \/ Ordered)

-----------------------------------------------------------------------------
(* Buffers move from one place to another *)

LEMMA HoldersPublish ==
  ASSUME NEW pl \in [1..Vlen -> Value \cup {NoValue}], NEW w \in Seq(Value), NEW f \in Seq(Value),
         NEW i \in 1..Vlen, pl[i] # NoValue, HoldersOf(pl, w, f)
  PROVE  HoldersOf([pl EXCEPT ![i] = NoValue], Append(w, pl[i]), f)
BY NoValueAssumption, DriverAssumption DEF HoldersOf

LEMMA HoldersEmpty ==
  ASSUME NEW pl \in [1..Vlen -> Value \cup {NoValue}], NEW w \in Seq(Value), NEW f \in Seq(Value),
         NEW i \in 1..Vlen, HoldersOf(pl, w, f)
  PROVE  HoldersOf([pl EXCEPT ![i] = NoValue], w, f)
BY NoValueAssumption, DriverAssumption DEF HoldersOf

LEMMA HoldersExit ==
  ASSUME NEW pl, NEW w \in Seq(Value), NEW f \in Seq(Value), HoldersOf(pl, w, f)
  PROVE  HoldersOf([i \in 1..Vlen |-> NoValue], w, f)
BY NoValueAssumption, DriverAssumption DEF HoldersOf

LEMMA HoldersReuse ==
  ASSUME NEW pl \in [1..Vlen -> Value \cup {NoValue}], NEW w \in Seq(Value), NEW f \in Seq(Value),
         NEW i \in 1..Vlen, f # <<>>, HoldersOf(pl, w, f)
  PROVE  HoldersOf([pl EXCEPT ![i] = Head(f)], w, Tail(f))
BY NoValueAssumption, DriverAssumption DEF HoldersOf

LEMMA HoldersNew ==
  ASSUME NEW pl \in [1..Vlen -> Value \cup {NoValue}], NEW w \in Seq(Value), NEW f \in Seq(Value),
         NEW i \in 1..Vlen, NEW b \in Value, HoldersOf(pl, w, f),
         \A j \in 1..Vlen : pl[j] # b, \A j \in 1..Len(w) : w[j] # b, \A j \in 1..Len(f) : f[j] # b
  PROVE  HoldersOf([pl EXCEPT ![i] = b], w, f)
BY NoValueAssumption, DriverAssumption DEF HoldersOf

LEMMA HoldersClear ==
  ASSUME NEW pl, NEW r \in Seq(Value), NEW q \in Seq(Value), NEW f \in Seq(Value),
         HoldersOf(pl, r \o q, f)
  PROVE  HoldersOf(pl, r, f)
<1>1. /\ Len(r \o q) = Len(r) + Len(q)
      /\ \A j \in 1..Len(r) : j \in 1..Len(r \o q) /\ (r \o q)[j] = r[j]
  BY ConcatProperties
<1>2. \A i \in 1..Vlen, j \in 1..Len(r) : pl[i] # r[j]
  BY <1>1, Zenon DEF HoldersOf
<1>3. \A i \in 1..Len(r), j \in 1..Len(f) : r[i] # f[j]
  BY <1>1, Zenon DEF HoldersOf
<1> QED BY <1>2, <1>3, Zenon DEF HoldersOf

LEMMA HoldersDecode ==
  ASSUME NEW pl \in [1..Vlen -> Value \cup {NoValue}], NEW w \in Seq(Value), NEW f \in Seq(Value),
         w # <<>>, HoldersOf(pl, w, f), \A i, j \in 1..Len(w) : w[i] = w[j] => i = j
  PROVE  /\ HoldersOf(pl, Tail(w), f)
         /\ HoldersOf(pl, Tail(w), Append(f, Head(w)))
BY NoValueAssumption, DriverAssumption DEF HoldersOf

-----------------------------------------------------------------------------
(* Packets move from one place to another *)

LEMMA NumbersInjective ==
  ASSUME NEW c, NEW w \in Seq(Value), NEW d, NEW x, NEW n, NumbersOf(c, w, d, x, n),
         NEW i \in 1..Len(w), NEW j \in 1..Len(w), w[i] = w[j]
  PROVE  i = j
BY DEF NumbersOf

LEMMA NumbersDrop ==
  ASSUME NEW c, NEW w \in Seq(Value), NEW d \in Seq(Packet), NEW x, NEW n \in Nat,
         NumbersOf(c, w, d, x, n)
  PROVE  NumbersOf(c, w, d, x \cup {n + 1}, n + 1)
<1>1. 1..(n + 1) = 1..n \cup {n + 1} /\ n + 1 \notin 1..n
  OBVIOUS
<1>2. 1..(n + 1) \ (x \cup {n + 1}) = 1..n \ x
  BY <1>1
<1>3. x \cup {n + 1} \subseteq 1..(n + 1)
  BY <1>1 DEF NumbersOf
<1>4. /\ \A i \in 1..Len(w) : c[w[i]].seq \in 1..(n + 1) \ (x \cup {n + 1})
      /\ \A i \in 1..Len(d) : d[i].seq \in 1..(n + 1) \ (x \cup {n + 1})
  BY <1>2, Zenon DEF NumbersOf
<1>5. \A m \in 1..(n + 1) \ (x \cup {n + 1}) : \/ \E i \in 1..Len(w) : c[w[i]].seq = m
                                               \/ \E i \in 1..Len(d) : d[i].seq = m
  BY <1>2, Zenon DEF NumbersOf
<1>6. QED BY <1>3, <1>4, <1>5, Zenon DEF NumbersOf

LEMMA NumbersPublish ==
  ASSUME NEW c, NEW w \in Seq(Value), NEW d \in Seq(Packet), NEW x, NEW n \in Nat,
         NEW b \in Value, c[b].seq = n + 1, NumbersOf(c, w, d, x, n)
  PROVE  NumbersOf(c, Append(w, b), d, x, n + 1)
<1> DEFINE v == Append(w, b)
           m == Len(w)
<1>1. /\ m \in Nat /\ Len(v) = m + 1 /\ v[m + 1] = b
      /\ \A i \in 1..m : v[i] = w[i]
  OBVIOUS
<1>2. 1..(n + 1) = 1..n \cup {n + 1} /\ n + 1 \notin 1..n
  OBVIOUS
<1>3. n + 1 \notin x /\ x \subseteq 1..(n + 1)
  BY <1>2 DEF NumbersOf
<1>4. \A i, j \in 1..Len(v) : i < j => c[v[i]].seq < c[v[j]].seq
  <2> SUFFICES ASSUME NEW i \in 1..Len(v), NEW j \in 1..Len(v), i < j PROVE c[v[i]].seq < c[v[j]].seq
    OBVIOUS
  <2>1. i \in 1..m /\ v[i] = w[i] /\ c[w[i]].seq \in 1..n
    BY <1>1 DEF NumbersOf
  <2>2. CASE j \in 1..m
    BY <1>1, <2>1, <2>2 DEF NumbersOf
  <2>3. CASE j = m + 1
    BY <1>1, <2>1, <2>3
  <2>4. QED BY <1>1, <2>2, <2>3
<1>5. \A i \in 1..Len(d), j \in 1..Len(v) : d[i].seq < c[v[j]].seq
  BY <1>1 DEF NumbersOf
<1>6. \A i \in 1..Len(v) : c[v[i]].seq \in 1..(n + 1) \ x
  BY <1>1, <1>2, <1>3 DEF NumbersOf
<1>7. \A i \in 1..Len(d) : d[i].seq \in 1..(n + 1) \ x
  BY <1>2 DEF NumbersOf
<1>8. \A l \in 1..(n + 1) \ x : \/ \E i \in 1..Len(v) : c[v[i]].seq = l
                                \/ \E i \in 1..Len(d) : d[i].seq = l
  <2> SUFFICES ASSUME NEW l \in 1..(n + 1) \ x
               PROVE  \/ \E i \in 1..Len(v) : c[v[i]].seq = l
                      \/ \E i \in 1..Len(d) : d[i].seq = l
    OBVIOUS
  <2>1. CASE l = n + 1
    BY <1>1, <2>1
  <2>2. CASE l # n + 1
    <3>1. l \in 1..n \ x
      BY <1>2, <2>2
    <3>2. CASE \E i \in 1..Len(w) : c[w[i]].seq = l
      <4>1. PICK i \in 1..m : c[w[i]].seq = l
        BY <3>2
      <4>2. i \in 1..Len(v) /\ c[v[i]].seq = l
        BY <1>1, <4>1
      <4>3. QED BY <4>2
    <3>3. QED BY <3>1, <3>2 DEF NumbersOf
  <2>3. QED BY <2>1, <2>2
<1>9. \A i, j \in 1..Len(d) : i < j => d[i].seq < d[j].seq
  BY DEF NumbersOf
<1> HIDE DEF v
<1>10. NumbersOf(c, v, d, x, n + 1)
  BY <1>3, <1>4, <1>5, <1>6, <1>7, <1>8, <1>9 DEF NumbersOf
<1>11. QED BY <1>10 DEF v

LEMMA NumbersClear ==
  ASSUME NEW c, NEW r \in Seq(Value), NEW q \in Seq(Value), NEW d \in Seq(Packet),
         NEW x, NEW n \in Nat, NumbersOf(c, r \o q, d, x, n)
  PROVE  NumbersOf(c, r, d, x \cup {c[q[i]].seq : i \in 1..Len(q)}, n)
<1> DEFINE w == r \o q
           y == {c[q[i]].seq : i \in 1..Len(q)}
<1>1. /\ Len(w) = Len(r) + Len(q) /\ Len(r) \in Nat /\ Len(q) \in Nat
      /\ \A i \in 1..Len(r) : w[i] = r[i]
      /\ \A i \in 1..Len(q) : w[Len(r) + i] = q[i]
  OBVIOUS
<1>2. \A i \in 1..Len(q) : Len(r) + i \in 1..Len(w)
  BY <1>1
<1>3. \A i \in 1..Len(r) : i \in 1..Len(w) /\ \A j \in 1..Len(q) : i < Len(r) + j
  BY <1>1
<1> HIDE DEF w
<1>4. \A l \in y : l \in 1..n \ x
  <2>1. \A i \in 1..Len(w) : c[w[i]].seq \in 1..n \ x
    BY DEF NumbersOf, w
  <2>2. \A i \in 1..Len(q) : c[q[i]].seq \in 1..n \ x
    BY <1>1, <1>2, <2>1
  <2>3. QED BY <2>2
<1>5. \A i \in 1..Len(r), j \in 1..Len(q) : c[r[i]].seq < c[q[j]].seq
  BY <1>1, <1>2, <1>3 DEF NumbersOf, w
<1>6. \A i \in 1..Len(r) : c[r[i]].seq \in 1..n \ x
  BY <1>1, <1>3 DEF NumbersOf, w
<1>7. \A i \in 1..Len(r) : c[r[i]].seq \notin y
  <2> SUFFICES ASSUME NEW i \in 1..Len(r), NEW j \in 1..Len(q), c[r[i]].seq = c[q[j]].seq
               PROVE  FALSE
    OBVIOUS
  <2>1. c[r[i]].seq < c[q[j]].seq /\ c[r[i]].seq \in 1..n
    BY <1>5, <1>6
  <2>2. QED BY <2>1
<1>8. \A i \in 1..Len(d), j \in 1..Len(q) : d[i].seq < c[q[j]].seq
  BY <1>1, <1>2 DEF NumbersOf, w
<1>9. \A i \in 1..Len(d) : d[i].seq \in 1..n \ x
  BY DEF NumbersOf
<1>10. \A i \in 1..Len(d) : d[i].seq \notin y
  <2> SUFFICES ASSUME NEW i \in 1..Len(d), NEW j \in 1..Len(q), d[i].seq = c[q[j]].seq
               PROVE  FALSE
    OBVIOUS
  <2>1. d[i].seq < c[q[j]].seq /\ d[i].seq \in 1..n
    BY <1>8, <1>9
  <2>2. QED BY <2>1
<1>11. \A i, j \in 1..Len(r) : i < j => c[r[i]].seq < c[r[j]].seq
  BY <1>1, <1>3 DEF NumbersOf, w
<1>12. \A i \in 1..Len(d), j \in 1..Len(r) : d[i].seq < c[r[j]].seq
  BY <1>1, <1>3 DEF NumbersOf, w
<1>13. x \cup y \subseteq 1..n
  BY <1>4 DEF NumbersOf
<1>14. \A l \in 1..n \ (x \cup y) : \/ \E i \in 1..Len(r) : c[r[i]].seq = l
                                    \/ \E i \in 1..Len(d) : d[i].seq = l
  <2> SUFFICES ASSUME NEW l \in 1..n \ (x \cup y)
               PROVE  \/ \E i \in 1..Len(r) : c[r[i]].seq = l
                      \/ \E i \in 1..Len(d) : d[i].seq = l
    OBVIOUS
  <2>1. CASE \E i \in 1..Len(d) : d[i].seq = l
    BY <2>1
  <2>2. CASE \E i \in 1..Len(w) : c[w[i]].seq = l
    <3>1. PICK i \in 1..Len(w) : c[w[i]].seq = l
      BY <2>2
    <3>2. CASE i \in 1..Len(r)
      BY <1>1, <3>1, <3>2
    <3>3. CASE i \notin 1..Len(r)
      <4>1. i - Len(r) \in 1..Len(q) /\ Len(r) + (i - Len(r)) = i
        BY <1>1, <3>3
      <4>2. w[i] = q[i - Len(r)]
        BY <1>1, <4>1
      <4>3. QED BY <3>1, <4>1, <4>2
    <3>4. QED BY <3>2, <3>3
  <2>3. QED BY <2>1, <2>2 DEF NumbersOf, w
<1>15. \A i, j \in 1..Len(d) : i < j => d[i].seq < d[j].seq
  BY DEF NumbersOf
<1>16. QED
  BY <1>6, <1>7, <1>9, <1>10, <1>11, <1>12, <1>13, <1>14, <1>15 DEF NumbersOf

LEMMA NumbersDecode ==
  ASSUME NEW c \in [Value -> Packet], NEW w \in Seq(Value), NEW d \in Seq(Packet),
         NEW x, NEW n \in Nat, w # <<>>, NumbersOf(c, w, d, x, n)
  PROVE  NumbersOf(c, Tail(w), Append(d, c[Head(w)]), x, n)
<1> DEFINE v == Tail(w)
           p == c[Head(w)]
           e == Append(d, p)
           m == Len(d)
<1>1. /\ Len(w) \in Nat \ {0} /\ Len(v) = Len(w) - 1 /\ p = c[w[1]] /\ p \in Packet
      /\ \A i \in 1..Len(v) : v[i] = w[i + 1]
      /\ m \in Nat /\ Len(e) = m + 1 /\ e[m + 1] = p
      /\ \A i \in 1..m : e[i] = d[i]
  OBVIOUS
<1>2. 1 \in 1..Len(w) /\ \A i \in 1..Len(v) : i + 1 \in 1..Len(w) /\ 1 < i + 1
  BY <1>1
<1> HIDE DEF v, p, e
<1>3. \A i, j \in 1..Len(v) : i < j => c[v[i]].seq < c[v[j]].seq
  <2> SUFFICES ASSUME NEW i \in 1..Len(v), NEW j \in 1..Len(v), i < j PROVE c[v[i]].seq < c[v[j]].seq
    OBVIOUS
  <2>1. i + 1 \in 1..Len(w) /\ j + 1 \in 1..Len(w) /\ i + 1 < j + 1
    BY <1>1
  <2>2. c[w[i + 1]].seq < c[w[j + 1]].seq
    BY <2>1, Zenon DEF NumbersOf
  <2>3. QED BY <1>1, <2>2
<1>4. \A i, j \in 1..Len(e) : i < j => e[i].seq < e[j].seq
  <2> SUFFICES ASSUME NEW i \in 1..Len(e), NEW j \in 1..Len(e), i < j PROVE e[i].seq < e[j].seq
    OBVIOUS
  <2>1. i \in 1..m /\ e[i] = d[i]
    BY <1>1
  <2>2. CASE j \in 1..m
    <3>1. d[i].seq < d[j].seq
      BY <2>1, <2>2 DEF NumbersOf
    <3>2. QED BY <1>1, <2>1, <2>2, <3>1
  <2>3. CASE j = m + 1
    <3>1. d[i].seq < c[w[1]].seq
      BY <1>2, <2>1 DEF NumbersOf
    <3>2. QED BY <1>1, <2>1, <2>3, <3>1
  <2>4. QED BY <1>1, <2>2, <2>3
<1>5. \A i \in 1..Len(e), j \in 1..Len(v) : e[i].seq < c[v[j]].seq
  <2>1. \A j \in 1..Len(v) : p.seq < c[v[j]].seq
    BY <1>1, <1>2 DEF NumbersOf
  <2>2. \A i \in 1..m, j \in 1..Len(v) : d[i].seq < c[v[j]].seq
    BY <1>1, <1>2 DEF NumbersOf
  <2>3. QED BY <1>1, <2>1, <2>2
<1>6. \A i \in 1..Len(v) : c[v[i]].seq \in 1..n \ x
  BY <1>1, <1>2 DEF NumbersOf
<1>7. \A i \in 1..Len(e) : e[i].seq \in 1..n \ x
  BY <1>1, <1>2 DEF NumbersOf
<1>8. \A l \in 1..n \ x : \/ \E i \in 1..Len(v) : c[v[i]].seq = l
                          \/ \E i \in 1..Len(e) : e[i].seq = l
  <2> SUFFICES ASSUME NEW l \in 1..n \ x
               PROVE  \/ \E i \in 1..Len(v) : c[v[i]].seq = l
                      \/ \E i \in 1..Len(e) : e[i].seq = l
    OBVIOUS
  <2>1. CASE \E i \in 1..Len(d) : d[i].seq = l
    BY <1>1, <2>1
  <2>2. CASE \E i \in 1..Len(w) : c[w[i]].seq = l
    <3>1. PICK i \in 1..Len(w) : c[w[i]].seq = l
      BY <2>2
    <3>2. CASE i = 1
      BY <1>1, <3>1, <3>2
    <3>3. CASE i # 1
      <4>1. i - 1 \in 1..Len(v) /\ (i - 1) + 1 = i
        BY <1>1, <3>3
      <4>2. v[i - 1] = w[i]
        BY <1>1, <4>1
      <4>3. QED BY <3>1, <4>1, <4>2
    <3>4. QED BY <3>2, <3>3
  <2>3. QED BY <2>1, <2>2 DEF NumbersOf
<1>9. x \subseteq 1..n
  BY DEF NumbersOf
<1>10. NumbersOf(c, v, e, x, n)
  BY <1>3, <1>4, <1>5, <1>6, <1>7, <1>8, <1>9 DEF NumbersOf
<1>11. QED BY <1>10 DEF v, e, p

LEMMA NumbersRewrite ==
  ASSUME NEW c, NEW e, NEW w \in Seq(Value), NEW d \in Seq(Packet),
         NEW x, NEW n, \A i \in 1..Len(w) : e[w[i]] = c[w[i]], NumbersOf(c, w, d, x, n)
  PROVE  NumbersOf(e, w, d, x, n)
BY DEF NumbersOf

-----------------------------------------------------------------------------
(* Types *)

LEMMA QueueTypes ==
  ASSUME TypeOK,
         \/ \E v \in Value : PushBegin(v)
         \/ PushFull \/ PushWrite \/ PushPublish \/ ClearHead \/ ClearTail
         \/ BatchTimeout \/ BatchPoll \/ BatchLoadHead \/ BatchLoadTail \/ PopCopy \/ PopRelease
         \/ UNCHANGED vars
  PROVE  TypeOK'
<1> USE DEF producerVars, consumerVars
<1>1. 0 \in Index
  BY CapacityAssumption DEF Index
<1>2. <<>> \in Seq(Value \cup {NoValue})
  OBVIOUS
<1>3. CASE \E v \in Value : PushBegin(v)
  BY <1>3 DEF TypeOK, PushBegin
<1>4. CASE PushFull \/ ClearHead \/ ClearTail
  BY <1>1, <1>4 DEF TypeOK, PushFull, ClearHead, ClearTail
<1>5. CASE PushWrite
  BY <1>5 DEF TypeOK, PushWrite
<1>6. CASE PushPublish
  <2>1. Slot(ptail + 1) \in Index
    BY SizeAfterPush, <1>1 DEF TypeOK
  <2>2. QED BY <1>6, <2>1 DEF TypeOK, PushPublish
<1>7. CASE BatchTimeout \/ BatchPoll \/ BatchLoadHead
  BY <1>2, <1>7 DEF TypeOK, BatchTimeout, BatchPoll, BatchLoadHead
<1>8. CASE BatchLoadTail
  <2>1. Size(chead, tail) \in 0..(Capacity - 1)
    BY SizeType DEF TypeOK
  <2>2. count' \in 0..(Capacity - 1)
    BY <1>8, <2>1, MaxBatchAssumption, CapacityAssumption DEF BatchLoadTail
  <2>3. QED BY <1>2, <1>8, <2>2 DEF TypeOK, BatchLoadTail
<1>9. CASE PopCopy
  <2>1. chead + Len(out) \in 0..(2 * Capacity - 1)
    BY <1>9, CapacityAssumption DEF TypeOK, PopCopy, Index
  <2>2. buffer[Slot(chead + Len(out))] \in Value \cup {NoValue}
    BY <2>1, SlotIndex DEF TypeOK
  <2>3. out' \in Seq(Value \cup {NoValue})
    BY <1>9, <2>2 DEF TypeOK, PopCopy
  <2>4. QED BY <1>9, <2>3 DEF TypeOK, PopCopy
<1>10. CASE PopRelease
  <2>1. chead + count \in 0..(2 * Capacity - 1)
    BY CapacityAssumption DEF TypeOK, Index
  <2>2. head' \in Index
    BY <1>10, <2>1, SlotIndex DEF PopRelease
  <2>3. QED BY <1>10, <2>2 DEF TypeOK, PopRelease
<1>11. CASE UNCHANGED vars
  BY <1>11 DEF TypeOK, vars
<1>12. QED
  BY <1>3, <1>4, <1>5, <1>6, <1>7, <1>8, <1>9, <1>10, <1>11

LEMMA InitTypes == DriverInit => TypeInv
<1> SUFFICES ASSUME DriverInit PROVE TypeInv
  OBVIOUS
<1>1. TypeOK
  BY InitInv DEF IInv, DriverInit
<1>2. Blank \in Packet
  BY DriverAssumption DEF Blank, Packet, PacketKind
<1>3. <<>> \in Seq(Value) /\ <<>> \in Seq(Packet)
  OBVIOUS
<1>4. FlagTypes
  BY DEF DriverInit, FlagTypes
<1>5. DataTypes
  BY <1>2, <1>3, DriverAssumption, CapacityAssumption DEF DriverInit, DataTypes
<1>6. Life /\ PassInv /\ BatchInv
  BY DEF DriverInit, Init, Life, PassInv, BatchInv, InPass
<1>7. QED BY <1>1, <1>4, <1>5, <1>6 DEF TypeInv, DriverTypeOK

\* The application changes nothing that the two other threads work on.
LEMMA AppTypes == ASSUME TypeInv, App PROVE TypeInv'
<1> USE DEF vars, producerVars, consumerVars, appVars, recvVars, handleVars
<1>1. UNCHANGED <<vars, pool, k, got, ready, arrived, dropped, next, decoded, free, content>>
  BY DEF App, InitDriver, StartHandle, StartInput, StopInput, JoinRecv, JoinHandle
<1>2. TypeOK'
  BY <1>1, QueueTypes DEF TypeInv
<1>3. FlagTypes'
  BY Zenon DEF TypeInv, DriverTypeOK, FlagTypes, App, InitDriver, StartHandle, StartInput, StopInput,
               JoinRecv, JoinHandle
<1>4. Life'
  <2> USE DEF TypeInv, Life
  <2>1. CASE InitDriver
    BY <2>1 DEF InitDriver
  <2>2. CASE StartHandle
    BY <2>2 DEF StartHandle
  <2>3. CASE StartInput
    BY <2>3 DEF StartInput
  <2>4. CASE StopInput
    BY <2>4 DEF StopInput
  <2>5. CASE JoinRecv
    BY <2>5 DEF JoinRecv
  <2>6. CASE JoinHandle
    BY <2>6 DEF JoinHandle
  <2>7. QED BY <2>1, <2>2, <2>3, <2>4, <2>5, <2>6 DEF App
<1>5. /\ apc' \in {"idle", "starting", "joinRecv", "joinHandle"}
      /\ rpc' \in {rpc, "select"} /\ hpc' \in {hpc, "loop"}
      /\ hpc' = hpc \/ hpc' # "decode"
  BY DEF TypeInv, DriverTypeOK, DataTypes, App, InitDriver, StartHandle, StartInput,
         StopInput, JoinRecv, JoinHandle
<1>6. rpc' # rpc => rpc = "off"
  BY DEF TypeInv, Life, App, InitDriver, StartHandle, StartInput, StopInput, JoinRecv, JoinHandle
<1>7. session' \in 0..MaxSessions
  BY DriverAssumption DEF TypeInv, DriverTypeOK, DataTypes, App, InitDriver, StartHandle, StartInput,
                          StopInput, JoinRecv, JoinHandle
<1>8. DataTypes'
  BY <1>1, <1>5, <1>7 DEF TypeInv, DriverTypeOK, DataTypes
<1>9. PassInv'
  BY <1>1, <1>5, <1>6 DEF TypeInv, PassInv, InPass
<1>10. BatchInv'
  BY <1>1, <1>5 DEF TypeInv, BatchInv
<1>11. QED BY <1>2, <1>3, <1>4, <1>8, <1>9, <1>10 DEF TypeInv, DriverTypeOK

\* recvmmsg writes packets that have arrived in this session.
LEMMA MmsgContent ==
  ASSUME TypeInv, RecvMmsg
  PROVE  /\ content' \in [Value -> Packet]
         /\ got' \in 0..Vlen /\ arrived' = arrived + got' /\ arrived' \in 0..MaxPackets
         /\ \A b \in Value : (\A i \in 1..got' : pool[i] # b) => content'[b] = content[b]
         /\ \A i \in 1..got' : (\A j \in 1..got' : pool[j] = pool[i] => j = i) /\ pool[i] # NoValue
                                 => content'[pool[i]].seq = arrived + i
<1>1. /\ content \in [Value -> Packet] /\ arrived \in 0..MaxPackets /\ session \in 0..MaxSessions
      /\ Vlen \in Nat \ {0} /\ Kinds \subseteq PacketKind /\ MaxPackets \in Nat
      /\ pool \in [1..Vlen -> Value \cup {NoValue}]
  BY DriverAssumption DEF TypeInv, DriverTypeOK, DataTypes
<1>2. PICK n \in 0..Vlen : \E kind \in [1..n -> Kinds] :
       /\ arrived + n <= MaxPackets
       /\ content' = [b \in Value |->
            IF \E i \in 1..n : pool[i] = b
              THEN LET i == CHOOSE i \in 1..n : pool[i] = b
                   IN [seq |-> arrived + i, kind |-> kind[i], session |-> session]
              ELSE content[b]]
       /\ arrived' = arrived + n
       /\ got' = n
  BY DEF RecvMmsg
<1>3. PICK kind \in [1..n -> Kinds] :
        content' = [b \in Value |->
            IF \E i \in 1..n : pool[i] = b
              THEN LET i == CHOOSE i \in 1..n : pool[i] = b
                   IN [seq |-> arrived + i, kind |-> kind[i], session |-> session]
              ELSE content[b]]
  BY <1>2
<1> DEFINE at(b) == CHOOSE i \in 1..n : pool[i] = b
<1>4. got' = n /\ arrived' = arrived + n /\ arrived + n <= MaxPackets
  BY <1>2
<1>5. ASSUME NEW b \in Value, NEW i \in 1..n, pool[i] = b
      PROVE  /\ at(b) \in 1..n /\ pool[at(b)] = b
             /\ content'[b] = [seq |-> arrived + at(b), kind |-> kind[at(b)], session |-> session]
  <2>1. at(b) \in 1..n /\ pool[at(b)] = b
    BY <1>5
  <2>2. QED BY <1>3, <1>5, <2>1
<1>6. ASSUME NEW b \in Value, \A i \in 1..n : pool[i] # b
      PROVE  content'[b] = content[b]
  BY <1>3, <1>6
<1> HIDE DEF at
<1>7. ASSUME NEW b \in Value PROVE content'[b] \in Packet
  <2>1. CASE \E i \in 1..n : pool[i] = b
    <3>1. at(b) \in 1..n
          /\ content'[b] = [seq |-> arrived + at(b), kind |-> kind[at(b)], session |-> session]
      BY <1>5, <2>1
    <3>2. arrived + at(b) \in 0..MaxPackets /\ kind[at(b)] \in PacketKind
      BY <1>1, <1>4, <3>1
    <3>3. QED BY <1>1, <3>1, <3>2 DEF Packet
  <2>2. CASE \A i \in 1..n : pool[i] # b
    BY <1>1, <1>6, <2>2
  <2>3. QED BY <2>1, <2>2
<1>8. content' \in [Value -> Packet]
  BY <1>3, <1>7
<1>9. ASSUME NEW i \in 1..n, \A j \in 1..n : pool[j] = pool[i] => j = i, pool[i] # NoValue
      PROVE  content'[pool[i]].seq = arrived + i
  <2>1. pool[i] \in Value
    BY <1>1, <1>9
  <2>2. /\ at(pool[i]) \in 1..n /\ pool[at(pool[i])] = pool[i]
        /\ content'[pool[i]] = [seq |-> arrived + at(pool[i]), kind |-> kind[at(pool[i])],
                                session |-> session]
    BY <1>5, <2>1
  <2>3. at(pool[i]) = i
    BY <1>9, <2>2
  <2>4. QED BY <2>2, <2>3
<1>10. QED BY <1>1, <1>4, <1>6, <1>8, <1>9

LEMMA RecvTypes == ASSUME TypeInv, Recv PROVE TypeInv'
<1> USE DEF producerVars, consumerVars, appVars, recvVars, handleVars, recvRest
<1>1. UNCHANGED <<appVars, handleVars, cloud, result>> /\ rpc # "off"
  BY DEF Recv, vars, RecvExit, RecvSelect, RecvFill, RecvMmsg, RecvShort, RecvPush, RecvWrite, RecvPublish,
         RecvRefused, RecvClearHead, RecvClearTail, RecvNext,
         PushBegin, PushFull, PushWrite, PushPublish, ClearHead, ClearTail
<1>2. FlagTypes'
  <2>1. UNCHANGED appVars /\ overlapped' \in {overlapped, overlapped \/ cpc # "idle"}
    BY Zenon DEF Recv, RecvExit, RecvSelect, RecvFill, RecvMmsg, RecvShort, RecvPush, RecvWrite, RecvPublish,
                 RecvRefused, RecvClearHead, RecvClearTail, RecvNext
  <2>2. QED BY <2>1, Zenon DEF TypeInv, DriverTypeOK, FlagTypes
<1>3. Life'
  BY <1>1, Zenon DEF TypeInv, Life
<1>4. BatchInv'
  BY <1>1 DEF TypeInv, BatchInv
<1> USE <1>1, DriverAssumption DEF DataTypes, PassInv, InPass
<1>5. DriverTypeOK => DataTypes
  BY DEF DriverTypeOK
<1>6. ASSUME TypeOK, DataTypes, PassInv
      PROVE  TypeOK' /\ DataTypes' /\ PassInv'
  <2>1. CASE RecvExit
    <3>1. TypeOK'
      BY <1>6, <2>1, QueueTypes DEF RecvExit
    <3>2. DataTypes' /\ PassInv'
      BY <1>6, <2>1 DEF RecvExit, vars
    <3>3. QED BY <3>1, <3>2
  <2>2. CASE RecvSelect
    <3>1. TypeOK'
      BY <1>6, <2>2, QueueTypes DEF RecvSelect
    <3>2. DataTypes' /\ PassInv'
      BY <1>6, <2>2 DEF RecvSelect, vars
    <3>3. QED BY <3>1, <3>2
  <2>3. CASE RecvFill
    <3>1. TypeOK'
      BY <1>6, <2>3, QueueTypes DEF RecvFill
    <3>2. k' = k + 1 /\ k' \in 1..(Vlen + 1)
      BY <1>6, <2>3 DEF RecvFill
    <3>3. /\ pool' \in [1..Vlen -> Value \cup {NoValue}] /\ pool'[k] # NoValue
          /\ \A i \in 1..(k - 1) : pool'[i] = pool[i]
          /\ free' \in Seq(Value) /\ Len(free') < Capacity
      <4>1. CASE pool[k] # NoValue
        BY <1>6, <2>3, <4>1 DEF RecvFill
      <4>2. CASE pool[k] = NoValue /\ free # <<>>
        <5>1. Head(free) \in Value /\ Tail(free) \in Seq(Value) /\ Len(Tail(free)) < Capacity
          BY <1>6, <4>2, CapacityAssumption
        <5>2. pool' = [pool EXCEPT ![k] = Head(free)] /\ free' = Tail(free)
          BY <2>3, <4>2 DEF RecvFill
        <5>3. QED BY <1>6, <2>3, <5>1, <5>2, NoValueAssumption DEF RecvFill
      <4>3. CASE pool[k] = NoValue /\ free = <<>>
        <5>1. NewBuffer \in Value
          BY <2>3, <4>3 DEF RecvFill, MemoryLeft, NewBuffer
        <5>2. pool' = [pool EXCEPT ![k] = NewBuffer] /\ free' = free
          BY <2>3, <4>3 DEF RecvFill
        <5>3. QED BY <1>6, <2>3, <5>1, <5>2, NoValueAssumption DEF RecvFill
      <4>4. QED BY <4>1, <4>2, <4>3
    <3>4. DataTypes'
      <4>1. UNCHANGED <<rpc, got, ready, content, arrived, dropped>>
        BY <2>3 DEF RecvFill
      <4>2. QED BY <1>6, <3>2, <3>3, <4>1
    <3>5. PassInv'
      <4>1. UNCHANGED <<ppc, rpc, got, ready, arrived>> /\ rpc = "fill"
        BY <2>3 DEF RecvFill, vars
      <4>2. ASSUME NEW i \in 1..(k' - 1) PROVE pool'[i] # NoValue
        <5>1. CASE i = k
          BY <3>3, <5>1
        <5>2. CASE i # k
          BY <1>6, <3>2, <3>3, <4>1, <5>2
        <5>3. QED BY <5>1, <5>2
      <4>3. QED BY <1>6, <4>1, <4>2
    <3>6. QED BY <3>1, <3>4, <3>5
  <2>4. CASE RecvMmsg
    <3>1. TypeOK'
      BY <1>6, <2>4, QueueTypes DEF RecvMmsg
    <3>2. /\ content' \in [Value -> Packet]
          /\ got' \in 0..Vlen /\ arrived' = arrived + got' /\ arrived' \in 0..MaxPackets
      BY <2>4, MmsgContent
    <3>3. DataTypes'
      BY <1>6, <2>4, <3>2 DEF RecvMmsg
    <3>4. PassInv'
      BY <1>6, <2>4, <3>2 DEF RecvMmsg, vars
    <3>5. QED BY <3>1, <3>3, <3>4
  <2>5. CASE RecvShort
    <3>1. TypeOK'
      BY <1>6, <2>5, QueueTypes DEF RecvShort
    <3>2. k' = k + 1 /\ k' \in 1..(Vlen + 1) /\ k \in 1..Vlen /\ pool[k] \in Value
      BY <1>6, <2>5 DEF RecvShort
    <3>3. content[pool[k]].seq \in 0..MaxPackets
      BY <1>6, <3>2 DEF Packet
    <3>4. DataTypes'
      BY <1>6, <2>5, <3>2, <3>3 DEF RecvShort
    <3>5. PassInv'
      BY <1>6, <2>5, <3>2 DEF RecvShort, vars
    <3>6. QED BY <3>1, <3>4, <3>5
  <2>6. CASE RecvPush
    <3>1. k \in 1..Vlen /\ pool[k] \in Value
      BY <1>6, <2>6 DEF RecvPush
    <3>2. TypeOK'
      BY <1>6, <2>6, <3>1, QueueTypes DEF RecvPush
    <3>3. DataTypes' /\ PassInv'
      BY <1>6, <2>6, <3>1 DEF RecvPush, PushBegin
    <3>4. QED BY <3>2, <3>3
  <2>7. CASE RecvWrite
    <3>1. TypeOK'
      BY <1>6, <2>7, QueueTypes DEF RecvWrite
    <3>2. DataTypes' /\ PassInv'
      BY <1>6, <2>7 DEF RecvWrite, PushWrite
    <3>3. QED BY <3>1, <3>2
  <2>8. CASE RecvPublish
    <3>1. TypeOK'
      BY <1>6, <2>8, QueueTypes DEF RecvPublish
    <3>2. k' = k + 1 /\ k' \in 1..(Vlen + 1) /\ k \in 1..Vlen
      BY <1>6, <2>8 DEF RecvPublish
    <3>3. pool' \in [1..Vlen -> Value \cup {NoValue}] /\ \A i \in 1..Vlen : i # k => pool'[i] = pool[i]
      BY <1>6, <2>8, <3>2 DEF RecvPublish
    <3>4. DataTypes' /\ PassInv'
      BY <1>6, <2>8, <3>2, <3>3 DEF RecvPublish, PushPublish
    <3>5. QED BY <3>1, <3>4
  <2>9. CASE RecvRefused
    <3>1. TypeOK'
      BY <1>6, <2>9, QueueTypes DEF RecvRefused
    <3>2. DataTypes' /\ PassInv'
      BY <1>6, <2>9 DEF RecvRefused, PushFull
    <3>3. QED BY <3>1, <3>2
  <2>10. CASE RecvClearHead
    <3>1. TypeOK'
      BY <1>6, <2>10, QueueTypes DEF RecvClearHead
    <3>2. k \in 1..Vlen /\ pool[k] \in Value
      BY <1>6, <2>10 DEF RecvClearHead
    <3>3. \A b \in Range(Contents) \ {NoValue} : b \in Value
      <4>1. \A i \in 1..Size(head, tail) : buffer[Slot(head + i - 1)] \in Value \cup {NoValue}
        BY <1>6, OccupiedSlot DEF TypeOK
      <4>2. QED BY <4>1 DEF Range, Contents
    <3>4. \A b \in Value : content[b].seq \in 0..MaxPackets
      BY <1>6 DEF Packet
    <3>5. dropped' \subseteq 0..MaxPackets
      <4>1. dropped' = dropped \cup {content[pool[k]].seq}
                        \cup {content[b].seq : b \in Range(Contents) \ {NoValue}}
        BY <2>10 DEF RecvClearHead
      <4>2. dropped \subseteq 0..MaxPackets
        BY <1>6
      <4>3. QED BY <3>2, <3>3, <3>4, <4>1, <4>2, Zenon
    <3>6. DataTypes' /\ PassInv'
      BY <1>6, <2>10, <3>5 DEF RecvClearHead, ClearHead
    <3>7. QED BY <3>1, <3>6
  <2>11. CASE RecvClearTail
    <3>1. TypeOK'
      BY <1>6, <2>11, QueueTypes DEF RecvClearTail
    <3>2. k' = k + 1 /\ k' \in 1..(Vlen + 1) /\ k \in 1..Vlen
      BY <1>6, <2>11 DEF RecvClearTail
    <3>3. pool' \in [1..Vlen -> Value \cup {NoValue}] /\ \A i \in 1..Vlen : i # k => pool'[i] = pool[i]
      BY <1>6, <2>11, <3>2 DEF RecvClearTail
    <3>4. DataTypes' /\ PassInv'
      BY <1>6, <2>11, <3>2, <3>3 DEF RecvClearTail, ClearTail
    <3>5. QED BY <3>1, <3>4
  <2>12. CASE RecvNext
    <3>1. TypeOK'
      BY <1>6, <2>12, QueueTypes DEF RecvNext
    <3>2. DataTypes' /\ PassInv'
      BY <1>6, <2>12 DEF RecvNext, vars
    <3>3. QED BY <3>1, <3>2
  <2>13. QED
    BY <2>1, <2>2, <2>3, <2>4, <2>5, <2>6, <2>7, <2>8, <2>9, <2>10, <2>11, <2>12 DEF Recv
<1>7. QED BY <1>2, <1>3, <1>4, <1>5, <1>6 DEF TypeInv, DriverTypeOK

LEMMA HandleTypes == ASSUME TypeInv, Handle PROVE TypeInv'
<1> USE DEF producerVars, consumerVars, appVars, recvVars, handleVars, handleRest
<1>1. UNCHANGED <<appVars, recvVars, producerVars>> /\ hpc \notin {"off", "dead"}
  BY DEF Handle, vars, HandleCheck, HandleTimeout, HandlePoll, HandleStep, HandleTake, HandlePacket,
         HandleNull, BatchTimeout, BatchPoll, BatchLoadHead, BatchLoadTail, PopCopy, PopRelease
<1>2. FlagTypes'
  <2>1. UNCHANGED appVars /\ overlapped' \in {overlapped, overlapped \/ ppc = "clear"}
    BY Zenon DEF Handle, HandleCheck, HandleTimeout, HandlePoll, HandleStep, HandleTake, HandlePacket,
                 HandleNull
  <2>2. QED BY <2>1, Zenon DEF TypeInv, DriverTypeOK, FlagTypes
<1>3. Life'
  <2>1. ~(apc = "idle" /\ ~start_flag)
    BY <1>1, Zenon DEF TypeInv, Life
  <2>2. QED BY <1>1, <2>1, Zenon DEF TypeInv, Life
<1>4. PassInv'
  BY <1>1 DEF TypeInv, PassInv, InPass
<1>5. DriverTypeOK => DataTypes
  BY DEF DriverTypeOK
<1>6. ASSUME TypeOK, DataTypes, BatchInv
      PROVE  TypeOK' /\ DataTypes' /\ BatchInv'
  <2> USE <1>1, CapacityAssumption DEF DataTypes, BatchInv
  <2>1. CASE HandleCheck \/ HandleNull
    <3>1. TypeOK'
      BY <1>6, <2>1, QueueTypes DEF HandleCheck, HandleNull
    <3>2. hpc' \in {"off", "loop", "batch", "dead"} /\ UNCHANGED <<next, decoded, free, content>>
      BY <2>1 DEF HandleCheck, HandleNull
    <3>3. DataTypes' /\ BatchInv'
      BY <1>6, <3>2
    <3>4. QED BY <3>1, <3>3
  <2>2. CASE HandleTimeout \/ HandlePoll \/ HandleStep
    <3>1. TypeOK'
      BY <1>6, <2>2, QueueTypes DEF HandleTimeout, HandlePoll, HandleStep
    <3>2. hpc' \in {"loop", "batch"} /\ UNCHANGED <<next, decoded, free, content>>
      BY <2>2 DEF HandleTimeout, HandlePoll, HandleStep
    <3>3. DataTypes' /\ BatchInv'
      BY <1>6, <3>2
    <3>4. QED BY <3>1, <3>3
  <2>3. CASE HandleTake
    <3>1. TypeOK'
      BY <1>6, <2>3, QueueTypes DEF HandleTake
    <3>2. hpc' \in {"loop", "decode"} /\ next' = 1 /\ UNCHANGED <<decoded, free, content>>
          /\ (hpc' = "decode" => out # <<>>) /\ result' = out /\ Len(out) = count
      BY <2>3 DEF HandleTake, PopRelease
    <3>3. DataTypes' /\ BatchInv'
      BY <1>6, <3>2 DEF TypeOK
    <3>4. QED BY <3>1, <3>3
  <2>4. CASE HandlePacket
    <3>1. TypeOK'
      BY <1>6, <2>4, QueueTypes DEF HandlePacket
    <3>2. /\ next \in 1..Len(result) /\ Len(result) < Capacity /\ result[next] \in Value
          /\ next' = next + 1 /\ hpc' = IF next = Len(result) THEN "loop" ELSE "decode"
          /\ result' = result /\ UNCHANGED content
      BY <1>6, <2>4 DEF HandlePacket, TypeOK, vars
    <3>3. decoded' = Append(decoded, content[result[next]]) /\ free' = GiveBack(result[next])
      BY <2>4 DEF HandlePacket
    <3>4. decoded' \in Seq(Packet) /\ free' \in Seq(Value) /\ Len(free') < Capacity
      BY <1>6, <3>2, <3>3 DEF GiveBack
    <3>5. next' \in 1..Capacity /\ hpc' \in {"loop", "decode"}
          /\ (hpc' = "decode" => next' \in 1..Len(result))
      BY <1>6, <3>2 DEF TypeOK
    <3>6. DataTypes' /\ BatchInv'
      BY <1>6, <3>2, <3>4, <3>5
    <3>7. QED BY <3>1, <3>6
  <2>5. QED BY <2>1, <2>2, <2>3, <2>4 DEF Handle
<1>7. QED BY <1>2, <1>3, <1>4, <1>5, <1>6 DEF TypeInv, DriverTypeOK

LEMMA StutterTypes == ASSUME TypeInv, UNCHANGED driverVars PROVE TypeInv'
<1> USE DEF driverVars, vars, producerVars, consumerVars, appVars, recvVars, handleVars
<1>1. TypeOK'
  BY QueueTypes DEF TypeInv
<1>2. FlagTypes' /\ Life'
  BY Zenon DEF TypeInv, DriverTypeOK, FlagTypes, Life
<1>3. DataTypes' /\ PassInv' /\ BatchInv'
  BY DEF TypeInv, DriverTypeOK, DataTypes, PassInv, BatchInv, InPass
<1>4. QED BY <1>1, <1>2, <1>3 DEF TypeInv, DriverTypeOK

LEMMA NextTypes == TypeInv /\ [DriverNext]_driverVars => TypeInv'
BY AppTypes, RecvTypes, HandleTypes, StutterTypes DEF DriverNext

-----------------------------------------------------------------------------
(* The ring under the driver *)

LEMMA ContentsKept ==
  ASSUME IInv,
         \/ \E v \in Value : PushBegin(v)
         \/ PushFull \/ PushWrite
         \/ BatchTimeout \/ BatchPoll \/ BatchLoadHead \/ BatchLoadTail \/ PopCopy
         \/ UNCHANGED vars
  PROVE  Contents' = Contents
<1>1. CASE PushWrite
  <2>1. ptail = tail /\ \A i \in 1..Size(head, tail) :
                            buffer'[Slot(head + i - 1)] = buffer[Slot(head + i - 1)]
    BY <1>1, OccupiedSlot DEF IInv, TypeOK, PushInv, PushWrite
  <2>2. head' = head /\ tail' = tail
    BY <1>1 DEF PushWrite
  <2>3. QED BY <2>1, <2>2 DEF Contents
<1>2. CASE ~PushWrite
  <2>1. buffer' = buffer /\ head' = head /\ tail' = tail
    BY <1>2 DEF PushBegin, PushFull, BatchTimeout, BatchPoll, BatchLoadHead, BatchLoadTail, PopCopy, vars
  <2>2. QED BY <2>1 DEF Contents
<1>3. QED BY <1>1, <1>2

LEMMA IInvNext ==
  ASSUME IInv, Next \/ UNCHANGED vars
  PROVE  IInv' /\ ppc' # "clear"
<1>1. IInv'
  BY NextInv
<1>2. QED BY <1>1 DEF IInv, PushInv

LEMMA IInvQueued ==
  ASSUME QueueInv, ppc # "clear"
  PROVE  IInv /\ Queued = Contents /\ Queued \in Seq(Value)
BY ContentsType DEF QueueInv, Queued

LEMMA WaitingType ==
  ASSUME Ordered
  PROVE  /\ Queued \in Seq(Value) /\ Remaining \in Seq(Value)
         /\ Waiting \in Seq(Value) /\ Waiting = Remaining \o Queued
<1>1. CASE ppc = "clear"
  BY <1>1 DEF Ordered, Queued, Waiting
<1>2. CASE ppc # "clear"
  BY <1>2, IInvQueued DEF Ordered, Waiting
<1>3. QED BY <1>1, <1>2

-----------------------------------------------------------------------------
(* Every step keeps the order, unless it makes a clear() meet a popBatch() *)

LEMMA InitOrdered == DriverInit => Ordered
<1> SUFFICES ASSUME DriverInit PROVE Ordered
  OBVIOUS
<1>1. IInv /\ ppc = "idle" /\ QueueInv
  BY InitInv DEF DriverInit, Init, QueueInv
<1>2. Queued = <<>>
  <2>1. Len(Contents) = 0 /\ Contents \in Seq(Value)
    BY <1>1, ContentsType DEF DriverInit, Init, Size
  <2>2. QED BY <1>1, <2>1, EmptySeq DEF Queued
<1>3. Remaining = <<>>
  BY DEF DriverInit, Remaining
<1>4. Waiting = <<>> /\ Remaining \in Seq(Value)
  BY <1>2, <1>3 DEF Waiting
<1>5. HoldersOf(pool, Waiting, free)
  BY <1>4 DEF DriverInit, HoldersOf
<1>6. Settled = 0 /\ PassNumbers
  BY DEF DriverInit, Settled, PassNumbers, InPass
<1>7. NumbersOf(content, Waiting, decoded, dropped, Settled)
  BY <1>4, <1>6 DEF DriverInit, NumbersOf
<1>8. QED BY <1>1, <1>4, <1>5, <1>6, <1>7 DEF Ordered, DriverInit

\* A step that moves no buffer and no packet.
LEMMA KeepsOrder ==
  ASSUME Ordered, hpc' # "dead", QueueInv', Remaining' = Remaining, Queued' = Queued,
         UNCHANGED <<pool, free, content, decoded, dropped>>, Settled' = Settled, PassNumbers'
  PROVE  Ordered'
<1>1. Waiting' = Waiting
  BY DEF Waiting
<1>2. HoldersOf(pool', Waiting', free') /\ NumbersOf(content', Waiting', decoded', dropped', Settled')
  BY <1>1 DEF Ordered
<1>3. Remaining' \in Seq(Value)
  BY DEF Ordered
<1>4. QED BY <1>2, <1>3 DEF Ordered

\* Steps of the threads that leave the ring alone, or only look at it.
LEMMA QueueKept ==
  ASSUME QueueInv, UNCHANGED vars
  PROVE  QueueInv' /\ Queued' = Queued
<1>1. CASE ppc = "clear"
  BY <1>1, QueueTypes DEF QueueInv, Queued, vars, producerVars, consumerVars
<1>2. CASE ppc # "clear"
  <2>1. IInv' /\ ppc' # "clear" /\ Contents' = Contents
    BY <1>2, IInvQueued, IInvNext, ContentsKept
  <2>2. QED BY <1>2, <2>1 DEF QueueInv, Queued
<1>3. QED BY <1>1, <1>2

LEMMA AppOrdered == ASSUME TypeInv, Ordered, App PROVE Ordered'
<1> USE DEF appVars, recvVars, handleVars
<1>1. UNCHANGED <<vars, pool, k, got, ready, arrived, dropped, next, decoded, free, content>>
  BY DEF App, InitDriver, StartHandle, StartInput, StopInput, JoinRecv, JoinHandle
<1>2. /\ rpc' \in {rpc, "select"} /\ hpc' \in {hpc, "loop"}
      /\ rpc' # rpc => rpc = "off"
      /\ hpc' # hpc => hpc # "decode"
  BY DEF TypeInv, Life, App, InitDriver, StartHandle, StartInput, StopInput, JoinRecv, JoinHandle
<1>3. ppc' = ppc /\ result' = result
  BY <1>1 DEF vars, producerVars, consumerVars
<1>4. hpc' # "dead"
  BY <1>2 DEF Ordered
<1>5. QueueInv' /\ Queued' = Queued
  BY <1>1, QueueKept DEF Ordered
<1>6. Remaining' = Remaining
  BY <1>1, <1>2, <1>3 DEF Remaining
<1>7. InPass' = InPass
  BY <1>2 DEF InPass
<1>8. Settled' = Settled /\ PassNumbers'
  BY <1>1, <1>3, <1>7 DEF Settled, PassNumbers, Ordered
<1>9. QED BY <1>1, <1>4, <1>5, <1>6, <1>8, KeepsOrder

-----------------------------------------------------------------------------
(* The handling thread *)

\* popBatch leaves the queue as it is until it stores head_.
LEMMA PollOrdered ==
  ASSUME TypeInv, Ordered, HandleCheck \/ HandleTimeout \/ HandlePoll \/ HandleStep,
         HandlePoll => ppc # "clear"
  PROVE  Ordered'
<1> USE DEF handleRest, appVars, recvVars, handleVars
<1>1. /\ UNCHANGED <<pool, k, got, arrived, dropped, rpc, decoded, free, content>>
      /\ hpc' \in {"off", "loop", "batch"} /\ hpc # "decode"
  BY DEF HandleCheck, HandleTimeout, HandlePoll, HandleStep
<1>2. UNCHANGED vars \/ BatchTimeout \/ BatchPoll \/ BatchLoadHead \/ BatchLoadTail \/ PopCopy
  BY DEF HandleCheck, HandleTimeout, HandlePoll, HandleStep
<1>3. ppc' = ppc
  BY <1>2 DEF BatchTimeout, BatchPoll, BatchLoadHead, BatchLoadTail, PopCopy, vars, producerVars
<1>4. QueueInv' /\ Queued' = Queued
  <2>1. CASE UNCHANGED vars
    BY <2>1, QueueKept DEF Ordered
  <2>2. CASE ppc = "clear" /\ ~UNCHANGED vars
    <3>1. cpc = "idle" /\ head = 0 /\ TypeOK
      BY <2>2 DEF Ordered, QueueInv
    <3>2. BatchTimeout
      BY <1>2, <2>2, <3>1
         DEF HandleCheck, HandleTimeout, HandlePoll, HandleStep, BatchLoadHead, BatchLoadTail, PopCopy
    <3>3. TypeOK' /\ cpc' = cpc /\ head' = head
      BY <3>1, <3>2, QueueTypes DEF BatchTimeout
    <3>4. QED BY <1>3, <2>2, <3>1, <3>3 DEF QueueInv, Queued
  <2>3. CASE ppc # "clear"
    <3>1. IInv /\ Queued = Contents
      BY <2>3, IInvQueued DEF Ordered
    <3>2. IInv' /\ Contents' = Contents
      BY <1>2, <3>1, IInvNext, ContentsKept DEF Next, Pop
    <3>3. QED BY <1>3, <2>3, <3>1, <3>2 DEF QueueInv, Queued
  <2>4. QED BY <2>1, <2>2, <2>3
<1>5. Remaining' = Remaining
  BY <1>1 DEF Remaining
<1>6. Settled' = Settled /\ PassNumbers'
  BY <1>1, <1>3 DEF Settled, PassNumbers, InPass, Ordered
<1>7. QED BY <1>1, <1>4, <1>5, <1>6, KeepsOrder

\* A batch is the front of the queue.
LEMMA TakeOrdered == ASSUME TypeInv, Ordered, HandleTake PROVE Ordered'
<1> USE DEF handleRest, appVars, recvVars, handleVars
<1>1. /\ UNCHANGED <<pool, k, got, arrived, dropped, rpc, decoded, free, content, ppc>>
      /\ hpc' \in {"loop", "decode"} /\ hpc = "batch" /\ PopRelease
      /\ next' = 1 /\ (hpc' = "decode" <=> out # <<>>)
  BY DEF HandleTake, PopRelease, producerVars
<1>2. ppc # "clear"
  BY <1>1 DEF Ordered, QueueInv, PopRelease
<1>3. IInv /\ Queued = Contents /\ Contents \in Seq(Value)
  BY <1>2, IInvQueued DEF Ordered
<1>4. IInv' /\ ppc' # "clear"
  BY <1>1, <1>3, IInvNext DEF Next, Pop
<1>5. Fifo!Take(count) /\ count \in 1..Len(Contents)
  BY <1>1, <1>3, <1>4, FifoTake
<1>6. result' = SubSeq(Contents, 1, count) /\ Contents' = SubSeq(Contents, count + 1, Len(Contents))
  BY <1>5 DEF Fifo!Take
<1>7. /\ result' \in Seq(Value) /\ Len(result') = count /\ count \in Nat \ {0}
      /\ Contents' \in Seq(Value) /\ Contents = result' \o Contents'
  BY <1>3, <1>5, <1>6
<1>8. hpc' = "decode"
  BY <1>1, <1>7 DEF PopRelease
<1>9. Remaining' = result'
  BY <1>1, <1>7, <1>8 DEF Remaining
<1>10. Waiting' = Waiting
  <2>1. Waiting = <<>> \o Contents /\ <<>> \o Contents = Contents
    BY <1>1, <1>3 DEF Waiting, Remaining
  <2>2. Waiting' = result' \o Contents'
    BY <1>4, <1>9 DEF Waiting, Queued
  <2>3. QED BY <1>7, <2>1, <2>2
<1>11. Settled' = Settled /\ PassNumbers'
  BY <1>1 DEF Settled, PassNumbers, InPass, Ordered
<1>12. HoldersOf(pool', Waiting', free') /\ NumbersOf(content', Waiting', decoded', dropped', Settled')
  BY <1>1, <1>10, <1>11 DEF Ordered
<1>13. QED BY <1>4, <1>7, <1>8, <1>9, <1>11, <1>12 DEF Ordered, QueueInv

\* The next packet is the first that waits.
LEMMA PacketOrdered == ASSUME TypeInv, Ordered, HandlePacket PROVE Ordered'
<1> USE DEF handleRest, appVars, recvVars, handleVars
<1>1. /\ UNCHANGED <<vars, pool, k, got, arrived, dropped, rpc, content>>
      /\ hpc = "decode" /\ next' = next + 1 /\ hpc' = IF next = Len(result) THEN "loop" ELSE "decode"
      /\ result' = result /\ ppc' = ppc
      /\ decoded' = Append(decoded, content[result[next]]) /\ free' = GiveBack(result[next])
  BY DEF HandlePacket, vars, producerVars, consumerVars
<1>2. /\ next \in 1..Len(result) /\ result \in Seq(Value \cup {NoValue}) /\ free \in Seq(Value)
      /\ content \in [Value -> Packet] /\ decoded \in Seq(Packet) /\ Settled \in Nat
      /\ pool \in [1..Vlen -> Value \cup {NoValue}]
  <2>1. TypeOK /\ DataTypes /\ BatchInv /\ PassInv
    BY DEF TypeInv, DriverTypeOK
  <2>2. Settled \in Nat
    BY <2>1, DriverAssumption DEF DataTypes, PassInv, Settled, InPass
  <2>3. QED BY <1>1, <2>1, <2>2 DEF TypeOK, DataTypes, BatchInv
<1>3. /\ Queued \in Seq(Value) /\ Remaining \in Seq(Value)
      /\ Waiting \in Seq(Value) /\ Waiting = Remaining \o Queued
  BY WaitingType
<1>4. Remaining = SubSeq(result, next, Len(result))
  BY <1>1 DEF Remaining
<1>5. Remaining # <<>> /\ Head(Remaining) = result[next]
  <2>1. Len(Remaining) = Len(result) - next + 1 /\ Remaining[1] = result[next]
    BY <1>2, <1>4
  <2>2. Len(Remaining) # 0
    BY <1>2, <2>1
  <2>3. Remaining # <<>>
    BY <2>2
  <2>4. Head(Remaining) = Remaining[1]
    BY <1>3, <2>3
  <2>5. QED BY <2>1, <2>3, <2>4
<1>6. Remaining' = Tail(Remaining)
  <2>1. CASE next = Len(result)
    <3>1. Len(Remaining) = 1
      BY <1>2, <1>4, <2>1
    <3>2. Tail(Remaining) = <<>>
      <4>1. Tail(Remaining) \in Seq(Value) /\ Len(Tail(Remaining)) = 0
        BY <1>3, <1>5, <3>1
      <4>2. QED BY <4>1, EmptySeq
    <3>3. QED BY <1>1, <2>1, <3>2 DEF Remaining
  <2>2. CASE next # Len(result)
    <3>1. Remaining' = SubSeq(result, next + 1, Len(result))
      BY <1>1, <2>2 DEF Remaining
    <3>2. QED BY <1>2, <1>4, <3>1, SMTT(20)
  <2>3. QED BY <2>1, <2>2
<1>7. QueueInv' /\ Queued' = Queued
  BY <1>1, QueueKept DEF Ordered
<1>8. /\ Waiting # <<>> /\ Head(Waiting) = result[next] /\ Waiting' = Tail(Waiting)
      /\ Remaining' \in Seq(Value)
  <2>1. Tail(Remaining \o Queued) = Tail(Remaining) \o Queued
    BY <1>3, <1>5
  <2>2. QED BY <1>3, <1>5, <1>6, <1>7, <2>1 DEF Waiting
<1>9. Settled' = Settled /\ PassNumbers'
  BY <1>1 DEF Settled, PassNumbers, InPass, Ordered
<1>10. NumbersOf(content', Waiting', decoded', dropped', Settled')
  <2>1. NumbersOf(content, Tail(Waiting), Append(decoded, content[Head(Waiting)]), dropped, Settled)
    <3>1. dropped = dropped /\ NumbersOf(content, Waiting, decoded, dropped, Settled)
      BY DEF Ordered
    <3>2. QED BY <1>2, <1>3, <1>8, <3>1, NumbersDecode
  <2>2. QED BY <1>1, <1>8, <1>9, <2>1
<1>11. HoldersOf(pool', Waiting', free')
  <2>1. \A i, j \in 1..Len(Waiting) : Waiting[i] = Waiting[j] => i = j
    BY <1>3, NumbersInjective DEF Ordered
  <2>2. /\ HoldersOf(pool, Tail(Waiting), free)
        /\ HoldersOf(pool, Tail(Waiting), Append(free, Head(Waiting)))
    BY <1>2, <1>3, <1>8, <2>1, HoldersDecode DEF Ordered
  <2>3. free' = free \/ free' = Append(free, Head(Waiting))
    BY <1>1, <1>8 DEF GiveBack
  <2>4. QED BY <1>1, <1>8, <2>2, <2>3
<1>12. hpc' # "dead"
  BY <1>1
<1>13. QED BY <1>7, <1>8, <1>9, <1>10, <1>11, <1>12 DEF Ordered

\* A batch holds no null pointer.
LEMMA NoNull == ASSUME TypeInv, Ordered, HandleNull PROVE FALSE
<1>1. /\ hpc = "decode" /\ result[next] = NoValue
      /\ next \in 1..Len(result) /\ result \in Seq(Value \cup {NoValue})
  BY DEF HandleNull, TypeInv, BatchInv, TypeOK
<1>2. Remaining = SubSeq(result, next, Len(result)) /\ Remaining \in Seq(Value)
  BY <1>1 DEF Remaining, Ordered
<1>3. 1 \in 1..Len(Remaining) /\ Remaining[1] = result[next]
  BY <1>1, <1>2
<1>4. QED BY <1>1, <1>2, <1>3, NoValueAssumption

-----------------------------------------------------------------------------
(* The receiving thread *)

LEMMA RecvFacts ==
  ASSUME TypeInv, Ordered, Recv
  PROVE  /\ hpc' # "dead" /\ Remaining' = Remaining /\ Remaining' \in Seq(Value)
         /\ decoded' = decoded
         /\ pool \in [1..Vlen -> Value \cup {NoValue}] /\ content \in [Value -> Packet]
         /\ free \in Seq(Value) /\ decoded \in Seq(Packet) /\ Settled \in Nat
         /\ k \in 1..(Vlen + 1) /\ got \in 0..Vlen /\ arrived \in Nat /\ Vlen \in Nat \ {0}
         /\ rpc \in {"push", "put", "overflow"} => got <= arrived
         /\ rpc # "overflow" => ppc # "clear"
         /\ rpc \in {"push", "put", "overflow"} /\ k <= got =>
              /\ k \in 1..Vlen /\ pool[k] \in Value
              /\ content[pool[k]].seq = arrived - got + k
              /\ \A i \in (k + 1)..got : content[pool[i]].seq = arrived - got + i
         /\ Queued \in Seq(Value) /\ Waiting \in Seq(Value) /\ Waiting = Remaining \o Queued
<1> USE DEF recvRest, appVars, handleVars
<1>1. /\ TypeOK /\ DataTypes /\ PassInv /\ Vlen \in Nat \ {0} /\ MaxPackets \in Nat
      /\ PassNumbers /\ hpc # "dead"
  BY DriverAssumption DEF TypeInv, DriverTypeOK, Ordered
<1>2. UNCHANGED <<hpc, next, decoded>> /\ result' = result
  BY DEF Recv, vars, producerVars, consumerVars,
         RecvExit, RecvSelect, RecvFill, RecvMmsg, RecvShort, RecvPush, RecvWrite, RecvPublish,
         RecvRefused, RecvClearHead, RecvClearTail, RecvNext,
         PushBegin, PushFull, PushWrite, PushPublish, ClearHead, ClearTail
<1>3. Remaining' = Remaining
  BY <1>2 DEF Remaining
<1>4. Settled \in Nat
  BY <1>1 DEF DataTypes, PassInv, Settled, InPass
<1>5. ASSUME InPass, k <= got
      PROVE  /\ k \in 1..Vlen /\ pool[k] \in Value
             /\ content[pool[k]].seq = arrived - got + k
             /\ \A i \in (k + 1)..got : content[pool[i]].seq = arrived - got + i
  BY <1>1, <1>5 DEF DataTypes, PassInv, PassNumbers
<1>6. /\ Queued \in Seq(Value) /\ Remaining \in Seq(Value)
      /\ Waiting \in Seq(Value) /\ Waiting = Remaining \o Queued
  BY WaitingType
<1>7. /\ pool \in [1..Vlen -> Value \cup {NoValue}] /\ content \in [Value -> Packet]
      /\ free \in Seq(Value) /\ decoded \in Seq(Packet)
      /\ k \in 1..(Vlen + 1) /\ got \in 0..Vlen /\ arrived \in Nat
      /\ InPass => got <= arrived
      /\ rpc # "overflow" => ppc # "clear"
  BY <1>1 DEF DataTypes, PassInv
<1>8. QED BY <1>1, <1>2, <1>3, <1>4, <1>5, <1>6, <1>7 DEF InPass

LEMMA ExitOrdered == ASSUME TypeInv, Ordered, RecvExit PROVE Ordered'
<1>1. Recv
  BY DEF Recv, Ordered, RecvExit
<1>2. QueueInv' /\ Queued' = Queued
  BY QueueKept DEF Ordered, RecvExit
<1>3. Waiting' = Waiting
  BY <1>1, <1>2, RecvFacts DEF Waiting
<1>4. HoldersOf(pool', Waiting', free')
  BY <1>1, <1>3, RecvFacts, HoldersExit DEF RecvExit, Ordered
<1>5. Settled' = Settled /\ PassNumbers'
  BY DEF RecvExit, Settled, PassNumbers, InPass
<1>6. NumbersOf(content', Waiting', decoded', dropped', Settled')
  BY <1>1, <1>3, <1>5, RecvFacts DEF RecvExit, Ordered
<1>7. QED BY <1>1, <1>2, <1>4, <1>5, <1>6, RecvFacts DEF Ordered

LEMMA LoopOrdered == ASSUME TypeInv, Ordered, RecvSelect \/ RecvNext PROVE Ordered'
<1>1. Recv
  BY DEF Recv, Ordered, RecvSelect, RecvNext
<1>2. QueueInv' /\ Queued' = Queued
  BY QueueKept DEF Ordered, RecvSelect, RecvNext
<1>3. rpc' \in {"fill", "select"} /\ UNCHANGED <<pool, free, content, dropped, arrived>>
  BY DEF RecvSelect, RecvNext
<1>4. Settled' = arrived /\ PassNumbers'
  BY <1>3 DEF Settled, PassNumbers, InPass
<1>5. Settled = arrived
  <2>1. CASE RecvSelect
    BY <2>1 DEF RecvSelect, Settled, InPass
  <2>2. CASE RecvNext
    <3>1. k = got + 1 /\ ppc # "clear" /\ k \in Nat /\ got \in Nat /\ arrived \in Nat /\ rpc = "push"
      BY <1>1, <2>2, RecvFacts DEF RecvNext, TypeInv, PassInv, InPass
    <3>2. QED BY <3>1 DEF Settled, InPass
  <2>3. QED BY <2>1, <2>2
<1>6. QED BY <1>1, <1>2, <1>3, <1>4, <1>5, RecvFacts, KeepsOrder

\* A buffer of the free queue, or one that nothing refers to, goes to the pool.
LEMMA FillOrdered == ASSUME TypeInv, Ordered, RecvFill PROVE Ordered'
<1>1. Recv
  BY DEF Recv, Ordered, RecvFill
<1>2. QueueInv' /\ Queued' = Queued
  BY QueueKept DEF Ordered, RecvFill
<1>3. Waiting' = Waiting
  BY <1>1, <1>2, RecvFacts DEF Waiting
<1>4. Settled' = Settled /\ PassNumbers'
  BY DEF RecvFill, Settled, PassNumbers, InPass
<1>5. NumbersOf(content', Waiting', decoded', dropped', Settled')
  BY <1>1, <1>3, <1>4, RecvFacts DEF RecvFill, Ordered
<1>6. k \in 1..Vlen
  BY <1>1, RecvFacts DEF RecvFill
<1>7. HoldersOf(pool', Waiting', free')
  <2>1. CASE pool[k] # NoValue
    BY <1>3, <2>1 DEF RecvFill, Ordered
  <2>2. CASE pool[k] = NoValue /\ free # <<>>
    <3>1. pool' = [pool EXCEPT ![k] = Head(free)] /\ free' = Tail(free)
      BY <2>2 DEF RecvFill
    <3>2. QED BY <1>1, <1>3, <1>6, <2>2, <3>1, RecvFacts, HoldersReuse DEF Ordered
  <2>3. CASE pool[k] = NoValue /\ free = <<>>
    <3>1. pool' = [pool EXCEPT ![k] = NewBuffer] /\ free' = free
      BY <2>3 DEF RecvFill
    <3>2. NewBuffer \in Value /\ NewBuffer \notin Referenced
      BY <2>3 DEF RecvFill, MemoryLeft, NewBuffer
    <3>3. \A j \in 1..Vlen : pool[j] # NewBuffer
      BY <1>1, <3>2, RecvFacts DEF Referenced, Range
    <3>4. \A j \in 1..Len(free) : free[j] # NewBuffer
      BY <1>1, <3>2, RecvFacts DEF Referenced, Range
    <3>5. \A j \in 1..Len(Queued) : Queued[j] # NewBuffer
      <4>1. IInv /\ Queued = Contents
        BY <1>1, RecvFacts, IInvQueued DEF RecvFill, Ordered
      <4>2. /\ Len(Queued) = Size(head, tail)
            /\ \A j \in 1..Size(head, tail) : /\ Queued[j] = buffer[Slot(head + j - 1)]
                                              /\ Slot(head + j - 1) \in Index
        BY <4>1, ContentsType, OccupiedSlot DEF IInv
      <4>3. \A i \in Index : buffer[i] # NewBuffer
        BY <3>2, <4>1 DEF Referenced, Range, IInv, TypeOK
      <4>4. QED BY <4>2, <4>3
    <3>6. \A j \in 1..Len(Remaining) : Remaining[j] # NewBuffer
      <4>1. CASE hpc = "decode"
        <5>1. result \in Seq(Value \cup {NoValue}) /\ next \in 1..Len(result)
              /\ Remaining = SubSeq(result, next, Len(result))
          BY <4>1 DEF TypeInv, TypeOK, BatchInv, Remaining
        <5>2. \A i \in 1..Len(result) : result[i] # NewBuffer
          BY <3>2, <5>1 DEF Referenced, Range
        <5>3. Len(Remaining) = Len(result) - next + 1
              /\ \A j \in 1..Len(Remaining) : Remaining[j] = result[next + j - 1]
          BY <5>1
        <5>4. \A j \in 1..Len(Remaining) : next + j - 1 \in 1..Len(result)
          BY <5>1, <5>3
        <5>5. QED BY <5>2, <5>3, <5>4
      <4>2. CASE hpc # "decode"
        BY <4>2 DEF Remaining
      <4>3. QED BY <4>1, <4>2
    <3>7. \A j \in 1..Len(Waiting) : Waiting[j] # NewBuffer
      <4>1. Waiting = Remaining \o Queued /\ Remaining \in Seq(Value) /\ Queued \in Seq(Value)
        BY WaitingType
      <4>2. ASSUME NEW r \in Seq(Value), NEW q \in Seq(Value), NEW b,
                   \A j \in 1..Len(r) : r[j] # b, \A j \in 1..Len(q) : q[j] # b
            PROVE  \A j \in 1..Len(r \o q) : (r \o q)[j] # b
        BY <4>2
      <4>3. QED BY <3>5, <3>6, <4>1, <4>2
    <3>8. HoldersOf(pool, Waiting, free)
      BY DEF Ordered
    <3>9. HoldersOf([pool EXCEPT ![k] = NewBuffer], Waiting, free)
      BY <1>1, <1>6, <3>2, <3>3, <3>4, <3>7, <3>8, RecvFacts, HoldersNew
    <3>10. QED BY <1>3, <3>1, <3>9
  <2>4. QED BY <2>1, <2>2, <2>3
<1>8. QED BY <1>1, <1>2, <1>4, <1>5, <1>7, RecvFacts DEF Ordered

\* recvmmsg writes the buffers of the pool, where nothing waits to be decoded.
LEMMA MmsgOrdered == ASSUME TypeInv, Ordered, RecvMmsg PROVE Ordered'
<1>1. Recv
  BY DEF Recv, Ordered, RecvMmsg
<1>2. QueueInv' /\ Queued' = Queued
  BY QueueKept DEF Ordered, RecvMmsg
<1>3. Waiting' = Waiting
  BY <1>1, <1>2, RecvFacts DEF Waiting
<1>4. /\ got' \in 0..Vlen /\ arrived' = arrived + got' /\ k' = 1 /\ rpc' = "push" /\ rpc = "fill"
      /\ UNCHANGED <<pool, free, dropped, ppc>> /\ k > Vlen /\ Vlen \in Nat
  BY MmsgContent, DriverAssumption DEF RecvMmsg, vars, producerVars
<1>5. HoldersOf(pool, Waiting, free)
  BY DEF Ordered
<1>6. \A i \in 1..Vlen : pool[i] # NoValue
  BY <1>1, <1>4, RecvFacts, SMTT(20) DEF TypeInv, PassInv
<1>7. \A i \in 1..got' : content'[pool[i]].seq = arrived + i
  <2> SUFFICES ASSUME NEW i \in 1..got' PROVE content'[pool[i]].seq = arrived + i
    OBVIOUS
  <2>1. i \in 1..Vlen /\ \A j \in 1..got' : j \in 1..Vlen
    BY <1>4
  <2>2. \A j \in 1..got' : pool[j] = pool[i] => j = i
    BY <1>5, <1>6, <2>1 DEF HoldersOf
  <2>3. QED BY <1>6, <2>1, <2>2, MmsgContent
<1>8. \A j \in 1..Len(Waiting) : content'[Waiting[j]] = content[Waiting[j]]
  <2> SUFFICES ASSUME NEW j \in 1..Len(Waiting) PROVE content'[Waiting[j]] = content[Waiting[j]]
    OBVIOUS
  <2>1. Waiting[j] \in Value
    BY <1>1, RecvFacts
  <2>2. \A i \in 1..got' : pool[i] # Waiting[j]
    BY <1>4, <1>5 DEF HoldersOf
  <2>3. QED BY <2>1, <2>2, MmsgContent
<1>9. Settled' = Settled /\ PassNumbers'
  <2>1. ppc # "clear" /\ arrived \in Nat /\ got' \in Nat
    BY <1>1, <1>4, RecvFacts
  <2>2. Settled' = Settled
    <3>1. Settled = arrived
      BY <1>4 DEF Settled, InPass
    <3>2. Settled' = arrived' - got' + (k' - 1)
      BY <1>4, <2>1 DEF Settled, InPass
    <3>3. arrived' = arrived + got' /\ k' = 1
      BY <1>4
    <3>4. \A a, g \in Nat : (a + g) - g + (1 - 1) = a
      OBVIOUS
    <3>5. (arrived + got') - got' + (1 - 1) = arrived
      BY <2>1, <3>4
    <3>6. QED BY <3>1, <3>2, <3>3, <3>5, Zenon
  <2>3. PassNumbers'
    BY <1>4, <1>7, <2>1 DEF PassNumbers
  <2>4. QED BY <2>2, <2>3
<1>10. NumbersOf(content', Waiting, decoded, dropped, Settled)
  <2>1. NumbersOf(content, Waiting, decoded, dropped, Settled)
    BY DEF Ordered
  <2>2. QED BY <1>1, <1>8, <2>1, RecvFacts, NumbersRewrite
<1>11. HoldersOf(pool', Waiting', free') /\ NumbersOf(content', Waiting', decoded', dropped', Settled')
  BY <1>1, <1>3, <1>4, <1>5, <1>9, <1>10, RecvFacts
<1>12. QED BY <1>1, <1>2, <1>9, <1>11, RecvFacts DEF Ordered

LEMMA ShortOrdered == ASSUME TypeInv, Ordered, RecvShort PROVE Ordered'
<1>1. Recv
  BY DEF Recv, Ordered, RecvShort
<1>2. QueueInv' /\ Queued' = Queued
  BY QueueKept DEF Ordered, RecvShort
<1>3. Waiting' = Waiting
  BY <1>1, <1>2, RecvFacts DEF Waiting
<1>4. /\ k <= got /\ k' = k + 1 /\ rpc = "push" /\ rpc' = "push"
      /\ dropped' = dropped \cup {content[pool[k]].seq}
      /\ UNCHANGED <<pool, got, arrived, free, content, ppc>>
  BY DEF RecvShort, vars, producerVars
<1>5. /\ ppc # "clear" /\ k \in Nat /\ got \in Nat /\ arrived \in Nat /\ got <= arrived
      /\ content[pool[k]].seq = arrived - got + k
      /\ \A i \in (k + 1)..got : content[pool[i]].seq = arrived - got + i
  BY <1>1, <1>4, RecvFacts
<1>6. Settled = arrived - got + (k - 1) /\ Settled' = arrived - got + (k + 1 - 1)
  BY <1>4, <1>5 DEF Settled, InPass
<1>7. content[pool[k]].seq = Settled + 1 /\ Settled' = Settled + 1
  BY <1>5, <1>6
<1>8. PassNumbers'
  BY <1>4, <1>5 DEF PassNumbers
<1>9. NumbersOf(content, Waiting, decoded, dropped \cup {Settled + 1}, Settled + 1)
  BY <1>1, RecvFacts, NumbersDrop DEF Ordered
<1>10. HoldersOf(pool', Waiting', free') /\ NumbersOf(content', Waiting', decoded', dropped', Settled')
  BY <1>1, <1>3, <1>4, <1>7, <1>9, RecvFacts DEF Ordered
<1>11. QED BY <1>1, <1>2, <1>8, <1>10, RecvFacts DEF Ordered

\* A push changes nothing that is visible until it stores tail_.
LEMMA PushOrdered ==
  ASSUME TypeInv, Ordered, RecvPush \/ RecvRefused \/ RecvWrite PROVE Ordered'
<1>1. Recv
  BY DEF Recv, Ordered, RecvPush, RecvRefused, RecvWrite
<1>2. /\ ppc # "clear" /\ ppc' # "clear" /\ InPass /\ InPass'
      /\ UNCHANGED <<pool, k, got, arrived, dropped, free, content>>
  BY DEF RecvPush, RecvRefused, RecvWrite, recvVars, PushBegin, PushFull, PushWrite, InPass
<1>3. (\E v \in Value : PushBegin(v)) \/ PushFull \/ PushWrite
  <2>1. CASE RecvPush
    BY <1>1, <2>1, RecvFacts DEF RecvPush
  <2>2. CASE RecvRefused \/ RecvWrite
    BY <2>2 DEF RecvRefused, RecvWrite
  <2>3. QED BY <2>1, <2>2
<1>4. QueueInv' /\ Queued' = Queued
  <2>1. IInv /\ Queued = Contents
    BY <1>2, IInvQueued DEF Ordered
  <2>2. IInv' /\ Contents' = Contents
    BY <1>3, <2>1, IInvNext, ContentsKept DEF Next, Push
  <2>3. QED BY <1>2, <2>1, <2>2 DEF QueueInv, Queued
<1>5. Settled' = Settled /\ PassNumbers'
  BY <1>2 DEF Settled, PassNumbers, Ordered
<1>6. QED BY <1>1, <1>2, <1>4, <1>5, RecvFacts, KeepsOrder

LEMMA PublishOrdered == ASSUME TypeInv, Ordered, RecvPublish PROVE Ordered'
<1>1. Recv
  BY DEF Recv, Ordered, RecvPublish
<1>2. /\ PushPublish /\ ppc = "publish" /\ ppc' = "idle" /\ rpc = "put" /\ rpc' = "push" /\ k' = k + 1
      /\ pool' = [pool EXCEPT ![k] = NoValue]
      /\ UNCHANGED <<got, arrived, dropped, free, content>>
  BY DEF RecvPublish, PushPublish
<1>3. k <= got /\ pvalue = pool[k]
  BY <1>2 DEF TypeInv, PassInv
<1>4. /\ k \in 1..Vlen /\ got \in 0..Vlen /\ Vlen \in Nat /\ arrived \in Nat /\ got <= arrived
      /\ pool[k] \in Value /\ pool \in [1..Vlen -> Value \cup {NoValue}]
      /\ content[pool[k]].seq = arrived - got + k
      /\ \A i \in (k + 1)..got : content[pool[i]].seq = arrived - got + i
  BY <1>1, <1>2, <1>3, RecvFacts
<1>5. IInv /\ Queued = Contents
  BY <1>2, IInvQueued DEF Ordered
<1>6. IInv'
  BY <1>2, <1>5, IInvNext DEF Next, Push
<1>7. QueueInv' /\ Queued' = Append(Queued, pool[k])
  <2>1. Contents' = Append(Contents, pvalue)
    BY <1>2, <1>5, <1>6, FifoPut DEF Fifo!Put
  <2>2. QED BY <1>2, <1>3, <1>5, <1>6, <2>1 DEF QueueInv, Queued
<1>8. Waiting' = Append(Waiting, pool[k])
  <2>1. Waiting' = Remaining \o Append(Queued, pool[k])
    BY <1>1, <1>7, RecvFacts DEF Waiting
  <2>2. Remaining \o Append(Queued, pool[k]) = Append(Remaining \o Queued, pool[k])
    BY <1>4, WaitingType
  <2>3. QED BY <2>1, <2>2 DEF Waiting
<1>9. Settled = arrived - got + (k - 1) /\ Settled' = arrived - got + (k' - 1)
  BY <1>2 DEF Settled, InPass
<1>10. content[pool[k]].seq = Settled + 1 /\ Settled' = Settled + 1
  BY <1>2, <1>4, <1>9
<1>11. PassNumbers'
  <2> SUFFICES ASSUME NEW i \in (k + 1)..got PROVE content[pool'[i]].seq = arrived - got + i
    BY <1>2 DEF PassNumbers
  <2>1. pool'[i] = pool[i]
    BY <1>2, <1>4
  <2>2. QED BY <1>4, <2>1
<1>12. NumbersOf(content, Append(Waiting, pool[k]), decoded, dropped, Settled + 1)
  <2>1. NumbersOf(content, Waiting, decoded, dropped, Settled)
    BY DEF Ordered
  <2>2. QED BY <1>1, <1>4, <1>10, <2>1, RecvFacts, NumbersPublish
<1>13. HoldersOf([pool EXCEPT ![k] = NoValue], Append(Waiting, pool[k]), free)
  <2>1. HoldersOf(pool, Waiting, free) /\ pool[k] # NoValue
    BY <1>4, NoValueAssumption DEF Ordered
  <2>2. QED BY <1>1, <1>4, <2>1, RecvFacts, HoldersPublish
<1>14. HoldersOf(pool', Waiting', free') /\ NumbersOf(content', Waiting', decoded', dropped', Settled')
  BY <1>1, <1>2, <1>8, <1>10, <1>12, <1>13, RecvFacts
<1>15. QED BY <1>1, <1>7, <1>11, <1>14, RecvFacts DEF Ordered

\* The refused packet and the whole queue are lost together.
LEMMA ClearHeadOrdered ==
  ASSUME TypeInv, Ordered, RecvClearHead, cpc = "idle" PROVE Ordered'
<1>1. Recv
  BY DEF Recv, Ordered, RecvClearHead
<1>2. /\ ClearHead /\ ppc = "idle" /\ ppc' = "clear" /\ rpc = "overflow" /\ rpc' = "overflow"
      /\ head' = 0 /\ cpc' = cpc
      /\ UNCHANGED <<pool, k, got, arrived, free, content>>
      /\ dropped' = dropped \cup {content[pool[k]].seq}
                        \cup {content[b].seq : b \in Range(Contents) \ {NoValue}}
  BY DEF RecvClearHead, ClearHead, consumerVars
<1>3. /\ k \in Nat /\ k <= got /\ got \in Nat /\ arrived \in Nat /\ got <= arrived
      /\ content[pool[k]].seq = arrived - got + k
      /\ \A i \in (k + 1)..got : content[pool[i]].seq = arrived - got + i
  BY <1>1, <1>2, RecvFacts DEF TypeInv, PassInv
<1>4. Queued = Contents /\ Queued \in Seq(Value)
  BY <1>2, IInvQueued DEF Ordered
<1>5. QueueInv' /\ Queued' = <<>>
  BY <1>2, QueueTypes DEF QueueInv, Queued, TypeInv
<1>6. Waiting' = Remaining
  <2>1. Waiting' = Remaining \o <<>>
    BY <1>1, <1>5, RecvFacts DEF Waiting
  <2>2. QED BY <2>1, WaitingType
<1>7. Settled = arrived - got + (k - 1) /\ Settled' = arrived - got + k
  BY <1>2 DEF Settled, InPass
<1>8. content[pool[k]].seq = Settled + 1 /\ Settled' = Settled + 1
  BY <1>3, <1>7
<1>9. PassNumbers'
  BY <1>1, <1>2 DEF PassNumbers, Ordered, InPass
<1>10. dropped' = (dropped \cup {content[Queued[i]].seq : i \in 1..Len(Queued)}) \cup {Settled + 1}
  <2>1. Range(Contents) \ {NoValue} = {Queued[i] : i \in 1..Len(Queued)}
    BY <1>4, NoValueAssumption DEF Range
  <2>2. QED BY <1>2, <1>8, <2>1
<1>11. NumbersOf(content, Remaining, decoded, dropped \cup {content[Queued[i]].seq : i \in 1..Len(Queued)},
                 Settled)
  <2>1. NumbersOf(content, Remaining \o Queued, decoded, dropped, Settled)
    BY DEF Ordered, Waiting
  <2>2. Remaining \in Seq(Value) /\ Queued \in Seq(Value) /\ decoded \in Seq(Packet) /\ Settled \in Nat
    BY <1>1, RecvFacts, WaitingType
  <2>3. QED BY <2>1, <2>2, NumbersClear, SMTT(20)
<1>12. NumbersOf(content, Remaining, decoded, dropped', Settled + 1)
  BY <1>1, <1>10, <1>11, RecvFacts, WaitingType, NumbersDrop
<1>13. HoldersOf(pool, Remaining, free)
  <2>1. HoldersOf(pool, Remaining \o Queued, free)
    BY DEF Ordered, Waiting
  <2>2. QED BY <1>1, <2>1, RecvFacts, WaitingType, HoldersClear
<1>14. HoldersOf(pool', Waiting', free') /\ NumbersOf(content', Waiting', decoded', dropped', Settled')
  BY <1>1, <1>2, <1>6, <1>8, <1>12, <1>13, RecvFacts
<1>15. QED BY <1>1, <1>5, <1>9, <1>14, RecvFacts DEF Ordered

LEMMA ClearTailOrdered == ASSUME TypeInv, Ordered, RecvClearTail PROVE Ordered'
<1>1. Recv
  BY DEF Recv, Ordered, RecvClearTail
<1>2. /\ ClearTail /\ ppc = "clear" /\ ppc' = "idle" /\ rpc = "overflow" /\ rpc' = "push" /\ k' = k + 1
      /\ tail' = 0 /\ head' = head /\ cpc' = cpc
      /\ pool' = [pool EXCEPT ![k] = NoValue]
      /\ UNCHANGED <<got, arrived, dropped, free, content>>
  BY DEF RecvClearTail, ClearTail, consumerVars
<1>3. /\ k \in 1..Vlen /\ got \in 0..Vlen /\ Vlen \in Nat /\ arrived \in Nat /\ got <= arrived
      /\ pool \in [1..Vlen -> Value \cup {NoValue}]
      /\ \A i \in (k + 1)..got : content[pool[i]].seq = arrived - got + i
  BY <1>1, <1>2, RecvFacts DEF TypeInv, PassInv
<1>4. cpc = "idle" /\ head = 0
  BY <1>2 DEF Ordered, QueueInv
<1>5. TypeOK' /\ Size(head', tail') = 0
  BY <1>2, <1>4, QueueTypes DEF TypeInv, Size
<1>6. IInv'
  BY <1>2, <1>4, <1>5 DEF IInv, PushInv, PopInv, RingInv
<1>7. QueueInv' /\ Queued' = <<>> /\ Queued = <<>>
  <2>1. Contents' \in Seq(Value) /\ Len(Contents') = 0
    BY <1>5, <1>6, ContentsTypeNext
  <2>2. QED BY <1>2, <1>6, <2>1, EmptySeq DEF QueueInv, Queued
<1>8. Waiting' = Waiting
  BY <1>1, <1>7, RecvFacts DEF Waiting
<1>9. Settled = arrived - got + k /\ Settled' = arrived - got + (k' - 1)
  BY <1>2 DEF Settled, InPass
<1>10. Settled' = Settled
  BY <1>2, <1>3, <1>9
<1>11. PassNumbers'
  <2> SUFFICES ASSUME NEW i \in (k + 1)..got PROVE content[pool'[i]].seq = arrived - got + i
    BY <1>2 DEF PassNumbers
  <2>1. pool'[i] = pool[i]
    BY <1>2, <1>3
  <2>2. QED BY <1>3, <2>1
<1>12. HoldersOf([pool EXCEPT ![k] = NoValue], Waiting, free)
  <2>1. HoldersOf(pool, Waiting, free)
    BY DEF Ordered
  <2>2. QED BY <1>1, <1>3, <2>1, RecvFacts, HoldersEmpty
<1>13. HoldersOf(pool', Waiting', free') /\ NumbersOf(content', Waiting', decoded', dropped', Settled')
  BY <1>1, <1>2, <1>8, <1>10, <1>12, RecvFacts DEF Ordered
<1>14. QED BY <1>1, <1>7, <1>11, <1>13, RecvFacts DEF Ordered

LEMMA RecvOrdered ==
  ASSUME TypeInv, Ordered, Recv, RecvClearHead => cpc = "idle" PROVE Ordered'
BY ExitOrdered, LoopOrdered, FillOrdered, MmsgOrdered, ShortOrdered, PushOrdered, PublishOrdered,
   ClearHeadOrdered, ClearTailOrdered DEF Recv

LEMMA HandleOrdered ==
  ASSUME TypeInv, Ordered, Handle, HandlePoll => ppc # "clear" PROVE Ordered'
BY PollOrdered, TakeOrdered, PacketOrdered, NoNull DEF Handle

LEMMA StutterOrdered == ASSUME Ordered, UNCHANGED driverVars PROVE Ordered'
<1> USE DEF driverVars, recvVars, handleVars
<1>1. QueueInv' /\ Queued' = Queued
  BY QueueKept DEF Ordered
<1>2. ppc' = ppc /\ result' = result
  BY DEF vars, producerVars, consumerVars
<1>3. hpc' # "dead" /\ Remaining' = Remaining
  BY <1>2 DEF Ordered, Remaining
<1>4. Settled' = Settled /\ PassNumbers'
  BY <1>2 DEF Ordered, Settled, PassNumbers, InPass
<1>5. QED BY <1>1, <1>3, <1>4, KeepsOrder

\* overlapped is set by the two steps that make a clear() and a popBatch() meet,
\* and by no other.
LEMMA NextOrdered ==
  ASSUME TypeInv, Ordered, [DriverNext]_driverVars PROVE overlapped' \/ Ordered'
<1>1. CASE App
  BY <1>1, AppOrdered
<1>2. CASE Recv
  <2>1. CASE RecvClearHead /\ cpc # "idle"
    BY <2>1, Zenon DEF RecvClearHead
  <2>2. CASE RecvClearHead => cpc = "idle"
    BY <1>2, <2>2, RecvOrdered
  <2>3. QED BY <2>1, <2>2
<1>3. CASE Handle
  <2>1. CASE HandlePoll /\ ppc = "clear"
    BY <2>1, Zenon DEF HandlePoll
  <2>2. CASE HandlePoll => ppc # "clear"
    BY <1>3, <2>2, HandleOrdered
  <2>3. QED BY <2>1, <2>2
<1>4. CASE UNCHANGED driverVars
  BY <1>4, StutterOrdered
<1>5. QED BY <1>1, <1>2, <1>3, <1>4 DEF DriverNext

LEMMA NextOverlapped == ASSUME overlapped, [DriverNext]_driverVars PROVE overlapped'
<1>1. CASE App
  BY <1>1, Zenon DEF App, InitDriver, StartHandle, StartInput, StopInput, JoinRecv, JoinHandle
<1>2. CASE Recv
  BY <1>2, Zenon DEF Recv, RecvExit, RecvSelect, RecvFill, RecvMmsg, RecvShort, RecvPush, RecvWrite,
                     RecvPublish, RecvRefused, RecvClearHead, RecvClearTail, RecvNext
<1>3. CASE Handle
  BY <1>3, Zenon DEF Handle, HandleCheck, HandleTimeout, HandlePoll, HandleStep, HandleTake,
                     HandlePacket, HandleNull
<1>4. CASE UNCHANGED driverVars
  BY <1>4, Zenon DEF driverVars
<1>5. QED BY <1>1, <1>2, <1>3, <1>4 DEF DriverNext

-----------------------------------------------------------------------------
(* Invariance theorems *)

\* DriverInv holds in every reachable state.
THEOREM DriverInvariance == DriverSpec => []DriverInv
<1>1. DriverInit => DriverInv
  BY InitTypes, InitOrdered DEF DriverInv
<1>2. DriverInv /\ [DriverNext]_driverVars => DriverInv'
  BY NextTypes, NextOrdered, NextOverlapped DEF DriverInv
<1>3. QED BY <1>1, <1>2, PTL DEF DriverSpec

\* The variables of the driver and of its queue keep their types, whatever the
\* threads do: no index leaves the ring, the pool or the batch.
THEOREM DriverTypes == DriverSpec => [](TypeOK /\ DriverTypeOK)
<1>1. DriverInv => TypeOK /\ DriverTypeOK
  BY DEF DriverInv, TypeInv
<1>2. QED BY <1>1, DriverInvariance, PTL

LEMMA ApartFour ==
  ASSUME NEW a, NEW b, NEW c, NEW d,
         a \cap b = {}, a \cap c = {}, a \cap d = {}, b \cap c = {}, b \cap d = {}, c \cap d = {}
  PROVE  Apart(<<a, b, c, d>>)
<1> DEFINE s == <<a, b, c, d>>
<1>1. DOMAIN s = 1..4 /\ s[1] = a /\ s[2] = b /\ s[3] = c /\ s[4] = d
  OBVIOUS
<1>2. \A i \in 1..4 : i = 1 \/ i = 2 \/ i = 3 \/ i = 4
  OBVIOUS
<1> HIDE DEF s
<1>3. Apart(s)
  BY <1>1, <1>2 DEF Apart
<1>4. QED BY <1>3 DEF s

LEMMA ApartFive ==
  ASSUME NEW a, NEW b, NEW c, NEW d, NEW e,
         a \cap b = {}, a \cap c = {}, a \cap d = {}, b \cap c = {}, b \cap d = {}, c \cap d = {},
         a \cap e = {}, b \cap e = {}, c \cap e = {}, d \cap e = {}
  PROVE  /\ Apart(<<a, b, c, d, e>>)
         /\ UNION Range(<<a, b, c, d, e>>) = a \cup b \cup c \cup d \cup e
<1> DEFINE s == <<a, b, c, d, e>>
<1>1. DOMAIN s = 1..5 /\ s[1] = a /\ s[2] = b /\ s[3] = c /\ s[4] = d /\ s[5] = e
  OBVIOUS
<1>2. \A i \in 1..5 : i = 1 \/ i = 2 \/ i = 3 \/ i = 4 \/ i = 5
  OBVIOUS
<1>3. 1 \in 1..5 /\ 2 \in 1..5 /\ 3 \in 1..5 /\ 4 \in 1..5 /\ 5 \in 1..5
  OBVIOUS
<1> HIDE DEF s
<1>4. Apart(s)
  BY <1>1, <1>2 DEF Apart
<1>5. Range(s) = {a, b, c, d, e}
  BY <1>1, <1>2, <1>3 DEF Range
<1>6. UNION Range(s) = a \cup b \cup c \cup d \cup e
  BY <1>5
<1>7. QED BY <1>4, <1>6 DEF s

\* Where the waiting buffers are: first the batch, then the queue.
LEMMA WaitingParts ==
  ASSUME Ordered
  PROVE  LET m == Len(Remaining) IN
         /\ m \in Nat /\ Len(Queued) \in Nat /\ Len(Waiting) = m + Len(Queued)
         /\ \A i \in 1..m : i \in 1..Len(Waiting) /\ Waiting[i] = Remaining[i]
         /\ \A i \in 1..Len(Queued) : m + i \in 1..Len(Waiting) /\ Waiting[m + i] = Queued[i]
         /\ \A i \in 1..Len(Waiting) : i \in 1..m \/ \E j \in 1..Len(Queued) : i = m + j
<1> DEFINE m == Len(Remaining)
<1>1. /\ Queued \in Seq(Value) /\ Remaining \in Seq(Value) /\ Waiting = Remaining \o Queued
  BY WaitingType
<1>2. m \in Nat /\ Len(Queued) \in Nat /\ Len(Waiting) = m + Len(Queued)
  BY <1>1
<1>3. ASSUME NEW i \in 1..m PROVE i \in 1..Len(Waiting) /\ Waiting[i] = Remaining[i]
  BY <1>1, <1>2
<1>4. ASSUME NEW i \in 1..Len(Queued) PROVE m + i \in 1..Len(Waiting) /\ Waiting[m + i] = Queued[i]
  BY <1>1, <1>2
<1>5. ASSUME NEW i \in 1..Len(Waiting), i \notin 1..m
      PROVE  \E j \in 1..Len(Queued) : i = m + j
  <2>1. i - m \in 1..Len(Queued) /\ i = m + (i - m)
    BY <1>2, <1>5
  <2>2. QED BY <2>1
<1>6. QED BY <1>2, <1>3, <1>4, <1>5

LEMMA OrderedHolders == TypeInv /\ Ordered => OneHolder
<1> SUFFICES ASSUME TypeInv, Ordered PROVE OneHolder
  OBVIOUS
<1>1. /\ Queued \in Seq(Value) /\ Remaining \in Seq(Value) /\ Waiting \in Seq(Value)
      /\ free \in Seq(Value) /\ pool \in [1..Vlen -> Value \cup {NoValue}]
  BY WaitingType DEF TypeInv, DriverTypeOK, DataTypes
<1> DEFINE m == Len(Remaining)
<1>2. /\ m \in Nat /\ Len(Queued) \in Nat /\ Len(Waiting) = m + Len(Queued)
      /\ \A i \in 1..m : i \in 1..Len(Waiting) /\ Waiting[i] = Remaining[i]
      /\ \A i \in 1..Len(Queued) : m + i \in 1..Len(Waiting) /\ Waiting[m + i] = Queued[i]
  BY WaitingParts
<1>3. HoldersOf(pool, Waiting, free)
  BY DEF Ordered
<1>4. \A i, j \in 1..Len(Waiting) : Waiting[i] = Waiting[j] => i = j
  BY <1>1, NumbersInjective DEF Ordered
<1> HIDE DEF m
<1>5. \A i, j \in 1..m : Remaining[i] = Remaining[j] => i = j
  BY <1>2, <1>4
<1>6. \A i, j \in 1..Len(Queued) : Queued[i] = Queued[j] => i = j
  <2> SUFFICES ASSUME NEW i \in 1..Len(Queued), NEW j \in 1..Len(Queued), Queued[i] = Queued[j]
               PROVE  i = j
    OBVIOUS
  <2>1. m + i = m + j
    BY <1>2, <1>4
  <2>2. QED BY <1>2, <2>1
<1>7. \A i \in 1..Len(Queued), j \in 1..m : Queued[i] # Remaining[j]
  <2> SUFFICES ASSUME NEW i \in 1..Len(Queued), NEW j \in 1..m, Queued[i] = Remaining[j]
               PROVE  FALSE
    OBVIOUS
  <2>1. m + i = j
    BY <1>2, <1>4
  <2>2. QED BY <1>2, <2>1
<1>8. IsInjective(Queued) /\ IsInjective(Remaining) /\ IsInjective(free)
  <2>1. \A q \in Seq(Value) : (\A i, j \in 1..Len(q) : q[i] = q[j] => i = j) => IsInjective(q)
    BY DEF IsInjective
  <2>2. \A i, j \in 1..Len(free) : free[i] = free[j] => i = j
    BY <1>3 DEF HoldersOf
  <2>3. QED BY <1>1, <1>5, <1>6, <2>1, <2>2 DEF m
<1>9. \A i, j \in 1..Vlen : pool[i] = pool[j] /\ pool[i] # NoValue => i = j
  BY <1>3 DEF HoldersOf
<1>10. /\ \A x \in Pooled : \E i \in 1..Vlen : x = pool[i]
       /\ \A x \in Range(Queued) : \E i \in 1..Len(Queued) : x = Queued[i]
       /\ \A x \in Range(Remaining) : \E i \in 1..m : x = Remaining[i]
       /\ \A x \in Range(free) : \E i \in 1..Len(free) : x = free[i]
  <2>1. \A q \in Seq(Value) : \A x \in Range(q) : \E i \in 1..Len(q) : x = q[i]
    BY DEF Range
  <2>2. \A x \in Pooled : \E i \in 1..Vlen : x = pool[i]
    BY <1>1 DEF Range, Pooled
  <2>3. QED BY <1>1, <2>1, <2>2 DEF m
<1>11. /\ \A i \in 1..Vlen, j \in 1..Len(Queued) : pool[i] # Queued[j]
       /\ \A i \in 1..Vlen, j \in 1..m : pool[i] # Remaining[j]
       /\ \A i \in 1..Vlen, j \in 1..Len(free) : pool[i] # free[j]
       /\ \A i \in 1..Len(Queued), j \in 1..Len(free) : Queued[i] # free[j]
       /\ \A i \in 1..m, j \in 1..Len(free) : Remaining[i] # free[j]
  <2>1. /\ \A i \in 1..Vlen, j \in 1..Len(Waiting) : pool[i] # Waiting[j]
        /\ \A i \in 1..Vlen, j \in 1..Len(free) : pool[i] # free[j]
        /\ \A i \in 1..Len(Waiting), j \in 1..Len(free) : Waiting[i] # free[j]
    BY <1>3 DEF HoldersOf
  <2>2. QED BY <1>2, <2>1
<1>12. /\ Pooled \cap Range(Queued) = {} /\ Pooled \cap Range(Remaining) = {}
       /\ Pooled \cap Range(free) = {} /\ Range(Queued) \cap Range(Remaining) = {}
       /\ Range(Queued) \cap Range(free) = {} /\ Range(Remaining) \cap Range(free) = {}
  BY <1>7, <1>10, <1>11
<1>13. Apart(<<Pooled, Range(Queued), Range(Remaining), Range(free)>>)
  BY <1>12, ApartFour
<1>14. QED BY <1>8, <1>9, <1>13, Zenon DEF OneHolder

\* The packets in hand are the unsettled ones.
LEMMA HandUnsettled == ASSUME TypeInv, Ordered PROVE InHand = (Settled + 1)..arrived
<1>1. /\ k \in Nat /\ got \in Nat /\ arrived \in Nat /\ Settled \in Nat
      /\ InPass => k <= got + 1 /\ got <= arrived
      /\ ppc = "clear" => rpc = "overflow"
      /\ rpc = "overflow" => k <= got
  BY DriverAssumption DEF TypeInv, DriverTypeOK, DataTypes, PassInv, Settled, InPass
<1>2. CASE ~InPass
  BY <1>1, <1>2 DEF InHand, Settled, InPass
<1>3. CASE InPass
  <2> DEFINE first == IF ppc = "clear" THEN k + 1 ELSE k
  <2>1. /\ InHand = {content[pool[i]].seq : i \in first..got}
        /\ Settled = arrived - got + (first - 1)
        /\ first \in Nat
    BY <1>1, <1>3 DEF InHand, Settled, InPass
  <2>2. \A i \in first..got : content[pool[i]].seq = arrived - got + i
    BY <1>1, <1>3 DEF Ordered, PassNumbers
  <2> HIDE DEF first
  <2>3. InHand = {arrived - got + i : i \in first..got}
    BY <2>1, <2>2
  <2>4. ASSUME NEW n \in (Settled + 1)..arrived PROVE n \in InHand
    <3>1. n - (arrived - got) \in first..got /\ arrived - got + (n - (arrived - got)) = n
      BY <1>1, <2>1
    <3>2. QED BY <2>3, <3>1
  <2>5. ASSUME NEW n \in InHand PROVE n \in (Settled + 1)..arrived
    <3>1. PICK i \in first..got : n = arrived - got + i
      BY <2>3
    <3>2. QED BY <1>1, <1>3, <2>1, <3>1
  <2>6. QED BY <2>4, <2>5
<1>4. QED BY <1>2, <1>3

LEMMA OrderedAccounted == TypeInv /\ Ordered => Accounted
<1> SUFFICES ASSUME TypeInv, Ordered PROVE Accounted
  OBVIOUS
<1>1. /\ Queued \in Seq(Value) /\ Remaining \in Seq(Value) /\ Waiting \in Seq(Value)
      /\ decoded \in Seq(Packet) /\ arrived \in Nat /\ Settled \in Nat /\ Settled <= arrived
  BY WaitingType, DriverAssumption
     DEF TypeInv, DriverTypeOK, DataTypes, PassInv, Settled, InPass
<1> DEFINE m == Len(Remaining)
           e == {decoded[i].seq : i \in DOMAIN decoded}
<1>2. /\ m \in Nat /\ Len(Queued) \in Nat /\ Len(Waiting) = m + Len(Queued)
      /\ \A i \in 1..m : i \in 1..Len(Waiting) /\ Waiting[i] = Remaining[i]
      /\ \A i \in 1..Len(Queued) : m + i \in 1..Len(Waiting) /\ Waiting[m + i] = Queued[i]
      /\ \A i \in 1..Len(Waiting) : i \in 1..m \/ \E j \in 1..Len(Queued) : i = m + j
  BY WaitingParts
<1>3. NumbersOf(content, Waiting, decoded, dropped, Settled)
  BY DEF Ordered
<1>4. e = {decoded[i].seq : i \in 1..Len(decoded)}
  BY <1>1
<1>5. /\ Seqs(Remaining) = {content[Remaining[i]].seq : i \in 1..m}
      /\ Seqs(Queued) = {content[Queued[i]].seq : i \in 1..Len(Queued)}
  <2>1. ASSUME NEW q \in Seq(Value)
        PROVE  Seqs(q) = {content[q[i]].seq : i \in 1..Len(q)}
    <3>1. Range(q) \ {NoValue} = {q[i] : i \in 1..Len(q)}
      BY NoValueAssumption DEF Range
    <3>2. QED BY <3>1 DEF Seqs
  <2>2. QED BY <1>1, <2>1
<1> HIDE DEF m, e
<1>6. /\ \A n \in Seqs(Queued) : n \in 1..Settled \ dropped
      /\ \A n \in Seqs(Remaining) : n \in 1..Settled \ dropped
      /\ \A n \in e : n \in 1..Settled \ dropped
      /\ dropped \subseteq 1..Settled
  <2>1. /\ \A i \in 1..Len(Waiting) : content[Waiting[i]].seq \in 1..Settled \ dropped
        /\ \A i \in 1..Len(decoded) : decoded[i].seq \in 1..Settled \ dropped
        /\ dropped \subseteq 1..Settled
    BY <1>3 DEF NumbersOf
  <2>2. /\ \A i \in 1..m : content[Remaining[i]].seq \in 1..Settled \ dropped
        /\ \A i \in 1..Len(Queued) : content[Queued[i]].seq \in 1..Settled \ dropped
    BY <1>2, <2>1
  <2>3. QED BY <1>4, <1>5, <2>1, <2>2
<1>7. /\ \A i \in 1..m, j \in 1..Len(Queued) : content[Remaining[i]].seq < content[Queued[j]].seq
      /\ \A i \in 1..Len(decoded), j \in 1..m : decoded[i].seq < content[Remaining[j]].seq
      /\ \A i \in 1..Len(decoded), j \in 1..Len(Queued) : decoded[i].seq < content[Queued[j]].seq
  <2>1. /\ \A i, j \in 1..Len(Waiting) : i < j => content[Waiting[i]].seq < content[Waiting[j]].seq
        /\ \A i \in 1..Len(decoded), j \in 1..Len(Waiting) : decoded[i].seq < content[Waiting[j]].seq
    BY <1>3 DEF NumbersOf
  <2>2. \A i \in 1..m, j \in 1..Len(Queued) : i < m + j
    BY <1>2
  <2>3. QED BY <1>2, <2>1, <2>2
<1>8. /\ Seqs(Queued) \cap Seqs(Remaining) = {} /\ e \cap Seqs(Queued) = {}
      /\ e \cap Seqs(Remaining) = {}
  <2>1. \A i \in 1..m, j \in 1..Len(Queued) : content[Remaining[i]].seq # content[Queued[j]].seq
    <3> SUFFICES ASSUME NEW i \in 1..m, NEW j \in 1..Len(Queued),
                        content[Remaining[i]].seq = content[Queued[j]].seq
                 PROVE  FALSE
      OBVIOUS
    <3>1. content[Remaining[i]].seq < content[Queued[j]].seq /\ content[Remaining[i]].seq \in 1..Settled
      BY <1>5, <1>6, <1>7
    <3>2. QED BY <3>1
  <2>2. \A i \in 1..Len(decoded), j \in 1..m : decoded[i].seq # content[Remaining[j]].seq
    <3> SUFFICES ASSUME NEW i \in 1..Len(decoded), NEW j \in 1..m,
                        decoded[i].seq = content[Remaining[j]].seq
                 PROVE  FALSE
      OBVIOUS
    <3>1. decoded[i].seq < content[Remaining[j]].seq /\ decoded[i].seq \in 1..Settled
      BY <1>4, <1>6, <1>7
    <3>2. QED BY <3>1
  <2>3. \A i \in 1..Len(decoded), j \in 1..Len(Queued) : decoded[i].seq # content[Queued[j]].seq
    <3> SUFFICES ASSUME NEW i \in 1..Len(decoded), NEW j \in 1..Len(Queued),
                        decoded[i].seq = content[Queued[j]].seq
                 PROVE  FALSE
      OBVIOUS
    <3>1. decoded[i].seq < content[Queued[j]].seq /\ decoded[i].seq \in 1..Settled
      BY <1>4, <1>6, <1>7
    <3>2. QED BY <3>1
  <2>4. QED BY <1>4, <1>5, <2>1, <2>2, <2>3
<1>9. InHand = (Settled + 1)..arrived
  BY HandUnsettled
<1>10. \A n \in 1..Settled : n \in dropped \cup e \cup Seqs(Queued) \cup Seqs(Remaining)
  <2> SUFFICES ASSUME NEW n \in 1..Settled \ dropped
               PROVE  n \in e \cup Seqs(Queued) \cup Seqs(Remaining)
    OBVIOUS
  <2>1. CASE \E i \in 1..Len(decoded) : decoded[i].seq = n
    BY <1>4, <2>1
  <2>2. CASE \E i \in 1..Len(Waiting) : content[Waiting[i]].seq = n
    <3>1. PICK i \in 1..Len(Waiting) : content[Waiting[i]].seq = n
      BY <2>2
    <3>2. CASE i \in 1..m
      BY <1>2, <1>5, <3>1, <3>2
    <3>3. CASE \E j \in 1..Len(Queued) : i = m + j
      BY <1>2, <1>5, <3>1, <3>3
    <3>4. QED BY <1>2, <3>2, <3>3
  <2>3. QED BY <1>3, <2>1, <2>2 DEF NumbersOf
<1>11. dropped \cup e \cup Seqs(Queued) \cup Seqs(Remaining) = 1..Settled
  BY <1>6, <1>10
<1>12. 1..Settled \cup (Settled + 1)..arrived = 1..arrived /\ 1..Settled \cap (Settled + 1)..arrived = {}
  BY <1>1
<1>13. /\ dropped \cap e = {} /\ dropped \cap Seqs(Queued) = {} /\ dropped \cap Seqs(Remaining) = {}
  BY <1>6
<1>14. /\ dropped \cap InHand = {} /\ e \cap InHand = {}
       /\ Seqs(Queued) \cap InHand = {} /\ Seqs(Remaining) \cap InHand = {}
  BY <1>9, <1>11, <1>12
<1>15. /\ Apart(<<dropped, e, Seqs(Queued), Seqs(Remaining), InHand>>)
       /\ UNION Range(<<dropped, e, Seqs(Queued), Seqs(Remaining), InHand>>)
            = dropped \cup e \cup Seqs(Queued) \cup Seqs(Remaining) \cup InHand
  BY <1>8, <1>13, <1>14, ApartFive
<1>16. dropped \cup e \cup Seqs(Queued) \cup Seqs(Remaining) \cup InHand = 1..arrived
  BY <1>9, <1>11, <1>12
<1>17. QED BY <1>15, <1>16, Zenon DEF Accounted, e

LEMMA OrderedDecoded == TypeInv /\ Ordered => DecodedInOrder
<1> SUFFICES ASSUME TypeInv, Ordered PROVE DecodedInOrder
  OBVIOUS
<1>1. DOMAIN decoded = 1..Len(decoded)
  BY DEF TypeInv, DriverTypeOK, DataTypes
<1>2. hpc # "dead" /\ \A i, j \in 1..Len(decoded) : i < j => decoded[i].seq < decoded[j].seq
  BY DEF Ordered, NumbersOf
<1>3. QED BY <1>1, <1>2, Zenon DEF DecodedInOrder

\* Unless a clear() has met a popBatch(), no buffer is in two places: recvmmsg never
\* writes one that waits to be decoded, and none is decoded twice.
THEOREM BuffersHeldOnce == DriverSpec => []OneHolder
<1>1. DriverInv => OneHolder
  BY OrderedHolders, Zenon DEF DriverInv, OneHolder
<1>2. QED BY <1>1, DriverInvariance, PTL

\* Unless a clear() has met a popBatch(), every packet received is decoded, dropped
\* or under way, in exactly one place.
THEOREM PacketsAccounted == DriverSpec => []Accounted
<1>1. DriverInv => Accounted
  BY OrderedAccounted, Zenon DEF DriverInv, Accounted
<1>2. QED BY <1>1, DriverInvariance, PTL

\* Unless a clear() has met a popBatch(), packets are decoded once and in the order
\* they arrived, and no null pointer is.
THEOREM PacketsInOrder == DriverSpec => []DecodedInOrder
<1>1. DriverInv => DecodedInOrder
  BY OrderedDecoded, Zenon DEF DriverInv, DecodedInOrder
<1>2. QED BY <1>1, DriverInvariance, PTL

-----------------------------------------------------------------------------
(* The points of a session: the clouds and the one being filled, joined *)

\* What the packets of d after the first m add to the clouds, each in turn.
Added(d, m) == [i \in 1..(Len(d) - m) |-> Before(d[m + i]) \o After(d[m + i])]

CloudInv == /\ mark \in 0..Len(decoded)
            /\ frames \in Seq(Seq(Nat)) /\ cloud \in Seq(Nat)
            /\ NoPointLost

LEMMA PointsTyped ==
  ASSUME NEW p \in Packet
  PROVE  Before(p) \in Seq(Nat) /\ After(p) \in Seq(Nat)
<1>1. p.seq \in Nat BY DriverAssumption DEF Packet
<1> QED BY <1>1 DEF Before, After

LEMMA AddedTyped ==
  ASSUME NEW d \in Seq(Packet), NEW m \in 0..Len(d)
  PROVE  Added(d, m) \in Seq(Seq(Nat))
<1> DEFINE n == Len(d) - m
<1>1. n \in Nat /\ \A i \in 1..n : m + i \in 1..Len(d)
  OBVIOUS
<1>2. \A i \in 1..n : Before(d[m + i]) \o After(d[m + i]) \in Seq(Nat)
  <2> TAKE i \in 1..n
  <2>1. d[m + i] \in Packet BY <1>1
  <2> QED BY <2>1, PointsTyped
<1> DEFINE s == [i \in 1..n |-> Before(d[m + i]) \o After(d[m + i])]
<1>3. s \in [1..n -> Seq(Nat)] BY <1>2
<1>4. Added(d, m) = s BY DEF Added
<1> HIDE DEF n, s
<1> QED BY <1>1, <1>3, <1>4, SeqDef

LEMMA AddedNext ==
  ASSUME NEW d \in Seq(Packet), NEW m \in 0..Len(d), NEW p \in Packet
  PROVE  Added(Append(d, p), m) = Append(Added(d, m), Before(p) \o After(p))
<1> DEFINE n == Len(d) - m
           e == Append(d, p)
           s == Added(e, m)
           t == Append(Added(d, m), Before(p) \o After(p))
<1>1. n \in Nat /\ Len(e) - m = n + 1 /\ m + (n + 1) = Len(d) + 1
  OBVIOUS
<1>2. e[m + (n + 1)] = p /\ \A i \in 1..n : e[m + i] = d[m + i]
  OBVIOUS
<1>3. e \in Seq(Packet) /\ m \in 0..Len(e) OBVIOUS
<1>4. s \in Seq(Seq(Nat)) BY <1>3, AddedTyped
<1>5. Added(d, m) \in Seq(Seq(Nat)) BY AddedTyped
<1>6. Before(p) \o After(p) \in Seq(Nat) BY PointsTyped
<1>7. t \in Seq(Seq(Nat)) BY <1>5, <1>6
<1>8. Len(Added(d, m)) = n /\ \A i \in 1..n : Added(d, m)[i] = Before(d[m + i]) \o After(d[m + i])
  BY <1>1 DEF Added
<1>9. Len(s) = n + 1 /\ \A i \in 1..(n + 1) : s[i] = Before(e[m + i]) \o After(e[m + i])
  <2> HIDE DEF n, e
  <2> QED BY <1>1 DEF Added
<1>10. Len(t) = n + 1 /\ t[n + 1] = Before(p) \o After(p) /\ \A i \in 1..n : t[i] = Added(d, m)[i]
  <2> HIDE DEF n
  <2>1. /\ Len(t) = Len(Added(d, m)) + 1
        /\ t[Len(Added(d, m)) + 1] = Before(p) \o After(p)
        /\ \A i \in 1..Len(Added(d, m)) : t[i] = Added(d, m)[i]
    BY <1>5, <1>6, AppendProperties
  <2>2. Len(Added(d, m)) = n BY <1>8
  <2> QED BY <2>1, <2>2, Zenon
<1> HIDE DEF n, e, s, t
<1>11. \A i \in 1..(n + 1) : s[i] = t[i]
  <2> TAKE i \in 1..(n + 1)
  <2>1. CASE i \in 1..n
    <3>1. s[i] = Before(e[m + i]) \o After(e[m + i]) /\ e[m + i] = d[m + i]
      BY <1>2, <1>9, <2>1, Zenon
    <3>2. t[i] = Before(d[m + i]) \o After(d[m + i])
      BY <1>8, <1>10, <2>1, Zenon
    <3> QED BY <3>1, <3>2, Zenon
  <2>2. CASE i = n + 1
    BY <1>2, <1>9, <1>10, <2>2, Zenon
  <2> QED BY <1>1, <2>1, <2>2
<1>12. s = t
  BY <1>4, <1>7, <1>9, <1>10, <1>11, SeqEqual
<1> QED BY <1>12 DEF s, t, e

LEMMA PacketCloud == ASSUME TypeInv, CloudInv, HandlePacket PROVE CloudInv'
<1> DEFINE p == content[result[next]]
           b == Before(p)
           a == After(p)
           filled == cloud \o b
<1>1. p \in Packet /\ decoded \in Seq(Packet)
  <2>1. /\ content \in [Value -> Packet] /\ decoded \in Seq(Packet)
        /\ next \in 1..Len(result) /\ result \in Seq(Value \cup {NoValue})
    BY DEF TypeInv, DriverTypeOK, DataTypes, BatchInv, TypeOK, HandlePacket
  <2>2. result[next] \in Value
    BY <2>1 DEF HandlePacket
  <2> QED BY <2>1, <2>2
<1>2. /\ decoded' = Append(decoded, p) /\ mark' = mark
      /\ \/ frames' = Append(frames, filled) /\ cloud' = <<>> \o a
         \/ frames' = frames /\ cloud' = filled \o a
  BY Zenon DEF HandlePacket, FreshCloud
<1> HIDE DEF p
<1>3. a \in Seq(Nat) /\ b \in Seq(Nat) BY <1>1, PointsTyped
<1>4. /\ cloud \in Seq(Nat) /\ frames \in Seq(Seq(Nat)) /\ mark \in 0..Len(decoded)
      /\ FlattenSeq(frames) \o cloud = FlattenSeq(Added(decoded, mark))
  BY Zenon DEF CloudInv, NoPointLost, Added
<1> DEFINE F == FlattenSeq(frames)
           D == Added(decoded, mark)
<1>5. D \in Seq(Seq(Nat)) BY <1>1, <1>4, AddedTyped
<1>6. Added(decoded', mark') = Append(D, b \o a)
  BY <1>1, <1>2, <1>4, AddedNext
<1>7. F \in Seq(Nat) BY <1>4, FlattenTyped
<1>8. FlattenSeq(Append(D, b \o a)) = FlattenSeq(D) \o (b \o a)
  <2>1. b \o a \in Seq(Nat) BY <1>3
  <2> HIDE DEF D, b, a
  <2> QED BY <1>5, <2>1, FlattenAppend, Zenon
<1>9. filled \in Seq(Nat) /\ FlattenSeq(Append(frames, filled)) = F \o filled
  <2>1. filled \in Seq(Nat) BY <1>3, <1>4
  <2> HIDE DEF filled
  <2> QED BY <1>4, <2>1, FlattenAppend, Zenon
<1>10. FlattenSeq(frames') \o cloud' = (F \o cloud) \o (b \o a)
  <2>1. /\ (F \o (cloud \o b)) \o a = (F \o cloud) \o (b \o a)
        /\ F \o ((cloud \o b) \o a) = (F \o cloud) \o (b \o a)
    <3>1. cloud \in Seq(Nat) BY <1>4
    <3>2. \A w, x, y, z \in Seq(Nat) : /\ (w \o (x \o y)) \o z = (w \o x) \o (y \o z)
                                       /\ w \o ((x \o y) \o z) = (w \o x) \o (y \o z)
      <4> TAKE w, x, y, z \in Seq(Nat)
      <4>1. w \o ((x \o y) \o z) = (w \o x) \o (y \o z) BY SMTT(20)
      <4>2. w \o (x \o y) = (w \o x) \o y OBVIOUS
      <4>3. w \o x \in Seq(Nat) OBVIOUS
      <4>4. \A u \in Seq(Nat) : (u \o y) \o z = u \o (y \o z) OBVIOUS
      <4> QED BY <4>1, <4>2, <4>3, <4>4, Zenon
    <3> HIDE DEF F, b, a
    <3>3. \A y, z \in Seq(Nat) : /\ (F \o (cloud \o y)) \o z = (F \o cloud) \o (y \o z)
                                 /\ F \o ((cloud \o y) \o z) = (F \o cloud) \o (y \o z)
      BY <3>1, <3>2, <1>7, Zenon
    <3> QED BY <3>3, <1>3, Zenon
  <2>2. CASE frames' = Append(frames, filled) /\ cloud' = <<>> \o a
    <3>1. <<>> \o a = a BY <1>3
    <3> QED BY <1>9, <2>1, <2>2, <3>1, Zenon
  <2>3. CASE frames' = frames /\ cloud' = filled \o a
    BY <2>1, <2>3, Zenon
  <2> QED BY <1>2, <2>2, <2>3
<1>11. NoPointLost'
  <2>1. FlattenSeq(Added(decoded', mark')) = FlattenSeq(D) \o (b \o a)
    BY <1>6, <1>8, Zenon
  <2>2. F \o cloud = FlattenSeq(D) BY <1>4, Zenon
  <2>3. FlattenSeq(frames') \o cloud' = FlattenSeq(Added(decoded', mark'))
    BY <1>10, <2>1, <2>2, Zenon
  <2> QED BY <2>3, Zenon DEF NoPointLost, Added
<1>12. frames' \in Seq(Seq(Nat)) /\ cloud' \in Seq(Nat) /\ mark' \in 0..Len(decoded')
  <2>1. filled \o a \in Seq(Nat) /\ <<>> \o a \in Seq(Nat) BY <1>3, <1>9
  <2>2. Append(frames, filled) \in Seq(Seq(Nat)) BY <1>4, <1>9
  <2>3. mark' \in 0..Len(decoded') BY <1>1, <1>2, <1>4
  <2> QED BY <1>2, <1>4, <2>1, <2>2, <2>3
<1> QED BY <1>11, <1>12 DEF CloudInv

LEMMA NoneAdded ==
  ASSUME NEW d, Len(d) \in Nat
  PROVE  FlattenSeq(<<>>) \o <<>> = FlattenSeq(Added(d, Len(d)))
<1>1. Len(d) - Len(d) = 0 OBVIOUS
<1>2. Added(d, Len(d)) = <<>>
  BY <1>1 DEF Added
<1>3. <<>> \in Seq(Seq(Nat)) OBVIOUS
<1>4. FlattenSeq(<<>>) = <<>>
  BY <1>3, FlattenTyped, Zenon
<1>5. <<>> \o <<>> = <<>> OBVIOUS
<1> QED BY <1>2, <1>4, <1>5, Zenon

LEMMA CloudKept ==
  ASSUME CloudInv, UNCHANGED <<decoded, mark, frames, cloud>>
  PROVE  CloudInv'
  BY Zenon DEF CloudInv, NoPointLost

LEMMA StopCloud == ASSUME TypeInv, CloudInv, JoinHandle PROVE CloudInv'
<1>1. decoded' = decoded /\ Len(decoded) \in Nat /\ mark' = Len(decoded) /\ cloud' = <<>> /\ frames' = <<>>
  BY DEF JoinHandle, TypeInv, DriverTypeOK, DataTypes
<1>2. NoPointLost'
  <2>1. FlattenSeq(frames') \o cloud' = FlattenSeq(Added(decoded', mark'))
    BY <1>1, NoneAdded, Zenon
  <2> QED BY <2>1, Zenon DEF NoPointLost, Added
<1> QED BY <1>1, <1>2 DEF CloudInv

LEMMA NextCloud == ASSUME TypeInv, CloudInv, [DriverNext]_driverVars PROVE CloudInv'
<1>1. CASE App /\ ~JoinHandle
  BY <1>1, CloudKept, Zenon DEF App, InitDriver, StartHandle, StartInput, StopInput, JoinRecv, handleVars
<1>2. CASE JoinHandle
  BY <1>2, StopCloud
<1>3. CASE Recv
  BY <1>3, CloudKept, Zenon DEF Recv, RecvExit, RecvSelect, RecvFill, RecvMmsg, RecvShort, RecvPush, RecvWrite,
                     RecvPublish, RecvRefused, RecvClearHead, RecvClearTail, RecvNext, recvRest, handleVars
<1>4. CASE Handle /\ ~HandlePacket
  BY <1>4, CloudKept, Zenon DEF Handle, HandleCheck, HandleTimeout, HandlePoll, HandleStep, HandleTake,
                     HandleNull, handleVars
<1>5. CASE HandlePacket
  BY <1>5, PacketCloud
<1>6. CASE UNCHANGED driverVars
  BY <1>6, CloudKept, Zenon DEF driverVars, handleVars
<1> QED BY <1>1, <1>2, <1>3, <1>4, <1>5, <1>6, Zenon DEF DriverNext

\* The clouds of a session and the one being filled have the points of every packet
\* decoded in it, once and in order, also when a clear meets a popBatch.
THEOREM PointsKept == DriverSpec => []NoPointLost
<1>1. DriverInit => CloudInv
  <2> SUFFICES ASSUME DriverInit PROVE CloudInv OBVIOUS
  <2>1. /\ decoded = <<>> /\ mark = 0 /\ cloud = <<>> /\ frames = <<>>
    BY DEF DriverInit
  <2>2. Len(<<>>) = 0 OBVIOUS
  <2>3. FlattenSeq(frames) \o cloud = FlattenSeq(Added(decoded, mark))
    BY <2>1, <2>2, NoneAdded, Zenon
  <2>4. NoPointLost BY <2>3, Zenon DEF NoPointLost, Added
  <2> QED BY <2>1, <2>4 DEF CloudInv
<1>2. DriverInv /\ CloudInv /\ [DriverNext]_driverVars => CloudInv'
  BY NextCloud DEF DriverInv
<1>3. CloudInv => NoPointLost
  BY DEF CloudInv
<1> QED BY <1>1, <1>2, <1>3, DriverInvariance, PTL DEF DriverSpec
=============================================================================
