------------------------------ MODULE SyncQueue ------------------------------
(***************************************************************************)
(* utility/sync_queue.hpp: the lock-free ring that carries packets between *)
(* the receiving and the handling thread of rs_driver, and point clouds    *)
(* between the driver and the ROS node.  One thread pushes, one thread     *)
(* pops.  Each atomic load and store of an index, and each access to a     *)
(* slot, is an action of its own, so that the two threads interleave       *)
(* exactly where the C++ lets them.                                        *)
(***************************************************************************)
EXTENDS Integers, Sequences

CONSTANTS Value,      \* what may be queued (shared pointers)
          Capacity,   \* number of slots, 102400 by default
          MaxBatch,   \* max_count of popBatch, 50 in the driver
          NoValue     \* a default-constructed T: what an unwritten slot holds

ASSUME CapacityAssumption == Capacity \in Nat /\ Capacity >= 2
ASSUME MaxBatchAssumption == MaxBatch \in Nat /\ MaxBatch >= 1
ASSUME NoValueAssumption  == NoValue \notin Value

VARIABLES buffer,     \* buffer_
          head,       \* head_
          tail,       \* tail_
          ppc,        \* where the pushing thread is inside push()
          ptail,      \* its current_tail
          pvalue,     \* the value it pushes
          status,     \* what its last finished push returned
          cpc,        \* where the popping thread is inside pop() or popBatch()
          chead,      \* its current_head
          count,      \* its real_count (1 for pop)
          out,        \* the values it has copied out so far
          result      \* what its last finished pop returned

producerVars == <<ppc, ptail, pvalue, status>>
consumerVars == <<cpc, chead, count, out, result>>
vars == <<buffer, head, tail, producerVars, consumerVars>>

Index == 0..(Capacity - 1)

\* Positions wrap around the ring.
Slot(k) == k % Capacity

\* size(), and the same computation inside popBatch.
Size(h, t) == IF t >= h THEN t - h ELSE Capacity - h + t

\* The queue the ring represents, oldest value first.
Contents == [i \in 1..Size(head, tail) |-> buffer[Slot(head + i - 1)]]

Init ==
  /\ buffer = [i \in Index |-> NoValue]
  /\ head = 0 /\ tail = 0
  /\ ppc = "idle" /\ ptail = 0 /\ pvalue = NoValue /\ status = "none"
  /\ cpc = "idle" /\ chead = 0 /\ count = 0 /\ out = <<>> /\ result = <<>>

-----------------------------------------------------------------------------
(* push and clear *)

\* Mutation: push does not look at head_.
PushBeginUnchecked(v) ==
  /\ ppc = "idle"
  /\ ppc' = "write" /\ ptail' = tail /\ pvalue' = v
  /\ UNCHANGED <<buffer, head, tail, status, consumerVars>>

\* Loads tail_ and head_; tail_ is written by this thread alone.
PushBegin(v) ==
  /\ ppc = "idle"
  /\ Slot(tail + 1) # head
  /\ ppc' = "write" /\ ptail' = tail /\ pvalue' = v
  /\ UNCHANGED <<buffer, head, tail, status, consumerVars>>

PushFull ==
  /\ ppc = "idle"
  /\ Slot(tail + 1) = head
  /\ status' = "full"
  /\ UNCHANGED <<buffer, head, tail, ppc, ptail, pvalue, consumerVars>>

PushWrite ==
  /\ ppc = "write"
  /\ buffer' = [buffer EXCEPT ![ptail] = pvalue]
  /\ ppc' = "publish"
  /\ UNCHANGED <<head, tail, ptail, pvalue, status, consumerVars>>

PushPublish ==
  /\ ppc = "publish"
  /\ tail' = Slot(ptail + 1)
  /\ ppc' = "idle" /\ status' = "ok"
  /\ UNCHANGED <<buffer, head, ptail, pvalue, consumerVars>>

\* clear() resets the two indices one after the other.  The driver calls it from
\* the pushing thread; the queues of the ROS node never do.
ClearHead ==
  /\ ppc = "idle"
  /\ head' = 0
  /\ ppc' = "clear"
  /\ UNCHANGED <<buffer, tail, ptail, pvalue, status, consumerVars>>

ClearTail ==
  /\ ppc = "clear"
  /\ tail' = 0
  /\ ppc' = "idle"
  /\ UNCHANGED <<buffer, head, ptail, pvalue, status, consumerVars>>

Push == (\E v \in Value : PushBegin(v)) \/ PushFull \/ PushWrite \/ PushPublish

-----------------------------------------------------------------------------
(* pop, popWait and popBatch *)

\* pop and each round of popWait load head_, then tail_.
PopLoadHead ==
  /\ cpc = "idle"
  /\ cpc' = "compare" /\ chead' = head
  /\ UNCHANGED <<buffer, head, tail, producerVars, count, out, result>>

PopCompare ==
  /\ cpc = "compare"
  /\ IF chead = tail
       THEN cpc' = "idle" /\ result' = <<>> /\ UNCHANGED <<count, out>>
       ELSE cpc' = "copy" /\ count' = 1 /\ out' = <<>> /\ UNCHANGED result
  /\ UNCHANGED <<buffer, head, tail, producerVars, chead>>

\* Mutation: the ring is not expected to wrap.
BatchPollNoWrap ==
  /\ cpc = "idle"
  /\ head < tail
  /\ cpc' = "loadHead"
  /\ UNCHANGED <<buffer, head, tail, producerVars, chead, count, out, result>>

\* popBatch polls until the ring is not empty or its timeout expires.
BatchPoll ==
  /\ cpc = "idle"
  /\ head # tail
  /\ cpc' = "loadHead"
  /\ UNCHANGED <<buffer, head, tail, producerVars, chead, count, out, result>>

BatchTimeout ==
  /\ cpc = "idle"
  /\ head = tail
  /\ result' = <<>>
  /\ UNCHANGED <<buffer, head, tail, producerVars, cpc, chead, count, out>>

\* Only then does it load the indices it works with.
BatchLoadHead ==
  /\ cpc = "loadHead"
  /\ cpc' = "loadTail" /\ chead' = head
  /\ UNCHANGED <<buffer, head, tail, producerVars, count, out, result>>

BatchLoadTail ==
  /\ cpc = "loadTail"
  /\ LET available == Size(chead, tail)
     IN count' = IF MaxBatch < available THEN MaxBatch ELSE available
  /\ cpc' = "copy" /\ out' = <<>>
  /\ UNCHANGED <<buffer, head, tail, producerVars, chead, result>>

\* Mutation: the batch is copied from its end.
PopCopyBackwards ==
  /\ cpc = "copy"
  /\ Len(out) < count
  /\ out' = Append(out, buffer[Slot(chead + count - 1 - Len(out))])
  /\ UNCHANGED <<buffer, head, tail, producerVars, cpc, chead, count, result>>

PopCopy ==
  /\ cpc = "copy"
  /\ Len(out) < count
  /\ out' = Append(out, buffer[Slot(chead + Len(out))])
  /\ UNCHANGED <<buffer, head, tail, producerVars, cpc, chead, count, result>>

\* Mutation: max_count slots are released instead of real_count.
PopReleaseMaxBatch ==
  /\ cpc = "copy"
  /\ Len(out) = count
  /\ head' = Slot(chead + MaxBatch)
  /\ result' = out
  /\ cpc' = "idle"
  /\ UNCHANGED <<buffer, tail, producerVars, chead, count, out>>

\* Mutation: head_ is not stored.
PopReleaseNoStore ==
  /\ cpc = "copy"
  /\ Len(out) = count
  /\ result' = out
  /\ cpc' = "idle"
  /\ UNCHANGED <<buffer, head, tail, producerVars, chead, count, out>>

PopRelease ==
  /\ cpc = "copy"
  /\ Len(out) = count
  /\ head' = Slot(chead + count)
  /\ result' = out
  /\ cpc' = "idle"
  /\ UNCHANGED <<buffer, tail, producerVars, chead, count, out>>

Pop == \/ PopLoadHead \/ PopCompare
       \/ BatchPoll \/ BatchTimeout \/ BatchLoadHead \/ BatchLoadTail
       \/ PopCopy \/ PopRelease

\* A queue whose users push and pop, and never clear.
Next == Push \/ Pop

Spec == Init /\ [][Next]_vars

\* The handling thread calls popBatch in a loop and never blocks, and a push
\* that has begun runs to its end; nothing says that another push begins.
Fairness == WF_vars(Pop) /\ WF_vars(PushWrite \/ PushPublish)

FairSpec == Spec /\ Fairness

-----------------------------------------------------------------------------
(* Properties *)

TypeOK ==
  /\ buffer \in [Index -> Value \cup {NoValue}]
  /\ head \in Index /\ tail \in Index
  /\ ppc \in {"idle", "write", "publish", "clear"}
  /\ ptail \in Index /\ pvalue \in Value \cup {NoValue}
  /\ status \in {"none", "ok", "full"}
  /\ cpc \in {"idle", "compare", "loadHead", "loadTail", "copy"}
  /\ chead \in Index /\ count \in 0..(Capacity - 1)
  /\ out \in Seq(Value \cup {NoValue}) /\ result \in Seq(Value \cup {NoValue})

\* The slots the popping thread may still read before it releases them.
Unread == IF cpc = "copy" THEN {Slot(chead + i) : i \in Len(out)..(count - 1)} ELSE {}

\* No data race on a slot: push writes buffer_[current_tail] while popBatch
\* copies slots without a lock, and the two must never meet.
SlotExclusion == ppc = "write" => ptail \notin Unread

\* The ring is a FIFO queue of Capacity - 1 values: a push takes effect when it
\* stores tail_, a pop when it stores head_; push() is refused, and pop() comes
\* back empty, only when the queue is full, or empty, at that moment.
Fifo == INSTANCE BoundedFifo WITH Limit <- Capacity - 1, queue <- Contents
ImplementsFifo == Fifo!Spec

\* A full ring does not stay full: push() is eventually accepted again, because
\* popBatch never waits for room and always releases what it copied.
FullRingDrains == (Size(head, tail) = Capacity - 1) ~> (Size(head, tail) < Capacity - 1)

\* Every value that push() accepts is handed out by a later pop.
AcceptedIsDelivered ==
  \A v \in Value :
    (ppc = "publish" /\ pvalue = v) ~> (\E i \in 1..Len(result) : result[i] = v)

\* The queue goes on: it never stays full, and nothing that it accepted stays in it.
RingDelivers == FullRingDrains /\ AcceptedIsDelivered

-----------------------------------------------------------------------------
(* The inductive invariant behind TypeOK, SlotExclusion and ImplementsFifo. *)

\* While a push is under way its tail is the shared one and there is room.
PushInv ==
  /\ ppc # "clear"
  /\ ppc # "idle" => /\ ptail = tail
                     /\ pvalue \in Value
                     /\ Size(head, tail) < Capacity - 1
  /\ ppc = "publish" => buffer[ptail] = pvalue

\* While a pop is under way its head is the shared one, the values it claims
\* are in the ring, and those it copied are still there.
PopInv ==
  /\ cpc \in {"compare", "loadTail", "copy"} => chead = head
  /\ cpc \in {"loadHead", "loadTail"} => head # tail
  /\ cpc = "copy" =>
       /\ count \in 1..Size(head, tail)
       /\ Len(out) <= count
       /\ \A i \in 1..Len(out) : out[i] = buffer[Slot(head + i - 1)]

\* Occupied slots were written.
RingInv == \A i \in 1..Size(head, tail) : buffer[Slot(head + i - 1)] \in Value

IInv == TypeOK /\ PushInv /\ PopInv /\ RingInv
=============================================================================
