----------------------------- MODULE BoundedFifo -----------------------------
(***************************************************************************)
(* What rs_driver expects of its lock-free SyncQueue: a bounded            *)
(* first-in-first-out queue.  A push appends its value or is refused, and  *)
(* it is refused only when the queue is full; a pop takes a prefix of the  *)
(* queue, and comes back empty-handed only when the queue is empty.        *)
(***************************************************************************)
EXTENDS Integers, Sequences

CONSTANTS Value,    \* what may be queued
          Limit     \* how many values fit

VARIABLES queue,    \* the values accepted and not yet taken, oldest first
          status,   \* what the last finished push reported
          result    \* the batch that the last finished pop returned

vars == <<queue, status, result>>

Init == queue = <<>> /\ status = "none" /\ result = <<>>

Put(v) == /\ Len(queue) < Limit
          /\ queue' = Append(queue, v)
          /\ status' = "ok"
          /\ UNCHANGED result

Refuse == /\ Len(queue) = Limit
          /\ status' = "full"
          /\ UNCHANGED <<queue, result>>

Take(n) == /\ result' = SubSeq(queue, 1, n)
           /\ queue' = SubSeq(queue, n + 1, Len(queue))
           /\ UNCHANGED status

TakeNothing == /\ queue = <<>>
               /\ result' = <<>>
               /\ UNCHANGED <<queue, status>>

Next == \/ \E v \in Value : Put(v)
        \/ Refuse
        \/ \E n \in 1..Len(queue) : Take(n)
        \/ TakeNothing

Spec == Init /\ [][Next]_vars
=============================================================================
