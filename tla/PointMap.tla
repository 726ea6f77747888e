------------------------------- MODULE PointMap -------------------------------
(***************************************************************************)
(* What the ikd-Tree promises as a map: a bag of points.  Adding with      *)
(* downsampling leaves in the voxel of the new point the one nearest to    *)
(* its centre; deleting a box takes out the points in it and nothing else. *)
(* What comes back was deleted before.                                     *)
(***************************************************************************)
EXTENDS Integers, Bags

CONSTANTS
  Point,
  Cloud,          \* bags of points to start from
  Box,            \* sets of points
  VoxelOf(_),     \* the points in the voxel of a point
  Distance(_)     \* of a point from the centre of its voxel

VARIABLES
  held,           \* the map
  gone            \* points deleted from it that nobody was told of yet

Part(bag, S) == [p \in S \cap BagToSet(bag) |-> bag[p]]

Init == held = EmptyBag /\ gone = EmptyBag

Build(cloud) == held' = cloud /\ gone' \sqsubseteq gone

Add(p) == held' = held (+) SetToBag({p}) /\ UNCHANGED gone

\* The stored points of the voxel give way to the best of them and the new one;
\* a single one that is better than the new one just stays.
AddDownsampled(p) ==
  LET inside  == Part(held, VoxelOf(p))
      nearest == {x \in BagToSet(inside) : \A y \in BagToSet(inside) : Distance(x) <= Distance(y)}
      better  == {x \in nearest : Distance(x) < Distance(p)}
  IN /\ UNCHANGED gone
     /\ \E keep \in IF better = {} THEN {p} ELSE better :
          held' = (held (-) inside) (+) SetToBag({keep})

Delete(lost) == held' = held (-) lost /\ gone' = gone (+) lost

\* One instance of the point at most: the search for it follows the axes, and
\* misses a point that a build left on the other side of an equal one.
DeletePoint(p) == Delete(Part(SetToBag({p}), BagToSet(held))) \/ UNCHANGED <<held, gone>>

Restore == LET back == held' (-) held IN
  /\ held \sqsubseteq held'
  /\ back \sqsubseteq gone /\ gone' = gone (-) back

\* The deleted points, or some of them, are handed out.
Fetch == gone' \sqsubseteq gone /\ UNCHANGED held

Next == \/ \E cloud \in Cloud : Build(cloud)
        \/ \E p \in Point : Add(p) \/ AddDownsampled(p) \/ DeletePoint(p)
        \/ \E box \in Box : Delete(Part(held, box))
        \/ Restore
        \/ Fetch

Spec == Init /\ [][Next]_<<held, gone>>
===============================================================================
