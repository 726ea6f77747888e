-------------------------------- MODULE IkdMap --------------------------------
(***************************************************************************)
(* The ikd-Tree as its callers see it: the public calls of KD_TREE, one    *)
(* action each.  A call with several points or boxes is a loop over them   *)
(* with nothing in between, so an action has one.  FAST-LIO itself calls   *)
(* Build, Add_Points, Delete_Point_Boxes, Nearest_Search, flatten, size,   *)
(* validnum and acquire_removed_points; Delete_Points and Add_Point_Boxes  *)
(* are there for other users, and "used" remembers that one was called.    *)
(***************************************************************************)
EXTENDS IkdTree, Bags

CONSTANTS
  Point,        \* <<x, y, z>>, even numbers
  Cloud,        \* what Build is called with: sequences of points
  Box,          \* pairs of corners
  Query,        \* points that searches are about
  MaxNear,      \* bound on k_nearest
  Reach,        \* values of max_dist and of radius
  MaxSize,      \* bound on the nodes of the tree when a point is added
  MaxDeleted    \* bound on the deleted points nobody has fetched when a box is deleted

ASSUME MapAssumption ==
  /\ \A p \in Point : \A a \in Axes : p[a] % 2 = 0
  /\ downsample_size % 2 = 0 /\ MaxNear \in Nat \ {0} /\ Reach \subseteq Nat

VARIABLES
  Root_Node,
  Points_deleted,   \* a bag: its order is never used
  contents,         \* history: the bag of valid points, as flatten returns them
  deleted,          \* what was deleted by box or by point and not yet fetched
  used,             \* Delete_Points or Add_Point_Boxes was called since the build
  crashed           \* a null root was dereferenced

vars == <<Root_Node, contents, Points_deleted, deleted, used, crashed>>

\* Add_Point_Boxes may bring back points outside the range of their subtree: from
\* then on, and until the next Build, neither deletions nor searches see them.
Sound == "Add_Point_Boxes" \notin used

Contents(t) == ToBag(flatten(t).Storage)

Init == /\ Root_Node = nullptr /\ contents = EmptyBag /\ Points_deleted = EmptyBag /\ deleted = EmptyBag
        /\ used = {} /\ crashed = FALSE

\* Build throws the old tree away, with the deleted points it still held.
Build == \E cloud \in Cloud, flip \in BOOLEAN :
  /\ Root_Node' = BuildTree(cloud, flip)
  /\ contents' = Contents(Root_Node')
  /\ deleted' = Points_deleted
  /\ used' = {}
  /\ UNCHANGED <<Points_deleted, crashed>>

\* The result of an operation on the tree.
Becomes(r) == /\ Root_Node' = r.t
              /\ contents' = Contents(Root_Node')
              /\ Points_deleted' = Points_deleted (+) ToBag(r.rec)

\* The caller checks Root_Node first, as the mapping loop does.
AddPoint == \E p \in Point, flip \in BOOLEAN :
  /\ Root_Node # nullptr /\ size(Root_Node) < MaxSize
  /\ Becomes(AddPlain(Root_Node, p, flip))
  /\ UNCHANGED <<deleted, used, crashed>>

AddPointDownsampled == \E p \in Point, flip \in BOOLEAN :
  /\ Root_Node # nullptr /\ size(Root_Node) < MaxSize
  /\ \E r \in {AddDownsampled(Root_Node, p, flip)} :
       \/ ~r.null /\ Becomes(r) /\ UNCHANGED <<deleted, used, crashed>>
       \/ /\ r.null /\ crashed' = TRUE
          /\ UNCHANGED <<Root_Node, contents, Points_deleted, deleted, used>>

Delete_Point_Boxes == \E box \in Box, flip \in BOOLEAN :
  /\ BagCardinality(deleted) <= MaxDeleted
  /\ Becomes(Delete_by_range(Root_Node, box, FALSE, flip))
  /\ deleted' = deleted (+) (contents (-) contents')
  /\ UNCHANGED <<used, crashed>>

Delete_Points == \E p \in Point, flip \in BOOLEAN :
  /\ BagCardinality(deleted) <= MaxDeleted
  /\ Becomes(Delete_by_point(Root_Node, p, flip))
  /\ deleted' = deleted (+) (contents (-) contents')
  /\ used' = used \cup {"Delete_Points"}
  /\ UNCHANGED crashed

Add_Point_Boxes == \E box \in Box, flip \in BOOLEAN :
  /\ Becomes(Add_by_range(Root_Node, box, flip))
  /\ deleted' = deleted (-) (contents' (-) contents)
  /\ used' = used \cup {"Add_Point_Boxes"}
  /\ UNCHANGED crashed

\* Searches push the marks down where they walk.
Searched(t) == /\ Root_Node' = t
               /\ contents' = Contents(Root_Node')
               /\ UNCHANGED <<Points_deleted, deleted, used, crashed>>

Nearest == \E q \in Query, k \in 1..MaxNear, reach \in Reach :
             Searched(Nearest_Search(Root_Node, k, q, reach).t)
Box_Search == \E box \in Box : Searched(Search_by_range(Root_Node, box).t)
Radius_Search == \E q \in Query, reach \in Reach : Searched(Search_by_radius(Root_Node, q, reach).t)

acquire_removed_points ==
  /\ deleted' = deleted (-) Points_deleted
  /\ Points_deleted' = EmptyBag
  /\ UNCHANGED <<Root_Node, contents, used, crashed>>

Call == \/ AddPoint \/ AddPointDownsampled
        \/ Delete_Point_Boxes \/ Delete_Points \/ Add_Point_Boxes
        \/ Nearest \/ Box_Search \/ Radius_Search \/ acquire_removed_points

\* Once Add_Point_Boxes was called, only a new Build is followed.
Next == ~crashed /\ (Build \/ (Sound /\ Call))

Spec == Init /\ [][Next]_vars

-----------------------------------------------------------------------------
\* As long as only the calls of FAST-LIO were used.
FastLioOnly == used = {}

\* The tree is the bag of points it promises to be, whatever was rebuilt,
\* downsampled or marked lazily on the way.
Map == INSTANCE PointMap WITH
         held <- contents, gone <- deleted,
         Cloud <- {ToBag(cloud) : cloud \in Cloud},
         Box <- {{p \in Point : InBox(box, p)} : box \in Box},
         VoxelOf <- LAMBDA p : {x \in Point : InBox(VoxelBox(p), x)},
         Distance <- LAMBDA p : calc_dist(p, MidPoint(p))
IsPointMap == Map!Init /\ [][Sound => Map!Next]_<<contents, deleted>>

\* The counters of a node with its marks pushed down agree with the nodes below
\* it: TreeSize, invalid_point_num and down_del_num decide about every rebuild,
\* and validnum reports them.
RECURSIVE Counted(_)
Counted(t) ==
  \/ t = nullptr
  \/ LET p == Push_Down(t) IN
     /\ p.TreeSize = p.left.TreeSize + p.right.TreeSize + 1
     /\ p.invalid_point_num = p.left.invalid_point_num + p.right.invalid_point_num + One(p.point_deleted)
     /\ p.down_del_num = p.left.down_del_num + p.right.down_del_num + One(p.point_downsample_deleted)
     /\ p.tree_deleted = (p.left.tree_deleted /\ p.right.tree_deleted /\ p.point_deleted)
     /\ Counted(p.left) /\ Counted(p.right)
CountsRight == /\ Counted(Root_Node)
               /\ validnum(Root_Node) = BagCardinality(contents)

\* Searches leave out no point although they skip whole subtrees by their range
\* and their marks: what each returns is what a look at every point would.
Smallest(S, k) ==
  SubSeq(SortSeq(S, LAMBDA a, b : a < b), 1, Min({k, Len(S)}))

NearestFound(found, all, k, q, reach) ==
  LET dists == [i \in 1..Len(all) |-> calc_dist(all[i], q)]
  IN /\ [i \in 1..Len(found) |-> found[i].dist]
          = Smallest(SelectSeq(dists, LAMBDA d : d <= reach^2), k)
     /\ \A i \in 1..Len(found) : calc_dist(found[i].point, q) = found[i].dist
     /\ ToBag([i \in 1..Len(found) |-> found[i].point]) \sqsubseteq ToBag(all)

NearestRight(all) ==
  \A q \in Query, k \in 1..MaxNear, reach \in Reach :
    NearestFound(Nearest_Search(Root_Node, k, q, reach).Nearest_Points, all, k, q, reach)

RangesRight(all) ==
  /\ \A box \in Box : ToBag(Search_by_range(Root_Node, box).Storage)
                        = ToBag(SelectSeq(all, LAMBDA p : InBox(box, p)))
  /\ \A q \in Query, r \in Reach : ToBag(Search_by_radius(Root_Node, q, r).Storage)
                        = ToBag(SelectSeq(all, LAMBDA p : calc_dist(p, q) <= r^2))

SearchesRight ==
  Sound => \E all \in {flatten(Root_Node).Storage} : NearestRight(all) /\ RangesRight(all)

\* acquire_removed_points hands out only points that a caller deleted, and each
\* of them once: never one that downsampling dropped or that is still in the map.
ReportedOnce == Points_deleted \sqsubseteq deleted

\* The deletion inside Add_Points never empties the tree under it.
RootKept == FastLioOnly => ~crashed
===============================================================================
