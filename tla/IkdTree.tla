------------------------------- MODULE IkdTree -------------------------------
(***************************************************************************)
(* ikd_Tree.cpp: the tree itself, for one thread and trees smaller than    *)
(* Multi_Thread_Rebuild_Point_Num, which Rebuild rebuilds in place         *)
(* (Rebuild_Ptr stays nullptr; IkdRebuild has the other case).  A node is  *)
(* a record that holds its sons.  Deletion is lazy: a box that covers a    *)
(* node's range only marks the node, and Push_Down hands the marks to its  *)
(* sons when somebody descends.  Coordinates are integers, compared        *)
(* exactly; the father pointers, working_flag and the alpha values, which  *)
(* one thread never reads, and the counts that deletions return for a log  *)
(* are left out.  An operation returns the new tree t, the points rec that *)
(* its rebuilds put into Points_deleted, and what else it reports.         *)
(***************************************************************************)
EXTENDS Integers, Sequences, FiniteSetsExt, SequencesExt

CONSTANTS
  Minimal_Unbalanced_Tree_Size,
  delete_criterion_param,      \* in tenths
  balance_criterion_param,     \* in tenths
  downsample_size

ASSUME TreeAssumption ==
  /\ Minimal_Unbalanced_Tree_Size \in Nat \ {0}
  /\ downsample_size \in Nat \ {0}
  /\ delete_criterion_param \in 0..10 /\ balance_criterion_param \in 5..10

Axes     == 1..3
INFINITY == 1000000
Corner(x(_)) == <<x(1), x(2), x(3)>>

\* No node: the counts and flags make it neutral in Update.
nullptr == [null |-> TRUE, TreeSize |-> 0, invalid_point_num |-> 0, down_del_num |-> 0,
            tree_deleted |-> TRUE, tree_downsample_deleted |-> TRUE]

InitTreeNode(point, axis) ==
  [point |-> point, division_axis |-> axis, TreeSize |-> 0, invalid_point_num |-> 0,
   down_del_num |-> 0, point_deleted |-> FALSE, tree_deleted |-> FALSE,
   point_downsample_deleted |-> FALSE, tree_downsample_deleted |-> FALSE,
   need_push_down_to_left |-> FALSE, need_push_down_to_right |-> FALSE,
   node_range |-> <<point, point>>, left |-> nullptr, right |-> nullptr]

Sons(t) == {t.left, t.right} \ {nullptr}

\* The least range around some ranges; a range is its two extreme corners.
Hull(ranges) == << Corner(LAMBDA a : Min({r[1][a] : r \in ranges})),
                   Corner(LAMBDA a : Max({r[2][a] : r \in ranges})) >>

One(b) == IF b THEN 1 ELSE 0

\* Mutation: the range keeps the deleted parts.
UpdateWide(t) ==
  [t EXCEPT !.TreeSize = t.left.TreeSize + t.right.TreeSize + 1,
            !.invalid_point_num = t.left.invalid_point_num + t.right.invalid_point_num + One(t.point_deleted),
            !.down_del_num = t.left.down_del_num + t.right.down_del_num + One(t.point_downsample_deleted),
            !.tree_downsample_deleted = /\ t.left.tree_downsample_deleted
                                        /\ t.right.tree_downsample_deleted
                                        /\ t.point_downsample_deleted,
            !.tree_deleted = t.left.tree_deleted /\ t.right.tree_deleted /\ t.point_deleted,
            !.node_range = Hull({s.node_range : s \in Sons(t)} \cup {<<t.point, t.point>>})]

\* A node from its sons.  A deleted part is left out of the range, unless all is.
Update(t) ==
  LET n == [t EXCEPT
        !.TreeSize = t.left.TreeSize + t.right.TreeSize + 1,
        !.invalid_point_num = t.left.invalid_point_num + t.right.invalid_point_num + One(t.point_deleted),
        !.down_del_num = t.left.down_del_num + t.right.down_del_num + One(t.point_downsample_deleted),
        !.tree_downsample_deleted = /\ t.left.tree_downsample_deleted
                                    /\ t.right.tree_downsample_deleted
                                    /\ t.point_downsample_deleted,
        !.tree_deleted = t.left.tree_deleted /\ t.right.tree_deleted /\ t.point_deleted]
      counted(s) == n.tree_deleted \/ ~s.tree_deleted
  IN [n EXCEPT !.node_range = Hull(
        {s.node_range : s \in {x \in Sons(t) : counted(x)}}
        \cup {<<p, p>> : p \in {x \in {t.point} : n.tree_deleted \/ ~t.point_deleted}})]

-----------------------------------------------------------------------------
\* Mutation: the count of the deleted points below stays as it was.
PushToUncounted(son, t) ==
  LET down == son.tree_downsample_deleted \/ t.tree_downsample_deleted
  IN [son EXCEPT !.tree_downsample_deleted = down, !.point_downsample_deleted = @ \/ down,
                 !.tree_deleted = t.tree_deleted \/ down, !.point_deleted = t.tree_deleted \/ down,
                 !.need_push_down_to_left = TRUE, !.need_push_down_to_right = TRUE]

\* What Push_Down makes of a son of t.
PushTo(son, t) ==
  LET down    == son.tree_downsample_deleted \/ t.tree_downsample_deleted
      deleted == t.tree_deleted \/ down
      pdown   == son.point_downsample_deleted \/ t.tree_downsample_deleted
      num     == IF t.tree_downsample_deleted THEN son.TreeSize ELSE son.down_del_num
  IN [son EXCEPT !.tree_downsample_deleted = down, !.point_downsample_deleted = pdown,
                 !.tree_deleted = deleted, !.point_deleted = deleted \/ pdown,
                 !.down_del_num = num,
                 !.invalid_point_num = IF t.tree_deleted THEN son.TreeSize ELSE num,
                 !.need_push_down_to_left = TRUE, !.need_push_down_to_right = TRUE]

\* Mutation: one flag for both sons is cleared with the left one served.
Push_DownLeft(t) ==
  IF t.need_push_down_to_left /\ t.left # nullptr
  THEN [t EXCEPT !.left = PushTo(@, t), !.need_push_down_to_left = FALSE,
                 !.need_push_down_to_right = FALSE]
  ELSE t

Push_Down(t) ==
  LET l == t.need_push_down_to_left /\ t.left # nullptr
      r == t.need_push_down_to_right /\ t.right # nullptr
  IN [t EXCEPT !.left = IF l THEN PushTo(@, t) ELSE @,
               !.right = IF r THEN PushTo(@, t) ELSE @,
               !.need_push_down_to_left = @ /\ ~l,
               !.need_push_down_to_right = @ /\ ~r]

\* The tree pushed down everywhere, its valid points, and those that a rebuild
\* reports as removed: deleted, and not by downsampling.
RECURSIVE flatten(_)

\* Mutation: a rebuild reports the points that downsampling dropped, too.
flattenAll(t) ==
  IF t = nullptr THEN [t |-> t, Storage |-> <<>>, removed |-> <<>>]
  ELSE LET n == Push_Down(t)
           l == flatten(n.left)
           r == flatten(n.right)
           here(b) == IF b THEN <<n.point>> ELSE <<>>
       IN [t |-> [n EXCEPT !.left = l.t, !.right = r.t],
           Storage |-> here(~n.point_deleted) \o l.Storage \o r.Storage,
           removed |-> l.removed \o r.removed \o here(n.point_deleted)]

flatten(t) ==
  IF t = nullptr THEN [t |-> t, Storage |-> <<>>, removed |-> <<>>]
  ELSE LET n == Push_Down(t)
           l == flatten(n.left)
           r == flatten(n.right)
           removed == n.point_deleted /\ ~n.point_downsample_deleted
       IN [t |-> [n EXCEPT !.left = l.t, !.right = r.t],
           Storage |-> (IF n.point_deleted THEN <<>> ELSE <<n.point>>) \o l.Storage \o r.Storage,
           removed |-> l.removed \o r.removed \o (IF removed THEN <<n.point>> ELSE <<>>)]

\* nth_element leaves the order of equal coordinates open: either order of the
\* storage stands for that, the same one during a whole call.
Sorted(Storage, axis, flip) ==
  LET before(i, j) == \/ Storage[i][axis] < Storage[j][axis]
                      \/ Storage[i][axis] = Storage[j][axis] /\ (IF flip THEN i > j ELSE i < j)
      order == SortSeq([i \in 1..Len(Storage) |-> i], before)
  IN [i \in 1..Len(Storage) |-> Storage[order[i]]]

\* The median on the longest axis, between the trees of the two halves.
RECURSIVE BuildTree(_, _)
BuildTree(Storage, flip) ==
  IF Storage = <<>> THEN nullptr
  ELSE LET mid == (Len(Storage) + 1) \div 2
           range == Hull({<<p, p>> : p \in ToSet(Storage)})
           dim(a) == range[2][a] - range[1][a]
           axis == CHOOSE a \in Axes : \A b \in Axes : dim(a) > dim(b) \/ (dim(a) = dim(b) /\ a <= b)
           s == Sorted(Storage, axis, flip)
       IN Update([InitTreeNode(s[mid], axis) EXCEPT
                    !.left = BuildTree(SubSeq(s, 1, mid - 1), flip),
                    !.right = BuildTree(SubSeq(s, mid + 1, Len(s)), flip)])

\* Too many deleted points, or one son far larger than the other.
Criterion_Check(t) ==
  LET son == IF t.left # nullptr THEN t.left ELSE t.right
      part == 10 * son.TreeSize
  IN /\ t.TreeSize > Minimal_Unbalanced_Tree_Size
     /\ \/ 10 * t.invalid_point_num > delete_criterion_param * t.TreeSize
        \/ part > balance_criterion_param * (t.TreeSize - 1)
        \/ part < (10 - balance_criterion_param) * (t.TreeSize - 1)

Rebuild(t, flip) ==
  LET f == flatten(t)
  IN [t |-> BuildTree(f.Storage, flip), rec |-> f.removed]

\* The common end of the operations: Update, and Rebuild when the criterion asks for it.
Finish(t, flip) ==
  LET n == Update(t)
  IN IF Criterion_Check(n) THEN Rebuild(n, flip) ELSE [t |-> n, rec |-> <<>>]

-----------------------------------------------------------------------------
\* Boxes are half open.
Apart(box, range)  == \E a \in Axes : box[2][a] <= range[1][a] \/ box[1][a] > range[2][a]
Within(box, range) == \A a \in Axes : box[1][a] <= range[1][a] /\ box[2][a] > range[2][a]
InBox(box, p)      == Within(box, <<p, p>>)

RECURSIVE Delete_by_range(_, _, _, _)

\* A node whose range the box covers is only marked, with all that is below it.
Marked(p, is_downsample) ==
  [p EXCEPT !.tree_deleted = TRUE, !.point_deleted = TRUE,
            !.need_push_down_to_left = TRUE, !.need_push_down_to_right = TRUE,
            !.invalid_point_num = p.TreeSize,
            !.tree_downsample_deleted = @ \/ is_downsample,
            !.point_downsample_deleted = @ \/ is_downsample,
            !.down_del_num = IF is_downsample THEN p.TreeSize ELSE @]

\* One that it meets gets its sons l and r from the recursion.
Deleted(p, l, r, hit, is_downsample, flip) ==
  LET f == Finish([p EXCEPT !.left = l.t, !.right = r.t,
                            !.point_deleted = @ \/ hit,
                            !.point_downsample_deleted = @ \/ (hit /\ is_downsample)], flip)
  IN [t |-> f.t, rec |-> l.rec \o r.rec \o f.rec]

Delete_by_range(t, box, is_downsample, flip) ==
  IF t.tree_deleted THEN [t |-> t, rec |-> <<>>]
  ELSE LET p == Push_Down(t) IN
  IF Apart(box, p.node_range) THEN [t |-> p, rec |-> <<>>]
  ELSE IF Within(box, p.node_range) THEN [t |-> Marked(p, is_downsample), rec |-> <<>>]
  ELSE Deleted(p, Delete_by_range(p.left, box, is_downsample, flip),
                  Delete_by_range(p.right, box, is_downsample, flip),
               ~p.point_deleted /\ InBox(box, p.point), is_downsample, flip)

\* Left of a node: smaller on its axis.
GoesLeft(p, t) == p[t.division_axis] < t.point[t.division_axis]

\* The node that is found is marked and its ancestors are updated: its own range
\* and the test for a rebuild are not.
RECURSIVE Delete_by_point(_, _, _)
Delete_by_point(t, point, flip) ==
  IF t.tree_deleted THEN [t |-> t, rec |-> <<>>]
  ELSE LET p == Push_Down(t) IN
  IF p.point = point /\ ~p.point_deleted
  THEN [t |-> [p EXCEPT !.point_deleted = TRUE, !.invalid_point_num = @ + 1,
                        !.tree_deleted = @ \/ p.invalid_point_num + 1 = p.TreeSize],
        rec |-> <<>>]
  ELSE LET d == Delete_by_point(IF GoesLeft(point, p) THEN p.left ELSE p.right, point, flip)
           f == Finish(IF GoesLeft(point, p) THEN [p EXCEPT !.left = d.t]
                                             ELSE [p EXCEPT !.right = d.t], flip)
       IN [t |-> f.t, rec |-> d.rec \o f.rec]

\* Brings the points of a box back, those dropped by downsampling excepted; a
\* node whose range the box covers with all that is below it, in the range or not.
RECURSIVE Add_by_range(_, _, _)
Add_by_range(t, box, flip) ==
  IF t = nullptr THEN [t |-> t, rec |-> <<>>]
  ELSE LET p == Push_Down(t) IN
  IF Apart(box, p.node_range) THEN [t |-> p, rec |-> <<>>]
  ELSE IF Within(box, p.node_range)
  THEN [t |-> [p EXCEPT !.tree_deleted = p.tree_downsample_deleted,
                        !.point_deleted = p.point_downsample_deleted,
                        !.need_push_down_to_left = TRUE, !.need_push_down_to_right = TRUE,
                        !.invalid_point_num = p.down_del_num],
        rec |-> <<>>]
  ELSE LET l == Add_by_range(p.left, box, flip)
           r == Add_by_range(p.right, box, flip)
           f == Finish([p EXCEPT !.left = l.t, !.right = r.t,
                          !.point_deleted = IF InBox(box, p.point)
                                            THEN p.point_downsample_deleted ELSE @], flip)
       IN [t |-> f.t, rec |-> l.rec \o r.rec \o f.rec]

RECURSIVE Add_by_point(_, _, _, _)
Add_by_point(t, point, father_axis, flip) ==
  IF t = nullptr
  THEN [t |-> Update(InitTreeNode(point, (father_axis % 3) + 1)), rec |-> <<>>]
  ELSE LET p == Push_Down(t)
           a == Add_by_point(IF GoesLeft(point, p) THEN p.left ELSE p.right,
                             point, p.division_axis, flip)
           f == Finish(IF GoesLeft(point, p) THEN [p EXCEPT !.left = a.t]
                                             ELSE [p EXCEPT !.right = a.t], flip)
       IN [t |-> f.t, rec |-> a.rec \o f.rec]

-----------------------------------------------------------------------------
\* Distances are squared.
calc_dist(p, q) == (p[1] - q[1])^2 + (p[2] - q[2])^2 + (p[3] - q[3])^2

calc_box_dist(t, p) ==
  IF t = nullptr THEN INFINITY
  ELSE LET gap(a) == IF p[a] < t.node_range[1][a] THEN t.node_range[1][a] - p[a]
                     ELSE IF p[a] > t.node_range[2][a] THEN p[a] - t.node_range[2][a] ELSE 0
       IN gap(1)^2 + gap(2)^2 + gap(3)^2

-----------------------------------------------------------------------------
\* MANUAL_HEAP: the points found so far with their distances, the farthest at
\* the top; of points at one distance, the one with the greater x.  The array
\* starts at 1 here: the parent of i is i \div 2.
Less(a, b) == a.dist < b.dist \/ (a.dist = b.dist /\ a.point[1] < b.point[1])

Swapped(heap, i, j) == [heap EXCEPT ![i] = heap[j], ![j] = heap[i]]

RECURSIVE FloatUp(_, _)
FloatUp(heap, i) ==
  IF i > 1 /\ Less(heap[i \div 2], heap[i])
  THEN FloatUp(Swapped(heap, i, i \div 2), i \div 2) ELSE heap

RECURSIVE MoveDown(_, _)

\* Mutation: the left son is always the one to go up.
MoveDownLeft(heap, i) ==
  LET l == 2 * i
  IN IF l <= Len(heap) /\ Less(heap[i], heap[l])
     THEN MoveDown(Swapped(heap, i, l), l) ELSE heap

MoveDown(heap, i) ==
  LET l == 2 * i
      son == IF l + 1 <= Len(heap) /\ Less(heap[l], heap[l + 1]) THEN l + 1 ELSE l
  IN IF l <= Len(heap) /\ Less(heap[i], heap[son])
     THEN MoveDown(Swapped(heap, i, son), son) ELSE heap

push(q, item) == FloatUp(Append(q, item), Len(q) + 1)

pop(q) == IF Len(q) <= 1 THEN <<>>
          ELSE MoveDown(<<q[Len(q)]>> \o SubSeq(q, 2, Len(q) - 1), 1)

TopDist(q) == IF q = <<>> THEN INFINITY ELSE q[1].dist

\* The heap q with the k nearest so far, the point of node t offered to it.
Offered(q, k, t, point, max_dist) ==
  LET dist == calc_dist(point, t.point)
  IN IF ~t.point_deleted /\ dist <= max_dist^2 /\ (Len(q) < k \/ dist < TopDist(q))
     THEN push(IF Len(q) >= k THEN pop(q) ELSE q, [point |-> t.point, dist |-> dist])
     ELSE q

RECURSIVE Search(_, _, _, _, _)

\* A son at distance d is searched if it must be, or if something nearer may be there.
Visit(son, d, k, point, q, max_dist, must) ==
  IF must \/ d < TopDist(q) THEN Search(son, k, point, q, max_dist) ELSE [t |-> son, q |-> q]

\* The sons of p, the nearer one first; dl and dr are their distances.
SearchSons(p, dl, dr, k, point, q, max_dist) ==
  LET both == Len(q) < k \/ (dl < TopDist(q) /\ dr < TopDist(q))
      leftFirst == ~both \/ dl <= dr
      one == Visit(IF leftFirst THEN p.left ELSE p.right, IF leftFirst THEN dl ELSE dr,
                   k, point, q, max_dist, both)
      two == Visit(IF leftFirst THEN p.right ELSE p.left, IF leftFirst THEN dr ELSE dl,
                   k, point, one.q, max_dist, both /\ Len(one.q) < k)
  IN [t |-> [p EXCEPT !.left = IF leftFirst THEN one.t ELSE two.t,
                      !.right = IF leftFirst THEN two.t ELSE one.t],
      q |-> two.q]

Search(t, k, point, q, max_dist) ==
  IF t.tree_deleted \/ calc_box_dist(t, point) > max_dist^2 THEN [t |-> t, q |-> q]
  ELSE LET p == Push_Down(t)
       IN SearchSons(p, calc_box_dist(p.left, point), calc_box_dist(p.right, point),
                     k, point, Offered(q, k, p, point, max_dist), max_dist)

\* The heap, nearest first.
RECURSIVE Popped(_)
Popped(q) == IF q = <<>> THEN <<>> ELSE Append(Popped(pop(q)), q[1])

\* The k nearest points, nearest first, and the tree the search leaves.
Nearest_Search(t, k, point, max_dist) ==
  LET s == Search(t, k, point, <<>>, max_dist)
  IN [t |-> s.t, Nearest_Points |-> Popped(s.q)]

RECURSIVE Search_by_range(_, _)
Search_by_range(t, box) ==
  IF t = nullptr THEN [t |-> t, Storage |-> <<>>]
  ELSE LET p == Push_Down(t) IN
  IF Apart(box, p.node_range) THEN [t |-> p, Storage |-> <<>>]
  ELSE IF Within(box, p.node_range) THEN flatten(p)
  ELSE LET l == Search_by_range(p.left, box)
           r == Search_by_range(p.right, box)
           hit == InBox(box, p.point) /\ ~p.point_deleted
       IN [t |-> [p EXCEPT !.left = l.t, !.right = r.t],
           Storage |-> (IF hit THEN <<p.point>> ELSE <<>>) \o l.Storage \o r.Storage]

\* The ball around a node's range, by its centre and its squared radius (with
\* even coordinates both are integers), is outside the ball that is searched, or
\* inside: the distance of the centres against the sum, or the difference, of
\* the radii, without the roots of the code.
Centre(t) == Corner(LAMBDA a : (t.node_range[1][a] + t.node_range[2][a]) \div 2)
radius_sq(t) == calc_dist(Centre(t), t.node_range[2])

Outside(t, point, radius) ==
  LET over == calc_dist(Centre(t), point) - radius^2 - radius_sq(t)
  IN over > 0 /\ over^2 > 4 * radius^2 * radius_sq(t)

Inside(t, point, radius) ==
  LET room == radius^2 - calc_dist(Centre(t), point) - radius_sq(t)
  IN room >= 0 /\ room^2 >= 4 * calc_dist(Centre(t), point) * radius_sq(t)

RECURSIVE Search_by_radius(_, _, _)
Search_by_radius(t, point, radius) ==
  IF t = nullptr THEN [t |-> t, Storage |-> <<>>]
  ELSE LET p == Push_Down(t) IN
  IF Outside(p, point, radius) THEN [t |-> p, Storage |-> <<>>]
  ELSE IF Inside(p, point, radius) THEN flatten(p)
  ELSE LET l == Search_by_radius(p.left, point, radius)
           r == Search_by_radius(p.right, point, radius)
           hit == ~p.point_deleted /\ calc_dist(p.point, point) <= radius^2
       IN [t |-> [p EXCEPT !.left = l.t, !.right = r.t],
           Storage |-> (IF hit THEN <<p.point>> ELSE <<>>) \o l.Storage \o r.Storage]

-----------------------------------------------------------------------------
\* The voxel of a point and its centre.
VoxelBox(p) ==
  LET low(a) == (p[a] \div downsample_size) * downsample_size
  IN <<Corner(low), Corner(LAMBDA a : low(a) + downsample_size)>>

MidPoint(p) == Corner(LAMBDA a : VoxelBox(p)[1][a] + downsample_size \div 2)

\* The point that a voxel keeps: the new one, unless a stored one is nearer to
\* the centre (of several as near, the first).
RECURSIVE Representative(_, _, _)
Representative(result, stored, mid) ==
  IF stored = <<>> THEN result
  ELSE Representative(IF calc_dist(Head(stored), mid) < calc_dist(result, mid)
                      THEN Head(stored) ELSE result, Tail(stored), mid)

\* What Add_Points does with the point that a voxel keeps, once the stored ones
\* are deleted; null is TRUE when that emptied the tree and
\* Root_Node->division_axis reads a null pointer.
Inserted(d, keep, flip) ==
  IF d.t = nullptr THEN [t |-> d.t, rec |-> d.rec, null |-> TRUE]
  ELSE LET a == Add_by_point(d.t, keep, d.t.division_axis, flip)
       IN [t |-> a.t, rec |-> d.rec \o a.rec, null |-> FALSE]

\* One point p of Add_Points with downsampling; s is the search of its voxel.
Downsampled(s, keep, p, flip) ==
  IF ~(Len(s.Storage) > 1 \/ keep = p) THEN [t |-> s.t, rec |-> <<>>, null |-> FALSE]
  ELSE Inserted(IF s.Storage # <<>> THEN Delete_by_range(s.t, VoxelBox(p), TRUE, flip)
                                    ELSE [t |-> s.t, rec |-> <<>>],
                keep, flip)

AddDownsampled(t, p, flip) ==
  LET s == Search_by_range(t, VoxelBox(p))
  IN Downsampled(s, Representative(p, s.Storage, MidPoint(p)), p, flip)

AddPlain(t, p, flip) == Add_by_point(t, p, t.division_axis, flip)

size(t)     == t.TreeSize
validnum(t) == t.TreeSize - t.invalid_point_num
=============================================================================
