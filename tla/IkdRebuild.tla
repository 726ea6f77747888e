------------------------------ MODULE IkdRebuild ------------------------------
(***************************************************************************)
(* ikd_Tree.cpp: the map of robosense_fast_lio.  The mapping thread adds   *)
(* and deletes points and, in parallel sections, searches; when the tree   *)
(* gets unbalanced a second thread copies it, builds a balanced one beside *)
(* it, repeats there the operations logged meanwhile, and swaps the two.   *)
(* This module has the case where the tree to rebuild is the whole tree    *)
(* (Rebuild_Ptr = &Root_Node).  A tree is the set of its valid points and  *)
(* the number of its nodes' generation; loads of Rebuild_Ptr, rebuild_flag *)
(* and Root_Node outside the mutexes are steps of their own.               *)
(* rebuild_logger_mutex_lock is only taken inside working_flag_mutex, and  *)
(* search_flag_mutex only around its counter: neither needs a variable.    *)
(***************************************************************************)
EXTENDS Integers, Sequences, FiniteSets

CONSTANTS
  Point,      \* numbers; in a voxel, the least is nearest to its centre
  Voxel,      \* the downsampling boxes: a partition of Point
  Box,        \* boxes that Delete_Point_Boxes is called with: subsets of Point
  Searcher,   \* threads of the parallel section that searches
  MaxOps      \* bound on the calls of the mapping thread

ASSUME PointAssumption ==
  /\ Point \subseteq Nat /\ MaxOps \in Nat
  /\ UNION Voxel = Point /\ Box \subseteq SUBSET Point
ASSUME SearcherAssumption == IsFiniteSet(Searcher)

VARIABLES
  Rebuild_Ptr,          \* TRUE: &Root_Node, FALSE: nullptr
  rebuild_flag,
  working,              \* the rebuilding thread holds working_flag_mutex
  search_mutex_counter,
  Rebuild_Logger,
  points, gen,          \* the tree under Root_Node
  freed,                \* the last generation whose nodes were deleted
  rpc,                  \* where the rebuilding thread is
  storage,              \* Rebuild_PCL_Storage
  fresh,                \* the tree under new_root_node
  Operation,            \* the logged operation it repeats
  mpc,                  \* where the mapping thread is
  call,                 \* what it does: delete a set of points, then add some
  mgen,                 \* generation of the tree its range search walks, or 0
  spc, sgen,            \* where each searching thread is, and in which tree
  ops,                  \* calls made so far
  termination_flag,
  errors,               \* ERROR!!! was printed: the log was not empty
  missed                \* an operation changed the copied tree and was not logged

treeVars    == <<points, gen, freed>>
rebuildVars == <<rpc, storage, fresh, Operation, errors>>
mainVars    == <<mpc, call, mgen, ops, termination_flag, missed>>
searchVars  == <<spc, sgen>>
shared      == <<Rebuild_Ptr, rebuild_flag, working, search_mutex_counter, Rebuild_Logger>>
vars == <<shared, treeVars, rebuildVars, mainVars, searchVars>>

\* What a call does to the tree: the points it deletes, then those it adds.
Change == [del : SUBSET Point, add : SUBSET Point]
None == [del |-> {}, add |-> {}]

\* What Delete_by_range followed by Add_by_point make of a tree.
Apply(pts, o) == (pts \ o.del) \cup o.add

\* A call is logged as a deletion and an addition, each when there is one.
Logged(o) == (IF o.del = {} THEN <<>> ELSE <<[del |-> o.del, add |-> {}]>>)
             \o (IF o.add = {} THEN <<>> ELSE <<[del |-> {}, add |-> o.add]>>)

Init ==
  /\ Rebuild_Ptr = FALSE /\ rebuild_flag = FALSE /\ working = FALSE
  /\ search_mutex_counter = 0 /\ Rebuild_Logger = <<>>
  /\ points \in SUBSET Point \ {{}}
  /\ gen = 1 /\ freed = 0
  /\ rpc = "poll" /\ storage = {} /\ fresh = {} /\ Operation = None
  /\ mpc = "idle" /\ call = None /\ mgen = 0 /\ ops = 0
  /\ spc = [s \in Searcher |-> "off"] /\ sgen = [s \in Searcher |-> 0]
  /\ termination_flag = FALSE /\ errors = FALSE /\ missed = FALSE

-----------------------------------------------------------------------------
(* The rebuilding thread *)

\* It holds rebuild_ptr_mutex_lock from here to RebuildEnd.
RebuildPoll ==
  /\ rpc = "poll"
  /\ rpc' = IF termination_flag THEN "off" ELSE "lock"
  /\ UNCHANGED <<shared, treeVars, storage, fresh, Operation, errors, mainVars, searchVars>>

RebuildBegin ==
  /\ rpc = "lock" /\ ~working
  /\ IF Rebuild_Ptr
       THEN /\ working' = TRUE /\ rebuild_flag' = TRUE
            /\ errors' = (errors \/ Rebuild_Logger # <<>>)
            /\ rpc' = "waitFlatten"
       ELSE rpc' = "end" /\ UNCHANGED <<working, rebuild_flag, errors>>
  /\ UNCHANGED <<Rebuild_Ptr, search_mutex_counter, Rebuild_Logger, treeVars,
                 storage, fresh, Operation, mainVars, searchVars>>

\* Mutation: the counter is not looked at.
LockSearchNow(from, to) ==
  /\ rpc = from
  /\ search_mutex_counter' = -1
  /\ rpc' = to
  /\ UNCHANGED <<Rebuild_Ptr, rebuild_flag, working, Rebuild_Logger, treeVars,
                 storage, fresh, Operation, errors, mainVars, searchVars>>

\* It waits for the searches under way, then keeps new ones out.
LockSearch(from, to) ==
  /\ rpc = from /\ search_mutex_counter = 0
  /\ search_mutex_counter' = -1
  /\ rpc' = to
  /\ UNCHANGED <<Rebuild_Ptr, rebuild_flag, working, Rebuild_Logger, treeVars,
                 storage, fresh, Operation, errors, mainVars, searchVars>>

UnlockSearch(from, to) ==
  /\ rpc = from
  /\ search_mutex_counter' = 0
  /\ rpc' = to
  /\ UNCHANGED <<Rebuild_Ptr, rebuild_flag, working, Rebuild_Logger, treeVars,
                 storage, fresh, Operation, errors, mainVars, searchVars>>

Flatten ==
  /\ rpc = "flatten"
  /\ storage' = points
  /\ rpc' = "flattened"
  /\ UNCHANGED <<shared, treeVars, fresh, Operation, errors, mainVars, searchVars>>

UnlockWorking(from, to) ==
  /\ rpc = from
  /\ working' = FALSE
  /\ rpc' = to
  /\ UNCHANGED <<Rebuild_Ptr, rebuild_flag, search_mutex_counter, Rebuild_Logger, treeVars,
                 storage, fresh, Operation, errors, mainVars, searchVars>>

\* With no valid point left there is no new tree, no log to drain and no lock.
BuildTree ==
  /\ rpc = "build"
  /\ fresh' = storage
  /\ rpc' = IF storage = {} THEN "waitSwap" ELSE "lockDrain"
  /\ UNCHANGED <<shared, treeVars, storage, Operation, errors, mainVars, searchVars>>

LockDrain ==
  /\ rpc = "lockDrain" /\ ~working
  /\ working' = TRUE
  /\ rpc' = "drain"
  /\ UNCHANGED <<Rebuild_Ptr, rebuild_flag, search_mutex_counter, Rebuild_Logger, treeVars,
                 storage, fresh, Operation, errors, mainVars, searchVars>>

\* Each logged operation is repeated on the new tree with the locks released.
DrainOne ==
  /\ rpc = "drain" /\ Rebuild_Logger # <<>>
  /\ Operation' = Head(Rebuild_Logger) /\ Rebuild_Logger' = Tail(Rebuild_Logger)
  /\ working' = FALSE
  /\ rpc' = "run"
  /\ UNCHANGED <<Rebuild_Ptr, rebuild_flag, search_mutex_counter, treeVars,
                 storage, fresh, errors, mainVars, searchVars>>

RunOperation ==
  /\ rpc = "run"
  /\ fresh' = Apply(fresh, Operation)
  /\ rpc' = "lockDrain"
  /\ UNCHANGED <<shared, treeVars, storage, Operation, errors, mainVars, searchVars>>

\* Mutation: the lock is released between the drained log and the swap.
DrainedUnlock ==
  /\ rpc = "drain" /\ Rebuild_Logger = <<>>
  /\ rpc' = "waitSwap" /\ working' = FALSE
  /\ UNCHANGED <<Rebuild_Ptr, rebuild_flag, search_mutex_counter, Rebuild_Logger, treeVars,
                 storage, fresh, Operation, errors, mainVars, searchVars>>

\* The lock stays held once the log is empty.
Drained ==
  /\ rpc = "drain" /\ Rebuild_Logger = <<>>
  /\ rpc' = "waitSwap"
  /\ UNCHANGED <<shared, treeVars, storage, fresh, Operation, errors, mainVars, searchVars>>

\* Replace the tree.  Without a new root the thread dereferences a null pointer
\* right after the replacement (valid_new), and the process ends.
Swap ==
  /\ rpc = "swap"
  /\ IF storage = {}
       THEN rpc' = "dead" /\ UNCHANGED <<points, gen>>
       ELSE rpc' = "swapped" /\ points' = fresh /\ gen' = gen + 1
  /\ UNCHANGED <<shared, freed, storage, fresh, Operation, errors, mainVars, searchVars>>

ClearPtr ==
  /\ rpc = "clearPtr"
  /\ Rebuild_Ptr' = FALSE
  /\ rpc' = "unlockSwap"
  /\ UNCHANGED <<rebuild_flag, working, search_mutex_counter, Rebuild_Logger, treeVars,
                 storage, fresh, Operation, errors, mainVars, searchVars>>

\* rebuild_flag is cleared after working_flag_mutex is released.
ClearFlag ==
  /\ rpc = "clearFlag"
  /\ rebuild_flag' = FALSE
  /\ rpc' = "discard"
  /\ UNCHANGED <<Rebuild_Ptr, working, search_mutex_counter, Rebuild_Logger, treeVars,
                 storage, fresh, Operation, errors, mainVars, searchVars>>

Discard ==
  /\ rpc = "discard"
  /\ freed' = gen - 1
  /\ rpc' = "end"
  /\ UNCHANGED <<shared, points, gen, storage, fresh, Operation, errors, mainVars, searchVars>>

RebuildEnd ==
  /\ rpc = "end"
  /\ rpc' = "poll"
  /\ UNCHANGED <<shared, treeVars, storage, fresh, Operation, errors, mainVars, searchVars>>

Rebuilder ==
  \/ RebuildPoll \/ RebuildBegin
  \/ LockSearch("waitFlatten", "flatten") \/ Flatten
  \/ UnlockSearch("flattened", "unlockFlatten") \/ UnlockWorking("unlockFlatten", "build")
  \/ BuildTree \/ LockDrain \/ DrainOne \/ RunOperation \/ Drained
  \/ LockSearch("waitSwap", "swap") \/ Swap \/ UnlockSearch("swapped", "clearPtr")
  \/ ClearPtr \/ UnlockWorking("unlockSwap", "clearFlag") \/ ClearFlag
  \/ Discard \/ RebuildEnd

-----------------------------------------------------------------------------
(* The mapping thread *)

callFrame == <<rebuild_flag, working, search_mutex_counter, freed, gen, rebuildVars,
               searchVars, termination_flag>>

\* Add_Points with downsampling first walks the box of the point, without a lock.
AddPoint(p) ==
  /\ mpc = "idle" /\ ops < MaxOps
  /\ mpc' = "range" /\ mgen' = gen
  /\ call' = [del |-> {}, add |-> {p}] /\ ops' = ops + 1
  /\ UNCHANGED <<callFrame, Rebuild_Ptr, Rebuild_Logger, points, missed>>

\* The point nearest to the box's centre replaces those found in the box, unless
\* the box already holds that point alone.
RangeDone ==
  /\ mpc = "range"
  /\ \E p \in call.add : \E box \in Voxel :
       /\ p \in box
       /\ LET found == points \cap box
          IN \E best \in {q \in found \cup {p} : \A r \in found \cup {p} : q <= r} :
             IF Cardinality(found) > 1 \/ best = p
               THEN /\ call' = [del |-> IF found = {} THEN {} ELSE box, add |-> {best}]
                    /\ mpc' = "check"
               ELSE call' = None /\ mpc' = "idle"
  /\ mgen' = 0
  /\ UNCHANGED <<callFrame, Rebuild_Ptr, Rebuild_Logger, points, ops, missed>>

\* Add_Points without downsampling, and Delete_Point_Boxes, one point or box.
AddPlain(p) ==
  /\ mpc = "idle" /\ ops < MaxOps
  /\ mpc' = "check"
  /\ call' = [del |-> {}, add |-> {p}] /\ ops' = ops + 1
  /\ UNCHANGED <<callFrame, Rebuild_Ptr, Rebuild_Logger, points, mgen, missed>>

DeleteBox(box) ==
  /\ mpc = "idle" /\ ops < MaxOps
  /\ mpc' = "check"
  /\ call' = [del |-> box, add |-> {}] /\ ops' = ops + 1
  /\ UNCHANGED <<callFrame, Rebuild_Ptr, Rebuild_Logger, points, mgen, missed>>

\* Each call looks at Rebuild_Ptr once.
Check ==
  /\ mpc = "check"
  /\ mpc' = IF Rebuild_Ptr THEN "lock" ELSE "direct"
  /\ UNCHANGED <<callFrame, Rebuild_Ptr, Rebuild_Logger, points, call, mgen, ops, missed>>

\* Rebuild: a large unbalanced tree is left to the other thread, if its mutex is
\* free; Criterion_Check's verdict is left open.
MayRebuild ==
  \/ UNCHANGED Rebuild_Ptr
  \/ rpc \in {"poll", "off"} /\ Rebuild_Ptr' = TRUE

\* The other thread has copied the tree and not yet replaced it.
Copied == rpc \in {"flattened", "unlockFlatten", "build", "lockDrain", "drain", "run",
                   "waitSwap", "swap"}

\* With no rebuild in sight the tree is changed without lock or log, the deletion
\* and the addition each by a call of its own that may start a rebuild.
DirectDelete ==
  /\ mpc = "direct" /\ call.del # {}
  /\ points' = points \ call.del
  /\ call' = [call EXCEPT !.del = {}]
  /\ mpc' = IF call.add = {} THEN "idle" ELSE "direct"
  /\ MayRebuild
  /\ missed' = (missed \/ Copied)
  /\ UNCHANGED <<callFrame, Rebuild_Logger, mgen, ops>>

DirectAdd ==
  /\ mpc = "direct" /\ call.del = {}
  /\ points' = points \cup call.add
  /\ call' = None /\ mpc' = "idle"
  /\ MayRebuild
  /\ missed' = (missed \/ Copied)
  /\ UNCHANGED <<callFrame, Rebuild_Logger, mgen, ops>>

\* Otherwise under working_flag_mutex, and logged while rebuild_flag is set.
LockedChange ==
  /\ mpc = "lock" /\ ~working
  /\ points' = Apply(points, call)
  /\ Rebuild_Logger' = IF rebuild_flag THEN Rebuild_Logger \o Logged(call) ELSE Rebuild_Logger
  /\ call' = None /\ mpc' = "idle"
  /\ UNCHANGED <<callFrame, Rebuild_Ptr, mgen, ops, missed>>

\* stop_thread: the destructor asks the other thread to end and joins it.
StopThread ==
  /\ mpc = "idle" /\ ~termination_flag
  /\ termination_flag' = TRUE /\ mpc' = "join"
  /\ UNCHANGED <<shared, treeVars, rebuildVars, searchVars, call, mgen, ops, missed>>

Join ==
  /\ mpc = "join" /\ rpc = "off"
  /\ mpc' = "joined"
  /\ UNCHANGED <<shared, treeVars, rebuildVars, searchVars, call, mgen, ops, termination_flag, missed>>

-----------------------------------------------------------------------------
(* The parallel section of h_share_model *)

SearchBegin ==
  /\ mpc = "idle" /\ ops < MaxOps
  /\ mpc' = "parallel" /\ ops' = ops + 1
  /\ spc' = [s \in Searcher |-> "check"]
  /\ UNCHANGED <<shared, treeVars, rebuildVars, sgen, call, mgen, termination_flag, missed>>

\* Nearest_Search with no rebuild in sight searches without the counter.
SearchCheck(s) ==
  /\ spc[s] = "check"
  /\ IF Rebuild_Ptr
       THEN spc' = [spc EXCEPT ![s] = "wait"] /\ UNCHANGED sgen
       ELSE spc' = [spc EXCEPT ![s] = "direct"] /\ sgen' = [sgen EXCEPT ![s] = gen]
  /\ UNCHANGED <<shared, treeVars, rebuildVars, mainVars>>

SearchEnter(s) ==
  /\ spc[s] = "wait" /\ search_mutex_counter # -1
  /\ search_mutex_counter' = search_mutex_counter + 1
  /\ spc' = [spc EXCEPT ![s] = "counted"] /\ sgen' = [sgen EXCEPT ![s] = gen]
  /\ UNCHANGED <<Rebuild_Ptr, rebuild_flag, working, Rebuild_Logger, treeVars, rebuildVars, mainVars>>

\* Mutation: a search does not count itself out.
SearchLeaveCounted(s) ==
  /\ spc[s] \in {"direct", "counted"}
  /\ spc' = [spc EXCEPT ![s] = "done"] /\ sgen' = [sgen EXCEPT ![s] = 0]
  /\ UNCHANGED <<shared, treeVars, rebuildVars, mainVars>>

SearchLeave(s) ==
  /\ spc[s] \in {"direct", "counted"}
  /\ search_mutex_counter' = IF spc[s] = "counted" THEN search_mutex_counter - 1
                                                   ELSE search_mutex_counter
  /\ spc' = [spc EXCEPT ![s] = "done"] /\ sgen' = [sgen EXCEPT ![s] = 0]
  /\ UNCHANGED <<Rebuild_Ptr, rebuild_flag, working, Rebuild_Logger, treeVars, rebuildVars, mainVars>>

SearchEnd ==
  /\ mpc = "parallel" /\ \A s \in Searcher : spc[s] = "done"
  /\ mpc' = "idle"
  /\ spc' = [s \in Searcher |-> "off"]
  /\ UNCHANGED <<shared, treeVars, rebuildVars, sgen, call, mgen, ops, termination_flag, missed>>

\* The steps of a call under way; a null dereference ends the process.
CallStep ==
  /\ rpc # "dead"
  /\ RangeDone \/ Check \/ DirectDelete \/ DirectAdd \/ LockedChange \/ Join \/ SearchEnd

CallBegin ==
  /\ rpc # "dead"
  /\ \/ \E p \in Point : AddPoint(p) \/ AddPlain(p)
     \/ \E box \in Box : DeleteBox(box)
     \/ SearchBegin \/ StopThread

Search(s) == rpc # "dead" /\ (SearchCheck(s) \/ SearchEnter(s) \/ SearchLeave(s))

Next == Rebuilder \/ CallBegin \/ CallStep \/ \E s \in Searcher : Search(s)

Spec == Init /\ [][Next]_vars

\* All threads are scheduled; which calls are made is up to the program.
FairSpec ==
  /\ Spec
  /\ WF_vars(Rebuilder) /\ WF_vars(CallStep)
  /\ \A s \in Searcher : WF_vars(Search(s))

-----------------------------------------------------------------------------
(* Properties *)

\* The values of the variables; the counter is -1 or the number of searches in it.
TypeOK ==
  /\ Rebuild_Ptr \in BOOLEAN /\ rebuild_flag \in BOOLEAN /\ working \in BOOLEAN
  /\ termination_flag \in BOOLEAN /\ errors \in BOOLEAN /\ missed \in BOOLEAN
  /\ search_mutex_counter \in -1..Cardinality(Searcher)
  /\ points \subseteq Point /\ storage \subseteq Point /\ fresh \subseteq Point
  /\ gen \in Nat /\ freed \in 0..(gen - 1) /\ mgen \in 0..gen
  /\ Rebuild_Logger \in Seq(Change) /\ Operation \in Change /\ call \in Change
  /\ rpc \in {"poll", "off", "lock", "waitFlatten", "flatten", "flattened", "unlockFlatten",
              "build", "lockDrain", "drain", "run", "waitSwap", "swap", "dead", "swapped",
              "clearPtr", "unlockSwap", "clearFlag", "discard", "end"}
  /\ spc \in [Searcher -> {"off", "check", "wait", "direct", "counted", "done"}]
  /\ sgen \in [Searcher -> 0..gen]
  /\ mpc \in {"idle", "range", "check", "direct", "lock", "parallel", "join", "joined"}
  /\ ops \in 0..MaxOps

\* No nearest-point search is in the tree while it is copied or replaced.
SearchLocked ==
  search_mutex_counter = -1 => \A s \in Searcher : spc[s] # "counted"

\* A nearest-point search never walks nodes that were deleted after a swap.
SearchersSafe ==
  \A s \in Searcher : spc[s] \in {"direct", "counted"} => sgen[s] > freed

\* The two together: the search counter excludes rebuilds from searches, and with it
\* no node is deleted under a search.
SearchesExclude == SearchLocked /\ SearchersSafe

\* Nor does the range search of Add_Points: "Lock Search" keeps searches off the
\* tree that is being replaced.
RangeSearchSafe == mpc = "range" => mgen > freed

\* When the trees are swapped the new one holds what the old one holds: "Updates
\* the blocked operations into the new tree".
NothingMissed == rpc = "swap" /\ storage # {} /\ ~errors => fresh = points

\* It is so for every operation that took the lock and the log.
LoggedReachNewTree == missed \/ NothingMissed

\* A rebuild starts with an empty log: the code prints ERROR!!! otherwise.
LogStartsEmpty == ~errors

\* A rebuild that was asked for comes to an end, and so does every call, stop_thread
\* included: with finitely many calls no thread waits for ever for a mutex, a counter
\* or another thread.
RebuildEnds == Rebuild_Ptr ~> (~Rebuild_Ptr \/ rpc \in {"dead", "off"})
CallsReturn ==
  (mpc \notin {"idle", "joined"}) ~> (mpc \in {"idle", "joined"} \/ rpc = "dead")
EverythingEnds == RebuildEnds /\ CallsReturn
=============================================================================
