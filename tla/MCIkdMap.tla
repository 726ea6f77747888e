------------------------------- MODULE MCIkdMap -------------------------------
(***************************************************************************)
(* A small map for TLC: three points of one voxel at different distances   *)
(* from its centre and one of the next; trees are rebuilt from 3 nodes on. *)
(***************************************************************************)
EXTENDS IkdMap

MCPoint == {<<2, 0, 0>>, <<2, 2, 0>>, <<4, 0, 0>>}
MCCloud == {<< <<2, 0, 0>>, <<2, 2, 0>>, <<4, 0, 0>> >>}
MCBox == {<< <<0, 2, 0>>, <<6, 4, 2>> >>, << <<2, 0, 0>>, <<6, 2, 2>> >>}
MCQuery == {<<0, 2, 0>>, <<4, 2, 0>>}
MCReach == {2, 100}
===============================================================================
