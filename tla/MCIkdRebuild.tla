---------------------------- MODULE MCIkdRebuild ----------------------------
(* IkdRebuild on three points, two of them in one downsampling box.           *)
EXTENDS IkdRebuild

MCPoint == 1..3
MCVoxel == {{1, 2}, {3}}
MCBox == {{1}, {2, 3}}
=============================================================================
