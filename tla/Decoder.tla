-------------------------------- MODULE Decoder --------------------------------
(***************************************************************************)
(* decoder/decoder.hpp with LidarDriverImpl::splitFrame: what the decoders *)
(* of the mechanical and of the MEMS lidars share, the frame f they build  *)
(* and how it is handed out.  A cloud is a sequence of blocks with their   *)
(* number of points n and their time ts.                                   *)
(***************************************************************************)
EXTENDS Integers, SequencesExt

CONSTANT CloudPointMax    \* CLOUD_POINT_MAX, 5000000 in the code

CloudTs(q, f) == IF q.first THEN f.first ELSE f.prev

CloudPoints(cloud) == SumFunction([i \in DOMAIN cloud |-> cloud[i].n])

\* splitFrame hands out a cloud that has points, with the height of an ordered one.
\* The frame keeps how the clouds began, since the properties speak of that.
SplitFrame(q, f, height) ==
  IF CloudPoints(f.cloud) = 0 THEN f
  ELSE [f EXCEPT !.out = Append(@, [stamp |-> CloudTs(q, f), height |-> IF q.dense THEN 1 ELSE height,
                                    blocks |-> f.cloud]),
                 !.cloud = <<>>]

BeginFrame(q, f, height, ts) == [SplitFrame(q, f, height) EXCEPT !.first = ts, !.ret = TRUE]

\* processMsopPkt drops a cloud that became too large before anything else.
DropOverflow(f) == IF CloudPoints(f.cloud) > CloudPointMax THEN [f EXCEPT !.cloud = <<>>] ELSE f
=============================================================================
