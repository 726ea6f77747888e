---------------------------- MODULE MCLidarDriver ----------------------------
(* LidarDriver with a handful of buffers, enough that make_shared never fails. *)
EXTENDS LidarDriver

MCValue == 1..10
=============================================================================
