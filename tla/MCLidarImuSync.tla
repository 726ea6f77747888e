--------------------------- MODULE MCLidarImuSync ---------------------------
(* LidarImuSync with scans of two time units: whole, or in two parts.         *)
EXTENDS LidarImuSync
=============================================================================
