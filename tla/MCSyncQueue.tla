----------------------------- MODULE MCSyncQueue -----------------------------
(* SyncQueue on a ring of four slots, which wraps around several times in     *)
(* every run, with batches smaller than the ring.                             *)
EXTENDS SyncQueue

CONSTANTS a, b

MCValue == {a, b}
=============================================================================
