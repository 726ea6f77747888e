---------------------------- MODULE MCMemsFrames ----------------------------
(* MemsFrames with frames of ten packets and a safe range of three.          *)
EXTENDS MemsFrames
=============================================================================
