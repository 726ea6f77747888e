------------------------------ MODULE MCMemsClouds ------------------------------
(* MemsClouds with frames of twelve packets and a safe range of three.          *)
EXTENDS MemsClouds

Param(first, dense, wait) == [first |-> first, dense |-> dense, wait |-> wait]

MCSetups == {
  [q |-> Param(TRUE, FALSE, TRUE),  mode |-> 0],
  [q |-> Param(FALSE, FALSE, FALSE), mode |-> 4],
  [q |-> Param(FALSE, TRUE, TRUE),  mode |-> 4],
  [q |-> Param(TRUE, TRUE, FALSE),  mode |-> 0]}
=============================================================================
