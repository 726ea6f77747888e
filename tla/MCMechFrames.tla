---------------------------- MODULE MCMechFrames ----------------------------
(* MechFrames with a turn of 40 firings at 600 rpm.                          *)
EXTENDS MechFrames

Param(mode, angle, num, first, dense, wait, start, end) ==
  [mode |-> mode, angle |-> angle, num |-> num, first |-> first, dense |-> dense,
   wait |-> wait, start |-> start, end |-> end]

Device(mode, rps, fov, model, install, reversed) ==
  [mode |-> mode, rps |-> rps, fov |-> fov, model |-> model, install |-> install,
   reversed |-> reversed]

MCSetups == {
  [q |-> Param("ANGLE", 0, 1, TRUE, FALSE, TRUE, 6, 30),    dev |-> Device(3, 2, 40, 2, "none", TRUE)],
  [q |-> Param("ANGLE", 0, 1, TRUE, FALSE, TRUE, 0, 40),    dev |-> Device(0, 1, 40, 2, "normal", FALSE)],
  [q |-> Param("ANGLE", 0, 1, FALSE, TRUE, TRUE, 35, 12),   dev |-> Device(1, 2, 40, 2, "side", TRUE)],
  [q |-> Param("ANGLE", 20, 1, FALSE, TRUE, FALSE, 6, 30),  dev |-> Device(3, 2, 30, 2, "none", FALSE)],
  [q |-> Param("ANGLE", 20, 1, TRUE, FALSE, FALSE, 0, 40),  dev |-> Device(0, 1, 30, 3, "normal", FALSE)],
  [q |-> Param("FIXED", 0, 1, TRUE, FALSE, TRUE, 0, 40),    dev |-> Device(3, 2, 40, 1, "none", FALSE)],
  [q |-> Param("FIXED", 0, 1, FALSE, TRUE, TRUE, 0, 40),    dev |-> Device(0, 1, 40, 2, "normal", FALSE)],
  [q |-> Param("CUSTOM", 0, 5, FALSE, FALSE, TRUE, 0, 40),  dev |-> Device(3, 1, 30, 1, "none", FALSE)],
  [q |-> Param("CUSTOM", 0, 50, FALSE, TRUE, FALSE, 0, 40), dev |-> Device(1, 2, 30, 2, "side", FALSE)]}
=============================================================================
