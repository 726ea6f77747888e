SPECIFICATION Spec
CONSTANTS
  N = 10
  RANGE = 3
  Gap = 2
  Lag = 1
  MaxFrames = 4
  MaxBursts = 1
CHECK_DEADLOCK FALSE
INVARIANTS InSync FramesPerCloud WholeFramesOfOthers
PROPERTIES FrameBeginsOnce
