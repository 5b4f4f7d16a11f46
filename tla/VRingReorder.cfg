SPECIFICATION Spec
CONSTANTS
  Slots = 2
  MaxFrames = 4
CHECK_DEADLOCK FALSE
INVARIANT NoReordering
