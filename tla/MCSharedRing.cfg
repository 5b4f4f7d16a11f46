SPECIFICATION FairSpec
CONSTANTS
  Slots = 2
  MaxFrames = 5
CHECK_DEADLOCK FALSE
INVARIANTS
  UnreadProtected
  IInv
  OnlyFallbacksOvertaken
  LossOnlyOfFallbacks
PROPERTIES
  RingDrains
  StreamEnds
