SPECIFICATION FairSpec
CONSTANTS
  BufferSize = 2
  BatchMaxSize = 2
  MaxItems = 6
CHECK_DEADLOCK FALSE
INVARIANTS
  IInv
  DoneAfterItems
  ClientBounded
PROPERTIES
  StreamTerminates
