SPECIFICATION MCSpec
CONSTANTS
  unary = unary
  stream = stream
  boot = boot
  stop = stop
  Unary = {unary}
  Streams = {stream}
  Boot = boot
  Stop <- MCStop
  MaxItems = 2
CHECK_DEADLOCK FALSE
INVARIANTS
  OutcomeIsFirst
  OnlyLateDoneLost
  PendingExact
PROPERTIES
  CallersReturn
