SPECIFICATION MCSpec
CONSTANTS
  unary = unary
  stream = stream
  boot = boot
  control = control
  cancel = cancel
  Unary = {}
  Stream = {stream}
  Inits = {}
  Control = {}
  Cancels = {cancel}
  Target <- StreamTarget
  MaxItems = 1
CHECK_DEADLOCK FALSE
PROPERTY CancelReachesTarget
