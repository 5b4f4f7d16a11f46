SPECIFICATION MCSpec
CONSTANTS
  unary = unary
  stream = stream
  boot = boot
  control = control
  cancel = cancel
  Unary = {unary}
  Stream = {stream}
  Inits = {boot}
  Control = {control}
  Cancels = {cancel}
  Target <- StreamTarget
  MaxItems = 2
CHECK_DEADLOCK FALSE
INVARIANTS
  IInv
  DoneIsComplete
  StreamKeepsContext
  ReportedOnce
  StrandedByLostResponse
PROPERTIES
  CancelStops
  RequestsAnswered
