SPECIFICATION Spec
CONSTANTS
  p1 = p1
  p2 = p2
  g1 = g1
  g2 = g2
  Producers <- MCProducers
  Granters <- MCGranters
  Amounts <- MCAmounts
  Dispatcher = Dispatcher
  MaxGranted = 3
  MaxItems = 2
CHECK_DEADLOCK FALSE
INVARIANT PendingOnlyBeforeRegistration
