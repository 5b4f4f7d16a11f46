SPECIFICATION MCSpec
CONSTANTS
  Methods <- MCMethods
  Ints <- MCInts
  Texts <- MCTexts
  Unknowns <- MCUnknowns
  Requests <- MCRequests
  Responses <- MCResponses
INVARIANTS Interoperates CutRefused HotCallExact
CHECK_DEADLOCK FALSE
