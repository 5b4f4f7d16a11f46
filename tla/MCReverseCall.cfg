SPECIFICATION MCSpec
CONSTANTS
  c1 = c1
  c2 = c2
  h1 = h1
  h2 = h2
  None = None
  Callers = {c1, c2}
  EntryCalls = {c1}
  Handlers = {h1, h2}
  MaxNotes = 3
  Web = FALSE
CHECK_DEADLOCK FALSE
INVARIANTS
  OwnAnswer
  IInv
  OneAnswer
  NotesInOrder
  EntryCallUnanswered
PROPERTIES
  ServedCallReturns
