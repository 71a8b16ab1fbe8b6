CONSTANTS
  NodeCount = 3
  MaxPages = 3
  MaxPending = 2
SPECIFICATION Spec
CHECK_DEADLOCK FALSE
INVARIANTS
  StaysInRange
  DataIsInOrder
  FinishedIsComplete
  FirstReleaseFreesTheServer
PROPERTY
  ReadingEnds
