CONSTANTS
  NodeCount = 2
  MaxPages = 3
  MaxPending = 1
SPECIFICATION Spec
CHECK_DEADLOCK FALSE
INVARIANT
  DataBelongsToItsNode
