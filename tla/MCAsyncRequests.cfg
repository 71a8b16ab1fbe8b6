CONSTANTS
  browse = browse
  call = call
  none = none
  NoRequest = NoRequest
  Requests <- MCRequests
  SlotOf <- MCSlotOf
  Empty <- MCEmpty
  MaxPages = 1
  MaxPending = 3
SPECIFICATION Spec
CHECK_DEADLOCK FALSE
INVARIANTS
  ContextsAreExact
  RequestsAreConserved
  AnswersPrecedeDisconnect
PROPERTY
  RequestsAreAnswered
