CONSTANTS
  h1 = h1
  value = value
  events = events
  Handles <- MCHandles
  Attributes <- MCAttributes
  Intervals <- MCIntervals
  ServerMin = 2
  MaxSubs = 2
  MaxPending = 2
SPECIFICATION Spec
CHECK_DEADLOCK FALSE
INVARIANTS
  NoEmptySubscription
  MappedItemsExist
  MappingIsExact
  GoodStatusIsMonitored
