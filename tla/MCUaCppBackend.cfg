CONSTANTS
  h1 = h1
  h2 = h2
  s1 = s1
  s2 = s2
  NoSub = NoSub
  Handles <- MCHandles
  SubIds <- MCSubIds
  MaxRequests = 2
  MaxEvents = 3
  MaxAsks = 2
SPECIFICATION Spec
INVARIANTS
  TypeOK
  TablesAgree
  NoEmptySubscription
  LostSessionLeavesNoSubscription
PROPERTIES
  ImplementsContract
  TransientStatesEnd
  EnableIsAnswered
