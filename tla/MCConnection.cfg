CONSTANTS
  plain = plain
  secure = secure
  malformed = malformed
  NoEndpoint = NoEndpoint
  Endpoints <- MCEndpoints
  Secure <- MCSecure
  Malformed <- MCMalformed
  MaxPending = 3
SPECIFICATION Spec
INVARIANTS
  TypeOK
  ReportsAreComplete
  WatchedOrClosing
  SettledAgreement
PROPERTIES
  ImplementsContract
  TransientStatesEnd
  LossIsReported
