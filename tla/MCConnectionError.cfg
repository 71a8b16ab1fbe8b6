CONSTANTS
  plain = plain
  secure = secure
  malformed = malformed
  NoEndpoint = NoEndpoint
  Endpoints <- MCEndpoints
  Secure <- MCSecure
  Malformed <- MCMalformed
  MaxPending = 3
SPECIFICATION Spec
PROPERTY ConnectionErrorIsReal
