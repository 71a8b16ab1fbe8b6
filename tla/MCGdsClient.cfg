CONSTANTS
  a = a
  b = b
  NoId = NoId
  AppIds <- MCAppIds
  MaxSigning = 1
SPECIFICATION Spec
INVARIANTS
  AtMostOneRegistration
PROPERTIES
  RegisteredIsKnown
  RestartIsTaken
  ChainDoesNotStall
