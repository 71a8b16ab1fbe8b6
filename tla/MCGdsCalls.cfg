CONSTANTS
  a = a
  b = b
  NoId = NoId
  AppIds <- MCAppIds
  MaxSigning = 1
SPECIFICATION Spec
INVARIANT DirectoryIsThere
