CONSTANTS
  Null = Null
  BadId = BadId
  Far = Far
  Inputs <- MCInputs
  MaxItems = 2
  MaxTorn = 1
  Lengths = {0, 2, 7}
  MaxRank = 3
  Sizes = {0, 1, 8}
  x = x
  y = y
  Empty = Empty
  Elements = {x, y}
  Modulus = 32
  MaxSets = 2
SPECIFICATION MCSpec
INVARIANTS
  RoundTrip
  CutIsRefused
  IndexIsRowMajor
  
SYMMETRY MCSymmetry
CHECK_DEADLOCK FALSE
