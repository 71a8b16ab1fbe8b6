CONSTANTS
  direct = direct
  relative = relative
  i1 = i1
  Absent = Absent
  Empty = Empty
  NoNode = NoNode
  DirectIds <- MCDirectIds
  RelativeIds <- MCRelativeIds
  Indexes <- MCIndexes
  MaxRequests = 2
SPECIFICATION Spec
INVARIANT AutoupdateIsKept
