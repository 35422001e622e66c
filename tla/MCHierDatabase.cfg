SPECIFICATION HierSpec
CONSTANTS
  Name <- MCName
  Payload = {p}
  NoData = none
  MaxItems = 6
  MaxDepth = 2
INVARIANTS
  HierTypeOK
  TreeIsSound
  CachesAreCurrent
PROPERTIES
  ImplementsHierTree
