SPECIFICATION Spec
CONSTANTS
  a = a
  b = b
  g = g
  Address <- MCAddress
  RuleLists <- MCRuleLists
  GlobalLists <- MCGlobalLists
  Methods <- MCMethods
INVARIANTS
  TypeOK
  ConcernedAreTriedOnce
  CleanExitMeansDelivered
PROPERTY
  Ends
CHECK_DEADLOCK FALSE
