SPECIFICATION Spec
CONSTANTS
  a = a
  b = b
  Content <- MCContent
  NoData = none
  Rules <- MCRules
  InitialFs <- MCInitialFs
  InitialDb <- MCInitialDb
  ObjectLists <- MCObjectLists
  MaxChanges = 1
INVARIANTS
  RemovalsAreReal
CHECK_DEADLOCK FALSE
