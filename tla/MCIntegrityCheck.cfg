SPECIFICATION Spec
CONSTANTS
  a = a
  b = b
  Content <- MCContent
  NoData = none
  Rules <- MCRules
  InitialFs <- MCInitialFs
  InitialDb <- MCInitialDb
  ObjectLists <- MCObjectLists
  MaxChanges = 2
INVARIANTS
  TypeOK
  StableObjectsJudgedRight
  OneVerdictEach
PROPERTIES
  Ends
CHECK_DEADLOCK FALSE
