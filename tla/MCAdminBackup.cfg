SPECIFICATION Spec
CONSTANTS
  p = p
  q = q
  t = t
  u = u
  Files <- MCFiles
  Pass <- MCPass
  Text <- MCText
  Lists <- MCLists
  MaxPair = 4
  MaxCommands = 2
  Torn = Torn
  Absent = Absent
INVARIANT
  ImportantDataSurvives
CHECK_DEADLOCK FALSE
