SPECIFICATION Spec
CONSTANTS
  a = a
  b = b
  p = p
  q = q
  FCOName <- MCFCOName
  Property <- MCProperty
  Value <- MCValue
  Policy <- MCPolicy
  InitialFs <- MCInitialFs
  Missing = missing
  Broken = broken
  NoJob = idle
  MaxReports = 1
  MaxChanges = 1
INVARIANTS
  TypeOK
PROPERTIES
  CopyBeforeOverwrite
  UpdateSettles
  OnlySeenIsChanged
  BaselineSettles
  PolicyUpdateHidesNothing
  FitsPolicy
