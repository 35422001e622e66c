SPECIFICATION Spec
CONSTANTS
  Data = {zero, a}
  Zero = zero
  MaxBlocks = 3
  PageCounts <- MCPageCounts
  TimerMod = 4
INVARIANTS
  TypeOK
  OnePagePerBlock
  CleanPagesMatchArchive
  AssertValid
PROPERTIES
  MruStaysResident
  ImplementsBlockStore
