SPECIFICATION Spec
CONSTANTS
  small = small
  other = other
  large = large
  Item <- MCItem
  SizeOf <- MCSizeOf
  BlockSize = 15
  HeaderSize = 2
  IndexSize = 2
  Margin = 3
  WordSize = 1
  MaxBlocks = 3
  Free = free
INVARIANTS
  TypeOK
  ArraysAreSound
PROPERTIES
  GrowsOnlyWhenFull
  ImplementsItemStore
