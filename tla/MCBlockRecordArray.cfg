SPECIFICATION Spec
CONSTANTS
  a = a
  b = b
  Byte <- MCByte
  Items <- MCItems
  BlockSize = 25
  HeaderSize = 2
  IndexSize = 2
  Margin = 3
  WordSize = 1
INVARIANTS
  TypeOK
  LayoutIsSound
PROPERTIES
  ImplementsRecordTable
