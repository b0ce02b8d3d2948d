CONSTANTS
  Radix = 2
  Unit = 2
  UintModulus = 16
  MaxCapacity = 5
  MaxBlock = 4
  Null = Null

SPECIFICATION Spec

INVARIANTS
  TypeOK
  CursorOrder

PROPERTIES
  TapeSpec
  ReferredMemoryKept
  MarkedBytesKept
