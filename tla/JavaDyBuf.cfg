SPECIFICATION Spec
CONSTANTS
  Bits = 2
  Unit = 2
  IntModulus = 16
  CrcPeriod = 2
  Seed = 2
  MaxMarker = 2
  MaxLimit = 4
  MaxBlock = 2
  PutByte = {2}
  Null = Null
INVARIANTS TypeOK CursorOrder SealOpens
PROPERTIES TapeSpec
