SPECIFICATION PySpec
CONSTANTS
  Radix = 4
  Bits = 2
  Markers = 2
  Unit = 2
  UintModulus = 32
  MaxCapacity = 3
  MaxBlock = 3
  MaxData = 2
  Null = Null
  Nothing = Nothing
PROPERTIES
  ContractKept
  EofErrorIsSound
