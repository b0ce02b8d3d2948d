SPECIFICATION CompactSpec
CONSTANTS
  Bits = 2
  MaxLong = 1
  MaxMarker = 2
  Grains <- SmallGrains
  Thresholds <- SmallThresholds
  MaxLimit = 4
  MaxBlock = 2
  PutByte = {1, 2}
  Null = Null
PROPERTIES CompactKeepsUnread
