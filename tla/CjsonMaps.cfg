SPECIFICATION FillSpec
CONSTANTS
  Space = 16
  IntRange = 65536
  Slots = {s1, s2}
  Clients <- FillingClients
  Values = {1, 2, 3}
  MaxIndex = 1
  MaxDepth = 3
INVARIANTS SameKeysSameMap
CHECK_DEADLOCK FALSE
