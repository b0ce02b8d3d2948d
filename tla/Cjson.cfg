SPECIFICATION Spec
CONSTANTS
  Space = 1
  IntRange = 8
  Slots = {s1, s2}
  Clients <- AnyClients
  Values = {3}
  MaxIndex = 1
  MaxDepth = 3
INVARIANTS TypeOK OneOwner
PROPERTIES Independent OneKeyChanges
CHECK_DEADLOCK FALSE
VIEW UpToAddresses
SYMMETRY AnyPointer
