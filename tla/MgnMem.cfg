SPECIFICATION Spec
CONSTANTS
  Owners = {o1, o2}
  Addresses = {a1, a2, a3}
  Values = {zero, v1}
  Zero = zero
  MaxSize = 2
  MaxCount = 3
INVARIANTS TypeOK CountIsOwnership NothingLost
PROPERTIES OthersKeepTheirBlocks ContentFollowsOwner
