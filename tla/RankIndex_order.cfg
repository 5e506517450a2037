SPECIFICATION Spec
CONSTANTS
  o1 = o1
  o2 = o2
  o3 = o3
  None = None
  Object = {o1, o2, o3}
  Uses <- MCUses
  MaxRank = 3
  LastOrdinal = 1
INVARIANTS
  RankOrder
  FlagsCleared
  RankBounded
  TreeOrder
  AllVisited
CHECK_DEADLOCK FALSE
