SPECIFICATION Spec
CONSTANTS
  Proc = {p1, p2, p3}
  NULL = NULL
  PageCount = 10
  BlocksMax = 10
  SlotMax = 4
  Images <- MCImages
  MapSizes = {1, 2}
  FixedAt = {6}
  MaxCalls = 6
SYMMETRY MCSym
CHECK_DEADLOCK FALSE
INVARIANTS PoolCanonical OwnedOnce GivenIsHeld
