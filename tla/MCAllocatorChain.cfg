\* One level on five pages: long chains of superblocks.
SPECIFICATION Spec
CONSTANTS
  p1 = p1
  p2 = p2
  p3 = p3
  p4 = p4
  p5 = p5
  Pages <- FivePages
  LEVELS = 1
  RESERVE_SUPERBLOCK_THRESHOLD = 2
  FREE_POISON = FREE_POISON
  ALLOC_POISON = ALLOC_POISON
  MAP_FAILED = MAP_FAILED
  Sizes = {32, 33}
  MaxBig = 1
INVARIANTS ReserveIsSmall ChainSafe
PROPERTIES FreeReturns
CHECK_DEADLOCK FALSE
