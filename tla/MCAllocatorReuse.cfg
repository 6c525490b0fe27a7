\* Is freed memory allocated again?
SPECIFICATION Spec
CONSTANTS
  p1 = p1
  p2 = p2
  p3 = p3
  p4 = p4
  p5 = p5
  Pages <- ThreePages
  LEVELS = 2
  RESERVE_SUPERBLOCK_THRESHOLD = 2
  FREE_POISON = FREE_POISON
  ALLOC_POISON = ALLOC_POISON
  MAP_FAILED = MAP_FAILED
  Sizes = {32, 33, 64, 65}
  MaxBig = 1
INVARIANTS FreeListsLead
CHECK_DEADLOCK FALSE
