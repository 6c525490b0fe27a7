SPECIFICATION Spec
CONSTANTS
  n1 = n1
  n2 = n2
  n3 = n3
  n4 = n4
  Keys <- MCKeys
  Nodes <- MCNodes
  NULL = NULL
  MaxRefs = 2
INVARIANTS TypeOK ListShape CursorSafe CountAccurate NoZombie
PROPERTIES CallsReturn ImplementsCache CallsTakeEffect
