SPECIFICATION Spec
CONSTANTS
  MAX_INPUT = 9
  Letters <- MCLetters
  BreakAt = {0, 1, 2, 3, 4, 5, 6}
CHECK_DEADLOCK FALSE

INVARIANTS
  TypeOK
  FollowsGrammar
  SpacingIsIrrelevant
