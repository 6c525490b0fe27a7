SPECIFICATION Spec
CONSTANTS
  t1 = t1
  t2 = t2
  Nobody = Nobody
  Threads = {t1, t2}
  Keys <- MCKeys
CHECK_DEADLOCK FALSE
INVARIANT ReleasesEverything
