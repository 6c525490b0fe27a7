\* -c 2: two clients and the cleaner.  CLEAN_RATIO is not used then.
SPECIFICATION Spec
CONSTANTS
  c1 = c1
  c2 = c2
  Clients <- TwoClients
  Cleaner = Cleaner
  Main = Main
  Nobody = Nobody
  SeparateCleaner = TRUE
  MAX_KEY = 4
  LOW_WATER_MARK = 1
  HIGH_WATER_MARK = 3
  CLEAN_RATIO = 1
  TestSize = 2
  MaxRefs = 2
INVARIANTS TypeOK MutexDiscipline CountAccurate WaterMarks SelfTestOutcome NoLostWakeup NoStall
PROPERTIES WaitersAreReleased
CHECK_DEADLOCK FALSE
