\* -c 1: one client, which cleans for itself.
SPECIFICATION Spec
CONSTANTS
  c1 = c1
  c2 = c2
  Clients <- OneClient
  Cleaner = Cleaner
  Main = Main
  Nobody = Nobody
  SeparateCleaner = FALSE
  MAX_KEY = 4
  LOW_WATER_MARK = 1
  HIGH_WATER_MARK = 3
  CLEAN_RATIO = 2
  TestSize = 2
  MaxRefs = 3
PROPERTIES ShutdownCompletes ShutdownHappens
CHECK_DEADLOCK FALSE
