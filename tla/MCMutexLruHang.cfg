\* Two clients and the cleaner on three keys.
SPECIFICATION Spec
CONSTANTS
  c1 = c1
  c2 = c2
  Clients <- TwoClients
  Cleaner = Cleaner
  Main = Main
  Nobody = Nobody
  SeparateCleaner = TRUE
  MAX_KEY = 3
  LOW_WATER_MARK = 1
  HIGH_WATER_MARK = 3
  CLEAN_RATIO = 1
  TestSize = 2
  MaxRefs = 2
PROPERTIES EveryClientExits
CHECK_DEADLOCK FALSE
