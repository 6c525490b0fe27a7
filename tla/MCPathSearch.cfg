SPECIFICATION Spec
CONSTANTS
  Dirs <- MCDirs
  Removable <- MCRemovable
  Args <- MCArgs
  Paths <- MCPaths
  BOUND = 2
CHECK_DEADLOCK FALSE
INVARIANTS
  TypeOK
  DashReturns
  FirstProgramRuns
PROPERTIES
  CdGoesWhereAsked
