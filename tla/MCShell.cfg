SPECIFICATION Spec
CONSTANTS
  MAX_PIPELINE = 4
  MAX_ARGS = 2
  OpenMax = 6
  Lines <- MCLines
  MaxShells = 1
CHECK_DEADLOCK FALSE
INVARIANTS
  TypeOK
  HangsOnOwnPipeOrSecondShell
  InputArrives
PROPERTIES
  PlainLinesKeepInput
  HarmlessLinesEnd
