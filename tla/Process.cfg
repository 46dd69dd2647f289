CONSTANTS
  Root = Root
  a = a
  b = b
  Procs = {Root, a, b}
  None = None
  Codes = {0}
  MayKill = TRUE
  MayRunOut = TRUE
  MayOrphan = TRUE
CHECK_DEADLOCK FALSE
SPECIFICATION LiveSpec
INVARIANTS  RecordsRight
PROPERTIES CallersReturn
