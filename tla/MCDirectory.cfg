CONSTANTS
  Threads = {t1, t2}
  t1 = t1
  t2 = t2
  NoThread = NoThread
  Sectors = {1, 2, 3, 4}
  Root = 1
  Calls <- MCCalls
  MaxCalls = 6
  MayExit = TRUE
SPECIFICATION Spec
INVARIANTS InodesAccounted  OpenDirsStay OneWinner
CHECK_DEADLOCK FALSE
