CONSTANTS
  Threads = {t1, t2}
  t1 = t1
  t2 = t2
  NoThread = NoThread
  BlockSize = 2
  Fanout = 2
  Sectors = {2, 3, 4, 5, 6, 7, 8, 9}
  InitialLength = 1
  Writes <- MCWrites
  Reads <- MCReads
  MaxGap = 1
  MaxOps = 3
  MaxDeny = 1
  MaxOthers = 2
SPECIFICATION LiveSpec
INVARIANTS SectorsAccounted ContentsRight 
PROPERTIES CallsReturnUnlessRefused
CHECK_DEADLOCK FALSE
