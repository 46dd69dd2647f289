CONSTANTS
  Threads = {m, a, b}
  Main = m
  Started = {a, b}
  m = m
  a = a
  b = b
  Idle = Idle
  NoThread = NoThread
  NumLocks = 1
  Semas = {sem}
  sem = sem
  CondLock = 1
  PriMax = 1
  TimeSlice = 1
  Sleeps <- SleepTicks
  MaxTicks = 2
  Calls <- MonitorCalls
SPECIFICATION Spec
INVARIANTS NothingLost
PROPERTIES WakesOnTime
SYMMETRY Sym
CHECK_DEADLOCK FALSE
