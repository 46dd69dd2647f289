CONSTANTS
  Threads = {m, a, b}
  Main = m
  Started = {a}
  m = m
  a = a
  b = b
  Idle = Idle
  NoThread = NoThread
  NumLocks = 2
  Semas = {}
  CondLock = 1
  PriMax = 2
  TimeSlice = 1
  Sleeps = {0}
  MaxTicks = 0
  Calls <- DonationCalls
SPECIFICATION Spec
INVARIANTS ThreadsListed Exclusion DonationExact
CHECK_DEADLOCK FALSE
