CONSTANTS
  Threads = {t1, t2}
  t1 = t1
  t2 = t2
  Flushers = {f}
  f = f
  Main = Main
  Nobody = Nobody
  Sectors = {s1, s2}
  s1 = s1
  s2 = s2
  BufferLen = 2
  Segments = {1}
  v0 = v0
  Values = {v0}
  InitialValue = v0
  DirtyMod = 65536
  MaxRequests = 1
  MaxRounds = 1
SPECIFICATION LiveSpec
INVARIANTS FillAssertsHold EntriesOwned
PROPERTIES RequestsReturn
