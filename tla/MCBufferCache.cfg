CONSTANTS
  Threads = {t1, t2}
  t1 = t1
  t2 = t2
  Flushers = {}
  Main = Main
  Nobody = Nobody
  Sectors = {s1, s2}
  s1 = s1
  s2 = s2
  BufferLen = 1
  Segments = {1, 2}
  v0 = v0
  v1 = v1
  Values = {v0, v1}
  InitialValue = v0
  DirtyMod = 65536
  MaxRequests = 2
  MaxRounds = 0
SPECIFICATION Spec
SYMMETRY Symmetry
INVARIANTS DurableAtShutdown
 
