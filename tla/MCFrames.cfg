SPECIFICATION Spec
CONSTANTS
  a = a
  b = b
  stackA = stackA
  codeA = codeA
  stackB = stackB
  mapB = mapB
  Procs = {a, b}
  Nobody = Nobody
  Pages = {stackA, codeA, stackB, mapB}
  NoPage = NoPage
  OwnerOf <- MCOwnerOf
  Sync = {mapB}
  Exec = {codeA}
  Stack = {stackA, stackB}
  ArgPages = {stackB}
  InitPages = {stackA, codeA, mapB}
  NumFrames = 2
  NumSlots = 3
  Values = {0, 1}
  Zero = 0
  Read = Read
  MaxOps = 2
INVARIANTS MemoryAccounted PinnedDuringCall FaultsAreLegitimate
 
CHECK_DEADLOCK FALSE
