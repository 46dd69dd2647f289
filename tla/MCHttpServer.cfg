SPECIFICATION FairSpec
CONSTANTS
  Workers = {w1,w2}
  Conns = {c1, c2}
  w1 = w1
  w2 = w2
  c1 = c1
  c2 = c2
  NoConn = NoConn
  NoFile = NoFile
  NumFds = 10
  NumPipes = 4
  Requests <- MCRequests
  Scripts <- MCScripts
  BufLen = 2
  ReadMax = 3
  PipeCap = 3
  FileSize = 4
  Fails = {"accept", "pipe", "fork"}
  Leavers = {c1}
  MaxSends = 2
INVARIANTS WorkersApart DescriptorsAccounted  WholeOutput
 
CHECK_DEADLOCK FALSE
