CONSTANTS
  t1 = t1
  t2 = t2
  Readers = {t1, t2}
  QueueN = 2
  Size = 4
  MaxReads = 5
CHECK_DEADLOCK FALSE
SPECIFICATION RingSpec
INVARIANTS RingTypeOK 
 
