CONSTANTS
  Threads = {t1, t2, t3}
  t1 = t1
  t2 = t2
  t3 = t3
  NoThread = NoThread
  MaxRetries = 3
  MaxCalls = 3
SPECIFICATION LiveSpec
INVARIANTS TypeOK Exclusion NoLostWakeup QueueOK
PROPERTIES ImplementsSharedLock EveryWaiterIsServed
