\* The same interrupt against the promise that every queued call ends.
SPECIFICATION FairSpec
CONSTANTS
  NoThread = NoThread
  Threads = {t1, t2}
  Interruptible = {t1}
  MaxGeneration = 2
  MaxNested = 0
  MaxAbandoned = 1
CHECK_DEADLOCK FALSE
PROPERTIES EveryCallEnds
