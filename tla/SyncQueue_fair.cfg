\* Three callers, to one of which KeyboardInterrupt may come while it waits.
\* A ticket left at the head of the line blocks every caller, so deadlock is
\* possible.
SPECIFICATION FairSpec
CONSTANTS
  NoThread = NoThread
  Threads = {t1, t2, t3}
  Interruptible = {t1}
  MaxGeneration = 2
  MaxNested = 1
  MaxAbandoned = 2
CHECK_DEADLOCK FALSE
INVARIANTS OwnerInside NoLostWakeup
PROPERTIES GateSpec EveryCallEndsUnlessAbandoned
