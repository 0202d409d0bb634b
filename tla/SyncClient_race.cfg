\* One caller and a close() on another thread: the documented outcome contract,
\* without the exception for turns granted between the halves of a close().
SPECIFICATION Spec
CONSTANTS
  NoThread = NoThread
  NoSocket = NoSocket
  t1 = t1
  t2 = t2
  t3 = t3
  Threads <- AllThreads
  Setups <- RaceSetups
CHECK_DEADLOCK FALSE
INVARIANTS OutcomeContract
