\* Two callers and a close(), of the blocking client or of the asyncio client:
\* every operation ends and gives its turn back.  The callers stop after the
\* operations of the setup.
SPECIFICATION ClientsSpec
CONSTANTS
  NoThread = NoThread
  NoSocket = NoSocket
  NoTask = NoTask
  NoConn = NoConn
  t1 = t1
  t2 = t2
  t3 = t3
  Threads <- TwoCallers
  Setups <- LiveSetups
CHECK_DEADLOCK FALSE
PROPERTIES ThreadsEnd TasksEnd
