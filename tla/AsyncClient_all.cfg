\* Two tasks on TCP, with and without a foreign frame, and on UDP, and one task
\* in a longer sequence, each with a close() beside it.  The tasks stop after
\* the operations of a setup.
SPECIFICATION Spec
CONSTANTS
  NoTask = NoTask
  NoConn = NoConn
  t1 = t1
  t2 = t2
  t3 = t3
  Tasks <- AllTasks
  Setups <- AllSetups
SYMMETRY Symmetry
CHECK_DEADLOCK FALSE
INVARIANTS TypeOK OutcomeContractUncut AnswerIsMine
  OutcomesAreEarned OneLiveConnection
