\* Two callers on TCP, with and without a foreign frame, and on UDP, and one
\* caller in a longer sequence, each with a close() beside it.  The callers
\* stop after the operations of a setup.
SPECIFICATION Spec
CONSTANTS
  NoThread = NoThread
  NoSocket = NoSocket
  t1 = t1
  t2 = t2
  t3 = t3
  Threads <- AllThreads
  Setups <- AllSetups
SYMMETRY Symmetry
CHECK_DEADLOCK FALSE
INVARIANTS TypeOK OutcomeContractUnraced AnswerIsMine
  OutcomesAreEarned ClosedGenerationRetired
