\* Two attempts one after the other, the first worker running on beside the
\* second attempt, an interrupt in its wait.  Both end, so the system stops.
SPECIFICATION FairSpec
CONSTANTS
  Attempts = {a1, a2}
  Interruptible = {a1}
CHECK_DEADLOCK FALSE
INVARIANTS OneOwner NoStaleSocket
PROPERTIES CallerReturns NoSocketLeft
