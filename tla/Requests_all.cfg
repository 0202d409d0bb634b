\* Every kind of call in every layout with every fault, sequences of calls, and
\* sizes beyond every limit; every set of readable registers of a small range
\* that is no power of two, in a PLC that may refuse some of them now and then,
\* with a close() at any time; and every catalog: every kind of profile, with
\* each item at the edges of a word, of the clips and of the search.
\* A caller stops after its calls.
SPECIFICATION RequestsSpec
CONSTANTS
  Malformed = Malformed
  Refused = Refused
  Done = Done
  Written = Written
  Sessions <- AllSessions
  Target <- OwnStation
  Commands <- AllCommands
  Steps = {1, 9, 480}
  MaxPoints <- LargestSizes
  MaxCount = 11
  RLimit = 4
  ProbesZ = TRUE
  Families = {"iqr", "mxf", "mxr", "iqf", "qcpuUnit", "lcpu", "lcpuUnit"}
  Sizes = {0, 1, 15, 16, 32767, 32768, 32769, 65535, 65541, 1048577}
  SearchLimit = 1048576
CHECK_DEADLOCK FALSE
INVARIANTS RequestsAreUnderstood AnswersAreRead HelpersAgree AcceptedFits
  NeverOverstates EndsAtBoundary NoCatalogAfterClose ProbesAreFew CatalogHolds
PROPERTIES WritesOnlyWhatWasAsked
