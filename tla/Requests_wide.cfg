\* Extended Device bits of numbers beyond the three bytes of a link-direct field.
SPECIFICATION RequestsSpec
CONSTANTS
  Malformed = Malformed
  Refused = Refused
  Done = Done
  Written = Written
  Sessions <- WideSessions
  Target <- OwnStation
  Commands <- AllCommands
  Steps = {1, 9, 480}
  MaxPoints <- LargestSizes
  MaxCount = 11
  RLimit = 4
  ProbesZ = TRUE
  Families = {"iqr", "mxf", "mxr", "iqf", "qcpuUnit", "lcpu", "lcpuUnit"}
  Sizes = {0, 1, 15, 16, 32767, 32768, 32769, 65535, 65541, 1048577}
  SearchLimit = 1048576
CHECK_DEADLOCK FALSE
INVARIANTS AddressesAreNotCut
