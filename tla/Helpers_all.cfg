\* Two callers, three updates of a word of two bits, a close() and a clock that
\* overtakes the deadline; every list of up to three addresses, read once or
\* polled; every list of one or two rows of a test tool, on words of every nature
\* and value; and every device code with the numbers and suffixes of MCHelpers.
SPECIFICATION HelpersSpec
CONSTANTS
  NoThread = NoThread
  NoJob = NoJob
  NoDeadline = NoDeadline
  Bits = {0, 1}
  Threads = {t1, t2}
  Timeout = 2
  MaxTime = 2
  MaxOps = 3
  MaxCloses = 1
  Lists <- AddressLists
  RandomLimit = 2
  MaxVersion = 2
  MaxYields = 2
  c1 = c1
  c2 = c2
  Cells <- Words
  WordModulus = 4
  PreferredBase = 3
  RowLists <- AllRowLists
  Profiles = {"iqr", "iqf", "qcpu"}
  Tails <- NumberTexts
  Endings <- AddressEnds
CHECK_DEADLOCK FALSE
INVARIANTS OwnDeadline PlanIsSound ValuesAreTheirs ToolsAreHonest TextsAgree
PROPERTIES AtomicUpdates LossIsAnnounced
