\* Three tasks, each of which may be cancelled at any point.
SPECIFICATION FairSpec
CONSTANTS
  NoTask = NoTask
  Tasks = {t1, t2, t3}
  MaxGeneration = 2
  MaxNested = 1
INVARIANTS WakeupPassedOn
PROPERTIES GateSpec EveryCallEnds
