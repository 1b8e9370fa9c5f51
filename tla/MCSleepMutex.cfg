SPECIFICATION Spec
CONSTANTS
  NrTasklets = 3
  MaxTasklets = 3
  MaxCalls = 1
INVARIANTS
  TypeOK
  MutualExclusion
  RingIsTheLine
  StopsOnlyWhenDone
  NobodyTraps
PROPERTIES
  IsFifoLock
  EveryLaunchEnds
