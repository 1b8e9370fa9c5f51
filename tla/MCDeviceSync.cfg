\* A crowded handshake slot may leave tasklets asleep for good.
CHECK_DEADLOCK FALSE
SPECIFICATION MCSpec
CONSTANTS
  NrTasklets = 4
  MaxCount = 2
  MaxCalls = 1
  Programs <- ClientPrograms
  Rounds = 2
INVARIANTS
  UnitsConserved
  NobodyWaitsInVain
  WaitsMeetNotifies
  SlotsTellSleepers
  CountTellsSleepers
  StopsWhenDone
PROPERTIES
  BarIsBarrier
  EveryProgramEnds
