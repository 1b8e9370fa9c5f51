SPECIFICATION HeapSpec
CONSTANTS
  NrTasklets = 4
  Rounds = 3
  MaskOf <- MCMaskOf
  Kernels <- MCKernels
INVARIANTS
  NobodyPassesEarly
  StopsOnlyWhenDone
  BlocksDisjoint
PROPERTIES
  IsBarrier
