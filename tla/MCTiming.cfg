SPECIFICATION MCSpec
CONSTANTS
  TaskletCounts = {2, 3}
  NrPipelineStage = 3
  NrRevolveCycle = 2
  Isas = {"rv", "umm"}
  Instrs <- MCInstrs
  Leavers = {1}
  Null = Null
  Bubble = Bubble
  Threads = {0, 1, 2}
  Simulator = "rv"
  Requests <- MCRequests
  UnitsWrap = 2
  MemPerLogic = 3
  WaitCap = 3
  WordlineSz = 16
  ReorderWinSz = 4
  TRp = 1
  TRcd = 1
  TRas = 4
  TCl = 3
  TBl = 2
  None = None
INVARIANTS
  NothingOutstanding
  AcksMatchCommands
  NoThreadForgotten
  IoReadsOpenRow
PROPERTIES
  RevolveRule
  InOrder
  EveryTaskletIssues
  EveryTransferEnds
