SPECIFICATION MemSpec
CONSTANTS
  Threads = {t1, t2}
  Simulator = "umm"
  Traffic = "longest"
  Requests <- MCRequests
  UnitsWrap = 2
  MemPerLogic = 2
  WaitCap = 2
  WordlineSz = 16
  ReorderWinSz = 4
  TRp = 1
  TRcd = 1
  TRas = 4
  TCl = 3
  TBl = 2
  None = None
INVARIANTS
  NobodyForgotten
