SPECIFICATION Spec
CONSTANTS
  NrDpu = 3
  NrCore = 2
  StructSize = 4984
  DpuSize = 8192
  ProgramViews <- MCProgramViews
  Programs = {p}
  Refused = {r}
  Bufs = {b1, b2}
  Values = {0, 1}
  Image = 0
  Run <- MCRun
  Tasklets <- MCTasklets
  Null = Null
INVARIANTS
  SymbolsOfThePrograms
PROPERTY
  IsSequential
\* A fault kills the host program.
CHECK_DEADLOCK FALSE
