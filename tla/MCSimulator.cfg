SPECIFICATION SimSpec
CONSTANTS
  Hashes <- MCHashes
  Names = {"a", "b", "c", "d", "e"}
  Values = {1, 2}
  Absent = 0
  MinCap = 4
\* A program that has stopped stays so.
CHECK_DEADLOCK FALSE
INVARIANTS
  UmmProgramsCompute
  RvProgramsCompute
  LocksExclude
  MapIsExact
