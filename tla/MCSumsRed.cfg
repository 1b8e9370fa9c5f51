SPECIFICATION Spec
CONSTANTS
  Word = 16
  Chunk = 4
  Jobs <- RedJobs
CHECK_DEADLOCK FALSE
INVARIANT
  SumsAreRight
