SPECIFICATION Spec
CONSTANTS
  Word = 16
  Chunk = 2
  Jobs <- UniJobs
CHECK_DEADLOCK FALSE
INVARIANT
  SumsAreRight
