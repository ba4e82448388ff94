SPECIFICATION FilesSpec
CONSTANTS
  Scopes = {s1, s2}
  MaxRuns = 2
  MaxLines = 3
  MaxFrames = 2
  MaxReads = 3
CHECK_DEADLOCK FALSE
INVARIANTS
  VerdictRight
  ReadsInOrder
PROPERTY
  ConfigKept
