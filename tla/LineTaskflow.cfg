SPECIFICATION Spec
CONSTANTS
  ChannelLen = 2
  BcLen = 3
  AdcLen = 3
  LowLen = 2
  HighLen = 2
  CastLen = 2
  Lines = {l1, l2}
  Files = {"binary", "message", "tree", "list", "rawsocket", "socket", "text"}
  Extension <- Extensions
  HasRoot = TRUE
  FrameCheck = TRUE
  Structs <- Measured
  Others <- TooShort
  MaxOutputs = 2
  MaxFrames = 2
SYMMETRY LineSymmetry
INVARIANTS
  EverySinkFed
  RecordsFaithful
  JsonWellFormed
  ReportComplete
  ReadBack
