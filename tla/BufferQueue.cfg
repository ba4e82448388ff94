\* Two sockets, two lines: refusals, missed buffers and allocations.
SPECIFICATION MCSpec
CONSTANTS
  Sockets = {s1, s2}
  Lines = {l1, l2}
  MaxFrames = 2
  Nothing = Nothing
  Storage = {1, 2, 3, 4, 5, 6, 7}
  Capacity = 2
  RefuseFrom = 2
  Reserve = 1
  MissesAllowed = TRUE
SYMMETRY Symmetry
INVARIANTS
  BuffersInPlace
  SingleOwner
  StorageAccounted
  Conserved
  FifoPerSocket
  StopPerLine
PROPERTY
  ImplementsChannel
\* the bounded input ends and the lines wait
CHECK_DEADLOCK FALSE
