\* The notification falls between the test of the predicate and the sleep.
SPECIFICATION Spec
CONSTANTS
  Sockets = {s1}
  MaxFrames = 1
  Nothing = Nothing
  NLines = 1
  NestedCorun = FALSE
  FrameCheck = FALSE
PROPERTY
  StopAfterStart
CHECK_DEADLOCK FALSE
