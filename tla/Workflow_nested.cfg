\* A turn that waits in dequeue holds up the line whose corun executes it.
SPECIFICATION Spec
CONSTANTS
  Sockets = {s1}
  MaxFrames = 1
  Nothing = Nothing
  NLines = 2
  NestedCorun = TRUE
  FrameCheck = FALSE
PROPERTY
  StopTakesEffect
CHECK_DEADLOCK FALSE
