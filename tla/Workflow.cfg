\* Three lines, turns nested in the corun of other lines, and the frame monitor.
SPECIFICATION Spec
CONSTANTS
  Sockets = {s1}
  MaxFrames = 3
  Nothing = Nothing
  NLines = 3
  NestedCorun = TRUE
  FrameCheck = TRUE
INVARIANTS
  CleanReturn
  BusyLinesFinish
  NeverStuck
PROPERTIES
  OnlyNestingDelays
  QueueServed
\* the application ends
CHECK_DEADLOCK FALSE
