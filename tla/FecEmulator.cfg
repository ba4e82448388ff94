\* Two FECs, an acq-on twice in all, and a frame counter that wraps after four frames.
SPECIFICATION Spec
CONSTANTS
  Fecs = {f1, f2}
  f1 = f1
  f2 = f2
  NSenders = 2
  Width = 4
INVARIANTS
  CountersDistinct
  FrameIntact
  OffStops
  NeverSilent
  NoCounterSkipped
PROPERTY
  SendersEnd
\* the number of commands is bounded
CHECK_DEADLOCK FALSE
