SPECIFICATION Spec
CONSTANTS
  NPorts = 2
  FrameCheck = TRUE
INVARIANTS
  CrashOnlyWithoutWorkflow
  OffFutureSettled
  FecsToldOff
  HandlerOutlivesUsers
  StatisticsFinal
  ReportNotShared
PROPERTY
  StopEnds
\* the program ends
CHECK_DEADLOCK FALSE
