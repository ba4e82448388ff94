\* Two FECs on a network that delivers.
SPECIFICATION Spec
CONSTANTS
  Fecs = {f1, f2}
  f1 = f1
  f2 = f2
  PortTaken = FALSE
  Faulty = FALSE
  Duplicates = FALSE
  Overtakes = FALSE
  LateArming = FALSE
INVARIANT
  OffRequested
\* the program ends
CHECK_DEADLOCK FALSE
