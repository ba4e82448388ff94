\* One FEC; datagrams get lost and repeated, the local port may be taken.
SPECIFICATION FairSpec
CONSTANTS
  Fecs = {f1}
  f1 = f1
  PortTaken = TRUE
  Faulty = TRUE
  Duplicates = TRUE
  Overtakes = FALSE
  LateArming = FALSE
INVARIANT
  OffMeansOff
PROPERTIES
  ImplementsRounds
  SocketCloses
  SwitchedOff
\* the program ends
CHECK_DEADLOCK FALSE
