\* Three lines, five counters, of which 0 is one.
SPECIFICATION Spec
CONSTANTS
  Lines = {l1, l2, l3}
  First = 0
  MaxCounter = 4
INVARIANTS
  DropCount
  DropOwed
  LastIsMax
\* the bounded input ends
CHECK_DEADLOCK FALSE
