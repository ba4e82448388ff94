\* The modes that perform an individual action.
SPECIFICATION Spec
CONSTANTS
  NPorts = 1
  FrameCheck = FALSE
INVARIANT
  ActionEnds
\* the program ends
CHECK_DEADLOCK FALSE
