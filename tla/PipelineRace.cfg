SPECIFICATION Spec
CONSTANTS
  N = 3
  Cap = 1
  Work = 3
  ShellPreempted = TRUE
INVARIANT
  EndsClosedOnExit
CHECK_DEADLOCK FALSE
