SPECIFICATION FairSpec
CONSTANTS
  N = 1
  PidMax = 1
  Tasks = {sh, a, b}
  Shell = sh
  Spaces = {x, y}
  NoTask = NoTask
  NoSpace = NoSpace
  MaxThreads = 1
  LaunchRaces = FALSE
PROPERTY
  KillCompletes
CHECK_DEADLOCK FALSE
