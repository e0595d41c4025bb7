SPECIFICATION KernelSpec
CONSTANTS
  N = 2
  PidMax = 2
  Tasks = {sh, a, b, c}
  MaxThreads = 1
  LaunchRaces = FALSE
  Callers = {a, b, c, d}
  MaxOpen = 2
  MaxRefs = 3
  MaxValue = 3
  Kills = TRUE
  Shell = sh
  Workers = {a, b, c}
  Spaces = {x, y}
  NoTask = NoTask
  NoSpace = NoSpace
  Main = main
  Thread = thread
  Procs = {p1, p2}
  Nodes = {n1}
  Pipes = {q1}
  None = None
  Freed = Freed
SYMMETRY Symmetry
INVARIANTS
  PostsHaveTakers
  SpacesOwned
  TableExact
  BlockedForAReason
  SignalStateTrue
  RefsExact
  EnvironmentExact
  RingExact
PROPERTIES
  TimersExact
CHECK_DEADLOCK FALSE
