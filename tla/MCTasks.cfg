SPECIFICATION TasksSpec
CONSTANTS
  Tasks = {main, idle, a, b, c}
  Main = main
  Idle = idle
  Processes = {p}
  Channels = {x, y}
  NoTask = NoTask
  NoProcess = NoProcess
  NoChannel = NoChannel
INVARIANTS
  SchedInv
  ListsPartitionTasks
PROPERTIES
  FreedOnlyWhenLeft
  ImplementsScheduler
  RoundRobin
  KilledTaskDies
