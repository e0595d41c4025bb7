SPECIFICATION LiveSpec
CONSTANTS
  Main = main
  Workers = {a, b}
  NoTask = NoTask
  Spaces = {x, y}
  NoSpace = NoSpace
  Usr1 = 10
  Sector = s1
  Values = {v1, v2}
  Garbage = garbage
PROPERTIES
  ExitObserved
  KillCompletes
  SignalsTaken
  PipelineEnds
  PromptReturns
  WaitsEnd
  SlotsComeBack
  CallsReturn
CHECK_DEADLOCK FALSE
