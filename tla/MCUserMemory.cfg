SPECIFICATION Spec
CONSTANTS
  W = 48
  P = 2
  LoadBase = 4
  StackBottom = 12
  StackTop = 16
  Premap = 1
  LowTop = 20
  ExtBase = 24
  ExtPages = 4
  Segments <- Headers
  TopImages = TRUE
INVARIANT
  HeapClearOfStack
