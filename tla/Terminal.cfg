SPECIFICATION Spec
CONSTANTS
  Width = 3
  Height = 2
  MaxRow = 4
INVARIANT
  WritesInFrame
