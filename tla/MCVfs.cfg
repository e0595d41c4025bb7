SPECIFICATION Spec
CONSTANTS
  MaxPath = 8
  Names <- SmallNames
  Length <- SmallLength
  Clients = {shell}
  Shell = shell
  Fold <- SmallFold
  Asked <- SmallAsked
  Copies <- SmallCopies
  Values <- SmallValues
  MaxNodes = 6
INVARIANT
  MoveKeepsContents
