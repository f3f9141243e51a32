CONSTANTS
  p = p
  q = q
  Names <- MCNames
  Bare <- MCBare
  Paths = {p, q}
  Lists <- MCLists
  Dirs = {1, 2, 3}
  FileIds = {1, 2, 3}
  Trees <- MCTrees
  Pieces = {"a", "b"}
  MaxRaw = 3
  MaxTotal = 5
  MaxChanges = 2
SPECIFICATION Spec
INVARIANTS  OnlyWinners
CHECK_DEADLOCK FALSE
