CONSTANTS
  None = None
  PoolNames = {"cheap", "coding"}
  Efforts = {"low", "high"}
  Models <- MCModels
  Skills = {1}
  ShortlistSize = 2
  MaxScore = 1
  Useful = 2
  Timeout = 3
  MaxRpc = 3
  MaxClock = 3
  MaxGen = 1
SPECIFICATION Spec
INVARIANT AbsoluteBudget
CHECK_DEADLOCK FALSE
