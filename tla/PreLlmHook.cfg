CONSTANTS
  None = None
  PoolNames = {"cheap", "coding"}
  Efforts = {"low", "high"}
  Models <- MCModels
  Skills = {1, 2, 3}
  ShortlistSize = 2
  MaxScore = 1
  Useful = 1
  Timeout = 2
  MaxRpc = 3
  MaxClock = 2
  MaxGen = 1
SPECIFICATION FairSpec
INVARIANTS TypeOK HitRestsOnOneRoster  CacheBreakIsEarned RequestsEndInTime
 
CHECK_DEADLOCK FALSE
