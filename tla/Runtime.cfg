CONSTANTS
  r1 = r1
  r2 = r2
  c1 = c1
  c2 = c2
  k1 = k1
  k2 = k2
  Runtimes = {r1, r2}
  Calls = {c1, c2}
  AsyncCalls = {c2}
  Closers = {k1, k2}
  Placements <- MCPlacements
  MaxOps = 2
  InnerTask = TRUE
  BuiltinTimeout = TRUE
SPECIFICATION FairSpec
INVARIANTS TypeOK LeaseHasOwner UnloadCancels GaveUpIsCancelled
PROPERTIES NoAdmissionAfterClose  CallsReturn
CHECK_DEADLOCK FALSE
