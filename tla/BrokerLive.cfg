CONSTANTS
  o1 = o1
  o2 = o2
  l1 = l1
  l2 = l2
  NoOp = NoOp
  c1 = c1
  Leases = {l1, l2}
  Ops = {o1, o2}
  Closers = {c1}
  LeaseOf <- MCLeaseOf
  AsyncOps = {o2}
  MaxLeases = 1
  MaxOps = 1
  MaxTasks = 4
  InnerTask = TRUE
SPECIFICATION FairSpec
INVARIANTS Accounting
PROPERTIES SlotsReturn ShutdownReturns
CHECK_DEADLOCK FALSE
