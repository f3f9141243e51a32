CONSTANTS
  o1 = o1
  o2 = o2
  l1 = l1
  NoOp = NoOp
  l2 = l2
  Leases = {l1}
  Ops = {o1, o2}
  Closers = {}
  LeaseOf <- MCOneLease
  AsyncOps = {o2}
  MaxLeases = 1
  MaxOps = 2
  MaxTasks = 4
  InnerTask = FALSE
SPECIFICATION Spec
INVARIANTS SlotNeverLeaks
CHECK_DEADLOCK FALSE
