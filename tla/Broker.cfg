CONSTANTS
  o1 = o1
  o2 = o2
  l1 = l1
  NoOp = NoOp
  l2 = l2
  c1 = c1
  c2 = c2
  Leases = {l1}
  Ops = {o1, o2}
  Closers = {c1, c2}
  LeaseOf <- MCOneLease
  AsyncOps = {}
  MaxLeases = 1
  MaxOps = 2
  MaxTasks = 4
  InnerTask = FALSE
SPECIFICATION Spec
INVARIANTS TypeOK SlotCoversWork SlotHasOwner SlotHasLoop NoLostCancel ClosedIsQuiet
PROPERTIES  ImplementsService
CHECK_DEADLOCK FALSE
