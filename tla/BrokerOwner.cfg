CONSTANTS
  t1 = t1
  t2 = t2
  r1 = r1
  r2 = r2
  NoThread = NoThread
  Threads = {t1, t2}
  Runtimes = {r1, r2}
  Shipments <- MCShipments
  MaxCalls = 3
SPECIFICATION FairSpec
INVARIANTS OneOwner DriftIsRefused 
PROPERTIES CallsComeBack
CHECK_DEADLOCK FALSE
