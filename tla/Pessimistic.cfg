CONSTANTS
  c1 = c1
  c2 = c2
  k1 = k1
  k2 = k2
  NoOne = NoOne
  Clients = {c1, c2}
  Keys = {k1, k2}
  CfOf <- TwoCfs
  cf_names <- Opened
  MaxOps = 2
  MaxWrites = 1
SPECIFICATION FairSpec
INVARIANTS TypeOK KnownIsLocked LocksMatchTransactions
PROPERTIES AtomicSpec Returns
CHECK_DEADLOCK FALSE
