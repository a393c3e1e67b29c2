CONSTANTS
  c1 = c1
  c2 = c2
  c3 = c3
  k1 = k1
  k2 = k2
  Clients = {c1, c2}
  Keys = {k1}
  CfOf <- OneCf
  cf_names <- Opened
  Isolations <- BothModes
  Policies <- AllPolicies
  MaxOps = 3
  MaxSeq = 0
SPECIFICATION FairSpec
INVARIANT RetryBudget
PROPERTIES WritesProtected Returns
CHECK_DEADLOCK FALSE
