CONSTANTS
  Default = default
  None = None
  Idx = idx
  Unknown = unknown
  Keys = {1, 2}
  CfNames <- MCCfNames
  Sessions <- MCTxnSessions
  MaxKeys = 2
  MaxWrites = 2
SPECIFICATION Spec
INVARIANT CallbackReachesDatabase
CHECK_DEADLOCK FALSE
