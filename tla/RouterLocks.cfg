CONSTANTS
  Workers = {w1, w2}
  Builders = {b1, b2}
  Free = Free
  MaxDepth = 2
SPECIFICATION LocksFairSpec
INVARIANTS LocksTypeOK NoDeadlock
PROPERTY CallsReturn
CHECK_DEADLOCK FALSE
