CONSTANTS
  w1 = w1
  w2 = w2
  w3 = w3
  Wrappers = {w1}
  KindOf <- OneBatch
  MaxUses = 2
SPECIFICATION Spec
INVARIANT BatchFreed
CHECK_DEADLOCK FALSE
