CONSTANTS
  w1 = w1
  w2 = w2
  w3 = w3
  Wrappers = {w1, w2, w3}
  KindOf <- OneOfEach
  MaxUses = 2
SPECIFICATION Spec
INVARIANTS TypeOK MisuseOnlyAfterFailedCommit EndOfNativeObject AllOrNothing
CHECK_DEADLOCK FALSE
