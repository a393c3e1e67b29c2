CONSTANTS
  Keys <- FourKeys
  Orders <- BothOrders
  StartsWith <- Prefixed
  None = None
  Limit = 2
  MaxWrites = 1
SPECIFICATION Spec
INVARIANTS TypeOK YieldsTheSnapshot FindsAll LimitIsExact
CHECK_DEADLOCK FALSE
