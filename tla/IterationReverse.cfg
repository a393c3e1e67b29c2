CONSTANTS
  Keys <- FourKeys
  Orders <- BothOrders
  StartsWith <- Prefixed
  None = None
  Limit = 2
  MaxWrites = 1
SPECIFICATION Spec
INVARIANT ReverseDescends
CHECK_DEADLOCK FALSE
