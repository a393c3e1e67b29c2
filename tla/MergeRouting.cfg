CONSTANTS
  list = list
  set = set
  lists = lists
  general = general
  renamed = renamed
  None = None
  Header = Header
  Elements = {alice, bob}
  Used = {"Add", "Union"}
  Keys = {list, set}
  Utf8Keys = {list, set}
  Holds <- Kinds
  Patterns <- RoutePatterns
  HandlerOf <- Handlers
  Matches <- Matching
  Conflicts <- ClashingPatterns
  MaxWrites = 3
SPECIFICATION Spec
SYMMETRY ElementSymmetry
INVARIANTS TypeOK CompactionKeepsElements RoutesPaired
CHECK_DEADLOCK FALSE
