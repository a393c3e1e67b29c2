CONSTANTS
  text = text
  blob = blob
  any = any
  None = None
  Cfs = {"app_cf", "raw_cf"}
  FilterKind <- TextAndBinary
  Keys = {text, blob}
  KeyBytes <- Bytes
  Utf8Keys = {text}
  Patterns <- OnlyAny
  Matches <- AnyMatches
  PrefixRoutes <- TwoPrefixes
  Handlers = {"remove", "change", "expire"}
  MaxTime = 1
  MaxWrites = 2
SPECIFICATION Spec
INVARIANT TypeOK
PROPERTIES LiveValuesKept
CHECK_DEADLOCK FALSE
