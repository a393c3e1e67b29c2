CONSTANTS
  live = live
  old = old
  None = None
  Cfs <- ThreeCfs
  DefaultCf = "default"
  SrcCfs <- SourceCfs
  Keys <- TwoKeys
  Values = {live, old}
  Filter <- Rewriting
  Sources <- SomeSources
  MaxCalls = 2
  MaxEdits = 1
SPECIFICATION Spec
INVARIANTS TypeOK OkIsOverlay PartialIsSafe AlarmOnlyByFilter
CHECK_DEADLOCK FALSE
