CONSTANTS
  Default = default
  None = None
  Idx = idx
  Unknown = unknown
  Keys = {1, 2}
  CfNames <- MCCfNames
  Sessions <- MCSessions
  MaxKeys = 2
  MaxWrites = 2
SPECIFICATION Spec
INVARIANTS
  TypeOK
  NoneMeansAbsent
  AnswersMatchKeys
  EveryCfReachable
  LeftoverOnlyByStore
  LayersInOrder
  PathsAgree
CHECK_DEADLOCK FALSE
