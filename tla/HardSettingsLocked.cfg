CONSTANTS
  Default = default
  None = None
  Idx = idx
  Unknown = unknown
  Keys = {1, 2}
  CfNames <- MCCfNames
  Sessions <- MCPlainSessions
  MaxKeys = 2
  MaxWrites = 2
SPECIFICATION Spec
INVARIANT HardSettingsOverrideProfiles
CHECK_DEADLOCK FALSE
