CONSTANTS
  c1 = c1
  c2 = c2
  c3 = c3
  k1 = k1
  k2 = k2
  Clients = {c1, c2}
  Keys = {k1, k2}
  CfOf <- TwoCfs
  cf_names <- Opened
  Isolations <- SnapshotOnly
  Policies <- TwoAttempts
  MaxOps = 3
  MaxSeq = 0
SPECIFICATION Spec
SYMMETRY ClientSymmetry
PROPERTY ReadSetValidated
CHECK_DEADLOCK FALSE
