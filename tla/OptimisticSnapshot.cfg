CONSTANTS
  c1 = c1
  c2 = c2
  c3 = c3
  k1 = k1
  k2 = k2
  Clients = {c1, c2}
  Keys = {k1, k2}
  CfOf <- TwoCfs
  cf_names <- Opened
  Isolations <- SnapshotOnly
  Policies <- TwoAttempts
  MaxOps = 2
  MaxSeq = 1
SPECIFICATION Spec
SYMMETRY ClientSymmetry
INVARIANTS TypeOK CurrentOrNewer ConflictsPaidFor
PROPERTIES NoLostUpdate AtomicSpec
CHECK_DEADLOCK FALSE
