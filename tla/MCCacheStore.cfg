SPECIFICATION Spec
CONSTANTS
  p1 = p1
  p2 = p2
  Process = {p1, p2}
  Version = {"old", "new"}
  MaxName = 3
  Setups <- MCSetups
  RetainedGenerations = 2
  MaxTotalBytes = 3
  MaxFilesToScan = 64
  MaxFaults = 1
SYMMETRY Symmetry
INVARIANTS
  LoadFindsWhatStays
  RestingCacheIsBounded
  UncontestedCommitIsActive
PROPERTY
  ImplementsCache
