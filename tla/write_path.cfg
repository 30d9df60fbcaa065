SPECIFICATION Spec
CONSTANTS
  a = a
  b = b
  m = m
  c1 = c1
  c2 = c2
  c3 = c3
  c4 = c4
  Actions = {a, b, m}
  Movers = {m, b}
  Calls = {c1, c2, c3, c4}
  MaxCallActions = 1
  MaxGsn = 3
  MaxBatches = 3
  MaxInFlight = 3
  MaxLost = 1
  MaxCrashes = 1
  MaxTreeCrashes = 0
  MaxRebuildFaults = 1
SYMMETRY CallSymmetry
CHECK_DEADLOCK FALSE
INVARIANT FrontierBelowOpenClaims
INVARIANT GsnsNeverReused
INVARIANT AckedStaysDurable
INVARIANT RetriesAccounted
INVARIANT CommittedInOrder
PROPERTY ImplementsFeed
