SPECIFICATION FairSpec
CONSTANTS
  MaxGsn = 3
  MaxBatches = 2
  MaxClaim = 2
  MaxInFlight = 1
  MaxCrashes = 1
  MaxRouterCrashes = 2
  MaxFrontierCrashes = 1
CHECK_DEADLOCK FALSE
INVARIANT PushesMatchLog
INVARIANT BesideRangesExact
PROPERTY FirstPushesInOrder
PROPERTY EveryReleasePushed
