SPECIFICATION FairSpec
CONSTANTS
  c1 = c1
  c2 = c2
  c3 = c3
  Calls = {c1, c2, c3}
  Replays = {c1}
  MaxSize = 1
  BatchMaxSize = 2
  BatchTimer = TRUE
  QueueMax = 2
  PoolSize = 2
  MaxInFlight = 2
  MaxPendingCalls = 2
  MaxTimeouts = 1
  MaxFailures = 1
  MaxGivenUp = 1
  MaxCrashes = 1
  MaxFaults = 2
CHECK_DEADLOCK FALSE
INVARIANT ClaimedInArrivalOrder
INVARIANT AnsweredOnce
INVARIANT LimitsHold
PROPERTY EveryCallAnswered
