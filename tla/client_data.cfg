SPECIFICATION SumSpec
CONSTANTS
  Clients = {"m", "n"}
  CounterBits = 2
  MaxDrift = 1
  MaxTime = 2
  MaxStamps = 6
  MaxMerges = 1
  MbGroups = {"g", "h"}
  MbMoves = 2
  MbCalls = 1
  MbFaults = 1
INVARIANT StampsAreSound
INVARIANT StorageIsCurrent
INVARIANT SubscriptionIsMembership
INVARIANT QueriesMeanTheirGroups
PROPERTY RerunsSuffice
CHECK_DEADLOCK FALSE
