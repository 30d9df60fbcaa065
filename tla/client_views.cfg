SPECIFICATION SumSpec
CONSTANTS
  Nobody = Nobody
  CqListeners = {l1, l2}
  CqKept = 1
  CqWork = 3
  CqSubscribes = 3
  PrPeers = {"p", "q"}
  PrTargets = {"x", "y"}
  PrTtl = 1
  PrCap = 1
  PrNow = 3
  PrSends = 2
SYMMETRY SameListeners
INVARIANT ReadersAreCurrent
INVARIANT SeedIsComplete
INVARIANT CachedQueriesAreCurrent
INVARIANT RowReadsAreTrue
INVARIANT PresenceIsCurrent
INVARIANT ConflictsResolve
INVARIANT DraftsCompose
CHECK_DEADLOCK FALSE
