SPECIFICATION SumSpec
CONSTANTS
  Nobody = Nobody
  Invocations = {"i1", "i2"}
  MaxHostCalls = 2
  MaxInFlight = 1
  MaxRetries = 1
  MaxBad = 1
  Wire <- GuardWire
  DefaultLines = 2
  DefaultBytes = 2
  Destinations <- GuardUrls
  Cap = 1
  Sizes = {1, 2}
  MaxRequests = 2
  MaxChunks = 2
  MaxLines = 3
  MaxCalls = 3
  Files = {1, 2}
  Good = {"h1", "h2"}
  Retention = 1
  Starts <- DeployStarts
INVARIANT SessionKeepsWord
INVARIANT InvocationKeepsWord
INVARIANT DeploysKeepWord
CHECK_DEADLOCK FALSE
