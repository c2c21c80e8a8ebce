SPECIFICATION PoolSpec

CONSTANTS
  NoResult = NoResult
  Replicas <- TwoAndOne
  Concurrency = 2
  Batch = 2
  MaxExits = 0
  MaxKills = 0

PROPERTY WaitsUntilAccepts

\* Runs end.
CHECK_DEADLOCK FALSE
