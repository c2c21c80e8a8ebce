SPECIFICATION PoolFairSpec

CONSTANTS
  NoResult = NoResult
  Replicas <- TwoAndOne
  Concurrency = 2
  Batch = 2
  MaxExits = 1
  MaxKills = 1

INVARIANT RunsSound
PROPERTY PortsShared
PROPERTY RunsEnd

\* Runs end.
CHECK_DEADLOCK FALSE
