SPECIFICATION FairSpec

CONSTANTS
  a = a
  b = b
  front = front
  wrist = wrist
  depth = depth
  Idle = Idle
  None = None
  Raised = Raised
  Threads = {a, b}
  Times <- TwoEpisodes
  Start <- OneFile
  Datasets <- SomeDatasets
  Missing <- NoWrist
  Asks <- SomeAsks
  CacheSize = 2
  MaxAsks = 2
  MaxShort = 1

INVARIANT CacheSound
PROPERTY Implements
PROPERTY Answered

\* The number of requests is bounded.
CHECK_DEADLOCK FALSE
