SPECIFICATION Spec
CONSTANTS
  Datasets = {1}
  Episodes = {0, 1, 2}
  ShardOf <- TwoShards
  LastBoundary = 2
  Requests <- SomeRequests
  Parallel = TRUE
  EmitPlan = TRUE
  SkipValidation = TRUE
  LimitPercent = 60
  SharedStaging = FALSE
  MaxRuns = 3
  MaxFaults = 1
INVARIANT RunsApart
INVARIANT PublishedWhole
PROPERTY RejectedKeepRows
CHECK_DEADLOCK FALSE
