SPECIFICATION RewriteSpec
CONSTANTS
  NumShards = 2
  MaxRuns = 2
  MaxFaults = 2
  MaxEdits = 1
  PowerLoss = TRUE
  SyncWindow = FALSE
  Cameras <- FrontWrist
  DefaultCamera = 2
  BadTasks = {"", "tbd"}
  Shards <- TheShards
  Configs <- TheConfigs
  Selections = {{0, 1}, {0}}
  Labels <- TheLabels
  Phrasings <- ThePhrasings
  Shapes = {"", "bbox"}
INVARIANT Readable
INVARIANT Recoverable
PROPERTY StepsSafe
PROPERTY Implements
PROPERTY PendingResolved
INVARIANT RowsRight
PROPERTY OthersKept
