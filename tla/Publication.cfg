SPECIFICATION PublicationSpec

CONSTANTS
  MaxRuns = 2
  MaxFaults = 2
  MaxOthers = 3
  Nothing = Nothing
  Batches <- ThreeBatches
  Repos = {"a"}
  Revisions <- TwoRevisions
  VersionOf <- OldThenNew
  MaxMoves = 1
  MaxFails = 1

INVARIANT TaggedIsComplete
INVARIANT EndsClean
PROPERTY TagsSafe
INVARIANT PublishedPure
INVARIANT RecordsHonest
PROPERTY WorkKept
PROPERTY BatchesEnd

\* Batches and publications end.
CHECK_DEADLOCK FALSE
