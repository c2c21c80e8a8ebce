SPECIFICATION LabelsSpec
CONSTANTS
  None = None
  Labels = {"", "left", "right", "move", "lift"}
  Vocabulary = {"move"}
  Empty = ""
  Contrasting <- Sides
  Truth <- Annotated
  Extra <- Pilot
  Models = {"m1", "m2"}
  Replies <- Said4
  Limits = {None, 1}
  BatchSize = 2
  Workers = 2
  MaxRetries = 2
  MaxRuns = 2
  MaxFaults = 1
  References <- Annotations
  Predictions <- Written
  Similarity <- Alike
  Sure = 2
  Matchers = {1, 2}
  Whole = 420
  Tolerance = 2
  Overlap = 140
  Thresholds = {140, 280}
  SampleStep = 3
INVARIANT VerdictsTrue
INVARIANT WarmHonest
INVARIANT ScoresTrue
PROPERTY RulerFixed
PROPERTY RunsEnd

\* The number of runs is bounded, and an episode is scored once.
CHECK_DEADLOCK FALSE
