SPECIFICATION EpisodeSpec

CONSTANTS
  Frames <- Uneven
  Times <- Outside
  MaxSpans = 3
  Origins = {"given", "import", "auto", "generate"}
  Realign = TRUE
  MinFraction = 50
  Scope = "exact"
  Fitted = 3
  Offsets <- BothWays
  Lengths <- EvenThirds
  GridStep = 1
  FitCost = 1
  LengthCost = 1
  Texts <- Repeating
  MinFit = 1
  MaxFit = 10
  MinFirst = 3
  MinGain = 3
  Parts = 60
  Ambiguous = "fail"
  None = None
  NoText = NoText
  a = a
  b = b
  camA = camA
  camB = camB
  camX = camX
  Step = 120
  Cases <- AllCases
  Cameras <- TwoCameras
  Describe = TRUE
  PerSheet = 3
  MaxLeaks = 1

INVARIANT RequestTrue
INVARIANT EpisodeSeen
INVARIANT SpansKept
INVARIANT ToolsHonest
PROPERTY SolverOptimal
PROPERTY EpisodeEnds

\* An episode that has its subtasks or failed stays so.
CHECK_DEADLOCK FALSE
