SPECIFICATION Spec
CONSTANTS
  None = None
  Setups <- Both
  Cells = {"wrap", "full"}
  Primary = "wrap"
  Components = {"fridge", "door"}
  Edited = {"wrap", "calibrated"}
  MaxStages = 3
  MaxEdits = 1
  MaxFaults = 1
INVARIANT RecordsHonest
PROPERTY ResumesSafely
PROPERTY StageEnds

\* The number of stages is bounded.
CHECK_DEADLOCK FALSE
