SPECIFICATION Spec
CONSTANTS
  None = None
  Setups <- Generation
  Cells = {"wrap", "full"}
  Primary = "wrap"
  Components = {"fridge", "door"}
  Edited = {"wrap", "calibrated"}
  MaxStages = 3
  MaxEdits = 1
  MaxFaults = 0
PROPERTY FullCovered
CHECK_DEADLOCK FALSE
