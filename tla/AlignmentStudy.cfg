SPECIFICATION FairSpec

CONSTANTS
  None = None
  Changed = Changed
  Records <- TwoSources
  SeedBudget = 2
  MinCohort = 1
  Calibrated <- OneArm
  Plain <- PlainArm
  Floors = {floor}
  Ports <- TwoPorts
  Models = {m1, m2}
  Allocations <- OneAllocation
  FirstModel = m1
  MaxInvocations = 3
  MaxFailures = 2
  MaxFaults = 1

INVARIANT StudySound
PROPERTY FitsFrozen
PROPERTY DriverEnds

\* After the last invocation nothing happens.
CHECK_DEADLOCK FALSE
