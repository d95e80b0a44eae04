SPECIFICATION FairSpec
CONSTANTS
  Buses <- mcBuses
  Deviations <- mcDeviations
  MaxSlaves = 3
  Rounds = 8
  DriftMin = 3
  DriftBack = 2
  Target = 50
  TimeModulus = 128
  Gap = 1
  StepLimit = 60
  MaxCalls = 2
  MaxFaults = 1
INVARIANTS TypeOK MeasuredRight FailsForCause
PROPERTIES DcEnds
CHECK_DEADLOCK FALSE
