SPECIFICATION FairSpec
CONSTANTS
  StepLimit = 100000
  SiiTimeout = 100000
  Buses <- mcBuses
  MaxSlaves = 2
  MaxCalls = 3
  MaxFaults = 1
INVARIANTS TypeOK InfoIsOwn ReadyWhenComplete FailsWithCause
PROPERTIES InitEnds
CHECK_DEADLOCK FALSE
