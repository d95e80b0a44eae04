SPECIFICATION FairSpec
CONSTANTS
  Buses <- mcBuses
  MaxSlaves = 3
  MaxPduDatagram = 12
  MaxCalls = 2
  MaxFaults = 1
INVARIANTS TypeOK AssignmentWhole ConfiguredWhenOk PdoWhereMapped EndsForCause
PROPERTIES ConfigureEnds
CHECK_DEADLOCK FALSE
