SPECIFICATION FairSpec
CONSTANTS
  Slave = {0, 1}
  Single = {0}
  Programs <- mcPrograms
  AlTarget = {"PreOperational", "SafeOperational"}
  Data = {"Init", "data"}
  Output = {"on", "off"}
  Message = {"m"}
  NoMessage = "no message"
  DataBits <- mcDataBits
  MaxCalls = 2
  MaxFaults = 1
INVARIANTS CallOkIsDone CycleTransferHolds
PROPERTIES OutputReaches
CHECK_DEADLOCK FALSE
