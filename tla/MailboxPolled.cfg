SPECIFICATION FairSpec
CONSTANTS
  Slave = {0, 1}
  Single = {0}
  Programs <- mcPrograms
  AlTarget = {"PreOperational", "SafeOperational"}
  Data = {"Init", "data"}
  Output = {"on", "off"}
  Message = {"m"}
  NoMessage = "no message"
  DataBits <- mcDataBits
  MaxCalls = 2
  MaxFaults = 0
PROPERTIES MailboxPolled
CHECK_DEADLOCK FALSE
