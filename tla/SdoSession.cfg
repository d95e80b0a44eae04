CONSTANTS
  Message <- SdoMessage
  NoMessage = NoMessage
  ReadTimeout = 2
  WriteTimeout = 1
  BufferFits = TRUE
  Missable = {"WriteRx", "ReadTx"}
  MaxCalls = 3
  CountLimit = 2
  StepLimit = 6
  Refusal = {"abort"}
  MaxQueue = 2
  MaxEmergencies = 1
SPECIFICATION SdoFairSpec
INVARIANTS OkIsOwnAnswer ActedOnce
PROPERTIES CallEnds
CHECK_DEADLOCK FALSE
