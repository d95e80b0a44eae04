CONSTANTS
  s1 = s1
  s2 = s2
  Slave <- MCSlave
  Single <- MCSingle
  AlTarget = {"PreOperational", "SafeOperational"}
  PreOpTimeout = 1
  SafeOpOpTimeout = 1
  BackToInitTimeout = 1
  BackToSafeOpTimeout = 0
  Factor = 1
  MaxFaults = 1
SPECIFICATION FairSpec
INVARIANTS TypeOK CompleteMeansReached WritesPrepared
PROPERTIES TransferEnds
CHECK_DEADLOCK FALSE
