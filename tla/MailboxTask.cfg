CONSTANTS
  m1 = m1
  m2 = m2
  Message <- MCMessage
  NoMessage = NoMessage
  ReadTimeout = 2
  WriteTimeout = 1
  BufferFits = TRUE
  Missable = {"ReadRxStatus", "ReadTxStatus", "WriteRx", "ReadTx", "WriteActivation", "ReadPdiControl"}
SPECIFICATION FairSpec
INVARIANTS TypeOK ReadOutcome WriteOutcome
PROPERTIES WrittenWhole TaskEnds
