CONSTANTS
  short = short
  middle = middle
  long = long
  NumSockets = 3
  Command <- AllCommands
  NoCommand = NoCommand
  NoSocket = NoSocket
  Length <- AllLengths
  Overhead = 12
  BufferLen = 48
  MaxDatagram = 40
  Faults = {"lose", "tx", "rx"}
SPECIFICATION FairSpec
INVARIANTS TypeOK CountersAccount AnswersMatch
PROPERTIES TrueMeansAllReceived ImplementsExchange EveryCommandAnswered
CHECK_DEADLOCK FALSE
