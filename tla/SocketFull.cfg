CONSTANTS
  short = short
  middle = middle
  long = long
  NumSockets = 3
  Command <- AllCommands
  NoCommand = NoCommand
  NoSocket = NoSocket
  Length <- AllLengths
  Overhead = 12
  BufferLen = 48
  MaxDatagram = 40
  Faults = {}
SPECIFICATION Spec
INVARIANTS AlwaysSuccess
CHECK_DEADLOCK FALSE
