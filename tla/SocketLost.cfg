CONSTANTS
  short = short
  middle = middle
  long = long
  NumSockets = 3
  Command <- SafeCommands
  NoCommand = NoCommand
  NoSocket = NoSocket
  Length <- SafeLengths
  Overhead = 12
  BufferLen = 48
  MaxDatagram = 40
  Faults = {"lose"}
SPECIFICATION FairSpec
PROPERTIES LostFrameNoticed
CHECK_DEADLOCK FALSE
