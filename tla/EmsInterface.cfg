SPECIFICATION Spec
CONSTANTS
  CMD_QTY = 3
  CMD_SIZE = 2
  Char = {a, b}
  NUL = NUL
INVARIANTS
  TypeOK
  BuffersAreTerminated
  BuffersHoldLines
PROPERTIES
  ExecutingBufferIsStable
  RoomAgain
