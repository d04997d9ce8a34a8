SPECIFICATION Spec
CONSTANTS
  Files <- MCFiles
  BYTE = 4
  WORD = 2
  BUFFER_SIZE = 6
  BANK = 8
  FLASH = 64
  DAMAGES = 1
  Both <- MCBoth
INVARIANTS
  TypeOK
  ChipHoldsFile
PROPERTY HostEnds
CHECK_DEADLOCK FALSE
