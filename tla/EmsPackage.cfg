SPECIFICATION RidSpec
CONSTANTS
  FIXED = 3
  FLEX = 3
  RID_BLOCKS = 2
  RID_QTY = 3
  RID_ROOM = 2
INVARIANTS
  RidTypeOK
  RingIsWindow
PROPERTY ImplementsOnce
