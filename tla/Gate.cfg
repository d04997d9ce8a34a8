SPECIFICATION Spec
CONSTANTS
  Mobiles = {0, 1, 2}
  HISTORY_SIZE = 2
  INTERV_BEG = 2
  INTERV_END = 4
  WORD = 65536
  MaxTime = 12
  Nobody = Nobody
PROPERTIES
  LetInAfterWaiting
  NobodyWaitsForever
