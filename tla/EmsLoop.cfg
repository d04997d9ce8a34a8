SPECIFICATION LoopSpec
CONSTANT NUMEVENTS = 32
INVARIANTS
  LoopTypeOK
  ExpiredHasEvent
PROPERTY TimersGoOn
