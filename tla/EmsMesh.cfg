SPECIFICATION Spec
CONSTANTS
  A = s
  B = r
  There = {m}
  Nodes = {s, a, r}
  Messages = {m, l}
  Source <- MCSource
  Target <- MCTarget
  Acks = {k, j}
  MOST <- MCMOST
  Forgetful = {s}
SYMMETRY Interchangeable
INVARIANTS
  TypeOK
  CirclesEnd
PROPERTY ImplementsExchange
CHECK_DEADLOCK FALSE
