SPECIFICATION Spec
CONSTANTS
  NEIGHBORHOOD_SIZE = 2
  UID_TABLE_SIZE = 3
  NONE = 4
  Near = {a,b,c}
  Peers = {p, q, r, s}
  Names = {n}
  NoUid = NoUid
  NoName = NoName
SYMMETRY Interchangeable
INVARIANTS
  TypeOK
  OrderIsPermutation
  RoutesAreNamedRight
  LiveRoutesAreTrue
CHECK_DEADLOCK FALSE
