SPECIFICATION Spec
CONSTANTS
  NEIGHBORHOOD_SIZE = 2
  NEIGHBORHOOD_HEAD_SIZE = 2
  NEIGHBOR_GOOD_TILL = 1
  NONE = 4
  Near = {1, 2, 3, 5}
INVARIANTS
  TypeOK
  ListsAreSound
  HeardIsFound
PROPERTY RegisteredIsFound
CHECK_DEADLOCK FALSE
