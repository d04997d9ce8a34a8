SPECIFICATION Spec
CONSTANTS
  SENDOUT_QTY = 2
  SENDOUT_BUFFER_SIZE = 60
  PACKAGE = 5
  IDENTIFIED = 16
  INTERMEDIATE = 16
  TIME_TO_SOLVE = 1
  SOLVING_ATTEMPTS = 2
  TIME_TO_SEND = 1
  SENDING_ATTEMPTS = 2
  FLEX = 3
  Random = {2}
  Peers = {u1, u2}
  Names = {n}
  NoUid = NoUid
  Lengths = {23, 24}
  MESSAGES = 2
INVARIANTS
  TypeOK
  UnionMatchesTime
  PackagesFit
  TransmissionsDiffer
PROPERTIES
  ImplementsDelivery
  SlotsAreFreed
