SPECIFICATION Spec
CONSTANTS
  P = p
  Q = q
  R = r
  S = s
  Nodes = {p, q, r, s}
  InRange <- MCRange
  Met <- MCMet
  Origin <- MCOrigin
  Wanted <- MCWanted
  Depth <- MCDepth
  Everyone = Everyone
  Nobody = Nobody
  Deep = d
  Shallow = e
  Ask = b
  Hello = h
  Together <- MCTogether
  Requests = {d, e, b, h}
INVARIANTS
  TypeOK
  DiscoveryStaysNear
  CirclesAreOfOverlaps
CHECK_DEADLOCK FALSE
