SPECIFICATION FairSpec
CONSTANTS
  Scenarios <- MCScenarios
  BufSize = 6
  MaxPreBanner = 2
  MaxNoise = 3
INVARIANTS Negotiated UnitsIntact GetAlong HashKnown
PROPERTIES HandshakeSettles
CHECK_DEADLOCK FALSE
