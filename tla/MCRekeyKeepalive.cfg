SPECIFICATION Spec
CONSTANTS
  MaxKex = 1
  MaxTraffic = 1
  Traffic = {"keepalive"}
  Stalling = {}
INVARIANTS EveryPacketOpens
CHECK_DEADLOCK FALSE
