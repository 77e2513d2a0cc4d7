SPECIFICATION FairSpec
CONSTANTS
  MaxKex = 2
  MaxTraffic = 1
  Traffic = {"message", "control", "keepalive", "grant"}
  Stalling = {"client"}
INVARIANTS SidesInStep DeadlineTracksRekey
PROPERTIES RekeyEnds
CHECK_DEADLOCK FALSE
