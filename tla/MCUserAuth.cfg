SPECIFICATION FairSpec
CONSTANTS
  Users = {"u", "v"}
  Keys = {"k", "l"}
  OwnKeys = {"k"}
  Peers = {"russh", "any"}
  MaxCalls = 2
  MaxPackets = 5
  MaxRounds = 1
  MaxUnasked = 1
  Proceed <- MCProceed
  Deferred = TRUE
INVARIANTS CreditedToItsUser CompressionInStep ResultOfOwnCall
PROPERTIES CallReturns
CHECK_DEADLOCK FALSE
