SPECIFICATION FairSpec
CONSTANTS
  a = a
  b = b
  Conns = {a, b}
  Keys = {"k"}
  Passes <- MCPasses
  Constraints <- MCConstraints
  Ops <- MCOps
  MaxCalls = 2
  MaxAdds = 2
INVARIANTS LockHolds OkMeansDone
PROPERTIES KeyStays CallReturns
CHECK_DEADLOCK FALSE
