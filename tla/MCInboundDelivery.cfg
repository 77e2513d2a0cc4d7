CONSTANTS
  Ends <- MCEnds
  a = a
  b = b
  Chan = {a}
  WindowSize = 3
  Targets = {2}
  PendingCap = 3
  BufferSize = 1
  MaxLen = 2
  MaxBytes = 4
  WireCap = 2
  LocalCloses = {a}
  Readers = {a}
SPECIFICATION Spec
INVARIANTS StreamIntact BacklogHasReserve WindowHonest BacklogBounded
PROPERTIES InPipe
