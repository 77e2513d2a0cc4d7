CONSTANTS
  Ends <- MCServer
  a = a
  b = b
  Chan = {a, b}
  WindowSize = 2
  Targets = {2}
  PendingCap = 2
  BufferSize = 1
  MaxLen = 1
  MaxBytes = 2
  WireCap = 1
  LocalCloses = {a}
  Readers = {a}
SPECIFICATION FairSpec
PROPERTIES HealthyChannelProgress ClosedChannelReleased
