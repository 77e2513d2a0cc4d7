SPECIFICATION FairSpec
CONSTANTS
  Sides = {"server", "client"}
  Intervals = {0, 2}
  Maxima = {0, 1}
  Inactivity = 3
  Handshake = 3
  Progress = 2
  MinBytes = 2
  Window = 3
  Grace = 1
  IdleSleep = 4
  Watermark = 1
  MaxLen = 2
  MaxCallback = 2
INVARIANTS FlushExact StallIsReal HandshakeBounded
PROPERTIES SilenceEnds
CHECK_DEADLOCK FALSE
