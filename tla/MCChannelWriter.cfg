SPECIFICATION FairSpec
CONSTANTS
  t = t
  k = k
  l = l
  Tx = {t}
  Streams = {t}
  Calls = {k, l}
  MaxPacket = 1
  InitWindow = 0
  QueueCap = 1
  Windows = {2}
  MaxUpdates = 1
  Bytes = 1
  MaxPeeks = 1
INVARIANTS WakeupNotLost WriterStreamIntact
PROPERTIES NobodyStranded
CHECK_DEADLOCK FALSE
