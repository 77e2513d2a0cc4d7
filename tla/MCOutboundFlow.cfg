CONSTANTS
  a = a
  b = b
  p = p
  q = q
  u = u
  Chan = {a, b}
  Producers = {p, q}
  Writers = {u}
  InitWindow = 1
  Cap = 1
  QueueCap = 1
  Watermark = 1
  MaxLen = 2
  MaxAsked = 3
  MaxKex = 1
  CallbackOps = {"data", "eof", "close"}
  TaskOps = {"eof", "close"}
  Granting = {a}
  PeerCloses = {a}
  StuckBy <- MCStuckBy
  Cancels = TRUE
SPECIFICATION FairSpec
INVARIANTS OutStreamIntact WindowsAgree AckMeansSent
PROPERTIES ProducerResolves OutPipe
