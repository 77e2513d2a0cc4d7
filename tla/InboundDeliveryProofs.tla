----------------------- MODULE InboundDeliveryProofs -----------------------
(***************************************************************************)
(* TLAPS proofs about InboundDelivery, for every set of channels, every    *)
(* window, cap and buffer size, and every peer the constants describe.     *)
(***************************************************************************)
EXTENDS InboundDelivery, SequenceTheorems, TLAPS

-----------------------------------------------------------------------------
(* Type correctness, one lemma per part of the state that a group of actions *)
(* changes.                                                                  *)

\* Packets of the peer, and grants that reach it, keep every type.
LEMMA PeerTypes ==
  ASSUME TypeOK, NEW c \in Chan, PeerSend(c) \/ PeerRecvAdjust(c)
  PROVE  TypeOK'
  <1>1. ASSUME NEW kind \in {"data", "eof", "close", "request", "adjust"}, NEW n \in Nat,
               PeerPut(c, kind, n)
        PROVE  /\ wire' \in [Chan -> Seq(Item)] /\ sent' \in [Chan -> Nat]
               /\ EncTypeOK' /\ QueueTypeOK' /\ AppTypeOK' /\ CloseTypeOK' /\ LoopTypeOK'
    <2>1. [kind |-> kind, from |-> sent[c], to |-> sent[c] + n] \in Item
      BY DEF Item, TypeOK, PeerTypeOK
    <2>2. wire' \in [Chan -> Seq(Item)] /\ sent' \in [Chan -> Nat]
      BY <1>1, <2>1 DEF PeerPut, TypeOK, PeerTypeOK
    <2>3. EncTypeOK' BY <1>1 DEF PeerPut, TypeOK, EncTypeOK, encVars
    <2>4. QueueTypeOK' BY <1>1 DEF PeerPut, TypeOK, QueueTypeOK, queueVars
    <2>5. AppTypeOK' BY <1>1 DEF PeerPut, TypeOK, AppTypeOK, appVars
    <2>6. CloseTypeOK' /\ LoopTypeOK'
      BY <1>1 DEF PeerPut, TypeOK, CloseTypeOK, LoopTypeOK, closeVars
    <2>. QED BY <2>2, <2>3, <2>4, <2>5, <2>6
  <1>2. ASSUME NEW n \in 0..MaxLen, PeerSendData(c, n) PROVE TypeOK'
    BY <1>1, <1>2, ConstantsAssumption DEF PeerSendData, TypeOK, PeerTypeOK
  <1>3. CASE PeerSendEof(c)
    BY <1>1, <1>3 DEF PeerSendEof, TypeOK, PeerTypeOK
  <1>4. CASE PeerSendClose(c)
    BY <1>1, <1>4 DEF PeerSendClose, TypeOK, PeerTypeOK
  <1>5. ASSUME NEW kind \in PeerKinds, PeerSendControl(c, kind) PROVE TypeOK'
    BY <1>1, <1>5 DEF PeerSendControl, TypeOK, PeerTypeOK
  <1>6. CASE PeerRecvAdjust(c)
    <2>1. PeerTypeOK' BY <1>6 DEF PeerRecvAdjust, TypeOK, PeerTypeOK, EncTypeOK
    <2>2. EncTypeOK' BY <1>6 DEF PeerRecvAdjust, TypeOK, EncTypeOK
    <2>3. QueueTypeOK' BY <1>6 DEF PeerRecvAdjust, TypeOK, QueueTypeOK, queueVars
    <2>4. AppTypeOK' BY <1>6 DEF PeerRecvAdjust, TypeOK, AppTypeOK, appVars
    <2>5. CloseTypeOK' /\ LoopTypeOK'
      BY <1>6 DEF PeerRecvAdjust, TypeOK, CloseTypeOK, LoopTypeOK, closeVars
    <2>. QED BY <2>1, <2>2, <2>3, <2>4, <2>5 DEF TypeOK
  <1>. QED
    BY <1>2, <1>3, <1>4, <1>5, <1>6 DEF PeerSend

\* What deliver_inbound leaves behind has its type.
LEMMA DeliverTypes ==
  ASSUME TypeOK, NEW c \in Chan, NEW item \in Item, deliver_inbound(c, item)
  PROVE  /\ inbound' \in [Chan -> InboundQueue] /\ needs' \in [Chan -> Nat]
         /\ buf' \in [Chan -> Seq(Item)] /\ delivered' \in [Chan -> Nat]
         /\ taken' \in [Chan -> Nat]
  <1>1. Enqueued(inbound[c], item) \in InboundQueue
    BY DEF Enqueued, InboundQueue, TypeOK, QueueTypeOK, Item, byte_len
  <1>2. inbound' \in [Chan -> InboundQueue]
    BY <1>1 DEF deliver_inbound, TypeOK, QueueTypeOK
  <1>3. needs' \in [Chan -> Nat]
    BY DEF deliver_inbound, TypeOK, QueueTypeOK
  <1>4. buf' \in [Chan -> Seq(Item)]
    BY DEF deliver_inbound, TypeOK, AppTypeOK
  <1>5. delivered' \in [Chan -> Nat] /\ taken' \in [Chan -> Nat]
    BY DEF deliver_inbound, TypeOK, AppTypeOK, QueueTypeOK, Item
  <1>. QED BY <1>2, <1>3, <1>4, <1>5

\* A grant of maybe_grant_after_delivery keeps window, adjusts and target typed.
LEMMA GrantTypes ==
  ASSUME TypeOK, NEW c \in Chan, NEW win \in Int, NEW undelivered \in Int,
         maybe_grant_after_delivery(c, win, undelivered)
  PROVE  /\ window' \in [Chan -> Int] /\ adjusts' \in [Chan -> Int]
         /\ target' \in Targets \cup {WindowSize}
  <1>1. GrantTarget \in Int
    BY ConstantsAssumption DEF GrantTarget, TypeOK, EncTypeOK
  <1>2. window' \in [Chan -> Int] /\ adjusts' \in [Chan -> Int]
    BY <1>1 DEF maybe_grant_after_delivery, TypeOK, EncTypeOK
  <1>3. target' \in Targets \cup {WindowSize}
    BY DEF maybe_grant_after_delivery, TypeOK, EncTypeOK
  <1>. QED BY <1>2, <1>3

\* finalize_close leaves the channel's entries typed.
LEMMA FinalizeTypes ==
  ASSUME TypeOK, NEW c \in Chan, finalize_close(c)
  PROVE  /\ chan' \in [Chan -> BOOLEAN] /\ inbound' \in [Chan -> InboundQueue]
         /\ open' \in [Chan -> BOOLEAN] /\ parked' \in [Chan -> BOOLEAN]
  <1>1. EmptyQueue \in InboundQueue
    BY DEF EmptyQueue, InboundQueue
  <1>. QED
    BY <1>1 DEF finalize_close, discard_channel_outbound, TypeOK, EncTypeOK, QueueTypeOK,
                CloseTypeOK

\* Taking a packet off the wire yields an item and changes nothing else of the
\* peer's, the reserves' or the reader's state.
LEMMA ReceiveTypes ==
  ASSUME TypeOK, NEW c \in Chan, NEW kind, Receive(c, kind)
  PROVE  /\ Head(wire[c]) \in Item /\ PeerTypeOK'
         /\ fresh' \in [Chan -> Nat] /\ waiting' \in [Chan -> Nat] /\ held' \in [Chan -> Nat]
         /\ reader' \in [Chan -> BOOLEAN] /\ read' \in [Chan -> Nat] /\ kex' \in BOOLEAN
  <1>1. wire[c] \in Seq(Item) /\ wire[c] # <<>>
    BY DEF Receive, TypeOK, PeerTypeOK
  <1>2. Head(wire[c]) \in Item /\ Tail(wire[c]) \in Seq(Item)
    BY <1>1
  <1>3. PeerTypeOK'
    BY <1>2 DEF Receive, TypeOK, PeerTypeOK
  <1>4. /\ fresh' \in [Chan -> Nat] /\ waiting' \in [Chan -> Nat] /\ held' \in [Chan -> Nat]
        /\ reader' \in [Chan -> BOOLEAN] /\ read' \in [Chan -> Nat] /\ kex' \in BOOLEAN
    BY DEF Receive, TypeOK, QueueTypeOK, AppTypeOK, LoopTypeOK
  <1>. QED BY <1>2, <1>3, <1>4

\* The CHANNEL_* arms keep every type.
LEMMA RecvTypes ==
  ASSUME TypeOK, NEW c \in Chan, Recv(c)
  PROVE  TypeOK'
  <1>1. ASSUME NEW kind \in {"data", "eof", "request", "adjust"}, RecvIgnored(c, kind)
        PROVE TypeOK'
    <2>1. Receive(c, kind) BY <1>1 DEF RecvIgnored
    <2>2. EncTypeOK' /\ CloseTypeOK' 
      BY <1>1 DEF RecvIgnored, TypeOK, EncTypeOK, CloseTypeOK, encVars, closeVars
    <2>3. /\ inbound' \in [Chan -> InboundQueue] /\ needs' \in [Chan -> Nat]
          /\ buf' \in [Chan -> Seq(Item)] /\ delivered' \in [Chan -> Nat]
          /\ taken' \in [Chan -> Nat] /\ loop' = loop
      BY <1>1 DEF RecvIgnored, TypeOK, QueueTypeOK, AppTypeOK
    <2>. QED BY <2>1, <2>2, <2>3, ReceiveTypes DEF TypeOK, QueueTypeOK, AppTypeOK, LoopTypeOK
  <1>2. CASE RecvData(c)
    <2>. DEFINE item == Head(wire[c])
                win  == consume_recv_window(c, byte_len(item))
    <2>1. Receive(c, "data") /\ item \in Item BY <1>2, ReceiveTypes DEF RecvData
    <2>2. win \in Int /\ inbound[c].pending_bytes \in Int
      BY <2>1 DEF consume_recv_window, byte_len, Item, TypeOK, EncTypeOK, QueueTypeOK, InboundQueue
    <2>3. loop' = loop BY <1>2 DEF RecvData
    <2>4. CASE /\ deliver_inbound(c, item)
               /\ maybe_grant_after_delivery(c, win, inbound[c].pending_bytes)
               /\ UNCHANGED <<open, parked, closeVars>>
      <3>1. EncTypeOK' BY <2>2, <2>4, GrantTypes DEF TypeOK, EncTypeOK
      <3>2. CloseTypeOK' BY <2>4 DEF TypeOK, CloseTypeOK, closeVars
      <3>. QED
        BY <2>1, <2>3, <2>4, <3>1, <3>2, ReceiveTypes, DeliverTypes
           DEF TypeOK, QueueTypeOK, AppTypeOK, LoopTypeOK
    <2>5. CASE /\ deliver_inbound(c, item)
               /\ window' = [window EXCEPT ![c] = win]
               /\ UNCHANGED <<open, parked, adjusts, target, closeVars>>
      <3>1. EncTypeOK' BY <2>2, <2>5 DEF TypeOK, EncTypeOK
      <3>2. CloseTypeOK' BY <2>5 DEF TypeOK, CloseTypeOK, closeVars
      <3>. QED
        BY <2>1, <2>3, <2>5, <3>1, <3>2, ReceiveTypes, DeliverTypes
           DEF TypeOK, QueueTypeOK, AppTypeOK, LoopTypeOK
    <2>6. CASE /\ window' = [window EXCEPT ![c] = win] /\ finalize_close(c)
               /\ UNCHANGED <<adjusts, target, needs, taken, buf, delivered, callbacks, peerClose>>
      <3>1. EncTypeOK' BY <2>2, <2>6, FinalizeTypes DEF TypeOK, EncTypeOK
      <3>2. CloseTypeOK' BY <2>6, FinalizeTypes DEF TypeOK, CloseTypeOK
      <3>3. /\ needs' \in [Chan -> Nat] /\ taken' \in [Chan -> Nat]
            /\ buf' \in [Chan -> Seq(Item)] /\ delivered' \in [Chan -> Nat]
        BY <2>6 DEF TypeOK, QueueTypeOK, AppTypeOK
      <3>. QED
        BY <2>1, <2>3, <2>6, <3>1, <3>2, <3>3, ReceiveTypes, FinalizeTypes
           DEF TypeOK, QueueTypeOK, AppTypeOK, LoopTypeOK
    <2>. QED BY <1>2, <2>4, <2>5, <2>6 DEF RecvData
  <1>3. CASE RecvEof(c)
    <2>1. Receive(c, "eof") /\ Head(wire[c]) \in Item BY <1>3, ReceiveTypes DEF RecvEof
    <2>2. EncTypeOK' /\ CloseTypeOK' /\ loop' = loop
      BY <1>3 DEF RecvEof, TypeOK, EncTypeOK, CloseTypeOK, encVars, closeVars
    <2>. QED
      BY <1>3, <2>1, <2>2, ReceiveTypes, DeliverTypes
         DEF RecvEof, TypeOK, QueueTypeOK, AppTypeOK, LoopTypeOK
  <1>4. CASE RecvClose(c)
    <2>. DEFINE item == [kind |-> "close", from |-> taken[c], to |-> taken[c]]
    <2>1. item \in Item /\ Receive(c, "close")
      BY <1>4 DEF RecvClose, Item, TypeOK, QueueTypeOK
    <2>2. /\ peerClose' \in [Chan -> BOOLEAN] /\ loop' = loop
          /\ window' \in [Chan -> Int] /\ adjusts' \in [Chan -> Int]
          /\ target' \in Targets \cup {WindowSize}
      BY <1>4 DEF RecvClose, TypeOK, CloseTypeOK, EncTypeOK
    <2>3. CASE UNCHANGED <<open, parked, chan, callbacks, inbound, needs, taken, buf, delivered>>
      BY <2>1, <2>2, <2>3, ReceiveTypes
         DEF TypeOK, EncTypeOK, CloseTypeOK, QueueTypeOK, AppTypeOK, LoopTypeOK
    <2>4. CASE deliver_inbound(c, item) /\ discard_channel_outbound(c)
               /\ UNCHANGED <<chan, callbacks>>
      <3>1. EncTypeOK' BY <2>2, <2>4 DEF discard_channel_outbound, TypeOK, EncTypeOK
      <3>2. CloseTypeOK' BY <2>2, <2>4 DEF TypeOK, CloseTypeOK
      <3>. QED
        BY <2>1, <2>2, <2>4, <3>1, <3>2, ReceiveTypes, DeliverTypes
           DEF TypeOK, QueueTypeOK, AppTypeOK, LoopTypeOK
    <2>5. CASE /\ buf' = IF Delivery(c, item) = "Delivered"
                         THEN [buf EXCEPT ![c] = Append(@, item)] ELSE buf
               /\ callbacks' = [callbacks EXCEPT ![c] = @ + 1]
               /\ finalize_close(c) /\ UNCHANGED <<needs, taken, delivered>>
      <3>1. EncTypeOK' BY <2>2, <2>5, FinalizeTypes DEF TypeOK, EncTypeOK
      <3>2. CloseTypeOK' BY <2>2, <2>5, FinalizeTypes DEF TypeOK, CloseTypeOK
      <3>3. /\ needs' \in [Chan -> Nat] /\ taken' \in [Chan -> Nat]
            /\ buf' \in [Chan -> Seq(Item)] /\ delivered' \in [Chan -> Nat]
        BY <2>1, <2>5 DEF TypeOK, QueueTypeOK, AppTypeOK
      <3>. QED
        BY <2>1, <2>2, <2>5, <3>1, <3>2, <3>3, ReceiveTypes, FinalizeTypes
           DEF TypeOK, QueueTypeOK, AppTypeOK, LoopTypeOK
    <2>. QED BY <1>4, <2>3, <2>4, <2>5 DEF RecvClose
  <1>5. CASE RecvRequest(c)
    <2>1. Receive(c, "request") BY <1>5 DEF RecvRequest
    <2>2. EncTypeOK' /\ CloseTypeOK'
      BY <1>5 DEF RecvRequest, TypeOK, EncTypeOK, CloseTypeOK, encVars, closeVars
    <2>3. /\ inbound' \in [Chan -> InboundQueue] /\ needs' \in [Chan -> Nat]
          /\ buf' \in [Chan -> Seq(Item)] /\ delivered' \in [Chan -> Nat]
          /\ taken' \in [Chan -> Nat]
      BY <1>5 DEF RecvRequest, TypeOK, QueueTypeOK, AppTypeOK
    <2>4. loop' \in {<<"select">>} \cup ({"callback", "send"} \X Chan)
      BY <1>5 DEF RecvRequest, TypeOK, LoopTypeOK
    <2>. QED BY <2>1, <2>2, <2>3, <2>4, ReceiveTypes DEF TypeOK, QueueTypeOK, AppTypeOK, LoopTypeOK
  <1>6. CASE RecvWindowAdjust(c)
    <2>1. Receive(c, "adjust") BY <1>6 DEF RecvWindowAdjust
    <2>2. EncTypeOK' /\ CloseTypeOK'
      BY <1>6 DEF RecvWindowAdjust, discard_channel_outbound, TypeOK, EncTypeOK, CloseTypeOK, closeVars
    <2>3. [kind |-> "adjust", from |-> delivered[c], to |-> delivered[c]] \in Item
      BY DEF TypeOK, AppTypeOK, Item
    <2>4. buf' \in [Chan -> Seq(Item)]
      BY <1>6, <2>3 DEF RecvWindowAdjust, TypeOK, AppTypeOK
    <2>5. /\ inbound' \in [Chan -> InboundQueue] /\ needs' \in [Chan -> Nat]
          /\ delivered' \in [Chan -> Nat] /\ taken' \in [Chan -> Nat] /\ loop' = loop
      BY <1>6 DEF RecvWindowAdjust, TypeOK, QueueTypeOK, AppTypeOK
    <2>. QED BY <2>1, <2>2, <2>4, <2>5, ReceiveTypes DEF TypeOK, QueueTypeOK, AppTypeOK, LoopTypeOK
  <1>. QED
    BY <1>1, <1>2, <1>3, <1>4, <1>5, <1>6 DEF Recv

\* A permit or a failure taken from the reserves leaves their counters natural.
LEMMA TakeTypes ==
  ASSUME TypeOK, NEW c \in Chan, TakePermit(c) \/ TakeFailure(c)
  PROVE  fresh' \in [Chan -> Nat] /\ waiting' \in [Chan -> Nat] /\ held' \in [Chan -> Nat]
  BY DEF TakePermit, PermitReady, TakeFailure, ReserveFailed, TypeOK, QueueTypeOK

\* What pump_inbound does with the head of the queue before it looks at its kind.
LEMMA PumpSendTypes ==
  ASSUME TypeOK, NEW c \in Chan, PumpSend(c)
  PROVE  /\ Head(inbound[c].queue) \in Item /\ Tail(inbound[c].queue) \in Seq(Item)
         /\ PeerTypeOK' /\ AppTypeOK'
         /\ needs' \in [Chan -> Nat] /\ taken' \in [Chan -> Nat]
         /\ fresh' \in [Chan -> Nat] /\ waiting' \in [Chan -> Nat] /\ held' \in [Chan -> Nat]
         /\ peerClose' \in [Chan -> BOOLEAN] /\ kex' \in BOOLEAN
  <1>1. inbound[c].queue \in Seq(Item) /\ inbound[c].queue # <<>>
    BY DEF PumpSend, TypeOK, QueueTypeOK, InboundQueue
  <1>2. Head(inbound[c].queue) \in Item /\ Tail(inbound[c].queue) \in Seq(Item)
    BY <1>1
  <1>3. PeerTypeOK' BY DEF PumpSend, TypeOK, PeerTypeOK, peerVars
  <1>4. AppTypeOK' BY <1>2 DEF PumpSend, TypeOK, AppTypeOK, Item
  <1>5. /\ needs' \in [Chan -> Nat] /\ taken' \in [Chan -> Nat]
        /\ peerClose' \in [Chan -> BOOLEAN] /\ kex' \in BOOLEAN
    BY DEF PumpSend, TypeOK, QueueTypeOK, CloseTypeOK, LoopTypeOK
  <1>. QED BY <1>2, <1>3, <1>4, <1>5, TakeTypes DEF PumpSend

\* pump_inbound keeps every type, whichever way it ends.
LEMMA PumpTypes ==
  ASSUME TypeOK, NEW c \in Chan, Pump(c)
  PROVE  TypeOK'
  <1>1. CASE PumpItem(c)
    <2>. DEFINE item == Head(inbound[c].queue)
                left == inbound[c].pending_bytes - byte_len(item)
    <2>1. PumpSend(c) BY <1>1 DEF PumpItem
    <2>2. item \in Item /\ Tail(inbound[c].queue) \in Seq(Item) BY <2>1, PumpSendTypes
    <2>3. left \in Int /\ window[c] \in Int
      BY <2>2 DEF TypeOK, EncTypeOK, QueueTypeOK, InboundQueue, Item, byte_len
    <2>4. EncTypeOK'
      BY <1>1, <2>3, GrantTypes DEF PumpItem, TypeOK, EncTypeOK
    <2>5. inbound' \in [Chan -> InboundQueue]
      <3>1. Dequeued(inbound[c]) \in InboundQueue
        BY <2>2 DEF Dequeued, TypeOK, QueueTypeOK, InboundQueue, Item, byte_len
      <3>. QED BY <1>1, <3>1 DEF PumpItem, TypeOK, QueueTypeOK
    <2>6. chan' \in [Chan -> BOOLEAN] /\ callbacks' \in [Chan -> Nat]
      BY <1>1 DEF PumpItem, TypeOK, CloseTypeOK
    <2>7. loop' \in {<<"select">>} \cup ({"callback", "send"} \X Chan)
      BY <1>1 DEF PumpItem
    <2>. QED
      BY <2>1, <2>4, <2>5, <2>6, <2>7, PumpSendTypes DEF TypeOK, QueueTypeOK, CloseTypeOK, LoopTypeOK
  <1>2. CASE PumpClose(c)
    <2>1. PumpSend(c) /\ finalize_close(c) /\ loop' = loop BY <1>2 DEF PumpClose
    <2>2. EncTypeOK' BY <1>2, <2>1, FinalizeTypes DEF PumpClose, TypeOK, EncTypeOK
    <2>3. callbacks' \in [Chan -> Nat] BY <1>2 DEF PumpClose, TypeOK, CloseTypeOK
    <2>. QED
      BY <2>1, <2>2, <2>3, PumpSendTypes, FinalizeTypes DEF TypeOK, QueueTypeOK, CloseTypeOK, LoopTypeOK
  <1>3. CASE PumpReaderGone(c)
    <2>1. fresh' \in [Chan -> Nat] /\ waiting' \in [Chan -> Nat] /\ held' \in [Chan -> Nat]
      BY <1>3, TakeTypes DEF PumpReaderGone
    <2>2. PeerTypeOK' BY <1>3 DEF PumpReaderGone, TypeOK, PeerTypeOK, peerVars
    <2>3. AppTypeOK' BY <1>3 DEF PumpReaderGone, TypeOK, AppTypeOK, QueueTypeOK
    <2>4. LoopTypeOK' /\ needs' \in [Chan -> Nat] /\ taken' \in [Chan -> Nat]
      BY <1>3 DEF PumpReaderGone, TypeOK, LoopTypeOK, QueueTypeOK
    <2>5. \/ /\ callbacks' = [callbacks EXCEPT ![c] = @ + 1]
             /\ finalize_close(c)
          \/ /\ inbound' = [inbound EXCEPT ![c] = EmptyQueue]
             /\ UNCHANGED <<open, parked, chan, callbacks>>
      BY <1>3 DEF PumpReaderGone
    <2>6. EmptyQueue \in InboundQueue BY DEF EmptyQueue, InboundQueue
    <2>7. inbound' \in [Chan -> InboundQueue]
      BY <2>5, <2>6, FinalizeTypes DEF TypeOK, QueueTypeOK
    <2>8. EncTypeOK'
      <3>1. open' \in [Chan -> BOOLEAN] /\ parked' \in [Chan -> BOOLEAN]
        BY <2>5, FinalizeTypes DEF TypeOK, EncTypeOK
      <3>. QED BY <1>3, <3>1 DEF PumpReaderGone, TypeOK, EncTypeOK
    <2>9. CloseTypeOK'
      <3>1. chan' \in [Chan -> BOOLEAN] BY <2>5, FinalizeTypes DEF TypeOK, CloseTypeOK
      <3>2. callbacks' \in [Chan -> Nat] BY <2>5 DEF TypeOK, CloseTypeOK
      <3>. QED BY <1>3, <3>1, <3>2 DEF PumpReaderGone, TypeOK, CloseTypeOK
    <2>. QED BY <2>1, <2>2, <2>3, <2>4, <2>7, <2>8, <2>9 DEF TypeOK, QueueTypeOK
  <1>4. CASE PumpStale(c)
    <2>1. fresh' \in [Chan -> Nat] /\ waiting' \in [Chan -> Nat] /\ held' \in [Chan -> Nat]
      BY <1>4, TakeTypes DEF PumpStale
    <2>2. PeerTypeOK' /\ EncTypeOK'
      BY <1>4 DEF PumpStale, TypeOK, PeerTypeOK, EncTypeOK, peerVars, encVars
    <2>3. AppTypeOK' /\ CloseTypeOK' /\ LoopTypeOK'
      BY <1>4 DEF PumpStale, TypeOK, AppTypeOK, CloseTypeOK, LoopTypeOK, appVars, closeVars
    <2>4. QueueTypeOK' BY <1>4, <2>1 DEF PumpStale, TypeOK, QueueTypeOK
    <2>. QED BY <2>2, <2>3, <2>4 DEF TypeOK
  <1>5. CASE RegisterReserve(c)
    <2>2. PeerTypeOK' /\ EncTypeOK'
      BY <1>5 DEF RegisterReserve, TypeOK, PeerTypeOK, EncTypeOK, peerVars, encVars
    <2>3. AppTypeOK' /\ CloseTypeOK' /\ LoopTypeOK'
      BY <1>5 DEF RegisterReserve, TypeOK, AppTypeOK, CloseTypeOK, LoopTypeOK, appVars, closeVars
    <2>4. QueueTypeOK' BY <1>5 DEF RegisterReserve, TypeOK, QueueTypeOK
    <2>. QED BY <2>2, <2>3, <2>4 DEF TypeOK
  <1>. QED
    BY <1>1, <1>2, <1>3, <1>4, <1>5 DEF Pump

\* Local closes and the application's reads and drops keep every type.
LEMMA LocalTypes ==
  ASSUME TypeOK, NEW c \in Chan,
         \/ RequestSent(c) \/ PumpRearm(c) \/ LocalClose(c) \/ OutboundCapClose(c)
         \/ AppRead(c) \/ AppDrop(c)
  PROVE  TypeOK'
  <1>0. EmptyQueue \in InboundQueue BY DEF EmptyQueue, InboundQueue
  <1>1. CASE RequestSent(c)
    <2>1. [kind |-> "request", from |-> delivered[c], to |-> delivered[c]] \in Item
      BY DEF TypeOK, AppTypeOK, Item
    <2>2. PeerTypeOK' /\ EncTypeOK'
      BY <1>1 DEF RequestSent, TypeOK, PeerTypeOK, EncTypeOK, peerVars, encVars
    <2>3. QueueTypeOK' BY <1>1 DEF RequestSent, TypeOK, QueueTypeOK, queueVars
    <2>4. AppTypeOK' BY <1>1, <2>1 DEF RequestSent, TypeOK, AppTypeOK
    <2>5. CloseTypeOK' /\ LoopTypeOK'
      BY <1>1 DEF RequestSent, TypeOK, CloseTypeOK, LoopTypeOK, closeVars
    <2>. QED BY <2>2, <2>3, <2>4, <2>5 DEF TypeOK
  <1>2. CASE PumpRearm(c)
    <2>1. PeerTypeOK' /\ EncTypeOK'
      BY <1>2 DEF PumpRearm, TypeOK, PeerTypeOK, EncTypeOK, peerVars, encVars
    <2>2. AppTypeOK' /\ CloseTypeOK' /\ LoopTypeOK'
      BY <1>2 DEF PumpRearm, TypeOK, AppTypeOK, CloseTypeOK, LoopTypeOK, appVars, closeVars
    <2>3. inbound' \in [Chan -> InboundQueue]
      BY <1>0, <1>2 DEF PumpRearm, TypeOK, QueueTypeOK, InboundQueue
    <2>4. QueueTypeOK' BY <1>2, <2>3 DEF PumpRearm, TypeOK, QueueTypeOK
    <2>. QED BY <2>1, <2>2, <2>4 DEF TypeOK
  <1>3. CASE LocalClose(c)
    <2>1. PeerTypeOK' /\ AppTypeOK' /\ LoopTypeOK'
      BY <1>3 DEF LocalClose, TypeOK, PeerTypeOK, AppTypeOK, LoopTypeOK, peerVars, appVars
    <2>2. \/ parked' = [parked EXCEPT ![c] = TRUE] /\ UNCHANGED <<open, inbound, chan>>
          \/ finalize_close(c)
          \/ discard_channel_outbound(c) /\ UNCHANGED <<inbound, chan>>
      BY <1>3 DEF LocalClose
    <2>3. open' \in [Chan -> BOOLEAN] /\ parked' \in [Chan -> BOOLEAN]
      BY <2>2, FinalizeTypes DEF discard_channel_outbound, TypeOK, EncTypeOK
    <2>4. inbound' \in [Chan -> InboundQueue] /\ chan' \in [Chan -> BOOLEAN]
      BY <2>2, FinalizeTypes DEF TypeOK, QueueTypeOK, CloseTypeOK
    <2>5. EncTypeOK' BY <1>3, <2>3 DEF LocalClose, TypeOK, EncTypeOK
    <2>6. QueueTypeOK' /\ CloseTypeOK' BY <1>3, <2>4 DEF LocalClose, TypeOK, QueueTypeOK, CloseTypeOK
    <2>. QED BY <2>1, <2>5, <2>6 DEF TypeOK
  <1>4. CASE OutboundCapClose(c)
    <2>1. PeerTypeOK' /\ AppTypeOK' /\ LoopTypeOK'
      BY <1>4 DEF OutboundCapClose, TypeOK, PeerTypeOK, AppTypeOK, LoopTypeOK, peerVars, appVars
    <2>2. finalize_close(c) BY <1>4 DEF OutboundCapClose
    <2>3. EncTypeOK' BY <1>4, <2>2, FinalizeTypes DEF OutboundCapClose, TypeOK, EncTypeOK
    <2>4. QueueTypeOK' /\ CloseTypeOK'
      BY <1>4, <2>2, FinalizeTypes DEF OutboundCapClose, TypeOK, QueueTypeOK, CloseTypeOK
    <2>. QED BY <2>1, <2>3, <2>4 DEF TypeOK
  <1>5. CASE AppRead(c)
    <2>1. PeerTypeOK' /\ EncTypeOK'
      BY <1>5 DEF AppRead, TypeOK, PeerTypeOK, EncTypeOK, peerVars, encVars
    <2>2. Head(buf[c]) \in Item /\ Tail(buf[c]) \in Seq(Item)
      BY <1>5 DEF AppRead, TypeOK, AppTypeOK
    <2>3. AppTypeOK' BY <1>5, <2>2 DEF AppRead, TypeOK, AppTypeOK, Item
    <2>4. QueueTypeOK'
      <3>0. waiting \in [Chan -> Nat] /\ held \in [Chan -> Nat] BY DEF TypeOK, QueueTypeOK
      <3>1. \/ UNCHANGED <<waiting, held>>
            \/ /\ waiting[c] > 0 /\ waiting' = [waiting EXCEPT ![c] = @ - 1]
               /\ held' = [held EXCEPT ![c] = @ + 1]
        BY <1>5 DEF AppRead
      <3>2. waiting' \in [Chan -> Nat] /\ held' \in [Chan -> Nat] BY <3>0, <3>1
      <3>. QED BY <1>5, <3>1, <3>2 DEF AppRead, TypeOK, QueueTypeOK
    <2>5. CloseTypeOK' /\ LoopTypeOK'
      BY <1>5 DEF AppRead, TypeOK, CloseTypeOK, LoopTypeOK, closeVars
    <2>. QED BY <2>1, <2>3, <2>4, <2>5 DEF TypeOK
  <1>6. CASE AppDrop(c)
    <2>1. PeerTypeOK' /\ EncTypeOK'
      BY <1>6 DEF AppDrop, TypeOK, PeerTypeOK, EncTypeOK, peerVars, encVars
    <2>2. QueueTypeOK' BY <1>6 DEF AppDrop, TypeOK, QueueTypeOK, queueVars
    <2>3. AppTypeOK' BY <1>6 DEF AppDrop, TypeOK, AppTypeOK
    <2>4. CloseTypeOK' /\ LoopTypeOK'
      BY <1>6 DEF AppDrop, TypeOK, CloseTypeOK, LoopTypeOK, closeVars
    <2>. QED BY <2>1, <2>2, <2>3, <2>4 DEF TypeOK
  <1>. QED
    BY <1>1, <1>2, <1>3, <1>4, <1>5, <1>6

\* drain_needs_reserve and the key exchange flag keep every type.
LEMMA SessionTypes ==
  ASSUME TypeOK, drain_needs_reserve \/ KexStart \/ KexDone
  PROVE  TypeOK'
  <1>1. PeerTypeOK' /\ EncTypeOK'
    BY DEF drain_needs_reserve, KexStart, KexDone, TypeOK, PeerTypeOK, EncTypeOK, peerVars, encVars
  <1>2. AppTypeOK' /\ CloseTypeOK'
    BY DEF drain_needs_reserve, KexStart, KexDone, TypeOK, AppTypeOK, CloseTypeOK, appVars, closeVars
  <1>3. LoopTypeOK'
    BY DEF drain_needs_reserve, KexStart, KexDone, TypeOK, LoopTypeOK
  <1>4. CASE drain_needs_reserve
    <2>1. EmptyQueue \in InboundQueue BY DEF EmptyQueue, InboundQueue
    <2>2. inbound' \in [Chan -> InboundQueue] BY <1>4, <2>1 DEF drain_needs_reserve, TypeOK, QueueTypeOK
    <2>3. fresh' \in [Chan -> Nat] BY <1>4 DEF drain_needs_reserve, TypeOK, QueueTypeOK
    <2>4. QueueTypeOK' BY <1>4, <2>2, <2>3 DEF drain_needs_reserve, TypeOK, QueueTypeOK
    <2>. QED BY <1>1, <1>2, <1>3, <2>4 DEF TypeOK
  <1>5. CASE KexStart \/ KexDone
    <2>1. QueueTypeOK' BY <1>5 DEF KexStart, KexDone, TypeOK, QueueTypeOK, queueVars
    <2>. QED BY <1>1, <1>2, <1>3, <2>1 DEF TypeOK
  <1>. QED BY <1>4, <1>5

\* A session starts with every type.
LEMMA InitTypes == Init => TypeOK
  <1>. SUFFICES ASSUME Init PROVE TypeOK OBVIOUS
  <1>1. PeerTypeOK /\ EncTypeOK
    BY ConstantsAssumption DEF Init, PeerTypeOK, EncTypeOK
  <1>2. QueueTypeOK BY DEF Init, QueueTypeOK, EmptyQueue, InboundQueue
  <1>3. AppTypeOK BY DEF Init, AppTypeOK
  <1>4. CloseTypeOK BY DEF Init, CloseTypeOK
  <1>5. LoopTypeOK BY DEF Init, LoopTypeOK
  <1>. QED BY <1>1, <1>2, <1>3, <1>4, <1>5 DEF TypeOK

\* A step that changes nothing keeps every type.
LEMMA StutterTypes ==
  ASSUME TypeOK, UNCHANGED vars
  PROVE  TypeOK'
  <1>1. PeerTypeOK' /\ EncTypeOK'
    BY DEF vars, TypeOK, PeerTypeOK, EncTypeOK, peerVars, encVars
  <1>2. AppTypeOK' /\ CloseTypeOK'
    BY DEF vars, TypeOK, AppTypeOK, CloseTypeOK, appVars, closeVars
  <1>3. QueueTypeOK' /\ LoopTypeOK'
    BY DEF vars, TypeOK, QueueTypeOK, LoopTypeOK, queueVars
  <1>. QED BY <1>1, <1>2, <1>3 DEF TypeOK

\* TypeOK is inductive.
LEMMA NextTypes == TypeOK /\ [Next]_vars => TypeOK'
  BY PeerTypes, RecvTypes, PumpTypes, LocalTypes, SessionTypes, StutterTypes DEF Next

\* The session keeps the types of its state whatever the peer sends, whenever
\* permits arrive and however often channels are closed: no permit count, queue
\* or counter of pump_inbound and deliver_inbound is taken below zero.
THEOREM TypeCorrect == Spec => []TypeOK
  BY InitTypes, NextTypes, PTL DEF Spec
-----------------------------------------------------------------------------
(* One reserve per backlog. *)

\* The callback of pump_inbound is the only state in which a backlog has no
\* reserve, and outside it a queued item means `reserving`.  A queue is emptied
\* without its reserve only by finalize_close, after which the channel is gone and
\* deliver_inbound answers ChannelGone for ever.
OneReserve(c) ==
  /\ Reserves(c) <= 1
  /\ inbound[c].reserving => inbound[c].queue # <<>>
  /\ inbound[c].queue # <<>> => chan[c]
  /\ loop = <<"callback", c>> => Reserves(c) = 0 /\ ~inbound[c].reserving
  /\ inbound[c].queue # <<>> /\ loop # <<"callback", c>> =>
       inbound[c].reserving /\ Reserves(c) = 1
  /\ chan[c] /\ inbound[c].queue = <<>> => Reserves(c) = 0

ReserveInv == \A c \in Chan : OneReserve(c)
reserveVars == <<inbound, chan, needs, fresh, waiting, held, loop>>

\* OneReserve depends on nothing but the channel's own reserves and queue.
LEMMA ReserveFrame ==
  ASSUME NEW d \in Chan, OneReserve(d),
         inbound'[d] = inbound[d], chan'[d] = chan[d], Reserves(d)' = Reserves(d),
         loop' = loop \/ (loop # <<"callback", d>> /\ loop' # <<"callback", d>>)
  PROVE  OneReserve(d)'
  BY DEF OneReserve

\* deliver_inbound asks for a reserve exactly when it queues behind none.
LEMMA ReserveDeliver ==
  ASSUME TypeOK, ReserveInv, NEW c \in Chan, NEW item \in Item, Selecting,
         deliver_inbound(c, item), UNCHANGED <<chan, fresh, waiting, held, loop>>
  PROVE  ReserveInv'
  <1>. SUFFICES ASSUME NEW d \in Chan PROVE OneReserve(d)' BY DEF ReserveInv
  <1>0. OneReserve(d) /\ loop # <<"callback", d>> BY DEF ReserveInv, Selecting
  <1>1. CASE inbound' = inbound /\ needs' = needs
    BY <1>0, <1>1, ReserveFrame DEF Reserves
  <1>2. CASE /\ inbound' = [inbound EXCEPT ![c] = Enqueued(@, item)]
             /\ needs' = IF ~inbound[c].reserving THEN [needs EXCEPT ![c] = @ + 1] ELSE needs
             /\ Delivery(c, item) = "Queued"
             /\ ~(Backpressured(c) /\ Repeated(c, item))
    <2>1. CASE d # c
      BY <1>0, <1>2, <2>1, ReserveFrame DEF Reserves, TypeOK, QueueTypeOK
    <2>2. CASE d = c
      <3>1. inbound'[d] = Enqueued(inbound[d], item) BY <1>2, <2>2 DEF TypeOK, QueueTypeOK
      <3>2. inbound'[d].reserving /\ inbound'[d].queue # <<>>
        <4>1. inbound[d].queue \in Seq(Item) BY DEF TypeOK, QueueTypeOK, InboundQueue
        <4>2. Append(inbound[d].queue, item) # <<>> BY <4>1
        <4>. QED BY <3>1, <4>2 DEF Enqueued
      <3>3. CASE Backpressured(c)
        <4>1. inbound[d].reserving /\ Reserves(d) = 1 /\ chan[d]
          BY <1>0, <2>2, <3>3 DEF OneReserve, Backpressured
        <4>2. Reserves(d)' = 1 BY <1>2, <2>2, <4>1 DEF Reserves
        <4>. QED BY <1>0, <3>2, <4>1, <4>2 DEF OneReserve
      <3>4. CASE ~Backpressured(c)
        <4>1. chan[d] BY <1>2, <2>2, <3>4 DEF Delivery
        <4>2. inbound[d].queue = <<>> /\ ~inbound[d].reserving BY <2>2, <3>4 DEF Backpressured
        <4>3. Reserves(d) = 0 BY <1>0, <4>1, <4>2 DEF OneReserve
        <4>4. Reserves(d)' = 1
          BY <1>2, <2>2, <4>2, <4>3 DEF Reserves, TypeOK, QueueTypeOK
        <4>. QED BY <1>0, <3>2, <4>1, <4>4 DEF OneReserve
      <3>. QED BY <3>3, <3>4
    <2>. QED BY <2>1, <2>2
  <1>. QED BY <1>1, <1>2 DEF deliver_inbound

\* finalize_close leaves no backlog behind, and touches no reserve in flight.
LEMMA ReserveFinalize ==
  ASSUME TypeOK, ReserveInv, NEW c \in Chan, finalize_close(c), loop' = loop,
         \A d \in Chan : Reserves(d)' = Reserves(d) \/ (d = c /\ Reserves(d)' = 0)
  PROVE  ReserveInv'
  <1>. SUFFICES ASSUME NEW d \in Chan PROVE OneReserve(d)' BY DEF ReserveInv
  <1>0. OneReserve(d) BY DEF ReserveInv
  <1>1. CASE d # c
    BY <1>0, <1>1, ReserveFrame DEF finalize_close, TypeOK, QueueTypeOK, CloseTypeOK
  <1>2. CASE d = c
    <2>1. inbound'[d].queue = <<>> /\ inbound'[d].reserving = FALSE /\ ~chan'[d]
      BY <1>2 DEF finalize_close, EmptyQueue, TypeOK, QueueTypeOK, CloseTypeOK
    <2>. QED BY <1>0, <1>2, <2>1 DEF OneReserve
  <1>. QED BY <1>1, <1>2

\* The CHANNEL_* arms keep the reserve discipline.
LEMMA ReserveRecv ==
  ASSUME TypeOK, ReserveInv, NEW c \in Chan, Recv(c)
  PROVE  ReserveInv'
  <1>1. ASSUME NEW kind \in {"data", "eof", "request", "adjust"}, RecvIgnored(c, kind)
        PROVE ReserveInv'
    BY <1>1, ReserveFrame DEF RecvIgnored, Receive, ReserveInv, Reserves, closeVars
  <1>2. CASE RecvData(c)
    <2>1. /\ Selecting /\ Head(wire[c]) \in Item /\ UNCHANGED <<fresh, waiting, held, loop>>
      BY <1>2, ReceiveTypes DEF RecvData, Receive
    <2>2. CASE deliver_inbound(c, Head(wire[c])) /\ UNCHANGED closeVars
      BY <2>1, <2>2, ReserveDeliver DEF closeVars
    <2>3. CASE finalize_close(c) /\ UNCHANGED needs
      BY <2>1, <2>3, ReserveFinalize DEF Reserves
    <2>. QED BY <1>2, <2>2, <2>3 DEF RecvData, closeVars
  <1>3. CASE RecvEof(c)
    BY <1>3, ReceiveTypes, ReserveDeliver DEF RecvEof, Receive, closeVars
  <1>4. CASE RecvClose(c)
    <2>. DEFINE item == [kind |-> "close", from |-> taken[c], to |-> taken[c]]
    <2>1. Selecting /\ item \in Item /\ UNCHANGED <<fresh, waiting, held, loop>>
      BY <1>4 DEF RecvClose, Receive, Item, TypeOK, QueueTypeOK
    <2>2. CASE UNCHANGED <<chan, inbound, needs>>
      BY <2>1, <2>2, ReserveFrame DEF ReserveInv, Reserves
    <2>3. CASE deliver_inbound(c, item) /\ UNCHANGED chan
      BY <2>1, <2>3, ReserveDeliver
    <2>4. CASE finalize_close(c) /\ UNCHANGED needs
      BY <2>1, <2>4, ReserveFinalize DEF Reserves
    <2>. QED BY <1>4, <2>2, <2>3, <2>4 DEF RecvClose
  <1>5. CASE RecvRequest(c)
    <2>1. /\ UNCHANGED <<chan, inbound, needs, fresh, waiting, held>>
          /\ loop = <<"select">> /\ loop' \in {loop, <<"send", c>>}
      BY <1>5 DEF RecvRequest, Receive, closeVars, Selecting
    <2>. QED BY <2>1, ReserveFrame DEF ReserveInv, Reserves
  <1>6. CASE RecvWindowAdjust(c)
    BY <1>6, ReserveFrame DEF RecvWindowAdjust, Receive, ReserveInv, Reserves, closeVars
  <1>. QED BY <1>1, <1>2, <1>3, <1>4, <1>5, <1>6 DEF Recv

\* A resolved reserve_owned() is no longer in flight.
LEMMA ReserveTaken ==
  ASSUME TypeOK, ReserveInv, NEW c \in Chan, TakePermit(c) \/ TakeFailure(c), UNCHANGED needs
  PROVE  /\ Reserves(c) = 1 /\ Reserves(c)' = 0
         /\ \A d \in Chan \ {c} : Reserves(d)' = Reserves(d)
  <1>1. /\ needs \in [Chan -> Nat] /\ fresh \in [Chan -> Nat]
        /\ waiting \in [Chan -> Nat] /\ held \in [Chan -> Nat]
    BY DEF TypeOK, QueueTypeOK
  <1>2. Reserves(c) <= 1 BY DEF ReserveInv, OneReserve
  <1>3. CASE TakePermit(c)
    <2>1. UNCHANGED waiting BY <1>3 DEF TakePermit
    <2>2. \/ held[c] > 0 /\ held' = [held EXCEPT ![c] = @ - 1] /\ UNCHANGED fresh
          \/ fresh[c] > 0 /\ fresh' = [fresh EXCEPT ![c] = @ - 1] /\ UNCHANGED held
      BY <1>1, <1>3 DEF TakePermit, PermitReady
    <2>. QED BY <1>1, <1>2, <2>1, <2>2 DEF Reserves
  <1>4. CASE TakeFailure(c)
    <2>1. UNCHANGED held BY <1>4 DEF TakeFailure
    <2>2. \/ waiting[c] > 0 /\ waiting' = [waiting EXCEPT ![c] = @ - 1] /\ UNCHANGED fresh
          \/ fresh[c] > 0 /\ fresh' = [fresh EXCEPT ![c] = @ - 1] /\ UNCHANGED waiting
      BY <1>1, <1>4 DEF TakeFailure, ReserveFailed
    <2>. QED BY <1>1, <1>2, <2>1, <2>2 DEF Reserves
  <1>. QED BY <1>3, <1>4

\* pump_inbound uses its one reserve up and asks for the next only for a backlog.
LEMMA ReservePump ==
  ASSUME TypeOK, ReserveInv, NEW c \in Chan, Pump(c)
  PROVE  ReserveInv'
  <1>1. CASE PumpItem(c)
    <2>1. /\ Selecting /\ inbound[c].queue # <<>> /\ TakePermit(c) /\ UNCHANGED <<needs, chan>>
          /\ inbound' = [inbound EXCEPT ![c] = Dequeued(@)] /\ loop' = <<"callback", c>>
      BY <1>1 DEF PumpItem, PumpSend, Pumping
    <2>. SUFFICES ASSUME NEW d \in Chan PROVE OneReserve(d)' BY DEF ReserveInv
    <2>2. OneReserve(d) /\ loop = <<"select">> BY <2>1 DEF ReserveInv, Selecting
    <2>3. CASE d # c
      <3>1. inbound'[d] = inbound[d] /\ chan'[d] = chan[d]
        BY <2>1, <2>3 DEF TypeOK, QueueTypeOK
      <3>2. Reserves(d)' = Reserves(d) BY <2>1, <2>3, ReserveTaken
      <3>3. loop # <<"callback", d>> /\ loop' # <<"callback", d>> BY <2>1, <2>2, <2>3
      <3>. QED BY <2>2, <3>1, <3>2, <3>3, ReserveFrame
    <2>4. CASE d = c
      <3>1. inbound'[d].reserving = FALSE /\ chan'[d]
        BY <2>1, <2>2, <2>4 DEF Dequeued, OneReserve, TypeOK, QueueTypeOK
      <3>2. Reserves(d)' = 0 BY <2>1, <2>4, ReserveTaken
      <3>. QED BY <2>1, <2>4, <3>1, <3>2 DEF OneReserve
    <2>. QED BY <2>3, <2>4
  <1>2. CASE PumpClose(c)
    <2>1. TakePermit(c) /\ finalize_close(c) /\ UNCHANGED <<needs, loop>>
      BY <1>2 DEF PumpClose, PumpSend
    <2>. QED BY <2>1, ReserveTaken, ReserveFinalize
  <1>3. CASE PumpReaderGone(c)
    <2>1. TakeFailure(c) /\ UNCHANGED <<needs, loop>> /\ loop = <<"select">>
      BY <1>3 DEF PumpReaderGone, Pumping, Selecting
    <2>2. CASE finalize_close(c)
      BY <2>1, <2>2, ReserveTaken, ReserveFinalize
    <2>3. CASE inbound' = [inbound EXCEPT ![c] = EmptyQueue] /\ UNCHANGED chan
      <3>. SUFFICES ASSUME NEW d \in Chan PROVE OneReserve(d)' BY DEF ReserveInv
      <3>1. OneReserve(d) BY DEF ReserveInv
      <3>2. CASE d # c
        BY <2>1, <2>3, <3>1, <3>2, ReserveTaken, ReserveFrame DEF TypeOK, QueueTypeOK
      <3>3. CASE d = c
        <4>1. inbound'[d].queue = <<>> /\ inbound'[d].reserving = FALSE
          BY <2>3, <3>3 DEF EmptyQueue, TypeOK, QueueTypeOK
        <4>2. Reserves(d)' = 0 BY <2>1, <3>3, ReserveTaken
        <4>. QED BY <2>1, <4>1, <4>2 DEF OneReserve
      <3>. QED BY <3>2, <3>3
    <2>. QED BY <1>3, <2>2, <2>3 DEF PumpReaderGone
  <1>4. CASE PumpStale(c)
    <2>1. /\ TakePermit(c) \/ TakeFailure(c)
          /\ inbound[c].queue = <<>> /\ loop = <<"select">>
          /\ UNCHANGED <<needs, inbound, chan, loop>>
      BY <1>4 DEF PumpStale, Pumping, Selecting, closeVars
    <2>. SUFFICES ASSUME NEW d \in Chan PROVE OneReserve(d)' BY DEF ReserveInv
    <2>2. OneReserve(d) BY DEF ReserveInv
    <2>3. CASE d # c
      BY <2>1, <2>2, <2>3, ReserveTaken, ReserveFrame
    <2>4. CASE d = c
      <3>1. Reserves(d)' = 0 BY <2>1, <2>4, ReserveTaken
      <3>. QED BY <2>1, <2>2, <2>4, <3>1 DEF OneReserve
    <2>. QED BY <2>3, <2>4
  <1>5. CASE RegisterReserve(c)
    <2>1. /\ needs \in [Chan -> Nat] /\ fresh \in [Chan -> Nat]
          /\ waiting \in [Chan -> Nat] /\ held \in [Chan -> Nat]
      BY DEF TypeOK, QueueTypeOK
    <2>2. \A d \in Chan : Reserves(d)' = Reserves(d)
      BY <1>5, <2>1 DEF RegisterReserve, Reserves
    <2>. QED BY <1>5, <2>2, ReserveFrame DEF RegisterReserve, ReserveInv, closeVars
  <1>. QED BY <1>1, <1>2, <1>3, <1>4, <1>5 DEF Pump

\* Local closes, reads and drops keep the reserve discipline.
LEMMA ReserveLocal ==
  ASSUME TypeOK, ReserveInv, NEW c \in Chan,
         \/ RequestSent(c) \/ PumpRearm(c) \/ LocalClose(c) \/ OutboundCapClose(c)
         \/ AppRead(c) \/ AppDrop(c)
  PROVE  ReserveInv'
  <1>1. CASE RequestSent(c)
    <2>1. /\ UNCHANGED <<inbound, chan, needs, fresh, waiting, held>>
          /\ loop = <<"send", c>> /\ loop' = <<"select">>
      BY <1>1 DEF RequestSent, queueVars, closeVars
    <2>. QED BY <2>1, ReserveFrame DEF ReserveInv, Reserves
  <1>2. CASE PumpRearm(c)
    <2>1. /\ loop = <<"callback", c>> /\ loop' = <<"select">>
          /\ UNCHANGED <<chan, fresh, waiting, held>>
      BY <1>2 DEF PumpRearm, closeVars
    <2>. SUFFICES ASSUME NEW d \in Chan PROVE OneReserve(d)' BY DEF ReserveInv
    <2>2. OneReserve(d) BY DEF ReserveInv
    <2>3. CASE d # c
      <3>1. inbound'[d] = inbound[d] /\ needs'[d] = needs[d]
        BY <1>2, <2>3 DEF PumpRearm, TypeOK, QueueTypeOK
      <3>2. loop # <<"callback", d>> /\ loop' # <<"callback", d>> BY <2>1, <2>3
      <3>. QED BY <2>1, <2>2, <3>1, <3>2, ReserveFrame DEF Reserves
    <2>4. CASE d = c
      <3>1. Reserves(d) = 0 /\ (inbound[d].queue # <<>> => chan[d])
        BY <2>1, <2>2, <2>4 DEF OneReserve
      <3>2. CASE inbound[c].queue # <<>>
        <4>1. inbound'[d].queue # <<>> /\ inbound'[d].reserving
          BY <1>2, <2>4, <3>2 DEF PumpRearm, TypeOK, QueueTypeOK, InboundQueue
        <4>2. Reserves(d)' = 1
          BY <1>2, <2>1, <2>4, <3>1, <3>2 DEF PumpRearm, Reserves, TypeOK, QueueTypeOK
        <4>. QED BY <2>1, <2>4, <3>1, <3>2, <4>1, <4>2 DEF OneReserve
      <3>3. CASE inbound[c].queue = <<>>
        <4>1. inbound'[d].queue = <<>> /\ inbound'[d].reserving = FALSE
          BY <1>2, <2>4, <3>3 DEF PumpRearm, EmptyQueue, TypeOK, QueueTypeOK
        <4>2. Reserves(d)' = 0 BY <1>2, <2>1, <3>1, <3>3 DEF PumpRearm, Reserves
        <4>. QED BY <2>1, <4>1, <4>2 DEF OneReserve
      <3>. QED BY <3>2, <3>3
    <2>. QED BY <2>3, <2>4
  <1>3. CASE LocalClose(c)
    <2>1. UNCHANGED <<needs, fresh, waiting, held, loop>> BY <1>3 DEF LocalClose
    <2>2. CASE UNCHANGED <<inbound, chan>>
      BY <2>1, <2>2, ReserveFrame DEF ReserveInv, Reserves
    <2>3. CASE finalize_close(c)
      BY <2>1, <2>3, ReserveFinalize DEF Reserves
    <2>. QED BY <1>3, <2>2, <2>3 DEF LocalClose
  <1>4. CASE OutboundCapClose(c)
    BY <1>4, ReserveFinalize DEF OutboundCapClose, Reserves
  <1>5. CASE AppRead(c)
    <2>1. /\ needs \in [Chan -> Nat] /\ fresh \in [Chan -> Nat]
          /\ waiting \in [Chan -> Nat] /\ held \in [Chan -> Nat]
      BY DEF TypeOK, QueueTypeOK
    <2>2. /\ UNCHANGED <<inbound, chan, needs, fresh, loop>>
          /\ \/ UNCHANGED <<waiting, held>>
             \/ /\ waiting' = [waiting EXCEPT ![c] = @ - 1]
                /\ held' = [held EXCEPT ![c] = @ + 1]
      BY <1>5 DEF AppRead, closeVars
    <2>3. \A d \in Chan : Reserves(d)' = Reserves(d) BY <2>1, <2>2 DEF Reserves
    <2>. QED BY <2>2, <2>3, ReserveFrame DEF ReserveInv
  <1>6. CASE AppDrop(c)
    BY <1>6, ReserveFrame DEF AppDrop, queueVars, closeVars, ReserveInv, Reserves
  <1>. QED BY <1>1, <1>2, <1>3, <1>4, <1>5, <1>6

\* drain_needs_reserve turns each request into one reserve_owned().
LEMMA ReserveDrain ==
  ASSUME TypeOK, ReserveInv, drain_needs_reserve
  PROVE  ReserveInv'
  <1>. SUFFICES ASSUME NEW d \in Chan PROVE OneReserve(d)' BY DEF ReserveInv
  <1>1. /\ OneReserve(d) /\ loop = <<"select">> /\ UNCHANGED <<loop, chan, waiting, held>>
    BY DEF ReserveInv, drain_needs_reserve, Selecting, closeVars
  <1>2. /\ needs \in [Chan -> Nat] /\ fresh \in [Chan -> Nat]
        /\ waiting \in [Chan -> Nat] /\ held \in [Chan -> Nat]
    BY DEF TypeOK, QueueTypeOK
  <1>3. needs'[d] = 0 BY DEF drain_needs_reserve
  <1>4. CASE needs[d] > 0 /\ inbound[d].queue # <<>>
    <2>1. inbound[d].reserving /\ chan[d] BY <1>1, <1>4 DEF OneReserve
    <2>2. inbound'[d] = inbound[d] /\ fresh'[d] = fresh[d] + needs[d]
      BY <1>4, <2>1 DEF drain_needs_reserve
    <2>3. Reserves(d)' = Reserves(d) BY <1>1, <1>2, <1>3, <2>2 DEF Reserves
    <2>. QED BY <1>1, <2>2, <2>3, ReserveFrame
  <1>5. CASE ~(needs[d] > 0 /\ inbound[d].queue # <<>>)
    <2>1. inbound'[d] = inbound[d] /\ fresh'[d] = fresh[d] BY <1>5 DEF drain_needs_reserve
    <2>2. CASE needs[d] = 0
      <3>1. Reserves(d)' = Reserves(d) BY <1>1, <1>2, <1>3, <2>1, <2>2 DEF Reserves
      <3>. QED BY <1>1, <2>1, <3>1, ReserveFrame
    <2>3. CASE needs[d] > 0
      <3>1. inbound[d].queue = <<>> BY <1>5, <2>3
      <3>2. Reserves(d)' = 0 /\ ~chan[d]
        BY <1>1, <1>2, <1>3, <2>1, <2>3, <3>1 DEF Reserves, OneReserve
      <3>. QED BY <1>1, <2>1, <3>1, <3>2 DEF OneReserve
    <2>. QED BY <1>2, <2>2, <2>3
  <1>. QED BY <1>4, <1>5

\* The reserve discipline is inductive, given the types.
LEMMA ReserveNext == TypeOK /\ ReserveInv /\ [Next]_vars => ReserveInv'
  <1>. SUFFICES ASSUME TypeOK, ReserveInv, [Next]_vars PROVE ReserveInv' OBVIOUS
  <1>1. CASE UNCHANGED reserveVars
    BY <1>1, ReserveFrame DEF reserveVars, ReserveInv, Reserves
  <1>2. ASSUME NEW c \in Chan, PeerSend(c) \/ PeerRecvAdjust(c) PROVE UNCHANGED reserveVars
    BY <1>2 DEF PeerSend, PeerSendData, PeerSendEof, PeerSendClose, PeerSendControl, PeerPut,
                PeerRecvAdjust, reserveVars, queueVars, closeVars
  <1>3. KexStart \/ KexDone \/ UNCHANGED vars => UNCHANGED reserveVars
    BY DEF KexStart, KexDone, vars, reserveVars, queueVars, closeVars
  <1>. QED BY <1>1, <1>2, <1>3, ReserveRecv, ReservePump, ReserveLocal, ReserveDrain DEF Next

\* No channel starts with a backlog or a reserve.
LEMMA ReserveInit == Init => ReserveInv
  BY DEF Init, ReserveInv, OneReserve, Reserves, EmptyQueue

\* A backlog of deliver_inbound always has exactly one reserve_owned() on its way,
\* so it is never forgotten and never pumped twice at a time: for any number of
\* channels, buffer size and cap, whatever the peer and the applications do.
THEOREM BacklogAlwaysReserved == Spec => []BacklogHasReserve
  <1>1. ReserveInv => BacklogHasReserve
    BY DEF ReserveInv, OneReserve, BacklogHasReserve
  <1>. QED BY <1>1, InitTypes, NextTypes, ReserveInit, ReserveNext, PTL DEF Spec
-----------------------------------------------------------------------------
(* Items in a row. *)

\* Contiguous in a form that needs no induction over the sequence: every item
\* lies within the bounds and before the later ones, and together they are all
\* the bytes between the bounds.
Chain(s, lo, hi) ==
  /\ lo \in Nat /\ hi \in Nat /\ lo <= hi
  /\ Contiguous(s, lo, hi)
  /\ \A i \in 1 .. Len(s) : lo <= s[i].from /\ s[i].from <= s[i].to /\ s[i].to <= hi
  /\ \A i, j \in 1 .. Len(s) : i < j => s[i].to <= s[j].from
  /\ BytesIn(s) = lo .. hi - 1

LEMMA ItemType == \A x \in Item : x.from \in Nat /\ x.to \in Nat
  BY DEF Item

\* Nothing is in a row.
LEMMA ChainEmpty ==
  ASSUME NEW lo \in Nat
  PROVE  Chain(<<>>, lo, lo)
  <1>1. BytesIn(<<>>) = {} BY DEF BytesIn
  <1>2. lo .. lo - 1 = {} OBVIOUS
  <1>3. Contiguous(<<>>, lo, lo) BY DEF Contiguous
  <1>4. PICK s : s = <<>> OBVIOUS
  <1>5. /\ \A i \in 1 .. Len(s) : lo <= s[i].from /\ s[i].from <= s[i].to /\ s[i].to <= lo
        /\ \A i, j \in 1 .. Len(s) : i < j => s[i].to <= s[j].from
    BY <1>4
  <1>6. BytesIn(s) = lo .. lo - 1 BY <1>1, <1>2, <1>4
  <1>7. Chain(s, lo, lo) BY <1>3, <1>4, <1>5, <1>6 DEF Chain
  <1>. QED BY <1>4, <1>7

\* An item that starts where the row ends makes it longer.
LEMMA ChainAppend ==
  ASSUME NEW s \in Seq(Item), NEW lo, NEW hi, Chain(s, lo, hi), NEW x \in Item,
         x.from = hi, x.from <= x.to
  PROVE  /\ Append(s, x) \in Seq(Item) /\ Append(s, x) # <<>>
         /\ Chain(Append(s, x), lo, x.to)
         /\ Head(Append(s, x)) = IF s = <<>> THEN x ELSE Head(s)
  <1>. DEFINE t == Append(s, x)
              n == Len(s)
  <1>1. /\ t \in Seq(Item) /\ Len(t) = n + 1 /\ n \in Nat /\ t # <<>>
        /\ \A i \in 1 .. n : t[i] = s[i]
        /\ t[n + 1] = x
    BY AppendProperties
  <1>2. /\ lo \in Nat /\ hi \in Nat /\ lo <= hi /\ x.to \in Nat /\ x.from \in Nat
        /\ \A i \in 1 .. n : s[i] \in Item /\ s[i].from \in Nat /\ s[i].to \in Nat
        /\ \A i \in 1 .. n : lo <= s[i].from /\ s[i].from <= s[i].to /\ s[i].to <= hi
    BY ItemType DEF Chain
  <1>. HIDE DEF t
  <1>3. \A i \in 1 .. Len(t) : i \in 1 .. n \/ i = n + 1 BY <1>1
  <1>4. \A i \in 1 .. Len(t) : lo <= t[i].from /\ t[i].from <= t[i].to /\ t[i].to <= x.to
    <2>. TAKE i \in 1 .. Len(t)
    <2>1. CASE i \in 1 .. n
      <3>1. t[i] = s[i] /\ s[i].from \in Nat /\ s[i].to \in Nat BY <1>1, <1>2, <2>1
      <3>2. lo <= s[i].from /\ s[i].from <= s[i].to /\ s[i].to <= hi BY <1>2, <2>1
      <3>. QED BY <1>2, <3>1, <3>2
    <2>2. CASE i = n + 1 BY <1>1, <1>2, <2>2
    <2>. QED BY <1>3, <2>1, <2>2
  <1>5. \A i, j \in 1 .. Len(t) : i < j => t[i].to <= t[j].from
    <2>. TAKE i, j \in 1 .. Len(t)
    <2>. HAVE i < j
    <2>1. CASE j \in 1 .. n
      <3>1. i \in 1 .. n /\ t[i] = s[i] /\ t[j] = s[j] BY <1>1, <2>1
      <3>. QED BY <2>1, <3>1 DEF Chain
    <2>2. CASE j = n + 1
      <3>1. i \in 1 .. n BY <1>1, <2>2
      <3>2. t[i] = s[i] /\ t[j] = x BY <1>1, <2>2, <3>1
      <3>. QED BY <1>2, <3>1, <3>2
    <2>. QED BY <1>3, <2>1, <2>2
  <1>6. Contiguous(t, lo, x.to)
    <2>1. CASE s = <<>>
      <3>1. n = 0 /\ lo = hi BY <2>1 DEF Chain, Contiguous
      <3>. QED BY <1>1, <3>1 DEF Contiguous
    <2>2. CASE s # <<>>
      <3>1. n > 0 /\ s[1].from = lo /\ s[n].to = hi
            /\ \A i \in 1 .. n - 1 : s[i].to = s[i + 1].from
        BY <2>2, EmptySeq DEF Chain, Contiguous
      <3>2. t[1].from = lo /\ t[Len(t)].to = x.to BY <1>1, <3>1
      <3>3. ASSUME NEW i \in 1 .. Len(t) - 1 PROVE t[i].to = t[i + 1].from
        <4>1. CASE i = n BY <1>1, <3>1, <4>1
        <4>2. CASE i < n
          <5>1. i \in 1 .. n - 1 /\ i \in 1 .. n /\ i + 1 \in 1 .. n BY <1>1, <4>2
          <5>. QED BY <1>1, <3>1, <5>1
        <4>. QED BY <1>1, <4>1, <4>2
      <3>. QED BY <1>1, <3>2, <3>3 DEF Contiguous
    <2>. QED BY <2>1, <2>2
  <1>7. BytesIn(t) = BytesIn(s) \cup (x.from .. x.to - 1)
    <2>1. ASSUME NEW b \in BytesIn(t) PROVE b \in BytesIn(s) \/ b \in x.from .. x.to - 1
      <3>1. PICK i \in 1 .. Len(t) : b \in t[i].from .. t[i].to - 1 BY DEF BytesIn
      <3>2. CASE i \in 1 .. n BY <1>1, <3>1, <3>2 DEF BytesIn
      <3>3. CASE i = n + 1 BY <1>1, <3>1, <3>3
      <3>. QED BY <1>3, <3>2, <3>3
    <2>2. ASSUME NEW b \in BytesIn(s) PROVE b \in BytesIn(t)
      <3>1. PICK i \in 1 .. n : b \in s[i].from .. s[i].to - 1 BY DEF BytesIn
      <3>2. i \in 1 .. Len(t) /\ t[i] = s[i] BY <1>1
      <3>. QED BY <3>1, <3>2 DEF BytesIn
    <2>3. ASSUME NEW b \in x.from .. x.to - 1 PROVE b \in BytesIn(t)
      <3>1. n + 1 \in 1 .. Len(t) BY <1>1
      <3>. QED BY <1>1, <3>1 DEF BytesIn
    <2>. QED BY <2>1, <2>2, <2>3
  <1>8. BytesIn(t) = lo .. x.to - 1
    <2>1. BytesIn(s) = lo .. hi - 1 BY DEF Chain
    <2>2. (lo .. hi - 1) \cup (hi .. x.to - 1) = lo .. x.to - 1 BY <1>2
    <2>. QED BY <1>7, <2>1, <2>2
  <1>9. Head(t) = IF s = <<>> THEN x ELSE Head(s)
    <2>1. Head(t) = t[1] BY <1>1
    <2>2. CASE s = <<>>
      <3>1. n = 0 BY <2>2
      <3>. QED BY <1>1, <2>1, <2>2, <3>1
    <2>3. CASE s # <<>>
      <3>1. n > 0 /\ Head(s) = s[1] BY <2>3, EmptySeq
      <3>. QED BY <1>1, <2>1, <2>3, <3>1
    <2>. QED BY <2>2, <2>3
  <1>10. lo <= x.to BY <1>2
  <1>. QED BY <1>1, <1>2, <1>4, <1>5, <1>6, <1>8, <1>9, <1>10 DEF Chain, t

\* What is left of a row when its first item is taken.
LEMMA ChainTail ==
  ASSUME NEW s \in Seq(Item), s # <<>>, NEW lo, NEW hi, Chain(s, lo, hi)
  PROVE  /\ Head(s) \in Item /\ Head(s) = s[1] /\ Head(s).from = lo /\ lo <= Head(s).to
         /\ Head(s).to <= hi /\ Head(s).to \in Nat
         /\ Tail(s) \in Seq(Item) /\ Chain(Tail(s), Head(s).to, hi)
  <1>. DEFINE t == Tail(s)
              h == Head(s)
  <1>1. /\ t \in Seq(Item) /\ Len(t) = Len(s) - 1 /\ Len(s) \in Nat /\ Len(s) > 0
        /\ \A i \in 1 .. Len(t) : t[i] = s[i + 1]
        /\ h = s[1] /\ h \in Item
    BY EmptySeq, HeadTailProperties
  <1>2. /\ \A i \in 1 .. Len(s) : s[i] \in Item /\ s[i].from \in Nat /\ s[i].to \in Nat
        /\ 1 \in 1 .. Len(s) /\ Len(s) \in 1 .. Len(s)
    BY <1>1, ItemType
  <1>3. /\ lo \in Nat /\ hi \in Nat
        /\ s[1].from = lo /\ s[Len(s)].to = hi
        /\ \A i \in 1 .. Len(s) - 1 : s[i].to = s[i + 1].from
        /\ \A i \in 1 .. Len(s) : lo <= s[i].from /\ s[i].from <= s[i].to /\ s[i].to <= hi
        /\ \A i, j \in 1 .. Len(s) : i < j => s[i].to <= s[j].from
        /\ BytesIn(s) = lo .. hi - 1
    BY DEF Chain, Contiguous
  <1>. HIDE DEF t, h
  <1>4. /\ h.to \in Nat /\ h.to <= hi /\ h.from = lo /\ lo <= h.to BY <1>1, <1>2, <1>3
  <1>5. \A i \in 1 .. Len(t) : i + 1 \in 1 .. Len(s) /\ 1 < i + 1 BY <1>1
  <1>6. \A i \in 1 .. Len(t) : h.to <= t[i].from /\ t[i].from <= t[i].to /\ t[i].to <= hi
    BY <1>1, <1>2, <1>3, <1>5
  <1>7. \A i, j \in 1 .. Len(t) : i < j => t[i].to <= t[j].from
    <2>. TAKE i, j \in 1 .. Len(t)
    <2>. HAVE i < j
    <2>1. i + 1 < j + 1 /\ i + 1 \in 1 .. Len(s) /\ j + 1 \in 1 .. Len(s) BY <1>5, <1>1
    <2>. QED BY <2>1, <1>3, <1>1
  <1>8. Contiguous(t, h.to, hi)
    <2>1. CASE t = <<>>
      <3>1. Len(t) = 0 BY <2>1
      <3>2. Len(s) = 1 BY <3>1, <1>1
      <3>. QED BY <2>1, <3>1, <3>2, <1>1, <1>3 DEF Contiguous
    <2>2. CASE t # <<>>
      <3>1. Len(t) > 0 BY <2>2, <1>1, EmptySeq
      <3>2. t[1] = s[2] /\ t[Len(t)] = s[Len(s)] /\ 1 \in 1 .. Len(s) - 1 BY <3>1, <1>1
      <3>3. s[1].to = s[2].from BY <3>2, <1>3
      <3>4. ASSUME NEW i \in 1 .. Len(t) - 1 PROVE t[i].to = t[i + 1].from
        <4>1. i \in 1 .. Len(t) /\ i + 1 \in 1 .. Len(t) /\ i + 1 \in 1 .. Len(s) - 1 BY <1>1
        <4>2. t[i] = s[i + 1] /\ t[i + 1] = s[(i + 1) + 1] BY <4>1, <1>1
        <4>. QED BY <4>1, <4>2, <1>3
      <3>. QED BY <2>2, <3>2, <3>3, <3>4, <1>1, <1>3 DEF Contiguous
    <2>. QED BY <2>1, <2>2
  <1>9. BytesIn(t) = h.to .. hi - 1
    <2>1. ASSUME NEW b \in BytesIn(t) PROVE b \in h.to .. hi - 1
      <3>1. PICK i \in 1 .. Len(t) : b \in t[i].from .. t[i].to - 1 BY DEF BytesIn
      <3>2. t[i].from \in Nat /\ t[i].to \in Nat /\ h.to <= t[i].from /\ t[i].to <= hi
        BY <1>1, <1>2, <1>5, <1>6
      <3>. QED BY <1>3, <1>4, <3>1, <3>2
    <2>2. ASSUME NEW b \in h.to .. hi - 1 PROVE b \in BytesIn(t)
      <3>1. b \in BytesIn(s) BY <1>3, <1>4
      <3>2. PICK i \in 1 .. Len(s) : b \in s[i].from .. s[i].to - 1 BY <3>1 DEF BytesIn
      <3>3. i # 1 BY <1>1, <1>2, <1>4, <3>2
      <3>4. i - 1 \in 1 .. Len(t) /\ (i - 1) + 1 = i BY <1>1, <3>3
      <3>5. t[i - 1] = s[i] BY <1>1, <3>4
      <3>. QED BY <3>2, <3>4, <3>5 DEF BytesIn
    <2>. QED BY <2>1, <2>2
  <1>10. Chain(t, h.to, hi) BY <1>3, <1>4, <1>6, <1>7, <1>8, <1>9 DEF Chain
  <1>. QED BY <1>1, <1>4, <1>10 DEF t, h
-----------------------------------------------------------------------------
(* What a step does to one channel.  An action of a channel leaves the others *)
(* alone; what it does to its own is stated here once, on the values that the *)
(* invariants below speak of.                                                 *)

PeerSame(c) == /\ credit'[c] = credit[c] /\ sent'[c] = sent[c]
               /\ done'[c] = done[c] /\ wire'[c] = wire[c]
WindowSame(c) == window'[c] = window[c] /\ adjusts'[c] = adjusts[c]
EntrySame(c) == open'[c] = open[c] /\ chan'[c] = chan[c] /\ peerClose'[c] = peerClose[c]
QueueSame(c) == inbound'[c] = inbound[c] /\ taken'[c] = taken[c]
AppSame(c) == /\ buf'[c] = buf[c] /\ reader'[c] = reader[c]
              /\ delivered'[c] = delivered[c] /\ read'[c] = read[c]
Same(c) == PeerSame(c) /\ WindowSame(c) /\ EntrySame(c) /\ QueueSame(c) /\ AppSame(c)

\* The other channels see nothing of a step of c.
OthersSame(c) == \A d \in Chan : d # c => Same(d)

LEMMA PeerOthers ==
  ASSUME TypeOK, NEW c \in Chan, PeerSend(c) \/ PeerRecvAdjust(c)
  PROVE  OthersSame(c)
  <1>. SUFFICES ASSUME NEW d \in Chan, d # c PROVE Same(d) BY DEF OthersSame
  <1>1. ASSUME NEW kind, NEW n, PeerPut(c, kind, n)
        PROVE  /\ WindowSame(d) /\ EntrySame(d) /\ QueueSame(d) /\ AppSame(d)
               /\ sent'[d] = sent[d] /\ wire'[d] = wire[d]
    BY <1>1 DEF PeerPut, WindowSame, EntrySame, QueueSame, AppSame, encVars, queueVars, appVars,
                closeVars, TypeOK, PeerTypeOK
  <1>2. ASSUME NEW n \in 0 .. MaxLen, PeerSendData(c, n) PROVE Same(d)
    BY <1>1, <1>2 DEF PeerSendData, Same, PeerSame, TypeOK, PeerTypeOK
  <1>3. CASE PeerSendEof(c)
    BY <1>1, <1>3 DEF PeerSendEof, Same, PeerSame, TypeOK, PeerTypeOK
  <1>4. CASE PeerSendClose(c)
    BY <1>1, <1>4 DEF PeerSendClose, Same, PeerSame, TypeOK, PeerTypeOK
  <1>5. ASSUME NEW kind \in PeerKinds, PeerSendControl(c, kind) PROVE Same(d)
    BY <1>1, <1>5 DEF PeerSendControl, Same, PeerSame, TypeOK, PeerTypeOK
  <1>6. CASE PeerRecvAdjust(c)
    BY <1>6 DEF PeerRecvAdjust, Same, PeerSame, WindowSame, EntrySame, QueueSame, AppSame,
                queueVars, appVars, closeVars, TypeOK, PeerTypeOK, EncTypeOK
  <1>. QED BY <1>2, <1>3, <1>4, <1>5, <1>6 DEF PeerSend

\* The parts that the actions of a session share.
LEMMA DeliverOthers ==
  ASSUME TypeOK, NEW c \in Chan, NEW item, deliver_inbound(c, item), NEW d \in Chan, d # c
  PROVE  QueueSame(d) /\ buf'[d] = buf[d] /\ delivered'[d] = delivered[d]
  BY DEF deliver_inbound, QueueSame, TypeOK, QueueTypeOK, AppTypeOK

LEMMA GrantOthers ==
  ASSUME TypeOK, NEW c \in Chan, NEW win, NEW left, maybe_grant_after_delivery(c, win, left),
         NEW d \in Chan, d # c
  PROVE  WindowSame(d)
  BY DEF maybe_grant_after_delivery, WindowSame, TypeOK, EncTypeOK

LEMMA FinalizeOthers ==
  ASSUME TypeOK, NEW c \in Chan, finalize_close(c), NEW d \in Chan, d # c
  PROVE  open'[d] = open[d] /\ chan'[d] = chan[d] /\ inbound'[d] = inbound[d]
  BY DEF finalize_close, discard_channel_outbound, TypeOK, EncTypeOK, CloseTypeOK, QueueTypeOK

LEMMA ReceiveOthers ==
  ASSUME TypeOK, NEW c \in Chan, NEW kind, Receive(c, kind), NEW d \in Chan, d # c
  PROVE  PeerSame(d) /\ reader'[d] = reader[d] /\ read'[d] = read[d]
  BY DEF Receive, PeerSame, TypeOK, PeerTypeOK

LEMMA RecvOthers ==
  ASSUME TypeOK, NEW c \in Chan, Recv(c)
  PROVE  OthersSame(c)
  <1>. SUFFICES ASSUME NEW d \in Chan, d # c PROVE Same(d) BY DEF OthersSame
  <1>1. ASSUME NEW kind \in {"data", "eof", "request", "adjust"}, RecvIgnored(c, kind)
        PROVE  Same(d)
    BY <1>1, ReceiveOthers
       DEF RecvIgnored, Same, WindowSame, EntrySame, QueueSame, AppSame, encVars, closeVars
  <1>2. CASE RecvData(c)
    <2>. DEFINE item == Head(wire[c])
                win  == consume_recv_window(c, byte_len(item))
    <2>1. PeerSame(d) /\ reader'[d] = reader[d] /\ read'[d] = read[d]
      BY <1>2, ReceiveOthers DEF RecvData
    <2>2. CASE /\ deliver_inbound(c, item)
               /\ maybe_grant_after_delivery(c, win, inbound[c].pending_bytes)
               /\ UNCHANGED <<open, parked, closeVars>>
      BY <2>1, <2>2, DeliverOthers, GrantOthers DEF Same, EntrySame, AppSame, closeVars
    <2>3. CASE /\ deliver_inbound(c, item)
               /\ window' = [window EXCEPT ![c] = win]
               /\ UNCHANGED <<open, parked, adjusts, target, closeVars>>
      <3>1. WindowSame(d) BY <2>3 DEF WindowSame, TypeOK, EncTypeOK
      <3>. QED BY <2>1, <2>3, <3>1, DeliverOthers DEF Same, EntrySame, AppSame, closeVars
    <2>4. CASE /\ window' = [window EXCEPT ![c] = win] /\ finalize_close(c)
               /\ UNCHANGED <<adjusts, target, needs, taken, buf, delivered, callbacks, peerClose>>
      <3>1. WindowSame(d) BY <2>4 DEF WindowSame, TypeOK, EncTypeOK
      <3>. QED BY <2>1, <2>4, <3>1, FinalizeOthers DEF Same, EntrySame, QueueSame, AppSame
    <2>. QED BY <1>2, <2>2, <2>3, <2>4 DEF RecvData
  <1>3. CASE RecvEof(c)
    BY <1>3, ReceiveOthers, DeliverOthers
       DEF RecvEof, Same, WindowSame, EntrySame, AppSame, encVars, closeVars
  <1>4. CASE RecvClose(c)
    <2>. DEFINE item == [kind |-> "close", from |-> taken[c], to |-> taken[c]]
    <2>1. /\ PeerSame(d) /\ reader'[d] = reader[d] /\ read'[d] = read[d]
          /\ WindowSame(d)
      BY <1>4, ReceiveOthers DEF RecvClose, WindowSame
    <2>2. peerClose'[d] = peerClose[d] BY <1>4 DEF RecvClose, TypeOK, CloseTypeOK
    <2>3. CASE UNCHANGED <<open, parked, chan, callbacks, inbound, needs, taken, buf, delivered>>
      BY <2>1, <2>2, <2>3 DEF Same, EntrySame, QueueSame, AppSame
    <2>4. CASE deliver_inbound(c, item) /\ discard_channel_outbound(c)
               /\ UNCHANGED <<chan, callbacks>>
      <3>1. open'[d] = open[d] BY <2>4 DEF discard_channel_outbound, TypeOK, EncTypeOK
      <3>. QED BY <2>1, <2>2, <2>4, <3>1, DeliverOthers DEF Same, EntrySame, AppSame
    <2>5. CASE /\ buf' = IF Delivery(c, item) = "Delivered"
                         THEN [buf EXCEPT ![c] = Append(@, item)] ELSE buf
               /\ callbacks' = [callbacks EXCEPT ![c] = @ + 1]
               /\ finalize_close(c) /\ UNCHANGED <<needs, taken, delivered>>
      <3>1. buf'[d] = buf[d] BY <2>5 DEF TypeOK, AppTypeOK
      <3>. QED
        BY <2>1, <2>2, <2>5, <3>1, FinalizeOthers DEF Same, EntrySame, QueueSame, AppSame
    <2>. QED BY <1>4, <2>3, <2>4, <2>5 DEF RecvClose
  <1>5. CASE RecvRequest(c)
    BY <1>5, ReceiveOthers
       DEF RecvRequest, Same, WindowSame, EntrySame, QueueSame, AppSame, encVars, closeVars
  <1>6. CASE RecvWindowAdjust(c)
    <2>1. /\ PeerSame(d) /\ reader'[d] = reader[d] /\ read'[d] = read[d]
          /\ UNCHANGED <<window, adjusts, inbound, taken, delivered, chan, peerClose>>
      BY <1>6, ReceiveOthers DEF RecvWindowAdjust, closeVars
    <2>2. open'[d] = open[d]
      BY <1>6 DEF RecvWindowAdjust, discard_channel_outbound, TypeOK, EncTypeOK
    <2>3. buf'[d] = buf[d] BY <1>6 DEF RecvWindowAdjust, TypeOK, AppTypeOK
    <2>. QED BY <2>1, <2>2, <2>3 DEF Same, WindowSame, EntrySame, QueueSame, AppSame
  <1>. QED BY <1>1, <1>2, <1>3, <1>4, <1>5, <1>6 DEF Recv

LEMMA PumpOthers ==
  ASSUME TypeOK, NEW c \in Chan, Pump(c)
  PROVE  OthersSame(c)
  <1>. SUFFICES ASSUME NEW d \in Chan, d # c PROVE Same(d) BY DEF OthersSame
  <1>1. ASSUME PumpSend(c)
        PROVE  /\ PeerSame(d) /\ AppSame(d)
               /\ taken'[d] = taken[d] /\ peerClose'[d] = peerClose[d]
    BY <1>1 DEF PumpSend, PeerSame, AppSame, peerVars, TypeOK, AppTypeOK
  <1>2. CASE PumpItem(c)
    <2>1. WindowSame(d) BY <1>2, GrantOthers DEF PumpItem, WindowSame
    <2>2. inbound'[d] = inbound[d] /\ open'[d] = open[d] /\ chan'[d] = chan[d] /\ PumpSend(c)
      BY <1>2 DEF PumpItem, TypeOK, QueueTypeOK
    <2>. QED BY <1>1, <2>1, <2>2 DEF Same, EntrySame, QueueSame
  <1>3. CASE PumpClose(c)
    BY <1>1, <1>3, FinalizeOthers DEF PumpClose, Same, WindowSame, EntrySame, QueueSame
  <1>4. CASE PumpReaderGone(c)
    <2>1. /\ PeerSame(d) /\ WindowSame(d) /\ taken'[d] = taken[d]
          /\ peerClose'[d] = peerClose[d]
      BY <1>4 DEF PumpReaderGone, PeerSame, WindowSame, peerVars
    <2>2. AppSame(d) BY <1>4 DEF PumpReaderGone, AppSame, TypeOK, AppTypeOK
    <2>3. open'[d] = open[d] /\ chan'[d] = chan[d] /\ inbound'[d] = inbound[d]
      BY <1>4, FinalizeOthers DEF PumpReaderGone, TypeOK, QueueTypeOK
    <2>. QED BY <2>1, <2>2, <2>3 DEF Same, EntrySame, QueueSame
  <1>5. CASE PumpStale(c) \/ RegisterReserve(c)
    BY <1>5 DEF PumpStale, RegisterReserve, Same, PeerSame, WindowSame, EntrySame, QueueSame,
                AppSame, peerVars, encVars, appVars, closeVars
  <1>. QED BY <1>2, <1>3, <1>4, <1>5 DEF Pump

LEMMA LocalOthers ==
  ASSUME TypeOK, NEW c \in Chan,
         \/ RequestSent(c) \/ PumpRearm(c) \/ LocalClose(c) \/ OutboundCapClose(c)
         \/ AppRead(c) \/ AppDrop(c)
  PROVE  OthersSame(c)
  <1>. SUFFICES ASSUME NEW d \in Chan, d # c PROVE Same(d) BY DEF OthersSame
  <1>. USE DEF Same, PeerSame, WindowSame, EntrySame, QueueSame, AppSame
  <1>1. CASE RequestSent(c)
    BY <1>1 DEF RequestSent, peerVars, encVars, queueVars, closeVars, TypeOK, AppTypeOK
  <1>2. CASE PumpRearm(c)
    BY <1>2 DEF PumpRearm, peerVars, encVars, appVars, closeVars, TypeOK, QueueTypeOK
  <1>3. CASE LocalClose(c)
    <2>1. /\ PeerSame(d) /\ WindowSame(d) /\ AppSame(d) /\ taken'[d] = taken[d]
          /\ peerClose'[d] = peerClose[d]
      BY <1>3 DEF LocalClose, peerVars, appVars
    <2>2. open'[d] = open[d] /\ chan'[d] = chan[d] /\ inbound'[d] = inbound[d]
      BY <1>3, FinalizeOthers DEF LocalClose, discard_channel_outbound, TypeOK, EncTypeOK
    <2>. QED BY <2>1, <2>2
  <1>4. CASE OutboundCapClose(c)
    BY <1>4, FinalizeOthers DEF OutboundCapClose, peerVars, appVars
  <1>5. CASE AppRead(c)
    BY <1>5 DEF AppRead, peerVars, encVars, closeVars, TypeOK, AppTypeOK
  <1>6. CASE AppDrop(c)
    BY <1>6 DEF AppDrop, peerVars, encVars, queueVars, closeVars, TypeOK, AppTypeOK
  <1>. QED BY <1>1, <1>2, <1>3, <1>4, <1>5, <1>6

\* A key exchange and drain_needs_reserve touch no channel's stream: a queue that
\* still asks for a reserve belongs to a channel that is still there.
LEMMA SessionSame ==
  ASSUME TypeOK, ReserveInv, drain_needs_reserve \/ KexStart \/ KexDone \/ UNCHANGED vars
  PROVE  \A d \in Chan : Same(d)
  <1>. SUFFICES ASSUME NEW d \in Chan PROVE Same(d) OBVIOUS
  <1>. USE DEF Same, PeerSame, WindowSame, EntrySame, QueueSame, AppSame
  <1>1. CASE drain_needs_reserve
    <2>1. OneReserve(d) BY DEF ReserveInv
    <2>2. inbound[d].queue # <<>> => chan[d] BY <2>1 DEF OneReserve
    <2>3. inbound'[d] = inbound[d] BY <1>1, <2>2 DEF drain_needs_reserve
    <2>. QED BY <1>1, <2>3 DEF drain_needs_reserve, peerVars, encVars, appVars, closeVars
  <1>2. CASE KexStart \/ KexDone
    BY <1>2 DEF KexStart, KexDone, peerVars, encVars, queueVars, appVars, closeVars
  <1>3. CASE UNCHANGED vars
    BY <1>3 DEF vars, peerVars, encVars, queueVars, appVars, closeVars
  <1>. QED BY <1>1, <1>2, <1>3

\* The session keeps its side and its peer.
LEMMA EndStays == [Next]_vars => end' = end
  <1>. SUFFICES ASSUME [Next]_vars PROVE end' = end OBVIOUS
  <1>1. ASSUME NEW c \in Chan, PeerSend(c) \/ PeerRecvAdjust(c) PROVE end' = end
    BY <1>1 DEF PeerSend, PeerSendData, PeerSendEof, PeerSendClose, PeerSendControl, PeerPut,
                PeerRecvAdjust
  <1>2. ASSUME NEW c \in Chan, Recv(c) PROVE end' = end
    BY <1>2 DEF Recv, RecvData, RecvEof, RecvClose, RecvRequest, RecvWindowAdjust, RecvIgnored,
                Receive
  <1>3. ASSUME NEW c \in Chan, Pump(c) PROVE end' = end
    BY <1>3 DEF Pump, PumpItem, PumpClose, PumpSend, PumpReaderGone, PumpStale, RegisterReserve
  <1>4. ASSUME NEW c \in Chan,
               \/ RequestSent(c) \/ PumpRearm(c) \/ LocalClose(c) \/ OutboundCapClose(c)
               \/ AppRead(c) \/ AppDrop(c)
        PROVE  end' = end
    BY <1>4 DEF RequestSent, PumpRearm, LocalClose, OutboundCapClose, AppRead, AppDrop
  <1>5. drain_needs_reserve \/ KexStart \/ KexDone \/ UNCHANGED vars => end' = end
    BY DEF drain_needs_reserve, KexStart, KexDone, vars
  <1>. QED BY <1>1, <1>2, <1>3, <1>4, <1>5 DEF Next

\* Every step is the step of one channel, or of none.
LEMMA OneChannel ==
  ASSUME TypeOK, ReserveInv, [Next]_vars
  PROVE  \/ \A d \in Chan : Same(d)
         \/ \E c \in Chan :
              /\ OthersSame(c)
              /\ \/ PeerSend(c) \/ PeerRecvAdjust(c) \/ Recv(c) \/ RequestSent(c)
                 \/ Pump(c) \/ PumpRearm(c) \/ LocalClose(c) \/ OutboundCapClose(c)
                 \/ AppRead(c) \/ AppDrop(c)
  BY PeerOthers, RecvOthers, PumpOthers, LocalOthers, SessionSame DEF Next

\* Packets that the peer puts on the wire.
Packet(c, kind, n) == [kind |-> kind, from |-> sent[c], to |-> sent[c] + n]
Puts(c, kind, n) ==
  /\ wire'[c] = Append(wire[c], Packet(c, kind, n)) /\ sent'[c] = sent[c] + n
  /\ WindowSame(c) /\ EntrySame(c) /\ QueueSame(c) /\ AppSame(c)

LEMMA PutEffects ==
  ASSUME TypeOK, NEW c \in Chan, PeerSend(c)
  PROVE  \/ \E n \in Nat : /\ Puts(c, "data", n) /\ credit'[c] = credit[c] - n
                           /\ done'[c] = done[c] /\ done[c] # "close"
                           /\ end.obeyed => n <= credit[c]
         \/ /\ Puts(c, "eof", 0) /\ credit'[c] = credit[c]
            /\ done[c] # "close" /\ done'[c] = "eof"
         \/ /\ Puts(c, "close", 0) /\ credit'[c] = credit[c] /\ done'[c] = "close"
         \/ \E kind \in {"request", "adjust"} :
              /\ Puts(c, kind, 0) /\ credit'[c] = credit[c]
              /\ done'[c] = done[c] /\ done[c] # "close"
  <1>1. ASSUME NEW kind, NEW n \in Nat, PeerPut(c, kind, n) PROVE Puts(c, kind, n)
    <2>1. wire'[c] = Append(wire[c], Packet(c, kind, n)) /\ sent'[c] = sent[c] + n
      BY <1>1 DEF PeerPut, Packet, TypeOK, PeerTypeOK
    <2>. QED
      BY <1>1, <2>1 DEF PeerPut, Puts, WindowSame, EntrySame, QueueSame, AppSame, encVars,
                        queueVars, appVars, closeVars
  <1>2. ASSUME NEW n \in 0 .. MaxLen, PeerSendData(c, n)
        PROVE  /\ n \in Nat /\ Puts(c, "data", n) /\ credit'[c] = credit[c] - n
               /\ done'[c] = done[c] /\ done[c] # "close" /\ (end.obeyed => n <= credit[c])
    <2>1. n \in Nat BY ConstantsAssumption
    <2>2. Puts(c, "data", n) BY <1>1, <1>2, <2>1 DEF PeerSendData
    <2>. QED BY <1>2, <2>1, <2>2 DEF PeerSendData, TypeOK, PeerTypeOK
  <1>3. CASE PeerSendEof(c)
    BY <1>1, <1>3 DEF PeerSendEof, TypeOK, PeerTypeOK
  <1>4. CASE PeerSendClose(c)
    BY <1>1, <1>4 DEF PeerSendClose, TypeOK, PeerTypeOK
  <1>5. ASSUME NEW kind \in PeerKinds, PeerSendControl(c, kind)
        PROVE  /\ kind \in {"request", "adjust"} /\ Puts(c, kind, 0) /\ credit'[c] = credit[c]
               /\ done'[c] = done[c] /\ done[c] # "close"
    BY <1>1, <1>5 DEF PeerSendControl
  <1>. QED BY <1>2, <1>3, <1>4, <1>5 DEF PeerSend

LEMMA AdjustEffects ==
  ASSUME TypeOK, NEW c \in Chan, PeerRecvAdjust(c)
  PROVE  /\ credit'[c] = credit[c] + adjusts[c] /\ adjusts'[c] = 0 /\ adjusts[c] > 0
         /\ window'[c] = window[c] /\ EntrySame(c) /\ QueueSame(c) /\ AppSame(c)
         /\ sent'[c] = sent[c] /\ done'[c] = done[c] /\ wire'[c] = wire[c]
  BY DEF PeerRecvAdjust, EntrySame, QueueSame, AppSame, queueVars, appVars, closeVars, TypeOK,
         PeerTypeOK, EncTypeOK

\* The first packet of the wire is taken.
Arrives(c, kind) ==
  /\ wire[c] # <<>> /\ Head(wire[c]).kind = kind /\ wire'[c] = Tail(wire[c])
  /\ credit'[c] = credit[c] /\ sent'[c] = sent[c] /\ done'[c] = done[c]
  /\ reader'[c] = reader[c] /\ read'[c] = read[c]

LEMMA ReceiveEffects ==
  ASSUME TypeOK, NEW c \in Chan, NEW kind, Receive(c, kind)
  PROVE  Arrives(c, kind)
  BY DEF Receive, Arrives, TypeOK, PeerTypeOK

\* The ways deliver_inbound disposes of an item.
Nothing(c) == inbound'[c] = inbound[c] /\ buf'[c] = buf[c] /\ delivered'[c] = delivered[c]
Stored(c, item) ==
  /\ chan[c] /\ reader[c] /\ inbound[c].queue = <<>> /\ inbound'[c] = inbound[c]
  /\ buf'[c] = Append(buf[c], item) /\ delivered'[c] = item.to
Gone(c, item) ==
  /\ chan[c] /\ ~reader[c] /\ inbound[c].queue = <<>> /\ inbound'[c] = inbound[c]
  /\ buf'[c] = buf[c] /\ delivered'[c] = item.to
Kept(c, item) ==
  /\ chan[c] /\ inbound'[c] = Enqueued(inbound[c], item)
  /\ buf'[c] = buf[c] /\ delivered'[c] = delivered[c]
  /\ item.kind = "data" => byte_len(item) # 0
  /\ inbound[c].pending_bytes + byte_len(item) <= PendingCap
  /\ inbound[c].queue = <<>> \/ ~Repeated(c, item)

LEMMA DeliverEffects ==
  ASSUME TypeOK, ReserveInv, NEW c \in Chan, NEW item \in Item, deliver_inbound(c, item),
         item.kind # "data" => item.from = item.to,
         Delivery(c, item) # "Overflow" \/ item.from = item.to
  PROVE  /\ taken'[c] = item.to
         /\ \/ Nothing(c) /\ (item.from = item.to \/ ~chan[c])
            \/ Stored(c, item) \/ Gone(c, item) \/ Kept(c, item)
  <1>. DEFINE q == inbound[c]
  <1>1. /\ q \in InboundQueue /\ q.pending_bytes \in Int /\ byte_len(item) \in Int
        /\ inbound \in [Chan -> InboundQueue] /\ buf \in [Chan -> Seq(Item)]
        /\ delivered \in [Chan -> Nat] /\ taken \in [Chan -> Nat] /\ PendingCap \in Nat
        /\ item.from \in Nat /\ item.to \in Nat
    BY ConstantsAssumption, ItemType
       DEF TypeOK, QueueTypeOK, AppTypeOK, InboundQueue, byte_len
  <1>2. taken'[c] = item.to BY <1>1 DEF deliver_inbound
  <1>3. OneReserve(c) BY DEF ReserveInv
  <1>4. Backpressured(c) <=> q.queue # <<>> BY <1>3 DEF OneReserve, Backpressured
  <1>5. q.queue # <<>> => chan[c] BY <1>3 DEF OneReserve
  <1>6. byte_len(item) = 0 <=> item.from = item.to BY <1>1 DEF byte_len
  <1>. DEFINE answer == Delivery(c, item)
              kept   == answer = "Queued" /\ ~(Backpressured(c) /\ Repeated(c, item))
              stored == answer = "Delivered" /\ ~(item.kind = "data" /\ byte_len(item) = 0)
  <1>7. /\ inbound'[c] = IF kept THEN Enqueued(q, item) ELSE q
        /\ buf'[c] = IF stored THEN Append(buf[c], item) ELSE buf[c]
        /\ delivered'[c] = IF stored \/ (answer = "ChannelGone" /\ chan[c])
                           THEN item.to ELSE delivered[c]
    BY <1>1 DEF deliver_inbound
  <1>8. CASE item.kind = "data" /\ byte_len(item) = 0
    <2>1. answer = "Delivered" BY <1>8 DEF Delivery
    <2>2. ~kept /\ ~stored BY <1>8, <2>1
    <2>3. Nothing(c) BY <1>7, <2>1, <2>2 DEF Nothing
    <2>. QED BY <1>2, <1>6, <1>8, <2>3
  <1>9. CASE ~(item.kind = "data" /\ byte_len(item) = 0)
    <2>1. answer = IF Backpressured(c) /\ Repeated(c, item) THEN "Queued"
                   ELSE IF ~Backpressured(c) /\ ~(chan[c] /\ reader[c]) THEN "ChannelGone"
                   ELSE IF ~Backpressured(c) /\ Free(c) > 0 THEN "Delivered"
                   ELSE IF q.pending_bytes + byte_len(item) > PendingCap THEN "Overflow"
                   ELSE "Queued"
      BY <1>9 DEF Delivery
    <2>2. CASE Backpressured(c) /\ Repeated(c, item)
      <3>1. answer = "Queued" /\ ~kept /\ ~stored BY <2>1, <2>2
      <3>2. Nothing(c) BY <1>7, <3>1 DEF Nothing
      <3>3. item.kind # "data" BY <2>2 DEF Repeated
      <3>. QED BY <1>2, <3>2, <3>3
    <2>3. CASE ~Backpressured(c) /\ ~(chan[c] /\ reader[c])
      <3>1. answer = "ChannelGone" /\ ~kept /\ ~stored /\ q.queue = <<>> BY <1>4, <2>1, <2>3
      <3>2. CASE ~chan[c]
        <4>1. Nothing(c) BY <1>7, <3>1, <3>2 DEF Nothing
        <4>. QED BY <1>2, <3>2, <4>1
      <3>3. CASE chan[c]
        <4>1. ~reader[c] BY <2>3, <3>3
        <4>2. Gone(c, item) BY <1>7, <3>1, <3>3, <4>1 DEF Gone
        <4>. QED BY <1>2, <4>2
      <3>. QED BY <3>2, <3>3
    <2>4. CASE ~Backpressured(c) /\ chan[c] /\ reader[c] /\ Free(c) > 0
      <3>1. answer = "Delivered" /\ ~kept /\ stored /\ q.queue = <<>> BY <1>4, <1>9, <2>1, <2>4
      <3>2. Stored(c, item) BY <1>7, <2>4, <3>1 DEF Stored
      <3>. QED BY <1>2, <3>2
    <2>5. CASE /\ ~(Backpressured(c) /\ Repeated(c, item))
               /\ ~(~Backpressured(c) /\ ~(chan[c] /\ reader[c]))
               /\ ~(~Backpressured(c) /\ Free(c) > 0)
      <3>1. chan[c] BY <1>4, <1>5, <2>5
      <3>2. CASE q.pending_bytes + byte_len(item) > PendingCap
        <4>1. answer = "Overflow" /\ ~kept /\ ~stored BY <2>1, <2>5, <3>2
        <4>2. Nothing(c) BY <1>7, <4>1 DEF Nothing
        <4>. QED BY <1>2, <4>1, <4>2
      <3>3. CASE ~(q.pending_bytes + byte_len(item) > PendingCap)
        <4>1. answer = "Queued" /\ kept /\ ~stored BY <2>1, <2>5, <3>3
        <4>2. q.pending_bytes + byte_len(item) <= PendingCap BY <1>1, <3>3
        <4>3. q.queue = <<>> \/ ~Repeated(c, item) BY <1>4, <2>5
        <4>4. Kept(c, item) BY <1>7, <1>9, <3>1, <4>1, <4>2, <4>3 DEF Kept
        <4>. QED BY <1>2, <4>4
      <3>. QED BY <3>2, <3>3
    <2>. QED BY <2>2, <2>3, <2>4, <2>5
  <1>. QED BY <1>8, <1>9

\* The outcome of maybe_grant_after_delivery.
Ceiling(left) == IF left < GrantTarget THEN GrantTarget - left ELSE 0
Granted(c, win, left) ==
  \/ /\ open[c] /\ win < Ceiling(left) \div 2 /\ window'[c] = Ceiling(left)
     /\ adjusts'[c] = adjusts[c] + (Ceiling(left) - win)
  \/ /\ ~(open[c] /\ win < Ceiling(left) \div 2) /\ window'[c] = win
     /\ adjusts'[c] = adjusts[c]

LEMMA GrantEffects ==
  ASSUME TypeOK, NEW c \in Chan, NEW win, NEW left, maybe_grant_after_delivery(c, win, left)
  PROVE  Granted(c, win, left)
  BY DEF maybe_grant_after_delivery, Granted, Ceiling, TypeOK, EncTypeOK

\* The entries of the channel are removed.
Removed(c) == ~open'[c] /\ ~chan'[c] /\ inbound'[c] = EmptyQueue

LEMMA FinalizeEffects ==
  ASSUME TypeOK, NEW c \in Chan, finalize_close(c)
  PROVE  Removed(c)
  BY DEF finalize_close, discard_channel_outbound, Removed, TypeOK, EncTypeOK, CloseTypeOK,
         QueueTypeOK

\* The outcomes of an arriving packet.
Ignores(c) == /\ WindowSame(c) /\ EntrySame(c) /\ QueueSame(c) /\ AppSame(c)
TakesData(c, item, win) ==
  /\ deliver_inbound(c, item) /\ Delivery(c, item) # "Overflow" /\ EntrySame(c)
  /\ \/ /\ Delivery(c, item) # "Queued" /\ Granted(c, win, inbound[c].pending_bytes)
     \/ /\ Delivery(c, item) = "Queued" /\ window'[c] = win /\ adjusts'[c] = adjusts[c]
Overflows(c, item, win) ==
  /\ Delivery(c, item) = "Overflow" /\ Removed(c) /\ peerClose'[c] = peerClose[c]
  /\ window'[c] = win /\ adjusts'[c] = adjusts[c]
  /\ taken'[c] = taken[c] /\ buf'[c] = buf[c] /\ delivered'[c] = delivered[c]

LEMMA DataEffects ==
  ASSUME TypeOK, NEW c \in Chan, RecvData(c)
  PROVE  LET item == Head(wire[c])
             win  == consume_recv_window(c, byte_len(item))
         IN  /\ Arrives(c, "data") /\ Accepts(c, "data")
             /\ TakesData(c, item, win) \/ Overflows(c, item, win)
  <1>. DEFINE item == Head(wire[c])
              win  == consume_recv_window(c, byte_len(item))
  <1>1. Arrives(c, "data") /\ Accepts(c, "data") BY ReceiveEffects DEF RecvData
  <1>2. CASE /\ Delivery(c, item) \in {"Delivered", "ChannelGone"}
             /\ deliver_inbound(c, item)
             /\ maybe_grant_after_delivery(c, win, inbound[c].pending_bytes)
             /\ UNCHANGED <<open, parked, closeVars>>
    <2>1. Granted(c, win, inbound[c].pending_bytes) BY <1>2, GrantEffects
    <2>2. EntrySame(c) BY <1>2 DEF EntrySame, closeVars
    <2>3. TakesData(c, item, win) BY <1>2, <2>1, <2>2 DEF TakesData
    <2>. QED BY <1>1, <2>3
  <1>3. CASE /\ Delivery(c, item) = "Queued" /\ deliver_inbound(c, item)
             /\ window' = [window EXCEPT ![c] = win]
             /\ UNCHANGED <<open, parked, adjusts, target, closeVars>>
    <2>1. window'[c] = win /\ adjusts'[c] = adjusts[c] BY <1>3 DEF TypeOK, EncTypeOK
    <2>2. EntrySame(c) BY <1>3 DEF EntrySame, closeVars
    <2>3. TakesData(c, item, win) BY <1>3, <2>1, <2>2 DEF TakesData
    <2>. QED BY <1>1, <2>3
  <1>4. CASE /\ Delivery(c, item) = "Overflow"
             /\ window' = [window EXCEPT ![c] = win] /\ finalize_close(c)
             /\ UNCHANGED <<adjusts, target, needs, taken, buf, delivered, callbacks, peerClose>>
    <2>1. window'[c] = win /\ adjusts'[c] = adjusts[c] BY <1>4 DEF TypeOK, EncTypeOK
    <2>2. Overflows(c, item, win) BY <1>4, <2>1, FinalizeEffects DEF Overflows
    <2>. QED BY <1>1, <2>2
  <1>. QED BY <1>2, <1>3, <1>4 DEF RecvData

LEMMA EofEffects ==
  ASSUME TypeOK, NEW c \in Chan, RecvEof(c)
  PROVE  /\ Arrives(c, "eof") /\ Accepts(c, "eof") /\ deliver_inbound(c, Head(wire[c]))
         /\ WindowSame(c) /\ EntrySame(c)
  BY ReceiveEffects DEF RecvEof, WindowSame, EntrySame, encVars, closeVars

CloseItem(c) == [kind |-> "close", from |-> taken[c], to |-> taken[c]]

LEMMA CloseEffects ==
  ASSUME TypeOK, ReserveInv, NEW c \in Chan, RecvClose(c)
  PROVE  /\ Arrives(c, "close") /\ WindowSame(c) /\ peerClose'[c] = (peerClose[c] \/ open[c])
         /\ \/ /\ ~open[c] /\ ~chan[c] /\ ~open'[c] /\ ~chan'[c] /\ QueueSame(c) /\ AppSame(c)
            \/ /\ open[c] \/ chan[c]
               /\ deliver_inbound(c, CloseItem(c)) /\ Delivery(c, CloseItem(c)) = "Queued"
               /\ ~open'[c] /\ chan'[c] = chan[c]
            \/ /\ (open[c] \/ chan[c]) /\ Removed(c) /\ taken'[c] = taken[c]
               /\ delivered'[c] = delivered[c]
               /\ Delivery(c, CloseItem(c)) = "Overflow" \/ inbound[c].queue = <<>>
               /\ \/ buf'[c] = buf[c]
                  \/ reader[c] /\ inbound[c].queue = <<>> /\ buf'[c] = Append(buf[c], CloseItem(c))
  <1>. DEFINE item == [kind |-> "close", from |-> taken[c], to |-> taken[c]]
  <1>1. /\ Arrives(c, "close") /\ WindowSame(c) BY ReceiveEffects DEF RecvClose, WindowSame
  <1>2. peerClose'[c] = (peerClose[c] \/ open[c]) BY DEF RecvClose, TypeOK, CloseTypeOK
  <1>3. item = CloseItem(c) /\ item.kind = "close" BY DEF CloseItem
  <1>4. CASE /\ ~open[c] /\ ~chan[c]
             /\ UNCHANGED <<open, parked, chan, callbacks, inbound, needs, taken, buf, delivered>>
    <2>1. QueueSame(c) /\ AppSame(c) BY <1>1, <1>4 DEF QueueSame, AppSame, Arrives
    <2>2. ~open'[c] /\ ~chan'[c] BY <1>4
    <2>. QED BY <1>1, <1>2, <1>4, <2>1, <2>2
  <1>5. CASE /\ open[c] \/ chan[c]
             /\ Delivery(c, item) = "Queued"
             /\ deliver_inbound(c, item) /\ discard_channel_outbound(c)
             /\ UNCHANGED <<chan, callbacks>>
    <2>1. ~open'[c] /\ chan'[c] = chan[c] BY <1>5 DEF discard_channel_outbound, TypeOK, EncTypeOK
    <2>. QED BY <1>1, <1>2, <1>3, <1>5, <2>1
  <1>6. CASE /\ open[c] \/ chan[c]
             /\ Delivery(c, item) # "Queued"
             /\ buf' = IF Delivery(c, item) = "Delivered"
                       THEN [buf EXCEPT ![c] = Append(@, item)] ELSE buf
             /\ callbacks' = [callbacks EXCEPT ![c] = @ + 1]
             /\ finalize_close(c) /\ UNCHANGED <<needs, taken, delivered>>
    <2>1. Removed(c) /\ taken'[c] = taken[c] /\ delivered'[c] = delivered[c]
      BY <1>6, FinalizeEffects
    <2>2. Backpressured(c) <=> inbound[c].queue # <<>>
      BY DEF ReserveInv, OneReserve, Backpressured
    <2>3. Delivery(c, item) =
            IF Backpressured(c) /\ Repeated(c, item) THEN "Queued"
            ELSE IF ~Backpressured(c) /\ ~(chan[c] /\ reader[c]) THEN "ChannelGone"
            ELSE IF ~Backpressured(c) /\ Free(c) > 0 THEN "Delivered"
            ELSE IF inbound[c].pending_bytes + byte_len(item) > PendingCap THEN "Overflow"
            ELSE "Queued"
      BY <1>3 DEF Delivery
    <2>4. Delivery(c, item) = "Overflow" \/ inbound[c].queue = <<>> BY <1>6, <2>2, <2>3
    <2>5. Delivery(c, item) = "Delivered" => reader[c] /\ inbound[c].queue = <<>>
      BY <2>2, <2>3
    <2>6. \/ buf'[c] = buf[c]
          \/ reader[c] /\ inbound[c].queue = <<>> /\ buf'[c] = Append(buf[c], item)
      BY <1>6, <2>5 DEF TypeOK, AppTypeOK
    <2>. QED BY <1>1, <1>2, <1>3, <1>6, <2>1, <2>4, <2>6
  <1>. QED BY <1>4, <1>5, <1>6 DEF RecvClose

\* A packet that only tells the application something, or nothing.
Mark(c, kind) == [kind |-> kind, from |-> delivered[c], to |-> delivered[c]]
Tells(c, kind) ==
  /\ WindowSame(c) /\ QueueSame(c) /\ chan'[c] = chan[c] /\ peerClose'[c] = peerClose[c]
  /\ reader'[c] = reader[c] /\ delivered'[c] = delivered[c] /\ read'[c] = read[c]
  /\ buf'[c] = buf[c] \/ (reader[c] /\ buf'[c] = Append(buf[c], Mark(c, kind)))

LEMMA OtherEffects ==
  ASSUME TypeOK, NEW c \in Chan
  PROVE  /\ \A kind \in {"data", "eof", "request", "adjust"} :
              RecvIgnored(c, kind) => Arrives(c, kind) /\ ~Accepts(c, kind) /\ Ignores(c)
         /\ RecvRequest(c) => Arrives(c, "request") /\ Ignores(c)
         /\ RecvWindowAdjust(c) => /\ Arrives(c, "adjust") /\ Tells(c, "adjust") /\ open[c]
                                   /\ open'[c] => open[c]
         /\ RequestSent(c) => PeerSame(c) /\ Tells(c, "request") /\ open'[c] = open[c]
  <1>1. ASSUME NEW kind \in {"data", "eof", "request", "adjust"}, RecvIgnored(c, kind)
        PROVE  Arrives(c, kind) /\ ~Accepts(c, kind) /\ Ignores(c)
    BY <1>1, ReceiveEffects DEF RecvIgnored, Ignores, WindowSame, EntrySame, QueueSame, AppSame,
                                Arrives, encVars, closeVars
  <1>2. ASSUME RecvRequest(c) PROVE Arrives(c, "request") /\ Ignores(c)
    BY <1>2, ReceiveEffects DEF RecvRequest, Ignores, WindowSame, EntrySame, QueueSame, AppSame,
                                Arrives, encVars, closeVars
  <1>3. ASSUME RecvWindowAdjust(c)
        PROVE  /\ Arrives(c, "adjust") /\ Tells(c, "adjust") /\ open[c] /\ (open'[c] => open[c])
    <2>1. Arrives(c, "adjust") /\ open[c] BY <1>3, ReceiveEffects DEF RecvWindowAdjust
    <2>2. buf'[c] = buf[c] \/ (reader[c] /\ buf'[c] = Append(buf[c], Mark(c, "adjust")))
      BY <1>3 DEF RecvWindowAdjust, Mark, TypeOK, AppTypeOK
    <2>3. WindowSame(c) /\ QueueSame(c) /\ chan'[c] = chan[c] /\ peerClose'[c] = peerClose[c]
      BY <1>3 DEF RecvWindowAdjust, WindowSame, QueueSame, closeVars
    <2>4. reader'[c] = reader[c] /\ delivered'[c] = delivered[c] /\ read'[c] = read[c]
      BY <1>3, <2>1 DEF RecvWindowAdjust, Arrives
    <2>. QED BY <2>1, <2>2, <2>3, <2>4 DEF Tells
  <1>4. ASSUME RequestSent(c) PROVE PeerSame(c) /\ Tells(c, "request") /\ open'[c] = open[c]
    <2>1. buf'[c] = buf[c] \/ (reader[c] /\ buf'[c] = Append(buf[c], Mark(c, "request")))
      BY <1>4 DEF RequestSent, Mark, TypeOK, AppTypeOK
    <2>. QED
      BY <1>4, <2>1 DEF RequestSent, PeerSame, Tells, WindowSame, QueueSame, peerVars, encVars,
                        queueVars, closeVars
  <1>. QED BY <1>1, <1>2, <1>3, <1>4

\* pump_inbound moves the head of the queue to the buffer, or loses it with the
\* reader.
Pumps(c, item) ==
  /\ inbound[c].queue # <<>> /\ item = Head(inbound[c].queue)
  /\ PeerSame(c) /\ taken'[c] = taken[c] /\ peerClose'[c] = peerClose[c]
  /\ reader'[c] = reader[c] /\ read'[c] = read[c] /\ delivered'[c] = item.to
  /\ buf'[c] = IF reader[c] THEN Append(buf[c], item) ELSE buf[c]

LEMMA PumpEffects ==
  ASSUME TypeOK, NEW c \in Chan, Pump(c)
  PROVE  LET item == Head(inbound[c].queue)
         IN  \/ /\ Pumps(c, item) /\ inbound'[c] = Dequeued(inbound[c])
                /\ open'[c] = open[c] /\ chan'[c] = chan[c]
                /\ \/ /\ item.kind = "data"
                      /\ Granted(c, window[c], inbound[c].pending_bytes - byte_len(item))
                   \/ item.kind = "eof" /\ WindowSame(c)
             \/ Pumps(c, item) /\ item.kind = "close" /\ Removed(c) /\ WindowSame(c)
             \/ /\ ~reader[c] /\ inbound[c].queue # <<>> /\ PeerSame(c) /\ WindowSame(c)
                /\ taken'[c] = taken[c] /\ peerClose'[c] = peerClose[c]
                /\ reader'[c] = reader[c] /\ read'[c] = read[c] /\ buf'[c] = buf[c]
                /\ delivered'[c] = taken[c]
                /\ \/ Removed(c)
                   \/ inbound'[c] = EmptyQueue /\ open'[c] = open[c] /\ chan'[c] = chan[c]
             \/ Same(c)
  <1>. DEFINE item == Head(inbound[c].queue)
  <1>1. ASSUME PumpSend(c) PROVE Pumps(c, item)
    BY <1>1 DEF PumpSend, Pumps, PeerSame, peerVars, TypeOK, AppTypeOK
  <1>2. CASE PumpItem(c)
    <2>1. inbound'[c] = Dequeued(inbound[c]) BY <1>2 DEF PumpItem, TypeOK, QueueTypeOK
    <2>2. Pumps(c, item) /\ open'[c] = open[c] /\ chan'[c] = chan[c] BY <1>1, <1>2 DEF PumpItem
    <2>3. CASE /\ item.kind = "data"
               /\ maybe_grant_after_delivery(c, window[c], inbound[c].pending_bytes - byte_len(item))
      <3>1. Granted(c, window[c], inbound[c].pending_bytes - byte_len(item)) BY <2>3, GrantEffects
      <3>. QED BY <2>1, <2>2, <2>3, <3>1
    <2>4. CASE item.kind = "eof" /\ UNCHANGED <<end, window, adjusts, target>>
      <3>1. WindowSame(c) BY <2>4 DEF WindowSame
      <3>. QED BY <2>1, <2>2, <2>4, <3>1
    <2>. QED BY <1>2, <2>3, <2>4 DEF PumpItem
  <1>3. CASE PumpClose(c)
    <2>1. Pumps(c, item) /\ item.kind = "close" /\ Removed(c) /\ WindowSame(c)
      BY <1>1, <1>3, FinalizeEffects DEF PumpClose, WindowSame
    <2>. QED BY <2>1
  <1>4. CASE PumpReaderGone(c)
    <2>1. ~reader[c] /\ inbound[c].queue # <<>> /\ PeerSame(c) /\ WindowSame(c)
      BY <1>4 DEF PumpReaderGone, TakeFailure, ReserveFailed, PeerSame, WindowSame, peerVars
    <2>2. /\ taken'[c] = taken[c] /\ peerClose'[c] = peerClose[c]
          /\ reader'[c] = reader[c] /\ read'[c] = read[c] /\ buf'[c] = buf[c]
          /\ delivered'[c] = taken[c]
      BY <1>4 DEF PumpReaderGone, TypeOK, AppTypeOK
    <2>3. \/ Removed(c)
          \/ inbound'[c] = EmptyQueue /\ open'[c] = open[c] /\ chan'[c] = chan[c]
      BY <1>4, FinalizeEffects DEF PumpReaderGone, TypeOK, QueueTypeOK
    <2>. QED BY <2>1, <2>2, <2>3
  <1>5. CASE PumpStale(c) \/ RegisterReserve(c)
    <2>1. Same(c)
      BY <1>5 DEF PumpStale, RegisterReserve, Same, PeerSame, WindowSame, EntrySame, QueueSame,
                  AppSame, peerVars, encVars, appVars, closeVars
    <2>. QED BY <2>1
  <1>. QED BY <1>2, <1>3, <1>4, <1>5 DEF Pump

\* PumpRearm changes only the marks of a queue, or forgets an empty one.
LEMMA RearmEffects ==
  ASSUME TypeOK, NEW c \in Chan, PumpRearm(c)
  PROVE  /\ PeerSame(c) /\ WindowSame(c) /\ EntrySame(c) /\ AppSame(c) /\ taken'[c] = taken[c]
         /\ \/ /\ inbound[c].queue # <<>>
               /\ inbound'[c] = [inbound[c] EXCEPT !.reserving = TRUE]
            \/ inbound[c].queue = <<>> /\ inbound'[c] = EmptyQueue
  <1>1. PeerSame(c) /\ WindowSame(c) /\ EntrySame(c) /\ AppSame(c) /\ taken'[c] = taken[c]
    BY DEF PumpRearm, PeerSame, WindowSame, EntrySame, AppSame, peerVars, encVars, appVars,
           closeVars
  <1>2. inbound'[c] = IF inbound[c].queue # <<>> THEN [inbound[c] EXCEPT !.reserving = TRUE]
                                                 ELSE EmptyQueue
    BY DEF PumpRearm, TypeOK, QueueTypeOK
  <1>. QED BY <1>1, <1>2

\* A close by this side.
LEMMA CloseLocallyEffects ==
  ASSUME TypeOK, NEW c \in Chan, LocalClose(c) \/ OutboundCapClose(c)
  PROVE  /\ PeerSame(c) /\ WindowSame(c) /\ AppSame(c) /\ taken'[c] = taken[c]
         /\ peerClose'[c] = peerClose[c]
         /\ \/ open'[c] = open[c] /\ chan'[c] = chan[c] /\ inbound'[c] = inbound[c]
            \/ Removed(c) /\ (open[c] \/ ~reader[c])
            \/ ~open'[c] /\ chan'[c] = chan[c] /\ inbound'[c] = inbound[c]
  <1>. USE DEF PeerSame, WindowSame, AppSame, peerVars, appVars
  <1>1. CASE LocalClose(c)
    <2>1. /\ PeerSame(c) /\ WindowSame(c) /\ AppSame(c) /\ taken'[c] = taken[c]
          /\ peerClose'[c] = peerClose[c]
      BY <1>1 DEF LocalClose
    <2>2. CASE UNCHANGED <<open, inbound, chan>> BY <2>1, <2>2
    <2>3. CASE ~reader[c] /\ finalize_close(c) BY <2>1, <2>3, FinalizeEffects
    <2>4. CASE discard_channel_outbound(c) /\ UNCHANGED <<inbound, chan>>
      <3>1. ~open'[c] BY <2>4 DEF discard_channel_outbound, TypeOK, EncTypeOK
      <3>. QED BY <2>1, <2>4, <3>1
    <2>. QED BY <1>1, <2>2, <2>3, <2>4 DEF LocalClose
  <1>2. CASE OutboundCapClose(c)
    <2>1. /\ PeerSame(c) /\ WindowSame(c) /\ AppSame(c) /\ taken'[c] = taken[c]
          /\ peerClose'[c] = peerClose[c]
      BY <1>2 DEF OutboundCapClose
    <2>2. Removed(c) /\ open[c] BY <1>2, FinalizeEffects DEF OutboundCapClose
    <2>. QED BY <2>1, <2>2
  <1>. QED BY <1>1, <1>2

\* The application reads, or goes.
LEMMA AppEffects ==
  ASSUME TypeOK, NEW c \in Chan, AppRead(c) \/ AppDrop(c)
  PROVE  /\ PeerSame(c) /\ WindowSame(c) /\ EntrySame(c) /\ QueueSame(c)
         /\ delivered'[c] = delivered[c] /\ reader[c]
         /\ \/ /\ reader'[c] /\ buf[c] # <<>> /\ read'[c] = Head(buf[c]).to
               /\ buf'[c] = Tail(buf[c])
            \/ ~reader'[c] /\ read'[c] = read[c]
  <1>. USE DEF PeerSame, WindowSame, EntrySame, QueueSame, peerVars, encVars, queueVars, closeVars
  <1>1. CASE AppRead(c) BY <1>1 DEF AppRead, TypeOK, AppTypeOK
  <1>2. CASE AppDrop(c) BY <1>2 DEF AppDrop, TypeOK, AppTypeOK
  <1>. QED BY <1>1, <1>2
-----------------------------------------------------------------------------
(* The streams of a channel. *)

WireOK(c) ==
  /\ Chain(wire[c], WireStart(c), sent[c])
  /\ \A i \in 1 .. Len(wire[c]) : wire[c][i].kind # "data" => wire[c][i].from = wire[c][i].to

\* What the session takes off the wire is still counted: on an open channel, and
\* on what is left of a channel that a client has closed.
Attached(c) == open[c] \/ (end.side = "client" /\ chan[c])

\* StreamIntact, with what makes it inductive: a packet without payload has no
\* bytes, a client's channel stays attached after its own CLOSE, and the entry in
\* Session::channels outlives the one in Encrypted::channels.
StreamOK(c) ==
  /\ WireOK(c)
  /\ Attached(c) => taken[c] = WireStart(c)
  /\ open[c] => chan[c]
  /\ chan[c] => Chain(inbound[c].queue, delivered[c], taken[c])
  /\ reader[c] => Chain(buf[c], read[c], delivered[c])

StreamInv == \A c \in Chan : StreamOK(c)

\* A channel that nothing happened to keeps its streams.
LEMMA StreamSame ==
  ASSUME NEW d \in Chan, StreamOK(d), Same(d), end' = end
  PROVE  StreamOK(d)'
  <1>1. WireOK(d)' BY DEF StreamOK, WireOK, WireStart, Same, PeerSame
  <1>2. WireStart(d)' = WireStart(d) BY DEF WireStart, Same, PeerSame
  <1>3. Attached(d)' = Attached(d) BY DEF Attached, Same, EntrySame
  <1>. QED
    BY <1>1, <1>2, <1>3 DEF StreamOK, Same, EntrySame, QueueSame, AppSame

\* A packet joins the wire at its end.
LEMMA WirePut ==
  ASSUME TypeOK, NEW c \in Chan, WireOK(c),
         NEW kind \in {"data", "eof", "close", "request", "adjust"}, NEW n \in Nat,
         kind # "data" => n = 0, Puts(c, kind, n)
  PROVE  WireOK(c)' /\ WireStart(c)' = WireStart(c)
  <1>. DEFINE x == Packet(c, kind, n)
  <1>1. wire[c] \in Seq(Item) /\ sent[c] \in Nat BY DEF TypeOK, PeerTypeOK
  <1>2. x \in Item /\ x.from = sent[c] /\ x.to = sent[c] + n /\ x.kind = kind /\ x.from <= x.to
    BY <1>1 DEF Packet, Item
  <1>3. wire'[c] = Append(wire[c], x) /\ sent'[c] = x.to BY <1>2 DEF Puts
  <1>. HIDE DEF x
  <1>4. Chain(wire[c], WireStart(c), sent[c]) BY DEF WireOK
  <1>5. /\ wire'[c] # <<>> /\ Chain(wire'[c], WireStart(c), sent'[c])
        /\ Head(wire'[c]) = IF wire[c] = <<>> THEN x ELSE Head(wire[c])
    BY <1>1, <1>2, <1>3, <1>4, ChainAppend
  <1>6. WireStart(c)' = WireStart(c) BY <1>2, <1>5 DEF WireStart
  <1>7. ASSUME NEW i \in 1 .. Len(wire'[c]), wire'[c][i].kind # "data"
        PROVE  wire'[c][i].from = wire'[c][i].to
    <2>1. /\ Len(wire'[c]) = Len(wire[c]) + 1 /\ Len(wire[c]) \in Nat
          /\ \A j \in 1 .. Len(wire[c]) : wire'[c][j] = wire[c][j]
          /\ wire'[c][Len(wire[c]) + 1] = x
      BY <1>1, <1>2, <1>3, AppendProperties
    <2>2. CASE i \in 1 .. Len(wire[c]) BY <1>7, <2>1, <2>2 DEF WireOK
    <2>3. CASE i = Len(wire[c]) + 1 BY <1>1, <1>2, <1>7, <2>1, <2>3
    <2>. QED BY <2>1, <2>2, <2>3
  <1>. QED BY <1>5, <1>6, <1>7 DEF WireOK

\* The packet that arrives starts where the wire starts.
LEMMA WireTake ==
  ASSUME TypeOK, NEW c \in Chan, WireOK(c), NEW kind, Arrives(c, kind)
  PROVE  LET item == Head(wire[c])
         IN  /\ item \in Item /\ item.kind = kind /\ item.from \in Nat /\ item.to \in Nat
             /\ item.from = WireStart(c) /\ item.from <= item.to /\ item.to <= sent[c]
             /\ kind # "data" => item.from = item.to
             /\ WireOK(c)' /\ WireStart(c)' = item.to
  <1>. DEFINE item == Head(wire[c])
  <1>1. /\ wire[c] \in Seq(Item) /\ sent[c] \in Nat /\ wire[c] # <<>> /\ item.kind = kind
        /\ wire'[c] = Tail(wire[c]) /\ sent'[c] = sent[c]
    BY DEF TypeOK, PeerTypeOK, Arrives
  <1>2. Chain(wire[c], WireStart(c), sent[c]) BY DEF WireOK
  <1>3. /\ item \in Item /\ item = wire[c][1] /\ item.from = WireStart(c)
        /\ WireStart(c) <= item.to /\ item.to <= sent[c] /\ item.to \in Nat
        /\ Tail(wire[c]) \in Seq(Item) /\ Chain(Tail(wire[c]), item.to, sent[c])
    BY <1>1, <1>2, ChainTail
  <1>4. /\ Len(Tail(wire[c])) = Len(wire[c]) - 1 /\ Len(wire[c]) \in Nat /\ Len(wire[c]) > 0
        /\ \A i \in 1 .. Len(Tail(wire[c])) : Tail(wire[c])[i] = wire[c][i + 1]
    BY <1>1, EmptySeq, HeadTailProperties
  <1>5. kind # "data" => item.from = item.to
    <2>1. 1 \in 1 .. Len(wire[c]) BY <1>4
    <2>. QED BY <1>1, <1>3, <2>1 DEF WireOK
  <1>. DEFINE t == Tail(wire[c])
  <1>. HIDE DEF t
  <1>6. t = Tail(wire[c]) BY DEF t
  <1>7. WireStart(c)' = item.to
    <2>1. WireStart(c)' = IF t = <<>> THEN sent[c] ELSE Head(t).from BY <1>1, <1>6 DEF WireStart
    <2>2. CASE t = <<>>
      <3>1. item.to = sent[c] BY <1>3, <1>6, <2>2 DEF Chain, Contiguous
      <3>. QED BY <2>1, <2>2, <3>1
    <2>3. CASE t # <<>>
      <3>1. t \in Seq(Item) /\ Chain(t, item.to, sent[c]) BY <1>3, <1>6
      <3>2. Head(t).from = item.to
        <4>. HIDE DEF item
        <4>. QED BY <2>3, <3>1, ChainTail
      <3>. QED BY <2>1, <2>3, <3>2
    <2>. QED BY <2>2, <2>3
  <1>8. ASSUME NEW i \in 1 .. Len(t), t[i].kind # "data" PROVE t[i].from = t[i].to
    <2>1. i + 1 \in 1 .. Len(wire[c]) /\ t[i] = wire[c][i + 1] BY <1>4, <1>6
    <2>. QED BY <1>8, <2>1 DEF WireOK
  <1>9. WireOK(c)' BY <1>1, <1>3, <1>6, <1>7, <1>8 DEF WireOK
  <1>10. item.from \in Nat /\ item.from <= item.to BY <1>3, ItemType
  <1>. QED BY <1>1, <1>3, <1>5, <1>7, <1>9, <1>10

\* What deliver_inbound does to an item that continues the stream.
LEMMA StreamDeliver ==
  ASSUME TypeOK, ReserveInv, NEW c \in Chan, NEW item \in Item, deliver_inbound(c, item),
         item.kind # "data" => item.from = item.to, item.from <= item.to,
         Delivery(c, item) # "Overflow" \/ item.from = item.to,
         StreamOK(c), chan[c] => item.from = taken[c],
         reader'[c] = reader[c], read'[c] = read[c]
  PROVE  /\ taken'[c] = item.to
         /\ chan[c] => Chain(inbound'[c].queue, delivered'[c], taken'[c])
         /\ reader'[c] => Chain(buf'[c], read'[c], delivered'[c])
  <1>1. /\ inbound[c] \in InboundQueue /\ inbound[c].queue \in Seq(Item)
        /\ buf[c] \in Seq(Item) /\ taken[c] \in Nat /\ delivered[c] \in Nat
        /\ item.from \in Nat /\ item.to \in Nat
    BY ItemType DEF TypeOK, QueueTypeOK, AppTypeOK, InboundQueue
  <1>2. /\ taken'[c] = item.to
        /\ \/ Nothing(c) /\ (item.from = item.to \/ ~chan[c])
           \/ Stored(c, item) \/ Gone(c, item) \/ Kept(c, item)
    BY DeliverEffects
  <1>3. /\ chan[c] => Chain(inbound[c].queue, delivered[c], taken[c])
        /\ reader[c] => Chain(buf[c], read[c], delivered[c])
    BY DEF StreamOK
  <1>4. CASE Nothing(c) /\ (item.from = item.to \/ ~chan[c])
    BY <1>2, <1>3, <1>4 DEF Nothing
  <1>5. ASSUME chan[c], inbound[c].queue = <<>>, inbound'[c] = inbound[c], delivered'[c] = item.to
        PROVE  /\ delivered[c] = taken[c]
               /\ Chain(inbound'[c].queue, delivered'[c], taken'[c])
    <2>1. delivered[c] = taken[c] BY <1>3, <1>5 DEF Chain, Contiguous
    <2>2. Chain(<<>>, item.to, item.to) BY <1>1, ChainEmpty
    <2>. QED BY <1>2, <1>5, <2>1, <2>2
  <1>6. CASE Stored(c, item)
    <2>1. /\ delivered[c] = taken[c] /\ Chain(inbound'[c].queue, delivered'[c], taken'[c])
      BY <1>5, <1>6 DEF Stored
    <2>2. Chain(Append(buf[c], item), read[c], item.to)
      BY <1>1, <1>3, <1>6, <2>1, ChainAppend DEF Stored
    <2>. QED BY <1>2, <1>6, <2>1, <2>2 DEF Stored
  <1>7. CASE Gone(c, item)
    BY <1>2, <1>5, <1>7 DEF Gone
  <1>8. CASE Kept(c, item)
    <2>1. inbound'[c].queue = Append(inbound[c].queue, item) BY <1>8 DEF Kept, Enqueued
    <2>2. Chain(Append(inbound[c].queue, item), delivered[c], item.to)
      BY <1>1, <1>3, <1>8, ChainAppend DEF Kept
    <2>. QED BY <1>2, <1>3, <1>8, <2>1, <2>2 DEF Kept
  <1>. QED BY <1>2, <1>4, <1>6, <1>7, <1>8

\* A mark with no bytes joins the buffer at its end.
LEMMA BufferMark ==
  ASSUME TypeOK, NEW c \in Chan, reader[c] => Chain(buf[c], read[c], delivered[c]),
         NEW x \in Item, x.from = delivered[c], x.to = delivered[c],
         buf'[c] = buf[c] \/ buf'[c] = Append(buf[c], x),
         reader'[c] = reader[c], read'[c] = read[c], delivered'[c] = delivered[c]
  PROVE  reader'[c] => Chain(buf'[c], read'[c], delivered'[c])
  <1>1. buf[c] \in Seq(Item) /\ delivered[c] \in Nat BY DEF TypeOK, AppTypeOK
  <1>2. reader[c] => Chain(Append(buf[c], x), read[c], delivered[c])
    <2>. SUFFICES ASSUME reader[c] PROVE Chain(Append(buf[c], x), read[c], delivered[c]) OBVIOUS
    <2>1. Chain(Append(buf[c], x), read[c], x.to) BY <1>1, ChainAppend
    <2>. QED BY <2>1
  <1>. QED BY <1>2

\* The CHANNEL_* arms keep the streams whole.
LEMMA StreamRecv ==
  ASSUME TypeOK, ReserveInv, NEW c \in Chan, StreamOK(c), Recv(c), end' = end
  PROVE  StreamOK(c)'
  <1>. DEFINE item == Head(wire[c])
  <1>1. WireOK(c) /\ (open[c] => chan[c]) BY DEF StreamOK
  <1>2. /\ taken[c] \in Nat /\ delivered[c] \in Nat /\ read[c] \in Nat
        /\ buf[c] \in Seq(Item) /\ inbound[c].queue \in Seq(Item)
    BY DEF TypeOK, QueueTypeOK, AppTypeOK, InboundQueue
  <1>3. ASSUME NEW kind \in {"data", "eof", "request", "adjust"}, Arrives(c, kind), Ignores(c),
               kind = "data" => ~Attached(c)
        PROVE  StreamOK(c)'
    <2>1. /\ WireOK(c)' /\ WireStart(c)' = item.to /\ item.from = WireStart(c)
          /\ kind # "data" => item.from = item.to
      BY <1>1, <1>3, WireTake
    <2>2. Attached(c)' = Attached(c) BY <1>3 DEF Ignores, EntrySame, Attached
    <2>3. Attached(c)' => taken'[c] = WireStart(c)'
      BY <1>3, <2>1, <2>2 DEF StreamOK, Ignores, QueueSame
    <2>. QED BY <1>3, <2>1, <2>3 DEF StreamOK, Ignores, EntrySame, QueueSame, AppSame
  <1>4. ASSUME NEW kind \in {"data", "eof", "request", "adjust"}, RecvIgnored(c, kind)
        PROVE  StreamOK(c)'
    <2>1. Arrives(c, kind) /\ ~Accepts(c, kind) /\ Ignores(c) BY <1>4, OtherEffects
    <2>2. kind = "data" => ~Attached(c) BY <2>1 DEF Accepts, Attached
    <2>. QED BY <1>3, <2>1, <2>2
  <1>5. CASE RecvRequest(c)
    BY <1>3, <1>5, OtherEffects
  <1>6. CASE RecvData(c)
    <2>. DEFINE win == consume_recv_window(c, byte_len(item))
    <2>1. /\ Arrives(c, "data") /\ Accepts(c, "data")
          /\ TakesData(c, item, win) \/ Overflows(c, item, win)
      BY <1>6, DataEffects
    <2>2. /\ item \in Item /\ item.kind = "data" /\ item.from \in Nat /\ item.to \in Nat
          /\ item.from = WireStart(c) /\ item.from <= item.to
          /\ WireOK(c)' /\ WireStart(c)' = item.to
      BY <1>1, <2>1, WireTake
    <2>3. chan[c] => Attached(c) BY <2>1 DEF Accepts, Attached
    <2>4. chan[c] => item.from = taken[c] BY <2>2, <2>3 DEF StreamOK
    <2>5. reader'[c] = reader[c] /\ read'[c] = read[c] BY <2>1 DEF Arrives
    <2>. HIDE DEF item, win
    <2>6. CASE TakesData(c, item, win)
      <3>1. deliver_inbound(c, item) /\ Delivery(c, item) # "Overflow" /\ EntrySame(c)
        BY <2>6 DEF TakesData
      <3>2. /\ taken'[c] = item.to
            /\ chan[c] => Chain(inbound'[c].queue, delivered'[c], taken'[c])
            /\ reader'[c] => Chain(buf'[c], read'[c], delivered'[c])
        BY <2>2, <2>4, <2>5, <3>1, StreamDeliver
      <3>3. chan'[c] = chan[c] /\ open'[c] = open[c] BY <3>1 DEF EntrySame
      <3>. QED BY <1>1, <2>2, <3>2, <3>3 DEF StreamOK
    <2>7. CASE Overflows(c, item, win)
      <3>1. /\ ~open'[c] /\ ~chan'[c] /\ buf'[c] = buf[c] /\ delivered'[c] = delivered[c]
        BY <2>7 DEF Overflows, Removed
      <3>2. ~Attached(c)' BY <3>1 DEF Attached
      <3>. QED BY <2>2, <2>5, <3>1, <3>2 DEF StreamOK
    <2>. QED BY <2>1, <2>6, <2>7
  <1>7. CASE RecvEof(c)
    <2>1. /\ Arrives(c, "eof") /\ Accepts(c, "eof") /\ deliver_inbound(c, item) /\ EntrySame(c)
      BY <1>7, EofEffects
    <2>2. /\ item \in Item /\ item.kind = "eof" /\ item.from \in Nat /\ item.to \in Nat
          /\ item.from = WireStart(c) /\ item.from = item.to
          /\ WireOK(c)' /\ WireStart(c)' = item.to
      BY <1>1, <2>1, WireTake
    <2>3. chan[c] => Attached(c) BY <2>1 DEF Accepts, Attached
    <2>4. chan[c] => item.from = taken[c] BY <2>2, <2>3 DEF StreamOK
    <2>5. reader'[c] = reader[c] /\ read'[c] = read[c] BY <2>1 DEF Arrives
    <2>. HIDE DEF item
    <2>6. item.from <= item.to BY <2>2
    <2>7. /\ taken'[c] = item.to
          /\ chan[c] => Chain(inbound'[c].queue, delivered'[c], taken'[c])
          /\ reader'[c] => Chain(buf'[c], read'[c], delivered'[c])
      BY <2>1, <2>2, <2>4, <2>5, <2>6, StreamDeliver
    <2>8. chan'[c] = chan[c] /\ open'[c] = open[c] BY <2>1 DEF EntrySame
    <2>. QED BY <1>1, <2>2, <2>7, <2>8 DEF StreamOK
  <1>8. CASE RecvClose(c)
    <2>. DEFINE x == CloseItem(c)
    <2>1. /\ Arrives(c, "close")
          /\ \/ /\ ~open[c] /\ ~chan[c] /\ ~open'[c] /\ ~chan'[c] /\ QueueSame(c) /\ AppSame(c)
             \/ /\ open[c] \/ chan[c]
                /\ deliver_inbound(c, x) /\ Delivery(c, x) = "Queued"
                /\ ~open'[c] /\ chan'[c] = chan[c]
             \/ /\ (open[c] \/ chan[c]) /\ Removed(c) /\ taken'[c] = taken[c]
                /\ delivered'[c] = delivered[c]
                /\ \/ buf'[c] = buf[c]
                   \/ reader[c] /\ inbound[c].queue = <<>> /\ buf'[c] = Append(buf[c], x)
      BY <1>8, CloseEffects
    <2>2. /\ item.from = WireStart(c) /\ item.from = item.to
          /\ WireOK(c)' /\ WireStart(c)' = item.to
      BY <1>1, <2>1, WireTake
    <2>3. /\ x \in Item /\ x.kind = "close" /\ x.from = taken[c] /\ x.to = taken[c]
          /\ x.from <= x.to
      BY <1>2 DEF CloseItem, Item
    <2>4. reader'[c] = reader[c] /\ read'[c] = read[c] BY <2>1 DEF Arrives
    <2>5. CASE /\ ~open[c] /\ ~chan[c] /\ ~open'[c] /\ ~chan'[c] /\ QueueSame(c) /\ AppSame(c)
      <3>1. ~Attached(c)' BY <2>5 DEF Attached
      <3>. QED BY <2>2, <2>5, <3>1 DEF StreamOK, AppSame
    <2>6. CASE /\ open[c] \/ chan[c]
               /\ deliver_inbound(c, x) /\ Delivery(c, x) = "Queued"
               /\ ~open'[c] /\ chan'[c] = chan[c]
      <3>. HIDE DEF x
      <3>1. /\ taken'[c] = x.to
            /\ chan[c] => Chain(inbound'[c].queue, delivered'[c], taken'[c])
            /\ reader'[c] => Chain(buf'[c], read'[c], delivered'[c])
        BY <2>3, <2>4, <2>6, StreamDeliver
      <3>2. Attached(c)' => Attached(c) BY <2>6 DEF Attached
      <3>. QED BY <2>2, <2>3, <2>6, <3>1, <3>2 DEF StreamOK
    <2>7. CASE /\ (open[c] \/ chan[c]) /\ Removed(c) /\ taken'[c] = taken[c]
               /\ delivered'[c] = delivered[c]
               /\ \/ buf'[c] = buf[c]
                  \/ reader[c] /\ inbound[c].queue = <<>> /\ buf'[c] = Append(buf[c], x)
      <3>1. ~open'[c] /\ ~chan'[c] /\ ~Attached(c)' BY <2>7 DEF Removed, Attached
      <3>2. CASE buf'[c] = buf[c] BY <2>2, <2>4, <2>7, <3>1, <3>2 DEF StreamOK
      <3>3. CASE reader[c] /\ inbound[c].queue = <<>> /\ buf'[c] = Append(buf[c], x)
        <4>1. chan[c] /\ Chain(<<>>, delivered[c], taken[c]) BY <1>1, <2>7, <3>3 DEF StreamOK
        <4>2. delivered[c] = taken[c] BY <4>1 DEF Chain, Contiguous
        <4>3. reader[c] => Chain(buf[c], read[c], delivered[c]) BY DEF StreamOK
        <4>. HIDE DEF x
        <4>4. reader'[c] => Chain(buf'[c], read'[c], delivered'[c])
          BY <2>3, <2>4, <2>7, <3>3, <4>2, <4>3, BufferMark
        <4>. QED BY <2>2, <3>1, <4>4 DEF StreamOK
      <3>. QED BY <2>7, <3>2, <3>3
    <2>. QED BY <2>1, <2>5, <2>6, <2>7
  <1>9. CASE RecvWindowAdjust(c)
    <2>1. Arrives(c, "adjust") /\ Tells(c, "adjust") /\ open[c] BY <1>9, OtherEffects
    <2>2. /\ item.from = WireStart(c) /\ item.from = item.to
          /\ WireOK(c)' /\ WireStart(c)' = item.to
      BY <1>1, <2>1, WireTake
    <2>3. /\ Mark(c, "adjust") \in Item /\ Mark(c, "adjust").from = delivered[c]
          /\ Mark(c, "adjust").to = delivered[c]
      BY <1>2 DEF Mark, Item
    <2>4. reader'[c] => Chain(buf'[c], read'[c], delivered'[c])
      BY <2>1, <2>3, BufferMark DEF StreamOK, Tells
    <2>5. Attached(c) BY <2>1 DEF Attached
    <2>6. /\ taken'[c] = taken[c] /\ inbound'[c] = inbound[c] /\ chan'[c] = chan[c]
          /\ delivered'[c] = delivered[c] /\ chan[c]
      BY <1>1, <2>1 DEF Tells, QueueSame
    <2>. QED BY <2>2, <2>4, <2>5, <2>6 DEF StreamOK
  <1>. QED BY <1>4, <1>5, <1>6, <1>7, <1>8, <1>9 DEF Recv

\* pump_inbound moves the head of the backlog over, or gives the backlog up.
LEMMA StreamPump ==
  ASSUME TypeOK, NEW c \in Chan, StreamOK(c), inbound[c].queue # <<>> => chan[c], Pump(c),
         end' = end
  PROVE  StreamOK(c)'
  <1>. DEFINE item == Head(inbound[c].queue)
              q == inbound[c].queue
  <1>1. /\ taken[c] \in Nat /\ delivered[c] \in Nat /\ read[c] \in Nat
        /\ buf[c] \in Seq(Item) /\ q \in Seq(Item)
    BY DEF TypeOK, QueueTypeOK, AppTypeOK, InboundQueue
  <1>2. \/ /\ Pumps(c, item) /\ inbound'[c] = Dequeued(inbound[c])
           /\ open'[c] = open[c] /\ chan'[c] = chan[c]
        \/ Pumps(c, item) /\ Removed(c)
        \/ /\ ~reader[c] /\ q # <<>> /\ PeerSame(c)
           /\ taken'[c] = taken[c] /\ reader'[c] = reader[c] /\ delivered'[c] = taken[c]
           /\ \/ Removed(c)
              \/ inbound'[c] = EmptyQueue /\ open'[c] = open[c] /\ chan'[c] = chan[c]
        \/ Same(c)
    BY PumpEffects
  <1>3. /\ PeerSame(c) => WireOK(c)' /\ WireStart(c)' = WireStart(c)
    BY DEF StreamOK, WireOK, WireStart, PeerSame
  <1>. HIDE DEF item
  <1>4. ASSUME Pumps(c, item)
        PROVE  /\ Chain(Tail(q), item.to, taken[c])
               /\ reader'[c] => Chain(buf'[c], read'[c], delivered'[c])
    <2>1. q # <<>> /\ item = Head(q) /\ Chain(q, delivered[c], taken[c])
      BY <1>4 DEF Pumps, StreamOK
    <2>2. /\ item \in Item /\ item.from = delivered[c] /\ delivered[c] <= item.to
          /\ Chain(Tail(q), item.to, taken[c])
      BY <1>1, <2>1, ChainTail
    <2>3. reader[c] => Chain(Append(buf[c], item), read[c], item.to)
      <3>. SUFFICES ASSUME reader[c] PROVE Chain(Append(buf[c], item), read[c], item.to) OBVIOUS
      <3>1. Chain(buf[c], read[c], delivered[c]) BY DEF StreamOK
      <3>. QED BY <1>1, <2>2, <3>1, ChainAppend
    <2>. QED BY <1>4, <2>2, <2>3 DEF Pumps
  <1>5. CASE /\ Pumps(c, item) /\ inbound'[c] = Dequeued(inbound[c])
             /\ open'[c] = open[c] /\ chan'[c] = chan[c]
    <2>1. inbound'[c].queue = Tail(q) BY <1>5 DEF Dequeued
    <2>2. Attached(c)' = Attached(c) BY <1>5 DEF Attached
    <2>3. PeerSame(c) /\ taken'[c] = taken[c] /\ delivered'[c] = item.to BY <1>5 DEF Pumps
    <2>. QED BY <1>3, <1>4, <1>5, <2>1, <2>2, <2>3 DEF StreamOK
  <1>6. CASE Pumps(c, item) /\ Removed(c)
    <2>1. ~open'[c] /\ ~chan'[c] /\ ~Attached(c)' BY <1>6 DEF Removed, Attached
    <2>2. PeerSame(c) BY <1>6 DEF Pumps
    <2>. QED BY <1>3, <1>4, <1>6, <2>1, <2>2 DEF StreamOK
  <1>7. CASE /\ ~reader[c] /\ q # <<>> /\ PeerSame(c)
             /\ taken'[c] = taken[c] /\ reader'[c] = reader[c] /\ delivered'[c] = taken[c]
             /\ \/ Removed(c)
                \/ inbound'[c] = EmptyQueue /\ open'[c] = open[c] /\ chan'[c] = chan[c]
    <2>1. CASE Removed(c)
      <3>1. ~open'[c] /\ ~chan'[c] /\ ~Attached(c)' BY <2>1 DEF Removed, Attached
      <3>. QED BY <1>3, <1>7, <3>1 DEF StreamOK
    <2>2. CASE inbound'[c] = EmptyQueue /\ open'[c] = open[c] /\ chan'[c] = chan[c]
      <3>1. Attached(c)' = Attached(c) BY <2>2 DEF Attached
      <3>2. inbound'[c].queue = <<>> BY <2>2 DEF EmptyQueue
      <3>3. Chain(<<>>, taken[c], taken[c]) BY <1>1, ChainEmpty
      <3>4. Chain(inbound'[c].queue, delivered'[c], taken'[c]) BY <1>7, <3>2, <3>3
      <3>. QED BY <1>3, <1>7, <2>2, <3>1, <3>4 DEF StreamOK
    <2>. QED BY <1>7, <2>1, <2>2
  <1>8. CASE Same(c) BY <1>8, StreamSame
  <1>. QED BY <1>2, <1>5, <1>6, <1>7, <1>8

\* So do the peer, a close by this side and the application.
LEMMA StreamLocal ==
  ASSUME TypeOK, ReserveInv, NEW c \in Chan, StreamOK(c), end' = end,
         \/ PeerSend(c) \/ PeerRecvAdjust(c) \/ RequestSent(c) \/ PumpRearm(c)
         \/ LocalClose(c) \/ OutboundCapClose(c) \/ AppRead(c) \/ AppDrop(c)
  PROVE  StreamOK(c)'
  <1>1. /\ taken[c] \in Nat /\ delivered[c] \in Nat /\ read[c] \in Nat
        /\ buf[c] \in Seq(Item) /\ inbound[c] \in InboundQueue
    BY DEF TypeOK, QueueTypeOK, AppTypeOK
  <1>2. /\ PeerSame(c) => WireOK(c)' /\ WireStart(c)' = WireStart(c)
    BY DEF StreamOK, WireOK, WireStart, PeerSame
  <1>3. EntrySame(c) => Attached(c)' = Attached(c) BY DEF EntrySame, Attached
  <1>4. ASSUME NEW kind \in {"data", "eof", "close", "request", "adjust"}, NEW n \in Nat,
               kind # "data" => n = 0, Puts(c, kind, n)
        PROVE  StreamOK(c)'
    <2>1. WireOK(c)' /\ WireStart(c)' = WireStart(c)
      BY <1>4, WirePut DEF StreamOK
    <2>. QED BY <1>3, <1>4, <2>1 DEF StreamOK, Puts, EntrySame, QueueSame, AppSame
  <1>5. CASE PeerSend(c)
    <2>1. \/ \E n \in Nat : Puts(c, "data", n)
          \/ \E kind \in {"eof", "close", "request", "adjust"} : Puts(c, kind, 0)
      BY <1>5, PutEffects
    <2>. QED BY <1>4, <2>1
  <1>6. CASE PeerRecvAdjust(c)
    <2>1. /\ EntrySame(c) /\ QueueSame(c) /\ AppSame(c)
          /\ sent'[c] = sent[c] /\ wire'[c] = wire[c]
      BY <1>6, AdjustEffects
    <2>2. WireOK(c)' /\ WireStart(c)' = WireStart(c) BY <2>1 DEF StreamOK, WireOK, WireStart
    <2>. QED BY <1>3, <2>1, <2>2 DEF StreamOK, EntrySame, QueueSame, AppSame
  <1>7. CASE RequestSent(c)
    <2>1. PeerSame(c) /\ Tells(c, "request") /\ open'[c] = open[c] BY <1>7, OtherEffects
    <2>2. /\ Mark(c, "request") \in Item /\ Mark(c, "request").from = delivered[c]
          /\ Mark(c, "request").to = delivered[c]
      BY <1>1 DEF Mark, Item
    <2>3. reader'[c] => Chain(buf'[c], read'[c], delivered'[c])
      BY <2>1, <2>2, BufferMark DEF StreamOK, Tells
    <2>4. /\ taken'[c] = taken[c] /\ inbound'[c] = inbound[c] /\ chan'[c] = chan[c]
          /\ delivered'[c] = delivered[c] /\ EntrySame(c)
      BY <2>1 DEF Tells, QueueSame, EntrySame
    <2>. QED BY <1>2, <1>3, <2>1, <2>3, <2>4 DEF StreamOK
  <1>8. CASE PumpRearm(c)
    <2>1. /\ PeerSame(c) /\ EntrySame(c) /\ AppSame(c) /\ taken'[c] = taken[c]
          /\ \/ /\ inbound[c].queue # <<>>
                /\ inbound'[c] = [inbound[c] EXCEPT !.reserving = TRUE]
             \/ inbound[c].queue = <<>> /\ inbound'[c] = EmptyQueue
      BY <1>8, RearmEffects
    <2>2. inbound'[c].queue = inbound[c].queue BY <1>1, <2>1 DEF EmptyQueue, InboundQueue
    <2>. QED BY <1>2, <1>3, <2>1, <2>2 DEF StreamOK, EntrySame, AppSame
  <1>9. CASE LocalClose(c) \/ OutboundCapClose(c)
    <2>1. /\ PeerSame(c) /\ AppSame(c) /\ taken'[c] = taken[c]
          /\ \/ open'[c] = open[c] /\ chan'[c] = chan[c] /\ inbound'[c] = inbound[c]
             \/ Removed(c)
             \/ ~open'[c] /\ chan'[c] = chan[c] /\ inbound'[c] = inbound[c]
      BY <1>9, CloseLocallyEffects
    <2>2. /\ chan'[c] => chan[c] /\ inbound'[c] = inbound[c]
          /\ open'[c] => open[c] /\ chan'[c] = chan[c]
      BY <2>1 DEF Removed
    <2>3. Attached(c)' => Attached(c) BY <2>2 DEF Attached
    <2>. QED BY <1>2, <2>1, <2>2, <2>3 DEF StreamOK, AppSame
  <1>10. CASE AppRead(c) \/ AppDrop(c)
    <2>1. /\ PeerSame(c) /\ EntrySame(c) /\ QueueSame(c)
          /\ delivered'[c] = delivered[c] /\ reader[c]
          /\ \/ /\ reader'[c] /\ buf[c] # <<>> /\ read'[c] = Head(buf[c]).to
                /\ buf'[c] = Tail(buf[c])
             \/ ~reader'[c] /\ read'[c] = read[c]
      BY <1>10, AppEffects
    <2>2. reader'[c] => Chain(buf'[c], read'[c], delivered'[c])
      <3>1. Chain(buf[c], read[c], delivered[c]) BY <2>1 DEF StreamOK
      <3>2. buf[c] # <<>> => Chain(Tail(buf[c]), Head(buf[c]).to, delivered[c])
        BY <1>1, <3>1, ChainTail
      <3>. QED BY <2>1, <3>2
    <2>. QED BY <1>2, <1>3, <2>1, <2>2 DEF StreamOK, EntrySame, QueueSame
  <1>. QED BY <1>5, <1>6, <1>7, <1>8, <1>9, <1>10

LEMMA StreamNext == TypeOK /\ ReserveInv /\ StreamInv /\ [Next]_vars => StreamInv'
  <1>. SUFFICES ASSUME TypeOK, ReserveInv, StreamInv, [Next]_vars, NEW d \in Chan
                PROVE  StreamOK(d)'
    BY DEF StreamInv
  <1>1. StreamOK(d) /\ end' = end BY EndStays DEF StreamInv
  <1>2. CASE Same(d) BY <1>1, <1>2, StreamSame
  <1>3. inbound[d].queue # <<>> => chan[d] BY DEF ReserveInv, OneReserve
  <1>4. CASE \/ PeerSend(d) \/ PeerRecvAdjust(d) \/ Recv(d) \/ RequestSent(d)
             \/ Pump(d) \/ PumpRearm(d) \/ LocalClose(d) \/ OutboundCapClose(d)
             \/ AppRead(d) \/ AppDrop(d)
    BY <1>1, <1>3, <1>4, StreamRecv, StreamPump, StreamLocal
  <1>. QED BY <1>2, <1>4, OneChannel DEF OthersSame

LEMMA StreamInit == Init => StreamInv
  <1>. SUFFICES ASSUME Init, NEW c \in Chan PROVE StreamOK(c) BY DEF StreamInv
  <1>1. /\ wire[c] = <<>> /\ sent[c] = 0 /\ taken[c] = 0 /\ inbound[c].queue = <<>>
        /\ delivered[c] = 0 /\ read[c] = 0 /\ buf[c] = <<>> /\ chan[c]
    BY DEF Init, EmptyQueue
  <1>2. Chain(<<>>, 0, 0) BY ChainEmpty
  <1>3. WireStart(c) = 0 BY <1>1 DEF WireStart
  <1>4. WireOK(c)
    <2>1. \A i \in 1 .. Len(wire[c]) : FALSE BY <1>1
    <2>. QED BY <1>1, <1>2, <1>3, <2>1 DEF WireOK
  <1>. QED BY <1>1, <1>2, <1>3, <1>4 DEF StreamOK

\* I5 for every instance: whatever the peer sends and however the reserves, the
\* reads and the closes fall, what was read, the buffer, the backlog and the wire
\* are one byte stream in order.
THEOREM StreamAlwaysIntact == Spec => []StreamIntact
  <1>1. StreamInv => StreamIntact
    BY DEF StreamInv, StreamOK, StreamIntact, WireOK, Chain, Attached
  <1>. QED
    BY <1>1, InitTypes, NextTypes, ReserveInit, ReserveNext, StreamInit, StreamNext, PTL DEF Spec
-----------------------------------------------------------------------------
(* The size of a backlog. *)

\* 1 if one of the items i .. j of s is of the kind, 0 otherwise.
Has(s, kind, i, j) == IF \E k \in i .. j : s[k].kind = kind THEN 1 ELSE 0

\* No stretch of the queue has more items than bytes, but for an Eof and a Close.
Counted(s) ==
  \A i, j \in 1 .. Len(s) : i <= j =>
    j - i + 1 <= s[j].to - s[i].from + Has(s, "eof", i, j) + Has(s, "close", i, j)

\* Every item has bytes or is an Eof or a Close that the entry remembers.
Remembered(e) ==
  \A i \in 1 .. Len(e.queue) :
    \/ e.queue[i].kind = "data" /\ e.queue[i].from < e.queue[i].to
    \/ e.queue[i].kind = "eof" /\ e.eof_queued /\ e.queue[i].from = e.queue[i].to
    \/ e.queue[i].kind = "close" /\ e.close_queued /\ e.queue[i].from = e.queue[i].to

\* BacklogBounded, with what makes it inductive: pending_bytes counts exactly the
\* bytes taken and not delivered, and only deduplicated marks have none.
BacklogOK(c) ==
  /\ inbound[c].pending_bytes = IF chan[c] THEN taken[c] - delivered[c] ELSE 0
  /\ inbound[c].pending_bytes <= PendingCap
  /\ ~chan[c] => inbound[c].queue = <<>>
  /\ Remembered(inbound[c])
  /\ Counted(inbound[c].queue)

BacklogInv == \A c \in Chan : BacklogOK(c)

\* One more item with bytes, or the first Eof or Close, keeps the count.
LEMMA CountedAppend ==
  ASSUME NEW s \in Seq(Item), NEW lo, NEW hi, Chain(s, lo, hi), Counted(s),
         NEW x \in Item, x.from = hi,
         \/ x.kind = "data" /\ x.from < x.to
         \/ /\ x.kind \in {"eof", "close"} /\ x.from = x.to
            /\ \A i \in 1 .. Len(s) : s[i].kind # x.kind
  PROVE  Counted(Append(s, x))
  <1>. DEFINE t == Append(s, x)
              n == Len(s)
  <1>1. /\ Len(t) = n + 1 /\ n \in Nat /\ t[n + 1] = x
        /\ \A i \in 1 .. n : t[i] = s[i]
    BY AppendProperties
  <1>2. /\ \A i \in 1 .. n : s[i].from \in Nat /\ s[i].to \in Nat
        /\ x.from \in Nat /\ x.to \in Nat
    BY ItemType
  <1>. HIDE DEF t
  <1>3. SUFFICES ASSUME NEW i \in 1 .. Len(t), NEW j \in 1 .. Len(t), i <= j
                 PROVE  j - i + 1 <= t[j].to - t[i].from + Has(t, "eof", i, j)
                                                         + Has(t, "close", i, j)
    BY DEF Counted, t
  <1>4. ASSUME NEW kind, NEW k \in 1 .. n, i <= k
        PROVE  Has(t, kind, i, k) = Has(s, kind, i, k) /\ Has(s, kind, i, k) \in {0, 1}
    <2>1. \A m \in i .. k : t[m] = s[m] BY <1>1, <1>3, <1>4
    <2>. QED BY <2>1 DEF Has
  <1>5. CASE j \in 1 .. n
    <2>1. i \in 1 .. n /\ t[i] = s[i] /\ t[j] = s[j] BY <1>1, <1>3, <1>5
    <2>2. j - i + 1 <= s[j].to - s[i].from + Has(s, "eof", i, j) + Has(s, "close", i, j)
      BY <1>3, <1>5, <2>1 DEF Counted
    <2>3. /\ Has(t, "eof", i, j) = Has(s, "eof", i, j)
          /\ Has(t, "close", i, j) = Has(s, "close", i, j)
      BY <1>3, <1>4, <1>5
    <2>. QED BY <2>1, <2>2, <2>3
  <1>6. ASSUME j = n + 1, i \in 1 .. n
        PROVE  j - i + 1 <= t[j].to - t[i].from + Has(t, "eof", i, j) + Has(t, "close", i, j)
    <2>1. n \in 1 .. n /\ n >= 1 /\ i <= n BY <1>1, <1>6
    <2>2. s # <<>> BY <2>1
    <2>3. s[n].to = hi BY <2>2 DEF Chain, Contiguous
    <2>4. n - i + 1 <= hi - s[i].from + Has(s, "eof", i, n) + Has(s, "close", i, n)
      BY <1>6, <2>1, <2>3 DEF Counted
    <2>5. t[j] = x /\ t[i] = s[i] /\ s[i].from \in Nat BY <1>1, <1>2, <1>6
    <2>6. ASSUME NEW kind
          PROVE  /\ Has(t, kind, i, j) \in {0, 1} /\ Has(s, kind, i, n) \in {0, 1}
                 /\ Has(t, kind, i, j) >= Has(s, kind, i, n)
                 /\ x.kind = kind => Has(t, kind, i, j) = 1
      <3>1. \A m \in i .. n : m \in i .. j /\ t[m] = s[m] BY <1>1, <1>6, <2>1
      <3>2. j \in i .. j BY <1>1, <1>6, <2>1
      <3>. QED BY <2>5, <3>1, <3>2 DEF Has
    <2>9. n \in Nat /\ i \in Nat /\ hi \in Nat /\ t[i].from = s[i].from /\ t[i].from \in Nat
      BY <1>1, <1>2, <1>6, <2>5
    <2>7. CASE x.kind = "data" /\ x.from < x.to
      <3>1. /\ Has(t, "eof", i, j) >= Has(s, "eof", i, n)
            /\ Has(t, "eof", i, j) \in {0, 1} /\ Has(s, "eof", i, n) \in {0, 1}
            /\ Has(t, "close", i, j) >= Has(s, "close", i, n)
            /\ Has(t, "close", i, j) \in {0, 1} /\ Has(s, "close", i, n) \in {0, 1}
        BY <2>6
      <3>2. hi + 1 <= t[j].to /\ t[j].to \in Nat BY <1>2, <2>5, <2>7
      <3>. DEFINE e == Has(s, "eof", i, n)
                  f == Has(t, "eof", i, j)
                  d == Has(s, "close", i, n)
                  g == Has(t, "close", i, j)
                  from == t[i].from
                  to == t[j].to
      <3>3. /\ e \in {0, 1} /\ f \in {0, 1} /\ d \in {0, 1} /\ g \in {0, 1}
            /\ e <= f /\ d <= g /\ from \in Nat /\ to \in Nat /\ hi + 1 <= to
            /\ n - i + 1 <= hi - from + e + d
        BY <2>4, <2>9, <3>1, <3>2
      <3>. HIDE DEF e, f, d, g, from, to
      <3>4. (n + 1) - i + 1 <= to - from + f + g BY <2>9, <3>3
      <3>. QED BY <1>6, <3>4 DEF f, g, from, to
    <2>8. CASE /\ x.kind \in {"eof", "close"} /\ x.from = x.to
               /\ \A k \in 1 .. Len(s) : s[k].kind # x.kind
      <3>1. \A m \in i .. n : m \in 1 .. n BY <1>1, <1>6
      <3>2. Has(s, x.kind, i, n) = 0 BY <2>8, <3>1 DEF Has
      <3>3. Has(t, x.kind, i, j) = 1 BY <2>6
      <3>4. CASE x.kind = "eof"
        <4>1. Has(s, "eof", i, n) = 0 /\ Has(t, "eof", i, j) = 1 BY <3>2, <3>3, <3>4
        <4>2. /\ Has(t, "close", i, j) >= Has(s, "close", i, n)
              /\ Has(t, "close", i, j) \in {0, 1} /\ Has(s, "close", i, n) \in {0, 1}
          BY <2>6
        <4>3. hi = t[j].to /\ t[j].to \in Nat BY <1>2, <2>5, <2>8
        <4>. DEFINE e == Has(s, "eof", i, n)
                    f == Has(t, "eof", i, j)
                    d == Has(s, "close", i, n)
                    g == Has(t, "close", i, j)
                    from == t[i].from
                    to == t[j].to
        <4>4. /\ e \in {0, 1} /\ f \in {0, 1} /\ d \in {0, 1} /\ g \in {0, 1}
              /\ e + d + 1 <= f + g /\ from \in Nat /\ to \in Nat /\ hi = to
              /\ n - i + 1 <= hi - from + e + d
          BY <2>4, <2>9, <4>1, <4>2, <4>3
        <4>. HIDE DEF e, f, d, g, from, to
        <4>5. (n + 1) - i + 1 <= to - from + f + g BY <2>9, <4>4
        <4>. QED BY <1>6, <4>5 DEF f, g, from, to
      <3>5. CASE x.kind = "close"
        <4>1. Has(s, "close", i, n) = 0 /\ Has(t, "close", i, j) = 1 BY <3>2, <3>3, <3>5
        <4>2. /\ Has(t, "eof", i, j) >= Has(s, "eof", i, n)
              /\ Has(t, "eof", i, j) \in {0, 1} /\ Has(s, "eof", i, n) \in {0, 1}
          BY <2>6
        <4>3. hi = t[j].to /\ t[j].to \in Nat BY <1>2, <2>5, <2>8
        <4>. DEFINE e == Has(s, "eof", i, n)
                    f == Has(t, "eof", i, j)
                    d == Has(s, "close", i, n)
                    g == Has(t, "close", i, j)
                    from == t[i].from
                    to == t[j].to
        <4>4. /\ e \in {0, 1} /\ f \in {0, 1} /\ d \in {0, 1} /\ g \in {0, 1}
              /\ e + d + 1 <= f + g /\ from \in Nat /\ to \in Nat /\ hi = to
              /\ n - i + 1 <= hi - from + e + d
          BY <2>4, <2>9, <4>1, <4>2, <4>3
        <4>. HIDE DEF e, f, d, g, from, to
        <4>5. (n + 1) - i + 1 <= to - from + f + g BY <2>9, <4>4
        <4>. QED BY <1>6, <4>5 DEF f, g, from, to
      <3>. QED BY <2>8, <3>4, <3>5
    <2>. QED BY <2>7, <2>8
  <1>7. ASSUME j = n + 1, i = n + 1
        PROVE  j - i + 1 <= t[j].to - t[i].from + Has(t, "eof", i, j) + Has(t, "close", i, j)
    <2>1. t[i] = x /\ t[j] = x /\ j \in i .. j BY <1>1, <1>7
    <2>2. \A kind : Has(t, kind, i, j) \in {0, 1} /\ (x.kind = kind => Has(t, kind, i, j) = 1)
      BY <2>1 DEF Has
    <2>3. x.from < x.to \/ Has(t, "eof", i, j) = 1 \/ Has(t, "close", i, j) = 1 BY <2>2
    <2>4. Has(t, "eof", i, j) \in {0, 1} /\ Has(t, "close", i, j) \in {0, 1} BY <2>2
    <2>5. x.from <= x.to BY <1>2
    <2>. QED BY <1>1, <1>2, <1>7, <2>1, <2>3, <2>4, <2>5
  <1>. QED BY <1>1, <1>3, <1>5, <1>6, <1>7

\* So does one item less.
LEMMA CountedTail ==
  ASSUME NEW s \in Seq(Item), s # <<>>, Counted(s)
  PROVE  Counted(Tail(s))
  <1>. DEFINE t == Tail(s)
  <1>1. /\ Len(t) = Len(s) - 1 /\ Len(s) \in Nat /\ \A i \in 1 .. Len(t) : t[i] = s[i + 1]
    BY EmptySeq, HeadTailProperties
  <1>. HIDE DEF t
  <1>2. SUFFICES ASSUME NEW i \in 1 .. Len(t), NEW j \in 1 .. Len(t), i <= j
                 PROVE  j - i + 1 <= t[j].to - t[i].from + Has(t, "eof", i, j)
                                                         + Has(t, "close", i, j)
    BY DEF Counted, t
  <1>3. /\ i + 1 \in 1 .. Len(s) /\ j + 1 \in 1 .. Len(s) /\ i + 1 <= j + 1
        /\ t[i] = s[i + 1] /\ t[j] = s[j + 1] /\ (j + 1) - (i + 1) = j - i
    BY <1>1, <1>2
  <1>4. ASSUME NEW kind PROVE Has(t, kind, i, j) = Has(s, kind, i + 1, j + 1)
    <2>1. ASSUME NEW k \in i .. j PROVE k + 1 \in i + 1 .. j + 1 /\ t[k] = s[k + 1]
      BY <1>1, <1>2
    <2>2. ASSUME NEW k \in i + 1 .. j + 1 PROVE k - 1 \in i .. j /\ t[k - 1] = s[k]
      <3>1. k - 1 \in i .. j /\ k - 1 \in 1 .. Len(t) /\ (k - 1) + 1 = k BY <1>1, <1>2
      <3>. QED BY <1>1, <3>1
    <2>3. (\E k \in i .. j : t[k].kind = kind) <=> (\E k \in i + 1 .. j + 1 : s[k].kind = kind)
      BY <2>1, <2>2
    <2>. QED BY <2>3 DEF Has
  <1>5. (j + 1) - (i + 1) + 1 <= s[j + 1].to - s[i + 1].from + Has(s, "eof", i + 1, j + 1)
                                                             + Has(s, "close", i + 1, j + 1)
    BY <1>3 DEF Counted
  <1>. QED BY <1>3, <1>4, <1>5

\* An entry that is left alone stays bounded, and so does one that is removed.
LEMMA BacklogFrame ==
  ASSUME NEW c \in Chan, BacklogOK(c), inbound'[c] = inbound[c], chan'[c] = chan[c],
         taken'[c] = taken[c], delivered'[c] = delivered[c]
  PROVE  BacklogOK(c)'
  BY DEF BacklogOK

LEMMA BacklogEmptied ==
  ASSUME TypeOK', NEW c \in Chan, inbound'[c] = EmptyQueue, chan'[c] => taken'[c] = delivered'[c]
  PROVE  BacklogOK(c)'
  <1>1. /\ inbound'[c].queue = <<>> /\ inbound'[c].pending_bytes = 0 /\ PendingCap \in Nat
        /\ taken'[c] \in Nat /\ delivered'[c] \in Nat
    BY ConstantsAssumption DEF EmptyQueue, TypeOK, QueueTypeOK, AppTypeOK
  <1>2. \A i \in 1 .. Len(inbound'[c].queue) : FALSE BY <1>1
  <1>3. Remembered(inbound'[c]) /\ Counted(inbound'[c].queue) BY <1>2 DEF Remembered, Counted
  <1>4. inbound'[c].pending_bytes = IF chan'[c] THEN taken'[c] - delivered'[c] ELSE 0 BY <1>1
  <1>. QED BY <1>1, <1>3, <1>4 DEF BacklogOK

\* deliver_inbound queues what it has room for, and each mark once.
LEMMA BacklogDeliver ==
  ASSUME TypeOK, ReserveInv, NEW c \in Chan, NEW item \in Item, deliver_inbound(c, item),
         item.kind \in {"data", "eof", "close"},
         item.kind # "data" => item.from = item.to, item.from <= item.to,
         Delivery(c, item) # "Overflow" \/ item.from = item.to,
         StreamOK(c), BacklogOK(c), chan[c] => item.from = taken[c], chan'[c] = chan[c]
  PROVE  BacklogOK(c)'
  <1>. DEFINE e == inbound[c]
  <1>1. /\ e \in InboundQueue /\ e.queue \in Seq(Item) /\ e.pending_bytes \in Int
        /\ taken[c] \in Nat /\ delivered[c] \in Nat /\ item.from \in Nat /\ item.to \in Nat
        /\ inbound[c].eof_queued \in BOOLEAN /\ inbound[c].close_queued \in BOOLEAN
    BY ItemType DEF TypeOK, QueueTypeOK, AppTypeOK, InboundQueue
  <1>2. /\ taken'[c] = item.to
        /\ \/ Nothing(c) /\ (item.from = item.to \/ ~chan[c])
           \/ Stored(c, item) \/ Gone(c, item) \/ Kept(c, item)
    BY DeliverEffects
  <1>3. /\ e.pending_bytes = IF chan[c] THEN taken[c] - delivered[c] ELSE 0
        /\ e.pending_bytes <= PendingCap /\ (~chan[c] => e.queue = <<>>)
        /\ Remembered(e) /\ Counted(e.queue)
    BY DEF BacklogOK
  <1>4. chan[c] => Chain(e.queue, delivered[c], taken[c]) BY DEF StreamOK
  <1>5. CASE Nothing(c) /\ (item.from = item.to \/ ~chan[c])
    <2>1. inbound'[c] = e /\ delivered'[c] = delivered[c] BY <1>5 DEF Nothing
    <2>2. chan[c] => taken'[c] = taken[c] BY <1>2, <1>5
    <2>. QED BY <1>3, <2>1, <2>2 DEF BacklogOK
  <1>6. CASE Stored(c, item) \/ Gone(c, item)
    <2>1. chan[c] /\ inbound'[c] = e /\ e.queue = <<>> /\ delivered'[c] = item.to
      BY <1>6 DEF Stored, Gone
    <2>2. delivered[c] = taken[c] BY <1>4, <2>1 DEF Chain, Contiguous
    <2>3. e.pending_bytes = 0 /\ taken'[c] - delivered'[c] = 0 BY <1>1, <1>2, <1>3, <2>1, <2>2
    <2>. QED BY <1>3, <2>1, <2>3 DEF BacklogOK
  <1>7. CASE Kept(c, item)
    <2>. DEFINE f == Enqueued(e, item)
    <2>1. /\ chan[c] /\ inbound'[c] = f /\ delivered'[c] = delivered[c]
          /\ item.kind = "data" => byte_len(item) # 0
          /\ e.pending_bytes + byte_len(item) <= PendingCap
          /\ e.queue = <<>> \/ ~Repeated(c, item)
      BY <1>7 DEF Kept
    <2>2. /\ f.queue = Append(e.queue, item) /\ f.pending_bytes = e.pending_bytes + byte_len(item)
          /\ f.eof_queued = (e.eof_queued \/ item.kind = "eof")
          /\ f.close_queued = (e.close_queued \/ item.kind = "close")
      BY DEF Enqueued
    <2>3. item.kind = "data" => item.from < item.to BY <1>1, <2>1 DEF byte_len
    <2>4. item.kind # "data" => \A i \in 1 .. Len(e.queue) : e.queue[i].kind # item.kind
      <3>1. CASE e.queue = <<>>
        <4>1. \A i \in 1 .. Len(e.queue) : FALSE BY <3>1
        <4>. QED BY <4>1
      <3>2. CASE ~Repeated(c, item)
        BY <1>3, <3>2 DEF Repeated, Remembered
      <3>. QED BY <2>1, <3>1, <3>2
    <2>5. item.from = taken[c] BY <2>1
    <2>. HIDE DEF e, f
    <2>6. Counted(f.queue) BY <1>1, <1>3, <1>4, <2>1, <2>2, <2>3, <2>4, <2>5, CountedAppend
    <2>7. /\ Len(f.queue) = Len(e.queue) + 1 /\ Len(e.queue) \in Nat
          /\ f.queue[Len(e.queue) + 1] = item
          /\ \A i \in 1 .. Len(e.queue) : f.queue[i] = e.queue[i]
      BY <1>1, <2>2, AppendProperties
    <2>8. Remembered(f)
      <3>. SUFFICES ASSUME NEW i \in 1 .. Len(f.queue)
                    PROVE  \/ f.queue[i].kind = "data" /\ f.queue[i].from < f.queue[i].to
                           \/ f.queue[i].kind = "eof" /\ f.eof_queued
                              /\ f.queue[i].from = f.queue[i].to
                           \/ f.queue[i].kind = "close" /\ f.close_queued
                              /\ f.queue[i].from = f.queue[i].to
        BY DEF Remembered
      <3>1. CASE i \in 1 .. Len(e.queue)
        <4>1. f.queue[i] = e.queue[i] BY <2>7, <3>1
        <4>2. \/ e.queue[i].kind = "data" /\ e.queue[i].from < e.queue[i].to
              \/ e.queue[i].kind = "eof" /\ e.eof_queued
                 /\ e.queue[i].from = e.queue[i].to
              \/ e.queue[i].kind = "close" /\ e.close_queued
                 /\ e.queue[i].from = e.queue[i].to
          BY <1>3, <3>1 DEF Remembered
        <4>. QED BY <2>2, <4>1, <4>2
      <3>2. CASE i = Len(e.queue) + 1
        BY <2>2, <2>3, <2>7, <3>2
      <3>. QED BY <2>7, <3>1, <3>2
    <2>9. f.pending_bytes = taken'[c] - delivered'[c]
      BY <1>1, <1>2, <1>3, <2>1, <2>2, <2>5 DEF byte_len
    <2>. QED BY <2>1, <2>2, <2>6, <2>8, <2>9 DEF BacklogOK
  <1>. QED BY <1>2, <1>5, <1>6, <1>7

LEMMA BacklogRecv ==
  ASSUME TypeOK, TypeOK', ReserveInv, NEW c \in Chan, StreamOK(c), BacklogOK(c), Recv(c)
  PROVE  BacklogOK(c)'
  <1>. DEFINE item == Head(wire[c])
  <1>1. WireOK(c) /\ (open[c] => chan[c]) BY DEF StreamOK
  <1>2. ASSUME Ignores(c) PROVE BacklogOK(c)'
    BY <1>2, BacklogFrame DEF Ignores, EntrySame, QueueSame, AppSame
  <1>3. ASSUME NEW kind \in {"data", "eof", "request", "adjust"}, RecvIgnored(c, kind)
        PROVE  BacklogOK(c)'
    BY <1>2, <1>3, OtherEffects
  <1>4. CASE RecvRequest(c) BY <1>2, <1>4, OtherEffects
  <1>5. CASE RecvData(c)
    <2>. DEFINE win == consume_recv_window(c, byte_len(item))
    <2>1. /\ Arrives(c, "data") /\ Accepts(c, "data")
          /\ TakesData(c, item, win) \/ Overflows(c, item, win)
      BY <1>5, DataEffects
    <2>2. /\ item \in Item /\ item.kind = "data"
          /\ item.from = WireStart(c) /\ item.from <= item.to
      BY <1>1, <2>1, WireTake
    <2>3. chan[c] => item.from = taken[c] BY <2>1, <2>2 DEF StreamOK, Accepts, Attached
    <2>. HIDE DEF item, win
    <2>4. CASE TakesData(c, item, win)
      <3>1. deliver_inbound(c, item) /\ Delivery(c, item) # "Overflow" /\ chan'[c] = chan[c]
        BY <2>4 DEF TakesData, EntrySame
      <3>. QED BY <2>2, <2>3, <3>1, BacklogDeliver
    <2>5. CASE Overflows(c, item, win)
      BY <2>5, BacklogEmptied DEF Overflows, Removed
    <2>. QED BY <2>1, <2>4, <2>5
  <1>6. CASE RecvEof(c)
    <2>1. /\ Arrives(c, "eof") /\ Accepts(c, "eof") /\ deliver_inbound(c, item)
          /\ chan'[c] = chan[c]
      BY <1>6, EofEffects DEF EntrySame
    <2>2. /\ item \in Item /\ item.kind = "eof"
          /\ item.from = WireStart(c) /\ item.from <= item.to /\ item.from = item.to
      BY <1>1, <2>1, WireTake
    <2>3. chan[c] => item.from = taken[c] BY <2>1, <2>2 DEF StreamOK, Accepts, Attached
    <2>. HIDE DEF item
    <2>. QED BY <2>1, <2>2, <2>3, BacklogDeliver
  <1>7. CASE RecvClose(c)
    <2>. DEFINE x == CloseItem(c)
    <2>1. \/ /\ ~chan[c] /\ ~chan'[c] /\ QueueSame(c) /\ AppSame(c)
          \/ deliver_inbound(c, x) /\ Delivery(c, x) = "Queued" /\ chan'[c] = chan[c]
          \/ Removed(c)
      BY <1>7, CloseEffects
    <2>2. /\ x \in Item /\ x.kind = "close" /\ x.from = taken[c] /\ x.to = taken[c]
          /\ x.from <= x.to
      BY DEF CloseItem, Item, TypeOK, QueueTypeOK
    <2>3. CASE ~chan[c] /\ ~chan'[c] /\ QueueSame(c) /\ AppSame(c)
      BY <2>3 DEF BacklogOK, QueueSame, AppSame
    <2>. HIDE DEF x
    <2>4. CASE deliver_inbound(c, x) /\ Delivery(c, x) = "Queued" /\ chan'[c] = chan[c]
      BY <2>2, <2>4, BacklogDeliver
    <2>5. CASE Removed(c) BY <2>5, BacklogEmptied DEF Removed
    <2>. QED BY <2>1, <2>3, <2>4, <2>5
  <1>8. CASE RecvWindowAdjust(c)
    <2>1. Tells(c, "adjust") BY <1>8, OtherEffects
    <2>. QED BY <2>1, BacklogFrame DEF Tells, QueueSame
  <1>. QED BY <1>3, <1>4, <1>5, <1>6, <1>7, <1>8 DEF Recv

LEMMA BacklogPump ==
  ASSUME TypeOK, TypeOK', ReserveInv, NEW c \in Chan, StreamOK(c), BacklogOK(c), Pump(c)
  PROVE  BacklogOK(c)'
  <1>. DEFINE item == Head(inbound[c].queue)
              e == inbound[c]
  <1>1. /\ e \in InboundQueue /\ e.queue \in Seq(Item) /\ e.pending_bytes \in Int
        /\ taken[c] \in Nat /\ delivered[c] \in Nat /\ PendingCap \in Nat
    BY ConstantsAssumption DEF TypeOK, QueueTypeOK, AppTypeOK, InboundQueue
  <1>2. \/ /\ Pumps(c, item) /\ inbound'[c] = Dequeued(inbound[c]) /\ chan'[c] = chan[c]
        \/ Removed(c)
        \/ /\ inbound'[c] = EmptyQueue /\ taken'[c] = taken[c] /\ delivered'[c] = taken[c]
        \/ Same(c)
    BY PumpEffects
  <1>3. CASE Pumps(c, item) /\ inbound'[c] = Dequeued(inbound[c]) /\ chan'[c] = chan[c]
    <2>1. /\ e.queue # <<>> /\ taken'[c] = taken[c] /\ delivered'[c] = item.to BY <1>3 DEF Pumps
    <2>2. chan[c] /\ Chain(e.queue, delivered[c], taken[c])
      BY <2>1 DEF ReserveInv, OneReserve, StreamOK
    <2>3. /\ item \in Item /\ item.from = delivered[c] /\ delivered[c] <= item.to
          /\ item.to \in Nat
      BY <1>1, <2>1, <2>2, ChainTail
    <2>4. /\ inbound'[c].queue = Tail(e.queue)
          /\ inbound'[c].pending_bytes = e.pending_bytes - byte_len(item)
          /\ inbound'[c].eof_queued = e.eof_queued /\ inbound'[c].close_queued = e.close_queued
      BY <1>3 DEF Dequeued
    <2>. HIDE DEF item, e
    <2>5. /\ e.pending_bytes = taken[c] - delivered[c] /\ e.pending_bytes <= PendingCap
          /\ Remembered(e) /\ Counted(e.queue)
      BY <2>2 DEF BacklogOK, e
    <2>6. /\ inbound'[c].pending_bytes = taken'[c] - delivered'[c]
          /\ inbound'[c].pending_bytes <= PendingCap
      BY <1>1, <2>1, <2>3, <2>4, <2>5 DEF byte_len
    <2>7. Counted(inbound'[c].queue) BY <1>1, <2>1, <2>4, <2>5, CountedTail
    <2>8. /\ Len(Tail(e.queue)) = Len(e.queue) - 1 /\ Len(e.queue) \in Nat
          /\ \A i \in 1 .. Len(Tail(e.queue)) : Tail(e.queue)[i] = e.queue[i + 1]
      BY <1>1, <2>1, EmptySeq, HeadTailProperties
    <2>9. Remembered(inbound'[c])
      <3>. SUFFICES ASSUME NEW i \in 1 .. Len(Tail(e.queue))
                    PROVE  \/ Tail(e.queue)[i].kind = "data"
                              /\ Tail(e.queue)[i].from < Tail(e.queue)[i].to
                           \/ Tail(e.queue)[i].kind = "eof" /\ e.eof_queued
                              /\ Tail(e.queue)[i].from = Tail(e.queue)[i].to
                           \/ Tail(e.queue)[i].kind = "close" /\ e.close_queued
                              /\ Tail(e.queue)[i].from = Tail(e.queue)[i].to
        BY <2>4 DEF Remembered
      <3>1. i + 1 \in 1 .. Len(e.queue) /\ Tail(e.queue)[i] = e.queue[i + 1] BY <2>8
      <3>. QED BY <2>5, <3>1 DEF Remembered
    <2>. QED BY <1>3, <2>2, <2>6, <2>7, <2>9 DEF BacklogOK
  <1>4. CASE Removed(c) BY <1>4, BacklogEmptied DEF Removed
  <1>5. CASE inbound'[c] = EmptyQueue /\ taken'[c] = taken[c] /\ delivered'[c] = taken[c]
    BY <1>5, BacklogEmptied
  <1>6. CASE Same(c) BY <1>6, BacklogFrame DEF Same, EntrySame, QueueSame, AppSame
  <1>. QED BY <1>2, <1>3, <1>4, <1>5, <1>6

LEMMA BacklogLocal ==
  ASSUME TypeOK, TypeOK', ReserveInv, NEW c \in Chan, StreamOK(c), BacklogOK(c),
         \/ PeerSend(c) \/ PeerRecvAdjust(c) \/ RequestSent(c) \/ PumpRearm(c)
         \/ LocalClose(c) \/ OutboundCapClose(c) \/ AppRead(c) \/ AppDrop(c)
  PROVE  BacklogOK(c)'
  <1>1. CASE PeerSend(c)
    <2>1. EntrySame(c) /\ QueueSame(c) /\ AppSame(c) BY <1>1, PutEffects DEF Puts
    <2>. QED BY <2>1, BacklogFrame DEF EntrySame, QueueSame, AppSame
  <1>2. CASE PeerRecvAdjust(c)
    BY <1>2, AdjustEffects, BacklogFrame DEF EntrySame, QueueSame, AppSame
  <1>3. CASE RequestSent(c)
    BY <1>3, OtherEffects, BacklogFrame DEF Tells, QueueSame
  <1>4. CASE PumpRearm(c)
    <2>1. /\ EntrySame(c) /\ AppSame(c) /\ taken'[c] = taken[c]
          /\ \/ /\ inbound[c].queue # <<>>
                /\ inbound'[c] = [inbound[c] EXCEPT !.reserving = TRUE]
             \/ inbound[c].queue = <<>> /\ inbound'[c] = EmptyQueue
      BY <1>4, RearmEffects
    <2>2. CASE inbound'[c] = [inbound[c] EXCEPT !.reserving = TRUE]
      <3>1. /\ inbound'[c].queue = inbound[c].queue
            /\ inbound'[c].pending_bytes = inbound[c].pending_bytes
            /\ inbound'[c].eof_queued = inbound[c].eof_queued
            /\ inbound'[c].close_queued = inbound[c].close_queued
        BY <2>2 DEF TypeOK, QueueTypeOK, InboundQueue
      <3>2. Remembered(inbound'[c]) BY <3>1 DEF BacklogOK, Remembered
      <3>. QED BY <2>1, <3>1, <3>2 DEF BacklogOK, EntrySame, AppSame
    <2>3. CASE inbound[c].queue = <<>> /\ inbound'[c] = EmptyQueue
      <3>1. chan[c] => taken[c] = delivered[c] BY <2>3 DEF StreamOK, Chain, Contiguous
      <3>. QED BY <2>1, <2>3, <3>1, BacklogEmptied DEF EntrySame, AppSame
    <2>. QED BY <2>1, <2>2, <2>3
  <1>5. CASE LocalClose(c) \/ OutboundCapClose(c)
    <2>1. /\ AppSame(c) /\ taken'[c] = taken[c]
          /\ Removed(c) \/ (chan'[c] = chan[c] /\ inbound'[c] = inbound[c])
      BY <1>5, CloseLocallyEffects
    <2>. QED BY <2>1, BacklogFrame, BacklogEmptied DEF AppSame, Removed
  <1>6. CASE AppRead(c) \/ AppDrop(c)
    BY <1>6, AppEffects, BacklogFrame DEF EntrySame, QueueSame
  <1>. QED BY <1>1, <1>2, <1>3, <1>4, <1>5, <1>6

LEMMA BacklogNext ==
  TypeOK /\ ReserveInv /\ StreamInv /\ BacklogInv /\ [Next]_vars => BacklogInv'
  <1>. SUFFICES ASSUME TypeOK, ReserveInv, StreamInv, BacklogInv, [Next]_vars, NEW d \in Chan
                PROVE  BacklogOK(d)'
    BY DEF BacklogInv
  <1>1. StreamOK(d) /\ BacklogOK(d) /\ TypeOK' BY NextTypes DEF StreamInv, BacklogInv
  <1>2. CASE Same(d) BY <1>1, <1>2, BacklogFrame DEF Same, EntrySame, QueueSame, AppSame
  <1>3. CASE \/ PeerSend(d) \/ PeerRecvAdjust(d) \/ Recv(d) \/ RequestSent(d)
             \/ Pump(d) \/ PumpRearm(d) \/ LocalClose(d) \/ OutboundCapClose(d)
             \/ AppRead(d) \/ AppDrop(d)
    BY <1>1, <1>3, BacklogRecv, BacklogPump, BacklogLocal
  <1>. QED BY <1>2, <1>3, OneChannel DEF OthersSame

LEMMA BacklogInit == Init => BacklogInv
  <1>. SUFFICES ASSUME Init, NEW c \in Chan PROVE BacklogOK(c) BY DEF BacklogInv
  <1>1. /\ inbound[c].queue = <<>> /\ inbound[c].pending_bytes = 0 /\ PendingCap \in Nat
        /\ taken[c] = 0 /\ delivered[c] = 0
    BY ConstantsAssumption DEF Init, EmptyQueue
  <1>2. \A i \in 1 .. Len(inbound[c].queue) : FALSE BY <1>1
  <1>3. Remembered(inbound[c]) /\ Counted(inbound[c].queue) BY <1>2 DEF Remembered, Counted
  <1>. QED BY <1>1, <1>3 DEF BacklogOK

\* A peer cannot make the session hold more than max_pending_inbound_bytes of a
\* channel, nor more items than bytes but for an Eof and a Close: also not with
\* payload without bytes, repeated EOFs or a window it does not respect.
THEOREM BacklogAlwaysBounded == Spec => []BacklogBounded
  <1>1. TypeOK /\ StreamInv /\ BacklogInv => BacklogBounded
    <2>. SUFFICES ASSUME TypeOK, StreamInv, BacklogInv, NEW c \in Chan
                  PROVE  /\ inbound[c].pending_bytes \in 0 .. PendingCap
                         /\ Len(inbound[c].queue) <= inbound[c].pending_bytes + 2
      BY DEF BacklogBounded
    <2>. DEFINE q == inbound[c].queue
                p == inbound[c].pending_bytes
    <2>1. /\ q \in Seq(Item) /\ p \in Int /\ PendingCap \in Nat
          /\ taken[c] \in Nat /\ delivered[c] \in Nat
      BY ConstantsAssumption DEF TypeOK, QueueTypeOK, AppTypeOK, InboundQueue
    <2>2. /\ p = IF chan[c] THEN taken[c] - delivered[c] ELSE 0
          /\ p <= PendingCap /\ (~chan[c] => q = <<>>) /\ Counted(q)
      BY DEF BacklogInv, BacklogOK
    <2>3. chan[c] => Chain(q, delivered[c], taken[c]) BY DEF StreamInv, StreamOK
    <2>. HIDE DEF q, p
    <2>4. chan[c] => delivered[c] <= taken[c] BY <2>3 DEF Chain
    <2>5. p \in 0 .. PendingCap BY <2>1, <2>2, <2>4
    <2>6. CASE q = <<>>
      <3>1. Len(q) = 0 BY <2>6
      <3>. QED BY <2>5, <3>1, <2>1 DEF q, p
    <2>7. CASE q # <<>>
      <3>1. chan[c] /\ Len(q) \in Nat /\ Len(q) > 0 BY <2>1, <2>2, <2>7, EmptySeq
      <3>2. q[1].from = delivered[c] /\ q[Len(q)].to = taken[c]
        BY <2>3, <2>7, <3>1 DEF Chain, Contiguous
      <3>3. 1 \in 1 .. Len(q) /\ Len(q) \in 1 .. Len(q) /\ 1 <= Len(q) BY <3>1
      <3>4. Len(q) - 1 + 1 <= taken[c] - delivered[c] + Has(q, "eof", 1, Len(q))
                                                      + Has(q, "close", 1, Len(q))
        BY <2>2, <3>2, <3>3 DEF Counted
      <3>5. Has(q, "eof", 1, Len(q)) \in {0, 1} /\ Has(q, "close", 1, Len(q)) \in {0, 1}
        BY DEF Has
      <3>6. Len(q) <= p + 2 BY <2>1, <2>2, <3>1, <3>4, <3>5
      <3>. QED BY <2>5, <3>6 DEF q, p
    <2>. QED BY <2>6, <2>7
  <1>. QED
    BY <1>1, InitTypes, NextTypes, ReserveInit, ReserveNext, StreamInit, StreamNext, BacklogInit,
       BacklogNext, PTL DEF Spec
-----------------------------------------------------------------------------
(* The receive window. *)

\* Half of a target is a window: the targets that never starve a peer.
TargetsSplit == \A t \in Targets \cup {WindowSize} : t >= 2

\* WindowHonest, with what makes it inductive: neither what an obedient peer may
\* send nor a grant on its way to it is ever negative.
WindowOK(c) ==
  /\ window[c] >= 0
  /\ end.obeyed => credit[c] >= 0 /\ adjusts[c] >= 0
  /\ end.obeyed /\ open[c] =>
       /\ window[c] = credit[c] + adjusts[c] + (sent[c] - WireStart(c))
       /\ window[c] + inbound[c].pending_bytes <= MaxTarget
  /\ TargetsSplit /\ open[c] /\ reader[c] /\ inbound[c].pending_bytes = 0 => window[c] > 0

WindowInv == \A c \in Chan : WindowOK(c)

LEMMA MaxTargetIsMax ==
  /\ MaxTarget \in Nat
  /\ \A t \in Targets \cup {WindowSize} : t \in Nat /\ t > 0 /\ t <= MaxTarget
  <1>1. /\ MaxTarget \in Targets \cup {WindowSize}
        /\ \A u \in Targets \cup {WindowSize} : u <= MaxTarget
    BY TargetsBounded DEF MaxTarget
  <1>. QED BY <1>1, ConstantsAssumption

\* A grant keeps the books and does not exceed the largest target.
LEMMA GrantBacked ==
  ASSUME TypeOK, NEW c \in Chan, NEW win \in Nat, NEW left \in Nat, Granted(c, win, left)
  PROVE  /\ window'[c] \in Nat /\ adjusts'[c] - adjusts[c] = window'[c] - win
         /\ adjusts'[c] >= adjusts[c] /\ adjusts'[c] \in Int
         /\ window'[c] = win \/ window'[c] + left <= MaxTarget
         /\ TargetsSplit /\ open[c] /\ left = 0 => window'[c] > 0
  <1>1. GrantTarget \in Targets \cup {WindowSize} BY DEF GrantTarget, TypeOK, EncTypeOK
  <1>2. /\ GrantTarget \in Nat /\ GrantTarget > 0 /\ GrantTarget <= MaxTarget /\ MaxTarget \in Nat
        /\ TargetsSplit => GrantTarget >= 2
    BY <1>1, MaxTargetIsMax DEF TargetsSplit
  <1>3. adjusts[c] \in Int BY DEF TypeOK, EncTypeOK
  <1>. DEFINE top == Ceiling(left)
  <1>4. /\ top \in Nat /\ (top > 0 => top + left <= MaxTarget)
        /\ left = 0 => top = GrantTarget
    BY <1>2 DEF Ceiling
  <1>. HIDE DEF top
  <1>5. top \div 2 \in Nat /\ top \div 2 <= top /\ (top >= 2 => top \div 2 >= 1) BY <1>4
  <1>6. CASE /\ open[c] /\ win < top \div 2 /\ window'[c] = top
             /\ adjusts'[c] = adjusts[c] + (top - win)
    BY <1>2, <1>3, <1>4, <1>5, <1>6
  <1>7. CASE /\ ~(open[c] /\ win < top \div 2) /\ window'[c] = win /\ adjusts'[c] = adjusts[c]
    <2>1. TargetsSplit /\ open[c] /\ left = 0 => window'[c] > 0
      <3>. SUFFICES ASSUME TargetsSplit, open[c], left = 0 PROVE window'[c] > 0 OBVIOUS
      <3>1. top >= 2 /\ ~(win < top \div 2) BY <1>2, <1>4, <1>7
      <3>. QED BY <1>5, <1>7, <3>1
    <2>. QED BY <1>3, <1>7, <2>1
  <1>. QED BY <1>6, <1>7 DEF Granted, top

\* A step that moves no window keeps it honest if the backlog does not grow.
LEMMA WindowFrame ==
  ASSUME TypeOK, TypeOK', NEW c \in Chan, WindowOK(c), end' = end,
         credit'[c] = credit[c], WindowSame(c), open'[c] => open[c], reader'[c] => reader[c],
         sent'[c] - WireStart(c)' = sent[c] - WireStart(c),
         inbound'[c].pending_bytes <= inbound[c].pending_bytes,
         reader'[c] /\ inbound'[c].pending_bytes = 0 => inbound[c].pending_bytes = 0
  PROVE  WindowOK(c)'
  <1>1. /\ window[c] \in Int /\ adjusts[c] \in Int /\ credit[c] \in Int
        /\ inbound[c].pending_bytes \in Int /\ inbound'[c].pending_bytes \in Int
        /\ MaxTarget \in Nat
    BY MaxTargetIsMax DEF TypeOK, PeerTypeOK, EncTypeOK, QueueTypeOK, InboundQueue
  <1>2. window'[c] = window[c] /\ adjusts'[c] = adjusts[c] BY DEF WindowSame
  <1>3. window'[c] >= 0 BY <1>2 DEF WindowOK
  <1>4. end'.obeyed => credit'[c] >= 0 /\ adjusts'[c] >= 0 BY <1>2 DEF WindowOK
  <1>5. end'.obeyed /\ open'[c] =>
          /\ window'[c] = credit'[c] + adjusts'[c] + (sent'[c] - WireStart(c)')
          /\ window'[c] + inbound'[c].pending_bytes <= MaxTarget
    BY <1>1, <1>2 DEF WindowOK
  <1>6. TargetsSplit /\ open'[c] /\ reader'[c] /\ inbound'[c].pending_bytes = 0 => window'[c] > 0
    BY <1>2 DEF WindowOK
  <1>. QED BY <1>3, <1>4, <1>5, <1>6 DEF WindowOK

\* What the backlog holds, from the streams.
LEMMA PendingIs ==
  ASSUME TypeOK, NEW c \in Chan, StreamOK(c), BacklogOK(c)
  PROVE  /\ inbound[c].pending_bytes \in Nat
         /\ inbound[c].pending_bytes = IF chan[c] THEN taken[c] - delivered[c] ELSE 0
         /\ taken[c] \in Nat /\ delivered[c] \in Nat
  <1>1. taken[c] \in Nat /\ delivered[c] \in Nat BY DEF TypeOK, QueueTypeOK, AppTypeOK
  <1>2. inbound[c].pending_bytes = IF chan[c] THEN taken[c] - delivered[c] ELSE 0 BY DEF BacklogOK
  <1>3. chan[c] => delivered[c] <= taken[c] BY DEF StreamOK, Chain
  <1>. QED BY <1>1, <1>2, <1>3

\* Data is taken out of the window when it arrives and put back when it is
\* delivered.
LEMMA WindowData ==
  ASSUME TypeOK, TypeOK', ReserveInv, NEW c \in Chan, StreamOK(c), BacklogOK(c), WindowOK(c),
         end' = end, RecvData(c)
  PROVE  WindowOK(c)'
  <1>. DEFINE item == Head(wire[c])
              len  == byte_len(item)
              win  == consume_recv_window(c, len)
              pend == inbound[c].pending_bytes
  <1>1. TakesData(c, item, win) \/ Overflows(c, item, win)
    BY DataEffects
  <1>2. Arrives(c, "data") BY DataEffects
  <1>3. /\ item \in Item /\ item.kind = "data" /\ item.from \in Nat /\ item.to \in Nat
        /\ item.from = WireStart(c) /\ item.from <= item.to /\ item.to <= sent[c]
        /\ WireStart(c)' = item.to
    BY <1>2, WireTake DEF StreamOK
  <1>4. len \in Nat /\ len = item.to - item.from /\ (len = 0 <=> item.from = item.to)
    BY <1>3 DEF byte_len
  <1>5. /\ credit'[c] = credit[c] /\ sent'[c] = sent[c] /\ reader'[c] = reader[c]
        /\ credit[c] \in Int /\ sent[c] \in Nat /\ adjusts[c] \in Int /\ window[c] \in Nat
        /\ pend \in Nat /\ MaxTarget \in Nat
    BY <1>2, PendingIs, MaxTargetIsMax DEF Arrives, TypeOK, PeerTypeOK, EncTypeOK, WindowOK
  <1>6. win = IF open[c] /\ len <= window[c] THEN window[c] - len ELSE window[c]
    BY DEF consume_recv_window
  <1>. HIDE DEF item, len, win, pend
  <1>7. win \in Nat /\ win <= window[c] BY <1>4, <1>5, <1>6
  <1>8. end.obeyed /\ open[c] => len <= window[c]
    <2>. SUFFICES ASSUME end.obeyed, open[c] PROVE len <= window[c] OBVIOUS
    <2>1. /\ window[c] = credit[c] + adjusts[c] + (sent[c] - WireStart(c))
          /\ credit[c] >= 0 /\ adjusts[c] >= 0
      BY DEF WindowOK
    <2>. QED BY <1>3, <1>4, <1>5, <2>1
  <1>9. end.obeyed /\ open[c] =>
          /\ win = window[c] - len
          /\ win = credit[c] + adjusts[c] + (sent[c] - item.to)
          /\ win + pend + len <= MaxTarget
    <2>. SUFFICES ASSUME end.obeyed, open[c]
                  PROVE  /\ win = window[c] - len
                         /\ win = credit[c] + adjusts[c] + (sent[c] - item.to)
                         /\ win + pend + len <= MaxTarget
      OBVIOUS
    <2>1. /\ window[c] = credit[c] + adjusts[c] + (sent[c] - WireStart(c))
          /\ window[c] + pend <= MaxTarget
      BY DEF WindowOK, pend
    <2>2. win = window[c] - len BY <1>6, <1>8
    <2>. QED BY <1>3, <1>4, <1>5, <2>1, <2>2
  <1>10. CASE Overflows(c, item, win)
    <2>1. ~open'[c] /\ window'[c] = win /\ adjusts'[c] = adjusts[c]
      BY <1>10 DEF Overflows, Removed
    <2>. QED BY <1>5, <1>7, <2>1 DEF WindowOK
  <1>11. CASE TakesData(c, item, win)
    <2>1. /\ open'[c] = open[c] /\ deliver_inbound(c, item)
      BY <1>11 DEF TakesData, EntrySame
    <2>2. CASE Delivery(c, item) # "Queued" /\ Granted(c, win, inbound[c].pending_bytes)
      <3>1. inbound' = inbound BY <2>1, <2>2 DEF deliver_inbound
      <3>2. inbound'[c].pending_bytes = pend BY <3>1 DEF pend
      <3>3. /\ window'[c] \in Nat /\ adjusts'[c] - adjusts[c] = window'[c] - win
            /\ adjusts'[c] >= adjusts[c] /\ adjusts'[c] \in Int
            /\ window'[c] = win \/ window'[c] + pend <= MaxTarget
            /\ TargetsSplit /\ open[c] /\ pend = 0 => window'[c] > 0
        BY <1>5, <1>7, <2>2, GrantBacked DEF pend
      <3>4. end'.obeyed => credit'[c] >= 0 /\ adjusts'[c] >= 0 BY <1>5, <3>3 DEF WindowOK
      <3>5. end'.obeyed /\ open'[c] =>
              /\ window'[c] = credit'[c] + adjusts'[c] + (sent'[c] - WireStart(c)')
              /\ window'[c] + inbound'[c].pending_bytes <= MaxTarget
        <4>. SUFFICES ASSUME end.obeyed, open[c]
                      PROVE  /\ window'[c] = credit[c] + adjusts'[c] + (sent[c] - item.to)
                             /\ window'[c] + pend <= MaxTarget
          BY <1>3, <1>5, <2>1, <3>2
        <4>1. /\ win = credit[c] + adjusts[c] + (sent[c] - item.to)
              /\ win + pend + len <= MaxTarget
          BY <1>9
        <4>2. window'[c] = credit[c] + adjusts'[c] + (sent[c] - item.to)
          <5>1. item.to \in Nat BY <1>3
          <5>. QED BY <1>5, <1>7, <3>3, <4>1, <5>1
        <4>3. window'[c] + pend <= MaxTarget BY <1>4, <1>5, <1>7, <3>3, <4>1
        <4>. QED BY <4>2, <4>3
      <3>. QED BY <2>1, <3>2, <3>3, <3>4, <3>5 DEF WindowOK
    <2>3. CASE Delivery(c, item) = "Queued" /\ window'[c] = win /\ adjusts'[c] = adjusts[c]
      <3>1. len # 0 BY <1>3, <2>3 DEF Delivery, len
      <3>2. ~Repeated(c, item) BY <1>3 DEF Repeated
      <3>3. inbound'[c] = Enqueued(inbound[c], item)
        BY <2>1, <2>3, <3>2 DEF deliver_inbound, TypeOK, QueueTypeOK
      <3>4. inbound'[c].pending_bytes = pend + len BY <3>3 DEF Enqueued, pend, len
      <3>5. end'.obeyed => credit'[c] >= 0 /\ adjusts'[c] >= 0 BY <1>5, <2>3 DEF WindowOK
      <3>6. end'.obeyed /\ open'[c] =>
              /\ window'[c] = credit'[c] + adjusts'[c] + (sent'[c] - WireStart(c)')
              /\ window'[c] + inbound'[c].pending_bytes <= MaxTarget
        BY <1>3, <1>4, <1>5, <1>7, <1>9, <2>1, <2>3, <3>4
      <3>7. inbound'[c].pending_bytes # 0 BY <1>4, <1>5, <3>1, <3>4
      <3>. QED BY <1>7, <2>3, <3>5, <3>6, <3>7 DEF WindowOK
    <2>. QED BY <1>11, <2>2, <2>3 DEF TakesData
  <1>. QED BY <1>1, <1>10, <1>11

LEMMA WindowRecv ==
  ASSUME TypeOK, TypeOK', ReserveInv, NEW c \in Chan, StreamOK(c), BacklogOK(c), WindowOK(c),
         StreamOK(c)', BacklogOK(c)', end' = end, Recv(c)
  PROVE  WindowOK(c)'
  <1>. DEFINE item == Head(wire[c])
  <1>1. /\ inbound[c].pending_bytes \in Nat /\ inbound'[c].pending_bytes \in Nat
        /\ inbound[c].pending_bytes = IF chan[c] THEN taken[c] - delivered[c] ELSE 0
        /\ inbound'[c].pending_bytes = IF chan'[c] THEN taken'[c] - delivered'[c] ELSE 0
        /\ taken[c] \in Nat /\ delivered[c] \in Nat
    <2>1. TypeOK /\ StreamOK(c) /\ BacklogOK(c) =>
            /\ inbound[c].pending_bytes \in Nat
            /\ inbound[c].pending_bytes = IF chan[c] THEN taken[c] - delivered[c] ELSE 0
      BY PendingIs
    <2>2. inbound'[c].pending_bytes = IF chan'[c] THEN taken'[c] - delivered'[c] ELSE 0
      BY DEF BacklogOK
    <2>3. chan'[c] => delivered'[c] <= taken'[c] BY DEF StreamOK, Chain
    <2>4. /\ taken[c] \in Nat /\ delivered[c] \in Nat
          /\ taken'[c] \in Nat /\ delivered'[c] \in Nat
      BY DEF TypeOK, QueueTypeOK, AppTypeOK
    <2>. QED BY <2>1, <2>2, <2>3, <2>4
  <1>2. ASSUME NEW kind \in {"data", "eof", "close", "request", "adjust"}, Arrives(c, kind),
               kind # "data", WindowSame(c), open'[c] => open[c],
               inbound'[c].pending_bytes = inbound[c].pending_bytes
        PROVE  WindowOK(c)'
    <2>1. WireStart(c)' = WireStart(c) BY <1>2, WireTake DEF StreamOK
    <2>2. credit'[c] = credit[c] /\ sent'[c] = sent[c] /\ reader'[c] = reader[c]
      BY <1>2 DEF Arrives
    <2>3. inbound'[c].pending_bytes <= inbound[c].pending_bytes BY <1>1, <1>2
    <2>. QED BY <1>2, <2>1, <2>2, <2>3, WindowFrame
  <1>3. ASSUME NEW kind, Arrives(c, kind), WindowSame(c), ~open'[c] PROVE WindowOK(c)'
    <2>1. /\ credit'[c] = credit[c] /\ window'[c] = window[c] /\ adjusts'[c] = adjusts[c]
      BY <1>3 DEF Arrives, WindowSame
    <2>. QED BY <1>3, <2>1 DEF WindowOK
  <1>4. ASSUME NEW kind \in {"data", "eof", "request", "adjust"}, RecvIgnored(c, kind)
        PROVE  WindowOK(c)'
    <2>1. Arrives(c, kind) /\ ~Accepts(c, kind) /\ Ignores(c) BY <1>4, OtherEffects
    <2>2. ~open'[c] BY <2>1 DEF Accepts, Ignores, EntrySame
    <2>. QED BY <1>3, <2>1, <2>2 DEF Ignores
  <1>5. CASE RecvRequest(c)
    <2>1. Arrives(c, "request") /\ Ignores(c) BY <1>5, OtherEffects
    <2>. QED BY <1>2, <2>1 DEF Ignores, EntrySame, QueueSame
  <1>6. CASE RecvData(c) BY <1>6, WindowData
  <1>7. CASE RecvEof(c)
    <2>1. /\ Arrives(c, "eof") /\ deliver_inbound(c, item) /\ WindowSame(c) /\ EntrySame(c)
      BY <1>7, EofEffects
    <2>2. /\ item \in Item /\ item.kind = "eof" /\ item.from = item.to
          /\ item.from \in Nat /\ item.to \in Nat
      BY <2>1, WireTake DEF StreamOK
    <2>3. byte_len(item) = 0 BY <2>2 DEF byte_len
    <2>4. inbound'[c] = inbound[c] \/ inbound'[c] = Enqueued(inbound[c], item)
      BY <2>1 DEF deliver_inbound, TypeOK, QueueTypeOK
    <2>5. inbound'[c].pending_bytes = inbound[c].pending_bytes
      BY <1>1, <2>3, <2>4 DEF Enqueued
    <2>. QED BY <1>2, <2>1, <2>5 DEF EntrySame
  <1>8. CASE RecvClose(c)
    <2>1. Arrives(c, "close") /\ WindowSame(c) /\ ~open'[c] BY <1>8, CloseEffects DEF Removed
    <2>. QED BY <1>3, <2>1
  <1>9. CASE RecvWindowAdjust(c)
    <2>1. Arrives(c, "adjust") /\ Tells(c, "adjust") /\ (open'[c] => open[c])
      BY <1>9, OtherEffects
    <2>. QED BY <1>2, <2>1 DEF Tells, QueueSame
  <1>. QED BY <1>4, <1>5, <1>6, <1>7, <1>8, <1>9 DEF Recv

\* pump_inbound grants for what it delivered, above what is still queued.
LEMMA WindowPump ==
  ASSUME TypeOK, TypeOK', ReserveInv, NEW c \in Chan, StreamOK(c), BacklogOK(c), WindowOK(c),
         StreamOK(c)', BacklogOK(c)', end' = end, Pump(c)
  PROVE  WindowOK(c)'
  <1>. DEFINE item == Head(inbound[c].queue)
              left == inbound[c].pending_bytes - byte_len(item)
  <1>1. \/ /\ Pumps(c, item) /\ inbound'[c] = Dequeued(inbound[c])
           /\ open'[c] = open[c] /\ chan'[c] = chan[c]
           /\ \/ item.kind = "data" /\ Granted(c, window[c], left)
              \/ item.kind = "eof" /\ WindowSame(c)
        \/ Pumps(c, item) /\ Removed(c) /\ WindowSame(c)
        \/ /\ ~reader[c] /\ PeerSame(c) /\ WindowSame(c) /\ reader'[c] = reader[c]
           /\ \/ Removed(c)
              \/ inbound'[c] = EmptyQueue /\ open'[c] = open[c]
        \/ Same(c)
    BY PumpEffects
  <1>2. /\ inbound[c].pending_bytes \in Nat /\ taken[c] \in Nat /\ delivered[c] \in Nat
        /\ inbound[c].pending_bytes = IF chan[c] THEN taken[c] - delivered[c] ELSE 0
    BY PendingIs
  <1>3. /\ credit[c] \in Int /\ sent[c] \in Nat /\ adjusts[c] \in Int /\ window[c] \in Nat
        /\ MaxTarget \in Nat
    BY MaxTargetIsMax DEF TypeOK, PeerTypeOK, EncTypeOK, WindowOK
  <1>4. PeerSame(c) => WireStart(c)' = WireStart(c) /\ credit'[c] = credit[c] /\ sent'[c] = sent[c]
    BY DEF PeerSame, WireStart
  <1>5. ASSUME PeerSame(c), WindowSame(c), ~open'[c] PROVE WindowOK(c)'
    <2>1. /\ credit'[c] = credit[c] /\ window'[c] = window[c] /\ adjusts'[c] = adjusts[c]
      BY <1>4, <1>5 DEF WindowSame
    <2>. QED BY <1>5, <2>1 DEF WindowOK
  <1>. HIDE DEF item, left
  <1>6. CASE /\ Pumps(c, item) /\ inbound'[c] = Dequeued(inbound[c])
             /\ open'[c] = open[c] /\ chan'[c] = chan[c]
             /\ \/ item.kind = "data" /\ Granted(c, window[c], left)
                \/ item.kind = "eof" /\ WindowSame(c)
    <2>1. /\ PeerSame(c) /\ reader'[c] = reader[c] /\ taken'[c] = taken[c]
          /\ delivered'[c] = item.to /\ inbound[c].queue # <<>>
      BY <1>6 DEF Pumps
    <2>2. chan[c] /\ Chain(inbound[c].queue, delivered[c], taken[c])
      BY <2>1 DEF ReserveInv, OneReserve, StreamOK
    <2>3. /\ item.from = delivered[c] /\ delivered[c] <= item.to /\ item.to <= taken[c]
          /\ item.to \in Nat
      <3>1. inbound[c].queue \in Seq(Item) BY DEF TypeOK, QueueTypeOK, InboundQueue
      <3>. QED BY <2>1, <2>2, <3>1, ChainTail DEF item
    <2>4. byte_len(item) \in Nat /\ left \in Nat /\ left <= inbound[c].pending_bytes
      BY <1>2, <2>2, <2>3 DEF byte_len, left
    <2>5. inbound'[c].pending_bytes = left BY <1>6 DEF Dequeued, left, item
    <2>6. CASE item.kind = "data" /\ Granted(c, window[c], left)
      <3>1. /\ window'[c] \in Nat /\ adjusts'[c] - adjusts[c] = window'[c] - window[c]
            /\ adjusts'[c] >= adjusts[c] /\ adjusts'[c] \in Int
            /\ window'[c] = window[c] \/ window'[c] + left <= MaxTarget
            /\ TargetsSplit /\ open[c] /\ left = 0 => window'[c] > 0
        BY <1>3, <2>4, <2>6, GrantBacked
      <3>2. end'.obeyed => credit'[c] >= 0 /\ adjusts'[c] >= 0
        BY <1>3, <1>4, <2>1, <3>1 DEF WindowOK
      <3>3. end'.obeyed /\ open'[c] =>
              /\ window'[c] = credit'[c] + adjusts'[c] + (sent'[c] - WireStart(c)')
              /\ window'[c] + inbound'[c].pending_bytes <= MaxTarget
        <4>. SUFFICES ASSUME end.obeyed, open[c]
                      PROVE  /\ window'[c] = credit[c] + adjusts'[c] + (sent[c] - WireStart(c))
                             /\ window'[c] + left <= MaxTarget
          BY <1>4, <1>6, <2>1, <2>5
        <4>1. /\ window[c] = credit[c] + adjusts[c] + (sent[c] - WireStart(c))
              /\ window[c] + inbound[c].pending_bytes <= MaxTarget
          BY DEF WindowOK
        <4>2. WireStart(c) \in Nat BY DEF StreamOK, WireOK, Chain
        <4>3. window'[c] = credit[c] + adjusts'[c] + (sent[c] - WireStart(c))
          BY <1>3, <3>1, <4>1, <4>2
        <4>4. window'[c] + left <= MaxTarget BY <1>2, <1>3, <2>4, <3>1, <4>1
        <4>. QED BY <4>3, <4>4
      <3>4. TargetsSplit /\ open'[c] /\ reader'[c] /\ inbound'[c].pending_bytes = 0
              => window'[c] > 0
        BY <1>6, <2>5, <3>1
      <3>. QED BY <3>1, <3>2, <3>3, <3>4 DEF WindowOK
    <2>7. CASE item.kind = "eof" /\ WindowSame(c)
      <3>1. item.from = item.to
        <4>1. 1 \in 1 .. Len(inbound[c].queue) /\ item = inbound[c].queue[1]
              /\ inbound[c].queue \in Seq(Item)
          <5>1. inbound[c].queue \in Seq(Item) BY DEF TypeOK, QueueTypeOK, InboundQueue
          <5>2. Len(inbound[c].queue) \in Nat /\ Len(inbound[c].queue) > 0
            BY <2>1, <5>1, EmptySeq
          <5>. QED BY <2>1, <5>1, <5>2 DEF item
        <4>. QED BY <2>7, <4>1 DEF BacklogOK, Remembered
      <3>2. left = inbound[c].pending_bytes BY <1>2, <2>3, <3>1 DEF left, byte_len
      <3>3. inbound'[c].pending_bytes <= inbound[c].pending_bytes BY <1>2, <2>5, <3>2
      <3>4. sent'[c] - WireStart(c)' = sent[c] - WireStart(c) BY <1>4, <2>1
      <3>. QED BY <1>4, <1>6, <2>1, <2>5, <2>7, <3>2, <3>3, <3>4, WindowFrame
    <2>. QED BY <1>6, <2>6, <2>7
  <1>7. CASE Pumps(c, item) /\ Removed(c) /\ WindowSame(c)
    BY <1>5, <1>7 DEF Pumps, Removed
  <1>8. CASE /\ ~reader[c] /\ PeerSame(c) /\ WindowSame(c) /\ reader'[c] = reader[c]
             /\ \/ Removed(c)
                \/ inbound'[c] = EmptyQueue /\ open'[c] = open[c]
    <2>1. CASE Removed(c) BY <1>5, <1>8, <2>1 DEF Removed
    <2>2. CASE inbound'[c] = EmptyQueue /\ open'[c] = open[c]
      <3>1. inbound'[c].pending_bytes = 0 BY <2>2 DEF EmptyQueue
      <3>2. inbound'[c].pending_bytes <= inbound[c].pending_bytes BY <1>2, <3>1
      <3>3. sent'[c] - WireStart(c)' = sent[c] - WireStart(c) BY <1>4, <1>8
      <3>. QED BY <1>4, <1>8, <2>2, <3>2, <3>3, WindowFrame
    <2>. QED BY <1>8, <2>1, <2>2
  <1>9. CASE Same(c)
    <2>1. inbound'[c].pending_bytes = inbound[c].pending_bytes BY <1>9 DEF Same, QueueSame
    <2>2. inbound'[c].pending_bytes <= inbound[c].pending_bytes BY <1>2, <2>1
    <2>3. sent'[c] - WireStart(c)' = sent[c] - WireStart(c) BY <1>4, <1>9 DEF Same
    <2>. QED BY <1>4, <1>9, <2>1, <2>2, <2>3, WindowFrame DEF Same, EntrySame, AppSame
  <1>. QED BY <1>1, <1>6, <1>7, <1>8, <1>9

LEMMA WindowLocal ==
  ASSUME TypeOK, TypeOK', ReserveInv, NEW c \in Chan, StreamOK(c), BacklogOK(c), WindowOK(c),
         BacklogOK(c)', end' = end,
         \/ PeerSend(c) \/ PeerRecvAdjust(c) \/ RequestSent(c) \/ PumpRearm(c)
         \/ LocalClose(c) \/ OutboundCapClose(c) \/ AppRead(c) \/ AppDrop(c)
  PROVE  WindowOK(c)'
  <1>1. /\ inbound[c].pending_bytes \in Nat /\ taken[c] \in Nat /\ delivered[c] \in Nat
        /\ inbound[c].pending_bytes = IF chan[c] THEN taken[c] - delivered[c] ELSE 0
        /\ inbound'[c].pending_bytes = IF chan'[c] THEN taken'[c] - delivered'[c] ELSE 0
    BY PendingIs DEF BacklogOK
  <1>2. /\ credit[c] \in Int /\ sent[c] \in Nat /\ adjusts[c] \in Int /\ window[c] \in Nat
        /\ WireStart(c) \in Nat
    BY DEF TypeOK, PeerTypeOK, EncTypeOK, WindowOK, StreamOK, WireOK, Chain
  <1>3. ASSUME PeerSame(c), WindowSame(c), open'[c] => open[c], reader'[c] => reader[c],
               chan'[c] = chan[c], taken'[c] = taken[c], delivered'[c] = delivered[c]
        PROVE  WindowOK(c)'
    <2>1. inbound'[c].pending_bytes = inbound[c].pending_bytes BY <1>1, <1>3
    <2>2. inbound'[c].pending_bytes <= inbound[c].pending_bytes BY <1>1, <2>1
    <2>3. credit'[c] = credit[c] /\ sent'[c] - WireStart(c)' = sent[c] - WireStart(c)
      BY <1>3 DEF PeerSame, WireStart
    <2>. QED BY <1>3, <2>1, <2>2, <2>3, WindowFrame
  <1>4. ASSUME NEW kind \in {"data", "eof", "close", "request", "adjust"}, NEW n \in Nat,
               kind # "data" => n = 0, Puts(c, kind, n), credit'[c] = credit[c] - n,
               end.obeyed => n <= credit[c]
        PROVE  WindowOK(c)'
    <2>1. WireStart(c)' = WireStart(c) BY <1>4, WirePut DEF StreamOK
    <2>2. /\ sent'[c] = sent[c] + n /\ window'[c] = window[c] /\ adjusts'[c] = adjusts[c]
          /\ inbound'[c] = inbound[c] /\ open'[c] = open[c] /\ reader'[c] = reader[c]
      BY <1>4 DEF Puts, WindowSame, EntrySame, QueueSame, AppSame
    <2>3. end'.obeyed => credit'[c] >= 0 /\ adjusts'[c] >= 0 BY <1>2, <1>4, <2>2 DEF WindowOK
    <2>4. end'.obeyed /\ open'[c] =>
            /\ window'[c] = credit'[c] + adjusts'[c] + (sent'[c] - WireStart(c)')
            /\ window'[c] + inbound'[c].pending_bytes <= MaxTarget
      BY <1>2, <1>4, <2>1, <2>2 DEF WindowOK
    <2>. QED BY <2>2, <2>3, <2>4 DEF WindowOK
  <1>5. CASE PeerSend(c)
    <2>1. \/ \E n \in Nat : /\ Puts(c, "data", n) /\ credit'[c] = credit[c] - n
                            /\ end.obeyed => n <= credit[c]
          \/ \E kind \in {"eof", "close", "request", "adjust"} :
               Puts(c, kind, 0) /\ credit'[c] = credit[c]
      BY <1>5, PutEffects
    <2>2. credit[c] - 0 = credit[c] /\ (end.obeyed => 0 <= credit[c]) BY <1>2 DEF WindowOK
    <2>. QED BY <1>4, <2>1, <2>2
  <1>6. CASE PeerRecvAdjust(c)
    <2>1. /\ credit'[c] = credit[c] + adjusts[c] /\ adjusts'[c] = 0 /\ adjusts[c] > 0
          /\ window'[c] = window[c] /\ open'[c] = open[c] /\ inbound'[c] = inbound[c]
          /\ reader'[c] = reader[c] /\ sent'[c] = sent[c] /\ wire'[c] = wire[c]
      BY <1>6, AdjustEffects DEF EntrySame, QueueSame, AppSame
    <2>2. WireStart(c)' = WireStart(c) BY <2>1 DEF WireStart
    <2>3. end'.obeyed => credit'[c] >= 0 /\ adjusts'[c] >= 0 BY <1>2, <2>1 DEF WindowOK
    <2>4. end'.obeyed /\ open'[c] =>
            /\ window'[c] = credit'[c] + adjusts'[c] + (sent'[c] - WireStart(c)')
            /\ window'[c] + inbound'[c].pending_bytes <= MaxTarget
      BY <1>2, <2>1, <2>2 DEF WindowOK
    <2>. QED BY <2>1, <2>3, <2>4 DEF WindowOK
  <1>7. CASE RequestSent(c)
    <2>1. PeerSame(c) /\ Tells(c, "request") /\ open'[c] = open[c] BY <1>7, OtherEffects
    <2>. QED BY <1>3, <2>1 DEF Tells, QueueSame
  <1>8. CASE PumpRearm(c)
    BY <1>3, <1>8, RearmEffects DEF EntrySame, AppSame
  <1>9. CASE LocalClose(c) \/ OutboundCapClose(c)
    <2>1. /\ PeerSame(c) /\ WindowSame(c) /\ AppSame(c) /\ taken'[c] = taken[c]
          /\ \/ (open'[c] => open[c]) /\ chan'[c] = chan[c]
             \/ Removed(c)
      BY <1>9, CloseLocallyEffects
    <2>2. CASE Removed(c)
      <3>1. /\ credit'[c] = credit[c] /\ window'[c] = window[c] /\ adjusts'[c] = adjusts[c]
            /\ ~open'[c]
        BY <2>1, <2>2 DEF WindowSame, PeerSame, Removed
      <3>. QED BY <3>1 DEF WindowOK
    <2>. QED BY <1>3, <2>1, <2>2 DEF AppSame
  <1>10. CASE AppRead(c) \/ AppDrop(c)
    BY <1>3, <1>10, AppEffects DEF EntrySame, QueueSame
  <1>. QED BY <1>5, <1>6, <1>7, <1>8, <1>9, <1>10

LEMMA WindowNext ==
  TypeOK /\ ReserveInv /\ StreamInv /\ BacklogInv /\ WindowInv /\ [Next]_vars => WindowInv'
  <1>. SUFFICES ASSUME TypeOK, ReserveInv, StreamInv, BacklogInv, WindowInv, [Next]_vars,
                       NEW d \in Chan
                PROVE  WindowOK(d)'
    BY DEF WindowInv
  <1>1. /\ StreamOK(d) /\ BacklogOK(d) /\ WindowOK(d) /\ TypeOK' /\ end' = end
        /\ StreamOK(d)' /\ BacklogOK(d)'
    BY NextTypes, EndStays, StreamNext, BacklogNext DEF StreamInv, BacklogInv, WindowInv
  <1>2. CASE Same(d)
    <2>1. /\ credit'[d] = credit[d] /\ open'[d] = open[d] /\ reader'[d] = reader[d]
          /\ WindowSame(d) /\ inbound'[d] = inbound[d]
          /\ sent'[d] - WireStart(d)' = sent[d] - WireStart(d)
      BY <1>2 DEF Same, PeerSame, EntrySame, AppSame, QueueSame, WireStart
    <2>2. inbound'[d].pending_bytes <= inbound[d].pending_bytes
      BY <1>1, <2>1, PendingIs
    <2>. QED BY <1>1, <2>1, <2>2, WindowFrame
  <1>3. CASE \/ PeerSend(d) \/ PeerRecvAdjust(d) \/ Recv(d) \/ RequestSent(d)
             \/ Pump(d) \/ PumpRearm(d) \/ LocalClose(d) \/ OutboundCapClose(d)
             \/ AppRead(d) \/ AppDrop(d)
    BY <1>1, <1>3, WindowRecv, WindowPump, WindowLocal
  <1>. QED BY <1>2, <1>3, OneChannel DEF OthersSame

LEMMA WindowInit == Init => WindowInv
  <1>. SUFFICES ASSUME Init, NEW c \in Chan PROVE WindowOK(c) BY DEF WindowInv
  <1>1. /\ wire[c] = <<>> /\ sent[c] = 0 /\ inbound[c].pending_bytes = 0
        /\ credit[c] = WindowSize /\ adjusts[c] = 0 /\ window[c] = WindowSize
    BY DEF Init, EmptyQueue
  <1>2. WireStart(c) = 0 BY <1>1 DEF WireStart
  <1>3. WindowSize \in Nat /\ WindowSize > 0 /\ WindowSize <= MaxTarget BY MaxTargetIsMax
  <1>. QED BY <1>1, <1>2, <1>3 DEF WindowOK

\* I2 for every instance: an obedient peer's credit, what it has on the wire and
\* the backlog of deliver_inbound never add up to more than the largest target,
\* so maybe_grant_recv_window never authorises bytes twice.
THEOREM CreditAlwaysBacked == Spec => []CreditBacked
  <1>1. WindowInv => CreditBacked BY DEF WindowInv, WindowOK, CreditBacked
  <1>. QED
    BY <1>1, InitTypes, NextTypes, ReserveInit, ReserveNext, StreamInit, StreamNext, BacklogInit,
       BacklogNext, WindowInit, WindowNext, PTL DEF Spec

\* And if every target is at least 2, so that half of it is a window at all, the
\* peer may always send something to an application that has received everything.
THEOREM WindowAlwaysHonest ==
  ASSUME TargetsSplit
  PROVE  Spec => []WindowHonest
  <1>1. TypeOK /\ StreamInv /\ BacklogInv /\ WindowInv => WindowHonest
    <2>. SUFFICES ASSUME TypeOK, StreamInv, BacklogInv, WindowInv PROVE WindowHonest OBVIOUS
    <2>1. CreditBacked BY DEF WindowInv, WindowOK, CreditBacked
    <2>2. ASSUME NEW c \in Chan, open[c], reader[c], inbound[c].queue = <<>> PROVE window[c] > 0
      <3>1. StreamOK(c) /\ BacklogOK(c) /\ WindowOK(c) BY DEF StreamInv, BacklogInv, WindowInv
      <3>2. chan[c] /\ Chain(<<>>, delivered[c], taken[c]) BY <2>2, <3>1 DEF StreamOK
      <3>3. delivered[c] = taken[c] BY <3>2 DEF Chain, Contiguous
      <3>4. inbound[c].pending_bytes = 0 BY <3>1, <3>2, <3>3, PendingIs
      <3>. QED BY <2>2, <3>1, <3>4 DEF WindowOK
    <2>. QED BY <2>1, <2>2 DEF WindowHonest, WindowNotStarved
  <1>. QED
    BY <1>1, InitTypes, NextTypes, ReserveInit, ReserveNext, StreamInit, StreamNext, BacklogInit,
       BacklogNext, WindowInit, WindowNext, PTL DEF Spec
-----------------------------------------------------------------------------
(* The byte pipe of a channel. *)

Bounds(c) == taken[c] <= sent[c] /\ delivered[c] <= sent[c] /\ read[c] <= sent[c]

\* Nothing but further Closes follows a Close on the wire.
WireClose(c) ==
  \A i \in 1 .. Len(wire[c]) :
    wire[c][i].kind = "close" => done[c] = "close" /\ wire[c][i].to = sent[c]

\* A Close that was taken while the channel was established ends a stream that
\* the session has taken completely.
PeerClosed(c) ==
  peerClose[c] =>
    /\ done[c] = "close" /\ ~open[c] /\ WireStart(c) = sent[c]
    /\ reader[c] => IF chan[c] THEN taken[c] = sent[c] ELSE delivered[c] = sent[c]

\* A Close in a backlog stands behind all the bytes that were taken.
QueueClose(c) ==
  \A i \in 1 .. Len(inbound[c].queue) :
    inbound[c].queue[i].kind = "close" =>
      /\ done[c] = "close" /\ ~open[c] /\ inbound[c].queue[i].to = taken[c]
      /\ end.side = "client" => WireStart(c) = sent[c]

CloseOK(c) == Bounds(c) /\ WireClose(c) /\ PeerClosed(c) /\ QueueClose(c)
CloseInv == \A c \in Chan : CloseOK(c)

LEMMA CloseSame ==
  ASSUME NEW d \in Chan, CloseOK(d), Same(d), end' = end
  PROVE  CloseOK(d)'
  <1>1. WireStart(d)' = WireStart(d) BY DEF WireStart, Same, PeerSame
  <1>2. Bounds(d)' BY DEF CloseOK, Bounds, Same, PeerSame, QueueSame, AppSame
  <1>3. WireClose(d)' BY DEF CloseOK, WireClose, Same, PeerSame
  <1>4. PeerClosed(d)'
    BY <1>1 DEF CloseOK, PeerClosed, Same, PeerSame, EntrySame, QueueSame, AppSame
  <1>5. QueueClose(d)'
    BY <1>1 DEF CloseOK, QueueClose, Same, PeerSame, EntrySame, QueueSame
  <1>. QED BY <1>2, <1>3, <1>4, <1>5 DEF CloseOK

\* The wire's part of an arrival.
LEMMA CloseArrives ==
  ASSUME TypeOK, NEW c \in Chan, StreamOK(c), CloseOK(c), NEW kind, Arrives(c, kind)
  PROVE  /\ WireClose(c)'
         /\ WireStart(c) = sent[c] => Head(wire[c]).to = sent[c] /\ WireStart(c)' = sent'[c]
         /\ kind = "close" => /\ done'[c] = "close" /\ WireStart(c)' = sent'[c]
                              /\ WireStart(c) = sent[c]
         /\ sent'[c] = sent[c] /\ done'[c] = done[c]
         /\ reader'[c] = reader[c] /\ read'[c] = read[c]
  <1>. DEFINE item == Head(wire[c])
  <1>1. /\ item.from \in Nat /\ item.to \in Nat /\ item.kind = kind
        /\ item.from = WireStart(c) /\ item.from <= item.to /\ item.to <= sent[c]
        /\ kind # "data" => item.from = item.to
        /\ WireStart(c)' = item.to
    BY WireTake DEF StreamOK
  <1>2. /\ sent'[c] = sent[c] /\ done'[c] = done[c] /\ sent[c] \in Nat
        /\ reader'[c] = reader[c] /\ read'[c] = read[c]
        /\ wire[c] \in Seq(Item) /\ wire[c] # <<>> /\ wire'[c] = Tail(wire[c])
    BY DEF Arrives, TypeOK, PeerTypeOK
  <1>3. /\ Len(Tail(wire[c])) = Len(wire[c]) - 1 /\ Len(wire[c]) \in Nat /\ Len(wire[c]) > 0
        /\ \A i \in 1 .. Len(Tail(wire[c])) : Tail(wire[c])[i] = wire[c][i + 1]
        /\ item = wire[c][1]
    BY <1>2, EmptySeq, HeadTailProperties
  <1>4. WireClose(c)'
    <2>. SUFFICES ASSUME NEW i \in 1 .. Len(Tail(wire[c])), Tail(wire[c])[i].kind = "close"
                  PROVE  done[c] = "close" /\ Tail(wire[c])[i].to = sent[c]
      BY <1>2 DEF WireClose
    <2>1. i + 1 \in 1 .. Len(wire[c]) /\ Tail(wire[c])[i] = wire[c][i + 1] BY <1>3
    <2>. QED BY <2>1 DEF CloseOK, WireClose
  <1>5. kind = "close" => done[c] = "close" /\ item.to = sent[c]
    <2>1. 1 \in 1 .. Len(wire[c]) BY <1>3
    <2>. QED BY <1>1, <1>3, <2>1 DEF CloseOK, WireClose
  <1>6. WireStart(c) = sent[c] => item.to = sent[c] BY <1>1, <1>2
  <1>7. kind = "close" => WireStart(c) = sent[c] BY <1>1, <1>5
  <1>. QED BY <1>1, <1>2, <1>4, <1>5, <1>6, <1>7

\* The rest of an arrival that hands the packet to deliver_inbound.
LEMMA CloseDeliver ==
  ASSUME TypeOK, ReserveInv, NEW c \in Chan, StreamOK(c), CloseOK(c),
         NEW kind, Arrives(c, kind), end' = end,
         NEW item \in Item, deliver_inbound(c, item), item.kind = kind,
         kind \in {"data", "eof"}, item = Head(wire[c]), Accepts(c, kind),
         Delivery(c, item) # "Overflow" \/ item.from = item.to, EntrySame(c)
  PROVE  CloseOK(c)'
  <1>1. /\ item.from \in Nat /\ item.to \in Nat
        /\ item.from = WireStart(c) /\ item.from <= item.to /\ item.to <= sent[c]
        /\ kind # "data" => item.from = item.to
        /\ WireStart(c)' = item.to
    BY WireTake DEF StreamOK
  <1>2. /\ WireClose(c)'
        /\ WireStart(c) = sent[c] => item.to = sent[c] /\ WireStart(c)' = sent'[c]
        /\ sent'[c] = sent[c] /\ done'[c] = done[c]
        /\ reader'[c] = reader[c] /\ read'[c] = read[c]
    BY CloseArrives
  <1>3. /\ taken'[c] = item.to
        /\ \/ Nothing(c) /\ (item.from = item.to \/ ~chan[c])
           \/ Stored(c, item) \/ Gone(c, item) \/ Kept(c, item)
    BY <1>1, DeliverEffects
  <1>4. open'[c] = open[c] /\ chan'[c] = chan[c] /\ peerClose'[c] = peerClose[c]
    BY DEF EntrySame
  <1>5. /\ delivered'[c] = delivered[c] \/ (chan[c] /\ delivered'[c] = item.to)
    BY <1>3 DEF Nothing, Stored, Gone, Kept
  <1>6. Bounds(c)' BY <1>1, <1>2, <1>3, <1>5 DEF CloseOK, Bounds
  <1>7. PeerClosed(c)' BY <1>2, <1>3, <1>4, <1>5 DEF CloseOK, PeerClosed
  <1>8. ASSUME NEW i \in 1 .. Len(inbound[c].queue), inbound[c].queue[i].kind = "close"
        PROVE  /\ done'[c] = "close" /\ ~open'[c] /\ inbound[c].queue[i].to = taken'[c]
               /\ end'.side = "client" => WireStart(c)' = sent'[c]
    <2>1. /\ done[c] = "close" /\ ~open[c] /\ inbound[c].queue[i].to = taken[c]
          /\ end.side = "client" => WireStart(c) = sent[c]
      BY <1>8 DEF CloseOK, QueueClose
    <2>2. end.side = "client" BY <2>1 DEF Accepts
    <2>3. inbound[c].queue # <<>> BY <1>8
    <2>4. chan[c] BY <2>3 DEF ReserveInv, OneReserve
    <2>5. taken[c] = WireStart(c) BY <2>2, <2>4 DEF StreamOK, Attached
    <2>. QED BY <1>2, <1>3, <1>4, <2>1, <2>2, <2>5
  <1>9. QueueClose(c)'
    <2>1. CASE inbound'[c] = inbound[c] BY <1>8, <2>1 DEF QueueClose
    <2>2. CASE Kept(c, item)
      <3>1. inbound[c].queue \in Seq(Item) BY DEF TypeOK, QueueTypeOK, InboundQueue
      <3>2. inbound'[c].queue = Append(inbound[c].queue, item) BY <2>2 DEF Kept, Enqueued
      <3>3. /\ Len(inbound'[c].queue) = Len(inbound[c].queue) + 1 /\ Len(inbound[c].queue) \in Nat
            /\ inbound'[c].queue[Len(inbound[c].queue) + 1] = item
            /\ \A i \in 1 .. Len(inbound[c].queue) : inbound'[c].queue[i] = inbound[c].queue[i]
        BY <3>1, <3>2, AppendProperties
      <3>. SUFFICES ASSUME NEW i \in 1 .. Len(inbound'[c].queue),
                           inbound'[c].queue[i].kind = "close"
                    PROVE  /\ done'[c] = "close" /\ ~open'[c] /\ inbound'[c].queue[i].to = taken'[c]
                           /\ end'.side = "client" => WireStart(c)' = sent'[c]
        BY DEF QueueClose
      <3>4. CASE i \in 1 .. Len(inbound[c].queue)
        <4>1. inbound'[c].queue[i] = inbound[c].queue[i] BY <3>3, <3>4
        <4>. QED BY <1>8, <3>4, <4>1
      <3>5. CASE i = Len(inbound[c].queue) + 1 BY <3>3, <3>5
      <3>. QED BY <3>3, <3>4, <3>5
    <2>. QED BY <1>3, <2>1, <2>2 DEF Nothing, Stored, Gone
  <1>. QED BY <1>2, <1>6, <1>7, <1>9 DEF CloseOK

LEMMA CloseRecv ==
  ASSUME TypeOK, ReserveInv, NEW c \in Chan, StreamOK(c), BacklogOK(c), CloseOK(c), end' = end,
         Recv(c)
  PROVE  CloseOK(c)'
  <1>. DEFINE head == Head(wire[c])
  <1>1. /\ sent[c] \in Nat /\ taken[c] \in Nat /\ delivered[c] \in Nat /\ read[c] \in Nat
        /\ inbound[c].queue \in Seq(Item)
    BY DEF TypeOK, PeerTypeOK, QueueTypeOK, AppTypeOK, InboundQueue
  <1>2. ASSUME NEW kind, Arrives(c, kind), open'[c] => open[c], chan'[c] <=> chan[c],
               peerClose'[c] => peerClose[c], inbound'[c] = inbound[c], taken'[c] = taken[c],
               delivered'[c] = delivered[c]
        PROVE  CloseOK(c)'
    <2>1. /\ WireClose(c)' /\ (WireStart(c) = sent[c] => WireStart(c)' = sent'[c])
          /\ sent'[c] = sent[c] /\ done'[c] = done[c]
          /\ reader'[c] = reader[c] /\ read'[c] = read[c]
      BY <1>2, CloseArrives
    <2>2. Bounds(c)' BY <1>2, <2>1 DEF CloseOK, Bounds
    <2>3. PeerClosed(c)' BY <1>2, <2>1 DEF CloseOK, PeerClosed
    <2>4. QueueClose(c)' BY <1>2, <2>1 DEF CloseOK, QueueClose
    <2>. QED BY <2>1, <2>2, <2>3, <2>4 DEF CloseOK
  <1>3. ASSUME NEW kind \in {"data", "eof", "request", "adjust"}, RecvIgnored(c, kind)
        PROVE  CloseOK(c)'
    <2>1. Arrives(c, kind) /\ Ignores(c) BY <1>3, OtherEffects
    <2>. QED BY <1>2, <2>1 DEF Ignores, EntrySame, QueueSame, AppSame
  <1>4. CASE RecvRequest(c)
    <2>1. Arrives(c, "request") /\ Ignores(c) BY <1>4, OtherEffects
    <2>. QED BY <1>2, <2>1 DEF Ignores, EntrySame, QueueSame, AppSame
  <1>5. CASE RecvWindowAdjust(c)
    <2>1. Arrives(c, "adjust") /\ Tells(c, "adjust") /\ (open'[c] => open[c])
      BY <1>5, OtherEffects
    <2>. QED BY <1>2, <2>1 DEF Tells, QueueSame
  <1>6. CASE RecvData(c)
    <2>. DEFINE win == consume_recv_window(c, byte_len(head))
    <2>1. /\ Arrives(c, "data") /\ Accepts(c, "data")
          /\ TakesData(c, head, win) \/ Overflows(c, head, win)
      BY <1>6, DataEffects
    <2>2. /\ head \in Item /\ head.kind = "data" /\ head.from \in Nat /\ head.to \in Nat
          /\ head.from = WireStart(c)
      BY <2>1, WireTake DEF StreamOK
    <2>3. CASE TakesData(c, head, win)
      BY <2>1, <2>2, <2>3, CloseDeliver DEF TakesData
    <2>4. CASE Overflows(c, head, win)
      <3>1. /\ WireClose(c)' /\ (WireStart(c) = sent[c] => head.to = sent[c])
            /\ sent'[c] = sent[c] /\ read'[c] = read[c]
        BY <2>1, CloseArrives
      <3>2. /\ Removed(c) /\ taken'[c] = taken[c] /\ delivered'[c] = delivered[c]
            /\ peerClose'[c] = peerClose[c] /\ Delivery(c, head) = "Overflow"
        BY <2>4 DEF Overflows
      <3>3. head.from # head.to
        <4>1. byte_len(head) # 0 BY <2>2, <3>2 DEF Delivery
        <4>. QED BY <2>2, <4>1 DEF byte_len
      <3>4. ~peerClose'[c] BY <2>2, <3>1, <3>2, <3>3 DEF CloseOK, PeerClosed
      <3>5. \A i \in 1 .. Len(inbound'[c].queue) : FALSE BY <3>2 DEF Removed, EmptyQueue
      <3>6. Bounds(c)' BY <3>1, <3>2 DEF CloseOK, Bounds
      <3>. QED BY <3>1, <3>4, <3>5, <3>6 DEF CloseOK, PeerClosed, QueueClose
    <2>. QED BY <2>1, <2>3, <2>4
  <1>7. CASE RecvEof(c)
    <2>1. /\ Arrives(c, "eof") /\ Accepts(c, "eof") /\ deliver_inbound(c, head) /\ EntrySame(c)
      BY <1>7, EofEffects
    <2>2. head \in Item /\ head.kind = "eof" /\ head.from = head.to
      BY <2>1, WireTake DEF StreamOK
    <2>. QED BY <2>1, <2>2, CloseDeliver
  <1>8. CASE RecvClose(c)
    <2>. DEFINE x == CloseItem(c)
    <2>1. /\ Arrives(c, "close") /\ peerClose'[c] = (peerClose[c] \/ open[c])
          /\ \/ /\ ~open[c] /\ ~chan[c] /\ ~open'[c] /\ ~chan'[c] /\ QueueSame(c) /\ AppSame(c)
             \/ /\ open[c] \/ chan[c]
                /\ deliver_inbound(c, x) /\ Delivery(c, x) = "Queued"
                /\ ~open'[c] /\ chan'[c] = chan[c]
             \/ /\ (open[c] \/ chan[c]) /\ Removed(c) /\ taken'[c] = taken[c]
                /\ delivered'[c] = delivered[c]
                /\ Delivery(c, x) = "Overflow" \/ inbound[c].queue = <<>>
      BY <1>8, CloseEffects
    <2>2. /\ WireClose(c)' /\ done'[c] = "close" /\ WireStart(c)' = sent'[c]
          /\ WireStart(c) = sent[c]
          /\ sent'[c] = sent[c] /\ reader'[c] = reader[c] /\ read'[c] = read[c]
      BY <2>1, CloseArrives
    <2>3. /\ x \in Item /\ x.kind = "close" /\ x.from = taken[c] /\ x.to = taken[c]
      BY <1>1 DEF CloseItem, Item
    <2>4. open[c] => chan[c] /\ taken[c] = sent[c] BY <2>2 DEF StreamOK, Attached
    <2>. HIDE DEF x
    <2>5. CASE /\ ~open[c] /\ ~chan[c] /\ ~open'[c] /\ ~chan'[c] /\ QueueSame(c) /\ AppSame(c)
      <3>1. /\ open'[c] => open[c]
            /\ chan'[c] <=> chan[c]
            /\ peerClose'[c] => peerClose[c]
        BY <2>1, <2>5
      <3>. QED BY <1>2, <2>1, <2>5, <3>1 DEF QueueSame, AppSame
    <2>6. CASE /\ open[c] \/ chan[c]
               /\ deliver_inbound(c, x) /\ Delivery(c, x) = "Queued"
               /\ ~open'[c] /\ chan'[c] = chan[c]
      <3>1. chan[c] BY <2>4, <2>6
      <3>2. /\ taken'[c] = x.to
            /\ \/ Nothing(c) \/ Stored(c, x) \/ Gone(c, x) \/ Kept(c, x)
        BY <2>3, <2>6, DeliverEffects
      <3>3. delivered'[c] = delivered[c] \/ delivered'[c] = taken[c]
        BY <2>3, <3>2 DEF Nothing, Stored, Gone, Kept
      <3>4. Bounds(c)' BY <2>2, <2>3, <3>2, <3>3 DEF CloseOK, Bounds
      <3>5. PeerClosed(c)'
        BY <2>1, <2>2, <2>3, <2>4, <2>6, <3>1, <3>2 DEF CloseOK, PeerClosed
      <3>6. ASSUME NEW i \in 1 .. Len(inbound[c].queue), inbound[c].queue[i].kind = "close"
            PROVE  inbound[c].queue[i].to = taken'[c]
        BY <2>3, <3>2, <3>6 DEF CloseOK, QueueClose
      <3>7. QueueClose(c)'
        <4>1. CASE inbound'[c] = inbound[c] BY <2>2, <2>6, <3>6, <4>1 DEF QueueClose
        <4>2. CASE Kept(c, x)
          <5>1. inbound'[c].queue = Append(inbound[c].queue, x) BY <4>2 DEF Kept, Enqueued
          <5>2. /\ Len(inbound'[c].queue) = Len(inbound[c].queue) + 1
                /\ Len(inbound[c].queue) \in Nat
                /\ inbound'[c].queue[Len(inbound[c].queue) + 1] = x
                /\ \A i \in 1 .. Len(inbound[c].queue) :
                     inbound'[c].queue[i] = inbound[c].queue[i]
            BY <1>1, <2>3, <5>1, AppendProperties
          <5>. SUFFICES ASSUME NEW i \in 1 .. Len(inbound'[c].queue),
                               inbound'[c].queue[i].kind = "close"
                        PROVE  inbound'[c].queue[i].to = taken'[c]
            BY <2>2, <2>6 DEF QueueClose
          <5>3. CASE i \in 1 .. Len(inbound[c].queue)
            <6>1. inbound'[c].queue[i] = inbound[c].queue[i] BY <5>2, <5>3
            <6>. QED BY <3>6, <5>3, <6>1
          <5>4. CASE i = Len(inbound[c].queue) + 1 BY <3>2, <5>2, <5>4
          <5>. QED BY <5>2, <5>3, <5>4
        <4>. QED BY <3>2, <4>1, <4>2 DEF Nothing, Stored, Gone
      <3>. QED BY <2>2, <3>4, <3>5, <3>7 DEF CloseOK
    <2>7. CASE /\ (open[c] \/ chan[c]) /\ Removed(c) /\ taken'[c] = taken[c]
               /\ delivered'[c] = delivered[c]
               /\ Delivery(c, x) = "Overflow" \/ inbound[c].queue = <<>>
      <3>1. chan[c] BY <2>4, <2>7
      <3>2. Delivery(c, x) # "Overflow"
        <4>1. byte_len(x) = 0 BY <1>1, <2>3 DEF byte_len
        <4>2. inbound[c].pending_bytes \in Int /\ PendingCap \in Nat
          BY ConstantsAssumption DEF TypeOK, QueueTypeOK, InboundQueue
        <4>3. ~(inbound[c].pending_bytes + byte_len(x) > PendingCap)
          BY <4>1, <4>2 DEF BacklogOK
        <4>. QED BY <2>3, <4>3 DEF Delivery
      <3>3. inbound[c].queue = <<>> BY <2>7, <3>2
      <3>4. delivered[c] = taken[c] BY <3>1, <3>3 DEF StreamOK, Chain, Contiguous
      <3>5. ~open'[c] /\ ~chan'[c] BY <2>7 DEF Removed
      <3>6. \A i \in 1 .. Len(inbound'[c].queue) : FALSE BY <2>7 DEF Removed, EmptyQueue
      <3>7. Bounds(c)' BY <2>2, <2>7 DEF CloseOK, Bounds
      <3>8. PeerClosed(c)'
        BY <2>1, <2>2, <2>4, <2>7, <3>1, <3>4, <3>5 DEF CloseOK, PeerClosed
      <3>. QED BY <2>2, <3>6, <3>7, <3>8 DEF CloseOK, QueueClose
    <2>. QED BY <2>1, <2>5, <2>6, <2>7
  <1>. QED BY <1>3, <1>4, <1>5, <1>6, <1>7, <1>8 DEF Recv

LEMMA ClosePump ==
  ASSUME TypeOK, ReserveInv, NEW c \in Chan, StreamOK(c), CloseOK(c), end' = end, Pump(c)
  PROVE  CloseOK(c)'
  <1>. DEFINE item == Head(inbound[c].queue)
              q == inbound[c].queue
  <1>1. \/ /\ Pumps(c, item) /\ inbound'[c] = Dequeued(inbound[c])
           /\ open'[c] = open[c] /\ chan'[c] = chan[c]
        \/ Pumps(c, item) /\ item.kind = "close" /\ Removed(c)
        \/ /\ ~reader[c] /\ PeerSame(c) /\ reader'[c] = reader[c] /\ read'[c] = read[c]
           /\ taken'[c] = taken[c] /\ delivered'[c] = taken[c] /\ peerClose'[c] = peerClose[c]
           /\ inbound'[c] = EmptyQueue /\ (open'[c] => open[c])
        \/ Same(c)
    BY PumpEffects DEF Removed
  <1>2. /\ taken[c] \in Nat /\ delivered[c] \in Nat /\ sent[c] \in Nat /\ q \in Seq(Item)
    BY DEF TypeOK, PeerTypeOK, QueueTypeOK, AppTypeOK, InboundQueue
  <1>3. PeerSame(c) => /\ WireStart(c)' = WireStart(c) /\ sent'[c] = sent[c] /\ done'[c] = done[c]
                       /\ WireClose(c)'
    BY DEF PeerSame, WireStart, CloseOK, WireClose
  <1>. HIDE DEF item
  <1>4. ASSUME Pumps(c, item)
        PROVE  /\ PeerSame(c) /\ taken'[c] = taken[c] /\ peerClose'[c] = peerClose[c]
               /\ reader'[c] = reader[c] /\ read'[c] = read[c] /\ delivered'[c] = item.to
               /\ q # <<>> /\ chan[c] /\ Bounds(c)'
    <2>1. /\ PeerSame(c) /\ taken'[c] = taken[c] /\ peerClose'[c] = peerClose[c]
          /\ reader'[c] = reader[c] /\ read'[c] = read[c] /\ delivered'[c] = item.to
          /\ q # <<>> /\ item = Head(q)
      BY <1>4 DEF Pumps
    <2>2. chan[c] /\ Chain(q, delivered[c], taken[c])
      BY <2>1 DEF ReserveInv, OneReserve, StreamOK
    <2>3. item.to <= taken[c] /\ item.to \in Nat BY <1>2, <2>1, <2>2, ChainTail
    <2>4. Bounds(c)' BY <1>2, <1>3, <2>1, <2>3 DEF CloseOK, Bounds
    <2>. QED BY <2>1, <2>2, <2>4
  <1>5. CASE /\ Pumps(c, item) /\ inbound'[c] = Dequeued(inbound[c])
             /\ open'[c] = open[c] /\ chan'[c] = chan[c]
    <2>1. PeerClosed(c)' BY <1>3, <1>4, <1>5 DEF CloseOK, PeerClosed
    <2>2. inbound'[c].queue = Tail(q) BY <1>5 DEF Dequeued
    <2>3. /\ Len(Tail(q)) = Len(q) - 1 /\ Len(q) \in Nat
          /\ \A i \in 1 .. Len(Tail(q)) : Tail(q)[i] = q[i + 1]
      BY <1>2, <1>4, <1>5, EmptySeq, HeadTailProperties
    <2>4. ASSUME NEW i \in 1 .. Len(Tail(q)), Tail(q)[i].kind = "close"
          PROVE  /\ done[c] = "close" /\ ~open[c] /\ Tail(q)[i].to = taken[c]
                 /\ end.side = "client" => WireStart(c) = sent[c]
      <3>1. i + 1 \in 1 .. Len(q) /\ Tail(q)[i] = q[i + 1] BY <2>3
      <3>. QED BY <2>4, <3>1 DEF CloseOK, QueueClose
    <2>5. QueueClose(c)' BY <1>3, <1>4, <1>5, <2>2, <2>4 DEF QueueClose
    <2>. QED BY <1>3, <1>4, <1>5, <2>1, <2>5 DEF CloseOK
  <1>6. CASE Pumps(c, item) /\ item.kind = "close" /\ Removed(c)
    <2>1. item.to = taken[c]
      <3>1. 1 \in 1 .. Len(q) /\ item = q[1]
        <4>1. Len(q) \in Nat /\ Len(q) > 0 BY <1>2, <1>4, <1>6, EmptySeq
        <4>. QED BY <1>2, <1>4, <1>6, <4>1 DEF item
      <3>. QED BY <1>6, <3>1 DEF CloseOK, QueueClose
    <2>2. ~open'[c] /\ ~chan'[c] BY <1>6 DEF Removed
    <2>3. \A i \in 1 .. Len(inbound'[c].queue) : FALSE BY <1>6 DEF Removed, EmptyQueue
    <2>4. PeerClosed(c)' BY <1>3, <1>4, <1>6, <2>1, <2>2 DEF CloseOK, PeerClosed
    <2>. QED BY <1>3, <1>4, <1>6, <2>3, <2>4 DEF CloseOK, QueueClose
  <1>7. CASE /\ ~reader[c] /\ PeerSame(c) /\ reader'[c] = reader[c] /\ read'[c] = read[c]
             /\ taken'[c] = taken[c] /\ delivered'[c] = taken[c] /\ peerClose'[c] = peerClose[c]
             /\ inbound'[c] = EmptyQueue /\ (open'[c] => open[c])
    <2>1. \A i \in 1 .. Len(inbound'[c].queue) : FALSE BY <1>7 DEF EmptyQueue
    <2>2. Bounds(c)' BY <1>3, <1>7 DEF CloseOK, Bounds
    <2>3. PeerClosed(c)' BY <1>3, <1>7 DEF CloseOK, PeerClosed
    <2>. QED BY <1>3, <1>7, <2>1, <2>2, <2>3 DEF CloseOK, QueueClose
  <1>8. CASE Same(c) BY <1>8, CloseSame
  <1>. QED BY <1>1, <1>5, <1>6, <1>7, <1>8

LEMMA CloseLocal ==
  ASSUME TypeOK, ReserveInv, NEW c \in Chan, StreamOK(c), CloseOK(c), end' = end,
         \/ PeerSend(c) \/ PeerRecvAdjust(c) \/ RequestSent(c) \/ PumpRearm(c)
         \/ LocalClose(c) \/ OutboundCapClose(c) \/ AppRead(c) \/ AppDrop(c)
  PROVE  CloseOK(c)'
  <1>1. /\ taken[c] \in Nat /\ delivered[c] \in Nat /\ sent[c] \in Nat /\ read[c] \in Nat
        /\ wire[c] \in Seq(Item) /\ buf[c] \in Seq(Item) /\ inbound[c] \in InboundQueue
    BY DEF TypeOK, PeerTypeOK, QueueTypeOK, AppTypeOK
  <1>2. PeerSame(c) => /\ WireStart(c)' = WireStart(c) /\ sent'[c] = sent[c] /\ done'[c] = done[c]
                       /\ WireClose(c)'
    BY DEF PeerSame, WireStart, CloseOK, WireClose
  <1>3. ASSUME PeerSame(c), open'[c] => open[c], chan'[c] = chan[c],
               peerClose'[c] = peerClose[c], inbound'[c].queue = inbound[c].queue,
               taken'[c] = taken[c], delivered'[c] = delivered[c],
               reader'[c] => reader[c], read'[c] <= sent[c]
        PROVE  CloseOK(c)'
    <2>1. Bounds(c)' BY <1>2, <1>3 DEF CloseOK, Bounds
    <2>2. PeerClosed(c)' BY <1>2, <1>3 DEF CloseOK, PeerClosed
    <2>3. QueueClose(c)' BY <1>2, <1>3 DEF CloseOK, QueueClose
    <2>. QED BY <1>2, <1>3, <2>1, <2>2, <2>3 DEF CloseOK
  <1>4. read[c] <= sent[c] BY DEF CloseOK, Bounds
  <1>5. CASE PeerSend(c)
    <2>1. PICK kind \in {"data", "eof", "close", "request", "adjust"}, n \in Nat :
            /\ Puts(c, kind, n) /\ (kind # "data" => n = 0)
            /\ IF kind = "close" THEN done'[c] = "close"
                                 ELSE done[c] # "close" /\ done'[c] # "close"
      BY <1>5, PutEffects
    <2>2. WireStart(c)' = WireStart(c) BY <2>1, WirePut DEF StreamOK
    <2>3. /\ sent'[c] = sent[c] + n /\ open'[c] = open[c] /\ chan'[c] = chan[c]
          /\ peerClose'[c] = peerClose[c] /\ inbound'[c] = inbound[c] /\ taken'[c] = taken[c]
          /\ delivered'[c] = delivered[c] /\ reader'[c] = reader[c] /\ read'[c] = read[c]
      BY <2>1 DEF Puts, EntrySame, QueueSame, AppSame
    <2>4. done[c] = "close" => done'[c] = "close" /\ sent'[c] = sent[c] BY <1>1, <2>1, <2>3
    <2>5. Bounds(c)' BY <1>1, <2>1, <2>3 DEF CloseOK, Bounds
    <2>6. PeerClosed(c)' BY <2>2, <2>3, <2>4 DEF CloseOK, PeerClosed
    <2>7. QueueClose(c)' BY <2>2, <2>3, <2>4 DEF CloseOK, QueueClose
    <2>8. WireClose(c)'
      <3>. DEFINE x == Packet(c, kind, n)
      <3>1. x \in Item /\ x.kind = kind /\ x.to = sent[c] + n BY <1>1 DEF Packet, Item
      <3>2. wire'[c] = Append(wire[c], x) BY <2>1 DEF Puts
      <3>. HIDE DEF x
      <3>3. /\ Len(wire'[c]) = Len(wire[c]) + 1 /\ Len(wire[c]) \in Nat
            /\ wire'[c][Len(wire[c]) + 1] = x
            /\ \A i \in 1 .. Len(wire[c]) : wire'[c][i] = wire[c][i]
        BY <1>1, <3>1, <3>2, AppendProperties
      <3>. SUFFICES ASSUME NEW i \in 1 .. Len(wire'[c]), wire'[c][i].kind = "close"
                    PROVE  done'[c] = "close" /\ wire'[c][i].to = sent'[c]
        BY DEF WireClose
      <3>4. CASE i \in 1 .. Len(wire[c])
        <4>1. wire'[c][i] = wire[c][i] BY <3>3, <3>4
        <4>2. done[c] = "close" /\ wire[c][i].to = sent[c] BY <3>4, <4>1 DEF CloseOK, WireClose
        <4>. QED BY <2>4, <4>1, <4>2
      <3>5. CASE i = Len(wire[c]) + 1 BY <2>1, <2>3, <3>1, <3>3, <3>5
      <3>. QED BY <3>3, <3>4, <3>5
    <2>. QED BY <2>5, <2>6, <2>7, <2>8 DEF CloseOK
  <1>6. CASE PeerRecvAdjust(c)
    <2>1. /\ EntrySame(c) /\ QueueSame(c) /\ AppSame(c)
          /\ sent'[c] = sent[c] /\ done'[c] = done[c] /\ wire'[c] = wire[c]
      BY <1>6, AdjustEffects
    <2>2. WireStart(c)' = WireStart(c) BY <2>1 DEF WireStart
    <2>3. Bounds(c)' /\ WireClose(c)'
      BY <2>1 DEF CloseOK, Bounds, WireClose, QueueSame, AppSame
    <2>4. PeerClosed(c)' BY <2>1, <2>2 DEF CloseOK, PeerClosed, EntrySame, QueueSame, AppSame
    <2>5. QueueClose(c)' BY <2>1, <2>2 DEF CloseOK, QueueClose, EntrySame, QueueSame
    <2>. QED BY <2>3, <2>4, <2>5 DEF CloseOK
  <1>7. CASE RequestSent(c)
    <2>1. PeerSame(c) /\ Tells(c, "request") /\ open'[c] = open[c] BY <1>7, OtherEffects
    <2>. QED BY <1>3, <1>4, <2>1 DEF Tells, QueueSame
  <1>8. CASE PumpRearm(c)
    <2>1. /\ PeerSame(c) /\ EntrySame(c) /\ AppSame(c) /\ taken'[c] = taken[c]
          /\ \/ inbound'[c] = [inbound[c] EXCEPT !.reserving = TRUE]
             \/ inbound[c].queue = <<>> /\ inbound'[c] = EmptyQueue
      BY <1>8, RearmEffects
    <2>2. inbound'[c].queue = inbound[c].queue BY <1>1, <2>1 DEF EmptyQueue, InboundQueue
    <2>. QED BY <1>3, <1>4, <2>1, <2>2 DEF EntrySame, AppSame
  <1>9. CASE LocalClose(c) \/ OutboundCapClose(c)
    <2>1. /\ PeerSame(c) /\ AppSame(c) /\ taken'[c] = taken[c] /\ peerClose'[c] = peerClose[c]
          /\ \/ (open'[c] => open[c]) /\ chan'[c] = chan[c] /\ inbound'[c] = inbound[c]
             \/ Removed(c) /\ (open[c] \/ ~reader[c])
      BY <1>9, CloseLocallyEffects
    <2>2. CASE Removed(c) /\ (open[c] \/ ~reader[c])
      <3>1. ~open'[c] /\ ~chan'[c] BY <2>2 DEF Removed
      <3>2. \A i \in 1 .. Len(inbound'[c].queue) : FALSE BY <2>2 DEF Removed, EmptyQueue
      <3>3. Bounds(c)' BY <1>2, <2>1 DEF CloseOK, Bounds, AppSame
      <3>4. PeerClosed(c)' BY <1>2, <2>1, <2>2, <3>1 DEF CloseOK, PeerClosed, AppSame
      <3>. QED BY <1>2, <2>1, <3>2, <3>3, <3>4 DEF CloseOK, QueueClose
    <2>. QED BY <1>3, <1>4, <2>1, <2>2 DEF AppSame
  <1>10. CASE AppRead(c) \/ AppDrop(c)
    <2>1. /\ PeerSame(c) /\ EntrySame(c) /\ QueueSame(c)
          /\ delivered'[c] = delivered[c] /\ reader[c]
          /\ \/ buf[c] # <<>> /\ read'[c] = Head(buf[c]).to
             \/ read'[c] = read[c]
      BY <1>10, AppEffects
    <2>2. read'[c] <= sent[c]
      <3>1. Chain(buf[c], read[c], delivered[c]) BY <2>1 DEF StreamOK
      <3>2. buf[c] # <<>> => Head(buf[c]).to <= delivered[c] /\ Head(buf[c]).to \in Nat
        BY <1>1, <3>1, ChainTail
      <3>3. delivered[c] <= sent[c] BY DEF CloseOK, Bounds
      <3>. QED BY <1>1, <1>4, <2>1, <3>2, <3>3
    <2>. QED BY <1>3, <2>1, <2>2 DEF EntrySame, QueueSame
  <1>. QED BY <1>5, <1>6, <1>7, <1>8, <1>9, <1>10

LEMMA CloseNext ==
  TypeOK /\ ReserveInv /\ StreamInv /\ BacklogInv /\ CloseInv /\ [Next]_vars => CloseInv'
  <1>. SUFFICES ASSUME TypeOK, ReserveInv, StreamInv, BacklogInv, CloseInv, [Next]_vars,
                       NEW d \in Chan
                PROVE  CloseOK(d)'
    BY DEF CloseInv
  <1>1. StreamOK(d) /\ BacklogOK(d) /\ CloseOK(d) /\ end' = end
    BY EndStays DEF StreamInv, BacklogInv, CloseInv
  <1>2. CASE Same(d) BY <1>1, <1>2, CloseSame
  <1>3. CASE \/ PeerSend(d) \/ PeerRecvAdjust(d) \/ Recv(d) \/ RequestSent(d)
             \/ Pump(d) \/ PumpRearm(d) \/ LocalClose(d) \/ OutboundCapClose(d)
             \/ AppRead(d) \/ AppDrop(d)
    BY <1>1, <1>3, CloseRecv, ClosePump, CloseLocal
  <1>. QED BY <1>2, <1>3, OneChannel DEF OthersSame

LEMMA CloseInit == Init => CloseInv
  <1>. SUFFICES ASSUME Init, NEW c \in Chan PROVE CloseOK(c) BY DEF CloseInv
  <1>1. /\ wire[c] = <<>> /\ sent[c] = 0 /\ taken[c] = 0 /\ delivered[c] = 0 /\ read[c] = 0
        /\ inbound[c].queue = <<>> /\ ~peerClose[c]
    BY DEF Init, EmptyQueue
  <1>2. Bounds(c) BY <1>1 DEF Bounds
  <1>3. \A i \in 1 .. Len(wire[c]) : FALSE BY <1>1
  <1>4. \A i \in 1 .. Len(inbound[c].queue) : FALSE BY <1>1
  <1>. QED BY <1>1, <1>2, <1>3, <1>4 DEF CloseOK, WireClose, PeerClosed, QueueClose

\* The abstract state: the bytes inside, and whether the channel is broken.
Inside == [c \in Chan |-> IF reader[c]
                          THEN BytesIn(buf[c] \o inbound[c].queue)
                               \cup (IF Intact(c) THEN BytesIn(wire[c]) ELSE {})
                          ELSE {}]
Broken == [c \in Chan |-> ~Intact(c)]

\* Where what is inside ends: an intact channel holds all that was sent, one that
\* this side has closed what the session took, a removed one its buffer.
Edge(c) == IF ~reader[c] THEN read[c]
           ELSE IF Intact(c) THEN sent[c]
           ELSE IF chan[c] THEN taken[c] ELSE delivered[c]

InView(c) ==
  /\ Inside[c] = read[c] .. Edge(c) - 1
  /\ read[c] \in Nat /\ Edge(c) \in Nat /\ sent[c] \in Nat
  /\ read[c] <= Edge(c) /\ Edge(c) <= sent[c]
  /\ Intact(c) => Edge(c) = sent[c]

PipeView == \A c \in Chan : InView(c)

PipeInv == TypeOK /\ ReserveInv /\ StreamInv /\ BacklogInv /\ CloseInv

\* The bytes of two rows, one behind the other.
LEMMA ConcatBytes ==
  ASSUME NEW s \in Seq(Item), NEW t \in Seq(Item)
  PROVE  BytesIn(s \o t) = BytesIn(s) \cup BytesIn(t)
  <1>. DEFINE u == s \o t
              n == Len(s)
              m == Len(t)
  <1>1. /\ Len(u) = n + m /\ n \in Nat /\ m \in Nat
        /\ \A i \in 1 .. n + m : u[i] = IF i <= n THEN s[i] ELSE t[i - n]
    BY ConcatProperties
  <1>. HIDE DEF u
  <1>2. ASSUME NEW b \in BytesIn(u) PROVE b \in BytesIn(s) \cup BytesIn(t)
    <2>1. PICK i \in 1 .. Len(u) : b \in u[i].from .. u[i].to - 1 BY DEF BytesIn
    <2>2. CASE i <= n
      <3>1. i \in 1 .. n /\ u[i] = s[i] BY <1>1, <2>2
      <3>. QED BY <2>1, <3>1 DEF BytesIn
    <2>3. CASE ~(i <= n)
      <3>1. i - n \in 1 .. m /\ u[i] = t[i - n] BY <1>1, <2>3
      <3>. QED BY <2>1, <3>1 DEF BytesIn
    <2>. QED BY <2>2, <2>3
  <1>3. ASSUME NEW b \in BytesIn(s) PROVE b \in BytesIn(u)
    <2>1. PICK i \in 1 .. n : b \in s[i].from .. s[i].to - 1 BY DEF BytesIn
    <2>2. i \in 1 .. Len(u) /\ u[i] = s[i] BY <1>1
    <2>. QED BY <2>1, <2>2 DEF BytesIn
  <1>4. ASSUME NEW b \in BytesIn(t) PROVE b \in BytesIn(u)
    <2>1. PICK i \in 1 .. m : b \in t[i].from .. t[i].to - 1 BY DEF BytesIn
    <2>2. n + i \in 1 .. Len(u) /\ n + i \in 1 .. n + m /\ ~(n + i <= n) /\ (n + i) - n = i
      BY <1>1
    <2>3. u[n + i] = t[i] BY <1>1, <2>2
    <2>. QED BY <2>1, <2>2, <2>3 DEF BytesIn
  <1>5. BytesIn(u) = BytesIn(s) \cup BytesIn(t) BY <1>2, <1>3, <1>4
  <1>. QED BY <1>5 DEF u

\* What is inside is what was sent, from what was read up to the edge.
LEMMA ViewOf ==
  ASSUME TypeOK, NEW c \in Chan, StreamOK(c), BacklogOK(c), CloseOK(c)
  PROVE  InView(c)
  <1>1. /\ sent[c] \in Nat /\ taken[c] \in Nat /\ delivered[c] \in Nat /\ read[c] \in Nat
        /\ buf[c] \in Seq(Item) /\ inbound[c].queue \in Seq(Item) /\ wire[c] \in Seq(Item)
        /\ taken[c] <= sent[c] /\ delivered[c] <= sent[c] /\ read[c] <= sent[c]
    BY DEF TypeOK, PeerTypeOK, QueueTypeOK, AppTypeOK, InboundQueue, CloseOK, Bounds
  <1>2. Inside[c] = IF reader[c]
                    THEN (BytesIn(buf[c]) \cup BytesIn(inbound[c].queue))
                         \cup (IF Intact(c) THEN BytesIn(wire[c]) ELSE {})
                    ELSE {}
    BY <1>1, ConcatBytes DEF Inside
  <1>3. CASE ~reader[c]
    <2>1. Inside[c] = {} /\ Edge(c) = read[c] /\ ~Intact(c) BY <1>2, <1>3 DEF Edge, Intact
    <2>2. read[c] .. read[c] - 1 = {} BY <1>1
    <2>. QED BY <1>1, <2>1, <2>2 DEF InView
  <1>4. CASE reader[c]
    <2>. DEFINE mid == IF chan[c] THEN taken[c] ELSE delivered[c]
    <2>1. BytesIn(buf[c]) = read[c] .. delivered[c] - 1 /\ read[c] <= delivered[c]
      BY <1>4 DEF StreamOK, Chain
    <2>2. BytesIn(inbound[c].queue) = delivered[c] .. mid - 1 /\ delivered[c] <= mid
      <3>1. CASE chan[c] BY <3>1 DEF StreamOK, Chain
      <3>2. CASE ~chan[c]
        <4>1. inbound[c].queue = <<>> BY <3>2 DEF BacklogOK
        <4>2. Chain(<<>>, delivered[c], delivered[c]) BY <1>1, ChainEmpty
        <4>. QED BY <1>1, <3>2, <4>1, <4>2 DEF Chain
      <3>. QED BY <3>1, <3>2
    <2>3. mid \in Nat /\ mid <= sent[c] BY <1>1
    <2>4. BytesIn(wire[c]) = WireStart(c) .. sent[c] - 1 /\ WireStart(c) \in Nat
          /\ WireStart(c) <= sent[c]
      BY DEF StreamOK, WireOK, Chain
    <2>5. Intact(c) => mid = WireStart(c)
      <3>. SUFFICES ASSUME Intact(c) PROVE mid = WireStart(c) OBVIOUS
      <3>1. CASE peerClose[c] BY <1>4, <3>1 DEF CloseOK, PeerClosed
      <3>2. CASE ~peerClose[c]
        <4>1. chan[c] /\ Attached(c) BY <3>2 DEF Intact, Attached, StreamOK
        <4>. QED BY <4>1 DEF StreamOK
      <3>. QED BY <3>1, <3>2
    <2>6. Edge(c) = IF Intact(c) THEN sent[c] ELSE mid BY <1>4 DEF Edge
    <2>. HIDE DEF mid
    <2>7. (read[c] .. delivered[c] - 1) \cup (delivered[c] .. mid - 1) = read[c] .. mid - 1
      BY <1>1, <2>1, <2>2, <2>3
    <2>8. (read[c] .. mid - 1) \cup (mid .. sent[c] - 1) = read[c] .. sent[c] - 1
      BY <1>1, <2>1, <2>2, <2>3
    <2>9. read[c] <= mid BY <1>1, <2>1, <2>2, <2>3
    <2>10. CASE Intact(c)
      <3>1. Inside[c] = read[c] .. sent[c] - 1 BY <1>2, <1>4, <2>1, <2>2, <2>4, <2>5, <2>7, <2>8, <2>10
      <3>. QED BY <1>1, <2>6, <2>10, <3>1 DEF InView
    <2>11. CASE ~Intact(c)
      <3>1. Inside[c] = read[c] .. mid - 1 BY <1>2, <1>4, <2>1, <2>2, <2>7, <2>11
      <3>. QED BY <1>1, <2>3, <2>6, <2>9, <2>11, <3>1 DEF InView
    <2>. QED BY <2>10, <2>11
  <1>. QED BY <1>3, <1>4 DEF TypeOK, AppTypeOK

LEMMA ViewAlways == PipeInv => PipeView
  BY ViewOf DEF PipeInv, StreamInv, BacklogInv, CloseInv, PipeView

LEMMA ViewNext == ASSUME PipeInv' PROVE PipeView'
  BY ViewAlways, PTL

\* What a step of the session is to the pipe of a channel.
Still(c) == /\ sent'[c] = sent[c] /\ read'[c] = read[c] /\ Edge(c)' = Edge(c)
            /\ Intact(c)' <=> Intact(c)
Putting(c) == Intact(c) /\ Intact(c)' /\ sent'[c] > sent[c] /\ read'[c] = read[c]
Getting(c) == /\ sent'[c] = sent[c] /\ read'[c] > read[c] /\ read'[c] <= Edge(c)
              /\ Edge(c)' = Edge(c)
              /\ Intact(c)' <=> Intact(c)
Breaking(c) == /\ ~Intact(c)' /\ sent'[c] >= sent[c] /\ read'[c] = read[c]
               /\ Edge(c)' <= Edge(c)

\* One channel is changed.
LEMMA OneChanged ==
  ASSUME NEW S, NEW f, NEW g, f = [d \in S |-> f[d]], g = [d \in S |-> g[d]],
         NEW c \in S, \A d \in S : d # c => g[d] = f[d]
  PROVE  g = [f EXCEPT ![c] = g[c]]
  OBVIOUS

LEMMA PipeType ==
  /\ Inside = [d \in Chan |-> Inside[d]] /\ Broken = [d \in Chan |-> Broken[d]]
  /\ Inside' = [d \in Chan |-> Inside'[d]] /\ Broken' = [d \in Chan |-> Broken'[d]]
  /\ \A d \in Chan : Broken[d] = ~Intact(d) /\ Broken'[d] = ~Intact(d)'
  BY DEF Inside, Broken

\* A step of one channel is a step of its pipe, or does not show.
LEMMA PipeStep ==
  ASSUME TypeOK, TypeOK', PipeView, PipeView', NEW c \in Chan,
         \A d \in Chan : d # c => Still(d),
         Still(c) \/ Putting(c) \/ Getting(c) \/ Breaking(c)
  PROVE  [Pipe!Next]_(Pipe!pipeVars)
  <1>1. ASSUME NEW d \in Chan, Still(d)
        PROVE  /\ sent'[d] = sent[d] /\ read'[d] = read[d]
               /\ Inside'[d] = Inside[d] /\ Broken'[d] = Broken[d]
    <2>1. Inside[d] = read[d] .. Edge(d) - 1 /\ Inside'[d] = read'[d] .. Edge(d)' - 1
      BY DEF PipeView, InView
    <2>2. Broken[d] = ~Intact(d) /\ Broken'[d] = ~Intact(d)' BY PipeType
    <2>. QED BY <1>1, <2>1, <2>2 DEF Still
  <1>2. /\ sent = [d \in Chan |-> sent[d]] /\ sent' = [d \in Chan |-> sent'[d]]
        /\ read = [d \in Chan |-> read[d]] /\ read' = [d \in Chan |-> read'[d]]
    BY DEF TypeOK, PeerTypeOK, AppTypeOK
  <1>3. sent' = [sent EXCEPT ![c] = sent'[c]] BY <1>1, <1>2, OneChanged
  <1>4. read' = [read EXCEPT ![c] = read'[c]] BY <1>1, <1>2, OneChanged
  <1>5. Inside' = [Inside EXCEPT ![c] = Inside'[c]] BY <1>1, PipeType, OneChanged
  <1>6. Broken' = [Broken EXCEPT ![c] = Broken'[c]] BY <1>1, PipeType, OneChanged
  <1>7. /\ Inside[c] = read[c] .. Edge(c) - 1 /\ Inside'[c] = read'[c] .. Edge(c)' - 1
        /\ read[c] \in Nat /\ read'[c] \in Nat /\ Edge(c) \in Nat /\ Edge(c)' \in Nat
        /\ sent[c] \in Nat /\ sent'[c] \in Nat
        /\ read[c] <= Edge(c) /\ Edge(c) <= sent[c]
        /\ read'[c] <= Edge(c)' /\ Edge(c)' <= sent'[c]
        /\ Intact(c) => Edge(c) = sent[c]
        /\ Intact(c)' => Edge(c)' = sent'[c]
    BY DEF PipeView, InView
  <1>8. Broken[c] = ~Intact(c) /\ Broken'[c] = ~Intact(c)' BY PipeType
  <1>9. CASE Still(c)
    <2>1. sent' = sent BY <1>1, <1>2, <1>3, <1>9
    <2>2. read' = read BY <1>1, <1>2, <1>4, <1>9
    <2>3. Inside' = Inside BY <1>1, <1>5, <1>9, PipeType
    <2>4. Broken' = Broken BY <1>1, <1>6, <1>9, PipeType
    <2>. QED BY <2>1, <2>2, <2>3, <2>4 DEF Pipe!pipeVars, Inside, Broken
  <1>. DEFINE edge == Edge(c)
              edgeP == Edge(c)'
  <1>10. CASE Putting(c)
    <2>1. /\ sent'[c] > sent[c] /\ read'[c] = read[c] /\ ~Broken[c] /\ Broken'[c] = Broken[c]
          /\ Edge(c) = sent[c] /\ Edge(c)' = sent'[c]
      BY <1>7, <1>8, <1>10 DEF Putting
    <2>2. Inside'[c] = Inside[c] \cup (sent[c] .. sent'[c] - 1) BY <1>7, <2>1
    <2>3. read' = read BY <1>2, <1>4, <2>1
    <2>4. Broken' = Broken BY <1>6, <2>1, PipeType
    <2>5. Inside' = [Inside EXCEPT ![c] = Inside[c] \cup (sent[c] .. sent'[c] - 1)]
      BY <1>5, <2>2
    <2>6. Pipe!Put(c)
      BY <1>3, <2>1, <2>3, <2>4, <2>5 DEF Pipe!Put, Pipe!Only, Pipe!Span, Inside, Broken
    <2>. QED BY <2>6 DEF Pipe!Next
  <1>11. CASE Getting(c)
    <2>1. /\ sent'[c] = sent[c] /\ read'[c] > read[c] /\ read'[c] <= Edge(c) /\ Edge(c)' = Edge(c)
          /\ Broken'[c] = Broken[c]
      BY <1>8, <1>11 DEF Getting
    <2>2. /\ Inside[c] = read[c] .. edge - 1 /\ Inside'[c] = read'[c] .. edge - 1
          /\ edge \in Nat /\ read'[c] <= edge
      BY <1>7, <2>1
    <2>. HIDE DEF edge
    <2>3. /\ Inside'[c] = Inside[c] \ (read[c] .. read'[c] - 1)
          /\ (read[c] .. read'[c] - 1) \subseteq Inside[c]
      BY <1>7, <2>1, <2>2
    <2>4. sent' = sent BY <1>2, <1>3, <2>1
    <2>5. Broken' = Broken BY <1>6, <2>1, PipeType
    <2>6. Inside' = [Inside EXCEPT ![c] = Inside[c] \ (read[c] .. read'[c] - 1)]
      BY <1>5, <2>3
    <2>7. Pipe!Get(c)
      BY <1>4, <2>1, <2>3, <2>4, <2>5, <2>6 DEF Pipe!Get, Pipe!Only, Pipe!Span, Inside, Broken
    <2>. QED BY <2>7 DEF Pipe!Next
  <1>12. CASE Breaking(c)
    <2>1. /\ sent'[c] >= sent[c] /\ read'[c] = read[c] /\ Edge(c)' <= Edge(c) /\ Broken'[c] = TRUE
      BY <1>8, <1>12 DEF Breaking
    <2>2. /\ Inside[c] = read[c] .. edge - 1 /\ Inside'[c] = read[c] .. edgeP - 1
          /\ edge \in Nat /\ edgeP \in Nat /\ edgeP <= edge /\ edge <= sent[c]
          /\ read[c] <= edgeP /\ edgeP <= sent'[c]
      BY <1>7, <2>1
    <2>. HIDE DEF edge, edgeP
    <2>3. Inside'[c] = {x \in Inside[c] \cup (sent[c] .. sent'[c] - 1) : x < edgeP}
      BY <1>7, <2>1, <2>2
    <2>4. edgeP \in read[c] .. sent'[c] BY <1>7, <2>2
    <2>5. read' = read BY <1>2, <1>4, <2>1
    <2>6. Broken' = [Broken EXCEPT ![c] = TRUE] BY <1>6, <2>1
    <2>7. Inside' = [Inside EXCEPT ![c] =
                       {x \in Inside[c] \cup (sent[c] .. sent'[c] - 1) : x < edgeP}]
      BY <1>5, <2>3
    <2>8. Pipe!Break(c)
      BY <1>3, <2>1, <2>4, <2>5, <2>6, <2>7 DEF Pipe!Break, Pipe!Only, Pipe!Span, Inside, Broken
    <2>. QED BY <2>8 DEF Pipe!Next
  <1>. QED BY <1>9, <1>10, <1>11, <1>12

\* A channel that nothing happened to stands still.
LEMMA PipeSame ==
  ASSUME NEW d \in Chan, Same(d), end' = end
  PROVE  Still(d)
  <1>1. Intact(d)' <=> Intact(d) BY DEF Intact, Same, EntrySame, AppSame
  <1>. QED BY <1>1 DEF Still, Edge, Same, PeerSame, EntrySame, QueueSame, AppSame

\* A step without new or read bytes stands still or breaks the channel, unless it
\* repairs one or moves the edge of a broken one outwards.
LEMMA Loses ==
  ASSUME NEW c \in Chan, InView(c), InView(c)', sent'[c] = sent[c], read'[c] = read[c],
         Intact(c)' => Intact(c),
         ~Intact(c) => Edge(c)' <= Edge(c)
  PROVE  Still(c) \/ Breaking(c)
  <1>1. /\ Edge(c) \in Nat /\ Edge(c)' \in Nat /\ sent[c] \in Nat
        /\ Edge(c)' <= sent'[c]
        /\ Intact(c) => Edge(c) = sent[c]
        /\ Intact(c)' => Edge(c)' = sent'[c]
    BY DEF InView
  <1>2. CASE Intact(c)' BY <1>1, <1>2 DEF Still
  <1>3. CASE ~Intact(c)' BY <1>1, <1>3 DEF Breaking
  <1>. QED BY <1>2, <1>3

\* For a reader that is held, on a channel that is broken.
LEMMA EdgeInside ==
  ASSUME NEW c \in Chan, InView(c), InView(c)', read'[c] = read[c], ~Intact(c), ~Intact(c)',
         reader'[c] => reader[c],
         reader[c] => (IF chan'[c] THEN taken'[c] ELSE delivered'[c])
                      <= (IF chan[c] THEN taken[c] ELSE delivered[c])
  PROVE  Edge(c)' <= Edge(c)
  <1>1. read[c] <= Edge(c) BY DEF InView
  <1>2. CASE ~reader'[c]
    <2>1. Edge(c)' = read'[c] BY <1>2 DEF Edge
    <2>. QED BY <1>1, <2>1
  <1>3. CASE reader'[c]
    <2>1. /\ Edge(c)' = IF chan'[c] THEN taken'[c] ELSE delivered'[c]
          /\ Edge(c) = IF chan[c] THEN taken[c] ELSE delivered[c]
      BY <1>3 DEF Edge
    <2>. QED BY <1>3, <2>1
  <1>. QED BY <1>2, <1>3

\* A packet that arrives moves inside the pipe, or the channel breaks.
LEMMA PipeRecv ==
  ASSUME TypeOK, ReserveInv, NEW c \in Chan, StreamOK(c), BacklogOK(c), CloseOK(c),
         InView(c), InView(c)', end' = end, Recv(c)
  PROVE  Still(c) \/ Breaking(c)
  <1>. DEFINE head == Head(wire[c])
  <1>1. /\ taken[c] \in Nat /\ delivered[c] \in Nat
        /\ chan[c] => delivered[c] <= taken[c]
        /\ open[c] => chan[c]
    BY DEF TypeOK, QueueTypeOK, AppTypeOK, StreamOK, Chain
  <1>2. ASSUME NEW kind, Arrives(c, kind), Intact(c)' => Intact(c),
               ~Intact(c) /\ reader[c] => (IF chan'[c] THEN taken'[c] ELSE delivered'[c])
                                          <= (IF chan[c] THEN taken[c] ELSE delivered[c])
        PROVE  Still(c) \/ Breaking(c)
    <2>1. sent'[c] = sent[c] /\ read'[c] = read[c] /\ reader'[c] = reader[c]
      BY <1>2 DEF Arrives
    <2>2. ~Intact(c) => Edge(c)' <= Edge(c) BY <1>2, <2>1, EdgeInside
    <2>. QED BY <1>2, <2>1, <2>2, Loses
  <1>3. ASSUME NEW kind, Arrives(c, kind), EntrySame(c),
               ~Intact(c) /\ reader[c] /\ chan[c] => taken'[c] = taken[c],
               ~chan[c] => delivered'[c] = delivered[c]
        PROVE  Still(c) \/ Breaking(c)
    <2>1. Intact(c)' => Intact(c) BY <1>3 DEF Intact, EntrySame, Arrives
    <2>. QED BY <1>1, <1>2, <1>3, <2>1 DEF EntrySame
  <1>4. ASSUME NEW kind \in {"data", "eof", "request", "adjust"}, RecvIgnored(c, kind)
        PROVE  Still(c) \/ Breaking(c)
    <2>1. Arrives(c, kind) /\ Ignores(c) BY <1>4, OtherEffects
    <2>. QED BY <1>3, <2>1 DEF Ignores, QueueSame, AppSame
  <1>5. CASE RecvRequest(c)
    <2>1. Arrives(c, "request") /\ Ignores(c) BY <1>5, OtherEffects
    <2>. QED BY <1>3, <2>1 DEF Ignores, QueueSame, AppSame
  <1>6. CASE RecvWindowAdjust(c)
    <2>1. Arrives(c, "adjust") /\ Tells(c, "adjust") /\ (open'[c] => open[c])
      BY <1>6, OtherEffects
    <2>2. Intact(c)' => Intact(c) BY <2>1 DEF Intact, Tells
    <2>3. chan'[c] = chan[c] /\ taken'[c] = taken[c] /\ delivered'[c] = delivered[c]
      BY <2>1 DEF Tells, QueueSame
    <2>. QED BY <1>1, <1>2, <2>1, <2>2, <2>3
  <1>7. ASSUME NEW kind \in {"data", "eof"}, Accepts(c, kind), ~Intact(c), reader[c]
        PROVE  ~chan[c]
    BY <1>7 DEF Accepts, Intact
  <1>8. ASSUME NEW kind \in {"data", "eof"}, Arrives(c, kind), Accepts(c, kind), EntrySame(c),
               deliver_inbound(c, head), Delivery(c, head) # "Overflow" \/ head.from = head.to
        PROVE  Still(c) \/ Breaking(c)
    <2>1. /\ head \in Item /\ head.kind = kind
          /\ kind # "data" => head.from = head.to
      BY <1>8, WireTake DEF StreamOK
    <2>. HIDE DEF head
    <2>2. ~chan[c] => Nothing(c)
      BY <1>8, <2>1, DeliverEffects DEF Stored, Gone, Kept
    <2>. QED BY <1>3, <1>7, <1>8, <2>2 DEF Nothing
  <1>9. CASE RecvData(c)
    <2>. DEFINE win == consume_recv_window(c, byte_len(head))
    <2>1. /\ Arrives(c, "data") /\ Accepts(c, "data")
          /\ TakesData(c, head, win) \/ Overflows(c, head, win)
      BY <1>9, DataEffects
    <2>2. CASE TakesData(c, head, win) BY <1>8, <2>1, <2>2 DEF TakesData
    <2>3. CASE Overflows(c, head, win)
      <3>1. ~open'[c] /\ ~chan'[c] /\ peerClose'[c] = peerClose[c] /\ delivered'[c] = delivered[c]
        BY <2>3 DEF Overflows, Removed
      <3>2. Intact(c)' => Intact(c) BY <2>1, <3>1 DEF Intact, Arrives
      <3>. QED BY <1>1, <1>2, <1>7, <2>1, <3>1, <3>2
    <2>. QED BY <2>1, <2>2, <2>3
  <1>10. CASE RecvEof(c)
    <2>1. /\ Arrives(c, "eof") /\ Accepts(c, "eof") /\ deliver_inbound(c, head) /\ EntrySame(c)
      BY <1>10, EofEffects
    <2>2. head.from = head.to BY <2>1, WireTake DEF StreamOK
    <2>. QED BY <1>8, <2>1, <2>2
  <1>11. CASE RecvClose(c)
    <2>. DEFINE x == CloseItem(c)
    <2>1. /\ Arrives(c, "close") /\ peerClose'[c] = (peerClose[c] \/ open[c])
          /\ \/ /\ ~open[c] /\ ~chan[c] /\ ~open'[c] /\ ~chan'[c] /\ QueueSame(c) /\ AppSame(c)
             \/ /\ open[c] \/ chan[c]
                /\ deliver_inbound(c, x) /\ Delivery(c, x) = "Queued"
                /\ ~open'[c] /\ chan'[c] = chan[c]
             \/ /\ (open[c] \/ chan[c]) /\ Removed(c) /\ taken'[c] = taken[c]
                /\ delivered'[c] = delivered[c]
      BY <1>11, CloseEffects
    <2>2. ~open'[c] /\ (chan'[c] => chan[c]) BY <2>1 DEF Removed
    <2>3. Intact(c)' => Intact(c) BY <2>1, <2>2 DEF Intact, Arrives
    <2>4. /\ x \in Item /\ x.kind = "close" /\ x.from = taken[c] /\ x.to = taken[c]
      BY <1>1 DEF CloseItem, Item
    <2>. HIDE DEF x
    <2>5. CASE ~open[c] /\ ~chan[c] /\ ~open'[c] /\ ~chan'[c] /\ QueueSame(c) /\ AppSame(c)
      BY <1>1, <1>2, <2>1, <2>3, <2>5 DEF AppSame
    <2>6. CASE /\ open[c] \/ chan[c]
               /\ deliver_inbound(c, x) /\ Delivery(c, x) = "Queued"
               /\ ~open'[c] /\ chan'[c] = chan[c]
      <3>1. chan[c] BY <1>1, <2>6
      <3>2. taken'[c] = taken[c] BY <2>4, <2>6, DeliverEffects
      <3>. QED BY <1>1, <1>2, <2>1, <2>3, <2>6, <3>1, <3>2
    <2>7. CASE /\ (open[c] \/ chan[c]) /\ Removed(c) /\ taken'[c] = taken[c]
               /\ delivered'[c] = delivered[c]
      <3>1. chan[c] /\ ~chan'[c] BY <1>1, <2>7 DEF Removed
      <3>. QED BY <1>1, <1>2, <2>1, <2>3, <2>7, <3>1
    <2>. QED BY <2>1, <2>5, <2>6, <2>7
  <1>. QED BY <1>4, <1>5, <1>6, <1>9, <1>10, <1>11 DEF Recv

\* pump_inbound moves bytes inside the pipe, or finishes a close.
LEMMA PipePump ==
  ASSUME TypeOK, ReserveInv, NEW c \in Chan, StreamOK(c), BacklogOK(c), CloseOK(c),
         InView(c), InView(c)', end' = end, Pump(c)
  PROVE  Still(c) \/ Breaking(c)
  <1>. DEFINE item == Head(inbound[c].queue)
              q == inbound[c].queue
  <1>1. \/ /\ Pumps(c, item) /\ open'[c] = open[c] /\ chan'[c] = chan[c]
        \/ Pumps(c, item) /\ Removed(c)
        \/ /\ ~reader[c] /\ PeerSame(c) /\ reader'[c] = reader[c] /\ read'[c] = read[c]
        \/ Same(c)
    BY PumpEffects
  <1>2. /\ taken[c] \in Nat /\ delivered[c] \in Nat /\ q \in Seq(Item)
    BY DEF TypeOK, QueueTypeOK, AppTypeOK, InboundQueue
  <1>3. ASSUME ~reader[c], PeerSame(c), reader'[c] = reader[c], read'[c] = read[c]
        PROVE  Still(c) \/ Breaking(c)
    <2>1. ~Intact(c) /\ ~Intact(c)' BY <1>3 DEF Intact
    <2>2. Edge(c)' <= Edge(c) BY <1>3, <2>1, EdgeInside
    <2>. QED BY <1>3, <2>1, <2>2, Loses DEF PeerSame
  <1>. HIDE DEF item
  <1>4. ASSUME Pumps(c, item), open'[c] => open[c], chan'[c] => chan[c]
        PROVE  Still(c) \/ Breaking(c)
    <2>1. /\ PeerSame(c) /\ taken'[c] = taken[c] /\ peerClose'[c] = peerClose[c]
          /\ reader'[c] = reader[c] /\ read'[c] = read[c] /\ delivered'[c] = item.to
          /\ q # <<>> /\ item = Head(q)
      BY <1>4 DEF Pumps
    <2>2. chan[c] /\ Chain(q, delivered[c], taken[c])
      BY <2>1 DEF ReserveInv, OneReserve, StreamOK
    <2>3. item.to <= taken[c] /\ item.to \in Nat BY <1>2, <2>1, <2>2, ChainTail
    <2>4. Intact(c)' => Intact(c) BY <1>4, <2>1 DEF Intact
    <2>5. (IF chan'[c] THEN taken'[c] ELSE delivered'[c]) <= (IF chan[c] THEN taken[c] ELSE delivered[c])
      BY <1>2, <2>1, <2>2, <2>3
    <2>6. ~Intact(c) => Edge(c)' <= Edge(c) BY <2>1, <2>4, <2>5, EdgeInside
    <2>. QED BY <2>1, <2>4, <2>6, Loses DEF PeerSame
  <1>5. CASE Same(c) BY <1>5, PipeSame
  <1>. QED BY <1>1, <1>3, <1>4, <1>5 DEF Removed

\* The peer puts bytes in, the application takes the next ones out or goes, and
\* this side closes.
LEMMA PipeLocal ==
  ASSUME TypeOK, TypeOK', ReserveInv, NEW c \in Chan, StreamOK(c), BacklogOK(c), CloseOK(c),
         InView(c), InView(c)', end' = end,
         \/ PeerSend(c) \/ PeerRecvAdjust(c) \/ RequestSent(c) \/ PumpRearm(c)
         \/ LocalClose(c) \/ OutboundCapClose(c) \/ AppRead(c) \/ AppDrop(c)
  PROVE  Still(c) \/ Putting(c) \/ Getting(c) \/ Breaking(c)
  <1>1. /\ taken[c] \in Nat /\ delivered[c] \in Nat /\ sent[c] \in Nat /\ read[c] \in Nat
        /\ buf[c] \in Seq(Item) /\ inbound[c] \in InboundQueue
        /\ Edge(c) \in Nat /\ Edge(c)' \in Nat
    BY DEF TypeOK, PeerTypeOK, QueueTypeOK, AppTypeOK, InView
  <1>2. ASSUME EntrySame(c), reader'[c] = reader[c] PROVE Intact(c)' <=> Intact(c)
    BY <1>2 DEF Intact, EntrySame
  <1>3. ASSUME sent'[c] = sent[c], EntrySame(c), taken'[c] = taken[c],
               delivered'[c] = delivered[c], reader'[c] = reader[c], read'[c] = read[c]
        PROVE  Still(c)
    BY <1>2, <1>3 DEF Still, Edge, EntrySame
  <1>4. CASE PeerSend(c)
    <2>1. PICK kind \in {"data", "eof", "close", "request", "adjust"}, n \in Nat : Puts(c, kind, n)
      BY <1>4, PutEffects
    <2>2. /\ sent'[c] = sent[c] + n /\ EntrySame(c) /\ taken'[c] = taken[c]
          /\ delivered'[c] = delivered[c] /\ reader'[c] = reader[c] /\ read'[c] = read[c]
      BY <2>1 DEF Puts, QueueSame, AppSame
    <2>3. Intact(c)' <=> Intact(c) BY <1>2, <2>2
    <2>4. CASE n = 0
      <3>1. sent'[c] = sent[c] BY <1>1, <2>2, <2>4
      <3>. QED BY <1>3, <2>2, <3>1
    <2>5. CASE n > 0 /\ Intact(c)
      <3>1. sent'[c] > sent[c] BY <1>1, <2>2, <2>5
      <3>. QED BY <2>2, <2>3, <2>5, <3>1 DEF Putting
    <2>6. CASE n > 0 /\ ~Intact(c)
      <3>1. sent'[c] >= sent[c] BY <1>1, <2>2, <2>6
      <3>2. Edge(c)' = Edge(c) BY <2>2, <2>3, <2>6 DEF Edge, EntrySame
      <3>3. Edge(c)' <= Edge(c) BY <1>1, <3>2
      <3>. QED BY <2>2, <2>3, <2>6, <3>1, <3>3 DEF Breaking
    <2>. QED BY <2>1, <2>4, <2>5, <2>6
  <1>5. CASE PeerRecvAdjust(c)
    BY <1>3, <1>5, AdjustEffects DEF QueueSame, AppSame
  <1>6. CASE RequestSent(c)
    <2>1. PeerSame(c) /\ Tells(c, "request") /\ open'[c] = open[c] BY <1>6, OtherEffects
    <2>2. EntrySame(c) BY <2>1 DEF Tells, EntrySame
    <2>. QED BY <1>3, <2>1, <2>2 DEF Tells, PeerSame, QueueSame
  <1>7. CASE PumpRearm(c)
    BY <1>3, <1>7, RearmEffects DEF PeerSame, AppSame
  <1>8. CASE LocalClose(c) \/ OutboundCapClose(c)
    <2>1. /\ PeerSame(c) /\ AppSame(c) /\ taken'[c] = taken[c] /\ peerClose'[c] = peerClose[c]
          /\ \/ (open'[c] => open[c]) /\ chan'[c] = chan[c]
             \/ ~open'[c] /\ ~chan'[c] /\ (open[c] \/ ~reader[c])
      BY <1>8, CloseLocallyEffects DEF Removed
    <2>2. /\ sent'[c] = sent[c] /\ read'[c] = read[c] /\ reader'[c] = reader[c]
          /\ delivered'[c] = delivered[c]
      BY <2>1 DEF PeerSame, AppSame
    <2>3. Intact(c)' => Intact(c) BY <2>1, <2>2 DEF Intact
    <2>4. ASSUME ~Intact(c), reader[c] PROVE chan'[c] = chan[c]
      BY <2>1, <2>4 DEF Intact
    <2>5. ~Intact(c) => Edge(c)' <= Edge(c) BY <1>1, <2>1, <2>2, <2>3, <2>4, EdgeInside
    <2>. QED BY <2>2, <2>3, <2>5, Loses
  <1>9. CASE AppRead(c) \/ AppDrop(c)
    <2>1. /\ PeerSame(c) /\ EntrySame(c) /\ QueueSame(c)
          /\ delivered'[c] = delivered[c] /\ reader[c]
          /\ \/ reader'[c] /\ buf[c] # <<>> /\ read'[c] = Head(buf[c]).to
             \/ ~reader'[c] /\ read'[c] = read[c]
      BY <1>9, AppEffects
    <2>2. CASE reader'[c] /\ buf[c] # <<>> /\ read'[c] = Head(buf[c]).to
      <3>1. Chain(buf[c], read[c], delivered[c]) BY <2>1 DEF StreamOK
      <3>2. read[c] <= read'[c] /\ read'[c] \in Nat BY <1>1, <2>2, <3>1, ChainTail
      <3>3. reader'[c] = reader[c] BY <2>1, <2>2 DEF TypeOK, AppTypeOK
      <3>4. Intact(c)' <=> Intact(c) BY <1>2, <2>1, <3>3
      <3>5. Edge(c)' = Edge(c) BY <2>1, <2>2, <3>4 DEF Edge, PeerSame, EntrySame, QueueSame
      <3>6. read'[c] <= Edge(c) BY <3>5 DEF InView
      <3>7. sent'[c] = sent[c] BY <2>1 DEF PeerSame
      <3>. QED BY <1>1, <3>2, <3>4, <3>5, <3>6, <3>7 DEF Still, Getting
    <2>3. CASE ~reader'[c] /\ read'[c] = read[c]
      <3>1. ~Intact(c)' BY <2>3 DEF Intact
      <3>2. Edge(c)' = read[c] BY <2>3 DEF Edge
      <3>3. Edge(c)' <= Edge(c) BY <3>2 DEF InView
      <3>. QED BY <2>1, <2>3, <3>1, <3>3, Loses DEF PeerSame
    <2>. QED BY <2>1, <2>2, <2>3
  <1>. QED BY <1>4, <1>5, <1>6, <1>7, <1>8, <1>9

LEMMA PipeInvNext == PipeInv /\ [Next]_vars => PipeInv'
  BY NextTypes, ReserveNext, StreamNext, BacklogNext, CloseNext DEF PipeInv

LEMMA PipeNext ==
  ASSUME PipeInv, [Next]_vars
  PROVE  [Pipe!Next]_(Pipe!pipeVars)
  <1>1. PipeInv' /\ PipeView /\ PipeView' BY PipeInvNext, ViewAlways, ViewNext
  <1>2. TypeOK /\ TypeOK' /\ ReserveInv /\ end' = end BY <1>1, EndStays DEF PipeInv
  <1>3. \A d \in Chan : Same(d) => Still(d) BY <1>2, PipeSame
  <1>4. CASE \A d \in Chan : Same(d)
    <2>1. CASE Chan = {}
      <3>1. sent' = sent /\ read' = read BY <1>2, <2>1 DEF TypeOK, PeerTypeOK, AppTypeOK
      <3>2. Inside' = Inside /\ Broken' = Broken BY <2>1, PipeType
      <3>. QED BY <3>1, <3>2 DEF Pipe!pipeVars, Inside, Broken
    <2>2. ASSUME NEW c \in Chan PROVE [Pipe!Next]_(Pipe!pipeVars)
      BY <1>1, <1>2, <1>3, <1>4, PipeStep
    <2>. QED BY <2>1, <2>2
  <1>5. ASSUME NEW c \in Chan, OthersSame(c),
               \/ PeerSend(c) \/ PeerRecvAdjust(c) \/ Recv(c) \/ RequestSent(c)
               \/ Pump(c) \/ PumpRearm(c) \/ LocalClose(c) \/ OutboundCapClose(c)
               \/ AppRead(c) \/ AppDrop(c)
        PROVE  [Pipe!Next]_(Pipe!pipeVars)
    <2>1. StreamOK(c) /\ BacklogOK(c) /\ CloseOK(c) /\ InView(c) /\ InView(c)'
      BY <1>1 DEF PipeInv, StreamInv, BacklogInv, CloseInv, PipeView
    <2>2. Still(c) \/ Putting(c) \/ Getting(c) \/ Breaking(c)
      BY <1>2, <1>5, <2>1, PipeRecv, PipePump, PipeLocal
    <2>3. \A d \in Chan : d # c => Still(d) BY <1>3, <1>5 DEF OthersSame
    <2>. QED BY <1>1, <1>2, <2>2, <2>3, PipeStep
  <1>. QED BY <1>2, <1>4, <1>5, OneChannel

LEMMA PipeInvInit == Init => PipeInv
  BY InitTypes, ReserveInit, StreamInit, BacklogInit, CloseInit DEF PipeInv

LEMMA PipeInit == Init => Pipe!Init
  <1>. SUFFICES ASSUME Init PROVE Pipe!Init OBVIOUS
  <1>1. PipeView BY PipeInvInit, ViewAlways
  <1>2. ASSUME NEW c \in Chan
        PROVE  read[c] <= sent[c] /\ ~Broken[c] /\ Inside[c] = read[c] .. sent[c] - 1
    <2>1. Intact(c) BY DEF Init, Intact
    <2>2. ~Broken[c] BY <2>1, PipeType
    <2>3. Inside[c] = read[c] .. Edge(c) - 1 /\ Edge(c) = sent[c] /\ read[c] <= Edge(c)
      BY <1>1, <2>1 DEF PipeView, InView
    <2>. QED BY <2>2, <2>3
  <1>. QED BY <1>2 DEF Pipe!Init, Pipe!Span, Inside, Broken

\* The inbound side of every session, from the peer's packets to what the
\* application reads, is a byte pipe per channel: whatever the order of packets,
\* permits, reads, closes and drops, a held reader gets all that the peer sent
\* before its CLOSE, once and in order, and a channel that breaks loses a tail.
THEOREM ImplementsBytePipe == Spec => InPipe
  <1>1. PipeInv /\ [Next]_vars => [Pipe!Next]_(Pipe!pipeVars) BY PipeNext
  <1>. QED BY PipeInvInit, PipeInvNext, PipeInit, <1>1, PTL DEF Spec, InPipe, Pipe!Spec
=============================================================================
