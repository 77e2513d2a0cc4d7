-------------------------- MODULE InboundDelivery --------------------------
(***************************************************************************)
(* Inbound channel delivery of a russh session (Scheme C): CHANNEL_DATA,   *)
(* CHANNEL_EXTENDED_DATA, CHANNEL_EOF and CHANNEL_CLOSE are handed to the  *)
(* bounded application buffer of their channel without blocking the        *)
(* session loop; what does not fit waits in a per-channel queue behind one *)
(* reserve_owned() future, and the receive window is granted back only     *)
(* when data reaches the application buffer.                               *)
(*                                                                         *)
(* Payload is abstracted to byte ranges of the stream the peer sends on a  *)
(* channel: an item carries the offsets [from, to) of its bytes, so order, *)
(* loss and duplication are visible as broken adjacency.  Data and         *)
(* extended data take the same path and are one kind.                      *)
(*                                                                         *)
(* Server and client share this design (pending_inbound.rs) and differ in  *)
(* what they do with packets for a channel they have closed themselves and *)
(* in the target of a grant: the variable end tells them apart, and a peer *)
(* that obeys the window it was given from one that does not.              *)
(*                                                                         *)
(* Every channel starts established.  The wire from the peer is a FIFO per *)
(* channel; WINDOW_ADJUST packets to the peer are a sum in flight.         *)
(***************************************************************************)
EXTENDS Integers, Sequences, FiniteSets

CONSTANTS
  Ends,             \* the values of end that a run starts from
  Chan,             \* channel ids of the session
  WindowSize,       \* Config::window_size, the initial target
  Targets,          \* what Handler::adjust_window may answer
  PendingCap,       \* Config::max_pending_inbound_bytes
  BufferSize,       \* Config::channel_buffer_size
  MaxLen,           \* bound: payload of one packet
  MaxBytes,         \* bound: bytes the peer sends on one channel
  WireCap,          \* bound: packets in flight on one channel
  LocalCloses,      \* channels that this side may close first
  Readers           \* channels whose application keeps reading

ASSUME ConstantsAssumption ==
  /\ Ends \subseteq [side : {"server", "client"}, obeyed : BOOLEAN,
                    kinds : SUBSET {"empty", "eof", "close", "request", "adjust"}]
  /\ WindowSize \in Nat \ {0} /\ Targets \subseteq Nat \ {0}
  /\ PendingCap \in Nat /\ BufferSize \in Nat \ {0}
  /\ MaxLen \in Nat /\ MaxBytes \in Nat /\ WireCap \in Nat
  /\ LocalCloses \subseteq Chan
  /\ Readers \subseteq Chan

\* Window sizes are 32-bit: the targets have a largest element.
ASSUME TargetsBounded ==
  \E t \in Targets \cup {WindowSize} : \A u \in Targets \cup {WindowSize} : u <= t

VARIABLES
  end,       \* the side of the session, whether the peer obeys its window, and the
             \* kinds of packet, besides data, that the peer sends
  \* the peer and the wire
  credit,    \* bytes the peer believes it may still send
  sent,      \* bytes the peer has sent
  done,      \* has the peer sent EOF or CLOSE?
  wire,      \* packets on their way to the session
  adjusts,   \* window granted but not yet seen by the peer
  \* the session
  open,      \* is the channel in Encrypted::channels (confirmed)?
  parked,    \* ChannelParams::pending_close
  window,    \* ChannelParams::sender_window_size
  chan,      \* is the channel in Session::channels?
  target,    \* Session::target_window_size
  inbound,   \* Session::inbound; EmptyQueue stands for no entry
  needs,     \* occurrences of the channel in inbound_needs_reserve
  fresh,     \* reserve_owned() futures that were not polled yet
  waiting,   \* reserve_owned() futures queued for a permit
  held,      \* reserve_owned() futures in flight that own a permit
  taken,     \* bytes accepted off the wire
  loop,      \* what the session loop is doing
  kex,       \* Session::kex.active()
  \* the application
  buf,       \* the mpsc buffer of the channel
  reader,    \* is the receiving half alive?
  delivered, \* bytes that reached the buffer (or were given up with the reader)
  read,      \* bytes the application has read
  callbacks, \* calls of Handler::channel_close
  peerClose  \* was the peer's CLOSE taken while the channel was established?

peerVars == <<credit, sent, done, wire>>
encVars == <<open, parked, window, target, adjusts>>
queueVars == <<inbound, needs, fresh, waiting, held, taken>>
appVars == <<buf, reader, delivered, read>>
closeVars == <<chan, callbacks, peerClose>>
vars == <<end, peerVars, encVars, queueVars, appVars, closeVars, loop, kex>>
-----------------------------------------------------------------------------
Item == [kind : {"data", "eof", "close", "request", "adjust"}, from : Nat, to : Nat]
byte_len(item) == item.to - item.from

InboundQueue == [queue : Seq(Item), pending_bytes : Int, reserving : BOOLEAN,
                 eof_queued : BOOLEAN, close_queued : BOOLEAN]
EmptyQueue == [queue |-> <<>>, pending_bytes |-> 0, reserving |-> FALSE,
               eof_queued |-> FALSE, close_queued |-> FALSE]

Selecting == loop = <<"select">>
NothingToReserve == \A c \in Chan : needs[c] = 0

\* Free permits of the mpsc channel: a granted reserve holds one.
Free(c) == BufferSize - Len(buf[c]) - held[c]

PeerTypeOK ==
  /\ credit \in [Chan -> Int] /\ sent \in [Chan -> Nat]
  /\ done \in [Chan -> {"no", "eof", "close"}] /\ wire \in [Chan -> Seq(Item)]
EncTypeOK ==
  /\ open \in [Chan -> BOOLEAN] /\ parked \in [Chan -> BOOLEAN]
  /\ window \in [Chan -> Int] /\ adjusts \in [Chan -> Int]
  /\ target \in Targets \cup {WindowSize}
QueueTypeOK ==
  /\ inbound \in [Chan -> InboundQueue] /\ taken \in [Chan -> Nat]
  /\ needs \in [Chan -> Nat] /\ fresh \in [Chan -> Nat]
  /\ waiting \in [Chan -> Nat] /\ held \in [Chan -> Nat]
AppTypeOK ==
  /\ buf \in [Chan -> Seq(Item)] /\ reader \in [Chan -> BOOLEAN]
  /\ delivered \in [Chan -> Nat] /\ read \in [Chan -> Nat]
CloseTypeOK ==
  /\ chan \in [Chan -> BOOLEAN] /\ callbacks \in [Chan -> Nat]
  /\ peerClose \in [Chan -> BOOLEAN]
LoopTypeOK ==
  /\ loop \in {<<"select">>} \cup ({"callback", "send"} \X Chan)
  /\ kex \in BOOLEAN

\* Every variable has its type; in particular no permit, reserve or counter goes
\* below zero.
TypeOK == PeerTypeOK /\ EncTypeOK /\ QueueTypeOK /\ AppTypeOK /\ CloseTypeOK /\ LoopTypeOK

Init ==
  /\ end \in Ends
  /\ credit = [c \in Chan |-> WindowSize] /\ sent = [c \in Chan |-> 0]
  /\ done = [c \in Chan |-> "no"] /\ wire = [c \in Chan |-> <<>>]
  /\ adjusts = [c \in Chan |-> 0]
  /\ open = [c \in Chan |-> TRUE] /\ parked = [c \in Chan |-> FALSE]
  /\ window = [c \in Chan |-> WindowSize] /\ target = WindowSize
  /\ chan = [c \in Chan |-> TRUE] /\ inbound = [c \in Chan |-> EmptyQueue]
  /\ needs = [c \in Chan |-> 0] /\ fresh = [c \in Chan |-> 0]
  /\ waiting = [c \in Chan |-> 0] /\ held = [c \in Chan |-> 0] /\ taken = [c \in Chan |-> 0]
  /\ loop = <<"select">> /\ kex = FALSE
  /\ buf = [c \in Chan |-> <<>>] /\ reader = [c \in Chan |-> TRUE]
  /\ delivered = [c \in Chan |-> 0] /\ read = [c \in Chan |-> 0]
  /\ callbacks = [c \in Chan |-> 0] /\ peerClose = [c \in Chan |-> FALSE]
-----------------------------------------------------------------------------
(* The peer. *)

PeerKinds == end.kinds

PeerPut(c, kind, n) ==
  /\ Len(wire[c]) < WireCap
  /\ wire' = [wire EXCEPT ![c] = Append(@, [kind |-> kind, from |-> sent[c], to |-> sent[c] + n])]
  /\ sent' = [sent EXCEPT ![c] = @ + n]
  /\ UNCHANGED <<end, encVars, queueVars, appVars, closeVars, loop, kex>>

PeerSendData(c, n) ==
  /\ n = 0 => "empty" \in PeerKinds
  /\ end.obeyed => done[c] = "no" /\ n <= credit[c]
  /\ done[c] # "close" /\ sent[c] + n <= MaxBytes
  /\ PeerPut(c, "data", n)
  /\ credit' = [credit EXCEPT ![c] = @ - n]
  /\ UNCHANGED done

PeerSendEof(c) ==
  /\ "eof" \in PeerKinds /\ done[c] # "close"
  /\ end.obeyed => done[c] = "no"
  /\ PeerPut(c, "eof", 0)
  /\ done' = [done EXCEPT ![c] = "eof"]
  /\ UNCHANGED credit

PeerSendClose(c) ==
  /\ "close" \in PeerKinds \/ ~open[c]
  /\ end.obeyed => done[c] # "close"
  /\ PeerPut(c, "close", 0)
  /\ done' = [done EXCEPT ![c] = "close"]
  /\ UNCHANGED credit

\* CHANNEL_REQUEST (a signal, a window change, ...) and WINDOW_ADJUST.
PeerSendControl(c, kind) ==
  /\ kind \in PeerKinds \cap {"request", "adjust"} /\ done[c] # "close"
  /\ PeerPut(c, kind, 0)
  /\ UNCHANGED <<end, credit, done>>

PeerRecvAdjust(c) ==
  /\ adjusts[c] > 0
  /\ credit' = [credit EXCEPT ![c] = @ + adjusts[c]]
  /\ adjusts' = [adjusts EXCEPT ![c] = 0]
  /\ UNCHANGED <<end, sent, done, wire, open, parked, window, target, queueVars, appVars,
                 closeVars, loop, kex>>
-----------------------------------------------------------------------------
(* pending_inbound.rs: handing one item to a channel. *)

\* Mutant: the fast path is taken without looking at the backlog.
BackpressuredIgnored(c) == FALSE
Backpressured(c) == inbound[c].queue # <<>> \/ inbound[c].reserving

\* An Eof or Close behind one that is already queued.
Repeated(c, item) ==
  \/ item.kind = "eof" /\ inbound[c].eof_queued
  \/ item.kind = "close" /\ inbound[c].close_queued

\* Mutant: payload without bytes is queued like any other.
DeliveryOfEmptyPayload(c, item) ==
  IF Backpressured(c) /\ Repeated(c, item) THEN "Queued"
  ELSE IF ~Backpressured(c) /\ ~(chan[c] /\ reader[c]) THEN "ChannelGone"
  ELSE IF ~Backpressured(c) /\ Free(c) > 0 THEN "Delivered"
  ELSE IF inbound[c].pending_bytes + byte_len(item) > PendingCap THEN "Overflow"
  ELSE "Queued"

\* The InboundDelivery that deliver_inbound answers.  Payload without bytes is
\* dropped and reported as delivered.
Delivery(c, item) ==
  CASE item.kind = "data" /\ byte_len(item) = 0 -> "Delivered"
    [] OTHER ->
       IF Backpressured(c) /\ Repeated(c, item) THEN "Queued"
       ELSE IF ~Backpressured(c) /\ ~(chan[c] /\ reader[c]) THEN "ChannelGone"
       ELSE IF ~Backpressured(c) /\ Free(c) > 0 THEN "Delivered"
       ELSE IF inbound[c].pending_bytes + byte_len(item) > PendingCap THEN "Overflow"
       ELSE "Queued"

Enqueued(q, item) ==
  [queue         |-> Append(q.queue, item),
   pending_bytes |-> q.pending_bytes + byte_len(item),
   reserving     |-> TRUE,
   eof_queued    |-> q.eof_queued \/ item.kind = "eof",
   close_queued  |-> q.close_queued \/ item.kind = "close"]

\* The effect of deliver_inbound, for each of its answers.
deliver_inbound(c, item) ==
  LET answer == Delivery(c, item)
      kept   == answer = "Queued" /\ ~(Backpressured(c) /\ Repeated(c, item))
      stored == answer = "Delivered" /\ ~(item.kind = "data" /\ byte_len(item) = 0)
  IN  /\ inbound' = IF kept THEN [inbound EXCEPT ![c] = Enqueued(@, item)] ELSE inbound
      /\ needs' = IF kept /\ ~inbound[c].reserving THEN [needs EXCEPT ![c] = @ + 1] ELSE needs
      /\ buf' = IF stored THEN [buf EXCEPT ![c] = Append(@, item)] ELSE buf
      /\ delivered' = IF stored \/ (answer = "ChannelGone" /\ chan[c])
                      THEN [delivered EXCEPT ![c] = item.to] ELSE delivered
      /\ taken' = [taken EXCEPT ![c] = item.to]

\* Mutant: requests that are drained during a key exchange are lost.
drain_lost_in_kex ==
  LET arms(c) == needs[c] > 0 /\ inbound[c].reserving /\ inbound[c].queue # <<>>
  IN  /\ Selecting /\ ~NothingToReserve
      /\ fresh' = [c \in Chan |-> IF arms(c) /\ chan[c] /\ ~kex THEN fresh[c] + needs[c] ELSE fresh[c]]
      /\ inbound' = [c \in Chan |-> IF arms(c) /\ ~chan[c] THEN EmptyQueue ELSE inbound[c]]
      /\ needs' = [c \in Chan |-> 0]
      /\ UNCHANGED <<end, peerVars, encVars, waiting, held, taken, appVars, closeVars, loop, kex>>
\* Every channel in inbound_needs_reserve gets one reserve_owned() future per
\* mention, if it still has a backlog.
drain_needs_reserve ==
  LET arms(c) == needs[c] > 0 /\ inbound[c].reserving /\ inbound[c].queue # <<>>
  IN  /\ Selecting /\ ~NothingToReserve
      /\ fresh' = [c \in Chan |-> IF arms(c) /\ chan[c] THEN fresh[c] + needs[c] ELSE fresh[c]]
      /\ inbound' = [c \in Chan |-> IF arms(c) /\ ~chan[c] THEN EmptyQueue ELSE inbound[c]]
      /\ needs' = [c \in Chan |-> 0]
      /\ UNCHANGED <<end, peerVars, encVars, waiting, held, taken, appVars, closeVars, loop, kex>>

-----------------------------------------------------------------------------
(* Window accounting and teardown of one channel. *)

\* Bytes beyond the window are not subtracted from it.
consume_recv_window(c, len) ==
  IF open[c] /\ len <= window[c] THEN window[c] - len ELSE window[c]

\* The server tops up to what Handler::adjust_window last answered, the client
\* to Config::window_size.
GrantTarget == IF end.side = "server" THEN target ELSE WindowSize

\* Mutant: the grant tops up to the target, as if the backlog were delivered.
grant_ignoring_backlog(c, win, undelivered) ==
  \/ /\ open[c] /\ win < GrantTarget \div 2
     /\ window' = [window EXCEPT ![c] = GrantTarget]
     /\ adjusts' = [adjusts EXCEPT ![c] = @ + (GrantTarget - win)]
     /\ UNCHANGED target
  \/ /\ ~(open[c] /\ win < GrantTarget \div 2)
     /\ window' = [window EXCEPT ![c] = win]
     /\ UNCHANGED <<end, adjusts, target>>

\* Mutant: the data was consumed but no grant is ever considered.
grant_forgotten(c, win, undelivered) ==
  /\ window' = [window EXCEPT ![c] = win]
  /\ UNCHANGED <<end, adjusts, target>>

\* Encrypted::maybe_grant_recv_window and the call of Handler::adjust_window,
\* with the window as consume_recv_window left it.
maybe_grant_after_delivery(c, win, undelivered) ==
  LET ceiling == IF undelivered < GrantTarget THEN GrantTarget - undelivered ELSE 0
  IN  \/ /\ open[c] /\ win < ceiling \div 2
         /\ window' = [window EXCEPT ![c] = ceiling]
         /\ adjusts' = [adjusts EXCEPT ![c] = @ + (ceiling - win)]
         /\ target' \in Targets \cup {target}
      \/ /\ ~(open[c] /\ win < ceiling \div 2)
         /\ window' = [window EXCEPT ![c] = win]
         /\ UNCHANGED <<end, adjusts, target>>

\* discard_channel_outbound: CHANNEL_CLOSE goes out now and the entry goes.
discard_channel_outbound(c) ==
  /\ open' = [open EXCEPT ![c] = FALSE]
  /\ parked' = [parked EXCEPT ![c] = FALSE]

\* finalize_close removes what is left of the channel on both sides.
finalize_close(c) ==
  /\ chan' = [chan EXCEPT ![c] = FALSE]
  /\ inbound' = [inbound EXCEPT ![c] = EmptyQueue]
  /\ discard_channel_outbound(c)

-----------------------------------------------------------------------------
(* The session loop reads a packet. *)

Receive(c, kind) ==
  /\ Selecting /\ wire[c] # <<>> /\ Head(wire[c]).kind = kind
  /\ wire' = [wire EXCEPT ![c] = Tail(@)]
  /\ UNCHANGED <<end, credit, sent, done, fresh, waiting, held, reader, read, kex>>

\* Mutant: the client drops what arrives after its own CLOSE.
AcceptsOpenOnly(c, kind) == open[c]

\* is_established_channel guards every arm of the server.  The client hands the
\* packet to whatever is left of the channel; only its WINDOW_ADJUST needs the
\* entry of Encrypted::channels.
Accepts(c, kind) == open[c] \/ (end.side = "client" /\ kind # "adjust")

\* A packet that is not accepted is dropped.
RecvIgnored(c, kind) ==
  /\ Receive(c, kind) /\ ~Accepts(c, kind)
  /\ UNCHANGED <<end, encVars, inbound, needs, taken, buf, delivered, closeVars, loop>>

RecvData(c) ==
  LET item == Head(wire[c])
      win  == consume_recv_window(c, byte_len(item))
  IN  /\ Receive(c, "data") /\ Accepts(c, "data")
      /\ \/ /\ Delivery(c, item) \in {"Delivered", "ChannelGone"}
            /\ deliver_inbound(c, item)
            /\ maybe_grant_after_delivery(c, win, inbound[c].pending_bytes)
            /\ UNCHANGED <<end, open, parked, closeVars>>
         \/ /\ Delivery(c, item) = "Queued"
            /\ deliver_inbound(c, item)
            /\ window' = [window EXCEPT ![c] = win]
            /\ UNCHANGED <<end, open, parked, adjusts, target, closeVars>>
         \/ /\ Delivery(c, item) = "Overflow"
            /\ window' = [window EXCEPT ![c] = win]
            /\ finalize_close(c)
            /\ UNCHANGED <<end, adjusts, target, needs, taken, buf, delivered, callbacks, peerClose>>
      /\ UNCHANGED loop

RecvEof(c) ==
  /\ Receive(c, "eof") /\ Accepts(c, "eof")
  /\ deliver_inbound(c, Head(wire[c]))
  /\ UNCHANGED <<end, encVars, closeVars, loop>>

\* CHANNEL_CLOSE: answered at once when the channel is established, and taken as
\* the answer to our own close when only the application side is left.  It stands
\* behind the bytes that were taken, as bytes after our own close are dropped.
RecvClose(c) ==
  LET item == [kind |-> "close", from |-> taken[c], to |-> taken[c]]
  IN  /\ Receive(c, "close")
      /\ peerClose' = [peerClose EXCEPT ![c] = @ \/ open[c]]
      /\ \/ /\ ~open[c] /\ ~chan[c]
            /\ UNCHANGED <<end, open, parked, chan, callbacks, inbound, needs, taken, buf, delivered>>
         \/ /\ open[c] \/ chan[c]
            /\ Delivery(c, item) = "Queued"
            /\ deliver_inbound(c, item)
            /\ discard_channel_outbound(c)
            /\ UNCHANGED <<end, chan, callbacks>>
         \/ /\ open[c] \/ chan[c]
            /\ Delivery(c, item) # "Queued"
            /\ buf' = IF Delivery(c, item) = "Delivered"
                      THEN [buf EXCEPT ![c] = Append(@, item)] ELSE buf
            /\ callbacks' = [callbacks EXCEPT ![c] = @ + 1]
            /\ finalize_close(c)
            /\ UNCHANGED <<end, needs, taken, delivered>>
      /\ UNCHANGED <<end, window, adjusts, target, loop>>

\* CHANNEL_REQUEST: the loop awaits ChannelRef::send of the request.
RecvRequest(c) ==
  /\ Receive(c, "request") /\ Accepts(c, "request")
  /\ loop' = IF chan[c] THEN <<"send", c>> ELSE loop
  /\ UNCHANGED <<end, encVars, inbound, needs, taken, buf, delivered, closeVars>>

RequestSent(c) ==
  /\ loop = <<"send", c>> /\ (Free(c) > 0 \/ ~reader[c])
  /\ loop' = <<"select">>
  /\ buf' = IF reader[c]
            THEN [buf EXCEPT ![c] = Append(@, [kind |-> "request", from |-> delivered[c],
                                               to |-> delivered[c]])]
            ELSE buf
  /\ UNCHANGED <<end, peerVars, encVars, queueVars, reader, delivered, read, closeVars, kex>>

\* CHANNEL_WINDOW_ADJUST: a parked close goes out when the flush completes, and
\* the application is told if its buffer has room.
RecvWindowAdjust(c) ==
  /\ Receive(c, "adjust") /\ open[c]
  /\ \/ /\ parked[c] /\ discard_channel_outbound(c)
     \/ UNCHANGED <<end, open, parked>>
  /\ buf' = IF chan[c] /\ reader[c] /\ Free(c) > 0
            THEN [buf EXCEPT ![c] = Append(@, [kind |-> "adjust", from |-> delivered[c],
                                               to |-> delivered[c]])]
            ELSE buf
  /\ UNCHANGED <<end, window, target, adjusts, inbound, needs, taken, delivered, closeVars, loop>>
-----------------------------------------------------------------------------
(* The session loop polls a completed reserve_owned(): pump_inbound.  Removing *)
(* an InboundQueue loses its generation, so the futures of a removed queue are *)
(* recognised by the missing entry.                                            *)

Pumping(c) == Selecting /\ ~kex /\ NothingToReserve

\* reserve_owned() resolves to a permit handed over by a read, or found free when
\* it is polled first; it fails once the reader is gone.
PermitReady(c) == held[c] > 0 \/ (fresh[c] > 0 /\ reader[c] /\ Free(c) > 0)
ReserveFailed(c) == fresh[c] + waiting[c] > 0 /\ ~reader[c]

TakePermit(c) ==
  /\ PermitReady(c)
  /\ IF held[c] > 0
     THEN held' = [held EXCEPT ![c] = @ - 1] /\ UNCHANGED fresh
     ELSE fresh' = [fresh EXCEPT ![c] = @ - 1] /\ UNCHANGED held
  /\ UNCHANGED waiting

TakeFailure(c) ==
  /\ ReserveFailed(c)
  /\ IF waiting[c] > 0
     THEN waiting' = [waiting EXCEPT ![c] = @ - 1] /\ UNCHANGED fresh
     ELSE fresh' = [fresh EXCEPT ![c] = @ - 1] /\ UNCHANGED waiting
  /\ UNCHANGED held

\* The first poll finds no permit and queues for one.
RegisterReserve(c) ==
  /\ Pumping(c) /\ fresh[c] > 0 /\ reader[c] /\ Free(c) = 0
  /\ fresh' = [fresh EXCEPT ![c] = @ - 1]
  /\ waiting' = [waiting EXCEPT ![c] = @ + 1]
  /\ UNCHANGED <<end, peerVars, encVars, inbound, needs, held, taken, appVars, closeVars, loop, kex>>

\* The entry is gone: the permit or the error is dropped.
PumpStale(c) ==
  /\ Pumping(c) /\ inbound[c].queue = <<>>
  /\ TakePermit(c) \/ TakeFailure(c)
  /\ UNCHANGED <<end, peerVars, encVars, inbound, needs, taken, appVars, closeVars, loop, kex>>

\* permit.send: the message is lost if the reader is gone.
PumpSend(c) ==
  LET item == Head(inbound[c].queue)
  IN  /\ Pumping(c) /\ inbound[c].queue # <<>> /\ TakePermit(c)
      /\ buf' = IF reader[c] THEN [buf EXCEPT ![c] = Append(@, item)] ELSE buf
      /\ delivered' = [delivered EXCEPT ![c] = item.to]
      /\ UNCHANGED <<end, peerVars, needs, taken, reader, read, peerClose, kex>>

Dequeued(q) ==
  [queue         |-> Tail(q.queue),
   pending_bytes |-> q.pending_bytes - byte_len(Head(q.queue)),
   reserving     |-> FALSE,
   eof_queued    |-> q.eof_queued,
   close_queued  |-> q.close_queued]

\* Data and Eof: grant, then the deferred callback runs with the session.
PumpItem(c) ==
  LET item == Head(inbound[c].queue)
      left == inbound[c].pending_bytes - byte_len(item)
  IN  /\ PumpSend(c) /\ item.kind # "close"
      /\ inbound' = [inbound EXCEPT ![c] = Dequeued(@)]
      /\ \/ item.kind = "data" /\ maybe_grant_after_delivery(c, window[c], left)
         \/ item.kind = "eof" /\ UNCHANGED <<end, window, adjusts, target>>
      /\ loop' = <<"callback", c>>
      /\ UNCHANGED <<end, open, parked, chan, callbacks>>

\* Mutant: the next reserve is marked but never requested.
PumpRearmForgotten(c) ==
  /\ loop = <<"callback", c>>
  /\ loop' = <<"select">>
  /\ inbound' = [inbound EXCEPT ![c].reserving = inbound[c].queue # <<>>]
  /\ UNCHANGED <<end, peerVars, encVars, needs, fresh, waiting, held, taken, appVars, closeVars, kex>>

\* The callback of pump_inbound returned: reserve for the next item, or drop the
\* drained queue.
PumpRearm(c) ==
  /\ loop = <<"callback", c>>
  /\ loop' = <<"select">>
  /\ inbound' = [inbound EXCEPT ![c] = IF @.queue # <<>> THEN [@ EXCEPT !.reserving = TRUE]
                                                         ELSE EmptyQueue]
  /\ needs' = IF inbound[c].queue # <<>> THEN [needs EXCEPT ![c] = @ + 1] ELSE needs
  /\ UNCHANGED <<end, peerVars, encVars, fresh, waiting, held, taken, appVars, closeVars, kex>>

\* A delivered Close finishes the teardown that CHANNEL_CLOSE deferred.
PumpClose(c) ==
  /\ PumpSend(c) /\ Head(inbound[c].queue).kind = "close"
  /\ callbacks' = [callbacks EXCEPT ![c] = @ + 1]
  /\ finalize_close(c)
  /\ UNCHANGED <<end, window, target, adjusts, loop>>

\* Mutant: the backlog is given up together with the Close in it.
PumpReaderGoneDropsClose(c) ==
  /\ Pumping(c) /\ inbound[c].queue # <<>> /\ TakeFailure(c)
  /\ delivered' = [delivered EXCEPT ![c] = taken[c]]
  /\ inbound' = [inbound EXCEPT ![c] = EmptyQueue]
  /\ UNCHANGED <<end, peerVars, encVars, needs, taken, buf, reader, read, closeVars, loop, kex>>

\* The reader is gone: finish a queued Close, or give up the backlog.
PumpReaderGone(c) ==
  /\ Pumping(c) /\ inbound[c].queue # <<>> /\ TakeFailure(c)
  /\ delivered' = [delivered EXCEPT ![c] = taken[c]]
  /\ \/ /\ inbound[c].close_queued
        /\ callbacks' = [callbacks EXCEPT ![c] = @ + 1]
        /\ finalize_close(c)
     \/ /\ ~inbound[c].close_queued
        /\ inbound' = [inbound EXCEPT ![c] = EmptyQueue]
        /\ UNCHANGED <<end, open, parked, chan, callbacks>>
  /\ UNCHANGED <<end, peerVars, window, target, adjusts, needs, taken, buf, reader, read,
                 peerClose, loop, kex>>

-----------------------------------------------------------------------------
(* This side closes a channel: from the select loop, or from a Handler       *)
(* callback, which holds the session.                                        *)

Dispatching == (Selecting /\ ~kex) \/ loop \in {"callback"} \X Chan

\* Session::close.  Behind queued outbound data the close is parked; once it is
\* out, a channel whose reader is gone is released without waiting for the peer.
LocalClose(c) ==
  /\ Dispatching /\ c \in LocalCloses /\ (open[c] \/ chan[c])
  /\ \/ /\ open[c]
        /\ parked' = [parked EXCEPT ![c] = TRUE]
        /\ UNCHANGED <<end, open, inbound, chan>>
     \/ /\ ~parked[c] /\ chan[c] /\ ~reader[c]
        /\ finalize_close(c)
     \/ /\ ~parked[c] /\ ~(chan[c] /\ ~reader[c])
        /\ discard_channel_outbound(c)
        /\ UNCHANGED <<end, inbound, chan>>
  /\ UNCHANGED <<end, peerVars, window, target, adjusts, needs, fresh, waiting, held, taken, appVars,
                 callbacks, peerClose, loop, kex>>

\* enforce_outbound_cap: the outbound backlog of the channel ran away.
OutboundCapClose(c) ==
  /\ Dispatching /\ c \in LocalCloses /\ open[c]
  /\ finalize_close(c)
  /\ UNCHANGED <<end, peerVars, window, target, adjusts, needs, fresh, waiting, held, taken, appVars,
                 callbacks, peerClose, loop, kex>>

\* A key exchange starts and ends between two select rounds.
KexStart == Selecting /\ ~kex /\ kex' = TRUE
            /\ UNCHANGED <<end, peerVars, encVars, queueVars, appVars, closeVars, loop>>

KexDone == Selecting /\ kex /\ kex' = FALSE
           /\ UNCHANGED <<end, peerVars, encVars, queueVars, appVars, closeVars, loop>>

-----------------------------------------------------------------------------
(* The application and the tokio runtime. *)

\* A read frees a permit; tokio hands it to a queued reserve_owned().
AppRead(c) ==
  /\ reader[c] /\ buf[c] # <<>>
  /\ read' = [read EXCEPT ![c] = Head(buf[c]).to]
  /\ buf' = [buf EXCEPT ![c] = Tail(@)]
  /\ IF waiting[c] > 0
     THEN /\ waiting' = [waiting EXCEPT ![c] = @ - 1]
          /\ held' = [held EXCEPT ![c] = @ + 1]
     ELSE UNCHANGED <<end, waiting, held>>
  /\ UNCHANGED <<end, peerVars, encVars, inbound, needs, fresh, taken, reader, delivered, closeVars,
                 loop, kex>>

AppDrop(c) ==
  /\ reader[c]
  /\ reader' = [reader EXCEPT ![c] = FALSE]
  /\ buf' = [buf EXCEPT ![c] = <<>>]
  /\ UNCHANGED <<end, peerVars, encVars, queueVars, delivered, read, closeVars, loop, kex>>

-----------------------------------------------------------------------------
PeerSend(c) == \/ \E n \in 0..MaxLen : PeerSendData(c, n)
               \/ PeerSendEof(c) \/ PeerSendClose(c)
               \/ \E kind \in PeerKinds : PeerSendControl(c, kind)

Recv(c) == \/ RecvData(c) \/ RecvEof(c) \/ RecvClose(c)
           \/ RecvRequest(c) \/ RecvWindowAdjust(c)
           \/ \E kind \in {"data", "eof", "request", "adjust"} : RecvIgnored(c, kind)

Pump(c) == PumpItem(c) \/ PumpClose(c) \/ PumpReaderGone(c) \/ PumpStale(c) \/ RegisterReserve(c)

Next ==
  \/ \E c \in Chan :
       \/ PeerSend(c) \/ PeerRecvAdjust(c) \/ Recv(c) \/ RequestSent(c)
       \/ Pump(c) \/ PumpRearm(c) \/ LocalClose(c) \/ OutboundCapClose(c)
       \/ AppRead(c) \/ AppDrop(c)
  \/ drain_needs_reserve \/ KexStart \/ KexDone

Spec == Init /\ [][Next]_vars

\* The session loop polls every ready select arm again and again, a key exchange
\* ends (the session dies at its deadline otherwise), the peer applies grants and
\* answers a CHANNEL_CLOSE.
FairSpec ==
  /\ Spec
  /\ WF_vars(drain_needs_reserve) /\ WF_vars(KexDone)
  /\ \A c \in Chan :
       /\ SF_vars(Recv(c)) /\ SF_vars(Pump(c))
       /\ WF_vars(RequestSent(c)) /\ WF_vars(PumpRearm(c))
       /\ WF_vars(PeerRecvAdjust(c)) /\ SF_vars(~open[c] /\ PeerSendClose(c))
  /\ \A c \in Readers : WF_vars(AppRead(c))

-----------------------------------------------------------------------------
(* Properties. *)

\* The items of s cover the byte range [lo, hi) without gap or overlap.
Contiguous(s, lo, hi) ==
  /\ s = <<>> => lo = hi
  /\ s # <<>> => s[1].from = lo /\ s[Len(s)].to = hi
  /\ \A i \in 1 .. Len(s) - 1 : s[i].to = s[i + 1].from

WireStart(c) == IF wire[c] = <<>> THEN sent[c] ELSE Head(wire[c]).from

\* I5, per-channel FIFO: what the application has read, its buffer, the
\* backlog of deliver_inbound and the wire are, in this order, the peer's byte
\* stream without a gap, a repetition or an exchange.
StreamIntact ==
  \A c \in Chan :
    /\ Contiguous(wire[c], WireStart(c), sent[c])
    /\ open[c] => taken[c] = WireStart(c)
    /\ chan[c] => Contiguous(inbound[c].queue, delivered[c], taken[c])
    /\ reader[c] => Contiguous(buf[c], read[c], delivered[c])

\* At most one reserve_owned() per channel is requested or in flight, and a
\* backlog is never left without one (pump_inbound re-arms after its callback).
Reserves(c) == needs[c] + fresh[c] + waiting[c] + held[c]

BacklogHasReserve ==
  \A c \in Chan :
    /\ Reserves(c) <= 1
    /\ inbound[c].queue # <<>> => Reserves(c) = 1 \/ loop = <<"callback", c>>

\* I2: the bytes the peer may still send, those on the wire, and the backlog
\* together never exceed the largest target: a grant never re-authorises bytes
\* that are still undelivered.
MaxTarget == CHOOSE t \in Targets \cup {WindowSize} : \A u \in Targets \cup {WindowSize} : u <= t

CreditBacked ==
  end.obeyed =>
    \A c \in Chan : open[c] =>
      /\ window[c] = credit[c] + adjusts[c] + (sent[c] - WireStart(c))
      /\ window[c] + inbound[c].pending_bytes <= MaxTarget

\* And the peer can go on sending whenever everything it sent has been
\* delivered to an application that keeps its reader: the grants never leave a
\* window at zero.  (With a target of 1 they do: half of it is 0, and a
\* window is never below that.)
WindowNotStarved ==
  \A c \in Chan : open[c] /\ reader[c] /\ inbound[c].queue = <<>> => window[c] > 0

\* The receive window is honest both ways: what it grants is backed by room, and
\* what there is room for is granted (Encrypted::maybe_grant_recv_window).
WindowHonest == CreditBacked /\ WindowNotStarved

\* The memory of a backlog is bounded whatever the peer sends: in bytes by the
\* cap, in items by one per byte and one Eof and one Close.
BacklogBounded ==
  \A c \in Chan :
    /\ inbound[c].pending_bytes \in 0 .. PendingCap
    /\ Len(inbound[c].queue) <= inbound[c].pending_bytes + 2

\* What the peer sends on an open channel whose application keeps reading is
\* read, whatever the applications of the other channels do.
HealthyChannelProgress ==
  \A c \in Readers : \A n \in 1 .. MaxBytes :
    (open[c] /\ sent[c] >= n) ~> (read[c] >= n \/ ~reader[c] \/ ~open[c])

\* A closed channel does not leak: its entry in Session::channels goes away.
ClosedChannelReleased ==
  \A c \in Readers : ~open[c] ~> ~chan[c]

\* The bytes of a sequence of items.
BytesIn(items) == UNION {items[i].from .. items[i].to - 1 : i \in 1 .. Len(items)}

\* A held reader is owed everything the peer sent, before and after the peer's
\* CLOSE; once this side has closed the channel a client still is, a server not.
Intact(c) ==
  reader[c] /\ (open[c] \/ peerClose[c] \/ (end.side = "client" /\ chan[c]))

Pipe == INSTANCE BytePipe WITH
  put <- sent, got <- read,
  pipe <- [c \in Chan |-> IF reader[c]
                          THEN BytesIn(buf[c] \o inbound[c].queue)
                               \cup (IF Intact(c) THEN BytesIn(wire[c]) ELSE {})
                          ELSE {}],
  broken <- [c \in Chan |-> ~Intact(c)]

\* deliver_inbound, pump_inbound and the closes implement a byte pipe per
\* channel: what the peer sends is read once and in order, all of it by a held
\* reader, and a prefix when this side closed, the reader went or the cap was
\* exceeded.
InPipe == Pipe!Spec

=============================================================================
