---------------------------- MODULE OutboundFlow ----------------------------
(***************************************************************************)
(* Outbound channel data of a russh session.  Handle::data (acknowledged), *)
(* Channel::data and ChannelTx (which reserve window in the shared         *)
(* WindowSizeRef first) and Handler callbacks all end in Encrypted::data:  *)
(* what fits the peer's window is emitted, the rest is parked in           *)
(* pending_data until a WINDOW_ADJUST or the end of a key exchange, with   *)
(* EOF and CLOSE parked behind it and the producers parked on it.          *)
(*                                                                         *)
(* Payload is the byte range [from, to) of the stream the session accepted *)
(* for a channel; one run stands for the consecutive CHANNEL_DATA packets  *)
(* of one call of data_noqueue.  EOF and an orderly CLOSE claim the        *)
(* position up to which data was accepted, so a control that overtakes     *)
(* data, or drops it, breaks the adjacency of the stream.                  *)
(*                                                                         *)
(* Client and server share the code (session.rs); the server's loop, which *)
(* also drains its queue before select!, is the one modelled.  Channels    *)
(* start confirmed.  Empty payload emits nothing and is left out.          *)
(***************************************************************************)
EXTENDS Integers, Sequences, FiniteSets

CONSTANTS
  Chan,        \* channel ids of the session
  Producers,   \* tasks that call Handle::data
  Writers,     \* tasks that write through Channel::data or ChannelTx
  InitWindow,  \* the window the peer opened every channel with
  Cap,         \* Config::max_pending_outbound_bytes
  QueueCap,    \* Config::event_buffer_size
  Watermark,   \* OUTBOUND_HIGH_WATERMARK, in runs
  MaxLen,      \* bound: bytes of one message
  MaxAsked,    \* bound: bytes, EOFs and CLOSEs requested on one channel
  MaxKex,      \* bound: key exchanges
  CallbackOps, \* what Handler callbacks do: a subset of {"data", "eof", "close"}
  TaskOps,     \* what tasks request besides data: a subset of {"eof", "close"}
  Granting,    \* channels whose peer grants window; the others' peers stopped
  PeerCloses,  \* channels whose peer may send CHANNEL_CLOSE
  StuckBy,     \* <<channel, producer>>: the producer used the window up, is
               \* parked on one byte more (a task is in one call of Handle::data)
               \* and nothing else is asked there
  Cancels      \* may a writer be dropped between its reservation and its send?

ASSUME OutboundAssumption ==
  /\ InitWindow \in Nat /\ Cap \in Nat /\ QueueCap \in Nat \ {0} /\ Watermark \in Nat \ {0}
  /\ MaxLen \in Nat /\ MaxAsked \in Nat /\ MaxKex \in Nat
  /\ CallbackOps \subseteq {"data", "eof", "close"} /\ TaskOps \subseteq {"eof", "close"}
  /\ Granting \subseteq Chan /\ PeerCloses \subseteq Chan /\ Cancels \in BOOLEAN
  /\ StuckBy \subseteq Chan \X Producers /\ \A x, y \in StuckBy : x[2] = y[2] => x = y
  /\ Cap > 0
  /\ IsFiniteSet(Chan)

VARIABLES
  \* Encrypted::channels
  est,      \* is there a (confirmed) entry?
  rwin,     \* recipient_window_size
  pending,  \* pending_data
  peof,     \* pending_eof
  pclose,   \* pending_close
  accepted, \* bytes accepted by Encrypted::data
  sentTo,   \* bytes emitted
  staged,   \* packets in Encrypted::write
  sealed,   \* packets in the PacketWriter
  \* Session
  chan,     \* is the channel in Session::channels?
  acks,     \* Session::outbound_acks
  inbox,    \* Session::receiver
  phase,    \* where the session loop is
  gate,     \* can_receive_outbound of this iteration
  kex,      \* Session::kex.active()
  kexes,    \* key exchanges so far
  todo,     \* channels flush_all_pending has still to visit
  \* the peer
  got,      \* bytes the peer received
  granted,  \* bytes the peer granted
  adj,      \* granted, not yet seen by the session
  gotClose, \* CHANNEL_CLOSEs the peer received
  \* the tasks
  shared,   \* WindowSizeRef::value
  flying,   \* bytes reserved in WindowSizeRef and not dispatched
  wr,       \* a writer's reservation: <<>> or <<channel, length>>
  prod,     \* a producer in Handle::data
  claim,    \* where the bytes of a producer end: <<channel, offset>>
  asked     \* bytes and controls requested so far

encVars == <<est, rwin, pending, peof, pclose, accepted, sentTo, staged, sealed>>
kexVars == <<kex, kexes, todo>>
peerVars == <<got, granted, adj, gotClose>>
writerVars == <<shared, flying, wr>>
prodVars == <<acks, prod, claim>>
vars == <<encVars, kexVars, peerVars, writerVars, prodVars, chan, inbox, phase, gate, asked>>
-----------------------------------------------------------------------------
ByteRange == [from : Nat, to : Nat]
Packet == [kind : {"data", "eof", "close", "abort"}, from : Nat, to : Nat]
Message == [op : {"data", "eof", "close"}, chan : Chan, len : Nat, ack : SUBSET Producers]
Phases == {"drain", "drained", "select", "callback", "end", "flushall"}

EncTypeOK ==
  /\ est \in [Chan -> BOOLEAN] /\ rwin \in [Chan -> Int] /\ pending \in [Chan -> Seq(ByteRange)]
  /\ peof \in [Chan -> BOOLEAN] /\ pclose \in [Chan -> BOOLEAN]
  /\ accepted \in [Chan -> Nat] /\ sentTo \in [Chan -> Nat]
  /\ staged \in [Chan -> Seq(Packet)] /\ sealed \in [Chan -> Seq(Packet)]
LoopTypeOK ==
  /\ chan \in [Chan -> BOOLEAN] /\ inbox \in Seq(Message) /\ phase \in Phases
  /\ gate \in BOOLEAN /\ kex \in BOOLEAN /\ kexes \in Nat /\ todo \in SUBSET Chan
TaskTypeOK ==
  /\ got \in [Chan -> Nat] /\ granted \in [Chan -> Nat] /\ adj \in [Chan -> Nat]
  /\ gotClose \in [Chan -> Nat]
  /\ shared \in [Chan -> Nat] /\ flying \in [Chan -> Nat]
  /\ wr \in [Writers -> {<<>>} \cup (Chan \X Nat)]
  /\ acks \in [Chan -> SUBSET Producers]
  /\ prod \in [Producers -> {"idle", "waiting", "ok", "err"}]
  /\ claim \in [Producers -> {<<>>} \cup (Chan \X Nat)] /\ asked \in [Chan -> Nat]

\* Every variable has its type.
TypeOK == EncTypeOK /\ LoopTypeOK /\ TaskTypeOK

Stuck == {x[1] : x \in StuckBy}
StuckProducers == {x[2] : x \in StuckBy}

\* What was asked, accepted and emitted on a channel at the start.
Before(c, n) == IF c \in Stuck THEN n ELSE 0

Init ==
  /\ est = [c \in Chan |-> TRUE] /\ rwin = [c \in Chan |-> InitWindow - Before(c, InitWindow)]
  /\ pending = [c \in Chan |->
       IF c \in Stuck THEN <<[from |-> InitWindow, to |-> InitWindow + 1]>> ELSE <<>>]
  /\ peof = [c \in Chan |-> FALSE] /\ pclose = [c \in Chan |-> FALSE]
  /\ accepted = [c \in Chan |-> Before(c, InitWindow + 1)]
  /\ sentTo = [c \in Chan |-> Before(c, InitWindow)]
  /\ staged = [c \in Chan |-> <<>>] /\ sealed = [c \in Chan |-> <<>>]
  /\ chan = [c \in Chan |-> TRUE] /\ acks = [c \in Chan |-> {q \in Producers : <<c, q>> \in StuckBy}]
  /\ inbox = <<>>
  /\ phase = "drain" /\ gate = TRUE /\ kex = FALSE /\ kexes = 0 /\ todo = {}
  /\ got = [c \in Chan |-> Before(c, InitWindow)]
  /\ granted = [c \in Chan |-> 0] /\ adj = [c \in Chan |-> 0]
  /\ gotClose = [c \in Chan |-> 0]
  /\ shared = [c \in Chan |-> InitWindow] /\ flying = [c \in Chan |-> 0]
  /\ wr = [w \in Writers |-> <<>>]
  /\ prod = [q \in Producers |-> IF q \in StuckProducers THEN "waiting" ELSE "idle"]
  /\ claim = [q \in Producers |-> IF q \in StuckProducers
                                  THEN <<CHOOSE c \in Chan : <<c, q>> \in StuckBy, InitWindow + 1>>
                                  ELSE <<>>]
  /\ asked = [c \in Chan |-> Before(c, MaxAsked)]

\* Bounds what is requested on a channel.
Ask(c, n) == /\ asked[c] + n <= MaxAsked
             /\ asked' = [asked EXCEPT ![c] = @ + n]
-----------------------------------------------------------------------------
(* session.rs: emitting packets. *)

Least(m, n) == IF m < n THEN m ELSE n

Run(kind, from, to) == IF from < to THEN <<[kind |-> kind, from |-> from, to |-> to]>> ELSE <<>>
Control(kind, at) == <<[kind |-> kind, from |-> at, to |-> at]>>

\* Data goes straight into the PacketWriter only while Encrypted::write is empty.
Direct == \A c \in Chan : staged[c] = <<>>

\* Data, then controls, which are always staged (Encrypted::byte).
Emit(c, data, controls) ==
  IF Direct
  THEN /\ sealed' = [sealed EXCEPT ![c] = @ \o data]
       /\ staged' = [staged EXCEPT ![c] = @ \o controls]
  ELSE /\ staged' = [staged EXCEPT ![c] = @ \o (data \o controls)]
       /\ UNCHANGED sealed

\* pending_data_bytes: the parked ranges are adjacent, so their sum telescopes.
Bytes(queue) == IF queue = <<>> THEN 0 ELSE queue[Len(queue)].to - queue[1].from

\* Mutant: the window is not looked at.
TakenUnlimited(c, n) == IF pending[c] # <<>> \/ kex THEN 0 ELSE n
\* What data_with_writer emits at once: nothing behind a backlog or in a key
\* exchange, otherwise as much as the window allows.
Taken(c, n) == IF pending[c] # <<>> \/ kex THEN 0 ELSE Least(n, rwin[c])

\* Mutant: what was parked before is forgotten.
ParkedAlone(c, n) ==
  IF Taken(c, n) = n THEN pending[c]
  ELSE <<[from |-> accepted[c] + Taken(c, n), to |-> accepted[c] + n]>>
\* pending_data after data_with_writer.
Parked(c, n) ==
  IF Taken(c, n) = n THEN pending[c]
  ELSE Append(pending[c], [from |-> accepted[c] + Taken(c, n), to |-> accepted[c] + n])

Overflows(c, n) == Bytes(Parked(c, n)) > Cap

\* The parked producers of S learn that their bytes are gone: their oneshot
\* sender is dropped.
Fail(S) == [p \in Producers |-> IF p \in S THEN "err" ELSE prod[p]]
Succeed(S) == [p \in Producers |-> IF p \in S THEN "ok" ELSE prod[p]]
-----------------------------------------------------------------------------
(* The operations of Session that the loop and the callbacks use. *)

\* Mutant: the producers stay parked when their bytes are discarded.
AcksKept(c, who) == /\ acks' = acks /\ prod' = Fail(who)
AcksDropped(c, who) == /\ acks' = [acks EXCEPT ![c] = {}] /\ prod' = Fail(acks[c] \cup who)

\* close_discarding_pending: n is emitted before, CHANNEL_CLOSE goes out now.
Discard(c, data, to) ==
  /\ est' = [est EXCEPT ![c] = FALSE] /\ pending' = [pending EXCEPT ![c] = <<>>]
  /\ peof' = [peof EXCEPT ![c] = FALSE] /\ pclose' = [pclose EXCEPT ![c] = FALSE]
  /\ Emit(c, data, Control("abort", to))

\* Session::data and Session::extended_data, for a producer in who, with the
\* answer that dispatch_msg gives to a ChannelDataAcked.
SessionData(c, n, who) ==
  LET to == sentTo[c] + Taken(c, n)
  IN  \/ /\ ~est[c]
         /\ prod' = Fail(who)
         /\ UNCHANGED <<encVars, chan, acks, claim>>
      \/ /\ est[c]
         /\ accepted' = [accepted EXCEPT ![c] = @ + n]
         /\ sentTo' = [sentTo EXCEPT ![c] = to]
         /\ rwin' = [rwin EXCEPT ![c] = @ - Taken(c, n)]
         /\ claim' = [p \in Producers |-> IF p \in who THEN <<c, accepted[c] + n>> ELSE claim[p]]
         /\ \/ /\ ~Overflows(c, n)
               /\ pending' = [pending EXCEPT ![c] = Parked(c, n)]
               /\ Emit(c, Run("data", accepted[c], accepted[c] + Taken(c, n)), <<>>)
               /\ IF Parked(c, n) = <<>>
                  THEN prod' = Succeed(who) /\ UNCHANGED acks
                  ELSE acks' = [acks EXCEPT ![c] = @ \cup who] /\ UNCHANGED prod
               /\ UNCHANGED <<est, peof, pclose, chan>>
            \/ /\ Overflows(c, n)
               /\ Discard(c, Run("data", accepted[c], accepted[c] + Taken(c, n)), to)
               /\ AcksDropped(c, who)
               /\ chan' = [chan EXCEPT ![c] = FALSE]

\* Session::eof: parked behind queued data.
SessionEof(c) ==
  /\ \/ /\ est[c] /\ pending[c] # <<>>
        /\ peof' = [peof EXCEPT ![c] = TRUE]
        /\ UNCHANGED staged
     \/ /\ est[c] /\ pending[c] = <<>>
        /\ staged' = [staged EXCEPT ![c] = @ \o Control("eof", accepted[c])]
        /\ UNCHANGED peof
     \/ ~est[c] /\ UNCHANGED <<peof, staged>>
  /\ UNCHANGED <<est, rwin, pending, pclose, accepted, sentTo, sealed, chan, prodVars>>

\* Session::close: parked behind queued data; once it is out a channel whose
\* reader is gone is finalized, which drops the parked producers.
SessionClose(c) ==
  \/ /\ est[c] /\ pending[c] # <<>>
     /\ pclose' = [pclose EXCEPT ![c] = TRUE]
     /\ UNCHANGED <<est, rwin, pending, peof, accepted, sentTo, staged, sealed, chan, prodVars>>
  \/ /\ ~(est[c] /\ pending[c] # <<>>)
     /\ staged' = [staged EXCEPT ![c] = IF est[c] THEN @ \o Control("close", accepted[c]) ELSE @]
     /\ est' = [est EXCEPT ![c] = FALSE]
     /\ \/ UNCHANGED <<chan, acks, prod>>
        \/ /\ chan[c] /\ chan' = [chan EXCEPT ![c] = FALSE]
           /\ AcksDropped(c, {})
     /\ UNCHANGED <<rwin, pending, peof, pclose, accepted, sentTo, sealed, claim>>

\* Mutant: the controls are taken off the channel and never emitted.
ControlsForgotten(c) == <<>>
\* handle_flushed_channel: the parked EOF and CLOSE, in this order.
Controls(c) == (IF peof[c] THEN Control("eof", accepted[c]) ELSE <<>>)
            \o (IF pclose[c] THEN Control("close", accepted[c]) ELSE <<>>)

\* How many parked ranges are emitted in full when limit bytes are.
Cut(queue, limit) ==
  CHOOSE k \in 0 .. Len(queue) : /\ \A i \in 1 .. k : queue[i].to <= limit
                                 /\ k < Len(queue) => queue[k + 1].to > limit

\* flush_pending_with_writer with the window win: the longest prefix of the
\* backlog that fits is emitted, and the parked controls once all of it did.
FlushPending(c, win) ==
  LET queue == pending[c]
      limit == Least(sentTo[c] + win, sentTo[c] + Bytes(queue))
      left  == SubSeq(queue, Cut(queue, limit) + 1, Len(queue))
      all   == left = <<>>
  IN  /\ rwin' = [rwin EXCEPT ![c] = win - (limit - sentTo[c])]
      /\ sentTo' = [sentTo EXCEPT ![c] = limit]
      /\ pending' = [pending EXCEPT ![c] =
           IF all THEN <<>> ELSE <<[from |-> limit, to |-> left[1].to]>> \o Tail(left)]
      /\ Emit(c, Run("data", IF queue = <<>> THEN limit ELSE queue[1].from, limit),
              IF all THEN Controls(c) ELSE <<>>)
      /\ est' = [est EXCEPT ![c] = ~(all /\ pclose[c])]
      /\ peof' = [peof EXCEPT ![c] = @ /\ ~all]
      /\ pclose' = [pclose EXCEPT ![c] = @ /\ ~all]
      /\ UNCHANGED accepted
-----------------------------------------------------------------------------
(* The session loop. *)

\* Encrypted::flush seals what is staged; it may start a key exchange (volume,
\* time or request), for which only the KEXINIT is written.
Flush == /\ sealed' = [c \in Chan |-> sealed[c] \o staged[c]]
         /\ staged' = [c \in Chan |-> <<>>]
BeginRekey == /\ ~kex /\ kexes < MaxKex
              /\ kex' = TRUE /\ kexes' = kexes + 1 /\ UNCHANGED todo
MaybeRekey == BeginRekey \/ UNCHANGED kexVars

dispatch_msg ==
  LET msg == Head(inbox)
  IN  /\ inbox # <<>> /\ inbox' = Tail(inbox)
      /\ \/ msg.op = "data" /\ SessionData(msg.chan, msg.len, msg.ack)
         \/ msg.op = "eof" /\ SessionEof(msg.chan)
         \/ msg.op = "close" /\ SessionClose(msg.chan)
      /\ flying' = IF msg.op = "data" /\ msg.ack = {}
                   THEN [flying EXCEPT ![msg.chan] = @ - msg.len] ELSE flying
      /\ UNCHANGED <<kexVars, peerVars, shared, wr, gate, asked>>

\* The queued messages are drained before select!, up to a batch.
DrainMsg ==
  /\ phase \in {"drain", "drained"} /\ gate
  /\ dispatch_msg /\ phase' = "drained"

DrainDone ==
  /\ \/ phase = "drain" /\ (inbox = <<>> \/ ~gate) /\ UNCHANGED <<staged, sealed, kexVars>>
     \/ phase = "drained" /\ Flush /\ MaybeRekey
  /\ phase' = "select"
  /\ UNCHANGED <<est, rwin, pending, peof, pclose, accepted, sentTo, chan, inbox, gate, peerVars,
                 writerVars, prodVars, asked>>

\* The receiver arm of select!, behind the gate computed before the drain.
SelectMsg == phase = "select" /\ gate /\ dispatch_msg /\ phase' = "end"

\* Mutant: the writers are not told of the new window.
shared_not_updated(c, size) == shared
window_size_update(c, size) == IF chan[c] THEN [shared EXCEPT ![c] = size] ELSE shared

\* Mutant: the window is recorded and the backlog left alone.
RecvWindowAdjustNoFlush(c) ==
  /\ phase = "select" /\ adj[c] > 0 /\ est[c]
  /\ adj' = [adj EXCEPT ![c] = 0]
  /\ rwin' = [rwin EXCEPT ![c] = @ + adj[c]]
  /\ shared' = window_size_update(c, rwin'[c])
  /\ phase' = "callback"
  /\ UNCHANGED <<est, pending, peof, pclose, accepted, sentTo, staged, sealed, got, granted,
                 gotClose, chan, prodVars, flying, wr, inbox, kexVars, gate, asked>>

\* CHANNEL_WINDOW_ADJUST: the backlog is flushed, key exchange or not, and the
\* rest of the window published to the writers.
RecvWindowAdjust(c) ==
  /\ phase = "select" /\ adj[c] > 0
  /\ adj' = [adj EXCEPT ![c] = 0]
  /\ \/ /\ est[c]
        /\ FlushPending(c, rwin[c] + adj[c])
        /\ shared' = window_size_update(c, rwin'[c])
        /\ phase' = "callback"
     \/ /\ ~est[c] /\ phase' = "end" /\ UNCHANGED <<encVars, shared>>
  /\ UNCHANGED <<got, granted, gotClose, chan, prodVars, flying, wr, inbox, kexVars, gate, asked>>

\* CHANNEL_CLOSE, or an inbound overflow: the outbound side is discarded.  The
\* entry of Session::channels goes now or once the queued Close is delivered.
RecvClose(c) ==
  /\ phase = "select" /\ c \in PeerCloses /\ est[c]
  /\ Discard(c, <<>>, sentTo[c])
  /\ AcksDropped(c, {})
  /\ chan' \in {chan, [chan EXCEPT ![c] = FALSE]}
  /\ phase' = "callback"
  /\ UNCHANGED <<rwin, accepted, sentTo, claim, peerVars, writerVars, inbox, kexVars, gate, asked>>

\* pump_inbound delivers the queued Close.
FinalizeClose(c) ==
  /\ phase = "select" /\ ~kex /\ ~est[c] /\ chan[c]
  /\ chan' = [chan EXCEPT ![c] = FALSE]
  /\ AcksDropped(c, {})
  /\ phase' = "callback"
  /\ UNCHANGED <<encVars, claim, peerVars, writerVars, inbox, kexVars, gate, asked>>

\* Any other packet: its handler may write to channels.
RecvOther ==
  /\ phase = "select" /\ CallbackOps # {} /\ phase' = "callback"
  /\ UNCHANGED <<encVars, chan, prodVars, peerVars, writerVars, inbox, kexVars, gate, asked>>

CallbackOp(c) ==
  /\ phase = "callback"
  /\ \/ /\ "data" \in CallbackOps
        /\ \E n \in 1 .. MaxLen : Ask(c, n) /\ SessionData(c, n, {})
     \/ "eof" \in CallbackOps /\ Ask(c, 1) /\ SessionEof(c)
     \/ "close" \in CallbackOps /\ Ask(c, 1) /\ SessionClose(c)
  /\ UNCHANGED <<peerVars, writerVars, inbox, kexVars, phase, gate>>

\* The peer's KEXINIT.
RecvKexInit ==
  /\ phase = "select" /\ BeginRekey /\ phase' = "end"
  /\ UNCHANGED <<encVars, chan, prodVars, peerVars, writerVars, inbox, gate, asked>>

\* The peer's NEWKEYS: flush_all_pending visits the channels in any order, then
\* the exchange is over.
RecvNewKeys ==
  /\ phase = "select" /\ kex /\ phase' = "flushall" /\ todo' = {c \in Chan : est[c]}
  /\ UNCHANGED <<encVars, chan, prodVars, peerVars, writerVars, inbox, kex, kexes, gate, asked>>

FlushAll(c) ==
  /\ phase = "flushall" /\ c \in todo /\ todo' = todo \ {c}
  /\ FlushPending(c, rwin[c])
  /\ UNCHANGED <<chan, prodVars, peerVars, writerVars, inbox, kex, kexes, phase, gate, asked>>

KexDone ==
  /\ phase = "flushall" /\ todo = {} /\ Flush /\ kex' = FALSE /\ phase' = "end"
  /\ UNCHANGED <<est, rwin, pending, peof, pclose, accepted, sentTo, chan, prodVars, peerVars,
                 writerVars, inbox, kexes, todo, gate, asked>>

\* The CHANNEL_CLOSEs among packets.
Closes(packets) ==
  Cardinality({i \in 1 .. Len(packets) : packets[i].kind \in {"close", "abort"}})

\* The flush_into arm makes progress: the peer receives.
FlushInto(c) ==
  /\ phase = "select" /\ sealed[c] # <<>>
  /\ got' = [got EXCEPT ![c] = Head(sealed[c]).to]
  /\ gotClose' = [gotClose EXCEPT ![c] = @ + Closes(<<Head(sealed[c])>>)]
  /\ sealed' = [sealed EXCEPT ![c] = Tail(@)]
  /\ phase' = "end"
  /\ UNCHANGED <<est, rwin, pending, peof, pclose, accepted, sentTo, staged, granted, adj, chan,
                 prodVars, writerVars, inbox, kexVars, gate, asked>>

\* A timer arm.
Tick ==
  /\ phase = "select" /\ phase' = "end"
  /\ UNCHANGED <<encVars, chan, prodVars, peerVars, writerVars, inbox, kexVars, gate, asked>>

Buffered == Cardinality(UNION {{c} \X (1 .. Len(sealed'[c])) : c \in Chan})

\* Mutant: the gate also looks at the backlogs, as has_any_pending_data did.
GatedByBacklog == ~kex' /\ Buffered < Watermark /\ \A c \in Chan : pending[c] = <<>>
\* can_receive_outbound, computed at the top of the next iteration.
CanReceiveOutbound == ~kex' /\ Buffered < Watermark

Drained(c) == ~(est[c] /\ pending[c] # <<>>)

\* The end of an iteration: flush, then release_outbound_acks.
EndIteration ==
  LET drained == {c \in Chan : Drained(c)}
  IN  /\ phase \in {"callback", "end"} /\ phase' = "drain"
      /\ Flush /\ MaybeRekey /\ gate' = CanReceiveOutbound
      /\ prod' = Succeed(UNION {acks[c] : c \in drained})
      /\ acks' = [c \in Chan |-> IF c \in drained THEN {} ELSE acks[c]]
      /\ UNCHANGED <<est, rwin, pending, peof, pclose, accepted, sentTo, claim, chan, peerVars,
                     writerVars, inbox, asked>>
-----------------------------------------------------------------------------
(* The tasks and the peer. *)

Post(op, c, n, who) ==
  /\ Len(inbox) < QueueCap
  /\ inbox' = Append(inbox, [op |-> op, chan |-> c, len |-> n, ack |-> who])

\* Handle::data: send_acked.
ProducerSend(p, c, n) ==
  /\ prod[p] # "waiting" /\ Ask(c, n) /\ Post("data", c, n, {p})
  /\ prod' = [prod EXCEPT ![p] = "waiting"]
  /\ claim' = [claim EXCEPT ![p] = <<>>]
  /\ UNCHANGED <<encVars, kexVars, peerVars, writerVars, acks, chan, phase, gate>>

\* Handle::eof, Handle::close, Channel::eof, Channel::close.
TaskControl(op, c) ==
  /\ op \in TaskOps /\ Ask(c, 1) /\ Post(op, c, 0, {})
  /\ UNCHANGED <<encVars, kexVars, peerVars, writerVars, prodVars, chan, phase, gate>>

Writable(c, n) == n <= shared[c]

\* reserve_writable_chunk and poll_writable.
WriterReserve(w, c, n) ==
  /\ wr[w] = <<>> /\ Writable(c, n) /\ Ask(c, n)
  /\ wr' = [wr EXCEPT ![w] = <<c, n>>]
  /\ shared' = [shared EXCEPT ![c] = @ - n]
  /\ flying' = [flying EXCEPT ![c] = @ + n]
  /\ UNCHANGED <<encVars, kexVars, peerVars, prodVars, chan, inbox, phase, gate>>

\* send_msg.
WriterSend(w) ==
  /\ wr[w] # <<>> /\ Post("data", wr[w][1], wr[w][2], {})
  /\ wr' = [wr EXCEPT ![w] = <<>>]
  /\ UNCHANGED <<encVars, kexVars, peerVars, shared, flying, prodVars, chan, phase, gate, asked>>

\* The future is dropped before send_msg got its permit: its reservation is
\* not given back.
WriterCancel(w) ==
  /\ Cancels /\ wr[w] # <<>>
  /\ wr' = [wr EXCEPT ![w] = <<>>]
  /\ UNCHANGED <<encVars, kexVars, peerVars, shared, flying, prodVars, chan, inbox, phase, gate, asked>>

\* The peer tops its window up again, at most to where it was.
PeerGrant(c) ==
  /\ c \in Granting /\ granted[c] < got[c]
  /\ \E n \in 1 .. got[c] - granted[c] :
       /\ granted' = [granted EXCEPT ![c] = @ + n]
       /\ adj' = [adj EXCEPT ![c] = @ + n]
  /\ UNCHANGED <<encVars, kexVars, got, gotClose, writerVars, prodVars, chan, inbox, phase, gate, asked>>
-----------------------------------------------------------------------------
Task ==
  \/ \E p \in Producers, c \in Chan, n \in 1 .. MaxLen : ProducerSend(p, c, n)
  \/ \E w \in Writers, c \in Chan, n \in 1 .. MaxLen : WriterReserve(w, c, n)
  \/ \E w \in Writers : WriterSend(w) \/ WriterCancel(w)
  \/ \E op \in TaskOps, c \in Chan : TaskControl(op, c)

Loop ==
  \/ DrainMsg \/ DrainDone \/ SelectMsg \/ RecvOther \/ RecvKexInit \/ RecvNewKeys \/ KexDone
  \/ Tick \/ EndIteration
  \/ \E c \in Chan : \/ RecvWindowAdjust(c) \/ RecvClose(c) \/ FinalizeClose(c) \/ CallbackOp(c)
                     \/ FlushAll(c) \/ FlushInto(c)

Next == Task \/ Loop \/ \E c \in Chan : PeerGrant(c)

Spec == Init /\ [][Next]_vars

\* The loop never stops, select! serves every ready arm again and again, the
\* peer finishes a key exchange, and a granting peer grants what it consumed.
FairSpec ==
  /\ Spec
  /\ WF_vars(DrainDone) /\ WF_vars(EndIteration) /\ WF_vars(KexDone)
  /\ SF_vars(DrainMsg \/ SelectMsg) /\ SF_vars(RecvNewKeys) /\ WF_vars(Tick)
  /\ \A w \in Writers : SF_vars(WriterSend(w))
  /\ \A c \in Chan : /\ SF_vars(RecvWindowAdjust(c)) /\ SF_vars(FlushInto(c))
                     /\ WF_vars(FlushAll(c))
  /\ \A c \in Granting : WF_vars(PeerGrant(c))

-----------------------------------------------------------------------------
(* Properties. *)

\* The items of s cover the byte range [lo, hi) without gap or overlap.
Contiguous(s, lo, hi) ==
  /\ s = <<>> => lo = hi
  /\ s # <<>> => s[1].from = lo /\ s[Len(s)].to = hi
  /\ \A i \in 1 .. Len(s) - 1 : s[i].to = s[i + 1].from

\* What the peer received, the PacketWriter, Encrypted::write and pending_data
\* are, in this order, the stream that was accepted: data_with_writer,
\* flush_pending and flush_all_pending neither lose, repeat nor reorder bytes,
\* and no EOF or orderly CLOSE overtakes data that was accepted before it.  The
\* stream ends with exactly one CHANNEL_CLOSE, whether the channel was closed at
\* once, behind its backlog, by the peer or by the cap.
OutStreamIntact ==
  \A c \in Chan :
    LET out == sealed[c] \o staged[c]
    IN  /\ Contiguous(out, got[c], sentTo[c])
        /\ est[c] => Contiguous(pending[c], sentTo[c], accepted[c])
        /\ gotClose[c] + Closes(out) = IF est[c] THEN 0 ELSE 1

\* The session never emits more than the peer granted.
WindowRespected ==
  \A c \in Chan : /\ rwin[c] >= 0
                  /\ sentTo[c] + rwin[c] <= InitWindow + granted[c] - adj[c]

\* What WindowSizeRef still offers, the bytes reserved from it and not dispatched
\* (those of dropped writers too) and the backlog cover the real window.
SharedNotStranded ==
  \A c \in Chan : est[c] /\ chan[c] => shared[c] + flying[c] + Bytes(pending[c]) >= rwin[c]

\* The three views of a channel's window agree: recipient_window_size never
\* exceeds what the peer granted, and WindowSizeRef withholds nothing of it from
\* the writers but what they reserved and what is parked.
WindowsAgree == WindowRespected /\ SharedNotStranded

\* Handle::data answers Ok only for bytes that were emitted: never for bytes
\* that a close discarded, and not while they are parked.
AckMeansSent ==
  \A p \in Producers :
    prod[p] = "ok" => claim[p] # <<>> /\ claim[p][2] <= sentTo[claim[p][1]]

\* The call of p on channel c is on its way: queued in Session::receiver, or
\* dispatched and parked in outbound_acks.
WaitsOn(p, c) ==
  \/ p \in acks[c]
  \/ \E i \in 1 .. Len(inbox) : inbox[i].chan = c /\ p \in inbox[i].ack

\* Handle::data on a channel whose peer keeps granting returns, whatever the
\* peers of the other channels do: its message is let past the gate of
\* Session::run and dispatched although another channel has a backlog that
\* never drains, and the bytes that are parked then are emitted or discarded.
ProducerResolves ==
  \A p \in Producers : \A c \in Granting :
    (prod[p] = "waiting" /\ WaitsOn(p, c)) ~> prod[p] # "waiting"

\* The bytes of a sequence of ranges or packets.
BytesIn(s) == UNION {s[i].from .. s[i].to - 1 : i \in 1 .. Len(s)}

Pipe == INSTANCE BytePipe WITH
  put <- accepted, got <- got,
  pipe <- [c \in Chan |-> BytesIn(sealed[c] \o staged[c])
                          \cup (IF est[c] THEN BytesIn(pending[c]) ELSE {})],
  broken <- [c \in Chan |-> ~est[c]]

\* Encrypted, the parking and the flushes implement a byte pipe per channel:
\* what Encrypted::data accepted reaches the peer once and in order until the
\* channel is closed, and a prefix of it then.
OutPipe == Pipe!Spec

=============================================================================
