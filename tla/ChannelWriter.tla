--------------------------- MODULE ChannelWriter ---------------------------
(***************************************************************************)
(* The writers of one channel: the u32 window behind a tokio Mutex and the *)
(* Notify that announces its changes (WindowSizeRef), the two ways to      *)
(* write, a data_bytes call (reserve_writable_chunk) and a ChannelTx       *)
(* (poll_write, poll_shutdown), and the session that sets the window on    *)
(* CHANNEL_WINDOW_ADJUST and takes the messages off its bounded queue.     *)
(*                                                                         *)
(* A data_bytes future is dropped with everything it holds.  A ChannelTx   *)
(* keeps its place in the lock queue, its watch and its reserved chunk     *)
(* when the caller stops polling a write (select!, a timeout): it is then  *)
(* "left" until it is polled again, shut down or dropped.  The caller of   *)
(* an interrupted write offers the same bytes when it writes again.        *)
(*                                                                         *)
(* tokio's Mutex hands itself to the longest waiter, polled or not; Notify *)
(* keeps one permit, wakes the longest waiter, and passes a wake-up on     *)
(* when a woken waiter is dropped before it was polled.                    *)
(***************************************************************************)
EXTENDS Integers, Sequences

CONSTANTS
  Tx,          \* the ChannelTx writers (make_writer, into_stream, Channel::data)
  Streams,     \* the ChannelTx that are half of a ChannelStream (into_stream)
  Calls,       \* the data_bytes and extended_data_bytes calls
  MaxPacket,   \* max_packet_size of the channel
  InitWindow,  \* the window the channel starts with
  QueueCap,    \* Config::event_buffer_size
  Windows,     \* what update may set the window to
  MaxUpdates,  \* bound: WINDOW_ADJUST messages
  Bytes,       \* bound: bytes that each writer has to write
  MaxPeeks     \* bound: calls of writable_packet_size

Writers == Tx \cup Calls
Session == "session"
Peeker == "peeker"

ASSUME WriterAssumption ==
  /\ Tx \cap Calls = {} /\ Streams \subseteq Tx /\ {Session, Peeker} \cap Writers = {}
  /\ MaxPacket \in Nat \ {0} /\ InitWindow \in Nat /\ QueueCap \in Nat \ {0}
  /\ Windows \subseteq Nat /\ MaxUpdates \in Nat /\ Bytes \in Nat /\ MaxPeeks \in Nat

VARIABLES
  window,   \* WindowSizeRef::value
  lockq,    \* its Mutex: the owner, then those that wait for it
  notify,   \* WindowSizeRef::notifier and the Notified futures of the writers
  pc,       \* where each writer is
  polled,   \* is a task polling the writer?
  chunk,    \* bytes reserved for the message that waits for a queue slot
  acked,    \* bytes that write or data_bytes has reported as sent
  owes,     \* consumed a wake-up and did not look at the window since
  forfeit,  \* was a call dropped while it owed a wake-up?
  inbox,    \* the queue of the session: <<writer, from, to>>, or <<writer, "eof">>
            \* or <<writer, "close">>
  taken,    \* what the session took off its queue, by writer
  sess,     \* the session: "loop", waiting in "lock", about to "notify", "ended"
  updates,  \* WINDOW_ADJUST messages so far
  peeks     \* calls of writable_packet_size so far

vars == <<window, lockq, notify, pc, polled, chunk, acked, owes, forfeit, inbox, taken, sess,
          updates, peeks>>
flowVars == <<chunk, acked, inbox, taken>>
sessVars == <<sess, updates>>

Least(a, b) == IF a <= b THEN a ELSE b
\* The queue s after x, which is in it at most once, has left.
Without(s, x) ==
  IF \E i \in 1 .. Len(s) : s[i] = x
  THEN LET i == CHOOSE j \in 1 .. Len(s) : s[j] = x
       IN  SubSeq(s, 1, i - 1) \o SubSeq(s, i + 1, Len(s))
  ELSE s
Owner(x) == lockq # <<>> /\ Head(lockq) = x

TypeOK ==
  /\ window \in Nat /\ lockq \in Seq(Writers \cup {Session, Peeker})
  /\ notify \in [permit : BOOLEAN, waiters : Seq(Writers),
                 watch : [Writers -> {"new", "waiting", "woken"}]]
  /\ pc \in [Writers -> {"idle", "write", "lock", "hold", "watch", "sleep", "send",
                         "eof", "shut", "closing", "gone"}]
  /\ polled \in [Writers -> BOOLEAN] /\ chunk \in [Writers -> Nat] /\ acked \in [Writers -> Nat]
  /\ owes \in [Writers -> BOOLEAN] /\ forfeit \in BOOLEAN
  /\ sess \in {"loop", "lock", "notify", "ended"} /\ updates \in Nat /\ peeks \in Nat

Init ==
  /\ window = InitWindow /\ lockq = <<>>
  /\ notify = [permit |-> FALSE, waiters |-> <<>>, watch |-> [w \in Writers |-> "new"]]
  /\ pc = [w \in Writers |-> "idle"] /\ polled = [w \in Writers |-> FALSE]
  /\ chunk = [w \in Writers |-> 0] /\ acked = [w \in Writers |-> 0]
  /\ owes = [w \in Writers |-> FALSE] /\ forfeit = FALSE
  /\ inbox = <<>> /\ taken = [w \in Writers |-> <<>>]
  /\ sess = "loop" /\ updates = 0 /\ peeks = 0

-----------------------------------------------------------------------------
(* tokio::sync::Notify, as the code uses it. *)

\* notify_one: wake the longest waiter, or keep one permit.
notify_one(n) ==
  IF n.waiters = <<>>
  THEN [permit |-> TRUE, waiters |-> <<>>, watch |-> n.watch]
  ELSE [permit |-> n.permit, waiters |-> Tail(n.waiters),
        watch |-> [n.watch EXCEPT ![Head(n.waiters)] = "woken"]]

\* The Notified future of w is dropped.
Forget(n, w) ==
  LET m == [permit |-> n.permit, waiters |-> Without(n.waiters, w),
            watch |-> [n.watch EXCEPT ![w] = "new"]]
  IN  IF n.watch[w] = "woken" THEN notify_one(m) ELSE m

\* Is the Notified future of w ready when it is polled?
Ready(w) == notify.watch[w] = "woken" \/ (notify.watch[w] = "new" /\ notify.permit)
-----------------------------------------------------------------------------
(* Writing: reserve_writable_chunk and poll_writable. *)

\* A call of data_bytes, or of write on a ChannelTx.
StartWrite(w) ==
  /\ pc[w] = "idle" /\ acked[w] < Bytes
  /\ pc' = [pc EXCEPT ![w] = "write"] /\ polled' = [polled EXCEPT ![w] = TRUE]
  /\ UNCHANGED <<window, lockq, notify, owes, forfeit, flowVars, sessVars, peeks>>

\* lock().await, or the first poll of window_size_fut.
TryLock(w) ==
  /\ pc[w] = "write" /\ polled[w]
  /\ lockq' = Append(lockq, w)
  /\ pc' = [pc EXCEPT ![w] = IF lockq = <<>> THEN "hold" ELSE "lock"]
  /\ UNCHANGED <<window, notify, polled, owes, forfeit, flowVars, sessVars, peeks>>

Writable(w) == Least(Least(MaxPacket, window), Bytes - acked[w])

\* Mutant: what is left of the window is kept from the other writers.
PassedOnNever(left) == notify
PassedOn(left) == IF left > 0 THEN notify_one(notify) ELSE notify

\* Mutant: the guard is held while the writer watches for a change.
LookHolding(w) ==
  /\ pc[w] \in {"hold", "lock"} /\ polled[w] /\ Owner(w)
  /\ lockq' = IF Writable(w) > 0 THEN Tail(lockq) ELSE lockq
  /\ owes' = [owes EXCEPT ![w] = FALSE]
  /\ window' = window - Writable(w)
  /\ notify' = IF Writable(w) > 0 THEN PassedOn(window') ELSE notify
  /\ chunk' = [chunk EXCEPT ![w] = Writable(w)]
  /\ pc' = [pc EXCEPT ![w] = IF Writable(w) > 0 THEN "send" ELSE "watch"]
  /\ UNCHANGED <<polled, forfeit, acked, inbox, taken, sessVars, peeks>>

\* With the lock: take a chunk of the window and pass the wake-up on, or go and
\* watch for a change.
LookAtWindow(w) ==
  /\ pc[w] \in {"hold", "lock"} /\ polled[w] /\ Owner(w)
  /\ lockq' = Tail(lockq)
  /\ owes' = [owes EXCEPT ![w] = FALSE]
  /\ IF Writable(w) > 0
     THEN /\ window' = window - Writable(w)
          /\ notify' = PassedOn(window')
          /\ chunk' = [chunk EXCEPT ![w] = Writable(w)]
          /\ pc' = [pc EXCEPT ![w] = "send"]
     ELSE /\ pc' = [pc EXCEPT ![w] = "watch"]
          /\ UNCHANGED <<window, notify, chunk>>
  /\ UNCHANGED <<polled, forfeit, acked, inbox, taken, sessVars, peeks>>

\* The Notified future is polled: it is ready and replaced, or it waits.
PollWatch(w) ==
  /\ pc[w] = "watch" /\ polled[w]
  /\ IF Ready(w)
     THEN /\ notify' = [permit |-> notify.permit /\ notify.watch[w] # "new",
                        waiters |-> notify.waiters,
                        watch |-> [notify.watch EXCEPT ![w] = "new"]]
          /\ pc' = [pc EXCEPT ![w] = "write"] /\ owes' = [owes EXCEPT ![w] = TRUE]
     ELSE /\ notify' = [permit |-> notify.permit,
                        waiters |-> IF notify.watch[w] = "new" THEN Append(notify.waiters, w)
                                    ELSE notify.waiters,
                        watch |-> [notify.watch EXCEPT ![w] = "waiting"]]
          /\ pc' = [pc EXCEPT ![w] = "sleep"] /\ UNCHANGED owes
  /\ UNCHANGED <<window, lockq, polled, forfeit, flowVars, sessVars, peeks>>

\* The task of a sleeping writer runs because its watch was woken.  The call
\* drops the future; the ChannelTx looks at the window first and keeps it.
Wake(w) ==
  /\ pc[w] = "sleep" /\ polled[w] /\ notify.watch[w] = "woken"
  /\ pc' = [pc EXCEPT ![w] = "write"]
  /\ IF w \in Calls
     THEN /\ notify' = [permit |-> notify.permit, waiters |-> notify.waiters,
                        watch |-> [notify.watch EXCEPT ![w] = "new"]]
          /\ owes' = [owes EXCEPT ![w] = TRUE]
     ELSE UNCHANGED <<notify, owes>>
  /\ UNCHANGED <<window, lockq, polled, forfeit, flowVars, sessVars, peeks>>

\* The task of a sleeping ChannelTx runs for another reason and polls the write
\* again: it goes for the lock while its watch still waits.
Repoll(w) ==
  /\ w \in Tx /\ pc[w] = "sleep" /\ polled[w]
  /\ pc' = [pc EXCEPT ![w] = "write"]
  /\ UNCHANGED <<window, lockq, notify, polled, owes, forfeit, flowVars, sessVars, peeks>>

HasSlot == sess # "ended" /\ Len(inbox) < QueueCap

\* send_msg, or handle_write_result with the permit of send_fut.
SendChunk(w) ==
  /\ pc[w] = "send" /\ polled[w] /\ HasSlot
  /\ inbox' = Append(inbox, <<w, acked[w], acked[w] + chunk[w]>>)
  /\ acked' = [acked EXCEPT ![w] = @ + chunk[w]]
  /\ chunk' = [chunk EXCEPT ![w] = 0]
  /\ IF w \in Calls /\ acked'[w] < Bytes
     THEN pc' = [pc EXCEPT ![w] = "write"] /\ UNCHANGED polled
     ELSE /\ pc' = [pc EXCEPT ![w] = IF w \in Calls THEN "gone" ELSE "idle"]
          /\ polled' = [polled EXCEPT ![w] = FALSE]
  /\ UNCHANGED <<window, lockq, notify, owes, forfeit, taken, sessVars, peeks>>

\* The queue is closed: SendError, or BrokenPipe.  The reserved chunk is lost.
SendFails(w) ==
  /\ sess = "ended" /\ polled[w] /\ pc[w] \in {"send", "eof"}
  /\ pc' = [pc EXCEPT ![w] = IF w \in Calls THEN "gone" ELSE "shut"]
  /\ polled' = [polled EXCEPT ![w] = FALSE]
  /\ chunk' = [chunk EXCEPT ![w] = 0]
  /\ UNCHANGED <<window, lockq, notify, acked, owes, forfeit, inbox, taken, sessVars, peeks>>
-----------------------------------------------------------------------------
(* Interrupted, shut down and dropped writers. *)

\* The caller gives up on a write; the ChannelTx stays as it is.
Leave(t) ==
  /\ t \in Tx /\ polled[t] /\ pc[t] \in {"write", "lock", "sleep", "send", "eof"}
  /\ polled' = [polled EXCEPT ![t] = FALSE]
  /\ UNCHANGED <<window, lockq, notify, pc, owes, forfeit, flowVars, sessVars, peeks>>

\* It writes again: poll_write goes on with send_fut, else with window_size_fut.
Resume(t) ==
  /\ t \in Tx /\ ~polled[t] /\ pc[t] \in {"write", "lock", "sleep", "send", "eof"}
  /\ polled' = [polled EXCEPT ![t] = TRUE]
  /\ pc' = [pc EXCEPT ![t] = IF @ = "sleep" THEN "write" ELSE @]
  /\ UNCHANGED <<window, lockq, notify, owes, forfeit, flowVars, sessVars, peeks>>

\* Mutant: the chunk that waits in send_fut counts as sent.
ShutdownCounts(t) ==
  /\ t \in Tx /\ ~polled[t] /\ pc[t] \in {"idle", "write", "lock", "sleep", "send"}
  /\ polled' = [polled EXCEPT ![t] = TRUE] /\ pc' = [pc EXCEPT ![t] = "eof"]
  /\ acked' = [acked EXCEPT ![t] = @ + chunk[t]]
  /\ chunk' = [chunk EXCEPT ![t] = 0]
  /\ UNCHANGED <<window, lockq, notify, owes, forfeit, inbox, taken, sessVars, peeks>>

\* poll_shutdown: the Eof takes the place of a chunk that waits in send_fut.
Shutdown(t) ==
  /\ t \in Tx /\ ~polled[t] /\ pc[t] \in {"idle", "write", "lock", "sleep", "send"}
  /\ polled' = [polled EXCEPT ![t] = TRUE] /\ pc' = [pc EXCEPT ![t] = "eof"]
  /\ chunk' = [chunk EXCEPT ![t] = 0]
  /\ UNCHANGED <<window, lockq, notify, owes, forfeit, acked, inbox, taken, sessVars, peeks>>

SendEof(t) ==
  /\ pc[t] = "eof" /\ polled[t] /\ HasSlot
  /\ inbox' = Append(inbox, <<t, "eof">>)
  /\ pc' = [pc EXCEPT ![t] = "shut"] /\ polled' = [polled EXCEPT ![t] = FALSE]
  /\ UNCHANGED <<window, lockq, notify, chunk, acked, owes, forfeit, taken, sessVars, peeks>>

\* Mutant: a ChannelTx goes without waking another writer.
DropTxSilently(t) ==
  /\ t \in Tx /\ pc[t] \notin {"hold", "watch", "closing", "gone"}
  /\ notify' = Forget(notify, t)
  /\ lockq' = Without(lockq, t)
  /\ owes' = [owes EXCEPT ![t] = FALSE] /\ polled' = [polled EXCEPT ![t] = FALSE]
  /\ pc' = [pc EXCEPT ![t] = IF t \in Streams THEN "closing" ELSE "gone"]
  /\ chunk' = [chunk EXCEPT ![t] = 0]
  /\ UNCHANGED <<window, forfeit, acked, inbox, taken, sessVars, peeks>>

\* Drop of ChannelTx: notify_one, then its fields go: window_size_fut with its
\* place in the lock queue, the watch, the reserved chunk.  The other half of a
\* ChannelStream is a ChannelCloseOnDrop: it spawns a task to send a Close.
DropTx(t) ==
  /\ t \in Tx /\ pc[t] \notin {"hold", "watch", "closing", "gone"}
  /\ notify' = Forget(notify_one(notify), t)
  /\ lockq' = Without(lockq, t)
  /\ owes' = [owes EXCEPT ![t] = FALSE] /\ polled' = [polled EXCEPT ![t] = FALSE]
  /\ pc' = [pc EXCEPT ![t] = IF t \in Streams THEN "closing" ELSE "gone"]
  /\ chunk' = [chunk EXCEPT ![t] = 0]
  /\ UNCHANGED <<window, forfeit, acked, inbox, taken, sessVars, peeks>>

SendClose(t) ==
  /\ pc[t] = "closing" /\ (sess = "ended" \/ HasSlot)
  /\ inbox' = IF sess = "ended" THEN inbox ELSE Append(inbox, <<t, "close">>)
  /\ pc' = [pc EXCEPT ![t] = "gone"]
  /\ UNCHANGED <<window, lockq, notify, polled, chunk, acked, owes, forfeit, taken, sessVars, peeks>>

\* A data_bytes future is dropped at one of its awaits.
DropCall(k) ==
  /\ k \in Calls /\ pc[k] \in {"write", "lock", "sleep", "send"}
  /\ notify' = Forget(notify, k)
  /\ lockq' = Without(lockq, k)
  /\ forfeit' = (forfeit \/ owes[k])
  /\ owes' = [owes EXCEPT ![k] = FALSE] /\ polled' = [polled EXCEPT ![k] = FALSE]
  /\ pc' = [pc EXCEPT ![k] = "gone"] /\ chunk' = [chunk EXCEPT ![k] = 0]
  /\ UNCHANGED <<window, acked, inbox, taken, sessVars, peeks>>
-----------------------------------------------------------------------------
(* The session, and writable_packet_size. *)

\* The arms of the loop that take a message of a handle.
TakeMessage ==
  /\ sess = "loop" /\ inbox # <<>>
  /\ inbox' = Tail(inbox)
  /\ taken' = [taken EXCEPT ![Head(inbox)[1]] = Append(@, Tail(Head(inbox)))]
  /\ UNCHANGED <<window, lockq, notify, pc, polled, chunk, acked, owes, forfeit, sessVars, peeks>>

\* CHANNEL_WINDOW_ADJUST: update waits for the lock, and the loop with it.
StartUpdate ==
  /\ sess = "loop" /\ updates < MaxUpdates
  /\ lockq' = Append(lockq, Session)
  /\ sess' = "lock" /\ updates' = updates + 1
  /\ UNCHANGED <<window, notify, pc, polled, flowVars, owes, forfeit, peeks>>

\* The window is set and the guard dropped.
SetWindow(v) ==
  /\ sess = "lock" /\ Owner(Session)
  /\ window' = v /\ lockq' = Tail(lockq) /\ sess' = "notify"
  /\ UNCHANGED <<notify, pc, polled, flowVars, owes, forfeit, updates, peeks>>

\* Mutant: waiters are told only when the session finds some.
NotifyIfWaiting ==
  /\ sess = "notify" /\ sess' = "loop"
  /\ notify' = IF notify.waiters = <<>> THEN notify ELSE notify_one(notify)
  /\ UNCHANGED <<window, lockq, pc, polled, flowVars, owes, forfeit, updates, peeks>>

\* Then one writer is told.
NotifyChange ==
  /\ sess = "notify" /\ sess' = "loop"
  /\ notify' = notify_one(notify)
  /\ UNCHANGED <<window, lockq, pc, polled, flowVars, owes, forfeit, updates, peeks>>

\* The session returns; its queue is closed and nobody sets the window again.
SessionEnds ==
  /\ sess = "loop" /\ sess' = "ended"
  /\ UNCHANGED <<window, lockq, notify, pc, polled, flowVars, owes, forfeit, updates, peeks>>

StartPeek ==
  /\ peeks < MaxPeeks /\ ~\E i \in 1 .. Len(lockq) : lockq[i] = Peeker
  /\ lockq' = Append(lockq, Peeker) /\ peeks' = peeks + 1
  /\ UNCHANGED <<window, notify, pc, polled, flowVars, owes, forfeit, sessVars>>

Peek ==
  /\ Owner(Peeker) /\ lockq' = Tail(lockq)
  /\ UNCHANGED <<window, notify, pc, polled, flowVars, owes, forfeit, sessVars, peeks>>
-----------------------------------------------------------------------------
Poll(w) == \/ TryLock(w) \/ LookAtWindow(w) \/ PollWatch(w) \/ Wake(w)
           \/ SendChunk(w) \/ SendEof(w) \/ SendFails(w) \/ SendClose(w)

SessionStep == TakeMessage \/ NotifyChange \/ \E v \in Windows : SetWindow(v)

Next ==
  \/ \E w \in Writers : \/ StartWrite(w) \/ Poll(w) \/ Repoll(w)
                        \/ Leave(w) \/ Resume(w) \/ Shutdown(w) \/ DropTx(w) \/ DropCall(w)
  \/ SessionStep \/ StartUpdate \/ SessionEnds \/ StartPeek \/ Peek

Spec == Init /\ [][Next]_vars

\* The runtime runs every woken task and the session loop goes on; nothing is
\* assumed of callers: they may leave a writer for good.
FairSpec ==
  /\ Spec
  /\ \A w \in Writers : SF_vars(Poll(w))
  /\ WF_vars(TakeMessage) /\ WF_vars(\E v \in Windows : SetWindow(v))
  /\ WF_vars(NotifyChange) /\ WF_vars(Peek)

-----------------------------------------------------------------------------
(* Properties. *)

\* While the window is open, a writer that waits in Notify is not forgotten:
\* somebody has been woken, or has consumed a wake-up and will look at the
\* window, or the session is about to notify.  The one exception is a data_bytes
\* call that was dropped between its wake-up and the lock.
WakeupNotLost ==
  window > 0 /\ notify.waiters # <<>> =>
    \/ sess = "notify" \/ forfeit
    \/ \E w \in Writers : owes[w] \/ notify.watch[w] = "woken"

\* Is a write of w being polled?
Writing(w) == polled[w] /\ pc[w] \in {"write", "lock", "hold", "watch", "sleep", "send"}

\* A ChannelTx in which nobody writes, and that owns the lock or a wake-up.
Hoards(t) == /\ t \in Tx /\ ~Writing(t)
             /\ Owner(t) \/ owes[t] \/ notify.watch[t] = "woken"

\* A writer that is being polled is served while the window is open, unless a
\* ChannelTx that its owner left keeps the lock or the wake-up, or a woken call
\* was dropped.
WriterServed ==
  \A w \in Writers :
    <>[](Writing(w) /\ pc[w] # "send" /\ window > 0) =>
      <>[](forfeit \/ \E t \in Tx : Hoards(t))

\* The session comes back from update unless a ChannelTx that its owner left
\* keeps the lock.
UpdateReturns ==
  <>[](sess = "lock") => <>[](\E t \in Tx : Owner(t) /\ ~Writing(t))

\* Neither the writers nor the session wait for ever on WindowSizeRef but for a
\* ChannelTx that its owner stopped polling, or a dropped wake-up.
NobodyStranded == WriterServed /\ UpdateReturns

\* The messages of w form a line: those that the session took, then those in the
\* queue.  Place 0 of the queue stands for the last that was taken, or for the
\* start; j is the place of the message of w in front of place i.
Msg(w, j) ==
  IF j # 0 THEN Tail(inbox[j])
  ELSE IF taken[w] = <<>> THEN <<0, 0>> ELSE taken[w][Len(taken[w])]
LastBefore(w, j, i) ==
  (j = 0 \/ inbox[j][1] = w) /\ \A k \in j + 1 .. i - 1 : inbox[k][1] # w

\* m may come right behind p: bytes behind the bytes before them, the Eof behind
\* all that was reported as sent, the Close behind the Eof or without one.
Complete(w, p) == Len(p) = 2 /\ p[2] = acked[w]
Follows(w, p, m) ==
  \/ Len(p) = 2 /\ Len(m) = 2 /\ p[2] = m[1] /\ m[1] < m[2]
  \/ m = <<"eof">> /\ Complete(w, p)
  \/ m = <<"close">> /\ (p = <<"eof">> \/ Complete(w, p))

TakenInOrder(w) ==
  \A i \in 1 .. Len(taken[w]) : Follows(w, IF i = 1 THEN <<0, 0>> ELSE taken[w][i - 1], taken[w][i])
QueuedInOrder(w) ==
  \A i \in 1 .. Len(inbox) : inbox[i][1] = w =>
    \E j \in 0 .. i - 1 : LastBefore(w, j, i) /\ Follows(w, Msg(w, j), Tail(inbox[i]))
NothingMissing(w) ==
  \E j \in 0 .. Len(inbox) :
    LastBefore(w, j, Len(inbox) + 1) /\ (Len(Msg(w, j)) = 2 => Complete(w, Msg(w, j)))

\* What the writers were told is sent is in the queue or was taken, without gap
\* or repetition, and the Eof and the Close come after all of it.
WriterStreamIntact == \A w \in Writers : TakenInOrder(w) /\ QueuedInOrder(w) /\ NothingMissing(w)
=============================================================================
