------------------------ MODULE ChannelWriterProofs ------------------------
(***************************************************************************)
(* Proofs about ChannelWriter, for any number of writers and any windows,  *)
(* packet sizes and bounds: the wake-up of an open window is never lost    *)
(* (WakeInv), and what a writer was told is sent reaches the queue of the  *)
(* session whole and in order, its Eof and Close behind it (StreamInv).    *)
(***************************************************************************)
EXTENDS ChannelWriter, SequenceTheorems, TLAPS

NotifyOK(n) == n \in [permit : BOOLEAN, waiters : Seq(Writers),
                      watch : [Writers -> {"new", "waiting", "woken"}]]

\* A permit is kept only while nobody waits, and who waits is in the queue.
Orderly(n) == /\ n.permit => n.waiters = <<>>
              /\ \A w \in Writers : n.watch[w] = "waiting" => \E i \in 1 .. Len(n.waiters) : n.waiters[i] = w

\* The notifier holds a wake-up: as a permit, or somebody was woken.
Holds(n) == n.permit \/ \E w \in Writers : n.watch[w] = "woken"

\* What a writer that goes for the window has left to write.
WritersOK ==
  /\ window \in Nat
  /\ pc \in [Writers -> {"idle", "write", "lock", "hold", "watch", "sleep", "send",
                         "eof", "shut", "closing", "gone"}]
  /\ acked \in [Writers -> Nat] /\ chunk \in [Writers -> Nat] /\ owes \in [Writers -> BOOLEAN]
  /\ \A w \in Writers : pc[w] \in {"write", "lock", "hold", "watch", "sleep"} => acked[w] < Bytes

\* While the window is open and some writer waits or is about to, a wake-up is
\* with the session, the notifier or a writer, or a call was dropped with it.
WakeupSomewhere ==
  window > 0 /\ (notify.waiters # <<>> \/ \E w \in Writers : pc[w] = "watch") =>
    \/ sess = "notify" \/ forfeit \/ Holds(notify) \/ \E w \in Writers : owes[w]

WakeInv == WritersOK /\ NotifyOK(notify) /\ Orderly(notify) /\ WakeupSomewhere
-----------------------------------------------------------------------------
(* tokio::sync::Notify. *)

\* Who leaves a queue leaves everybody else in it.
LEMMA WithoutFacts ==
  ASSUME NEW s \in Seq(Writers), NEW x
  PROVE  /\ Without(s, x) \in Seq(Writers)
         /\ s = <<>> => Without(s, x) = <<>>
         /\ \A y \in Writers : y # x /\ (\E i \in 1 .. Len(s) : s[i] = y) =>
              \E j \in 1 .. Len(Without(s, x)) : Without(s, x)[j] = y
<1>1. CASE ~\E i \in 1 .. Len(s) : s[i] = x
  BY <1>1 DEF Without
<1>2. CASE \E i \in 1 .. Len(s) : s[i] = x
  <2> DEFINE i == CHOOSE j \in 1 .. Len(s) : s[j] = x
             a == SubSeq(s, 1, i - 1)
             b == SubSeq(s, i + 1, Len(s))
  <2>1. i \in 1 .. Len(s) /\ s[i] = x
    BY <1>2
  <2>2. Without(s, x) = a \o b
    BY <1>2 DEF Without
  <2> HIDE DEF i
  <2>3. /\ a \in Seq(Writers) /\ Len(a) = i - 1 /\ \A j \in 1 .. i - 1 : a[j] = s[j]
        /\ b \in Seq(Writers) /\ Len(b) = Len(s) - i /\ \A j \in 1 .. Len(s) - i : b[j] = s[i + j]
    BY <2>1
  <2> HIDE DEF a, b
  <2>4. /\ a \o b \in Seq(Writers) /\ Len(a \o b) = Len(s) - 1
        /\ \A j \in 1 .. i - 1 : (a \o b)[j] = s[j]
        /\ \A j \in i .. Len(s) - 1 : (a \o b)[j] = s[j + 1]
    <3>1. /\ a \o b \in Seq(Writers) /\ Len(a \o b) = Len(a) + Len(b)
          /\ \A j \in 1 .. Len(a) + Len(b) : (a \o b)[j] = IF j <= Len(a) THEN a[j] ELSE b[j - Len(a)]
      BY <2>3, ConcatProperties
    <3>2. Len(s) \in Nat /\ i \in Int
      BY <2>1
    <3>3. ASSUME NEW j \in 1 .. i - 1 PROVE (a \o b)[j] = s[j]
      <4>1. j \in 1 .. Len(a) + Len(b) /\ j <= Len(a)
        BY <2>1, <2>3, <3>2
      <4> QED BY <2>3, <3>1, <4>1
    <3>4. ASSUME NEW j \in i .. Len(s) - 1 PROVE (a \o b)[j] = s[j + 1]
      <4>1. /\ j \in 1 .. Len(a) + Len(b) /\ ~(j <= Len(a)) /\ j - Len(a) = j - i + 1
            /\ j - i + 1 \in 1 .. Len(s) - i /\ i + (j - i + 1) = j + 1
        BY <2>1, <2>3, <3>2
      <4> QED BY <2>3, <3>1, <4>1
    <3> QED BY <2>3, <3>1, <3>2, <3>3, <3>4
  <2>5. ASSUME NEW y \in Writers, y # x, NEW k \in 1 .. Len(s), s[k] = y
        PROVE  \E j \in 1 .. Len(a \o b) : (a \o b)[j] = y
    <3>1. CASE k < i
      <4>1. k \in 1 .. i - 1 /\ k \in 1 .. Len(a \o b)
        BY <2>1, <2>4, <3>1
      <4> QED BY <2>4, <2>5, <4>1
    <3>2. CASE k > i
      <4>1. k - 1 \in i .. Len(s) - 1 /\ k - 1 \in 1 .. Len(a \o b) /\ (k - 1) + 1 = k
        BY <2>1, <2>4, <3>2
      <4>2. (a \o b)[k - 1] = y
        BY <2>4, <2>5, <4>1
      <4> QED BY <4>1, <4>2
    <3> QED BY <2>1, <2>5, <3>1, <3>2
  <2>6. s # <<>>
    BY <2>1
  <2> QED BY <2>2, <2>4, <2>5, <2>6
<1> QED BY <1>1, <1>2

\* notify_one leaves a wake-up behind.
LEMMA NotifyOneFacts ==
  ASSUME NEW n, NotifyOK(n), Orderly(n)
  PROVE  NotifyOK(notify_one(n)) /\ Orderly(notify_one(n)) /\ Holds(notify_one(n))
<1>1. CASE n.waiters = <<>>
  BY <1>1 DEF NotifyOK, Orderly, Holds, notify_one
<1>2. CASE n.waiters # <<>>
  <2> DEFINE h == Head(n.waiters)
             t == Tail(n.waiters)
  <2>1. /\ h \in Writers /\ t \in Seq(Writers) /\ h = n.waiters[1]
        /\ Len(t) = Len(n.waiters) - 1 /\ \A i \in 1 .. Len(t) : t[i] = n.waiters[i + 1]
    BY <1>2 DEF NotifyOK
  <2>2. notify_one(n) = [permit |-> n.permit, waiters |-> t, watch |-> [n.watch EXCEPT ![h] = "woken"]]
    BY <1>2 DEF notify_one
  <2> HIDE DEF h, t
  <2>3. NotifyOK(notify_one(n)) /\ notify_one(n).watch[h] = "woken"
    BY <2>1, <2>2 DEF NotifyOK
  <2>4. ~n.permit
    BY <1>2 DEF Orderly
  <2>5. ASSUME NEW w \in Writers, notify_one(n).watch[w] = "waiting"
        PROVE  \E j \in 1 .. Len(t) : t[j] = w
    <3>1. w # h /\ n.watch[w] = "waiting"
      BY <2>1, <2>2, <2>5 DEF NotifyOK
    <3>2. PICK i \in 1 .. Len(n.waiters) : n.waiters[i] = w
      BY <3>1 DEF Orderly
    <3>3. Len(n.waiters) \in Nat
      BY DEF NotifyOK
    <3>4. i - 1 \in 1 .. Len(t) /\ (i - 1) + 1 = i
      BY <2>1, <3>1, <3>2, <3>3
    <3> QED BY <2>1, <3>2, <3>4
  <2> QED BY <2>1, <2>2, <2>3, <2>4, <2>5 DEF Orderly, Holds
<1> QED BY <1>1, <1>2

\* A dropped watch passes its wake-up on, and leaves the others as they are.
LEMMA ForgetFacts ==
  ASSUME NEW n, NotifyOK(n), Orderly(n), NEW w \in Writers
  PROVE  /\ NotifyOK(Forget(n, w)) /\ Orderly(Forget(n, w))
         /\ Holds(n) => Holds(Forget(n, w))
         /\ Forget(n, w).waiters # <<>> => n.waiters # <<>>
<1> DEFINE m == [permit |-> n.permit, waiters |-> Without(n.waiters, w),
                 watch |-> [n.watch EXCEPT ![w] = "new"]]
<1>1. n.waiters \in Seq(Writers) /\ n.watch \in [Writers -> {"new", "waiting", "woken"}]
      /\ n.permit \in BOOLEAN
  BY DEF NotifyOK
<1>2. /\ Without(n.waiters, w) \in Seq(Writers)
      /\ n.waiters = <<>> => Without(n.waiters, w) = <<>>
      /\ \A y \in Writers : y # w /\ (\E i \in 1 .. Len(n.waiters) : n.waiters[i] = y) =>
           \E j \in 1 .. Len(Without(n.waiters, w)) : Without(n.waiters, w)[j] = y
  <2> DEFINE q == n.waiters
  <2>1. q \in Seq(Writers)
    BY <1>1
  <2> HIDE DEF q
  <2>2. /\ Without(q, w) \in Seq(Writers)
        /\ q = <<>> => Without(q, w) = <<>>
        /\ \A y \in Writers : y # w /\ (\E i \in 1 .. Len(q) : q[i] = y) =>
             \E j \in 1 .. Len(Without(q, w)) : Without(q, w)[j] = y
    BY <2>1, WithoutFacts
  <2> QED BY <2>2 DEF q
<1>3. /\ m.permit = n.permit /\ m.waiters = Without(n.waiters, w)
      /\ m.watch = [n.watch EXCEPT ![w] = "new"]
  OBVIOUS
<1>4. NotifyOK(m)
  BY <1>1, <1>2 DEF NotifyOK
<1>5. Forget(n, w) = IF n.watch[w] = "woken" THEN notify_one(m) ELSE m
  BY DEF Forget
<1> HIDE DEF m
<1>6. Orderly(m)
  <2>1. m.permit => m.waiters = <<>>
    BY <1>2, <1>3 DEF Orderly
  <2>2. ASSUME NEW y \in Writers, m.watch[y] = "waiting"
        PROVE  \E i \in 1 .. Len(m.waiters) : m.waiters[i] = y
    <3>1. y # w /\ n.watch[y] = "waiting"
      BY <1>1, <1>3, <2>2
    <3> QED BY <1>2, <1>3, <3>1 DEF Orderly
  <2> QED BY <2>1, <2>2 DEF Orderly
<1>7. CASE n.watch[w] = "woken"
  <2>1. Forget(n, w) = notify_one(m)
    BY <1>5, <1>7
  <2>2. NotifyOK(Forget(n, w)) /\ Orderly(Forget(n, w)) /\ Holds(Forget(n, w))
    BY <1>4, <1>6, <2>1, NotifyOneFacts
  <2>3. Forget(n, w).waiters # <<>> => m.waiters # <<>>
    BY <2>1 DEF notify_one
  <2> QED BY <1>2, <1>3, <2>2, <2>3
<1>8. CASE n.watch[w] # "woken"
  <2>1. Forget(n, w) = m
    BY <1>5, <1>8
  <2>2. Holds(n) => Holds(m)
    BY <1>1, <1>3, <1>8 DEF Holds
  <2> QED BY <1>2, <1>3, <1>4, <1>6, <2>1, <2>2
<1> QED BY <1>7, <1>8
-----------------------------------------------------------------------------
(* The writers. *)

\* What a writer with something to write finds writable.
LEMMA WritableFacts ==
  ASSUME WritersOK, NEW w \in Writers, acked[w] < Bytes
  PROVE  /\ Writable(w) \in Nat /\ window - Writable(w) \in Nat
         /\ Writable(w) = 0 => window = 0
<1>1. MaxPacket \in Nat /\ MaxPacket > 0 /\ Bytes \in Nat
  BY WriterAssumption
<1>2. window \in Nat /\ acked[w] \in Nat
  BY DEF WritersOK
<1> QED BY <1>1, <1>2 DEF Writable, Least

\* Every step keeps the writers' own state well formed.
LEMMA WritersStep ==
  ASSUME WritersOK, [Next]_vars
  PROVE  WritersOK'
<1> USE DEF WritersOK
<1>0. Bytes \in Nat /\ Windows \subseteq Nat
  BY WriterAssumption
<1>1. ASSUME NEW w \in Writers, StartWrite(w) \/ TryLock(w) PROVE WritersOK'
  BY <1>1 DEF StartWrite, TryLock, flowVars
<1>2. ASSUME NEW w \in Writers, LookAtWindow(w) PROVE WritersOK'
  <2>1. acked[w] < Bytes
    BY <1>2 DEF LookAtWindow
  <2>2. Writable(w) \in Nat /\ window - Writable(w) \in Nat
    BY <2>1, WritableFacts
  <2>3. acked' = acked /\ owes' = [owes EXCEPT ![w] = FALSE]
    BY <1>2 DEF LookAtWindow
  <2>4. \/ /\ window' = window - Writable(w) /\ chunk' = [chunk EXCEPT ![w] = Writable(w)]
           /\ pc' = [pc EXCEPT ![w] = "send"]
        \/ window' = window /\ chunk' = chunk /\ pc' = [pc EXCEPT ![w] = "watch"]
    BY <1>2 DEF LookAtWindow
  <2>5. window' \in Nat /\ chunk' \in [Writers -> Nat]
    BY <2>2, <2>4
  <2>6. owes' \in [Writers -> BOOLEAN]
    BY <2>3
  <2> QED BY <2>1, <2>3, <2>4, <2>5, <2>6
<1>3. ASSUME NEW w \in Writers, PollWatch(w) PROVE WritersOK'
  <2>1. /\ \/ pc' = [pc EXCEPT ![w] = "write"] /\ owes' = [owes EXCEPT ![w] = TRUE]
           \/ pc' = [pc EXCEPT ![w] = "sleep"] /\ owes' = owes
        /\ acked' = acked /\ chunk' = chunk /\ window' = window /\ pc[w] = "watch"
    BY <1>3 DEF PollWatch, flowVars
  <2> QED BY <2>1
<1>4. ASSUME NEW w \in Writers, Wake(w) \/ Repoll(w) PROVE WritersOK'
  <2>1. /\ pc' = [pc EXCEPT ![w] = "write"]
        /\ owes' = [owes EXCEPT ![w] = TRUE] \/ owes' = owes
        /\ acked' = acked /\ chunk' = chunk /\ window' = window /\ pc[w] = "sleep"
    BY <1>4 DEF Wake, Repoll, flowVars
  <2> QED BY <2>1
<1>5. ASSUME NEW w \in Writers, SendChunk(w) PROVE WritersOK'
  <2>1. /\ acked' = [acked EXCEPT ![w] = @ + chunk[w]] /\ chunk' = [chunk EXCEPT ![w] = 0]
        /\ \/ acked'[w] < Bytes /\ pc' = [pc EXCEPT ![w] = "write"]
           \/ pc' = [pc EXCEPT ![w] = "gone"]
           \/ pc' = [pc EXCEPT ![w] = "idle"]
        /\ owes' = owes /\ window' = window
    BY <1>5 DEF SendChunk
  <2> QED BY <2>1
<1>6. ASSUME NEW w \in Writers, SendFails(w) PROVE WritersOK'
  BY <1>6 DEF SendFails
<1>7. ASSUME NEW w \in Writers, Leave(w) \/ Resume(w) PROVE WritersOK'
  <2>1. /\ pc' = pc \/ (pc[w] = "sleep" /\ pc' = [pc EXCEPT ![w] = "write"])
        /\ owes' = owes /\ acked' = acked /\ chunk' = chunk /\ window' = window
    BY <1>7 DEF Leave, Resume, flowVars
  <2> QED BY <2>1
<1>8. ASSUME NEW w \in Writers, Shutdown(w) \/ SendEof(w) \/ SendClose(w) PROVE WritersOK'
  <2>1. /\ \E to \in {"eof", "shut", "gone"} : pc' = [pc EXCEPT ![w] = to]
        /\ chunk' = chunk \/ chunk' = [chunk EXCEPT ![w] = 0]
        /\ owes' = owes /\ acked' = acked /\ window' = window
    BY <1>8 DEF Shutdown, SendEof, SendClose
  <2> QED BY <2>1
<1>9. ASSUME NEW w \in Writers, DropTx(w) \/ DropCall(w) PROVE WritersOK'
  <2>1. /\ pc' = [pc EXCEPT ![w] = "gone"] \/ pc' = [pc EXCEPT ![w] = "closing"]
        /\ chunk' = [chunk EXCEPT ![w] = 0] /\ owes' = [owes EXCEPT ![w] = FALSE]
        /\ window' = window /\ acked' = acked
    BY <1>9 DEF DropTx, DropCall
  <2> QED BY <2>1
<1>10. CASE TakeMessage \/ NotifyChange \/ StartUpdate \/ SessionEnds \/ StartPeek \/ Peek
  BY <1>10 DEF TakeMessage, NotifyChange, StartUpdate, SessionEnds, StartPeek, Peek, flowVars
<1>11. ASSUME NEW v \in Windows, SetWindow(v) PROVE WritersOK'
  BY <1>0, <1>11 DEF SetWindow, flowVars
<1>12. CASE UNCHANGED vars
  BY <1>12 DEF vars
<1> QED BY <1>1, <1>2, <1>3, <1>4, <1>5, <1>6, <1>7, <1>8, <1>9, <1>10, <1>11, <1>12
        DEF Next, Poll, SessionStep

\* A step that wakes nobody, and after which no further writer watches and the
\* window is not wider.
LEMMA QuietWakeup ==
  ASSUME WritersOK, WritersOK', NotifyOK(notify), Orderly(notify), WakeupSomewhere, notify' = notify,
         forfeit' = forfeit, owes' = owes, window' = window,
         sess' = sess \/ sess # "notify",
         \A w \in Writers : pc'[w] = "watch" => pc[w] = "watch"
  PROVE  NotifyOK(notify') /\ Orderly(notify') /\ WakeupSomewhere'
<1>1. NotifyOK(notify') /\ Orderly(notify')
  BY Zenon
<1>2. Holds(notify)' <=> Holds(notify)
  BY Zenon
<1> QED BY <1>1, <1>2 DEF WakeupSomewhere

\* The step of the session and of a writer that leaves notify one.
LEMMA NotifyWakeup ==
  ASSUME NotifyOK(notify), Orderly(notify), notify' = notify_one(notify)
  PROVE  NotifyOK(notify') /\ Orderly(notify') /\ WakeupSomewhere'
BY NotifyOneFacts DEF WakeupSomewhere

\* The poll of a watch.
LEMMA PollWakeup ==
  ASSUME WritersOK, NotifyOK(notify), Orderly(notify), WakeupSomewhere,
         NEW w \in Writers, PollWatch(w)
  PROVE  NotifyOK(notify') /\ Orderly(notify') /\ WakeupSomewhere'
<1>1. notify.waiters \in Seq(Writers) /\ notify.watch \in [Writers -> {"new", "waiting", "woken"}]
      /\ notify.permit \in BOOLEAN
  BY DEF NotifyOK
<1>2. CASE Ready(w)
  <2>1. /\ notify' = [permit |-> notify.permit /\ notify.watch[w] # "new",
                      waiters |-> notify.waiters,
                      watch |-> [notify.watch EXCEPT ![w] = "new"]]
        /\ owes' = [owes EXCEPT ![w] = TRUE]
    BY <1>2 DEF PollWatch
  <2>2. owes'[w]
    BY <2>1 DEF WritersOK
  <2>3. NotifyOK(notify')
    BY <1>1, <2>1 DEF NotifyOK
  <2>4. Orderly(notify')
    BY <1>1, <2>1 DEF Orderly
  <2> QED BY <2>2, <2>3, <2>4 DEF WakeupSomewhere
<1>3. CASE ~Ready(w)
  <2> DEFINE q == IF notify.watch[w] = "new" THEN Append(notify.waiters, w) ELSE notify.waiters
  <2>1. /\ notify' = [permit |-> notify.permit, waiters |-> q,
                      watch |-> [notify.watch EXCEPT ![w] = "waiting"]]
        /\ owes' = owes /\ window' = window /\ sess' = sess /\ forfeit' = forfeit
        /\ pc[w] = "watch"
    BY <1>3 DEF PollWatch, sessVars
  <2>2. q \in Seq(Writers) /\ Len(q) >= Len(notify.waiters)
        /\ \A i \in 1 .. Len(notify.waiters) : q[i] = notify.waiters[i]
    BY <1>1
  <2>3. notify.watch[w] # "woken" /\ (notify.watch[w] = "new" => ~notify.permit)
    BY <1>3 DEF Ready
  <2>4. \E i \in 1 .. Len(q) : q[i] = w
    <3>1. CASE notify.watch[w] = "new"
      <4>1. q = Append(notify.waiters, w)
        BY <3>1
      <4>2. Len(q) \in 1 .. Len(q) /\ q[Len(q)] = w
        BY <1>1, <4>1
      <4> QED BY <4>2
    <3>2. CASE notify.watch[w] # "new"
      <4>1. notify.watch[w] = "waiting" /\ q = notify.waiters
        BY <1>1, <2>3, <3>2
      <4> QED BY <4>1 DEF Orderly
    <3> QED BY <3>1, <3>2
  <2>5. ~notify.permit
    <3>1. notify.watch[w] # "new" => notify.watch[w] = "waiting"
      BY <1>1, <2>3
    <3>2. notify.watch[w] = "waiting" => notify.waiters # <<>>
      BY <1>1 DEF Orderly
    <3> QED BY <2>3, <3>1, <3>2 DEF Orderly
  <2> HIDE DEF q
  <2>6. NotifyOK(notify')
    BY <1>1, <2>1, <2>2 DEF NotifyOK
  <2>7. Orderly(notify')
    <3>1. ~notify'.permit /\ notify'.waiters = q
      BY <2>1, <2>5
    <3>2. ASSUME NEW y \in Writers, notify'.watch[y] = "waiting"
          PROVE  \E i \in 1 .. Len(q) : q[i] = y
      <4>1. CASE y = w
        BY <2>4, <4>1
      <4>2. CASE y # w
        <5>1. notify.watch[y] = "waiting"
          BY <1>1, <2>1, <3>2, <4>2
        <5>2. PICK i \in 1 .. Len(notify.waiters) : notify.waiters[i] = y
          BY <5>1 DEF Orderly
        <5>3. Len(q) \in Nat /\ Len(notify.waiters) \in Nat
          BY <1>1, <2>2
        <5>4. i \in 1 .. Len(q)
          BY <2>2, <5>2, <5>3
        <5> QED BY <2>2, <5>2, <5>4
      <4> QED BY <4>1, <4>2
    <3> QED BY <3>1, <3>2 DEF Orderly
  <2>8. Holds(notify) => Holds(notify')
    BY <1>1, <2>1, <2>3 DEF Holds
  <2>9. WakeupSomewhere'
    BY <2>1, <2>8 DEF WakeupSomewhere
  <2> QED BY <2>6, <2>7, <2>9
<1> QED BY <1>2, <1>3

\* Every step keeps the wake-up somewhere.
LEMMA WakeupStep ==
  ASSUME WakeInv, WritersOK', [Next]_vars
  PROVE  NotifyOK(notify') /\ Orderly(notify') /\ WakeupSomewhere'
<1> DEFINE Goal == NotifyOK(notify') /\ Orderly(notify') /\ WakeupSomewhere'
<1> USE DEF WakeInv
<1>1. ASSUME NEW w \in Writers,
             \/ StartWrite(w) \/ TryLock(w) \/ Repoll(w) \/ SendChunk(w) \/ SendFails(w)
             \/ Leave(w) \/ Resume(w) \/ Shutdown(w) \/ SendEof(w) \/ SendClose(w)
      PROVE  Goal
  <2>1. /\ notify' = notify /\ forfeit' = forfeit /\ owes' = owes /\ window' = window /\ sess' = sess
        /\ \A x \in Writers : pc'[x] = "watch" => pc[x] = "watch"
    BY <1>1 DEF WritersOK, StartWrite, TryLock, Repoll, SendChunk, SendFails, Leave, Resume,
                Shutdown, SendEof, SendClose, sessVars
  <2> QED BY <2>1, QuietWakeup
<1>2. ASSUME NEW w \in Writers, LookAtWindow(w) PROVE Goal
  <2>1. acked[w] < Bytes
    BY <1>2 DEF LookAtWindow, WritersOK
  <2>2. Writable(w) \in Nat /\ window - Writable(w) \in Nat /\ (Writable(w) = 0 => window = 0)
    BY <2>1, WritableFacts
  <2>3. CASE Writable(w) > 0 /\ window' > 0
    <3>1. notify' = notify_one(notify)
      BY <1>2, <2>3 DEF LookAtWindow, PassedOn
    <3> QED BY <3>1, NotifyWakeup
  <2>4. CASE ~(Writable(w) > 0 /\ window' > 0)
    <3>1. notify' = notify /\ ~(window' > 0)
      BY <1>2, <2>2, <2>4 DEF LookAtWindow, PassedOn
    <3>2. WakeupSomewhere'
      BY <3>1 DEF WakeupSomewhere
    <3>3. NotifyOK(notify') /\ Orderly(notify')
      BY <3>1, Zenon
    <3> QED BY <3>2, <3>3
  <2> QED BY <2>3, <2>4
<1>3. ASSUME NEW w \in Writers, PollWatch(w) PROVE Goal
  BY <1>3, PollWakeup
<1>4. ASSUME NEW w \in Writers, Wake(w) PROVE Goal
  <2>1. CASE w \in Calls
    <3>1. /\ notify' = [permit |-> notify.permit, waiters |-> notify.waiters,
                        watch |-> [notify.watch EXCEPT ![w] = "new"]]
          /\ owes' = [owes EXCEPT ![w] = TRUE]
      BY <1>4, <2>1 DEF Wake
    <3>2. owes'[w]
      BY <3>1 DEF WritersOK
    <3>3. NotifyOK(notify') /\ Orderly(notify')
      BY <3>1 DEF NotifyOK, Orderly
    <3> QED BY <3>2, <3>3 DEF WakeupSomewhere
  <2>2. CASE w \notin Calls
    <3>1. /\ notify' = notify /\ forfeit' = forfeit /\ owes' = owes /\ window' = window /\ sess' = sess
          /\ \A x \in Writers : pc'[x] = "watch" => pc[x] = "watch"
      BY <1>4, <2>2 DEF Wake, WritersOK, sessVars
    <3> QED BY <3>1, QuietWakeup
  <2> QED BY <2>1, <2>2
<1>5. ASSUME NEW w \in Writers, DropTx(w) PROVE Goal
  <2>1. notify' = Forget(notify_one(notify), w)
    BY <1>5 DEF DropTx
  <2>2. NotifyOK(notify_one(notify)) /\ Orderly(notify_one(notify)) /\ Holds(notify_one(notify))
    BY NotifyOneFacts
  <2>3. NotifyOK(notify') /\ Orderly(notify') /\ Holds(notify')
    BY <2>1, <2>2, ForgetFacts
  <2> QED BY <2>3 DEF WakeupSomewhere
<1>6. ASSUME NEW w \in Writers, DropCall(w) PROVE Goal
  <2>1. /\ notify' = Forget(notify, w) /\ forfeit' = (forfeit \/ owes[w])
        /\ owes' = [owes EXCEPT ![w] = FALSE] /\ window' = window /\ sess' = sess
        /\ \A x \in Writers : pc'[x] = "watch" => pc[x] = "watch"
    BY <1>6 DEF DropCall, sessVars, WritersOK
  <2>2. /\ NotifyOK(notify') /\ Orderly(notify') /\ (Holds(notify) => Holds(notify'))
        /\ notify'.waiters # <<>> => notify.waiters # <<>>
    BY <2>1, ForgetFacts
  <2>3. (\E x \in Writers : owes[x]) => forfeit' \/ \E x \in Writers : owes'[x]
    BY <2>1 DEF WritersOK
  <2>4. forfeit => forfeit'
    BY <2>1
  <2> QED BY <2>1, <2>2, <2>3, <2>4 DEF WakeupSomewhere
<1>7. CASE TakeMessage \/ StartUpdate \/ SessionEnds \/ StartPeek \/ Peek
  <2>1. /\ notify' = notify /\ forfeit' = forfeit /\ owes' = owes /\ window' = window
        /\ (sess' = sess \/ sess # "notify") /\ pc' = pc
    BY <1>7 DEF TakeMessage, StartUpdate, SessionEnds, StartPeek, Peek, sessVars
  <2> QED BY <2>1, QuietWakeup
<1>8. ASSUME NEW v \in Windows, SetWindow(v) PROVE Goal
  <2>1. notify' = notify /\ sess' = "notify"
    BY <1>8 DEF SetWindow
  <2>2. NotifyOK(notify') /\ Orderly(notify')
    BY <2>1, Zenon
  <2> QED BY <2>1, <2>2 DEF WakeupSomewhere
<1>9. CASE NotifyChange
  BY <1>9, NotifyWakeup DEF NotifyChange
<1>10. CASE UNCHANGED vars
  BY <1>10, QuietWakeup DEF vars
<1> QED BY <1>1, <1>2, <1>3, <1>4, <1>5, <1>6, <1>7, <1>8, <1>9, <1>10
        DEF Next, Poll, SessionStep

\* The wake-up of an open window is never lost, for any number of writers that
\* are interrupted, shut down and dropped at any await: only a data_bytes call
\* dropped between its wake-up and the lock takes one along.
THEOREM WakeupNeverLost == Spec => []WakeupNotLost
<1>1. Init => WakeInv
  <2> SUFFICES ASSUME Init PROVE WakeInv
    OBVIOUS
  <2>1. WritersOK
    BY WriterAssumption DEF Init, WritersOK
  <2>2. notify = [permit |-> FALSE, waiters |-> <<>>, watch |-> [w \in Writers |-> "new"]]
        /\ \A w \in Writers : pc[w] # "watch"
    BY DEF Init
  <2>3. NotifyOK(notify) /\ Orderly(notify)
    BY <2>2 DEF NotifyOK, Orderly
  <2>4. WakeupSomewhere
    BY <2>2 DEF WakeupSomewhere
  <2> QED BY <2>1, <2>3, <2>4 DEF WakeInv
<1>2. WakeInv /\ [Next]_vars => WakeInv'
  BY WritersStep, WakeupStep DEF WakeInv
<1>3. WakeInv => WakeupNotLost
  <2> SUFFICES ASSUME WakeInv, window > 0, notify.waiters # <<>> PROVE WakeupNotLost
    BY DEF WakeupNotLost
  <2>1. ~notify.permit
    BY DEF WakeInv, Orderly
  <2> QED BY <2>1 DEF WakeInv, WakeupSomewhere, Holds, WakeupNotLost
<1> QED BY <1>1, <1>2, <1>3, PTL DEF Spec
-----------------------------------------------------------------------------
(* The streams of the writers. *)

\* What the session is sent, without and with its writer.
Messages == (Nat \X Nat) \cup {<<"eof">>, <<"close">>}
Posted == (Writers \X Nat \X Nat) \cup (Writers \X {"eof", "close"})

\* A message of w that the session took or will take.
InLine(w, m) ==
  \/ \E i \in 1 .. Len(inbox) : inbox[i][1] = w /\ Tail(inbox[i]) = m
  \/ \E i \in 1 .. Len(taken[w]) : taken[w][i] = m

\* A chunk that waits for a slot is not empty; Eof and Close are sent by a writer
\* that is at its end.
LineOK ==
  /\ inbox \in Seq(Posted) /\ taken \in [Writers -> Seq(Messages)]
  /\ \A w \in Writers :
       /\ pc[w] = "send" => chunk[w] > 0
       /\ pc[w] # "gone" => ~InLine(w, <<"close">>)
       /\ pc[w] \notin {"shut", "closing", "gone"} => ~InLine(w, <<"eof">>)

StreamInv == WritersOK /\ LineOK /\ WriterStreamIntact

\* The shapes of messages.
LEMMA Shapes ==
  /\ \A a, b \in Nat : <<a, b>> \in Messages /\ Len(<<a, b>>) = 2 /\ <<a, b>>[1] = a /\ <<a, b>>[2] = b
                       /\ <<a, b>> # <<"eof">> /\ <<a, b>> # <<"close">>
  /\ Len(<<"eof">>) = 1 /\ Len(<<"close">>) = 1 /\ <<"eof">> # <<"close">>
  /\ <<"eof">> \in Messages /\ <<"close">> \in Messages
  /\ \A m \in Messages : Len(m) = 2 \/ m = <<"eof">> \/ m = <<"close">>
<1>1. ASSUME NEW a \in Nat, NEW b \in Nat
      PROVE  <<a, b>> \in Messages /\ Len(<<a, b>>) = 2 /\ <<a, b>>[1] = a /\ <<a, b>>[2] = b
  BY DEF Messages
<1>2. Len(<<"eof">>) = 1 /\ Len(<<"close">>) = 1
  OBVIOUS
<1>3. <<"eof">>[1] = "eof" /\ <<"close">>[1] = "close"
  OBVIOUS
<1>4. <<"eof">> # <<"close">>
  BY <1>3
<1>5. <<"eof">> \in Messages /\ <<"close">> \in Messages
  BY DEF Messages
<1>6. ASSUME NEW m \in Messages PROVE Len(m) = 2 \/ m = <<"eof">> \/ m = <<"close">>
  BY DEF Messages
<1>7. ASSUME NEW a \in Nat, NEW b \in Nat PROVE <<a, b>> # <<"eof">> /\ <<a, b>> # <<"close">>
  BY <1>1, <1>2
<1> QED BY <1>1, <1>2, <1>4, <1>5, <1>6, <1>7

LEMMA Posting ==
  ASSUME NEW w \in Writers
  PROVE  /\ \A a, b \in Nat : <<w, a, b>> \in Posted /\ <<w, a, b>>[1] = w /\ Tail(<<w, a, b>>) = <<a, b>>
         /\ \A x \in {"eof", "close"} : <<w, x>> \in Posted /\ <<w, x>>[1] = w /\ Tail(<<w, x>>) = <<x>>
<1>1. ASSUME NEW a \in Nat, NEW b \in Nat
      PROVE  <<w, a, b>> \in Posted /\ <<w, a, b>>[1] = w /\ Tail(<<w, a, b>>) = <<a, b>>
  <2>1. <<w, a, b>> \in Posted /\ <<w, a, b>>[1] = w
    BY DEF Posted
  <2>2. Tail(<<w, a, b>>) = <<a, b>>
    OBVIOUS
  <2> QED BY <2>1, <2>2
<1>2. ASSUME NEW x \in {"eof", "close"}
      PROVE  <<w, x>> \in Posted /\ <<w, x>>[1] = w /\ Tail(<<w, x>>) = <<x>>
  <2>1. <<w, x>> \in Posted /\ <<w, x>>[1] = w
    BY DEF Posted
  <2>2. Tail(<<w, x>>) = <<x>>
    OBVIOUS
  <2> QED BY <2>1, <2>2
<1> QED BY <1>1, <1>2

LEMMA Opening ==
  ASSUME NEW m \in Posted
  PROVE  m[1] \in Writers /\ Tail(m) \in Messages
<1>1. CASE m \in Writers \X Nat \X Nat
  <2>1. PICK w \in Writers, a \in Nat, b \in Nat : m = <<w, a, b>>
    BY <1>1
  <2>2. m[1] = w /\ Tail(m) = <<a, b>>
    BY <2>1, Posting
  <2> QED BY <2>2, Shapes
<1>2. CASE m \in Writers \X {"eof", "close"}
  <2>1. PICK w \in Writers, x \in {"eof", "close"} : m = <<w, x>>
    BY <1>2
  <2>2. m[1] = w /\ Tail(m) = <<x>>
    BY <2>1, Posting
  <2> QED BY <2>2, Shapes
<1> QED BY <1>1, <1>2 DEF Posted

\* A step that posts nothing, takes nothing and reports nothing.
LEMMA QuietStream ==
  ASSUME StreamInv, WritersOK', UNCHANGED <<inbox, taken, acked>>,
         \A w \in Writers : /\ pc'[w] = "send" => chunk'[w] > 0
                            /\ pc'[w] # "gone" => pc[w] # "gone"
                            /\ pc'[w] \notin {"shut", "closing", "gone"} => pc[w] \notin {"shut", "closing", "gone"}
  PROVE  StreamInv'
<1>1. \A w \in Writers, m \in Messages : InLine(w, m)' <=> InLine(w, m)
  BY DEF InLine
<1>2. <<"eof">> \in Messages /\ <<"close">> \in Messages
  BY Shapes
<1>3. LineOK'
  BY <1>1, <1>2 DEF StreamInv, LineOK
<1>4. WriterStreamIntact'
  <2>0. inbox' = inbox /\ taken' = taken /\ acked' = acked
    OBVIOUS
  <2>1. ASSUME NEW w \in Writers PROVE TakenInOrder(w)' <=> TakenInOrder(w)
    BY <2>0 DEF TakenInOrder, Follows, Complete
  <2>2. ASSUME NEW w \in Writers PROVE QueuedInOrder(w)' <=> QueuedInOrder(w)
    BY <2>0 DEF QueuedInOrder, LastBefore, Msg, Follows, Complete
  <2>3. ASSUME NEW w \in Writers PROVE NothingMissing(w)' <=> NothingMissing(w)
    BY <2>0 DEF NothingMissing, LastBefore, Msg, Complete
  <2> QED BY <2>1, <2>2, <2>3 DEF StreamInv, WriterStreamIntact
<1> QED BY <1>3, <1>4 DEF StreamInv

\* The order of bytes in a line without Eof and Close does not depend on how
\* many were reported as sent.
LEMMA BytesFollow ==
  ASSUME NEW w, NEW p, NEW m, Follows(w, p, m), acked'[w] = acked[w] \/ (m # <<"eof">> /\ m # <<"close">>)
  PROVE  Follows(w, p, m)'
BY DEF Follows, Complete

\* What stands in front of a place is a message of the line, or the start.
LEMMA MsgFacts ==
  ASSUME LineOK, NEW w \in Writers, NEW j \in 0 .. Len(inbox), j = 0 \/ inbox[j][1] = w
  PROVE  Msg(w, j) \in Messages /\ (InLine(w, Msg(w, j)) \/ Msg(w, j) = <<0, 0>>)
<1>1. taken[w] \in Seq(Messages) /\ inbox \in Seq(Posted) /\ Len(inbox) \in Nat
  BY DEF LineOK
<1>2. CASE j # 0
  <2>1. j \in 1 .. Len(inbox) /\ inbox[j] \in Posted /\ inbox[j][1] = w /\ Msg(w, j) = Tail(inbox[j])
    BY <1>1, <1>2 DEF Msg
  <2> QED BY <2>1, Opening DEF InLine
<1>3. CASE j = 0 /\ taken[w] = <<>>
  BY <1>3, Shapes DEF Msg
<1>4. CASE j = 0 /\ taken[w] # <<>>
  <2>1. Msg(w, j) = taken[w][Len(taken[w])]
    BY <1>4 DEF Msg
  <2>2. Len(taken[w]) \in 1 .. Len(taken[w]) /\ taken[w][Len(taken[w])] \in Messages
    BY <1>1, <1>4
  <2> QED BY <2>1, <2>2 DEF InLine
<1> QED BY <1>2, <1>3, <1>4

\* Posting m, a message of w, behind what is in the queue.
LEMMA PostStream ==
  ASSUME LineOK, WriterStreamIntact, NEW w \in Writers, NEW m \in Posted, m[1] = w,
         inbox' = Append(inbox, m), taken' = taken,
         \A v \in Writers : v # w => acked'[v] = acked[v],
         acked'[w] = acked[w] \/ (~InLine(w, <<"eof">>) /\ ~InLine(w, <<"close">>)),
         Len(Tail(m)) = 2 => Complete(w, Tail(m))',
         \A p \in Messages : (InLine(w, p) \/ p = <<0, 0>>) /\ (Len(p) = 2 => Complete(w, p)) =>
           Follows(w, p, Tail(m))'
  PROVE  /\ WriterStreamIntact' /\ inbox' \in Seq(Posted)
         /\ \A v \in Writers, x \in Messages : InLine(v, x)' => InLine(v, x) \/ (v = w /\ x = Tail(m))
<1>0. PICK n \in Nat : n = Len(inbox)
  BY DEF LineOK
<1>1. /\ n \in Nat /\ Len(inbox') = n + 1 /\ inbox' \in Seq(Posted)
      /\ \A i \in 1 .. n : inbox'[i] = inbox[i]
      /\ inbox'[n + 1] = m
  BY <1>0 DEF LineOK
<1>2. ASSUME NEW v \in Writers, NEW j \in 0 .. n PROVE Msg(v, j)' = Msg(v, j)
  <2>1. CASE j = 0
    BY <2>1 DEF Msg
  <2>2. CASE j # 0
    <3>1. inbox'[j] = inbox[j]
      BY <1>1, <2>2
    <3> QED BY <2>2, <3>1 DEF Msg
  <2> QED BY <2>1, <2>2
<1>3. ASSUME NEW v \in Writers, NEW i \in 1 .. n + 1, NEW j \in 0 .. i - 1, LastBefore(v, j, i)
      PROVE  LastBefore(v, j, i)'
  <2>1. j = 0 \/ inbox'[j] = inbox[j]
    BY <1>1
  <2>2. \A k \in j + 1 .. i - 1 : inbox'[k] = inbox[k]
    BY <1>1
  <2> QED BY <1>3, <2>1, <2>2 DEF LastBefore
\* What followed still does.
<1>4. ASSUME NEW v \in Writers, NEW p, NEW x, InLine(v, x), Follows(v, p, x) PROVE Follows(v, p, x)'
  <2>1. acked'[v] = acked[v] \/ (x # <<"eof">> /\ x # <<"close">>)
    BY <1>4
  <2> QED BY <1>4, <2>1, BytesFollow
<1>5. ASSUME NEW v \in Writers PROVE TakenInOrder(v)'
  <2> SUFFICES ASSUME NEW i \in 1 .. Len(taken[v])
               PROVE  Follows(v, IF i = 1 THEN <<0, 0>> ELSE taken[v][i - 1], taken[v][i])'
    BY DEF TakenInOrder
  <2> DEFINE p == IF i = 1 THEN <<0, 0>> ELSE taken[v][i - 1]
  <2>1. Follows(v, p, taken[v][i]) /\ InLine(v, taken[v][i])
    BY DEF WriterStreamIntact, TakenInOrder, InLine
  <2>2. p' = p /\ taken'[v][i] = taken[v][i]
    OBVIOUS
  <2> HIDE DEF p
  <2>3. Follows(v, p, taken[v][i])'
    BY <1>4, <2>1, <2>2 DEF Follows, Complete
  <2> QED BY <2>3 DEF p
<1>6. ASSUME NEW v \in Writers PROVE QueuedInOrder(v)'
  <2> SUFFICES ASSUME NEW i \in 1 .. n + 1, inbox'[i][1] = v
               PROVE  \E j \in 0 .. i - 1 : LastBefore(v, j, i)' /\ Follows(v, Msg(v, j), Tail(inbox[i]))'
    BY <1>1 DEF QueuedInOrder
  <2>1. CASE i \in 1 .. n
    <3>1. inbox'[i] = inbox[i]
      BY <1>1, <2>1
    <3>2. PICK j \in 0 .. i - 1 : LastBefore(v, j, i) /\ Follows(v, Msg(v, j), Tail(inbox[i]))
      BY <1>0, <2>1, <3>1 DEF WriterStreamIntact, QueuedInOrder
    <3>3. InLine(v, Tail(inbox[i]))
      BY <1>0, <2>1, <3>1 DEF InLine
    <3> DEFINE p == Msg(v, j)
               x == Tail(inbox[i])
    <3>4. p' = p /\ x' = x
      <4>1. j \in 0 .. n
        BY <1>1, <2>1
      <4> QED BY <1>2, <3>1, <4>1
    <3>5. LastBefore(v, j, i)'
      BY <1>3, <3>2
    <3> HIDE DEF p, x
    <3>6. Follows(v, p, x)'
      BY <1>4, <3>2, <3>3, <3>4 DEF p, x, Follows, Complete
    <3> QED BY <3>5, <3>6 DEF p, x
  <2>2. CASE i = n + 1
    <3>1. v = w /\ inbox'[i] = m
      BY <1>1, <2>2
    <3>2. PICK j \in 0 .. n : LastBefore(w, j, n + 1) /\ (Len(Msg(w, j)) = 2 => Complete(w, Msg(w, j)))
      BY <1>0 DEF WriterStreamIntact, NothingMissing
    <3>3. Follows(w, Msg(w, j), Tail(m))'
      <4>1. PICK p \in Messages : p = Msg(w, j) /\ (InLine(w, p) \/ p = <<0, 0>>)
        BY <1>0, <3>2, MsgFacts DEF LastBefore
      <4>2. Msg(w, j)' = p
        BY <1>2, <3>2, <4>1
      <4>3. Follows(w, p, Tail(m))'
        BY <3>2, <4>1
      <4> QED BY <4>2, <4>3 DEF Follows, Complete
    <3>4. LastBefore(w, j, n + 1)' /\ j \in 0 .. (n + 1) - 1
      BY <1>1, <1>3, <3>2
    <3> QED BY <2>2, <3>1, <3>3, <3>4
  <2> QED BY <1>1, <2>1, <2>2
<1>7. ASSUME NEW v \in Writers PROVE NothingMissing(v)'
  <2>1. CASE v = w
    <3>1. n + 1 \in 0 .. Len(inbox') /\ n + 1 # 0 /\ Msg(w, n + 1)' = Tail(m)
      BY <1>1 DEF Msg
    <3>2. LastBefore(w, n + 1, Len(inbox) + 1)'
      BY <1>1 DEF LastBefore
    <3>3. Len(Msg(w, n + 1)') = 2 => Complete(w, Msg(w, n + 1))'
      BY <3>1 DEF Complete
    <3> QED BY <2>1, <3>1, <3>2, <3>3 DEF NothingMissing
  <2>2. CASE v # w
    <3>1. PICK j \in 0 .. n : LastBefore(v, j, n + 1) /\ (Len(Msg(v, j)) = 2 => Complete(v, Msg(v, j)))
      BY <1>0 DEF WriterStreamIntact, NothingMissing
    <3>2. Msg(v, j)' = Msg(v, j) /\ j \in 0 .. Len(inbox')
      BY <1>1, <1>2
    <3>3. LastBefore(v, j, Len(inbox) + 1)'
      <4>1. LastBefore(v, j, n + 1)' /\ inbox'[n + 1][1] # v
        BY <1>1, <1>3, <2>2, <3>1
      <4> QED BY <1>1, <4>1 DEF LastBefore
    <3>4. Len(Msg(v, j)') = 2 => Complete(v, Msg(v, j))'
      BY <2>2, <3>1, <3>2 DEF Complete
    <3> QED BY <3>2, <3>3, <3>4 DEF NothingMissing
  <2> QED BY <2>1, <2>2
<1>8. ASSUME NEW v \in Writers, NEW x \in Messages, InLine(v, x)'
      PROVE  InLine(v, x) \/ (v = w /\ x = Tail(m))
  BY <1>0, <1>1, <1>8 DEF InLine
<1> QED BY <1>1, <1>5, <1>6, <1>7, <1>8 DEF WriterStreamIntact

\* The session takes the first message.
LEMMA TakeStream ==
  ASSUME StreamInv, WritersOK', TakeMessage
  PROVE  StreamInv'
<1> DEFINE h == inbox[1]
<1>0. /\ inbox \in Seq(Posted) /\ inbox # <<>> /\ taken \in [Writers -> Seq(Messages)]
      /\ inbox' = Tail(inbox) /\ Head(inbox) = h
      /\ taken' = [taken EXCEPT ![Head(inbox)[1]] = Append(@, Tail(Head(inbox)))]
      /\ UNCHANGED <<acked, pc, chunk>>
  BY DEF StreamInv, LineOK, TakeMessage
<1>1. PICK n \in Nat : n = Len(inbox)
  BY <1>0
<1>2. /\ n >= 1 /\ Len(inbox') = n - 1 /\ inbox' \in Seq(Posted) /\ h \in Posted
      /\ \A i \in 1 .. n - 1 : inbox'[i] = inbox[i + 1]
  BY <1>0, <1>1
<1>3. PICK w \in Writers, x \in Messages : w = h[1] /\ x = Tail(h)
  BY <1>2, Opening
<1>4. /\ taken'[w] = Append(taken[w], x) /\ taken' \in [Writers -> Seq(Messages)]
      /\ \A v \in Writers : v # w => taken'[v] = taken[v]
  BY <1>0, <1>3
<1>5. PICK l \in Nat : l = Len(taken[w])
  BY <1>0
<1>6. /\ Len(taken'[w]) = l + 1 /\ taken'[w][l + 1] = x
      /\ \A i \in 1 .. l : taken'[w][i] = taken[w][i]
  BY <1>0, <1>4, <1>5
<1>7. \A v, p, m : Follows(v, p, m)' <=> Follows(v, p, m)
  BY <1>0 DEF Follows, Complete
<1>8. \A v, p : Complete(v, p)' <=> Complete(v, p)
  BY <1>0 DEF Complete
\* What was in front of place i + 1 is in front of place i.
<1>9. ASSUME NEW v \in Writers, NEW i \in 1 .. n, NEW j \in 0 .. i, LastBefore(v, j, i + 1)
      PROVE  \E k \in 0 .. i - 1 : LastBefore(v, k, i)' /\ Msg(v, k)' = Msg(v, j)
  <2>1. \A k \in 1 .. i - 1 : inbox'[k] = inbox[k + 1]
    BY <1>2
  <2>2. (j = 0 \/ inbox[j][1] = v) /\ \A k \in j + 1 .. i : inbox[k][1] # v
    BY <1>9 DEF LastBefore
  <2>3. CASE j >= 2
    <3>1. PICK k \in 1 .. i - 1 : k = j - 1 /\ k + 1 = j
      BY <2>3
    <3>2. inbox'[k] = inbox[j]
      BY <2>1, <3>1
    <3>3. \A q \in k + 1 .. i - 1 : inbox'[q] = inbox[q + 1] /\ q + 1 \in j + 1 .. i
      BY <2>1, <3>1
    <3>4. LastBefore(v, k, i)'
      BY <2>2, <2>3, <3>1, <3>2, <3>3 DEF LastBefore
    <3>5. Msg(v, k)' = Msg(v, j)
      BY <2>3, <3>1, <3>2 DEF Msg
    <3> QED BY <3>1, <3>4, <3>5
  <2>4. CASE j < 2
    <3>1. \A q \in 1 .. i - 1 : inbox'[q] = inbox[q + 1] /\ q + 1 \in j + 1 .. i
      BY <2>1, <2>4
    <3>2. LastBefore(v, 0, i)'
      BY <2>2, <3>1 DEF LastBefore
    <3>3. CASE j = 1
      <4>1. v = w /\ Msg(v, j) = x
        BY <1>3, <2>2, <3>3 DEF Msg
      <4>2. taken'[w] # <<>>
        BY <1>6, <1>5
      <4>3. Msg(v, 0)' = x
        BY <1>6, <4>1, <4>2 DEF Msg
      <4> QED BY <3>2, <4>1, <4>3
    <3>4. CASE j = 0
      <4>1. v # w
        BY <1>3, <2>2, <3>4
      <4>2. Msg(v, 0)' = Msg(v, 0)
        BY <1>4, <4>1 DEF Msg
      <4> QED BY <3>2, <3>4, <4>2
    <3> QED BY <2>4, <3>3, <3>4
  <2> QED BY <2>3, <2>4
<1>10. ASSUME NEW v \in Writers PROVE TakenInOrder(v)'
  <2>0. TakenInOrder(v) /\ QueuedInOrder(v)
    BY DEF StreamInv, WriterStreamIntact
  <2>1. CASE v # w
    <3>1. taken'[v] = taken[v] /\ acked' = acked
      BY <1>0, <1>4, <2>1
    <3> QED BY <2>0, <3>1 DEF TakenInOrder, Follows, Complete
  <2>2. CASE v = w
    <3> SUFFICES ASSUME NEW i \in 1 .. l + 1
                 PROVE  Follows(w, IF i = 1 THEN <<0, 0>> ELSE taken'[w][i - 1], taken'[w][i])
      BY <1>0, <1>6, <2>2 DEF TakenInOrder, Follows, Complete
    <3>1. CASE i \in 1 .. l
      <4>1. taken'[w][i] = taken[w][i] /\ (i # 1 => taken'[w][i - 1] = taken[w][i - 1])
        BY <1>5, <1>6, <3>1
      <4>2. Follows(w, IF i = 1 THEN <<0, 0>> ELSE taken[w][i - 1], taken[w][i])
        BY <1>5, <2>0, <2>2, <3>1 DEF TakenInOrder
      <4> QED BY <4>1, <4>2
    <3>2. CASE i = l + 1
      <4>1. PICK j \in 0 .. 0 : Follows(w, Msg(w, j), Tail(inbox[1]))
        BY <1>1, <1>2, <1>3, <2>0, <2>2 DEF QueuedInOrder
      <4>2. Follows(w, Msg(w, 0), x)
        BY <1>3, <4>1
      <4>3. Msg(w, 0) = IF i = 1 THEN <<0, 0>> ELSE taken'[w][i - 1]
        <5>1. CASE l = 0
          <6>1. i = 1 /\ taken[w] \in Seq(Messages) /\ Len(taken[w]) = 0
            BY <1>0, <1>5, <3>2, <5>1
          <6>2. taken[w] = <<>>
            BY <6>1
          <6> QED BY <6>1, <6>2 DEF Msg
        <5>2. CASE l # 0
          <6>1. taken[w] # <<>> /\ i # 1 /\ i - 1 = l /\ l \in 1 .. l
            BY <1>5, <3>2, <5>2
          <6> QED BY <1>5, <1>6, <6>1 DEF Msg
        <5> QED BY <5>1, <5>2
      <4> QED BY <1>6, <3>2, <4>2, <4>3
    <3> QED BY <3>1, <3>2
  <2> QED BY <2>1, <2>2
<1>11. ASSUME NEW v \in Writers PROVE QueuedInOrder(v)'
  <2> SUFFICES ASSUME NEW i \in 1 .. n - 1, inbox'[i][1] = v
               PROVE  \E k \in 0 .. i - 1 : LastBefore(v, k, i)' /\ Follows(v, Msg(v, k), Tail(inbox[i]))'
    BY <1>2 DEF QueuedInOrder
  <2>1. inbox'[i] = inbox[i + 1] /\ i + 1 \in 1 .. n /\ i \in 1 .. n
    BY <1>2
  <2>2. PICK j \in 0 .. i : LastBefore(v, j, i + 1) /\ Follows(v, Msg(v, j), Tail(inbox[i + 1]))
    BY <1>1, <2>1 DEF StreamInv, WriterStreamIntact, QueuedInOrder
  <2>3. PICK k \in 0 .. i - 1 : LastBefore(v, k, i)' /\ Msg(v, k)' = Msg(v, j)
    BY <1>9, <2>1, <2>2
  <2>4. Follows(v, Msg(v, k), Tail(inbox[i]))'
    BY <1>0, <2>1, <2>2, <2>3 DEF Follows, Complete
  <2> QED BY <2>3, <2>4
<1>12. ASSUME NEW v \in Writers PROVE NothingMissing(v)'
  <2>1. PICK j \in 0 .. n : LastBefore(v, j, n + 1) /\ (Len(Msg(v, j)) = 2 => Complete(v, Msg(v, j)))
    BY <1>1 DEF StreamInv, WriterStreamIntact, NothingMissing
  <2>2. PICK k \in 0 .. n - 1 : LastBefore(v, k, n)' /\ Msg(v, k)' = Msg(v, j)
    <3>1. n \in 1 .. n
      BY <1>2
    <3> QED BY <1>9, <2>1, <3>1
  <2>3. Len(Msg(v, k)') = 2 => Complete(v, Msg(v, k))'
    BY <1>0, <2>1, <2>2 DEF Complete
  <2>4. (Len(inbox) + 1)' = n /\ k \in 0 .. Len(inbox')
    BY <1>2
  <2> QED BY <2>2, <2>3, <2>4 DEF NothingMissing, LastBefore
\* The lines are what they were.
<1>13. ASSUME NEW v \in Writers, NEW m \in Messages, InLine(v, m)' PROVE InLine(v, m)
  <2>1. CASE \E i \in 1 .. n - 1 : inbox'[i][1] = v /\ Tail(inbox'[i]) = m
    <3>1. PICK i \in 1 .. n - 1 : inbox'[i][1] = v /\ Tail(inbox'[i]) = m
      BY <2>1
    <3>2. inbox'[i] = inbox[i + 1] /\ i + 1 \in 1 .. Len(inbox)
      BY <1>1, <1>2
    <3> QED BY <3>1, <3>2 DEF InLine
  <2>2. CASE \E i \in 1 .. Len(taken'[v]) : taken'[v][i] = m
    <3>1. PICK i \in 1 .. Len(taken'[v]) : taken'[v][i] = m
      BY <2>2
    <3>2. CASE v # w
      BY <1>4, <3>1, <3>2 DEF InLine
    <3>3. CASE v = w /\ i \in 1 .. l
      BY <1>5, <1>6, <3>1, <3>3 DEF InLine
    <3>4. CASE v = w /\ i = l + 1
      <4>1. m = Tail(inbox[1]) /\ inbox[1][1] = v /\ 1 \in 1 .. Len(inbox)
        <5>1. taken'[w][l + 1] = x /\ taken'[v][i] = m /\ v = w /\ i = l + 1
          BY <1>6, <3>1, <3>4
        <5>2. m = x
          BY <5>1
        <5> QED BY <1>1, <1>2, <1>3, <5>1, <5>2
      <4> QED BY <4>1 DEF InLine
    <3> QED BY <1>6, <3>1, <3>2, <3>3, <3>4
  <2> QED BY <1>2, <1>13, <2>1, <2>2 DEF InLine
<1>14. LineOK'
  <2>1. <<"eof">> \in Messages /\ <<"close">> \in Messages
    BY Shapes
  <2> QED BY <1>0, <1>2, <1>4, <1>13, <2>1 DEF StreamInv, LineOK
<1> QED BY <1>10, <1>11, <1>12, <1>14 DEF StreamInv, WriterStreamIntact

\* A writer w moves on, and nothing is posted, taken or reported.
LEMMA MoveStream ==
  ASSUME StreamInv, WritersOK', UNCHANGED <<inbox, taken, acked>>, NEW w \in Writers,
         \A v \in Writers : v # w => pc'[v] = pc[v] /\ chunk'[v] = chunk[v],
         pc'[w] = "send" => chunk'[w] > 0,
         pc'[w] # "gone" => pc[w] # "gone",
         pc'[w] \notin {"shut", "closing", "gone"} => pc[w] \notin {"shut", "closing", "gone"}
  PROVE  StreamInv'
<1>1. \A v \in Writers : /\ pc'[v] = "send" => chunk'[v] > 0
                         /\ pc'[v] # "gone" => pc[v] # "gone"
                         /\ pc'[v] \notin {"shut", "closing", "gone"} => pc[v] \notin {"shut", "closing", "gone"}
  BY DEF StreamInv, LineOK
<1> QED BY <1>1, QuietStream

\* A writer w posts m, and goes on to its next place.
LEMMA PostStep ==
  ASSUME StreamInv, WritersOK', NEW w \in Writers, NEW m \in Posted, m[1] = w,
         NEW x \in Messages, Tail(m) = x,
         inbox' = Append(inbox, m), taken' = taken,
         \A v \in Writers : v # w => pc'[v] = pc[v] /\ chunk'[v] = chunk[v] /\ acked'[v] = acked[v],
         acked'[w] = acked[w] \/ (~InLine(w, <<"eof">>) /\ ~InLine(w, <<"close">>)),
         pc'[w] # "send",
         pc'[w] # "gone" => pc[w] # "gone" /\ x # <<"close">>,
         pc'[w] \notin {"shut", "closing", "gone"} =>
           pc[w] \notin {"shut", "closing", "gone"} /\ x # <<"eof">>,
         Len(x) = 2 => Complete(w, x)',
         \A p \in Messages : (InLine(w, p) \/ p = <<0, 0>>) /\ (Len(p) = 2 => Complete(w, p)) =>
           Follows(w, p, x)'
  PROVE  StreamInv'
<1>1. LineOK /\ WriterStreamIntact
  BY DEF StreamInv
<1>2. /\ WriterStreamIntact' /\ inbox' \in Seq(Posted)
      /\ \A v \in Writers, y \in Messages : InLine(v, y)' => InLine(v, y) \/ (v = w /\ y = x)
  <2>1. Len(Tail(m)) = 2 => Complete(w, Tail(m))'
    OBVIOUS
  <2>2. \A p \in Messages : (InLine(w, p) \/ p = <<0, 0>>) /\ (Len(p) = 2 => Complete(w, p)) =>
          Follows(w, p, Tail(m))'
    OBVIOUS
  <2>3. \A v \in Writers : v # w => acked'[v] = acked[v]
    OBVIOUS
  <2>4. /\ WriterStreamIntact' /\ inbox' \in Seq(Posted)
        /\ \A v \in Writers, y \in Messages : InLine(v, y)' => InLine(v, y) \/ (v = w /\ y = Tail(m))
    BY <1>1, <2>1, <2>2, <2>3, PostStream
  <2> QED BY <2>4
<1>3. <<"eof">> \in Messages /\ <<"close">> \in Messages
  BY Shapes
<1>4. ASSUME NEW v \in Writers
      PROVE  /\ pc'[v] = "send" => chunk'[v] > 0
             /\ pc'[v] # "gone" => ~InLine(v, <<"close">>)'
             /\ pc'[v] \notin {"shut", "closing", "gone"} => ~InLine(v, <<"eof">>)'
  <2>1. CASE v = w
    BY <1>1, <1>2, <1>3, <2>1 DEF LineOK
  <2>2. CASE v # w
    BY <1>1, <1>2, <1>3, <2>2 DEF LineOK
  <2> QED BY <2>1, <2>2
<1>5. LineOK'
  BY <1>1, <1>2, <1>4 DEF LineOK
<1> QED BY <1>2, <1>5 DEF StreamInv

\* In front of a writer that is not at its end there are bytes or nothing.
LEMMA BytesBefore ==
  ASSUME LineOK, NEW w \in Writers, NEW p \in Messages, InLine(w, p) \/ p = <<0, 0>>
  PROVE  /\ pc[w] \notin {"shut", "closing", "gone"} => Len(p) = 2
         /\ pc[w] # "gone" => Len(p) = 2 \/ p = <<"eof">>
<1>1. Len(p) = 2 \/ p = <<"eof">> \/ p = <<"close">>
  BY Shapes
<1>2. p = <<0, 0>> => Len(p) = 2
  BY Shapes
<1> QED BY <1>1, <1>2 DEF LineOK

LEMMA StreamStep ==
  ASSUME StreamInv, [Next]_vars
  PROVE  StreamInv'
<1>0. WritersOK /\ WritersOK' /\ LineOK
  BY WritersStep DEF StreamInv
<1>1. /\ pc \in [Writers -> {"idle", "write", "lock", "hold", "watch", "sleep", "send",
                            "eof", "shut", "closing", "gone"}]
      /\ chunk \in [Writers -> Nat] /\ acked \in [Writers -> Nat]
  BY <1>0 DEF WritersOK
<1>2. ASSUME NEW w \in Writers, StartWrite(w) \/ TryLock(w) \/ PollWatch(w) \/ Wake(w) \/ Repoll(w)
      PROVE  StreamInv'
  <2>1. /\ UNCHANGED <<inbox, taken, acked, chunk>>
        /\ \E to \in {"write", "hold", "lock", "sleep"} : pc' = [pc EXCEPT ![w] = to]
        /\ pc[w] \in {"idle", "write", "watch", "sleep"}
    BY <1>2 DEF StartWrite, TryLock, PollWatch, Wake, Repoll, flowVars
  <2> QED BY <1>0, <1>1, <2>1, MoveStream
<1>3. ASSUME NEW w \in Writers, LookAtWindow(w) PROVE StreamInv'
  <2>1. /\ UNCHANGED <<inbox, taken, acked>> /\ pc[w] \in {"hold", "lock"}
        /\ \/ /\ Writable(w) > 0 /\ chunk' = [chunk EXCEPT ![w] = Writable(w)]
              /\ pc' = [pc EXCEPT ![w] = "send"]
           \/ chunk' = chunk /\ pc' = [pc EXCEPT ![w] = "watch"]
    BY <1>3 DEF LookAtWindow
  <2> QED BY <1>0, <1>1, <2>1, MoveStream
<1>4. ASSUME NEW w \in Writers, SendFails(w) \/ Shutdown(w) \/ DropTx(w) \/ DropCall(w) PROVE StreamInv'
  <2>1. /\ UNCHANGED <<inbox, taken, acked>> /\ chunk' = [chunk EXCEPT ![w] = 0]
        /\ \E to \in {"eof", "shut", "closing", "gone"} :
             /\ pc' = [pc EXCEPT ![w] = to] /\ (to # "gone" => pc[w] # "gone")
             /\ to = "eof" => pc[w] \notin {"shut", "closing", "gone"}
    BY <1>4 DEF SendFails, Shutdown, DropTx, DropCall
  <2> QED BY <1>0, <1>1, <2>1, MoveStream
<1>5. ASSUME NEW w \in Writers, Leave(w) \/ Resume(w) PROVE StreamInv'
  <2>1. /\ UNCHANGED <<inbox, taken, acked, chunk>>
        /\ pc' = pc \/ (pc[w] = "sleep" /\ pc' = [pc EXCEPT ![w] = "write"])
    <3>1. CASE Leave(w)
      BY <3>1 DEF Leave, flowVars
    <3>2. CASE Resume(w)
      BY <1>1, <3>2 DEF Resume, flowVars
    <3> QED BY <1>5, <3>1, <3>2
  <2>2. pc'[w] = "send" => chunk'[w] > 0
    BY <1>0, <1>1, <2>1 DEF LineOK
  <2> QED BY <1>0, <1>1, <2>1, <2>2, MoveStream
<1>6. ASSUME NEW w \in Writers, SendChunk(w) PROVE StreamInv'
  <2>1. /\ inbox' = Append(inbox, <<w, acked[w], acked[w] + chunk[w]>>) /\ taken' = taken /\ pc[w] = "send"
        /\ acked' = [acked EXCEPT ![w] = @ + chunk[w]] /\ chunk' = [chunk EXCEPT ![w] = 0]
        /\ \E to \in {"write", "gone", "idle"} : pc' = [pc EXCEPT ![w] = to]
    BY <1>6 DEF SendChunk
  <2>2. PICK a \in Nat, b \in Nat : a = acked[w] /\ b = acked[w] + chunk[w] /\ a < b /\ acked'[w] = b
    <3>1. chunk[w] > 0 /\ chunk[w] \in Nat /\ acked[w] \in Nat
      BY <1>0, <1>1, <2>1 DEF LineOK
    <3>2. acked[w] + chunk[w] \in Nat /\ acked[w] < acked[w] + chunk[w] /\ acked'[w] = acked[w] + chunk[w]
      BY <1>1, <2>1, <3>1
    <3> QED BY <3>1, <3>2
  <2>3. PICK m \in Posted : inbox' = Append(inbox, m) /\ m[1] = w /\ Tail(m) = <<a, b>>
    <3>1. inbox' = Append(inbox, <<w, a, b>>)
      BY <2>1, <2>2
    <3>2. <<w, a, b>> \in Posted /\ <<w, a, b>>[1] = w /\ Tail(<<w, a, b>>) = <<a, b>>
      BY Posting
    <3> QED BY <3>1, <3>2
  <2>4. PICK x \in Messages : /\ x = <<a, b>> /\ Len(x) = 2 /\ x[1] = a /\ x[2] = b
                              /\ x # <<"eof">> /\ x # <<"close">>
    BY Shapes
  <2>5. ~InLine(w, <<"eof">>) /\ ~InLine(w, <<"close">>)
    BY <1>0, <2>1 DEF LineOK
  <2>6. Complete(w, x)'
    BY <2>2, <2>4 DEF Complete
  <2>7. ASSUME NEW p \in Messages, InLine(w, p) \/ p = <<0, 0>>, Len(p) = 2 => Complete(w, p)
        PROVE  Follows(w, p, x)'
    <3>1. Len(p) = 2
      BY <1>0, <2>1, <2>7, BytesBefore
    <3>2. p[2] = a
      BY <2>2, <2>7, <3>1 DEF Complete
    <3> QED BY <2>2, <2>4, <3>1, <3>2 DEF Follows
  <2>8. Tail(m) = x
    BY <2>3, <2>4
  <2>9. \A v \in Writers : v # w => pc'[v] = pc[v] /\ chunk'[v] = chunk[v] /\ acked'[v] = acked[v]
    BY <1>1, <2>1
  <2>10. pc'[w] \in {"write", "gone", "idle"}
    BY <1>1, <2>1
  <2>11. pc[w] # "gone" /\ pc[w] \notin {"shut", "closing", "gone"} /\ pc'[w] # "send"
    BY <2>1, <2>10
  <2>12. \A p \in Messages : (InLine(w, p) \/ p = <<0, 0>>) /\ (Len(p) = 2 => Complete(w, p)) =>
           Follows(w, p, x)'
    BY <2>7
  <2>13. taken' = taken
    BY <2>1
  <2> QED BY <1>0, <2>3, <2>4, <2>5, <2>6, <2>8, <2>9, <2>11, <2>12, <2>13, PostStep
\* An Eof, or a Close that finds a slot.
<1>7. ASSUME NEW w \in Writers, NEW c \in {"eof", "close"}, inbox' = Append(inbox, <<w, c>>),
             UNCHANGED <<taken, acked, chunk>>, pc[w] = IF c = "eof" THEN "eof" ELSE "closing",
             pc' = [pc EXCEPT ![w] = IF c = "eof" THEN "shut" ELSE "gone"]
      PROVE  StreamInv'
  <2>1. PICK m \in Posted : inbox' = Append(inbox, m) /\ m[1] = w /\ Tail(m) = <<c>>
    BY <1>7, Posting
  <2>2. PICK x \in Messages : x = <<c>> /\ Len(x) = 1 /\ (x = <<"eof">> <=> c = "eof") /\ (x = <<"close">> <=> c = "close")
    BY Shapes
  <2>3. ASSUME NEW p \in Messages, InLine(w, p) \/ p = <<0, 0>>, Len(p) = 2 => Complete(w, p)
        PROVE  Follows(w, p, x)'
    <3>1. Len(p) = 2 \/ (c = "close" /\ p = <<"eof">>)
      BY <1>0, <1>7, <2>3, BytesBefore
    <3>2. Complete(w, p)' <=> Complete(w, p)
      BY <1>7 DEF Complete
    <3> QED BY <2>2, <2>3, <3>1, <3>2 DEF Follows
  <2>4. Tail(m) = x
    BY <2>1, <2>2
  <2>5. \A v \in Writers : v # w => pc'[v] = pc[v] /\ chunk'[v] = chunk[v] /\ acked'[v] = acked[v]
    BY <1>1, <1>7
  <2>6. pc'[w] = (IF c = "eof" THEN "shut" ELSE "gone") /\ acked'[w] = acked[w]
    BY <1>1, <1>7
  <2>7. /\ pc'[w] # "gone" => pc[w] # "gone" /\ x # <<"close">>
        /\ pc'[w] \notin {"shut", "closing", "gone"} =>
             pc[w] \notin {"shut", "closing", "gone"} /\ x # <<"eof">>
        /\ pc'[w] # "send"
    BY <1>7, <2>2, <2>6
  <2>8. \A p \in Messages : (InLine(w, p) \/ p = <<0, 0>>) /\ (Len(p) = 2 => Complete(w, p)) =>
          Follows(w, p, x)'
    BY <2>3
  <2>9. taken' = taken /\ ~(Len(x) = 2)
    BY <1>7, <2>2
  <2> QED BY <1>0, <2>1, <2>2, <2>4, <2>5, <2>6, <2>7, <2>8, <2>9, PostStep
<1>8. ASSUME NEW w \in Writers, SendEof(w) PROVE StreamInv'
  BY <1>7, <1>8 DEF SendEof
<1>9. ASSUME NEW w \in Writers, SendClose(w) PROVE StreamInv'
  <2>1. CASE sess = "ended"
    <3>1. UNCHANGED <<inbox, taken, acked, chunk>> /\ pc' = [pc EXCEPT ![w] = "gone"]
      BY <1>9, <2>1 DEF SendClose
    <3> QED BY <1>0, <1>1, <3>1, MoveStream
  <2>2. CASE sess # "ended"
    BY <1>7, <1>9, <2>2 DEF SendClose
  <2> QED BY <2>1, <2>2
<1>10. CASE TakeMessage
  BY <1>0, <1>10, TakeStream
<1>11. ASSUME UNCHANGED <<inbox, taken, acked, chunk, pc>> PROVE StreamInv'
  BY <1>0, <1>11, QuietStream DEF LineOK
<1>12. CASE NotifyChange \/ StartUpdate \/ SessionEnds \/ StartPeek \/ Peek \/ \E v \in Windows : SetWindow(v)
  BY <1>11, <1>12 DEF NotifyChange, StartUpdate, SessionEnds, StartPeek, Peek, SetWindow, flowVars
<1>13. CASE UNCHANGED vars
  BY <1>11, <1>13 DEF vars
<1> QED BY <1>2, <1>3, <1>4, <1>5, <1>6, <1>8, <1>9, <1>10, <1>12, <1>13
        DEF Next, Poll, SessionStep

\* What write and data_bytes reported as sent reaches the session's queue without
\* gap or repetition, and the Eof and the Close come behind all of it, for any
\* number of writers, queue sizes and windows, and although a ChannelTx may be
\* left with a reserved chunk, shut down in front of it, or dropped with it.
THEOREM WriterStreamAlwaysIntact == Spec => []WriterStreamIntact
<1>1. Init => StreamInv
  <2> SUFFICES ASSUME Init PROVE StreamInv
    OBVIOUS
  <2>1. WritersOK
    BY WriterAssumption DEF Init, WritersOK
  <2>2. /\ inbox = <<>> /\ Len(<<>>) = 0 /\ taken = [w \in Writers |-> <<>>]
        /\ \A w \in Writers : taken[w] = <<>> /\ acked[w] = 0 /\ pc[w] = "idle"
    BY DEF Init
  <2>3. \A w \in Writers : \A m : ~InLine(w, m)
    BY <2>2 DEF InLine
  <2>4. LineOK
    BY <2>2, <2>3 DEF LineOK
  <2>5. ASSUME NEW w \in Writers PROVE TakenInOrder(w) /\ QueuedInOrder(w) /\ NothingMissing(w)
    <3>1. TakenInOrder(w) /\ QueuedInOrder(w)
      BY <2>2 DEF TakenInOrder, QueuedInOrder
    <3>2. Msg(w, 0) = <<0, 0>> /\ LastBefore(w, 0, Len(inbox) + 1) /\ Complete(w, <<0, 0>>)
      BY <2>2, Shapes DEF Msg, LastBefore, Complete
    <3>3. NothingMissing(w)
      BY <2>2, <3>2 DEF NothingMissing
    <3> QED BY <3>1, <3>3
  <2> QED BY <2>1, <2>4, <2>5 DEF StreamInv, WriterStreamIntact
<1>2. StreamInv /\ [Next]_vars => StreamInv'
  BY StreamStep
<1>3. StreamInv => WriterStreamIntact
  BY DEF StreamInv
<1> QED BY <1>1, <1>2, <1>3, PTL DEF Spec
=============================================================================
