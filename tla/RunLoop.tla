------------------------------ MODULE RunLoop ------------------------------
(***************************************************************************)
(* The session's run loop against the clock: the socket writer whose       *)
(* flush is cancelled by every other arm of select!, the server's          *)
(* supervisor (write watchdog, handshake deadline), keepalives, the        *)
(* inactivity timeout and the teardown.  Server and client.                *)
(*                                                                         *)
(* Time is a sequence of ticks.  A timer is the number of ticks it has     *)
(* left; the loop wakes before the tick that would pass it.  One action is *)
(* one iteration: the arm of select! that won, what follows it, and the    *)
(* checks and the batch drain at the top of the next iteration.  Bytes are *)
(* counted.  Key exchange is left to Rekey, the queues to OutboundFlow.    *)
(***************************************************************************)
EXTENDS Integers

CONSTANTS
  Sides,           \* a subset of {"server", "client"}
  Intervals,       \* keepalive_interval, 0 for None
  Maxima,          \* keepalive_max
  Inactivity,      \* inactivity_timeout
  Handshake,       \* handshake_deadline
  Progress,        \* write_progress_deadline
  MinBytes, Window,\* write_min_drain
  Grace,           \* teardown_grace, and the client's five seconds
  IdleSleep,       \* the hour the supervisor sleeps when nothing is armed
  Watermark,       \* OUTBOUND_HIGH_WATERMARK
  MaxLen,          \* bound: bytes in the write buffer
  MaxCallback      \* bound: ticks a handler callback takes

ASSUME RunLoopAssumption ==
  /\ Sides \subseteq {"server", "client"} /\ Intervals \subseteq Nat /\ Maxima \subseteq Nat
  /\ {Inactivity, Handshake, Progress, MinBytes, Window, Grace, Watermark} \subseteq Nat \ {0}
  /\ IdleSleep \in Nat /\ IdleSleep > Inactivity
  /\ MaxLen \in Nat /\ MaxLen >= Watermark /\ MaxCallback \in Nat

VARIABLES
  side, interval, kmax, drainPolicy, \* the configuration
  phase,       \* "running", "teardown" or "closed"
  cause,       \* why it stopped, "none" before
  authed,      \* has authentication succeeded?
  len,         \* PacketWriter::write_buffer
  cursor,      \* PacketWriter::flush_cursor
  fresh,       \* drained_total - drained_seen: written, not yet credited
  armed,       \* WriteWatchdog::armed_at is Some
  still,       \* now - last_progress_at
  window,      \* now - drain_window_start
  drained,     \* drained_in_window
  hs,          \* ticks to handshake_deadline_at, negative past it, frozen by handshake_done
  ka, ina,     \* ticks to the keepalive and the inactivity timer
  unanswered,  \* CommonSession::alive_timeouts
  wake,        \* ticks to the end of supervisor_sleep
  grace,       \* ticks to grace_at
  reading,     \* does the peer read, and with it the socket take bytes?
  silent,      \* history: peer and application have said their last word
  owed,        \* history: bytes ever staged less bytes the socket has taken
  refused      \* history: ticks the buffer has held bytes and none has left, at most MaxRefused

config == <<side, interval, kmax, drainPolicy>>
writer == <<len, cursor>>
dog == <<armed, still, window, drained>>
timers == <<hs, ka, ina, unanswered, wake>>
peer == <<reading, silent>>
vars == <<config, phase, cause, authed, writer, fresh, dog, timers, grace, peer, owed, refused>>
-----------------------------------------------------------------------------
\* Ticks left of t after n have passed.
Left(t, n) == IF t > n THEN t - n ELSE 0
Sooner(a, b) == IF a <= b THEN a ELSE b

\* supervisor_sleep: the nearest of the deadlines, an hour if there is none.
Sleep(arm, quiet, win, auth, deadline) ==
  LET wd == IF arm THEN Left(Progress, quiet) ELSE IdleSleep
      drain == IF arm /\ drainPolicy THEN Left(Window, win) ELSE IdleSleep
      handshake == IF auth THEN IdleSleep ELSE Left(deadline, 0)
  IN Sooner(Sooner(IdleSleep, wd), Sooner(drain, handshake))

Init ==
  /\ side \in Sides /\ interval \in Intervals /\ kmax \in Maxima /\ drainPolicy \in BOOLEAN
  /\ phase = "running" /\ cause = "none" /\ authed = FALSE
  /\ len = 0 /\ cursor = 0 /\ fresh = 0
  /\ armed = FALSE /\ still = 0 /\ window = 0 /\ drained = 0
  /\ hs = Handshake /\ ka = interval /\ ina = Inactivity /\ unanswered = 0
  /\ wake = Sleep(FALSE, 0, 0, FALSE, Handshake) /\ grace = 0
  /\ reading = TRUE /\ silent = FALSE /\ owed = 0 /\ refused = 0

\* `?` and `return Err` leave run() at once; the client still flushes and shuts
\* down in run(), the server does not.
Fails(why) ==
  /\ cause' = why
  /\ phase' = IF side = "client" THEN "teardown" ELSE "closed"
  /\ grace' = Grace

\* The loop is left by break or by disconnected.
Leaves(why) == cause' = why /\ phase' = "teardown" /\ grace' = Grace

MaxRefused == 2 * Progress + 1
Capped(l) == Sooner(l, MaxLen)
-----------------------------------------------------------------------------
(* One iteration after its arm has won: n ticks were spent in the arm; kept   *)
(* bytes are left in the buffer and by are staged to them, l in all.          *)

\* WriteWatchdog::note_write_ok at the end of the iteration.
QuietUncredited(n) == still + n  \* credit only for a flush_into that ran to its end
Quiet(n) == IF fresh > 0 THEN 0 ELSE still + n
Drain == drained + fresh

\* observe_eligible and poll_timeout at the top of the next iteration.
Stalled(n, l) ==
  /\ side = "server" /\ l > 0 /\ armed
  /\ \/ Quiet(n) >= Progress
     \/ drainPolicy /\ window + n >= Window /\ Drain < MinBytes
Observes(n, l) ==
  LET on == side = "server" /\ l > 0
      full == on /\ armed /\ drainPolicy /\ window + n >= Window /\ Drain >= MinBytes
  IN /\ armed' = on
     /\ still' = IF on /\ armed THEN Quiet(n) ELSE 0
     /\ window' = IF on /\ armed /\ drainPolicy /\ ~full THEN window + n ELSE 0
     /\ drained' = IF on /\ armed /\ drainPolicy /\ ~full THEN Drain ELSE 0

\* The timers after the select!: any iteration but a keepalive's sets the
\* inactivity timer.
Resets(n, received) ==
  /\ unanswered' = IF received THEN 0 ELSE unanswered
  /\ ka' = IF interval > 0 /\ received THEN interval ELSE Left(ka, n)
  /\ ina' = Inactivity

\* Messages the server's batch drain may find, after the watchdog has looked.
Batch(l, auth) ==
  IF side = "server" /\ auth /\ ~silent /\ l < Watermark THEN 0 .. 1 ELSE {0}

\* A deadline of the supervisor, and the DISCONNECT that is staged for it.
TearsDown(why, l) == Leaves(why) /\ len' = Capped(l + 1)

\* The end of an iteration and the top of the next.
HandshakeLeft(n) == IF side = "client" \/ authed THEN hs ELSE hs - n
Continues(n, kept, by, auth) ==
  LET l == Capped(kept + by)
      late == side = "server" /\ ~auth /\ HandshakeLeft(n) <= 0
  IN /\ authed' = auth /\ hs' = HandshakeLeft(n)
     /\ fresh' = 0 /\ Observes(n, l)
     /\ \/ late /\ TearsDown("HandshakeTimeout", l)
        \/ ~late /\ Stalled(n, l) /\ TearsDown("WriteStalled", l)
        \/ /\ ~late /\ ~Stalled(n, l)
           /\ \E b \in Batch(l, auth) : len' = Capped(l + b)
           /\ UNCHANGED <<phase, cause, grace>>
     /\ owed' = owed + len' - kept
     /\ wake' = Sleep(armed', still', window', auth, hs')
     /\ refused' = IF len > 0 /\ l > 0 THEN Sooner(refused + n, MaxRefused) ELSE 0
-----------------------------------------------------------------------------
(* The arms of select!. *)

\* The callback is awaited without the deadline.
ReadPacketUnbounded(n, by, auth) ==
  /\ phase = "running" /\ ~silent /\ auth \in {authed, TRUE}
  /\ Resets(n, TRUE) /\ Continues(n, len, by, auth)
  /\ UNCHANGED <<config, cursor, peer>>

\* A packet and its handler callback, which takes n ticks and leaves an answer
\* or none; before authentication the server bounds it by the deadline.
ReadPacket(n, by, auth) ==
  /\ phase = "running" /\ ~silent /\ auth \in {authed, TRUE}
  /\ side = "server" /\ ~authed => n < hs \/ n = 0
  /\ Resets(n, TRUE) /\ Continues(n, len, by, auth)
  /\ UNCHANGED <<config, cursor, peer>>

\* timeout_at ends the callback at the handshake deadline.
ReplyTimesOut ==
  /\ phase = "running" /\ ~silent /\ side = "server" /\ ~authed /\ hs <= MaxCallback
  /\ hs' = 0 /\ ka' = Left(ka, hs) /\ ina' = Left(ina, hs)
  /\ TearsDown("HandshakeTimeout", len) /\ owed' = owed + len' - len
  /\ UNCHANGED <<config, authed, cursor, fresh, dog, refused, unanswered, wake, peer>>

\* The peer closes or sends DISCONNECT, the application disconnects, or an
\* error leaves the loop.
ReadEnds ==
  /\ phase = "running" /\ ~silent
  /\ Leaves("Disconnect") \/ Fails("IO")
  /\ UNCHANGED <<config, authed, writer, fresh, dog, timers, peer, owed, refused>>

\* The receiver arms.
TakesMessage ==
  /\ phase = "running" /\ ~silent /\ authed /\ len < Watermark
  /\ Resets(0, FALSE) /\ Continues(0, len, 1, authed)
  /\ UNCHANGED <<config, cursor, peer>>

\* The inbound_reserves arm with its callback and the open_reply arm: the
\* watermark does not hold them back.
PumpsInbound(n, by) ==
  /\ phase = "running" /\ ~silent /\ authed
  /\ Resets(n, FALSE) /\ Continues(n, len, by, authed)
  /\ UNCHANGED <<config, cursor, peer>>

\* The keepalive timer: the client's does nothing before authentication, and is
\* not set again.
KeepaliveGivesUp ==
  /\ phase = "running" /\ interval > 0 /\ ka = 0 /\ (side = "server" \/ authed)
  /\ kmax # 0 /\ unanswered + 1 > kmax
  /\ unanswered' = unanswered + 1 /\ Fails("KeepaliveTimeout")
  /\ UNCHANGED <<config, authed, writer, fresh, dog, hs, ka, ina, wake, peer, owed, refused>>

\* The count of unanswered keepalives starts again with every one.
SendsKeepaliveUncounted ==
  /\ phase = "running" /\ interval > 0 /\ ka = 0 /\ (side = "server" \/ authed)
  /\ unanswered' = 0 /\ ka' = interval /\ UNCHANGED ina
  /\ Continues(0, len, 1, authed)
  /\ UNCHANGED <<config, cursor, peer>>

\* alive_timeouts counts without end when keepalive_max is 0; it is not read then.
SendsKeepalive ==
  /\ phase = "running" /\ interval > 0 /\ ka = 0 /\ (side = "server" \/ authed)
  /\ kmax = 0 \/ unanswered + 1 <= kmax
  /\ unanswered' = IF kmax = 0 THEN 0 ELSE unanswered + 1
  /\ ka' = interval /\ UNCHANGED ina
  /\ Continues(0, len, 1, authed)
  /\ UNCHANGED <<config, cursor, peer>>

Spinning == side = "client" /\ ~authed /\ interval > 0 /\ ka = 0

SpinsOnKeepalive ==
  /\ phase = "running" /\ Spinning
  /\ Resets(0, FALSE) /\ Continues(0, len, 0, authed)
  /\ UNCHANGED <<config, cursor, peer>>

TimesOutInactive ==
  /\ phase = "running" /\ ina = 0 /\ Fails("InactivityTimeout")
  /\ UNCHANGED <<config, authed, writer, fresh, dog, timers, peer, owed, refused>>

\* sleep(supervisor_sleep).
SupervisorWakes ==
  /\ phase = "running" /\ side = "server" /\ wake = 0
  /\ Resets(0, FALSE) /\ Continues(0, len, 0, authed)
  /\ UNCHANGED <<config, cursor, peer>>

\* Another arm wins and the cursor is lost with the future.
WritesSomeForgetting(n) ==
  /\ phase # "closed" /\ reading /\ n <= len - cursor
  /\ \E kept \in {cursor, cursor + n} : cursor' = kept
  /\ fresh' = fresh + n /\ owed' = owed - n
  /\ refused' = IF phase = "running" THEN 0 ELSE refused
  /\ UNCHANGED <<config, phase, cause, authed, len, dog, timers, grace, peer>>

\* flush_into, one write that the socket takes: the future is not done, and
\* any other arm may cancel it, but cursor and drained_total are kept.
WritesSome(n) ==
  /\ phase # "closed" /\ reading /\ n <= len - cursor
  /\ cursor' = cursor + n /\ fresh' = fresh + n /\ owed' = owed - n
  /\ refused' = IF phase = "running" THEN 0 ELSE refused
  /\ UNCHANGED <<config, phase, cause, authed, len, dog, timers, grace, peer>>

\* flush_into has written everything: the buffer is cleared, the arm wins.
FlushDone ==
  /\ phase = "running" /\ len > 0 /\ cursor = len
  /\ cursor' = 0 /\ Resets(0, FALSE) /\ Continues(0, 0, 0, authed)
  /\ UNCHANGED <<config, peer>>
-----------------------------------------------------------------------------
\* Is an arm ready?  A spinning client's keepalive timer always is.
Due == \/ ina = 0
       \/ interval > 0 /\ ka = 0 /\ ~Spinning
       \/ side = "server" /\ wake = 0
       \/ len > 0 /\ (reading \/ cursor = len)

\* Time passes while the loop waits in select!.  A spinning loop goes round
\* many times in a tick and sets the inactivity timer each time.
Tick ==
  /\ phase = "running" /\ ~Due
  /\ hs' = HandshakeLeft(1) /\ ka' = Left(ka, 1) /\ wake' = Left(wake, 1)
  /\ ina' = IF Spinning THEN Inactivity ELSE ina - 1
  /\ still' = IF armed THEN still + 1 ELSE 0
  /\ window' = IF armed /\ drainPolicy THEN window + 1 ELSE 0
  /\ refused' = IF len > 0 THEN Sooner(refused + 1, MaxRefused) ELSE 0
  /\ UNCHANGED <<config, phase, cause, authed, writer, fresh, armed, drained, unanswered, grace, peer, owed>>

\* The teardown: flush, shutdown and drain within the grace.
TeardownTick ==
  /\ phase = "teardown" /\ grace > 0 /\ grace' = grace - 1
  /\ UNCHANGED <<config, phase, cause, authed, writer, fresh, dog, timers, peer, owed, refused>>

TeardownEnds ==
  /\ phase = "teardown" /\ (grace = 0 \/ cursor = len) /\ phase' = "closed"
  /\ UNCHANGED <<config, cause, authed, writer, fresh, dog, timers, grace, peer, owed, refused>>

\* The peer stops reading, or takes it up again.
PeerToggles ==
  /\ phase = "running" /\ ~silent /\ reading' = ~reading
  /\ UNCHANGED <<config, phase, cause, authed, writer, fresh, dog, timers, grace, silent, owed, refused>>

\* From here on the peer sends nothing and the application neither.
FallsSilent ==
  /\ phase = "running" /\ ~silent /\ silent' = TRUE
  /\ UNCHANGED <<config, phase, cause, authed, writer, fresh, dog, timers, grace, reading, owed, refused>>

Next ==
  \/ \E n \in 0 .. MaxCallback, by \in 0 .. 1, auth \in BOOLEAN : ReadPacket(n, by, auth)
  \/ \E n \in 0 .. MaxCallback, by \in 0 .. 1 : PumpsInbound(n, by)
  \/ ReplyTimesOut \/ ReadEnds \/ TakesMessage
  \/ KeepaliveGivesUp \/ SendsKeepalive \/ SpinsOnKeepalive
  \/ TimesOutInactive \/ SupervisorWakes
  \/ \E n \in 1 .. MaxLen : WritesSome(n)
  \/ FlushDone \/ Tick \/ TeardownTick \/ TeardownEnds \/ PeerToggles \/ FallsSilent

Spec == Init /\ [][Next]_vars

\* Time passes, timers that are due are polled, a socket that takes bytes is
\* written to; nobody is obliged to send.
FairSpec ==
  /\ Spec
  /\ WF_vars(Tick) /\ WF_vars(TeardownTick) /\ WF_vars(TeardownEnds)
  /\ WF_vars(KeepaliveGivesUp \/ SendsKeepalive) /\ WF_vars(TimesOutInactive)
  /\ WF_vars(SupervisorWakes) /\ WF_vars(FlushDone)
  /\ WF_vars(\E n \in 1 .. MaxLen : WritesSome(n))
-----------------------------------------------------------------------------
\* Every variable keeps its shape.
TypeOK ==
  /\ side \in Sides /\ interval \in Intervals /\ kmax \in Maxima
  /\ drainPolicy \in BOOLEAN /\ authed \in BOOLEAN /\ armed \in BOOLEAN
  /\ reading \in BOOLEAN /\ silent \in BOOLEAN
  /\ phase \in {"running", "teardown", "closed"}
  /\ cause \in {"none", "HandshakeTimeout", "WriteStalled", "KeepaliveTimeout",
                "InactivityTimeout", "Disconnect", "IO"}
  /\ (phase = "running") = (cause = "none")
  /\ len \in 0 .. MaxLen /\ cursor \in 0 .. len /\ fresh \in Nat /\ owed \in Nat
  /\ still \in Nat /\ window \in Nat /\ drained \in Nat /\ refused \in Nat
  /\ hs \in Int /\ hs <= Handshake /\ ina \in 0 .. Inactivity /\ wake \in 0 .. IdleSleep
  /\ ka \in 0 .. interval /\ unanswered \in Nat /\ grace \in 0 .. Grace

\* Cancelling flush_into at any point neither repeats nor skips a byte: what
\* the buffer holds behind the cursor is exactly what was staged and has not
\* been taken by the socket.
FlushExact == owed = len - cursor

\* WriteStalled by the activity layer is true: for the whole deadline there
\* were bytes in the buffer and none of them left, although every write that
\* is credited late belongs to a future that another arm has cancelled.
StallIsReal == cause = "WriteStalled" /\ ~drainPolicy => refused >= Progress

\* A server session is authenticated within its handshake deadline or gone,
\* whatever its handler does and however long the loop sleeps.
HandshakeBounded == side = "server" /\ phase = "running" => hs >= 0

\* Does anything count the silence of the peer?
Counted == \/ interval = 0
           \/ kmax # 0 /\ (side = "server" \/ authed)
           \/ side = "server" /\ (~authed \/ (~reading /\ len > 0))

\* Once peer and application are silent the session is closed: by keepalives,
\* the inactivity timeout or a deadline of the supervisor.
SilenceEnds == (silent /\ Counted) ~> (phase = "closed")

=============================================================================
