--------------------------- MODULE RunLoopProofs ---------------------------
(***************************************************************************)
(* Proofs about RunLoop, for every choice of deadlines, intervals, bounds  *)
(* and configurations: the flush is exact, the handshake deadline holds,   *)
(* and a connection that is reported as stalled has been.                  *)
(***************************************************************************)
EXTENDS RunLoop, TLAPS

\* An unauthenticated server wakes no later than its handshake deadline.
AwakeInTime ==
  side = "server" /\ phase = "running" /\ ~authed => wake <= hs

\* An armed watchdog has bytes to watch, and has not counted more stillness
\* than there was since the last write it knows or will be told of.
WatchIsFair ==
  phase = "running" /\ armed =>
    len > 0 /\ (fresh > 0 \/ still <= refused \/ refused = MaxRefused)

\* The inductive invariant.
Inv == TypeOK /\ FlushExact /\ HandshakeBounded /\ AwakeInTime /\ WatchIsFair /\ StallIsReal

\* The configuration, the shape of which no step changes.
ConfigOK == /\ side \in Sides /\ interval \in Intervals /\ kmax \in Maxima
            /\ drainPolicy \in BOOLEAN /\ reading \in BOOLEAN /\ silent \in BOOLEAN
BufferOK == len \in 0 .. MaxLen /\ cursor \in 0 .. len /\ fresh \in Nat /\ owed \in Nat
WatchOK == /\ armed \in BOOLEAN
           /\ still \in Nat /\ window \in Nat /\ drained \in Nat /\ refused \in Nat
TimerOK == /\ authed \in BOOLEAN /\ hs \in Int /\ hs <= Handshake
           /\ ina \in 0 .. Inactivity /\ wake \in 0 .. IdleSleep
           /\ ka \in 0 .. interval /\ unanswered \in Nat /\ grace \in 0 .. Grace
PhaseOK == /\ phase \in {"running", "teardown", "closed"}
           /\ cause \in {"none", "HandshakeTimeout", "WriteStalled", "KeepaliveTimeout",
                         "InactivityTimeout", "Disconnect", "IO"}
           /\ (phase = "running") = (cause = "none")

\* TypeOK in five parts: the provers are faster on each of them alone.
LEMMA TypeParts == TypeOK <=> ConfigOK /\ BufferOK /\ WatchOK /\ TimerOK /\ PhaseOK
BY DEF TypeOK, ConfigOK, BufferOK, WatchOK, TimerOK, PhaseOK

\* What RunLoopAssumption says of each constant.
LEMMA ConstantFacts ==
  /\ Inactivity \in Nat /\ Handshake \in Nat /\ Progress \in Nat /\ MinBytes \in Nat
  /\ Window \in Nat /\ Grace \in Nat /\ IdleSleep \in Nat /\ MaxLen \in Nat /\ MaxCallback \in Nat
  /\ Progress > 0 /\ MaxLen > 0 /\ MaxRefused \in Nat /\ MaxRefused > Progress
  /\ \A k \in Intervals : k \in Nat
<1>1. /\ Inactivity \in Nat \ {0} /\ Handshake \in Nat \ {0} /\ Progress \in Nat \ {0}
      /\ MinBytes \in Nat \ {0} /\ Window \in Nat \ {0} /\ Grace \in Nat \ {0} /\ Watermark \in Nat \ {0}
  BY RunLoopAssumption
<1>2. MaxLen \in Nat /\ MaxLen >= Watermark /\ IdleSleep \in Nat /\ MaxCallback \in Nat
  BY RunLoopAssumption
<1>3. \A k \in Intervals : k \in Nat
  BY RunLoopAssumption
<1> QED BY <1>1, <1>2, <1>3 DEF MaxRefused

\* supervisor_sleep is a time, and no longer than what is left of the handshake.
LEMMA SleepFacts ==
  ASSUME NEW arm \in BOOLEAN, NEW quiet \in Nat, NEW win \in Nat, NEW auth \in BOOLEAN,
         NEW deadline \in Int
  PROVE  /\ Sleep(arm, quiet, win, auth, deadline) \in 0 .. IdleSleep
         /\ ~auth /\ deadline > 0 => Sleep(arm, quiet, win, auth, deadline) <= deadline
<1> DEFINE wd == IF arm THEN Left(Progress, quiet) ELSE IdleSleep
           drain == IF arm /\ drainPolicy THEN Left(Window, win) ELSE IdleSleep
           handshake == IF auth THEN IdleSleep ELSE Left(deadline, 0)
<1>1. wd \in Nat /\ drain \in Nat /\ handshake \in Nat
  BY ConstantFacts DEF Left
<1>2. ~auth /\ deadline > 0 => handshake = deadline
  BY DEF Left
<1>3. Sleep(arm, quiet, win, auth, deadline) = Sooner(Sooner(IdleSleep, wd), Sooner(drain, handshake))
  BY DEF Sleep
<1> HIDE DEF wd, drain, handshake
<1> QED BY <1>1, <1>2, <1>3, ConstantFacts DEF Sooner

\* Bytes staged behind the cursor are owed in full.
LEMMA StagedBehindCursor ==
  ASSUME NEW bound \in Nat, NEW k \in Nat, NEW c \in 0 .. k, NEW staged \in k .. bound
  PROVE  LET after == (k - c) + staged - k
         IN /\ after = staged - c /\ after \in Nat
            /\ c \in 0 .. staged /\ staged \in 0 .. bound
OBVIOUS
-----------------------------------------------------------------------------
\* The end of an iteration keeps the invariant, whichever arm won: it took n
\* ticks, left kept bytes behind the cursor it set, and staged by bytes.
LEMMA IterationKeepsInv ==
  ASSUME Inv, NEW n \in Nat, NEW kept \in Nat, NEW by \in Nat, NEW auth \in BOOLEAN,
         phase = "running", Continues(n, kept, by, auth),
         UNCHANGED <<config, peer>>,
         ka' \in 0 .. interval, ina' \in 0 .. Inactivity, unanswered' \in Nat,
         \/ kept = len /\ cursor' = cursor
         \/ kept = 0 /\ cursor' = 0 /\ cursor = len /\ by = 0,
         side = "server" /\ ~authed => n < hs \/ n = 0
  PROVE  Inv'
<1> USE ConstantFacts
<1> DEFINE l == Capped(kept + by)
           late == side = "server" /\ ~auth /\ HandshakeLeft(n) <= 0
<1>1. ConfigOK /\ BufferOK /\ WatchOK /\ TimerOK /\ PhaseOK
  BY TypeParts DEF Inv
<1>2. ConfigOK'
  BY <1>1 DEF ConfigOK, config, peer
<1>3. kept \in 0 .. MaxLen /\ l \in 0 .. MaxLen /\ l >= kept
  BY <1>1 DEF BufferOK, Capped, Sooner
<1> HIDE DEF l
<1>4. /\ authed' = auth /\ hs' = HandshakeLeft(n) /\ fresh' = 0 /\ Observes(n, l)
      /\ wake' = Sleep(armed', still', window', auth, hs') /\ owed' = owed + len' - kept
      /\ refused' = IF len > 0 /\ l > 0 THEN Sooner(refused + n, MaxRefused) ELSE 0
  BY DEF Continues, l
<1>5. \/ late /\ TearsDown("HandshakeTimeout", l)
      \/ ~late /\ Stalled(n, l) /\ TearsDown("WriteStalled", l)
      \/ /\ ~late /\ ~Stalled(n, l) /\ UNCHANGED <<phase, cause, grace>>
         /\ \E b \in Batch(l, auth) : len' = Capped(l + b)
  BY DEF Continues, l
<1>6. len' \in l .. MaxLen
  <2>1. \A b \in Nat : Capped(l + b) \in l .. MaxLen
    BY <1>3 DEF Capped, Sooner
  <2>2. Batch(l, auth) \subseteq Nat
    BY DEF Batch
  <2> QED BY <1>5, <2>1, <2>2 DEF TearsDown
<1>7. BufferOK' /\ FlushExact'
  <2>1. cursor' \in 0 .. kept /\ owed \in Nat /\ owed = kept - cursor'
    <3>1. owed = len - cursor /\ cursor \in 0 .. len /\ len \in Nat /\ owed \in Nat
      BY <1>1 DEF Inv, FlushExact, BufferOK
    <3> QED BY <3>1
  <2>2. owed' = owed + len' - kept /\ fresh' \in Nat
    BY <1>4
  <2>3. len' \in kept .. MaxLen
    BY <1>3, <1>6
  <2>4. owed' = (kept - cursor') + len' - kept
    BY <2>1, <2>2
  <2>5. /\ owed' = len' - cursor' /\ cursor' \in 0 .. len'
        /\ len' \in 0 .. MaxLen /\ owed' \in Nat
    <3> HIDE ConstantFacts
    <3>1. MaxLen \in Nat
      BY ConstantFacts
    <3> QED BY ONLY <2>1, <2>3, <2>4, <3>1, kept \in Nat, StagedBehindCursor
  <2> QED BY <2>2, <2>5 DEF BufferOK, FlushExact
<1>8. WatchOK'
  <2>1. armed' \in BOOLEAN /\ still' \in Nat /\ window' \in Nat /\ drained' \in Nat
    BY <1>1, <1>4 DEF WatchOK, BufferOK, Observes, Quiet, Drain
  <2>2. refused' \in Nat
    BY <1>1, <1>4 DEF WatchOK, Sooner
  <2> QED BY <2>1, <2>2 DEF WatchOK
<1>9. hs' \in Int /\ hs' <= Handshake
  BY <1>1, <1>4 DEF TimerOK, HandshakeLeft
<1>10. wake' \in 0 .. IdleSleep /\ (~auth /\ hs' > 0 => wake' <= hs')
  BY <1>4, <1>8, <1>9, SleepFacts DEF WatchOK
<1>11. PhaseOK' /\ grace' \in 0 .. Grace
  BY <1>1, <1>5 DEF PhaseOK, TimerOK, TearsDown, Leaves
<1>12. TimerOK'
  <2>1. interval' = interval
    BY DEF config
  <2> QED BY <1>4, <1>9, <1>10, <1>11, <2>1 DEF TimerOK
<1>13. TypeOK'
  BY <1>2, <1>7, <1>8, <1>11, <1>12, TypeParts DEF TypeOK, ConfigOK, BufferOK, WatchOK, TimerOK, PhaseOK
<1>14. side' = side /\ drainPolicy' = drainPolicy
  BY DEF config
<1>15. HandshakeBounded' /\ AwakeInTime'
  <2>1. SUFFICES ASSUME side = "server", phase' = "running"
                 PROVE  hs' >= 0 /\ (~authed' => wake' <= hs')
    BY <1>14 DEF HandshakeBounded, AwakeInTime
  <2>2. ~late
    BY <1>5, <2>1 DEF TearsDown, Leaves
  <2>3. hs >= 0
    BY <2>1 DEF Inv, HandshakeBounded
  <2>4. hs' >= 0
    BY <1>1, <1>4, <2>1, <2>3 DEF HandshakeLeft, TimerOK
  <2>5. ~auth => hs' > 0
    BY <1>4, <1>9, <2>1, <2>2
  <2> QED BY <1>4, <1>10, <2>4, <2>5
<1>16. WatchIsFair'
  <2>1. SUFFICES ASSUME phase' = "running", armed'
                 PROVE  len' > 0 /\ (still' <= refused' \/ refused' = MaxRefused)
    BY DEF WatchIsFair
  <2>2. l > 0
    BY <1>4, <2>1 DEF Observes
  <2>3. len' > 0
    BY <1>3, <1>6, <2>2
  <2>4. CASE ~armed
    BY <1>4, <1>8, <2>3, <2>4 DEF Observes, WatchOK
  <2>5. CASE armed
    <3>1. len > 0 /\ (fresh > 0 \/ still <= refused \/ refused = MaxRefused)
      BY <2>5 DEF Inv, WatchIsFair
    <3>2. still' = IF fresh > 0 THEN 0 ELSE still + n
      BY <1>4, <2>1, <2>5 DEF Observes, Quiet
    <3>3. refused' = Sooner(refused + n, MaxRefused)
      BY <1>4, <2>2, <3>1
    <3> QED BY <1>1, <2>3, <3>1, <3>2, <3>3 DEF Sooner, WatchOK, BufferOK
  <2> QED BY <2>4, <2>5
<1>17. StallIsReal'
  <2>1. SUFFICES ASSUME cause' = "WriteStalled", ~drainPolicy
                 PROVE  refused' >= Progress
    BY <1>14 DEF StallIsReal
  <2>2. Stalled(n, l)
    BY <1>1, <1>5, <2>1 DEF TearsDown, Leaves, PhaseOK
  <2>3. armed /\ l > 0 /\ Quiet(n) >= Progress
    BY <2>1, <2>2 DEF Stalled
  <2>4. len > 0 /\ (fresh > 0 \/ still <= refused \/ refused = MaxRefused)
    BY <2>3 DEF Inv, WatchIsFair
  <2>5. fresh = 0 /\ still + n >= Progress
    BY <1>1, <2>3 DEF Quiet, BufferOK
  <2>6. refused' = Sooner(refused + n, MaxRefused)
    BY <1>4, <2>3, <2>4
  <2> QED BY <1>1, <2>4, <2>5, <2>6 DEF Sooner, WatchOK
<1> QED BY <1>7, <1>13, <1>15, <1>16, <1>17 DEF Inv

\* A session starts with the invariant: nothing staged, the supervisor's first
\* sleep no longer than the handshake deadline.
LEMMA InitKeepsInv == Init => Inv
<1> SUFFICES ASSUME Init PROVE Inv
  OBVIOUS
<1>1. /\ wake = Sleep(FALSE, 0, 0, FALSE, Handshake) /\ hs = Handshake /\ ka = interval
      /\ ina = Inactivity /\ unanswered = 0 /\ grace = 0 /\ authed = FALSE
      /\ phase = "running" /\ cause = "none"
  BY DEF Init
<1>2. wake \in 0 .. IdleSleep /\ wake <= hs /\ hs >= 0 /\ hs \in Int /\ hs <= Handshake
  <2>1. Handshake \in Int /\ Handshake > 0
    BY RunLoopAssumption
  <2>2. /\ Sleep(FALSE, 0, 0, FALSE, Handshake) \in 0 .. IdleSleep
        /\ Sleep(FALSE, 0, 0, FALSE, Handshake) <= Handshake
    <3>1. FALSE \in BOOLEAN /\ 0 \in Nat
      OBVIOUS
    <3> QED BY <2>1, <3>1, SleepFacts, Zenon
  <2>3. wake \in 0 .. IdleSleep /\ wake <= hs
    BY <1>1, <2>2, Zenon
  <2>4. hs = Handshake
    BY <1>1
  <2> QED BY <2>1, <2>3, <2>4
<1>3. ConfigOK
  BY DEF Init, ConfigOK
<1>4. BufferOK /\ WatchOK /\ PhaseOK /\ TimerOK
  <2>1. BufferOK
    BY ConstantFacts DEF Init, BufferOK
  <2>2. WatchOK
    BY DEF Init, WatchOK
  <2>3. PhaseOK
    BY <1>1 DEF PhaseOK
  <2>4. interval \in Nat
    BY <1>3, ConstantFacts DEF ConfigOK
  <2>5. TimerOK
    <3>1. authed \in BOOLEAN
      BY <1>1
    <3>2. ina \in 0 .. Inactivity /\ ka \in 0 .. interval /\ unanswered \in Nat /\ grace \in 0 .. Grace
      BY <1>1, <2>4, ConstantFacts
    <3> QED BY <1>2, <3>1, <3>2 DEF TimerOK
  <2> QED BY <2>1, <2>2, <2>3, <2>5
<1>5. FlushExact /\ HandshakeBounded
  BY <1>2 DEF Init, FlushExact, HandshakeBounded
<1>6. AwakeInTime /\ WatchIsFair /\ StallIsReal
  BY <1>1, <1>2 DEF Init, AwakeInTime, WatchIsFair, StallIsReal
<1> QED BY <1>3, <1>4, <1>5, <1>6, TypeParts DEF Inv
-----------------------------------------------------------------------------
\* The timers as Resets leaves them.
LEMMA ResetFacts ==
  ASSUME TimerOK, ConfigOK, NEW n \in Nat, NEW received \in BOOLEAN, Resets(n, received)
  PROVE  ka' \in 0 .. interval /\ ina' \in 0 .. Inactivity /\ unanswered' \in Nat
<1>1. interval \in Nat /\ ka \in 0 .. interval
  BY ConstantFacts DEF ConfigOK, TimerOK
<1>2. ka' = interval \/ ka' = Left(ka, n)
  BY DEF Resets
<1>3. ka' \in 0 .. interval
  BY <1>1, <1>2 DEF Left
<1> QED BY <1>3, ConstantFacts DEF Resets, TimerOK

\* The arms of select! that end in an iteration of the loop.
LEMMA ArmsKeepInv ==
  ASSUME Inv,
         \/ \E n \in 0 .. MaxCallback, by \in 0 .. 1, auth \in BOOLEAN : ReadPacket(n, by, auth)
         \/ \E n \in 0 .. MaxCallback, by \in 0 .. 1 : PumpsInbound(n, by)
         \/ TakesMessage \/ SendsKeepalive \/ SpinsOnKeepalive \/ SupervisorWakes \/ FlushDone
  PROVE  Inv'
<1>1. ConfigOK /\ TimerOK /\ len \in Nat /\ authed \in BOOLEAN /\ MaxCallback \in Nat
  BY TypeParts, ConstantFacts DEF Inv, BufferOK, TimerOK
<1>2. ASSUME NEW n \in 0 .. MaxCallback, NEW by \in 0 .. 1, NEW auth \in BOOLEAN,
             ReadPacket(n, by, auth)
      PROVE  Inv'
  <2>1. n \in Nat /\ by \in Nat
    BY <1>1, <1>2
  <2>2. /\ phase = "running" /\ Resets(n, TRUE) /\ Continues(n, len, by, auth)
        /\ UNCHANGED <<config, peer>> /\ cursor' = cursor
        /\ (side = "server" /\ ~authed => n < hs \/ n = 0)
    BY <1>2 DEF ReadPacket
  <2> QED BY <1>1, <2>1, <2>2, ResetFacts, IterationKeepsInv
<1>3. ASSUME NEW n \in 0 .. MaxCallback, NEW by \in 0 .. 1, PumpsInbound(n, by)
      PROVE  Inv'
  <2>1. n \in Nat /\ by \in Nat
    BY <1>1, <1>3
  <2>2. /\ phase = "running" /\ authed /\ Resets(n, FALSE) /\ Continues(n, len, by, authed)
        /\ UNCHANGED <<config, peer>> /\ cursor' = cursor
    BY <1>3 DEF PumpsInbound
  <2> QED BY <1>1, <2>1, <2>2, ResetFacts, IterationKeepsInv
<1>4. CASE TakesMessage
  <2>1. /\ phase = "running" /\ Resets(0, FALSE) /\ Continues(0, len, 1, authed)
        /\ UNCHANGED <<config, peer>> /\ cursor' = cursor
    BY <1>4 DEF TakesMessage
  <2> QED BY <1>1, <2>1, ResetFacts, IterationKeepsInv
<1>5. CASE SendsKeepalive
  <2>1. /\ phase = "running" /\ Continues(0, len, 1, authed)
        /\ UNCHANGED <<config, peer>> /\ cursor' = cursor
    BY <1>5 DEF SendsKeepalive
  <2>2. ka' \in 0 .. interval /\ ina' \in 0 .. Inactivity /\ unanswered' \in Nat
    <3>1. interval \in Nat /\ unanswered \in Nat /\ ina \in 0 .. Inactivity
      BY <1>1, ConstantFacts DEF ConfigOK, TimerOK
    <3>2. ka' = interval /\ ina' = ina /\ (unanswered' = 0 \/ unanswered' = unanswered + 1)
      BY <1>5 DEF SendsKeepalive
    <3> QED BY <3>1, <3>2
  <2> QED BY <1>1, <2>1, <2>2, IterationKeepsInv
<1>6. CASE SpinsOnKeepalive
  <2>1. /\ phase = "running" /\ Resets(0, FALSE) /\ Continues(0, len, 0, authed)
        /\ UNCHANGED <<config, peer>> /\ cursor' = cursor
    BY <1>6 DEF SpinsOnKeepalive
  <2> QED BY <1>1, <2>1, ResetFacts, IterationKeepsInv
<1>7. CASE SupervisorWakes
  <2>1. /\ phase = "running" /\ Resets(0, FALSE) /\ Continues(0, len, 0, authed)
        /\ UNCHANGED <<config, peer>> /\ cursor' = cursor
    BY <1>7 DEF SupervisorWakes
  <2> QED BY <1>1, <2>1, ResetFacts, IterationKeepsInv
<1>8. CASE FlushDone
  <2>1. /\ phase = "running" /\ Resets(0, FALSE) /\ Continues(0, 0, 0, authed)
        /\ UNCHANGED <<config, peer>> /\ cursor' = 0 /\ cursor = len
    BY <1>8 DEF FlushDone
  <2> QED BY <1>1, <2>1, ResetFacts, IterationKeepsInv
<1> QED BY <1>2, <1>3, <1>4, <1>5, <1>6, <1>7, <1>8

\* The steps that do not end an iteration, one by one.
LEMMA OthersKeepInv ==
  ASSUME Inv,
         \/ ReplyTimesOut \/ ReadEnds \/ KeepaliveGivesUp \/ TimesOutInactive
         \/ \E n \in 1 .. MaxLen : WritesSome(n)
         \/ Tick \/ TeardownTick \/ TeardownEnds \/ PeerToggles \/ FallsSilent
         \/ UNCHANGED vars
  PROVE  Inv'
<1> USE ConstantFacts
<1>1. ConfigOK /\ BufferOK /\ WatchOK /\ TimerOK /\ PhaseOK
  BY TypeParts DEF Inv
<1>2. FlushExact /\ HandshakeBounded /\ AwakeInTime /\ WatchIsFair /\ StallIsReal
  BY DEF Inv
<1>3. SUFFICES /\ ConfigOK' /\ BufferOK' /\ WatchOK' /\ TimerOK' /\ PhaseOK'
               /\ FlushExact' /\ HandshakeBounded' /\ AwakeInTime' /\ WatchIsFair' /\ StallIsReal'
  BY TypeParts DEF Inv, TypeOK, ConfigOK, BufferOK, WatchOK, TimerOK, PhaseOK
<1>4. CASE ReplyTimesOut
  <2>1. /\ phase = "running" /\ side = "server" /\ hs' = 0 /\ ka' = Left(ka, hs) /\ ina' = Left(ina, hs)
        /\ cause' = "HandshakeTimeout" /\ phase' = "teardown" /\ grace' = Grace
        /\ len' = Capped(len + 1) /\ owed' = owed + len' - len
        /\ UNCHANGED <<config, authed, cursor, fresh, dog, refused, unanswered, wake, peer>>
    BY <1>4 DEF ReplyTimesOut, TearsDown, Leaves
  <2>2. ConfigOK' /\ WatchOK' /\ PhaseOK'
    BY <1>1, <2>1 DEF ConfigOK, WatchOK, PhaseOK, config, dog, peer
  <2>3. TimerOK'
    <3>1. hs >= 0 /\ hs \in Int /\ interval \in Nat /\ interval' = interval
      BY <1>1, <1>2, <2>1 DEF HandshakeBounded, TimerOK, ConfigOK, config
    <3>2. ka' \in 0 .. interval /\ ina' \in 0 .. Inactivity
      BY <1>1, <2>1, <3>1 DEF Left, TimerOK
    <3>3. grace' \in 0 .. Grace /\ hs' \in Int /\ hs' <= Handshake
      BY <2>1
    <3>4. authed' \in BOOLEAN /\ wake' \in 0 .. IdleSleep /\ unanswered' \in Nat
      BY <1>1, <2>1 DEF TimerOK
    <3> QED BY <3>1, <3>2, <3>3, <3>4 DEF TimerOK
  <2>4. BufferOK' /\ FlushExact'
    <3>1. cursor' \in 0 .. len /\ owed = len - cursor' /\ len \in 0 .. MaxLen /\ fresh' \in Nat
      BY <1>1, <1>2, <2>1 DEF BufferOK, FlushExact
    <3>2. len' \in len .. MaxLen
      BY <2>1, <3>1 DEF Capped, Sooner
    <3>3. owed' = (len - cursor') + len' - len
      BY <2>1, <3>1
    <3>4. /\ owed' = len' - cursor' /\ cursor' \in 0 .. len'
          /\ len' \in 0 .. MaxLen /\ owed' \in Nat
      <4>1. MaxLen \in Nat /\ len \in Nat
        BY <3>1
      <4> QED BY ONLY <3>1, <3>2, <3>3, <4>1, StagedBehindCursor
    <3> QED BY <3>1, <3>4 DEF BufferOK, FlushExact
  <2>5. HandshakeBounded' /\ AwakeInTime' /\ WatchIsFair' /\ StallIsReal'
    BY <2>1 DEF HandshakeBounded, AwakeInTime, WatchIsFair, StallIsReal
  <2> QED BY <2>2, <2>3, <2>4, <2>5
<1>5. CASE ReadEnds \/ TimesOutInactive
  <2>1. /\ phase' \in {"teardown", "closed"} /\ grace' = Grace
        /\ cause' \in {"Disconnect", "IO", "InactivityTimeout"}
        /\ UNCHANGED <<config, authed, writer, fresh, dog, timers, peer, owed, refused>>
    BY <1>5 DEF ReadEnds, TimesOutInactive, Leaves, Fails
  <2>2. ConfigOK' /\ WatchOK' /\ PhaseOK' /\ BufferOK' /\ FlushExact'
    BY <1>1, <1>2, <2>1 DEF ConfigOK, WatchOK, PhaseOK, BufferOK, FlushExact, config, dog, peer, writer
  <2>3. TimerOK'
    BY <1>1, <2>1 DEF TimerOK, timers, config
  <2>4. HandshakeBounded' /\ AwakeInTime' /\ WatchIsFair' /\ StallIsReal'
    BY <2>1 DEF HandshakeBounded, AwakeInTime, WatchIsFair, StallIsReal
  <2> QED BY <2>2, <2>3, <2>4
<1>6. CASE KeepaliveGivesUp
  <2>1. /\ phase' \in {"teardown", "closed"} /\ grace' = Grace
        /\ cause' = "KeepaliveTimeout" /\ unanswered' = unanswered + 1
        /\ UNCHANGED <<config, authed, writer, fresh, dog, hs, ka, ina, wake, peer, owed, refused>>
    BY <1>6 DEF KeepaliveGivesUp, Fails
  <2>2. ConfigOK' /\ WatchOK' /\ PhaseOK' /\ BufferOK' /\ FlushExact'
    BY <1>1, <1>2, <2>1 DEF ConfigOK, WatchOK, PhaseOK, BufferOK, FlushExact, config, dog, peer, writer
  <2>3. TimerOK'
    BY <1>1, <2>1 DEF TimerOK, config
  <2>4. HandshakeBounded' /\ AwakeInTime' /\ WatchIsFair' /\ StallIsReal'
    BY <2>1 DEF HandshakeBounded, AwakeInTime, WatchIsFair, StallIsReal
  <2> QED BY <2>2, <2>3, <2>4
<1>7. ASSUME NEW n \in 1 .. MaxLen, WritesSome(n)
      PROVE  /\ ConfigOK' /\ BufferOK' /\ WatchOK' /\ TimerOK' /\ PhaseOK'
             /\ FlushExact' /\ HandshakeBounded' /\ AwakeInTime' /\ WatchIsFair' /\ StallIsReal'
  <2>1. /\ n <= len - cursor /\ cursor' = cursor + n /\ fresh' = fresh + n /\ owed' = owed - n
        /\ (refused' = 0 \/ refused' = refused) /\ (phase = "running" => refused' = 0)
        /\ (phase # "running" => refused' = refused)
        /\ UNCHANGED <<config, phase, cause, authed, len, dog, timers, grace, peer>>
    BY <1>7 DEF WritesSome
  <2>2. ConfigOK' /\ WatchOK' /\ PhaseOK'
    BY <1>1, <2>1 DEF ConfigOK, WatchOK, PhaseOK, config, dog, peer
  <2>3. TimerOK'
    BY <1>1, <2>1 DEF TimerOK, timers, config
  <2>4. BufferOK' /\ FlushExact'
    <3>1. /\ len' = len /\ len \in 0 .. MaxLen /\ cursor \in 0 .. len /\ n \in Nat
          /\ owed = len - cursor /\ fresh \in Nat
      BY <1>1, <1>2, <2>1 DEF BufferOK, FlushExact
    <3>2. cursor' \in 0 .. len /\ owed' = len - cursor' /\ fresh' \in Nat
      BY <2>1, <3>1
    <3>3. owed' \in Nat
      <4>1. owed \in Nat /\ n <= owed
        BY <1>1, <2>1, <3>1 DEF BufferOK
      <4>2. n \in Nat
        BY <3>1
      <4> QED BY <2>1, <4>1, <4>2
    <3> QED BY <3>1, <3>2, <3>3 DEF BufferOK, FlushExact
  <2>5. HandshakeBounded' /\ AwakeInTime'
    BY <1>2, <2>1 DEF HandshakeBounded, AwakeInTime, config, timers
  <2>6. WatchIsFair'
    <3>1. fresh' > 0
      BY <1>1, <2>1 DEF BufferOK
    <3> QED BY <1>2, <2>1, <3>1 DEF WatchIsFair, dog
  <2>7. StallIsReal'
    BY <1>1, <1>2, <2>1 DEF StallIsReal, PhaseOK, config
  <2> QED BY <2>2, <2>3, <2>4, <2>5, <2>6, <2>7
<1>8. CASE Tick
  <2>1. /\ phase = "running" /\ ~Due /\ hs' = HandshakeLeft(1) /\ ka' = Left(ka, 1)
        /\ wake' = Left(wake, 1) /\ (ina' = Inactivity \/ ina' = ina - 1)
        /\ still' = (IF armed THEN still + 1 ELSE 0)
        /\ window' = (IF armed /\ drainPolicy THEN window + 1 ELSE 0)
        /\ refused' = (IF len > 0 THEN Sooner(refused + 1, MaxRefused) ELSE 0)
        /\ UNCHANGED <<config, phase, cause, authed, writer, fresh, armed, drained,
                       unanswered, grace, peer, owed>>
    BY <1>8 DEF Tick
  <2>2. ina # 0 /\ (side = "server" => wake # 0)
    BY <2>1 DEF Due
  <2>3. ConfigOK' /\ PhaseOK' /\ BufferOK' /\ FlushExact'
    BY <1>1, <1>2, <2>1 DEF ConfigOK, PhaseOK, BufferOK, FlushExact, config, peer, writer
  <2>4. WatchOK'
    <3>1. still' \in Nat /\ window' \in Nat /\ refused' \in Nat
      BY <1>1, <2>1 DEF WatchOK, Sooner
    <3> QED BY <1>1, <2>1, <3>1 DEF WatchOK
  <2>5. TimerOK'
    <3>1. interval \in Nat /\ interval' = interval
      BY <1>1, <2>1 DEF ConfigOK, config
    <3>2. ka' \in 0 .. interval /\ wake' \in 0 .. IdleSleep
      BY <1>1, <2>1, <3>1 DEF Left, TimerOK
    <3>3. ina' \in 0 .. Inactivity
      BY <1>1, <2>1, <2>2 DEF TimerOK
    <3>4. hs' \in Int /\ hs' <= Handshake
      BY <1>1, <2>1 DEF TimerOK, HandshakeLeft
    <3>5. authed' \in BOOLEAN /\ unanswered' \in Nat /\ grace' \in 0 .. Grace
      BY <1>1, <2>1 DEF TimerOK
    <3> QED BY <3>1, <3>2, <3>3, <3>4, <3>5 DEF TimerOK
  <2>6. HandshakeBounded' /\ AwakeInTime'
    <3>1. SUFFICES ASSUME side = "server"
                   PROVE  hs' >= 0 /\ (~authed => wake' <= hs')
      BY <2>1 DEF HandshakeBounded, AwakeInTime, config
    <3>2. hs >= 0 /\ hs \in Int /\ wake \in Nat /\ wake # 0 /\ (~authed => wake <= hs)
      BY <1>1, <1>2, <2>1, <2>2, <3>1 DEF HandshakeBounded, AwakeInTime, TimerOK
    <3>3. hs' = IF authed THEN hs ELSE hs - 1
      BY <2>1, <3>1 DEF HandshakeLeft
    <3> QED BY <2>1, <3>2, <3>3 DEF Left
  <2>7. WatchIsFair'
    <3>1. SUFFICES ASSUME armed
                   PROVE  len > 0 /\ (fresh > 0 \/ still' <= refused' \/ refused' = MaxRefused)
      BY <2>1 DEF WatchIsFair, writer
    <3>2. len > 0 /\ (fresh > 0 \/ still <= refused \/ refused = MaxRefused)
      BY <1>2, <2>1, <3>1 DEF WatchIsFair
    <3>3. still' = still + 1 /\ refused' = Sooner(refused + 1, MaxRefused)
      BY <2>1, <3>1, <3>2
    <3> QED BY <1>1, <3>2, <3>3 DEF Sooner, WatchOK, BufferOK
  <2>8. StallIsReal'
    BY <1>1, <2>1 DEF StallIsReal, PhaseOK
  <2> QED BY <2>3, <2>4, <2>5, <2>6, <2>7, <2>8
<1>9. CASE TeardownTick \/ TeardownEnds
  <2>1. /\ phase = "teardown" /\ phase' \in {"teardown", "closed"} /\ grace' \in 0 .. Grace
        /\ UNCHANGED <<config, cause, authed, writer, fresh, dog, timers, peer, owed, refused>>
    BY <1>1, <1>9 DEF TeardownTick, TeardownEnds, TimerOK
  <2>2. ConfigOK' /\ WatchOK' /\ PhaseOK' /\ BufferOK' /\ FlushExact'
    BY <1>1, <1>2, <2>1 DEF ConfigOK, WatchOK, PhaseOK, BufferOK, FlushExact, config, dog, peer, writer
  <2>3. TimerOK'
    BY <1>1, <2>1 DEF TimerOK, timers, config
  <2>4. HandshakeBounded' /\ AwakeInTime' /\ WatchIsFair' /\ StallIsReal'
    BY <1>2, <2>1 DEF HandshakeBounded, AwakeInTime, WatchIsFair, StallIsReal, config
  <2> QED BY <2>2, <2>3, <2>4
<1>10. CASE PeerToggles \/ FallsSilent \/ UNCHANGED vars
  <2>1. /\ reading' \in BOOLEAN /\ silent' \in BOOLEAN
        /\ UNCHANGED <<config, phase, cause, authed, writer, fresh, dog, timers, grace, owed, refused>>
    BY <1>1, <1>10 DEF PeerToggles, FallsSilent, ConfigOK, vars, peer
  <2>2. ConfigOK' /\ WatchOK' /\ PhaseOK' /\ BufferOK' /\ FlushExact'
    BY <1>1, <1>2, <2>1 DEF ConfigOK, WatchOK, PhaseOK, BufferOK, FlushExact, config, dog, writer
  <2>3. TimerOK'
    BY <1>1, <2>1 DEF TimerOK, timers, config
  <2>4. HandshakeBounded' /\ AwakeInTime' /\ WatchIsFair' /\ StallIsReal'
    BY <1>2, <2>1 DEF HandshakeBounded, AwakeInTime, WatchIsFair, StallIsReal, config, timers, dog, writer
  <2> QED BY <2>2, <2>3, <2>4
<1> QED BY <1>4, <1>5, <1>6, <1>7, <1>8, <1>9, <1>10
-----------------------------------------------------------------------------
\* The invariant holds of every behaviour.
THEOREM InvHolds == Spec => []Inv
<1>1. Inv /\ [Next]_vars => Inv'
  BY ArmsKeepInv, OthersKeepInv DEF Next
<1> QED BY <1>1, InitKeepsInv, PTL DEF Spec

\* Buffer, watchdog, timers and phase keep their shape whatever the loop does;
\* the flush cursor never passes the end of the write buffer.
THEOREM RunLoopTypeCorrect == Spec => []TypeOK
<1>1. Inv => TypeOK
  BY DEF Inv
<1> QED BY <1>1, InvHolds, PTL

\* PacketWriter: for any buffer and any deadlines, a flush that other arms of
\* select! cancel at any point repeats no byte and skips none.
THEOREM FlushAlwaysExact == Spec => []FlushExact
<1>1. Inv => FlushExact
  BY DEF Inv
<1> QED BY <1>1, InvHolds, PTL

\* The server's supervisor: for any handshake_deadline, any callback and any
\* sleep, a session past its deadline is authenticated or no longer running.
THEOREM HandshakeAlwaysBounded == Spec => []HandshakeBounded
<1>1. Inv => HandshakeBounded
  BY DEF Inv
<1> QED BY <1>1, InvHolds, PTL

\* The write watchdog: for any write_progress_deadline, WriteStalled is only
\* reported of a connection that took no byte for the whole of it.
THEOREM StallsAreReal == Spec => []StallIsReal
<1>1. Inv => StallIsReal
  BY DEF Inv
<1> QED BY <1>1, InvHolds, PTL
=============================================================================
