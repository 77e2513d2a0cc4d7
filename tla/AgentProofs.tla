---------------------------- MODULE AgentProofs ----------------------------
(***************************************************************************)
(* Proofs about Agent, for any number of connections, keys, passphrases    *)
(* and calls: the lock holds, a key is never lost to the timer of an       *)
(* earlier addition, and a call that reports success was carried out.      *)
(***************************************************************************)
EXTENDS Agent, SequenceTheorems, TLAPS

ConstraintNames == {"lifetime", "confirm", "extension"}

\* Whatever travels to the agent, or stands for the absence of a request.
Frame ==
  [id : Nat, op : {"list", "remove_all", "clear", "smartcard", "extension", "empty", "huge", "none"}]
    \cup [id : Nat, op : {"sign", "remove"}, key : Keys]
    \cup [id : Nat, op : {"add"}, key : Keys, cons : Constraints]
    \cup [id : Nat, op : {"lock", "unlock"}, pass : Passes]

\* What travels back.
Reply == [id : Nat, kind : {"success", "failure", "signature", "identities"}, done : BOOLEAN]

ConnsOK == /\ conn \in [Conns -> {"read", "confirm", "ended"}]
           /\ cur \in [Conns -> Frame] /\ sent \in [Conns -> Seq(Frame)]
           /\ answers \in [Conns -> Seq(Reply)]
ClientsOK == /\ call \in [Conns -> Frame] /\ calls \in [Conns -> Nat]
             /\ dropped \in [Conns -> BOOLEAN] /\ DOMAIN result = Conns
StoreOK == /\ keys \in [Keys -> [time : Nat, cons : Seq(ConstraintNames)]] /\ clock \in Nat
           /\ \A k \in Keys : keys[k].time <= clock
           /\ timers \subseteq Keys \X Nat
           /\ \A t \in timers : t[2] > 0 /\ t[2] <= clock
LockOK == lock \in Seq(STRING) /\ overlap \in BOOLEAN

\* A timer that runs for a stored key was started by a lifetime of that key.
TimersOwned ==
  \A k \in Keys : <<k, keys[k].time>> \in timers => Has(keys[k].cons, "lifetime")

\* The fields that a frame has.
LEMMA FrameFields ==
  ASSUME NEW r \in Frame
  PROVE  /\ r.id \in Nat
         /\ r.op \in {"sign", "remove", "add"} => r.key \in Keys
         /\ r.op = "add" => r.cons \in Constraints
         /\ r.op \in {"lock", "unlock"} => r.pass \in Passes
BY DEF Frame

\* The requests of a client are frames, and so is what the agent reads of them.
LEMMA RequestIsFrame ==
  ASSUME NEW c \in Conns, NEW id \in Nat, NEW r \in Request(c, id)
  PROVE  r \in Frame /\ r.op \in OpNames /\ r.id = id /\ Frames(r) \in Seq(Frame)
<1>1. Ops[c] \subseteq OpNames
  BY AgentAssumption
<1>2. r \in Frame /\ r.op \in OpNames /\ r.id = id
  BY <1>1 DEF Request, Frame, OpNames
<1>3. [id |-> r.id, op |-> "empty"] \in Frame /\ [id |-> r.id, op |-> "huge"] \in Frame
  BY <1>2, FrameFields DEF Frame
<1>4. <<[id |-> r.id, op |-> "empty"], [id |-> r.id, op |-> "huge"]>> \in Seq(Frame)
  BY <1>3
<1>5. <<r>> \in Seq(Frame)
  BY <1>2
<1> QED BY <1>2, <1>4, <1>5 DEF Frames
-----------------------------------------------------------------------------
(* The shape of the state. *)

\* Every step keeps the connections' queues well formed.
LEMMA ConnsStep ==
  ASSUME ConnsOK, ClientsOK, [Next]_vars
  PROVE  ConnsOK'
<1> USE DEF ConnsOK, ClientsOK
<1>0. NoCall \in Frame
  BY DEF NoCall, Frame
<1>1. ASSUME NEW c \in Conns, ClientCall(c) PROVE ConnsOK'
  <2>1. calls[c] + 1 \in Nat /\ calls'[c] = calls[c] + 1
    BY <1>1 DEF ClientCall
  <2>2. PICK r \in Request(c, calls'[c]) :
          sent' = [sent EXCEPT ![c] = IF conn[c] = "ended" THEN @ ELSE @ \o Frames(r)]
    BY <1>1 DEF ClientCall
  <2>3. Frames(r) \in Seq(Frame)
    BY <2>1, RequestIsFrame
  <2>4. sent[c] \o Frames(r) \in Seq(Frame)
    BY <2>3
  <2>5. sent' \in [Conns -> Seq(Frame)]
    BY <2>2, <2>4
  <2> QED BY <1>1, <2>5 DEF ClientCall
<1>2. ASSUME NEW c \in Conns, ClientReturns(c) PROVE ConnsOK'
  BY <1>2 DEF ClientReturns
<1>3. ASSUME NEW c \in Conns, ClientFails(c) \/ ClientDrops(c) PROVE ConnsOK'
  BY <1>3 DEF ClientFails, ClientDrops
<1>4. ASSUME NEW c \in Conns, NEW r \in Frame, NEW done \in BOOLEAN,
             NEW kind \in {"success", "failure", "signature", "identities"},
             Answer(c, r, kind, done)
      PROVE  answers' \in [Conns -> Seq(Reply)]
  <2>1. [id |-> r.id, kind |-> kind, done |-> done] \in Reply
    BY FrameFields DEF Reply
  <2> QED BY <1>4, <2>1 DEF Answer
<1>5. ASSUME NEW c \in Conns, ReadRequest(c) PROVE ConnsOK'
  <2>1. Head(sent[c]) \in Frame /\ sent' \in [Conns -> Seq(Frame)]
    BY <1>5 DEF ReadRequest
  <2>2. CASE Admitted(Head(sent[c]))
    BY <1>5, <2>1, <2>2 DEF ReadRequest
  <2>3. CASE ~Admitted(Head(sent[c]))
    <3>1. answers' \in [Conns -> Seq(Reply)]
      BY <1>4, <1>5, <2>1, <2>3 DEF ReadRequest
    <3> QED BY <1>5, <2>1, <2>3, <3>1 DEF ReadRequest
  <2> QED BY <2>2, <2>3
<1>6. ASSUME NEW c \in Conns, ReadEmpty(c) PROVE ConnsOK'
  <2>1. Head(sent[c]) \in Frame /\ sent' \in [Conns -> Seq(Frame)]
    BY <1>6 DEF ReadEmpty
  <2>2. answers' \in [Conns -> Seq(Reply)]
    BY <1>4, <1>6, <2>1 DEF ReadEmpty
  <2> QED BY <1>6, <2>1, <2>2 DEF ReadEmpty
<1>7. ASSUME NEW c \in Conns, ReadHuge(c) PROVE ConnsOK'
  BY <1>7 DEF ReadHuge
<1>8. ASSUME NEW c \in Conns, Refuse(c) PROVE ConnsOK'
  <2>1. answers' \in [Conns -> Seq(Reply)]
    BY <1>4, <1>8 DEF Refuse
  <2> QED BY <1>0, <1>8, <2>1 DEF Refuse
<1>9. ASSUME NEW c \in Conns, Grant(c) PROVE ConnsOK'
  <2>1. answers' \in [Conns -> Seq(Reply)]
    <3>1. cur[c] \in Frame
      OBVIOUS
    <3>2. (keys[cur[c].key] # NoKey) \in BOOLEAN /\ (lock = cur[c].pass) \in BOOLEAN
          /\ Inserted(cur[c]) \in BOOLEAN
      BY DEF Inserted
    <3>3. CASE List(c)
      BY <1>4, <3>1, <3>3 DEF List
    <3>4. CASE Sign(c)
      BY <1>4, <3>1, <3>2, <3>4 DEF Sign
    <3>5. CASE Add(c)
      BY <1>4, <3>1, <3>2, <3>5 DEF Add
    <3>6. CASE Remove(c)
      BY <1>4, <3>1, <3>2, <3>6 DEF Remove
    <3>7. CASE SetLock(c)
      BY <1>4, <3>1, <3>7 DEF SetLock
    <3>8. CASE Unlock(c)
      BY <1>4, <3>1, <3>2, <3>8 DEF Unlock
    <3>9. CASE Clear(c)
      BY <1>4, <3>1, <3>9 DEF Clear
    <3> QED BY <1>9, <3>3, <3>4, <3>5, <3>6, <3>7, <3>8, <3>9 DEF Grant
  <2>2. /\ conn' = [conn EXCEPT ![c] = "read"] /\ cur' = [cur EXCEPT ![c] = NoCall]
        /\ sent' = sent
    BY <1>9 DEF Grant, List, Sign, Add, Remove, Clear, SetLock, Unlock, Granted
  <2> QED BY <1>0, <2>1, <2>2
<1>10. ASSUME NEW t \in timers, TimerFires(t) PROVE ConnsOK'
  BY <1>10 DEF TimerFires
<1>11. CASE UNCHANGED vars
  BY <1>11 DEF vars
<1> QED BY <1>1, <1>2, <1>3, <1>5, <1>6, <1>7, <1>8, <1>9, <1>10, <1>11 DEF Next, Serve

\* Every step keeps the clients' state well formed.
LEMMA ClientsStep ==
  ASSUME ClientsOK, [Next]_vars
  PROVE  ClientsOK'
<1> USE DEF ClientsOK
<1>0. NoCall \in Frame
  BY DEF NoCall, Frame
<1>1. ASSUME NEW c \in Conns, ClientCall(c) PROVE ClientsOK'
  <2>1. calls[c] + 1 \in Nat /\ calls'[c] = calls[c] + 1 /\ calls' \in [Conns -> Nat]
    BY <1>1 DEF ClientCall
  <2>2. PICK r \in Request(c, calls'[c]) : call' = [call EXCEPT ![c] = r]
    BY <1>1 DEF ClientCall
  <2>3. r \in Frame
    BY <2>1, RequestIsFrame
  <2> QED BY <1>1, <2>1, <2>2, <2>3 DEF ClientCall
<1>2. ASSUME NEW c \in Conns, ClientReturns(c) \/ ClientFails(c) \/ ClientDrops(c) PROVE ClientsOK'
  BY <1>0, <1>2 DEF ClientReturns, ClientFails, ClientDrops
<1>3. ASSUME NEW c \in Conns, Serve(c) PROVE UNCHANGED clientVars
  BY <1>3 DEF Serve, ReadRequest, ReadEmpty, ReadHuge, Refuse, Grant, List, Sign, Add, Remove, Clear,
              SetLock, Unlock, Granted
<1>4. ASSUME NEW t \in timers, TimerFires(t) PROVE UNCHANGED clientVars
  BY <1>4 DEF TimerFires
<1>5. UNCHANGED clientVars => ClientsOK'
  BY DEF clientVars
<1>6. CASE UNCHANGED vars
  BY <1>6 DEF vars
<1> QED BY <1>1, <1>2, <1>3, <1>4, <1>5, <1>6 DEF Next

\* Only a grant of Add, Remove, Clear, SetLock or Unlock and a timer touch the store.
LEMMA StoreSteps ==
  ASSUME [Next]_vars
  PROVE  \/ \E c \in Conns : Add(c) \/ Remove(c) \/ Clear(c) \/ SetLock(c) \/ Unlock(c)
         \/ \E t \in timers : TimerFires(t)
         \/ UNCHANGED storeVars
<1>1. ASSUME NEW c \in Conns, ClientCall(c) \/ ClientReturns(c) \/ ClientFails(c) \/ ClientDrops(c)
      PROVE  UNCHANGED storeVars
  BY <1>1 DEF ClientCall, ClientReturns, ClientFails, ClientDrops
<1>2. ASSUME NEW c \in Conns, Serve(c)
      PROVE  Add(c) \/ Remove(c) \/ Clear(c) \/ SetLock(c) \/ Unlock(c) \/ UNCHANGED storeVars
  BY <1>2 DEF Serve, ReadRequest, ReadEmpty, ReadHuge, Refuse, Grant, List, Sign
<1>3. CASE UNCHANGED vars
  BY <1>3 DEF vars, storeVars
<1> QED BY <1>1, <1>2, <1>3 DEF Next

\* What an addition does to the store, when the request is well formed.
LEMMA AddFacts ==
  ASSUME ConnsOK, StoreOK, NEW c \in Conns, Add(c)
  PROVE  /\ cur[c].key \in Keys /\ cur[c].cons \in Seq(ConstraintNames)
         /\ EntryOf(cur[c]) \in [time : Nat, cons : Seq(ConstraintNames)]
         /\ EntryOf(cur[c]).time = clock + 1 /\ EntryOf(cur[c]).cons = cur[c].cons
         /\ TimersOf(cur[c]) \subseteq {<<cur[c].key, clock + 1>>}
         /\ TimersOf(cur[c]) # {} => Has(cur[c].cons, "lifetime")
<1>1. cur[c].op = "add" /\ cur[c] \in Frame /\ clock \in Nat
  BY DEF Add, Granted, ConnsOK, StoreOK
<1>2. cur[c].key \in Keys /\ cur[c].cons \in Constraints
  BY <1>1, FrameFields
<1>3. cur[c].cons \in Seq(ConstraintNames)
  BY <1>2, AgentAssumption DEF ConstraintNames
<1> QED BY <1>1, <1>2, <1>3 DEF EntryOf, TimersOf, Has

\* Every step keeps the store well formed: no time is ahead of the clock.
LEMMA StoreStep ==
  ASSUME ConnsOK, StoreOK, [Next]_vars
  PROVE  StoreOK'
<1>1. ASSUME NEW c \in Conns, Add(c) PROVE StoreOK'
  <2> DEFINE r == cur[c]
  <2>1. /\ r.key \in Keys /\ EntryOf(r) \in [time : Nat, cons : Seq(ConstraintNames)]
        /\ EntryOf(r).time = clock + 1
        /\ TimersOf(r) \subseteq {<<r.key, clock + 1>>}
    BY <1>1, AddFacts
  <2>2. /\ clock' = clock + 1 /\ timers' = timers \cup TimersOf(r)
        /\ keys' = keys \/ keys' = [keys EXCEPT ![r.key] = EntryOf(r)]
    BY <1>1 DEF Add
  <2> HIDE DEF r
  <2>3. keys' \in [Keys -> [time : Nat, cons : Seq(ConstraintNames)]]
    BY <2>1, <2>2 DEF StoreOK
  <2>4. ASSUME NEW k \in Keys PROVE keys'[k].time <= clock'
    <3>1. keys'[k] = keys[k] \/ keys'[k] = EntryOf(r)
      BY <2>1, <2>2 DEF StoreOK
    <3>2. keys[k].time <= clock /\ keys[k].time \in Nat /\ clock \in Nat
      BY DEF StoreOK
    <3> QED BY <2>1, <2>2, <3>1, <3>2
  <2>5. timers' \subseteq Keys \X Nat /\ \A t \in timers' : t[2] > 0 /\ t[2] <= clock'
    <3>1. <<r.key, clock + 1>> \in Keys \X Nat
      BY <2>1 DEF StoreOK
    <3> QED BY <2>1, <2>2, <3>1 DEF StoreOK
  <2> QED BY <2>2, <2>3, <2>4, <2>5 DEF StoreOK
<1>2. NoKey \in [time : Nat, cons : Seq(ConstraintNames)] /\ NoKey.time = 0
  BY DEF NoKey
<1>3. ASSUME NEW c \in Conns, Remove(c) PROVE StoreOK'
  <2>1. cur[c].key \in Keys
    BY <1>3, FrameFields DEF Remove, Granted, ConnsOK
  <2> QED BY <1>2, <1>3, <2>1 DEF Remove, StoreOK
<1>7. ASSUME NEW c \in Conns, Clear(c) PROVE StoreOK'
  BY <1>2, <1>7 DEF Clear, StoreOK
<1>4. ASSUME NEW c \in Conns, SetLock(c) \/ Unlock(c) PROVE StoreOK'
  BY <1>4 DEF SetLock, Unlock, StoreOK
<1>5. ASSUME NEW t \in timers, TimerFires(t) PROVE StoreOK'
  BY <1>2, <1>5 DEF TimerFires, StoreOK
<1>6. CASE UNCHANGED storeVars
  BY <1>6 DEF storeVars, StoreOK
<1> QED BY <1>1, <1>3, <1>4, <1>5, <1>6, <1>7, StoreSteps

\* A timer of a stored key belongs to that very addition: a time names one
\* addition only.
LEMMA TimersStep ==
  ASSUME ConnsOK, StoreOK, TimersOwned, [Next]_vars
  PROVE  TimersOwned'
<1>1. ASSUME NEW c \in Conns, Add(c) PROVE TimersOwned'
  <2> DEFINE r == cur[c]
  <2>1. /\ r.key \in Keys /\ EntryOf(r).time = clock + 1 /\ EntryOf(r).cons = r.cons
        /\ TimersOf(r) \subseteq {<<r.key, clock + 1>>}
        /\ TimersOf(r) # {} => Has(r.cons, "lifetime")
    BY <1>1, AddFacts
  <2>2. /\ timers' = timers \cup TimersOf(r)
        /\ keys' = keys \/ keys' = [keys EXCEPT ![r.key] = EntryOf(r)]
    BY <1>1 DEF Add
  <2> HIDE DEF r
  <2> SUFFICES ASSUME NEW k \in Keys, <<k, keys'[k].time>> \in timers'
               PROVE  Has(keys'[k].cons, "lifetime")
    BY DEF TimersOwned
  <2>3. CASE k = r.key /\ keys' = [keys EXCEPT ![r.key] = EntryOf(r)]
    <3>1. keys'[k] = EntryOf(r)
      BY <2>3 DEF StoreOK
    <3>2. <<k, clock + 1>> \notin timers
      BY DEF StoreOK
    <3> QED BY <2>1, <2>2, <3>1, <3>2
  <2>4. CASE ~(k = r.key /\ keys' = [keys EXCEPT ![r.key] = EntryOf(r)])
    <3>1. keys'[k] = keys[k] /\ keys[k].time <= clock
      BY <2>2, <2>4 DEF StoreOK
    <3>2. keys[k].time \in Nat /\ clock \in Nat
      BY DEF StoreOK
    <3>3. <<k, keys[k].time>> \in timers
      BY <2>1, <2>2, <3>1, <3>2
    <3> QED BY <3>1, <3>3 DEF TimersOwned
  <2> QED BY <2>3, <2>4
<1>2. ASSUME NEW k \in Keys PROVE <<k, NoKey.time>> \notin timers
  BY DEF NoKey, StoreOK
<1>3. ASSUME NEW c \in Conns, Remove(c) PROVE TimersOwned'
  BY <1>2, <1>3 DEF Remove, StoreOK, TimersOwned
<1>7. ASSUME NEW c \in Conns, Clear(c) PROVE TimersOwned'
  BY <1>2, <1>7 DEF Clear, StoreOK, TimersOwned
<1>4. ASSUME NEW c \in Conns, SetLock(c) \/ Unlock(c) PROVE TimersOwned'
  BY <1>4 DEF SetLock, Unlock, TimersOwned
<1>5. ASSUME NEW t \in timers, TimerFires(t) PROVE TimersOwned'
  BY <1>2, <1>5 DEF TimerFires, StoreOK, TimersOwned
<1>6. CASE UNCHANGED storeVars
  BY <1>6 DEF storeVars, TimersOwned
<1> QED BY <1>1, <1>3, <1>4, <1>5, <1>6, <1>7, StoreSteps
-----------------------------------------------------------------------------
(* The lock. *)

\* No passphrase at all is a sequence too.
LEMMA EmptyPass == <<>> \in Seq(STRING)
OBVIOUS

\* The lock is a passphrase, however often it was set.
LEMMA LockStep ==
  ASSUME ConnsOK, LockOK, LockHolds, [Next]_vars
  PROVE  LockOK' /\ LockOpens'
<1>1. ASSUME NEW c \in Conns, SetLock(c) PROVE LockOK' /\ LockOpens'
  <2>1. cur[c].op = "lock" /\ conn[c] = "confirm" /\ cur[c] \in Frame
    BY <1>1 DEF SetLock, Granted, ConnsOK
  <2>2. cur[c].pass \in Passes /\ cur[c].pass \in Seq(STRING)
    BY <2>1, FrameFields, AgentAssumption
  <2>3. lock' = lock \o cur[c].pass /\ overlap' = (overlap \/ (lock # <<>> /\ c \in before))
    BY <1>1 DEF SetLock
  <2>4. lock' \in Seq(STRING)
    BY <2>2, <2>3 DEF LockOK
  <2>5. CASE lock = <<>>
    <3>1. lock' = cur[c].pass
      BY <2>2, <2>3, <2>5
    <3> QED BY <2>2, <2>3, <2>4, <3>1 DEF LockOK, LockOpens
  <2>6. CASE lock # <<>>
    <3>1. c \in before
      BY <2>1, <2>6 DEF LockHolds, LockRespected
    <3>2. overlap' = TRUE
      BY <2>3, <2>6, <3>1
    <3> QED BY <2>4, <3>2 DEF LockOK, LockOpens
  <2> QED BY <2>5, <2>6
<1>2. ASSUME NEW c \in Conns, Unlock(c) PROVE LockOK' /\ LockOpens'
  <2>1. (lock' = lock \/ lock' = <<>>) /\ overlap' = overlap
    BY <1>2 DEF Unlock
  <2> QED BY <2>1, EmptyPass DEF LockOK, LockOpens, LockHolds
<1>3. ASSUME NEW c \in Conns, Add(c) \/ Remove(c) \/ Clear(c) PROVE LockOK' /\ LockOpens'
  BY <1>3 DEF Add, Remove, Clear, LockOK, LockOpens, LockHolds
<1>4. ASSUME NEW t \in timers, TimerFires(t) PROVE LockOK' /\ LockOpens'
  BY <1>4 DEF TimerFires, LockOK, LockOpens, LockHolds
<1>5. CASE UNCHANGED storeVars
  BY <1>5 DEF storeVars, LockOK, LockOpens, LockHolds
<1> QED BY <1>1, <1>2, <1>3, <1>4, <1>5, StoreSteps

\* No request joins those that await their confirmation behind a Lock.
LEMMA RespectStep ==
  ASSUME ConnsOK, LockRespected, [Next]_vars
  PROVE  LockRespected'
<1> USE DEF ConnsOK, LockRespected
<1>1. ASSUME NEW c \in Conns, ClientCall(c) \/ ClientReturns(c) \/ ClientFails(c) \/ ClientDrops(c)
      PROVE  LockRespected'
  BY <1>1 DEF ClientCall, ClientReturns, ClientFails, ClientDrops, storeVars
<1>2. ASSUME NEW c \in Conns, ReadRequest(c) PROVE LockRespected'
  BY <1>2 DEF ReadRequest, Admitted, storeVars
<1>3. ASSUME NEW c \in Conns, ReadEmpty(c) \/ ReadHuge(c) PROVE LockRespected'
  BY <1>3 DEF ReadEmpty, ReadHuge, storeVars
<1>4. ASSUME NEW c \in Conns, Refuse(c) PROVE LockRespected'
  BY <1>4 DEF Refuse, storeVars
<1>5. ASSUME NEW c \in Conns, List(c) \/ Sign(c) \/ Add(c) \/ Remove(c) \/ Clear(c) \/ Unlock(c)
      PROVE  LockRespected'
  <2>1. /\ conn' = [conn EXCEPT ![c] = "read"] /\ cur' = [cur EXCEPT ![c] = NoCall]
        /\ before' = before \ {c} /\ (lock' # <<>> => lock # <<>>)
    BY <1>5 DEF List, Sign, Add, Remove, Clear, Unlock, Granted, storeVars
  <2> QED BY <2>1
<1>6. ASSUME NEW c \in Conns, SetLock(c) PROVE LockRespected'
  BY <1>6 DEF SetLock, Granted
<1>7. ASSUME NEW t \in timers, TimerFires(t) PROVE LockRespected'
  BY <1>7 DEF TimerFires
<1>8. CASE UNCHANGED vars
  BY <1>8 DEF vars
<1> QED BY <1>1, <1>2, <1>3, <1>4, <1>5, <1>6, <1>7, <1>8 DEF Next, Serve, Grant

\* The inductive invariant behind the lock and the timers.
LockInv == ConnsOK /\ ClientsOK /\ StoreOK /\ LockOK /\ TimersOwned /\ LockHolds

\* It holds at the start and every step keeps it.
LEMMA LockInvAlways == Spec => []LockInv
<1>1. Init => LockInv
  <2> SUFFICES ASSUME Init PROVE LockInv
    OBVIOUS
  <2>1. ConnsOK /\ ClientsOK
    BY DEF Init, ConnsOK, ClientsOK, NoCall, NoResult, Frame
  <2>2. StoreOK /\ TimersOwned
    BY DEF Init, StoreOK, TimersOwned, NoKey
  <2>3. LockOK /\ LockHolds
    BY EmptyPass DEF Init, LockOK, LockHolds, LockRespected, LockOpens
  <2> QED BY <2>1, <2>2, <2>3 DEF LockInv
<1>2. LockInv /\ [Next]_vars => LockInv'
  BY ConnsStep, ClientsStep, StoreStep, TimersStep, LockStep, RespectStep DEF LockInv, LockHolds
<1> QED BY <1>1, <1>2, PTL DEF Spec

\* The lock of the agent holds, for any number of connections: respond looks at
\* it once, before confirm_request, and yet nothing that came after a granted
\* Lock is served, and what locks it is a passphrase that some client gave.
THEOREM LockAlwaysHolds == Spec => []LockHolds
BY LockInvAlways, PTL DEF LockInv

\* A key is lost only to a Remove or RemoveAll request or to the timer of its own last
\* addition: the task of an earlier addition compares the times and leaves the
\* newer key alone.
THEOREM KeysStay == Spec => KeyStays
<1> DEFINE Kept == \A k \in Keys : keys[k] # NoKey /\ keys'[k] = NoKey =>
             \/ \E c \in Conns : conn[c] = "confirm" /\ conn'[c] = "read"
                                 /\ cur[c].op \in {"remove", "clear"}
             \/ /\ Has(keys[k].cons, "lifetime")
                /\ <<k, keys[k].time>> \in timers \ timers'
<1>1. LockInv /\ [Next]_vars => [Kept]_vars
  <2> SUFFICES ASSUME LockInv, [Next]_vars PROVE Kept
    OBVIOUS
  <2> USE DEF LockInv
  <2>1. ASSUME NEW c \in Conns, Add(c) PROVE Kept
    <3>1. EntryOf(cur[c]).time = clock + 1 /\ clock + 1 # 0 /\ NoKey.time = 0
      BY <2>1, AddFacts DEF StoreOK, NoKey
    <3>2. EntryOf(cur[c]) # NoKey
      BY <3>1
    <3>3. keys' = keys \/ keys' = [keys EXCEPT ![cur[c].key] = EntryOf(cur[c])]
      BY <2>1 DEF Add
    <3> QED BY <3>2, <3>3 DEF StoreOK
  <2>2. ASSUME NEW c \in Conns, Remove(c) PROVE Kept
    BY <2>2 DEF Remove, Granted, ConnsOK
  <2>6. ASSUME NEW c \in Conns, Clear(c) PROVE Kept
    BY <2>6 DEF Clear, Granted, ConnsOK
  <2>3. ASSUME NEW c \in Conns, SetLock(c) \/ Unlock(c) PROVE Kept
    BY <2>3 DEF SetLock, Unlock
  <2>4. ASSUME NEW t \in timers, TimerFires(t) PROVE Kept
    <3> SUFFICES ASSUME NEW k \in Keys, keys[k] # NoKey, keys'[k] = NoKey
                 PROVE  Has(keys[k].cons, "lifetime") /\ <<k, keys[k].time>> \in timers \ timers'
      OBVIOUS
    <3>1. k = t[1] /\ keys[k].time = t[2] /\ timers' = timers \ {t}
      BY <2>4 DEF TimerFires, Expires, StoreOK
    <3>2. t = <<k, keys[k].time>>
      BY <3>1 DEF StoreOK
    <3> QED BY <3>1, <3>2 DEF TimersOwned
  <2>5. CASE UNCHANGED storeVars
    BY <2>5 DEF storeVars
  <2> QED BY <2>1, <2>2, <2>3, <2>4, <2>5, <2>6, StoreSteps
<1> QED BY <1>1, LockInvAlways, PTL DEF Spec, KeyStays
-----------------------------------------------------------------------------
(* The answers. *)

\* What an answer may say of the request it answers.
Truthful(r, a) ==
  /\ a.id = r.id
  /\ r.op = "add" /\ a.kind = "success" => a.done \/ Has(r.cons, "extension")
  /\ r.op = "sign" /\ a.kind = "signature" => a.done
  /\ r.op = "remove_all" => a.kind # "success"

\* The agent answers nothing of this any more: an oversized length ends it.
Rest(s) == s = <<>> \/ s[1].op = "huge"

\* Where the call of a client is, whose calls were never dropped: no answer will
\* come, on the wire, awaiting its confirmation, or answered.
Barren(c) == answers[c] = <<>> /\ conn[c] # "confirm" /\ Rest(sent[c])
OnWire(c) == answers[c] = <<>> /\ conn[c] = "read" /\ sent[c] = Frames(call[c])
Awaiting(c) == /\ answers[c] = <<>> /\ conn[c] = "confirm" /\ cur[c] = call[c]
               /\ sent[c] = <<>>
Answered(c) == /\ Len(answers[c]) = 1 /\ conn[c] # "confirm" /\ Rest(sent[c])
               /\ Truthful(call[c], answers[c][1])

\* At most one request of a connection is under way, and it is the client's.
InStep(c) == ~dropped[c] => \/ Barren(c)
                            \/ call[c] # NoCall /\ (OnWire(c) \/ Awaiting(c) \/ Answered(c))
Reported(c) ==
  result[c].kind = "ok" /\ result[c].call.op \in {"add", "sign", "remove_all"} =>
    \/ dropped[c]
    \/ result[c].call.op = "add" /\ Has(result[c].call.cons, "extension")
    \/ result[c].answer.done /\ result[c].answer.id = result[c].call.id
CallsInStep == \A c \in Conns : InStep(c) /\ Reported(c)

\* What the steps of one connection leave alone of another.
SameLine(d) == /\ answers'[d] = answers[d] /\ conn'[d] = conn[d] /\ sent'[d] = sent[d]
               /\ cur'[d] = cur[d] /\ call'[d] = call[d] /\ dropped'[d] = dropped[d]
               /\ result'[d] = result[d]

\* A connection that no step touched is as much in step as before.
LEMMA SameLineKeeps ==
  ASSUME NEW d \in Conns, InStep(d), Reported(d), SameLine(d)
  PROVE  InStep(d)' /\ Reported(d)'
<1>1. InStep(d)'
  BY DEF SameLine, InStep, Barren, OnWire, Awaiting, Answered
<1>2. Reported(d)'
  BY DEF SameLine, Reported
<1> QED BY <1>1, <1>2

\* The steps of a connection and of its client touch nothing else.
LEMMA OtherLines ==
  ASSUME ConnsOK, ClientsOK, NEW c \in Conns, NEW d \in Conns, c # d,
         ClientCall(c) \/ ClientReturns(c) \/ ClientFails(c) \/ ClientDrops(c) \/ Serve(c)
  PROVE  SameLine(d)
<1> USE DEF ConnsOK, ClientsOK, SameLine
<1>1. CASE ClientCall(c)
  BY <1>1 DEF ClientCall
<1>2. CASE ClientReturns(c) \/ ClientFails(c) \/ ClientDrops(c)
  BY <1>2 DEF ClientReturns, ClientFails, ClientDrops
<1>3. CASE ReadRequest(c) \/ ReadEmpty(c) \/ ReadHuge(c) \/ Refuse(c)
  BY <1>3 DEF ReadRequest, ReadEmpty, ReadHuge, Refuse, Answer, clientVars
<1>4. CASE Grant(c)
  BY <1>4 DEF Grant, List, Sign, Add, Remove, Clear, SetLock, Unlock, Granted, Answer, clientVars
<1> QED BY <1>1, <1>2, <1>3, <1>4 DEF Serve

\* The first answer to a request that awaited one is the answer to the call.
LEMMA FirstAnswer ==
  ASSUME ConnsOK, NEW c \in Conns, answers[c] = <<>>, NEW r, NEW kind, NEW done,
         Answer(c, r, kind, done)
  PROVE  Len(answers'[c]) = 1 /\ answers'[c][1] = [id |-> r.id, kind |-> kind, done |-> done]
<1>1. answers'[c] = Append(<<>>, [id |-> r.id, kind |-> kind, done |-> done])
  BY DEF Answer, ConnsOK
<1> QED BY <1>1

\* A refusal promises nothing.
LEMMA FailureIsTruthful ==
  ASSUME NEW r, NEW done
  PROVE  Truthful(r, [id |-> r.id, kind |-> "failure", done |-> done])
BY DEF Truthful

\* A call that is made while nothing is under way.
LEMMA CallKeeps ==
  ASSUME ConnsOK, ClientsOK, NEW c \in Conns, ClientCall(c), InStep(c), Reported(c)
  PROVE  InStep(c)' /\ Reported(c)'
<1>1. calls[c] + 1 \in Nat /\ calls'[c] = calls[c] + 1
  BY DEF ClientCall, ClientsOK
<1>2. PICK r \in Request(c, calls'[c]) :
        /\ call' = [call EXCEPT ![c] = r]
        /\ sent' = [sent EXCEPT ![c] = IF conn[c] = "ended" THEN @ ELSE @ \o Frames(r)]
  BY DEF ClientCall
<1>3. r \in Frame /\ r.op \in OpNames /\ Frames(r) \in Seq(Frame)
  BY <1>1, RequestIsFrame
<1>4. r # NoCall /\ call'[c] = r
  BY <1>2, <1>3 DEF NoCall, OpNames, ClientsOK
<1>5. /\ answers'[c] = answers[c] /\ conn'[c] = conn[c] /\ dropped'[c] = dropped[c]
      /\ sent'[c] = IF conn[c] = "ended" THEN sent[c] ELSE sent[c] \o Frames(r)
      /\ sent[c] \in Seq(Frame) /\ conn[c] \in {"read", "confirm", "ended"}
  BY <1>2 DEF ClientCall, ConnsOK
<1>6. Reported(c)'
  BY DEF ClientCall, ClientsOK, NoResult, Reported
<1>7. SUFFICES ASSUME ~dropped[c] PROVE Barren(c)' \/ OnWire(c)'
  BY <1>4, <1>5, <1>6 DEF InStep
<1>8. Barren(c)
  BY <1>7 DEF InStep, ClientCall
<1>9. CASE conn[c] = "ended"
  BY <1>5, <1>8, <1>9 DEF Barren
<1>10. CASE conn[c] = "read" /\ sent[c] = <<>>
  <2>1. sent'[c] = Frames(r)
    BY <1>3, <1>5, <1>10
  <2> QED BY <1>4, <1>5, <1>8, <1>10, <2>1 DEF Barren, OnWire
<1>11. CASE conn[c] = "read" /\ sent[c] # <<>>
  <2>1. sent[c][1].op = "huge"
    BY <1>8, <1>11 DEF Barren, Rest
  <2>2. sent'[c][1] = sent[c][1]
    BY <1>3, <1>5, <1>11
  <2> QED BY <1>5, <1>8, <2>1, <2>2 DEF Barren, Rest
<1> QED BY <1>5, <1>8, <1>9, <1>10, <1>11 DEF Barren

\* A call that returns was given its own answer.
LEMMA ReturnKeeps ==
  ASSUME ConnsOK, ClientsOK, NEW c \in Conns, ClientReturns(c), InStep(c), Reported(c)
  PROVE  InStep(c)' /\ Reported(c)'
<1> DEFINE a == answers[c][1]
<1>1. /\ answers[c] \in Seq(Reply) /\ answers[c] # <<>> /\ answers'[c] = Tail(answers[c])
      /\ sent'[c] = sent[c] /\ conn'[c] = conn[c] /\ dropped'[c] = dropped[c]
      /\ result'[c] = [call |-> call[c], kind |-> Outcome(call[c], a.kind), answer |-> a]
  BY DEF ClientReturns, ConnsOK, ClientsOK
<1> HIDE DEF a
<1>2. CASE dropped[c]
  BY <1>1, <1>2 DEF InStep, Reported
<1>3. CASE ~dropped[c]
  <2>1. Answered(c)
    BY <1>1, <1>3 DEF InStep, Barren, OnWire, Awaiting
  <2>2. answers'[c] = <<>>
    <3>1. Len(answers[c]) = 1
      BY <2>1 DEF Answered
    <3>2. Len(Tail(answers[c])) = 0 /\ Tail(answers[c]) \in Seq(Reply)
      BY <1>1, <3>1
    <3> QED BY <1>1, <3>2, EmptySeq
  <2>3. Barren(c)'
    BY <1>1, <2>1, <2>2 DEF Answered, Barren
  <2>4. Truthful(call[c], a)
    BY <2>1 DEF Answered, a
  <2>5. /\ call[c].op \in {"add", "remove_all"} /\ Outcome(call[c], a.kind) = "ok" => a.kind = "success"
        /\ call[c].op = "sign" /\ Outcome(call[c], a.kind) = "ok" => a.kind = "signature"
    BY DEF Outcome
  <2>6. Reported(c)'
    BY <1>1, <2>4, <2>5 DEF Truthful, Reported
  <2> QED BY <2>3, <2>6 DEF InStep
<1> QED BY <1>2, <1>3

\* The other ends of a call: the stream has ended, or the future is dropped.
LEMMA EndKeeps ==
  ASSUME ConnsOK, ClientsOK, NEW c \in Conns, ClientFails(c) \/ ClientDrops(c),
         InStep(c), Reported(c)
  PROVE  InStep(c)' /\ Reported(c)'
<1>1. CASE ClientFails(c)
  <2>1. /\ answers'[c] = answers[c] /\ sent'[c] = sent[c] /\ conn'[c] = conn[c]
        /\ dropped'[c] = dropped[c] /\ result'[c].kind = "closed"
        /\ answers[c] = <<>> /\ conn[c] = "ended"
    BY <1>1 DEF ClientFails, ClientsOK
  <2> QED BY <2>1 DEF InStep, Barren, OnWire, Awaiting, Answered, Reported
<1>2. CASE ClientDrops(c)
  <2>1. dropped'[c] = TRUE
    BY <1>2 DEF ClientDrops, ClientsOK
  <2> QED BY <2>1 DEF InStep, Reported
<1> QED BY <1>1, <1>2

\* What the agent reads keeps the line in step.
LEMMA ReadKeeps ==
  ASSUME ConnsOK, ClientsOK, NEW c \in Conns, ReadRequest(c) \/ ReadEmpty(c) \/ ReadHuge(c),
         InStep(c), Reported(c)
  PROVE  InStep(c)' /\ Reported(c)'
<1>1. /\ call'[c] = call[c] /\ dropped'[c] = dropped[c] /\ result'[c] = result[c]
      /\ sent[c] \in Seq(Frame) /\ sent[c] # <<>> /\ conn[c] = "read"
  BY DEF ReadRequest, ReadEmpty, ReadHuge, clientVars, ConnsOK
<1>2. Reported(c)'
  BY <1>1 DEF Reported
<1>3. SUFFICES ASSUME ~dropped[c] PROVE InStep(c)'
  BY <1>1, <1>2 DEF InStep
<1>4. CASE ReadHuge(c)
  <2>1. sent'[c] = <<>> /\ conn'[c] = "ended" /\ answers'[c] = answers[c]
    BY <1>4 DEF ReadHuge, ConnsOK
  <2> QED BY <1>1, <1>3, <2>1 DEF InStep, Barren, OnWire, Awaiting, Answered, Rest
<1>5. CASE ReadRequest(c) \/ ReadEmpty(c)
  <2>1. sent'[c] = Tail(sent[c]) /\ sent[c][1].op # "huge"
    <3>1. /\ sent' = [sent EXCEPT ![c] = Tail(@)] /\ Head(sent[c]).op # "huge"
      BY <1>5 DEF ReadRequest, ReadEmpty
    <3>2. sent \in [Conns -> Seq(Frame)]
      BY DEF ConnsOK
    <3> QED BY <1>1, <3>1, <3>2
  <2>2. OnWire(c) /\ call[c] # NoCall
    BY <1>1, <1>3, <2>1 DEF InStep, Barren, Awaiting, Answered, Rest
  <2>3. \/ sent[c] = <<call[c]>>
        \/ sent[c] = <<[id |-> call[c].id, op |-> "empty"], [id |-> call[c].id, op |-> "huge"]>>
    BY <2>2 DEF OnWire, Frames
  <2>4. sent[c][1].id = call[c].id /\ Rest(sent'[c])
    BY <2>1, <2>3 DEF Rest
  <2>5. ASSUME Answer(c, Head(sent[c]), "failure", FALSE), conn'[c] = conn[c]
        PROVE  Answered(c)'
    <3>1. /\ Len(answers'[c]) = 1
          /\ answers'[c][1] = [id |-> Head(sent[c]).id, kind |-> "failure", done |-> FALSE]
      <4>1. answers[c] = <<>>
        BY <2>2 DEF OnWire
      <4>2. answers'[c] = Append(<<>>, [id |-> Head(sent[c]).id, kind |-> "failure", done |-> FALSE])
        BY <2>5, <4>1 DEF Answer, ConnsOK
      <4> QED BY <4>2
    <3>2. Head(sent[c]).id = call[c].id
      BY <2>4
    <3>3. Truthful(call[c], answers'[c][1])
      BY <3>1, <3>2, FailureIsTruthful
    <3> QED BY <1>1, <2>4, <2>5, <3>1, <3>3 DEF Answered
  <2>6. CASE ReadEmpty(c)
    BY <1>1, <2>2, <2>5, <2>6 DEF ReadEmpty, InStep
  <2>7. CASE ReadRequest(c) /\ ~Admitted(Head(sent[c]))
    BY <1>1, <2>2, <2>5, <2>7 DEF ReadRequest, InStep
  <2>8. CASE ReadRequest(c) /\ Admitted(Head(sent[c]))
    <3>1. sent[c][1].op # "empty"
      BY <2>8 DEF ReadRequest, ConnsOK
    <3>2. sent[c] = <<call[c]>>
      BY <2>3, <3>1
    <3>3. sent'[c] = <<>> /\ Head(sent[c]) = call[c]
      BY <2>1, <3>2
    <3>4. conn'[c] = "confirm" /\ cur'[c] = call[c] /\ answers'[c] = answers[c]
      BY <2>8, <3>3 DEF ReadRequest, ConnsOK
    <3> QED BY <1>1, <2>2, <3>3, <3>4 DEF InStep, OnWire, Awaiting
  <2> QED BY <1>5, <2>6, <2>7, <2>8
<1> QED BY <1>4, <1>5

\* What the agent answers after confirm_request is true.
LEMMA ServeKeeps ==
  ASSUME ConnsOK, ClientsOK, NEW c \in Conns, Refuse(c) \/ Grant(c), InStep(c), Reported(c)
  PROVE  InStep(c)' /\ Reported(c)'
<1>1. /\ call'[c] = call[c] /\ dropped'[c] = dropped[c] /\ result'[c] = result[c]
      /\ sent'[c] = sent[c] /\ conn[c] = "confirm" /\ conn'[c] = "read"
  BY DEF Refuse, Grant, List, Sign, Add, Remove, Clear, SetLock, Unlock, Granted, clientVars, ConnsOK
<1>2. Reported(c)'
  BY <1>1 DEF Reported
<1>3. SUFFICES ASSUME ~dropped[c] PROVE Answered(c)' /\ call[c] # NoCall
  BY <1>1, <1>2 DEF InStep
<1>4. Awaiting(c) /\ call[c] # NoCall
  BY <1>1, <1>3 DEF InStep, Barren, OnWire, Answered
<1>5. ASSUME NEW kind, NEW done, Answer(c, cur[c], kind, done),
             Truthful(cur[c], [id |-> cur[c].id, kind |-> kind, done |-> done])
      PROVE  Answered(c)'
  <2>1. /\ Len(answers'[c]) = 1
        /\ answers'[c][1] = [id |-> cur[c].id, kind |-> kind, done |-> done]
    BY <1>4, <1>5, FirstAnswer DEF Awaiting
  <2> QED BY <1>1, <1>4, <1>5, <2>1 DEF Answered, Awaiting, Rest
<1>6. CASE Refuse(c)
  BY <1>4, <1>5, <1>6, FailureIsTruthful DEF Refuse
<1>7. CASE Grant(c)
  <2> DEFINE found == keys[cur[c].key] # NoKey
             opens == lock = cur[c].pass
  <2>1. CASE List(c)
    <3>1. Truthful(cur[c], [id |-> cur[c].id, kind |-> "identities", done |-> TRUE])
      BY <2>1 DEF List, Granted, Truthful
    <3>2. Answer(c, cur[c], "identities", TRUE)
      BY <2>1 DEF List
    <3> QED BY <1>4, <1>5, <3>1, <3>2, Zenon
  <2>2. CASE Sign(c)
    <3>1. Truthful(cur[c], [id |-> cur[c].id, kind |-> IF found THEN "signature" ELSE "failure",
                            done |-> found])
      BY <2>2 DEF Sign, Granted, Truthful
    <3>2. Answer(c, cur[c], IF found THEN "signature" ELSE "failure", found)
      BY <2>2 DEF Sign
    <3> QED BY <1>4, <1>5, <3>1, <3>2, Zenon
  <2>3. CASE Add(c)
    <3>1. Truthful(cur[c], [id |-> cur[c].id, kind |-> "success", done |-> Inserted(cur[c])])
      BY <2>3 DEF Add, Granted, Truthful, Inserted
    <3>2. Answer(c, cur[c], "success", Inserted(cur[c]))
      BY <2>3 DEF Add
    <3> QED BY <1>4, <1>5, <3>1, <3>2, Zenon
  <2>4. CASE Remove(c)
    <3>1. Truthful(cur[c], [id |-> cur[c].id, kind |-> IF found THEN "success" ELSE "failure",
                            done |-> found])
      BY <2>4 DEF Remove, Granted, Truthful
    <3>2. Answer(c, cur[c], IF found THEN "success" ELSE "failure", found)
      BY <2>4 DEF Remove
    <3> QED BY <1>4, <1>5, <3>1, <3>2, Zenon
  <2>5. CASE SetLock(c)
    <3>1. Truthful(cur[c], [id |-> cur[c].id, kind |-> "success", done |-> TRUE])
      BY <2>5 DEF SetLock, Granted, Truthful
    <3>2. Answer(c, cur[c], "success", TRUE)
      BY <2>5 DEF SetLock
    <3> QED BY <1>4, <1>5, <3>1, <3>2, Zenon
  <2>6. CASE Unlock(c)
    <3>1. Truthful(cur[c], [id |-> cur[c].id, kind |-> IF opens THEN "success" ELSE "failure",
                            done |-> opens])
      BY <2>6 DEF Unlock, Granted, Truthful
    <3>2. Answer(c, cur[c], IF opens THEN "success" ELSE "failure", opens)
      BY <2>6 DEF Unlock
    <3> QED BY <1>4, <1>5, <3>1, <3>2, Zenon
  <2>7. CASE Clear(c)
    <3>1. Truthful(cur[c], [id |-> cur[c].id, kind |-> "success", done |-> TRUE])
      BY <2>7 DEF Clear, Granted, Truthful
    <3>2. Answer(c, cur[c], "success", TRUE)
      BY <2>7 DEF Clear
    <3> QED BY <1>4, <1>5, <3>1, <3>2, Zenon
  <2> QED BY <1>7, <2>1, <2>2, <2>3, <2>4, <2>5, <2>6, <2>7 DEF Grant
<1> QED BY <1>4, <1>6, <1>7

\* Every step keeps every connection in step.
LEMMA CallsStep ==
  ASSUME ConnsOK, ClientsOK, CallsInStep, [Next]_vars
  PROVE  CallsInStep'
<1> SUFFICES ASSUME NEW d \in Conns PROVE InStep(d)' /\ Reported(d)'
  BY DEF CallsInStep
<1>0. InStep(d) /\ Reported(d)
  BY DEF CallsInStep
<1>1. ASSUME NEW c \in Conns, c # d,
             ClientCall(c) \/ ClientReturns(c) \/ ClientFails(c) \/ ClientDrops(c) \/ Serve(c)
      PROVE  InStep(d)' /\ Reported(d)'
  BY <1>0, <1>1, OtherLines, SameLineKeeps
<1>2. CASE ClientCall(d) \/ ClientReturns(d) \/ ClientFails(d) \/ ClientDrops(d) \/ Serve(d)
  BY <1>0, <1>2, CallKeeps, ReturnKeeps, EndKeeps, ReadKeeps, ServeKeeps DEF Serve
<1>3. ASSUME NEW t \in timers, TimerFires(t) PROVE InStep(d)' /\ Reported(d)'
  BY <1>0, <1>3, SameLineKeeps DEF TimerFires, clientVars, SameLine
<1>4. CASE UNCHANGED vars
  BY <1>0, <1>4, SameLineKeeps DEF vars, SameLine
<1> QED BY <1>1, <1>2, <1>3, <1>4 DEF Next

\* A call that reports success was carried out, for any number of clients and
\* of calls: at most one answer is ever on its way, and it answers this call,
\* although the protocol carries no request identifiers.
THEOREM SuccessMeansDone == Spec => []OkMeansDone
<1>1. Init => CallsInStep
  BY DEF Init, CallsInStep, InStep, Reported, Barren, Rest, NoResult
<1>2. LockInv /\ CallsInStep /\ [Next]_vars => CallsInStep'
  BY CallsStep DEF LockInv
<1>3. CallsInStep => OkMeansDone
  BY DEF CallsInStep, Reported, OkMeansDone
<1> QED BY <1>1, <1>2, <1>3, LockInvAlways, PTL DEF Spec
=============================================================================
