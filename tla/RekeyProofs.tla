---------------------------- MODULE RekeyProofs ----------------------------
(***************************************************************************)
(* Proofs about Rekey, for any number of exchanges and any traffic around  *)
(* them: the server's rekey deadline belongs to the exchange under way,    *)
(* and the two sides change keys and sequence numbers in step.             *)
(***************************************************************************)
EXTENDS Rekey, SequenceTheorems, TLAPS

Fates == {"alive", "cannot open", "kex error", "RekeyTimeout", "hangup"}

\* What the deadline depends on: the states of the exchange and the counters.
Shape ==
  /\ kex \in [Side -> KexStates] /\ fate \in [Side -> Fates]
  /\ deadline \in Nat /\ rekeyGen \in Nat /\ gex \in BOOLEAN

\* The inductive invariant; it holds also of a server that has ended, whose
\* deadline is as its last step left it.
DeadlineInv ==
  /\ Shape
  /\ IF Active("server") THEN deadline = rekeyGen /\ deadline # 0 ELSE deadline = 0

\* A message that is part of an exchange leaves it under way.
LEMMA AfterIsActive ==
  ASSUME gex \in BOOLEAN, NEW kind \in KexKinds \ {"newkeys"}
  PROVE  After(kind) \in KexStates \ {"idle"}
<1>1. kind \in {"kexinit", "gexreq", "gexgroup", "dhinit", "reply"}
  BY DEF KexKinds
<1>2. CASE kind = "kexinit"
  BY <1>2 DEF After, KexStates
<1>3. CASE kind \in {"gexreq", "gexgroup"}
  BY <1>3 DEF After, KexStates
<1>4. CASE kind \in {"dhinit", "reply"}
  BY <1>4 DEF After, KexStates
<1> QED BY <1>1, <1>2, <1>3, <1>4

\* register on the server arms a deadline for the new exchange.
LEMMA RegisterArms ==
  ASSUME DeadlineInv, register("server")
  PROVE  /\ rekeyGen' \in Nat /\ deadline' \in Nat
         /\ deadline' = rekeyGen' /\ deadline' # 0
BY DEF register, DeadlineInv, Shape

\* One step of the exchange on a side: its state, and the deadline on the server.
LEMMA RecvKexKeepsDeadline ==
  ASSUME DeadlineInv, NEW s \in Side, RecvKex(s)
  PROVE  DeadlineInv'
<1> DEFINE kind == Head1(s).kind
<1>1. /\ kind \in KexKinds \ {"newkeys"} /\ kex' = [kex EXCEPT ![s] = After(kind)]
      /\ Expects(s, kind) /\ fate' = fate /\ gex' = gex
      /\ IF kind = "kexinit" /\ kex[s] = "idle" THEN register(s) ELSE UNCHANGED deadlineVars
  BY DEF RecvKex, Incoming, keyVars
<1> HIDE DEF kind
<1>2. After(kind) \in KexStates \ {"idle"}
  BY <1>1, AfterIsActive DEF DeadlineInv, Shape
<1>3. kex' \in [Side -> KexStates] /\ fate' \in [Side -> Fates] /\ gex' \in BOOLEAN
  BY <1>1, <1>2 DEF DeadlineInv, Shape
<1>4. CASE s = "client"
  <2>1. kex'["server"] = kex["server"] /\ deadline' = deadline /\ rekeyGen' = rekeyGen
    BY <1>1, <1>4 DEF DeadlineInv, Shape, register, deadlineVars, Side
  <2> QED BY <1>3, <2>1 DEF DeadlineInv, Shape, Active
<1>5. CASE s = "server"
  <2>1. kex'["server"] # "idle"
    BY <1>1, <1>2, <1>5 DEF DeadlineInv, Shape, Side
  <2>2. CASE kind = "kexinit" /\ kex[s] = "idle"
    BY <1>1, <1>3, <1>5, <2>1, <2>2, RegisterArms DEF DeadlineInv, Shape, Active
  <2>3. CASE ~(kind = "kexinit" /\ kex[s] = "idle")
    <3>1. kex["server"] # "idle"
      BY <1>1, <1>5, <2>3 DEF Expects, KexKinds
    <3> QED BY <1>1, <1>3, <2>1, <2>3, <3>1 DEF DeadlineInv, Shape, Active, deadlineVars
  <2> QED BY <2>2, <2>3
<1> QED BY <1>4, <1>5 DEF Side

\* NEWKEYS ends the exchange and, on the server, the deadline with it.
LEMMA RecvNewKeysKeepsDeadline ==
  ASSUME DeadlineInv, NEW s \in Side, RecvNewKeys(s)
  PROVE  DeadlineInv'
<1>1. /\ kex' = [kex EXCEPT ![s] = "idle"] /\ deadline' = (IF s = "server" THEN 0 ELSE deadline)
      /\ fate' = fate /\ gex' = gex /\ rekeyGen' = rekeyGen
  BY DEF RecvNewKeys, clear_rekey_deadline
<1>2. "idle" \in KexStates
  BY DEF KexStates
<1>3. Shape'
  BY <1>1, <1>2 DEF DeadlineInv, Shape
<1>4. CASE s = "client"
  BY <1>1, <1>3, <1>4 DEF DeadlineInv, Shape, Active, Side
<1>5. CASE s = "server"
  BY <1>1, <1>3, <1>5 DEF DeadlineInv, Shape, Active, Side
<1> QED BY <1>4, <1>5 DEF Side

\* The own start of an exchange.
LEMMA BeginRekeyKeepsDeadline ==
  ASSUME DeadlineInv, NEW s \in Side, BeginRekey(s)
  PROVE  DeadlineInv'
<1>1. kex' = [kex EXCEPT ![s] = "created"] /\ register(s) /\ fate' = fate /\ gex' = gex
  BY DEF BeginRekey, keyVars
<1>2. kex' \in [Side -> KexStates] /\ fate' \in [Side -> Fates] /\ gex' \in BOOLEAN
  BY <1>1 DEF DeadlineInv, Shape, KexStates
<1>3. CASE s = "client"
  <2>1. kex'["server"] = kex["server"] /\ deadline' = deadline /\ rekeyGen' = rekeyGen
    BY <1>1, <1>3 DEF DeadlineInv, Shape, register, deadlineVars, Side
  <2> QED BY <1>2, <2>1 DEF DeadlineInv, Shape, Active
<1>4. CASE s = "server"
  <2>1. kex'["server"] # "idle"
    BY <1>1, <1>4 DEF DeadlineInv, Shape, Side
  <2> QED BY <1>1, <1>2, <1>4, <2>1, RegisterArms DEF DeadlineInv, Shape, Active
<1> QED BY <1>3, <1>4 DEF Side

\* Every other step leaves the exchange and the deadline alone.
LEMMA OthersKeepDeadline ==
  ASSUME DeadlineInv,
         UNCHANGED <<kex, deadline, rekeyGen, gex>>, fate' \in [Side -> Fates]
  PROVE  DeadlineInv'
BY DEF DeadlineInv, Shape, Active

\* The deadline is armed exactly while an exchange is under way, whatever step is taken.
THEOREM DeadlineAlwaysTracks == Spec => []DeadlineTracksRekey
<1>1. Init => DeadlineInv
  <2> SUFFICES ASSUME Init PROVE DeadlineInv
    OBVIOUS
  <2>1. kex \in [Side -> KexStates] /\ kex["server"] = "idle"
    BY DEF Init, Side, KexStates
  <2>2. fate \in [Side -> Fates]
    BY DEF Init, Fates
  <2>3. deadline = 0 /\ rekeyGen = 0 /\ gex \in BOOLEAN
    BY DEF Init
  <2> QED BY <2>1, <2>2, <2>3 DEF DeadlineInv, Shape, Active
<1>2. ASSUME DeadlineInv, [Next]_vars
      PROVE  DeadlineInv'
  <2> USE <1>2
  <2>1. fate \in [Side -> Fates]
    BY DEF DeadlineInv, Shape
  <2>2. CASE DeadlineFires
    <3>1. UNCHANGED <<kex, deadline, rekeyGen, gex>>
      BY <2>2 DEF DeadlineFires, keyVars, deadlineVars
    <3>2. fate' \in [Side -> Fates]
      BY <2>1, <2>2 DEF DeadlineFires, Fates
    <3> QED BY <3>1, <3>2, OthersKeepDeadline
  <2>3. ASSUME NEW s \in Side, RecvBad(s) \/ RecvTraffic(s) \/ AppMessage(s) \/ AppControl(s) \/ Keepalive(s) \/ Hangup(s)
        PROVE  DeadlineInv'
    <3>1. UNCHANGED <<kex, deadline, rekeyGen, gex>>
      BY <2>3 DEF RecvBad, RecvTraffic, AppMessage, AppControl, Keepalive, Hangup, keyVars, deadlineVars
    <3>2. fate' \in [Side -> Fates]
      <4>1. fate' = fate \/ \E f \in Fates : fate' = [fate EXCEPT ![s] = f]
        BY <2>3 DEF RecvBad, RecvTraffic, AppMessage, AppControl, Keepalive, Hangup, Fates
      <4> QED BY <2>1, <4>1
    <3> QED BY <3>1, <3>2, OthersKeepDeadline
  <2>4. ASSUME NEW s \in Side, RecvKex(s) \/ RecvNewKeys(s) \/ BeginRekey(s)
        PROVE  DeadlineInv'
    BY <2>4, RecvKexKeepsDeadline, RecvNewKeysKeepsDeadline, BeginRekeyKeepsDeadline
  <2>5. CASE UNCHANGED vars
    BY <2>1, <2>5, OthersKeepDeadline DEF vars, keyVars, deadlineVars
  <2> QED BY <2>2, <2>3, <2>4, <2>5 DEF Next, Recv
<1>3. DeadlineInv => DeadlineTracksRekey
  BY DEF DeadlineInv, DeadlineTracksRekey
<1> QED BY <1>1, <1>2, <1>3, PTL DEF Spec
-----------------------------------------------------------------------------
(* The two sides in step.  The argument is about each direction by itself: the *)
(* messages of the exchanges are numbered, a wire holds exactly those between  *)
(* the last one read and the last one written, in order, and each packet is    *)
(* sealed as the one before it says.                                           *)

\* The place of a message in its exchange, and among the messages of all
\* exchanges: a message is sealed with the key of the exchange before.
StepOf(kind) == IF kind = "kexinit" THEN 1
                ELSE IF kind \in {"gexreq", "gexgroup"} THEN 2
                ELSE IF kind \in {"dhinit", "reply"} THEN 3 ELSE 4
Place(p) == 4 * p.key + StepOf(p.kind)

\* The messages that a side sends, with group exchange and without.
Steps(g) == IF g THEN {1, 2, 3, 4} ELSE {1, 3, 4}
KindsOf(s, g) == {"kexinit", "newkeys"} \cup (IF s = "server" THEN {"reply"} ELSE {"dhinit"})
                   \cup (IF g THEN IF s = "server" THEN {"gexgroup"} ELSE {"gexreq"} ELSE {})
Writable(s, g) == TrafficKinds \cup KindsOf(s, g)
PacketOf(s, g) == {p \in Packet : p.kind \in Writable(s, g)}

\* How far a side has come in reading and in writing.
ReadStep(k, g) == IF k \in {"idle", "created"} THEN 0
                  ELSE IF k = "gex" \/ (k = "dh" /\ ~g) THEN 1
                  ELSE IF k = "dh" THEN 2 ELSE 3
WriteStep(s, k, g) == IF k = "idle" THEN 0
                      ELSE IF k = "newkeys" THEN 4
                      ELSE IF k = "created" THEN 1
                      ELSE IF s = "client" THEN IF k = "gex" THEN 2 ELSE 3
                      ELSE IF k = "dh" /\ g THEN 2 ELSE 1
Reached(s) == 4 * gen[s] + ReadStep(kex[s], gex)
Told(s) == 4 * gen[s] + WriteStep(s, kex[s], gex)

\* The messages of w are those behind lo up to hi, in order.
InOrder(w, lo, hi, g) ==
  /\ lo \in Nat /\ hi \in Nat /\ lo <= hi
  /\ \A i \in 1 .. Len(w) : w[i].kind \in KexKinds => lo < Place(w[i]) /\ Place(w[i]) <= hi
  /\ \A i, j \in 1 .. Len(w) :
       i < j /\ w[i].kind \in KexKinds /\ w[j].kind \in KexKinds => Place(w[i]) < Place(w[j])
  /\ \A k \in Nat, x \in Steps(g) : lo < 4 * k + x /\ 4 * k + x <= hi =>
       \E i \in 1 .. Len(w) : w[i].kind \in KexKinds /\ w[i].key = k /\ StepOf(w[i].kind) = x

\* The key and the number of the packet behind p.
KeyAfter(p) == IF p.kind = "newkeys" THEN p.key + 1 ELSE p.key
SeqAfter(p, st) == IF p.kind = "newkeys" /\ st THEN 0 ELSE p.seq + 1

\* The packets of w are sealed from k0 and q0 on, and the next one by k1 and q1.
SealedFrom(w, k0, q0, k1, q1, st) ==
  /\ w = <<>> => k1 = k0 /\ q1 = q0
  /\ w # <<>> => /\ w[1].key = k0 /\ w[1].seq = q0
                 /\ k1 = KeyAfter(w[Len(w)]) /\ q1 = SeqAfter(w[Len(w)], st)
  /\ \A i \in 1 .. Len(w) - 1 : w[i + 1].key = KeyAfter(w[i]) /\ w[i + 1].seq = SeqAfter(w[i], st)

\* The key with which the packet behind the last one of s has to be sealed.
NextKey(s) == IF kex[s] = "newkeys" THEN outKey[s] + 1 ELSE outKey[s]

\* The inductive form of SidesInStep, for the direction that s writes.
Direction(s) ==
  /\ wire[s] \in Seq(PacketOf(s, gex))
  /\ InOrder(wire[s], Reached(Other(s)), Told(s), gex)
  /\ late[s] \/ SealedFrom(wire[s], inKey[Other(s)], inSeq[Other(s)], NextKey(s), outSeq[s], strict)

\* A side opens and seals with the key of the last exchange it has completed.
SidesOK ==
  /\ strict \in BOOLEAN /\ gex \in BOOLEAN /\ gen \in [Side -> Nat] /\ inKey = gen /\ outKey = gen
  /\ kex \in [Side -> IF gex THEN KexStates ELSE KexStates \ {"gex"}]
  /\ outSeq \in [Side -> Nat] /\ inSeq \in [Side -> Nat] /\ parked \in [Side -> Nat]
  /\ wire = [s \in Side |-> wire[s]] /\ late \in [Side -> BOOLEAN] /\ fate \in [Side -> Fates]

StepInv == SidesOK /\ (\A s \in Side : Direction(s)) /\ SidesInStep
-----------------------------------------------------------------------------
(* Sequences of packets. *)

LEMMA StepOfType ==
  ASSUME NEW kind \in KexKinds
  PROVE  StepOf(kind) \in {1, 2, 3, 4}
BY DEF StepOf

LEMMA PlaceType ==
  ASSUME NEW p \in Packet, p.kind \in KexKinds
  PROVE  Place(p) \in Nat /\ p.key \in Nat /\ Place(p) = 4 * p.key + StepOf(p.kind)
<1>1. p.key \in Nat
  BY DEF Packet
<1>2. StepOf(p.kind) \in {1, 2, 3, 4}
  BY StepOfType
<1> QED BY <1>1, <1>2 DEF Place

LEMMA SeqInto ==
  ASSUME NEW S, NEW T, S \subseteq T, NEW w \in Seq(S)
  PROVE  w \in Seq(T)
OBVIOUS

\* The packets of a side are packets.
LEMMA PacketsOfSide ==
  ASSUME NEW s, NEW g, NEW w \in Seq(PacketOf(s, g))
  PROVE  w \in Seq(Packet)
<1>1. PacketOf(s, g) \subseteq Packet
  BY DEF PacketOf
<1> QED BY <1>1, SeqInto

\* What the places of a concatenation hold.
LEMMA ConcatPlaces ==
  ASSUME NEW u \in Seq(Packet), NEW v \in Seq(Packet)
  PROVE  /\ u \o v \in Seq(Packet) /\ Len(u \o v) = Len(u) + Len(v)
         /\ Len(u) \in Nat /\ Len(v) \in Nat
         /\ \A i \in 1 .. Len(u) : i \in 1 .. Len(u \o v) /\ (u \o v)[i] = u[i] /\ u[i] \in Packet
         /\ \A i \in 1 .. Len(v) : /\ Len(u) + i \in 1 .. Len(u \o v)
                                   /\ (u \o v)[Len(u) + i] = v[i] /\ v[i] \in Packet
         /\ \A i \in 1 .. Len(u \o v) : \/ i \in 1 .. Len(u)
                                        \/ i - Len(u) \in 1 .. Len(v) /\ i = Len(u) + (i - Len(u))
<1>1. /\ u \o v \in Seq(Packet) /\ Len(u \o v) = Len(u) + Len(v)
      /\ \A i \in 1 .. Len(u) + Len(v) : (u \o v)[i] = IF i <= Len(u) THEN u[i] ELSE v[i - Len(u)]
  BY ConcatProperties
<1>2. Len(u) \in Nat /\ Len(v) \in Nat
  OBVIOUS
<1> DEFINE w == u \o v
<1> HIDE DEF w
<1>3. \A i \in 1 .. Len(u) : i \in 1 .. Len(w) /\ w[i] = u[i] /\ u[i] \in Packet
  BY <1>1, <1>2 DEF w
<1>4. \A i \in 1 .. Len(v) : Len(u) + i \in 1 .. Len(w) /\ w[Len(u) + i] = v[i] /\ v[i] \in Packet
  BY <1>1, <1>2 DEF w
<1>5. \A i \in 1 .. Len(w) : i \in 1 .. Len(u) \/ (i - Len(u) \in 1 .. Len(v) /\ i = Len(u) + (i - Len(u)))
  BY <1>1, <1>2 DEF w
<1> QED BY <1>1, <1>2, <1>3, <1>4, <1>5 DEF w

LEMMA TailPlaces ==
  ASSUME NEW w \in Seq(Packet), w # <<>>
  PROVE  /\ Tail(w) \in Seq(Packet) /\ Len(w) \in Nat /\ Len(Tail(w)) = Len(w) - 1 /\ Len(w) >= 1
         /\ Head(w) = w[1] /\ w[1] \in Packet
         /\ \A i \in 1 .. Len(Tail(w)) : i + 1 \in 1 .. Len(w) /\ Tail(w)[i] = w[i + 1] /\ w[i + 1] \in Packet
<1>1. /\ Tail(w) \in Seq(Packet) /\ Len(Tail(w)) = Len(w) - 1 /\ Head(w) = w[1] /\ Head(w) \in Packet
      /\ \A i \in 1 .. Len(Tail(w)) : Tail(w)[i] = w[i + 1]
  BY HeadTailProperties
<1>2. Len(w) \in Nat /\ Len(w) # 0
  BY EmptySeq
<1> DEFINE t == Tail(w)
<1> HIDE DEF t
<1>3. \A i \in 1 .. Len(t) : i + 1 \in 1 .. Len(w)
  BY <1>1, <1>2 DEF t
<1>4. \A i \in 1 .. Len(t) : t[i] = w[i + 1] /\ w[i + 1] \in Packet
  BY <1>1, <1>3 DEF t
<1> QED BY <1>1, <1>2, <1>3, <1>4 DEF t

\* Messages that follow each other.
LEMMA InOrderConcat ==
  ASSUME NEW u \in Seq(Packet), NEW v \in Seq(Packet), NEW g, NEW a, NEW b, NEW c,
         InOrder(u, a, b, g), InOrder(v, b, c, g)
  PROVE  InOrder(u \o v, a, c, g)
<1> DEFINE w == u \o v
           Kex(p) == p.kind \in KexKinds
<1>1. /\ w \in Seq(Packet) /\ Len(w) = Len(u) + Len(v) /\ Len(u) \in Nat /\ Len(v) \in Nat
      /\ \A i \in 1 .. Len(u) : i \in 1 .. Len(w) /\ w[i] = u[i] /\ u[i] \in Packet
      /\ \A i \in 1 .. Len(v) : Len(u) + i \in 1 .. Len(w) /\ w[Len(u) + i] = v[i] /\ v[i] \in Packet
      /\ \A i \in 1 .. Len(w) : i \in 1 .. Len(u) \/ (i - Len(u) \in 1 .. Len(v) /\ i = Len(u) + (i - Len(u)))
  BY ConcatPlaces
<1> HIDE DEF w
<1>2. a \in Nat /\ b \in Nat /\ c \in Nat /\ a <= b /\ b <= c
  BY DEF InOrder
<1>3. \A i \in 1 .. Len(u) : Kex(u[i]) => a < Place(u[i]) /\ Place(u[i]) <= b /\ Place(u[i]) \in Nat
  BY <1>1, PlaceType DEF InOrder
<1>4. \A i \in 1 .. Len(v) : Kex(v[i]) => b < Place(v[i]) /\ Place(v[i]) <= c /\ Place(v[i]) \in Nat
  BY <1>1, PlaceType DEF InOrder
<1>5. ASSUME NEW i \in 1 .. Len(w), Kex(w[i])
      PROVE  a < Place(w[i]) /\ Place(w[i]) <= c
  <2>1. CASE i \in 1 .. Len(u)
    BY <1>1, <1>2, <1>3, <1>5, <2>1
  <2>2. CASE i - Len(u) \in 1 .. Len(v) /\ i = Len(u) + (i - Len(u))
    <3>1. w[i] = v[i - Len(u)]
      BY <1>1, <2>2
    <3> QED BY <1>2, <1>4, <1>5, <2>2, <3>1
  <2> QED BY <1>1, <2>1, <2>2
<1>6. ASSUME NEW i \in 1 .. Len(w), NEW j \in 1 .. Len(w), i < j, Kex(w[i]), Kex(w[j])
      PROVE  Place(w[i]) < Place(w[j])
  <2>1. CASE i \in 1 .. Len(u) /\ j \in 1 .. Len(u)
    BY <1>1, <1>6, <2>1 DEF InOrder
  <2>2. CASE i \in 1 .. Len(u) /\ j - Len(u) \in 1 .. Len(v) /\ j = Len(u) + (j - Len(u))
    <3>1. w[j] = v[j - Len(u)] /\ w[i] = u[i]
      BY <1>1, <2>2
    <3>2. Place(w[i]) <= b /\ b < Place(w[j]) /\ Place(w[i]) \in Nat /\ Place(w[j]) \in Nat
      BY <1>3, <1>4, <1>6, <2>2, <3>1
    <3> QED BY <1>2, <3>2
  <2>3. CASE /\ i - Len(u) \in 1 .. Len(v) /\ i = Len(u) + (i - Len(u))
             /\ j - Len(u) \in 1 .. Len(v) /\ j = Len(u) + (j - Len(u))
    <3>1. w[j] = v[j - Len(u)] /\ w[i] = v[i - Len(u)] /\ i - Len(u) < j - Len(u)
      BY <1>1, <1>6, <2>3
    <3> QED BY <1>6, <2>3, <3>1 DEF InOrder
  <2>4. ~(i - Len(u) \in 1 .. Len(v) /\ j \in 1 .. Len(u))
    BY <1>1, <1>6
  <2> QED BY <1>1, <2>1, <2>2, <2>3, <2>4
<1>7. ASSUME NEW k \in Nat, NEW x \in Steps(g), a < 4 * k + x, 4 * k + x <= c
      PROVE  \E i \in 1 .. Len(w) : Kex(w[i]) /\ w[i].key = k /\ StepOf(w[i].kind) = x
  <2>0. x \in Nat
    BY DEF Steps
  <2>1. CASE 4 * k + x <= b
    <3>1. PICK i \in 1 .. Len(u) : Kex(u[i]) /\ u[i].key = k /\ StepOf(u[i].kind) = x
      BY <1>7, <2>1 DEF InOrder
    <3> QED BY <1>1, <3>1
  <2>2. CASE b < 4 * k + x
    <3>1. PICK i \in 1 .. Len(v) : Kex(v[i]) /\ v[i].key = k /\ StepOf(v[i].kind) = x
      BY <1>7, <2>2 DEF InOrder
    <3> QED BY <1>1, <3>1
  <2> QED BY <1>2, <2>0, <2>1, <2>2
<1>8. a <= c
  BY <1>2
<1> QED BY <1>2, <1>5, <1>6, <1>7, <1>8 DEF InOrder, w

\* The first message of a wire is the one behind lo; without it the rest follows it.
LEMMA InOrderTail ==
  ASSUME NEW w \in Seq(Packet), w # <<>>, NEW g, NEW lo, NEW hi, InOrder(w, lo, hi, g)
  PROVE  InOrder(Tail(w), IF Head(w).kind \in KexKinds THEN Place(Head(w)) ELSE lo, hi, g)
<1> DEFINE t == Tail(w)
           h == w[1]
           Kex(p) == p.kind \in KexKinds
           new == IF Kex(h) THEN Place(h) ELSE lo
<1>1. /\ t \in Seq(Packet) /\ Len(w) \in Nat /\ Len(t) = Len(w) - 1 /\ Len(w) >= 1
      /\ Head(w) = h /\ h \in Packet
      /\ \A i \in 1 .. Len(t) : i + 1 \in 1 .. Len(w) /\ t[i] = w[i + 1] /\ w[i + 1] \in Packet
  BY TailPlaces
<1> HIDE DEF t
<1>2. 1 \in 1 .. Len(w)
  BY <1>1
<1>3. Kex(h) => lo < Place(h) /\ Place(h) <= hi /\ Place(h) \in Nat
  BY <1>1, <1>2, PlaceType DEF InOrder
<1>4. lo \in Nat /\ hi \in Nat /\ lo <= hi
  BY DEF InOrder
<1>5. new \in Nat /\ new <= hi /\ lo <= new
  BY <1>3, <1>4
<1>6. ASSUME NEW i \in 1 .. Len(t), Kex(t[i])
      PROVE  new < Place(t[i]) /\ Place(t[i]) <= hi
  <2>1. i + 1 \in 1 .. Len(w) /\ t[i] = w[i + 1] /\ 1 < i + 1
    BY <1>1
  <2>2. lo < Place(t[i]) /\ Place(t[i]) <= hi
    BY <1>6, <2>1 DEF InOrder
  <2>3. Kex(h) => Place(h) < Place(t[i])
    BY <1>2, <1>6, <2>1 DEF InOrder
  <2> QED BY <2>2, <2>3
<1>7. ASSUME NEW i \in 1 .. Len(t), NEW j \in 1 .. Len(t), i < j, Kex(t[i]), Kex(t[j])
      PROVE  Place(t[i]) < Place(t[j])
  <2>1. i + 1 \in 1 .. Len(w) /\ t[i] = w[i + 1] /\ j + 1 \in 1 .. Len(w) /\ t[j] = w[j + 1] /\ i + 1 < j + 1
    BY <1>1, <1>7
  <2> QED BY <1>7, <2>1 DEF InOrder
<1>8. ASSUME NEW k \in Nat, NEW x \in Steps(g), new < 4 * k + x, 4 * k + x <= hi
      PROVE  \E i \in 1 .. Len(t) : Kex(t[i]) /\ t[i].key = k /\ StepOf(t[i].kind) = x
  <2>1. x \in Nat /\ lo < 4 * k + x
    BY <1>4, <1>5, <1>8 DEF Steps
  <2>2. PICK i \in 1 .. Len(w) : Kex(w[i]) /\ w[i].key = k /\ StepOf(w[i].kind) = x
    BY <1>8, <2>1 DEF InOrder
  <2>3. i # 1
    <3> SUFFICES ASSUME i = 1 PROVE FALSE
      OBVIOUS
    <3>1. Kex(h) /\ Place(h) = 4 * k + x
      BY <1>1, <2>2, PlaceType
    <3> QED BY <1>3, <1>8, <2>1, <3>1
  <2>4. i - 1 \in 1 .. Len(t) /\ t[i - 1] = w[i]
    <3>1. i - 1 \in 1 .. Len(t) /\ (i - 1) + 1 = i
      BY <1>1, <2>3
    <3> QED BY <1>1, <3>1
  <2> QED BY <2>2, <2>4
<1> QED BY <1>1, <1>4, <1>5, <1>6, <1>7, <1>8 DEF InOrder, t

\* A message at the head of a wire that opens is the next one of its exchange.
LEMMA HeadIsNext ==
  ASSUME NEW w \in Seq(Packet), w # <<>>, NEW g, NEW lo, NEW hi, InOrder(w, lo, hi, g),
         w[1].kind \in KexKinds, NEW x \in Steps(g), lo < 4 * w[1].key + x,
         \A y \in Steps(g) : lo < 4 * w[1].key + y => x <= y, StepOf(w[1].kind) \in Steps(g)
  PROVE  StepOf(w[1].kind) = x
<1>1. w[1] \in Packet /\ 1 \in 1 .. Len(w) /\ Len(w) \in Nat
  BY TailPlaces
<1> DEFINE k == w[1].key
           y == StepOf(w[1].kind)
<1>2. k \in Nat /\ Place(w[1]) = 4 * k + y /\ y \in Nat /\ x \in Nat
  BY <1>1, PlaceType DEF Steps
<1>3. lo < 4 * k + y /\ 4 * k + y <= hi /\ lo \in Nat /\ hi \in Nat
  BY <1>1, <1>2 DEF InOrder
<1>4. x <= y
  BY <1>3
<1>5. ~(x < y)
  <2> SUFFICES ASSUME x < y PROVE FALSE
    OBVIOUS
  <2>1. lo < 4 * k + x /\ 4 * k + x <= hi
    BY <1>2, <1>3
  <2>2. PICK i \in 1 .. Len(w) : w[i].kind \in KexKinds /\ w[i].key = k /\ StepOf(w[i].kind) = x
    BY <1>2, <2>1 DEF InOrder
  <2>3. i # 1
    BY <1>2, <2>2
  <2>4. 1 < i
    BY <1>1, <2>3
  <2>5. Place(w[1]) < Place(w[i])
    BY <1>1, <2>2, <2>4 DEF InOrder
  <2>6. Place(w[i]) = 4 * k + x
    BY <2>2 DEF Place
  <2> QED BY <1>2, <2>5, <2>6
<1> QED BY <1>2, <1>4, <1>5

\* Packets outside the exchanges are no messages.
LEMMA InOrderTraffic ==
  ASSUME NEW w \in Seq(Packet), \A i \in 1 .. Len(w) : w[i].kind \notin KexKinds, NEW g, NEW n \in Nat
  PROVE  InOrder(w, n, n, g)
<1>1. \A k \in Nat, x \in Steps(g) : ~(n < 4 * k + x /\ 4 * k + x <= n)
  BY DEF Steps
<1> QED BY <1>1 DEF InOrder
-----------------------------------------------------------------------------
(* How packets are sealed. *)

LEMMA SealedConcat ==
  ASSUME NEW u \in Seq(Packet), NEW v \in Seq(Packet), NEW st, NEW k0, NEW q0, NEW k1, NEW q1,
         NEW k2, NEW q2, SealedFrom(u, k0, q0, k1, q1, st), SealedFrom(v, k1, q1, k2, q2, st)
  PROVE  SealedFrom(u \o v, k0, q0, k2, q2, st)
<1> DEFINE w == u \o v
<1>1. /\ w \in Seq(Packet) /\ Len(w) = Len(u) + Len(v) /\ Len(u) \in Nat /\ Len(v) \in Nat
      /\ \A i \in 1 .. Len(u) : i \in 1 .. Len(w) /\ w[i] = u[i]
      /\ \A i \in 1 .. Len(v) : Len(u) + i \in 1 .. Len(w) /\ w[Len(u) + i] = v[i]
  BY ConcatPlaces
<1> HIDE DEF w
<1>2. (u = <<>> <=> Len(u) = 0) /\ (v = <<>> <=> Len(v) = 0) /\ (w = <<>> <=> Len(w) = 0)
  BY <1>1, EmptySeq
<1>3. CASE u = <<>>
  <2>1. w = v
    BY <1>3, ConcatEmptySeq DEF w
  <2> QED BY <1>3, <2>1 DEF SealedFrom, w
<1>4. CASE v = <<>>
  <2>1. w = u
    BY <1>4, ConcatEmptySeq DEF w
  <2> QED BY <1>4, <2>1 DEF SealedFrom, w
<1>5. CASE u # <<>> /\ v # <<>>
  <2>1. /\ Len(u) >= 1 /\ Len(v) >= 1 /\ w # <<>>
        /\ 1 \in 1 .. Len(u) /\ Len(u) \in 1 .. Len(u) /\ 1 \in 1 .. Len(v) /\ Len(v) \in 1 .. Len(v)
    BY <1>1, <1>2, <1>5
  <2>2. w[1] = u[1] /\ w[Len(u)] = u[Len(u)] /\ w[Len(u) + 1] = v[1] /\ w[Len(w)] = v[Len(v)]
    BY <1>1, <2>1
  <2>3. w[1].key = k0 /\ w[1].seq = q0
    BY <1>5, <2>2 DEF SealedFrom
  <2>4. k2 = KeyAfter(w[Len(w)]) /\ q2 = SeqAfter(w[Len(w)], st)
    BY <1>5, <2>2 DEF SealedFrom
  <2>5. ASSUME NEW i \in 1 .. Len(w) - 1
        PROVE  w[i + 1].key = KeyAfter(w[i]) /\ w[i + 1].seq = SeqAfter(w[i], st)
    <3>1. CASE i < Len(u)
      <4>1. i \in 1 .. Len(u) - 1 /\ w[i] = u[i] /\ w[i + 1] = u[i + 1]
        BY <1>1, <3>1
      <4> QED BY <4>1 DEF SealedFrom
    <3>2. CASE i = Len(u)
      <4>1. k1 = KeyAfter(u[Len(u)]) /\ q1 = SeqAfter(u[Len(u)], st)
        BY <1>5 DEF SealedFrom
      <4>2. v[1].key = k1 /\ v[1].seq = q1
        BY <1>5 DEF SealedFrom
      <4> QED BY <2>2, <3>2, <4>1, <4>2
    <3>3. CASE i > Len(u)
      <4> DEFINE j == i - Len(u)
      <4>1. j \in 1 .. Len(v) - 1 /\ j + 1 \in 1 .. Len(v) /\ j \in 1 .. Len(v) /\ i = Len(u) + j /\ i + 1 = Len(u) + (j + 1)
        BY <1>1, <3>3
      <4> HIDE DEF j
      <4>2. w[i] = v[j] /\ w[i + 1] = v[j + 1]
        BY <1>1, <4>1
      <4> QED BY <4>1, <4>2 DEF SealedFrom
    <3> QED BY <1>1, <3>1, <3>2, <3>3
  <2> QED BY <2>1, <2>3, <2>4, <2>5 DEF SealedFrom, w
<1> QED BY <1>3, <1>4, <1>5

LEMMA SealedTail ==
  ASSUME NEW w \in Seq(Packet), w # <<>>, NEW st, NEW k0, NEW q0, NEW k1, NEW q1,
         SealedFrom(w, k0, q0, k1, q1, st)
  PROVE  /\ Head(w).key = k0 /\ Head(w).seq = q0
         /\ SealedFrom(Tail(w), KeyAfter(Head(w)), SeqAfter(Head(w), st), k1, q1, st)
<1> DEFINE t == Tail(w)
<1>1. /\ t \in Seq(Packet) /\ Len(w) \in Nat /\ Len(t) = Len(w) - 1 /\ Len(w) >= 1 /\ Head(w) = w[1]
      /\ \A i \in 1 .. Len(t) : i + 1 \in 1 .. Len(w) /\ t[i] = w[i + 1]
  BY TailPlaces
<1> HIDE DEF t
<1>2. t = <<>> <=> Len(t) = 0
  BY <1>1, EmptySeq
<1>3. Head(w).key = k0 /\ Head(w).seq = q0
  BY <1>1 DEF SealedFrom
<1>4. k1 = KeyAfter(w[Len(w)]) /\ q1 = SeqAfter(w[Len(w)], st)
  BY DEF SealedFrom
<1>5. CASE t = <<>>
  <2>1. Len(w) = 1 /\ Len(t) = 0
    BY <1>1, <1>2, <1>5
  <2> QED BY <1>1, <1>3, <1>4, <1>5, <2>1 DEF SealedFrom, t
<1>6. CASE t # <<>>
  <2>1. Len(t) >= 1 /\ 1 \in 1 .. Len(t) /\ Len(t) \in 1 .. Len(t) /\ 1 \in 1 .. Len(w) - 1
    BY <1>1, <1>2, <1>6
  <2>2. t[1] = w[2] /\ t[Len(t)] = w[Len(w)]
    BY <1>1, <2>1
  <2>3. t[1].key = KeyAfter(w[1]) /\ t[1].seq = SeqAfter(w[1], st)
    BY <2>1, <2>2 DEF SealedFrom
  <2>4. ASSUME NEW i \in 1 .. Len(t) - 1
        PROVE  t[i + 1].key = KeyAfter(t[i]) /\ t[i + 1].seq = SeqAfter(t[i], st)
    <3>1. i + 1 \in 1 .. Len(w) - 1 /\ t[i] = w[i + 1] /\ t[i + 1] = w[(i + 1) + 1]
      BY <1>1
    <3> QED BY <3>1 DEF SealedFrom
  <2> QED BY <1>1, <1>3, <1>4, <1>6, <2>2, <2>3, <2>4 DEF SealedFrom, t
<1> QED BY <1>5, <1>6

\* Sealed makes one packet of each kind.
LEMMA SealedPackets ==
  ASSUME NEW s, NEW g, NEW kinds \in Seq(Writable(s, g)), NEW k \in Nat, NEW q \in Nat,
         s \in Side
  PROVE  LET v == Sealed(kinds, k, q)
         IN  /\ v \in Seq(PacketOf(s, g)) /\ Len(v) = Len(kinds) /\ Len(kinds) \in Nat
             /\ \A i \in 1 .. Len(kinds) : v[i].kind = kinds[i] /\ v[i].key = k /\ v[i].seq = q + i - 1
<1> DEFINE v == Sealed(kinds, k, q)
<1>1. Len(kinds) \in Nat /\ \A i \in 1 .. Len(kinds) : kinds[i] \in Writable(s, g)
  OBVIOUS
<1>2. \A x \in Writable(s, g) : x \in KexKinds \cup TrafficKinds
  BY DEF Writable, KindsOf, KexKinds
<1>3. \A i \in 1 .. Len(kinds) : [kind |-> kinds[i], key |-> k, seq |-> q + i - 1] \in PacketOf(s, g)
  <2> TAKE i \in 1 .. Len(kinds)
  <2>1. q + i - 1 \in Nat /\ kinds[i] \in Writable(s, g) /\ kinds[i] \in KexKinds \cup TrafficKinds
    BY <1>1, <1>2
  <2>2. [kind |-> kinds[i], key |-> k, seq |-> q + i - 1] \in Packet
    BY <2>1 DEF Packet
  <2> QED BY <2>1, <2>2 DEF PacketOf
<1>4. v \in [1 .. Len(kinds) -> PacketOf(s, g)]
  BY <1>3 DEF Sealed
<1>5. v \in Seq(PacketOf(s, g)) /\ Len(v) = Len(kinds)
  BY <1>1, <1>4
<1>6. \A i \in 1 .. Len(kinds) : v[i] = [kind |-> kinds[i], key |-> k, seq |-> q + i - 1]
  BY DEF Sealed
<1> HIDE DEF v
<1>7. \A i \in 1 .. Len(kinds) : v[i].kind = kinds[i] /\ v[i].key = k /\ v[i].seq = q + i - 1
  <2> TAKE i \in 1 .. Len(kinds)
  <2>1. v[i] = [kind |-> kinds[i], key |-> k, seq |-> q + i - 1]
    BY <1>6
  <2> HIDE <1>6
  <2> QED BY <2>1
<1> QED BY <1>1, <1>5, <1>7 DEF v

\* Only NEWKEYS, and only as the last packet, changes how the next one is sealed.
LEMMA SealedRun ==
  ASSUME NEW s \in Side, NEW g, NEW kinds \in Seq(Writable(s, g)), NEW k \in Nat,
         NEW q \in Nat, NEW st \in BOOLEAN, \A i \in 1 .. Len(kinds) - 1 : kinds[i] # "newkeys"
  PROVE  LET changed == kinds # <<>> /\ kinds[Len(kinds)] = "newkeys"
         IN  SealedFrom(Sealed(kinds, k, q), k, q, IF changed THEN k + 1 ELSE k,
                        IF changed /\ st THEN 0 ELSE q + Len(kinds), st)
<1> DEFINE v == Sealed(kinds, k, q)
           n == Len(kinds)
           changed == kinds # <<>> /\ kinds[n] = "newkeys"
           k1 == IF changed THEN k + 1 ELSE k
           q1 == IF changed /\ st THEN 0 ELSE q + n
<1>1. /\ v \in Seq(PacketOf(s, g)) /\ Len(v) = n /\ n \in Nat
      /\ \A i \in 1 .. n : v[i].kind = kinds[i] /\ v[i].key = k /\ v[i].seq = q + i - 1
  BY SealedPackets
<1>2. (v = <<>> <=> n = 0) /\ (kinds = <<>> <=> n = 0)
  BY <1>1, EmptySeq
<1> HIDE DEF v
<1>3. CASE n = 0
  <2>1. v = <<>> /\ ~changed /\ k1 = k /\ q1 = q
    BY <1>2, <1>3
  <2>2. Len(v) = 0
    BY <1>1, <1>3
  <2> QED BY <2>1, <2>2 DEF SealedFrom, v
<1>4. CASE n # 0
  <2>1. v # <<>> /\ kinds # <<>> /\ n \in 1 .. n /\ 1 \in 1 .. n
    BY <1>1, <1>2, <1>4
  <2>2. v[1].key = k /\ v[1].seq = q
    BY <1>1, <2>1
  <2>3. v[n].kind = kinds[n] /\ v[n].key = k /\ v[n].seq = q + n - 1
    BY <1>1, <2>1
  <2>4. k1 = KeyAfter(v[n]) /\ q1 = SeqAfter(v[n], st)
    BY <1>1, <2>1, <2>3 DEF KeyAfter, SeqAfter
  <2>5. ASSUME NEW i \in 1 .. n - 1
        PROVE  v[i + 1].key = KeyAfter(v[i]) /\ v[i + 1].seq = SeqAfter(v[i], st)
    <3>1. /\ v[i].kind = kinds[i] /\ v[i].key = k /\ v[i].seq = q + i - 1 /\ kinds[i] # "newkeys"
          /\ v[i + 1].key = k /\ v[i + 1].seq = q + (i + 1) - 1
      <4>1. i \in 1 .. n /\ i + 1 \in 1 .. n
        BY <1>1
      <4> QED BY <1>1, <4>1
    <3> QED BY <3>1 DEF KeyAfter, SeqAfter
  <2> QED BY <1>1, <2>1, <2>2, <2>4, <2>5 DEF SealedFrom, v
<1> QED BY <1>3, <1>4

\* The kinds are the messages of an exchange behind step a, up to step b.
Covers(kinds, a, b, g) ==
  /\ \A i \in 1 .. Len(kinds) : kinds[i] \in KexKinds /\ a < StepOf(kinds[i]) /\ StepOf(kinds[i]) <= b
  /\ \A i, j \in 1 .. Len(kinds) : i < j => StepOf(kinds[i]) < StepOf(kinds[j])
  /\ \A x \in Steps(g) : a < x /\ x <= b => \E i \in 1 .. Len(kinds) : StepOf(kinds[i]) = x

LEMMA InOrderSealed ==
  ASSUME NEW s \in Side, NEW g, NEW kinds \in Seq(Writable(s, g)), NEW k \in Nat,
         NEW q \in Nat, NEW a \in 0 .. 4, NEW b \in 0 .. 4, a <= b, Covers(kinds, a, b, g)
  PROVE  InOrder(Sealed(kinds, k, q), 4 * k + a, 4 * k + b, g)
<1> DEFINE v == Sealed(kinds, k, q)
           n == Len(kinds)
<1>1. /\ v \in Seq(PacketOf(s, g)) /\ Len(v) = n /\ n \in Nat
      /\ \A i \in 1 .. n : v[i].kind = kinds[i] /\ v[i].key = k
  BY SealedPackets
<1> HIDE DEF v
<1>2. 4 * k + a \in Nat /\ 4 * k + b \in Nat /\ 4 * k + a <= 4 * k + b
  OBVIOUS
<1>3. \A i \in 1 .. n : /\ kinds[i] \in KexKinds /\ StepOf(kinds[i]) \in Nat
                        /\ Place(v[i]) = 4 * k + StepOf(kinds[i])
  BY <1>1, StepOfType DEF Covers, Place
<1>4. ASSUME NEW i \in 1 .. n
      PROVE  4 * k + a < Place(v[i]) /\ Place(v[i]) <= 4 * k + b
  BY <1>3 DEF Covers
<1>5. ASSUME NEW i \in 1 .. n, NEW j \in 1 .. n, i < j
      PROVE  Place(v[i]) < Place(v[j])
  BY <1>3, <1>5 DEF Covers
<1>6. ASSUME NEW m \in Nat, NEW x \in Steps(g), 4 * k + a < 4 * m + x, 4 * m + x <= 4 * k + b
      PROVE  \E i \in 1 .. n : v[i].kind \in KexKinds /\ v[i].key = m /\ StepOf(v[i].kind) = x
  <2>1. x \in {1, 2, 3, 4}
    BY DEF Steps
  <2>2. m = k /\ a < x /\ x <= b
    BY <1>6, <2>1
  <2>3. PICK i \in 1 .. n : StepOf(kinds[i]) = x
    BY <2>2 DEF Covers
  <2> QED BY <1>1, <1>3, <2>2, <2>3
<1> QED BY <1>1, <1>2, <1>4, <1>5, <1>6 DEF InOrder, v
-----------------------------------------------------------------------------
(* The messages of an exchange. *)

\* What a side has sent, by the state it is in.
LEMMA WriteStepType ==
  ASSUME NEW s, NEW k, NEW g
  PROVE  WriteStep(s, k, g) \in 0 .. 4 /\ ReadStep(k, g) \in 0 .. 3
BY DEF WriteStep, ReadStep

\* What a side writes when it gets a message: the messages between what it had
\* sent and what it has sent then, NEWKEYS as the last of all.
Replies(s, kinds, k, l) ==
  /\ kinds \in Seq(Writable(s, gex))
  /\ WriteStep(s, k, gex) <= WriteStep(s, l, gex)
  /\ Covers(kinds, WriteStep(s, k, gex), WriteStep(s, l, gex), gex)
  /\ \A i \in 1 .. Len(kinds) - 1 : kinds[i] # "newkeys"
  /\ (kinds # <<>> /\ kinds[Len(kinds)] = "newkeys") <=> l = "newkeys"

LEMMA NoReply ==
  ASSUME NEW s, NEW k, NEW l, l # "newkeys", WriteStep(s, k, gex) = WriteStep(s, l, gex)
  PROVE  Replies(s, <<>>, k, l)
<1>1. <<>> \in Seq(Writable(s, gex)) /\ Len(<<>>) = 0
  OBVIOUS
<1>2. WriteStep(s, k, gex) \in 0 .. 4
  BY WriteStepType
<1>3. \A x \in Steps(gex) : x \in Nat
  BY DEF Steps
<1> QED BY <1>1, <1>2, <1>3 DEF Replies, Covers

LEMMA OneReply ==
  ASSUME NEW s, NEW k, NEW l, NEW a \in KindsOf(s, gex), l = "newkeys" <=> a = "newkeys",
         WriteStep(s, k, gex) < StepOf(a), StepOf(a) = WriteStep(s, l, gex),
         \A x \in Steps(gex) : WriteStep(s, k, gex) < x /\ x <= StepOf(a) => x = StepOf(a)
  PROVE  Replies(s, <<a>>, k, l)
<1> DEFINE kinds == <<a>>
<1>1. kinds \in Seq(Writable(s, gex)) /\ Len(kinds) = 1 /\ kinds[1] = a /\ kinds # <<>>
  BY DEF Writable
<1>2. a \in KexKinds
  BY DEF KindsOf, KexKinds
<1>3. WriteStep(s, k, gex) \in 0 .. 4 /\ WriteStep(s, l, gex) \in 0 .. 4
  BY WriteStepType
<1> HIDE DEF kinds
<1>4. Covers(kinds, WriteStep(s, k, gex), WriteStep(s, l, gex), gex)
  BY <1>1, <1>2, <1>3 DEF Covers
<1>5. \A i \in 1 .. Len(kinds) - 1 : FALSE
  BY <1>1
<1> QED BY <1>1, <1>3, <1>4, <1>5 DEF Replies, kinds

LEMMA TwoReplies ==
  ASSUME NEW s, NEW k, NEW l, NEW a \in KindsOf(s, gex), NEW b \in KindsOf(s, gex),
         a # "newkeys", l = "newkeys" <=> b = "newkeys",
         WriteStep(s, k, gex) < StepOf(a), StepOf(a) < StepOf(b), StepOf(b) = WriteStep(s, l, gex),
         \A x \in Steps(gex) : WriteStep(s, k, gex) < x /\ x <= StepOf(b) => x = StepOf(a) \/ x = StepOf(b)
  PROVE  Replies(s, <<a, b>>, k, l)
<1> DEFINE kinds == <<a, b>>
<1>1. /\ kinds \in Seq(Writable(s, gex)) /\ Len(kinds) = 2
      /\ kinds[1] = a /\ kinds[2] = b /\ kinds # <<>>
  BY DEF Writable
<1>2. a \in KexKinds /\ b \in KexKinds
  BY DEF KindsOf, KexKinds
<1>3. WriteStep(s, k, gex) \in 0 .. 4 /\ WriteStep(s, l, gex) \in 0 .. 4
  BY WriteStepType
<1>4. StepOf(a) \in Nat /\ StepOf(b) \in Nat
  BY <1>2, StepOfType
<1> HIDE DEF kinds
<1>5. \A i \in 1 .. Len(kinds) : i = 1 \/ i = 2
  BY <1>1
<1>6. 1 \in 1 .. Len(kinds) /\ 2 \in 1 .. Len(kinds)
  BY <1>1
<1>7. Covers(kinds, WriteStep(s, k, gex), WriteStep(s, l, gex), gex)
  BY <1>1, <1>2, <1>3, <1>4, <1>5, <1>6 DEF Covers
<1>8. \A i \in 1 .. Len(kinds) - 1 : kinds[i] # "newkeys"
  BY <1>1
<1>9. WriteStep(s, k, gex) <= WriteStep(s, l, gex)
  BY <1>3, <1>4
<1> QED BY <1>1, <1>7, <1>8, <1>9 DEF Replies, kinds

\* A message that is expected belongs to the exchange that is used, and its
\* place is behind what the side had read.
LEMMA ReadsNext ==
  ASSUME SidesOK, NEW s \in Side, NEW kind \in KexKinds \ {"newkeys"}, Expects(s, kind)
  PROVE  /\ ReadStep(After(kind), gex) = StepOf(kind)
         /\ After(kind) \in IF gex THEN KexStates ELSE KexStates \ {"gex"}
         /\ After(kind) \in {"gex", "dh", "newkeys"}
<1>1. kind \in {"kexinit", "gexreq", "gexgroup", "dhinit", "reply"}
  BY DEF KexKinds
<1>2. kex[s] = "gex" => gex
  BY DEF SidesOK, KexStates
<1>3. CASE kind = "kexinit"
  <2>1. After(kind) = IF gex THEN "gex" ELSE "dh"
    BY <1>3 DEF After
  <2> QED BY <1>3, <2>1 DEF ReadStep, StepOf, KexStates
<1>4. CASE kind \in {"gexreq", "gexgroup"}
  <2>1. After(kind) = "dh"
    BY <1>4 DEF After
  <2>2. gex
    <3>1. CASE kind = "gexreq"
      BY <1>2, <3>1 DEF Expects
    <3>2. CASE kind = "gexgroup"
      BY <1>2, <3>2 DEF Expects
    <3> QED BY <1>4, <3>1, <3>2
  <2> QED BY <1>4, <2>1, <2>2 DEF ReadStep, StepOf, KexStates
<1>5. CASE kind \in {"dhinit", "reply"}
  <2>1. After(kind) = "newkeys"
    BY <1>5 DEF After
  <2> QED BY <1>5, <2>1 DEF ReadStep, StepOf, KexStates
<1> QED BY <1>1, <1>3, <1>4, <1>5

LEMMA Pair ==
  ASSUME NEW a, NEW b
  PROVE  <<a>> \o <<b>> = <<a, b>>
<1>1. <<a>> \in Seq({a, b}) /\ <<b>> \in Seq({a, b}) /\ <<a, b>> \in Seq({a, b})
  OBVIOUS
<1> DEFINE w == <<a>> \o <<b>>
<1>2. /\ w \in Seq({a, b}) /\ Len(w) = 2
      /\ \A i \in 1 .. 2 : w[i] = IF i <= 1 THEN <<a>>[i] ELSE <<b>>[i - 1]
  BY <1>1, ConcatProperties
<1> HIDE DEF w
<1>3. w[1] = a /\ w[2] = b
  BY <1>2
<1>4. \A i \in 1 .. Len(w) : w[i] = <<a, b>>[i]
  BY <1>2, <1>3
<1> QED BY <1>1, <1>2, <1>4, SeqEqual DEF w

LEMMA Conversation ==
  ASSUME SidesOK, NEW s \in Side, NEW kind \in KexKinds \ {"newkeys"}, Expects(s, kind)
  PROVE  Replies(s, Opening(s, kind) \o Answer(s, kind), kex[s], After(kind))
<1>1. kind \in {"kexinit", "gexreq", "gexgroup", "dhinit", "reply"}
  BY DEF KexKinds
<1>2. kex[s] = "gex" => gex
  BY DEF SidesOK, KexStates
<1>3. gex \in BOOLEAN /\ s \in {"client", "server"}
  BY DEF SidesOK, Side
<1>4. CASE kind = "kexinit"
  <2>1. After(kind) = IF gex THEN "gex" ELSE "dh"
    BY <1>4 DEF After
  <2>2. kex[s] \in {"idle", "created"}
    BY <1>4 DEF Expects
  <2>3. CASE s = "server"
    <3>1. Answer(s, kind) = <<>>
      BY <1>4, <2>3 DEF Answer
    <3>2. CASE kex[s] = "idle"
      <4>1. Opening(s, kind) = <<"kexinit">>
        BY <1>4, <3>2 DEF Opening
      <4>2. Opening(s, kind) \o Answer(s, kind) = <<"kexinit">>
        BY <3>1, <4>1
      <4>3. "kexinit" \in KindsOf(s, gex) /\ StepOf("kexinit") = 1
        BY DEF KindsOf, StepOf
      <4>4. WriteStep(s, kex[s], gex) = 0 /\ WriteStep(s, After(kind), gex) = 1
        BY <1>3, <2>1, <2>3, <3>2 DEF WriteStep
      <4>5. \A x \in Steps(gex) : 0 < x /\ x <= 1 => x = 1
        BY DEF Steps
      <4> QED BY <2>1, <4>2, <4>3, <4>4, <4>5, OneReply
    <3>3. CASE kex[s] = "created"
      <4>1. Opening(s, kind) = <<>>
        BY <1>4, <3>3 DEF Opening
      <4>2. Opening(s, kind) \o Answer(s, kind) = <<>>
        BY <3>1, <4>1
      <4>3. WriteStep(s, kex[s], gex) = WriteStep(s, After(kind), gex)
        BY <1>3, <2>1, <2>3, <3>3 DEF WriteStep
      <4> QED BY <2>1, <4>2, <4>3, NoReply
    <3> QED BY <2>2, <3>2, <3>3
  <2>4. CASE s = "client"
    <3> DEFINE a == IF gex THEN "gexreq" ELSE "dhinit"
    <3>1. Answer(s, kind) = <<a>>
      <4>1. CASE gex
        BY <1>4, <2>4, <4>1 DEF Answer
      <4>2. CASE ~gex
        BY <1>4, <2>4, <4>2 DEF Answer
      <4> QED BY <4>1, <4>2
    <3>2. a \in KindsOf(s, gex) /\ StepOf(a) = IF gex THEN 2 ELSE 3
      BY <2>4 DEF KindsOf, StepOf
    <3>3. WriteStep(s, After(kind), gex) = StepOf(a) /\ a # "newkeys" /\ After(kind) # "newkeys"
      BY <1>3, <2>1, <2>4, <3>2 DEF WriteStep
    <3> HIDE DEF a
    <3>4. CASE kex[s] = "idle"
      <4>1. Opening(s, kind) = <<"kexinit">>
        BY <1>4, <3>4 DEF Opening
      <4>2. Opening(s, kind) \o Answer(s, kind) = <<"kexinit", a>>
        BY <3>1, <4>1, Pair
      <4>3. "kexinit" \in KindsOf(s, gex) /\ StepOf("kexinit") = 1
        BY DEF KindsOf, StepOf
      <4>4. WriteStep(s, kex[s], gex) = 0
        BY <3>4 DEF WriteStep
      <4>5. \A x \in Steps(gex) : 0 < x /\ x <= StepOf(a) => x = 1 \/ x = StepOf(a)
        BY <1>3, <3>2 DEF Steps
      <4>6. StepOf(a) > 1
        BY <3>2
      <4>7. Replies(s, <<"kexinit", a>>, kex[s], After(kind))
        BY <3>2, <3>3, <4>3, <4>4, <4>5, <4>6, TwoReplies
      <4> QED BY <4>2, <4>7
    <3>5. CASE kex[s] = "created"
      <4>1. Opening(s, kind) = <<>>
        BY <1>4, <3>5 DEF Opening
      <4>2. Opening(s, kind) \o Answer(s, kind) = <<a>>
        BY <3>1, <4>1
      <4>3. WriteStep(s, kex[s], gex) = 1
        BY <3>5 DEF WriteStep
      <4>4. \A x \in Steps(gex) : 1 < x /\ x <= StepOf(a) => x = StepOf(a)
        BY <1>3, <3>2 DEF Steps
      <4>5. StepOf(a) > 1
        BY <3>2
      <4> QED BY <3>2, <3>3, <4>2, <4>3, <4>4, <4>5, OneReply
    <3> QED BY <2>2, <3>4, <3>5
  <2> QED BY <1>3, <2>3, <2>4
<1>5. CASE kind # "kexinit"
  <2>1. Opening(s, kind) = <<>>
    BY <1>5 DEF Opening
  <2>2. CASE kind = "gexreq"
    <3>1. s = "server" /\ kex[s] = "gex" /\ gex
      BY <1>2, <2>2 DEF Expects
    <3>2. Answer(s, kind) = <<"gexgroup">> /\ After(kind) = "dh"
      BY <2>2 DEF Answer, After
    <3>3. Opening(s, kind) \o Answer(s, kind) = <<"gexgroup">>
      BY <2>1, <3>2
    <3>4. "gexgroup" \in KindsOf(s, gex) /\ StepOf("gexgroup") = 2
      BY <3>1 DEF KindsOf, StepOf
    <3>5. WriteStep(s, kex[s], gex) = 1 /\ WriteStep(s, "dh", gex) = 2
      BY <3>1, <3>2 DEF WriteStep
    <3>6. \A x \in Steps(gex) : 1 < x /\ x <= 2 => x = 2
      BY DEF Steps
    <3>7. Replies(s, <<"gexgroup">>, kex[s], "dh")
      BY <3>4, <3>5, <3>6, OneReply
    <3> QED BY <3>2, <3>3, <3>7
  <2>3. CASE kind = "gexgroup"
    <3>1. s = "client" /\ kex[s] = "gex" /\ gex
      BY <1>2, <2>3 DEF Expects
    <3>2. Answer(s, kind) = <<"dhinit">> /\ After(kind) = "dh"
      BY <2>3 DEF Answer, After
    <3>3. Opening(s, kind) \o Answer(s, kind) = <<"dhinit">>
      BY <2>1, <3>2
    <3>4. "dhinit" \in KindsOf(s, gex) /\ StepOf("dhinit") = 3
      BY <3>1 DEF KindsOf, StepOf
    <3>5. WriteStep(s, kex[s], gex) = 2 /\ WriteStep(s, "dh", gex) = 3
      BY <3>1, <3>2 DEF WriteStep
    <3>6. \A x \in Steps(gex) : 2 < x /\ x <= 3 => x = 3
      BY DEF Steps
    <3>7. Replies(s, <<"dhinit">>, kex[s], "dh")
      BY <3>4, <3>5, <3>6, OneReply
    <3> QED BY <3>2, <3>3, <3>7
  <2>4. CASE kind = "dhinit"
    <3>1. s = "server" /\ kex[s] = "dh"
      BY <2>4 DEF Expects
    <3>2. Answer(s, kind) = <<"reply", "newkeys">> /\ After(kind) = "newkeys"
      BY <2>4 DEF Answer, After
    <3>3. Opening(s, kind) \o Answer(s, kind) = <<"reply", "newkeys">>
      BY <2>1, <3>2
    <3>4. /\ "reply" \in KindsOf(s, gex) /\ StepOf("reply") = 3
          /\ "newkeys" \in KindsOf(s, gex) /\ StepOf("newkeys") = 4
      BY <3>1 DEF KindsOf, StepOf
    <3>5. WriteStep(s, kex[s], gex) = (IF gex THEN 2 ELSE 1) /\ WriteStep(s, "newkeys", gex) = 4
      BY <3>1, <3>2 DEF WriteStep
    <3>6. \A x \in Steps(gex) : (IF gex THEN 2 ELSE 1) < x /\ x <= 4 => x = 3 \/ x = 4
      BY <1>3 DEF Steps
    <3>7. Replies(s, <<"reply", "newkeys">>, kex[s], "newkeys")
      BY <3>4, <3>5, <3>6, TwoReplies
    <3> QED BY <3>2, <3>3, <3>7
  <2>5. CASE kind = "reply"
    <3>1. s = "client" /\ kex[s] = "dh"
      BY <2>5 DEF Expects
    <3>2. Answer(s, kind) = <<"newkeys">> /\ After(kind) = "newkeys"
      BY <2>5 DEF Answer, After
    <3>3. Opening(s, kind) \o Answer(s, kind) = <<"newkeys">>
      BY <2>1, <3>2
    <3>4. "newkeys" \in KindsOf(s, gex) /\ StepOf("newkeys") = 4
      BY DEF KindsOf, StepOf
    <3>5. WriteStep(s, kex[s], gex) = 3 /\ WriteStep(s, "newkeys", gex) = 4
      BY <3>1, <3>2 DEF WriteStep
    <3>6. \A x \in Steps(gex) : 3 < x /\ x <= 4 => x = 4
      BY DEF Steps
    <3>7. Replies(s, <<"newkeys">>, kex[s], "newkeys")
      BY <3>4, <3>5, <3>6, OneReply
    <3> QED BY <3>2, <3>3, <3>7
  <2> QED BY <1>1, <1>5, <2>2, <2>3, <2>4, <2>5
<1> QED BY <1>4, <1>5

\* The message behind what a side has read is the one that it expects.
LEMMA NextIsExpected ==
  ASSUME SidesOK, NEW s \in Side, Direction(Other(s)), wire[Other(s)] # <<>>,
         Head1(s).kind \in KexKinds, Opens(s)
  PROVE  Expects(s, Head1(s).kind)
<1> DEFINE o == Other(s)
           w == wire[o]
           h == w[1]
           lo == Reached(s)
<1>1. o \in Side /\ Other(o) = s /\ (o = "server" <=> s = "client")
  BY DEF Other, Side
<1>2. w \in Seq(PacketOf(o, gex)) /\ InOrder(w, lo, Told(o), gex)
  BY <1>1 DEF Direction
<1>3. w \in Seq(Packet)
  BY <1>2, PacketsOfSide
<1>4. /\ Head(w) = h /\ Head1(s) = h /\ h \in PacketOf(o, gex) /\ h.key = gen[s] /\ gen[s] \in Nat
      /\ gex \in BOOLEAN /\ kex[s] \in KexStates /\ (kex[s] = "gex" => gex)
  <2>1. Head(w) = w[1] /\ Head(w) \in PacketOf(o, gex)
    BY <1>2, HeadTailProperties
  <2> QED BY <2>1 DEF Head1, Opens, SidesOK, KexStates
<1>5. h.kind \in KindsOf(o, gex) /\ h.kind \in KexKinds
  <2>1. h.kind \in KexKinds
    BY <1>4
  <2>2. h.kind \notin TrafficKinds
    BY <2>1 DEF KexKinds, TrafficKinds
  <2> QED BY <1>4, <2>1, <2>2 DEF PacketOf, Writable
<1>6. StepOf(h.kind) \in Steps(gex)
  BY <1>4, <1>5 DEF KindsOf, StepOf, Steps
<1> DEFINE x == IF kex[s] \in {"idle", "created"} THEN 1 ELSE IF kex[s] = "gex" THEN 2
                ELSE IF kex[s] = "dh" THEN 3 ELSE 4
<1>7. x \in Steps(gex)
  BY <1>4 DEF Steps
<1>8. lo = 4 * gen[s] + ReadStep(kex[s], gex)
  BY DEF Reached
<1>9. \A y \in Steps(gex) : lo < 4 * h.key + y <=> ReadStep(kex[s], gex) < y
  <2>1. ReadStep(kex[s], gex) \in Nat
    BY WriteStepType
  <2>2. \A y \in Steps(gex) : y \in Nat
    BY DEF Steps
  <2> QED BY <1>4, <1>8, <2>1, <2>2
<1>10. ReadStep(kex[s], gex) < x /\ \A y \in Steps(gex) : ReadStep(kex[s], gex) < y => x <= y
  BY <1>4 DEF ReadStep, Steps, KexStates
<1>11. lo < 4 * h.key + x /\ \A y \in Steps(gex) : lo < 4 * h.key + y => x <= y
  BY <1>7, <1>9, <1>10
<1> HIDE DEF x, lo, w
<1>12. StepOf(h.kind) = x
  BY <1>2, <1>3, <1>5, <1>6, <1>7, <1>11, HeadIsNext DEF w
<1>13. kex[s] \in {"idle", "created", "gex", "dh", "newkeys"}
  BY <1>4 DEF KexStates
<1>14. CASE h.kind = "kexinit"
  <2>1. kex[s] \in {"idle", "created"}
    BY <1>12, <1>13, <1>14 DEF x, StepOf
  <2> QED BY <1>4, <1>14, <2>1 DEF Expects
<1>15. CASE h.kind = "gexreq"
  <2>1. kex[s] = "gex"
    BY <1>12, <1>13, <1>15 DEF x, StepOf
  <2>2. o = "client"
    BY <1>1, <1>5, <1>15 DEF KindsOf, Side
  <2>3. s = "server"
    BY <1>1, <2>2 DEF Side
  <2> QED BY <1>4, <1>15, <2>1, <2>3 DEF Expects
<1>16. CASE h.kind = "gexgroup"
  <2>1. kex[s] = "gex"
    BY <1>12, <1>13, <1>16 DEF x, StepOf
  <2>2. o = "server"
    BY <1>1, <1>5, <1>16 DEF KindsOf, Side
  <2>3. s = "client"
    BY <1>1, <2>2 DEF Side
  <2> QED BY <1>4, <1>16, <2>1, <2>3 DEF Expects
<1>17. CASE h.kind = "dhinit"
  <2>1. kex[s] = "dh"
    BY <1>12, <1>13, <1>17 DEF x, StepOf
  <2>2. o = "client"
    BY <1>1, <1>5, <1>17 DEF KindsOf, Side
  <2>3. s = "server"
    BY <1>1, <2>2 DEF Side
  <2> QED BY <1>4, <1>17, <2>1, <2>3 DEF Expects
<1>18. CASE h.kind = "reply"
  <2>1. kex[s] = "dh"
    BY <1>12, <1>13, <1>18 DEF x, StepOf
  <2>2. o = "server"
    BY <1>1, <1>5, <1>18 DEF KindsOf, Side
  <2>3. s = "client"
    BY <1>1, <2>2 DEF Side
  <2> QED BY <1>4, <1>18, <2>1, <2>3 DEF Expects
<1>19. CASE h.kind = "newkeys"
  <2>1. kex[s] = "newkeys"
    BY <1>12, <1>13, <1>19 DEF x, StepOf
  <2> QED BY <1>4, <1>19, <2>1 DEF Expects
<1>20. h.kind \in {"kexinit", "gexreq", "gexgroup", "dhinit", "reply", "newkeys"}
  BY <1>5 DEF KexKinds
<1> QED BY <1>14, <1>15, <1>16, <1>17, <1>18, <1>19, <1>20
-----------------------------------------------------------------------------
(* The steps. *)

\* A side's state as the other direction sees it.
Unread(s) == Reached(s)' = Reached(s) /\ inKey'[s] = inKey[s] /\ inSeq'[s] = inSeq[s]
Unwritten(s) == /\ Told(s)' = Told(s) /\ NextKey(s)' = NextKey(s) /\ outSeq'[s] = outSeq[s]
                /\ late'[s] = late[s]

LEMMA DirectionSame ==
  ASSUME NEW s \in Side, Direction(s), UNCHANGED <<strict, gex>>, Unread(Other(s)), Unwritten(s),
         wire'[s] = wire[s]
  PROVE  Direction(s)'
BY DEF Direction, Unread, Unwritten

\* s writes packets behind those that the other side has yet to read.
LEMMA DirectionWritten ==
  ASSUME NEW s \in Side, SidesOK, Direction(s), UNCHANGED <<strict, gex>>, Unread(Other(s)),
         NEW v \in Seq(PacketOf(s, gex)), wire'[s] = wire[s] \o v,
         InOrder(v, Told(s), Told(s)', gex), late[s] => late'[s],
         late'[s] \/ SealedFrom(v, NextKey(s), outSeq[s], NextKey(s)', outSeq'[s], strict)
  PROVE  Direction(s)'
<1>1. wire[s] \in Seq(PacketOf(s, gex)) /\ wire[s] \in Seq(Packet) /\ v \in Seq(Packet)
  BY PacketsOfSide DEF Direction
<1>2. wire'[s] \in Seq(PacketOf(s, gex))
  BY <1>1, ConcatProperties
<1>3. InOrder(wire'[s], Reached(Other(s)), Told(s)', gex)
  <2>1. InOrder(wire[s], Reached(Other(s)), Told(s), gex)
    BY DEF Direction
  <2> QED BY <1>1, <2>1, InOrderConcat
<1>4. CASE late'[s]
  BY <1>2, <1>3, <1>4 DEF Direction, Unread
<1>5. CASE ~late'[s]
  <2>1. SealedFrom(wire[s], inKey[Other(s)], inSeq[Other(s)], NextKey(s), outSeq[s], strict)
    BY <1>5 DEF Direction
  <2>2. SealedFrom(wire'[s], inKey[Other(s)], inSeq[Other(s)], NextKey(s)', outSeq'[s], strict)
    BY <1>1, <1>5, <2>1, SealedConcat
  <2> QED BY <1>2, <1>3, <2>2 DEF Direction, Unread
<1> QED BY <1>4, <1>5

\* s reads a packet that opens.
LEMMA DirectionRead ==
  ASSUME NEW s \in Side, SidesOK, Direction(Other(s)), UNCHANGED <<strict, gex>>, Unwritten(Other(s)),
         wire[Other(s)] # <<>>, wire'[Other(s)] = Tail(wire[Other(s)]),
         Reached(s)' = IF Head1(s).kind \in KexKinds THEN Place(Head1(s)) ELSE Reached(s),
         inKey'[s] = KeyAfter(Head1(s)), inSeq'[s] = SeqAfter(Head1(s), strict)
  PROVE  Direction(Other(s))'
<1> DEFINE o == Other(s)
           w == wire[o]
<1>1. o \in Side /\ Other(o) = s
  BY DEF Other, Side
<1>2. w \in Seq(PacketOf(o, gex)) /\ InOrder(w, Reached(s), Told(o), gex) /\ w # <<>>
  BY <1>1 DEF Direction
<1>3. w \in Seq(Packet)
  BY <1>2, PacketsOfSide
<1>4. Tail(w) \in Seq(PacketOf(o, gex))
  BY <1>2, HeadTailProperties
<1>5. InOrder(Tail(w), Reached(s)', Told(o), gex)
  BY <1>2, <1>3, InOrderTail DEF Head1
<1>6. CASE late[o]
  BY <1>1, <1>4, <1>5, <1>6 DEF Direction, Unwritten
<1>7. CASE ~late[o]
  <2>1. SealedFrom(w, inKey[s], inSeq[s], NextKey(o), outSeq[o], strict)
    BY <1>1, <1>7 DEF Direction
  <2>2. SealedFrom(Tail(w), inKey'[s], inSeq'[s], NextKey(o), outSeq[o], strict)
    BY <1>2, <1>3, <2>1, SealedTail DEF Head1
  <2> QED BY <1>1, <1>4, <1>5, <2>2 DEF Direction, Unwritten
<1> QED BY <1>6, <1>7

\* The packets v stand for n packets outside the exchange, sealed from k and q on.
Passing(v, n, s, g, k, q, st) ==
  /\ v \in Seq(PacketOf(s, g)) /\ Len(v) = n /\ n \in Nat
  /\ \A m \in Nat : InOrder(v, m, m, g)
  /\ SealedFrom(v, k, q, k, q + n, st)

LEMMA TrafficSealed ==
  ASSUME NEW s \in Side, NEW g, NEW kinds \in Seq(TrafficKinds), NEW k \in Nat, NEW q \in Nat,
         NEW st \in BOOLEAN
  PROVE  Passing(Sealed(kinds, k, q), Len(kinds), s, g, k, q, st)
<1> DEFINE v == Sealed(kinds, k, q)
<1>1. kinds \in Seq(Writable(s, g))
  <2>1. TrafficKinds \subseteq Writable(s, g)
    BY DEF Writable
  <2> QED BY <2>1, SeqInto
<1>2. /\ v \in Seq(PacketOf(s, g)) /\ Len(v) = Len(kinds) /\ Len(kinds) \in Nat
      /\ \A i \in 1 .. Len(kinds) : v[i].kind = kinds[i]
  BY <1>1, SealedPackets
<1>3. \A i \in 1 .. Len(kinds) : kinds[i] \notin KexKinds /\ kinds[i] # "newkeys"
  <2>1. \A i \in 1 .. Len(kinds) : kinds[i] \in TrafficKinds
    OBVIOUS
  <2> QED BY <2>1 DEF TrafficKinds, KexKinds
<1>4. v \in Seq(Packet) /\ \A i \in 1 .. Len(v) : v[i].kind \notin KexKinds
  BY <1>2, <1>3, PacketsOfSide
<1>5. ~(kinds # <<>> /\ kinds[Len(kinds)] = "newkeys")
  <2>1. kinds # <<>> => Len(kinds) \in 1 .. Len(kinds)
    BY <1>2, EmptySeq
  <2> QED BY <1>3, <2>1
<1>6. \A i \in 1 .. Len(kinds) - 1 : kinds[i] # "newkeys"
  BY <1>2, <1>3
<1>7. SealedFrom(v, k, q, k, q + Len(kinds), st)
  BY <1>1, <1>5, <1>6, SealedRun
<1> HIDE DEF v
<1>8. \A n \in Nat : InOrder(v, n, n, g)
  BY <1>4, InOrderTraffic
<1> QED BY <1>2, <1>7, <1>8 DEF v, Passing

\* They leave the exchange alone; behind the own NEWKEYS they are late.
LEMMA TrafficWritten ==
  ASSUME NEW s \in Side, SidesOK, Direction(s), UNCHANGED <<strict, gex>>, Unread(Other(s)),
         NEW kinds \in Seq(TrafficKinds),
         wire'[s] = wire[s] \o Sealed(kinds, outKey[s], outSeq[s]),
         outSeq'[s] = outSeq[s] + Len(kinds),
         kex'[s] = kex[s], gen'[s] = gen[s], outKey'[s] = outKey[s],
         late'[s] = (late[s] \/ (kex[s] = "newkeys" /\ kinds # <<>>))
  PROVE  Direction(s)'
<1> DEFINE k == outKey[s]
           q == outSeq[s]
           v == Sealed(kinds, k, q)
<1>1. k \in Nat /\ q \in Nat /\ strict \in BOOLEAN /\ gen[s] \in Nat
  BY DEF SidesOK
<1>2. /\ v \in Seq(PacketOf(s, gex)) /\ Len(v) = Len(kinds) /\ Len(kinds) \in Nat
      /\ \A n \in Nat : InOrder(v, n, n, gex)
      /\ SealedFrom(v, k, q, k, q + Len(kinds), strict)
  <2> HIDE DEF k, q
  <2>1. Passing(v, Len(kinds), s, gex, k, q, strict)
    BY <1>1, TrafficSealed
  <2> QED BY <2>1 DEF Passing
<1> HIDE DEF v
<1>3. Told(s)' = Told(s) /\ Told(s) \in Nat /\ NextKey(s)' = NextKey(s)
  <2>1. WriteStep(s, kex[s], gex) \in Nat
    BY WriteStepType
  <2> QED BY <1>1, <2>1 DEF Told, NextKey
<1>4. late'[s] \/ SealedFrom(v, NextKey(s), outSeq[s], NextKey(s)', outSeq'[s], strict)
  <2>1. CASE kinds = <<>>
    <3>1. Len(kinds) = 0 /\ outSeq'[s] = outSeq[s] /\ Len(v) = 0
      BY <1>1, <1>2, <2>1
    <3>2. v = <<>>
      BY <1>2, <3>1, EmptySeq
    <3> QED BY <1>3, <3>1, <3>2 DEF SealedFrom
  <2>2. CASE kinds # <<>> /\ kex[s] = "newkeys"
    BY <2>2
  <2>3. CASE kinds # <<>> /\ kex[s] # "newkeys"
    <3>1. NextKey(s) = k
      BY <2>3 DEF NextKey
    <3> QED BY <1>2, <1>3, <3>1
  <2> QED BY <2>1, <2>2, <2>3
<1>5. late[s] => late'[s]
  OBVIOUS
<1>6. InOrder(v, Told(s), Told(s)', gex)
  BY <1>2, <1>3
<1> QED BY <1>2, <1>4, <1>5, <1>6, DirectionWritten DEF v

\* The messages of the exchange that s writes.
LEMMA MessagesWritten ==
  ASSUME NEW s \in Side, SidesOK, Direction(s), UNCHANGED <<strict, gex>>, Unread(Other(s)),
         NEW kinds, NEW l, Replies(s, kinds, kex[s], l), kex[s] # "newkeys", kex'[s] = l,
         wire'[s] = wire[s] \o Sealed(kinds, outKey[s], outSeq[s]),
         outSeq'[s] = IF strict /\ l = "newkeys" THEN 0 ELSE outSeq[s] + Len(kinds),
         gen'[s] = gen[s], outKey'[s] = outKey[s], late'[s] = late[s]
  PROVE  Direction(s)'
<1> DEFINE k == outKey[s]
           q == outSeq[s]
           v == Sealed(kinds, k, q)
           a == WriteStep(s, kex[s], gex)
           b == WriteStep(s, l, gex)
<1>1. k \in Nat /\ q \in Nat /\ strict \in BOOLEAN /\ k = gen[s]
  BY DEF SidesOK
<1>2. /\ kinds \in Seq(Writable(s, gex)) /\ a <= b /\ Covers(kinds, a, b, gex)
      /\ \A i \in 1 .. Len(kinds) - 1 : kinds[i] # "newkeys"
      /\ (kinds # <<>> /\ kinds[Len(kinds)] = "newkeys") <=> l = "newkeys"
  BY DEF Replies
<1>3. a \in 0 .. 4 /\ b \in 0 .. 4
  BY WriteStepType
<1>4. v \in Seq(PacketOf(s, gex))
  BY <1>1, <1>2, SealedPackets
<1>5. Told(s) = 4 * k + a /\ Told(s)' = 4 * k + b
  BY <1>1 DEF Told
<1>6. NextKey(s) = k /\ NextKey(s)' = IF l = "newkeys" THEN k + 1 ELSE k
  BY DEF NextKey
<1>7. InOrder(v, 4 * k + a, 4 * k + b, gex)
  <2> HIDE DEF a, b, k, q
  <2> QED BY <1>1, <1>2, <1>3, InOrderSealed
<1>8. SealedFrom(v, k, q, IF l = "newkeys" THEN k + 1 ELSE k,
                 IF strict /\ l = "newkeys" THEN 0 ELSE q + Len(kinds), strict)
  <2> DEFINE changed == kinds # <<>> /\ kinds[Len(kinds)] = "newkeys"
  <2>1. SealedFrom(v, k, q, IF changed THEN k + 1 ELSE k,
                   IF changed /\ strict THEN 0 ELSE q + Len(kinds), strict)
    BY <1>1, <1>2, SealedRun
  <2>2. CASE l = "newkeys"
    <3>1. changed
      BY <1>2, <2>2
    <3> HIDE DEF changed, v
    <3> QED BY <2>1, <2>2, <3>1
  <2>3. CASE l # "newkeys"
    <3>1. ~changed
      BY <1>2, <2>3
    <3> HIDE DEF changed, v
    <3> QED BY <2>1, <2>3, <3>1
  <2> QED BY <2>2, <2>3
<1> HIDE DEF v
<1>9. InOrder(v, Told(s), Told(s)', gex)
  BY <1>5, <1>7
<1>10. SealedFrom(v, NextKey(s), outSeq[s], NextKey(s)', outSeq'[s], strict)
  BY <1>6, <1>8
<1> QED BY <1>4, <1>9, <1>10, DirectionWritten DEF v

\* Whoever has come to an end, and why, is as before, and a late packet stays one.
LEMMA StepKept ==
  ASSUME SidesInStep, fate' = fate, \A s \in Side : late[s] => late'[s]
  PROVE  SidesInStep'
<1>1. \A s \in Side : Other(s) \in Side
  BY DEF Side, Other
<1> QED BY <1>1 DEF SidesInStep, KeysInStep, KexOrder

\* The sides and directions are those of s and of the other side.
LEMMA TwoSides ==
  ASSUME NEW s \in Side
  PROVE  /\ Other(s) \in Side /\ Other(s) # s /\ Other(Other(s)) = s
         /\ \A d \in Side : d = s \/ d = Other(s)
BY DEF Side, Other

\* s writes, and reads nothing: traffic.
LEMMA WriteKeeps ==
  ASSUME StepInv, NEW s \in Side, NEW kinds \in Seq(TrafficKinds), Write(s, kinds),
         late' = [late EXCEPT ![s] = @ \/ (kex[s] = "newkeys" /\ kinds # <<>>)],
         UNCHANGED <<keyVars, kex, inSeq, fate>>, parked' \in [Side -> Nat]
  PROVE  StepInv'
<1> DEFINE o == Other(s)
<1>1. /\ o \in Side /\ o # s /\ Other(o) = s /\ \A d \in Side : d = s \/ d = o
  BY TwoSides
<1>2. SidesOK /\ Direction(s) /\ Direction(o) /\ SidesInStep
  BY <1>1 DEF StepInv
<1>3. /\ strict' = strict /\ gex' = gex /\ gen' = gen /\ inKey' = inKey /\ outKey' = outKey
      /\ kex' = kex /\ inSeq' = inSeq /\ fate' = fate
  BY DEF keyVars
<1>4. Len(kinds) \in Nat
  OBVIOUS
<1>5. SidesOK'
  <2>1. outSeq' \in [Side -> Nat]
    BY <1>2, <1>4 DEF Write, SidesOK
  <2>2. late' \in [Side -> BOOLEAN]
    BY <1>2 DEF SidesOK
  <2>3. wire' = [d \in Side |-> wire'[d]]
    BY <1>2 DEF Write, SidesOK
  <2> QED BY <1>2, <1>3, <2>1, <2>2, <2>3 DEF SidesOK
<1>6. /\ outSeq'[s] = outSeq[s] + Len(kinds) /\ outSeq'[o] = outSeq[o]
      /\ late'[s] = (late[s] \/ (kex[s] = "newkeys" /\ kinds # <<>>)) /\ late'[o] = late[o]
  BY <1>1, <1>2 DEF SidesOK, Write
<1>7. wire'[s] = wire[s] \o Sealed(kinds, outKey[s], outSeq[s]) /\ wire'[o] = wire[o]
  BY <1>1, <1>2 DEF Write, SidesOK
<1>8. Direction(s)'
  <2>1. Unread(o)
    BY <1>1, <1>3 DEF Unread, Reached
  <2> QED BY <1>2, <1>3, <1>6, <1>7, <2>1, TrafficWritten
<1>9. Direction(o)'
  <2>1. Unwritten(o) /\ Unread(s)
    BY <1>1, <1>3, <1>6 DEF Unwritten, Unread, Reached, Told, NextKey
  <2> QED BY <1>1, <1>2, <1>3, <1>7, <2>1, DirectionSame
<1>10. SidesInStep'
  <2>1. \A d \in Side : late[d] => late'[d]
    BY <1>1, <1>6
  <2> QED BY <1>2, <1>3, <2>1, StepKept
<1> QED BY <1>1, <1>5, <1>8, <1>9, <1>10 DEF StepInv

\* The own start of an exchange.
LEMMA BeginKeeps ==
  ASSUME StepInv, NEW s \in Side, BeginRekey(s)
  PROVE  StepInv'
<1> DEFINE o == Other(s)
<1>1. /\ o \in Side /\ o # s /\ Other(o) = s /\ \A d \in Side : d = s \/ d = o
  BY TwoSides
<1>2. SidesOK /\ Direction(s) /\ Direction(o) /\ SidesInStep
  BY <1>1 DEF StepInv
<1>3. /\ strict' = strict /\ gex' = gex /\ gen' = gen /\ inKey' = inKey /\ outKey' = outKey
      /\ inSeq' = inSeq /\ fate' = fate /\ parked' = parked /\ late' = late
      /\ kex[s] = "idle" /\ kex' = [kex EXCEPT ![s] = "created"] /\ Write(s, <<"kexinit">>)
  BY DEF BeginRekey, Active, keyVars, trafficVars
<1>4. Len(<<"kexinit">>) = 1
  OBVIOUS
<1>5. SidesOK'
  <2>1. outSeq' \in [Side -> Nat]
    BY <1>2, <1>3, <1>4 DEF Write, SidesOK
  <2>2. wire' = [d \in Side |-> wire'[d]]
    BY <1>2, <1>3 DEF Write, SidesOK
  <2>3. kex' \in [Side -> IF gex THEN KexStates ELSE KexStates \ {"gex"}]
    <3>1. "created" \in IF gex THEN KexStates ELSE KexStates \ {"gex"}
      BY DEF KexStates
    <3> QED BY <1>2, <1>3, <3>1 DEF SidesOK
  <2> QED BY <1>2, <1>3, <2>1, <2>2, <2>3 DEF SidesOK
<1>6. /\ outSeq'[s] = outSeq[s] + 1 /\ outSeq'[o] = outSeq[o]
      /\ wire'[s] = wire[s] \o Sealed(<<"kexinit">>, outKey[s], outSeq[s]) /\ wire'[o] = wire[o]
      /\ kex'[s] = "created" /\ kex'[o] = kex[o]
  BY <1>1, <1>2, <1>3, <1>4 DEF Write, SidesOK
<1>7. Replies(s, <<"kexinit">>, kex[s], "created")
  <2>1. "kexinit" \in KindsOf(s, gex) /\ StepOf("kexinit") = 1
    BY DEF KindsOf, StepOf
  <2>2. WriteStep(s, kex[s], gex) = 0 /\ WriteStep(s, "created", gex) = 1
    BY <1>3 DEF WriteStep
  <2>3. \A x \in Steps(gex) : 0 < x /\ x <= 1 => x = 1
    BY DEF Steps
  <2> QED BY <2>1, <2>2, <2>3, OneReply
<1>8. Direction(s)'
  <2>1. Unread(o)
    BY <1>1, <1>3, <1>6 DEF Unread, Reached
  <2> QED BY <1>2, <1>3, <1>4, <1>6, <1>7, <2>1, MessagesWritten
<1>9. Direction(o)'
  <2>1. Unwritten(o)
    BY <1>1, <1>3, <1>6 DEF Unwritten, Told, NextKey
  <2>2. Unread(s)
    BY <1>3, <1>6 DEF Unread, Reached, ReadStep
  <2> QED BY <1>1, <1>2, <1>3, <1>6, <2>1, <2>2, DirectionSame
<1>10. SidesInStep'
  BY <1>2, <1>3, StepKept
<1> QED BY <1>1, <1>5, <1>8, <1>9, <1>10 DEF StepInv

\* What is read and opened: the packet and the wires afterwards.
LEMMA HeadOpened ==
  ASSUME SidesOK, NEW s \in Side, Direction(Other(s)), wire[Other(s)] # <<>>, Opens(s)
  PROVE  /\ Head1(s) \in Packet /\ Head1(s).key = inKey[s] /\ Head1(s).seq = inSeq[s]
         /\ inKey[s] = gen[s] /\ gen[s] \in Nat /\ inSeq[s] \in Nat
         /\ \A v : Answered(s, v)[s] = wire[s] \o v /\ Answered(s, v)[Other(s)] = Tail(wire[Other(s)])
         /\ \A v : Answered(s, v) = [d \in Side |-> Answered(s, v)[d]]
<1>1. Other(s) \in Side /\ Other(s) # s /\ Other(Other(s)) = s
  BY TwoSides
<1>2. wire[Other(s)] \in Seq(Packet)
  BY PacketsOfSide DEF Direction
<1>3. Head1(s) \in Packet
  BY <1>2, HeadTailProperties DEF Head1
<1>4. \A v : Answered(s, v)[s] = wire[s] \o v /\ Answered(s, v)[Other(s)] = Tail(wire[Other(s)])
  BY <1>1 DEF SidesOK, Answered
<1>5. \A v : Answered(s, v) = [d \in Side |-> Answered(s, v)[d]]
  BY <1>1 DEF SidesOK, Answered
<1> QED BY <1>3, <1>4, <1>5 DEF SidesOK, Opens

\* One message of the exchange is read, and what it calls for is written.
LEMMA KexKeeps ==
  ASSUME StepInv, NEW s \in Side, RecvKex(s)
  PROVE  StepInv'
<1> DEFINE o == Other(s)
           h == Head1(s)
           kind == h.kind
           kinds == Opening(s, kind) \o Answer(s, kind)
           l == After(kind)
<1>1. /\ o \in Side /\ o # s /\ Other(o) = s /\ \A d \in Side : d = s \/ d = o
  BY TwoSides
<1>2. SidesOK /\ Direction(s) /\ Direction(o) /\ SidesInStep
  BY <1>1 DEF StepInv
<1>3. /\ strict' = strict /\ gex' = gex /\ gen' = gen /\ inKey' = inKey /\ outKey' = outKey
      /\ fate' = fate /\ parked' = parked /\ late' = late
  BY DEF RecvKex, keyVars, trafficVars
<1>4. /\ wire[o] # <<>> /\ kind \in KexKinds \ {"newkeys"} /\ Opens(s) /\ Expects(s, kind)
      /\ wire' = Answered(s, Sealed(kinds, outKey[s], outSeq[s]))
      /\ inSeq' = [inSeq EXCEPT ![s] = @ + 1]
      /\ outSeq' = [outSeq EXCEPT ![s] = reset_seqn(s, kind, @ + Len(kinds))]
      /\ kex' = [kex EXCEPT ![s] = l]
  BY DEF RecvKex, Incoming
<1>5. /\ h \in Packet /\ h.key = inKey[s] /\ h.seq = inSeq[s] /\ inKey[s] = gen[s] /\ gen[s] \in Nat
      /\ inSeq[s] \in Nat
      /\ wire'[s] = wire[s] \o Sealed(kinds, outKey[s], outSeq[s]) /\ wire'[o] = Tail(wire[o])
      /\ wire' = [d \in Side |-> wire'[d]]
  BY <1>1, <1>2, <1>4, HeadOpened
<1>6. Replies(s, kinds, kex[s], l)
  BY <1>2, <1>4, Conversation
<1>7. /\ ReadStep(l, gex) = StepOf(kind) /\ l \in IF gex THEN KexStates ELSE KexStates \ {"gex"}
  BY <1>2, <1>4, ReadsNext
<1>8. l = "newkeys" <=> kind \in {"dhinit", "reply"}
  <2>1. kind \in {"kexinit", "gexreq", "gexgroup", "dhinit", "reply"}
    BY <1>4 DEF KexKinds
  <2>2. CASE kind = "kexinit"
    BY <2>2 DEF After
  <2>3. CASE kind \in {"gexreq", "gexgroup"}
    BY <2>3 DEF After
  <2>4. CASE kind \in {"dhinit", "reply"}
    BY <2>4 DEF After
  <2> QED BY <2>1, <2>2, <2>3, <2>4
<1>9. kex[s] # "newkeys"
  <2>1. kind \in {"kexinit", "gexreq", "gexgroup", "dhinit", "reply"}
    BY <1>4 DEF KexKinds
  <2> QED BY <1>4, <2>1 DEF Expects
<1> HIDE DEF kinds, l
<1>10. Len(kinds) \in Nat
  BY <1>6 DEF Replies
<1>11. /\ kex'[s] = l /\ kex'[o] = kex[o] /\ inSeq'[s] = inSeq[s] + 1 /\ inSeq'[o] = inSeq[o]
       /\ outSeq'[o] = outSeq[o]
       /\ outSeq'[s] = IF strict /\ l = "newkeys" THEN 0 ELSE outSeq[s] + Len(kinds)
  BY <1>1, <1>2, <1>4, <1>8 DEF SidesOK, reset_seqn
<1>12. SidesOK'
  <2>1. outSeq[s] \in Nat
    BY <1>2 DEF SidesOK
  <2>2. outSeq'[s] \in Nat
    BY <1>10, <1>11, <2>1
  <2>3. outSeq' = [outSeq EXCEPT ![s] = outSeq'[s]]
    BY <1>2, <1>4 DEF SidesOK
  <2>4. outSeq' \in [Side -> Nat]
    BY <1>2, <2>2, <2>3 DEF SidesOK
  <2>5. inSeq' \in [Side -> Nat]
    BY <1>2, <1>4 DEF SidesOK
  <2>6. kex' \in [Side -> IF gex THEN KexStates ELSE KexStates \ {"gex"}]
    BY <1>2, <1>4, <1>7 DEF SidesOK
  <2> QED BY <1>2, <1>3, <1>5, <2>4, <2>5, <2>6 DEF SidesOK
<1>13. Direction(s)'
  <2>1. Unread(o)
    BY <1>1, <1>3, <1>11 DEF Unread, Reached
  <2> QED BY <1>2, <1>3, <1>5, <1>6, <1>9, <1>11, <2>1, MessagesWritten
<1>14. Direction(o)'
  <2>1. Unwritten(o)
    BY <1>1, <1>3, <1>11 DEF Unwritten, Told, NextKey
  <2>2. Reached(s)' = Place(h)
    BY <1>3, <1>5, <1>7, <1>11 DEF Reached, Place
  <2>3. inKey'[s] = KeyAfter(h) /\ inSeq'[s] = SeqAfter(h, strict)
    BY <1>3, <1>4, <1>5, <1>11 DEF KeyAfter, SeqAfter
  <2>4. Reached(s)' = IF h.kind \in KexKinds THEN Place(h) ELSE Reached(s)
    BY <1>4, <2>2
  <2> QED BY <1>1, <1>2, <1>3, <1>4, <1>5, <2>1, <2>3, <2>4, DirectionRead
<1>15. SidesInStep'
  BY <1>2, <1>3, StepKept
<1> QED BY <1>1, <1>12, <1>13, <1>14, <1>15 DEF StepInv

LEMMA DataIsTraffic ==
  ASSUME NEW n \in Nat
  PROVE  Data(n) \in Seq(TrafficKinds) /\ Len(Data(n)) = n
<1>1. Data(n) \in [1 .. n -> TrafficKinds]
  BY DEF Data, TrafficKinds
<1> QED BY <1>1

\* NEWKEYS is read: the exchange is over, and the parked data leaves under the new key.
LEMMA NewKeysKeeps ==
  ASSUME StepInv, NEW s \in Side, RecvNewKeys(s)
  PROVE  StepInv'
<1> DEFINE o == Other(s)
           h == Head1(s)
           kinds == Data(parked[s])
           v == Sealed(kinds, gen[s] + 1, outSeq[s])
<1>1. /\ o \in Side /\ o # s /\ Other(o) = s /\ \A d \in Side : d = s \/ d = o
  BY TwoSides
<1>2. SidesOK /\ Direction(s) /\ Direction(o) /\ SidesInStep
  BY <1>1 DEF StepInv
<1>3. /\ strict' = strict /\ gex' = gex /\ fate' = fate /\ late' = late
      /\ gen' = [gen EXCEPT ![s] = @ + 1] /\ inKey' = [inKey EXCEPT ![s] = gen[s] + 1]
      /\ outKey' = [outKey EXCEPT ![s] = gen[s] + 1]
      /\ inSeq' = [inSeq EXCEPT ![s] = IF strict THEN 0 ELSE @ + 1]
      /\ outSeq' = [outSeq EXCEPT ![s] = @ + parked[s]]
      /\ parked' = [parked EXCEPT ![s] = 0] /\ kex' = [kex EXCEPT ![s] = "idle"]
  BY DEF RecvNewKeys
<1>4. /\ wire[o] # <<>> /\ h.kind = "newkeys" /\ Opens(s) /\ kex[s] = "newkeys"
      /\ wire' = Answered(s, v)
  <2>1. Expects(s, "newkeys")
    BY DEF RecvNewKeys
  <2>2. kex[s] = "newkeys"
    BY <2>1 DEF Expects
  <2> QED BY <2>2 DEF RecvNewKeys, Incoming
<1>5. /\ h \in Packet /\ h.key = inKey[s] /\ h.seq = inSeq[s] /\ inKey[s] = gen[s] /\ gen[s] \in Nat
      /\ inSeq[s] \in Nat
      /\ wire'[s] = wire[s] \o v /\ wire'[o] = Tail(wire[o])
      /\ wire' = [d \in Side |-> wire'[d]]
  <2> HIDE DEF v
  <2> QED BY <1>1, <1>2, <1>4, HeadOpened
<1>6. kinds \in Seq(TrafficKinds) /\ Len(kinds) = parked[s] /\ parked[s] \in Nat /\ outSeq[s] \in Nat
  BY <1>2, DataIsTraffic DEF SidesOK
<1>7. /\ kex'[s] = "idle" /\ kex'[o] = kex[o] /\ gen'[s] = gen[s] + 1 /\ gen'[o] = gen[o]
      /\ inKey'[s] = gen[s] + 1 /\ inKey'[o] = inKey[o] /\ outKey'[s] = gen[s] + 1 /\ outKey'[o] = outKey[o]
      /\ inSeq'[s] = (IF strict THEN 0 ELSE inSeq[s] + 1) /\ inSeq'[o] = inSeq[o]
      /\ outSeq'[s] = outSeq[s] + parked[s] /\ outSeq'[o] = outSeq[o]
  BY <1>1, <1>2, <1>3 DEF SidesOK
<1>8. SidesOK'
  <2>1. "idle" \in IF gex THEN KexStates ELSE KexStates \ {"gex"}
    BY DEF KexStates
  <2>2. kex' \in [Side -> IF gex THEN KexStates ELSE KexStates \ {"gex"}]
    BY <1>2, <1>3, <2>1 DEF SidesOK
  <2>3. gen' \in [Side -> Nat] /\ inKey' = gen' /\ outKey' = gen'
    BY <1>2, <1>3 DEF SidesOK
  <2>4. inSeq' \in [Side -> Nat] /\ parked' \in [Side -> Nat]
    BY <1>2, <1>3 DEF SidesOK
  <2>5. outSeq' \in [Side -> Nat]
    BY <1>2, <1>3, <1>6 DEF SidesOK
  <2> QED BY <1>2, <1>3, <1>5, <2>2, <2>3, <2>4, <2>5 DEF SidesOK
<1> HIDE DEF kinds
<1>9. Direction(s)'
  <2> DEFINE k == gen[s] + 1
             q == outSeq[s]
  <2>1. k \in Nat /\ q \in Nat /\ strict \in BOOLEAN
    BY <1>2, <1>5, <1>6 DEF SidesOK
  <2> HIDE DEF k, q
  <2> DEFINE w == Sealed(kinds, k, q)
  <2>2. /\ w \in Seq(PacketOf(s, gex)) /\ \A n \in Nat : InOrder(w, n, n, gex)
        /\ SealedFrom(w, k, q, k, q + Len(kinds), strict)
    <3>1. kinds \in Seq(TrafficKinds)
      BY <1>6
    <3>2. Passing(w, Len(kinds), s, gex, k, q, strict)
      BY <2>1, <3>1, TrafficSealed
    <3> QED BY <3>2 DEF Passing
  <2>3. v = w
    BY DEF k, q
  <2> HIDE DEF v, w
  <2>4. Unread(o)
    BY <1>1, <1>3, <1>7 DEF Unread, Reached
  <2>5. Told(s) = 4 * gen[s] + 4 /\ Told(s)' = 4 * (gen[s] + 1) + 0
    BY <1>3, <1>4, <1>7 DEF Told, WriteStep
  <2>6. InOrder(v, Told(s), Told(s)', gex)
    <3>1. Told(s)' = Told(s) /\ Told(s) \in Nat
      BY <1>5, <2>5
    <3> QED BY <2>2, <2>3, <3>1
  <2>7. NextKey(s) = k /\ NextKey(s)' = k
    BY <1>2, <1>4, <1>7 DEF NextKey, SidesOK, k
  <2>8. outSeq'[s] = q + Len(kinds) /\ outSeq[s] = q
    BY <1>6, <1>7 DEF q
  <2>9. SealedFrom(v, NextKey(s), outSeq[s], NextKey(s)', outSeq'[s], strict)
    BY <2>2, <2>3, <2>7, <2>8
  <2>10. v \in Seq(PacketOf(s, gex))
    BY <2>2, <2>3
  <2> QED BY <1>2, <1>3, <1>5, <2>4, <2>6, <2>9, <2>10, DirectionWritten
<1>10. Direction(o)'
  <2> HIDE DEF v
  <2>1. Unwritten(o)
    BY <1>1, <1>3, <1>7 DEF Unwritten, Told, NextKey
  <2>2. "newkeys" \in KexKinds /\ StepOf("newkeys") = 4
    BY DEF KexKinds, StepOf
  <2>3. Reached(s)' = 4 * (gen[s] + 1) + 0
    BY <1>3, <1>7 DEF Reached, ReadStep
  <2>4. Reached(s)' = Place(h)
    BY <1>4, <1>5, <2>2, <2>3 DEF Place
  <2>5. inKey'[s] = KeyAfter(h) /\ inSeq'[s] = SeqAfter(h, strict)
    BY <1>4, <1>5, <1>7 DEF KeyAfter, SeqAfter
  <2>6. Reached(s)' = IF h.kind \in KexKinds THEN Place(h) ELSE Reached(s)
    BY <1>4, <2>2, <2>4
  <2> QED BY <1>1, <1>2, <1>3, <1>4, <1>5, <2>1, <2>5, <2>6, DirectionRead
<1>11. SidesInStep'
  BY <1>2, <1>3, StepKept
<1> QED BY <1>1, <1>8, <1>9, <1>10, <1>11 DEF StepInv

\* What may be written in answer to a packet outside the exchange is of that sort too.
LEMMA TrafficAnswer ==
  ASSUME StepInv, NEW s \in Side, RecvTraffic(s)
  PROVE  \E kinds \in Seq(TrafficKinds) :
           /\ wire' = Answered(s, Sealed(kinds, outKey[s], outSeq[s]))
           /\ outSeq' = [outSeq EXCEPT ![s] = @ + Len(kinds)]
           /\ Wrote(s, kinds) /\ parked' \in [Side -> Nat]
<1> DEFINE kind == Head1(s).kind
           Choices == CASE kind = "data" /\ "grant" \in Traffic -> {<<>>, <<"adjust">>}
                        [] kind = "adjust" -> {Data(n) : n \in 0 .. parked[s]}
                        [] kind = "keepalive" -> {<<"alive">>}
                        [] OTHER -> {<<>>}
<1>1. parked \in [Side -> Nat] /\ parked[s] \in Nat
  BY DEF StepInv, SidesOK
<1>2. PICK kinds \in Choices :
           /\ wire' = Answered(s, Sealed(kinds, outKey[s], outSeq[s]))
           /\ outSeq' = [outSeq EXCEPT ![s] = @ + Len(kinds)]
           /\ Wrote(s, kinds)
           /\ parked' = IF kind = "adjust" THEN [parked EXCEPT ![s] = @ - Len(kinds)] ELSE parked
  BY DEF RecvTraffic
<1>3. CASE kind = "adjust"
  <2>1. Choices = {Data(n) : n \in 0 .. parked[s]}
    BY <1>3
  <2>2. PICK n \in 0 .. parked[s] : kinds = Data(n)
    BY <2>1
  <2>3. n \in Nat /\ n <= parked[s]
    BY <1>1
  <2>4. kinds \in Seq(TrafficKinds) /\ Len(kinds) = n
    BY <2>2, <2>3, DataIsTraffic
  <2>5. parked' = [parked EXCEPT ![s] = @ - Len(kinds)]
    BY <1>2, <1>3
  <2>6. parked' \in [Side -> Nat]
    BY <1>1, <2>3, <2>4, <2>5
  <2> QED BY <1>2, <2>4, <2>6
<1>4. CASE kind # "adjust"
  <2>1. kinds \in {<<>>, <<"adjust">>, <<"alive">>}
    BY <1>4
  <2>2. <<>> \in Seq(TrafficKinds)
    OBVIOUS
  <2>3. <<"adjust">> \in Seq(TrafficKinds) /\ <<"alive">> \in Seq(TrafficKinds)
    BY DEF TrafficKinds
  <2>4. parked' = parked
    BY <1>2, <1>4
  <2>5. kinds \in Seq(TrafficKinds)
    BY <2>1, <2>2, <2>3
  <2> QED BY <1>1, <1>2, <2>4, <2>5
<1> QED BY <1>3, <1>4

LEMMA TrafficKeeps ==
  ASSUME StepInv, NEW s \in Side, RecvTraffic(s)
  PROVE  StepInv'
<1> DEFINE o == Other(s)
           h == Head1(s)
<1>1. /\ o \in Side /\ o # s /\ Other(o) = s /\ \A d \in Side : d = s \/ d = o
  BY TwoSides
<1>2. SidesOK /\ Direction(s) /\ Direction(o) /\ SidesInStep
  BY <1>1 DEF StepInv
<1>3. /\ strict' = strict /\ gex' = gex /\ gen' = gen /\ inKey' = inKey /\ outKey' = outKey
      /\ fate' = fate /\ kex' = kex /\ inSeq' = [inSeq EXCEPT ![s] = @ + 1]
      /\ wire[o] # <<>> /\ h.kind \in TrafficKinds /\ Opens(s)
  BY DEF RecvTraffic, Incoming, keyVars
<1>4. PICK kinds \in Seq(TrafficKinds) :
           /\ wire' = Answered(s, Sealed(kinds, outKey[s], outSeq[s]))
           /\ outSeq' = [outSeq EXCEPT ![s] = @ + Len(kinds)]
           /\ Wrote(s, kinds) /\ parked' \in [Side -> Nat]
  BY TrafficAnswer
<1>5. /\ h \in Packet /\ h.key = inKey[s] /\ h.seq = inSeq[s] /\ inSeq[s] \in Nat
      /\ wire'[s] = wire[s] \o Sealed(kinds, outKey[s], outSeq[s]) /\ wire'[o] = Tail(wire[o])
      /\ wire' = [d \in Side |-> wire'[d]]
  BY <1>1, <1>2, <1>3, <1>4, HeadOpened
<1>6. /\ outSeq'[s] = outSeq[s] + Len(kinds) /\ outSeq'[o] = outSeq[o]
      /\ late'[s] = (late[s] \/ (kex[s] = "newkeys" /\ kinds # <<>>)) /\ late'[o] = late[o]
      /\ inSeq'[s] = inSeq[s] + 1 /\ inSeq'[o] = inSeq[o]
  BY <1>1, <1>2, <1>3, <1>4 DEF SidesOK, Wrote
<1>7. SidesOK'
  <2>1. Len(kinds) \in Nat
    OBVIOUS
  <2>2. outSeq' \in [Side -> Nat] /\ inSeq' \in [Side -> Nat]
    BY <1>2, <1>3, <1>4, <2>1 DEF SidesOK
  <2>3. late' \in [Side -> BOOLEAN]
    BY <1>2, <1>4 DEF SidesOK, Wrote
  <2> QED BY <1>2, <1>3, <1>4, <1>5, <2>2, <2>3 DEF SidesOK
<1>8. Direction(s)'
  <2>1. Unread(o)
    BY <1>1, <1>3, <1>6 DEF Unread, Reached
  <2> QED BY <1>2, <1>3, <1>5, <1>6, <2>1, TrafficWritten
<1>9. Direction(o)'
  <2>1. Unwritten(o)
    BY <1>1, <1>3, <1>6 DEF Unwritten, Told, NextKey
  <2>2. h.kind \notin KexKinds /\ h.kind # "newkeys"
    BY <1>3 DEF KexKinds, TrafficKinds
  <2>3. Reached(s)' = Reached(s)
    BY <1>3 DEF Reached
  <2>4. inKey'[s] = KeyAfter(h) /\ inSeq'[s] = SeqAfter(h, strict)
    BY <1>3, <1>5, <1>6, <2>2 DEF KeyAfter, SeqAfter
  <2>5. Reached(s)' = IF h.kind \in KexKinds THEN Place(h) ELSE Reached(s)
    BY <2>2, <2>3
  <2> QED BY <1>1, <1>2, <1>3, <1>5, <2>1, <2>4, <2>5, DirectionRead
<1>10. SidesInStep'
  <2>1. \A d \in Side : late[d] => late'[d]
    BY <1>1, <1>6
  <2> QED BY <1>2, <1>3, <2>1, StepKept
<1> QED BY <1>1, <1>7, <1>8, <1>9, <1>10 DEF StepInv

\* A step that ends a session: the reason is one that the invariant allows.
LEMMA EndKeeps ==
  ASSUME StepInv, NEW s \in Side, NEW f \in Fates, fate' = [fate EXCEPT ![s] = f],
         f = "cannot open" => late[Other(s)], f # "kex error",
         UNCHANGED <<keyVars, kex, outSeq, inSeq, wire, trafficVars>>
  PROVE  StepInv'
<1>1. /\ strict' = strict /\ gex' = gex /\ gen' = gen /\ inKey' = inKey /\ outKey' = outKey
      /\ kex' = kex /\ outSeq' = outSeq /\ inSeq' = inSeq /\ wire' = wire /\ parked' = parked /\ late' = late
  BY DEF keyVars, trafficVars
<1>2. SidesOK'
  BY <1>1 DEF StepInv, SidesOK
<1>3. \A d \in Side : Direction(d)'
  <2> TAKE d \in Side
  <2>1. Unread(Other(d)) /\ Unwritten(d) /\ Direction(d) /\ wire'[d] = wire[d]
    BY <1>1 DEF Unread, Unwritten, Reached, Told, NextKey, StepInv
  <2> QED BY <1>1, <2>1, DirectionSame
<1>4. SidesInStep'
  <2>1. fate \in [Side -> Fates] /\ \A d \in Side : fate'[d] = IF d = s THEN f ELSE fate[d]
    BY DEF StepInv, SidesOK
  <2>2. KexOrder'
    BY <2>1 DEF StepInv, SidesInStep, KexOrder
  <2>3. KeysInStep'
    BY <1>1, <2>1 DEF StepInv, SidesInStep, KeysInStep
  <2> QED BY <2>2, <2>3 DEF SidesInStep
<1> QED BY <1>2, <1>3, <1>4 DEF StepInv

\* A packet that does not open comes from a writer that was late, and a message
\* that is not expected never comes.
LEMMA BadKeeps ==
  ASSUME StepInv, NEW s \in Side, RecvBad(s)
  PROVE  StepInv'
<1> DEFINE o == Other(s)
<1>1. o \in Side /\ Other(o) = s
  BY TwoSides
<1>2. SidesOK /\ Direction(o)
  BY <1>1 DEF StepInv
<1>3. /\ wire[o] # <<>>
      /\ ~Opens(s) \/ (Head1(s).kind \in KexKinds /\ ~Expects(s, Head1(s).kind))
      /\ fate' = [fate EXCEPT ![s] = IF Opens(s) THEN "kex error" ELSE "cannot open"]
      /\ UNCHANGED <<keyVars, kex, outSeq, inSeq, wire, trafficVars>>
  BY DEF RecvBad
<1>4. ~Opens(s)
  BY <1>2, <1>3, NextIsExpected
<1>5. late[o]
  <2> SUFFICES ASSUME ~late[o] PROVE FALSE
    OBVIOUS
  <2>1. SealedFrom(wire[o], inKey[s], inSeq[s], NextKey(o), outSeq[o], strict)
    BY <1>1, <1>2 DEF Direction
  <2>2. wire[o] \in Seq(Packet)
    BY <1>2, PacketsOfSide DEF Direction
  <2>3. Head(wire[o]).key = inKey[s] /\ Head(wire[o]).seq = inSeq[s]
    BY <1>3, <2>1, <2>2, SealedTail
  <2> QED BY <1>4, <2>3 DEF Opens, Head1
<1>6. "cannot open" \in Fates /\ fate' = [fate EXCEPT ![s] = "cannot open"]
  BY <1>3, <1>4 DEF Fates
<1> QED BY <1>3, <1>5, <1>6, EndKeeps

\* The other arms of the loops, and the ends that nobody is to blame for.
LEMMA OtherArmsKeep ==
  ASSUME StepInv, NEW s \in Side, AppMessage(s) \/ AppControl(s) \/ Keepalive(s)
  PROVE  StepInv'
<1>1. /\ parked \in [Side -> Nat] /\ late \in [Side -> BOOLEAN] /\ outSeq \in [Side -> Nat]
      /\ wire = [d \in Side |-> wire[d]]
  BY DEF StepInv, SidesOK
<1>2. /\ <<"data">> \in Seq(TrafficKinds) /\ <<"control">> \in Seq(TrafficKinds)
      /\ <<"keepalive">> \in Seq(TrafficKinds)
  BY DEF TrafficKinds
<1>3. CASE AppMessage(s)
  <2>1. UNCHANGED <<keyVars, kex, inSeq, fate>> /\ late' = late
    BY <1>3 DEF AppMessage
  <2>2. CASE ~Active(s) /\ Write(s, <<"data">>) /\ UNCHANGED parked
    <3>1. late' = [late EXCEPT ![s] = @ \/ (kex[s] = "newkeys" /\ <<"data">> # <<>>)]
      <4>1. kex[s] # "newkeys"
        BY <2>2 DEF Active
      <4> QED BY <1>1, <2>1, <4>1
    <3>2. parked' \in [Side -> Nat]
      BY <1>1, <2>2
    <3> QED BY <1>2, <2>1, <2>2, <3>1, <3>2, WriteKeeps
  <2>3. CASE parked' = [parked EXCEPT ![s] = @ + 1] /\ UNCHANGED <<wire, outSeq>>
    <3>1. parked' \in [Side -> Nat]
      BY <1>1, <2>3
    <3>2. /\ strict' = strict /\ gex' = gex /\ gen' = gen /\ inKey' = inKey /\ outKey' = outKey
          /\ kex' = kex /\ outSeq' = outSeq /\ inSeq' = inSeq /\ wire' = wire /\ fate' = fate
      BY <2>1, <2>3 DEF keyVars
    <3>3. SidesOK'
      BY <2>1, <3>1, <3>2 DEF StepInv, SidesOK
    <3>4. \A d \in Side : Direction(d)'
      <4> TAKE d \in Side
      <4>1. Unread(Other(d)) /\ Unwritten(d) /\ Direction(d) /\ wire'[d] = wire[d]
        BY <2>1, <3>2 DEF Unread, Unwritten, Reached, Told, NextKey, StepInv
      <4> QED BY <3>2, <4>1, DirectionSame
    <3>5. SidesInStep'
      BY <2>1, <3>2, StepKept DEF StepInv
    <3> QED BY <3>3, <3>4, <3>5 DEF StepInv
  <2> QED BY <1>3, <2>2, <2>3 DEF AppMessage
<1>4. CASE AppControl(s)
  <2>1. UNCHANGED <<keyVars, kex, inSeq, fate, parked>> /\ Write(s, <<"control">>) /\ Wrote(s, <<"control">>)
    BY <1>4 DEF AppControl
  <2> QED BY <1>1, <1>2, <2>1, WriteKeeps DEF Wrote
<1>5. CASE Keepalive(s)
  <2>1. UNCHANGED <<keyVars, kex, inSeq, fate, parked>> /\ Write(s, <<"keepalive">>) /\ Wrote(s, <<"keepalive">>)
    BY <1>5 DEF Keepalive
  <2> QED BY <1>1, <1>2, <2>1, WriteKeeps DEF Wrote
<1> QED BY <1>3, <1>4, <1>5

LEMMA StepInit == Init => StepInv
<1> SUFFICES ASSUME Init PROVE StepInv
  OBVIOUS
<1>1. /\ kex = [s \in Side |-> "idle"] /\ gen = [s \in Side |-> 0] /\ outKey = [s \in Side |-> 0]
      /\ inKey = [s \in Side |-> 0] /\ outSeq = [s \in Side |-> 0] /\ inSeq = [s \in Side |-> 0]
      /\ wire = [s \in Side |-> <<>>] /\ parked = [s \in Side |-> 0] /\ late = [s \in Side |-> FALSE]
      /\ fate = [s \in Side |-> "alive"] /\ strict \in BOOLEAN /\ gex \in BOOLEAN
  BY DEF Init
<1>2. SidesOK
  <2>1. "idle" \in (IF gex THEN KexStates ELSE KexStates \ {"gex"}) /\ "alive" \in Fates
    BY DEF KexStates, Fates
  <2>2. kex \in [Side -> IF gex THEN KexStates ELSE KexStates \ {"gex"}] /\ fate \in [Side -> Fates]
    BY <1>1, <2>1
  <2> QED BY <1>1, <2>2 DEF SidesOK
<1>3. \A s \in Side : Direction(s)
  <2> TAKE s \in Side
  <2>1. Other(s) \in Side
    BY TwoSides
  <2>2. Reached(Other(s)) = 0 /\ Told(s) = 0 /\ NextKey(s) = 0 /\ wire[s] = <<>>
    BY <1>1, <2>1 DEF Reached, Told, NextKey, ReadStep, WriteStep
  <2>3. <<>> \in Seq(Packet) /\ <<>> \in Seq(PacketOf(s, gex)) /\ Len(<<>>) = 0
    OBVIOUS
  <2>4. InOrder(<<>>, 0, 0, gex)
    <3>1. \A i \in 1 .. Len(<<>>) : FALSE
      BY <2>3
    <3>2. 0 \in Nat /\ \A k \in Nat, x \in Steps(gex) : ~(0 < 4 * k + x /\ 4 * k + x <= 0)
      BY DEF Steps
    <3> QED BY <3>1, <3>2 DEF InOrder
  <2>5. SealedFrom(<<>>, 0, 0, 0, 0, strict)
    BY <2>3 DEF SealedFrom
  <2>6. inKey[Other(s)] = 0 /\ inSeq[Other(s)] = 0 /\ outSeq[s] = 0
    BY <1>1, <2>1
  <2> QED BY <2>2, <2>3, <2>4, <2>5, <2>6 DEF Direction
<1>4. SidesInStep
  BY <1>1 DEF SidesInStep, KeysInStep, KexOrder
<1> QED BY <1>2, <1>3, <1>4 DEF StepInv

LEMMA StepNext ==
  ASSUME StepInv, [Next]_vars
  PROVE  StepInv'
<1>1. CASE DeadlineFires
  <2>1. "server" \in Side /\ "RekeyTimeout" \in Fates
    BY DEF Side, Fates
  <2>2. /\ fate' = [fate EXCEPT !["server"] = "RekeyTimeout"]
        /\ UNCHANGED <<keyVars, kex, outSeq, inSeq, wire, trafficVars>>
    BY <1>1 DEF DeadlineFires
  <2> QED BY <2>1, <2>2, EndKeeps
<1>2. ASSUME NEW s \in Side, Hangup(s)
      PROVE  StepInv'
  <2>1. "hangup" \in Fates
    BY DEF Fates
  <2>2. /\ fate' = [fate EXCEPT ![s] = "hangup"]
        /\ UNCHANGED <<keyVars, kex, outSeq, inSeq, wire, trafficVars>>
    BY <1>2 DEF Hangup
  <2> QED BY <2>1, <2>2, EndKeeps
<1>3. ASSUME NEW s \in Side, Recv(s)
      PROVE  StepInv'
  BY <1>3, BadKeeps, KexKeeps, NewKeysKeeps, TrafficKeeps DEF Recv
<1>4. ASSUME NEW s \in Side, BeginRekey(s) \/ AppMessage(s) \/ AppControl(s) \/ Keepalive(s)
      PROVE  StepInv'
  BY <1>4, BeginKeeps, OtherArmsKeep
<1>5. CASE UNCHANGED vars
  <2>1. /\ strict' = strict /\ gex' = gex /\ gen' = gen /\ inKey' = inKey /\ outKey' = outKey
        /\ kex' = kex /\ outSeq' = outSeq /\ inSeq' = inSeq /\ wire' = wire /\ parked' = parked
        /\ late' = late /\ fate' = fate
    BY <1>5 DEF vars, keyVars, trafficVars
  <2>2. SidesOK'
    BY <2>1 DEF StepInv, SidesOK
  <2>3. \A d \in Side : Direction(d)'
    <3> TAKE d \in Side
    <3>1. Unread(Other(d)) /\ Unwritten(d) /\ Direction(d) /\ wire'[d] = wire[d]
      BY <2>1 DEF Unread, Unwritten, Reached, Told, NextKey, StepInv
    <3> QED BY <2>1, <3>1, DirectionSame
  <2>4. SidesInStep'
    BY <2>1, StepKept DEF StepInv
  <2> QED BY <2>2, <2>3, <2>4 DEF StepInv
<1> QED BY <1>1, <1>2, <1>3, <1>4, <1>5 DEF Next

\* Through any number of exchanges, started by either side or by both at once, and
\* any traffic around them, client and server change keys and sequence numbers at
\* the same place of each stream and read every message in the state that expects
\* it; only a packet written behind the writer's own NEWKEYS fails to open.
THEOREM SidesAlwaysInStep == Spec => []SidesInStep
<1>1. StepInv => SidesInStep
  BY DEF StepInv
<1> QED BY <1>1, StepInit, StepNext, PTL DEF Spec
=============================================================================
