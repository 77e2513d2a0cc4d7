------------------------------- MODULE Rekey -------------------------------
(***************************************************************************)
(* Key re-exchange between a russh client and a russh server: the messages *)
(* of ServerKex and ClientKex, the moment each direction changes its       *)
(* cipher and its sequence number, and the traffic that the two session    *)
(* loops write around it.                                                  *)
(*                                                                         *)
(* A key is the number of the exchange that produced it.  A packet on the  *)
(* wire carries the key and the sequence number it was sealed with; it is  *)
(* opened only by a reader that uses the same ones, and a reader that does *)
(* not ends its session.  What the exchange computes is left out, and so   *)
(* are wrong guesses (first_kex_packet_follows).  The first exchange of a  *)
(* connection is over.                                                     *)
(***************************************************************************)
EXTENDS Integers, Sequences

CONSTANTS
  MaxKex,     \* bound: exchanges after the first
  MaxTraffic, \* bound: packets a side sends of its own accord
  Traffic,    \* a subset of {"message", "control", "keepalive", "grant"}
  Stalling    \* sides that may stop answering

ASSUME RekeyAssumption ==
  /\ MaxKex \in Nat /\ MaxTraffic \in Nat
  /\ Traffic \subseteq {"message", "control", "keepalive", "grant"}
  /\ Stalling \subseteq {"client", "server"}

Side == {"client", "server"}
Other(s) == IF s = "client" THEN "server" ELSE "client"

VARIABLES
  strict,   \* was strict key exchange negotiated?
  gex,      \* do the sides use group exchange?
  kex,      \* SessionKexState and the state of ServerKex or ClientKex
  gen,      \* exchanges completed by a side
  outKey,   \* PacketWriter::cipher
  outSeq,   \* PacketWriter::write_buffer.seqn
  inKey,    \* CommonSession::remote_to_local
  inSeq,    \* sequence number of the next packet to open
  wire,     \* packets sent by a side
  parked,   \* data in pending_data
  stale,    \* is can_receive_outbound of this iteration out of date?
  sent,     \* packets sent of its own accord
  late,     \* history: did a side write between its own NEWKEYS and its new key?
  silent,   \* the sides that may stop reading at any moment
  deadline, \* RekeyDeadline::generation of the server, 0 for none
  rekeyGen, \* Session::rekey_gen of the server
  fate      \* "alive", or why the session of a side ended

trafficVars == <<parked, sent, late>>
keyVars == <<strict, gex, silent, gen, outKey, inKey>>
deadlineVars == <<deadline, rekeyGen>>
vars == <<keyVars, kex, outSeq, inSeq, wire, trafficVars, stale, deadlineVars, fate>>
-----------------------------------------------------------------------------
KexKinds == {"kexinit", "gexreq", "gexgroup", "dhinit", "reply", "newkeys"}
TrafficKinds == {"data", "control", "adjust", "keepalive", "alive"}
Packet == [kind : KexKinds \cup TrafficKinds, key : Nat, seq : Nat]
KexStates == {"idle", "created", "gex", "dh", "newkeys"}

\* Every variable has its type.
TypeOK ==
  /\ strict \in BOOLEAN /\ gex \in BOOLEAN
  /\ kex \in [Side -> IF gex THEN KexStates ELSE KexStates \ {"gex"}]
  /\ gen \in [Side -> Nat] /\ outKey \in [Side -> Nat] /\ inKey \in [Side -> Nat]
  /\ outSeq \in [Side -> Nat] /\ inSeq \in [Side -> Nat] /\ wire \in [Side -> Seq(Packet)]
  /\ parked \in [Side -> Nat] /\ stale \in BOOLEAN /\ sent \in [Side -> Nat]
  /\ late \in [Side -> BOOLEAN] /\ silent \subseteq Stalling
  /\ deadline \in Nat /\ rekeyGen \in Nat
  /\ fate \in [Side -> {"alive", "cannot open", "kex error", "RekeyTimeout", "hangup"}]

Init ==
  /\ strict \in BOOLEAN /\ gex \in BOOLEAN /\ kex = [s \in Side |-> "idle"]
  /\ gen = [s \in Side |-> 0] /\ outKey = [s \in Side |-> 0] /\ inKey = [s \in Side |-> 0]
  /\ outSeq = [s \in Side |-> 0] /\ inSeq = [s \in Side |-> 0] /\ wire = [s \in Side |-> <<>>]
  /\ parked = [s \in Side |-> 0] /\ stale = FALSE /\ sent = [s \in Side |-> 0]
  /\ late = [s \in Side |-> FALSE] /\ silent \in SUBSET Stalling
  /\ deadline = 0 /\ rekeyGen = 0 /\ fate = [s \in Side |-> "alive"]
-----------------------------------------------------------------------------
(* Sealing packets, and the steps of an exchange. *)

Alive(s) == fate[s] = "alive"
Active(s) == kex[s] # "idle"

\* The packets of the given kinds, sealed one after the other.
Sealed(kinds, key, seq) ==
  [i \in 1 .. Len(kinds) |-> [kind |-> kinds[i], key |-> key, seq |-> seq + i - 1]]
Data(n) == [i \in 1 .. n |-> "data"]

\* s writes packets, having read none.
Write(s, kinds) ==
  /\ wire' = [wire EXCEPT ![s] = @ \o Sealed(kinds, outKey[s], outSeq[s])]
  /\ outSeq' = [outSeq EXCEPT ![s] = @ + Len(kinds)]

\* s has written packets outside the exchange.
Wrote(s, kinds) == late' = [late EXCEPT ![s] = @ \/ (kex[s] = "newkeys" /\ kinds # <<>>)]

\* The wires once s has read a packet and written the given ones.
Answered(s, packets) == [wire EXCEPT ![s] = @ \o packets, ![Other(s)] = Tail(@)]

\* RekeyDeadline::register, on the server only.
register(s) ==
  IF s = "server" THEN rekeyGen' = rekeyGen + 1 /\ deadline' = rekeyGen + 1
  ELSE UNCHANGED deadlineVars

\* Mutant: the deadline outlives the exchange.
deadline_kept(s) == deadline
clear_rekey_deadline(s) == IF s = "server" THEN 0 ELSE deadline

\* The state in which each kind of message is expected.
Expects(s, kind) ==
  CASE kind = "kexinit"  -> kex[s] \in {"idle", "created"}
    [] kind = "gexreq"   -> s = "server" /\ kex[s] = "gex"
    [] kind = "gexgroup" -> s = "client" /\ kex[s] = "gex"
    [] kind = "dhinit"   -> s = "server" /\ kex[s] = "dh"
    [] kind = "reply"    -> s = "client" /\ kex[s] = "dh"
    [] kind = "newkeys"  -> kex[s] = "newkeys"

\* Mutant: a side that sent its KEXINIT sends another when it gets one.
OpeningTwice(s, kind) == IF kind = "kexinit" THEN <<"kexinit">> ELSE <<>>
\* What a side writes when it gets a message it expects.  A KEXINIT that comes
\* out of the blue is answered by begin_rekey first.
Opening(s, kind) == IF kind = "kexinit" /\ kex[s] = "idle" THEN <<"kexinit">> ELSE <<>>
\* Mutant: the server chooses a group and does not send it.
AnswerNoGroup(s, kind) ==
  CASE kind = "kexinit" -> IF s = "server" THEN <<>> ELSE IF gex THEN <<"gexreq">> ELSE <<"dhinit">>
    [] kind = "gexreq" -> <<>>
    [] kind = "gexgroup" -> <<"dhinit">>
    [] kind = "dhinit" -> <<"reply", "newkeys">>
    [] kind = "reply" -> <<"newkeys">>
Answer(s, kind) ==
  CASE kind = "kexinit" -> IF s = "server" THEN <<>> ELSE IF gex THEN <<"gexreq">> ELSE <<"dhinit">>
    [] kind = "gexreq" -> <<"gexgroup">>
    [] kind = "gexgroup" -> <<"dhinit">>
    [] kind = "dhinit" -> <<"reply", "newkeys">>
    [] kind = "reply" -> <<"newkeys">>

\* The state of the exchange behind a message.
After(kind) ==
  CASE kind = "kexinit" -> IF gex THEN "gex" ELSE "dh"
    [] kind \in {"gexreq", "gexgroup"} -> "dh"
    [] kind \in {"dhinit", "reply"} -> "newkeys"

\* Mutant: the sequence number is kept under strict key exchange.
reset_seqn_forgotten(s, kind, seq) == seq
\* reset_seqn: right behind the own NEWKEYS.
reset_seqn(s, kind, seq) == IF strict /\ kind \in {"dhinit", "reply"} THEN 0 ELSE seq
-----------------------------------------------------------------------------
(* A packet is read.  The server's stale gate ends with its iteration. *)

Head1(s) == Head(wire[Other(s)])
Opens(s) == Head1(s).key = inKey[s] /\ Head1(s).seq = inSeq[s]
Incoming(s, kinds) ==
  /\ Alive(s) /\ wire[Other(s)] # <<>> /\ Head1(s).kind \in kinds
IterationOver(s) == stale' = (stale /\ s # "server")

\* The packet does not open under the key and number the reader uses, or its
\* state of the exchange has no place for it: the session ends.
RecvBad(s) ==
  /\ Alive(s) /\ wire[Other(s)] # <<>>
  /\ ~Opens(s) \/ (Head1(s).kind \in KexKinds /\ ~Expects(s, Head1(s).kind))
  /\ fate' = [fate EXCEPT ![s] = IF Opens(s) THEN "kex error" ELSE "cannot open"]
  /\ UNCHANGED <<keyVars, kex, outSeq, inSeq, wire, trafficVars, stale, deadlineVars>>

\* KexProgress::NeedsReply.
RecvKex(s) ==
  LET kind  == Head1(s).kind
      kinds == Opening(s, kind) \o Answer(s, kind)
  IN  /\ Incoming(s, KexKinds \ {"newkeys"}) /\ Opens(s) /\ Expects(s, kind)
      /\ wire' = Answered(s, Sealed(kinds, outKey[s], outSeq[s]))
      /\ inSeq' = [inSeq EXCEPT ![s] = @ + 1]
      /\ outSeq' = [outSeq EXCEPT ![s] = reset_seqn(s, kind, @ + Len(kinds))]
      /\ kex' = [kex EXCEPT ![s] = After(kind)]
      /\ IF kind = "kexinit" /\ kex[s] = "idle" THEN register(s) ELSE UNCHANGED deadlineVars
      /\ IterationOver(s)
      /\ UNCHANGED <<keyVars, trafficVars, fate>>

\* KexProgress::Done: both ciphers change, and the parked data goes out.
RecvNewKeys(s) ==
  /\ Incoming(s, {"newkeys"}) /\ Opens(s) /\ Expects(s, "newkeys")
  /\ gen' = [gen EXCEPT ![s] = @ + 1]
  /\ inKey' = [inKey EXCEPT ![s] = gen[s] + 1]
  /\ outKey' = [outKey EXCEPT ![s] = gen[s] + 1]
  /\ inSeq' = [inSeq EXCEPT ![s] = IF strict THEN 0 ELSE @ + 1]
  /\ wire' = Answered(s, Sealed(Data(parked[s]), gen[s] + 1, outSeq[s]))
  /\ outSeq' = [outSeq EXCEPT ![s] = @ + parked[s]]
  /\ parked' = [parked EXCEPT ![s] = 0]
  /\ kex' = [kex EXCEPT ![s] = "idle"]
  /\ deadline' = clear_rekey_deadline(s)
  /\ IterationOver(s)
  /\ UNCHANGED <<strict, gex, silent, rekeyGen, sent, late, fate>>

\* Packets outside the exchange are handled at once, key exchange or not:
\* CHANNEL_DATA may be answered by a window grant, a grant lets the backlog
\* out, a keepalive request is answered.
RecvTraffic(s) ==
  LET kind == Head1(s).kind
  IN  /\ Incoming(s, TrafficKinds) /\ Opens(s)
      /\ \E kinds \in CASE kind = "data" /\ "grant" \in Traffic -> {<<>>, <<"adjust">>}
                         [] kind = "adjust" -> {Data(n) : n \in 0 .. parked[s]}
                         [] kind = "keepalive" -> {<<"alive">>}
                         [] OTHER -> {<<>>} :
           /\ wire' = Answered(s, Sealed(kinds, outKey[s], outSeq[s]))
           /\ outSeq' = [outSeq EXCEPT ![s] = @ + Len(kinds)]
           /\ Wrote(s, kinds)
           /\ parked' = IF kind = "adjust" THEN [parked EXCEPT ![s] = @ - Len(kinds)] ELSE parked
      /\ inSeq' = [inSeq EXCEPT ![s] = @ + 1]
      /\ IterationOver(s)
      /\ UNCHANGED <<keyVars, kex, sent, deadlineVars, fate>>
-----------------------------------------------------------------------------
(* The other arms of the two session loops. *)

\* Session::flush finds that the limits are reached or a rekey is wanted.  On
\* the server this may be the flush between the drain and select!, whose
\* receiver arm then uses the gate computed before.
BeginRekey(s) ==
  /\ Alive(s) /\ ~Active(s) /\ gen[s] < MaxKex
  /\ kex' = [kex EXCEPT ![s] = "created"]
  /\ Write(s, <<"kexinit">>) /\ register(s)
  /\ stale' \in IF s = "server" THEN BOOLEAN ELSE {stale}
  /\ UNCHANGED <<keyVars, inSeq, trafficVars, fate>>

\* Bounds what a side sends of its own accord.
Spend(s, what) == /\ Alive(s) /\ what \in Traffic /\ sent[s] < MaxTraffic
                  /\ sent' = [sent EXCEPT ![s] = @ + 1]

\* The receiver arm of select!.
CanReceive(s) == ~Active(s) \/ (s = "server" /\ stale)

\* A message that writes channel data: is_rekeying parks it, and so does an
\* exhausted window.
AppMessage(s) ==
  /\ Spend(s, "message") /\ CanReceive(s)
  /\ \/ /\ ~Active(s) /\ Write(s, <<"data">>) /\ UNCHANGED parked
     \/ /\ Active(s) \/ "grant" \in Traffic
        /\ parked' = [parked EXCEPT ![s] = @ + 1] /\ UNCHANGED <<wire, outSeq>>
  /\ IterationOver(s)
  /\ UNCHANGED <<keyVars, kex, inSeq, late, deadlineVars, fate>>

\* A message that writes anything else does not look at the exchange.
AppControl(s) ==
  /\ Spend(s, "control") /\ CanReceive(s)
  /\ Write(s, <<"control">>) /\ Wrote(s, <<"control">>) /\ IterationOver(s)
  /\ UNCHANGED <<keyVars, kex, inSeq, parked, deadlineVars, fate>>

\* keepalive_request and send_keepalive: the timer arm is not gated.
Keepalive(s) ==
  /\ Spend(s, "keepalive")
  /\ Write(s, <<"keepalive">>) /\ Wrote(s, <<"keepalive">>) /\ IterationOver(s)
  /\ UNCHANGED <<keyVars, kex, inSeq, parked, deadlineVars, fate>>

\* Mutant: the deadline is compared with the exchange after the active one.
DeadlineNeverMatches ==
  /\ Alive("server") /\ Active("server") /\ deadline = rekeyGen + 1
  /\ fate' = [fate EXCEPT !["server"] = "RekeyTimeout"]
  /\ UNCHANGED <<keyVars, kex, outSeq, inSeq, wire, trafficVars, stale, deadlineVars>>
\* RekeyDeadline::poll: only the deadline of the active exchange counts.
DeadlineFires ==
  /\ Alive("server") /\ Active("server") /\ deadline # 0 /\ deadline = rekeyGen
  /\ fate' = [fate EXCEPT !["server"] = "RekeyTimeout"]
  /\ UNCHANGED <<keyVars, kex, outSeq, inSeq, wire, trafficVars, stale, deadlineVars>>

\* The connection of a side that ended is closed.
Hangup(s) ==
  /\ Alive(s) /\ ~Alive(Other(s)) /\ wire[Other(s)] = <<>>
  /\ fate' = [fate EXCEPT ![s] = "hangup"]
  /\ UNCHANGED <<keyVars, kex, outSeq, inSeq, wire, trafficVars, stale, deadlineVars>>
-----------------------------------------------------------------------------
Recv(s) == RecvBad(s) \/ RecvKex(s) \/ RecvNewKeys(s) \/ RecvTraffic(s)

Next ==
  \/ DeadlineFires
  \/ \E s \in Side : Recv(s) \/ BeginRekey(s) \/ AppMessage(s) \/ AppControl(s) \/ Keepalive(s) \/ Hangup(s)

Spec == Init /\ [][Next]_vars

\* A side that is not silent keeps reading and notices the end of the
\* connection.  The server polls its deadline in every iteration, with a timer
\* to wake it: that is assumed only where a side may be silent, so that the
\* exchanges between reading sides have to complete without it.
FairSpec ==
  /\ Spec
  /\ \A s \in Side : WF_vars(s \notin silent /\ Recv(s)) /\ WF_vars(s \notin silent /\ Hangup(s))
  /\ WF_vars(silent # {} /\ DeadlineFires)
-----------------------------------------------------------------------------
(* Properties. *)

\* The two ends of a direction change the key and reset the sequence number at
\* the same place of the stream, whoever starts the exchange, or both: a packet
\* fails to open only if its writer wrote behind its own NEWKEYS, where the code
\* still seals with the old key.
KeysInStep == \A s \in Side : fate[s] = "cannot open" => late[Other(s)]

\* No side ever meets a message of the exchange that its state does not
\* expect, in particular when both start at once or one starts again early.
KexOrder == \A s \in Side : fate[s] # "kex error"

\* The two state machines stay in step through any overlap of exchanges: keys,
\* sequence numbers and the order of messages.
SidesInStep == KeysInStep /\ KexOrder

\* What the comments of the session loops claim of the gates on them: nothing
\* is written in the middle of an exchange, so every packet opens.
EveryPacketOpens == \A s \in Side : fate[s] # "cannot open"

\* The server's deadline is armed exactly while an exchange is under way, and
\* belongs to that exchange: a stale one can never end a later exchange early,
\* and none escapes it.
DeadlineTracksRekey ==
  Alive("server") => IF Active("server") THEN deadline = rekeyGen /\ deadline # 0 ELSE deadline = 0

\* Between sides that keep reading an exchange completes without the help of
\* the deadline, whoever starts it.
RekeyCompletes == \A s \in Side : (silent = {} /\ Active(s)) ~> ~Active(s) \/ ~Alive(s)

\* On the server none lasts for ever, even when the client falls silent in the
\* middle of it.
ServerRekeyEnds == Active("server") ~> ~Active("server") \/ ~Alive("server")

\* An exchange is never left hanging: not between sides that read, and not on
\* the server, whose RekeyDeadline covers a silent client.
RekeyEnds == RekeyCompletes /\ ServerRekeyEnds
=============================================================================
