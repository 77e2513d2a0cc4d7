--------------------------- MODULE UserAuthProofs ---------------------------
(***************************************************************************)
(* Proofs about UserAuth, for any set of users and keys, any Handler and   *)
(* any number of packets of any client: what the server keeps of one       *)
(* request is never credited to another user, key or request; both sides   *)
(* start to compress at the same packet; and a call returns the verdict on *)
(* its own request.                                                        *)
(***************************************************************************)
EXTENDS UserAuth, SequenceTheorems, TLAPS

\* The packets that open a request under way name a user.
Opening == {"probe", "keyboard"}
Sendable == {p \in ClientPacket : p.kind \in Opening => p.user \in Users}

\* A request that an authenticate_* call made.
Made == {r \in Request : r.user \in Users}

\* The queues towards the server, and where their users come from: a request of
\* the client is what a call made, whenever it is read.
QueuesOK ==
  /\ c2s \in Seq(Sendable)
  /\ msgs \in Seq([kind : {"authenticate", "responses", "signed"}, req : Request])
  /\ \A i \in 1 .. Len(msgs) : msgs[i].kind = "authenticate" => msgs[i].req \in Made
  /\ cReq \in Request /\ cHas \in BOOLEAN /\ (cHas => cReq \in Made) /\ call \in Request

\* What the server keeps of the request under way: nothing before the service
\* was accepted, the user it belongs to, and a key only if its offer was
\* accepted.
ServiceFresh == srv = "service" => current.kind = "none"
ProbeOnRecord ==
  srv = "auth" /\ current.kind = "publickey" => <<authUser, current.key>> \in offered
\* The grant of a signed request ends the authentication.
GrantIsFinal == how.kind = "signed" => srv \notin {"service", "auth"}
-----------------------------------------------------------------------------
(* The queues. *)

\* Reading leaves well-formed packets behind.
LEMMA ReadPacket ==
  ASSUME QueuesOK, c2s # <<>>
  PROVE  /\ P \in Sendable /\ Tail(c2s) \in Seq(Sendable)
         /\ P.kind \in ClientKinds /\ (P.kind \in Opening => P.user \in Users)
BY DEF QueuesOK, P, Sendable, ClientPacket

\* What the client sends is well formed when its request is.
LEMMA PacketOK ==
  ASSUME NEW kind \in ClientKinds, NEW req \in Request, kind \in Opening => req \in Made
  PROVE  Packet(kind, req, TRUE) \in Sendable
<1>1. ("client out" \in zips) \in BOOLEAN
  OBVIOUS
<1>2. Packet(kind, req, TRUE) \in ClientPacket
  BY <1>1 DEF Packet, ClientPacket, Request
<1>3. Packet(kind, req, TRUE).kind = kind /\ Packet(kind, req, TRUE).user = req.user
  BY DEF Packet
<1> QED BY <1>2, <1>3 DEF Sendable, Made

\* The first packet of a request, and two packets in a row.
LEMMA FirstPacketOK ==
  ASSUME NEW req \in Made
  PROVE  FirstPacket(req) \in Sendable
<1> DEFINE kind == IF req.method \in {"publickey", "signer"} THEN "probe" ELSE req.method
<1>1. req \in Request /\ kind \in ClientKinds
  BY DEF Made, Request, CallMethods, ClientKinds
<1>2. Packet(kind, req, TRUE) \in Sendable
  BY <1>1, PacketOK
<1> QED BY <1>2 DEF FirstPacket

\* No packet, one packet.
LEMMA OnePacket == <<>> \in Seq(Sendable) /\ \A p \in Sendable : <<p>> \in Seq(Sendable)
OBVIOUS

\* One more packet on the wire.
LEMMA SendOne ==
  ASSUME NEW s \in Seq(Sendable), NEW p \in Sendable
  PROVE  s \o <<p>> \in Seq(Sendable)
OBVIOUS

\* The server only takes packets off its queue.
LEMMA SrvQueues ==
  ASSUME SrvStep
  PROVE  /\ c2s' = c2s \/ (c2s # <<>> /\ c2s' = Tail(c2s))
         /\ UNCHANGED <<msgs, cReq, cHas, call>>
<1>1. ASSUME NEW state, NEW kinds, SrvReads(state, kinds)
      PROVE  c2s # <<>> /\ UNCHANGED <<msgs, cReq, cHas, call>>
  BY <1>1 DEF SrvReads, cliVars, appVars
<1>2. ASSUME NEW as, Answered(as) PROVE c2s' = Tail(c2s)
  BY <1>2 DEF Answered
<1>3. ASSUME NEW ms, NEW ps, reject_auth_request(ms, ps) PROVE c2s' = Tail(c2s)
  BY <1>3 DEF reject_auth_request, Answered
<1>4. ASSUME server_auth_request_success PROVE c2s' = Tail(c2s)
  BY <1>4 DEF server_auth_request_success, Answered
<1>5. ASSUME Dialogue PROVE c2s' = Tail(c2s)
  BY <1>3, <1>4, <1>5 DEF Dialogue, Answered
<1>6. CASE SrvService \/ SrvIgnored \/ SrvAuthenticated
  BY <1>1, <1>2, <1>6 DEF SrvService, SrvIgnored, SrvAuthenticated
<1>7. CASE SrvSimple \/ SrvSigned \/ SrvUnusable
  BY <1>1, <1>3, <1>4, <1>7 DEF SrvSimple, SrvSigned, SrvUnusable
<1>8. CASE SrvProbe
  BY <1>1, <1>2, <1>3, <1>8 DEF SrvProbe
<1>9. CASE SrvKeyboard \/ SrvResponse
  BY <1>1, <1>3, <1>5, <1>9 DEF SrvKeyboard, SrvResponse
<1>10. CASE SrvGarbled \/ SrvHangup
  BY <1>10 DEF SrvGarbled, SrvHangup, cliVars, appVars
<1> QED BY <1>6, <1>7, <1>8, <1>9, <1>10 DEF SrvStep

\* Whatever else happens, the server's own state does not change.
LEMMA OthersLeaveServer ==
  ASSUME CliStep \/ AppStep \/ AppCall \/ AppGivesUp \/ AppOther \/ PeerSends
           \/ ServerStarts \/ ClientStarts
  PROVE  UNCHANGED srvVars
<1>1. CASE CliStep
  BY <1>1 DEF CliStep, CliAuthenticate, CliAccept, CliSuccess, CliFailure, CliPrompt, CliPkOk,
              CliOther, CliRefuses, CliMessage, CliHangup, CliReads
<1>2. CASE AppStep \/ AppCall \/ AppGivesUp \/ AppOther
  BY <1>2 DEF AppStep, AppReply, AppSessionEnded, AppProvide, AppCall, AppGivesUp, AppOther, Sessions
<1>3. CASE PeerSends \/ ServerStarts \/ ClientStarts
  BY <1>3 DEF PeerSends, ServerStarts, ClientStarts
<1> QED BY <1>1, <1>2, <1>3

\* Every step of the client session keeps the queues well formed.
LEMMA CliQueues ==
  ASSUME QueuesOK, CliStep
  PROVE  QueuesOK'
<1> USE DEF QueuesOK
<1>1. CASE CliAuthenticate
  <2> DEFINE req == Head(msgs).req
             service == cState = "service" /\ ~cSent
             first == IF service THEN <<Packet("service", req, TRUE)>> ELSE <<>>
             second == IF IsWaiting THEN <<FirstPacket(req)>> ELSE <<>>
  <2>1. req \in Made /\ req \in Request
    <3>1. msgs # <<>> /\ Head(msgs).kind = "authenticate"
      BY <1>1 DEF CliAuthenticate
    <3>2. msgs[1] = Head(msgs) /\ 1 \in 1 .. Len(msgs)
      BY <3>1
    <3>3. msgs[1].req \in Made
      BY <3>1, <3>2
    <3> QED BY <3>2, <3>3 DEF Made
  <2>2. Packet("service", req, TRUE) \in Sendable /\ FirstPacket(req) \in Sendable
    BY <2>1, PacketOK, FirstPacketOK DEF ClientKinds, Opening
  <2>3. c2s' = c2s \o (first \o second) /\ msgs' = Tail(msgs) /\ msgs # <<>>
        /\ cReq' = req /\ cHas' = TRUE /\ call' = call
    BY <1>1 DEF CliAuthenticate, Send
  <2> HIDE DEF req, service
  <2>4. first \in Seq(Sendable) /\ second \in Seq(Sendable)
    <3>1. /\ <<Packet("service", req, TRUE)>> \in Seq(Sendable)
          /\ <<FirstPacket(req)>> \in Seq(Sendable) /\ <<>> \in Seq(Sendable)
      BY <2>2, OnePacket
    <3> QED BY <3>1, Zenon DEF first, second
  <2> HIDE DEF first, second
  <2>5. c2s' \in Seq(Sendable)
    BY <2>3, <2>4
  <2>6. /\ msgs' \in Seq([kind : {"authenticate", "responses", "signed"}, req : Request])
        /\ \A i \in 1 .. Len(msgs') : msgs'[i] = msgs[i + 1] /\ i + 1 \in 1 .. Len(msgs)
    BY <2>3
  <2> QED BY <2>1, <2>3, <2>5, <2>6
<1>2. CASE CliAccept
  <2>1. UNCHANGED <<msgs, cReq, cHas, call>>
    BY <1>2 DEF CliAccept, CliReads
  <2>2. c2s' = c2s \/ (cHas /\ c2s' = c2s \o <<FirstPacket(cReq)>>)
    BY <1>2 DEF CliAccept, Send
  <2>3. cHas => FirstPacket(cReq) \in Sendable
    BY FirstPacketOK
  <2>4. c2s' \in Seq(Sendable)
    BY <2>2, <2>3, SendOne
  <2> QED BY <2>1, <2>4
<1>3. CASE CliSuccess \/ CliFailure \/ CliPrompt \/ CliRefuses \/ CliHangup
  <2>1. UNCHANGED <<c2s, msgs, cReq, call>> /\ (cHas' = cHas \/ cHas' = FALSE)
    BY <1>3 DEF CliSuccess, CliFailure, CliPrompt, CliRefuses, CliHangup, CliReads, appVars
  <2>2. CASE cHas' = cHas
    BY <2>1, <2>2
  <2>3. CASE cHas' = FALSE
    BY <2>1, <2>3
  <2> QED BY <2>1, <2>2, <2>3
<1>4. CASE CliPkOk
  <2>1. UNCHANGED <<msgs, cReq, call>> /\ cHas' = FALSE
    BY <1>4 DEF CliPkOk, CliReads
  <2>2. c2s' = c2s \/ c2s' = c2s \o <<Packet("signed", cReq, TRUE)>>
    BY <1>4 DEF CliPkOk, Send
  <2>3. Packet("signed", cReq, TRUE) \in Sendable
    BY PacketOK DEF ClientKinds, Opening
  <2>4. c2s' \in Seq(Sendable)
    BY <2>2, <2>3, SendOne
  <2> QED BY <2>1, <2>4
<1>5. CASE CliOther
  <2>1. UNCHANGED <<msgs, cReq, cHas, call>>
    BY <1>5 DEF CliOther, CliReads, cliVars
  <2>2. c2s' = c2s \/ c2s' = c2s \o <<Packet("reply", cReq, TRUE)>>
    BY <1>5 DEF CliOther, Send
  <2>3. Packet("reply", cReq, TRUE) \in Sendable
    BY PacketOK DEF ClientKinds, Opening
  <2>4. c2s' \in Seq(Sendable)
    BY <2>2, <2>3, SendOne
  <2> QED BY <2>1, <2>4
<1>6. CASE CliMessage
  <2>1. UNCHANGED <<cReq, cHas, call>> /\ msgs' = Tail(msgs) /\ msgs # <<>>
    BY <1>6 DEF CliMessage
  <2>2. PICK kind \in {"response", "signed"} :
          c2s' = c2s \/ c2s' = c2s \o <<Packet(kind, cReq, TRUE)>>
    BY <1>6 DEF CliMessage, Send
  <2>3. Packet(kind, cReq, TRUE) \in Sendable
    BY PacketOK DEF ClientKinds, Opening
  <2>4. /\ msgs' \in Seq([kind : {"authenticate", "responses", "signed"}, req : Request])
        /\ \A i \in 1 .. Len(msgs') : msgs'[i] = msgs[i + 1] /\ i + 1 \in 1 .. Len(msgs)
    BY <2>1
  <2>5. c2s' \in Seq(Sendable)
    BY <2>2, <2>3, SendOne
  <2> QED BY <2>1, <2>4, <2>5
<1> QED BY <1>1, <1>2, <1>3, <1>4, <1>5, <1>6 DEF CliStep

\* A message at the end of the queue.
LEMMA AppendMessage ==
  ASSUME QueuesOK, NEW kind \in {"authenticate", "responses", "signed"}, NEW req \in Request,
         kind = "authenticate" => req \in Made, msgs' = Append(msgs, [kind |-> kind, req |-> req])
  PROVE  /\ msgs' \in Seq([kind : {"authenticate", "responses", "signed"}, req : Request])
         /\ \A i \in 1 .. Len(msgs') : msgs'[i].kind = "authenticate" => msgs'[i].req \in Made
<1> DEFINE m == [kind |-> kind, req |-> req]
<1>1. m \in [kind : {"authenticate", "responses", "signed"}, req : Request]
  OBVIOUS
<1>2. m.kind = "authenticate" => m.req \in Made
  OBVIOUS
<1> HIDE DEF m
<1>3. /\ msgs' = Append(msgs, m)
      /\ \A i \in 1 .. Len(msgs') : i \in 1 .. Len(msgs) \/ msgs'[i] = m
  BY <1>1 DEF QueuesOK, m
<1> QED BY <1>1, <1>2, <1>3 DEF QueuesOK

\* The steps of the application, of any other client and of the timers do.
LEMMA AppQueues ==
  ASSUME QueuesOK, AppStep \/ AppCall \/ AppGivesUp \/ AppOther \/ PeerSends
           \/ ServerStarts \/ ClientStarts
  PROVE  QueuesOK'
<1>1. CASE AppReply \/ AppSessionEnded \/ AppGivesUp
  BY <1>1 DEF AppReply, AppSessionEnded, AppGivesUp, Sessions, cliVars, QueuesOK
<1>2. CASE AppProvide
  <2>1. UNCHANGED <<c2s, cReq, cHas, call>>
    BY <1>2 DEF AppProvide, Sessions, cliVars
  <2>2. PICK kind \in {"responses", "signed"} : msgs' = Append(msgs, [kind |-> kind, req |-> call])
    BY <1>2 DEF AppProvide
  <2>3. call \in Request /\ kind # "authenticate" /\ kind \in {"authenticate", "responses", "signed"}
    BY <2>2 DEF QueuesOK
  <2> QED BY <2>1, <2>2, <2>3, AppendMessage DEF QueuesOK
<1>3. CASE AppCall
  <2>1. UNCHANGED <<c2s, cReq, cHas>>
    BY <1>3 DEF AppCall, Sessions, cliVars
  <2>2. PICK u \in Users, m \in CallMethods, k \in OwnKeys \cup {NoKey} :
          call' = [call |-> call.call + 1, user |-> u, method |-> m, key |-> k]
    BY <1>3 DEF AppCall
  <2>3. call.call + 1 \in Nat /\ k \in Keys \cup {NoKey}
    BY <2>2, UserAuthAssumption DEF QueuesOK, Request
  <2>4. call' \in Request /\ call' \in Made
    BY <2>2, <2>3 DEF Request, Made
  <2>5. msgs' = Append(msgs, [kind |-> "authenticate", req |-> call'])
    BY <1>3 DEF AppCall
  <2>6. /\ msgs' \in Seq([kind : {"authenticate", "responses", "signed"}, req : Request])
        /\ \A i \in 1 .. Len(msgs') : msgs'[i].kind = "authenticate" => msgs'[i].req \in Made
    BY <2>4, <2>5, AppendMessage
  <2> QED BY <2>1, <2>4, <2>6 DEF QueuesOK
<1>4. CASE AppOther \/ ClientStarts
  <2>1. UNCHANGED <<msgs, cReq, cHas, call>>
    BY <1>4 DEF AppOther, ClientStarts, appVars, cliVars
  <2>2. \/ c2s' = c2s \o <<Packet("other", cReq, TRUE)>>
        \/ c2s' = c2s \o <<Packet("global", NoRequest, TRUE)>>
    BY <1>4 DEF AppOther, ClientStarts, Send
  <2>3. NoRequest \in Request /\ cReq \in Request
    BY DEF NoRequest, Request, CallMethods, QueuesOK
  <2>4. /\ Packet("other", cReq, TRUE) \in Sendable
        /\ Packet("global", NoRequest, TRUE) \in Sendable
    BY <2>3, PacketOK DEF ClientKinds, Opening
  <2>5. c2s' \in Seq(Sendable)
    BY <2>2, <2>4, SendOne DEF QueuesOK
  <2> QED BY <2>1, <2>5 DEF QueuesOK
<1>5. CASE PeerSends
  <2>1. UNCHANGED <<msgs, cReq, cHas>>
    BY <1>5 DEF PeerSends, cliVars
  <2>2. call' \in Request
    <3>1. call' = [call EXCEPT !.call = @ + 1] /\ call \in Request
      BY <1>5 DEF PeerSends, QueuesOK
    <3> QED BY <3>1 DEF Request
  <2>3. PICK kind \in ClientKinds, u \in Users, k \in Keys, valid \in BOOLEAN :
          c2s' = <<[kind |-> kind, call |-> 0, user |-> u, key |-> k, valid |-> valid, z |-> FALSE]>>
    BY <1>5 DEF PeerSends
  <2>4. [kind |-> kind, call |-> 0, user |-> u, key |-> k, valid |-> valid, z |-> FALSE] \in Sendable
    BY DEF Sendable, ClientPacket
  <2> QED BY <2>1, <2>2, <2>3, <2>4 DEF QueuesOK
<1>6. CASE ServerStarts
  BY <1>6 DEF ServerStarts, appVars, cliVars, QueuesOK
<1> QED BY <1>1, <1>2, <1>3, <1>4, <1>5, <1>6 DEF AppStep

\* Every step keeps the queues well formed.
LEMMA QueuesStep ==
  ASSUME QueuesOK, [Next]_vars
  PROVE  QueuesOK'
<1>1. CASE SrvStep
  BY <1>1, SrvQueues DEF QueuesOK
<1>2. CASE UNCHANGED vars
  BY <1>2 DEF vars, cliVars, appVars, QueuesOK
<1> QED BY <1>1, <1>2, CliQueues, AppQueues DEF Next

\* They are at the start.
LEMMA QueuesInit == ASSUME Init PROVE QueuesOK
<1>1. NoRequest \in Request
  BY DEF NoRequest, Request, CallMethods
<1>2. c2s = <<>> /\ msgs = <<>> /\ cReq = NoRequest /\ cHas = FALSE /\ call = NoRequest
  BY DEF Init
<1>3. <<>> \in Seq([kind : {"authenticate", "responses", "signed"}, req : Request]) /\ Len(<<>>) = 0
  OBVIOUS
<1>4. \A i \in 1 .. Len(msgs) : msgs[i].kind = "authenticate" => msgs[i].req \in Made
  BY <1>2, <1>3
<1>5. cHas \in BOOLEAN /\ (cHas => cReq \in Made)
  BY <1>2
<1>6. c2s \in Seq(Sendable)
  BY <1>2, OnePacket
<1> QED BY <1>1, <1>2, <1>3, <1>4, <1>5, <1>6, Zenon DEF QueuesOK
-----------------------------------------------------------------------------
(* The server. *)

\* What the server believes of the request under way.
ServerInv == ServiceFresh /\ ProbeOnRecord /\ GrantIsFinal /\ KeyWasOffered /\ CurrentBelongsToUser

\* A rejection leaves no request under way.
LEMMA RejectClears ==
  ASSUME NEW ms, NEW ps, reject_auth_request(ms, ps)
  PROVE  srv' = "auth" /\ current'.kind = "none" /\ how' = how
BY DEF reject_auth_request, NoCurrent

\* So it keeps what the server believes, while no signed request was granted.
LEMMA RejectKeeps ==
  ASSUME NEW ms, NEW ps, reject_auth_request(ms, ps), how.kind # "signed"
  PROVE  ServerInv'
BY RejectClears DEF ServerInv, ServiceFresh, ProbeOnRecord, GrantIsFinal, KeyWasOffered,
                    CurrentBelongsToUser

\* A grant ends the authentication.
LEMMA SuccessEnds ==
  ASSUME server_auth_request_success
  PROVE  srv' = "init" /\ how'.kind = P.kind /\ how'.key = P.key
         /\ (P.kind # "response" => how'.user = P.user)
BY DEF server_auth_request_success

\* It keeps what the server believes if a signed request was offered.
LEMMA SuccessKeeps ==
  ASSUME server_auth_request_success, P.kind = "signed" => <<P.user, P.key>> \in offered'
  PROVE  ServerInv'
BY SuccessEnds DEF ServerInv, ServiceFresh, ProbeOnRecord, GrantIsFinal, KeyWasOffered,
                   CurrentBelongsToUser

\* A dialogue under way belongs to the user that the last request named.
LEMMA DialogueKeeps ==
  ASSUME Dialogue, P.kind # "signed", srv = "auth", how.kind # "signed",
         authUser' = principal', authUser' # NoUser
  PROVE  ServerInv'
<1> USE DEF ServerInv, ServiceFresh, ProbeOnRecord, GrantIsFinal, KeyWasOffered, CurrentBelongsToUser
<1>1. CASE server_auth_request_success
  BY <1>1, SuccessKeeps
<1>2. ASSUME NEW ms, NEW ps, reject_auth_request(ms, ps) PROVE ServerInv'
  BY <1>2, RejectKeeps
<1>3. CASE current' = [kind |-> "keyboard", key |-> NoKey] /\ srv' = srv /\ how' = how
  BY <1>3
<1>4. CASE srv' = "ended" /\ how' = how
  BY <1>4
<1> QED BY <1>1, <1>2, <1>3, <1>4 DEF Dialogue

\* A step that changes neither the request under way nor what was offered.
LEMMA QuietKeeps ==
  ASSUME ServerInv, UNCHANGED <<principal, current, authUser, offered, how>>,
         \/ srv' = srv
         \/ srv' = "auth" /\ srv = "service"
         \/ srv' \notin {"service", "auth"}
  PROVE  ServerInv'
BY DEF ServerInv, ServiceFresh, ProbeOnRecord, GrantIsFinal, KeyWasOffered, CurrentBelongsToUser

\* Every step of the server keeps what it believes true.
LEMMA ServerStep ==
  ASSUME QueuesOK, ServerInv, SrvStep
  PROVE  ServerInv'
<1>1. ASSUME NEW kinds, SrvReads("auth", kinds)
      PROVE  /\ srv = "auth" /\ how.kind # "signed" /\ P.kind \in kinds
             /\ P.kind \in Opening => P.user # NoUser
  <2>1. srv = "auth" /\ c2s # <<>> /\ P.kind \in kinds
    BY <1>1 DEF SrvReads
  <2>2. P.kind \in Opening => P.user # NoUser
    BY <2>1, ReadPacket, UserAuthAssumption
  <2> QED BY <2>1, <2>2 DEF ServerInv, GrantIsFinal
<1>2. CASE SrvService
  BY <1>2, QuietKeeps DEF SrvService, SrvReads
<1>3. CASE SrvSimple
  <2>1. how.kind # "signed" /\ P.kind # "signed"
    BY <1>1, <1>3 DEF SrvSimple
  <2> QED BY <1>3, <2>1, SuccessKeeps, RejectKeeps DEF SrvSimple
<1>4. CASE SrvProbe
  <2>1. how.kind # "signed" /\ srv = "auth" /\ P.user # NoUser
    BY <1>1, <1>4 DEF SrvProbe, Opening
  <2>2. CASE /\ offered' = offered \cup {<<P.user, P.key>>} /\ authUser' = P.user
             /\ principal' = P.user /\ current' = [kind |-> "publickey", key |-> P.key]
             /\ srv' = srv /\ how' = how
    BY <2>1, <2>2 DEF ServerInv, ServiceFresh, ProbeOnRecord, GrantIsFinal, KeyWasOffered,
                      CurrentBelongsToUser
  <2>3. ASSUME NEW ms, NEW ps, reject_auth_request(ms, ps) PROVE ServerInv'
    BY <2>1, <2>3, RejectKeeps
  <2> QED BY <1>4, <2>2, <2>3 DEF SrvProbe, Offer
<1>5. CASE SrvSigned
  <2>1. how.kind # "signed" /\ srv = "auth" /\ P.kind = "signed"
    BY <1>1, <1>5 DEF SrvSigned
  <2>2. CASE ~server_auth_request_success
    <3>1. PICK ms, ps : reject_auth_request(ms, ps)
      BY <1>5, <2>2 DEF SrvSigned
    <3> QED BY <2>1, <3>1, RejectKeeps
  <2>3. CASE server_auth_request_success /\ offered' = offered \cup {<<P.user, P.key>>}
    BY <2>3, SuccessKeeps
  <2>4. CASE server_auth_request_success /\ ProbeMatches /\ offered' = offered
    <3>1. BoundCurrent.kind = "publickey" /\ BoundCurrent.key = P.key /\ P.user = BoundUser
      BY <2>4 DEF ProbeMatches
    <3>2. Bound
      BY <3>1 DEF BoundCurrent, NoCurrent
    <3>3. current.kind = "publickey" /\ current.key = P.key /\ P.user = authUser
      BY <3>1, <3>2 DEF BoundCurrent, BoundUser
    <3>4. <<P.user, P.key>> \in offered
      BY <2>1, <3>3 DEF ServerInv, ProbeOnRecord
    <3> QED BY <2>4, <3>4, SuccessKeeps
  <2>5. server_auth_request_success =>
          \/ ProbeMatches /\ offered' = offered
          \/ offered' = offered \cup {<<P.user, P.key>>}
          \/ \E ms, ps : reject_auth_request(ms, ps)
    BY <1>5 DEF SrvSigned, Offer
  <2>6. ~(server_auth_request_success /\ \E ms, ps : reject_auth_request(ms, ps))
    BY SuccessEnds, RejectClears
  <2> QED BY <2>2, <2>3, <2>4, <2>5, <2>6
<1>6. CASE SrvUnusable
  <2>1. how.kind # "signed"
    BY <1>1, <1>6 DEF SrvUnusable
  <2> QED BY <1>6, <2>1, RejectKeeps DEF SrvUnusable
<1>7. CASE SrvKeyboard
  <2>1. how.kind # "signed" /\ srv = "auth" /\ P.kind = "keyboard" /\ P.user # NoUser
    BY <1>1, <1>7 DEF SrvKeyboard, Opening
  <2> QED BY <1>7, <2>1, DialogueKeeps DEF SrvKeyboard
<1>8. CASE SrvResponse
  <2>1. how.kind # "signed" /\ srv = "auth" /\ P.kind = "response"
    BY <1>1, <1>8 DEF SrvResponse
  <2>2. CASE current.kind = "keyboard"
    <3>1. authUser' = principal' /\ authUser' # NoUser
      BY <1>8, <2>1, <2>2 DEF SrvResponse, ServerInv, CurrentBelongsToUser
    <3> QED BY <1>8, <2>1, <2>2, <3>1, DialogueKeeps DEF SrvResponse
  <2>3. CASE current.kind # "keyboard"
    BY <1>8, <2>1, <2>3, RejectKeeps DEF SrvResponse
  <2> QED BY <2>2, <2>3
<1>9. CASE SrvAuthenticated \/ SrvIgnored \/ SrvGarbled \/ SrvHangup
  BY <1>9, QuietKeeps DEF SrvAuthenticated, SrvIgnored, SrvGarbled, SrvHangup, srvVars
<1> QED BY <1>2, <1>3, <1>4, <1>5, <1>6, <1>7, <1>8, <1>9 DEF SrvStep

\* What the server keeps of one request is never credited to another user, key
\* or request, whatever packets any client sends and in whatever order: an
\* accepted probe admits one signature of that user with that key, and
\* INFO_RESPONSE belongs to the user who opened the dialogue.
THEOREM AlwaysCreditedToItsUser == Spec => []CreditedToItsUser
<1>1. Init => QueuesOK /\ ServerInv
  <2> SUFFICES ASSUME Init PROVE QueuesOK /\ ServerInv
    OBVIOUS
  <2>2. QueuesOK
    BY QueuesInit
  <2>3. ServerInv
    BY DEF Init, NoCurrent, ServerInv, ServiceFresh, ProbeOnRecord, GrantIsFinal, KeyWasOffered,
           CurrentBelongsToUser
  <2> QED BY <2>2, <2>3
<1>2. QueuesOK /\ ServerInv /\ [Next]_vars => QueuesOK' /\ ServerInv'
  <2> SUFFICES ASSUME QueuesOK, ServerInv, [Next]_vars PROVE QueuesOK' /\ ServerInv'
    OBVIOUS
  <2>1. UNCHANGED srvVars => ServerInv'
    BY QuietKeeps DEF srvVars
  <2>2. CASE SrvStep
    BY <2>2, ServerStep, QueuesStep
  <2>3. CASE UNCHANGED vars
    BY <2>1, <2>3, QueuesStep DEF vars
  <2> QED BY <2>1, <2>2, <2>3, OthersLeaveServer, QueuesStep DEF Next
<1>3. ServerInv => CreditedToItsUser
  BY DEF ServerInv, CreditedToItsUser
<1> QED BY <1>1, <1>2, <1>3, PTL DEF Spec
-----------------------------------------------------------------------------
(* Sequences of packets of whatever shape: what is in them, and what is in *)
(* them only once.                                                         *)

IsSeq(s) == \E S : s \in Seq(S)
Elems(s) == {s[i] : i \in 1 .. Len(s)}
Has(s, K) == \E p \in Elems(s) : p.kind \in K
Lone(s, K) == \A i, j \in 1 .. Len(s) : s[i].kind \in K /\ s[j].kind \in K => i = j

\* Two sequences put together, place by place.
LEMMA ConcatAt ==
  ASSUME NEW s, NEW t, IsSeq(s), IsSeq(t)
  PROVE  /\ IsSeq(s \o t)
         /\ Len(s) \in Nat /\ Len(t) \in Nat /\ Len(s \o t) = Len(s) + Len(t)
         /\ \A k \in 1 .. Len(s) : (s \o t)[k] = s[k]
         /\ \A k \in 1 .. Len(t) : (s \o t)[Len(s) + k] = t[k]
         /\ \A k \in 1 .. Len(s \o t) : k \in 1 .. Len(s) \/ \E j \in 1 .. Len(t) : k = Len(s) + j
<1>1. PICK S : s \in Seq(S)
  BY DEF IsSeq
<1>2. PICK T : t \in Seq(T)
  BY DEF IsSeq
<1>3. s \in Seq(S \cup T) /\ t \in Seq(S \cup T)
  BY <1>1, <1>2
<1>4. /\ s \o t \in Seq(S \cup T)
      /\ Len(s) \in Nat /\ Len(t) \in Nat /\ Len(s \o t) = Len(s) + Len(t)
  BY <1>3
<1>5. \A k \in 1 .. Len(s) + Len(t) : (s \o t)[k] = IF k <= Len(s) THEN s[k] ELSE t[k - Len(s)]
  BY <1>3, ConcatProperties
<1>6. \A k \in 1 .. Len(s) : (s \o t)[k] = s[k]
  BY <1>4, <1>5
<1>7. ASSUME NEW k \in 1 .. Len(t) PROVE (s \o t)[Len(s) + k] = t[k]
  <2>1. Len(s) + k \in 1 .. Len(s) + Len(t) /\ ~(Len(s) + k <= Len(s)) /\ (Len(s) + k) - Len(s) = k
    BY <1>4
  <2> QED BY <1>5, <2>1
<1>8. ASSUME NEW k \in 1 .. Len(s \o t) PROVE k \in 1 .. Len(s) \/ \E j \in 1 .. Len(t) : k = Len(s) + j
  <2>1. CASE k <= Len(s)
    BY <2>1, <1>4
  <2>2. CASE ~(k <= Len(s))
    <3>1. k - Len(s) \in 1 .. Len(t) /\ k = Len(s) + (k - Len(s))
      BY <1>4, <2>2
    <3> QED BY <3>1
  <2> QED BY <2>1, <2>2
<1>9. IsSeq(s \o t)
  BY <1>4 DEF IsSeq
<1> QED BY <1>4, <1>6, <1>7, <1>8, <1>9

\* What is left of a sequence without its head, place by place.
LEMMA TailAt ==
  ASSUME NEW s, IsSeq(s), s # <<>>
  PROVE  /\ IsSeq(Tail(s))
         /\ Len(s) \in Nat /\ Len(s) >= 1 /\ Len(Tail(s)) = Len(s) - 1 /\ Head(s) = s[1]
         /\ \A k \in 1 .. Len(Tail(s)) : k + 1 \in 1 .. Len(s) /\ Tail(s)[k] = s[k + 1]
         /\ \A k \in 1 .. Len(s) : k = 1 \/ (k - 1 \in 1 .. Len(Tail(s)) /\ s[k] = Tail(s)[k - 1])
<1>1. PICK S : s \in Seq(S)
  BY DEF IsSeq
<1>2. Len(s) \in Nat /\ Len(s) >= 1
  BY <1>1, EmptySeq
<1>3. /\ Tail(s) \in Seq(S) /\ Len(Tail(s)) = Len(s) - 1 /\ Head(s) = s[1]
      /\ \A k \in 1 .. Len(Tail(s)) : Tail(s)[k] = s[k + 1]
  BY <1>1, HeadTailProperties
<1>4. ASSUME NEW k \in 1 .. Len(Tail(s)) PROVE k + 1 \in 1 .. Len(s)
  BY <1>2, <1>3
<1>5. ASSUME NEW k \in 1 .. Len(s), k # 1
      PROVE  k - 1 \in 1 .. Len(Tail(s)) /\ s[k] = Tail(s)[k - 1]
  <2>1. k - 1 \in 1 .. Len(Tail(s)) /\ (k - 1) + 1 = k
    BY <1>2, <1>3, <1>5
  <2> QED BY <2>1, <1>3
<1>6. IsSeq(Tail(s))
  BY <1>3 DEF IsSeq
<1> QED BY <1>2, <1>3, <1>4, <1>5, <1>6

\* Nothing, and a single packet.
LEMMA ShortSeqs ==
  /\ IsSeq(<<>>) /\ Elems(<<>>) = {}
  /\ \A p : IsSeq(<<p>>) /\ Elems(<<p>>) = {p} /\ Len(<<p>>) = 1 /\ <<p>>[1] = p
<1>1. <<>> \in Seq({}) /\ Len(<<>>) = 0
  OBVIOUS
<1>2. IsSeq(<<>>) /\ Elems(<<>>) = {}
  BY <1>1 DEF IsSeq, Elems
<1>3. ASSUME NEW p PROVE IsSeq(<<p>>) /\ Elems(<<p>>) = {p} /\ Len(<<p>>) = 1 /\ <<p>>[1] = p
  <2>1. <<p>> \in Seq({p}) /\ Len(<<p>>) = 1 /\ <<p>>[1] = p
    OBVIOUS
  <2>2. Elems(<<p>>) = {p}
    BY <2>1 DEF Elems
  <2> QED BY <2>1, <2>2 DEF IsSeq
<1> QED BY <1>2, <1>3

\* What is in two sequences put together, and what is in it only once.
LEMMA ConcatHas ==
  ASSUME NEW s, NEW t, IsSeq(s), IsSeq(t)
  PROVE  /\ IsSeq(s \o t) /\ Elems(s \o t) = Elems(s) \cup Elems(t)
         /\ \A K : Has(s \o t, K) <=> Has(s, K) \/ Has(t, K)
         /\ \A K : Lone(s, K) /\ Lone(t, K) /\ (~Has(s, K) \/ ~Has(t, K)) => Lone(s \o t, K)
<1> DEFINE u == s \o t
<1>0. IsSeq(u)
  BY ConcatAt
<1>1. /\ Len(s) \in Nat /\ Len(t) \in Nat /\ Len(u) = Len(s) + Len(t)
      /\ \A k \in 1 .. Len(s) : u[k] = s[k]
      /\ \A k \in 1 .. Len(t) : u[Len(s) + k] = t[k]
      /\ \A k \in 1 .. Len(u) : k \in 1 .. Len(s) \/ \E j \in 1 .. Len(t) : k = Len(s) + j
  BY ConcatAt
<1> HIDE DEF u
<1>2. ASSUME NEW k \in 1 .. Len(s) PROVE k \in 1 .. Len(u)
  BY <1>1
<1>3. ASSUME NEW k \in 1 .. Len(t) PROVE Len(s) + k \in 1 .. Len(u)
  BY <1>1
<1>4. ASSUME NEW p \in Elems(u) PROVE p \in Elems(s) \cup Elems(t)
  <2>1. PICK k \in 1 .. Len(u) : p = u[k]
    BY <1>4 DEF Elems
  <2>2. CASE k \in 1 .. Len(s)
    BY <1>1, <2>1, <2>2 DEF Elems
  <2>3. ASSUME NEW j \in 1 .. Len(t), k = Len(s) + j PROVE p \in Elems(t)
    BY <1>1, <2>1, <2>3 DEF Elems
  <2> QED BY <1>1, <2>2, <2>3
<1>5. Elems(s) \subseteq Elems(u)
  BY <1>1, <1>2 DEF Elems
<1>6. Elems(t) \subseteq Elems(u)
  BY <1>1, <1>3 DEF Elems
<1>7. Elems(u) = Elems(s) \cup Elems(t)
  BY <1>4, <1>5, <1>6
<1>8. \A K : Has(u, K) <=> Has(s, K) \/ Has(t, K)
  BY <1>7 DEF Has
<1>9. ASSUME NEW K, Lone(s, K), Lone(t, K), ~Has(s, K) \/ ~Has(t, K),
             NEW i \in 1 .. Len(u), NEW j \in 1 .. Len(u), u[i].kind \in K, u[j].kind \in K
      PROVE  i = j
  <2>1. CASE ~Has(t, K)
    <3>1. \A m \in 1 .. Len(t) : t[m].kind \notin K
      BY <2>1 DEF Has, Elems
    <3>2. i \in 1 .. Len(s) /\ j \in 1 .. Len(s)
      BY <1>1, <1>9, <3>1
    <3> QED BY <3>2, <1>1, <1>9 DEF Lone
  <2>2. CASE ~Has(s, K)
    <3>1. \A m \in 1 .. Len(s) : s[m].kind \notin K
      BY <2>2 DEF Has, Elems
    <3>2. PICK a \in 1 .. Len(t) : i = Len(s) + a
      BY <1>1, <1>9, <3>1
    <3>3. PICK b \in 1 .. Len(t) : j = Len(s) + b
      BY <1>1, <1>9, <3>1
    <3>4. t[a].kind \in K /\ t[b].kind \in K
      BY <1>1, <1>9, <3>2, <3>3
    <3>5. a = b
      BY <1>9, <3>4 DEF Lone
    <3> QED BY <3>2, <3>3, <3>5
  <2> QED BY <2>1, <2>2, <1>9
<1>10. \A K : Lone(s, K) /\ Lone(t, K) /\ (~Has(s, K) \/ ~Has(t, K)) => Lone(u, K)
  BY <1>9 DEF Lone
<1> QED BY <1>0, <1>7, <1>8, <1>10 DEF u

\* Nothing is added by nothing.
LEMMA ConcatEmpty == ASSUME NEW s, IsSeq(s) PROVE s \o <<>> = s
<1>1. PICK S : s \in Seq(S)
  BY DEF IsSeq
<1> QED BY <1>1, ConcatEmptySeq

\* What is in a single packet.
LEMMA SingleHas ==
  ASSUME NEW p
  PROVE  \A K : Lone(<<p>>, K) /\ (Has(<<p>>, K) <=> p.kind \in K)
BY ShortSeqs DEF Lone, Has

\* What is in the rest of a sequence, and what no longer is.
LEMMA TailHas ==
  ASSUME NEW s, IsSeq(s), s # <<>>
  PROVE  /\ IsSeq(Tail(s)) /\ Head(s) \in Elems(s) /\ Elems(s) = Elems(Tail(s)) \cup {Head(s)}
         /\ \A K : Has(Tail(s), K) => Has(s, K)
         /\ \A K : Has(s, K) /\ Head(s).kind \notin K => Has(Tail(s), K)
         /\ \A K : Head(s).kind \in K => Has(s, K)
         /\ \A K : Lone(s, K) => Lone(Tail(s), K)
         /\ \A K : Lone(s, K) /\ Head(s).kind \in K => ~Has(Tail(s), K)
<1> DEFINE u == Tail(s)
<1>1. /\ IsSeq(u) /\ Len(s) \in Nat /\ Len(s) >= 1 /\ Len(u) = Len(s) - 1 /\ Head(s) = s[1]
      /\ \A k \in 1 .. Len(u) : k + 1 \in 1 .. Len(s) /\ u[k] = s[k + 1]
      /\ \A k \in 1 .. Len(s) : k = 1 \/ (k - 1 \in 1 .. Len(u) /\ s[k] = u[k - 1])
  BY TailAt
<1> HIDE DEF u
<1>2. 1 \in 1 .. Len(s) /\ Head(s) \in Elems(s)
  BY <1>1 DEF Elems
<1>3. Elems(u) \subseteq Elems(s)
  BY <1>1 DEF Elems
<1>4. Elems(s) \subseteq Elems(u) \cup {Head(s)}
  BY <1>1 DEF Elems
<1>5. Elems(s) = Elems(u) \cup {Head(s)}
  BY <1>2, <1>3, <1>4
<1>6. \A K : Has(u, K) => Has(s, K)
  BY <1>5 DEF Has
<1>7. \A K : Has(s, K) /\ Head(s).kind \notin K => Has(u, K)
  BY <1>5 DEF Has
<1>8. \A K : Head(s).kind \in K => Has(s, K)
  BY <1>2 DEF Has
<1>9. ASSUME NEW K, Lone(s, K), NEW i \in 1 .. Len(u), NEW j \in 1 .. Len(u),
             u[i].kind \in K, u[j].kind \in K
      PROVE  i = j
  <2>1. i + 1 = j + 1
    BY <1>1, <1>9 DEF Lone
  <2> QED BY <2>1
<1>10. \A K : Lone(s, K) => Lone(u, K)
  BY <1>9 DEF Lone
<1>11. ASSUME NEW K, Lone(s, K), Head(s).kind \in K, Has(u, K) PROVE FALSE
  <2>1. PICK i \in 1 .. Len(u) : u[i].kind \in K
    BY <1>11 DEF Has, Elems
  <2>2. i + 1 = 1
    BY <1>1, <1>2, <1>11, <2>1 DEF Lone
  <2> QED BY <2>2
<1> QED BY <1>1, <1>2, <1>5, <1>6, <1>7, <1>8, <1>10, <1>11 DEF u
-----------------------------------------------------------------------------
(* Where a direction starts to compress. *)

\* Nothing in s is compressed; all of it is, but for what was sent unasked; and the place
\* of the success is the place where it starts.
Plain(s) == \A p \in Elems(s) : p.z = FALSE
Turned(s) == \A p \in Elems(s) : p.z = TRUE \/ p.kind \in Unasked
Turning(s) ==
  \E k \in 1 .. Len(s) :
    /\ s[k].kind = "success"
    /\ \A i \in 1 .. Len(s) : IF i <= k THEN s[i].z = FALSE
                              ELSE s[i].z = TRUE \/ s[i].kind \in Unasked

\* The success starts it, with what is sent unasked right behind it.
LEMMA TurnNew ==
  ASSUME NEW s, NEW p, NEW t, IsSeq(s), IsSeq(t), Plain(s), p.kind = "success", p.z = FALSE, Turned(t)
  PROVE  Turning(s \o (<<p>> \o t))
<1> DEFINE o == <<p>>
<1>0. IsSeq(o) /\ Len(o) = 1 /\ o[1] = p
  BY ShortSeqs
<1> HIDE DEF o
<1> DEFINE w == o \o t
<1>1. IsSeq(w)
  BY <1>0, ConcatAt
<1>2. IsSeq(o)
  BY <1>0
<1>3. /\ Len(o) \in Nat /\ Len(t) \in Nat /\ Len(w) = Len(o) + Len(t)
      /\ \A k \in 1 .. Len(o) : w[k] = o[k]
      /\ \A k \in 1 .. Len(t) : w[Len(o) + k] = t[k]
  BY <1>2, ConcatAt
<1> HIDE DEF w
<1>4. /\ Len(t) \in Nat /\ Len(w) = 1 + Len(t) /\ \A k \in 1 .. Len(t) : w[1 + k] = t[k]
  BY <1>0, <1>3
<1>5. w[1] = p
  BY <1>0, <1>3
<1> DEFINE u == s \o w
<1>6. /\ Len(s) \in Nat /\ Len(w) \in Nat /\ Len(u) = Len(s) + Len(w)
      /\ \A k \in 1 .. Len(s) : u[k] = s[k]
      /\ \A k \in 1 .. Len(w) : u[Len(s) + k] = w[k]
      /\ \A k \in 1 .. Len(u) : k \in 1 .. Len(s) \/ \E j \in 1 .. Len(w) : k = Len(s) + j
  BY <1>1, ConcatAt
<1> HIDE DEF u
<1>7. Len(s) + 1 \in 1 .. Len(u) /\ 1 \in 1 .. Len(w)
  BY <1>4, <1>6
<1>8. u[Len(s) + 1].kind = "success" /\ u[Len(s) + 1].z = FALSE
  BY <1>5, <1>6, <1>7
<1>9. ASSUME NEW i \in 1 .. Len(u)
      PROVE  IF i <= Len(s) + 1 THEN u[i].z = FALSE ELSE u[i].z = TRUE \/ u[i].kind \in Unasked
  <2>1. CASE i \in 1 .. Len(s)
    <3>1. u[i].z = FALSE
      BY <1>6, <2>1 DEF Plain, Elems
    <3>2. i <= Len(s) + 1
      BY <1>6, <2>1
    <3> QED BY <3>1, <3>2
  <2>2. CASE i = Len(s) + 1
    BY <1>6, <1>8, <2>2
  <2>3. ASSUME NEW j \in 1 .. Len(w), i = Len(s) + j, j # 1
        PROVE  ~(i <= Len(s) + 1) /\ (u[i].z = TRUE \/ u[i].kind \in Unasked)
    <3>1. j - 1 \in 1 .. Len(t) /\ 1 + (j - 1) = j /\ ~(i <= Len(s) + 1)
      BY <1>4, <1>6, <2>3
    <3>2. u[i] = t[j - 1]
      BY <1>4, <1>6, <2>3, <3>1
    <3> QED BY <3>1, <3>2 DEF Turned, Elems
  <2> QED BY <1>6, <2>1, <2>2, <2>3
<1>10. Turning(u)
  BY <1>7, <1>8, <1>9 DEF Turning
<1> QED BY <1>10 DEF o, w, u

\* What is sent behind it leaves its place alone.
LEMMA TurnAdd ==
  ASSUME NEW s, NEW t, IsSeq(s), IsSeq(t), Turning(s), Turned(t)
  PROVE  Turning(s \o t)
<1> DEFINE u == s \o t
<1>1. /\ Len(s) \in Nat /\ Len(t) \in Nat /\ Len(u) = Len(s) + Len(t)
      /\ \A k \in 1 .. Len(s) : u[k] = s[k]
      /\ \A k \in 1 .. Len(t) : u[Len(s) + k] = t[k]
      /\ \A k \in 1 .. Len(u) : k \in 1 .. Len(s) \/ \E j \in 1 .. Len(t) : k = Len(s) + j
  BY ConcatAt
<1> HIDE DEF u
<1>2. PICK k \in 1 .. Len(s) :
        /\ s[k].kind = "success"
        /\ \A i \in 1 .. Len(s) : IF i <= k THEN s[i].z = FALSE
                                  ELSE s[i].z = TRUE \/ s[i].kind \in Unasked
  BY DEF Turning
<1>3. k \in 1 .. Len(u) /\ u[k].kind = "success"
  BY <1>1, <1>2
<1>4. ASSUME NEW i \in 1 .. Len(u)
      PROVE  IF i <= k THEN u[i].z = FALSE ELSE u[i].z = TRUE \/ u[i].kind \in Unasked
  <2>1. CASE i \in 1 .. Len(s)
    <3>1. u[i] = s[i]
      BY <1>1, <2>1
    <3> QED BY <1>2, <2>1, <3>1
  <2>2. ASSUME NEW j \in 1 .. Len(t), i = Len(s) + j PROVE ~(i <= k) /\ (u[i].z = TRUE \/ u[i].kind \in Unasked)
    <3>1. ~(i <= k) /\ u[i] = t[j]
      BY <1>1, <2>2
    <3> QED BY <3>1 DEF Turned, Elems
  <2> QED BY <1>1, <2>1, <2>2
<1>5. Turning(u)
  BY <1>3, <1>4 DEF Turning
<1> QED BY <1>5 DEF u

\* What is read before it is not compressed, and reading the success itself
\* leaves what is.
LEMMA TurnTail ==
  ASSUME NEW s, IsSeq(s), Turning(s)
  PROVE  /\ s # <<>> /\ Head(s).z = FALSE /\ Has(s, {"success"})
         /\ Head(s).kind # "success" => Turning(Tail(s))
         /\ Head(s).kind = "success" /\ Lone(s, {"success"}) => Turned(Tail(s))
<1>1. PICK k \in 1 .. Len(s) :
        /\ s[k].kind = "success"
        /\ \A i \in 1 .. Len(s) : IF i <= k THEN s[i].z = FALSE
                                  ELSE s[i].z = TRUE \/ s[i].kind \in Unasked
  BY DEF Turning
<1>2. s # <<>> /\ Has(s, {"success"})
  <2>1. Has(s, {"success"})
    BY <1>1 DEF Has, Elems
  <2>2. Elems(<<>>) = {}
    BY ShortSeqs
  <2> QED BY <2>1, <2>2 DEF Has
<1> DEFINE u == Tail(s)
<1>3. /\ Len(s) \in Nat /\ Len(s) >= 1 /\ Len(u) = Len(s) - 1 /\ Head(s) = s[1]
      /\ \A j \in 1 .. Len(u) : j + 1 \in 1 .. Len(s) /\ u[j] = s[j + 1]
  BY <1>2, TailAt
<1> HIDE DEF u
<1>4. 1 \in 1 .. Len(s) /\ 1 <= k /\ Head(s).z = FALSE
  BY <1>1, <1>3
<1>5. ASSUME Head(s).kind # "success" PROVE Turning(u)
  <2>1. k # 1
    BY <1>1, <1>3, <1>5
  <2>2. k - 1 \in 1 .. Len(u) /\ (k - 1) + 1 = k
    BY <1>3, <2>1
  <2>3. u[k - 1] = s[k]
    BY <1>3, <2>2
  <2>4. u[k - 1].kind = "success"
    BY <1>1, <2>3
  <2>5. ASSUME NEW i \in 1 .. Len(u)
        PROVE  IF i <= k - 1 THEN u[i].z = FALSE ELSE u[i].z = TRUE \/ u[i].kind \in Unasked
    <3>1. i + 1 \in 1 .. Len(s) /\ u[i] = s[i + 1] /\ (i <= k - 1 <=> i + 1 <= k)
      BY <1>3
    <3> QED BY <1>1, <3>1
  <2> QED BY <2>2, <2>4, <2>5 DEF Turning
<1>6. ASSUME Head(s).kind = "success", Lone(s, {"success"}), NEW p \in Elems(u)
      PROVE  p.z = TRUE \/ p.kind \in Unasked
  <2>1. k = 1
    BY <1>1, <1>3, <1>4, <1>6 DEF Lone
  <2>2. PICK i \in 1 .. Len(u) : p = u[i]
    BY <1>6 DEF Elems
  <2>3. i + 1 \in 1 .. Len(s) /\ p = s[i + 1] /\ ~(i + 1 <= 1)
    BY <1>3, <2>2
  <2> QED BY <1>1, <2>1, <2>3
<1>7. Head(s).kind = "success" /\ Lone(s, {"success"}) => Turned(u)
  BY <1>6 DEF Turned
<1> QED BY <1>2, <1>4, <1>5, <1>7 DEF u
-----------------------------------------------------------------------------
(* What each side does to the wires. *)

\* Requests of a call among the packets of the client, and the answers of the
\* server to them.
Asks == {"none", "password", "change", "probe", "signed", "badkey", "keyboard", "unknown", "response"}
Verdicts == {"success", "failure", "pk_ok", "prompt"}
Granted == "server in" \in zips

\* The server reads a packet and sends t.
Takes(t) ==
  /\ c2s # <<>> /\ c2s' = Tail(c2s) /\ P.z = ("server in" \in zips) /\ IsSeq(t)
  /\ s2c' = IF peer = "any" THEN <<>> ELSE s2c \o t
SealedAs(t, b) == \A p \in Elems(t) : p.z = b

SrvAccepts ==
  /\ srv = "service" /\ srv' = "auth" /\ P.kind = "service" /\ zips' = zips
  /\ \E t : Takes(t) /\ SealedAs(t, "server out" \in zips) /\ \A p \in Elems(t) : p.kind \in {"accept", "banner"}
SrvSkips ==
  /\ srv' = srv /\ zips' = zips /\ Takes(<<>>)
  /\ \/ srv = "service" /\ P.kind # "service"
     \/ srv = "auth" /\ P.kind \in {"service", "other", "reply", "global"}
SrvDecides(kinds, next) ==
  /\ srv = "auth" /\ P.kind \in Asks /\ srv' = next
  /\ \E p : Takes(<<p>>) /\ p.kind \in kinds /\ p.call = P.call /\ p.z = ("server out" \in zips)
SrvRefuses == zips' = zips /\ SrvDecides({"failure", "pk_ok", "prompt"}, "auth")
SrvGrants ==
  /\ srv = "auth" /\ P.kind \in Asks /\ srv' = "init"
  /\ zips' = IF Deferred THEN zips \cup {"server in"} ELSE zips
  /\ \E p, t : /\ Takes(<<p>> \o t) /\ SealedAs(<<p>> \o t, "server out" \in zips) /\ IsSeq(t)
               /\ p.kind = "success" /\ p.call = P.call /\ \A q \in Elems(t) : q.kind \in Unasked
SrvEnds ==
  /\ srv' = "ended" /\ zips' = zips
  /\ (srv = "auth" /\ P.kind \in Asks /\ Takes(<<>>)) \/ UNCHANGED <<c2s, s2c>>
SrvServes ==
  /\ srv \in {"init", "done"} /\ srv' = "done"
  /\ zips' = IF Deferred /\ srv = "init" THEN zips \cup {"server out"} ELSE zips
  /\ \E t : Takes(t) /\ SealedAs(t, "server out" \in zips') /\ \A p \in Elems(t) : p.kind = "answer"

\* A success and what is sent unasked behind it: one verdict.
LEMMA Greeted ==
  ASSUME NEW p, NEW t, IsSeq(t), p.kind = "success", \A q \in Elems(t) : q.kind \in Unasked
  PROVE  /\ IsSeq(<<p>> \o t) /\ Elems(<<p>> \o t) = {p} \cup Elems(t) /\ Turned(t)
         /\ Lone(<<p>> \o t, {"success"}) /\ Lone(<<p>> \o t, Verdicts)
<1>1. /\ IsSeq(<<p>>) /\ Elems(<<p>>) = {p} /\ Lone(<<p>>, {"success"}) /\ Lone(<<p>>, Verdicts)
  BY ShortSeqs, SingleHas
<1>2. ~Has(t, {"success"}) /\ ~Has(t, Verdicts)
  BY DEF Has, Verdicts, Unasked
<1>3. Lone(t, {"success"}) /\ Lone(t, Verdicts)
  BY <1>2 DEF Lone, Has, Elems
<1>4. Turned(t)
  BY DEF Turned
<1> QED BY <1>1, <1>2, <1>3, <1>4, ConcatHas

\* What a Handler says in auth_succeeded.
LEMMA GreetingIs ==
  ASSUME NEW g \in Greetings
  PROVE  IsSeq(g) /\ \A q \in Elems(g) : q.kind \in Unasked /\ q.z = ("server out" \in zips)
<1>1. CASE g = <<>>
  BY <1>1, ShortSeqs
<1>2. ASSUME NEW kind \in Unasked, g = <<Own(kind)>>
      PROVE  IsSeq(g) /\ \A q \in Elems(g) : q.kind \in Unasked /\ q.z = ("server out" \in zips)
  <2> DEFINE o == Own(kind)
  <2>1. o.kind = kind /\ o.z = ("server out" \in zips)
    BY DEF Own
  <2>2. g = <<o>>
    BY <1>2
  <2> HIDE DEF o
  <2>3. IsSeq(<<o>>) /\ Elems(<<o>>) = {o}
    BY ShortSeqs
  <2> QED BY <1>2, <2>1, <2>2, <2>3
<1> QED BY <1>1, <1>2 DEF Greetings

\* What the server sends of its own accord.
LEMMA StartsOne ==
  ASSUME ServerStarts
  PROVE  \E p : s2c' = Append(s2c, p) /\ p.kind \in Unasked /\ p.z = ("server out" \in zips)
<1>1. PICK kind \in Unasked : s2c' = Append(s2c, Own(kind))
  BY DEF ServerStarts
<1> DEFINE q == Own(kind)
<1>2. s2c' = Append(s2c, q) /\ q.kind = kind /\ q.z = ("server out" \in zips)
  BY <1>1 DEF Own
<1> HIDE DEF q
<1> QED BY <1>2

\* Every step of the server is one of these.
LEMMA SrvWires ==
  ASSUME SrvStep
  PROVE  /\ UNCHANGED <<peer, cliVars, appVars, talk>>
         /\ SrvAccepts \/ SrvSkips \/ SrvRefuses \/ SrvGrants \/ SrvEnds \/ SrvServes
<1>1. ASSUME NEW state, NEW kinds, NEW t, IsSeq(t), SrvReads(state, kinds), Answered(t)
      PROVE  /\ Takes(t) /\ srv = state /\ P.kind \in kinds
             /\ UNCHANGED <<peer, cliVars, appVars, talk>>
  BY <1>1 DEF SrvReads, Answered, Takes
<1>2. ASSUME NEW kinds \in SUBSET Asks, SrvReads("auth", kinds), NEW ms, NEW ps, reject_auth_request(ms, ps)
      PROVE  SrvRefuses
  <2> DEFINE a == Answer("failure", ms, ps)
  <2>1. Answered(<<a>>) /\ srv' = "auth" /\ zips' = zips
    BY <1>2 DEF reject_auth_request
  <2>2. a.kind = "failure" /\ a.call = P.call /\ a.z = ("server out" \in zips)
    BY DEF Answer
  <2> HIDE DEF a
  <2>3. IsSeq(<<a>>)
    BY ShortSeqs
  <2>4. Takes(<<a>>) /\ srv = "auth" /\ P.kind \in Asks
    BY <1>1, <1>2, <2>1, <2>3
  <2> QED BY <2>1, <2>2, <2>4 DEF SrvRefuses, SrvDecides
<1>3. ASSUME NEW kinds \in SUBSET Asks, SrvReads("auth", kinds), server_auth_request_success
      PROVE  SrvGrants
  <2> DEFINE a == Answer("success", {}, FALSE)
  <2>1. PICK g \in Greetings : Answered(<<a>> \o g)
    BY <1>3 DEF server_auth_request_success
  <2>2. srv' = "init" /\ zips' = IF Deferred THEN zips \cup {"server in"} ELSE zips
    BY <1>3 DEF server_auth_request_success
  <2>3. a.kind = "success" /\ a.call = P.call /\ a.z = ("server out" \in zips)
    BY DEF Answer
  <2> HIDE DEF a
  <2>4. IsSeq(g) /\ \A q \in Elems(g) : q.kind \in Unasked /\ q.z = ("server out" \in zips)
    BY GreetingIs
  <2>5. IsSeq(<<a>> \o g) /\ Elems(<<a>> \o g) = {a} \cup Elems(g)
    BY <2>3, <2>4, Greeted
  <2>6. Takes(<<a>> \o g) /\ srv = "auth" /\ P.kind \in Asks
    BY <1>1, <1>3, <2>1, <2>5
  <2>7. SealedAs(<<a>> \o g, "server out" \in zips)
    BY <2>3, <2>4, <2>5 DEF SealedAs
  <2> QED BY <2>2, <2>3, <2>4, <2>6, <2>7 DEF SrvGrants
<1>4. ASSUME NEW kinds \in SUBSET Asks, SrvReads("auth", kinds), NEW kind \in {"pk_ok", "prompt"},
             Answered(<<Answer(kind, {}, FALSE)>>), srv' = srv, zips' = zips
      PROVE  SrvRefuses
  <2> DEFINE a == Answer(kind, {}, FALSE)
  <2>2. a.kind = kind /\ a.call = P.call /\ a.z = ("server out" \in zips)
    BY DEF Answer
  <2>1. Answered(<<a>>)
    BY <1>4
  <2> HIDE DEF a
  <2>3. IsSeq(<<a>>)
    BY ShortSeqs
  <2>4. Takes(<<a>>) /\ srv = "auth" /\ P.kind \in Asks
    BY <1>1, <1>4, <2>1, <2>3
  <2> QED BY <1>4, <2>2, <2>4 DEF SrvRefuses, SrvDecides
<1>5. ASSUME NEW kinds \in SUBSET Asks, SrvReads("auth", kinds), Dialogue
      PROVE  SrvRefuses \/ SrvGrants \/ SrvEnds
  <2>1. CASE server_auth_request_success
    BY <1>3, <1>5, <2>1
  <2>2. CASE \E ms \in {BoundMethods} \cup Proceed, ps \in BOOLEAN : reject_auth_request(ms, ps)
    BY <1>2, <1>5, <2>2
  <2>3. CASE Answered(<<Answer("prompt", {}, FALSE)>>) /\ srv' = srv /\ zips' = zips
    BY <1>4, <1>5, <2>3
  <2>4. CASE srv' = "ended" /\ Answered(<<>>) /\ zips' = zips
    <3>1. Takes(<<>>) /\ srv = "auth" /\ P.kind \in Asks
      BY <1>1, <1>5, <2>4, ShortSeqs
    <3> QED BY <2>4, <3>1 DEF SrvEnds
  <2> QED BY <1>5, <2>1, <2>2, <2>3, <2>4 DEF Dialogue
<1>6. CASE SrvService
  <2>1. SrvReads("service", {"service"}) /\ srv' = "auth" /\ zips' = zips
    BY <1>6 DEF SrvService
  <2> DEFINE a == Answer("accept", {}, FALSE)
             b == Answer("banner", {}, FALSE)
  <2>2. /\ a.kind = "accept" /\ a.z = ("server out" \in zips)
        /\ b.kind = "banner" /\ b.z = ("server out" \in zips)
    BY DEF Answer
  <2>3. Answered(<<a>> \o <<b>>) \/ Answered(<<a>> \o <<>>)
    BY <1>6 DEF SrvService
  <2> HIDE DEF a, b
  <2>4. /\ IsSeq(<<a>> \o <<b>>) /\ Elems(<<a>> \o <<b>>) = {a, b}
        /\ IsSeq(<<a>> \o <<>>) /\ Elems(<<a>> \o <<>>) = {a}
    BY ShortSeqs, ConcatHas
  <2>5. PICK t : Answered(t) /\ IsSeq(t) /\ Elems(t) \subseteq {a, b}
    BY <2>3, <2>4
  <2>6. Takes(t) /\ srv = "service" /\ P.kind = "service"
    BY <1>1, <2>1, <2>5
  <2>7. SealedAs(t, "server out" \in zips) /\ \A p \in Elems(t) : p.kind \in {"accept", "banner"}
    BY <2>2, <2>5 DEF SealedAs
  <2>8. SrvAccepts
    BY <2>1, <2>6, <2>7 DEF SrvAccepts
  <2> QED BY <2>1, <2>8 DEF SrvReads
<1>7. CASE SrvSimple
  <2>1. SrvReads("auth", {"none", "password", "change"})
    BY <1>7 DEF SrvSimple
  <2>2. {"none", "password", "change"} \in SUBSET Asks
    BY DEF Asks
  <2>3. SrvGrants \/ SrvRefuses
    BY <1>2, <1>3, <1>7, <2>1, <2>2 DEF SrvSimple
  <2> QED BY <2>1, <2>3 DEF SrvReads
<1>8. CASE SrvProbe
  <2>1. SrvReads("auth", {"probe"}) /\ {"probe"} \in SUBSET Asks
    BY <1>8 DEF SrvProbe, Asks
  <2>2. \/ Answered(<<Answer("pk_ok", {}, FALSE)>>) /\ srv' = srv /\ zips' = zips
        \/ \E ms \in Remaining({}) : reject_auth_request(ms, FALSE)
    BY <1>8 DEF SrvProbe
  <2>3. SrvRefuses
    BY <1>2, <1>4, <2>1, <2>2
  <2> QED BY <2>1, <2>3 DEF SrvReads
<1>9. CASE SrvSigned
  <2>1. SrvReads("auth", {"signed"}) /\ {"signed"} \in SUBSET Asks
    BY <1>9 DEF SrvSigned, Asks
  <2>2. server_auth_request_success \/ \E ms, ps : reject_auth_request(ms, ps)
    BY <1>9 DEF SrvSigned
  <2>3. SrvGrants \/ SrvRefuses
    BY <1>2, <1>3, <2>1, <2>2
  <2> QED BY <2>1, <2>3 DEF SrvReads
<1>10. CASE SrvUnusable
  <2>1. SrvReads("auth", {"badkey", "unknown"}) /\ {"badkey", "unknown"} \in SUBSET Asks
    BY <1>10 DEF SrvUnusable, Asks
  <2>2. SrvRefuses
    BY <1>2, <1>10, <2>1 DEF SrvUnusable
  <2> QED BY <2>1, <2>2 DEF SrvReads
<1>11. CASE SrvKeyboard
  <2>1. SrvReads("auth", {"keyboard"}) /\ {"keyboard"} \in SUBSET Asks /\ Dialogue
    BY <1>11 DEF SrvKeyboard, Asks
  <2>2. SrvRefuses \/ SrvGrants \/ SrvEnds
    BY <1>5, <2>1
  <2> QED BY <2>1, <2>2 DEF SrvReads
<1>12. CASE SrvResponse
  <2>1. SrvReads("auth", {"response"}) /\ {"response"} \in SUBSET Asks
    BY <1>12 DEF SrvResponse, Asks
  <2>2. Dialogue \/ reject_auth_request(methods, partial)
    BY <1>12 DEF SrvResponse
  <2>3. SrvRefuses \/ SrvGrants \/ SrvEnds
    BY <1>2, <1>5, <2>1, <2>2
  <2> QED BY <2>1, <2>3 DEF SrvReads
<1>13. CASE SrvAuthenticated
  <2>1. PICK state \in {"init", "done"} : SrvReads(state, ClientKinds)
    BY <1>13 DEF SrvAuthenticated
  <2> DEFINE a == [Answer("answer", {}, FALSE) EXCEPT !.z = "server out" \in zips']
  <2>2. a.kind = "answer" /\ a.z = ("server out" \in zips')
    BY DEF Answer
  <2>3. /\ srv' = "done" /\ zips' = IF Deferred /\ srv = "init" THEN zips \cup {"server out"} ELSE zips
        /\ Answered(<<a>>) \/ Answered(<<>>)
    BY <1>13 DEF SrvAuthenticated
  <2> HIDE DEF a
  <2>4. PICK t : Answered(t) /\ IsSeq(t) /\ Elems(t) \subseteq {a}
    BY <2>3, ShortSeqs
  <2>5. Takes(t) /\ srv \in {"init", "done"}
    BY <1>1, <2>1, <2>4
  <2>6. SealedAs(t, "server out" \in zips') /\ \A p \in Elems(t) : p.kind = "answer"
    BY <2>2, <2>4 DEF SealedAs
  <2>7. SrvServes
    BY <2>3, <2>5, <2>6 DEF SrvServes
  <2> QED BY <2>1, <2>7 DEF SrvReads
<1>14. CASE SrvIgnored
  <2>1. Answered(<<>>) /\ srv' = srv /\ zips' = zips
    BY <1>14 DEF SrvIgnored, srvVars
  <2>2. PICK state \in {"service", "auth"}, kinds \in SUBSET ClientKinds :
          /\ SrvReads(state, kinds)
          /\ IF state = "service" THEN "service" \notin kinds ELSE kinds = {"service", "other", "reply", "global"}
    BY <1>14 DEF SrvIgnored, ClientKinds
  <2>3. Takes(<<>>) /\ srv = state /\ P.kind \in kinds
    BY <1>1, <2>1, <2>2, ShortSeqs
  <2>4. SrvSkips
    BY <2>1, <2>2, <2>3 DEF SrvSkips
  <2> QED BY <2>2, <2>4 DEF SrvReads
<1>15. CASE SrvGarbled \/ SrvHangup
  BY <1>15 DEF SrvGarbled, SrvHangup, SrvEnds
<1> QED BY <1>6, <1>7, <1>8, <1>9, <1>10, <1>11, <1>12, <1>13, <1>14, <1>15 DEF SrvStep

\* A packet of the client: its form, and the call it is made for.
LEMMA PacketIs ==
  ASSUME NEW kind, NEW req
  PROVE  /\ Packet(kind, req, TRUE).kind = kind /\ Packet(kind, req, TRUE).call = req.call
         /\ Packet(kind, req, TRUE).z = ("client out" \in zips)
BY DEF Packet

\* The first packet of a request is one that the server answers.
LEMMA FirstPacketIs ==
  ASSUME NEW req \in Request
  PROVE  /\ FirstPacket(req).kind \in Asks /\ FirstPacket(req).call = req.call
         /\ FirstPacket(req).z = ("client out" \in zips)
<1> DEFINE kind == IF req.method \in {"publickey", "signer"} THEN "probe" ELSE req.method
<1>1. kind \in Asks
  BY DEF Request, CallMethods, Asks
<1> HIDE DEF kind
<1>2. /\ Packet(kind, req, TRUE).kind = kind /\ Packet(kind, req, TRUE).call = req.call
      /\ Packet(kind, req, TRUE).z = ("client out" \in zips)
  BY PacketIs
<1>3. FirstPacket(req) = Packet(kind, req, TRUE)
  BY DEF FirstPacket, kind
<1> QED BY <1>1, <1>2, <1>3

\* The client sends t.
Sends(t) == IsSeq(t) /\ c2s' = c2s \o t /\ SealedAs(t, "client out" \in zips)

\* No packet or one.
LEMMA SendsNone == ASSUME IsSeq(c2s), c2s' = c2s PROVE Sends(<<>>) /\ \A K : ~Has(<<>>, K)
BY ShortSeqs, ConcatEmpty DEF Sends, SealedAs, Has

LEMMA SendsOne ==
  ASSUME NEW kind, NEW req, Send(<<Packet(kind, req, TRUE)>>)
  PROVE  Sends(<<Packet(kind, req, TRUE)>>)
<1> DEFINE p == Packet(kind, req, TRUE)
<1>1. p.z = ("client out" \in zips)
  BY PacketIs
<1>2. c2s' = c2s \o <<p>>
  BY DEF Send
<1> HIDE DEF p
<1>3. IsSeq(<<p>>) /\ Elems(<<p>>) = {p}
  BY ShortSeqs
<1>4. Sends(<<p>>)
  BY <1>1, <1>2, <1>3 DEF Sends, SealedAs
<1> QED BY <1>4 DEF p

\* What Msg::Authenticate sends: SERVICE_REQUEST if it was not sent before, and
\* the request if the service was accepted.
AuthSends(t, req) ==
  /\ Sends(t) /\ Lone(t, {"service"}) /\ Lone(t, Asks)
  /\ \A p \in Elems(t) : p.kind \in Asks \cup {"service"} /\ p.call = req.call
  /\ Has(t, Asks) => IsWaiting
  /\ Has(t, {"service"}) => ~cSent /\ cSent'
LEMMA AuthenticateSends ==
  ASSUME QueuesOK, CliAuthenticate
  PROVE  /\ msgs # <<>> /\ Head(msgs) \in [kind : {"authenticate", "responses", "signed"}, req : Request]
         /\ \E t : AuthSends(t, Head(msgs).req)
<1>1. msgs # <<>> /\ Head(msgs) \in [kind : {"authenticate", "responses", "signed"}, req : Request]
  <2> DEFINE S == [kind : {"authenticate", "responses", "signed"}, req : Request]
  <2>1. msgs # <<>>
    BY DEF CliAuthenticate
  <2>2. msgs \in Seq(S)
    BY DEF QueuesOK
  <2> HIDE DEF S
  <2>3. Head(msgs) \in S
    BY <2>1, <2>2
  <2> QED BY <2>1, <2>3 DEF S
<1> DEFINE req == Head(msgs).req
           service == cState = "service" /\ ~cSent
           a == Packet("service", req, TRUE)
           b == FirstPacket(req)
           first == IF service THEN <<a>> ELSE <<>>
           second == IF IsWaiting THEN <<b>> ELSE <<>>
<1>2. req \in Request
  BY <1>1
<1>3. c2s' = c2s \o (first \o second) /\ cSent' = (cSent \/ service)
  BY DEF CliAuthenticate, Send
<1> HIDE DEF req
<1>4. a.kind = "service" /\ a.call = req.call /\ a.z = ("client out" \in zips)
  BY PacketIs
<1>5. b.kind \in Asks /\ b.call = req.call /\ b.z = ("client out" \in zips)
  BY <1>2, FirstPacketIs
<1> HIDE DEF a, b
<1>6. /\ IsSeq(first) /\ Elems(first) \subseteq {a} /\ \A K : Lone(first, K)
      /\ Elems(first) # {} => service
  <2>1. CASE service
    BY <2>1, ShortSeqs, SingleHas
  <2>2. CASE ~service
    <3>1. first = <<>> /\ Len(<<>>) = 0
      BY <2>2
    <3> QED BY <3>1, ShortSeqs DEF Lone
  <2> QED BY <2>1, <2>2
<1>7. /\ IsSeq(second) /\ Elems(second) \subseteq {b} /\ \A K : Lone(second, K)
      /\ Elems(second) # {} => IsWaiting
  <2>1. CASE IsWaiting
    BY <2>1, ShortSeqs, SingleHas
  <2>2. CASE ~IsWaiting
    <3>1. second = <<>> /\ Len(<<>>) = 0
      BY <2>2
    <3> QED BY <3>1, ShortSeqs DEF Lone
  <2> QED BY <2>1, <2>2
<1> HIDE DEF first, second
<1> DEFINE t == first \o second
<1>8. "service" \notin Asks
  BY DEF Asks
<1>9. ~Has(first, Asks) /\ ~Has(second, {"service"})
  BY <1>4, <1>5, <1>6, <1>7, <1>8 DEF Has
<1>10. /\ IsSeq(t) /\ Elems(t) = Elems(first) \cup Elems(second)
       /\ Lone(t, {"service"}) /\ Lone(t, Asks)
       /\ Has(t, Asks) => Has(second, Asks)
       /\ Has(t, {"service"}) => Has(first, {"service"})
  BY <1>6, <1>7, <1>9, ConcatHas
<1>11. Sends(t)
  BY <1>3, <1>4, <1>5, <1>6, <1>7, <1>10 DEF Sends, SealedAs
<1> HIDE DEF t
<1>12. \A p \in Elems(t) : p.kind \in Asks \cup {"service"} /\ p.call = req.call
  BY <1>4, <1>5, <1>6, <1>7, <1>10
<1>13. (Has(t, Asks) => IsWaiting) /\ (Has(t, {"service"}) => service)
  BY <1>6, <1>7, <1>10 DEF Has
<1>14. AuthSends(t, req)
  BY <1>3, <1>10, <1>11, <1>12, <1>13 DEF AuthSends
<1> QED BY <1>1, <1>14 DEF req

\* A step of the client session, seen from the wires: it sends t, and reads a
\* packet or none.
CliOnWires(t) ==
  /\ UNCHANGED <<peer, srv>> /\ Sends(t) /\ (cSent => cSent')
  /\ Lone(t, {"service"}) /\ (Has(t, {"service"}) => ~cSent /\ cSent')
  /\ Has(t, {"other", "reply"}) => cState = "done"
  /\ \/ s2c' = s2c /\ zips' = zips /\ (cState' = "done" => cState = "done")
     \/ /\ s2c # <<>> /\ s2c' = Tail(s2c) /\ zips' = zips
        /\ (cState' = "done" => cState = "done") /\ (R.kind = "success" => cState = "done")
     \/ /\ s2c # <<>> /\ s2c' = Tail(s2c) /\ R.kind = "success"
        /\ zips' = IF Deferred THEN zips \cup {"client in", "client out"} ELSE zips

\* Every step that the client session makes, for itself or for a timer, is one.
LEMMA CliWires ==
  ASSUME QueuesOK, CliStep \/ AppOther \/ ClientStarts
  PROVE  \E t : CliOnWires(t)
<1>0. IsSeq(c2s)
  BY DEF QueuesOK, IsSeq
<1>1. c2s' = c2s => Sends(<<>>) /\ \A K : ~Has(<<>>, K)
  BY <1>0, SendsNone
<1>2. Lone(<<>>, {"service"})
  <2>1. Len(<<>>) = 0
    OBVIOUS
  <2> QED BY <2>1 DEF Lone
<1>3. ASSUME NEW kind, NEW req, Send(<<Packet(kind, req, TRUE)>>)
      PROVE  \E t : Sends(t) /\ \A K : Lone(t, K) /\ (Has(t, K) <=> kind \in K)
  <2> DEFINE p == Packet(kind, req, TRUE)
  <2>1. Sends(<<p>>)
    BY <1>3, SendsOne
  <2>2. p.kind = kind
    BY PacketIs
  <2> HIDE DEF p
  <2>3. \A K : Lone(<<p>>, K) /\ (Has(<<p>>, K) <=> p.kind \in K)
    BY SingleHas
  <2> QED BY <2>1, <2>2, <2>3
<1>4. CASE CliAuthenticate
  <2>1. PICK t : AuthSends(t, Head(msgs).req)
    BY <1>4, AuthenticateSends
  <2>2. /\ UNCHANGED <<peer, srv>> /\ (cSent => cSent') /\ s2c' = s2c /\ zips' = zips
        /\ (cState' = "done" => cState = "done")
    BY <1>4 DEF CliAuthenticate, srvVars
  <2>3. ~Has(t, {"other", "reply"})
    BY <2>1 DEF AuthSends, Has, Asks
  <2>4. CliOnWires(t)
    BY <2>1, <2>2, <2>3 DEF CliOnWires, AuthSends
  <2> QED BY <2>4
<1>5. CASE CliAccept
  <2>1. /\ s2c # <<>> /\ s2c' = Tail(s2c) /\ R.kind = "accept" /\ zips' = zips /\ cState = "service"
        /\ UNCHANGED <<peer, srv>> /\ cSent' = cSent /\ cState' \in {"service", "auth"}
    BY <1>5 DEF CliAccept, CliReads, srvVars
  <2>2. CASE c2s' = c2s
    <3>1. CliOnWires(<<>>)
      BY <1>1, <1>2, <2>1, <2>2 DEF CliOnWires
    <3> QED BY <3>1
  <2>3. CASE Send(<<FirstPacket(cReq)>>)
    <3> DEFINE p == FirstPacket(cReq)
    <3>1. p.kind \in Asks /\ p.z = ("client out" \in zips)
      BY FirstPacketIs DEF QueuesOK
    <3>2. c2s' = c2s \o <<p>>
      BY <2>3 DEF Send
    <3> HIDE DEF p
    <3>3. /\ IsSeq(<<p>>) /\ Elems(<<p>>) = {p}
          /\ \A K : Lone(<<p>>, K) /\ (Has(<<p>>, K) <=> p.kind \in K)
      BY ShortSeqs, SingleHas
    <3>4. Sends(<<p>>) /\ ~Has(<<p>>, {"service"}) /\ ~Has(<<p>>, {"other", "reply"})
      BY <3>1, <3>2, <3>3 DEF Sends, SealedAs, Asks
    <3>5. CliOnWires(<<p>>)
      BY <2>1, <3>3, <3>4 DEF CliOnWires
    <3> QED BY <3>5
  <2> QED BY <1>5, <2>2, <2>3 DEF CliAccept
<1>6. CASE CliSuccess
  <2>1. /\ s2c # <<>> /\ s2c' = Tail(s2c) /\ R.kind = "success" /\ UNCHANGED <<c2s, peer, srv, cSent>>
        /\ zips' = IF Deferred THEN zips \cup {"client in", "client out"} ELSE zips
    BY <1>6 DEF CliSuccess, CliReads, srvVars
  <2>2. CliOnWires(<<>>)
    BY <1>1, <1>2, <2>1 DEF CliOnWires
  <2> QED BY <2>2
<1>7. CASE CliFailure \/ CliPrompt
  <2>1. /\ s2c # <<>> /\ s2c' = Tail(s2c) /\ R.kind \in {"failure", "pk_ok", "prompt"}
        /\ UNCHANGED <<c2s, peer, srv, cSent, zips>> /\ cState' \in {"auth", "wait responses", "ended"}
    BY <1>7 DEF CliFailure, CliPrompt, CliReads, srvVars
  <2>2. CliOnWires(<<>>)
    BY <1>1, <1>2, <2>1 DEF CliOnWires
  <2> QED BY <2>2
<1>8. CASE CliPkOk
  <2>1. /\ s2c # <<>> /\ s2c' = Tail(s2c) /\ R.kind \in {"pk_ok", "prompt"} /\ cState = "auth"
        /\ UNCHANGED <<peer, srv, cSent, zips>>
    BY <1>8 DEF CliPkOk, CliReads, srvVars
  <2>2. /\ cState' = cState \/ cState' = "wait signature"
        /\ c2s' = c2s \/ Send(<<Packet("signed", cReq, TRUE)>>)
    BY <1>8 DEF CliPkOk
  <2>3. CASE c2s' = c2s
    <3>1. CliOnWires(<<>>)
      BY <1>1, <1>2, <2>1, <2>2, <2>3 DEF CliOnWires
    <3> QED BY <3>1
  <2>4. CASE Send(<<Packet("signed", cReq, TRUE)>>)
    <3>1. PICK t : Sends(t) /\ \A K : Lone(t, K) /\ (Has(t, K) <=> "signed" \in K)
      BY <1>3, <2>1, <2>2, <2>4
    <3>2. CliOnWires(t)
      BY <3>1, <2>1, <2>2, <2>4 DEF CliOnWires
    <3> QED BY <3>2
  <2> QED BY <2>2, <2>3, <2>4
<1>9. CASE CliOther
  <2>1. /\ s2c # <<>> /\ s2c' = Tail(s2c) /\ UNCHANGED <<peer, srv, cSent, zips, cState>>
        /\ \/ c2s' = c2s /\ (R.kind = "banner" \/ cState = "done")
           \/ cState = "done" /\ Send(<<Packet("reply", cReq, TRUE)>>)
    BY <1>9 DEF CliOther, CliReads, srvVars, cliVars
  <2>2. CASE c2s' = c2s /\ (R.kind = "banner" \/ cState = "done")
    <3>1. CliOnWires(<<>>)
      BY <1>1, <1>2, <2>1, <2>2 DEF CliOnWires
    <3> QED BY <3>1
  <2>3. CASE cState = "done" /\ Send(<<Packet("reply", cReq, TRUE)>>)
    <3>1. PICK t : Sends(t) /\ \A K : Lone(t, K) /\ (Has(t, K) <=> "reply" \in K)
      BY <1>3, <2>1, <2>3
    <3>2. CliOnWires(t)
      BY <3>1, <2>1, <2>3 DEF CliOnWires
    <3> QED BY <3>2
  <2> QED BY <2>1, <2>2, <2>3
<1>10. CASE CliRefuses \/ CliHangup
  <2>1. UNCHANGED <<peer, srv, c2s, s2c, zips, cSent>> /\ cState' = "ended"
    BY <1>10 DEF CliRefuses, CliHangup, srvVars
  <2>2. CliOnWires(<<>>)
    BY <1>1, <1>2, <2>1 DEF CliOnWires
  <2> QED BY <2>2
<1>11. CASE CliMessage
  <2>1. /\ UNCHANGED <<peer, srv, s2c, zips, cSent>> /\ (cState' = cState \/ cState' = "auth")
        /\ \/ c2s' = c2s \/ Send(<<Packet("response", cReq, TRUE)>>)
           \/ Send(<<Packet("signed", cReq, TRUE)>>)
    BY <1>11 DEF CliMessage, srvVars
  <2>2. CASE c2s' = c2s
    <3>1. CliOnWires(<<>>)
      BY <1>1, <1>2, <2>1, <2>2 DEF CliOnWires
    <3> QED BY <3>1
  <2>3. ASSUME NEW kind \in {"response", "signed"}, Send(<<Packet(kind, cReq, TRUE)>>)
        PROVE  \E t : CliOnWires(t)
    <3>1. PICK t : Sends(t) /\ \A K : Lone(t, K) /\ (Has(t, K) <=> kind \in K)
      BY <1>3, <2>3
    <3>2. CliOnWires(t)
      BY <2>1, <2>3, <3>1 DEF CliOnWires
    <3> QED BY <3>2
  <2> QED BY <2>1, <2>2, <2>3
<1>12. CASE AppOther
  <2>1. /\ UNCHANGED <<peer, srv, s2c, zips, cSent, cState>> /\ cState = "done"
        /\ Send(<<Packet("other", cReq, TRUE)>>)
    BY <1>12 DEF AppOther, srvVars, cliVars
  <2>2. PICK t : Sends(t) /\ \A K : Lone(t, K) /\ (Has(t, K) <=> "other" \in K)
    BY <1>3, <2>1
  <2>3. CliOnWires(t)
    BY <2>2, <2>1 DEF CliOnWires
  <2> QED BY <2>3
<1>13. CASE ClientStarts
  <2>1. /\ UNCHANGED <<peer, srv, s2c, zips, cSent, cState>>
        /\ Send(<<Packet("global", NoRequest, TRUE)>>)
    BY <1>13 DEF ClientStarts, srvVars, cliVars
  <2>2. PICK t : Sends(t) /\ \A K : Lone(t, K) /\ (Has(t, K) <=> "global" \in K)
    BY <1>3, <2>1
  <2>3. CliOnWires(t)
    BY <2>2, <2>1 DEF CliOnWires
  <2> QED BY <2>3
<1> QED BY <1>4, <1>5, <1>6, <1>7, <1>8, <1>9, <1>10, <1>11, <1>12, <1>13 DEF CliStep
-----------------------------------------------------------------------------
(* The wires. *)

\* Any other client has one packet on its way at most, and none once it is
\* granted; the client session and its application do not exist.
AnyInv ==
  peer = "any" => /\ s2c = <<>> /\ msgs = <<>> /\ replies = <<>> /\ app = "idle" /\ wrong = FALSE
                  /\ cState \in {"service", "ended"}
                  /\ c2s = <<>> \/ (~Granted /\ \E p : c2s = <<p>>)

\* The server starts first, by granting a request; the client starts both of
\* its contexts when it reads the only success there is.
StartInv ==
  /\ ~Granted => zips = {}
  /\ Granted => Deferred /\ srv \notin {"service", "auth"}
  /\ Deferred /\ srv \in {"init", "done"} => Granted
  /\ Granted /\ srv = "done" => "server out" \in zips
  /\ "client in" \in zips <=> "client out" \in zips
  /\ Deferred /\ cState = "done" => "client in" \in zips
  /\ Has(s2c, {"success"}) \/ cState = "done" => srv \notin {"service", "auth"} /\ (Deferred => Granted)
  /\ Lone(s2c, {"success"})

\* The form of what is on its way.
FormInv ==
  /\ ~Granted => Plain(s2c) /\ Plain(c2s)
  /\ "client in" \in zips => Turned(s2c)
  /\ Granted /\ "client in" \notin zips /\ peer # "any" => Turning(s2c)

\* SERVICE_REQUEST is sent once, and behind a grant only an authenticated
\* client sends anything else than requests and keepalives.
ServiceInv ==
  peer # "any" =>
    /\ Has(c2s, {"service"}) => cSent /\ srv \in {"service", "ended"}
    /\ ~cSent => srv \in {"service", "ended"}
    /\ Lone(c2s, {"service"})
    /\ Has(c2s, {"other", "reply"}) => srv \notin {"service", "auth"}

WireInv == IsSeq(c2s) /\ IsSeq(s2c) /\ AnyInv /\ StartInv /\ FormInv /\ ServiceInv

\* Reading a packet and sending t.
LEMMA TakesKeeps ==
  ASSUME WireInv, NEW t, Takes(t), UNCHANGED peer
  PROVE  /\ IsSeq(c2s') /\ IsSeq(s2c') /\ P \in Elems(c2s) /\ Elems(c2s') \subseteq Elems(c2s)
         /\ \A K : Has(c2s', K) => Has(c2s, K)
         /\ \A K : P.kind \in K => Has(c2s, K)
         /\ \A K : Lone(c2s, K) => Lone(c2s', K)
         /\ \A K : Lone(c2s, K) /\ P.kind \in K => ~Has(c2s', K)
         /\ peer = "any" => s2c' = <<>> /\ c2s' = <<>>
         /\ \A K : Has(s2c', K) => Has(s2c, K) \/ Has(t, K)
         /\ \A K : Lone(s2c, K) /\ Lone(t, K) /\ (~Has(s2c, K) \/ ~Has(t, K)) => Lone(s2c', K)
         /\ Plain(s2c) /\ Plain(t) => Plain(s2c')
         /\ Turned(s2c) /\ Turned(t) => Turned(s2c')
         /\ peer # "any" => s2c' = s2c \o t
<1>1. IsSeq(c2s) /\ IsSeq(s2c) /\ IsSeq(t) /\ c2s # <<>> /\ c2s' = Tail(c2s) /\ P = Head(c2s)
  BY DEF WireInv, Takes, P
<1>2. /\ IsSeq(c2s') /\ P \in Elems(c2s) /\ Elems(c2s) = Elems(c2s') \cup {P}
      /\ \A K : Has(c2s', K) => Has(c2s, K)
      /\ \A K : P.kind \in K => Has(c2s, K)
      /\ \A K : Lone(c2s, K) => Lone(c2s', K)
      /\ \A K : Lone(c2s, K) /\ P.kind \in K => ~Has(c2s', K)
  BY <1>1, TailHas
<1>3. CASE peer = "any"
  <2>1. s2c' = <<>> /\ s2c = <<>>
    BY <1>3 DEF Takes, WireInv, AnyInv
  <2>2. PICK p : c2s = <<p>>
    BY <1>1, <1>3 DEF WireInv, AnyInv
  <2>3. c2s' = <<>>
    BY <1>1, <2>2
  <2>4. IsSeq(<<>>) /\ Elems(<<>>) = {}
    BY ShortSeqs
  <2>5. \A K : ~Has(s2c', K)
    BY <2>1, <2>4 DEF Has
  <2>6. Plain(s2c') /\ Turned(s2c')
    BY <2>1, <2>4 DEF Plain, Turned
  <2>7. \A K : Lone(s2c', K)
    <3>1. Len(<<>>) = 0
      OBVIOUS
    <3> QED BY <2>1, <3>1 DEF Lone
  <2> QED BY <1>2, <1>3, <2>1, <2>3, <2>4, <2>5, <2>6, <2>7
<1>4. CASE peer # "any"
  <2>1. s2c' = s2c \o t
    BY <1>4 DEF Takes
  <2>2. /\ IsSeq(s2c') /\ Elems(s2c') = Elems(s2c) \cup Elems(t)
        /\ \A K : Has(s2c', K) <=> Has(s2c, K) \/ Has(t, K)
        /\ \A K : Lone(s2c, K) /\ Lone(t, K) /\ (~Has(s2c, K) \/ ~Has(t, K)) => Lone(s2c', K)
    BY <1>1, <2>1, ConcatHas
  <2>3. /\ Plain(s2c) /\ Plain(t) => Plain(s2c')
        /\ Turned(s2c) /\ Turned(t) => Turned(s2c')
    BY <2>2 DEF Plain, Turned
  <2> QED BY <1>2, <1>4, <2>1, <2>2, <2>3
<1> QED BY <1>3, <1>4

\* No packet holds nothing.
LEMMA NothingHas == /\ \A K : ~Has(<<>>, K) /\ Lone(<<>>, K)
                    /\ Plain(<<>>) /\ Turned(<<>>)
<1>1. Elems(<<>>) = {} /\ Len(<<>>) = 0
  BY ShortSeqs
<1> QED BY <1>1 DEF Has, Lone, Plain, Turned

\* What is sealed without compression is plain.
LEMMA SealedPlain ==
  ASSUME NEW t, NEW c, NEW Z, c \notin Z, \A p \in Elems(t) : p.z = (c \in Z)
  PROVE  Plain(t)
<1> SUFFICES ASSUME NEW p \in Elems(t) PROVE p.z = FALSE
  BY DEF Plain
<1>1. p.z = (c \in Z)
  OBVIOUS
<1>2. ~p.z
  BY <1>1
<1>3. p.z \in BOOLEAN
  BY <1>1
<1> QED BY <1>2, <1>3

\* Every step of the server keeps the wires in order.
LEMMA SrvKeepsWires ==
  ASSUME WireInv, SrvStep
  PROVE  WireInv'
<1>0. /\ UNCHANGED <<peer, cState, cSent, msgs, replies, app, wrong>>
      /\ SrvAccepts \/ SrvSkips \/ SrvRefuses \/ SrvGrants \/ SrvEnds \/ SrvServes
  BY SrvWires DEF cliVars, appVars
\* A packet is read, and what is sent is none of success.
<1>1. ASSUME NEW t, Takes(t), ~Has(t, {"success"}), Lone(t, {"success"}),
             Granted <=> Granted', ~Granted => zips' = {} /\ Plain(t), Granted => Turned(t),
             "client in" \in zips' <=> "client in" \in zips, "client out" \in zips' <=> "client out" \in zips,
             srv' = srv \/ (srv \in {"service", "auth"} /\ srv' \in {"auth", "ended"})
                        \/ (srv \in {"init", "done"} /\ srv' = "done"),
             srv = "service" /\ srv' = "auth" => P.kind = "service",
             srv' = "done" /\ Granted' => "server out" \in zips'
      PROVE  WireInv'
  <2>1. /\ IsSeq(c2s') /\ IsSeq(s2c') /\ Elems(c2s') \subseteq Elems(c2s)
        /\ \A K : Has(c2s', K) => Has(c2s, K)
        /\ \A K : P.kind \in K => Has(c2s, K)
        /\ \A K : Lone(c2s, K) => Lone(c2s', K)
        /\ \A K : Lone(c2s, K) /\ P.kind \in K => ~Has(c2s', K)
        /\ peer = "any" => s2c' = <<>> /\ c2s' = <<>>
        /\ \A K : Has(s2c', K) => Has(s2c, K) \/ Has(t, K)
        /\ \A K : Lone(s2c, K) /\ Lone(t, K) /\ (~Has(s2c, K) \/ ~Has(t, K)) => Lone(s2c', K)
        /\ Plain(s2c) /\ Plain(t) => Plain(s2c')
        /\ Turned(s2c) /\ Turned(t) => Turned(s2c')
        /\ peer # "any" => s2c' = s2c \o t
    BY <1>0, <1>1, TakesKeeps
  <2>2. AnyInv'
    BY <1>0, <2>1 DEF WireInv, AnyInv
  <2>3. StartInv'
    <3>1. Has(s2c', {"success"}) => Has(s2c, {"success"})
      BY <1>1, <2>1
    <3>2. Lone(s2c', {"success"})
      BY <1>1, <2>1 DEF WireInv, StartInv
    <3> QED BY <1>0, <1>1, <3>1, <3>2 DEF WireInv, StartInv
  <2>4. FormInv'
    <3>1. ~Granted => Plain(s2c') /\ Plain(c2s')
      BY <1>1, <2>1 DEF WireInv, FormInv, Plain
    <3>2. "client in" \in zips => Turned(s2c')
      <4>1. "client in" \in zips => Granted
        BY DEF WireInv, StartInv
      <4> QED BY <1>1, <2>1, <4>1 DEF WireInv, FormInv
    <3>3. Granted /\ "client in" \notin zips /\ peer # "any" => Turning(s2c')
      BY <1>1, <2>1, TurnAdd DEF WireInv, FormInv, Takes
    <3> QED BY <1>0, <1>1, <3>1, <3>2, <3>3 DEF FormInv
  <2>5. ServiceInv'
    <3> SUFFICES ASSUME peer # "any"
                 PROVE  /\ Has(c2s', {"service"}) => cSent /\ srv' \in {"service", "ended"}
                        /\ ~cSent => srv' \in {"service", "ended"}
                        /\ Lone(c2s', {"service"})
                        /\ Has(c2s', {"other", "reply"}) => srv' \notin {"service", "auth"}
      BY <1>0 DEF ServiceInv
    <3>1. Lone(c2s', {"service"})
      BY <2>1 DEF WireInv, ServiceInv
    <3>2. CASE srv = "service" /\ srv' = "auth"
      <4>1. ~Has(c2s', {"service"}) /\ Has(c2s, {"service"})
        BY <1>1, <2>1, <3>2 DEF WireInv, ServiceInv
      <4> QED BY <2>1, <3>1, <3>2, <4>1 DEF WireInv, ServiceInv
    <3>3. CASE ~(srv = "service" /\ srv' = "auth")
      <4>1. Has(c2s', {"service"}) => Has(c2s, {"service"})
        BY <2>1
      <4>2. Has(c2s', {"other", "reply"}) => Has(c2s, {"other", "reply"})
        BY <2>1
      <4> QED BY <1>1, <3>1, <3>3, <4>1, <4>2 DEF WireInv, ServiceInv
    <3> QED BY <3>2, <3>3
  <2> QED BY <2>1, <2>2, <2>3, <2>4, <2>5 DEF WireInv
\* Without a change of zips.
<1>2. ASSUME NEW t, Takes(t), \A p \in Elems(t) : p.kind # "success", zips' = zips,
             SealedAs(t, "server out" \in zips), srv \in {"service", "auth"}, srv' \in {srv, "auth", "ended"},
             srv = "service" /\ srv' = "auth" => P.kind = "service"
      PROVE  WireInv'
  <2>1. ~Granted /\ zips = {} /\ ~Granted'
    BY <1>2 DEF WireInv, StartInv, Granted
  <2>2. Plain(t) /\ ~Has(t, {"success"})
    <3>1. "server out" \notin zips
      BY <2>1
    <3>2. Plain(t)
      BY <1>2, <3>1, SealedPlain DEF SealedAs
    <3> QED BY <1>2, <3>2 DEF Has
  <2>3. Lone(t, {"success"})
    BY <2>2 DEF Lone, Has, Elems
  <2> QED BY <1>1, <1>2, <2>1, <2>2, <2>3
<1>3. CASE SrvAccepts
  <2>1. PICK t : /\ Takes(t) /\ SealedAs(t, "server out" \in zips)
                 /\ \A p \in Elems(t) : p.kind \in {"accept", "banner"}
    BY <1>3 DEF SrvAccepts
  <2> QED BY <1>2, <1>3, <2>1 DEF SrvAccepts
<1>4. CASE SrvSkips
  <2>1. Takes(<<>>) /\ zips' = zips /\ srv' = srv /\ srv \in {"service", "auth"}
    BY <1>4 DEF SrvSkips
  <2>2. Elems(<<>>) = {}
    BY ShortSeqs
  <2> QED BY <1>2, <2>1, <2>2 DEF SealedAs
<1>5. CASE SrvRefuses
  <2>1. PICK p : Takes(<<p>>) /\ p.kind \in {"failure", "pk_ok", "prompt"} /\ p.z = ("server out" \in zips)
    BY <1>5 DEF SrvRefuses, SrvDecides
  <2>2. Elems(<<p>>) = {p}
    BY ShortSeqs
  <2>3. zips' = zips /\ srv = "auth" /\ srv' = "auth"
    BY <1>5 DEF SrvRefuses, SrvDecides
  <2> QED BY <1>2, <2>1, <2>2, <2>3 DEF SealedAs
<1>6. CASE SrvEnds
  <2>1. CASE srv = "auth" /\ Takes(<<>>)
    <3>1. Elems(<<>>) = {}
      BY ShortSeqs
    <3> QED BY <1>2, <1>6, <2>1, <3>1 DEF SealedAs, SrvEnds
  <2>2. CASE UNCHANGED <<c2s, s2c>>
    BY <1>0, <1>6, <2>2 DEF SrvEnds, WireInv, AnyInv, StartInv, FormInv, ServiceInv, Granted
  <2> QED BY <1>6, <2>1, <2>2 DEF SrvEnds
<1>7. CASE SrvServes
  <2>1. PICK t : /\ Takes(t) /\ SealedAs(t, "server out" \in zips')
                 /\ \A p \in Elems(t) : p.kind = "answer"
    BY <1>7 DEF SrvServes
  <2>2. ~Has(t, {"success"})
    BY <2>1 DEF Has
  <2>3. Lone(t, {"success"})
    BY <2>2 DEF Lone, Has, Elems
  <2>4. /\ srv \in {"init", "done"} /\ srv' = "done"
        /\ zips' = IF Deferred /\ srv = "init" THEN zips \cup {"server out"} ELSE zips
    BY <1>7 DEF SrvServes
  <2>5. /\ Granted <=> Granted'
        /\ "client in" \in zips' <=> "client in" \in zips
        /\ "client out" \in zips' <=> "client out" \in zips
    BY <2>4 DEF Granted
  <2>6. CASE Granted
    <3>1. "server out" \in zips'
      BY <2>4, <2>6 DEF WireInv, StartInv
    <3>2. Turned(t)
      BY <2>1, <3>1 DEF SealedAs, Turned
    <3> QED BY <1>1, <2>1, <2>2, <2>3, <2>4, <2>5, <2>6, <3>1, <3>2
  <2>7. CASE ~Granted
    <3>1. zips' = {}
      BY <2>4, <2>7 DEF WireInv, StartInv
    <3>2. "server out" \notin zips'
      BY <3>1
    <3>3. Plain(t)
      BY <2>1, <3>2, SealedPlain DEF SealedAs
    <3> QED BY <1>1, <2>1, <2>2, <2>3, <2>4, <2>5, <2>7, <3>1, <3>3
  <2> QED BY <2>6, <2>7
<1>8. CASE SrvGrants
  <2>1. PICK p, t : /\ Takes(<<p>> \o t) /\ SealedAs(<<p>> \o t, "server out" \in zips) /\ IsSeq(t)
                    /\ p.kind = "success" /\ \A q \in Elems(t) : q.kind \in Unasked
    BY <1>8 DEF SrvGrants
  <2>2. /\ srv = "auth" /\ srv' = "init" /\ P.kind \in Asks
        /\ zips' = IF Deferred THEN zips \cup {"server in"} ELSE zips
    BY <1>8 DEF SrvGrants
  <2>3. ~Granted /\ zips = {} /\ ~Has(s2c, {"success"}) /\ cState # "done"
    BY <2>2 DEF WireInv, StartInv
  <2> DEFINE w == <<p>> \o t
  <2>4. /\ IsSeq(w) /\ Elems(w) = {p} \cup Elems(t) /\ Turned(t) /\ Lone(w, {"success"})
    BY <2>1, Greeted
  <2>5. Plain(w) /\ p.z = FALSE
    <3>1. "server out" \notin zips
      BY <2>3
    <3>2. Plain(w)
      BY <2>1, <3>1, SealedPlain DEF SealedAs
    <3> QED BY <2>4, <3>2 DEF Plain
  <2>13. Takes(w) /\ (IsSeq(s2c) /\ Plain(s2c) => Turning(s2c \o w))
    BY <2>1, <2>4, <2>5, TurnNew
  <2> HIDE DEF w
  <2>6. /\ IsSeq(c2s') /\ IsSeq(s2c') /\ Elems(c2s') \subseteq Elems(c2s)
        /\ \A K : Has(c2s', K) => Has(c2s, K)
        /\ \A K : Lone(c2s, K) => Lone(c2s', K)
        /\ peer = "any" => s2c' = <<>> /\ c2s' = <<>>
        /\ \A K : Lone(s2c, K) /\ Lone(w, K) /\ (~Has(s2c, K) \/ ~Has(w, K)) => Lone(s2c', K)
        /\ Plain(s2c) /\ Plain(w) => Plain(s2c')
        /\ peer # "any" => s2c' = s2c \o w
    BY <1>0, <2>13, TakesKeeps
  <2>7. Granted' <=> Deferred
    BY <2>2, <2>3 DEF Granted
  <2>8. "client in" \notin zips' /\ "client out" \notin zips' /\ (~Granted' => zips' = {})
    BY <2>2, <2>3, <2>7
  <2>9. AnyInv'
    BY <1>0, <2>6 DEF WireInv, AnyInv
  <2>10. StartInv'
    <3>1. Lone(s2c', {"success"})
      BY <2>3, <2>4, <2>6 DEF WireInv, StartInv
    <3> QED BY <1>0, <2>2, <2>3, <2>7, <2>8, <3>1 DEF StartInv
  <2>11. FormInv'
    <3>1. Plain(s2c) /\ Plain(c2s) /\ Plain(w)
      BY <2>3, <2>5 DEF WireInv, FormInv
    <3>2. Plain(s2c') /\ Plain(c2s')
      BY <2>6, <3>1 DEF Plain
    <3>3. peer # "any" => Turning(s2c')
      BY <2>6, <2>13, <3>1 DEF WireInv
    <3> QED BY <1>0, <2>8, <3>2, <3>3 DEF FormInv
  <2>12. ServiceInv'
    <3> SUFFICES ASSUME peer # "any"
                 PROVE  ~Has(c2s', {"service"}) /\ cSent /\ Lone(c2s', {"service"})
      BY <1>0, <2>2 DEF ServiceInv
    <3>1. ~Has(c2s, {"service"}) /\ cSent /\ Lone(c2s, {"service"})
      BY <2>2 DEF WireInv, ServiceInv
    <3> QED BY <2>6, <3>1
  <2> QED BY <2>6, <2>9, <2>10, <2>11, <2>12 DEF WireInv
<1> QED BY <1>0, <1>3, <1>4, <1>5, <1>6, <1>7, <1>8

\* There is no client session to speak of where any other client is.
LEMMA AnyStays ==
  ASSUME AnyInv, peer = "any", CliStep \/ AppOther \/ ClientStarts
  PROVE  UNCHANGED <<c2s, s2c, zips, msgs, replies, app, wrong, peer>> /\ cState' = "ended"
<1>1. s2c = <<>> /\ msgs = <<>> /\ cState \in {"service", "ended"}
  BY DEF AnyInv
<1>2. ~CliAuthenticate /\ ~CliMessage
  BY <1>1 DEF CliAuthenticate, CliMessage
<1>3. \A states, kinds : ~CliReads(states, kinds)
  BY <1>1 DEF CliReads
<1>4. ~CliAccept /\ ~CliSuccess /\ ~CliFailure /\ ~CliPrompt /\ ~CliPkOk /\ ~CliOther
  BY <1>3 DEF CliAccept, CliSuccess, CliFailure, CliPrompt, CliPkOk, CliOther
<1>5. ~CliRefuses /\ ~AppOther /\ ~ClientStarts
  BY <1>1 DEF CliRefuses, AppOther, ClientStarts
<1>6. CliHangup
  BY <1>2, <1>4, <1>5 DEF CliStep
<1> QED BY <1>6 DEF CliHangup, appVars

\* Every step of the client session keeps the wires in order.
LEMMA CliKeepsWires ==
  ASSUME QueuesOK, WireInv, CliStep \/ AppOther \/ ClientStarts
  PROVE  WireInv'
<1>1. PICK t : CliOnWires(t)
  BY CliWires
<1>2. /\ IsSeq(c2s) /\ IsSeq(s2c) /\ IsSeq(t) /\ c2s' = c2s \o t /\ UNCHANGED <<peer, srv>>
      /\ SealedAs(t, "client out" \in zips)
  BY <1>1 DEF WireInv, CliOnWires, Sends
<1>3. /\ IsSeq(c2s') /\ Elems(c2s') = Elems(c2s) \cup Elems(t)
      /\ \A K : Has(c2s', K) <=> Has(c2s, K) \/ Has(t, K)
      /\ \A K : Lone(c2s, K) /\ Lone(t, K) /\ (~Has(c2s, K) \/ ~Has(t, K)) => Lone(c2s', K)
  BY <1>2, ConcatHas
<1>4. AnyInv'
  <2>1. CASE peer = "any"
    BY <2>1, AnyStays DEF WireInv, AnyInv, Granted
  <2>2. CASE peer # "any"
    BY <1>2, <2>2 DEF AnyInv
  <2> QED BY <2>1, <2>2
<1>5. ServiceInv'
  <2> SUFFICES ASSUME peer # "any"
               PROVE  /\ Has(c2s', {"service"}) => cSent' /\ srv \in {"service", "ended"}
                      /\ ~cSent' => srv \in {"service", "ended"}
                      /\ Lone(c2s', {"service"})
                      /\ Has(c2s', {"other", "reply"}) => srv \notin {"service", "auth"}
    BY <1>2 DEF ServiceInv
  <2>1. /\ Lone(t, {"service"}) /\ (Has(t, {"service"}) => ~cSent /\ cSent')
        /\ Has(t, {"other", "reply"}) => cState = "done"
        /\ cSent => cSent'
    BY <1>1 DEF CliOnWires
  <2>2. Lone(c2s', {"service"})
    BY <1>3, <2>1 DEF WireInv, ServiceInv
  <2>3. Has(c2s', {"other", "reply"}) => srv \notin {"service", "auth"}
    BY <1>3, <2>1 DEF WireInv, ServiceInv, StartInv
  <2> QED BY <1>3, <2>1, <2>2, <2>3 DEF WireInv, ServiceInv
<1>6. ~Granted => Plain(c2s')
  <2> SUFFICES ASSUME ~Granted PROVE Plain(c2s')
    OBVIOUS
  <2>1. "client out" \notin zips /\ Plain(c2s)
    BY DEF WireInv, StartInv, FormInv
  <2>2. Plain(t)
    BY <1>2, <2>1, SealedPlain DEF SealedAs
  <2> QED BY <1>3, <2>1, <2>2 DEF Plain
<1>7. s2c # <<>> =>
        /\ IsSeq(Tail(s2c)) /\ Elems(Tail(s2c)) \subseteq Elems(s2c)
        /\ Has(Tail(s2c), {"success"}) => Has(s2c, {"success"})
        /\ R.kind = "success" => Has(s2c, {"success"}) /\ ~Has(Tail(s2c), {"success"})
        /\ Lone(Tail(s2c), {"success"})
        /\ Plain(s2c) => Plain(Tail(s2c))
        /\ Turned(s2c) => Turned(Tail(s2c))
        /\ Turning(s2c) /\ R.kind # "success" => Turning(Tail(s2c))
        /\ Turning(s2c) /\ R.kind = "success" => Turned(Tail(s2c))
  <2> SUFFICES ASSUME s2c # <<>>
               PROVE  /\ IsSeq(Tail(s2c)) /\ Elems(Tail(s2c)) \subseteq Elems(s2c)
                      /\ Has(Tail(s2c), {"success"}) => Has(s2c, {"success"})
                      /\ R.kind = "success" => Has(s2c, {"success"}) /\ ~Has(Tail(s2c), {"success"})
                      /\ Lone(Tail(s2c), {"success"})
                      /\ Plain(s2c) => Plain(Tail(s2c))
                      /\ Turned(s2c) => Turned(Tail(s2c))
                      /\ Turning(s2c) /\ R.kind # "success" => Turning(Tail(s2c))
                      /\ Turning(s2c) /\ R.kind = "success" => Turned(Tail(s2c))
    OBVIOUS
  <2>1. Lone(s2c, {"success"})
    BY DEF WireInv, StartInv
  <2>2. /\ IsSeq(Tail(s2c)) /\ Elems(s2c) = Elems(Tail(s2c)) \cup {R}
        /\ \A K : Has(Tail(s2c), K) => Has(s2c, K)
        /\ \A K : R.kind \in K => Has(s2c, K)
        /\ \A K : Lone(s2c, K) => Lone(Tail(s2c), K)
        /\ \A K : Lone(s2c, K) /\ R.kind \in K => ~Has(Tail(s2c), K)
    BY <1>2, TailHas DEF R
  <2>3. /\ Turning(s2c) /\ R.kind # "success" => Turning(Tail(s2c))
        /\ Turning(s2c) /\ R.kind = "success" => Turned(Tail(s2c))
    BY <1>2, <2>1, TurnTail DEF R
  <2>4. /\ Plain(s2c) => Plain(Tail(s2c))
        /\ Turned(s2c) => Turned(Tail(s2c))
    BY <2>2 DEF Plain, Turned
  <2>5. R.kind = "success" => Has(s2c, {"success"}) /\ ~Has(Tail(s2c), {"success"})
    BY <2>1, <2>2
  <2> QED BY <2>1, <2>2, <2>3, <2>4, <2>5
<1>8. CASE s2c' = s2c /\ zips' = zips /\ (cState' = "done" => cState = "done")
  <2>1. StartInv'
    BY <1>2, <1>8 DEF WireInv, StartInv, Granted
  <2>2. FormInv'
    BY <1>2, <1>6, <1>8 DEF WireInv, FormInv, Granted
  <2> QED BY <1>2, <1>3, <1>4, <1>5, <1>8, <2>1, <2>2 DEF WireInv
<1>9. CASE /\ s2c # <<>> /\ s2c' = Tail(s2c) /\ zips' = zips
           /\ (cState' = "done" => cState = "done") /\ (R.kind = "success" => cState = "done")
  <2>1. StartInv'
    BY <1>2, <1>7, <1>9 DEF WireInv, StartInv, Granted
  <2>2. FormInv'
    <3>1. ~Granted => Plain(s2c')
      BY <1>7, <1>9 DEF WireInv, FormInv
    <3>2. "client in" \in zips => Turned(s2c')
      BY <1>7, <1>9 DEF WireInv, FormInv
    <3>3. Granted /\ "client in" \notin zips /\ peer # "any" => Turning(s2c')
      <4>1. Granted /\ R.kind = "success" => "client in" \in zips
        BY <1>9 DEF WireInv, StartInv
      <4> QED BY <1>7, <1>9, <4>1 DEF WireInv, FormInv
    <3> QED BY <1>2, <1>6, <1>9, <3>1, <3>2, <3>3 DEF FormInv, Granted
  <2> QED BY <1>2, <1>3, <1>4, <1>5, <1>7, <1>9, <2>1, <2>2 DEF WireInv
<1>10. CASE /\ s2c # <<>> /\ s2c' = Tail(s2c) /\ R.kind = "success"
            /\ zips' = IF Deferred THEN zips \cup {"client in", "client out"} ELSE zips
  <2>1. Has(s2c, {"success"}) /\ ~Has(s2c', {"success"}) /\ Lone(s2c', {"success"})
    BY <1>7, <1>10
  <2>2. srv \notin {"service", "auth"} /\ (Deferred <=> Granted)
    BY <2>1 DEF WireInv, StartInv
  <2>3. Granted' <=> Granted
    BY <1>10 DEF Granted
  <2>4. StartInv'
    BY <1>2, <1>10, <2>1, <2>2, <2>3 DEF WireInv, StartInv
  <2>5. FormInv'
    <3>1. ~Granted => Plain(s2c')
      BY <1>7, <1>10 DEF WireInv, FormInv
    <3>2. Granted /\ peer # "any" => Turned(s2c')
      BY <1>7, <1>10 DEF WireInv, FormInv
    <3>3. peer # "any"
      BY <1>10 DEF WireInv, AnyInv
    <3>4. "client in" \in zips' <=> Granted
      BY <1>10, <2>2 DEF WireInv, StartInv
    <3> QED BY <1>2, <1>6, <2>3, <3>1, <3>2, <3>3, <3>4 DEF FormInv
  <2> QED BY <1>2, <1>3, <1>4, <1>5, <1>7, <1>10, <2>4, <2>5 DEF WireInv
<1> QED BY <1>1, <1>8, <1>9, <1>10 DEF CliOnWires

\* So does every other step.
LEMMA OthersKeepWires ==
  ASSUME WireInv, AppStep \/ AppCall \/ AppGivesUp \/ PeerSends \/ ServerStarts
  PROVE  WireInv'
<1> USE DEF Granted
<1>1. CASE AppStep \/ AppCall \/ AppGivesUp
  <2>1. UNCHANGED <<peer, c2s, s2c, srv, cState, cSent, zips>>
    BY <1>1 DEF AppStep, AppReply, AppSessionEnded, AppProvide, AppCall, AppGivesUp, Sessions, srvVars, cliVars
  <2>2. AnyInv'
    <3> SUFFICES ASSUME peer = "any" PROVE UNCHANGED <<msgs, replies, app, wrong>>
      BY <2>1 DEF WireInv, AnyInv
    <3>1. app = "idle" /\ replies = <<>>
      BY DEF WireInv, AnyInv
    <3>2. ~AppReply /\ ~AppSessionEnded /\ ~AppProvide /\ ~AppCall /\ ~AppGivesUp
      BY <3>1 DEF AppReply, AppSessionEnded, AppProvide, AppCall, AppGivesUp
    <3> QED BY <1>1, <3>2 DEF AppStep
  <2> QED BY <2>1, <2>2 DEF WireInv, StartInv, FormInv, ServiceInv
<1>2. CASE PeerSends
  <2>1. UNCHANGED <<peer, s2c, srv, cState, cSent, zips, msgs, replies, app, wrong>>
        /\ peer = "any" /\ srv \in {"service", "auth"}
    BY <1>2 DEF PeerSends, srvVars, cliVars
  <2>2. PICK p : c2s' = <<p>> /\ p.z = FALSE
    BY <1>2 DEF PeerSends
  <2>3. IsSeq(<<p>>) /\ Elems(<<p>>) = {p}
    BY ShortSeqs
  <2>4. ~Granted
    BY <2>1 DEF WireInv, StartInv
  <2>5. Plain(c2s')
    BY <2>2, <2>3 DEF Plain
  <2>6. AnyInv'
    BY <2>1, <2>2, <2>4 DEF WireInv, AnyInv
  <2>7. StartInv' /\ ServiceInv'
    BY <2>1 DEF WireInv, StartInv, ServiceInv
  <2>8. FormInv'
    BY <2>1, <2>4, <2>5 DEF WireInv, FormInv
  <2> QED BY <2>1, <2>2, <2>3, <2>6, <2>7, <2>8 DEF WireInv
<1>3. CASE ServerStarts
  <2>1. UNCHANGED <<peer, c2s, srv, cState, cSent, zips, msgs, replies, app, wrong>> /\ peer # "any"
    BY <1>3 DEF ServerStarts, srvVars, cliVars, appVars
  <2>2. PICK p : s2c' = Append(s2c, p) /\ p.kind \in Unasked /\ p.z = ("server out" \in zips)
    BY <1>3, StartsOne
  <2>3. s2c' = s2c \o <<p>> /\ IsSeq(s2c)
    <3>1. PICK S : s2c \in Seq(S)
      BY DEF WireInv, IsSeq
    <3>2. s2c \in Seq(S \cup {p}) /\ p \in S \cup {p}
      BY <3>1
    <3>3. Append(s2c, p) = s2c \o <<p>>
      BY <3>2, AppendIsConcat
    <3> QED BY <2>2, <3>1, <3>3 DEF IsSeq
  <2>4. /\ IsSeq(<<p>>) /\ Elems(<<p>>) = {p}
        /\ \A K : Lone(<<p>>, K) /\ (Has(<<p>>, K) <=> p.kind \in K)
    BY ShortSeqs, SingleHas
  <2>5. /\ IsSeq(s2c') /\ Elems(s2c') = Elems(s2c) \cup {p}
        /\ \A K : Has(s2c', K) <=> Has(s2c, K) \/ p.kind \in K
        /\ \A K : Lone(s2c, K) /\ p.kind \notin K => Lone(s2c', K)
    BY <2>3, <2>4, ConcatHas
  <2>6. (Has(s2c', {"success"}) <=> Has(s2c, {"success"})) /\ Lone(s2c', {"success"})
    BY <2>2, <2>5 DEF WireInv, StartInv, Unasked
  <2>7. StartInv' /\ ServiceInv' /\ AnyInv'
    BY <2>1, <2>6 DEF WireInv, StartInv, ServiceInv, AnyInv
  <2>8. FormInv'
    <3>1. ~Granted => Plain(s2c')
      <4> SUFFICES ASSUME ~Granted PROVE Plain(s2c')
        OBVIOUS
      <4>1. "server out" \notin zips /\ Plain(s2c)
        BY DEF WireInv, StartInv, FormInv
      <4>2. \A q \in Elems(<<p>>) : q.z = ("server out" \in zips)
        BY <2>2, <2>4
      <4>3. Plain(<<p>>)
        BY <4>1, <4>2, SealedPlain
      <4> QED BY <2>4, <2>5, <4>1, <4>3 DEF Plain
    <3>2. Turned(<<p>>) /\ (Turned(s2c) => Turned(s2c'))
      BY <2>2, <2>4, <2>5 DEF Turned
    <3>3. Turning(s2c) => Turning(s2c')
      BY <2>3, <2>4, <3>2, TurnAdd
    <3> QED BY <2>1, <3>1, <3>2, <3>3 DEF WireInv, FormInv
  <2> QED BY <2>1, <2>5, <2>7, <2>8 DEF WireInv
<1> QED BY <1>1, <1>2, <1>3
-----------------------------------------------------------------------------
(* A call and the one thing that stands for it. *)

\* Where the running call may be: a message of its Handle, a request that the
\* session keeps until the service is accepted, a request on its way to the
\* server, the verdict on its way back, a reply to the Handle, or a question to
\* the application.
InMsgs == msgs # <<>>
Held == cHas /\ cState = "service"
Asked == Has(c2s, Asks)
Told == Has(s2c, Verdicts)
Replied == replies # <<>>
AtApp == app \in {"prompted", "signing"}
Starting == InMsgs /\ Head(msgs).kind = "authenticate"

\* It is at one place at most, and at none when no call is running, unless the
\* session has ended.
Alone ==
  /\ InMsgs => ~Held /\ ~Asked /\ ~Told /\ ~Replied /\ ~AtApp
  /\ Held => ~Asked /\ ~Told /\ ~Replied /\ ~AtApp
  /\ Asked => ~Told /\ ~Replied /\ ~AtApp
  /\ Told => ~Replied /\ ~AtApp
  /\ Replied => ~AtApp
Idle ==
  app = "idle" => cState = "ended" \/ ~(InMsgs \/ Held \/ Asked \/ Told \/ Replied \/ AtApp)

\* It is there once.
Single(s) == s = <<>> \/ \E m : s = <<m>>
Once == Single(msgs) /\ Single(replies) /\ Lone(c2s, Asks) /\ Lone(s2c, Verdicts)

\* What stands for it carries its number.
Numbered ==
  /\ \A p \in Elems(c2s) : p.kind \in Asks => p.call = call.call
  /\ \A p \in Elems(s2c) : p.kind \in Verdicts => p.call = call.call
  /\ Starting => Head(msgs).req.call = call.call
  /\ Replied => Head(replies).call = call.call
  /\ Held \/ Asked \/ Told \/ Replied \/ AtApp \/ (InMsgs /\ ~Starting) => cReq.call = call.call

\* As long as no call was abandoned; and then the client sends nothing that is
\* not compressed once it was granted.
Calm == Alone /\ Idle /\ Once /\ Numbered /\ ~wrong /\ (Granted => Turned(c2s))
CallInv == peer # "any" /\ ~spoiled => Calm

\* Short queues.
LEMMA ShortQueue ==
  /\ Single(<<>>)
  /\ \A m : /\ Single(<<m>>) /\ <<m>> # <<>> /\ Head(<<m>>) = m /\ Tail(<<m>>) = <<>>
            /\ Append(<<>>, m) = <<m>>
<1>1. Single(<<>>)
  BY DEF Single
<1>2. ASSUME NEW m
      PROVE  /\ Single(<<m>>) /\ <<m>> # <<>> /\ Head(<<m>>) = m /\ Tail(<<m>>) = <<>>
             /\ Append(<<>>, m) = <<m>>
  <2>1. <<m>> # <<>> /\ Head(<<m>>) = m /\ Tail(<<m>>) = <<>>
    OBVIOUS
  <2>2. Append(<<>>, m) = <<m>>
    OBVIOUS
  <2>3. Single(<<m>>)
    BY DEF Single
  <2> QED BY <2>1, <2>2, <2>3
<1> QED BY <1>1, <1>2

\* A short queue that is read is empty.
LEMMA ReadQueue == ASSUME NEW s, Single(s), s # <<>> PROVE Tail(s) = <<>> /\ \E m : s = <<m>>
BY ShortQueue DEF Single

\* Every step of the server leaves the call at one place.
LEMMA SrvKeepsCall ==
  ASSUME QueuesOK, WireInv, CallInv, SrvStep
  PROVE  CallInv'
<1> SUFFICES ASSUME peer' # "any", ~spoiled' PROVE CallInv'
  BY DEF CallInv, Calm
<1>0. /\ UNCHANGED <<peer, cState, cHas, cReq, msgs, replies, app, call, wrong, spoiled>>
      /\ SrvAccepts \/ SrvSkips \/ SrvRefuses \/ SrvGrants \/ SrvEnds \/ SrvServes
  BY SrvWires DEF cliVars, appVars
<1>1. /\ peer # "any" /\ Alone /\ Idle /\ Once /\ Numbered /\ ~wrong /\ (Granted => Turned(c2s))
  BY <1>0 DEF CallInv, Calm
\* What it takes.
<1>2. ASSUME Lone(c2s', Asks), Lone(s2c', Verdicts), Asked' => Asked, Told' => Told \/ (Asked /\ ~Asked'),
             \A p \in Elems(c2s') : p.kind \in Asks => p.call = call.call,
             \A p \in Elems(s2c') : p.kind \in Verdicts => p.call = call.call,
             Granted' => Turned(c2s')
      PROVE  CallInv'
  <2>1. /\ (InMsgs' <=> InMsgs) /\ (Held' <=> Held) /\ (Replied' <=> Replied) /\ (AtApp' <=> AtApp)
        /\ (Starting' <=> Starting)
    BY <1>0 DEF InMsgs, Held, Replied, AtApp, Starting
  <2>2. Alone' /\ Idle'
    BY <1>0, <1>1, <1>2, <2>1 DEF Alone, Idle
  <2>3. Once'
    BY <1>0, <1>1, <1>2 DEF Once
  <2>4. Numbered'
    BY <1>0, <1>1, <1>2, <2>1 DEF Numbered
  <2> QED BY <1>0, <1>1, <1>2, <2>2, <2>3, <2>4 DEF CallInv, Calm
\* A packet that is read, and an answer to it or none.
<1>3. ASSUME NEW t, Takes(t), Lone(t, Verdicts), Has(t, Verdicts) => P.kind \in Asks,
             \A p \in Elems(t) : p.kind \in Verdicts => p.call = P.call,
             Granted' => Turned(c2s')
      PROVE  CallInv'
  <2>1. /\ P \in Elems(c2s) /\ Elems(c2s') \subseteq Elems(c2s)
        /\ \A K : Has(c2s', K) => Has(c2s, K)
        /\ \A K : P.kind \in K => Has(c2s, K)
        /\ \A K : Lone(c2s, K) => Lone(c2s', K)
        /\ \A K : Lone(c2s, K) /\ P.kind \in K => ~Has(c2s', K)
        /\ \A K : Has(s2c', K) => Has(s2c, K) \/ Has(t, K)
        /\ \A K : Lone(s2c, K) /\ Lone(t, K) /\ (~Has(s2c, K) \/ ~Has(t, K)) => Lone(s2c', K)
        /\ s2c' = s2c \o t
    BY <1>0, <1>1, <1>3, TakesKeeps
  <2>2. Elems(s2c') = Elems(s2c) \cup Elems(t)
    BY <1>3, <2>1, ConcatHas DEF Takes, WireInv
  <2>3. Lone(c2s', Asks) /\ (Asked' => Asked)
    BY <1>1, <2>1 DEF Once, Asked
  <2>4. Has(t, Verdicts) => Asked /\ ~Asked' /\ ~Told
    BY <1>1, <1>3, <2>1 DEF Once, Asked, Alone
  <2>5. Lone(s2c', Verdicts) /\ (Told' => Told \/ (Asked /\ ~Asked'))
    BY <1>1, <1>3, <2>1, <2>4 DEF Once, Told
  <2>6. \A p \in Elems(c2s') : p.kind \in Asks => p.call = call.call
    BY <1>1, <2>1 DEF Numbered
  <2>7. ASSUME NEW p \in Elems(s2c'), p.kind \in Verdicts PROVE p.call = call.call
    <3>1. CASE p \in Elems(s2c)
      BY <1>1, <2>7, <3>1 DEF Numbered
    <3>2. CASE p \in Elems(t)
      <4>1. p.call = P.call /\ Has(t, Verdicts)
        BY <1>3, <2>7, <3>2 DEF Has
      <4>2. P.call = call.call
        BY <1>1, <1>3, <2>1, <4>1 DEF Numbered
      <4> QED BY <4>1, <4>2
    <3> QED BY <2>2, <3>1, <3>2
  <2> QED BY <1>2, <1>3, <2>3, <2>5, <2>6, <2>7
\* What is left of the requests after a packet was read.
<1>4. ASSUME NEW t, Takes(t), Granted PROVE Turned(c2s')
  <2>1. Elems(c2s') \subseteq Elems(c2s)
    BY <1>0, <1>4, TakesKeeps
  <2> QED BY <1>1, <1>4, <2>1 DEF Turned
<1>5. CASE SrvAccepts \/ SrvServes
  <2>1. PICK t : Takes(t) /\ \A p \in Elems(t) : p.kind \notin Verdicts
    BY <1>5 DEF SrvAccepts, SrvServes, Verdicts
  <2>2. Granted' => Granted
    <3>1. zips' = zips \/ zips' = zips \cup {"server out"}
      BY <1>5 DEF SrvAccepts, SrvServes
    <3>2. \A c \in zips' : c \in zips \/ c = "server out"
      BY <3>1
    <3> QED BY <3>2 DEF Granted
  <2>3. ~Has(t, Verdicts)
    BY <2>1 DEF Has
  <2>4. Lone(t, Verdicts)
    BY <2>3 DEF Lone, Has, Elems
  <2> QED BY <1>3, <1>4, <2>1, <2>2, <2>3, <2>4
<1>6. CASE SrvSkips
  <2>1. Takes(<<>>) /\ zips' = zips
    BY <1>6 DEF SrvSkips
  <2>2. ~Has(<<>>, Verdicts) /\ Lone(<<>>, Verdicts) /\ Elems(<<>>) = {}
    BY NothingHas, ShortSeqs
  <2>3. Granted' => Granted
    BY <2>1 DEF Granted
  <2> QED BY <1>3, <1>4, <2>1, <2>2, <2>3
<1>7. CASE SrvEnds
  <2>1. Granted' => Granted
    BY <1>7 DEF SrvEnds, Granted
  <2>2. CASE Takes(<<>>)
    <3>1. ~Has(<<>>, Verdicts) /\ Lone(<<>>, Verdicts) /\ Elems(<<>>) = {}
      BY NothingHas, ShortSeqs
    <3> QED BY <1>3, <1>4, <2>1, <2>2, <3>1
  <2>3. CASE UNCHANGED <<c2s, s2c>>
    <3>1. (Asked' <=> Asked) /\ (Told' <=> Told)
      BY <2>3 DEF Asked, Told
    <3> QED BY <1>1, <1>2, <2>1, <2>3, <3>1 DEF Once, Numbered
  <2> QED BY <1>7, <2>2, <2>3 DEF SrvEnds
<1>8. CASE SrvRefuses \/ SrvGrants
  <2>1. PICK w : /\ Takes(w) /\ Lone(w, Verdicts)
                 /\ \A p \in Elems(w) : p.kind \in Verdicts => p.call = P.call
    <3>1. CASE SrvRefuses
      <4>1. PICK p : Takes(<<p>>) /\ p.call = P.call
        BY <3>1 DEF SrvRefuses, SrvDecides
      <4>2. Lone(<<p>>, Verdicts) /\ Elems(<<p>>) = {p}
        BY ShortSeqs, SingleHas
      <4> QED BY <4>1, <4>2
    <3>2. CASE SrvGrants
      <4>1. PICK p, t : /\ Takes(<<p>> \o t) /\ IsSeq(t) /\ p.kind = "success" /\ p.call = P.call
                        /\ \A q \in Elems(t) : q.kind \in Unasked
        BY <3>2 DEF SrvGrants
      <4>2. Elems(<<p>> \o t) = {p} \cup Elems(t) /\ Lone(<<p>> \o t, Verdicts)
        BY <4>1, Greeted
      <4>3. \A q \in Elems(t) : q.kind \notin Verdicts
        BY <4>1 DEF Verdicts, Unasked
      <4> QED BY <4>1, <4>2, <4>3
    <3> QED BY <1>8, <3>1, <3>2
  <2>2. P.kind \in Asks /\ srv = "auth"
    BY <1>8 DEF SrvRefuses, SrvGrants, SrvDecides
  <2>4. Turned(c2s')
    <3> SUFFICES ASSUME NEW q \in Elems(c2s') PROVE q.kind = "global"
      BY DEF Turned, Unasked
    <3>1. /\ Elems(c2s') \subseteq Elems(c2s) /\ ~Has(c2s', Asks)
          /\ Has(c2s', {"service"}) => Has(c2s, {"service"})
          /\ Has(c2s', {"other", "reply"}) => Has(c2s, {"other", "reply"})
      BY <1>0, <1>1, <2>1, <2>2, TakesKeeps DEF Once
    <3>2. ~Has(c2s', {"service"}) /\ ~Has(c2s', {"other", "reply"})
      BY <1>1, <2>2, <3>1 DEF WireInv, ServiceInv
    <3>3. q.kind \in ClientKinds
      <4>1. q \in Elems(c2s) /\ c2s \in Seq(Sendable)
        BY <3>1 DEF QueuesOK
      <4>2. q \in Sendable
        BY <4>1 DEF Elems
      <4> QED BY <4>2 DEF Sendable, ClientPacket
    <3>4. q.kind \notin Asks /\ q.kind # "service" /\ q.kind # "other" /\ q.kind # "reply"
      BY <3>1, <3>2 DEF Has
    <3> QED BY <3>3, <3>4 DEF ClientKinds, Asks
  <2> QED BY <1>3, <2>1, <2>2, <2>4
<1> QED BY <1>0, <1>5, <1>6, <1>7, <1>8

\* The two wires' share of it.
AsksInOrder ==
  /\ Lone(c2s, Asks) /\ \A p \in Elems(c2s) : p.kind \in Asks => p.call = call.call
  /\ Granted => Turned(c2s)
VerdictsInOrder ==
  Lone(s2c, Verdicts) /\ \A p \in Elems(s2c) : p.kind \in Verdicts => p.call = call.call

LEMMA CalmWires == ASSUME Calm PROVE AsksInOrder /\ VerdictsInOrder
BY DEF Calm, Once, Numbered, AsksInOrder, VerdictsInOrder

\* A client that has not been told of the grant, and will not be, compresses.
LEMMA GrantSeen ==
  ASSUME WireInv, peer # "any", Granted,
         ~Told \/ (VerdictsInOrder /\ s2c # <<>> /\ R.kind \in Verdicts \ {"success"})
  PROVE  "client out" \in zips
<1>1. ~Has(s2c, {"success"})
  <2>1. CASE ~Told
    BY <2>1 DEF Told, Has, Verdicts
  <2>2. CASE VerdictsInOrder /\ s2c # <<>> /\ R.kind \in Verdicts \ {"success"}
    <3>1. ~Has(Tail(s2c), Verdicts) /\ (Has(s2c, {"success"}) => Has(Tail(s2c), {"success"}))
      BY <2>2, TailHas DEF WireInv, VerdictsInOrder, R
    <3> QED BY <3>1 DEF Has, Verdicts
  <2> QED BY <2>1, <2>2
<1>2. ~Turning(s2c)
  BY <1>1, TurnTail DEF WireInv
<1> QED BY <1>2 DEF WireInv, FormInv, StartInv

\* A wire that a step leaves alone.
LEMMA QuietAsks ==
  ASSUME AsksInOrder, UNCHANGED <<c2s, call>>, Granted' => Granted
  PROVE  AsksInOrder' /\ (Asked' <=> Asked)
BY DEF AsksInOrder, Asked
LEMMA QuietVerdicts ==
  ASSUME VerdictsInOrder, UNCHANGED <<s2c, call>>
  PROVE  VerdictsInOrder' /\ (Told' <=> Told)
BY DEF VerdictsInOrder, Told

\* Sending t.
LEMMA SendsAsks ==
  ASSUME WireInv, AsksInOrder, UNCHANGED <<zips, call>>, NEW t, Sends(t),
         Lone(t, Asks), ~Asked \/ ~Has(t, Asks), Granted => Turned(t),
         \A p \in Elems(t) : p.kind \in Asks => p.call = call.call
  PROVE  AsksInOrder' /\ (Asked' <=> Asked \/ Has(t, Asks))
<1>1. /\ Elems(c2s') = Elems(c2s) \cup Elems(t)
      /\ (Has(c2s', Asks) <=> Has(c2s, Asks) \/ Has(t, Asks))
      /\ Lone(c2s, Asks) /\ (~Has(c2s, Asks) \/ ~Has(t, Asks)) => Lone(c2s', Asks)
  BY ConcatHas DEF WireInv, Sends
<1>2. Lone(c2s', Asks) /\ (Asked' <=> Asked \/ Has(t, Asks))
  BY <1>1 DEF AsksInOrder, Asked
<1>3. \A p \in Elems(c2s') : p.kind \in Asks => p.call = call'.call
  BY <1>1 DEF AsksInOrder
<1>4. Granted' => Turned(c2s')
  <2>1. Granted' <=> Granted
    BY DEF Granted
  <2>2. Turned(c2s) /\ Turned(t) => Turned(c2s')
    BY <1>1 DEF Turned
  <2> QED BY <2>1, <2>2 DEF AsksInOrder
<1> QED BY <1>2, <1>3, <1>4 DEF AsksInOrder

\* Sending one packet.
LEMMA SendsPacket ==
  ASSUME WireInv, AsksInOrder, UNCHANGED <<zips, call>>, NEW p, c2s' = c2s \o <<p>>,
         p.z = ("client out" \in zips), p.kind \in Asks => ~Asked /\ p.call = call.call,
         Granted => "client out" \in zips \/ p.kind \in Unasked
  PROVE  AsksInOrder' /\ (Asked' <=> Asked \/ p.kind \in Asks)
<1>1. /\ IsSeq(<<p>>) /\ Elems(<<p>>) = {p} /\ Lone(<<p>>, Asks)
      /\ (Has(<<p>>, Asks) <=> p.kind \in Asks)
  BY ShortSeqs, SingleHas
<1>2. Sends(<<p>>)
  BY <1>1 DEF Sends, SealedAs
<1>3. Granted => Turned(<<p>>)
  <2> SUFFICES ASSUME Granted PROVE p.z = TRUE \/ p.kind \in Unasked
    BY <1>1 DEF Turned
  <2>1. "client out" \in zips => p.z = TRUE
    OBVIOUS
  <2> QED BY <2>1
<1> QED BY <1>1, <1>2, <1>3, SendsAsks

\* The same for what Packet builds.
LEMMA SendsKind ==
  ASSUME WireInv, AsksInOrder, UNCHANGED <<zips, call>>, NEW kind, NEW req,
         Send(<<Packet(kind, req, TRUE)>>), kind \in Asks => ~Asked /\ req.call = call.call,
         Granted => "client out" \in zips \/ kind \in Unasked
  PROVE  AsksInOrder' /\ (Asked' <=> Asked \/ kind \in Asks)
<1> DEFINE p == Packet(kind, req, TRUE)
<1>1. p.kind = kind /\ p.call = req.call /\ p.z = ("client out" \in zips)
  BY PacketIs
<1>2. c2s' = c2s \o <<p>>
  BY DEF Send
<1> HIDE DEF p
<1> QED BY <1>1, <1>2, SendsPacket

\* Reading a packet of the server.
LEMMA ReadsVerdicts ==
  ASSUME WireInv, VerdictsInOrder, s2c # <<>>, s2c' = Tail(s2c), UNCHANGED call
  PROVE  /\ VerdictsInOrder' /\ (Told' => Told)
         /\ R.kind \in Verdicts => Told /\ ~Told' /\ R.call = call.call
<1>1. /\ R \in Elems(s2c) /\ Elems(s2c') \subseteq Elems(s2c)
      /\ Has(s2c', Verdicts) => Has(s2c, Verdicts)
      /\ R.kind \in Verdicts => Has(s2c, Verdicts)
      /\ Lone(s2c, Verdicts) => Lone(s2c', Verdicts)
      /\ Lone(s2c, Verdicts) /\ R.kind \in Verdicts => ~Has(s2c', Verdicts)
  BY TailHas DEF WireInv, R
<1> QED BY <1>1 DEF VerdictsInOrder, Told

\* What Tell leaves in an empty queue.
LEMMA TellsOne ==
  ASSUME NEW kind, Tell(kind), replies = <<>>
  PROVE  Single(replies') /\ Replied' /\ Head(replies').call = R.call
<1> DEFINE r == [kind |-> kind, call |-> R.call]
<1>1. r.call = R.call
  OBVIOUS
<1>2. replies' = Append(<<>>, r)
  BY DEF Tell
<1> HIDE DEF r
<1>3. replies' = <<r>>
  BY <1>2, ShortQueue
<1> QED BY <1>1, <1>3, ShortQueue DEF Replied

\* Every step of the client session leaves the call at one place, or loses it.
LEMMA CliKeepsCall ==
  ASSUME QueuesOK, WireInv, CallInv, CliStep \/ AppOther \/ ClientStarts
  PROVE  CallInv'
<1> SUFFICES ASSUME peer' # "any", ~spoiled' PROVE Calm'
  BY DEF CallInv
<1>0. UNCHANGED <<peer, app, call, wrong, spoiled>>
  <2>1. CliStep => UNCHANGED <<peer, app, call, wrong, spoiled>>
    BY DEF CliStep, CliAuthenticate, CliAccept, CliSuccess, CliFailure, CliPrompt, CliPkOk, CliOther,
           CliRefuses, CliMessage, CliHangup, CliReads, appVars
  <2>2. AppOther \/ ClientStarts => UNCHANGED <<peer, app, call, wrong, spoiled>>
    BY DEF AppOther, ClientStarts, appVars
  <2> QED BY <2>1, <2>2
<1>1. peer # "any" /\ Calm /\ AsksInOrder /\ VerdictsInOrder
  BY <1>0, CalmWires DEF CallInv
<1>2. AtApp' <=> AtApp
  BY <1>0 DEF AtApp
<1>3. call' = call /\ ~wrong'
  BY <1>0, <1>1 DEF Calm
<1>4. Granted /\ cState = "done" => "client out" \in zips
  BY DEF WireInv, StartInv
\* The call stays where it was, or is lost.
<1>5. ASSUME AsksInOrder', VerdictsInOrder', msgs' = msgs \/ msgs' = <<>>, replies' = replies, cReq' = cReq,
             cState # "ended", Held' => Held, Asked' => Asked, Told' => Told
      PROVE  Calm'
  <2>1. (InMsgs' => InMsgs /\ msgs' = msgs) /\ (Replied' <=> Replied) /\ (Starting' => Starting /\ msgs' = msgs)
    BY <1>5 DEF InMsgs, Replied, Starting
  <2>2. InMsgs' /\ ~Starting' => InMsgs /\ ~Starting
    BY <2>1 DEF Starting
  <2>3. Alone' /\ Idle'
    BY <1>0, <1>1, <1>2, <1>5, <2>1 DEF Calm, Alone, Idle
  <2>4. Single(<<>>)
    BY ShortQueue
  <2>5. Once'
    BY <1>1, <1>5, <2>4 DEF Calm, Once, AsksInOrder, VerdictsInOrder
  <2>6. Numbered'
    <3>1. Starting' => Head(msgs').req.call = call'.call
      BY <1>1, <1>3, <1>5, <2>1 DEF Calm, Numbered
    <3>2. Replied' => Head(replies').call = call'.call
      BY <1>1, <1>3, <1>5, <2>1 DEF Calm, Numbered
    <3>3. Held' \/ Asked' \/ Told' \/ Replied' \/ AtApp' \/ (InMsgs' /\ ~Starting') => cReq'.call = call'.call
      BY <1>1, <1>2, <1>3, <1>5, <2>1, <2>2 DEF Calm, Numbered
    <3> QED BY <1>5, <3>1, <3>2, <3>3 DEF Numbered, AsksInOrder, VerdictsInOrder
  <2> QED BY <1>3, <1>5, <2>3, <2>5, <2>6 DEF Calm, AsksInOrder
\* A verdict is passed on to the Handle.
<1>6. ASSUME s2c # <<>>, s2c' = Tail(s2c), R.kind \in Verdicts, NEW kind, Tell(kind),
             UNCHANGED <<c2s, msgs, cReq>>, Granted' => Granted, cState = "auth", cState' # "service"
      PROVE  Calm'
  <2>1. AsksInOrder' /\ (Asked' <=> Asked)
    BY <1>1, <1>3, <1>6, QuietAsks
  <2>2. VerdictsInOrder' /\ Told /\ ~Told' /\ R.call = call.call
    BY <1>1, <1>3, <1>6, ReadsVerdicts
  <2>3. ~InMsgs /\ ~Held /\ ~Asked /\ ~Replied /\ ~AtApp
    BY <1>1, <2>2 DEF Calm, Alone
  <2>4. ~InMsgs' /\ ~Held' /\ ~Asked' /\ ~AtApp' /\ ~Starting'
    BY <1>2, <1>6, <2>1, <2>3 DEF InMsgs, Held, Starting
  <2>5. Single(replies') /\ Replied' /\ Head(replies').call = call.call
    BY <1>6, <2>2, <2>3, TellsOne DEF Replied
  <2>6. Alone'
    BY <2>2, <2>4 DEF Alone
  <2>7. Idle'
    BY <1>0, <1>1, <1>6, <2>2 DEF Calm, Idle
  <2>8. Once'
    BY <1>1, <1>6, <2>1, <2>2, <2>5 DEF Calm, Once, AsksInOrder, VerdictsInOrder
  <2>9. cReq'.call = call'.call
    BY <1>1, <1>3, <1>6, <2>2 DEF Calm, Numbered
  <2>10. Numbered'
    BY <1>3, <2>1, <2>2, <2>4, <2>5, <2>9 DEF Numbered, AsksInOrder, VerdictsInOrder
  <2> QED BY <1>3, <2>1, <2>6, <2>7, <2>8, <2>10 DEF Calm, AsksInOrder
\* A request goes out, or is kept.
<1>7. ASSUME AsksInOrder', VerdictsInOrder', msgs' = <<>>, replies' = replies, ~Replied, ~Told', ~AtApp,
             ~(Asked' /\ Held'), cReq'.call = call.call, app # "idle"
      PROVE  Calm'
  <2>1. ~InMsgs' /\ ~Replied' /\ ~Starting' /\ ~AtApp'
    BY <1>2, <1>7 DEF InMsgs, Replied, Starting
  <2>2. Alone' /\ Idle'
    BY <1>0, <1>7, <2>1 DEF Alone, Idle
  <2>3. Single(msgs') /\ Single(replies')
    BY <1>1, <1>7, ShortQueue DEF Calm, Once
  <2>4. Once'
    BY <1>7, <2>3 DEF Once, AsksInOrder, VerdictsInOrder
  <2>5. Numbered'
    BY <1>3, <1>7, <2>1 DEF Numbered, AsksInOrder, VerdictsInOrder
  <2> QED BY <1>3, <1>7, <2>2, <2>4, <2>5 DEF Calm, AsksInOrder
<1>8. CASE CliAuthenticate
  <2> DEFINE req == Head(msgs).req
  <2>1. PICK t : AuthSends(t, req)
    BY <1>8, AuthenticateSends
  <2>2. /\ InMsgs /\ Starting /\ msgs' = Tail(msgs) /\ cReq' = req /\ CliRuns
        /\ UNCHANGED <<s2c, zips, replies>> /\ (IsWaiting => cState' = "auth")
    BY <1>8 DEF CliAuthenticate, InMsgs, Starting
  <2>3. req.call = call.call
    BY <1>1, <2>2 DEF Calm, Numbered
  <2> HIDE DEF req
  <2>4. ~Held /\ ~Asked /\ ~Told /\ ~Replied /\ ~AtApp /\ app # "idle"
    BY <1>1, <2>2 DEF Calm, Alone, Idle, CliRuns
  <2>5. msgs' = <<>>
    BY <1>1, <2>2, ReadQueue DEF Calm, Once, InMsgs
  <2>6. VerdictsInOrder' /\ ~Told'
    BY <1>1, <1>3, <2>2, <2>4, QuietVerdicts
  <2>7. /\ Sends(t) /\ Lone(t, Asks) /\ (Has(t, Asks) => IsWaiting)
        /\ \A p \in Elems(t) : p.kind \in Asks => p.call = call.call
    BY <2>1, <2>3 DEF AuthSends
  <2>8. Granted => Turned(t)
    <3> SUFFICES ASSUME Granted PROVE Turned(t)
      OBVIOUS
    <3>1. "client out" \in zips
      BY <1>1, <2>4, GrantSeen
    <3>2. \A p \in Elems(t) : p.z = ("client out" \in zips)
      BY <2>7 DEF Sends, SealedAs
    <3>3. \A p \in Elems(t) : p.z = TRUE
      BY <3>1, <3>2
    <3> QED BY <3>3 DEF Turned
  <2>9. AsksInOrder' /\ (Asked' <=> Asked \/ Has(t, Asks))
    BY <1>1, <1>3, <2>2, <2>4, <2>7, <2>8, SendsAsks
  <2>10. ~(Asked' /\ Held')
    BY <2>2, <2>4, <2>7, <2>9 DEF Held
  <2> QED BY <1>7, <2>2, <2>3, <2>4, <2>5, <2>6, <2>9, <2>10
<1>9. CASE CliAccept
  <2>1. /\ s2c # <<>> /\ s2c' = Tail(s2c) /\ R.kind = "accept" /\ cState = "service"
        /\ UNCHANGED <<msgs, replies, cReq, cHas, zips>>
    BY <1>9 DEF CliAccept, CliReads
  <2>2. VerdictsInOrder' /\ (Told' => Told)
    BY <1>1, <1>3, <2>1, ReadsVerdicts
  <2>3. CASE cHas
    <3>1. Held /\ ~InMsgs /\ ~Asked /\ ~Told /\ ~Replied /\ ~AtApp /\ app # "idle"
      BY <1>1, <2>1, <2>3 DEF Calm, Alone, Idle, Held
    <3>2. cReq.call = call.call
      BY <1>1, <3>1 DEF Calm, Numbered
    <3>3. cState' = "auth" /\ Send(<<FirstPacket(cReq)>>)
      BY <1>9, <2>3 DEF CliAccept
    <3> DEFINE p == FirstPacket(cReq)
    <3>4. p.kind \in Asks /\ p.call = cReq.call /\ p.z = ("client out" \in zips)
      BY FirstPacketIs DEF QueuesOK
    <3>5. c2s' = c2s \o <<p>>
      BY <3>3 DEF Send
    <3> HIDE DEF p
    <3>6. Granted => "client out" \in zips
      BY <1>1, <3>1, GrantSeen
    <3>7. AsksInOrder'
      BY <1>1, <1>3, <2>1, <3>1, <3>2, <3>4, <3>5, <3>6, SendsPacket
    <3>8. ~Held' /\ msgs' = <<>>
      BY <2>1, <3>1, <3>3 DEF Held, InMsgs
    <3> QED BY <1>7, <2>1, <2>2, <3>1, <3>2, <3>7, <3>8
  <2>4. CASE ~cHas
    <3>1. UNCHANGED <<c2s, cState>>
      BY <1>9, <2>4 DEF CliAccept
    <3>2. Granted' => Granted
      BY <2>1 DEF Granted
    <3>3. AsksInOrder' /\ (Asked' <=> Asked)
      BY <1>1, <1>3, <3>1, <3>2, QuietAsks
    <3>4. Held' => Held
      BY <2>1, <3>1 DEF Held
    <3> QED BY <1>5, <2>1, <2>2, <3>3, <3>4
  <2> QED BY <2>3, <2>4
<1>10. CASE CliSuccess \/ CliFailure
  <2>1. /\ s2c # <<>> /\ s2c' = Tail(s2c) /\ R.kind \in Verdicts /\ cState = "auth" /\ cState' # "service"
        /\ UNCHANGED <<c2s, msgs, cReq>> /\ (Tell("success") \/ Tell("failure"))
    BY <1>10 DEF CliSuccess, CliFailure, CliReads, Verdicts
  <2>2. Granted' => Granted
    <3>1. zips' = zips \/ zips' = zips \cup {"client in", "client out"}
      BY <1>10 DEF CliSuccess, CliFailure
    <3>2. \A c \in zips' : c \in zips \/ c = "client in" \/ c = "client out"
      BY <3>1
    <3> QED BY <3>2 DEF Granted
  <2> QED BY <1>6, <2>1, <2>2
<1>11. CASE CliPrompt \/ CliPkOk
  <2>1. /\ s2c # <<>> /\ s2c' = Tail(s2c) /\ R.kind \in Verdicts \ {"success"} /\ cState = "auth"
        /\ UNCHANGED <<msgs, cReq, zips>>
    BY <1>11 DEF CliPrompt, CliPkOk, CliReads, Verdicts
  <2>2. \/ (Tell("prompt") \/ Tell("sign")) /\ c2s' = c2s /\ cState' # "service"
        \/ UNCHANGED <<replies, c2s>> /\ cState' # "service"
        \/ UNCHANGED <<cState, replies>> /\ Send(<<Packet("signed", cReq, TRUE)>>)
    <3>1. CASE CliPrompt
      BY <2>1, <3>1 DEF CliPrompt
    <3>2. CASE CliPkOk
      BY <2>1, <3>2 DEF CliPkOk
    <3> QED BY <1>11, <3>1, <3>2
  <2>3. Granted' => Granted
    BY <2>1 DEF Granted
  <2>4. VerdictsInOrder' /\ Told /\ ~Told'
    BY <1>1, <1>3, <2>1, ReadsVerdicts
  <2>5. CASE (Tell("prompt") \/ Tell("sign")) /\ c2s' = c2s /\ cState' # "service"
    BY <1>6, <2>1, <2>3, <2>5
  <2>6. CASE UNCHANGED <<replies, c2s>> /\ cState' # "service"
    <3>1. AsksInOrder' /\ (Asked' <=> Asked)
      BY <1>1, <1>3, <2>3, <2>6, QuietAsks
    <3>2. ~Held'
      BY <2>6 DEF Held
    <3> QED BY <1>5, <2>1, <2>4, <2>6, <3>1, <3>2
  <2>7. CASE UNCHANGED <<cState, replies>> /\ Send(<<Packet("signed", cReq, TRUE)>>)
    <3>1. ~InMsgs /\ ~Asked /\ ~Replied /\ ~AtApp /\ app # "idle" /\ cReq.call = call.call
      BY <1>1, <2>1, <2>4 DEF Calm, Alone, Idle, Numbered
    <3>2. Granted => "client out" \in zips
      BY <1>1, <2>1, GrantSeen
    <3>3. AsksInOrder'
      BY <1>1, <1>3, <2>1, <2>7, <3>1, <3>2, SendsKind
    <3>4. ~Held' /\ msgs' = <<>>
      BY <2>1, <2>7, <3>1 DEF Held, InMsgs
    <3> QED BY <1>7, <2>1, <2>4, <2>7, <3>1, <3>3, <3>4
  <2> QED BY <2>2, <2>5, <2>6, <2>7
\* A packet that is no request.
<1>12. ASSUME UNCHANGED <<msgs, replies, cReq, cHas, zips>>, cState # "ended", cState' # "service" \/ cState' = cState,
              c2s' = c2s \/ \E kind \in {"other", "reply", "global"}, req \in {cReq, NoRequest} :
                              /\ Send(<<Packet(kind, req, TRUE)>>) /\ (kind # "global" => cState = "done"),
              s2c' = s2c \/ (s2c # <<>> /\ s2c' = Tail(s2c))
       PROVE  Calm'
  <2>1. Granted' => Granted
    BY <1>12 DEF Granted
  <2>2. AsksInOrder' /\ (Asked' <=> Asked)
    <3>1. CASE c2s' = c2s
      BY <1>1, <1>3, <2>1, <3>1, QuietAsks
    <3>2. ASSUME NEW kind \in {"other", "reply", "global"}, NEW req, Send(<<Packet(kind, req, TRUE)>>),
                 kind # "global" => cState = "done"
          PROVE  AsksInOrder' /\ (Asked' <=> Asked)
      <4>1. kind \notin Asks
        BY DEF Asks
      <4>2. Granted => "client out" \in zips \/ kind \in Unasked
        BY <1>4, <3>2 DEF Unasked
      <4> QED BY <1>1, <1>3, <1>12, <3>2, <4>1, <4>2, SendsKind
    <3> QED BY <1>12, <3>1, <3>2
  <2>3. VerdictsInOrder' /\ (Told' => Told)
    BY <1>1, <1>3, <1>12, QuietVerdicts, ReadsVerdicts
  <2>4. Held' => Held
    BY <1>12 DEF Held
  <2> QED BY <1>5, <1>12, <2>2, <2>3, <2>4
<1>13. CASE CliOther
  <2>1. /\ s2c # <<>> /\ s2c' = Tail(s2c) /\ UNCHANGED <<msgs, replies, cReq, cHas, zips, cState>>
        /\ cState \in {"auth", "done"}
        /\ c2s' = c2s \/ (cState = "done" /\ Send(<<Packet("reply", cReq, TRUE)>>))
    BY <1>13 DEF CliOther, CliReads, cliVars
  <2> QED BY <1>12, <2>1
<1>14. CASE CliRefuses \/ CliHangup
  <2>1. /\ UNCHANGED <<msgs, replies, cReq, cHas, zips, c2s, s2c>> /\ cState' = "ended" /\ cState # "ended"
    BY <1>14 DEF CliRefuses, CliHangup, CliRuns, appVars
  <2> QED BY <1>12, <2>1
<1>15. CASE AppOther
  <2>1. /\ UNCHANGED <<msgs, replies, cReq, cHas, zips, s2c, cState>> /\ cState = "done"
        /\ Send(<<Packet("other", cReq, TRUE)>>)
    BY <1>15 DEF AppOther, cliVars, appVars
  <2> QED BY <1>12, <2>1
<1>16. CASE ClientStarts
  <2>1. /\ UNCHANGED <<msgs, replies, cReq, cHas, zips, s2c, cState>> /\ cState # "ended"
        /\ Send(<<Packet("global", NoRequest, TRUE)>>)
    BY <1>16 DEF ClientStarts, CliRuns, cliVars, appVars
  <2> QED BY <1>12, <2>1
<1>17. CASE CliMessage
  <2>1. /\ InMsgs /\ msgs' = Tail(msgs) /\ cState # "ended"
        /\ UNCHANGED <<replies, cReq, cHas, zips, s2c>>
        /\ \/ UNCHANGED <<cState, c2s>>
           \/ /\ cState' = "auth" /\ Head(msgs).kind # "authenticate"
              /\ Send(<<Packet("response", cReq, TRUE)>>) \/ Send(<<Packet("signed", cReq, TRUE)>>)
    BY <1>17 DEF CliMessage, InMsgs
  <2>2. ~Asked /\ ~Told /\ ~Replied /\ ~AtApp /\ app # "idle"
    BY <1>1, <2>1 DEF Calm, Alone, Idle
  <2>3. msgs' = <<>>
    BY <1>1, <2>1, ReadQueue DEF Calm, Once, InMsgs
  <2>4. VerdictsInOrder' /\ (Told' <=> Told)
    BY <1>1, <1>3, <2>1, QuietVerdicts
  <2>5. Granted' => Granted
    BY <2>1 DEF Granted
  <2>6. CASE UNCHANGED <<cState, c2s>>
    <3>1. AsksInOrder' /\ (Asked' <=> Asked)
      BY <1>1, <1>3, <2>5, <2>6, QuietAsks
    <3>2. Held' => Held
      BY <2>1, <2>6 DEF Held
    <3> QED BY <1>5, <2>1, <2>3, <2>4, <3>1, <3>2
  <2>7. CASE /\ cState' = "auth" /\ Head(msgs).kind # "authenticate"
             /\ Send(<<Packet("response", cReq, TRUE)>>) \/ Send(<<Packet("signed", cReq, TRUE)>>)
    <3>1. InMsgs /\ ~Starting
      BY <2>1, <2>7 DEF Starting
    <3>2. cReq.call = call.call
      BY <1>1, <3>1 DEF Calm, Numbered
    <3>3. Granted => "client out" \in zips
      BY <1>1, <2>2, GrantSeen
    <3>4. AsksInOrder'
      BY <1>1, <1>3, <2>1, <2>2, <2>7, <3>2, <3>3, SendsKind
    <3>5. ~Held'
      BY <2>7 DEF Held
    <3> QED BY <1>7, <2>1, <2>2, <2>3, <2>4, <3>2, <3>4, <3>5
  <2> QED BY <2>1, <2>6, <2>7
<1> QED
  BY <1>8, <1>9, <1>10, <1>11, <1>13, <1>14, <1>15, <1>16, <1>17 DEF CliStep

\* The application's share of it.
LEMMA AppKeepsCall ==
  ASSUME WireInv, CallInv, AppStep \/ AppCall \/ AppGivesUp \/ PeerSends \/ ServerStarts
  PROVE  CallInv'
<1> SUFFICES ASSUME peer' # "any", ~spoiled' PROVE Calm'
  BY DEF CallInv
<1>0. ~AppGivesUp /\ ~PeerSends
  BY DEF AppGivesUp, PeerSends
<1>1. peer # "any" /\ ~spoiled
  <2>1. AppStep => UNCHANGED <<peer, spoiled>>
    BY DEF AppStep, AppReply, AppSessionEnded, AppProvide, Sessions
  <2>2. AppCall => UNCHANGED peer /\ ~spoiled
    BY DEF AppCall, Sessions
  <2>3. ServerStarts => UNCHANGED <<peer, spoiled>>
    BY DEF ServerStarts, appVars
  <2> QED BY <1>0, <2>1, <2>2, <2>3
<1>2. Calm /\ AsksInOrder /\ VerdictsInOrder
  BY <1>1, CalmWires DEF CallInv
\* Steps of the application leave the wires alone.
<1>3. ASSUME UNCHANGED <<c2s, s2c, zips, cState, cReq, cHas>>
      PROVE  /\ (Asked' <=> Asked) /\ (Told' <=> Told) /\ (Held' <=> Held) /\ (Granted' => Turned(c2s'))
             /\ Lone(c2s', Asks) /\ Lone(s2c', Verdicts) /\ cReq' = cReq /\ cState' = cState
             /\ UNCHANGED call => AsksInOrder' /\ VerdictsInOrder'
  <2>1. (Asked' <=> Asked) /\ (Told' <=> Told) /\ (Held' <=> Held) /\ (Granted' <=> Granted)
    BY <1>3 DEF Asked, Told, Held, Granted
  <2>2. (Granted' => Turned(c2s')) /\ Lone(c2s', Asks) /\ Lone(s2c', Verdicts)
    BY <1>2, <1>3, <2>1 DEF AsksInOrder, VerdictsInOrder
  <2>3. UNCHANGED call => AsksInOrder' /\ VerdictsInOrder'
    BY <1>2, <1>3, <2>1, QuietAsks, QuietVerdicts
  <2> QED BY <1>3, <2>1, <2>2, <2>3
<1>4. CASE AppReply
  <2>1. /\ UNCHANGED <<c2s, s2c, zips, cState, cReq, cHas, msgs, call>>
        /\ Replied /\ replies' = Tail(replies)
        /\ wrong' = (wrong \/ (app' # "waiting" /\ Head(replies).call # call.call))
    BY <1>4 DEF AppReply, Sessions, cliVars, Replied
  <2>2. ~InMsgs /\ ~Held /\ ~Asked /\ ~Told
    BY <1>2, <2>1 DEF Calm, Alone
  <2>3. Head(replies).call = call.call /\ cReq.call = call.call /\ ~wrong
    BY <1>2, <2>1 DEF Calm, Numbered
  <2>4. ~wrong'
    BY <2>1, <2>3
  <2>5. replies' = <<>>
    BY <1>2, <2>1, ReadQueue DEF Calm, Once, Replied
  <2>6. ~InMsgs' /\ ~Starting' /\ ~Replied' /\ ~Held' /\ ~Asked' /\ ~Told'
    BY <1>3, <2>1, <2>2, <2>5 DEF InMsgs, Starting, Replied
  <2>7. Alone' /\ Idle'
    BY <2>6 DEF Alone, Idle, AtApp
  <2>8. Single(msgs') /\ Single(replies')
    BY <1>2, <2>1, <2>5, ShortQueue DEF Calm, Once
  <2>9. AsksInOrder' /\ VerdictsInOrder' /\ cReq' = cReq
    BY <1>3, <2>1
  <2>10. Once' /\ Numbered'
    BY <2>1, <2>3, <2>6, <2>8, <2>9 DEF Once, Numbered, AsksInOrder, VerdictsInOrder
  <2> QED BY <2>4, <2>7, <2>9, <2>10 DEF Calm, AsksInOrder
<1>5. CASE AppSessionEnded
  <2>1. /\ UNCHANGED <<c2s, s2c, zips, cState, cReq, cHas, msgs, replies, call, wrong>>
        /\ app' = "idle" /\ cState = "ended"
    BY <1>5 DEF AppSessionEnded, Sessions, cliVars
  <2>2. (InMsgs' <=> InMsgs) /\ (Starting' <=> Starting) /\ (Replied' <=> Replied) /\ ~AtApp'
    BY <2>1 DEF InMsgs, Starting, Replied, AtApp
  <2>3. (Asked' <=> Asked) /\ (Told' <=> Told) /\ (Held' <=> Held) /\ AsksInOrder' /\ VerdictsInOrder'
    BY <1>3, <2>1
  <2>4. Alone' /\ Idle'
    BY <1>2, <2>1, <2>2, <2>3 DEF Calm, Alone, Idle
  <2>5. Once'
    BY <1>2, <2>1, <2>3 DEF Calm, Once, AsksInOrder, VerdictsInOrder
  <2>6. Numbered'
    BY <1>2, <2>1, <2>2, <2>3 DEF Calm, Numbered, AsksInOrder, VerdictsInOrder
  <2> QED BY <1>2, <2>1, <2>3, <2>4, <2>5, <2>6 DEF Calm, AsksInOrder
<1>6. CASE AppProvide
  <2>1. /\ UNCHANGED <<c2s, s2c, zips, cState, cReq, cHas, replies, call, wrong>>
        /\ AtApp /\ app' = "waiting"
    BY <1>6 DEF AppProvide, Sessions, cliVars, AtApp
  <2>2. ~InMsgs /\ ~Held /\ ~Asked /\ ~Told /\ ~Replied /\ cReq.call = call.call
    BY <1>2, <2>1 DEF Calm, Alone, Numbered
  <2>3. PICK m : msgs' = Append(msgs, m) /\ m.kind # "authenticate"
    <3> DEFINE n == [kind |-> IF app = "prompted" THEN "responses" ELSE "signed", req |-> call]
    <3>1. msgs' = Append(msgs, n)
      BY <1>6 DEF AppProvide
    <3>2. n.kind # "authenticate"
      OBVIOUS
    <3> HIDE DEF n
    <3> QED BY <3>1, <3>2
  <2>4. msgs' = <<m>>
    BY <2>2, <2>3, ShortQueue DEF InMsgs
  <2>5. Single(msgs') /\ ~Starting'
    BY <2>3, <2>4, ShortQueue DEF Starting
  <2>6. ~Replied' /\ ~AtApp' /\ Single(replies')
    BY <1>2, <2>1, <2>2 DEF Replied, AtApp, Calm, Once
  <2>7. ~Asked' /\ ~Told' /\ ~Held' /\ AsksInOrder' /\ VerdictsInOrder'
    BY <1>3, <2>1, <2>2
  <2>8. Alone' /\ Idle'
    BY <2>1, <2>6, <2>7 DEF Alone, Idle
  <2>9. Once' /\ Numbered'
    BY <2>1, <2>2, <2>5, <2>6, <2>7 DEF Once, Numbered, AsksInOrder, VerdictsInOrder
  <2> QED BY <1>2, <2>1, <2>7, <2>8, <2>9 DEF Calm, AsksInOrder
<1>7. CASE AppCall
  <2>1. /\ UNCHANGED <<c2s, s2c, zips, cState, cReq, cHas, replies, wrong>>
        /\ app = "idle" /\ app' = "waiting" /\ cState # "ended"
    BY <1>7 DEF AppCall, Sessions, cliVars
  <2>2. ~InMsgs /\ ~Held /\ ~Asked /\ ~Told /\ ~Replied
    BY <1>2, <2>1 DEF Calm, Idle
  <2>3. PICK m : msgs' = Append(msgs, m) /\ m.req = call'
    BY <1>7 DEF AppCall
  <2>4. msgs' = <<m>>
    BY <2>2, <2>3, ShortQueue DEF InMsgs
  <2>5. m.kind = "authenticate"
    BY <1>7, <2>2, <2>4, ShortQueue DEF AppCall, InMsgs
  <2>6. Single(msgs') /\ Starting' /\ Head(msgs').req.call = call'.call
    BY <2>3, <2>4, <2>5, ShortQueue DEF Starting, InMsgs
  <2>7. ~Replied' /\ ~AtApp' /\ Single(replies')
    BY <1>2, <2>1, <2>2 DEF Replied, AtApp, Calm, Once
  <2>8. ~Asked' /\ ~Told' /\ ~Held' /\ (Granted' => Turned(c2s')) /\ Lone(c2s', Asks) /\ Lone(s2c', Verdicts)
    BY <1>3, <2>1, <2>2
  <2>9. Alone' /\ Idle' /\ Once'
    BY <2>1, <2>6, <2>7, <2>8 DEF Alone, Idle, Once
  <2>10. Numbered'
    <3>1. /\ \A p \in Elems(c2s') : p.kind \notin Asks
          /\ \A p \in Elems(s2c') : p.kind \notin Verdicts
      BY <2>8 DEF Asked, Told, Has
    <3> QED BY <2>6, <2>7, <2>8, <3>1 DEF Numbered
  <2> QED BY <1>2, <2>1, <2>8, <2>9, <2>10 DEF Calm
<1>8. CASE ServerStarts
  <2>1. UNCHANGED <<c2s, zips, cState, cReq, cHas, msgs, replies, app, call, wrong>>
    BY <1>8 DEF ServerStarts, cliVars, appVars
  <2>2. PICK p : s2c' = Append(s2c, p) /\ p.kind \in Unasked
    BY <1>8, StartsOne
  <2>3. s2c' = s2c \o <<p>> /\ IsSeq(s2c)
    <3>1. PICK S : s2c \in Seq(S)
      BY DEF WireInv, IsSeq
    <3>2. s2c \in Seq(S \cup {p}) /\ p \in S \cup {p}
      BY <3>1
    <3>3. Append(s2c, p) = s2c \o <<p>>
      BY <3>2, AppendIsConcat
    <3> QED BY <2>2, <3>1, <3>3 DEF IsSeq
  <2>4. /\ Elems(s2c') = Elems(s2c) \cup {p} /\ (Has(s2c', Verdicts) <=> Has(s2c, Verdicts))
        /\ Lone(s2c, Verdicts) => Lone(s2c', Verdicts)
    <3>1. p.kind \notin Verdicts
      BY <2>2 DEF Verdicts, Unasked
    <3>2. /\ IsSeq(<<p>>) /\ Elems(<<p>>) = {p} /\ Lone(<<p>>, Verdicts) /\ ~Has(<<p>>, Verdicts)
      BY <3>1, ShortSeqs, SingleHas
    <3> QED BY <2>3, <3>2, ConcatHas
  <2>5. VerdictsInOrder' /\ (Told' <=> Told)
    BY <1>2, <2>1, <2>2, <2>4 DEF VerdictsInOrder, Told, Verdicts, Unasked
  <2>6. AsksInOrder' /\ (Asked' <=> Asked)
    BY <1>2, <2>1, QuietAsks DEF Granted
  <2>7. /\ (InMsgs' <=> InMsgs) /\ (Starting' <=> Starting) /\ (Replied' <=> Replied)
        /\ (AtApp' <=> AtApp) /\ (Held' <=> Held)
    BY <2>1 DEF InMsgs, Starting, Replied, AtApp, Held
  <2>8. Alone' /\ Idle'
    BY <1>2, <2>1, <2>5, <2>6, <2>7 DEF Calm, Alone, Idle
  <2>9. Once'
    BY <1>2, <2>1, <2>5, <2>6 DEF Calm, Once, AsksInOrder, VerdictsInOrder
  <2>10. Numbered'
    BY <1>2, <2>1, <2>5, <2>6, <2>7 DEF Calm, Numbered, AsksInOrder, VerdictsInOrder
  <2> QED BY <1>2, <2>1, <2>6, <2>8, <2>9, <2>10 DEF Calm, AsksInOrder
<1> QED BY <1>0, <1>4, <1>5, <1>6, <1>7, <1>8 DEF AppStep
-----------------------------------------------------------------------------
(* The two results. *)

\* The inductive invariant of the wires and the calls.
AuthInv == QueuesOK /\ WireInv /\ CallInv

LEMMA AuthInit == ASSUME Init PROVE AuthInv
<1>1. /\ c2s = <<>> /\ s2c = <<>> /\ srv = "service" /\ zips = {} /\ cState = "service" /\ cSent = FALSE
      /\ cHas = FALSE /\ msgs = <<>> /\ replies = <<>> /\ app = "idle" /\ wrong = FALSE
  BY DEF Init
<1>2. /\ IsSeq(<<>>) /\ Plain(<<>>) /\ Turned(<<>>) /\ Elems(<<>>) = {}
      /\ \A K : ~Has(<<>>, K) /\ Lone(<<>>, K)
  BY ShortSeqs, NothingHas
<1>3. ~Granted
  BY <1>1 DEF Granted
<1>4. WireInv
  <2>1. AnyInv
    BY <1>1 DEF AnyInv
  <2>2. StartInv
    BY <1>1, <1>2, <1>3 DEF StartInv
  <2>3. FormInv /\ ServiceInv
    BY <1>1, <1>2, <1>3 DEF FormInv, ServiceInv
  <2> QED BY <1>1, <1>2, <2>1, <2>2, <2>3 DEF WireInv
<1>5. Calm
  <2>1. ~InMsgs /\ ~Starting /\ ~Held /\ ~Asked /\ ~Told /\ ~Replied /\ ~AtApp
    BY <1>1, <1>2 DEF InMsgs, Starting, Held, Asked, Told, Replied, AtApp
  <2>2. Alone /\ Idle
    BY <2>1 DEF Alone, Idle
  <2>3. Once
    BY <1>1, <1>2, ShortQueue DEF Once
  <2>4. Numbered
    BY <1>1, <1>2, <2>1 DEF Numbered
  <2> QED BY <1>1, <1>3, <2>2, <2>3, <2>4 DEF Calm
<1> QED BY <1>4, <1>5, QueuesInit DEF AuthInv, CallInv

LEMMA AuthStep == ASSUME AuthInv, [Next]_vars PROVE AuthInv'
<1>0. QueuesOK /\ WireInv /\ CallInv /\ QueuesOK'
  BY QueuesStep DEF AuthInv
<1>1. CASE SrvStep
  BY <1>0, <1>1, SrvKeepsWires, SrvKeepsCall DEF AuthInv
<1>2. CASE CliStep \/ AppOther \/ ClientStarts
  BY <1>0, <1>2, CliKeepsWires, CliKeepsCall DEF AuthInv
<1>3. CASE AppStep \/ AppCall \/ AppGivesUp \/ PeerSends \/ ServerStarts
  BY <1>0, <1>3, OthersKeepWires, AppKeepsCall DEF AuthInv
<1>4. CASE UNCHANGED vars
  <2>1. UNCHANGED <<peer, c2s, s2c, srv, cState, cSent, cReq, cHas, zips>>
    BY <1>4 DEF vars, srvVars, cliVars
  <2>2. UNCHANGED <<msgs, replies, app, call, wrong, spoiled>>
    BY <1>4 DEF vars, appVars
  <2>3. WireInv'
    BY <1>0, <2>1, <2>2 DEF WireInv, AnyInv, StartInv, FormInv, ServiceInv, Granted
  <2>4. CallInv'
    BY <1>0, <2>1, <2>2 DEF CallInv, Calm, Alone, Idle, Once, Numbered, Granted,
       InMsgs, Starting, Held, Asked, Told, Replied, AtApp
  <2> QED BY <1>0, <2>3, <2>4 DEF AuthInv
<1> QED BY <1>1, <1>2, <1>3, <1>4 DEF Next

\* What is in the wrong form for the reader's context.
LEMMA WrongForm ==
  ASSUME NEW z, NEW c, NEW Z, z # (c \in Z)
  PROVE  ~(z = TRUE /\ c \in Z) /\ ~(z = FALSE /\ c \notin Z)
<1>1. ASSUME z = TRUE, c \in Z PROVE FALSE
  BY <1>1
<1>2. ASSUME z = FALSE, c \notin Z PROVE FALSE
  <2>1. z = (c \in Z)
    <3>1. (c \in Z) <=> FALSE
      BY <1>2
    <3>2. FALSE = (c \in Z)
      BY <3>1
    <3> QED BY <1>2, <3>2
  <2> QED BY <2>1
<1> QED BY <1>1, <1>2

\* Deferred compression starts at the same packet on both sides of each
\* direction (init_decompress behind USERAUTH_SUCCESS on the server, both
\* contexts of the client when it reads it, the server's compressor with the
\* first packet it reads after it), whatever the Handlers decide and however the
\* steps interleave.  Requests, verdicts and answers are read in the form they were
\* sent in; the exceptions are what a side sends of its own accord around the
\* success (a global request, a channel the server opens), which the code does not
\* hold back, and the calls made after one was abandoned or came too late.
THEOREM CompressionAlwaysInStep == Spec => []CompressionInStep
<1>1. Init => AuthInv
  BY AuthInit
<1>2. AuthInv /\ [Next]_vars => AuthInv'
  BY AuthStep
<1>3. AuthInv => CompressionInStep
  <2> SUFFICES ASSUME AuthInv PROVE CompressionInStep
    OBVIOUS
  <2>0. QueuesOK /\ WireInv /\ CallInv
    BY DEF AuthInv
  <2>1. ASSUME c2s # <<>>, P.z # ("server in" \in zips), ~spoiled PROVE P.kind = "global"
    <3>1. P \in Elems(c2s)
      BY <2>0, <2>1, TailHas DEF WireInv, P
    <3>2. Granted
      <4> SUFFICES ASSUME ~Granted PROVE FALSE
        OBVIOUS
      <4>1. P.z = FALSE
        BY <2>0, <3>1 DEF WireInv, FormInv, Plain
      <4> QED BY <2>1, <4>1, WrongForm DEF Granted
    <3>3. peer # "any"
      BY <2>0, <2>1, <3>2 DEF WireInv, AnyInv
    <3>4. P.z = TRUE \/ P.kind \in Unasked
      BY <2>0, <2>1, <3>1, <3>2, <3>3 DEF CallInv, Calm, Turned
    <3>5. P.kind \in Unasked
      BY <2>1, <3>2, <3>4, WrongForm DEF Granted
    <3>6. P \in Sendable
      BY <2>0, <3>1 DEF QueuesOK, Elems
    <3>7. P.kind \in ClientKinds
      BY <3>6 DEF Sendable, ClientPacket
    <3> QED BY <3>5, <3>7 DEF ClientKinds, Unasked
  <2>2. ASSUME s2c # <<>>, R.z # ("client in" \in zips) PROVE R.kind \in Unasked
    <3>1. R \in Elems(s2c) /\ peer # "any"
      BY <2>0, <2>2, TailHas DEF WireInv, AnyInv, R
    <3>2. CASE "client in" \in zips
      <4>1. R.z = TRUE \/ R.kind \in Unasked
        BY <2>0, <3>1, <3>2 DEF WireInv, FormInv, Turned
      <4> QED BY <2>2, <3>2, <4>1, WrongForm
    <3>3. CASE "client in" \notin zips
      <4>1. R.z = FALSE
        <5>1. CASE ~Granted
          BY <2>0, <3>1, <5>1 DEF WireInv, FormInv, Plain
        <5>2. CASE Granted
          <6>1. Turning(s2c) /\ IsSeq(s2c)
            BY <2>0, <3>1, <3>3, <5>2 DEF WireInv, FormInv
          <6> QED BY <6>1, TurnTail DEF R
        <5> QED BY <5>1, <5>2
      <4> QED BY <2>2, <3>3, <4>1, WrongForm
    <3> QED BY <3>2, <3>3
  <2> QED BY <2>1, <2>2 DEF CompressionInStep
<1> QED BY <1>1, <1>2, <1>3, PTL DEF Spec

\* A call of client::Handle returns the verdict on its own request, for any
\* number of calls and any dialogue with the server: wait_recv_reply takes
\* whatever reply comes next, and the next one is the running call's, unless an
\* earlier call was abandoned or came too late.
THEOREM ResultAlwaysOfOwnCall == Spec => []ResultOfOwnCall
<1>1. Init => AuthInv
  BY AuthInit
<1>2. AuthInv /\ [Next]_vars => AuthInv'
  BY AuthStep
<1>3. AuthInv => ResultOfOwnCall
  BY DEF AuthInv, WireInv, AnyInv, CallInv, Calm, ResultOfOwnCall
<1> QED BY <1>1, <1>2, <1>3, PTL DEF Spec
=============================================================================
