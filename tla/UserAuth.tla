------------------------------ MODULE UserAuth ------------------------------
(***************************************************************************)
(* User authentication: the server's state machine (process_packet,        *)
(* server_read_auth_request), the client's (process_packet,                *)
(* write_auth_request_if_needed), the calls of client::Handle that drive   *)
(* it, and the moment each direction starts deferred compression.          *)
(*                                                                         *)
(* The peer of the server is a russh client with its application, or any   *)
(* client that sends well-formed packets in any order.  The decisions of   *)
(* the server's Handler are free.  Passwords, signatures and certificates  *)
(* are abstracted to whether they are valid; the delays of rejections, the *)
(* key exchange before and EXT_INFO are left out.                          *)
(***************************************************************************)
EXTENDS Integers, Sequences

CONSTANTS
  Users, Keys,
  OwnKeys,        \* the keys a russh client has
  Peers,          \* a subset of {"russh", "any"}
  MaxCalls,       \* bound: authenticate_* calls of a russh client
  MaxPackets,     \* bound: packets of any other client
  MaxRounds,      \* bound: prompts of a keyboard-interactive dialogue
  MaxUnasked,     \* bound: packets a side sends unasked, the greeting aside
  Proceed,        \* the proceed_with_methods a Handler may answer with
  Deferred        \* was zlib@openssh.com negotiated?

\* An absent user name and an absent key.
NoUser == "no user"
NoKey == "no key"

ASSUME UserAuthAssumption ==
  /\ OwnKeys \subseteq Keys /\ NoUser \notin Users
  /\ Peers \subseteq {"russh", "any"} /\ Deferred \in BOOLEAN
  /\ MaxCalls \in Nat /\ MaxPackets \in Nat /\ MaxRounds \in Nat /\ MaxUnasked \in Nat

VARIABLES
  peer,        \* who talks to the server
  c2s, s2c,    \* packets on their way
  srv,         \* EncryptedState of the server, or "ended"
  principal,   \* AuthRequest::principal
  methods,     \* AuthRequest::methods
  partial,     \* AuthRequest::partial_success
  current,     \* AuthRequest::current
  authUser,    \* CommonSession::auth_user of the server
  rounds,      \* prompts sent so far
  offered,     \* history: pairs whose last auth_publickey_offered was accepted
  how,         \* history: the request that was granted
  cState,      \* EncryptedState of the client, a wait inside it, or "ended"
  cSent, cAccepted, \* WaitingAuthServiceRequest::sent, accepted
  cCurrent,    \* AuthRequest::current of the client: "keyboard" or "none"
  cReq, cHas,  \* auth_user and auth_method; is auth_method Some?
  zips,        \* which of the four compression contexts are active
  msgs,        \* Msg queue of the client session
  replies,     \* Reply queue of the Handle
  app,         \* what the application does
  call,        \* the running or last authenticate_* call
  wrong,       \* history: a call returned the answer to another one
  spoiled,     \* history: a call was abandoned, or its signer failed, or came too late
  talk         \* packets sent unasked

srvVars == <<srv, principal, methods, partial, current, authUser, rounds, offered, how>>
cliVars == <<cState, cSent, cAccepted, cCurrent, cReq, cHas>>
appVars == <<msgs, replies, app, call, wrong, spoiled>>
vars == <<peer, c2s, s2c, srvVars, cliVars, zips, appVars, talk>>
-----------------------------------------------------------------------------
AllMethods == {"none", "password", "publickey", "hostbased", "keyboard"}
CallMethods == {"none", "password", "publickey", "signer", "keyboard"}

\* auth::Method with its user, and the number of the call that made it.
Request == [call : Nat, user : Users \cup {NoUser}, method : CallMethods, key : Keys \cup {NoKey}]
NoRequest == [call |-> 0, user |-> NoUser, method |-> "none", key |-> NoKey]

\* What a side may send of its own accord: a global request (a keepalive, a ping,
\* tcpip-forward, ...) whatever the state, and the server the opening of a channel.
Unasked == {"global", "open"}

\* A packet of either direction; z tells whether it is compressed.
ClientKinds == {"service", "none", "password", "change", "probe", "signed", "badkey", "keyboard",
                "unknown", "response", "other", "reply", "global"}
ServerKinds == {"accept", "banner", "success", "failure", "pk_ok", "prompt", "answer"} \cup Unasked
ClientPacket == [kind : ClientKinds, call : Nat, user : Users \cup {NoUser}, key : Keys \cup {NoKey},
                 valid : BOOLEAN, z : BOOLEAN]
ServerPacket == [kind : ServerKinds, call : Nat, methods : SUBSET AllMethods, partial : BOOLEAN, z : BOOLEAN]

\* CurrentRequest.
Currents == [kind : {"none", "keyboard"}, key : {NoKey}] \cup [kind : {"publickey"}, key : Keys]
NoCurrent == [kind |-> "none", key |-> NoKey]

\* Every variable has its type.
TypeOK ==
  /\ peer \in Peers /\ c2s \in Seq(ClientPacket) /\ s2c \in Seq(ServerPacket)
  /\ srv \in {"service", "auth", "init", "done", "ended"}
  /\ principal \in Users \cup {NoUser} /\ authUser \in Users \cup {NoUser}
  /\ methods \subseteq AllMethods /\ partial \in BOOLEAN /\ current \in Currents
  /\ rounds \in 0 .. MaxRounds /\ offered \subseteq Users \X Keys
  /\ cState \in {"service", "auth", "wait responses", "wait signature", "done", "ended"}
  /\ cSent \in BOOLEAN /\ cAccepted \in BOOLEAN /\ cCurrent \in {"none", "keyboard"}
  /\ cReq \in Request /\ cHas \in BOOLEAN /\ call \in Request
  /\ zips \subseteq {"client out", "server in", "server out", "client in"}
  /\ app \in {"idle", "waiting", "prompted", "signing"}
  /\ wrong \in BOOLEAN /\ spoiled \in BOOLEAN /\ talk \in [{"client", "server"} -> 0 .. MaxUnasked]

Init ==
  /\ peer \in Peers /\ c2s = <<>> /\ s2c = <<>>
  /\ srv = "service" /\ principal = NoUser /\ authUser = NoUser
  /\ methods = AllMethods /\ partial = FALSE /\ current = NoCurrent
  /\ rounds = 0 /\ offered = {} /\ how = [kind |-> "none", user |-> NoUser, key |-> NoKey]
  /\ cState = "service" /\ cSent = FALSE /\ cAccepted = FALSE /\ cCurrent = "none"
  /\ cReq = NoRequest /\ cHas = FALSE /\ zips = {}
  /\ msgs = <<>> /\ replies = <<>> /\ app = "idle" /\ call = NoRequest
  /\ wrong = FALSE /\ spoiled = FALSE /\ talk = [s \in {"client", "server"} |-> 0]
-----------------------------------------------------------------------------
(* The server. *)

P == Head(c2s)

\* A packet whose form the reader expects.
SrvReads(state, kinds) ==
  /\ srv = state /\ c2s # <<>> /\ P.z = ("server in" \in zips) /\ P.kind \in kinds
  /\ UNCHANGED <<peer, cliVars, appVars, talk>>

\* The packet is consumed and answered.  A client that is not russh may read
\* its answers or not.
Answer(kind, ms, ps) ==
  [kind |-> kind, call |-> P.call, methods |-> ms, partial |-> ps, z |-> "server out" \in zips]
Answered(answers) ==
  /\ c2s' = Tail(c2s)
  /\ s2c' = IF peer = "any" THEN <<>> ELSE s2c \o answers

\* bind_or_reset_principal.  Responses name no user and leave it alone.
Bound == P.kind = "response" \/ principal = P.user
BoundMethods == IF Bound THEN methods ELSE AllMethods
BoundPartial == Bound /\ partial
BoundCurrent == IF Bound THEN current ELSE NoCurrent
BoundUser == IF Bound THEN authUser ELSE NoUser

\* Mutant: the request under way survives its rejection.
reject_keeping(ms, ps) ==
  /\ methods' = ms /\ partial' = ps /\ current' = BoundCurrent /\ srv' = "auth"
  /\ Answered(<<Answer("failure", ms, ps)>>)
  /\ UNCHANGED <<how, zips>>
reject_auth_request(ms, ps) ==
  /\ methods' = ms /\ partial' = ps /\ current' = NoCurrent /\ srv' = "auth"
  /\ Answered(<<Answer("failure", ms, ps)>>)
  /\ UNCHANGED <<how, zips>>

\* A packet of the server that answers none.
Own(kind) == [kind |-> kind, call |-> 0, methods |-> {}, partial |-> FALSE, z |-> "server out" \in zips]

\* Handler::auth_succeeded has the Session and may start something with it (bound:
\* one packet).
Greetings == {<<>>} \cup {<<Own(kind)>> : kind \in Unasked}

\* Mutant: decompression waits for the next packet.
success_late ==
  /\ methods' = BoundMethods /\ partial' = BoundPartial /\ current' = BoundCurrent
  /\ srv' = "init"
  /\ how' = [kind |-> P.kind, user |-> IF P.kind = "response" THEN authUser ELSE P.user, key |-> P.key]
  /\ \E greeting \in Greetings : Answered(<<Answer("success", {}, FALSE)>> \o greeting)
  /\ UNCHANGED zips
\* server_auth_request_success, and init_decompress and auth_succeeded behind it.
server_auth_request_success ==
  /\ methods' = BoundMethods /\ partial' = BoundPartial /\ current' = BoundCurrent
  /\ srv' = "init"
  /\ how' = [kind |-> P.kind, user |-> IF P.kind = "response" THEN authUser ELSE P.user, key |-> P.key]
  /\ \E greeting \in Greetings : Answered(<<Answer("success", {}, FALSE)>> \o greeting)
  /\ zips' = IF Deferred THEN zips \cup {"server in"} ELSE zips

\* Auth::Reject: without a list of methods the failed one may be struck off.
\* partial_success is overwritten by false on every path but the dialogue's.
Remaining(struck) == {BoundMethods \ struck} \cup Proceed

SrvService ==
  /\ SrvReads("service", {"service"})
  /\ srv' = "auth" /\ methods' = AllMethods /\ partial' = FALSE
  /\ \E banner \in BOOLEAN :
       Answered(<<Answer("accept", {}, FALSE)>> \o IF banner THEN <<Answer("banner", {}, FALSE)>> ELSE <<>>)
  /\ UNCHANGED <<principal, current, authUser, rounds, offered, how, zips>>

\* none and password; a change of password is always rejected.
SrvSimple ==
  /\ SrvReads("auth", {"none", "password", "change"})
  /\ principal' = P.user
  /\ \/ /\ P.kind # "change" /\ server_auth_request_success
        /\ authUser' = IF P.kind = "none" THEN BoundUser ELSE P.user
     \/ /\ \E ms \in Remaining({IF P.kind = "none" THEN "none" ELSE "password"}) : reject_auth_request(ms, FALSE)
        /\ authUser' = NoUser
  /\ UNCHANGED <<rounds, offered>>

\* The answer of auth_publickey_offered.
Offer(accepted) ==
  offered' = IF accepted THEN offered \cup {<<P.user, P.key>>} ELSE offered \ {<<P.user, P.key>>}

SrvProbe ==
  /\ SrvReads("auth", {"probe"})
  /\ principal' = P.user
  /\ \/ /\ Offer(TRUE) /\ authUser' = P.user
        /\ current' = [kind |-> "publickey", key |-> P.key]
        /\ methods' = BoundMethods /\ partial' = BoundPartial
        /\ Answered(<<Answer("pk_ok", {}, FALSE)>>)
        /\ UNCHANGED <<srv, how, zips>>
     \/ /\ Offer(FALSE) /\ authUser' = NoUser
        /\ \E ms \in Remaining({}) : reject_auth_request(ms, FALSE)
  /\ UNCHANGED rounds

\* Mutant: any accepted probe stands for every key.
ProbeMatchesAnyKey == BoundCurrent.kind = "publickey" /\ P.user = BoundUser
\* accepted_probe_matches && user == auth_user.
ProbeMatches ==
  BoundCurrent.kind = "publickey" /\ BoundCurrent.key = P.key /\ P.user = BoundUser

\* A signed request: without a matching probe the key is offered first; then the
\* signature is verified, then auth_publickey decides.
SrvSigned ==
  /\ SrvReads("auth", {"signed"})
  /\ principal' = P.user
  /\ \/ /\ IF ProbeMatches THEN UNCHANGED offered ELSE Offer(TRUE)
        /\ \/ P.valid /\ server_auth_request_success /\ authUser' = P.user
           \/ P.valid /\ authUser' = NoUser /\ \E ms \in Remaining({}) : reject_auth_request(ms, FALSE)
           \/ ~P.valid /\ authUser' = NoUser /\ reject_auth_request(BoundMethods, BoundPartial)
     \/ /\ ~ProbeMatches /\ Offer(FALSE)
        /\ authUser' = NoUser /\ reject_auth_request(BoundMethods, BoundPartial)
  /\ UNCHANGED rounds

\* A key or certificate that is of no use, or a method russh does not know.
SrvUnusable ==
  /\ SrvReads("auth", {"badkey", "unknown"})
  /\ principal' = P.user /\ authUser' = BoundUser
  /\ reject_auth_request(BoundMethods, BoundPartial)
  /\ UNCHANGED <<rounds, offered>>

\* reply_userauth_info_response, for the request that opens a dialogue and for
\* the responses in it.
Dialogue ==
  \/ server_auth_request_success /\ UNCHANGED rounds
  \/ /\ \E ms \in {BoundMethods} \cup Proceed, ps \in BOOLEAN : reject_auth_request(ms, ps)
     /\ UNCHANGED rounds
  \/ /\ rounds < MaxRounds /\ rounds' = rounds + 1
     /\ Answered(<<Answer("prompt", {}, FALSE)>>)
     /\ current' = [kind |-> "keyboard", key |-> NoKey]
     /\ methods' = BoundMethods /\ partial' = BoundPartial /\ UNCHANGED <<srv, how, zips>>
  \/ /\ srv' = "ended" /\ Answered(<<>>)
     /\ UNCHANGED <<methods, partial, current, rounds, how, zips>>

SrvKeyboard ==
  /\ SrvReads("auth", {"keyboard"})
  /\ principal' = P.user /\ authUser' = P.user
  /\ Dialogue
  /\ UNCHANGED offered

\* USERAUTH_INFO_RESPONSE: the packet names no user.
SrvResponse ==
  /\ SrvReads("auth", {"response"})
  /\ IF current.kind = "keyboard" THEN Dialogue
     ELSE reject_auth_request(methods, partial) /\ UNCHANGED rounds
  /\ UNCHANGED <<principal, authUser, offered>>

\* The first packet behind the success starts compression; requests that want a
\* reply get one.
SrvAuthenticated ==
  /\ \E state \in {"init", "done"} : SrvReads(state, ClientKinds)
  /\ srv' = "done"
  /\ zips' = IF Deferred /\ srv = "init" THEN zips \cup {"server out"} ELSE zips
  /\ Answered(IF P.kind \in {"other", "global"}
              THEN <<[Answer("answer", {}, FALSE) EXCEPT !.z = "server out" \in zips']>> ELSE <<>>)
  /\ UNCHANGED <<principal, methods, partial, current, authUser, rounds, offered, how>>

\* Everything else is ignored before that.
SrvIgnored ==
  /\ \/ SrvReads("service", ClientKinds \ {"service"})
     \/ SrvReads("auth", {"service", "other", "reply", "global"})
  /\ Answered(<<>>) /\ UNCHANGED <<srvVars, zips>>

\* A packet in the wrong form ends the session.
SrvGarbled ==
  /\ srv # "ended" /\ c2s # <<>> /\ P.z # ("server in" \in zips)
  /\ srv' = "ended"
  /\ UNCHANGED <<peer, c2s, s2c, principal, methods, partial, current, authUser, rounds, offered, how,
                 cliVars, zips, appVars, talk>>

SrvHangup ==
  /\ srv # "ended" /\ cState = "ended" /\ c2s = <<>>
  /\ srv' = "ended"
  /\ UNCHANGED <<peer, c2s, s2c, principal, methods, partial, current, authUser, rounds, offered, how,
                 cliVars, zips, appVars, talk>>

SrvStep ==
  \/ SrvService \/ SrvSimple \/ SrvProbe \/ SrvSigned \/ SrvUnusable \/ SrvKeyboard \/ SrvResponse
  \/ SrvAuthenticated \/ SrvIgnored \/ SrvGarbled \/ SrvHangup
-----------------------------------------------------------------------------
(* The client session. *)

R == Head(s2c)

\* The state in which the session loop runs: it does not while it waits for
\* responses or for a signature.
CliRuns == cState \in {"service", "auth", "done"}
CliReads(states, kinds) ==
  /\ cState \in states /\ s2c # <<>> /\ R.z = ("client in" \in zips) /\ R.kind \in kinds
  /\ s2c' = Tail(s2c)
  /\ UNCHANGED <<peer, srvVars, msgs, app, call, wrong, spoiled, talk>>

\* A packet of the client, sealed as its compression stands.
Packet(kind, req, valid) ==
  [kind |-> kind, call |-> req.call, user |-> req.user, key |-> req.key, valid |-> valid,
   z |-> "client out" \in zips]
Send(packets) == c2s' = c2s \o packets
\* Mutant: the Handle is told twice.
TellTwice(kind) == replies' = replies \o <<[kind |-> kind, call |-> R.call], [kind |-> kind, call |-> R.call]>>
Tell(kind) == replies' = Append(replies, [kind |-> kind, call |-> R.call])

\* write_auth_request.
FirstPacket(req) == Packet(IF req.method \in {"publickey", "signer"} THEN "probe" ELSE req.method, req, TRUE)
\* AuthRequest::new.
CurrentOf(req) == IF req.method = "keyboard" THEN "keyboard" ELSE "none"

\* is_waiting of write_auth_request_if_needed.
IsWaiting == cState = "auth" \/ (cState = "service" /\ cAccepted)

\* Msg::Authenticate.
CliAuthenticate ==
  LET req == Head(msgs).req
      service == cState = "service" /\ ~cSent
  IN  /\ CliRuns /\ msgs # <<>> /\ Head(msgs).kind = "authenticate"
      /\ msgs' = Tail(msgs)
      /\ Send((IF service THEN <<Packet("service", req, TRUE)>> ELSE <<>>)
              \o (IF IsWaiting THEN <<FirstPacket(req)>> ELSE <<>>))
      /\ cSent' = (cSent \/ service)
      /\ cState' = IF IsWaiting THEN "auth" ELSE cState
      /\ cCurrent' = IF IsWaiting THEN CurrentOf(req) ELSE cCurrent
      /\ cReq' = req /\ cHas' = TRUE
      /\ UNCHANGED <<peer, s2c, srvVars, cAccepted, zips, replies, app, call, wrong, spoiled, talk>>

CliAccept ==
  /\ CliReads({"service"}, {"accept"})
  /\ cAccepted' = TRUE
  /\ IF cHas THEN cState' = "auth" /\ cCurrent' = CurrentOf(cReq) /\ Send(<<FirstPacket(cReq)>>)
             ELSE UNCHANGED <<cState, cCurrent, c2s>>
  /\ UNCHANGED <<cSent, cReq, cHas, zips, replies>>

\* Success: decompression starts at once, compression at the end of the
\* iteration.
CliSuccess ==
  /\ CliReads({"auth"}, {"success"})
  /\ Tell("success") /\ cState' = "done"
  /\ zips' = IF Deferred THEN zips \cup {"client in", "client out"} ELSE zips
  /\ UNCHANGED <<c2s, cSent, cAccepted, cCurrent, cReq, cHas>>

\* Failure; without another method to try the session ends.
CliFailure ==
  /\ CliReads({"auth"}, {"failure"})
  /\ Tell("failure") /\ cHas' = FALSE
  /\ cState' = IF R.methods = {} THEN "ended" ELSE "auth"
  /\ UNCHANGED <<c2s, cSent, cAccepted, cCurrent, cReq, zips>>

\* PK_OK and INFO_REQUEST are the same number: what it means depends on the
\* request the client believes to be under way.
CliPrompt ==
  /\ CliReads({"auth"}, {"pk_ok", "prompt"}) /\ cCurrent = "keyboard"
  /\ IF R.kind = "prompt" THEN Tell("prompt") /\ cState' = "wait responses"
                          ELSE cState' = "ended" /\ UNCHANGED replies
  /\ UNCHANGED <<c2s, cSent, cAccepted, cCurrent, cReq, cHas, zips>>

\* Mutant: the PK_OK of a delegated key is not passed on to the signer.
CliPkOkUnsigned ==
  /\ CliReads({"auth"}, {"pk_ok", "prompt"}) /\ cCurrent = "none"
  /\ cHas' = FALSE
  /\ IF cHas /\ cReq.method = "publickey" THEN Send(<<Packet("signed", cReq, TRUE)>>) ELSE UNCHANGED c2s
  /\ UNCHANGED <<cState, replies, cSent, cAccepted, cCurrent, cReq, zips>>
CliPkOk ==
  /\ CliReads({"auth"}, {"pk_ok", "prompt"}) /\ cCurrent = "none"
  /\ cHas' = FALSE
  /\ CASE cHas /\ cReq.method = "publickey" ->
            Send(<<Packet("signed", cReq, TRUE)>>) /\ UNCHANGED <<cState, replies>>
       [] cHas /\ cReq.method = "signer" ->
            Tell("sign") /\ cState' = "wait signature" /\ UNCHANGED c2s
       [] OTHER -> UNCHANGED <<c2s, cState, replies>>
  /\ UNCHANGED <<cSent, cAccepted, cCurrent, cReq, zips>>

\* Banners are shown; behind the success what the server asks is replied to and
\* the rest is taken or ignored.
CliOther ==
  /\ \/ CliReads({"auth"}, {"banner"}) /\ UNCHANGED c2s
     \/ /\ CliReads({"done"}, ServerKinds)
        /\ IF R.kind \in Unasked THEN Send(<<Packet("reply", cReq, TRUE)>>) ELSE UNCHANGED c2s
  /\ UNCHANGED <<cliVars, zips, replies>>

\* Error::Inconsistent: any other message, and a packet in the wrong form.
CliRefuses ==
  /\ CliRuns /\ s2c # <<>>
  /\ \/ R.z # ("client in" \in zips)
     \/ cState = "service" /\ R.kind # "accept"
     \/ cState = "auth" /\ R.kind \in {"accept", "answer"} \cup Unasked
  /\ cState' = "ended"
  /\ UNCHANGED <<peer, c2s, s2c, srvVars, cSent, cAccepted, cCurrent, cReq, cHas, zips, appVars, talk>>

\* The message a waiting session loop waits for; every other one is dropped.
CliMessage ==
  LET kind == Head(msgs).kind
      awaited == \/ cState = "wait responses" /\ kind = "responses"
                 \/ cState = "wait signature" /\ kind = "signed"
  IN  /\ cState # "ended" /\ msgs # <<>> /\ ~(CliRuns /\ kind = "authenticate")
      /\ msgs' = Tail(msgs)
      /\ IF awaited THEN /\ cState' = "auth"
                         /\ Send(<<Packet(IF kind = "responses" THEN "response" ELSE "signed", cReq, TRUE)>>)
                    ELSE UNCHANGED <<cState, c2s>>
      /\ UNCHANGED <<peer, s2c, srvVars, cSent, cAccepted, cCurrent, cReq, cHas, zips,
                     replies, app, call, wrong, spoiled, talk>>

CliHangup ==
  /\ CliRuns /\ srv = "ended" /\ s2c = <<>>
  /\ cState' = "ended"
  /\ UNCHANGED <<peer, c2s, s2c, srvVars, cSent, cAccepted, cCurrent, cReq, cHas, zips, appVars, talk>>

CliStep ==
  \/ CliAuthenticate \/ CliAccept \/ CliSuccess \/ CliFailure \/ CliPrompt \/ CliPkOk \/ CliOther
  \/ CliRefuses \/ CliMessage \/ CliHangup
-----------------------------------------------------------------------------
(* The application of the client. *)

Sessions == <<peer, c2s, s2c, srvVars, cliVars, zips, talk>>

\* authenticate_none, _password, _publickey, _publickey_with and
\* _keyboard_interactive_start.
AppCall ==
  /\ peer = "russh" /\ app = "idle" /\ call.call < MaxCalls /\ cState # "ended"
  /\ \E u \in Users, m \in CallMethods, k \in OwnKeys \cup {NoKey} :
       /\ (k = NoKey) = (m \in {"none", "password", "keyboard"})
       /\ call' = [call |-> call.call + 1, user |-> u, method |-> m, key |-> k]
  /\ msgs' = Append(msgs, [kind |-> "authenticate", req |-> call'])
  /\ app' = "waiting" /\ spoiled' = (spoiled \/ cState = "done")
  /\ UNCHANGED <<Sessions, replies, wrong>>

\* wait_recv_reply and wait_recv_keyboard_interactive_reply: a reply that is of
\* no use to the running call is skipped, and a session that ended answers too.
AppReply ==
  /\ app = "waiting" /\ replies # <<>>
  /\ LET r == Head(replies)
     IN  /\ replies' = Tail(replies)
         /\ app' = CASE r.kind \in {"success", "failure"} -> "idle"
                     [] r.kind = "prompt" /\ call.method = "keyboard" -> "prompted"
                     [] r.kind = "sign" /\ call.method = "signer" -> "signing"
                     [] OTHER -> "waiting"
         /\ wrong' = (wrong \/ (app' # "waiting" /\ r.call # call.call))
  /\ UNCHANGED <<Sessions, msgs, call, spoiled>>

AppSessionEnded ==
  /\ app # "idle" /\ cState = "ended" /\ replies = <<>>
  /\ app' = "idle"
  /\ UNCHANGED <<Sessions, msgs, replies, call, wrong, spoiled>>

\* authenticate_keyboard_interactive_respond, Signer::auth_sign.
AppProvide ==
  /\ app \in {"prompted", "signing"} /\ cState # "ended"
  /\ msgs' = Append(msgs, [kind |-> IF app = "prompted" THEN "responses" ELSE "signed", req |-> call])
  /\ app' = "waiting"
  /\ UNCHANGED <<Sessions, replies, call, wrong, spoiled>>

\* The signer fails and the call returns its error, or the future of a call is
\* dropped.
AppGivesUp ==
  /\ app # "idle" /\ app' = "idle" /\ spoiled' = TRUE
  /\ UNCHANGED <<Sessions, msgs, replies, call, wrong>>

\* A request behind the success.
AppOther ==
  /\ cState = "done" /\ call.call <= MaxCalls /\ c2s = <<>> /\ srv # "done"
  /\ Send(<<Packet("other", cReq, TRUE)>>)
  /\ UNCHANGED <<peer, s2c, srvVars, cliVars, zips, appVars, talk>>

AppStep == AppReply \/ AppSessionEnded \/ AppProvide
-----------------------------------------------------------------------------
(* Any other client, and what the two sides send of their own accord. *)

\* Any well-formed packet, whatever was answered to the ones before.
PeerSends ==
  /\ peer = "any" /\ c2s = <<>> /\ srv \in {"service", "auth"} /\ call.call < MaxPackets
  /\ call' = [call EXCEPT !.call = @ + 1]
  /\ \E kind \in ClientKinds \ {"other", "reply", "global"}, u \in Users, k \in Keys, valid \in BOOLEAN :
       c2s' = <<[kind |-> kind, call |-> 0, user |-> u, key |-> k, valid |-> valid, z |-> FALSE]>>
  /\ UNCHANGED <<peer, s2c, srvVars, cliVars, zips, msgs, replies, app, wrong, spoiled, talk>>

\* The keepalive timer, a task with the server's Handle or a callback of its
\* Handler: a global request looks neither at the state of the authentication nor
\* at the compression, channel_open_generic wants the success sent.
ServerStarts ==
  /\ peer = "russh" /\ srv # "ended" /\ talk["server"] < MaxUnasked
  /\ talk' = [talk EXCEPT !["server"] = @ + 1]
  /\ \E kind \in Unasked :
       /\ kind = "open" => srv \in {"init", "done"}
       /\ s2c' = Append(s2c, Own(kind))
  /\ UNCHANGED <<peer, c2s, srvVars, cliVars, zips, appVars>>

\* The keepalive timer, or a callback of the client's Handler (auth_banner has the
\* Session); channels are opened on an authenticated session only.
ClientStarts ==
  /\ peer = "russh" /\ CliRuns /\ talk["client"] < MaxUnasked
  /\ talk' = [talk EXCEPT !["client"] = @ + 1]
  /\ Send(<<Packet("global", NoRequest, TRUE)>>)
  /\ UNCHANGED <<peer, s2c, srvVars, cliVars, zips, appVars>>
-----------------------------------------------------------------------------
Next ==
  \/ SrvStep \/ CliStep \/ AppStep \/ AppCall \/ AppGivesUp \/ AppOther
  \/ PeerSends \/ ServerStarts \/ ClientStarts

Spec == Init /\ [][Next]_vars

\* Both session loops read and take messages, and the application goes on with
\* the call it started.
FairSpec == Spec /\ WF_vars(SrvStep) /\ WF_vars(CliStep) /\ WF_vars(AppStep)
-----------------------------------------------------------------------------
(* Properties. *)

\* Authentication by key succeeds only for a user and a key whose last offer the
\* Handler accepted: an accepted probe never stands for another key or user, nor
\* for one that was refused since.
KeyWasOffered == how.kind = "signed" => <<how.user, how.key>> \in offered

\* The request under way belongs to the user of the last request: responses,
\* which name no user, are never credited to another one.
CurrentBelongsToUser ==
  srv = "auth" /\ current.kind # "none" => authUser = principal /\ authUser # NoUser

\* What the server keeps of one request (the probe, auth_user, the current
\* method) is never credited to another user, key or request.
CreditedToItsUser == KeyWasOffered /\ CurrentBelongsToUser

\* Each direction starts to compress at the same packet on both sides.  What is
\* read in the wrong form, and ends the session, was sent unasked while the success
\* was on its way or, by the server, before the client's first packet behind it
\* (nothing in the code keeps a global request, nor an opening of a channel by
\* auth_succeeded or a task, out of that time), or is the request of a call made
\* while the answer to an abandoned one was on its way.  Requests, verdicts and
\* answers are always in the form their reader expects.
CompressionInStep ==
  /\ (srv # "ended" /\ c2s # <<>> /\ P.z # ("server in" \in zips)) => P.kind = "global" \/ spoiled
  /\ (CliRuns /\ s2c # <<>> /\ R.z # ("client in" \in zips)) => R.kind \in Unasked

\* A call returns the server's verdict on its own request, unless an earlier
\* call was abandoned.
ResultOfOwnCall == wrong => spoiled

\* A call returns, unless it or an earlier one was abandoned, its signer failed,
\* or it was made on an authenticated session.
CallReturns == app # "idle" ~> app = "idle" \/ spoiled

=============================================================================
