---------------------------- MODULE ChannelOpen ----------------------------
(***************************************************************************)
(* Opening channels and asking global requests over one connection: the    *)
(* Handle::channel_open_* calls of an application, its session (opener),   *)
(* the session that is asked (responder), the ChannelOpenHandle that gives *)
(* the answer to the responder's handler, and the queue of open global     *)
(* requests by which answers without a number find whoever asked.          *)
(*                                                                         *)
(* Either side may be the opener, and either end may be another SSH        *)
(* implementation: one that grants window at once and answers only         *)
(* requests that want an answer, or one that opens channel types russh     *)
(* does not serve.  Key exchanges only delay the steps below (Rekey), and  *)
(* data of the open channel is left to InboundDelivery and OutboundFlow    *)
(* but for the first writes after an accept.                               *)
(***************************************************************************)
EXTENDS Integers, Sequences, FiniteSets, Functions

CONSTANTS
  Calls,        \* channel_open_* calls, or CHANNEL_OPENs of another implementation
  Ends,         \* pairs of opener and responder to consider
  FirstId,      \* last_channel_id of the responder at the start
  InitWindow,   \* initial window the responder grants
  MaxAsks,      \* bound: opens and global requests together
  MaxGrants,    \* bound: window grants of the responder
  MaxWrites     \* bound: first writes of the responder's tasks

ASSUME ChannelOpenAssumption ==
  /\ IsFiniteSet(Calls) /\ Ends \subseteq {"client", "server", "other"} \X {"russh", "other"}
  /\ FirstId \in Nat /\ InitWindow \in Nat
  /\ MaxAsks \in Nat /\ MaxGrants \in Nat /\ MaxWrites \in Nat

VARIABLES
  opener, responder, \* who they are: one of Ends
  call,       \* what each Handle::channel_open_* call is doing
  queue,      \* Msg::ChannelOpen* waiting for the opener's session
  lastId,     \* Encrypted::last_channel_id of the opener
  params,     \* Encrypted::channels of the opener
  refs,       \* Session::channels of the opener: whose buffer each channel feeds
  buf,        \* the buffer of each call's Receiver
  shared,     \* WindowSizeRef of each call
  got,        \* the channel a call returned, 0 if none
  requests,   \* the global requests asked so far: who, if anybody, waits for the answer
  fifo,       \* Session::open_global_requests: the requests' numbers
  alive,      \* does the opener's session still run?
  toR, toO,   \* packets on their way
  rLast,      \* Encrypted::last_channel_id of the responder
  handles,    \* ChannelOpenHandles given out, by the responder's channel number
  replies,    \* open_reply queue of the responder
  rChans,     \* Session::channels of the responder
  writes, written, \* ChannelMsg::Data its tasks have queued, and how many ever
  grants,     \* window grants so far
  answers,    \* history: answers the responder has given, by call
  early,      \* history: calls whose window grew before they had read Open
  skewed,     \* history: an answer was expected and not given, or the reverse
  discarded   \* history: writes for a channel the responder had not registered

openerVars == <<queue, lastId, params, refs, requests, fifo, alive, early, skewed>>
appVars == <<call, buf, shared, got>>
responderVars == <<rLast, handles, replies, rChans, writes, written, grants, answers, discarded>>
vars == <<opener, responder, openerVars, appVars, toR, toO, responderVars>>
-----------------------------------------------------------------------------
Requests == 1 .. MaxAsks

\* Opens and requests so far.
Asks == Len(requests) + Cardinality({c \in Calls : call[c] # "idle"})
Ids == 1 .. Cardinality(Calls) + FirstId

\* The requests that are answered without a number, and whether they want an
\* answer.  keepalive also stands for no-more-sessions; forward for the four
\* forwarding requests, with a reply_channel when they want an answer, and for
\* ping, which always does.  agent is auth-agent-req on an open channel, a
\* CHANNEL_REQUEST.
Request == [kind : {"keepalive", "forward", "agent"}, want : BOOLEAN]

\* A server's keepalive always wants an answer, and only a client forwards its agent.
Askable(q) ==
  /\ opener = "server" /\ q.kind = "keepalive" => q.want
  /\ q.kind = "agent" => opener = "client" /\ \E c \in Calls : call[c] = "open"

\* Requests whose asker waits for the answer.
Waits(q) == q.kind = "forward" /\ q.want

\* An entry is pushed for a forward with a reply_channel and for every keepalive.
Pushes(q) == q.kind = "keepalive" \/ Waits(q)

\* A russh server answers every GLOBAL_REQUEST, a russh client every one but
\* a keepalive that wants no answer; others answer when asked to.  A russh server
\* answers auth-agent-req by request_success or request_failure, as if it were a
\* global request: the first writes only if the last one of those wanted an
\* answer, the second always, so that q.want is either here; the answer of
\* another server carries the channel's number.
Answers(q) == IF responder = "other" THEN q.kind # "agent" /\ q.want
              ELSE IF q.kind = "agent" THEN q.want
              ELSE opener = "client" \/ q.kind = "forward" \/ q.want

OpenMsg == [msg : {"OPEN"}, id : Ids, of : Calls, served : BOOLEAN]
RequestMsg == [msg : {"REQUEST"}, of : Requests, req : Request]
ChannelMsg == [msg : {"CONFIRM"}, id : Ids, from : Ids] \cup [msg : {"REFUSE", "ADJUST", "DATA"}, id : Ids]
AnswerMsg == [msg : {"ANSWER"}, of : Requests]

Without(f, i) == Restrict(f, DOMAIN f \ {i})
With(f, i, v) == [j \in DOMAIN f \cup {i} |-> IF j = i THEN v ELSE f[j]]

Init ==
  /\ \E e \in Ends : opener = e[1] /\ responder = e[2]
  /\ call = [c \in Calls |-> "idle"] /\ buf = [c \in Calls |-> <<>>]
  /\ shared = [c \in Calls |-> 0] /\ got = [c \in Calls |-> 0]
  /\ queue = <<>> /\ lastId = 0 /\ params = <<>> /\ refs = <<>>
  /\ requests = <<>> /\ fifo = <<>> /\ alive = TRUE
  /\ toR = <<>> /\ toO = <<>>
  /\ rLast = FirstId /\ handles = <<>> /\ replies = <<>> /\ rChans = <<>> /\ writes = <<>>
  /\ grants = 0 /\ written = 0 /\ answers = [c \in Calls |-> 0]
  /\ early = {} /\ skewed = FALSE /\ discarded = 0
-----------------------------------------------------------------------------
(* The opener: application and session. *)

Russh == opener # "other" /\ alive

\* Handle::channel_open_*: hands a ChannelRef to the session, then waits.
AppOpens(c) ==
  /\ Russh /\ call[c] = "idle" /\ Asks < MaxAsks
  /\ call' = [call EXCEPT ![c] = "waiting"]
  /\ queue' = Append(queue, c)
  /\ UNCHANGED <<opener, responder, lastId, params, refs, requests, fifo, alive, early, skewed,
                 buf, shared, got, toR, toO, responderVars>>

\* The future of the call is dropped, and with it the Receiver.
AppDrops(c) ==
  /\ opener # "other" /\ call[c] = "waiting"
  /\ call' = [call EXCEPT ![c] = "dropped"]
  /\ buf' = [buf EXCEPT ![c] = <<>>]
  /\ UNCHANGED <<opener, responder, openerVars, shared, got, toR, toO, responderVars>>

\* wait_channel_confirmation reads Open or OpenFailure.
AppReads(c) ==
  /\ call[c] = "waiting" /\ buf[c] # <<>>
  /\ buf' = [buf EXCEPT ![c] = Tail(@)]
  /\ \/ /\ Head(buf[c]).msg = "Open"
        /\ shared' = [shared EXCEPT ![c] = Head(buf[c]).window]
        /\ got' = [got EXCEPT ![c] = Head(buf[c]).id]
        /\ call' = [call EXCEPT ![c] = "open"]
     \/ /\ Head(buf[c]).msg = "OpenFailure"
        /\ call' = [call EXCEPT ![c] = "refused"]
        /\ UNCHANGED <<shared, got>>
  /\ UNCHANGED <<opener, responder, openerVars, toR, toO, responderVars>>

\* The session has gone: recv() yields None, or the Msg could not be sent.
AppDisconnected(c) ==
  /\ ~alive /\ call[c] = "waiting" /\ buf[c] = <<>>
  /\ call' = [call EXCEPT ![c] = "disconnected"]
  /\ UNCHANGED <<opener, responder, openerVars, buf, shared, got, toR, toO, responderVars>>

\* Encrypted::new_channel_id, new_channel.
FreshId(last, used) == CHOOSE i \in last + 1 .. last + Cardinality(used) + 1 :
                         i \notin used /\ \A j \in last + 1 .. i - 1 : j \in used

\* channel_open_generic: an unconfirmed entry of Encrypted::channels, CHANNEL_OPEN.
channel_open_generic(c, i) ==
  /\ params' = With(params, i, [confirmed |-> FALSE, to |-> 0, window |-> 0])
  /\ toR' = Append(toR, [msg |-> "OPEN", id |-> i, of |-> c, served |-> TRUE])

\* dispatch_msg, handle_msg of Msg::ChannelOpen*: the channel is opened and the
\* ChannelRef goes into Session::channels.
OpenerDispatches ==
  /\ Russh /\ queue # <<>> /\ queue' = Tail(queue)
  /\ lastId' = FreshId(lastId, DOMAIN params)
  /\ channel_open_generic(Head(queue), lastId')
  /\ refs' = With(refs, lastId', Head(queue))
  /\ UNCHANGED <<opener, responder, requests, fifo, alive, early, skewed, appVars, toO, responderVars>>

\* send_keepalive, send_ping, no_more_sessions, tcpip_forward and its like, and
\* agent_forward.
OpenerAsks(q) ==
  /\ Russh /\ Asks < MaxAsks /\ Askable(q)
  /\ LET n == Len(requests) + 1
     IN /\ requests' = Append(requests, IF Waits(q) THEN "waiting" ELSE "nobody")
        /\ fifo' = IF Pushes(q) THEN Append(fifo, n) ELSE fifo
        /\ toR' = Append(toR, [msg |-> "REQUEST", of |-> n, req |-> q])
  /\ skewed' = (skewed \/ Pushes(q) # Answers(q))
  /\ UNCHANGED <<opener, responder, queue, lastId, params, refs, alive, early, appVars, toO, responderVars>>

\* The oldest channel not yet confirmed takes the confirmation.
OpenerConfirmedInOrder(i, from) ==
  LET waiting == {j \in DOMAIN params : ~params[j].confirmed}
      first == IF waiting = {} THEN i ELSE CHOOSE j \in waiting : \A k \in waiting : j <= k
  IN IF i \in DOMAIN params
     THEN /\ params' = [params EXCEPT ![first] = [confirmed |-> TRUE, to |-> from, window |-> InitWindow]]
          /\ buf' = IF first \in DOMAIN refs /\ call[refs[first]] = "waiting"
                    THEN [buf EXCEPT ![refs[first]] = Append(@, [msg |-> "Open", id |-> first, window |-> InitWindow])]
                    ELSE buf
          /\ UNCHANGED <<refs, alive, shared, early>>
     ELSE /\ alive' = FALSE
          /\ UNCHANGED <<params, buf, refs, shared, early>>

\* CHANNEL_OPEN_CONFIRMATION: confirm, then ChannelMsg::Open; a dropped
\* Receiver is no error here.
OpenerConfirmed(i, from) ==
  IF i \in DOMAIN params
  THEN /\ params' = [params EXCEPT ![i] = [confirmed |-> TRUE, to |-> from, window |-> InitWindow]]
       /\ buf' = IF i \in DOMAIN refs /\ call[refs[i]] = "waiting"
                 THEN [buf EXCEPT ![refs[i]] = Append(@, [msg |-> "Open", id |-> i, window |-> InitWindow])]
                 ELSE buf
       /\ UNCHANGED <<refs, alive, shared, early>>
  ELSE /\ alive' = FALSE
       /\ UNCHANGED <<params, buf, refs, shared, early>>

\* CHANNEL_OPEN_FAILURE.  The server gives up the session when the Receiver
\* has been dropped; the client does not mind.
OpenerRefused(i) ==
  /\ params' = Without(params, i) /\ refs' = Without(refs, i)
  /\ buf' = IF i \in DOMAIN refs /\ call[refs[i]] = "waiting"
            THEN [buf EXCEPT ![refs[i]] = Append(@, [msg |-> "OpenFailure"])]
            ELSE buf
  /\ alive' = ~(opener = "server" /\ i \in DOMAIN refs /\ call[refs[i]] # "waiting")
  /\ UNCHANGED <<shared, early>>

OpenerAdjustedOnlySession(i) ==
  /\ params' = IF i \in DOMAIN params THEN [params EXCEPT ![i].window = @ + 1] ELSE params
  /\ UNCHANGED <<refs, alive, buf, shared, early>>

\* CHANNEL_WINDOW_ADJUST: the session's window, then the shared one.
OpenerAdjusted(i) ==
  /\ params' = IF i \in DOMAIN params THEN [params EXCEPT ![i].window = @ + 1] ELSE params
  /\ shared' = IF i \in DOMAIN params \cap DOMAIN refs
               THEN [shared EXCEPT ![refs[i]] = params[i].window + 1] ELSE shared
  /\ early' = IF i \in DOMAIN refs /\ call[refs[i]] = "waiting" THEN early \cup {refs[i]} ELSE early
  /\ UNCHANGED <<refs, alive, buf>>

\* The entry of a request nobody waits for is thrown away when it is pushed,
\* not when it is answered.
OpenerAnsweredSkipping(n) ==
  LET line == SelectSeq(fifo, LAMBDA m : requests[m] # "nobody")
  IN /\ fifo' = IF line = <<>> THEN line ELSE Tail(line)
     /\ requests' = IF line = <<>> \/ requests[Head(line)] # "waiting" THEN requests
                    ELSE [requests EXCEPT ![Head(line)] = IF n = Head(line) THEN "own" ELSE "other's"]

\* REQUEST_SUCCESS and REQUEST_FAILURE: whoever is first in line gets the answer.
OpenerAnswered(n) ==
  /\ fifo' = IF fifo = <<>> THEN fifo ELSE Tail(fifo)
  /\ requests' = IF fifo = <<>> \/ requests[Head(fifo)] # "waiting" THEN requests
                 ELSE [requests EXCEPT ![Head(fifo)] = IF n = Head(fifo) THEN "own" ELSE "other's"]

\* One packet for the opener.
OpenerReads ==
  /\ Russh /\ toO # <<>> /\ toO' = Tail(toO)
  /\ LET p == Head(toO)
     IN \/ p.msg = "CONFIRM" /\ OpenerConfirmed(p.id, p.from) /\ UNCHANGED <<fifo, requests>>
        \/ p.msg = "REFUSE" /\ OpenerRefused(p.id) /\ UNCHANGED <<fifo, requests>>
        \/ p.msg = "ADJUST" /\ OpenerAdjusted(p.id) /\ UNCHANGED <<fifo, requests>>
        \/ p.msg = "ANSWER" /\ OpenerAnswered(p.of) /\ UNCHANGED <<params, refs, buf, alive, shared, early>>
        \/ p.msg = "DATA" /\ UNCHANGED <<fifo, requests, params, refs, buf, alive, shared, early>>
  /\ UNCHANGED <<opener, responder, queue, lastId, skewed, call, got, toR, responderVars>>

\* Another implementation opens a channel, of a type the responder serves or not.
PeerOpens(c, served) ==
  /\ opener = "other" /\ call[c] = "idle"
  /\ call' = [call EXCEPT ![c] = "dropped"]
  /\ lastId' = lastId + 1
  /\ toR' = Append(toR, [msg |-> "OPEN", id |-> lastId + 1, of |-> c, served |-> served])
  /\ UNCHANGED <<opener, responder, queue, params, refs, requests, fifo, alive, early, skewed,
                 buf, shared, got, toO, responderVars>>

PeerReads ==
  /\ opener = "other" /\ toO # <<>> /\ toO' = Tail(toO)
  /\ UNCHANGED <<opener, responder, openerVars, appVars, toR, responderVars>>
-----------------------------------------------------------------------------
(* The responder: session, handler and its tasks. *)

\* server_handle_channel_open, the client's CHANNEL_OPEN: a fresh number and a
\* handle for the handler.  For a type it does not serve the session writes a
\* failure of its own, and the handle that nobody took is dropped.
ResponderOpened(p) ==
  LET i == FreshId(rLast, DOMAIN rChans)
  IN /\ rLast' = i
     /\ handles' = With(handles, i, [peer |-> p.id, of |-> p.of, served |-> p.served,
                                     state |-> IF p.served THEN "held" ELSE "rejected"])
     /\ IF p.served THEN UNCHANGED <<toO, replies, answers>>
        ELSE /\ toO' = Append(toO, [msg |-> "REFUSE", id |-> p.id])
             /\ answers' = [answers EXCEPT ![p.of] = @ + 1]
             /\ replies' = Append(replies, [chan |-> i, ok |-> FALSE])

\* GLOBAL_REQUEST, and auth-agent-req.
ResponderAsked(p) ==
  /\ toO' = IF Answers(p.req) THEN Append(toO, [msg |-> "ANSWER", of |-> p.of]) ELSE toO
  /\ UNCHANGED <<rLast, handles, replies, answers>>

ResponderReads ==
  /\ toR # <<>> /\ toR' = Tail(toR)
  /\ \/ Head(toR).msg = "OPEN" /\ ResponderOpened(Head(toR))
     \/ Head(toR).msg = "REQUEST" /\ ResponderAsked(Head(toR))
  /\ UNCHANGED <<opener, responder, openerVars, appVars, rChans, writes, written, grants, discarded>>

\* accept leaves the pending open in place, and Drop answers again.
HandlerDecidesTwice(i, ok) ==
  /\ i \in DOMAIN handles /\ handles[i].state = "held"
  /\ handles' = [handles EXCEPT ![i].state = IF ok THEN "accepted" ELSE "rejected"]
  /\ replies' = replies \o <<[chan |-> i, ok |-> ok], [chan |-> i, ok |-> FALSE]>>
  /\ UNCHANGED <<opener, responder, openerVars, appVars, toR, toO, rLast, rChans, writes, written, grants, answers, discarded>>

\* A handle that is dropped answers nothing.
HandlerDecidesSilently(i, ok) ==
  /\ i \in DOMAIN handles /\ handles[i].state = "held"
  /\ handles' = [handles EXCEPT ![i].state = IF ok THEN "accepted" ELSE "rejected"]
  /\ replies' = IF ok THEN Append(replies, [chan |-> i, ok |-> ok]) ELSE replies
  /\ UNCHANGED <<opener, responder, openerVars, appVars, toR, toO, rLast, rChans, writes, written, grants, answers, discarded>>

\* ChannelOpenHandleInner::accept, reject and Drop: the first of them takes
\* the pending open, and try_send_reply queues the answer.
HandlerDecides(i, ok) ==
  /\ i \in DOMAIN handles /\ handles[i].state = "held"
  /\ handles' = [handles EXCEPT ![i].state = IF ok THEN "accepted" ELSE "rejected"]
  /\ replies' = Append(replies, [chan |-> i, ok |-> ok])
  /\ UNCHANGED <<opener, responder, openerVars, appVars, toR, toO, rLast, rChans, writes, written, grants, answers, discarded>>

\* finalize_channel_open_reply: the packet for one answer.
Finalized(r) == IF r.ok THEN [msg |-> "CONFIRM", id |-> handles[r.chan].peer, from |-> r.chan]
                ELSE [msg |-> "REFUSE", id |-> handles[r.chan].peer]

\* drain_open_replies: every queued answer becomes a packet, and an accepted
\* channel is registered.
Drained == [k \in DOMAIN replies |-> Finalized(replies[k])]
Accepted == {replies[k].chan : k \in {j \in DOMAIN replies : replies[j].ok}}
Registered == [i \in DOMAIN rChans \cup Accepted |-> handles[i].peer]
NewAnswers == [c \in Calls |-> answers[c]
                 + Cardinality({k \in DOMAIN replies : handles[replies[k].chan].of = c})]

ResponderDrains ==
  /\ replies # <<>>
  /\ toO' = toO \o Drained /\ rChans' = Registered
  /\ answers' = NewAnswers /\ replies' = <<>>
  /\ UNCHANGED <<opener, responder, openerVars, appVars, toR, rLast, handles, writes, written, grants, discarded>>

\* A task writes to the channel its handler has accepted.
TaskWrites(i) ==
  /\ i \in DOMAIN handles /\ handles[i].state = "accepted" /\ written < MaxWrites
  /\ written' = written + 1
  /\ writes' = Append(writes, i)
  /\ UNCHANGED <<opener, responder, openerVars, appVars, toR, toO, rLast, handles, replies, rChans, grants, answers, discarded>>

\* The write goes first, whatever answers are waiting.
ResponderDispatchesUndrained ==
  /\ writes # <<>> /\ writes' = Tail(writes)
  /\ LET known == Head(writes) \in DOMAIN rChans
     IN /\ toO' = toO \o (IF known THEN <<[msg |-> "DATA", id |-> rChans[Head(writes)]]>> ELSE <<>>)
        /\ discarded' = IF known THEN discarded ELSE discarded + 1
  /\ UNCHANGED <<opener, responder, openerVars, appVars, toR, rLast, handles, replies, rChans, written, grants, answers>>

\* dispatch_msg, handle_msg: the answers first, then the write, which is
\* thrown away if the channel is not registered.
ResponderDispatches ==
  /\ writes # <<>> /\ writes' = Tail(writes)
  /\ rChans' = Registered
  /\ LET i == Head(writes)
         known == i \in DOMAIN Registered
     IN /\ toO' = toO \o Drained \o (IF known THEN <<[msg |-> "DATA", id |-> handles[i].peer]>> ELSE <<>>)
        /\ discarded' = IF known THEN discarded ELSE discarded + 1
  /\ answers' = NewAnswers /\ replies' = <<>>
  /\ UNCHANGED <<opener, responder, openerVars, appVars, toR, rLast, handles, written, grants>>

\* Another implementation grants window on a channel as soon as it likes.
PeerGrants(i) ==
  /\ responder = "other" /\ i \in DOMAIN rChans /\ grants < MaxGrants
  /\ grants' = grants + 1
  /\ toO' = Append(toO, [msg |-> "ADJUST", id |-> rChans[i]])
  /\ UNCHANGED <<opener, responder, openerVars, appVars, toR, rLast, handles, replies, rChans, writes, written, answers, discarded>>
-----------------------------------------------------------------------------
Next ==
  \/ \E c \in Calls : AppOpens(c) \/ AppDrops(c) \/ AppReads(c) \/ AppDisconnected(c)
  \/ \E q \in Request : OpenerAsks(q)
  \/ OpenerDispatches \/ OpenerReads
  \/ \E c \in Calls, served \in BOOLEAN : PeerOpens(c, served)
  \/ PeerReads
  \/ ResponderReads \/ ResponderDrains \/ ResponderDispatches
  \/ \E i \in Ids, ok \in BOOLEAN : HandlerDecides(i, ok)
  \/ \E i \in Ids : TaskWrites(i) \/ PeerGrants(i)

Spec == Init /\ [][Next]_vars

\* The sessions run, a handler decides or drops its handle in the end, and a
\* call is polled; nobody is obliged to open, ask, write or grant.
Fairness ==
  /\ WF_vars(OpenerDispatches) /\ WF_vars(OpenerReads)
  /\ WF_vars(ResponderReads) /\ WF_vars(ResponderDrains)
  /\ WF_vars(\E c \in Calls : AppReads(c) \/ AppDisconnected(c))
  /\ WF_vars(\E i \in Ids, ok \in BOOLEAN : HandlerDecides(i, ok))

FairSpec == Spec /\ Fairness
-----------------------------------------------------------------------------
\* Every variable keeps its shape.
TypeOK ==
  /\ <<opener, responder>> \in Ends /\ alive \in BOOLEAN /\ skewed \in BOOLEAN
  /\ call \in [Calls -> {"idle", "waiting", "open", "refused", "dropped", "disconnected"}]
  /\ queue \in Seq(Calls) /\ lastId \in 0 .. Cardinality(Calls)
  /\ DOMAIN params \subseteq Ids /\ DOMAIN refs = DOMAIN params
  /\ \A i \in DOMAIN params :
       /\ params[i] \in [confirmed : BOOLEAN, to : Ids \cup {0}, window : Nat]
       /\ refs[i] \in Calls
  /\ \A c \in Calls : Len(buf[c]) <= 1 /\ shared[c] \in Nat /\ got[c] \in Ids \cup {0}
  /\ requests \in Seq({"waiting", "nobody", "own", "other's"}) /\ fifo \in Seq(Requests)
  /\ toR \in Seq(OpenMsg \cup RequestMsg) /\ toO \in Seq(ChannelMsg \cup AnswerMsg)
  /\ rLast \in Ids \cup {0} /\ DOMAIN handles \subseteq Ids /\ DOMAIN rChans \subseteq DOMAIN handles
  /\ \A i \in DOMAIN handles : handles[i].state \in {"held", "accepted", "rejected"}
  /\ \A k \in DOMAIN replies : replies[k].chan \in DOMAIN handles
  /\ writes \in Seq(DOMAIN handles) /\ written \in 0 .. MaxWrites /\ grants \in 0 .. MaxGrants
  /\ answers \in [Calls -> Nat] /\ early \subseteq Calls /\ discarded \in Nat

\* A call that returns a channel has the one the responder's handler accepted
\* for that very call, and both ends name each other's number, although
\* handlers answer in any order and both numberings start where they like.
ChannelMatchesCall ==
  \A c \in Calls : call[c] = "open" =>
    LET i == got[c]
    IN /\ i \in DOMAIN params /\ refs[i] = c
       /\ params[i].to \in DOMAIN rChans
       /\ handles[params[i].to].of = c /\ rChans[params[i].to] = i

\* An open that reaches the handler is answered at most once, and exactly once
\* when its handle is used up and the queue of answers is empty.
AnsweredOnce ==
  \A i \in DOMAIN handles : handles[i].served =>
    /\ answers[handles[i].of] <= 1
    /\ handles[i].state # "held" /\ replies = <<>> => answers[handles[i].of] = 1

\* Every answer to a global request reaches whoever asked it, as long as each
\* end has answered exactly the requests the other keeps an entry for.  A forward
\* without an answer that russh answers, a keepalive that it does not, and an
\* auth-agent-req that it refuses, break this agreement.
AnswerToAsker == ~skewed => \A n \in DOMAIN requests : requests[n] # "other's"

\* Once a call has returned, the window its writer sees is the session's, but
\* for grants that were applied before the call had read ChannelMsg::Open.
OpenWindowKnown ==
  \A c \in Calls : call[c] = "open" /\ c \notin early => shared[c] = params[got[c]].window

\* A channel can be written to as soon as its task has it: what is written after
\* accept() is not dispatched before the channel is registered, as the answers
\* are drained first, and the opener's writer knows its window.
WritableFromTheStart == discarded = 0 /\ OpenWindowKnown

\* A request whose asker still waits.
Pending(n) == n \in DOMAIN requests /\ requests[n] = "waiting"

\* Every call and every request comes back: with the responder's decision, or
\* with an error when the session is gone.
CallReturns ==
  /\ \A c \in Calls : call[c] = "waiting" ~> call[c] # "waiting"
  /\ \A n \in Requests : Pending(n) ~> (~Pending(n) \/ skewed \/ ~alive)
=============================================================================
