------------------------------- MODULE Agent -------------------------------
(***************************************************************************)
(* The SSH agent: the server (keys/agent/server.rs), one task per          *)
(* connection over a shared key store and a shared lock, the timers of the *)
(* keys with a lifetime, and an AgentClient at the other end of every      *)
(* connection (keys/agent/client.rs).                                      *)
(*                                                                         *)
(* respond reads the lock once, then awaits Agent::confirm_request and     *)
(* only then touches the store: the other connections run in between.  A   *)
(* call of the client writes a request and reads one answer; its future    *)
(* may be dropped in between.  A frame is a request or one of the two      *)
(* pieces that a request without a length prefix is read as.  Two          *)
(* additions of keys read different times.                                 *)
(***************************************************************************)
EXTENDS Integers, Sequences, FiniteSets

CONSTANTS
  Conns,        \* connections to the agent
  Keys,         \* key blobs
  Passes,       \* passphrases: sequences, which the agent may concatenate
  Constraints,  \* lists of constraints that add_identity is called with
  Ops,          \* the calls that each client makes
  MaxCalls,     \* bound: calls of one client
  MaxAdds       \* bound: keys added

OpNames == {"list", "sign", "add", "remove", "remove_all", "clear", "lock", "unlock",
            "smartcard", "extension"}

ASSUME AgentAssumption ==
  /\ Passes \subseteq Seq(STRING) /\ MaxCalls \in Nat /\ MaxAdds \in Nat
  /\ Constraints \subseteq Seq({"lifetime", "confirm", "extension"})
  /\ Ops \in [Conns -> SUBSET OpNames] /\ IsFiniteSet(Conns)

VARIABLES
  keys,     \* KeyStore: for each blob NoKey, or when and with which constraints it was added
  lock,     \* Lock: the passphrase, empty when the agent is not locked
  timers,   \* the sleeping tasks: <<blob, time of addition>>
  clock,    \* SystemTime
  conn,     \* each Connection: "read", in "confirm_request", or "ended"
  cur,      \* the request it responds to
  sent,     \* frames on their way to the agent
  answers,  \* answers on their way to the client
  call,     \* the call of the client that waits for its answer
  calls,    \* calls so far
  dropped,  \* was a call of this client dropped while it waited?
  result,   \* the last call that returned and the answer it was given
  before,   \* history: connections that awaited confirm_request at the last Lock
  overlap   \* history: was a Lock granted that awaited it when another was granted?

vars == <<keys, lock, timers, clock, conn, cur, sent, answers, call, calls, dropped, result,
          before, overlap>>
storeVars == <<keys, lock, timers, clock, overlap>>
clientVars == <<call, calls, dropped, result>>

NoKey == [time |-> 0, cons |-> <<>>]
NoCall == [id |-> 0, op |-> "none"]
NoResult == [call |-> NoCall, kind |-> "none"]

Has(cons, c) == \E i \in 1 .. Len(cons) : cons[i] = c

\* What a client may ask for.  A call of remove_all_identities, extension or
\* query_extension never writes a length; "clear" is the same request of another
\* implementation, with its length.
Request(c, id) ==
  [id : {id}, op : {"list", "remove_all", "clear", "smartcard", "extension"} \cap Ops[c]]
    \cup [id : {id}, op : {"sign", "remove"} \cap Ops[c], key : Keys]
    \cup [id : {id}, op : {"add"} \cap Ops[c], key : Keys, cons : Constraints]
    \cup [id : {id}, op : {"lock", "unlock"} \cap Ops[c], pass : Passes]
Unframed == {"remove_all", "extension"}

TypeOK ==
  /\ \A k \in Keys : keys[k].time \in 0 .. clock /\ keys[k].cons \in Seq({"lifetime", "confirm"})
  /\ lock \in Seq(STRING) /\ timers \subseteq Keys \X (1 .. clock) /\ clock \in 0 .. MaxAdds
  /\ conn \in [Conns -> {"read", "confirm", "ended"}]
  /\ calls \in [Conns -> 0 .. MaxCalls] /\ dropped \in [Conns -> BOOLEAN]
  /\ before \subseteq Conns /\ overlap \in BOOLEAN

Init ==
  /\ keys = [k \in Keys |-> NoKey] /\ lock = <<>> /\ timers = {} /\ clock = 0
  /\ conn = [c \in Conns |-> "read"] /\ cur = [c \in Conns |-> NoCall]
  /\ sent = [c \in Conns |-> <<>>] /\ answers = [c \in Conns |-> <<>>]
  /\ call = [c \in Conns |-> NoCall] /\ calls = [c \in Conns |-> 0]
  /\ dropped = [c \in Conns |-> FALSE] /\ result = [c \in Conns |-> NoResult]
  /\ before = {} /\ overlap = FALSE

-----------------------------------------------------------------------------
(* The client. *)

\* The frames that the agent makes of what a call writes.
Frames(r) == IF r.op \in Unframed
             THEN <<[id |-> r.id, op |-> "empty"], [id |-> r.id, op |-> "huge"]>>
             ELSE <<r>>

ClientCall(c) ==
  /\ call[c] = NoCall /\ calls[c] < MaxCalls
  /\ calls' = [calls EXCEPT ![c] = @ + 1]
  /\ \E r \in Request(c, calls'[c]) :
       /\ call' = [call EXCEPT ![c] = r]
       /\ sent' = [sent EXCEPT ![c] = IF conn[c] = "ended" THEN @ ELSE @ \o Frames(r)]
  /\ result' = [result EXCEPT ![c] = NoResult]
  /\ UNCHANGED <<storeVars, before, conn, cur, answers, dropped>>

\* Mutant: add_identity does not look at the answer, like lock and unlock.
OutcomeUnchecked(r, kind) == "ok"
\* What each call makes of an answer: most calls take any answer.
Outcome(r, kind) ==
  CASE r.op \in {"add", "remove_all"} -> IF kind = "success" THEN "ok" ELSE "err"
    [] r.op = "sign" -> IF kind = "signature" THEN "ok" ELSE "err"
    [] OTHER -> "ok"

\* read_frame returns with the next answer, whichever request it answers.
ClientReturns(c) ==
  /\ call[c] # NoCall /\ answers[c] # <<>>
  /\ result' = [result EXCEPT ![c] =
                  [call |-> call[c], kind |-> Outcome(call[c], Head(answers[c]).kind),
                   answer |-> Head(answers[c])]]
  /\ answers' = [answers EXCEPT ![c] = Tail(@)]
  /\ call' = [call EXCEPT ![c] = NoCall]
  /\ UNCHANGED <<storeVars, before, conn, cur, sent, calls, dropped>>

\* The stream is at its end.
ClientFails(c) ==
  /\ call[c] # NoCall /\ answers[c] = <<>> /\ conn[c] = "ended"
  /\ result' = [result EXCEPT ![c] = [call |-> call[c], kind |-> "closed"]]
  /\ call' = [call EXCEPT ![c] = NoCall]
  /\ UNCHANGED <<storeVars, before, conn, cur, sent, answers, calls, dropped>>

\* The future of a call is dropped while it waits for its answer.
ClientDrops(c) ==
  /\ call[c] # NoCall
  /\ call' = [call EXCEPT ![c] = NoCall]
  /\ dropped' = [dropped EXCEPT ![c] = TRUE]
  /\ UNCHANGED <<storeVars, before, conn, cur, sent, answers, calls, result>>
-----------------------------------------------------------------------------
(* The agent. *)

\* The answer to request r, and whether the request took effect.
Answer(c, r, kind, done) ==
  answers' = [answers EXCEPT ![c] = Append(@, [id |-> r.id, kind |-> kind, done |-> done])]

\* Mutants: a locked agent still signs, or takes a second passphrase.
AdmittedSigning(r) == IF r.op = "unlock" THEN lock # <<>>
                      ELSE r.op # "smartcard" /\ (lock = <<>> \/ r.op = "sign")
AdmittedLocking(r) == IF r.op = "unlock" THEN lock # <<>>
                      ELSE r.op # "smartcard" /\ (lock = <<>> \/ r.op = "lock")
\* Which requests reach confirm_request: the others are not understood.
Admitted(r) == IF r.op = "unlock" THEN lock # <<>> ELSE r.op # "smartcard" /\ lock = <<>>

\* read_frame, and respond up to confirm_request.
ReadRequest(c) ==
  /\ conn[c] = "read" /\ sent[c] # <<>> /\ Head(sent[c]).op \notin {"empty", "huge"}
  /\ sent' = [sent EXCEPT ![c] = Tail(@)]
  /\ IF Admitted(Head(sent[c]))
     THEN /\ conn' = [conn EXCEPT ![c] = "confirm"] /\ cur' = [cur EXCEPT ![c] = Head(sent[c])]
          /\ UNCHANGED answers
     ELSE Answer(c, Head(sent[c]), "failure", FALSE) /\ UNCHANGED <<conn, cur>>
  /\ UNCHANGED <<storeVars, before, clientVars>>

\* A frame of length 0 is answered with a failure.
ReadEmpty(c) ==
  /\ conn[c] = "read" /\ sent[c] # <<>> /\ Head(sent[c]).op = "empty"
  /\ sent' = [sent EXCEPT ![c] = Tail(@)]
  /\ Answer(c, Head(sent[c]), "failure", FALSE)
  /\ UNCHANGED <<storeVars, before, clientVars, conn, cur>>

\* Mutant: the agent waits for the bytes that the length promises.
ReadHugeWaits(c) ==
  /\ conn[c] = "read" /\ sent[c] # <<>> /\ Head(sent[c]).op = "huge" /\ FALSE
  /\ UNCHANGED vars
\* A length beyond MAX_AGENT_FRAME_LEN ends the connection.
ReadHuge(c) ==
  /\ conn[c] = "read" /\ sent[c] # <<>> /\ Head(sent[c]).op = "huge"
  /\ conn' = [conn EXCEPT ![c] = "ended"]
  /\ sent' = [sent EXCEPT ![c] = <<>>]
  /\ UNCHANGED <<storeVars, before, clientVars, cur, answers>>

\* confirm_request says no.
Refuse(c) ==
  /\ conn[c] = "confirm" /\ conn' = [conn EXCEPT ![c] = "read"]
  /\ Answer(c, cur[c], "failure", FALSE)
  /\ before' = before \ {c} /\ cur' = [cur EXCEPT ![c] = NoCall]
  /\ UNCHANGED <<storeVars, clientVars, sent>>

\* confirm_request says yes to a request of kind op.
Granted(c, op) ==
  /\ conn[c] = "confirm" /\ cur[c].op = op /\ conn' = [conn EXCEPT ![c] = "read"]
  /\ cur' = [cur EXCEPT ![c] = NoCall]
  /\ UNCHANGED <<sent, clientVars>>

List(c) ==
  /\ Granted(c, "list") /\ Answer(c, cur[c], "identities", TRUE)
  /\ before' = before \ {c} /\ UNCHANGED storeVars

\* try_sign: a key with Constraint::Confirm signs without asking.
Sign(c) ==
  LET found == keys[cur[c].key] # NoKey
  IN  /\ Granted(c, "sign")
      /\ Answer(c, cur[c], IF found THEN "signature" ELSE "failure", found)
      /\ before' = before \ {c} /\ UNCHANGED storeVars

\* add_key: SUCCESS is pushed first.  Every lifetime starts a timer as it is
\* read; an extension ends the parsing, the key is not inserted, and the client
\* finds the SUCCESS before the FAILURE.
Inserted(r) == ~Has(r.cons, "extension")
TimersOf(r) ==
  IF \E i \in 1 .. Len(r.cons) : /\ r.cons[i] = "lifetime"
                                  /\ \A j \in 1 .. i : r.cons[j] # "extension"
  THEN {<<r.key, clock + 1>>} ELSE {}

EntryOf(r) == [time |-> clock + 1, cons |-> r.cons]

Add(c) ==
  /\ Granted(c, "add") /\ clock < MaxAdds
  /\ Answer(c, cur[c], "success", Inserted(cur[c]))
  /\ clock' = clock + 1 /\ timers' = timers \cup TimersOf(cur[c])
  /\ keys' = IF Inserted(cur[c]) THEN [keys EXCEPT ![cur[c].key] = EntryOf(cur[c])] ELSE keys
  /\ before' = before \ {c} /\ UNCHANGED <<lock, overlap>>

Remove(c) ==
  LET found == keys[cur[c].key] # NoKey
  IN  /\ Granted(c, "remove")
      /\ Answer(c, cur[c], IF found THEN "success" ELSE "failure", found)
      /\ keys' = [keys EXCEPT ![cur[c].key] = NoKey]
      /\ before' = before \ {c} /\ UNCHANGED <<lock, timers, clock, overlap>>

\* RemoveAllKeys: the store is emptied; the timers of its keys go on.
Clear(c) ==
  /\ Granted(c, "clear") /\ Answer(c, cur[c], "success", TRUE)
  /\ keys' = [k \in Keys |-> NoKey]
  /\ before' = before \ {c} /\ UNCHANGED <<lock, timers, clock, overlap>>

\* The passphrase is appended to what the lock holds.
SetLock(c) ==
  /\ Granted(c, "lock") /\ Answer(c, cur[c], "success", TRUE)
  /\ lock' = lock \o cur[c].pass
  /\ before' = {d \in Conns \ {c} : conn[d] = "confirm" /\ cur[d].op # "unlock"}
  /\ overlap' = (overlap \/ (lock # <<>> /\ c \in before))
  /\ UNCHANGED <<keys, timers, clock>>

\* Unlock asks for all of it.
Unlock(c) ==
  LET opens == lock = cur[c].pass
  IN  /\ Granted(c, "unlock")
      /\ Answer(c, cur[c], IF opens THEN "success" ELSE "failure", opens)
      /\ lock' = IF opens THEN <<>> ELSE lock
      /\ before' = before \ {c} /\ UNCHANGED <<keys, timers, clock, overlap>>

\* Mutant: the timer removes whatever is stored under its blob.
ExpiresAny(t) == keys[t[1]] # NoKey
\* The task of a lifetime ends: it removes the entry it was started for.
Expires(t) == keys[t[1]].time = t[2]
TimerFires(t) ==
  /\ t \in timers /\ timers' = timers \ {t}
  /\ keys' = IF Expires(t) THEN [keys EXCEPT ![t[1]] = NoKey] ELSE keys
  /\ UNCHANGED <<lock, clock, before, overlap, conn, cur, sent, answers, clientVars>>
-----------------------------------------------------------------------------
Grant(c) == List(c) \/ Sign(c) \/ Add(c) \/ Remove(c) \/ Clear(c) \/ SetLock(c) \/ Unlock(c)
Serve(c) == ReadRequest(c) \/ ReadEmpty(c) \/ ReadHuge(c) \/ Refuse(c) \/ Grant(c)

Next ==
  \/ \E c \in Conns : \/ ClientCall(c) \/ ClientReturns(c) \/ ClientFails(c) \/ ClientDrops(c)
                      \/ Serve(c)
  \/ \E t \in timers : TimerFires(t)

Spec == Init /\ [][Next]_vars

\* Every connection is served, confirm_request answers, and a client reads what
\* it waits for.
FairSpec ==
  /\ Spec
  /\ \A c \in Conns : WF_vars(Serve(c)) /\ WF_vars(ClientReturns(c)) /\ WF_vars(ClientFails(c))

-----------------------------------------------------------------------------
(* Properties. *)

\* Once a Lock was granted, only the requests that were already awaiting their
\* confirmation are still served: every later one finds the lock, although
\* respond looks at it only once.
LockRespected ==
  lock # <<>> => \A c \in Conns : conn[c] = "confirm" /\ cur[c].op # "unlock" => c \in before

\* And a locked agent is opened by a passphrase that some client gave, unless two
\* Lock requests awaited their confirmation at once: then it holds both.
LockOpens == lock # <<>> /\ ~overlap => lock \in Passes

\* The lock of the agent holds: it stops what is not yet under way, and the one
\* who locked it can open it again.
LockHolds == LockRespected /\ LockOpens

\* A key is lost only to a Remove or RemoveAll request or, if its last addition set
\* a lifetime, to the timer of that addition: never to the timer of an earlier one.
KeyStays ==
  [][\A k \in Keys : keys[k] # NoKey /\ keys'[k] = NoKey =>
       \/ \E c \in Conns : conn[c] = "confirm" /\ conn'[c] = "read"
                           /\ cur[c].op \in {"remove", "clear"}
       \/ /\ Has(keys[k].cons, "lifetime")
          /\ <<k, keys[k].time>> \in timers \ timers']_vars

\* When add_identity, sign_request or remove_all_identities reports success the
\* agent did what this very call asked for, unless an earlier call of the client
\* was dropped (the answers are then one behind), or add_identity was given an
\* extension (the agent takes its SUCCESS back behind the byte that is read).
OkMeansDone ==
  \A c \in Conns :
    result[c].kind = "ok" /\ result[c].call.op \in {"add", "sign", "remove_all"} =>
      \/ dropped[c]
      \/ result[c].call.op = "add" /\ Has(result[c].call.cons, "extension")
      \/ result[c].answer.done /\ result[c].answer.id = result[c].call.id

\* A call returns, also on a connection that the agent has ended.
CallReturns == \A c \in Conns : call[c] # NoCall ~> call[c] = NoCall
=============================================================================
