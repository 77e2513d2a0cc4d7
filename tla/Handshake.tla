----------------------------- MODULE Handshake -----------------------------
(***************************************************************************)
(* The start of a connection: the exchange of identification strings       *)
(* (ssh_read.rs), the negotiation of algorithms (negotiation.rs), the      *)
(* first key exchange (ServerKex and ClientKex), and EXT_INFO, which is    *)
(* the first packet of the server under the new keys.  The authentication  *)
(* is one request and one answer; UserAuth is about it.                    *)
(*                                                                         *)
(* A stream is a sequence of units: the bytes of identification lines ("S" *)
(* stands for a whole prefix SSH-2.0-), and packets.  read_ssh_id reads    *)
(* chunks of any size, so that a chunk may also hold the first packets.    *)
(* Each run starts in a scenario: the Preferred lists of both ends, the    *)
(* host keys, and what else may differ.  In some of them the peer of russh *)
(* is another implementation: a client that guesses the exchange and sends *)
(* its first packet ahead, a server with lines before its identification,  *)
(* an end that sends IGNORE.  What is computed from the messages, and the  *)
(* non-standard exchange "none", are left out.                             *)
(***************************************************************************)
EXTENDS Integers, Sequences, FiniteSets

CONSTANTS
  Scenarios,    \* see Scenario
  BufSize,      \* SSH_ID_BUF_SIZE
  MaxPreBanner, \* SSH_ID_MAX_PRE_BANNER_LINES
  MaxNoise      \* bound: an end that has written so many packets sends no IGNORE

Side == {"client", "server"}
Other(s) == IF s = "client" THEN "server" ELSE "client"
Scenario == {"prefs", "hostKeys", "guess", "banner", "noisy", "silent", "group", "trusted",
             "anonymous"}

ASSUME HandshakeAssumption ==
  /\ BufSize \in Nat \ {0, 1} /\ MaxPreBanner \in Nat /\ MaxNoise \in Nat
  /\ \A sc \in Scenarios : DOMAIN sc = Scenario

VARIABLES
  sc,      \* the scenario
  phase,   \* "version", the state of ServerKex or ClientKex, "done", or "ended"
  why,     \* why an end ended
  buf,     \* ReadSshIdBuffer: bytes that were read and not consumed
  lines,   \* pre_banner_lines
  wire,    \* units that an end has written and the other has not read
  outSeq,  \* sequence number of the next packet to write
  inSeq,   \* and of the next one to read
  names,   \* Names, as an end negotiated them
  written, \* history: packets written
  taken,   \* history: packets of the other end that were read
  sigAlgs, \* server_sig_algs of the client
  ask,     \* best_supported_rsa_hash: see AskHash
  late,    \* did its second pass?
  auth     \* the client's authentication: "none", "asked" or "granted"

vars == <<sc, phase, why, buf, lines, wire, outSeq, inSeq, names, written, taken,
          sigAlgs, ask, late, auth>>
versionVars == <<buf, lines>>
connVars == <<phase, why, buf, lines, wire, outSeq, inSeq, names, written, taken>>
hashVars == <<sigAlgs, ask, late>>
askVars == <<hashVars, auth>>

NoNames == [kex |-> "none"]
Byte(b) == [kind |-> b]
Bytes(s) == [i \in 1 .. Len(s) |-> Byte(s[i])]
IsByte(u) == u.kind \in {"S", "x", "cr", "lf"}
LeastOf(S) == CHOOSE i \in S : \A j \in S : i <= j
ToSet(s) == {s[i] : i \in 1 .. Len(s)}

-----------------------------------------------------------------------------
(* Negotiation. *)

\* Mutant: the server's preference decides.
SelectServerFirst(cl, sl) ==
  LET hits == {i \in 1 .. Len(sl) : sl[i] \in ToSet(cl)}
  IN  IF hits = {} THEN "none" ELSE sl[LeastOf(hits)]
\* select, of both ends: the first choice of the client that the server has.
Select(cl, sl) ==
  LET hits == {i \in 1 .. Len(cl) : cl[i] \in ToSet(sl)}
  IN  IF hits = {} THEN "none" ELSE cl[LeastOf(hits)]
BothFirst(cl, sl) == cl # <<>> /\ sl # <<>> /\ cl[1] = sl[1]

Extensions == {"ext-info-c", "ext-info-s", "kex-strict-c", "kex-strict-s"}
NoExt(list) == SelectSeq(list, LAMBDA k : k \notin Extensions)
StrictName(s) == IF s = "client" THEN "kex-strict-c" ELSE "kex-strict-s"
ExtensionsOf(s) == IF s = "client" THEN {"ext-info-c", "kex-strict-c"}
                   ELSE {"ext-info-s", "kex-strict-s"}

\* is_key_compatible_with_algo: an RSA key serves all RSA algorithms.
KeyType(algo) == IF algo \in {"rsa-sha2-512", "rsa-sha2-256", "ssh-rsa"} THEN "rsa" ELSE algo
HostKeyAlgos(list) == SelectSeq(list, LAMBDA a : KeyType(a) \in sc.hostKeys)

\* Mutant: the server lists algorithms that it has no keys for.
WriteKexAllKeys(s, follows) ==
  [kex |-> SelectSeq(sc.prefs[s].kex, LAMBDA k : k \notin ExtensionsOf(Other(s))),
   key |-> sc.prefs[s].key,
   cipher |-> sc.prefs[s].cipher, mac |-> sc.prefs[s].mac, comp |-> sc.prefs[s].comp,
   follows |-> follows]
\* write_kex.
WriteKex(s, follows) ==
  [kex |-> SelectSeq(sc.prefs[s].kex, LAMBDA k : k \notin ExtensionsOf(Other(s))),
   key |-> IF s = "server" THEN HostKeyAlgos(sc.prefs[s].key) ELSE sc.prefs[s].key,
   cipher |-> sc.prefs[s].cipher, mac |-> sc.prefs[s].mac, comp |-> sc.prefs[s].comp,
   follows |-> follows]

NeedsMac(cipher) == cipher = "aes-ctr"

\* Mutant: a guess is judged by the key exchange alone.
GuessedKexOnly(follows, kexFirst, keyFirst) == follows /\ ~kexFirst
\* A packet follows, and it is not the right guess.
IgnoreGuessed(follows, kexFirst, keyFirst) == follows /\ ~(kexFirst /\ keyFirst)

\* read_kex of end s; a name is "none" when there is no common algorithm.
ReadKex(s, theirs) ==
  LET mine == sc.prefs[s]
      keys == IF s = "server" THEN HostKeyAlgos(mine.key) ELSE mine.key
      Pick(a, b) == IF s = "client" THEN Select(a, b) ELSE Select(b, a)
      First(a, b) == IF s = "client" THEN BothFirst(a, b) ELSE BothFirst(b, a)
      kex == Pick(NoExt(mine.kex), NoExt(theirs.kex))
  IN  [kex |-> kex, key |-> Pick(keys, theirs.key),
       cipher |-> Pick(mine.cipher, theirs.cipher), mac |-> Pick(mine.mac, theirs.mac),
       comp |-> Pick(mine.comp, theirs.comp),
       ignore |-> IgnoreGuessed(theirs.follows, First(NoExt(mine.kex), NoExt(theirs.kex)),
                                First(keys, theirs.key)),
       strict |-> StrictName(s) \in ToSet(mine.kex) /\ StrictName(Other(s)) \in ToSet(theirs.kex)]

\* Is there a common algorithm of every kind?  An AEAD cipher needs no MAC.
Agreed(n) == /\ "none" \notin {n.kex, n.key, n.cipher, n.comp}
             /\ NeedsMac(n.cipher) => n.mac # "none"
IsGex(n) == n.kex = "gex"
-----------------------------------------------------------------------------
(* Writing and ending. *)

\* Packets of the given kinds under the given key; the first is number seq.
Packets(s, kinds, key, seq) ==
  [i \in 1 .. Len(kinds) |-> [kind |-> kinds[i], key |-> key, seq |-> seq + i - 1,
                              n |-> written[s] + i]]

Send(s, packets) ==
  /\ wire' = [wire EXCEPT ![s] = @ \o packets]
  /\ written' = [written EXCEPT ![s] = @ + Len(packets)]

End(s, reason) ==
  /\ phase' = [phase EXCEPT ![s] = "ended"]
  /\ why' = [why EXCEPT ![s] = reason]

\* begin_rekey: KEXINIT, and the guess of a client that guesses.
Guess == IF NoExt(sc.prefs["client"].kex)[1] = "gex" THEN "gexreq" ELSE "dhinit"
Guesses(s) == s = "client" /\ sc.guess
KexInit(s, seq) ==
  LET init == [kind |-> "kexinit", key |-> 0, seq |-> seq, n |-> written[s] + 1,
               lists |-> WriteKex(s, Guesses(s))]
  IN  IF Guesses(s)
      THEN <<init, [kind |-> Guess, key |-> 0, seq |-> seq + 1, n |-> written[s] + 2]>>
      ELSE <<init>>
-----------------------------------------------------------------------------
(* The identification string. *)

\* line: where the first line ends, if buf holds one.  A line feed that is the
\* first byte is not seen.
LineEnds(b) == {j \in 2 .. Len(b) : b[j].kind = "lf"}
LineLen(b, j) == IF b[j - 1].kind = "cr" THEN j - 2 ELSE j - 1
Rest(b, j) == SubSeq(b, j + 1, Len(b))

\* Mutant: what was read behind a discarded line is lost.
DiscardAll(b, j) == <<>>
DiscardLine(b, j) == Rest(b, j)

\* read_ssh_id_inner: another chunk.
ReadChunk(s) ==
  /\ phase[s] = "version" /\ LineEnds(buf[s]) = {} /\ wire[Other(s)] # <<>>
  /\ \E n \in 1 .. Len(wire[Other(s)]) :
       /\ n <= BufSize - Len(buf[s])
       /\ wire' = [wire EXCEPT ![Other(s)] = Rest(@, n)]
       /\ buf' = [buf EXCEPT ![s] = @ \o SubSeq(wire[Other(s)], 1, n)]
       /\ IF LineEnds(buf'[s]) = {} /\ Len(buf'[s]) >= BufSize - 1
          THEN End(s, "Version") ELSE UNCHANGED <<phase, why>>
  /\ UNCHANGED <<sc, lines, outSeq, inSeq, names, written, taken, askVars>>

\* A line that is the identification: the session starts, with begin_rekey.
IdLine(s) ==
  /\ phase[s] = "version" /\ LineEnds(buf[s]) # {}
  /\ LET j == LeastOf(LineEnds(buf[s]))
     IN  /\ j <= BufSize - 1 /\ LineLen(buf[s], j) >= 1 /\ buf[s][1].kind = "S"
         /\ buf' = [buf EXCEPT ![s] = Rest(@, j)]
  /\ phase' = [phase EXCEPT ![s] = "created"]
  /\ Send(s, KexInit(s, outSeq[s]))
  /\ outSeq' = [outSeq EXCEPT ![s] = @ + Len(KexInit(s, @))]
  /\ UNCHANGED <<sc, why, lines, inSeq, names, taken, askVars>>

\* Any other line: only a client goes on, and not for ever.
OtherLine(s) ==
  /\ phase[s] = "version" /\ LineEnds(buf[s]) # {}
  /\ LET j == LeastOf(LineEnds(buf[s]))
     IN  /\ j > BufSize - 1 \/ LineLen(buf[s], j) < 1 \/ buf[s][1].kind # "S"
         /\ IF j > BufSize - 1 \/ s = "server" \/ lines[s] = MaxPreBanner
            THEN End(s, "Version") /\ UNCHANGED versionVars
            ELSE /\ lines' = [lines EXCEPT ![s] = @ + 1]
                 /\ buf' = [buf EXCEPT ![s] = DiscardLine(@, j)]
                 /\ UNCHANGED <<phase, why>>
  /\ UNCHANGED <<sc, wire, outSeq, inSeq, names, written, taken, askVars>>
-----------------------------------------------------------------------------
(* The first key exchange. *)

\* SshRead::poll_read: what the identification left in the buffer comes first.
Unread(s) == buf[s] \o wire[Other(s)]
InSession(s) == phase[s] \notin {"version", "ended"} /\ Unread(s) # <<>>
Next1(s) == Head(Unread(s))
Kind(s) == Next1(s).kind
Key(s) == IF phase[s] = "done" THEN 1 ELSE 0
Opens(s) == ~IsByte(Next1(s)) /\ Next1(s).key = Key(s) /\ Next1(s).seq = inSeq[s]

\* The packet is taken; the end that takes it writes others.
Reads(s, packets) ==
  /\ buf' = [buf EXCEPT ![s] = IF @ = <<>> THEN @ ELSE Tail(@)]
  /\ wire' = [wire EXCEPT ![s] = @ \o packets, ![Other(s)] = IF buf[s] = <<>> THEN Tail(@) ELSE @]
  /\ written' = [written EXCEPT ![s] = @ + Len(packets)]
  /\ taken' = [taken EXCEPT ![s] = @ + 1]

\* IGNORE is accepted anywhere: validate_client_msg_strict_kex is only called
\* while strict_kex holds and there are no keys yet, and strict_kex is set
\* together with the keys.
RecvIgnore(s) ==
  /\ InSession(s) /\ Opens(s) /\ Kind(s) = "ignore"
  /\ Reads(s, <<>>) /\ inSeq' = [inSeq EXCEPT ![s] = @ + 1]
  /\ UNCHANGED <<sc, phase, why, lines, outSeq, names, askVars>>

\* Created.  A client whose guess was right has already sent what comes next.
ClientOpens(n) ==
  IF sc.guess /\ BothFirst(NoExt(sc.prefs["client"].kex), NoExt(Next1("client").lists.kex))
              /\ BothFirst(sc.prefs["client"].key, Next1("client").lists.key)
  THEN <<>> ELSE IF IsGex(n) THEN <<"gexreq">> ELSE <<"dhinit">>

RecvKexInit(s) ==
  /\ InSession(s) /\ Opens(s) /\ Kind(s) = "kexinit" /\ phase[s] = "created"
  /\ LET n     == ReadKex(s, Next1(s).lists)
         bad   == ~Agreed(n) \/ (n.strict /\ inSeq[s] # 0)
         kinds == IF bad \/ s = "server" THEN <<>> ELSE ClientOpens(n)
     IN  /\ Reads(s, Packets(s, kinds, 0, outSeq[s]))
         /\ outSeq' = [outSeq EXCEPT ![s] = @ + Len(kinds)]
         /\ IF bad
            THEN End(s, IF Agreed(n) THEN "StrictKexViolation" ELSE "NoCommonAlgo") /\ UNCHANGED names
            ELSE /\ names' = [names EXCEPT ![s] = n]
                 /\ phase' = [phase EXCEPT ![s] = IF IsGex(n) THEN "gex" ELSE "dh"]
                 /\ UNCHANGED why
  /\ inSeq' = [inSeq EXCEPT ![s] = @ + 1]
  /\ UNCHANGED <<sc, lines, askVars>>

\* The group: lookup_dh_gex_group may find none, and the client checks its size.
RecvGex(s) ==
  /\ InSession(s) /\ Opens(s) /\ phase[s] = "gex"
  /\ Kind(s) = IF s = "server" THEN "gexreq" ELSE "gexgroup"
  /\ LET refused == sc.group = IF s = "server" THEN "missing" ELSE "bad size"
         kinds   == IF refused THEN <<>> ELSE IF s = "server" THEN <<"gexgroup">> ELSE <<"dhinit">>
     IN  /\ Reads(s, Packets(s, kinds, 0, outSeq[s]))
         /\ outSeq' = [outSeq EXCEPT ![s] = @ + Len(kinds)]
         /\ IF refused THEN End(s, "Kex")
            ELSE phase' = [phase EXCEPT ![s] = "dh"] /\ UNCHANGED why
  /\ inSeq' = [inSeq EXCEPT ![s] = @ + 1]
  /\ UNCHANGED <<sc, lines, names, askVars>>

\* In WaitingForDhInit, and only there, a wrong guess is skipped, whatever it is.
SkipGuess(s) ==
  /\ InSession(s) /\ Opens(s) /\ phase[s] = "dh" /\ names[s].ignore /\ Kind(s) # "ignore"
  /\ Reads(s, <<>>) /\ inSeq' = [inSeq EXCEPT ![s] = @ + 1]
  /\ names' = [names EXCEPT ![s] = [@ EXCEPT !.ignore = FALSE]]
  /\ UNCHANGED <<sc, phase, why, lines, outSeq, askVars>>

\* Mutant: sequence numbers are not reset.
ResetSeqnNever(s, seq) == seq
\* reset_seqn, right behind the own NEWKEYS.
ResetSeqn(s, seq) == IF names[s].strict THEN 0 ELSE seq

RecvDh(s) ==
  /\ InSession(s) /\ Opens(s) /\ phase[s] = "dh" /\ ~names[s].ignore
  /\ Kind(s) = IF s = "server" THEN "dhinit" ELSE "reply"
  /\ LET kinds == IF s = "server" THEN <<"reply", "newkeys">> ELSE <<"newkeys">>
     IN  /\ Reads(s, Packets(s, kinds, 0, outSeq[s]))
         /\ outSeq' = [outSeq EXCEPT ![s] = ResetSeqn(s, @ + Len(kinds))]
  /\ phase' = [phase EXCEPT ![s] = "newkeys"]
  /\ inSeq' = [inSeq EXCEPT ![s] = @ + 1]
  /\ UNCHANGED <<sc, why, lines, names, askVars>>

\* The server sends EXT_INFO to a client that announced ext-info-c.
maybe_send_ext_info(s) ==
  IF s = "server" /\ "ext-info-c" \in ToSet(sc.prefs["client"].kex) THEN <<"extinfo">> ELSE <<>>

\* KexProgress::Done; the client asks check_server_key.
RecvNewKeys(s) ==
  /\ InSession(s) /\ Opens(s) /\ phase[s] = "newkeys" /\ Kind(s) = "newkeys"
  /\ LET kinds == maybe_send_ext_info(s)
     IN  /\ Reads(s, Packets(s, kinds, 1, outSeq[s]))
         /\ outSeq' = [outSeq EXCEPT ![s] = @ + Len(kinds)]
  /\ inSeq' = [inSeq EXCEPT ![s] = IF names[s].strict THEN 0 ELSE @ + 1]
  /\ IF s = "client" /\ ~sc.trusted THEN End(s, "UnknownKey")
     ELSE phase' = [phase EXCEPT ![s] = "done"] /\ UNCHANGED why
  /\ UNCHANGED <<sc, lines, names, askVars>>

\* A message of the exchange that the state does not expect, or a packet that
\* does not open.
Expected(s) ==
  \/ Kind(s) = "ignore" \/ (phase[s] = "dh" /\ names[s].ignore)
  \/ Kind(s) = "kexinit" /\ phase[s] = "created"
  \/ Kind(s) \in {"gexreq", "gexgroup"} /\ phase[s] = "gex"
  \/ Kind(s) \in {"dhinit", "reply"} /\ phase[s] = "dh"
  \/ Kind(s) = "newkeys" /\ phase[s] = "newkeys"
  \/ Kind(s) \in {"extinfo", "service", "success"} /\ phase[s] = "done"
RecvBad(s) ==
  /\ InSession(s) /\ (~Opens(s) \/ ~Expected(s))
  /\ End(s, IF Opens(s) THEN "KexInit" ELSE "cannot open")
  /\ UNCHANGED <<sc, buf, lines, wire, outSeq, inSeq, names, written, taken, askVars>>
-----------------------------------------------------------------------------
(* Behind the exchange. *)

\* EncryptedState::Authenticated of the client; initial_encrypted_state is that
\* already if Config::anonymous is set.
Authenticated == sc.anonymous \/ auth = "granted"

\* The client's first packet under its new keys.
Service ==
  /\ phase["client"] = "done" /\ auth = "none" /\ ~Authenticated /\ auth' = "asked"
  /\ Send("client", Packets("client", <<"service">>, 1, outSeq["client"]))
  /\ outSeq' = [outSeq EXCEPT !["client"] = @ + 1]
  /\ UNCHANGED <<sc, phase, why, buf, lines, inSeq, names, taken, hashVars>>

\* The server grants the authentication, or has not done so yet.
RecvService ==
  /\ InSession("server") /\ Opens("server") /\ phase["server"] = "done" /\ Kind("server") = "service"
  /\ \E kinds \in {<<>>, <<"success">>} :
       /\ Reads("server", Packets("server", kinds, 1, outSeq["server"]))
       /\ outSeq' = [outSeq EXCEPT !["server"] = @ + Len(kinds)]
  /\ inSeq' = [inSeq EXCEPT !["server"] = @ + 1]
  /\ UNCHANGED <<sc, phase, why, lines, names, askVars>>

RecvSuccess ==
  /\ InSession("client") /\ Opens("client") /\ phase["client"] = "done" /\ Kind("client") = "success"
  /\ Reads("client", <<>>) /\ inSeq' = [inSeq EXCEPT !["client"] = @ + 1]
  /\ auth' = "granted"
  /\ UNCHANGED <<sc, phase, why, lines, outSeq, names, hashVars>>

\* handle_ext_info: the algorithms are stored, and the waiting call is woken.
\* An authenticated client takes EXT_INFO for an unknown message.
RecvExtInfo ==
  /\ InSession("client") /\ Opens("client") /\ phase["client"] = "done" /\ Kind("client") = "extinfo"
  /\ Reads("client", <<>>) /\ inSeq' = [inSeq EXCEPT !["client"] = @ + 1]
  /\ IF Authenticated THEN UNCHANGED <<sigAlgs, ask>>
     ELSE sigAlgs' = "known" /\ ask' = IF ask = "registered" THEN "woken" ELSE ask
  /\ UNCHANGED <<sc, phase, why, lines, outSeq, names, late, auth>>

\* best_supported_rsa_hash sends AwaitExtensionInfo ("queued"), waits for at
\* most a second ("registered" is its sender in extension_info_awaiters), and
\* then asks for server_sig_algs.
AskHash ==
  /\ phase["client"] = "done" /\ ask = "no" /\ ask' = "queued"
  /\ UNCHANGED <<sc, connVars, sigAlgs, late, auth>>
\* Mutant: the sender is only kept when the extension was seen.
AwaitingWrong == IF sigAlgs = "known" /\ ~Authenticated THEN "registered" ELSE "woken"
\* The sender is dropped, which wakes the call, if the extension was seen or is
\* no longer expected.
Awaiting == IF sigAlgs = "known" \/ Authenticated THEN "woken" ELSE "registered"
HandleAwait ==
  /\ phase["client"] = "done" /\ ask = "queued" /\ ask' = Awaiting
  /\ UNCHANGED <<sc, connVars, sigAlgs, late, auth>>
AskTimeout ==
  /\ ask \in {"queued", "registered"} /\ ask' = "woken" /\ late' = TRUE
  /\ UNCHANGED <<sc, connVars, sigAlgs, auth>>
AnswerHash ==
  /\ phase["client"] = "done" /\ ask = "woken"
  /\ ask' = IF sigAlgs = "known" THEN "answered" ELSE "unknown"
  /\ UNCHANGED <<sc, connVars, sigAlgs, late, auth>>
-----------------------------------------------------------------------------
(* The rest of the world. *)

\* An end sends IGNORE, before its NEWKEYS.
Noise(s) ==
  /\ s \in sc.noisy /\ phase[s] \in {"version", "created", "gex", "dh"} /\ written[s] < MaxNoise
  /\ Send(s, Packets(s, <<"ignore">>, 0, outSeq[s]))
  /\ outSeq' = [outSeq EXCEPT ![s] = @ + 1]
  /\ UNCHANGED <<sc, phase, why, buf, lines, inSeq, names, taken, askVars>>

\* Mutant: only the version exchange is timed.
TimeoutVersionOnly ==
  /\ phase["server"] = "version" /\ End("server", "HandshakeTimeout")
  /\ UNCHANGED <<sc, buf, lines, wire, outSeq, inSeq, names, written, taken, askVars>>
\* handshake_deadline, on the server only.
HandshakeTimeout ==
  /\ phase["server"] \notin {"done", "ended"} /\ End("server", "HandshakeTimeout")
  /\ UNCHANGED <<sc, buf, lines, wire, outSeq, inSeq, names, written, taken, askVars>>

\* The connection of an end that ended is closed.
Hangup(s) ==
  /\ phase[s] # "ended" /\ phase[Other(s)] = "ended" /\ wire[Other(s)] = <<>>
  /\ IF phase[s] = "version" THEN LineEnds(buf[s]) = {} ELSE buf[s] = <<>>
  /\ End(s, "Disconnect")
  /\ UNCHANGED <<sc, buf, lines, wire, outSeq, inSeq, names, written, taken, askVars>>
-----------------------------------------------------------------------------
Init ==
  /\ sc \in Scenarios
  /\ phase = [s \in Side |-> "version"] /\ why = [s \in Side |-> "none"]
  /\ buf = [s \in Side |-> <<>>] /\ lines = [s \in Side |-> 0]
  /\ wire = [s \in Side |-> Bytes((IF s = "server" THEN sc.banner ELSE <<>>) \o <<"S", "x", "cr", "lf">>)]
  /\ outSeq = [s \in Side |-> 0] /\ inSeq = [s \in Side |-> 0]
  /\ names = [s \in Side |-> NoNames] /\ written = [s \in Side |-> 0] /\ taken = [s \in Side |-> 0]
  /\ sigAlgs = "unknown" /\ ask = "no" /\ late = FALSE /\ auth = "none"

Kex(s) == RecvKexInit(s) \/ RecvGex(s) \/ SkipGuess(s) \/ RecvDh(s) \/ RecvNewKeys(s)
Run(s) == \/ ReadChunk(s) \/ IdLine(s) \/ OtherLine(s) \/ RecvIgnore(s) \/ Kex(s) \/ RecvBad(s)
          \/ Hangup(s)
          \/ s = "client" /\ (RecvExtInfo \/ RecvSuccess \/ HandleAwait \/ AnswerHash)
          \/ s = "server" /\ RecvService

Next ==
  \/ \E s \in Side : Run(s) \/ Noise(s)
  \/ HandshakeTimeout \/ Service \/ AskHash \/ AskTimeout

Spec == Init /\ [][Next]_vars

\* An end that is not silent keeps running.  The server's deadline is assumed to
\* pass only where the client is silent, so that the other handshakes have to
\* settle without it.
FairSpec ==
  /\ Spec
  /\ \A s \in Side : WF_vars(s \notin sc.silent /\ Run(s))
  /\ WF_vars(sc.silent # {} /\ HandshakeTimeout)
-----------------------------------------------------------------------------
(* Properties. *)

TypeOK ==
  /\ sc \in Scenarios /\ phase \in [Side -> {"version", "created", "gex", "dh", "newkeys", "done", "ended"}]
  /\ lines \in [Side -> 0 .. MaxPreBanner] /\ outSeq \in [Side -> Nat] /\ inSeq \in [Side -> Nat]
  /\ \A s \in Side : Len(buf[s]) <= BufSize
  /\ ask \in {"no", "queued", "registered", "woken", "answered", "unknown"} /\ late \in BOOLEAN
  /\ auth \in {"none", "asked", "granted"}

\* What RFC 4253 asks for, said of the two configurations: x is the client's
\* first choice that the server has as well.
FirstCommon(x, cl, sl) ==
  \E i \in 1 .. Len(cl) : /\ cl[i] = x /\ x \in ToSet(sl)
                          /\ \A j \in 1 .. i - 1 : cl[j] \notin ToSet(sl)
Common(cl, sl) == ToSet(cl) \cap ToSet(sl) # {}
Conf(s) == sc.prefs[s]

\* The two ends, each from its own configuration and from the lists it was
\* sent, arrive at the algorithms that the configurations call for, and so at
\* the same ones: among them a host key algorithm that the server has a key
\* for, and strict key exchange exactly if both were configured for it.
Negotiated ==
  \A s \in Side : names[s] # NoNames =>
    LET n == names[s] c == Conf("client") v == Conf("server")
    IN  /\ FirstCommon(n.kex, NoExt(c.kex), NoExt(v.kex))
        /\ FirstCommon(n.key, c.key, HostKeyAlgos(v.key))
        /\ FirstCommon(n.cipher, c.cipher, v.cipher) /\ FirstCommon(n.comp, c.comp, v.comp)
        /\ NeedsMac(n.cipher) => FirstCommon(n.mac, c.mac, v.mac)
        /\ n.strict <=> "kex-strict-c" \in ToSet(c.kex) /\ "kex-strict-s" \in ToSet(v.kex)

\* However the stream is cut into chunks, the version exchange takes the lines
\* and nothing else: every packet that was written is read once, in its order.
UnitsIntact ==
  \A s \in Side : phase[s] # "ended" =>
    LET packets == SelectSeq(Unread(s), LAMBDA u : ~IsByte(u))
    IN  /\ taken[s] + Len(packets) = written[Other(s)]
        /\ \A i \in 1 .. Len(packets) : packets[i].n = taken[s] + i
        /\ phase[s] # "version" => Len(packets) = Len(Unread(s))

\* Lines that may come before the identification: few, not too long, and none
\* that is a bare line feed (which hides the line behind it).
BannerOk ==
  /\ Cardinality({i \in 1 .. Len(sc.banner) : sc.banner[i] = "lf"}) <= MaxPreBanner
  /\ \A i \in 1 .. Len(sc.banner) - BufSize + 2 : \E k \in i .. i + BufSize - 2 : sc.banner[k] = "lf"
  /\ \A i \in 1 .. Len(sc.banner) : sc.banner[i] = "lf" => i > 1 /\ sc.banner[i - 1] # "lf"

\* Two configurations that should get along.
Compatible ==
  LET c == Conf("client") v == Conf("server")
      gex == FirstCommon("gex", NoExt(c.kex), NoExt(v.kex))
  IN  /\ BannerOk /\ sc.trusted
      /\ Common(NoExt(c.kex), NoExt(v.kex)) /\ Common(c.key, HostKeyAlgos(v.key))
      /\ Common(c.cipher, v.cipher) /\ Common(c.comp, v.comp)
      /\ Common(c.mac, v.mac) \/ ~FirstCommon("aes-ctr", c.cipher, v.cipher)
      /\ gex => sc.group = "good" /\ ~(sc.guess /\ NoExt(c.kex)[1] # "gex")

\* Two ends that should get along do, whoever is first, whatever is read with
\* the identification and whichever guess was wrong, and then open each other's
\* first packets.  An IGNORE before the KEXINIT ends a strict exchange; and a
\* wrong guess is not skipped where the exchange starts with a group.
GetAlong ==
  Compatible => \A s \in Side :
    \/ why[s] \in {"none", "Disconnect"}
    \/ why[s] = "HandshakeTimeout" /\ s = "server"
    \/ why[s] = "StrictKexViolation" /\ Other(s) \in sc.noisy

\* best_supported_rsa_hash finds nothing only when its second has passed, or on
\* an authenticated session whose client did not announce ext-info-c: no EXT_INFO
\* slips between its two questions, and none is outstanding once the client is
\* authenticated, so that handle_msg may drop the sender then.  An anonymous
\* session is the exception: it counts as authenticated from NEWKEYS on, the call
\* does not wait, and the EXT_INFO that comes is not looked at.
HashKnown ==
  ask = "unknown" =>
    \/ late \/ sc.anonymous
    \/ auth = "granted" /\ "ext-info-c" \notin ToSet(sc.prefs["client"].kex)

\* The server is done or ends, also when the client falls silent at any moment;
\* the client, which has no deadline, as long as the server does not.
HandshakeSettles ==
  /\ <>(phase["server"] \in {"done", "ended"} \/ "server" \in sc.silent)
  /\ <>(phase["client"] \in {"done", "ended"} \/ sc.silent # {})
=============================================================================
