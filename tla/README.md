# russh: a TLA+ verification project

russh is an SSH client and server library in Rust. Everything that happens on a
connection goes through one *session loop* (a `tokio::select!` in
`russh/src/server/session.rs` and `russh/src/client/mod.rs`), which multiplexes
many channels over one encrypted byte stream. The hard part of the program is
not the cryptography but this loop: it owns the cipher, the packet writer and
every channel's flow control, it may not block on any single channel, it must
keep the order of each channel's messages, and it has to survive key
re-exchanges, closing channels, vanishing applications and stalled peers.

## 1. Inventory

| Part | State it keeps | Operations | Talks to |
|---|---|---|---|
| Inbound delivery (`pending_inbound.rs`, `pump_inbound`, `CHANNEL_*` arms) | per channel: backlog queue, pending bytes, `reserving`, receive window, bounded mpsc buffer | `deliver_inbound`, `drain_needs_reserve`, `pump_inbound`, `maybe_grant_after_delivery`, `finalize_close`, local close | peer (packets, WINDOW_ADJUST), application (mpsc), handler callbacks |
| Outbound data (`session.rs` `Encrypted`) | per channel: `pending_data`, `pending_eof`, `pending_close`, `recipient_window_size`, parked acks | `data`, `eof`, `close`, `flush_pending`, WINDOW_ADJUST, `enforce_outbound_cap`, `release_outbound_acks` | producers (`Handle::data`), peer, packet writer |
| Channel writer (`channels/io/tx.rs`, `WindowSizeRef`) | shared window behind a fair mutex, `Notify` with one permit, reserved chunks | `poll_writable`, `poll_write`, `poll_shutdown`, `Drop`, `reserve_writable_chunk`, `update` | session loop (mpsc), several writer tasks |
| Channel open, global requests (`server/encrypted.rs`, `lib_inner.rs`) | `channels` maps, open replies, FIFO of global requests | open, accept, reject, confirm, fail, forward requests | peer, handler, `Handle` |
| Key exchange (`server/kex.rs`, `client/kex.rs`, `reply`) | `SessionKexState`, cipher pair, sequence numbers, strict-kex flag, rekey deadline | `begin_rekey`, `step`, NEWKEYS, `newkeys`, `flush_all_pending` | peer, packet writer, every writer of `enc.write` |
| Supervisor and packet writer (`supervisor.rs`, `sshbuffer.rs`) | first cause, write-progress clock, flush cursor | watchdog, deadlines, `flush_into` | loop, socket |
| Timers (keepalive, inactivity) | `alive_timeouts`, timers | tick, reset | loop, peer |
| User authentication (`server/encrypted.rs`, `client/encrypted.rs`, `auth.rs`) | `EncryptedState`, attempt counter, partial public-key state | service request, auth request, info response | handler, peer |
| Version exchange, negotiation (`ssh_read.rs`, `negotiation.rs`) | line buffer, lines before the banner, `Names`, strict flag, guess | `read_ssh_id`, `write_kex`, `read_kex`, EXT_INFO | socket, packet reader, key exchange |
| Agent (`keys/agent`) | key store with constraints, lock, lifetime tasks, one connection per client | `respond` and its arms, the calls of `AgentClient` | application (confirmations), clients |
| Key files, ciphers, configuration, shims | none or local | pure functions, parsers, IPC | - |

`PROJECT.json` lists every part with its status, and every hazard with its line.

What makes each part correct, and what makes it hard:

* **Inbound delivery.** A channel's messages reach its application in order and
  without loss, although they travel through a fast path (`try_send`), a backlog
  and permits that arrive at any time; the window is given back only for bytes
  that were delivered; one application that does not read delays no other
  channel; a CLOSE deferred behind a backlog still ends the channel.
* **Outbound data.** Bytes leave in the order they were accepted and never beyond
  the peer's window; EOF and CLOSE leave behind the data, once; `Handle::data`
  says Ok only for bytes that left; a channel whose peer does not read holds at
  most the cap and delays nobody.
* **Key exchange.** Both ends of a direction change key and sequence number at
  the same place of the stream, whoever starts; the exchange ends, or the session
  does; nothing that was parked stays parked.
* **Channel writer.** No writer sleeps on an open window; reservations add up.
* **Channel open, global requests.** Every open is answered once; replies are
  matched to requests in order; ids are never reused while known to the peer.
* **Supervisor, packet writer, timers.** The first cause of the end of a session
  is the one reported; write progress is never lost when `select!` drops a flush.
* **Version exchange, negotiation.** No byte is lost between the line reader and the
  packet reader; both sides compute the same algorithms from different data; sides
  that share algorithms finish, and nobody waits for ever for one that does not.
* **Agent.** The lock stops requests; a key goes only when it is removed or its own
  lifetime ends; what is reported as done was done.
* **User authentication.** No success without the handler's consent; no probe or
  dialogue is credited to another user or key; a client resolves every attempt.

## 2. Plan

What every byte of a connection goes through comes first (1-3), then the parts a
session uses once per channel or once per connection.

| Step | Module | What it composes | Status |
|---|---|---|---|
| 1 | `InboundDelivery`, `InboundDeliveryProofs` | peer, session loop, mpsc buffers, application | done; seven theorems |
| 2 | `OutboundFlow`, `OutboundFlowProofs` | producers, writers, session loop, peer, key exchange as a flag | done; four theorems |
| 3 | `Rekey`, `RekeyProofs` | client and server sessions, two wires | done; two theorems |
| 4 | `UserAuth`, `UserAuthProofs` | application, client session, server session, handler; an arbitrary client | done; three theorems |
| 5 | `ChannelOpen`, `ChannelOpenProofs` | application, opener, responder, handler, queue of answers and requests | done; four theorems |
| 6 | `RunLoop`, `RunLoopProofs` | writer, supervisor, timers, peer, clock | done; four theorems |
| 7 | `BytePipe` | abstract direction of a channel, implemented by `InboundDelivery` (wire, backlog and buffer are the pipe) and by `OutboundFlow` (packet writer, staged packets and backlog) | done; both refinements proved |
| 8 | `Handshake` | line reader, negotiation, first exchange, EXT_INFO, of a client and a server | done |
| 9 | `ChannelWriter`, `ChannelWriterProofs` | several writers, fair mutex, `Notify`, session | done; two theorems |
| 10 | `Agent`, `AgentProofs` | two clients, connections, store, lock, lifetime tasks | done; three theorems |

The plan is carried out. What is left is the invariants of `Handshake`, which stay with TLC
for the reasons given in section 6.

## 3. The modules and the code

Every definition that stands for code is listed in `PROJECT.json` under "map" with
the lines it models. Definitions named `...Forgotten`, `...Unchecked` and the like,
just before the definition they resemble, are deliberately wrong variants: each
property is shown to fail when one of them takes the place of the right definition.

### InboundDelivery

The state of one session's inbound side: `inbound` is `Session::inbound` (the
backlog of each channel with `pending_bytes` and `reserving`), `window` the
receive window, `target` what `adjust_window` made of `window_size`, `needs`,
`fresh`, `waiting` and `held` the life of a `reserve_owned()` future (asked for,
created, registered with the semaphore, permit taken), `buf` the application's
bounded buffer, `chan` and `open` the channel's entries in `Session::channels` and
`Encrypted::channels`. `loop` says where the loop is suspended: in `select!`, in a
handler callback of `pump_inbound`, or in the `send().await` of a CHANNEL_REQUEST.

Actions: `RecvData`, `RecvEof`, `RecvClose`, `RecvRequest`, `RecvWindowAdjust`,
`RecvIgnored` (the CHANNEL_* arms; each is the whole arm, with `deliver_inbound`,
the overflow close and the grant), `PumpItem`, `PumpClose`, `PumpReaderGone`,
`PumpStale`, `PumpRearm` (the outcomes of `pump_inbound`), `drain_needs_reserve`,
`LocalClose` and `OutboundCapClose`, `AppRead`, `AppDrop`. A payload is the range
of offsets it covers, so that loss, repetition and exchange are visible. Tokio's
mpsc channel is external and modelled from its use: permits go to a receiver that
lives and has room; a dropped receiver fails them. `end` says which side the session
is on, whether its peer obeys the window, and what kinds of packet it sends.

### OutboundFlow

`pending`, `peof`, `pclose` are the parked data, EOF and CLOSE of `Encrypted`,
`rwin` is `recipient_window_size`, `shared` the value of the `WindowSizeRef`, `staged` is
`enc.write`, `sealed` the `PacketWriter`, `acks` the producers parked in
`outbound_acks`. `phase` walks through an iteration of the server loop: batch
drain, `select!`, callback, end of iteration with the flush and the release of
acks; the end of a key exchange flushes channel by channel. `Handle::data`
(`ProducerSend`), `Channel::data`/`ChannelTx` (`WriterReserve`, `WriterSend`,
`WriterCancel` when the future is dropped in between) and handler callbacks
(`CallbackOp`) end in `SessionData`, which is `data_with_writer` with the cap.
`StuckBy` names channels on which, at the start, a producer has used up the window
and is parked, so that one instance holds a healthy channel beside a stuck one.

### BytePipe

What one direction of a channel promises, in three actions: `Put`, `Get` of the next
bytes, and `Break`, which may cut off a tail. The refinement mappings are at the end
of `InboundDelivery` and `OutboundFlow`. A channel breaks when this side closes it, the
reader goes or the cap is exceeded; on the inbound side the peer's CLOSE breaks nothing,
and on a client neither does the own CLOSE while the reader is held. The mapping so says
for every step what may be lost and that nothing else is.

### ChannelWriter

One channel's `WindowSizeRef` and everyone who uses it. `lockq` is the tokio mutex with
its queue (it is handed to the longest waiter, polled or not), `notify` the permit, the
queue of waiters and the state of each writer's `Notified`, `pc` the place of each writer,
`chunk` what it reserved. `Calls` are `data_bytes` futures, dropped with all they hold
(`DropCall`); `Tx` are `ChannelTx`, which keep lock place, watch and chunk when their
caller stops polling (`Leave`, `Resume`), may be shut down in the middle (`Shutdown`), and
write Close when dropped as half of a `ChannelStream`. `StartUpdate`, `SetWindow` and
`NotifyChange` are the three moments of the session's `update().await`.

### Handshake

Both ends from the first byte. A stream is a sequence of bytes of lines and of packets;
`ReadChunk` takes any number of them, so that a chunk may hold the end of a banner, the
identification and the first packets. `Select`, `WriteKex` and `ReadKex` are the
operators of `negotiation.rs` over short lists of names; `Negotiated` compares what each
end computed with a definition over the two configurations. `RecvKexInit` ..
`RecvNewKeys` are the steps of `ServerKex` and `ClientKex` with their packets and
sequence numbers, `SkipGuess` the wrong guess, `RecvExtInfo`, `AskHash`, `HandleAwait`,
`AnswerHash` the extension and the call that waits for it. `auth` is as much of the
client's `EncryptedState` as that call looks at: `HandleAwait` registers the sender only
if the session is not `Authenticated` and drops it otherwise, which answers the call.
`RecvSuccess` is the end of authentication, and an anonymous session is authenticated from
NEWKEYS on (`Authenticated`). A scenario says what the two ends prefer, who guesses, is
noisy or silent, and whether the client is anonymous.

### Agent

`keys` is the `KeyStore` (the time and the constraints of each entry), `lock` the
passphrase, `timers` the spawned lifetime tasks, `conn` and `cur` each connection and the
request whose confirmation it awaits. `ReadRequest` is `respond` up to
`confirm_request().await` with its one look at the lock, `List` .. `Unlock` are its arms.
`Clear` is the RemoveAllKeys arm: `AgentClient` never reaches it, since its call is not
framed, but a request of another client of the same agent does.
`ClientCall` is a call of `AgentClient` with the frames it writes; the calls that write no
length are two frames, as the server reads them. `before` and `overlap` are history.

### Rekey

Two sessions and two wires. A key is the number of the exchange that made it; a
packet carries key and sequence number, and a reader that uses others ends its
session. `kex` is `SessionKexState` with the state of `ServerKex`/`ClientKex`,
`stale` the gate `can_receive_outbound` when the flush between drain and `select!`
has started an exchange since it was computed. `RecvKex` is one `step` with
everything it writes, `RecvNewKeys` the change of ciphers and `flush_all_pending`,
`RecvTraffic` the packets handled in the middle of an exchange, `Keepalive`,
`AppMessage`, `AppControl` the other arms. The first exchange and wrong guesses are in
`Handshake`; the mathematics is left out.

### UserAuth

The server's `EncryptedState` and `AuthRequest` (`principal`, `methods`,
`partial_success`, `current`) and `auth_user`, the client's state with
`WaitingAuthServiceRequest`, the waits of the client loop for responses and
signatures, and the calls of `client::Handle` (which may be dropped). The handler
decides freely; the peer of the server is a russh client or any client that sends
well-formed packets in any order. `zips` are the four switches of deferred
compression. `ServerStarts` and `ClientStarts` are what the two sides send without being
asked: a keepalive or another global request in any state, and, on the server, channels
as soon as `channel_open_generic` admits them, which includes `InitCompression`.
`Greetings` is what `Handler::auth_succeeded` sends through the `Session` it is given,
staged directly behind the success and before the client's first packet: at most one
packet. `MaxUnasked` bounds the others, for each side.

### ChannelOpen

`params`/`refs` are `Encrypted::channels` and `Session::channels` of the opener,
`handles` the `ChannelOpenHandle`s at the responder, `replies` the queue of their
answers (`open_reply`), `rChans` the registered channels, `fifo` is
`open_global_requests`. Handlers may keep their handle and answer in any order, or
drop it. Global requests are keepalives and forwards, with or without an answer;
`auth-agent-req` is among them although it is a channel request, because a russh server
answers it with a global REQUEST_SUCCESS or REQUEST_FAILURE. Either end may be another
implementation.

### RunLoop

Time is counted in ticks; an action is one iteration of the loop: the arm of
`select!` that won, the timers and the credit after it, and the checks of the
supervisor and the batch drain at the top of the next (`Continues`). `len` and
`cursor` are the write buffer and `flush_cursor`; `WritesSome` is a write the socket
took inside a `flush_into` that has not ended and may be cancelled. `armed`,
`still`, `window` and `drained` are the write watchdog, `hs`, `ka`, `ina` and `wake`
the timers. Ticks pass only while no arm is ready, as with tokio's timers; callbacks
take time, up to `MaxCallback`. The history variables `owed` and `refused` count
bytes and ticks independently of the code's own counters.

## 4. The runs

Bounds are named constants; their values are in the `.cfg` files. They are chosen so
that every limit of the code is reached: a buffer of one message, a cap as large as
the window, a queue of one, a watermark of one packet.

| Run | What it shows |
|---|---|
| `inbound_delivery` | One channel with a buffer of one, of a server with a compliant peer and of a client whose peer ignores the window and repeats empty data, EOF and CLOSE; every packet kind, drops, local closes, key exchanges: the stream is in order and complete (`StreamIntact`), a backlog always has its reserve (`BacklogHasReserve`), window and backlog never exceed the target and an emptied backlog leaves window to the peer (`WindowHonest`), the backlog is bounded in bytes and items (`BacklogBounded`), and the whole is a `BytePipe` (`InPipe`). Four bytes in packets of at most two fill buffer, backlog and wire and cross the grant threshold. |
| `inbound_live` | Two channels, the application of one of which never reads: the other progresses (`HealthyChannelProgress`) and a closed channel leaves the session (`ClosedChannelReleased`), while no CHANNEL_REQUEST arrives. |
| `inbound_hol` | The same with CHANNEL_REQUESTs: violated, see below. |
| `outbound_flow` | A channel with a producer, a writer that may be cancelled, callbacks, both closes and a key exchange, beside a channel without grants on which another producer is parked: `OutStreamIntact`, `WindowsAgree`, `AckMeansSent`, `OutPipe`, and `Handle::data` on the granted channel returns from the moment its message is in the inbox of the session (`ProducerResolves`), which a gate on the backlogs of all channels, as the loop once had, would prevent. A window, a cap, a queue and a watermark of one are all hit by three bytes. |
| `rekey` | Up to two exchanges, from either side or both at once, strict or not, with group exchange or not, all traffic, a client that may fall silent: `SidesInStep` (keys, sequence numbers and order of messages), `DeadlineTracksRekey`, `RekeyEnds`. Two exchanges are needed for a stale deadline or a stale key to meet the next one. |
| `rekey_keepalive` | A keepalive between the own NEWKEYS and the peer's: violated, see below. |
| `user_auth` | Two calls of a russh application, or five packets of an arbitrary client: `CreditedToItsUser`, `CompressionInStep` (what is read is read in the form it was written in, but for what its sender sent unasked, see section 5), `ResultOfOwnCall`, `CallReturns`. Either side sends one packet unasked, at any moment. Two users and two keys suffice to confuse them; five packets allow service, probe, another user's request, probe and signature. |
| `channel_open` | Two opens and up to three requests with global answers, in both roles and against other implementations: `ChannelMatchesCall`, `AnsweredOnce`, `WritableFromTheStart` (no early write is thrown away and the window is known), `AnswerToAsker`, `CallReturns`. |
| `run_loop` | Both loops against the clock with all combinations of keepalives, `keepalive_max` and the min-drain policy: `FlushExact`, `StallIsReal`, `HandshakeBounded`, `SilenceEnds`. |
| `channel_writer` | A ChannelTx of a stream and two `data_bytes` calls, one WINDOW_ADJUST of two bytes, packets of one, a queue of one: no wake-up is lost beside an open window (`WakeupNotLost`), what was reported as written is in the queue once, in order and before Eof and Close (`WriterStreamIntact`), nobody waits for ever but behind a ChannelTx that its owner left (`NobodyStranded`). Three writers and two units of window are the least for a wake-up to be passed on and lost. |
| `agent` | Two clients, one key, every kind of request (a smartcard call is refused like any request of a locked agent, an extension is framed like `remove_all_identities`; RemoveAllKeys comes from any other client), lifetimes, locks, dropped calls: `LockHolds`, `KeyStays`, `OkMeansDone`, `CallReturns`. Two additions of a key let the first one's lifetime end after the second. |
| `handshake` | 338 scenarios, one of them anonymous: `Negotiated`, `UnitsIntact`, `GetAlong`, `HashKnown` (the call finds nothing only after its second, or on an authenticated session that has no EXT_INFO to come), `HandshakeSettles`. The buffer of six units stands for the 256 bytes, so that lines of every kind fit, just fit and do not. |

Every module states its type invariant, `TypeOK`; for `InboundDelivery` and `RunLoop`
it is proved. It holds on the instance of every run and is not in their lists, which
hold what is worth a run.

Runs whose configuration says `CHECK_DEADLOCK FALSE` are of systems that may stop:
their sessions end, or the bounded work is done.

**Fairness.** The loops are tokio tasks that are polled as long as they have a ready
arm, and `select!` picks among ready arms at random, so an arm that is ready again
and again is served: weak fairness for steps that stay enabled, strong fairness for
arms that a key exchange or a full buffer disables now and then. Key exchanges end
(the server's has a deadline, which the `rekey` run checks instead of assuming).
Applications are only fair where a constant says so (`Readers`, `Granting`); peers
are assumed to acknowledge a CLOSE, to apply grants and to finish an exchange, and
in `Rekey` only while they are not in `silent`. Nobody is ever obliged to send,
open, ask or write. In `RunLoop` time passes and due timers are polled. In
`ChannelWriter` the tasks that poll a writer are run and the session takes messages,
callers may leave a writer for good. In `Agent` confirmations are answered. In
`Handshake` each end runs unless the scenario says it is silent; the server's deadline
is only assumed to pass in those scenarios, so that the others must settle without it.

## 5. Where the code and its documents disagree

* **`inbound_hol`.** `RC2_HOL_FIX_DESIGN.md` (I3) and `pending_inbound.rs` say that
  the loop never awaits a single channel. The CHANNEL_REQUEST arms do: they await
  `chan.send(..)` on the bounded buffer (`server/encrypted.rs:1401`). A channel whose
  application does not read stops all channels with one request.
* **`rekey_keepalive`.** NEWKEYS is written when the DH message is handled, the
  sealing cipher changes only when the peer's NEWKEYS arrives. The keepalive arm does
  not look at the exchange and writes in between, under the old key; the peer cannot
  open the packet and the session ends. `client/mod.rs:1345` says that no packet may
  be written in the middle of a rekey.

Further observations, met while modelling; the models contain the steps, the
properties are stated so as not to depend on them, and name what they except
(`spoiled`, `skewed`, `early`, `before`, `overlap`, `dropped`):

* The watchdog looks at the write buffer before the batch drain, and the supervisor's
  sleep is computed after it (`server/session.rs:1134`). Bytes staged by the drain into
  an empty buffer leave the watchdog disarmed and the loop asleep for its idle hour: a
  peer that takes no byte is not noticed within `write_progress_deadline`, although
  `server/mod.rs:117` says so.
* With `channel_buffer_size` 1 a reserve that holds the only slot and a
  CHANNEL_REQUEST of the same channel wait for each other: the loop stops although the
  application reads.
* When the reader of a channel disappears the window of what it did not read is not
  given back (`server/session.rs:606`), and a CLOSE queued for it is reported to
  nobody. On the server a held reader of a locally closed channel gets no more data
  that was on its way; on the client it does.
* What a dropped `Channel::data` had reserved is missing from the shared window until the
  next WINDOW_ADJUST overwrites it: up to then writers wait beside an open window.
* `Channel::data` may reserve more than the real window after a cancelled write or a
  discarded message, so its data can be parked; channel data sent by callbacks in the
  middle of an exchange is parked, but a WINDOW_ADJUST that arrives then lets parked
  data out, and other packets are not parked at all (window grants included); behind
  the own NEWKEYS they meet the same fate as the keepalive.
* `max_auth_attempts` is never enforced by the server; `partial_success` is
  overwritten by later rejections and may be stale in a failure message.
* Answers to authentication requests carry no number: when a call is dropped, the next
  one gets its answer. A signer that fails leaves the client's loop waiting, and
  `authenticate_*` on an authenticated session never returns.
* A keepalive of the server before authentication ends a russh client with
  `Inconsistent` (`client/encrypted.rs:306`).
* With deferred compression the client decompresses from the success on, the server
  compresses only from the client's first packet behind it. What the server sends of its
  own accord in between is read in the wrong form and ends the session: a keepalive or
  another global request (`tcpip_forward` checks no state, `server/session.rs:1942`), and
  channels, which `channel_open_generic` opens in `InitCompression`
  (`server/session.rs:1898`), be it from a task or from `Handler::auth_succeeded`, which
  is handed the session there (`server/encrypted.rs:104`, `:126`). The same happens to a
  global request of the client that crosses the success.
* For channel types it does not serve a session writes CHANNEL_OPEN_FAILURE itself and
  drops the handle, which writes a second one; `lib_inner.rs` says that at most one
  reply exists. A dropped open call leaks the channel when it is confirmed, and on the
  server a refusal then ends the session with `SendError`.
* Keepalives without reply, `no_more_sessions` and cancelled forwards push no or an
  unanswered entry on the queue of global requests, so later answers go to the wrong
  asker. So does the global answer that a russh server gives to `auth-agent-req`
  (`server/encrypted.rs:1499`), which takes an entry that is not its own. The initial window of a confirmed channel may overwrite a WINDOW_ADJUST that
  came first. `session.data` in the callback that has just called `accept()` is
  discarded.
* Every iteration but a keepalive's sets the inactivity timer, the flush of the
  keepalive included: with keepalives and `keepalive_max` 0 a silent peer is never
  collected. A client with a keepalive interval spins until it is authenticated. On the
  server an inactivity timeout of an hour or more never fires, because the
  supervisor's idle sleep resets it.
* A callback longer than `write_progress_deadline` with bytes in the buffer ends the
  session with `WriteStalled` though the peer reads; a write credited at the end of its
  iteration makes `WriteStalled` up to twice the deadline late.

* Channel writer. A `ChannelTx` that is left by its caller keeps its place in the lock
  queue and its registration in `Notify`: it is handed the lock, and then the session's
  `update().await` (and with it the session) waits for somebody to poll it, or it absorbs
  the one wake-up and another writer sleeps on an open window. A spurious poll can make a
  finished `ChannelTx` keep a registered watch with the same effect. A `data_bytes` call
  dropped between its wake-up and the lock loses the wake-up. Writers asleep on the
  window are not woken when the channel or the session ends. `poll_shutdown` replaces a
  chunk that waits for the queue by Eof; its reserved window is lost, its bytes were not
  reported as written. With `max_packet_size` 0 a ChannelTx sleeps for ever, `data_bytes`
  returns `Inconsistent`.
* Handshake. A wrong guess is skipped only in `WaitingForDhInit`, so under a negotiated
  group exchange a guessed ECDH_INIT ends the session with `KexInit`, where the comment
  says "Ignore the next packet if (1) it follows and (2) it's not the correct guess".
  `validate_client_msg_strict_kex` and its twin never run: `strict_kex` is set together
  with the keys. IGNORE and DEBUG inside a strict first exchange are tolerated; before
  KEXINIT they end it. A bare line feed as a line before the banner hides the
  identification behind it. Only the client-to-server cipher list is read. A client has
  no handshake deadline. `best_supported_rsa_hash` is documented to return `Some(None)`
  when the server lists no rsa-sha2 algorithm; it returns `None` if ssh-rsa is not listed
  either. On an anonymous session, authenticated from NEWKEYS on (`client/mod.rs:2329`), it
  returns `None` at once (`client/mod.rs:1664`), before the EXT_INFO, which is then not
  looked at.
* Agent. `is_locked` is read before `confirm_request().await`, so requests that wait for
  their confirmation are carried out on a locked agent; two Locks that overlap leave a
  lock that neither passphrase opens; a Lock with an empty passphrase answers SUCCESS and
  locks nothing. `Constraint::Confirm` is stored and never asked. `add_key` pushes SUCCESS
  before it fails on an extension. `remove_all_identities`, `extension` and
  `query_extension` never write their length: the agent answers FAILURE and ends the
  connection. `lock`, `unlock`, `remove_identity` and the smartcard calls ignore FAILURE.
  A dropped call leaves its answer to the next one. The server ignores the hash flags of
  a sign request, and the client then rejects the signature it asked for with SHA-2.

## 6. What is proved

The proofs hold for every value of the constants that satisfies the modules' named
assumptions, in particular for any number of channels, any window, cap, buffer,
deadline and bound.

* `InboundDeliveryProofs`
  * `TypeCorrect`: `TypeOK` is inductive as it stands.
  * `BacklogAlwaysReserved`: `BacklogHasReserve` is not. The strengthening
    `ReserveInv` adds, per channel, that `reserving` implies a backlog, that a backlog
    implies a channel in `Session::channels`, that in the channel's own callback there
    is no reserve and `reserving` is off, and that an open channel without backlog has
    no reserve. Stale reserves, of channels torn down and not reopened, are what the
    last clause excepts.
  * `StreamAlwaysIntact` (`StreamIntact`), from `StreamInv`: buffer, backlog and wire are
    each a `Chain`, every item of which starts where the one before it ends, and the
    chains meet at `delivered`, `taken` and `sent`. A chain is stated over neighbours,
    because it has to be extended and cut at both ends without an induction over
    sequences. Which chains have to meet depends on what is left of the channel: its entry
    in `Session::channels` outlives the one in `Encrypted::channels`, and on a client it
    takes data even after the own CLOSE (`Attached`).
  * `BacklogAlwaysBounded` (`BacklogBounded`), from `BacklogInv`: `pending_bytes` is
    `taken - delivered`, an Eof or Close in the backlog is remembered by the flag that
    stops the next one (`Remembered`), and a stretch of the queue between any two places
    has no more items than bytes but for those two (`Counted`). Counting between every two places makes this
    inductive when an item leaves at the front and when one comes at the end.
  * `CreditAlwaysBacked` and `WindowAlwaysHonest` (`WindowHonest`), from `WindowInv`: for a
    peer that obeys, `window` is exactly its credit, the grants on their way to it and its
    bytes on the wire, and window and backlog together never exceed the largest target. The part of `WindowHonest` that leaves
    the peer a window needs a hypothesis, `TargetsSplit`: every target is at least 2. With
    a target of 1 the threshold `target / 2` is 0 and no grant is ever due.
  * `ImplementsBytePipe` (`InPipe`), from the stream and backlog invariants and `CloseInv`:
    no data follows a CLOSE on the wire, one in the backlog stands behind all that was
    taken, and one that was taken ends a stream that was taken completely. `Edge` is the
    end of what a channel holds; every step of a channel is `Still`, `Putting`, `Getting`
    or `Breaking` for it, one lemma per action, and these four are steps of `BytePipe`.
* `OutboundFlowProofs`
  * `StreamAlwaysIntact` (`OutStreamIntact`), from `StreamInv`: peer, sealed packets,
    staged packets and parked data are chains that meet, with at most one CLOSE and
    nothing behind it, and messages in the queue of the loop are well formed. All arms of
    the loop that touch a channel end in `SessionData`, `SessionEof`, `SessionClose` or
    `flush_pending`, and `StreamStep` is what each of these does to the chains.
  * `AckAlwaysMeansSent` (`AckMeansSent`), from `AckInv`: a parked producer
    waits for bytes of that channel that were accepted, a channel that closed with
    producers parked on it had emitted everything (`ClosedOK`), and each producer of a
    queued message waits for that message alone (`QueuedOK`).
  * `WindowsAlwaysAgree` (`WindowsAgree`), from `WinInv`: `flying`, the
    window that was taken and is not yet accepted, covers at least the bytes that writers
    hold and those of their queued messages, so that it is never negative when a
    WINDOW_ADJUST overwrites the shared window. The two sums are cardinalities of sets of
    (holder, byte) pairs, because a fold over a sequence cannot be unfolded.
  * `ImplementsBytePipe` (`OutPipe`): the chains as one range of bytes from `sentTo` to
    `accepted`; a step moves one of its ends or breaks the channel.
* `ChannelWriterProofs`
  * `WakeupNeverLost` (`WakeupNotLost`). `Orderly` relates the parts of `Notify`: a
    permit is kept only while nobody waits, and who waits is in the queue.
    `WakeupSomewhere` says where a wake-up may be while the window is open and a writer
    waits or is about to: in the permit, with a woken writer, with a writer that has yet to
    pass it on (`owes`), with the session between `SetWindow` and `NotifyChange`, or lost
    with a dropped call.
  * `WriterStreamAlwaysIntact` (`WriterStreamIntact`), from `StreamInv`. The property is
    stated message by message (`Follows`: what may stand behind what in the line of a
    writer), so that no messages have to be selected out of the queue. It is not inductive
    alone: that posted bytes never repeat a place needs that a chunk that waits for a slot
    is not empty, and that nothing is written behind an Eof or a Close needs that only a
    writer that is at its end has sent one (`LineOK`).
* `AgentProofs`
  * `LockAlwaysHolds` (`LockHolds`), from `LockInv`: the types of connections, clients,
    store and lock, and that a timer that runs for a stored key was started by a lifetime
    of that very addition (`TimersOwned`, needed for `KeysStay`).
  * `KeysStay` (`KeyStays`): the action property, from the same invariant; a stored key
    goes by a Remove, a RemoveAll or the timer of its own addition.
  * `SuccessMeansDone` (`OkMeansDone`), from `CallsInStep`: as long as no call of a
    connection was dropped, its one call is on the wire in full, awaits its confirmation,
    has one truthful answer, or will never have one. Answers carry no number; this invariant is what
    stands in for it.
* `UserAuthProofs`
  * `AlwaysCreditedToItsUser` (`CreditedToItsUser`), against any client, from `ServerInv`:
    `current` is empty until the service was accepted (`ServiceFresh`), a key in it was
    offered for that user and accepted (`ProbeOnRecord`), and a signed grant ends the
    authentication (`GrantIsFinal`). `QueuesOK` carries the origin of user names through
    the queues: a request names a user from the call that made it to the server.
  * `CompressionAlwaysInStep` (`CompressionInStep`) and `ResultAlwaysOfOwnCall`
    (`ResultOfOwnCall`), from one invariant `AuthInv`: `QueuesOK`, `WireInv` and `CallInv`.
    `WireInv` says where each direction starts to compress: there is one success at most,
    everything before it is plain, everything behind it compressed but for what was sent
    unasked, and the contexts of the four ends start in the order server, client (`StartInv`, `FormInv`);
    `AnyInv` does this for an arbitrary client and `ServiceInv` excludes a second service
    request. `CallInv` stands in for the number that the answers do not have: as long as
    no call was abandoned, the call under way is at one place only, in a message to the
    session, held until the service is accepted, in a request on the wire or with the
    server, in a verdict on the wire, in a reply or with the application (`Alone`, `Idle`,
    `Once`), and what stands for it carries its number (`Numbered`). `CompressionInStep`
    needs both parts: a request that is sent before and read after the grant would be read
    in the wrong form, and that there is none follows from the one place of the call.
* `RekeyProofs`
  * `DeadlineAlwaysTracks`: the deadline is armed exactly during an exchange and
    belongs to it; inductive with the types of the variables involved, and without the
    condition that the server is alive.
  * `SidesAlwaysInStep` (`SidesInStep`), from `StepInv`. The messages of all exchanges are
    numbered: a message is sealed with the key of the exchange before it, so key and kind
    give its `Place`. Per direction, a wire holds exactly the messages between the last one
    its reader has read (`Reached`) and the last one its writer has written (`Told`), in
    order (`InOrder`), and as long as the writer was never late each packet is sealed as
    the one before it demands, NEWKEYS being what changes key and number (`SealedFrom`).
    `Reached` and `Told` are read off the state of each side alone, so that the argument
    needs no joint enumeration of the two state machines: what may be next on a wire is
    what its reader expects.
* `ChannelOpenProofs`
  * `AnswerAlwaysToAsker` (`AnswerToAsker`), from `LineInv`. While every request that has an
    entry is answered, `open_global_requests` is the numbers of the answers on their way
    and, behind them, of the requests still to be read that will be answered (`Line`). Both
    wires and the queue are in the order of those numbers, so that an answer belongs to the
    least entry, which is the head.
  * `ChannelAlwaysMatchesCall` (`ChannelMatchesCall`), `AlwaysAnsweredOnce` (`AnsweredOnce`)
    and `AlwaysWritableFromTheStart` (`WritableFromTheStart`), from `OpenInv`. A call is in
    one place only: idle, queued, in a CHANNEL_OPEN on the wire, or in a handle of the
    responder (`OnePlaceEach`), and so are the numbers of both ends. The decision on it is
    in one place too: in the queue of answers, in a confirmation on the wire, or in the
    opener's table (`OneDecision`); a refusal comes from a rejected handle, so that it never
    removes a channel that a caller was told of (`KeptByOpener`, `CallerInformed`). An
    accepted channel is registered or has its answer queued, which is why a write that is
    dispatched after draining never finds it missing. `Counted` relates the number of
    answers to where the decision is.
* `RunLoopProofs`, from one invariant `Inv`:
  * `RunLoopTypeCorrect`, `FlushAlwaysExact`, `HandshakeAlwaysBounded`,
    `StallsAreReal`. `HandshakeBounded` needs `AwakeInTime` (the supervisor's sleep is
    never longer than what is left of the handshake), `StallIsReal` needs
    `WatchIsFair` (an armed watchdog has bytes to watch and has counted no more
    stillness than there was, unless a write is waiting to be credited). All arms of
    `select!` end in `Continues`, and one lemma, `IterationKeepsInv`, covers them.

The assumptions are those of the modules: bounds are natural numbers, and positive where
the code divides by or waits for them; `NoUser` is no user; and in `OutboundFlow` a
producer that is parked at the start (`StuckBy`) is parked on one channel, as a producer
has one call at a time.

Only model-checked: everything else in section 4. Liveness under fairness and
properties that rest on `ENABLED` are outside the prover's reach: `HealthyChannelProgress`,
`ClosedChannelReleased`, `ProducerResolves`, `RekeyEnds`, `SilenceEnds`, `NobodyStranded`,
`HandshakeSettles` and the `CallReturns` of three modules. Three invariants of `Handshake`
rest on what `SelectSeq` returns, which is only provable by induction over a sequence, and
the prover cannot instantiate the library's induction theorems: `Negotiated` and `GetAlong`
because the lists that are sent are filtered (`NoExt`, `HostKeyAlgos`) and the server picks
by the order of the filtered list, `UnitsIntact` because it selects the packets out of a
stream of lines and packets. The fourth, `HashKnown`, is about the few states of one call,
which TLC enumerates.

## 7. What is not modelled

Cryptography, key formats, certificates, known_hosts and configuration parsing, the
codec of compression, memory locking (`cryptovec`), the transports of the agent
(`pageant`, named pipes, sockets) and the platform shims: computation or I/O without a
protocol state. Within the modelled parts: the non-standard key exchange "none", the
constant rejection time of authentication, the byte layout of packets and of agent
messages. X11 and forwarding are uses of channels and add no state of their own to the
session.
