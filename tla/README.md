# TLA+ models of the HTTP-over-WSS proxy

This directory holds a formal model of the C++ program in `src/`: a local HTTP
proxy (the client) that carries TCP streams through one WebSocket connection to
a server, which dials the targets. The modules are translated from the source;
`PROJECT.json` gives for every definition the lines it stands for, for every
hazard the line where it bites, and for every property the change of the model
that breaks it.

Contents: [1 The system](#1-the-system) · [2 Modules and how they correspond to
the code](#2-modules-and-how-they-correspond-to-the-code) · [3 Runs](#3-runs) ·
[4 Bounds](#4-bounds) · [5 Fairness](#5-fairness) · [6 Proofs](#6-proofs) ·
[7 Disagreements](#7-disagreements-between-the-code-and-what-is-said-of-it) ·
[8 What is not modelled](#8-what-is-not-modelled) · [9 Plan](#9-plan)

To check: `tlc -config <run>.cfg <module>.tla` with the pairs of section 3, and
`tlapm` on each of `ProxySystemProofs`, `SessionManagerProofs`, `ConnAdmissionProofs`,
`WssTunnelProofs`, `LocalProxyProofs`, `WebSocketProofs`, `UpdaterProofs` and
`PureFunctionsProofs`.

## 1 The system

```
 local client ──TCP──▶ LocalProxy ──▶ WssTunnel ══ WebSocket ══▶ server front ──▶ SessionManager ──TCP──▶ target
   (browser)           (client)        (client)     (one TCP/TLS)  (main.cpp)       (one per WSS)
```

Everything is multi-threaded, blocking C++ with mutexes and atomics; there is
no event loop and nothing is persistent except the program file, which the
self-updater replaces.

| component | source | state | operations | threads |
|---|---|---|---|---|
| Local proxy | `client/local_proxy.*` | listener, per connection: `opened`, `halfPending`, `closed`, `pending` | accept, read head, CONNECT, plain HTTP, pump, callbacks onOpen/onData/onError/onClose | accept loop (which handles a connection itself and waits for the pump thread it starts); callbacks come on the tunnel's thread |
| Tunnel | `client/tunnel.*` | `ws_`, `sessions_`, `ready_`, `stopped_`, `disconnected_`, `nextId_`, per session `state_`, `closed_`, `uplinkClosed_` | connect, runLoop (dial, read, reconnect with backoff), handleControl, onDisconnected, openSession, push, pushEnd, closeSession, close | loop thread, heartbeat thread, callers, main |
| WebSocket | `common/websocket.*` | `state_`, `fragBuf_`, `fragOpcode_`, `closeEmitted_`, `writeMutex_` | runReadLoop, sendText/Binary/Ping, close, terminate, handleControl, dispatchFrame, failConnection | one reader, any number of writers |
| Streams and sockets | `common/stream.*`, `common/tcpsocket.*` | descriptor, SSL object | read, writeAll, shutdownWrite, close, accept, connect | callers' |
| Server front | `server/main.cpp` | `g_stopping`, `g_perIpCount` | accept loop, TLS handshake, upgrade, per-address limit, message dispatch | accept loop, one detached thread per connection |
| Session manager | `server/session_manager.*` | `sessions_`, `workers_`, `finishedWorkers_`, `stopped_`, per session `socket_`, `uplinkClosed_`, `lastActiveMs_` | handleConnect/Data/HalfClose/Close, closeSession, sweepIdle, targetReadLoop, destroyAll, stop | reader, sweeper, one target thread per session |
| SSRF guard | `common/ssrf.*` | none | classification of addresses | callers' |
| Frames and JSON | `common/protocol.*` | none | encode/decode of data frames and control messages | callers' |
| Self-updater | `common/updater.*` | program file, temporary directory | query the release, choose the asset, compare, fetch, unpack, copy, restart | one detached thread, one shell child |
| Utilities | `common/{util,sha1,base64}.*` | none | strings, hashes | callers' |

**Interactions.** The proxy calls `openSession`, `push`, `pushEnd` and
`closeSession` of the tunnel; the tunnel calls the session's callbacks from its
loop thread. The two ends exchange control messages (`connect`, `connected`,
`error`, `half-close`, `close`) and data frames over one WebSocket. The server
front creates one session manager for each WebSocket and calls its handlers from
the read loop; target threads, sweeper and handlers write to the WebSocket
directly.

**What is hard.**

* The same session can be ended from four sides at once on the server (client,
  target, sweeper, end of the connection) and from four on the client (local
  client, server, loss of the connection, `close()`).
* State is read under a lock and used after it: the list of idle sessions, the
  session found before a resolve and connect, the per-address count, `ws_`.
* Callbacks are installed after the request that makes them fire has been sent.
* A connection is lost and dialled again while callers open sessions.
* Blocking calls (`send`, `recv`, `SSL_accept`) end only when the peer acts, and
  `close(fd)` does not wake them. One reader serves all sessions of a connection and
  itself writes to sockets and to the WebSocket, so that full buffers may form a circle.
* An update is a sequence of shell commands, each of which can fail by itself.
* The formats have edges: the lengths of a frame head, the masks of address blocks, the
  many spellings of an address, a head that arrives in pieces, ids that wrap.

**What makes the system correct.** A local client and a target see two byte streams: in
order, nothing left out or repeated, whole when they end in an orderly way, and moving as
long as both sides read. The components' share of this is as follows. Session manager: no socket without an
owner, one closer, one close notice, data after `connected`, the limit, a `stop()`
that leaves nothing and waits for nothing but a client that takes no more bytes. Tunnel: no session lost between insertion and
loss of the connection, one handling per loss, clean state before the next dial.
Local proxy: bytes in order and once, one verdict for the local client, an end of
either side that the other side learns of, a handler that releases what it holds. Front: an exact count. WebSocket: whole messages
in order, an end that is always reported. Guard: no private address is dialled, however it
is written. Formats: what one end writes the other reads, at every length. Updater: a whole
program file, the right asset, no endless restarting.

## 2 Modules and how they correspond to the code

One step of a model is one critical section, one system call or one access to a
shared variable that another thread may interleave with; code between two such
points that only touches locals is part of the step before it. `pc` names the
point where a thread stands.

| module | models | instances |
|---|---|---|
| `ProxyContract` | abstract: what a local client and a target may see of each other | through `ProxySystem` |
| `ProxySystem` | the way of a session from the client to the target and back, with its buffers, threads and lost connections; composes `local_proxy.cpp`, `tunnel.cpp`, `session_manager.cpp` | `MCProxySystem` |
| `SessionContract` | abstract: what one connection promises about its sessions (admit, retire, open, half-close and close of the target, frames to the client) | through `SessionManager` |
| `SessionManager` | `session_manager.cpp` and the message dispatch of `server/main.cpp` | `MCSessionManager` |
| `WssTunnel` | `tunnel.cpp`: loop thread, callers, `close()`, handlers | `MCWssTunnel` |
| `LocalProxy` | `local_proxy.cpp`: accept loop, handlers, pump, callbacks | `MCLocalProxy` |
| `ConnAdmission` | `server/main.cpp`: accept loop, upgrade, per-address count | `MCConnAdmission` |
| `WebSocket` | `websocket.cpp`: two ends, their readers, writers, heartbeat, close | `MCWebSocket` |
| `Updater` | `updater.cpp` on Linux: child, files, restart | `MCUpdater` |
| `SsrfGuard` | `ssrf.cpp`: address blocks, parsers, `guardTarget` | `PureFunctions` |
| `Protocol` | `protocol.cpp`: data frames, escaping, the scanner of control messages | `PureFunctions` |
| `WsFrames` | `websocket.cpp`: frame heads, masks, cutting of messages | `PureFunctions` |
| `ClientValues` | `tunnel.cpp`, `local_proxy.cpp`: sessionIds, backoff, hosts, ports, URLs | `PureFunctions` |
| `SocketRead` | `tcpsocket.cpp`, `stream.cpp`: reads with a limit, `readUntil` | `ReleaseFetch` |
| `ReleaseFetch` | `updater.cpp`: JSON, choice of the asset, redirects, bodies | `PureFunctions` |
| `PureFunctions` | the questions asked of the six modules above | `MCPureFunctions` |
| `…Proofs` | theorems of the module they are named after; those of `SessionManager` and `ProxySystem` also that each implements its contract | |

**ProxyContract and ProxySystem.** The contract knows no tunnel, threads or frames: per
session two streams of numbered pieces, who has announced an end, what either peer has
seen as an end, and `cut` for a session that was refused or whose connection was lost. In
`ProxySystem` the client has the threads `Handler` (accept loop, handler and pump, which
count as one since each waits for the next) and `Loop` (read loop with every callback, and the
reconnection); the server has one reader per WebSocket connection and one target thread
per session. Each socket and each direction of a connection holds `Room` pieces, and a
write waits for room. Mutexes are left out here: of two writers to one connection the one
that holds the mutex waits for room, and the other could do nothing else. Control frames
take no room but wait when there is none. A socket that is closed with unread bytes in it
resets the connection, and the peer may lose what it has not yet read. What is written
after the loss of a connection may still seem to have been sent. The callbacks are taken
to be set before an answer arrives; `LocalProxy` and `WssTunnel` have the case in which they
are not. Idle timers are left out, except that a session left over on the server after a
loss is marked `cut`: its timer is what ends it.

**SessionManager.** `sessions` is the key set of `sessions_`; `socket[s]` is
`none`, `open`, `half` (after `shutdownWrite`) or `closed`; `sent[s]` is the
sequence of frames sent about `s`; `cur`, `notify`, `todo` are the locals of a
thread. `RecvConnect … Connected … Spawn` are the stretches of `handleConnect`
between its three critical sections; `closeSession` is `CloseErase` (the erase
that elects one thread), `CloseTest`, `CloseRelease`, `CloseNotice`, whoever
calls it. `socket_` is a plain `shared_ptr` that the closing thread resets
while a target thread uses it: the target thread may then crash (`crashed`),
which is one of the outcomes the build can produce. Resolve, guard and connect
are one verdict each, chosen nondeterministically. A failed write to a target
closes the session and tells the client. A frame to the client is a step of its own
wherever a thread may wait in it: the refusal of a duplicate or of one session too many
is sent with `mutex_` held (`RecvRefusedConnect` to `SayRefused`), and until it is sent no
`closeSession` and no sweep gets on (`MutexFree`).

**WssTunnel.** `epoch` numbers the connections, `link` is the state of the latest
WebSocket, `wsRef` the number `ws_` refers to. Every session is opened by its own
caller thread: `openSession` in its stretches (limit, id, insertion, send,
undo), then the setting of callbacks, then any of push, pushEnd, closeSession.
`onDisconnected` is one procedure that both `Loop` and `Main` run, with the
steps "exchange", "collect and clear", "tell one", "mark one". The WebSocket is
seen as a state and a stream of frames whose content only depends on what the
server may say of a session.

**LocalProxy.** `Proxy` is the accept thread inside `handleConn` and its pump,
`Loop` the tunnel's thread inside a callback. The pieces of a stream are
numbered in the order the local client sent them; `pending` and `uplink` are
sequences of these numbers. `pending` is a `std::vector` both threads use
without a lock: a `push_back` while `onOpen` walks through it may crash. A push may
fail in the WebSocket, in the pump as in `onOpen`: it then closes the session and calls
`onClose` itself (`PushFails`).

**ConnAdmission.** `pc[c]` is where the thread of connection `c` stands: head,
check, inc, reply, live, stop, dec. `ipCount`, `incIp`, `decIp` each are one
critical section of `g_ipMutex`. `tls` is chosen at the start: with it the accept
loop itself performs the handshake, which has no timeout. `slow[c]` says that a
worker of the connection is inside a send its peer does not drain, `stuck[c]` that the
reader is inside a write to a target that does not read; the former holds up `stop()`, the
latter the end of the read loop, even when the peer is long gone.

**WebSocket.** A frame is one write under `writeMutex_` and the unit of the wire;
a wire holds `Room` frames and a writer waits for room with the mutex held. A
payload is the sequence of pieces it carries. A reader answers pings and close
frames itself, by the same `Lock` and `Send` steps as everyone. `Shut(e)` says
that the kernel has released the socket: the descriptor is closed *and* no
thread is inside `recv` or `send` on it (this is how Linux keeps the file).

**Updater.** `running` is the version of the process, `disk` the program file
(`Broken` while `cp` fills it), `child` the shell commands, which outlive the
process. Any command or download may fail, and the history variable `failed`
remembers that one has; a child may hang in any case. The SIGKILL after 120 seconds hits
the shell only: a `find` or `cp` it has started goes on. Releases appear in ascending
order.

**Pure functions.** A behaviour of `PureFunctions` asks one question: it chooses an
input, and the properties compare what the translated code answers with a definition that
does not use it (intervals instead of masks, the choice of the asset as a quantifier
instead of a loop, the value an entry was printed from instead of the scanner). Texts are
split at the signs their parser splits them at; a text with something wrong with it is
such a record with one field spoilt. A read has a limit only on a plain socket: over TLS
`SSL_read` waits on a blocking socket and the deadline is looked at by nobody
(`stream.cpp:158`), which `Limit` says; such a call does not return from a peer that falls
silent.

## 3 Runs

| run | module | properties | what it shows |
|---|---|---|---|
| `PX_streams` | MCProxySystem | ImplementsStreams, StreamsArrive, EndArrives | one CONNECT session, buffers of one piece and a ping among the data: what the peers see is a behaviour of `ProxyContract`, no circle of full buffers keeps data from arriving, the target's end reaches the client, and either one's end the target (that a client has half-closed need not end its session) |
| `PX_loss` | MCProxySystem | TypeOK, NoForgottenSession, ImplementsStreams | CONNECT and plain sessions over a connection that is lost at any moment and made again: still those streams, and the server keeps no session the client has given up |
| `SM_pair` | MCSessionManager | TypeOK, SessionLimit, NoOrphanSocket, SoleCloser, OneCloseNotice, StopReleasesAll | two sessionIds, a limit of one, sessions closed from every side at once: the limit holds although check and insertion are two critical sections, nothing is lost, nothing closed or reported twice |
| `SM_single` | MCSessionManager | ImplementsContract, StopTerminates, SessionsServed | every step of the threads is a step of `SessionContract` or a stutter (which includes: data only after `connected`); connects are answered, idle sessions go, sockets are released, `stop()` returns, although any send to the client and any write to a target may block for ever |
| `WT` | MCWssTunnel | TypeOK, LossHandledOnce, SessionsAccounted, Recovers | two connections, one caller, a concurrent `close()`: a loss is handled once and before the next dial, every session is in the map or ended, the caller is told, the loop dials again |
| `LP` | MCLocalProxy | TypeOK, CarriedOnce, HandlerConsistent, EndsPassedOn | pump and `onOpen` both push, nothing twice; one verdict; the end of the local client reaches the server, that of the session ends the handler, which releases what it holds |
| `CA` | MCConnAdmission | TypeOK, CountExact, RefusedOnlyWhenFull, AdmissionEnds | three connections of two addresses, plain and TLS: exact count, no early refusal, the slot comes back, a signal ends the process |
| `WS` | MCWebSocket | TypeOK, WholeInOrder, EndIsTold, AskedIsDone | fragments, control frames and a close interleave: messages whole, in order and delivered, each end told, and `close()` ends both read loops |
| `PF` | MCPureFunctions | GuardHolds, MessagesSurvive, IdIsNextFree, ClientValuesInRange, ReadsHoweverCut, ReleaseIsFound | the pure functions on bounded inputs |
| `UP` | MCUpdater | TypeOK, FileWhole, UpdateEnds | stops, kills and hanging children at any moment: file whole and restarts finite as long as no command fails, the wait always ends; a copy that fails half-way is exempted |

Two more runs end in a counterexample (`UP_NoRestartLoop`, `PF_BodyIsWhole`); section 7
explains them.

Some properties are conjunctions of named parts:

| property | parts |
|---|---|
| `SessionsServed` | idle sessions go, connects are answered, removed sessions release their sockets |
| `LossHandledOnce` | `CleanBeforeDial`, `DownAtMostOnce` |
| `SessionsAccounted` | `NoLostSession`, `ClosedLeavesMap`, `CloseLeavesNothing` |
| `Recovers` | `LossReported`, `Reconnects` |
| `HandlerConsistent`, `EndsPassedOn` | `OneVerdict`, `HandlerReleases`; `ClientEndArrives`, `SessionEndEnds` |
| `AdmissionEnds` | `SlotReturned`, `StopEnds` |
| `AskedIsDone` | `CloseEndsBoth`, `AcceptedIsDelivered` |
| `StreamsArrive` | `UpArrives`, `DownArrives` |
| `UpdateEnds` | restarts end, the wait for a child ends |
| `GuardHolds` | `BlocksAreRanges` (masks against the documented ranges), `SpellingsAgree`, `GuardAdmitsOnlyOpen` |
| `MessagesSurvive` | data frames, strings, fields of control messages, frame heads, fragments |
| `ClientValuesInRange` | `BackoffGrows`, `AuthoritiesAreRead`, `UrlsAreRead` |
| `ReadsHoweverCut` | `HeadHoweverCut`, `ReadsInTime`, `BodyFollowsHead` |
| `ReleaseIsFound` | `JsonIsRead`, `FirstAssetThatFits`, `RedirectsEnd` |

Some liveness properties carry an exception that is itself a result: no send and no write
has a timeout, and closing a descriptor wakes nobody, so that each says exactly who may
hold up what.

* `StopTerminates` (server): `stop()` returns, or waits for ever in its join for target
  threads that have ended or are each inside a send the client does not take. Neither
  `mutex_`, nor a target, nor the sweeper holds it up.
* `SessionsServed`: an idle session goes unless the sweeper is inside a notice that never
  ends, or refusals hold `mutex_` for ever or again and again; a connect is answered
  unless a thread stays inside a send for it. Sockets of removed sessions are closed in
  any case.
* `SlotReturned` (in `AdmissionEnds`): the slot of a peer that is gone comes back unless
  its reader stays for ever in a write to a target. `StopEnds`: a signal ends the process
  unless a peer keeps the accept loop in its TLS handshake for ever.
* `EndsPassedOn`: unless the handler of the local connection stays in a send for ever.
* `CloseEndsBoth` (in `AskedIsDone`) holds outside a *jam*: both wires full and at each
  end a thread inside `send` while nobody reads; the server's reader gets there by
  answering a ping or a close.

An exception is excused only when it lasts for ever (`[]`), and nothing else is. `EndsPassedOn`
and `EndArrives` ask nothing that a kept downlink would break: a handler that waited for
the target after a half-close, as `local_proxy.cpp:273` has it, would satisfy them too.

Deadlock is checked wherever the model has an explicit final step
(`SessionManager`, `LocalProxy`, `ProxySystem`). The others switch it off because their
system really stops: a closed tunnel without callers, an ended process, a connection
whose two ends are done, an updater waiting for a release, a question answered.

## 4 Bounds

Every bound is a constant of the module it limits.

* `Ids`, `Sessions`, `Conns`: two sessions are enough for every race between two
  of them, and a session races with itself through its several closers; nothing
  in the code treats a third session differently. `SM_single` uses one sessionId
  because liveness and refinement are per session, `WT` one caller because a caller
  meets the others only in the map, one critical section at a time. The theorems of
  section 6 have no such bound.
* `MaxSessions = 1`: with two ids the refusal is reached, and so is the race of a new
  session with the end of the one whose place it takes.
  `ReapThreshold = 1` stands for the 64 of `handleConnect`, so that it is reached.
* `MaxReads = 2`, `MaxPieces = 2`: a first and a later read or piece, which is
  what order and duplication need. `SM_pair` has no reads, its properties being about
  who closes.
* `MaxRefused`: how many ids without a session receive an error. `SM_pair` has none, so
  that a refusal holding `mutex_` occurs in `SM_single` only; with `MaxRefused = 1` the run
  has 7,756,288 distinct states, takes longer and passes as well.
* `MaxConnects = 2`: the state carried from one connection to the next matters (`WT`).
* `MaxPerIp = 1` with two connections of one address and one of another: the limit
  is reached, exceeded by a race, and independent between addresses.
* `ProxySystem`: one session. The accept loop serves one local connection after another
  and every frame carries its id, so that sessions meet only as buffers that are full with
  another one's data; a ping, whose pong waits like a foreign frame, stands for that.
  `PX_streams` has CONNECT only, one connection (`MaxEpochs`), `MaxUp = MaxDown = 2`
  (`Room` and one more in each direction) and one ping. `PX_loss` has both kinds of request, two
  connections, two pieces up, one down and no ping.
* `Room = 1`: the smallest wire, on which every write waits for a read; a larger
  one allows fewer waits, not other orders of frames. `MaxPings = 1`: one ping can
  come between any two frames. Two writers of one end: a message in two frames, the
  first and the last, and one in a single frame that may come between them.
* `PF`: `Radix = 4` instead of 256 values of a byte, so that all ids of four bytes can be
  enumerated; `MaxId = 6` and `Looked = 4` let an id wrap with every set of ids in use;
  `IntBits = 24` bounds the delays at which the backoff's shift overflows;
  `SendChunk = 3` makes messages of none, one and several fragments; `MaxPayload` is the code's
  64 MiB, asked about at its edge; `MaxBytes = 5` lets a head be too long. Addresses, lengths
  and ports are asked about on both sides of every edge the code has.
* `Slots = 2`: the child of the process and an orphan. `MaxInt = 9` stands for
  `INT_MAX`. Versions: one apart in the third number, one that has two numbers.

## 5 Fairness

* `SessionManager`: weak fairness for reader (inside a handler), sweeper and target
  threads, but only while the thread is not about to send to a client that is still
  connected (`Sending`) and, for the reader, not about to write to a target (`Blocked`):
  `writeAll` (`tcpsocket.cpp:383`) has no timeout. Resolve, connect and reads have. The client
  need not send anything. A mutex gives nobody a turn: `MutexFree` may be false again
  whenever the sweeper could have gone on.
* `WssTunnel`: weak fairness for the loop, for `close()`, for callers inside a call. Clients,
  servers and the network need not act.
* `LocalProxy`: weak fairness for the proxy thread and for callbacks, except where they send
  on the WebSocket or wait for the mutex of one who does (`ProxySends`, `LoopSends`).
* `ProxySystem`: weak fairness for each thread, and both peers read what they are sent.
  Nobody need send or end, and connections need not be lost. `StreamsArrive` says what remains
  when peers do read; that a peer who does not holds up its session, and every other one of
  the connection, is the code's design (one reader per connection).
* `ConnAdmission`: weak fairness for the steps a thread takes without its peer. A
  plain head read gives up after 20 seconds; a TLS head read, a TLS handshake and a
  read loop end for certain only when the peer is gone. Strong fairness for the end of a
  read loop whose peer is gone: what it has left to be read is finite, so that a reader that
  every target lets go comes to the end of it; targets may hold it, and need never let go.
* `WebSocket`: weak fairness for each thread; the handlers a reader calls return. The number of writes is bounded, so
  weak fairness suffices for a thread that waits for `writeMutex_`.
* `Updater`: weak fairness for the update thread, except where it reads over TLS, which may
  last for ever. Children may hang.

## 6 Proofs

TLAPS checks these for every value of the constants that the modules' assumptions allow:
any set of sessions or connections (finite only where cardinalities are counted), any
limit, any number of pieces, messages, pings and connections.

| module | theorem | states |
|---|---|---|
| `ProxySystemProofs` | `TypeCorrect` | `[]TypeOK` |
| | `NoneForgotten` | `[]NoForgottenSession` |
| | `ProxyKeepsItsContract` | `ImplementsStreams`: `ProxySystem` refines `ProxyContract` |
| | `StreamsArePrefixes` | what `ProxyContract` means: received is a prefix of sent |
| | `EndsAreTrue` | and an orderly end comes after the last piece |
| | `PeersSeeTheirStreams` | hence of the proxy: prefixes only, and clean ends are whole, in both directions |
| `SessionManagerProofs` | `TypeCorrect` | `[]TypeOK` |
| | `OneCloser` | `[]SoleCloser` |
| | `NoSocketLost` | `[]NoOrphanSocket` |
| | `StopIsComplete` | `[]StopReleasesAll` |
| | `LimitHolds` | `[]SessionLimit` |
| | `OneNotice` | `[]OneCloseNotice` |
| | `ManagerImplements` | `ImplementsContract`: `SessionManager` refines `SessionContract` |
| `WssTunnelProofs` | `TypeCorrect` | `[]TypeOK` |
| | `NoSessionEscapes` | `[]SessionsAccounted` |
| | `LossesHandledOnce` | `[]LossHandledOnce` |
| `LocalProxyProofs` | `TypeCorrect` | `[]TypeOK` |
| | `PiecesOnce` | `[]CarriedOnce` |
| | `HandlersConsistent` | `[]HandlerConsistent` |
| `ConnAdmissionProofs` | `TypeCorrect` | `[]TypeOK` |
| | `CountIsExact` | `[]CountExact` |
| | `NoEarlyRefusal` | `RefusedOnlyWhenFull`, an action property |
| `WebSocketProofs` | `TypeCorrect` | `[]TypeOK` |
| | `EndReported` | `[]EndIsTold` |
| | `MessagesInOrder` | `[]WholeInOrder` |
| `UpdaterProofs` | `TypeCorrect` | `[]TypeOK` |
| | `FileStaysWhole` | `[]FileWhole` |
| | `DownloadEnds` | a download ends within six requests, with the right body, where the redirects led |
| | `NothingAddsToAValue` | what follows a value does not change how the release's parser reads it |
| | `ValuesAreRead` | every JSON text is read as the value it was written for, and no proper beginning of it is a value |
| | `FirstAssetIsChosen` | of a release's assets the first one is chosen that fits and has an address |
| `PureFunctionsProofs` | `IdsAreNextFree` | `[]IdIsNextFree` |
| | `BackoffInRange` | the wait before a new attempt is in range and never gets shorter |
| | `BlocksV4`, `BlocksV6` | for each of the 2^32 and 2^128 addresses, the masks refuse exactly the listed ranges |
| | `SpeltIsLiteral` | every spelling of an IPv6 address is read as that address |
| | `GuardLetsNoPrivateThrough` | `[]GuardHolds` |
| | `SpeltIsRead` | host and port are read from any header or URL as they were meant |
| | `ClientValuesFit` | `[]ClientValuesInRange`, if ports fit an int (`PortsFit`) |
| | `CutRead` | `readUntil` gives out the head however the text is cut, with a limit or without |
| | `ReadsCutAnywhere` | `[]ReadsHoweverCut`, if the end of a head fits a read (`HeadFits`); of the time of a read over TLS it says nothing |
| | `FrameIsRead` | a data frame of any sessionId and payload is read as it was sent |
| | `StringIsRead` | so is a string of any signs, whatever follows it |
| | `ObjectIsRead` | so is an object of any keys and any number of entries |
| | `HeadIsParsed` | the head of a WebSocket frame of any length is read when all of it is there |
| | `PayloadIsRead` | the payload is unmasked to what it was |
| | `FragmentsAreWhole` | a message of any length is in its fragments |
| | `MessagesArrive` | `[]MessagesSurvive`, if the reader takes five bytes and no more than a length can say (`PayloadFits`) |

Hardly any of these is inductive. In each module a lemma `Next…` shows for one conjunct of
the invariant, action by action, that every step keeps it.

**SessionManager.** `Inv == Typed /\ PendingFresh /\ Exclusive /\ NotDialed /\
NoOrphanSocket /\ Joinable`. `Typed` adds to the types that a busy thread works on a
session that was made. `PendingFresh`: while `handleConnect` is between its first two
critical sections nobody else knows the session, so that the insertion cannot revive one
being closed. `Exclusive`: a session being closed has left the map and has one closer;
`destroyAll`'s list is disjoint from what others close, since it swapped the map under
`mutex_`. `NotDialed`: a session without an answer has no socket, so that erasing it loses
none. `Joinable`: a running thread is in `workers_`. `NoOrphanSocket` needs `Exclusive` and
`NotDialed`, these need `PendingFresh`, and `StopReleasesAll` follows from `NoOrphanSocket`
and `Joinable`.

**Its contract.** `Kept` adds to `Inv` what the frames say: `Unanswered` (nothing has been
said about a session before `handleConnect` answers it), `Opened` (a target thread exists
only after `connected` was said, or could no longer be), `Bounded` (the map plus the
session about to be inserted is within the limit; only the reader lets the map grow, which
is why two critical sections suffice), `NoticeLast` and `OneCloseNotice` (the election by
`erase` is one-way, so at most one thread still has an end to tell), `Ended`, `Dialed`. The
refinement then goes step by step: `QuietSteps` sorts out what the contract does not see,
`Tells`, `Retires`, `Admits` and `Closes` map the rest to the contract's actions.

**WssTunnel.** `Inv` has `Accounted`: from the insertion on a session is in the map,
closed, or about to be closed by a thread that holds it; `TakenOut`: what a thread has
taken out of the map does not come back; `OnePast`: `disconnected_.exchange` lets one
thread through for each connection; `Handled`, `NoneLeft`: when the loop dials again no
session of the old connection is in the map unless its `openSession` is still under way
and will undo it; `Cleared`: the same at the end of `close()`. The others (`Locals`,
`Stopping`, `Reference`, `Offline`, `Unborn`) say where the threads can be.

**LocalProxy.** `OnePlace`: a piece is carried, kept in `pending`, being flushed, or in the
hand of the pump, and in only one of these, until `onOpen` has started; `Verdict`: a
session that was refused is over or about to be, and will not be greeted; `Closing`:
whoever sets `closed` first sees to the rest. `Calling` and `Fresh` say what a callback
knows of its session. A crash through the race on `pending` ends the behaviour and keeps
all of them.

**WebSocket.** `Reported`: whoever has made the state Closed reports the end or has done
so; `Counted`: `closeEmitted_` is what the number of reports says. On the client the race on
`closeEmitted_` leaves one or two reports (the second one is absorbed by
`onDisconnected`), on the server exactly one, since only its reader reports.

`WholeInOrder` needs the whole way of a message. `Lines` says, for each writer, that its
fragments make one line: those delivered (`Got`), those in the reader's `fragBuf_` (`Kept`),
those on the wire (`Chain`) and the one the writer is about to send (`Tip`) are, one behind
the other, fragments of consecutive messages from the first on, each carrying the message
it began as. A step moves a fragment across one of the borders; `OutShape` (what a writer
holds) and `PosShape` (which fragment follows which) say why it arrives at the right end.

**ProxySystem.** `Typed` has the types, by groups of variables, and `Shapes`: which frames
each direction carries. For each group a lemma `…Moves` says which actions change it, and
`UpMoves`, `DownMoves` what a step can do to a queue: leave it, put frames behind it, take
its head, or lose it with the connection. With these `NoForgottenSession` rests on three
parts. `Linked`: `lsock`, the maps and the callbacks agree on whether a session exists.
`Traced` follows one session through both programs: `Announced` (its `connect` is the first
of all that is sent about it, and until the server's reader takes it nobody at the server
has heard of it or answered), `AtHome` (one manager at most knows it, that of the last
connection unless this is cut, and a target socket that is open is in the manager's map),
`InHand` (the reader is dialling or writing for it), `Told` (once a target thread, a `close`
or an `error` on the wire has told of its end, it has left the map). `Remembered` is then
the property in the form that steps keep: from the `connect` on the client knows the
session, or the session's streams are cut, or a `close` is on its way up. The last case is
why `Announced` is needed: the `close` must not overtake the `connect`.

That `ProxySystem` refines `ProxyContract` needs, for each session, to know where its
pieces are. `Downstream` puts the stream to the client together from its places.
`TargetLine`: what the target sent is what its thread has read and what its socket still
holds. `DownLine`: what the thread has read is what it holds and what is on the wire, and
in front of that what the client's loop has passed on; the `data` frames of a session are
consecutive (`Run`), and a `close` has all of them before it (`Reach`). `LocalLine`: what
the loop has passed on is what it holds, what the local socket holds and what the client
has read, with the answer to the CONNECT in front. `Mute`, `First`, `Here` and `Alive` say
that nothing of a session is on the wire before it is known, after it is forgotten, or
twice. `EndsDown` then says why a local socket can be at its end: the session was cut, the
local client ended first, or the target's end came behind the last piece. A half-closed
target whose thread reads on, and a manager that is torn down while its frames are still
on the way, are the cases that need all of it.

`Upstream` does the same for the other direction, in two ways, because a plain request
loses its order: the pump pushes new pieces while `onOpen` still flushes the old ones.
`Apart(s, n)` holds for every request: piece `n` is in one place at most, of those in
`Places` (unread in the local socket, in the pump's hand, kept for `onOpen`, on the wire,
in the reader's hand, in the target's socket, read by the target), and once there. A step
moves a piece from a place to the next (`Comes`), so none arrives twice. `UpLine` holds
for CONNECT only, whose client waits for the answer, so that nothing is ever kept
(`Early`): what the target has read, its socket, the reader's hand, the wire and the
pump's hand make one line. The end of the stream takes a way of its own. `NoneAfter`:
once an end has been kept or sent, the pump sends nothing more, and an end that a CONNECT
client's pump keeps for `onOpen` is that of a client that has sent nothing. `EndsLast`: in
a session that was not cut, a `half-close` or `close` on the wire is behind the last
piece. `EndsWhole`: when the target's socket is shut, all that was sent is in it, unless
the target ended first or the shutting reset it. The cases that need these three are the
pump that ends before the session is open, the target thread that closes a socket while
data for it are on their way, and the local socket that a `close` from the server shuts
under the pump's hand: what is lost then is in no place, and no later piece follows it.
`StepImplements` maps the steps: each send, end and read of a peer is a step of the
contract, and all others are losses (`Cuts`) or stutter.

**ConnAdmission.** `Inv == TypeOK /\ InHand /\ CountExact`; `InHand` says that the
connection the accept loop holds has no thread yet, so that no address is counted for it.
The steps into and out of `Holding` use the cardinality of a finite set with one element
more or less.

**Updater, ProxyContract.** `Sourced`: a child that copies has a source; the contract's
two invariants are inductive together with its types. What the updater asks for is proved
about `ReleaseFetch` (there `Get`, with the delimiter and limit of the code), the way the
functions below are. *Requests*: the six turns of the loop are written out (`LoopExists`);
`Hops` answers are followed, and a turn knows where those before it led (`Led`). *Parser*:
its function is built from the end of the text backwards (`RowsExist`), since a row looks
only at rows behind it (`RowsAhead`). What is read in a beginning of a text is read in the
text as well (`AlsoRead`), from its last row to its first. `Written` is the grammar: a list
of pieces, each made of pieces before it, and each is read, wherever it stands, as its
value and up to its end (`Spells`). A beginning that were read as a value would end before
the text does, and the text would then be read as ending there too.

**PureFunctions.** Nothing here is an invariant of steps: a question is asked once, and the
theorem is about the function that answers it. Each is proved for arbitrary arguments first,
and `Spec => []P` follows since every question asked is one of these. The library's
induction theorems take an operator and cannot be used, so the recursion of a function is
undone by hand. `LeastNumber` finds the least element of a set of numbers, by
well-foundedness of `<`, and gives induction over sets of numbers, upwards (`AllNumbers`)
and downwards (`DownFrom`). A recursive function is a CHOOSE of some `f` that satisfies an
equation: lemmas `…Exist` build such an `f` step by step, so that the equation may be used.
`FoldedExists` and `FoldedRuns` do this for `FoldFunction` and hence for `FoldLeft`: what a
fold computes is the end of a run, one step for each place.

* *Ids, backoff.* The search of `allocId` takes the first free number behind `nextId`;
  doubling is bounded by 1024, so that nothing overflows when the first delay's 1024-fold
  fits an int, which is the case the property is about.
* *Guard.* The masks (`%`, `\div` of bytes) are inequalities: `BlocksV4`, `BlocksV6` take the
  address space apart range by range. A spelling is what `Says` states of the parts of a
  text, padded with zeros or with a dotted end; `SpeltIsLiteral` shows that each is read as
  the same eight groups. What is spoilt is refused for the reason it was spoilt.
* *Client values.* The reading of a port is a fold over its digits; `PortsFit` says that
  65535 and the first digit beyond fit an int of `IntBits` bits (32 in the code).
* *Reads.* `readUntil` is a fold over what arrives. The invariant of its run is: nothing yet
  (`Reading`: the buffer is all that has arrived, and no head ends in it), or `HasRead`, the
  result. Where a text is cut is a strictly increasing function `end`; of `bodyOf` it
  follows that what it joins is what lies between two cuts. `HeadFits` says that the end of
  a head has fewer signs than a read may have (4 and 65536 in the code).
* *Data frames* hold for every `Radix` above 1. *Strings*: what `jsonEscape` writes for each
  sign stands at a place of its own (`IsLaid`), and `ScanString`, which looks ahead, is
  followed backwards from the closing quote.
* *Objects.* `skipValue` and `parseObject` exist as functions because both look ahead only
  (`SkipsForward`, `EntriesForward`). The text of an object has its entries one behind the
  other (`IsLaidOut`); each is read with its own key and value and up to its own end
  (`EntryIsRead`: a nested value is skipped whole because its brackets match, a word because
  a comma follows). From the last entry backwards the fields are what the entries behind
  mean (`IsFields`), of two with the same key the later one.
* *WebSocket frames.* The length's bytes are divided off one by one (`IsShifted`) and put
  together again by eight steps of a fold; two xors with the same byte cancel because each
  bit of a byte does (`XorTwice`). `PayloadFits` bounds `MaxPayload` (64 MiB in the code) by
  2^64, the lengths that can be written, and lets it be as much as the questions ask for.
* *Fragments*: the sum of a fold over frames whose sizes are differences of ends.

**Only model-checked.** Liveness, and `StreamsArrive` among it (TLAPS 1.4.5 does not handle
ENABLED, hence no fairness). `ReleaseIsFound`, as an invariant of `PureFunctions`: its three
parts hold of the bounded questions there, and `ValuesAreRead`, `FirstAssetIsChosen` and
`DownloadEnds` say more of the same functions, for all texts, lists and answers.
`UP_NoRestartLoop` and `PF_BodyIsWhole` check what is false. No module
declares a RECURSIVE operator; recursion is by functions and folds.

## 7 Disagreements between the code and what is said of it

Each is a property that restates a comment or a document and that the code breaks. Two
are runs of their own; `PROJECT.json` quotes the line.

| run | what happens |
|---|---|
| `UP_NoRestartLoop` | a failed unpack or copy is taken for success; the old version restarts itself for ever (`updater.hpp:10`) |
| `PF_BodyIsWhole` | bytes of the body that arrive together with the end of the head are dropped by `readUntil` (`updater.cpp:246`) |

The others are stated in the modules as well, and TLC shows each when the named
configuration lists it alone, with the constants given here:

| property | configuration | what happens |
|---|---|---|
| `ThreadsLeaveNaturally` (`INVARIANT`) | `SM_single` | `destroyAll` resets `socket_` under the target thread that uses it (`session_manager.cpp:305`) |
| `ReapRemovesEnded` (`PROPERTY`) | `SM_pair`, `MaxSessions = 2`, `ReapThreshold = 2` | `finishedWorkers_` is never filled; handles of ended threads accumulate until the connection ends (`session_manager.hpp:82`) |
| `SweepsOnlyIdle` (`PROPERTY`) | `SM_single`, `MaxReads = 1` | the sweeper closes a session that became active after the list was made (`docs/protocol.md:164`) |
| `ClientCloseAnswered` (`PROPERTY`) | `SM_single`, `MaxReads = 0` | a client's `close` is not answered (`docs/protocol.md:148`) |
| `ErrorMeansGone` (`INVARIANT`) | `SM_single`, `MaxSessions = 2`, `MaxReads = 0`, `MaxRefused = 1` | an error for a duplicate id is sent while the session of that id lives (`docs/protocol.md:88`) |
| `ConnectedMeansOpen` (`PROPERTY`) | `SM_single`, `MaxReads = 0` | `connected` may be sent for a session the sweeper has just closed (`docs/protocol.md:40`) |
| `ZeroIdRefused` (`INVARIANT`) | `SM_single`, `Ids <- WithZero`, `MaxReads = 0` | sessionId 0 is accepted (`docs/protocol.md:33`) |
| `OpenReported` (`PROPERTY`) | `WT`, `MaxConnects = 1`, `MayStop = FALSE` | `connected` may arrive before `onOpen` is set and is then lost (`tunnel.hpp:49`) |
| `CloseReturns` (`PROPERTY`) | `WT`, `MaxConnects = 1` | `close()` misses a connection that is being made, and waits for it for ever (`stream.cpp:163`) |
| `CarriedInOrder` (`INVARIANT`) | `LP` | a piece the pump keeps while `onOpen` flushes is overtaken or left behind (`local_proxy.cpp:223`) |
| `RequestComplete` (`INVARIANT`) | `LP` | body bytes that came with the head are dropped (`local_proxy.hpp:10`) |
| `HalfCloseKeepsDownlink` (`PROPERTY`) | `LP`, `MaxPieces = 1` | the end of the pump closes the session although the local client only half-closed (`local_proxy.cpp:273`) |
| `SessionsSideBySide` (`PROPERTY`) | `LP`, `Conns = {1, 2}`, `MaxPieces = 1` | a second local connection waits until the first is over (`README.md:30`) |
| `PerIpLimit` (`INVARIANT`) | `CA` | connections that arrive together all pass the per-address check (`docs/protocol.md:169`) |
| `TerminateDisconnects` (`PROPERTY`) | `WS` | `terminate()` leaves the socket to a thread inside `send`; both ends may wait for ever (`websocket.hpp:70`) |
| `UnknownFieldsSkipped` (`INVARIANT`) | `PF` | a message that ends in `true`, `false` or `null` is refused by the scanner (`protocol.cpp:57`) |
| `KeepsRunning` (`INVARIANT`) | `UP` | a number in a tag beyond `INT_MAX` ends the process from the update thread (`updater.hpp:10`) |

One more concerns no document but the design. `DownArrives` (`PROPERTY`, `PX_streams` with
`Kinds = {"plain"}`, `MaxUp = 1`) fails: for a plain request the client's loop thread
itself writes the head and the kept pieces in `onOpen`; while it waits for room the server's
reader may wait as well, answering a ping, because the target's data fills the other
direction, which the loop thread does not read. `PX_streams` therefore has CONNECT
requests, for which the loop thread writes nothing but answers. `UpArrives` is about
CONNECT for another reason: a plain client that half-closes before `connected` ends its
session with pieces still kept.

## 8 What is not modelled

* **SHA-1, Base64, string utilities**: hashes and Base64 are 32-bit arithmetic over known
  vectors, which the repository's tests cover.
* **Opening handshake of the WebSocket**: a success or a failure in `ConnAdmission`
  and `WssTunnel`; both ends are open in `WebSocket`'s initial state.
* **Resolving, connecting, formatting of addresses** (`tcpsocket.cpp`): a verdict in
  `SessionManager`, records of a lookup in `SsrfGuard`.
* **Rewriting of a plain request's head** (`local_proxy.cpp`): the head is piece 0 of the
  stream. **`listen` and `stop` of the local proxy** are left out, with the race of `stop`
  with the accept loop's use of `listener_`.
* **Two concurrent fragmented messages of one end**: `writeMutex_` covers a frame, so
  their fragments would mix. No caller sends more than one fragment at a time (64 KiB
  reads, 256 KiB fragments), which `WsAssumption` states.
* **OpenSSL**: a TLS stream is a channel; `SSL_free` under a concurrent `SSL_read` is
  listed as a hazard without a property.
* **Ownership cycles** (callbacks that hold their session or WebSocket): memory is not
  part of any model's state.
* **Escapes with four digits and fractions in JSON**: one code, and numbers as values.
  `controlMessage` of `protocol.cpp` is not called by the program.
* **Windows**: the update script, `closesocket` (which does wake a reader), WinHTTP.
* **Configuration, command line, logging, build files, scripts.**

## 9 Plan

Done: the proxy as a whole against two abstract streams; the server's session manager
against its contract, the client's tunnel and local proxy, the front, the transport, the
updater; the formats and pure functions; the proofs of section 6.

Left, in the order of what they would add:

1. Two sessions in `ProxySystem` where one target does not read. The states are too many
   for the present model; it needs one that keeps only the lengths of the buffers.
2. `LocalProxy::stop` together with the accept loop, once the value `accept` returns on a
   descriptor being closed is settled.
