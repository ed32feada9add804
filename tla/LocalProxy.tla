----------------------------- MODULE LocalProxy -----------------------------
(***************************************************************************)
(* The client's LocalProxy (src/src/client/local_proxy.cpp): local HTTP    *)
(* proxy connections, each carried by one session of the tunnel.           *)
(*                                                                         *)
(* Threads:                                                                *)
(*   - Proxy runs acceptLoop and, in it, handleConn; it waits for the pump *)
(*     thread of the connection, so that the two are one thread here;      *)
(*   - Loop is the reading thread of the tunnel, which calls the callbacks *)
(*     onOpen, onData, onError and onClose of a session.                   *)
(* The tunnel is what WssTunnel promises: a session is live until it is    *)
(* closed from either side or its connection is lost, and its callbacks    *)
(* are called if they have been set.                                       *)
(*                                                                         *)
(* The bytes of a local client are numbered pieces 1, 2, ...; piece 0 is   *)
(* the rebuilt head of a plain HTTP request.                               *)
(***************************************************************************)
EXTENDS Integers, Sequences, FiniteSets

CONSTANTS Conns,     \* local connections, in the order they arrive
          MaxPieces  \* bound: pieces a local client sends after its head

ASSUME ProxyAssumption == Conns \subseteq Nat \ {0} /\ MaxPieces \in Nat

None == 0

VARIABLES
  kind,       \* method of each connection's request: CONNECT, plain HTTP, or neither
  sock,       \* the proxy's end of each connection
  sentPieces, \* pieces the local client has sent
  withHead,   \* how many of them came in the same read as the head
  readPieces, \* pieces the proxy has taken from the socket
  eof,        \* the local client has shut its writing side, or closed
  gone,       \* the local client has closed altogether
  reply,      \* what the proxy wrote to the local client
  live,       \* the session of the tunnel exists and is not closed
  upClosed,   \* its uplinkClosed_
  uplink,     \* pieces the session carried, "end" for the half-close
  connected,  \* the server has said connected
  hooks,      \* callbacks assigned: 1 onError, 2 onOpen, 3 onData, 4 onClose
  opened, halfPending, closed,  \* the shared flags of the handler
  pending,    \* pieces kept until the session is open
  crashed,    \* pending was changed while onOpen walked through it
  ppc, conn, piece,             \* Proxy: where, which connection, which piece
  lpc, cur, ending, flush       \* Loop: where, which session, why, how much to flush

clientVars == <<kind, sentPieces, withHead, eof, gone>>
sessVars   == <<live, upClosed, uplink, connected>>
sharedVars == <<hooks, opened, halfPending, closed, pending, crashed>>
proxyVars  == <<ppc, conn, piece>>
loopVars   == <<lpc, cur, ending, flush>>
vars == <<clientVars, sock, readPieces, reply, sessVars, sharedVars, proxyVars, loopVars>>

Pieces  == 0 .. MaxPieces
Replies == {"200", "400", "502", "data"}

TypeOK ==
  /\ kind \in [Conns -> {"connect", "plain", "bad"}]
  /\ sock \in [Conns -> {"none", "open", "closed"}]
  /\ sentPieces \in [Conns -> Pieces] /\ readPieces \in [Conns -> Pieces]
  /\ withHead \in [Conns -> {0, 1}]
  /\ eof \in [Conns -> BOOLEAN] /\ gone \in [Conns -> BOOLEAN]
  /\ reply \in [Conns -> Seq(Replies)]
  /\ live \in [Conns -> BOOLEAN] /\ upClosed \in [Conns -> BOOLEAN]
  /\ uplink \in [Conns -> Seq(Pieces \cup {-1})]
  /\ connected \in [Conns -> BOOLEAN]
  /\ hooks \in [Conns -> 0 .. 4]
  /\ opened \in [Conns -> BOOLEAN] /\ halfPending \in [Conns -> BOOLEAN]
  /\ closed \in [Conns -> BOOLEAN]
  /\ pending \in [Conns -> Seq(Pieces)]
  /\ crashed \in BOOLEAN
  /\ ppc \in {"accept", "head", "open", "hooks", "pump", "eof", "end", "keepEnd",
              "piece", "push", "keep", "finish", "release"}
  /\ conn \in Conns \cup {None} /\ piece \in Pieces
  /\ lpc \in {"idle", "onOpen", "greet", "flush", "half", "onError", "onClose", "shut", "mark"}
  /\ cur \in Conns \cup {None}
  /\ ending \in {"none", "close", "error", "lost"}
  /\ flush \in Seq(Pieces)

Each(x) == [c \in Conns |-> x]

Init ==
  /\ kind \in [Conns -> {"connect", "plain", "bad"}]
  /\ sock = Each("none") /\ sentPieces = Each(0) /\ readPieces = Each(0)
  /\ withHead = Each(0) /\ eof = Each(FALSE) /\ gone = Each(FALSE)
  /\ reply = Each(<<>>)
  /\ live = Each(FALSE) /\ upClosed = Each(FALSE) /\ uplink = Each(<<>>)
  /\ connected = Each(FALSE)
  /\ hooks = Each(0) /\ opened = Each(FALSE) /\ halfPending = Each(FALSE)
  /\ closed = Each(FALSE) /\ pending = Each(<<>>) /\ crashed = FALSE
  /\ ppc = "accept" /\ conn = None /\ piece = 0
  /\ lpc = "idle" /\ cur = None /\ ending = "none" /\ flush = <<>>

End == -1  \* the half-close, in uplink
MaxReplies == 2  \* bound: entries of reply

-----------------------------------------------------------------------------
(* The tunnel, as its callers see it                                       *)

(* push: refused when the session is closed or has half-closed *)
CanPush(c) == live[c] /\ ~upClosed[c]

Carry(c, x) == uplink' = IF CanPush(c) THEN [uplink EXCEPT ![c] = Append(@, x)] ELSE uplink

(* pushEnd *)
CarryEnd(c) ==
  /\ Carry(c, End)
  /\ upClosed' = IF live[c] THEN [upClosed EXCEPT ![c] = TRUE] ELSE upClosed

Write(c, x) == reply' = IF sock[c] = "open" THEN [reply EXCEPT ![c] = Append(@, x)] ELSE reply

Shut(c) == sock' = [sock EXCEPT ![c] = "closed"]

(* a push that fails in the WebSocket closes the session and calls onClose *)
PushFails(c) ==
  /\ CanPush(c)
  /\ live' = [live EXCEPT ![c] = FALSE]
  /\ IF hooks[c] = 4 /\ ~closed[c] THEN closed' = [closed EXCEPT ![c] = TRUE] /\ Shut(c)
                                   ELSE UNCHANGED <<closed, sock>>

-----------------------------------------------------------------------------
(* The local clients                                                       *)

(* connections are taken from the listen queue in their order *)
Waiting(c) == sock[c] = "none"

ClientSends(c) ==
  /\ ~eof[c] /\ sentPieces[c] < MaxPieces
  /\ sentPieces' = [sentPieces EXCEPT ![c] = @ + 1]
  /\ UNCHANGED <<kind, withHead, eof, gone, sock, readPieces, reply, sessVars, sharedVars,
                 proxyVars, loopVars>>

ClientHalfCloses(c) ==
  /\ ~eof[c]
  /\ eof' = [eof EXCEPT ![c] = TRUE]
  /\ UNCHANGED <<kind, sentPieces, withHead, gone, sock, readPieces, reply, sessVars,
                 sharedVars, proxyVars, loopVars>>

ClientCloses(c) ==
  /\ ~gone[c]
  /\ gone' = [gone EXCEPT ![c] = TRUE] /\ eof' = [eof EXCEPT ![c] = TRUE]
  /\ UNCHANGED <<kind, sentPieces, withHead, sock, readPieces, reply, sessVars, sharedVars,
                 proxyVars, loopVars>>

Client(c) == ClientSends(c) \/ ClientHalfCloses(c) \/ ClientCloses(c)

-----------------------------------------------------------------------------
(* acceptLoop and handleConn                                               *)

Accept == \E c \in Conns :
  /\ ppc = "accept" /\ ppc' = "head"
  /\ Waiting(c) /\ \A d \in Conns : Waiting(d) => c <= d
  /\ sock' = [sock EXCEPT ![c] = "open"]
  /\ conn' = c
  /\ UNCHANGED <<clientVars, readPieces, reply, sessVars, sharedVars, piece, loopVars>>

(* readUntil reads whatever has arrived and keeps only the head: a piece   *)
(* that came with it is dropped.  A client that sends no head in time, or  *)
(* none that can be parsed, is turned away.                                *)
ReadHead ==
  /\ ppc = "head"
  /\ \/ /\ kind[conn] # "bad"
        /\ ppc' = "open"
        /\ \E n \in {0, 1} :
             /\ n <= sentPieces[conn]
             /\ withHead' = [withHead EXCEPT ![conn] = n]
             /\ readPieces' = [readPieces EXCEPT ![conn] = n]
        /\ UNCHANGED <<sock, reply, conn>>
     \/ /\ ppc' = "accept" /\ conn' = None
        /\ \/ kind[conn] = "bad" /\ Write(conn, "400")
           \/ UNCHANGED reply
        /\ Shut(conn)
        /\ UNCHANGED <<withHead, readPieces>>
  /\ UNCHANGED <<kind, sentPieces, eof, gone, sessVars, sharedVars, piece, loopVars>>

(* openSession, which may find the tunnel not ready or full *)
OpenSession ==
  /\ ppc = "open"
  /\ \/ /\ ppc' = "hooks"
        /\ live' = [live EXCEPT ![conn] = TRUE]
        /\ UNCHANGED <<sock, reply, conn>>
     \/ /\ ppc' = "accept" /\ conn' = None
        /\ Write(conn, "502") /\ Shut(conn)
        /\ UNCHANGED live
  /\ UNCHANGED <<clientVars, readPieces, upClosed, uplink, connected, sharedVars, piece, loopVars>>

(* mutant: one callback too many *)
SetCallbackMore ==
  /\ ppc = "hooks"
  /\ hooks' = [hooks EXCEPT ![conn] = @ + 1]
  /\ ppc' = IF hooks'[conn] > 4 THEN "pump" ELSE "hooks"
  /\ UNCHANGED <<clientVars, sock, readPieces, reply, sessVars, opened, halfPending, closed,
                 pending, crashed, conn, piece, loopVars>>

(* the callbacks are assigned one after the other, Loop runs meanwhile *)
SetCallback ==
  /\ ppc = "hooks"
  /\ hooks' = [hooks EXCEPT ![conn] = @ + 1]
  /\ ppc' = IF hooks'[conn] = 4 THEN "pump" ELSE "hooks"
  /\ UNCHANGED <<clientVars, sock, readPieces, reply, sessVars, opened, halfPending, closed,
                 pending, crashed, conn, piece, loopVars>>

-----------------------------------------------------------------------------
(* The pump: from the local client to the tunnel                           *)

(* the loop condition, and a read of at most 500 ms *)
PumpRead ==
  /\ ppc = "pump"
  /\ \/ /\ sock[conn] = "open" /\ readPieces[conn] < sentPieces[conn]
        /\ readPieces' = [readPieces EXCEPT ![conn] = @ + 1]
        /\ piece' = readPieces[conn] + 1
        /\ ppc' = "piece"
     \/ /\ sock[conn] = "open" /\ readPieces[conn] = sentPieces[conn] /\ eof[conn]
        /\ ppc' = "eof"
        /\ UNCHANGED <<readPieces, piece>>
     \/ /\ sock[conn] = "closed" \/ closed[conn]
        /\ ppc' = "finish"
        /\ UNCHANGED <<readPieces, piece>>
  /\ UNCHANGED <<clientVars, sock, reply, sessVars, sharedVars, conn, loopVars>>

(* the local client's end of stream: opened is tested, then acted upon *)
PumpEof ==
  /\ ppc = "eof" /\ ppc' = IF opened[conn] THEN "end" ELSE "keepEnd"
  /\ UNCHANGED <<clientVars, sock, readPieces, reply, sessVars, sharedVars, conn, piece, loopVars>>

PumpEnd ==
  /\ ppc = "end" /\ ppc' = "finish"
  /\ CarryEnd(conn)
  /\ UNCHANGED <<clientVars, sock, readPieces, reply, live, connected, sharedVars, conn, piece,
                 loopVars>>

KeepEnd ==
  /\ ppc = "keepEnd" /\ ppc' = "finish"
  /\ halfPending' = [halfPending EXCEPT ![conn] = TRUE]
  /\ UNCHANGED <<clientVars, sock, readPieces, reply, sessVars, hooks, opened, closed, pending,
                 crashed, conn, piece, loopVars>>

(* a piece is pushed, or kept while the session is not open *)
PumpPiece ==
  /\ ppc = "piece" /\ ppc' = IF opened[conn] THEN "push" ELSE "keep"
  /\ UNCHANGED <<clientVars, sock, readPieces, reply, sessVars, sharedVars, conn, piece, loopVars>>

(* mutant: a piece that is pushed is kept as well *)
PumpPushAndKeep ==
  /\ ppc = "push" /\ ppc' = "keep"
  /\ Carry(conn, piece)
  /\ UNCHANGED <<clientVars, sock, readPieces, reply, live, upClosed, connected, sharedVars, conn,
                 piece, loopVars>>

PumpPush ==
  /\ ppc = "push"
  /\ \/ /\ Carry(conn, piece)
        /\ ppc' = IF CanPush(conn) THEN "pump" ELSE "finish"
        /\ UNCHANGED <<sock, live, closed>>
     \/ /\ PushFails(conn)
        /\ ppc' = "finish"
        /\ UNCHANGED uplink
  /\ UNCHANGED <<clientVars, readPieces, reply, upClosed, connected, hooks, opened, halfPending,
                 pending, crashed, conn, piece, loopVars>>

(* pending is a plain vector: appending while onOpen walks through it or   *)
(* clears it may go well or not                                            *)
PumpKeep ==
  /\ ppc = "keep" /\ ppc' = "pump"
  /\ pending' = [pending EXCEPT ![conn] = Append(@, piece)]
  /\ crashed' \in {FALSE, cur = conn /\ lpc = "flush"}
  /\ UNCHANGED <<clientVars, sock, readPieces, reply, sessVars, hooks, opened, halfPending, closed,
                 conn, piece, loopVars>>

(* after pump.join(): who has closed the connection? *)
Finish ==
  /\ ppc = "finish"
  /\ closed' = [closed EXCEPT ![conn] = TRUE]
  /\ IF closed[conn] THEN ppc' = "accept" /\ conn' = None
                     ELSE ppc' = "release" /\ UNCHANGED conn
  /\ UNCHANGED <<clientVars, sock, readPieces, reply, sessVars, hooks, opened, halfPending,
                 pending, crashed, piece, loopVars>>

(* mutant: the session is left to the server *)
ReleaseSocketOnly ==
  /\ ppc = "release" /\ ppc' = "accept"
  /\ Shut(conn) /\ conn' = None
  /\ UNCHANGED <<clientVars, readPieces, reply, sessVars, sharedVars, piece, loopVars>>

(* closeSession, and the local connection is closed *)
Release ==
  /\ ppc = "release" /\ ppc' = "accept"
  /\ live' = [live EXCEPT ![conn] = FALSE]
  /\ Shut(conn) /\ conn' = None
  /\ UNCHANGED <<clientVars, readPieces, reply, upClosed, uplink, connected, sharedVars,
                 piece, loopVars>>

ProxyStep ==
  \/ Accept \/ ReadHead \/ OpenSession \/ SetCallback
  \/ PumpRead \/ PumpEof \/ PumpEnd \/ KeepEnd \/ PumpPiece \/ PumpPush \/ PumpKeep
  \/ Finish \/ Release

-----------------------------------------------------------------------------
(* The callbacks, on the tunnel's thread                                   *)

(* connected arrives; the callback may not have been assigned yet *)
ServerConnected(c) ==
  /\ lpc = "idle" /\ live[c] /\ ~connected[c]
  /\ connected' = [connected EXCEPT ![c] = TRUE]
  /\ IF hooks[c] >= 2 THEN lpc' = "onOpen" /\ cur' = c ELSE UNCHANGED <<lpc, cur>>
  /\ UNCHANGED <<clientVars, sock, readPieces, reply, live, upClosed, uplink, sharedVars,
                 proxyVars, ending, flush>>

OnOpen ==
  /\ lpc = "onOpen" /\ lpc' = "greet"
  /\ opened' = [opened EXCEPT ![cur] = TRUE]
  /\ UNCHANGED <<clientVars, sock, readPieces, reply, sessVars, hooks, halfPending, closed,
                 pending, crashed, proxyVars, cur, ending, flush>>

(* CONNECT is answered, a plain request sends its head *)
Greet ==
  /\ lpc = "greet" /\ lpc' = "flush"
  /\ \/ kind[cur] = "connect" /\ Write(cur, "200") /\ UNCHANGED <<uplink, live, closed, sock>>
     \/ kind[cur] # "connect" /\ Carry(cur, 0) /\ UNCHANGED <<reply, live, closed, sock>>
     \/ kind[cur] # "connect" /\ PushFails(cur) /\ UNCHANGED <<reply, uplink>>
  /\ flush' = pending[cur]
  /\ UNCHANGED <<clientVars, readPieces, upClosed, connected, hooks, opened, halfPending,
                 pending, crashed, proxyVars, cur, ending>>

(* for (auto& chunk : *pending) push, then clear() *)
Flush ==
  /\ lpc = "flush"
  /\ IF flush # <<>>
     THEN /\ \/ Carry(cur, Head(flush)) /\ UNCHANGED <<live, closed, sock>>
             \/ PushFails(cur) /\ UNCHANGED uplink
          /\ flush' = Tail(flush)
          /\ UNCHANGED <<pending, lpc>>
     ELSE /\ pending' = [pending EXCEPT ![cur] = <<>>]
          /\ lpc' = "half"
          /\ UNCHANGED <<uplink, flush, live, closed, sock>>
  /\ UNCHANGED <<clientVars, readPieces, reply, upClosed, connected, hooks, opened,
                 halfPending, crashed, proxyVars, cur, ending>>

PassEnd ==
  /\ lpc = "half" /\ lpc' = "idle"
  /\ IF halfPending[cur] THEN CarryEnd(cur) ELSE UNCHANGED <<uplink, upClosed>>
  /\ cur' = None
  /\ UNCHANGED <<clientVars, sock, readPieces, reply, live, connected, sharedVars, proxyVars,
                 ending, flush>>

OnData(c) ==
  /\ lpc = "idle" /\ live[c] /\ connected[c] /\ hooks[c] >= 3
  /\ Len(reply[c]) < MaxReplies
  /\ Write(c, "data")
  /\ UNCHANGED <<clientVars, sock, readPieces, sessVars, sharedVars, proxyVars, loopVars>>

(* The session ends: close or error from the server mark it before the     *)
(* callbacks, the loss of the connection after them.                       *)
SessionEnds(c) == \E why \in {"close", "error", "lost"} :
  /\ lpc = "idle" /\ live[c]
  /\ why = "error" => ~connected[c]
  /\ ending' = why /\ cur' = c
  /\ lpc' = IF why = "close" THEN "onClose" ELSE "onError"
  /\ live' = [live EXCEPT ![c] = why = "lost"]
  /\ UNCHANGED <<clientVars, sock, readPieces, reply, upClosed, uplink, connected, sharedVars,
                 proxyVars, flush>>

OnError ==
  /\ lpc = "onError" /\ lpc' = "onClose"
  /\ IF hooks[cur] >= 1 /\ opened[cur] THEN Shut(cur) ELSE UNCHANGED sock
  /\ IF hooks[cur] >= 1 /\ ~opened[cur] THEN Write(cur, "502") ELSE UNCHANGED reply
  /\ UNCHANGED <<clientVars, readPieces, sessVars, sharedVars, proxyVars, cur, ending, flush>>

AfterCallbacks == IF ending = "lost" THEN "mark" ELSE "idle"

(* mutant: onClose leaves the connection to the pump *)
OnCloseNothing ==
  /\ lpc = "onClose" /\ lpc' = AfterCallbacks
  /\ cur' = IF ending = "lost" THEN cur ELSE None
  /\ UNCHANGED <<clientVars, sock, readPieces, reply, sessVars, sharedVars, proxyVars, ending, flush>>

OnClose ==
  /\ lpc = "onClose"
  /\ IF hooks[cur] = 4 /\ ~closed[cur]
     THEN closed' = [closed EXCEPT ![cur] = TRUE] /\ lpc' = "shut" /\ UNCHANGED cur
     ELSE /\ lpc' = AfterCallbacks /\ cur' = IF ending = "lost" THEN cur ELSE None
          /\ UNCHANGED closed
  /\ UNCHANGED <<clientVars, sock, readPieces, reply, sessVars, hooks, opened, halfPending,
                 pending, crashed, proxyVars, ending, flush>>

OnCloseShut ==
  /\ lpc = "shut" /\ lpc' = AfterCallbacks
  /\ Shut(cur) /\ cur' = IF ending = "lost" THEN cur ELSE None
  /\ UNCHANGED <<clientVars, readPieces, reply, sessVars, sharedVars, proxyVars, ending, flush>>

(* onDisconnected marks the session after its callbacks *)
MarkLost ==
  /\ lpc = "mark" /\ lpc' = "idle"
  /\ live' = [live EXCEPT ![cur] = FALSE]
  /\ cur' = None
  /\ UNCHANGED <<clientVars, sock, readPieces, reply, upClosed, uplink, connected, sharedVars,
                 proxyVars, ending, flush>>

Callback ==
  \/ OnOpen \/ Greet \/ Flush \/ PassEnd \/ OnError \/ OnClose \/ OnCloseShut \/ MarkLost

Server(c) == ServerConnected(c) \/ OnData(c) \/ SessionEnds(c)

-----------------------------------------------------------------------------
Idle == ppc = "accept" /\ \A c \in Conns : sock[c] = "closed"

Next ==
  \/ /\ ~crashed
     /\ \/ ProxyStep \/ Callback
        \/ \E c \in Conns : Client(c) \/ Server(c)
  \/ (crashed \/ Idle) /\ UNCHANGED vars

(* A thread at one of these steps may be in a send on the WebSocket of the *)
(* tunnel, or wait for the other one, which is in such a send and holds    *)
(* sendMutex_.  No timeout ends a send.  The first bytes for a local       *)
(* client always find room in its socket.                                  *)
ProxySends == ppc \in {"open", "push", "end", "release"}
LoopSends ==
  \/ lpc = "greet" /\ kind[cur] # "connect"
  \/ lpc = "flush" /\ flush # <<>>
  \/ lpc = "half" /\ halfPending[cur]

(* The two threads run on, except that a send may never end; clients and   *)
(* servers may stay silent for ever.                                       *)
Fairness == /\ WF_vars(~crashed /\ ~ProxySends /\ ProxyStep)
            /\ WF_vars(~crashed /\ ~LoopSends /\ Callback)

Spec == Init /\ [][Next]_vars /\ Fairness

-----------------------------------------------------------------------------
(* Properties                                                              *)

Handled(c) == sock[c] # "none" /\ conn # c

(* Two threads push the pieces of a connection, the pump and onOpen, but   *)
(* none of them is carried twice.                                          *)
CarriedOnce == \A c \in Conns : \A i, j \in 1 .. Len(uplink[c]) :
  uplink[c][i] = uplink[c][j] => i = j

(* When handleConn returns both the session and the local connection are   *)
(* finished with, or the tunnel's thread is about to: whoever sets closed  *)
(* first closes the rest.                                                  *)
HandlerReleases == \A c \in Conns : Handled(c) =>
  /\ ~live[c] \/ cur = c
  /\ sock[c] = "closed" \/ (cur = c /\ lpc = "shut")

(* A client that is refused is not told that its tunnel stands.            *)
OneVerdict == \A c \in Conns :
  ~ (\E i, j \in 1 .. Len(reply[c]) : reply[c][i] = "200" /\ reply[c][j] \in {"400", "502"})

(* The end of a local client's bytes reaches the server of an established  *)
(* session, as the half-close or with the end of the session, unless the   *)
(* handler stays in a send (pump, onOpen) ...                              *)
ClientEndArrives == \A c \in Conns :
  live[c] /\ connected[c] /\ eof[c] ~> upClosed[c] \/ ~live[c] \/ crashed \/ []ProxySends

(* ... and when a session ends whose callbacks are set, the handler        *)
(* returns, with the same reservation (onClose).                           *)
SessionEndEnds == \A c \in Conns :
  conn = c /\ cur = c /\ ending # "none" /\ lpc = "onClose" /\ hooks[c] = 4
    ~> conn # c \/ crashed \/ []ProxySends

(* The answer to a local client and the release of its connection agree,   *)
(* whichever of the two threads comes first (handleConn).                  *)
HandlerConsistent == OneVerdict /\ HandlerReleases

(* Whoever ends first, the client or the session, the other side learns    *)
(* it (handleConnectTunnel, handlePlainHttp).                              *)
EndsPassedOn == ClientEndArrives /\ SessionEndEnds

-----------------------------------------------------------------------------
(* What the documents and comments say, and the code does not do           *)

(* local_proxy.cpp:223: what came before connected is sent after it, in    *)
(* order.                                                                  *)
CarriedInOrder == \A c \in Conns : \A i, j \in 1 .. Len(uplink[c]) :
  i < j => uplink[c][j] = End \/ (uplink[c][i] # End /\ uplink[c][i] < uplink[c][j])

(* local_proxy.cpp:273: the handler of a client that has only shut its     *)
(* writing side does not end an established session.                       *)
HalfCloseKeepsDownlink == [][
  ppc = "release" /\ ppc' = "accept" /\ connected[conn] /\ live[conn] => gone[conn]]_vars

(* local_proxy.hpp:10: the bytes of a request are passed on as they are,   *)
(* also those that arrive together with its head.                          *)
RequestComplete == \A c \in Conns :
  withHead[c] = 1 /\ (\E i \in 1 .. Len(uplink[c]) : uplink[c][i] = 2)
    => \E i \in 1 .. Len(uplink[c]) : uplink[c][i] = 1

(* README.md:30: one WSS connection carries all the sessions at once.      *)
SessionsSideBySide == \A c \in Conns : Waiting(c) ~> ~Waiting(c) \/ crashed
=============================================================================
