----------------------------- MODULE ProxySystem -----------------------------
(***************************************************************************)
(* The whole way of a session: local client, LocalProxy and WssTunnel, the *)
(* WSS connection, SessionManager, target; with sockets and a connection   *)
(* that hold only so much, so that every write may have to wait for the    *)
(* reader at the other end.                                                *)
(*                                                                         *)
(* Threads: Handler (acceptLoop and, in it, handleConn and its pump) and   *)
(* Loop (runLoop, the reader of the tunnel with all its callbacks) in the  *)
(* client; per WSS connection one reader in the server, per session one    *)
(* target thread.  Two threads that write to the same connection take      *)
(* turns under a mutex; the one that has it waits for room, and the others *)
(* could do nothing else, so that the mutex is not modelled.               *)
(*                                                                         *)
(* Left to the modules of the parts: the fields and the data races of each *)
(* (SessionManager, WssTunnel, LocalProxy), fragments and frames           *)
(* (WebSocket), idle timers, and sockets that fail by themselves.          *)
(***************************************************************************)
EXTENDS Integers, Sequences, FiniteSets

CONSTANTS Sessions,   \* sessionIds, in the order the local connections arrive
          Kinds,      \* which requests there are: CONNECT, plain HTTP
          MaxEpochs,  \* bound: WSS connections made one after the other
          Room,       \* data frames a WSS connection, and pieces a socket, can hold
          MaxUp,      \* bound: pieces a local client sends
          MaxDown,    \* bound: pieces a target sends
          MaxPings    \* bound: pings sent

ASSUME SystemAssumption ==
  /\ Sessions \subseteq Nat \ {0} /\ Kinds \subseteq {"connect", "plain"} /\ MaxEpochs \in Nat \ {0} /\ Room \in Nat \ {0}
  /\ MaxUp \in Nat /\ MaxDown \in Nat /\ MaxPings \in Nat

VARIABLES
  (* local clients *)
  kind,      \* CONNECT, whose client waits for the answer, or plain HTTP
  lsent, lfin, lgot, leof, answered,
  (* their sockets at the proxy: what either side has not read yet, state *)
  lup, ldn, lsock,
  (* Handler: where, session, piece in hand *)
  hpc, h, piece,
  (* client side of the sessions *)
  smap,      \* WssTunnel::sessions_
  closed,    \* TunnelSession::closed_
  ended,     \* the handler's flag closed
  upClosed,  \* TunnelSession::uplinkClosed_
  opened, pending, half,  \* the handler's flags opened and halfPending, its pending pieces
  (* Loop: where, frame in hand, pieces to flush, sessions to tell of a loss *)
  lpc, frame, flush, todo,
  (* WSS connections: the current one, the state and the two directions of each *)
  ws, link, up, down, pings,
  (* server: reader of each connection, its frame, its sessions_ *)
  rpc, rframe, sess,
  upShut,    \* Session::uplinkClosed_
  tpc, tpiece, at,  \* target thread, piece in hand, connection of each session
  (* sockets to the targets, targets *)
  tup, tdn, tsock, tsent, tfin, tgot, teof,
  (* refused, or under way when a connection was lost *)
  cut

localVars  == <<kind, lsent, lfin, lgot, leof, answered>>
lsockVars  == <<lup, ldn, lsock>>
handVars   == <<hpc, h, piece>>
clientVars == <<smap, closed, ended, upClosed, opened, pending, half>>
loopVars   == <<lpc, frame, flush, todo>>
wireVars   == <<ws, link, up, down, pings>>
readVars   == <<rpc, rframe, sess, upShut, at>>
threadVars == <<tpc, tpiece>>
tsockVars  == <<tup, tdn, tsock>>
targetVars == <<tsent, tfin, tgot, teof>>
vars == <<localVars, lsockVars, handVars, clientVars, loopVars, wireVars, readVars, threadVars,
          tsockVars, targetVars, cut>>

Epochs == 1 .. MaxEpochs
Types  == {"connect", "connected", "data", "half", "close", "error", "ping", "pong"}
Ends   == {"none", "eof", "reset"}
Frame(t, s, k) == [t |-> t, s |-> s, k |-> k]
NoFrame == Frame("ping", 0, 0)
Frames == [t : Types, s : Sessions \cup {0}, k : Nat]

TypeOK ==
  /\ kind \in [Sessions -> Kinds]
  /\ lsent \in [Sessions -> 0 .. MaxUp] /\ tsent \in [Sessions -> 0 .. MaxDown]
  /\ \A flag \in {lfin, tfin, answered, closed, ended, upClosed, opened, half, upShut, cut} :
       flag \in [Sessions -> BOOLEAN]
  /\ \A q \in {lgot, lup, ldn, pending, tup, tdn, tgot} : q \in [Sessions -> Seq(Nat)]
  /\ leof \in [Sessions -> Ends] /\ teof \in [Sessions -> Ends]
  /\ lsock \in [Sessions -> {"none", "open", "closed", "reset"}]
  /\ tsock \in [Sessions -> {"none", "open", "half", "closed", "reset"}]
  /\ hpc \in {"accept", "open", "connect", "pump", "piece", "push", "end", "finish", "notify",
              "shut"}
  /\ h \in Sessions \cup {0} /\ piece \in Nat
  /\ smap \subseteq Sessions /\ todo \subseteq Sessions
  /\ lpc \in {"read", "deliver", "greet", "flush", "half", "shut", "tell", "mark", "dial"}
  /\ frame \in Frames /\ flush \in Seq(Nat)
  /\ ws \in Epochs /\ pings \in 0 .. MaxPings
  /\ link \in [Epochs -> {"none", "up", "lost"}]
  /\ up \in [Epochs -> Seq(Frames)] /\ down \in [Epochs -> Seq(Frames)]
  /\ rpc \in [Epochs -> {"none", "read", "dial", "refuse", "connected", "write", "pong", "gone"}]
  /\ rframe \in [Epochs -> Frames] /\ sess \in [Epochs -> SUBSET Sessions]
  /\ tpc \in [Sessions -> {"unborn", "read", "send", "end", "notice", "gone"}]
  /\ tpiece \in [Sessions -> Nat] /\ at \in [Sessions -> Epochs]

Each(x) == [s \in Sessions |-> x]

Init ==
  /\ kind \in [Sessions -> Kinds]
  /\ lsent = Each(0) /\ lfin = Each(FALSE) /\ lgot = Each(<<>>) /\ leof = Each("none")
  /\ answered = Each(FALSE)
  /\ lup = Each(<<>>) /\ ldn = Each(<<>>) /\ lsock = Each("none")
  /\ hpc = "accept" /\ h = 0 /\ piece = 0
  /\ smap = {} /\ closed = Each(FALSE) /\ ended = Each(FALSE) /\ upClosed = Each(FALSE)
  /\ opened = Each(FALSE) /\ pending = Each(<<>>) /\ half = Each(FALSE)
  /\ lpc = "read" /\ frame = NoFrame /\ flush = <<>> /\ todo = {}
  /\ ws = 1 /\ link = [e \in Epochs |-> IF e = 1 THEN "up" ELSE "none"]
  /\ up = [e \in Epochs |-> <<>>] /\ down = [e \in Epochs |-> <<>>] /\ pings = 0
  /\ rpc = [e \in Epochs |-> IF e = 1 THEN "read" ELSE "none"]
  /\ rframe = [e \in Epochs |-> NoFrame] /\ sess = [e \in Epochs |-> {}]
  /\ upShut = Each(FALSE) /\ at = Each(1)
  /\ tpc = Each("unborn") /\ tpiece = Each(0)
  /\ tup = Each(<<>>) /\ tdn = Each(<<>>) /\ tsock = Each("none")
  /\ tsent = Each(0) /\ tfin = Each(FALSE) /\ tgot = Each(<<>>) /\ teof = Each("none")
  /\ cut = Each(FALSE)

-----------------------------------------------------------------------------
(* The WSS connections and the sockets                                     *)

(* A blocking write waits for room; frames without data are so small that  *)
(* they take none.  What is written after the loss of a connection may     *)
(* still seem to have been sent.                                           *)
HasRoom(wire) == Cardinality({i \in 1 .. Len(wire) : wire[i].t = "data"}) < Room

SendUp(e, f) ==
  \/ link[e] = "up" /\ HasRoom(up[e]) /\ up' = [up EXCEPT ![e] = Append(@, f)]
  \/ link[e] = "lost" /\ UNCHANGED up

SendDown(e, f) ==
  \/ link[e] = "up" /\ HasRoom(down[e]) /\ down' = [down EXCEPT ![e] = Append(@, f)]
  \/ link[e] = "lost" /\ UNCHANGED down

(* ws_ is set and its state is Open *)
Usable == lpc \notin {"tell", "mark", "dial"}

(* Closing a socket whose peer's bytes have not all been read resets it,   *)
(* and the peer may lose what it has not read either.                      *)
ShutLocal(s) ==
  IF lsock[s] # "open" THEN UNCHANGED lsockVars
  ELSE /\ lsock' = [lsock EXCEPT ![s] = IF lup[s] = <<>> THEN "closed" ELSE "reset"]
       /\ \/ UNCHANGED ldn
          \/ lup[s] # <<>> /\ ldn' = [ldn EXCEPT ![s] = <<>>]
       /\ lup' = [lup EXCEPT ![s] = <<>>]

Unshut(S) == {s \in S : tsock[s] \in {"open", "half"}}

ShutTargets(S) ==
  LET reset == {s \in Unshut(S) : tdn[s] # <<>>} IN
  /\ tsock' = [s \in Sessions |-> IF s \in reset THEN "reset"
                                  ELSE IF s \in Unshut(S) THEN "closed" ELSE tsock[s]]
  /\ \E K \in SUBSET reset : tup' = [s \in Sessions |-> IF s \in K THEN <<>> ELSE tup[s]]
  /\ tdn' = [s \in Sessions |-> IF s \in Unshut(S) THEN <<>> ELSE tdn[s]]

-----------------------------------------------------------------------------
(* Local clients and targets                                               *)

LocalSends(s) ==
  /\ ~lfin[s] /\ lsent[s] < MaxUp /\ lsock[s] = "open"
  /\ kind[s] = "connect" => answered[s]
  /\ Len(lup[s]) < Room
  /\ lsent' = [lsent EXCEPT ![s] = @ + 1]
  /\ lup' = [lup EXCEPT ![s] = Append(@, lsent[s] + 1)]
  /\ UNCHANGED <<kind, lfin, lgot, leof, answered, ldn, lsock, handVars, clientVars, loopVars,
                 wireVars, readVars, threadVars, tsockVars, targetVars, cut>>

(* what is sent to a closed socket is answered by a reset *)
LocalSendsLate(s) ==
  /\ ~lfin[s] /\ lsent[s] < MaxUp /\ lsock[s] = "closed" /\ leof[s] = "none"
  /\ lsock' = [lsock EXCEPT ![s] = "reset"]
  /\ \/ UNCHANGED ldn
     \/ ldn' = [ldn EXCEPT ![s] = <<>>]
  /\ UNCHANGED <<localVars, lup, handVars, clientVars, loopVars, wireVars, readVars, threadVars,
                 tsockVars, targetVars, cut>>

LocalFins(s) ==
  /\ lsock[s] # "none" /\ ~lfin[s]
  /\ lfin' = [lfin EXCEPT ![s] = TRUE]
  /\ UNCHANGED <<kind, lsent, lgot, leof, answered, lsockVars, handVars, clientVars, loopVars,
                 wireVars, readVars, threadVars, tsockVars, targetVars, cut>>

(* 0 is the 200 answer *)
LocalReads(s) ==
  /\ \/ /\ ldn[s] # <<>>
        /\ ldn' = [ldn EXCEPT ![s] = Tail(@)]
        /\ IF Head(ldn[s]) = 0
           THEN answered' = [answered EXCEPT ![s] = TRUE] /\ UNCHANGED lgot
           ELSE lgot' = [lgot EXCEPT ![s] = Append(@, Head(ldn[s]))] /\ UNCHANGED answered
        /\ UNCHANGED leof
     \/ /\ ldn[s] = <<>> /\ lsock[s] \in {"closed", "reset"} /\ leof[s] = "none"
        /\ leof' = [leof EXCEPT ![s] = IF lsock[s] = "closed" THEN "eof" ELSE "reset"]
        /\ UNCHANGED <<ldn, lgot, answered>>
  /\ UNCHANGED <<kind, lsent, lfin, lup, lsock, handVars, clientVars, loopVars, wireVars, readVars,
                 threadVars, tsockVars, targetVars, cut>>

TargetSends(s) ==
  /\ ~tfin[s] /\ tsent[s] < MaxDown /\ tsock[s] \in {"open", "half"} /\ Len(tdn[s]) < Room
  /\ tsent' = [tsent EXCEPT ![s] = @ + 1]
  /\ tdn' = [tdn EXCEPT ![s] = Append(@, tsent[s] + 1)]
  /\ UNCHANGED <<localVars, lsockVars, handVars, clientVars, loopVars, wireVars, readVars,
                 threadVars, tup, tsock, tfin, tgot, teof, cut>>

TargetSendsLate(s) ==
  /\ ~tfin[s] /\ tsent[s] < MaxDown /\ tsock[s] = "closed" /\ teof[s] = "none"
  /\ tsock' = [tsock EXCEPT ![s] = "reset"]
  /\ \/ UNCHANGED tup
     \/ tup' = [tup EXCEPT ![s] = <<>>]
  /\ UNCHANGED <<localVars, lsockVars, handVars, clientVars, loopVars, wireVars, readVars,
                 threadVars, tdn, targetVars, cut>>

TargetFins(s) ==
  /\ tsock[s] # "none" /\ ~tfin[s]
  /\ tfin' = [tfin EXCEPT ![s] = TRUE]
  /\ UNCHANGED <<localVars, lsockVars, handVars, clientVars, loopVars, wireVars, readVars,
                 threadVars, tsockVars, tsent, tgot, teof, cut>>

TargetReads(s) ==
  /\ \/ /\ tup[s] # <<>>
        /\ tup' = [tup EXCEPT ![s] = Tail(@)]
        /\ tgot' = [tgot EXCEPT ![s] = Append(@, Head(tup[s]))]
        /\ UNCHANGED teof
     \/ /\ tup[s] = <<>> /\ tsock[s] \in {"half", "closed", "reset"} /\ teof[s] = "none"
        /\ teof' = [teof EXCEPT ![s] = IF tsock[s] = "reset" THEN "reset" ELSE "eof"]
        /\ UNCHANGED <<tup, tgot>>
  /\ UNCHANGED <<localVars, lsockVars, handVars, clientVars, loopVars, wireVars, readVars,
                 threadVars, tdn, tsock, tsent, tfin, cut>>

Peers(s) ==
  \/ LocalSends(s) \/ LocalSendsLate(s) \/ LocalFins(s)
  \/ TargetSends(s) \/ TargetSendsLate(s) \/ TargetFins(s)

-----------------------------------------------------------------------------
(* Handler                                                                 *)

handRest == <<localVars, loopVars, readVars, threadVars, tsockVars, targetVars>>

(* the next local connection, whose request head is in order *)
Accept ==
  /\ hpc = "accept" /\ hpc' = "open"
  /\ \E s \in Sessions :
       /\ lsock[s] = "none" /\ \A r \in Sessions : lsock[r] = "none" => s <= r
       /\ lsock' = [lsock EXCEPT ![s] = "open"] /\ h' = s
  /\ UNCHANGED <<handRest, lup, ldn, piece, clientVars, wireVars, cut>>

(* 502, and the connection is closed *)
Refuse == ShutLocal(h) /\ hpc' = "accept" /\ cut' = [cut EXCEPT ![h] = TRUE]

(* openSession, up to the look at ready_ and the insertion *)
OpenSession ==
  /\ hpc = "open"
  /\ IF Usable
     THEN /\ smap' = smap \cup {h} /\ hpc' = "connect"
          /\ cut' = [cut EXCEPT ![h] = @ \/ link[ws] = "lost"]
          /\ UNCHANGED lsockVars
     ELSE Refuse /\ UNCHANGED smap
  /\ UNCHANGED <<handRest, h, piece, closed, ended, upClosed, opened, pending, half, wireVars>>

(* ws_ is taken and connect sent; the callbacks are set before an answer   *)
(* can come                                                                *)
SendConnect ==
  /\ hpc = "connect"
  /\ \/ /\ Usable /\ SendUp(ws, Frame("connect", h, 0))
        /\ hpc' = "pump"
        /\ UNCHANGED <<lsockVars, smap, cut>>
     \/ /\ ~Usable \/ link[ws] = "lost"
        /\ smap' = smap \ {h}
        /\ Refuse /\ UNCHANGED up
  /\ UNCHANGED <<handRest, h, piece, closed, ended, upClosed, opened, pending, half, ws, link,
                 down, pings>>

(* mutant: the end of stream is taken before the bytes that precede it *)
PumpReadHasty ==
  /\ hpc = "pump"
  /\ \/ /\ lsock[h] = "open" /\ lup[h] # <<>>
        /\ piece' = Head(lup[h]) /\ lup' = [lup EXCEPT ![h] = Tail(@)]
        /\ hpc' = "piece"
     \/ /\ lsock[h] = "open" /\ lfin[h]
        /\ hpc' = "end"
        /\ UNCHANGED <<piece, lup>>
     \/ /\ lsock[h] # "open" \/ ended[h]
        /\ hpc' = "finish"
        /\ UNCHANGED <<piece, lup>>
  /\ UNCHANGED <<handRest, ldn, lsock, h, clientVars, wireVars, cut>>

(* the loop of the pump: a read of what there is, the end, or time out *)
PumpRead ==
  /\ hpc = "pump"
  /\ \/ /\ lsock[h] = "open" /\ lup[h] # <<>>
        /\ piece' = Head(lup[h]) /\ lup' = [lup EXCEPT ![h] = Tail(@)]
        /\ hpc' = "piece"
     \/ /\ lsock[h] = "open" /\ lup[h] = <<>> /\ lfin[h]
        /\ hpc' = "end"
        /\ UNCHANGED <<piece, lup>>
     \/ /\ lsock[h] # "open" \/ ended[h]
        /\ hpc' = "finish"
        /\ UNCHANGED <<piece, lup>>
  /\ UNCHANGED <<handRest, ldn, lsock, h, clientVars, wireVars, cut>>

(* a piece is kept until the session is open; push looks at closed_ ... *)
PumpPiece ==
  /\ hpc = "piece"
  /\ IF opened[h]
     THEN hpc' = (IF closed[h] \/ upClosed[h] THEN "finish" ELSE "push") /\ UNCHANGED pending
     ELSE hpc' = "pump" /\ pending' = [pending EXCEPT ![h] = Append(@, piece)]
  /\ piece' = IF hpc' = "push" THEN piece ELSE 0
  /\ UNCHANGED <<handRest, lsockVars, h, smap, closed, ended, upClosed, opened, half,
                 wireVars, cut>>

(* closeSession(session, "wss send failed", false), with onClose *)
DropSession(s) ==
  /\ closed' = [closed EXCEPT ![s] = TRUE]
  /\ smap' = smap \ {s}
  /\ IF ~closed[s] /\ ~ended[s]
     THEN ended' = [ended EXCEPT ![s] = TRUE] /\ ShutLocal(s)
     ELSE UNCHANGED <<ended, lsockVars>>

(* ... and takes ws_ only then: a new connection, perhaps *)
PumpPush ==
  /\ hpc = "push"
  /\ \/ /\ Usable /\ SendUp(ws, Frame("data", h, piece))
        /\ hpc' = "pump"
        /\ UNCHANGED <<lsockVars, closed, smap, ended>>
     \/ /\ ~Usable /\ hpc' = "finish"
        /\ UNCHANGED <<up, lsockVars, closed, smap, ended>>
     \/ /\ Usable /\ link[ws] = "lost" /\ hpc' = "finish"
        /\ DropSession(h)
        /\ UNCHANGED up
  /\ piece' = 0
  /\ UNCHANGED <<handRest, h, upClosed, opened, pending, half, ws, link, down, pings, cut>>

(* pushEnd: 0 when the session is closed, has ended its uplink, or has no  *)
(* connection                                                              *)
PushEnd(s) ==
  /\ IF closed[s] THEN UNCHANGED upClosed ELSE upClosed' = [upClosed EXCEPT ![s] = TRUE]
  /\ IF closed[s] \/ upClosed[s] \/ ~Usable
     THEN UNCHANGED up ELSE SendUp(ws, Frame("half", s, 0))

(* the local client's end of stream *)
PumpEnd ==
  /\ hpc = "end" /\ hpc' = "finish"
  /\ IF opened[h] THEN PushEnd(h) /\ UNCHANGED half
                  ELSE half' = [half EXCEPT ![h] = TRUE] /\ UNCHANGED <<up, upClosed>>
  /\ UNCHANGED <<handRest, lsockVars, h, piece, smap, closed, ended, opened, pending, ws, link,
                 down, pings, cut>>

(* mutant: the server is not told that the client closed *)
FinishQuietly ==
  /\ hpc = "finish"
  /\ ended' = [ended EXCEPT ![h] = TRUE]
  /\ IF ended[h] THEN hpc' = "accept" /\ UNCHANGED <<closed, smap>>
     ELSE IF closed[h] THEN hpc' = "shut" /\ UNCHANGED <<closed, smap>>
     ELSE /\ closed' = [closed EXCEPT ![h] = TRUE] /\ smap' = smap \ {h}
          /\ hpc' = "shut"
  /\ UNCHANGED <<handRest, lsockVars, h, piece, upClosed, opened, pending, half, wireVars, cut>>

(* after pump.join(): whoever sets closed first closes the session *)
Finish ==
  /\ hpc = "finish"
  /\ ended' = [ended EXCEPT ![h] = TRUE]
  /\ IF ended[h] THEN hpc' = "accept" /\ UNCHANGED <<closed, smap>>
     ELSE IF closed[h] THEN hpc' = "shut" /\ UNCHANGED <<closed, smap>>
     ELSE /\ closed' = [closed EXCEPT ![h] = TRUE] /\ smap' = smap \ {h}
          /\ hpc' = "notify"
  /\ UNCHANGED <<handRest, lsockVars, h, piece, upClosed, opened, pending, half, wireVars, cut>>

SendClose ==
  /\ hpc = "notify" /\ hpc' = "shut"
  /\ IF Usable THEN SendUp(ws, Frame("close", h, 0)) ELSE UNCHANGED up
  /\ UNCHANGED <<handRest, lsockVars, h, piece, clientVars, ws, link, down, pings, cut>>

ShutConnection ==
  /\ hpc = "shut" /\ hpc' = "accept"
  /\ ShutLocal(h)
  /\ UNCHANGED <<handRest, h, piece, clientVars, wireVars, cut>>

Handler ==
  \/ Accept \/ OpenSession \/ SendConnect \/ PumpRead \/ PumpPiece \/ PumpPush \/ PumpEnd
  \/ Finish \/ SendClose \/ ShutConnection

-----------------------------------------------------------------------------
(* Loop                                                                    *)

loopRest == <<localVars, handVars, readVars, threadVars, tsockVars, targetVars>>

(* mutant: opened is not set *)
LoopReadUnopened ==
  /\ lpc = "read" /\ down[ws] # <<>>
  /\ LET f == Head(down[ws]) IN
     /\ frame' = IF f.s \in smap THEN f ELSE NoFrame
     /\ \/ /\ f.s \notin smap
           /\ UNCHANGED <<lpc, smap, closed, opened>>
        \/ /\ f.s \in smap /\ f.t = "data" /\ lpc' = "deliver"
           /\ UNCHANGED <<smap, closed, opened>>
        \/ /\ f.s \in smap /\ f.t = "connected" /\ lpc' = "greet"
           /\ opened' = opened
           /\ UNCHANGED <<smap, closed>>
        \/ /\ f.s \in smap /\ f.t \in {"close", "error"} /\ lpc' = "shut"
           /\ smap' = smap \ {f.s} /\ closed' = [closed EXCEPT ![f.s] = TRUE]
           /\ UNCHANGED opened
  /\ down' = [down EXCEPT ![ws] = Tail(@)]
  /\ UNCHANGED <<loopRest, lsockVars, ended, upClosed, pending, half, flush, todo, ws, link, up,
                 pings, cut>>

(* A frame is read and its session looked up; frames of sessions that are  *)
(* gone are dropped, as are pongs.                                         *)
LoopRead ==
  /\ lpc = "read" /\ down[ws] # <<>>
  /\ LET f == Head(down[ws]) IN
     /\ frame' = IF f.s \in smap THEN f ELSE NoFrame
     /\ \/ /\ f.s \notin smap
           /\ UNCHANGED <<lpc, smap, closed, opened>>
        \/ /\ f.s \in smap /\ f.t = "data" /\ lpc' = "deliver"
           /\ UNCHANGED <<smap, closed, opened>>
        \/ /\ f.s \in smap /\ f.t = "connected" /\ lpc' = "greet"
           /\ opened' = [opened EXCEPT ![f.s] = TRUE]
           /\ UNCHANGED <<smap, closed>>
        \/ /\ f.s \in smap /\ f.t \in {"close", "error"} /\ lpc' = "shut"
           /\ smap' = smap \ {f.s} /\ closed' = [closed EXCEPT ![f.s] = TRUE]
           /\ UNCHANGED opened
  /\ down' = [down EXCEPT ![ws] = Tail(@)]
  /\ UNCHANGED <<loopRest, lsockVars, ended, upClosed, pending, half, flush, todo, ws, link, up,
                 pings, cut>>

LocalWrite(s, k) ==
  IF lsock[s] # "open" THEN UNCHANGED ldn
  ELSE Len(ldn[s]) < Room /\ ldn' = [ldn EXCEPT ![s] = Append(@, k)]

(* onData: the local client may be slow *)
LoopDeliver ==
  /\ lpc = "deliver" /\ lpc' = "read" /\ frame' = NoFrame
  /\ LocalWrite(frame.s, frame.k)
  /\ UNCHANGED <<loopRest, lup, lsock, clientVars, flush, todo, wireVars, cut>>

(* push, called from the callbacks *)
LoopPush(s, k) ==
  IF closed[s] \/ upClosed[s] THEN UNCHANGED <<up, closed, smap, ended, lsockVars>>
  ELSE \/ SendUp(ws, Frame("data", s, k)) /\ UNCHANGED <<closed, smap, ended, lsockVars>>
       \/ link[ws] = "lost" /\ DropSession(s) /\ UNCHANGED up

(* onOpen: 200 for CONNECT, the rebuilt head for a plain request, ... *)
LoopGreet ==
  /\ lpc = "greet" /\ lpc' = "flush"
  /\ IF kind[frame.s] = "connect"
     THEN LocalWrite(frame.s, 0) /\ UNCHANGED <<up, closed, smap, ended, lup, lsock>>
     ELSE LoopPush(frame.s, 0)
  /\ flush' = pending[frame.s]
  /\ UNCHANGED <<loopRest, upClosed, opened, pending, half, frame, todo, ws, link, down, pings, cut>>

(* mutant: a kept piece is not taken out before the walk goes on *)
LoopFlushTwice ==
  /\ lpc = "flush"
  /\ IF flush # <<>>
     THEN LoopPush(frame.s, Head(flush)) /\ flush' \in {flush, Tail(flush)} /\ UNCHANGED <<lpc, pending>>
     ELSE /\ pending' = [pending EXCEPT ![frame.s] = <<>>] /\ lpc' = "half"
          /\ UNCHANGED <<up, closed, smap, ended, lsockVars, flush>>
  /\ UNCHANGED <<loopRest, upClosed, opened, half, frame, todo, ws, link, down, pings, cut>>

(* ... the pieces kept so far ... *)
LoopFlush ==
  /\ lpc = "flush"
  /\ IF flush # <<>>
     THEN LoopPush(frame.s, Head(flush)) /\ flush' = Tail(flush) /\ UNCHANGED <<lpc, pending>>
     ELSE /\ pending' = [pending EXCEPT ![frame.s] = <<>>] /\ lpc' = "half"
          /\ UNCHANGED <<up, closed, smap, ended, lsockVars, flush>>
  /\ UNCHANGED <<loopRest, upClosed, opened, half, frame, todo, ws, link, down, pings, cut>>

(* ... and the end of stream kept *)
LoopHalf ==
  /\ lpc = "half" /\ lpc' = "read" /\ frame' = NoFrame
  /\ IF half[frame.s] THEN PushEnd(frame.s) ELSE UNCHANGED <<up, upClosed>>
  /\ UNCHANGED <<loopRest, lsockVars, smap, closed, ended, opened, pending, half, flush, todo,
                 ws, link, down, pings, cut>>

OnClose(s) ==
  IF ended[s] THEN UNCHANGED <<ended, lsockVars>>
  ELSE ended' = [ended EXCEPT ![s] = TRUE] /\ ShutLocal(s)

LoopShut ==
  /\ lpc = "shut" /\ lpc' = "read" /\ frame' = NoFrame
  /\ OnClose(frame.s)
  /\ UNCHANGED <<loopRest, smap, closed, upClosed, opened, pending, half, flush, todo, wireVars,
                 cut>>

(* onDisconnected, once what had arrived before the loss has been read *)
LoopLoss ==
  /\ lpc = "read" /\ link[ws] = "lost" /\ down[ws] = <<>>
  /\ todo' = smap /\ smap' = {}
  /\ lpc' = "tell"
  /\ UNCHANGED <<loopRest, lsockVars, closed, ended, upClosed, opened, pending, half, frame, flush,
                 wireVars, cut>>

(* onError and onClose of one session, if they have been set *)
LoopTell == \E s \in todo :
  /\ lpc = "tell" /\ lpc' = "mark"
  /\ frame' = Frame("close", s, 0) /\ todo' = todo \ {s}
  /\ IF hpc = "connect" /\ h = s THEN UNCHANGED <<ended, lsockVars>>
     ELSE ended' = [ended EXCEPT ![s] = TRUE] /\ ShutLocal(s)
  /\ UNCHANGED <<loopRest, smap, closed, upClosed, opened, pending, half, flush, wireVars, cut>>

LoopMark ==
  /\ lpc = "mark" /\ lpc' = "tell" /\ frame' = NoFrame
  /\ closed' = [closed EXCEPT ![frame.s] = TRUE]
  /\ UNCHANGED <<loopRest, lsockVars, smap, ended, upClosed, opened, pending, half, flush, todo,
                 wireVars, cut>>

LoopTold ==
  /\ lpc = "tell" /\ todo = {} /\ lpc' = "dial"
  /\ UNCHANGED <<loopRest, lsockVars, clientVars, frame, flush, todo, wireVars, cut>>

(* mutant: the new connection is taken for a further one *)
LoopDialAgain ==
  /\ lpc = "dial" /\ ws < MaxEpochs /\ lpc' = "read"
  /\ ws' = ws + 2
  /\ link' = [link EXCEPT ![ws + 1] = "up"] /\ rpc' = [rpc EXCEPT ![ws + 1] = "read"]
  /\ UNCHANGED <<localVars, lsockVars, handVars, clientVars, frame, flush, todo, up, down, pings,
                 rframe, sess, upShut, at, threadVars, tsockVars, targetVars, cut>>

(* a new connection, with a reader and a SessionManager of its own *)
LoopDial ==
  /\ lpc = "dial" /\ ws < MaxEpochs /\ lpc' = "read"
  /\ ws' = ws + 1
  /\ link' = [link EXCEPT ![ws + 1] = "up"] /\ rpc' = [rpc EXCEPT ![ws + 1] = "read"]
  /\ UNCHANGED <<localVars, lsockVars, handVars, clientVars, frame, flush, todo, up, down, pings,
                 rframe, sess, upShut, at, threadVars, tsockVars, targetVars, cut>>

Loop ==
  \/ LoopRead \/ LoopDeliver \/ LoopGreet \/ LoopFlush \/ LoopHalf \/ LoopShut
  \/ LoopLoss \/ LoopTell \/ LoopMark \/ LoopTold \/ LoopDial

(* the ping thread *)
SendPing ==
  /\ pings < MaxPings /\ Usable /\ SendUp(ws, Frame("ping", 0, 0))
  /\ pings' = pings + 1
  /\ UNCHANGED <<localVars, lsockVars, handVars, clientVars, loopVars, ws, link, down, readVars,
                 threadVars, tsockVars, targetVars, cut>>

-----------------------------------------------------------------------------
(* The readers of the server: runReadLoop with the handlers of the manager *)

readRest == <<localVars, lsockVars, handVars, clientVars, loopVars, targetVars, ws, link, pings>>

(* A frame is taken; connect enters the map, half-close and close act on   *)
(* the target socket, data waits for it.                                   *)
ReadFrame(e) ==
  /\ rpc[e] = "read" /\ up[e] # <<>>
  /\ up' = [up EXCEPT ![e] = Tail(@)]
  /\ LET f == Head(up[e]) IN
     /\ \/ /\ f.t = "connect"
           /\ sess' = [sess EXCEPT ![e] = @ \cup {f.s}] /\ at' = [at EXCEPT ![f.s] = e]
           /\ rpc' = [rpc EXCEPT ![e] = "dial"]
           /\ UNCHANGED <<upShut, tsockVars>>
        \/ /\ f.t = "data" /\ f.s \in sess[e] /\ ~upShut[f.s]
           /\ rpc' = [rpc EXCEPT ![e] = "write"]
           /\ UNCHANGED <<sess, at, upShut, tsockVars>>
        \/ /\ f.t = "half" /\ f.s \in sess[e]
           /\ upShut' = [upShut EXCEPT ![f.s] = TRUE]
           /\ tsock' = [tsock EXCEPT ![f.s] = IF @ = "open" THEN "half" ELSE @]
           /\ UNCHANGED <<rpc, sess, at, tup, tdn>>
        \/ /\ f.t = "close" /\ f.s \in sess[e]
           /\ sess' = [sess EXCEPT ![e] = @ \ {f.s}]
           /\ ShutTargets({f.s})
           /\ UNCHANGED <<rpc, at, upShut>>
        \/ /\ f.t = "ping" /\ rpc' = [rpc EXCEPT ![e] = "pong"]
           /\ UNCHANGED <<sess, at, upShut, tsockVars>>
        \/ /\ f.t \in {"data", "half", "close"}
           /\ f.s \notin sess[e] \/ (f.t = "data" /\ upShut[f.s])
           /\ UNCHANGED <<rpc, sess, at, upShut, tsockVars>>
     /\ rframe' = [rframe EXCEPT ![e] = IF rpc'[e] = "read" THEN NoFrame ELSE f]
  /\ UNCHANGED <<readRest, down, threadVars, cut>>

(* the guard and the connect to the target, which may fail *)
Dial(e) ==
  /\ rpc[e] = "dial"
  /\ LET s == rframe[e].s IN
     \/ /\ rpc' = [rpc EXCEPT ![e] = "connected"] /\ tsock' = [tsock EXCEPT ![s] = "open"]
        /\ UNCHANGED cut
     \/ /\ rpc' = [rpc EXCEPT ![e] = "refuse"] /\ cut' = [cut EXCEPT ![s] = TRUE]
        /\ UNCHANGED tsock
  /\ UNCHANGED <<readRest, up, down, rframe, sess, upShut, at, threadVars, tup, tdn>>

ReadOn(e) == rpc' = [rpc EXCEPT ![e] = "read"] /\ rframe' = [rframe EXCEPT ![e] = NoFrame]

SayError(e) ==
  /\ rpc[e] = "refuse" /\ ReadOn(e)
  /\ SendDown(e, Frame("error", rframe[e].s, 0))
  /\ sess' = [sess EXCEPT ![e] = @ \ {rframe[e].s}]
  /\ UNCHANGED <<readRest, up, upShut, at, threadVars, tsockVars, cut>>

(* connected, then the target thread *)
SayConnected(e) ==
  /\ rpc[e] = "connected" /\ ReadOn(e)
  /\ SendDown(e, Frame("connected", rframe[e].s, 0))
  /\ tpc' = [tpc EXCEPT ![rframe[e].s] = "read"]
  /\ UNCHANGED <<readRest, up, sess, upShut, at, tpiece, tsockVars, cut>>

(* writeAll to the target, while everything else on the connection waits; *)
(* a target thread may have closed the socket meanwhile                    *)
WriteTarget(e) ==
  /\ rpc[e] = "write" /\ ReadOn(e)
  /\ LET s == rframe[e].s IN
     IF tsock[s] = "open"
     THEN Len(tup[s]) < Room /\ tup' = [tup EXCEPT ![s] = Append(@, rframe[e].k)]
     ELSE UNCHANGED tup
  /\ UNCHANGED <<readRest, up, down, sess, upShut, at, threadVars, tdn, tsock, cut>>

SendPong(e) ==
  /\ rpc[e] = "pong" /\ ReadOn(e)
  /\ SendDown(e, Frame("pong", 0, 0))
  /\ UNCHANGED <<readRest, up, sess, upShut, at, threadVars, tsockVars, cut>>

(* the connection is lost: the manager stops and closes every target *)
StopManager(e) ==
  /\ rpc[e] = "read" /\ link[e] = "lost" /\ up[e] = <<>>
  /\ rpc' = [rpc EXCEPT ![e] = "gone"]
  /\ sess' = [sess EXCEPT ![e] = {}]
  /\ ShutTargets(sess[e])
  /\ UNCHANGED <<readRest, up, down, rframe, upShut, at, threadVars, cut>>

Reader(e) ==
  \/ ReadFrame(e) \/ Dial(e) \/ SayError(e) \/ SayConnected(e) \/ WriteTarget(e) \/ SendPong(e)
  \/ StopManager(e)

-----------------------------------------------------------------------------
(* The target threads: targetReadLoop                                      *)

threadRest == <<localVars, lsockVars, handVars, clientVars, loopVars, targetVars, ws, link, up,
                pings, rpc, rframe, upShut, at>>

ReadTarget(s) ==
  /\ tpc[s] = "read"
  /\ \/ /\ tsock[s] \in {"open", "half"} /\ tdn[s] # <<>>
        /\ tpiece' = [tpiece EXCEPT ![s] = Head(tdn[s])] /\ tdn' = [tdn EXCEPT ![s] = Tail(@)]
        /\ tpc' = [tpc EXCEPT ![s] = "send"]
     \/ /\ tsock[s] \in {"open", "half"} /\ tdn[s] = <<>> /\ tfin[s]
        /\ tpc' = [tpc EXCEPT ![s] = "end"]
        /\ UNCHANGED <<tpiece, tdn>>
     \/ /\ tsock[s] \in {"closed", "reset"}
        /\ tpc' = [tpc EXCEPT ![s] = "gone"]
        /\ UNCHANGED <<tpiece, tdn>>
  /\ UNCHANGED <<threadRest, down, sess, tup, tsock, cut>>

(* sendBinary, which may fail once the connection is lost: the session is  *)
(* closed without a word                                                   *)
SendData(s) ==
  /\ tpc[s] = "send"
  /\ \/ /\ SendDown(at[s], Frame("data", s, tpiece[s]))
        /\ tpc' = [tpc EXCEPT ![s] = "read"]
        /\ UNCHANGED <<sess, tsockVars>>
     \/ /\ link[at[s]] = "lost" /\ tpc' = [tpc EXCEPT ![s] = "gone"]
        /\ sess' = [sess EXCEPT ![at[s]] = @ \ {s}]
        /\ IF s \in sess[at[s]] THEN ShutTargets({s}) ELSE UNCHANGED tsockVars
        /\ UNCHANGED down
  /\ tpiece' = [tpiece EXCEPT ![s] = 0]
  /\ UNCHANGED <<threadRest, cut>>

(* mutant: the client is not told that the target closed *)
EndSessionQuietly(s) ==
  /\ tpc[s] = "end"
  /\ IF s \in sess[at[s]]
     THEN /\ sess' = [sess EXCEPT ![at[s]] = @ \ {s}] /\ ShutTargets({s})
          /\ tpc' = [tpc EXCEPT ![s] = "gone"]
     ELSE tpc' = [tpc EXCEPT ![s] = "gone"] /\ UNCHANGED <<sess, tsockVars>>
  /\ UNCHANGED <<threadRest, down, tpiece, cut>>

(* closeSession(session, "target closed", true) *)
EndSession(s) ==
  /\ tpc[s] = "end"
  /\ IF s \in sess[at[s]]
     THEN /\ sess' = [sess EXCEPT ![at[s]] = @ \ {s}] /\ ShutTargets({s})
          /\ tpc' = [tpc EXCEPT ![s] = "notice"]
     ELSE tpc' = [tpc EXCEPT ![s] = "gone"] /\ UNCHANGED <<sess, tsockVars>>
  /\ UNCHANGED <<threadRest, down, tpiece, cut>>

SayClose(s) ==
  /\ tpc[s] = "notice" /\ tpc' = [tpc EXCEPT ![s] = "gone"]
  /\ SendDown(at[s], Frame("close", s, 0))
  /\ UNCHANGED <<threadRest, sess, tpiece, tsockVars, cut>>

TargetThread(s) == ReadTarget(s) \/ SendData(s) \/ EndSession(s) \/ SayClose(s)

-----------------------------------------------------------------------------
(* The loss of a connection: of what is under way in either direction only *)
(* the beginning can still be read.                                        *)
Lose ==
  /\ link[ws] = "up" /\ ws < MaxEpochs
  /\ link' = [link EXCEPT ![ws] = "lost"]
  /\ \E i \in 0 .. Len(up[ws]) : up' = [up EXCEPT ![ws] = SubSeq(@, 1, i)]
  /\ \E i \in 0 .. Len(down[ws]) : down' = [down EXCEPT ![ws] = SubSeq(@, 1, i)]
  /\ cut' = [s \in Sessions |-> cut[s] \/ lsock[s] # "none"]
  /\ UNCHANGED <<localVars, lsockVars, handVars, clientVars, loopVars, ws, pings, readVars,
                 threadVars, tsockVars, targetVars>>

(* every local connection has been handled and nothing is left to send *)
Quiet ==
  /\ hpc = "accept" /\ lpc = "read"
  /\ \A s \in Sessions : lsock[s] # "none" /\ leof[s] # "none" /\ tpc[s] \in {"unborn", "gone"}

Next ==
  \/ Handler \/ Loop \/ SendPing \/ Lose
  \/ \E e \in Epochs : Reader(e)
  \/ \E s \in Sessions : TargetThread(s) \/ Peers(s) \/ LocalReads(s) \/ TargetReads(s)
  \/ Quiet /\ UNCHANGED vars

(* the threads run, and both peers of a session read whatever they are     *)
(* sent; nobody has to send, to end, or to lose a connection               *)
Fairness ==
  /\ WF_vars(Handler) /\ WF_vars(Loop)
  /\ \A e \in Epochs : WF_vars(Reader(e))
  /\ \A s \in Sessions :
       WF_vars(TargetThread(s)) /\ WF_vars(LocalReads(s)) /\ WF_vars(TargetReads(s))

Spec == Init /\ [][Next]_vars /\ Fairness

-----------------------------------------------------------------------------
(* Properties                                                              *)

(* Whatever the threads, buffers and connections in between do, a client   *)
(* and a target see two streams: in order, without a gap, whole at an      *)
(* orderly end (ProxyContract).                                            *)
Contract == INSTANCE ProxyContract WITH
  upSent <- lsent, upGot <- tgot, downSent <- tsent, downGot <- lgot,
  clientFin <- lfin, targetFin <- tfin, upEnd <- teof, downEnd <- leof
ImplementsStreams == Contract!Spec

(* The server keeps a session only as long as the client knows it, or has  *)
(* its close under way; only the loss of a connection may leave one over   *)
(* for the idle timer.                                                     *)
NoForgottenSession == \A e \in Epochs : \A s \in sess[e] :
  \/ s \in smap \/ (h = s /\ hpc = "notify") \/ cut[s]
  \/ \E i \in 1 .. Len(up[e]) : up[e][i] = Frame("close", s, 0)

(* With readers at both ends, what a CONNECT client has sent reaches its   *)
(* target, unless the target or a reset ends the session first: no circle  *)
(* of full buffers stops the tunnel ...                                    *)
UpArrives == \A s \in Sessions :
  Len(tgot[s]) < lsent[s] ~> Len(tgot[s]) = lsent[s] \/ tfin[s] \/ tsock[s] = "reset" \/ cut[s]

(* ... and the same for the answer.  Of a client that has half-closed      *)
(* nothing is asked (HalfCloseKeepsDownlink of LocalProxy).                *)
DownArrives == \A s \in Sessions :
  Len(lgot[s]) < tsent[s] ~> Len(lgot[s]) = tsent[s] \/ lfin[s] \/ lsock[s] = "reset" \/ cut[s]

(* Bytes arrive in both directions.                                        *)
StreamsArrive == UpArrives /\ DownArrives

(* A client sees its session end when its target has ended or it has been  *)
(* refused (EndSession, SayError), and a target sees the end of the bytes  *)
(* when either peer has ended.  That a client has half-closed need not end *)
(* the session.                                                            *)
EndArrives == \A s \in Sessions :
  /\ tfin[s] \/ cut[s] ~> leof[s] # "none"
  /\ (lfin[s] \/ tfin[s]) /\ tsock[s] # "none" ~> teof[s] # "none"
=============================================================================
