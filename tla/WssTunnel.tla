----------------------------- MODULE WssTunnel -----------------------------
(***************************************************************************)
(* The client's WssTunnel (src/src/client/tunnel.cpp): the single          *)
(* WebSocket connection to the server, its reconnection, and the sessions  *)
(* multiplexed over it.                                                    *)
(*                                                                         *)
(* Threads:                                                                *)
(*   - Loop runs runLoop: connect, read frames, reconnect.  It calls       *)
(*     handleControl and onDisconnected;                                   *)
(*   - Main calls close() when the program is told to exit;                *)
(*   - one calling thread per session: openSession, then push, pushEnd and *)
(*     at last closeSession.  The class takes its locks for callers on     *)
(*     several threads.                                                    *)
(* A session is named by the call of openSession that makes it: allocId    *)
(* gives every call an id of its own until 2^32 of them have been made.    *)
(* A critical section of wsMutex_ or sessionsMutex_ is one step, except    *)
(* close(), which keeps wsMutex_ while it calls back.                      *)
(***************************************************************************)
EXTENDS Integers, FiniteSets

CONSTANTS Sessions,     \* calls of openSession
          MaxSessions,  \* opts_.maxSessions
          MaxConnects,  \* bound: connections established
          MayStop       \* is close() ever called?

None == 0
Loop == -1
Main == -2

ASSUME TunnelAssumption ==
  /\ MaxSessions \in Nat /\ MaxConnects \in Nat /\ MayStop \in BOOLEAN
  /\ {None, Loop, Main} \cap Sessions = {}

Threads == Sessions \cup {Loop, Main}

VARIABLES
  stopped, ready, disconnected,  \* the flags stopped_, ready_, disconnected_
  epoch,     \* connections established so far; the latest has this number
  link,      \* state_ of the latest WebSocket
  net,       \* does the latest connection still carry bytes?
  hooked,    \* are its handlers (onText, onClose, ...) installed?
  emitted,   \* its closeEmitted_
  wsRef,     \* ws_: the number of its connection, 0 when null
  map,       \* sessions_, by its keys
  state,     \* state_ of each session
  isClosed,  \* closed_
  upClosed,  \* uplinkClosed_
  callbacks, \* sessions whose caller has set onOpen, onData, onClose, onError
  told,      \* callbacks that were invoked, per session
  carried,   \* the connection that brought the server the connect, 0 for none
  said,      \* frames other than data the server has sent about each session
  downs,     \* calls of onDown since the latest connection was established
  pc,
  op,        \* the frame a caller is sending
  mine,      \* the WebSocket a caller has copied from ws_
  cur,       \* the session Loop is handling, or a thread in onDisconnected
  todo,      \* local vector all of onDisconnected
  back       \* where onDisconnected returns to

flagVars == <<stopped, ready, disconnected>>
connVars == <<epoch, link, net, hooked, emitted>>
sessVars == <<map, state, isClosed, upClosed, callbacks>>
seenVars == <<told, carried, said, downs>>
callVars == <<op, mine>>
loopVars == <<cur, todo, back>>
vars == <<flagVars, connVars, wsRef, sessVars, seenVars, pc, callVars, loopVars>>

Ops     == {"connect", "data", "half-close", "close"}
Frames  == {"connected", "data", "close", "error"}
DownPcs == {"emit", "emitting", "down", "unready", "collect", "tell", "mark"}
LoopPcs == {"top", "dial", "publish", "announce", "rearm", "hook", "test", "read", "fail",
            "gone", "after", "end", "exit", "closing", "closed"} \cup Frames \cup DownPcs
MainPcs == {"idle", "lock", "unref", "ready", "join", "final", "done"} \cup DownPcs
CallPcs == {"start", "room", "insert", "lookup", "check", "send", "undo", "refused",
            "hooks", "idle", "exchange", "erase", "notify", "done"}

TypeOK ==
  /\ stopped \in BOOLEAN /\ ready \in BOOLEAN /\ disconnected \in BOOLEAN
  /\ epoch \in 0 .. MaxConnects /\ wsRef \in 0 .. epoch
  /\ link \in {"open", "closing", "closed"}
  /\ net \in BOOLEAN /\ hooked \in BOOLEAN /\ emitted \in BOOLEAN
  /\ map \subseteq Sessions /\ callbacks \subseteq Sessions
  /\ state \in [Sessions -> {"connecting", "open", "closed"}]
  /\ isClosed \in [Sessions -> BOOLEAN] /\ upClosed \in [Sessions -> BOOLEAN]
  /\ told \in [Sessions -> SUBSET {"open", "data", "close", "error"}]
  /\ carried \in [Sessions -> 0 .. epoch]
  /\ said \in [Sessions -> SUBSET {"connected", "close", "error"}]
  /\ downs \in 0 .. 2
  /\ pc \in [Threads -> LoopPcs \cup MainPcs \cup CallPcs]
  /\ pc[Loop] \in LoopPcs /\ pc[Main] \in MainPcs
  /\ \A s \in Sessions : pc[s] \in CallPcs
  /\ op \in [Sessions -> Ops] /\ mine \in [Sessions -> 0 .. epoch]
  /\ cur \in [{Loop, Main} -> Sessions \cup {None}]
  /\ todo \in [{Loop, Main} -> SUBSET Sessions]
  /\ back \in [{Loop, Main} -> {"top", "gone", "unref"}]

Init ==
  /\ stopped = FALSE /\ ready = FALSE /\ disconnected = FALSE
  /\ epoch = 0 /\ link = "closed" /\ net = FALSE /\ hooked = FALSE /\ emitted = FALSE
  /\ wsRef = 0 /\ map = {} /\ callbacks = {}
  /\ state = [s \in Sessions |-> "connecting"]
  /\ isClosed = [s \in Sessions |-> FALSE] /\ upClosed = [s \in Sessions |-> FALSE]
  /\ told = [s \in Sessions |-> {}] /\ carried = [s \in Sessions |-> 0]
  /\ said = [s \in Sessions |-> {}] /\ downs = 0
  /\ pc = [t \in Threads |-> IF t = Loop THEN "top" ELSE IF t = Main THEN "idle" ELSE "start"]
  /\ op = [s \in Sessions |-> "connect"] /\ mine = [s \in Sessions |-> 0]
  /\ cur = [t \in {Loop, Main} |-> None]
  /\ todo = [t \in {Loop, Main} |-> {}]
  /\ back = [t \in {Loop, Main} |-> IF t = Loop THEN "top" ELSE "unref"]

Go(t, from, to) == pc[t] = from /\ pc' = [pc EXCEPT ![t] = to]

(* close() holds wsMutex_ from its look at ws_ until ws_.reset() *)
WsMutexFree == pc[Main] \notin {"unref"} \cup DownPcs

(* state() of the WebSocket with this number *)
LinkOf(e) == IF e = epoch THEN link ELSE "closed"

(* a callback that was not set is not called *)
Tell(s, calls) == told' = IF s \in callbacks THEN [told EXCEPT ![s] = @ \cup calls] ELSE told

-----------------------------------------------------------------------------
(* openSession                                                             *)

OpenReady(s) ==
  /\ Go(s, "start", IF ready THEN "room" ELSE "refused")
  /\ UNCHANGED <<flagVars, connVars, wsRef, sessVars, seenVars, callVars, loopVars>>

(* the limit, and a new id from allocId *)
OpenRoom(s) ==
  /\ Go(s, "room", IF Cardinality(map) >= MaxSessions THEN "refused" ELSE "insert")
  /\ UNCHANGED <<flagVars, connVars, wsRef, sessVars, seenVars, callVars, loopVars>>

OpenInsert(s) ==
  /\ Go(s, "insert", "lookup")
  /\ map' = map \cup {s}
  /\ op' = [op EXCEPT ![s] = "connect"]
  /\ UNCHANGED <<flagVars, connVars, wsRef, state, isClosed, upClosed, callbacks,
                 seenVars, mine, loopVars>>

OpenUndo(s) ==
  /\ Go(s, "undo", "refused")
  /\ map' = map \ {s}
  /\ UNCHANGED <<flagVars, connVars, wsRef, state, isClosed, upClosed, callbacks,
                 seenVars, callVars, loopVars>>

(* the caller assigns its callbacks to the session it was given *)
SetCallbacks(s) ==
  /\ Go(s, "hooks", "idle")
  /\ callbacks' = callbacks \cup {s}
  /\ UNCHANGED <<flagVars, connVars, wsRef, map, state, isClosed, upClosed, seenVars,
                 callVars, loopVars>>

-----------------------------------------------------------------------------
(* Sending: copy ws_ under wsMutex_, look at its state, write the frame    *)

WhenNoLink(o) ==
  CASE o = "connect" -> "undo" [] o = "close" -> "notify" [] OTHER -> "idle"

WhenSent(o) ==
  CASE o = "connect" -> "hooks" [] o = "close" -> "notify" [] OTHER -> "idle"

WhenSendFails(o) ==
  CASE o = "connect" -> "undo" [] o = "close" -> "notify"
    [] o = "data" -> "exchange" [] OTHER -> "idle"

SendLookup(s) ==
  /\ Go(s, "lookup", IF wsRef = 0 THEN WhenNoLink(op[s]) ELSE "check")
  /\ WsMutexFree
  /\ mine' = [mine EXCEPT ![s] = wsRef]
  /\ UNCHANGED <<flagVars, connVars, wsRef, sessVars, seenVars, op, loopVars>>

SendCheck(s) ==
  /\ Go(s, "check", IF LinkOf(mine[s]) = "open" THEN "send" ELSE WhenNoLink(op[s]))
  /\ UNCHANGED <<flagVars, connVars, wsRef, sessVars, seenVars, callVars, loopVars>>

(* push keeps sendMutex_ while it closes a session it could not write for *)
SendMutexFree(s) ==
  \A u \in Sessions \ {s} : ~(op[u] = "data" /\ pc[u] \in {"exchange", "erase", "notify"})

(* sendFrame: refused unless open; on a dead network the write may fail or *)
(* end in a buffer nobody reads                                            *)
SendFrame(s) ==
  /\ pc[s] = "send" /\ SendMutexFree(s)
  /\ \/ /\ LinkOf(mine[s]) = "open"
        /\ pc' = [pc EXCEPT ![s] = WhenSent(op[s])]
        /\ carried' = IF net /\ op[s] = "connect" THEN [carried EXCEPT ![s] = epoch]
                                                  ELSE carried
     \/ /\ LinkOf(mine[s]) # "open" \/ ~net
        /\ pc' = [pc EXCEPT ![s] = WhenSendFails(op[s])]
        /\ UNCHANGED carried
  /\ UNCHANGED <<flagVars, connVars, wsRef, sessVars, told, said, downs, callVars, loopVars>>

-----------------------------------------------------------------------------
(* push, pushEnd and closeSession                                          *)

Push(s) ==
  /\ Go(s, "idle", "lookup")
  /\ ~isClosed[s] /\ ~upClosed[s]
  /\ op' = [op EXCEPT ![s] = "data"]
  /\ UNCHANGED <<flagVars, connVars, wsRef, sessVars, seenVars, mine, loopVars>>

PushEnd(s) ==
  /\ Go(s, "idle", "lookup")
  /\ ~isClosed[s] /\ ~upClosed[s]
  /\ upClosed' = [upClosed EXCEPT ![s] = TRUE]
  /\ op' = [op EXCEPT ![s] = "half-close"]
  /\ UNCHANGED <<flagVars, connVars, wsRef, map, state, isClosed, callbacks, seenVars,
                 mine, loopVars>>

CloseCall(s) ==
  /\ Go(s, "idle", "exchange")
  /\ op' = [op EXCEPT ![s] = "close"]
  /\ UNCHANGED <<flagVars, connVars, wsRef, sessVars, seenVars, mine, loopVars>>

(* a session closed from inside push lives on for its caller *)
CloseReturn(s) == IF op[s] = "close" THEN "done" ELSE "idle"

(* closed_.exchange(true) *)
CloseExchange(s) ==
  /\ Go(s, "exchange", IF isClosed[s] THEN CloseReturn(s) ELSE "erase")
  /\ isClosed' = [isClosed EXCEPT ![s] = TRUE]
  /\ UNCHANGED <<flagVars, connVars, wsRef, map, state, upClosed, callbacks, seenVars,
                 callVars, loopVars>>

CloseErase(s) ==
  /\ Go(s, "erase", IF op[s] = "close" THEN "lookup" ELSE "notify")
  /\ state' = [state EXCEPT ![s] = "closed"]
  /\ map' = map \ {s}
  /\ UNCHANGED <<flagVars, connVars, wsRef, isClosed, upClosed, callbacks, seenVars,
                 callVars, loopVars>>

CloseNotify(s) ==
  /\ Go(s, "notify", CloseReturn(s))
  /\ Tell(s, {"close"})
  /\ UNCHANGED <<flagVars, connVars, wsRef, sessVars, carried, said, downs, callVars, loopVars>>

Caller(s) ==
  \/ OpenReady(s) \/ OpenRoom(s) \/ OpenInsert(s) \/ OpenUndo(s) \/ SetCallbacks(s)
  \/ SendLookup(s) \/ SendCheck(s) \/ SendFrame(s)
  \/ CloseExchange(s) \/ CloseErase(s) \/ CloseNotify(s)

(* what the caller does next is its own choice *)
Calls(s) == Push(s) \/ PushEnd(s) \/ CloseCall(s)

-----------------------------------------------------------------------------
(* onDisconnected, on Loop or, from close(), on Main                       *)

(* emitClose tests closeEmitted_, a plain bool, and sets it afterwards *)
EmitTest(t) ==
  /\ Go(t, "emit", IF emitted THEN back[t] ELSE "emitting")
  /\ UNCHANGED <<flagVars, connVars, wsRef, sessVars, seenVars, callVars, loopVars>>

EmitCall(t) ==
  /\ Go(t, "emitting", IF hooked THEN "down" ELSE back[t])
  /\ emitted' = TRUE
  /\ UNCHANGED <<flagVars, epoch, link, net, hooked, wsRef, sessVars, seenVars, callVars, loopVars>>

(* mutant: a disconnection is handled as often as it is noticed *)
DownEveryTime(t) ==
  /\ Go(t, "down", "unready")
  /\ disconnected' = TRUE
  /\ UNCHANGED <<stopped, ready, connVars, wsRef, sessVars, seenVars, callVars, loopVars>>

(* disconnected_.exchange(true) *)
DownOnce(t) ==
  /\ Go(t, "down", IF disconnected THEN back[t] ELSE "unready")
  /\ disconnected' = TRUE
  /\ UNCHANGED <<stopped, ready, connVars, wsRef, sessVars, seenVars, callVars, loopVars>>

DownUnready(t) ==
  /\ Go(t, "unready", "collect")
  /\ ready' = FALSE
  /\ UNCHANGED <<stopped, disconnected, connVars, wsRef, sessVars, seenVars, callVars, loopVars>>

DownCollect(t) ==
  /\ Go(t, "collect", "tell")
  /\ todo' = [todo EXCEPT ![t] = map]
  /\ map' = {}
  /\ UNCHANGED <<flagVars, connVars, wsRef, state, isClosed, upClosed, callbacks,
                 seenVars, callVars, cur, back>>

(* mutant: onDisconnected does not call onError and onClose *)
DownTellNothing(t) == \E s \in todo[t] :
  /\ Go(t, "tell", "mark")
  /\ todo' = [todo EXCEPT ![t] = @ \ {s}]
  /\ cur' = [cur EXCEPT ![t] = s]
  /\ UNCHANGED <<flagVars, connVars, wsRef, sessVars, seenVars, callVars, back>>

DownTell(t) == \E s \in todo[t] :
  /\ Go(t, "tell", "mark")
  /\ todo' = [todo EXCEPT ![t] = @ \ {s}]
  /\ cur' = [cur EXCEPT ![t] = s]
  /\ Tell(s, {"error", "close"})
  /\ UNCHANGED <<flagVars, connVars, wsRef, sessVars, carried, said, downs, callVars, back>>

DownMark(t) ==
  /\ Go(t, "mark", "tell")
  /\ state' = [state EXCEPT ![cur[t]] = "closed"]
  /\ isClosed' = [isClosed EXCEPT ![cur[t]] = TRUE]
  /\ cur' = [cur EXCEPT ![t] = None]
  /\ UNCHANGED <<flagVars, connVars, wsRef, map, upClosed, callbacks, seenVars, callVars,
                 todo, back>>

(* onDown(reason) *)
DownDone(t) ==
  /\ Go(t, "tell", back[t])
  /\ todo[t] = {}
  /\ downs' = downs + 1
  /\ UNCHANGED <<flagVars, connVars, wsRef, sessVars, told, carried, said, callVars, loopVars>>

OnDisconnected(t) ==
  \/ EmitTest(t) \/ EmitCall(t) \/ DownOnce(t) \/ DownUnready(t) \/ DownCollect(t)
  \/ DownTell(t) \/ DownMark(t) \/ DownDone(t)

-----------------------------------------------------------------------------
(* runLoop                                                                 *)

(* mutant: runLoop returns without its last statement *)
LoopTopReturns ==
  /\ Go(Loop, "top", IF stopped THEN "done" ELSE "dial")
  /\ UNCHANGED <<flagVars, connVars, wsRef, sessVars, seenVars, callVars, loopVars>>

(* while (!stopped_) *)
LoopTop ==
  /\ Go(Loop, "top", IF stopped THEN "end" ELSE "dial")
  /\ UNCHANGED <<flagVars, connVars, wsRef, sessVars, seenVars, callVars, loopVars>>

(* connectTo, the TLS or the WebSocket handshake fails; then the backoff *)
DialFails ==
  /\ Go(Loop, "dial", "down")
  /\ back' = [back EXCEPT ![Loop] = "top"]
  /\ UNCHANGED <<flagVars, connVars, wsRef, sessVars, seenVars, callVars, cur, todo>>

DialSucceeds ==
  /\ Go(Loop, "dial", "publish") /\ epoch < MaxConnects
  /\ epoch' = epoch + 1 /\ link' = "open" /\ net' = TRUE
  /\ hooked' = FALSE /\ emitted' = FALSE /\ downs' = 0
  /\ UNCHANGED <<flagVars, wsRef, sessVars, told, carried, said, callVars, loopVars>>

(* ws_ = ws, whether or not close() has already looked at ws_ *)
Publish ==
  /\ Go(Loop, "publish", "announce") /\ WsMutexFree
  /\ wsRef' = epoch
  /\ UNCHANGED <<flagVars, connVars, sessVars, seenVars, callVars, loopVars>>

Announce ==
  /\ Go(Loop, "announce", "rearm")
  /\ ready' = TRUE
  /\ UNCHANGED <<stopped, disconnected, connVars, wsRef, sessVars, seenVars, callVars, loopVars>>

Rearm ==
  /\ Go(Loop, "rearm", "hook")
  /\ disconnected' = FALSE
  /\ UNCHANGED <<stopped, ready, connVars, wsRef, sessVars, seenVars, callVars, loopVars>>

InstallHandlers ==
  /\ Go(Loop, "hook", "test")
  /\ hooked' = TRUE
  /\ UNCHANGED <<flagVars, epoch, link, net, emitted, wsRef, sessVars, seenVars, callVars, loopVars>>

(* runReadLoop: while (state_ != Closed); stopped_ is not looked at *)
ReadTest ==
  /\ Go(Loop, "test", IF link = "closed" THEN "gone" ELSE "read")
  /\ UNCHANGED <<flagVars, connVars, wsRef, sessVars, seenVars, callVars, loopVars>>

(* What the server may say about a session: SessionContract!MayTell.       *)
ServerMaySay(s, f) ==
  /\ carried[s] = epoch /\ epoch > 0 /\ net
  /\ CASE f = "connected" -> "connected" \notin said[s] /\ "error" \notin said[s]
       [] f = "data"  -> "connected" \in said[s]
       [] f = "close" -> "close" \notin said[s]
       [] f = "error" -> "error" \notin said[s] /\ "connected" \notin said[s]

(* a frame arrives, and its session is looked up *)
Recv(s, f) ==
  /\ Go(Loop, "read", IF s \in map THEN f ELSE "test")
  /\ ServerMaySay(s, f)
  /\ said' = [said EXCEPT ![s] = @ \cup ({f} \ {"data"})]
  /\ cur' = [cur EXCEPT ![Loop] = IF s \in map THEN s ELSE None]
  /\ UNCHANGED <<flagVars, connVars, wsRef, sessVars, told, carried, downs, callVars, todo, back>>

HandleConnected ==
  LET s == cur[Loop] IN
  /\ Go(Loop, "connected", "test")
  /\ IF state[s] = "connecting"
     THEN state' = [state EXCEPT ![s] = "open"] /\ Tell(s, {"open"})
     ELSE UNCHANGED <<state, told>>
  /\ cur' = [cur EXCEPT ![Loop] = None]
  /\ UNCHANGED <<flagVars, connVars, wsRef, map, isClosed, upClosed, callbacks, carried,
                 said, downs, callVars, todo, back>>

HandleData ==
  /\ Go(Loop, "data", "test")
  /\ IF isClosed[cur[Loop]] THEN UNCHANGED told ELSE Tell(cur[Loop], {"data"})
  /\ cur' = [cur EXCEPT ![Loop] = None]
  /\ UNCHANGED <<flagVars, connVars, wsRef, sessVars, carried, said, downs, callVars, todo, back>>

(* close and error: erase the entry, mark the session, call back *)
HandleErase ==
  /\ pc[Loop] \in {"close", "error"}
  /\ pc' = [pc EXCEPT ![Loop] = "closing"]
  /\ map' = map \ {cur[Loop]}
  /\ UNCHANGED <<flagVars, connVars, wsRef, state, isClosed, upClosed, callbacks, seenVars,
                 callVars, loopVars>>

(* mutant: handleControl does not mark the session as closed *)
HandleMarkNothing ==
  /\ Go(Loop, "closing", "closed")
  /\ UNCHANGED <<flagVars, connVars, wsRef, sessVars, seenVars, callVars, loopVars>>

HandleMark ==
  /\ Go(Loop, "closing", "closed")
  /\ state' = [state EXCEPT ![cur[Loop]] = "closed"]
  /\ isClosed' = [isClosed EXCEPT ![cur[Loop]] = TRUE]
  /\ UNCHANGED <<flagVars, connVars, wsRef, map, upClosed, callbacks, seenVars, callVars, loopVars>>

HandleTell ==
  /\ Go(Loop, "closed", "test")
  /\ Tell(cur[Loop], {"close"} \cup (said[cur[Loop]] \cap {"error"}))
  /\ cur' = [cur EXCEPT ![Loop] = None]
  /\ UNCHANGED <<flagVars, connVars, wsRef, sessVars, carried, said, downs, callVars, todo, back>>

HandleControl == HandleConnected \/ HandleData \/ HandleErase \/ HandleMark \/ HandleTell

(* a close frame, the end of the stream, or an oversized frame *)
RecvEnd ==
  /\ Go(Loop, "read", "fail")
  /\ link' \in {link, IF link = "open" THEN "closing" ELSE link}
  /\ UNCHANGED <<flagVars, epoch, net, hooked, emitted, wsRef, sessVars, seenVars, callVars, loopVars>>

(* failConnection, unless the WebSocket has been terminated meanwhile *)
FailConnection ==
  /\ Go(Loop, "fail", IF link = "closed" THEN "gone" ELSE "emit")
  /\ link' = "closed"
  /\ back' = [back EXCEPT ![Loop] = "gone"]
  /\ UNCHANGED <<flagVars, epoch, net, hooked, emitted, wsRef, sessVars, seenVars, callVars,
                 cur, todo>>

(* the ping thread is joined: it leaves once the WebSocket is not open *)
DropRef ==
  /\ Go(Loop, "gone", "after") /\ WsMutexFree
  /\ wsRef' = 0
  /\ UNCHANGED <<flagVars, connVars, sessVars, seenVars, callVars, loopVars>>

AfterConnection ==
  /\ Go(Loop, "after", IF stopped THEN "top" ELSE "down")
  /\ back' = [back EXCEPT ![Loop] = "top"]
  /\ UNCHANGED <<flagVars, connVars, wsRef, sessVars, seenVars, callVars, cur, todo>>

LoopEnd ==
  /\ Go(Loop, "end", "exit")
  /\ ready' = FALSE
  /\ UNCHANGED <<stopped, disconnected, connVars, wsRef, sessVars, seenVars, callVars, loopVars>>

RunLoop ==
  \/ LoopTop \/ DialFails \/ DialSucceeds \/ Publish \/ Announce \/ Rearm
  \/ InstallHandlers \/ ReadTest \/ HandleControl \/ FailConnection \/ DropRef
  \/ AfterConnection \/ LoopEnd \/ OnDisconnected(Loop)

Incoming == RecvEnd \/ \E s \in Sessions, f \in Frames : Recv(s, f)

-----------------------------------------------------------------------------
(* close()                                                                 *)

CloseTunnel ==
  /\ Go(Main, "idle", "lock") /\ MayStop
  /\ stopped' = TRUE
  /\ UNCHANGED <<ready, disconnected, connVars, wsRef, sessVars, seenVars, callVars, loopVars>>

(* ws_->close() and ws_->terminate(), which emits onClose *)
TerminateLink ==
  /\ Go(Main, "lock", IF wsRef # 0 THEN "emit" ELSE "ready")
  /\ link' = IF wsRef = epoch THEN "closed" ELSE link
  /\ UNCHANGED <<flagVars, epoch, net, hooked, emitted, wsRef, sessVars, seenVars, callVars, loopVars>>

ResetRef ==
  /\ Go(Main, "unref", "ready")
  /\ wsRef' = 0
  /\ UNCHANGED <<flagVars, connVars, sessVars, seenVars, callVars, loopVars>>

ClearReady ==
  /\ Go(Main, "ready", "join")
  /\ ready' = FALSE
  /\ UNCHANGED <<stopped, disconnected, connVars, wsRef, sessVars, seenVars, callVars, loopVars>>

JoinLoop ==
  /\ Go(Main, "join", "final") /\ pc[Loop] = "exit"
  /\ UNCHANGED <<flagVars, connVars, wsRef, sessVars, seenVars, callVars, loopVars>>

(* every remaining session is told, under sessionsMutex_ *)
FinalClear ==
  /\ Go(Main, "final", "done")
  /\ told' = [s \in Sessions |-> IF s \in map \cap callbacks THEN told[s] \cup {"close"} ELSE told[s]]
  /\ state' = [s \in Sessions |-> IF s \in map THEN "closed" ELSE state[s]]
  /\ map' = {}
  /\ UNCHANGED <<flagVars, connVars, wsRef, isClosed, upClosed, callbacks, carried, said,
                 downs, callVars, loopVars>>

Close ==
  \/ TerminateLink \/ ResetRef \/ ClearReady \/ JoinLoop \/ FinalClear
  \/ OnDisconnected(Main)

-----------------------------------------------------------------------------
NetDown ==
  /\ net /\ net' = FALSE
  /\ UNCHANGED <<flagVars, epoch, link, hooked, emitted, wsRef, sessVars, seenVars, pc,
                 callVars, loopVars>>

Finished == pc[Loop] = "exit" /\ pc[Main] = "done"

Next ==
  \/ \E s \in Sessions : Caller(s) \/ Calls(s)
  \/ RunLoop \/ Incoming \/ CloseTunnel \/ Close \/ NetDown
  \/ Finished /\ UNCHANGED vars

(* connectTo and the handshakes end, every thread runs on; nobody is       *)
(* obliged to call, to speak, or to end the connection.                    *)
Fairness ==
  /\ WF_vars(RunLoop) /\ WF_vars(Close)
  /\ \A s \in Sessions : WF_vars(Caller(s))

Spec == Init /\ [][Next]_vars /\ Fairness

-----------------------------------------------------------------------------
(* Properties                                                              *)

InOpen(s) == pc[s] \in {"start", "room", "insert", "undo", "refused"}
             \/ (pc[s] \in {"lookup", "check", "send"} /\ op[s] = "connect")

(* Who is about to close s: onDisconnected, or handleControl.              *)
BeingClosed(s) == \E t \in {Loop, Main} : s \in todo[t] \/ cur[t] = s

(* A session openSession has handed out is either in the map, where the    *)
(* next disconnection finds it, or closed or being closed: none escapes    *)
(* between the insertion and the loss of the connection.                   *)
NoLostSession == \A s \in Sessions :
  ~InOpen(s) /\ ~isClosed[s] => s \in map \/ BeingClosed(s) \/ pc[Main] = "done"

(* A closed session has left the map: closeSession, handleControl and      *)
(* onDisconnected never leave a dead entry that counts for maxSessions.    *)
ClosedLeavesMap == \A s \in Sessions :
  isClosed[s] /\ s \in map => pc[s] = "erase"

(* When runLoop dials again nothing of the old connection is in use: not   *)
(* ready, no WebSocket, and only calls of openSession that will still      *)
(* notice have an entry (protocol.md:167).                                 *)
CleanBeforeDial == pc[Loop] = "dial" =>
  /\ wsRef = 0 /\ (~ready \/ stopped)
  /\ \A s \in map : InOpen(s) \/ stopped

(* tunnel.cpp:206: one disconnection is handled once, whichever of the     *)
(* read loop, close() and the end of runLoop notice it.                    *)
DownAtMostOnce == downs <= 1

(* After close() nothing is left but calls of openSession under way.       *)
CloseLeavesNothing == pc[Main] = "done" =>
  /\ wsRef = 0 /\ ~ready
  /\ \A s \in map : InOpen(s)

(* A session whose caller has set its callbacks learns that the connection *)
(* is lost.                                                                *)
LossReported == \A s \in Sessions :
  s \in map \cap callbacks /\ link = "closed" ~> "close" \in told[s]

(* protocol.md:167: a lost connection is dialled again.                    *)
Reconnects == link = "closed" /\ epoch > 0 ~> pc[Loop] = "dial" \/ stopped

(* A lost connection is handled once and completely: its sessions are      *)
(* taken out of the map before the next dial, and onDown is called once.   *)
LossHandledOnce == CleanBeforeDial /\ DownAtMostOnce

(* Every session is either in the map or known to be finished: neither a   *)
(* frame, a loss nor close() makes one disappear half-way.                 *)
SessionsAccounted == NoLostSession /\ ClosedLeavesMap /\ CloseLeavesNothing

(* The tunnel gets over a loss: sessions hear of it and the loop dials     *)
(* again (runLoop).                                                        *)
Recovers == LossReported /\ Reconnects

(* tunnel.hpp:49: onOpen is called when connected has been received.       *)
OpenReported == \A s \in Sessions :
  state[s] = "open" ~> "open" \in told[s] \/ state[s] = "closed"

(* stream.cpp:163: waiting threads react to the end of the program.        *)
CloseReturns == pc[Main] = "lock" ~> pc[Main] = "done"
=============================================================================
