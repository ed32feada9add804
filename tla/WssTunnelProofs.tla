--------------------------- MODULE WssTunnelProofs ---------------------------
(***************************************************************************)
(* Proofs about WssTunnel: no session escapes a loss or close(), and a     *)
(* loss is handled once and before the next dial, for every set of         *)
(* sessions, any limit and any number of connections.                      *)
(***************************************************************************)
EXTENDS WssTunnel, TLAPS

Both == {Loop, Main}

(* in onDisconnected, past the exchange that lets one thread through *)
Past == {"unready", "collect", "tell", "mark"}

(* runLoop without a connection *)
Outside == {"top", "dial", "end", "exit"}

-----------------------------------------------------------------------------
(* The invariant.                                                          *)

(* TypeOK in parts, each with the variables that change together.          *)
FlagTypes ==
  /\ stopped \in BOOLEAN /\ ready \in BOOLEAN /\ disconnected \in BOOLEAN
  /\ net \in BOOLEAN /\ hooked \in BOOLEAN /\ emitted \in BOOLEAN
  /\ link \in {"open", "closing", "closed"}
  /\ map \subseteq Sessions /\ callbacks \subseteq Sessions
  /\ downs \in 0 .. 2

EpochTypes ==
  /\ epoch \in 0 .. MaxConnects /\ wsRef \in 0 .. epoch
  /\ carried \in [Sessions -> 0 .. epoch] /\ mine \in [Sessions -> 0 .. epoch]

StateTypes ==
  /\ state \in [Sessions -> {"connecting", "open", "closed"}]
  /\ isClosed \in [Sessions -> BOOLEAN] /\ upClosed \in [Sessions -> BOOLEAN]

SeenTypes ==
  /\ told \in [Sessions -> SUBSET {"open", "data", "close", "error"}]
  /\ said \in [Sessions -> SUBSET {"connected", "close", "error"}]

ThreadTypes ==
  /\ pc \in [Threads -> LoopPcs \cup MainPcs \cup CallPcs]
  /\ pc[Loop] \in LoopPcs /\ pc[Main] \in MainPcs
  /\ \A s \in Sessions : pc[s] \in CallPcs
  /\ op \in [Sessions -> Ops]
  /\ cur \in [Both -> Sessions \cup {None}]
  /\ todo \in [Both -> SUBSET Sessions]
  /\ back \in [Both -> {"top", "gone", "unref"}]

LEMMA TypeParts ==
  TypeOK <=> FlagTypes /\ EpochTypes /\ StateTypes /\ SeenTypes /\ ThreadTypes
BY DEF TypeOK, FlagTypes, EpochTypes, StateTypes, SeenTypes, ThreadTypes, Both

(* The locals of runLoop and onDisconnected.                               *)
Locals ==
  /\ back[Main] = "unref" /\ back[Loop] # "unref"
  /\ pc[Loop] \in {"emit", "emitting"} => back[Loop] = "gone"
  /\ pc[Loop] \in Frames \cup {"closing", "closed"} => cur[Loop] \in Sessions
  /\ \A t \in Both : pc[t] = "mark" => cur[t] \in Sessions
  /\ \A t \in Both : pc[t] \notin {"tell", "mark"} => todo[t] = {}

(* close() has started; at its end the loop has been joined.               *)
Stopping ==
  /\ stopped <=> pc[Main] # "idle"
  /\ pc[Main] \in {"final", "done"} => pc[Loop] = "exit"
  /\ pc[Loop] \in {"end", "exit"} => stopped
  /\ pc[Loop] = "exit" => ~ready

(* ws_ is null while there is no connection, and close() keeps wsMutex_,   *)
(* and with it the connection, while it calls back.                        *)
Reference ==
  /\ pc[Loop] \in Outside \cup {"publish", "after"} => wsRef = 0
  /\ pc[Loop] \in DownPcs /\ back[Loop] = "top" => wsRef = 0
  /\ ~WsMutexFree => wsRef # 0
  /\ pc[Main] \in {"down"} \cup Past => hooked
  /\ pc[Loop] \in {"publish", "announce", "rearm", "hook"} => ~hooked

(* The loop leaves a connection only when it is closed.                    *)
Offline == pc[Loop] \in Outside \cup {"gone", "after"} \cup DownPcs => link = "closed"

(* A session is nowhere before openSession inserts it.                     *)
Unborn == \A s \in Sessions : pc[s] \in {"start", "room", "insert"} =>
  s \notin map /\ ~isClosed[s] /\ \A t \in Both : s \notin todo[t] /\ cur[t] # s

(* What onDisconnected and handleControl have taken out of the map does    *)
(* not come back to it.                                                    *)
TakenOut ==
  /\ \A t \in Both : todo[t] \cap map = {}
  /\ \A t \in Both : pc[t] = "mark" => cur[t] \notin map
  /\ pc[Loop] \in {"closing", "closed"} => cur[Loop] \notin map

(* Who will mark s as closed.                                              *)
Doomed(s) ==
  \/ \E t \in Both : s \in todo[t] \/ (pc[t] = "mark" /\ cur[t] = s)
  \/ pc[Loop] = "closing" /\ cur[Loop] = s

(* From the insertion on a session is in the map, closed, or about to be   *)
(* closed by somebody.                                                     *)
Accounted == \A s \in Sessions :
  /\ pc[s] \notin {"start", "room", "insert", "undo", "refused"} =>
       s \in map \/ isClosed[s] \/ Doomed(s) \/ pc[Main] = "done"
  /\ pc[s] = "erase" => isClosed[s]

(* One thread gets past the exchange for each connection.                  *)
OnePast ==
  /\ ~(pc[Loop] \in Past /\ pc[Main] \in Past)
  /\ \A t \in Both : pc[t] \in Past => disconnected /\ downs = 0
  /\ downs \in {0, 1} /\ (downs = 1 => disconnected)
  /\ pc[Loop] \in {"publish", "announce", "rearm"} => downs = 0

(* Where a loss that has been handled leaves the loop.                     *)
Handled ==
  /\ disconnected /\ ~stopped =>
       pc[Loop] \in Outside \cup {"publish", "announce", "rearm", "gone", "after"} \cup DownPcs
  /\ \/ pc[Loop] \in {"top", "dial", "publish", "announce", "collect", "tell", "mark"}
     \/ disconnected /\ pc[Loop] \notin {"rearm", "unready"}
     => ~ready \/ stopped

(* A session is handed out only over an open connection, so none outlives  *)
(* the handling of a loss in the map.                                      *)
NoneLeft ==
  \/ pc[Loop] \in {"top", "dial", "tell", "mark"}
  \/ disconnected /\ pc[Loop] \notin {"publish", "announce", "rearm", "unready", "collect"}
  => \A s \in map : InOpen(s) \/ stopped

(* The invariant of close().                                               *)
Cleared == pc[Main] = "done" => \A s \in map : InOpen(s)

Inv ==
  /\ TypeOK /\ Locals /\ Stopping /\ Reference /\ Offline /\ Unborn /\ TakenOut
  /\ ClosedLeavesMap /\ Accounted /\ OnePast /\ Handled /\ NoneLeft /\ Cleared

-----------------------------------------------------------------------------
(* Each conjunct is inductive relative to the ones it rests on.            *)
LEMMA NextLocals == TypeOK /\ Locals /\ [Next]_vars => Locals'
<1> SUFFICES ASSUME TypeOK, Locals, [Next]_vars PROVE Locals'
  OBVIOUS
<1> USE TunnelAssumption DEF TypeOK, Threads, Both, None, Loop, Main, Ops, Frames, DownPcs,
    LoopPcs,
        MainPcs, CallPcs, flagVars, connVars, sessVars, seenVars, callVars, loopVars, Go, vars,
            Locals
<1>1. ASSUME NEW t \in Both, OnDisconnected(t) PROVE Locals'
  BY <1>1
  DEF OnDisconnected, EmitTest, EmitCall, DownOnce, DownUnready, DownCollect, DownTell,
      DownMark, DownDone
<1>2. ASSUME NEW s \in Sessions, Caller(s) PROVE Locals'
  BY <1>2
  DEF Caller, OpenReady, OpenRoom, OpenInsert, OpenUndo, SetCallbacks, SendLookup, SendCheck,
      SendFrame, CloseExchange, CloseErase, CloseNotify
<1>3. ASSUME NEW s \in Sessions, Calls(s) PROVE Locals'
  BY <1>3
  DEF Calls, Push, PushEnd, CloseCall
<1>4. CASE HandleControl
  BY <1>4
  DEF HandleControl, HandleConnected, HandleData, HandleErase, HandleMark, HandleTell
<1>5. CASE RunLoop
  BY <1>1, <1>4, <1>5
  DEF RunLoop, Both, LoopTop, DialFails, DialSucceeds, Publish, Announce, Rearm,
      InstallHandlers, ReadTest, FailConnection, DropRef, AfterConnection, LoopEnd
<1>6. CASE RecvEnd
  BY <1>6 DEF RecvEnd
<1>7. ASSUME NEW s \in Sessions, NEW f \in Frames, Recv(s, f) PROVE Locals'
  BY <1>7 DEF Recv
<1>8. CASE CloseTunnel
  BY <1>8 DEF CloseTunnel
<1>9. CASE Close
  BY <1>1, <1>9
  DEF Close, Both, TerminateLink, ResetRef, ClearReady, JoinLoop, FinalClear
<1>10. CASE NetDown
  BY <1>10 DEF NetDown
<1>11. CASE UNCHANGED vars
  BY <1>11 DEF vars
<1> QED
  BY <1>1, <1>2, <1>3, <1>4, <1>5, <1>6, <1>7, <1>8, <1>9, <1>10, <1>11 DEF Next, Incoming


LEMMA NextStopping == TypeOK /\ Locals /\ Stopping /\ [Next]_vars => Stopping'
<1> SUFFICES ASSUME TypeOK, Locals, Stopping, [Next]_vars PROVE Stopping'
  OBVIOUS
<1> USE TunnelAssumption DEF TypeOK, Threads, Both, None, Loop, Main, Ops, Frames, DownPcs,
    LoopPcs,
        MainPcs, CallPcs, flagVars, connVars, sessVars, seenVars, callVars, loopVars, Go, vars,
            Locals, Stopping
<1>1. ASSUME NEW t \in Both, OnDisconnected(t) PROVE Stopping'
  BY <1>1
  DEF OnDisconnected, EmitTest, EmitCall, DownOnce, DownUnready, DownCollect, DownTell,
      DownMark, DownDone
<1>2. ASSUME NEW s \in Sessions, Caller(s) PROVE Stopping'
  BY <1>2
  DEF Caller, OpenReady, OpenRoom, OpenInsert, OpenUndo, SetCallbacks, SendLookup, SendCheck,
      SendFrame, CloseExchange, CloseErase, CloseNotify
<1>3. ASSUME NEW s \in Sessions, Calls(s) PROVE Stopping'
  BY <1>3
  DEF Calls, Push, PushEnd, CloseCall
<1>4. CASE HandleControl
  BY <1>4
  DEF HandleControl, HandleConnected, HandleData, HandleErase, HandleMark, HandleTell
<1>5. CASE RunLoop
  BY <1>1, <1>4, <1>5
  DEF RunLoop, Both, LoopTop, DialFails, DialSucceeds, Publish, Announce, Rearm,
      InstallHandlers, ReadTest, FailConnection, DropRef, AfterConnection, LoopEnd
<1>6. CASE RecvEnd
  BY <1>6 DEF RecvEnd
<1>7. ASSUME NEW s \in Sessions, NEW f \in Frames, Recv(s, f) PROVE Stopping'
  BY <1>7 DEF Recv
<1>8. CASE CloseTunnel
  BY <1>8 DEF CloseTunnel
<1>9. CASE Close
  BY <1>1, <1>9
  DEF Close, Both, TerminateLink, ResetRef, ClearReady, JoinLoop, FinalClear
<1>10. CASE NetDown
  BY <1>10 DEF NetDown
<1>11. CASE UNCHANGED vars
  BY <1>11 DEF vars
<1> QED
  BY <1>1, <1>2, <1>3, <1>4, <1>5, <1>6, <1>7, <1>8, <1>9, <1>10, <1>11 DEF Next, Incoming


LEMMA NextReference == TypeOK /\ Locals /\ Stopping /\ Reference /\ [Next]_vars => Reference'
<1> SUFFICES ASSUME TypeOK, Locals, Stopping, Reference, [Next]_vars PROVE Reference'
  OBVIOUS
<1> USE TunnelAssumption DEF TypeOK, Threads, Both, None, Loop, Main, Ops, Frames, DownPcs,
    LoopPcs,
        MainPcs, CallPcs, flagVars, connVars, sessVars, seenVars, callVars, loopVars, Go, vars,
            Locals, Stopping, Reference, WsMutexFree, Outside, Past
<1>1. ASSUME NEW t \in Both, OnDisconnected(t) PROVE Reference'
  BY <1>1
  DEF OnDisconnected, EmitTest, EmitCall, DownOnce, DownUnready, DownCollect, DownTell,
      DownMark, DownDone
<1>2. ASSUME NEW s \in Sessions, Caller(s) PROVE Reference'
  BY <1>2
  DEF Caller, OpenReady, OpenRoom, OpenInsert, OpenUndo, SetCallbacks, SendLookup, SendCheck,
      SendFrame, CloseExchange, CloseErase, CloseNotify
<1>3. ASSUME NEW s \in Sessions, Calls(s) PROVE Reference'
  BY <1>3
  DEF Calls, Push, PushEnd, CloseCall
<1>4. CASE HandleControl
  BY <1>4
  DEF HandleControl, HandleConnected, HandleData, HandleErase, HandleMark, HandleTell
<1>5. CASE RunLoop
  BY <1>1, <1>4, <1>5
  DEF RunLoop, Both, LoopTop, DialFails, DialSucceeds, Publish, Announce, Rearm,
      InstallHandlers, ReadTest, FailConnection, DropRef, AfterConnection, LoopEnd
<1>6. CASE RecvEnd
  BY <1>6 DEF RecvEnd
<1>7. ASSUME NEW s \in Sessions, NEW f \in Frames, Recv(s, f) PROVE Reference'
  BY <1>7 DEF Recv
<1>8. CASE CloseTunnel
  BY <1>8 DEF CloseTunnel
<1>9. CASE Close
  BY <1>1, <1>9
  DEF Close, Both, TerminateLink, ResetRef, ClearReady, JoinLoop, FinalClear
<1>10. CASE NetDown
  BY <1>10 DEF NetDown
<1>11. CASE UNCHANGED vars
  BY <1>11 DEF vars
<1> QED
  BY <1>1, <1>2, <1>3, <1>4, <1>5, <1>6, <1>7, <1>8, <1>9, <1>10, <1>11 DEF Next, Incoming


LEMMA NextOffline == TypeOK /\ Locals /\ Offline /\ [Next]_vars => Offline'
<1> SUFFICES ASSUME TypeOK, Locals, Offline, [Next]_vars PROVE Offline'
  OBVIOUS
<1> USE TunnelAssumption DEF TypeOK, Threads, Both, None, Loop, Main, Ops, Frames, DownPcs,
    LoopPcs,
        MainPcs, CallPcs, flagVars, connVars, sessVars, seenVars, callVars, loopVars, Go, vars,
            Locals, Offline, Outside
<1>1. ASSUME NEW t \in Both, OnDisconnected(t) PROVE Offline'
  BY <1>1
  DEF OnDisconnected, EmitTest, EmitCall, DownOnce, DownUnready, DownCollect, DownTell,
      DownMark, DownDone
<1>2. ASSUME NEW s \in Sessions, Caller(s) PROVE Offline'
  BY <1>2
  DEF Caller, OpenReady, OpenRoom, OpenInsert, OpenUndo, SetCallbacks, SendLookup, SendCheck,
      SendFrame, CloseExchange, CloseErase, CloseNotify
<1>3. ASSUME NEW s \in Sessions, Calls(s) PROVE Offline'
  BY <1>3
  DEF Calls, Push, PushEnd, CloseCall
<1>4. CASE HandleControl
  BY <1>4
  DEF HandleControl, HandleConnected, HandleData, HandleErase, HandleMark, HandleTell
<1>5. CASE RunLoop
  BY <1>1, <1>4, <1>5
  DEF RunLoop, Both, LoopTop, DialFails, DialSucceeds, Publish, Announce, Rearm,
      InstallHandlers, ReadTest, FailConnection, DropRef, AfterConnection, LoopEnd
<1>6. CASE RecvEnd
  BY <1>6 DEF RecvEnd
<1>7. ASSUME NEW s \in Sessions, NEW f \in Frames, Recv(s, f) PROVE Offline'
  BY <1>7 DEF Recv
<1>8. CASE CloseTunnel
  BY <1>8 DEF CloseTunnel
<1>9. CASE Close
  BY <1>1, <1>9
  DEF Close, Both, TerminateLink, ResetRef, ClearReady, JoinLoop, FinalClear
<1>10. CASE NetDown
  BY <1>10 DEF NetDown
<1>11. CASE UNCHANGED vars
  BY <1>11 DEF vars
<1> QED
  BY <1>1, <1>2, <1>3, <1>4, <1>5, <1>6, <1>7, <1>8, <1>9, <1>10, <1>11 DEF Next, Incoming


LEMMA NextUnborn == TypeOK /\ Locals /\ Unborn /\ [Next]_vars => Unborn'
<1> SUFFICES ASSUME TypeOK, Locals, Unborn, [Next]_vars PROVE Unborn'
  OBVIOUS
<1> USE TunnelAssumption DEF TypeOK, Threads, Both, None, Loop, Main, Ops, Frames, DownPcs,
    LoopPcs,
        MainPcs, CallPcs, flagVars, connVars, sessVars, seenVars, callVars, loopVars, Go, vars,
            Locals, Unborn, WhenSent, WhenNoLink, WhenSendFails, CloseReturn
<1>1. ASSUME NEW t \in Both, OnDisconnected(t) PROVE Unborn'
  BY <1>1
  DEF OnDisconnected, EmitTest, EmitCall, DownOnce, DownUnready, DownCollect, DownTell,
      DownMark, DownDone
<1>2. ASSUME NEW s \in Sessions, Caller(s) PROVE Unborn'
  BY <1>2
  DEF Caller, OpenReady, OpenRoom, OpenInsert, OpenUndo, SetCallbacks, SendLookup, SendCheck,
      SendFrame, CloseExchange, CloseErase, CloseNotify
<1>3. ASSUME NEW s \in Sessions, Calls(s) PROVE Unborn'
  BY <1>3
  DEF Calls, Push, PushEnd, CloseCall
<1>4. CASE HandleControl
  BY <1>4
  DEF HandleControl, HandleConnected, HandleData, HandleErase, HandleMark, HandleTell
<1>5. CASE RunLoop
  BY <1>1, <1>4, <1>5
  DEF RunLoop, Both, LoopTop, DialFails, DialSucceeds, Publish, Announce, Rearm,
      InstallHandlers, ReadTest, FailConnection, DropRef, AfterConnection, LoopEnd
<1>6. CASE RecvEnd
  BY <1>6 DEF RecvEnd
<1>7. ASSUME NEW s \in Sessions, NEW f \in Frames, Recv(s, f) PROVE Unborn'
  BY <1>7 DEF Recv
<1>8. CASE CloseTunnel
  BY <1>8 DEF CloseTunnel
<1>9. CASE Close
  BY <1>1, <1>9
  DEF Close, Both, TerminateLink, ResetRef, ClearReady, JoinLoop, FinalClear
<1>10. CASE NetDown
  BY <1>10 DEF NetDown
<1>11. CASE UNCHANGED vars
  BY <1>11 DEF vars
<1> QED
  BY <1>1, <1>2, <1>3, <1>4, <1>5, <1>6, <1>7, <1>8, <1>9, <1>10, <1>11 DEF Next, Incoming


LEMMA NextTakenOut == TypeOK /\ Locals /\ Unborn /\ TakenOut /\ [Next]_vars => TakenOut'
<1> SUFFICES ASSUME TypeOK, Locals, Unborn, TakenOut, [Next]_vars PROVE TakenOut'
  OBVIOUS
<1> USE TunnelAssumption DEF TypeOK, Threads, Both, None, Loop, Main, Ops, Frames, DownPcs,
    LoopPcs,
        MainPcs, CallPcs, flagVars, connVars, sessVars, seenVars, callVars, loopVars, Go, vars,
            Locals, Unborn, TakenOut
<1>1. ASSUME NEW t \in Both, OnDisconnected(t) PROVE TakenOut'
  BY <1>1
  DEF OnDisconnected, EmitTest, EmitCall, DownOnce, DownUnready, DownCollect, DownTell,
      DownMark, DownDone
<1>2. ASSUME NEW s \in Sessions, Caller(s) PROVE TakenOut'
  BY <1>2
  DEF Caller, OpenReady, OpenRoom, OpenInsert, OpenUndo, SetCallbacks, SendLookup, SendCheck,
      SendFrame, CloseExchange, CloseErase, CloseNotify
<1>3. ASSUME NEW s \in Sessions, Calls(s) PROVE TakenOut'
  BY <1>3
  DEF Calls, Push, PushEnd, CloseCall
<1>4. CASE HandleControl
  BY <1>4
  DEF HandleControl, HandleConnected, HandleData, HandleErase, HandleMark, HandleTell
<1>5. CASE RunLoop
  BY <1>1, <1>4, <1>5
  DEF RunLoop, Both, LoopTop, DialFails, DialSucceeds, Publish, Announce, Rearm,
      InstallHandlers, ReadTest, FailConnection, DropRef, AfterConnection, LoopEnd
<1>6. CASE RecvEnd
  BY <1>6 DEF RecvEnd
<1>7. ASSUME NEW s \in Sessions, NEW f \in Frames, Recv(s, f) PROVE TakenOut'
  BY <1>7 DEF Recv
<1>8. CASE CloseTunnel
  BY <1>8 DEF CloseTunnel
<1>9. CASE Close
  BY <1>1, <1>9
  DEF Close, Both, TerminateLink, ResetRef, ClearReady, JoinLoop, FinalClear
<1>10. CASE NetDown
  BY <1>10 DEF NetDown
<1>11. CASE UNCHANGED vars
  BY <1>11 DEF vars
<1> QED
  BY <1>1, <1>2, <1>3, <1>4, <1>5, <1>6, <1>7, <1>8, <1>9, <1>10, <1>11 DEF Next, Incoming


LEMMA NextOnePast == TypeOK /\ Locals /\ Reference /\ OnePast /\ [Next]_vars => OnePast'
<1> SUFFICES ASSUME TypeOK, Locals, Reference, OnePast, [Next]_vars PROVE OnePast'
  OBVIOUS
<1> USE TunnelAssumption DEF TypeOK, Threads, Both, None, Loop, Main, Ops, Frames, DownPcs,
    LoopPcs,
        MainPcs, CallPcs, flagVars, connVars, sessVars, seenVars, callVars, loopVars, Go, vars,
            Locals, Reference, OnePast, Outside, Past, WsMutexFree
<1>1. ASSUME NEW t \in Both, OnDisconnected(t) PROVE OnePast'
  BY <1>1
  DEF OnDisconnected, EmitTest, EmitCall, DownOnce, DownUnready, DownCollect, DownTell,
      DownMark, DownDone
<1>2. ASSUME NEW s \in Sessions, Caller(s) PROVE OnePast'
  BY <1>2
  DEF Caller, OpenReady, OpenRoom, OpenInsert, OpenUndo, SetCallbacks, SendLookup, SendCheck,
      SendFrame, CloseExchange, CloseErase, CloseNotify
<1>3. ASSUME NEW s \in Sessions, Calls(s) PROVE OnePast'
  BY <1>3
  DEF Calls, Push, PushEnd, CloseCall
<1>4. CASE HandleControl
  BY <1>4
  DEF HandleControl, HandleConnected, HandleData, HandleErase, HandleMark, HandleTell
<1>5. CASE RunLoop
  BY <1>1, <1>4, <1>5
  DEF RunLoop, Both, LoopTop, DialFails, DialSucceeds, Publish, Announce, Rearm,
      InstallHandlers, ReadTest, FailConnection, DropRef, AfterConnection, LoopEnd
<1>6. CASE RecvEnd
  BY <1>6 DEF RecvEnd
<1>7. ASSUME NEW s \in Sessions, NEW f \in Frames, Recv(s, f) PROVE OnePast'
  BY <1>7 DEF Recv
<1>8. CASE CloseTunnel
  BY <1>8 DEF CloseTunnel
<1>9. CASE Close
  BY <1>1, <1>9
  DEF Close, Both, TerminateLink, ResetRef, ClearReady, JoinLoop, FinalClear
<1>10. CASE NetDown
  BY <1>10 DEF NetDown
<1>11. CASE UNCHANGED vars
  BY <1>11 DEF vars
<1> QED
  BY <1>1, <1>2, <1>3, <1>4, <1>5, <1>6, <1>7, <1>8, <1>9, <1>10, <1>11 DEF Next, Incoming


LEMMA NextHandled == TypeOK /\ Locals /\ Stopping /\ Offline /\ Handled /\ [Next]_vars => Handled'
<1> SUFFICES ASSUME TypeOK, Locals, Stopping, Offline, Handled, [Next]_vars PROVE Handled'
  OBVIOUS
<1> USE TunnelAssumption DEF TypeOK, Threads, Both, None, Loop, Main, Ops, Frames, DownPcs,
    LoopPcs,
        MainPcs, CallPcs, flagVars, connVars, sessVars, seenVars, callVars, loopVars, Go, vars,
            Locals, Stopping, Offline, Handled, Outside
<1>1. ASSUME NEW t \in Both, OnDisconnected(t) PROVE Handled'
  BY <1>1
  DEF OnDisconnected, EmitTest, EmitCall, DownOnce, DownUnready, DownCollect, DownTell,
      DownMark, DownDone
<1>2. ASSUME NEW s \in Sessions, Caller(s) PROVE Handled'
  BY <1>2
  DEF Caller, OpenReady, OpenRoom, OpenInsert, OpenUndo, SetCallbacks, SendLookup, SendCheck,
      SendFrame, CloseExchange, CloseErase, CloseNotify
<1>3. ASSUME NEW s \in Sessions, Calls(s) PROVE Handled'
  BY <1>3
  DEF Calls, Push, PushEnd, CloseCall
<1>4. CASE HandleControl
  BY <1>4
  DEF HandleControl, HandleConnected, HandleData, HandleErase, HandleMark, HandleTell
<1>5. CASE RunLoop
  BY <1>1, <1>4, <1>5
  DEF RunLoop, Both, LoopTop, DialFails, DialSucceeds, Publish, Announce, Rearm,
      InstallHandlers, ReadTest, FailConnection, DropRef, AfterConnection, LoopEnd
<1>6. CASE RecvEnd
  BY <1>6 DEF RecvEnd
<1>7. ASSUME NEW s \in Sessions, NEW f \in Frames, Recv(s, f) PROVE Handled'
  BY <1>7 DEF Recv
<1>8. CASE CloseTunnel
  BY <1>8 DEF CloseTunnel
<1>9. CASE Close
  BY <1>1, <1>9
  DEF Close, Both, TerminateLink, ResetRef, ClearReady, JoinLoop, FinalClear
<1>10. CASE NetDown
  BY <1>10 DEF NetDown
<1>11. CASE UNCHANGED vars
  BY <1>11 DEF vars
<1> QED
  BY <1>1, <1>2, <1>3, <1>4, <1>5, <1>6, <1>7, <1>8, <1>9, <1>10, <1>11 DEF Next, Incoming


LEMMA NextClosedLeaves == TypeOK /\ Locals /\ Unborn /\ TakenOut /\ ClosedLeavesMap /\ [Next]_vars => ClosedLeavesMap'
<1> SUFFICES ASSUME TypeOK, Locals, Unborn, TakenOut, ClosedLeavesMap,
    [Next]_vars PROVE ClosedLeavesMap'
  OBVIOUS
<1> USE TunnelAssumption DEF TypeOK, Threads, Both, None, Loop, Main, Ops, Frames, DownPcs,
    LoopPcs,
        MainPcs, CallPcs, flagVars, connVars, sessVars, seenVars, callVars, loopVars, Go, vars,
            Locals, Unborn, TakenOut, ClosedLeavesMap
<1>1. ASSUME NEW t \in Both, OnDisconnected(t) PROVE ClosedLeavesMap'
  BY <1>1
  DEF OnDisconnected, EmitTest, EmitCall, DownOnce, DownUnready, DownCollect, DownTell,
      DownMark, DownDone
<1>2. ASSUME NEW s \in Sessions, Caller(s) PROVE ClosedLeavesMap'
  BY <1>2
  DEF Caller, OpenReady, OpenRoom, OpenInsert, OpenUndo, SetCallbacks, SendLookup, SendCheck,
      SendFrame, CloseExchange, CloseErase, CloseNotify
<1>3. ASSUME NEW s \in Sessions, Calls(s) PROVE ClosedLeavesMap'
  BY <1>3
  DEF Calls, Push, PushEnd, CloseCall
<1>4. CASE HandleControl
  BY <1>4
  DEF HandleControl, HandleConnected, HandleData, HandleErase, HandleMark, HandleTell
<1>5. CASE RunLoop
  BY <1>1, <1>4, <1>5
  DEF RunLoop, Both, LoopTop, DialFails, DialSucceeds, Publish, Announce, Rearm,
      InstallHandlers, ReadTest, FailConnection, DropRef, AfterConnection, LoopEnd
<1>6. CASE RecvEnd
  BY <1>6 DEF RecvEnd
<1>7. ASSUME NEW s \in Sessions, NEW f \in Frames, Recv(s, f) PROVE ClosedLeavesMap'
  BY <1>7 DEF Recv
<1>8. CASE CloseTunnel
  BY <1>8 DEF CloseTunnel
<1>9. CASE Close
  BY <1>1, <1>9
  DEF Close, Both, TerminateLink, ResetRef, ClearReady, JoinLoop, FinalClear
<1>10. CASE NetDown
  BY <1>10 DEF NetDown
<1>11. CASE UNCHANGED vars
  BY <1>11 DEF vars
<1> QED
  BY <1>1, <1>2, <1>3, <1>4, <1>5, <1>6, <1>7, <1>8, <1>9, <1>10, <1>11 DEF Next, Incoming


LEMMA NextAccounted == TypeOK /\ Locals /\ Unborn /\ Accounted /\ [Next]_vars => Accounted'
<1> SUFFICES ASSUME TypeOK, Locals, Unborn, Accounted, [Next]_vars PROVE Accounted'
  OBVIOUS
<1> USE TunnelAssumption DEF TypeOK, Threads, Both, None, Loop, Main, Ops, Frames, DownPcs,
    LoopPcs,
        MainPcs, CallPcs, flagVars, connVars, sessVars, seenVars, callVars, loopVars, Go, vars,
            Locals, Unborn, Accounted, Doomed, WhenSent, WhenNoLink, WhenSendFails, CloseReturn
<1>1. ASSUME NEW t \in Both, OnDisconnected(t) PROVE Accounted'
  BY <1>1
  DEF OnDisconnected, EmitTest, EmitCall, DownOnce, DownUnready, DownCollect, DownTell,
      DownMark, DownDone
<1>2. ASSUME NEW s \in Sessions, Caller(s) PROVE Accounted'
  BY <1>2
  DEF Caller, OpenReady, OpenRoom, OpenInsert, OpenUndo, SetCallbacks, SendLookup, SendCheck,
      SendFrame, CloseExchange, CloseErase, CloseNotify
<1>3. ASSUME NEW s \in Sessions, Calls(s) PROVE Accounted'
  BY <1>3
  DEF Calls, Push, PushEnd, CloseCall
<1>4. CASE HandleControl
  BY <1>4
  DEF HandleControl, HandleConnected, HandleData, HandleErase, HandleMark, HandleTell
<1>5. CASE RunLoop
  BY <1>1, <1>4, <1>5
  DEF RunLoop, Both, LoopTop, DialFails, DialSucceeds, Publish, Announce, Rearm,
      InstallHandlers, ReadTest, FailConnection, DropRef, AfterConnection, LoopEnd
<1>6. CASE RecvEnd
  BY <1>6 DEF RecvEnd
<1>7. ASSUME NEW s \in Sessions, NEW f \in Frames, Recv(s, f) PROVE Accounted'
  BY <1>7 DEF Recv
<1>8. CASE CloseTunnel
  BY <1>8 DEF CloseTunnel
<1>9. CASE Close
  BY <1>1, <1>9
  DEF Close, Both, TerminateLink, ResetRef, ClearReady, JoinLoop, FinalClear
<1>10. CASE NetDown
  BY <1>10 DEF NetDown
<1>11. CASE UNCHANGED vars
  BY <1>11 DEF vars
<1> QED
  BY <1>1, <1>2, <1>3, <1>4, <1>5, <1>6, <1>7, <1>8, <1>9, <1>10, <1>11 DEF Next, Incoming


LEMMA NextNoneLeft == TypeOK /\ Locals /\ Stopping /\ Reference /\ Offline /\ Handled /\ NoneLeft /\ [Next]_vars => NoneLeft'
<1> SUFFICES ASSUME TypeOK, Locals, Stopping, Reference, Offline, Handled, NoneLeft,
    [Next]_vars PROVE NoneLeft'
  OBVIOUS
<1> USE TunnelAssumption DEF TypeOK, Threads, Both, None, Loop, Main, Ops, Frames, DownPcs,
    LoopPcs,
        MainPcs, CallPcs, flagVars, connVars, sessVars, seenVars, callVars, loopVars, Go, vars,
            Locals, Stopping, Reference, Offline, Handled, NoneLeft, Outside, InOpen, LinkOf,
            WhenSent, WhenNoLink, WhenSendFails, CloseReturn
<1>1. ASSUME NEW t \in Both, OnDisconnected(t) PROVE NoneLeft'
  BY <1>1
  DEF OnDisconnected, EmitTest, EmitCall, DownOnce, DownUnready, DownCollect, DownTell,
      DownMark, DownDone
<1>2. ASSUME NEW s \in Sessions, Caller(s) PROVE NoneLeft'
  BY <1>2
  DEF Caller, OpenReady, OpenRoom, OpenInsert, OpenUndo, SetCallbacks, SendLookup, SendCheck,
      SendFrame, CloseExchange, CloseErase, CloseNotify
<1>3. ASSUME NEW s \in Sessions, Calls(s) PROVE NoneLeft'
  BY <1>3
  DEF Calls, Push, PushEnd, CloseCall
<1>4. CASE HandleControl
  BY <1>4
  DEF HandleControl, HandleConnected, HandleData, HandleErase, HandleMark, HandleTell
<1>5. CASE RunLoop
  BY <1>1, <1>4, <1>5
  DEF RunLoop, Both, LoopTop, DialFails, DialSucceeds, Publish, Announce, Rearm,
      InstallHandlers, ReadTest, FailConnection, DropRef, AfterConnection, LoopEnd
<1>6. CASE RecvEnd
  BY <1>6 DEF RecvEnd
<1>7. ASSUME NEW s \in Sessions, NEW f \in Frames, Recv(s, f) PROVE NoneLeft'
  BY <1>7 DEF Recv
<1>8. CASE CloseTunnel
  BY <1>8 DEF CloseTunnel
<1>9. CASE Close
  BY <1>1, <1>9
  DEF Close, Both, TerminateLink, ResetRef, ClearReady, JoinLoop, FinalClear
<1>10. CASE NetDown
  BY <1>10 DEF NetDown
<1>11. CASE UNCHANGED vars
  BY <1>11 DEF vars
<1> QED
  BY <1>1, <1>2, <1>3, <1>4, <1>5, <1>6, <1>7, <1>8, <1>9, <1>10, <1>11 DEF Next, Incoming


LEMMA NextCleared == TypeOK /\ Locals /\ Stopping /\ Reference /\ Offline /\ Cleared /\ [Next]_vars => Cleared'
<1> SUFFICES ASSUME TypeOK, Locals, Stopping, Reference, Offline, Cleared,
    [Next]_vars PROVE Cleared'
  OBVIOUS
<1> USE TunnelAssumption DEF TypeOK, Threads, Both, None, Loop, Main, Ops, Frames, DownPcs,
    LoopPcs,
        MainPcs, CallPcs, flagVars, connVars, sessVars, seenVars, callVars, loopVars, Go, vars,
            Locals, Stopping, Reference, Offline, Cleared, Outside, InOpen, LinkOf, WhenSent,
            WhenNoLink, WhenSendFails, CloseReturn
<1>1. ASSUME NEW t \in Both, OnDisconnected(t) PROVE Cleared'
  BY <1>1
  DEF OnDisconnected, EmitTest, EmitCall, DownOnce, DownUnready, DownCollect, DownTell,
      DownMark, DownDone
<1>2. ASSUME NEW s \in Sessions, Caller(s) PROVE Cleared'
  BY <1>2
  DEF Caller, OpenReady, OpenRoom, OpenInsert, OpenUndo, SetCallbacks, SendLookup, SendCheck,
      SendFrame, CloseExchange, CloseErase, CloseNotify
<1>3. ASSUME NEW s \in Sessions, Calls(s) PROVE Cleared'
  BY <1>3
  DEF Calls, Push, PushEnd, CloseCall
<1>4. CASE HandleControl
  BY <1>4
  DEF HandleControl, HandleConnected, HandleData, HandleErase, HandleMark, HandleTell
<1>5. CASE RunLoop
  BY <1>1, <1>4, <1>5
  DEF RunLoop, Both, LoopTop, DialFails, DialSucceeds, Publish, Announce, Rearm,
      InstallHandlers, ReadTest, FailConnection, DropRef, AfterConnection, LoopEnd
<1>6. CASE RecvEnd
  BY <1>6 DEF RecvEnd
<1>7. ASSUME NEW s \in Sessions, NEW f \in Frames, Recv(s, f) PROVE Cleared'
  BY <1>7 DEF Recv
<1>8. CASE CloseTunnel
  BY <1>8 DEF CloseTunnel
<1>9. CASE Close
  BY <1>1, <1>9
  DEF Close, Both, TerminateLink, ResetRef, ClearReady, JoinLoop, FinalClear
<1>10. CASE NetDown
  BY <1>10 DEF NetDown
<1>11. CASE UNCHANGED vars
  BY <1>11 DEF vars
<1> QED
  BY <1>1, <1>2, <1>3, <1>4, <1>5, <1>6, <1>7, <1>8, <1>9, <1>10, <1>11 DEF Next, Incoming

(* The types.                                                              *)
LEMMA NextFlags == FlagTypes /\ Locals /\ OnePast /\ [Next]_vars => FlagTypes'
<1> SUFFICES ASSUME FlagTypes, Locals, OnePast, [Next]_vars PROVE FlagTypes'
  OBVIOUS
<1> USE TunnelAssumption DEF Threads, Both, None, Loop, Main, Ops, Frames, DownPcs, LoopPcs,
        MainPcs, CallPcs, flagVars, connVars, sessVars, seenVars, callVars, loopVars, Go, vars,
            FlagTypes, Locals, OnePast, Past
<1>1. ASSUME NEW t \in Both, OnDisconnected(t) PROVE FlagTypes'
  <2>1. CASE EmitTest(t)
    BY <2>1 DEF EmitTest
  <2>2. CASE EmitCall(t)
    BY <2>2 DEF EmitCall
  <2>3. CASE DownOnce(t)
    BY <2>3 DEF DownOnce
  <2>4. CASE DownUnready(t)
    BY <2>4 DEF DownUnready
  <2>5. CASE DownCollect(t)
    BY <2>5 DEF DownCollect
  <2>6. CASE DownTell(t)
    BY <2>6 DEF DownTell
  <2>7. CASE DownMark(t)
    BY <2>7 DEF DownMark
  <2>8. CASE DownDone(t)
    BY <2>8 DEF DownDone
  <2> QED
    BY <1>1, <2>1, <2>2, <2>3, <2>4, <2>5, <2>6, <2>7, <2>8 DEF OnDisconnected
<1>2. ASSUME NEW s \in Sessions, Caller(s) PROVE FlagTypes'
  BY <1>2
  DEF Caller, OpenReady, OpenRoom, OpenInsert, OpenUndo, SetCallbacks, SendLookup, SendCheck,
      SendFrame, CloseExchange, CloseErase, CloseNotify
<1>3. ASSUME NEW s \in Sessions, Calls(s) PROVE FlagTypes'
  BY <1>3
  DEF Calls, Push, PushEnd, CloseCall
<1>4. CASE HandleControl
  BY <1>4
  DEF HandleControl, HandleConnected, HandleData, HandleErase, HandleMark, HandleTell
<1>5. CASE RunLoop
  <2>1. CASE LoopTop
    BY <2>1 DEF LoopTop
  <2>2. CASE DialFails
    BY <2>2 DEF DialFails
  <2>3. CASE DialSucceeds
    <3>1. downs' = 0 /\ UNCHANGED <<stopped, ready, disconnected, map, callbacks>>
      BY <2>3 DEF DialSucceeds
    <3>2. net' \in BOOLEAN /\ hooked' \in BOOLEAN /\ emitted' \in BOOLEAN
      BY <2>3, Zenon DEF DialSucceeds
    <3>3. link' = "open"
      BY <2>3 DEF DialSucceeds
    <3> QED
      BY <3>1, <3>2, <3>3
  <2>4. CASE Publish
    BY <2>4 DEF Publish
  <2>5. CASE Announce
    BY <2>5 DEF Announce
  <2>6. CASE Rearm
    BY <2>6 DEF Rearm
  <2>7. CASE InstallHandlers
    BY <2>7 DEF InstallHandlers
  <2>8. CASE ReadTest
    BY <2>8 DEF ReadTest
  <2>9. CASE FailConnection
    BY <2>9 DEF FailConnection
  <2>10. CASE DropRef
    BY <2>10 DEF DropRef
  <2>11. CASE AfterConnection
    BY <2>11 DEF AfterConnection
  <2>12. CASE LoopEnd
    BY <2>12 DEF LoopEnd
  <2> QED
    BY <1>1, <1>4, <1>5, <2>1, <2>2, <2>3, <2>4, <2>5, <2>6, <2>7, <2>8, <2>9, <2>10, <2>11,
        <2>12 DEF RunLoop, Both
<1>6. CASE RecvEnd
  BY <1>6 DEF RecvEnd
<1>7. ASSUME NEW s \in Sessions, NEW f \in Frames, Recv(s, f) PROVE FlagTypes'
  BY <1>7 DEF Recv
<1>8. CASE CloseTunnel
  BY <1>8 DEF CloseTunnel
<1>9. CASE Close
  <2>1. CASE TerminateLink
    BY <2>1 DEF TerminateLink
  <2>2. CASE ResetRef
    BY <2>2 DEF ResetRef
  <2>3. CASE ClearReady
    BY <2>3 DEF ClearReady
  <2>4. CASE JoinLoop
    BY <2>4 DEF JoinLoop
  <2>5. CASE FinalClear
    BY <2>5 DEF FinalClear
  <2> QED
    BY <1>1, <1>9, <2>1, <2>2, <2>3, <2>4, <2>5 DEF Close, Both
<1>10. CASE NetDown
  BY <1>10 DEF NetDown
<1>11. CASE UNCHANGED vars
  BY <1>11 DEF vars
<1> QED
  BY <1>1, <1>2, <1>3, <1>4, <1>5, <1>6, <1>7, <1>8, <1>9, <1>10, <1>11 DEF Next, Incoming


LEMMA NextEpochs == EpochTypes /\ [Next]_vars => EpochTypes'
<1> SUFFICES ASSUME EpochTypes, [Next]_vars PROVE EpochTypes'
  OBVIOUS
<1> USE TunnelAssumption DEF Threads, Both, None, Loop, Main, Ops, Frames, DownPcs, LoopPcs,
        MainPcs, CallPcs, flagVars, connVars, sessVars, seenVars, callVars, loopVars, Go, vars,
            EpochTypes
<1>1. ASSUME NEW t \in Both, OnDisconnected(t) PROVE EpochTypes'
  BY <1>1
  DEF OnDisconnected, EmitTest, EmitCall, DownOnce, DownUnready, DownCollect, DownTell,
      DownMark, DownDone
<1>2. ASSUME NEW s \in Sessions, Caller(s) PROVE EpochTypes'
  BY <1>2
  DEF Caller, OpenReady, OpenRoom, OpenInsert, OpenUndo, SetCallbacks, SendLookup, SendCheck,
      SendFrame, CloseExchange, CloseErase, CloseNotify
<1>3. ASSUME NEW s \in Sessions, Calls(s) PROVE EpochTypes'
  BY <1>3
  DEF Calls, Push, PushEnd, CloseCall
<1>4. CASE HandleControl
  BY <1>4
  DEF HandleControl, HandleConnected, HandleData, HandleErase, HandleMark, HandleTell
<1>5. CASE RunLoop
  BY <1>1, <1>4, <1>5
  DEF RunLoop, Both, LoopTop, DialFails, DialSucceeds, Publish, Announce, Rearm,
      InstallHandlers, ReadTest, FailConnection, DropRef, AfterConnection, LoopEnd
<1>6. CASE RecvEnd
  BY <1>6 DEF RecvEnd
<1>7. ASSUME NEW s \in Sessions, NEW f \in Frames, Recv(s, f) PROVE EpochTypes'
  BY <1>7 DEF Recv
<1>8. CASE CloseTunnel
  BY <1>8 DEF CloseTunnel
<1>9. CASE Close
  BY <1>1, <1>9
  DEF Close, Both, TerminateLink, ResetRef, ClearReady, JoinLoop, FinalClear
<1>10. CASE NetDown
  BY <1>10 DEF NetDown
<1>11. CASE UNCHANGED vars
  BY <1>11 DEF vars
<1> QED
  BY <1>1, <1>2, <1>3, <1>4, <1>5, <1>6, <1>7, <1>8, <1>9, <1>10, <1>11 DEF Next, Incoming


LEMMA NextStates == ThreadTypes /\ Locals /\ StateTypes /\ [Next]_vars => StateTypes'
<1> SUFFICES ASSUME ThreadTypes, Locals, StateTypes, [Next]_vars PROVE StateTypes'
  OBVIOUS
<1> USE TunnelAssumption DEF Threads, Both, None, Loop, Main, Ops, Frames, DownPcs, LoopPcs,
        MainPcs, CallPcs, flagVars, connVars, sessVars, seenVars, callVars, loopVars, Go, vars,
            StateTypes, ThreadTypes, Locals
<1>1. ASSUME NEW t \in Both, OnDisconnected(t) PROVE StateTypes'
  <2>1. CASE EmitTest(t)
    BY <2>1 DEF EmitTest
  <2>2. CASE EmitCall(t)
    BY <2>2 DEF EmitCall
  <2>3. CASE DownOnce(t)
    BY <2>3 DEF DownOnce
  <2>4. CASE DownUnready(t)
    BY <2>4 DEF DownUnready
  <2>5. CASE DownCollect(t)
    BY <2>5 DEF DownCollect
  <2>6. CASE DownTell(t)
    BY <2>6 DEF DownTell
  <2>7. CASE DownMark(t)
    BY <2>7 DEF DownMark
  <2>8. CASE DownDone(t)
    BY <2>8 DEF DownDone
  <2> QED
    BY <1>1, <2>1, <2>2, <2>3, <2>4, <2>5, <2>6, <2>7, <2>8 DEF OnDisconnected
<1>2. ASSUME NEW s \in Sessions, Caller(s) PROVE StateTypes'
  BY <1>2
  DEF Caller, OpenReady, OpenRoom, OpenInsert, OpenUndo, SetCallbacks, SendLookup, SendCheck,
      SendFrame, CloseExchange, CloseErase, CloseNotify
<1>3. ASSUME NEW s \in Sessions, Calls(s) PROVE StateTypes'
  BY <1>3
  DEF Calls, Push, PushEnd, CloseCall
<1>4. CASE HandleControl
  <2>1. CASE HandleConnected
    BY <2>1 DEF HandleConnected
  <2>2. CASE HandleData
    BY <2>2 DEF HandleData
  <2>3. CASE HandleErase
    BY <2>3 DEF HandleErase
  <2>4. CASE HandleMark
    BY <2>4 DEF HandleMark
  <2>5. CASE HandleTell
    BY <2>5 DEF HandleTell
  <2> QED
    BY <1>4, <2>1, <2>2, <2>3, <2>4, <2>5 DEF HandleControl
<1>5. CASE RunLoop
  BY <1>1, <1>4, <1>5
  DEF RunLoop, Both, LoopTop, DialFails, DialSucceeds, Publish, Announce, Rearm,
      InstallHandlers, ReadTest, FailConnection, DropRef, AfterConnection, LoopEnd
<1>6. CASE RecvEnd
  BY <1>6 DEF RecvEnd
<1>7. ASSUME NEW s \in Sessions, NEW f \in Frames, Recv(s, f) PROVE StateTypes'
  BY <1>7 DEF Recv
<1>8. CASE CloseTunnel
  BY <1>8 DEF CloseTunnel
<1>9. CASE Close
  BY <1>1, <1>9
  DEF Close, Both, TerminateLink, ResetRef, ClearReady, JoinLoop, FinalClear
<1>10. CASE NetDown
  BY <1>10 DEF NetDown
<1>11. CASE UNCHANGED vars
  BY <1>11 DEF vars
<1> QED
  BY <1>1, <1>2, <1>3, <1>4, <1>5, <1>6, <1>7, <1>8, <1>9, <1>10, <1>11 DEF Next, Incoming


LEMMA NextSeen == ThreadTypes /\ Locals /\ SeenTypes /\ [Next]_vars => SeenTypes'
<1> SUFFICES ASSUME ThreadTypes, Locals, SeenTypes, [Next]_vars PROVE SeenTypes'
  OBVIOUS
<1> USE TunnelAssumption DEF Threads, Both, None, Loop, Main, Ops, Frames, DownPcs, LoopPcs,
        MainPcs, CallPcs, flagVars, connVars, sessVars, seenVars, callVars, loopVars, Go, vars,
            SeenTypes, ThreadTypes, Locals, Tell
<1>1. ASSUME NEW t \in Both, OnDisconnected(t) PROVE SeenTypes'
  BY <1>1
  DEF OnDisconnected, EmitTest, EmitCall, DownOnce, DownUnready, DownCollect, DownTell,
      DownMark, DownDone
<1>2. ASSUME NEW s \in Sessions, Caller(s) PROVE SeenTypes'
  BY <1>2
  DEF Caller, OpenReady, OpenRoom, OpenInsert, OpenUndo, SetCallbacks, SendLookup, SendCheck,
      SendFrame, CloseExchange, CloseErase, CloseNotify
<1>3. ASSUME NEW s \in Sessions, Calls(s) PROVE SeenTypes'
  BY <1>3
  DEF Calls, Push, PushEnd, CloseCall
<1>4. CASE HandleControl
  <2>1. CASE HandleConnected
    BY <2>1 DEF HandleConnected
  <2>2. CASE HandleData
    BY <2>2 DEF HandleData
  <2>3. CASE HandleErase
    BY <2>3 DEF HandleErase
  <2>4. CASE HandleMark
    BY <2>4 DEF HandleMark
  <2>5. CASE HandleTell
    <3>1. {"close"} \cup (said[cur[Loop]] \cap {"error"}) \in SUBSET {"open", "data", "close", "error"}
      OBVIOUS
    <3> QED
      BY <2>5, <3>1 DEF HandleTell
  <2> QED
    BY <1>4, <2>1, <2>2, <2>3, <2>4, <2>5 DEF HandleControl
<1>5. CASE RunLoop
  BY <1>1, <1>4, <1>5
  DEF RunLoop, Both, LoopTop, DialFails, DialSucceeds, Publish, Announce, Rearm,
      InstallHandlers, ReadTest, FailConnection, DropRef, AfterConnection, LoopEnd
<1>6. CASE RecvEnd
  BY <1>6 DEF RecvEnd
<1>7. ASSUME NEW s \in Sessions, NEW f \in Frames, Recv(s, f) PROVE SeenTypes'
  BY <1>7 DEF Recv
<1>8. CASE CloseTunnel
  BY <1>8 DEF CloseTunnel
<1>9. CASE Close
  BY <1>1, <1>9
  DEF Close, Both, TerminateLink, ResetRef, ClearReady, JoinLoop, FinalClear
<1>10. CASE NetDown
  BY <1>10 DEF NetDown
<1>11. CASE UNCHANGED vars
  BY <1>11 DEF vars
<1> QED
  BY <1>1, <1>2, <1>3, <1>4, <1>5, <1>6, <1>7, <1>8, <1>9, <1>10, <1>11 DEF Next, Incoming


LEMMA NextThreads == FlagTypes /\ Locals /\ ThreadTypes /\ [Next]_vars => ThreadTypes'
<1> SUFFICES ASSUME FlagTypes, Locals, ThreadTypes, [Next]_vars PROVE ThreadTypes'
  OBVIOUS
<1> USE TunnelAssumption DEF Threads, Both, None, Loop, Main, Ops, Frames, DownPcs, LoopPcs,
        MainPcs, CallPcs, flagVars, connVars, sessVars, seenVars, callVars, loopVars, Go, vars,
            ThreadTypes, Locals, FlagTypes, WhenSent, WhenNoLink, WhenSendFails, CloseReturn
<1>1. ASSUME NEW t \in Both, OnDisconnected(t) PROVE ThreadTypes'
  BY <1>1
  DEF OnDisconnected, EmitTest, EmitCall, DownOnce, DownUnready, DownCollect, DownTell,
      DownMark, DownDone
<1>2. ASSUME NEW s \in Sessions, Caller(s) PROVE ThreadTypes'
  BY <1>2
  DEF Caller, OpenReady, OpenRoom, OpenInsert, OpenUndo, SetCallbacks, SendLookup, SendCheck,
      SendFrame, CloseExchange, CloseErase, CloseNotify
<1>3. ASSUME NEW s \in Sessions, Calls(s) PROVE ThreadTypes'
  BY <1>3
  DEF Calls, Push, PushEnd, CloseCall
<1>4. CASE HandleControl
  BY <1>4
  DEF HandleControl, HandleConnected, HandleData, HandleErase, HandleMark, HandleTell
<1>5. CASE RunLoop
  BY <1>1, <1>4, <1>5
  DEF RunLoop, Both, LoopTop, DialFails, DialSucceeds, Publish, Announce, Rearm,
      InstallHandlers, ReadTest, FailConnection, DropRef, AfterConnection, LoopEnd
<1>6. CASE RecvEnd
  BY <1>6 DEF RecvEnd
<1>7. ASSUME NEW s \in Sessions, NEW f \in Frames, Recv(s, f) PROVE ThreadTypes'
  BY <1>7 DEF Recv
<1>8. CASE CloseTunnel
  BY <1>8 DEF CloseTunnel
<1>9. CASE Close
  BY <1>1, <1>9
  DEF Close, Both, TerminateLink, ResetRef, ClearReady, JoinLoop, FinalClear
<1>10. CASE NetDown
  BY <1>10 DEF NetDown
<1>11. CASE UNCHANGED vars
  BY <1>11 DEF vars
<1> QED
  BY <1>1, <1>2, <1>3, <1>4, <1>5, <1>6, <1>7, <1>8, <1>9, <1>10, <1>11 DEF Next, Incoming

-----------------------------------------------------------------------------
LEMMA InitInv == Init => Inv
<1> SUFFICES ASSUME Init PROVE Inv
  OBVIOUS
<1> USE TunnelAssumption DEF Init, Threads, Both, None, Loop, Main
<1>1. FlagTypes /\ StateTypes
  <2>1. FlagTypes
    <3>1. stopped \in BOOLEAN /\ ready \in BOOLEAN /\ disconnected \in BOOLEAN
      BY Zenon
    <3>2. net \in BOOLEAN /\ hooked \in BOOLEAN /\ emitted \in BOOLEAN
      BY Zenon
    <3>3. downs \in 0 .. 2 /\ link \in {"open", "closing", "closed"} /\ map = {} /\ callbacks = {}
      OBVIOUS
    <3> QED
      BY <3>1, <3>2, <3>3 DEF FlagTypes
  <2>2. state \in [Sessions -> {"connecting", "open", "closed"}]
    OBVIOUS
  <2>3. isClosed \in [Sessions -> BOOLEAN] /\ upClosed \in [Sessions -> BOOLEAN]
    BY Zenon
  <2> QED
    BY <2>1, <2>2, <2>3 DEF StateTypes
<1>2. EpochTypes /\ SeenTypes
  BY DEF EpochTypes, SeenTypes
<1>3. ThreadTypes
  BY DEF ThreadTypes, LoopPcs, MainPcs, CallPcs, DownPcs, Frames, Ops
<1>4. TypeOK
  BY <1>1, <1>2, <1>3, TypeParts
<1>5. Locals /\ Stopping /\ Offline
  BY DEF Locals, Stopping, Offline, Outside, DownPcs, Frames
<1>6. Reference /\ OnePast /\ Handled
  BY DEF Reference, OnePast, Handled, Outside, DownPcs, Past, WsMutexFree
<1>7. Unborn /\ TakenOut /\ ClosedLeavesMap
  BY DEF Unborn, TakenOut, ClosedLeavesMap
<1>8. Accounted /\ NoneLeft /\ Cleared
  BY DEF Accounted, NoneLeft, Cleared
<1> QED
  BY <1>4, <1>5, <1>6, <1>7, <1>8 DEF Inv

LEMMA NextInv == Inv /\ [Next]_vars => Inv'
<1> SUFFICES ASSUME Inv, [Next]_vars PROVE Inv'
  OBVIOUS
<1> USE DEF Inv
<1>1. Locals' /\ Stopping' /\ Reference' /\ Offline'
  BY NextLocals, NextStopping, NextReference, NextOffline
<1>2. Unborn' /\ TakenOut' /\ ClosedLeavesMap'
  BY NextUnborn, NextTakenOut, NextClosedLeaves
<1>3. Accounted' /\ OnePast' /\ Handled'
  BY NextAccounted, NextOnePast, NextHandled
<1>4. NoneLeft' /\ Cleared'
  BY NextNoneLeft, NextCleared
<1>5. TypeOK'
  <2>1. FlagTypes /\ EpochTypes /\ StateTypes /\ SeenTypes /\ ThreadTypes
    BY TypeParts
  <2>2. FlagTypes' /\ EpochTypes' /\ StateTypes' /\ SeenTypes' /\ ThreadTypes'
    BY <2>1, NextFlags, NextEpochs, NextStates, NextSeen, NextThreads
  <2>3. TypeOK' <=> FlagTypes' /\ EpochTypes' /\ StateTypes' /\ SeenTypes' /\ ThreadTypes'
    BY DEF TypeOK, FlagTypes, EpochTypes, StateTypes, SeenTypes, ThreadTypes, Both
  <2> QED
    BY <2>2, <2>3
<1> QED
  BY <1>1, <1>2, <1>3, <1>4, <1>5

LEMMA InvHolds == Spec => []Inv
<1>1. Init => Inv
  BY InitInv
<1>2. Inv /\ [Next]_vars => Inv'
  BY NextInv
<1> QED
  BY <1>1, <1>2, PTL DEF Spec

-----------------------------------------------------------------------------
(* The fields of the tunnel and the locals of its threads keep their       *)
(* types; ws_ refers to no connection that does not exist.                 *)
THEOREM TypeCorrect == Spec => []TypeOK
<1>1. Inv => TypeOK
  BY DEF Inv
<1> QED
  BY <1>1, InvHolds, PTL

(* A session openSession has handed out is in the map, closed, or being    *)
(* closed by somebody; a closed one is not in the map; and close() leaves  *)
(* nothing (openSession, closeSession, handleControl, onDisconnected and   *)
(* close, interleaved in any way).                                         *)
THEOREM NoSessionEscapes == Spec => []SessionsAccounted
<1>1. Inv => SessionsAccounted
  <2> SUFFICES ASSUME Inv PROVE SessionsAccounted
    OBVIOUS
  <2> USE DEF Inv
  <2>1. NoLostSession
    <3> SUFFICES ASSUME NEW s \in Sessions, ~InOpen(s), ~isClosed[s]
                 PROVE  s \in map \/ BeingClosed(s) \/ pc[Main] = "done"
      BY DEF NoLostSession
    <3>1. s \in map \/ Doomed(s) \/ pc[Main] = "done"
      BY DEF Accounted, InOpen
    <3>2. Doomed(s) => BeingClosed(s)
      BY DEF Doomed, BeingClosed, Both
    <3> QED
      BY <3>1, <3>2
  <2>2. CloseLeavesNothing
    BY DEF CloseLeavesNothing, Stopping, Reference, Outside, Cleared
  <2> QED
    BY <2>1, <2>2 DEF SessionsAccounted
<1> QED
  BY <1>1, InvHolds, PTL

(* disconnected_.exchange lets one thread through for each connection, and *)
(* when runLoop dials again nothing of the old connection is in use.       *)
THEOREM LossesHandledOnce == Spec => []LossHandledOnce
<1>1. Inv => LossHandledOnce
  <2> SUFFICES ASSUME Inv PROVE LossHandledOnce
    OBVIOUS
  <2> USE DEF Inv
  <2>1. CleanBeforeDial
    BY DEF CleanBeforeDial, Reference, Outside, Handled, NoneLeft
  <2>2. DownAtMostOnce
    BY DEF DownAtMostOnce, OnePast
  <2> QED
    BY <2>1, <2>2 DEF LossHandledOnce
<1> QED
  BY <1>1, InvHolds, PTL
=============================================================================
