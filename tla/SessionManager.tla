--------------------------- MODULE SessionManager ---------------------------
(***************************************************************************)
(* The server's SessionManager (src/src/server/session_manager.cpp): all   *)
(* the sessions of one WSS connection, each bound to one target socket.    *)
(*                                                                         *)
(* Three kinds of threads share it:                                        *)
(*   - the reader, which runs WebSocket::runReadLoop and therefore every   *)
(*     handle* method, one after the other, and finally stop();            *)
(*   - the sweeper, started by start(), which closes idle sessions;        *)
(*   - one target thread per connected session, running targetReadLoop.    *)
(* mutex_ protects only the map sessions_ (and workers_): a critical       *)
(* section is one step here, everything between two of them is not.  The   *)
(* one section that sends, the refusal of handleConnect, is held from      *)
(* RecvRefusedConnect to SayRefused.                                       *)
(*                                                                         *)
(* A session is named by its sessionId, and a target thread by its         *)
(* session: the client makes sessionIds unique on a connection             *)
(* (protocol.md:33, WssTunnel::allocId), so that a connect whose id was    *)
(* used by an earlier, finished session does not occur.  A connect with    *)
(* the id of a live session may.                                           *)
(***************************************************************************)
EXTENDS Integers, Sequences, FiniteSets

CONSTANTS Ids,            \* the sessionIds the client uses
          MaxSessions,    \* cfg_.maxSessionsPerConnection
          ReapThreshold,  \* the 64 of handleConnect
          MaxReads,       \* bound: reads that return data, per session
          MaxRefused      \* bound: sessionIds refused without a session

ASSUME ParametersAssumption ==
  /\ Ids \subseteq Nat
  /\ MaxSessions \in Nat
  /\ ReapThreshold \in Nat
  /\ MaxReads \in Nat
  /\ MaxRefused \in Nat

None    == -1
Reader  == -2
Sweeper == -3
Threads == Ids \cup {Reader, Sweeper}

VARIABLES
  ws,              \* state_ of the WebSocket
  net,             \* is the client's end of the connection still there?
  refused,         \* sessionIds an error frame named without making a session
  sent,            \* frames sent to the client about each session, in order
  sessions,        \* sessions_, by its keys
  used,            \* sessionIds for which a Session has been made
  socket,          \* socket_ of each session; "half" after shutdownWrite
  uplinkClosed,    \* uplinkClosed_
  idle,            \* is nowMs() - lastActiveMs_ beyond idleTimeoutMs?
  reads,           \* reads that returned data, per session
  stopped,         \* stopped_
  closed,          \* closed_
  workers,         \* workers_: thread handles not joined yet
  finishedWorkers, \* finishedWorkers_
  crashed,         \* a null socket_ was dereferenced: the process is gone
  pc,              \* where each thread is
  cur,             \* the session a thread is working on
  notify,          \* threads whose closeSession has notifyClient = true
  todo             \* local vector of sessions: idle of sweepIdle, all of destroyAll

wireVars == <<ws, net, refused, sent>>
mapVars  == <<sessions, used>>
dataVars == <<socket, uplinkClosed, idle, reads>>
ctlVars  == <<stopped, closed, workers, finishedWorkers, crashed>>
locVars  == <<cur, notify, todo>>
vars     == <<wireVars, mapVars, dataVars, ctlVars, pc, locVars>>

Frames     == {"connected", "data", "close", "error"}
ReaderPcs  == {"recv", "refuse", "insert", "guard", "refused", "unguard", "dial", "failed",
               "check", "connected", "spawn", "write", "shut", "erase", "test", "release",
               "notice", "fail", "stop", "clear", "drain", "join", "done"}
SweeperPcs == {"wait", "collect", "next", "erase", "test", "release", "notice", "exit"}
TargetPcs  == {"unborn", "loop", "read", "send", "erase", "test", "release",
               "notice", "exit"}

WireType ==
  /\ ws \in {"open", "closing", "closed"}
  /\ net \in BOOLEAN
  /\ refused \subseteq Ids \cup {0}
  /\ sent \in [Ids -> Seq(Frames)]

SessionType ==
  /\ sessions \subseteq used /\ used \subseteq Ids
  /\ socket \in [Ids -> {"none", "open", "half", "closed"}]
  /\ uplinkClosed \in [Ids -> BOOLEAN]
  /\ idle \in [Ids -> BOOLEAN]
  /\ reads \in [Ids -> 0 .. MaxReads]

ControlType ==
  /\ stopped \in BOOLEAN /\ closed \in BOOLEAN /\ crashed \in BOOLEAN
  /\ workers \subseteq Ids \cup {Sweeper}
  /\ finishedWorkers \subseteq Ids \cup {Sweeper}

ThreadType ==
  /\ pc \in [Threads -> ReaderPcs \cup SweeperPcs \cup TargetPcs]
  /\ pc[Reader] \in ReaderPcs /\ pc[Sweeper] \in SweeperPcs
  /\ \A s \in Ids : pc[s] \in TargetPcs
  /\ cur \in [Threads -> Ids \cup {None}]
  /\ notify \subseteq Threads
  /\ todo \in [{Reader, Sweeper} -> SUBSET Ids]

TypeOK == WireType /\ SessionType /\ ControlType /\ ThreadType

-----------------------------------------------------------------------------
(* State functions                                                         *)

HasSocket(s) == socket[s] \in {"open", "half"}

(* mutex_ is not held by a handleConnect that is sending its refusal *)
MutexFree == pc[Reader] # "refuse"

(* sessions come out of the std::map in ascending order *)
FirstOf(S, s) == s \in S /\ \A u \in S : s <= u

Init ==
  /\ ws = "open" /\ net = TRUE
  /\ refused = {} /\ sent = [s \in Ids |-> <<>>]
  /\ sessions = {} /\ used = {}
  /\ socket = [s \in Ids |-> "none"]
  /\ uplinkClosed = [s \in Ids |-> FALSE]
  /\ idle = [s \in Ids |-> FALSE]
  /\ reads = [s \in Ids |-> 0]
  /\ stopped = FALSE /\ closed = FALSE /\ crashed = FALSE
  /\ workers = {Sweeper} /\ finishedWorkers = {}
  /\ pc = [t \in Threads |-> IF t = Reader THEN "recv"
                             ELSE IF t = Sweeper THEN "wait" ELSE "unborn"]
  /\ cur = [t \in Threads |-> IF t \in Ids THEN t ELSE None]
  /\ notify = {}
  /\ todo = [t \in {Reader, Sweeper} |-> {}]

-----------------------------------------------------------------------------
(* Steps shared by several threads                                         *)

Go(t, from, to) == pc[t] = from /\ pc' = [pc EXCEPT ![t] = to]

(* sendJson and sendBinary: nothing leaves unless the WebSocket is open; on *)
(* a dead network the frame is lost.                                        *)
Send(s, frame) ==
  sent' = IF ws = "open" /\ net THEN [sent EXCEPT ![s] = Append(@, frame)] ELSE sent

MayRefuse(id) == id \in refused \/ Cardinality(refused) < MaxRefused

SendError(id) == refused' = IF ws = "open" /\ net THEN refused \cup {id} ELSE refused

(* lastActiveMs_ = nowMs() *)
Touch(s) == idle' = [idle EXCEPT ![s] = FALSE]

(* a member call through a socket_ another thread has reset meanwhile *)
Crash == crashed' = TRUE

(* the call closeSession(session, reason, n) begins *)
CallClose(t, n) == notify' = IF n THEN notify \cup {t} ELSE notify

(* the local variable for the session goes when its function returns *)
Settle(t) == cur' = [cur EXCEPT ![t] = IF pc'[t] \in {"recv", "next"} THEN None ELSE @]

(* mutant: closeSession ends the thread that calls it *)
AfterExit(t) == "exit"

(* where closeSession returns to *)
After(t) == IF t = Reader THEN "recv" ELSE IF t = Sweeper THEN "next" ELSE "exit"

(* mutant: the result of the erase is not looked at *)
CloseEraseUnchecked(t) ==
  /\ Go(t, "erase", "test")
  /\ sessions' = sessions \ {cur[t]}
  /\ UNCHANGED <<wireVars, used, dataVars, ctlVars, locVars>>

(* mutant: the session is closed but its entry stays *)
CloseEraseForgotten(t) ==
  /\ Go(t, "erase", "test")
  /\ UNCHANGED <<wireVars, mapVars, dataVars, ctlVars, locVars>>

(* closeSession, the critical section: whoever finds the id in the map *)
(* removes the entry and goes on; everyone else returns.               *)
CloseErase(t) ==
  /\ pc[t] = "erase" /\ MutexFree
  /\ IF cur[t] \in sessions
     THEN /\ sessions' = sessions \ {cur[t]}
          /\ pc' = [pc EXCEPT ![t] = "test"]
          /\ UNCHANGED notify
     ELSE /\ pc' = [pc EXCEPT ![t] = After(t)]
          /\ notify' = notify \ {t}
          /\ UNCHANGED sessions
  /\ Settle(t)
  /\ UNCHANGED <<wireVars, used, dataVars, ctlVars, todo>>

Noticing(t) == IF t \in notify THEN "notice" ELSE After(t)

(* closeSession: if (session->socket_), outside the mutex *)
CloseTest(t) ==
  /\ Go(t, "test", IF HasSocket(cur[t]) THEN "release" ELSE Noticing(t))
  /\ Settle(t)
  /\ UNCHANGED <<wireVars, mapVars, dataVars, ctlVars, notify, todo>>

(* closeSession: close() and reset() through the pointer just tested *)
CloseRelease(t) ==
  /\ Go(t, "release", Noticing(t))
  /\ IF HasSocket(cur[t])
     THEN socket' = [socket EXCEPT ![cur[t]] = "closed"] /\ UNCHANGED crashed
     ELSE Crash /\ UNCHANGED socket
  /\ Settle(t)
  /\ UNCHANGED <<wireVars, mapVars, uplinkClosed, idle, reads, stopped, closed,
                 workers, finishedWorkers, notify, todo>>

CloseNotice(t) ==
  /\ Go(t, "notice", After(t))
  /\ Send(cur[t], "close")
  /\ notify' = notify \ {t}
  /\ Settle(t)
  /\ UNCHANGED <<ws, net, refused, mapVars, dataVars, ctlVars, todo>>

CloseSession(t) == CloseErase(t) \/ CloseTest(t) \/ CloseRelease(t) \/ CloseNotice(t)

-----------------------------------------------------------------------------
(* The reader: handleConnect                                               *)

(* a connect message with a missing or mistyped field *)
RecvBadConnect ==
  /\ pc[Reader] = "recv" /\ MayRefuse(0)
  /\ SendError(0)
  /\ UNCHANGED <<ws, net, sent, mapVars, dataVars, ctlVars, pc, locVars>>

(* the first critical section refuses a duplicate or one session too many, *)
(* and says so with mutex_ in its hand                                     *)
RecvRefusedConnect(id) ==
  /\ Go(Reader, "recv", "refuse") /\ ~closed
  /\ id \in sessions \/ Cardinality(sessions) >= MaxSessions
  /\ MayRefuse(id)
  /\ cur' = [cur EXCEPT ![Reader] = id]
  /\ UNCHANGED <<wireVars, mapVars, dataVars, ctlVars, notify, todo>>

SayRefused ==
  /\ Go(Reader, "refuse", "recv")
  /\ SendError(cur[Reader])
  /\ Settle(Reader)
  /\ UNCHANGED <<ws, net, sent, mapVars, dataVars, ctlVars, notify, todo>>

(* ... lets the message pass, but its mode is not tcp-over-wss *)
RecvOtherMode(id) ==
  /\ pc[Reader] = "recv" /\ ~closed
  /\ id \notin sessions /\ Cardinality(sessions) < MaxSessions
  /\ MayRefuse(id)
  /\ SendError(id)
  /\ UNCHANGED <<ws, net, sent, mapVars, dataVars, ctlVars, pc, locVars>>

(* mutant: > for >= in the test of the limit *)
RecvConnectOneMore(id) ==
  /\ Go(Reader, "recv", "insert") /\ ~closed
  /\ id \notin used
  /\ Cardinality(sessions) <= MaxSessions
  /\ used' = used \cup {id}
  /\ cur' = [cur EXCEPT ![Reader] = id]
  /\ UNCHANGED <<wireVars, sessions, dataVars, ctlVars, notify, todo>>

(* the first critical section lets the message pass and a Session is made *)
RecvConnect(id) ==
  /\ Go(Reader, "recv", "insert") /\ ~closed
  /\ id \notin used
  /\ Cardinality(sessions) < MaxSessions
  /\ used' = used \cup {id}
  /\ cur' = [cur EXCEPT ![Reader] = id]
  /\ UNCHANGED <<wireVars, sessions, dataVars, ctlVars, notify, todo>>

(* the second critical section *)
Insert ==
  /\ Go(Reader, "insert", "guard")
  /\ sessions' = sessions \cup {cur[Reader]}
  /\ UNCHANGED <<wireVars, used, dataVars, ctlVars, locVars>>

(* guardTarget: resolves the host and checks every address (Ssrf) *)
GuardAccepts ==
  /\ ~closed
  /\ Go(Reader, "guard", "dial")
  /\ UNCHANGED <<wireVars, mapVars, dataVars, ctlVars, locVars>>

GuardRefuses ==
  /\ ~closed
  /\ Go(Reader, "guard", "refused")
  /\ UNCHANGED <<wireVars, mapVars, dataVars, ctlVars, locVars>>

SayGuardError ==
  /\ Go(Reader, "refused", "unguard")
  /\ Send(cur[Reader], "error")
  /\ UNCHANGED <<ws, net, refused, mapVars, dataVars, ctlVars, locVars>>

(* the entry is erased by its id and without closing anything *)
GuardErase ==
  /\ Go(Reader, "unguard", "recv")
  /\ sessions' = sessions \ {cur[Reader]}
  /\ Settle(Reader)
  /\ UNCHANGED <<wireVars, used, dataVars, ctlVars, notify, todo>>

(* connectTo, up to connectTimeoutMs *)
DialFails ==
  /\ Go(Reader, "dial", "failed")
  /\ UNCHANGED <<wireVars, mapVars, dataVars, ctlVars, locVars>>

SayDialError ==
  /\ Go(Reader, "failed", "erase")
  /\ Send(cur[Reader], "error")
  /\ CallClose(Reader, FALSE)
  /\ UNCHANGED <<ws, net, refused, mapVars, dataVars, ctlVars, cur, todo>>

DialSucceeds ==
  /\ Go(Reader, "dial", "check")
  /\ socket' = [socket EXCEPT ![cur[Reader]] = "open"]
  /\ Touch(cur[Reader])
  /\ UNCHANGED <<wireVars, mapVars, uplinkClosed, reads, ctlVars, locVars>>

(* mutant: no third look at the map *)
CheckNothing ==
  /\ Go(Reader, "check", "connected")
  /\ UNCHANGED <<wireVars, mapVars, dataVars, ctlVars, locVars>>

(* mutant: the target thread starts before connected is sent *)
CheckAndSpawn ==
  LET s == cur[Reader] IN
  /\ pc[Reader] = "check" /\ s \in sessions
  /\ pc' = [pc EXCEPT ![Reader] = "connected", ![s] = "loop"]
  /\ UNCHANGED <<wireVars, mapVars, dataVars, ctlVars, locVars>>

(* the third critical section: was the session removed while connecting? *)
CheckRegistered ==
  LET s == cur[Reader] IN
  /\ pc[Reader] = "check"
  /\ IF closed \/ s \notin sessions
     THEN /\ socket' = [socket EXCEPT ![s] = "closed"]
          /\ pc' = [pc EXCEPT ![Reader] = "recv"]
     ELSE /\ pc' = [pc EXCEPT ![Reader] = "connected"]
          /\ UNCHANGED socket
  /\ Settle(Reader)
  /\ UNCHANGED <<wireVars, mapVars, uplinkClosed, idle, reads, ctlVars, notify, todo>>

SayConnected ==
  /\ Go(Reader, "connected", "spawn")
  /\ Send(cur[Reader], "connected")
  /\ UNCHANGED <<ws, net, refused, mapVars, dataVars, ctlVars, locVars>>

(* reapWorkersLocked: keeps every handle that is not in finishedWorkers_ *)
ReapWorkers(W) == IF Cardinality(W) > ReapThreshold THEN W \ finishedWorkers ELSE W

SpawnTargetThread ==
  LET s == cur[Reader] IN
  /\ pc[Reader] = "spawn"
  /\ pc' = [pc EXCEPT ![Reader] = "recv", ![s] = "loop"]
  /\ workers' = ReapWorkers(workers \cup {s})
  /\ Settle(Reader)
  /\ UNCHANGED <<wireVars, mapVars, dataVars, stopped, closed, finishedWorkers,
                 crashed, notify, todo>>

HandleConnect ==
  \/ RecvBadConnect \/ SayRefused
  \/ \E id \in Ids : RecvRefusedConnect(id) \/ RecvOtherMode(id) \/ RecvConnect(id)
  \/ Insert \/ GuardAccepts \/ GuardRefuses \/ SayGuardError \/ GuardErase
  \/ DialFails \/ SayDialError \/ DialSucceeds
  \/ CheckRegistered \/ SayConnected \/ SpawnTargetThread

-----------------------------------------------------------------------------
(* The reader: the other handlers                                          *)

(* handleData, handleHalfClose and handleClose look the id up in one       *)
(* critical section and go on with the session without the mutex           *)
Find(s) == pc[Reader] = "recv" /\ s \in sessions

RecvData(s) ==
  /\ Find(s) /\ ~closed
  /\ HasSocket(s) /\ ~uplinkClosed[s]
  /\ Touch(s)
  /\ cur' = [cur EXCEPT ![Reader] = s]
  /\ Go(Reader, "recv", "write")
  /\ UNCHANGED <<wireVars, mapVars, socket, uplinkClosed, reads, ctlVars, notify, todo>>

(* socket_->writeAll: the target may refuse the bytes, and the session may *)
(* have been closed since the test                                         *)
WriteTarget ==
  /\ pc[Reader] = "write"
  /\ \/ /\ HasSocket(cur[Reader])
        /\ pc' = [pc EXCEPT ![Reader] = "recv"]
        /\ UNCHANGED <<notify, crashed>>
     \/ /\ pc' = [pc EXCEPT ![Reader] = "erase"]
        /\ CallClose(Reader, TRUE)
        /\ UNCHANGED crashed
     \/ /\ ~HasSocket(cur[Reader])
        /\ Crash
        /\ UNCHANGED <<pc, notify>>
  /\ Settle(Reader)
  /\ UNCHANGED <<wireVars, mapVars, dataVars, stopped, closed, workers,
                 finishedWorkers, todo>>

RecvHalfClose(s) ==
  /\ Find(s) /\ ~closed
  /\ uplinkClosed' = [uplinkClosed EXCEPT ![s] = TRUE]
  /\ Touch(s)
  /\ cur' = [cur EXCEPT ![Reader] = IF HasSocket(s) THEN s ELSE None]
  /\ pc' = [pc EXCEPT ![Reader] = IF HasSocket(s) THEN "shut" ELSE "recv"]
  /\ UNCHANGED <<wireVars, mapVars, socket, reads, ctlVars, notify, todo>>

ShutdownTarget ==
  LET s == cur[Reader] IN
  /\ Go(Reader, "shut", "recv")
  /\ \/ /\ socket' = IF HasSocket(s) THEN [socket EXCEPT ![s] = "half"] ELSE socket
        /\ UNCHANGED crashed
     \/ ~HasSocket(s) /\ Crash /\ UNCHANGED socket
  /\ Settle(Reader)
  /\ UNCHANGED <<wireVars, mapVars, uplinkClosed, idle, reads, stopped, closed,
                 workers, finishedWorkers, notify, todo>>

RecvClose(s) ==
  /\ Find(s)
  /\ Go(Reader, "recv", "erase")
  /\ cur' = [cur EXCEPT ![Reader] = s]
  /\ CallClose(Reader, FALSE)
  /\ UNCHANGED <<wireVars, mapVars, dataVars, ctlVars, todo>>

-----------------------------------------------------------------------------
(* The reader: end of the connection                                       *)

(* a close frame: the WebSocket answers and leaves its loop *)
RecvWsClose ==
  /\ Go(Reader, "recv", "fail")
  /\ ws' = "closing"
  /\ UNCHANGED <<net, refused, sent, mapVars, dataVars, ctlVars, locVars>>

(* readFull fails, or a frame is too long *)
RecvEof ==
  /\ Go(Reader, "recv", "fail")
  /\ UNCHANGED <<wireVars, mapVars, dataVars, ctlVars, locVars>>

(* failConnection closes the stream, then emitClose calls onClose *)
FailConnection ==
  /\ Go(Reader, "fail", "stop")
  /\ ws' = "closed"
  /\ UNCHANGED <<net, refused, sent, mapVars, dataVars, ctlVars, locVars>>

Stop ==
  /\ Go(Reader, "stop", "clear")
  /\ stopped' = TRUE
  /\ UNCHANGED <<wireVars, mapVars, dataVars, closed, workers, finishedWorkers,
                 crashed, locVars>>

DestroyClear ==
  /\ Go(Reader, "clear", "drain")
  /\ closed' = TRUE
  /\ todo' = [todo EXCEPT ![Reader] = sessions]
  /\ sessions' = {}
  /\ UNCHANGED <<wireVars, used, dataVars, stopped, workers, finishedWorkers,
                 crashed, cur, notify>>

DestroyOne == \E s \in Ids :
  /\ pc[Reader] = "drain"
  /\ FirstOf(todo[Reader], s)
  /\ todo' = [todo EXCEPT ![Reader] = @ \ {s}]
  /\ socket' = IF HasSocket(s) THEN [socket EXCEPT ![s] = "closed"] ELSE socket
  /\ Send(s, "close")
  /\ UNCHANGED <<ws, net, refused, mapVars, uplinkClosed, idle, reads, ctlVars, pc,
                 cur, notify>>

DestroyDone ==
  /\ Go(Reader, "drain", "join")
  /\ todo[Reader] = {}
  /\ UNCHANGED <<wireVars, mapVars, dataVars, ctlVars, locVars>>

(* mutant: stop() does not wait for the threads *)
JoinNothing ==
  /\ Go(Reader, "join", "done")
  /\ workers' = {}
  /\ UNCHANGED <<wireVars, mapVars, dataVars, stopped, closed, finishedWorkers,
                 crashed, locVars>>

(* the swapped out handles are joined one by one *)
JoinWorkers ==
  /\ Go(Reader, "join", "done")
  /\ \A t \in workers : pc[t] = "exit"
  /\ workers' = {}
  /\ UNCHANGED <<wireVars, mapVars, dataVars, stopped, closed, finishedWorkers,
                 crashed, locVars>>

EndConnection ==
  \/ RecvWsClose \/ RecvEof \/ FailConnection \/ Stop
  \/ DestroyClear \/ DestroyOne \/ DestroyDone \/ JoinWorkers

-----------------------------------------------------------------------------
(* The sweeper: the thread of start() and sweepIdle                        *)

(* mutant: the sweeper does not look at stopped_ *)
SweeperWaitForEver ==
  /\ Go(Sweeper, "wait", "collect")
  /\ UNCHANGED <<wireVars, mapVars, dataVars, ctlVars, locVars>>

SweeperWait ==
  /\ Go(Sweeper, "wait", IF stopped THEN "exit" ELSE "collect")
  /\ UNCHANGED <<wireVars, mapVars, dataVars, ctlVars, locVars>>

SweepCollect ==
  /\ Go(Sweeper, "collect", "next") /\ MutexFree
  /\ todo' = [todo EXCEPT ![Sweeper] = {s \in sessions : idle[s]}]
  /\ UNCHANGED <<wireVars, mapVars, dataVars, ctlVars, cur, notify>>

SweepNext == \E s \in Ids :
  /\ Go(Sweeper, "next", "erase")
  /\ FirstOf(todo[Sweeper], s)
  /\ todo' = [todo EXCEPT ![Sweeper] = @ \ {s}]
  /\ cur' = [cur EXCEPT ![Sweeper] = s]
  /\ CallClose(Sweeper, TRUE)
  /\ UNCHANGED <<wireVars, mapVars, dataVars, ctlVars>>

SweepDone ==
  /\ Go(Sweeper, "next", "wait")
  /\ todo[Sweeper] = {}
  /\ UNCHANGED <<wireVars, mapVars, dataVars, ctlVars, locVars>>

SweeperStep == SweeperWait \/ SweepCollect \/ SweepNext \/ SweepDone \/ CloseSession(Sweeper)

-----------------------------------------------------------------------------
(* A target thread: targetReadLoop                                         *)

TargetLoop(s) ==
  /\ Go(s, "loop", IF stopped \/ ~HasSocket(s) THEN "exit" ELSE "read")
  /\ UNCHANGED <<wireVars, mapVars, dataVars, ctlVars, locVars>>

(* readSome returns 0 *)
TargetEof(s) ==
  /\ Go(s, "read", "erase") /\ HasSocket(s)
  /\ CallClose(s, TRUE)
  /\ UNCHANGED <<wireVars, mapVars, dataVars, ctlVars, cur, todo>>

(* readSome returns -1: nothing within 500 ms, an error, or a closed socket *)
TargetTimeout(s) ==
  /\ Go(s, "read", "loop") /\ ~idle[s]
  /\ UNCHANGED <<wireVars, mapVars, dataVars, ctlVars, locVars>>

TargetIdle(s) ==
  /\ Go(s, "read", "erase") /\ idle[s]
  /\ CallClose(s, TRUE)
  /\ UNCHANGED <<wireVars, mapVars, dataVars, ctlVars, cur, todo>>

(* readSome runs on an object the closing thread has already deleted *)
TargetReadReleased(s) ==
  /\ pc[s] = "read" /\ ~HasSocket(s)
  /\ Crash
  /\ UNCHANGED <<wireVars, mapVars, dataVars, stopped, closed, workers,
                 finishedWorkers, pc, locVars>>

TargetData(s) ==
  /\ Go(s, "read", "send") /\ HasSocket(s)
  /\ reads[s] < MaxReads
  /\ reads' = [reads EXCEPT ![s] = @ + 1]
  /\ Touch(s)
  /\ UNCHANGED <<wireVars, mapVars, socket, uplinkClosed, ctlVars, locVars>>

TargetForward(s) ==
  /\ Go(s, "send", "loop") /\ ws = "open"
  /\ Send(s, "data")
  /\ UNCHANGED <<ws, net, refused, mapVars, dataVars, ctlVars, locVars>>

(* the WebSocket is not open any more, or sendBinary fails *)
TargetForwardFails(s) ==
  /\ Go(s, "send", "erase") /\ (ws # "open" \/ ~net)
  /\ CallClose(s, FALSE)
  /\ UNCHANGED <<wireVars, mapVars, dataVars, ctlVars, cur, todo>>

TargetStep(s) ==
  \/ TargetLoop(s) \/ TargetEof(s) \/ TargetTimeout(s) \/ TargetIdle(s)
  \/ TargetReadReleased(s) \/ TargetData(s) \/ TargetForward(s) \/ TargetForwardFails(s) \/ CloseSession(s)

-----------------------------------------------------------------------------
(* The environment                                                         *)

NetDown ==
  /\ net /\ net' = FALSE
  /\ UNCHANGED <<ws, refused, sent, mapVars, dataVars, ctlVars, pc, locVars>>

(* idleTimeoutMs, which the configuration sets freely, passes *)
Expire(s) ==
  /\ s \in sessions /\ ~idle[s]
  /\ idle' = [idle EXCEPT ![s] = TRUE]
  /\ UNCHANGED <<wireVars, mapVars, socket, uplinkClosed, reads, ctlVars, pc, locVars>>

-----------------------------------------------------------------------------
ReaderStep ==
  \/ HandleConnect \/ CloseSession(Reader) \/ EndConnection
  \/ WriteTarget \/ ShutdownTarget
  \/ \E s \in Ids : RecvData(s) \/ RecvHalfClose(s) \/ RecvClose(s)

Finished == pc[Reader] = "done" \/ crashed

Terminating == Finished /\ UNCHANGED vars

Next ==
  \/ /\ ~crashed
     /\ \/ ReaderStep \/ SweeperStep \/ \E s \in Ids : TargetStep(s)
        \/ NetDown \/ \E s \in Ids : Expire(s)
  \/ Terminating

(* DNS, connect and reads of a target are bounded by timeouts.  A write    *)
(* has none, and no close of a descriptor wakes it: a thread that is about *)
(* to send to the client may stay there while the client neither reads nor *)
(* goes away, and the reader in a write to a target as long as it likes.   *)
SendPcs == {"refuse", "refused", "failed", "connected", "notice", "send"}
Sending(t) == net /\ pc[t] \in SendPcs
Blocked(t) == Sending(t) \/ (t = Reader /\ pc[t] = "write")

(* Nothing obliges the client to send a frame or to close.                 *)
Fairness ==
  /\ WF_vars(~crashed /\ pc[Reader] # "recv" /\ ~Blocked(Reader) /\ ReaderStep)
  /\ WF_vars(~crashed /\ ~Blocked(Sweeper) /\ SweeperStep)
  /\ \A s \in Ids : WF_vars(~crashed /\ ~Blocked(s) /\ TargetStep(s))

Spec == Init /\ [][Next]_vars /\ Fairness

-----------------------------------------------------------------------------
(* Safety                                                                  *)

Says(s, frame) == \E i \in 1 .. Len(sent[s]) : sent[s][i] = frame

(* handleConnect checks maxSessionsPerConnection in one critical section   *)
(* and inserts in another one: the map still never exceeds the limit.      *)
SessionLimit == Cardinality(sessions) <= MaxSessions

(* Who is about to close the socket of s: the thread whose closeSession    *)
(* removed it, destroyAll, or handleConnect before its third look.         *)
Closers(s) == {t \in Threads : pc[t] \in {"test", "release"} /\ cur[t] = s}

Claimed(s) ==
  \/ Closers(s) # {}
  \/ pc[Reader] = "drain" /\ s \in todo[Reader]
  \/ pc[Reader] = "check" /\ cur[Reader] = s

(* A session removed while handleConnect was still connecting, or by two   *)
(* threads at once, never leaves an open target socket behind: an open     *)
(* socket is in the map or some thread is about to close it.               *)
NoOrphanSocket == \A s \in Ids : HasSocket(s) => s \in sessions \/ Claimed(s)

(* The erase under mutex_ elects one thread to close a session's socket,   *)
(* even when the client, the target, the sweeper and stop() all want to.   *)
SoleCloser == \A s \in Ids :
  /\ \A t, u \in Closers(s) : t = u
  /\ Closers(s) # {} => s \notin sessions

(* ... and so the client is told of the end of a session at most once.     *)
OneCloseNotice == \A s \in Ids : \A i, j \in 1 .. Len(sent[s]) :
  sent[s][i] = "close" /\ sent[s][j] = "close" => i = j

(* handleConnect says connected before it starts the target thread, so no  *)
(* data frame can overtake the answer to connect.                          *)
DataAfterConnected == \A s \in Ids : \A i \in 1 .. Len(sent[s]) :
  sent[s][i] = "data" => \E j \in 1 .. i - 1 : sent[s][j] = "connected"

(* When stop() returns nothing of the connection is left: no session, no   *)
(* open target socket, no running thread that could use the manager.       *)
StopReleasesAll == pc[Reader] = "done" =>
  /\ sessions = {} /\ workers = {}
  /\ \A s \in Ids : ~HasSocket(s) /\ pc[s] \in {"unborn", "exit"}
  /\ pc[Sweeper] = "exit"

-----------------------------------------------------------------------------
(* Refinement: a session counts as admitted when it enters the map.        *)

Pending == IF pc[Reader] = "insert" THEN {cur[Reader]} ELSE {}

Contract == INSTANCE SessionContract WITH
  live <- sessions, ever <- used \ Pending, target <- socket, told <- sent

(* Whatever the threads do, the client and the targets observe the         *)
(* life cycle of SessionContract.                                          *)
ImplementsContract == Contract!Spec

-----------------------------------------------------------------------------
(* Liveness                                                                *)

(* stop() joins the sweeper and every target thread, and returns, or it    *)
(* waits for ever for threads that are each inside a send the client does  *)
(* not take: nothing else, no mutex_, no target, no other thread, holds it *)
(* up.                                                                     *)
WaitsForSends ==
  pc[Reader] = "join" /\ \A t \in workers : pc[t] = "exit" \/ Sending(t)

StopTerminates == pc[Reader] = "stop" ~> Finished \/ []WaitsForSends

(* A session that stays idle is closed, by the sweeper or its own thread,  *)
(* unless the sweeper's notice about another session never ends, or mutex_ *)
(* is held by refusals: one that never ends, or one after the other for    *)
(* ever (a mutex promises no turn to who waits).                           *)
IdleReclaimed == \A s \in Ids :
  s \in sessions /\ idle[s] ~>
    s \notin sessions \/ ~idle[s] \/ crashed \/ []Sending(Sweeper) \/ []<>~MutexFree

(* A connect that made a session gets an answer (connected, error, or the  *)
(* close of whoever removed the session meanwhile) while there is a        *)
(* connection to answer on, unless the client never takes that answer.     *)
Answering(s) == \E t \in Threads : Sending(t) /\ cur[t] = s

ConnectAnswered == \A s \in Ids :
  s \in used ~> sent[s] # <<>> \/ ws # "open" \/ ~net \/ crashed \/ []Answering(s)

(* The socket of a session that has left the map is closed in the end,     *)
(* whether anybody reads or not.                                           *)
SocketReleased == \A s \in Ids :
  HasSocket(s) /\ s \notin sessions ~> ~HasSocket(s) \/ crashed

(* Whatever a session has come to, it is brought to its end while the      *)
(* process runs: an idle one is retired, a connect is answered, and the    *)
(* socket of a session that is gone is closed.                             *)
SessionsServed == IdleReclaimed /\ ConnectAnswered /\ SocketReleased

-----------------------------------------------------------------------------
(* What the documents and comments say, and the code does not do           *)

(* session_manager.hpp:82 and 105: reaping removes the handles of ended    *)
(* threads.                                                                *)
ReapRemovesEnded == [][
  pc[Reader] = "spawn" /\ pc'[Reader] = "recv" /\ Cardinality(workers) >= ReapThreshold
    => \A t \in workers' : pc[t] # "exit"]_vars

(* protocol.md:164: what the sweeper closes has been idle for              *)
(* idleTimeoutMs.                                                          *)
SweepsOnlyIdle == [][
  \A s \in Ids : pc[Sweeper] = "erase" /\ cur[Sweeper] = s /\ pc'[Sweeper] = "test"
    => idle[s]]_vars

(* session_manager.cpp:305: once destroyAll has closed the sockets the     *)
(* reading threads leave by themselves.                                    *)
ThreadsLeaveNaturally == pc[Reader] \in {"drain", "join", "done"} => ~crashed

(* protocol.md:148-149: the close of a client is answered by a close.      *)
ClientCloseAnswered == \A s \in Ids :
  pc[Reader] = "erase" /\ cur[Reader] = s /\ s \in sessions /\ pc[s] # "unborn"
    ~> Says(s, "close") \/ ws # "open" \/ ~net \/ crashed

(* protocol.md:88: an error means the session of that id is gone.          *)
ErrorMeansGone == refused \cap sessions = {}

(* protocol.md:40: connected means the target connection is established.   *)
ConnectedMeansOpen == [][
  \A s \in Ids : sent'[s] = Append(sent[s], "connected") => HasSocket(s)]_vars

(* protocol.md:33 and main.cpp:295: sessionId 0 is refused.                *)
ZeroIdRefused == 0 \notin sessions
=============================================================================
