------------------------ MODULE SessionManagerProofs ------------------------
(***************************************************************************)
(* Proofs about SessionManager, for every set of sessionIds and every      *)
(* limit: its types and safety properties, that it implements the          *)
(* SessionContract, and what follows for the limit and for the frames the  *)
(* client sees.                                                            *)
(***************************************************************************)
EXTENDS SessionManager, FiniteSetTheorems, TLAPS

(* A thread that is inside a handler, a sweep or a read loop works on a    *)
(* session that was made; so do the sessions still to be handled.          *)
Busy == {"insert", "guard", "refused", "unguard", "dial", "failed", "check", "connected",
         "spawn", "write", "shut", "erase", "test", "release", "notice"}

WorkOK ==
  /\ \A s \in Ids : cur[s] = s
  /\ \A t \in {Reader, Sweeper} : pc[t] \in Busy => cur[t] \in used
  /\ pc[Reader] = "refuse" => cur[Reader] # None
  /\ \A s \in Ids : pc[s] # "unborn" => s \in used
  /\ \A t \in {Reader, Sweeper} : todo[t] \subseteq used

Typed == TypeOK /\ WorkOK

(* Send appends at most one frame to the frames of one session. *)
LEMMA SendTyped ==
  ASSUME sent \in [Ids -> Seq(Frames)], NEW s \in Ids, NEW f \in Frames, Send(s, f)
  PROVE  sent' \in [Ids -> Seq(Frames)]
<1>1. sent[s] \in Seq(Frames)
  OBVIOUS
<1>2. Append(sent[s], f) \in Seq(Frames)
  BY <1>1
<1>3. QED
  BY <1>2 DEF Send

(* Reaping only takes handles away. *)
LEMMA ReapKeeps ==
  ASSUME NEW W, NEW B, W \subseteq B
  PROVE  ReapWorkers(W) \subseteq B
BY DEF ReapWorkers

(* The initial state is well typed. *)
LEMMA InitTyped == Init => Typed
<1> SUFFICES ASSUME Init PROVE Typed
  OBVIOUS
<1> USE ParametersAssumption DEF Init, Threads, Reader, Sweeper, None
<1>1. sent \in [Ids -> Seq(Frames)]
  BY <<>> \in Seq(Frames)
<1>2. pc \in [Threads -> ReaderPcs \cup SweeperPcs \cup TargetPcs]
  BY DEF ReaderPcs, SweeperPcs, TargetPcs
<1>3. pc[Reader] \in ReaderPcs /\ pc[Sweeper] \in SweeperPcs
      /\ \A s \in Ids : pc[s] \in TargetPcs
  BY DEF ReaderPcs, SweeperPcs, TargetPcs
<1>4. cur \in [Threads -> Ids \cup {None}]
  OBVIOUS
<1>5. WireType
  BY <1>1 DEF WireType
<1>6. SessionType /\ ControlType
  <2>1. reads \in [Ids -> 0 .. MaxReads]
    OBVIOUS
  <2>2. socket \in [Ids -> {"none", "open", "half", "closed"}]
    OBVIOUS
  <2>3. uplinkClosed \in [Ids -> BOOLEAN] /\ idle \in [Ids -> BOOLEAN]
    BY Zenon
  <2>4. ControlType
    BY DEF ControlType
  <2>5. QED
    BY <2>1, <2>2, <2>3, <2>4 DEF SessionType
<1>7. ThreadType
  BY <1>2, <1>3, <1>4 DEF ThreadType
<1>8. WorkOK
  BY DEF WorkOK, Busy
<1>9. QED
  BY <1>5, <1>6, <1>7, <1>8 DEF Typed, TypeOK

(* Every step of every thread preserves the types. *)
LEMMA NextTyped == Typed /\ [Next]_vars => Typed'
<1> SUFFICES ASSUME Typed, [Next]_vars PROVE Typed'
  OBVIOUS
<1> USE ParametersAssumption DEF Typed, TypeOK, WireType, SessionType, ControlType, ThreadType,
        WorkOK, Threads, Reader, Sweeper, None,
        ReaderPcs, SweeperPcs, TargetPcs, Busy, wireVars, mapVars, dataVars, ctlVars, locVars,
        Go, Settle, After, Noticing, SendError, Touch, Crash, CallClose, Find,
        HasSocket, FirstOf, ReapWorkers
<1>1. ASSUME NEW t \in Threads, CloseSession(t) PROVE Typed'
  <2>1. CASE CloseErase(t)
    <3>1. WireType'
      BY <2>1 DEF CloseErase
    <3>2. SessionType'
      BY <2>1 DEF CloseErase
    <3>3. ControlType'
      BY <2>1 DEF CloseErase
    <3>4. ThreadType'
      <4>1. notify' \subseteq Threads /\ UNCHANGED todo
        BY <2>1 DEF CloseErase
      <4>2. pc' \in [Threads -> ReaderPcs \cup SweeperPcs \cup TargetPcs]
        BY <2>1 DEF CloseErase
      <4>3. pc'[Reader] \in ReaderPcs /\ pc'[Sweeper] \in SweeperPcs
        BY <2>1 DEF CloseErase
      <4>4. \A u \in Ids : pc'[u] \in TargetPcs
        BY <2>1 DEF CloseErase
      <4>5. cur' \in [Threads -> Ids \cup {None}]
        BY <2>1 DEF CloseErase
      <4>6. QED
        BY <4>1, <4>2, <4>3, <4>4, <4>5
    <3>5. WorkOK'
      BY <2>1 DEF CloseErase
    <3>6. QED
      BY <3>1, <3>2, <3>3, <3>4, <3>5
  <2>2. CASE CloseTest(t)
    <3>1. WireType'
      BY <2>2 DEF CloseTest
    <3>2. SessionType'
      BY <2>2 DEF CloseTest
    <3>3. ControlType'
      BY <2>2 DEF CloseTest
    <3>4. ThreadType'
      BY <2>2 DEF CloseTest
    <3>5. WorkOK'
      BY <2>2 DEF CloseTest
    <3>6. QED
      BY <3>1, <3>2, <3>3, <3>4, <3>5
  <2>3. CASE CloseRelease(t)
    <3>1. WireType'
      BY <2>3 DEF CloseRelease
    <3>2. SessionType'
      BY <2>3 DEF CloseRelease
    <3>3. ControlType'
      BY <2>3 DEF CloseRelease
    <3>4. ThreadType'
      BY <2>3 DEF CloseRelease
    <3>5. WorkOK'
      BY <2>3 DEF CloseRelease
    <3>6. QED
      BY <3>1, <3>2, <3>3, <3>4, <3>5
  <2>4. CASE CloseNotice(t)
    <3>1. cur[t] \in Ids /\ Send(cur[t], "close")
      BY <2>4 DEF CloseNotice
    <3>2. WireType'
      BY <2>4, <3>1, SendTyped DEF CloseNotice, Frames
    <3>3. SessionType' /\ ControlType'
      BY <2>4 DEF CloseNotice
    <3>4. ThreadType'
      BY <2>4 DEF CloseNotice
    <3>5. WorkOK'
      BY <2>4 DEF CloseNotice
    <3>6. QED
      BY <3>2, <3>3, <3>4, <3>5
  <2>5. QED
    BY <1>1, <2>1, <2>2, <2>3, <2>4 DEF CloseSession
<1>2. CASE HandleConnect
  <2>1. CASE RecvBadConnect
    BY <2>1 DEF RecvBadConnect
  <2>2. ASSUME NEW s \in Ids, RecvRefusedConnect(s) \/ RecvOtherMode(s) PROVE Typed'
    <3>1. CASE RecvRefusedConnect(s)
      <4>1. WireType'
        BY <3>1 DEF RecvRefusedConnect
      <4>2. SessionType' /\ ControlType'
        BY <3>1 DEF RecvRefusedConnect
      <4>3. ThreadType'
        BY <3>1 DEF RecvRefusedConnect
      <4>4. WorkOK'
        BY <3>1 DEF RecvRefusedConnect
      <4>5. QED
        BY <4>1, <4>2, <4>3, <4>4
    <3>2. CASE RecvOtherMode(s)
      BY <3>2 DEF RecvOtherMode
    <3>3. QED
      BY <2>2, <3>1, <3>2
  <2>3. ASSUME NEW s \in Ids, RecvConnect(s) PROVE Typed'
    <3>1. WireType'
      BY <2>3 DEF RecvConnect
    <3>2. SessionType'
      BY <2>3 DEF RecvConnect
    <3>3. ControlType'
      BY <2>3 DEF RecvConnect
    <3>4. ThreadType'
      BY <2>3 DEF RecvConnect
    <3>5. WorkOK'
      BY <2>3 DEF RecvConnect
    <3>6. QED
      BY <3>1, <3>2, <3>3, <3>4, <3>5
  <2>4. CASE Insert
    <3>1. WireType'
      BY <2>4 DEF Insert
    <3>2. SessionType'
      BY <2>4 DEF Insert
    <3>3. ControlType'
      BY <2>4 DEF Insert
    <3>4. ThreadType'
      BY <2>4 DEF Insert
    <3>5. WorkOK'
      BY <2>4 DEF Insert
    <3>6. QED
      BY <3>1, <3>2, <3>3, <3>4, <3>5
  <2>5. CASE GuardAccepts
    BY <2>5 DEF GuardAccepts
  <2>6. CASE SayGuardError
    <3>1. cur[Reader] \in Ids /\ Send(cur[Reader], "error")
      BY <2>6 DEF SayGuardError
    <3>2. WireType'
      BY <2>6, <3>1, SendTyped DEF SayGuardError, Frames
    <3>3. SessionType' /\ ControlType'
      BY <2>6 DEF SayGuardError
    <3>4. ThreadType'
      BY <2>6 DEF SayGuardError
    <3>5. WorkOK'
      BY <2>6 DEF SayGuardError
    <3>6. QED
      BY <3>2, <3>3, <3>4, <3>5
  <2>7. CASE GuardErase
    <3>1. WireType'
      BY <2>7 DEF GuardErase
    <3>2. SessionType'
      BY <2>7 DEF GuardErase
    <3>3. ControlType'
      BY <2>7 DEF GuardErase
    <3>4. ThreadType'
      BY <2>7 DEF GuardErase
    <3>5. WorkOK'
      BY <2>7 DEF GuardErase
    <3>6. QED
      BY <3>1, <3>2, <3>3, <3>4, <3>5
  <2>8. CASE SayDialError
    <3>1. cur[Reader] \in Ids /\ Send(cur[Reader], "error")
      BY <2>8 DEF SayDialError
    <3>2. WireType'
      BY <2>8, <3>1, SendTyped DEF SayDialError, Frames
    <3>3. SessionType' /\ ControlType'
      BY <2>8 DEF SayDialError
    <3>4. ThreadType'
      BY <2>8 DEF SayDialError
    <3>5. WorkOK'
      BY <2>8 DEF SayDialError
    <3>6. QED
      BY <3>2, <3>3, <3>4, <3>5
  <2>9. CASE DialSucceeds
    BY <2>9 DEF DialSucceeds
  <2>10. CASE CheckRegistered
    <3>1. WireType'
      BY <2>10 DEF CheckRegistered
    <3>2. SessionType'
      BY <2>10 DEF CheckRegistered
    <3>3. ControlType'
      BY <2>10 DEF CheckRegistered
    <3>4. ThreadType'
      BY <2>10 DEF CheckRegistered
    <3>5. WorkOK'
      BY <2>10 DEF CheckRegistered
    <3>6. QED
      BY <3>1, <3>2, <3>3, <3>4, <3>5
  <2>11. CASE SayConnected
    <3>1. cur[Reader] \in Ids /\ Send(cur[Reader], "connected")
      BY <2>11 DEF SayConnected
    <3>2. WireType'
      BY <2>11, <3>1, SendTyped DEF SayConnected, Frames
    <3>3. SessionType' /\ ControlType'
      BY <2>11 DEF SayConnected
    <3>4. ThreadType'
      BY <2>11 DEF SayConnected
    <3>5. WorkOK'
      BY <2>11 DEF SayConnected
    <3>6. QED
      BY <3>2, <3>3, <3>4, <3>5
  <2>12. CASE SpawnTargetThread
    <3>1. WireType'
      BY <2>12 DEF SpawnTargetThread
    <3>2. SessionType'
      BY <2>12 DEF SpawnTargetThread
    <3>3. ControlType'
      <4>1. UNCHANGED <<stopped, closed, crashed, finishedWorkers>>
        BY <2>12 DEF SpawnTargetThread
      <4>2. cur[Reader] \in Ids /\ workers' = ReapWorkers(workers \cup {cur[Reader]})
        BY <2>12 DEF SpawnTargetThread
      <4>3. workers \cup {cur[Reader]} \subseteq Ids \cup {Sweeper}
        BY <4>2
      <4>4. workers' \subseteq Ids \cup {Sweeper}
        <5> HIDE DEF ReapWorkers
        <5>1. ReapWorkers(workers \cup {cur[Reader]}) \subseteq Ids \cup {Sweeper}
          BY <4>3, ReapKeeps, Zenon
        <5>2. QED
          BY <4>2, <5>1, Zenon
      <4>5. QED
        BY <4>1, <4>4
    <3>4. ThreadType'
      BY <2>12 DEF SpawnTargetThread
    <3>5. WorkOK'
      BY <2>12 DEF SpawnTargetThread
    <3>6. QED
      BY <3>1, <3>2, <3>3, <3>4, <3>5
  <2>13. CASE SayRefused
    <3>1. WireType'
      BY <2>13 DEF SayRefused
    <3>2. SessionType' /\ ControlType'
      BY <2>13 DEF SayRefused
    <3>3. ThreadType'
      BY <2>13 DEF SayRefused
    <3>4. WorkOK'
      BY <2>13 DEF SayRefused
    <3>5. QED
      BY <3>1, <3>2, <3>3, <3>4
  <2>14. CASE GuardRefuses \/ DialFails
    <3>1. CASE GuardRefuses
      BY <3>1 DEF GuardRefuses
    <3>2. CASE DialFails
      BY <3>2 DEF DialFails
    <3>3. QED
      BY <2>14, <3>1, <3>2
  <2>15. QED
    BY <1>2, <2>1, <2>2, <2>3, <2>4, <2>5, <2>6, <2>7, <2>8, <2>9, <2>10, <2>11, <2>12, <2>13,
       <2>14 DEF HandleConnect
<1>3. CASE EndConnection
  <2>1. CASE RecvWsClose
    BY <2>1 DEF RecvWsClose
  <2>2. CASE RecvEof
    BY <2>2 DEF RecvEof
  <2>3. CASE FailConnection
    BY <2>3 DEF FailConnection
  <2>4. CASE Stop
    BY <2>4 DEF Stop
  <2>5. CASE DestroyClear
    BY <2>5 DEF DestroyClear
  <2>6. CASE DestroyOne
    <3>1. PICK s \in Ids : DestroyOne!(s)
      BY <2>6 DEF DestroyOne
    <3>2. WireType'
      BY <3>1, SendTyped DEF Frames
    <3>3. QED
      BY <3>1, <3>2
  <2>7. CASE DestroyDone
    BY <2>7 DEF DestroyDone
  <2>8. CASE JoinWorkers
    <3>1. WireType'
      BY <2>8 DEF JoinWorkers
    <3>2. SessionType'
      BY <2>8 DEF JoinWorkers
    <3>3. ControlType'
      BY <2>8 DEF JoinWorkers
    <3>4. ThreadType'
      BY <2>8 DEF JoinWorkers
    <3>5. WorkOK'
      BY <2>8 DEF JoinWorkers
    <3>6. QED
      BY <3>1, <3>2, <3>3, <3>4, <3>5
  <2>q. QED
    BY <1>3, <2>1, <2>2, <2>3, <2>4, <2>5, <2>6, <2>7, <2>8 DEF EndConnection
<1>4. CASE WriteTarget
  <2>1. WireType'
    BY <1>4 DEF WriteTarget
  <2>2. SessionType'
    BY <1>4 DEF WriteTarget
  <2>3. ControlType'
    BY <1>4 DEF WriteTarget
  <2>4. ThreadType'
    <3>1. notify' \subseteq Threads /\ UNCHANGED todo
      BY <1>4 DEF WriteTarget
    <3>2. pc' \in [Threads -> ReaderPcs \cup SweeperPcs \cup TargetPcs]
      BY <1>4 DEF WriteTarget
    <3>3. pc'[Reader] \in ReaderPcs /\ pc'[Sweeper] \in SweeperPcs
      BY <1>4 DEF WriteTarget
    <3>4. \A u \in Ids : pc'[u] \in TargetPcs
      BY <1>4 DEF WriteTarget
    <3>5. cur' \in [Threads -> Ids \cup {None}]
      BY <1>4 DEF WriteTarget
    <3>6. QED
      BY <3>1, <3>2, <3>3, <3>4, <3>5
  <2>5. WorkOK'
    BY <1>4 DEF WriteTarget
  <2>6. QED
    BY <2>1, <2>2, <2>3, <2>4, <2>5
<1>5. CASE ShutdownTarget
  <2>1. WireType'
    BY <1>5 DEF ShutdownTarget
  <2>2. SessionType'
    BY <1>5 DEF ShutdownTarget
  <2>3. ControlType'
    BY <1>5 DEF ShutdownTarget
  <2>4. ThreadType'
    BY <1>5 DEF ShutdownTarget
  <2>5. WorkOK'
    BY <1>5 DEF ShutdownTarget
  <2>6. QED
    BY <2>1, <2>2, <2>3, <2>4, <2>5
<1>6. ASSUME NEW s \in Ids, RecvData(s) PROVE Typed'
  BY <1>6 DEF RecvData
<1>7. ASSUME NEW s \in Ids, RecvHalfClose(s) PROVE Typed'
  <2>1. WireType'
    BY <1>7 DEF RecvHalfClose
  <2>2. SessionType'
    BY <1>7 DEF RecvHalfClose
  <2>3. ControlType'
    BY <1>7 DEF RecvHalfClose
  <2>4. ThreadType'
    BY <1>7 DEF RecvHalfClose
  <2>5. WorkOK'
    BY <1>7 DEF RecvHalfClose
  <2>6. QED
    BY <2>1, <2>2, <2>3, <2>4, <2>5
<1>8. ASSUME NEW s \in Ids, RecvClose(s) PROVE Typed'
  <2>1. WireType'
    BY <1>8 DEF RecvClose
  <2>2. SessionType'
    BY <1>8 DEF RecvClose
  <2>3. ControlType'
    BY <1>8 DEF RecvClose
  <2>4. ThreadType'
    BY <1>8 DEF RecvClose
  <2>5. WorkOK'
    BY <1>8 DEF RecvClose
  <2>6. QED
    BY <2>1, <2>2, <2>3, <2>4, <2>5
<1>9. CASE SweeperStep
  <2>1. CASE SweeperWait
    BY <2>1 DEF SweeperWait
  <2>2. CASE SweepCollect
    <3>1. WireType'
      BY <2>2 DEF SweepCollect
    <3>2. SessionType'
      BY <2>2 DEF SweepCollect
    <3>3. ControlType'
      BY <2>2 DEF SweepCollect
    <3>4. ThreadType'
      BY <2>2 DEF SweepCollect
    <3>5. WorkOK'
      BY <2>2 DEF SweepCollect
    <3>6. QED
      BY <3>1, <3>2, <3>3, <3>4, <3>5
  <2>3. CASE SweepNext
    <3>1. WireType'
      BY <2>3 DEF SweepNext
    <3>2. SessionType'
      BY <2>3 DEF SweepNext
    <3>3. ControlType'
      BY <2>3 DEF SweepNext
    <3>4. ThreadType'
      BY <2>3 DEF SweepNext
    <3>5. WorkOK'
      BY <2>3 DEF SweepNext
    <3>6. QED
      BY <3>1, <3>2, <3>3, <3>4, <3>5
  <2>4. CASE SweepDone
    <3>1. WireType'
      BY <2>4 DEF SweepDone
    <3>2. SessionType'
      BY <2>4 DEF SweepDone
    <3>3. ControlType'
      BY <2>4 DEF SweepDone
    <3>4. ThreadType'
      BY <2>4 DEF SweepDone
    <3>5. WorkOK'
      BY <2>4 DEF SweepDone
    <3>6. QED
      BY <3>1, <3>2, <3>3, <3>4, <3>5
  <2>q. QED
    BY <1>9, <1>1, <2>1, <2>2, <2>3, <2>4 DEF SweeperStep
<1>10. ASSUME NEW s \in Ids, TargetStep(s) PROVE Typed'
  <2>1. CASE TargetLoop(s)
    <3>1. WireType'
      BY <2>1 DEF TargetLoop
    <3>2. SessionType'
      BY <2>1 DEF TargetLoop
    <3>3. ControlType'
      BY <2>1 DEF TargetLoop
    <3>4. ThreadType'
      BY <2>1 DEF TargetLoop
    <3>5. WorkOK'
      BY <2>1 DEF TargetLoop
    <3>6. QED
      BY <3>1, <3>2, <3>3, <3>4, <3>5
  <2>2. CASE TargetEof(s)
    <3>1. WireType'
      BY <2>2 DEF TargetEof
    <3>2. SessionType'
      BY <2>2 DEF TargetEof
    <3>3. ControlType'
      BY <2>2 DEF TargetEof
    <3>4. ThreadType'
      BY <2>2 DEF TargetEof
    <3>5. WorkOK'
      BY <2>2 DEF TargetEof
    <3>6. QED
      BY <3>1, <3>2, <3>3, <3>4, <3>5
  <2>3. CASE TargetTimeout(s)
    <3>1. WireType'
      BY <2>3 DEF TargetTimeout
    <3>2. SessionType'
      BY <2>3 DEF TargetTimeout
    <3>3. ControlType'
      BY <2>3 DEF TargetTimeout
    <3>4. ThreadType'
      BY <2>3 DEF TargetTimeout
    <3>5. WorkOK'
      BY <2>3 DEF TargetTimeout
    <3>6. QED
      BY <3>1, <3>2, <3>3, <3>4, <3>5
  <2>4. CASE TargetIdle(s)
    <3>1. WireType'
      BY <2>4 DEF TargetIdle
    <3>2. SessionType'
      BY <2>4 DEF TargetIdle
    <3>3. ControlType'
      BY <2>4 DEF TargetIdle
    <3>4. ThreadType'
      BY <2>4 DEF TargetIdle
    <3>5. WorkOK'
      BY <2>4 DEF TargetIdle
    <3>6. QED
      BY <3>1, <3>2, <3>3, <3>4, <3>5
  <2>5. CASE TargetReadReleased(s)
    <3>1. WireType'
      BY <2>5 DEF TargetReadReleased
    <3>2. SessionType'
      BY <2>5 DEF TargetReadReleased
    <3>3. ControlType'
      BY <2>5 DEF TargetReadReleased
    <3>4. ThreadType'
      BY <2>5 DEF TargetReadReleased
    <3>5. WorkOK'
      BY <2>5 DEF TargetReadReleased
    <3>6. QED
      BY <3>1, <3>2, <3>3, <3>4, <3>5
  <2>6. CASE TargetData(s)
    <3>1. WireType'
      BY <2>6 DEF TargetData
    <3>2. SessionType'
      BY <2>6 DEF TargetData
    <3>3. ControlType'
      BY <2>6 DEF TargetData
    <3>4. ThreadType'
      BY <2>6 DEF TargetData
    <3>5. WorkOK'
      BY <2>6 DEF TargetData
    <3>6. QED
      BY <3>1, <3>2, <3>3, <3>4, <3>5
  <2>7. CASE TargetForward(s)
    <3>1. s \in Ids /\ Send(s, "data")
      BY <2>7 DEF TargetForward
    <3>2. WireType'
      BY <2>7, <3>1, SendTyped DEF TargetForward, Frames
    <3>3. SessionType' /\ ControlType'
      BY <2>7 DEF TargetForward
    <3>4. ThreadType'
      BY <2>7 DEF TargetForward
    <3>5. WorkOK'
      BY <2>7 DEF TargetForward
    <3>6. QED
      BY <3>2, <3>3, <3>4, <3>5
  <2>8. CASE TargetForwardFails(s)
    <3>1. WireType'
      BY <2>8 DEF TargetForwardFails
    <3>2. SessionType'
      BY <2>8 DEF TargetForwardFails
    <3>3. ControlType'
      BY <2>8 DEF TargetForwardFails
    <3>4. ThreadType'
      BY <2>8 DEF TargetForwardFails
    <3>5. WorkOK'
      BY <2>8 DEF TargetForwardFails
    <3>6. QED
      BY <3>1, <3>2, <3>3, <3>4, <3>5
  <2>q. QED
    BY <1>1, <1>10, <2>1, <2>2, <2>3, <2>4, <2>5, <2>6, <2>7, <2>8 DEF TargetStep
<1>11. CASE NetDown
  <2>1. net' \in BOOLEAN /\ UNCHANGED <<ws, refused, sent>>
    BY <1>11 DEF NetDown
  <2>2. UNCHANGED <<mapVars, dataVars, ctlVars, pc, locVars>>
    BY <1>11 DEF NetDown
  <2>3. QED
    BY <2>1, <2>2
<1>12. ASSUME NEW s \in Ids, Expire(s) PROVE Typed'
  <2>1. idle' \in [Ids -> BOOLEAN]
    BY <1>12 DEF Expire
  <2>2. UNCHANGED <<wireVars, mapVars, socket, uplinkClosed, reads, ctlVars, pc, locVars>>
    BY <1>12 DEF Expire
  <2>3. TypeOK'
    <3>1. WireType' /\ ControlType' /\ ThreadType'
      BY <2>2
    <3>2. SessionType'
      BY <2>1, <2>2
    <3>3. QED
      BY <3>1, <3>2
  <2>4. WorkOK'
    BY <2>2
  <2>5. QED
    BY <2>3, <2>4
<1>13. CASE UNCHANGED vars
  BY <1>13 DEF vars
<1>14. QED
  BY <1>1, <1>2, <1>3, <1>4, <1>5, <1>6, <1>7, <1>8, <1>9, <1>10, <1>11, <1>12, <1>13
  DEF Next, ReaderStep, Terminating

-----------------------------------------------------------------------------
(* The inductive invariant.                                                *)

(* a thread that won the erase in closeSession and has not finished *)
Closing == {"test", "release", "notice"}

(* handleConnect before its target thread exists *)
Connecting == {"insert", "guard", "refused", "unguard", "dial", "failed", "check", "connected",
               "spawn"}

Ending == {"drain", "join", "done"}

(* While handleConnect is between its two critical sections nobody else    *)
(* knows the session.                                                      *)
PendingFresh ==
  /\ pc[Reader] \in Connecting => pc[cur[Reader]] = "unborn"
  /\ pc[Reader] = "insert" =>
       /\ cur[Reader] \notin sessions /\ cur[Reader] \notin todo[Sweeper]
       /\ \A t \in {Sweeper} \cup Ids :
            pc[t] \in Closing \cup {"erase"} => cur[t] # cur[Reader]

(* A session being closed has left the map, and one thread closes it.      *)
Exclusive ==
  /\ \A t \in Threads : pc[t] \in Closing => cur[t] \notin sessions
  /\ \A t, u \in Threads :
       pc[t] \in Closing /\ pc[u] \in Closing /\ cur[t] = cur[u] => t = u
  /\ pc[Reader] # "drain" => todo[Reader] = {}
  /\ pc[Reader] \in Ending => sessions = {}
  /\ pc[Reader] = "drain" =>
       \A t \in Threads : pc[t] \in Closing => cur[t] \notin todo[Reader]

(* A session without an answer to its connect has no socket.               *)
NotDialed ==
  /\ \A s \in Ids \ used : socket[s] = "none"
  /\ pc[Reader] \in {"insert", "guard", "refused", "unguard", "dial", "failed"} =>
       socket[cur[Reader]] = "none"

(* Every thread that was started is in workers_ until it is joined.        *)
Joinable ==
  /\ finishedWorkers = {}
  /\ \A s \in Ids : pc[s] \notin {"unborn", "exit"} => s \in workers
  /\ pc[Sweeper] # "exit" => Sweeper \in workers
  /\ pc[Reader] = "done" => workers = {}

(* The inductive invariant.  NoOrphanSocket needs Exclusive (a closer is not *)
(* overtaken) and NotDialed (a fresh session has no socket), these need      *)
(* PendingFresh; StopReleasesAll follows from NoOrphanSocket and Joinable.   *)
Inv == Typed /\ PendingFresh /\ Exclusive /\ NotDialed /\ NoOrphanSocket /\ Joinable

-----------------------------------------------------------------------------
(* Each conjunct is inductive relative to the ones it rests on.            *)

(* No other thread comes to know a session between the critical sections *)
(* of handleConnect, and its target thread is started only at the end.    *)
LEMMA NextPending == Typed /\ PendingFresh /\ [Next]_vars => PendingFresh'
<1> SUFFICES ASSUME Typed /\ PendingFresh, [Next]_vars PROVE PendingFresh'
  OBVIOUS
<1> USE ParametersAssumption DEF Typed, TypeOK, SessionType, ThreadType,
        WorkOK, Threads, Reader, Sweeper, None, ReaderPcs, SweeperPcs, TargetPcs, Busy,
        wireVars, mapVars, dataVars, ctlVars, locVars, Go, Settle, After, Noticing,
        CallClose, Find, HasSocket,
        PendingFresh, Closing, Connecting
<1>1. ASSUME NEW t \in Threads, CloseSession(t) PROVE PendingFresh'
  <2>1. CASE CloseErase(t)
    <3>1. CASE t = Reader
      BY <2>1, <3>1 DEF CloseErase
    <3>2. CASE t # Reader
      <4>1. cur'[Reader] = cur[Reader] /\ pc'[Reader] = pc[Reader]
        BY <2>1, <3>2 DEF CloseErase
      <4>2. PendingFresh!1'
        <5>1. pc[t] = "erase" /\ \A u \in Threads : u # t => pc'[u] = pc[u]
          BY <2>1 DEF CloseErase
        <5>2. pc[Reader] \in Connecting => cur[Reader] \in Threads /\ cur[Reader] # t
          BY <5>1
        <5>3. ASSUME pc'[Reader] \in Connecting PROVE pc'[cur'[Reader]] = "unborn"
          <6>1. pc[Reader] \in Connecting /\ cur[Reader] \in Threads /\ cur[Reader] # t
            BY <4>1, <5>2, <5>3
          <6>2. pc[cur[Reader]] = "unborn" /\ pc'[cur[Reader]] = pc[cur[Reader]]
            BY <5>1, <6>1
          <6>3. QED
            BY <4>1, <6>2
        <5>4. QED
          BY <5>3
      <4>3. PendingFresh!2'
        BY <2>1, <4>1 DEF CloseErase
      <4>4. QED
        BY <4>2, <4>3
    <3>3. QED
      BY <3>1, <3>2
  <2>2. CASE CloseTest(t)
    BY <2>2 DEF CloseTest
  <2>3. CASE CloseRelease(t)
    BY <2>3 DEF CloseRelease
  <2>4. CASE CloseNotice(t)
    BY <2>4 DEF CloseNotice
  <2>5. QED
    BY <1>1, <2>1, <2>2, <2>3, <2>4 DEF CloseSession
<1>2. CASE HandleConnect
  <2>1. CASE RecvBadConnect
    BY <2>1 DEF RecvBadConnect
  <2>2. ASSUME NEW s \in Ids, RecvRefusedConnect(s) \/ RecvOtherMode(s) PROVE PendingFresh'
    BY <2>2 DEF RecvRefusedConnect, RecvOtherMode
  <2>3. ASSUME NEW s \in Ids, RecvConnect(s) PROVE PendingFresh'
    BY <2>3 DEF RecvConnect
  <2>4. CASE Insert
    BY <2>4 DEF Insert
  <2>5. CASE GuardAccepts
    BY <2>5 DEF GuardAccepts
  <2>6. CASE SayGuardError
    BY <2>6 DEF SayGuardError
  <2>7. CASE GuardErase
    BY <2>7 DEF GuardErase
  <2>8. CASE SayDialError
    BY <2>8 DEF SayDialError
  <2>9. CASE DialSucceeds
    BY <2>9 DEF DialSucceeds
  <2>10. CASE CheckRegistered
    <3>1. pc'[Reader] \in {"recv", "connected"} /\ pc[Reader] = "check"
      BY <2>10 DEF CheckRegistered
    <3>2. \A u \in Ids : pc'[u] = pc[u]
      BY <2>10 DEF CheckRegistered
    <3>3. pc'[Reader] = "connected" => cur'[Reader] = cur[Reader]
      BY <2>10 DEF CheckRegistered
    <3>4. cur[Reader] \in Ids
      BY <3>1
    <3>5. QED
      BY <3>1, <3>2, <3>3, <3>4
  <2>11. CASE SayConnected
    BY <2>11 DEF SayConnected
  <2>12. CASE SpawnTargetThread
    BY <2>12 DEF SpawnTargetThread
  <2>13. CASE SayRefused \/ GuardRefuses \/ DialFails
    <3>1. CASE SayRefused
      BY <3>1 DEF SayRefused
    <3>2. CASE GuardRefuses
      BY <3>2 DEF GuardRefuses
    <3>3. CASE DialFails
      BY <3>3 DEF DialFails
    <3>4. QED
      BY <2>13, <3>1, <3>2, <3>3
  <2>14. QED
    BY <1>2, <2>1, <2>2, <2>3, <2>4, <2>5, <2>6, <2>7, <2>8, <2>9, <2>10, <2>11, <2>12, <2>13
    DEF HandleConnect
<1>3. CASE EndConnection
  <2>1. CASE RecvWsClose
    BY <2>1 DEF RecvWsClose
  <2>2. CASE RecvEof
    BY <2>2 DEF RecvEof
  <2>3. CASE FailConnection
    BY <2>3 DEF FailConnection
  <2>4. CASE Stop
    BY <2>4 DEF Stop
  <2>5. CASE DestroyClear
    BY <2>5 DEF DestroyClear
  <2>6. CASE DestroyOne
    BY <2>6 DEF DestroyOne
  <2>7. CASE DestroyDone
    BY <2>7 DEF DestroyDone
  <2>8. CASE JoinWorkers
    BY <2>8 DEF JoinWorkers
  <2>9. QED
    BY <1>3, <2>1, <2>2, <2>3, <2>4, <2>5, <2>6, <2>7, <2>8 DEF EndConnection
<1>4. CASE WriteTarget
  BY <1>4 DEF WriteTarget
<1>5. CASE ShutdownTarget
  BY <1>5 DEF ShutdownTarget
<1>6. ASSUME NEW s \in Ids, RecvData(s) PROVE PendingFresh'
  BY <1>6 DEF RecvData
<1>7. ASSUME NEW s \in Ids, RecvHalfClose(s) PROVE PendingFresh'
  BY <1>7 DEF RecvHalfClose
<1>8. ASSUME NEW s \in Ids, RecvClose(s) PROVE PendingFresh'
  BY <1>8 DEF RecvClose
<1>9. CASE SweeperStep
  <2>1. CASE SweeperWait
    BY <2>1 DEF SweeperWait
  <2>2. CASE SweepCollect
    BY <2>2 DEF SweepCollect
  <2>3. CASE SweepNext
    <3>1. PICK s \in Ids : SweepNext!(s)
      BY <2>3 DEF SweepNext
    <3>2. PendingFresh!1'
      BY <3>1
    <3>3. pc[Reader] = "insert" => s # cur[Reader]
      BY <3>1 DEF FirstOf
    <3>4. PendingFresh!2'
      BY <3>1, <3>3
    <3>5. QED
      BY <3>2, <3>4
  <2>4. CASE SweepDone
    BY <2>4 DEF SweepDone
  <2>5. QED
    BY <1>9, <1>1, <2>1, <2>2, <2>3, <2>4 DEF SweeperStep
<1>10. ASSUME NEW s \in Ids, TargetStep(s) PROVE PendingFresh'
  <2>1. CASE TargetLoop(s)
    BY <2>1 DEF TargetLoop
  <2>2. CASE TargetEof(s)
    BY <2>2 DEF TargetEof
  <2>3. CASE TargetTimeout(s)
    BY <2>3 DEF TargetTimeout
  <2>4. CASE TargetIdle(s)
    BY <2>4 DEF TargetIdle
  <2>5. CASE TargetReadReleased(s)
    BY <2>5 DEF TargetReadReleased
  <2>6. CASE TargetData(s)
    BY <2>6 DEF TargetData
  <2>7. CASE TargetForward(s)
    BY <2>7 DEF TargetForward
  <2>8. CASE TargetForwardFails(s)
    BY <2>8 DEF TargetForwardFails
  <2>9. QED
    BY <1>1, <1>10, <2>1, <2>2, <2>3, <2>4, <2>5, <2>6, <2>7, <2>8 DEF TargetStep
<1>11. CASE NetDown
  BY <1>11 DEF NetDown
<1>12. ASSUME NEW s \in Ids, Expire(s) PROVE PendingFresh'
  BY <1>12 DEF Expire
<1>13. CASE UNCHANGED vars
  BY <1>13 DEF vars
<1>14. QED
  BY <1>1, <1>2, <1>3, <1>4, <1>5, <1>6, <1>7, <1>8, <1>9, <1>10, <1>11, <1>12, <1>13
  DEF Next, ReaderStep, Terminating

(* The erase in closeSession and the clearing of the map in destroyAll     *)
(* keep the sessions that threads are closing apart.                       *)
LEMMA NextExclusive == Typed /\ PendingFresh /\ Exclusive /\ [Next]_vars => Exclusive'
<1> SUFFICES ASSUME Typed /\ PendingFresh /\ Exclusive, [Next]_vars PROVE Exclusive'
  OBVIOUS
<1> USE ParametersAssumption DEF Typed, TypeOK, SessionType, ThreadType,
        WorkOK, Threads, Reader, Sweeper, None, ReaderPcs, SweeperPcs, TargetPcs, Busy,
        wireVars, mapVars, dataVars, ctlVars, locVars, Go, Settle, After, Noticing,
        CallClose, Find, HasSocket,
        PendingFresh, Exclusive, Closing, Ending, FirstOf
<1>1. ASSUME NEW t \in Threads, CloseSession(t) PROVE Exclusive'
  <2>1. CASE CloseErase(t)
    <3>1. Exclusive!1'
      BY <2>1 DEF CloseErase
    <3>2. Exclusive!2'
      BY <2>1 DEF CloseErase
    <3>3. Exclusive!3'
      BY <2>1 DEF CloseErase
    <3>4. CASE t = Reader
      <4>1. pc'[Reader] \notin Ending
        BY <2>1, <3>4 DEF CloseErase
      <4>2. QED
        BY <3>1, <3>2, <3>3, <4>1
    <3>5. CASE t # Reader
      <4>1. pc'[Reader] = pc[Reader] /\ todo' = todo /\ sessions' \subseteq sessions
        BY <2>1, <3>5 DEF CloseErase
      <4>2. Exclusive!4'
        BY <4>1
      <4>3. ASSUME pc'[Reader] = "drain", NEW u \in Threads, pc'[u] \in Closing
            PROVE  cur'[u] \notin todo'[Reader]
        <5>1. sessions = {}
          BY <4>1, <4>3
        <5>2. pc'[t] = After(t)
          BY <2>1, <5>1 DEF CloseErase
        <5>3. u # t /\ pc[u] \in Closing /\ cur'[u] = cur[u]
          BY <2>1, <3>5, <4>3, <5>2 DEF CloseErase
        <5>4. QED
          BY <4>1, <4>3, <5>3
      <4>4. QED
        BY <3>1, <3>2, <3>3, <4>2, <4>3
    <3>6. QED
      BY <3>4, <3>5
  <2>2. CASE CloseTest(t)
    BY <2>2 DEF CloseTest
  <2>3. CASE CloseRelease(t)
    BY <2>3 DEF CloseRelease
  <2>4. CASE CloseNotice(t)
    BY <2>4 DEF CloseNotice
  <2>5. QED
    BY <1>1, <2>1, <2>2, <2>3, <2>4 DEF CloseSession
<1>2. CASE HandleConnect
  <2>1. CASE RecvBadConnect
    BY <2>1 DEF RecvBadConnect
  <2>2. ASSUME NEW s \in Ids, RecvRefusedConnect(s) \/ RecvOtherMode(s) PROVE Exclusive'
    BY <2>2 DEF RecvRefusedConnect, RecvOtherMode
  <2>3. ASSUME NEW s \in Ids, RecvConnect(s) PROVE Exclusive'
    BY <2>3 DEF RecvConnect
  <2>4. CASE Insert
    BY <2>4 DEF Insert
  <2>5. CASE GuardAccepts
    BY <2>5 DEF GuardAccepts
  <2>6. CASE SayGuardError
    BY <2>6 DEF SayGuardError
  <2>7. CASE GuardErase
    BY <2>7 DEF GuardErase
  <2>8. CASE SayDialError
    BY <2>8 DEF SayDialError
  <2>9. CASE DialSucceeds
    BY <2>9 DEF DialSucceeds
  <2>10. CASE CheckRegistered
    BY <2>10 DEF CheckRegistered
  <2>11. CASE SayConnected
    BY <2>11 DEF SayConnected
  <2>12. CASE SpawnTargetThread
    BY <2>12 DEF SpawnTargetThread
  <2>13. CASE SayRefused \/ GuardRefuses \/ DialFails
    BY <2>13 DEF SayRefused, GuardRefuses, DialFails
  <2>14. QED
    BY <1>2, <2>1, <2>2, <2>3, <2>4, <2>5, <2>6, <2>7, <2>8, <2>9, <2>10, <2>11, <2>12, <2>13
    DEF HandleConnect
<1>3. CASE EndConnection
  <2>1. CASE RecvWsClose
    BY <2>1 DEF RecvWsClose
  <2>2. CASE RecvEof
    BY <2>2 DEF RecvEof
  <2>3. CASE FailConnection
    BY <2>3 DEF FailConnection
  <2>4. CASE Stop
    BY <2>4 DEF Stop
  <2>5. CASE DestroyClear
    BY <2>5 DEF DestroyClear
  <2>6. CASE DestroyOne
    BY <2>6 DEF DestroyOne
  <2>7. CASE DestroyDone
    BY <2>7 DEF DestroyDone
  <2>8. CASE JoinWorkers
    BY <2>8 DEF JoinWorkers
  <2>9. QED
    BY <1>3, <2>1, <2>2, <2>3, <2>4, <2>5, <2>6, <2>7, <2>8 DEF EndConnection
<1>4. CASE WriteTarget
  BY <1>4 DEF WriteTarget
<1>5. CASE ShutdownTarget
  BY <1>5 DEF ShutdownTarget
<1>6. ASSUME NEW s \in Ids, RecvData(s) PROVE Exclusive'
  BY <1>6 DEF RecvData
<1>7. ASSUME NEW s \in Ids, RecvHalfClose(s) PROVE Exclusive'
  BY <1>7 DEF RecvHalfClose
<1>8. ASSUME NEW s \in Ids, RecvClose(s) PROVE Exclusive'
  BY <1>8 DEF RecvClose
<1>9. CASE SweeperStep
  <2>1. CASE SweeperWait
    BY <2>1 DEF SweeperWait
  <2>2. CASE SweepCollect
    BY <2>2 DEF SweepCollect
  <2>3. CASE SweepNext
    BY <2>3 DEF SweepNext
  <2>4. CASE SweepDone
    BY <2>4 DEF SweepDone
  <2>5. QED
    BY <1>9, <1>1, <2>1, <2>2, <2>3, <2>4 DEF SweeperStep
<1>10. ASSUME NEW s \in Ids, TargetStep(s) PROVE Exclusive'
  <2>1. CASE TargetLoop(s)
    BY <2>1 DEF TargetLoop
  <2>2. CASE TargetEof(s)
    BY <2>2 DEF TargetEof
  <2>3. CASE TargetTimeout(s)
    BY <2>3 DEF TargetTimeout
  <2>4. CASE TargetIdle(s)
    BY <2>4 DEF TargetIdle
  <2>5. CASE TargetReadReleased(s)
    BY <2>5 DEF TargetReadReleased
  <2>6. CASE TargetData(s)
    BY <2>6 DEF TargetData
  <2>7. CASE TargetForward(s)
    BY <2>7 DEF TargetForward
  <2>8. CASE TargetForwardFails(s)
    BY <2>8 DEF TargetForwardFails
  <2>9. QED
    BY <1>1, <1>10, <2>1, <2>2, <2>3, <2>4, <2>5, <2>6, <2>7, <2>8 DEF TargetStep
<1>11. CASE NetDown
  BY <1>11 DEF NetDown
<1>12. ASSUME NEW s \in Ids, Expire(s) PROVE Exclusive'
  BY <1>12 DEF Expire
<1>13. CASE UNCHANGED vars
  BY <1>13 DEF vars
<1>14. QED
  BY <1>1, <1>2, <1>3, <1>4, <1>5, <1>6, <1>7, <1>8, <1>9, <1>10, <1>11, <1>12, <1>13
  DEF Next, ReaderStep, Terminating

(* Only a successful connectTo gives a session a socket.                  *)
LEMMA NextNotDialed == Typed /\ PendingFresh /\ NotDialed /\ [Next]_vars => NotDialed'
<1> SUFFICES ASSUME Typed /\ PendingFresh /\ NotDialed, [Next]_vars PROVE NotDialed'
  OBVIOUS
<1> USE ParametersAssumption DEF Typed, TypeOK, SessionType, ThreadType,
        WorkOK, Threads, Reader, Sweeper, None, ReaderPcs, SweeperPcs, TargetPcs, Busy,
        wireVars, mapVars, dataVars, ctlVars, locVars, Go, Settle, After, Noticing,
        CallClose, Find, HasSocket,
        PendingFresh, NotDialed, FirstOf
<1>1. ASSUME NEW t \in Threads, CloseSession(t) PROVE NotDialed'
  <2>1. CASE CloseErase(t)
    BY <2>1 DEF CloseErase
  <2>2. CASE CloseTest(t)
    BY <2>2 DEF CloseTest
  <2>3. CASE CloseRelease(t)
    <3>1. cur[t] \in used /\ UNCHANGED used
      BY <2>3 DEF CloseRelease
    <3>2. \A s \in Ids : socket[s] = "none" => socket'[s] = "none"
      BY <2>3, <3>1 DEF CloseRelease
    <3>4. \A s \in Ids \ used' : socket'[s] = "none"
      BY <3>1, <3>2
    <3>5. CASE t = Reader
      <4>1. pc'[Reader] \in {"notice", "recv"}
        BY <2>3, <3>5 DEF CloseRelease
      <4>2. QED
        BY <3>4, <4>1
    <3>6. CASE t # Reader
      <4>1. pc'[Reader] = pc[Reader] /\ cur'[Reader] = cur[Reader]
        BY <2>3, <3>6 DEF CloseRelease
      <4>2. pc[Reader] \in Busy => cur[Reader] \in Ids
        OBVIOUS
      <4>3. ASSUME pc'[Reader] \in {"insert", "guard", "refused", "unguard", "dial", "failed"}
            PROVE  socket'[cur'[Reader]] = "none"
        <5>1. cur[Reader] \in Ids /\ socket[cur[Reader]] = "none"
          BY <4>1, <4>2, <4>3
        <5>2. QED
          BY <3>2, <4>1, <5>1
      <4>4. QED
        BY <3>4, <4>3
    <3>7. QED
      BY <3>5, <3>6
  <2>4. CASE CloseNotice(t)
    BY <2>4 DEF CloseNotice
  <2>5. QED
    BY <1>1, <2>1, <2>2, <2>3, <2>4 DEF CloseSession
<1>2. CASE HandleConnect
  <2>1. CASE RecvBadConnect
    BY <2>1 DEF RecvBadConnect
  <2>2. ASSUME NEW s \in Ids, RecvRefusedConnect(s) \/ RecvOtherMode(s) PROVE NotDialed'
    BY <2>2 DEF RecvRefusedConnect, RecvOtherMode
  <2>3. ASSUME NEW s \in Ids, RecvConnect(s) PROVE NotDialed'
    BY <2>3 DEF RecvConnect
  <2>4. CASE Insert
    BY <2>4 DEF Insert
  <2>5. CASE GuardAccepts
    BY <2>5 DEF GuardAccepts
  <2>6. CASE SayGuardError
    BY <2>6 DEF SayGuardError
  <2>7. CASE GuardErase
    BY <2>7 DEF GuardErase
  <2>8. CASE SayDialError
    BY <2>8 DEF SayDialError
  <2>9. CASE DialSucceeds
    BY <2>9 DEF DialSucceeds
  <2>10. CASE CheckRegistered
    BY <2>10 DEF CheckRegistered
  <2>11. CASE SayConnected
    BY <2>11 DEF SayConnected
  <2>12. CASE SpawnTargetThread
    BY <2>12 DEF SpawnTargetThread
  <2>13. CASE SayRefused \/ GuardRefuses \/ DialFails
    BY <2>13 DEF SayRefused, GuardRefuses, DialFails
  <2>14. QED
    BY <1>2, <2>1, <2>2, <2>3, <2>4, <2>5, <2>6, <2>7, <2>8, <2>9, <2>10, <2>11, <2>12, <2>13
    DEF HandleConnect
<1>3. CASE EndConnection
  <2>1. CASE RecvWsClose
    BY <2>1 DEF RecvWsClose
  <2>2. CASE RecvEof
    BY <2>2 DEF RecvEof
  <2>3. CASE FailConnection
    BY <2>3 DEF FailConnection
  <2>4. CASE Stop
    BY <2>4 DEF Stop
  <2>5. CASE DestroyClear
    BY <2>5 DEF DestroyClear
  <2>6. CASE DestroyOne
    BY <2>6 DEF DestroyOne
  <2>7. CASE DestroyDone
    BY <2>7 DEF DestroyDone
  <2>8. CASE JoinWorkers
    BY <2>8 DEF JoinWorkers
  <2>9. QED
    BY <1>3, <2>1, <2>2, <2>3, <2>4, <2>5, <2>6, <2>7, <2>8 DEF EndConnection
<1>4. CASE WriteTarget
  BY <1>4 DEF WriteTarget
<1>5. CASE ShutdownTarget
  BY <1>5 DEF ShutdownTarget
<1>6. ASSUME NEW s \in Ids, RecvData(s) PROVE NotDialed'
  BY <1>6 DEF RecvData
<1>7. ASSUME NEW s \in Ids, RecvHalfClose(s) PROVE NotDialed'
  BY <1>7 DEF RecvHalfClose
<1>8. ASSUME NEW s \in Ids, RecvClose(s) PROVE NotDialed'
  BY <1>8 DEF RecvClose
<1>9. CASE SweeperStep
  <2>1. CASE SweeperWait
    BY <2>1 DEF SweeperWait
  <2>2. CASE SweepCollect
    BY <2>2 DEF SweepCollect
  <2>3. CASE SweepNext
    BY <2>3 DEF SweepNext
  <2>4. CASE SweepDone
    BY <2>4 DEF SweepDone
  <2>5. QED
    BY <1>9, <1>1, <2>1, <2>2, <2>3, <2>4 DEF SweeperStep
<1>10. ASSUME NEW s \in Ids, TargetStep(s) PROVE NotDialed'
  <2>1. CASE TargetLoop(s)
    BY <2>1 DEF TargetLoop
  <2>2. CASE TargetEof(s)
    BY <2>2 DEF TargetEof
  <2>3. CASE TargetTimeout(s)
    BY <2>3 DEF TargetTimeout
  <2>4. CASE TargetIdle(s)
    BY <2>4 DEF TargetIdle
  <2>5. CASE TargetReadReleased(s)
    BY <2>5 DEF TargetReadReleased
  <2>6. CASE TargetData(s)
    BY <2>6 DEF TargetData
  <2>7. CASE TargetForward(s)
    BY <2>7 DEF TargetForward
  <2>8. CASE TargetForwardFails(s)
    BY <2>8 DEF TargetForwardFails
  <2>9. QED
    BY <1>1, <1>10, <2>1, <2>2, <2>3, <2>4, <2>5, <2>6, <2>7, <2>8 DEF TargetStep
<1>11. CASE NetDown
  BY <1>11 DEF NetDown
<1>12. ASSUME NEW s \in Ids, Expire(s) PROVE NotDialed'
  BY <1>12 DEF Expire
<1>13. CASE UNCHANGED vars
  BY <1>13 DEF vars
<1>14. QED
  BY <1>1, <1>2, <1>3, <1>4, <1>5, <1>6, <1>7, <1>8, <1>9, <1>10, <1>11, <1>12, <1>13
  DEF Next, ReaderStep, Terminating

(* Whoever takes a session out of the map goes on to close its socket, and *)
(* handleConnect looks a third time after connecting.                      *)
LEMMA NextNoOrphan == Typed /\ PendingFresh /\ Exclusive /\ NotDialed /\ NoOrphanSocket /\ [Next]_vars => NoOrphanSocket'
<1> SUFFICES ASSUME Typed /\ PendingFresh /\ Exclusive /\ NotDialed /\ NoOrphanSocket, [Next]_vars PROVE NoOrphanSocket'
  OBVIOUS
<1> USE ParametersAssumption DEF Typed, TypeOK, SessionType, ThreadType,
        WorkOK, Threads, Reader, Sweeper, None, ReaderPcs, SweeperPcs, TargetPcs, Busy,
        wireVars, mapVars, dataVars, ctlVars, locVars, Go, Settle, After, Noticing,
        CallClose, Find, HasSocket,
        Exclusive, NotDialed, NoOrphanSocket, Claimed, Closers, Closing, Ending, FirstOf
<1>1. ASSUME NEW t \in Threads, CloseSession(t) PROVE NoOrphanSocket'
  <2>1. CASE CloseErase(t)
    <3> SUFFICES ASSUME NEW s \in Ids, HasSocket(s)' PROVE (s \in sessions \/ Claimed(s))'
      BY DEF NoOrphanSocket
    <3>1. HasSocket(s) /\ (s \in sessions \/ Claimed(s))
      BY <2>1 DEF CloseErase, NoOrphanSocket
    <3>2. CASE s \in sessions
      <4>1. CASE s = cur[t]
        <5>1. pc'[t] = "test" /\ cur'[t] = s
          BY <2>1, <3>2, <4>1 DEF CloseErase
        <5>2. QED
          BY <5>1 DEF Claimed, Closers
      <4>2. CASE s # cur[t]
        BY <2>1, <3>2, <4>2 DEF CloseErase
      <4>3. QED
        BY <4>1, <4>2
    <3>3. CASE Closers(s) # {}
      <4>1. PICK u \in Closers(s) : TRUE
        BY <3>3
      <4>2. u # t /\ pc'[u] = pc[u] /\ cur'[u] = cur[u]
        BY <2>1, <4>1 DEF CloseErase, Closers
      <4>3. QED
        BY <4>1, <4>2 DEF Claimed, Closers
    <3>4. CASE (pc[Reader] = "drain" /\ s \in todo[Reader]) \/ (pc[Reader] = "check" /\ cur[Reader] = s)
      <4>1. t # Reader
        BY <2>1, <3>4 DEF CloseErase
      <4>2. pc'[Reader] = pc[Reader] /\ cur'[Reader] = cur[Reader] /\ todo' = todo
        BY <2>1, <4>1 DEF CloseErase
      <4>3. QED
        BY <3>4, <4>2 DEF Claimed
    <3>5. QED
      BY <3>1, <3>2, <3>3, <3>4 DEF Claimed
  <2>2. CASE CloseTest(t)
    BY <2>2 DEF CloseTest
  <2>3. CASE CloseRelease(t)
    BY <2>3 DEF CloseRelease
  <2>4. CASE CloseNotice(t)
    BY <2>4 DEF CloseNotice
  <2>5. QED
    BY <1>1, <2>1, <2>2, <2>3, <2>4 DEF CloseSession
<1>2. CASE HandleConnect
  <2>1. CASE RecvBadConnect
    BY <2>1 DEF RecvBadConnect
  <2>2. ASSUME NEW s \in Ids, RecvRefusedConnect(s) \/ RecvOtherMode(s) PROVE NoOrphanSocket'
    <3>1. CASE RecvRefusedConnect(s)
      BY <3>1 DEF RecvRefusedConnect
    <3>2. CASE RecvOtherMode(s)
      BY <3>2 DEF RecvOtherMode
    <3>3. QED
      BY <2>2, <3>1, <3>2
  <2>3. ASSUME NEW s \in Ids, RecvConnect(s) PROVE NoOrphanSocket'
    BY <2>3 DEF RecvConnect
  <2>4. CASE Insert
    BY <2>4 DEF Insert
  <2>5. CASE GuardAccepts
    BY <2>5 DEF GuardAccepts
  <2>6. CASE SayGuardError
    BY <2>6 DEF SayGuardError
  <2>7. CASE GuardErase
    BY <2>7 DEF GuardErase
  <2>8. CASE SayDialError
    BY <2>8 DEF SayDialError
  <2>9. CASE DialSucceeds
    BY <2>9 DEF DialSucceeds
  <2>10. CASE CheckRegistered
    <3> SUFFICES ASSUME NEW s \in Ids, HasSocket(s)' PROVE (s \in sessions \/ Claimed(s))'
      BY DEF NoOrphanSocket
    <3>1. HasSocket(s) /\ sessions' = sessions
      BY <2>10 DEF CheckRegistered
    <3>2. s \in sessions \/ Claimed(s)
      BY <3>1 DEF NoOrphanSocket
    <3>3. CASE s \in sessions
      BY <3>1, <3>3
    <3>4. CASE Closers(s) # {}
      <4>1. PICK u \in Closers(s) : TRUE
        BY <3>4
      <4>2. pc'[u] = pc[u] /\ cur'[u] = cur[u]
        BY <2>10, <4>1 DEF CheckRegistered, Closers
      <4>3. QED
        BY <4>1, <4>2 DEF Claimed, Closers
    <3>5. CASE (pc[Reader] = "drain" /\ s \in todo[Reader]) \/ (pc[Reader] = "check" /\ cur[Reader] = s)
      BY <2>10, <3>1, <3>5 DEF CheckRegistered, Claimed
    <3>6. QED
      BY <3>2, <3>3, <3>4, <3>5 DEF Claimed
  <2>11. CASE SayConnected
    BY <2>11 DEF SayConnected
  <2>12. CASE SpawnTargetThread
    <3> SUFFICES ASSUME NEW s \in Ids, HasSocket(s)' PROVE (s \in sessions \/ Claimed(s))'
      BY DEF NoOrphanSocket
    <3>1. HasSocket(s) /\ sessions' = sessions
      BY <2>12 DEF SpawnTargetThread
    <3>2. s \in sessions \/ Claimed(s)
      BY <3>1 DEF NoOrphanSocket
    <3>3. CASE s \in sessions
      BY <3>1, <3>3
    <3>4. CASE Closers(s) # {}
      <4>1. PICK u \in Closers(s) : TRUE
        BY <3>4
      <4>2. pc'[u] = pc[u] /\ cur'[u] = cur[u]
        BY <2>12, <4>1 DEF SpawnTargetThread, Closers, PendingFresh, Connecting
      <4>3. QED
        BY <4>1, <4>2 DEF Claimed, Closers
    <3>5. CASE (pc[Reader] = "drain" /\ s \in todo[Reader]) \/ (pc[Reader] = "check" /\ cur[Reader] = s)
      BY <2>12, <3>1, <3>5 DEF SpawnTargetThread, Claimed
    <3>6. QED
      BY <3>2, <3>3, <3>4, <3>5 DEF Claimed
  <2>13. CASE SayRefused \/ GuardRefuses \/ DialFails
    <3>1. CASE SayRefused
      BY <3>1 DEF SayRefused
    <3>2. CASE GuardRefuses
      BY <3>2 DEF GuardRefuses
    <3>3. CASE DialFails
      BY <3>3 DEF DialFails
    <3>4. QED
      BY <2>13, <3>1, <3>2, <3>3
  <2>14. QED
    BY <1>2, <2>1, <2>2, <2>3, <2>4, <2>5, <2>6, <2>7, <2>8, <2>9, <2>10, <2>11, <2>12, <2>13
    DEF HandleConnect
<1>3. CASE EndConnection
  <2>1. CASE RecvWsClose
    BY <2>1 DEF RecvWsClose
  <2>2. CASE RecvEof
    BY <2>2 DEF RecvEof
  <2>3. CASE FailConnection
    BY <2>3 DEF FailConnection
  <2>4. CASE Stop
    BY <2>4 DEF Stop
  <2>5. CASE DestroyClear
    BY <2>5 DEF DestroyClear
  <2>6. CASE DestroyOne
    <3> SUFFICES ASSUME NEW s \in Ids, HasSocket(s)' PROVE (s \in sessions \/ Claimed(s))'
      BY DEF NoOrphanSocket
    <3>1. HasSocket(s) /\ sessions' = sessions
      BY <2>6 DEF DestroyOne
    <3>2. s \in sessions \/ Claimed(s)
      BY <3>1 DEF NoOrphanSocket
    <3>3. CASE s \in sessions
      BY <3>1, <3>3
    <3>4. CASE Closers(s) # {}
      <4>1. PICK u \in Closers(s) : TRUE
        BY <3>4
      <4>2. pc'[u] = pc[u] /\ cur'[u] = cur[u]
        BY <2>6, <4>1 DEF DestroyOne, Closers
      <4>3. QED
        BY <4>1, <4>2 DEF Claimed, Closers
    <3>5. CASE (pc[Reader] = "drain" /\ s \in todo[Reader]) \/ (pc[Reader] = "check" /\ cur[Reader] = s)
      BY <2>6, <3>1, <3>5 DEF DestroyOne, Claimed
    <3>6. QED
      BY <3>2, <3>3, <3>4, <3>5 DEF Claimed
  <2>7. CASE DestroyDone
    BY <2>7 DEF DestroyDone
  <2>8. CASE JoinWorkers
    BY <2>8 DEF JoinWorkers
  <2>9. QED
    BY <1>3, <2>1, <2>2, <2>3, <2>4, <2>5, <2>6, <2>7, <2>8 DEF EndConnection
<1>4. CASE WriteTarget
  <2> SUFFICES ASSUME NEW s \in Ids, HasSocket(s)' PROVE (s \in sessions \/ Claimed(s))'
    BY DEF NoOrphanSocket
  <2>1. HasSocket(s) /\ sessions' = sessions
    BY <1>4 DEF WriteTarget
  <2>2. s \in sessions \/ Claimed(s)
    BY <2>1 DEF NoOrphanSocket
  <2>3. CASE s \in sessions
    BY <2>1, <2>3
  <2>4. CASE Closers(s) # {}
    <3>1. PICK u \in Closers(s) : TRUE
      BY <2>4
    <3>2. pc'[u] = pc[u] /\ cur'[u] = cur[u]
      BY <1>4, <3>1 DEF WriteTarget, Closers
    <3>3. QED
      BY <3>1, <3>2 DEF Claimed, Closers
  <2>5. CASE (pc[Reader] = "drain" /\ s \in todo[Reader]) \/ (pc[Reader] = "check" /\ cur[Reader] = s)
    BY <1>4, <2>1, <2>5 DEF WriteTarget, Claimed
  <2>6. QED
    BY <2>2, <2>3, <2>4, <2>5 DEF Claimed
<1>5. CASE ShutdownTarget
  BY <1>5 DEF ShutdownTarget
<1>6. ASSUME NEW s \in Ids, RecvData(s) PROVE NoOrphanSocket'
  BY <1>6 DEF RecvData
<1>7. ASSUME NEW s \in Ids, RecvHalfClose(s) PROVE NoOrphanSocket'
  BY <1>7 DEF RecvHalfClose
<1>8. ASSUME NEW s \in Ids, RecvClose(s) PROVE NoOrphanSocket'
  BY <1>8 DEF RecvClose
<1>9. CASE SweeperStep
  <2>1. CASE SweeperWait
    BY <2>1 DEF SweeperWait
  <2>2. CASE SweepCollect
    BY <2>2 DEF SweepCollect
  <2>3. CASE SweepNext
    <3> SUFFICES ASSUME NEW s \in Ids, HasSocket(s)' PROVE (s \in sessions \/ Claimed(s))'
      BY DEF NoOrphanSocket
    <3>1. HasSocket(s) /\ sessions' = sessions
      BY <2>3 DEF SweepNext
    <3>2. s \in sessions \/ Claimed(s)
      BY <3>1 DEF NoOrphanSocket
    <3>3. CASE s \in sessions
      BY <3>1, <3>3
    <3>4. CASE Closers(s) # {}
      <4>1. PICK u \in Closers(s) : TRUE
        BY <3>4
      <4>2. pc'[u] = pc[u] /\ cur'[u] = cur[u]
        BY <2>3, <4>1 DEF SweepNext, Closers
      <4>3. QED
        BY <4>1, <4>2 DEF Claimed, Closers
    <3>5. CASE (pc[Reader] = "drain" /\ s \in todo[Reader]) \/ (pc[Reader] = "check" /\ cur[Reader] = s)
      BY <2>3, <3>1, <3>5 DEF SweepNext, Claimed
    <3>6. QED
      BY <3>2, <3>3, <3>4, <3>5 DEF Claimed
  <2>4. CASE SweepDone
    BY <2>4 DEF SweepDone
  <2>5. QED
    BY <1>9, <1>1, <2>1, <2>2, <2>3, <2>4 DEF SweeperStep
<1>10. ASSUME NEW s \in Ids, TargetStep(s) PROVE NoOrphanSocket'
  <2>1. CASE TargetLoop(s)
    BY <2>1 DEF TargetLoop
  <2>2. CASE TargetEof(s)
    BY <2>2 DEF TargetEof
  <2>3. CASE TargetTimeout(s)
    BY <2>3 DEF TargetTimeout
  <2>4. CASE TargetIdle(s)
    BY <2>4 DEF TargetIdle
  <2>5. CASE TargetReadReleased(s)
    BY <2>5 DEF TargetReadReleased
  <2>6. CASE TargetData(s)
    BY <2>6 DEF TargetData
  <2>7. CASE TargetForward(s)
    BY <2>7 DEF TargetForward
  <2>8. CASE TargetForwardFails(s)
    BY <2>8 DEF TargetForwardFails
  <2>9. QED
    BY <1>1, <1>10, <2>1, <2>2, <2>3, <2>4, <2>5, <2>6, <2>7, <2>8 DEF TargetStep
<1>11. CASE NetDown
  BY <1>11 DEF NetDown
<1>12. ASSUME NEW s \in Ids, Expire(s) PROVE NoOrphanSocket'
  BY <1>12 DEF Expire
<1>13. CASE UNCHANGED vars
  BY <1>13 DEF vars
<1>14. QED
  BY <1>1, <1>2, <1>3, <1>4, <1>5, <1>6, <1>7, <1>8, <1>9, <1>10, <1>11, <1>12, <1>13
  DEF Next, ReaderStep, Terminating

(* Since nothing fills finishedWorkers_, reapWorkersLocked drops no handle *)
(* and stop() joins every thread.                                          *)
LEMMA NextJoinable == Typed /\ PendingFresh /\ Joinable /\ [Next]_vars => Joinable'
<1> SUFFICES ASSUME Typed /\ PendingFresh /\ Joinable, [Next]_vars PROVE Joinable'
  OBVIOUS
<1> USE ParametersAssumption DEF Typed, TypeOK, SessionType, ThreadType,
        WorkOK, Threads, Reader, Sweeper, None, ReaderPcs, SweeperPcs, TargetPcs, Busy,
        wireVars, mapVars, dataVars, ctlVars, locVars, Go, Settle, After, Noticing,
        CallClose, Find, HasSocket,
        PendingFresh, Connecting, Joinable, ReapWorkers
<1>1. ASSUME NEW t \in Threads, CloseSession(t) PROVE Joinable'
  <2>1. CASE CloseErase(t)
    BY <2>1 DEF CloseErase
  <2>2. CASE CloseTest(t)
    BY <2>2 DEF CloseTest
  <2>3. CASE CloseRelease(t)
    BY <2>3 DEF CloseRelease
  <2>4. CASE CloseNotice(t)
    BY <2>4 DEF CloseNotice
  <2>5. QED
    BY <1>1, <2>1, <2>2, <2>3, <2>4 DEF CloseSession
<1>2. CASE HandleConnect
  <2>1. CASE RecvBadConnect
    BY <2>1 DEF RecvBadConnect
  <2>2. ASSUME NEW s \in Ids, RecvRefusedConnect(s) \/ RecvOtherMode(s) PROVE Joinable'
    BY <2>2 DEF RecvRefusedConnect, RecvOtherMode
  <2>3. ASSUME NEW s \in Ids, RecvConnect(s) PROVE Joinable'
    BY <2>3 DEF RecvConnect
  <2>4. CASE Insert
    BY <2>4 DEF Insert
  <2>5. CASE GuardAccepts
    BY <2>5 DEF GuardAccepts
  <2>6. CASE SayGuardError
    BY <2>6 DEF SayGuardError
  <2>7. CASE GuardErase
    BY <2>7 DEF GuardErase
  <2>8. CASE SayDialError
    BY <2>8 DEF SayDialError
  <2>9. CASE DialSucceeds
    BY <2>9 DEF DialSucceeds
  <2>10. CASE CheckRegistered
    BY <2>10 DEF CheckRegistered
  <2>11. CASE SayConnected
    BY <2>11 DEF SayConnected
  <2>12. CASE SpawnTargetThread
    BY <2>12 DEF SpawnTargetThread
  <2>13. CASE SayRefused \/ GuardRefuses \/ DialFails
    BY <2>13 DEF SayRefused, GuardRefuses, DialFails
  <2>14. QED
    BY <1>2, <2>1, <2>2, <2>3, <2>4, <2>5, <2>6, <2>7, <2>8, <2>9, <2>10, <2>11, <2>12, <2>13
    DEF HandleConnect
<1>3. CASE EndConnection
  <2>1. CASE RecvWsClose
    BY <2>1 DEF RecvWsClose
  <2>2. CASE RecvEof
    BY <2>2 DEF RecvEof
  <2>3. CASE FailConnection
    BY <2>3 DEF FailConnection
  <2>4. CASE Stop
    BY <2>4 DEF Stop
  <2>5. CASE DestroyClear
    BY <2>5 DEF DestroyClear
  <2>6. CASE DestroyOne
    BY <2>6 DEF DestroyOne
  <2>7. CASE DestroyDone
    BY <2>7 DEF DestroyDone
  <2>8. CASE JoinWorkers
    BY <2>8 DEF JoinWorkers
  <2>9. QED
    BY <1>3, <2>1, <2>2, <2>3, <2>4, <2>5, <2>6, <2>7, <2>8 DEF EndConnection
<1>4. CASE WriteTarget
  BY <1>4 DEF WriteTarget
<1>5. CASE ShutdownTarget
  BY <1>5 DEF ShutdownTarget
<1>6. ASSUME NEW s \in Ids, RecvData(s) PROVE Joinable'
  BY <1>6 DEF RecvData
<1>7. ASSUME NEW s \in Ids, RecvHalfClose(s) PROVE Joinable'
  BY <1>7 DEF RecvHalfClose
<1>8. ASSUME NEW s \in Ids, RecvClose(s) PROVE Joinable'
  BY <1>8 DEF RecvClose
<1>9. CASE SweeperStep
  <2>1. CASE SweeperWait
    BY <2>1 DEF SweeperWait
  <2>2. CASE SweepCollect
    BY <2>2 DEF SweepCollect
  <2>3. CASE SweepNext
    BY <2>3 DEF SweepNext
  <2>4. CASE SweepDone
    BY <2>4 DEF SweepDone
  <2>5. QED
    BY <1>9, <1>1, <2>1, <2>2, <2>3, <2>4 DEF SweeperStep
<1>10. ASSUME NEW s \in Ids, TargetStep(s) PROVE Joinable'
  <2>1. CASE TargetLoop(s)
    BY <2>1 DEF TargetLoop
  <2>2. CASE TargetEof(s)
    BY <2>2 DEF TargetEof
  <2>3. CASE TargetTimeout(s)
    BY <2>3 DEF TargetTimeout
  <2>4. CASE TargetIdle(s)
    BY <2>4 DEF TargetIdle
  <2>5. CASE TargetReadReleased(s)
    BY <2>5 DEF TargetReadReleased
  <2>6. CASE TargetData(s)
    BY <2>6 DEF TargetData
  <2>7. CASE TargetForward(s)
    BY <2>7 DEF TargetForward
  <2>8. CASE TargetForwardFails(s)
    BY <2>8 DEF TargetForwardFails
  <2>9. QED
    BY <1>1, <1>10, <2>1, <2>2, <2>3, <2>4, <2>5, <2>6, <2>7, <2>8 DEF TargetStep
<1>11. CASE NetDown
  BY <1>11 DEF NetDown
<1>12. ASSUME NEW s \in Ids, Expire(s) PROVE Joinable'
  BY <1>12 DEF Expire
<1>13. CASE UNCHANGED vars
  BY <1>13 DEF vars
<1>14. QED
  BY <1>1, <1>2, <1>3, <1>4, <1>5, <1>6, <1>7, <1>8, <1>9, <1>10, <1>11, <1>12, <1>13
  DEF Next, ReaderStep, Terminating

(* The initial state satisfies the inductive invariant. *)
LEMMA InitInv == Init => Inv
<1> SUFFICES ASSUME Init PROVE Inv
  OBVIOUS
<1>1. Typed
  BY InitTyped
<1>2. PendingFresh /\ Exclusive /\ NotDialed /\ Joinable
  BY ParametersAssumption DEF Init, PendingFresh, Exclusive, NotDialed, Joinable,
     Connecting, Closing, Ending, Threads, Reader, Sweeper, None
<1>3. NoOrphanSocket
  BY DEF Init, NoOrphanSocket, HasSocket
<1>4. QED
  BY <1>1, <1>2, <1>3 DEF Inv

(* Every step of every thread preserves the inductive invariant. *)
LEMMA NextInv == Inv /\ [Next]_vars => Inv'
  BY NextTyped, NextPending, NextExclusive, NextNotDialed, NextNoOrphan, NextJoinable DEF Inv

(* The inductive invariant holds in every reachable state. *)
LEMMA InvHolds == Spec => []Inv
<1>1. Init => Inv
  BY InitInv
<1>2. Inv /\ [Next]_vars => Inv'
  BY NextInv
<1>3. QED
  BY <1>1, <1>2, PTL DEF Spec

(* Type correctness: in particular every frame queued for the client is a   *)
(* known one, no thread leaves its own code, and workers_ holds only the    *)
(* sweeper and the target threads of sessions.                              *)
THEOREM TypeCorrect == Spec => []TypeOK
<1>1. Inv => TypeOK
  BY DEF Inv, Typed
<1>2. QED
  BY <1>1, InvHolds, PTL

(* The erase in closeSession elects one closer for a session, however many  *)
(* threads want to end it, and its session is out of the map by then.       *)
THEOREM OneCloser == Spec => []SoleCloser
<1>1. Inv => SoleCloser
  BY DEF Inv, Exclusive, SoleCloser, Closers, Closing
<1>2. QED
  BY <1>1, InvHolds, PTL

(* An open target socket always belongs to a registered session or to a     *)
(* thread that is about to close it: the third look of handleConnect leaves *)
(* none behind.                                                             *)
THEOREM NoSocketLost == Spec => []NoOrphanSocket
<1>1. Inv => NoOrphanSocket
  BY DEF Inv
<1>2. QED
  BY <1>1, InvHolds, PTL

(* When stop() has joined the threads nothing is left: no session, no open   *)
(* socket, no thread that could still use the manager.                      *)
THEOREM StopIsComplete == Spec => []StopReleasesAll
<1>1. Inv => StopReleasesAll
  <2> SUFFICES ASSUME Inv, pc[Reader] = "done" PROVE StopReleasesAll
    BY DEF StopReleasesAll
  <2> USE ParametersAssumption DEF Inv, Typed, TypeOK, ThreadType, SweeperPcs, TargetPcs, Joinable, Exclusive, Ending
  <2>1. sessions = {} /\ workers = {}
    OBVIOUS
  <2>2. pc[Sweeper] = "exit" /\ \A s \in Ids : pc[s] \in {"unborn", "exit"}
    BY <2>1
  <2>3. ASSUME NEW s \in Ids PROVE ~HasSocket(s)
    <3>1. Closers(s) = {}
      BY <2>2 DEF Closers, Threads
    <3>2. QED
      BY <2>1, <3>1 DEF NoOrphanSocket, Claimed
  <2>4. QED
    BY <2>1, <2>2, <2>3 DEF StopReleasesAll
<1>2. QED
  BY <1>1, InvHolds, PTL

-----------------------------------------------------------------------------
(* What the frames and the map rest on besides Inv.                        *)

(* destroyAll runs when the WebSocket is closed, and nothing is admitted   *)
(* after it.                                                               *)
Ended ==
  /\ pc[Reader] \in {"stop", "clear"} \cup Ending => ws = "closed"
  /\ closed => pc[Reader] \in Ending

(* A session whose connect succeeded has had a socket ever since.          *)
Dialed == pc[Reader] \in {"check", "connected", "spawn"} => socket[cur[Reader]] # "none"

(* A session is answered once: nothing is said about one that was not      *)
(* made, and neither connected nor error before handleConnect says it.     *)
Unanswered == \A s \in Ids :
  /\ s \notin used => \A f \in Frames : ~Says(s, f)
  /\ /\ pc[Reader] \in {"insert", "guard", "refused", "dial", "failed", "check", "connected"}
     /\ cur[Reader] = s
     => ~Says(s, "connected") /\ ~Says(s, "error")

(* A target thread exists only after connected has been said, or lost.     *)
Opened == \A s \in Ids :
  pc[s] # "unborn" \/ (pc[Reader] = "spawn" /\ cur[Reader] = s) =>
    Says(s, "connected") \/ ws # "open" \/ ~net

LEMMA NextEnded == Typed /\ Ended /\ [Next]_vars => Ended'
<1> SUFFICES ASSUME Typed, Ended, [Next]_vars PROVE Ended'
  OBVIOUS
<1> USE ParametersAssumption DEF Typed, TypeOK, WireType, SessionType, ControlType, ThreadType,
        WorkOK, Threads, Reader, Sweeper, None, ReaderPcs, SweeperPcs, TargetPcs, Busy,
        wireVars, mapVars, dataVars, ctlVars, locVars, Go, Settle, After, Noticing,
        CallClose, Find, HasSocket, Ending, Ended
<1>1. ASSUME NEW t \in Threads, CloseSession(t) PROVE Ended'
  BY <1>1
  DEF CloseSession, CloseErase, CloseTest, CloseRelease, CloseNotice
<1>2. CASE HandleConnect
  BY <1>2
  DEF HandleConnect, RecvBadConnect, RecvRefusedConnect, SayRefused, RecvOtherMode, RecvConnect,
      Insert, GuardAccepts, GuardRefuses, SayGuardError, GuardErase, DialFails, SayDialError,
      DialSucceeds, CheckRegistered, SayConnected, SpawnTargetThread
<1>3. CASE EndConnection
  BY <1>3
  DEF EndConnection, RecvWsClose, RecvEof, FailConnection, Stop, DestroyClear, DestroyOne,
      DestroyDone, JoinWorkers
<1>4. CASE WriteTarget
  BY <1>4 DEF WriteTarget
<1>5. CASE ShutdownTarget
  BY <1>5 DEF ShutdownTarget
<1>6. ASSUME NEW s \in Ids, RecvData(s) PROVE Ended'
  BY <1>6 DEF RecvData
<1>7. ASSUME NEW s \in Ids, RecvHalfClose(s) PROVE Ended'
  BY <1>7 DEF RecvHalfClose
<1>8. ASSUME NEW s \in Ids, RecvClose(s) PROVE Ended'
  BY <1>8 DEF RecvClose
<1>9. CASE SweeperStep
  BY <1>1, <1>9
  DEF SweeperStep, SweeperWait, SweepCollect, SweepNext, SweepDone
<1>10. ASSUME NEW s \in Ids, TargetStep(s) PROVE Ended'
  BY <1>1, <1>10
  DEF TargetStep, TargetLoop, TargetEof, TargetTimeout, TargetIdle, TargetReadReleased,
      TargetData, TargetForward, TargetForwardFails
<1>11. CASE NetDown
  BY <1>11 DEF NetDown
<1>12. ASSUME NEW s \in Ids, Expire(s) PROVE Ended'
  BY <1>12 DEF Expire
<1>13. CASE UNCHANGED vars
  BY <1>13 DEF vars
<1> QED
  BY <1>1, <1>2, <1>3, <1>4, <1>5, <1>6, <1>7, <1>8, <1>9, <1>10, <1>11, <1>12, <1>13
  DEF Next, ReaderStep, Terminating

LEMMA NextDialed == Typed /\ Dialed /\ [Next]_vars => Dialed'
<1> SUFFICES ASSUME Typed, Dialed, [Next]_vars PROVE Dialed'
  OBVIOUS
<1> USE ParametersAssumption DEF Typed, TypeOK, WireType, SessionType, ControlType, ThreadType,
        WorkOK, Threads, Reader, Sweeper, None, ReaderPcs, SweeperPcs, TargetPcs, Busy,
        wireVars, mapVars, dataVars, ctlVars, locVars, Go, Settle, After, Noticing,
        CallClose, Find, HasSocket, Ending, Dialed
<1>1. ASSUME NEW t \in Threads, CloseSession(t) PROVE Dialed'
  <2>1. CASE CloseErase(t)
    BY <2>1 DEF CloseErase
  <2>2. CASE CloseTest(t)
    BY <2>2 DEF CloseTest
  <2>3. CASE CloseRelease(t)
    <3>1. \A s \in Ids : socket[s] # "none" => socket'[s] # "none"
      BY <2>3 DEF CloseRelease
    <3>2. pc'[Reader] \in {"check", "connected", "spawn"} =>
            pc[Reader] = pc'[Reader] /\ cur'[Reader] = cur[Reader] /\ cur[Reader] \in Ids
      BY <2>3 DEF CloseRelease
    <3> QED
      BY <3>1, <3>2
  <2>4. CASE CloseNotice(t)
    BY <2>4 DEF CloseNotice
  <2> QED
    BY <1>1, <2>1, <2>2, <2>3, <2>4 DEF CloseSession
<1>2. CASE HandleConnect
  BY <1>2
  DEF HandleConnect, RecvBadConnect, RecvRefusedConnect, SayRefused, RecvOtherMode, RecvConnect,
      Insert, GuardAccepts, GuardRefuses, SayGuardError, GuardErase, DialFails, SayDialError,
      DialSucceeds, CheckRegistered, SayConnected, SpawnTargetThread
<1>3. CASE EndConnection
  BY <1>3
  DEF EndConnection, RecvWsClose, RecvEof, FailConnection, Stop, DestroyClear, DestroyOne,
      DestroyDone, JoinWorkers
<1>4. CASE WriteTarget
  BY <1>4 DEF WriteTarget
<1>5. CASE ShutdownTarget
  BY <1>5 DEF ShutdownTarget
<1>6. ASSUME NEW s \in Ids, RecvData(s) PROVE Dialed'
  BY <1>6 DEF RecvData
<1>7. ASSUME NEW s \in Ids, RecvHalfClose(s) PROVE Dialed'
  BY <1>7 DEF RecvHalfClose
<1>8. ASSUME NEW s \in Ids, RecvClose(s) PROVE Dialed'
  BY <1>8 DEF RecvClose
<1>9. CASE SweeperStep
  BY <1>1, <1>9
  DEF SweeperStep, SweeperWait, SweepCollect, SweepNext, SweepDone
<1>10. ASSUME NEW s \in Ids, TargetStep(s) PROVE Dialed'
  BY <1>1, <1>10
  DEF TargetStep, TargetLoop, TargetEof, TargetTimeout, TargetIdle, TargetReadReleased,
      TargetData, TargetForward, TargetForwardFails
<1>11. CASE NetDown
  BY <1>11 DEF NetDown
<1>12. ASSUME NEW s \in Ids, Expire(s) PROVE Dialed'
  BY <1>12 DEF Expire
<1>13. CASE UNCHANGED vars
  BY <1>13 DEF vars
<1> QED
  BY <1>1, <1>2, <1>3, <1>4, <1>5, <1>6, <1>7, <1>8, <1>9, <1>10, <1>11, <1>12, <1>13
  DEF Next, ReaderStep, Terminating

(* What has been said after a frame is sent.                               *)
LEMMA SendSays ==
  ASSUME sent \in [Ids -> Seq(Frames)], NEW s \in Ids, NEW f \in Frames, Send(s, f)
  PROVE  \A r \in Ids, g \in Frames :
           Says(r, g)' <=> Says(r, g) \/ (r = s /\ g = f /\ ws = "open" /\ net)
<1> SUFFICES ASSUME NEW r \in Ids, NEW g \in Frames
             PROVE Says(r, g)' <=> Says(r, g) \/ (r = s /\ g = f /\ ws = "open" /\ net)
  OBVIOUS
<1> sent[s] \in Seq(Frames) /\ sent[r] \in Seq(Frames)
  OBVIOUS
<1>1. CASE ws = "open" /\ net /\ r = s
  <2>1. sent'[s] = Append(sent[s], f)
    BY <1>1 DEF Send
  <2>2. Len(sent'[s]) = Len(sent[s]) + 1 /\ sent'[s][Len(sent[s]) + 1] = f
    BY <2>1
  <2>3. \A i \in 1 .. Len(sent[s]) : sent'[s][i] = sent[s][i]
    BY <2>1
  <2> QED
    BY <1>1, <2>2, <2>3 DEF Says
<1>2. CASE ~(ws = "open" /\ net /\ r = s)
  <2>1. sent'[r] = sent[r]
    BY <1>2 DEF Send
  <2> QED
    BY <1>2, <2>1 DEF Says
<1> QED
  BY <1>1, <1>2

LEMMA SameSays ==
  ASSUME sent' = sent
  PROVE  \A r \in Ids, g \in Frames : Says(r, g)' <=> Says(r, g)
BY DEF Says

LEMMA NextUnanswered == Typed /\ Ended /\ Unanswered /\ [Next]_vars => Unanswered'
<1> SUFFICES ASSUME Typed, Ended, Unanswered, [Next]_vars PROVE Unanswered'
  OBVIOUS
<1> USE SameSays
<1> USE ParametersAssumption DEF Typed, TypeOK, WireType, SessionType, ControlType, ThreadType,
        WorkOK, Threads, Reader, Sweeper, None, ReaderPcs, SweeperPcs, TargetPcs, Busy,
        wireVars, mapVars, dataVars, ctlVars, locVars, Go, Settle, After, Noticing,
        CallClose, Find, HasSocket, Ending, Frames, Ended, Unanswered
<1>1. ASSUME NEW t \in Threads, CloseSession(t) PROVE Unanswered'
  <2>1. CASE CloseErase(t)
    BY <2>1 DEF CloseErase
  <2>2. CASE CloseTest(t)
    BY <2>2 DEF CloseTest
  <2>3. CASE CloseRelease(t)
    BY <2>3 DEF CloseRelease
  <2>4. CASE CloseNotice(t)
    <3>1. PICK r \in Ids : pc[t] = "notice" /\ cur[t] = r /\ r \in used /\ Send(r, "close")
      BY <2>4 DEF CloseNotice, Send
    <3>2. \A s \in Ids, g \in Frames :
            Says(s, g)' <=> Says(s, g) \/ (s = r /\ g = "close" /\ ws = "open" /\ net)
      BY <3>1, SendSays
    <3> QED
      BY <2>4, <3>1, <3>2 DEF CloseNotice
  <2> QED
    BY <1>1, <2>1, <2>2, <2>3, <2>4 DEF CloseSession
<1>2. CASE HandleConnect
  <2>1. CASE RecvBadConnect
    BY <2>1 DEF RecvBadConnect
  <2>2. ASSUME NEW s \in Ids, RecvRefusedConnect(s) \/ RecvOtherMode(s) PROVE Unanswered'
    BY <2>2 DEF RecvRefusedConnect, RecvOtherMode
  <2>3. ASSUME NEW s \in Ids, RecvConnect(s) PROVE Unanswered'
    BY <2>3 DEF RecvConnect
  <2>4. CASE Insert
    BY <2>4 DEF Insert
  <2>5. CASE GuardAccepts
    BY <2>5 DEF GuardAccepts
  <2>6. CASE SayGuardError
    <3>1. PICK r \in Ids : pc[Reader] = "refused" /\ cur[Reader] = r /\ r \in used /\ Send(r, "error")
      BY <2>6 DEF SayGuardError, Send
    <3>2. \A s \in Ids, g \in Frames :
            Says(s, g)' <=> Says(s, g) \/ (s = r /\ g = "error" /\ ws = "open" /\ net)
      BY <3>1, SendSays
    <3> QED
      BY <2>6, <3>1, <3>2 DEF SayGuardError
  <2>7. CASE GuardErase
    BY <2>7 DEF GuardErase
  <2>8. CASE SayDialError
    <3>1. PICK r \in Ids : pc[Reader] = "failed" /\ cur[Reader] = r /\ r \in used /\ Send(r, "error")
      BY <2>8 DEF SayDialError, Send
    <3>2. \A s \in Ids, g \in Frames :
            Says(s, g)' <=> Says(s, g) \/ (s = r /\ g = "error" /\ ws = "open" /\ net)
      BY <3>1, SendSays
    <3> QED
      BY <2>8, <3>1, <3>2 DEF SayDialError
  <2>9. CASE DialSucceeds
    BY <2>9 DEF DialSucceeds
  <2>10. CASE CheckRegistered
    BY <2>10 DEF CheckRegistered
  <2>11. CASE SayConnected
    <3>1. PICK r \in Ids : pc[Reader] = "connected" /\ cur[Reader] = r /\ r \in used /\ Send(r, "connected")
      BY <2>11 DEF SayConnected, Send
    <3>2. \A s \in Ids, g \in Frames :
            Says(s, g)' <=> Says(s, g) \/ (s = r /\ g = "connected" /\ ws = "open" /\ net)
      BY <3>1, SendSays
    <3> QED
      BY <2>11, <3>1, <3>2 DEF SayConnected
  <2>12. CASE SpawnTargetThread
    BY <2>12 DEF SpawnTargetThread
  <2>13. CASE SayRefused \/ GuardRefuses \/ DialFails
    BY <2>13 DEF SayRefused, GuardRefuses, DialFails
  <2> QED
    BY <1>2, <2>1, <2>2, <2>3, <2>4, <2>5, <2>6, <2>7, <2>8, <2>9, <2>10, <2>11,
        <2>12, <2>13 DEF HandleConnect
<1>3. CASE EndConnection
  <2>1. CASE RecvWsClose
    BY <2>1 DEF RecvWsClose
  <2>2. CASE RecvEof
    BY <2>2 DEF RecvEof
  <2>3. CASE FailConnection
    BY <2>3 DEF FailConnection
  <2>4. CASE Stop
    BY <2>4 DEF Stop
  <2>5. CASE DestroyClear
    BY <2>5 DEF DestroyClear
  <2>6. CASE DestroyOne
    <3>1. UNCHANGED <<sent, used, pc, cur, ws, net>>
      BY <2>6 DEF DestroyOne, Send
    <3> QED
      BY <3>1, SameSays
  <2>7. CASE DestroyDone
    BY <2>7 DEF DestroyDone
  <2>8. CASE JoinWorkers
    BY <2>8 DEF JoinWorkers
  <2> QED
    BY <1>3, <2>1, <2>2, <2>3, <2>4, <2>5, <2>6, <2>7, <2>8 DEF EndConnection
<1>4. CASE WriteTarget
  BY <1>4 DEF WriteTarget
<1>5. CASE ShutdownTarget
  BY <1>5 DEF ShutdownTarget
<1>6. ASSUME NEW s \in Ids, RecvData(s) PROVE Unanswered'
  BY <1>6 DEF RecvData
<1>7. ASSUME NEW s \in Ids, RecvHalfClose(s) PROVE Unanswered'
  BY <1>7 DEF RecvHalfClose
<1>8. ASSUME NEW s \in Ids, RecvClose(s) PROVE Unanswered'
  BY <1>8 DEF RecvClose
<1>9. CASE SweeperStep
  <2>1. CASE SweeperWait
    BY <2>1 DEF SweeperWait
  <2>2. CASE SweepCollect
    BY <2>2 DEF SweepCollect
  <2>3. CASE SweepNext
    <3>1. cur'[Reader] = cur[Reader] /\ pc'[Reader] = pc[Reader] /\ \A s \in Ids : pc'[s] = pc[s]
      BY <2>3 DEF SweepNext
    <3>2. UNCHANGED <<sent, used, ws, net>>
      BY <2>3 DEF SweepNext
    <3> QED
      BY <3>1, <3>2, SameSays
  <2>4. CASE SweepDone
    BY <2>4 DEF SweepDone
  <2> QED
    BY <1>9, <1>1, <2>1, <2>2, <2>3, <2>4 DEF SweeperStep
<1>10. ASSUME NEW s \in Ids, TargetStep(s) PROVE Unanswered'
  <2>1. CASE TargetLoop(s)
    BY <2>1 DEF TargetLoop
  <2>2. CASE TargetEof(s)
    BY <2>2 DEF TargetEof
  <2>3. CASE TargetTimeout(s)
    BY <2>3 DEF TargetTimeout
  <2>4. CASE TargetIdle(s)
    BY <2>4 DEF TargetIdle
  <2>5. CASE TargetReadReleased(s)
    BY <2>5 DEF TargetReadReleased
  <2>6. CASE TargetData(s)
    BY <2>6 DEF TargetData
  <2>7. CASE TargetForward(s)
    <3>1. PICK r \in Ids : pc[r] = "send" /\ r \in used /\ r = s /\ Send(r, "data")
      BY <2>7 DEF TargetForward, Send
    <3>2. \A x \in Ids, g \in Frames :
            Says(x, g)' <=> Says(x, g) \/ (x = r /\ g = "data" /\ ws = "open" /\ net)
      BY <3>1, SendSays
    <3> QED
      BY <2>7, <3>1, <3>2 DEF TargetForward
  <2>8. CASE TargetForwardFails(s)
    BY <2>8 DEF TargetForwardFails
  <2> QED
    BY <1>10, <1>1, <2>1, <2>2, <2>3, <2>4, <2>5, <2>6, <2>7, <2>8 DEF TargetStep
<1>11. CASE NetDown
  BY <1>11 DEF NetDown
<1>12. ASSUME NEW s \in Ids, Expire(s) PROVE Unanswered'
  BY <1>12 DEF Expire
<1>13. CASE UNCHANGED vars
  BY <1>13 DEF vars
<1> QED
  BY <1>1, <1>2, <1>3, <1>4, <1>5, <1>6, <1>7, <1>8, <1>9, <1>10, <1>11, <1>12, <1>13
  DEF Next, ReaderStep, Terminating

LEMMA NextOpened == Typed /\ PendingFresh /\ Ended /\ Opened /\ [Next]_vars => Opened'
<1> SUFFICES ASSUME Typed, PendingFresh, Ended, Opened, [Next]_vars PROVE Opened'
  OBVIOUS
<1> USE SameSays
<1> USE ParametersAssumption DEF Typed, TypeOK, WireType, SessionType, ControlType, ThreadType,
        WorkOK, Threads, Reader, Sweeper, None, ReaderPcs, SweeperPcs, TargetPcs, Busy,
        wireVars, mapVars, dataVars, ctlVars, locVars, Go, Settle, After, Noticing,
        CallClose, Find, HasSocket, Ending, Frames, Ended, PendingFresh, Connecting, Closing, Opened
<1>1. ASSUME NEW t \in Threads, CloseSession(t) PROVE Opened'
  <2>1. CASE CloseErase(t)
    BY <2>1 DEF CloseErase
  <2>2. CASE CloseTest(t)
    BY <2>2 DEF CloseTest
  <2>3. CASE CloseRelease(t)
    BY <2>3 DEF CloseRelease
  <2>4. CASE CloseNotice(t)
    <3>1. PICK r \in Ids : pc[t] = "notice" /\ cur[t] = r /\ r \in used /\ Send(r, "close")
      BY <2>4 DEF CloseNotice, Send
    <3>2. \A s \in Ids, g \in Frames :
            Says(s, g)' <=> Says(s, g) \/ (s = r /\ g = "close" /\ ws = "open" /\ net)
      BY <3>1, SendSays
    <3> QED
      BY <2>4, <3>1, <3>2 DEF CloseNotice
  <2> QED
    BY <1>1, <2>1, <2>2, <2>3, <2>4 DEF CloseSession
<1>2. CASE HandleConnect
  <2>1. CASE RecvBadConnect
    BY <2>1 DEF RecvBadConnect
  <2>2. ASSUME NEW s \in Ids, RecvRefusedConnect(s) \/ RecvOtherMode(s) PROVE Opened'
    BY <2>2 DEF RecvRefusedConnect, RecvOtherMode
  <2>3. ASSUME NEW s \in Ids, RecvConnect(s) PROVE Opened'
    BY <2>3 DEF RecvConnect
  <2>4. CASE Insert
    BY <2>4 DEF Insert
  <2>5. CASE GuardAccepts
    BY <2>5 DEF GuardAccepts
  <2>6. CASE SayGuardError
    <3>1. PICK r \in Ids : pc[Reader] = "refused" /\ cur[Reader] = r /\ r \in used /\ Send(r, "error")
      BY <2>6 DEF SayGuardError, Send
    <3>2. \A s \in Ids, g \in Frames :
            Says(s, g)' <=> Says(s, g) \/ (s = r /\ g = "error" /\ ws = "open" /\ net)
      BY <3>1, SendSays
    <3> QED
      BY <2>6, <3>1, <3>2 DEF SayGuardError
  <2>7. CASE GuardErase
    BY <2>7 DEF GuardErase
  <2>8. CASE SayDialError
    <3>1. PICK r \in Ids : pc[Reader] = "failed" /\ cur[Reader] = r /\ r \in used /\ Send(r, "error")
      BY <2>8 DEF SayDialError, Send
    <3>2. \A s \in Ids, g \in Frames :
            Says(s, g)' <=> Says(s, g) \/ (s = r /\ g = "error" /\ ws = "open" /\ net)
      BY <3>1, SendSays
    <3> QED
      BY <2>8, <3>1, <3>2 DEF SayDialError
  <2>9. CASE DialSucceeds
    BY <2>9 DEF DialSucceeds
  <2>10. CASE CheckRegistered
    BY <2>10 DEF CheckRegistered
  <2>11. CASE SayConnected
    <3>1. PICK r \in Ids : pc[Reader] = "connected" /\ cur[Reader] = r /\ r \in used /\ Send(r, "connected")
      BY <2>11 DEF SayConnected, Send
    <3>2. \A s \in Ids, g \in Frames :
            Says(s, g)' <=> Says(s, g) \/ (s = r /\ g = "connected" /\ ws = "open" /\ net)
      BY <3>1, SendSays
    <3> QED
      BY <2>11, <3>1, <3>2 DEF SayConnected
  <2>12. CASE SpawnTargetThread
    BY <2>12 DEF SpawnTargetThread
  <2>13. CASE SayRefused \/ GuardRefuses \/ DialFails
    BY <2>13 DEF SayRefused, GuardRefuses, DialFails
  <2> QED
    BY <1>2, <2>1, <2>2, <2>3, <2>4, <2>5, <2>6, <2>7, <2>8, <2>9, <2>10, <2>11,
        <2>12, <2>13 DEF HandleConnect
<1>3. CASE EndConnection
  <2>1. CASE RecvWsClose
    BY <2>1 DEF RecvWsClose
  <2>2. CASE RecvEof
    BY <2>2 DEF RecvEof
  <2>3. CASE FailConnection
    BY <2>3 DEF FailConnection
  <2>4. CASE Stop
    BY <2>4 DEF Stop
  <2>5. CASE DestroyClear
    BY <2>5 DEF DestroyClear
  <2>6. CASE DestroyOne
    <3>1. UNCHANGED <<sent, used, pc, cur, ws, net>>
      BY <2>6 DEF DestroyOne, Send
    <3> QED
      BY <3>1, SameSays
  <2>7. CASE DestroyDone
    BY <2>7 DEF DestroyDone
  <2>8. CASE JoinWorkers
    BY <2>8 DEF JoinWorkers
  <2> QED
    BY <1>3, <2>1, <2>2, <2>3, <2>4, <2>5, <2>6, <2>7, <2>8 DEF EndConnection
<1>4. CASE WriteTarget
  BY <1>4 DEF WriteTarget
<1>5. CASE ShutdownTarget
  BY <1>5 DEF ShutdownTarget
<1>6. ASSUME NEW s \in Ids, RecvData(s) PROVE Opened'
  BY <1>6 DEF RecvData
<1>7. ASSUME NEW s \in Ids, RecvHalfClose(s) PROVE Opened'
  BY <1>7 DEF RecvHalfClose
<1>8. ASSUME NEW s \in Ids, RecvClose(s) PROVE Opened'
  BY <1>8 DEF RecvClose
<1>9. CASE SweeperStep
  <2>1. CASE SweeperWait
    BY <2>1 DEF SweeperWait
  <2>2. CASE SweepCollect
    BY <2>2 DEF SweepCollect
  <2>3. CASE SweepNext
    <3>1. cur'[Reader] = cur[Reader] /\ pc'[Reader] = pc[Reader] /\ \A s \in Ids : pc'[s] = pc[s]
      BY <2>3 DEF SweepNext
    <3>2. UNCHANGED <<sent, used, ws, net>>
      BY <2>3 DEF SweepNext
    <3> QED
      BY <3>1, <3>2, SameSays
  <2>4. CASE SweepDone
    BY <2>4 DEF SweepDone
  <2> QED
    BY <1>9, <1>1, <2>1, <2>2, <2>3, <2>4 DEF SweeperStep
<1>10. ASSUME NEW s \in Ids, TargetStep(s) PROVE Opened'
  <2>1. CASE TargetLoop(s)
    BY <2>1 DEF TargetLoop
  <2>2. CASE TargetEof(s)
    BY <2>2 DEF TargetEof
  <2>3. CASE TargetTimeout(s)
    BY <2>3 DEF TargetTimeout
  <2>4. CASE TargetIdle(s)
    BY <2>4 DEF TargetIdle
  <2>5. CASE TargetReadReleased(s)
    BY <2>5 DEF TargetReadReleased
  <2>6. CASE TargetData(s)
    BY <2>6 DEF TargetData
  <2>7. CASE TargetForward(s)
    <3>1. PICK r \in Ids : pc[r] = "send" /\ r \in used /\ r = s /\ Send(r, "data")
      BY <2>7 DEF TargetForward, Send
    <3>2. \A x \in Ids, g \in Frames :
            Says(x, g)' <=> Says(x, g) \/ (x = r /\ g = "data" /\ ws = "open" /\ net)
      BY <3>1, SendSays
    <3> QED
      BY <2>7, <3>1, <3>2 DEF TargetForward
  <2>8. CASE TargetForwardFails(s)
    BY <2>8 DEF TargetForwardFails
  <2> QED
    BY <1>10, <1>1, <2>1, <2>2, <2>3, <2>4, <2>5, <2>6, <2>7, <2>8 DEF TargetStep
<1>11. CASE NetDown
  BY <1>11 DEF NetDown
<1>12. ASSUME NEW s \in Ids, Expire(s) PROVE Opened'
  BY <1>12 DEF Expire
<1>13. CASE UNCHANGED vars
  BY <1>13 DEF vars
<1> QED
  BY <1>1, <1>2, <1>3, <1>4, <1>5, <1>6, <1>7, <1>8, <1>9, <1>10, <1>11, <1>12, <1>13
  DEF Next, ReaderStep, Terminating

-----------------------------------------------------------------------------
(* The limit.                                                              *)

(* Between the two critical sections of handleConnect the map only         *)
(* shrinks, so that there still is room for the session it inserts.        *)
Bounded ==
  /\ IsFiniteSet(sessions) /\ Cardinality(sessions) <= MaxSessions
  /\ pc[Reader] = "insert" => Cardinality(sessions) < MaxSessions

Shrinks == sessions' \subseteq sessions /\ (pc'[Reader] = "insert" => pc[Reader] = "insert")

LEMMA MapMoves == Typed /\ [Next]_vars => Shrinks \/ Insert \/ \E s \in Ids : RecvConnect(s)
<1> SUFFICES ASSUME Typed, [Next]_vars PROVE Shrinks \/ Insert \/ \E s \in Ids : RecvConnect(s)
  OBVIOUS
<1> DEFINE Moves == Shrinks \/ Insert \/ \E s \in Ids : RecvConnect(s)
<1> USE ParametersAssumption DEF Typed, TypeOK, WireType, SessionType, ControlType, ThreadType,
        WorkOK, Threads, Reader, Sweeper, None, ReaderPcs, SweeperPcs, TargetPcs, Busy,
        wireVars, mapVars, dataVars, ctlVars, locVars, Go, Settle, After, Noticing,
        CallClose, Find, HasSocket, Ending, Shrinks
<1>1. ASSUME NEW t \in Threads, CloseSession(t) PROVE Moves
  BY <1>1
  DEF CloseSession, CloseErase, CloseTest, CloseRelease, CloseNotice
<1>2. CASE HandleConnect
  <2>1. CASE RecvBadConnect
    BY <2>1 DEF RecvBadConnect
  <2>2. ASSUME NEW s \in Ids, RecvRefusedConnect(s) \/ RecvOtherMode(s) PROVE Moves
    BY <2>2 DEF RecvRefusedConnect, RecvOtherMode
  <2>3. ASSUME NEW s \in Ids, RecvConnect(s) PROVE Moves
    BY <2>3 DEF RecvConnect
  <2>4. CASE Insert
    BY <2>4 DEF Insert
  <2>5. CASE GuardAccepts
    BY <2>5 DEF GuardAccepts
  <2>6. CASE SayGuardError
    BY <2>6 DEF SayGuardError
  <2>7. CASE GuardErase
    BY <2>7 DEF GuardErase
  <2>8. CASE SayDialError
    BY <2>8 DEF SayDialError
  <2>9. CASE DialSucceeds
    BY <2>9 DEF DialSucceeds
  <2>10. CASE CheckRegistered
    BY <2>10 DEF CheckRegistered
  <2>11. CASE SayConnected
    BY <2>11 DEF SayConnected
  <2>12. CASE SpawnTargetThread
    BY <2>12 DEF SpawnTargetThread
  <2>13. CASE SayRefused \/ GuardRefuses \/ DialFails
    BY <2>13 DEF SayRefused, GuardRefuses, DialFails
  <2> QED
    BY <1>2, <2>1, <2>2, <2>3, <2>4, <2>5, <2>6, <2>7, <2>8, <2>9, <2>10, <2>11,
        <2>12, <2>13 DEF HandleConnect
<1>3. CASE EndConnection
  BY <1>3
  DEF EndConnection, RecvWsClose, RecvEof, FailConnection, Stop, DestroyClear, DestroyOne,
      DestroyDone, JoinWorkers
<1>4. CASE WriteTarget
  BY <1>4 DEF WriteTarget
<1>5. CASE ShutdownTarget
  BY <1>5 DEF ShutdownTarget
<1>6. ASSUME NEW s \in Ids, RecvData(s) PROVE Moves
  BY <1>6 DEF RecvData
<1>7. ASSUME NEW s \in Ids, RecvHalfClose(s) PROVE Moves
  BY <1>7 DEF RecvHalfClose
<1>8. ASSUME NEW s \in Ids, RecvClose(s) PROVE Moves
  BY <1>8 DEF RecvClose
<1>9. CASE SweeperStep
  BY <1>1, <1>9
  DEF SweeperStep, SweeperWait, SweepCollect, SweepNext, SweepDone
<1>10. ASSUME NEW s \in Ids, TargetStep(s) PROVE Moves
  BY <1>1, <1>10
  DEF TargetStep, TargetLoop, TargetEof, TargetTimeout, TargetIdle, TargetReadReleased,
      TargetData, TargetForward, TargetForwardFails
<1>11. CASE NetDown
  BY <1>11 DEF NetDown
<1>12. ASSUME NEW s \in Ids, Expire(s) PROVE Moves
  BY <1>12 DEF Expire
<1>13. CASE UNCHANGED vars
  BY <1>13 DEF vars
<1> QED
  BY <1>1, <1>2, <1>3, <1>4, <1>5, <1>6, <1>7, <1>8, <1>9, <1>10, <1>11, <1>12, <1>13
  DEF Next, ReaderStep, Terminating

LEMMA NextBounded == Typed /\ Bounded /\ [Next]_vars => Bounded'
<1> SUFFICES ASSUME Typed, Bounded, [Next]_vars PROVE Bounded'
  OBVIOUS
<1>1. IsFiniteSet(sessions) /\ Cardinality(sessions) \in Nat /\ MaxSessions \in Nat
  BY FS_CardinalityType, ParametersAssumption DEF Bounded
<1>2. CASE Shrinks
  <2>1. IsFiniteSet(sessions') /\ Cardinality(sessions') <= Cardinality(sessions)
        /\ Cardinality(sessions') \in Nat
    BY <1>1, <1>2, FS_Subset, FS_CardinalityType DEF Shrinks
  <2> QED
    BY <1>1, <1>2, <2>1 DEF Shrinks, Bounded
<1>3. CASE Insert
  <2>1. sessions' = sessions \cup {cur[Reader]} /\ pc[Reader] = "insert" /\ pc'[Reader] = "guard"
    BY <1>3 DEF Insert, Go, Typed, TypeOK, ThreadType, Threads, Reader, Sweeper
  <2>2. /\ IsFiniteSet(sessions \cup {cur[Reader]})
        /\ \/ Cardinality(sessions \cup {cur[Reader]}) = Cardinality(sessions)
           \/ Cardinality(sessions \cup {cur[Reader]}) = Cardinality(sessions) + 1
    BY <1>1, FS_AddElement
  <2> QED
    BY <1>1, <2>1, <2>2 DEF Bounded
<1>4. ASSUME NEW s \in Ids, RecvConnect(s) PROVE Bounded'
  BY <1>4 DEF RecvConnect, Bounded
<1> QED
  BY <1>2, <1>3, <1>4, MapMoves

-----------------------------------------------------------------------------
(* The close notice.                                                       *)

(* The end of a session is still to come: it is yet to be made, is in the  *)
(* map or about to be put there, or somebody is ending it.                 *)
EndAhead(s) ==
  \/ s \notin used \/ s \in sessions
  \/ pc[Reader] = "insert" /\ cur[Reader] = s
  \/ pc[Reader] = "drain" /\ s \in todo[Reader]
  \/ \E t \in Threads : pc[t] \in Closing /\ cur[t] = s

(* No close notice is sent before the end.                                 *)
NoticeLast == \A s \in Ids : EndAhead(s) => ~Says(s, "close")

(* A session that has ended stays so.                                      *)
LEMMA EndsOnce == Typed /\ [Next]_vars => \A s \in Ids : EndAhead(s)' => EndAhead(s)
<1> SUFFICES ASSUME Typed, [Next]_vars, NEW r \in Ids PROVE EndAhead(r)' => EndAhead(r)
  OBVIOUS
<1> DEFINE Goal == EndAhead(r)' => EndAhead(r)
<1> USE ParametersAssumption DEF Typed, TypeOK, WireType, SessionType, ControlType, ThreadType,
        WorkOK, Threads, Reader, Sweeper, None, ReaderPcs, SweeperPcs, TargetPcs, Busy,
        wireVars, mapVars, dataVars, ctlVars, locVars, Go, Settle, After, Noticing,
        CallClose, Find, HasSocket, Ending, Closing, EndAhead
<1>1. ASSUME NEW t \in Threads, CloseSession(t) PROVE Goal
  <2>1. CASE CloseErase(t)
    BY <2>1 DEF CloseErase
  <2>2. CASE CloseTest(t)
    BY <2>2 DEF CloseTest
  <2>3. CASE CloseRelease(t)
    BY <2>3 DEF CloseRelease
  <2>4. CASE CloseNotice(t)
    BY <2>4 DEF CloseNotice
  <2> QED
    BY <1>1, <2>1, <2>2, <2>3, <2>4 DEF CloseSession
<1>2. CASE HandleConnect
  <2>1. CASE RecvBadConnect
    BY <2>1 DEF RecvBadConnect
  <2>2. ASSUME NEW s \in Ids, RecvRefusedConnect(s) \/ RecvOtherMode(s) PROVE Goal
    BY <2>2 DEF RecvRefusedConnect, RecvOtherMode
  <2>3. ASSUME NEW s \in Ids, RecvConnect(s) PROVE Goal
    BY <2>3 DEF RecvConnect
  <2>4. CASE Insert
    BY <2>4 DEF Insert
  <2>5. CASE GuardAccepts
    BY <2>5 DEF GuardAccepts
  <2>6. CASE SayGuardError
    BY <2>6 DEF SayGuardError
  <2>7. CASE GuardErase
    BY <2>7 DEF GuardErase
  <2>8. CASE SayDialError
    BY <2>8 DEF SayDialError
  <2>9. CASE DialSucceeds
    BY <2>9 DEF DialSucceeds
  <2>10. CASE CheckRegistered
    BY <2>10 DEF CheckRegistered
  <2>11. CASE SayConnected
    BY <2>11 DEF SayConnected
  <2>12. CASE SpawnTargetThread
    BY <2>12 DEF SpawnTargetThread
  <2>13. CASE SayRefused \/ GuardRefuses \/ DialFails
    BY <2>13 DEF SayRefused, GuardRefuses, DialFails
  <2> QED
    BY <1>2, <2>1, <2>2, <2>3, <2>4, <2>5, <2>6, <2>7, <2>8, <2>9, <2>10, <2>11,
        <2>12, <2>13 DEF HandleConnect
<1>3. CASE EndConnection
  <2>1. CASE RecvWsClose
    BY <2>1 DEF RecvWsClose
  <2>2. CASE RecvEof
    BY <2>2 DEF RecvEof
  <2>3. CASE FailConnection
    BY <2>3 DEF FailConnection
  <2>4. CASE Stop
    BY <2>4 DEF Stop
  <2>5. CASE DestroyClear
    BY <2>5 DEF DestroyClear
  <2>6. CASE DestroyOne
    BY <2>6 DEF DestroyOne
  <2>7. CASE DestroyDone
    BY <2>7 DEF DestroyDone
  <2>8. CASE JoinWorkers
    BY <2>8 DEF JoinWorkers
  <2> QED
    BY <1>3, <2>1, <2>2, <2>3, <2>4, <2>5, <2>6, <2>7, <2>8 DEF EndConnection
<1>4. CASE WriteTarget
  BY <1>4 DEF WriteTarget
<1>5. CASE ShutdownTarget
  BY <1>5 DEF ShutdownTarget
<1>6. ASSUME NEW s \in Ids, RecvData(s) PROVE Goal
  BY <1>6 DEF RecvData
<1>7. ASSUME NEW s \in Ids, RecvHalfClose(s) PROVE Goal
  BY <1>7 DEF RecvHalfClose
<1>8. ASSUME NEW s \in Ids, RecvClose(s) PROVE Goal
  BY <1>8 DEF RecvClose
<1>9. CASE SweeperStep
  <2>1. CASE SweeperWait
    BY <2>1 DEF SweeperWait
  <2>2. CASE SweepCollect
    BY <2>2 DEF SweepCollect
  <2>3. CASE SweepNext
    BY <2>3 DEF SweepNext
  <2>4. CASE SweepDone
    BY <2>4 DEF SweepDone
  <2> QED
    BY <1>9, <1>1, <2>1, <2>2, <2>3, <2>4 DEF SweeperStep
<1>10. ASSUME NEW s \in Ids, TargetStep(s) PROVE Goal
  <2>1. CASE TargetLoop(s)
    BY <2>1 DEF TargetLoop
  <2>2. CASE TargetEof(s)
    BY <2>2 DEF TargetEof
  <2>3. CASE TargetTimeout(s)
    BY <2>3 DEF TargetTimeout
  <2>4. CASE TargetIdle(s)
    BY <2>4 DEF TargetIdle
  <2>5. CASE TargetReadReleased(s)
    BY <2>5 DEF TargetReadReleased
  <2>6. CASE TargetData(s)
    BY <2>6 DEF TargetData
  <2>7. CASE TargetForward(s)
    BY <2>7 DEF TargetForward
  <2>8. CASE TargetForwardFails(s)
    BY <2>8 DEF TargetForwardFails
  <2> QED
    BY <1>10, <1>1, <2>1, <2>2, <2>3, <2>4, <2>5, <2>6, <2>7, <2>8 DEF TargetStep
<1>11. CASE NetDown
  BY <1>11 DEF NetDown
<1>12. ASSUME NEW s \in Ids, Expire(s) PROVE Goal
  BY <1>12 DEF Expire
<1>13. CASE UNCHANGED vars
  BY <1>13 DEF vars
<1> QED
  BY <1>1, <1>2, <1>3, <1>4, <1>5, <1>6, <1>7, <1>8, <1>9, <1>10, <1>11, <1>12, <1>13
  DEF Next, ReaderStep, Terminating


(* Who sends frames: closeSession and destroyAll the notice, the reader    *)
(* its answers, a target thread its data.                                  *)
FrameMoves ==
  \/ sent' = sent
  \/ \E s \in Ids : \E f \in Frames \ {"close"} : Send(s, f)
  \/ \E t \in Threads : CloseNotice(t)

LEMMA FramesMove == Typed /\ Ended /\ [Next]_vars => FrameMoves
<1> SUFFICES ASSUME Typed, Ended, [Next]_vars PROVE FrameMoves
  OBVIOUS
<1> USE ParametersAssumption DEF Typed, TypeOK, WireType, SessionType, ControlType, ThreadType,
        WorkOK, Threads, Reader, Sweeper, None, ReaderPcs, SweeperPcs, TargetPcs, Busy,
        wireVars, mapVars, dataVars, ctlVars, locVars, Go, Settle, After, Noticing,
        CallClose, Find, HasSocket, Ending, Frames, Ended, FrameMoves
<1>1. ASSUME NEW t \in Threads, CloseSession(t) PROVE FrameMoves
  <2>1. CASE CloseErase(t)
    BY <2>1 DEF CloseErase
  <2>2. CASE CloseTest(t)
    BY <2>2 DEF CloseTest
  <2>3. CASE CloseRelease(t)
    BY <2>3 DEF CloseRelease
  <2>4. CASE CloseNotice(t)
    BY <2>4 DEF CloseNotice
  <2> QED
    BY <1>1, <2>1, <2>2, <2>3, <2>4 DEF CloseSession
<1>2. CASE HandleConnect
  <2>1. CASE RecvBadConnect
    BY <2>1 DEF RecvBadConnect
  <2>2. ASSUME NEW s \in Ids, RecvRefusedConnect(s) \/ RecvOtherMode(s) PROVE FrameMoves
    BY <2>2 DEF RecvRefusedConnect, RecvOtherMode
  <2>3. ASSUME NEW s \in Ids, RecvConnect(s) PROVE FrameMoves
    BY <2>3 DEF RecvConnect
  <2>4. CASE Insert
    BY <2>4 DEF Insert
  <2>5. CASE GuardAccepts
    BY <2>5 DEF GuardAccepts
  <2>6. CASE SayGuardError
    <3>1. PICK s \in Ids : Send(s, "error")
      BY <2>6 DEF SayGuardError, Send
    <3> QED
      BY <3>1
  <2>7. CASE GuardErase
    BY <2>7 DEF GuardErase
  <2>8. CASE SayDialError
    <3>1. PICK s \in Ids : Send(s, "error")
      BY <2>8 DEF SayDialError, Send
    <3> QED
      BY <3>1
  <2>9. CASE DialSucceeds
    BY <2>9 DEF DialSucceeds
  <2>10. CASE CheckRegistered
    BY <2>10 DEF CheckRegistered
  <2>11. CASE SayConnected
    <3>1. PICK s \in Ids : Send(s, "connected")
      BY <2>11 DEF SayConnected, Send
    <3> QED
      BY <3>1
  <2>12. CASE SpawnTargetThread
    BY <2>12 DEF SpawnTargetThread
  <2>13. CASE SayRefused \/ GuardRefuses \/ DialFails
    BY <2>13 DEF SayRefused, GuardRefuses, DialFails
  <2> QED
    BY <1>2, <2>1, <2>2, <2>3, <2>4, <2>5, <2>6, <2>7, <2>8, <2>9, <2>10, <2>11,
        <2>12, <2>13 DEF HandleConnect
<1>3. CASE EndConnection
  <2>1. CASE RecvWsClose
    BY <2>1 DEF RecvWsClose
  <2>2. CASE RecvEof
    BY <2>2 DEF RecvEof
  <2>3. CASE FailConnection
    BY <2>3 DEF FailConnection
  <2>4. CASE Stop
    BY <2>4 DEF Stop
  <2>5. CASE DestroyClear
    BY <2>5 DEF DestroyClear
  <2>6. CASE DestroyOne
    BY <2>6 DEF DestroyOne, Send
  <2>7. CASE DestroyDone
    BY <2>7 DEF DestroyDone
  <2>8. CASE JoinWorkers
    BY <2>8 DEF JoinWorkers
  <2> QED
    BY <1>3, <2>1, <2>2, <2>3, <2>4, <2>5, <2>6, <2>7, <2>8 DEF EndConnection
<1>4. CASE WriteTarget
  BY <1>4 DEF WriteTarget
<1>5. CASE ShutdownTarget
  BY <1>5 DEF ShutdownTarget
<1>6. ASSUME NEW s \in Ids, RecvData(s) PROVE FrameMoves
  BY <1>6 DEF RecvData
<1>7. ASSUME NEW s \in Ids, RecvHalfClose(s) PROVE FrameMoves
  BY <1>7 DEF RecvHalfClose
<1>8. ASSUME NEW s \in Ids, RecvClose(s) PROVE FrameMoves
  BY <1>8 DEF RecvClose
<1>9. CASE SweeperStep
  BY <1>1, <1>9
  DEF SweeperStep, SweeperWait, SweepCollect, SweepNext, SweepDone
<1>10. ASSUME NEW s \in Ids, TargetStep(s) PROVE FrameMoves
  <2>1. CASE TargetLoop(s)
    BY <2>1 DEF TargetLoop
  <2>2. CASE TargetEof(s)
    BY <2>2 DEF TargetEof
  <2>3. CASE TargetTimeout(s)
    BY <2>3 DEF TargetTimeout
  <2>4. CASE TargetIdle(s)
    BY <2>4 DEF TargetIdle
  <2>5. CASE TargetReadReleased(s)
    BY <2>5 DEF TargetReadReleased
  <2>6. CASE TargetData(s)
    BY <2>6 DEF TargetData
  <2>7. CASE TargetForward(s)
    BY <2>7 DEF TargetForward
  <2>8. CASE TargetForwardFails(s)
    BY <2>8 DEF TargetForwardFails
  <2> QED
    BY <1>10, <1>1, <2>1, <2>2, <2>3, <2>4, <2>5, <2>6, <2>7, <2>8 DEF TargetStep
<1>11. CASE NetDown
  BY <1>11 DEF NetDown
<1>12. ASSUME NEW s \in Ids, Expire(s) PROVE FrameMoves
  BY <1>12 DEF Expire
<1>13. CASE UNCHANGED vars
  BY <1>13 DEF vars
<1> QED
  BY <1>1, <1>2, <1>3, <1>4, <1>5, <1>6, <1>7, <1>8, <1>9, <1>10, <1>11, <1>12, <1>13
  DEF Next, ReaderStep, Terminating

(* The notice of a session is the last thing its closer does.              *)
LEMMA NoticeEnds ==
  ASSUME Inv, NEW t \in Threads, CloseNotice(t)
  PROVE  \E r \in Ids : EndAhead(r) /\ ~EndAhead(r)' /\ Send(r, "close")
                      /\ r \in used \ Pending /\ r \notin sessions
<1> USE ParametersAssumption DEF Inv, Typed, TypeOK, ThreadType, SessionType, WorkOK, Threads,
        Reader, Sweeper, None, Busy, mapVars, locVars, Go, After, Closing
<1>1. PICK r \in Ids : pc[t] = "notice" /\ cur[t] = r /\ Send(r, "close") /\ r \in used
  BY DEF CloseNotice, Send, TargetPcs
<1>2. pc' = [pc EXCEPT ![t] = After(t)] /\ UNCHANGED <<sessions, used, todo>>
  BY DEF CloseNotice
<1>3. r \notin sessions
  BY <1>1 DEF Exclusive
<1>4. ~(pc'[Reader] = "insert" /\ cur'[Reader] = r)
  <2>1. CASE t = Reader
    BY <1>2, <2>1
  <2>2. CASE t # Reader
    BY <1>1, <1>2, <2>2 DEF CloseNotice, Settle, PendingFresh
  <2> QED
    BY <2>1, <2>2
<1>5. ~(pc'[Reader] = "drain" /\ r \in todo'[Reader])
  <2>1. CASE t = Reader
    BY <1>2, <2>1
  <2>2. CASE t # Reader
    BY <1>1, <1>2, <2>2 DEF Exclusive
  <2> QED
    BY <2>1, <2>2
<1>6. ASSUME NEW u \in Threads, pc'[u] \in Closing, cur'[u] = r PROVE FALSE
  <2>1. u # t
    BY <1>2, <1>6
  <2>2. pc[u] \in Closing /\ cur[u] = r
    BY <1>2, <1>6, <2>1 DEF CloseNotice, Settle
  <2> QED
    BY <1>1, <2>1, <2>2 DEF Exclusive
<1>7. r \notin Pending
  BY <1>1 DEF PendingFresh, Pending
<1> QED
  BY <1>1, <1>2, <1>3, <1>4, <1>5, <1>6, <1>7 DEF EndAhead

LEMMA NextNotice == Inv /\ Ended /\ NoticeLast /\ [Next]_vars => NoticeLast'
<1> SUFFICES ASSUME Inv, Ended, NoticeLast, [Next]_vars, NEW s \in Ids, EndAhead(s)'
             PROVE ~Says(s, "close")'
  BY DEF NoticeLast
<1> USE DEF Frames
<1>1. Typed /\ sent \in [Ids -> Seq(Frames)] /\ ~Says(s, "close") /\ EndAhead(s)
  BY EndsOnce DEF Inv, Typed, TypeOK, WireType, NoticeLast
<1>2. CASE sent' = sent
  BY <1>1, <1>2, SameSays
<1>3. ASSUME NEW r \in Ids, NEW f \in Frames \ {"close"}, Send(r, f) PROVE ~Says(s, "close")'
  BY <1>1, <1>3, SendSays
<1>4. ASSUME NEW t \in Threads, CloseNotice(t) PROVE ~Says(s, "close")'
  <2>1. PICK r \in Ids : ~EndAhead(r)' /\ Send(r, "close")
    BY <1>4, NoticeEnds
  <2> QED
    BY <1>1, <2>1, SendSays
<1> QED
  BY <1>1, <1>2, <1>3, <1>4, FramesMove DEF FrameMoves

(* A frame leaves OneCloseNotice alone unless it is a second notice.       *)
LEMMA SendOnce ==
  ASSUME sent \in [Ids -> Seq(Frames)], OneCloseNotice, NEW r \in Ids, NEW f \in Frames,
         Send(r, f), f = "close" => ~Says(r, "close")
  PROVE  OneCloseNotice'
<1> SUFFICES ASSUME NEW s \in Ids, NEW i \in 1 .. Len(sent'[s]), NEW j \in 1 .. Len(sent'[s]),
                    sent'[s][i] = "close", sent'[s][j] = "close"
             PROVE  i = j
  BY DEF OneCloseNotice
<1>1. CASE sent'[s] = sent[s]
  BY <1>1 DEF OneCloseNotice
<1>2. CASE s = r /\ sent'[s] = Append(sent[s], f)
  <2>1. sent[s] \in Seq(Frames)
    OBVIOUS
  <2>2. /\ Len(sent'[s]) = Len(sent[s]) + 1 /\ sent'[s][Len(sent[s]) + 1] = f
        /\ \A n \in 1 .. Len(sent[s]) : sent'[s][n] = sent[s][n]
    BY <1>2, <2>1
  <2>3. CASE f = "close"
    BY <1>2, <2>1, <2>2, <2>3 DEF Says
  <2>4. CASE f # "close"
    BY <1>2, <2>1, <2>2, <2>4 DEF OneCloseNotice
  <2> QED
    BY <2>3, <2>4
<1> QED
  BY <1>1, <1>2 DEF Send

LEMMA NextOneNotice == Inv /\ Ended /\ NoticeLast /\ OneCloseNotice /\ [Next]_vars => OneCloseNotice'
<1> SUFFICES ASSUME Inv, Ended, NoticeLast, OneCloseNotice, [Next]_vars PROVE OneCloseNotice'
  OBVIOUS
<1> USE DEF Frames
<1>1. Typed /\ sent \in [Ids -> Seq(Frames)]
  BY DEF Inv, Typed, TypeOK, WireType
<1>2. CASE sent' = sent
  BY <1>2 DEF OneCloseNotice
<1>3. ASSUME NEW r \in Ids, NEW f \in Frames \ {"close"}, Send(r, f) PROVE OneCloseNotice'
  BY <1>1, <1>3, SendOnce
<1>4. ASSUME NEW t \in Threads, CloseNotice(t) PROVE OneCloseNotice'
  <2>1. PICK r \in Ids : EndAhead(r) /\ Send(r, "close")
    BY <1>4, NoticeEnds
  <2>2. ~Says(r, "close")
    BY <2>1 DEF NoticeLast
  <2> QED
    BY <1>1, <2>1, <2>2, SendOnce
<1> QED
  BY <1>1, <1>2, <1>3, <1>4, FramesMove DEF FrameMoves

-----------------------------------------------------------------------------
(* The invariant of this module.                                           *)

Kept ==
  /\ Inv /\ Ended /\ Dialed /\ Unanswered /\ Opened /\ Bounded
  /\ NoticeLast /\ OneCloseNotice

LEMMA InitKept == Init => Kept
<1> SUFFICES ASSUME Init PROVE Kept
  OBVIOUS
<1> USE ParametersAssumption DEF Init, Threads, Reader, Sweeper, None
<1>1. Inv
  BY InitInv
<1>2. Ended /\ Dialed
  BY DEF Ended, Dialed, Ending
<1>3. \A s \in Ids : sent[s] = <<>>
  OBVIOUS
<1>4. \A s \in Ids, f \in Frames : ~Says(s, f)
  BY <1>3 DEF Says
<1>5. Unanswered /\ Opened /\ NoticeLast /\ OneCloseNotice
  BY <1>3, <1>4 DEF Unanswered, Opened, NoticeLast, OneCloseNotice, Frames
<1>6. Bounded
  BY FS_EmptySet DEF Bounded
<1> QED
  BY <1>1, <1>2, <1>5, <1>6 DEF Kept

LEMMA NextKept == Kept /\ [Next]_vars => Kept'
<1> SUFFICES ASSUME Kept, [Next]_vars PROVE Kept'
  OBVIOUS
<1>1. Typed /\ PendingFresh
  BY DEF Kept, Inv
<1>2. Inv' /\ Ended' /\ Dialed' /\ Unanswered'
  BY <1>1, NextInv, NextEnded, NextDialed, NextUnanswered DEF Kept
<1>3. Opened' /\ Bounded' /\ NoticeLast' /\ OneCloseNotice'
  BY <1>1, NextOpened, NextBounded, NextNotice, NextOneNotice DEF Kept
<1> QED
  BY <1>2, <1>3 DEF Kept

LEMMA KeptHolds == Spec => []Kept
<1>1. Init => Kept
  BY InitKept
<1>2. Kept /\ [Next]_vars => Kept'
  BY NextKept
<1> QED
  BY <1>1, <1>2, PTL DEF Spec

(* maxSessionsPerConnection holds although it is tested in one critical    *)
(* section of handleConnect and the session is inserted in another one.    *)
THEOREM LimitHolds == Spec => []SessionLimit
<1>1. Kept => SessionLimit
  BY DEF Kept, Bounded, SessionLimit
<1> QED
  BY <1>1, KeptHolds, PTL

(* Whoever closes a session, the client gets at most one close frame.      *)
THEOREM OneNotice == Spec => []OneCloseNotice
<1>1. Kept => OneCloseNotice
  BY DEF Kept
<1> QED
  BY <1>1, KeptHolds, PTL

-----------------------------------------------------------------------------
(* The refinement.                                                         *)

Implements == Contract!Next \/ UNCHANGED Contract!vars

(* A step nobody outside can see.                                          *)
Quiet == UNCHANGED <<sessions, socket, sent>> /\ (used \ Pending)' = used \ Pending

Eventful ==
  \/ \E t \in Threads : CloseErase(t) \/ CloseRelease(t) \/ CloseNotice(t)
  \/ Insert \/ SayGuardError \/ GuardErase
  \/ SayDialError \/ DialSucceeds \/ CheckRegistered \/ SayConnected
  \/ ShutdownTarget \/ DestroyClear \/ DestroyOne
  \/ \E s \in Ids : TargetForward(s)

LEMMA QuietSteps == Typed /\ [Next]_vars => Quiet \/ Eventful
<1> SUFFICES ASSUME Typed, [Next]_vars PROVE Quiet \/ Eventful
  OBVIOUS
<1> DEFINE Goal == Quiet \/ Eventful
<1> USE ParametersAssumption DEF Typed, TypeOK, SessionType, ThreadType,
        WorkOK, Threads, Reader, Sweeper, None, ReaderPcs, SweeperPcs, TargetPcs, Busy,
        wireVars, mapVars, dataVars, ctlVars, locVars, Go, Settle, After, Noticing,
        CallClose, Find, HasSocket, Quiet, Pending
<1>1. ASSUME NEW t \in Threads, CloseSession(t) PROVE Goal
  <2>1. CASE CloseErase(t)
    BY <2>1 DEF Eventful
  <2>2. CASE CloseTest(t)
    BY <2>2 DEF CloseTest
  <2>3. CASE CloseRelease(t)
    BY <2>3 DEF Eventful
  <2>4. CASE CloseNotice(t)
    BY <2>4 DEF Eventful
  <2> QED
    BY <1>1, <2>1, <2>2, <2>3, <2>4 DEF CloseSession
<1>2. CASE HandleConnect
  <2>1. CASE RecvBadConnect
    BY <2>1 DEF RecvBadConnect
  <2>2. ASSUME NEW s \in Ids, RecvRefusedConnect(s) \/ RecvOtherMode(s) PROVE Goal
    BY <2>2 DEF RecvRefusedConnect, RecvOtherMode
  <2>3. ASSUME NEW s \in Ids, RecvConnect(s) PROVE Goal
    BY <2>3 DEF RecvConnect
  <2>4. CASE Insert
    BY <2>4 DEF Eventful
  <2>5. CASE GuardAccepts
    BY <2>5 DEF GuardAccepts
  <2>6. CASE SayGuardError
    BY <2>6 DEF Eventful
  <2>7. CASE GuardErase
    BY <2>7 DEF Eventful
  <2>8. CASE SayDialError
    BY <2>8 DEF Eventful
  <2>9. CASE DialSucceeds
    BY <2>9 DEF Eventful
  <2>10. CASE CheckRegistered
    BY <2>10 DEF Eventful
  <2>11. CASE SayConnected
    BY <2>11 DEF Eventful
  <2>12. CASE SpawnTargetThread
    BY <2>12 DEF SpawnTargetThread
  <2>13. CASE SayRefused \/ GuardRefuses \/ DialFails
    BY <2>13 DEF SayRefused, GuardRefuses, DialFails
  <2> QED
    BY <1>2, <2>1, <2>2, <2>3, <2>4, <2>5, <2>6, <2>7, <2>8, <2>9, <2>10, <2>11,
        <2>12, <2>13 DEF HandleConnect
<1>3. CASE EndConnection
  <2>1. CASE RecvWsClose
    BY <2>1 DEF RecvWsClose
  <2>2. CASE RecvEof
    BY <2>2 DEF RecvEof
  <2>3. CASE FailConnection
    BY <2>3 DEF FailConnection
  <2>4. CASE Stop
    BY <2>4 DEF Stop
  <2>5. CASE DestroyClear
    BY <2>5 DEF Eventful
  <2>6. CASE DestroyOne
    BY <2>6 DEF Eventful
  <2>7. CASE DestroyDone
    BY <2>7 DEF DestroyDone
  <2>8. CASE JoinWorkers
    BY <2>8 DEF JoinWorkers
  <2> QED
    BY <1>3, <2>1, <2>2, <2>3, <2>4, <2>5, <2>6, <2>7, <2>8 DEF EndConnection
<1>4. CASE WriteTarget
  BY <1>4 DEF WriteTarget
<1>5. CASE ShutdownTarget
  BY <1>5 DEF Eventful
<1>6. ASSUME NEW s \in Ids, RecvData(s) PROVE Goal
  BY <1>6 DEF RecvData
<1>7. ASSUME NEW s \in Ids, RecvHalfClose(s) PROVE Goal
  BY <1>7 DEF RecvHalfClose
<1>8. ASSUME NEW s \in Ids, RecvClose(s) PROVE Goal
  BY <1>8 DEF RecvClose
<1>9. CASE SweeperStep
  <2>1. CASE SweeperWait
    BY <2>1 DEF SweeperWait
  <2>2. CASE SweepCollect
    BY <2>2 DEF SweepCollect
  <2>3. CASE SweepNext
    BY <2>3 DEF SweepNext
  <2>4. CASE SweepDone
    BY <2>4 DEF SweepDone
  <2> QED
    BY <1>9, <1>1, <2>1, <2>2, <2>3, <2>4 DEF SweeperStep
<1>10. ASSUME NEW s \in Ids, TargetStep(s) PROVE Goal
  <2>1. CASE TargetLoop(s)
    BY <2>1 DEF TargetLoop
  <2>2. CASE TargetEof(s)
    BY <2>2 DEF TargetEof
  <2>3. CASE TargetTimeout(s)
    BY <2>3 DEF TargetTimeout
  <2>4. CASE TargetIdle(s)
    BY <2>4 DEF TargetIdle
  <2>5. CASE TargetReadReleased(s)
    BY <2>5 DEF TargetReadReleased
  <2>6. CASE TargetData(s)
    BY <2>6 DEF TargetData
  <2>7. CASE TargetForward(s)
    BY <2>7 DEF Eventful
  <2>8. CASE TargetForwardFails(s)
    BY <2>8 DEF TargetForwardFails
  <2> QED
    BY <1>10, <1>1, <2>1, <2>2, <2>3, <2>4, <2>5, <2>6, <2>7, <2>8 DEF TargetStep
<1>11. CASE NetDown
  BY <1>11 DEF NetDown
<1>12. ASSUME NEW s \in Ids, Expire(s) PROVE Goal
  BY <1>12 DEF Expire
<1>13. CASE UNCHANGED vars
  BY <1>13 DEF vars
<1> QED
  BY <1>1, <1>2, <1>3, <1>4, <1>5, <1>6, <1>7, <1>8, <1>9, <1>10, <1>11, <1>12, <1>13
  DEF Next, ReaderStep, Terminating

LEMMA Tells ==
  ASSUME NEW s \in Ids, NEW f \in Frames, Send(s, f),
         UNCHANGED <<sessions, socket>>, (used \ Pending)' = used \ Pending,
         ws = "open" /\ net => Contract!MayTell(s, f)
  PROVE  Implements
<1>1. CASE ws = "open" /\ net
  <2>1. Contract!Tell(s, f)
    BY <1>1 DEF Send, Contract!Tell
  <2> QED
    BY <2>1 DEF Implements, Contract!Next, Frames
<1>2. CASE ~(ws = "open" /\ net)
  BY <1>2 DEF Send, Implements, Contract!vars
<1> QED
  BY <1>1, <1>2

LEMMA Retires ==
  ASSUME NEW S \in SUBSET Ids, sessions' = sessions \ S,
         UNCHANGED <<socket, sent>>, (used \ Pending)' = used \ Pending
  PROVE  Implements
<1>1. Contract!Retire(S)
  BY DEF Contract!Retire
<1> QED
  BY <1>1 DEF Implements, Contract!Next

LEMMA Admits ==
  ASSUME NEW s \in Ids, s \notin used \ Pending, Cardinality(sessions) < MaxSessions,
         sessions' = sessions \cup {s}, (used \ Pending)' = (used \ Pending) \cup {s},
         UNCHANGED <<socket, sent>>
  PROVE  Implements
<1>1. Contract!Cardinality(sessions) = Cardinality(sessions)
  BY DEF Contract!Cardinality, Cardinality
<1>2. Contract!Admit(s)
  BY <1>1 DEF Contract!Admit
<1> QED
  BY <1>2 DEF Implements, Contract!Next

LEMMA Closes ==
  ASSUME NEW s \in Ids, s \notin sessions, HasSocket(s),
         socket' = [socket EXCEPT ![s] = "closed"],
         UNCHANGED <<sessions, sent>>, (used \ Pending)' = used \ Pending
  PROVE  Implements
<1>1. Contract!Close(s)
  BY DEF Contract!Close, HasSocket
<1> QED
  BY <1>1 DEF Implements, Contract!Next

LEMMA NextImplements == Kept /\ [Next]_vars => Implements
<1> SUFFICES ASSUME Kept, [Next]_vars PROVE Implements
  OBVIOUS
<1> USE ParametersAssumption DEF Kept, Inv, Typed, TypeOK, ThreadType, SessionType, WorkOK,
    Busy,
        Threads, Reader, Sweeper, None, TargetPcs, wireVars, mapVars, dataVars, ctlVars, locVars, Go
<1>1. CASE Quiet
  BY <1>1 DEF Quiet, Implements, Contract!vars
<1>2. ASSUME NEW t \in Threads, CloseErase(t) PROVE Implements
  <2>1. PICK S \in SUBSET Ids : sessions' = sessions \ S
    <3>1. PICK s \in Ids : cur[t] = s
      BY <1>2 DEF CloseErase
    <3>2. sessions' = sessions \ {s}
      BY <1>2, <3>1 DEF CloseErase
    <3> QED
      BY <3>2
  <2>2. UNCHANGED <<socket, sent>> /\ (used \ Pending)' = used \ Pending
    BY <1>2 DEF CloseErase, After, Settle, Pending
  <2> QED
    BY <2>1, <2>2, Retires
<1>3. ASSUME NEW t \in Threads, CloseRelease(t) PROVE Implements
  <2>1. PICK s \in Ids : pc[t] = "release" /\ cur[t] = s /\ s \notin sessions
    <3>1. PICK s \in Ids : pc[t] = "release" /\ cur[t] = s
      BY <1>3 DEF CloseRelease
    <3> QED
      BY <3>1 DEF Exclusive, Closing
  <2>2. UNCHANGED <<sessions, sent>> /\ (used \ Pending)' = used \ Pending
    BY <1>3 DEF CloseRelease, After, Noticing, Settle, Pending
  <2>3. CASE HasSocket(s)
    BY <1>3, <2>1, <2>2, <2>3, Closes DEF CloseRelease
  <2>4. CASE ~HasSocket(s)
    BY <1>1, <1>3, <2>1, <2>2, <2>4 DEF CloseRelease, Quiet
  <2> QED
    BY <2>3, <2>4
<1>4. ASSUME NEW t \in Threads, CloseNotice(t) PROVE Implements
  <2>1. PICK r \in Ids : EndAhead(r) /\ Send(r, "close") /\ r \in used \ Pending /\ r \notin sessions
    BY <1>4, NoticeEnds
  <2>2. UNCHANGED <<sessions, socket>> /\ (used \ Pending)' = used \ Pending
    BY <1>4 DEF CloseNotice, After, Settle, Pending
  <2>3. Contract!MayTell(r, "close")
    BY <2>1 DEF NoticeLast, Says, Contract!MayTell, Contract!Told
  <2> QED
    BY <2>1, <2>2, <2>3, Tells DEF Frames
<1>5. CASE Insert
  <2>1. PICK s \in Ids : cur[Reader] = s /\ pc[Reader] = "insert" /\ s \in used
    BY <1>5 DEF Insert
  <2>2. Cardinality(sessions) < MaxSessions
    BY <2>1 DEF Bounded
  <2>3. pc'[Reader] = "guard"
    BY <1>5 DEF Insert, ReaderPcs
  <2>4. (used \ Pending)' = (used \ Pending) \cup {s} /\ s \notin used \ Pending
    BY <1>5, <2>1, <2>3 DEF Insert, Pending
  <2>5. sessions' = sessions \cup {s} /\ UNCHANGED <<socket, sent>>
    BY <1>5, <2>1 DEF Insert
  <2> QED
    BY <2>2, <2>4, <2>5, Admits
<1>6. CASE SayGuardError \/ SayDialError
  <2>1. PICK s \in Ids : cur[Reader] = s /\ s \in used /\ Send(s, "error")
                         /\ pc[Reader] \in {"refused", "failed"}
    BY <1>6 DEF SayGuardError, SayDialError, Send
  <2>2. UNCHANGED <<sessions, socket>> /\ (used \ Pending)' = used \ Pending
    BY <1>6 DEF SayGuardError, SayDialError, Pending
  <2>3. socket[s] = "none" /\ ~Says(s, "error") /\ s \notin Pending
    BY <2>1 DEF NotDialed, Unanswered, Pending
  <2>4. Contract!MayTell(s, "error")
    BY <2>1, <2>3 DEF Says, Contract!MayTell, Contract!Told
  <2> QED
    BY <2>1, <2>2, <2>4, Tells DEF Frames
<1>7. CASE GuardErase
  <2>1. UNCHANGED <<socket, sent>> /\ (used \ Pending)' = used \ Pending
    BY <1>7 DEF GuardErase, Pending
  <2>2. PICK S \in SUBSET Ids : sessions' = sessions \ S
    <3>1. PICK s \in Ids : cur[Reader] = s
      BY <1>7 DEF GuardErase
    <3> QED
      BY <1>7, <3>1 DEF GuardErase
  <2> QED
    BY <2>1, <2>2, Retires
<1>8. CASE DialSucceeds
  <2>1. PICK s \in Ids : cur[Reader] = s /\ s \in used /\ pc[Reader] = "dial"
    BY <1>8 DEF DialSucceeds
  <2>2. UNCHANGED <<sessions, sent>> /\ (used \ Pending)' = used \ Pending
    BY <1>8 DEF DialSucceeds, Pending
  <2>3. socket[s] = "none" /\ s \notin Pending
    BY <2>1 DEF NotDialed, Pending
  <2>4. Contract!Open(s)
    BY <1>8, <2>1, <2>2, <2>3 DEF DialSucceeds, Contract!Open
  <2> QED
    BY <2>4 DEF Implements, Contract!Next
<1>9. CASE CheckRegistered
  <2>1. PICK s \in Ids : cur[Reader] = s /\ pc[Reader] = "check" /\ ~closed
    BY <1>9 DEF CheckRegistered, Ended, Ending
  <2>2. UNCHANGED <<sessions, sent>> /\ (used \ Pending)' = used \ Pending
    BY <1>9 DEF CheckRegistered, Settle, Pending
  <2>3. CASE s \notin sessions /\ HasSocket(s)
    BY <1>9, <2>1, <2>2, <2>3, Closes DEF CheckRegistered
  <2>4. CASE ~(s \notin sessions /\ HasSocket(s))
    <3>1. s \in sessions \/ socket[s] = "closed"
      BY <2>1, <2>4 DEF Dialed, HasSocket
    <3>2. CASE s \in sessions
      BY <1>1, <1>9, <2>1, <2>2, <3>2 DEF CheckRegistered, Quiet
    <3>3. CASE socket[s] = "closed"
      <4>1. socket' = socket \/ socket' = [socket EXCEPT ![s] = "closed"]
        BY <1>9, <2>1 DEF CheckRegistered
      <4>2. [socket EXCEPT ![s] = "closed"] = socket
        BY <3>3
      <4>3. socket' = socket
        BY <4>1, <4>2
      <4> QED
        BY <1>1, <2>2, <4>3 DEF Quiet
    <3> QED
      BY <3>1, <3>2, <3>3
  <2> QED
    BY <2>3, <2>4
<1>10. CASE SayConnected
  <2>1. PICK s \in Ids : cur[Reader] = s /\ pc[Reader] = "connected" /\ Send(s, "connected")
    BY <1>10 DEF SayConnected, Send
  <2>2. UNCHANGED <<sessions, socket>> /\ (used \ Pending)' = used \ Pending
    BY <1>10 DEF SayConnected, Pending
  <2>3. socket[s] # "none" /\ ~Says(s, "connected")
    BY <2>1 DEF Dialed, Unanswered
  <2>4. Contract!MayTell(s, "connected")
    BY <2>3 DEF Says, Contract!MayTell, Contract!Told
  <2> QED
    BY <2>1, <2>2, <2>4, Tells DEF Frames
<1>11. CASE ShutdownTarget
  <2>1. PICK s \in Ids : cur[Reader] = s
    BY <1>11 DEF ShutdownTarget
  <2>2. UNCHANGED <<sessions, sent>> /\ (used \ Pending)' = used \ Pending
    BY <1>11 DEF ShutdownTarget, Settle, Pending
  <2>3. CASE socket' = [socket EXCEPT ![s] = "half"] /\ socket[s] = "open"
    <3>1. Contract!HalfClose(s)
      BY <2>2, <2>3 DEF Contract!HalfClose
    <3> QED
      BY <3>1 DEF Implements, Contract!Next
  <2>4. CASE socket' = socket
    BY <1>1, <2>2, <2>4 DEF Quiet
  <2>5. socket' = socket \/ (HasSocket(s) /\ socket' = [socket EXCEPT ![s] = "half"])
    BY <1>11, <2>1 DEF ShutdownTarget
  <2>6. CASE socket[s] = "half" /\ socket' = [socket EXCEPT ![s] = "half"]
    BY <2>4, <2>6
  <2> QED
    BY <2>3, <2>4, <2>5, <2>6 DEF HasSocket
<1>12. CASE DestroyClear
  <2>1. sessions' = sessions \ Ids
    BY <1>12 DEF DestroyClear
  <2>2. UNCHANGED <<socket, sent>> /\ (used \ Pending)' = used \ Pending
    BY <1>12 DEF DestroyClear, Pending
  <2> QED
    BY <2>1, <2>2, Retires
<1>13. CASE DestroyOne
  <2>1. sessions = {} /\ ws = "closed"
    BY <1>13 DEF DestroyOne, Exclusive, Ended, Ending
  <2>2. UNCHANGED <<sessions, sent>> /\ (used \ Pending)' = used \ Pending
    BY <1>13, <2>1 DEF DestroyOne, Send, Pending
  <2>3. PICK s \in Ids : socket' = IF HasSocket(s) THEN [socket EXCEPT ![s] = "closed"] ELSE socket
    BY <1>13 DEF DestroyOne
  <2>4. CASE HasSocket(s)
    BY <2>1, <2>2, <2>3, <2>4, Closes
  <2>5. CASE ~HasSocket(s)
    BY <1>1, <2>2, <2>3, <2>5 DEF Quiet
  <2> QED
    BY <2>4, <2>5
<1>14. ASSUME NEW s \in Ids, TargetForward(s) PROVE Implements
  <2>1. pc[s] = "send" /\ Send(s, "data") /\ s \in used
    BY <1>14 DEF TargetForward
  <2>2. UNCHANGED <<sessions, socket>> /\ (used \ Pending)' = used \ Pending
    BY <1>14 DEF TargetForward, Pending
  <2>3. ws = "open" /\ net => Says(s, "connected")
    BY <2>1 DEF Opened
  <2>4. ws = "open" /\ net => Contract!MayTell(s, "data")
    BY <2>3 DEF Says, Contract!MayTell, Contract!Told
  <2> QED
    BY <2>1, <2>2, <2>4, Tells DEF Frames
<1> QED
  BY <1>1, <1>2, <1>3, <1>4, <1>5, <1>6, <1>7, <1>8, <1>9, <1>10, <1>11, <1>12, <1>13, <1>14,
     QuietSteps DEF Eventful

(* The threads of the manager, the sweeper and the targets together        *)
(* implement the life cycle of SessionContract: what the client is told    *)
(* about a session, and when, and what happens to its target socket.       *)
THEOREM ManagerImplements == Spec => ImplementsContract
<1>1. Init => Contract!Init
  BY DEF Init, Contract!Init
<1>2. Kept /\ [Next]_vars => [Contract!Next]_(Contract!vars)
  BY NextImplements DEF Implements
<1> QED
  BY <1>1, <1>2, KeptHolds, PTL DEF Spec, ImplementsContract, Contract!Spec
=============================================================================
