-------------------------- MODULE WebSocketProofs --------------------------
(***************************************************************************)
(* Proofs about WebSocket: writeMutex_ keeps one frame on the wire at a    *)
(* time, messages arrive whole and in the order of their writer, and the   *)
(* end of a connection is reported, for every set of writers, whatever     *)
(* they send.                                                              *)
(***************************************************************************)
EXTENDS WebSocket, SequenceTheorems, TLAPS

Bodies == Seq(Writers \X Nat \X Nat)

ReaderPcs == {"top", "recv", "lock", "send", "ending", "closeStream", "emit", "emitSet", "done"}
CloserPcs == {"idle", "lock", "send", "terminate", "closeStream", "emit", "emitSet", "done"}
SenderPcs == {"idle", "lock", "send"}
Reporting == {"closeStream", "emit", "emitSet"}

Enders == {Reader("client"), Reader("server"), Closer}

-----------------------------------------------------------------------------
(* The invariant.                                                          *)

(* Where each kind of thread can be.                                       *)
Locals ==
  /\ \A e \in Ends : pc[Reader(e)] \in ReaderPcs
  /\ pc[Closer] \in CloserPcs
  /\ \A t \in Writers \cup {Pinger} : pc[t] \in SenderPcs

(* closeEmitted_ says whether closeHandler_ has been called, which each of *)
(* the threads that may call it does at most once.                         *)
Counted ==
  /\ \A e \in Ends : emitted[e] <=> told[e] # 0
  /\ told["server"] = 0 \/ (told["server"] = 1 /\ pc[Reader("server")] = "done")
  /\ told["client"] = 2 => pc[Reader("client")] = "done" /\ pc[Closer] = "done"
  /\ told["client"] = 1 => pc[Reader("client")] = "done" \/ pc[Closer] = "done"

(* Whoever has made the state Closed reports the end, or has done so.      *)
Reported ==
  /\ state["server"] = "Closed" => pc[Reader("server")] \in Reporting \cup {"done"}
  /\ state["client"] = "Closed" =>
       pc[Reader("client")] \in Reporting \cup {"done"} \/ pc[Closer] \in Reporting \cup {"done"}
  /\ pc[Reader("server")] = "done" => told["server"] # 0
  /\ pc[Reader("client")] = "done" => told["client"] # 0 \/ pc[Closer] \in Reporting
  /\ pc[Closer] = "done" => told["client"] # 0

(* TypeOK in parts.                                                        *)
StateTypes ==
  /\ state \in [Ends -> {"Open", "Closing", "Closed"}]
  /\ fd \in [Ends -> BOOLEAN]
  /\ emitted \in [Ends -> BOOLEAN]
  /\ told \in [Ends -> 0 .. 2]
  /\ pings \in 0 .. MaxPings
  /\ cut \in BOOLEAN

WireTypes ==
  /\ wire \in [Ends -> Seq(FrameType)] /\ \A e \in Ends : Len(wire[e]) <= Room
  /\ frag \in [Ends -> Bodies]
  /\ out \in [Threads -> FrameType]
  /\ pos \in [Writers -> Nat \X Nat]
  /\ ok \in [Writers -> Nat]

LockTypes ==
  /\ pc \in [Threads -> {"idle", "lock", "send", "terminate", "closeStream", "emit",
                         "emitSet", "top", "recv", "ending", "done"}]
  /\ lock \in [Ends -> Threads \cup {NoThread}]
  /\ \A t \in Threads : pc[t] = "send" <=> lock[EndOf(t)] = t

Inv == StateTypes /\ WireTypes /\ LockTypes /\ Locals /\ Counted /\ Reported

LEMMA TypeParts == TypeOK <=> StateTypes /\ WireTypes /\ LockTypes
BY DEF TypeOK, StateTypes, WireTypes, LockTypes, Bodies

-----------------------------------------------------------------------------
(* The threads are different threads.                                      *)
LEMMA Names ==
  /\ \A e \in Ends : Reader(e) \in Threads /\ EndOf(Reader(e)) = e /\ Reader(e) \notin Writers
  /\ Closer \in Threads /\ EndOf(Closer) = "client" /\ Closer \notin Writers
  /\ Pinger \in Threads /\ EndOf(Pinger) = "client" /\ Pinger \notin Writers
  /\ \A e \in Ends : Reader(e) # Closer /\ Reader(e) # Pinger
  /\ Closer # Pinger /\ Reader("client") # Reader("server")
  /\ \A w \in Writers : w \in Threads
  /\ \A t \in Threads : EndOf(t) \in Ends /\ t # NoThread
  /\ \A t \in Threads : t \in Writers \/ t = Pinger \/ t = Closer \/ \E e \in Ends : t = Reader(e)
<1>1. \A w \in Writers : w[1] \notin {"reader", "closer", "pinger"} /\ w[2] \in Ends
  BY WsAssumption
<1>2. \A e \in Ends : Reader(e)[1] = "reader" /\ EndOf(Reader(e)) = e
  BY DEF Reader, EndOf
<1>3. Closer[1] = "closer" /\ EndOf(Closer) = "client"
  BY DEF Closer, EndOf
<1>4. Pinger[1] = "pinger" /\ EndOf(Pinger) = "client"
  BY DEF Pinger, EndOf
<1>5. Reader("client") # Reader("server")
  BY <1>2 DEF Ends
<1>6. \A t \in Threads : t \in Writers \/ t = Pinger \/ t = Closer \/ \E e \in Ends : t = Reader(e)
  BY DEF Threads
<1>7. /\ \A e \in Ends : Reader(e) \in Threads
      /\ Closer \in Threads /\ Pinger \in Threads /\ \A w \in Writers : w \in Threads
  BY DEF Threads
<1>8. \A t \in Threads : EndOf(t) \in Ends
  BY <1>1, <1>2, <1>3, <1>4, <1>6 DEF Ends, EndOf
<1>9. \A t \in Threads : t # NoThread
  BY WsAssumption
<1> QED
  BY <1>1, <1>2, <1>3, <1>4, <1>5, <1>6, <1>7, <1>8, <1>9

LEMMA PeerType == \A e \in Ends : Peer(e) \in Ends
BY DEF Ends, Peer

-----------------------------------------------------------------------------
(* Each part is inductive relative to the ones it rests on.                *)

LEMMA NextLocals == LockTypes /\ Locals /\ [Next]_vars => Locals'
<1> SUFFICES ASSUME LockTypes, Locals, [Next]_vars PROVE Locals'
  OBVIOUS
<1> USE Names, PeerType DEF LockTypes, Locals, Ends, Enders, Arrives, Returned, ReaderPcs,
      CloserPcs, SenderPcs, Go, Write
<1>1. ASSUME NEW e \in Ends, LoopTop(e) PROVE Locals'
  BY <1>1 DEF LoopTop
<1>2. ASSUME NEW e \in Ends, ReadFails(e) PROVE Locals'
  BY <1>2 DEF ReadFails
<1>3. ASSUME NEW e \in Ends, ReadData(e) PROVE Locals'
  BY <1>3 DEF ReadData
<1>4. ASSUME NEW e \in Ends, ReadContinuation(e) PROVE Locals'
  BY <1>4 DEF ReadContinuation
<1>5. ASSUME NEW e \in Ends, ReadPing(e) PROVE Locals'
  BY <1>5 DEF ReadPing
<1>6. ASSUME NEW e \in Ends, ReadPong(e) PROVE Locals'
  BY <1>6 DEF ReadPong
<1>7. ASSUME NEW e \in Ends, ReadClose(e) PROVE Locals'
  <2>1. pc' = [pc EXCEPT ![Reader(e)] = "lock"] \/ pc' = [pc EXCEPT ![Reader(e)] = "ending"]
    BY <1>7 DEF ReadClose
  <2>2. pc[Reader(e)] = "recv"
    BY <1>7 DEF ReadClose
  <2> QED
    BY <2>1, <2>2
<1>8. ASSUME NEW e \in Ends, LoopEnds(e) PROVE Locals'
  BY <1>8 DEF LoopEnds
<1>9. ASSUME NEW t \in Threads, Lock(t) PROVE Locals'
  BY <1>9 DEF Lock
<1>10. ASSUME NEW t \in Threads, Send(t) PROVE Locals'
  BY <1>10 DEF Send
<1>11. ASSUME NEW t \in Enders, CloseStream(t) PROVE Locals'
  BY <1>11 DEF CloseStream
<1>12. ASSUME NEW t \in Enders, EmitTest(t) PROVE Locals'
  BY <1>12 DEF EmitTest
<1>13. ASSUME NEW t \in Enders, EmitSet(t) PROVE Locals'
  BY <1>13 DEF EmitSet
<1>14. ASSUME NEW w \in Writers, SendFragment(w) PROVE Locals'
  BY <1>14 DEF SendFragment
<1>15. CASE sendPing
  BY <1>15 DEF sendPing
<1>16. CASE close
  <2>1. \/ pc' = [pc EXCEPT ![Closer] = "lock"]
        \/ pc' = [pc EXCEPT ![Closer] = "terminate"]
    BY <1>16 DEF close
  <2>2. pc[Closer] = "idle"
    BY <1>16 DEF close
  <2> QED
    BY <2>1, <2>2
<1>17. CASE terminate
  BY <1>17 DEF terminate
<1>18. CASE Cut
  BY <1>18 DEF Cut
<1>19. CASE UNCHANGED vars
  BY <1>19 DEF vars
<1> QED
  BY <1>1, <1>2, <1>3, <1>4, <1>5, <1>6, <1>7, <1>8, <1>9, <1>10, <1>11, <1>12, <1>13, <1>14,
      <1>15, <1>16, <1>17, <1>18, <1>19
  DEF Next, ReadStep, WriteStep, EndStep, Enders

LEMMA NextCounted == StateTypes /\ LockTypes /\ Locals /\ Counted /\ [Next]_vars => Counted'
<1> SUFFICES ASSUME StateTypes, LockTypes, Locals, Counted, [Next]_vars PROVE Counted'
  OBVIOUS
<1> USE Names, PeerType DEF StateTypes, LockTypes, Locals, Counted, Ends, Enders, Arrives,
      Returned, ReaderPcs, CloserPcs, SenderPcs, Go, Write
<1>1. ASSUME NEW e \in Ends, LoopTop(e) PROVE Counted'
  BY <1>1 DEF LoopTop
<1>2. ASSUME NEW e \in Ends, ReadFails(e) PROVE Counted'
  BY <1>2 DEF ReadFails
<1>3. ASSUME NEW e \in Ends, ReadData(e) PROVE Counted'
  BY <1>3 DEF ReadData
<1>4. ASSUME NEW e \in Ends, ReadContinuation(e) PROVE Counted'
  BY <1>4 DEF ReadContinuation
<1>5. ASSUME NEW e \in Ends, ReadPing(e) PROVE Counted'
  BY <1>5 DEF ReadPing
<1>6. ASSUME NEW e \in Ends, ReadPong(e) PROVE Counted'
  BY <1>6 DEF ReadPong
<1>7. ASSUME NEW e \in Ends, ReadClose(e) PROVE Counted'
  <2>1. pc' = [pc EXCEPT ![Reader(e)] = "lock"] \/ pc' = [pc EXCEPT ![Reader(e)] = "ending"]
    BY <1>7 DEF ReadClose
  <2>2. pc[Reader(e)] = "recv" /\ UNCHANGED <<emitted, told>>
    BY <1>7 DEF ReadClose
  <2> QED
    BY <2>1, <2>2
<1>8. ASSUME NEW e \in Ends, LoopEnds(e) PROVE Counted'
  BY <1>8 DEF LoopEnds
<1>9. ASSUME NEW t \in Threads, Lock(t) PROVE Counted'
  BY <1>9 DEF Lock
<1>10. ASSUME NEW t \in Threads, Send(t) PROVE Counted'
  BY <1>10 DEF Send
<1>11. ASSUME NEW t \in Enders, CloseStream(t) PROVE Counted'
  BY <1>11 DEF CloseStream
<1>12. ASSUME NEW t \in Enders, EmitTest(t) PROVE Counted'
  BY <1>12 DEF EmitTest
<1>13. ASSUME NEW t \in Enders, EmitSet(t) PROVE Counted'
  BY <1>13 DEF EmitSet
<1>14. ASSUME NEW w \in Writers, SendFragment(w) PROVE Counted'
  BY <1>14 DEF SendFragment
<1>15. CASE sendPing
  BY <1>15 DEF sendPing
<1>16. CASE close
  <2>1. \/ pc' = [pc EXCEPT ![Closer] = "lock"]
        \/ pc' = [pc EXCEPT ![Closer] = "terminate"]
    BY <1>16 DEF close
  <2>2. pc[Closer] = "idle" /\ UNCHANGED <<emitted, told>>
    BY <1>16 DEF close
  <2> QED
    BY <2>1, <2>2
<1>17. CASE terminate
  BY <1>17 DEF terminate
<1>18. CASE Cut
  BY <1>18 DEF Cut
<1>19. CASE UNCHANGED vars
  BY <1>19 DEF vars
<1> QED
  BY <1>1, <1>2, <1>3, <1>4, <1>5, <1>6, <1>7, <1>8, <1>9, <1>10, <1>11, <1>12, <1>13, <1>14,
      <1>15, <1>16, <1>17, <1>18, <1>19
  DEF Next, ReadStep, WriteStep, EndStep, Enders

LEMMA NextReported == StateTypes /\ LockTypes /\ Locals /\ Counted /\ Reported /\ [Next]_vars => Reported'
<1> SUFFICES ASSUME StateTypes, LockTypes, Locals, Counted, Reported, [Next]_vars PROVE Reported'
  OBVIOUS
<1> USE Names, PeerType DEF StateTypes, LockTypes, Locals, Counted, Reported, Reporting, Ends,
      Enders, Arrives, Returned, ReaderPcs, CloserPcs, SenderPcs, Go, Write
<1>1. ASSUME NEW e \in Ends, LoopTop(e) PROVE Reported'
  BY <1>1 DEF LoopTop
<1>2. ASSUME NEW e \in Ends, ReadFails(e) PROVE Reported'
  BY <1>2 DEF ReadFails
<1>3. ASSUME NEW e \in Ends, ReadData(e) PROVE Reported'
  BY <1>3 DEF ReadData
<1>4. ASSUME NEW e \in Ends, ReadContinuation(e) PROVE Reported'
  BY <1>4 DEF ReadContinuation
<1>5. ASSUME NEW e \in Ends, ReadPing(e) PROVE Reported'
  BY <1>5 DEF ReadPing
<1>6. ASSUME NEW e \in Ends, ReadPong(e) PROVE Reported'
  BY <1>6 DEF ReadPong
<1>7. ASSUME NEW e \in Ends, ReadClose(e) PROVE Reported'
  <2>1. pc' = [pc EXCEPT ![Reader(e)] = "lock"] \/ pc' = [pc EXCEPT ![Reader(e)] = "ending"]
    BY <1>7 DEF ReadClose
  <2>2. pc[Reader(e)] = "recv" /\ UNCHANGED told
    BY <1>7 DEF ReadClose
  <2>3. state' = state \/ state' = [state EXCEPT ![e] = "Closing"]
    BY <1>7 DEF ReadClose
  <2> QED
    BY <2>1, <2>2, <2>3
<1>8. ASSUME NEW e \in Ends, LoopEnds(e) PROVE Reported'
  BY <1>8 DEF LoopEnds
<1>9. ASSUME NEW t \in Threads, Lock(t) PROVE Reported'
  BY <1>9 DEF Lock
<1>10. ASSUME NEW t \in Threads, Send(t) PROVE Reported'
  BY <1>10 DEF Send
<1>11. ASSUME NEW t \in Enders, CloseStream(t) PROVE Reported'
  BY <1>11 DEF CloseStream
<1>12. ASSUME NEW t \in Enders, EmitTest(t) PROVE Reported'
  BY <1>12 DEF EmitTest
<1>13. ASSUME NEW t \in Enders, EmitSet(t) PROVE Reported'
  BY <1>13 DEF EmitSet
<1>14. ASSUME NEW w \in Writers, SendFragment(w) PROVE Reported'
  BY <1>14 DEF SendFragment
<1>15. CASE sendPing
  BY <1>15 DEF sendPing
<1>16. CASE close
  <2>1. \/ pc' = [pc EXCEPT ![Closer] = "lock"] /\ state' = [state EXCEPT !["client"] = "Closing"]
        \/ pc' = [pc EXCEPT ![Closer] = "terminate"] /\ UNCHANGED state
    BY <1>16 DEF close
  <2>2. pc[Closer] = "idle" /\ UNCHANGED told
    BY <1>16 DEF close
  <2> QED
    BY <2>1, <2>2
<1>17. CASE terminate
  BY <1>17 DEF terminate
<1>18. CASE Cut
  BY <1>18 DEF Cut
<1>19. CASE UNCHANGED vars
  BY <1>19 DEF vars
<1> QED
  BY <1>1, <1>2, <1>3, <1>4, <1>5, <1>6, <1>7, <1>8, <1>9, <1>10, <1>11, <1>12, <1>13, <1>14,
      <1>15, <1>16, <1>17, <1>18, <1>19
  DEF Next, ReadStep, WriteStep, EndStep, Enders

LEMMA NextStateTypes == StateTypes /\ LockTypes /\ Locals /\ Counted /\ [Next]_vars => StateTypes'
<1> SUFFICES ASSUME StateTypes, LockTypes, Locals, Counted, [Next]_vars PROVE StateTypes'
  OBVIOUS
<1> USE Names, PeerType DEF StateTypes, LockTypes, Locals, Counted, Ends, Enders, Arrives,
      SenderPcs
<1>1. ASSUME NEW e \in Ends, LoopTop(e) PROVE StateTypes'
  BY <1>1 DEF LoopTop
<1>2. ASSUME NEW e \in Ends, ReadFails(e) PROVE StateTypes'
  BY <1>2 DEF ReadFails
<1>3. ASSUME NEW e \in Ends, ReadData(e) PROVE StateTypes'
  BY <1>3 DEF ReadData
<1>4. ASSUME NEW e \in Ends, ReadContinuation(e) PROVE StateTypes'
  BY <1>4 DEF ReadContinuation
<1>5. ASSUME NEW e \in Ends, ReadPing(e) PROVE StateTypes'
  BY <1>5 DEF ReadPing
<1>6. ASSUME NEW e \in Ends, ReadPong(e) PROVE StateTypes'
  BY <1>6 DEF ReadPong
<1>7. ASSUME NEW e \in Ends, ReadClose(e) PROVE StateTypes'
  <2>1. UNCHANGED <<fd, emitted, told, pings, cut>>
    BY <1>7 DEF ReadClose
  <2>2. state' = state \/ state' = [state EXCEPT ![e] = "Closing"]
    BY <1>7 DEF ReadClose
  <2> QED
    BY <2>1, <2>2
<1>8. ASSUME NEW e \in Ends, LoopEnds(e) PROVE StateTypes'
  BY <1>8 DEF LoopEnds
<1>9. ASSUME NEW t \in Threads, Lock(t) PROVE StateTypes'
  BY <1>9 DEF Lock
<1>10. ASSUME NEW t \in Threads, Send(t) PROVE StateTypes'
  BY <1>10 DEF Send
<1>11. ASSUME NEW t \in Enders, CloseStream(t) PROVE StateTypes'
  BY <1>11 DEF CloseStream
<1>12. ASSUME NEW t \in Enders, EmitTest(t) PROVE StateTypes'
  BY <1>12 DEF EmitTest
<1>13. ASSUME NEW t \in Enders, EmitSet(t) PROVE StateTypes'
  BY <1>13 DEF EmitSet
<1>14. ASSUME NEW w \in Writers, SendFragment(w) PROVE StateTypes'
  BY <1>14 DEF SendFragment
<1>15. CASE sendPing
  <2>1. pings' = pings + 1 /\ pings < MaxPings /\ UNCHANGED <<state, fd, emitted, told, cut>>
    BY <1>15 DEF sendPing
  <2>2. pings' \in 0 .. MaxPings
    BY <2>1, WsAssumption
  <2> QED
    BY <2>1, <2>2
<1>16. CASE close
  <2>1. UNCHANGED <<fd, emitted, told, pings, cut>>
    BY <1>16 DEF close
  <2>2. state' = state \/ state' = [state EXCEPT !["client"] = "Closing"]
    BY <1>16 DEF close
  <2> QED
    BY <2>1, <2>2
<1>17. CASE terminate
  BY <1>17 DEF terminate
<1>18. CASE Cut
  BY <1>18 DEF Cut
<1>19. CASE UNCHANGED vars
  BY <1>19 DEF vars
<1> QED
  BY <1>1, <1>2, <1>3, <1>4, <1>5, <1>6, <1>7, <1>8, <1>9, <1>10, <1>11, <1>12, <1>13, <1>14,
      <1>15, <1>16, <1>17, <1>18, <1>19
  DEF Next, ReadStep, WriteStep, EndStep, Enders

LEMMA NextLockTypes == LockTypes /\ Locals /\ [Next]_vars => LockTypes'
<1> SUFFICES ASSUME LockTypes, Locals, [Next]_vars PROVE LockTypes'
  OBVIOUS
<1> USE Names, PeerType DEF LockTypes, Locals, Ends, Enders, Arrives, Returned, ReaderPcs,
      CloserPcs, SenderPcs, Go, Write
<1>1. ASSUME NEW e \in Ends, LoopTop(e) PROVE LockTypes'
  BY <1>1 DEF LoopTop
<1>2. ASSUME NEW e \in Ends, ReadFails(e) PROVE LockTypes'
  BY <1>2 DEF ReadFails
<1>3. ASSUME NEW e \in Ends, ReadData(e) PROVE LockTypes'
  BY <1>3 DEF ReadData
<1>4. ASSUME NEW e \in Ends, ReadContinuation(e) PROVE LockTypes'
  BY <1>4 DEF ReadContinuation
<1>5. ASSUME NEW e \in Ends, ReadPing(e) PROVE LockTypes'
  BY <1>5 DEF ReadPing
<1>6. ASSUME NEW e \in Ends, ReadPong(e) PROVE LockTypes'
  BY <1>6 DEF ReadPong
<1>7. ASSUME NEW e \in Ends, ReadClose(e) PROVE LockTypes'
  <2>1. pc' = [pc EXCEPT ![Reader(e)] = "lock"] \/ pc' = [pc EXCEPT ![Reader(e)] = "ending"]
    BY <1>7 DEF ReadClose
  <2>2. pc[Reader(e)] = "recv" /\ UNCHANGED lock
    BY <1>7 DEF ReadClose
  <2> QED
    BY <2>1, <2>2
<1>8. ASSUME NEW e \in Ends, LoopEnds(e) PROVE LockTypes'
  BY <1>8 DEF LoopEnds
<1>9. ASSUME NEW t \in Threads, Lock(t) PROVE LockTypes'
  BY <1>9 DEF Lock
<1>10. ASSUME NEW t \in Threads, Send(t) PROVE LockTypes'
  BY <1>10 DEF Send
<1>11. ASSUME NEW t \in Enders, CloseStream(t) PROVE LockTypes'
  BY <1>11 DEF CloseStream
<1>12. ASSUME NEW t \in Enders, EmitTest(t) PROVE LockTypes'
  BY <1>12 DEF EmitTest
<1>13. ASSUME NEW t \in Enders, EmitSet(t) PROVE LockTypes'
  BY <1>13 DEF EmitSet
<1>14. ASSUME NEW w \in Writers, SendFragment(w) PROVE LockTypes'
  BY <1>14 DEF SendFragment
<1>15. CASE sendPing
  BY <1>15 DEF sendPing
<1>16. CASE close
  <2>1. \/ pc' = [pc EXCEPT ![Closer] = "lock"]
        \/ pc' = [pc EXCEPT ![Closer] = "terminate"]
    BY <1>16 DEF close
  <2>2. pc[Closer] = "idle" /\ UNCHANGED lock
    BY <1>16 DEF close
  <2> QED
    BY <2>1, <2>2
<1>17. CASE terminate
  BY <1>17 DEF terminate
<1>18. CASE Cut
  BY <1>18 DEF Cut
<1>19. CASE UNCHANGED vars
  BY <1>19 DEF vars
<1> QED
  BY <1>1, <1>2, <1>3, <1>4, <1>5, <1>6, <1>7, <1>8, <1>9, <1>10, <1>11, <1>12, <1>13, <1>14,
      <1>15, <1>16, <1>17, <1>18, <1>19
  DEF Next, ReadStep, WriteStep, EndStep, Enders

(* A frame has its type, *)
LEMMA FrameTypes ==
  /\ NoFrame \in FrameType
  /\ \A op \in {"none", "data", "continuation", "ping", "pong", "close"} :
       Frame(op, TRUE, <<>>) \in FrameType
<1>1. <<>> \in Bodies
  BY DEF Bodies
<1> QED
  BY <1>1 DEF Frame, NoFrame, FrameType, Bodies

LEMMA FragmentTypes ==
  ASSUME WireTypes, NEW w \in Writers
  PROVE  FragmentOf(w) \in FrameType
<1> DEFINE m == pos[w][1]
           i == pos[w][2]
<1>1. m \in Nat /\ i \in Nat
  BY DEF WireTypes
<1>2. <<w, m, i>> \in Writers \X Nat \X Nat
  BY <1>1
<1>3. <<<<w, m, i>>>> \in Bodies
  BY <1>2 DEF Bodies
<1>4. (i = Frames[w][m]) \in BOOLEAN
  BY Zenon
<1>5. (IF i = 1 THEN "data" ELSE "continuation") \in {"data", "continuation"}
  OBVIOUS
<1>6. FragmentOf(w) = [op |-> IF i = 1 THEN "data" ELSE "continuation",
                       fin |-> (i = Frames[w][m]), body |-> <<<<w, m, i>>>>]
  BY DEF FragmentOf, Frame
<1> HIDE DEF m, i
<1> QED
  BY <1>3, <1>4, <1>5, <1>6 DEF FrameType, Bodies

(* the one an end takes from the wire leaves the others there,             *)
LEMMA Taken ==
  ASSUME WireTypes, NEW e \in Ends, NEW op, Arrives(e, op)
  PROVE  /\ Head(wire[Peer(e)]) \in FrameType
         /\ wire' \in [Ends -> Seq(FrameType)] /\ \A d \in Ends : Len(wire'[d]) <= Room
<1>1. Peer(e) \in Ends /\ wire[Peer(e)] \in Seq(FrameType) /\ wire[Peer(e)] # <<>>
  BY PeerType DEF Arrives, WireTypes
<1> DEFINE q == wire[Peer(e)]
<1>2. q \in Seq(FrameType) /\ q # <<>>
  BY <1>1
<1> HIDE DEF q
<1>3. Head(q) \in FrameType /\ Tail(q) \in Seq(FrameType) /\ Len(Tail(q)) = Len(q) - 1
      /\ Len(q) \in Nat
  BY <1>2
<1>4. wire' = [wire EXCEPT ![Peer(e)] = Tail(q)]
  BY DEF Arrives, q
<1>5. Len(q) <= Room
  BY <1>1 DEF WireTypes, q
<1>6. wire' \in [Ends -> Seq(FrameType)]
  BY <1>1, <1>3, <1>4 DEF WireTypes
<1>7. ASSUME NEW d \in Ends PROVE Len(wire'[d]) <= Room
  <2>1. CASE d = Peer(e)
    BY <1>1, <1>3, <1>4, <1>5, <2>1, WsAssumption DEF WireTypes
  <2>2. CASE d # Peer(e)
    BY <1>1, <1>4, <2>2 DEF WireTypes
  <2> QED
    BY <2>1, <2>2
<1>8. Head(wire[Peer(e)]) \in FrameType
  BY <1>3 DEF q
<1> QED
  BY <1>6, <1>7, <1>8

(* and what a frame carries is added to what has been kept.                *)
LEMMA Joined == \A s, r \in Bodies : s \o r \in Bodies
BY DEF Bodies

(* What the caller of sendFrame goes on with.                              *)
LEMMA ReturnedTypes ==
  ASSUME WireTypes, NEW t \in Threads, NEW r, Returned(t, r)
  PROVE  /\ out' \in [Threads -> FrameType]
         /\ pos' \in [Writers -> Nat \X Nat] /\ ok' \in [Writers -> Nat]
<1>1. out' \in [Threads -> FrameType]
  BY FrameTypes DEF Returned, WireTypes
<1>2. CASE UNCHANGED <<pos, ok>>
  BY <1>1, <1>2 DEF WireTypes
<1>3. ASSUME t \in Writers, NEW more, NEW m,  m = pos[t][1],
             pos' = [pos EXCEPT ![t] = IF more THEN <<m, pos[t][2] + 1>> ELSE <<m + 1, 1>>],
             NEW done, ok' = [ok EXCEPT ![t] = IF done THEN m ELSE ok[t]]
      PROVE  pos' \in [Writers -> Nat \X Nat] /\ ok' \in [Writers -> Nat]
  <2>1. m \in Nat /\ pos[t][2] \in Nat /\ ok[t] \in Nat
    BY <1>3 DEF WireTypes
  <2>2. <<m, pos[t][2] + 1>> \in Nat \X Nat /\ <<m + 1, 1>> \in Nat \X Nat
    BY <2>1
  <2> QED
    BY <1>3, <2>1, <2>2 DEF WireTypes
<1> QED
  BY <1>1, <1>2, <1>3 DEF Returned

LEMMA NextWireTypes == WireTypes /\ [Next]_vars => WireTypes'
<1> SUFFICES ASSUME WireTypes, [Next]_vars PROVE WireTypes'
  OBVIOUS
<1> USE PeerType DEF WireTypes
<1>1. ASSUME NEW e \in Ends, LoopTop(e) PROVE WireTypes'
  BY <1>1 DEF LoopTop
<1>2. ASSUME NEW e \in Ends, ReadFails(e) PROVE WireTypes'
  BY <1>2 DEF ReadFails
<1>3. ASSUME NEW e \in Ends, ReadData(e) PROVE WireTypes'
  <2> HIDE DEF WireTypes
  <2> DEFINE f == Head(wire[Peer(e)])
  <2>1. /\ f \in FrameType /\ UNCHANGED <<out, pos, ok>>
        /\ wire' \in [Ends -> Seq(FrameType)] /\ \A d \in Ends : Len(wire'[d]) <= Room
    BY <1>3, Taken DEF ReadData
  <2>2. dispatchData(e, f)
    BY <1>3 DEF ReadData
  <2> HIDE DEF f
  <2>3. f.body \in Bodies /\ frag[e] \in Bodies
    BY <2>1 DEF FrameType, Bodies, WireTypes
  <2>4. frag[e] \o f.body \in Bodies /\ <<>> \in Bodies
    BY <2>3, Joined DEF Bodies
  <2>5. frag' \in [Ends -> Bodies]
    BY <2>2, <2>3, <2>4 DEF dispatchData, Keep, Deliver, WireTypes
  <2> QED
    BY <2>1, <2>5 DEF WireTypes
<1>4. ASSUME NEW e \in Ends, ReadContinuation(e) PROVE WireTypes'
  <2> HIDE DEF WireTypes
  <2> DEFINE f == Head(wire[Peer(e)])
  <2>1. /\ f \in FrameType /\ UNCHANGED <<out, pos, ok>>
        /\ wire' \in [Ends -> Seq(FrameType)] /\ \A d \in Ends : Len(wire'[d]) <= Room
    BY <1>4, Taken DEF ReadContinuation
  <2>2. dispatchContinuation(e, f)
    BY <1>4 DEF ReadContinuation
  <2> HIDE DEF f
  <2>3. f.body \in Bodies /\ frag[e] \in Bodies
    BY <2>1 DEF FrameType, Bodies, WireTypes
  <2>4. frag[e] \o f.body \in Bodies /\ <<>> \in Bodies
    BY <2>3, Joined DEF Bodies
  <2>5. frag' \in [Ends -> Bodies]
    BY <2>2, <2>3, <2>4 DEF dispatchContinuation, Keep, Deliver, WireTypes
  <2> QED
    BY <2>1, <2>5 DEF WireTypes
<1>5. ASSUME NEW e \in Ends, ReadPing(e) PROVE WireTypes'
  <2> HIDE DEF WireTypes
  <2>1. /\ UNCHANGED <<frag, pos, ok>>
        /\ wire' \in [Ends -> Seq(FrameType)] /\ \A d \in Ends : Len(wire'[d]) <= Room
    BY <1>5, Taken DEF ReadPing
  <2>2. out' \in [Threads -> FrameType]
    BY <1>5, FrameTypes DEF ReadPing, Write, WireTypes
  <2> QED
    BY <2>1, <2>2 DEF WireTypes
<1>6. ASSUME NEW e \in Ends, ReadPong(e) PROVE WireTypes'
  <2> HIDE DEF WireTypes
  <2>1. /\ UNCHANGED <<frag, out, pos, ok>>
        /\ wire' \in [Ends -> Seq(FrameType)] /\ \A d \in Ends : Len(wire'[d]) <= Room
    BY <1>6, Taken DEF ReadPong
  <2> QED
    BY <2>1 DEF WireTypes
<1>7. ASSUME NEW e \in Ends, ReadClose(e) PROVE WireTypes'
  <2> HIDE DEF WireTypes
  <2>1. /\ UNCHANGED <<frag, pos, ok>>
        /\ wire' \in [Ends -> Seq(FrameType)] /\ \A d \in Ends : Len(wire'[d]) <= Room
    BY <1>7, Taken DEF ReadClose
  <2>2. out' \in [Threads -> FrameType]
    BY <1>7, FrameTypes DEF ReadClose, Write, WireTypes
  <2> QED
    BY <2>1, <2>2 DEF WireTypes
<1>8. ASSUME NEW e \in Ends, LoopEnds(e) PROVE WireTypes'
  BY <1>8 DEF LoopEnds
<1>9. ASSUME NEW t \in Threads, Lock(t) PROVE WireTypes'
  <2> HIDE DEF WireTypes
  <2>1. UNCHANGED <<wire, frag>>
    BY <1>9 DEF Lock
  <2>2. CASE UNCHANGED <<out, pos, ok>>
    BY <2>1, <2>2 DEF WireTypes
  <2>3. CASE Returned(t, FALSE)
    BY <2>1, <2>3, ReturnedTypes DEF WireTypes
  <2> QED
    BY <1>9, <2>2, <2>3 DEF Lock
<1>10. ASSUME NEW t \in Threads, Send(t) PROVE WireTypes'
  <2> HIDE DEF WireTypes
  <2>1. UNCHANGED frag /\ EndOf(t) \in Ends /\ out[t] \in FrameType
    BY <1>10, Names DEF Send, WireTypes
  <2> DEFINE q == wire[EndOf(t)]
  <2>2. CASE /\ Returned(t, TRUE) /\ Len(q) < Room
             /\ wire' = [wire EXCEPT ![EndOf(t)] = Append(q, out[t])]
    <3>1. q \in Seq(FrameType)
      BY <2>1 DEF WireTypes
    <3> HIDE DEF q
    <3>2. Append(q, out[t]) \in Seq(FrameType) /\ Len(Append(q, out[t])) = Len(q) + 1
          /\ Len(q) \in Nat
      BY <2>1, <3>1
    <3>3. wire' \in [Ends -> Seq(FrameType)]
      BY <2>1, <2>2, <3>2 DEF WireTypes
    <3>4. ASSUME NEW d \in Ends PROVE Len(wire'[d]) <= Room
      <4>1. CASE d = EndOf(t)
        BY <2>1, <2>2, <3>2, <4>1, WsAssumption DEF WireTypes
      <4>2. CASE d # EndOf(t)
        BY <2>1, <2>2, <4>2 DEF WireTypes
      <4> QED
        BY <4>1, <4>2
    <3> QED
      BY <2>1, <2>2, <3>3, <3>4, ReturnedTypes DEF WireTypes
  <2>3. CASE Returned(t, FALSE) /\ UNCHANGED wire
    BY <2>1, <2>3, ReturnedTypes DEF WireTypes
  <2> QED
    BY <1>10, <2>2, <2>3 DEF Send
<1>11. ASSUME NEW t \in Enders, CloseStream(t) PROVE WireTypes'
  BY <1>11 DEF CloseStream
<1>12. ASSUME NEW t \in Enders, EmitTest(t) PROVE WireTypes'
  BY <1>12 DEF EmitTest
<1>13. ASSUME NEW t \in Enders, EmitSet(t) PROVE WireTypes'
  BY <1>13 DEF EmitSet
<1>14. ASSUME NEW w \in Writers, SendFragment(w) PROVE WireTypes'
  <2> HIDE DEF WireTypes
  <2>1. w \in Threads /\ UNCHANGED <<wire, frag, ok>>
    BY <1>14, Names DEF SendFragment
  <2>2. CASE Write(w, FragmentOf(w)) /\ UNCHANGED pos
    BY <2>1, <2>2, FragmentTypes DEF Write, WireTypes
  <2>3. CASE pos' = [pos EXCEPT ![w] = <<pos[w][1] + 1, 1>>] /\ UNCHANGED out
    <3>1. <<pos[w][1] + 1, 1>> \in Nat \X Nat
      BY DEF WireTypes
    <3> QED
      BY <2>1, <2>3, <3>1 DEF WireTypes
  <2> QED
    BY <1>14, <2>2, <2>3 DEF SendFragment
<1>15. CASE sendPing
  <2> HIDE DEF WireTypes
  <2>1. Write(Pinger, Frame("ping", TRUE, <<>>)) /\ UNCHANGED <<wire, frag, pos, ok>>
    BY <1>15 DEF sendPing
  <2> QED
    BY <2>1, Names, FrameTypes DEF Write, WireTypes
<1>16. CASE close
  <2> HIDE DEF WireTypes
  <2>1. UNCHANGED <<wire, frag, pos, ok>>
    BY <1>16 DEF close
  <2>2. UNCHANGED out \/ Write(Closer, Frame("close", TRUE, <<>>))
    BY <1>16 DEF close
  <2>3. Frame("close", TRUE, <<>>) \in FrameType /\ Closer \in Threads
    BY Names, FrameTypes
  <2>4. out' \in [Threads -> FrameType]
    BY <2>2, <2>3 DEF Write, WireTypes
  <2> QED
    BY <2>1, <2>4 DEF WireTypes
<1>17. CASE terminate
  BY <1>17 DEF terminate
<1>18. CASE Cut
  BY <1>18 DEF Cut
<1>19. CASE UNCHANGED vars
  BY <1>19 DEF vars
<1> QED
  BY <1>1, <1>2, <1>3, <1>4, <1>5, <1>6, <1>7, <1>8, <1>9, <1>10, <1>11, <1>12, <1>13, <1>14,
      <1>15, <1>16, <1>17, <1>18, <1>19
  DEF Next, ReadStep, WriteStep, EndStep, Enders

-----------------------------------------------------------------------------
(* The invariant holds.                                                    *)

LEMMA InitInv == Init => Inv
<1> SUFFICES ASSUME Init PROVE Inv
  OBVIOUS
<1>1. \A e \in Ends : /\ state[e] = "Open" /\ ~emitted[e] /\ told[e] = 0
                      /\ lock[e] = NoThread /\ pc[Reader(e)] = "top"
  BY Names DEF Init
<1>2. /\ pc[Closer] = "idle"
      /\ \A t \in Threads : pc[t] \in {"top", "idle"}
      /\ \A t \in Writers \cup {Pinger} : pc[t] = "idle"
  BY Names DEF Init
<1>3. cut \in BOOLEAN /\ pings = 0
  BY Zenon DEF Init
<1>4. StateTypes
  <2>1. 0 \in 0 .. MaxPings
    BY WsAssumption
  <2> QED
    BY <1>3, <2>1 DEF Init, StateTypes
<1>5. WireTypes
  <2>1. <<>> \in Seq(FrameType) /\ <<>> \in Bodies /\ Len(<<>>) = 0
    BY DEF Bodies
  <2>2. <<1, 1>> \in Nat \X Nat
    OBVIOUS
  <2> QED
    BY <2>1, <2>2, FrameTypes, WsAssumption DEF Init, WireTypes
<1>6. LockTypes
  BY <1>1, <1>2, Names DEF Init, LockTypes
<1>7. Locals /\ Counted /\ Reported
  BY <1>1, <1>2, Names DEF Locals, Counted, Reported, ReaderPcs, CloserPcs, SenderPcs, Ends
<1> QED
  BY <1>4, <1>5, <1>6, <1>7 DEF Inv

LEMMA NextInv == Inv /\ [Next]_vars => Inv'
<1> SUFFICES ASSUME Inv, [Next]_vars PROVE Inv'
  OBVIOUS
<1>1. StateTypes /\ WireTypes /\ LockTypes /\ Locals /\ Counted /\ Reported
  BY DEF Inv
<1>2. StateTypes' /\ WireTypes' /\ LockTypes'
  BY <1>1, NextStateTypes, NextWireTypes, NextLockTypes
<1>3. Locals' /\ Counted' /\ Reported'
  BY <1>1, NextLocals, NextCounted, NextReported
<1> QED
  BY <1>2, <1>3 DEF Inv

LEMMA InvHolds == Spec => []Inv
BY InitInv, NextInv, PTL DEF Spec

-----------------------------------------------------------------------------
(* WebSocket: the state keeps its types, no wire ever holds more than it   *)
(* has room for, and writeMutex_ is held by the one thread that is inside  *)
(* send, whatever the writers send.                                        *)
THEOREM TypeCorrect == Spec => []TypeOK
<1>1. Inv => TypeOK
  BY TypeParts DEF Inv
<1> QED
  BY <1>1, InvHolds, PTL

(* Once the read loop of an end and whoever was to report the end are      *)
(* through, closeHandler_ has been called, on the server exactly once.     *)
THEOREM EndReported == Spec => []EndIsTold
<1>1. Inv => EndIsTold
  <2> SUFFICES ASSUME Inv PROVE EndIsTold
    OBVIOUS
  <2>1. told["server"] \in {0, 1} /\ told["client"] \in {0, 1, 2}
    BY DEF Inv, StateTypes, Counted, Ends
  <2>2. pc[Reader("server")] = "done" => told["server"] = 1
    BY <2>1 DEF Inv, Reported
  <2>3. pc[Reader("client")] = "done" /\ pc[Closer] \in {"idle", "done"} => told["client"] # 0
    BY DEF Inv, Reported, Reporting
  <2> QED
    BY <2>1, <2>2, <2>3 DEF EndIsTold
<1> QED
  BY <1>1, InvHolds, PTL

-----------------------------------------------------------------------------
(* The invariant that carries the order of the messages.                   *)

Carriers == {"data", "continuation"}
Valid(w, m, i) == m \in DOMAIN Frames[w] /\ i \in 1 .. Frames[w][m]

(* A frame that carries the i-th piece of the m-th message of w, and a     *)
(* control frame, which carries none.                                      *)
Carries(f, w, m, i) ==
  /\ f.op = (IF i = 1 THEN "data" ELSE "continuation")
  /\ f.fin = (i = Frames[w][m])
  /\ f.body = <<<<w, m, i>>>>
Control(f) == f.op \notin Carriers /\ f.body = <<>>

(* The j-th frame on the way carries that piece.                           *)
On(w, j, m, i) == wire[EndOf(w)][j].body = <<<<w, m, i>>>>

(* Nothing but pieces of an end's own writers is on its way.               *)
WireShape ==
  \A e \in Ends : \A j \in 1 .. Len(wire[e]) :
    \/ Control(wire[e][j])
    \/ \E w \in Writers : \E m, i \in Nat :
         EndOf(w) = e /\ Valid(w, m, i) /\ Carries(wire[e][j], w, m, i)

OutShape ==
  /\ \A w \in Writers : pc[w] \in {"lock", "send"} =>
       Valid(w, pos[w][1], pos[w][2]) /\ Carries(out[w], w, pos[w][1], pos[w][2])
  /\ \A t \in Threads \ Writers : Control(out[t])

PosShape ==
  \A w \in Writers : /\ pos[w][1] # 0
                     /\ pos[w][2] = 1 \/ Valid(w, pos[w][1], pos[w][2])

(* The piece that comes after one, and the order of the pieces.            *)
Follows(w, m, i, n, k) == IF i < Frames[w][m] THEN n = m /\ k = i + 1 ELSE n = m + 1 /\ k = 1
Before(m, i, n, k) == m < n \/ (m = n /\ i < k)

(* w will never put a frame on the wire again.                             *)
Dead(w) ==
  \/ state[EndOf(w)] # "Open" /\ pc[w] = "idle"
  \/ ~fd[EndOf(w)] /\ pc[w] # "send"
  \/ cut

(* <<m, i>> is the piece of w its peer comes to next: what precedes it has *)
(* arrived or is kept, ...                                                 *)
Got(w, m, i) ==
  /\ m \in Nat \ {0} /\ i \in Nat \ {0} /\ (i = 1 \/ Valid(w, m, i))
  /\ \A k \in DOMAIN Frames[w] : k < m <=> Arrived(w, k)

Kept(w, m, i) ==
  LET kept == frag[Peer(EndOf(w))] IN
  /\ i = 1 => \A j \in DOMAIN kept : kept[j][1] # w
  /\ i > 1 => kept = [j \in 1 .. i - 1 |-> <<w, m, j>>]

(* ... and each piece on the way is that one or comes after another.       *)
Chain(w, m, i) ==
  \A j \in 1 .. Len(wire[EndOf(w)]) : \A n, k \in Nat : On(w, j, n, k) =>
    /\ Before(n, k, pos[w][1], pos[w][2])
    /\ \A b \in j + 1 .. Len(wire[EndOf(w)]) : \A c, l \in Nat : On(w, b, c, l) => Before(n, k, c, l)
    /\ \/ n = m /\ k = i
       \/ \E b \in 1 .. j - 1 : \E c, l \in Nat : On(w, b, c, l) /\ Follows(w, c, l, n, k)

Tip(w, m, i) ==
  \/ Dead(w)
  \/ pos[w] = <<m, i>>
  \/ \E j \in 1 .. Len(wire[EndOf(w)]) : \E n, k \in Nat :
       On(w, j, n, k) /\ Follows(w, n, k, pos[w][1], pos[w][2])

Line(w, m, i) == Got(w, m, i) /\ Kept(w, m, i) /\ Chain(w, m, i) /\ Tip(w, m, i)

(* Nobody reads any more when the peer's socket is gone.                   *)
Lines == \A w \in Writers : Shut(Peer(EndOf(w))) \/ \E m, i \in Nat : Line(w, m, i)

DeliveredType == delivered \in [Ends -> Seq(Bodies)]

Order == DeliveredType /\ WireShape /\ OutShape /\ PosShape /\ Lines /\ WholeInOrder

-----------------------------------------------------------------------------
(* What a step can do to the messages under way.                           *)

Still(S) == \A v \in S : pc'[v] = pc[v] /\ out'[v] = out[v]
Controls == \A t \in Threads \ Writers : out'[t] = out[t] \/ Control(out'[t])

(* Nothing, except that a thread takes writeMutex_, ...                    *)
Calm ==
  /\ UNCHANGED <<wire, frag, delivered, pos>> /\ Controls
  /\ \A w \in Writers :
       /\ out'[w] = out[w]
       /\ pc'[w] = pc[w] \/ (pc[w] = "lock" /\ pc'[w] = "send" /\ fd[EndOf(w)])

(* ... a fragment is built, ...                                            *)
Builds(w) ==
  /\ UNCHANGED <<wire, frag, delivered, pos>> /\ Controls /\ Still(Writers \ {w})
  /\ pos[w][1] <= Len(Frames[w]) /\ state[EndOf(w)] = "Open"
  /\ pc[w] = "idle" /\ pc'[w] = "lock" /\ out'[w] = FragmentOf(w)

(* ... a message is given up, for good, ...                                *)
GivesUp(w) ==
  /\ UNCHANGED <<wire, frag, delivered>> /\ Controls /\ Still(Writers \ {w})
  /\ pos' = [pos EXCEPT ![w] = <<pos[w][1] + 1, 1>>]
  /\ pc'[w] = "idle"
  /\ state'[EndOf(w)] # "Open" \/ ~fd'[EndOf(w)] \/ cut' \/ Shut(Peer(EndOf(w)))

(* ... a frame is put on the wire, ...                                     *)
Puts(w) ==
  /\ UNCHANGED <<frag, delivered>> /\ Controls /\ Still(Writers \ {w}) /\ ~cut
  /\ wire' = [wire EXCEPT ![EndOf(w)] = Append(wire[EndOf(w)], out[w])]
  /\ pc[w] = "send" /\ pc'[w] = "idle"
  /\ pos' = [pos EXCEPT ![w] = IF pos[w][2] < Frames[w][pos[w][1]]
                               THEN <<pos[w][1], pos[w][2] + 1>> ELSE <<pos[w][1] + 1, 1>>]

PutsControl(t) ==
  /\ UNCHANGED <<frag, delivered, pos>> /\ Controls /\ Still(Writers)
  /\ wire' = [wire EXCEPT ![EndOf(t)] = Append(wire[EndOf(t)], out[t])]

(* ... or a frame is taken from it.                                        *)
Takes(e) ==
  /\ UNCHANGED pos /\ Controls /\ Still(Writers)
  /\ pc[Reader(e)] = "recv" /\ wire[Peer(e)] # <<>>
  /\ wire' = [wire EXCEPT ![Peer(e)] = Tail(wire[Peer(e)])]
  /\ LET f == Head(wire[Peer(e)]) IN
     \/ f.op = "data" /\ dispatchData(e, f)
     \/ f.op = "continuation" /\ dispatchContinuation(e, f)
     \/ f.op \notin Carriers /\ UNCHANGED <<frag, delivered>>

LEMMA Moves ==
  LockTypes /\ WireTypes /\ Locals /\ [Next]_vars =>
    \/ Calm
    \/ \E w \in Writers : Builds(w) \/ GivesUp(w) \/ Puts(w)
    \/ \E t \in Threads \ Writers : PutsControl(t)
    \/ \E e \in Ends : Takes(e)
<1> DEFINE P == \/ Calm
                \/ \E w \in Writers : Builds(w) \/ GivesUp(w) \/ Puts(w)
                \/ \E t \in Threads \ Writers : PutsControl(t)
                \/ \E e \in Ends : Takes(e)
<1> SUFFICES ASSUME LockTypes, WireTypes, Locals, [Next]_vars PROVE P
  OBVIOUS
<1> HIDE DEF P
<1>0. /\ DOMAIN pc = Threads /\ pc = [t \in Threads |-> pc[t]] /\ out \in [Threads -> FrameType]
      /\ pos \in [Writers -> Nat \X Nat]
      /\ \A e \in Ends : Control(Frame("pong", TRUE, <<>>)) /\ Control(Frame("close", TRUE, <<>>))
      /\ Control(Frame("ping", TRUE, <<>>)) /\ Control(NoFrame)
  <2>1. \A op \in {"pong", "close", "ping", "none"} : Control(Frame(op, TRUE, <<>>))
    BY DEF Control, Frame, Carriers
  <2> QED
    BY <2>1 DEF LockTypes, WireTypes, NoFrame
<1>a. ASSUME UNCHANGED <<wire, frag, delivered, pos, out>>, NEW t \in Threads \ Writers, NEW l, Go(t, l)
      PROVE  P
  <2>1. \A w \in Writers : w # t /\ pc'[w] = pc[w]
    BY <1>a, <1>0, Names DEF Go
  <2> QED
    BY <1>a, <2>1 DEF P, Calm, Controls
<1>b. ASSUME UNCHANGED <<wire, frag, delivered, pos>>, NEW t \in Threads \ Writers,
             NEW l, Go(t, l), NEW f, Control(f), out' = [out EXCEPT ![t] = f]
      PROVE  P
  <2>1. \A w \in Writers : w # t /\ pc'[w] = pc[w] /\ out'[w] = out[w]
    BY <1>b, <1>0, Names DEF Go
  <2>2. Controls
    BY <1>b, <1>0 DEF Controls
  <2> QED
    BY <1>b, <2>1, <2>2 DEF P, Calm
<1>c. ASSUME NEW e \in Ends, NEW op, Arrives(e, op), Head(wire[Peer(e)]).op = op,
             NEW f, Control(f), NEW l, Go(Reader(e), l), UNCHANGED pos,
             out' = out \/ out' = [out EXCEPT ![Reader(e)] = f],
             \/ op = "data" /\ dispatchData(e, Head(wire[Peer(e)]))
             \/ op = "continuation" /\ dispatchContinuation(e, Head(wire[Peer(e)]))
             \/ op \notin Carriers /\ UNCHANGED <<frag, delivered>>
      PROVE  P
  <2>1. Reader(e) \in Threads /\ Reader(e) \notin Writers
    BY Names
  <2>2. Controls
    BY <1>c, <1>0, <2>1 DEF Controls
  <2>3. Still(Writers)
    BY <1>c, <1>0, <2>1, Names DEF Still, Go
  <2>4. Takes(e)
    BY <1>c, <2>2, <2>3 DEF Takes, Arrives
  <2> QED
    BY <2>4 DEF P
<1> USE Names
<1>1. ASSUME NEW e \in Ends, LoopTop(e) PROVE P
  BY <1>1, <1>a DEF LoopTop
<1>2. ASSUME NEW e \in Ends, ReadFails(e) PROVE P
  BY <1>2, <1>a DEF ReadFails
<1>3. ASSUME NEW e \in Ends, ReadData(e) PROVE P
  BY <1>3, <1>c, <1>0 DEF ReadData, Arrives
<1>4. ASSUME NEW e \in Ends, ReadContinuation(e) PROVE P
  BY <1>4, <1>c, <1>0 DEF ReadContinuation, Arrives
<1>5. ASSUME NEW e \in Ends, ReadPing(e) PROVE P
  BY <1>5, <1>c, <1>0 DEF ReadPing, Arrives, Write, Carriers
<1>6. ASSUME NEW e \in Ends, ReadPong(e) PROVE P
  BY <1>6, <1>c, <1>0 DEF ReadPong, Arrives, Carriers
<1>7. ASSUME NEW e \in Ends, ReadClose(e) PROVE P
  BY <1>7, <1>c, <1>0 DEF ReadClose, Arrives, Write, Carriers
<1>8. ASSUME NEW e \in Ends, LoopEnds(e) PROVE P
  BY <1>8, <1>a DEF LoopEnds
<1>r. ASSUME NEW w \in Writers, NEW r, Returned(w, r)
      PROVE  /\ out' = [out EXCEPT ![w] = NoFrame] /\ Go(w, "idle")
             /\ pos' = [pos EXCEPT ![w] = IF r /\ pos[w][2] < Frames[w][pos[w][1]]
                                          THEN <<pos[w][1], pos[w][2] + 1>>
                                          ELSE <<pos[w][1] + 1, 1>>]
  BY <1>r DEF Returned
<1>s. ASSUME NEW t \in Threads \ Writers, NEW r, Returned(t, r)
      PROVE  out' = [out EXCEPT ![t] = NoFrame] /\ UNCHANGED pos /\ \E l : Go(t, l)
  BY <1>s DEF Returned
<1>t. ASSUME NEW w \in Writers, NEW f, out' = [out EXCEPT ![w] = f], NEW l, Go(w, l)
      PROVE  Controls /\ Still(Writers \ {w}) /\ pc'[w] = l /\ out'[w] = f
  BY <1>t, <1>0 DEF Controls, Still, Go
<1>9. ASSUME NEW t \in Threads, Lock(t) PROVE P
  <2>1. UNCHANGED <<state, fd, wire, frag, delivered, cut>> /\ pc[t] = "lock"
    BY <1>9 DEF Lock
  <2>2. CASE fd[EndOf(t)] /\ Go(t, "send") /\ UNCHANGED <<out, pos>>
    <3>1. \A w \in Writers : w # t => pc'[w] = pc[w]
      BY <2>2, <1>0 DEF Go
    <3>2. pc'[t] = "send"
      BY <2>2, <1>0 DEF Go
    <3> QED
      BY <2>1, <2>2, <3>1, <3>2 DEF P, Calm, Controls
  <2>3. CASE ~fd[EndOf(t)] /\ Returned(t, FALSE)
    <3>1. CASE t \in Writers
      <4>1. GivesUp(t)
        BY <2>1, <2>3, <3>1, <1>r, <1>t DEF GivesUp
      <4> QED
        BY <3>1, <4>1 DEF P
    <3>2. CASE t \notin Writers
      BY <2>1, <2>3, <3>2, <1>s, <1>b, <1>0
    <3> QED
      BY <3>1, <3>2
  <2> QED
    BY <1>9, <2>2, <2>3 DEF Lock
<1>10. ASSUME NEW t \in Threads, Send(t) PROVE P
  <2>1. UNCHANGED <<state, fd, frag, delivered, cut>> /\ pc[t] = "send"
    BY <1>10 DEF Send
  <2>2. CASE /\ ~cut /\ Returned(t, TRUE)
             /\ wire' = [wire EXCEPT ![EndOf(t)] = Append(wire[EndOf(t)], out[t])]
    <3>1. CASE t \in Writers
      <4>1. Puts(t)
        BY <2>1, <2>2, <3>1, <1>r, <1>t DEF Puts
      <4> QED
        BY <3>1, <4>1 DEF P
    <3>2. CASE t \notin Writers
      <4>1. out' = [out EXCEPT ![t] = NoFrame] /\ UNCHANGED pos
        BY <2>2, <3>2, <1>s
      <4>2. PICK l : Go(t, l)
        BY <2>2, <3>2, <1>s
      <4>3. Controls /\ Still(Writers)
        BY <3>2, <4>1, <4>2, <1>0 DEF Controls, Still, Go
      <4>4. PutsControl(t)
        BY <2>1, <2>2, <4>1, <4>3 DEF PutsControl
      <4> QED
        BY <3>2, <4>4 DEF P
    <3> QED
      BY <3>1, <3>2
  <2>3. CASE (cut \/ Shut(Peer(EndOf(t)))) /\ Returned(t, FALSE) /\ UNCHANGED wire
    <3>1. CASE t \in Writers
      <4>1. GivesUp(t)
        BY <2>1, <2>3, <3>1, <1>r, <1>t DEF GivesUp
      <4> QED
        BY <3>1, <4>1 DEF P
    <3>2. CASE t \notin Writers
      BY <2>1, <2>3, <3>2, <1>s, <1>b, <1>0
    <3> QED
      BY <3>1, <3>2
  <2> QED
    BY <1>10, <2>2, <2>3 DEF Send
<1>11. ASSUME NEW t \in Enders, CloseStream(t) PROVE P
  BY <1>11, <1>a DEF CloseStream, Enders, Ends
<1>12. ASSUME NEW t \in Enders, EmitTest(t) PROVE P
  BY <1>12, <1>a DEF EmitTest, Enders, Ends
<1>13. ASSUME NEW t \in Enders, EmitSet(t) PROVE P
  BY <1>13, <1>a DEF EmitSet, Enders, Ends
<1>14. ASSUME NEW w \in Writers, SendFragment(w) PROVE P
  <2>1. UNCHANGED <<state, fd, wire, frag, delivered, cut>> /\ pc[w] = "idle"
        /\ pos[w][1] <= Len(Frames[w])
    BY <1>14 DEF SendFragment
  <2>2. CASE state[EndOf(w)] = "Open" /\ Write(w, FragmentOf(w)) /\ UNCHANGED pos
    <3>1. Controls /\ Still(Writers \ {w}) /\ pc'[w] = "lock" /\ out'[w] = FragmentOf(w)
      BY <2>2, <1>t DEF Write
    <3> QED
      BY <2>1, <2>2, <3>1 DEF P, Builds
  <2>3. CASE /\ state[EndOf(w)] # "Open" /\ UNCHANGED <<pc, out>>
             /\ pos' = [pos EXCEPT ![w] = <<pos[w][1] + 1, 1>>]
    <3>1. Controls /\ Still(Writers \ {w})
      BY <2>3 DEF Controls, Still
    <3> QED
      BY <2>1, <2>3, <3>1 DEF P, GivesUp
  <2> QED
    BY <1>14, <2>2, <2>3 DEF SendFragment
<1>15. CASE sendPing
  BY <1>15, <1>b, <1>0 DEF sendPing, Write
<1>16. CASE close
  BY <1>16, <1>a, <1>b, <1>0 DEF close, Write
<1>17. CASE terminate
  BY <1>17, <1>a DEF terminate
<1>18. CASE Cut
  BY <1>18 DEF Cut, P, Calm, Controls
<1>19. CASE UNCHANGED vars
  BY <1>19 DEF vars, P, Calm, Controls
<1>20. P
  BY <1>1, <1>2, <1>3, <1>4, <1>5, <1>6, <1>7, <1>8, <1>9, <1>10, <1>11, <1>12, <1>13, <1>14,
      <1>15, <1>16, <1>17, <1>18, <1>19
  DEF Next, ReadStep, WriteStep, EndStep, Enders
<1> QED
  BY <1>20 DEF P

(* What has been closed or lost stays so, and a socket that is gone too.   *)
LEMMA Onward ==
  LockTypes /\ StateTypes /\ Locals /\ [Next]_vars =>
    /\ cut => cut'
    /\ \A e \in Ends : /\ ~fd[e] => ~fd'[e]
                       /\ state[e] # "Open" => state'[e] # "Open"
                       /\ Shut(e) => Shut(e)'
<1> DEFINE P == /\ cut => cut'
                /\ \A e \in Ends : /\ ~fd[e] => ~fd'[e]
                                   /\ state[e] # "Open" => state'[e] # "Open"
                                   /\ lock'[e] = lock[e] \/ lock'[e] = NoThread \/ fd[e]
                                   /\ pc'[Reader(e)] # "recv" \/ pc[Reader(e)] = "recv" \/ fd[e]
<1> SUFFICES ASSUME LockTypes, StateTypes, Locals, [Next]_vars PROVE P
  BY DEF Shut
<1> USE Names, PeerType DEF LockTypes, StateTypes, Locals, Enders, SenderPcs, Go, Write, Arrives
<1>1. ASSUME NEW e \in Ends, LoopTop(e) PROVE P
  BY <1>1 DEF LoopTop
<1>2. ASSUME NEW e \in Ends, ReadFails(e) PROVE P
  BY <1>2 DEF ReadFails
<1>3. ASSUME NEW e \in Ends, ReadData(e) PROVE P
  BY <1>3 DEF ReadData
<1>4. ASSUME NEW e \in Ends, ReadContinuation(e) PROVE P
  BY <1>4 DEF ReadContinuation
<1>5. ASSUME NEW e \in Ends, ReadPing(e) PROVE P
  BY <1>5 DEF ReadPing
<1>6. ASSUME NEW e \in Ends, ReadPong(e) PROVE P
  BY <1>6 DEF ReadPong
<1>7. ASSUME NEW e \in Ends, ReadClose(e) PROVE P
  <2>1. UNCHANGED <<fd, cut, lock>> /\ pc[Reader(e)] = "recv"
    BY <1>7 DEF ReadClose
  <2>2. pc' = [pc EXCEPT ![Reader(e)] = "lock"] \/ pc' = [pc EXCEPT ![Reader(e)] = "ending"]
    BY <1>7 DEF ReadClose
  <2>3. state' = state \/ state' = [state EXCEPT ![e] = "Closing"]
    BY <1>7 DEF ReadClose
  <2> QED
    BY <2>1, <2>2, <2>3
<1>8. ASSUME NEW e \in Ends, LoopEnds(e) PROVE P
  BY <1>8 DEF LoopEnds
<1>9. ASSUME NEW t \in Threads, Lock(t) PROVE P
  <2>1. UNCHANGED <<fd, cut, state>>
    BY <1>9 DEF Lock
  <2>2. UNCHANGED lock \/ (fd[EndOf(t)] /\ lock' = [lock EXCEPT ![EndOf(t)] = t])
    BY <1>9 DEF Lock
  <2>3. \E l \in {"send", "idle", "terminate", "ending", "top"} : pc' = [pc EXCEPT ![t] = l]
    BY <1>9 DEF Lock, Returned
  <2> QED
    BY <2>1, <2>2, <2>3
<1>10. ASSUME NEW t \in Threads, Send(t) PROVE P
  <2>1. UNCHANGED <<fd, cut, state>> /\ lock' = [lock EXCEPT ![EndOf(t)] = NoThread]
    BY <1>10 DEF Send
  <2>2. \E l \in {"idle", "terminate", "ending", "top"} : pc' = [pc EXCEPT ![t] = l]
    BY <1>10 DEF Send, Returned
  <2> QED
    BY <2>1, <2>2
<1>11. ASSUME NEW t \in Enders, CloseStream(t) PROVE P
  BY <1>11 DEF CloseStream
<1>12. ASSUME NEW t \in Enders, EmitTest(t) PROVE P
  BY <1>12 DEF EmitTest
<1>13. ASSUME NEW t \in Enders, EmitSet(t) PROVE P
  BY <1>13 DEF EmitSet
<1>14. ASSUME NEW w \in Writers, SendFragment(w) PROVE P
  BY <1>14 DEF SendFragment
<1>15. CASE sendPing
  BY <1>15 DEF sendPing
<1>16. CASE close
  <2>1. UNCHANGED <<fd, cut, lock>>
    BY <1>16 DEF close
  <2>2. \E l \in {"terminate", "lock"} : pc' = [pc EXCEPT ![Closer] = l]
    BY <1>16 DEF close
  <2>3. state' = state \/ state' = [state EXCEPT !["client"] = "Closing"]
    BY <1>16 DEF close
  <2> QED
    BY <2>1, <2>2, <2>3
<1>17. CASE terminate
  BY <1>17 DEF terminate
<1>18. CASE Cut
  BY <1>18 DEF Cut
<1>19. CASE UNCHANGED vars
  BY <1>19 DEF vars
<1> QED
  BY <1>1, <1>2, <1>3, <1>4, <1>5, <1>6, <1>7, <1>8, <1>9, <1>10, <1>11, <1>12, <1>13, <1>14,
      <1>15, <1>16, <1>17, <1>18, <1>19
  DEF Next, ReadStep, WriteStep, EndStep, Enders

(* A writer that will not put a frame on the wire again never does.        *)
LEMMA DeadStays ==
  ASSUME LockTypes, StateTypes, WireTypes, Locals, [Next]_vars, NEW w \in Writers, Dead(w)
  PROVE  Dead(w)'
<1>1. /\ cut => cut'
      /\ ~fd[EndOf(w)] => ~fd'[EndOf(w)]
      /\ state[EndOf(w)] # "Open" => state'[EndOf(w)] # "Open"
  BY Onward, Names
<1>2. CASE pc'[w] = pc[w]
  BY <1>1, <1>2 DEF Dead
<1>3. CASE Calm
  BY <1>1, <1>2, <1>3 DEF Dead, Calm
<1>4. ASSUME NEW v \in Writers, Builds(v) \/ GivesUp(v) \/ Puts(v), v # w PROVE Dead(w)'
  <2>1. pc'[w] = pc[w]
    BY <1>4 DEF Builds, GivesUp, Puts, Still
  <2> QED
    BY <1>2, <2>1
<1>5. CASE Builds(w)
  BY <1>1, <1>5 DEF Dead, Builds
<1>6. CASE GivesUp(w)
  BY <1>1, <1>6 DEF Dead, GivesUp
<1>7. CASE Puts(w)
  BY <1>1, <1>7 DEF Dead, Puts
<1>8. ASSUME NEW t \in Threads \ Writers, PutsControl(t) PROVE Dead(w)'
  BY <1>2, <1>8 DEF PutsControl, Still
<1>9. ASSUME NEW e \in Ends, Takes(e) PROVE Dead(w)'
  BY <1>2, <1>9 DEF Takes, Still
<1> QED
  BY <1>3, <1>4, <1>5, <1>6, <1>7, <1>8, <1>9, Moves

-----------------------------------------------------------------------------
(* About sequences and pieces.                                             *)

LEMMA FrameCounts ==
  ASSUME NEW w \in Writers
  PROVE  /\ Len(Frames[w]) \in Nat /\ DOMAIN Frames[w] = 1 .. Len(Frames[w])
         /\ \A m \in DOMAIN Frames[w] : Frames[w][m] \in Nat \ {0}
<1> DEFINE q == Frames[w]
<1>1. q \in Seq(Nat \ {0})
  BY WsAssumption
<1> HIDE DEF q
<1>2. Len(q) \in Nat /\ DOMAIN q = 1 .. Len(q) /\ \A m \in DOMAIN q : q[m] \in Nat \ {0}
  BY <1>1
<1> QED
  BY <1>2 DEF q

LEMMA PieceIsOne ==
  ASSUME NEW v, NEW m, NEW i, NEW w, NEW n, NEW k
  PROVE  /\ <<<<v, m, i>>>> = <<<<w, n, k>>>> <=> v = w /\ m = n /\ i = k
         /\ <<<<v, m, i>>>> # <<>>
<1>1. <<<<v, m, i>>>>[1] = <<v, m, i>> /\ <<<<w, n, k>>>>[1] = <<w, n, k>>
  OBVIOUS
<1>2. <<v, m, i>> = <<w, n, k>> <=> v = w /\ m = n /\ i = k
  OBVIOUS
<1>3. Len(<<<<v, m, i>>>>) = 1 /\ Len(<<>>) = 0
  OBVIOUS
<1> QED
  BY <1>1, <1>2, <1>3

LEMMA FollowsIsBefore ==
  ASSUME NEW w \in Writers, NEW m \in Nat, NEW i \in Nat, NEW n \in Nat, NEW k \in Nat,
         Follows(w, m, i, n, k)
  PROVE  Before(m, i, n, k)
BY DEF Follows, Before

-----------------------------------------------------------------------------
(* What the line of a writer becomes.                                      *)

LEMMA LineStays ==
  ASSUME NEW w \in Writers, NEW m \in Nat, NEW i \in Nat, Line(w, m, i),
         wire'[EndOf(w)] = wire[EndOf(w)], frag'[Peer(EndOf(w))] = frag[Peer(EndOf(w))],
         delivered'[Peer(EndOf(w))] = delivered[Peer(EndOf(w))], pos'[w] = pos[w],
         Dead(w) => Dead(w)'
  PROVE  Line(w, m, i)'
<1>1. Got(w, m, i)'
  BY DEF Line, Got, Arrived
<1>2. Kept(w, m, i)'
  BY DEF Line, Kept
<1>3. Chain(w, m, i)'
  <2>1. \A j, n, k : On(w, j, n, k)' <=> On(w, j, n, k)
    BY DEF On
  <2>2. Chain(w, m, i)
    BY DEF Line
  <2> QED
    BY <2>1, <2>2 DEF Chain
<1>4. Tip(w, m, i)'
  BY DEF Line, Tip, On
<1> QED
  BY <1>1, <1>2, <1>3, <1>4 DEF Line

LEMMA LineGivesUp ==
  ASSUME WireTypes, NEW w \in Writers, NEW m \in Nat, NEW i \in Nat, Line(w, m, i),
         wire'[EndOf(w)] = wire[EndOf(w)], frag'[Peer(EndOf(w))] = frag[Peer(EndOf(w))],
         delivered'[Peer(EndOf(w))] = delivered[Peer(EndOf(w))],
         pos'[w] = <<pos[w][1] + 1, 1>>, Dead(w)'
  PROVE  Line(w, m, i)'
<1>1. Got(w, m, i)' /\ Kept(w, m, i)' /\ Tip(w, m, i)'
  BY DEF Line, Got, Arrived, Kept, Tip
<1>2. pos[w][1] \in Nat /\ pos[w][2] \in Nat /\ pos'[w][1] = pos[w][1] + 1
  BY DEF WireTypes
<1>3. \A n, k \in Nat : Before(n, k, pos[w][1], pos[w][2]) => Before(n, k, pos'[w][1], pos'[w][2])
  BY <1>2 DEF Before
<1>4. Chain(w, m, i)'
  <2>1. \A j, n, k : On(w, j, n, k)' <=> On(w, j, n, k)
    BY DEF On
  <2>2. Chain(w, m, i)
    BY DEF Line
  <2> QED
    BY <1>3, <2>1, <2>2 DEF Chain
<1> QED
  BY <1>1, <1>4 DEF Line

(* Another frame behind those on the way.                                  *)
LEMMA Behind ==
  ASSUME NEW S, NEW q \in Seq(S), NEW f \in S
  PROVE  /\ Len(q) \in Nat /\ Len(Append(q, f)) = Len(q) + 1
         /\ Append(q, f)[Len(q) + 1] = f
         /\ \A j \in 1 .. Len(q) : Append(q, f)[j] = q[j]
OBVIOUS

(* The first is taken off.                                                 *)
LEMMA Ahead ==
  ASSUME NEW S, NEW q \in Seq(S), q # <<>>
  PROVE  /\ Len(q) \in Nat \ {0} /\ Len(Tail(q)) = Len(q) - 1 /\ Head(q) = q[1]
         /\ \A j \in 1 .. Len(q) - 1 : Tail(q)[j] = q[j + 1]
OBVIOUS

(* A frame of somebody else is put on the wire, ...                        *)
LEMMA LinePassedBy ==
  ASSUME WireTypes, NEW w \in Writers, NEW m \in Nat, NEW i \in Nat, Line(w, m, i),
         NEW f \in FrameType, \A n, k \in Nat : f.body # <<<<w, n, k>>>>,
         wire'[EndOf(w)] = Append(wire[EndOf(w)], f),
         frag'[Peer(EndOf(w))] = frag[Peer(EndOf(w))],
         delivered'[Peer(EndOf(w))] = delivered[Peer(EndOf(w))], pos'[w] = pos[w],
         Dead(w) => Dead(w)'
  PROVE  Line(w, m, i)'
<1> DEFINE q == wire[EndOf(w)]
<1>1. q \in Seq(FrameType)
  BY Names DEF WireTypes
<1>l. PICK l \in Nat : l = Len(q)
  BY <1>1, Behind
<1>2. /\ Len(wire'[EndOf(w)]) = l + 1
      /\ wire'[EndOf(w)][l + 1] = f
      /\ \A j \in 1 .. l : wire'[EndOf(w)][j] = q[j]
  BY <1>1, <1>l, Behind
<1>3. /\ \A j \in 1 .. l : \A n, k \in Nat : On(w, j, n, k)' <=> On(w, j, n, k)
      /\ \A n, k \in Nat : ~On(w, l + 1, n, k)'
  BY <1>l, <1>2 DEF On
<1>4. Got(w, m, i)'
  BY DEF Line, Got, Arrived
<1>5. Kept(w, m, i)'
  BY DEF Line, Kept

<1>6. Chain(w, m, i)'
  <2>1. Chain(w, m, i)
    BY DEF Line
  <2>2. ASSUME NEW j \in 1 .. l + 1, NEW n \in Nat, NEW k \in Nat, On(w, j, n, k)'
        PROVE  /\ Before(n, k, pos'[w][1], pos'[w][2])
               /\ \A b \in j + 1 .. l + 1 : \A c, d \in Nat : On(w, b, c, d)' => Before(n, k, c, d)
               /\ \/ n = m /\ k = i
                  \/ \E b \in 1 .. j - 1 : \E c, d \in Nat : On(w, b, c, d)' /\ Follows(w, c, d, n, k)
    <3>1. j \in 1 .. l /\ On(w, j, n, k)
      BY <1>l, <1>2, <1>3, <2>2
    <3>2. /\ Before(n, k, pos[w][1], pos[w][2])
          /\ \A b \in j + 1 .. l : \A c, d \in Nat : On(w, b, c, d) => Before(n, k, c, d)
          /\ \/ n = m /\ k = i
             \/ \E b \in 1 .. j - 1 : \E c, d \in Nat : On(w, b, c, d) /\ Follows(w, c, d, n, k)
      BY <1>l, <2>1, <3>1 DEF Chain
    <3>3. ASSUME NEW b \in j + 1 .. l + 1, NEW c \in Nat, NEW d \in Nat, On(w, b, c, d)'
          PROVE  Before(n, k, c, d)
      <4>1. b \in j + 1 .. l
        BY <1>l, <1>2, <1>3, <3>1, <3>3
      <4> QED
        BY <1>l, <1>2, <1>3, <3>1, <3>2, <3>3, <4>1
    <3>4. \A b \in 1 .. j - 1 : b \in 1 .. l
      BY <1>l, <1>2, <3>1
    <3> QED
      BY <1>3, <3>2, <3>3, <3>4
  <2> QED
    BY <1>l, <1>2, <2>2 DEF Chain
<1>7. Tip(w, m, i)'
  BY <1>l, <1>2, <1>3 DEF Line, Tip
<1> QED
  BY <1>4, <1>5, <1>6, <1>7 DEF Line

(* ... or the next one of its own.                                         *)
LEMMA LinePut ==
  ASSUME WireTypes, NEW w \in Writers, NEW m \in Nat, NEW i \in Nat, Line(w, m, i),
         NEW f \in FrameType, f.body = <<<<w, pos[w][1], pos[w][2]>>>>, ~Dead(w),
         Follows(w, pos[w][1], pos[w][2], pos'[w][1], pos'[w][2]), pos'[w] \in Nat \X Nat,
         wire'[EndOf(w)] = Append(wire[EndOf(w)], f),
         frag'[Peer(EndOf(w))] = frag[Peer(EndOf(w))],
         delivered'[Peer(EndOf(w))] = delivered[Peer(EndOf(w))]
  PROVE  Line(w, m, i)'
<1> DEFINE q == wire[EndOf(w)]
<1>0. PICK x \in Nat, y \in Nat : x = pos[w][1] /\ y = pos[w][2]
  BY DEF WireTypes
<1>p. pos[w] = <<x, y>> /\ pos'[w][1] \in Nat /\ pos'[w][2] \in Nat
  BY <1>0 DEF WireTypes
<1>1. q \in Seq(FrameType)
  BY Names DEF WireTypes
<1>l. PICK l \in Nat : l = Len(q)
  BY <1>1, Behind
<1>2. /\ Len(wire'[EndOf(w)]) = l + 1
      /\ wire'[EndOf(w)][l + 1] = f
      /\ \A j \in 1 .. l : wire'[EndOf(w)][j] = q[j]
  BY <1>1, <1>l, Behind
<1>3. /\ \A j \in 1 .. l : \A n, k \in Nat : On(w, j, n, k)' <=> On(w, j, n, k)
      /\ \A n, k \in Nat : On(w, l + 1, n, k)' <=> n = x /\ k = y
  <2>1. \A j \in 1 .. l : wire'[EndOf(w)][j].body = q[j].body
    BY <1>2
  <2>2. \A n, k \in Nat : On(w, l + 1, n, k)' <=> f.body = <<<<w, n, k>>>>
    BY <1>2 DEF On
  <2>3. \A n, k \in Nat : f.body = <<<<w, n, k>>>> <=> n = x /\ k = y
    BY <1>0, PieceIsOne
  <2>4. \A j \in 1 .. l : \A n, k \in Nat : On(w, j, n, k)' <=> On(w, j, n, k)
    BY <2>1 DEF On
  <2> QED
    BY <2>2, <2>3, <2>4
<1>4. Got(w, m, i)'
  BY DEF Line, Got, Arrived
<1>5. Kept(w, m, i)'
  BY DEF Line, Kept
<1>6. Before(x, y, pos'[w][1], pos'[w][2])
  BY <1>0, <1>p, FollowsIsBefore
<1>7. \/ x = m /\ y = i
      \/ \E b \in 1 .. l : \E c, d \in Nat : On(w, b, c, d) /\ Follows(w, c, d, x, y)
  BY <1>0, <1>p, <1>l DEF Line, Tip
<1>8. Chain(w, m, i)
  BY DEF Line

<1>9. Chain(w, m, i)'
  <2>2. ASSUME NEW j \in 1 .. l + 1, NEW n \in Nat, NEW k \in Nat, On(w, j, n, k)'
        PROVE  /\ Before(n, k, pos'[w][1], pos'[w][2])
               /\ \A b \in j + 1 .. l + 1 : \A c, d \in Nat : On(w, b, c, d)' => Before(n, k, c, d)
               /\ \/ n = m /\ k = i
                  \/ \E b \in 1 .. j - 1 : \E c, d \in Nat : On(w, b, c, d)' /\ Follows(w, c, d, n, k)
    <3>1. CASE j \in 1 .. l
      <4>1. On(w, j, n, k)
        BY <1>3, <2>2, <3>1
      <4>2. /\ Before(n, k, x, y)
            /\ \A b \in j + 1 .. l : \A c, d \in Nat : On(w, b, c, d) => Before(n, k, c, d)
            /\ \/ n = m /\ k = i
               \/ \E b \in 1 .. j - 1 : \E c, d \in Nat : On(w, b, c, d) /\ Follows(w, c, d, n, k)
        BY <1>0, <1>l, <1>8, <3>1, <4>1 DEF Chain
      <4>3. ASSUME NEW b \in j + 1 .. l + 1, NEW c \in Nat, NEW d \in Nat, On(w, b, c, d)'
            PROVE  Before(n, k, c, d)
        <5>1. b \in j + 1 .. l \/ b = l + 1
          BY <1>l
        <5>2. b \in j + 1 .. l => b \in 1 .. l
          BY <1>l, <1>2, <3>1
        <5>3. CASE b \in j + 1 .. l
          BY <1>3, <4>2, <4>3, <5>2, <5>3
        <5>4. CASE b = l + 1
          BY <1>3, <4>2, <4>3, <5>4
        <5> QED
          BY <5>1, <5>3, <5>4
      <4>4. \A b \in 1 .. j - 1 : b \in 1 .. l
        BY <1>l, <1>2, <3>1
      <4>5. Before(n, k, pos'[w][1], pos'[w][2])
        <5>1. Before(n, k, x, y) /\ Before(x, y, pos'[w][1], pos'[w][2])
          BY <1>0, <1>6, <4>2
        <5> QED
          BY <1>p, <5>1 DEF Before
      <4> QED
        BY <1>3, <4>2, <4>3, <4>4, <4>5
    <3>2. CASE j = l + 1
      <4>1. n = x /\ k = y
        BY <1>3, <2>2, <3>2
      <4>2. \A b \in j + 1 .. l + 1 : FALSE
        BY <1>l, <1>2, <3>2
      <4>3. j - 1 = l
        BY <1>l, <1>2, <3>2
      <4> QED
        BY <1>3, <1>6, <1>7, <4>1, <4>2, <4>3
    <3> QED
      BY <1>l, <1>2, <3>1, <3>2
  <2> QED
    BY <1>l, <1>2, <2>2 DEF Chain
<1>10. Tip(w, m, i)'
  <2>1. On(w, l + 1, x, y)' /\ l + 1 \in 1 .. l + 1
    BY <1>0, <1>p, <1>2, <1>3
  <2> QED
    BY <1>0, <1>p, <1>l, <1>2, <2>1 DEF Tip
<1> QED
  BY <1>4, <1>5, <1>9, <1>10 DEF Line

(* Taking off the first frame moves the others up.                         *)
LEMMA MovesUp ==
  ASSUME WireTypes, NEW w \in Writers, wire[EndOf(w)] # <<>>,
         wire'[EndOf(w)] = Tail(wire[EndOf(w)])
  PROVE  /\ Len(wire[EndOf(w)]) \in Nat \ {0}
         /\ Len(wire[EndOf(w)])' = Len(wire[EndOf(w)]) - 1
         /\ \A j \in 1 .. Len(wire[EndOf(w)]) - 1 : wire'[EndOf(w)][j] = wire[EndOf(w)][j + 1]
         /\ Head(wire[EndOf(w)]) = wire[EndOf(w)][1]
<1> DEFINE q == wire[EndOf(w)]
<1>1. q \in Seq(FrameType) /\ q # <<>>
  BY Names DEF WireTypes
<1> HIDE DEF q
<1>2. /\ Len(q) \in Nat \ {0} /\ Len(Tail(q)) = Len(q) - 1 /\ Head(q) = q[1]
      /\ \A j \in 1 .. Len(q) - 1 : Tail(q)[j] = q[j + 1]
  BY <1>1, Ahead
<1> QED
  BY <1>2 DEF q

(* What is left of the line when the peer has taken a frame: (x, y) is the *)
(* piece expected now, and a piece that came after the one taken is that.  *)
LEMMA LineLeft ==
  ASSUME WireTypes, NEW w \in Writers, NEW m \in Nat, NEW i \in Nat, Line(w, m, i),
         wire[EndOf(w)] # <<>>, wire'[EndOf(w)] = Tail(wire[EndOf(w)]), pos'[w] = pos[w],
         Dead(w) => Dead(w)', NEW x \in Nat, NEW y \in Nat,
         \A n, k \in Nat : On(w, 1, n, k) => n = m /\ k = i,
         \A n, k \in Nat : On(w, 1, m, i) /\ Follows(w, m, i, n, k) => n = x /\ k = y,
         (m = x /\ i = y) \/ On(w, 1, m, i)
  PROVE  Chain(w, x, y)' /\ Tip(w, x, y)'
<1>l. PICK l \in Nat : l = Len(wire[EndOf(w)])
  BY MovesUp
<1>1. /\ l # 0 /\ Len(wire'[EndOf(w)]) = l - 1
      /\ \A j \in 1 .. l - 1 : wire'[EndOf(w)][j] = wire[EndOf(w)][j + 1]
  BY <1>l, MovesUp
<1>2. \A j \in 1 .. l - 1 : \A n, k \in Nat : On(w, j, n, k)' <=> On(w, j + 1, n, k)
  BY <1>1 DEF On
<1>3. ASSUME NEW j \in 1 .. l, NEW n \in Nat, NEW k \in Nat, On(w, j, n, k)
      PROVE  /\ Before(n, k, pos[w][1], pos[w][2])
             /\ \A b \in j + 1 .. l : \A c, d \in Nat : On(w, b, c, d) => Before(n, k, c, d)
             /\ \/ n = m /\ k = i
                \/ \E b \in 1 .. j - 1 : \E c, d \in Nat : On(w, b, c, d) /\ Follows(w, c, d, n, k)
  BY <1>l, <1>3 DEF Line, Chain
<1>4. Chain(w, x, y)'
  <2>1. ASSUME NEW j \in 1 .. l - 1, NEW n \in Nat, NEW k \in Nat, On(w, j, n, k)'
        PROVE  /\ Before(n, k, pos'[w][1], pos'[w][2])
               /\ \A b \in j + 1 .. l - 1 : \A c, d \in Nat : On(w, b, c, d)' => Before(n, k, c, d)
               /\ \/ n = x /\ k = y
                  \/ \E b \in 1 .. j - 1 : \E c, d \in Nat : On(w, b, c, d)' /\ Follows(w, c, d, n, k)
    <3>1. On(w, j + 1, n, k) /\ j + 1 \in 1 .. l
      BY <1>2, <2>1
    <3>2. /\ Before(n, k, pos[w][1], pos[w][2])
          /\ \A b \in j + 2 .. l : \A c, d \in Nat : On(w, b, c, d) => Before(n, k, c, d)
          /\ \/ n = m /\ k = i
             \/ \E b \in 1 .. j : \E c, d \in Nat : On(w, b, c, d) /\ Follows(w, c, d, n, k)
      <4>1. (j + 1) + 1 = j + 2 /\ (j + 1) - 1 = j
        OBVIOUS
      <4> QED
        BY <1>3, <3>1, <4>1
    <3>3. ASSUME NEW b \in j + 1 .. l - 1, NEW c \in Nat, NEW d \in Nat, On(w, b, c, d)'
          PROVE  Before(n, k, c, d)
      <4>1. b + 1 \in j + 2 .. l /\ b \in 1 .. l - 1
        OBVIOUS
      <4>2. On(w, b + 1, c, d)
        BY <1>2, <3>3, <4>1
      <4> QED
        BY <3>2, <4>1, <4>2
    <3>4. CASE n = m /\ k = i
      <4>1. ~On(w, 1, m, i)
        <5>1. SUFFICES ASSUME On(w, 1, m, i) PROVE FALSE
          OBVIOUS
        <5>2. 1 \in 1 .. l /\ j + 1 \in 1 + 1 .. l
          BY <1>1
        <5>3. \A b \in 1 + 1 .. l : \A c, d \in Nat : On(w, b, c, d) => Before(m, i, c, d)
          BY <1>3, <5>1, <5>2
        <5>4. Before(m, i, n, k)
          BY <3>1, <5>2, <5>3
        <5> QED
          BY <3>4, <5>4 DEF Before
      <4> QED
        BY <3>2, <3>3, <3>4, <4>1
    <3>5. ASSUME NEW b \in 1 .. j, NEW c \in Nat, NEW d \in Nat, On(w, b, c, d),
                 Follows(w, c, d, n, k)
          PROVE  \/ n = x /\ k = y
                 \/ \E a \in 1 .. j - 1 : On(w, a, c, d)'
      <4>1. CASE b = 1
        BY <3>5, <4>1
      <4>2. CASE b # 1
        <5>1. b - 1 \in 1 .. j - 1 /\ b - 1 \in 1 .. l - 1 /\ (b - 1) + 1 = b
          BY <4>2
        <5> QED
          BY <1>2, <3>5, <5>1
      <4> QED
        BY <4>1, <4>2
    <3>6. \/ n = x /\ k = y
          \/ \E b \in 1 .. j - 1 : \E c, d \in Nat : On(w, b, c, d)' /\ Follows(w, c, d, n, k)
      BY <3>2, <3>4, <3>5
    <3> QED
      BY <3>2, <3>3, <3>6
  <2> QED
    BY <1>1, <2>1 DEF Chain
<1>5. Tip(w, x, y)'
  <2>1. CASE Dead(w)
    BY <2>1 DEF Tip
  <2>2. CASE pos[w] = <<m, i>>
    <3>1. ~On(w, 1, m, i)
      <4>1. SUFFICES ASSUME On(w, 1, m, i) PROVE FALSE
        OBVIOUS
      <4>2. 1 \in 1 .. l
        BY <1>1
      <4>3. Before(m, i, m, i)
        BY <1>3, <2>2, <4>1, <4>2
      <4> QED
        BY <4>3 DEF Before
    <3> QED
      BY <2>2, <3>1 DEF Tip
  <2>3. ASSUME NEW j \in 1 .. l, NEW n \in Nat, NEW k \in Nat, On(w, j, n, k),
               Follows(w, n, k, pos[w][1], pos[w][2])
        PROVE  Tip(w, x, y)'
    <3>0. pos[w][1] \in Nat /\ pos[w][2] \in Nat /\ pos[w] = <<pos[w][1], pos[w][2]>>
      BY DEF WireTypes
    <3>1. CASE j = 1
      <4>1. pos[w][1] = x /\ pos[w][2] = y
        BY <2>3, <3>0, <3>1
      <4> QED
        BY <3>0, <4>1 DEF Tip
    <3>2. CASE j # 1
      <4>1. j - 1 \in 1 .. l - 1 /\ (j - 1) + 1 = j
        BY <3>2
      <4>2. On(w, j - 1, n, k)'
        BY <1>2, <2>3, <4>1
      <4> QED
        BY <1>1, <2>3, <4>1, <4>2 DEF Tip
    <3> QED
      BY <3>1, <3>2
  <2> QED
    BY <1>l, <2>1, <2>2, <2>3 DEF Line, Tip
<1> QED
  BY <1>4, <1>5

LEMMA HeadIsNext ==
  ASSUME WireTypes, NEW w \in Writers, NEW m \in Nat, NEW i \in Nat, Chain(w, m, i),
         wire[EndOf(w)] # <<>>, NEW n \in Nat, NEW k \in Nat, On(w, 1, n, k)
  PROVE  n = m /\ k = i
<1>1. 1 \in 1 .. Len(wire[EndOf(w)])
  <2> DEFINE q == wire[EndOf(w)]
  <2>1. q \in Seq(FrameType) /\ q # <<>>
    BY Names DEF WireTypes
  <2> HIDE DEF q
  <2>2. Len(q) \in Nat /\ Len(q) # 0
    BY <2>1
  <2> QED
    BY <2>2 DEF q
<1>2. \A b \in 1 .. 1 - 1 : FALSE
  OBVIOUS
<1>3. (n = m /\ k = i) \/ \E b \in 1 .. 1 - 1 : TRUE
  BY <1>1 DEF Chain
<1> QED
  BY <1>2, <1>3

(* The peer takes a frame of somebody else, ...                            *)
LEMMA LineLooksOn ==
  ASSUME WireTypes, NEW w \in Writers, NEW m \in Nat, NEW i \in Nat, Line(w, m, i),
         wire[EndOf(w)] # <<>>, wire'[EndOf(w)] = Tail(wire[EndOf(w)]), pos'[w] = pos[w],
         Dead(w) => Dead(w)', \A n, k \in Nat : ~On(w, 1, n, k),
         Kept(w, m, i)', \A k \in DOMAIN Frames[w] : Arrived(w, k)' <=> Arrived(w, k)
  PROVE  Line(w, m, i)'
<1>1. Got(w, m, i)'
  BY DEF Line, Got
<1>2. Chain(w, m, i)' /\ Tip(w, m, i)'
  BY LineLeft
<1> QED
  BY <1>1, <1>2 DEF Line

(* ... or the next one of its own.                                         *)
LEMMA LineAdvances ==
  ASSUME WireTypes, NEW w \in Writers, NEW m \in Nat, NEW i \in Nat, Line(w, m, i),
         wire[EndOf(w)] # <<>>, wire'[EndOf(w)] = Tail(wire[EndOf(w)]), pos'[w] = pos[w],
         Dead(w) => Dead(w)', On(w, 1, m, i), NEW x \in Nat, NEW y \in Nat, Follows(w, m, i, x, y),
         Got(w, x, y)', Kept(w, x, y)'
  PROVE  Line(w, x, y)'
<1>1. \A n, k \in Nat : On(w, 1, n, k) => n = m /\ k = i
  BY HeadIsNext DEF Line
<1>2. \A c, d \in Nat : Follows(w, m, i, c, d) => c = x /\ d = y
  BY DEF Follows
<1>4. Chain(w, x, y)' /\ Tip(w, x, y)'
  BY <1>1, <1>2, LineLeft
<1> QED
  BY <1>4 DEF Line

-----------------------------------------------------------------------------
(* What a reader does with a frame, once it knows whose piece it is.       *)

(* Two messages of a writer are different, and none of two writers agree.  *)
LEMMA MessageIsOne ==
  ASSUME NEW v \in Writers, NEW m \in DOMAIN Frames[v], NEW w \in Writers, NEW n \in DOMAIN Frames[w]
  PROVE  Message(v, m) = Message(w, n) <=> v = w /\ m = n
<1>1. 1 \in 1 .. Frames[v][m] /\ 1 \in 1 .. Frames[w][n]
  BY FrameCounts
<1>2. Message(v, m)[1] = <<v, m, 1>> /\ Message(w, n)[1] = <<w, n, 1>>
  BY <1>1 DEF Message
<1>3. Message(v, m) = Message(w, n) => <<v, m, 1>> = <<w, n, 1>>
  BY <1>2
<1> QED
  BY <1>3

(* Of two writers of an end, only one sends messages in several frames.    *)
LEMMA OneFragments ==
  ASSUME NEW v \in Writers, NEW w \in Writers, v # w, EndOf(v) = EndOf(w),
         NEW m \in DOMAIN Frames[v], Frames[v][m] # 1
  PROVE  \A n \in DOMAIN Frames[w] : Frames[w][n] = 1
BY WsAssumption

(* The first i pieces of a message.                                        *)
Part(w, m, i) == [j \in 1 .. i |-> <<w, m, j>>]

LEMMA Parts ==
  ASSUME NEW w \in Writers, NEW m \in Nat, NEW i \in Nat \ {0}
  PROVE  /\ Part(w, m, i) \in Bodies /\ Part(w, m, i) # <<>>
         /\ <<<<w, m, 1>>>> = Part(w, m, 1)
         /\ Part(w, m, i) \o <<<<w, m, i + 1>>>> = Part(w, m, i + 1)
<1> DEFINE T == Writers \X Nat \X Nat
           s == <<<<w, m, i + 1>>>>
<1>1. ASSUME NEW k \in Nat
      PROVE  /\ Part(w, m, k) \in Seq(T) /\ Len(Part(w, m, k)) = k
             /\ \A j \in 1 .. k : Part(w, m, k)[j] = <<w, m, j>>
  <2>1. \A j \in 1 .. k : <<w, m, j>> \in T
    OBVIOUS
  <2> HIDE DEF T
  <2> QED
    BY <2>1 DEF Part
<1>2. s \in Seq(T) /\ Len(s) = 1 /\ s[1] = <<w, m, i + 1>>
  <2>1. <<w, m, i + 1>> \in T
    OBVIOUS
  <2> HIDE DEF T
  <2> QED
    BY <2>1
<1> HIDE DEF s, T
<1>3. /\ Part(w, m, i) \in Seq(T) /\ Len(Part(w, m, i)) = i
      /\ \A j \in 1 .. i : Part(w, m, i)[j] = <<w, m, j>>
  BY <1>1
<1>4. /\ Part(w, m, i + 1) \in Seq(T) /\ Len(Part(w, m, i + 1)) = i + 1
      /\ \A j \in 1 .. i + 1 : Part(w, m, i + 1)[j] = <<w, m, j>>
  BY <1>1
<1>5. Part(w, m, i) \o s = Part(w, m, i + 1)
  <2>1. /\ Part(w, m, i) \o s \in Seq(T) /\ Len(Part(w, m, i) \o s) = i + 1
        /\ \A j \in 1 .. i + 1 : (Part(w, m, i) \o s)[j] =
                                  IF j <= i THEN Part(w, m, i)[j] ELSE s[j - i]
    <3>1. LET p == Part(w, m, i) IN
          /\ p \o s \in Seq(T) /\ Len(p \o s) = Len(p) + Len(s)
          /\ \A j \in 1 .. Len(p) + Len(s) :
               (p \o s)[j] = IF j <= Len(p) THEN p[j] ELSE s[j - Len(p)]
      BY <1>2, <1>3, ConcatProperties
    <3> QED
      BY <1>2, <1>3, <3>1
  <2>2. \A j \in 1 .. i + 1 : (Part(w, m, i) \o s)[j] = <<w, m, j>>
    BY <1>2, <1>3, <2>1
  <2> QED
    BY <1>4, <2>1, <2>2, SeqEqual
<1>6. <<<<w, m, 1>>>> = Part(w, m, 1)
  BY DEF Part
<1>7. Part(w, m, i) # <<>>
  BY <1>3
<1> QED
  BY <1>3, <1>5, <1>6, <1>7 DEF s, T, Bodies

LEMMA PeerOfPeer == \A e \in Ends : Peer(Peer(e)) = e /\ Peer(e) # e /\ Peer(e) \in Ends
BY DEF Ends, Peer

LEMMA ArrivedAfter ==
  ASSUME DeliveredType, NEW e \in Ends, NEW s \in Bodies,
         delivered' = [delivered EXCEPT ![e] = Append(delivered[e], s)],
         NEW w \in Writers, EndOf(w) = Peer(e), NEW k
  PROVE  Arrived(w, k)' <=> Arrived(w, k) \/ s = Message(w, k)
<1>1. Peer(EndOf(w)) = e /\ delivered[e] \in Seq(Bodies) /\ delivered'[e] = Append(delivered[e], s)
  BY PeerOfPeer DEF DeliveredType
<1>l. PICK l \in Nat : l = Len(delivered[e]) /\ DOMAIN delivered[e] = 1 .. l
  BY <1>1
<1>2. /\ DOMAIN delivered'[e] = 1 .. l + 1 /\ delivered'[e][l + 1] = s
      /\ \A j \in 1 .. l : delivered'[e][j] = delivered[e][j]
  BY <1>1, <1>l
<1>3. Message(w, k)' = Message(w, k)
  BY DEF Message
<1>4. Arrived(w, k)' <=> \E a \in 1 .. l + 1 : delivered'[e][a] = Message(w, k)
  BY <1>1, <1>2, <1>3 DEF Arrived
<1>5. Arrived(w, k) <=> \E a \in 1 .. l : delivered[e][a] = Message(w, k)
  BY <1>1, <1>l DEF Arrived
<1> QED
  BY <1>2, <1>4, <1>5

(* The piece that comes next is kept, or completes its message.            *)
LEMMA Reading ==
  ASSUME WireTypes, DeliveredType, NEW e \in Ends, Takes(e), NEW w \in Writers, EndOf(w) = Peer(e),
         NEW m \in Nat, NEW i \in Nat, Valid(w, m, i), Kept(w, m, i),
         Carries(Head(wire[Peer(e)]), w, m, i)
  PROVE  /\ \A d \in Ends \ {e} : frag'[d] = frag[d]
         /\ \/ /\ i < Frames[w][m] /\ frag'[e] = Part(w, m, i) /\ UNCHANGED delivered
            \/ /\ i = Frames[w][m]
               /\ delivered' = [delivered EXCEPT ![e] = Append(delivered[e], Message(w, m))]
               /\ frag'[e] = IF i = 1 THEN frag[e] ELSE <<>>
<1>0. PICK f : f = Head(wire[Peer(e)])
  OBVIOUS
<1>1. /\ i \in 1 .. Frames[w][m] /\ Frames[w][m] \in Nat \ {0} /\ m \in DOMAIN Frames[w]
      /\ Message(w, m) = Part(w, m, Frames[w][m])
      /\ frag \in [Ends -> Bodies]
  BY FrameCounts DEF Valid, Message, Part, WireTypes
<1>2. /\ f.fin = (i = Frames[w][m]) /\ f.body = <<<<w, m, i>>>>
      /\ f.op = IF i = 1 THEN "data" ELSE "continuation"
  BY <1>0 DEF Carries
<1>3. CASE i = 1
  <2>1. dispatchData(e, f) /\ f.body = Part(w, m, 1)
    BY <1>0, <1>1, <1>2, <1>3, Parts DEF Takes, Carriers
  <2>2. CASE i = Frames[w][m]
    <3>1. f.fin
      BY <1>2, <2>2
    <3>2. Deliver(e, Part(w, m, 1)) /\ UNCHANGED frag
      BY <2>1, <3>1 DEF dispatchData
    <3> QED
      BY <1>1, <1>3, <2>2, <3>2 DEF Deliver
  <2>3. CASE i # Frames[w][m]
    <3>1. ~f.fin
      BY <1>2, <2>3
    <3>2. Keep(e, Part(w, m, i)) /\ UNCHANGED delivered
      BY <1>3, <2>1, <3>1 DEF dispatchData
    <3> QED
      BY <1>1, <2>3, <3>2 DEF Keep
  <2> QED
    BY <2>2, <2>3
<1>4. CASE i > 1
  <2>1. dispatchContinuation(e, f)
    BY <1>0, <1>2, <1>4 DEF Takes, Carriers
  <2>2. frag[e] = Part(w, m, i - 1)
    BY <1>4, PeerOfPeer DEF Kept, Part
  <2>3. i - 1 \in Nat \ {0} /\ (i - 1) + 1 = i
    BY <1>4
  <2>4. frag[e] # <<>> /\ frag[e] \o f.body = Part(w, m, i)
    BY <1>2, <2>2, <2>3, Parts
  <2>5. CASE i = Frames[w][m]
    <3>1. f.fin
      BY <1>2, <2>5
    <3>2. Keep(e, <<>>) /\ Deliver(e, Part(w, m, i))
      BY <2>1, <2>4, <3>1 DEF dispatchContinuation
    <3> QED
      BY <1>1, <1>4, <2>5, <3>2 DEF Keep, Deliver
  <2>6. CASE i # Frames[w][m]
    <3>1. ~f.fin
      BY <1>2, <2>6
    <3>2. Keep(e, Part(w, m, i)) /\ UNCHANGED delivered
      BY <2>1, <2>4, <3>1 DEF dispatchContinuation
    <3> QED
      BY <1>1, <2>6, <3>2 DEF Keep
  <2> QED
    BY <2>5, <2>6
<1> QED
  BY <1>1, <1>3, <1>4

LEMMA ReadingControl ==
  ASSUME NEW e \in Ends, Takes(e), Control(Head(wire[Peer(e)]))
  PROVE  UNCHANGED <<frag, delivered>>
BY DEF Takes, Control, Carriers

(* The line of the writer whose piece is read, ...                         *)
LEMMA ReadOwn ==
  ASSUME WireTypes, DeliveredType, NEW e \in Ends, Takes(e), NEW w \in Writers, EndOf(w) = Peer(e),
         NEW m \in Nat, NEW i \in Nat, Valid(w, m, i), Line(w, m, i), Dead(w) => Dead(w)',
         Carries(Head(wire[Peer(e)]), w, m, i)
  PROVE  \E x, y \in Nat : Line(w, x, y)'
<1>1. /\ i \in 1 .. Frames[w][m] /\ Frames[w][m] \in Nat \ {0} /\ m \in DOMAIN Frames[w]
      /\ m \in Nat \ {0}
  BY FrameCounts DEF Valid
<1>2. /\ Peer(EndOf(w)) = e /\ wire[EndOf(w)] # <<>> /\ pos'[w] = pos[w]
      /\ wire'[EndOf(w)] = Tail(wire[EndOf(w)])
  BY PeerOfPeer DEF Takes, WireTypes
<1>3. On(w, 1, m, i)
  <2>1. Head(wire[EndOf(w)]) = wire[EndOf(w)][1]
    BY <1>2, MovesUp
  <2> QED
    BY <2>1 DEF On, Carries
<1>4. /\ Kept(w, m, i)
      /\ \A k \in DOMAIN Frames[w] : k < m <=> Arrived(w, k)
  BY DEF Line, Got
<1>5. CASE i < Frames[w][m]
  <2>1. frag'[e] = Part(w, m, i) /\ UNCHANGED delivered
    BY <1>1, <1>4, <1>5, Reading
  <2>2. Follows(w, m, i, m, i + 1) /\ Valid(w, m, i + 1)
    BY <1>1, <1>5 DEF Follows, Valid
  <2>3. \A k : Arrived(w, k)' <=> Arrived(w, k)
    BY <2>1 DEF Arrived, Message
  <2>4. Got(w, m, i + 1)'
    BY <1>1, <1>4, <2>2, <2>3 DEF Got, Valid
  <2>5. Kept(w, m, i + 1)'
    BY <1>1, <1>2, <2>1 DEF Kept, Part
  <2>6. Line(w, m, i + 1)'
    BY <1>2, <1>3, <2>2, <2>4, <2>5, LineAdvances
  <2> QED
    BY <2>6
<1>6. CASE i = Frames[w][m]
  <2>1. /\ delivered' = [delivered EXCEPT ![e] = Append(delivered[e], Message(w, m))]
        /\ frag'[e] = IF i = 1 THEN frag[e] ELSE <<>>
    BY <1>1, <1>4, <1>6, Reading
  <2>2. Follows(w, m, i, m + 1, 1)
    BY <1>1, <1>6 DEF Follows
  <2>3. Message(w, m) \in Bodies
    BY <1>1, Parts DEF Message, Part
  <2>4. \A k \in DOMAIN Frames[w] : Arrived(w, k)' <=> Arrived(w, k) \/ k = m
    <3>1. ASSUME NEW k \in DOMAIN Frames[w] PROVE Message(w, m) = Message(w, k) <=> k = m
      BY <1>1, MessageIsOne
    <3>2. ASSUME NEW k PROVE Arrived(w, k)' <=> Arrived(w, k) \/ Message(w, m) = Message(w, k)
      BY <2>1, <2>3, ArrivedAfter
    <3> QED
      BY <3>1, <3>2
  <2>5. \A k \in DOMAIN Frames[w] : k < m + 1 <=> k < m \/ k = m
    BY <1>1, FrameCounts
  <2>6. Got(w, m + 1, 1)'
    BY <1>1, <1>4, <2>4, <2>5 DEF Got
  <2>7. Kept(w, m + 1, 1)'
    BY <1>1, <1>2, <1>4, <2>1 DEF Kept
  <2>8. Line(w, m + 1, 1)'
    <3>1. m + 1 \in Nat /\ 1 \in Nat
      OBVIOUS
    <3> QED
      BY <3>1, <1>2, <1>3, <2>2, <2>6, <2>7, LineAdvances
  <2> QED
    BY <2>8
<1> QED
  BY <1>1, <1>5, <1>6

(* ... and of another one of the same end.                                 *)
LEMMA ReadOther ==
  ASSUME WireTypes, DeliveredType, NEW e \in Ends, Takes(e), NEW w \in Writers, EndOf(w) = Peer(e),
         NEW m \in Nat, NEW i \in Nat, Valid(w, m, i), Kept(w, m, i),
         Carries(Head(wire[Peer(e)]), w, m, i),
         NEW v \in Writers, v # w, EndOf(v) = Peer(e), NEW n \in Nat, NEW k \in Nat,
         Line(v, n, k), Dead(v) => Dead(v)'
  PROVE  Line(v, n, k)'
<1>1. /\ i \in 1 .. Frames[w][m] /\ Frames[w][m] \in Nat \ {0} /\ m \in DOMAIN Frames[w]
  BY FrameCounts DEF Valid
<1>2. /\ Peer(EndOf(v)) = e /\ wire[EndOf(v)] # <<>> /\ pos'[v] = pos[v]
      /\ wire'[EndOf(v)] = Tail(wire[EndOf(v)])
  BY PeerOfPeer DEF Takes, WireTypes
<1>3. \A a, b \in Nat : ~On(v, 1, a, b)
  <2>1. wire[EndOf(v)][1].body = <<<<w, m, i>>>>
    BY <1>2, MovesUp DEF Carries
  <2> QED
    BY <2>1, PieceIsOne DEF On
<1>4. Kept(v, n, k) /\ (k = 1 \/ Valid(v, n, k)) /\ k # 0
  BY DEF Line, Got
<1>5. \/ i < Frames[w][m] /\ frag'[e] = Part(w, m, i) /\ UNCHANGED delivered
      \/ /\ i = Frames[w][m]
         /\ delivered' = [delivered EXCEPT ![e] = Append(delivered[e], Message(w, m))]
         /\ frag'[e] = IF i = 1 THEN frag[e] ELSE <<>>
  BY <1>1, Reading
<1>6. \A l \in DOMAIN Frames[v] : Arrived(v, l)' <=> Arrived(v, l)
  <2>1. CASE UNCHANGED delivered
    BY <2>1 DEF Arrived, Message
  <2>2. CASE delivered' = [delivered EXCEPT ![e] = Append(delivered[e], Message(w, m))]
    <3>1. Message(w, m) \in Bodies
      BY <1>1, Parts DEF Message, Part
    <3>2. \A l \in DOMAIN Frames[v] : Message(w, m) # Message(v, l)
      BY <1>1, MessageIsOne
    <3> QED
      BY <2>2, <3>1, <3>2, ArrivedAfter
  <2> QED
    BY <1>5, <2>1, <2>2
<1>7. Kept(v, n, k)'
  <2>1. CASE frag'[e] = frag[e]
    BY <1>2, <1>4, <2>1 DEF Kept
  <2>2. CASE i # 1 \/ i # Frames[w][m]
    <3>1. k = 1
      BY <1>1, <1>4, <2>2, OneFragments, FrameCounts DEF Valid
    <3>2. \A j \in DOMAIN frag'[e] : frag'[e][j][1] # v
      <4>1. CASE frag'[e] = <<>>
        BY <4>1
      <4>2. CASE frag'[e] = Part(w, m, i)
        BY <4>2 DEF Part
      <4> QED
        BY <1>5, <2>2, <4>1, <4>2
    <3> QED
      BY <1>2, <3>1, <3>2 DEF Kept
  <2> QED
    BY <1>1, <1>5, <2>1, <2>2
<1> QED
  BY <1>2, <1>3, <1>6, <1>7, LineLooksOn

-----------------------------------------------------------------------------
(* The invariant is inductive.                                             *)

LEMMA FragmentCarries ==
  ASSUME WireTypes, PosShape, NEW w \in Writers, pos[w][1] <= Len(Frames[w])
  PROVE  Valid(w, pos[w][1], pos[w][2]) /\ Carries(FragmentOf(w), w, pos[w][1], pos[w][2])
<1>1. pos[w][1] \in DOMAIN Frames[w] /\ Frames[w][pos[w][1]] \in Nat \ {0}
  BY FrameCounts DEF WireTypes, PosShape
<1>2. Valid(w, pos[w][1], pos[w][2])
  BY <1>1 DEF PosShape, Valid
<1> QED
  BY <1>2 DEF FragmentOf, Carries, Frame

LEMMA NextPosShape ==
  ASSUME WireTypes, LockTypes, Locals, PosShape, OutShape, [Next]_vars
  PROVE  PosShape'
<1>1. CASE UNCHANGED pos
  BY <1>1 DEF PosShape
<1>2. ASSUME NEW w \in Writers, GivesUp(w) PROVE PosShape'
  <2>1. pos[w][1] \in Nat /\ pos'[w] = <<pos[w][1] + 1, 1>> /\ \A v \in Writers \ {w} : pos'[v] = pos[v]
    BY <1>2 DEF GivesUp, WireTypes
  <2>2. pos'[w][1] # 0 /\ pos'[w][2] = 1
    BY <2>1
  <2> QED
    BY <2>1, <2>2 DEF PosShape
<1>3. ASSUME NEW w \in Writers, Puts(w) PROVE PosShape'
  <2>1. /\ pos[w][1] \in Nat /\ pos[w][2] \in Nat /\ \A v \in Writers \ {w} : pos'[v] = pos[v]
        /\ pos'[w] = IF pos[w][2] < Frames[w][pos[w][1]]
                     THEN <<pos[w][1], pos[w][2] + 1>> ELSE <<pos[w][1] + 1, 1>>
    BY <1>3 DEF Puts, WireTypes
  <2>2. Valid(w, pos[w][1], pos[w][2]) /\ Frames[w][pos[w][1]] \in Nat
    BY <1>3, FrameCounts DEF Puts, OutShape, Valid
  <2>3. pos'[w][1] # 0 /\ (pos'[w][2] = 1 \/ Valid(w, pos'[w][1], pos'[w][2]))
    BY <2>1, <2>2 DEF Valid, PosShape
  <2> QED
    BY <2>1, <2>3 DEF PosShape
<1> QED
  BY <1>1, <1>2, <1>3, Moves DEF Calm, Builds, PutsControl, Takes

LEMMA NextOutShape ==
  ASSUME WireTypes, LockTypes, Locals, PosShape, OutShape, [Next]_vars
  PROVE  OutShape'
<1>1. Controls
  BY Moves DEF Calm, Builds, GivesUp, Puts, PutsControl, Takes
<1>2. \A t \in Threads \ Writers : Control(out'[t])
  BY <1>1 DEF Controls, OutShape
<1>3. ASSUME NEW w \in Writers, pc'[w] \in {"lock", "send"}
      PROVE  Valid(w, pos'[w][1], pos'[w][2]) /\ Carries(out'[w], w, pos'[w][1], pos'[w][2])
  <2>1. CASE pc[w] \in {"lock", "send"} /\ out'[w] = out[w] /\ pos'[w] = pos[w]
    BY <2>1 DEF OutShape
  <2>2. CASE Calm
    BY <1>3, <2>1, <2>2 DEF Calm
  <2>3. CASE Builds(w)
    BY <2>3, FragmentCarries DEF Builds
  <2>4. ASSUME NEW v \in Writers, v # w, Builds(v) \/ GivesUp(v) \/ Puts(v)
        PROVE  pc[w] \in {"lock", "send"} /\ out'[w] = out[w] /\ pos'[w] = pos[w]
    BY <1>3, <2>4 DEF Builds, GivesUp, Puts, Still, WireTypes
  <2>5. ~GivesUp(w) /\ ~Puts(w)
    BY <1>3 DEF GivesUp, Puts
  <2>6. ASSUME NEW t \in Threads \ Writers, PutsControl(t)
        PROVE  pc[w] \in {"lock", "send"} /\ out'[w] = out[w] /\ pos'[w] = pos[w]
    BY <1>3, <2>6 DEF PutsControl, Still
  <2>7. ASSUME NEW e \in Ends, Takes(e)
        PROVE  pc[w] \in {"lock", "send"} /\ out'[w] = out[w] /\ pos'[w] = pos[w]
    BY <1>3, <2>7 DEF Takes, Still
  <2> QED
    BY <2>1, <2>2, <2>3, <2>4, <2>5, <2>6, <2>7, Moves
<1> QED
  BY <1>2, <1>3 DEF OutShape

LEMMA NextWireShape ==
  ASSUME WireTypes, LockTypes, Locals, WireShape, OutShape, [Next]_vars
  PROVE  WireShape'
<1> DEFINE Fits(e, f) == \/ Control(f)
                         \/ \E w \in Writers : \E m, i \in Nat :
                              EndOf(w) = e /\ Valid(w, m, i) /\ Carries(f, w, m, i)
<1>1. \A e \in Ends : \A j \in 1 .. Len(wire[e]) : Fits(e, wire[e][j])
  BY DEF WireShape
<1> HIDE DEF Fits
<1>2. ASSUME NEW d \in Ends, NEW f \in FrameType, Fits(d, f),
             wire' = [wire EXCEPT ![d] = Append(wire[d], f)]
      PROVE  \A e \in Ends : \A j \in 1 .. Len(wire'[e]) : Fits(e, wire'[e][j])
  <2>1. wire[d] \in Seq(FrameType) /\ wire'[d] = Append(wire[d], f)
        /\ \A e \in Ends \ {d} : wire'[e] = wire[e]
    BY <1>2 DEF WireTypes
  <2>2. /\ Len(wire[d]) \in Nat /\ Len(wire'[d]) = Len(wire[d]) + 1 /\ wire'[d][Len(wire[d]) + 1] = f
        /\ \A j \in 1 .. Len(wire[d]) : wire'[d][j] = wire[d][j]
    BY <2>1, Behind
  <2>3. \A j \in 1 .. Len(wire'[d]) : j \in 1 .. Len(wire[d]) \/ j = Len(wire[d]) + 1
    BY <2>2
  <2> QED
    BY <1>1, <1>2, <2>1, <2>2, <2>3
<1>3. ASSUME NEW d \in Ends, wire[d] # <<>>, wire' = [wire EXCEPT ![d] = Tail(wire[d])]
      PROVE  \A e \in Ends : \A j \in 1 .. Len(wire'[e]) : Fits(e, wire'[e][j])
  <2>1. wire[d] \in Seq(FrameType) /\ wire'[d] = Tail(wire[d])
        /\ \A e \in Ends \ {d} : wire'[e] = wire[e]
    BY <1>3 DEF WireTypes
  <2>2. /\ Len(wire[d]) \in Nat /\ Len(wire'[d]) = Len(wire[d]) - 1
        /\ \A j \in 1 .. Len(wire[d]) - 1 : wire'[d][j] = wire[d][j + 1]
    <3> DEFINE q == wire[d]
    <3>1. q \in Seq(FrameType) /\ q # <<>>
      BY <1>3, <2>1
    <3> HIDE DEF q
    <3>2. /\ Len(q) \in Nat \ {0} /\ Len(Tail(q)) = Len(q) - 1
          /\ \A j \in 1 .. Len(q) - 1 : Tail(q)[j] = q[j + 1]
      BY <3>1, Ahead
    <3> QED
      BY <2>1, <3>2 DEF q
  <2>3. \A j \in 1 .. Len(wire[d]) - 1 : j + 1 \in 1 .. Len(wire[d])
    BY <2>2
  <2> QED
    BY <1>1, <2>1, <2>2, <2>3
<1>4. ASSUME UNCHANGED wire
      PROVE  \A e \in Ends : \A j \in 1 .. Len(wire'[e]) : Fits(e, wire'[e][j])
  BY <1>1, <1>4
<1>5. ASSUME NEW w \in Writers, Puts(w)
      PROVE  \A e \in Ends : \A j \in 1 .. Len(wire'[e]) : Fits(e, wire'[e][j])
  <2>1. EndOf(w) \in Ends /\ out[w] \in FrameType /\ pos[w][1] \in Nat /\ pos[w][2] \in Nat
    BY Names DEF WireTypes
  <2>2. Valid(w, pos[w][1], pos[w][2]) /\ Carries(out[w], w, pos[w][1], pos[w][2])
    BY <1>5 DEF Puts, OutShape
  <2>3. Fits(EndOf(w), out[w])
    BY <2>1, <2>2 DEF Fits
  <2> QED
    BY <1>2, <1>5, <2>1, <2>3 DEF Puts
<1>6. ASSUME NEW t \in Threads \ Writers, PutsControl(t)
      PROVE  \A e \in Ends : \A j \in 1 .. Len(wire'[e]) : Fits(e, wire'[e][j])
  <2>1. EndOf(t) \in Ends /\ out[t] \in FrameType /\ Fits(EndOf(t), out[t])
    BY Names DEF WireTypes, OutShape, Fits
  <2> QED
    BY <1>2, <1>6, <2>1 DEF PutsControl
<1>7. ASSUME NEW e \in Ends, Takes(e)
      PROVE  \A d \in Ends : \A j \in 1 .. Len(wire'[d]) : Fits(d, wire'[d][j])
  BY <1>3, <1>7, PeerType DEF Takes
<1>8. \A e \in Ends : \A j \in 1 .. Len(wire'[e]) : Fits(e, wire'[e][j])
  BY <1>4, <1>5, <1>6, <1>7, Moves DEF Calm, Builds, GivesUp
<1> QED
  BY <1>8 DEF WireShape, Fits, Control, Carries, Valid

LEMMA NextLines ==
  ASSUME StateTypes, WireTypes, LockTypes, Locals, DeliveredType, WireShape, OutShape, PosShape,
         Lines, [Next]_vars
  PROVE  Lines'
<1> SUFFICES ASSUME NEW w \in Writers, ~Shut(Peer(EndOf(w)))'
             PROVE  \E m, i \in Nat : Line(w, m, i)'
  BY Zenon DEF Lines
<1> DEFINE d == EndOf(w)
           r == Peer(EndOf(w))
<1>1. d \in Ends /\ r \in Ends /\ Peer(r) = d /\ r # d /\ w \in Threads
  BY Names, PeerOfPeer
<1>2. ~Shut(r)
  BY <1>1, Onward
<1>3. PICK m \in Nat, i \in Nat : Line(w, m, i)
  BY <1>2 DEF Lines
<1>4. Dead(w) => Dead(w)'
  BY DeadStays
<1>5. pos[w][1] \in Nat /\ pos[w][2] \in Nat
  BY DEF WireTypes
<1>6. ASSUME UNCHANGED <<frag, delivered>>, wire'[d] = wire[d], pos'[w] = pos[w]
      PROVE  Line(w, m, i)'
  BY <1>3, <1>4, <1>6, LineStays
<1>7. ASSUME UNCHANGED <<frag, delivered>>, NEW f \in FrameType, wire'[d] = Append(wire[d], f),
             pos'[w] = pos[w], \A n, k \in Nat : f.body # <<<<w, n, k>>>>
      PROVE  Line(w, m, i)'
  BY <1>3, <1>4, <1>7, LinePassedBy
<1>8. CASE Calm
  BY <1>6, <1>8 DEF Calm
<1>9. ASSUME NEW v \in Writers, Builds(v) PROVE Line(w, m, i)'
  BY <1>6, <1>9 DEF Builds
<1>10. ASSUME NEW v \in Writers, v # w, GivesUp(v) PROVE Line(w, m, i)'
  BY <1>6, <1>10 DEF GivesUp, WireTypes
<1>11. ASSUME GivesUp(w) PROVE Line(w, m, i)'
  <2>1. pos'[w] = <<pos[w][1] + 1, 1>>
    BY <1>11 DEF GivesUp, WireTypes
  <2>2. Dead(w)'
    BY <1>2, <1>11 DEF GivesUp, Dead
  <2> QED
    BY <1>3, <1>11, <2>1, <2>2, LineGivesUp DEF GivesUp
<1>12. ASSUME NEW v \in Writers, v # w, Puts(v) PROVE Line(w, m, i)'
  <2>1. UNCHANGED <<frag, delivered>> /\ pos'[w] = pos[w] /\ out[v] \in FrameType
    BY <1>12, Names DEF Puts, WireTypes
  <2>2. CASE EndOf(v) # d
    BY <1>1, <1>6, <1>12, <2>1, <2>2 DEF Puts, WireTypes
  <2>3. CASE EndOf(v) = d
    <3>1. wire'[d] = Append(wire[d], out[v])
      BY <1>1, <1>12, <2>3 DEF Puts, WireTypes
    <3>2. out[v].body = <<<<v, pos[v][1], pos[v][2]>>>>
      BY <1>12 DEF Puts, OutShape, Carries
    <3>3. \A n, k \in Nat : out[v].body # <<<<w, n, k>>>>
      BY <1>12, <3>2, PieceIsOne
    <3> QED
      BY <1>7, <2>1, <3>1, <3>3
  <2> QED
    BY <2>2, <2>3
<1>13. ASSUME Puts(w) PROVE Line(w, m, i)'
  <2>1. /\ Valid(w, pos[w][1], pos[w][2]) /\ out[w].body = <<<<w, pos[w][1], pos[w][2]>>>>
        /\ Frames[w][pos[w][1]] \in Nat
    BY <1>13, FrameCounts DEF Puts, OutShape, Carries, Valid
  <2>2. ~Dead(w)
    BY <1>13 DEF Puts, Dead
  <2>3. /\ wire'[d] = Append(wire[d], out[w]) /\ out[w] \in FrameType
        /\ UNCHANGED <<frag, delivered>>
    BY <1>1, <1>13 DEF Puts, WireTypes
  <2>4. pos'[w] = IF pos[w][2] < Frames[w][pos[w][1]]
                  THEN <<pos[w][1], pos[w][2] + 1>> ELSE <<pos[w][1] + 1, 1>>
    BY <1>13 DEF Puts, WireTypes
  <2>5. pos'[w] \in Nat \X Nat /\ Follows(w, pos[w][1], pos[w][2], pos'[w][1], pos'[w][2])
    BY <1>5, <2>4 DEF Follows
  <2> QED
    BY <1>3, <2>1, <2>2, <2>3, <2>5, LinePut
<1>14. ASSUME NEW t \in Threads \ Writers, PutsControl(t) PROVE Line(w, m, i)'
  <2>1. UNCHANGED <<frag, delivered>> /\ pos'[w] = pos[w] /\ out[t] \in FrameType
    BY <1>14 DEF PutsControl, WireTypes
  <2>2. CASE EndOf(t) # d
    BY <1>1, <1>6, <1>14, <2>1, <2>2 DEF PutsControl, WireTypes
  <2>3. CASE EndOf(t) = d
    <3>1. wire'[d] = Append(wire[d], out[t])
      BY <1>1, <1>14, <2>3 DEF PutsControl, WireTypes
    <3>2. out[t].body = <<>>
      BY DEF OutShape, Control
    <3>3. \A n, k \in Nat : out[t].body # <<<<w, n, k>>>>
      BY <3>2, PieceIsOne
    <3> QED
      BY <1>7, <2>1, <3>1, <3>3
  <2> QED
    BY <2>2, <2>3
<1>15. ASSUME NEW e \in Ends, Takes(e) PROVE \E x, y \in Nat : Line(w, x, y)'
  <2>0. wire[Peer(e)] \in Seq(FrameType) /\ wire[Peer(e)] # <<>> /\ UNCHANGED pos
    BY <1>15, PeerType DEF Takes, WireTypes
  <2>1. PICK f : f = Head(wire[Peer(e)])
    OBVIOUS
  <2>2. f = wire[Peer(e)][1] /\ 1 \in 1 .. Len(wire[Peer(e)])
    BY <2>0, <2>1, Ahead
  <2>3. CASE Control(f)
    <3>1. UNCHANGED <<frag, delivered>>
      BY <1>15, <2>1, <2>3, ReadingControl
    <3>2. CASE e # r
      <4>1. Peer(e) # d
        BY <1>1, <3>2, PeerOfPeer
      <4>2. wire'[d] = wire[d]
        BY <1>1, <1>15, <4>1 DEF Takes, WireTypes
      <4> QED
        BY <1>6, <2>0, <3>1, <4>2
    <3>3. CASE e = r
      <4>1. wire[d] # <<>> /\ wire'[d] = Tail(wire[d])
        BY <1>1, <1>15, <3>3 DEF Takes, WireTypes
      <4>2. \A n, k \in Nat : ~On(w, 1, n, k)
        <5>1. wire[d][1].body = <<>>
          BY <1>1, <2>2, <2>3, <3>3 DEF Control
        <5> QED
          BY <5>1, PieceIsOne DEF On
      <4>3. Kept(w, m, i)' /\ \A k \in DOMAIN Frames[w] : Arrived(w, k)' <=> Arrived(w, k)
        BY <1>3, <3>1 DEF Line, Kept, Arrived, Message
      <4> QED
        BY <1>3, <1>4, <2>0, <4>1, <4>2, <4>3, LineLooksOn
    <3> QED
      BY <3>2, <3>3
  <2>4. ASSUME NEW v \in Writers, NEW n \in Nat, NEW k \in Nat, EndOf(v) = Peer(e), Valid(v, n, k),
               Carries(f, v, n, k)
        PROVE  \E x, y \in Nat : Line(w, x, y)'
    <3>1. ~Shut(e) /\ Peer(EndOf(v)) = e
      BY <1>15, <2>4, PeerOfPeer DEF Takes, Shut
    <3>2. PICK a \in Nat, b \in Nat : Line(v, a, b)
      BY <3>1 DEF Lines
    <3>3. a = n /\ b = k
      <4>1. On(v, 1, n, k)
        BY <2>2, <2>4 DEF On, Carries
      <4> QED
        BY <2>0, <2>4, <3>2, <4>1, HeadIsNext DEF Line
    <3>4. Line(v, n, k) /\ Kept(v, n, k) /\ Carries(Head(wire[Peer(e)]), v, n, k)
      BY <2>1, <2>4, <3>2, <3>3 DEF Line
    <3>5. CASE w = v
      BY <1>4, <1>15, <2>4, <3>4, <3>5, ReadOwn
    <3>6. CASE w # v /\ d = Peer(e)
      BY <1>3, <1>4, <1>15, <2>4, <3>4, <3>6, ReadOther
    <3>7. CASE d # Peer(e)
      <4>1. e # r
        BY <1>1, <3>7
      <4>2. wire'[d] = wire[d]
        BY <1>1, <1>15, <3>7 DEF Takes, WireTypes
      <4>3. frag'[r] = frag[r] /\ delivered'[r] = delivered[r]
        BY <1>1, <1>15, <2>4, <3>4, <4>1, Reading DEF DeliveredType
      <4> QED
        BY <1>3, <1>4, <2>0, <4>2, <4>3, LineStays
    <3> QED
      BY <3>5, <3>6, <3>7
  <2> QED
    BY <2>2, <2>3, <2>4, PeerType DEF WireShape
<1> QED
  BY <1>8, <1>9, <1>10, <1>11, <1>12, <1>13, <1>14, <1>15, Moves

(* What the handlers of an end are called with: nothing new, or the next   *)
(* message of a writer.                                                    *)
LEMMA Called ==
  ASSUME StateTypes, WireTypes, LockTypes, Locals, DeliveredType, WireShape, OutShape, PosShape,
         Lines, [Next]_vars
  PROVE  \/ UNCHANGED delivered
         \/ \E e \in Ends : \E w \in Writers : \E m \in DOMAIN Frames[w] :
              /\ EndOf(w) = Peer(e)
              /\ delivered' = [delivered EXCEPT ![e] = Append(delivered[e], Message(w, m))]
              /\ \A k \in DOMAIN Frames[w] : k < m <=> Arrived(w, k)
<1>1. ASSUME NEW e \in Ends, Takes(e), ~UNCHANGED delivered
      PROVE  \E w \in Writers : \E m \in DOMAIN Frames[w] :
               /\ EndOf(w) = Peer(e)
               /\ delivered' = [delivered EXCEPT ![e] = Append(delivered[e], Message(w, m))]
               /\ \A k \in DOMAIN Frames[w] : k < m <=> Arrived(w, k)
  <2>0. wire[Peer(e)] \in Seq(FrameType) /\ wire[Peer(e)] # <<>>
    BY <1>1, PeerType DEF Takes, WireTypes
  <2>1. PICK f : f = Head(wire[Peer(e)])
    OBVIOUS
  <2>2. f = wire[Peer(e)][1] /\ 1 \in 1 .. Len(wire[Peer(e)])
    BY <2>0, <2>1, Ahead
  <2>3. ~Control(f)
    BY <1>1, <2>1, ReadingControl
  <2>4. PICK w \in Writers, m \in Nat, i \in Nat :
          EndOf(w) = Peer(e) /\ Valid(w, m, i) /\ Carries(f, w, m, i)
    BY <2>2, <2>3, PeerType DEF WireShape
  <2>5. ~Shut(e) /\ Peer(EndOf(w)) = e
    BY <1>1, <2>4, PeerOfPeer DEF Takes, Shut
  <2>6. PICK a \in Nat, b \in Nat : Line(w, a, b)
    BY <2>5 DEF Lines
  <2>7. a = m /\ b = i
    <3>1. On(w, 1, m, i)
      BY <2>2, <2>4 DEF On, Carries
    <3> QED
      BY <2>0, <2>4, <2>6, <3>1, HeadIsNext DEF Line
  <2>8. /\ Kept(w, m, i) /\ Carries(Head(wire[Peer(e)]), w, m, i) /\ m \in DOMAIN Frames[w]
        /\ \A k \in DOMAIN Frames[w] : k < m <=> Arrived(w, k)
    BY <2>1, <2>4, <2>6, <2>7 DEF Line, Got, Valid
  <2>9. delivered' = [delivered EXCEPT ![e] = Append(delivered[e], Message(w, m))]
    BY <1>1, <2>4, <2>8, Reading
  <2> QED
    BY <2>4, <2>8, <2>9
<1> QED
  BY <1>1, Moves DEF Calm, Builds, GivesUp, Puts, PutsControl

LEMMA MessageTypes ==
  ASSUME NEW w \in Writers, NEW m \in DOMAIN Frames[w]
  PROVE  Message(w, m) \in Bodies
<1>1. m \in Nat /\ Frames[w][m] \in Nat \ {0}
  BY FrameCounts
<1> QED
  BY <1>1, Parts DEF Message, Part

LEMMA NextDelivered ==
  ASSUME StateTypes, WireTypes, LockTypes, Locals, DeliveredType, WireShape, OutShape, PosShape,
         Lines, WholeInOrder, [Next]_vars
  PROVE  DeliveredType' /\ WholeInOrder'
<1> DEFINE Fine(q, e, a) ==
      \E w \in Writers : \E m \in DOMAIN Frames[w] :
        /\ EndOf(w) = Peer(e) /\ q[a] = Message(w, m)
        /\ \A k \in 1 .. m : k < m <=> \E b \in 1 .. a - 1 : q[b] = Message(w, k)
<1>1. CASE UNCHANGED delivered
  <2>1. DeliveredType'
    BY <1>1 DEF DeliveredType
  <2>2. \A e \in Ends : \A a \in DOMAIN delivered[e] : Fine(delivered[e], e, a)
    BY DEF WholeInOrder
  <2> HIDE DEF Fine
  <2>3. \A e \in Ends : \A a \in DOMAIN delivered'[e] : Fine(delivered'[e], e, a)
    BY <1>1, <2>2
  <2>4. WholeInOrder'
    BY <2>3 DEF WholeInOrder, Message, Fine
  <2> QED
    BY <2>1, <2>4
<1>2. ASSUME NEW e \in Ends, NEW w \in Writers, NEW m \in DOMAIN Frames[w], EndOf(w) = Peer(e),
             delivered' = [delivered EXCEPT ![e] = Append(delivered[e], Message(w, m))],
             \A k \in DOMAIN Frames[w] : k < m <=> Arrived(w, k)
      PROVE  DeliveredType' /\ WholeInOrder'
  <2>1. delivered[e] \in Seq(Bodies) /\ Message(w, m) \in Bodies
    BY MessageTypes DEF DeliveredType
  <2>2. PICK q \in Seq(Bodies), p \in Seq(Bodies) : q = delivered[e] /\ p = Append(q, Message(w, m))
    <3>1. Append(delivered[e], Message(w, m)) \in Seq(Bodies)
      BY <2>1, AppendProperties
    <3> QED
      BY <2>1, <3>1
  <2>3. PICK l \in Nat : /\ l = Len(q) /\ DOMAIN q = 1 .. l /\ DOMAIN p = 1 .. l + 1
                         /\ p[l + 1] = Message(w, m) /\ \A j \in 1 .. l : p[j] = q[j]
    BY <2>1, <2>2
  <2>4. delivered'[e] = p /\ \A d \in Ends \ {e} : delivered'[d] = delivered[d]
    BY <1>2, <2>2 DEF DeliveredType
  <2>5. DeliveredType'
    BY <1>2, <2>2, <2>4 DEF DeliveredType
  <2>6. ASSUME NEW d \in Ends, NEW a \in DOMAIN delivered[d] PROVE Fine(delivered[d], d, a)
    BY DEF WholeInOrder
  <2>7. ASSUME NEW a \in 1 .. l PROVE Fine(p, e, a)
    <3>1. PICK v \in Writers : \E n \in DOMAIN Frames[v] :
            /\ EndOf(v) = Peer(e) /\ q[a] = Message(v, n)
            /\ \A k \in 1 .. n : k < n <=> \E b \in 1 .. a - 1 : q[b] = Message(v, k)
      <4>1. Fine(q, e, a)
        <5> HIDE DEF Fine
        <5> QED
          BY <2>2, <2>3, <2>6
      <4> QED
        BY <4>1
    <3>2. p[a] = q[a] /\ \A b \in 1 .. a - 1 : p[b] = q[b]
      BY <2>3
    <3> QED
      BY <3>1, <3>2
  <2>8. Fine(p, e, l + 1)
    <3>1. ASSUME NEW k \in 1 .. m
          PROVE  k < m <=> \E b \in 1 .. (l + 1) - 1 : p[b] = Message(w, k)
      <4>1. k \in DOMAIN Frames[w]
        BY FrameCounts
      <4>2. Peer(EndOf(w)) = e /\ (l + 1) - 1 = l
        BY <1>2, PeerOfPeer
      <4>3. Arrived(w, k) <=> \E b \in 1 .. l : p[b] = Message(w, k)
        BY <2>2, <2>3, <4>2 DEF Arrived
      <4> QED
        BY <1>2, <4>1, <4>2, <4>3
    <3> QED
      BY <1>2, <2>3, <3>1
  <2>9. ASSUME NEW d \in Ends, NEW a \in DOMAIN delivered'[d] PROVE Fine(delivered'[d], d, a)
    <3> HIDE DEF Fine
    <3>1. CASE d = e
      <4>1. a \in 1 .. l \/ a = l + 1
        BY <2>3, <2>4, <2>9, <3>1
      <4> QED
        BY <2>4, <2>7, <2>8, <3>1, <4>1
    <3>2. CASE d # e
      BY <2>4, <2>6, <3>2
    <3> QED
      BY <3>1, <3>2
  <2>10. WholeInOrder'
    BY <2>9 DEF WholeInOrder, Message
  <2> QED
    BY <2>5, <2>10
<1> QED
  BY <1>1, <1>2, Called

LEMMA InitOrder == Init => Order
<1> SUFFICES ASSUME Init PROVE Order
  OBVIOUS
<1>1. /\ \A e \in Ends : wire[e] = <<>> /\ delivered[e] = <<>> /\ frag[e] = <<>>
      /\ \A t \in Threads : out[t] = NoFrame /\ pc[t] \in {"top", "idle"}
      /\ \A w \in Writers : pos[w] = <<1, 1>> /\ pc[w] = "idle" /\ w \in Threads
      /\ delivered = [e \in Ends |-> <<>>]
  BY Names DEF Init
<1>2. DeliveredType
  <2>1. <<>> \in Seq(Bodies)
    OBVIOUS
  <2> QED
    BY <1>1, <2>1 DEF DeliveredType
<1>3. \A j \in 1 .. 0 : FALSE
  OBVIOUS
<1>4. Len(<<>>) = 0 /\ DOMAIN <<>> = 1 .. 0
  OBVIOUS
<1>5. WireShape
  BY <1>1, <1>3, <1>4 DEF WireShape
<1>6. OutShape
  BY <1>1 DEF OutShape, Control, Carriers, NoFrame, Frame
<1>7. PosShape
  BY <1>1 DEF PosShape
<1>8. WholeInOrder
  BY <1>1, <1>3, <1>4 DEF WholeInOrder
<1>9. ASSUME NEW w \in Writers PROVE Line(w, 1, 1)
  <2>1. EndOf(w) \in Ends /\ Peer(EndOf(w)) \in Ends
    BY Names, PeerType
  <2>2. \A k \in DOMAIN Frames[w] : ~(k < 1) /\ ~Arrived(w, k)
    BY <1>1, <1>3, <1>4, <2>1, FrameCounts DEF Arrived
  <2>3. Got(w, 1, 1)
    BY <2>2 DEF Got
  <2>4. Kept(w, 1, 1)
    BY <1>1, <1>3, <1>4, <2>1 DEF Kept
  <2>5. Chain(w, 1, 1)
    BY <1>1, <1>3, <1>4, <2>1 DEF Chain
  <2>6. Tip(w, 1, 1)
    BY <1>1 DEF Tip
  <2> QED
    BY <2>3, <2>4, <2>5, <2>6 DEF Line
<1>10. Lines
  BY <1>9 DEF Lines
<1> QED
  BY <1>2, <1>5, <1>6, <1>7, <1>8, <1>10 DEF Order

LEMMA NextOrder == Inv /\ Order /\ [Next]_vars => Order'
<1> SUFFICES ASSUME Inv, Order, [Next]_vars PROVE Order'
  OBVIOUS
<1>1. StateTypes /\ WireTypes /\ LockTypes /\ Locals
  BY DEF Inv
<1>2. DeliveredType /\ WireShape /\ OutShape /\ PosShape /\ Lines /\ WholeInOrder
  BY DEF Order
<1>3. DeliveredType' /\ WholeInOrder'
  BY <1>1, <1>2, NextDelivered
<1>4. WireShape' /\ OutShape' /\ PosShape' /\ Lines'
  BY <1>1, <1>2, NextWireShape, NextOutShape, NextPosShape, NextLines
<1> QED
  BY <1>3, <1>4 DEF Order

-----------------------------------------------------------------------------
(* Each handler is called with whole messages only, each once and in the   *)
(* order of its writer, whatever frames of other threads come between the  *)
(* fragments and wherever the connection ends.                             *)
THEOREM MessagesInOrder == Spec => []WholeInOrder
<1>1. Order => WholeInOrder
  BY DEF Order
<1> QED
  BY <1>1, InitOrder, NextOrder, InvHolds, PTL DEF Spec
=============================================================================
