------------------------- MODULE ProxySystemProofs -------------------------
(***************************************************************************)
(* Proofs about the ProxySystem, for every set of sessions, streams of any *)
(* length, buffers of any size and any number of losses.                   *)
(***************************************************************************)
EXTENDS ProxySystem, SequenceTheorems, TLAPS

-----------------------------------------------------------------------------
(* Types                                                                   *)

(* TypeOK in parts, one for each group of variables.                       *)
LocalTypes ==
  /\ kind \in [Sessions -> Kinds] /\ lsent \in [Sessions -> 0 .. MaxUp]
  /\ lfin \in [Sessions -> BOOLEAN] /\ answered \in [Sessions -> BOOLEAN]
  /\ lgot \in [Sessions -> Seq(Nat)] /\ leof \in [Sessions -> Ends]

LsockTypes ==
  /\ lup \in [Sessions -> Seq(Nat)] /\ ldn \in [Sessions -> Seq(Nat)]
  /\ lsock \in [Sessions -> {"none", "open", "closed", "reset"}]

HandTypes ==
  /\ hpc \in {"accept", "open", "connect", "pump", "piece", "push", "end", "finish", "notify",
              "shut"}
  /\ h \in Sessions \cup {0} /\ piece \in Nat

ClientTypes ==
  /\ smap \subseteq Sessions
  /\ closed \in [Sessions -> BOOLEAN] /\ ended \in [Sessions -> BOOLEAN]
  /\ upClosed \in [Sessions -> BOOLEAN] /\ opened \in [Sessions -> BOOLEAN]
  /\ half \in [Sessions -> BOOLEAN] /\ pending \in [Sessions -> Seq(Nat)]

LoopTypes ==
  /\ lpc \in {"read", "deliver", "greet", "flush", "half", "shut", "tell", "mark", "dial"}
  /\ frame \in Frames /\ flush \in Seq(Nat) /\ todo \subseteq Sessions

WireTypes ==
  /\ ws \in Epochs /\ pings \in 0 .. MaxPings
  /\ link \in [Epochs -> {"none", "up", "lost"}]
  /\ up \in [Epochs -> Seq(Frames)] /\ down \in [Epochs -> Seq(Frames)]

ReadTypes ==
  /\ rpc \in [Epochs -> {"none", "read", "dial", "refuse", "connected", "write", "pong", "gone"}]
  /\ rframe \in [Epochs -> Frames] /\ sess \in [Epochs -> SUBSET Sessions]
  /\ upShut \in [Sessions -> BOOLEAN] /\ at \in [Sessions -> Epochs]

ThreadTypes ==
  /\ tpc \in [Sessions -> {"unborn", "read", "send", "end", "notice", "gone"}]
  /\ tpiece \in [Sessions -> Nat]

TsockTypes ==
  /\ tup \in [Sessions -> Seq(Nat)] /\ tdn \in [Sessions -> Seq(Nat)]
  /\ tsock \in [Sessions -> {"none", "open", "half", "closed", "reset"}]

TargetTypes ==
  /\ tsent \in [Sessions -> 0 .. MaxDown] /\ tfin \in [Sessions -> BOOLEAN]
  /\ tgot \in [Sessions -> Seq(Nat)] /\ teof \in [Sessions -> Ends]

CutTypes == cut \in [Sessions -> BOOLEAN]

AllTypes == /\ LocalTypes /\ LsockTypes /\ HandTypes /\ ClientTypes /\ LoopTypes /\ WireTypes
         /\ ReadTypes /\ ThreadTypes /\ TsockTypes /\ TargetTypes /\ CutTypes

(* What may be on the way in either direction, and whose it is.            *)
UpType(f) ==
  /\ f.t \in {"connect", "data", "half", "close", "ping"}
  /\ IF f.t = "ping" THEN f.s = 0 ELSE f.s \in Sessions
  /\ f.t # "data" => f.k = 0
DownType(f) ==
  /\ f.t \in {"connected", "data", "close", "error", "pong"}
  /\ IF f.t = "pong" THEN f.s = 0 ELSE f.s \in Sessions

(* Whoever works for a session works for one there is.                     *)
Shapes ==
  /\ hpc # "accept" => h \in Sessions /\ lsock[h] # "none"
  /\ lpc \notin {"read", "tell", "dial"} => frame.s \in Sessions
  /\ \A e \in Epochs : \A i \in 1 .. Len(up[e]) : UpType(up[e][i])
  /\ \A e \in Epochs : \A i \in 1 .. Len(down[e]) : DownType(down[e][i])
  /\ \A e \in Epochs : rpc[e] \in {"dial", "refuse", "connected", "write"} =>
       rframe[e].s \in Sessions /\ rframe[e].t = (IF rpc[e] = "write" THEN "data" ELSE "connect")
  /\ \A e \in Epochs : rpc[e] \in {"none", "read", "pong", "gone"} => rframe[e].s = 0
  /\ \A e \in Epochs : e > ws => rpc[e] = "none"

Typed == AllTypes /\ Shapes

LEMMA TypesAgree == AllTypes <=> TypeOK
<1>1. ASSUME AllTypes PROVE TypeOK
  <2> USE <1>1 DEF AllTypes, LocalTypes, LsockTypes, HandTypes, ClientTypes, LoopTypes, WireTypes,
                   ReadTypes, ThreadTypes, TsockTypes, TargetTypes, CutTypes
  <2>1. ASSUME NEW flag \in {lfin, tfin, answered, closed, ended, upClosed, opened, half, upShut,
                             cut}
        PROVE  flag \in [Sessions -> BOOLEAN]
    OBVIOUS
  <2>2. ASSUME NEW q \in {lgot, lup, ldn, pending, tup, tdn, tgot}
        PROVE  q \in [Sessions -> Seq(Nat)]
    OBVIOUS
  <2> QED
    BY <2>1, <2>2 DEF TypeOK
<1>2. TypeOK => AllTypes
  BY DEF AllTypes, TypeOK, LocalTypes, LsockTypes, HandTypes, ClientTypes, LoopTypes, WireTypes,
         ReadTypes, ThreadTypes, TsockTypes, TargetTypes, CutTypes
<1> QED
  BY <1>1, <1>2

(* Which steps change which group of variables.                           *)
LEMMA LocalMoves ==
  ASSUME [Next]_vars
  PROVE  \/ UNCHANGED localVars
         \/ \E s \in Sessions : LocalSends(s) \/ LocalFins(s) \/ LocalReads(s)
<1>1. Accept \/ OpenSession \/ SendConnect \/ PumpRead \/ PumpPiece \/ PumpPush \/ PumpEnd
      \/ Finish \/ SendClose \/ ShutConnection \/ LoopRead \/ LoopDeliver \/ LoopGreet
      \/ LoopFlush \/ LoopHalf \/ LoopShut \/ LoopLoss \/ LoopTell \/ LoopMark \/ LoopTold
      \/ LoopDial \/ SendPing \/ Lose
      => UNCHANGED localVars
  BY DEF handRest, loopRest, Accept, OpenSession, SendConnect, PumpRead, PumpPiece, PumpPush,
         PumpEnd, Finish, SendClose, ShutConnection, LoopRead, LoopDeliver, LoopGreet,
         LoopFlush, LoopHalf, LoopShut, LoopLoss, LoopTell, LoopMark, LoopTold, LoopDial,
         SendPing, Lose
<1>2. \A e \in Epochs : ReadFrame(e) \/ Dial(e) \/ SayError(e) \/ SayConnected(e)
      \/ WriteTarget(e) \/ SendPong(e) \/ StopManager(e)
      => UNCHANGED localVars
  BY DEF readRest, ReadFrame, Dial, SayError, SayConnected, WriteTarget, SendPong,
         StopManager
<1>3. \A s \in Sessions : ReadTarget(s) \/ SendData(s) \/ EndSession(s) \/ SayClose(s)
      \/ LocalSendsLate(s) \/ TargetSends(s) \/ TargetSendsLate(s)
      \/ TargetFins(s) \/ TargetReads(s)
      => UNCHANGED localVars
  BY DEF threadRest, ReadTarget, SendData, EndSession, SayClose, LocalSendsLate, TargetSends,
         TargetSendsLate, TargetFins, TargetReads
<1> QED
  BY <1>1, <1>2, <1>3 DEF Next, Handler, Loop, Reader, TargetThread, Peers, vars

LEMMA LsockMoves ==
  ASSUME [Next]_vars
  PROVE  \/ UNCHANGED lsockVars
         \/ Accept \/ OpenSession \/ SendConnect \/ PumpRead \/ PumpPush \/ ShutConnection
           \/ LoopDeliver \/ LoopGreet \/ LoopFlush \/ LoopShut \/ LoopTell
         \/ \E s \in Sessions : LocalSends(s) \/ LocalSendsLate(s) \/ LocalReads(s)
<1>1. PumpPiece \/ PumpEnd \/ Finish \/ SendClose \/ LoopRead \/ LoopHalf \/ LoopLoss
      \/ LoopMark \/ LoopTold \/ LoopDial \/ SendPing \/ Lose
      => UNCHANGED lsockVars
  BY DEF handRest, loopRest, PumpPiece, PumpEnd, Finish, SendClose, LoopRead, LoopHalf,
         LoopLoss, LoopMark, LoopTold, LoopDial, SendPing, Lose
<1>2. \A e \in Epochs : ReadFrame(e) \/ Dial(e) \/ SayError(e) \/ SayConnected(e)
      \/ WriteTarget(e) \/ SendPong(e) \/ StopManager(e)
      => UNCHANGED lsockVars
  BY DEF readRest, ReadFrame, Dial, SayError, SayConnected, WriteTarget, SendPong,
         StopManager
<1>3. \A s \in Sessions : ReadTarget(s) \/ SendData(s) \/ EndSession(s) \/ SayClose(s)
      \/ LocalFins(s) \/ TargetSends(s) \/ TargetSendsLate(s)
      \/ TargetFins(s) \/ TargetReads(s)
      => UNCHANGED lsockVars
  BY DEF threadRest, ReadTarget, SendData, EndSession, SayClose, LocalFins, TargetSends,
         TargetSendsLate, TargetFins, TargetReads
<1> QED
  BY <1>1, <1>2, <1>3 DEF Next, Handler, Loop, Reader, TargetThread, Peers, vars

LEMMA HandMoves ==
  ASSUME [Next]_vars
  PROVE  \/ UNCHANGED handVars
         \/ Accept \/ OpenSession \/ SendConnect \/ PumpRead \/ PumpPiece \/ PumpPush \/ PumpEnd
           \/ Finish \/ SendClose \/ ShutConnection
<1>1. LoopRead \/ LoopDeliver \/ LoopGreet \/ LoopFlush \/ LoopHalf \/ LoopShut \/ LoopLoss
      \/ LoopTell \/ LoopMark \/ LoopTold \/ LoopDial \/ SendPing \/ Lose
      => UNCHANGED handVars
  BY DEF handRest, loopRest, LoopRead, LoopDeliver, LoopGreet, LoopFlush, LoopHalf, LoopShut,
         LoopLoss, LoopTell, LoopMark, LoopTold, LoopDial, SendPing, Lose
<1>2. \A e \in Epochs : ReadFrame(e) \/ Dial(e) \/ SayError(e) \/ SayConnected(e)
      \/ WriteTarget(e) \/ SendPong(e) \/ StopManager(e)
      => UNCHANGED handVars
  BY DEF readRest, ReadFrame, Dial, SayError, SayConnected, WriteTarget, SendPong,
         StopManager
<1>3. \A s \in Sessions : ReadTarget(s) \/ SendData(s) \/ EndSession(s) \/ SayClose(s)
      \/ LocalSends(s) \/ LocalSendsLate(s) \/ LocalFins(s)
      \/ TargetSends(s) \/ TargetSendsLate(s) \/ TargetFins(s)
      \/ LocalReads(s) \/ TargetReads(s)
      => UNCHANGED handVars
  BY DEF threadRest, ReadTarget, SendData, EndSession, SayClose, LocalSends, LocalSendsLate,
         LocalFins, TargetSends, TargetSendsLate, TargetFins, LocalReads, TargetReads
<1> QED
  BY <1>1, <1>2, <1>3 DEF Next, Handler, Loop, Reader, TargetThread, Peers, vars

LEMMA ClientMoves ==
  ASSUME [Next]_vars
  PROVE  \/ UNCHANGED clientVars
         \/ OpenSession \/ SendConnect \/ PumpPiece \/ PumpPush \/ PumpEnd \/ Finish \/ LoopRead
           \/ LoopGreet \/ LoopFlush \/ LoopHalf \/ LoopShut \/ LoopLoss \/ LoopTell \/ LoopMark
<1>1. Accept \/ PumpRead \/ SendClose \/ ShutConnection \/ LoopDeliver \/ LoopTold
      \/ LoopDial \/ SendPing \/ Lose
      => UNCHANGED clientVars
  BY DEF handRest, loopRest, Accept, PumpRead, SendClose, ShutConnection, LoopDeliver,
         LoopTold, LoopDial, SendPing, Lose
<1>2. \A e \in Epochs : ReadFrame(e) \/ Dial(e) \/ SayError(e) \/ SayConnected(e)
      \/ WriteTarget(e) \/ SendPong(e) \/ StopManager(e)
      => UNCHANGED clientVars
  BY DEF readRest, ReadFrame, Dial, SayError, SayConnected, WriteTarget, SendPong,
         StopManager
<1>3. \A s \in Sessions : ReadTarget(s) \/ SendData(s) \/ EndSession(s) \/ SayClose(s)
      \/ LocalSends(s) \/ LocalSendsLate(s) \/ LocalFins(s)
      \/ TargetSends(s) \/ TargetSendsLate(s) \/ TargetFins(s)
      \/ LocalReads(s) \/ TargetReads(s)
      => UNCHANGED clientVars
  BY DEF threadRest, ReadTarget, SendData, EndSession, SayClose, LocalSends, LocalSendsLate,
         LocalFins, TargetSends, TargetSendsLate, TargetFins, LocalReads, TargetReads
<1> QED
  BY <1>1, <1>2, <1>3 DEF Next, Handler, Loop, Reader, TargetThread, Peers, vars

LEMMA LoopMoves ==
  ASSUME [Next]_vars
  PROVE  \/ UNCHANGED loopVars
         \/ LoopRead \/ LoopDeliver \/ LoopGreet \/ LoopFlush \/ LoopHalf \/ LoopShut \/ LoopLoss
           \/ LoopTell \/ LoopMark \/ LoopTold \/ LoopDial
<1>1. Accept \/ OpenSession \/ SendConnect \/ PumpRead \/ PumpPiece \/ PumpPush \/ PumpEnd
      \/ Finish \/ SendClose \/ ShutConnection \/ SendPing \/ Lose
      => UNCHANGED loopVars
  BY DEF handRest, loopRest, Accept, OpenSession, SendConnect, PumpRead, PumpPiece, PumpPush,
         PumpEnd, Finish, SendClose, ShutConnection, SendPing, Lose
<1>2. \A e \in Epochs : ReadFrame(e) \/ Dial(e) \/ SayError(e) \/ SayConnected(e)
      \/ WriteTarget(e) \/ SendPong(e) \/ StopManager(e)
      => UNCHANGED loopVars
  BY DEF readRest, ReadFrame, Dial, SayError, SayConnected, WriteTarget, SendPong,
         StopManager
<1>3. \A s \in Sessions : ReadTarget(s) \/ SendData(s) \/ EndSession(s) \/ SayClose(s)
      \/ LocalSends(s) \/ LocalSendsLate(s) \/ LocalFins(s)
      \/ TargetSends(s) \/ TargetSendsLate(s) \/ TargetFins(s)
      \/ LocalReads(s) \/ TargetReads(s)
      => UNCHANGED loopVars
  BY DEF threadRest, ReadTarget, SendData, EndSession, SayClose, LocalSends, LocalSendsLate,
         LocalFins, TargetSends, TargetSendsLate, TargetFins, LocalReads, TargetReads
<1> QED
  BY <1>1, <1>2, <1>3 DEF Next, Handler, Loop, Reader, TargetThread, Peers, vars

LEMMA WireMoves ==
  ASSUME [Next]_vars
  PROVE  \/ UNCHANGED wireVars
         \/ SendConnect \/ PumpPush \/ PumpEnd \/ SendClose \/ LoopRead \/ LoopGreet \/ LoopFlush
           \/ LoopHalf \/ LoopDial \/ SendPing \/ Lose
         \/ \E e \in Epochs : ReadFrame(e) \/ SayError(e) \/ SayConnected(e)
                \/ SendPong(e)
         \/ \E s \in Sessions : SendData(s) \/ SayClose(s)
<1>1. Accept \/ OpenSession \/ PumpRead \/ PumpPiece \/ Finish \/ ShutConnection
      \/ LoopDeliver \/ LoopShut \/ LoopLoss \/ LoopTell \/ LoopMark \/ LoopTold
      => UNCHANGED wireVars
  BY DEF handRest, loopRest, wireVars, Accept, OpenSession, PumpRead, PumpPiece, Finish,
         ShutConnection, LoopDeliver, LoopShut, LoopLoss, LoopTell, LoopMark, LoopTold
<1>2. \A e \in Epochs : Dial(e) \/ WriteTarget(e) \/ StopManager(e)
      => UNCHANGED wireVars
  BY DEF readRest, wireVars, Dial, WriteTarget, StopManager
<1>3. \A s \in Sessions : ReadTarget(s) \/ EndSession(s) \/ LocalSends(s)
      \/ LocalSendsLate(s) \/ LocalFins(s) \/ TargetSends(s)
      \/ TargetSendsLate(s) \/ TargetFins(s) \/ LocalReads(s)
      \/ TargetReads(s)
      => UNCHANGED wireVars
  BY DEF threadRest, wireVars, ReadTarget, EndSession, LocalSends, LocalSendsLate, LocalFins,
         TargetSends, TargetSendsLate, TargetFins, LocalReads, TargetReads
<1> QED
  BY <1>1, <1>2, <1>3 DEF Next, Handler, Loop, Reader, TargetThread, Peers, vars

LEMMA ReadMoves ==
  ASSUME [Next]_vars
  PROVE  \/ UNCHANGED readVars
         \/ LoopDial
         \/ \E e \in Epochs : ReadFrame(e) \/ Dial(e) \/ SayError(e) \/ SayConnected(e)
                \/ WriteTarget(e) \/ SendPong(e) \/ StopManager(e)
         \/ \E s \in Sessions : SendData(s) \/ EndSession(s)
<1>1. Accept \/ OpenSession \/ SendConnect \/ PumpRead \/ PumpPiece \/ PumpPush \/ PumpEnd
      \/ Finish \/ SendClose \/ ShutConnection \/ LoopRead \/ LoopDeliver \/ LoopGreet
      \/ LoopFlush \/ LoopHalf \/ LoopShut \/ LoopLoss \/ LoopTell \/ LoopMark \/ LoopTold
      \/ SendPing \/ Lose
      => UNCHANGED readVars
  BY DEF handRest, loopRest, readVars, Accept, OpenSession, SendConnect, PumpRead, PumpPiece,
         PumpPush, PumpEnd, Finish, SendClose, ShutConnection, LoopRead, LoopDeliver,
         LoopGreet, LoopFlush, LoopHalf, LoopShut, LoopLoss, LoopTell, LoopMark, LoopTold,
         SendPing, Lose
<1>2. \A s \in Sessions : ReadTarget(s) \/ SayClose(s) \/ LocalSends(s) \/ LocalSendsLate(s)
      \/ LocalFins(s) \/ TargetSends(s) \/ TargetSendsLate(s)
      \/ TargetFins(s) \/ LocalReads(s) \/ TargetReads(s)
      => UNCHANGED readVars
  BY DEF threadRest, readVars, ReadTarget, SayClose, LocalSends, LocalSendsLate, LocalFins,
         TargetSends, TargetSendsLate, TargetFins, LocalReads, TargetReads
<1> QED
  BY <1>1, <1>2 DEF Next, Handler, Loop, Reader, TargetThread, Peers, vars

LEMMA ThreadMoves ==
  ASSUME [Next]_vars
  PROVE  \/ UNCHANGED threadVars
         \/ \E e \in Epochs : SayConnected(e)
         \/ \E s \in Sessions : ReadTarget(s) \/ SendData(s) \/ EndSession(s) \/ SayClose(s)
<1>1. Accept \/ OpenSession \/ SendConnect \/ PumpRead \/ PumpPiece \/ PumpPush \/ PumpEnd
      \/ Finish \/ SendClose \/ ShutConnection \/ LoopRead \/ LoopDeliver \/ LoopGreet
      \/ LoopFlush \/ LoopHalf \/ LoopShut \/ LoopLoss \/ LoopTell \/ LoopMark \/ LoopTold
      \/ LoopDial \/ SendPing \/ Lose
      => UNCHANGED threadVars
  BY DEF handRest, loopRest, Accept, OpenSession, SendConnect, PumpRead, PumpPiece, PumpPush,
         PumpEnd, Finish, SendClose, ShutConnection, LoopRead, LoopDeliver, LoopGreet,
         LoopFlush, LoopHalf, LoopShut, LoopLoss, LoopTell, LoopMark, LoopTold, LoopDial,
         SendPing, Lose
<1>2. \A e \in Epochs : ReadFrame(e) \/ Dial(e) \/ SayError(e) \/ WriteTarget(e)
      \/ SendPong(e) \/ StopManager(e)
      => UNCHANGED threadVars
  BY DEF readRest, ReadFrame, Dial, SayError, WriteTarget, SendPong, StopManager
<1>3. \A s \in Sessions : LocalSends(s) \/ LocalSendsLate(s) \/ LocalFins(s)
      \/ TargetSends(s) \/ TargetSendsLate(s) \/ TargetFins(s)
      \/ LocalReads(s) \/ TargetReads(s)
      => UNCHANGED threadVars
  BY DEF threadRest, LocalSends, LocalSendsLate, LocalFins, TargetSends, TargetSendsLate,
         TargetFins, LocalReads, TargetReads
<1> QED
  BY <1>1, <1>2, <1>3 DEF Next, Handler, Loop, Reader, TargetThread, Peers, vars

LEMMA TsockMoves ==
  ASSUME [Next]_vars
  PROVE  \/ UNCHANGED tsockVars
         \/ \E e \in Epochs : ReadFrame(e) \/ Dial(e) \/ WriteTarget(e) \/ StopManager(e)
         \/ \E s \in Sessions : ReadTarget(s) \/ SendData(s) \/ EndSession(s)
                \/ TargetSends(s) \/ TargetSendsLate(s) \/ TargetReads(s)
<1>1. Accept \/ OpenSession \/ SendConnect \/ PumpRead \/ PumpPiece \/ PumpPush \/ PumpEnd
      \/ Finish \/ SendClose \/ ShutConnection \/ LoopRead \/ LoopDeliver \/ LoopGreet
      \/ LoopFlush \/ LoopHalf \/ LoopShut \/ LoopLoss \/ LoopTell \/ LoopMark \/ LoopTold
      \/ LoopDial \/ SendPing \/ Lose
      => UNCHANGED tsockVars
  BY DEF handRest, loopRest, Accept, OpenSession, SendConnect, PumpRead, PumpPiece, PumpPush,
         PumpEnd, Finish, SendClose, ShutConnection, LoopRead, LoopDeliver, LoopGreet,
         LoopFlush, LoopHalf, LoopShut, LoopLoss, LoopTell, LoopMark, LoopTold, LoopDial,
         SendPing, Lose
<1>2. \A e \in Epochs : SayError(e) \/ SayConnected(e) \/ SendPong(e)
      => UNCHANGED tsockVars
  BY DEF readRest, SayError, SayConnected, SendPong
<1>3. \A s \in Sessions : SayClose(s) \/ LocalSends(s) \/ LocalSendsLate(s) \/ LocalFins(s)
      \/ TargetFins(s) \/ LocalReads(s)
      => UNCHANGED tsockVars
  BY DEF threadRest, SayClose, LocalSends, LocalSendsLate, LocalFins, TargetFins, LocalReads
<1> QED
  BY <1>1, <1>2, <1>3 DEF Next, Handler, Loop, Reader, TargetThread, Peers, vars

LEMMA TargetMoves ==
  ASSUME [Next]_vars
  PROVE  \/ UNCHANGED targetVars
         \/ \E s \in Sessions : TargetSends(s) \/ TargetFins(s) \/ TargetReads(s)
<1>1. Accept \/ OpenSession \/ SendConnect \/ PumpRead \/ PumpPiece \/ PumpPush \/ PumpEnd
      \/ Finish \/ SendClose \/ ShutConnection \/ LoopRead \/ LoopDeliver \/ LoopGreet
      \/ LoopFlush \/ LoopHalf \/ LoopShut \/ LoopLoss \/ LoopTell \/ LoopMark \/ LoopTold
      \/ LoopDial \/ SendPing \/ Lose
      => UNCHANGED targetVars
  BY DEF handRest, loopRest, Accept, OpenSession, SendConnect, PumpRead, PumpPiece, PumpPush,
         PumpEnd, Finish, SendClose, ShutConnection, LoopRead, LoopDeliver, LoopGreet,
         LoopFlush, LoopHalf, LoopShut, LoopLoss, LoopTell, LoopMark, LoopTold, LoopDial,
         SendPing, Lose
<1>2. \A e \in Epochs : ReadFrame(e) \/ Dial(e) \/ SayError(e) \/ SayConnected(e)
      \/ WriteTarget(e) \/ SendPong(e) \/ StopManager(e)
      => UNCHANGED targetVars
  BY DEF readRest, ReadFrame, Dial, SayError, SayConnected, WriteTarget, SendPong,
         StopManager
<1>3. \A s \in Sessions : ReadTarget(s) \/ SendData(s) \/ EndSession(s) \/ SayClose(s)
      \/ LocalSends(s) \/ LocalSendsLate(s) \/ LocalFins(s)
      \/ TargetSendsLate(s) \/ LocalReads(s)
      => UNCHANGED targetVars
  BY DEF threadRest, ReadTarget, SendData, EndSession, SayClose, LocalSends, LocalSendsLate,
         LocalFins, TargetSendsLate, LocalReads
<1> QED
  BY <1>1, <1>2, <1>3 DEF Next, Handler, Loop, Reader, TargetThread, Peers, vars

LEMMA CutMoves ==
  ASSUME [Next]_vars
  PROVE  \/ UNCHANGED cut
         \/ OpenSession \/ SendConnect \/ Lose
         \/ \E e \in Epochs : Dial(e)
<1>1. Accept \/ PumpRead \/ PumpPiece \/ PumpPush \/ PumpEnd \/ Finish \/ SendClose
      \/ ShutConnection \/ LoopRead \/ LoopDeliver \/ LoopGreet \/ LoopFlush \/ LoopHalf
      \/ LoopShut \/ LoopLoss \/ LoopTell \/ LoopMark \/ LoopTold \/ LoopDial \/ SendPing
      => UNCHANGED cut
  BY DEF handRest, loopRest, Accept, PumpRead, PumpPiece, PumpPush, PumpEnd, Finish,
         SendClose, ShutConnection, LoopRead, LoopDeliver, LoopGreet, LoopFlush, LoopHalf,
         LoopShut, LoopLoss, LoopTell, LoopMark, LoopTold, LoopDial, SendPing
<1>2. \A e \in Epochs : ReadFrame(e) \/ SayError(e) \/ SayConnected(e) \/ WriteTarget(e)
      \/ SendPong(e) \/ StopManager(e)
      => UNCHANGED cut
  BY DEF readRest, ReadFrame, SayError, SayConnected, WriteTarget, SendPong, StopManager
<1>3. \A s \in Sessions : ReadTarget(s) \/ SendData(s) \/ EndSession(s) \/ SayClose(s)
      \/ LocalSends(s) \/ LocalSendsLate(s) \/ LocalFins(s)
      \/ TargetSends(s) \/ TargetSendsLate(s) \/ TargetFins(s)
      \/ LocalReads(s) \/ TargetReads(s)
      => UNCHANGED cut
  BY DEF threadRest, ReadTarget, SendData, EndSession, SayClose, LocalSends, LocalSendsLate,
         LocalFins, TargetSends, TargetSendsLate, TargetFins, LocalReads, TargetReads
<1> QED
  BY <1>1, <1>2, <1>3 DEF Next, Handler, Loop, Reader, TargetThread, Peers, vars

-----------------------------------------------------------------------------
(* The operations of which the steps are made                              *)

(* What a write, a read and a loss make of a queue.                        *)
Grown(q, p, x) ==
  Len(p) = Len(q) + 1 /\ p[Len(q) + 1] = x /\ \A i \in 1 .. Len(q) : p[i] = q[i]
Shrunk(q, p) == Len(q) = Len(p) + 1 /\ \A i \in 1 .. Len(p) : p[i] = q[i + 1]
Cropped(q, p) == Len(p) <= Len(q) /\ \A i \in 1 .. Len(p) : p[i] = q[i]

LEMMA Grows ==
  ASSUME NEW S, NEW q \in Seq(S), NEW x \in S
  PROVE  Append(q, x) \in Seq(S) /\ Grown(q, Append(q, x), x)
  BY AppendProperties DEF Grown

LEMMA Shrinks ==
  ASSUME NEW S, NEW q \in Seq(S), q # <<>>
  PROVE  /\ Head(q) = q[1] /\ Head(q) \in S /\ Len(q) \in Nat \ {0}
         /\ Tail(q) \in Seq(S) /\ Shrunk(q, Tail(q))
<1>1. Head(q) = q[1]
  OBVIOUS
<1> QED
  BY <1>1, HeadTailProperties, EmptySeq DEF Shrunk

LEMMA Crops ==
  ASSUME NEW S, NEW q \in Seq(S), NEW n \in 0 .. Len(q)
  PROVE  SubSeq(q, 1, n) \in Seq(S) /\ Cropped(q, SubSeq(q, 1, n))
<1>1. \A i \in 1 .. n : q[i] \in S
  BY ElementOfSeq
<1>2. /\ SubSeq(q, 1, n) \in Seq(S)
      /\ Len(SubSeq(q, 1, n)) = IF 1 <= n THEN n - 1 + 1 ELSE 0
      /\ \A i \in 1 .. n - 1 + 1 : SubSeq(q, 1, n)[i] = q[1 + i - 1]
  BY <1>1, SubSeqProperties
<1> QED
  BY <1>2 DEF Cropped

LEMMA Empty ==
  ASSUME NEW S, NEW q \in Seq(S)
  PROVE  Len(q) \in Nat /\ (q = <<>> <=> Len(q) = 0)
  BY EmptySeq, LenProperties

(* A write to a WSS connection adds the frame, or nothing arrives.         *)
LEMMA SendUpTypes ==
  ASSUME WireTypes, NEW e \in Epochs, NEW f \in Frames, SendUp(e, f)
  PROVE  /\ up' \in [Epochs -> Seq(Frames)] /\ up' = [up EXCEPT ![e] = up'[e]]
         /\ \/ link[e] = "up" /\ Grown(up[e], up'[e], f)
            \/ link[e] = "lost" /\ UNCHANGED up
<1>1. Append(up[e], f) \in Seq(Frames) /\ Grown(up[e], Append(up[e], f), f)
  BY Grows DEF WireTypes
<1> QED
  BY <1>1 DEF SendUp, WireTypes

LEMMA SendDownTypes ==
  ASSUME WireTypes, NEW e \in Epochs, NEW f \in Frames, SendDown(e, f)
  PROVE  /\ down' \in [Epochs -> Seq(Frames)] /\ down' = [down EXCEPT ![e] = down'[e]]
         /\ \/ link[e] = "up" /\ Grown(down[e], down'[e], f)
            \/ link[e] = "lost" /\ UNCHANGED down
<1>1. Append(down[e], f) \in Seq(Frames) /\ Grown(down[e], Append(down[e], f), f)
  BY Grows DEF WireTypes
<1> QED
  BY <1>1 DEF SendDown, WireTypes

(* Closing the local socket.                                               *)
Shuts(s) ==
  /\ LsockTypes'
  /\ \A r \in Sessions : lsock[r] = "none" <=> lsock'[r] = "none"
  /\ \A r \in Sessions \ {s} : lsock'[r] = lsock[r] /\ lup'[r] = lup[r] /\ ldn'[r] = ldn[r]
  /\ lsock'[s] # "open"
  /\ lsock[s] # "open" => lsock'[s] = lsock[s] /\ lup'[s] = lup[s] /\ ldn'[s] = ldn[s]
  /\ lsock[s] = "open" =>
       /\ lup'[s] = <<>>
       /\ lsock'[s] = (IF lup[s] = <<>> THEN "closed" ELSE "reset")
       /\ ldn'[s] = ldn[s] \/ (ldn'[s] = <<>> /\ lsock'[s] = "reset")

LEMMA ShutLocalTypes ==
  ASSUME LsockTypes, NEW s \in Sessions, ShutLocal(s)
  PROVE  Shuts(s)
<1>1. CASE lsock[s] # "open"
  BY <1>1 DEF ShutLocal, LsockTypes, lsockVars, Shuts
<1>2. CASE lsock[s] = "open"
  <2>1. /\ lsock' = [lsock EXCEPT ![s] = IF lup[s] = <<>> THEN "closed" ELSE "reset"]
        /\ lup' = [lup EXCEPT ![s] = <<>>]
        /\ ldn' = ldn \/ (lup[s] # <<>> /\ ldn' = [ldn EXCEPT ![s] = <<>>])
    BY <1>2 DEF ShutLocal
  <2>2. <<>> \in Seq(Nat)
    BY EmptySeq
  <2>3. LsockTypes'
    BY <2>1, <2>2 DEF LsockTypes
  <2> QED
    BY <1>2, <2>1, <2>3 DEF LsockTypes, Shuts
<1> QED
  BY <1>1, <1>2

LEMMA LocalWriteTypes ==
  ASSUME LsockTypes, NEW s \in Sessions, NEW k \in Nat, LocalWrite(s, k)
  PROVE  /\ ldn' \in [Sessions -> Seq(Nat)]
         /\ ldn' = [ldn EXCEPT ![s] = ldn'[s]]
         /\ lsock[s] = "open" => Grown(ldn[s], ldn'[s], k)
         /\ lsock[s] # "open" => ldn'[s] = ldn[s]
<1>1. Append(ldn[s], k) \in Seq(Nat) /\ Grown(ldn[s], Append(ldn[s], k), k)
  BY Grows DEF LsockTypes
<1> QED
  BY <1>1 DEF LocalWrite, LsockTypes

LEMMA ShutTargetsTypes ==
  ASSUME TsockTypes, NEW S \in SUBSET Sessions, ShutTargets(S)
  PROVE  /\ TsockTypes'
         /\ \A s \in Sessions :
              /\ s \notin S => tsock'[s] = tsock[s] /\ tup'[s] = tup[s] /\ tdn'[s] = tdn[s]
              /\ tsock[s] \in {"none", "closed", "reset"} =>
                   tsock'[s] = tsock[s] /\ tup'[s] = tup[s] /\ tdn'[s] = tdn[s]
              /\ s \in S /\ tsock[s] \in {"open", "half"} =>
                   /\ tsock'[s] = (IF tdn[s] = <<>> THEN "closed" ELSE "reset")
                   /\ tup'[s] = tup[s] \/ (tup'[s] = <<>> /\ tsock'[s] = "reset")
                   /\ tdn'[s] = <<>>
<1>1. PICK K \in SUBSET {s \in Unshut(S) : tdn[s] # <<>>} :
        tup' = [s \in Sessions |-> IF s \in K THEN <<>> ELSE tup[s]]
  BY DEF ShutTargets
<1>2. /\ tsock' = [s \in Sessions |-> IF s \in {r \in Unshut(S) : tdn[r] # <<>>} THEN "reset"
                                      ELSE IF s \in Unshut(S) THEN "closed" ELSE tsock[s]]
      /\ tdn' = [s \in Sessions |-> IF s \in Unshut(S) THEN <<>> ELSE tdn[s]]
  BY DEF ShutTargets
<1>3. TsockTypes'
  BY <1>1, <1>2 DEF TsockTypes
<1>4. ASSUME NEW s \in Sessions
      PROVE  /\ s \notin S => tsock'[s] = tsock[s] /\ tup'[s] = tup[s] /\ tdn'[s] = tdn[s]
             /\ tsock[s] \in {"none", "closed", "reset"} =>
                  tsock'[s] = tsock[s] /\ tup'[s] = tup[s] /\ tdn'[s] = tdn[s]
             /\ s \in S /\ tsock[s] \in {"open", "half"} =>
                  /\ tsock'[s] = (IF tdn[s] = <<>> THEN "closed" ELSE "reset")
                  /\ tup'[s] = tup[s] \/ (tup'[s] = <<>> /\ tsock'[s] = "reset")
                  /\ tdn'[s] = <<>>
  <2>1. s \in Unshut(S) <=> s \in S /\ tsock[s] \in {"open", "half"}
    BY DEF Unshut
  <2>2. s \in K => s \in Unshut(S) /\ tdn[s] # <<>>
    OBVIOUS
  <2>3. /\ tsock'[s] = IF s \in Unshut(S) /\ tdn[s] # <<>> THEN "reset"
                       ELSE IF s \in Unshut(S) THEN "closed" ELSE tsock[s]
        /\ tdn'[s] = (IF s \in Unshut(S) THEN <<>> ELSE tdn[s])
        /\ tup'[s] = (IF s \in K THEN <<>> ELSE tup[s])
    BY <1>1, <1>2
  <2> QED
    BY <2>1, <2>2, <2>3
<1> QED
  BY <1>3, <1>4

LEMMA DropTypes ==
  ASSUME LsockTypes, ClientTypes, NEW s \in Sessions, DropSession(s)
  PROVE  /\ closed' = [closed EXCEPT ![s] = TRUE] /\ smap' = smap \ {s}
         /\ ended' \in [Sessions -> BOOLEAN]
         /\ \A r \in Sessions : ended'[r] <=> ended[r] \/ (r = s /\ ~closed[s])
         /\ Shuts(s) \/ UNCHANGED lsockVars
<1>1. CASE ~closed[s] /\ ~ended[s]
  <2>1. ended' = [ended EXCEPT ![s] = TRUE] /\ ShutLocal(s)
    BY <1>1 DEF DropSession
  <2> QED
    BY <1>1, <2>1, ShutLocalTypes DEF DropSession, ClientTypes
<1>2. CASE closed[s] \/ ended[s]
  BY <1>2 DEF DropSession, ClientTypes, lsockVars
<1> QED
  BY <1>1, <1>2

-----------------------------------------------------------------------------
(* Every step keeps the types                                              *)

LEMMA FrameType ==
  ASSUME NEW t \in Types, NEW s \in Sessions \cup {0}, NEW k \in Nat
  PROVE  Frame(t, s, k) \in Frames
  BY DEF Frame, Frames

LEMMA LocalKept == LocalTypes /\ LsockTypes /\ [Next]_vars => LocalTypes'
<1> SUFFICES ASSUME LocalTypes, LsockTypes, [Next]_vars PROVE LocalTypes'
  OBVIOUS
<1>1. CASE UNCHANGED localVars
  BY <1>1 DEF localVars, LocalTypes
<1>2. ASSUME NEW s \in Sessions, LocalSends(s) PROVE LocalTypes'
  BY <1>2, SystemAssumption DEF LocalSends, LocalTypes
<1>3. ASSUME NEW s \in Sessions, LocalFins(s) PROVE LocalTypes'
  BY <1>3 DEF LocalFins, LocalTypes
<1>4. ASSUME NEW s \in Sessions, LocalReads(s) PROVE LocalTypes'
  <2>1. CASE ldn[s] # <<>> /\ Head(ldn[s]) = 0
    BY <1>4, <2>1 DEF LocalReads, LocalTypes
  <2>2. CASE ldn[s] # <<>> /\ Head(ldn[s]) # 0
    <3>1. Append(lgot[s], Head(ldn[s])) \in Seq(Nat)
      BY <2>2, Shrinks, Grows DEF LocalTypes, LsockTypes
    <3> QED
      BY <1>4, <2>2, <3>1 DEF LocalReads, LocalTypes
  <2>3. CASE ldn[s] = <<>>
    BY <1>4, <2>3 DEF LocalReads, LocalTypes, Ends
  <2> QED
    BY <2>1, <2>2, <2>3
<1> QED
  BY <1>1, <1>2, <1>3, <1>4, LocalMoves

LEMMA LsockKept == Typed /\ [Next]_vars => LsockTypes'
<1> SUFFICES ASSUME Typed, [Next]_vars PROVE LsockTypes'
  OBVIOUS
<1> USE DEF Typed, AllTypes
<1>1. CASE UNCHANGED lsockVars
  BY <1>1 DEF lsockVars, LsockTypes
<1>2. CASE Accept
  BY <1>2 DEF Accept, LsockTypes
<1>3. CASE OpenSession \/ SendConnect \/ ShutConnection
  <2>1. UNCHANGED lsockVars \/ (h \in Sessions /\ ShutLocal(h))
    BY <1>3 DEF OpenSession, SendConnect, ShutConnection, Refuse, Shapes
  <2> QED
    BY <1>1, <2>1, ShutLocalTypes DEF Shuts
<1>4. CASE PumpRead
  <2>1. h \in Sessions
    BY <1>4 DEF PumpRead, Shapes
  <2>2. lup[h] # <<>> => Tail(lup[h]) \in Seq(Nat)
    BY <2>1, Shrinks DEF LsockTypes
  <2> QED
    BY <1>4, <2>1, <2>2 DEF PumpRead, LsockTypes
<1>5. CASE PumpPush
  <2>1. h \in Sessions
    BY <1>5 DEF PumpPush, Shapes
  <2>2. UNCHANGED lsockVars \/ DropSession(h)
    BY <1>5 DEF PumpPush
  <2> QED
    BY <1>1, <2>1, <2>2, DropTypes DEF Shuts
<1>6. CASE LoopDeliver
  <2>1. frame.s \in Sessions /\ frame.k \in Nat
    BY <1>6 DEF LoopDeliver, Shapes, LoopTypes, Frames
  <2> QED
    BY <1>6, <2>1, LocalWriteTypes DEF LoopDeliver, LsockTypes
<1>7. CASE LoopGreet \/ LoopFlush
  <2>1. frame.s \in Sessions
    BY <1>7 DEF LoopGreet, LoopFlush, Shapes
  <2>2. \/ UNCHANGED lsockVars \/ DropSession(frame.s)
        \/ LocalWrite(frame.s, 0) /\ UNCHANGED <<lup, lsock>>
    BY <1>7 DEF LoopGreet, LoopFlush, LoopPush
  <2>3. LocalWrite(frame.s, 0) => ldn' \in [Sessions -> Seq(Nat)]
    BY <2>1, LocalWriteTypes
  <2> QED
    BY <1>1, <2>1, <2>2, <2>3, DropTypes DEF Shuts, LsockTypes
<1>8. CASE LoopShut
  <2>1. frame.s \in Sessions /\ (UNCHANGED lsockVars \/ ShutLocal(frame.s))
    BY <1>8 DEF LoopShut, OnClose, Shapes
  <2> QED
    BY <1>1, <2>1, ShutLocalTypes DEF Shuts
<1>9. CASE LoopTell
  <2>1. PICK s \in Sessions : UNCHANGED lsockVars \/ ShutLocal(s)
    BY <1>9 DEF LoopTell, LoopTypes
  <2> QED
    BY <1>1, <2>1, ShutLocalTypes DEF Shuts
<1>10. ASSUME NEW s \in Sessions, LocalSends(s) PROVE LsockTypes'
  <2>1. Append(lup[s], lsent[s] + 1) \in Seq(Nat)
    BY Grows DEF LsockTypes, LocalTypes
  <2> QED
    BY <1>10, <2>1 DEF LocalSends, LsockTypes
<1>11. ASSUME NEW s \in Sessions, LocalSendsLate(s) PROVE LsockTypes'
  <2>1. <<>> \in Seq(Nat)
    BY EmptySeq
  <2> QED
    BY <1>11, <2>1 DEF LocalSendsLate, LsockTypes
<1>12. ASSUME NEW s \in Sessions, LocalReads(s) PROVE LsockTypes'
  <2>1. ldn[s] # <<>> => Tail(ldn[s]) \in Seq(Nat)
    BY Shrinks DEF LsockTypes
  <2> QED
    BY <1>12, <2>1 DEF LocalReads, LsockTypes
<1> QED
  BY <1>1, <1>2, <1>3, <1>4, <1>5, <1>6, <1>7, <1>8, <1>9, <1>10, <1>11, <1>12, LsockMoves

LEMMA HandKept == Typed /\ [Next]_vars => HandTypes'
<1> SUFFICES ASSUME Typed, [Next]_vars PROVE HandTypes'
  OBVIOUS
<1> USE DEF Typed, AllTypes, HandTypes
<1>1. CASE UNCHANGED handVars
  BY <1>1 DEF handVars
<1>2. CASE Accept
  BY <1>2 DEF Accept
<1>3. CASE OpenSession \/ SendConnect \/ ShutConnection
  BY <1>3 DEF OpenSession, SendConnect, ShutConnection, Refuse
<1>4. CASE PumpRead
  <2>1. h \in Sessions /\ lup[h] \in Seq(Nat)
    BY <1>4 DEF PumpRead, Shapes, LsockTypes
  <2>2. lup[h] # <<>> => Head(lup[h]) \in Nat
    BY <2>1, Shrinks
  <2> QED
    BY <1>4, <2>2 DEF PumpRead
<1>5. CASE PumpPiece \/ PumpPush \/ PumpEnd
  BY <1>5 DEF PumpPiece, PumpPush, PumpEnd
<1>6. CASE Finish \/ SendClose
  BY <1>6 DEF Finish, SendClose
<1> QED
  BY <1>1, <1>2, <1>3, <1>4, <1>5, <1>6, HandMoves

LEMMA ClientKept == Typed /\ [Next]_vars => ClientTypes'
<1> SUFFICES ASSUME Typed, [Next]_vars PROVE ClientTypes'
  OBVIOUS
<1> USE DEF Typed, AllTypes
<1>1. CASE UNCHANGED clientVars
  BY <1>1 DEF clientVars, ClientTypes
<1>2. CASE OpenSession \/ SendConnect
  BY <1>2 DEF OpenSession, SendConnect, ClientTypes, Shapes
<1>3. CASE PumpPiece
  <2>1. h \in Sessions /\ piece \in Nat /\ pending[h] \in Seq(Nat)
    BY <1>3 DEF PumpPiece, Shapes, HandTypes, ClientTypes
  <2>2. Append(pending[h], piece) \in Seq(Nat)
    BY <2>1, Grows
  <2> QED
    BY <1>3, <2>2 DEF PumpPiece, ClientTypes
<1>4. CASE PumpPush
  <2>1. h \in Sessions
    BY <1>4 DEF PumpPush, Shapes
  <2>2. CASE UNCHANGED <<closed, smap, ended>>
    BY <1>4, <2>2 DEF PumpPush, ClientTypes
  <2>3. CASE DropSession(h)
    <3>1. /\ closed' = [closed EXCEPT ![h] = TRUE] /\ smap' = smap \ {h}
          /\ ended' \in [Sessions -> BOOLEAN]
      BY <2>1, <2>3, DropTypes
    <3> QED
      BY <1>4, <3>1 DEF PumpPush, ClientTypes
  <2> QED
    BY <1>4, <2>2, <2>3 DEF PumpPush
<1>5. CASE PumpEnd \/ Finish
  BY <1>5 DEF PumpEnd, PushEnd, Finish, ClientTypes
<1>6. CASE LoopRead
  BY <1>6 DEF LoopRead, ClientTypes
<1>7. CASE LoopGreet \/ LoopFlush
  <2>1. frame.s \in Sessions
    BY <1>7 DEF LoopGreet, LoopFlush, Shapes
  <2>2. UNCHANGED <<closed, smap, ended>> \/ DropSession(frame.s)
    BY <1>7 DEF LoopGreet, LoopFlush, LoopPush
  <2>3. /\ UNCHANGED <<upClosed, opened, half>>
        /\ pending' = pending \/ pending' = [pending EXCEPT ![frame.s] = <<>>]
    BY <1>7 DEF LoopGreet, LoopFlush
  <2>4. pending' \in [Sessions -> Seq(Nat)]
    <3>1. <<>> \in Seq(Nat) /\ pending \in [Sessions -> Seq(Nat)]
      BY EmptySeq DEF ClientTypes
    <3> QED
      BY <2>1, <2>3, <3>1
  <2>5. /\ closed' = closed \/ closed' = [closed EXCEPT ![frame.s] = TRUE]
        /\ smap' \subseteq smap /\ (ended' = ended \/ ended' \in [Sessions -> BOOLEAN])
    BY <2>1, <2>2, DropTypes
  <2> QED
    BY <2>3, <2>4, <2>5 DEF ClientTypes
<1>8. CASE LoopHalf \/ LoopMark \/ LoopLoss
  BY <1>8 DEF LoopHalf, PushEnd, LoopMark, LoopLoss, ClientTypes
<1>9. CASE LoopShut \/ LoopTell
  BY <1>9 DEF LoopShut, OnClose, LoopTell, ClientTypes
<1> QED
  BY <1>1, <1>2, <1>3, <1>4, <1>5, <1>6, <1>7, <1>8, <1>9, ClientMoves

LEMMA LoopKept == Typed /\ [Next]_vars => LoopTypes'
<1> SUFFICES ASSUME Typed, [Next]_vars PROVE LoopTypes'
  OBVIOUS
<1> USE DEF Typed, AllTypes
<1>1. CASE UNCHANGED loopVars
  BY <1>1 DEF loopVars, LoopTypes
<1>2. NoFrame \in Frames
  BY FrameType DEF NoFrame, Types
<1>3. CASE LoopRead
  <2>1. Head(down[ws]) \in Frames
    BY <1>3, Shrinks DEF LoopRead, WireTypes
  <2> QED
    BY <1>2, <1>3, <2>1 DEF LoopRead, LoopTypes
<1>4. CASE LoopDeliver \/ LoopHalf \/ LoopShut \/ LoopMark \/ LoopTold
  BY <1>2, <1>4 DEF LoopDeliver, LoopHalf, LoopShut, LoopMark, LoopTold, LoopTypes
<1>5. CASE LoopGreet
  <2>1. pending[frame.s] \in Seq(Nat)
    BY <1>5 DEF LoopGreet, Shapes, ClientTypes
  <2> QED
    BY <1>5, <2>1 DEF LoopGreet, LoopTypes
<1>6. CASE LoopFlush
  <2>1. flush # <<>> => Tail(flush) \in Seq(Nat)
    BY Shrinks DEF LoopTypes
  <2> QED
    BY <1>6, <2>1 DEF LoopFlush, LoopTypes
<1>7. CASE LoopLoss \/ LoopDial
  BY <1>7 DEF LoopLoss, LoopDial, LoopTypes, ClientTypes
<1>8. CASE LoopTell
  <2>1. \A s \in todo : Frame("close", s, 0) \in Frames
    BY FrameType DEF Types, LoopTypes
  <2> QED
    BY <1>8, <2>1 DEF LoopTell, LoopTypes
<1> QED
  BY <1>1, <1>3, <1>4, <1>5, <1>6, <1>7, <1>8, LoopMoves

LEMMA WireKept == Typed /\ [Next]_vars => WireTypes'
<1> SUFFICES ASSUME Typed, [Next]_vars PROVE WireTypes'
  OBVIOUS
<1> USE DEF Typed, AllTypes
<1>1. CASE UNCHANGED wireVars
  BY <1>1 DEF wireVars, WireTypes
<1>2. ASSUME NEW f \in Frames, SendUp(ws, f), UNCHANGED <<ws, link, down>>, pings' \in 0 .. MaxPings
      PROVE  WireTypes'
  BY <1>2, SendUpTypes DEF WireTypes
<1>3. ASSUME NEW e \in Epochs, NEW f \in Frames, SendDown(e, f), UNCHANGED <<ws, link, up, pings>>
      PROVE  WireTypes'
  BY <1>3, SendDownTypes DEF WireTypes
<1>4. \A s \in Sessions \cup {0}, k \in Nat, t \in Types : Frame(t, s, k) \in Frames
  BY FrameType
<1>5. CASE SendConnect \/ PumpPush \/ PumpEnd \/ SendClose
  <2>1. /\ UNCHANGED <<ws, link, down, pings>>
        /\ UNCHANGED up \/ \E t \in Types, k \in Nat : SendUp(ws, Frame(t, h, k))
    BY <1>5 DEF SendConnect, PumpPush, PumpEnd, PushEnd, SendClose, Types, HandTypes
  <2>2. pings' \in 0 .. MaxPings /\ h \in Sessions \cup {0}
    BY <2>1 DEF WireTypes, HandTypes
  <2>3. CASE UNCHANGED up
    BY <2>1, <2>3 DEF WireTypes
  <2> QED
    BY <1>2, <1>4, <2>1, <2>2, <2>3
<1>6. CASE LoopGreet \/ LoopFlush \/ LoopHalf
  <2>1. frame.s \in Sessions
    BY <1>6 DEF LoopGreet, LoopFlush, LoopHalf, Shapes
  <2>2. flush # <<>> => Head(flush) \in Nat
    BY Shrinks DEF LoopTypes
  <2>3. /\ UNCHANGED <<ws, link, down, pings>>
        /\ UNCHANGED up \/ \E t \in Types, k \in Nat : SendUp(ws, Frame(t, frame.s, k))
    BY <1>6, <2>2 DEF LoopGreet, LoopFlush, LoopPush, LoopHalf, PushEnd, Types
  <2>4. pings' \in 0 .. MaxPings /\ frame.s \in Sessions \cup {0}
    BY <2>1, <2>3 DEF WireTypes
  <2>5. CASE UNCHANGED up
    BY <2>3, <2>5 DEF WireTypes
  <2> QED
    BY <1>2, <1>4, <2>3, <2>4, <2>5
<1>7. CASE SendPing
  <2>1. Frame("ping", 0, 0) \in Frames /\ pings' \in 0 .. MaxPings
    BY <1>4, <1>7, SystemAssumption DEF Types, SendPing, WireTypes
  <2> QED
    BY <1>2, <1>7, <2>1 DEF SendPing
<1>8. CASE LoopRead
  <2>1. ws \in Epochs /\ Tail(down[ws]) \in Seq(Frames)
    BY <1>8, Shrinks DEF LoopRead, WireTypes
  <2> QED
    BY <1>8, <2>1 DEF LoopRead, WireTypes
<1>9. CASE LoopDial
  <2>1. ws + 1 \in Epochs
    BY <1>9, SystemAssumption DEF LoopDial, WireTypes, Epochs
  <2> QED
    BY <1>9, <2>1 DEF LoopDial, WireTypes
<1>10. CASE Lose
  <2>1. PICK i \in 0 .. Len(up[ws]) : up' = [up EXCEPT ![ws] = SubSeq(up[ws], 1, i)]
    BY <1>10 DEF Lose, WireTypes
  <2>2. PICK j \in 0 .. Len(down[ws]) : down' = [down EXCEPT ![ws] = SubSeq(down[ws], 1, j)]
    BY <1>10 DEF Lose, WireTypes
  <2>3. SubSeq(up[ws], 1, i) \in Seq(Frames) /\ SubSeq(down[ws], 1, j) \in Seq(Frames)
    BY Crops DEF WireTypes
  <2> QED
    BY <1>10, <2>1, <2>2, <2>3 DEF Lose, WireTypes
<1>11. ASSUME NEW e \in Epochs, ReadFrame(e) PROVE WireTypes'
  <2>1. Tail(up[e]) \in Seq(Frames)
    BY <1>11, Shrinks DEF ReadFrame, WireTypes
  <2>2. up' = [up EXCEPT ![e] = Tail(up[e])] /\ UNCHANGED <<ws, link, down, pings>>
    BY <1>11 DEF ReadFrame, readRest
  <2> QED
    BY <2>1, <2>2 DEF WireTypes
<1>12. ASSUME NEW e \in Epochs, SayError(e) \/ SayConnected(e) \/ SendPong(e) PROVE WireTypes'
  <2>1. /\ UNCHANGED <<ws, link, up, pings>> /\ rframe[e].s \in Sessions \cup {0}
        /\ \E t \in Types : SendDown(e, Frame(t, rframe[e].s, 0)) \/ SendDown(e, Frame(t, 0, 0))
    BY <1>12 DEF SayError, SayConnected, SendPong, readRest, Types, ReadTypes, Frames
  <2> QED
    BY <1>3, <1>4, <2>1
<1>13. ASSUME NEW s \in Sessions, SendData(s) \/ SayClose(s) PROVE WireTypes'
  <2>1. UNCHANGED <<ws, link, up, pings>> /\ tpiece[s] \in Nat /\ at[s] \in Epochs
    BY <1>13 DEF SendData, SayClose, threadRest, ThreadTypes, ReadTypes
  <2>2. UNCHANGED down \/ \E t \in Types, k \in Nat : SendDown(at[s], Frame(t, s, k))
    BY <1>13, <2>1 DEF SendData, SayClose, Types
  <2>3. CASE UNCHANGED down
    BY <2>1, <2>3 DEF WireTypes
  <2> QED
    BY <1>3, <1>4, <2>1, <2>2, <2>3
<1> QED
  BY <1>1, <1>5, <1>6, <1>7, <1>8, <1>9, <1>10, <1>11, <1>12, <1>13, WireMoves

(* The frame a reader takes is one of those that go up.                    *)
LEMMA FrameRead ==
  ASSUME Typed, NEW e \in Epochs, ReadFrame(e)
  PROVE  /\ Head(up[e]) = up[e][1] /\ Head(up[e]) \in Frames /\ UpType(Head(up[e]))
         /\ Len(up[e]) \in Nat \ {0} /\ Shrunk(up[e], up'[e]) /\ up' = [up EXCEPT ![e] = up'[e]]
<1>1. up[e] \in Seq(Frames) /\ up[e] # <<>> /\ up' = [up EXCEPT ![e] = Tail(up[e])]
  BY DEF Typed, AllTypes, WireTypes, ReadFrame
<1>2. /\ Head(up[e]) = up[e][1] /\ Head(up[e]) \in Frames /\ Len(up[e]) \in Nat \ {0}
      /\ Shrunk(up[e], Tail(up[e]))
  BY <1>1, Shrinks
<1>3. UpType(up[e][1])
  BY <1>2 DEF Typed, Shapes
<1> QED
  BY <1>1, <1>2, <1>3 DEF Typed, AllTypes, WireTypes

LEMMA ReadKept == Typed /\ [Next]_vars => ReadTypes'
<1> SUFFICES ASSUME Typed, [Next]_vars PROVE ReadTypes'
  OBVIOUS
<1>1. CASE UNCHANGED readVars
  BY <1>1 DEF readVars, ReadTypes, Typed, AllTypes
<1>2. NoFrame \in Frames
  BY FrameType DEF NoFrame, Types
<1>3. ASSUME NEW e \in Epochs, ReadFrame(e) PROVE ReadTypes'
  <2>1. Head(up[e]) \in Frames /\ UpType(Head(up[e]))
    BY <1>3, FrameRead
  <2>2. rpc' \in [Epochs -> {"none", "read", "dial", "refuse", "connected", "write", "pong",
                             "gone"}]
    BY <1>3 DEF ReadFrame, ReadTypes, Typed, AllTypes
  <2>3. rframe' \in [Epochs -> Frames]
    BY <1>2, <1>3, <2>1 DEF ReadFrame, ReadTypes, Typed, AllTypes
  <2>4. sess' \in [Epochs -> SUBSET Sessions]
    BY <1>3, <2>1 DEF ReadFrame, ReadTypes, Typed, AllTypes, UpType
  <2>5. upShut' \in [Sessions -> BOOLEAN] /\ at' \in [Sessions -> Epochs]
    <3>1. /\ upShut' = upShut \/ upShut' = [upShut EXCEPT ![Head(up[e]).s] = TRUE]
          /\ at' = at \/ at' = [at EXCEPT ![Head(up[e]).s] = e]
      BY <1>3 DEF ReadFrame
    <3>2. upShut \in [Sessions -> BOOLEAN] /\ at \in [Sessions -> Epochs]
      BY DEF ReadTypes, Typed, AllTypes
    <3> QED
      BY <3>1, <3>2
  <2> QED
    BY <2>2, <2>3, <2>4, <2>5 DEF ReadTypes
<1> USE DEF Typed, AllTypes, ReadTypes
<1>4. ASSUME NEW e \in Epochs, Dial(e) \/ StopManager(e) PROVE ReadTypes'
  BY <1>4 DEF Dial, StopManager, readRest
<1>5. ASSUME NEW e \in Epochs, SayError(e) \/ SayConnected(e) \/ WriteTarget(e) \/ SendPong(e)
      PROVE  ReadTypes'
  BY <1>2, <1>5 DEF SayError, SayConnected, WriteTarget, SendPong, ReadOn
<1>6. ASSUME NEW s \in Sessions, SendData(s) \/ EndSession(s) PROVE ReadTypes'
  BY <1>6 DEF SendData, EndSession, threadRest
<1>7. CASE LoopDial
  BY <1>7 DEF LoopDial
<1> QED
  BY <1>1, <1>3, <1>4, <1>5, <1>6, <1>7, ReadMoves

LEMMA ThreadKept == Typed /\ [Next]_vars => ThreadTypes'
<1> SUFFICES ASSUME Typed, [Next]_vars PROVE ThreadTypes'
  OBVIOUS
<1> USE DEF Typed, AllTypes, ThreadTypes
<1>1. CASE UNCHANGED threadVars
  BY <1>1 DEF threadVars
<1>2. ASSUME NEW e \in Epochs, SayConnected(e) PROVE ThreadTypes'
  BY <1>2 DEF SayConnected
<1>3. ASSUME NEW s \in Sessions, ReadTarget(s) PROVE ThreadTypes'
  <2>1. tdn[s] # <<>> => Head(tdn[s]) \in Nat
    BY Shrinks DEF TsockTypes
  <2> QED
    BY <1>3, <2>1 DEF ReadTarget
<1>4. ASSUME NEW s \in Sessions, SendData(s) \/ EndSession(s) \/ SayClose(s) PROVE ThreadTypes'
  BY <1>4 DEF SendData, EndSession, SayClose
<1> QED
  BY <1>1, <1>2, <1>3, <1>4, ThreadMoves

LEMMA TsockKept == Typed /\ [Next]_vars => TsockTypes'
<1> SUFFICES ASSUME Typed, [Next]_vars PROVE TsockTypes'
  OBVIOUS
<1>1. CASE UNCHANGED tsockVars
  BY <1>1 DEF tsockVars, TsockTypes, Typed, AllTypes
<1>2. ASSUME NEW S \in SUBSET Sessions, ShutTargets(S) PROVE TsockTypes'
  BY <1>2, ShutTargetsTypes DEF Typed, AllTypes
<1>3. ASSUME NEW e \in Epochs, ReadFrame(e) PROVE TsockTypes'
  <2>1. CASE \E r \in Sessions : ShutTargets({r})
    BY <1>2, <2>1
  <2>2. CASE ~\E r \in Sessions : ShutTargets({r})
    <3>1. UpType(Head(up[e]))
      BY <1>3, FrameRead
    <3>2. \/ UNCHANGED tsockVars
          \/ \E r \in Sessions : tsock' = [tsock EXCEPT ![r] = IF @ = "open" THEN "half" ELSE @]
                                 /\ UNCHANGED <<tup, tdn>>
      BY <1>3, <2>2, <3>1 DEF ReadFrame, UpType
    <3> QED
      BY <1>1, <3>2 DEF TsockTypes, Typed, AllTypes
  <2> QED
    BY <2>1, <2>2
<1>4. ASSUME NEW e \in Epochs, StopManager(e) PROVE TsockTypes'
  BY <1>2, <1>4 DEF StopManager, Typed, AllTypes, ReadTypes
<1>5. ASSUME NEW s \in Sessions, SendData(s) \/ EndSession(s) PROVE TsockTypes'
  BY <1>1, <1>2, <1>5 DEF SendData, EndSession
<1> USE DEF Typed, AllTypes, TsockTypes
<1>6. ASSUME NEW e \in Epochs, Dial(e) PROVE TsockTypes'
  BY <1>6 DEF Dial
<1>7. ASSUME NEW e \in Epochs, WriteTarget(e) PROVE TsockTypes'
  <2>1. rframe[e].s \in Sessions /\ rframe[e].k \in Nat
    BY <1>7 DEF WriteTarget, Shapes, ReadTypes, Frames
  <2>2. Append(tup[rframe[e].s], rframe[e].k) \in Seq(Nat)
    BY <2>1, Grows
  <2> QED
    BY <1>7, <2>2 DEF WriteTarget
<1>8. ASSUME NEW s \in Sessions, ReadTarget(s) \/ TargetReads(s) PROVE TsockTypes'
  <2>1. /\ tdn[s] # <<>> => Tail(tdn[s]) \in Seq(Nat)
        /\ tup[s] # <<>> => Tail(tup[s]) \in Seq(Nat)
    BY Shrinks
  <2> QED
    BY <1>8, <2>1 DEF ReadTarget, TargetReads
<1>9. ASSUME NEW s \in Sessions, TargetSends(s) PROVE TsockTypes'
  <2>1. Append(tdn[s], tsent[s] + 1) \in Seq(Nat)
    BY Grows DEF TargetTypes
  <2> QED
    BY <1>9, <2>1 DEF TargetSends
<1>10. ASSUME NEW s \in Sessions, TargetSendsLate(s) PROVE TsockTypes'
  BY <1>10, EmptySeq DEF TargetSendsLate
<1> QED
  BY <1>1, <1>3, <1>4, <1>5, <1>6, <1>7, <1>8, <1>9, <1>10, TsockMoves

LEMMA TargetKept == Typed /\ [Next]_vars => TargetTypes'
<1> SUFFICES ASSUME Typed, [Next]_vars PROVE TargetTypes'
  OBVIOUS
<1> USE DEF Typed, AllTypes, TargetTypes
<1>1. CASE UNCHANGED targetVars
  BY <1>1 DEF targetVars
<1>2. ASSUME NEW s \in Sessions, TargetSends(s) \/ TargetFins(s) PROVE TargetTypes'
  <2>1. CASE TargetSends(s)
    BY <2>1, SystemAssumption DEF TargetSends
  <2>2. CASE TargetFins(s)
    BY <2>2 DEF TargetFins
  <2> QED
    BY <1>2, <2>1, <2>2
<1>3. ASSUME NEW s \in Sessions, TargetReads(s) PROVE TargetTypes'
  <2>1. tup[s] # <<>> => Append(tgot[s], Head(tup[s])) \in Seq(Nat)
    BY Shrinks, Grows DEF TsockTypes
  <2> QED
    BY <1>3, <2>1 DEF TargetReads, Ends
<1> QED
  BY <1>1, <1>2, <1>3, TargetMoves

LEMMA CutKept == Typed /\ [Next]_vars => CutTypes' /\ \A s \in Sessions : cut[s] => cut'[s]
<1> SUFFICES ASSUME Typed, [Next]_vars
             PROVE  CutTypes' /\ \A s \in Sessions : cut[s] => cut'[s]
  OBVIOUS
<1> USE DEF Typed, AllTypes, CutTypes
<1>1. CASE UNCHANGED cut
  BY <1>1
<1>2. CASE OpenSession \/ SendConnect
  BY <1>2 DEF OpenSession, SendConnect, Refuse
<1>3. ASSUME NEW e \in Epochs, Dial(e) PROVE CutTypes' /\ \A s \in Sessions : cut[s] => cut'[s]
  BY <1>3 DEF Dial
<1>4. CASE Lose
  BY <1>4 DEF Lose
<1> QED
  BY <1>1, <1>2, <1>3, <1>4, CutMoves

-----------------------------------------------------------------------------
(* What a step does to the two directions of a WSS connection.             *)

Puts(f) ==
  \/ SendConnect /\ Usable /\ hpc' = "pump" /\ f = Frame("connect", h, 0)
  \/ PumpPush /\ Usable /\ f = Frame("data", h, piece)
     /\ UNCHANGED <<closed, smap, ended, lsockVars>>
  \/ PumpEnd /\ Usable /\ opened[h] /\ ~closed[h] /\ ~upClosed[h] /\ f = Frame("half", h, 0)
  \/ SendClose /\ Usable /\ f = Frame("close", h, 0)
  \/ LoopGreet /\ kind[frame.s] # "connect" /\ f = Frame("data", frame.s, 0)
     /\ UNCHANGED <<closed, smap, ended, lsockVars>>
  \/ LoopFlush /\ flush # <<>> /\ f = Frame("data", frame.s, Head(flush))
     /\ UNCHANGED <<closed, smap, ended, lsockVars>>
  \/ LoopHalf /\ half[frame.s] /\ ~closed[frame.s] /\ ~upClosed[frame.s]
     /\ f = Frame("half", frame.s, 0)
  \/ SendPing /\ f = Frame("ping", 0, 0)

Says(e, f) ==
  \/ SayError(e) /\ f = Frame("error", rframe[e].s, 0)
  \/ SayConnected(e) /\ f = Frame("connected", rframe[e].s, 0)
  \/ SendPong(e) /\ f = Frame("pong", 0, 0)
  \/ \E s \in Sessions : at[s] = e /\ SendData(s) /\ f = Frame("data", s, tpiece[s])
                         /\ tpc' = [tpc EXCEPT ![s] = "read"] /\ UNCHANGED <<sess, tsockVars>>
  \/ \E s \in Sessions : at[s] = e /\ SayClose(s) /\ f = Frame("close", s, 0)

UpMove(e) ==
  \/ up'[e] = up[e]
  \/ e = ws /\ link[ws] = "up" /\ \E f \in Frames : Puts(f) /\ Grown(up[e], up'[e], f)
  \/ ReadFrame(e) /\ Shrunk(up[e], up'[e])
  \/ Lose /\ e = ws /\ Cropped(up[e], up'[e])

DownMove(e) ==
  \/ down'[e] = down[e]
  \/ link[e] = "up" /\ \E f \in Frames : Says(e, f) /\ Grown(down[e], down'[e], f)
  \/ LoopRead /\ e = ws /\ Shrunk(down[e], down'[e])
  \/ Lose /\ e = ws /\ Cropped(down[e], down'[e])

LEMMA UpMoves ==
  ASSUME Typed, [Next]_vars, NEW e \in Epochs
  PROVE  UpMove(e)
<1> USE DEF Typed, AllTypes
<1>1. CASE UNCHANGED up
  BY <1>1 DEF UpMove
<1>2. ASSUME NEW f \in Frames, SendUp(ws, f), Puts(f) PROVE UpMove(e)
  <2>1. /\ ws \in Epochs /\ up' = [up EXCEPT ![ws] = up'[ws]]
        /\ (link[ws] = "up" /\ Grown(up[ws], up'[ws], f)) \/ UNCHANGED up
    BY <1>2, SendUpTypes DEF WireTypes
  <2> QED
    BY <1>2, <2>1 DEF UpMove, WireTypes
<1>3. \A s \in Sessions \cup {0}, k \in Nat, t \in Types : Frame(t, s, k) \in Frames
  BY FrameType
<1>4. CASE SendConnect
  <2>1. UNCHANGED up \/ (SendUp(ws, Frame("connect", h, 0)) /\ Puts(Frame("connect", h, 0)))
    BY <1>4 DEF SendConnect, Puts
  <2> QED
    BY <1>1, <1>2, <1>3, <2>1 DEF HandTypes, Types
<1>5. CASE PumpPush
  <2>1. UNCHANGED up \/ (SendUp(ws, Frame("data", h, piece)) /\ Puts(Frame("data", h, piece)))
    BY <1>5 DEF PumpPush, Puts
  <2> QED
    BY <1>1, <1>2, <1>3, <2>1 DEF HandTypes, Types
<1>6. CASE PumpEnd
  <2>1. UNCHANGED up \/ (SendUp(ws, Frame("half", h, 0)) /\ Puts(Frame("half", h, 0)))
    BY <1>6 DEF PumpEnd, PushEnd, Puts
  <2> QED
    BY <1>1, <1>2, <1>3, <2>1 DEF HandTypes, Types
<1>7. CASE SendClose
  <2>1. UNCHANGED up \/ (SendUp(ws, Frame("close", h, 0)) /\ Puts(Frame("close", h, 0)))
    BY <1>7 DEF SendClose, Puts
  <2> QED
    BY <1>1, <1>2, <1>3, <2>1 DEF HandTypes, Types
<1>8. CASE LoopGreet
  <2>1. \/ UNCHANGED up
        \/ SendUp(ws, Frame("data", frame.s, 0)) /\ Puts(Frame("data", frame.s, 0))
    BY <1>8 DEF LoopGreet, LoopPush, Puts
  <2> QED
    BY <1>1, <1>2, <1>3, <1>8, <2>1 DEF LoopGreet, Shapes, Types
<1>9. CASE LoopFlush
  <2>1. \/ UNCHANGED up
        \/ /\ SendUp(ws, Frame("data", frame.s, Head(flush))) /\ flush # <<>>
           /\ Puts(Frame("data", frame.s, Head(flush)))
    BY <1>9 DEF LoopFlush, LoopPush, Puts
  <2>2. flush # <<>> => Head(flush) \in Nat
    BY Shrinks DEF LoopTypes
  <2> QED
    BY <1>1, <1>2, <1>3, <1>9, <2>1, <2>2 DEF LoopFlush, Shapes, Types
<1>10. CASE LoopHalf
  <2>1. \/ UNCHANGED up
        \/ SendUp(ws, Frame("half", frame.s, 0)) /\ Puts(Frame("half", frame.s, 0))
    BY <1>10 DEF LoopHalf, PushEnd, Puts
  <2> QED
    BY <1>1, <1>2, <1>3, <1>10, <2>1 DEF LoopHalf, Shapes, Types
<1>11. CASE SendPing
  <2>1. SendUp(ws, Frame("ping", 0, 0)) /\ Puts(Frame("ping", 0, 0))
    BY <1>11 DEF SendPing, Puts
  <2> QED
    BY <1>2, <1>3, <2>1 DEF Types
<1>12. CASE Lose
  <2>1. PICK i \in 0 .. Len(up[ws]) : up' = [up EXCEPT ![ws] = SubSeq(up[ws], 1, i)]
    BY <1>12 DEF Lose, WireTypes
  <2>2. Cropped(up[ws], SubSeq(up[ws], 1, i))
    BY Crops DEF WireTypes
  <2> QED
    BY <1>12, <2>1, <2>2 DEF WireTypes, UpMove
<1>13. ASSUME NEW d \in Epochs, ReadFrame(d) PROVE UpMove(e)
  <2>1. up' = [up EXCEPT ![d] = up'[d]] /\ Shrunk(up[d], up'[d])
    BY <1>13, FrameRead
  <2> QED
    BY <1>13, <2>1 DEF UpMove, WireTypes
<1>14. CASE LoopRead \/ LoopDial
  BY <1>1, <1>14 DEF LoopRead, LoopDial
<1>15. ASSUME NEW d \in Epochs, SayError(d) \/ SayConnected(d) \/ SendPong(d) PROVE UpMove(e)
  BY <1>1, <1>15 DEF SayError, SayConnected, SendPong
<1>16. ASSUME NEW s \in Sessions, SendData(s) \/ SayClose(s) PROVE UpMove(e)
  BY <1>1, <1>16 DEF SendData, SayClose, threadRest
<1> QED
  BY <1>1, <1>4, <1>5, <1>6, <1>7, <1>8, <1>9, <1>10, <1>11, <1>12, <1>13, <1>14, <1>15, <1>16,
     WireMoves DEF wireVars

LEMMA DownMoves ==
  ASSUME Typed, [Next]_vars, NEW e \in Epochs
  PROVE  DownMove(e)
<1> USE DEF Typed, AllTypes
<1>1. CASE UNCHANGED down
  BY <1>1 DEF DownMove
<1>2. ASSUME NEW d \in Epochs, NEW f \in Frames, SendDown(d, f), Says(d, f) PROVE DownMove(e)
  <2>1. /\ down' = [down EXCEPT ![d] = down'[d]]
        /\ (link[d] = "up" /\ Grown(down[d], down'[d], f)) \/ UNCHANGED down
    BY <1>2, SendDownTypes
  <2> QED
    BY <1>2, <2>1 DEF DownMove, WireTypes
<1>3. \A s \in Sessions \cup {0}, k \in Nat, t \in Types : Frame(t, s, k) \in Frames
  BY FrameType
<1>4. ASSUME NEW d \in Epochs, SayError(d) \/ SayConnected(d) \/ SendPong(d) PROVE DownMove(e)
  <2>1. \E t \in Types, s \in Sessions \cup {0} :
          SendDown(d, Frame(t, s, 0)) /\ Says(d, Frame(t, s, 0))
    BY <1>4 DEF SayError, SayConnected, SendPong, Says, ReadTypes, Frames, Types
  <2> QED
    BY <1>2, <1>3, <2>1
<1>5. ASSUME NEW s \in Sessions, SendData(s) PROVE DownMove(e)
  <2>1. \/ UNCHANGED down
        \/ SendDown(at[s], Frame("data", s, tpiece[s])) /\ Says(at[s], Frame("data", s, tpiece[s]))
    BY <1>5 DEF SendData, Says
  <2> QED
    BY <1>1, <1>2, <1>3, <2>1 DEF ReadTypes, ThreadTypes, Types
<1>6. ASSUME NEW s \in Sessions, SayClose(s) PROVE DownMove(e)
  <2>1. SendDown(at[s], Frame("close", s, 0)) /\ Says(at[s], Frame("close", s, 0))
    BY <1>6 DEF SayClose, Says
  <2> QED
    BY <1>2, <1>3, <2>1 DEF ReadTypes, Types
<1>7. CASE LoopRead
  <2>1. down' = [down EXCEPT ![ws] = Tail(down[ws])] /\ down[ws] # <<>>
    BY <1>7 DEF LoopRead
  <2>2. Shrunk(down[ws], Tail(down[ws]))
    BY <2>1, Shrinks DEF WireTypes
  <2> QED
    BY <1>7, <2>1, <2>2 DEF DownMove, WireTypes
<1>8. CASE Lose
  <2>1. PICK i \in 0 .. Len(down[ws]) : down' = [down EXCEPT ![ws] = SubSeq(down[ws], 1, i)]
    BY <1>8 DEF Lose, WireTypes
  <2>2. Cropped(down[ws], SubSeq(down[ws], 1, i))
    BY Crops DEF WireTypes
  <2> QED
    BY <1>8, <2>1, <2>2 DEF WireTypes, DownMove
<1>9. ASSUME NEW d \in Epochs, ReadFrame(d) PROVE DownMove(e)
  BY <1>1, <1>9 DEF ReadFrame
<1>10. CASE SendConnect \/ PumpPush \/ PumpEnd \/ SendClose \/ LoopGreet \/ LoopFlush \/ LoopHalf
            \/ LoopDial \/ SendPing
  BY <1>1, <1>10 DEF SendConnect, PumpPush, PumpEnd, SendClose, LoopGreet, LoopFlush, LoopHalf,
                     LoopDial, SendPing
<1> QED
  BY <1>1, <1>4, <1>5, <1>6, <1>7, <1>8, <1>9, <1>10, WireMoves DEF wireVars

-----------------------------------------------------------------------------
(* Every step keeps the shapes                                             *)

(* A socket that has been made stays one.                                  *)
LEMMA SocketsStay ==
  ASSUME Typed, [Next]_vars, NEW r \in Sessions
  PROVE  /\ lsock'[r] = "none" <=> lsock[r] = "none" /\ ~(Accept /\ h' = r)
         /\ lsock'[r] = "open" => lsock[r] \in {"open", "none"}
<1> USE DEF Typed, AllTypes
<1> DEFINE Goal == /\ lsock'[r] = "none" <=> lsock[r] = "none" /\ ~(Accept /\ h' = r)
                   /\ lsock'[r] = "open" => lsock[r] \in {"open", "none"}
<1>1. CASE Accept
  BY <1>1 DEF Accept, LsockTypes, HandTypes
<1>2. CASE UNCHANGED lsock /\ ~Accept
  BY <1>2 DEF LsockTypes
<1>3. ASSUME NEW s \in Sessions, ShutLocal(s), ~Accept PROVE Goal
  <2>1. Shuts(s)
    BY <1>3, ShutLocalTypes
  <2> QED
    BY <1>3, <2>1 DEF Shuts, LsockTypes
<1>4. ASSUME NEW s \in Sessions, DropSession(s), ~Accept PROVE Goal
  BY <1>2, <1>3, <1>4 DEF DropSession, lsockVars
<1>5. CASE OpenSession \/ SendConnect \/ ShutConnection
  <2>1. h \in Sessions /\ ~Accept /\ (UNCHANGED lsock \/ ShutLocal(h))
    BY <1>5 DEF OpenSession, SendConnect, ShutConnection, Refuse, Shapes, Accept, lsockVars
  <2> QED
    BY <1>2, <1>3, <2>1
<1>6. CASE PumpPush
  <2>1. h \in Sessions /\ ~Accept /\ (UNCHANGED lsock \/ DropSession(h))
    BY <1>6 DEF PumpPush, Shapes, Accept, lsockVars
  <2> QED
    BY <1>2, <1>4, <2>1
<1>7. CASE LoopGreet \/ LoopFlush
  <2>1. frame.s \in Sessions /\ (UNCHANGED lsock \/ DropSession(frame.s))
    BY <1>7 DEF LoopGreet, LoopFlush, LoopPush, Shapes, lsockVars
  <2>2. UNCHANGED hpc
    BY <1>7 DEF LoopGreet, LoopFlush, loopRest, handVars
  <2>3. ~Accept
    BY <2>2 DEF Accept
  <2> QED
    BY <1>2, <1>4, <2>1, <2>3
<1>8. CASE LoopShut \/ LoopTell
  <2>1. UNCHANGED lsock \/ \E s \in Sessions : ShutLocal(s)
    BY <1>8 DEF LoopShut, OnClose, LoopTell, Shapes, LoopTypes, lsockVars
  <2>2. UNCHANGED hpc
    BY <1>8 DEF LoopShut, LoopTell, loopRest, handVars
  <2>3. ~Accept
    BY <2>2 DEF Accept
  <2> QED
    BY <1>2, <1>3, <2>1, <2>3
<1>9. CASE PumpRead \/ LoopDeliver
  BY <1>2, <1>9 DEF PumpRead, LoopDeliver, Accept, loopRest, handVars
<1>10. ASSUME NEW s \in Sessions, LocalSends(s) \/ LocalSendsLate(s) \/ LocalReads(s) PROVE Goal
  <2>1. UNCHANGED hpc
    BY <1>10 DEF LocalSends, LocalSendsLate, LocalReads, handVars
  <2>2. ~Accept
    BY <2>1 DEF Accept
  <2> QED
    BY <1>2, <1>10, <2>2 DEF LocalSends, LocalSendsLate, LocalReads, LsockTypes
<1> QED
  BY <1>1, <1>2, <1>5, <1>6, <1>7, <1>8, <1>9, <1>10, LsockMoves DEF lsockVars

LEMMA Lengths ==
  ASSUME Typed, [Next]_vars, NEW e \in Epochs
  PROVE  /\ up[e] \in Seq(Frames) /\ up'[e] \in Seq(Frames)
         /\ Len(up[e]) \in Nat /\ Len(up'[e]) \in Nat
         /\ down[e] \in Seq(Frames) /\ down'[e] \in Seq(Frames)
         /\ Len(down[e]) \in Nat /\ Len(down'[e]) \in Nat
<1>1. WireTypes /\ WireTypes'
  BY WireKept DEF Typed, AllTypes
<1>2. /\ up[e] \in Seq(Frames) /\ up'[e] \in Seq(Frames)
      /\ down[e] \in Seq(Frames) /\ down'[e] \in Seq(Frames)
  BY <1>1 DEF WireTypes
<1> QED
  BY <1>2, Empty

LEMMA FramesUpKept ==
  ASSUME Typed, [Next]_vars, NEW e \in Epochs, NEW i \in 1 .. Len(up'[e])
  PROVE  UpType(up'[e][i])
<1>1. /\ Len(up[e]) \in Nat /\ Len(up'[e]) \in Nat
      /\ \A j \in 1 .. Len(up[e]) : UpType(up[e][j])
  BY Lengths DEF Typed, Shapes
<1>2. UpMove(e)
  BY UpMoves
<1>3. ASSUME NEW f \in Frames, Puts(f), Grown(up[e], up'[e], f) PROVE UpType(up'[e][i])
  <2>1. UpType(f)
    <3>1. f.t # "data" => f.k = 0
      BY <1>3 DEF Puts, Frame
    <3>2. \/ f.t = "ping" /\ f.s = 0
          \/ f.s = h /\ hpc # "accept" /\ f.t \in {"connect", "data", "half", "close"}
          \/ f.s = frame.s /\ lpc \in {"greet", "flush", "half"} /\ f.t \in {"data", "half"}
      BY <1>3 DEF Puts, SendConnect, PumpPush, PumpEnd, SendClose, LoopGreet, LoopFlush, LoopHalf,
                  Frame
    <3> QED
      BY <3>1, <3>2 DEF UpType, Typed, Shapes
  <2>2. i \in 1 .. Len(up[e]) \/ i = Len(up[e]) + 1
    BY <1>1, <1>3 DEF Grown
  <2> QED
    BY <1>1, <1>3, <2>1, <2>2 DEF Grown
<1>4. CASE Shrunk(up[e], up'[e])
  <2>1. i + 1 \in 1 .. Len(up[e]) /\ up'[e][i] = up[e][i + 1]
    BY <1>1, <1>4 DEF Shrunk
  <2> QED
    BY <1>1, <2>1
<1>5. CASE Cropped(up[e], up'[e])
  <2>1. i \in 1 .. Len(up[e]) /\ up'[e][i] = up[e][i]
    BY <1>1, <1>5 DEF Cropped
  <2> QED
    BY <1>1, <2>1
<1> QED
  BY <1>1, <1>2, <1>3, <1>4, <1>5 DEF UpMove

LEMMA FramesDownKept ==
  ASSUME Typed, [Next]_vars, NEW e \in Epochs, NEW i \in 1 .. Len(down'[e])
  PROVE  DownType(down'[e][i])
<1>1. /\ Len(down[e]) \in Nat /\ Len(down'[e]) \in Nat
      /\ \A j \in 1 .. Len(down[e]) : DownType(down[e][j])
  BY Lengths DEF Typed, Shapes
<1>2. DownMove(e)
  BY DownMoves
<1>3. ASSUME NEW f \in Frames, Says(e, f), Grown(down[e], down'[e], f) PROVE DownType(down'[e][i])
  <2>1. DownType(f)
    <3>1. \/ f.t = "pong" /\ f.s = 0
          \/ /\ f.s = rframe[e].s /\ f.t \in {"error", "connected"}
             /\ rpc[e] \in {"refuse", "connected"}
          \/ f.s \in Sessions /\ f.t \in {"data", "close"}
      BY <1>3 DEF Says, SayError, SayConnected, Frame
    <3> QED
      BY <3>1 DEF DownType, Typed, Shapes
  <2>2. i \in 1 .. Len(down[e]) \/ i = Len(down[e]) + 1
    BY <1>1, <1>3 DEF Grown
  <2> QED
    BY <1>1, <1>3, <2>1, <2>2 DEF Grown
<1>4. CASE Shrunk(down[e], down'[e])
  <2>1. i + 1 \in 1 .. Len(down[e]) /\ down'[e][i] = down[e][i + 1]
    BY <1>1, <1>4 DEF Shrunk
  <2> QED
    BY <1>1, <2>1
<1>5. CASE Cropped(down[e], down'[e])
  <2>1. i \in 1 .. Len(down[e]) /\ down'[e][i] = down[e][i]
    BY <1>1, <1>5 DEF Cropped
  <2> QED
    BY <1>1, <2>1
<1> QED
  BY <1>1, <1>2, <1>3, <1>4, <1>5 DEF DownMove

LEMMA ShapesKept == Typed /\ [Next]_vars => Shapes'
<1> SUFFICES ASSUME Typed, [Next]_vars PROVE Shapes'
  OBVIOUS
<1>1. hpc' # "accept" => h' \in Sessions /\ lsock'[h'] # "none"
  <2>1. CASE UNCHANGED handVars
    BY <2>1, SocketsStay DEF handVars, Typed, Shapes
  <2>2. CASE Accept
    BY <2>2 DEF Accept, Typed, AllTypes, LsockTypes
  <2>3. CASE OpenSession \/ SendConnect \/ PumpRead \/ PumpPiece \/ PumpPush \/ PumpEnd \/ Finish
             \/ SendClose \/ ShutConnection
    <3>1. hpc # "accept" /\ h' = h
      BY <2>3 DEF OpenSession, SendConnect, PumpRead, PumpPiece, PumpPush, PumpEnd, Finish,
                  SendClose, ShutConnection
    <3> QED
      BY <3>1, SocketsStay DEF Typed, Shapes
  <2> QED
    BY <2>1, <2>2, <2>3, HandMoves
<1>2. lpc' \notin {"read", "tell", "dial"} => frame'.s \in Sessions
  <2>1. CASE UNCHANGED loopVars
    BY <2>1 DEF loopVars, Typed, Shapes
  <2>2. CASE LoopRead
    BY <2>2 DEF LoopRead, Typed, AllTypes, ClientTypes
  <2>3. CASE LoopGreet \/ LoopFlush
    BY <2>3 DEF LoopGreet, LoopFlush, Typed, Shapes
  <2>4. CASE LoopTell
    BY <2>4 DEF LoopTell, Typed, AllTypes, LoopTypes, Frame
  <2>5. CASE LoopDeliver \/ LoopHalf \/ LoopShut \/ LoopLoss \/ LoopMark \/ LoopTold \/ LoopDial
    BY <2>5 DEF LoopDeliver, LoopHalf, LoopShut, LoopLoss, LoopMark, LoopTold, LoopDial
  <2> QED
    BY <2>1, <2>2, <2>3, <2>4, <2>5, LoopMoves
<1>3. ASSUME NEW e \in Epochs
      PROVE  /\ rpc'[e] \in {"dial", "refuse", "connected", "write"} =>
                  /\ rframe'[e].s \in Sessions
                  /\ rframe'[e].t = (IF rpc'[e] = "write" THEN "data" ELSE "connect")
             /\ rpc'[e] \in {"none", "read", "pong", "gone"} => rframe'[e].s = 0
  <2> DEFINE Fits(p, f) ==
        /\ p \in {"dial", "refuse", "connected", "write"} =>
             f.s \in Sessions /\ f.t = (IF p = "write" THEN "data" ELSE "connect")
        /\ p \in {"none", "read", "pong", "gone"} => f.s = 0
  <2>1. Fits(rpc[e], rframe[e])
    BY DEF Typed, Shapes
  <2>2. CASE rpc'[e] = rpc[e] /\ rframe'[e] = rframe[e]
    BY <2>1, <2>2
  <2>3. ASSUME ReadFrame(e) PROVE Fits(rpc'[e], rframe'[e])
    <3>1. UpType(Head(up[e]))
      BY <2>3, FrameRead
    <3>2. /\ rframe'[e] = (IF rpc'[e] = "read" THEN NoFrame ELSE Head(up[e]))
          /\ \/ rpc'[e] = "dial" /\ Head(up[e]).t = "connect"
             \/ rpc'[e] = "write" /\ Head(up[e]).t = "data"
             \/ rpc'[e] = "pong" /\ Head(up[e]).t = "ping"
             \/ rpc'[e] = "read"
      BY <2>3 DEF ReadFrame, Typed, AllTypes, ReadTypes
    <3> QED
      BY <3>1, <3>2 DEF UpType, NoFrame, Frame
  <2>4. ASSUME Dial(e) PROVE Fits(rpc'[e], rframe'[e])
    BY <2>1, <2>4 DEF Dial, Typed, AllTypes, ReadTypes
  <2>5. ASSUME SayError(e) \/ SayConnected(e) \/ WriteTarget(e) \/ SendPong(e)
        PROVE  Fits(rpc'[e], rframe'[e])
    BY <2>5 DEF SayError, SayConnected, WriteTarget, SendPong, ReadOn, Typed, AllTypes, ReadTypes,
                NoFrame, Frame
  <2>6. ASSUME StopManager(e) PROVE Fits(rpc'[e], rframe'[e])
    BY <2>1, <2>6 DEF StopManager, Typed, AllTypes, ReadTypes
  <2>7. ASSUME LoopDial PROVE Fits(rpc'[e], rframe'[e])
    <3>1. rframe' = rframe /\ rpc' = [rpc EXCEPT ![ws + 1] = "read"] /\ ws \in Nat
      BY <2>7 DEF LoopDial, Typed, AllTypes, WireTypes, Epochs
    <3>2. rpc'[e] = rpc[e] \/ (rpc'[e] = "read" /\ rpc[e] = "none")
      BY <3>1 DEF Typed, Shapes, AllTypes, ReadTypes
    <3> QED
      BY <2>1, <3>1, <3>2
  <2>8. CASE \E d \in Epochs : d # e /\ Reader(d)
    <3>1. rpc'[e] = rpc[e] /\ rframe'[e] = rframe[e]
      <4>0. PICK d \in Epochs : d # e /\ Reader(d)
        BY <2>8
      <4>1. CASE ReadFrame(d)
        BY <4>0, <4>1 DEF ReadFrame, Typed, AllTypes, ReadTypes
      <4>2. CASE Dial(d) \/ StopManager(d)
        BY <4>0, <4>2 DEF Dial, StopManager, Typed, AllTypes, ReadTypes
      <4>3. CASE SayError(d) \/ SayConnected(d) \/ WriteTarget(d) \/ SendPong(d)
        BY <4>0, <4>3 DEF SayError, SayConnected, WriteTarget, SendPong, ReadOn, Typed, AllTypes,
                          ReadTypes
      <4> QED
        BY <4>0, <4>1, <4>2, <4>3 DEF Reader
    <3> QED
      BY <2>2, <3>1
  <2>9. CASE \E s \in Sessions : SendData(s) \/ EndSession(s)
    BY <2>2, <2>9 DEF SendData, EndSession, threadRest
  <2> QED
    BY <2>2, <2>3, <2>4, <2>5, <2>6, <2>7, <2>8, <2>9, ReadMoves DEF readVars, Reader
<1>4. \A e \in Epochs : e > ws' => rpc'[e] = "none"
  <2>1. ws \in Nat /\ \A e \in Epochs : e \in Nat /\ (e > ws => rpc[e] = "none")
    BY DEF Typed, AllTypes, Shapes, WireTypes, Epochs
  <2>2. CASE LoopDial
    BY <2>1, <2>2 DEF LoopDial, Typed, AllTypes, ReadTypes
  <2>3. CASE \E d \in Epochs : Reader(d)
    BY <2>1, <2>3 DEF Reader, readRest, ReadFrame, Dial, SayError, SayConnected, WriteTarget,
                      SendPong, ReadOn, StopManager, Typed, AllTypes, ReadTypes
  <2>4. CASE UNCHANGED <<ws, rpc>>
    BY <2>1, <2>4
  <2>5. \/ UNCHANGED rpc \/ LoopDial \/ \E d \in Epochs : Reader(d)
    BY ReadMoves DEF readVars, SendData, EndSession, threadRest, Reader
  <2>6. \/ UNCHANGED ws \/ LoopDial \/ \E d \in Epochs : Reader(d)
    BY WireMoves DEF wireVars, SendConnect, PumpPush, PumpEnd, SendClose, LoopRead, LoopGreet,
                     LoopFlush, LoopHalf, SendPing, Lose, SendData, SayClose, threadRest, Reader
  <2> QED
    BY <2>2, <2>3, <2>4, <2>5, <2>6
<1> QED
  BY <1>1, <1>2, <1>3, <1>4, FramesUpKept, FramesDownKept DEF Shapes

LEMMA InitTyped == Init => Typed
<1> SUFFICES ASSUME Init PROVE Typed
  OBVIOUS
<1> USE SystemAssumption DEF Init, Each
<1>1. <<>> \in Seq(Nat) /\ <<>> \in Seq(Frames) /\ NoFrame \in Frames /\ Len(<<>>) = 0
  BY EmptySeq, FrameType DEF NoFrame, Types
<1>2. LocalTypes
  BY <1>1 DEF LocalTypes, Ends
<1>3. LsockTypes /\ HandTypes
  BY <1>1 DEF LsockTypes, HandTypes
<1>4. ClientTypes
  BY <1>1 DEF ClientTypes
<1>5. LoopTypes
  BY <1>1 DEF LoopTypes
<1>6. WireTypes
  BY <1>1 DEF WireTypes, Epochs
<1>7. ReadTypes
  BY <1>1 DEF ReadTypes, Epochs
<1>8. ThreadTypes /\ TsockTypes
  BY <1>1 DEF ThreadTypes, TsockTypes
<1>9. TargetTypes /\ CutTypes
  BY <1>1 DEF TargetTypes, CutTypes, Ends
<1>10. Shapes
  BY <1>1 DEF Shapes, Epochs, NoFrame, Frame
<1> QED
  BY <1>2, <1>3, <1>4, <1>5, <1>6, <1>7, <1>8, <1>9, <1>10 DEF Typed, AllTypes

LEMMA NextTyped == Typed /\ [Next]_vars => Typed'
<1> SUFFICES ASSUME Typed, [Next]_vars PROVE Typed'
  OBVIOUS
<1>1. LocalTypes' /\ LsockTypes' /\ HandTypes' /\ ClientTypes' /\ LoopTypes'
  BY LocalKept, LsockKept, HandKept, ClientKept, LoopKept DEF Typed, AllTypes
<1>2. WireTypes' /\ ReadTypes' /\ ThreadTypes' /\ TsockTypes' /\ TargetTypes' /\ CutTypes'
  BY WireKept, ReadKept, ThreadKept, TsockKept, TargetKept, CutKept
<1> QED
  BY <1>1, <1>2, ShapesKept DEF Typed, AllTypes

\* Every variable of the system has its type in every reachable state.
THEOREM TypeCorrect == Spec => []TypeOK
<1>1. Init => Typed
  BY InitTyped
<1>2. Typed /\ [Next]_vars => Typed'
  BY NextTyped
<1>3. Typed => TypeOK
  BY TypesAgree DEF Typed
<1> QED
  BY <1>1, <1>2, <1>3, PTL DEF Spec

-----------------------------------------------------------------------------
(* Connections                                                             *)

(* There is one connection after the other; the loss of one cuts every     *)
(* session there is, and none is left to the client when it dials again.   *)
Linked ==
  /\ \A e \in Epochs : (e < ws => link[e] = "lost") /\ (e > ws => link[e] = "none")
  /\ link[ws] # "none"
  /\ \A e \in Epochs : e > ws => Len(up[e]) = 0 /\ Len(down[e]) = 0 /\ sess[e] = {}
  /\ ~Usable => link[ws] = "lost" /\ smap = {}
  /\ \A s \in smap : lsock[s] # "none" /\ ~(h = s /\ hpc = "open")
  /\ link[ws] = "lost" => \A s \in Sessions : lsock[s] = "none" \/ (h = s /\ hpc = "open") \/ cut[s]

LEMMA LinkMoves ==
  ASSUME Typed, [Next]_vars
  PROVE  \/ UNCHANGED <<ws, link>> /\ ~Lose /\ ~LoopDial
         \/ LoopDial \/ Lose
<1>1. ASSUME UNCHANGED <<ws, link>>, Lose PROVE FALSE
  BY <1>1 DEF Lose, Typed, AllTypes, WireTypes
<1>2. ASSUME UNCHANGED <<ws, link>>, LoopDial PROVE FALSE
  BY <1>2 DEF LoopDial, Typed, AllTypes, WireTypes, Epochs
<1>3. UNCHANGED <<ws, link>> \/ LoopDial \/ Lose
  BY WireMoves DEF wireVars, SendConnect, PumpPush, PumpEnd, SendClose, LoopRead, LoopGreet,
                   LoopFlush, LoopHalf, SendPing, SendData, SayClose, threadRest, readRest,
                   ReadFrame, SayError, SayConnected, SendPong
<1> QED
  BY <1>1, <1>2, <1>3

LEMMA LinkedKept == Typed /\ Linked /\ [Next]_vars => Linked'
<1> SUFFICES ASSUME Typed, Linked, [Next]_vars PROVE Linked'
  OBVIOUS
<1>0. /\ ws \in Epochs /\ ws \in Nat /\ \A e \in Epochs : e \in Nat
      /\ smap \subseteq Sessions /\ link \in [Epochs -> {"none", "up", "lost"}]
      /\ \A s \in Sessions : cut[s] => cut'[s]
  BY CutKept DEF Typed, AllTypes, WireTypes, ClientTypes, Epochs
<1>1. /\ ws' \in Epochs /\ link'[ws'] # "none"
      /\ \A e \in Epochs : (e < ws' => link'[e] = "lost") /\ (e > ws' => link'[e] = "none")
  <2>1. CASE UNCHANGED <<ws, link>>
    BY <1>0, <2>1 DEF Linked
  <2>2. CASE LoopDial
    <3>1. link[ws] = "lost" /\ ws' = ws + 1 /\ ws' \in Epochs
      BY <2>2, SystemAssumption, <1>0 DEF LoopDial, Linked, Usable, Epochs
    <3> QED
      BY <1>0, <2>2, <3>1 DEF LoopDial, Linked
  <2>3. CASE Lose
    BY <1>0, <2>3 DEF Lose, Linked
  <2> QED
    BY <2>1, <2>2, <2>3, LinkMoves
<1>2. ws' >= ws
  BY <1>0, LinkMoves DEF LoopDial, Lose
<1>3. ASSUME NEW e \in Epochs, e > ws' PROVE Len(up'[e]) = 0 /\ Len(down'[e]) = 0 /\ sess'[e] = {}
  <2>1. e > ws /\ Len(up[e]) = 0 /\ Len(down[e]) = 0 /\ sess[e] = {} /\ e # ws
        /\ link[e] = "none" /\ rpc[e] = "none"
    BY <1>0, <1>2, <1>3, <1>1 DEF Linked, Typed, Shapes
  <2>2. UpMove(e) /\ DownMove(e) /\ Len(up'[e]) \in Nat /\ Len(down'[e]) \in Nat
    BY UpMoves, DownMoves, Lengths
  <2>3. Len(up'[e]) = 0
    BY <2>1, <2>2 DEF UpMove, Shrunk, Cropped
  <2>4. Len(down'[e]) = 0
    BY <2>1, <2>2 DEF DownMove, Shrunk, Cropped
  <2>5. sess'[e] \subseteq sess[e]
    <3>1. ASSUME NEW d \in Epochs, ReadFrame(d) \/ StopManager(d) PROVE sess'[e] \subseteq sess[e]
      BY <2>1, <3>1 DEF ReadFrame, StopManager, Typed, AllTypes, ReadTypes
    <3>2. ASSUME NEW d \in Epochs,
                 Dial(d) \/ SayError(d) \/ SayConnected(d) \/ WriteTarget(d) \/ SendPong(d)
          PROVE  sess'[e] \subseteq sess[e]
      BY <3>2 DEF Dial, SayError, SayConnected, WriteTarget, SendPong, Typed, AllTypes, ReadTypes
    <3>3. ASSUME NEW s \in Sessions, SendData(s) \/ EndSession(s)
          PROVE  sess'[e] \subseteq sess[e]
      BY <3>3 DEF SendData, EndSession, Typed, AllTypes, ReadTypes
    <3> QED
      BY ReadMoves, <3>1, <3>2, <3>3 DEF readVars, LoopDial
  <2> QED
    BY <2>1, <2>3, <2>4, <2>5
<1>4. ~Usable' => link'[ws'] = "lost" /\ smap' = {}
  <2>1. CASE ~Usable /\ ~LoopDial
    <3>1. UNCHANGED <<ws, link>>
      <4>1. ~Lose
        BY <1>0, <2>1 DEF Lose, Linked
      <4> QED
        BY <2>1, <4>1, LinkMoves
    <3>2. smap' \subseteq smap
      BY <2>1, ClientMoves DEF clientVars, OpenSession, SendConnect, PumpPiece, PumpPush, PumpEnd,
         Finish, LoopRead, LoopGreet, LoopFlush, LoopHalf, LoopShut, LoopLoss, LoopTell, LoopMark,
         LoopPush, DropSession, Usable
    <3> QED
      BY <2>1, <3>1, <3>2 DEF Linked
  <2>2. CASE LoopDial
    BY <2>2 DEF LoopDial, Usable
  <2>3. CASE Usable /\ ~LoopDial
    <3>1. Usable' \/ (LoopLoss /\ UNCHANGED <<ws, link>>)
      BY <2>3, LoopMoves DEF loopVars, LoopRead, LoopDeliver, LoopGreet, LoopFlush, LoopHalf,
         LoopShut, LoopLoss, LoopTell, LoopMark, LoopTold, Usable, wireVars
    <3> QED
      BY <3>1 DEF LoopLoss
  <2> QED
    BY <2>1, <2>2, <2>3
<1>5. ASSUME NEW s \in Sessions, lsock'[s] # "none", ~(h' = s /\ hpc' = "open")
      PROVE  lsock[s] # "none" /\ (h = s /\ hpc = "open" => OpenSession)
  <2>1. lsock[s] # "none"
    <3>1. ~(Accept /\ h' = s)
      BY <1>5 DEF Accept
    <3> QED
      BY <1>5, <3>1, SocketsStay
  <2>2. h = s /\ hpc = "open" => OpenSession
    BY <1>5, HandMoves DEF handVars, Accept, SendConnect, PumpRead, PumpPiece, PumpPush, PumpEnd,
                           Finish, SendClose, ShutConnection
  <2> QED
    BY <2>1, <2>2
<1>6. ASSUME NEW s \in smap' PROVE lsock'[s] # "none" /\ ~(h' = s /\ hpc' = "open")
  <2>1. s \in Sessions
    BY ClientKept DEF Typed, AllTypes, ClientTypes
  <2>2. s \in smap \/ (OpenSession /\ s = h /\ hpc' = "connect")
    BY <1>6, ClientMoves DEF clientVars, OpenSession, SendConnect, PumpPiece, PumpPush, PumpEnd,
       Finish, LoopRead, LoopGreet, LoopFlush, LoopHalf, LoopShut, LoopLoss, LoopTell, LoopMark,
       LoopPush, DropSession, Refuse
  <2>3. lsock[s] # "none"
    BY <2>2 DEF Linked, OpenSession, Typed, Shapes
  <2>4. hpc' = "open" => (h' = h /\ hpc = "open" /\ ~OpenSession) \/ (Accept /\ lsock[h'] = "none")
    BY HandMoves DEF handVars, Accept, OpenSession, SendConnect, PumpRead, PumpPiece, PumpPush,
                     PumpEnd, Finish, SendClose, ShutConnection, Refuse
  <2> QED
    BY <2>1, <2>2, <2>3, <2>4, SocketsStay DEF Linked
<1>7. ASSUME link'[ws'] = "lost", NEW s \in Sessions, lsock'[s] # "none", ~(h' = s /\ hpc' = "open")
      PROVE  cut'[s]
  <2>1. lsock[s] # "none" /\ (h = s /\ hpc = "open" => OpenSession)
    BY <1>5, <1>7
  <2>2. CASE Lose
    BY <2>1, <2>2 DEF Lose
  <2>3. CASE UNCHANGED <<ws, link>>
    <3>1. link[ws] = "lost"
      BY <1>7, <2>3
    <3>2. h = s /\ OpenSession => cut'[s]
      BY <3>1 DEF OpenSession, Refuse, Typed, AllTypes, CutTypes
    <3>3. cut[s] => cut'[s]
      BY <1>0
    <3> QED
      BY <2>1, <3>1, <3>2, <3>3 DEF Linked
  <2>4. ~LoopDial
    BY <1>1, <1>7, <1>0 DEF LoopDial, Linked
  <2> QED
    BY <2>2, <2>3, <2>4, LinkMoves
<1> QED
  BY <1>1, <1>3, <1>4, <1>6, <1>7 DEF Linked, Usable

-----------------------------------------------------------------------------
(* What is on the way                                                      *)

HasUp(e, t, s) == \E i \in 1 .. Len(up[e]) : up[e][i].t = t /\ up[e][i].s = s
HasDown(e, t, s) == \E i \in 1 .. Len(down[e]) : down[e][i].t = t /\ down[e][i].s = s
OfUp(e, s) == \E i \in 1 .. Len(up[e]) : up[e][i].s = s
OfDown(e, s) == \E i \in 1 .. Len(down[e]) : down[e][i].s = s

(* What is added to the end of a queue, and what leaves it.                *)
LEMMA UpChanges ==
  ASSUME Typed, [Next]_vars, NEW e \in Epochs, NEW s \in Sessions
  PROVE  /\ \A t \in Types :
              HasUp(e, t, s)' => \/ HasUp(e, t, s)
                                 \/ /\ e = ws /\ link[ws] = "up"
                                    /\ \E f \in Frames : Puts(f) /\ f.t = t /\ f.s = s
         /\ \A t \in Types :
              HasUp(e, t, s) => \/ HasUp(e, t, s)' \/ (Lose /\ e = ws)
                                \/ ReadFrame(e) /\ Head(up[e]).t = t /\ Head(up[e]).s = s
         /\ OfUp(e, s)' => \/ OfUp(e, s)
                           \/ e = ws /\ link[ws] = "up" /\ \E f \in Frames : Puts(f) /\ f.s = s
<1>1. Len(up[e]) \in Nat /\ Len(up'[e]) \in Nat /\ UpMove(e)
  BY Lengths, UpMoves
<1>2. CASE up'[e] = up[e]
  BY <1>2 DEF HasUp, OfUp
<1>3. ASSUME NEW g \in Frames, e = ws, link[ws] = "up", Puts(g), Grown(up[e], up'[e], g)
      PROVE  /\ \A t \in Types : HasUp(e, t, s)' => HasUp(e, t, s) \/ (g.t = t /\ g.s = s)
             /\ \A t \in Types : HasUp(e, t, s) => HasUp(e, t, s)'
             /\ OfUp(e, s)' => OfUp(e, s) \/ g.s = s
  <2>1. \A i \in 1 .. Len(up'[e]) : (i \in 1 .. Len(up[e]) /\ up'[e][i] = up[e][i]) \/ up'[e][i] = g
    BY <1>1, <1>3 DEF Grown
  <2>2. \A i \in 1 .. Len(up[e]) : i \in 1 .. Len(up'[e]) /\ up'[e][i] = up[e][i]
    BY <1>1, <1>3 DEF Grown
  <2>3. \A t \in Types : HasUp(e, t, s)' => HasUp(e, t, s) \/ (g.t = t /\ g.s = s)
    BY <2>1 DEF HasUp
  <2>4. \A t \in Types : HasUp(e, t, s) => HasUp(e, t, s)'
    BY <2>2 DEF HasUp
  <2>5. OfUp(e, s)' => OfUp(e, s) \/ g.s = s
    BY <2>1 DEF OfUp
  <2> QED
    BY <2>3, <2>4, <2>5
<1>4. ASSUME ReadFrame(e), Shrunk(up[e], up'[e])
      PROVE  /\ \A t \in Types : HasUp(e, t, s)' => HasUp(e, t, s)
             /\ \A t \in Types :
                  HasUp(e, t, s) => HasUp(e, t, s)' \/ (Head(up[e]).t = t /\ Head(up[e]).s = s)
             /\ OfUp(e, s)' => OfUp(e, s)
  <2>1. \A i \in 1 .. Len(up'[e]) : i + 1 \in 1 .. Len(up[e]) /\ up'[e][i] = up[e][i + 1]
    BY <1>1, <1>4 DEF Shrunk
  <2>2. \A i \in 1 .. Len(up[e]) : i = 1 \/ (i - 1 \in 1 .. Len(up'[e]) /\ up'[e][i - 1] = up[e][i])
    BY <1>1, <1>4 DEF Shrunk
  <2>3. Head(up[e]) = up[e][1]
    BY <1>4, FrameRead
  <2>4. \A t \in Types :
          HasUp(e, t, s) => HasUp(e, t, s)' \/ (Head(up[e]).t = t /\ Head(up[e]).s = s)
    BY <2>2, <2>3 DEF HasUp
  <2> QED
    BY <2>1, <2>4 DEF HasUp, OfUp
<1>5. CASE Lose /\ e = ws /\ Cropped(up[e], up'[e])
  <2>1. \A i \in 1 .. Len(up'[e]) : i \in 1 .. Len(up[e]) /\ up'[e][i] = up[e][i]
    BY <1>1, <1>5 DEF Cropped
  <2> QED
    BY <1>5, <2>1 DEF HasUp, OfUp
<1> QED
  BY <1>1, <1>2, <1>3, <1>4, <1>5 DEF UpMove

LEMMA DownChanges ==
  ASSUME Typed, [Next]_vars, NEW e \in Epochs, NEW s \in Sessions
  PROVE  /\ \A t \in Types :
              HasDown(e, t, s)' => \/ HasDown(e, t, s)
                                   \/ /\ link[e] = "up"
                                      /\ \E f \in Frames : Says(e, f) /\ f.t = t /\ f.s = s
         /\ OfDown(e, s)' => \/ OfDown(e, s)
                             \/ link[e] = "up" /\ \E f \in Frames : Says(e, f) /\ f.s = s
<1>1. Len(down[e]) \in Nat /\ Len(down'[e]) \in Nat /\ DownMove(e)
  BY Lengths, DownMoves
<1>2. CASE down'[e] = down[e]
  BY <1>2 DEF HasDown, OfDown
<1>3. ASSUME NEW g \in Frames, link[e] = "up", Says(e, g), Grown(down[e], down'[e], g)
      PROVE  /\ \A t \in Types : HasDown(e, t, s)' => HasDown(e, t, s) \/ (g.t = t /\ g.s = s)
             /\ OfDown(e, s)' => OfDown(e, s) \/ g.s = s
  <2>1. \A i \in 1 .. Len(down'[e]) :
          (i \in 1 .. Len(down[e]) /\ down'[e][i] = down[e][i]) \/ down'[e][i] = g
    BY <1>1, <1>3 DEF Grown
  <2>2. \A t \in Types : HasDown(e, t, s)' => HasDown(e, t, s) \/ (g.t = t /\ g.s = s)
    BY <2>1 DEF HasDown
  <2>3. OfDown(e, s)' => OfDown(e, s) \/ g.s = s
    BY <2>1 DEF OfDown
  <2> QED
    BY <2>2, <2>3
<1>4. CASE Shrunk(down[e], down'[e])
  <2>1. \A i \in 1 .. Len(down'[e]) : i + 1 \in 1 .. Len(down[e]) /\ down'[e][i] = down[e][i + 1]
    BY <1>1, <1>4 DEF Shrunk
  <2> QED
    BY <2>1 DEF HasDown, OfDown
<1>5. CASE Cropped(down[e], down'[e])
  <2>1. \A i \in 1 .. Len(down'[e]) : i \in 1 .. Len(down[e]) /\ down'[e][i] = down[e][i]
    BY <1>1, <1>5 DEF Cropped
  <2> QED
    BY <2>1 DEF HasDown, OfDown
<1> QED
  BY <1>1, <1>2, <1>3, <1>4, <1>5 DEF DownMove

-----------------------------------------------------------------------------
(* The way of one session                                                  *)

(* Reader e takes a frame of type t of session s.                          *)
Reads(e, t, s) == ReadFrame(e) /\ Head(up[e]).t = t /\ Head(up[e]).s = s

LEMMA ReadsHas ==
  ASSUME Typed, NEW e \in Epochs, NEW t, NEW s, Reads(e, t, s)
  PROVE  /\ HasUp(e, t, s) /\ up[e][1].t = t /\ up[e][1].s = s /\ Len(up[e]) \in Nat \ {0}
         /\ Shrunk(up[e], up'[e]) /\ t \in Types
<1>1. /\ Head(up[e]) = up[e][1] /\ UpType(Head(up[e])) /\ Len(up[e]) \in Nat \ {0}
      /\ Shrunk(up[e], up'[e])
  BY FrameRead DEF Reads
<1>2. 1 \in 1 .. Len(up[e])
  BY <1>1
<1> QED
  BY <1>1, <1>2 DEF Reads, HasUp, UpType, Types

(* Whose frame is written to the connection, and when.                     *)
LEMMA Putters ==
  ASSUME NEW f, Puts(f), f.s # 0
  PROVE  \/ f.t = "connect" /\ f.s = h /\ hpc = "connect" /\ SendConnect /\ hpc' = "pump"
         \/ f.t \in {"data", "half"} /\ f.s = h /\ hpc \in {"push", "end"}
         \/ f.t \in {"data", "half"} /\ f.s = frame.s /\ lpc \in {"greet", "flush", "half"}
         \/ f.t = "close" /\ f.s = h /\ hpc = "notify" /\ SendClose
  BY DEF Puts, SendConnect, PumpPush, PumpEnd, SendClose, LoopGreet, LoopFlush, LoopHalf, Frame

LEMMA Speakers ==
  ASSUME NEW e, NEW f, Says(e, f), f.s # 0
  PROVE  \/ f.t = "error" /\ f.s = rframe[e].s /\ SayError(e)
         \/ f.t = "connected" /\ f.s = rframe[e].s /\ SayConnected(e)
         \/ f.t = "data" /\ at[f.s] = e /\ tpc[f.s] = "send"
         \/ f.t = "close" /\ at[f.s] = e /\ SayClose(f.s)
<1>1. ASSUME NEW s \in Sessions, at[s] = e, SendData(s), f = Frame("data", s, tpiece[s])
      PROVE  f.t = "data" /\ at[f.s] = e /\ tpc[f.s] = "send"
  BY <1>1 DEF SendData, Frame
<1>2. ASSUME NEW s \in Sessions, at[s] = e, SayClose(s), f = Frame("close", s, 0)
      PROVE  f.t = "close" /\ at[f.s] = e /\ SayClose(f.s)
  BY <1>2 DEF Frame
<1>3. f # Frame("pong", 0, 0)
  BY DEF Frame
<1>4. \A t, s, k : Frame(t, s, k).t = t /\ Frame(t, s, k).s = s
  BY DEF Frame
<1> QED
  BY <1>1, <1>2, <1>3, <1>4 DEF Says

(* A session is not announced until its connect is written.                *)
Unsent(s) == lsock[s] = "none" \/ (h = s /\ hpc \in {"open", "connect"})

LEMMA UnsentMoves ==
  ASSUME Typed, [Next]_vars, NEW s \in Sessions, Unsent(s)'
  PROVE  Unsent(s) /\ ~(SendConnect /\ h = s)
<1>1. CASE lsock'[s] = "none"
  <2>1. lsock[s] = "none"
    BY <1>1, SocketsStay
  <2>2. hpc # "accept" => lsock[h] # "none"
    BY DEF Typed, Shapes
  <2> QED
    BY <2>1, <2>2 DEF Unsent, SendConnect
<1>2. CASE h' = s /\ hpc' \in {"open", "connect"}
  BY <1>2, HandMoves DEF handVars, Accept, OpenSession, SendConnect, PumpRead, PumpPiece, PumpPush,
                         PumpEnd, Finish, SendClose, ShutConnection, Refuse, Unsent, lsockVars
<1> QED
  BY <1>1, <1>2 DEF Unsent

(* Where the sessions of a manager come from.                              *)
LEMMA SessMoves ==
  ASSUME Typed, [Next]_vars, NEW e \in Epochs, NEW s \in Sessions
  PROVE  /\ s \in sess'[e] => s \in sess[e] \/ Reads(e, "connect", s)
         /\ at'[s] # at[s] => \E d \in Epochs : Reads(d, "connect", s) /\ at'[s] = d
         /\ Reads(e, "connect", s) => at'[s] = e
<1> USE DEF Typed, AllTypes, ReadTypes
<1>1. CASE UNCHANGED <<sess, at>> /\ ~Reads(e, "connect", s)
  BY <1>1
<1>2. ASSUME NEW d \in Epochs, ReadFrame(d)
      PROVE  /\ s \in sess'[e] => s \in sess[e] \/ Reads(e, "connect", s)
             /\ at'[s] # at[s] => Reads(d, "connect", s) /\ at'[s] = d
             /\ Reads(e, "connect", s) => at'[s] = e
  <2>1. CASE Head(up[d]).t = "connect"
    <3>1. /\ sess' = [sess EXCEPT ![d] = @ \cup {Head(up[d]).s}]
          /\ at' = [at EXCEPT ![Head(up[d]).s] = d]
          /\ rpc[d] = "read" /\ rpc' = [rpc EXCEPT ![d] = "dial"]
      BY <1>2, <2>1 DEF ReadFrame
    <3>2. Reads(e, "connect", s) => e = d
      BY <3>1 DEF Reads, ReadFrame
    <3> QED
      BY <1>2, <2>1, <3>1, <3>2 DEF Reads
  <2>2. CASE Head(up[d]).t # "connect"
    <3>1. /\ at' = at
          /\ sess' = sess \/ sess' = [sess EXCEPT ![d] = @ \ {Head(up[d]).s}]
      BY <1>2, <2>2 DEF ReadFrame
    <3>2. up' = [up EXCEPT ![d] = Tail(up[d])] /\ up[d] # <<>>
      BY <1>2 DEF ReadFrame
    <3>3. ~Reads(e, "connect", s)
      <4>1. SUFFICES ASSUME Reads(e, "connect", s), e # d PROVE FALSE
        BY <2>2 DEF Reads
      <4>2. up'[e] = up[e]
        BY <3>2, <4>1 DEF WireTypes
      <4>3. Len(up[e]) \in Nat /\ Shrunk(up[e], up'[e])
        BY <4>1, ReadsHas
      <4> QED
        BY <4>2, <4>3 DEF Shrunk
    <3> QED
      BY <3>1, <3>3
  <2> QED
    BY <2>1, <2>2
<1>3. ASSUME ~\E d \in Epochs : ReadFrame(d) PROVE at' = at /\ sess'[e] \subseteq sess[e]
  <2>1. CASE UNCHANGED readVars \/ LoopDial
    BY <2>1 DEF readVars, LoopDial
  <2>2. ASSUME NEW d \in Epochs, Dial(d) \/ WriteTarget(d) \/ SendPong(d) \/ SayConnected(d)
        PROVE  UNCHANGED <<at, sess>>
    BY <2>2 DEF Dial, WriteTarget, SendPong, SayConnected
  <2>3. ASSUME NEW d \in Epochs, SayError(d) \/ StopManager(d)
        PROVE  at' = at /\ sess'[e] \subseteq sess[e]
    BY <2>3 DEF SayError, StopManager
  <2>4. ASSUME NEW r \in Sessions, SendData(r) \/ EndSession(r)
        PROVE  at' = at /\ sess'[e] \subseteq sess[e]
    BY <2>4 DEF SendData, EndSession, threadRest
  <2> QED
    BY <1>3, <2>1, <2>2, <2>3, <2>4, ReadMoves
<1> QED
  BY <1>2, <1>3 DEF Reads
(* What a reader has in hand of a session, and since when.                 *)
LEMMA InHandMoves ==
  ASSUME Typed, [Next]_vars, NEW e \in Epochs, NEW s \in Sessions, rframe'[e].s = s
  PROVE  \/ rframe[e].s = s /\ rpc'[e] = rpc[e] /\ ~Dial(e) /\ ~SayError(e) /\ ~SayConnected(e)
         \/ rframe[e].s = s /\ Dial(e)
         \/ Reads(e, "connect", s) /\ rpc'[e] = "dial"
         \/ Reads(e, "data", s) /\ rpc'[e] = "write" /\ s \in sess[e]
<1> USE DEF Typed, AllTypes, ReadTypes
<1>1. s # 0
  BY SystemAssumption
<1>2. CASE rpc'[e] = rpc[e] /\ rframe'[e] = rframe[e]
  <2>1. ~Dial(e) /\ ~SayError(e) /\ ~SayConnected(e)
    BY <1>2 DEF Dial, SayError, SayConnected, ReadOn
  <2> QED
    BY <1>2, <2>1
<1>3. CASE ReadFrame(e)
  <2>1. UpType(Head(up[e]))
    BY <1>3, FrameRead
  <2>2. /\ rframe'[e] = (IF rpc'[e] = "read" THEN NoFrame ELSE Head(up[e]))
        /\ \/ rpc'[e] = "dial" /\ Head(up[e]).t = "connect"
           \/ rpc'[e] = "write" /\ Head(up[e]).t = "data" /\ Head(up[e]).s \in sess[e]
           \/ rpc'[e] = "pong" /\ Head(up[e]).t = "ping"
           \/ rpc'[e] = "read"
    BY <1>3 DEF ReadFrame
  <2> QED
    BY <1>1, <1>3, <2>1, <2>2 DEF UpType, NoFrame, Frame, Reads
<1>4. CASE Dial(e)
  BY <1>4 DEF Dial
<1>5. CASE SayError(e) \/ SayConnected(e) \/ WriteTarget(e) \/ SendPong(e)
  BY <1>1, <1>5 DEF SayError, SayConnected, WriteTarget, SendPong, ReadOn, NoFrame, Frame
<1>6. CASE StopManager(e)
  BY <1>1, <1>6 DEF StopManager, Shapes
<1>7. CASE LoopDial
  <2>1. rframe' = rframe /\ rpc' = [rpc EXCEPT ![ws + 1] = "read"] /\ ws \in Nat
    BY <1>7 DEF LoopDial, WireTypes, Epochs
  <2>2. rpc'[e] = rpc[e] \/ rpc[e] = "none"
    BY <2>1 DEF Shapes
  <2> QED
    BY <1>1, <1>2, <2>1, <2>2 DEF Shapes
<1>8. ASSUME NEW d \in Epochs, d # e, Reader(d) PROVE rpc'[e] = rpc[e] /\ rframe'[e] = rframe[e]
  BY <1>8 DEF Reader, ReadFrame, Dial, SayError, SayConnected, WriteTarget, SendPong, ReadOn,
              StopManager
<1>9. CASE \E r \in Sessions : SendData(r) \/ EndSession(r)
  BY <1>2, <1>9 DEF SendData, EndSession, threadRest
<1> QED
  BY <1>2, <1>3, <1>4, <1>5, <1>6, <1>7, <1>8, <1>9, ReadMoves DEF readVars, Reader

(* The state of the target thread of a session.                            *)
LEMMA ThreadSteps ==
  ASSUME Typed, [Next]_vars, NEW s \in Sessions
  PROVE  \/ tpc'[s] = tpc[s] /\ ~EndSession(s) /\ ~SendData(s) /\ ~SayClose(s) /\ ~ReadTarget(s)
         \/ tpc'[s] = "read" /\ \E e \in Epochs : SayConnected(e) /\ rframe[e].s = s
         \/ tpc[s] = "read" /\ ReadTarget(s) /\ tpc'[s] \in {"send", "end", "gone"}
         \/ tpc[s] = "send" /\ SendData(s) /\ tpc'[s] \in {"read", "gone"}
         \/ tpc[s] = "end" /\ EndSession(s) /\ tpc'[s] \in {"notice", "gone"}
         \/ tpc[s] = "notice" /\ SayClose(s) /\ tpc'[s] = "gone"
<1> USE DEF Typed, AllTypes, ThreadTypes
<1>1. CASE tpc'[s] = tpc[s]
  BY <1>1 DEF EndSession, SendData, SayClose, ReadTarget
<1>2. ASSUME NEW e \in Epochs, SayConnected(e)
      PROVE  tpc'[s] = tpc[s] \/ (tpc'[s] = "read" /\ rframe[e].s = s)
  BY <1>2 DEF SayConnected
<1>3. ASSUME NEW r \in Sessions, r # s, SendData(r) \/ EndSession(r) \/ SayClose(r) \/ ReadTarget(r)
      PROVE  tpc'[s] = tpc[s]
  BY <1>3 DEF SendData, EndSession, SayClose, ReadTarget
<1>4. CASE SendData(s) \/ EndSession(s) \/ SayClose(s) \/ ReadTarget(s)
  BY <1>4 DEF SendData, EndSession, SayClose, ReadTarget
<1> QED
  BY <1>1, <1>2, <1>3, <1>4, ThreadMoves DEF threadVars

(* What the reader of the tunnel has in hand of a session comes from the   *)
(* server, and only an answer opens it.                                    *)
LEMMA LookedUp ==
  ASSUME Typed, [Next]_vars, NEW s \in Sessions
  PROVE  /\ frame'.s = s /\ lpc' \in {"deliver", "greet", "flush", "half", "shut"} =>
              \/ frame.s = s /\ lpc \in {"deliver", "greet", "flush", "half", "shut"}
              \/ OfDown(ws, s)
         /\ opened'[s] => opened[s] \/ HasDown(ws, "connected", s)
<1> DEFINE InHand == /\ frame.s = s
                     /\ lpc \in {"deliver", "greet", "flush", "half", "shut"}
<1>1. ASSUME UNCHANGED loopVars PROVE InHand' => InHand
  BY <1>1 DEF loopVars
<1>2. ASSUME LoopGreet \/ LoopFlush PROVE InHand' => InHand
  BY <1>2 DEF LoopGreet, LoopFlush
<1>3. ASSUME \/ LoopDeliver \/ LoopHalf \/ LoopShut \/ LoopLoss \/ LoopTell \/ LoopMark
             \/ LoopTold \/ LoopDial
      PROVE  ~InHand'
  BY <1>3 DEF LoopDeliver, LoopHalf, LoopShut, LoopLoss, LoopTell, LoopMark, LoopTold, LoopDial
<1>4. ASSUME LoopRead
      PROVE  /\ frame'.s = s => OfDown(ws, s)
             /\ opened'[s] => opened[s] \/ HasDown(ws, "connected", s)
  <2>1. ws \in Epochs /\ Head(down[ws]) = down[ws][1] /\ 1 \in 1 .. Len(down[ws])
    <3>1. down[ws] # <<>> /\ ws \in Epochs /\ down[ws] \in Seq(Frames)
      BY <1>4 DEF LoopRead, Typed, AllTypes, WireTypes
    <3> QED
      BY <3>1, Shrinks
  <2>2. frame' = Head(down[ws]) \/ frame'.s = 0
    BY <1>4 DEF LoopRead, NoFrame, Frame
  <2>3. \/ opened' = opened
        \/ Head(down[ws]).t = "connected" /\ opened' = [opened EXCEPT ![Head(down[ws]).s] = TRUE]
    BY <1>4 DEF LoopRead
  <2>4. opened'[s] => opened[s] \/ (Head(down[ws]).t = "connected" /\ Head(down[ws]).s = s)
    BY <2>3 DEF Typed, AllTypes, ClientTypes
  <2>5. s # 0
    BY SystemAssumption
  <2> QED
    BY <2>1, <2>2, <2>4, <2>5 DEF OfDown, HasDown
<1>5. opened'[s] => opened[s] \/ LoopRead
  BY ClientMoves DEF clientVars, OpenSession, SendConnect, PumpPiece, PumpPush, PumpEnd, Finish,
                     LoopGreet, LoopFlush, LoopHalf, LoopShut, LoopLoss, LoopTell, LoopMark
<1> QED
  BY <1>1, <1>2, <1>3, <1>4, <1>5, LoopMoves
(* The socket to the target of a session is made by the dial, and whoever  *)
(* takes the session out of the map of its manager closes it.              *)
Dialled(s) == \E e \in Epochs : Dial(e) /\ rframe[e].s = s /\ rpc'[e] = "connected"

LEMMA ShutOnly ==
  ASSUME TsockTypes, NEW S \in SUBSET Sessions, ShutTargets(S), NEW s \in Sessions
  PROVE  /\ tsock'[s] = "none" <=> tsock[s] = "none"
         /\ tsock'[s] \in {"open", "half"} => tsock'[s] = tsock[s] /\ s \notin S
<1>1. /\ s \notin S => tsock'[s] = tsock[s]
      /\ tsock[s] \in {"none", "closed", "reset"} => tsock'[s] = tsock[s]
      /\ s \in S /\ tsock[s] \in {"open", "half"} => tsock'[s] \in {"closed", "reset"}
  BY ShutTargetsTypes
<1>2. tsock[s] \in {"none", "open", "half", "closed", "reset"}
  BY DEF TsockTypes
<1> QED
  BY <1>1, <1>2

LEMMA SockSteps ==
  ASSUME Typed, [Next]_vars, NEW s \in Sessions
  PROVE  /\ tsock'[s] = "none" <=> tsock[s] = "none" /\ ~Dialled(s)
         /\ Dialled(s) => tsock'[s] = "open"
         /\ tsock'[s] = "open" => tsock[s] = "open" \/ Dialled(s)
         /\ tsock'[s] = "half" => tsock[s] \in {"open", "half"}
         /\ \A e \in Epochs : s \in sess[e] /\ s \notin sess'[e] =>
              (SayError(e) /\ rframe[e].s = s) \/ tsock'[s] \notin {"open", "half"}
<1> DEFINE Goal == /\ tsock'[s] = "none" <=> tsock[s] = "none" /\ ~Dialled(s)
                   /\ Dialled(s) => tsock'[s] = "open"
                   /\ tsock'[s] = "open" => tsock[s] = "open" \/ Dialled(s)
                   /\ tsock'[s] = "half" => tsock[s] \in {"open", "half"}
                   /\ \A e \in Epochs : s \in sess[e] /\ s \notin sess'[e] =>
                        (SayError(e) /\ rframe[e].s = s) \/ tsock'[s] \notin {"open", "half"}
<1> SUFFICES Goal
  OBVIOUS
<1> HIDE DEF Goal
<1>0. /\ tsock[s] \in {"none", "open", "half", "closed", "reset"}
      /\ tsock \in [Sessions -> {"none", "open", "half", "closed", "reset"}]
      /\ sess \in [Epochs -> SUBSET Sessions] /\ at[s] \in Epochs /\ TsockTypes
      /\ rpc \in [Epochs -> {"none", "read", "dial", "refuse", "connected", "write", "pong",
                            "gone"}]
  BY DEF Typed, AllTypes, TsockTypes, ReadTypes
<1>1. ASSUME NEW e \in Epochs, Dial(e) PROVE Goal
  <2>1. rpc'[e] \in {"connected", "refuse"} /\ UNCHANGED sess /\ rframe[e].s \in Sessions
    BY <1>0, <1>1 DEF Dial, Typed, Shapes
  <2>2. \A d \in Epochs : Dial(d) => d = e
    BY <1>0, <1>1 DEF Dial
  <2>3. Dialled(s) <=> rframe[e].s = s /\ rpc'[e] = "connected"
    BY <1>1, <2>2 DEF Dialled
  <2>4. tsock' = IF rpc'[e] = "connected" THEN [tsock EXCEPT ![rframe[e].s] = "open"] ELSE tsock
    BY <1>0, <1>1 DEF Dial
  <2>5. tsock'[s] = IF Dialled(s) THEN "open" ELSE tsock[s]
    BY <1>0, <2>3, <2>4
  <2> QED
    BY <1>0, <2>1, <2>5 DEF Goal
<1>2. ASSUME ~\E e \in Epochs : Dial(e) PROVE ~Dialled(s)
  BY <1>2 DEF Dialled
<1>3. ASSUME ~\E e \in Epochs : Dial(e), NEW S \in SUBSET Sessions, ShutTargets(S),
             \A e \in Epochs : s \in sess[e] /\ s \notin sess'[e] => s \in S
      PROVE  Goal
  <2>1. /\ tsock'[s] = "none" <=> tsock[s] = "none"
        /\ tsock'[s] \in {"open", "half"} => tsock'[s] = tsock[s] /\ s \notin S
    BY <1>0, <1>3, ShutOnly
  <2> QED
    BY <1>2, <1>3, <2>1 DEF Goal
<1>4. ASSUME ~\E e \in Epochs : Dial(e), tsock'[s] = tsock[s],
             \A e \in Epochs : s \in sess[e] => s \in sess'[e]
      PROVE  Goal
  BY <1>0, <1>2, <1>4 DEF Goal
<1>5. ASSUME ~\E e \in Epochs : Dial(e), NEW d \in Epochs, ReadFrame(d) PROVE Goal
  <2>1. CASE Head(up[d]).t = "close" /\ Head(up[d]).s \in sess[d]
    <3>1. sess' = [sess EXCEPT ![d] = @ \ {Head(up[d]).s}] /\ ShutTargets({Head(up[d]).s})
      BY <1>5, <2>1 DEF ReadFrame
    <3>2. {Head(up[d]).s} \in SUBSET Sessions
      BY <1>0, <2>1
    <3>3. \A e \in Epochs : s \in sess[e] /\ s \notin sess'[e] => s \in {Head(up[d]).s}
      BY <1>0, <3>1
    <3> QED
      BY <1>3, <1>5, <3>1, <3>2, <3>3
  <2>2. CASE Head(up[d]).t = "half" /\ Head(up[d]).s \in sess[d]
    <3>1. /\ sess' = sess
          /\ tsock' = [tsock EXCEPT ![Head(up[d]).s] = IF @ = "open" THEN "half" ELSE @]
      BY <1>5, <2>2 DEF ReadFrame
    <3>2. tsock'[s] = tsock[s] \/ (tsock[s] = "open" /\ tsock'[s] = "half")
      BY <1>0, <3>1
    <3> QED
      BY <1>0, <1>2, <1>5, <3>1, <3>2 DEF Goal
  <2>3. CASE ~(Head(up[d]).t \in {"half", "close"} /\ Head(up[d]).s \in sess[d])
    <3>1. /\ UNCHANGED tsockVars
          /\ sess' = sess \/ sess' = [sess EXCEPT ![d] = @ \cup {Head(up[d]).s}]
      BY <1>5, <2>3 DEF ReadFrame
    <3> QED
      BY <1>0, <1>4, <1>5, <3>1 DEF tsockVars
  <2> QED
    BY <2>1, <2>2, <2>3
<1>6. ASSUME ~\E e \in Epochs : Dial(e), NEW d \in Epochs, StopManager(d) PROVE Goal
  <2>1. sess' = [sess EXCEPT ![d] = {}] /\ ShutTargets(sess[d])
    BY <1>6 DEF StopManager
  <2>2. \A e \in Epochs : s \in sess[e] /\ s \notin sess'[e] => s \in sess[d]
    BY <1>0, <2>1
  <2> QED
    BY <1>0, <1>3, <1>6, <2>1, <2>2
<1>7. ASSUME ~\E e \in Epochs : Dial(e), NEW r \in Sessions, SendData(r) \/ EndSession(r) PROVE Goal
  <2>1. \/ UNCHANGED <<sess, tsockVars>>
        \/ /\ sess' = [sess EXCEPT ![at[r]] = @ \ {r}]
           /\ IF r \in sess[at[r]] THEN ShutTargets({r}) ELSE UNCHANGED tsockVars
    BY <1>7 DEF SendData, EndSession
  <2>2. CASE UNCHANGED <<sess, tsockVars>>
    BY <1>4, <1>7, <2>2 DEF tsockVars
  <2>3. CASE /\ sess' = [sess EXCEPT ![at[r]] = @ \ {r}] /\ r \in sess[at[r]]
             /\ ShutTargets({r})
    <3>1. \A e \in Epochs : s \in sess[e] /\ s \notin sess'[e] => s \in {r}
      BY <1>0, <2>3
    <3> QED
      BY <1>3, <1>7, <2>3, <3>1
  <2>4. CASE /\ sess' = [sess EXCEPT ![at[r]] = @ \ {r}] /\ r \notin sess[at[r]]
             /\ UNCHANGED tsockVars
    <3>1. \A e \in Epochs : s \in sess[e] => s \in sess'[e]
      BY <1>0, <2>4
    <3> QED
      BY <1>4, <1>7, <2>4, <3>1 DEF tsockVars
  <2> QED
    BY <2>1, <2>2, <2>3, <2>4
<1>8. ASSUME ~\E e \in Epochs : Dial(e), NEW d \in Epochs,
             WriteTarget(d) \/ SendPong(d) \/ SayConnected(d)
      PROVE  Goal
  BY <1>4, <1>8 DEF WriteTarget, SendPong, SayConnected, tsockVars
<1>9. ASSUME ~\E e \in Epochs : Dial(e), NEW d \in Epochs, SayError(d) PROVE Goal
  <2>1. UNCHANGED tsock /\ sess' = [sess EXCEPT ![d] = @ \ {rframe[d].s}]
    BY <1>9 DEF SayError, tsockVars
  <2>2. \A e \in Epochs : s \in sess[e] /\ s \notin sess'[e] => SayError(e) /\ rframe[e].s = s
    BY <1>0, <1>9, <2>1
  <2> QED
    BY <1>0, <1>2, <1>9, <2>1, <2>2 DEF Goal
<1>10. ASSUME ~\E e \in Epochs : Dial(e), NEW r \in Sessions,
              ReadTarget(r) \/ TargetSends(r) \/ TargetReads(r)
       PROVE  Goal
  BY <1>4, <1>10 DEF ReadTarget, TargetSends, TargetReads, threadRest, readVars
<1>11. ASSUME ~\E e \in Epochs : Dial(e), NEW r \in Sessions, TargetSendsLate(r) PROVE Goal
  <2>1. UNCHANGED sess /\ tsock[r] = "closed" /\ tsock' = [tsock EXCEPT ![r] = "reset"]
    BY <1>11 DEF TargetSendsLate, readVars
  <2>2. tsock'[s] = tsock[s] \/ (tsock[s] = "closed" /\ tsock'[s] = "reset")
    BY <1>0, <2>1
  <2> QED
    BY <1>0, <1>2, <1>11, <2>1, <2>2 DEF Goal
<1>12. ASSUME ~\E e \in Epochs : Dial(e), UNCHANGED tsockVars, UNCHANGED readVars \/ LoopDial
       PROVE  Goal
  BY <1>4, <1>12 DEF LoopDial, tsockVars, readVars
<1> QED
  BY <1>1, <1>5, <1>6, <1>7, <1>8, <1>9, <1>10, <1>11, <1>12, TsockMoves, ReadMoves
(* Who ends what: a session in a map, an open socket, a connect.           *)
LEMMA SessLeaves ==
  ASSUME Typed, [Next]_vars, NEW e \in Epochs, NEW s \in Sessions, s \in sess[e], s \notin sess'[e]
  PROVE  \/ rpc[e] = "read"
         \/ SayError(e) /\ rframe[e].s = s
         \/ at[s] = e /\ tpc[s] \in {"send", "end"}
<1>0. sess \in [Epochs -> SUBSET Sessions] /\ \A r \in Sessions : at[r] \in Epochs
  BY DEF Typed, AllTypes, ReadTypes
<1>1. ASSUME NEW d \in Epochs, ReadFrame(d) \/ StopManager(d) PROVE rpc[e] = "read"
  BY <1>0, <1>1 DEF ReadFrame, StopManager
<1>2. ASSUME NEW d \in Epochs, SayError(d) PROVE SayError(e) /\ rframe[e].s = s
  BY <1>0, <1>2 DEF SayError
<1>3. ASSUME NEW d \in Epochs, Dial(d) \/ SayConnected(d) \/ WriteTarget(d) \/ SendPong(d)
      PROVE  FALSE
  BY <1>3 DEF Dial, SayConnected, WriteTarget, SendPong
<1>4. ASSUME NEW r \in Sessions, SendData(r) \/ EndSession(r)
      PROVE  at[s] = e /\ tpc[s] \in {"send", "end"}
  BY <1>0, <1>4 DEF SendData, EndSession
<1>5. ~UNCHANGED readVars /\ ~LoopDial
  BY DEF readVars, LoopDial
<1> QED
  BY <1>1, <1>2, <1>3, <1>4, <1>5, ReadMoves

LEMMA SockLeaves ==
  ASSUME Typed, [Next]_vars, NEW s \in Sessions, tsock[s] = "open", tsock'[s] # "open"
  PROVE  \/ \E d \in Epochs : rpc[d] = "read" /\ s \in sess[d]
         \/ tpc[s] \in {"send", "end"}
<1>0. /\ tsock \in [Sessions -> {"none", "open", "half", "closed", "reset"}] /\ TsockTypes
      /\ sess \in [Epochs -> SUBSET Sessions] /\ \A r \in Sessions : at[r] \in Epochs
  BY DEF Typed, AllTypes, TsockTypes, ReadTypes
<1>1. ASSUME NEW S \in SUBSET Sessions, ShutTargets(S) PROVE s \in S
  <2>1. s \notin S => tsock'[s] = tsock[s]
    BY <1>0, <1>1, ShutTargetsTypes
  <2> QED
    BY <2>1
<1>2. ASSUME NEW d \in Epochs, ReadFrame(d) PROVE rpc[d] = "read" /\ s \in sess[d]
  <2>1. CASE ShutTargets({Head(up[d]).s}) /\ Head(up[d]).s \in sess[d]
    <3>1. {Head(up[d]).s} \in SUBSET Sessions
      BY <1>0, <2>1
    <3> QED
      BY <1>1, <1>2, <2>1, <3>1 DEF ReadFrame
  <2>2. CASE /\ tsock' = [tsock EXCEPT ![Head(up[d]).s] = IF @ = "open" THEN "half" ELSE @]
             /\ Head(up[d]).s \in sess[d]
    <3>1. s = Head(up[d]).s
      BY <1>0, <2>2
    <3> QED
      BY <1>2, <2>2, <3>1 DEF ReadFrame
  <2>3. ~UNCHANGED tsockVars
    BY DEF tsockVars
  <2> QED
    BY <1>2, <2>1, <2>2, <2>3 DEF ReadFrame
<1>3. ASSUME NEW d \in Epochs, StopManager(d) PROVE rpc[d] = "read" /\ s \in sess[d]
  BY <1>0, <1>1, <1>3 DEF StopManager
<1>4. ASSUME NEW r \in Sessions, SendData(r) \/ EndSession(r) PROVE tpc[s] \in {"send", "end"}
  <2>1. ShutTargets({r}) \/ UNCHANGED tsockVars
    BY <1>4 DEF SendData, EndSession
  <2>2. r = s
    BY <1>1, <2>1 DEF tsockVars
  <2> QED
    BY <1>4, <2>2 DEF SendData, EndSession
<1>5. ASSUME NEW d \in Epochs, Dial(d) \/ WriteTarget(d) PROVE FALSE
  BY <1>0, <1>5 DEF Dial, WriteTarget
<1>6. ASSUME NEW r \in Sessions, \/ ReadTarget(r) \/ TargetSends(r) \/ TargetSendsLate(r)
                                 \/ TargetReads(r)
      PROVE  FALSE
  BY <1>0, <1>6 DEF ReadTarget, TargetSends, TargetSendsLate, TargetReads
<1>7. ~UNCHANGED tsockVars
  BY DEF tsockVars
<1> QED
  BY <1>2, <1>3, <1>4, <1>5, <1>6, <1>7, TsockMoves

LEMMA ReaderLeaves ==
  ASSUME Typed, [Next]_vars, NEW e \in Epochs, rpc[e] \in {"dial", "refuse", "connected"}
  PROVE  \/ rpc'[e] = rpc[e] /\ rframe'[e] = rframe[e]
         \/ Dial(e) /\ rpc'[e] \in {"refuse", "connected"} /\ rframe'[e] = rframe[e]
         \/ SayError(e) \/ SayConnected(e)
<1> USE DEF Typed, AllTypes, ReadTypes
<1>1. CASE UNCHANGED readVars
  BY <1>1 DEF readVars
<1>2. CASE LoopDial
  <2>1. rframe' = rframe /\ rpc' = [rpc EXCEPT ![ws + 1] = "read"] /\ ws \in Nat
    BY <1>2 DEF LoopDial, WireTypes, Epochs
  <2> QED
    BY <2>1 DEF Shapes
<1>3. ASSUME NEW d \in Epochs, d # e, Reader(d) PROVE rpc'[e] = rpc[e] /\ rframe'[e] = rframe[e]
  BY <1>3 DEF Reader, ReadFrame, Dial, SayError, SayConnected, WriteTarget, SendPong, ReadOn,
              StopManager
<1>4. ~ReadFrame(e) /\ ~WriteTarget(e) /\ ~SendPong(e) /\ ~StopManager(e)
  BY DEF ReadFrame, WriteTarget, SendPong, StopManager
<1>5. CASE Dial(e)
  BY <1>5 DEF Dial
<1>6. CASE \E r \in Sessions : SendData(r) \/ EndSession(r)
  BY <1>6 DEF SendData, EndSession, threadRest
<1> QED
  BY <1>1, <1>2, <1>3, <1>4, <1>5, <1>6, ReadMoves DEF Reader

LEMMA SameConnection ==
  ASSUME Typed, Linked, [Next]_vars, NEW s \in Sessions, ~Unsent(s), ~cut'[s]
  PROVE  ws' = ws /\ ~cut[s]
<1>1. ~cut[s]
  BY CutKept
<1>2. link[ws] # "lost"
  BY <1>1 DEF Linked, Unsent
<1>3. ~LoopDial
  BY <1>2 DEF LoopDial, Linked, Usable
<1> QED
  BY <1>1, <1>3, LinkMoves DEF Lose
(* Nothing has come back of the session yet ...                            *)
Unanswered(s) ==
  /\ \A d \in Epochs : ~OfDown(d, s)
  /\ tpc[s] = "unborn" /\ ~opened[s]
  /\ frame.s = s => lpc \notin {"deliver", "greet", "flush", "half", "shut"}

(* ... and the server has not heard of it either.                          *)
Unheard(s) ==
  /\ Unanswered(s) /\ tsock[s] = "none"
  /\ \A d \in Epochs : s \notin sess[d] /\ rframe[d].s # s

LEMMA UnansweredKept ==
  ASSUME Typed, [Next]_vars, NEW s \in Sessions, Unanswered(s),
         \A e \in Epochs : rframe[e].s = s => ~SayError(e) /\ ~SayConnected(e)
  PROVE  Unanswered(s)'
<1>1. s # 0 /\ ws \in Epochs
  BY SystemAssumption DEF Typed, AllTypes, WireTypes
<1>2. ASSUME NEW d \in Epochs, OfDown(d, s)' PROVE FALSE
  <2>1. PICK f \in Frames : Says(d, f) /\ f.s = s
    BY <1>2, DownChanges DEF Unanswered
  <2>2. ~SayClose(s) /\ tpc[s] # "send"
    BY DEF Unanswered, SayClose
  <2> QED
    BY <1>1, <2>1, <2>2, Speakers
<1>3. tpc'[s] = "unborn"
  BY ThreadSteps DEF Unanswered
<1>4. ~HasDown(ws, "connected", s) /\ ~OfDown(ws, s)
  BY <1>1 DEF Unanswered, HasDown, OfDown
<1>5. /\ ~opened'[s]
      /\ frame'.s = s => lpc' \notin {"deliver", "greet", "flush", "half", "shut"}
  BY <1>4, LookedUp DEF Unanswered
<1> QED
  BY <1>2, <1>3, <1>5 DEF Unanswered

LEMMA UnheardKept ==
  ASSUME Typed, [Next]_vars, NEW s \in Sessions, Unheard(s),
         \A e \in Epochs : ~Reads(e, "connect", s)
  PROVE  Unheard(s)'
<1>1. Unanswered(s)'
  BY UnansweredKept DEF Unheard
<1>2. tsock'[s] = "none"
  BY SockSteps DEF Unheard, Dialled
<1>3. ASSUME NEW d \in Epochs PROVE s \notin sess'[d] /\ rframe'[d].s # s
  BY SessMoves, InHandMoves DEF Unheard
<1> QED
  BY <1>1, <1>2, <1>3 DEF Unheard

(* The connect of a session comes first of all that is sent of it.         *)
Leads(e, s) == \A i, j \in 1 .. Len(up[e]) :
  up[e][i].t = "connect" /\ up[e][i].s = s /\ up[e][j].s = s => i <= j

Announced(s) ==
  /\ Unsent(s) => Unheard(s) /\ \A d \in Epochs : ~OfUp(d, s)
  /\ \A e \in Epochs : HasUp(e, "connect", s) =>
       /\ Unheard(s) /\ \A d \in Epochs : HasUp(d, "connect", s) => d = e
       /\ ~cut[s] => e = ws
       /\ Leads(e, s)

(* A manager that knows the session is the only one, and on the last       *)
(* connection unless the session is cut.                                   *)
AtHome(s) ==
  /\ \A e \in Epochs : s \in sess[e] => at[s] = e /\ (~cut[s] => e = ws)
  /\ tsock[s] \in {"open", "half"} => s \in sess[at[s]]
  /\ tsock[s] = "none" => \A e \in Epochs : s \in sess[e] =>
       rpc[e] \in {"dial", "refuse"} /\ rframe[e].s = s

(* The reader that connects to the target of a session, or writes to it.   *)
InHand(e, s) ==
  /\ rpc[e] \in {"dial", "refuse", "connected"} /\ rframe[e].s = s =>
       /\ Unanswered(s) /\ s \in sess[e]
       /\ tsock[s] = (IF rpc[e] = "connected" THEN "open" ELSE "none")
       /\ rpc[e] = "refuse" => cut[s]
       /\ \A d \in Epochs : rframe[d].s = s => d = e
  /\ rpc[e] = "write" /\ rframe[e].s = s => at[s] = e /\ tsock[s] # "none"

(* The thread of a session, and what is said of its end.                   *)
Told(s) ==
  /\ tpc[s] # "unborn" => tsock[s] # "none"
  /\ tpc[s] = "notice" => \A d \in Epochs : s \notin sess[d]
  /\ \A e \in Epochs : HasDown(e, "close", s) =>
       tpc[s] = "gone" /\ \A d \in Epochs : s \notin sess[d]
  /\ \A e \in Epochs : HasDown(e, "error", s) => cut[s] /\ \A d \in Epochs : s \notin sess[d]

Traced == \A s \in Sessions :
  Announced(s) /\ AtHome(s) /\ Told(s) /\ \A e \in Epochs : InHand(e, s)

LEMMA Connecting ==
  ASSUME Typed, NEW f \in Frames, Puts(f), NEW s \in Sessions, f.s = s, f.t = "connect"
  PROVE  Unsent(s) /\ SendConnect /\ h = s /\ hpc' = "pump"
<1>1. f.s # 0
  BY SystemAssumption
<1> QED
  BY <1>1, Putters DEF Unsent

LEMMA NothingUp ==
  ASSUME Typed, [Next]_vars, NEW s \in Sessions, Announced(s), Unsent(s), ~(SendConnect /\ h = s),
         NEW d \in Epochs
  PROVE  ~OfUp(d, s)'
<1>1. SUFFICES ASSUME NEW f \in Frames, Puts(f), f.s = s PROVE FALSE
  BY UpChanges DEF Announced
<1>2. s # 0 /\ ~(h = s /\ hpc \in {"push", "end", "notify"})
      /\ (frame.s = s => lpc \notin {"greet", "flush", "half"})
  <2>1. hpc # "accept" => lsock[h] # "none"
    BY DEF Typed, Shapes
  <2> QED
    BY <2>1, SystemAssumption DEF Announced, Unheard, Unanswered, Unsent
<1> QED
  BY <1>1, <1>2, Putters

LEMMA LeadsKept ==
  ASSUME Typed, [Next]_vars, NEW s \in Sessions, Announced(s), NEW e \in Epochs,
         HasUp(e, "connect", s)
  PROVE  Leads(e, s)'
<1>1. Len(up[e]) \in Nat /\ Len(up'[e]) \in Nat /\ UpMove(e) /\ Leads(e, s)
  BY Lengths, UpMoves DEF Announced
<1>2. ~Unsent(s)
  BY DEF Announced, HasUp, OfUp
<1>3. CASE up'[e] = up[e]
  BY <1>1, <1>3 DEF Leads
<1>4. ASSUME NEW f \in Frames, Puts(f), Grown(up[e], up'[e], f) PROVE Leads(e, s)'
  <2>1. ~(f.t = "connect" /\ f.s = s)
    BY <1>2, <1>4, Connecting
  <2>2. \A i \in 1 .. Len(up'[e]) : up'[e][i].t = "connect" /\ up'[e][i].s = s =>
          i \in 1 .. Len(up[e]) /\ up'[e][i] = up[e][i]
    BY <1>1, <1>4, <2>1 DEF Grown
  <2>3. \A j \in 1 .. Len(up'[e]) :
          j = Len(up[e]) + 1 \/ (j \in 1 .. Len(up[e]) /\ up'[e][j] = up[e][j])
    BY <1>1, <1>4 DEF Grown
  <2>4. SUFFICES ASSUME NEW i \in 1 .. Len(up'[e]), NEW j \in 1 .. Len(up'[e]),
                        up'[e][i].t = "connect", up'[e][i].s = s, up'[e][j].s = s
                 PROVE  i <= j
    BY DEF Leads
  <2>5. i \in 1 .. Len(up[e]) /\ up'[e][i] = up[e][i]
    BY <2>2, <2>4
  <2>6. CASE j = Len(up[e]) + 1
    BY <1>1, <2>5, <2>6
  <2>7. CASE j \in 1 .. Len(up[e]) /\ up'[e][j] = up[e][j]
    BY <1>1, <2>4, <2>5, <2>7 DEF Leads
  <2> QED
    BY <2>3, <2>6, <2>7
<1>5. CASE Shrunk(up[e], up'[e])
  <2>1. \A i \in 1 .. Len(up'[e]) : i + 1 \in 1 .. Len(up[e]) /\ up'[e][i] = up[e][i + 1]
    BY <1>1, <1>5 DEF Shrunk
  <2>2. SUFFICES ASSUME NEW i \in 1 .. Len(up'[e]), NEW j \in 1 .. Len(up'[e]),
                        up'[e][i].t = "connect", up'[e][i].s = s, up'[e][j].s = s
                 PROVE  i <= j
    BY DEF Leads
  <2>3. i + 1 <= j + 1
    BY <1>1, <2>1, <2>2 DEF Leads
  <2> QED
    BY <1>1, <2>3
<1>6. CASE Cropped(up[e], up'[e])
  <2>1. \A i \in 1 .. Len(up'[e]) : i \in 1 .. Len(up[e]) /\ up'[e][i] = up[e][i]
    BY <1>1, <1>6 DEF Cropped
  <2> QED
    BY <1>1, <2>1 DEF Leads
<1> QED
  BY <1>1, <1>3, <1>4, <1>5, <1>6 DEF UpMove

(* A connect that is read is read once.                                    *)
LEMMA ConnectRead ==
  ASSUME Typed, [Next]_vars, NEW s \in Sessions, Announced(s), NEW e \in Epochs,
         Reads(e, "connect", s), NEW d \in Epochs
  PROVE  ~HasUp(d, "connect", s)'
<1>1. HasUp(e, "connect", s) /\ Len(up[e]) \in Nat /\ Shrunk(up[e], up'[e]) /\ up[e][1].s = s
  BY ReadsHas
<1>2. Unheard(s) /\ Leads(e, s) /\ \A c \in Epochs : HasUp(c, "connect", s) => c = e
  BY <1>1 DEF Announced
<1>3. ~Unsent(s)
  BY <1>1 DEF Announced, HasUp, OfUp
<1>4. CASE d # e
  BY <1>2, <1>3, <1>4, UpChanges, Connecting DEF Types
<1>5. CASE d = e
  <2>1. SUFFICES ASSUME NEW i \in 1 .. Len(up'[e]), up'[e][i].t = "connect", up'[e][i].s = s
                 PROVE  FALSE
    BY <1>5 DEF HasUp
  <2>2. i + 1 \in 1 .. Len(up[e]) /\ 1 \in 1 .. Len(up[e]) /\ up'[e][i] = up[e][i + 1]
    BY <1>1, <2>1 DEF Shrunk
  <2>3. i + 1 <= 1
    BY <1>1, <1>2, <2>1, <2>2 DEF Leads
  <2> QED
    BY <2>3
<1> QED
  BY <1>4, <1>5

LEMMA AnnouncedKept ==
  ASSUME Typed, Linked, [Next]_vars, NEW s \in Sessions, Announced(s)
  PROVE  Announced(s)'
<1>1. ASSUME Unsent(s)' PROVE Unheard(s)' /\ \A d \in Epochs : ~OfUp(d, s)'
  <2>1. Unsent(s) /\ ~(SendConnect /\ h = s)
    BY <1>1, UnsentMoves
  <2>2. \A d \in Epochs : ~Reads(d, "connect", s)
    BY <2>1, ReadsHas DEF Announced, HasUp, OfUp
  <2> QED
    BY <2>1, <2>2, UnheardKept, NothingUp DEF Announced
<1>2. ASSUME NEW e \in Epochs, HasUp(e, "connect", s)', HasUp(e, "connect", s)
      PROVE  /\ Unheard(s)' /\ \A d \in Epochs : HasUp(d, "connect", s)' => d = e
             /\ ~cut'[s] => e = ws'
             /\ Leads(e, s)'
  <2>1. ~Unsent(s)
    BY <1>2 DEF Announced, HasUp, OfUp
  <2>2. ASSUME NEW d \in Epochs, HasUp(d, "connect", s)' PROVE d = e
    BY <1>2, <2>1, <2>2, UpChanges, Connecting DEF Announced, Types
  <2>3. Unheard(s)'
    <3>1. \A d \in Epochs : ~Reads(d, "connect", s)
      BY <1>2, ConnectRead
    <3> QED
      BY <1>2, <3>1, UnheardKept DEF Announced
  <2>4. ~cut'[s] => e = ws'
    BY <1>2, <2>1, SameConnection DEF Announced
  <2> QED
    BY <1>2, <2>2, <2>3, <2>4, LeadsKept
<1>3. ASSUME NEW e \in Epochs, HasUp(e, "connect", s)', ~HasUp(e, "connect", s)
      PROVE  /\ Unheard(s)' /\ \A d \in Epochs : HasUp(d, "connect", s)' => d = e
             /\ ~cut'[s] => e = ws'
             /\ Leads(e, s)'
  <2>1. e = ws /\ Unsent(s) /\ SendConnect /\ h = s /\ hpc' = "pump"
    BY <1>3, UpChanges, Connecting DEF Types
  <2>2. Unheard(s) /\ \A d \in Epochs : ~OfUp(d, s)
    BY <2>1 DEF Announced
  <2>3. \A d \in Epochs : ~Reads(d, "connect", s)
    BY <2>2, ReadsHas DEF HasUp, OfUp
  <2>4. Unheard(s)'
    BY <2>2, <2>3, UnheardKept
  <2>5. \A d \in Epochs : HasUp(d, "connect", s)' => d = e
    <3>1. \A d \in Epochs : ~HasUp(d, "connect", s)
      BY <2>2 DEF HasUp, OfUp
    <3> QED
      BY <2>1, <3>1, UpChanges DEF Types
  <2>6. ws' = ws
    BY <2>1 DEF SendConnect
  <2>7. Leads(e, s)'
    <3>1. Len(up[e]) \in Nat /\ Len(up'[e]) \in Nat /\ UpMove(e) /\ ~OfUp(e, s)
      BY <2>2, Lengths, UpMoves
    <3>2. \A i \in 1 .. Len(up'[e]) : up'[e][i].s = s => i = Len(up[e]) + 1
      <4>1. ~ReadFrame(e) /\ ~Lose
        <5>1. hpc = "connect" /\ hpc' = "pump"
          BY <2>1 DEF SendConnect
        <5> QED
          BY <5>1 DEF ReadFrame, readRest, handVars, Lose
      <4>2. up'[e] = up[e] \/ \E f \in Frames : Grown(up[e], up'[e], f)
        BY <3>1, <4>1 DEF UpMove
      <4>3. \A i \in 1 .. Len(up'[e]) :
              i = Len(up[e]) + 1 \/ (i \in 1 .. Len(up[e]) /\ up'[e][i] = up[e][i])
        BY <3>1, <4>2 DEF Grown
      <4> QED
        BY <3>1, <4>3 DEF OfUp
    <3> QED
      BY <3>1, <3>2 DEF Leads
  <2> QED
    BY <2>1, <2>4, <2>5, <2>6, <2>7
<1> QED
  BY <1>1, <1>2, <1>3 DEF Announced

(* Whose connect is read, of nothing else is known.                        *)
LEMMA FirstRead ==
  ASSUME Typed, NEW s \in Sessions, Announced(s), NEW e \in Epochs, Reads(e, "connect", s)
  PROVE  /\ Unheard(s) /\ ~Unsent(s) /\ (~cut[s] => e = ws)
         /\ \A d \in Epochs : HasUp(d, "connect", s) => d = e
<1>1. HasUp(e, "connect", s)
  BY ReadsHas
<1> QED
  BY <1>1 DEF Announced, HasUp, OfUp

LEMMA AtHomeKept ==
  ASSUME Typed, Linked, [Next]_vars, NEW s \in Sessions, Announced(s), AtHome(s),
         \A e \in Epochs : InHand(e, s)
  PROVE  AtHome(s)'
<1>0. at \in [Sessions -> Epochs] /\ at' \in [Sessions -> Epochs]
      /\ tsock[s] \in {"none", "open", "half", "closed", "reset"}
  BY ReadKept DEF Typed, AllTypes, ReadTypes, TsockTypes
<1>1. ASSUME NEW e \in Epochs, s \in sess'[e] PROVE at'[s] = e /\ (~cut'[s] => e = ws')
  <2>1. CASE s \in sess[e]
    <3>1. ~Unsent(s) /\ \A d \in Epochs : ~Reads(d, "connect", s)
      BY <2>1, FirstRead DEF Announced, Unheard
    <3>2. at'[s] = at[s]
      BY <3>1, SessMoves
    <3> QED
      BY <2>1, <3>1, <3>2, SameConnection DEF AtHome
  <2>2. CASE Reads(e, "connect", s)
    BY <2>2, FirstRead, SessMoves, SameConnection
  <2> QED
    BY <1>1, <2>1, <2>2, SessMoves
<1>2. ASSUME tsock'[s] \in {"open", "half"} PROVE s \in sess'[at'[s]]
  <2>1. CASE Dialled(s)
    <3>1. PICK e \in Epochs : Dial(e) /\ rframe[e].s = s
      BY <2>1 DEF Dialled
    <3>2. s \in sess[e] /\ at[s] = e
      BY <3>1 DEF Dial, InHand, AtHome
    <3> QED
      BY <3>1, <3>2 DEF Dial
  <2>2. CASE ~Dialled(s)
    <3>1. tsock[s] \in {"open", "half"} /\ s \in sess[at[s]]
      BY <1>0, <1>2, <2>2, SockSteps DEF AtHome
    <3>2. \A d \in Epochs : ~Reads(d, "connect", s)
      BY <3>1, FirstRead DEF Unheard
    <3>3. at'[s] = at[s] /\ at[s] \in Epochs
      BY <1>0, <3>2, SessMoves
    <3>4. ~(SayError(at[s]) /\ rframe[at[s]].s = s)
      BY <1>0, <3>1 DEF SayError, InHand
    <3> QED
      BY <1>2, <3>1, <3>3, <3>4, SockSteps
  <2> QED
    BY <2>1, <2>2
<1>3. ASSUME tsock'[s] = "none", NEW e \in Epochs, s \in sess'[e]
      PROVE  rpc'[e] \in {"dial", "refuse"} /\ rframe'[e].s = s
  <2>1. tsock[s] = "none" /\ ~Dialled(s)
    BY <1>3, SockSteps
  <2>2. CASE Reads(e, "connect", s)
    BY <2>2 DEF Reads, ReadFrame, Typed, AllTypes, ReadTypes
  <2>3. CASE s \in sess[e]
    <3>1. rpc[e] \in {"dial", "refuse"} /\ rframe[e].s = s /\ at[s] = e
      BY <2>1, <2>3 DEF AtHome
    <3>2. ~SayConnected(e) /\ ~(Dial(e) /\ rpc'[e] = "connected")
      BY <2>1, <3>1 DEF SayConnected, Dialled
    <3>3. ~SayError(e)
      BY <1>3, <3>1 DEF SayError, Typed, AllTypes, ReadTypes
    <3> QED
      BY <3>1, <3>2, <3>3, ReaderLeaves
  <2> QED
    BY <1>3, <2>2, <2>3, SessMoves
<1> QED
  BY <1>1, <1>2, <1>3 DEF AtHome

LEMMA InHandKept ==
  ASSUME Typed, Linked, [Next]_vars, NEW s \in Sessions, Announced(s), AtHome(s),
         \A e \in Epochs : InHand(e, s), NEW e \in Epochs
  PROVE  InHand(e, s)'
<1>0. cut[s] => cut'[s]
  BY CutKept
<1>1. ASSUME rpc'[e] \in {"dial", "refuse", "connected"}, rframe'[e].s = s
      PROVE  /\ Unanswered(s)' /\ s \in sess'[e]
             /\ tsock'[s] = (IF rpc'[e] = "connected" THEN "open" ELSE "none")
             /\ rpc'[e] = "refuse" => cut'[s]
             /\ \A d \in Epochs : rframe'[d].s = s => d = e
  <2>1. CASE rframe[e].s = s /\ rpc'[e] = rpc[e] /\ ~Dial(e) /\ ~SayError(e) /\ ~SayConnected(e)
    <3>1. /\ Unanswered(s) /\ s \in sess[e]
          /\ tsock[s] = (IF rpc[e] = "connected" THEN "open" ELSE "none")
          /\ rpc[e] = "refuse" => cut[s]
          /\ \A d \in Epochs : rframe[d].s = s => d = e
      BY <1>1, <2>1 DEF InHand
    <3>2. Unanswered(s)'
      BY <2>1, <3>1, UnansweredKept
    <3>3. at[s] = e /\ (\A d \in Epochs : s \in sess[d] => d = e) /\ tpc[s] = "unborn"
      BY <3>1 DEF AtHome, Unanswered
    <3>4. s \in sess'[e]
      BY <1>1, <2>1, <3>1, <3>3, SessLeaves
    <3>5. ~Dialled(s)
      BY <2>1, <3>1 DEF Dialled
    <3>6. tsock'[s] = tsock[s]
      <4>1. CASE tsock[s] = "none"
        BY <3>5, <4>1, SockSteps
      <4>2. CASE tsock[s] = "open"
        BY <1>1, <2>1, <3>3, <4>2, SockLeaves
      <4> QED
        BY <3>1, <4>1, <4>2
    <3>7. \A d \in Epochs : rframe'[d].s = s => d = e
      <4>1. \A d \in Epochs : ~Reads(d, "connect", s)
        BY <3>1, FirstRead DEF Unheard
      <4> QED
        BY <3>1, <3>3, <4>1, InHandMoves
    <3> QED
      BY <1>0, <2>1, <3>1, <3>2, <3>4, <3>6, <3>7
  <2>2. CASE rframe[e].s = s /\ Dial(e)
    <3>1. /\ Unanswered(s) /\ s \in sess[e] /\ tsock[s] = "none" /\ rpc[e] = "dial"
          /\ \A d \in Epochs : rframe[d].s = s => d = e
      BY <2>2 DEF InHand, Dial
    <3>2. Unanswered(s)'
      <4>1. ~SayError(e) /\ ~SayConnected(e)
        BY <3>1 DEF SayError, SayConnected
      <4> QED
        BY <3>1, <4>1, UnansweredKept
    <3>3. /\ sess' = sess /\ rframe' = rframe
          /\ rpc'[e] \in {"refuse", "connected"} /\ (rpc'[e] = "refuse" => cut'[s])
      BY <2>2 DEF Dial, Typed, AllTypes, ReadTypes, CutTypes
    <3>4. Dialled(s) <=> rpc'[e] = "connected"
      BY <2>2, <3>1 DEF Dialled
    <3>5. tsock'[s] = IF rpc'[e] = "connected" THEN "open" ELSE "none"
      BY <3>1, <3>4, SockSteps
    <3> QED
      BY <3>1, <3>2, <3>3, <3>5
  <2>3. CASE Reads(e, "connect", s) /\ rpc'[e] = "dial"
    <3>1. Unheard(s) /\ \A d \in Epochs : HasUp(d, "connect", s) => d = e
      BY <2>3, FirstRead
    <3>2. Unanswered(s)'
      BY <3>1, UnansweredKept DEF Unheard
    <3>3. tsock'[s] = "none"
      BY <3>1, SockSteps DEF Unheard, Dialled
    <3>4. s \in sess'[e]
      BY <2>3 DEF Reads, ReadFrame, Typed, AllTypes, ReadTypes
    <3>5. \A d \in Epochs : rframe'[d].s = s => d = e
      BY <3>1, InHandMoves, ReadsHas DEF Unheard
    <3> QED
      BY <2>3, <3>2, <3>3, <3>4, <3>5
  <2> QED
    BY <1>1, <2>1, <2>2, <2>3, InHandMoves
<1>2. ASSUME rpc'[e] = "write", rframe'[e].s = s PROVE at'[s] = e /\ tsock'[s] # "none"
  <2>1. CASE rframe[e].s = s /\ rpc[e] = "write"
    <3>1. \A d \in Epochs : ~Reads(d, "connect", s)
      BY <2>1, FirstRead DEF Unheard
    <3>2. at'[s] = at[s] /\ at[s] = e /\ tsock[s] # "none"
      BY <2>1, <3>1, SessMoves DEF InHand
    <3> QED
      BY <3>2, SockSteps
  <2>2. CASE Reads(e, "data", s) /\ s \in sess[e]
    <3>1. \A d \in Epochs : ~Reads(d, "connect", s)
      BY <2>2, FirstRead DEF Unheard
    <3>2. at'[s] = at[s] /\ at[s] = e
      BY <2>2, <3>1, SessMoves DEF AtHome
    <3>3. tsock[s] # "none"
      BY <2>2 DEF Reads, ReadFrame, AtHome
    <3> QED
      BY <3>2, <3>3, SockSteps
  <2>3. ~Dial(e)
    BY <1>2 DEF Dial, Typed, AllTypes, ReadTypes
  <2> QED
    BY <1>2, <2>1, <2>2, <2>3, InHandMoves
<1> QED
  BY <1>1, <1>2 DEF InHand

LEMMA ToldKept ==
  ASSUME Typed, Linked, [Next]_vars, NEW s \in Sessions, Announced(s), AtHome(s), Told(s),
         \A e \in Epochs : InHand(e, s)
  PROVE  Told(s)'
<1>0. s # 0 /\ at[s] \in Epochs
  BY SystemAssumption DEF Typed, AllTypes, ReadTypes
<1>1. ASSUME tpc'[s] # "unborn" PROVE tsock'[s] # "none"
  <2>1. CASE tpc[s] # "unborn"
    BY <2>1, SockSteps DEF Told
  <2>2. CASE \E e \in Epochs : SayConnected(e) /\ rframe[e].s = s
    <3>1. tsock[s] = "open"
      BY <2>2 DEF SayConnected, InHand
    <3> QED
      BY <3>1, SockSteps
  <2> QED
    BY <1>1, <2>1, <2>2, ThreadSteps
<1>2. ASSUME tpc[s] # "unborn", NEW d \in Epochs, s \in sess'[d] PROVE s \in sess[d]
  BY <1>2, FirstRead, SessMoves DEF Unheard, Unanswered
<1>3. ASSUME tpc[s] # "unborn" PROVE ~\E e \in Epochs : SayConnected(e) /\ rframe[e].s = s
  BY <1>3 DEF SayConnected, InHand, Unanswered
<1>4. ASSUME tpc'[s] = "notice", NEW d \in Epochs PROVE s \notin sess'[d]
  <2>1. CASE tpc[s] = "notice"
    BY <1>2, <2>1 DEF Told
  <2>2. CASE tpc[s] = "end" /\ EndSession(s)
    <3>1. sess' = [sess EXCEPT ![at[s]] = @ \ {s}]
      BY <1>4, <2>2 DEF EndSession, Typed, AllTypes, ThreadTypes
    <3> QED
      BY <1>0, <1>2, <2>2, <3>1 DEF AtHome, Typed, AllTypes, ReadTypes
  <2> QED
    BY <1>4, <2>1, <2>2, ThreadSteps
<1>5. ASSUME NEW e \in Epochs, HasDown(e, "close", s)', NEW d \in Epochs
      PROVE  tpc'[s] = "gone" /\ s \notin sess'[d]
  <2>1. CASE HasDown(e, "close", s)
    BY <1>2, <1>3, <2>1, ThreadSteps DEF Told
  <2>2. CASE SayClose(s)
    <3>1. tpc[s] = "notice" /\ tpc'[s] = "gone"
      BY <2>2 DEF SayClose, Typed, AllTypes, ThreadTypes
    <3> QED
      BY <1>2, <3>1 DEF Told
  <2> QED
    BY <1>0, <1>5, <2>1, <2>2, DownChanges, Speakers DEF Types
<1>6. ASSUME NEW e \in Epochs, HasDown(e, "error", s)', NEW d \in Epochs
      PROVE  cut'[s] /\ s \notin sess'[d]
  <2>1. CASE HasDown(e, "error", s)
    <3>1. \A c \in Epochs : ~Reads(c, "connect", s)
      BY <2>1, FirstRead DEF Unheard, Unanswered, HasDown, OfDown
    <3> QED
      BY <2>1, <3>1, SessMoves, CutKept DEF Told
  <2>2. CASE SayError(e) /\ rframe[e].s = s
    <3>1. cut[s] /\ s \in sess[e] /\ sess' = [sess EXCEPT ![e] = @ \ {s}]
      BY <2>2 DEF SayError, InHand
    <3> QED
      BY <3>1, CutKept DEF AtHome, Typed, AllTypes, ReadTypes
  <2> QED
    BY <1>0, <1>6, <2>1, <2>2, DownChanges, Speakers DEF Types
<1> QED
  BY <1>1, <1>4, <1>5, <1>6 DEF Told

LEMMA TracedKept == Typed /\ Linked /\ Traced /\ [Next]_vars => Traced'
  BY AnnouncedKept, AtHomeKept, InHandKept, ToldKept DEF Traced

-----------------------------------------------------------------------------
(* No session is forgotten                                                 *)

(* What the client has announced it still knows, or its close is on the    *)
(* way: the same as NoForgottenSession, already from the connect on.       *)
Known(e, s) ==
  s \in smap \/ (h = s /\ hpc = "notify") \/ cut[s] \/ HasUp(e, "close", s)

Remembered == \A s \in Sessions :
  /\ h = s /\ hpc = "connect" => s \in smap \/ cut[s]
  /\ \A e \in Epochs : s \in sess[e] \/ HasUp(e, "connect", s) => Known(e, s)

LEMMA SmapLeaves ==
  ASSUME Typed, Linked, [Next]_vars, NEW s \in Sessions, s \in smap, s \notin smap'
  PROVE  \/ SendConnect /\ h = s /\ hpc' # "pump"
         \/ link[ws] = "lost"
         \/ h' = s /\ hpc' = "notify"
         \/ HasDown(ws, "close", s) \/ HasDown(ws, "error", s)
<1>1. CASE LoopRead
  <2>1. Head(down[ws]) = down[ws][1] /\ 1 \in 1 .. Len(down[ws])
    <3>1. down[ws] # <<>> /\ down[ws] \in Seq(Frames)
      BY <1>1 DEF LoopRead, Typed, AllTypes, WireTypes
    <3> QED
      BY <3>1, Shrinks
  <2>2. Head(down[ws]).t \in {"close", "error"} /\ Head(down[ws]).s = s
    BY <1>1 DEF LoopRead
  <2> QED
    BY <2>1, <2>2 DEF HasDown
<1>2. CASE SendConnect
  BY <1>2 DEF SendConnect, Refuse
<1>3. CASE Finish
  BY <1>3 DEF Finish
<1>4. CASE PumpPush \/ LoopLoss
  BY <1>4 DEF PumpPush, LoopLoss
<1>5. CASE LoopGreet \/ LoopFlush
  BY <1>5 DEF LoopGreet, LoopFlush, LoopPush
<1>6. ~UNCHANGED clientVars /\ ~OpenSession /\ ~PumpPiece /\ ~PumpEnd
      /\ ~LoopHalf /\ ~LoopShut /\ ~LoopTell /\ ~LoopMark
  BY DEF clientVars, OpenSession, PumpPiece, PumpEnd, LoopHalf, LoopShut, LoopTell, LoopMark
<1> QED
  BY <1>1, <1>2, <1>3, <1>4, <1>5, <1>6, ClientMoves

(* The step that closes a session by its close frame leaves nothing of it. *)
LEMMA CloseRead ==
  ASSUME Typed, [Next]_vars, NEW s \in Sessions, Announced(s), NEW e \in Epochs,
         Reads(e, "close", s)
  PROVE  s \notin sess'[e] /\ ~HasUp(e, "connect", s)'
<1>1. s \notin sess'[e]
  <2>1. ~Reads(e, "connect", s)
    BY DEF Reads
  <2>2. s \in sess[e] => sess' = [sess EXCEPT ![e] = @ \ {s}]
    BY DEF Reads, ReadFrame
  <2> QED
    BY <2>1, <2>2, SessMoves DEF Typed, AllTypes, ReadTypes
<1>2. up[e][1].t = "close" /\ up[e][1].s = s /\ Len(up[e]) \in Nat \ {0}
  BY ReadsHas
<1>3. ~Unsent(s)
  BY <1>2 DEF Announced, OfUp
<1>4. ~HasUp(e, "connect", s)
  <2>1. SUFFICES ASSUME NEW i \in 1 .. Len(up[e]), up[e][i].t = "connect", up[e][i].s = s
                 PROVE  FALSE
    BY DEF HasUp
  <2>2. Leads(e, s) /\ 1 \in 1 .. Len(up[e])
    BY <1>2, <2>1 DEF Announced, HasUp
  <2>3. i <= 1
    BY <1>2, <2>1, <2>2 DEF Leads
  <2> QED
    BY <1>2, <2>1, <2>3
<1> QED
  BY <1>1, <1>3, <1>4, UpChanges, Connecting DEF Types

LEMMA RememberedKept == Typed /\ Linked /\ Traced /\ Remembered /\ [Next]_vars => Remembered'
<1> SUFFICES ASSUME Typed, Linked, Traced, Remembered, [Next]_vars, NEW s \in Sessions
             PROVE  /\ h' = s /\ hpc' = "connect" => s \in smap' \/ cut'[s]
                    /\ \A e \in Epochs : s \in sess'[e] \/ HasUp(e, "connect", s)' => Known(e, s)'
  BY DEF Remembered
<1>0. (cut[s] => cut'[s]) /\ Announced(s) /\ Told(s) /\ ws \in Epochs
  BY CutKept DEF Traced, Typed, AllTypes, WireTypes
<1>1. ASSUME h' = s, hpc' = "connect" PROVE s \in smap' \/ cut'[s]
  <2>1. CASE OpenSession
    BY <1>1, <2>1 DEF OpenSession, Refuse
  <2>2. CASE h = s /\ hpc = "connect" /\ ~SendConnect
    <3>1. s \in smap \/ cut[s]
      BY <2>2 DEF Remembered
    <3>2. link[ws] = "lost" => cut[s]
      <4>1. lsock[s] # "none"
        BY <2>2 DEF Typed, Shapes
      <4> QED
        BY <2>2, <4>1 DEF Linked
    <3>3. ~HasDown(ws, "close", s) /\ ~HasDown(ws, "error", s)
      BY <1>0, <2>2 DEF Announced, Unsent, Unheard, Unanswered, HasDown, OfDown
    <3> QED
      BY <1>0, <1>1, <2>2, <3>1, <3>2, <3>3, SmapLeaves
  <2>3. OpenSession \/ (h = s /\ hpc = "connect" /\ ~SendConnect)
    BY <1>1, HandMoves DEF handVars, Accept, OpenSession, SendConnect, PumpRead, PumpPiece,
                           PumpPush, PumpEnd, Finish, SendClose, ShutConnection, Refuse
  <2> QED
    BY <2>1, <2>2, <2>3
<1>2. ASSUME NEW e \in Epochs, s \in sess[e] \/ HasUp(e, "connect", s), ~cut'[s],
             s \in sess'[e] \/ HasUp(e, "connect", s)'
      PROVE  Known(e, s)'
  <2>1. ~Unsent(s)
    BY <1>0, <1>2 DEF Announced, Unheard, HasUp, OfUp
  <2>2. ws' = ws /\ e = ws /\ ~cut[s]
    <3>1. ws' = ws /\ ~cut[s]
      BY <1>2, <2>1, SameConnection
    <3> QED
      BY <1>0, <1>2, <3>1 DEF Announced, Traced, AtHome
  <2>3. link[ws] # "lost" /\ Usable
    BY <2>1, <2>2 DEF Linked, Unsent
  <2>4. CASE s \in smap
    <3>1. ~HasDown(ws, "close", s) /\ ~HasDown(ws, "error", s)
      BY <1>0, <1>2, <2>2 DEF Announced, Told, Unheard, Unanswered, HasDown, OfDown
    <3>2. ~(SendConnect /\ h = s)
      BY <2>1 DEF Unsent, SendConnect
    <3> QED
      BY <2>3, <2>4, <3>1, <3>2, SmapLeaves DEF Known
  <2>5. CASE h = s /\ hpc = "notify"
    <3>1. UNCHANGED handVars \/ SendClose
      BY <2>5, HandMoves DEF Accept, OpenSession, SendConnect, PumpRead, PumpPiece, PumpPush,
                             PumpEnd, Finish, ShutConnection
    <3>2. CASE UNCHANGED handVars
      BY <2>5, <3>2 DEF handVars, Known
    <3>3. CASE SendClose
      <4>1. SendUp(ws, Frame("close", s, 0)) /\ Frame("close", s, 0) \in Frames
        BY <2>3, <2>5, <3>3, FrameType DEF SendClose, Types
      <4>2. Grown(up[ws], up'[ws], Frame("close", s, 0))
        BY <1>0, <2>3, <4>1, SendUpTypes DEF Typed, AllTypes
      <4>3. HasUp(ws, "close", s)'
        <5>1. ws' = ws /\ Len(up[ws]) \in Nat
          BY <1>0, <2>2, Lengths
        <5>2. /\ Len(up[ws]) + 1 \in 1 .. Len(up'[ws])
              /\ up'[ws][Len(up[ws]) + 1] = Frame("close", s, 0)
          BY <4>2, <5>1 DEF Grown
        <5> QED
          BY <5>1, <5>2 DEF HasUp, Frame
      <4> QED
        BY <2>2, <4>3 DEF Known
    <3> QED
      BY <3>1, <3>2, <3>3
  <2>6. CASE HasUp(e, "close", s)
    <3>1. ~Lose
      BY <1>2, <2>1 DEF Lose, Unsent
    <3>2. ~Reads(e, "close", s)
      BY <1>0, <1>2, CloseRead
    <3>3. HasUp(e, "close", s)'
      BY <2>6, <3>1, <3>2, UpChanges DEF Reads, Types
    <3> QED
      BY <3>3 DEF Known
  <2> QED
    BY <1>2, <2>2, <2>4, <2>5, <2>6 DEF Remembered, Known
<1>3. ASSUME NEW e \in Epochs, HasUp(e, "connect", s)', ~HasUp(e, "connect", s)
      PROVE  Known(e, s)'
  <2>1. SendConnect /\ h = s /\ hpc' = "pump"
    BY <1>3, UpChanges, Connecting DEF Types
  <2>2. (s \in smap \/ cut[s]) /\ hpc = "connect" /\ smap' = smap
    BY <2>1 DEF Remembered, SendConnect, Refuse
  <2> QED
    BY <1>0, <2>2 DEF Known
<1>4. ASSUME NEW e \in Epochs, s \in sess'[e] PROVE s \in sess[e] \/ HasUp(e, "connect", s)
  BY <1>4, SessMoves, ReadsHas
<1>5. \A e \in Epochs : cut'[s] => Known(e, s)'
  BY DEF Known
<1> QED
  BY <1>1, <1>2, <1>3, <1>4, <1>5

LEMMA InitTraced == Init => Linked /\ Traced /\ Remembered
<1> SUFFICES ASSUME Init PROVE Linked /\ Traced /\ Remembered
  OBVIOUS
<1>1. /\ \A e \in Epochs : /\ up[e] = <<>> /\ down[e] = <<>> /\ sess[e] = {} /\ rframe[e].s = 0
                           /\ rpc[e] \in {"none", "read"}
                           /\ link[e] = (IF e = 1 THEN "up" ELSE "none")
      /\ ws = 1 /\ smap = {} /\ lpc = "read" /\ hpc = "accept" /\ frame.s = 0
      /\ \A s \in Sessions : s # 0 /\ lsock[s] = "none" /\ tpc[s] = "unborn" /\ tsock[s] = "none"
                             /\ opened[s] = FALSE
  BY SystemAssumption DEF Init, Each, NoFrame, Frame
<1>2. Len(<<>>) = 0 /\ 1 \in Epochs /\ \A e \in Epochs : e \in Nat /\ e >= 1
  BY SystemAssumption DEF Epochs
<1>3. Linked
  BY <1>1, <1>2 DEF Linked, Usable
<1>4. \A e \in Epochs, s \in Sessions : ~OfUp(e, s) /\ ~OfDown(e, s)
  BY <1>1, <1>2 DEF OfUp, OfDown
<1>5. \A e \in Epochs, s \in Sessions, t \in Types : ~HasUp(e, t, s) /\ ~HasDown(e, t, s)
  BY <1>1, <1>2 DEF HasUp, HasDown
<1>6. ASSUME NEW s \in Sessions PROVE Unheard(s)
  BY <1>1, <1>4 DEF Unheard, Unanswered
<1>7. ASSUME NEW s \in Sessions
      PROVE  Announced(s) /\ AtHome(s) /\ Told(s) /\ \A e \in Epochs : InHand(e, s)
  <2>1. Announced(s)
    BY <1>4, <1>5, <1>6 DEF Announced, Types
  <2>2. AtHome(s) /\ \A e \in Epochs : InHand(e, s)
    BY <1>1 DEF AtHome, InHand
  <2>3. Told(s)
    BY <1>1, <1>5 DEF Told, Types
  <2> QED
    BY <2>1, <2>2, <2>3
<1>8. Remembered
  BY <1>1, <1>5 DEF Remembered, Types
<1> QED
  BY <1>3, <1>7, <1>8 DEF Traced

\* The server keeps a session only as long as the client knows it or has its
\* close under way; only the loss of a connection, or a refusal, leaves one over.
THEOREM NoneForgotten == Spec => []NoForgottenSession
<1> DEFINE IInv == Typed /\ Linked /\ Traced /\ Remembered
<1>1. Init => IInv
  BY InitTyped, InitTraced
<1>2. IInv /\ [Next]_vars => IInv'
  BY NextTyped, LinkedKept, TracedKept, RememberedKept
<1>3. IInv => NoForgottenSession
  <2>1. SUFFICES ASSUME IInv, NEW e \in Epochs, NEW s \in sess[e]
                 PROVE  \/ s \in smap \/ (h = s /\ hpc = "notify") \/ cut[s]
                        \/ \E i \in 1 .. Len(up[e]) : up[e][i] = Frame("close", s, 0)
    BY DEF NoForgottenSession
  <2>2. Known(e, s)
    BY <2>1 DEF Remembered, Typed, AllTypes, ReadTypes
  <2>3. ASSUME NEW i \in 1 .. Len(up[e]), up[e][i].t = "close", up[e][i].s = s
        PROVE  up[e][i] = Frame("close", s, 0)
    <3>1. up[e][i].k = 0 /\ up[e] \in Seq(Frames)
      BY <2>1, <2>3 DEF Typed, Shapes, UpType, AllTypes, WireTypes
    <3>2. up[e][i] \in Frames
      BY <3>1, ElementOfSeq
    <3> QED
      BY <2>3, <3>1, <3>2 DEF Frames, Frame
  <2> QED
    BY <2>2, <2>3 DEF Known, HasUp
<1> QED
  BY <1>1, <1>2, <1>3, PTL DEF Spec
-----------------------------------------------------------------------------
(* The pieces of one session in a queue that several share                 *)

DataOf(q, i, s) == q[i].t = "data" /\ q[i].s = s

(* They are the pieces after n, one after the other.                       *)
Run(q, s, n) ==
  /\ \A i \in 1 .. Len(q) : DataOf(q, i, s) =>
       /\ q[i].k > n
       /\ q[i].k = n + 1 \/ \E j \in 1 .. i - 1 : DataOf(q, j, s) /\ q[j].k = q[i].k - 1
  /\ \A i, j \in 1 .. Len(q) : i < j /\ DataOf(q, i, s) /\ DataOf(q, j, s) => q[i].k < q[j].k

(* They go up to m, which is among the first c frames if there is any.     *)
Reach(q, c, s, n, m) ==
  /\ \A i \in 1 .. Len(q) : DataOf(q, i, s) => q[i].k <= m
  /\ m = n \/ \E i \in 1 .. c : DataOf(q, i, s) /\ q[i].k = m

(* Whatever is put behind a run that is not the next piece leaves it.      *)
LEMMA RunPassed ==
  ASSUME NEW q \in Seq(Frames), NEW p \in Seq(Frames), NEW f \in Frames, Grown(q, p, f),
         NEW s, NEW n \in Nat, Run(q, s, n), ~(f.t = "data" /\ f.s = s)
  PROVE  /\ Run(p, s, n)
         /\ \A i \in 1 .. Len(p) : DataOf(p, i, s) => i \in 1 .. Len(q) /\ p[i] = q[i]
         /\ \A m \in Nat, c, d \in 0 .. Len(p) :
              Reach(q, c, s, n, m) /\ c <= d /\ c <= Len(q) => Reach(p, d, s, n, m)
<1> DEFINE L == Len(q)
<1>1. /\ L \in Nat /\ Len(p) = L + 1 /\ p[L + 1] = f /\ \A i \in 1 .. L : p[i] = q[i]
  BY LenProperties DEF Grown
<1>2. \A i \in 1 .. Len(q) : q[i].k \in Nat
  <2>1. \A i \in 1 .. Len(q) : q[i] \in Frames
    BY ElementOfSeq
  <2> QED
    BY <2>1 DEF Frames
<1>3. \A i \in 1 .. Len(p) : DataOf(p, i, s) => i \in 1 .. L /\ p[i] = q[i] /\ DataOf(q, i, s)
  BY <1>1 DEF DataOf
<1>4. \A i \in 1 .. L : DataOf(q, i, s) => DataOf(p, i, s) /\ p[i] = q[i]
  BY <1>1 DEF DataOf
<1>5. Run(p, s, n)
  <2> HIDE DEF L
  <2>1. ASSUME NEW i \in 1 .. Len(p), DataOf(p, i, s)
        PROVE  /\ p[i].k > n
               /\ p[i].k = n + 1 \/ \E j \in 1 .. i - 1 : DataOf(p, j, s) /\ p[j].k = p[i].k - 1
    BY <1>1, <1>3, <1>4, <2>1 DEF Run, L
  <2>2. ASSUME NEW i \in 1 .. Len(p), NEW j \in 1 .. Len(p), i < j, DataOf(p, i, s), DataOf(p, j, s)
        PROVE  p[i].k < p[j].k
    BY <1>3, <2>2 DEF Run, L
  <2> QED
    BY <2>1, <2>2 DEF Run
<1>6. ASSUME NEW m \in Nat, NEW c \in 0 .. Len(p), NEW d \in 0 .. Len(p),
             Reach(q, c, s, n, m), c <= d, c <= Len(q)
      PROVE  Reach(p, d, s, n, m)
  BY <1>1, <1>3, <1>4, <1>6 DEF Reach
<1> QED
  BY <1>3, <1>5, <1>6

(* The next piece makes it longer.                                         *)
LEMMA RunAdded ==
  ASSUME NEW q \in Seq(Frames), NEW p \in Seq(Frames), NEW f \in Frames, Grown(q, p, f),
         NEW s, NEW n \in Nat, NEW m \in Nat, Run(q, s, n), Reach(q, Len(q), s, n, m), n <= m,
         f.t = "data", f.s = s, f.k = m + 1
  PROVE  Run(p, s, n) /\ Reach(p, Len(p), s, n, m + 1)
<1> DEFINE L == Len(q)
<1>1. /\ L \in Nat /\ Len(p) = L + 1 /\ p[L + 1] = f /\ \A i \in 1 .. L : p[i] = q[i]
  BY LenProperties DEF Grown
<1>2. \A i \in 1 .. Len(q) : q[i].k \in Nat
  <2>1. \A i \in 1 .. Len(q) : q[i] \in Frames
    BY ElementOfSeq
  <2> QED
    BY <2>1 DEF Frames
<1>3. DataOf(p, L + 1, s) /\ \A i \in 1 .. L : DataOf(q, i, s) <=> DataOf(p, i, s)
  BY <1>1 DEF DataOf
<1>4. \A i \in 1 .. L : DataOf(p, i, s) => p[i].k <= m /\ p[i].k \in Nat
  BY <1>1, <1>2, <1>3 DEF Reach
<1> HIDE DEF L
<1>5. ASSUME NEW i \in 1 .. Len(p), DataOf(p, i, s)
      PROVE  /\ p[i].k > n
             /\ p[i].k = n + 1 \/ \E j \in 1 .. i - 1 : DataOf(p, j, s) /\ p[j].k = p[i].k - 1
  <2>1. CASE i \in 1 .. L
    <3>1. /\ q[i].k > n
          /\ \/ q[i].k = n + 1
             \/ \E j \in 1 .. i - 1 : DataOf(q, j, s) /\ q[j].k = q[i].k - 1
      BY <1>3, <1>5, <2>1 DEF Run, L
    <3>2. \A j \in 1 .. i - 1 : j \in 1 .. L
      BY <1>1, <2>1
    <3> QED
      BY <1>1, <1>3, <2>1, <3>1, <3>2
  <2>2. CASE i = L + 1
    <3>1. m = n \/ \E j \in 1 .. L : DataOf(p, j, s) /\ p[j].k = m
      BY <1>1, <1>3 DEF Reach, L
    <3>2. p[i].k = m + 1 /\ i - 1 = L
      BY <1>1, <2>2
    <3> QED
      BY <3>1, <3>2
  <2> QED
    BY <1>1, <2>1, <2>2
<1>6. ASSUME NEW i \in 1 .. Len(p), NEW j \in 1 .. Len(p), i < j, DataOf(p, i, s), DataOf(p, j, s)
      PROVE  p[i].k < p[j].k
  <2>1. i \in 1 .. L
    BY <1>1, <1>6
  <2>2. CASE j \in 1 .. L
    BY <1>1, <1>3, <1>6, <2>1, <2>2 DEF Run, L
  <2>3. CASE j = L + 1
    BY <1>1, <1>4, <1>6, <2>1, <2>3
  <2> QED
    BY <1>1, <2>2, <2>3
<1>7. Reach(p, Len(p), s, n, m + 1)
  <2>1. \A i \in 1 .. Len(p) : DataOf(p, i, s) => p[i].k <= m + 1
    BY <1>1, <1>4
  <2>2. Len(p) \in 1 .. Len(p) /\ DataOf(p, Len(p), s) /\ p[Len(p)].k = m + 1
    BY <1>1, <1>3
  <2> QED
    BY <2>1, <2>2 DEF Reach
<1> QED
  BY <1>5, <1>6, <1>7 DEF Run

(* Its head is the piece after n ...                                       *)
LEMMA RunTaken ==
  ASSUME NEW q \in Seq(Frames), NEW p \in Seq(Frames), Shrunk(q, p), Len(q) > 0,
         NEW s, NEW n \in Nat, Run(q, s, n), DataOf(q, 1, s)
  PROVE  /\ q[1].k = n + 1 /\ Run(p, s, n + 1)
         /\ \A m \in Nat, c \in 1 .. Len(q) : Reach(q, c, s, n, m) => Reach(p, c - 1, s, n + 1, m)
<1>1. /\ Len(q) \in Nat \ {0} /\ Len(p) = Len(q) - 1
      /\ \A i \in 1 .. Len(p) : i + 1 \in 1 .. Len(q) /\ p[i] = q[i + 1]
  BY LenProperties DEF Shrunk
<1>2. \A i \in 1 .. Len(q) : q[i].k \in Nat
  <2>1. \A i \in 1 .. Len(q) : q[i] \in Frames
    BY ElementOfSeq
  <2> QED
    BY <2>1 DEF Frames
<1>3. q[1].k = n + 1
  BY <1>1 DEF Run
<1>4. \A i \in 1 .. Len(p) : DataOf(p, i, s) <=> DataOf(q, i + 1, s)
  BY <1>1 DEF DataOf
<1>5. ASSUME NEW i \in 1 .. Len(p), DataOf(p, i, s)
      PROVE  /\ p[i].k > n + 1
             /\ \/ p[i].k = n + 1 + 1
                \/ \E j \in 1 .. i - 1 : DataOf(p, j, s) /\ p[j].k = p[i].k - 1
  <2>1. q[i + 1].k > n + 1
    BY <1>1, <1>3, <1>4, <1>5 DEF Run
  <2>2. PICK j \in 1 .. i : DataOf(q, j, s) /\ q[j].k = q[i + 1].k - 1
    BY <1>1, <1>2, <1>4, <1>5, <2>1 DEF Run
  <2>3. CASE j = 1
    <3>1. q[i + 1].k - 1 = n + 1 /\ q[i + 1].k \in Nat
      BY <1>1, <1>2, <1>3, <2>2, <2>3
    <3>2. q[i + 1].k = n + 1 + 1 /\ q[i + 1].k > n + 1
      BY <3>1
    <3>3. p[i] = q[i + 1]
      BY <1>1
    <3> QED
      BY <3>2, <3>3
  <2>4. CASE j # 1
    <3>1. j - 1 \in 1 .. i - 1 /\ j - 1 \in 1 .. Len(p) /\ (j - 1) + 1 = j
      BY <1>1, <2>4
    <3>2. p[i].k = q[i + 1].k /\ p[j - 1] = q[j]
      <4>1. p[i] = q[i + 1] /\ p[j - 1] = q[(j - 1) + 1]
        BY <1>1, <3>1
      <4> QED
        BY <3>1, <4>1
    <3>3. DataOf(p, j - 1, s) /\ p[j - 1].k = p[i].k - 1
      BY <1>4, <2>2, <3>1, <3>2
    <3> QED
      BY <2>1, <3>1, <3>2, <3>3
  <2> QED
    BY <2>3, <2>4
<1>6. ASSUME NEW i \in 1 .. Len(p), NEW j \in 1 .. Len(p), i < j, DataOf(p, i, s), DataOf(p, j, s)
      PROVE  p[i].k < p[j].k
  BY <1>1, <1>4, <1>6 DEF Run
<1>7. ASSUME NEW m \in Nat, NEW c \in 1 .. Len(q), Reach(q, c, s, n, m)
      PROVE  Reach(p, c - 1, s, n + 1, m)
  <2>1. \A i \in 1 .. Len(p) : DataOf(p, i, s) => p[i].k <= m
    BY <1>1, <1>4, <1>7 DEF Reach
  <2>2. m # n
    BY <1>1, <1>3, <1>7 DEF Reach
  <2>3. PICK i \in 1 .. c : DataOf(q, i, s) /\ q[i].k = m
    BY <1>7, <2>2 DEF Reach
  <2>4. CASE i = 1
    BY <1>3, <2>1, <2>3, <2>4 DEF Reach
  <2>5. CASE i # 1
    <3>1. i - 1 \in 1 .. c - 1 /\ i - 1 \in 1 .. Len(p) /\ (i - 1) + 1 = i
      BY <1>1, <2>5
    <3>2. DataOf(p, i - 1, s) /\ p[i - 1].k = m
      BY <1>1, <1>4, <2>3, <3>1
    <3> QED
      BY <2>1, <3>1, <3>2 DEF Reach
  <2> QED
    BY <2>4, <2>5
<1>8. Run(p, s, n + 1)
  BY <1>5, <1>6 DEF Run
<1> QED
  BY <1>3, <1>7, <1>8

(* ... or not of the session.                                              *)
LEMMA RunSkipped ==
  ASSUME NEW q \in Seq(Frames), NEW p \in Seq(Frames), Shrunk(q, p), Len(q) > 0,
         NEW s, NEW n \in Nat, Run(q, s, n), ~DataOf(q, 1, s)
  PROVE  /\ Run(p, s, n)
         /\ \A m \in Nat, c \in 1 .. Len(q) : Reach(q, c, s, n, m) => Reach(p, c - 1, s, n, m)
<1>1. /\ Len(q) \in Nat \ {0} /\ Len(p) = Len(q) - 1
      /\ \A i \in 1 .. Len(p) : i + 1 \in 1 .. Len(q) /\ p[i] = q[i + 1]
  BY LenProperties DEF Shrunk
<1>2. \A i \in 1 .. Len(p) : DataOf(p, i, s) <=> DataOf(q, i + 1, s)
  BY <1>1 DEF DataOf
<1>3. \A j \in 1 .. Len(q) : DataOf(q, j, s) =>
        j - 1 \in 1 .. Len(p) /\ (j - 1) + 1 = j /\ DataOf(p, j - 1, s) /\ p[j - 1] = q[j]
  <2>1. ASSUME NEW j \in 1 .. Len(q), DataOf(q, j, s)
        PROVE  j - 1 \in 1 .. Len(p) /\ (j - 1) + 1 = j
    BY <1>1, <2>1
  <2> QED
    BY <1>1, <1>2, <2>1
<1>4. ASSUME NEW i \in 1 .. Len(p), DataOf(p, i, s)
      PROVE  /\ p[i].k > n
             /\ p[i].k = n + 1 \/ \E j \in 1 .. i - 1 : DataOf(p, j, s) /\ p[j].k = p[i].k - 1
  <2>1. p[i] = q[i + 1] /\ i + 1 \in 1 .. Len(q) /\ DataOf(q, i + 1, s)
    BY <1>1, <1>2, <1>4
  <2>2. CASE q[i + 1].k # n + 1
    <3>1. PICK j \in 1 .. i : DataOf(q, j, s) /\ q[j].k = q[i + 1].k - 1
      BY <2>1, <2>2 DEF Run
    <3>2. j - 1 \in 1 .. i - 1
      BY <1>1, <1>3, <3>1
    <3> QED
      BY <1>1, <1>3, <2>1, <3>1, <3>2 DEF Run
  <2> QED
    BY <2>1, <2>2 DEF Run
<1>5. ASSUME NEW i \in 1 .. Len(p), NEW j \in 1 .. Len(p), i < j, DataOf(p, i, s), DataOf(p, j, s)
      PROVE  p[i].k < p[j].k
  BY <1>1, <1>2, <1>5 DEF Run
<1>6. ASSUME NEW m \in Nat, NEW c \in 1 .. Len(q), Reach(q, c, s, n, m)
      PROVE  Reach(p, c - 1, s, n, m)
  <2>1. \A i \in 1 .. Len(p) : DataOf(p, i, s) => p[i].k <= m
    BY <1>1, <1>2, <1>6 DEF Reach
  <2>2. ASSUME NEW i \in 1 .. c, DataOf(q, i, s), q[i].k = m
        PROVE  i - 1 \in 1 .. c - 1 /\ DataOf(p, i - 1, s) /\ p[i - 1].k = m
    BY <1>1, <1>3, <2>2
  <2> QED
    BY <1>6, <2>1, <2>2 DEF Reach
<1>7. Run(p, s, n)
  BY <1>4, <1>5 DEF Run
<1> QED
  BY <1>6, <1>7

(* What is left of a run is one.                                           *)
LEMMA RunCropped ==
  ASSUME NEW q \in Seq(Frames), NEW p \in Seq(Frames), Cropped(q, p),
         NEW s, NEW n \in Nat, Run(q, s, n)
  PROVE  /\ Run(p, s, n)
         /\ \A i \in 1 .. Len(p) : i \in 1 .. Len(q) /\ p[i] = q[i]
         /\ \A m \in Nat, c \in 0 .. Len(p) : Reach(q, c, s, n, m) => Reach(p, c, s, n, m)
<1>1. /\ Len(q) \in Nat /\ Len(p) \in Nat /\ Len(p) <= Len(q)
      /\ \A i \in 1 .. Len(p) : i \in 1 .. Len(q) /\ p[i] = q[i]
  BY LenProperties DEF Cropped
<1>2. \A i \in 1 .. Len(p) : DataOf(p, i, s) <=> DataOf(q, i, s)
  BY <1>1 DEF DataOf
<1>3. ASSUME NEW i \in 1 .. Len(p), DataOf(p, i, s)
      PROVE  /\ p[i].k > n
             /\ p[i].k = n + 1 \/ \E j \in 1 .. i - 1 : DataOf(p, j, s) /\ p[j].k = p[i].k - 1
  <2>1. \A j \in 1 .. i - 1 : j \in 1 .. Len(p)
    BY <1>1
  <2> QED
    BY <1>1, <1>2, <1>3, <2>1 DEF Run
<1>4. ASSUME NEW i \in 1 .. Len(p), NEW j \in 1 .. Len(p), i < j, DataOf(p, i, s), DataOf(p, j, s)
      PROVE  p[i].k < p[j].k
  BY <1>1, <1>2, <1>4 DEF Run
<1>5. ASSUME NEW m \in Nat, NEW c \in 0 .. Len(p), Reach(q, c, s, n, m)
      PROVE  Reach(p, c, s, n, m)
  <2>1. \A j \in 1 .. c : j \in 1 .. Len(p)
    BY <1>1
  <2> QED
    BY <1>1, <1>2, <1>5, <2>1 DEF Reach
<1> QED
  BY <1>1, <1>3, <1>4, <1>5 DEF Run

-----------------------------------------------------------------------------
(* The local socket of a session                                           *)

(* Who may close it.                                                       *)
Lost(s) ==
  link[ws] = "lost" /\ ((h = s /\ hpc = "push") \/ (frame.s = s /\ lpc \in {"greet", "flush"}))
Shutter(s) ==
  \/ h = s /\ (OpenSession \/ SendConnect) /\ cut'[s] /\ hpc' = "accept"
  \/ h = s /\ ShutConnection
  \/ frame.s = s /\ LoopShut
  \/ LoopTell /\ s \in todo
  \/ Lost(s) /\ s \notin smap'

SockMove(s) ==
  \/ lsock'[s] = lsock[s]
  \/ lsock[s] = "none" /\ lsock'[s] = "open" /\ Accept /\ h' = s
  \/ lsock[s] = "closed" /\ lsock'[s] = "reset" /\ leof'[s] = "none"
  \/ lsock[s] = "open" /\ lsock'[s] \in {"closed", "reset"} /\ Shutter(s)

(* What happens to what the local client has not read yet.                 *)
AnswerMove(s) ==
  \/ ldn'[s] = ldn[s]
  \/ ldn'[s] = <<>> /\ lsock'[s] = "reset"
  \/ LocalReads(s) /\ ldn[s] # <<>> /\ Shrunk(ldn[s], ldn'[s])
  \/ LoopDeliver /\ frame.s = s /\ lsock[s] = "open" /\ Grown(ldn[s], ldn'[s], frame.k)
  \/ LoopGreet /\ frame.s = s /\ lsock[s] = "open" /\ Grown(ldn[s], ldn'[s], 0)
     /\ kind[s] = "connect"

LEMMA ShutMove ==
  ASSUME Typed, NEW r \in Sessions, Shuts(r) \/ UNCHANGED lsockVars, Shutter(r), NEW s \in Sessions
  PROVE  SockMove(s) /\ AnswerMove(s)
<1>1. CASE UNCHANGED lsockVars
  BY <1>1 DEF lsockVars, SockMove, AnswerMove
<1>2. CASE Shuts(r)
  <2>1. CASE s # r
    BY <1>2, <2>1 DEF Shuts, SockMove, AnswerMove
  <2>2. CASE s = r
    BY <1>2, <2>2 DEF Shuts, SockMove, AnswerMove
  <2> QED
    BY <2>1, <2>2
<1> QED
  BY <1>1, <1>2

LEMMA LocalSteps ==
  ASSUME Typed, [Next]_vars, NEW s \in Sessions
  PROVE  SockMove(s) /\ AnswerMove(s)
<1> USE DEF Typed, AllTypes
<1> DEFINE G == SockMove(s) /\ AnswerMove(s)
<1>1. CASE UNCHANGED lsockVars
  BY <1>1 DEF lsockVars, SockMove, AnswerMove
<1>2. CASE Accept
  BY <1>2 DEF Accept, LsockTypes, SockMove, AnswerMove
<1>3. ASSUME h \in Sessions, Refuse, OpenSession \/ SendConnect PROVE G
  <2>1. Shuts(h) /\ Shutter(h)
    BY <1>3, ShutLocalTypes DEF Refuse, Shutter, CutTypes
  <2> QED
    BY <1>3, <2>1, ShutMove
<1>4. CASE OpenSession
  <2>1. h \in Sessions /\ (Refuse \/ UNCHANGED lsockVars)
    BY <1>4 DEF OpenSession, Shapes
  <2> QED
    BY <1>1, <1>3, <1>4, <2>1
<1>5. CASE SendConnect
  <2>1. h \in Sessions /\ (Refuse \/ UNCHANGED lsockVars)
    BY <1>5 DEF SendConnect, Shapes
  <2> QED
    BY <1>1, <1>3, <1>5, <2>1
<1>6. CASE PumpRead
  BY <1>6 DEF PumpRead, SockMove, AnswerMove
<1>7. CASE PumpPush
  <2>1. CASE UNCHANGED lsockVars
    BY <1>1, <2>1
  <2>2. CASE Usable /\ link[ws] = "lost" /\ DropSession(h)
    <3>1. h \in Sessions /\ hpc = "push"
      BY <1>7 DEF PumpPush, Shapes
    <3>2. (Shuts(h) \/ UNCHANGED lsockVars) /\ h \notin smap'
      BY <2>2, <3>1, DropTypes
    <3> QED
      BY <2>2, <3>1, <3>2, ShutMove DEF Shutter, Lost
  <2> QED
    BY <1>7, <2>1, <2>2 DEF PumpPush
<1>8. CASE ShutConnection
  <2>1. h \in Sessions /\ Shuts(h)
    BY <1>8, ShutLocalTypes DEF ShutConnection, Shapes
  <2> QED
    BY <1>8, <2>1, ShutMove DEF Shutter
<1>9. CASE LoopDeliver
  <2>1. frame.s \in Sessions /\ frame.k \in Nat
    BY <1>9 DEF LoopDeliver, Shapes, LoopTypes, Frames
  <2>2. LocalWrite(frame.s, frame.k) /\ UNCHANGED lsock
    BY <1>9 DEF LoopDeliver
  <2>3. AnswerMove(s)
    BY <1>9, <2>1, <2>2, LocalWriteTypes DEF AnswerMove, LsockTypes
  <2> QED
    BY <2>2, <2>3 DEF SockMove
<1>10. ASSUME NEW k, NEW r \in Sessions, LoopPush(r, k), frame.s = r, lpc \in {"greet", "flush"}
       PROVE  G
  <2>1. CASE UNCHANGED lsockVars
    BY <1>1, <2>1
  <2>2. CASE link[ws] = "lost" /\ DropSession(r)
    <3>1. (Shuts(r) \/ UNCHANGED lsockVars) /\ r \notin smap'
      BY <2>2, DropTypes
    <3> QED
      BY <1>10, <2>2, <3>1, ShutMove DEF Shutter, Lost
  <2> QED
    BY <1>10, <2>1, <2>2 DEF LoopPush, lsockVars
<1>11. CASE LoopGreet
  <2>1. frame.s \in Sessions
    BY <1>11 DEF LoopGreet, Shapes
  <2>2. CASE kind[frame.s] = "connect"
    <3>1. LocalWrite(frame.s, 0) /\ UNCHANGED lsock
      BY <1>11, <2>2 DEF LoopGreet
    <3>2. AnswerMove(s)
      BY <1>11, <2>1, <2>2, <3>1, LocalWriteTypes DEF AnswerMove, LsockTypes
    <3> QED
      BY <3>1, <3>2 DEF SockMove
  <2>3. CASE kind[frame.s] # "connect"
    BY <1>10, <1>11, <2>1, <2>3 DEF LoopGreet
  <2> QED
    BY <2>2, <2>3
<1>12. CASE LoopFlush
  BY <1>1, <1>10, <1>12 DEF LoopFlush, Shapes
<1>13. CASE LoopShut
  <2>1. frame.s \in Sessions
    BY <1>13 DEF LoopShut, Shapes
  <2>2. Shuts(frame.s) \/ UNCHANGED lsockVars
    BY <1>13, <2>1, ShutLocalTypes DEF LoopShut, OnClose
  <2> QED
    BY <1>13, <2>1, <2>2, ShutMove DEF Shutter
<1>14. CASE LoopTell
  <2>1. PICK r \in todo : IF hpc = "connect" /\ h = r THEN UNCHANGED <<ended, lsockVars>>
                          ELSE ended' = [ended EXCEPT ![r] = TRUE] /\ ShutLocal(r)
    BY <1>14 DEF LoopTell
  <2>2. r \in Sessions
    BY <2>1 DEF LoopTypes
  <2>3. Shuts(r) \/ UNCHANGED lsockVars
    BY <2>1, <2>2, ShutLocalTypes
  <2> QED
    BY <1>14, <2>1, <2>2, <2>3, ShutMove DEF Shutter
<1>15. ASSUME NEW r \in Sessions, LocalSends(r) PROVE G
  BY <1>15 DEF LocalSends, SockMove, AnswerMove
<1>16. ASSUME NEW r \in Sessions, LocalSendsLate(r) PROVE G
  BY <1>16 DEF LocalSendsLate, localVars, LsockTypes, SockMove, AnswerMove
<1>17. ASSUME NEW r \in Sessions, LocalReads(r) PROVE G
  <2>1. UNCHANGED lsock
    BY <1>17 DEF LocalReads
  <2>2. CASE UNCHANGED ldn
    BY <2>1, <2>2 DEF SockMove, AnswerMove
  <2>3. CASE ldn[r] # <<>> /\ ldn' = [ldn EXCEPT ![r] = Tail(@)]
    <3>1. ldn[r] \in Seq(Nat) /\ Shrunk(ldn[r], Tail(ldn[r]))
      BY <2>3, Shrinks DEF LsockTypes
    <3> QED
      BY <1>17, <2>1, <2>3, <3>1 DEF LsockTypes, SockMove, AnswerMove
  <2> QED
    BY <1>17, <2>2, <2>3 DEF LocalReads
<1> QED
  BY <1>1, <1>2, <1>4, <1>5, <1>6, <1>7, <1>8, <1>9, <1>11, <1>12, <1>13, <1>14, <1>15, <1>16,
     <1>17, LsockMoves

(* What the local client reads.                                            *)
LEMMA GotSteps ==
  ASSUME Typed, [Next]_vars, NEW s \in Sessions
  PROVE  \/ /\ lgot'[s] = lgot[s]
            /\ ldn[s] = <<>> \/ ldn[s][1] = 0 \/ ~LocalReads(s)
            /\ \/ leof'[s] = leof[s]
               \/ LocalReads(s) /\ leof[s] = "none" /\ ldn[s] = <<>> /\ ldn'[s] = <<>>
                  /\ lsock[s] \in {"closed", "reset"} /\ lsock'[s] = lsock[s]
                  /\ leof'[s] = (IF lsock[s] = "closed" THEN "eof" ELSE "reset")
         \/ /\ LocalReads(s) /\ ldn[s] # <<>> /\ ldn[s][1] # 0 /\ leof'[s] = leof[s]
            /\ Grown(lgot[s], lgot'[s], ldn[s][1]) /\ Shrunk(ldn[s], ldn'[s])
<1> USE DEF Typed, AllTypes
<1>1. CASE \E r \in Sessions : LocalReads(r)
  <2>1. PICK r \in Sessions : LocalReads(r)
    BY <1>1
  <2>2. lgot[r] \in Seq(Nat) /\ ldn[r] \in Seq(Nat) /\ lgot \in [Sessions -> Seq(Nat)]
        /\ ldn \in [Sessions -> Seq(Nat)] /\ leof \in [Sessions -> Ends]
    BY DEF LocalTypes, LsockTypes
  <2>3. CASE ldn[r] = <<>>
    <3>1. /\ leof[r] = "none" /\ lsock[r] \in {"closed", "reset"} /\ UNCHANGED <<ldn, lgot, lsock>>
          /\ leof' = [leof EXCEPT ![r] = IF lsock[r] = "closed" THEN "eof" ELSE "reset"]
      BY <2>1, <2>3 DEF LocalReads
    <3>2. lgot'[s] = lgot[s] /\ (s # r => leof'[s] = leof[s]) /\ ldn'[s] = ldn[s]
      BY <2>2, <3>1
    <3>3. s # r => ~LocalReads(s) \/ ldn[s] = <<>>
      <4>1. ASSUME s # r, LocalReads(s), ldn[s] # <<>> PROVE FALSE
        <5>1. ldn' = [ldn EXCEPT ![s] = Tail(@)] /\ ldn[s] \in Seq(Nat)
          BY <2>2, <4>1 DEF LocalReads
        <5>2. Shrunk(ldn[s], ldn'[s]) /\ Len(ldn[s]) \in Nat
          BY <2>2, <4>1, <5>1, Shrinks
        <5> QED
          BY <3>2, <5>2 DEF Shrunk
      <4> QED
        BY <4>1
    <3> QED
      BY <2>1, <2>3, <3>1, <3>2, <3>3
  <2>4. CASE ldn[r] # <<>>
    <3>1. /\ ldn' = [ldn EXCEPT ![r] = Tail(@)] /\ UNCHANGED <<leof, lsock>>
          /\ IF Head(ldn[r]) = 0 THEN UNCHANGED lgot
             ELSE lgot' = [lgot EXCEPT ![r] = Append(@, Head(ldn[r]))]
      BY <2>1, <2>4 DEF LocalReads
    <3>2. /\ Head(ldn[r]) = ldn[r][1] /\ Shrunk(ldn[r], ldn'[r]) /\ Head(ldn[r]) \in Nat
          /\ Len(ldn[r]) \in Nat
      BY <2>2, <2>4, <3>1, Shrinks
    <3>3. CASE s = r
      <4>1. CASE Head(ldn[r]) = 0
        BY <2>2, <3>1, <3>2, <3>3, <4>1
      <4>2. CASE Head(ldn[r]) # 0
        <5>1. Grown(lgot[r], lgot'[r], ldn[r][1])
          <6>1. lgot'[r] = Append(lgot[r], Head(ldn[r]))
            BY <2>2, <3>1, <4>2
          <6> QED
            BY <2>2, <3>2, <6>1, Grows
        <5> QED
          BY <2>1, <2>4, <3>1, <3>2, <3>3, <4>2, <5>1
      <4> QED
        BY <4>1, <4>2
    <3>4. CASE s # r
      <4>1. lgot'[s] = lgot[s] /\ leof'[s] = leof[s] /\ ldn'[s] = ldn[s]
        BY <2>2, <3>1, <3>4
      <4>2. ASSUME LocalReads(s), ldn[s] # <<>> PROVE FALSE
        <5>1. ldn' = [ldn EXCEPT ![s] = Tail(@)] /\ ldn[s] \in Seq(Nat)
          BY <2>2, <4>2 DEF LocalReads
        <5>2. Shrunk(ldn[s], ldn'[s]) /\ Len(ldn[s]) \in Nat
          BY <2>2, <4>2, <5>1, Shrinks
        <5> QED
          BY <4>1, <5>2 DEF Shrunk
      <4> QED
        BY <4>1, <4>2
    <3> QED
      BY <3>3, <3>4
  <2> QED
    BY <2>3, <2>4
<1>2. CASE ~\E r \in Sessions : LocalReads(r)
  BY <1>2, LocalMoves DEF localVars, LocalSends, LocalFins
<1> QED
  BY <1>1, <1>2

(* What the target sends, and its thread takes.                            *)
LEMMA FeedSteps ==
  ASSUME Typed, [Next]_vars, NEW s \in Sessions
  PROVE  /\ tfin[s] => tfin'[s]
         /\ tfin'[s] => tfin[s] \/ TargetFins(s)
         /\ tpiece'[s] = tpiece[s] \/ tpc'[s] # tpc[s]
         /\ \/ /\ tsent'[s] = tsent[s]
               /\ tdn'[s] = tdn[s] \/ (tdn'[s] = <<>> /\ tsock'[s] \in {"closed", "reset"})
               /\ tpc'[s] # tpc[s] =>
                    tpc'[s] # "send" /\ (tpc'[s] = "end" => tdn[s] = <<>> /\ tfin[s])
            \/ /\ TargetSends(s) /\ tsent'[s] = tsent[s] + 1 /\ ~tfin[s] /\ tfin' = tfin
               /\ Grown(tdn[s], tdn'[s], tsent[s] + 1) /\ tsock[s] \in {"open", "half"}
               /\ UNCHANGED <<tpc, tpiece, tsock>>
            \/ /\ ReadTarget(s) /\ tsent' = tsent /\ tpc[s] = "read" /\ tpc'[s] = "send"
               /\ tsock[s] \in {"open", "half"} /\ UNCHANGED tsock
               /\ Shrunk(tdn[s], tdn'[s]) /\ Len(tdn[s]) > 0 /\ tpiece'[s] = tdn[s][1]
<1> USE DEF Typed, AllTypes
<1> DEFINE Still == /\ tsent'[s] = tsent[s]
                    /\ tdn'[s] = tdn[s] \/ (tdn'[s] = <<>> /\ tsock'[s] \in {"closed", "reset"})
           Kept == tpc'[s] # tpc[s] =>
                     tpc'[s] # "send" /\ (tpc'[s] = "end" => tdn[s] = <<>> /\ tfin[s])
           Feeds == /\ TargetSends(s) /\ tsent'[s] = tsent[s] + 1 /\ ~tfin[s] /\ tfin' = tfin
                    /\ Grown(tdn[s], tdn'[s], tsent[s] + 1) /\ tsock[s] \in {"open", "half"}
                    /\ UNCHANGED <<tpc, tpiece, tsock>>
           Takes == /\ ReadTarget(s) /\ tsent' = tsent /\ tpc[s] = "read" /\ tpc'[s] = "send"
                    /\ tsock[s] \in {"open", "half"} /\ UNCHANGED tsock
                    /\ Shrunk(tdn[s], tdn'[s]) /\ Len(tdn[s]) > 0 /\ tpiece'[s] = tdn[s][1]
<1>0. /\ tsent \in [Sessions -> 0 .. MaxDown] /\ tfin \in [Sessions -> BOOLEAN]
      /\ tdn \in [Sessions -> Seq(Nat)] /\ tpiece \in [Sessions -> Nat]
      /\ tpc \in [Sessions -> {"unborn", "read", "send", "end", "notice", "gone"}]
      /\ tsock \in [Sessions -> {"none", "open", "half", "closed", "reset"}]
  BY DEF TargetTypes, TsockTypes, ThreadTypes
<1>1. ASSUME NEW S \in SUBSET Sessions, ShutTargets(S)
      PROVE  tdn'[s] = tdn[s] \/ (tdn'[s] = <<>> /\ tsock'[s] \in {"closed", "reset"})
  BY <1>0, <1>1, ShutTargetsTypes
<1>2. (tfin[s] => tfin'[s]) /\ (tfin'[s] => tfin[s] \/ TargetFins(s))
  BY <1>0, TargetMoves DEF targetVars, TargetSends, TargetFins, TargetReads
<1>3. tpiece'[s] = tpiece[s] \/ tpc'[s] # tpc[s]
  <2>1. ASSUME NEW r \in Sessions, ReadTarget(r)
        PROVE  tpiece'[s] = tpiece[s] \/ tpc'[s] # tpc[s]
    BY <1>0, <2>1 DEF ReadTarget
  <2>2. ASSUME NEW r \in Sessions, SendData(r)
        PROVE  tpiece'[s] = tpiece[s] \/ tpc'[s] # tpc[s]
    <3>1. /\ tpiece' = [tpiece EXCEPT ![r] = 0] /\ tpc[r] = "send"
          /\ tpc' = [tpc EXCEPT ![r] = "read"] \/ tpc' = [tpc EXCEPT ![r] = "gone"]
      BY <2>2 DEF SendData
    <3> QED
      BY <1>0, <3>1
  <2> QED
    BY <2>1, <2>2, ThreadMoves DEF threadVars, SayConnected, EndSession, SayClose
<1>4. CASE UNCHANGED <<tsockVars, targetVars, threadVars>>
  BY <1>2, <1>3, <1>4 DEF tsockVars, targetVars, threadVars
<1>5. ASSUME NEW e \in Epochs, ReadFrame(e) PROVE Still /\ Kept
  <2>1. Head(up[e]).s \in Sessions \cup {0}
    BY <1>5, FrameRead DEF Frames
  <2>2. UNCHANGED tdn \/ (Head(up[e]).s \in Sessions /\ ShutTargets({Head(up[e]).s}))
    BY <1>5, FrameRead DEF ReadFrame, tsockVars, UpType
  <2>3. UNCHANGED <<threadVars, targetVars>>
    BY <1>5 DEF ReadFrame, readRest
  <2> QED
    BY <1>1, <2>1, <2>2, <2>3 DEF threadVars, targetVars
<1>6. ASSUME NEW e \in Epochs, Dial(e) \/ WriteTarget(e) \/ StopManager(e) PROVE Still /\ Kept
  BY <1>1, <1>6 DEF Dial, WriteTarget, StopManager, readRest, threadVars, targetVars, ReadTypes
<1>7. ASSUME NEW e \in Epochs, SayConnected(e) PROVE Still /\ Kept
  <2>1. tpc' = [tpc EXCEPT ![rframe[e].s] = "read"] /\ UNCHANGED <<tdn, tsent>>
    BY <1>7 DEF SayConnected, readRest, tsockVars, targetVars
  <2> QED
    BY <1>0, <2>1
<1>8. ASSUME NEW r \in Sessions, ReadTarget(r) PROVE (Still /\ Kept) \/ Takes
  <2>1. UNCHANGED <<tsent, tsock, tfin>>
    BY <1>8 DEF ReadTarget, threadRest, targetVars
  <2>2. CASE s # r
    BY <1>0, <1>8, <2>1, <2>2 DEF ReadTarget
  <2>3. CASE s = r /\ tdn' = tdn
    BY <1>0, <1>8, <2>1, <2>3 DEF ReadTarget
  <2>4. CASE s = r /\ tsock[s] \in {"open", "half"} /\ tdn[s] # <<>> /\ tpc[s] = "read"
             /\ tpiece' = [tpiece EXCEPT ![s] = Head(tdn[s])] /\ tdn' = [tdn EXCEPT ![s] = Tail(@)]
             /\ tpc' = [tpc EXCEPT ![s] = "send"]
    <3>1. /\ Head(tdn[s]) = tdn[s][1] /\ Shrunk(tdn[s], Tail(tdn[s])) /\ Len(tdn[s]) \in Nat \ {0}
      BY <1>0, <2>4, Shrinks
    <3>2. tdn'[s] = Tail(tdn[s]) /\ tpc'[s] = "send" /\ tpiece'[s] = Head(tdn[s])
      BY <1>0, <2>4
    <3> QED
      BY <1>8, <2>1, <2>4, <3>1, <3>2
  <2> QED
    BY <1>8, <2>2, <2>3, <2>4 DEF ReadTarget
<1>9. ASSUME NEW r \in Sessions, SendData(r) \/ EndSession(r) \/ SayClose(r) PROVE Still /\ Kept
  <2>1. UNCHANGED tsent
    BY <1>9 DEF SendData, EndSession, SayClose, threadRest, targetVars
  <2>2. UNCHANGED tdn \/ ShutTargets({r})
    BY <1>9 DEF SendData, EndSession, SayClose, tsockVars
  <2>3. tpc'[s] = tpc[s] \/ tpc'[s] \in {"read", "gone", "notice"}
    BY <1>0, <1>9 DEF SendData, EndSession, SayClose
  <2> QED
    BY <1>1, <2>1, <2>2, <2>3
<1>10. ASSUME NEW r \in Sessions, TargetSends(r) PROVE (Still /\ Kept) \/ Feeds
  <2>1. /\ UNCHANGED <<tpc, tpiece, tsock, tfin>> /\ ~tfin[r] /\ tsock[r] \in {"open", "half"}
        /\ tsent' = [tsent EXCEPT ![r] = @ + 1]
        /\ tdn' = [tdn EXCEPT ![r] = Append(@, tsent[r] + 1)]
    BY <1>10 DEF TargetSends, threadVars
  <2>2. tsent[r] + 1 \in Nat
    BY <1>0, SystemAssumption
  <2>3. Grown(tdn[r], tdn'[r], tsent[r] + 1)
    BY <1>0, <2>1, <2>2, Grows
  <2> QED
    BY <1>0, <1>10, <2>1, <2>3
<1>11. ASSUME NEW r \in Sessions, TargetSendsLate(r) \/ TargetReads(r) \/ TargetFins(r)
       PROVE  Still /\ Kept
  BY <1>11 DEF TargetSendsLate, TargetReads, TargetFins, threadVars, targetVars, tsockVars
<1> HIDE DEF Still, Kept, Feeds, Takes
<1>12. (Still /\ Kept) \/ Feeds \/ Takes \/ UNCHANGED <<tsockVars, targetVars, threadVars>>
  BY <1>5, <1>6, <1>7, <1>8, <1>9, <1>10, <1>11, TsockMoves, TargetMoves, ThreadMoves
<1> QED
  BY <1>2, <1>3, <1>4, <1>12 DEF Still, Kept, Feeds, Takes

-----------------------------------------------------------------------------
(* From the target to its thread                                           *)

(* The socket of the target has the last pieces sent, its thread the one   *)
(* before them.                                                            *)
TargetLine(s) ==
  /\ Len(tdn[s]) <= tsent[s]
  /\ \A i \in 1 .. Len(tdn[s]) : tdn[s][i] = tsent[s] - Len(tdn[s]) + i
  /\ tsock[s] = "none" => tsent[s] = 0
  /\ tpc[s] = "unborn" /\ tsock[s] = "open" => Len(tdn[s]) = tsent[s]
  /\ tpc[s] = "send" =>
       /\ tpiece[s] \in 1 .. tsent[s]
       /\ tsock[s] \in {"open", "half"} => tpiece[s] = tsent[s] - Len(tdn[s])
  /\ tpc[s] \in {"end", "notice"} => tfin[s] /\ Len(tdn[s]) = 0

LEMMA TargetLineKept ==
  ASSUME Typed, [Next]_vars, NEW s \in Sessions, TargetLine(s), \A e \in Epochs : InHand(e, s)
  PROVE  TargetLine(s)'
<1>1. /\ tsent[s] \in Nat /\ Len(tdn[s]) \in Nat /\ tdn[s] \in Seq(Nat) /\ tpiece[s] \in Nat
      /\ tsock[s] \in {"none", "open", "half", "closed", "reset"}
      /\ tpc[s] \in {"unborn", "read", "send", "end", "notice", "gone"}
  BY SystemAssumption, LenProperties DEF Typed, AllTypes, TargetTypes, TsockTypes, ThreadTypes
<1>2. Len(<<>>) = 0
  OBVIOUS
<1>3. /\ tsock'[s] = "none" => tsock[s] = "none"
      /\ tsock[s] = "none" => tsock'[s] \in {"none", "open"}
      /\ tsock'[s] = "open" => tsock[s] \in {"open", "none"}
      /\ tsock'[s] = "half" => tsock[s] \in {"open", "half"}
  <2>1. Dialled(s) => tsock[s] = "none"
    BY DEF Dialled, Dial, InHand
  <2> QED
    BY <2>1, SockSteps
<1>4. CASE /\ tsent'[s] = tsent[s]
           /\ tdn'[s] = tdn[s] \/ (tdn'[s] = <<>> /\ tsock'[s] \in {"closed", "reset"})
           /\ tpc'[s] # tpc[s] =>
                tpc'[s] # "send" /\ (tpc'[s] = "end" => tdn[s] = <<>> /\ tfin[s])
  <2>1. Len(tdn'[s]) \in Nat /\ Len(tdn'[s]) <= Len(tdn[s])
    BY <1>1, <1>2, <1>4
  <2>2. tpc'[s] = "unborn" => tpc[s] = "unborn"
    BY ThreadSteps
  <2>3. tpc'[s] = "send" => tpc[s] = "send" /\ tpiece'[s] = tpiece[s]
    BY <1>4, FeedSteps
  <2>4. tpc'[s] \in {"end", "notice"} => tfin'[s] /\ Len(tdn'[s]) = 0
    <3>1. tpc'[s] \in {"end", "notice"} =>
            tpc[s] \in {"end", "notice"} \/ (tdn[s] = <<>> /\ tfin[s])
      BY <1>4, ThreadSteps
    <3> QED
      BY <1>1, <1>2, <2>1, <3>1, FeedSteps DEF TargetLine
  <2>5. tpc'[s] = "unborn" /\ tsock'[s] = "open" => Len(tdn'[s]) = tsent'[s]
    BY <1>1, <1>3, <1>4, <2>2 DEF TargetLine
  <2>6. tpc'[s] = "send" =>
          /\ tpiece'[s] \in 1 .. tsent'[s]
          /\ tsock'[s] \in {"open", "half"} => tpiece'[s] = tsent'[s] - Len(tdn'[s])
    BY <1>1, <1>3, <1>4, <2>3 DEF TargetLine
  <2>7. /\ Len(tdn'[s]) <= tsent'[s] /\ (tsock'[s] = "none" => tsent'[s] = 0)
        /\ \A i \in 1 .. Len(tdn'[s]) : tdn'[s][i] = tsent'[s] - Len(tdn'[s]) + i
    BY <1>1, <1>2, <1>3, <1>4 DEF TargetLine
  <2> QED
    BY <2>4, <2>5, <2>6, <2>7 DEF TargetLine
<1>5. CASE /\ tsent'[s] = tsent[s] + 1 /\ ~tfin[s] /\ tfin' = tfin
           /\ Grown(tdn[s], tdn'[s], tsent[s] + 1) /\ tsock[s] \in {"open", "half"}
           /\ UNCHANGED <<tpc, tpiece, tsock>>
  <2>1. /\ Len(tdn'[s]) = Len(tdn[s]) + 1 /\ tdn'[s][Len(tdn[s]) + 1] = tsent[s] + 1
        /\ \A i \in 1 .. Len(tdn[s]) : tdn'[s][i] = tdn[s][i]
    BY <1>5 DEF Grown
  <2>2. \A i \in 1 .. Len(tdn'[s]) : tdn'[s][i] = tsent'[s] - Len(tdn'[s]) + i
    <3>1. ASSUME NEW i \in 1 .. Len(tdn'[s]) PROVE i = Len(tdn[s]) + 1 \/ i \in 1 .. Len(tdn[s])
      BY <1>1, <2>1
    <3>2. Len(tdn'[s]) = Len(tdn[s]) + 1 /\ tsent'[s] = tsent[s] + 1
      BY <1>5, <2>1
    <3>3. ASSUME NEW i \in 1 .. Len(tdn[s])
          PROVE  tdn'[s][i] = tsent'[s] - Len(tdn'[s]) + i
      <4>1. tdn'[s][i] = tsent[s] - Len(tdn[s]) + i
        BY <2>1 DEF TargetLine
      <4> QED
        BY <1>1, <3>2, <4>1
    <3>4. tdn'[s][Len(tdn[s]) + 1] = tsent'[s] - Len(tdn'[s]) + (Len(tdn[s]) + 1)
      BY <1>1, <2>1, <3>2
    <3> QED
      BY <3>1, <3>3, <3>4
  <2>3. tpc[s] \notin {"end", "notice"}
    BY <1>5 DEF TargetLine
  <2> QED
    BY <1>1, <1>5, <2>1, <2>2, <2>3 DEF TargetLine
<1>6. CASE /\ tsent' = tsent /\ tpc[s] = "read" /\ tpc'[s] = "send"
           /\ tsock[s] \in {"open", "half"} /\ UNCHANGED tsock
           /\ Shrunk(tdn[s], tdn'[s]) /\ Len(tdn[s]) > 0 /\ tpiece'[s] = tdn[s][1]
  <2>1. tdn'[s] \in Seq(Nat) /\ Len(tdn'[s]) \in Nat
    <3>1. TsockTypes'
      BY TsockKept
    <3> QED
      BY <3>1, LenProperties DEF TsockTypes
  <2>2. Len(tdn[s]) = Len(tdn'[s]) + 1 /\ \A i \in 1 .. Len(tdn'[s]) : tdn'[s][i] = tdn[s][i + 1]
    BY <1>6 DEF Shrunk
  <2>3. tpiece'[s] = tsent[s] - Len(tdn'[s])
    <3>1. 1 \in 1 .. Len(tdn[s])
      BY <1>1, <1>6
    <3>2. tdn[s][1] = tsent[s] - Len(tdn[s]) + 1
      BY <3>1 DEF TargetLine
    <3> QED
      BY <1>1, <1>6, <2>1, <2>2, <3>2
  <2>4. ASSUME NEW i \in 1 .. Len(tdn'[s]) PROVE tdn'[s][i] = tsent'[s] - Len(tdn'[s]) + i
    <3>1. i + 1 \in 1 .. Len(tdn[s]) /\ i \in Nat
      BY <1>1, <2>1, <2>2
    <3>2. tdn[s][i + 1] = tsent[s] - Len(tdn[s]) + (i + 1)
      BY <3>1 DEF TargetLine
    <3>3. tdn'[s][i] = tdn[s][i + 1] /\ tsent'[s] = tsent[s] /\ Len(tdn[s]) = Len(tdn'[s]) + 1
      BY <1>6, <2>2
    <3>4. /\ tsent[s] \in Nat /\ Len(tdn[s]) \in Nat /\ Len(tdn'[s]) \in Nat /\ i \in Nat
          /\ Len(tdn[s]) = Len(tdn'[s]) + 1
      BY <1>1, <2>1, <2>2, <3>1
    <3>5. tsent[s] - Len(tdn[s]) + (i + 1) = tsent[s] - Len(tdn'[s]) + i
      BY <3>4
    <3> QED
      BY <3>2, <3>3, <3>5
  <2> QED
    BY <1>1, <1>6, <2>1, <2>2, <2>3, <2>4 DEF TargetLine
<1> QED
  BY <1>4, <1>5, <1>6, FeedSteps

-----------------------------------------------------------------------------
(* What the client notes of a session                                      *)

(* Who marks it closed, and who ended.                                     *)
Closer(s) ==
  \/ LoopRead /\ s \in smap /\ down[ws][1].s = s /\ down[ws][1].t \in {"close", "error"}
     /\ Len(down[ws]) > 0
  \/ Finish /\ h = s /\ ~ended[s]
  \/ Lost(s)
  \/ LoopMark /\ frame.s = s
Ender(s) ==
  \/ Finish /\ h = s
  \/ Lost(s)
  \/ LoopShut /\ frame.s = s
  \/ LoopTell /\ s \in todo

LEMMA HeadRead ==
  ASSUME Typed, LoopRead
  PROVE  /\ Head(down[ws]) = down[ws][1] /\ Len(down[ws]) \in Nat \ {0} /\ ws \in Epochs
         /\ down[ws][1] \in Frames /\ DownType(down[ws][1]) /\ down[ws] \in Seq(Frames)
         /\ Shrunk(down[ws], down'[ws])
<1>1. down[ws] # <<>> /\ ws \in Epochs /\ down[ws] \in Seq(Frames)
      /\ down' = [down EXCEPT ![ws] = Tail(@)] /\ down \in [Epochs -> Seq(Frames)]
  BY DEF LoopRead, Typed, AllTypes, WireTypes
<1>2. /\ Head(down[ws]) = down[ws][1] /\ Head(down[ws]) \in Frames /\ Len(down[ws]) \in Nat \ {0}
      /\ Shrunk(down[ws], Tail(down[ws]))
  BY <1>1, Shrinks
<1>3. down'[ws] = Tail(down[ws])
  BY <1>1
<1>4. DownType(down[ws][1])
  BY <1>1, <1>2 DEF Typed, Shapes
<1> QED
  BY <1>1, <1>2, <1>3, <1>4

LEMMA FlagSteps ==
  ASSUME Typed, [Next]_vars, NEW s \in Sessions
  PROVE  /\ closed'[s] <=> closed[s] \/ (closed'[s] /\ Closer(s) /\ (s \notin smap' \/ LoopMark))
         /\ ended'[s] <=> \/ ended[s]
                          \/ ended'[s] /\ Ender(s) /\ (s \notin smap' \/ closed'[s]
                                    \/ (LoopShut /\ frame.s = s) \/ (LoopTell /\ s \in todo))
         /\ s \in smap' => s \in smap \/ (OpenSession /\ Usable /\ h = s)
         /\ upClosed'[s] <=> upClosed[s] \/ (upClosed'[s] /\ ((PumpEnd /\ h = s)
                                               \/ (LoopHalf /\ frame.s = s /\ half[s])))
         /\ half'[s] <=> half[s] \/ (half'[s] /\ PumpEnd /\ h = s)
<1> USE DEF Typed, AllTypes
<1>0. /\ closed \in [Sessions -> BOOLEAN] /\ ended \in [Sessions -> BOOLEAN]
      /\ upClosed \in [Sessions -> BOOLEAN] /\ half \in [Sessions -> BOOLEAN]
      /\ ClientTypes'
  BY ClientKept DEF ClientTypes
<1> DEFINE
      G == /\ closed'[s] <=> closed[s] \/ (closed'[s] /\ Closer(s) /\ (s \notin smap' \/ LoopMark))
           /\ ended'[s] <=> \/ ended[s]
                            \/ ended'[s] /\ Ender(s) /\ (s \notin smap' \/ closed'[s]
                                      \/ (LoopShut /\ frame.s = s) \/ (LoopTell /\ s \in todo))
           /\ s \in smap' => s \in smap \/ (OpenSession /\ Usable /\ h = s)
           /\ upClosed'[s] <=> upClosed[s] \/ (upClosed'[s] /\ ((PumpEnd /\ h = s)
                                                  \/ (LoopHalf /\ frame.s = s /\ half[s])))
           /\ half'[s] <=> half[s] \/ (half'[s] /\ PumpEnd /\ h = s)
<1>1. ASSUME smap' \subseteq smap, UNCHANGED <<closed, ended, upClosed, half>> PROVE G
  BY <1>0, <1>1
<1>2. CASE UNCHANGED clientVars
  BY <1>1, <1>2 DEF clientVars
<1>3. CASE OpenSession
  <2>1. /\ UNCHANGED <<closed, ended, upClosed, half>>
        /\ s \in smap' => s \in smap \/ (Usable /\ h = s)
    BY <1>3 DEF OpenSession
  <2> QED
    BY <1>0, <1>3, <2>1
<1>4. CASE SendConnect \/ PumpPiece \/ LoopLoss
  BY <1>1, <1>4 DEF SendConnect, PumpPiece, LoopLoss
<1>5. ASSUME NEW r \in Sessions, DropSession(r), Lost(r), UNCHANGED <<upClosed, half>> PROVE G
  <2>1. /\ closed' = [closed EXCEPT ![r] = TRUE] /\ smap' = smap \ {r}
        /\ \A x \in Sessions : ended'[x] <=> ended[x] \/ (x = r /\ ~closed[r])
    BY <1>5, DropTypes
  <2> QED
    BY <1>0, <1>5, <2>1 DEF Closer, Ender
<1>6. CASE PumpPush
  <2>1. CASE UNCHANGED <<closed, smap, ended>>
    BY <1>1, <1>6, <2>1 DEF PumpPush
  <2>2. CASE link[ws] = "lost" /\ DropSession(h)
    <3>1. h \in Sessions /\ Lost(h) /\ UNCHANGED <<upClosed, half>>
      BY <1>6, <2>2 DEF PumpPush, Shapes, Lost
    <3> QED
      BY <1>5, <2>2, <3>1
  <2> QED
    BY <1>6, <2>1, <2>2 DEF PumpPush
<1>7. CASE PumpEnd
  <2>1. h \in Sessions /\ UNCHANGED <<smap, closed, ended>>
    BY <1>7 DEF PumpEnd, Shapes
  <2>2. /\ upClosed' = upClosed \/ upClosed' = [upClosed EXCEPT ![h] = TRUE]
        /\ half' = half \/ half' = [half EXCEPT ![h] = TRUE]
    BY <1>7 DEF PumpEnd, PushEnd
  <2> QED
    BY <1>0, <1>7, <2>1, <2>2
<1>8. CASE Finish
  <2>1. /\ h \in Sessions /\ UNCHANGED <<upClosed, half>> /\ ended' = [ended EXCEPT ![h] = TRUE]
        /\ \/ ended[h] /\ UNCHANGED <<closed, smap>>
           \/ closed[h] /\ UNCHANGED <<closed, smap>>
           \/ ~ended[h] /\ closed' = [closed EXCEPT ![h] = TRUE] /\ smap' = smap \ {h}
    BY <1>8 DEF Finish, Shapes
  <2>2. CASE s # h
    BY <1>0, <2>1, <2>2
  <2>3. CASE s = h
    BY <1>0, <1>8, <2>1, <2>3 DEF Closer, Ender
  <2> QED
    BY <2>2, <2>3
<1>9. CASE LoopRead
  <2>1. UNCHANGED <<ended, upClosed, half>>
    BY <1>9 DEF LoopRead
  <2>2. \/ UNCHANGED <<smap, closed>>
        \/ /\ down[ws][1].s \in smap /\ down[ws][1].t \in {"close", "error"}
           /\ smap' = smap \ {down[ws][1].s} /\ closed' = [closed EXCEPT ![down[ws][1].s] = TRUE]
    BY <1>9, HeadRead DEF LoopRead
  <2> QED
    BY <1>0, <1>9, <2>1, <2>2, HeadRead DEF Closer
<1>10. ASSUME NEW k, LoopPush(frame.s, k), frame.s \in Sessions, lpc \in {"greet", "flush"},
              UNCHANGED <<upClosed, half>>
       PROVE  G
  <2>1. CASE UNCHANGED <<closed, smap, ended>>
    BY <1>1, <1>10, <2>1
  <2>2. CASE link[ws] = "lost" /\ DropSession(frame.s)
    BY <1>5, <1>10, <2>2 DEF Lost
  <2> QED
    BY <1>10, <2>1, <2>2 DEF LoopPush
<1>11. CASE LoopGreet
  BY <1>1, <1>10, <1>11 DEF LoopGreet, Shapes
<1>12. CASE LoopFlush
  BY <1>1, <1>10, <1>12 DEF LoopFlush, Shapes
<1>13. CASE LoopHalf
  <2>1. frame.s \in Sessions /\ UNCHANGED <<smap, closed, ended, half>>
    BY <1>13 DEF LoopHalf, Shapes
  <2>2. upClosed' = upClosed \/ (half[frame.s] /\ upClosed' = [upClosed EXCEPT ![frame.s] = TRUE])
    BY <1>13 DEF LoopHalf, PushEnd
  <2> QED
    BY <1>0, <1>13, <2>1, <2>2
<1>14. CASE LoopShut
  <2>1. frame.s \in Sessions /\ UNCHANGED <<smap, closed, upClosed, half>>
    BY <1>14 DEF LoopShut, Shapes
  <2>2. ended' = ended \/ ended' = [ended EXCEPT ![frame.s] = TRUE]
    BY <1>14 DEF LoopShut, OnClose
  <2> QED
    BY <1>0, <1>14, <2>1, <2>2 DEF Ender
<1>15. CASE LoopTell
  <2>1. PICK r \in todo : ended' = ended \/ ended' = [ended EXCEPT ![r] = TRUE]
    BY <1>15 DEF LoopTell
  <2>2. r \in Sessions /\ UNCHANGED <<smap, closed, upClosed, half>>
    BY <1>15, <2>1 DEF LoopTell, LoopTypes
  <2> QED
    BY <1>0, <1>15, <2>1, <2>2 DEF Ender
<1>16. CASE LoopMark
  <2>1. frame.s \in Sessions /\ UNCHANGED <<smap, ended, upClosed, half>>
        /\ closed' = [closed EXCEPT ![frame.s] = TRUE]
    BY <1>16 DEF LoopMark, Shapes
  <2> QED
    BY <1>0, <1>16, <2>1 DEF Closer
<1> QED
  BY <1>2, <1>3, <1>4, <1>6, <1>7, <1>8, <1>9, <1>11, <1>12, <1>13, <1>14, <1>15, <1>16, ClientMoves

(* The frame in the hand of the loop.                                      *)
LEMMA LoopSteps ==
  ASSUME Typed, [Next]_vars, NEW s \in Sessions
  PROVE  /\ frame'.s = s =>
              \/ /\ frame' = frame
                 /\ \/ /\ lpc' = lpc
                       /\ ~LoopGreet /\ ~LoopDeliver /\ ~LoopShut /\ ~LoopMark /\ ~LoopHalf
                    \/ LoopGreet /\ lpc = "greet" /\ lpc' = "flush"
                    \/ LoopFlush /\ lpc = "flush" /\ lpc' = "half"
                    \/ (LoopLoss \/ LoopTold \/ LoopDial) /\ lpc' \in {"tell", "dial", "read"}
              \/ /\ LoopRead /\ s \in smap /\ frame' = down[ws][1] /\ down[ws][1].s = s
                 /\ lpc' = (CASE down[ws][1].t = "data" -> "deliver"
                              [] down[ws][1].t = "connected" -> "greet"
                              [] down[ws][1].t \in {"close", "error"} -> "shut")
                 /\ opened'[s] = (opened[s] \/ down[ws][1].t = "connected")
                 /\ lpc' = "shut" => closed'[s]
              \/ LoopTell /\ s \in todo /\ lpc' = "mark"
         /\ s \in todo' => \/ s \in todo /\ (lpc \in {"tell", "mark"} => lpc' \in {"tell", "mark"})
                           \/ LoopLoss /\ s \in smap /\ lpc' = "tell"
<1> USE DEF Typed, AllTypes, LoopTypes
<1>1. CASE UNCHANGED loopVars
  <2>1. UNCHANGED <<lpc, frame, flush, todo>>
    BY <1>1 DEF loopVars
  <2>2. ~LoopGreet /\ ~LoopDeliver /\ ~LoopShut /\ ~LoopMark /\ ~LoopHalf
    BY <2>1 DEF LoopGreet, LoopDeliver, LoopShut, LoopMark, LoopHalf
  <2> QED
    BY <2>1, <2>2
<1>2. CASE LoopRead
  <2>1. /\ frame' = (IF down[ws][1].s \in smap THEN down[ws][1] ELSE NoFrame)
        /\ lpc = "read" /\ todo' = todo
    BY <1>2, HeadRead DEF LoopRead
  <2>2. down[ws][1].s \in smap =>
          /\ lpc' = (CASE down[ws][1].t = "data" -> "deliver"
                       [] down[ws][1].t = "connected" -> "greet"
                       [] down[ws][1].t \in {"close", "error"} -> "shut")
          /\ opened'[down[ws][1].s] = (opened[down[ws][1].s] \/ down[ws][1].t = "connected")
          /\ down[ws][1].t \in {"close", "error"} => closed'[down[ws][1].s]
    BY <1>2, HeadRead DEF LoopRead, ClientTypes
  <2>3. NoFrame.s # s
    BY SystemAssumption DEF NoFrame, Frame
  <2>4. frame'.s = s => s \in smap /\ down[ws][1].s = s
    BY <2>1, <2>3
  <2>5. down[ws][1].t \notin {"data", "connected"} => down[ws][1].t \in {"close", "error", "pong"}
    BY <1>2, HeadRead DEF DownType
  <2>6. frame'.s = s => down[ws][1].t # "pong"
    BY <1>2, <2>4, HeadRead, SystemAssumption DEF DownType
  <2> QED
    BY <1>2, <2>1, <2>2, <2>4, <2>5, <2>6
<1>3. CASE LoopDeliver \/ LoopHalf \/ LoopShut \/ LoopMark
  <2>1. frame'.s # s /\ todo' = todo
    BY <1>3, SystemAssumption DEF LoopDeliver, LoopHalf, LoopShut, LoopMark, NoFrame, Frame
  <2>2. lpc \in {"tell", "mark"} => lpc' \in {"tell", "mark"}
    BY <1>3 DEF LoopDeliver, LoopHalf, LoopShut, LoopMark
  <2> QED
    BY <2>1, <2>2
<1>4. CASE LoopGreet \/ LoopFlush
  <2>1. UNCHANGED <<frame, todo>>
    BY <1>4 DEF LoopGreet, LoopFlush
  <2>2. /\ lpc' # "read"
        /\ \/ LoopGreet /\ lpc = "greet" /\ lpc' = "flush"
           \/ LoopFlush /\ lpc = "flush" /\ lpc' \in {"flush", "half"}
    BY <1>4 DEF LoopGreet, LoopFlush
  <2> QED
    BY <2>1, <2>2 DEF LoopGreet, LoopDeliver, LoopShut, LoopMark, LoopHalf
<1>5. CASE LoopLoss
  BY <1>5 DEF LoopLoss
<1>6. CASE LoopTell
  <2>1. PICK r \in todo : frame' = Frame("close", r, 0) /\ todo' = todo \ {r}
    BY <1>6 DEF LoopTell
  <2> QED
    BY <1>6, <2>1 DEF LoopTell, Frame
<1>7. CASE LoopTold \/ LoopDial
  BY <1>7 DEF LoopTold, LoopDial
<1> QED
  BY <1>1, <1>2, <1>3, <1>4, <1>5, <1>6, <1>7, LoopMoves

(* Where the handler goes.                                                 *)
LEMMA HandSteps ==
  ASSUME Typed, [Next]_vars
  PROVE  \/ UNCHANGED handVars /\ ~OpenSession /\ ~PumpRead /\ ~PumpPiece /\ ~PumpPush /\ ~Finish
            /\ ~PumpEnd /\ ~Accept /\ ~SendClose /\ ~ShutConnection /\ ~SendConnect
         \/ Accept /\ hpc = "accept" /\ hpc' = "open" /\ h' \in Sessions /\ lsock[h'] = "none"
            /\ UNCHANGED piece
         \/ h' = h /\ h \in Sessions /\
              \/ OpenSession /\ hpc = "open" /\ hpc' = (IF Usable THEN "connect" ELSE "accept")
                 /\ (hpc' = "accept" => ShutLocal(h) /\ cut'[h]) /\ UNCHANGED piece
              \/ SendConnect /\ hpc = "connect" /\ hpc' \in {"pump", "accept"} /\ UNCHANGED piece
                 /\ (hpc' = "accept" => ShutLocal(h) /\ cut'[h] /\ smap' = smap \ {h})
              \/ PumpRead /\ hpc = "pump" /\ hpc' \in {"piece", "end", "finish"}
              \/ PumpPiece /\ hpc = "piece" /\ hpc' \in {"pump", "push", "finish"}
              \/ PumpPush /\ hpc = "push" /\ hpc' \in {"pump", "finish"} /\ piece' = 0
              \/ PumpEnd /\ hpc = "end" /\ hpc' = "finish" /\ UNCHANGED piece
              \/ Finish /\ hpc = "finish" /\ UNCHANGED piece
                 /\ hpc' = (IF ended[h] THEN "accept" ELSE IF closed[h] THEN "shut" ELSE "notify")
              \/ SendClose /\ hpc = "notify" /\ hpc' = "shut" /\ UNCHANGED piece
              \/ ShutConnection /\ hpc = "shut" /\ hpc' = "accept" /\ UNCHANGED piece
                 /\ ShutLocal(h)
<1> USE DEF Typed, AllTypes, Shapes
<1>1. CASE UNCHANGED handVars
  <2>1. hpc' = hpc
    BY <1>1 DEF handVars
  <2>2. ~OpenSession /\ ~PumpRead /\ ~PumpEnd /\ ~Accept /\ ~SendClose /\ ~ShutConnection
    BY <2>1 DEF OpenSession, Refuse, PumpRead, PumpEnd, Accept, SendClose, ShutConnection
  <2>3. ~PumpPiece /\ ~PumpPush /\ ~Finish /\ ~SendConnect
    BY <2>1 DEF PumpPiece, PumpPush, Finish, SendConnect, Refuse
  <2> QED
    BY <1>1, <2>2, <2>3
<1>2. CASE Accept
  BY <1>2 DEF Accept
<1>3. CASE OpenSession
  <2>1. h \in Sessions /\ hpc = "open" /\ UNCHANGED <<h, piece>>
    BY <1>3 DEF OpenSession
  <2> QED
    BY <1>3, <2>1 DEF OpenSession, Refuse, CutTypes
<1>4. CASE SendConnect
  <2>1. h \in Sessions /\ hpc = "connect" /\ UNCHANGED <<h, piece>>
    BY <1>4 DEF SendConnect
  <2> QED
    BY <1>4, <2>1 DEF SendConnect, Refuse, CutTypes
<1>5. CASE PumpRead \/ PumpPiece \/ PumpPush \/ PumpEnd
  BY <1>5 DEF PumpRead, PumpPiece, PumpPush, PumpEnd
<1>6. CASE Finish \/ SendClose \/ ShutConnection
  BY <1>6 DEF Finish, SendClose, ShutConnection
<1> QED
  BY <1>1, <1>2, <1>3, <1>4, <1>5, <1>6, HandMoves

(* A session begins with everything unset; in the map, it is still whole.  *)
Untouched(s) ==
  /\ s \notin smap /\ s \notin todo /\ frame.s # s
  /\ ~closed[s] /\ ~ended[s] /\ ~upClosed[s] /\ ~half[s]

Alive(s) ==
  /\ lsock[s] = "none" => Untouched(s)
  /\ h = s /\ hpc = "open" => Untouched(s) /\ lsock[s] = "open"
  /\ s \in smap => ~closed[s] /\ ~ended[s] /\ lsock[s] = "open"
  /\ s \in todo => lpc \in {"tell", "mark"}
  /\ frame.s = s /\ lpc = "shut" => closed[s]
  /\ h = s /\ hpc \in {"notify", "shut"} => closed[s]

LEMMA UntouchedKept ==
  ASSUME Typed, [Next]_vars, NEW s \in Sessions, Untouched(s), ~(OpenSession /\ h = s),
         h = s => hpc \in {"accept", "open"}
  PROVE  Untouched(s)'
<1>1. ~(h = s /\ hpc = "push") /\ ~(Finish /\ h = s) /\ ~(PumpEnd /\ h = s)
  BY DEF Finish, PumpEnd
<1>2. ~Closer(s) /\ ~Ender(s)
  BY <1>1 DEF Closer, Ender, Lost, Untouched
<1>3. s \notin smap' /\ ~closed'[s] /\ ~ended'[s] /\ ~upClosed'[s] /\ ~half'[s]
  BY <1>1, <1>2, FlagSteps DEF Untouched
<1>4. s \notin todo' /\ frame'.s # s
  BY LoopSteps DEF Untouched
<1> QED
  BY <1>3, <1>4 DEF Untouched

LEMMA AliveKept ==
  ASSUME Typed, Linked, [Next]_vars, NEW s \in Sessions, Alive(s)
  PROVE  Alive(s)'
<1>1. ASSUME lsock'[s] = "none" PROVE Untouched(s)'
  <2>1. lsock[s] = "none"
    BY <1>1, SocketsStay
  <2>2. h = s => hpc = "accept"
    BY <2>1 DEF Typed, Shapes
  <2> QED
    BY <2>1, <2>2, UntouchedKept DEF Alive, OpenSession
<1>2. ASSUME h' = s, hpc' = "open" PROVE Untouched(s)' /\ lsock'[s] = "open"
  <2>1. CASE Accept
    <3>1. lsock[s] = "none" /\ lsock'[s] = "open" /\ ~OpenSession
      BY <1>2, <2>1 DEF Accept, OpenSession, Typed, AllTypes, LsockTypes
    <3>2. h = s => hpc = "accept"
      BY <2>1 DEF Accept
    <3> QED
      BY <3>1, <3>2, UntouchedKept DEF Alive
  <2>2. CASE ~Accept
    <3>1. h = s /\ hpc = "open" /\ ~OpenSession
      BY <1>2, <2>2, HandSteps DEF handVars
    <3>2. Untouched(s) /\ lsock[s] = "open"
      BY <3>1 DEF Alive
    <3>3. ~Shutter(s)
      BY <1>2, <3>1, <3>2 DEF Shutter, Untouched, Lost, ShutConnection
    <3>4. lsock'[s] = "open"
      BY <3>2, <3>3, LocalSteps DEF SockMove
    <3> QED
      BY <3>1, <3>2, <3>4, UntouchedKept
  <2> QED
    BY <2>1, <2>2
<1>3. ASSUME s \in smap' PROVE ~closed'[s] /\ ~ended'[s] /\ lsock'[s] = "open"
  <2>1. CASE OpenSession /\ Usable /\ h = s
    <3>1. hpc = "open" /\ UNCHANGED <<closed, ended, lsock>>
      BY <2>1 DEF OpenSession, lsockVars
    <3> QED
      BY <2>1, <3>1 DEF Alive, Untouched
  <2>2. CASE ~(OpenSession /\ Usable /\ h = s)
    <3>1. s \in smap /\ ~closed[s] /\ ~ended[s] /\ lsock[s] = "open"
      BY <1>3, <2>2, FlagSteps DEF Alive
    <3>2. Usable /\ ~LoopMark /\ ~LoopTell
      BY <3>1 DEF Linked, Usable, LoopMark, LoopTell
    <3>3. ~(LoopShut /\ frame.s = s) /\ ~(ShutConnection /\ h = s)
      BY <3>1 DEF LoopShut, ShutConnection, Alive
    <3>4. ~closed'[s] /\ ~ended'[s]
      BY <1>3, <3>1, <3>2, <3>3, FlagSteps
    <3>5. ~(h = s /\ (OpenSession \/ SendConnect) /\ hpc' = "accept")
      <4>1. ~(OpenSession /\ hpc' = "accept")
        BY <3>2 DEF OpenSession
      <4>2. SendConnect /\ h = s /\ hpc' = "accept" => s \notin smap'
        BY DEF SendConnect
      <4> QED
        BY <1>3, <4>1, <4>2
    <3>6. ~Shutter(s)
      BY <1>3, <3>2, <3>3, <3>5 DEF Shutter
    <3> QED
      BY <3>1, <3>4, <3>6, LocalSteps DEF SockMove
  <2> QED
    BY <2>1, <2>2
<1>4. s \in todo' => lpc' \in {"tell", "mark"}
  BY LoopSteps DEF Alive
<1>5. ASSUME frame'.s = s, lpc' = "shut" PROVE closed'[s]
  BY <1>5, LoopSteps, FlagSteps DEF Alive
<1>6. ASSUME h' = s, hpc' \in {"notify", "shut"} PROVE closed'[s]
  <2>1. CASE Finish
    <3>1. h = s /\ (closed[h] \/ closed' = [closed EXCEPT ![h] = TRUE])
      BY <1>6, <2>1 DEF Finish
    <3> QED
      BY <1>6, <2>1, <3>1, FlagSteps DEF Typed, AllTypes, ClientTypes, Finish
  <2>2. CASE ~Finish
    <3>1. h = s /\ hpc \in {"notify", "shut"}
      BY <1>6, <2>2, HandSteps DEF handVars
    <3> QED
      BY <3>1, FlagSteps DEF Alive
  <2> QED
    BY <2>1, <2>2
<1> QED
  BY <1>1, <1>2, <1>3, <1>4, <1>5, <1>6 DEF Alive

-----------------------------------------------------------------------------
(* What comes back of a session                                            *)

(* Nothing does as long as it has no target thread; ...                    *)
Mute(s) == tpc[s] = "unborn" =>
  /\ Len(ldn[s]) = 0 /\ Len(lgot[s]) = 0 /\ ~opened[s]
  /\ frame.s = s => lpc \notin {"deliver", "greet"}
  /\ \A e \in Epochs, t \in {"connected", "data", "close"} : ~HasDown(e, t, s)

LEMMA NothingWritten ==
  ASSUME Typed, [Next]_vars, NEW s \in Sessions, Len(ldn[s]) = 0, Len(lgot[s]) = 0,
         ~(LoopDeliver /\ frame.s = s), ~(LoopGreet /\ frame.s = s)
  PROVE  Len(ldn'[s]) = 0 /\ Len(lgot'[s]) = 0
<1>1. ldn[s] = <<>> /\ lgot[s] = <<>>
  <2>1. ldn[s] \in Seq(Nat) /\ lgot[s] \in Seq(Nat)
    BY DEF Typed, AllTypes, LocalTypes, LsockTypes
  <2> QED
    BY <2>1, EmptySeq
<1> QED
  BY <1>1, EmptySeq, LocalSteps, GotSteps DEF AnswerMove

LEMMA MuteKept ==
  ASSUME Typed, [Next]_vars, NEW s \in Sessions, Mute(s)
  PROVE  Mute(s)'
<1>0. SUFFICES ASSUME tpc'[s] = "unborn" PROVE Mute(s)'
  BY DEF Mute
<1>1. s # 0 /\ ws \in Epochs
  BY SystemAssumption DEF Typed, AllTypes, WireTypes
<1>2. /\ tpc[s] = "unborn" /\ ~SendData(s) /\ ~SayClose(s) /\ ~ReadTarget(s)
      /\ \A e \in Epochs : ~(SayConnected(e) /\ rframe[e].s = s)
  <2>1. tpc[s] = "unborn"
    BY <1>0, ThreadSteps
  <2>2. ASSUME NEW e \in Epochs, SayConnected(e), rframe[e].s = s PROVE FALSE
    BY <1>0, <2>2 DEF SayConnected, Typed, AllTypes, ThreadTypes
  <2> QED
    BY <2>1, <2>2 DEF SendData, SayClose, ReadTarget
<1>3. ASSUME NEW e \in Epochs, NEW t \in {"connected", "data", "close"}, HasDown(e, t, s)'
      PROVE  FALSE
  <2>1. t \in Types /\ ~HasDown(e, t, s)
    BY <1>2 DEF Mute, Types
  <2>2. PICK f \in Frames : Says(e, f) /\ f.t = t /\ f.s = s
    BY <1>3, <2>1, DownChanges
  <2> QED
    BY <1>1, <1>2, <2>2, Speakers
<1>4. frame'.s = s => lpc' \notin {"deliver", "greet"}
  <2>1. ASSUME LoopRead, down[ws][1].s = s PROVE down[ws][1].t \notin {"connected", "data"}
    <3>1. 1 \in 1 .. Len(down[ws])
      BY <2>1, HeadRead
    <3> QED
      BY <1>1, <1>2, <2>1, <3>1 DEF Mute, HasDown
  <2>2. ASSUME LoopRead, down[ws][1].s = s
        PROVE  down[ws][1].t \in {"connected", "data", "close", "error"}
    BY <1>1, <2>2, HeadRead DEF DownType
  <2> QED
    BY <1>2, <2>1, <2>2, LoopSteps DEF Mute
<1>5. Len(ldn'[s]) = 0 /\ Len(lgot'[s]) = 0
  BY <1>2, NothingWritten DEF Mute, LoopDeliver, LoopGreet
<1>6. ~opened'[s]
  BY <1>1, <1>2, LookedUp DEF Mute
<1> QED
  BY <1>3, <1>4, <1>5, <1>6 DEF Mute

(* ... then first of all that it is connected, to the handler of the       *)
(* session, which has not written anything to the local client before.     *)
Opens(e, s) == \A i, j \in 1 .. Len(down[e]) :
  down[e][i].t = "connected" /\ down[e][i].s = s /\ down[e][j].s = s => i <= j

First(s) ==
  /\ \A e \in Epochs : HasDown(e, "connected", s) =>
       /\ Len(ldn[s]) = 0 /\ Len(lgot[s]) = 0 /\ ~opened[s]
       /\ frame.s = s => lpc \notin {"deliver", "greet"}
       /\ Opens(e, s) /\ at[s] = e /\ \A d \in Epochs : OfDown(d, s) => d = e
  /\ frame.s = s /\ lpc = "greet" => Len(ldn[s]) = 0 /\ Len(lgot[s]) = 0

(* What the reader of a connection says of a session is the first of it.   *)
LEMMA FirstWord ==
  ASSUME Typed, NEW s \in Sessions, NEW e \in Epochs, NEW f \in Frames, Says(e, f), f.s = s,
         \A d \in Epochs : InHand(d, s)
  PROVE  \/ f.t \in {"data", "close"} /\ at[s] = e /\ tpc[s] \in {"send", "notice"}
         \/ f.t \in {"error", "connected"} /\ Unanswered(s) /\ rframe[e].s = s /\ s \in sess[e]
            /\ (SayError(e) \/ SayConnected(e))
<1>1. s # 0
  BY SystemAssumption
<1>2. SayError(e) => rpc[e] = "refuse"
  BY DEF SayError
<1>3. SayConnected(e) => rpc[e] = "connected"
  BY DEF SayConnected
<1>4. SayClose(s) => tpc[s] = "notice"
  BY DEF SayClose
<1> QED
  BY <1>1, <1>2, <1>3, <1>4, Speakers DEF InHand

LEMMA OpensKept ==
  ASSUME Typed, [Next]_vars, NEW s \in Sessions, NEW e \in Epochs, Opens(e, s),
         \A d \in Epochs : InHand(d, s)
  PROVE  Opens(e, s)'
<1>1. Len(down[e]) \in Nat /\ Len(down'[e]) \in Nat /\ DownMove(e)
  BY Lengths, DownMoves
<1>2. CASE down'[e] = down[e]
  BY <1>2 DEF Opens
<1>3. ASSUME NEW f \in Frames, Says(e, f), Grown(down[e], down'[e], f) PROVE Opens(e, s)'
  <2>1. SUFFICES ASSUME NEW i \in 1 .. Len(down'[e]), NEW j \in 1 .. Len(down'[e]),
                        down'[e][i].t = "connected", down'[e][i].s = s, down'[e][j].s = s
                 PROVE  i <= j
    BY DEF Opens
  <2>2. \A k \in 1 .. Len(down'[e]) :
          \/ k = Len(down[e]) + 1 /\ down'[e][k] = f
          \/ k \in 1 .. Len(down[e]) /\ down'[e][k] = down[e][k]
    BY <1>1, <1>3 DEF Grown
  <2>3. CASE i \in 1 .. Len(down[e]) /\ down'[e][i] = down[e][i]
    <3>1. CASE j = Len(down[e]) + 1
      BY <1>1, <2>3, <3>1
    <3>2. CASE j \in 1 .. Len(down[e]) /\ down'[e][j] = down[e][j]
      BY <1>1, <2>1, <2>3, <3>2 DEF Opens
    <3> QED
      BY <2>2, <3>1, <3>2
  <2>4. CASE i = Len(down[e]) + 1 /\ down'[e][i] = f
    <3>1. Unanswered(s)
      BY <1>3, <2>1, <2>4, FirstWord
    <3>2. j = Len(down[e]) + 1
      BY <2>1, <2>2, <3>1 DEF Unanswered, OfDown
    <3> QED
      BY <1>1, <2>4, <3>2
  <2> QED
    BY <2>2, <2>3, <2>4
<1>4. CASE Shrunk(down[e], down'[e])
  <2>1. \A i \in 1 .. Len(down'[e]) : i + 1 \in 1 .. Len(down[e]) /\ down'[e][i] = down[e][i + 1]
    BY <1>1, <1>4 DEF Shrunk
  <2>2. SUFFICES ASSUME NEW i \in 1 .. Len(down'[e]), NEW j \in 1 .. Len(down'[e]),
                        down'[e][i].t = "connected", down'[e][i].s = s, down'[e][j].s = s
                 PROVE  i <= j
    BY DEF Opens
  <2>3. i + 1 <= j + 1
    BY <1>1, <2>1, <2>2 DEF Opens
  <2> QED
    BY <1>1, <2>3
<1>5. CASE Cropped(down[e], down'[e])
  <2>1. \A i \in 1 .. Len(down'[e]) : i \in 1 .. Len(down[e]) /\ down'[e][i] = down[e][i]
    BY <1>1, <1>5 DEF Cropped
  <2> QED
    BY <1>1, <2>1 DEF Opens
<1> QED
  BY <1>1, <1>2, <1>3, <1>4, <1>5 DEF DownMove

(* As long as it has not been read, nothing of the session is.             *)
LEMMA NotTheHead ==
  ASSUME Typed, LoopRead, NEW s \in Sessions, Opens(ws, s), HasDown(ws, "connected", s)'
  PROVE  down[ws][1].s # s
<1>1. /\ Len(down[ws]) \in Nat \ {0} /\ Shrunk(down[ws], down'[ws]) /\ ws' = ws
  BY HeadRead DEF LoopRead
<1>2. PICK i \in 1 .. Len(down'[ws]) : down'[ws][i].t = "connected" /\ down'[ws][i].s = s
  BY <1>1 DEF HasDown
<1>3. /\ i + 1 \in 1 .. Len(down[ws]) /\ 1 \in 1 .. Len(down[ws]) /\ i + 1 > 1
      /\ down[ws][i + 1] = down'[ws][i]
  BY <1>1 DEF Shrunk
<1> QED
  BY <1>2, <1>3 DEF Opens

LEMMA OpenedSteps ==
  ASSUME Typed, [Next]_vars, NEW s \in Sessions, opened'[s], ~opened[s]
  PROVE  LoopRead /\ down[ws][1].s = s /\ HasDown(ws, "connected", s)
<1>1. LoopRead
  BY ClientMoves DEF clientVars, OpenSession, SendConnect, PumpPiece, PumpPush, PumpEnd, Finish,
                     LoopGreet, LoopFlush, LoopHalf, LoopShut, LoopLoss, LoopTell, LoopMark
<1>2. \/ opened' = opened
      \/ down[ws][1].t = "connected" /\ opened' = [opened EXCEPT ![down[ws][1].s] = TRUE]
  BY <1>1, HeadRead DEF LoopRead
<1>3. down[ws][1].s = s /\ down[ws][1].t = "connected" /\ 1 \in 1 .. Len(down[ws])
  BY <1>1, <1>2, HeadRead DEF Typed, AllTypes, ClientTypes
<1> QED
  BY <1>1, <1>3 DEF HasDown

LEMMA FirstKept ==
  ASSUME Typed, [Next]_vars, NEW s \in Sessions, Announced(s), AtHome(s),
         \A e \in Epochs : InHand(e, s), Mute(s), First(s)
  PROVE  First(s)'
<1>0. ws \in Epochs /\ s # 0
  BY SystemAssumption DEF Typed, AllTypes, WireTypes
<1>1. ASSUME NEW e \in Epochs, HasDown(e, "connected", s)', ~HasDown(e, "connected", s)
      PROVE  /\ Len(ldn'[s]) = 0 /\ Len(lgot'[s]) = 0 /\ ~opened'[s]
             /\ frame'.s = s => lpc' \notin {"deliver", "greet"}
             /\ Opens(e, s)' /\ at'[s] = e /\ \A d \in Epochs : OfDown(d, s)' => d = e
  <2>1. /\ Unanswered(s) /\ s \in sess[e] /\ SayConnected(e) /\ rframe[e].s = s
        /\ rpc[e] = "connected"
    <3>1. PICK f \in Frames : Says(e, f) /\ f.t = "connected" /\ f.s = s
      BY <1>1, DownChanges DEF Types
    <3>2. Unanswered(s) /\ s \in sess[e] /\ rframe[e].s = s /\ f.t # "error"
      BY <3>1, FirstWord
    <3>3. SayConnected(e)
      BY <1>0, <3>1, <3>2, Speakers DEF Unanswered
    <3> QED
      BY <3>2, <3>3 DEF SayConnected
  <2>2. UNCHANGED <<ldn, lgot, opened, frame, lpc, at>>
    BY <2>1 DEF SayConnected, readRest, localVars, lsockVars, clientVars, loopVars
  <2>3. Opens(e, s)
    BY <2>1 DEF Unanswered, Opens, OfDown
  <2>4. ASSUME NEW d \in Epochs, OfDown(d, s)' PROVE d = e
    <3>1. PICK f \in Frames : Says(d, f) /\ f.s = s
      BY <2>1, <2>4, DownChanges DEF Unanswered
    <3>2. rframe[d].s = s
      BY <2>1, <3>1, FirstWord DEF Unanswered
    <3> QED
      BY <2>1, <3>2 DEF InHand
  <2> QED
    BY <2>1, <2>2, <2>3, <2>4, OpensKept DEF Unanswered, Mute, AtHome
<1>2. ASSUME NEW e \in Epochs, HasDown(e, "connected", s)', HasDown(e, "connected", s)
      PROVE  /\ Len(ldn'[s]) = 0 /\ Len(lgot'[s]) = 0 /\ ~opened'[s]
             /\ frame'.s = s => lpc' \notin {"deliver", "greet"}
             /\ Opens(e, s)' /\ at'[s] = e /\ \A d \in Epochs : OfDown(d, s)' => d = e
  <2>1. /\ Len(ldn[s]) = 0 /\ Len(lgot[s]) = 0 /\ ~opened[s]
        /\ frame.s = s => lpc \notin {"deliver", "greet"}
        /\ Opens(e, s) /\ at[s] = e /\ \A d \in Epochs : OfDown(d, s) => d = e
    BY <1>2 DEF First
  <2>2. ~Unanswered(s)
    BY <1>2 DEF Unanswered, HasDown, OfDown
  <2>3. at'[s] = at[s]
    BY <2>2, SessMoves, FirstRead DEF Unheard
  <2>4. ASSUME LoopRead PROVE down[ws][1].s # s
    <3>1. SUFFICES ASSUME down[ws][1].s = s PROVE FALSE
      OBVIOUS
    <3>2. OfDown(ws, s)
      <4>1. 1 \in 1 .. Len(down[ws])
        BY <2>4, HeadRead
      <4> QED
        BY <3>1, <4>1 DEF OfDown
    <3>3. ws = e /\ ws' = ws
      BY <1>0, <2>1, <2>4, <3>2 DEF LoopRead
    <3> QED
      BY <1>2, <2>1, <2>4, <3>1, <3>3, NotTheHead
  <2>5. Len(ldn'[s]) = 0 /\ Len(lgot'[s]) = 0
    BY <2>1, NothingWritten DEF LoopDeliver, LoopGreet
  <2>6. frame'.s = s => lpc' \notin {"deliver", "greet"}
    BY <2>1, <2>4, LoopSteps
  <2>7. ASSUME NEW d \in Epochs, OfDown(d, s)' PROVE d = e
    BY <2>1, <2>2, <2>7, DownChanges, FirstWord
  <2> QED
    BY <2>1, <2>3, <2>4, <2>5, <2>6, <2>7, OpensKept, OpenedSteps
<1>3. ASSUME frame'.s = s, lpc' = "greet" PROVE Len(ldn'[s]) = 0 /\ Len(lgot'[s]) = 0
  <2>1. Len(ldn[s]) = 0 /\ Len(lgot[s]) = 0 /\ ~LoopDeliver /\ ~LoopGreet
    <3>1. CASE LoopRead
      <4>1. HasDown(ws, "connected", s)
        <5>1. down[ws][1].s = s /\ down[ws][1].t \in {"connected", "data", "close", "error"}
          BY <1>0, <1>3, <3>1, LoopSteps, HeadRead DEF DownType, LoopRead, LoopGreet, LoopFlush,
             LoopTell, LoopLoss, LoopTold, LoopDial
        <5>2. down[ws][1].t = "connected" /\ 1 \in 1 .. Len(down[ws])
          BY <1>3, <3>1, <5>1, LoopSteps, HeadRead DEF LoopRead, LoopGreet, LoopFlush, LoopTell,
             LoopLoss, LoopTold, LoopDial
        <5> QED
          BY <5>1, <5>2 DEF HasDown
      <4> QED
        BY <1>0, <3>1, <4>1 DEF First, LoopRead, LoopDeliver, LoopGreet
    <3>2. CASE ~LoopRead
      BY <1>3, <3>2, LoopSteps DEF First
    <3> QED
      BY <3>1, <3>2
  <2> QED
    BY <2>1, NothingWritten
<1> QED
  BY <1>1, <1>2, <1>3 DEF First

(* What the client has in its map is on the present connection.            *)
Here(s) == s \in smap =>
  /\ \A e \in Epochs : s \in sess[e] \/ HasUp(e, "connect", s) => e = ws
  /\ tpc[s] # "unborn" => at[s] = ws

LEMMA HereKept ==
  ASSUME Typed, Linked, [Next]_vars, NEW s \in Sessions, Announced(s), AtHome(s),
         \A e \in Epochs : InHand(e, s), Here(s)
  PROVE  Here(s)'
<1> SUFFICES ASSUME s \in smap' PROVE Here(s)'
  BY DEF Here
<1>1. CASE s \in smap
  <2>1. ws' = ws
    <3>1. ~LoopDial
      BY <1>1 DEF LoopDial, Linked, Usable
    <3> QED
      BY <3>1, LinkMoves DEF Lose
  <2>2. ASSUME NEW e \in Epochs, s \in sess'[e] PROVE e = ws
    BY <1>1, <2>2, SessMoves, ReadsHas DEF Here
  <2>3. ASSUME NEW e \in Epochs, HasUp(e, "connect", s)' PROVE e = ws
    BY <1>1, <2>3, UpChanges DEF Here, Types
  <2>4. ASSUME tpc'[s] # "unborn" PROVE at'[s] = ws
    <3>1. CASE at'[s] # at[s]
      <4>1. PICK d \in Epochs : Reads(d, "connect", s) /\ at'[s] = d
        <5>1. ws \in Epochs
          BY DEF Typed, AllTypes, WireTypes
        <5> QED
          BY <3>1, <5>1, SessMoves
      <4>2. HasUp(d, "connect", s)
        BY <4>1, ReadsHas
      <4> QED
        BY <1>1, <4>1, <4>2 DEF Here
    <3>2. ASSUME tpc[s] = "unborn" PROVE at[s] = ws
      <4>1. PICK e \in Epochs : SayConnected(e) /\ rframe[e].s = s
        BY <2>4, <3>2, ThreadSteps
      <4>2. s \in sess[e]
        BY <4>1 DEF SayConnected, InHand
      <4> QED
        BY <1>1, <4>2 DEF AtHome, Here
    <3> QED
      BY <1>1, <3>1, <3>2 DEF Here
  <2> QED
    BY <2>1, <2>2, <2>3, <2>4 DEF Here
<1>2. CASE s \notin smap
  <2>1. OpenSession /\ h = s /\ hpc = "open"
    BY <1>2, FlagSteps DEF OpenSession
  <2>2. Unheard(s) /\ \A d \in Epochs : ~OfUp(d, s)
    BY <2>1 DEF Announced, Unsent
  <2>3. UNCHANGED <<sess, up, tpc>>
    BY <2>1 DEF OpenSession, handRest, readVars, threadVars, wireVars
  <2> QED
    BY <2>2, <2>3 DEF Here, Unheard, Unanswered, HasUp, OfUp
<1> QED
  BY <1>1, <1>2

-----------------------------------------------------------------------------
(* From the tunnel to the local client                                     *)

(* A reader has the first pieces, a queue after a leading 0 the next.      *)
Zeros(q) == IF Len(q) > 0 /\ q[1] = 0 THEN 1 ELSE 0
Lined(g, q) ==
  /\ \A i \in 1 .. Len(g) : g[i] = i
  /\ \A i \in 1 .. Len(q) : q[i] = Len(g) + i - Zeros(q)
  /\ Zeros(q) = 1 => Len(g) = 0

LEMMA LinedGrown ==
  ASSUME NEW g \in Seq(Nat), NEW q \in Seq(Nat), NEW p \in Seq(Nat), Lined(g, q),
         Grown(q, p, Len(g) + Len(q) - Zeros(q) + 1)
  PROVE  Lined(g, p) /\ Zeros(p) = Zeros(q) /\ Len(p) = Len(q) + 1
<1>1. /\ Len(g) \in Nat /\ Len(q) \in Nat /\ Zeros(q) \in {0, 1} /\ Len(p) = Len(q) + 1
      /\ p[Len(q) + 1] = Len(g) + Len(q) - Zeros(q) + 1 /\ \A i \in 1 .. Len(q) : p[i] = q[i]
      /\ Len(q) = 0 => Zeros(q) = 0
  BY LenProperties DEF Grown, Zeros
<1>2. Zeros(p) = Zeros(q)
  <2>1. CASE Len(q) = 0
    BY <1>1, <2>1 DEF Zeros
  <2>2. CASE Len(q) > 0
    <3>1. p[1] = q[1] /\ Len(p) > 0
      BY <1>1, <2>2
    <3> QED
      BY <2>2, <3>1 DEF Zeros
  <2> QED
    BY <1>1, <2>1, <2>2
<1>3. ASSUME NEW i \in 1 .. Len(p) PROVE p[i] = Len(g) + i - Zeros(q)
  <2>1. CASE i \in 1 .. Len(q)
    BY <1>1, <2>1 DEF Lined
  <2>2. CASE i = Len(q) + 1
    <3>1. p[i] = Len(g) + Len(q) - Zeros(q) + 1
      BY <1>1, <2>2
    <3>2. Len(g) \in Nat /\ Len(q) \in Nat /\ Zeros(q) \in Nat
      BY <1>1
    <3>3. Len(g) + Len(q) - Zeros(q) + 1 = Len(g) + i - Zeros(q)
      BY <2>2, <3>2
    <3> QED
      BY <3>1, <3>3
  <2> QED
    BY <1>1, <2>1, <2>2
<1> QED
  BY <1>1, <1>2, <1>3 DEF Lined

LEMMA LinedTail ==
  ASSUME NEW g \in Seq(Nat), NEW q \in Seq(Nat), NEW p \in Seq(Nat), Lined(g, q),
         Len(q) > 0, Shrunk(q, p)
  PROVE  Zeros(p) = 0 /\ \A i \in 1 .. Len(p) : p[i] = Len(g) + i + 1 - Zeros(q)
<1>1. /\ Len(g) \in Nat /\ Len(q) \in Nat /\ Len(p) \in Nat /\ Zeros(q) \in {0, 1}
      /\ Len(q) = Len(p) + 1 /\ \A i \in 1 .. Len(p) : p[i] = q[i + 1]
      /\ Zeros(q) = 1 => Len(g) = 0
  BY LenProperties DEF Shrunk, Zeros, Lined
<1>2. \A i \in 1 .. Len(p) : p[i] = Len(g) + i + 1 - Zeros(q)
  <2> SUFFICES ASSUME NEW i \in 1 .. Len(p) PROVE p[i] = Len(g) + i + 1 - Zeros(q)
    OBVIOUS
  <2>1. i + 1 \in 1 .. Len(q) /\ p[i] = q[i + 1]
    BY <1>1
  <2>2. q[i + 1] = Len(g) + (i + 1) - Zeros(q)
    BY <2>1 DEF Lined
  <2>3. Len(g) \in Nat /\ Zeros(q) \in Nat /\ i \in Nat
    BY <1>1
  <2>4. Len(g) + (i + 1) - Zeros(q) = Len(g) + i + 1 - Zeros(q)
    BY <2>3
  <2> QED
    BY <2>1, <2>2, <2>4
<1>3. ASSUME Len(p) > 0 PROVE p[1] # 0
  <2>1. p[1] = Len(g) + 1 + 1 - Zeros(q)
    BY <1>1, <1>2, <1>3
  <2> QED
    BY <1>1, <2>1
<1> QED
  BY <1>2, <1>3 DEF Zeros

LEMMA LinedShrunk ==
  ASSUME NEW g \in Seq(Nat), NEW q \in Seq(Nat), NEW p \in Seq(Nat), Lined(g, q),
         Len(q) > 0, Shrunk(q, p)
  PROVE  /\ Len(q) = Len(p) + 1 /\ Zeros(p) = 0
         /\ q[1] = 0 => Lined(g, p) /\ Zeros(q) = 1
         /\ q[1] # 0 => Zeros(q) = 0
<1>1. Len(q) = Len(p) + 1 /\ (q[1] = 0 => Zeros(q) = 1) /\ (q[1] # 0 => Zeros(q) = 0)
  BY DEF Shrunk, Zeros
<1>2. ASSUME q[1] = 0 PROVE Lined(g, p)
  <2>1. Zeros(p) = 0 /\ Len(g) = 0 /\ Zeros(q) = 1 /\ Len(p) \in Nat
    <3>1. Zeros(p) = 0 /\ Len(p) \in Nat
      BY LinedTail, LenProperties
    <3>2. Zeros(q) = 1
      BY <1>1, <1>2
    <3>3. Len(g) = 0
      BY <3>2 DEF Lined
    <3> QED
      BY <3>1, <3>2, <3>3
  <2>2. \A i \in 1 .. Len(p) : p[i] = Len(g) + i - Zeros(p)
    <3> SUFFICES ASSUME NEW i \in 1 .. Len(p) PROVE p[i] = Len(g) + i - Zeros(p)
      OBVIOUS
    <3>1. p[i] = Len(g) + i + 1 - Zeros(q)
      BY LinedTail
    <3> QED
      BY <2>1, <3>1
  <2> QED
    BY <2>1, <2>2 DEF Lined
<1> QED
  BY <1>1, <1>2, LinedTail

LEMMA LinedRead ==
  ASSUME NEW g \in Seq(Nat), NEW q \in Seq(Nat), NEW p \in Seq(Nat), Lined(g, q),
         Len(q) > 0, Shrunk(q, p), q[1] # 0, NEW f \in Seq(Nat), Grown(g, f, q[1])
  PROVE  Lined(f, p) /\ Len(f) = Len(g) + 1
<1>1. /\ Len(g) \in Nat /\ Len(q) \in Nat /\ Len(p) \in Nat /\ Zeros(q) = 0 /\ Zeros(p) = 0
      /\ \A i \in 1 .. Len(p) : p[i] = Len(g) + i + 1 - Zeros(q)
  BY LenProperties, LinedShrunk, LinedTail
<1>2. Len(f) = Len(g) + 1 /\ f[Len(g) + 1] = q[1] /\ \A i \in 1 .. Len(g) : f[i] = g[i]
  BY DEF Grown
<1>3. q[1] = Len(g) + 1
  BY <1>1 DEF Lined
<1>4. ASSUME NEW i \in 1 .. Len(f) PROVE f[i] = i
  <2>1. CASE i \in 1 .. Len(g)
    BY <1>2, <2>1 DEF Lined
  <2>2. CASE i = Len(g) + 1
    BY <1>2, <1>3, <2>2
  <2> QED
    BY <1>1, <1>2, <2>1, <2>2
<1>5. ASSUME NEW i \in 1 .. Len(p) PROVE p[i] = Len(f) + i - Zeros(p)
  <2>1. p[i] = Len(g) + i + 1 - Zeros(q)
    BY <1>1
  <2> QED
    BY <1>1, <1>2, <2>1
<1> QED
  BY <1>1, <1>2, <1>4, <1>5 DEF Lined

LEMMA LinedFresh ==
  ASSUME NEW g \in Seq(Nat), NEW q \in Seq(Nat), NEW p \in Seq(Nat), Lined(g, q)
  PROVE  /\ Len(p) = 0 => Lined(g, p) /\ Zeros(p) = 0
         /\ Len(q) = 0 /\ Len(g) = 0 /\ Grown(q, p, 0) => Lined(g, p) /\ Zeros(p) = 1 /\ Len(p) = 1
<1>1. Len(p) \in Nat /\ Len(q) \in Nat /\ Len(g) \in Nat
  BY LenProperties
<1>2. Len(p) = 0 => Lined(g, p) /\ Zeros(p) = 0
  BY <1>1 DEF Lined, Zeros
<1>3. ASSUME Len(q) = 0, Len(g) = 0, Grown(q, p, 0)
      PROVE  Lined(g, p) /\ Zeros(p) = 1 /\ Len(p) = 1
  <2>1. Len(p) = 1 /\ p[1] = 0
    BY <1>3 DEF Grown
  <2>2. Zeros(p) = 1
    BY <2>1 DEF Zeros
  <2>3. \A i \in 1 .. Len(p) : p[i] = Len(g) + i - Zeros(p)
    BY <1>3, <2>1, <2>2
  <2> QED
    BY <1>3, <2>1, <2>2, <2>3 DEF Lined
<1> QED
  BY <1>2, <1>3

(* What the client has read, what waits for it in the socket after the 200 *)
(* answer (piece 0), and what the loop holds are the first pieces sent.    *)
DownLen(s) == Len(lgot[s]) + Len(ldn[s]) - Zeros(ldn[s])
InDown(s) == IF lpc = "deliver" /\ frame.s = s THEN 1 ELSE 0
DownHead(s) == DownLen(s) + InDown(s)

LocalLine(s) ==
  /\ Lined(lgot[s], ldn[s]) /\ DownLen(s) <= tsent[s]
  /\ InDown(s) = 1 /\ lsock[s] = "open" => frame.k = DownLen(s) + 1 /\ frame.k <= tsent[s]
  /\ leof[s] # "none" => Len(ldn[s]) = 0 /\ lsock[s] \in {"closed", "reset"}

(* How the pieces before the connection change.                            *)
Reading(s) == LoopRead /\ s \in smap /\ DataOf(down[ws], 1, s)

LEMMA InDownSteps ==
  ASSUME Typed, [Next]_vars, NEW s \in Sessions
  PROVE  \/ InDown(s)' = 1 /\ Reading(s) /\ InDown(s) = 0 /\ frame' = down[ws][1]
         \/ InDown(s)' = InDown(s) /\ (InDown(s) = 1 => frame' = frame)
            /\ ~(LoopDeliver /\ frame.s = s) /\ ~Reading(s)
         \/ InDown(s) = 1 /\ InDown(s)' = 0 /\ LoopDeliver
<1>1. Reading(s) => InDown(s) = 0
  BY DEF Reading, LoopRead, InDown
<1>2. LoopDeliver => InDown(s)' = 0 /\ lpc = "deliver" /\ ~Reading(s)
  BY DEF LoopDeliver, InDown, Reading, LoopRead
<1>3. CASE Reading(s)
  <2>1. frame' = down[ws][1] /\ lpc' = "deliver" /\ down[ws][1].s = s
    BY <1>3, HeadRead DEF Reading, DataOf, LoopRead
  <2> QED
    BY <1>1, <1>3, <2>1 DEF InDown
<1>4. CASE LoopDeliver
  BY <1>2, <1>4 DEF InDown
<1>5. ASSUME ~Reading(s), ~LoopDeliver, InDown(s)' = 1
      PROVE  InDown(s) = 1 /\ frame' = frame
  <2>1. frame'.s = s /\ lpc' = "deliver"
    BY <1>5 DEF InDown
  <2>2. ~LoopRead
    <3>1. SUFFICES ASSUME LoopRead PROVE FALSE
      OBVIOUS
    <3>2. frame' = (IF down[ws][1].s \in smap THEN down[ws][1] ELSE NoFrame) /\ NoFrame.s # s
      BY <3>1, HeadRead, SystemAssumption DEF LoopRead, NoFrame, Frame
    <3>3. down[ws][1].s = s /\ s \in smap /\ down[ws][1].t # "data"
      BY <1>5, <2>1, <3>1, <3>2 DEF Reading, DataOf
    <3> QED
      BY <2>1, <3>1, <3>3, HeadRead DEF LoopRead
  <2> QED
    BY <2>1, <2>2, LoopSteps DEF InDown
<1>6. ASSUME ~Reading(s), ~LoopDeliver, InDown(s) = 1 PROVE InDown(s)' = 1 /\ frame' = frame
  <2>1. lpc = "deliver" /\ frame.s = s
    BY <1>6 DEF InDown
  <2>2. UNCHANGED loopVars
    BY <1>6, <2>1, LoopMoves DEF LoopRead, LoopGreet, LoopFlush, LoopHalf, LoopShut, LoopLoss,
       LoopTell, LoopMark, LoopTold, LoopDial
  <2> QED
    BY <2>1, <2>2 DEF loopVars, InDown
<1>7. InDown(s) \in {0, 1} /\ InDown(s)' \in {0, 1}
  BY DEF InDown
<1> QED
  BY <1>3, <1>4, <1>5, <1>6, <1>7

LEMMA DownLenSteps ==
  ASSUME Typed, [Next]_vars, NEW s \in Sessions, First(s), LocalLine(s)
  PROVE  /\ Lined(lgot'[s], ldn'[s])
         /\ \/ /\ DownLen(s)' = DownLen(s)
               /\ ~(LoopDeliver /\ frame.s = s /\ lsock[s] = "open")
            \/ DownLen(s)' <= DownLen(s) /\ lsock'[s] = "reset"
            \/ /\ LoopDeliver /\ frame.s = s /\ lsock[s] = "open"
               /\ DownLen(s)' = DownLen(s) + 1
<1>1. /\ lgot[s] \in Seq(Nat) /\ ldn[s] \in Seq(Nat) /\ Len(lgot[s]) \in Nat /\ Len(ldn[s]) \in Nat
      /\ lgot'[s] \in Seq(Nat) /\ ldn'[s] \in Seq(Nat) /\ Len(lgot'[s]) \in Nat
      /\ Len(ldn'[s]) \in Nat
  <2>1. LocalTypes' /\ LsockTypes'
    BY LocalKept, LsockKept DEF Typed, AllTypes
  <2>2. /\ lgot[s] \in Seq(Nat) /\ ldn[s] \in Seq(Nat)
        /\ lgot'[s] \in Seq(Nat) /\ ldn'[s] \in Seq(Nat)
    BY <2>1 DEF Typed, AllTypes, LocalTypes, LsockTypes
  <2> QED
    BY <2>2, LenProperties
<1>2. /\ Zeros(ldn[s]) \in {0, 1} /\ Zeros(ldn'[s]) \in {0, 1} /\ Lined(lgot[s], ldn[s])
      /\ Zeros(ldn[s]) <= Len(ldn[s])
  BY <1>1 DEF Zeros, LocalLine
<1>3. ASSUME LoopDeliver, frame.s = s, lsock[s] = "open"
      PROVE  Grown(ldn[s], ldn'[s], frame.k) /\ frame.k = DownLen(s) + 1
  <2>1. ldn' = [ldn EXCEPT ![s] = Append(@, frame.k)] /\ InDown(s) = 1
    BY <1>3 DEF LoopDeliver, LocalWrite, InDown
  <2>2. ldn'[s] = Append(ldn[s], frame.k) /\ frame.k \in Nat
    BY <2>1 DEF Typed, AllTypes, LsockTypes, LoopTypes, Frames
  <2> QED
    BY <1>1, <1>3, <2>1, <2>2, Grows DEF LocalLine
<1>4. LocalReads(s) => ~LoopDeliver
  BY DEF LocalReads, LoopDeliver, loopVars
<1>5. CASE /\ LocalReads(s) /\ ldn[s] # <<>> /\ ldn[s][1] # 0
           /\ Grown(lgot[s], lgot'[s], ldn[s][1]) /\ Shrunk(ldn[s], ldn'[s])
  <2>1. Len(ldn[s]) > 0
    BY <1>1, <1>5, EmptySeq
  <2>2. /\ Lined(lgot'[s], ldn'[s]) /\ Len(lgot'[s]) = Len(lgot[s]) + 1 /\ Zeros(ldn[s]) = 0
        /\ Zeros(ldn'[s]) = 0 /\ Len(ldn[s]) = Len(ldn'[s]) + 1
    <3>1. /\ Lined(lgot[s], ldn[s]) /\ Shrunk(ldn[s], ldn'[s]) /\ ldn[s][1] # 0
          /\ Grown(lgot[s], lgot'[s], ldn[s][1])
      BY <1>2, <1>5
    <3>2. Len(ldn[s]) = Len(ldn'[s]) + 1 /\ Zeros(ldn'[s]) = 0 /\ Zeros(ldn[s]) = 0
      BY <1>1, <2>1, <3>1, LinedShrunk
    <3>3. Lined(lgot'[s], ldn'[s]) /\ Len(lgot'[s]) = Len(lgot[s]) + 1
      BY <1>1, <2>1, <3>1, LinedRead
    <3> QED
      BY <3>2, <3>3
  <2>3. DownLen(s)' = DownLen(s)
    <3>1. /\ Len(lgot[s]) \in Nat /\ Len(ldn'[s]) \in Nat /\ Zeros(ldn[s]) = 0
          /\ Zeros(ldn'[s]) = 0 /\ Len(lgot'[s]) = Len(lgot[s]) + 1
          /\ Len(ldn[s]) = Len(ldn'[s]) + 1
      BY <1>1, <2>2
    <3>2. Len(lgot'[s]) + Len(ldn'[s]) - Zeros(ldn'[s])
            = Len(lgot[s]) + Len(ldn[s]) - Zeros(ldn[s])
      <4>1. \A a, b \in Nat : (a + 1) + b - 0 = a + (b + 1) - 0
        OBVIOUS
      <4> QED
        BY <3>1, <4>1, Zenon
    <3> QED
      BY <3>2 DEF DownLen
  <2> QED
    BY <1>4, <1>5, <2>2, <2>3
<1>6. CASE lgot'[s] = lgot[s] /\ ldn'[s] = ldn[s]
  <2>1. ~(LoopDeliver /\ frame.s = s /\ lsock[s] = "open")
    BY <1>1, <1>3, <1>6 DEF Grown
  <2> QED
    BY <1>2, <1>6, <2>1 DEF DownLen
<1>7. CASE lgot'[s] = lgot[s] /\ ldn'[s] = <<>> /\ lsock'[s] = "reset"
  <2>1. Len(ldn'[s]) = 0
    BY <1>7
  <2>2. Lined(lgot'[s], ldn'[s]) /\ Zeros(ldn'[s]) = 0
    <3>1. Lined(lgot[s], ldn'[s]) /\ Zeros(ldn'[s]) = 0
      BY <1>1, <1>2, <2>1, LinedFresh
    <3> QED
      BY <1>7, <3>1
  <2>3. DownLen(s)' <= DownLen(s)
    BY <1>1, <1>2, <1>7, <2>1, <2>2 DEF DownLen
  <2> QED
    BY <1>7, <2>2, <2>3
<1>8. CASE /\ lgot'[s] = lgot[s] /\ LocalReads(s) /\ ldn[s] # <<>> /\ ldn[s][1] = 0
           /\ Shrunk(ldn[s], ldn'[s])
  <2>1. Len(ldn[s]) > 0
    BY <1>1, <1>8, EmptySeq
  <2>2. /\ Lined(lgot[s], ldn'[s]) /\ Zeros(ldn[s]) = 1
        /\ Zeros(ldn'[s]) = 0 /\ Len(ldn[s]) = Len(ldn'[s]) + 1
    <3>1. Lined(lgot[s], ldn[s]) /\ Shrunk(ldn[s], ldn'[s]) /\ ldn[s][1] = 0
          /\ lgot[s] \in Seq(Nat) /\ ldn[s] \in Seq(Nat) /\ ldn'[s] \in Seq(Nat)
      BY <1>1, <1>2, <1>8
    <3> QED
      BY <2>1, <3>1, LinedShrunk
  <2>3. DownLen(s)' = DownLen(s)
    BY <1>1, <1>8, <2>2 DEF DownLen
  <2> QED
    BY <1>4, <1>8, <2>2, <2>3
<1>9. CASE lgot'[s] = lgot[s] /\ LoopDeliver /\ frame.s = s /\ lsock[s] = "open"
  <2>1. Grown(ldn[s], ldn'[s], Len(lgot[s]) + Len(ldn[s]) - Zeros(ldn[s]) + 1)
    BY <1>3, <1>9 DEF DownLen
  <2>2. Lined(lgot[s], ldn'[s]) /\ Zeros(ldn'[s]) = Zeros(ldn[s]) /\ Len(ldn'[s]) = Len(ldn[s]) + 1
    BY <1>1, <1>2, <2>1, LinedGrown
  <2>3. DownLen(s)' = DownLen(s) + 1
    <3>1. Len(lgot[s]) \in Nat /\ Len(ldn[s]) \in Nat /\ Zeros(ldn[s]) \in Nat
      BY <1>1, <1>2
    <3> QED
      BY <1>9, <2>2, <3>1 DEF DownLen
  <2> QED
    BY <1>9, <2>2, <2>3
<1>10. CASE lgot'[s] = lgot[s] /\ LoopGreet /\ frame.s = s /\ Grown(ldn[s], ldn'[s], 0)
  <2>1. Len(ldn[s]) = 0 /\ Len(lgot[s]) = 0 /\ ~LoopDeliver
    BY <1>10 DEF First, LoopGreet, LoopDeliver
  <2>2. Lined(lgot[s], ldn'[s]) /\ Zeros(ldn'[s]) = 1 /\ Len(ldn'[s]) = 1
    BY <1>1, <1>2, <1>10, <2>1, LinedFresh
  <2>3. Zeros(ldn[s]) = 0
    BY <2>1 DEF Zeros
  <2>4. DownLen(s)' = DownLen(s)
    BY <1>10, <2>1, <2>2, <2>3 DEF DownLen
  <2> QED
    BY <1>10, <2>1, <2>2, <2>4
<1> QED
  BY <1>5, <1>6, <1>7, <1>8, <1>9, <1>10, LocalSteps, GotSteps DEF AnswerMove

LEMMA LocalLineKept ==
  ASSUME Typed, [Next]_vars, NEW s \in Sessions, Alive(s), First(s), LocalLine(s),
         Reading(s) => down[ws][1].k = DownHead(s) + 1 /\ down[ws][1].k <= tsent[s]
  PROVE  /\ LocalLine(s)'
         /\ lsock'[s] = "open" => DownHead(s)' = DownHead(s) + (IF Reading(s) THEN 1 ELSE 0)
         /\ InDown(s) = 0 /\ lsock'[s] # "reset" => DownLen(s)' = DownLen(s)
<1>1. /\ tsent[s] \in Nat /\ tsent'[s] \in Nat /\ tsent'[s] >= tsent[s]
      /\ DownLen(s) \in Int /\ DownLen(s)' \in Int /\ InDown(s) \in {0, 1} /\ InDown(s)' \in {0, 1}
      /\ DownLen(s) <= tsent[s]
  <2>1. tsent[s] \in Nat /\ tsent'[s] \in Nat /\ LocalTypes' /\ LsockTypes'
    BY SystemAssumption, LocalKept, LsockKept, TargetKept DEF Typed, AllTypes, TargetTypes
  <2>2. tsent'[s] >= tsent[s]
    BY <2>1, FeedSteps
  <2>3. /\ Len(lgot[s]) \in Nat /\ Len(lgot'[s]) \in Nat
        /\ Len(ldn[s]) \in Nat /\ Len(ldn'[s]) \in Nat
    BY <2>1, LenProperties DEF Typed, AllTypes, LocalTypes, LsockTypes
  <2>4. Zeros(ldn[s]) \in {0, 1} /\ Zeros(ldn'[s]) \in {0, 1}
    BY DEF Zeros
  <2>5. DownLen(s) \in Int /\ DownLen(s)' \in Int
    BY <2>3, <2>4 DEF DownLen
  <2> QED
    BY <2>1, <2>2, <2>5 DEF InDown, LocalLine
<1>2. ASSUME lsock'[s] = "open", InDown(s) = 1 \/ Reading(s) PROVE lsock[s] = "open"
  <2>1. lsock[s] # "none"
    BY <1>2 DEF Alive, Untouched, InDown, Reading
  <2> QED
    BY <1>2, <2>1, SocketsStay
<1>3. Reading(s) => InDown(s) = 0 /\ InDown(s)' = 1 /\ frame' = down[ws][1] /\ ~LoopDeliver
  BY InDownSteps DEF Reading, LoopRead, LoopDeliver, InDown
<1>4. LoopDeliver /\ frame.s = s => InDown(s) = 1 /\ InDown(s)' = 0
  BY DEF LoopDeliver, InDown
<1>5. InDown(s) = 1 => frame.s = s
  BY DEF InDown
<1>6. DownLen(s)' <= tsent'[s]
  <2>1. LoopDeliver /\ frame.s = s /\ lsock[s] = "open" => DownLen(s) + 1 <= tsent[s]
    BY <1>4 DEF LocalLine
  <2> QED
    BY <1>1, <2>1, DownLenSteps
<1>7. ASSUME InDown(s)' = 1, lsock'[s] = "open"
      PROVE  frame'.k = DownLen(s)' + 1 /\ frame'.k <= tsent'[s]
  <2>1. CASE Reading(s)
    <3>1. DownLen(s)' = DownLen(s) /\ DownHead(s) = DownLen(s) /\ frame' = down[ws][1]
      BY <1>1, <1>3, <1>7, <2>1, DownLenSteps DEF DownHead
    <3> QED
      BY <1>1, <2>1, <3>1
  <2>2. CASE ~Reading(s)
    <3>1. InDown(s) = 1 /\ frame' = frame /\ ~(LoopDeliver /\ frame.s = s)
      BY <1>4, <1>7, <2>2, InDownSteps
    <3>2. DownLen(s)' = DownLen(s) /\ lsock[s] = "open"
      BY <1>2, <1>7, <3>1, DownLenSteps
    <3> QED
      BY <1>1, <3>1, <3>2 DEF LocalLine
  <2> QED
    BY <2>1, <2>2
<1>8. ASSUME leof'[s] # "none" PROVE Len(ldn'[s]) = 0 /\ lsock'[s] \in {"closed", "reset"}
  <2>1. CASE leof[s] # "none"
    <3>1. Len(ldn[s]) = 0 /\ lsock[s] \in {"closed", "reset"} /\ ldn[s] = <<>>
      BY <2>1, EmptySeq DEF LocalLine, Typed, AllTypes, LsockTypes
    <3>2. lsock'[s] \in {"closed", "reset"}
      BY <3>1, LocalSteps DEF SockMove
    <3>3. ldn'[s] = <<>>
      <4>1. ~LoopGreet \/ frame.s # s \/ lsock[s] # "open"
        BY <3>1
      <4> QED
        BY <3>1, <4>1, LocalSteps DEF AnswerMove
    <3> QED
      BY <3>2, <3>3, EmptySeq
  <2>2. CASE leof[s] = "none"
    BY <1>8, <2>2, GotSteps, EmptySeq
  <2> QED
    BY <2>1, <2>2
<1>9. ASSUME lsock'[s] = "open"
      PROVE  DownHead(s)' = DownHead(s) + (IF Reading(s) THEN 1 ELSE 0)
  <2>1. CASE Reading(s)
    <3>1. DownLen(s)' = DownLen(s)
      BY <1>3, <1>9, <2>1, DownLenSteps
    <3> QED
      BY <1>1, <1>3, <2>1, <3>1 DEF DownHead
  <2>2. CASE LoopDeliver /\ frame.s = s
    <3>1. lsock[s] = "open" /\ InDown(s) = 1 /\ InDown(s)' = 0 /\ ~Reading(s)
      BY <1>2, <1>3, <1>4, <1>9, <2>2
    <3>2. DownLen(s)' = DownLen(s) + 1
      BY <1>9, <2>2, <3>1, DownLenSteps
    <3> QED
      BY <1>1, <3>1, <3>2 DEF DownHead
  <2>3. CASE ~Reading(s) /\ ~(LoopDeliver /\ frame.s = s)
    <3>1. InDown(s)' = InDown(s)
      BY <1>5, <2>3, InDownSteps
    <3>2. DownLen(s)' = DownLen(s)
      BY <1>9, <2>3, DownLenSteps
    <3> QED
      BY <1>1, <2>3, <3>1, <3>2 DEF DownHead
  <2> QED
    BY <2>1, <2>2, <2>3
<1>10. InDown(s) = 0 /\ lsock'[s] # "reset" => DownLen(s)' = DownLen(s)
  BY <1>4, DownLenSteps
<1> QED
  BY <1>6, <1>7, <1>8, <1>9, <1>10, DownLenSteps DEF LocalLine

-----------------------------------------------------------------------------
(* From the thread of the target to the tunnel                             *)

(* The pieces the target thread has put on the connection or let go of.    *)
Taken(s) == IF tpc[s] = "send" THEN tpiece[s] - 1 ELSE tsent[s] - Len(tdn[s])

(* It may still put others there, or the close.                            *)
Talking(s) == \/ tpc[s] \in {"send", "end", "notice"}
              \/ tpc[s] = "read" /\ tsock[s] \in {"open", "half"}

LEMMA TakenSteps ==
  ASSUME Typed, [Next]_vars, NEW s \in Sessions, TargetLine(s), Told(s),
         \A e \in Epochs : InHand(e, s), Talking(s)'
  PROVE  \/ Talking(s) /\ Taken(s)' = Taken(s) /\ ~(tpc[s] = "send" /\ tpc'[s] = "read")
         \/ SendData(s) /\ tpc[s] = "send" /\ tpc'[s] = "read" /\ Taken(s)' = Taken(s) + 1
         \/ tpc[s] = "unborn" /\ Taken(s)' = 0
<1>1. /\ tsent[s] \in Nat /\ tsent'[s] \in Nat /\ tpiece[s] \in Nat /\ tpiece'[s] \in Nat
      /\ Len(tdn[s]) \in Nat /\ Len(tdn'[s]) \in Nat
      /\ tsock[s] \in {"none", "open", "half", "closed", "reset"}
      /\ tsock'[s] \in {"none", "open", "half", "closed", "reset"}
  <2>1. TargetTypes' /\ TsockTypes' /\ ThreadTypes'
    BY TargetKept, TsockKept, ThreadKept DEF Typed, AllTypes
  <2> QED
    BY <2>1, SystemAssumption, LenProperties DEF Typed, AllTypes, TargetTypes, TsockTypes,
       ThreadTypes
<1>2. /\ tsock'[s] \in {"open", "half"} => tsock[s] \in {"open", "half"} \/ tpc[s] = "unborn"
  <2>1. Dialled(s) => tsock[s] = "none"
    BY DEF Dialled, Dial, InHand
  <2> QED
    BY <2>1, SockSteps DEF Told
<1>3. TargetLine(s)'
  BY TargetLineKept
<1>4. CASE tpc'[s] = tpc[s]
  <2>1. ~ReadTarget(s) /\ ~(TargetSends(s) /\ tpc[s] \in {"end", "notice"})
    <3>1. TargetSends(s) => ~tfin[s]
      BY DEF TargetSends
    <3> QED
      BY <1>4, <3>1 DEF TargetLine, ReadTarget, Typed, AllTypes, ThreadTypes
  <2>2. CASE tpc[s] = "send"
    <3>1. tpiece'[s] = tpiece[s]
      BY <1>4, FeedSteps
    <3> QED
      BY <1>1, <1>4, <2>2, <3>1 DEF Taken, Talking
  <2>3. CASE tpc[s] \in {"end", "notice"}
    <3>1. tsent'[s] = tsent[s] /\ Len(tdn[s]) = 0 /\ Len(tdn'[s]) = 0
      BY <1>3, <1>4, <2>1, <2>3, FeedSteps DEF TargetLine
    <3> QED
      BY <1>1, <1>4, <2>3, <3>1 DEF Taken, Talking
  <2>4. CASE tpc[s] = "read"
    <3>1. tsock'[s] \in {"open", "half"} /\ tsock[s] \in {"open", "half"}
      BY <1>2, <1>4, <2>4 DEF Talking
    <3>2. tsent'[s] - Len(tdn'[s]) = tsent[s] - Len(tdn[s])
      <4>1. \/ tsent'[s] = tsent[s] /\ tdn'[s] = tdn[s]
            \/ tsent'[s] = tsent[s] + 1 /\ Grown(tdn[s], tdn'[s], tsent[s] + 1)
        BY <1>4, <2>1, <3>1, FeedSteps
      <4>2. \/ tsent'[s] = tsent[s] /\ Len(tdn'[s]) = Len(tdn[s])
            \/ tsent'[s] = tsent[s] + 1 /\ Len(tdn'[s]) = Len(tdn[s]) + 1
        BY <4>1 DEF Grown
      <4>3. tsent[s] \in Nat /\ Len(tdn[s]) \in Nat
        BY <1>1
      <4> QED
        BY <4>2, <4>3
    <3> QED
      BY <1>4, <2>4, <3>1, <3>2 DEF Taken, Talking
  <2> QED
    BY <1>4, <2>2, <2>3, <2>4 DEF Talking
<1>5. CASE tpc[s] = "unborn" /\ tpc'[s] # tpc[s]
  <2>1. PICK e \in Epochs : SayConnected(e) /\ rframe[e].s = s /\ tpc'[s] = "read"
    BY <1>5, ThreadSteps
  <2>2. tsock[s] = "open"
    BY <2>1 DEF SayConnected, InHand
  <2>3. UNCHANGED <<tsent, tdn>>
    BY <2>1 DEF SayConnected, readRest, targetVars, tsockVars
  <2> QED
    BY <1>1, <1>5, <2>1, <2>2, <2>3 DEF Taken, TargetLine
<1>6. CASE tpc[s] = "read" /\ tpc'[s] # tpc[s] /\ ReadTarget(s)
  <2>1. CASE tpc'[s] = "send"
    <3>1. /\ tsent' = tsent /\ tsock[s] \in {"open", "half"} /\ Len(tdn[s]) > 0
          /\ tpiece'[s] = tdn[s][1]
      BY <1>6, <2>1, FeedSteps
    <3>2. tdn[s][1] = tsent[s] - Len(tdn[s]) + 1
      BY <1>1, <3>1 DEF TargetLine
    <3> QED
      BY <1>1, <1>6, <2>1, <3>1, <3>2 DEF Taken, Talking
  <2>2. CASE tpc'[s] = "end"
    <3>1. tsock[s] \in {"open", "half"} /\ tdn'[s] = tdn[s] /\ tsent' = tsent
      BY <1>6, <2>2 DEF ReadTarget, threadRest, targetVars, Typed, AllTypes, ThreadTypes
    <3> QED
      BY <1>6, <2>2, <3>1 DEF Taken, Talking
  <2> QED
    BY <1>6, <2>1, <2>2, ThreadSteps DEF Talking
<1>7. CASE tpc[s] = "send" /\ SendData(s) /\ tpc'[s] # tpc[s]
  <2>1. tpc'[s] = "read" /\ tsock'[s] \in {"open", "half"} /\ tsock[s] \in {"open", "half"}
    BY <1>2, <1>7, ThreadSteps DEF Talking
  <2>2. UNCHANGED <<tsent, tdn>>
    BY <1>7, <2>1 DEF SendData, threadRest, targetVars, tsockVars, Typed, AllTypes, ThreadTypes
  <2>3. tpiece[s] = tsent[s] - Len(tdn[s])
    BY <1>7, <2>1 DEF TargetLine
  <2> QED
    BY <1>1, <1>7, <2>1, <2>2, <2>3 DEF Taken
<1>8. CASE tpc[s] = "end" /\ EndSession(s) /\ tpc'[s] # tpc[s]
  <2>1. tpc'[s] = "notice" /\ tsent' = tsent
    <3>1. tpc'[s] # "gone"
      BY DEF Talking
    <3>2. tpc'[s] = "notice"
      BY <1>8, <3>1 DEF EndSession, Typed, AllTypes, ThreadTypes
    <3> QED
      BY <1>8, <3>2 DEF EndSession, threadRest, targetVars
  <2>2. Len(tdn[s]) = 0 /\ Len(tdn'[s]) = 0
    BY <1>3, <1>8, <2>1 DEF TargetLine
  <2> QED
    BY <1>1, <1>8, <2>1, <2>2 DEF Taken, Talking
<1>9. ASSUME NEW e \in Epochs, SayConnected(e), rframe[e].s = s PROVE tpc[s] = "unborn"
  BY <1>9 DEF SayConnected, InHand, Unanswered
<1>10. tpc'[s] # "gone"
  BY DEF Talking
<1> QED
  BY <1>4, <1>5, <1>6, <1>7, <1>8, <1>9, <1>10, ThreadSteps

(* The pieces on the connection come after those the client has, and go on *)
(* to the ones the thread has in hand; a close comes after all of them.    *)
DownLine(s) == s \in smap =>
  /\ Run(down[ws], s, DownHead(s))
  /\ \A i \in 1 .. Len(down[ws]) : DataOf(down[ws], i, s) => down[ws][i].k <= tsent[s]
  /\ link[ws] = "up" /\ Talking(s) =>
       Reach(down[ws], Len(down[ws]), s, DownHead(s), Taken(s))
  /\ ~cut[s] => \A i \in 1 .. Len(down[ws]) : down[ws][i].t = "close" /\ down[ws][i].s = s =>
                  Reach(down[ws], i - 1, s, DownHead(s), tsent[s])

LEMMA DownNat ==
  ASSUME Typed, NEW s \in Sessions
  PROVE  DownLen(s) \in Nat /\ DownHead(s) \in Nat
<1>1. Len(lgot[s]) \in Nat /\ Len(ldn[s]) \in Nat
  BY LenProperties DEF Typed, AllTypes, LocalTypes, LsockTypes
<1>2. Zeros(ldn[s]) \in {0, 1} /\ Zeros(ldn[s]) <= Len(ldn[s]) /\ InDown(s) \in {0, 1}
  BY <1>1 DEF Zeros, InDown
<1> QED
  BY <1>1, <1>2 DEF DownLen, DownHead

LEMMA Above ==
  ASSUME NEW q \in Seq(Frames), NEW s, NEW n \in Nat, NEW m \in Nat, NEW c \in 0 .. Len(q),
         Run(q, s, n), Reach(q, c, s, n, m)
  PROVE  n <= m
<1>1. Len(q) \in Nat
  BY LenProperties
<1>2. CASE m # n
  <2>1. PICK i \in 1 .. c : DataOf(q, i, s) /\ q[i].k = m
    BY <1>2 DEF Reach
  <2>2. i \in 1 .. Len(q)
    BY <1>1
  <2> QED
    BY <2>1, <2>2 DEF Run
<1> QED
  BY <1>2

LEMMA ReadingNext ==
  ASSUME Typed, NEW s \in Sessions, DownLine(s), Reading(s)
  PROVE  down[ws][1].k = DownHead(s) + 1 /\ down[ws][1].k <= tsent[s]
<1>1. /\ Len(down[ws]) \in Nat \ {0} /\ down[ws] \in Seq(Frames) /\ Shrunk(down[ws], down'[ws])
      /\ DataOf(down[ws], 1, s) /\ s \in smap
  BY HeadRead DEF Reading
<1>2. down'[ws] \in Seq(Frames)
  BY <1>1, HeadRead DEF Reading, LoopRead, Typed, AllTypes, WireTypes
<1>3. Run(down[ws], s, DownHead(s)) /\ DownHead(s) \in Nat
  BY <1>1, DownNat DEF DownLine
<1>4. down[ws][1].k = DownHead(s) + 1
  BY <1>1, <1>2, <1>3, RunTaken
<1>5. down[ws][1].k <= tsent[s]
  BY <1>1 DEF DownLine
<1> QED
  BY <1>4, <1>5

(* What is put on the connection, and whose it is.                         *)
LEMMA SaysOf ==
  ASSUME Typed, NEW e \in Epochs, NEW s \in Sessions, NEW f \in Frames, Says(e, f), f.s = s
  PROVE  /\ f.t = "data" => /\ SendData(s) /\ at[s] = e /\ f.k = tpiece[s]
                            /\ tpc[s] = "send" /\ tpc'[s] = "read"
         /\ f.t = "close" => SayClose(s) /\ tpc[s] = "notice" /\ at[s] = e
<1>1. s # 0 /\ tpc \in [Sessions -> {"unborn", "read", "send", "end", "notice", "gone"}]
  BY SystemAssumption DEF Typed, AllTypes, ThreadTypes
<1>2. ASSUME f.t = "data"
      PROVE  /\ SendData(s) /\ at[s] = e /\ f.k = tpiece[s]
             /\ tpc[s] = "send" /\ tpc'[s] = "read"
  <2>1. PICK r \in Sessions : /\ at[r] = e /\ SendData(r) /\ f = Frame("data", r, tpiece[r])
                              /\ tpc' = [tpc EXCEPT ![r] = "read"]
    BY <1>2 DEF Says, Frame
  <2>2. r = s
    BY <2>1 DEF Frame
  <2> QED
    BY <1>1, <2>1, <2>2 DEF Frame, SendData
<1>3. ASSUME f.t = "close" PROVE SayClose(s) /\ tpc[s] = "notice" /\ at[s] = e
  <2>1. PICK r \in Sessions : at[r] = e /\ SayClose(r) /\ f = Frame("close", r, 0)
    BY <1>3 DEF Says, Frame
  <2>2. r = s
    BY <2>1 DEF Frame
  <2> QED
    BY <2>1, <2>2 DEF SayClose
<1> QED
  BY <1>2, <1>3

LEMMA PieceSent ==
  ASSUME Typed, NEW s \in Sessions, SendData(s), tpc'[s] = "read", link[at[s]] = "up"
  PROVE  Grown(down[at[s]], down'[at[s]], Frame("data", s, tpiece[s]))
<1>1. at[s] \in Epochs /\ tpiece[s] \in Nat
  BY DEF Typed, AllTypes, ReadTypes, ThreadTypes
<1>2. Frame("data", s, tpiece[s]) \in Frames
  BY <1>1 DEF Frames, Frame, Types
<1>3. SendDown(at[s], Frame("data", s, tpiece[s]))
  BY DEF SendData, Typed, AllTypes, ThreadTypes
<1> QED
  BY <1>1, <1>2, <1>3, SendDownTypes DEF Typed, AllTypes

LEMMA DownLineKept ==
  ASSUME Typed, Linked, [Next]_vars, NEW s \in Sessions, Announced(s), Told(s), Mute(s), Alive(s),
         \A e \in Epochs : InHand(e, s), Here(s), First(s), LocalLine(s), TargetLine(s),
         DownLine(s), \A e \in Epochs : HasDown(e, "close", s) => tfin[s]
  PROVE  DownLine(s)'
<1> SUFFICES ASSUME s \in smap' PROVE DownLine(s)'
  BY DEF DownLine
<1>0. ws \in Epochs
  BY DEF Typed, AllTypes, WireTypes
<1>1. CASE s \notin smap
  <2>1. OpenSession /\ h = s /\ hpc = "open"
    BY <1>1, FlagSteps DEF OpenSession
  <2>2. Unanswered(s)
    BY <2>1 DEF Announced, Unheard, Unsent
  <2>3. UNCHANGED <<ws, down, tpc>>
    BY <2>1 DEF OpenSession, handRest, wireVars, threadVars
  <2>4. /\ \A i \in 1 .. Len(down'[ws']) : down'[ws'][i].s # s
        /\ ~Talking(s)'
    BY <1>0, <2>2, <2>3 DEF Unanswered, OfDown, Talking
  <2> QED
    BY <2>4 DEF DownLine, Run, DataOf
<1>2. CASE s \in smap
  <2> DEFINE q == down[ws]  p == down'[ws]  n == DownHead(s)  m == DownHead(s)'
  <2>1. /\ lsock[s] = "open" /\ (link[ws] = "lost" => cut[s]) /\ ~(h = s /\ hpc = "open")
    BY <1>2 DEF Alive, Linked
  <2>2. ws' = ws /\ (link'[ws] = "up" => link[ws] = "up" /\ ~Lose)
    <3>1. ~LoopDial
      BY <1>2 DEF LoopDial, Linked, Usable
    <3>2. Lose => link'[ws] # "up"
      BY DEF Lose, Typed, AllTypes, WireTypes
    <3> QED
      BY <3>1, <3>2, LinkMoves DEF Lose
  <2>3. lsock'[s] = "open"
    <3>1. Alive(s)'
      BY AliveKept
    <3> QED
      BY <3>1 DEF Alive
  <2>4. n \in Nat /\ m = n + (IF Reading(s) THEN 1 ELSE 0) /\ m \in Nat
    <3>1. n \in Nat
      BY DownNat
    <3>2. m = n + (IF Reading(s) THEN 1 ELSE 0)
      BY <2>3, ReadingNext, LocalLineKept
    <3> QED
      BY <3>1, <3>2
  <2>5. q \in Seq(Frames) /\ p \in Seq(Frames) /\ Len(q) \in Nat /\ Len(p) \in Nat /\ DownMove(ws)
    BY <1>0, Lengths, DownMoves
  <2>6. Reading(s) => Len(q) = Len(p) + 1 /\ LoopRead
    BY HeadRead DEF Reading, Shrunk
  <2>7. /\ tsent[s] \in Nat /\ tsent'[s] \in Nat /\ tsent'[s] >= tsent[s]
        /\ tfin[s] => tsent'[s] = tsent[s]
    <3>1. TargetTypes'
      BY TargetKept DEF Typed, AllTypes
    <3>2. tsent[s] \in Nat /\ tsent'[s] \in Nat
      BY <3>1, SystemAssumption DEF Typed, AllTypes, TargetTypes
    <3> QED
      BY <3>2, FeedSteps
  <2>8. /\ Run(q, s, n) /\ \A i \in 1 .. Len(q) : DataOf(q, i, s) => q[i].k <= tsent[s]
        /\ link[ws] = "up" /\ Talking(s) => Reach(q, Len(q), s, n, Taken(s))
        /\ ~cut[s] => \A i \in 1 .. Len(q) : q[i].t = "close" /\ q[i].s = s =>
                        Reach(q, i - 1, s, n, tsent[s])
    BY <1>2 DEF DownLine
  <2>9. Taken(s) \in Int /\ (Talking(s) => Taken(s) \in Nat)
    <3>1. tpiece[s] \in Nat /\ tsent[s] \in Nat /\ Len(tdn[s]) \in Nat
      BY SystemAssumption, LenProperties DEF Typed, AllTypes, ThreadTypes, TargetTypes, TsockTypes
    <3> QED
      BY <3>1 DEF Taken, TargetLine
  <2>10. ~cut'[s] => ~cut[s] /\ ~Lose
    BY <2>1, CutKept DEF Lose, Typed, AllTypes, CutTypes
  <2>11. \A i \in 1 .. Len(q) : q[i].t = "close" /\ q[i].s = s =>
            tfin[s] /\ tsent'[s] = tsent[s] /\ tpc[s] = "gone"
    BY <1>0, <2>7 DEF HasDown, Told
  <2> DEFINE Kept == /\ Run(p, s, m)
                     /\ \A i \in 1 .. Len(p) : DataOf(p, i, s) => p[i].k <= tsent'[s]
                     /\ link'[ws] = "up" /\ Talking(s)' /\ tpc[s] # "unborn" =>
                          Reach(p, Len(p), s, m, Taken(s)')
                     /\ ~cut'[s] => \A i \in 1 .. Len(p) : p[i].t = "close" /\ p[i].s = s =>
                          Reach(p, i - 1, s, m, tsent'[s])
  <2>12. ASSUME link'[ws] = "up", Talking(s)', tpc[s] # "unborn"
         PROVE  /\ link[ws] = "up" /\ Talking(s) /\ Reach(q, Len(q), s, n, Taken(s))
                /\ \/ Taken(s)' = Taken(s)
                   \/ /\ Taken(s)' = Taken(s) + 1 /\ SendData(s) /\ tpc'[s] = "read"
                      /\ Grown(q, p, Frame("data", s, tpiece[s]))
    <3>1. link[ws] = "up" /\ at[s] = ws
      BY <1>2, <2>2, <2>12 DEF Here
    <3>2. Talking(s) /\ \/ Taken(s)' = Taken(s)
                        \/ Taken(s)' = Taken(s) + 1 /\ SendData(s) /\ tpc'[s] = "read"
      BY <2>12, TakenSteps DEF Talking
    <3> QED
      BY <2>8, <3>1, <3>2, PieceSent
  <2>13. ASSUME p = q PROVE Kept
    <3>1. m = n
      BY <2>4, <2>5, <2>6, <2>13
    <3>2. link'[ws] = "up" /\ Talking(s)' /\ tpc[s] # "unborn" => Taken(s)' = Taken(s)
      BY <2>5, <2>12, <2>13 DEF Grown
    <3>3. Run(p, s, m)
      BY <2>8, <2>13, <3>1
    <3>4. ASSUME NEW i \in 1 .. Len(p), DataOf(p, i, s) PROVE p[i].k <= tsent'[s]
      <4>1. q[i] \in Frames
        BY <2>5, <2>13, ElementOfSeq
      <4>2. q[i].k <= tsent[s] /\ q[i].k \in Nat
        BY <2>8, <2>13, <3>4, <4>1 DEF Frames
      <4> QED
        BY <2>7, <2>13, <4>2
    <3>5. ASSUME link'[ws] = "up", Talking(s)', tpc[s] # "unborn"
          PROVE  Reach(p, Len(p), s, m, Taken(s)')
      BY <2>12, <2>13, <3>1, <3>2, <3>5
    <3>6. ASSUME ~cut'[s], NEW i \in 1 .. Len(p), p[i].t = "close", p[i].s = s
          PROVE  Reach(p, i - 1, s, m, tsent'[s])
      BY <2>8, <2>10, <2>11, <2>13, <3>1, <3>6
    <3> QED
      BY <3>3, <3>4, <3>5, <3>6
  <2>14. ASSUME NEW f \in Frames, link[ws] = "up", Says(ws, f), Grown(q, p, f),
                ~(f.t = "data" /\ f.s = s)
         PROVE  Kept
    <3>1. m = n /\ Len(p) = Len(q) + 1 /\ p[Len(q) + 1] = f
      BY <2>4, <2>5, <2>6, <2>14 DEF Grown
    <3>2. /\ Run(p, s, n)
          /\ \A i \in 1 .. Len(p) : DataOf(p, i, s) => i \in 1 .. Len(q) /\ p[i] = q[i]
          /\ \A x \in Nat, c, d \in 0 .. Len(p) :
               Reach(q, c, s, n, x) /\ c <= d /\ c <= Len(q) => Reach(p, d, s, n, x)
      <4>1. q \in Seq(Frames) /\ p \in Seq(Frames) /\ n \in Nat /\ Run(q, s, n)
        BY <2>4, <2>5, <2>8
      <4> QED
        BY <2>14, <4>1, RunPassed
    <3>3. \A i \in 1 .. Len(p) : DataOf(p, i, s) => p[i].k <= tsent'[s]
      <4> SUFFICES ASSUME NEW i \in 1 .. Len(p), DataOf(p, i, s) PROVE p[i].k <= tsent'[s]
        OBVIOUS
      <4>1. i \in 1 .. Len(q) /\ p[i] = q[i] /\ DataOf(q, i, s)
        BY <3>2 DEF DataOf
      <4>2. q[i].k <= tsent[s] /\ q[i].k \in Nat
        <5>1. q[i] \in Frames
          BY <2>5, <4>1, ElementOfSeq
        <5> QED
          BY <2>8, <4>1, <5>1 DEF Frames
      <4> QED
        BY <2>7, <4>1, <4>2
    <3>4. ASSUME link'[ws] = "up", Talking(s)', tpc[s] # "unborn"
          PROVE  Reach(p, Len(p), s, m, Taken(s)')
      <4>1. ~Grown(q, p, Frame("data", s, tpiece[s]))
        BY <2>5, <2>14, <3>1 DEF Grown, Frame
      <4>2. Taken(s)' = Taken(s) /\ Talking(s) /\ Reach(q, Len(q), s, n, Taken(s))
        BY <2>12, <3>4, <4>1
      <4> QED
        BY <2>5, <2>9, <3>1, <3>2, <4>2
    <3>5. ASSUME ~cut'[s], NEW i \in 1 .. Len(p), p[i].t = "close", p[i].s = s
          PROVE  Reach(p, i - 1, s, m, tsent'[s])
      <4>1. CASE i \in 1 .. Len(q) /\ p[i] = q[i]
        <5>1. Reach(q, i - 1, s, n, tsent[s]) /\ tsent'[s] = tsent[s]
          BY <2>8, <2>10, <2>11, <3>5, <4>1
        <5>2. i - 1 \in 0 .. Len(p) /\ i - 1 <= i - 1 /\ i - 1 <= Len(q)
          BY <2>5, <3>1, <4>1
        <5> QED
          BY <2>7, <3>1, <3>2, <5>1, <5>2
      <4>2. CASE i = Len(q) + 1 /\ p[i] = f
        <5>1. SayClose(s) /\ tpc[s] = "notice" /\ tfin[s] /\ Len(tdn[s]) = 0
          BY <1>0, <2>14, <3>5, <4>2, SaysOf DEF TargetLine
        <5>2. Taken(s) = tsent[s] /\ Talking(s) /\ tsent'[s] = tsent[s]
          BY <2>7, <5>1 DEF Taken, Talking
        <5>3. Reach(q, Len(q), s, n, tsent[s])
          BY <2>8, <2>14, <5>2
        <5>4. i - 1 = Len(q) /\ Len(q) \in 0 .. Len(p)
          BY <2>5, <3>1, <4>2
        <5> QED
          BY <2>5, <2>7, <3>1, <3>2, <5>2, <5>3, <5>4
      <4> QED
        BY <2>5, <2>14, <3>5, <4>1, <4>2 DEF Grown
    <3> QED
      BY <3>1, <3>2, <3>3, <3>4, <3>5
  <2>15. ASSUME NEW f \in Frames, link[ws] = "up", Says(ws, f), Grown(q, p, f),
                f.t = "data", f.s = s
         PROVE  Kept
    <3>1. m = n /\ Len(p) = Len(q) + 1 /\ p[Len(q) + 1] = f
          /\ \A i \in 1 .. Len(q) : p[i] = q[i]
      BY <2>4, <2>5, <2>6, <2>15 DEF Grown
    <3>2. SendData(s) /\ f.k = tpiece[s] /\ tpc[s] = "send" /\ tpc'[s] = "read"
      BY <1>0, <2>15, SaysOf
    <3>3. /\ Talking(s) /\ f.k = Taken(s) + 1 /\ f.k <= tsent[s] /\ Taken(s) \in Nat
          /\ Reach(q, Len(q), s, n, Taken(s)) /\ f.k \in Nat
      <4>1. Talking(s) /\ tpiece[s] \in 1 .. tsent[s] /\ Taken(s) = tpiece[s] - 1
        BY <3>2 DEF Talking, Taken, TargetLine
      <4> QED
        BY <2>7, <2>8, <2>9, <2>15, <3>2, <4>1
    <3>4. n <= Taken(s)
      <4>1. Len(q) \in 0 .. Len(q)
        BY <2>5
      <4> QED
        BY <2>4, <2>5, <2>8, <3>3, <4>1, Above
    <3>5. Run(p, s, n) /\ Reach(p, Len(p), s, n, Taken(s) + 1)
      BY <2>4, <2>5, <2>8, <2>15, <3>3, <3>4, RunAdded
    <3>6. ASSUME NEW i \in 1 .. Len(p), DataOf(p, i, s) PROVE p[i].k <= tsent'[s]
      <4>1. CASE i \in 1 .. Len(q)
        <5>1. q[i] \in Frames
          BY <2>5, <4>1, ElementOfSeq
        <5>2. p[i] = q[i] /\ DataOf(q, i, s)
          BY <3>1, <3>6, <4>1 DEF DataOf
        <5>3. q[i].k <= tsent[s] /\ q[i].k \in Nat
          BY <2>8, <4>1, <5>1, <5>2 DEF Frames
        <5> QED
          BY <2>7, <5>2, <5>3
      <4>2. CASE i = Len(q) + 1
        BY <2>7, <3>1, <3>3, <4>2
      <4> QED
        BY <2>5, <3>1, <4>1, <4>2
    <3>7. ASSUME link'[ws] = "up", Talking(s)', tpc[s] # "unborn"
          PROVE  Reach(p, Len(p), s, m, Taken(s)')
      <4>1. Taken(s)' = Taken(s) + 1
        BY <3>2, <3>7, TakenSteps
      <4> QED
        BY <3>1, <3>5, <4>1
    <3>8. ASSUME NEW i \in 1 .. Len(p), p[i].t = "close", p[i].s = s PROVE FALSE
      <4>1. i \in 1 .. Len(q) /\ p[i] = q[i]
        BY <2>5, <2>15, <3>1, <3>8
      <4> QED
        BY <2>11, <3>2, <3>8, <4>1
    <3> QED
      BY <3>1, <3>5, <3>6, <3>7, <3>8
  <2>16. ASSUME LoopRead, Shrunk(q, p) PROVE Kept
    <3>1. /\ Len(q) \in Nat \ {0} /\ Len(q) = Len(p) + 1
          /\ \A i \in 1 .. Len(p) : i + 1 \in 1 .. Len(q) /\ p[i] = q[i + 1]
      BY <2>5, <2>16, HeadRead DEF Shrunk
    <3>2. /\ Run(p, s, m)
          /\ \A x \in Nat, c \in 1 .. Len(q) : Reach(q, c, s, n, x) => Reach(p, c - 1, s, m, x)
      <4>1. CASE DataOf(q, 1, s)
        <5>1. m = n + 1
          BY <1>2, <2>4, <2>16, <4>1 DEF Reading
        <5> QED
          <6>1. Len(q) > 0 /\ Shrunk(q, p) /\ Run(q, s, n) /\ n \in Nat
            BY <2>4, <2>8, <2>16, <3>1
          <6> HIDE DEF q, p, n, m
          <6> QED
            BY <2>5, <4>1, <5>1, <6>1, RunTaken
      <4>2. CASE ~DataOf(q, 1, s)
        <5>1. m = n
          BY <2>4, <4>2 DEF Reading
        <5> QED
          BY <2>4, <2>5, <2>8, <2>16, <3>1, <4>2, <5>1, RunSkipped
      <4> QED
        BY <4>1, <4>2
    <3>3. ASSUME NEW i \in 1 .. Len(p), DataOf(p, i, s) PROVE p[i].k <= tsent'[s]
      <4>1. i + 1 \in 1 .. Len(q) /\ p[i] = q[i + 1] /\ DataOf(q, i + 1, s)
        BY <3>1, <3>3 DEF DataOf
      <4>2. q[i + 1] \in Frames
        BY <2>5, <4>1, ElementOfSeq
      <4>3. q[i + 1].k <= tsent[s] /\ q[i + 1].k \in Nat
        BY <2>8, <4>1, <4>2 DEF Frames
      <4> QED
        BY <2>7, <4>1, <4>3
    <3>4. ASSUME link'[ws] = "up", Talking(s)', tpc[s] # "unborn"
          PROVE  Reach(p, Len(p), s, m, Taken(s)')
      <4>1. Taken(s)' = Taken(s) /\ Taken(s) \in Nat /\ Reach(q, Len(q), s, n, Taken(s))
        BY <2>5, <2>9, <2>12, <3>1, <3>4 DEF Grown
      <4>2. Len(q) \in 1 .. Len(q) /\ Len(q) - 1 = Len(p)
        BY <2>5, <3>1
      <4> QED
        BY <3>2, <4>1, <4>2
    <3>5. ASSUME ~cut'[s], NEW i \in 1 .. Len(p), p[i].t = "close", p[i].s = s
          PROVE  Reach(p, i - 1, s, m, tsent'[s])
      <4>1. i + 1 \in 1 .. Len(q) /\ p[i] = q[i + 1] /\ (i + 1) - 1 = i /\ i \in 1 .. Len(q)
        BY <2>5, <3>1
      <4>2. Reach(q, i, s, n, tsent[s]) /\ tsent'[s] = tsent[s]
        BY <2>8, <2>10, <2>11, <3>5, <4>1
      <4> QED
        BY <2>7, <3>2, <4>1, <4>2
    <3> QED
      BY <3>2, <3>3, <3>4, <3>5
  <2>17. ASSUME Lose, Cropped(q, p) PROVE Kept
    <3>1. ~Reading(s)
      <4>1. Lose /\ LoopRead => frame' = frame /\ lpc' = lpc
        BY DEF Lose, loopVars
      <4>2. Lose /\ LoopRead => link' = link
        BY DEF LoopRead
      <4> QED
        BY <2>17, <4>2 DEF Lose, Reading, Typed, AllTypes, WireTypes
    <3>2. m = n /\ link'[ws] # "up" /\ cut'[s]
      BY <2>2, <2>4, <2>10, <2>17, <3>1, CutKept DEF Typed, AllTypes, CutTypes
    <3>3. Run(p, s, n) /\ \A i \in 1 .. Len(p) : i \in 1 .. Len(q) /\ p[i] = q[i]
      BY <2>4, <2>5, <2>8, <2>17, RunCropped
    <3>4. ASSUME NEW i \in 1 .. Len(p), DataOf(p, i, s) PROVE p[i].k <= tsent'[s]
      <4>1. i \in 1 .. Len(q) /\ p[i] = q[i] /\ DataOf(q, i, s)
        BY <3>3, <3>4 DEF DataOf
      <4>2. q[i] \in Frames
        BY <2>5, <4>1, ElementOfSeq
      <4>3. q[i].k <= tsent[s] /\ q[i].k \in Nat
        BY <2>8, <4>1, <4>2 DEF Frames
      <4> QED
        BY <2>7, <4>1, <4>3
    <3> QED
      BY <3>2, <3>3, <3>4
  <2>18. Kept
    BY <2>5, <2>13, <2>14, <2>15, <2>16, <2>17 DEF DownMove
  <2>19. ASSUME link'[ws] = "up", Talking(s)', tpc[s] = "unborn"
         PROVE  Reach(p, Len(p), s, m, Taken(s)')
    <3>1. Taken(s)' = 0
      BY <2>19, TakenSteps DEF Talking
    <3>2. ~Reading(s)
      <4>1. Reading(s) => tpc' = tpc
        BY DEF Reading, LoopRead, loopRest, threadVars
      <4> QED
        BY <2>19, <4>1 DEF Talking
    <3>3. m = 0
      <4>1. Len(ldn[s]) = 0 /\ Len(lgot[s]) = 0 /\ InDown(s) = 0
        BY <2>19 DEF Mute, InDown
      <4>2. Zeros(ldn[s]) = 0
        BY <4>1 DEF Zeros
      <4>3. n = 0
        BY <4>1, <4>2 DEF DownHead, DownLen
      <4> QED
        BY <2>4, <3>2, <4>3
    <3>4. ASSUME NEW i \in 1 .. Len(p), DataOf(p, i, s) PROVE FALSE
      <4> PICK d \in Epochs : d = ws
        BY <1>0
      <4>1. HasDown(d, "data", s)'
        BY <2>2, <3>4 DEF HasDown, DataOf
      <4>2. ~HasDown(d, "data", s)
        BY <2>19 DEF Mute
      <4>3. "data" \in Types
        BY DEF Types
      <4>4. PICK f \in Frames : Says(d, f) /\ f.t = "data" /\ f.s = s
        BY <4>1, <4>2, <4>3, DownChanges
      <4> QED
        BY <2>19, <4>4, SaysOf
    <3> QED
      BY <3>1, <3>3, <3>4 DEF Reach
  <2> QED
    BY <2>2, <2>18, <2>19 DEF DownLine
<1> QED
  BY <1>1, <1>2


-----------------------------------------------------------------------------
(* The end a client sees                                                   *)

(* Its session is closed only after the client's own end, a loss, or the   *)
(* close of a target that has ended and whose pieces are all there.        *)
EndsDown(s) ==
  /\ \A e \in Epochs : HasDown(e, "close", s) => tfin[s]
  /\ half[s] \/ upClosed[s] => lfin[s] \/ cut[s]
  /\ h = s /\ hpc = "end" => lfin[s]
  /\ h = s /\ hpc \in {"finish", "notify", "shut"} => closed[s] \/ lfin[s] \/ cut[s]
  /\ ended[s] \/ lsock[s] \in {"closed", "reset"} => closed[s] \/ cut[s]
  /\ ~cut[s] /\ ~lfin[s] /\ closed[s] =>
       tfin[s] /\ InDown(s) = 0 /\ (lsock[s] = "reset" \/ DownLen(s) = tsent[s])
  /\ leof[s] = "eof" => lsock[s] = "closed"

(* A session in use when the connection is lost is cut.                    *)
LEMMA LossCuts ==
  ASSUME Typed, Linked, NEW s \in Sessions, Alive(s)
  PROVE  /\ h = s /\ hpc \notin {"accept", "open"} /\ (~Usable \/ link[ws] = "lost") => cut[s]
         /\ Lost(s) \/ (LoopMark /\ frame.s = s) \/ (LoopTell /\ s \in todo) => cut[s]
<1>1. ~Usable => link[ws] = "lost"
  BY DEF Linked
<1>2. ASSUME link[ws] = "lost", ~Untouched(s) PROVE cut[s]
  BY <1>2 DEF Linked, Alive
<1>3. ASSUME h = s, hpc \notin {"accept", "open"}, link[ws] = "lost" PROVE cut[s]
  BY <1>3 DEF Linked, Typed, Shapes
<1>4. LoopMark \/ LoopTell => ~Usable
  BY DEF LoopMark, LoopTell, Usable
<1>5. frame.s = s \/ s \in todo => ~Untouched(s)
  BY DEF Untouched
<1> QED
  BY <1>1, <1>2, <1>3, <1>4, <1>5 DEF Lost

(* The close of a target comes when the client has all of its pieces.      *)
LEMMA ClosedByTarget ==
  ASSUME Typed, [Next]_vars, NEW s \in Sessions, Told(s), DownLine(s),
         \A e \in Epochs : HasDown(e, "close", s) => tfin[s],
         LoopRead, s \in smap, down[ws][1].s = s, down[ws][1].t \in {"close", "error"}, ~cut[s]
  PROVE  tfin[s] /\ InDown(s) = 0 /\ ~Reading(s) /\ DownLen(s) = tsent[s]
<1>1. /\ Len(down[ws]) \in Nat \ {0} /\ 1 \in 1 .. Len(down[ws]) /\ ws \in Epochs
  BY HeadRead
<1>2. HasDown(ws, down[ws][1].t, s)
  BY <1>1 DEF HasDown
<1>3. down[ws][1].t = "close" /\ tfin[s]
  BY <1>1, <1>2 DEF Told
<1>4. InDown(s) = 0 /\ ~Reading(s)
  BY <1>3 DEF LoopRead, InDown, Reading, DataOf
<1>5. Reach(down[ws], 1 - 1, s, DownHead(s), tsent[s])
  BY <1>1, <1>3 DEF DownLine
<1>6. DownHead(s) = tsent[s]
  BY <1>5 DEF Reach
<1>7. DownLen(s) \in Nat
  BY DownNat
<1> QED
  BY <1>3, <1>4, <1>6, <1>7 DEF DownHead

LEMMA EndsDownKept ==
  ASSUME Typed, Linked, [Next]_vars, NEW s \in Sessions, Told(s), Alive(s), First(s),
         LocalLine(s), TargetLine(s), DownLine(s), EndsDown(s)
  PROVE  EndsDown(s)'
<1>1. /\ cut[s] => cut'[s]
      /\ tfin[s] => tfin'[s] /\ tsent'[s] = tsent[s]
      /\ closed[s] => closed'[s]
  BY CutKept, FeedSteps, FlagSteps
<1>2. lfin[s] => lfin'[s]
  <2>1. ASSUME NEW r \in Sessions, LocalFins(r) PROVE lfin[s] => lfin'[s]
    BY <2>1 DEF LocalFins, Typed, AllTypes, LocalTypes
  <2> QED
    BY <2>1, LocalMoves DEF localVars, LocalSends, LocalReads
<1>3. ASSUME NEW e \in Epochs, HasDown(e, "close", s)' PROVE tfin'[s]
  <2>1. CASE HasDown(e, "close", s)
    BY <1>1, <2>1 DEF EndsDown
  <2>2. CASE ~HasDown(e, "close", s)
    <3>1. "close" \in Types
      BY DEF Types
    <3>2. PICK f \in Frames : Says(e, f) /\ f.t = "close" /\ f.s = s
      BY <1>3, <2>2, <3>1, DownChanges
    <3>3. tpc[s] = "notice"
      BY <3>2, SaysOf
    <3> QED
      BY <1>1, <3>3 DEF TargetLine
  <2> QED
    BY <2>1, <2>2
<1>4. half'[s] \/ upClosed'[s] => lfin'[s] \/ cut'[s]
  <2>1. half'[s] \/ upClosed'[s] => half[s] \/ upClosed[s] \/ (PumpEnd /\ h = s)
    BY FlagSteps
  <2>2. PumpEnd /\ h = s => lfin[s]
    BY DEF PumpEnd, EndsDown
  <2> QED
    BY <1>1, <1>2, <2>1, <2>2 DEF EndsDown
<1>5. h' = s /\ hpc' = "end" => lfin'[s]
  <2>1. PumpRead /\ h = s /\ hpc' = "end" => lfin[s]
    BY DEF PumpRead
  <2>2. h' = s /\ hpc' = "end" => h = s /\ (hpc = "end" \/ PumpRead)
    BY HandSteps DEF handVars
  <2> QED
    BY <1>2, <2>1, <2>2 DEF EndsDown
<1>6. ASSUME ended'[s] \/ lsock'[s] \in {"closed", "reset"} PROVE closed'[s] \/ cut'[s]
  <2>1. Finish /\ h = s => closed'[s] \/ (ended[s] /\ closed' = closed)
    BY DEF Finish, Typed, AllTypes, ClientTypes
  <2>2. (LoopShut /\ frame.s = s) \/ (ShutConnection /\ h = s) => closed[s]
    BY DEF LoopShut, ShutConnection, Alive
  <2>3. Ender(s) => closed'[s] \/ cut'[s]
    BY <1>1, <2>1, <2>2, LossCuts DEF Ender, EndsDown
  <2>4. Shutter(s) => closed'[s] \/ cut'[s]
    BY <1>1, <2>2, LossCuts DEF Shutter
  <2>5. lsock'[s] \in {"closed", "reset"} => lsock[s] \in {"closed", "reset"} \/ Shutter(s)
    BY LocalSteps DEF SockMove
  <2>6. ended'[s] => ended[s] \/ Ender(s)
    BY FlagSteps
  <2> QED
    BY <1>1, <1>6, <2>3, <2>4, <2>5, <2>6 DEF EndsDown
<1>7. ASSUME h' = s, hpc' \in {"finish", "notify", "shut"}
      PROVE  closed'[s] \/ lfin'[s] \/ cut'[s]
  <2>1. h = s
    BY <1>7, HandSteps DEF handVars
  <2>2. CASE hpc \in {"finish", "notify", "shut"}
    BY <1>1, <1>2, <2>1, <2>2 DEF EndsDown
  <2>3. CASE PumpRead
    <3>1. lsock[s] # "open" \/ ended[s]
      BY <1>7, <2>1, <2>3 DEF PumpRead
    <3>2. lsock[s] \in {"closed", "reset", "open"}
      BY <2>1, <2>3 DEF PumpRead, Typed, Shapes, AllTypes, LsockTypes
    <3> QED
      BY <1>1, <3>1, <3>2 DEF EndsDown
  <2>4. CASE PumpPiece
    <3>1. closed[s] \/ upClosed[s]
      BY <1>7, <2>1, <2>4 DEF PumpPiece
    <3> QED
      BY <1>1, <1>2, <3>1 DEF EndsDown
  <2>5. CASE PumpPush
    <3>1. hpc = "push" /\ (~Usable \/ link[ws] = "lost")
      BY <1>7, <2>5 DEF PumpPush
    <3> QED
      BY <1>1, <2>1, <3>1, LossCuts
  <2>6. CASE PumpEnd
    BY <1>2, <2>1, <2>6 DEF PumpEnd, EndsDown
  <2>7. hpc \in {"finish", "notify", "shut"} \/ PumpRead \/ PumpPiece \/ PumpPush \/ PumpEnd
    BY <1>7, HandSteps DEF handVars
  <2> QED
    BY <2>2, <2>3, <2>4, <2>5, <2>6, <2>7
<1>8. ASSUME ~cut'[s], ~lfin'[s], closed'[s]
      PROVE  /\ tfin'[s] /\ InDown(s)' = 0
             /\ lsock'[s] = "reset" \/ DownLen(s)' = tsent'[s]
  <2>1. /\ tfin[s] /\ InDown(s) = 0 /\ ~Reading(s)
        /\ lsock[s] = "reset" \/ DownLen(s) = tsent[s]
    <3>1. CASE closed[s]
      <4>1. s \notin smap
        BY <3>1 DEF Alive
      <4> QED
        BY <1>1, <1>2, <1>8, <3>1, <4>1 DEF EndsDown, Reading
    <3>2. CASE ~closed[s]
      <4>1. Closer(s) /\ ~Lost(s) /\ ~(LoopMark /\ frame.s = s) /\ ~(Finish /\ h = s)
        BY <1>1, <1>2, <1>8, <3>2, FlagSteps, LossCuts DEF EndsDown, Finish
      <4>2. /\ LoopRead /\ s \in smap /\ down[ws][1].s = s
            /\ down[ws][1].t \in {"close", "error"}
        BY <4>1 DEF Closer
      <4> QED
        BY <1>1, <1>8, <4>2, ClosedByTarget DEF EndsDown
    <3> QED
      BY <3>1, <3>2
  <2>2. InDown(s)' = 0
    BY <2>1, InDownSteps
  <2>3. lsock[s] = "reset" => lsock'[s] = "reset"
    BY LocalSteps DEF SockMove
  <2>4. lsock'[s] # "reset" => DownLen(s)' = DownLen(s)
    BY <2>1, LocalLineKept
  <2> QED
    BY <1>1, <2>1, <2>2, <2>3, <2>4
<1>9. ASSUME leof'[s] = "eof" PROVE lsock'[s] = "closed"
  <2>1. CASE leof[s] = "eof"
    BY <1>9, <2>1, LocalSteps DEF SockMove, EndsDown
  <2>2. CASE leof[s] # "eof"
    BY <1>9, <2>2, GotSteps
  <2> QED
    BY <2>1, <2>2
<1> QED
  BY <1>3, <1>4, <1>5, <1>6, <1>7, <1>8, <1>9 DEF EndsDown

(* All that is known of what comes down.                                   *)
Downstream(s) == /\ Mute(s) /\ First(s) /\ Here(s) /\ Alive(s)
                 /\ TargetLine(s) /\ LocalLine(s) /\ DownLine(s) /\ EndsDown(s)

LEMMA DownstreamKept ==
  ASSUME Typed, Linked, Traced, [Next]_vars, NEW s \in Sessions, Downstream(s)
  PROVE  Downstream(s)'
<1>1. Announced(s) /\ AtHome(s) /\ Told(s) /\ \A e \in Epochs : InHand(e, s)
  BY DEF Traced
<1>2. /\ Mute(s) /\ First(s) /\ Here(s) /\ Alive(s)
      /\ TargetLine(s) /\ LocalLine(s) /\ DownLine(s) /\ EndsDown(s)
  BY DEF Downstream
<1>3. Mute(s)' /\ First(s)' /\ Here(s)' /\ Alive(s)'
  BY <1>1, <1>2, MuteKept, FirstKept, HereKept, AliveKept
<1>4. TargetLine(s)' /\ LocalLine(s)' /\ EndsDown(s)'
  BY <1>1, <1>2, TargetLineKept, LocalLineKept, ReadingNext, EndsDownKept
<1>5. DownLine(s)'
  BY <1>1, <1>2, DownLineKept DEF EndsDown
<1> QED
  BY <1>3, <1>4, <1>5 DEF Downstream

LEMMA InitDownstream == Init => \A s \in Sessions : Downstream(s)
<1> SUFFICES ASSUME Init, NEW s \in Sessions PROVE Downstream(s)
  OBVIOUS
<1>1. /\ ws = 1 /\ smap = {} /\ todo = {} /\ lpc = "read" /\ hpc = "accept" /\ frame.s # s
      /\ lsock[s] = "none" /\ tsock[s] = "none" /\ tpc[s] = "unborn" /\ leof[s] = "none"
      /\ ~opened[s] /\ ~closed[s] /\ ~ended[s] /\ ~upClosed[s] /\ ~half[s]
      /\ lgot[s] = <<>> /\ ldn[s] = <<>> /\ tdn[s] = <<>> /\ tsent[s] = 0
      /\ \A e \in Epochs : down[e] = <<>>
  BY SystemAssumption DEF Init, Each, NoFrame, Frame
<1>2. Len(<<>>) = 0
  OBVIOUS
<1>3. /\ Len(lgot[s]) = 0 /\ Len(ldn[s]) = 0 /\ Len(tdn[s]) = 0
      /\ \A t : \A e \in Epochs : ~HasDown(e, t, s)
  BY <1>1, <1>2 DEF HasDown
<1>4. Mute(s) /\ First(s) /\ Here(s) /\ Alive(s)
  BY <1>1, <1>3 DEF Mute, First, Here, Alive, Untouched
<1>5. TargetLine(s)
  BY <1>1, <1>3 DEF TargetLine
<1>6. LocalLine(s)
  <2>1. Zeros(ldn[s]) = 0
    BY <1>3 DEF Zeros
  <2>2. DownLen(s) = 0 /\ InDown(s) = 0
    BY <1>1, <1>3, <2>1 DEF DownLen, InDown
  <2>3. Lined(lgot[s], ldn[s])
    BY <1>3, <2>1 DEF Lined
  <2> QED
    BY <1>1, <2>2, <2>3 DEF LocalLine
<1>7. DownLine(s) /\ EndsDown(s)
  BY <1>1, <1>3 DEF DownLine, EndsDown
<1> QED
  BY <1>4, <1>5, <1>6, <1>7 DEF Downstream

-----------------------------------------------------------------------------
(* From the local client to the pump                                       *)

(* Pieces a local client has sent and that its socket has passed on, or    *)
(* lost.                                                                   *)
Fetched(s) == lsent[s] - Len(lup[s])

LEMMA ShutOrNot ==
  ASSUME Typed, [Next]_vars, ~PumpRead, \A r \in Sessions : ~LocalSends(r)
  PROVE  UNCHANGED lup \/ \E r \in Sessions : Shuts(r)
<1> USE DEF Typed, AllTypes
<1> DEFINE G == UNCHANGED lup \/ \E r \in Sessions : Shuts(r)
<1>1. CASE UNCHANGED lsockVars
  BY <1>1 DEF lsockVars
<1>2. ASSUME NEW r \in Sessions, ShutLocal(r) PROVE G
  BY <1>2, ShutLocalTypes
<1>3. ASSUME NEW r \in Sessions, DropSession(r) PROVE G
  BY <1>1, <1>2, <1>3 DEF DropSession
<1>4. CASE OpenSession \/ SendConnect \/ ShutConnection
  <2>1. h \in Sessions /\ (ShutLocal(h) \/ UNCHANGED lsockVars)
    BY <1>4 DEF OpenSession, SendConnect, ShutConnection, Refuse, Shapes
  <2> QED
    BY <1>1, <1>2, <2>1
<1>5. CASE PumpPush
  <2>1. h \in Sessions /\ (DropSession(h) \/ UNCHANGED lsockVars)
    BY <1>5 DEF PumpPush, Shapes
  <2> QED
    BY <1>1, <1>3, <2>1
<1>6. CASE LoopGreet \/ LoopFlush
  <2>1. frame.s \in Sessions
    BY <1>6 DEF LoopGreet, LoopFlush, Shapes
  <2>2. UNCHANGED lup \/ DropSession(frame.s)
    BY <1>6 DEF LoopGreet, LoopFlush, LoopPush, lsockVars
  <2> QED
    BY <1>3, <2>1, <2>2
<1>7. CASE LoopShut
  <2>1. frame.s \in Sessions /\ (ShutLocal(frame.s) \/ UNCHANGED lsockVars)
    BY <1>7 DEF LoopShut, OnClose, Shapes
  <2> QED
    BY <1>1, <1>2, <2>1
<1>8. CASE LoopTell
  <2>1. PICK r \in todo : ShutLocal(r) \/ UNCHANGED lsockVars
    BY <1>8 DEF LoopTell
  <2>2. r \in Sessions
    BY <2>1 DEF LoopTypes
  <2> QED
    BY <1>1, <1>2, <2>1, <2>2
<1>9. CASE Accept \/ LoopDeliver \/ \E r \in Sessions : LocalSendsLate(r) \/ LocalReads(r)
  BY <1>9 DEF Accept, LoopDeliver, LocalSendsLate, LocalReads
<1> QED
  BY <1>1, <1>4, <1>5, <1>6, <1>7, <1>8, <1>9, LsockMoves

(* How the socket is filled and emptied.                                   *)
LEMMA LupSteps ==
  ASSUME Typed, [Next]_vars, NEW s \in Sessions
  PROVE  \/ /\ lsent'[s] = lsent[s] /\ ~(PumpRead /\ h = s /\ hpc' = "piece")
            /\ lup'[s] = lup[s] \/ (lup'[s] = <<>> /\ lsock'[s] # "open")
         \/ /\ LocalSends(s) /\ lsent'[s] = lsent[s] + 1 /\ ~lfin[s] /\ lfin' = lfin
            /\ kind[s] = "connect" => answered[s]
            /\ Grown(lup[s], lup'[s], lsent[s] + 1) /\ lsock[s] = "open"
            /\ UNCHANGED <<handVars, lsock>>
         \/ /\ PumpRead /\ h = s /\ hpc = "pump" /\ hpc' = "piece" /\ lsent' = lsent
            /\ lsock[s] = "open" /\ UNCHANGED lsock
            /\ Shrunk(lup[s], lup'[s]) /\ Len(lup[s]) > 0 /\ piece' = lup[s][1]
<1> USE DEF Typed, AllTypes
<1>0. /\ lsent \in [Sessions -> 0 .. MaxUp] /\ lup \in [Sessions -> Seq(Nat)]
      /\ lsock \in [Sessions -> {"none", "open", "closed", "reset"}]
  BY DEF LocalTypes, LsockTypes
<1>1. ASSUME NEW r \in Sessions, LocalSends(r)
      PROVE  r = s \/ (lsent'[s] = lsent[s] /\ lup'[s] = lup[s])
  BY <1>0, <1>1 DEF LocalSends
<1>2. CASE LocalSends(s)
  <2>1. /\ lsent' = [lsent EXCEPT ![s] = @ + 1] /\ ~lfin[s] /\ lfin' = lfin
        /\ lup' = [lup EXCEPT ![s] = Append(@, lsent[s] + 1)]
        /\ kind[s] = "connect" => answered[s]
        /\ lsock[s] = "open" /\ UNCHANGED <<handVars, lsock>>
    BY <1>2 DEF LocalSends
  <2>2. lsent[s] + 1 \in Nat
    BY <1>0, SystemAssumption
  <2>3. Grown(lup[s], lup'[s], lsent[s] + 1)
    BY <1>0, <2>1, <2>2, Grows
  <2> QED
    BY <1>0, <1>2, <2>1, <2>3
<1>3. CASE PumpRead /\ h = s /\ hpc' = "piece"
  <2>1. /\ lsock[s] = "open" /\ lup[s] # <<>> /\ piece' = Head(lup[s]) /\ hpc = "pump"
        /\ lup' = [lup EXCEPT ![s] = Tail(@)] /\ UNCHANGED lsock
    BY <1>3 DEF PumpRead
  <2>2. /\ Head(lup[s]) = lup[s][1] /\ Shrunk(lup[s], Tail(lup[s])) /\ Len(lup[s]) \in Nat \ {0}
    BY <1>0, <2>1, Shrinks
  <2>3. lup'[s] = Tail(lup[s]) /\ lsent' = lsent
    BY <1>0, <1>3, <2>1 DEF PumpRead, handRest, localVars
  <2> QED
    BY <1>3, <2>1, <2>2, <2>3
<1>4. ASSUME PumpRead, ~(h = s /\ hpc' = "piece")
      PROVE  lsent'[s] = lsent[s] /\ lup'[s] = lup[s]
  <2>1. lup' = lup \/ (hpc' = "piece" /\ lup' = [lup EXCEPT ![h] = Tail(@)])
    BY <1>4 DEF PumpRead
  <2> QED
    BY <1>0, <1>4, <2>1 DEF PumpRead, handRest, localVars
<1>5. ASSUME ~PumpRead, \A r \in Sessions : ~LocalSends(r)
      PROVE  lsent'[s] = lsent[s] /\ (lup'[s] = lup[s] \/ (lup'[s] = <<>> /\ lsock'[s] # "open"))
  <2>1. lsent' = lsent
    BY <1>5, LocalMoves DEF localVars, LocalFins, LocalReads
  <2>2. ASSUME NEW r \in Sessions, Shuts(r)
        PROVE  lup'[s] = lup[s] \/ (lup'[s] = <<>> /\ lsock'[s] # "open")
    BY <2>2 DEF Shuts
  <2> QED
    BY <1>5, <2>1, <2>2, ShutOrNot
<1>6. CASE PumpRead
  BY <1>3, <1>4, <1>6
<1>7. CASE ~PumpRead
  <2>1. CASE \E r \in Sessions : LocalSends(r)
    BY <1>1, <1>2, <1>7, <2>1
  <2> QED
    BY <1>5, <1>7, <2>1
<1> QED
  BY <1>6, <1>7

(* The pump has a piece of the session in its hand.                        *)
Held(s) == h = s /\ hpc \in {"piece", "push"}
Fetches(s) == PumpRead /\ h = s /\ hpc' = "piece"

LEMMA HeldSteps ==
  ASSUME Typed, [Next]_vars, NEW s \in Sessions, Held(s)'
  PROVE  \/ Fetches(s)
         \/ Held(s) /\ piece' = piece /\ ~Fetches(s)
            /\ (hpc' = hpc \/ (PumpPiece /\ hpc = "piece" /\ hpc' = "push"))
<1>1. CASE UNCHANGED handVars /\ ~PumpRead
  BY <1>1 DEF handVars, Held, Fetches
<1>2. CASE PumpPiece
  BY <1>2 DEF PumpPiece, Held, Fetches, PumpRead
<1>3. CASE PumpRead
  BY <1>3 DEF PumpRead, Held, Fetches
<1> QED
  BY <1>1, <1>2, <1>3, HandSteps DEF Held

(* The socket has the last pieces sent, the pump the one before them.      *)
ClientLine(s) ==
  /\ Len(lup[s]) <= lsent[s]
  /\ \A i \in 1 .. Len(lup[s]) : lup[s][i] = Fetched(s) + i
  /\ Held(s) => piece \in 1 .. Fetched(s) /\ (lsock[s] = "open" => piece = Fetched(s))
  /\ h = s /\ hpc = "end" => Len(lup[s]) = 0

LEMMA ClientLineKept ==
  ASSUME Typed, [Next]_vars, NEW s \in Sessions, ClientLine(s), h = s /\ hpc = "end" => lfin[s]
  PROVE  /\ ClientLine(s)' /\ Fetched(s) \in Nat /\ Fetched(s)' \in Nat
         /\ Fetches(s) => Fetched(s)' = Fetched(s) + 1 /\ piece' = Fetched(s) + 1
         /\ ~Fetches(s) => \/ Fetched(s)' = Fetched(s)
                           \/ Fetched(s)' > Fetched(s) /\ lsock'[s] # "open" /\ Len(lup[s]) > 0
<1> USE DEF Fetched
<1>1. /\ lsent[s] \in Nat /\ lup[s] \in Seq(Nat) /\ Len(lup[s]) \in Nat
      /\ lsent'[s] \in Nat /\ lup'[s] \in Seq(Nat) /\ Len(lup'[s]) \in Nat
  <2>1. lsent[s] \in Nat /\ lup[s] \in Seq(Nat)
    BY SystemAssumption DEF Typed, AllTypes, LocalTypes, LsockTypes
  <2>2. lsent'[s] \in Nat /\ lup'[s] \in Seq(Nat)
    BY NextTyped, SystemAssumption DEF Typed, AllTypes, LocalTypes, LsockTypes
  <2> QED
    BY <2>1, <2>2, LenProperties
<1>2. ASSUME h' = s, hpc' = "end"
      PROVE  (h = s /\ hpc = "end") \/ (PumpRead /\ h = s /\ lup'[s] = lup[s] /\ Len(lup[s]) = 0)
  <2>1. CASE PumpRead
    <3>1. lup[h] = <<>> /\ lup' = lup /\ h' = h
      BY <1>2, <2>1 DEF PumpRead
    <3> QED
      BY <1>1, <1>2, <2>1, <3>1, EmptySeq
  <2> QED
    BY <1>2, <2>1, HandSteps DEF handVars
<1>3. CASE /\ lsent'[s] = lsent[s] /\ lup'[s] = lup[s] /\ ~Fetches(s)
  <2>1. Held(s)' => Held(s) /\ piece' = piece
    BY <1>3, HeldSteps
  <2>2. lsock'[s] = "open" => lsock[s] = "open" \/ (lsock[s] = "none" /\ ~Held(s))
    BY SocketsStay DEF Typed, Shapes, Held
  <2>3. h' = s /\ hpc' = "end" => Len(lup'[s]) = 0
    BY <1>2, <1>3 DEF ClientLine
  <2> QED
    BY <1>1, <1>3, <2>1, <2>2, <2>3 DEF ClientLine
<1>4. CASE /\ lsent'[s] = lsent[s] /\ lup'[s] = <<>> /\ lsock'[s] # "open" /\ ~Fetches(s)
           /\ lup'[s] # lup[s]
  <2>1. Held(s)' => Held(s) /\ piece' = piece
    BY <1>4, HeldSteps
  <2>2. Len(lup'[s]) = 0 /\ Len(lup[s]) > 0
    BY <1>1, <1>4, EmptySeq
  <2>3. Fetched(s) \in Nat /\ Fetched(s)' > Fetched(s) /\ Fetched(s)' = lsent[s]
    BY <1>1, <1>4, <2>2 DEF ClientLine
  <2>4. Held(s) => piece \in 1 .. Fetched(s)
    BY DEF ClientLine
  <2>5. \A a, b, c \in Int : a \in 1 .. b /\ c > b => a \in 1 .. c
    OBVIOUS
  <2>6. Held(s)' => piece' \in 1 .. Fetched(s)'
    BY <1>1, <2>1, <2>3, <2>4, <2>5
  <2> QED
    BY <1>1, <1>4, <2>2, <2>3, <2>6 DEF ClientLine
<1>5. CASE /\ LocalSends(s) /\ lsent'[s] = lsent[s] + 1 /\ ~lfin[s]
           /\ Grown(lup[s], lup'[s], lsent[s] + 1) /\ UNCHANGED <<handVars, lsock>>
  <2>1. ~Fetches(s)
    BY <1>5 DEF Fetches, PumpRead, handVars
  <2>2. ~(h' = s /\ hpc' = "end")
    BY <1>5 DEF handVars
  <2>3. Held(s)' <=> Held(s)
    BY <1>5 DEF Held, handVars
  <2>4. Len(lup'[s]) = Len(lup[s]) + 1 /\ Fetched(s)' = Fetched(s) /\ Fetched(s) \in Nat
    BY <1>1, <1>5 DEF Grown, ClientLine
  <2>5. ASSUME NEW i \in 1 .. Len(lup'[s]) PROVE lup'[s][i] = Fetched(s) + i
    <3>1. CASE i \in 1 .. Len(lup[s])
      BY <1>5, <3>1 DEF Grown, ClientLine
    <3>2. CASE i = Len(lup[s]) + 1
      BY <1>1, <1>5, <3>2 DEF Grown, ClientLine
    <3> QED
      BY <1>1, <2>4, <3>1, <3>2
  <2> QED
    BY <1>1, <1>5, <2>1, <2>2, <2>3, <2>4, <2>5 DEF ClientLine, handVars
<1>6. CASE /\ Fetches(s) /\ hpc = "pump" /\ lsent' = lsent
           /\ lsock[s] = "open" /\ UNCHANGED lsock
           /\ Shrunk(lup[s], lup'[s]) /\ Len(lup[s]) > 0 /\ piece' = lup[s][1]
  <2>1. Len(lup[s]) = Len(lup'[s]) + 1 /\ Fetched(s)' = Fetched(s) + 1 /\ Fetched(s) \in Nat
    BY <1>1, <1>6 DEF Shrunk, ClientLine
  <2>2. piece' = Fetched(s) + 1
    BY <1>1, <1>6 DEF ClientLine
  <2>3. ASSUME NEW i \in 1 .. Len(lup'[s]) PROVE lup'[s][i] = Fetched(s) + 1 + i
    <3>1. i + 1 \in 1 .. Len(lup[s]) /\ lup'[s][i] = lup[s][i + 1]
      BY <1>1, <1>6, <2>1 DEF Shrunk
    <3>2. lup[s][i + 1] = Fetched(s) + (i + 1)
      BY <3>1 DEF ClientLine
    <3> QED
      BY <1>1, <2>1, <3>1, <3>2
  <2>4. hpc' # "end" /\ Fetched(s)' \in Nat \ {0}
    BY <1>6, <2>1 DEF Fetches
  <2>5. piece' = Fetched(s)' /\ piece' \in 1 .. Fetched(s)'
    BY <2>1, <2>2, <2>4
  <2>6. Len(lup'[s]) <= lsent'[s]
    BY <1>1, <1>6, <2>1 DEF ClientLine
  <2>7. ClientLine(s)'
    BY <2>1, <2>3, <2>4, <2>5, <2>6 DEF ClientLine
  <2> QED
    BY <1>6, <2>1, <2>2, <2>4, <2>7
<1> QED
  BY <1>3, <1>4, <1>5, <1>6, LupSteps DEF Fetches

-----------------------------------------------------------------------------
(* From the pump, or from what it has kept, to the connection              *)

(* How the kept pieces and those being flushed change.                     *)
LEMMA FlushSteps ==
  ASSUME Typed, [Next]_vars, NEW s \in Sessions
  PROVE  /\ \/ flush' = flush /\ ~LoopGreet /\ ~(LoopFlush /\ flush # <<>>)
            \/ LoopGreet /\ lpc = "greet" /\ lpc' = "flush" /\ flush' = pending[frame.s]
               /\ UNCHANGED <<opened, pending, frame>>
            \/ LoopFlush /\ Len(flush) > 0 /\ Shrunk(flush, flush') /\ Head(flush) = flush[1]
               /\ lpc = "flush" /\ UNCHANGED <<lpc, opened, pending, frame>>
         /\ \/ pending'[s] = pending[s] /\ ~(PumpPiece /\ h = s /\ ~opened[s])
            \/ PumpPiece /\ h = s /\ ~opened[s] /\ hpc' = "pump" /\ hpc = "piece"
               /\ Grown(pending[s], pending'[s], piece) /\ UNCHANGED <<opened, loopVars>>
            \/ LoopFlush /\ frame.s = s /\ flush = <<>> /\ pending'[s] = <<>> /\ lpc' = "half"
               /\ ~(PumpPiece /\ h = s /\ ~opened[s]) /\ lpc = "flush" /\ UNCHANGED frame
         /\ opened[s] => opened'[s]
<1> USE DEF Typed, AllTypes
<1>1. /\ flush \in Seq(Nat) /\ pending \in [Sessions -> Seq(Nat)] /\ piece \in Nat
      /\ opened \in [Sessions -> BOOLEAN]
  BY DEF LoopTypes, ClientTypes, HandTypes
<1>2. \/ flush' = flush /\ ~LoopGreet /\ ~(LoopFlush /\ flush # <<>>)
      \/ LoopGreet /\ lpc = "greet" /\ lpc' = "flush" /\ flush' = pending[frame.s]
         /\ UNCHANGED <<opened, pending, frame>>
      \/ LoopFlush /\ Len(flush) > 0 /\ Shrunk(flush, flush') /\ Head(flush) = flush[1]
         /\ lpc = "flush" /\ UNCHANGED <<lpc, opened, pending, frame>>
  <2>1. CASE LoopGreet
    BY <2>1 DEF LoopGreet
  <2>2. CASE LoopFlush /\ flush # <<>>
    <3>1. flush' = Tail(flush) /\ UNCHANGED <<lpc, opened, pending, frame>> /\ lpc = "flush"
      BY <2>2 DEF LoopFlush
    <3>2. Shrunk(flush, flush') /\ Len(flush) \in Nat \ {0} /\ Head(flush) = flush[1]
      BY <1>1, <2>2, <3>1, Shrinks
    <3> QED
      BY <2>2, <3>1, <3>2
  <2>3. CASE ~LoopGreet /\ ~(LoopFlush /\ flush # <<>>)
    <3>1. flush' = flush
      BY <2>3, LoopMoves DEF loopVars, LoopRead, LoopDeliver, LoopFlush, LoopHalf, LoopShut,
           LoopLoss, LoopTell, LoopMark, LoopTold, LoopDial
    <3> QED
      BY <2>3, <3>1
  <2> QED
    BY <2>1, <2>2, <2>3
<1>3. \/ pending'[s] = pending[s] /\ ~(PumpPiece /\ h = s /\ ~opened[s])
      \/ PumpPiece /\ h = s /\ ~opened[s] /\ hpc' = "pump" /\ hpc = "piece"
         /\ Grown(pending[s], pending'[s], piece) /\ UNCHANGED <<opened, loopVars>>
      \/ LoopFlush /\ frame.s = s /\ flush = <<>> /\ pending'[s] = <<>> /\ lpc' = "half"
         /\ ~(PumpPiece /\ h = s /\ ~opened[s]) /\ lpc = "flush" /\ UNCHANGED frame
  <2>1. CASE PumpPiece
    <3>1. CASE h = s /\ ~opened[s]
      <4>1. pending' = [pending EXCEPT ![s] = Append(@, piece)] /\ hpc' = "pump"
            /\ hpc = "piece" /\ UNCHANGED <<opened, loopVars>>
        BY <2>1, <3>1 DEF PumpPiece, handRest
      <4>2. Grown(pending[s], pending'[s], piece)
        BY <1>1, <4>1, Grows
      <4> QED
        BY <2>1, <3>1, <4>1, <4>2
    <3>2. CASE ~(h = s /\ ~opened[s])
      BY <1>1, <2>1, <3>2 DEF PumpPiece
    <3> QED
      BY <3>1, <3>2
  <2>2. CASE LoopFlush
    <3>1. ~PumpPiece
      BY <2>2 DEF LoopFlush, PumpPiece, loopRest, handVars
    <3>2. CASE flush # <<>>
      BY <2>2, <3>1, <3>2 DEF LoopFlush
    <3>3. CASE flush = <<>>
      <4>1. pending' = [pending EXCEPT ![frame.s] = <<>>] /\ lpc' = "half" /\ lpc = "flush"
            /\ UNCHANGED frame
        BY <2>2, <3>3 DEF LoopFlush
      <4>2. CASE frame.s = s
        BY <1>1, <2>2, <3>1, <3>3, <4>1, <4>2
      <4>3. CASE frame.s # s
        <5>1. pending'[s] = pending[s]
          BY <1>1, <4>1, <4>3
        <5> QED
          BY <3>1, <5>1
      <4> QED
        BY <4>2, <4>3
    <3> QED
      BY <3>2, <3>3
  <2>3. CASE ~PumpPiece /\ ~LoopFlush
    <3>1. pending' = pending
      BY <2>3, ClientMoves DEF clientVars, OpenSession, SendConnect, PumpPush, PumpEnd, Finish,
           LoopRead, LoopGreet, LoopHalf, LoopShut, LoopLoss, LoopTell, LoopMark
    <3> QED
      BY <2>3, <3>1
  <2> QED
    BY <2>1, <2>2, <2>3
<1>4. opened[s] => opened'[s]
  <2>1. CASE LoopRead
    BY <1>1, <2>1 DEF LoopRead
  <2>2. CASE ~LoopRead
    BY <2>2, ClientMoves DEF clientVars, OpenSession, SendConnect, PumpPush, PumpEnd, Finish,
         PumpPiece, LoopGreet, LoopFlush, LoopHalf, LoopShut, LoopLoss, LoopTell, LoopMark
  <2> QED
    BY <2>1, <2>2
<1> QED
  BY <1>2, <1>3, <1>4

(* Whether and how often a number stands in a sequence.                    *)
Holds(q, n) == \E i \in 1 .. Len(q) : q[i] = n
Once(q, n) == \A i, j \in 1 .. Len(q) : q[i] = n /\ q[j] = n => i = j

LEMMA HoldsGrown ==
  ASSUME NEW q \in Seq(Nat), NEW p \in Seq(Nat), NEW x \in Nat, Grown(q, p, x), NEW n
  PROVE  /\ Holds(p, n) <=> Holds(q, n) \/ x = n
         /\ Once(q, n) /\ ~(Holds(q, n) /\ x = n) => Once(p, n)
<1>1. /\ Len(q) \in Nat /\ Len(p) = Len(q) + 1 /\ p[Len(q) + 1] = x
      /\ \A i \in 1 .. Len(q) : i \in 1 .. Len(p) /\ p[i] = q[i]
  BY LenProperties DEF Grown
<1>2. \A i \in 1 .. Len(p) : i \in 1 .. Len(q) \/ i = Len(q) + 1
  BY <1>1
<1>3. Holds(p, n) <=> Holds(q, n) \/ x = n
  <2>1. Len(q) + 1 \in 1 .. Len(p)
    BY <1>1
  <2> QED
    BY <1>1, <1>2, <2>1 DEF Holds
<1>4. ASSUME Once(q, n), ~(Holds(q, n) /\ x = n) PROVE Once(p, n)
  <2> SUFFICES ASSUME NEW i \in 1 .. Len(p), NEW j \in 1 .. Len(p), p[i] = n, p[j] = n
               PROVE  i = j
    BY DEF Once
  <2>1. CASE i \in 1 .. Len(q) /\ j \in 1 .. Len(q)
    BY <1>1, <1>4, <2>1 DEF Once
  <2>2. CASE i = Len(q) + 1 /\ j = Len(q) + 1
    BY <2>2
  <2>3. CASE i \in 1 .. Len(q) /\ j = Len(q) + 1
    BY <1>1, <1>4, <2>3 DEF Holds
  <2>4. CASE j \in 1 .. Len(q) /\ i = Len(q) + 1
    BY <1>1, <1>4, <2>4 DEF Holds
  <2> QED
    BY <1>2, <2>1, <2>2, <2>3, <2>4
<1> QED
  BY <1>3, <1>4

LEMMA HoldsShrunk ==
  ASSUME NEW q \in Seq(Nat), NEW p \in Seq(Nat), Len(q) > 0, Shrunk(q, p), NEW n
  PROVE  /\ Holds(q, n) <=> Holds(p, n) \/ q[1] = n
         /\ Once(q, n) => Once(p, n) /\ ~(Holds(p, n) /\ q[1] = n)
<1>1. /\ Len(q) \in Nat \ {0} /\ Len(p) = Len(q) - 1 /\ Len(p) \in Nat
      /\ \A i \in 1 .. Len(p) : i + 1 \in 1 .. Len(q) /\ p[i] = q[i + 1]
  BY LenProperties DEF Shrunk
<1>2. \A i \in 1 .. Len(q) : i = 1 \/ (i - 1 \in 1 .. Len(p) /\ (i - 1) + 1 = i)
  BY <1>1
<1>3. 1 \in 1 .. Len(q)
  BY <1>1
<1>4. Holds(p, n) => Holds(q, n)
  BY <1>1 DEF Holds
<1>5. Holds(q, n) => Holds(p, n) \/ q[1] = n
  <2> SUFFICES ASSUME NEW i \in 1 .. Len(q), q[i] = n, i # 1 PROVE Holds(p, n)
    BY DEF Holds
  <2>1. i - 1 \in 1 .. Len(p) /\ p[i - 1] = n
    BY <1>1, <1>2
  <2> QED
    BY <2>1 DEF Holds
<1>6. q[1] = n => Holds(q, n)
  BY <1>3 DEF Holds
<1>7. ASSUME Once(q, n) PROVE Once(p, n)
  <2> SUFFICES ASSUME NEW i \in 1 .. Len(p), NEW j \in 1 .. Len(p), p[i] = n, p[j] = n
               PROVE  i = j
    BY DEF Once
  <2>1. i + 1 \in 1 .. Len(q) /\ j + 1 \in 1 .. Len(q) /\ q[i + 1] = n /\ q[j + 1] = n
    BY <1>1
  <2>2. i + 1 = j + 1
    BY <1>7, <2>1 DEF Once
  <2> QED
    BY <2>2
<1>8. ASSUME Once(q, n), Holds(p, n), q[1] = n PROVE FALSE
  <2>1. PICK i \in 1 .. Len(p) : p[i] = n
    BY <1>8 DEF Holds
  <2>2. i + 1 \in 1 .. Len(q) /\ q[i + 1] = n
    BY <1>1, <2>1
  <2>3. i + 1 = 1
    BY <1>3, <1>8, <2>2 DEF Once
  <2> QED
    BY <2>3
<1> QED
  BY <1>4, <1>5, <1>6, <1>7, <1>8

LEMMA HoldsNone ==
  ASSUME NEW q \in Seq(Nat), Len(q) = 0, NEW n
  PROVE  ~Holds(q, n) /\ Once(q, n)
<1>1. \A i \in 1 .. Len(q) : FALSE
  OBVIOUS
<1> QED
  BY <1>1 DEF Holds, Once

(* Before the tunnel stands nothing has gone up, and a CONNECT client has  *)
(* sent nothing, so that nothing of it is ever kept.                       *)
Early(s) ==
  /\ ~opened[s] =>
       /\ \A e \in Epochs : ~HasUp(e, "data", s)
       /\ h = s => hpc # "push"
       /\ frame.s = s => lpc \notin {"greet", "flush"}
       /\ ~answered[s] /\ ~Holds(ldn[s], 0)
  /\ kind[s] = "connect" =>
       /\ lsent[s] > 0 => answered[s]
       /\ Len(pending[s]) = 0
       /\ frame.s = s /\ lpc = "flush" => Len(flush) = 0

LEMMA AnswerSteps ==
  ASSUME Typed, [Next]_vars, NEW s \in Sessions, ~opened'[s], Early(s), LocalLine(s)
  PROVE  ~answered'[s] /\ ~Holds(ldn'[s], 0)
<1>1. ~opened[s]
  BY FlushSteps
<1>2. ~answered[s] /\ ~Holds(ldn[s], 0)
  BY <1>1 DEF Early
<1>3. /\ ldn[s] \in Seq(Nat) /\ Len(ldn[s]) \in Nat /\ answered \in [Sessions -> BOOLEAN]
      /\ ldn'[s] \in Seq(Nat) /\ Len(ldn'[s]) \in Nat
  BY NextTyped, LenProperties DEF Typed, AllTypes, LsockTypes, LocalTypes
<1>4. ~answered'[s]
  <2>1. ASSUME NEW r \in Sessions, LocalReads(r) PROVE ~answered'[s]
    <3>1. CASE r # s \/ answered' = answered
      BY <1>2, <1>3, <2>1, <3>1 DEF LocalReads
    <3>2. CASE r = s /\ answered' # answered
      <4>1. ldn[s] # <<>> /\ Head(ldn[s]) = 0
        BY <2>1, <3>2 DEF LocalReads
      <4>2. Head(ldn[s]) = ldn[s][1] /\ Len(ldn[s]) \in Nat \ {0}
        BY <1>3, <4>1, Shrinks
      <4> QED
        BY <1>2, <4>1, <4>2 DEF Holds
    <3> QED
      BY <3>1, <3>2
  <2> QED
    BY <1>2, <2>1, LocalMoves DEF localVars, LocalSends, LocalFins
<1>5. ~Holds(ldn'[s], 0)
  <2>1. CASE ldn'[s] = ldn[s] \/ ldn'[s] = <<>>
    BY <1>2, <1>3, <2>1, EmptySeq, HoldsNone
  <2>2. CASE Shrunk(ldn[s], ldn'[s]) /\ ldn[s] # <<>>
    <3>1. Len(ldn[s]) > 0
      BY <1>3, <2>2, EmptySeq
    <3> QED
      BY <1>2, <1>3, <2>2, <3>1, HoldsShrunk
  <2>3. CASE LoopDeliver /\ frame.s = s /\ lsock[s] = "open" /\ Grown(ldn[s], ldn'[s], frame.k)
    <3>1. InDown(s) = 1
      BY <2>3 DEF LoopDeliver, InDown
    <3>2. frame.k = DownLen(s) + 1 /\ DownLen(s) \in Nat
      BY <2>3, <3>1, DownNat DEF LocalLine
    <3>3. frame.k # 0 /\ frame.k \in Nat
      BY <3>2
    <3> QED
      BY <1>2, <1>3, <2>3, <3>3, HoldsGrown
  <2>4. ~(LoopGreet /\ frame.s = s)
    BY <1>1 DEF LoopGreet, Early
  <2> QED
    BY <2>1, <2>2, <2>3, <2>4, LocalSteps DEF AnswerMove
<1> QED
  BY <1>4, <1>5

LEMMA EarlyKept ==
  ASSUME Typed, [Next]_vars, NEW s \in Sessions, ClientLine(s), LocalLine(s), Early(s)
  PROVE  Early(s)'
<1>1. opened[s] => opened'[s]
  BY FlushSteps
<1>2. ASSUME ~opened'[s], NEW e \in Epochs PROVE ~HasUp(e, "data", s)'
  <2>1. ~opened[s] /\ "data" \in Types
    BY <1>1, <1>2 DEF Types
  <2>2. ASSUME NEW f \in Frames, Puts(f), f.t = "data", f.s = s PROVE FALSE
    <3>1. \/ h = s /\ hpc = "push"
          \/ frame.s = s /\ lpc \in {"greet", "flush"}
      BY <2>2 DEF Puts, Frame, PumpPush, LoopGreet, LoopFlush
    <3> QED
      BY <2>1, <3>1 DEF Early
  <2> QED
    BY <2>1, <2>2, UpChanges DEF Early
<1>3. ASSUME ~opened'[s], h' = s, hpc' = "push" PROVE FALSE
  <2>1. Held(s)' /\ ~opened[s]
    BY <1>1, <1>3 DEF Held
  <2>2. ~Fetches(s)
    BY <1>3 DEF Fetches
  <2>3. Held(s) /\ (hpc = "push" \/ PumpPiece)
    BY <1>3, <2>1, <2>2, HeldSteps
  <2>4. h = s /\ hpc # "push"
    BY <2>1, <2>3 DEF Held, Early
  <2>5. hpc' # "push"
    BY <2>1, <2>3, <2>4 DEF PumpPiece
  <2> QED
    BY <1>3, <2>5
<1>4. ASSUME ~opened'[s], frame'.s = s, lpc' \in {"greet", "flush"} PROVE FALSE
  <2>1. ~opened[s] /\ (frame.s = s => lpc \notin {"greet", "flush"})
    BY <1>1, <1>4 DEF Early
  <2>2. CASE frame' = frame
    BY <1>4, <2>1, <2>2, LoopSteps DEF LoopRead, LoopTell
  <2>3. CASE frame' # frame
    <3>1. /\ LoopRead /\ frame' = down[ws][1]
          /\ opened'[s] = (opened[s] \/ down[ws][1].t = "connected")
          /\ lpc' = (CASE down[ws][1].t = "data" -> "deliver"
                       [] down[ws][1].t = "connected" -> "greet"
                       [] down[ws][1].t \in {"close", "error"} -> "shut")
          /\ down[ws][1].s = s
      BY <1>4, <2>3, LoopSteps
    <3>2. down[ws][1].t \in {"connected", "data", "close", "error"}
      BY <3>1, HeadRead, SystemAssumption DEF DownType
    <3> QED
      BY <1>4, <3>1, <3>2
  <2> QED
    BY <2>2, <2>3
<1>5. ASSUME ~opened'[s]
      PROVE  ~answered'[s] /\ ~Holds(ldn'[s], 0)
  BY <1>5, AnswerSteps
<1>6. kind' = kind
  BY LocalMoves DEF localVars, LocalSends, LocalFins, LocalReads
<1>7. ASSUME kind[s] = "connect", lsent'[s] > 0 PROVE answered'[s]
  <2>1. answered[s]
    BY <1>7, LupSteps DEF Early
  <2>2. answered \in [Sessions -> BOOLEAN]
    BY DEF Typed, AllTypes, LocalTypes
  <2>3. answered' = answered \/ \E r \in Sessions : LocalReads(r)
    BY LocalMoves DEF localVars, LocalSends, LocalFins
  <2>4. ASSUME NEW r \in Sessions, LocalReads(r) PROVE answered'[s]
    BY <2>1, <2>2, <2>4 DEF LocalReads
  <2> QED
    BY <2>1, <2>3, <2>4
<1>8. ASSUME kind[s] = "connect" PROVE Len(pending'[s]) = 0
  <2>1. Len(pending[s]) = 0
    BY <1>8 DEF Early
  <2>2. ASSUME h = s, hpc = "piece" PROVE opened[s]
    <3>1. piece \in 1 .. Fetched(s) /\ Fetched(s) = lsent[s] - Len(lup[s])
      BY <2>2 DEF ClientLine, Held, Fetched
    <3>2. lsent[s] \in Nat /\ Len(lup[s]) \in Nat
      BY SystemAssumption, LenProperties DEF Typed, AllTypes, LocalTypes, LsockTypes
    <3>3. lsent[s] > 0
      BY <3>1, <3>2
    <3> QED
      BY <1>8, <3>3 DEF Early
  <2> QED
    BY <2>1, <2>2, FlushSteps, EmptySeq
<1>9. ASSUME kind[s] = "connect", frame'.s = s, lpc' = "flush" PROVE Len(flush') = 0
  <2>1. Len(pending[s]) = 0 /\ (frame.s = s /\ lpc = "flush" => Len(flush) = 0)
    BY <1>9 DEF Early
  <2>2. frame' = frame /\ (lpc = "flush" \/ LoopGreet)
    <3>1. CASE frame' = frame
      BY <1>9, <3>1, LoopSteps DEF LoopRead, LoopTell
    <3>2. CASE frame' # frame
      <4>1. LoopRead
        BY <1>9, <3>2, LoopSteps
      <4>2. lpc' \in {"read", "deliver", "greet", "shut"}
        BY <4>1 DEF LoopRead
      <4> QED
        BY <1>9, <4>2
    <3> QED
      BY <3>1, <3>2
  <2> QED
    BY <1>9, <2>1, <2>2, FlushSteps
<1> QED
  BY <1>1, <1>2, <1>3, <1>4, <1>5, <1>6, <1>7, <1>8, <1>9 DEF Early

-----------------------------------------------------------------------------
(* From the reader of the connection to the target                         *)

(* How the socket of the target is filled and emptied.                     *)
LEMMA TupSteps ==
  ASSUME Typed, [Next]_vars, NEW s \in Sessions
  PROVE  \/ /\ tup'[s] = tup[s] /\ tgot'[s] = tgot[s]
            /\ \A e \in Epochs : WriteTarget(e) /\ rframe[e].s = s => tsock[s] # "open"
            /\ \/ teof'[s] = teof[s]
               \/ TargetReads(s) /\ Len(tup[s]) = 0 /\ tsock[s] \in {"half", "closed", "reset"}
                  /\ UNCHANGED tsock /\ teof[s] = "none"
                  /\ teof' = [teof EXCEPT ![s] = IF tsock[s] = "reset" THEN "reset" ELSE "eof"]
         \/ /\ tup'[s] = <<>> /\ tgot'[s] = tgot[s] /\ teof'[s] = teof[s] /\ tsock'[s] = "reset"
         \/ /\ TargetReads(s) /\ Len(tup[s]) > 0 /\ Shrunk(tup[s], tup'[s])
            /\ tgot' = [tgot EXCEPT ![s] = Append(@, tup[s][1])]
            /\ Grown(tgot[s], tgot'[s], tup[s][1]) /\ UNCHANGED <<tsock, teof, rpc, rframe, at>>
         \/ /\ \E e \in Epochs : WriteTarget(e) /\ rframe[e].s = s
                                 /\ Grown(tup[s], tup'[s], rframe[e].k)
            /\ tsock[s] = "open" /\ tgot'[s] = tgot[s] /\ UNCHANGED <<tsock, teof, at>>
<1> USE DEF Typed, AllTypes
<1> DEFINE Still == /\ tup'[s] = tup[s] /\ tgot'[s] = tgot[s] /\ teof'[s] = teof[s]
           Clear == /\ tup'[s] = <<>> /\ tgot'[s] = tgot[s] /\ teof'[s] = teof[s]
                    /\ tsock'[s] = "reset"
           Sees  == /\ tup'[s] = tup[s] /\ tgot'[s] = tgot[s]
                    /\ TargetReads(s) /\ Len(tup[s]) = 0 /\ tsock[s] \in {"half", "closed", "reset"}
                    /\ UNCHANGED tsock /\ teof[s] = "none"
                    /\ teof' = [teof EXCEPT ![s] = IF tsock[s] = "reset" THEN "reset" ELSE "eof"]
           Gets  == /\ TargetReads(s) /\ Len(tup[s]) > 0 /\ Shrunk(tup[s], tup'[s])
                    /\ tgot' = [tgot EXCEPT ![s] = Append(@, tup[s][1])]
                    /\ Grown(tgot[s], tgot'[s], tup[s][1])
                    /\ UNCHANGED <<tsock, teof, rpc, rframe, at>>
           Fills == /\ \E e \in Epochs : WriteTarget(e) /\ rframe[e].s = s
                                         /\ Grown(tup[s], tup'[s], rframe[e].k)
                    /\ tsock[s] = "open" /\ tgot'[s] = tgot[s] /\ UNCHANGED <<tsock, teof, at>>
           Idle == \A e \in Epochs : WriteTarget(e) /\ rframe[e].s = s => tsock[s] # "open"
<1>0. /\ tup \in [Sessions -> Seq(Nat)] /\ tgot \in [Sessions -> Seq(Nat)]
      /\ teof \in [Sessions -> Ends] /\ rframe \in [Epochs -> Frames]
  BY DEF TsockTypes, TargetTypes, ReadTypes
<1>1. ASSUME NEW S \in SUBSET Sessions, ShutTargets(S), UNCHANGED targetVars PROVE Still \/ Clear
  <2>1. tup'[s] = tup[s] \/ (tup'[s] = <<>> /\ tsock'[s] = "reset")
    <3>1. tsock[s] \in {"none", "open", "half", "closed", "reset"}
      BY DEF TsockTypes
    <3> QED
      BY <1>1, <3>1, ShutTargetsTypes
  <2> QED
    BY <1>1, <2>1 DEF targetVars
<1>2. ASSUME UNCHANGED <<tsockVars, targetVars>> PROVE Still
  BY <1>2 DEF tsockVars, targetVars
<1>3. ASSUME NEW e \in Epochs, ReadFrame(e) PROVE Still \/ Clear
  <2>1. UNCHANGED tup \/ (Head(up[e]).s \in Sessions /\ ShutTargets({Head(up[e]).s}))
    BY <1>3, FrameRead DEF ReadFrame, tsockVars, UpType
  <2>2. UNCHANGED targetVars
    BY <1>3 DEF ReadFrame, readRest
  <2> QED
    BY <1>1, <2>1, <2>2 DEF targetVars
<1>4. ASSUME NEW e \in Epochs, Dial(e) \/ StopManager(e) PROVE Still \/ Clear
  BY <1>1, <1>4 DEF Dial, StopManager, readRest, targetVars, ReadTypes
<1>5. ASSUME NEW e \in Epochs, WriteTarget(e) PROVE (Still /\ Idle) \/ Fills
  <2>1. UNCHANGED <<targetVars, tsock, at>>
    BY <1>5 DEF WriteTarget, readRest
  <2>2. ASSUME NEW d \in Epochs, WriteTarget(d) PROVE d = e
    <3>1. rpc \in [Epochs -> {"none", "read", "dial", "refuse", "connected", "write", "pong",
                             "gone"}]
      BY DEF ReadTypes
    <3>2. rpc[d] = "write" /\ rpc[e] = "write" /\ rpc' = [rpc EXCEPT ![d] = "read"]
          /\ rpc' = [rpc EXCEPT ![e] = "read"]
      BY <1>5, <2>2 DEF WriteTarget, ReadOn
    <3> QED
      BY <3>1, <3>2
  <2>3. CASE rframe[e].s = s /\ tsock[s] = "open"
    <3>1. tup' = [tup EXCEPT ![s] = Append(@, rframe[e].k)]
      BY <1>5, <2>3 DEF WriteTarget
    <3>2. rframe[e].k \in Nat
      BY <1>0 DEF Frames
    <3>3. Grown(tup[s], tup'[s], rframe[e].k)
      BY <1>0, <3>1, <3>2, Grows
    <3> QED
      BY <1>5, <2>1, <2>3, <3>3 DEF targetVars
  <2>4. CASE rframe[e].s = s /\ tsock[s] # "open"
    BY <1>5, <2>1, <2>4 DEF WriteTarget, targetVars
  <2>5. CASE rframe[e].s # s
    <3>1. tup'[s] = tup[s]
      BY <1>0, <1>5, <2>5 DEF WriteTarget
    <3> QED
      BY <2>1, <2>2, <2>5, <3>1 DEF targetVars
  <2> QED
    BY <2>3, <2>4, <2>5
<1>6. ASSUME NEW r \in Sessions, ReadTarget(r) \/ SendData(r) \/ EndSession(r)
      PROVE  Still \/ Clear
  <2>1. UNCHANGED targetVars
    BY <1>6 DEF ReadTarget, SendData, EndSession, threadRest
  <2>2. UNCHANGED tup \/ ShutTargets({r})
    BY <1>6 DEF ReadTarget, SendData, EndSession, tsockVars
  <2> QED
    BY <1>1, <2>1, <2>2 DEF targetVars
<1>7. ASSUME NEW r \in Sessions, TargetSends(r) \/ TargetFins(r) PROVE Still
  BY <1>7 DEF TargetSends, TargetFins, tsockVars
<1>8. ASSUME NEW r \in Sessions, TargetSendsLate(r) PROVE Still \/ Clear
  BY <1>0, <1>8 DEF TargetSendsLate, targetVars, TsockTypes
<1>9. ASSUME NEW r \in Sessions, TargetReads(r) PROVE Still \/ Sees \/ Gets
  <2>1. UNCHANGED <<tsock, rpc, rframe, at>>
    BY <1>9 DEF TargetReads, readVars
  <2>2. CASE r # s
    BY <1>0, <1>9, <2>2 DEF TargetReads
  <2>3. CASE r = s /\ tup[s] = <<>>
    <3>1. Len(tup[s]) = 0
      BY <1>0, <2>3, EmptySeq
    <3> QED
      BY <1>0, <1>9, <2>1, <2>3, <3>1 DEF TargetReads
  <2>4. CASE r = s /\ tup[s] # <<>>
    <3>1. tup' = [tup EXCEPT ![s] = Tail(@)] /\ tgot' = [tgot EXCEPT ![s] = Append(@, Head(tup[s]))]
          /\ UNCHANGED teof
      BY <1>9, <2>4 DEF TargetReads
    <3>2. /\ Head(tup[s]) = tup[s][1] /\ Head(tup[s]) \in Nat /\ Len(tup[s]) \in Nat \ {0}
          /\ Shrunk(tup[s], Tail(tup[s]))
      BY <1>0, <2>4, Shrinks
    <3>3. Grown(tgot[s], tgot'[s], tup[s][1])
      BY <1>0, <3>1, <3>2, Grows
    <3>4. tup'[s] = Tail(tup[s]) /\ Len(tup[s]) > 0
      BY <1>0, <3>1, <3>2
    <3> QED
      BY <1>9, <2>1, <2>4, <3>1, <3>2, <3>3, <3>4
  <2> QED
    BY <2>2, <2>3, <2>4
<1>10. (\A e \in Epochs : ~WriteTarget(e)) => Idle
  OBVIOUS
<1> HIDE DEF Still, Clear, Sees, Gets, Fills, Idle
<1>11. (Still /\ Idle) \/ Clear \/ Sees \/ Gets \/ Fills
  <2>1. CASE \E e \in Epochs : WriteTarget(e)
    BY <1>5, <2>1
  <2>2. CASE \A e \in Epochs : ~WriteTarget(e)
    BY <1>2, <1>3, <1>4, <1>6, <1>7, <1>8, <1>9, <1>10, <2>2, TsockMoves, TargetMoves
  <2> QED
    BY <2>1, <2>2
<1>12. Sees => Idle
  BY DEF Sees, Idle, TargetReads, WriteTarget, ReadOn, ReadTypes, readVars
<1> QED
  BY <1>11, <1>12 DEF Still, Clear, Sees, Gets, Fills, Idle

(* A target without a socket has nothing, the uplink is shut on a socket   *)
(* that stands, and the end is seen behind the last piece.                 *)
TargetSide(s) ==
  /\ tsock[s] = "none" => Len(tup[s]) = 0 /\ Len(tgot[s]) = 0
  /\ upShut[s] => tsock[s] \notin {"none", "open"}
  /\ teof[s] # "none" => Len(tup[s]) = 0 /\ tsock[s] \in {"half", "closed", "reset"}

LEMMA ShutSteps ==
  ASSUME Typed, [Next]_vars, NEW s \in Sessions, AtHome(s), upShut'[s], ~upShut[s]
  PROVE  tsock'[s] \notin {"none", "open"}
<1> USE DEF Typed, AllTypes
<1>1. PICK e \in Epochs : ReadFrame(e) /\ upShut' # upShut
  <2>1. upShut' = upShut \/ \E e \in Epochs : ReadFrame(e)
    BY ReadMoves DEF readVars, LoopDial, Dial, SayError, SayConnected, WriteTarget, SendPong,
       StopManager, SendData, EndSession, threadRest
  <2> QED
    BY <2>1
<1>2. /\ rpc[e] = "read" /\ Head(up[e]).s \in sess[e]
      /\ upShut' = [upShut EXCEPT ![Head(up[e]).s] = TRUE]
      /\ tsock' = [tsock EXCEPT ![Head(up[e]).s] = IF @ = "open" THEN "half" ELSE @]
  BY <1>1 DEF ReadFrame
<1>3. Head(up[e]).s = s /\ s \in sess[e]
  BY <1>2 DEF ReadTypes
<1>4. tsock[s] # "none"
  BY <1>2, <1>3 DEF AtHome
<1> QED
  BY <1>2, <1>3, <1>4 DEF TsockTypes

LEMMA TargetSideKept ==
  ASSUME Typed, [Next]_vars, NEW s \in Sessions, AtHome(s), \A e \in Epochs : InHand(e, s),
         TargetSide(s)
  PROVE  TargetSide(s)'
<1>1. tup[s] \in Seq(Nat) /\ teof \in [Sessions -> Ends]
      /\ tsock'[s] \in {"none", "open", "half", "closed", "reset"}
  BY NextTyped DEF Typed, AllTypes, TsockTypes, TargetTypes
<1>2. Dialled(s) => tsock[s] = "none"
  BY DEF Dialled, Dial, InHand
<1>3. tsock'[s] = "none" => tsock[s] = "none"
  BY SockSteps
<1>4. tsock'[s] = "open" => tsock[s] \in {"none", "open"}
  BY <1>2, SockSteps
<1>5. tsock'[s] = "none" => Len(tup'[s]) = 0 /\ Len(tgot'[s]) = 0
  BY <1>3, TupSteps DEF TargetSide
<1>6. upShut'[s] => tsock'[s] \notin {"none", "open"}
  BY <1>3, <1>4, ShutSteps DEF TargetSide
<1>7. ASSUME teof'[s] # "none"
      PROVE  Len(tup'[s]) = 0 /\ tsock'[s] \in {"half", "closed", "reset"}
  <2>1. CASE teof[s] # "none"
    <3>1. Len(tup[s]) = 0 /\ tsock[s] \in {"half", "closed", "reset"}
      BY <2>1 DEF TargetSide
    <3>2. tsock'[s] \in {"half", "closed", "reset"}
      BY <1>1, <1>3, <1>4, <3>1
    <3>3. tup'[s] = tup[s] \/ tup'[s] = <<>>
      BY <3>1, TupSteps
    <3> QED
      BY <1>1, <3>1, <3>2, <3>3, EmptySeq
  <2>2. CASE teof[s] = "none"
    BY <1>7, <2>2, TupSteps
  <2> QED
    BY <2>1, <2>2
<1> QED
  BY <1>5, <1>6, <1>7 DEF TargetSide

-----------------------------------------------------------------------------
(* No piece is in two places, of whatever kind the request is              *)

(* onOpen has not yet sent the head of a plain request; what is kept, or   *)
(* being flushed, of a session.                                            *)
Ungreeted(s) == ~opened[s] \/ (frame.s = s /\ lpc = "greet")
Flushing(s) == frame.s = s /\ lpc = "flush"
Saved(s) == IF Flushing(s) THEN flush ELSE IF Ungreeted(s) THEN pending[s] ELSE <<>>

Keeps(s) == PumpPiece /\ h = s /\ ~opened[s]
Greets(s) == LoopGreet /\ frame.s = s
Flushes(s) == LoopFlush /\ frame.s = s /\ flush # <<>>

LEMMA GreetSteps ==
  ASSUME Typed, [Next]_vars, NEW s \in Sessions, First(s), Early(s), ~Greets(s)
  PROVE  Ungreeted(s)' <=> Ungreeted(s)
<1> USE DEF Typed, AllTypes
<1>1. opened \in [Sessions -> BOOLEAN] /\ ws \in Epochs /\ "connected" \in Types
  BY DEF ClientTypes, WireTypes, Types
<1>2. CASE LoopRead
  <2>1. lpc = "read" /\ down[ws][1] = Head(down[ws]) /\ Len(down[ws]) \in Nat \ {0}
    BY <1>2, HeadRead DEF LoopRead
  <2>2. CASE down[ws][1].s = s /\ down[ws][1].t = "connected" /\ s \in smap
    <3>1. lpc' = "greet" /\ frame' = down[ws][1]
      BY <1>2, <2>1, <2>2 DEF LoopRead
    <3>2. HasDown(ws, "connected", s)
      BY <2>1, <2>2 DEF HasDown
    <3>3. ~opened[s]
      BY <1>1, <3>2 DEF First
    <3> QED
      BY <2>2, <3>1, <3>3 DEF Ungreeted
  <2>3. CASE ~(down[ws][1].s = s /\ down[ws][1].t = "connected" /\ s \in smap)
    <3>1. opened'[s] = opened[s] /\ ~(frame'.s = s /\ lpc' = "greet")
      <4>1. 0 \notin Sessions
        BY SystemAssumption
      <4> QED
        BY <1>1, <1>2, <2>1, <2>3, <4>1 DEF LoopRead, NoFrame, Frame
    <3> QED
      BY <2>1, <3>1 DEF Ungreeted
  <2> QED
    BY <2>2, <2>3
<1>3. CASE ~LoopRead
  <2>1. opened' = opened
    BY <1>3, ClientMoves DEF clientVars, OpenSession, SendConnect, PumpPush, PumpEnd, Finish,
         PumpPiece, LoopGreet, LoopFlush, LoopHalf, LoopShut, LoopLoss, LoopTell, LoopMark
  <2>2. ASSUME frame.s = s, lpc = "greet" PROVE UNCHANGED <<frame, lpc>>
    BY <2>2, LoopMoves DEF loopVars, LoopRead, LoopDeliver, LoopFlush, LoopHalf, LoopShut,
         LoopLoss, LoopTell, LoopMark, LoopTold, LoopDial, Greets
  <2>3. ASSUME frame'.s = s, lpc' = "greet" PROVE UNCHANGED <<frame, lpc>>
    <3>1. frame' = frame
      BY <1>3, <2>3, LoopSteps
    <3>2. lpc' = lpc
      <4>1. lpc' \notin {"flush", "half", "tell", "dial", "read", "mark"}
        BY <2>3
      <4> QED
        BY <1>3, <2>3, <4>1, LoopSteps
    <3> QED
      BY <3>1, <3>2
  <2> QED
    BY <2>1, <2>2, <2>3 DEF Ungreeted
<1> QED
  BY <1>2, <1>3

LEMMA FlushingSteps ==
  ASSUME Typed, [Next]_vars, NEW s \in Sessions, ~Greets(s), ~(LoopFlush /\ frame.s = s)
  PROVE  /\ Flushing(s)' <=> Flushing(s)
         /\ Flushing(s) => flush' = flush
<1>1. ASSUME Flushing(s)
      PROVE  UNCHANGED <<frame, lpc, flush>>
  BY <1>1, LoopMoves DEF loopVars, LoopRead, LoopDeliver, LoopGreet, LoopHalf, LoopShut,
       LoopLoss, LoopTell, LoopMark, LoopTold, LoopDial, Flushing
<1>2. ASSUME Flushing(s)' PROVE Flushing(s)
  <2>1. frame' = frame
    BY <1>2, LoopSteps DEF Flushing, LoopRead, LoopTell
  <2> QED
    BY <1>2, <2>1, LoopSteps DEF Flushing, Greets, LoopRead, LoopTell
<1> QED
  BY <1>1, <1>2 DEF Flushing

LEMMA SavedSteps ==
  ASSUME Typed, [Next]_vars, NEW s \in Sessions, First(s), Early(s)
  PROVE  \/ /\ Saved(s)' = Saved(s) /\ (Ungreeted(s)' <=> Ungreeted(s))
            /\ ~Keeps(s) /\ ~Greets(s) /\ ~Flushes(s)
         \/ Keeps(s) /\ hpc = "piece" /\ hpc' = "pump" /\ Grown(Saved(s), Saved(s)', piece)
            /\ Ungreeted(s) /\ Ungreeted(s)'
         \/ Greets(s) /\ Saved(s)' = Saved(s) /\ Ungreeted(s) /\ ~Ungreeted(s)'
         \/ Flushes(s) /\ Shrunk(Saved(s), Saved(s)') /\ Len(Saved(s)) > 0
            /\ Head(flush) = Saved(s)[1] /\ ~Ungreeted(s) /\ ~Ungreeted(s)'
<1>1. Flushing(s) => opened[s] /\ ~Ungreeted(s)
  BY DEF Flushing, Early, Ungreeted
<1>2. CASE Keeps(s)
  <2>1. /\ hpc = "piece" /\ hpc' = "pump" /\ Grown(pending[s], pending'[s], piece)
        /\ UNCHANGED <<opened, loopVars>> /\ ~opened[s]
    BY <1>2, FlushSteps DEF Keeps
  <2>2. ~Flushing(s) /\ ~Flushing(s)' /\ Ungreeted(s) /\ Ungreeted(s)'
    BY <1>1, <2>1 DEF Flushing, Ungreeted, loopVars
  <2> QED
    BY <1>2, <2>1, <2>2 DEF Saved
<1>3. CASE Greets(s)
  <2>1. /\ lpc = "greet" /\ lpc' = "flush" /\ flush' = pending[s] /\ frame' = frame /\ frame.s = s
        /\ opened' = opened
    BY <1>3 DEF Greets, LoopGreet
  <2>2. opened[s]
    BY <2>1 DEF Early
  <2>3. Ungreeted(s) /\ ~Ungreeted(s)' /\ ~Flushing(s) /\ Flushing(s)'
    BY <2>1, <2>2 DEF Ungreeted, Flushing
  <2> QED
    BY <1>3, <2>1, <2>3 DEF Saved
<1>4. CASE Flushes(s)
  <2>1. /\ Len(flush) > 0 /\ Shrunk(flush, flush') /\ Head(flush) = flush[1]
        /\ lpc = "flush" /\ UNCHANGED <<lpc, opened, frame>> /\ frame.s = s
    BY <1>4, FlushSteps DEF Flushes, LoopFlush, LoopGreet
  <2>2. Flushing(s) /\ Flushing(s)' /\ ~Ungreeted(s) /\ ~Ungreeted(s)'
    BY <1>1, <2>1 DEF Flushing, Ungreeted
  <2> QED
    BY <1>4, <2>1, <2>2 DEF Saved
<1>5. CASE LoopFlush /\ frame.s = s /\ flush = <<>>
  <2>1. lpc = "flush" /\ lpc' = "half" /\ UNCHANGED <<opened, frame>>
    BY <1>5 DEF LoopFlush
  <2>2. Flushing(s) /\ ~Flushing(s)' /\ ~Ungreeted(s) /\ ~Ungreeted(s)'
    BY <1>1, <1>5, <2>1 DEF Flushing, Ungreeted
  <2>3. ~Keeps(s) /\ ~Greets(s) /\ ~Flushes(s)
    BY <1>1, <1>5, <2>1, <2>2 DEF Keeps, Greets, Flushes, LoopGreet
  <2> QED
    BY <1>5, <2>2, <2>3 DEF Saved
<1>6. CASE ~Keeps(s) /\ ~Greets(s) /\ ~(LoopFlush /\ frame.s = s)
  <2>1. Ungreeted(s)' <=> Ungreeted(s)
    BY <1>6, GreetSteps
  <2>2. (Flushing(s)' <=> Flushing(s)) /\ (Flushing(s) => flush' = flush)
    BY <1>6, FlushingSteps
  <2>3. pending'[s] = pending[s]
    BY <1>6, FlushSteps DEF Keeps
  <2> QED
    BY <1>6, <2>1, <2>2, <2>3 DEF Saved, Flushes
<1> QED
  BY <1>2, <1>3, <1>4, <1>5, <1>6 DEF Flushes

(* The frame a reader writes to the target.                                *)
LEMMA WriteSteps ==
  ASSUME Typed, [Next]_vars, NEW e \in Epochs, NEW s \in Sessions,
         rpc'[e] = "write", rframe'[e].s = s
  PROVE  \/ rpc[e] = "write" /\ rframe'[e] = rframe[e] /\ ~WriteTarget(e)
         \/ Reads(e, "data", s) /\ rframe'[e] = up[e][1]
<1> USE DEF Typed, AllTypes, ReadTypes
<1>1. CASE rpc[e] = "write"
  <2>1. ASSUME NEW d \in Epochs, ReadOn(d) PROVE rframe'[e] = rframe[e] /\ d # e
    BY <2>1 DEF ReadOn
  <2>2. ASSUME NEW d \in Epochs, ReadFrame(d) PROVE rframe'[e] = rframe[e]
    BY <1>1, <2>2 DEF ReadFrame
  <2>3. rframe'[e] = rframe[e]
    BY <2>1, <2>2, ReadMoves DEF readVars, LoopDial, Dial, SayError, SayConnected, WriteTarget,
       SendPong, StopManager, SendData, EndSession, threadRest
  <2>4. ~WriteTarget(e)
    BY <2>1 DEF WriteTarget
  <2> QED
    BY <1>1, <2>3, <2>4
<1>2. CASE rpc[e] # "write"
  <2>1. Reads(e, "data", s)
    BY <1>2, InHandMoves DEF Dial
  <2>2. rframe'[e] = Head(up[e])
    BY <2>1 DEF Reads, ReadFrame
  <2> QED
    BY <2>1, <2>2, FrameRead DEF Reads
<1> QED
  BY <1>1, <1>2

(* Where a piece can be: read by the target, in its socket, in the hand of *)
(* the reader, on a connection, kept by the handler, in the hand of the    *)
(* pump, not yet read.  Piece 0, the head of a plain request, is kept      *)
(* until onOpen sends it.                                                  *)
Places == {"got", "tup", "hand", "wire", "kept", "held", "unread"}
Wired(e, s, n) == \E i \in 1 .. Len(up[e]) : DataOf(up[e], i, s) /\ up[e][i].k = n
WiredOnce(e, s, n) == \A i, j \in 1 .. Len(up[e]) :
  /\ DataOf(up[e], i, s) /\ up[e][i].k = n
  /\ DataOf(up[e], j, s) /\ up[e][j].k = n
  => i = j
Writes(e, s, n) == rpc[e] = "write" /\ rframe[e].s = s /\ rframe[e].k = n
Lies(p, s, n) ==
  CASE p = "got"    -> Holds(tgot[s], n)
    [] p = "tup"    -> Holds(tup[s], n)
    [] p = "hand"   -> \E e \in Epochs : Writes(e, s, n)
    [] p = "wire"   -> \E e \in Epochs : Wired(e, s, n)
    [] p = "kept"   -> Holds(Saved(s), n) \/ (n = 0 /\ Ungreeted(s))
    [] p = "held"   -> Held(s) /\ piece = n
    [] p = "unread" -> n > Fetched(s)

(* Every piece is in one place, and there once.                            *)
Alone(s, n) == \A p, q \in Places : Lies(p, s, n) /\ Lies(q, s, n) => p = q
Apart(s, n) ==
  /\ Once(tgot[s], n) /\ Once(tup[s], n) /\ Once(Saved(s), n) /\ ~Holds(Saved(s), 0)
  /\ \A e \in Epochs : WiredOnce(e, s, n)
  /\ \A d, e \in Epochs : Wired(d, s, n) /\ Wired(e, s, n) => d = e
  /\ Alone(s, n)

(* The next place on the way.                                              *)
Onward(r) ==
  CASE r = "tup"    -> "got"
    [] r = "hand"   -> "tup"
    [] r = "wire"   -> "hand"
    [] r = "kept"   -> "wire"
    [] r = "held"   -> IF hpc = "push" THEN "wire" ELSE "kept"
    [] r = "unread" -> "held"
    [] OTHER        -> "none"
Comes(p, s, n) ==
  \/ Lies(p, s, n)
  \/ \E r \in Places : Onward(r) = p /\ Lies(r, s, n) /\ ~Lies(r, s, n)'

LEMMA PlacesAre ==
  ASSUME NEW s, NEW n
  PROVE  /\ Lies("got", s, n) <=> Holds(tgot[s], n)
         /\ Lies("tup", s, n) <=> Holds(tup[s], n)
         /\ Lies("hand", s, n) <=> \E e \in Epochs : Writes(e, s, n)
         /\ Lies("wire", s, n) <=> \E e \in Epochs : Wired(e, s, n)
         /\ Lies("kept", s, n) <=> Holds(Saved(s), n) \/ (n = 0 /\ Ungreeted(s))
         /\ Lies("held", s, n) <=> Held(s) /\ piece = n
         /\ Lies("unread", s, n) <=> n > Fetched(s)
BY DEF Lies

LEMMA PlacesNext ==
  ASSUME NEW s, NEW n
  PROVE  /\ Lies("got", s, n)' <=> Holds(tgot'[s], n)
         /\ Lies("tup", s, n)' <=> Holds(tup'[s], n)
         /\ Lies("hand", s, n)' <=> \E e \in Epochs : Writes(e, s, n)'
         /\ Lies("wire", s, n)' <=> \E e \in Epochs : Wired(e, s, n)'
         /\ Lies("kept", s, n)' <=> Holds(Saved(s)', n) \/ (n = 0 /\ Ungreeted(s)')
         /\ Lies("held", s, n)' <=> Held(s)' /\ piece' = n
         /\ Lies("unread", s, n)' <=> n > Fetched(s)'
BY DEF Lies

(* Two places that are not the same.                                       *)
LEMMA NotBoth ==
  ASSUME NEW s, NEW n, Alone(s, n), NEW p \in Places, NEW q \in Places, p # q
  PROVE  ~(Lies(p, s, n) /\ Lies(q, s, n))
BY DEF Alone

\* The target reads.
LEMMA GotKept ==
  ASSUME Typed, [Next]_vars, NEW s \in Sessions, NEW n \in Nat, Apart(s, n)
  PROVE  (Lies("got", s, n)' => Comes("got", s, n)) /\ Once(tgot'[s], n)
<1>1. /\ tup[s] \in Seq(Nat) /\ tgot[s] \in Seq(Nat)
      /\ tup'[s] \in Seq(Nat) /\ tgot'[s] \in Seq(Nat)
  BY NextTyped DEF Typed, AllTypes, TsockTypes, TargetTypes
<1>2. CASE tgot'[s] = tgot[s]
  BY <1>2, PlacesAre, PlacesNext DEF Apart, Comes
<1>3. CASE tgot'[s] # tgot[s]
  <2>1. Len(tup[s]) > 0 /\ Shrunk(tup[s], tup'[s]) /\ Grown(tgot[s], tgot'[s], tup[s][1])
    BY <1>3, TupSteps
  <2>2. tup[s][1] \in Nat
    <3>1. 1 \in 1 .. Len(tup[s])
      BY <1>1, <2>1
    <3> QED
      BY <1>1, <3>1, ElementOfSeq
  <2>3. tup[s][1] = n => Holds(tup[s], n) /\ ~Holds(tup'[s], n)
    BY <1>1, <2>1, HoldsShrunk DEF Apart
  <2>4. ~(Holds(tgot[s], n) /\ tup[s][1] = n)
    BY <2>3, NotBoth, PlacesAre DEF Places, Apart
  <2>5. (Holds(tgot'[s], n) <=> Holds(tgot[s], n) \/ tup[s][1] = n) /\ Once(tgot'[s], n)
    BY <1>1, <2>1, <2>2, <2>4, HoldsGrown DEF Apart
  <2>6. Onward("tup") = "got" /\ "tup" \in Places
    BY DEF Onward, Places
  <2> QED
    BY <2>3, <2>5, <2>6, PlacesAre, PlacesNext DEF Comes
<1> QED
  BY <1>2, <1>3

\* The reader writes to the target.
LEMMA TupKept ==
  ASSUME Typed, [Next]_vars, NEW s \in Sessions, NEW n \in Nat, Apart(s, n),
         \A e \in Epochs : InHand(e, s)
  PROVE  (Lies("tup", s, n)' => Comes("tup", s, n)) /\ Once(tup'[s], n)
<1>1. /\ tup[s] \in Seq(Nat) /\ tup'[s] \in Seq(Nat) /\ rframe \in [Epochs -> Frames]
  BY NextTyped DEF Typed, AllTypes, TsockTypes, ReadTypes
<1>2. CASE tup'[s] = tup[s]
  BY <1>2, PlacesAre, PlacesNext DEF Apart, Comes
<1>3. CASE tup'[s] = <<>>
  BY <1>1, <1>3, EmptySeq, HoldsNone, PlacesNext
<1>4. CASE Len(tup[s]) > 0 /\ Shrunk(tup[s], tup'[s])
  BY <1>1, <1>4, HoldsShrunk, PlacesAre, PlacesNext DEF Apart, Comes
<1>5. ASSUME NEW e \in Epochs, WriteTarget(e), rframe[e].s = s,
             Grown(tup[s], tup'[s], rframe[e].k), UNCHANGED at
      PROVE  (Lies("tup", s, n)' => Comes("tup", s, n)) /\ Once(tup'[s], n)
  <2>1. rframe[e].k \in Nat /\ rpc[e] = "write"
    BY <1>1, <1>5 DEF Frames, WriteTarget
  <2>2. rframe[e].k = n => Writes(e, s, n)
    BY <1>5, <2>1 DEF Writes
  <2>3. ASSUME NEW d \in Epochs, Writes(d, s, n)' PROVE FALSE
    <3>1. rpc[d] = "write" /\ rframe[d].s = s /\ d # e
      BY <1>5, <2>3, WriteSteps DEF Writes, Reads, ReadFrame, WriteTarget, ReadOn,
         Typed, AllTypes, ReadTypes
    <3>2. at[s] = d /\ at[s] = e
      BY <1>5, <2>1, <3>1 DEF InHand
    <3> QED
      BY <3>1, <3>2
  <2>4. ~(Holds(tup[s], n) /\ rframe[e].k = n)
    BY <2>2, NotBoth, PlacesAre DEF Places, Apart
  <2>5. (Holds(tup'[s], n) <=> Holds(tup[s], n) \/ rframe[e].k = n) /\ Once(tup'[s], n)
    BY <1>1, <1>5, <2>1, <2>4, HoldsGrown DEF Apart
  <2>6. Onward("hand") = "tup" /\ "hand" \in Places
    BY DEF Onward, Places
  <2> QED
    BY <2>2, <2>3, <2>5, <2>6, PlacesAre, PlacesNext DEF Comes
<1> QED
  BY <1>2, <1>3, <1>4, <1>5, TupSteps

\* The reader takes a frame from the connection.
LEMMA HandOnKept ==
  ASSUME Typed, [Next]_vars, NEW s \in Sessions, NEW n \in Nat, Apart(s, n)
  PROVE  Lies("hand", s, n)' => Comes("hand", s, n)
<1>1. ASSUME NEW e \in Epochs, Reads(e, "data", s), up[e][1].k = n
      PROVE  Lies("wire", s, n) /\ ~Lies("wire", s, n)'
  <2>1. up[e][1].t = "data" /\ up[e][1].s = s /\ Len(up[e]) \in Nat \ {0}
        /\ Shrunk(up[e], up'[e])
    BY <1>1, ReadsHas
  <2>2. Len(up'[e]) \in Nat /\ 1 \in 1 .. Len(up[e])
    BY <2>1, Lengths
  <2>3. Wired(e, s, n)
    BY <1>1, <2>1, <2>2 DEF Wired, DataOf
  <2>4. ASSUME Wired(e, s, n)' PROVE FALSE
    <3>1. PICK i \in 1 .. Len(up'[e]) : up'[e][i].t = "data" /\ up'[e][i].s = s /\ up'[e][i].k = n
      BY <2>4 DEF Wired, DataOf
    <3>2. i + 1 \in 1 .. Len(up[e]) /\ up'[e][i] = up[e][i + 1] /\ i + 1 # 1
      BY <2>1, <2>2, <3>1 DEF Shrunk
    <3> QED
      BY <1>1, <2>1, <2>2, <3>1, <3>2 DEF Apart, WiredOnce, DataOf
  <2>5. ASSUME NEW d \in Epochs, d # e, Wired(d, s, n)' PROVE FALSE
    <3>1. up' = [up EXCEPT ![e] = Tail(@)]
      BY <1>1 DEF Reads, ReadFrame
    <3>2. up'[d] = up[d]
      BY <2>5, <3>1 DEF Typed, AllTypes, WireTypes
    <3>3. Wired(d, s, n)
      BY <2>5, <3>2 DEF Wired, DataOf
    <3> QED
      BY <2>3, <2>5, <3>3 DEF Apart
  <2> QED
    BY <2>3, <2>4, <2>5, PlacesAre, PlacesNext
<1>2. ASSUME NEW e \in Epochs, Writes(e, s, n)' PROVE Comes("hand", s, n)
  <2>1. CASE rpc[e] = "write" /\ rframe'[e] = rframe[e]
    <3>1. Writes(e, s, n)
      BY <1>2, <2>1 DEF Writes
    <3> QED
      BY <3>1, PlacesAre DEF Comes
  <2>2. CASE Reads(e, "data", s) /\ rframe'[e] = up[e][1]
    <3>1. Lies("wire", s, n) /\ ~Lies("wire", s, n)'
      BY <1>1, <1>2, <2>2 DEF Writes
    <3>2. Onward("wire") = "hand" /\ "wire" \in Places
      BY DEF Onward, Places
    <3> QED
      BY <3>1, <3>2 DEF Comes
  <2> QED
    BY <1>2, <2>1, <2>2, WriteSteps DEF Writes
<1> QED
  BY <1>2, PlacesNext

LEMMA SavedType ==
  ASSUME Typed, [Next]_vars, NEW s \in Sessions
  PROVE  Saved(s) \in Seq(Nat) /\ Saved(s)' \in Seq(Nat)
<1>1. /\ flush \in Seq(Nat) /\ pending[s] \in Seq(Nat) /\ flush' \in Seq(Nat)
      /\ pending'[s] \in Seq(Nat) /\ <<>> \in Seq(Nat)
  BY NextTyped, EmptySeq DEF Typed, AllTypes, LoopTypes, ClientTypes
<1> QED
  BY <1>1 DEF Saved

\* What is put on the connection was in the hand of the pump, or kept.
LEMMA PutFrom ==
  ASSUME Typed, [Next]_vars, NEW s \in Sessions, NEW n \in Nat, Apart(s, n), First(s), Early(s),
         NEW f \in Frames, Puts(f), f.t = "data", f.s = s, f.k = n
  PROVE  \E r \in Places \ {"wire"} : Onward(r) = "wire" /\ Lies(r, s, n) /\ ~Lies(r, s, n)'
<1> DEFINE From(r) == Onward(r) = "wire" /\ Lies(r, s, n) /\ ~Lies(r, s, n)'
<1>1. CASE PumpPush /\ f = Frame("data", h, piece)
  <2>1. h = s /\ hpc = "push" /\ piece = n /\ hpc' \in {"pump", "finish"}
    BY <1>1 DEF PumpPush, Frame
  <2>2. Held(s) /\ ~Held(s)' /\ Onward("held") = "wire"
    BY <2>1 DEF Held, Onward
  <2>3. From("held")
    BY <2>1, <2>2, PlacesAre, PlacesNext
  <2> QED
    BY <2>3 DEF Places
<1>2. CASE LoopGreet /\ f = Frame("data", frame.s, 0)
  <2>1. Greets(s) /\ n = 0
    BY <1>2 DEF Greets, Frame
  <2>2. Saved(s)' = Saved(s) /\ Ungreeted(s) /\ ~Ungreeted(s)'
    <3>1. lpc = "greet" /\ ~Keeps(s)
      BY <2>1 DEF Greets, LoopGreet, Keeps, Early
    <3>2. ~Flushes(s)
      BY <3>1 DEF Flushes, LoopFlush
    <3> QED
      BY <2>1, <3>1, <3>2, SavedSteps
  <2>3. From("kept")
    BY <2>1, <2>2, PlacesAre, PlacesNext DEF Onward, Apart
  <2> QED
    BY <2>3 DEF Places
<1>3. CASE LoopFlush /\ flush # <<>> /\ f = Frame("data", frame.s, Head(flush))
  <2>1. Flushes(s) /\ n = Head(flush)
    BY <1>3 DEF Flushes, Frame
  <2>2. /\ Shrunk(Saved(s), Saved(s)') /\ Len(Saved(s)) > 0 /\ n = Saved(s)[1]
        /\ ~Ungreeted(s) /\ ~Ungreeted(s)'
    <3>1. lpc = "flush" /\ ~Keeps(s)
      BY <2>1 DEF Flushes, LoopFlush, Keeps, Early
    <3>2. ~Greets(s)
      BY <3>1 DEF Greets, LoopGreet
    <3> QED
      BY <2>1, <3>1, <3>2, SavedSteps
  <2>3. Holds(Saved(s), n) /\ ~Holds(Saved(s)', n)
    BY <2>2, SavedType, HoldsShrunk DEF Apart
  <2>4. From("kept")
    BY <2>2, <2>3, PlacesAre, PlacesNext DEF Onward
  <2> QED
    BY <2>4 DEF Places
<1> QED
  BY <1>1, <1>2, <1>3 DEF Puts, Frame

\* What is on one connection, next to all the others.
LEMMA WiredKept ==
  ASSUME Typed, [Next]_vars, NEW s \in Sessions, NEW n \in Nat, Apart(s, n), First(s), Early(s)
  PROVE  /\ Lies("wire", s, n)' => Comes("wire", s, n)
         /\ \A e \in Epochs : WiredOnce(e, s, n)'
         /\ \A d, e \in Epochs : Wired(d, s, n)' /\ Wired(e, s, n)' => d = e
<1> DEFINE Old(e) == (Wired(e, s, n)' => Wired(e, s, n)) /\ WiredOnce(e, s, n)'
           From == \E r \in Places \ {"wire"} :
                     Onward(r) = "wire" /\ Lies(r, s, n) /\ ~Lies(r, s, n)'
           Put(e) == e = ws /\ WiredOnce(e, s, n)' /\ From
<1>1. ASSUME NEW e \in Epochs PROVE Old(e) \/ Put(e)
  <2>0. Len(up[e]) \in Nat /\ Len(up'[e]) \in Nat /\ WiredOnce(e, s, n)
    BY Lengths DEF Apart
  <2>1. CASE up'[e] = up[e]
    BY <2>0, <2>1 DEF Wired, WiredOnce, DataOf
  <2>2. CASE Cropped(up[e], up'[e])
    <3>1. \A i \in 1 .. Len(up'[e]) : i \in 1 .. Len(up[e]) /\ up'[e][i] = up[e][i]
      BY <2>0, <2>2 DEF Cropped
    <3> QED
      BY <2>0, <3>1 DEF Wired, WiredOnce, DataOf
  <2>3. CASE Shrunk(up[e], up'[e])
    <3>1. \A i \in 1 .. Len(up'[e]) : i + 1 \in 1 .. Len(up[e]) /\ up'[e][i] = up[e][i + 1]
      BY <2>0, <2>3 DEF Shrunk
    <3>2. Wired(e, s, n)' => Wired(e, s, n)
      BY <3>1 DEF Wired, DataOf
    <3>3. ASSUME NEW i \in 1 .. Len(up'[e]), NEW j \in 1 .. Len(up'[e]),
                 up'[e][i].t = "data", up'[e][i].s = s, up'[e][i].k = n,
                 up'[e][j].t = "data", up'[e][j].s = s, up'[e][j].k = n
          PROVE  i = j
      <4>1. i + 1 = j + 1
        BY <2>0, <3>1, <3>3 DEF WiredOnce, DataOf
      <4> QED
        BY <4>1
    <3> QED
      BY <3>2, <3>3 DEF WiredOnce, DataOf
  <2>4. ASSUME e = ws, NEW f \in Frames, Puts(f), Grown(up[e], up'[e], f) PROVE Old(e) \/ Put(e)
    <3>1. /\ Len(up'[e]) = Len(up[e]) + 1 /\ up'[e][Len(up[e]) + 1] = f
          /\ \A i \in 1 .. Len(up[e]) : up'[e][i] = up[e][i]
      BY <2>4 DEF Grown
    <3>2. \A i \in 1 .. Len(up'[e]) : i \in 1 .. Len(up[e]) \/ i = Len(up[e]) + 1
      BY <2>0, <3>1
    <3>3. CASE f.t = "data" /\ f.s = s /\ f.k = n
      <4>1. From
        BY <2>4, <3>3, PutFrom
      <4>2. ~Wired(e, s, n)
        BY <4>1, NotBoth, PlacesAre DEF Apart, Places
      <4>3. \A i \in 1 .. Len(up'[e]) :
              up'[e][i].t = "data" /\ up'[e][i].s = s /\ up'[e][i].k = n => i = Len(up[e]) + 1
        BY <3>1, <3>2, <4>2 DEF Wired, DataOf
      <4>4. WiredOnce(e, s, n)'
        BY <4>3 DEF WiredOnce, DataOf
      <4> QED
        BY <2>4, <4>1, <4>4
    <3>4. CASE ~(f.t = "data" /\ f.s = s /\ f.k = n)
      <4>1. \A i \in 1 .. Len(up'[e]) :
              up'[e][i].t = "data" /\ up'[e][i].s = s /\ up'[e][i].k = n
              => i \in 1 .. Len(up[e]) /\ up'[e][i] = up[e][i]
        BY <3>1, <3>2, <3>4
      <4>2. Wired(e, s, n)' => Wired(e, s, n)
        BY <4>1 DEF Wired, DataOf
      <4>3. WiredOnce(e, s, n)'
        BY <2>0, <4>1 DEF WiredOnce, DataOf
      <4> QED
        BY <4>2, <4>3
    <3> QED
      BY <3>3, <3>4
  <2> HIDE DEF Old, Put
  <2> QED
    BY <2>1, <2>2, <2>3, <2>4, UpMoves DEF UpMove
<1>2. From => \A e \in Epochs : ~Wired(e, s, n)
  BY NotBoth, PlacesAre DEF Apart, Places
<1>3. From => Comes("wire", s, n)
  BY DEF Comes
<1>4. ASSUME NEW d \in Epochs, NEW e \in Epochs, Wired(d, s, n)', Wired(e, s, n)' PROVE d = e
  <2> HIDE DEF From
  <2>1. CASE From
    BY <1>1, <1>2, <1>4, <2>1
  <2>2. CASE ~From
    BY <1>1, <1>4, <2>2 DEF Apart
  <2> QED
    BY <2>1, <2>2
<1>5. \A e \in Epochs : WiredOnce(e, s, n)'
  BY <1>1
<1>6. ASSUME NEW e \in Epochs, Wired(e, s, n)' PROVE Comes("wire", s, n)
  <2>1. CASE Wired(e, s, n)
    BY <2>1, PlacesAre DEF Comes
  <2> QED
    BY <1>1, <1>3, <1>6, <2>1
<1> QED
  BY <1>4, <1>5, <1>6, PlacesNext

\* The handler keeps what comes before the tunnel stands.
LEMMA SavedKept ==
  ASSUME Typed, [Next]_vars, NEW s \in Sessions, NEW n \in Nat, Apart(s, n), First(s), Early(s),
         ClientLine(s)
  PROVE  /\ Lies("kept", s, n)' => Comes("kept", s, n)
         /\ Once(Saved(s)', n) /\ ~Holds(Saved(s)', 0)
<1>1. Once(Saved(s), n) /\ ~Holds(Saved(s), 0)
  BY DEF Apart
<1>2. CASE Saved(s)' = Saved(s) /\ (Ungreeted(s)' => Ungreeted(s))
  BY <1>1, <1>2, PlacesAre, PlacesNext DEF Comes
<1>3. CASE /\ Keeps(s) /\ hpc = "piece" /\ hpc' = "pump" /\ Grown(Saved(s), Saved(s)', piece)
           /\ Ungreeted(s) /\ Ungreeted(s)'
  <2>1. Held(s) /\ ~Held(s)' /\ Onward("held") = "kept"
    BY <1>3 DEF Held, Keeps, Onward
  <2>2. piece \in Nat /\ piece # 0
    <3>1. piece \in 1 .. Fetched(s)
      BY <2>1 DEF ClientLine
    <3> QED
      BY <3>1 DEF Typed, AllTypes, HandTypes
  <2>3. ~(Holds(Saved(s), n) /\ piece = n)
    BY <2>1, NotBoth, PlacesAre DEF Places, Apart
  <2>4. /\ Holds(Saved(s)', n) <=> Holds(Saved(s), n) \/ piece = n
        /\ Once(Saved(s)', n)
    BY <1>1, <1>3, <2>2, <2>3, SavedType, HoldsGrown
  <2>5. ~Holds(Saved(s)', 0)
    BY <1>1, <1>3, <2>2, SavedType, HoldsGrown
  <2>6. piece = n => Lies("held", s, n) /\ ~Lies("held", s, n)' /\ "held" \in Places
    BY <2>1, PlacesAre, PlacesNext DEF Places
  <2> QED
    BY <1>3, <2>1, <2>4, <2>5, <2>6, PlacesAre, PlacesNext DEF Comes
<1>4. CASE Shrunk(Saved(s), Saved(s)') /\ Len(Saved(s)) > 0 /\ ~Ungreeted(s)'
  <2>1. Once(Saved(s)', n) /\ (Holds(Saved(s)', n) => Holds(Saved(s), n)) /\ ~Holds(Saved(s)', 0)
    BY <1>1, <1>4, SavedType, HoldsShrunk
  <2> QED
    BY <1>4, <2>1, PlacesAre, PlacesNext DEF Comes
<1> QED
  BY <1>2, <1>3, <1>4, SavedSteps

\* The pump takes a piece in hand.
LEMMA HeldKept ==
  ASSUME Typed, [Next]_vars, NEW s \in Sessions, NEW n \in Nat, ClientLine(s),
         h = s /\ hpc = "end" => lfin[s]
  PROVE  /\ Lies("held", s, n)' => Comes("held", s, n)
         /\ Lies("unread", s, n)' => Comes("unread", s, n)
<1>1. Fetched(s) \in Nat /\ Fetched(s)' \in Nat /\ Fetched(s) <= Fetched(s)'
  <2>1. Fetched(s) \in Nat /\ Fetched(s)' \in Nat
        /\ (Fetched(s)' = Fetched(s) + 1 \/ Fetched(s)' = Fetched(s) \/ Fetched(s)' > Fetched(s))
    BY ClientLineKept
  <2> QED
    BY <2>1
<1>2. Lies("unread", s, n)' => Comes("unread", s, n)
  <2>1. n > Fetched(s)' => n > Fetched(s)
    BY <1>1
  <2> QED
    BY <2>1, PlacesAre, PlacesNext DEF Comes
<1>3. ASSUME Held(s)', piece' = n PROVE Comes("held", s, n)
  <2>1. CASE Held(s) /\ piece' = piece
    BY <1>3, <2>1, PlacesAre DEF Comes
  <2>2. CASE Fetches(s)
    <3>1. n = Fetched(s) + 1 /\ Fetched(s)' = n
      BY <1>3, <2>2, ClientLineKept
    <3>2. n > Fetched(s) /\ ~(n > Fetched(s)')
      BY <1>1, <3>1
    <3>3. Onward("unread") = "held" /\ "unread" \in Places
      BY DEF Onward, Places
    <3> QED
      BY <3>2, <3>3, PlacesAre, PlacesNext DEF Comes
  <2> QED
    BY <1>3, <2>1, <2>2, HeldSteps
<1> QED
  BY <1>2, <1>3, PlacesNext

\* Whatever moves, moves one place on: two places are not filled from one, nor
\* one from two.
LEMMA ApartKept ==
  ASSUME Typed, [Next]_vars, NEW s \in Sessions, NEW n \in Nat, Apart(s, n), First(s), Early(s),
         ClientLine(s), h = s /\ hpc = "end" => lfin[s], \A e \in Epochs : InHand(e, s)
  PROVE  Apart(s, n)'
<1>1. \A p \in Places : Lies(p, s, n)' => Comes(p, s, n)
  BY GotKept, TupKept, HandOnKept, WiredKept, SavedKept, HeldKept DEF Places
<1>2. ASSUME NEW p \in Places, NEW q \in Places, Lies(p, s, n)', Lies(q, s, n)' PROVE p = q
  <2>1. Comes(p, s, n) /\ Comes(q, s, n)
    BY <1>1, <1>2
  <2>2. Alone(s, n)
    BY DEF Apart
  <2> QED
    BY <1>2, <2>1, <2>2 DEF Comes, Alone
<1>3. Alone(s, n)'
  BY <1>2 DEF Alone
<1> QED
  BY <1>3, GotKept, TupKept, WiredKept, SavedKept DEF Apart

-----------------------------------------------------------------------------
(* What a CONNECT client sends, from the pump to the target                *)

LEMMA AtStays ==
  ASSUME Typed, [Next]_vars, NEW s \in Sessions, Announced(s), AtHome(s),
         tsock'[s] = "open", ~Dialled(s)
  PROVE  tsock[s] = "open" /\ at'[s] = at[s] /\ s \in sess[at[s]] /\ at[s] \in Epochs
<1>1. tsock[s] = "open"
  BY SockSteps
<1>2. s \in sess[at[s]]
  BY <1>1 DEF AtHome
<1>3. ASSUME NEW d \in Epochs, Reads(d, "connect", s) PROVE FALSE
  BY <1>1, <1>3, FirstRead DEF Unheard
<1> QED
  BY <1>1, <1>2, <1>3, SessMoves DEF Typed, AllTypes, ReadTypes

(* The piece in the hand of the reader.                                    *)
InWrite(s) == IF rpc[at[s]] = "write" /\ rframe[at[s]].s = s THEN 1 ELSE 0

LEMMA WriterStays ==
  ASSUME Typed, [Next]_vars, NEW e \in Epochs, rpc[e] = "write", ~WriteTarget(e)
  PROVE  rpc'[e] = "write" /\ rframe'[e] = rframe[e]
<1> USE DEF Typed, AllTypes, ReadTypes
<1>1. CASE UNCHANGED readVars
  BY <1>1 DEF readVars
<1>2. ASSUME NEW d \in Epochs, Dial(d) \/ StopManager(d)
      PROVE  rpc'[e] = "write" /\ rframe'[e] = rframe[e]
  BY <1>2 DEF Dial, StopManager
<1>3. ASSUME NEW d \in Epochs, ReadFrame(d) PROVE rpc'[e] = "write" /\ rframe'[e] = rframe[e]
  <2>1. d # e
    BY <1>3 DEF ReadFrame
  <2>2. rpc' = rpc \/ \E x : rpc' = [rpc EXCEPT ![d] = x]
    BY <1>3 DEF ReadFrame
  <2>3. rframe' = [rframe EXCEPT ![d] = IF rpc'[d] = "read" THEN NoFrame ELSE Head(up[d])]
    BY <1>3 DEF ReadFrame
  <2> QED
    BY <2>1, <2>2, <2>3
<1>4. ASSUME NEW d \in Epochs, SayError(d) \/ SayConnected(d) \/ SendPong(d) \/ WriteTarget(d)
      PROVE  rpc'[e] = "write" /\ rframe'[e] = rframe[e]
  <2>1. d # e
    BY <1>4 DEF SayError, SayConnected, SendPong
  <2>2. ReadOn(d)
    BY <1>4 DEF SayError, SayConnected, SendPong, WriteTarget
  <2> QED
    BY <2>1, <2>2 DEF ReadOn
<1>5. CASE LoopDial
  <2>1. rpc' = [rpc EXCEPT ![ws + 1] = "read"] /\ rframe' = rframe /\ ws \in Nat
    BY <1>5, SystemAssumption DEF LoopDial, WireTypes, Epochs
  <2>2. e # ws + 1
    <3>1. ws + 1 > ws
      BY <2>1
    <3> QED
      BY <3>1 DEF Shapes
  <2> QED
    BY <2>1, <2>2
<1>6. CASE \E r \in Sessions : SendData(r) \/ EndSession(r)
  BY <1>6 DEF SendData, EndSession, threadRest
<1> QED
  BY <1>1, <1>2, <1>3, <1>4, <1>5, <1>6, ReadMoves

LEMMA InWriteSteps ==
  ASSUME Typed, [Next]_vars, NEW s \in Sessions, TargetSide(s),
         tsock[s] = "open", at'[s] = at[s], s \in sess[at[s]], at[s] \in Epochs
  PROVE  \/ InWrite(s)' = InWrite(s) /\ (InWrite(s) = 1 => rframe'[at[s]] = rframe[at[s]])
            /\ ~Reads(at[s], "data", s) /\ ~(WriteTarget(at[s]) /\ rframe[at[s]].s = s)
         \/ Reads(at[s], "data", s) /\ InWrite(s) = 0 /\ InWrite(s)' = 1
            /\ rframe'[at[s]] = up[at[s]][1]
         \/ WriteTarget(at[s]) /\ rframe[at[s]].s = s /\ InWrite(s) = 1 /\ InWrite(s)' = 0
            /\ ~Reads(at[s], "data", s)
<1> DEFINE e == at[s]
<1>0. /\ rpc \in [Epochs -> {"none", "read", "dial", "refuse", "connected", "write", "pong",
                             "gone"}]
      /\ rframe \in [Epochs -> Frames]
  BY DEF Typed, AllTypes, ReadTypes
<1>1. CASE Reads(e, "data", s)
  <2>1. ReadFrame(e) /\ Head(up[e]).t = "data" /\ Head(up[e]).s = s /\ rpc[e] = "read" /\ ~upShut[s]
    BY <1>1 DEF Reads, ReadFrame, TargetSide
  <2>2. rpc' = [rpc EXCEPT ![e] = "write"]
    BY <2>1 DEF ReadFrame
  <2>3. rpc'[e] = "write"
    BY <1>0, <2>2
  <2>4. rframe' = [rframe EXCEPT ![e] = IF rpc'[e] = "read" THEN NoFrame ELSE Head(up[e])]
    BY <2>1 DEF ReadFrame
  <2>5. rframe'[e] = Head(up[e]) /\ Head(up[e]) = up[e][1]
    BY <1>0, <2>1, <2>3, <2>4, FrameRead
  <2> QED
    BY <1>1, <2>1, <2>3, <2>5 DEF InWrite
<1>2. CASE WriteTarget(e) /\ rframe[e].s = s
  <2>1. rpc[e] = "write" /\ rpc'[e] = "read"
    BY <1>0, <1>2 DEF WriteTarget, ReadOn
  <2>2. ~Reads(e, "data", s)
    BY <2>1 DEF Reads, ReadFrame
  <2> QED
    BY <1>2, <2>1, <2>2 DEF InWrite
<1>3. CASE ~Reads(e, "data", s) /\ ~(WriteTarget(e) /\ rframe[e].s = s)
  <2>1. CASE rpc[e] = "write" /\ rframe[e].s = s
    <3>1. rpc'[e] = "write" /\ rframe'[e] = rframe[e]
      BY <1>3, <2>1, WriterStays
    <3> QED
      BY <1>3, <2>1, <3>1 DEF InWrite
  <2>2. CASE ~(rpc[e] = "write" /\ rframe[e].s = s)
    <3>1. ~(rpc'[e] = "write" /\ rframe'[e].s = s)
      BY <1>3, <2>2, WriteSteps
    <3> QED
      BY <1>3, <2>2, <3>1 DEF InWrite
  <2> QED
    BY <2>1, <2>2
<1> QED
  BY <1>1, <1>2, <1>3

(* Target and socket have the first pieces of a CONNECT client, in order.  *)
Total(s) == Len(tgot[s]) + Len(tup[s])
UpHead(s) == Total(s) + InWrite(s)
InLine(s) == Lined(tgot[s], tup[s]) /\ Zeros(tup[s]) = 0
Filling(s) == WriteTarget(at[s]) /\ rframe[at[s]].s = s /\ tsock[s] = "open"

LEMMA UpNat ==
  ASSUME Typed, NEW s \in Sessions
  PROVE  /\ Len(tgot[s]) \in Nat /\ Len(tup[s]) \in Nat /\ Total(s) \in Nat /\ UpHead(s) \in Nat
         /\ InWrite(s) \in {0, 1}
<1>1. tgot[s] \in Seq(Nat) /\ tup[s] \in Seq(Nat)
  BY DEF Typed, AllTypes, TsockTypes, TargetTypes
<1>2. Len(tgot[s]) \in Nat /\ Len(tup[s]) \in Nat
  BY <1>1, LenProperties
<1>3. InWrite(s) \in {0, 1}
  BY DEF InWrite
<1>4. \A a, b \in Nat, c \in {0, 1} : a + b \in Nat /\ (a + b) + c \in Nat
  OBVIOUS
<1>5. Total(s) \in Nat /\ UpHead(s) \in Nat
  BY <1>2, <1>3, <1>4 DEF Total, UpHead
<1> QED
  BY <1>2, <1>3, <1>5

LEMMA InLineKept ==
  ASSUME Typed, [Next]_vars, NEW s \in Sessions, InLine(s), \A e \in Epochs : InHand(e, s),
         InWrite(s) = 1 /\ tsock[s] = "open" => rframe[at[s]].k = Total(s) + 1
  PROVE  /\ InLine(s)'
         /\ \/ Total(s)' = Total(s) /\ ~Filling(s)
            \/ Total(s)' <= Total(s) /\ tsock'[s] = "reset"
            \/ Total(s)' = Total(s) + 1 /\ Filling(s) /\ UNCHANGED <<tsock, at>>
<1>1. /\ tup[s] \in Seq(Nat) /\ tgot[s] \in Seq(Nat)
      /\ tup'[s] \in Seq(Nat) /\ tgot'[s] \in Seq(Nat) /\ at[s] \in Epochs
  BY NextTyped DEF Typed, AllTypes, TsockTypes, TargetTypes, ReadTypes
<1>2. Len(tup[s]) \in Nat /\ Len(tgot[s]) \in Nat /\ Len(tup'[s]) \in Nat /\ Len(tgot'[s]) \in Nat
  BY <1>1, LenProperties
<1>3. CASE /\ tup'[s] = tup[s] /\ tgot'[s] = tgot[s]
           /\ \A e \in Epochs : WriteTarget(e) /\ rframe[e].s = s => tsock[s] # "open"
  BY <1>1, <1>3 DEF InLine, Total, Filling
<1>4. CASE tup'[s] = <<>> /\ tgot'[s] = tgot[s] /\ tsock'[s] = "reset"
  <2>1. Len(tup'[s]) = 0
    BY <1>4
  <2>2. InLine(s)'
    BY <1>1, <1>4, <2>1, LinedFresh DEF InLine
  <2>3. Total(s)' <= Total(s)
    BY <1>2, <1>4, <2>1 DEF Total
  <2> QED
    BY <1>4, <2>2, <2>3
<1>5. CASE /\ TargetReads(s) /\ Len(tup[s]) > 0 /\ Shrunk(tup[s], tup'[s])
           /\ Grown(tgot[s], tgot'[s], tup[s][1]) /\ UNCHANGED <<tsock, teof, rpc, rframe, at>>
  <2>1. tup[s][1] # 0
    BY <1>5 DEF InLine, Zeros
  <2>2. Lined(tgot'[s], tup'[s]) /\ Zeros(tup'[s]) = 0 /\ Len(tup[s]) = Len(tup'[s]) + 1
        /\ Len(tgot'[s]) = Len(tgot[s]) + 1
    <3>1. Lined(tgot[s], tup[s])
      BY DEF InLine
    <3>2. Zeros(tup'[s]) = 0 /\ Len(tup[s]) = Len(tup'[s]) + 1
      BY <1>1, <1>5, <3>1, LinedShrunk
    <3>3. Lined(tgot'[s], tup'[s]) /\ Len(tgot'[s]) = Len(tgot[s]) + 1
      BY <1>1, <1>5, <2>1, <3>1, LinedRead
    <3> QED
      BY <3>2, <3>3
  <2>3. Total(s)' = Total(s)
    <3> DEFINE a == Len(tgot[s])  b == Len(tup[s])  c == Len(tgot'[s])  d == Len(tup'[s])
    <3>1. a \in Nat /\ b \in Nat /\ c \in Nat /\ d \in Nat /\ b = d + 1 /\ c = a + 1
      BY <1>2, <2>2
    <3>2. Total(s) = a + b /\ Total(s)' = c + d
      BY DEF Total
    <3> HIDE DEF a, b, c, d
    <3>3. c + d = a + b
      BY <3>1
    <3> QED
      BY <3>2, <3>3
  <2>4. ~WriteTarget(at[s])
    BY <1>1, <1>5 DEF WriteTarget, ReadOn, Typed, AllTypes, ReadTypes
  <2> QED
    BY <2>2, <2>3, <2>4 DEF InLine, Filling
<1>6. ASSUME NEW e \in Epochs, WriteTarget(e), rframe[e].s = s, tsock[s] = "open",
             Grown(tup[s], tup'[s], rframe[e].k), tgot'[s] = tgot[s], UNCHANGED <<tsock, at>>
      PROVE  InLine(s)' /\ Total(s)' = Total(s) + 1 /\ Filling(s)
  <2>1. rpc[e] = "write"
    BY <1>6 DEF WriteTarget
  <2>2. at[s] = e
    BY <1>6, <2>1 DEF InHand
  <2>3. rframe[e].k = Total(s) + 1
    BY <1>6, <2>1, <2>2 DEF InWrite
  <2>4. rframe[e].k = Len(tgot[s]) + Len(tup[s]) - Zeros(tup[s]) + 1
    BY <1>2, <2>3 DEF InLine, Total
  <2>5. Lined(tgot[s], tup'[s]) /\ Zeros(tup'[s]) = 0 /\ Len(tup'[s]) = Len(tup[s]) + 1
    <3>1. Lined(tgot[s], tup[s])
      BY DEF InLine
    <3>2. Grown(tup[s], tup'[s], Len(tgot[s]) + Len(tup[s]) - Zeros(tup[s]) + 1)
      BY <1>6, <2>4
    <3>3. /\ Lined(tgot[s], tup'[s]) /\ Zeros(tup'[s]) = Zeros(tup[s])
          /\ Len(tup'[s]) = Len(tup[s]) + 1
      BY <1>1, <3>1, <3>2, LinedGrown
    <3> QED
      BY <3>3 DEF InLine
  <2>6. Total(s)' = Total(s) + 1
    <3> DEFINE a == Len(tgot[s])  b == Len(tup[s])  d == Len(tup'[s])
    <3>1. a \in Nat /\ b \in Nat /\ d \in Nat /\ d = b + 1
      BY <1>2, <2>5
    <3>2. Total(s) = a + b /\ Total(s)' = a + d
      BY <1>6 DEF Total
    <3> HIDE DEF a, b, d
    <3>3. a + d = (a + b) + 1
      BY <3>1
    <3> QED
      BY <3>2, <3>3
  <2> QED
    BY <1>6, <2>2, <2>5, <2>6 DEF InLine, Filling
<1> QED
  BY <1>3, <1>4, <1>5, <1>6, TupSteps

(* Where the pieces on the connection end, as long as the pump may put     *)
(* more there.                                                             *)
Front(s) == IF hpc \in {"piece", "push"} THEN piece - 1 ELSE Fetched(s)
Feeding(s) == h = s /\ (hpc \in {"piece", "push", "end"} \/ (hpc = "pump" /\ lsock[s] = "open"))
Pushes(s) == PumpPush /\ h = s /\ hpc' = "pump"

LEMMA FrontSteps ==
  ASSUME Typed, [Next]_vars, NEW s \in Sessions, Announced(s), Early(s), ClientLine(s),
         h = s /\ hpc = "end" => lfin[s], kind[s] = "connect", tsock[s] # "none", Feeding(s)'
  PROVE  \/ Feeding(s) /\ Front(s)' = Front(s) /\ ~(PumpPush /\ h = s)
         \/ Feeding(s) /\ Front(s)' = Front(s) + 1 /\ Pushes(s) /\ hpc = "push"
            /\ Front(s) = piece - 1
<1>1. /\ Fetched(s) \in Nat /\ Fetched(s)' \in Nat /\ ClientLine(s)' /\ lsent[s] \in Nat
      /\ piece \in Nat /\ piece' \in Nat /\ Len(lup[s]) \in Nat /\ opened[s] \in BOOLEAN
  <2>1. Fetched(s) \in Nat /\ Fetched(s)' \in Nat /\ ClientLine(s)'
    BY ClientLineKept
  <2>2. piece \in Nat /\ piece' \in Nat /\ lup[s] \in Seq(Nat) /\ opened[s] \in BOOLEAN
    BY NextTyped DEF Typed, AllTypes, HandTypes, LsockTypes, ClientTypes
  <2>3. lsent[s] \in Nat
    BY SystemAssumption DEF Typed, AllTypes, LocalTypes
  <2> QED
    BY <2>1, <2>2, <2>3, LenProperties
<1>2. ASSUME lsock'[s] = "open", ~Fetches(s) PROVE Fetched(s)' = Fetched(s)
  BY <1>2, ClientLineKept
<1>3. ASSUME h = s, hpc \notin {"accept", "open"}, lsock'[s] = "open" PROVE lsock[s] = "open"
  <2>1. lsock[s] # "none"
    BY <1>3 DEF Typed, Shapes
  <2> QED
    BY <1>3, <2>1, SocketsStay
<1>4. CASE UNCHANGED handVars /\ ~PumpRead /\ ~PumpPush
  <2>1. h' = h /\ hpc' = hpc /\ piece' = piece /\ h = s
    BY <1>4 DEF handVars, Feeding
  <2>2. ~Fetches(s)
    BY <1>4 DEF Fetches
  <2>3. CASE hpc \in {"piece", "push"}
    BY <1>4, <2>1, <2>3 DEF Feeding, Front
  <2>4. CASE hpc = "end"
    <3>1. Len(lup[s]) = 0
      BY <2>1, <2>4 DEF ClientLine
    <3>2. Fetched(s)' = Fetched(s)
      BY <2>2, <3>1, ClientLineKept
    <3> QED
      BY <1>4, <2>1, <2>4, <3>2 DEF Feeding, Front
  <2>5. CASE hpc = "pump"
    <3>1. lsock'[s] = "open"
      BY <2>1, <2>5 DEF Feeding
    <3>2. lsock[s] = "open" /\ Fetched(s)' = Fetched(s)
      BY <1>2, <1>3, <2>1, <2>2, <2>5, <3>1
    <3> QED
      BY <1>4, <2>1, <2>5, <3>2 DEF Feeding, Front
  <2> QED
    BY <2>1, <2>3, <2>4, <2>5 DEF Feeding
<1>5. CASE PumpRead
  <2>1. h = s /\ hpc = "pump" /\ hpc' \in {"piece", "end"} /\ lsock[s] = "open" /\ lsock' = lsock
        /\ h' = h
    BY <1>5 DEF PumpRead, Feeding
  <2>2. CASE hpc' = "piece"
    <3>1. Fetches(s)
      BY <1>5, <2>1, <2>2 DEF Fetches
    <3>2. piece' = Fetched(s) + 1
      BY <3>1, ClientLineKept
    <3>3. Front(s)' = Fetched(s) /\ Front(s) = Fetched(s)
      BY <1>1, <2>1, <2>2, <3>2 DEF Front
    <3> QED
      BY <1>5, <2>1, <3>3 DEF Feeding, PumpPush
  <2>3. CASE hpc' = "end"
    <3>1. ~Fetches(s)
      BY <2>3 DEF Fetches
    <3>2. Fetched(s)' = Fetched(s)
      BY <1>2, <2>1, <3>1
    <3> QED
      BY <1>5, <2>1, <2>3, <3>2 DEF Feeding, Front, PumpPush
  <2> QED
    BY <2>1, <2>2, <2>3
<1>6. CASE PumpPiece
  <2>1. h = s /\ hpc = "piece" /\ hpc' \in {"pump", "push"} /\ lsock' = lsock /\ h' = h
    BY <1>6 DEF PumpPiece, Feeding, handRest, lsockVars
  <2>2. Held(s) /\ piece \in 1 .. Fetched(s)
    BY <2>1 DEF Held, ClientLine
  <2>3. opened[s]
    <3>1. Fetched(s) <= lsent[s]
      BY <1>1 DEF Fetched
    <3>2. lsent[s] > 0
      BY <1>1, <2>2, <3>1
    <3> QED
      BY <3>2 DEF Early
  <2>4. hpc' = "push" /\ piece' = piece
    BY <1>6, <2>1, <2>3 DEF PumpPiece
  <2> QED
    BY <1>6, <2>1, <2>4 DEF Feeding, Front, PumpPush
<1>7. CASE PumpPush
  <2>1. h = s /\ hpc = "push" /\ hpc' = "pump" /\ h' = h /\ lsock'[s] = "open"
    BY <1>7 DEF PumpPush, Feeding
  <2>2. Held(s) /\ lsock[s] = "open" /\ ~Fetches(s)
    BY <1>3, <2>1 DEF Held, Fetches
  <2>3. piece = Fetched(s) /\ Fetched(s)' = Fetched(s)
    BY <1>2, <2>1, <2>2 DEF ClientLine
  <2>4. Front(s) = piece - 1 /\ Front(s)' = piece
    BY <2>1, <2>3 DEF Front
  <2> QED
    BY <1>1, <1>7, <2>1, <2>4 DEF Feeding, Pushes
<1>8. CASE SendConnect
  <2>1. h = s /\ hpc = "connect"
    BY <1>8 DEF SendConnect, Feeding
  <2> QED
    BY <2>1 DEF Announced, Unsent, Unheard
<1>9. CASE /\ hpc' \in {"accept", "open", "connect", "finish", "notify", "shut"}
  BY <1>9 DEF Feeding
<1> QED
  BY <1>4, <1>5, <1>6, <1>7, <1>8, <1>9, HandSteps

(* The pieces of a CONNECT client stand in line behind each other: read by *)
(* the target, in its socket, in the hand of the reader, on the connection *)
(* and, while the connection stands, before the pump.                      *)
UpLine(s) == kind[s] = "connect" =>
  /\ InLine(s)
  /\ tsock[s] = "open" =>
       /\ InWrite(s) = 1 => rframe[at[s]].k = UpHead(s)
       /\ Run(up[at[s]], s, UpHead(s))
       /\ link[at[s]] = "up" /\ Feeding(s) =>
            Reach(up[at[s]], Len(up[at[s]]), s, UpHead(s), Front(s))

UpWire(s) ==
  \/ up'[at[s]] = up[at[s]] /\ UpHead(s)' = UpHead(s)
  \/ /\ at[s] = ws /\ link[ws] = "up" /\ UpHead(s)' = UpHead(s)
     /\ \E f \in Frames : Puts(f) /\ Grown(up[ws], up'[ws], f)
  \/ Reads(at[s], "data", s) /\ Shrunk(up[at[s]], up'[at[s]]) /\ UpHead(s)' = UpHead(s) + 1
  \/ /\ ReadFrame(at[s]) /\ ~DataOf(up[at[s]], 1, s)
     /\ Shrunk(up[at[s]], up'[at[s]]) /\ UpHead(s)' = UpHead(s)
  \/ Lose /\ at[s] = ws /\ Cropped(up[ws], up'[ws]) /\ UpHead(s)' = UpHead(s)

LEMMA KindStays ==
  ASSUME [Next]_vars
  PROVE  kind' = kind
BY LocalMoves DEF localVars, LocalSends, LocalFins, LocalReads

LEMMA UpWireSteps ==
  ASSUME Typed, [Next]_vars, NEW s \in Sessions, TargetSide(s), \A e \in Epochs : InHand(e, s),
         UpLine(s), kind[s] = "connect", tsock[s] = "open", tsock'[s] = "open",
         at'[s] = at[s], s \in sess[at[s]], at[s] \in Epochs
  PROVE  UpWire(s) /\ (InWrite(s)' = 1 => rframe'[at[s]].k = UpHead(s)')
<1>1. /\ InLine(s) /\ Run(up[at[s]], s, UpHead(s))
      /\ InWrite(s) = 1 => rframe[at[s]].k = UpHead(s)
  BY DEF UpLine
<1>2. /\ Total(s) \in Nat /\ InWrite(s) \in {0, 1} /\ UpHead(s) = Total(s) + InWrite(s)
      /\ Total(s)' \in Nat /\ InWrite(s)' \in {0, 1} /\ UpHead(s)' = Total(s)' + InWrite(s)'
      /\ UpHead(s) \in Nat
  <2>1. tgot'[s] \in Seq(Nat) /\ tup'[s] \in Seq(Nat)
    BY NextTyped DEF Typed, AllTypes, TsockTypes, TargetTypes
  <2>2. Len(tgot'[s]) \in Nat /\ Len(tup'[s]) \in Nat
    BY <2>1, LenProperties
  <2>3. Total(s)' \in Nat
    <3>1. \A a, b \in Nat : a + b \in Nat
      OBVIOUS
    <3> QED
      BY <2>2, <3>1 DEF Total
  <2>4. InWrite(s)' \in {0, 1}
    BY DEF InWrite
  <2>5. Total(s) \in Nat /\ InWrite(s) \in {0, 1} /\ UpHead(s) \in Nat
    BY UpNat
  <2> QED
    BY <2>3, <2>4, <2>5 DEF UpHead
<1>3. \/ Total(s)' = Total(s) /\ ~Filling(s)
      \/ Total(s)' = Total(s) + 1 /\ Filling(s)
  <2>1. InWrite(s) = 1 => rframe[at[s]].k = Total(s) + 1
    BY <1>1, <1>2
  <2> QED
    BY <1>1, <2>1, InLineKept
<1>4. Filling(s) => InWrite(s) = 1 /\ WriteTarget(at[s]) /\ rframe[at[s]].s = s
  BY DEF Filling, InWrite, WriteTarget
<1>5. WriteTarget(at[s]) /\ rframe[at[s]].s = s => Filling(s)
  BY DEF Filling
<1>6. CASE /\ InWrite(s)' = InWrite(s) /\ (InWrite(s) = 1 => rframe'[at[s]] = rframe[at[s]])
           /\ ~Reads(at[s], "data", s) /\ ~(WriteTarget(at[s]) /\ rframe[at[s]].s = s)
  <2>1. UpHead(s)' = UpHead(s)
    BY <1>2, <1>3, <1>4, <1>6
  <2>2. UpWire(s)
    BY <1>6, <2>1, UpMoves, FrameRead DEF UpMove, UpWire, Reads, DataOf
  <2> QED
    BY <1>1, <1>6, <2>1, <2>2
<1>7. CASE /\ Reads(at[s], "data", s) /\ InWrite(s) = 0 /\ InWrite(s)' = 1
           /\ rframe'[at[s]] = up[at[s]][1]
  <2>1. UpHead(s)' = UpHead(s) + 1
    BY <1>2, <1>3, <1>4, <1>7
  <2>2. Shrunk(up[at[s]], up'[at[s]]) /\ DataOf(up[at[s]], 1, s) /\ Len(up[at[s]]) > 0
    BY <1>7, ReadsHas DEF DataOf
  <2>3. up[at[s]][1].k = UpHead(s) + 1
    BY <1>1, <1>2, <2>2, Lengths, RunTaken
  <2> QED
    BY <1>7, <2>1, <2>2, <2>3 DEF UpWire
<1>8. CASE /\ WriteTarget(at[s]) /\ rframe[at[s]].s = s /\ InWrite(s) = 1 /\ InWrite(s)' = 0
           /\ ~Reads(at[s], "data", s)
  <2>1. UpHead(s)' = UpHead(s)
    BY <1>2, <1>3, <1>5, <1>8
  <2>2. UpWire(s)
    BY <1>8, <2>1, UpMoves, FrameRead DEF UpMove, UpWire, Reads, DataOf
  <2> QED
    BY <1>8, <2>2
<1> QED
  BY <1>6, <1>7, <1>8, InWriteSteps

\* The pump puts its piece on a connection that stands.
LEMMA PushPuts ==
  ASSUME Typed, NEW s \in Sessions, Pushes(s), link[ws] = "up"
  PROVE  Grown(up[ws], up'[ws], Frame("data", s, piece))
<1>1. h = s /\ SendUp(ws, Frame("data", s, piece))
  BY DEF Pushes, PumpPush
<1>2. Frame("data", s, piece) \in Frames
  BY FrameType DEF Typed, AllTypes, HandTypes, Types
<1>3. ws \in Epochs /\ WireTypes
  BY DEF Typed, AllTypes, WireTypes
<1> QED
  BY <1>1, <1>2, <1>3, SendUpTypes

\* Nothing else puts data of a CONNECT session there.
LEMMA PushOnly ==
  ASSUME Typed, NEW s \in Sessions, Early(s), kind[s] = "connect",
         NEW f \in Frames, Puts(f), f.t = "data", f.s = s
  PROVE  PumpPush /\ h = s /\ hpc = "push" /\ f = Frame("data", s, piece)
<1>1. flush \in Seq(Nat)
  BY DEF Typed, AllTypes, LoopTypes
<1>2. CASE LoopFlush /\ flush # <<>> /\ f = Frame("data", frame.s, Head(flush))
  <2>1. frame.s = s /\ lpc = "flush"
    BY <1>2 DEF LoopFlush, Frame
  <2>2. Len(flush) = 0
    BY <2>1 DEF Early
  <2> QED
    BY <1>1, <1>2, <2>2, EmptySeq
<1> QED
  BY <1>2 DEF Puts, Frame, PumpPush

LEMMA FrontNat ==
  ASSUME Typed, NEW s \in Sessions, ClientLine(s), Feeding(s)
  PROVE  Front(s) \in Nat
<1>1. lsent[s] \in Nat /\ lup[s] \in Seq(Nat) /\ piece \in Nat
  BY SystemAssumption DEF Typed, AllTypes, LocalTypes, LsockTypes, HandTypes
<1>2. Fetched(s) \in Nat
  BY <1>1, LenProperties DEF Fetched, ClientLine
<1>3. hpc \in {"piece", "push"} => piece \in 1 .. Fetched(s)
  BY DEF Feeding, Held, ClientLine
<1> QED
  BY <1>1, <1>2, <1>3 DEF Front

\* A target whose socket has just been opened has nothing yet, nor has anything
\* been sent to it.
LEMMA UpLineDialled ==
  ASSUME Typed, [Next]_vars, NEW s \in Sessions, AtHome(s), \A e \in Epochs : InHand(e, s),
         TargetSide(s), Early(s), ClientLine(s), kind[s] = "connect", Dialled(s),
         tsock'[s] = "open"
  PROVE  /\ UpHead(s)' = 0 /\ InWrite(s)' = 0 /\ Run(up'[at'[s]], s, 0)
         /\ Feeding(s)' => Reach(up'[at'[s]], Len(up'[at'[s]]), s, 0, Front(s)')
         /\ \A c : Reach(up'[at'[s]], c, s, 0, lsent'[s])
<1>1. PICK e \in Epochs : Dial(e) /\ rframe[e].s = s /\ rpc'[e] = "connected"
  BY DEF Dialled
<1>2. rpc[e] = "dial" /\ UNCHANGED <<at, up, localVars, lsockVars, handVars>>
  BY <1>1 DEF Dial, readRest
<1>3. Unanswered(s) /\ s \in sess[e] /\ tsock[s] = "none"
  BY <1>1, <1>2 DEF InHand
<1>4. at[s] = e /\ at'[s] = e
  BY <1>2, <1>3 DEF AtHome
<1>5. InWrite(s)' = 0
  BY <1>1, <1>4 DEF InWrite
<1>6. tup'[s] = tup[s] /\ tgot'[s] = tgot[s] /\ Len(tup[s]) = 0 /\ Len(tgot[s]) = 0
  BY <1>3, TupSteps DEF TargetSide
<1>7. UpHead(s)' = 0
  BY <1>5, <1>6 DEF UpHead, Total
<1>8. ~opened[s]
  BY <1>3 DEF Unanswered
<1>9. \A i \in 1 .. Len(up'[e]) : ~DataOf(up'[e], i, s)
  BY <1>2, <1>8 DEF Early, HasUp, DataOf
<1>10. Run(up'[e], s, 0)
  BY <1>9 DEF Run
<1>11. Fetched(s) = 0 /\ lsent[s] = 0 /\ Len(lup[s]) = 0
  <2>1. lsent[s] \in Nat /\ lup[s] \in Seq(Nat)
    BY SystemAssumption DEF Typed, AllTypes, LocalTypes, LsockTypes
  <2>2. Len(lup[s]) \in Nat /\ Len(lup[s]) <= lsent[s]
    BY <2>1, LenProperties DEF ClientLine
  <2>3. lsent[s] = 0
    BY <1>8, <2>1 DEF Early
  <2> QED
    BY <2>2, <2>3 DEF Fetched
<1>12. ASSUME Feeding(s)' PROVE Front(s)' = 0
  <2>1. h' = h /\ hpc' = hpc /\ Fetched(s)' = Fetched(s)
    BY <1>2 DEF handVars, localVars, lsockVars, Fetched
  <2>2. ~Held(s)
    BY <1>11 DEF ClientLine
  <2> QED
    BY <1>11, <1>12, <2>1, <2>2 DEF Feeding, Held, Front
<1>13. lsent'[s] = 0
  BY <1>2, <1>11 DEF localVars
<1> QED
  BY <1>4, <1>5, <1>7, <1>9, <1>10, <1>12, <1>13 DEF Reach

LEMMA UpLineKept ==
  ASSUME Typed, Linked, [Next]_vars, NEW s \in Sessions, Announced(s), AtHome(s),
         \A e \in Epochs : InHand(e, s), TargetSide(s), Early(s), ClientLine(s),
         h = s /\ hpc = "end" => lfin[s], UpLine(s)
  PROVE  UpLine(s)'
<1> SUFFICES ASSUME kind[s] = "connect" PROVE UpLine(s)'
  BY KindStays DEF UpLine
<1>1. InLine(s) /\ (InWrite(s) = 1 /\ tsock[s] = "open" => rframe[at[s]].k = UpHead(s))
  BY DEF UpLine
<1>2. InLine(s)'
  <2>1. InWrite(s) = 1 => UpHead(s) = Total(s) + 1
    BY UpNat DEF UpHead
  <2> QED
    BY <1>1, <2>1, InLineKept
<1> DEFINE e == at[s]
           Fine == /\ InWrite(s)' = 1 => rframe'[at'[s]].k = UpHead(s)'
                   /\ Run(up'[at'[s]], s, UpHead(s)')
                   /\ link'[at'[s]] = "up" /\ Feeding(s)' =>
                        Reach(up'[at'[s]], Len(up'[at'[s]]), s, UpHead(s)', Front(s)')
<1>3. ASSUME tsock'[s] = "open", Dialled(s) PROVE Fine
  BY <1>3, UpLineDialled
<1>4. ASSUME tsock'[s] = "open", ~Dialled(s) PROVE Fine
  <2>1. tsock[s] = "open" /\ at'[s] = e /\ s \in sess[e] /\ e \in Epochs
    BY <1>4, AtStays
  <2>2. UpWire(s) /\ (InWrite(s)' = 1 => rframe'[e].k = UpHead(s)')
    BY <1>4, <2>1, UpWireSteps
  <2>3. /\ up[e] \in Seq(Frames) /\ up'[e] \in Seq(Frames) /\ Len(up[e]) \in Nat
        /\ Len(up'[e]) \in Nat /\ UpHead(s) \in Nat /\ Run(up[e], s, UpHead(s))
    BY <2>1, Lengths, UpNat DEF UpLine
  <2>4. link'[e] = "up" => link[e] = "up" /\ e = ws /\ ~Lose
    <3>1. link[e] = "up" => e = ws
      BY <2>1, SystemAssumption DEF Linked, Epochs, Typed, AllTypes, WireTypes
    <3>2. CASE LoopDial
      <4>1. link' = [link EXCEPT ![ws + 1] = "up"] /\ lpc = "dial"
        BY <3>2 DEF LoopDial
      <4>2. ~(e > ws) /\ ws \in Nat /\ e \in Nat
        <5>1. ~(e > ws)
          BY <2>1 DEF Linked
        <5>2. ws \in Epochs
          BY DEF Typed, AllTypes, WireTypes
        <5> QED
          BY <2>1, <5>1, <5>2, SystemAssumption DEF Epochs
      <4>3. e # ws + 1
        BY <4>2
      <4>4. link'[e] = link[e]
        BY <2>1, <4>1, <4>3 DEF Typed, AllTypes, WireTypes
      <4>5. ~Lose
        BY <3>2 DEF LoopDial, Lose, loopVars
      <4> QED
        BY <3>1, <4>4, <4>5
    <3>3. CASE Lose
      BY <2>1, <3>1, <3>3 DEF Lose, Typed, AllTypes, WireTypes
    <3> QED
      BY <3>1, <3>2, <3>3, LinkMoves
  <2>5. ASSUME Feeding(s), link[e] = "up"
        PROVE  Front(s) \in Nat /\ Reach(up[e], Len(up[e]), s, UpHead(s), Front(s))
    BY <2>1, <2>5, FrontNat DEF UpLine
  <2>6. ASSUME Feeding(s)', link'[e] = "up"
        PROVE  /\ Feeding(s) /\ link[e] = "up" /\ e = ws
               /\ \/ Front(s)' = Front(s) /\ ~(PumpPush /\ h = s)
                  \/ Front(s)' = Front(s) + 1 /\ Grown(up[e], up'[e], Frame("data", s, piece))
                     /\ Front(s) = piece - 1
    BY <2>1, <2>4, <2>6, FrontSteps, PushPuts
  <2> DEFINE Onto == Run(up'[e], s, UpHead(s)') /\
                       (link'[e] = "up" /\ Feeding(s)' =>
                          Reach(up'[e], Len(up'[e]), s, UpHead(s)', Front(s)'))
  <2>7. ASSUME up'[e] = up[e], UpHead(s)' = UpHead(s) PROVE Onto
    <3>1. ~Grown(up[e], up'[e], Frame("data", s, piece))
      BY <2>3, <2>7 DEF Grown
    <3> QED
      BY <2>3, <2>5, <2>6, <2>7, <3>1
  <2>8. ASSUME e = ws, UpHead(s)' = UpHead(s), link[ws] = "up",
               NEW f \in Frames, Puts(f), Grown(up[e], up'[e], f)
        PROVE  Onto
    <3>1. ASSUME f.t = "data", f.s = s PROVE Onto
      <4>1. PumpPush /\ h = s /\ hpc = "push" /\ f = Frame("data", s, piece)
        BY <2>8, <3>1, PushOnly
      <4>2. Feeding(s) /\ Front(s) = piece - 1 /\ piece \in Nat
        BY <4>1 DEF Feeding, Front, Typed, AllTypes, HandTypes
      <4>3. Front(s) \in Nat /\ Reach(up[e], Len(up[e]), s, UpHead(s), Front(s))
        BY <2>5, <2>8, <4>2
      <4>4. UpHead(s) <= Front(s)
        BY <2>3, <4>3, Above
      <4>5. f.k = Front(s) + 1
        BY <4>1, <4>2 DEF Frame
      <4>6. Run(up'[e], s, UpHead(s)) /\ Reach(up'[e], Len(up'[e]), s, UpHead(s), Front(s) + 1)
        BY <2>3, <2>8, <3>1, <4>3, <4>4, <4>5, RunAdded
      <4> QED
        BY <2>6, <2>8, <4>1, <4>6
    <3>2. ASSUME ~(f.t = "data" /\ f.s = s) PROVE Onto
      <4>1. /\ Run(up'[e], s, UpHead(s))
            /\ \A m \in Nat, c, d \in 0 .. Len(up'[e]) :
                 Reach(up[e], c, s, UpHead(s), m) /\ c <= d /\ c <= Len(up[e])
                 => Reach(up'[e], d, s, UpHead(s), m)
        BY <2>3, <2>8, <3>2, RunPassed
      <4>2. ~Grown(up[e], up'[e], Frame("data", s, piece))
        BY <2>8, <3>2 DEF Grown, Frame
      <4>3. /\ Len(up[e]) \in 0 .. Len(up'[e]) /\ Len(up'[e]) \in 0 .. Len(up'[e])
            /\ Len(up[e]) <= Len(up'[e]) /\ Len(up[e]) <= Len(up[e])
        BY <2>3, <2>8 DEF Grown
      <4>4. \A m \in Nat : Reach(up[e], Len(up[e]), s, UpHead(s), m) =>
              Reach(up'[e], Len(up'[e]), s, UpHead(s), m)
        BY <4>1, <4>3
      <4> QED
        BY <2>5, <2>6, <2>8, <4>1, <4>2, <4>4
    <3> QED
      BY <3>1, <3>2
  <2>9. ASSUME Shrunk(up[e], up'[e]), ReadFrame(e),
               \/ Reads(e, "data", s) /\ UpHead(s)' = UpHead(s) + 1
               \/ ~DataOf(up[e], 1, s) /\ UpHead(s)' = UpHead(s)
        PROVE  Onto
    <3>1. Len(up[e]) > 0 /\ Len(up'[e]) = Len(up[e]) - 1 /\ Len(up[e]) \in 1 .. Len(up[e])
      BY <2>3, <2>9 DEF Shrunk
    <3>2. ~Grown(up[e], up'[e], Frame("data", s, piece))
      BY <2>3, <3>1 DEF Grown
    <3>3. Reads(e, "data", s) => DataOf(up[e], 1, s)
      BY <2>1, ReadsHas DEF DataOf
    <3>4. /\ Run(up'[e], s, UpHead(s)')
          /\ \A m \in Nat, c \in 1 .. Len(up[e]) :
               Reach(up[e], c, s, UpHead(s), m) => Reach(up'[e], c - 1, s, UpHead(s)', m)
      <4>1. CASE DataOf(up[e], 1, s)
        <5>1. UpHead(s)' = UpHead(s) + 1
          BY <2>9, <4>1
        <5> QED
          BY <2>3, <2>9, <3>1, <4>1, <5>1, RunTaken
      <4>2. CASE ~DataOf(up[e], 1, s)
        <5>1. UpHead(s)' = UpHead(s)
          BY <2>9, <3>3, <4>2
        <5> QED
          BY <2>3, <2>9, <3>1, <4>2, <5>1, RunSkipped
      <4> QED
        BY <4>1, <4>2
    <3>5. \A m \in Nat : Reach(up[e], Len(up[e]), s, UpHead(s), m) =>
            Reach(up'[e], Len(up'[e]), s, UpHead(s)', m)
      BY <3>1, <3>4
    <3> QED
      BY <2>5, <2>6, <3>2, <3>4, <3>5
  <2>10. ASSUME Lose, Cropped(up[e], up'[e]), UpHead(s)' = UpHead(s) PROVE Onto
    <3>1. Run(up'[e], s, UpHead(s))
      BY <2>3, <2>10, RunCropped
    <3> QED
      BY <2>4, <2>10, <3>1
  <2>11. Onto
    <3> HIDE DEF Onto
    <3> QED
      BY <2>2, <2>7, <2>8, <2>9, <2>10 DEF UpWire, Reads
  <2> QED
    BY <2>1, <2>2, <2>11
<1> QED
  BY <1>2, <1>3, <1>4, KindStays DEF UpLine

-----------------------------------------------------------------------------
(* The end of the stream on its way up                                     *)

(* How the socket to a target turns from one state to another.             *)
SockTurns(s) ==
  \/ tsock'[s] = tsock[s]
  \/ Dialled(s) /\ tsock'[s] = "open"
  \/ /\ tsock[s] = "open" /\ tsock'[s] = "half"
     /\ \E e \in Epochs : Reads(e, "half", s) /\ s \in sess[e]
  \/ tsock[s] = "closed" /\ tsock'[s] = "reset"
  \/ /\ tsock[s] \in {"open", "half"} /\ tsock'[s] \in {"closed", "reset"}
     /\ \/ \E e \in Epochs : Reads(e, "close", s) /\ s \in sess[e]
        \/ \E e \in Epochs : StopManager(e) /\ s \in sess[e]
        \/ SendData(s) /\ link[at[s]] = "lost" /\ s \in sess[at[s]]
        \/ EndSession(s) /\ s \in sess[at[s]]

LEMMA SockTurnsAll ==
  ASSUME Typed, [Next]_vars, NEW s \in Sessions
  PROVE  SockTurns(s)
<1> SUFFICES ASSUME tsock'[s] # tsock[s] PROVE SockTurns(s)
  BY DEF SockTurns
<1>0. /\ tsock[s] \in {"none", "open", "half", "closed", "reset"}
      /\ tsock \in [Sessions -> {"none", "open", "half", "closed", "reset"}]
      /\ sess \in [Epochs -> SUBSET Sessions] /\ at \in [Sessions -> Epochs] /\ TsockTypes
  BY DEF Typed, AllTypes, TsockTypes, ReadTypes
<1>1. ASSUME NEW S \in SUBSET Sessions, ShutTargets(S)
      PROVE  /\ tsock[s] \in {"open", "half"} /\ tsock'[s] \in {"closed", "reset"}
             /\ s \in S
  BY <1>0, <1>1, ShutTargetsTypes
<1>2. ASSUME NEW e \in Epochs, Dial(e) PROVE SockTurns(s)
  <2>1. /\ tsock' = [tsock EXCEPT ![rframe[e].s] = "open"] /\ rpc'[e] = "connected"
        /\ rframe[e].s \in Sessions
    BY <1>2 DEF Dial, Typed, Shapes, AllTypes, ReadTypes
  <2>2. rframe[e].s = s /\ tsock'[s] = "open"
    BY <1>0, <2>1
  <2> QED
    BY <1>2, <2>1, <2>2 DEF Dialled, SockTurns
<1>3. ASSUME NEW e \in Epochs, ReadFrame(e) PROVE SockTurns(s)
  <2>1. CASE Head(up[e]).t = "close" /\ Head(up[e]).s \in sess[e]
    <3>1. ShutTargets({Head(up[e]).s}) /\ {Head(up[e]).s} \in SUBSET Sessions
      BY <1>0, <1>3, <2>1 DEF ReadFrame
    <3>2. /\ s \in {Head(up[e]).s}
          /\ tsock[s] \in {"open", "half"} /\ tsock'[s] \in {"closed", "reset"}
      BY <1>1, <3>1
    <3> QED
      BY <1>3, <2>1, <3>2 DEF SockTurns, Reads
  <2>2. CASE Head(up[e]).t = "half" /\ Head(up[e]).s \in sess[e]
    <3>1. tsock' = [tsock EXCEPT ![Head(up[e]).s] = IF @ = "open" THEN "half" ELSE @]
      BY <1>3, <2>2 DEF ReadFrame
    <3>2. Head(up[e]).s = s /\ tsock[s] = "open" /\ tsock'[s] = "half"
      BY <1>0, <3>1
    <3> QED
      BY <1>3, <2>2, <3>2 DEF SockTurns, Reads
  <2>3. CASE ~(Head(up[e]).t \in {"half", "close"} /\ Head(up[e]).s \in sess[e])
    BY <1>3, <2>3 DEF ReadFrame, tsockVars
  <2> QED
    BY <2>1, <2>2, <2>3
<1>4. ASSUME NEW e \in Epochs, StopManager(e) PROVE SockTurns(s)
  <2>1. ShutTargets(sess[e]) /\ sess[e] \in SUBSET Sessions
    BY <1>0, <1>4 DEF StopManager
  <2> QED
    BY <1>1, <1>4, <2>1 DEF SockTurns
<1>5. ASSUME NEW r \in Sessions, SendData(r) \/ EndSession(r) PROVE SockTurns(s)
  <2>1. ShutTargets({r}) /\ r \in sess[at[r]] /\ (SendData(r) => link[at[r]] = "lost")
    BY <1>5 DEF SendData, EndSession, tsockVars
  <2>2. s = r /\ tsock[s] \in {"open", "half"} /\ tsock'[s] \in {"closed", "reset"}
    BY <1>1, <2>1
  <2> QED
    BY <1>5, <2>1, <2>2 DEF SockTurns
<1>6. ASSUME NEW r \in Sessions, TargetSendsLate(r) PROVE SockTurns(s)
  <2>1. tsock[r] = "closed" /\ tsock' = [tsock EXCEPT ![r] = "reset"]
    BY <1>6 DEF TargetSendsLate
  <2> QED
    BY <1>0, <2>1 DEF SockTurns
<1>7. ASSUME NEW r \in Sessions, ReadTarget(r) \/ TargetSends(r) \/ TargetReads(r)
      PROVE  tsock' = tsock
  BY <1>7 DEF ReadTarget, TargetSends, TargetReads
<1>8. ASSUME NEW e \in Epochs, WriteTarget(e) PROVE tsock' = tsock
  BY <1>8 DEF WriteTarget
<1> QED
  BY TsockMoves, <1>2, <1>3, <1>4, <1>5, <1>6, <1>7, <1>8 DEF tsockVars

(* The handler has still to read what the client sends.                    *)
Pumping(s) == h = s /\ hpc \in {"open", "connect", "pump", "piece", "push", "end"}

(* The handler has ended, and has yet to say so.                           *)
Over(s) == h = s /\ (hpc = "notify" \/ (hpc = "finish" /\ ~closed[s]))

Ending(f, s) == f.t \in {"half", "close"} /\ f.s = s

(* The last piece a CONNECT client has sent is among the first c frames on *)
(* the way, or has been read from them.                                    *)
Through(s, c) == kind[s] = "connect" /\ tsock[s] = "open" =>
  Reach(up[at[s]], c, s, UpHead(s), lsent[s])

(* No piece follows the end that has been kept or sent; an end kept for    *)
(* later is that of a client that has sent nothing.                        *)
NoneAfter(s) ==
  /\ half[s] \/ upClosed[s] => ~Pumping(s)
  /\ half[s] => lfin[s] /\ (kind[s] = "connect" => lsent[s] = 0)

(* The end goes up behind the last piece ...                               *)
EndsLast(s) == ~cut[s] =>
  /\ Over(s) => lfin[s] /\ Through(s, Len(up[at[s]]))
  /\ \A e \in Epochs : HasUp(e, "half", s) \/ HasUp(e, "close", s) => lfin[s]
  /\ \A i \in 1 .. Len(up[at[s]]) : Ending(up[at[s]][i], s) => Through(s, i - 1)

(* ... and reaches the target's socket behind it.                          *)
EndsWhole(s) == ~cut[s] /\ ~tfin[s] /\ tsock[s] \in {"half", "closed", "reset"} =>
  lfin[s] /\ (kind[s] = "connect" /\ tsock[s] # "reset" => Total(s) = lsent[s])

LEMMA FinSteps ==
  ASSUME Typed, [Next]_vars, NEW s \in Sessions
  PROVE  lfin[s] => lfin'[s] /\ lsent'[s] = lsent[s]
<1>1. ASSUME NEW r \in Sessions, LocalFins(r) PROVE lfin[s] => lfin'[s] /\ lsent'[s] = lsent[s]
  BY <1>1 DEF LocalFins, Typed, AllTypes, LocalTypes
<1>2. ASSUME NEW r \in Sessions, LocalSends(r) PROVE lfin[s] => lfin'[s] /\ lsent'[s] = lsent[s]
  <2>1. ~lfin[r] /\ lfin' = lfin /\ lsent' = [lsent EXCEPT ![r] = lsent[r] + 1]
    BY <1>2 DEF LocalSends
  <2> QED
    BY <2>1 DEF Typed, AllTypes, LocalTypes
<1>3. ASSUME NEW r \in Sessions, LocalReads(r) PROVE lfin' = lfin /\ lsent' = lsent
  BY <1>3 DEF LocalReads
<1> QED
  BY <1>1, <1>2, <1>3, LocalMoves DEF localVars

LEMMA NoneAfterKept ==
  ASSUME Typed, [Next]_vars, NEW s \in Sessions, Alive(s), Early(s), EndsDown(s), NoneAfter(s)
  PROVE  NoneAfter(s)'
<1>1. Pumping(s)' => Pumping(s) \/ (Accept /\ h' = s /\ lsock[s] = "none")
  BY HandSteps DEF Pumping, handVars
<1>2. half'[s] \/ upClosed'[s] => half[s] \/ upClosed[s] \/ (PumpEnd /\ h = s)
  BY FlagSteps
<1>3. half[s] \/ upClosed[s] => lsock[s] # "none"
  BY DEF Alive, Untouched
<1>4. half'[s] \/ upClosed'[s] => ~Pumping(s)'
  <2>1. PumpEnd => UNCHANGED h /\ hpc' = "finish"
    BY DEF PumpEnd
  <2>2. lsock[s] = "none" /\ h = s => hpc = "accept"
    BY DEF Typed, Shapes
  <2>3. PumpEnd /\ h = s => ~Pumping(s)'
    BY <2>1 DEF Pumping
  <2> QED
    BY <1>1, <1>2, <1>3, <2>3 DEF NoneAfter
<1>5. ASSUME half'[s] PROVE lfin'[s] /\ (kind'[s] = "connect" => lsent'[s] = 0)
  <2>1. CASE half[s]
    BY <2>1, FinSteps, KindStays DEF NoneAfter
  <2>2. CASE ~half[s]
    <3>1. PumpEnd /\ h = s
      BY <1>5, <2>2, FlagSteps
    <3>2. ~opened[s] /\ lfin[s]
      BY <1>5, <2>2, <3>1 DEF PumpEnd, EndsDown
    <3>3. kind[s] = "connect" => lsent[s] = 0
      BY <3>2, SystemAssumption DEF Early, Typed, AllTypes, LocalTypes
    <3> QED
      BY <3>2, <3>3, FinSteps, KindStays
  <2> QED
    BY <2>1, <2>2
<1> QED
  BY <1>4, <1>5 DEF NoneAfter

LEMMA ReachGrown ==
  ASSUME NEW q \in Seq(Frames), NEW p \in Seq(Frames), NEW f \in Frames, Grown(q, p, f),
         NEW s, NEW n \in Nat, NEW m \in Nat, NEW c \in 0 .. Len(q), NEW d \in c .. Len(p),
         Reach(q, c, s, n, m), f.t = "data" /\ f.s = s => f.k <= m
  PROVE  Reach(p, d, s, n, m)
<1>1. Len(q) \in Nat /\ Len(p) = Len(q) + 1
  BY DEF Grown
<1>2. ASSUME NEW i \in 1 .. Len(p), DataOf(p, i, s) PROVE p[i].k <= m
  <2>1. CASE i \in 1 .. Len(q)
    BY <1>2, <2>1 DEF Grown, DataOf, Reach
  <2>2. CASE i = Len(q) + 1
    BY <1>2, <2>2 DEF Grown, DataOf
  <2> QED
    BY <1>1, <2>1, <2>2
<1>3. ASSUME m # n PROVE \E i \in 1 .. d : DataOf(p, i, s) /\ p[i].k = m
  <2>1. PICK i \in 1 .. c : DataOf(q, i, s) /\ q[i].k = m
    BY <1>3 DEF Reach
  <2>2. i \in 1 .. Len(q) /\ i \in 1 .. d
    BY <1>1
  <2>3. p[i] = q[i]
    BY <2>2 DEF Grown
  <2> QED
    BY <2>1, <2>2, <2>3 DEF DataOf
<1> QED
  BY <1>2, <1>3 DEF Reach

LEMMA ReachShrunk ==
  ASSUME NEW q \in Seq(Frames), NEW p \in Seq(Frames), Shrunk(q, p), Len(q) > 0,
         NEW s, NEW n \in Nat, Run(q, s, n), NEW m \in Nat, NEW c \in 1 .. Len(q),
         Reach(q, c, s, n, m)
  PROVE  Reach(p, c - 1, s, IF DataOf(q, 1, s) THEN n + 1 ELSE n, m)
<1>1. CASE DataOf(q, 1, s)
  BY <1>1, RunTaken
<1>2. CASE ~DataOf(q, 1, s)
  BY <1>2, RunSkipped
<1> QED
  BY <1>1, <1>2

\* When a CONNECT client has sent nothing, nothing is under way to its target.
LEMMA NothingSent ==
  ASSUME Typed, NEW s \in Sessions, ClientLine(s), UpLine(s), \A n \in Nat : Apart(s, n),
         kind[s] = "connect", tsock[s] = "open", lsent[s] = 0, NEW c
  PROVE  Reach(up[at[s]], c, s, UpHead(s), lsent[s])
<1> DEFINE e == at[s]
<1>0. /\ e \in Epochs /\ up[e] \in Seq(Frames) /\ tgot[s] \in Seq(Nat) /\ tup[s] \in Seq(Nat)
      /\ lup[s] \in Seq(Nat) /\ rframe[e] \in Frames
  BY DEF Typed, AllTypes, ReadTypes, WireTypes, TargetTypes, TsockTypes, LsockTypes
<1>1. Fetched(s) = 0
  <2>1. Len(lup[s]) \in Nat
    BY <1>0
  <2>2. Len(lup[s]) = 0
    BY <2>1 DEF ClientLine
  <2> QED
    BY <2>2 DEF Fetched
<1>2. ASSUME NEW n \in Nat, n > 0, NEW p \in Places, p # "unread", Lies(p, s, n) PROVE FALSE
  <2>1. Lies("unread", s, n)
    BY <1>1, <1>2, PlacesAre
  <2>2. Alone(s, n) /\ "unread" \in Places
    BY DEF Apart, Places
  <2> QED
    BY <1>2, <2>1, <2>2, NotBoth
<1>3. Len(tgot[s]) \in Nat /\ Len(tup[s]) \in Nat /\ InWrite(s) \in {0, 1}
  BY UpNat
<1>4. Len(tgot[s]) = 0
  <2>1. Len(tgot[s]) > 0 => tgot[s][1] = 1 /\ 1 \in 1 .. Len(tgot[s])
    BY <1>3 DEF UpLine, InLine, Lined
  <2>2. Len(tgot[s]) > 0 => Lies("got", s, 1)
    BY <2>1, PlacesAre DEF Holds
  <2> QED
    BY <1>2, <1>3, <2>2 DEF Places
<1>5. Len(tup[s]) = 0
  <2>1. Len(tup[s]) > 0 => tup[s][1] = 1 /\ 1 \in 1 .. Len(tup[s])
    BY <1>3, <1>4 DEF UpLine, InLine, Lined
  <2>2. Len(tup[s]) > 0 => Lies("tup", s, 1)
    BY <2>1, PlacesAre DEF Holds
  <2> QED
    BY <1>2, <1>3, <2>2 DEF Places
<1>6. InWrite(s) = 0
  <2>1. InWrite(s) = 1 => UpHead(s) = 1 /\ rframe[e].k = UpHead(s)
    BY <1>4, <1>5 DEF UpHead, Total, UpLine
  <2>2. InWrite(s) = 1 => Writes(e, s, 1)
    BY <2>1 DEF InWrite, Writes
  <2>3. InWrite(s) = 1 => Lies("hand", s, 1)
    BY <1>0, <2>2, PlacesAre
  <2> QED
    BY <1>2, <1>3, <2>3 DEF Places
<1>7. UpHead(s) = 0
  BY <1>4, <1>5, <1>6 DEF UpHead, Total
<1>8. ASSUME NEW i \in 1 .. Len(up[e]), DataOf(up[e], i, s) PROVE FALSE
  <2>1. up[e][i] \in Frames
    BY <1>0, ElementOfSeq
  <2>2. up[e][i].k \in Nat /\ up[e][i].k > 0
    BY <1>7, <1>8, <2>1 DEF UpLine, Run, Frames
  <2>3. Lies("wire", s, up[e][i].k)
    BY <1>0, <1>8, <2>2, PlacesAre DEF Wired
  <2> QED
    BY <1>2, <2>2, <2>3 DEF Places
<1> QED
  BY <1>7, <1>8 DEF Reach

\* While the socket to the target stays open, what is known of the pieces still
\* to come is not changed by what happens to the connection.
LEMMA ThroughSteps ==
  ASSUME Typed, [Next]_vars, NEW s \in Sessions, Announced(s), TargetSide(s),
         \A d \in Epochs : InHand(d, s), Early(s), ClientLine(s), UpLine(s),
         kind[s] = "connect", tsock[s] = "open", tsock'[s] = "open",
         at'[s] = at[s], s \in sess[at[s]], at[s] \in Epochs, lfin[s], ~cut'[s]
  PROVE  /\ Through(s, Len(up[at[s]])) => Through(s, Len(up[at[s]]))'
         /\ /\ \A i \in 1 .. Len(up[at[s]]) : Ending(up[at[s]][i], s) => Through(s, i - 1)
            /\ \A f \in Frames : Puts(f) /\ Ending(f, s) /\ at[s] = ws /\ link[ws] = "up" =>
                 Through(s, Len(up[at[s]]))
            => \A i \in 1 .. Len(up'[at'[s]]) :
                 Ending(up'[at'[s]][i], s) => Through(s, i - 1)'
<1> DEFINE e == at[s]
           q == up[e]
           p == up'[e]
           n == UpHead(s)
           m == lsent[s]
           Last == Reach(q, Len(q), s, n, m)
           Each1 == \A i \in 1 .. Len(q) : Ending(q[i], s) => Reach(q, i - 1, s, n, m)
           New1 == \A f \in Frames : Puts(f) /\ Ending(f, s) /\ e = ws /\ link[ws] = "up" => Last
           Last2 == Reach(p, Len(p), s, UpHead(s)', m)
           Each2 == \A i \in 1 .. Len(p) : Ending(p[i], s) => Reach(p, i - 1, s, UpHead(s)', m)
           Goal == (Last => Last2) /\ (Each1 /\ New1 => Each2)
<1>1. /\ q \in Seq(Frames) /\ p \in Seq(Frames) /\ Len(q) \in Nat /\ Len(p) \in Nat
      /\ n \in Nat /\ m \in Nat /\ Run(q, s, n)
  <2>1. m \in Nat
    BY SystemAssumption DEF Typed, AllTypes, LocalTypes
  <2>2. n \in Nat /\ Run(q, s, n)
    BY UpNat DEF UpLine
  <2> QED
    BY <2>1, <2>2, Lengths
<1>2. lsent'[s] = m /\ kind'[s] = "connect"
  BY FinSteps, KindStays
<1>3. UpWire(s)
  BY UpWireSteps
<1>4. ASSUME p = q, UpHead(s)' = n PROVE Goal
  BY <1>4
<1>5. ASSUME e = ws, link[ws] = "up", UpHead(s)' = n, NEW f \in Frames, Puts(f), Grown(q, p, f)
      PROVE  Goal
  <2>1. f.t = "data" /\ f.s = s => f.k <= m
    <3>1. ASSUME f.t = "data", f.s = s PROVE Held(s) /\ f.k = piece
      BY <3>1, <1>5, PushOnly DEF Held, Frame
    <3>2. Held(s) => piece \in 1 .. Fetched(s) /\ Len(lup[s]) <= lsent[s]
      BY DEF ClientLine
    <3>3. Len(lup[s]) \in Nat /\ piece \in Nat
      BY LenProperties DEF Typed, AllTypes, LsockTypes, HandTypes
    <3>4. Held(s) => piece <= m
      BY <1>1, <3>2, <3>3 DEF Fetched
    <3> QED
      BY <3>1, <3>4
  <2>2. Len(p) = Len(q) + 1 /\ p[Len(p)] = f /\ \A i \in 1 .. Len(q) : p[i] = q[i]
    BY <1>5 DEF Grown
  <2>3. ASSUME NEW c \in 0 .. Len(q), NEW d \in c .. Len(p), Reach(q, c, s, n, m)
        PROVE  Reach(p, d, s, n, m)
    BY <1>1, <1>5, <2>1, <2>3, ReachGrown
  <2>4. Last => Last2
    <3>1. Len(q) \in 0 .. Len(q) /\ Len(p) \in Len(q) .. Len(p)
      BY <1>1, <2>2
    <3> QED
      BY <1>5, <2>3, <3>1
  <2>5. ASSUME Each1, New1, NEW i \in 1 .. Len(p), Ending(p[i], s)
        PROVE  Reach(p, i - 1, s, n, m)
    <3>1. i - 1 \in 0 .. Len(q) /\ i - 1 \in i - 1 .. Len(p)
      BY <1>1, <2>2
    <3>2. CASE i \in 1 .. Len(q)
      BY <2>2, <2>3, <2>5, <3>1, <3>2
    <3>3. CASE i = Len(p)
      <4>1. Last
        BY <1>5, <2>2, <2>5, <3>3
      <4>2. i - 1 = Len(q)
        BY <1>1, <2>2, <3>3
      <4> QED
        BY <2>3, <3>1, <4>1, <4>2
    <3> QED
      BY <1>1, <2>2, <3>2, <3>3
  <2> QED
    BY <1>5, <2>4, <2>5
<1>6. ASSUME ReadFrame(e), Shrunk(q, p), UpHead(s)' = IF DataOf(q, 1, s) THEN n + 1 ELSE n
      PROVE  Goal
  <2>1. Len(q) > 0 /\ Len(q) = Len(p) + 1 /\ \A i \in 1 .. Len(p) : p[i] = q[i + 1]
    BY <1>1, <1>6 DEF Shrunk
  <2>2. ASSUME NEW c \in 1 .. Len(q), Reach(q, c, s, n, m)
        PROVE  Reach(p, c - 1, s, UpHead(s)', m)
    BY <1>1, <1>6, <2>1, <2>2, ReachShrunk
  <2>3. Last => Last2
    <3>1. Len(q) \in 1 .. Len(q) /\ Len(q) - 1 = Len(p)
      BY <1>1, <2>1
    <3> QED
      BY <2>2, <3>1
  <2>4. ASSUME Each1, NEW i \in 1 .. Len(p), Ending(p[i], s)
        PROVE  Reach(p, i - 1, s, UpHead(s)', m)
    <3>1. i \in 1 .. Len(q) /\ i + 1 \in 1 .. Len(q) /\ (i + 1) - 1 = i /\ p[i] = q[i + 1]
      BY <1>1, <2>1
    <3>2. Reach(q, i, s, n, m)
      BY <2>4, <3>1
    <3> QED
      BY <2>2, <3>1, <3>2
  <2> QED
    BY <2>3, <2>4
<1>7. ~Lose
  <2>1. Lose => cut'[s] \/ lsock[s] = "none"
    BY DEF Lose
  <2>2. lsock[s] = "none" => tsock[s] = "none"
    BY DEF Announced, Unsent, Unheard
  <2> QED
    BY <2>1, <2>2
<1>8. Goal
  <2>1. ASSUME Reads(e, "data", s), Shrunk(q, p), UpHead(s)' = n + 1 PROVE Goal
    <3>1. DataOf(q, 1, s) /\ ReadFrame(e)
      BY <2>1, ReadsHas DEF DataOf, Reads
    <3> QED
      BY <1>6, <2>1, <3>1
  <2> HIDE DEF Goal
  <2> QED
    BY <1>3, <1>4, <1>5, <1>6, <1>7, <2>1 DEF UpWire
<1> QED
  BY <1>2, <1>8 DEF Through

LEMMA ThroughOpens ==
  ASSUME Typed, [Next]_vars, NEW s \in Sessions, AtHome(s), \A e \in Epochs : InHand(e, s),
         TargetSide(s), Early(s), ClientLine(s), Dialled(s), NEW c
  PROVE  Through(s, c)'
<1>1. tsock'[s] = "open"
  BY SockSteps
<1>2. kind' = kind
  BY KindStays
<1>3. ASSUME kind[s] = "connect" PROVE Reach(up'[at'[s]], c, s, UpHead(s)', lsent'[s])
  BY <1>1, <1>3, UpLineDialled
<1> QED
  BY <1>2, <1>3 DEF Through

\* The pump ends when everything the client has sent is on its way.
LEMMA PumpEndsLast ==
  ASSUME Typed, Linked, NEW s \in Sessions, Alive(s), AtHome(s), ClientLine(s), UpLine(s),
         PumpEnd, h = s, ~cut[s]
  PROVE  Through(s, Len(up[at[s]]))
<1> SUFFICES ASSUME kind[s] = "connect", tsock[s] = "open"
             PROVE  Reach(up[at[s]], Len(up[at[s]]), s, UpHead(s), lsent[s])
  BY DEF Through
<1>1. hpc = "end"
  BY DEF PumpEnd
<1>2. at[s] = ws
  BY DEF AtHome, Typed, AllTypes, ReadTypes
<1>3. link[ws] = "up"
  BY <1>1, LossCuts DEF Linked, Typed, AllTypes, WireTypes
<1>4. Front(s) = lsent[s]
  <2>1. Len(lup[s]) = 0 /\ lsent[s] \in Nat
    BY <1>1, SystemAssumption DEF ClientLine, Typed, AllTypes, LocalTypes
  <2> QED
    BY <1>1, <2>1 DEF Front, Fetched
<1> QED
  BY <1>1, <1>2, <1>3, <1>4 DEF UpLine, Feeding

LEMMA OverSteps ==
  ASSUME Typed, Linked, [Next]_vars, NEW s \in Sessions, Alive(s), EndsDown(s), NoneAfter(s),
         Over(s)', ~cut'[s]
  PROVE  Over(s) \/ (PumpEnd /\ h = s)
<1>1. h = s /\ hpc' \in {"notify", "finish"} /\ (hpc' = "finish" => ~closed'[s])
  BY HandSteps DEF Over, handVars
<1>2. (closed[s] => closed'[s]) /\ ~cut[s]
  BY FlagSteps, CutKept
<1>3. CASE hpc' = "notify"
  <2>1. hpc = "notify" \/ (Finish /\ hpc = "finish" /\ ~closed[s])
    BY <1>1, <1>3, HandSteps DEF handVars
  <2> QED
    BY <1>1, <2>1 DEF Over
<1>4. ASSUME hpc' = "finish", ~(PumpEnd /\ h = s) PROVE hpc = "finish"
  <2>1. CASE PumpRead
    <3>1. lsock[s] # "open" \/ ended[s]
      BY <1>1, <1>4, <2>1 DEF PumpRead
    <3>2. lsock[s] \in {"closed", "reset", "open"}
      BY <1>1, <2>1 DEF PumpRead, Typed, Shapes, AllTypes, LsockTypes
    <3> QED
      BY <1>1, <1>2, <1>4, <3>1, <3>2 DEF EndsDown
  <2>2. CASE PumpPiece
    <3>1. hpc = "piece" /\ (closed[s] \/ upClosed[s])
      BY <1>1, <1>4, <2>2 DEF PumpPiece
    <3> QED
      BY <1>1, <1>2, <1>4, <3>1 DEF NoneAfter, Pumping
  <2>3. CASE PumpPush
    <3>1. hpc = "push" /\ (~Usable \/ link[ws] = "lost")
      BY <1>4, <2>3 DEF PumpPush
    <3> QED
      BY <1>1, <1>2, <3>1, LossCuts
  <2> QED
    BY <1>1, <1>4, <2>1, <2>2, <2>3, HandSteps DEF handVars
<1> QED
  BY <1>1, <1>2, <1>3, <1>4 DEF Over

\* Who sends an end, and what is known then.
LEMMA EndPut ==
  ASSUME Typed, Linked, NEW s \in Sessions, Alive(s), AtHome(s), ClientLine(s), UpLine(s),
         \A n \in Nat : Apart(s, n), EndsDown(s), NoneAfter(s), EndsLast(s), ~cut[s],
         NEW f \in Frames, Puts(f), Ending(f, s)
  PROVE  lfin[s] /\ Through(s, Len(up[at[s]]))
<1>1. CASE PumpEnd /\ h = s
  BY <1>1, PumpEndsLast DEF PumpEnd, EndsDown
<1>2. CASE LoopHalf /\ half[s]
  BY <1>2, NothingSent DEF NoneAfter, Through
<1>3. CASE SendClose /\ h = s
  BY <1>3 DEF SendClose, EndsLast, Over
<1> QED
  BY <1>1, <1>2, <1>3 DEF Puts, Ending, Frame

LEMMA EndsLastKept ==
  ASSUME Typed, Linked, [Next]_vars, NEW s \in Sessions, Announced(s), Alive(s), AtHome(s),
         \A e \in Epochs : InHand(e, s), TargetSide(s), Early(s), ClientLine(s), UpLine(s),
         \A n \in Nat : Apart(s, n), EndsDown(s), NoneAfter(s), EndsLast(s)
  PROVE  EndsLast(s)'
<1> SUFFICES ASSUME ~cut'[s] PROVE EndsLast(s)'
  BY DEF EndsLast
<1>1. ~cut[s] /\ kind' = kind /\ (lfin[s] => lfin'[s])
  BY CutKept, KindStays, FinSteps
<1>2. ASSUME NEW e \in Epochs, HasUp(e, "half", s)' \/ HasUp(e, "close", s)' PROVE lfin[s]
  <2>1. ASSUME NEW t \in {"half", "close"}, HasUp(e, t, s)' PROVE lfin[s]
    <3>1. CASE HasUp(e, t, s)
      BY <1>1, <3>1 DEF EndsLast
    <3>2. CASE ~HasUp(e, t, s)
      <4>1. t \in Types
        BY DEF Types
      <4>2. PICK f \in Frames : Puts(f) /\ f.t = t /\ f.s = s
        BY <2>1, <3>2, <4>1, UpChanges
      <4> QED
        BY <1>1, <4>2, EndPut DEF Ending
    <3> QED
      BY <3>1, <3>2
  <2> QED
    BY <1>2, <2>1
<1>3. ASSUME tsock'[s] = "open", ~Dialled(s)
      PROVE  tsock[s] = "open" /\ at'[s] = at[s] /\ s \in sess[at[s]] /\ at[s] \in Epochs
  BY <1>3, AtStays
<1>4. ASSUME Over(s)' PROVE lfin'[s] /\ Through(s, Len(up[at[s]]))'
  <2>1. lfin[s] /\ Through(s, Len(up[at[s]]))
    BY <1>1, <1>4, OverSteps, PumpEndsLast DEF EndsLast, PumpEnd, EndsDown
  <2>2. CASE Dialled(s)
    BY <1>1, <2>1, <2>2, ThroughOpens
  <2>3. CASE ~Dialled(s) /\ tsock'[s] = "open" /\ kind[s] = "connect"
    BY <1>1, <1>3, <2>1, <2>3, ThroughSteps
  <2>4. CASE tsock'[s] # "open" \/ kind[s] # "connect"
    BY <1>1, <2>1, <2>4 DEF Through
  <2> QED
    BY <2>2, <2>3, <2>4
<1>5. ASSUME NEW i \in 1 .. Len(up'[at'[s]]), Ending(up'[at'[s]][i], s)
      PROVE  Through(s, i - 1)'
  <2>1. CASE Dialled(s)
    BY <2>1, ThroughOpens
  <2>2. CASE ~Dialled(s) /\ tsock'[s] = "open" /\ kind[s] = "connect"
    <3>1. tsock[s] = "open" /\ at'[s] = at[s] /\ s \in sess[at[s]] /\ at[s] \in Epochs
      BY <1>3, <2>2
    <3>2. HasUp(at[s], "half", s)' \/ HasUp(at[s], "close", s)'
      BY <1>5, <3>1 DEF HasUp, Ending
    <3>3. lfin[s]
      BY <1>2, <3>1, <3>2
    <3>4. \A f \in Frames : Puts(f) /\ Ending(f, s) => Through(s, Len(up[at[s]]))
      BY <1>1, EndPut
    <3>5. \A j \in 1 .. Len(up[at[s]]) : Ending(up[at[s]][j], s) => Through(s, j - 1)
      BY <1>1 DEF EndsLast
    <3> QED
      BY <1>5, <2>2, <3>1, <3>3, <3>4, <3>5, ThroughSteps
  <2>3. CASE tsock'[s] # "open" \/ kind[s] # "connect"
    BY <1>1, <2>3 DEF Through
  <2> QED
    BY <2>1, <2>2, <2>3
<1> QED
  BY <1>1, <1>2, <1>4, <1>5 DEF EndsLast

\* When the end is read from the connection, all that the client has sent has
\* been written to the target's socket.
LEMMA EndRead ==
  ASSUME Typed, NEW s \in Sessions, AtHome(s), EndsLast(s), ~cut[s],
         NEW e \in Epochs, NEW t \in {"half", "close"}, Reads(e, t, s), s \in sess[e]
  PROVE  /\ lfin[s] /\ at[s] = e /\ rpc[e] = "read" /\ InWrite(s) = 0
         /\ kind[s] = "connect" /\ tsock[s] = "open" => Total(s) = lsent[s]
<1>1. HasUp(e, t, s) /\ up[e][1].t = t /\ up[e][1].s = s /\ Len(up[e]) \in Nat \ {0}
  BY ReadsHas
<1>2. at[s] = e /\ rpc[e] = "read"
  BY DEF AtHome, Reads, ReadFrame
<1>3. InWrite(s) = 0
  BY <1>2 DEF InWrite
<1>4. 1 \in 1 .. Len(up[at[s]]) /\ Ending(up[at[s]][1], s)
  BY <1>1, <1>2 DEF Ending
<1>5. lfin[s] /\ Through(s, 1 - 1)
  BY <1>1, <1>4 DEF EndsLast
<1>6. ASSUME kind[s] = "connect", tsock[s] = "open" PROVE Total(s) = lsent[s]
  <2>1. UpHead(s) = lsent[s]
    BY <1>5, <1>6 DEF Through, Reach
  <2> QED
    BY <1>3, <2>1, UpNat DEF UpHead
<1> QED
  BY <1>2, <1>3, <1>5, <1>6

LEMMA EndsWholeKept ==
  ASSUME Typed, Linked, [Next]_vars, NEW s \in Sessions, Announced(s), AtHome(s),
         \A e \in Epochs : InHand(e, s), TargetLine(s), UpLine(s), EndsLast(s), EndsWhole(s)
  PROVE  EndsWhole(s)'
<1> SUFFICES ASSUME ~cut'[s], ~tfin'[s], tsock'[s] \in {"half", "closed", "reset"}
             PROVE  /\ lfin'[s]
                    /\ kind[s] = "connect" /\ tsock'[s] # "reset" => Total(s)' = lsent'[s]
  BY KindStays DEF EndsWhole
<1>1. ~cut[s] /\ ~tfin[s] /\ (lfin[s] => lfin'[s] /\ lsent'[s] = lsent[s])
  BY CutKept, FeedSteps, FinSteps
<1>2. tsock[s] # "none"
  BY SockSteps
<1>3. ASSUME kind[s] = "connect", tsock'[s] # "reset", ~Filling(s),
             InWrite(s) = 0 \/ tsock[s] # "open"
      PROVE  Total(s)' = Total(s)
  <2>1. InLine(s) /\ (InWrite(s) = 1 /\ tsock[s] = "open" => rframe[at[s]].k = Total(s) + 1)
    BY <1>3 DEF UpLine
  <2> QED
    BY <1>3, <2>1, InLineKept
<1>4. CASE tsock[s] \in {"half", "closed", "reset"}
  <2>1. lfin[s] /\ (kind[s] = "connect" /\ tsock[s] # "reset" => Total(s) = lsent[s])
    BY <1>1, <1>4 DEF EndsWhole
  <2>2. tsock[s] = "reset" => tsock'[s] = "reset"
    BY SockTurnsAll, SockSteps DEF SockTurns
  <2>3. ~Filling(s)
    BY <1>4 DEF Filling
  <2> QED
    BY <1>1, <1>3, <1>4, <2>1, <2>2, <2>3
<1>5. CASE tsock[s] = "open"
  <2>1. ASSUME NEW e \in Epochs, s \in sess[e], link[e] = "lost" PROVE FALSE
    <3>1. e = ws
      BY <1>1, <2>1 DEF AtHome
    <3>2. lsock[s] = "none" \/ (h = s /\ hpc = "open")
      BY <1>1, <2>1, <3>1 DEF Linked
    <3> QED
      BY <1>2, <3>2 DEF Announced, Unsent, Unheard
  <2>2. ~(\E e \in Epochs : StopManager(e) /\ s \in sess[e])
    BY <2>1 DEF StopManager
  <2>3. ~(SendData(s) /\ link[at[s]] = "lost" /\ s \in sess[at[s]])
    BY <2>1 DEF Typed, AllTypes, ReadTypes
  <2>4. ~EndSession(s)
    BY <1>1 DEF EndSession, TargetLine
  <2>5. PICK e \in Epochs, t \in {"half", "close"} : Reads(e, t, s) /\ s \in sess[e]
    BY <1>5, <2>2, <2>3, <2>4, SockTurnsAll DEF SockTurns
  <2>6. /\ lfin[s] /\ at[s] = e /\ rpc[e] = "read" /\ InWrite(s) = 0
        /\ kind[s] = "connect" => Total(s) = lsent[s]
    BY <1>1, <1>5, <2>5, EndRead
  <2>7. ~Filling(s)
    BY <2>6 DEF Filling, WriteTarget
  <2> QED
    BY <1>1, <1>3, <2>6, <2>7
<1> QED
  BY <1>2, <1>4, <1>5 DEF Typed, AllTypes, TsockTypes

(* All that is known of what goes up.                                      *)
Upstream(s) == /\ ClientLine(s) /\ Early(s) /\ TargetSide(s) /\ (\A n \in Nat : Apart(s, n))
               /\ UpLine(s) /\ NoneAfter(s) /\ EndsLast(s) /\ EndsWhole(s)

LEMMA UpstreamKept ==
  ASSUME Typed, Linked, Traced, [Next]_vars, NEW s \in Sessions, Downstream(s), Upstream(s)
  PROVE  Upstream(s)'
<1>1. Announced(s) /\ AtHome(s) /\ \A e \in Epochs : InHand(e, s)
  BY DEF Traced
<1>2. Alive(s) /\ First(s) /\ LocalLine(s) /\ TargetLine(s) /\ EndsDown(s)
  BY DEF Downstream
<1>3. /\ ClientLine(s) /\ Early(s) /\ TargetSide(s) /\ (\A n \in Nat : Apart(s, n))
      /\ UpLine(s) /\ NoneAfter(s) /\ EndsLast(s) /\ EndsWhole(s)
      /\ h = s /\ hpc = "end" => lfin[s]
  BY <1>2 DEF Upstream, EndsDown
<1>4. ClientLine(s)' /\ Early(s)' /\ TargetSide(s)'
  BY <1>1, <1>2, <1>3, ClientLineKept, EarlyKept, TargetSideKept
<1>5. ASSUME NEW n \in Nat PROVE Apart(s, n)'
  BY <1>1, <1>2, <1>3, ApartKept
<1>6. UpLine(s)'
  BY <1>1, <1>3, UpLineKept
<1>7. NoneAfter(s)' /\ EndsLast(s)' /\ EndsWhole(s)'
  BY <1>1, <1>2, <1>3, NoneAfterKept, EndsLastKept, EndsWholeKept
<1> QED
  BY <1>4, <1>5, <1>6, <1>7 DEF Upstream

LEMMA InitUpstream == Init => \A s \in Sessions : Upstream(s)
<1> SUFFICES ASSUME Init, NEW s \in Sessions PROVE Upstream(s)
  OBVIOUS
<1>1. /\ hpc = "accept" /\ lpc = "read" /\ frame.s # s /\ tsock[s] = "none" /\ teof[s] = "none"
      /\ ~opened[s] /\ ~upClosed[s] /\ ~half[s] /\ ~answered[s] /\ ~upShut[s] /\ lsent[s] = 0
      /\ lup[s] = <<>> /\ ldn[s] = <<>> /\ tup[s] = <<>> /\ tgot[s] = <<>> /\ pending[s] = <<>>
      /\ \A e \in Epochs : up[e] = <<>> /\ rpc[e] \in {"none", "read"}
  BY SystemAssumption DEF Init, Each, NoFrame, Frame
<1>2. Len(<<>>) = 0
  OBVIOUS
<1>3. /\ Len(lup[s]) = 0 /\ Len(ldn[s]) = 0 /\ Len(tup[s]) = 0 /\ Len(tgot[s]) = 0
      /\ Len(pending[s]) = 0 /\ ~Held(s) /\ Fetched(s) = 0
      /\ \A e \in Epochs : Len(up[e]) = 0 /\ \A t : ~HasUp(e, t, s)
  <2>1. /\ Len(lup[s]) = 0 /\ Len(ldn[s]) = 0 /\ Len(tup[s]) = 0 /\ Len(tgot[s]) = 0
        /\ Len(pending[s]) = 0 /\ \A e \in Epochs : Len(up[e]) = 0
    BY <1>1, <1>2
  <2>2. Fetched(s) = 0
    <3>1. Len(lup[s]) = 0 /\ lsent[s] = 0
      BY <1>1, <2>1
    <3> QED
      BY <3>1 DEF Fetched
  <2>3. \A e \in Epochs : \A t : ~HasUp(e, t, s)
    BY <2>1 DEF HasUp
  <2> QED
    BY <1>1, <2>1, <2>2, <2>3 DEF Held
<1>4. ClientLine(s) /\ Early(s) /\ TargetSide(s)
  BY <1>1, <1>3 DEF ClientLine, Early, TargetSide, Holds
<1>5. ASSUME NEW n \in Nat PROVE Apart(s, n)
  <2>1. Saved(s) = pending[s] /\ Ungreeted(s)
    BY <1>1 DEF Saved, Flushing, Ungreeted
  <2>2. /\ ~Holds(tgot[s], n) /\ ~Holds(tup[s], n) /\ ~Holds(Saved(s), n) /\ ~Holds(Saved(s), 0)
        /\ \A e \in Epochs : ~Wired(e, s, n) /\ ~Writes(e, s, n)
    BY <1>1, <1>3, <2>1 DEF Holds, Wired, Writes
  <2>3. Lies("kept", s, n) => n = 0
    BY <2>2, PlacesAre
  <2>4. Lies("unread", s, n) => n > 0
    BY <1>3, PlacesAre
  <2>5. \A p \in Places : Lies(p, s, n) => p \in {"kept", "unread"}
    BY <1>3, <2>2, PlacesAre DEF Places
  <2>6. Alone(s, n)
    BY <2>3, <2>4, <2>5 DEF Alone
  <2> QED
    BY <1>3, <2>1, <2>2, <2>6 DEF Apart, Once, WiredOnce, Holds
<1>6. UpLine(s)
  <2>1. Zeros(tup[s]) = 0
    BY <1>3 DEF Zeros
  <2> QED
    BY <1>1, <1>3, <2>1 DEF UpLine, InLine, Lined
<1>7. NoneAfter(s) /\ EndsLast(s) /\ EndsWhole(s)
  <2>1. at[s] \in Epochs
    BY InitTyped DEF Typed, AllTypes, ReadTypes
  <2> QED
    BY <1>1, <1>3, <2>1 DEF NoneAfter, EndsLast, EndsWhole, Over
<1> QED
  BY <1>4, <1>5, <1>6, <1>7 DEF Upstream

LEMMA SpecUpstream ==
  Spec => []( /\ Typed /\ Linked /\ Traced /\ Remembered
              /\ \A s \in Sessions : Downstream(s) /\ Upstream(s))
<1> DEFINE IInv == /\ Typed /\ Linked /\ Traced /\ Remembered
                   /\ \A s \in Sessions : Downstream(s) /\ Upstream(s)
<1>1. Init => IInv
  BY InitTyped, InitTraced, InitDownstream, InitUpstream
<1>2. IInv /\ [Next]_vars => IInv'
  BY NextTyped, LinkedKept, TracedKept, RememberedKept, DownstreamKept, UpstreamKept
<1> QED
  BY <1>1, <1>2, PTL DEF Spec

-----------------------------------------------------------------------------
(* The whole way implements the two streams                                *)

LEMMA ClientGets ==
  ASSUME Typed, NEW s \in Sessions, Downstream(s), LocalReads(s)
  PROVE  \/ Contract!DownDelivers(s) \/ Contract!DownEnds(s)
         \/ UNCHANGED Contract!vars
<1>0. /\ UNCHANGED <<kind, lsent, tgot, tsent, lfin, tfin, teof, cut>>
      /\ lgot \in [Sessions -> Seq(Nat)] /\ ldn[s] \in Seq(Nat) /\ tsent[s] \in Nat
  BY SystemAssumption DEF LocalReads, targetVars, Typed, AllTypes, LocalTypes, LsockTypes,
                          TargetTypes
<1>1. LocalLine(s) /\ EndsDown(s)
  BY DEF Downstream
<1>2. CASE ldn[s] # <<>> /\ Head(ldn[s]) = 0
  BY <1>0, <1>2 DEF LocalReads, Contract!vars
<1>3. CASE ldn[s] # <<>> /\ Head(ldn[s]) # 0
  <2> DEFINE a == Len(lgot[s])
             b == Len(ldn[s])
  <2>1. Head(ldn[s]) = ldn[s][1] /\ b \in Nat \ {0} /\ a \in Nat
    BY <1>0, <1>3, Shrinks, LenProperties
  <2>2. Zeros(ldn[s]) = 0
    BY <1>3, <2>1 DEF Zeros
  <2>3. Head(ldn[s]) = a + 1 /\ a + b <= tsent[s]
    <3>1. 1 \in 1 .. b
      BY <2>1
    <3>2. ldn[s][1] = a + 1 - 0 /\ a + b - 0 <= tsent[s]
      BY <1>1, <2>2, <3>1 DEF LocalLine, Lined, DownLen
    <3> QED
      BY <1>0, <2>1, <3>2
  <2>4. a < tsent[s]
    BY <1>0, <2>1, <2>3
  <2>5. leof[s] = "none"
    BY <1>1, <2>1 DEF LocalLine
  <2>6. lgot' = [lgot EXCEPT ![s] = Append(lgot[s], a + 1)] /\ leof' = leof
    BY <1>3, <2>3 DEF LocalReads
  <2> QED
    BY <1>0, <2>4, <2>5, <2>6 DEF Contract!DownDelivers
<1>4. CASE ldn[s] = <<>>
  <2> DEFINE end == IF lsock[s] = "closed" THEN "eof" ELSE "reset"
  <2>1. /\ lsock[s] \in {"closed", "reset"} /\ leof[s] = "none" /\ lgot' = lgot
        /\ leof' = [leof EXCEPT ![s] = end]
    BY <1>4 DEF LocalReads
  <2>2. DownLen(s) = Len(lgot[s])
    <3>1. Len(ldn[s]) = 0 /\ Len(lgot[s]) \in Nat
      BY <1>0, <1>4
    <3>2. Zeros(ldn[s]) = 0
      BY <3>1 DEF Zeros
    <3> QED
      BY <3>1, <3>2 DEF DownLen
  <2>3. ASSUME ~lfin[s], ~cut[s]
        PROVE  tfin[s] /\ (end = "eof" => Len(lgot[s]) = tsent[s])
    BY <1>1, <2>1, <2>2, <2>3 DEF EndsDown
  <2>4. end \in {"eof", "reset"}
    OBVIOUS
  <2> QED
    BY <1>0, <2>1, <2>3, <2>4 DEF Contract!DownEnds
<1> QED
  BY <1>2, <1>3, <1>4

LEMMA TargetGets ==
  ASSUME Typed, NEW s \in Sessions, Upstream(s), TargetReads(s)
  PROVE  Contract!UpDelivers(s) \/ Contract!UpEnds(s)
<1>0. /\ UNCHANGED <<kind, lsent, lgot, tsent, lfin, tfin, leof, cut>>
      /\ tgot \in [Sessions -> Seq(Nat)] /\ tup[s] \in Seq(Nat) /\ lsent[s] \in Nat
      /\ lup[s] \in Seq(Nat)
  BY SystemAssumption DEF TargetReads, localVars, Typed, AllTypes, LocalTypes, LsockTypes,
                          TsockTypes, TargetTypes
<1>1. ClientLine(s) /\ TargetSide(s) /\ (\A n \in Nat : Apart(s, n)) /\ UpLine(s) /\ EndsWhole(s)
  BY DEF Upstream
<1>2. CASE tup[s] # <<>>
  <2> DEFINE k == Head(tup[s])
  <2>1. k = tup[s][1] /\ k \in Nat /\ Len(tup[s]) \in Nat \ {0}
    BY <1>0, <1>2, Shrinks
  <2>2. Lies("tup", s, k)
    <3>1. 1 \in 1 .. Len(tup[s])
      BY <2>1
    <3> QED
      BY <2>1, <3>1, PlacesAre DEF Holds
  <2>3. ~Lies("got", s, k) /\ ~Lies("unread", s, k)
    BY <1>1, <2>1, <2>2, NotBoth DEF Apart, Places
  <2>4. k \in 0 .. lsent[s]
    <3>1. Len(lup[s]) \in Nat /\ ~(k > lsent[s] - Len(lup[s]))
      BY <1>0, <2>3, PlacesAre, LenProperties DEF Fetched
    <3> QED
      BY <1>0, <2>1, <3>1
  <2>5. k \notin Contract!Got(tgot, s)
    BY <2>3, PlacesAre DEF Contract!Got, Holds
  <2>6. teof[s] = "none"
    BY <1>1, <2>1 DEF TargetSide
  <2>7. kind[s] = "connect" => k = Len(tgot[s]) + 1
    <3>1. ASSUME kind[s] = "connect" PROVE Lined(tgot[s], tup[s]) /\ Zeros(tup[s]) = 0
      BY <1>1, <3>1 DEF UpLine, InLine
    <3>2. Len(tgot[s]) \in Nat /\ 1 \in 1 .. Len(tup[s])
      BY <1>0, <2>1, LenProperties
    <3> QED
      BY <2>1, <3>1, <3>2 DEF Lined
  <2>8. tgot' = [tgot EXCEPT ![s] = Append(tgot[s], k)] /\ teof' = teof
    BY <1>2 DEF TargetReads
  <2> QED
    BY <1>0, <2>4, <2>5, <2>6, <2>7, <2>8 DEF Contract!UpDelivers
<1>3. CASE tup[s] = <<>>
  <2> DEFINE end == IF tsock[s] = "reset" THEN "reset" ELSE "eof"
  <2>1. /\ tsock[s] \in {"half", "closed", "reset"} /\ teof[s] = "none" /\ tgot' = tgot
        /\ teof' = [teof EXCEPT ![s] = end]
    BY <1>3 DEF TargetReads
  <2>2. Total(s) = Len(tgot[s])
    <3>1. Len(tup[s]) = 0 /\ Len(tgot[s]) \in Nat
      BY <1>0, <1>3
    <3> QED
      BY <3>1 DEF Total
  <2>3. ASSUME ~tfin[s], ~cut[s]
        PROVE  lfin[s] /\ (end = "eof" /\ kind[s] = "connect" => Len(tgot[s]) = lsent[s])
    BY <1>1, <2>1, <2>2, <2>3 DEF EndsWhole
  <2>4. end \in {"eof", "reset"}
    OBVIOUS
  <2> QED
    BY <1>0, <2>1, <2>3, <2>4 DEF Contract!UpEnds
<1> QED
  BY <1>2, <1>3

LEMMA StepImplements ==
  ASSUME Typed, \A s \in Sessions : Downstream(s) /\ Upstream(s), [Next]_vars
  PROVE  [Contract!Next]_Contract!vars
<1>1. ASSUME NEW s \in Sessions, LocalSends(s) PROVE Contract!ClientSends(s)
  BY <1>1 DEF LocalSends, targetVars, Contract!ClientSends
<1>2. ASSUME NEW s \in Sessions, LocalFins(s) PROVE Contract!ClientFins(s)
  BY <1>2 DEF LocalFins, targetVars, Contract!ClientFins
<1>3. ASSUME NEW s \in Sessions, TargetSends(s) PROVE Contract!TargetSends(s)
  BY <1>3 DEF TargetSends, localVars, Contract!TargetSends
<1>4. ASSUME NEW s \in Sessions, TargetFins(s) PROVE Contract!TargetFins(s)
  BY <1>4 DEF TargetFins, localVars, Contract!TargetFins
<1>5. ASSUME NEW s \in Sessions, LocalReads(s) \/ TargetReads(s)
      PROVE  \/ Contract!DownDelivers(s) \/ Contract!DownEnds(s) \/ UNCHANGED Contract!vars
             \/ Contract!UpDelivers(s) \/ Contract!UpEnds(s)
  BY <1>5, ClientGets, TargetGets
<1>6. ASSUME UNCHANGED <<localVars, targetVars>> PROVE \E S \in SUBSET Sessions : Contract!Cuts(S)
  <2> DEFINE S == {s \in Sessions : cut'[s]}
  <2>1. /\ cut \in [Sessions -> BOOLEAN] /\ cut' \in [Sessions -> BOOLEAN]
        /\ \A s \in Sessions : cut[s] => cut'[s]
    BY CutKept DEF Typed, AllTypes, CutTypes
  <2>2. cut' = [s \in Sessions |-> cut[s] \/ s \in S]
    <3>1. \A s \in Sessions : cut'[s] = (cut[s] \/ s \in S)
      BY <2>1
    <3> QED
      BY <2>1, <3>1
  <2>3. Contract!Cuts(S)
    BY <1>6, <2>2 DEF localVars, targetVars, Contract!Cuts
  <2> QED
    BY <2>3
<1> QED
  BY <1>1, <1>2, <1>3, <1>4, <1>5, <1>6, LocalMoves, TargetMoves DEF Contract!Next

\* What a client and a target see of each other across the whole of the proxy,
\* its sockets, threads, buffers and connections, losses included, is what the
\* contract allows: two streams in order, without a gap or a repetition, whole at
\* an orderly end.
THEOREM ProxyKeepsItsContract == Spec => ImplementsStreams
<1>1. Init => Contract!Init
  <2> SUFFICES ASSUME Init PROVE Contract!Init
    OBVIOUS
  <2>1. kind \in [Sessions -> {"connect", "plain"}]
    BY SystemAssumption DEF Init
  <2>2. /\ lsent = Each(0) /\ tsent = Each(0) /\ tgot = Each(<<>>) /\ lgot = Each(<<>>)
        /\ lfin = Each(FALSE) /\ tfin = Each(FALSE) /\ cut = Each(FALSE)
        /\ teof = Each("none") /\ leof = Each("none")
    BY DEF Init
  <2> QED
    BY <2>1, <2>2 DEF Each, Contract!Init, Contract!Each
<1>2. Typed /\ (\A s \in Sessions : Downstream(s) /\ Upstream(s)) /\ [Next]_vars
      => [Contract!Next]_Contract!vars
  BY StepImplements
<1> QED
  BY <1>1, <1>2, SpecUpstream, PTL DEF Spec, ImplementsStreams, Contract!Spec

-----------------------------------------------------------------------------
(* What the contract comes to: a receiver has a prefix of what was sent, and an end *)
(* that looks whole is whole, for streams of any length.                            *)

LEMMA ContractInitially ==
  Contract!Init => Contract!TypeOK /\ Contract!PrefixesOnly /\ Contract!CleanEndsAreWhole
  BY DEF Contract!Init, Contract!TypeOK, Contract!PrefixesOnly, Contract!CleanEndsAreWhole,
         Contract!Prefix, Contract!Each

LEMMA ContractTypesKept == Contract!TypeOK /\ [Contract!Next]_Contract!vars => Contract!TypeOK'
<1> SUFFICES ASSUME Contract!TypeOK, [Contract!Next]_Contract!vars PROVE Contract!TypeOK'
  OBVIOUS
<1> USE DEF Contract!TypeOK
<1>1. ASSUME NEW s \in Sessions, Contract!ClientSends(s) \/ Contract!TargetSends(s)
      PROVE  Contract!TypeOK'
  <2>1. CASE Contract!ClientSends(s)
    BY <2>1 DEF Contract!ClientSends
  <2>2. CASE Contract!TargetSends(s)
    BY <2>2 DEF Contract!TargetSends
  <2> QED
    BY <1>1, <2>1, <2>2
<1>2. ASSUME NEW s \in Sessions, Contract!ClientFins(s) \/ Contract!TargetFins(s)
      PROVE  Contract!TypeOK'
  BY <1>2 DEF Contract!ClientFins, Contract!TargetFins
<1>3. ASSUME NEW s \in Sessions, Contract!UpDelivers(s) PROVE Contract!TypeOK'
  BY <1>3 DEF Contract!UpDelivers
<1>4. ASSUME NEW s \in Sessions, Contract!DownDelivers(s) PROVE Contract!TypeOK'
  BY <1>4 DEF Contract!DownDelivers
<1>5. ASSUME NEW s \in Sessions, Contract!UpEnds(s) PROVE Contract!TypeOK'
  BY <1>5 DEF Contract!UpEnds
<1>6. ASSUME NEW s \in Sessions, Contract!DownEnds(s) PROVE Contract!TypeOK'
  BY <1>6 DEF Contract!DownEnds
<1>7. ASSUME NEW S \in SUBSET Sessions, Contract!Cuts(S) PROVE Contract!TypeOK'
  BY <1>7 DEF Contract!Cuts
<1>8. CASE UNCHANGED Contract!vars
  BY <1>8 DEF Contract!vars
<1> QED
  BY <1>1, <1>2, <1>3, <1>4, <1>5, <1>6, <1>7, <1>8 DEF Contract!Next

\* A prefix stays one when the stream grows, or by its next piece.
LEMMA PrefixGrows ==
  ASSUME NEW got \in Seq(Nat), NEW sent \in Nat, Contract!Prefix(got, sent)
  PROVE  /\ Contract!Prefix(got, sent + 1)
         /\ Len(got) < sent => Contract!Prefix(Append(got, Len(got) + 1), sent)
  BY DEF Contract!Prefix

\* A new piece at the end repeats none.
LEMMA NewPieceOnce ==
  ASSUME NEW got \in Seq(Nat), NEW k \in Nat, k \notin {got[i] : i \in 1 .. Len(got)},
         \A i, j \in 1 .. Len(got) : got[i] = got[j] => i = j,
         NEW i \in 1 .. Len(Append(got, k)), NEW j \in 1 .. Len(Append(got, k)),
         Append(got, k)[i] = Append(got, k)[j]
  PROVE  i = j
<1>1. \A n \in 1 .. Len(got) : Append(got, k)[n] = got[n] /\ got[n] # k
  OBVIOUS
<1>2. Append(got, k)[Len(got) + 1] = k /\ Len(Append(got, k)) = Len(got) + 1
  OBVIOUS
<1> QED
  BY <1>1, <1>2

LEMMA ContractPrefixesKept ==
  Contract!TypeOK /\ Contract!PrefixesOnly /\ [Contract!Next]_Contract!vars
    => Contract!PrefixesOnly'
<1> SUFFICES ASSUME Contract!TypeOK, Contract!PrefixesOnly, [Contract!Next]_Contract!vars,
                    NEW r \in Sessions
             PROVE /\ kind'[r] = "connect" => Contract!Prefix(tgot'[r], lsent'[r])
                   /\ \A i, j \in 1 .. Len(tgot'[r]) : tgot'[r][i] = tgot'[r][j] => i = j
                   /\ Contract!Prefix(lgot'[r], tsent'[r])
  BY DEF Contract!PrefixesOnly
<1> DEFINE Goal == /\ kind'[r] = "connect" => Contract!Prefix(tgot'[r], lsent'[r])
                   /\ \A i, j \in 1 .. Len(tgot'[r]) : tgot'[r][i] = tgot'[r][j] => i = j
                   /\ Contract!Prefix(lgot'[r], tsent'[r])
<1> USE DEF Contract!TypeOK, Contract!PrefixesOnly
<1>1. ASSUME NEW s \in Sessions, Contract!ClientSends(s) PROVE Goal
  <2>1. kind[r] = "connect" => Contract!Prefix(tgot[r], lsent'[r])
    BY <1>1, PrefixGrows DEF Contract!ClientSends
  <2> QED
    BY <1>1, <2>1 DEF Contract!ClientSends
<1>2. ASSUME NEW s \in Sessions, Contract!TargetSends(s) PROVE Goal
  <2>1. Contract!Prefix(lgot[r], tsent'[r])
    BY <1>2, PrefixGrows DEF Contract!TargetSends
  <2> QED
    BY <1>2, <2>1 DEF Contract!TargetSends
<1>3. ASSUME NEW s \in Sessions, Contract!UpDelivers(s) PROVE Goal
  <2>1. PICK k \in 0 .. lsent[s] :
          /\ k \notin Contract!Got(tgot, s)
          /\ kind[s] = "connect" => k = Len(tgot[s]) + 1
          /\ tgot' = [tgot EXCEPT ![s] = Append(@, k)]
          /\ UNCHANGED <<kind, lsent, tsent, lgot>>
    BY <1>3 DEF Contract!UpDelivers
  <2>2. kind[s] = "connect" => Len(tgot[s]) < lsent[s]
    BY <2>1
  <2>3. kind[s] = "connect" => Contract!Prefix(tgot'[s], lsent[s])
    BY <2>1, <2>2, PrefixGrows
  <2>4. \A i, j \in 1 .. Len(tgot'[s]) : tgot'[s][i] = tgot'[s][j] => i = j
    <3>1. /\ tgot[s] \in Seq(Nat) /\ k \in Nat /\ tgot'[s] = Append(tgot[s], k)
          /\ k \notin {tgot[s][i] : i \in 1 .. Len(tgot[s])}
      BY <2>1 DEF Contract!Got
    <3>2. \A i, j \in 1 .. Len(tgot[s]) : tgot[s][i] = tgot[s][j] => i = j
      OBVIOUS
    <3> HIDE DEF Contract!TypeOK, Contract!PrefixesOnly
    <3> QED
      BY <3>1, <3>2, NewPieceOnce
  <2>5. CASE r = s
    BY <2>1, <2>3, <2>4, <2>5
  <2>6. CASE r # s
    BY <2>1, <2>6
  <2> QED
    BY <2>5, <2>6
<1>4. ASSUME NEW s \in Sessions, Contract!DownDelivers(s) PROVE Goal
  <2>1. Contract!Prefix(lgot'[r], tsent[r])
    BY <1>4, PrefixGrows DEF Contract!DownDelivers
  <2> QED
    BY <1>4, <2>1 DEF Contract!DownDelivers
<1>5. CASE UNCHANGED <<kind, lsent, tgot, tsent, lgot>>
  BY <1>5
<1> QED
  BY <1>1, <1>2, <1>3, <1>4, <1>5
     DEF Contract!Next, Contract!ClientFins, Contract!TargetFins, Contract!UpEnds,
         Contract!DownEnds, Contract!Cuts, Contract!vars

LEMMA ContractEndsKept ==
  /\ Contract!TypeOK /\ Contract!PrefixesOnly /\ Contract!CleanEndsAreWhole
  /\ [Contract!Next]_Contract!vars
  => Contract!CleanEndsAreWhole'
<1> SUFFICES ASSUME Contract!TypeOK, Contract!PrefixesOnly, Contract!CleanEndsAreWhole,
                    [Contract!Next]_Contract!vars
             PROVE Contract!CleanEndsAreWhole'
  OBVIOUS
<1> USE DEF Contract!TypeOK, Contract!CleanEndsAreWhole
<1>1. ASSUME NEW s \in Sessions, Contract!ClientSends(s) \/ Contract!TargetSends(s)
      PROVE  Contract!CleanEndsAreWhole'
  BY <1>1 DEF Contract!ClientSends, Contract!TargetSends
<1>2. ASSUME NEW s \in Sessions, Contract!ClientFins(s) \/ Contract!TargetFins(s)
      PROVE  Contract!CleanEndsAreWhole'
  <2>1. CASE Contract!ClientFins(s)
    BY <2>1 DEF Contract!ClientFins
  <2>2. CASE Contract!TargetFins(s)
    BY <2>2 DEF Contract!TargetFins
  <2> QED
    BY <1>2, <2>1, <2>2
<1>3. ASSUME NEW s \in Sessions, Contract!UpDelivers(s) PROVE Contract!CleanEndsAreWhole'
  BY <1>3 DEF Contract!UpDelivers
<1>4. ASSUME NEW s \in Sessions, Contract!DownDelivers(s) PROVE Contract!CleanEndsAreWhole'
  BY <1>4 DEF Contract!DownDelivers
<1>5. ASSUME NEW s \in Sessions, Contract!UpEnds(s) PROVE Contract!CleanEndsAreWhole'
  BY <1>5 DEF Contract!UpEnds
<1>6. ASSUME NEW s \in Sessions, Contract!DownEnds(s) PROVE Contract!CleanEndsAreWhole'
  BY <1>6 DEF Contract!DownEnds
<1>7. ASSUME NEW S \in SUBSET Sessions, Contract!Cuts(S) PROVE Contract!CleanEndsAreWhole'
  BY <1>7 DEF Contract!Cuts
<1>8. CASE UNCHANGED Contract!vars
  BY <1>8 DEF Contract!vars
<1> QED
  BY <1>1, <1>2, <1>3, <1>4, <1>5, <1>6, <1>7, <1>8 DEF Contract!Next

\* A receiver has a prefix of what its peer sent, in order and without repetition
\* (a plain request's pieces may change places).
THEOREM StreamsArePrefixes == Contract!Spec => []Contract!PrefixesOnly
<1>1. Contract!Init => Contract!TypeOK /\ Contract!PrefixesOnly
  BY ContractInitially
<1>2. Contract!TypeOK /\ Contract!PrefixesOnly /\ [Contract!Next]_Contract!vars
        => (Contract!TypeOK /\ Contract!PrefixesOnly)'
  BY ContractTypesKept, ContractPrefixesKept
<1> QED
  BY <1>1, <1>2, PTL DEF Contract!Spec

\* A reader that sees a clean end, and neither ended nor lost the session itself, has
\* received everything its peer sent.
THEOREM EndsAreTrue == Contract!Spec => []Contract!CleanEndsAreWhole
<1>1. Contract!Init => Contract!TypeOK /\ Contract!PrefixesOnly /\ Contract!CleanEndsAreWhole
  BY ContractInitially
<1>2. /\ Contract!TypeOK /\ Contract!PrefixesOnly /\ Contract!CleanEndsAreWhole
      /\ [Contract!Next]_Contract!vars
      => (Contract!TypeOK /\ Contract!PrefixesOnly /\ Contract!CleanEndsAreWhole)'
  BY ContractTypesKept, ContractPrefixesKept, ContractEndsKept
<1> QED
  BY <1>1, <1>2, PTL DEF Contract!Spec

\* Through the whole of the proxy either peer gets a prefix of what the other one
\* sends, and an end that looks whole is whole: what the contract promises.
THEOREM PeersSeeTheirStreams ==
  Spec => [](Contract!PrefixesOnly /\ Contract!CleanEndsAreWhole)
  BY ProxyKeepsItsContract, StreamsArePrefixes, EndsAreTrue, PTL DEF ImplementsStreams
=============================================================================
