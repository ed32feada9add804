----------------------------- MODULE WebSocket -----------------------------
(***************************************************************************)
(* The two WebSockets of one WSS connection, the client's and the server's *)
(* (src/src/common/websocket.cpp), from the moment both are Open until     *)
(* both read loops have ended.  Each end has a thread in runReadLoop and   *)
(* any number of threads in sendBinary or sendText; the client also has    *)
(* the heartbeat thread (sendPing) and the thread that calls close() and   *)
(* terminate() (src/src/client/tunnel.cpp:81-83, 171-181).                 *)
(*                                                                         *)
(* A frame is one write under writeMutex_, so a frame is the unit of the   *)
(* wire; headers, masks and lengths are left out.  A payload is the        *)
(* sequence of the pieces it carries, a piece being <<writer, message,     *)
(* fragment>>.  A wire holds at most Room frames: a write waits for room   *)
(* with writeMutex_ held, as a blocking send does.                         *)
(*                                                                         *)
(* close() on a descriptor another thread is using inside recv or send     *)
(* neither wakes that thread nor tells the peer: the socket goes when the  *)
(* last such call returns.  Shut says so.                                  *)
(***************************************************************************)
EXTENDS Integers, Sequences, SequencesExt, FiniteSets

CONSTANTS
  Writers,    \* the threads that send data: a set of <<name, end>>
  Frames,     \* for each writer, into how many frames each of its messages goes
  Room,       \* how many frames fit between the two ends (bound)
  MaxPings,   \* how many pings the heartbeat thread sends (bound)
  NoThread    \* nobody holds writeMutex_

Ends == {"client", "server"}
Peer(e) == IF e = "client" THEN "server" ELSE "client"
EndOf(t) == t[2]
Reader(e) == <<"reader", e>>
Closer == <<"closer", "client">>
Pinger == <<"pinger", "client">>
Threads == {Reader(e) : e \in Ends} \cup {Closer, Pinger} \cup Writers

\* writeMutex_ covers one frame, not one message: fragments of two messages
\* of one end would mix.  The program's callers send at most the 64 KiB of a read,
\* which is one frame; sendBinary cuts longer messages (kWsSendChunk), and one writer
\* of each end may send such ones here.
ASSUME WsAssumption ==
  /\ \A w \in Writers : w[1] \notin {"reader", "closer", "pinger"} /\ w[2] \in Ends
  /\ \A w \in Writers : Frames[w] \in Seq(Nat \ {0})
  /\ \A v, w \in Writers :
       /\ v # w /\ EndOf(v) = EndOf(w)
       => \/ \A m \in DOMAIN Frames[v] : Frames[v][m] = 1
          \/ \A m \in DOMAIN Frames[w] : Frames[w][m] = 1
  /\ Room \in Nat \ {0}
  /\ MaxPings \in Nat
  /\ NoThread \notin Threads

VARIABLES
  state,      \* state_ of each end
  fd,         \* whether the end still holds its descriptor
  wire,       \* the frames an end has written and its peer has not read
  lock,       \* who holds the end's writeMutex_
  frag,       \* fragBuf_; empty stands for fragOpcode_ = 0
  emitted,    \* closeEmitted_
  pc,         \* where each thread is
  out,        \* the frame a thread is about to write
  pos,        \* the <<message, fragment>> a writer sends next
  ok,         \* how many messages of a writer sendBinary has returned true for
  delivered,  \* the payloads the handlers of an end have been called with
  told,       \* how often closeHandler_ of an end has been called
  pings,      \* how many pings have been sent
  cut         \* whether the network between the two has failed

vars == <<state, fd, wire, lock, frag, emitted, pc, out, pos, ok, delivered, told,
          pings, cut>>

Frame(op, fin, body) == [op |-> op, fin |-> fin, body |-> body]
NoFrame == Frame("none", TRUE, <<>>)

Init ==
  /\ state = [e \in Ends |-> "Open"]
  /\ fd = [e \in Ends |-> TRUE]
  /\ wire = [e \in Ends |-> <<>>]
  /\ lock = [e \in Ends |-> NoThread]
  /\ frag = [e \in Ends |-> <<>>]
  /\ emitted = [e \in Ends |-> FALSE]
  /\ pc = [t \in Threads |-> IF \E e \in Ends : t = Reader(e) THEN "top" ELSE "idle"]
  /\ out = [t \in Threads |-> NoFrame]
  /\ pos = [w \in Writers |-> <<1, 1>>]
  /\ ok = [w \in Writers |-> 0]
  /\ delivered = [e \in Ends |-> <<>>]
  /\ told = [e \in Ends |-> 0]
  /\ pings = 0
  /\ cut = FALSE

\* The kernel has released the socket: closed, and nobody inside a call on it.
Shut(e) == ~fd[e] /\ lock[e] = NoThread /\ pc[Reader(e)] # "recv"

Go(t, l) == pc' = [pc EXCEPT ![t] = l]

(* --------------------------- writing a frame --------------------------- *)

\* sendFrame from the point where the frame is built.
Write(t, f) == Go(t, "lock") /\ out' = [out EXCEPT ![t] = f]

\* What a thread does when sendFrame returns r.  sendBinary goes on to the next
\* fragment only after a fragment that was written.
Returned(t, r) ==
  /\ out' = [out EXCEPT ![t] = NoFrame]
  /\ \/ /\ t \in Writers
        /\ LET m == pos[t][1]
               more == r /\ pos[t][2] < Frames[t][m]
           IN /\ pos' = [pos EXCEPT ![t] = IF more THEN <<m, @[2] + 1>> ELSE <<m + 1, 1>>]
              /\ ok' = [ok EXCEPT ![t] = IF r /\ ~more THEN m ELSE @]
        /\ Go(t, "idle")
     \/ /\ t = Pinger
        /\ Go(t, "idle")
        /\ UNCHANGED <<pos, ok>>
     \/ /\ t = Closer
        /\ Go(t, "terminate")
        /\ UNCHANGED <<pos, ok>>
     \/ /\ \E e \in Ends : t = Reader(e)
        /\ Go(t, IF out[t].op = "close" THEN "ending" ELSE "top")
        /\ UNCHANGED <<pos, ok>>

(* mutant: a frame is written without writeMutex_ *)
LockNothing(t) ==
  LET e == EndOf(t) IN
  /\ pc[t] = "lock"
  /\ \/ /\ fd[e]
        /\ lock' = [lock EXCEPT ![e] = t]
        /\ Go(t, "send")
        /\ UNCHANGED <<out, pos, ok>>
     \/ /\ ~fd[e]
        /\ Returned(t, FALSE)
        /\ UNCHANGED lock
  /\ UNCHANGED <<state, fd, wire, frag, emitted, delivered, told, pings, cut>>

\* writeRaw takes writeMutex_; writeAll returns false at once on a closed
\* descriptor and otherwise enters send.
Lock(t) ==
  LET e == EndOf(t) IN
  /\ pc[t] = "lock"
  /\ lock[e] = NoThread
  /\ \/ /\ fd[e]
        /\ lock' = [lock EXCEPT ![e] = t]
        /\ Go(t, "send")
        /\ UNCHANGED <<out, pos, ok>>
     \/ /\ ~fd[e]
        /\ Returned(t, FALSE)
        /\ UNCHANGED lock
  /\ UNCHANGED <<state, fd, wire, frag, emitted, delivered, told, pings, cut>>

\* send puts the frame on the wire when there is room, or fails once the peer
\* or the network is gone; a frame may still be accepted for a peer that is.
Send(t) ==
  LET e == EndOf(t) IN
  /\ pc[t] = "send"
  /\ lock' = [lock EXCEPT ![e] = NoThread]
  /\ \/ /\ Len(wire[e]) < Room
        /\ ~cut
        /\ wire' = [wire EXCEPT ![e] = Append(@, out[t])]
        /\ Returned(t, TRUE)
     \/ /\ cut \/ Shut(Peer(e))
        /\ Returned(t, FALSE)
        /\ UNCHANGED wire
  /\ UNCHANGED <<state, fd, frag, emitted, delivered, told, pings, cut>>

(* ----------------------------- the senders ----------------------------- *)

\* sendBinary and sendText, one frame: only while Open.  The state is looked
\* at without writeMutex_, before the frame is written.
FragmentOf(w) ==
  LET m == pos[w][1]
      i == pos[w][2]
  IN Frame(IF i = 1 THEN "data" ELSE "continuation", i = Frames[w][m], <<<<w, m, i>>>>)

SendFragment(w) ==
  /\ pc[w] = "idle"
  /\ pos[w][1] <= Len(Frames[w])
  /\ \/ /\ state[EndOf(w)] = "Open"
        /\ Write(w, FragmentOf(w))
        /\ UNCHANGED pos
     \/ /\ state[EndOf(w)] # "Open"
        /\ pos' = [pos EXCEPT ![w] = <<@[1] + 1, 1>>]
        /\ UNCHANGED <<pc, out>>
  /\ UNCHANGED <<state, fd, wire, lock, frag, emitted, ok, delivered, told, pings, cut>>

\* The heartbeat thread: looks at the state, then sendPing, which as a control
\* frame is written in any state.
sendPing ==
  /\ pc[Pinger] = "idle"
  /\ pings < MaxPings
  /\ state["client"] = "Open"
  /\ pings' = pings + 1
  /\ Write(Pinger, Frame("ping", TRUE, <<>>))
  /\ UNCHANGED <<state, fd, wire, lock, frag, emitted, pos, ok, delivered, told, cut>>

(* ------------------------- close and terminate ------------------------- *)

\* close(): Open becomes Closing; a close frame is written unless it is Closed.
close ==
  /\ pc[Closer] = "idle"
  /\ \/ /\ state["client"] = "Closed"
        /\ Go(Closer, "terminate")
        /\ UNCHANGED <<state, out>>
     \/ /\ state["client"] # "Closed"
        /\ state' = [state EXCEPT !["client"] = "Closing"]
        /\ Write(Closer, Frame("close", TRUE, <<>>))
  /\ UNCHANGED <<fd, wire, lock, frag, emitted, pos, ok, delivered, told, pings, cut>>

\* terminate(): Closed, then the descriptor, then emitClose.
terminate ==
  /\ pc[Closer] = "terminate"
  /\ state' = [state EXCEPT !["client"] = "Closed"]
  /\ Go(Closer, "closeStream")
  /\ UNCHANGED <<fd, wire, lock, frag, emitted, out, pos, ok, delivered, told, pings, cut>>

\* stream_->close(), in terminate and in failConnection.
CloseStream(t) ==
  /\ pc[t] = "closeStream"
  /\ fd' = [fd EXCEPT ![EndOf(t)] = FALSE]
  /\ Go(t, "emit")
  /\ UNCHANGED <<state, wire, lock, frag, emitted, out, pos, ok, delivered, told, pings, cut>>

\* emitClose tests closeEmitted_, a plain bool, and sets it in another step.
EmitTest(t) ==
  /\ pc[t] = "emit"
  /\ Go(t, IF emitted[EndOf(t)] THEN "done" ELSE "emitSet")
  /\ UNCHANGED <<state, fd, wire, lock, frag, emitted, out, pos, ok, delivered, told, pings,
                 cut>>

EmitSet(t) ==
  /\ pc[t] = "emitSet"
  /\ emitted' = [emitted EXCEPT ![EndOf(t)] = TRUE]
  /\ told' = [told EXCEPT ![EndOf(t)] = @ + 1]
  /\ Go(t, "done")
  /\ UNCHANGED <<state, fd, wire, lock, frag, out, pos, ok, delivered, pings, cut>>

(* ---------------------------- the read loop ---------------------------- *)

\* The loop's condition; a read on a closed descriptor fails at once.
LoopTop(e) ==
  /\ pc[Reader(e)] = "top"
  /\ Go(Reader(e), IF state[e] = "Closed" \/ ~fd[e] THEN "ending" ELSE "recv")
  /\ UNCHANGED <<state, fd, wire, lock, frag, emitted, out, pos, ok, delivered, told, pings,
                 cut>>

\* readFull fails: the network is gone, the peer's socket is gone and either
\* everything has been read or a reset has thrown it away.
ReadFails(e) ==
  /\ pc[Reader(e)] = "recv"
  /\ cut \/ Shut(Peer(e))
  /\ Go(Reader(e), "ending")
  /\ UNCHANGED <<state, fd, wire, lock, frag, emitted, out, pos, ok, delivered, told, pings,
                 cut>>

\* A frame arrives whole at the reader of e.
Arrives(e, op) ==
  /\ pc[Reader(e)] = "recv"
  /\ wire[Peer(e)] # <<>>
  /\ Head(wire[Peer(e)]).op = op
  /\ wire' = [wire EXCEPT ![Peer(e)] = Tail(@)]

\* dispatchFrame: a first fragment replaces what was kept, a continuation adds to
\* it, the last one hands it over; an unfragmented message leaves it alone.
Keep(e, s) == frag' = [frag EXCEPT ![e] = s]
Deliver(e, s) == delivered' = [delivered EXCEPT ![e] = Append(@, s)]

(* mutant: an unfragmented message is taken for the end of a fragmented one *)
dispatchDataJoins(e, f) ==
  \/ f.fin /\ Deliver(e, frag[e] \o f.body) /\ Keep(e, <<>>)
  \/ ~f.fin /\ Keep(e, f.body) /\ UNCHANGED delivered

dispatchData(e, f) ==
  \/ f.fin /\ Deliver(e, f.body) /\ UNCHANGED frag
  \/ ~f.fin /\ Keep(e, f.body) /\ UNCHANGED delivered

dispatchContinuation(e, f) ==
  \/ frag[e] = <<>> /\ UNCHANGED <<frag, delivered>>
  \/ frag[e] # <<>> /\ ~f.fin /\ Keep(e, frag[e] \o f.body) /\ UNCHANGED delivered
  \/ frag[e] # <<>> /\ f.fin /\ Keep(e, <<>>) /\ Deliver(e, frag[e] \o f.body)

ReadData(e) ==
  /\ Arrives(e, "data")
  /\ dispatchData(e, Head(wire[Peer(e)]))
  /\ Go(Reader(e), "top")
  /\ UNCHANGED <<state, fd, lock, emitted, out, pos, ok, told, pings, cut>>

ReadContinuation(e) ==
  /\ Arrives(e, "continuation")
  /\ dispatchContinuation(e, Head(wire[Peer(e)]))
  /\ Go(Reader(e), "top")
  /\ UNCHANGED <<state, fd, lock, emitted, out, pos, ok, told, pings, cut>>

\* handleControl.  The reader answers a ping itself, writing as anyone else.
ReadPing(e) ==
  /\ Arrives(e, "ping")
  /\ Write(Reader(e), Frame("pong", TRUE, <<>>))
  /\ UNCHANGED <<state, fd, lock, frag, emitted, pos, ok, delivered, told, pings, cut>>

ReadPong(e) ==
  /\ Arrives(e, "pong")
  /\ Go(Reader(e), "top")
  /\ UNCHANGED <<state, fd, lock, frag, emitted, out, pos, ok, delivered, told, pings, cut>>

(* mutant: a close frame is passed over *)
ReadCloseIgnored(e) ==
  /\ Arrives(e, "close")
  /\ Go(Reader(e), "top")
  /\ UNCHANGED <<state, fd, lock, frag, emitted, out, pos, ok, delivered, told, pings, cut>>

(* mutant: the state goes to Closed at once, which failConnection then finds *)
ReadCloseClosed(e) ==
  /\ Arrives(e, "close")
  /\ state' = [state EXCEPT ![e] = "Closed"]
  /\ Go(Reader(e), "ending")
  /\ UNCHANGED <<fd, lock, frag, emitted, out, pos, ok, delivered, told, pings, cut>>

\* A close frame is answered while Open, and ends the loop in any case.
ReadClose(e) ==
  /\ Arrives(e, "close")
  /\ \/ /\ state[e] = "Open"
        /\ state' = [state EXCEPT ![e] = "Closing"]
        /\ Write(Reader(e), Frame("close", TRUE, <<>>))
     \/ /\ state[e] # "Open"
        /\ Go(Reader(e), "ending")
        /\ UNCHANGED <<state, out>>
  /\ UNCHANGED <<fd, lock, frag, emitted, pos, ok, delivered, told, pings, cut>>

\* After the loop: failConnection, whose exchange decides who closes the stream
\* and tells.  The test before it is the same as the exchange finding Closed.
LoopEnds(e) ==
  /\ pc[Reader(e)] = "ending"
  /\ state' = [state EXCEPT ![e] = "Closed"]
  /\ Go(Reader(e), IF state[e] = "Closed" THEN "done" ELSE "closeStream")
  /\ UNCHANGED <<fd, wire, lock, frag, emitted, out, pos, ok, delivered, told, pings, cut>>

\* The network fails for good.
Cut ==
  /\ ~cut
  /\ cut' = TRUE
  /\ UNCHANGED <<state, fd, wire, lock, frag, emitted, pc, out, pos, ok, delivered, told,
                 pings>>

ReadStep(e) ==
  \/ LoopTop(e) \/ ReadFails(e)
  \/ ReadData(e) \/ ReadContinuation(e)
  \/ ReadPing(e) \/ ReadPong(e) \/ ReadClose(e)
  \/ LoopEnds(e)

WriteStep(t) == Lock(t) \/ Send(t)

EndStep(t) == CloseStream(t) \/ EmitTest(t) \/ EmitSet(t)

Next ==
  \/ \E e \in Ends : ReadStep(e)
  \/ \E t \in Threads : WriteStep(t)
  \/ \E t \in {Reader("client"), Reader("server"), Closer} : EndStep(t)
  \/ \E w \in Writers : SendFragment(w)
  \/ sendPing
  \/ close
  \/ terminate
  \/ Cut

Spec == Init /\ [][Next]_vars

\* Every thread that can go on does; writes are finite in number, so that this is
\* also enough for a thread waiting for writeMutex_.  Nobody must call close(), the
\* heartbeat need not come, and the network need not fail.
ThreadStep(t) ==
  \/ WriteStep(t)
  \/ EndStep(t)
  \/ \E e \in Ends : t = Reader(e) /\ ReadStep(e)
  \/ t \in Writers /\ SendFragment(t)
  \/ t = Closer /\ terminate

FairSpec == Spec /\ \A t \in Threads : WF_vars(ThreadStep(t))

(* ------------------------------ properties ----------------------------- *)

FrameType == [op : {"none", "data", "continuation", "ping", "pong", "close"},
              fin : BOOLEAN, body : Seq(Writers \X Nat \X Nat)]

\* The state keeps its types; a wire never holds more than it has room for, and
\* writeMutex_ is held by a thread of its own end that is inside send.
TypeOK ==
  /\ state \in [Ends -> {"Open", "Closing", "Closed"}]
  /\ fd \in [Ends -> BOOLEAN]
  /\ wire \in [Ends -> Seq(FrameType)] /\ \A e \in Ends : Len(wire[e]) <= Room
  /\ frag \in [Ends -> Seq(Writers \X Nat \X Nat)]
  /\ emitted \in [Ends -> BOOLEAN]
  /\ pc \in [Threads -> {"idle", "lock", "send", "terminate", "closeStream", "emit",
                         "emitSet", "top", "recv", "ending", "done"}]
  /\ out \in [Threads -> FrameType]
  /\ pos \in [Writers -> Nat \X Nat]
  /\ ok \in [Writers -> Nat]
  /\ told \in [Ends -> 0 .. 2]
  /\ pings \in 0 .. MaxPings
  /\ cut \in BOOLEAN
  /\ lock \in [Ends -> Threads \cup {NoThread}]
  /\ \A t \in Threads : pc[t] = "send" <=> lock[EndOf(t)] = t

\* A message as its handler gets it, and whether the peer's handler has got it.
Message(w, m) == [i \in 1 .. Frames[w][m] |-> <<w, m, i>>]
Arrived(w, m) == \E a \in DOMAIN delivered[Peer(EndOf(w))] :
                   delivered[Peer(EndOf(w))][a] = Message(w, m)

\* Each handler is called with whole messages only, each once and in the order of
\* its writer, whatever frames of other threads come between the fragments
\* (runReadLoop, dispatchFrame, sendBinary).
WholeInOrder ==
  \A e \in Ends : \A a \in DOMAIN delivered[e] :
    \E w \in Writers : \E m \in DOMAIN Frames[w] :
      /\ EndOf(w) = Peer(e) /\ delivered[e][a] = Message(w, m)
      /\ \A k \in 1 .. m :
           k < m <=> \E b \in 1 .. a - 1 : delivered[e][b] = Message(w, k)

\* Once the read loop of an end and whoever was to report the end are through,
\* closeHandler_ has been called: on the server exactly once, on the client, where
\* two threads may find closeEmitted_ unset, at least once (failConnection,
\* terminate, emitClose).
EndIsTold ==
  /\ pc[Reader("server")] = "done" => told["server"] = 1
  /\ pc[Reader("client")] = "done" /\ pc[Closer] \in {"idle", "done"} => told["client"] >= 1

\* Both wires are full and at each end a thread is inside send: nobody reads, since
\* the client's read loop is over and the server's reader is itself the one that
\* writes (a pong, or the answer to a close).
Jammed ==
  \A e \in Ends : Len(wire[e]) = Room /\ lock[e] # NoThread

\* After close() and terminate() both read loops end, although terminate's close of
\* the descriptor does not wake a reader inside recv: the peer's answer does.  A jam
\* is the only thing that can prevent it (close, terminate, handleControl).
CloseEndsBoth ==
  \/ pc[Closer] # "idle" ~> \A e \in Ends : pc[Reader(e)] = "done"
  \/ <>[]Jammed

\* A message that sendBinary has returned true for reaches the peer's handler, unless
\* the connection is being closed or has failed (sendBinary, dispatchFrame).
AcceptedIsDelivered ==
  \A w \in Writers : \A m \in DOMAIN Frames[w] :
    ok[w] = m ~> \/ Arrived(w, m)
                 \/ cut
                 \/ \E e \in Ends : state[e] # "Open"

\* terminate() disconnects at once (src/src/common/websocket.hpp:70): when it has
\* returned, the socket goes.
TerminateDisconnects == pc[Closer] = "done" ~> Shut("client")

\* The connection does what it was asked to: a close ends both readers and an
\* accepted message reaches the peer (close, sendBinary, dispatchFrame).
AskedIsDone == CloseEndsBoth /\ AcceptedIsDelivered
=============================================================================
