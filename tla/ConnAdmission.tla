--------------------------- MODULE ConnAdmission ---------------------------
(***************************************************************************)
(* The server's front: the accept loop of main() and the thread it starts  *)
(* for each connection (src/src/server/main.cpp).  A thread reads the HTTP *)
(* head, compares the number of connections its peer's address already    *)
(* holds with maxSessionsPerIp, adds itself to that number, answers 101,   *)
(* serves the WebSocket until its read loop ends, stops the session        *)
(* manager and takes itself off the number.  The plaintext path            *)
(* (handleConnection) and the TLS path (the lambda in main) take the same  *)
(* steps; they differ in the handshake the accept loop performs itself and *)
(* in the head's timeout, which a TLS read does not honour.                *)
(*                                                                         *)
(* What a session manager does between start() and stop() is the subject   *)
(* of SessionManager; here stop() is one step that can only be held up by  *)
(* a worker that is inside a send its peer does not drain, and the read    *)
(* loop is held up where handleData writes to a target that does not read. *)
(* No write has a timeout, and closing a descriptor wakes nobody.          *)
(***************************************************************************)
EXTENDS Integers, FiniteSets

CONSTANTS
  Conns,      \* the TCP connections peers may open
  Ips,        \* the addresses they come from
  IpOf,       \* the address of each connection
  NoConn,     \* the accept loop holds no connection
  MaxPerIp    \* ServerConfig::maxSessionsPerIp

ASSUME FrontAssumption ==
  /\ IsFiniteSet(Conns)
  /\ NoConn \notin Conns
  /\ IpOf \in [Conns -> Ips]
  /\ MaxPerIp \in Int

VARIABLES
  tls,        \* useTls: a certificate and a key are configured, fixed at the start
  stopping,   \* g_stopping
  loop,       \* where main()'s accept loop is
  cur,        \* the connection the accept loop has in hand
  pc,         \* where each connection's thread is
  peerOpen,   \* whether the peer still holds its end
  slow,       \* whether a worker is inside a send the peer does not drain
  stuck,      \* whether the reader is inside a write a target does not drain
  count       \* g_perIpCount: an entry for each address that is counted

vars == <<tls, stopping, loop, cur, pc, peerOpen, slow, stuck, count>>

LoopAt == {"top", "accept", "got", "handshake", "exited"}
ThreadAt == {"away", "queued", "accepted", "head", "check", "inc", "reply",
             "live", "stop", "dec", "done"}

\* ipCount: an address without an entry counts zero.
ipCount(i) == IF i \in DOMAIN count THEN count[i] ELSE 0

\* main() returning ends the process and every detached thread with it.
Running == loop # "exited"

Init ==
  /\ tls \in BOOLEAN
  /\ stopping = FALSE
  /\ loop = "top"
  /\ cur = NoConn
  /\ pc = [c \in Conns |-> "away"]
  /\ peerOpen = [c \in Conns |-> FALSE]
  /\ slow = [c \in Conns |-> FALSE]
  /\ stuck = [c \in Conns |-> FALSE]
  /\ count = [i \in {} |-> 0]

Goto(c, at) == pc' = [pc EXCEPT ![c] = at]

-----------------------------------------------------------------------------
(* The peers and the operator. *)

Connect(c) ==
  /\ pc[c] = "away"
  /\ Goto(c, "queued")
  /\ peerOpen' = [peerOpen EXCEPT ![c] = TRUE]
  /\ UNCHANGED <<tls, stopping, loop, cur, slow, stuck, count>>

PeerLeaves(c) ==
  /\ peerOpen[c]
  /\ peerOpen' = [peerOpen EXCEPT ![c] = FALSE]
  /\ slow' = [slow EXCEPT ![c] = FALSE]
  /\ UNCHANGED <<tls, stopping, loop, cur, pc, stuck, count>>

\* A target's data meets a full socket buffer: the worker stays in send().
PeerStalls(c) ==
  /\ pc[c] = "live" /\ peerOpen[c] /\ ~slow[c]
  /\ slow' = [slow EXCEPT ![c] = TRUE]
  /\ UNCHANGED <<tls, stopping, loop, cur, pc, peerOpen, stuck, count>>

PeerDrains(c) ==
  /\ slow[c]
  /\ slow' = [slow EXCEPT ![c] = FALSE]
  /\ UNCHANGED <<tls, stopping, loop, cur, pc, peerOpen, stuck, count>>

\* handleData meets a target that does not read: writeAll stays in send(), as
\* long as that target likes, whether the peer is still there or not.
TargetStalls(c) ==
  /\ pc[c] = "live" /\ ~stuck[c]
  /\ stuck' = [stuck EXCEPT ![c] = TRUE]
  /\ UNCHANGED <<tls, stopping, loop, cur, pc, peerOpen, slow, count>>

TargetDrains(c) ==
  /\ stuck[c]
  /\ stuck' = [stuck EXCEPT ![c] = FALSE]
  /\ UNCHANGED <<tls, stopping, loop, cur, pc, peerOpen, slow, count>>

\* onSignal
onSignal ==
  /\ ~stopping
  /\ stopping' = TRUE
  /\ UNCHANGED <<tls, loop, cur, pc, peerOpen, slow, stuck, count>>

-----------------------------------------------------------------------------
(* main(): the accept loop. *)

LoopTop ==
  /\ loop = "top"
  /\ loop' = IF stopping THEN "exited" ELSE "accept"
  /\ UNCHANGED <<tls, stopping, cur, pc, peerOpen, slow, stuck, count>>

\* acceptConn(500) comes back empty.
AcceptNone ==
  /\ loop = "accept"
  /\ loop' = "top"
  /\ UNCHANGED <<tls, stopping, cur, pc, peerOpen, slow, stuck, count>>

AcceptOne(c) ==
  /\ loop = "accept"
  /\ pc[c] = "queued"
  /\ loop' = "got"
  /\ cur' = c
  /\ Goto(c, "accepted")
  /\ UNCHANGED <<tls, stopping, peerOpen, slow, stuck, count>>

\* The loop looks at g_stopping again before it hands the connection on.
Discard ==
  /\ loop = "got" /\ stopping
  /\ loop' = "exited"
  /\ Goto(cur, "done")
  /\ cur' = NoConn
  /\ UNCHANGED <<tls, stopping, peerOpen, slow, stuck, count>>

Spawn ==
  /\ Goto(cur, "head")
  /\ loop' = "top"
  /\ cur' = NoConn
  /\ UNCHANGED <<tls, stopping, peerOpen, slow, stuck, count>>

SpawnPlain ==
  /\ loop = "got" /\ ~stopping /\ ~tls
  /\ Spawn

\* TlsStream::serverHandshake runs in the accept loop's own thread.
HandshakeStarts ==
  /\ loop = "got" /\ ~stopping /\ tls
  /\ loop' = "handshake"
  /\ UNCHANGED <<tls, stopping, cur, pc, peerOpen, slow, stuck, count>>

HandshakeDone ==
  /\ loop = "handshake" /\ peerOpen[cur]
  /\ Spawn

HandshakeFails ==
  /\ loop = "handshake"
  /\ Goto(cur, "done")
  /\ loop' = "top"
  /\ cur' = NoConn
  /\ UNCHANGED <<tls, stopping, peerOpen, slow, stuck, count>>

-----------------------------------------------------------------------------
(* handleConnection, and the TLS lambda: one thread per connection. *)

At(c, here) == Running /\ pc[c] = here

HeadGood(c) ==
  /\ At(c, "head") /\ peerOpen[c]
  /\ Goto(c, "check")
  /\ UNCHANGED <<tls, stopping, loop, cur, peerOpen, slow, stuck, count>>

\* No head in time, a malformed one, or one that asks for no upgrade of "/".
HeadBad(c) ==
  /\ At(c, "head")
  /\ Goto(c, "done")
  /\ UNCHANGED <<tls, stopping, loop, cur, peerOpen, slow, stuck, count>>

\* The comparison takes g_ipMutex and gives it back before incIp takes it.
Admit(c) ==
  /\ At(c, "check")
  /\ ipCount(IpOf[c]) < MaxPerIp
  /\ Goto(c, "inc")
  /\ UNCHANGED <<tls, stopping, loop, cur, peerOpen, slow, stuck, count>>

(* mutant: the comparison is off by one *)
RefuseOneEarly(c) ==
  /\ At(c, "check")
  /\ ipCount(IpOf[c]) >= MaxPerIp - 1
  /\ Goto(c, "done")
  /\ UNCHANGED <<tls, stopping, loop, cur, peerOpen, slow, stuck, count>>

Refuse(c) ==
  /\ At(c, "check")
  /\ ipCount(IpOf[c]) >= MaxPerIp
  /\ Goto(c, "done")
  /\ UNCHANGED <<tls, stopping, loop, cur, peerOpen, slow, stuck, count>>

incIp(c) ==
  /\ At(c, "inc")
  /\ count' = [i \in DOMAIN count \cup {IpOf[c]} |->
                 IF i = IpOf[c] THEN ipCount(i) + 1 ELSE count[i]]
  /\ Goto(c, "reply")
  /\ UNCHANGED <<tls, stopping, loop, cur, peerOpen, slow, stuck>>

\* 101 is written, the manager started and the handlers installed.
Upgraded(c) ==
  /\ At(c, "reply")
  /\ Goto(c, "live")
  /\ UNCHANGED <<tls, stopping, loop, cur, peerOpen, slow, stuck, count>>

(* mutant: the early return of a failed 101 forgets decIp *)
UpgradeFailsKeepsSlot(c) ==
  /\ At(c, "reply") /\ ~peerOpen[c]
  /\ Goto(c, "done")
  /\ UNCHANGED <<tls, stopping, loop, cur, peerOpen, slow, stuck, count>>

UpgradeFails(c) ==
  /\ At(c, "reply") /\ ~peerOpen[c]
  /\ Goto(c, "dec")
  /\ UNCHANGED <<tls, stopping, loop, cur, peerOpen, slow, stuck, count>>

\* runReadLoop ends: the peer is gone, or it sent a close or an oversized
\* frame, and the handler of the frame before has returned.  failConnection
\* closes the stream and calls onClose.
ReadLoopEnds(c) ==
  /\ At(c, "live") /\ ~stuck[c]
  /\ Goto(c, "stop")
  /\ UNCHANGED <<tls, stopping, loop, cur, peerOpen, slow, stuck, count>>

(* mutant: stop() waits for a worker that waits for the peer *)
ManagerStopsIfPeerTalks(c) ==
  /\ At(c, "stop") /\ ~slow[c] /\ peerOpen[c]
  /\ Goto(c, "dec")
  /\ UNCHANGED <<tls, stopping, loop, cur, peerOpen, slow, stuck, count>>

\* onClose: manager->stop() joins the workers first.
ManagerStops(c) ==
  /\ At(c, "stop") /\ ~slow[c]
  /\ Goto(c, "dec")
  /\ UNCHANGED <<tls, stopping, loop, cur, peerOpen, slow, stuck, count>>

(* mutant: the entry stays when it reaches zero *)
decIpKeepsEntry(c) ==
  /\ At(c, "dec")
  /\ count' = [count EXCEPT ![IpOf[c]] = @ - 1]
  /\ Goto(c, "done")
  /\ UNCHANGED <<tls, stopping, loop, cur, peerOpen, slow, stuck>>

\* decIp: an entry that reaches zero is erased.
decIp(c) ==
  LET i == IpOf[c]
      left == IF ipCount(i) <= 1 THEN DOMAIN count \ {i} ELSE DOMAIN count
  IN /\ At(c, "dec")
     /\ count' = [j \in left |-> IF j = i THEN count[j] - 1 ELSE count[j]]
     /\ Goto(c, "done")
     /\ UNCHANGED <<tls, stopping, loop, cur, peerOpen, slow, stuck>>

-----------------------------------------------------------------------------
AcceptLoop ==
  \/ LoopTop \/ AcceptNone \/ Discard
  \/ SpawnPlain \/ HandshakeStarts \/ HandshakeDone \/ HandshakeFails
  \/ \E c \in Conns : AcceptOne(c)

Thread(c) ==
  \/ HeadGood(c) \/ HeadBad(c)
  \/ Admit(c) \/ Refuse(c) \/ incIp(c)
  \/ Upgraded(c) \/ UpgradeFails(c)
  \/ ReadLoopEnds(c) \/ ManagerStops(c) \/ decIp(c)

Peer(c) ==
  \/ Connect(c) \/ PeerLeaves(c) \/ PeerStalls(c) \/ PeerDrains(c)
  \/ TargetStalls(c) \/ TargetDrains(c)

Next == onSignal \/ AcceptLoop \/ \E c \in Conns : Thread(c) \/ Peer(c)

Spec == Init /\ [][Next]_vars

(***************************************************************************)
(* Fairness.  The accept loop runs unless it is inside a handshake, which  *)
(* has no timeout: it comes back for certain only once the peer is gone.   *)
(* A thread runs wherever it does not wait for its peer: a plain head read *)
(* gives up after 20 s, a TLS one only when the peer is gone.  A read loop *)
(* ends for certain only when the peer is gone and no target holds the     *)
(* reader for ever: what the peer left behind to be read is finite, so     *)
(* that a reader that is let go each time comes to its end (hence SF).     *)
(***************************************************************************)
LoopOnItsOwn ==
  \/ LoopTop \/ AcceptNone \/ Discard \/ SpawnPlain \/ HandshakeStarts
  \/ HandshakeFails /\ ~peerOpen[cur]

HeadGivesUp(c) == HeadBad(c) /\ (tls => ~peerOpen[c])

ThreadOnItsOwn(c) ==
  \/ HeadGivesUp(c)
  \/ Admit(c) \/ Refuse(c) \/ incIp(c)
  \/ Upgraded(c) \/ UpgradeFails(c)
  \/ ManagerStops(c) \/ decIp(c)

NothingLeftToRead(c) == ReadLoopEnds(c) /\ ~peerOpen[c]

FairSpec ==
  /\ Spec
  /\ WF_vars(LoopOnItsOwn)
  /\ \A c \in Conns : WF_vars(ThreadOnItsOwn(c)) /\ SF_vars(NothingLeftToRead(c))

-----------------------------------------------------------------------------
(* Properties. *)

\* The state has its type; an entry of g_perIpCount is never zero or below.
TypeOK ==
  /\ tls \in BOOLEAN
  /\ stopping \in BOOLEAN
  /\ loop \in LoopAt
  /\ cur \in Conns \cup {NoConn}
  /\ (loop \in {"got", "handshake"}) => cur \in Conns
  /\ pc \in [Conns -> ThreadAt]
  /\ peerOpen \in [Conns -> BOOLEAN]
  /\ slow \in [Conns -> BOOLEAN] /\ stuck \in [Conns -> BOOLEAN]
  /\ DOMAIN count \subseteq Ips
  /\ count \in [DOMAIN count -> Nat \ {0}]

\* The connections of address i between their incIp and their decIp.
Counted == {"reply", "live", "stop", "dec"}
Holding(i) == {c \in Conns : IpOf[c] = i /\ pc[c] \in Counted}

\* The counter is exact: whatever the order in which threads are admitted, fail
\* to upgrade and end, g_perIpCount says of every address how many connections
\* it holds, and has no entry for one that holds none (incIp, decIp).
CountExact == \A i \in Ips : ipCount(i) = Cardinality(Holding(i))

\* Nobody is refused early: a thread that turns its peer away for the limit does
\* so when maxSessionsPerIp connections of that address really are held.
RefusedOnlyWhenFull ==
  [][\A c \in Conns : Refuse(c) => Cardinality(Holding(IpOf[c])) >= MaxPerIp]_vars

\* The slot comes back: a connection whose peer is gone is off the count in the
\* end (or the process is), whatever its thread and its workers were doing when
\* the peer left, unless its reader stays for ever in a write to a target.
SlotReturned ==
  \A c \in Conns :
    (pc[c] # "away" /\ ~peerOpen[c])
      ~> (c \notin Holding(IpOf[c]) \/ ~Running \/ []stuck[c])

\* A signal ends the process, provided no peer keeps the accept loop in a TLS
\* handshake for ever.
StopEnds == []<>(loop # "handshake") => (stopping ~> ~Running)

\* docs/protocol.md:169: more than maxSessionsPerIp of one address are not
\* served.  The check and incIp are two critical sections of g_ipMutex.
PerIpLimit ==
  \A i \in Ips :
    Cardinality({c \in Holding(i) : pc[c] = "live"}) <= MaxPerIp

\* What is waited for comes: slots are given back and a signal ends the process
\* (serveConnection, acceptLoop).
AdmissionEnds == SlotReturned /\ StopEnds
=============================================================================
