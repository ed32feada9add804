-------------------------- MODULE SessionContract --------------------------
(***************************************************************************)
(* What one WSS connection promises about its sessions, without the        *)
(* threads: when a session may be admitted and retired, when its target    *)
(* socket is open, and which frames the client may see about it.  The      *)
(* SessionManager implements it.                                           *)
(***************************************************************************)
EXTENDS Integers, Sequences, FiniteSets

CONSTANTS Ids,         \* sessionIds
          MaxSessions  \* limit of simultaneous sessions

VARIABLES live,    \* the sessions of the connection
          ever,    \* every session admitted so far
          target,  \* state of the target socket of each session
          told     \* frames the client was sent about each session, in order

vars == <<live, ever, target, told>>

Init ==
  /\ live = {} /\ ever = {}
  /\ target = [s \in Ids |-> "none"]
  /\ told = [s \in Ids |-> <<>>]

Told(s, frame) == \E i \in 1 .. Len(told[s]) : told[s][i] = frame

Admit(s) ==
  /\ s \notin ever /\ Cardinality(live) < MaxSessions
  /\ live' = live \cup {s} /\ ever' = ever \cup {s}
  /\ UNCHANGED <<target, told>>

(* one session ends, or all of them with the connection *)
Retire(S) ==
  /\ live' = live \ S
  /\ UNCHANGED <<ever, target, told>>

Open(s) ==
  /\ s \in ever /\ target[s] = "none"
  /\ target' = [target EXCEPT ![s] = "open"]
  /\ UNCHANGED <<live, ever, told>>

HalfClose(s) ==
  /\ target[s] = "open"
  /\ target' = [target EXCEPT ![s] = "half"]
  /\ UNCHANGED <<live, ever, told>>

(* a target socket is closed only after its session has ended *)
Close(s) ==
  /\ s \notin live /\ target[s] \in {"open", "half"}
  /\ target' = [target EXCEPT ![s] = "closed"]
  /\ UNCHANGED <<live, ever, told>>

(* connected: once, for a target that was reached; data: after connected;  *)
(* close: once, after the session has ended; error: instead of connected.  *)
MayTell(s, frame) ==
  \/ frame = "connected" /\ target[s] # "none" /\ ~Told(s, "connected")
  \/ frame = "data" /\ Told(s, "connected")
  \/ frame = "close" /\ s \in ever \ live /\ ~Told(s, "close")
  \/ frame = "error" /\ s \in ever /\ target[s] = "none" /\ ~Told(s, "error")

Tell(s, frame) ==
  /\ MayTell(s, frame)
  /\ told' = [told EXCEPT ![s] = Append(@, frame)]
  /\ UNCHANGED <<live, ever, target>>

Next ==
  \/ \E S \in SUBSET Ids : Retire(S)
  \/ \E s \in Ids :
       \/ Admit(s) \/ Open(s) \/ HalfClose(s) \/ Close(s)
       \/ \E frame \in {"connected", "data", "close", "error"} : Tell(s, frame)

Spec == Init /\ [][Next]_vars
=============================================================================
