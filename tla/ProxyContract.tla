---------------------------- MODULE ProxyContract ----------------------------
(***************************************************************************)
(* What a local client and a target may see of each other through the      *)
(* proxy, without tunnel, threads and frames: two streams of numbered      *)
(* pieces per session, and how each of them may end.  The ProxySystem      *)
(* implements it.                                                          *)
(***************************************************************************)
EXTENDS Integers, Sequences

CONSTANT Sessions

VARIABLES kind,               \* CONNECT, whose client waits for the answer, or plain HTTP
          upSent, upGot,      \* pieces sent by the client, received by the target
          downSent, downGot,  \* and the other way
          clientFin, targetFin,  \* either has said that it will send no more
          upEnd, downEnd,     \* what either has seen of the other's end
          cut                 \* the session was refused, or its connection lost

vars == <<kind, upSent, upGot, downSent, downGot, clientFin, targetFin, upEnd, downEnd, cut>>

Each(x) == [s \in Sessions |-> x]

Init ==
  /\ kind \in [Sessions -> {"connect", "plain"}]
  /\ upSent = Each(0) /\ downSent = Each(0)
  /\ upGot = Each(<<>>) /\ downGot = Each(<<>>)
  /\ clientFin = Each(FALSE) /\ targetFin = Each(FALSE)
  /\ upEnd = Each("none") /\ downEnd = Each("none")
  /\ cut = Each(FALSE)

ClientSends(s) ==
  /\ ~clientFin[s] /\ upSent' = [upSent EXCEPT ![s] = @ + 1]
  /\ UNCHANGED <<kind, upGot, downSent, downGot, clientFin, targetFin, upEnd, downEnd, cut>>

TargetSends(s) ==
  /\ ~targetFin[s] /\ downSent' = [downSent EXCEPT ![s] = @ + 1]
  /\ UNCHANGED <<kind, upSent, upGot, downGot, clientFin, targetFin, upEnd, downEnd, cut>>

ClientFins(s) ==
  /\ clientFin' = [clientFin EXCEPT ![s] = TRUE]
  /\ UNCHANGED <<kind, upSent, upGot, downSent, downGot, targetFin, upEnd, downEnd, cut>>

TargetFins(s) ==
  /\ targetFin' = [targetFin EXCEPT ![s] = TRUE]
  /\ UNCHANGED <<kind, upSent, upGot, downSent, downGot, clientFin, upEnd, downEnd, cut>>

Got(stream, s) == {stream[s][i] : i \in 1 .. Len(stream[s])}

(* A target gets the pieces of its own client in their order, none of them *)
(* left out.  Only what a plain request sends before the tunnel stands may *)
(* be out of order; still nothing comes twice.  Piece 0 is its head.       *)
UpDelivers(s) == \E k \in 0 .. upSent[s] :
  /\ k \notin Got(upGot, s) /\ upEnd[s] = "none"
  /\ kind[s] = "connect" => k = Len(upGot[s]) + 1
  /\ upGot' = [upGot EXCEPT ![s] = Append(@, k)]
  /\ UNCHANGED <<kind, upSent, downSent, downGot, clientFin, targetFin, upEnd, downEnd, cut>>

DownDelivers(s) ==
  /\ Len(downGot[s]) < downSent[s] /\ downEnd[s] = "none"
  /\ downGot' = [downGot EXCEPT ![s] = Append(@, Len(@) + 1)]
  /\ UNCHANGED <<kind, upSent, upGot, downSent, clientFin, targetFin, upEnd, downEnd, cut>>

(* A target sees the end of the stream when it has all of it; earlier only *)
(* if it ended the session itself, or if the session was cut.              *)
UpEnds(s) == \E end \in {"eof", "reset"} :
  /\ upEnd[s] = "none"
  /\ \/ targetFin[s] \/ cut[s]
     \/ clientFin[s] /\ (end = "eof" /\ kind[s] = "connect" => Len(upGot[s]) = upSent[s])
  /\ upEnd' = [upEnd EXCEPT ![s] = end]
  /\ UNCHANGED <<kind, upSent, upGot, downSent, downGot, clientFin, targetFin, downEnd, cut>>

(* the same for the client; its own half-close ends both directions *)
DownEnds(s) == \E end \in {"eof", "reset"} :
  /\ downEnd[s] = "none"
  /\ \/ clientFin[s] \/ cut[s]
     \/ targetFin[s] /\ (end = "eof" => Len(downGot[s]) = downSent[s])
  /\ downEnd' = [downEnd EXCEPT ![s] = end]
  /\ UNCHANGED <<kind, upSent, upGot, downSent, downGot, clientFin, targetFin, upEnd, cut>>

(* the loss of the WSS connection cuts its sessions at once *)
Cuts(S) ==
  /\ cut' = [s \in Sessions |-> cut[s] \/ s \in S]
  /\ UNCHANGED <<kind, upSent, upGot, downSent, downGot, clientFin, targetFin, upEnd, downEnd>>

Next ==
  \/ \E s \in Sessions :
       \/ ClientSends(s) \/ TargetSends(s) \/ ClientFins(s) \/ TargetFins(s)
       \/ UpDelivers(s) \/ DownDelivers(s) \/ UpEnds(s) \/ DownEnds(s)
  \/ \E S \in SUBSET Sessions : Cuts(S)

Spec == Init /\ [][Next]_vars

-----------------------------------------------------------------------------
(* What this comes to for the two ends                                     *)

TypeOK ==
  /\ kind \in [Sessions -> {"connect", "plain"}]
  /\ upSent \in [Sessions -> Nat] /\ downSent \in [Sessions -> Nat]
  /\ upGot \in [Sessions -> Seq(Nat)] /\ downGot \in [Sessions -> Seq(Nat)]
  /\ clientFin \in [Sessions -> BOOLEAN] /\ targetFin \in [Sessions -> BOOLEAN]
  /\ upEnd \in [Sessions -> {"none", "eof", "reset"}]
  /\ downEnd \in [Sessions -> {"none", "eof", "reset"}]
  /\ cut \in [Sessions -> BOOLEAN]

(* The first pieces of a stream of so many, in their order.                *)
Prefix(got, sent) == Len(got) <= sent /\ \A i \in 1 .. Len(got) : got[i] = i

(* What is received is a prefix of what was sent.  A plain request's       *)
(* pieces may change places, but none comes twice.                         *)
PrefixesOnly == \A s \in Sessions :
  /\ kind[s] = "connect" => Prefix(upGot[s], upSent[s])
  /\ \A i, j \in 1 .. Len(upGot[s]) : upGot[s][i] = upGot[s][j] => i = j
  /\ Prefix(downGot[s], downSent[s])

(* A stream that ends like a whole one is whole, unless its reader ended   *)
(* the session itself or the session was cut: no end overtakes data.       *)
CleanEndsAreWhole == \A s \in Sessions :
  /\ upEnd[s] = "eof" /\ kind[s] = "connect" =>
       targetFin[s] \/ cut[s] \/ (clientFin[s] /\ Len(upGot[s]) = upSent[s])
  /\ downEnd[s] = "eof" =>
       clientFin[s] \/ cut[s] \/ (targetFin[s] /\ Len(downGot[s]) = downSent[s])
=============================================================================
