------------------------------ MODULE SocketRead ------------------------------
(***************************************************************************)
(* Reads with a time limit (src/src/common/tcpsocket.cpp, stream.cpp): one *)
(* read waits in slices of 200 ms, and readUntil reads until what it has   *)
(* ends a head.  A plain socket keeps its limit; a read over TLS does not: *)
(* SSL_read waits on a blocking socket until it has bytes, the end of the  *)
(* stream or an error, and only then could the deadline be looked at.      *)
(*                                                                         *)
(* What a peer does is a sequence of arrivals <<gap, bytes>>: so many      *)
(* slices after the read began, these bytes, <<>> for the end of the       *)
(* stream; after the last arrival nothing comes any more.                  *)
(***************************************************************************)
EXTENDS Integers, Sequences, SequencesExt

CONSTANTS
  Delim,      \* the bytes that end a head
  MaxBytes    \* how many bytes a head may have at most (bound of the code)

ASSUME ReadAssumption == Delim \in Seq(Nat) \ {<<>>} /\ MaxBytes \in Nat \ {0}

Slice == 200

\* A limit, and what is left of it: over TLS nothing.
NoLimit == -1
Limit(tls, timeoutMs) == IF tls THEN NoLimit ELSE timeoutMs

\* Whether readSome sees what comes gap slices after the call: it looks at the socket
\* while what it has waited is at most the limit, once when the limit is 0, and for as
\* long as it takes when it is negative.
InTime(gap, timeoutMs) == timeoutMs < 0 \/ gap = 0 \/ (timeoutMs > 0 /\ gap * Slice <= timeoutMs)

\* How many slices a read takes that nothing arrives for.
SlicesWaited(timeoutMs) == IF timeoutMs = 0 THEN 1 ELSE timeoutMs \div Slice + 1

Failed(out, slices) == [returned |-> TRUE, ok |-> FALSE, out |-> out, slices |-> slices]

\* The end of the first Delim in what has been read, 0 if there is none.
DelimEnd(out) ==
  LET ends == {i \in Len(Delim) .. Len(out) : SubSeq(out, i - Len(Delim) + 1, i) = Delim}
  IN IF ends = {} THEN 0 ELSE CHOOSE i \in ends : \A j \in ends : i <= j

(* mutant: only the bytes of the last read are searched *)
AfterArrivalLast(state, arrival, timeoutMs) ==
  LET end == DelimEnd(arrival[2])
      gone == state.slices + arrival[1]
  IN IF state.returned THEN state
     ELSE IF Len(state.out) >= MaxBytes THEN Failed(state.out, state.slices)
     ELSE IF ~InTime(arrival[1], timeoutMs)
          THEN Failed(state.out, state.slices + SlicesWaited(timeoutMs))
     ELSE IF arrival[2] = <<>> THEN Failed(state.out, gone)
     ELSE IF end = 0 THEN [state EXCEPT !.out = @ \o arrival[2], !.slices = gone]
     ELSE [returned |-> TRUE, ok |-> TRUE, out |-> state.out \o SubSeq(arrival[2], 1, end), slices |-> gone]

\* readUntil after one more arrival: state is what has been read, how long that took,
\* and whether the call has returned.
AfterArrival(state, arrival, timeoutMs) ==
  LET out == state.out \o arrival[2]
      end == DelimEnd(out)
      gone == state.slices + arrival[1]
  IN IF state.returned THEN state
     ELSE IF Len(state.out) >= MaxBytes THEN Failed(state.out, state.slices)
     ELSE IF ~InTime(arrival[1], timeoutMs)
          THEN Failed(state.out, state.slices + SlicesWaited(timeoutMs))
     ELSE IF arrival[2] = <<>> THEN Failed(state.out, gone)
     ELSE IF end = 0 THEN [state EXCEPT !.out = out, !.slices = gone]
     ELSE [returned |-> TRUE, ok |-> TRUE, out |-> SubSeq(out, 1, end), slices |-> gone]

\* readUntil: the bytes behind Delim that came with it are dropped.  Without a limit the
\* call does not return from a peer that falls silent.
readUntil(arrivals, timeoutMs) ==
  LET state == FoldLeft(LAMBDA so, arrival : AfterArrival(so, arrival, timeoutMs),
                        [returned |-> FALSE, ok |-> FALSE, out |-> <<>>, slices |-> 0],
                        arrivals)
  IN IF state.returned THEN state
     ELSE IF Len(state.out) >= MaxBytes THEN Failed(state.out, state.slices)
     ELSE IF timeoutMs < 0 THEN state
     ELSE Failed(state.out, state.slices + SlicesWaited(timeoutMs))
=============================================================================
