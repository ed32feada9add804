-------------------------- MODULE LocalProxyProofs --------------------------
(***************************************************************************)
(* Proofs about LocalProxy: nothing is carried twice, one verdict, and a   *)
(* handler that returns leaves nothing behind, for any number of local     *)
(* connections and pieces.                                                 *)
(***************************************************************************)
EXTENDS LocalProxy, TLAPS

Els(q) == {q[i] : i \in 1 .. Len(q)}

Distinct(q) == \A i, j \in 1 .. Len(q) : q[i] = q[j] => i = j

Accepts(c) == "200" \in Els(reply[c])
Refuses(c) == "400" \in Els(reply[c]) \/ "502" \in Els(reply[c])

-----------------------------------------------------------------------------
(* The invariant.                                                          *)

(* The locals of the two threads.                                          *)
Locals ==
  /\ conn # None <=> ppc # "accept"
  /\ cur # None <=> lpc # "idle"
  /\ conn # None => sock[conn] # "none"
  /\ ppc = "hooks" => hooks[conn] < 4
  /\ ppc \in {"piece", "push", "keep"} => piece = readPieces[conn] /\ piece > 0
  /\ \A c \in Conns : readPieces[c] <= sentPieces[c]

(* What a callback that is under way says of its session.                  *)
Calling ==
  /\ lpc \in {"onOpen", "greet", "flush", "half"} => connected[cur]
  /\ lpc \in {"greet", "flush", "half"} => opened[cur]
  /\ lpc \in {"onError", "onClose", "shut", "mark"} /\ live[cur] => ending = "lost"
  /\ lpc = "mark" => ending = "lost"

(* Nothing is known of a connection before openSession gives it a session. *)
Fresh == \A c \in Conns :
  sock[c] = "none" \/ (conn = c /\ ppc \in {"head", "open"}) =>
    /\ reply[c] = <<>> /\ uplink[c] = <<>> /\ pending[c] = <<>>
    /\ hooks[c] = 0 /\ cur # c
    /\ ~live[c] /\ ~connected[c] /\ ~opened[c] /\ ~closed[c]

(* A session that was refused will not be greeted: it is over, or onClose  *)
(* is about to be called for it.                                           *)
Verdict == \A c \in Conns :
  /\ Accepts(c) => opened[c]
  /\ Refuses(c) => ~Accepts(c) /\ ~(cur = c /\ lpc \in {"onOpen", "greet"})
  /\ Refuses(c) /\ live[c] => cur = c /\ lpc \in {"onClose", "shut", "mark"}

(* Session and socket are finished with, or Loop is about to.              *)
Over(c) ==
  /\ ~live[c] \/ (cur = c /\ lpc \in {"shut", "mark"})
  /\ sock[c] = "closed" \/ (cur = c /\ lpc = "shut")

(* Whoever sets closed first sees to the rest.                             *)
Closing == \A c \in Conns :
  /\ closed[c] /\ ~(conn = c /\ ppc = "release") => Over(c)
  /\ Handled(c) => Over(c)

(* the pump holds a piece it has read *)
InHand(c) == conn = c /\ ppc \in {"piece", "push", "keep"}

(* onOpen has not looked at pending yet *)
Unsent(c) == ~connected[c] \/ (cur = c /\ lpc \in {"onOpen", "greet"})

(* A piece is in one place: carried, kept until onOpen, being flushed, or  *)
(* in the hand of the pump; the head and the end have their own marks.     *)
Placed(c) ==
  /\ Distinct(uplink[c]) /\ Distinct(pending[c])
  /\ \A x \in Els(uplink[c]) : x <= readPieces[c]
  /\ \A x \in Els(pending[c]) : 0 < x /\ x <= readPieces[c]
  /\ InHand(c) => piece \notin Els(uplink[c]) /\ piece \notin Els(pending[c])
  /\ Unsent(c) => 0 \notin Els(uplink[c]) /\ \A x \in Els(pending[c]) : x \notin Els(uplink[c])
  /\ End \in Els(uplink[c]) => upClosed[c]
  /\ cur = c /\ lpc = "flush" =>
       /\ Distinct(flush)
       /\ \A x \in Els(flush) : 0 < x /\ x <= readPieces[c] /\ x \notin Els(uplink[c])
       /\ InHand(c) => piece \notin Els(flush)

OnePlace == \A c \in Conns : Placed(c)

Inv == TypeOK /\ Locals /\ Calling /\ Fresh /\ Verdict /\ Closing /\ OnePlace
-----------------------------------------------------------------------------
(* Sequences without repetition.                                           *)

LEMMA Empties == Els(<<>>) = {} /\ Distinct(<<>>)
BY DEF Els, Distinct

LEMMA Appends ==
  ASSUME NEW S, NEW q \in Seq(S), NEW x \in S
  PROVE  /\ Append(q, x) \in Seq(S)
         /\ Els(Append(q, x)) = Els(q) \cup {x}
         /\ Distinct(q) /\ x \notin Els(q) => Distinct(Append(q, x))
<1>1. /\ Append(q, x) \in Seq(S) /\ Len(Append(q, x)) = Len(q) + 1 /\ Len(q) \in Nat
      /\ \A i \in 1 .. Len(q) : Append(q, x)[i] = q[i]
      /\ Append(q, x)[Len(q) + 1] = x
  OBVIOUS
<1>2. 1 .. Len(q) + 1 = (1 .. Len(q)) \cup {Len(q) + 1}
  BY <1>1
<1>3. Els(Append(q, x)) = Els(q) \cup {x}
  BY <1>1, <1>2 DEF Els
<1>4. Distinct(q) /\ x \notin Els(q) => Distinct(Append(q, x))
  BY <1>1, <1>2 DEF Els, Distinct
<1> QED
  BY <1>1, <1>3, <1>4

LEMMA Splits ==
  ASSUME NEW S, NEW q \in Seq(S), q # <<>>
  PROVE  /\ Head(q) \in S /\ Tail(q) \in Seq(S)
         /\ Head(q) \in Els(q) /\ Els(Tail(q)) \subseteq Els(q)
         /\ Distinct(q) => Distinct(Tail(q)) /\ Head(q) \notin Els(Tail(q))
<1>1. /\ Len(q) \in Nat \ {0} /\ Head(q) = q[1] /\ Tail(q) \in Seq(S)
      /\ Len(Tail(q)) = Len(q) - 1
      /\ \A i \in 1 .. Len(q) - 1 : Tail(q)[i] = q[i + 1]
  OBVIOUS
<1>2. Head(q) \in S /\ Head(q) \in Els(q)
  BY <1>1 DEF Els
<1>3. \A i \in 1 .. Len(Tail(q)) : i + 1 \in 1 .. Len(q) /\ i + 1 # 1 /\ Tail(q)[i] = q[i + 1]
  BY <1>1
<1>4. Els(Tail(q)) \subseteq Els(q)
  BY <1>3 DEF Els
<1>5. ASSUME Distinct(q) PROVE Distinct(Tail(q)) /\ Head(q) \notin Els(Tail(q))
  <2>1. 1 \in 1 .. Len(q)
    BY <1>1
  <2>2. Head(q) \notin Els(Tail(q))
    BY <1>1, <1>3, <1>5, <2>1 DEF Els, Distinct
  <2>3. \A i, j \in 1 .. Len(Tail(q)) : i + 1 = j + 1 => i = j
    BY <1>1
  <2> QED
    BY <1>3, <1>5, <2>2, <2>3 DEF Distinct
<1> QED
  BY <1>1, <1>2, <1>4, <1>5

(* What a push does to the pieces carried, *)
LEMMA Carries ==
  ASSUME TypeOK, NEW c \in Conns, NEW x \in Pieces \cup {-1}, Carry(c, x)
  PROVE  /\ uplink' \in [Conns -> Seq(Pieces \cup {-1})]
         /\ \A d \in Conns : d # c => uplink'[d] = uplink[d]
         /\ Els(uplink'[c]) \subseteq Els(uplink[c]) \cup {x}
         /\ x \in Els(uplink'[c]) => CanPush(c) \/ x \in Els(uplink[c])
         /\ Distinct(uplink[c]) /\ x \notin Els(uplink[c]) => Distinct(uplink'[c])
         /\ ~CanPush(c) => uplink' = uplink
<1>1. uplink[c] \in Seq(Pieces \cup {-1})
  BY DEF TypeOK
<1>2. /\ Append(uplink[c], x) \in Seq(Pieces \cup {-1})
      /\ Els(Append(uplink[c], x)) = Els(uplink[c]) \cup {x}
      /\ Distinct(uplink[c]) /\ x \notin Els(uplink[c]) => Distinct(Append(uplink[c], x))
  BY <1>1, Appends
<1> QED
  BY <1>2 DEF TypeOK, Carry

(* and a write to the verdicts given to the local clients.                 *)
LEMMA Writes ==
  ASSUME TypeOK, NEW c \in Conns, NEW x \in Replies, Write(c, x)
  PROVE  /\ reply' \in [Conns -> Seq(Replies)]
         /\ \A d \in Conns : Accepts(d)' => Accepts(d) \/ (d = c /\ x = "200")
         /\ \A d \in Conns : Refuses(d)' => Refuses(d) \/ (d = c /\ x \in {"400", "502"})
<1>1. reply[c] \in Seq(Replies)
  BY DEF TypeOK
<1>2. /\ Append(reply[c], x) \in Seq(Replies)
      /\ Els(Append(reply[c], x)) = Els(reply[c]) \cup {x}
  BY <1>1, Appends
<1>3. /\ reply' \in [Conns -> Seq(Replies)]
      /\ \A d \in Conns : d # c => reply'[d] = reply[d]
      /\ Els(reply'[c]) = Els(reply[c]) \/ Els(reply'[c]) = Els(reply[c]) \cup {x}
  BY <1>2 DEF TypeOK, Write
<1>4. \A d \in Conns : \A y \in Els(reply'[d]) : y \in Els(reply[d]) \/ (d = c /\ y = x)
  BY <1>3
<1> QED
  BY <1>3, <1>4 DEF Accepts, Refuses

-----------------------------------------------------------------------------
(* Each conjunct is inductive relative to the ones it rests on.            *)

LEMMA NextLocals == TypeOK /\ Locals /\ Fresh /\ [Next]_vars => Locals'
<1> SUFFICES ASSUME TypeOK, Locals, Fresh, [Next]_vars PROVE Locals'
  OBVIOUS
<1> USE ProxyAssumption DEF TypeOK, Locals, Fresh, Pieces, None, clientVars, sessVars,
      sharedVars, proxyVars, loopVars, CarryEnd, CanPush, Shut, AfterCallbacks, Waiting
<1>1. CASE Accept
  BY <1>1 DEF Accept
<1>2. CASE ReadHead
  BY <1>2 DEF ReadHead
<1>3. CASE OpenSession
  BY <1>3 DEF OpenSession
<1>4. CASE SetCallback
  <2>1. conn \in Conns /\ hooks[conn] \in 0 .. 4 /\ hooks[conn] < 4
    BY <1>4 DEF SetCallback
  <2>2. hooks'[conn] = hooks[conn] + 1 /\ hooks'[conn] \in 0 .. 4
    BY <1>4, <2>1 DEF SetCallback
  <2>3. ppc' = "hooks" => hooks'[conn'] < 4
    BY <1>4, <2>1, <2>2 DEF SetCallback
  <2> QED
    BY <1>4, <2>3 DEF SetCallback
<1>5. CASE PumpRead
  <2>1. conn \in Conns /\ readPieces[conn] \in Nat /\ sentPieces[conn] \in Nat
    BY <1>5 DEF PumpRead
  <2>2. /\ UNCHANGED sentPieces
        /\ \/ readPieces' = readPieces
           \/ /\ readPieces' = [readPieces EXCEPT ![conn] = readPieces[conn] + 1]
              /\ readPieces[conn] < sentPieces[conn]
    BY <1>5 DEF PumpRead
  <2>3. \A c \in Conns : readPieces'[c] <= sentPieces'[c]
    <3> SUFFICES ASSUME NEW c \in Conns PROVE readPieces'[c] <= sentPieces'[c]
      OBVIOUS
    <3>1. readPieces[c] \in Nat /\ sentPieces[c] \in Nat /\ readPieces[c] <= sentPieces[c]
      OBVIOUS
    <3>2. \/ readPieces'[c] = readPieces[c]
          \/ readPieces'[c] = readPieces[c] + 1 /\ readPieces[c] < sentPieces[c]
      BY <2>1, <2>2
    <3>3. sentPieces'[c] = sentPieces[c]
      BY <2>2
    <3> HIDE DEF TypeOK, Locals, Fresh
    <3> QED
      BY <3>1, <3>2, <3>3
  <2>4. ppc' \in {"piece", "push", "keep"} => piece' = readPieces'[conn'] /\ piece' > 0
    BY <1>5, <2>1 DEF PumpRead
  <2> QED
    BY <1>5, <2>3, <2>4 DEF PumpRead
<1>6. CASE PumpEof
  BY <1>6 DEF PumpEof
<1>7. CASE PumpEnd
  BY <1>7 DEF PumpEnd
<1>8. CASE KeepEnd
  BY <1>8 DEF KeepEnd
<1>9. CASE PumpPiece
  BY <1>9 DEF PumpPiece
<1>10. CASE PumpPush
  BY <1>10 DEF PumpPush, PushFails
<1>11. CASE PumpKeep
  BY <1>11 DEF PumpKeep
<1>12. CASE Finish
  BY <1>12 DEF Finish
<1>13. CASE Release
  BY <1>13 DEF Release
<1>14. CASE OnOpen
  BY <1>14 DEF OnOpen
<1>15. CASE Greet
  BY <1>15 DEF Greet, PushFails
<1>16. CASE Flush
  BY <1>16 DEF Flush, PushFails
<1>17. CASE PassEnd
  BY <1>17 DEF PassEnd
<1>18. CASE OnError
  BY <1>18 DEF OnError
<1>19. CASE OnClose
  BY <1>19 DEF OnClose
<1>20. CASE OnCloseShut
  BY <1>20 DEF OnCloseShut
<1>21. CASE MarkLost
  BY <1>21 DEF MarkLost
<1>22. ASSUME NEW c \in Conns, ClientSends(c) PROVE Locals'
  BY <1>22 DEF ClientSends
<1>23. ASSUME NEW c \in Conns, ClientHalfCloses(c) PROVE Locals'
  BY <1>23 DEF ClientHalfCloses
<1>24. ASSUME NEW c \in Conns, ClientCloses(c) PROVE Locals'
  BY <1>24 DEF ClientCloses
<1>25. ASSUME NEW c \in Conns, ServerConnected(c) PROVE Locals'
  BY <1>25 DEF ServerConnected
<1>26. ASSUME NEW c \in Conns, OnData(c) PROVE Locals'
  BY <1>26 DEF OnData
<1>27. ASSUME NEW c \in Conns, SessionEnds(c) PROVE Locals'
  BY <1>27 DEF SessionEnds
<1>28. CASE UNCHANGED vars
  BY <1>28 DEF vars
<1> QED
  BY <1>1, <1>2, <1>3, <1>4, <1>5, <1>6, <1>7, <1>8, <1>9, <1>10, <1>11, <1>12, <1>13, <1>14,
      <1>15, <1>16, <1>17, <1>18, <1>19, <1>20, <1>21, <1>22, <1>23, <1>24, <1>25, <1>26, <1>27,
      <1>28
  DEF Next, ProxyStep, Callback, Client, Server

LEMMA NextCalling == TypeOK /\ Locals /\ Calling /\ Fresh /\ [Next]_vars => Calling'
<1> SUFFICES ASSUME TypeOK, Locals, Calling, Fresh, [Next]_vars PROVE Calling'
  OBVIOUS
<1> USE ProxyAssumption DEF TypeOK, Locals, Calling, Fresh, None, clientVars, sessVars,
      sharedVars, proxyVars, loopVars, CarryEnd, CanPush, Shut, AfterCallbacks, Waiting
<1>1. CASE Accept
  BY <1>1 DEF Accept
<1>2. CASE ReadHead
  BY <1>2 DEF ReadHead
<1>3. CASE OpenSession
  BY <1>3 DEF OpenSession
<1>4. CASE SetCallback
  BY <1>4 DEF SetCallback
<1>5. CASE PumpRead
  BY <1>5 DEF PumpRead
<1>6. CASE PumpEof
  BY <1>6 DEF PumpEof
<1>7. CASE PumpEnd
  BY <1>7 DEF PumpEnd
<1>8. CASE KeepEnd
  BY <1>8 DEF KeepEnd
<1>9. CASE PumpPiece
  BY <1>9 DEF PumpPiece
<1>10. CASE PumpPush
  BY <1>10 DEF PumpPush, PushFails
<1>11. CASE PumpKeep
  BY <1>11 DEF PumpKeep
<1>12. CASE Finish
  BY <1>12 DEF Finish
<1>13. CASE Release
  BY <1>13 DEF Release
<1>14. CASE OnOpen
  BY <1>14 DEF OnOpen
<1>15. CASE Greet
  BY <1>15 DEF Greet
<1>16. CASE Flush
  BY <1>16 DEF Flush
<1>17. CASE PassEnd
  BY <1>17 DEF PassEnd
<1>18. CASE OnError
  BY <1>18 DEF OnError
<1>19. CASE OnClose
  BY <1>19 DEF OnClose
<1>20. CASE OnCloseShut
  BY <1>20 DEF OnCloseShut
<1>21. CASE MarkLost
  BY <1>21 DEF MarkLost
<1>22. ASSUME NEW c \in Conns, ClientSends(c) PROVE Calling'
  BY <1>22 DEF ClientSends
<1>23. ASSUME NEW c \in Conns, ClientHalfCloses(c) PROVE Calling'
  BY <1>23 DEF ClientHalfCloses
<1>24. ASSUME NEW c \in Conns, ClientCloses(c) PROVE Calling'
  BY <1>24 DEF ClientCloses
<1>25. ASSUME NEW c \in Conns, ServerConnected(c) PROVE Calling'
  BY <1>25 DEF ServerConnected
<1>26. ASSUME NEW c \in Conns, OnData(c) PROVE Calling'
  BY <1>26 DEF OnData
<1>27. ASSUME NEW c \in Conns, SessionEnds(c) PROVE Calling'
  <2>1. cur' = c /\ live'[c] = (ending' = "lost") /\ lpc' \in {"onClose", "onError"}
    BY <1>27 DEF SessionEnds
  <2> QED
    BY <2>1
<1>28. CASE UNCHANGED vars
  BY <1>28 DEF vars
<1> QED
  BY <1>1, <1>2, <1>3, <1>4, <1>5, <1>6, <1>7, <1>8, <1>9, <1>10, <1>11, <1>12, <1>13, <1>14,
      <1>15, <1>16, <1>17, <1>18, <1>19, <1>20, <1>21, <1>22, <1>23, <1>24, <1>25, <1>26, <1>27,
      <1>28
  DEF Next, ProxyStep, Callback, Client, Server

LEMMA NextFresh == TypeOK /\ Locals /\ Calling /\ Fresh /\ [Next]_vars => Fresh'
<1> SUFFICES ASSUME TypeOK, Locals, Calling, Fresh, [Next]_vars PROVE Fresh'
  OBVIOUS
<1> USE ProxyAssumption DEF TypeOK, Locals, Calling, Fresh, None, Write, Carry, clientVars,
      sessVars, sharedVars, proxyVars, loopVars, CarryEnd, CanPush, Shut, AfterCallbacks,
      Waiting
<1>1. CASE Accept
  <2>1. PICK c \in Conns : /\ sock[c] = "none" /\ conn' = c /\ ppc' = "head"
                            /\ sock' = [sock EXCEPT ![c] = "open"]
    BY <1>1 DEF Accept
  <2>2. UNCHANGED <<reply, uplink, pending, hooks, cur, live, connected, opened, closed>>
    BY <1>1 DEF Accept
  <2> QED
    BY <2>1, <2>2
<1>2. CASE ReadHead
  BY <1>2 DEF ReadHead
<1>3. CASE OpenSession
  BY <1>3 DEF OpenSession
<1>4. CASE SetCallback
  BY <1>4 DEF SetCallback
<1>5. CASE PumpRead
  BY <1>5 DEF PumpRead
<1>6. CASE PumpEof
  BY <1>6 DEF PumpEof
<1>7. CASE PumpEnd
  BY <1>7 DEF PumpEnd
<1>8. CASE KeepEnd
  BY <1>8 DEF KeepEnd
<1>9. CASE PumpPiece
  BY <1>9 DEF PumpPiece
<1>10. CASE PumpPush
  BY <1>10 DEF PumpPush, PushFails
<1>11. CASE PumpKeep
  BY <1>11 DEF PumpKeep
<1>12. CASE Finish
  BY <1>12 DEF Finish
<1>13. CASE Release
  BY <1>13 DEF Release
<1>14. CASE OnOpen
  BY <1>14 DEF OnOpen
<1>15. CASE Greet
  BY <1>15 DEF Greet, PushFails
<1>16. CASE Flush
  BY <1>16 DEF Flush, PushFails
<1>17. CASE PassEnd
  BY <1>17 DEF PassEnd
<1>18. CASE OnError
  BY <1>18 DEF OnError
<1>19. CASE OnClose
  BY <1>19 DEF OnClose
<1>20. CASE OnCloseShut
  BY <1>20 DEF OnCloseShut
<1>21. CASE MarkLost
  BY <1>21 DEF MarkLost
<1>22. ASSUME NEW c \in Conns, ClientSends(c) PROVE Fresh'
  BY <1>22 DEF ClientSends
<1>23. ASSUME NEW c \in Conns, ClientHalfCloses(c) PROVE Fresh'
  BY <1>23 DEF ClientHalfCloses
<1>24. ASSUME NEW c \in Conns, ClientCloses(c) PROVE Fresh'
  BY <1>24 DEF ClientCloses
<1>25. ASSUME NEW c \in Conns, ServerConnected(c) PROVE Fresh'
  BY <1>25 DEF ServerConnected
<1>26. ASSUME NEW c \in Conns, OnData(c) PROVE Fresh'
  BY <1>26 DEF OnData
<1>27. ASSUME NEW c \in Conns, SessionEnds(c) PROVE Fresh'
  BY <1>27 DEF SessionEnds
<1>28. CASE UNCHANGED vars
  BY <1>28 DEF vars
<1> QED
  BY <1>1, <1>2, <1>3, <1>4, <1>5, <1>6, <1>7, <1>8, <1>9, <1>10, <1>11, <1>12, <1>13, <1>14,
      <1>15, <1>16, <1>17, <1>18, <1>19, <1>20, <1>21, <1>22, <1>23, <1>24, <1>25, <1>26, <1>27,
      <1>28
  DEF Next, ProxyStep, Callback, Client, Server

LEMMA NextVerdict == TypeOK /\ Locals /\ Calling /\ Fresh /\ Verdict /\ [Next]_vars => Verdict'
<1> SUFFICES ASSUME TypeOK, Locals, Calling, Fresh, Verdict, [Next]_vars PROVE Verdict'
  OBVIOUS
<1> USE ProxyAssumption DEF TypeOK, Locals, Calling, Fresh, Verdict, Accepts, Refuses, None,
      clientVars, sessVars, sharedVars, proxyVars, loopVars, CarryEnd, CanPush, Shut,
      AfterCallbacks, Waiting
<1>1. CASE Accept
  <2>1. UNCHANGED <<reply, live, opened, cur, lpc>>
    BY <1>1 DEF Accept
  <2> QED
    BY <2>1
<1>2. CASE ReadHead
  <2> HIDE DEF Accepts, Refuses
  <2>1. conn \in Conns /\ ~Accepts(conn) /\ ~live[conn] /\ cur # conn
    BY <1>2, Empties DEF ReadHead, Accepts
  <2>2. UNCHANGED <<live, opened, cur, lpc>>
    BY <1>2 DEF ReadHead
  <2>3. CASE Write(conn, "400")
    <3>1. \A d \in Conns : /\ Accepts(d)' => Accepts(d)
                           /\ Refuses(d)' => Refuses(d) \/ d = conn
      BY <2>1, <2>3, Writes DEF Replies
    <3> QED
      BY <2>1, <2>2, <3>1
  <2>4. CASE reply' = reply
    BY <2>2, <2>4 DEF Accepts, Refuses
  <2> QED
    BY <1>2, <2>3, <2>4 DEF ReadHead
<1>3. CASE OpenSession
  <2> HIDE DEF Accepts, Refuses
  <2>1. conn \in Conns /\ ~Accepts(conn) /\ ~Refuses(conn) /\ ~live[conn] /\ cur # conn
    BY <1>3, Empties DEF OpenSession, Accepts, Refuses
  <2>2. UNCHANGED <<opened, cur, lpc>>
    BY <1>3 DEF OpenSession
  <2>3. CASE Write(conn, "502") /\ live' = live
    <3>1. \A d \in Conns : /\ Accepts(d)' => Accepts(d)
                           /\ Refuses(d)' => Refuses(d) \/ d = conn
      BY <2>1, <2>3, Writes DEF Replies
    <3> QED
      BY <2>1, <2>2, <2>3, <3>1
  <2>4. CASE reply' = reply /\ live' = [live EXCEPT ![conn] = TRUE]
    <3>1. \A d \in Conns : (Accepts(d)' <=> Accepts(d)) /\ (Refuses(d)' <=> Refuses(d))
      BY <2>4 DEF Accepts, Refuses
    <3> QED
      BY <2>1, <2>2, <2>4, <3>1
  <2> QED
    BY <1>3, <2>3, <2>4 DEF OpenSession
<1>4. CASE SetCallback
  BY <1>4 DEF SetCallback
<1>5. CASE PumpRead
  BY <1>5 DEF PumpRead
<1>6. CASE PumpEof
  BY <1>6 DEF PumpEof
<1>7. CASE PumpEnd
  BY <1>7 DEF PumpEnd
<1>8. CASE KeepEnd
  BY <1>8 DEF KeepEnd
<1>9. CASE PumpPiece
  BY <1>9 DEF PumpPiece
<1>10. CASE PumpPush
  BY <1>10 DEF PumpPush, PushFails
<1>11. CASE PumpKeep
  BY <1>11 DEF PumpKeep
<1>12. CASE Finish
  BY <1>12 DEF Finish
<1>13. CASE Release
  BY <1>13 DEF Release
<1>14. CASE OnOpen
  BY <1>14 DEF OnOpen
<1>15. CASE Greet
  <2> HIDE DEF Accepts, Refuses
  <2>1. cur \in Conns /\ opened[cur] /\ ~Refuses(cur)
    BY <1>15 DEF Greet
  <2>2. /\ UNCHANGED <<opened, cur>> /\ lpc = "greet" /\ lpc' = "flush"
        /\ \A d \in Conns : live'[d] => live[d]
    BY <1>15 DEF Greet, PushFails
  <2>3. CASE Write(cur, "200")
    <3>1. \A d \in Conns : /\ Accepts(d)' => Accepts(d) \/ d = cur
                           /\ Refuses(d)' => Refuses(d)
      BY <2>1, <2>3, Writes DEF Replies
    <3> QED
      BY <2>1, <2>2, <3>1
  <2>4. CASE reply' = reply
    BY <2>2, <2>4 DEF Accepts, Refuses
  <2> QED
    BY <1>15, <2>3, <2>4 DEF Greet
<1>16. CASE Flush
  BY <1>16 DEF Flush, PushFails
<1>17. CASE PassEnd
  BY <1>17 DEF PassEnd
<1>18. CASE OnError
  <2> HIDE DEF Accepts, Refuses
  <2>1. /\ cur \in Conns /\ UNCHANGED <<opened, cur, live>>
        /\ lpc = "onError" /\ lpc' = "onClose"
    BY <1>18 DEF OnError
  <2>2. CASE Write(cur, "502") /\ ~opened[cur]
    <3> HIDE DEF TypeOK, Locals, Calling, Fresh, Verdict
    <3>1. \A d \in Conns : /\ Accepts(d)' => Accepts(d)
                           /\ Refuses(d)' => Refuses(d) \/ d = cur
      BY <2>1, <2>2, Writes DEF Replies
    <3> QED
      BY <2>1, <2>2, <3>1 DEF Verdict
  <2>3. CASE reply' = reply
    BY <2>1, <2>3 DEF Accepts, Refuses
  <2> QED
    BY <1>18, <2>2, <2>3 DEF OnError
<1>19. CASE OnClose
  BY <1>19 DEF OnClose
<1>20. CASE OnCloseShut
  BY <1>20 DEF OnCloseShut
<1>21. CASE MarkLost
  BY <1>21 DEF MarkLost
<1>22. ASSUME NEW c \in Conns, ClientSends(c) PROVE Verdict'
  BY <1>22 DEF ClientSends
<1>23. ASSUME NEW c \in Conns, ClientHalfCloses(c) PROVE Verdict'
  BY <1>23 DEF ClientHalfCloses
<1>24. ASSUME NEW c \in Conns, ClientCloses(c) PROVE Verdict'
  BY <1>24 DEF ClientCloses
<1>25. ASSUME NEW c \in Conns, ServerConnected(c) PROVE Verdict'
  BY <1>25 DEF ServerConnected
<1>26. ASSUME NEW c \in Conns, OnData(c) PROVE Verdict'
  <2> HIDE DEF Accepts, Refuses
  <2>1. \A d \in Conns : (Accepts(d)' => Accepts(d)) /\ (Refuses(d)' => Refuses(d))
    BY <1>26, Writes DEF OnData, Replies
  <2>2. UNCHANGED <<opened, live, lpc, cur>>
    BY <1>26 DEF OnData
  <2> QED
    BY <2>1, <2>2
<1>27. ASSUME NEW c \in Conns, SessionEnds(c) PROVE Verdict'
  <2> HIDE DEF Accepts, Refuses
  <2>1. /\ ~Refuses(c) /\ cur' = c /\ UNCHANGED opened
        /\ \A d \in Conns : d # c => live'[d] = live[d]
        /\ lpc = "idle" /\ lpc' \in {"onClose", "onError"}
    BY <1>27 DEF SessionEnds
  <2>2. \A d \in Conns : (Accepts(d)' <=> Accepts(d)) /\ (Refuses(d)' <=> Refuses(d))
    BY <1>27 DEF SessionEnds, Accepts, Refuses
  <2> QED
    BY <2>1, <2>2
<1>28. CASE UNCHANGED vars
  BY <1>28 DEF vars
<1> QED
  BY <1>1, <1>2, <1>3, <1>4, <1>5, <1>6, <1>7, <1>8, <1>9, <1>10, <1>11, <1>12, <1>13, <1>14,
      <1>15, <1>16, <1>17, <1>18, <1>19, <1>20, <1>21, <1>22, <1>23, <1>24, <1>25, <1>26, <1>27,
      <1>28
  DEF Next, ProxyStep, Callback, Client, Server

LEMMA NextClosing == TypeOK /\ Locals /\ Calling /\ Fresh /\ Closing /\ [Next]_vars => Closing'
<1> SUFFICES ASSUME TypeOK, Locals, Calling, Fresh, Closing, [Next]_vars PROVE Closing'
  OBVIOUS
<1> USE ProxyAssumption DEF TypeOK, Locals, Calling, Fresh, Closing, Over, Handled, None,
      clientVars, sessVars, sharedVars, proxyVars, loopVars, CarryEnd, CanPush, Shut,
      AfterCallbacks, Waiting
<1>1. CASE Accept
  <2>1. PICK c \in Conns : /\ sock[c] = "none" /\ conn' = c /\ conn = None
                            /\ sock' = [sock EXCEPT ![c] = "open"]
    BY <1>1 DEF Accept
  <2>2. UNCHANGED <<live, closed, cur, lpc>> /\ ppc # "release" /\ ppc' # "release"
    BY <1>1 DEF Accept
  <2>3. ASSUME NEW d \in Conns PROVE (closed[d] => Over(d)) /\ (d # c => UNCHANGED sock[d])
    BY <2>1, <2>2
  <2>4. ~closed[c]
    BY <2>1
  <2> QED
    BY <2>1, <2>2, <2>3, <2>4
<1>2. CASE ReadHead
  BY <1>2 DEF ReadHead
<1>3. CASE OpenSession
  BY <1>3 DEF OpenSession
<1>4. CASE SetCallback
  BY <1>4 DEF SetCallback
<1>5. CASE PumpRead
  BY <1>5 DEF PumpRead
<1>6. CASE PumpEof
  BY <1>6 DEF PumpEof
<1>7. CASE PumpEnd
  BY <1>7 DEF PumpEnd
<1>8. CASE KeepEnd
  BY <1>8 DEF KeepEnd
<1>9. CASE PumpPiece
  BY <1>9 DEF PumpPiece
<1>10. CASE PumpPush
  BY <1>10 DEF PumpPush, PushFails
<1>11. CASE PumpKeep
  BY <1>11 DEF PumpKeep
<1>12. CASE Finish
  BY <1>12 DEF Finish
<1>13. CASE Release
  BY <1>13 DEF Release
<1>14. CASE OnOpen
  BY <1>14 DEF OnOpen
<1>15. CASE Greet
  BY <1>15 DEF Greet, PushFails
<1>16. CASE Flush
  BY <1>16 DEF Flush, PushFails
<1>17. CASE PassEnd
  BY <1>17 DEF PassEnd
<1>18. CASE OnError
  BY <1>18 DEF OnError
<1>19. CASE OnClose
  BY <1>19 DEF OnClose
<1>20. CASE OnCloseShut
  BY <1>20 DEF OnCloseShut
<1>21. CASE MarkLost
  BY <1>21 DEF MarkLost
<1>22. ASSUME NEW c \in Conns, ClientSends(c) PROVE Closing'
  BY <1>22 DEF ClientSends
<1>23. ASSUME NEW c \in Conns, ClientHalfCloses(c) PROVE Closing'
  BY <1>23 DEF ClientHalfCloses
<1>24. ASSUME NEW c \in Conns, ClientCloses(c) PROVE Closing'
  BY <1>24 DEF ClientCloses
<1>25. ASSUME NEW c \in Conns, ServerConnected(c) PROVE Closing'
  BY <1>25 DEF ServerConnected
<1>26. ASSUME NEW c \in Conns, OnData(c) PROVE Closing'
  BY <1>26 DEF OnData
<1>27. ASSUME NEW c \in Conns, SessionEnds(c) PROVE Closing'
  <2>1. /\ cur' = c /\ live[c] /\ UNCHANGED <<closed, sock, conn, ppc>>
        /\ \A d \in Conns : d # c => live'[d] = live[d]
        /\ lpc = "idle"
    BY <1>27 DEF SessionEnds
  <2> QED
    BY <2>1
<1>28. CASE UNCHANGED vars
  BY <1>28 DEF vars
<1> QED
  BY <1>1, <1>2, <1>3, <1>4, <1>5, <1>6, <1>7, <1>8, <1>9, <1>10, <1>11, <1>12, <1>13, <1>14,
      <1>15, <1>16, <1>17, <1>18, <1>19, <1>20, <1>21, <1>22, <1>23, <1>24, <1>25, <1>26, <1>27,
      <1>28
  DEF Next, ProxyStep, Callback, Client, Server

(* A connection that a step does not touch keeps its pieces where they are. *)
LEMMA Still ==
  ASSUME NEW c \in Conns, Placed(c),
         UNCHANGED <<uplink[c], pending[c], readPieces[c], upClosed[c]>>,
         InHand(c)' => InHand(c) /\ UNCHANGED piece,
         Unsent(c)' => Unsent(c),
         (cur = c /\ lpc = "flush")' => cur = c /\ lpc = "flush" /\ UNCHANGED flush
  PROVE  Placed(c)'
BY DEF Placed

LEMMA Ints ==
  ASSUME TypeOK, NEW c \in Conns
  PROVE  /\ \A x \in Els(uplink[c]) : x \in Int
         /\ \A x \in Els(pending[c]) : x \in Int
         /\ \A x \in Els(flush) : x \in Int
<1>1. /\ uplink[c] \in Seq(Pieces \cup {-1}) /\ pending[c] \in Seq(Pieces)
      /\ flush \in Seq(Pieces)
  BY DEF TypeOK
<1>2. Pieces \subseteq Int /\ Pieces \cup {-1} \subseteq Int
  BY ProxyAssumption DEF Pieces
<1>3. ASSUME NEW S, NEW q \in Seq(S), NEW x \in Els(q) PROVE x \in S
  BY <1>3 DEF Els
<1> QED
  BY <1>1, <1>2, <1>3

(* pushEnd carries the end at most once.                                   *)
LEMMA EndsPlaced ==
  ASSUME TypeOK, NEW c \in Conns, Placed(c), CarryEnd(c), readPieces[c] \in Nat,
         UNCHANGED <<pending, readPieces>>,
         InHand(c)' => InHand(c) /\ UNCHANGED piece,
         Unsent(c)' => Unsent(c),
         (cur = c /\ lpc = "flush")' => cur = c /\ lpc = "flush" /\ UNCHANGED flush,
         InHand(c) => piece > 0
  PROVE  /\ Placed(c)'
         /\ \A d \in Conns : d # c => UNCHANGED <<uplink[d], upClosed[d]>>
<1>0. Carry(c, End) /\ End \in Pieces \cup {-1}
  BY DEF CarryEnd, End
<1>1. /\ \A d \in Conns : d # c => uplink'[d] = uplink[d]
      /\ \A x \in Els(uplink'[c]) : x \in Els(uplink[c]) \/ x = End
      /\ End \in Els(uplink'[c]) => CanPush(c) \/ End \in Els(uplink[c])
      /\ Distinct(uplink[c]) /\ End \notin Els(uplink[c]) => Distinct(uplink'[c])
      /\ ~CanPush(c) => uplink' = uplink
  BY <1>0, Carries
<1>2. \A d \in Conns : d # c => upClosed'[d] = upClosed[d]
  BY DEF CarryEnd, TypeOK
<1>3. (upClosed[c] => upClosed'[c]) /\ (CanPush(c) => upClosed'[c] /\ ~upClosed[c])
  BY DEF CarryEnd, TypeOK, CanPush
<1>4. Placed(c)'
  BY <1>1, <1>3 DEF Placed, End
<1> QED
  BY <1>1, <1>2, <1>4

LEMMA NextOnePlace == TypeOK /\ Locals /\ Calling /\ Fresh /\ OnePlace /\ [Next]_vars => OnePlace'
<1> SUFFICES ASSUME TypeOK, Locals, Calling, Fresh, OnePlace, [Next]_vars PROVE OnePlace'
  OBVIOUS
<1> USE ProxyAssumption DEF TypeOK, Locals, Calling, Fresh, OnePlace, Placed, InHand, Unsent,
      Pieces, End, None, Shut, AfterCallbacks, Waiting, clientVars, sessVars, sharedVars,
      proxyVars, loopVars
<1>1. CASE Accept
  <2> HIDE DEF TypeOK, Locals, Calling, Fresh, OnePlace, Placed, InHand, Unsent, Pieces, End
  <2>1. /\ UNCHANGED <<uplink, pending, readPieces, upClosed, connected, cur, lpc, flush>>
        /\ ppc' = "head"
    BY <1>1 DEF Accept
  <2> QED
    BY <2>1, Still DEF OnePlace, InHand, Unsent
<1>2. CASE ReadHead
  <2> HIDE DEF TypeOK, Locals, Calling, Fresh, OnePlace, Placed, InHand, Unsent, Pieces, End
  <2>1. /\ UNCHANGED <<uplink, pending, upClosed, connected, cur, lpc, flush>>
        /\ \A c \in Conns : c # conn => readPieces'[c] = readPieces[c]
        /\ ppc' \in {"open", "accept"}
        /\ conn \in Conns /\ cur # conn /\ uplink[conn] = <<>> /\ pending[conn] = <<>>
    BY <1>2 DEF ReadHead, TypeOK, Locals, Fresh
  <2>2. ASSUME NEW c \in Conns, c = conn PROVE Placed(c)'
    BY <2>1, <2>2, Empties DEF Placed, InHand
  <2> QED
    BY <2>1, <2>2, Still DEF OnePlace, InHand, Unsent
<1>3. CASE OpenSession
  BY <1>3 DEF OpenSession
<1>4. CASE SetCallback
  BY <1>4 DEF SetCallback
<1>5. CASE PumpRead
  <2> HIDE DEF TypeOK, Locals, Calling, Fresh, OnePlace, Placed, InHand, Unsent, Pieces, End
  <2>1. /\ UNCHANGED <<uplink, pending, upClosed, connected, cur, lpc, flush, conn>>
        /\ conn \in Conns /\ readPieces[conn] \in Nat
        /\ readPieces \in [Conns -> Pieces]
    BY <1>5 DEF PumpRead, TypeOK, Locals, Pieces
  <2>2. CASE UNCHANGED readPieces /\ ppc' \in {"eof", "finish"}
    BY <2>1, <2>2, Still DEF OnePlace, InHand, Unsent
  <2>3. CASE /\ readPieces' = [readPieces EXCEPT ![conn] = readPieces[conn] + 1]
             /\ piece' = readPieces[conn] + 1
    <3>1. readPieces'[conn] = readPieces[conn] + 1
      BY <2>1, <2>3
    <3>2. /\ \A x \in Els(uplink[conn]) : x \in Int
          /\ \A x \in Els(pending[conn]) : x \in Int
          /\ cur = conn /\ lpc = "flush" => \A x \in Els(flush) : x \in Int
      BY <2>1, Ints DEF TypeOK
    <3>3. Placed(conn)
      BY <2>1 DEF OnePlace
    <3>4. Placed(conn)'
      BY <2>1, <2>3, <3>1, <3>2, <3>3 DEF Placed, InHand, Unsent
    <3>5. \A c \in Conns : c # conn => readPieces'[c] = readPieces[c]
      BY <2>1, <2>3
    <3> QED
      BY <2>1, <3>4, <3>5, Still DEF OnePlace, InHand, Unsent
  <2> QED
    BY <1>5, <2>2, <2>3 DEF PumpRead
<1>6. CASE PumpEof
  BY <1>6 DEF PumpEof
<1>7. CASE PumpEnd
  <2> HIDE DEF TypeOK, Locals, Calling, Fresh, OnePlace, Placed, InHand, Unsent, Pieces, End
  <2>1. /\ UNCHANGED <<pending, readPieces, connected, cur, lpc, flush, conn>>
        /\ conn \in Conns /\ readPieces[conn] \in Nat /\ ppc' = "finish"
        /\ CarryEnd(conn)
    BY <1>7 DEF PumpEnd, TypeOK, Locals, Pieces
  <2>2. \A d \in Conns : ~InHand(d)' /\ (Unsent(d)' => Unsent(d))
    BY <2>1 DEF InHand, Unsent
  <2>3. InHand(conn) => piece > 0
    BY DEF InHand, Locals
  <2>4. PICK c \in Conns : c = conn
    BY <2>1
  <2>5. Placed(c)' /\ \A d \in Conns : d # c => UNCHANGED <<uplink[d], upClosed[d]>>
    BY <2>1, <2>2, <2>3, <2>4, EndsPlaced DEF OnePlace
  <2> QED
    BY <2>1, <2>2, <2>5, Still DEF OnePlace
<1>8. CASE KeepEnd
  BY <1>8 DEF KeepEnd
<1>9. CASE PumpPiece
  BY <1>9 DEF PumpPiece
<1>10. CASE PumpPush
  <2> HIDE DEF TypeOK, Locals, Calling, Fresh, OnePlace, Placed, InHand, Unsent, Pieces, End
  <2>1. /\ UNCHANGED <<pending, readPieces, upClosed, connected, cur, lpc, flush, conn>>
        /\ conn \in Conns /\ ppc' \in {"pump", "finish"} /\ InHand(conn)
        /\ piece \in Pieces /\ piece = readPieces[conn] /\ piece > 0
    BY <1>10 DEF PumpPush, TypeOK, Locals, InHand
  <2>2. CASE uplink' = uplink
    BY <2>1, <2>2, Still DEF OnePlace, InHand, Unsent
  <2>3. CASE Carry(conn, piece)
    <3>1. /\ \A d \in Conns : d # conn => uplink'[d] = uplink[d]
          /\ \A x \in Els(uplink'[conn]) : x \in Els(uplink[conn]) \/ x = piece
          /\ Distinct(uplink[conn]) /\ piece \notin Els(uplink[conn]) => Distinct(uplink'[conn])
      BY <2>1, <2>3, Carries
    <3>2. Placed(conn) /\ ~InHand(conn)' /\ (Unsent(conn)' <=> Unsent(conn))
      BY <2>1 DEF OnePlace, InHand, Unsent
    <3>3. piece # End /\ piece # 0 /\ piece <= readPieces[conn]
      BY <2>1 DEF Pieces, End
    <3>4. Placed(conn)'
      BY <2>1, <3>1, <3>2, <3>3 DEF Placed
    <3> QED
      BY <2>1, <3>1, <3>4, Still DEF OnePlace, InHand, Unsent
  <2> QED
    BY <1>10, <2>2, <2>3 DEF PumpPush
<1>11. CASE PumpKeep
  <2> HIDE DEF TypeOK, Locals, Calling, Fresh, OnePlace, Placed, InHand, Unsent, Pieces, End
  <2>1. /\ UNCHANGED <<uplink, readPieces, upClosed, connected, cur, lpc, flush, conn>>
        /\ conn \in Conns /\ ppc' = "pump" /\ InHand(conn)
        /\ piece \in Pieces /\ piece = readPieces[conn] /\ piece > 0
        /\ pending[conn] \in Seq(Pieces)
        /\ pending' = [pending EXCEPT ![conn] = Append(pending[conn], piece)]
        /\ pending \in [Conns -> Seq(Pieces)]
    BY <1>11 DEF PumpKeep, TypeOK, Locals, InHand
  <2>2. /\ \A d \in Conns : d # conn => pending'[d] = pending[d]
        /\ pending'[conn] = Append(pending[conn], piece)
    BY <2>1
  <2>3. /\ \A x \in Els(pending'[conn]) : x \in Els(pending[conn]) \/ x = piece
        /\ Distinct(pending[conn]) /\ piece \notin Els(pending[conn]) => Distinct(pending'[conn])
    BY <2>1, <2>2, Appends
  <2>4. Placed(conn) /\ ~InHand(conn)' /\ (Unsent(conn)' <=> Unsent(conn))
    BY <2>1 DEF OnePlace, InHand, Unsent
  <2>5. piece # 0 /\ piece <= readPieces[conn]
    BY <2>1 DEF Pieces
  <2>6. Placed(conn)'
    BY <2>1, <2>3, <2>4, <2>5 DEF Placed
  <2> QED
    BY <2>1, <2>2, <2>6, Still DEF OnePlace, InHand, Unsent
<1>12. CASE Finish
  BY <1>12 DEF Finish
<1>13. CASE Release
  BY <1>13 DEF Release
<1>14. CASE OnOpen
  BY <1>14 DEF OnOpen
<1>15. CASE Greet
  <2> HIDE DEF TypeOK, Locals, Calling, Fresh, OnePlace, Placed, InHand, Unsent, Pieces, End
  <2>1. /\ UNCHANGED <<pending, readPieces, upClosed, connected, cur, conn, ppc, piece>>
        /\ cur \in Conns /\ connected[cur] /\ flush' = pending[cur]
        /\ lpc = "greet" /\ lpc' = "flush"
        /\ readPieces[cur] \in Nat /\ 0 \in Pieces
    BY <1>15 DEF Greet, TypeOK, Locals, Calling, Pieces
  <2>2. /\ \A d \in Conns : d # cur => uplink'[d] = uplink[d]
        /\ \A x \in Els(uplink'[cur]) : x \in Els(uplink[cur]) \/ x = 0
        /\ Distinct(uplink[cur]) /\ 0 \notin Els(uplink[cur]) => Distinct(uplink'[cur])
    <3>1. CASE Carry(cur, 0)
      BY <2>1, <3>1, Carries
    <3>2. CASE uplink' = uplink
      BY <3>2
    <3> QED
      BY <1>15, <3>1, <3>2 DEF Greet
  <2>3. Placed(cur) /\ Unsent(cur) /\ ~Unsent(cur)' /\ (InHand(cur)' <=> InHand(cur))
    BY <2>1 DEF OnePlace, InHand, Unsent
  <2>4. InHand(cur) => piece > 0
    BY DEF InHand, Locals
  <2>5. Placed(cur)'
    BY <2>1, <2>2, <2>3, <2>4 DEF Placed, End
  <2> QED
    BY <2>1, <2>2, <2>5, Still DEF OnePlace, InHand, Unsent
<1>16. CASE Flush
  <2> HIDE DEF TypeOK, Locals, Calling, Fresh, OnePlace, Placed, InHand, Unsent, Pieces, End
  <2>1. /\ UNCHANGED <<readPieces, upClosed, connected, cur, conn, ppc, piece>>
        /\ cur \in Conns /\ connected[cur] /\ flush \in Seq(Pieces) /\ lpc = "flush"
    BY <1>16 DEF Flush, TypeOK, Locals, Calling
  <2>2. Placed(cur) /\ ~Unsent(cur) /\ ~Unsent(cur)' /\ (InHand(cur)' <=> InHand(cur))
    BY <1>16, <2>1 DEF OnePlace, InHand, Unsent, Flush
  <2>3. \A d \in Conns : d # cur => (Unsent(d)' <=> Unsent(d)) /\ (InHand(d)' <=> InHand(d))
    BY <1>16, <2>1 DEF InHand, Unsent, Flush
  <2>4. CASE flush = <<>>
    <3>1. /\ UNCHANGED <<uplink, flush>> /\ lpc' = "half"
          /\ pending' = [pending EXCEPT ![cur] = <<>>] /\ pending \in [Conns -> Seq(Pieces)]
      BY <1>16, <2>4 DEF Flush, TypeOK
    <3>2. pending'[cur] = <<>> /\ \A d \in Conns : d # cur => pending'[d] = pending[d]
      BY <2>1, <3>1
    <3>3. Placed(cur)'
      BY <2>1, <2>2, <3>1, <3>2, Empties DEF Placed
    <3> QED
      BY <2>1, <2>3, <3>1, <3>2, <3>3, Still DEF OnePlace
  <2>5. CASE flush # <<>>
    <3>1. /\ UNCHANGED <<pending, lpc>> /\ flush' = Tail(flush)
          /\ Carry(cur, Head(flush)) \/ UNCHANGED uplink
      BY <1>16, <2>5 DEF Flush
    <3>2. /\ Head(flush) \in Pieces /\ Head(flush) \in Els(flush)
          /\ \A x \in Els(flush') : x \in Els(flush)
          /\ Distinct(flush) => Distinct(flush') /\ Head(flush) \notin Els(flush')
      BY <2>1, <2>5, <3>1, Splits
    <3> DEFINE h == Head(flush)
    <3>3. /\ \A d \in Conns : d # cur => uplink'[d] = uplink[d]
          /\ \A x \in Els(uplink'[cur]) : x \in Els(uplink[cur]) \/ x = h
          /\ Distinct(uplink[cur]) /\ h \notin Els(uplink[cur]) => Distinct(uplink'[cur])
      BY <2>1, <3>1, <3>2, Carries
    <3>4. h \in Els(flush) /\ h # End
      BY <3>2 DEF Pieces, End
    <3>5. Distinct(flush') /\ h \notin Els(flush')
      BY <2>1, <2>2, <3>2 DEF Placed
    <3> HIDE DEF h
    <3>6. Placed(cur)'
      BY <2>1, <2>2, <3>1, <3>2, <3>3, <3>4, <3>5 DEF Placed
    <3> QED
      BY <2>1, <2>3, <3>1, <3>3, <3>6, Still DEF OnePlace
  <2> QED
    BY <2>4, <2>5
<1>17. CASE PassEnd
  <2> HIDE DEF TypeOK, Locals, Calling, Fresh, OnePlace, Placed, InHand, Unsent, Pieces, End
  <2>1. /\ UNCHANGED <<pending, readPieces, connected, flush, conn, ppc, piece>>
        /\ cur \in Conns /\ readPieces[cur] \in Nat /\ connected[cur]
        /\ lpc = "half" /\ lpc' = "idle"
    BY <1>17 DEF PassEnd, TypeOK, Locals, Calling, Pieces
  <2>2. \A d \in Conns : (Unsent(d)' => Unsent(d)) /\ (InHand(d)' <=> InHand(d))
    BY <2>1 DEF InHand, Unsent
  <2>3. CASE CarryEnd(cur)
    <3>1. PICK c \in Conns : c = cur
      BY <2>1
    <3>2. InHand(c) => piece > 0
      BY DEF InHand, Locals
    <3>3. Placed(c)' /\ \A d \in Conns : d # c => UNCHANGED <<uplink[d], upClosed[d]>>
      BY <2>1, <2>2, <2>3, <3>1, <3>2, EndsPlaced DEF OnePlace
    <3> QED
      BY <2>1, <2>2, <3>3, Still DEF OnePlace
  <2>4. CASE UNCHANGED <<uplink, upClosed>>
    BY <2>1, <2>2, <2>4, Still DEF OnePlace
  <2> QED
    BY <1>17, <2>3, <2>4 DEF PassEnd
<1>18. CASE OnError
  BY <1>18 DEF OnError
<1>19. CASE OnClose
  BY <1>19 DEF OnClose
<1>20. CASE OnCloseShut
  BY <1>20 DEF OnCloseShut
<1>21. CASE MarkLost
  BY <1>21 DEF MarkLost
<1>22. ASSUME NEW c \in Conns, ClientSends(c) PROVE OnePlace'
  BY <1>22 DEF ClientSends
<1>23. ASSUME NEW c \in Conns, ClientHalfCloses(c) PROVE OnePlace'
  BY <1>23 DEF ClientHalfCloses
<1>24. ASSUME NEW c \in Conns, ClientCloses(c) PROVE OnePlace'
  BY <1>24 DEF ClientCloses
<1>25. ASSUME NEW c \in Conns, ServerConnected(c) PROVE OnePlace'
  <2> HIDE DEF TypeOK, Locals, Calling, Fresh, OnePlace, Placed, InHand, Unsent, Pieces, End
  <2>1. /\ UNCHANGED <<uplink, pending, readPieces, upClosed, conn, ppc, piece, flush>>
        /\ lpc = "idle" /\ lpc' \in {"idle", "onOpen"} /\ ~connected[c]
        /\ connected' = [connected EXCEPT ![c] = TRUE]
        /\ lpc' = "onOpen" => cur' = c
    BY <1>25 DEF ServerConnected
  <2>2. \A d \in Conns : (Unsent(d)' => Unsent(d)) /\ (InHand(d)' <=> InHand(d))
    BY <2>1 DEF InHand, Unsent, TypeOK
  <2> QED
    BY <2>1, <2>2, Still DEF OnePlace
<1>26. ASSUME NEW c \in Conns, OnData(c) PROVE OnePlace'
  BY <1>26 DEF OnData
<1>27. ASSUME NEW c \in Conns, SessionEnds(c) PROVE OnePlace'
  BY <1>27 DEF SessionEnds
<1>28. CASE UNCHANGED vars
  BY <1>28 DEF vars
<1> QED
  BY <1>1, <1>2, <1>3, <1>4, <1>5, <1>6, <1>7, <1>8, <1>9, <1>10, <1>11, <1>12, <1>13, <1>14,
      <1>15, <1>16, <1>17, <1>18, <1>19, <1>20, <1>21, <1>22, <1>23, <1>24, <1>25, <1>26, <1>27,
      <1>28
  DEF Next, ProxyStep, Callback, Client, Server

(* TypeOK in parts, each with the variables that change together.          *)
ClientTypes ==
  /\ kind \in [Conns -> {"connect", "plain", "bad"}]
  /\ sentPieces \in [Conns -> Pieces] /\ withHead \in [Conns -> {0, 1}]
  /\ eof \in [Conns -> BOOLEAN] /\ gone \in [Conns -> BOOLEAN]

FlagTypes ==
  /\ sock \in [Conns -> {"none", "open", "closed"}]
  /\ live \in [Conns -> BOOLEAN] /\ upClosed \in [Conns -> BOOLEAN]
  /\ connected \in [Conns -> BOOLEAN]
  /\ opened \in [Conns -> BOOLEAN] /\ halfPending \in [Conns -> BOOLEAN]
  /\ closed \in [Conns -> BOOLEAN]

CountTypes == readPieces \in [Conns -> Pieces] /\ hooks \in [Conns -> 0 .. 4]

SeqTypes ==
  /\ reply \in [Conns -> Seq(Replies)] /\ uplink \in [Conns -> Seq(Pieces \cup {-1})]
  /\ pending \in [Conns -> Seq(Pieces)] /\ flush \in Seq(Pieces)

ThreadTypes ==
  /\ crashed \in BOOLEAN
  /\ ppc \in {"accept", "head", "open", "hooks", "pump", "eof", "end", "keepEnd",
              "piece", "push", "keep", "finish", "release"}
  /\ conn \in Conns \cup {None} /\ piece \in Pieces
  /\ lpc \in {"idle", "onOpen", "greet", "flush", "half", "onError", "onClose", "shut", "mark"}
  /\ cur \in Conns \cup {None}
  /\ ending \in {"none", "close", "error", "lost"}

LEMMA TypeParts ==
  TypeOK <=> ClientTypes /\ FlagTypes /\ CountTypes /\ SeqTypes /\ ThreadTypes
BY DEF TypeOK, ClientTypes, FlagTypes, CountTypes, SeqTypes, ThreadTypes

LEMMA NextClientTypes == TypeOK /\ Locals /\ [Next]_vars => ClientTypes'
<1> SUFFICES ASSUME TypeOK, Locals, [Next]_vars PROVE ClientTypes'
  OBVIOUS
<1> USE ProxyAssumption DEF TypeOK, Locals, ClientTypes, None, Waiting, clientVars, sessVars,
      sharedVars, proxyVars, loopVars
<1>1. CASE Accept
  BY <1>1 DEF Accept
<1>2. CASE ReadHead
  <2>1. conn \in Conns /\ UNCHANGED <<kind, sentPieces, eof, gone>>
    BY <1>2 DEF ReadHead
  <2>2. CASE UNCHANGED withHead
    BY <2>1, <2>2
  <2>3. ASSUME NEW n \in {0, 1}, withHead' = [withHead EXCEPT ![conn] = n]
        PROVE  ClientTypes'
    BY <2>1, <2>3
  <2> QED
    BY <1>2, <2>2, <2>3 DEF ReadHead
<1>3. CASE OpenSession
  BY <1>3 DEF OpenSession
<1>4. CASE SetCallback
  BY <1>4 DEF SetCallback
<1>5. CASE PumpRead
  BY <1>5 DEF PumpRead
<1>6. CASE PumpEof
  BY <1>6 DEF PumpEof
<1>7. CASE PumpEnd
  BY <1>7 DEF PumpEnd
<1>8. CASE KeepEnd
  BY <1>8 DEF KeepEnd
<1>9. CASE PumpPiece
  BY <1>9 DEF PumpPiece
<1>10. CASE PumpPush
  BY <1>10 DEF PumpPush
<1>11. CASE PumpKeep
  BY <1>11 DEF PumpKeep
<1>12. CASE Finish
  BY <1>12 DEF Finish
<1>13. CASE Release
  BY <1>13 DEF Release
<1>14. CASE OnOpen
  BY <1>14 DEF OnOpen
<1>15. CASE Greet
  BY <1>15 DEF Greet
<1>16. CASE Flush
  BY <1>16 DEF Flush
<1>17. CASE PassEnd
  BY <1>17 DEF PassEnd
<1>18. CASE OnError
  BY <1>18 DEF OnError
<1>19. CASE OnClose
  BY <1>19 DEF OnClose
<1>20. CASE OnCloseShut
  BY <1>20 DEF OnCloseShut
<1>21. CASE MarkLost
  BY <1>21 DEF MarkLost
<1>22. ASSUME NEW c \in Conns, ClientSends(c) PROVE ClientTypes'
  <2>1. /\ sentPieces' = [sentPieces EXCEPT ![c] = sentPieces[c] + 1]
        /\ sentPieces[c] < MaxPieces /\ UNCHANGED <<kind, withHead, eof, gone>>
    BY <1>22 DEF ClientSends
  <2>2. sentPieces[c] + 1 \in Pieces
    BY <2>1 DEF Pieces
  <2> QED
    BY <2>1, <2>2
<1>23. ASSUME NEW c \in Conns, ClientHalfCloses(c) PROVE ClientTypes'
  BY <1>23 DEF ClientHalfCloses
<1>24. ASSUME NEW c \in Conns, ClientCloses(c) PROVE ClientTypes'
  BY <1>24 DEF ClientCloses
<1>25. ASSUME NEW c \in Conns, ServerConnected(c) PROVE ClientTypes'
  BY <1>25 DEF ServerConnected
<1>26. ASSUME NEW c \in Conns, OnData(c) PROVE ClientTypes'
  BY <1>26 DEF OnData
<1>27. ASSUME NEW c \in Conns, SessionEnds(c) PROVE ClientTypes'
  BY <1>27 DEF SessionEnds
<1>28. CASE UNCHANGED vars
  BY <1>28 DEF vars
<1> QED
  BY <1>1, <1>2, <1>3, <1>4, <1>5, <1>6, <1>7, <1>8, <1>9, <1>10, <1>11, <1>12, <1>13, <1>14,
      <1>15, <1>16, <1>17, <1>18, <1>19, <1>20, <1>21, <1>22, <1>23, <1>24, <1>25, <1>26, <1>27,
      <1>28
  DEF Next, ProxyStep, Callback, Client, Server

LEMMA NextFlagTypes == TypeOK /\ Locals /\ [Next]_vars => FlagTypes'
<1> SUFFICES ASSUME TypeOK, Locals, [Next]_vars PROVE FlagTypes'
  OBVIOUS
<1> USE ProxyAssumption DEF TypeOK, Locals, FlagTypes, None, Waiting, Shut, CarryEnd,
      clientVars, sessVars, sharedVars, proxyVars, loopVars
<1>1. CASE Accept
  BY <1>1 DEF Accept
<1>2. CASE ReadHead
  BY <1>2 DEF ReadHead
<1>3. CASE OpenSession
  BY <1>3 DEF OpenSession
<1>4. CASE SetCallback
  BY <1>4 DEF SetCallback
<1>5. CASE PumpRead
  BY <1>5 DEF PumpRead
<1>6. CASE PumpEof
  BY <1>6 DEF PumpEof
<1>7. CASE PumpEnd
  BY <1>7 DEF PumpEnd
<1>8. CASE KeepEnd
  BY <1>8 DEF KeepEnd
<1>9. CASE PumpPiece
  BY <1>9 DEF PumpPiece
<1>10. CASE PumpPush
  BY <1>10 DEF PumpPush, PushFails
<1>11. CASE PumpKeep
  BY <1>11 DEF PumpKeep
<1>12. CASE Finish
  BY <1>12 DEF Finish
<1>13. CASE Release
  BY <1>13 DEF Release
<1>14. CASE OnOpen
  BY <1>14 DEF OnOpen
<1>15. CASE Greet
  BY <1>15 DEF Greet, PushFails
<1>16. CASE Flush
  BY <1>16 DEF Flush, PushFails
<1>17. CASE PassEnd
  BY <1>17 DEF PassEnd
<1>18. CASE OnError
  BY <1>18 DEF OnError
<1>19. CASE OnClose
  BY <1>19 DEF OnClose
<1>20. CASE OnCloseShut
  BY <1>20 DEF OnCloseShut
<1>21. CASE MarkLost
  BY <1>21 DEF MarkLost
<1>22. ASSUME NEW c \in Conns, ClientSends(c) PROVE FlagTypes'
  BY <1>22 DEF ClientSends
<1>23. ASSUME NEW c \in Conns, ClientHalfCloses(c) PROVE FlagTypes'
  BY <1>23 DEF ClientHalfCloses
<1>24. ASSUME NEW c \in Conns, ClientCloses(c) PROVE FlagTypes'
  BY <1>24 DEF ClientCloses
<1>25. ASSUME NEW c \in Conns, ServerConnected(c) PROVE FlagTypes'
  BY <1>25 DEF ServerConnected
<1>26. ASSUME NEW c \in Conns, OnData(c) PROVE FlagTypes'
  BY <1>26 DEF OnData
<1>27. ASSUME NEW c \in Conns, SessionEnds(c) PROVE FlagTypes'
  BY <1>27 DEF SessionEnds
<1>28. CASE UNCHANGED vars
  BY <1>28 DEF vars
<1> QED
  BY <1>1, <1>2, <1>3, <1>4, <1>5, <1>6, <1>7, <1>8, <1>9, <1>10, <1>11, <1>12, <1>13, <1>14,
      <1>15, <1>16, <1>17, <1>18, <1>19, <1>20, <1>21, <1>22, <1>23, <1>24, <1>25, <1>26, <1>27,
      <1>28
  DEF Next, ProxyStep, Callback, Client, Server

LEMMA NextCountTypes == TypeOK /\ Locals /\ [Next]_vars => CountTypes'
<1> SUFFICES ASSUME TypeOK, Locals, [Next]_vars PROVE CountTypes'
  OBVIOUS
<1> USE ProxyAssumption DEF TypeOK, Locals, CountTypes, None, Waiting, Shut, clientVars,
      sessVars, sharedVars, proxyVars, loopVars
<1>1. CASE Accept
  BY <1>1 DEF Accept
<1>2. CASE ReadHead
  <2>1. conn \in Conns /\ UNCHANGED hooks
    BY <1>2 DEF ReadHead
  <2>2. CASE UNCHANGED readPieces
    BY <2>1, <2>2
  <2>3. ASSUME NEW n \in {0, 1}, n <= sentPieces[conn],
               readPieces' = [readPieces EXCEPT ![conn] = n]
        PROVE  CountTypes'
    <3>1. n \in Pieces
      BY <2>1, <2>3 DEF Pieces
    <3> QED
      BY <2>1, <2>3, <3>1
  <2> QED
    BY <1>2, <2>2, <2>3 DEF ReadHead
<1>3. CASE OpenSession
  BY <1>3 DEF OpenSession
<1>4. CASE SetCallback
  <2>1. conn \in Conns /\ hooks[conn] \in 0 .. 4 /\ hooks[conn] < 4
    BY <1>4 DEF SetCallback
  <2>2. hooks' = [hooks EXCEPT ![conn] = hooks[conn] + 1] /\ UNCHANGED readPieces
    BY <1>4 DEF SetCallback
  <2>3. hooks[conn] + 1 \in 0 .. 4
    BY <2>1
  <2> QED
    BY <2>1, <2>2, <2>3
<1>5. CASE PumpRead
  <2>1. conn \in Conns /\ UNCHANGED hooks
    BY <1>5 DEF PumpRead
  <2>2. CASE UNCHANGED readPieces
    BY <2>1, <2>2
  <2>3. CASE /\ readPieces' = [readPieces EXCEPT ![conn] = readPieces[conn] + 1]
             /\ readPieces[conn] < sentPieces[conn]
    <3>1. readPieces[conn] + 1 \in Pieces
      <4>1. readPieces[conn] \in Pieces /\ sentPieces[conn] \in Pieces
        BY <2>1
      <4> HIDE DEF TypeOK, Locals, CountTypes
      <4> QED
        BY <2>3, <4>1, ProxyAssumption DEF Pieces
    <3> QED
      BY <2>1, <2>3, <3>1
  <2> QED
    BY <1>5, <2>2, <2>3 DEF PumpRead
<1>6. CASE PumpEof
  BY <1>6 DEF PumpEof
<1>7. CASE PumpEnd
  BY <1>7 DEF PumpEnd
<1>8. CASE KeepEnd
  BY <1>8 DEF KeepEnd
<1>9. CASE PumpPiece
  BY <1>9 DEF PumpPiece
<1>10. CASE PumpPush
  BY <1>10 DEF PumpPush
<1>11. CASE PumpKeep
  BY <1>11 DEF PumpKeep
<1>12. CASE Finish
  BY <1>12 DEF Finish
<1>13. CASE Release
  BY <1>13 DEF Release
<1>14. CASE OnOpen
  BY <1>14 DEF OnOpen
<1>15. CASE Greet
  BY <1>15 DEF Greet
<1>16. CASE Flush
  BY <1>16 DEF Flush
<1>17. CASE PassEnd
  BY <1>17 DEF PassEnd
<1>18. CASE OnError
  BY <1>18 DEF OnError
<1>19. CASE OnClose
  BY <1>19 DEF OnClose
<1>20. CASE OnCloseShut
  BY <1>20 DEF OnCloseShut
<1>21. CASE MarkLost
  BY <1>21 DEF MarkLost
<1>22. ASSUME NEW c \in Conns, ClientSends(c) PROVE CountTypes'
  BY <1>22 DEF ClientSends
<1>23. ASSUME NEW c \in Conns, ClientHalfCloses(c) PROVE CountTypes'
  BY <1>23 DEF ClientHalfCloses
<1>24. ASSUME NEW c \in Conns, ClientCloses(c) PROVE CountTypes'
  BY <1>24 DEF ClientCloses
<1>25. ASSUME NEW c \in Conns, ServerConnected(c) PROVE CountTypes'
  BY <1>25 DEF ServerConnected
<1>26. ASSUME NEW c \in Conns, OnData(c) PROVE CountTypes'
  BY <1>26 DEF OnData
<1>27. ASSUME NEW c \in Conns, SessionEnds(c) PROVE CountTypes'
  BY <1>27 DEF SessionEnds
<1>28. CASE UNCHANGED vars
  BY <1>28 DEF vars
<1> QED
  BY <1>1, <1>2, <1>3, <1>4, <1>5, <1>6, <1>7, <1>8, <1>9, <1>10, <1>11, <1>12, <1>13, <1>14,
      <1>15, <1>16, <1>17, <1>18, <1>19, <1>20, <1>21, <1>22, <1>23, <1>24, <1>25, <1>26, <1>27,
      <1>28
  DEF Next, ProxyStep, Callback, Client, Server

LEMMA NextSeqTypes == TypeOK /\ Locals /\ [Next]_vars => SeqTypes'
<1> SUFFICES ASSUME TypeOK, Locals, [Next]_vars PROVE SeqTypes'
  OBVIOUS
<1> USE ProxyAssumption DEF TypeOK, Locals, SeqTypes, None, Waiting, Shut, clientVars, sessVars,
      sharedVars, proxyVars, loopVars
<1>1. CASE Accept
  BY <1>1 DEF Accept
<1>2. CASE ReadHead
  <2>1. conn \in Conns /\ "400" \in Replies
    BY <1>2 DEF ReadHead, Replies
  <2>2. UNCHANGED <<uplink, pending, flush>>
    BY <1>2 DEF ReadHead
  <2> HIDE DEF Locals
  <2>3. CASE Write(conn, "400")
    BY <2>1, <2>2, <2>3, Writes
  <2>4. CASE reply' = reply
    BY <2>2, <2>4
  <2> QED
    BY <1>2, <2>3, <2>4 DEF ReadHead
<1>3. CASE OpenSession
  <2>1. conn \in Conns /\ "502" \in Replies
    BY <1>3 DEF OpenSession, Replies
  <2>2. UNCHANGED <<uplink, pending, flush>>
    BY <1>3 DEF OpenSession
  <2> HIDE DEF Locals
  <2>3. CASE Write(conn, "502")
    BY <2>1, <2>2, <2>3, Writes
  <2>4. CASE reply' = reply
    BY <2>2, <2>4
  <2> QED
    BY <1>3, <2>3, <2>4 DEF OpenSession
<1>4. CASE SetCallback
  BY <1>4 DEF SetCallback
<1>5. CASE PumpRead
  BY <1>5 DEF PumpRead
<1>6. CASE PumpEof
  BY <1>6 DEF PumpEof
<1>7. CASE PumpEnd
  <2>1. conn \in Conns /\ End \in Pieces \cup {-1}
    BY <1>7, ProxyAssumption DEF PumpEnd, Pieces, End
  <2>2. UNCHANGED <<reply, pending, flush>>
    BY <1>7 DEF PumpEnd
  <2> HIDE DEF Locals
  <2>3. CASE Carry(conn, End)
    BY <2>1, <2>2, <2>3, Carries
  <2>4. CASE uplink' = uplink
    BY <2>2, <2>4
  <2> QED
    BY <1>7, <2>3, <2>4 DEF PumpEnd, CarryEnd
<1>8. CASE KeepEnd
  BY <1>8 DEF KeepEnd
<1>9. CASE PumpPiece
  BY <1>9 DEF PumpPiece
<1>10. CASE PumpPush
  <2>1. conn \in Conns /\ piece \in Pieces \cup {-1}
    BY <1>10, ProxyAssumption DEF PumpPush, Pieces, End
  <2>2. UNCHANGED <<reply, pending, flush>>
    BY <1>10 DEF PumpPush
  <2> HIDE DEF Locals
  <2>3. CASE Carry(conn, piece)
    BY <2>1, <2>2, <2>3, Carries
  <2>4. CASE uplink' = uplink
    BY <2>2, <2>4
  <2> QED
    BY <1>10, <2>3, <2>4 DEF PumpPush, CarryEnd
<1>11. CASE PumpKeep
  <2>1. /\ conn \in Conns /\ piece \in Pieces /\ UNCHANGED <<uplink, reply, flush>>
        /\ pending' = [pending EXCEPT ![conn] = Append(pending[conn], piece)]
    BY <1>11 DEF PumpKeep
  <2>2. Append(pending[conn], piece) \in Seq(Pieces)
    BY <2>1
  <2> QED
    BY <2>1, <2>2
<1>12. CASE Finish
  BY <1>12 DEF Finish
<1>13. CASE Release
  BY <1>13 DEF Release
<1>14. CASE OnOpen
  BY <1>14 DEF OnOpen
<1>15. CASE Greet
  <2>1. /\ cur \in Conns /\ "200" \in Replies /\ 0 \in Pieces \cup {-1}
        /\ pending' = pending /\ flush' = pending[cur]
    BY <1>15, ProxyAssumption DEF Greet, Replies, Pieces
  <2> HIDE DEF Locals
  <2>2. pending' \in [Conns -> Seq(Pieces)] /\ flush' \in Seq(Pieces)
    BY <2>1
  <2>3. CASE Write(cur, "200") /\ UNCHANGED uplink
    BY <2>1, <2>2, <2>3, Writes
  <2>4. CASE Carry(cur, 0) /\ UNCHANGED reply
    BY <2>1, <2>2, <2>4, Carries
  <2>5. CASE UNCHANGED <<uplink, reply>>
    BY <2>1, <2>2, <2>5
  <2> QED
    BY <1>15, <2>3, <2>4, <2>5 DEF Greet
<1>16. CASE Flush
  <2>1. cur \in Conns /\ UNCHANGED reply
    BY <1>16 DEF Flush
  <2> HIDE DEF Locals
  <2>2. CASE flush = <<>>
    <3>1. /\ UNCHANGED <<uplink, flush>> /\ <<>> \in Seq(Pieces)
          /\ pending' = [pending EXCEPT ![cur] = <<>>]
      BY <1>16, <2>2 DEF Flush
    <3> QED
      BY <2>1, <3>1
  <2>3. CASE flush # <<>>
    <3>1. /\ Carry(cur, Head(flush)) \/ UNCHANGED uplink
          /\ flush' = Tail(flush) /\ UNCHANGED pending
      BY <1>16, <2>3 DEF Flush
    <3>2. Head(flush) \in Pieces /\ Tail(flush) \in Seq(Pieces)
      BY <2>3, Splits
    <3>3. uplink' \in [Conns -> Seq(Pieces \cup {-1})]
      BY <2>1, <3>1, <3>2, Carries
    <3> QED
      BY <2>1, <3>1, <3>2, <3>3
  <2> QED
    BY <2>2, <2>3
<1>17. CASE PassEnd
  <2>1. cur \in Conns /\ End \in Pieces \cup {-1}
    BY <1>17, ProxyAssumption DEF PassEnd, Pieces, End
  <2>2. UNCHANGED <<reply, pending, flush>>
    BY <1>17 DEF PassEnd
  <2> HIDE DEF Locals
  <2>3. CASE Carry(cur, End)
    BY <2>1, <2>2, <2>3, Carries
  <2>4. CASE uplink' = uplink
    BY <2>2, <2>4
  <2> QED
    BY <1>17, <2>3, <2>4 DEF PassEnd, CarryEnd
<1>18. CASE OnError
  <2>1. cur \in Conns /\ "502" \in Replies
    BY <1>18 DEF OnError, Replies
  <2>2. UNCHANGED <<uplink, pending, flush>>
    BY <1>18 DEF OnError
  <2> HIDE DEF Locals
  <2>3. CASE Write(cur, "502")
    BY <2>1, <2>2, <2>3, Writes
  <2>4. CASE reply' = reply
    BY <2>2, <2>4
  <2> QED
    BY <1>18, <2>3, <2>4 DEF OnError
<1>19. CASE OnClose
  BY <1>19 DEF OnClose
<1>20. CASE OnCloseShut
  BY <1>20 DEF OnCloseShut
<1>21. CASE MarkLost
  BY <1>21 DEF MarkLost
<1>22. ASSUME NEW c \in Conns, ClientSends(c) PROVE SeqTypes'
  BY <1>22 DEF ClientSends
<1>23. ASSUME NEW c \in Conns, ClientHalfCloses(c) PROVE SeqTypes'
  BY <1>23 DEF ClientHalfCloses
<1>24. ASSUME NEW c \in Conns, ClientCloses(c) PROVE SeqTypes'
  BY <1>24 DEF ClientCloses
<1>25. ASSUME NEW c \in Conns, ServerConnected(c) PROVE SeqTypes'
  BY <1>25 DEF ServerConnected
<1>26. ASSUME NEW c \in Conns, OnData(c) PROVE SeqTypes'
  <2>1. Write(c, "data") /\ "data" \in Replies /\ UNCHANGED <<uplink, pending, flush>>
    BY <1>26 DEF OnData, Replies
  <2> HIDE DEF Locals
  <2> QED
    BY <2>1, Writes
<1>27. ASSUME NEW c \in Conns, SessionEnds(c) PROVE SeqTypes'
  BY <1>27 DEF SessionEnds
<1>28. CASE UNCHANGED vars
  BY <1>28 DEF vars
<1> QED
  BY <1>1, <1>2, <1>3, <1>4, <1>5, <1>6, <1>7, <1>8, <1>9, <1>10, <1>11, <1>12, <1>13, <1>14,
      <1>15, <1>16, <1>17, <1>18, <1>19, <1>20, <1>21, <1>22, <1>23, <1>24, <1>25, <1>26, <1>27,
      <1>28
  DEF Next, ProxyStep, Callback, Client, Server

LEMMA NextThreadTypes == TypeOK /\ Locals /\ [Next]_vars => ThreadTypes'
<1> SUFFICES ASSUME TypeOK, Locals, [Next]_vars PROVE ThreadTypes'
  OBVIOUS
<1> USE ProxyAssumption DEF TypeOK, Locals, ThreadTypes, None, Waiting, AfterCallbacks,
      clientVars, sessVars, sharedVars, proxyVars, loopVars
<1>1. CASE Accept
  BY <1>1 DEF Accept
<1>2. CASE ReadHead
  BY <1>2 DEF ReadHead
<1>3. CASE OpenSession
  BY <1>3 DEF OpenSession
<1>4. CASE SetCallback
  BY <1>4 DEF SetCallback
<1>5. CASE PumpRead
  <2>1. conn \in Conns /\ UNCHANGED <<crashed, conn, lpc, cur, ending>>
    BY <1>5 DEF PumpRead
  <2>2. piece' \in Pieces
    <3>1. CASE piece' = readPieces[conn] + 1 /\ readPieces[conn] < sentPieces[conn]
      <4>1. readPieces[conn] \in Pieces /\ sentPieces[conn] \in Pieces
        BY <2>1
      <4> HIDE DEF TypeOK, Locals
      <4> QED
        BY <3>1, <4>1, ProxyAssumption DEF Pieces
    <3>2. CASE UNCHANGED piece
      BY <3>2
    <3> QED
      BY <1>5, <3>1, <3>2 DEF PumpRead
  <2>3. ppc' \in {"piece", "eof", "finish"}
    BY <1>5 DEF PumpRead
  <2> QED
    BY <2>1, <2>2, <2>3
<1>6. CASE PumpEof
  BY <1>6 DEF PumpEof
<1>7. CASE PumpEnd
  BY <1>7 DEF PumpEnd
<1>8. CASE KeepEnd
  BY <1>8 DEF KeepEnd
<1>9. CASE PumpPiece
  BY <1>9 DEF PumpPiece
<1>10. CASE PumpPush
  BY <1>10 DEF PumpPush
<1>11. CASE PumpKeep
  BY <1>11 DEF PumpKeep
<1>12. CASE Finish
  BY <1>12 DEF Finish
<1>13. CASE Release
  BY <1>13 DEF Release
<1>14. CASE OnOpen
  BY <1>14 DEF OnOpen
<1>15. CASE Greet
  BY <1>15 DEF Greet
<1>16. CASE Flush
  BY <1>16 DEF Flush
<1>17. CASE PassEnd
  BY <1>17 DEF PassEnd
<1>18. CASE OnError
  BY <1>18 DEF OnError
<1>19. CASE OnClose
  BY <1>19 DEF OnClose
<1>20. CASE OnCloseShut
  BY <1>20 DEF OnCloseShut
<1>21. CASE MarkLost
  BY <1>21 DEF MarkLost
<1>22. ASSUME NEW c \in Conns, ClientSends(c) PROVE ThreadTypes'
  BY <1>22 DEF ClientSends
<1>23. ASSUME NEW c \in Conns, ClientHalfCloses(c) PROVE ThreadTypes'
  BY <1>23 DEF ClientHalfCloses
<1>24. ASSUME NEW c \in Conns, ClientCloses(c) PROVE ThreadTypes'
  BY <1>24 DEF ClientCloses
<1>25. ASSUME NEW c \in Conns, ServerConnected(c) PROVE ThreadTypes'
  BY <1>25 DEF ServerConnected
<1>26. ASSUME NEW c \in Conns, OnData(c) PROVE ThreadTypes'
  BY <1>26 DEF OnData
<1>27. ASSUME NEW c \in Conns, SessionEnds(c) PROVE ThreadTypes'
  BY <1>27 DEF SessionEnds
<1>28. CASE UNCHANGED vars
  BY <1>28 DEF vars
<1> QED
  BY <1>1, <1>2, <1>3, <1>4, <1>5, <1>6, <1>7, <1>8, <1>9, <1>10, <1>11, <1>12, <1>13, <1>14,
      <1>15, <1>16, <1>17, <1>18, <1>19, <1>20, <1>21, <1>22, <1>23, <1>24, <1>25, <1>26, <1>27,
      <1>28
  DEF Next, ProxyStep, Callback, Client, Server

-----------------------------------------------------------------------------
(* The invariant holds.                                                    *)

LEMMA InitInv == Init => Inv
<1> SUFFICES ASSUME Init PROVE Inv
  OBVIOUS
<1>1. \A S : <<>> \in Seq(S)
  OBVIOUS
<1>2. TypeOK
  <2>1. ClientTypes
    BY ProxyAssumption DEF Init, Each, ClientTypes, Pieces
  <2>2. FlagTypes
    BY DEF Init, Each, FlagTypes
  <2>3. CountTypes
    BY ProxyAssumption DEF Init, Each, CountTypes, Pieces
  <2>4. SeqTypes
    BY <1>1 DEF Init, Each, SeqTypes
  <2>5. ThreadTypes
    <3>1. crashed \in BOOLEAN
      BY Zenon DEF Init
    <3>2. 0 \in Pieces
      BY ProxyAssumption DEF Pieces
    <3> QED
      BY <3>1, <3>2 DEF Init, ThreadTypes, None
  <2> QED
    BY <2>1, <2>2, <2>3, <2>4, <2>5, TypeParts
<1>3. \A c \in Conns : /\ reply[c] = <<>> /\ uplink[c] = <<>> /\ pending[c] = <<>>
                       /\ sock[c] = "none" /\ ~closed[c] /\ hooks[c] = 0
                       /\ ~live[c] /\ ~connected[c] /\ ~opened[c]
                       /\ readPieces[c] = 0 /\ sentPieces[c] = 0
  BY DEF Init, Each
<1>4. conn = None /\ cur = None /\ ppc = "accept" /\ lpc = "idle"
  BY DEF Init
<1>5. None \notin Conns
  BY ProxyAssumption DEF None
<1>6. Locals /\ Calling /\ Fresh /\ Closing
  BY <1>3, <1>4, <1>5 DEF Locals, Calling, Fresh, Closing, Handled
<1>7. Verdict
  BY <1>3, <1>4, Empties DEF Verdict, Accepts, Refuses
<1>8. OnePlace
  BY <1>3, <1>4, <1>5, Empties DEF OnePlace, Placed, InHand
<1> QED
  BY <1>2, <1>6, <1>7, <1>8 DEF Inv

LEMMA NextInv == Inv /\ [Next]_vars => Inv'
<1> SUFFICES ASSUME Inv, [Next]_vars PROVE Inv'
  OBVIOUS
<1>1. TypeOK /\ Locals /\ Calling /\ Fresh /\ Verdict /\ Closing /\ OnePlace
  BY DEF Inv
<1>2. ClientTypes' /\ FlagTypes' /\ CountTypes' /\ SeqTypes' /\ ThreadTypes'
  BY <1>1, NextClientTypes, NextFlagTypes, NextCountTypes, NextSeqTypes, NextThreadTypes
<1>3. TypeOK'
  BY <1>2 DEF TypeOK, ClientTypes, FlagTypes, CountTypes, SeqTypes, ThreadTypes
<1>4. Locals' /\ Calling' /\ Fresh'
  BY <1>1, NextLocals, NextCalling, NextFresh
<1>5. Verdict' /\ Closing' /\ OnePlace'
  BY <1>1, NextVerdict, NextClosing, NextOnePlace
<1> QED
  BY <1>3, <1>4, <1>5 DEF Inv

LEMMA InvHolds == Spec => []Inv
BY InitInv, NextInv, PTL DEF Spec

-----------------------------------------------------------------------------
(* LocalProxy: the state of the two threads, of the sessions and of the    *)
(* local connections stays within its types.                               *)
THEOREM TypeCorrect == Spec => []TypeOK
<1>1. Inv => TypeOK
  BY DEF Inv
<1> QED
  BY <1>1, InvHolds, PTL

(* The pump and onOpen both push the pieces of a connection, over the      *)
(* tunnel and out of pending, but no piece is carried twice.               *)
THEOREM PiecesOnce == Spec => []CarriedOnce
<1>1. Inv => CarriedOnce
  BY DEF Inv, OnePlace, Placed, Distinct, CarriedOnce
<1> QED
  BY <1>1, InvHolds, PTL

(* A client that is refused is not told that its tunnel stands, and when   *)
(* handleConn has returned both the session and the local connection are   *)
(* finished with, or the tunnel's thread is about to.                      *)
THEOREM HandlersConsistent == Spec => []HandlerConsistent
<1>1. Inv => OneVerdict
  BY DEF Inv, Verdict, Accepts, Refuses, Els, OneVerdict
<1>2. Inv => HandlerReleases
  BY DEF Inv, Closing, Over, HandlerReleases
<1>3. Inv => HandlerConsistent
  BY <1>1, <1>2 DEF HandlerConsistent
<1> QED
  BY <1>3, InvHolds, PTL

=============================================================================
