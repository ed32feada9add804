----------------------------- MODULE ClientValues -----------------------------
(***************************************************************************)
(* What the client computes without waiting for anybody: the sessionIds    *)
(* and the length of the backoff (src/src/client/tunnel.cpp), and the host *)
(* and port in a URL, a Host header or a request target (parseWsUrl in     *)
(* tunnel.cpp, parseHostHeader and parseAbsoluteTarget in local_proxy.cpp).*)
(*                                                                         *)
(* A text is a sequence of tokens: the signs "[", "]", ":" and "/", a name *)
(* <<"name", w>> (behind a colon, one without a digit in front), a number   *)
(* <<"num", n>> and a scheme <<"scheme", w>> with its "://".               *)
(***************************************************************************)
EXTENDS Integers, Sequences, SequencesExt

CONSTANTS
  MaxId,      \* the largest sessionId, 2^32 - 2 in the code
  Looked,     \* how many ids one allocId looks at: twice maxSessions
  IntBits     \* the width of an int: 32 in the code

ASSUME ValuesAssumption == MaxId \in Nat \ {0} /\ Looked \in Nat /\ IntBits \in Nat \ {0}

(* ------------------------------- sessionIds ---------------------------- *)

(* mutant: the ids wrap to 0 *)
AfterZero(id) == IF id >= MaxId THEN 0 ELSE id + 1

\* The id after id; 0 is no sessionId.
After(id) == IF id >= MaxId THEN 1 ELSE id + 1

\* allocId: the first id from nextId on that is not in use, 0 when it has looked at
\* enough of them, and the nextId it leaves.
allocId(nextId, used) ==
  LET search[k \in 0 .. Looked] ==
        LET id == IF k = 0 THEN nextId ELSE search[k - 1].nextId
        IN IF k > 0 /\ search[k - 1].id # 0 THEN search[k - 1]
           ELSE IF k = Looked THEN [id |-> 0, nextId |-> id]
           ELSE IF id \in used THEN [id |-> 0, nextId |-> After(id)]
           ELSE [id |-> id, nextId |-> After(id)]
  IN search[Looked]

(* -------------------------------- backoff ------------------------------ *)

\* An int of IntBits bits; on overflow the build may keep the low bits.
AsInt(x) ==
  LET half == 2 ^ (IntBits - 1) IN ((x + half) % (2 * half)) - half

Least(a, b) == IF a <= b THEN a ELSE b

\* How long runLoop waits before the next attempt.
delay(reconnectDelayMs, attempts, maxReconnectDelayMs) ==
  Least(AsInt(reconnectDelayMs * 2 ^ Least(attempts, 10)), maxReconnectDelayMs)

(* ------------------------------ host and port -------------------------- *)

Sign(sign) == <<sign>>
MaxInt == 2 ^ (IntBits - 1) - 1
Fails == [ok |-> FALSE, host |-> <<>>, port |-> 0]
Target(host, port) == [ok |-> host # <<>>, host |-> host, port |-> port]

\* The positions of a sign, and the first one: 0 is none.
Places(text, sign) == {i \in DOMAIN text : text[i] = Sign(sign)}
First(places) == IF places = {} THEN 0 ELSE CHOOSE i \in places : \A j \in places : i <= j

\* std::stoi of what begins at i, cut to sixteen bits.
WithPort(host, text, i) ==
  IF i \in DOMAIN text /\ text[i][1] = "num" /\ text[i][2] <= MaxInt
  THEN Target(host, text[i][2] % 65536)
  ELSE Fails

(* mutant: an address in brackets keeps its brackets *)
parseHostHeaderBrackets(value, default) ==
  IF value = <<>> THEN Fails
  ELSE IF value[1] = Sign("[")
  THEN LET end == First(Places(value, "]"))
           host == SubSeq(value, 1, end)
       IN IF end = 0 THEN Fails
          ELSE IF end < Len(value) /\ value[end + 1] = Sign(":")
               THEN WithPort(host, value, end + 2)
               ELSE Target(host, default)
  ELSE LET colon == First(Places(value, ":"))
       IN IF Places(value, ":") = {colon} /\ colon < Len(value) /\ value[colon + 1][1] = "num"
          THEN WithPort(SubSeq(value, 1, colon - 1), value, colon + 1)
          ELSE Target(value, default)

\* parseHostHeader, after trim: brackets or a single colon before a digit set a port
\* apart, otherwise all of the text is the host.
parseHostHeader(value, default) ==
  IF value = <<>> THEN Fails
  ELSE IF value[1] = Sign("[")
  THEN LET end == First(Places(value, "]"))
           host == SubSeq(value, 2, end - 1)
       IN IF end = 0 THEN Fails
          ELSE IF end < Len(value) /\ value[end + 1] = Sign(":")
               THEN WithPort(host, value, end + 2)
               ELSE Target(host, default)
  ELSE LET colon == First(Places(value, ":"))
       IN IF Places(value, ":") = {colon} /\ colon < Len(value) /\ value[colon + 1][1] = "num"
          THEN WithPort(SubSeq(value, 1, colon - 1), value, colon + 1)
          ELSE Target(value, default)

\* What stands before the first slash.
Authority(rest) ==
  LET slash == First(Places(rest, "/"))
  IN IF slash = 0 THEN rest ELSE SubSeq(rest, 1, slash - 1)

SchemeOf(text) ==
  IF text # <<>> /\ text[1][1] = "scheme" THEN text[1][2] ELSE "none"

\* parseAbsoluteTarget: http and https only.
parseAbsoluteTarget(target) ==
  IF SchemeOf(target) \notin {"http", "https"} \/ Authority(Tail(target)) = <<>> THEN Fails
  ELSE parseHostHeader(Authority(Tail(target)), IF SchemeOf(target) = "http" THEN 80 ELSE 443)

\* handleConn for a plain request: the target if it says where to, else the Host header.
plainTarget(target, hostHeader) ==
  LET absolute == parseAbsoluteTarget(target)
  IN IF absolute.ok THEN absolute ELSE parseHostHeader(hostHeader, 80)

\* parseWsUrl: whether to use TLS, and where to.  The port is 443 unless the URL has
\* one, whatever the scheme; without a scheme the tunnel uses TLS.
parseWsUrl(url) ==
  LET schemed == SchemeOf(url) \in {"wss", "ws", "https", "http"}
      authority == Authority(IF schemed THEN Tail(url) ELSE url)
      end == First(Places(authority, "]"))
      colons == Places(authority, ":")
      after == First({i \in colons : i > end})
      where ==
        IF authority # <<>> /\ authority[1] = Sign("[")
        THEN IF end = 0 THEN Fails
             ELSE IF after # 0 THEN WithPort(SubSeq(authority, 2, end - 1), authority, after + 1)
             ELSE Target(SubSeq(authority, 2, end - 1), 443)
        ELSE IF colons = {First(colons)}
             THEN WithPort(SubSeq(authority, 1, First(colons) - 1), authority, First(colons) + 1)
             ELSE Target(authority, 443)
  IN [where |-> where, tls |-> SchemeOf(url) \notin {"ws", "http"}]
=============================================================================
