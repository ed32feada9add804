---------------------------- MODULE PureFunctions ----------------------------
(***************************************************************************)
(* The program's pure functions on bounded inputs: a behaviour asks one    *)
(* question, and the properties compare the answer of the code with a      *)
(* definition that does not use it.                                        *)
(***************************************************************************)
EXTENDS SsrfGuard, Protocol, WsFrames, ClientValues, ReleaseFetch, FiniteSetsExt

VARIABLE q          \* the question, "none" at first

Init == q = [kind |-> "none"]
Ask(question) == q' = question

(* ------------------------------- SSRF guard ---------------------------- *)

BlockAt(lo, hi) == [lo |-> lo, hi |-> hi]

AtMost(a, b) ==
  a = b \/ \E i \in DOMAIN a : a[i] < b[i] /\ \A j \in 1 .. i - 1 : a[j] = b[j]
Within(a, ranges) == \E r \in ranges : AtMost(r.lo, a) /\ AtMost(a, r.hi)

\* The first two bytes of the addresses README.md lists.
RangesV4 ==
  { BlockAt(<<0, 0>>, <<0, 255>>), BlockAt(<<10, 0>>, <<10, 255>>),
    BlockAt(<<100, 64>>, <<100, 127>>), BlockAt(<<127, 0>>, <<127, 255>>),
    BlockAt(<<169, 254>>, <<169, 254>>), BlockAt(<<172, 16>>, <<172, 31>>),
    BlockAt(<<192, 168>>, <<192, 168>>), BlockAt(<<224, 0>>, <<255, 255>>) }

\* The groups of the addresses it lists.
RangesV6 ==
  LET From(g, n) == [i \in 1 .. 8 |-> IF i <= Len(g) THEN g[i] ELSE n]
  IN { BlockAt(From(<<>>, 0), From(<<0, 0, 0, 0, 0, 0, 0>>, 1)),
       BlockAt(From(<<100, 65435>>, 0), <<100, 65435, 0, 0, 0, 0, 65535, 65535>>),
       BlockAt(From(<<8194>>, 0), From(<<8194>>, 65535)),
       BlockAt(From(<<64512>>, 0), From(<<65023>>, 65535)),
       BlockAt(From(<<65152>>, 0), From(<<65215>>, 65535)) }

\* Bytes and groups on both sides of every edge.
FirstBytes ==
  {0, 1, 9, 10, 11, 99, 100, 101, 126, 127, 128, 168, 169, 170, 171, 172, 173,
   191, 192, 193, 223, 224, 239, 240, 255}
SecondBytes == {0, 15, 16, 31, 32, 63, 64, 127, 128, 167, 168, 169, 253, 254, 255}
FirstGroups ==
  {0, 1, 100, 101, 8193, 8194, 8195, 64511, 64512, 65023, 65024, 65151, 65152, 65215,
   65216, 65535}
SecondGroups == {0, 65434, 65435, 65436}
LastGroups == {0, 1, 2, 2560, 65535}
Extremes == {0, 65535}

Bytes(groups) ==
  [i \in 1 .. 16 |-> LET g == groups[(i + 1) \div 2] IN IF i % 2 = 1 THEN g \div 256 ELSE g % 256]

AskV4 ==
  \E a \in FirstBytes, b \in SecondBytes, c \in {0, 255} :
    Ask([kind |-> "v4", bytes |-> <<a, b, c, c>>])

AskV6 ==
  \E a \in FirstGroups, b \in SecondGroups, c \in {0, 1}, d \in Extremes, e, f \in LastGroups :
    Ask([kind |-> "v6", groups |-> <<a, b, c, c, c, d, e, f>>])

(* The code compares bytes under a mask; what it refuses are exactly the
   addresses between the first and the last one of a listed block, and a mapped
   address has the verdict of its IPv4 address. *)
BlocksAreRanges ==
  /\ q.kind = "v4" => (BlockedV4(q.bytes) <=> Within(SubSeq(q.bytes, 1, 2), RangesV4))
  /\ q.kind = "v6" =>
       LET mapped == SubSeq(q.groups, 1, 6) = <<0, 0, 0, 0, 0, 65535>>
           high == <<q.groups[7] \div 256, q.groups[7] % 256>>
       IN BlockedV6(Bytes(q.groups)) <=>
            IF mapped THEN Within(high, RangesV4) ELSE Within(q.groups, RangesV6)

Digits(n, base) == 1 + Cardinality({k \in 1 .. 3 : n >= base ^ k})
HexText(n, padded) == <<IF padded THEN 4 ELSE Digits(n, 16), n>>
DotText(n) == <<Digits(n, 10), n>>

\* The spellings of an address: none or one run of zeros left out, the last two groups
\* as groups or as four numbers.
Spelling(groups, run, dots, padded) ==
  LET last == IF dots THEN 6 ELSE 8
      Texts(s) == [i \in DOMAIN s |-> HexText(s[i], padded)]
      Low(g) == <<DotText(g \div 256), DotText(g % 256)>>
  IN [form |-> "colons",
      head |-> Texts(SubSeq(groups, 1, IF run = {} THEN last ELSE Min(run) - 1)),
      tail |-> IF run = {} THEN <<>> ELSE Texts(SubSeq(groups, Max(run) + 1, last)),
      gaps |-> IF run = {} THEN 0 ELSE 1,
      quad |-> IF dots THEN Low(groups[7]) \o Low(groups[8]) ELSE <<>>]

\* The same text with one thing wrong with it.
Spoilt(text) ==
  { [text EXCEPT !.gaps = 2], [text EXCEPT !.head = @ \o [i \in 1 .. 8 |-> <<1, 1>>]],
    [text EXCEPT !.head = <<<<5, 1>>>> \o Tail(@)],
    [text EXCEPT !.quad = <<<<1, 1>>, <<3, 256>>, <<1, 1>>, <<1, 1>>>>],
    [text EXCEPT !.quad = <<<<1, 1>>, <<1, 1>>, <<1, 1>>>>] }

Numbered(filled) == [i \in 1 .. 8 |-> IF i \in filled THEN 4000 * i + i ELSE 0]

AskSpelling ==
  \E filled \in SUBSET (1 .. 8), from, to \in 1 .. 8, dots, padded \in BOOLEAN :
    LET groups == Numbered(filled)
        text == Spelling(groups, from .. to, dots, padded)
    IN /\ from .. to \subseteq (1 .. IF dots THEN 6 ELSE 8) \ filled
       /\ from <= to \/ (from = 2 /\ to = 1)
       /\ \/ Ask([kind |-> "spelling", groups |-> groups, text |-> text])
          \/ /\ text.head # <<>>
             /\ \E spoilt \in Spoilt(text) : Ask([kind |-> "spoilt", text |-> spoilt])

(* Every way to write an address gives its bytes, so that the verdict cannot
   depend on the spelling; what is not well formed is no address and refused. *)
SpellingsAgree ==
  /\ q.kind = "spelling" => isIpLiteral(q.text) /\ ipv6ToBytes(q.text) = Bytes(q.groups)
  /\ q.kind = "spoilt" => ~isIpLiteral(q.text) /\ isBlockedIp(q.text)

Dots(a, b, c, d) ==
  [form |-> "dots", quad |-> <<DotText(a), DotText(b), DotText(c), DotText(d)>>,
   head |-> <<>>, tail |-> <<>>, gaps |-> 0]
Shaped(form) == [form |-> form, quad |-> <<>>, head |-> <<>>, tail |-> <<>>, gaps |-> 0]

Public ==
  {Dots(8, 8, 8, 8), Spelling(<<9734, 18176, 0, 0, 0, 0, 0, 1>>, 3 .. 7, FALSE, FALSE),
   Spelling(<<0, 0, 0, 0, 0, 65535, 2056, 2056>>, 1 .. 5, TRUE, FALSE)}
Private ==
  {Dots(10, 0, 0, 5), Spelling(<<0, 0, 0, 0, 0, 0, 0, 1>>, 1 .. 7, FALSE, FALSE),
   Spelling(<<0, 0, 0, 0, 0, 65535, 32512, 1>>, 1 .. 5, TRUE, FALSE)}
Named == Shaped("name")

AskGuard ==
  \E host \in Public \cup Private \cup {Named, Shaped("empty")},
     records \in BoundedSeq(Public \cup Private \cup {Named}, 3) :
    Ask([kind |-> "guard", host |-> host, records |-> records])

(* Where guardTarget lets a connect go to is never empty and all public, and it
   is the literal itself or everything the lookup found. *)
GuardAdmitsOnlyOpen ==
  q.kind = "guard" =>
    LET verdict == guardTarget(q.host, q.records)
    IN verdict.ok =>
         /\ verdict.addresses \in {<<q.host>>, q.records} \ {<<>>}
         /\ ToSet(verdict.addresses) \subseteq Public

(* --------------------------------- messages ---------------------------- *)

\* What fits into the four bytes of a sessionId.
SessionIds == 0 .. Radix * Radix * Radix * Radix - 1

AskFrame ==
  \E sessionId \in SessionIds, payload \in BoundedSeq(0 .. Radix - 1, 2) :
    Ask([kind |-> "frame", sessionId |-> sessionId, payload |-> payload])

(* A data frame brings its sessionId and payload to the other end, an empty one
   too; what is shorter than the header is no frame. *)
FramesRoundTrip ==
  q.kind = "frame" =>
    LET frame == encodeDataFrame(q.sessionId, q.payload)
    IN /\ decodeDataFrame(frame) =
            [valid |-> TRUE, sessionId |-> q.sessionId, payload |-> q.payload]
       /\ \A n \in 0 .. kDataHeaderLen - 1 : ~decodeDataFrame(SubSeq(frame, 1, n)).valid

AskString ==
  \E s \in BoundedSeq({"quote", "back", "line", "ctrl", "n", "u", "0"}, 3),
     rest \in {<<>>, <<"quote">>, <<"back">>, <<"u", "quote">>} :
    Ask([kind |-> "string", s |-> s, rest |-> rest])

(* A host or message put into a control message is read back as it was, whatever
   signs it holds, and the text goes on right behind it. *)
StringsSurvive ==
  q.kind = "string" =>
    LET text == jsonEscape(q.s) \o <<"quote">> \o q.rest
    IN ScanString(text) = [ok |-> TRUE, out |-> q.s, next |-> Len(text) - Len(q.rest) + 1]

\* Values as JSON writes them; the last three are those the scanner has to skip.
Inner == <<Tok("{"), Str("type"), Tok(":"), Str("inner"), Tok("}")>>
Word == <<<<"word", "true">>>>
List == <<Tok("["), Str("]"), Tok(",")>> \o Inner \o <<Tok("]")>>
Values == {<<Str("x")>>, <<Str("")>>, <<<<"num", 7>>>>, Word, List, Inner}

\* The text of an object with these entries, and the fields it means.
ObjectText(entries) ==
  LET Entry(e) == <<Str(e.key), Tok(":")>> \o e.value
  IN <<Tok("{")>> \o Entry(entries[1])
     \o FlattenSeq([i \in 1 .. Len(entries) - 1 |-> <<Tok(",")>> \o Entry(entries[i + 1])])
     \o <<Tok("}")>>
Meant(entries) ==
  [key \in {entries[i].key : i \in DOMAIN entries} |->
     LET last == entries[Max({i \in DOMAIN entries : entries[i].key = key})].value
     IN IF last[1][1] \in {"str", "num"} THEN last[1] ELSE Skipped]

AskObject ==
  \E entries \in BoundedSeq([key : {"type", "a"}, value : Values], 3) :
    entries # <<>> /\ Ask([kind |-> "object", entries |-> entries])

IsControl(entries) == "type" \in DOMAIN Meant(entries) /\ Meant(entries)["type"] = <<"str", "x">>

(* A control message is taken with exactly its own fields, those of a nested value
   left out, and refused without a type.  An object that ends in true, false or
   null is left to UnknownFieldsSkipped. *)
FieldsAreRead ==
  q.kind = "object" /\ Last(q.entries).value # Word =>
    parseControlMessage(ObjectText(q.entries)) =
      IF IsControl(q.entries) THEN [ok |-> TRUE, fields |-> Meant(q.entries)] ELSE NotRead

(* protocol.cpp:57: objects, arrays, booleans and null are skipped safely. *)
UnknownFieldsSkipped ==
  q.kind = "object" /\ IsControl(q.entries) => parseControlMessage(ObjectText(q.entries)).ok

(* ---------------------------- WebSocket frames -------------------------- *)

Lengths == {0, 1, 124, 125, 126, 127, 128, 255, 256, 65534, 65535, 65536, 65537, 16777216}
Key == <<0, 255, 90, 7>>

AskHead ==
  \E opcode \in 0 .. 15, len \in Lengths \cup {MaxPayload, MaxPayload + 1}, fin \in BOOLEAN,
     key \in {<<>>, Key} :
    Ask([kind |-> "head", opcode |-> opcode, len |-> len, fin |-> fin, key |-> key])

AskPayload ==
  \E payload \in BoundedSeq({0, 1, 129, 255}, 5), key \in {<<>>, Key} :
    Ask([kind |-> "payload", payload |-> payload, key |-> key])

(* A reader takes a frame for what the writer meant, whatever form the length has
   and whether or not there is a mask, and never while a byte of its head is
   missing; it takes payloads up to the limit and none beyond. *)
FramesAreParsed ==
  /\ q.kind = "head" =>
       LET head == FrameHead(q.opcode, q.len, q.fin, q.key)
           read == ReadHead(head \o <<1, 2, 3>>)
       IN /\ IF q.len > MaxPayload THEN read = TooLarge
             ELSE read = [kind |-> "head", fin |-> q.fin, opcode |-> q.opcode, len |-> q.len,
                          key |-> q.key, next |-> Len(head) + 1]
          /\ \A n \in 2 .. Len(head) - 1 : ReadHead(SubSeq(head, 1, n)).kind # "head"
  /\ q.kind = "payload" =>
       ReadPayload(sendFrame(kOpBinary, q.payload, TRUE, q.key)) = q.payload

AskMessage == \E len \in 0 .. 4 * SendChunk + 1 : Ask([kind |-> "message", len |-> len])

\* How many bytes some frames hold.
BytesIn(frames) == FoldLeft(LAMBDA sum, frame : sum + frame.take, 0, frames)

(* A long message is cut into fragments that hold all of it, none of them empty or
   too large, the first with the opcode and only the last one with fin: with one
   fin too early or too late the reader would deliver part of a message, or nothing. *)
FragmentsAddUp ==
  q.kind = "message" =>
    LET frames == sendBinary(q.len)
    IN /\ BytesIn(frames) = q.len
       /\ \A n \in DOMAIN frames :
            /\ frames[n].take <= SendChunk
            /\ frames[n].take > 0 \/ q.len = 0
            /\ frames[n].op = kOpBinary <=> n = 1
            /\ frames[n].fin <=> n = Len(frames)

(* ------------------------- ids, backoff, addresses ---------------------- *)

AskId ==
  \E nextId \in 1 .. MaxId, used \in SUBSET (1 .. MaxId) :
    Ask([kind |-> "id", nextId |-> nextId, used |-> used])

(* An id is never 0 nor in use, and the longest unused one of those looked at: the
   search starts where the last one ended and wraps, so that frames still on
   their way do not meet a new session of the same id before all others had their
   turn.  An id is found whenever fewer are in use than are looked at. *)
IdIsNextFree ==
  q.kind = "id" =>
    LET found == allocId(q.nextId, q.used)
        Ahead(id) == (id - q.nextId) % MaxId
        near == {id \in (1 .. MaxId) \ q.used : Ahead(id) < Looked}
    IN /\ found.nextId \in 1 .. MaxId
       /\ IF near = {} THEN found.id = 0
          ELSE found.id \in near /\ \A id \in near : Ahead(found.id) <= Ahead(id)
       /\ found.id # 0 => \A id \in 1 .. MaxId :
            (id - found.nextId) % MaxId <= (found.id - found.nextId) % MaxId
       /\ Cardinality(q.used) < Looked /\ Looked <= MaxId => found.id # 0

Delays == {1, 3, 500, 15000}

AskDelay ==
  \E reconnectDelayMs \in Delays, maxReconnectDelayMs \in Delays \ {3}, attempts \in 0 .. 15 :
    Ask([kind |-> "delay", base |-> reconnectDelayMs, max |-> maxReconnectDelayMs,
         attempts |-> attempts])

(* For a configured delay whose thousandfold fits an int the waits never shrink,
   never exceed the maximum and are never 0 or negative, after any number of
   attempts. *)
BackoffGrows ==
  q.kind = "delay" /\ q.base * 1024 <= MaxInt =>
    LET now == delay(q.base, q.attempts, q.max)
    IN /\ now \in 1 .. q.max
       /\ now >= Least(q.base, q.max)
       /\ delay(q.base, q.attempts + 1, q.max) >= now

Colon == Sign(":")
HostName == <<<<"name", "h">>>>
HostV6 == <<Colon, Colon, <<"num", 1>>>>
Ports == {1, 80, 443, 65535}
Number(n) == <<<<"num", n>>>>

\* host as an authority spells it, with a port unless that is 0.
Spelt(host, port) ==
  (IF host = HostV6 THEN <<Sign("[")>> \o host \o <<Sign("]")>> ELSE host)
    \o (IF port = 0 THEN <<>> ELSE <<Colon>> \o Number(port))
Paths == {<<>>, <<Sign("/")>>, <<Sign("/"), <<"name", "p">>, Colon, <<"num", 9>>>>}
Scheme(w) == IF w = "none" THEN <<>> ELSE <<<<"scheme", w>>>>

AskAuthority ==
  \E host \in {HostName, HostV6}, port \in Ports \cup {0}, path \in Paths,
     scheme \in {"none", "ws", "wss", "http", "https", "ftp"} :
    Ask([kind |-> "authority", host |-> host, port |-> port, path |-> path, scheme |-> scheme])

(* The host and port of a local request are those of the CONNECT target, of the
   absolute target or of the Host header, brackets taken off, colons of an address
   and of a path not taken for a port's. *)
AuthoritiesAreRead ==
  q.kind = "authority" =>
    LET text == Spelt(q.host, q.port)
        Or(default) == Target(q.host, IF q.port = 0 THEN default ELSE q.port)
        target == Scheme(q.scheme) \o text \o q.path
        web == q.scheme \in {"http", "https"}
    IN /\ parseHostHeader(text, 443) = Or(443)
       /\ q.port = 0 => parseHostHeader(q.host, 80) = Or(80)
       /\ web => parseAbsoluteTarget(target) = Or(IF q.scheme = "http" THEN 80 ELSE 443)
       /\ plainTarget(target, Number(6)) =
            IF web THEN parseAbsoluteTarget(target) ELSE Target(Number(6), 80)

(* The tunnel dials what its URL names, with TLS unless it says ws or http. *)
UrlsAreRead ==
  q.kind = "authority" /\ q.scheme # "ftp" =>
    LET url == parseWsUrl(Scheme(q.scheme) \o Spelt(q.host, q.port) \o q.path)
    IN /\ url.where = Target(q.host, IF q.port = 0 THEN 443 ELSE q.port)
       /\ url.tls <=> q.scheme \in {"wss", "https", "none"}

(* ----------------------------------- reads ------------------------------ *)

\* bytes cut behind the positions in cuts; the last piece may be late.
Cut(bytes, cuts) ==
  LET ends == cuts \cup {0, Len(bytes)}
      End(k) == CHOOSE e \in ends : Cardinality({d \in ends : d < e}) = k
  IN [k \in 1 .. Cardinality(ends) - 1 |-> SubSeq(bytes, End(k - 1) + 1, End(k))]

AskRead ==
  \E bytes \in BoundedSeq({1, 2}, 6) \ {<<>>}, gap \in 0 .. 3, tls \in BOOLEAN,
     timeoutMs \in {0, 300, 400} :
    \E cuts \in SUBSET (1 .. Len(bytes) - 1) :
      LET pieces == Cut(bytes, cuts)
          Gap(k) == IF k = Len(pieces) THEN gap ELSE 0
      IN Ask([kind |-> "read", bytes |-> bytes, gap |-> gap, limit |-> Limit(tls, timeoutMs),
              arrivals |-> [k \in DOMAIN pieces |-> <<Gap(k), pieces[k]>>]])

WholeHead == DelimEnd(q.bytes) \in 1 .. MaxBytes

(* However TCP cuts a head into pieces, readUntil finds its end and gives out the
   head and nothing else; it never takes for a head what is none. *)
HeadHoweverCut ==
  q.kind = "read" =>
    LET read == readUntil(q.arrivals, q.limit)
    IN /\ q.gap = 0 /\ WholeHead => read.ok
       /\ read.ok => DelimEnd(q.bytes) # 0 /\ read.out = SubSeq(q.bytes, 1, DelimEnd(q.bytes))

(* A piece that comes within the limit is waited for, over TLS every piece.  A call on
   a plain socket returns after at most one limit per piece and a last one: the limit is
   of a read, not of a head.  (TcpSocket::readUntil, Stream::readUntil) *)
ReadsInTime ==
  q.kind = "read" =>
    LET read == readUntil(q.arrivals, q.limit)
    IN /\ q.limit = NoLimit \/ q.gap * Slice <= q.limit => (WholeHead => read.ok)
       /\ q.limit # NoLimit =>
            /\ read.returned
            /\ read.slices <= (Len(q.arrivals) + 1) * (1 + q.limit \div Slice)

(* ------------------------------ the release ----------------------------- *)

\* Bytes after a head: a head and what follows it, cut into pieces.
AskBody ==
  \E rest \in BoundedSeq({3}, 3), late \in BOOLEAN :
    LET bytes == Delim \o rest
    IN \E cuts \in SUBSET (1 .. Len(bytes) - 1) :
         LET pieces == Cut(bytes, cuts)
             Gap(k) == IF late /\ k = Len(pieces) THEN 99 ELSE 0
         IN Ask([kind |-> "body", rest |-> rest, late |-> late, cuts |-> cuts,
                 arrivals |-> [k \in DOMAIN pieces |-> <<Gap(k), pieces[k]>>]])

(* A body is given out in order and without the head, and is whole when the head's
   end comes in a piece of its own, however late the rest comes. *)
BodyFollowsHead ==
  q.kind = "body" =>
    LET body == bodyOf(q.arrivals)
    IN /\ Len(body) <= Len(q.rest)
       /\ q.rest # <<>> /\ Len(Delim) \in q.cuts => body = q.rest

(* updater.cpp:246: the GET gives out the body, safe for binary data.  What comes
   together with the head's end is dropped by readUntil. *)
BodyIsWhole == q.kind = "body" => bodyOf(q.arrivals) = q.rest

\* The texts of values up to a depth of two.
Atoms == {NUL, BOOL(TRUE), NUM(1), STR("s")}
AtomText(v) ==
  CASE v.t = "NUL" -> <<"word", "null">> [] v.t = "BOOL" -> <<"word", "true">>
    [] v.t = "NUM" -> <<"num", v.d>> [] v.t = "STR" -> <<"str", v.s>>
Commas(texts) ==
  FlattenSeq([k \in DOMAIN texts |-> IF k = 1 THEN texts[k] ELSE <<Tok(",")>> \o texts[k]])
ArrText(v, Text(_)) ==
  <<Tok("[")>> \o Commas([k \in DOMAIN v.a |-> Text(v.a[k])]) \o <<Tok("]")>>
ObjText(v, Text(_)) ==
  LET Member(k) == IF k \in DOMAIN v.o THEN <<<<Str(k), Tok(":")>> \o Text(v.o[k])>> ELSE <<>>
  IN <<Tok("{")>> \o Commas(Member("x") \o Member("y")) \o <<Tok("}")>>
Over(V) ==
  {ARR(a) : a \in BoundedSeq(V, 2)}
    \cup {OBJ(o) : o \in UNION {[K -> V] : K \in SUBSET {"x", "y"}}}
TextWith(v, Text(_)) ==
  IF v.t = "ARR" THEN ArrText(v, Text) ELSE IF v.t = "OBJ" THEN ObjText(v, Text) ELSE Text(v)
FlatText(v) == TextWith(v, LAMBDA w : <<AtomText(w)>>)

AskJson ==
  \E v \in Over(Atoms) \cup Over({NUL, STR("s")} \cup Over({NUM(1)})) :
    Ask([kind |-> "json", v |-> v, text |-> TextWith(v, FlatText)])

(* The release is read as it was written, and an answer that was cut off is no
   release: a body ends silently when the connection does. *)
JsonIsRead ==
  q.kind = "json" =>
    /\ parse(q.text) = Read(q.v, Len(q.text) + 1)
    /\ \A n \in 0 .. Len(q.text) - 1 : ~parse(SubSeq(q.text, 1, n)).ok

AssetOf(name, url) == OBJ([name |-> STR(name), browser_download_url |-> STR(url)])
Assets ==
  {AssetOf("proxy_amd64.deb", "u1"), AssetOf("proxy-dbg_amd64.deb", "u2"),
   AssetOf("proxy_arm64.deb", "u3"), AssetOf("proxy-win-amd64.zip", "u4"),
   OBJ([name |-> STR("proxy_amd64.deb")]), OBJ([browser_download_url |-> STR("u5")]), NUL}

AskAsset == \E list \in BoundedSeq(Assets, 3) : Ask([kind |-> "asset", list |-> list])

(* The asset to install is the first one of the list for this platform that has an
   address; assets of other platforms and incomplete ones are passed over. *)
FirstAssetThatFits ==
  q.kind = "asset" =>
    LET Good == {AssetOf("proxy_amd64.deb", "u1"), AssetOf("proxy-dbg_amd64.deb", "u2")}
        Before(n) == ToSet(SubSeq(q.list, 1, n - 1))
        chosen == {n \in DOMAIN q.list : q.list[n] \in Good /\ Before(n) \cap Good = {}}
    IN selectAsset(OBJ([assets |-> ARR(q.list)])) =
         IF chosen = {} THEN "" ELSE q.list[CHOOSE n \in chosen : TRUE].o["browser_download_url"].s

UrlOf(server, port, path) == [server |-> server, port |-> port, path |-> path]
Redirect(kind, url) ==
  [status |-> 302, body |-> "moved", location |-> [kind |-> kind, url |-> url]]
Answer(status, body) ==
  [status |-> status, body |-> body, location |-> [kind |-> "empty", url |-> UrlOf("", 0, "")]]
Answers ==
  {Redirect("url", UrlOf("b", 8443, "p")), Redirect("path", UrlOf("", 0, "q")), Answer(302, "moved"),
   Answer(200, "asset"), Answer(404, "none"), Answer(0, "")}

AskGet == \E answers \in TupleOf(Answers, 6) : Ask([kind |-> "get", answers |-> answers])

(* A download follows at most five redirects, wherever they point, stays with the
   server and port it was sent to last, and never takes the body of a redirect. *)
RedirectsEnd ==
  q.kind = "get" =>
    LET Moved(n) == q.answers[n].status = 302 /\ q.answers[n].location.kind # "empty"
        hops == {n \in 1 .. 5 : \A m \in 1 .. n : Moved(m)}
        sent == {n \in hops : q.answers[n].location.kind = "url"}
        last == q.answers[Cardinality(hops) + 1]
        start == UrlOf("a", 443, "p")
        got == posixHttpsGet(start, q.answers)
    IN /\ got.body = IF last.status \in {200, 404} THEN last.body ELSE NoBody
       /\ <<got.url.server, got.url.port>> = IF sent = {} THEN <<"a", 443>> ELSE <<"b", 8443>>

(* ------------------------------- together ------------------------------ *)

(* The server connects to no private address, whatever the client asks for and
   however it spells it: the blocks are complete, a spelling does not matter, and
   one blocked record of a name is enough to refuse it (guardTarget). *)
GuardHolds == BlocksAreRanges /\ SpellingsAgree /\ GuardAdmitsOnlyOpen

(* What one program writes on the WebSocket the other one reads as it was meant:
   data frames, control messages, and the WebSocket's own frames and fragments. *)
MessagesSurvive ==
  FramesRoundTrip /\ StringsSurvive /\ FieldsAreRead /\ FramesAreParsed /\ FragmentsAddUp

(* What the client computes from its configuration and its users' requests is in
   range: where to dial, what to connect to, how long to wait. *)
ClientValuesInRange == BackoffGrows /\ AuthoritiesAreRead /\ UrlsAreRead

(* Reads do not depend on how the network cuts and delays what was sent. *)
ReadsHoweverCut == HeadHoweverCut /\ ReadsInTime /\ BodyFollowsHead

(* An update is looked for in the answer as it was sent and fetched from the place
   it names, in a bounded number of requests. *)
ReleaseIsFound == JsonIsRead /\ FirstAssetThatFits /\ RedirectsEnd

Next ==
  /\ q.kind = "none"
  /\ \/ AskV4 \/ AskV6 \/ AskSpelling \/ AskGuard
     \/ AskFrame \/ AskString \/ AskObject \/ AskHead \/ AskPayload \/ AskMessage
     \/ AskId \/ AskDelay \/ AskAuthority
     \/ AskRead \/ AskBody \/ AskJson \/ AskAsset \/ AskGet

Spec == Init /\ [][Next]_q

=============================================================================
