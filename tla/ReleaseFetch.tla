----------------------------- MODULE ReleaseFetch -----------------------------
(***************************************************************************)
(* How the self-updater finds out what to download, on Linux               *)
(* (src/src/common/updater.cpp): the JSON parser for the release, the      *)
(* choice of the asset, and the requests that follow redirects and collect *)
(* a body.                                                                 *)
(*                                                                         *)
(* A text is a sequence of tokens as in Protocol.  A value is a record of  *)
(* its type t, one of JVal's, and what that type keeps.                    *)
(***************************************************************************)
EXTENDS Integers, Sequences, SequencesExt, SocketRead

(* ---------------------------------- JSON ------------------------------- *)

NUL == [t |-> "NUL"]
STR(s) == [t |-> "STR", s |-> s]
NUM(n) == [t |-> "NUM", d |-> n]
BOOL(b) == [t |-> "BOOL", b |-> b]
ARR(a) == [t |-> "ARR", a |-> a]
OBJ(o) == [t |-> "OBJ", o |-> o]

Nothing == [k \in {} |-> NUL]
NoValue == [ok |-> FALSE, v |-> NUL, next |-> 0]
Read(v, next) == [ok |-> TRUE, v |-> v, next |-> next]

Is(text, i, sign) == i \in DOMAIN text /\ text[i] = <<sign>>

\* The closing bracket of an object or array at i.
Shuts(text, i, sign) == Is(text, i, sign)

Atom(token, next) ==
  CASE token[1] = "str" -> Read(STR(token[2]), next)
    [] token[1] = "num" -> Read(NUM(token[2]), next)
    [] token[1] = "word" ->
         Read(IF token[2] = "null" THEN NUL ELSE BOOL(token[2] = "true"), next)
    [] OTHER -> NoValue

\* An object's members, of those with the same key the later one.
Merged(o, later) ==
  [k \in DOMAIN o \cup DOMAIN later |-> IF k \in DOMAIN later THEN later[k] ELSE o[k]]

\* What a list is that goes on behind the value one: this alone, when its bracket shuts it,
\* or all, when a comma is followed by the rest.
Listed(text, one, bracket, this, rest, all) ==
  IF ~one.ok THEN NoValue
  ELSE IF Shuts(text, one.next, bracket) THEN Read(this, one.next + 1)
  ELSE IF Is(text, one.next, ",") /\ rest.ok THEN Read(all, rest.next)
  ELSE NoValue

\* JsonParser: "parse" reads a value at i, "members" what follows in an object and
\* "elements" in an array.  What follows the value is not looked at.
parse(text) ==
  LET read[i \in 1 .. Len(text) + 1] ==
        LET value ==
              IF Is(text, i, "{")
              THEN IF Is(text, i + 1, "}") THEN Read(OBJ(Nothing), i + 2) ELSE read[i + 1]["members"]
              ELSE IF Is(text, i, "[")
              THEN IF Is(text, i + 1, "]") THEN Read(ARR(<<>>), i + 2) ELSE read[i + 1]["elements"]
              ELSE Atom(text[i], i + 1)
            field == read[i + 2]["parse"]
            more == read[field.next + 1]["members"]
            others == read[value.next + 1]["elements"]
            Member(v) == [k \in {text[i][2]} |-> v]
        IN [what \in {"parse", "members", "elements"} |->
              IF i > Len(text) THEN NoValue
              ELSE IF what = "parse" THEN value
              ELSE IF what = "elements"
              THEN Listed(text, value, "]", ARR(<<value.v>>), others, ARR(<<value.v>> \o others.v.a))
              ELSE IF text[i][1] # "str" \/ ~Is(text, i + 1, ":") THEN NoValue
              ELSE Listed(text, field, "}", OBJ(Member(field.v)), more,
                          OBJ(Merged(Member(field.v), more.v.o)))]
  IN read[1]["parse"]

(* --------------------------------- assets ------------------------------ *)

\* JVal::find, of what is no object too.
Has(v, k) == v.t = "OBJ" /\ k \in DOMAIN v.o
TextOf(v) == IF v.t = "STR" THEN v.s ELSE ""

\* The asset names that hold "amd64" and end in ".deb".
Fits == {"proxy_amd64.deb", "proxy-dbg_amd64.deb"}

\* selectAsset: the address of the first asset for this platform, "" without one.
selectAsset(release) ==
  LET list == IF Has(release, "assets") /\ release.o["assets"].t = "ARR"
              THEN release.o["assets"].a ELSE <<>>
      Fit(a) == Has(a, "name") /\ Has(a, "browser_download_url") /\ TextOf(a.o["name"]) \in Fits
      first == SelectInSeq(list, Fit)
  IN IF first = 0 THEN "" ELSE TextOf(list[first].o["browser_download_url"])

(* -------------------------------- requests ----------------------------- *)

\* The first piece of the body, the head's end being in piece head: readUntil has
\* dropped what came behind the head in that one.
FirstOfBody(head) == head + 1

\* What the body loop has of one answer: what arrives after the read that brought the end
\* of the head, until the stream ends.  The 15 seconds given to each read do not end it,
\* the connection is TLS.
bodyOf(arrivals) ==
  LET ReadTo(n) == readUntil(SubSeq(arrivals, 1, n), Limit(TRUE, 15000))
      heads == {n \in 1 .. Len(arrivals) : ReadTo(n).ok}
      head == CHOOSE n \in heads : \A m \in heads : n <= m
      stops == {n \in head + 1 .. Len(arrivals) : arrivals[n][2] = <<>>}
      last == IF stops = {} THEN Len(arrivals) ELSE (CHOOSE n \in stops : \A m \in stops : n <= m) - 1
  IN IF heads = {} THEN <<>>
     ELSE FlattenSeq([n \in 1 .. last + 1 - FirstOfBody(head) |-> arrivals[FirstOfBody(head) + n - 1][2]])

\* A URL is where a request goes: server, port and path.  A location is empty, or has
\* a scheme and is a URL, or is a path on the server before.
NoBody == ""
Redirects == {301, 302, 303, 307, 308}

(* mutant: a path is asked for at the usual port *)
FollowedPort(url, location) ==
  IF location.kind = "url" THEN location.url
  ELSE [url EXCEPT !.path = location.url.path, !.port = 443]

Followed(url, location) ==
  IF location.kind = "url" THEN location.url ELSE [url EXCEPT !.path = location.url.path]

\* posixHttpsGet: answers are those to its requests, in their order, status 0 when one
\* fails.  At most five redirects are followed; the body of any other answer is given
\* out, whatever its status.
posixHttpsGet(url, answers) ==
  LET get[redirects \in 0 .. 5] ==
        LET asked == IF redirects = 0 THEN url ELSE get[redirects - 1].url
            now == answers[redirects + 1]
            Done(body) == [done |-> TRUE, body |-> body, url |-> asked]
        IN IF redirects > 0 /\ get[redirects - 1].done THEN get[redirects - 1]
           ELSE IF now.status = 0 THEN Done(NoBody)
           ELSE IF now.status \notin Redirects THEN Done(now.body)
           ELSE IF redirects >= 5 \/ now.location.kind = "empty" THEN Done(NoBody)
           ELSE [done |-> FALSE, body |-> NoBody, url |-> Followed(asked, now.location)]
  IN get[5]
=============================================================================
