--------------------------- MODULE UpdaterProofs ---------------------------
(***************************************************************************)
(* Theorems about the Updater, for every set of releases, every number of  *)
(* children, and every order of steps.                                     *)
(*                                                                         *)
(* And about what it asks for, for every answer, text and list of assets:  *)
(* the requests of a download, the parser of the release, and the choice   *)
(* of the asset (ReleaseFetch, here as Get).                               *)
(***************************************************************************)
EXTENDS Updater, WellFoundedInduction, TLAPS

\* The file a child is writing is one that was unpacked.
Sourced == \A s \in Slots : child[s] = "write" => from[s] # None

Inv == TypeOK /\ Sourced

\* The program starts with nothing being copied.
LEMMA InitInv == Init => Inv
  BY UpdaterAssumption DEF Init, Inv, TypeOK, Sourced

\* Every step of the process, of its children and of the publisher keeps the types.
LEMMA TypesKept == Inv /\ [Next]_vars => TypeOK'
<1> SUFFICES ASSUME Inv, [Next]_vars PROVE TypeOK'
  OBVIOUS
<1> USE UpdaterAssumption DEF Inv, TypeOK, Sourced, Go, GiveUp
<1>1. ASSUME NEW t \in Tags, Publish(t) PROVE TypeOK'
  BY <1>1 DEF Publish
<1>2. CASE Check
  BY <1>2 DEF Check
<1>3. CASE CheckThrows
  BY <1>3 DEF CheckThrows
<1>4. CASE Fails
  BY <1>4 DEF Fails
<1>5. CASE Fetch
  BY <1>5 DEF Fetch
<1>6. ASSUME NEW s \in Slots, Fork(s) PROVE TypeOK'
  <2>1. child' \in [Slots -> {"none", "unpack", "copy", "write", "exited"}]
    BY <1>6 DEF Fork
  <2>2. from' \in [Slots -> Tags \cup {None}] /\ old' \in [Slots -> Tags \cup {None}]
    BY <1>6 DEF Fork
  <2> QED
    BY <1>6, <2>1, <2>2 DEF Fork
<1>7. ASSUME NEW s \in Slots, Unpack(s) PROVE TypeOK'
  <2>1. child' \in [Slots -> {"none", "unpack", "copy", "write", "exited"}]
    BY <1>7 DEF Unpack
  <2>2. from' \in [Slots -> Tags \cup {None}] /\ old' \in [Slots -> Tags \cup {None}]
    BY <1>7 DEF Unpack
  <2>3. unpacked' \in Tags \cup {None} /\ failed' \in BOOLEAN
    BY <1>7 DEF Unpack
  <2> QED
    BY <1>7, <2>1, <2>2, <2>3 DEF Unpack
<1>8. ASSUME NEW s \in Slots, CopyBegin(s) PROVE TypeOK'
  BY <1>8 DEF CopyBegin
<1>9. ASSUME NEW s \in Slots, CopyEnd(s) PROVE TypeOK'
  BY <1>9 DEF CopyEnd
<1>10. ASSUME NEW s \in Slots, CopyNothing(s) PROVE TypeOK'
  BY <1>10 DEF CopyNothing
<1>11. ASSUME NEW s \in Slots, OrphanGone(s) PROVE TypeOK'
  BY <1>11 DEF OrphanGone
<1>12. CASE Waited
  BY <1>12 DEF Waited
<1>13. CASE TimedOut
  BY <1>13 DEF TimedOut, KilledAt
<1>14. CASE Exec
  BY <1>14 DEF Exec
<1>15. CASE Stop
  BY <1>15 DEF Stop
<1>16. CASE Start
  BY <1>16 DEF Start
<1>17. CASE UNCHANGED vars
  BY <1>17 DEF vars
<1> QED
  BY <1>1, <1>2, <1>3, <1>4, <1>5, <1>6, <1>7, <1>8, <1>9, <1>10, <1>11, <1>12, <1>13,
     <1>14, <1>15, <1>16, <1>17 DEF Next, ProcessStep, ChildStep

\* A child gets its source when it starts or unpacks, and begins to write only with one.
LEMMA SourcesKept == Inv /\ [Next]_vars => Sourced'
<1> SUFFICES ASSUME Inv, [Next]_vars PROVE Sourced'
  OBVIOUS
<1> USE DEF Inv, TypeOK, Sourced
<1>1. ASSUME NEW s \in Slots, Fork(s) PROVE Sourced'
  BY <1>1 DEF Fork
<1>2. ASSUME NEW s \in Slots, ChildStep(s) PROVE Sourced'
  BY <1>2 DEF ChildStep, Unpack, CopyBegin, CopyEnd, CopyNothing, OrphanGone
<1>3. CASE Waited \/ TimedOut
  BY <1>3 DEF Waited, TimedOut, KilledAt
<1>4. CASE UNCHANGED <<child, from>>
  BY <1>4
<1> QED
  BY <1>1, <1>2, <1>3, <1>4 DEF Next, ProcessStep, Publish, Check, CheckThrows, Fails, Fetch,
     Exec, Stop, Start, vars

\* Every state of every behaviour has its types (updater.cpp).
THEOREM TypeCorrect == Spec => []TypeOK
<1>1. Init => Inv
  BY InitInv
<1>2. Inv /\ [Next]_vars => Inv'
  BY TypesKept, SourcesKept DEF Inv
<1>3. Inv => TypeOK
  BY DEF Inv
<1> QED
  BY <1>1, <1>2, <1>3, PTL DEF Spec

\* The step of FileWhole: only CopyBegin breaks the file, its child then writes, and a
\* writing child stops only by finishing the file or by failing; killing the shell
\* (TimedOut) does not stop it.
LEMMA WholeKept == Inv /\ FileWhole /\ [Next]_vars => FileWhole'
<1> SUFFICES ASSUME Inv, FileWhole, [Next]_vars, disk' = Broken, ~failed'
             PROVE \E s \in Slots : child'[s] = "write"
  BY DEF FileWhole
<1> USE UpdaterAssumption DEF Inv, TypeOK, FileWhole
<1>1. ASSUME NEW s \in Slots, ChildStep(s) PROVE \E c \in Slots : child'[c] = "write"
  <2>1. CASE Unpack(s) \/ OrphanGone(s)
    BY <2>1 DEF Unpack, OrphanGone
  <2>2. CASE CopyBegin(s)
    BY <2>2 DEF CopyBegin
  <2>3. CASE CopyEnd(s)
    BY <2>3 DEF CopyEnd, Sourced
  <2>4. CASE CopyNothing(s)
    BY <2>4 DEF CopyNothing
  <2> QED
    BY <1>1, <2>1, <2>2, <2>3, <2>4 DEF ChildStep
<1>2. ASSUME NEW s \in Slots, Fork(s) PROVE \E c \in Slots : child'[c] = "write"
  BY <1>2 DEF Fork
<1>3. CASE Waited \/ TimedOut
  BY <1>3 DEF Waited, TimedOut, KilledAt
<1>4. CASE UNCHANGED <<child, disk, failed>>
  BY <1>4
<1>5. CASE failed' = TRUE
  BY <1>5
<1>6. CASE \/ \E t \in Tags : Publish(t)
           \/ Check \/ CheckThrows \/ Exec \/ Stop \/ Start \/ UNCHANGED vars
  BY <1>4, <1>6 DEF Publish, Check, CheckThrows, Exec, Stop, Start, vars
<1>7. CASE Fails \/ Fetch
  BY <1>4, <1>5, <1>7 DEF Fails, Fetch
<1> QED
  BY <1>1, <1>2, <1>3, <1>6, <1>7 DEF Next, ProcessStep

\* The program file is whole whenever no copy is under way, whatever is killed or
\* stopped at whatever moment, as long as no command fails (applyUpdateLinux).
THEOREM FileStaysWhole == Spec => []FileWhole
<1>1. Init => Inv /\ FileWhole
  BY InitInv, UpdaterAssumption DEF Init, FileWhole
<1>2. Inv /\ FileWhole /\ [Next]_vars => (Inv /\ FileWhole)'
  BY TypesKept, SourcesKept, WholeKept DEF Inv
<1> QED
  BY <1>1, <1>2, PTL DEF Spec

(* --------------------------- what is downloaded ------------------------ *)

Get == INSTANCE ReleaseFetch WITH Delim <- <<13, 10, 13, 10>>, MaxBytes <- 65536

IsUrl(u) == u = [server |-> u.server, port |-> u.port, path |-> u.path]

\* An answer that posixHttpsGet follows, and one that takes it to another server.
Moves(answer) == answer.status \in Get!Redirects /\ answer.location.kind # "empty"
Leaves(answer) == answer.location.kind = "url"

\* The first k answers are followed and no more, five at most.
Hops(answers, k) == (\A m \in 1 .. k : Moves(answers[m])) /\ (k < 5 => ~Moves(answers[k + 1]))

\* Where the n-th answer points, and where the first request goes.
Named(url, answers, n) == IF n = 0 THEN url ELSE answers[n].location.url

\* u is where n answers lead: the path is the last one's, the server and the port are
\* those of the last one that named them.
Led(url, answers, n, u) ==
  /\ IsUrl(u)
  /\ u.path = Named(url, answers, n).path
  /\ \A m \in 0 .. n :
       /\ m = 0 \/ Leaves(answers[m])
       /\ \A l \in m + 1 .. n : ~Leaves(answers[l])
       => /\ u.server = Named(url, answers, m).server
          /\ u.port = Named(url, answers, m).port

\* What comes of the answer to the request at asked, after so many redirects.
Out(answers, asked, redirects) ==
  LET now == answers[redirects + 1]
      Done(body) == [done |-> TRUE, body |-> body, url |-> asked]
  IN IF now.status = 0 THEN Done(Get!NoBody)
     ELSE IF now.status \notin Get!Redirects THEN Done(now.body)
     ELSE IF redirects >= 5 \/ now.location.kind = "empty" THEN Done(Get!NoBody)
     ELSE [done |-> FALSE, body |-> Get!NoBody, url |-> Get!Followed(asked, now.location)]

\* The loop of posixHttpsGet.
IsLoop(url, answers, get) ==
  get = [r \in 0 .. 5 |-> IF r > 0 /\ get[r - 1].done THEN get[r - 1]
                          ELSE Out(answers, IF r = 0 THEN url ELSE get[r - 1].url, r)]

\* The loop ends: there is a function that is what its turns make of each other.
LEMMA LoopExists ==
  ASSUME NEW url, NEW answers
  PROVE  \E get : IsLoop(url, answers, get)
<1> DEFINE On(v, r) == IF v.done THEN v ELSE Out(answers, v.url, r)
           v0 == Out(answers, url, 0)
           v1 == On(v0, 1)
           v2 == On(v1, 2)
           v3 == On(v2, 3)
           v4 == On(v3, 4)
           v5 == On(v4, 5)
           get == [r \in 0 .. 5 |-> IF r = 0 THEN v0 ELSE IF r = 1 THEN v1 ELSE IF r = 2 THEN v2
                                    ELSE IF r = 3 THEN v3 ELSE IF r = 4 THEN v4 ELSE v5]
           turn(r) == IF r > 0 /\ get[r - 1].done THEN get[r - 1]
                      ELSE Out(answers, IF r = 0 THEN url ELSE get[r - 1].url, r)
<1> HIDE DEF v0, v1, v2, v3, v4, v5
<1>1. /\ get[0] = v0 /\ get[1] = v1 /\ get[2] = v2 /\ get[3] = v3 /\ get[4] = v4 /\ get[5] = v5
      /\ DOMAIN get = 0 .. 5
  BY SMT
<1> HIDE DEF get
<1>2. /\ turn(0) = v0 /\ turn(1) = v1 /\ turn(2) = v2 /\ turn(3) = v3 /\ turn(4) = v4
      /\ turn(5) = v5
  <2>1. turn(0) = v0
    BY SMT DEF v0
  <2>2. turn(1) = On(v0, 1) /\ turn(2) = On(v1, 2)
    BY <1>1, SMT
  <2>3. turn(3) = On(v2, 3) /\ turn(4) = On(v3, 4) /\ turn(5) = On(v4, 5)
    BY <1>1, SMT
  <2> QED
    BY <2>1, <2>2, <2>3, Zenon DEF v1, v2, v3, v4, v5
<1> HIDE DEF turn
<1>3. \A r \in 0 .. 5 : get[r] = turn(r)
  BY <1>1, <1>2, SMT
<1>4. get = [r \in 0 .. 5 |-> turn(r)]
  BY <1>1, <1>3, SMT DEF get
<1> QED
  BY <1>4, Zenon DEF IsLoop, turn

\* What posixHttpsGet returns is what its last turn leaves.
LEMMA GetIs ==
  ASSUME NEW url, NEW answers
  PROVE  \E get : IsLoop(url, answers, get) /\ Get!posixHttpsGet(url, answers) = get[5]
<1>1. Get!posixHttpsGet(url, answers) = (CHOOSE get : IsLoop(url, answers, get))[5]
  BY SMT DEF Get!posixHttpsGet, IsLoop, Out
<1> QED
  BY <1>1, LoopExists, Zenon

\* The answers are such that each that names a server names a whole URL.
AreAnswers(answers) ==
  \A n \in 1 .. 6 : Leaves(answers[n]) => IsUrl(answers[n].location.url)

\* One answer more is followed.
LEMMA LedOn ==
  ASSUME NEW url, NEW answers, AreAnswers(answers), NEW n \in 0 .. 4, NEW u,
         Led(url, answers, n, u)
  PROVE  Led(url, answers, n + 1, Get!Followed(u, answers[n + 1].location))
<1> DEFINE a == answers[n + 1]
           v == Get!Followed(u, a.location)
<1>1. n + 1 \in 1 .. 6 /\ n + 1 # 0
  BY SMT
<1>2. a.location.url = Named(url, answers, n + 1)
  BY <1>1, Zenon DEF Named
<1>3. CASE Leaves(a)
  <2>1. v = a.location.url /\ IsUrl(v)
    BY <1>1, <1>3, Zenon DEF Get!Followed, Leaves, AreAnswers
  <2>2. ASSUME NEW m \in 0 .. n + 1, \A l \in m + 1 .. n + 1 : ~Leaves(answers[l])
        PROVE  m = n + 1
    <3>1. m = n + 1 \/ n + 1 \in m + 1 .. n + 1
      BY SMT
    <3> QED
      BY <1>3, <2>2, <3>1, Zenon
  <2> HIDE DEF v, a
  <2> QED
    BY <1>2, <2>1, <2>2, Zenon DEF Led, v, a
<1>4. CASE ~Leaves(a)
  <2>1. v = [u EXCEPT !.path = a.location.url.path]
    BY <1>4, Zenon DEF Get!Followed, Leaves
  <2>2. IsUrl(u)
    BY Zenon DEF Led
  <2>3. u = [server |-> u.server, port |-> u.port, path |-> u.path]
    BY <2>2, Zenon DEF IsUrl
  <2> DEFINE w == [server |-> u.server, port |-> u.port, path |-> a.location.url.path]
  <2>4. v = w
    BY <2>1, <2>3, SMT
  <2>5. w.server = u.server /\ w.port = u.port /\ w.path = a.location.url.path
    BY SMT
  <2> HIDE DEF w
  <2>6. v.server = u.server /\ v.port = u.port /\ v.path = a.location.url.path
    BY <2>4, <2>5, Zenon
  <2>7. IsUrl(v)
    BY <2>4, <2>5, Zenon DEF IsUrl, w
  <2>8. ASSUME NEW m \in 0 .. n + 1, m = 0 \/ Leaves(answers[m]),
               \A l \in m + 1 .. n + 1 : ~Leaves(answers[l])
        PROVE  m \in 0 .. n /\ \A l \in m + 1 .. n : ~Leaves(answers[l])
    <3>1. m # n + 1
      BY <1>1, <1>4, <2>8, Zenon
    <3>2. m \in 0 .. n /\ \A l \in m + 1 .. n : l \in m + 1 .. n + 1
      BY <3>1, SMT
    <3> QED
      BY <2>8, <3>2, Zenon
  <2> HIDE DEF v, a
  <2>9. ASSUME NEW m \in 0 .. n + 1, m = 0 \/ Leaves(answers[m]),
               \A l \in m + 1 .. n + 1 : ~Leaves(answers[l])
        PROVE  v.server = Named(url, answers, m).server /\ v.port = Named(url, answers, m).port
    BY <2>6, <2>8, <2>9, Zenon DEF Led
  <2> QED
    BY <1>2, <2>6, <2>7, <2>9, Zenon DEF Led, v, a
<1> QED
  BY <1>3, <1>4, Zenon

\* The answer that is given out, and what of it.
Given(answer) ==
  IF answer.status \in Get!Redirects \cup {0} THEN Get!NoBody ELSE answer.body

\* v is what the loop knows after so many redirects, k of which it follows.
Knows(url, answers, k, redirects, v) ==
  IF redirects < k THEN ~v.done /\ Led(url, answers, redirects + 1, v.url)
  ELSE v.done /\ v.body = Given(answers[k + 1]) /\ Led(url, answers, k, v.url)

\* One request of the loop goes where the answers before it led, and either is followed
\* on or gives out what its answer holds.
LEMMA OneRequest ==
  ASSUME NEW url, NEW answers, AreAnswers(answers), NEW k \in 0 .. 5, Hops(answers, k),
         NEW redirects \in 0 .. k, NEW asked, Led(url, answers, redirects, asked)
  PROVE  Knows(url, answers, k, redirects, Out(answers, asked, redirects))
<1> DEFINE now == answers[redirects + 1]
           v == Out(answers, asked, redirects)
<1>1. 0 \notin Get!Redirects
  BY SMT DEF Get!Redirects
<1>2. CASE redirects < k
  <2>1. redirects + 1 \in 1 .. k /\ ~(redirects >= 5) /\ redirects \in 0 .. 4
    BY <1>2, SMT
  <2>2. now.status \in Get!Redirects /\ now.location.kind # "empty" /\ now.status # 0
    BY <1>1, <2>1, Zenon DEF Hops, Moves
  <2>3. v = [done |-> FALSE, body |-> Get!NoBody,
             url |-> Get!Followed(asked, now.location)]
    BY <2>1, <2>2, Zenon DEF Out
  <2>4. ~v.done /\ v.url = Get!Followed(asked, now.location)
    BY <2>3, SMT
  <2>5. Led(url, answers, redirects + 1, Get!Followed(asked, now.location))
    BY <2>1, LedOn, Zenon
  <2> QED
    BY <1>2, <2>4, <2>5, Zenon DEF Knows
<1>3. CASE ~(redirects < k)
  <2>1. redirects = k /\ (k = 5 \/ k < 5)
    BY <1>3, SMT
  <2>2. now = answers[k + 1]
    BY <2>1, Zenon
  <2>3. now.status \in Get!Redirects => redirects >= 5 \/ now.location.kind = "empty"
    <3>1. k = 5 => redirects >= 5
      BY <2>1, SMT
    <3> QED
      BY <2>1, <2>2, <3>1, Zenon DEF Hops, Moves
  <2>4. v = [done |-> TRUE, body |-> Given(now), url |-> asked]
    <3>1. CASE now.status = 0
      BY <3>1, Zenon DEF Out, Given
    <3>2. CASE now.status # 0 /\ now.status \notin Get!Redirects
      <4>1. now.status \notin Get!Redirects \cup {0}
        BY <3>2, Zenon
      <4> QED
        BY <3>2, <4>1, Zenon DEF Out, Given
    <3>3. CASE now.status \in Get!Redirects
      <4>1. now.status \in Get!Redirects \cup {0} /\ now.status # 0
        BY <1>1, <3>3, Zenon
      <4> QED
        BY <2>3, <3>3, <4>1, Zenon DEF Out, Given
    <3> QED
      BY <3>1, <3>2, <3>3, Zenon
  <2>5. v.done /\ v.body = Given(now) /\ v.url = asked
    BY <2>4, SMT
  <2> QED
    BY <1>3, <2>1, <2>2, <2>5, Zenon DEF Knows
<1> QED
  BY <1>2, <1>3, Zenon

\* Some number of answers from the first on are followed, five at most.
LEMMA HopsExist ==
  ASSUME NEW answers
  PROVE  \E k \in 0 .. 5 : Hops(answers, k)
<1> DEFINE to(k) == \A m \in 1 .. k : Moves(answers[m])
<1>1. to(0) /\ \A k \in 0 .. 4 : to(k) /\ Moves(answers[k + 1]) => to(k + 1)
  BY SMT
<1> HIDE DEF to
<1>2. \E k \in 0 .. 5 : to(k) /\ (k < 5 => ~Moves(answers[k + 1]))
  BY <1>1, SMT
<1> QED
  BY <1>2, Zenon DEF Hops, to

\* Whatever servers answer, a download ends after six requests at most. It is the body of
\* the first answer that is no redirect, nothing if that request failed or if the answer is
\* a redirect still, and it comes from the server, the port and the path that the
\* redirects before it lead to (posixHttpsGet).
THEOREM DownloadEnds ==
  ASSUME NEW url, IsUrl(url), NEW answers, AreAnswers(answers)
  PROVE  \E k \in 0 .. 5 :
           LET got == Get!posixHttpsGet(url, answers)
           IN /\ Hops(answers, k)
              /\ got.done /\ got.body = Given(answers[k + 1]) /\ Led(url, answers, k, got.url)
<1>1. PICK k \in 0 .. 5 : Hops(answers, k)
  BY HopsExist, Zenon
<1>2. PICK get : IsLoop(url, answers, get) /\ Get!posixHttpsGet(url, answers) = get[5]
  BY GetIs, Zenon
<1> DEFINE knows(r) == Knows(url, answers, k, r, get[r])
           last == Given(answers[k + 1])
<1>3. get[0] = Out(answers, url, 0)
  BY <1>2, SMT DEF IsLoop
<1>4. ASSUME NEW r \in 0 .. 4
      PROVE  get[r + 1] = IF get[r].done THEN get[r] ELSE Out(answers, get[r].url, r + 1)
  BY <1>2, SMT DEF IsLoop
<1>5. knows(0)
  <2>1. 0 \in 0 .. k /\ \A m \in 0 .. 0 : m = 0
    BY SMT
  <2>2. Led(url, answers, 0, url)
    BY <2>1, Zenon DEF Led, Named
  <2>3. Knows(url, answers, k, 0, Out(answers, url, 0))
    BY <1>1, <2>1, <2>2, OneRequest, Zenon
  <2> QED
    BY <1>3, <2>3, Zenon
<1>6. ASSUME NEW r \in 0 .. 4, knows(r)
      PROVE  knows(r + 1)
  <2>1. CASE r < k
    <3>1. ~get[r].done /\ Led(url, answers, r + 1, get[r].url)
      BY <1>6, <2>1, Zenon DEF Knows
    <3>2. r + 1 \in 0 .. k
      BY <2>1, SMT
    <3>3. Knows(url, answers, k, r + 1, Out(answers, get[r].url, r + 1))
      BY <1>1, <3>1, <3>2, OneRequest, Zenon
    <3> QED
      BY <1>4, <3>1, <3>3, Zenon
  <2>2. CASE ~(r < k)
    <3>1. get[r].done /\ get[r].body = last /\ Led(url, answers, k, get[r].url)
      BY <1>6, <2>2, Zenon DEF Knows
    <3>2. ~(r + 1 < k)
      BY <2>2, SMT
    <3>3. get[r + 1] = get[r]
      BY <1>4, <3>1, Zenon
    <3> QED
      BY <3>1, <3>2, <3>3, Zenon DEF Knows
  <2> QED
    BY <2>1, <2>2, Zenon
<1>7. knows(5)
  <2> HIDE DEF knows
  <2> QED
    BY <1>5, <1>6, SMT
<1>8. get[5].done /\ get[5].body = last /\ Led(url, answers, k, get[5].url)
  <2>1. ~(5 < k)
    BY SMT
  <2> QED
    BY <1>7, <2>1, Zenon DEF Knows
<1> QED
  BY <1>1, <1>2, <1>8, Zenon

(* ------------------------- the answer that is read --------------------- *)

\* A set of numbers that is not empty has a least one.
LEMMA LeastNumber ==
  ASSUME NEW T \in SUBSET Nat, T # {}
  PROVE  \E m \in T : \A n \in T : m <= n
<1> DEFINE R == OpToRel(<, Nat)
<1>1. IsWellFoundedOn(R, Nat)
  BY NatLessThanWellFounded
<1>2. \E m \in T : \A n \in T : <<n, m>> \notin R
  <2> HIDE DEF R
  <2> QED
    BY <1>1, WFMin
<1>3. PICK m \in T : \A n \in T : <<n, m>> \notin R
  BY <1>2
<1>4. ASSUME NEW n \in T PROVE m <= n
  <2>1. <<n, m>> \notin R
    BY <1>3
  <2>2. ~(n < m)
    BY <2>1 DEF OpToRel
  <2> QED
    BY <2>2
<1> QED
  BY <1>4

\* What holds of 0, and of n + 1 when it holds of n, holds of all numbers: T is the set
\* of those it holds of.
LEMMA AllNumbers ==
  ASSUME NEW T, 0 \in T, \A n \in Nat : n \in T => n + 1 \in T
  PROVE  \A n \in Nat : n \in T
<1> SUFFICES ASSUME NEW n \in Nat, n \notin T PROVE FALSE
  OBVIOUS
<1>1. PICK m \in Nat \ T : \A k \in Nat \ T : m <= k
  BY LeastNumber
<1>2. m - 1 \in Nat /\ m - 1 \notin T
  BY <1>1
<1> QED
  BY <1>1, <1>2

Kinds == {"parse", "members", "elements"}

\* The value at i, in terms of what is read behind it (JsonParser::parse).
ValueAt(f, text, i) ==
  IF Get!Is(text, i, "{")
  THEN IF Get!Is(text, i + 1, "}") THEN Get!Read(Get!OBJ(Get!Nothing), i + 2)
       ELSE f[i + 1]["members"]
  ELSE IF Get!Is(text, i, "[")
  THEN IF Get!Is(text, i + 1, "]") THEN Get!Read(Get!ARR(<<>>), i + 2)
       ELSE f[i + 1]["elements"]
  ELSE Get!Atom(text[i], i + 1)

\* What follows in an array, the value one of which is at i (parseArr).
ElementsAt(f, text, one) ==
  LET rest == f[one.next + 1]["elements"]
  IN Get!Listed(text, one, "]", Get!ARR(<<one.v>>), rest, Get!ARR(<<one.v>> \o rest.v.a))

Member(token, v) == [k \in {token[2]} |-> v]

\* What follows in an object, the value one of which has the key token (parseObj).
MembersAt(f, text, token, one) ==
  LET rest == f[one.next + 1]["members"]
  IN Get!Listed(text, one, "}", Get!OBJ(Member(token, one.v)), rest,
                Get!OBJ(Get!Merged(Member(token, one.v), rest.v.o)))

RowAt(f, text, i, what) ==
  IF i > Len(text) THEN Get!NoValue
  ELSE IF what = "parse" THEN ValueAt(f, text, i)
  ELSE IF what = "elements" THEN ElementsAt(f, text, ValueAt(f, text, i))
  ELSE IF text[i][1] # "str" \/ ~Get!Is(text, i + 1, ":") THEN Get!NoValue
  ELSE MembersAt(f, text, text[i], f[i + 2]["parse"])

IsParse(read, text) ==
  read = [i \in 1 .. Len(text) + 1 |-> [what \in Kinds |-> RowAt(read, text, i, what)]]

\* The parser of ReleaseFetch is a function made of these rows.
LEMMA ParseIs ==
  ASSUME NEW text
  PROVE  Get!parse(text) = (CHOOSE read : IsParse(read, text))[1]["parse"]
BY SMT DEF Get!parse, IsParse, RowAt, Kinds, ValueAt, ElementsAt, MembersAt, Member

\* What is read at i ends behind i, and within l signs.
Ahead(v, i, l) == v.ok => v.next \in i + 1 .. l + 1

\* What is read, and what is not.
LEMMA OkOrNot ==
  /\ Get!NoValue.ok = FALSE
  /\ \A v, n : Get!Read(v, n).ok = TRUE /\ Get!Read(v, n).v = v /\ Get!Read(v, n).next = n
BY SMT DEF Get!NoValue, Get!Read

\* The parts of what is read.
LEMMA ReadIs ==
  ASSUME NEW r, NEW v, NEW n, r = Get!Read(v, n)
  PROVE  r.ok /\ r.v = v /\ r.next = n
BY OkOrNot, SMT

\* An atom ends where it is said to.
LEMMA AtomAhead ==
  ASSUME NEW token, NEW n, Get!Atom(token, n).ok
  PROVE  Get!Atom(token, n).next = n
<1> DEFINE a == Get!Atom(token, n)
<1>1. a = Get!NoValue \/ \E v : a = Get!Read(v, n)
  BY Zenon DEF Get!Atom
<1>2. a.ok
  OBVIOUS
<1> HIDE DEF a
<1>3. a.next = n
  BY <1>1, <1>2, OkOrNot, SMT
<1> QED
  BY <1>3, Zenon DEF a

\* A sign of a text is within it.
LEMMA IsWithin ==
  ASSUME NEW S, NEW text \in Seq(S), NEW i, NEW sign, Get!Is(text, i, sign)
  PROVE  i \in 1 .. Len(text)
BY SMT DEF Get!Is

CommaAt(text, i) == Get!Is(text, i, ",")

\* What follows in a list ends behind its value, when what comes behind that does.
LEMMA ListedAhead ==
  ASSUME NEW S, NEW text \in Seq(S), NEW i \in Nat, NEW one, NEW bracket, NEW this, NEW rest,
         NEW all, one.ok => one.next \in i + 1 .. Len(text) + 1,
         one.ok /\ CommaAt(text, one.next) => Ahead(rest, one.next + 1, Len(text))
  PROVE  Ahead(Get!Listed(text, one, bracket, this, rest, all), i, Len(text))
<1> DEFINE l == Len(text)
           v == Get!Listed(text, one, bracket, this, rest, all)
           n == one.next
<1>1. l \in Nat
  OBVIOUS
<1>2. ASSUME v.ok PROVE v.next \in i + 1 .. l + 1
  <2>1. v # Get!NoValue
    BY <1>2, OkOrNot, Zenon
  <2>2. one.ok
    BY <2>1, Zenon DEF Get!Listed
  <2>3. CASE Get!Shuts(text, n, bracket)
    <3>1. v = Get!Read(this, n + 1)
      BY <2>2, <2>3, Zenon DEF Get!Listed
    <3>2. v.next = n + 1
      <4> HIDE DEF v
      <4> QED
        BY <3>1, ReadIs, SMT
    <3>3. n \in 1 .. l /\ n \in i + 1 .. l + 1
      BY <2>2, <2>3, IsWithin, Zenon DEF Get!Shuts
    <3> HIDE DEF v, n, l
    <3> QED
      BY <1>1, <3>2, <3>3, SMT
  <2>4. CASE ~Get!Shuts(text, n, bracket)
    <3>1. CommaAt(text, n) /\ rest.ok /\ v = Get!Read(all, rest.next)
      BY <2>1, <2>2, <2>4, Zenon DEF Get!Listed, CommaAt
    <3>2. v.next = rest.next
      BY <3>1, ReadIs, Zenon
    <3>3. rest.next \in n + 1 + 1 .. l + 1 /\ n \in i + 1 .. l + 1
      BY <2>2, <3>1, Zenon DEF Ahead
    <3> HIDE DEF v, n, l
    <3> QED
      BY <1>1, <3>2, <3>3, SMT
  <2> QED
    BY <2>3, <2>4, Zenon
<1> QED
  BY <1>2, Zenon DEF Ahead

\* All rows behind the i-th read ahead.
RowsAhead(f, i, l) == \A j \in i .. l + 1, what \in Kinds : Ahead(f[j][what], j, l)

\* A value ends behind its first sign, when all that is read further on does.
LEMMA ValueAhead ==
  ASSUME NEW S, NEW text \in Seq(S), NEW f, NEW i \in 1 .. Len(text),
         RowsAhead(f, i + 1, Len(text))
  PROVE  Ahead(ValueAt(f, text, i), i, Len(text))
<1> DEFINE l == Len(text)
           v == ValueAt(f, text, i)
<1>1. l \in Nat /\ i \in Nat /\ i <= l /\ i + 1 \in i + 1 .. l + 1
  OBVIOUS
<1>2. "members" \in Kinds /\ "elements" \in Kinds
  BY Zenon DEF Kinds
<1>3. Ahead(f[i + 1]["members"], i + 1, l) /\ Ahead(f[i + 1]["elements"], i + 1, l)
  BY <1>1, <1>2, Zenon DEF RowsAhead
<1>4. ASSUME v.ok
      PROVE  \/ v.next = i + 1
             \/ v.next = i + 2 /\ i + 1 \in 1 .. l
             \/ v.next \in i + 1 + 1 .. l + 1
  <2>1. CASE Get!Is(text, i, "{")
    <3>1. CASE Get!Is(text, i + 1, "}")
      <4>1. v = Get!Read(Get!OBJ(Get!Nothing), i + 2)
        BY <2>1, <3>1, Zenon DEF ValueAt
      <4>2. i + 1 \in 1 .. l
        BY <3>1, IsWithin, Zenon
      <4>3. v.next = i + 2
        <5> HIDE DEF v
        <5> QED
          BY <4>1, ReadIs, SMT
      <4> QED
        BY <4>2, <4>3, Zenon
    <3>2. CASE ~Get!Is(text, i + 1, "}")
      BY <1>3, <1>4, <2>1, <3>2, Zenon DEF ValueAt, Ahead
    <3> QED
      BY <3>1, <3>2, Zenon
  <2>2. CASE ~Get!Is(text, i, "{") /\ Get!Is(text, i, "[")
    <3>1. CASE Get!Is(text, i + 1, "]")
      <4>1. v = Get!Read(Get!ARR(<<>>), i + 2)
        BY <2>2, <3>1, Zenon DEF ValueAt
      <4>2. i + 1 \in 1 .. l
        BY <3>1, IsWithin, Zenon
      <4>3. v.next = i + 2
        <5> HIDE DEF v
        <5> QED
          BY <4>1, ReadIs, SMT
      <4> QED
        BY <4>2, <4>3, Zenon
    <3>2. CASE ~Get!Is(text, i + 1, "]")
      BY <1>3, <1>4, <2>2, <3>2, Zenon DEF ValueAt, Ahead
    <3> QED
      BY <3>1, <3>2, Zenon
  <2>3. CASE ~Get!Is(text, i, "{") /\ ~Get!Is(text, i, "[")
    <3>1. v = Get!Atom(text[i], i + 1)
      BY <2>3, Zenon DEF ValueAt
    <3> QED
      BY <1>4, <3>1, AtomAhead, Zenon
  <2> QED
    BY <2>1, <2>2, <2>3, Zenon
<1> HIDE DEF v, l
<1>5. v.ok => v.next \in i + 1 .. l + 1
  BY <1>1, <1>4, SMT
<1> QED
  BY <1>5, Zenon DEF Ahead, v, l

\* A row reads ahead when the rows behind it do.
LEMMA RowAhead ==
  ASSUME NEW S, NEW text \in Seq(S), NEW f, NEW i \in 1 .. Len(text) + 1,
         RowsAhead(f, i + 1, Len(text)), NEW what \in Kinds
  PROVE  Ahead(RowAt(f, text, i, what), i, Len(text))
<1> DEFINE l == Len(text)
           v == ValueAt(f, text, i)
           m == f[i + 2]["parse"]
<1>1. l \in Nat /\ i \in Nat
  OBVIOUS
<1>2. "parse" \in Kinds /\ "members" \in Kinds /\ "elements" \in Kinds
  BY Zenon DEF Kinds
<1>3. CASE i > l
  BY <1>3, OkOrNot, Zenon DEF RowAt, Ahead
<1>4. CASE ~(i > l)
  <2>1. i \in 1 .. l
    BY <1>1, <1>4
  <2>2. Ahead(v, i, l)
    BY <2>1, ValueAhead, Zenon
  <2>3. CASE what = "parse"
    BY <1>4, <2>2, <2>3, Zenon DEF RowAt
  <2>4. ASSUME NEW one, NEW kind \in Kinds, one.ok => one.next \in i + 1 .. l + 1,
               one.ok /\ CommaAt(text, one.next)
        PROVE  Ahead(f[one.next + 1][kind], one.next + 1, l)
    <3> DEFINE n == one.next
    <3>1. n \in i + 1 .. l + 1 /\ n \in 1 .. l
      BY <2>4, IsWithin, Zenon DEF CommaAt
    <3> HIDE DEF n, l
    <3>2. n + 1 \in i + 1 .. l + 1
      BY <1>1, <3>1, SMT
    <3> QED
      BY <3>2, <2>4, Zenon DEF RowsAhead, n, l
  <2>5. CASE what = "elements"
    <3>1. v.ok => v.next \in i + 1 .. l + 1
      BY <2>2, Zenon DEF Ahead
    <3>2. v.ok /\ CommaAt(text, v.next) =>
            Ahead(f[v.next + 1]["elements"], v.next + 1, l)
      BY <1>2, <2>4, <3>1, Zenon
    <3>3. Ahead(ElementsAt(f, text, v), i, l)
      BY <1>1, <3>1, <3>2, ListedAhead, Zenon DEF ElementsAt
    <3> QED
      BY <1>4, <2>5, <3>3, Zenon DEF RowAt
  <2>6. CASE what = "members"
    <3>1. CASE text[i][1] # "str" \/ ~Get!Is(text, i + 1, ":")
      BY <1>4, <2>6, <3>1, OkOrNot, Zenon DEF RowAt, Ahead
    <3>2. CASE ~(text[i][1] # "str" \/ ~Get!Is(text, i + 1, ":"))
      <4>1. i + 1 \in 1 .. l
        BY <3>2, IsWithin, Zenon
      <4>2. i + 2 \in i + 1 .. l + 1
        BY <4>1, SMT
      <4>3. Ahead(m, i + 2, l)
        BY <1>2, <4>2, Zenon DEF RowsAhead
      <4>4. m.ok => m.next \in i + 2 + 1 .. l + 1
        BY <4>3, Zenon DEF Ahead
      <4> HIDE DEF m, l
      <4>5. m.ok => m.next \in i + 1 .. l + 1
        BY <1>1, <4>4, SMT
      <4>6. m.ok /\ CommaAt(text, m.next) =>
              Ahead(f[m.next + 1]["members"], m.next + 1, l)
        BY <1>2, <2>4, <4>5, Zenon
      <4>7. Ahead(MembersAt(f, text, text[i], m), i, l)
        BY <1>1, <4>5, <4>6, ListedAhead, Zenon DEF MembersAt, l
      <4> QED
        BY <1>4, <2>6, <3>2, <4>7, Zenon DEF RowAt, m, l
    <3> QED
      BY <3>1, <3>2, Zenon
  <2> QED
    BY <2>3, <2>5, <2>6, Zenon DEF Kinds
<1> QED
  BY <1>3, <1>4, Zenon

\* What follows in a list does not depend on what is behind it unless a comma leads there.
LEMMA ListedSame ==
  ASSUME NEW text, NEW one, NEW bracket, NEW this, NEW rest, NEW all, NEW other, NEW both,
         one.ok /\ CommaAt(text, one.next) => rest = other /\ all = both
  PROVE  Get!Listed(text, one, bracket, this, rest, all) =
           Get!Listed(text, one, bracket, this, other, both)
<1>1. CASE ~one.ok
  BY <1>1, Zenon DEF Get!Listed
<1>2. CASE one.ok /\ Get!Shuts(text, one.next, bracket)
  BY <1>2, Zenon DEF Get!Listed
<1>3. CASE one.ok /\ ~Get!Shuts(text, one.next, bracket) /\ ~CommaAt(text, one.next)
  BY <1>3, Zenon DEF Get!Listed, CommaAt
<1>4. CASE one.ok /\ CommaAt(text, one.next)
  BY <1>4, Zenon
<1> QED
  BY <1>1, <1>2, <1>3, <1>4, Zenon

SameRows(f, g, i, l) == \A j \in i .. l + 1, what \in Kinds : f[j][what] = g[j][what]

\* A row is made of the rows behind it.
LEMMA RowSame ==
  ASSUME NEW S, NEW text \in Seq(S), NEW f, NEW g, NEW i \in 1 .. Len(text) + 1,
         RowsAhead(f, i + 1, Len(text)), SameRows(f, g, i + 1, Len(text)), NEW what \in Kinds
  PROVE  RowAt(f, text, i, what) = RowAt(g, text, i, what)
<1> DEFINE l == Len(text)
           v == ValueAt(f, text, i)
           m == f[i + 2]["parse"]
<1>1. l \in Nat /\ i \in Nat
  OBVIOUS
<1>2. "parse" \in Kinds /\ "members" \in Kinds /\ "elements" \in Kinds
  BY Zenon DEF Kinds
<1>3. CASE i > l
  BY <1>3, Zenon DEF RowAt
<1>4. CASE ~(i > l)
  <2>1. i \in 1 .. l /\ i + 1 \in i + 1 .. l + 1
    BY <1>1, <1>4
  <2>2. v = ValueAt(g, text, i)
    <3>1. /\ f[i + 1]["members"] = g[i + 1]["members"]
          /\ f[i + 1]["elements"] = g[i + 1]["elements"]
      BY <1>2, <2>1, Zenon DEF SameRows
    <3> QED
      BY <3>1, Zenon DEF ValueAt
  <2>3. CASE what = "parse"
    BY <1>4, <2>2, <2>3, Zenon DEF RowAt
  <2>4. ASSUME NEW one, NEW kind \in Kinds, one.ok => one.next \in i + 1 .. l + 1,
               one.ok /\ CommaAt(text, one.next)
        PROVE  f[one.next + 1][kind] = g[one.next + 1][kind]
    <3> DEFINE n == one.next
    <3>1. n \in i + 1 .. l + 1 /\ n \in 1 .. l
      BY <2>4, IsWithin, Zenon DEF CommaAt
    <3> HIDE DEF n, l
    <3>2. n + 1 \in i + 1 .. l + 1
      BY <1>1, <3>1, SMT
    <3> QED
      BY <3>2, <2>4, Zenon DEF SameRows, n, l
  <2>5. CASE what = "elements"
    <3>1. v.ok => v.next \in i + 1 .. l + 1
      BY <2>1, ValueAhead, Zenon DEF Ahead
    <3>2. v.ok /\ CommaAt(text, v.next) =>
            f[v.next + 1]["elements"] = g[v.next + 1]["elements"]
      BY <1>2, <2>4, <3>1, Zenon
    <3> HIDE DEF v
    <3>3. ElementsAt(f, text, v) = ElementsAt(g, text, v)
      <4> DEFINE r == f[v.next + 1]["elements"]
                 s == g[v.next + 1]["elements"]
                 a == Get!ARR(<<v.v>> \o r.v.a)
                 b == Get!ARR(<<v.v>> \o s.v.a)
      <4>1. v.ok /\ CommaAt(text, v.next) => r = s /\ a = b
        BY <3>2, Zenon
      <4>2. /\ ElementsAt(f, text, v) = Get!Listed(text, v, "]", Get!ARR(<<v.v>>), r, a)
            /\ ElementsAt(g, text, v) = Get!Listed(text, v, "]", Get!ARR(<<v.v>>), s, b)
        BY Zenon DEF ElementsAt
      <4> HIDE DEF r, s, a, b
      <4> QED
        <5>1. Get!Listed(text, v, "]", Get!ARR(<<v.v>>), r, a) =
                Get!Listed(text, v, "]", Get!ARR(<<v.v>>), s, b)
          <6> DEFINE e == "]"
                     t == Get!ARR(<<v.v>>)
          <6> HIDE DEF e, t
          <6>1. Get!Listed(text, v, e, t, r, a) = Get!Listed(text, v, e, t, s, b)
            BY <4>1, ListedSame, SMT
          <6> QED
            BY <6>1, Zenon DEF e, t
        <5> QED
          BY <4>2, <5>1, Zenon
    <3> QED
      BY <1>4, <2>2, <2>5, <3>3, Zenon DEF RowAt, v
  <2>6. CASE what = "members"
    <3>1. CASE text[i][1] # "str" \/ ~Get!Is(text, i + 1, ":")
      BY <1>4, <2>6, <3>1, Zenon DEF RowAt
    <3>2. CASE ~(text[i][1] # "str" \/ ~Get!Is(text, i + 1, ":"))
      <4>1. i + 1 \in 1 .. l
        BY <3>2, IsWithin, Zenon
      <4>2. i + 2 \in i + 1 .. l + 1
        BY <4>1, SMT
      <4>3. Ahead(m, i + 2, l) /\ m = g[i + 2]["parse"]
        BY <1>2, <4>2, Zenon DEF RowsAhead, SameRows
      <4>4. m.ok => m.next \in i + 2 + 1 .. l + 1
        BY <4>3, Zenon DEF Ahead
      <4> HIDE DEF m, l
      <4>5. m.ok => m.next \in i + 1 .. l + 1
        BY <1>1, <4>4, SMT
      <4>6. m.ok /\ CommaAt(text, m.next) =>
              f[m.next + 1]["members"] = g[m.next + 1]["members"]
        BY <1>2, <2>4, <4>5, Zenon
      <4>7. MembersAt(f, text, text[i], m) = MembersAt(g, text, text[i], m)
        <5> DEFINE r == f[m.next + 1]["members"]
                   s == g[m.next + 1]["members"]
                   one == Member(text[i], m.v)
                   a == Get!OBJ(Get!Merged(one, r.v.o))
                   b == Get!OBJ(Get!Merged(one, s.v.o))
        <5>1. m.ok /\ CommaAt(text, m.next) => r = s /\ a = b
          BY <4>6, Zenon
        <5>2. /\ MembersAt(f, text, text[i], m) = Get!Listed(text, m, "}", Get!OBJ(one), r, a)
              /\ MembersAt(g, text, text[i], m) = Get!Listed(text, m, "}", Get!OBJ(one), s, b)
          BY Zenon DEF MembersAt
        <5> HIDE DEF r, s, a, b, one
        <5> QED
          <6>1. Get!Listed(text, m, "}", Get!OBJ(one), r, a) =
                  Get!Listed(text, m, "}", Get!OBJ(one), s, b)
            <7> DEFINE e == "}"
                       t == Get!OBJ(one)
            <7> HIDE DEF e, t
            <7>1. Get!Listed(text, m, e, t, r, a) = Get!Listed(text, m, e, t, s, b)
              BY <5>1, ListedSame, SMT
            <7> QED
              BY <7>1, Zenon DEF e, t
          <6> QED
            BY <5>2, <6>1, Zenon
      <4> QED
        BY <1>4, <2>6, <3>2, <4>3, <4>7, Zenon DEF RowAt, m, l
    <3> QED
      BY <3>1, <3>2, Zenon
  <2> QED
    BY <2>3, <2>5, <2>6, Zenon DEF Kinds
<1> QED
  BY <1>3, <1>4, Zenon

\* The rows from the i-th on.
RowsFrom(f, text, i) ==
  /\ f = [j \in i .. Len(text) + 1 |-> [what \in Kinds |-> RowAt(f, text, j, what)]]
  /\ RowsAhead(f, i, Len(text))

\* One row more.
LEMMA RowAdded ==
  ASSUME NEW S, NEW text \in Seq(S), NEW i \in 1 .. Len(text) + 1, NEW f,
         RowsAhead(f, i + 1, Len(text)),
         \A j \in i + 1 .. Len(text) + 1 : \A what \in Kinds : f[j][what] = RowAt(f, text, j, what)
  PROVE  \E g : RowsFrom(g, text, i)
<1> DEFINE l == Len(text)
           g == [j \in i .. l + 1 |-> [what \in Kinds |-> RowAt(f, text, j, what)]]
<1>1. l \in Nat /\ i \in Nat /\ i >= 1
  OBVIOUS
<1>2. \A j \in i .. l + 1 : j \in 1 .. l + 1 /\ (j = i \/ j \in i + 1 .. l + 1)
  BY <1>1, SMT
<1>3. ASSUME NEW j \in i .. l + 1, NEW what \in Kinds
      PROVE  g[j][what] = RowAt(f, text, j, what)
  BY <1>3, Zenon
<1>4. ASSUME NEW j \in i + 1 .. l + 1, NEW what \in Kinds
      PROVE  f[j][what] = g[j][what]
  <2>1. j \in i .. l + 1
    BY <1>1, SMT
  <2> HIDE DEF g
  <2> QED
    BY <1>3, <2>1, Zenon
<1>5. ASSUME NEW j \in i .. l + 1
      PROVE  RowsAhead(f, j + 1, l) /\ SameRows(f, g, j + 1, l)
  <2>1. \A k \in j + 1 .. l + 1 : k \in i + 1 .. l + 1
    BY <1>1, SMT
  <2> HIDE DEF g
  <2> QED
    BY <1>4, <2>1, Zenon DEF RowsAhead, SameRows
<1>6. ASSUME NEW j \in i .. l + 1, NEW what \in Kinds
      PROVE  RowAt(f, text, j, what) = RowAt(g, text, j, what) /\ Ahead(g[j][what], j, l)
  <2> HIDE DEF g
  <2>0. j \in 1 .. Len(text) + 1 /\ SameRows(f, g, j + 1, Len(text))
        /\ RowsAhead(f, j + 1, Len(text))
    BY <1>2, <1>5, Zenon
  <2>1. RowAt(f, text, j, what) = RowAt(g, text, j, what)
    BY <2>0, RowSame, SMT
  <2>2. Ahead(RowAt(f, text, j, what), j, l)
    BY <1>2, <1>5, RowAhead, Zenon
  <2> QED
    BY <1>3, <2>2, <2>1, Zenon
<1>7. g = [j \in i .. l + 1 |-> [what \in Kinds |-> RowAt(g, text, j, what)]]
  <2> DEFINE a(j) == [what \in Kinds |-> RowAt(f, text, j, what)]
             b(j) == [what \in Kinds |-> RowAt(g, text, j, what)]
  <2> HIDE DEF g
  <2>1. ASSUME NEW j \in i .. l + 1 PROVE a(j) = b(j)
    BY <1>6, SMT
  <2>2. g = [j \in i .. l + 1 |-> a(j)]
    BY DEF g
  <2> HIDE DEF a, b
  <2>3. [j \in i .. l + 1 |-> a(j)] = [j \in i .. l + 1 |-> b(j)]
    BY <2>1
  <2> QED
    BY <2>2, <2>3, Zenon DEF b
<1> HIDE DEF g
<1> QED
  BY <1>6, <1>7, Zenon DEF RowsFrom, RowsAhead

\* The rows of the parser can be built from the end of the text backwards.
LEMMA RowsExist ==
  ASSUME NEW S, NEW text \in Seq(S)
  PROVE  \A n \in Nat : n <= Len(text) => \E f : RowsFrom(f, text, Len(text) + 1 - n)
<1> DEFINE l == Len(text)
           left(n) == (l + 1) - n
           T == {n \in Nat : n <= l => \E f : RowsFrom(f, text, left(n))}
<1>1. l \in Nat
  OBVIOUS
<1>2. 0 \in T
  <2>1. left(0) \in 1 .. l + 1 /\ \A j : j \notin left(0) + 1 .. l + 1
    BY <1>1, SMT
  <2>2. RowsAhead(<<>>, left(0) + 1, l)
    BY <2>1, Zenon DEF RowsAhead
  <2>3. \E f : RowsFrom(f, text, left(0))
    BY <2>1, <2>2, RowAdded, Zenon
  <2> QED
    BY <2>3
<1>3. ASSUME NEW n \in Nat, n \in T PROVE n + 1 \in T
  <2>1. CASE n + 1 <= l
    <3>1. n <= l /\ left(n + 1) \in 1 .. l + 1 /\ left(n + 1) + 1 = left(n)
      BY <1>1, <2>1, SMT
    <3>2. PICK f : RowsFrom(f, text, left(n))
      BY <1>3, <3>1, Zenon
    <3> DEFINE a == left(n)
               b == left(n + 1)
    <3>3. b \in 1 .. l + 1 /\ b + 1 = a
      BY <3>1, Zenon
    <3>4. RowsFrom(f, text, a)
      BY <3>2, Zenon
    <3> HIDE DEF a, b, left
    <3>5. \A j \in b + 1 .. l + 1 : \A what \in Kinds : f[j][what] = RowAt(f, text, j, what)
      <4> DEFINE r(j, what) == RowAt(f, text, j, what)
      <4>1. f = [j \in b + 1 .. l + 1 |-> [what \in Kinds |-> r(j, what)]]
        BY <3>3, <3>4, Zenon DEF RowsFrom
      <4> HIDE DEF r
      <4>2. \A j \in b + 1 .. l + 1 : \A what \in Kinds : f[j][what] = r(j, what)
        BY <4>1, SMT
      <4> QED
        BY <4>2, Zenon DEF r
    <3>6. RowsAhead(f, b + 1, l)
      BY <3>3, <3>4, Zenon DEF RowsFrom
    <3>7. \E g : RowsFrom(g, text, b)
      BY <3>3, <3>5, <3>6, RowAdded, Zenon
    <3>8. n + 1 \in Nat
      OBVIOUS
    <3> QED
      BY <3>7, <3>8, Zenon DEF b
  <2>2. CASE ~(n + 1 <= l)
    <3>1. n + 1 \in Nat
      OBVIOUS
    <3> QED
      BY <2>2, <3>1, Zenon
  <2> QED
    BY <2>1, <2>2, Zenon
<1>4. \A n \in Nat : n \in T
  <2> HIDE DEF T
  <2> QED
    BY <1>2, <1>3, AllNumbers
<1> QED
  BY <1>4

\* What the function of the parser reads lies ahead.
LEMMA ParseAhead ==
  ASSUME NEW S, NEW text \in Seq(S), NEW read, IsParse(read, text)
  PROVE  RowsAhead(read, 1, Len(text))
<1> DEFINE l == Len(text)
           left(n) == (l + 2) - n
           T == {n \in Nat : n <= l + 1 => RowsAhead(read, left(n), l)}
<1>1. l \in Nat
  OBVIOUS
<1>2. 0 \in T
  <2>1. \A j : j \notin left(0) .. l + 1
    BY <1>1, SMT
  <2> QED
    BY <2>1, Zenon DEF RowsAhead
<1>3. ASSUME NEW n \in Nat, n \in T PROVE n + 1 \in T
  <2>1. n + 1 \in Nat
    OBVIOUS
  <2>2. CASE n + 1 <= l + 1
    <3> DEFINE a == left(n)
               b == left(n + 1)
    <3>1. n <= l + 1 /\ b \in 1 .. l + 1 /\ b + 1 = a
      BY <1>1, <2>2, SMT
    <3>2. RowsAhead(read, a, l)
      BY <1>3, <3>1, Zenon
    <3> HIDE DEF a, b, left
    <3>3. RowsAhead(read, b + 1, l)
      BY <3>1, <3>2, Zenon
    <3>4. ASSUME NEW what \in Kinds PROVE Ahead(read[b][what], b, l)
      <4>1. read[b][what] = RowAt(read, text, b, what)
        <5> DEFINE r(j, w) == RowAt(read, text, j, w)
        <5>1. read = [j \in 1 .. l + 1 |-> [w \in Kinds |-> r(j, w)]]
          BY Zenon DEF IsParse
        <5> HIDE DEF r
        <5>2. read[b][what] = r(b, what)
          BY <3>1, <5>1, SMT
        <5> QED
          BY <5>2, Zenon DEF r
      <4> QED
        BY <3>1, <3>3, <4>1, RowAhead, Zenon
    <3>5. \A j \in b .. l + 1 : j = b \/ j \in b + 1 .. l + 1
      BY <1>1, <3>1, SMT
    <3>6. RowsAhead(read, b, l)
      BY <3>3, <3>4, <3>5, Zenon DEF RowsAhead
    <3> QED
      BY <2>1, <3>6, Zenon DEF b
  <2>3. CASE ~(n + 1 <= l + 1)
    BY <2>1, <2>3, Zenon
  <2> QED
    BY <2>2, <2>3, Zenon
<1>4. \A n \in Nat : n \in T
  <2> HIDE DEF T
  <2> QED
    BY <1>2, <1>3, AllNumbers
<1>5. l + 1 \in Nat /\ l + 1 <= l + 1 /\ left(l + 1) = 1
  BY <1>1, SMT
<1> QED
  BY <1>4, <1>5, Zenon

\* The function of the parser exists.
LEMMA ParseRuns ==
  ASSUME NEW S, NEW text \in Seq(S)
  PROVE  \E read : IsParse(read, text) /\ Get!parse(text) = read[1]["parse"]
<1>1. Len(text) \in Nat /\ Len(text) <= Len(text) /\ Len(text) + 1 - Len(text) = 1
  OBVIOUS
<1>2. \E f : RowsFrom(f, text, 1)
  BY <1>1, RowsExist, Zenon
<1>3. \E f : IsParse(f, text)
  BY <1>2, Zenon DEF RowsFrom, IsParse
<1> QED
  BY <1>3, ParseIs, Zenon

(* What is read does not depend on what follows it. *)

IsStart(part, text) == \E n \in 0 .. Len(text) : part = SubSeq(text, 1, n)

\* The signs of a beginning are those of the text.
LEMMA StartIs ==
  ASSUME NEW S, NEW text \in Seq(S), NEW part, IsStart(part, text)
  PROVE  /\ part \in Seq(S) /\ Len(part) \in Nat /\ Len(part) <= Len(text)
         /\ \A i \in 1 .. Len(part) : part[i] = text[i]
<1>1. PICK n \in 0 .. Len(text) : part = SubSeq(text, 1, n)
  BY Zenon DEF IsStart
<1>2. /\ part \in Seq(S) /\ Len(part) = n /\ n \in Nat /\ n <= Len(text)
      /\ \A i \in 1 .. n : part[i] = text[i]
  BY <1>1, SMT
<1> QED
  BY <1>2, Zenon

\* A sign of a beginning is one of the text, and the other way within the beginning.
LEMMA SignsStart ==
  ASSUME NEW S, NEW text \in Seq(S), NEW part, IsStart(part, text), NEW i, NEW sign
  PROVE  /\ Get!Is(part, i, sign) => Get!Is(text, i, sign)
         /\ i \in 1 .. Len(part) /\ Get!Is(text, i, sign) => Get!Is(part, i, sign)
<1>1. /\ part \in Seq(S) /\ Len(part) \in Nat /\ Len(part) <= Len(text)
      /\ \A k \in 1 .. Len(part) : part[k] = text[k]
  BY StartIs, Zenon
<1>2. /\ DOMAIN part = 1 .. Len(part) /\ DOMAIN text = 1 .. Len(text)
      /\ \A k \in 1 .. Len(part) : k \in 1 .. Len(text)
  BY <1>1, SMT
<1> QED
  BY <1>1, <1>2, Zenon DEF Get!Is

\* What follows in a list is read only when its value is, and a bracket or a comma and
\* more come behind that.
LEMMA ListedOk ==
  ASSUME NEW text, NEW one, NEW bracket, NEW this, NEW rest, NEW all,
         Get!Listed(text, one, bracket, this, rest, all).ok
  PROVE  /\ one.ok
         /\ \/ Get!Shuts(text, one.next, bracket)
            \/ CommaAt(text, one.next) /\ rest.ok
<1> DEFINE v == Get!Listed(text, one, bracket, this, rest, all)
<1>1. v # Get!NoValue
  BY OkOrNot, Zenon
<1> QED
  BY <1>1, Zenon DEF Get!Listed, CommaAt

\* What follows in a list of a beginning follows in that of the text.
LEMMA ListedStart ==
  ASSUME NEW S, NEW text \in Seq(S), NEW part, IsStart(part, text),
         NEW one, NEW bracket, NEW this, NEW rest, NEW all, NEW other, NEW both,
         Get!Listed(part, one, bracket, this, rest, all).ok,
         one.ok /\ CommaAt(part, one.next) /\ rest.ok => other = rest /\ both = all
  PROVE  Get!Listed(text, one, bracket, this, other, both) =
           Get!Listed(part, one, bracket, this, rest, all)
<1>1. one.ok /\ (Get!Shuts(part, one.next, bracket) \/ (CommaAt(part, one.next) /\ rest.ok))
  BY ListedOk, Zenon
<1>2. CASE Get!Shuts(part, one.next, bracket)
  <2>1. Get!Shuts(text, one.next, bracket)
    BY <1>2, SignsStart, Zenon DEF Get!Shuts
  <2> QED
    BY <1>1, <1>2, <2>1, Zenon DEF Get!Listed
<1>3. CASE ~Get!Shuts(part, one.next, bracket)
  <2>1. CommaAt(part, one.next) /\ rest.ok /\ other = rest /\ both = all
    BY <1>1, <1>3, Zenon
  <2>2. one.next \in 1 .. Len(part) /\ CommaAt(text, one.next)
    BY <2>1, StartIs, SignsStart, IsWithin, Zenon DEF CommaAt
  <2>3. ~Get!Shuts(text, one.next, bracket)
    BY <1>3, <2>2, SignsStart, Zenon DEF Get!Shuts
  <2> QED
    BY <1>1, <1>3, <2>1, <2>2, <2>3, Zenon DEF Get!Listed, CommaAt
<1> QED
  BY <1>2, <1>3, Zenon

\* What the rows of f have read, those of g have read as well.
AlsoRead(f, g, i, l) ==
  \A j \in i .. l + 1, what \in Kinds : f[j][what].ok => g[j][what] = f[j][what]

\* A value read in a beginning is read in the text, when all behind it is.
LEMMA ValueStart ==
  ASSUME NEW S, NEW text \in Seq(S), NEW part, IsStart(part, text), NEW f, NEW g,
         NEW i \in 1 .. Len(part), RowsAhead(f, i + 1, Len(part)),
         AlsoRead(f, g, i + 1, Len(part)), ValueAt(f, part, i).ok
  PROVE  ValueAt(g, text, i) = ValueAt(f, part, i)
<1> DEFINE l == Len(part)
           v == ValueAt(f, part, i)
<1>1. /\ part \in Seq(S) /\ l \in Nat /\ l <= Len(text)
      /\ \A k \in 1 .. l : part[k] = text[k]
  BY StartIs, Zenon
<1>2. i + 1 \in i + 1 .. l + 1 /\ part[i] = text[i]
  BY <1>1, SMT
<1>3. ASSUME NEW kind \in Kinds, f[i + 1][kind].ok
      PROVE  g[i + 1][kind] = f[i + 1][kind] /\ i + 1 \in 1 .. l
  <2> DEFINE r == f[i + 1][kind]
  <2>1. g[i + 1][kind] = r /\ Ahead(r, i + 1, l)
    BY <1>2, <1>3, Zenon DEF AlsoRead, RowsAhead
  <2>2. r.next \in i + 1 + 1 .. l + 1
    BY <1>3, <2>1, Zenon DEF Ahead
  <2> HIDE DEF r, l
  <2>3. i + 1 \in 1 .. l
    BY <1>1, <2>2, SMT
  <2> QED
    BY <2>1, <2>3, Zenon DEF r
<1>4. "members" \in Kinds /\ "elements" \in Kinds
  BY Zenon DEF Kinds
<1>5. CASE Get!Is(part, i, "{")
  <2>1. Get!Is(text, i, "{")
    BY <1>5, SignsStart, Zenon
  <2>2. CASE Get!Is(part, i + 1, "}")
    <3>1. Get!Is(text, i + 1, "}")
      BY <2>2, SignsStart, Zenon
    <3> QED
      BY <1>5, <2>1, <2>2, <3>1, Zenon DEF ValueAt
  <2>3. CASE ~Get!Is(part, i + 1, "}")
    <3>1. v = f[i + 1]["members"]
      BY <1>5, <2>3, Zenon DEF ValueAt
    <3>2. g[i + 1]["members"] = v /\ i + 1 \in 1 .. l
      BY <1>3, <1>4, <3>1, Zenon
    <3>3. ~Get!Is(text, i + 1, "}")
      BY <2>3, <3>2, SignsStart, Zenon
    <3> QED
      BY <2>1, <3>2, <3>3, Zenon DEF ValueAt
  <2> QED
    BY <2>2, <2>3, Zenon
<1>6. CASE ~Get!Is(part, i, "{") /\ Get!Is(part, i, "[")
  <2>1. ~Get!Is(text, i, "{") /\ Get!Is(text, i, "[")
    BY <1>6, SignsStart, Zenon
  <2>2. CASE Get!Is(part, i + 1, "]")
    <3>1. Get!Is(text, i + 1, "]")
      BY <2>2, SignsStart, Zenon
    <3> QED
      BY <1>6, <2>1, <2>2, <3>1, Zenon DEF ValueAt
  <2>3. CASE ~Get!Is(part, i + 1, "]")
    <3>1. v = f[i + 1]["elements"]
      BY <1>6, <2>3, Zenon DEF ValueAt
    <3>2. g[i + 1]["elements"] = v /\ i + 1 \in 1 .. l
      BY <1>3, <1>4, <3>1, Zenon
    <3>3. ~Get!Is(text, i + 1, "]")
      BY <2>3, <3>2, SignsStart, Zenon
    <3> QED
      BY <2>1, <3>2, <3>3, Zenon DEF ValueAt
  <2> QED
    BY <2>2, <2>3, Zenon
<1>7. CASE ~Get!Is(part, i, "{") /\ ~Get!Is(part, i, "[")
  <2>1. ~Get!Is(text, i, "{") /\ ~Get!Is(text, i, "[")
    BY <1>7, SignsStart, Zenon
  <2> QED
    BY <1>2, <1>7, <2>1, Zenon DEF ValueAt
<1> QED
  BY <1>5, <1>6, <1>7, Zenon

\* What is read at a place of a beginning is read there in the text, when all behind is.
LEMMA RowStart ==
  ASSUME NEW S, NEW text \in Seq(S), NEW part, IsStart(part, text), NEW f, NEW g,
         NEW i \in 1 .. Len(part) + 1, RowsAhead(f, i + 1, Len(part)),
         AlsoRead(f, g, i + 1, Len(part)), NEW what \in Kinds, RowAt(f, part, i, what).ok
  PROVE  RowAt(g, text, i, what) = RowAt(f, part, i, what)
<1> DEFINE l == Len(part)
           v == ValueAt(f, part, i)
           w == ValueAt(g, text, i)
           m == f[i + 2]["parse"]
           n == g[i + 2]["parse"]
<1>1. /\ part \in Seq(S) /\ l \in Nat /\ l <= Len(text)
      /\ \A k \in 1 .. l : part[k] = text[k]
  BY StartIs, Zenon
<1>2. "parse" \in Kinds /\ "members" \in Kinds /\ "elements" \in Kinds
  BY Zenon DEF Kinds
<1>3. ~(i > l)
  <2>1. RowAt(f, part, i, what) # Get!NoValue
    BY OkOrNot, Zenon
  <2> QED
    BY <2>1, Zenon DEF RowAt
<1>4. i \in 1 .. l /\ ~(i > Len(text)) /\ part[i] = text[i] /\ i \in Nat
  BY <1>1, <1>3, SMT
<1>5. v.ok => w = v
  BY <1>4, ValueStart, SMT
<1>6. CASE what = "parse"
  BY <1>3, <1>4, <1>5, <1>6, Zenon DEF RowAt
<1>7. ASSUME NEW one, NEW kind \in Kinds, one.ok => one.next \in i + 1 .. l + 1,
             one.ok /\ CommaAt(part, one.next) /\ f[one.next + 1][kind].ok
      PROVE  g[one.next + 1][kind] = f[one.next + 1][kind]
  <2> DEFINE k == one.next
  <2>1. k \in i + 1 .. l + 1 /\ k \in 1 .. l
    BY <1>1, <1>7, IsWithin, Zenon DEF CommaAt
  <2> HIDE DEF k, l
  <2>2. k + 1 \in i + 1 .. l + 1
    BY <1>1, <1>4, <2>1, SMT
  <2> QED
    BY <1>7, <2>2, Zenon DEF AlsoRead, k, l
<1>8. CASE what = "elements"
  <2> DEFINE r == f[v.next + 1]["elements"]
             s == g[v.next + 1]["elements"]
             a == Get!ARR(<<v.v>> \o r.v.a)
             b == Get!ARR(<<v.v>> \o s.v.a)
             e == "]"
             t == Get!ARR(<<v.v>>)
  <2>1. RowAt(f, part, i, what) = ElementsAt(f, part, v)
    BY <1>2, <1>3, <1>8, Zenon DEF RowAt
  <2>2. ElementsAt(f, part, v) = Get!Listed(part, v, e, t, r, a)
    BY Zenon DEF ElementsAt
  <2>3. v.ok /\ Get!Listed(part, v, e, t, r, a).ok
    BY <2>1, <2>2, ListedOk, Zenon
  <2>4. v.next \in i + 1 .. l + 1
    BY <1>1, <1>4, <2>3, ValueAhead, Zenon DEF Ahead
  <2>5. v.ok /\ CommaAt(part, v.next) /\ r.ok => s = r /\ b = a
    BY <1>2, <1>7, <2>4, Zenon
  <2>6. RowAt(g, text, i, what) = Get!Listed(text, v, e, t, s, b)
    <3>1. RowAt(g, text, i, what) = ElementsAt(g, text, w)
      BY <1>2, <1>4, <1>8, Zenon DEF RowAt
    <3>2. w = v
      BY <1>5, <2>3, Zenon
    <3>3. RowAt(g, text, i, what) = ElementsAt(g, text, v)
      BY <3>1, <3>2, Zenon
    <3> QED
      BY <3>3, Zenon DEF ElementsAt
  <2> HIDE DEF r, s, a, b, e, t, v
  <2>7. Get!Listed(text, v, e, t, s, b) = Get!Listed(part, v, e, t, r, a)
    BY <2>3, <2>5, ListedStart, SMT
  <2> QED
    BY <2>1, <2>2, <2>6, <2>7, Zenon
<1>9. CASE what = "members"
  <2> DEFINE one == Member(text[i], m.v)
             r == f[m.next + 1]["members"]
             s == g[m.next + 1]["members"]
             a == Get!OBJ(Get!Merged(one, r.v.o))
             b == Get!OBJ(Get!Merged(one, s.v.o))
             e == "}"
             t == Get!OBJ(one)
  <2>0. text[i][1] = "str" /\ Get!Is(part, i + 1, ":")
    <3>1. RowAt(f, part, i, what) # Get!NoValue
      BY OkOrNot, Zenon
    <3>2. part[i][1] = "str" /\ Get!Is(part, i + 1, ":")
      BY <1>2, <1>3, <1>9, <3>1, Zenon DEF RowAt
    <3> QED
      BY <1>4, <3>2, Zenon
  <2>1. RowAt(f, part, i, what) = MembersAt(f, part, text[i], m)
    BY <1>3, <1>4, <1>9, <2>0, Zenon DEF RowAt
  <2>2. MembersAt(f, part, text[i], m) = Get!Listed(part, m, e, t, r, a)
    BY Zenon DEF MembersAt
  <2>3. m.ok /\ Get!Listed(part, m, e, t, r, a).ok
    BY <2>1, <2>2, ListedOk, Zenon
  <2>4. i + 2 \in i + 1 .. l + 1
    <3>1. i + 1 \in 1 .. l
      BY <1>1, <2>0, IsWithin, Zenon
    <3> QED
      BY <1>1, <1>4, <3>1, SMT
  <2>5. n = m /\ m.next \in i + 1 .. l + 1
    <3>1. n = m /\ Ahead(m, i + 2, l)
      BY <1>2, <2>3, <2>4, Zenon DEF AlsoRead, RowsAhead
    <3>2. m.next \in i + 2 + 1 .. l + 1
      BY <2>3, <3>1, Zenon DEF Ahead
    <3> HIDE DEF m, l
    <3>3. m.next \in i + 1 .. l + 1
      BY <1>1, <1>4, <3>2, SMT
    <3> QED
      BY <3>1, <3>3, Zenon
  <2>6. m.ok /\ CommaAt(part, m.next) /\ r.ok => s = r /\ b = a
    BY <1>2, <1>7, <2>5, Zenon
  <2>7. RowAt(g, text, i, what) = Get!Listed(text, m, e, t, s, b)
    <3>1. Get!Is(text, i + 1, ":")
      BY <2>0, SignsStart, Zenon
    <3>2. RowAt(g, text, i, what) = MembersAt(g, text, text[i], n)
      BY <1>4, <1>9, <2>0, <3>1, Zenon DEF RowAt
    <3>3. RowAt(g, text, i, what) = MembersAt(g, text, text[i], m)
      BY <2>5, <3>2, Zenon
    <3> QED
      BY <3>3, Zenon DEF MembersAt
  <2> HIDE DEF one, r, s, a, b, e, t, m
  <2>8. Get!Listed(text, m, e, t, s, b) = Get!Listed(part, m, e, t, r, a)
    BY <2>3, <2>6, ListedStart, SMT
  <2> QED
    BY <2>1, <2>2, <2>7, <2>8, Zenon
<1> QED
  BY <1>6, <1>8, <1>9, Zenon DEF Kinds

\* All that is read in a beginning of a text is read in the text.
LEMMA ParseStart ==
  ASSUME NEW S, NEW text \in Seq(S), NEW part, IsStart(part, text), NEW f, NEW g,
         IsParse(f, part), IsParse(g, text)
  PROVE  AlsoRead(f, g, 1, Len(part))
<1> DEFINE l == Len(part)
           left(n) == (l + 2) - n
           T == {n \in Nat : n <= l + 1 => AlsoRead(f, g, left(n), l)}
<1>1. l \in Nat /\ part \in Seq(S) /\ l <= Len(text)
  BY StartIs, Zenon
<1>2. 0 \in T
  <2>1. \A j : j \notin left(0) .. l + 1
    BY <1>1, SMT
  <2> QED
    BY <2>1, Zenon DEF AlsoRead
<1>3. RowsAhead(f, 1, l)
  BY <1>1, ParseAhead, Zenon
<1>4. ASSUME NEW n \in Nat, n \in T PROVE n + 1 \in T
  <2>1. n + 1 \in Nat
    OBVIOUS
  <2>2. CASE n + 1 <= l + 1
    <3> DEFINE a == left(n)
               b == left(n + 1)
    <3>1. n <= l + 1 /\ b \in 1 .. l + 1 /\ b + 1 = a /\ b \in 1 .. Len(text) + 1
      BY <1>1, <2>2, SMT
    <3>2. AlsoRead(f, g, a, l)
      BY <1>4, <3>1, Zenon
    <3> HIDE DEF a, b, left
    <3>3. AlsoRead(f, g, b + 1, l)
      BY <3>1, <3>2, Zenon
    <3>4. RowsAhead(f, b + 1, l)
      <4>1. \A j \in b + 1 .. l + 1 : j \in 1 .. l + 1
        BY <1>1, <3>1, SMT
      <4> QED
        BY <1>3, <4>1, Zenon DEF RowsAhead
    <3>5. ASSUME NEW what \in Kinds, f[b][what].ok PROVE g[b][what] = f[b][what]
      <4> DEFINE r(j, w) == RowAt(f, part, j, w)
                 s(j, w) == RowAt(g, text, j, w)
      <4>1. /\ f = [j \in 1 .. l + 1 |-> [w \in Kinds |-> r(j, w)]]
            /\ g = [j \in 1 .. Len(text) + 1 |-> [w \in Kinds |-> s(j, w)]]
        BY Zenon DEF IsParse
      <4> HIDE DEF r, s
      <4>2. f[b][what] = r(b, what) /\ g[b][what] = s(b, what)
        BY <3>1, <4>1, SMT
      <4>3. r(b, what).ok => s(b, what) = r(b, what)
        BY <3>1, <3>3, <3>4, RowStart, SMT DEF r, s
      <4> QED
        BY <3>5, <4>2, <4>3, Zenon
    <3>6. \A j \in b .. l + 1 : j = b \/ j \in b + 1 .. l + 1
      BY <1>1, <3>1, SMT
    <3>7. AlsoRead(f, g, b, l)
      BY <3>3, <3>5, <3>6, Zenon DEF AlsoRead
    <3> QED
      BY <2>1, <3>7, Zenon DEF b
  <2>3. CASE ~(n + 1 <= l + 1)
    BY <2>1, <2>3, Zenon
  <2> QED
    BY <2>2, <2>3, Zenon
<1>5. \A n \in Nat : n \in T
  <2> HIDE DEF T
  <2> QED
    BY <1>2, <1>4, AllNumbers
<1>6. l + 1 \in Nat /\ l + 1 <= l + 1 /\ left(l + 1) = 1
  BY <1>1, SMT
<1> QED
  BY <1>5, <1>6, Zenon

\* What the parser takes for a value ends where the text does or before, and nothing that
\* follows it changes it. So an answer that is cut off within its value, as one is
\* whose connection ends, is never taken for a release.
THEOREM NothingAddsToAValue ==
  ASSUME NEW S, NEW text \in Seq(S), NEW n \in 0 .. Len(text),
         Get!parse(SubSeq(text, 1, n)).ok
  PROVE  /\ Get!parse(text) = Get!parse(SubSeq(text, 1, n))
         /\ Get!parse(text).next \in 2 .. n + 1
<1> DEFINE part == SubSeq(text, 1, n)
<1>1. part \in Seq(S) /\ Len(part) = n /\ n \in Nat
  BY SMT
<1>2. IsStart(part, text)
  BY Zenon DEF IsStart
<1> HIDE DEF part
<1>3. PICK f : IsParse(f, part) /\ Get!parse(part) = f[1]["parse"]
  BY <1>1, ParseRuns, Zenon
<1>4. PICK g : IsParse(g, text) /\ Get!parse(text) = g[1]["parse"]
  BY ParseRuns, Zenon
<1>5. 1 \in 1 .. n + 1 /\ "parse" \in Kinds
  <2>1. 1 \in 1 .. n + 1
    BY <1>1, SMT
  <2> QED
    BY <2>1, Zenon DEF Kinds
<1>6. f[1]["parse"].ok
  BY <1>3, Zenon DEF part
<1>7. g[1]["parse"] = f[1]["parse"]
  <2>1. AlsoRead(f, g, 1, Len(part))
    BY <1>2, <1>3, <1>4, ParseStart, SMT
  <2>2. AlsoRead(f, g, 1, n)
    BY <1>1, <2>1, Zenon
  <2> QED
    BY <1>5, <1>6, <2>2, Zenon DEF AlsoRead
<1>8. Ahead(f[1]["parse"], 1, n)
  BY <1>1, <1>3, <1>5, ParseAhead, Zenon DEF RowsAhead
<1>9. f[1]["parse"].next \in 1 + 1 .. n + 1
  BY <1>6, <1>8, Zenon DEF Ahead
<1>10. 1 + 1 = 2
  OBVIOUS
<1> QED
  BY <1>3, <1>4, <1>7, <1>9, <1>10, Zenon DEF part

(* ------------------------ the answer that is whole --------------------- *)

\* Different signs are different tokens.
LEMMA OneSign ==
  ASSUME NEW a, NEW b, a # b
  PROVE  <<a>> # <<b>>
OBVIOUS

\* No two of these signs are the same.
LEMMA OtherSign ==
  ASSUME NEW text, NEW i, NEW a \in {"{", "[", ",", ":", "}", "]"},
         NEW b \in {"{", "[", ",", ":", "}", "]"}, a # b, Get!Is(text, i, a)
  PROVE  ~Get!Is(text, i, b)
<1>1. text[i] = <<a>>
  BY Zenon DEF Get!Is
<1>2. <<a>> # <<b>>
  BY OneSign, Zenon
<1> QED
  BY <1>1, <1>2, Zenon DEF Get!Is

\* What the parser reads at a place of the text.
LEMMA RowIs ==
  ASSUME NEW S, NEW text \in Seq(S), NEW read, IsParse(read, text),
         NEW i \in 1 .. Len(text), NEW what \in Kinds
  PROVE  read[i][what] = RowAt(read, text, i, what) /\ ~(i > Len(text))
<1> DEFINE r(j, w) == RowAt(read, text, j, w)
<1>1. read = [j \in 1 .. Len(text) + 1 |-> [w \in Kinds |-> r(j, w)]]
  BY Zenon DEF IsParse
<1>2. i \in 1 .. Len(text) + 1 /\ ~(i > Len(text))
  BY SMT
<1> HIDE DEF r
<1>3. read[i][what] = r(i, what)
  BY <1>1, <1>2, SMT
<1> QED
  BY <1>2, <1>3, Zenon DEF r

\* The value the parser reads at a place of the text.
LEMMA ValueIs ==
  ASSUME NEW S, NEW text \in Seq(S), NEW read, IsParse(read, text), NEW i \in 1 .. Len(text)
  PROVE  read[i]["parse"] = ValueAt(read, text, i)
<1>1. "parse" \in Kinds
  BY Zenon DEF Kinds
<1> QED
  BY <1>1, RowIs, Zenon DEF RowAt

\* A value that is an atom, or opens with a bracket.
LEMMA AtomAt ==
  ASSUME NEW S, NEW text \in Seq(S), NEW read, IsParse(read, text), NEW i \in 1 .. Len(text),
         Get!Atom(text[i], 0).ok
  PROVE  read[i]["parse"] = Get!Read(Get!Atom(text[i], 0).v, i + 1)
<1> DEFINE c == text[i]
<1>1. c[1] \in {"str", "num", "word"}
  <2>1. Get!Atom(c, 0) # Get!NoValue
    BY OkOrNot, Zenon
  <2> QED
    BY <2>1, Zenon DEF Get!Atom
<1>2. PICK v : Get!Atom(c, 0) = Get!Read(v, 0) /\ Get!Atom(c, i + 1) = Get!Read(v, i + 1)
  BY <1>1, Zenon DEF Get!Atom
<1>3. Get!Atom(c, 0).v = v
  BY <1>2, ReadIs, Zenon
<1>4. ~Get!Is(text, i, "{") /\ ~Get!Is(text, i, "[")
  <2>1. ASSUME NEW b \in {"{", "["} PROVE c # <<b>>
    <3>1. <<b>>[1] = b /\ b \notin {"str", "num", "word"}
      BY Zenon
    <3> QED
      BY <1>1, <3>1, Zenon
  <2> QED
    BY <2>1, Zenon DEF Get!Is
<1>5. ValueAt(read, text, i) = Get!Atom(c, i + 1)
  BY <1>4, Zenon DEF ValueAt
<1> QED
  BY <1>2, <1>3, <1>5, ValueIs, Zenon

\* An object or array is empty, or is what follows its bracket.
LEMMA OpenAt ==
  ASSUME NEW S, NEW text \in Seq(S), NEW read, IsParse(read, text), NEW i \in 1 .. Len(text)
  PROVE  /\ Get!Is(text, i, "{") /\ Get!Is(text, i + 1, "}") =>
              read[i]["parse"] = Get!Read(Get!OBJ(Get!Nothing), i + 2)
         /\ Get!Is(text, i, "{") /\ ~Get!Is(text, i + 1, "}") =>
              read[i]["parse"] = read[i + 1]["members"]
         /\ Get!Is(text, i, "[") /\ Get!Is(text, i + 1, "]") =>
              read[i]["parse"] = Get!Read(Get!ARR(<<>>), i + 2)
         /\ Get!Is(text, i, "[") /\ ~Get!Is(text, i + 1, "]") =>
              read[i]["parse"] = read[i + 1]["elements"]
<1>1. Get!Is(text, i, "[") => ~Get!Is(text, i, "{")
  BY OtherSign, Zenon
<1>2. read[i]["parse"] = ValueAt(read, text, i)
  BY ValueIs, Zenon
<1> QED
  BY <1>1, <1>2, Zenon DEF ValueAt

\* v is read at i, and ends at e.
Yields(read, i, what, v, e) == read[i][what] = Get!Read(v, e)

\* What follows in an array whose value at i ends at e.
LEMMA ElementsFrom ==
  ASSUME NEW S, NEW text \in Seq(S), NEW read, IsParse(read, text), NEW i \in 1 .. Len(text),
         NEW v, NEW e, Yields(read, i, "parse", v, e)
  PROVE  /\ Get!Is(text, e, "]") => Yields(read, i, "elements", Get!ARR(<<v>>), e + 1)
         /\ \A w, h : Get!Is(text, e, ",") /\ Yields(read, e + 1, "elements", w, h) =>
              Yields(read, i, "elements", Get!ARR(<<v>> \o w.a), h)
<1> DEFINE one == read[i]["parse"]
<1>1. /\ "elements" \in Kinds /\ "elements" # "parse"
      /\ one = ValueAt(read, text, i) /\ one = Get!Read(v, e)
  BY ValueIs, Zenon DEF Kinds, Yields
<1>2. read[i]["elements"] = ElementsAt(read, text, one)
  <2>1. read[i]["elements"] = RowAt(read, text, i, "elements") /\ ~(i > Len(text))
    BY <1>1, RowIs, Zenon
  <2>2. one = ValueAt(read, text, i) /\ "elements" # "parse"
    BY <1>1, Zenon
  <2> HIDE DEF one
  <2>3. RowAt(read, text, i, "elements") = ElementsAt(read, text, ValueAt(read, text, i))
    BY <2>1, <2>2, Zenon DEF RowAt
  <2> QED
    BY <2>1, <2>2, <2>3, Zenon
<1> HIDE DEF one
<1>3. one.ok /\ one.v = v /\ one.next = e
  BY <1>1, ReadIs, SMT
<1>4. ASSUME Get!Is(text, e, "]")
      PROVE  Yields(read, i, "elements", Get!ARR(<<v>>), e + 1)
  BY <1>2, <1>3, <1>4, Zenon DEF ElementsAt, Get!Listed, Get!Shuts, Yields
<1>5. ASSUME NEW w, NEW h, Get!Is(text, e, ","), Yields(read, e + 1, "elements", w, h)
      PROVE  Yields(read, i, "elements", Get!ARR(<<v>> \o w.a), h)
  <2> DEFINE r == read[e + 1]["elements"]
  <2>1. r.ok /\ r.v = w /\ r.next = h
    <3>1. r = Get!Read(w, h)
      BY <1>5, Zenon DEF Yields
    <3> HIDE DEF r
    <3> QED
      BY <3>1, ReadIs, SMT
  <2>2. ~Get!Shuts(text, e, "]")
    BY <1>5, OtherSign, Zenon DEF Get!Shuts
  <2>3. read[i]["elements"] =
          Get!Listed(text, one, "]", Get!ARR(<<v>>), r, Get!ARR(<<v>> \o r.v.a))
    BY <1>2, <1>3, Zenon DEF ElementsAt
  <2> HIDE DEF r
  <2>4. Get!Listed(text, one, "]", Get!ARR(<<v>>), r, Get!ARR(<<v>> \o r.v.a)) =
          Get!Read(Get!ARR(<<v>> \o r.v.a), r.next)
    BY <1>3, <1>5, <2>1, <2>2, Zenon DEF Get!Listed
  <2> QED
    BY <2>1, <2>3, <2>4, Zenon DEF Yields
<1> QED
  BY <1>4, <1>5, Zenon

\* What follows in an object whose key is at i and whose value ends at e.
LEMMA MembersFrom ==
  ASSUME NEW S, NEW text \in Seq(S), NEW read, IsParse(read, text), NEW i \in 1 .. Len(text),
         text[i][1] = "str", Get!Is(text, i + 1, ":"),
         NEW v, NEW e, Yields(read, i + 2, "parse", v, e)
  PROVE  /\ Get!Is(text, e, "}") =>
              Yields(read, i, "members", Get!OBJ(Member(text[i], v)), e + 1)
         /\ \A w, h : Get!Is(text, e, ",") /\ Yields(read, e + 1, "members", w, h) =>
              Yields(read, i, "members", Get!OBJ(Get!Merged(Member(text[i], v), w.o)), h)
<1> DEFINE one == read[i + 2]["parse"]
           m == Member(text[i], v)
<1>1. /\ "members" \in Kinds /\ "members" # "parse" /\ "members" # "elements"
      /\ one = Get!Read(v, e)
  BY Zenon DEF Kinds, Yields
<1>2. read[i]["members"] = MembersAt(read, text, text[i], one)
  BY <1>1, RowIs, Zenon DEF RowAt
<1> HIDE DEF one
<1>3. one.ok /\ one.v = v /\ one.next = e
  BY <1>1, ReadIs, SMT
<1>4. ASSUME Get!Is(text, e, "}")
      PROVE  Yields(read, i, "members", Get!OBJ(m), e + 1)
  BY <1>2, <1>3, <1>4, Zenon DEF MembersAt, Get!Listed, Get!Shuts, Yields
<1>5. ASSUME NEW w, NEW h, Get!Is(text, e, ","), Yields(read, e + 1, "members", w, h)
      PROVE  Yields(read, i, "members", Get!OBJ(Get!Merged(m, w.o)), h)
  <2> DEFINE r == read[e + 1]["members"]
             both == Get!OBJ(Get!Merged(m, r.v.o))
  <2>1. r.ok /\ r.v = w /\ r.next = h
    <3>1. r = Get!Read(w, h)
      BY <1>5, Zenon DEF Yields
    <3> HIDE DEF r
    <3> QED
      BY <3>1, ReadIs, SMT
  <2>2. ~Get!Shuts(text, e, "}")
    BY <1>5, OtherSign, Zenon DEF Get!Shuts
  <2>3. read[i]["members"] = Get!Listed(text, one, "}", Get!OBJ(m), r, both)
    BY <1>2, <1>3, Zenon DEF MembersAt
  <2> HIDE DEF r, both
  <2>4. Get!Listed(text, one, "}", Get!OBJ(m), r, both) = Get!Read(both, r.next)
    BY <1>3, <1>5, <2>1, <2>2, Zenon DEF Get!Listed
  <2> QED
    BY <2>1, <2>3, <2>4, Zenon DEF both, Yields
<1> QED
  BY <1>4, <1>5, Zenon

\* part is what text holds from i on.
Stands(text, i, part) ==
  /\ i \in Nat /\ i >= 1 /\ i + Len(part) <= Len(text) + 1
  /\ \A k \in 1 .. Len(part) : text[(i + k) - 1] = part[k]

\* Of two parts that stand in a text together each stands in its place.
LEMMA StandsBoth ==
  ASSUME NEW S, NEW text \in Seq(S), NEW p \in Seq(S), NEW q \in Seq(S), NEW i,
         Stands(text, i, p \o q)
  PROVE  Stands(text, i, p) /\ Stands(text, i + Len(p), q)
<1> DEFINE both == p \o q
           l == Len(p)
           m == Len(q)
<1>1. /\ Len(both) = l + m /\ l \in Nat /\ m \in Nat /\ Len(text) \in Nat
      /\ \A k \in 1 .. l : both[k] = p[k]
      /\ \A k \in 1 .. m : both[l + k] = q[k]
  BY SMT
<1>2. /\ i \in Nat /\ i >= 1 /\ i + Len(both) <= Len(text) + 1
      /\ \A k \in 1 .. Len(both) : text[(i + k) - 1] = both[k]
  BY Zenon DEF Stands
<1> HIDE DEF both, l, m
<1>3. i + l \in Nat /\ i + l >= 1 /\ (i + l) + m <= Len(text) + 1 /\ i + l <= Len(text) + 1
  BY <1>1, <1>2, SMT
<1>4. ASSUME NEW k \in 1 .. l PROVE text[(i + k) - 1] = p[k]
  <2>1. k \in 1 .. Len(both)
    BY <1>1, SMT
  <2> QED
    BY <1>1, <1>2, <2>1, Zenon
<1>5. ASSUME NEW k \in 1 .. m PROVE text[((i + l) + k) - 1] = q[k]
  <2>1. l + k \in 1 .. Len(both) /\ (i + (l + k)) - 1 = ((i + l) + k) - 1
    BY <1>1, <1>2, SMT
  <2>2. text[(i + (l + k)) - 1] = both[l + k]
    BY <1>2, <2>1, Zenon
  <2> QED
    BY <1>1, <2>1, <2>2, Zenon
<1> QED
  BY <1>2, <1>3, <1>4, <1>5, Zenon DEF Stands, l, m

\* Where a part stands, its first sign does.
LEMMA StandsFirst ==
  ASSUME NEW S, NEW text \in Seq(S), NEW p \in Seq(S), Len(p) >= 1, NEW i, Stands(text, i, p)
  PROVE  i \in 1 .. Len(text) /\ text[i] = p[1]
<1>1. /\ i \in Nat /\ i >= 1 /\ i + Len(p) <= Len(text) + 1
      /\ \A k \in 1 .. Len(p) : text[(i + k) - 1] = p[k]
  BY Zenon DEF Stands
<1>2. 1 \in 1 .. Len(p) /\ (i + 1) - 1 = i /\ i \in 1 .. Len(text)
  BY <1>1, SMT
<1> QED
  BY <1>1, <1>2, Zenon

\* A text of one sign, and two in one.
LEMMA OneIs ==
  ASSUME NEW S, NEW c \in S
  PROVE  <<c>> \in Seq(S) /\ Len(<<c>>) = 1 /\ Len(<<c>>) >= 1 /\ <<c>>[1] = c
OBVIOUS

\* The length and the first sign of two parts together.
LEMMA BothIs ==
  ASSUME NEW S, NEW p \in Seq(S), NEW q \in Seq(S), Len(p) >= 1
  PROVE  /\ p \o q \in Seq(S) /\ Len(p \o q) = Len(p) + Len(q) /\ Len(p \o q) >= 1
         /\ (p \o q)[1] = p[1] /\ Len(p) \in Nat /\ Len(q) \in Nat
BY SMT

\* Where a part of one sign stands, that sign does.
LEMMA StandsSign ==
  ASSUME NEW S, NEW text \in Seq(S), NEW c \in S, NEW i, Stands(text, i, <<c>>)
  PROVE  i \in 1 .. Len(text) /\ text[i] = c /\ \A sign : c = <<sign>> => Get!Is(text, i, sign)
<1> DEFINE p == <<c>>
<1>1. p \in Seq(S) /\ Len(p) >= 1 /\ Len(p) = 1 /\ p[1] = c
  OBVIOUS
<1> HIDE DEF p
<1>2. Stands(text, i, p)
  BY Zenon DEF p
<1>3. i \in 1 .. Len(text) /\ text[i] = c
  BY <1>1, <1>2, StandsFirst, Zenon
<1>4. i \in DOMAIN text
  BY <1>3
<1> QED
  BY <1>3, <1>4, Zenon DEF Get!Is

\* A value does not begin with a bracket that shuts, nor does what follows one that opens.
Begins(part) == Len(part) >= 1 /\ part[1] # <<"]">> /\ part[1] # <<"}">>

\* Wherever part stands, v is read there and no more than part is.
Spells(S, part, what, v) ==
  /\ part \in Seq(S) /\ Begins(part)
  /\ \A text \in Seq(S) : \A read, i :
       IsParse(read, text) /\ Stands(text, i, part) => Yields(read, i, what, v, i + Len(part))

\* A text, number or word is read as its value.
LEMMA SpellsAtom ==
  ASSUME NEW S, NEW c \in S, Get!Atom(c, 0).ok
  PROVE  Spells(S, <<c>>, "parse", Get!Atom(c, 0).v)
<1> DEFINE p == <<c>>
<1>1. p \in Seq(S) /\ Len(p) = 1 /\ Len(p) >= 1 /\ p[1] = c
  OBVIOUS
<1>2. c # <<"]">> /\ c # <<"}">>
  <2>1. c[1] \in {"str", "num", "word"}
    <3>1. Get!Atom(c, 0) # Get!NoValue
      BY OkOrNot, Zenon
    <3> QED
      BY <3>1, Zenon DEF Get!Atom
  <2>2. ASSUME NEW b \in {"]", "}"} PROVE c # <<b>>
    <3>1. <<b>>[1] = b /\ b \notin {"str", "num", "word"}
      BY Zenon
    <3> QED
      BY <2>1, <3>1, Zenon
  <2> QED
    BY <2>2, Zenon
<1>3. ASSUME NEW text \in Seq(S), NEW read, NEW i, IsParse(read, text), Stands(text, i, p)
      PROVE  Yields(read, i, "parse", Get!Atom(c, 0).v, i + Len(p))
  <2> HIDE DEF p
  <2>1. i \in 1 .. Len(text) /\ text[i] = c
    BY <1>1, <1>3, StandsFirst, Zenon
  <2>2. read[i]["parse"] = Get!Read(Get!Atom(c, 0).v, i + 1)
    BY <1>3, <2>1, AtomAt, Zenon
  <2> QED
    BY <1>1, <2>2, Zenon DEF Yields
<1> HIDE DEF p
<1>4. Spells(S, p, "parse", Get!Atom(c, 0).v)
  BY <1>1, <1>2, <1>3, Zenon DEF Spells, Begins
<1> QED
  BY <1>4, Zenon DEF p

\* The brackets of an empty object or array, and those that open what is not empty.
IsEmpty(a, b, v) ==
  \/ a = "{" /\ b = "}" /\ v = Get!OBJ(Get!Nothing)
  \/ a = "[" /\ b = "]" /\ v = Get!ARR(<<>>)

Opens(a, what) == (a = "{" /\ what = "members") \/ (a = "[" /\ what = "elements")

\* An empty object or array is read as that.
LEMMA SpellsEmpty ==
  ASSUME NEW S, NEW a, NEW b, NEW v, <<a>> \in S, <<b>> \in S, IsEmpty(a, b, v)
  PROVE  Spells(S, <<<<a>>>> \o <<<<b>>>>, "parse", v)
<1> DEFINE p == <<<<a>>>>
           q == <<<<b>>>>
           both == p \o q
<1>1. /\ p \in Seq(S) /\ q \in Seq(S) /\ both \in Seq(S) /\ both = p \o q
      /\ Len(p) = 1 /\ Len(both) = 2 /\ Len(both) >= 1 /\ both[1] = <<a>>
  <2>1. /\ p \in Seq(S) /\ Len(p) = 1 /\ Len(p) >= 1 /\ p[1] = <<a>>
        /\ q \in Seq(S) /\ Len(q) = 1
    BY OneIs, Zenon
  <2> HIDE DEF p, q
  <2>2. /\ both \in Seq(S) /\ Len(both) = Len(p) + Len(q) /\ Len(both) >= 1
        /\ both[1] = p[1]
    BY <2>1, BothIs, Zenon
  <2>3. Len(both) = 2
    BY <2>1, <2>2, SMT
  <2> QED
    BY <2>1, <2>2, <2>3, Zenon
<1>2. <<a>> # <<"]">> /\ <<a>> # <<"}">>
  BY OneSign, Zenon DEF IsEmpty
<1> HIDE DEF p, q, both
<1>3. ASSUME NEW text \in Seq(S), NEW read, NEW i, IsParse(read, text), Stands(text, i, both)
      PROVE  Yields(read, i, "parse", v, i + Len(both))
  <2>1. Stands(text, i, p) /\ Stands(text, i + 1, q)
    BY <1>1, <1>3, StandsBoth, Zenon
  <2>2. i \in 1 .. Len(text) /\ Get!Is(text, i, a) /\ Get!Is(text, i + 1, b)
    BY <2>1, StandsSign, Zenon DEF p, q
  <2>3. read[i]["parse"] = Get!Read(v, i + 2)
    BY <1>3, <2>2, OpenAt, Zenon DEF IsEmpty
  <2> QED
    BY <1>1, <2>3, Zenon DEF Yields
<1>4. Begins(both)
  BY <1>1, <1>2, Zenon DEF Begins
<1>5. Spells(S, both, "parse", v)
  BY <1>1, <1>3, <1>4, Zenon DEF Spells
<1> QED
  BY <1>5, Zenon DEF both, p, q

\* What is opened by a bracket and goes on after it.
LEMMA SpellsOpen ==
  ASSUME NEW S, NEW a, NEW what, NEW q, NEW v, <<a>> \in S, Spells(S, q, what, v),
         Opens(a, what)
  PROVE  Spells(S, <<<<a>>>> \o q, "parse", v)
<1> DEFINE p == <<<<a>>>>
           both == p \o q
           l == Len(q)
<1>1. /\ q \in Seq(S) /\ Begins(q)
      /\ \A text \in Seq(S) : \A read, i :
           IsParse(read, text) /\ Stands(text, i, q) => Yields(read, i, what, v, i + l)
  BY Zenon DEF Spells
<1>2. p \in Seq(S) /\ Len(p) = 1 /\ p[1] = <<a>> /\ Len(p) >= 1
  BY OneIs, Zenon
<1> HIDE DEF p
<1>3. both \in Seq(S) /\ Len(both) = 1 + l /\ Len(both) >= 1 /\ both[1] = <<a>> /\ l \in Nat
  <2>1. /\ both \in Seq(S) /\ Len(both) = Len(p) + l /\ Len(both) >= 1 /\ both[1] = p[1]
        /\ l \in Nat
    BY <1>1, <1>2, BothIs, Zenon
  <2> QED
    BY <1>2, <2>1, Zenon
<1>4. <<a>> # <<"]">> /\ <<a>> # <<"}">>
  BY OneSign, Zenon DEF Opens
<1> HIDE DEF l
<1>5. ASSUME NEW text \in Seq(S), NEW read, NEW i, IsParse(read, text), Stands(text, i, both)
      PROVE  Yields(read, i, "parse", v, i + Len(both))
  <2>1. Stands(text, i, p) /\ Stands(text, i + 1, q)
    BY <1>1, <1>2, <1>5, StandsBoth, Zenon
  <2>2. i \in 1 .. Len(text) /\ Get!Is(text, i, a)
    BY <2>1, StandsSign, Zenon DEF p
  <2>3. text[i + 1] # <<"]">> /\ text[i + 1] # <<"}">>
    <3>1. Len(q) >= 1 /\ q[1] # <<"]">> /\ q[1] # <<"}">>
      BY <1>1, Zenon DEF Begins
    <3>2. text[i + 1] = q[1]
      BY <1>1, <2>1, <3>1, StandsFirst, Zenon
    <3> QED
      BY <3>1, <3>2, Zenon
  <2>4. read[i]["parse"] = read[i + 1][what]
    <3>1. ~Get!Is(text, i + 1, "]") /\ ~Get!Is(text, i + 1, "}")
      BY <2>3, Zenon DEF Get!Is
    <3>2. CASE a = "{" /\ what = "members"
      <4>1. Get!Is(text, i, "{")
        BY <2>2, <3>2, Zenon
      <4>2. read[i]["parse"] = read[i + 1]["members"]
        BY <1>5, <2>2, <3>1, <4>1, OpenAt, Zenon
      <4> QED
        BY <3>2, <4>2, Zenon
    <3>3. CASE a = "[" /\ what = "elements"
      <4>1. Get!Is(text, i, "[")
        BY <2>2, <3>3, Zenon
      <4>2. read[i]["parse"] = read[i + 1]["elements"]
        BY <1>5, <2>2, <3>1, <4>1, OpenAt, Zenon
      <4> QED
        BY <3>3, <4>2, Zenon
    <3> QED
      BY <3>2, <3>3, Zenon DEF Opens
  <2>5. Yields(read, i, "parse", v, (i + 1) + l)
    <3>1. Yields(read, i + 1, what, v, (i + 1) + l)
      BY <1>1, <1>5, <2>1, Zenon
    <3> QED
      BY <2>4, <3>1, Zenon DEF Yields
  <2>6. (i + 1) + l = i + Len(both)
    <3>1. i \in Nat
      BY <2>2
    <3> HIDE DEF both
    <3> QED
      BY <1>3, <3>1, SMT
  <2> QED
    BY <2>5, <2>6, Zenon
<1> HIDE DEF both
<1>6. Spells(S, both, "parse", v)
  BY <1>3, <1>4, <1>5, Zenon DEF Spells, Begins
<1> QED
  BY <1>6, Zenon DEF both, p

\* The last value of an array, and one that others follow.
LEMMA SpellsElements ==
  ASSUME NEW S, NEW p, NEW v, Spells(S, p, "parse", v)
  PROVE  /\ <<"]">> \in S => Spells(S, p \o <<<<"]">>>>, "elements", Get!ARR(<<v>>))
         /\ \A q, w : <<",">> \in S /\ Spells(S, q, "elements", w) =>
              Spells(S, p \o (<<<<",">>>> \o q), "elements", Get!ARR(<<v>> \o w.a))
<1> DEFINE l == Len(p)
<1>1. /\ p \in Seq(S) /\ Begins(p)
      /\ \A text \in Seq(S) : \A read, i :
           IsParse(read, text) /\ Stands(text, i, p) => Yields(read, i, "parse", v, i + l)
  BY Zenon DEF Spells
<1>2. l \in Nat /\ l >= 1
  <2>1. p \in Seq(S) /\ l >= 1
    BY <1>1, Zenon DEF Begins
  <2> QED
    BY <2>1, SMT
<1>3. ASSUME NEW x \in Seq(S)
      PROVE  p \o x \in Seq(S) /\ Begins(p \o x) /\ Len(p \o x) = l + Len(x)
  <2>1. /\ p \o x \in Seq(S) /\ Len(p \o x) = l + Len(x) /\ Len(p \o x) >= 1
        /\ (p \o x)[1] = p[1]
    BY <1>1, <1>2, SMT
  <2> QED
    BY <1>1, <2>1, Zenon DEF Begins
<1>4. ASSUME NEW text \in Seq(S), NEW read, NEW i, IsParse(read, text), NEW x \in Seq(S),
             Stands(text, i, p \o x)
      PROVE  /\ i \in 1 .. Len(text) /\ Stands(text, i + l, x)
             /\ Yields(read, i, "parse", v, i + l)
  <2>1. Stands(text, i, p) /\ Stands(text, i + l, x)
    BY <1>1, <1>4, StandsBoth, Zenon
  <2>2. i \in 1 .. Len(text)
    BY <1>1, <1>2, <2>1, StandsFirst, Zenon
  <2> QED
    BY <1>1, <1>4, <2>1, <2>2, Zenon
<1> HIDE DEF l
<1>5. ASSUME <<"]">> \in S
      PROVE  Spells(S, p \o <<<<"]">>>>, "elements", Get!ARR(<<v>>))
  <2> DEFINE x == <<<<"]">>>>
  <2>1. x \in Seq(S) /\ Len(x) = 1
    <3> DEFINE c == <<"]">>
    <3>1. c \in S
      BY <1>5, Zenon
    <3> HIDE DEF c
    <3>2. <<c>> \in Seq(S) /\ Len(<<c>>) = 1
      BY <3>1, SMT
    <3> QED
      BY <3>2, Zenon DEF c
  <2>2. ASSUME NEW text \in Seq(S), NEW read, NEW i, IsParse(read, text), Stands(text, i, p \o x)
        PROVE  Yields(read, i, "elements", Get!ARR(<<v>>), i + Len(p \o x))
    <3>1. /\ i \in 1 .. Len(text) /\ Stands(text, i + l, x)
          /\ Yields(read, i, "parse", v, i + l)
      BY <1>4, <2>1, <2>2, Zenon
    <3>2. Get!Is(text, i + l, "]")
      BY <1>5, <3>1, StandsSign, Zenon
    <3>3. Yields(read, i, "elements", Get!ARR(<<v>>), (i + l) + 1)
      BY <2>2, <3>1, <3>2, ElementsFrom, Zenon
    <3> HIDE DEF x
    <3>4. Len(p \o x) = l + 1 /\ i \in Nat
      <4>1. Len(p \o x) = l + Len(x)
        BY <1>3, <2>1, Zenon
      <4> QED
        BY <2>1, <3>1, <4>1, SMT
    <3>5. (i + l) + 1 = i + Len(p \o x)
      BY <1>2, <3>4, SMT
    <3> QED
      BY <3>3, <3>5, Zenon
  <2>3. p \o x \in Seq(S) /\ Begins(p \o x)
    BY <1>3, <2>1, Zenon
  <2> QED
    BY <2>2, <2>3, Zenon DEF Spells
<1>6. ASSUME NEW q, NEW w, <<",">> \in S, Spells(S, q, "elements", w)
      PROVE  Spells(S, p \o (<<<<",">>>> \o q), "elements", Get!ARR(<<v>> \o w.a))
  <2> DEFINE c == <<",">>
             m == Len(q)
             x == <<c>> \o q
             all == Get!ARR(<<v>> \o w.a)
  <2>1. /\ q \in Seq(S)
        /\ \A text \in Seq(S) : \A read, i :
             IsParse(read, text) /\ Stands(text, i, q) => Yields(read, i, "elements", w, i + m)
    BY <1>6, Zenon DEF Spells
  <2>2. c \in S
    BY <1>6, Zenon
  <2>3. c = <<",">>
    OBVIOUS
  <2> HIDE DEF c
  <2>4. x \in Seq(S) /\ Len(x) = 1 + m /\ m \in Nat /\ <<c>> \in Seq(S) /\ Len(<<c>>) = 1
    BY <2>1, <2>2, SMT
  <2>5. ASSUME NEW text \in Seq(S), NEW read, NEW i, IsParse(read, text), Stands(text, i, p \o x)
        PROVE  Yields(read, i, "elements", all, i + Len(p \o x))
    <3>1. /\ i \in 1 .. Len(text) /\ Stands(text, i + l, x)
          /\ Yields(read, i, "parse", v, i + l)
      BY <1>4, <2>4, <2>5, Zenon
    <3>2. Stands(text, i + l, <<c>>) /\ Stands(text, (i + l) + 1, q)
      BY <2>1, <2>4, <3>1, StandsBoth, Zenon
    <3>3. Get!Is(text, i + l, ",")
      BY <2>2, <2>3, <3>2, StandsSign, Zenon
    <3>4. Yields(read, (i + l) + 1, "elements", w, ((i + l) + 1) + m)
      BY <2>1, <2>5, <3>2, Zenon
    <3>5. Yields(read, i, "elements", all, ((i + l) + 1) + m)
      BY <2>5, <3>1, <3>3, <3>4, ElementsFrom, Zenon
    <3> HIDE DEF x, m
    <3>6. Len(p \o x) = l + (1 + m) /\ i \in Nat
      <4>1. Len(p \o x) = l + Len(x)
        BY <1>3, <2>4, Zenon
      <4> QED
        BY <2>4, <3>1, <4>1, SMT
    <3>7. ((i + l) + 1) + m = i + Len(p \o x)
      BY <1>2, <2>4, <3>6, SMT
    <3> QED
      BY <3>5, <3>7, Zenon
  <2>6. p \o x \in Seq(S) /\ Begins(p \o x)
    BY <1>3, <2>4, Zenon
  <2>7. Spells(S, p \o x, "elements", all)
    <3> HIDE DEF x
    <3> QED
      BY <2>5, <2>6, Zenon DEF Spells
  <2> QED
    BY <2>7, Zenon DEF c
<1> QED
  BY <1>5, <1>6, Zenon

\* A member of an object: its key c, a colon and what comes behind it.
Keyed(c, x) == <<c>> \o (<<<<":">>>> \o x)

\* The signs of a member, and where they stand.
LEMMA KeyedIs ==
  ASSUME NEW S, NEW c \in S, c[1] = "str", <<":">> \in S, NEW x \in Seq(S)
  PROVE  /\ Keyed(c, x) \in Seq(S) /\ Len(Keyed(c, x)) = 2 + Len(x) /\ Begins(Keyed(c, x))
         /\ \A text \in Seq(S) : \A i :
              Stands(text, i, Keyed(c, x)) =>
                /\ i \in 1 .. Len(text) /\ text[i] = c /\ Get!Is(text, i + 1, ":")
                /\ Stands(text, i + 2, x)
<1> DEFINE k == <<c>>
           colon == <<":">>
           s == <<colon>>
           y == s \o x
           all == k \o y
<1>1. colon \in S
  BY Zenon
<1>2. colon = <<":">>
  OBVIOUS
<1> HIDE DEF colon
<1>3. /\ k \in Seq(S) /\ Len(k) = 1 /\ Len(k) >= 1 /\ k[1] = c
      /\ s \in Seq(S) /\ Len(s) = 1 /\ Len(s) >= 1 /\ s[1] = colon
  BY <1>1, OneIs, Zenon
<1> HIDE DEF k, s
<1>4. y \in Seq(S) /\ Len(y) = Len(s) + Len(x) /\ Len(x) \in Nat
  BY <1>3, BothIs, Zenon
<1> HIDE DEF y
<1>5. all \in Seq(S) /\ Len(all) = Len(k) + Len(y) /\ Len(all) >= 1 /\ all[1] = c
  BY <1>3, <1>4, BothIs, Zenon
<1>6. Keyed(c, x) = all
  BY <1>2, Zenon DEF Keyed, k, s, y
<1> HIDE DEF all
<1>7. Len(all) = 2 + Len(x)
  BY <1>3, <1>4, <1>5, SMT
<1>8. Begins(all)
  <2>1. ASSUME NEW b \in {"]", "}"} PROVE c # <<b>>
    <3>1. <<b>>[1] = b /\ b # "str"
      BY Zenon
    <3> QED
      BY <3>1, Zenon
  <2> QED
    BY <1>5, <2>1, Zenon DEF Begins
<1>9. ASSUME NEW text \in Seq(S), NEW i, Stands(text, i, all)
      PROVE  /\ i \in 1 .. Len(text) /\ text[i] = c /\ Get!Is(text, i + 1, ":")
             /\ Stands(text, i + 2, x)
  <2>1. Stands(text, i, k) /\ Stands(text, i + 1, y)
    BY <1>3, <1>4, <1>9, StandsBoth, Zenon DEF all
  <2>2. i \in 1 .. Len(text) /\ text[i] = c
    BY <1>3, <2>1, StandsFirst, Zenon
  <2>3. Stands(text, i + 1, s) /\ Stands(text, (i + 1) + 1, x)
    BY <1>3, <2>1, StandsBoth, Zenon DEF y
  <2>4. i + 1 \in 1 .. Len(text) /\ text[i + 1] = colon
    BY <1>3, <2>3, StandsFirst, Zenon
  <2>5. i + 1 \in DOMAIN text
    BY <2>4
  <2>6. Get!Is(text, i + 1, ":")
    BY <1>2, <2>4, <2>5, Zenon DEF Get!Is
  <2>7. (i + 1) + 1 = i + 2
    BY <2>2, SMT
  <2> QED
    BY <2>2, <2>3, <2>6, <2>7, Zenon
<1> QED
  BY <1>5, <1>6, <1>7, <1>8, <1>9, Zenon

\* The last member of an object, and one that others follow.
LEMMA SpellsMembers ==
  ASSUME NEW S, NEW c \in S, c[1] = "str", <<":">> \in S, NEW p, NEW v, Spells(S, p, "parse", v)
  PROVE  /\ <<"}">> \in S =>
              Spells(S, Keyed(c, p \o <<<<"}">>>>), "members", Get!OBJ(Member(c, v)))
         /\ \A q, w : <<",">> \in S /\ Spells(S, q, "members", w) =>
              Spells(S, Keyed(c, p \o (<<<<",">>>> \o q)), "members",
                     Get!OBJ(Get!Merged(Member(c, v), w.o)))
<1> DEFINE l == Len(p)
<1>1. /\ p \in Seq(S) /\ Begins(p)
      /\ \A text \in Seq(S) : \A read, i :
           IsParse(read, text) /\ Stands(text, i, p) => Yields(read, i, "parse", v, i + l)
  BY Zenon DEF Spells
<1>2. l \in Nat /\ l >= 1
  <2>1. p \in Seq(S) /\ l >= 1
    BY <1>1, Zenon DEF Begins
  <2> QED
    BY <2>1, SMT
<1>3. ASSUME NEW x \in Seq(S)
      PROVE  p \o x \in Seq(S) /\ Len(p \o x) = l + Len(x) /\ Len(x) \in Nat
  BY <1>1, <1>2, BothIs, Zenon
<1>4. ASSUME NEW text \in Seq(S), NEW read, NEW i, IsParse(read, text), NEW x \in Seq(S),
             Stands(text, i, Keyed(c, p \o x))
      PROVE  /\ i \in 1 .. Len(text) /\ text[i] = c /\ Get!Is(text, i + 1, ":")
             /\ Stands(text, (i + 2) + l, x) /\ Yields(read, i + 2, "parse", v, (i + 2) + l)
  <2>1. /\ i \in 1 .. Len(text) /\ text[i] = c /\ Get!Is(text, i + 1, ":")
        /\ Stands(text, i + 2, p \o x)
    BY <1>3, <1>4, KeyedIs, Zenon
  <2>2. Stands(text, i + 2, p) /\ Stands(text, (i + 2) + l, x)
    BY <1>1, <1>4, <2>1, StandsBoth, Zenon
  <2> QED
    BY <1>1, <1>4, <2>1, <2>2, Zenon
<1>5. ASSUME NEW x \in Seq(S)
      PROVE  /\ Keyed(c, p \o x) \in Seq(S) /\ Begins(Keyed(c, p \o x))
             /\ Len(Keyed(c, p \o x)) = 2 + (l + Len(x)) /\ Len(x) \in Nat
  <2> DEFINE y == p \o x
  <2>1. y \in Seq(S) /\ Len(y) = l + Len(x) /\ Len(x) \in Nat
    BY <1>3, Zenon
  <2> HIDE DEF y
  <2>2. Keyed(c, y) \in Seq(S) /\ Begins(Keyed(c, y)) /\ Len(Keyed(c, y)) = 2 + Len(y)
    BY <2>1, KeyedIs, Zenon
  <2> QED
    BY <2>1, <2>2, Zenon DEF y
<1> HIDE DEF l
<1>6. ASSUME <<"}">> \in S
      PROVE  Spells(S, Keyed(c, p \o <<<<"}">>>>), "members", Get!OBJ(Member(c, v)))
  <2> DEFINE b == <<"}">>
             x == <<b>>
             all == Keyed(c, p \o x)
             o == Get!OBJ(Member(c, v))
  <2>1. b \in S
    BY <1>6, Zenon
  <2>2. b = <<"}">>
    OBVIOUS
  <2> HIDE DEF b
  <2>3. x \in Seq(S) /\ Len(x) = 1
    BY <2>1, OneIs, Zenon
  <2>4. all \in Seq(S) /\ Begins(all) /\ Len(all) = 2 + (l + 1)
    BY <1>5, <2>3, Zenon
  <2>5. ASSUME NEW text \in Seq(S), NEW read, NEW i, IsParse(read, text), Stands(text, i, all)
        PROVE  Yields(read, i, "members", o, i + Len(all))
    <3>1. /\ i \in 1 .. Len(text) /\ text[i] = c /\ Get!Is(text, i + 1, ":")
          /\ Stands(text, (i + 2) + l, x) /\ Yields(read, i + 2, "parse", v, (i + 2) + l)
      BY <1>4, <2>3, <2>5, Zenon
    <3>2. Get!Is(text, (i + 2) + l, "}")
      <4>1. (i + 2) + l \in 1 .. Len(text) /\ text[(i + 2) + l] = b
        <5>1. Len(x) >= 1 /\ x[1] = b /\ x \in Seq(S)
          BY <2>1, OneIs, Zenon
        <5> HIDE DEF x
        <5> QED
          BY <3>1, <5>1, StandsFirst, Zenon
      <4>2. (i + 2) + l \in DOMAIN text
        BY <4>1
      <4> QED
        BY <2>2, <4>1, <4>2, Zenon DEF Get!Is
    <3>3. Yields(read, i, "members", o, ((i + 2) + l) + 1)
      BY <2>5, <3>1, <3>2, MembersFrom, Zenon
    <3> HIDE DEF all
    <3>4. ((i + 2) + l) + 1 = i + Len(all)
      BY <1>2, <2>4, <3>1, SMT
    <3> QED
      BY <3>3, <3>4, Zenon
  <2>6. Spells(S, all, "members", o)
    <3> HIDE DEF all, o
    <3> QED
      BY <2>4, <2>5, Zenon DEF Spells
  <2> QED
    BY <2>6, Zenon DEF b
<1>7. ASSUME NEW q, NEW w, <<",">> \in S, Spells(S, q, "members", w)
      PROVE  Spells(S, Keyed(c, p \o (<<<<",">>>> \o q)), "members",
                    Get!OBJ(Get!Merged(Member(c, v), w.o)))
  <2> DEFINE b == <<",">>
             m == Len(q)
             x == <<b>> \o q
             all == Keyed(c, p \o x)
             o == Get!OBJ(Get!Merged(Member(c, v), w.o))
  <2>1. /\ q \in Seq(S)
        /\ \A text \in Seq(S) : \A read, i :
             IsParse(read, text) /\ Stands(text, i, q) => Yields(read, i, "members", w, i + m)
    BY <1>7, Zenon DEF Spells
  <2>2. b \in S
    BY <1>7, Zenon
  <2>3. b = <<",">>
    OBVIOUS
  <2> HIDE DEF b
  <2>4. /\ x \in Seq(S) /\ Len(x) = Len(<<b>>) + m /\ m \in Nat
        /\ <<b>> \in Seq(S) /\ Len(<<b>>) = 1
    <3>1. <<b>> \in Seq(S) /\ Len(<<b>>) = 1 /\ Len(<<b>>) >= 1
      BY <2>2, OneIs, Zenon
    <3> QED
      BY <2>1, <3>1, BothIs, Zenon
  <2>5. all \in Seq(S) /\ Begins(all) /\ Len(all) = 2 + (l + (1 + m))
    <3>1. Len(x) = 1 + m
      BY <2>4, Zenon
    <3> QED
      BY <1>5, <2>4, <3>1, Zenon
  <2>6. ASSUME NEW text \in Seq(S), NEW read, NEW i, IsParse(read, text), Stands(text, i, all)
        PROVE  Yields(read, i, "members", o, i + Len(all))
    <3> DEFINE e == (i + 2) + l
    <3>1. /\ i \in 1 .. Len(text) /\ text[i] = c /\ Get!Is(text, i + 1, ":")
          /\ Stands(text, e, x) /\ Yields(read, i + 2, "parse", v, e)
      BY <1>4, <2>4, <2>6, Zenon
    <3>2. Stands(text, e, <<b>>) /\ Stands(text, e + 1, q)
      BY <2>1, <2>4, <3>1, StandsBoth, Zenon
    <3>3. Get!Is(text, e, ",")
      BY <2>2, <2>3, <3>2, StandsSign, Zenon
    <3>4. Yields(read, e + 1, "members", w, (e + 1) + m)
      BY <2>1, <2>6, <3>2, Zenon
    <3>5. Yields(read, i, "members", o, (e + 1) + m)
      BY <2>6, <3>1, <3>3, <3>4, MembersFrom, Zenon
    <3> HIDE DEF all, m
    <3>6. (e + 1) + m = i + Len(all)
      BY <1>2, <2>4, <2>5, <3>1, SMT
    <3> QED
      BY <3>5, <3>6, Zenon
  <2>7. Spells(S, all, "members", o)
    <3> HIDE DEF all, o
    <3> QED
      BY <2>5, <2>6, Zenon DEF Spells
  <2> QED
    BY <2>7, Zenon DEF b
<1> QED
  BY <1>6, <1>7, Zenon

\* A piece of a text, what it is, and the value it stands for.
Piece(part, what, v) == [part |-> part, what |-> what, v |-> v]

\* The piece t is a JSON value over the signs S, or the rest of an object or array behind
\* its bracket, made of pieces in D: the grammar the release is written in.
Made(S, D, t) ==
  \/ \E c \in S : Get!Atom(c, 0).ok /\ t = Piece(<<c>>, "parse", Get!Atom(c, 0).v)
  \/ \E a, b, v :
       /\ <<a>> \in S /\ <<b>> \in S /\ IsEmpty(a, b, v)
       /\ t = Piece(<<<<a>>>> \o <<<<b>>>>, "parse", v)
  \/ \E a : \E q \in D :
       /\ <<a>> \in S /\ Opens(a, q.what)
       /\ t = Piece(<<<<a>>>> \o q.part, "parse", q.v)
  \/ \E p \in D :
       /\ p.what = "parse" /\ <<"]">> \in S
       /\ t = Piece(p.part \o <<<<"]">>>>, "elements", Get!ARR(<<p.v>>))
  \/ \E p, q \in D :
       /\ p.what = "parse" /\ q.what = "elements" /\ <<",">> \in S
       /\ t = Piece(p.part \o (<<<<",">>>> \o q.part), "elements", Get!ARR(<<p.v>> \o q.v.a))
  \/ \E c \in S : \E p \in D :
       /\ c[1] = "str" /\ <<":">> \in S /\ p.what = "parse" /\ <<"}">> \in S
       /\ t = Piece(Keyed(c, p.part \o <<<<"}">>>>), "members", Get!OBJ(Member(c, p.v)))
  \/ \E c \in S : \E p, q \in D :
       /\ c[1] = "str" /\ <<":">> \in S /\ p.what = "parse"
       /\ q.what = "members" /\ <<",">> \in S
       /\ t = Piece(Keyed(c, p.part \o (<<<<",">>>> \o q.part)), "members",
                    Get!OBJ(Get!Merged(Member(c, p.v), q.v.o)))

\* part is a JSON text that stands for v: the last of finitely many pieces, each made of
\* those before it.
Written(S, part, v) ==
  \E n \in Nat : \E d :
    /\ \A k \in 0 .. n : Made(S, {d[j] : j \in 0 .. k - 1}, d[k])
    /\ d[n] = Piece(part, "parse", v)

SpellsOut(S, t) == Spells(S, t.part, t.what, t.v)

\* The parts of a piece.
LEMMA PieceIs ==
  ASSUME NEW part, NEW what, NEW v, NEW t, t = Piece(part, what, v)
  PROVE  t.part = part /\ t.what = what /\ t.v = v
BY SMT DEF Piece

\* A piece is read as it is written when its text is.
LEMMA PieceSpells ==
  ASSUME NEW S, NEW part, NEW what, NEW v, NEW t, t = Piece(part, what, v),
         Spells(S, part, what, v)
  PROVE  SpellsOut(S, t)
<1>1. t.part = part /\ t.what = what /\ t.v = v
  BY PieceIs, SMT
<1> QED
  BY <1>1, Zenon DEF SpellsOut

\* A piece made of what is read as it is written is so too.
LEMMA MadeSpells ==
  ASSUME NEW S, NEW D, NEW t, \A u \in D : SpellsOut(S, u), Made(S, D, t)
  PROVE  SpellsOut(S, t)
<1>1. CASE \E c \in S : Get!Atom(c, 0).ok /\ t = Piece(<<c>>, "parse", Get!Atom(c, 0).v)
  BY <1>1, SpellsAtom, PieceSpells, Zenon
<1>2. CASE \E a, b, v : /\ <<a>> \in S /\ <<b>> \in S /\ IsEmpty(a, b, v)
                        /\ t = Piece(<<<<a>>>> \o <<<<b>>>>, "parse", v)
  BY <1>2, SpellsEmpty, PieceSpells, Zenon
<1>3. CASE \E a : \E q \in D : /\ <<a>> \in S /\ Opens(a, q.what)
                               /\ t = Piece(<<<<a>>>> \o q.part, "parse", q.v)
  <2>1. PICK a : \E q \in D : /\ <<a>> \in S /\ Opens(a, q.what)
                             /\ t = Piece(<<<<a>>>> \o q.part, "parse", q.v)
    BY <1>3, Zenon
  <2>2. PICK q \in D : /\ <<a>> \in S /\ Opens(a, q.what)
                      /\ t = Piece(<<<<a>>>> \o q.part, "parse", q.v)
    BY <2>1, Zenon
  <2>3. Spells(S, q.part, q.what, q.v)
    BY <2>2, Zenon DEF SpellsOut
  <2>4. Spells(S, <<<<a>>>> \o q.part, "parse", q.v)
    BY <2>2, <2>3, SpellsOpen, Zenon
  <2> QED
    BY <2>2, <2>4, PieceSpells, Zenon
<1>4. CASE \E p \in D :
             /\ p.what = "parse" /\ <<"]">> \in S
             /\ t = Piece(p.part \o <<<<"]">>>>, "elements", Get!ARR(<<p.v>>))
  <2>1. PICK p \in D : /\ p.what = "parse" /\ <<"]">> \in S
                       /\ t = Piece(p.part \o <<<<"]">>>>, "elements", Get!ARR(<<p.v>>))
    BY <1>4, Zenon
  <2>2. Spells(S, p.part, "parse", p.v)
    BY <2>1, Zenon DEF SpellsOut
  <2>3. Spells(S, p.part \o <<<<"]">>>>, "elements", Get!ARR(<<p.v>>))
    BY <2>1, <2>2, SpellsElements, Zenon
  <2> QED
    BY <2>1, <2>3, PieceSpells, Zenon
<1>5. CASE \E p, q \in D :
             /\ p.what = "parse" /\ q.what = "elements" /\ <<",">> \in S
             /\ t = Piece(p.part \o (<<<<",">>>> \o q.part), "elements",
                          Get!ARR(<<p.v>> \o q.v.a))
  <2>1. PICK p \in D, q \in D :
             /\ p.what = "parse" /\ q.what = "elements" /\ <<",">> \in S
             /\ t = Piece(p.part \o (<<<<",">>>> \o q.part), "elements",
                          Get!ARR(<<p.v>> \o q.v.a))
    BY <1>5, Zenon
  <2>2. Spells(S, p.part, "parse", p.v) /\ Spells(S, q.part, "elements", q.v)
    BY <2>1, Zenon DEF SpellsOut
  <2>3. Spells(S, p.part \o (<<<<",">>>> \o q.part), "elements", Get!ARR(<<p.v>> \o q.v.a))
    BY <2>1, <2>2, SpellsElements, Zenon
  <2> QED
    BY <2>1, <2>3, PieceSpells, Zenon
<1>6. CASE \E c \in S : \E p \in D :
             /\ c[1] = "str" /\ <<":">> \in S /\ p.what = "parse" /\ <<"}">> \in S
             /\ t = Piece(Keyed(c, p.part \o <<<<"}">>>>), "members", Get!OBJ(Member(c, p.v)))
  <2>1. PICK c \in S, p \in D :
             /\ c[1] = "str" /\ <<":">> \in S /\ p.what = "parse" /\ <<"}">> \in S
             /\ t = Piece(Keyed(c, p.part \o <<<<"}">>>>), "members", Get!OBJ(Member(c, p.v)))
    BY <1>6, Zenon
  <2>2. Spells(S, p.part, "parse", p.v)
    BY <2>1, Zenon DEF SpellsOut
  <2>3. Spells(S, Keyed(c, p.part \o <<<<"}">>>>), "members", Get!OBJ(Member(c, p.v)))
    BY <2>1, <2>2, SpellsMembers, Zenon
  <2> QED
    BY <2>1, <2>3, PieceSpells, Zenon
<1>7. CASE \E c \in S : \E p, q \in D :
             /\ c[1] = "str" /\ <<":">> \in S /\ p.what = "parse"
             /\ q.what = "members" /\ <<",">> \in S
             /\ t = Piece(Keyed(c, p.part \o (<<<<",">>>> \o q.part)), "members",
                          Get!OBJ(Get!Merged(Member(c, p.v), q.v.o)))
  <2>1. PICK c \in S, p \in D, q \in D :
             /\ c[1] = "str" /\ <<":">> \in S /\ p.what = "parse"
             /\ q.what = "members" /\ <<",">> \in S
             /\ t = Piece(Keyed(c, p.part \o (<<<<",">>>> \o q.part)), "members",
                          Get!OBJ(Get!Merged(Member(c, p.v), q.v.o)))
    BY <1>7, Zenon
  <2>2. Spells(S, p.part, "parse", p.v) /\ Spells(S, q.part, "members", q.v)
    BY <2>1, Zenon DEF SpellsOut
  <2>3. Spells(S, Keyed(c, p.part \o (<<<<",">>>> \o q.part)), "members",
               Get!OBJ(Get!Merged(Member(c, p.v), q.v.o)))
    BY <2>1, <2>2, SpellsMembers, Zenon
  <2> QED
    BY <2>1, <2>3, PieceSpells, Zenon
<1> QED
  BY <1>1, <1>2, <1>3, <1>4, <1>5, <1>6, <1>7, Zenon DEF Made

\* Every text that is written is read as what it stands for, wherever it is.
LEMMA WrittenSpells ==
  ASSUME NEW S, NEW part, NEW v, Written(S, part, v)
  PROVE  Spells(S, part, "parse", v)
<1>0. PICK n \in Nat : \E d :
        /\ \A k \in 0 .. n : Made(S, {d[j] : j \in 0 .. k - 1}, d[k])
        /\ d[n] = Piece(part, "parse", v)
  BY Zenon DEF Written
<1>1. PICK d :
        /\ \A k \in 0 .. n : Made(S, {d[j] : j \in 0 .. k - 1}, d[k])
        /\ d[n] = Piece(part, "parse", v)
  BY <1>0, Zenon
<1> DEFINE T == {m \in Nat : \A k \in 0 .. m - 1 : k <= n => SpellsOut(S, d[k])}
<1>2. 0 \in T
  BY SMT
<1>3. ASSUME NEW m \in Nat, m \in T PROVE m + 1 \in T
  <2>1. ASSUME m <= n PROVE SpellsOut(S, d[m])
    <3>1. \A j \in 0 .. m - 1 : SpellsOut(S, d[j])
      <4>1. \A j \in 0 .. m - 1 : j <= n
        BY <2>1, SMT
      <4> QED
        BY <1>3, <4>1, Zenon
    <3>2. m \in 0 .. n
      BY <2>1, SMT
    <3>3. Made(S, {d[j] : j \in 0 .. m - 1}, d[m])
      BY <1>1, <3>2, Zenon
    <3>4. \A u \in {d[j] : j \in 0 .. m - 1} : SpellsOut(S, u)
      BY <3>1, Zenon
    <3> QED
      BY <3>3, <3>4, MadeSpells, Zenon
  <2>2. \A k \in 0 .. (m + 1) - 1 : k = m \/ k \in 0 .. m - 1
    BY SMT
  <2>3. \A k \in 0 .. (m + 1) - 1 : k <= n => SpellsOut(S, d[k])
    BY <1>3, <2>1, <2>2, Zenon
  <2>4. m + 1 \in Nat
    BY SMT
  <2> QED
    BY <2>3, <2>4, Zenon
<1> HIDE DEF T
<1>4. n + 1 \in T
  <2>1. n + 1 \in Nat
    BY SMT
  <2> QED
    BY <1>2, <1>3, <2>1, AllNumbers, Zenon
<1>5. n \in 0 .. (n + 1) - 1 /\ n <= n
  BY SMT
<1>6. SpellsOut(S, d[n])
  BY <1>4, <1>5, Zenon DEF T
<1> QED
  <2> DEFINE t == d[n]
             what == "parse"
  <2>1. t = Piece(part, what, v)
    BY <1>1, Zenon
  <2> HIDE DEF t, what
  <2>2. t.part = part /\ t.what = what /\ t.v = v
    BY <2>1, PieceIs, SMT
  <2> QED
    BY <1>6, <2>2, Zenon DEF SpellsOut, t, what

\* Every JSON text, however deep its objects and arrays, is read as the value it was
\* written for, whatever follows it, and no proper beginning of it is read as a value.
THEOREM ValuesAreRead ==
  ASSUME NEW S, NEW part, NEW v, Written(S, part, v), NEW rest \in Seq(S)
  PROVE  /\ Get!parse(part \o rest) = Get!Read(v, Len(part) + 1)
         /\ \A n \in 0 .. Len(part) - 1 : ~Get!parse(SubSeq(part, 1, n)).ok
<1> DEFINE l == Len(part)
<1>1. /\ part \in Seq(S)
      /\ \A text \in Seq(S) : \A read, i :
           IsParse(read, text) /\ Stands(text, i, part) => Yields(read, i, "parse", v, i + l)
  BY WrittenSpells, Zenon DEF Spells
<1>2. l \in Nat
  BY <1>1, SMT
<1>3. ASSUME NEW x \in Seq(S) PROVE Get!parse(part \o x) = Get!Read(v, 1 + l)
  <2> DEFINE text == part \o x
  <2>1. /\ text \in Seq(S) /\ Len(text) = l + Len(x) /\ Len(x) \in Nat
        /\ \A k \in 1 .. l : text[k] = part[k]
    BY <1>1, SMT
  <2> HIDE DEF text
  <2>2. Stands(text, 1, part)
    <3>1. 1 \in Nat /\ 1 >= 1 /\ 1 + l <= Len(text) + 1
      BY <1>2, <2>1, SMT
    <3>2. \A k \in 1 .. l : (1 + k) - 1 = k
      BY <1>2, SMT
    <3>3. \A k \in 1 .. l : text[(1 + k) - 1] = part[k]
      BY <2>1, <3>2, Zenon
    <3> QED
      BY <3>1, <3>3, Zenon DEF Stands
  <2>3. PICK read : IsParse(read, text) /\ Get!parse(text) = read[1]["parse"]
    BY <2>1, ParseRuns, Zenon
  <2>4. Yields(read, 1, "parse", v, 1 + l)
    BY <1>1, <2>1, <2>2, <2>3, Zenon
  <2> QED
    BY <2>3, <2>4, Zenon DEF Yields, text
<1>4. 1 + l = l + 1
  BY <1>2, SMT
<1>5. ASSUME NEW n \in 0 .. l - 1 PROVE ~Get!parse(SubSeq(part, 1, n)).ok
  <2> SUFFICES ASSUME Get!parse(SubSeq(part, 1, n)).ok PROVE FALSE
    OBVIOUS
  <2>1. n \in 0 .. l
    BY <1>2, SMT
  <2>2. Get!parse(part).next \in 2 .. n + 1
    BY <1>1, <2>1, NothingAddsToAValue, Zenon
  <2>3. part \o <<>> = part /\ <<>> \in Seq(S)
    BY <1>1, SMT
  <2>4. Get!parse(part) = Get!Read(v, 1 + l)
    BY <1>3, <2>3, Zenon
  <2>5. Get!parse(part).next = 1 + l
    BY <2>4, ReadIs, Zenon
  <2> HIDE DEF l
  <2> QED
    BY <1>2, <2>2, <2>5, SMT
<1> QED
  BY <1>3, <1>4, <1>5, Zenon

(* --------------------------- what is installed ------------------------- *)

\* An asset that has a name for this platform and an address.
Installable(a) ==
  /\ Get!Has(a, "name") /\ Get!Has(a, "browser_download_url")
  /\ Get!TextOf(a.o["name"]) \in Get!Fits

AddressOf(a) == Get!TextOf(a.o["browser_download_url"])

\* The assets of a release: none when it has no list of them.
AssetsOf(release) ==
  IF Get!Has(release, "assets") /\ release.o["assets"].t = "ARR"
  THEN release.o["assets"].a ELSE <<>>

\* What selectAsset looks for, in a word.
LEMMA SelectIs ==
  ASSUME NEW release
  PROVE  LET list == AssetsOf(release)
             fit == {n \in 1 .. Len(list) : Installable(list[n])}
         IN Get!selectAsset(release) =
              LET n == IF fit # {} THEN CHOOSE n \in fit : \A m \in fit : n <= m ELSE 0
              IN IF n = 0 THEN "" ELSE AddressOf(list[n])
BY SMT DEF Get!selectAsset, Get!SelectInSeq, Get!Min, AssetsOf, Installable, AddressOf

\* The asset to install is the first of the release's list that has a name for this
\* platform and an address, however long the list is; without one there is no address,
\* and nothing is installed.
THEOREM FirstAssetIsChosen ==
  ASSUME NEW release, Len(AssetsOf(release)) \in Nat
  PROVE  LET list == AssetsOf(release)
         IN \/ /\ \A n \in 1 .. Len(list) : ~Installable(list[n])
               /\ Get!selectAsset(release) = ""
            \/ \E n \in 1 .. Len(list) :
                 /\ Installable(list[n]) /\ Get!selectAsset(release) = AddressOf(list[n])
                 /\ \A m \in 1 .. n - 1 : ~Installable(list[m])
<1> DEFINE list == AssetsOf(release)
           fit == {n \in 1 .. Len(list) : Installable(list[n])}
           first == CHOOSE n \in fit : \A m \in fit : n <= m
<1>1. CASE fit = {}
  <2>1. Get!selectAsset(release) = ""
    BY <1>1, SelectIs, Zenon
  <2> QED
    BY <1>1, <2>1
<1>2. CASE fit # {}
  <2>1. fit \in SUBSET Nat
    BY SMT
  <2>2. first \in fit /\ \A m \in fit : first <= m
    <3>1. \E n \in fit : \A m \in fit : n <= m
      <4> HIDE DEF fit
      <4> QED
        BY <1>2, <2>1, LeastNumber
    <3> QED
      BY <3>1, Zenon
  <2>3. first \in 1 .. Len(list) /\ Installable(list[first]) /\ first # 0
    BY <2>2, SMT
  <2>4. Get!selectAsset(release) = AddressOf(list[first])
    <3>1. Get!selectAsset(release) =
            LET n == IF fit # {} THEN first ELSE 0 IN IF n = 0 THEN "" ELSE AddressOf(list[n])
      BY SelectIs, Zenon
    <3> HIDE DEF fit, first, list
    <3> QED
      BY <1>2, <2>3, <3>1, Zenon
  <2>5. \A m \in 1 .. first - 1 : ~Installable(list[m])
    <3> SUFFICES ASSUME NEW m \in 1 .. first - 1, Installable(list[m]) PROVE FALSE
      OBVIOUS
    <3>1. m \in 1 .. Len(list) /\ ~(first <= m)
      <4> HIDE DEF first, list
      <4> QED
        BY <2>3, SMT
    <3> QED
      BY <2>2, <3>1, Zenon
  <2> HIDE DEF first, fit
  <2> QED
    BY <2>3, <2>4, <2>5, Zenon
<1> HIDE DEF fit, first
<1> QED
  BY <1>1, <1>2, Zenon

=============================================================================
