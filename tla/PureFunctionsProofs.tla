------------------------ MODULE PureFunctionsProofs ------------------------
(***************************************************************************)
(* What the pure functions compute, for every input.  A recursive function *)
(* is dealt with in two steps: first that it satisfies its equation, then  *)
(* what follows from the equation, either by looking at the least number   *)
(* that would be an exception.                                             *)
(***************************************************************************)
EXTENDS PureFunctions, FiniteSetTheorems, SequenceTheorems, WellFoundedInduction, TLAPS

\* A set of numbers that is not empty has a least one.
LEMMA LeastNumber ==
  ASSUME NEW T \in SUBSET Nat, T # {}
  PROVE  \E m \in T : \A n \in T : m <= n
<1> DEFINE R == OpToRel(<, Nat)
<1>1. IsWellFoundedOn(R, Nat)
  BY NatLessThanWellFounded
<1>2. \E m \in T : \A n \in T : <<n, m>> \notin R
  <2> HIDE DEF R
  <2> QED
    BY <1>1, WFMin
<1>3. PICK m \in T : \A n \in T : <<n, m>> \notin R
  BY <1>2
<1>4. ASSUME NEW n \in T PROVE m <= n
  <2>1. <<n, m>> \notin R
    BY <1>3
  <2>2. ~(n < m)
    BY <2>1 DEF OpToRel
  <2> QED
    BY <2>2
<1> QED
  BY <1>4

\* What holds of 0, and of n + 1 when it holds of n, holds of all numbers: T is the set
\* of those it holds of.
LEMMA AllNumbers ==
  ASSUME NEW T, 0 \in T, \A n \in Nat : n \in T => n + 1 \in T
  PROVE  \A n \in Nat : n \in T
<1> SUFFICES ASSUME NEW n \in Nat, n \notin T PROVE FALSE
  OBVIOUS
<1>1. PICK m \in Nat \ T : \A k \in Nat \ T : m <= k
  BY LeastNumber
<1>2. m - 1 \in Nat /\ m - 1 \notin T
  BY <1>1
<1> QED
  BY <1>1, <1>2

(* ------------------------------- sessionIds ---------------------------- *)

\* How far a step within a circle of M places leads when it is counted forwards.
LEMMA Around ==
  ASSUME NEW M \in Nat \ {0}, NEW x \in Int, -M < x, x < M
  PROVE  x % M = IF x >= 0 THEN x ELSE x + M
  OBVIOUS

\* How many ids id is ahead of nextId.
LEMMA AheadIs ==
  ASSUME NEW nextId \in 1 .. MaxId, NEW id \in 1 .. MaxId
  PROVE  (id - nextId) % MaxId = IF id >= nextId THEN id - nextId ELSE id - nextId + MaxId
<1> DEFINE x == id - nextId
<1>1. MaxId \in Nat \ {0} /\ x \in Int /\ -MaxId < x /\ x < MaxId
  BY ValuesAssumption
<1>2. x % MaxId = IF x >= 0 THEN x ELSE x + MaxId
  <2> HIDE DEF x
  <2> QED
    BY <1>1, Around
<1> QED
  BY <1>1, <1>2

\* The id after the one that is k ids ahead of nextId.
LEMMA OneFurther ==
  ASSUME NEW nextId \in 1 .. MaxId, NEW id \in 1 .. MaxId
  PROVE  /\ After(id) \in 1 .. MaxId
         /\ (id - nextId) % MaxId \in 0 .. MaxId - 1
         /\ (After(id) - nextId) % MaxId =
              IF (id - nextId) % MaxId = MaxId - 1 THEN 0 ELSE ((id - nextId) % MaxId) + 1
<1>1. MaxId \in Nat \ {0}
  BY ValuesAssumption
<1>2. After(id) \in 1 .. MaxId
  BY <1>1 DEF After
<1>3. (id - nextId) % MaxId = IF id >= nextId THEN id - nextId ELSE id - nextId + MaxId
  BY AheadIs
<1>4. (After(id) - nextId) % MaxId =
        IF After(id) >= nextId THEN After(id) - nextId ELSE After(id) - nextId + MaxId
  BY <1>2, AheadIs
<1> QED
  BY <1>1, <1>2, <1>3, <1>4 DEF After

\* No two ids are the same number of ids ahead.
LEMMA SameAhead ==
  ASSUME NEW nextId \in 1 .. MaxId, NEW a \in 1 .. MaxId, NEW b \in 1 .. MaxId,
         (a - nextId) % MaxId = (b - nextId) % MaxId
  PROVE  a = b
<1>1. MaxId \in Nat \ {0}
  BY ValuesAssumption
<1>2. (a - nextId) % MaxId = IF a >= nextId THEN a - nextId ELSE a - nextId + MaxId
  BY AheadIs
<1>3. (b - nextId) % MaxId = IF b >= nextId THEN b - nextId ELSE b - nextId + MaxId
  BY AheadIs
<1> QED
  BY <1>1, <1>2, <1>3

\* What one step of the search finds, given the steps before it.
Looks(search, nextId, used, k) ==
  LET id == IF k = 0 THEN nextId ELSE search[k - 1].nextId
  IN IF k > 0 /\ search[k - 1].id # 0 THEN search[k - 1]
     ELSE IF k = Looked THEN [id |-> 0, nextId |-> id]
     ELSE IF id \in used THEN [id |-> 0, nextId |-> After(id)]
     ELSE [id |-> id, nextId |-> After(id)]

IsSearch(search, nextId, used) ==
  search = [k \in 0 .. Looked |-> Looks(search, nextId, used, k)]

\* The search exists.
LEMMA SearchExists ==
  ASSUME NEW nextId, NEW used
  PROVE  \E search : IsSearch(search, nextId, used)
<1> DEFINE L(f, k) == Looks(f, nextId, used, k)
           Good(n) == \E f : f = [k \in 0 .. n |-> L(f, k)]
           T == {n \in Nat : Good(n)}
<1>1. Good(0)
  <2> DEFINE f == [k \in 0 .. 0 |-> L(<<>>, k)]
  <2>1. \A k \in 0 .. 0 : L(f, k) = L(<<>>, k)
    BY DEF Looks
  <2> HIDE DEF L
  <2>2. f = [k \in 0 .. 0 |-> L(f, k)]
    BY <2>1
  <2> QED
    BY <2>2
<1>2. ASSUME NEW n \in Nat, Good(n) PROVE Good(n + 1)
  <2>1. PICK f : f = [k \in 0 .. n |-> L(f, k)]
    BY <1>2
  <2> DEFINE g == [k \in 0 .. n + 1 |-> L(f, k)]
  <2>2. \A k \in 0 .. n : g[k] = f[k]
    <3> HIDE DEF L
    <3> QED
      BY <2>1
  <2>3. \A k \in 0 .. n + 1 : L(g, k) = L(f, k)
    <3> HIDE DEF g
    <3> QED
      BY <2>2 DEF Looks
  <2>4. g = [k \in 0 .. n + 1 |-> L(g, k)]
    <3> HIDE DEF L
    <3> QED
      BY <2>3
  <2> QED
    BY <2>4
<1>3. \A n \in Nat : n \in T
  <2>1. 0 \in T /\ \A n \in Nat : n \in T => n + 1 \in T
    BY <1>1, <1>2
  <2> HIDE DEF T
  <2> QED
    BY <2>1, AllNumbers
<1>4. Looked \in Nat
  BY ValuesAssumption
<1> QED
  BY <1>3, <1>4 DEF IsSearch

\* allocId gives out what the last of its steps found.
LEMMA AllocIdIs ==
  ASSUME NEW nextId, NEW used
  PROVE  \E search : IsSearch(search, nextId, used) /\ allocId(nextId, used) = search[Looked]
<1> DEFINE search == CHOOSE s : IsSearch(s, nextId, used)
<1>1. IsSearch(search, nextId, used)
  BY SearchExists
<1>2. allocId(nextId, used) = search[Looked]
  BY DEF allocId, Looks, IsSearch
<1> HIDE DEF search
<1> QED
  BY <1>1, <1>2

Ahead(id, nextId) == (id - nextId) % MaxId

\* What is known when the ids up to k ahead of nextId have been looked at.
Known(s, nextId, used, k) ==
  /\ s.nextId \in 1 .. MaxId
  /\ s.id = 0 =>
       /\ \A id \in 1 .. MaxId : Ahead(id, nextId) <= k => id \in used
       /\ Ahead(s.nextId, nextId) = k + 1 \/ 1 .. MaxId \subseteq used
  /\ s.id # 0 =>
       /\ s.id \in (1 .. MaxId) \ used /\ Ahead(s.id, nextId) <= k
       /\ \A id \in 1 .. MaxId : Ahead(id, nextId) < Ahead(s.id, nextId) => id \in used
       /\ s.nextId = After(s.id)

\* Looking at the id that is k ahead, all those before it being in use.
LEMMA OneLook ==
  ASSUME NEW nextId \in 1 .. MaxId, NEW used, NEW k \in Nat, NEW id \in 1 .. MaxId,
         Ahead(id, nextId) = k,
         \A other \in 1 .. MaxId : Ahead(other, nextId) < k => other \in used,
         NEW s, s = IF id \in used THEN [id |-> 0, nextId |-> After(id)]
                                   ELSE [id |-> id, nextId |-> After(id)]
  PROVE  Known(s, nextId, used, k)
<1>1. MaxId \in Nat \ {0} /\ s.nextId = After(id) /\ After(id) \in 1 .. MaxId
  BY ValuesAssumption, OneFurther
<1>2. \A other \in 1 .. MaxId : Ahead(other, nextId) \in 0 .. MaxId - 1
  BY OneFurther DEF Ahead
<1>3. CASE id \in used
  <2>1. s.id = 0
    BY <1>3
  <2>2. \A other \in 1 .. MaxId : Ahead(other, nextId) <= k => other \in used
    <3> SUFFICES ASSUME NEW other \in 1 .. MaxId, Ahead(other, nextId) <= k, other \notin used
                 PROVE  FALSE
      OBVIOUS
    <3>1. Ahead(other, nextId) = k
      BY <1>2
    <3>2. other = id
      BY <3>1, SameAhead DEF Ahead
    <3> QED
      BY <1>3, <3>2
  <2>3. Ahead(After(id), nextId) = IF k = MaxId - 1 THEN 0 ELSE k + 1
    BY OneFurther DEF Ahead
  <2>4. k = MaxId - 1 => 1 .. MaxId \subseteq used
    BY <1>1, <1>2, <2>2
  <2> QED
    BY <1>1, <2>1, <2>2, <2>3, <2>4 DEF Known
<1>4. CASE id \notin used
  <2>1. s.id = id /\ id # 0
    BY <1>1, <1>4
  <2> QED
    BY <1>1, <1>4, <2>1 DEF Known
<1> QED
  BY <1>3, <1>4

\* What the search has found after each of its steps but the last.
LEMMA SearchKnows ==
  ASSUME NEW nextId \in 1 .. MaxId, NEW used, NEW search, IsSearch(search, nextId, used)
  PROVE  \A k \in Nat : k < Looked => Known(search[k], nextId, used, k)
<1> DEFINE T == {k \in Nat : k < Looked => Known(search[k], nextId, used, k)}
<1>0. Looked \in Nat /\ MaxId \in Nat \ {0}
  BY ValuesAssumption
<1>1. \A k \in 0 .. Looked : search[k] = Looks(search, nextId, used, k)
  BY DEF IsSearch
<1>2. 0 \in T
  <2> SUFFICES ASSUME 0 < Looked PROVE Known(search[0], nextId, used, 0)
    OBVIOUS
  <2>1. search[0] = IF nextId \in used THEN [id |-> 0, nextId |-> After(nextId)]
                                       ELSE [id |-> nextId, nextId |-> After(nextId)]
    <3>1. search[0] = Looks(search, nextId, used, 0)
      BY <1>0, <1>1
    <3> QED
      BY <1>0, <3>1 DEF Looks
  <2>2. Ahead(nextId, nextId) = 0
    BY <1>0, AheadIs DEF Ahead
  <2> QED
    <3>1. \A other \in 1 .. MaxId : Ahead(other, nextId) < 0 => other \in used
      BY <1>0, OneFurther DEF Ahead
    <3> QED
      BY <2>1, <2>2, <3>1, OneLook
<1>3. ASSUME NEW k \in Nat, k \in T PROVE k + 1 \in T
  <2> SUFFICES ASSUME k + 1 < Looked PROVE Known(search[k + 1], nextId, used, k + 1)
    OBVIOUS
  <2> DEFINE s == search[k]
  <2>1. Known(s, nextId, used, k)
    BY <1>0, <1>3
  <2>2. search[k + 1] = IF s.id # 0 THEN s
                        ELSE IF s.nextId \in used THEN [id |-> 0, nextId |-> After(s.nextId)]
                        ELSE [id |-> s.nextId, nextId |-> After(s.nextId)]
    <3>1. search[k + 1] = Looks(search, nextId, used, k + 1)
      BY <1>0, <1>1
    <3>2. k + 1 > 0 /\ (k + 1) - 1 = k /\ k + 1 # Looked
      BY <1>0
    <3> QED
      BY <3>1, <3>2 DEF Looks
  <2>3. \A other \in 1 .. MaxId : Ahead(other, nextId) \in 0 .. MaxId - 1
    BY OneFurther DEF Ahead
  <2> HIDE DEF s
  <2>4. CASE s.id # 0
    <3>1. search[k + 1] = s
      BY <2>2, <2>4
    <3>2. \A other \in 1 .. MaxId : Ahead(other, nextId) <= k => Ahead(other, nextId) <= k + 1
      BY <1>0, <2>3
    <3> QED
      BY <2>1, <2>4, <3>1, <3>2 DEF Known
  <2>5. CASE s.id = 0 /\ 1 .. MaxId \subseteq used
    <3>1. /\ s.nextId \in used
          /\ search[k + 1] = [id |-> 0, nextId |-> After(s.nextId)]
      BY <2>1, <2>2, <2>5 DEF Known
    <3>2. After(s.nextId) \in 1 .. MaxId
      BY <1>0, <2>1, OneFurther DEF Known
    <3> QED
      BY <2>5, <3>1, <3>2 DEF Known
  <2>6. CASE s.id = 0 /\ Ahead(s.nextId, nextId) = k + 1
    <3>1. /\ s.nextId \in 1 .. MaxId
          /\ \A other \in 1 .. MaxId : Ahead(other, nextId) < k + 1 => other \in used
      BY <2>1, <2>3, <2>6 DEF Known
    <3>2. search[k + 1] = IF s.nextId \in used THEN [id |-> 0, nextId |-> After(s.nextId)]
                          ELSE [id |-> s.nextId, nextId |-> After(s.nextId)]
      BY <2>2, <2>6
    <3> QED
      BY <2>6, <3>1, <3>2, OneLook
  <2> QED
    BY <2>1, <2>4, <2>5, <2>6 DEF Known
<1> HIDE DEF T
<1>4. \A k \in Nat : k \in T
  BY <1>2, <1>3, AllNumbers
<1> QED
  BY <1>4 DEF T

\* Whatever ids are in use, what allocId gives out is what IdIsNextFree says of it.
LEMMA AllocIdFinds ==
  ASSUME NEW nextId \in 1 .. MaxId, NEW used \in SUBSET (1 .. MaxId)
  PROVE  LET found == allocId(nextId, used)
             near == {id \in (1 .. MaxId) \ used : Ahead(id, nextId) < Looked}
         IN /\ found.nextId \in 1 .. MaxId
            /\ near = {} => found.id = 0
            /\ near # {} => /\ found.id \in near
                            /\ \A id \in near : Ahead(found.id, nextId) <= Ahead(id, nextId)
            /\ found.id # 0 => found.nextId = After(found.id)
<1> DEFINE found == allocId(nextId, used)
           near == {id \in (1 .. MaxId) \ used : Ahead(id, nextId) < Looked}
<1>0. MaxId \in Nat \ {0} /\ Looked \in Nat
  BY ValuesAssumption
<1>1. PICK search : IsSearch(search, nextId, used) /\ found = search[Looked]
  BY AllocIdIs
<1>2. found = Looks(search, nextId, used, Looked)
  BY <1>0, <1>1 DEF IsSearch
<1>3. \A id \in 1 .. MaxId : Ahead(id, nextId) \in 0 .. MaxId - 1
  BY OneFurther DEF Ahead
<1>4. CASE Looked = 0
  <2>1. found = [id |-> 0, nextId |-> nextId]
    BY <1>2, <1>4 DEF Looks
  <2>2. near = {}
    BY <1>0, <1>3, <1>4
  <2> QED
    BY <2>1, <2>2
<1>5. CASE Looked > 0
  <2> DEFINE s == search[Looked - 1]
  <2>1. Known(s, nextId, used, Looked - 1)
    BY <1>0, <1>1, <1>5, SearchKnows
  <2>2. found = IF s.id # 0 THEN s ELSE [id |-> 0, nextId |-> s.nextId]
    BY <1>0, <1>2, <1>5 DEF Looks
  <2> HIDE DEF s, found
  <2>3. CASE s.id = 0
    <3>1. near = {}
      BY <1>0, <1>3, <2>1, <2>3 DEF Known
    <3>2. found.id = 0 /\ found.nextId = s.nextId
      BY <2>2, <2>3
    <3> QED
      BY <2>1, <3>1, <3>2 DEF Known, found
  <2>4. CASE s.id # 0
    <3>1. found = s
      BY <2>2, <2>4
    <3>2. s.id \in near
      BY <1>0, <1>3, <2>1, <2>4 DEF Known
    <3>3. ASSUME NEW id \in near PROVE Ahead(s.id, nextId) <= Ahead(id, nextId)
      BY <1>0, <1>3, <2>1, <2>4 DEF Known
    <3>4. s.nextId \in 1 .. MaxId /\ s.nextId = After(s.id)
      BY <2>1, <2>4 DEF Known
    <3> QED
      BY <3>1, <3>2, <3>3, <3>4 DEF found
  <2> QED
    BY <2>3, <2>4
<1> QED
  BY <1>0, <1>4, <1>5

\* Among as many ids as are looked at one is free when fewer are in use.
LEMMA OneIsFree ==
  ASSUME NEW nextId \in 1 .. MaxId, NEW used \in SUBSET (1 .. MaxId),
         Cardinality(used) < Looked, Looked <= MaxId
  PROVE  \E id \in (1 .. MaxId) \ used : Ahead(id, nextId) < Looked
<1>0. MaxId \in Nat \ {0} /\ Looked \in Nat
  BY ValuesAssumption
<1> SUFFICES ASSUME \A id \in 1 .. MaxId : Ahead(id, nextId) < Looked => id \in used
             PROVE  FALSE
  OBVIOUS
<1> DEFINE f == [j \in 1 .. Looked |->
                   IF nextId + j - 1 <= MaxId THEN nextId + j - 1 ELSE nextId + j - 1 - MaxId]
<1>1. ASSUME NEW j \in 1 .. Looked PROVE f[j] \in 1 .. MaxId /\ Ahead(f[j], nextId) = j - 1
  <2>1. f[j] \in 1 .. MaxId
    BY <1>0
  <2>2. Ahead(f[j], nextId) = IF f[j] >= nextId THEN f[j] - nextId ELSE f[j] - nextId + MaxId
    <3> HIDE DEF f
    <3> QED
      BY <2>1, AheadIs DEF Ahead
  <2>3. j - 1 = IF f[j] >= nextId THEN f[j] - nextId ELSE f[j] - nextId + MaxId
    BY <1>0
  <2> QED
    BY <2>1, <2>2, <2>3
<1>2. f \in [1 .. Looked -> used]
  <2>1. ASSUME NEW j \in 1 .. Looked PROVE f[j] \in used
    <3>1. j - 1 < Looked
      BY <1>0
    <3> HIDE DEF f
    <3> QED
      BY <1>1, <3>1
  <2> QED
    BY <2>1
<1>3. IsFiniteSet(1 .. Looked) /\ Cardinality(1 .. Looked) = Looked
  BY <1>0, FS_Interval
<1>4. IsFiniteSet(used)
  <2>1. IsFiniteSet(1 .. MaxId)
    BY <1>0, FS_Interval
  <2> QED
    BY <2>1, FS_Subset
<1> HIDE DEF f
<1>5. PICK i \in 1 .. Looked, j \in 1 .. Looked : i # j /\ f[i] = f[j]
  BY <1>2, <1>3, <1>4, FS_PigeonHole
<1> QED
  BY <1>0, <1>1, <1>5

\* The ids that are the last ones to be looked at again.
LEMMA LastAgain ==
  ASSUME NEW id \in 1 .. MaxId, NEW other \in 1 .. MaxId
  PROVE  (other - After(id)) % MaxId <= (id - After(id)) % MaxId
<1>0. MaxId \in Nat \ {0}
  BY ValuesAssumption
<1> DEFINE next == After(id)
<1>1. next \in 1 .. MaxId /\ next = IF id >= MaxId THEN 1 ELSE id + 1
  BY OneFurther DEF After
<1> HIDE DEF next
<1>2. (other - next) % MaxId = IF other >= next THEN other - next ELSE other - next + MaxId
  BY <1>1, AheadIs
<1>3. (id - next) % MaxId = IF id >= next THEN id - next ELSE id - next + MaxId
  BY <1>1, AheadIs
<1>4. (other - next) % MaxId <= (id - next) % MaxId
  BY <1>0, <1>1, <1>2, <1>3
<1> QED
  BY <1>4 DEF next

\* A question of some kind is asked by the action for that kind.
LEMMA WhoAsks ==
  ASSUME [Next]_q, q' # q
  PROVE  /\ q'.kind = "id" => AskId
         /\ q'.kind = "v4" => AskV4
         /\ q'.kind = "v6" => AskV6
         /\ q'.kind \in {"spelling", "spoilt"} => AskSpelling
         /\ q'.kind = "guard" => AskGuard
         /\ q'.kind = "frame" => AskFrame
         /\ q'.kind = "string" => AskString
         /\ q'.kind = "object" => AskObject
         /\ q'.kind = "head" => AskHead
         /\ q'.kind = "payload" => AskPayload
         /\ q'.kind = "message" => AskMessage
         /\ q'.kind = "delay" => AskDelay
         /\ q'.kind = "authority" => AskAuthority
         /\ q'.kind = "read" => AskRead
         /\ q'.kind = "body" => AskBody
         /\ q'.kind = "json" => AskJson
         /\ q'.kind = "asset" => AskAsset
         /\ q'.kind = "get" => AskGet
<1>1. \/ (AskV4 /\ q'.kind = "v4")
      \/ (AskV6 /\ q'.kind = "v6")
      \/ (AskSpelling /\ q'.kind \in {"spelling", "spoilt"})
      \/ (AskGuard /\ q'.kind = "guard")
      \/ (AskFrame /\ q'.kind = "frame")
      \/ (AskString /\ q'.kind = "string")
      \/ (AskObject /\ q'.kind = "object")
      \/ (AskHead /\ q'.kind = "head")
      \/ (AskPayload /\ q'.kind = "payload")
      \/ (AskMessage /\ q'.kind = "message")
      \/ (AskId /\ q'.kind = "id")
      \/ (AskDelay /\ q'.kind = "delay")
      \/ (AskAuthority /\ q'.kind = "authority")
      \/ (AskRead /\ q'.kind = "read")
      \/ (AskBody /\ q'.kind = "body")
      \/ (AskJson /\ q'.kind = "json")
      \/ (AskAsset /\ q'.kind = "asset")
      \/ (AskGet /\ q'.kind = "get")
  <2>1. AskV4 => q'.kind = "v4"
    BY DEF AskV4, Ask
  <2>2. AskV6 => q'.kind = "v6"
    BY DEF AskV6, Ask
  <2>3. AskSpelling => q'.kind \in {"spelling", "spoilt"}
    BY DEF AskSpelling, Ask
  <2>4. AskGuard => q'.kind = "guard"
    BY DEF AskGuard, Ask
  <2>5. AskFrame => q'.kind = "frame"
    BY DEF AskFrame, Ask
  <2>6. AskString => q'.kind = "string"
    BY DEF AskString, Ask
  <2>7. AskObject => q'.kind = "object"
    BY DEF AskObject, Ask
  <2>8. AskHead => q'.kind = "head"
    BY DEF AskHead, Ask
  <2>9. AskPayload => q'.kind = "payload"
    BY DEF AskPayload, Ask
  <2>10. AskMessage => q'.kind = "message"
    BY DEF AskMessage, Ask
  <2>11. AskId => q'.kind = "id"
    BY DEF AskId, Ask
  <2>12. AskDelay => q'.kind = "delay"
    BY DEF AskDelay, Ask
  <2>13. AskAuthority => q'.kind = "authority"
    BY DEF AskAuthority, Ask
  <2>14. AskRead => q'.kind = "read"
    BY DEF AskRead, Ask
  <2>15. AskBody => q'.kind = "body"
    BY DEF AskBody, Ask
  <2>16. AskJson => q'.kind = "json"
    BY DEF AskJson, Ask
  <2>17. AskAsset => q'.kind = "asset"
    BY DEF AskAsset, Ask
  <2>18. AskGet => q'.kind = "get"
    BY DEF AskGet, Ask
  <2>19. Next
    OBVIOUS
  <2> QED
    BY <2>1, <2>2, <2>3, <2>4, <2>5, <2>6, <2>7, <2>8, <2>9, <2>10, <2>11, <2>12, <2>13,
       <2>14, <2>15, <2>16, <2>17, <2>18, <2>19 DEF Next
<1> QED
  BY <1>1

\* An id is never 0 nor in use and the longest unused one, for any number of ids and any
\* number of those one allocId looks at; one is found when fewer are in use than that.
THEOREM IdsAreNextFree == Spec => []IdIsNextFree
<1>1. Init => IdIsNextFree
  BY DEF Init, IdIsNextFree
<1>2. IdIsNextFree /\ [Next]_q => IdIsNextFree'
  <2> SUFFICES ASSUME IdIsNextFree, [Next]_q, q'.kind = "id", q' # q PROVE IdIsNextFree'
    BY DEF IdIsNextFree
  <2>1. PICK nextId \in 1 .. MaxId, used \in SUBSET (1 .. MaxId) :
          q' = [kind |-> "id", nextId |-> nextId, used |-> used]
    BY WhoAsks DEF AskId, Ask
  <2> DEFINE found == allocId(nextId, used)
             near == {id \in (1 .. MaxId) \ used : (id - nextId) % MaxId < Looked}
  <2>2. /\ found.nextId \in 1 .. MaxId
        /\ near = {} => found.id = 0
        /\ near # {} => /\ found.id \in near
                        /\ \A id \in near :
                             (found.id - nextId) % MaxId <= (id - nextId) % MaxId
        /\ found.id # 0 => found.nextId = After(found.id)
    BY AllocIdFinds DEF Ahead
  <2>3. Cardinality(used) < Looked /\ Looked <= MaxId => near # {}
    BY OneIsFree DEF Ahead
  <2>4. near # {} => found.id # 0
    BY <2>2, ValuesAssumption
  <2>5. found.id # 0 => \A id \in 1 .. MaxId :
          (id - found.nextId) % MaxId <= (found.id - found.nextId) % MaxId
    <3> HIDE DEF found
    <3>1. found.id # 0 => found.id \in 1 .. MaxId
      BY <2>2
    <3> QED
      BY <2>2, <3>1, LastAgain
  <2>6. q'.nextId = nextId /\ q'.used = used
    BY <2>1
  <2> HIDE DEF found
  <2> QED
    BY <2>2, <2>3, <2>4, <2>5, <2>6 DEF IdIsNextFree, found
<1> QED
  BY <1>1, <1>2, PTL DEF Spec

(* -------------------------------- backoff ------------------------------ *)

\* An int that fits is not changed.
LEMMA FittingInt ==
  ASSUME NEW x \in Nat, x <= MaxInt
  PROVE  AsInt(x) = x
<1> DEFINE half == 2 ^ (IntBits - 1)
<1>1. half \in Int
  BY ValuesAssumption
<1>2. x < half
  BY <1>1 DEF MaxInt
<1> QED
  <2> SUFFICES ASSUME NEW h \in Nat \ {0}, x < h PROVE ((x + h) % (2 * h)) - h = x
    BY <1>1, <1>2 DEF AsInt
  <2>1. x + h \in 0 .. (2 * h) - 1
    OBVIOUS
  <2> QED
    BY <2>1

\* The powers of two up to 2 ^ 10.
LEMMA Powers ==
  ASSUME NEW k \in Int
  PROVE  /\ k = 0 => 2 ^ k = 1
         /\ k = 1 => 2 ^ k = 2
         /\ k = 2 => 2 ^ k = 4
         /\ k = 3 => 2 ^ k = 8
         /\ k = 4 => 2 ^ k = 16
         /\ k = 5 => 2 ^ k = 32
         /\ k = 6 => 2 ^ k = 64
         /\ k = 7 => 2 ^ k = 128
         /\ k = 8 => 2 ^ k = 256
         /\ k = 9 => 2 ^ k = 512
         /\ k = 10 => 2 ^ k = 1024
<1>1. ASSUME k = 0 PROVE 2 ^ k = 1
  BY <1>1
<1>2. ASSUME k = 1 PROVE 2 ^ k = 2
  BY <1>2
<1>3. ASSUME k = 2 PROVE 2 ^ k = 4
  BY <1>3
<1>4. ASSUME k = 3 PROVE 2 ^ k = 8
  BY <1>4
<1>5. ASSUME k = 4 PROVE 2 ^ k = 16
  BY <1>5
<1>6. ASSUME k = 5 PROVE 2 ^ k = 32
  BY <1>6
<1>7. ASSUME k = 6 PROVE 2 ^ k = 64
  BY <1>7
<1>8. ASSUME k = 7 PROVE 2 ^ k = 128
  BY <1>8
<1>9. ASSUME k = 8 PROVE 2 ^ k = 256
  BY <1>9
<1>10. ASSUME k = 9 PROVE 2 ^ k = 512
  BY <1>10
<1>11. ASSUME k = 10 PROVE 2 ^ k = 1024
  BY <1>11
<1> QED
  BY <1>1, <1>2, <1>3, <1>4, <1>5, <1>6, <1>7, <1>8, <1>9, <1>10, <1>11, Zenon

Factor(attempts) == 2 ^ Least(attempts, 10)

\* The factor of the backoff doubles ten times.
LEMMA Doubles ==
  ASSUME NEW attempts \in Nat
  PROVE  /\ Factor(attempts) \in 1 .. 1024 /\ Factor(attempts + 1) \in 1 .. 1024
         /\ Factor(attempts) <= Factor(attempts + 1)
<1> DEFINE k == Least(attempts, 10)
           m == Least(attempts + 1, 10)
<1>1. \/ k \in 0 .. 9 /\ m = k + 1
      \/ k = 10 /\ m = 10
  BY DEF Least
<1> HIDE DEF k, m
<1>2. k \in 0 .. 10 /\ m \in 0 .. 10
  BY <1>1
<1>3. 2 ^ k \in 1 .. 1024 /\ 2 ^ m \in 1 .. 1024 /\ 2 ^ k <= 2 ^ m
  BY <1>1, <1>2, Powers
<1> QED
  BY <1>3 DEF k, m, Factor

\* For any configured delay whose thousandfold fits an int, any maximum and any number of
\* attempts the wait is in range, at least the configured one unless that exceeds the
\* maximum, and never shorter than the one before.
THEOREM BackoffInRange ==
  ASSUME NEW base \in Nat \ {0}, NEW max \in Nat \ {0}, NEW attempts \in Nat,
         base * 1024 <= MaxInt
  PROVE  /\ delay(base, attempts, max) \in 1 .. max
         /\ delay(base, attempts, max) >= Least(base, max)
         /\ delay(base, attempts + 1, max) >= delay(base, attempts, max)
<1> DEFINE now == Factor(attempts)
           next == Factor(attempts + 1)
<1>1. now \in 1 .. 1024 /\ next \in 1 .. 1024 /\ now <= next
  BY Doubles
<1>2. /\ delay(base, attempts, max) = Least(AsInt(base * now), max)
      /\ delay(base, attempts + 1, max) = Least(AsInt(base * next), max)
  BY DEF delay, Factor
<1> HIDE DEF now, next
<1>3. MaxInt \in Int
  BY ValuesAssumption DEF MaxInt
<1>4. \A n \in 1 .. 1024 : base * n \in Nat /\ base <= base * n /\ base * n <= base * 1024
  OBVIOUS
<1>5. base * now <= base * next
  BY <1>1
<1>6. AsInt(base * now) = base * now /\ AsInt(base * next) = base * next
  BY <1>1, <1>3, <1>4, FittingInt
<1>7. /\ delay(base, attempts, max) = Least(base * now, max)
      /\ delay(base, attempts + 1, max) = Least(base * next, max)
  BY <1>2, <1>6
<1>8. \A a, b \in Nat \ {0} : /\ Least(a, max) \in 1 .. max
                              /\ base <= a => Least(base, max) <= Least(a, max)
                              /\ a <= b => Least(a, max) <= Least(b, max)
  BY DEF Least
<1>9. base * now \in Nat \ {0} /\ base * next \in Nat \ {0} /\ base <= base * now
  BY <1>1, <1>4
<1> DEFINE a == base * now
           b == base * next
<1> HIDE DEF a, b
<1> QED
  BY <1>5, <1>7, <1>8, <1>9 DEF a, b

(* ------------------------------- SSRF guard ---------------------------- *)

\* i is the first place in which a and b differ.
Parts(a, b, i) == a[i] # b[i] /\ \A j \in 1 .. i - 1 : a[j] = b[j]

\* Two sequences of numbers that differ do so at a first place.
LEMMA FirstDifference ==
  ASSUME NEW n \in Nat, NEW a \in [1 .. n -> Nat], NEW b \in [1 .. n -> Nat], a # b
  PROVE  \E i \in 1 .. n : Parts(a, b, i)
<1> DEFINE T == {i \in 1 .. n : a[i] # b[i]}
<1>1. T \in SUBSET Nat /\ T # {}
  OBVIOUS
<1>2. PICK i \in T : \A j \in T : i <= j
  BY <1>1, LeastNumber
<1>3. ASSUME NEW j \in 1 .. i - 1 PROVE a[j] = b[j]
  BY <1>2
<1> QED
  BY <1>2, <1>3 DEF Parts

\* Above the lowest address of a block, k being the first place in which the block has a
\* choice.
LEMMA AboveLowest ==
  ASSUME NEW n \in Nat, NEW a \in [1 .. n -> Nat], NEW lo \in [1 .. n -> Nat], NEW k \in 1 .. n,
         \A j \in 1 .. k - 1 : a[j] = lo[j], lo[k] <= a[k], \A j \in k + 1 .. n : lo[j] = 0
  PROVE  AtMost(lo, a)
<1>1. CASE lo # a
  <2>1. PICK i \in 1 .. n : Parts(lo, a, i)
    BY <1>1, FirstDifference
  <2>2. lo[i] < a[i] /\ \A j \in 1 .. i - 1 : lo[j] = a[j]
    BY <2>1 DEF Parts
  <2>3. DOMAIN lo = 1 .. n /\ a[i] \in Nat
    OBVIOUS
  <2> QED
    BY <2>2, <2>3 DEF AtMost
<1> QED
  BY <1>1 DEF AtMost

\* And below its highest one.
LEMMA BelowHighest ==
  ASSUME NEW n \in Nat, NEW top \in Nat, NEW a \in [1 .. n -> Nat],
         NEW hi \in [1 .. n -> Nat], NEW k \in 1 .. n,
         \A j \in 1 .. n : a[j] <= top,
         \A j \in 1 .. k - 1 : a[j] = hi[j], a[k] <= hi[k], \A j \in k + 1 .. n : hi[j] = top
  PROVE  AtMost(a, hi)
<1>1. CASE a # hi
  <2>1. PICK i \in 1 .. n : Parts(a, hi, i)
    BY <1>1, FirstDifference
  <2>2. a[i] < hi[i] /\ \A j \in 1 .. i - 1 : a[j] = hi[j]
    BY <2>1 DEF Parts
  <2>3. DOMAIN a = 1 .. n /\ a[i] \in Nat
    OBVIOUS
  <2> QED
    BY <2>2, <2>3 DEF AtMost
<1> QED
  BY <1>1 DEF AtMost

\* Between two addresses that agree in the places before k.
LEMMA Between ==
  ASSUME NEW n \in Nat, NEW a \in [1 .. n -> Nat], NEW lo \in [1 .. n -> Nat],
         NEW hi \in [1 .. n -> Nat], NEW k \in 1 .. n, \A j \in 1 .. k - 1 : lo[j] = hi[j],
         AtMost(lo, a), AtMost(a, hi)
  PROVE  (\A j \in 1 .. k - 1 : a[j] = lo[j]) /\ lo[k] <= a[k] /\ a[k] <= hi[k]
<1>0. \A i \in 1 .. n : a[i] \in Nat /\ lo[i] \in Nat /\ hi[i] \in Nat
  OBVIOUS
<1>1. \/ a = lo
      \/ \E i \in 1 .. n : lo[i] < a[i] /\ \A j \in 1 .. i - 1 : a[j] = lo[j]
  BY DEF AtMost
<1>2. \/ a = hi
      \/ \E i \in 1 .. n : a[i] < hi[i] /\ \A j \in 1 .. i - 1 : a[j] = hi[j]
  BY DEF AtMost
<1> DEFINE Above(i) == lo[i] < a[i] /\ \A j \in 1 .. i - 1 : a[j] = lo[j]
           Below(m) == a[m] < hi[m] /\ \A j \in 1 .. m - 1 : a[j] = hi[j]
<1>3. CASE a = lo /\ a = hi
  BY <1>0, <1>3
<1>4. ASSUME a = lo, NEW m \in 1 .. n, Below(m) PROVE m >= k
  BY <1>0, <1>4
<1>5. ASSUME a = hi, NEW i \in 1 .. n, Above(i) PROVE i >= k
  BY <1>0, <1>5
<1>6. ASSUME NEW i \in 1 .. n, Above(i), NEW m \in 1 .. n, Below(m) PROVE i >= k /\ m >= k
  <2>1. ~(i < k /\ m >= i)
    <3> SUFFICES ASSUME i < k, m >= i PROVE FALSE
      OBVIOUS
    <3>1. lo[i] = hi[i]
      OBVIOUS
    <3>2. a[i] = hi[i] \/ (m = i /\ a[i] < hi[i])
      BY <1>6
    <3> QED
      BY <1>0, <1>6, <3>1, <3>2
  <2>2. ~(m < k /\ i >= m)
    <3> SUFFICES ASSUME m < k, i >= m PROVE FALSE
      OBVIOUS
    <3>1. lo[m] = hi[m]
      OBVIOUS
    <3>2. a[m] = lo[m] \/ (i = m /\ lo[i] < a[i])
      BY <1>6
    <3> QED
      BY <1>0, <1>6, <3>1, <3>2
  <2> QED
    BY <2>1, <2>2
<1>7. CASE a = lo /\ \E m \in 1 .. n : Below(m)
  BY <1>0, <1>4, <1>7
<1>8. CASE a = hi /\ \E i \in 1 .. n : Above(i)
  BY <1>0, <1>5, <1>8
<1>9. CASE (\E i \in 1 .. n : Above(i)) /\ \E m \in 1 .. n : Below(m)
  <2>1. PICK i \in 1 .. n, m \in 1 .. n : Above(i) /\ Below(m)
    BY <1>9
  <2>2. i >= k /\ m >= k
    BY <1>6, <2>1
  <2>3. \A j \in 1 .. k - 1 : a[j] = lo[j]
    BY <2>1, <2>2
  <2>4. lo[k] <= a[k]
    <3>1. k = i \/ k \in 1 .. i - 1
      BY <2>2
    <3>2. lo[i] < a[i] /\ \A j \in 1 .. i - 1 : a[j] = lo[j]
      BY <2>1
    <3> HIDE DEF Above, Below
    <3>3. k = i => lo[k] < a[k]
      BY <3>2
    <3>4. k \in 1 .. i - 1 => a[k] = lo[k]
      BY <3>2
    <3> QED
      BY <1>0, <3>1, <3>3, <3>4
  <2>5. a[k] <= hi[k]
    <3>1. k = m \/ k \in 1 .. m - 1
      BY <2>2
    <3>2. a[m] < hi[m] /\ \A j \in 1 .. m - 1 : a[j] = hi[j]
      BY <2>1
    <3> HIDE DEF Above, Below
    <3>3. k = m => a[k] < hi[k]
      BY <3>2
    <3>4. k \in 1 .. m - 1 => a[k] = hi[k]
      BY <3>2
    <3> QED
      BY <1>0, <3>1, <3>3, <3>4
  <2> QED
    BY <2>3, <2>4, <2>5
<1> QED
  BY <1>1, <1>2, <1>3, <1>7, <1>8, <1>9

\* A block: its addresses agree in the places before k, in place k they are between two
\* numbers, and behind it there may be anything.
Chosen(lo, hi, k, a) ==
  (\A j \in 1 .. k - 1 : a[j] = lo[j]) /\ lo[k] <= a[k] /\ a[k] <= hi[k]
InRange(a, lo, hi) == AtMost(lo, a) /\ AtMost(a, hi)
IsAddress(a, n, top) == n \in Nat /\ a \in [1 .. n -> Nat] /\ \A j \in 1 .. n : a[j] <= top
IsBlock(lo, hi, k, n, top) ==
  /\ n \in Nat /\ top \in Nat /\ lo \in [1 .. n -> Nat] /\ hi \in [1 .. n -> Nat] /\ k \in 1 .. n
  /\ \A j \in 1 .. k - 1 : lo[j] = hi[j]
  /\ \A j \in k + 1 .. n : lo[j] = 0 /\ hi[j] = top

\* Those are the addresses between its ends.
LEMMA RangeOfBlock ==
  ASSUME NEW n, NEW top, NEW a, NEW lo, NEW hi, NEW k, IsAddress(a, n, top),
         IsBlock(lo, hi, k, n, top)
  PROVE  InRange(a, lo, hi) <=> Chosen(lo, hi, k, a)
<1>0. /\ n \in Nat /\ top \in Nat /\ lo \in [1 .. n -> Nat] /\ hi \in [1 .. n -> Nat]
      /\ a \in [1 .. n -> Nat] /\ k \in 1 .. n
  BY DEF IsBlock, IsAddress
<1>1. /\ \A j \in 1 .. n : a[j] <= top
      /\ \A j \in 1 .. k - 1 : lo[j] = hi[j]
      /\ \A j \in k + 1 .. n : lo[j] = 0
      /\ \A j \in k + 1 .. n : hi[j] = top
  BY DEF IsBlock, IsAddress
<1>2. ASSUME AtMost(lo, a), AtMost(a, hi)
      PROVE  (\A j \in 1 .. k - 1 : a[j] = lo[j]) /\ lo[k] <= a[k] /\ a[k] <= hi[k]
  BY <1>0, <1>1, <1>2, Between
<1>3. ASSUME \A j \in 1 .. k - 1 : a[j] = lo[j], lo[k] <= a[k], a[k] <= hi[k]
      PROVE  AtMost(lo, a) /\ AtMost(a, hi)
  <2>1. AtMost(lo, a)
    BY <1>0, <1>1, <1>3, AboveLowest
  <2>2. \A j \in 1 .. k - 1 : a[j] = hi[j]
    BY <1>1, <1>3
  <2>3. AtMost(a, hi)
    BY <1>0, <1>1, <1>3, <2>2, BelowHighest
  <2> QED
    BY <2>1, <2>3
<1> QED
  BY <1>2, <1>3 DEF InRange, Chosen

\* Two numbers between two pairs.
LEMMA PairWithin ==
  ASSUME NEW a \in Nat, NEW b \in Nat, NEW c \in Nat, NEW d \in Nat, NEW e \in Nat,
         NEW f \in Nat
  PROVE  AtMost(<<c, d>>, <<a, b>>) /\ AtMost(<<a, b>>, <<e, f>>)
           <=> (c < a \/ (c = a /\ d <= b)) /\ (a < e \/ (a = e /\ b <= f))
<1>1. ASSUME NEW x \in Nat, NEW y \in Nat, NEW z \in Nat, NEW w \in Nat
      PROVE  AtMost(<<x, y>>, <<z, w>>) <=> x < z \/ (x = z /\ y <= w)
  <2>1. DOMAIN <<x, y>> = {1, 2}
    OBVIOUS
  <2>2. AtMost(<<x, y>>, <<z, w>>) <=> (x = z /\ y = w) \/ x < z \/ (y < w /\ x = z)
    BY <2>1 DEF AtMost
  <2> QED
    BY <2>2
<1>2. AtMost(<<c, d>>, <<a, b>>) <=> c < a \/ (c = a /\ d <= b)
  BY <1>1
<1>3. AtMost(<<a, b>>, <<e, f>>) <=> a < e \/ (a = e /\ b <= f)
  BY <1>1
<1> QED
  BY <1>2, <1>3, Zenon

\* The first two bytes of the IPv4 addresses that are not open.
NotOpen(a, b) ==
  \/ a \in {0, 10, 127} \/ (a = 100 /\ b \in 64 .. 127) \/ (a = 169 /\ b = 254)
  \/ (a = 172 /\ b \in 16 .. 31) \/ (a = 192 /\ b = 168) \/ a \in 224 .. 255

\* They are those that the masks of the blocks refuse.
LEMMA MasksV4 ==
  ASSUME NEW bytes, bytes[1] \in 0 .. 255, bytes[2] \in 0 .. 255
  PROVE  BlockedV4(bytes) <=> NotOpen(bytes[1], bytes[2])
<1> DEFINE a == bytes[1]
           b == bytes[2]
<1>1. inBlock(bytes, <<0, 0>>, 8) <=> a = 0
  BY DEF inBlock
<1>2. inBlock(bytes, <<10, 0>>, 8) <=> a = 10
  BY DEF inBlock
<1>3. inBlock(bytes, <<100, 64>>, 10) <=> a = 100 /\ b \in 64 .. 127
  BY DEF inBlock
<1>4. inBlock(bytes, <<127, 0>>, 8) <=> a = 127
  BY DEF inBlock
<1>5. inBlock(bytes, <<169, 254>>, 16) <=> a = 169 /\ b = 254
  BY DEF inBlock
<1>6. inBlock(bytes, <<172, 16>>, 12) <=> a = 172 /\ b \in 16 .. 31
  BY DEF inBlock
<1>7. inBlock(bytes, <<192, 168>>, 16) <=> a = 192 /\ b = 168
  BY DEF inBlock
<1>8. inBlock(bytes, <<224, 0>>, 4) <=> a \in 224 .. 239
  BY DEF inBlock
<1>9. inBlock(bytes, <<240, 0>>, 4) <=> a \in 240 .. 255
  BY DEF inBlock
<1>10. BlockedV4(bytes) <=>
         \/ inBlock(bytes, <<0, 0>>, 8) \/ inBlock(bytes, <<10, 0>>, 8)
         \/ inBlock(bytes, <<100, 64>>, 10) \/ inBlock(bytes, <<127, 0>>, 8)
         \/ inBlock(bytes, <<169, 254>>, 16) \/ inBlock(bytes, <<172, 16>>, 12)
         \/ inBlock(bytes, <<192, 168>>, 16) \/ inBlock(bytes, <<224, 0>>, 4)
         \/ inBlock(bytes, <<240, 0>>, 4)
  <2> DEFINE Hit(block) == inBlock(bytes, block[1], block[2])
  <2>1. BlockedV4(bytes) <=> \E block \in kIpv4Blocks : Hit(block)
    BY DEF BlockedV4
  <2> HIDE DEF Hit
  <2>2. (\E block \in kIpv4Blocks : Hit(block)) <=>
          \/ Hit(<<<<0, 0>>, 8>>) \/ Hit(<<<<10, 0>>, 8>>) \/ Hit(<<<<100, 64>>, 10>>)
          \/ Hit(<<<<127, 0>>, 8>>) \/ Hit(<<<<169, 254>>, 16>>) \/ Hit(<<<<172, 16>>, 12>>)
          \/ Hit(<<<<192, 168>>, 16>>) \/ Hit(<<<<224, 0>>, 4>>) \/ Hit(<<<<240, 0>>, 4>>)
    BY DEF kIpv4Blocks
  <2>3. \A base, bits : Hit(<<base, bits>>) <=> inBlock(bytes, base, bits)
    BY DEF Hit
  <2> QED
    BY <2>1, <2>2, <2>3
<1> QED
  BY <1>1, <1>2, <1>3, <1>4, <1>5, <1>6, <1>7, <1>8, <1>9, <1>10 DEF NotOpen

\* And those between the ends of the listed blocks.
LEMMA RangesOfV4 ==
  ASSUME NEW a \in 0 .. 255, NEW b \in 0 .. 255
  PROVE  Within(<<a, b>>, RangesV4) <=> NotOpen(a, b)
<1> DEFINE In(c, d, e, f) == AtMost(<<c, d>>, <<a, b>>) /\ AtMost(<<a, b>>, <<e, f>>)
<1>1. \A c, d, e, f \in Nat :
        In(c, d, e, f) <=> (c < a \/ (c = a /\ d <= b)) /\ (a < e \/ (a = e /\ b <= f))
  <2> SUFFICES ASSUME NEW c \in Nat, NEW d \in Nat, NEW e \in Nat, NEW f \in Nat
               PROVE  In(c, d, e, f) <=> /\ c < a \/ (c = a /\ d <= b)
                                         /\ a < e \/ (a = e /\ b <= f)
    BY Zenon
  <2>1. a \in Nat /\ b \in Nat
    OBVIOUS
  <2> QED
    BY <2>1, PairWithin
<1>2. Within(<<a, b>>, RangesV4) <=>
        \/ In(0, 0, 0, 255) \/ In(10, 0, 10, 255) \/ In(100, 64, 100, 127)
        \/ In(127, 0, 127, 255) \/ In(169, 254, 169, 254) \/ In(172, 16, 172, 31)
        \/ In(192, 168, 192, 168) \/ In(224, 0, 255, 255)
  BY DEF Within, RangesV4, BlockAt
<1> HIDE DEF In
<1>3. In(0, 0, 0, 255) <=> a = 0
  BY <1>1
<1>4. In(10, 0, 10, 255) <=> a = 10
  BY <1>1
<1>5. In(100, 64, 100, 127) <=> a = 100 /\ b \in 64 .. 127
  BY <1>1
<1>6. In(127, 0, 127, 255) <=> a = 127
  BY <1>1
<1>7. In(169, 254, 169, 254) <=> a = 169 /\ b = 254
  BY <1>1
<1>8. In(172, 16, 172, 31) <=> a = 172 /\ b \in 16 .. 31
  BY <1>1
<1>9. In(192, 168, 192, 168) <=> a = 192 /\ b = 168
  BY <1>1
<1>10. In(224, 0, 255, 255) <=> a \in 224 .. 255
  BY <1>1
<1> QED
  BY <1>2, <1>3, <1>4, <1>5, <1>6, <1>7, <1>8, <1>9, <1>10 DEF NotOpen

\* The masks refuse exactly the addresses of the listed IPv4 blocks.
THEOREM BlocksV4 ==
  ASSUME NEW bytes, bytes[1] \in 0 .. 255, bytes[2] \in 0 .. 255
  PROVE  BlockedV4(bytes) <=> Within(<<bytes[1], bytes[2]>>, RangesV4)
BY MasksV4, RangesOfV4

\* The eight groups of an address.
IsGroups(g) == IsAddress(g, 8, 65535)

\* These groups, and n in the places behind them.
Filled(g, n) == [i \in 1 .. 8 |-> IF i <= Len(g) THEN g[i] ELSE n]

\* The groups of the IPv6 addresses that are not open.
NotOpenV6(g) ==
  \/ ((\A i \in 1 .. 7 : g[i] = 0) /\ g[8] \in {0, 1})
  \/ (g[1] = 100 /\ g[2] = 65435 /\ \A i \in 3 .. 6 : g[i] = 0)
  \/ g[1] = 8194
  \/ (64512 <= g[1] /\ g[1] <= 65023) \/ (65152 <= g[1] /\ g[1] <= 65215)

\* They are those between the ends of the listed IPv6 blocks.
LEMMA RangesOfV6 ==
  ASSUME NEW g, IsGroups(g)
  PROVE  Within(g, RangesV6) <=> NotOpenV6(g)
<1> DEFINE Seven == <<0, 0, 0, 0, 0, 0, 0>>
           Mapping == <<100, 65435, 0, 0, 0, 0, 65535, 65535>>
<1>0. \A i \in 1 .. 8 : g[i] \in Nat
  BY SMT DEF IsGroups, IsAddress
<1>1. Within(g, RangesV6) <=>
        \/ InRange(g, Filled(<<>>, 0), Filled(Seven, 1))
        \/ InRange(g, Filled(<<100, 65435>>, 0), Mapping)
        \/ InRange(g, Filled(<<8194>>, 0), Filled(<<8194>>, 65535))
        \/ InRange(g, Filled(<<64512>>, 0), Filled(<<65023>>, 65535))
        \/ InRange(g, Filled(<<65152>>, 0), Filled(<<65215>>, 65535))
  BY SMT DEF Within, RangesV6, BlockAt, InRange, Filled
<1>2. ASSUME NEW lo, NEW hi, NEW k, IsBlock(lo, hi, k, 8, 65535)
      PROVE  InRange(g, lo, hi) <=> Chosen(lo, hi, k, g)
  BY <1>2, RangeOfBlock, SMT DEF IsGroups
<1>3. InRange(g, Filled(<<>>, 0), Filled(Seven, 1))
        <=> (\A i \in 1 .. 7 : g[i] = 0) /\ g[8] \in {0, 1}
  <2> DEFINE lo == Filled(<<>>, 0)
             hi == Filled(Seven, 1)
  <2>1. IsBlock(lo, hi, 8, 8, 65535)
    BY SMT DEF Filled, IsBlock
  <2>2. (\A j \in 1 .. 7 : lo[j] = 0) /\ lo[8] = 0 /\ hi[8] = 1
    BY SMT DEF Filled
  <2> HIDE DEF lo, hi
  <2>3. InRange(g, lo, hi) <=> Chosen(lo, hi, 8, g)
    BY <1>2, <2>1, SMT
  <2>4. Chosen(lo, hi, 8, g) <=> (\A i \in 1 .. 7 : g[i] = 0) /\ g[8] \in {0, 1}
    BY <1>0, <2>2, SMT DEF Chosen
  <2> QED
    BY <2>3, <2>4, Zenon DEF lo, hi
<1>4. InRange(g, Filled(<<100, 65435>>, 0), Mapping)
        <=> g[1] = 100 /\ g[2] = 65435 /\ \A i \in 3 .. 6 : g[i] = 0
  <2> DEFINE lo == Filled(<<100, 65435>>, 0)
             hi == Mapping
  <2>1. IsBlock(lo, hi, 6, 8, 65535)
    BY SMT DEF Filled, IsBlock
  <2>2. /\ lo[1] = 100 /\ lo[2] = 65435 /\ \A j \in 3 .. 6 : lo[j] = 0
        /\ hi[6] = 0
    BY SMT DEF Filled
  <2> HIDE DEF lo, hi
  <2>3. InRange(g, lo, hi) <=> Chosen(lo, hi, 6, g)
    BY <1>2, <2>1, SMT
  <2>4. Chosen(lo, hi, 6, g) <=> g[1] = 100 /\ g[2] = 65435 /\ \A i \in 3 .. 6 : g[i] = 0
    BY <1>0, <2>2, SMT DEF Chosen
  <2> QED
    BY <2>3, <2>4, SMT DEF lo, hi
<1>5. ASSUME NEW a \in Nat, NEW b \in Nat
      PROVE  InRange(g, Filled(<<a>>, 0), Filled(<<b>>, 65535)) <=> a <= g[1] /\ g[1] <= b
  <2> DEFINE lo == Filled(<<a>>, 0)
             hi == Filled(<<b>>, 65535)
  <2>1. IsBlock(lo, hi, 1, 8, 65535)
    BY SMT DEF Filled, IsBlock
  <2>2. lo[1] = a /\ hi[1] = b
    BY SMT DEF Filled
  <2> HIDE DEF lo, hi
  <2>3. InRange(g, lo, hi) <=> Chosen(lo, hi, 1, g)
    BY <1>2, <2>1, SMT
  <2>4. Chosen(lo, hi, 1, g) <=> a <= g[1] /\ g[1] <= b
    BY <1>0, <2>2, SMT DEF Chosen
  <2> QED
    BY <2>3, <2>4, SMT DEF lo, hi
<1>6. InRange(g, Filled(<<8194>>, 0), Filled(<<8194>>, 65535)) <=> g[1] = 8194
  <2>1. g[1] \in Nat
    BY <1>0, SMT
  <2> QED
    BY <1>5, <2>1, SMT
<1>7. InRange(g, Filled(<<64512>>, 0), Filled(<<65023>>, 65535))
        <=> 64512 <= g[1] /\ g[1] <= 65023
  BY <1>5, SMT
<1>8. InRange(g, Filled(<<65152>>, 0), Filled(<<65215>>, 65535))
        <=> 65152 <= g[1] /\ g[1] <= 65215
  BY <1>5, SMT
<1> QED
  BY <1>1, <1>3, <1>4, <1>6, <1>7, <1>8, SMT DEF NotOpenV6

\* The bytes of the groups, one by one.
LEMMA BytesOfGroups ==
  ASSUME NEW g, IsGroups(g)
  PROVE  /\ \A i \in 1 .. 8 : /\ Bytes(g)[(2 * i) - 1] \in 0 .. 255 /\ Bytes(g)[2 * i] \in 0 .. 255
                              /\ g[i] = (256 * Bytes(g)[(2 * i) - 1]) + Bytes(g)[2 * i]
         /\ \A i \in 1 .. 8 : Bytes(g)[(2 * i) - 1] = g[i] \div 256 /\ Bytes(g)[2 * i] = g[i] % 256
<1>1. \A i \in 1 .. 8 : Bytes(g)[(2 * i) - 1] = g[i] \div 256 /\ Bytes(g)[2 * i] = g[i] % 256
  BY SMT DEF Bytes
<1>2. \A i \in 1 .. 8 : g[i] \in Nat /\ g[i] <= 65535
  BY SMT DEF IsGroups, IsAddress
<1>3. ASSUME NEW i \in 1 .. 8
      PROVE  /\ Bytes(g)[(2 * i) - 1] \in 0 .. 255 /\ Bytes(g)[2 * i] \in 0 .. 255
             /\ g[i] = (256 * Bytes(g)[(2 * i) - 1]) + Bytes(g)[2 * i]
  <2>1. /\ g[i] \div 256 \in 0 .. 255 /\ g[i] % 256 \in 0 .. 255
        /\ g[i] = (256 * (g[i] \div 256)) + (g[i] % 256)
    <3> DEFINE n == g[i]
    <3>1. n \in Nat /\ n <= 65535
      BY <1>2, SMT
    <3> HIDE DEF n
    <3>2. n \div 256 \in 0 .. 255 /\ n % 256 \in 0 .. 255 /\ n = (256 * (n \div 256)) + (n % 256)
      BY <3>1, SMT
    <3> QED
      BY <3>2, Zenon DEF n
  <2>2. Bytes(g)[(2 * i) - 1] = g[i] \div 256 /\ Bytes(g)[2 * i] = g[i] % 256
    BY <1>1, Zenon
  <2> QED
    BY <2>1, <2>2, Zenon
<1> QED
  BY <1>1, <1>3, Zenon

\* All sixteen of them.
Sixteen(g, b) ==
  /\ \A i \in 1 .. 16 : b[i] \in 0 .. 255
  /\ g[1] = (256 * b[1]) + b[2] /\ g[2] = (256 * b[3]) + b[4]
  /\ g[3] = (256 * b[5]) + b[6] /\ g[4] = (256 * b[7]) + b[8]
  /\ g[5] = (256 * b[9]) + b[10] /\ g[6] = (256 * b[11]) + b[12]
  /\ g[7] = (256 * b[13]) + b[14] /\ g[8] = (256 * b[15]) + b[16]

\* The sixteen bytes of eight groups say these groups (ipv6ToBytes).
LEMMA SixteenBytes ==
  ASSUME NEW g, IsGroups(g)
  PROVE  Sixteen(g, Bytes(g))
<1> DEFINE b == Bytes(g)
<1>1. \A i \in 1 .. 8 : /\ b[(2 * i) - 1] \in 0 .. 255 /\ b[2 * i] \in 0 .. 255
                        /\ g[i] = (256 * b[(2 * i) - 1]) + b[2 * i]
  BY BytesOfGroups, Zenon
<1> HIDE DEF b
<1>2. ASSUME NEW i \in 1 .. 8, NEW j \in Int, NEW k \in Int, j = (2 * i) - 1, k = 2 * i
      PROVE  b[j] \in 0 .. 255 /\ b[k] \in 0 .. 255 /\ g[i] = (256 * b[j]) + b[k]
  BY <1>1, <1>2, SMT
<1>3. /\ b[1] \in 0 .. 255 /\ b[2] \in 0 .. 255 /\ g[1] = (256 * b[1]) + b[2]
      /\ b[3] \in 0 .. 255 /\ b[4] \in 0 .. 255 /\ g[2] = (256 * b[3]) + b[4]
      /\ b[5] \in 0 .. 255 /\ b[6] \in 0 .. 255 /\ g[3] = (256 * b[5]) + b[6]
      /\ b[7] \in 0 .. 255 /\ b[8] \in 0 .. 255 /\ g[4] = (256 * b[7]) + b[8]
      /\ b[9] \in 0 .. 255 /\ b[10] \in 0 .. 255 /\ g[5] = (256 * b[9]) + b[10]
      /\ b[11] \in 0 .. 255 /\ b[12] \in 0 .. 255 /\ g[6] = (256 * b[11]) + b[12]
      /\ b[13] \in 0 .. 255 /\ b[14] \in 0 .. 255 /\ g[7] = (256 * b[13]) + b[14]
      /\ b[15] \in 0 .. 255 /\ b[16] \in 0 .. 255 /\ g[8] = (256 * b[15]) + b[16]
  BY <1>2, SMTT(30)
<1>4. \A i \in 1 .. 16 : b[i] \in 0 .. 255
  BY <1>3, SMT
<1> QED
  BY <1>3, <1>4, Zenon DEF b, Sixteen

\* An address is a mapped one when its groups say so.
LEMMA MappedGroups ==
  ASSUME NEW g, NEW b, Sixteen(g, b)
  PROVE  IsV4Mapped(b) <=> (\A i \in 1 .. 5 : g[i] = 0) /\ g[6] = 65535
<1>1. ASSUME IsV4Mapped(b) PROVE (\A i \in 1 .. 5 : g[i] = 0) /\ g[6] = 65535
  BY <1>1, SMT DEF IsV4Mapped, Sixteen
<1>2. ASSUME \A i \in 1 .. 5 : g[i] = 0, g[6] = 65535 PROVE IsV4Mapped(b)
  <2>1. \A i \in 1 .. 16 : b[i] \in 0 .. 255
    BY DEF Sixteen
  <2>2. ASSUME NEW n, NEW j \in 1 .. 15, n = (256 * b[j]) + b[j + 1]
        PROVE  /\ n = 0 => b[j] = 0 /\ b[j + 1] = 0
               /\ n = 65535 => b[j] = 255 /\ b[j + 1] = 255
    <3> DEFINE x == b[j]
               y == b[j + 1]
    <3>1. x \in 0 .. 255 /\ y \in 0 .. 255 /\ n = (256 * x) + y
      BY <2>1, <2>2, SMT
    <3> HIDE DEF x, y
    <3>2. (n = 0 => x = 0 /\ y = 0) /\ (n = 65535 => x = 255 /\ y = 255)
      BY <3>1, SMT
    <3> QED
      BY <3>2, SMT DEF x, y
  <2>3. /\ g[1] = (256 * b[1]) + b[1 + 1] /\ g[2] = (256 * b[3]) + b[3 + 1]
        /\ g[3] = (256 * b[5]) + b[5 + 1] /\ g[4] = (256 * b[7]) + b[7 + 1]
        /\ g[5] = (256 * b[9]) + b[9 + 1] /\ g[6] = (256 * b[11]) + b[11 + 1]
    BY SMT DEF Sixteen
  <2>4. /\ g[1] = 0 => b[1] = 0 /\ b[1 + 1] = 0
        /\ g[2] = 0 => b[3] = 0 /\ b[3 + 1] = 0
        /\ g[3] = 0 => b[5] = 0 /\ b[5 + 1] = 0
        /\ g[4] = 0 => b[7] = 0 /\ b[7 + 1] = 0
        /\ g[5] = 0 => b[9] = 0 /\ b[9 + 1] = 0
        /\ g[6] = 65535 => b[11] = 255 /\ b[11 + 1] = 255
    BY <2>2, <2>3, SMT
  <2>5. g[1] = 0 /\ g[2] = 0 /\ g[3] = 0 /\ g[4] = 0 /\ g[5] = 0
    BY <1>2, SMT
  <2> QED
    BY <1>2, <2>4, <2>5, SMT DEF IsV4Mapped
<1> QED
  BY <1>1, <1>2, SMT

\* A sequence of zeros, and what is put behind or before it.
LEMMA ZerosAre ==
  ASSUME NEW n \in Nat
  PROVE  Zeros(n) \in Seq(Nat) /\ Len(Zeros(n)) = n /\ \A i \in 1 .. n : Zeros(n)[i] = 0
BY SMT DEF Zeros

\* What stands at a place of two joined sequences.
LEMMA JoinedAt ==
  ASSUME NEW s \in Seq(Nat), NEW t \in Seq(Nat), NEW i \in 1 .. Len(s) + Len(t)
  PROVE  (s \o t)[i] = IF i <= Len(s) THEN s[i] ELSE t[i - Len(s)]
BY SMT

\* A base is filled up with zeros.
Padded(s, n) == s \o Zeros(n)

\* A base has its own bytes first and zeros behind them.
LEMMA FilledBase ==
  ASSUME NEW s \in Seq(Nat), NEW n \in Nat, NEW i \in 1 .. Len(s) + n
  PROVE  /\ i <= Len(s) => Padded(s, n)[i] = s[i]
         /\ i > Len(s) => Padded(s, n)[i] = 0
<1> DEFINE z == Zeros(n)
<1>1. z \in Seq(Nat) /\ Len(z) = n /\ \A j \in 1 .. n : z[j] = 0
  BY ZerosAre
<1> HIDE DEF z
<1>2. (s \o z)[i] = IF i <= Len(s) THEN s[i] ELSE z[i - Len(s)]
  BY <1>1, JoinedAt
<1>3. i > Len(s) => z[i - Len(s)] = 0
  BY <1>1
<1> QED
  BY <1>2, <1>3 DEF z, Padded

\* The bases of two IPv6 blocks, byte by byte.
LEMMA LoopbackBase ==
  ASSUME NEW i \in 1 .. 16
  PROVE  (Zeros(15) \o <<1>>)[i] = IF i = 16 THEN 1 ELSE 0
<1> DEFINE z == Zeros(15)
           t == <<1>>
<1>1. z \in Seq(Nat) /\ Len(z) = 15 /\ \A j \in 1 .. 15 : z[j] = 0
  BY ZerosAre
<1>2. t \in Seq(Nat) /\ Len(t) = 1 /\ t[1] = 1
  OBVIOUS
<1> HIDE DEF z, t
<1>3. i \in 1 .. Len(z) + Len(t)
  BY <1>1, <1>2
<1>4. (z \o t)[i] = IF i <= Len(z) THEN z[i] ELSE t[i - Len(z)]
  BY <1>1, <1>2, <1>3, JoinedAt
<1>5. (z \o t)[i] = IF i = 16 THEN 1 ELSE 0
  <2>1. i = 16 => (z \o t)[i] = 1
    BY <1>1, <1>2, <1>4
  <2>2. i \in 1 .. 15 => (z \o t)[i] = 0
    BY <1>1, <1>4
  <2>3. i = 16 \/ (i # 16 /\ i \in 1 .. 15)
    OBVIOUS
  <2> QED
    BY <2>1, <2>2, <2>3, Zenon
<1> QED
  BY <1>5 DEF z, t

\* The base of the translation block 64:ff9b::/96, byte by byte.
LEMMA TranslationBase ==
  LET base == Padded(<<0, 100, 255, 155>>, 12)
  IN /\ base[1] = 0 /\ base[2] = 100 /\ base[3] = 255 /\ base[4] = 155
     /\ \A i \in 5 .. 12 : base[i] = 0
<1> DEFINE t == <<0, 100, 255, 155>>
           n == 12
           base == Padded(t, n)
<1>0. t \in Seq(Nat) /\ n \in Nat
  OBVIOUS
<1>1. /\ Len(t) = 4 /\ n = 12
      /\ t[1] = 0 /\ t[2] = 100 /\ t[3] = 255 /\ t[4] = 155
  OBVIOUS
<1> HIDE DEF t, n
<1>2. ASSUME NEW i \in 1 .. Len(t) + n
      PROVE  (i <= Len(t) => base[i] = t[i]) /\ (i > Len(t) => base[i] = 0)
  BY <1>0, FilledBase
<1> HIDE DEF base
<1>3. \A i \in 1 .. 16 : (i <= 4 => base[i] = t[i]) /\ (i > 4 => base[i] = 0)
  BY <1>1, <1>2
<1>4. base[1] = t[1] /\ base[2] = t[2] /\ base[3] = t[3] /\ base[4] = t[4]
  BY <1>3
<1>5. \A i \in 5 .. 12 : base[i] = 0
  BY <1>3
<1> QED
  BY <1>1, <1>4, <1>5 DEF base, t, n

\* The upper bits of a byte.
LEMMA UpperBits ==
  ASSUME NEW x \in 0 .. 255
  PROVE  /\ x \div 2 = 126 <=> x \in {252, 253}
         /\ x \div 64 = 2 <=> x \in 128 .. 191
BY SMT

\* The first two bytes of a base that is filled up with zeros.
LEMMA FirstOne ==
  ASSUME NEW s \in Seq(Nat), Len(s) >= 1, NEW n \in Nat
  PROVE  Padded(s, n)[1] = s[1]
BY FilledBase

\* Filling a base leaves its first two bytes.
LEMMA FirstTwo ==
  ASSUME NEW s \in Seq(Nat), Len(s) >= 2, NEW n \in Nat
  PROVE  Padded(s, n)[1] = s[1] /\ Padded(s, n)[2] = s[2]
BY FilledBase

\* The bytes that the masks of the IPv6 blocks refuse.
RefusedBytes(b) ==
  \/ \A i \in 1 .. 16 : b[i] = 0
  \/ (\A i \in 1 .. 15 : b[i] = 0) /\ b[16] = 1
  \/ b[1] = 0 /\ b[2] = 100 /\ b[3] = 255 /\ b[4] = 155 /\ \A i \in 5 .. 12 : b[i] = 0
  \/ b[1] = 32 /\ b[2] = 2
  \/ b[1] \in {252, 253}
  \/ b[1] = 254 /\ b[2] \in 128 .. 191

\* The comparison of all the bits under a mask, block by block (inBlock).
LEMMA MasksV6 ==
  ASSUME NEW b, \A i \in 1 .. 16 : b[i] \in 0 .. 255
  PROVE  (\E block \in kIpv6Blocks : inBlock(b, block[1], block[2])) <=> RefusedBytes(b)
<1> DEFINE Hit(base, bits) == inBlock(b, base, bits)
           B == Zeros(15) \o <<1>>
           C == Padded(<<0, 100, 255, 155>>, 12)
           D == Padded(<<32, 2>>, 14)
           E == Padded(<<252>>, 15)
           F == Padded(<<254, 128>>, 14)
<1>11. \A base : Hit(base, 128) <=> \A i \in 1 .. 16 : b[i] = base[i]
  BY SMT DEF inBlock
<1>12. \A base : Hit(base, 96) <=> \A i \in 1 .. 12 : b[i] = base[i]
  BY SMT DEF inBlock
<1>13. \A base : Hit(base, 16) <=> b[1] = base[1] /\ b[2] = base[2]
  BY SMT DEF inBlock
<1>14. \A base : Hit(base, 7) <=> b[1] \div 2 = base[1] \div 2
  BY SMT DEF inBlock
<1>15. \A base : Hit(base, 10) <=> b[1] = base[1] /\ b[2] \div 64 = base[2] \div 64
  BY SMT DEF inBlock
<1> HIDE DEF Hit
<1>1. Hit(Zeros(16), 128) <=> \A i \in 1 .. 16 : b[i] = 0
  <2>1. \A i \in 1 .. 16 : Zeros(16)[i] = 0
    BY ZerosAre
  <2>2. Hit(Zeros(16), 128) <=> \A i \in 1 .. 16 : b[i] = Zeros(16)[i]
    BY <1>11, SMT
  <2> QED
    BY <2>1, <2>2
<1>2. Hit(B, 128) <=> (\A i \in 1 .. 15 : b[i] = 0) /\ b[16] = 1
  <2>1. \A i \in 1 .. 16 : B[i] = IF i = 16 THEN 1 ELSE 0
    BY LoopbackBase, Zenon
  <2> HIDE DEF B
  <2>2. Hit(B, 128) <=> \A i \in 1 .. 16 : b[i] = B[i]
    BY <1>11, SMT
  <2>3. (\A i \in 1 .. 15 : B[i] = 0) /\ B[16] = 1
    BY <2>1
  <2>4. (\A i \in 1 .. 16 : b[i] = B[i]) <=> (\A i \in 1 .. 15 : b[i] = B[i]) /\ b[16] = B[16]
    OBVIOUS
  <2> QED
    BY <2>2, <2>3, <2>4
<1>3. Hit(C, 96) <=> /\ b[1] = 0 /\ b[2] = 100 /\ b[3] = 255 /\ b[4] = 155
                     /\ \A i \in 5 .. 12 : b[i] = 0
  <2>1. C[1] = 0 /\ C[2] = 100 /\ C[3] = 255 /\ C[4] = 155
    BY TranslationBase, Zenon
  <2>2. \A i \in 5 .. 12 : C[i] = 0
    BY TranslationBase, Zenon
  <2> HIDE DEF C
  <2>3. Hit(C, 96) <=> \A i \in 1 .. 12 : b[i] = C[i]
    BY <1>12, SMT
  <2>4. (\A i \in 1 .. 12 : b[i] = C[i])
          <=> /\ b[1] = C[1] /\ b[2] = C[2] /\ b[3] = C[3] /\ b[4] = C[4]
              /\ \A i \in 5 .. 12 : b[i] = C[i]
    OBVIOUS
  <2>5. (\A i \in 5 .. 12 : b[i] = C[i]) <=> \A i \in 5 .. 12 : b[i] = 0
    BY <2>2
  <2> QED
    BY <2>1, <2>3, <2>4, <2>5
<1>4. Hit(D, 16) <=> b[1] = 32 /\ b[2] = 2
  <2>1. D[1] = 32 /\ D[2] = 2
    <3> DEFINE s == <<32, 2>>
               n == 14
    <3>1. s \in Seq(Nat) /\ Len(s) >= 2 /\ n \in Nat
      OBVIOUS
    <3>2. s[1] = 32 /\ s[2] = 2
      OBVIOUS
    <3> HIDE DEF s, n
    <3>3. Padded(s, n)[1] = s[1] /\ Padded(s, n)[2] = s[2]
      BY <3>1, FirstTwo
    <3> QED
      BY <3>2, <3>3 DEF s, n
  <2>2. Hit(D, 16) <=> b[1] = D[1] /\ b[2] = D[2]
    BY <1>13, SMT
  <2> QED
    BY <2>1, <2>2, Zenon
<1>5. Hit(E, 7) <=> b[1] \in {252, 253}
  <2>1. E[1] = 252
    <3> DEFINE s == <<252>>
               n == 15
    <3>1. s \in Seq(Nat) /\ Len(s) >= 1 /\ n \in Nat
      OBVIOUS
    <3>2. s[1] = 252
      OBVIOUS
    <3> HIDE DEF s, n
    <3>3. Padded(s, n)[1] = s[1]
      BY <3>1, FirstOne
    <3> QED
      BY <3>2, <3>3 DEF s, n
  <2>2. Hit(E, 7) <=> b[1] \div 2 = E[1] \div 2
    BY <1>14, SMT
  <2> DEFINE x == b[1]
             y == E[1] \div 2
  <2>3. x \in 0 .. 255
    OBVIOUS
  <2>4. y = 126
    BY <2>1
  <2> HIDE DEF E, x, y
  <2>5. x \div 2 = 126 <=> x \in {252, 253}
    BY <2>3, UpperBits
  <2>6. Hit(E, 7) <=> x \div 2 = y
    BY <2>2, Zenon DEF x, y
  <2> QED
    BY <2>4, <2>5, <2>6, Zenon DEF x
<1>6. Hit(F, 10) <=> b[1] = 254 /\ b[2] \in 128 .. 191
  <2>1. F[1] = 254 /\ F[2] = 128
    <3> DEFINE s == <<254, 128>>
               n == 14
    <3>1. s \in Seq(Nat) /\ Len(s) >= 2 /\ n \in Nat
      OBVIOUS
    <3>2. s[1] = 254 /\ s[2] = 128
      OBVIOUS
    <3> HIDE DEF s, n
    <3>3. Padded(s, n)[1] = s[1] /\ Padded(s, n)[2] = s[2]
      BY <3>1, FirstTwo
    <3> QED
      BY <3>2, <3>3 DEF s, n
  <2>2. Hit(F, 10) <=> b[1] = F[1] /\ b[2] \div 64 = F[2] \div 64
    BY <1>15, SMT
  <2> DEFINE x == b[2]
             y == F[2] \div 64
  <2>3. x \in 0 .. 255
    OBVIOUS
  <2>4. y = 2
    BY <2>1
  <2> HIDE DEF F, x, y
  <2>5. x \div 64 = 2 <=> x \in 128 .. 191
    BY <2>3, UpperBits
  <2>6. Hit(F, 10) <=> b[1] = F[1] /\ x \div 64 = y
    BY <2>2, Zenon DEF x, y
  <2> QED
    BY <2>1, <2>4, <2>5, <2>6, Zenon DEF x
<1>7. (\E block \in kIpv6Blocks : inBlock(b, block[1], block[2]))
        <=> Hit(Zeros(16), 128) \/ Hit(B, 128) \/ Hit(C, 96) \/ Hit(D, 16) \/ Hit(E, 7)
            \/ Hit(F, 10)
  <2> DEFINE Strike(block) == inBlock(b, block[1], block[2])
  <2>1. \A base, bits : Strike(<<base, bits>>) <=> Hit(base, bits)
    BY DEF Hit
  <2> HIDE DEF Strike
  <2>2. (\E block \in kIpv6Blocks : Strike(block))
          <=> \/ Strike(<<Zeros(16), 128>>) \/ Strike(<<B, 128>>) \/ Strike(<<C, 96>>)
              \/ Strike(<<D, 16>>) \/ Strike(<<E, 7>>) \/ Strike(<<F, 10>>)
    BY DEF kIpv6Blocks, Padded
  <2> HIDE DEF B, C, D, E, F
  <2>3. (\E block \in kIpv6Blocks : Strike(block))
          <=> Hit(Zeros(16), 128) \/ Hit(B, 128) \/ Hit(C, 96) \/ Hit(D, 16) \/ Hit(E, 7)
              \/ Hit(F, 10)
    BY <2>1, <2>2
  <2> QED
    BY <2>3 DEF Strike
<1> HIDE DEF B, C, D, E, F
<1> QED
  BY <1>1, <1>2, <1>3, <1>4, <1>5, <1>6, <1>7, Zenon DEF RefusedBytes

\* The groups of the addresses of which the masks refuse the bytes.
LEMMA RefusedGroups ==
  ASSUME NEW g, NEW b, Sixteen(g, b)
  PROVE  RefusedBytes(b) <=> NotOpenV6(g)
<1>1. /\ g[1] = 0 <=> b[1] = 0 /\ b[2] = 0
      /\ g[1] = 100 <=> b[1] = 0 /\ b[2] = 100
      /\ g[1] = 8194 <=> b[1] = 32 /\ b[2] = 2
      /\ 64512 <= g[1] /\ g[1] <= 65023 <=> b[1] \in {252, 253}
      /\ 65152 <= g[1] /\ g[1] <= 65215 <=> b[1] = 254 /\ b[2] \in 128 .. 191
  <2> DEFINE n == g[1]
             x == b[1]
             y == b[2]
  <2>1. x \in 0 .. 255 /\ y \in 0 .. 255 /\ n = (256 * x) + y
    BY SMT DEF Sixteen
  <2> HIDE DEF n, x, y
  <2>2. /\ n = 0 <=> x = 0 /\ y = 0
        /\ n = 100 <=> x = 0 /\ y = 100
        /\ n = 8194 <=> x = 32 /\ y = 2
        /\ 64512 <= n /\ n <= 65023 <=> x \in {252, 253}
        /\ 65152 <= n /\ n <= 65215 <=> x = 254 /\ y \in 128 .. 191
    BY <2>1, SMT
  <2> QED
    BY <2>2, SMT DEF n, x, y
<1>2. /\ g[2] = 0 <=> b[3] = 0 /\ b[4] = 0
      /\ g[2] = 65435 <=> b[3] = 255 /\ b[4] = 155
  <2> DEFINE n == g[2]
             x == b[3]
             y == b[4]
  <2>1. x \in 0 .. 255 /\ y \in 0 .. 255 /\ n = (256 * x) + y
    BY SMT DEF Sixteen
  <2> HIDE DEF n, x, y
  <2>2. /\ n = 0 <=> x = 0 /\ y = 0
        /\ n = 65435 <=> x = 255 /\ y = 155
    BY <2>1, SMT
  <2> QED
    BY <2>2, SMT DEF n, x, y
<1>3. g[3] = 0 <=> b[5] = 0 /\ b[6] = 0
  <2> DEFINE n == g[3]
             x == b[5]
             y == b[6]
  <2>1. x \in 0 .. 255 /\ y \in 0 .. 255 /\ n = (256 * x) + y
    BY SMT DEF Sixteen
  <2> HIDE DEF n, x, y
  <2>2. n = 0 <=> x = 0 /\ y = 0
    BY <2>1, SMT
  <2> QED
    BY <2>2, SMT DEF n, x, y
<1>4. g[4] = 0 <=> b[7] = 0 /\ b[8] = 0
  <2> DEFINE n == g[4]
             x == b[7]
             y == b[8]
  <2>1. x \in 0 .. 255 /\ y \in 0 .. 255 /\ n = (256 * x) + y
    BY SMT DEF Sixteen
  <2> HIDE DEF n, x, y
  <2>2. n = 0 <=> x = 0 /\ y = 0
    BY <2>1, SMT
  <2> QED
    BY <2>2, SMT DEF n, x, y
<1>5. g[5] = 0 <=> b[9] = 0 /\ b[10] = 0
  <2> DEFINE n == g[5]
             x == b[9]
             y == b[10]
  <2>1. x \in 0 .. 255 /\ y \in 0 .. 255 /\ n = (256 * x) + y
    BY SMT DEF Sixteen
  <2> HIDE DEF n, x, y
  <2>2. n = 0 <=> x = 0 /\ y = 0
    BY <2>1, SMT
  <2> QED
    BY <2>2, SMT DEF n, x, y
<1>6. g[6] = 0 <=> b[11] = 0 /\ b[12] = 0
  <2> DEFINE n == g[6]
             x == b[11]
             y == b[12]
  <2>1. x \in 0 .. 255 /\ y \in 0 .. 255 /\ n = (256 * x) + y
    BY SMT DEF Sixteen
  <2> HIDE DEF n, x, y
  <2>2. n = 0 <=> x = 0 /\ y = 0
    BY <2>1, SMT
  <2> QED
    BY <2>2, SMT DEF n, x, y
<1>7. g[7] = 0 <=> b[13] = 0 /\ b[14] = 0
  <2> DEFINE n == g[7]
             x == b[13]
             y == b[14]
  <2>1. x \in 0 .. 255 /\ y \in 0 .. 255 /\ n = (256 * x) + y
    BY SMT DEF Sixteen
  <2> HIDE DEF n, x, y
  <2>2. n = 0 <=> x = 0 /\ y = 0
    BY <2>1, SMT
  <2> QED
    BY <2>2, SMT DEF n, x, y
<1>8. /\ g[8] = 0 <=> b[15] = 0 /\ b[16] = 0
      /\ g[8] = 1 <=> b[15] = 0 /\ b[16] = 1
  <2> DEFINE n == g[8]
             x == b[15]
             y == b[16]
  <2>1. x \in 0 .. 255 /\ y \in 0 .. 255 /\ n = (256 * x) + y
    BY SMT DEF Sixteen
  <2> HIDE DEF n, x, y
  <2>2. /\ n = 0 <=> x = 0 /\ y = 0
        /\ n = 1 <=> x = 0 /\ y = 1
    BY <2>1, SMT
  <2> QED
    BY <2>2, SMT DEF n, x, y
<1>9. (\A k \in 1 .. 16 : b[k] = 0) \/ ((\A k \in 1 .. 15 : b[k] = 0) /\ b[16] = 1)
        <=> (\A i \in 1 .. 7 : g[i] = 0) /\ g[8] \in {0, 1}
  <2>1. (\A i \in 1 .. 7 : g[i] = 0) <=> \A k \in 1 .. 14 : b[k] = 0
    <3>1. (\A i \in 1 .. 7 : g[i] = 0) <=> /\ g[1] = 0 /\ g[2] = 0 /\ g[3] = 0 /\ g[4] = 0
                                           /\ g[5] = 0 /\ g[6] = 0 /\ g[7] = 0
      BY SMT
    <3>2. (\A k \in 1 .. 14 : b[k] = 0)
            <=> /\ b[1] = 0 /\ b[2] = 0 /\ b[3] = 0 /\ b[4] = 0 /\ b[5] = 0 /\ b[6] = 0
                /\ b[7] = 0 /\ b[8] = 0 /\ b[9] = 0 /\ b[10] = 0 /\ b[11] = 0 /\ b[12] = 0
                /\ b[13] = 0 /\ b[14] = 0
      BY SMT
    <3> QED
      BY <1>1, <1>2, <1>3, <1>4, <1>5, <1>6, <1>7, <3>1, <3>2, SMT
  <2>2. /\ (\A k \in 1 .. 16 : b[k] = 0) <=> (\A k \in 1 .. 14 : b[k] = 0) /\ b[15] = 0 /\ b[16] = 0
        /\ (\A k \in 1 .. 15 : b[k] = 0) <=> (\A k \in 1 .. 14 : b[k] = 0) /\ b[15] = 0
    BY SMT
  <2> QED
    BY <1>8, <2>1, <2>2, SMT
<1>10. b[1] = 0 /\ b[2] = 100 /\ b[3] = 255 /\ b[4] = 155 /\ (\A k \in 5 .. 12 : b[k] = 0)
         <=> g[1] = 100 /\ g[2] = 65435 /\ \A i \in 3 .. 6 : g[i] = 0
  <2>1. (\A i \in 3 .. 6 : g[i] = 0) <=> g[3] = 0 /\ g[4] = 0 /\ g[5] = 0 /\ g[6] = 0
    BY SMT
  <2>2. (\A k \in 5 .. 12 : b[k] = 0)
          <=> /\ b[5] = 0 /\ b[6] = 0 /\ b[7] = 0 /\ b[8] = 0 /\ b[9] = 0 /\ b[10] = 0
              /\ b[11] = 0 /\ b[12] = 0
    BY SMT
  <2> QED
    BY <1>1, <1>2, <1>3, <1>4, <1>5, <1>6, <2>1, <2>2, SMT
<1> QED
  BY <1>1, <1>9, <1>10, SMT DEF RefusedBytes, NotOpenV6

\* A function on the first numbers is a sequence, and its first places are one.
LEMMA FunctionIsSeq ==
  ASSUME NEW S, NEW n \in Nat, NEW f \in [1 .. n -> S]
  PROVE  f \in Seq(S) /\ Len(f) = n
OBVIOUS

\* The first places of a sequence.
LEMMA FirstPlaces ==
  ASSUME NEW S, NEW f \in Seq(S), NEW m \in 0 .. Len(f)
  PROVE  SubSeq(f, 1, m) \in [1 .. m -> S] /\ \A i \in 1 .. m : SubSeq(f, 1, m)[i] = f[i]
<1> DEFINE s == SubSeq(f, 1, m)
<1>1. s \in Seq(S) /\ Len(s) = m
  OBVIOUS
<1>2. \A i \in 1 .. m : s[i] = f[i]
  OBVIOUS
<1> HIDE DEF s
<1>3. s \in [1 .. m -> S]
  BY <1>1
<1> QED
  BY <1>2, <1>3 DEF s

\* A sequence of two.
LEMMA TwoPlaces ==
  ASSUME NEW s \in Seq(Nat), Len(s) = 2
  PROVE  s = <<s[1], s[2]>>
OBVIOUS

\* The masks refuse exactly the IPv6 addresses of the listed blocks; an IPv4-mapped one is
\* refused when its IPv4 address is.
THEOREM BlocksV6 ==
  ASSUME NEW g, IsGroups(g)
  PROVE  BlockedV6(Bytes(g)) <=>
           IF SubSeq(g, 1, 6) = <<0, 0, 0, 0, 0, 65535>>
           THEN Within(<<g[7] \div 256, g[7] % 256>>, RangesV4) ELSE Within(g, RangesV6)
<1> DEFINE b == Bytes(g)
           mapped == SubSeq(g, 1, 6) = <<0, 0, 0, 0, 0, 65535>>
           last == SubSeq(b, 13, 16)
<1>1. Sixteen(g, b)
  BY SixteenBytes
<1>2. mapped <=> (\A i \in 1 .. 5 : g[i] = 0) /\ g[6] = 65535
  <2>1. g \in [1 .. 8 -> Nat]
    BY SMT DEF IsGroups, IsAddress
  <2>2. g \in Seq(Nat) /\ Len(g) = 8
    <3> DEFINE n == 8
    <3>1. n \in Nat /\ g \in [1 .. n -> Nat]
      BY <2>1, SMT
    <3> HIDE DEF n
    <3>2. g \in Seq(Nat) /\ Len(g) = n
      BY <3>1, FunctionIsSeq, SMT
    <3> QED
      BY <3>2, SMT DEF n
  <2> DEFINE t == <<0, 0, 0, 0, 0, 65535>>
             s == SubSeq(g, 1, 6)
  <2>4. t \in [1 .. 6 -> Nat] /\ (\A i \in 1 .. 5 : t[i] = 0) /\ t[6] = 65535
    BY SMT
  <2>5. s \in [1 .. 6 -> Nat] /\ \A i \in 1 .. 6 : s[i] = g[i]
    <3> DEFINE n == 6
    <3>1. n \in 0 .. Len(g)
      BY <2>2, SMT
    <3> HIDE DEF n
    <3>2. SubSeq(g, 1, n) \in [1 .. n -> Nat] /\ \A i \in 1 .. n : SubSeq(g, 1, n)[i] = g[i]
      <4>1. g \in Seq(Nat)
        BY <2>2, SMT
      <4> QED
        BY <3>1, <4>1, FirstPlaces, SMT
    <3> QED
      BY <3>2, Zenon DEF n
  <2> HIDE DEF s, t
  <2>6. s = t <=> \A i \in 1 .. 6 : s[i] = t[i]
    BY <2>4, <2>5, SMT
  <2>7. (\A i \in 1 .. 6 : s[i] = t[i]) <=> (\A i \in 1 .. 5 : s[i] = t[i]) /\ s[6] = t[6]
    BY SMT
  <2>8. (\A i \in 1 .. 5 : s[i] = t[i]) <=> \A i \in 1 .. 5 : g[i] = 0
    BY <2>4, <2>5, SMT
  <2>9. s[6] = t[6] <=> g[6] = 65535
    BY <2>4, <2>5, SMT
  <2>10. s = t <=> (\A i \in 1 .. 5 : g[i] = 0) /\ g[6] = 65535
    BY <2>6, <2>7, <2>8, <2>9, SMT
  <2> QED
    BY <2>10, SMT DEF s, t
<1>3. IsV4Mapped(b) <=> mapped
  <2> HIDE DEF mapped, b
  <2> QED
    BY <1>1, <1>2, MappedGroups, SMT
<1>4. last[1] = g[7] \div 256 /\ last[2] = g[7] % 256
  <2>1. b \in Seq(Nat) /\ Len(b) = 16
    <3>1. b = [i \in 1 .. 16 |-> b[i]]
      BY SMT DEF Bytes
    <3> HIDE DEF b
    <3>2. \A i \in 1 .. 16 : b[i] \in Nat
      <4>1. \A i \in 1 .. 16 : b[i] \in 0 .. 255
        BY <1>1, SMT DEF Sixteen
      <4>2. ASSUME NEW i \in 1 .. 16 PROVE b[i] \in Nat
        <5>1. b[i] \in 0 .. 255
          BY <4>1, Zenon
        <5> QED
          BY <5>1, SMT
      <4> QED
        BY <4>2, Zenon
    <3>3. b \in [1 .. 16 -> Nat]
      BY <3>1, <3>2, SMT
    <3> QED
      <4> DEFINE n == 16
      <4>1. n \in Nat /\ b \in [1 .. n -> Nat]
        BY <3>3, SMT
      <4> HIDE DEF n
      <4>2. b \in Seq(Nat) /\ Len(b) = n
        BY <4>1, FunctionIsSeq, SMT
      <4> QED
        BY <4>2, SMT DEF n
  <2>2. b[13] = g[7] \div 256 /\ b[14] = g[7] % 256
    BY SMT DEF Bytes
  <2> HIDE DEF b
  <2>3. last[1] = b[13] /\ last[2] = b[14]
    BY <2>1, SMT
  <2> HIDE DEF last
  <2> QED
    BY <2>2, <2>3, SMT
<1>5. last[1] \in 0 .. 255 /\ last[2] \in 0 .. 255
  <2> DEFINE n == g[7]
             x == b[13]
             y == b[14]
  <2>1. x \in 0 .. 255 /\ y \in 0 .. 255 /\ n = (256 * x) + y
    BY <1>1, SMT DEF Sixteen
  <2> HIDE DEF n, x, y
  <2>2. n \div 256 = x /\ n % 256 = y
    BY <2>1, SMT
  <2>3. last[1] = n \div 256 /\ last[2] = n % 256
    BY <1>4, SMT DEF n
  <2> HIDE DEF last
  <2> QED
    BY <2>1, <2>2, <2>3, SMT
<1>6. BlockedV4(last) <=> Within(<<g[7] \div 256, g[7] % 256>>, RangesV4)
  <2> HIDE DEF last
  <2>1. BlockedV4(last) <=> Within(<<last[1], last[2]>>, RangesV4)
    BY <1>5, BlocksV4, SMT
  <2>2. <<last[1], last[2]>> = <<g[7] \div 256, g[7] % 256>>
    BY <1>4, SMT
  <2> QED
    BY <2>1, <2>2, SMT
<1>7. (\E block \in kIpv6Blocks : inBlock(b, block[1], block[2])) <=> Within(g, RangesV6)
  <2>1. \A i \in 1 .. 16 : b[i] \in 0 .. 255
    BY <1>1, SMT DEF Sixteen
  <2> HIDE DEF b
  <2>2. (\E block \in kIpv6Blocks : inBlock(b, block[1], block[2])) <=> RefusedBytes(b)
    BY <2>1, MasksV6, SMT
  <2>3. RefusedBytes(b) <=> NotOpenV6(g)
    BY <1>1, RefusedGroups, SMT
  <2>4. Within(g, RangesV6) <=> NotOpenV6(g)
    BY RangesOfV6, SMT
  <2> QED
    BY <2>2, <2>3, <2>4, SMT
<1>8. BlockedV6(b) <=> IF IsV4Mapped(b) THEN BlockedV4(last)
                       ELSE \E block \in kIpv6Blocks : inBlock(b, block[1], block[2])
  BY SMT DEF BlockedV6
<1> HIDE DEF b, mapped, last
<1>9. BlockedV6(b) <=> IF mapped THEN Within(<<g[7] \div 256, g[7] % 256>>, RangesV4)
                       ELSE Within(g, RangesV6)
  BY <1>3, <1>6, <1>7, <1>8, SMT
<1> QED
  BY <1>9, SMT DEF b, mapped

\* What the action that asks about an address asks.
LEMMA AsksBlocks ==
  ASSUME [Next]_q, q' # q
  PROVE  BlocksAreRanges'
<1>1. ASSUME q'.kind = "v4"
      PROVE  BlockedV4(q'.bytes) <=> Within(SubSeq(q'.bytes, 1, 2), RangesV4)
  <2>1. AskV4
    BY <1>1, WhoAsks
  <2>2. PICK a \in FirstBytes, b \in SecondBytes, c \in {0, 255} :
          q' = [kind |-> "v4", bytes |-> <<a, b, c, c>>]
    BY <2>1, SMT DEF AskV4, Ask
  <2>3. a \in 0 .. 255 /\ b \in 0 .. 255
    BY SMT DEF FirstBytes, SecondBytes
  <2> DEFINE bytes == <<a, b, c, c>>
             two == SubSeq(bytes, 1, 2)
  <2>4. q'.bytes = bytes
    BY <2>2, SMT
  <2>5. bytes[1] = a /\ bytes[2] = b /\ bytes \in Seq(Nat) /\ Len(bytes) = 4
    BY <2>3, SMT
  <2> HIDE DEF bytes
  <2>6. two \in Seq(Nat) /\ Len(two) = 2 /\ two[1] = bytes[1] /\ two[2] = bytes[2]
    BY <2>5, SMT
  <2> HIDE DEF two
  <2>7. two = <<bytes[1], bytes[2]>>
    <3>1. two = <<two[1], two[2]>>
      BY <2>6, TwoPlaces
    <3> QED
      BY <2>6, <3>1, Zenon
  <2>8. bytes[1] \in 0 .. 255 /\ bytes[2] \in 0 .. 255
    BY <2>3, <2>5, Zenon
  <2>9. BlockedV4(bytes) <=> Within(<<bytes[1], bytes[2]>>, RangesV4)
    BY <2>8, BlocksV4, SMT
  <2> QED
    BY <2>4, <2>7, <2>9, Zenon DEF two
<1>2. ASSUME q'.kind = "v6"
      PROVE  LET mapped == SubSeq(q'.groups, 1, 6) = <<0, 0, 0, 0, 0, 65535>>
                 high == <<q'.groups[7] \div 256, q'.groups[7] % 256>>
             IN BlockedV6(Bytes(q'.groups)) <=>
                  IF mapped THEN Within(high, RangesV4) ELSE Within(q'.groups, RangesV6)
  <2>1. AskV6
    BY <1>2, WhoAsks
  <2>2. PICK a \in FirstGroups, b \in SecondGroups, c \in {0, 1}, d \in Extremes,
             e \in LastGroups, f \in LastGroups :
          q' = [kind |-> "v6", groups |-> <<a, b, c, c, c, d, e, f>>]
    BY <2>1, Zenon DEF AskV6, Ask
  <2>3. \A x \in FirstGroups \cup SecondGroups \cup {0, 1} \cup Extremes \cup LastGroups :
          x \in Nat /\ x <= 65535
    BY SMT DEF FirstGroups, SecondGroups, Extremes, LastGroups
  <2> DEFINE groups == <<a, b, c, c, c, d, e, f>>
  <2>5. IsGroups(groups)
    <3>1. /\ a \in Nat /\ b \in Nat /\ c \in Nat /\ d \in Nat /\ e \in Nat /\ f \in Nat
          /\ a <= 65535 /\ b <= 65535 /\ c <= 65535 /\ d <= 65535 /\ e <= 65535 /\ f <= 65535
      BY <2>3, SMT
    <3>2. groups \in [1 .. 8 -> Nat]
      BY <3>1, SMT
    <3>3. \A i \in 1 .. 8 : groups[i] <= 65535
      BY <3>1, SMT
    <3> QED
      BY <3>2, <3>3, SMT DEF IsGroups, IsAddress
  <2>6. q'.groups = groups
    BY <2>2, SMT
  <2> HIDE DEF groups
  <2> QED
    BY <2>5, <2>6, BlocksV6, SMT
<1> QED
  BY <1>1, <1>2, SMT DEF BlocksAreRanges

(* The spellings of an address. *)

\* A number has at least one digit and at most as many as are counted.
LEMMA DigitsAre ==
  ASSUME NEW n \in Nat, NEW base \in Nat
  PROVE  Digits(n, base) \in 1 .. 4 /\ (base = 10 /\ n <= 255 => Digits(n, base) \in 1 .. 3)
<1> DEFINE D == {k \in 1 .. 3 : n >= base ^ k}
<1>1. ASSUME NEW m \in Nat, D \subseteq 1 .. m
      PROVE  IsFiniteSet(D) /\ Cardinality(D) \in Nat /\ Cardinality(D) <= m
  <2> HIDE DEF D
  <2>1. IsFiniteSet(1 .. m) /\ Cardinality(1 .. m) = m
    BY FS_Interval
  <2> QED
    BY <1>1, <2>1, FS_Subset, FS_CardinalityType
<1>2. Cardinality(D) \in Nat /\ Cardinality(D) <= 3
  <2> DEFINE m == 3
  <2>1. m \in Nat /\ D \subseteq 1 .. m
    OBVIOUS
  <2> HIDE DEF D, m
  <2>2. Cardinality(D) \in Nat /\ Cardinality(D) <= m
    BY <1>1, <2>1
  <2> QED
    BY <2>2 DEF m
<1>3. ASSUME base = 10, n <= 255 PROVE Cardinality(D) <= 2
  <2> DEFINE m == 2
  <2>1. 3 \notin D
    BY <1>3
  <2>2. m \in Nat /\ D \subseteq 1 .. m
    BY <2>1
  <2> HIDE DEF D, m
  <2>3. Cardinality(D) <= m
    BY <1>1, <2>2
  <2> QED
    BY <2>3 DEF m
<1> QED
  BY <1>2, <1>3 DEF Digits

\* What the parser of a group accepts.
GroupText == (1 .. 4) \X Nat

\* A group is written with one to four digits, which say it.
LEMMA HexTextIs ==
  ASSUME NEW n \in Nat, NEW padded \in BOOLEAN
  PROVE  HexText(n, padded) \in GroupText /\ HexText(n, padded)[2] = n
<1>1. 16 \in Nat
  OBVIOUS
<1>2. Digits(n, 16) \in 1 .. 4
  BY <1>1, DigitsAre
<1> QED
  BY <1>2 DEF HexText, GroupText

\* A byte of a dotted address is written as a byte, which says it.
LEMMA DotTextIs ==
  ASSUME NEW n \in Nat, n <= 255
  PROVE  IsByteText(DotText(n)) /\ DotText(n)[2] = n
<1> DEFINE ten == 10
<1>1. ten \in Nat /\ ten = 10
  OBVIOUS
<1> HIDE DEF ten
<1>2. Digits(n, ten) \in 1 .. 3
  BY <1>1, DigitsAre
<1> QED
  BY <1>2 DEF DotText, IsByteText, ten

\* A text of groups says those of g that follow the first o.
Says(s, o, g) == s \in Seq(GroupText) /\ \A i \in 1 .. Len(s) : s[i][2] = g[o + i]

\* Two texts that say consecutive groups say them joined as well.
LEMMA SaysJoined ==
  ASSUME NEW g, NEW o \in Nat, NEW p, NEW s, NEW t, Says(s, o, g), p = o + Len(s), Says(t, p, g)
  PROVE  Says(s \o t, o, g) /\ Len(s \o t) = Len(s) + Len(t)
<1>1. s \in Seq(GroupText) /\ t \in Seq(GroupText)
  BY DEF Says
<1>2. s \o t \in Seq(GroupText) /\ Len(s \o t) = Len(s) + Len(t)
  BY <1>1
<1>3. ASSUME NEW i \in 1 .. Len(s \o t) PROVE (s \o t)[i][2] = g[o + i]
  <2>1. Len(s) \in Nat /\ Len(t) \in Nat
    BY <1>1
  <2>2. CASE i <= Len(s)
    <3>1. (s \o t)[i] = s[i] /\ i \in 1 .. Len(s)
      BY <1>1, <1>2, <2>1, <2>2
    <3> QED
      BY <3>1 DEF Says
  <2>3. CASE i > Len(s)
    <3>1. (s \o t)[i] = t[i - Len(s)] /\ i - Len(s) \in 1 .. Len(t)
      BY <1>1, <1>2, <2>1, <2>3
    <3>2. t[i - Len(s)][2] = g[p + (i - Len(s))]
      BY <3>1 DEF Says
    <3>3. p + (i - Len(s)) = o + i
      BY <2>1
    <3> QED
      BY <3>1, <3>2, <3>3
  <2> QED
    BY <1>2, <2>1, <2>2, <2>3
<1> QED
  BY <1>2, <1>3 DEF Says

\* Zeros say groups that are zero.
ZeroTexts(m) == [i \in 1 .. m |-> <<1, 0>>]

\* The zeros that stand for a gap say groups that are zero.
LEMMA ZerosSay ==
  ASSUME NEW g, NEW o \in Nat, NEW m \in Nat, \A i \in 1 .. m : g[o + i] = 0
  PROVE  Says(ZeroTexts(m), o, g) /\ Len(ZeroTexts(m)) = m
<1> DEFINE s == ZeroTexts(m)
<1>1. s \in [1 .. m -> GroupText] /\ \A i \in 1 .. m : s[i][2] = 0
  BY DEF GroupText, ZeroTexts
<1> HIDE DEF s
<1>2. s \in Seq(GroupText) /\ Len(s) = m
  BY <1>1, FunctionIsSeq
<1>3. Says(s, o, g) /\ Len(s) = m
  BY <1>1, <1>2 DEF Says
<1> QED
  BY <1>3 DEF s

\* The text of some groups says them.
HexTexts(s, padded) == [i \in DOMAIN s |-> HexText(s[i], padded)]

\* Groups written one behind the other say themselves.
LEMMA TextSays ==
  ASSUME NEW g \in Seq(Nat), NEW a \in Nat \ {0}, NEW b \in Nat, a <= b + 1, b <= Len(g),
         NEW padded \in BOOLEAN
  PROVE  LET s == HexTexts(SubSeq(g, a, b), padded) IN Says(s, a - 1, g) /\ Len(s) = b - a + 1
<1> DEFINE part == SubSeq(g, a, b)
           s == HexTexts(part, padded)
           m == b - a + 1
<1>1. m \in Nat
  OBVIOUS
<1>2. part \in Seq(Nat) /\ Len(part) = m
  OBVIOUS
<1>3. \A i \in 1 .. m : part[i] = g[(a - 1) + i]
  OBVIOUS
<1> HIDE DEF m, part
<1>4. \A i \in 1 .. m : part[i] \in Nat
  BY <1>1, <1>2
<1>5. s = [i \in 1 .. m |-> HexText(part[i], padded)]
  BY <1>2 DEF HexTexts
<1>6. \A i \in 1 .. m : /\ HexText(part[i], padded) \in GroupText
                       /\ HexText(part[i], padded)[2] = part[i]
  BY <1>4, HexTextIs
<1> HIDE DEF s
<1>7. s \in [1 .. m -> GroupText] /\ \A i \in 1 .. m : s[i][2] = part[i]
  BY <1>5, <1>6
<1>8. s \in Seq(GroupText) /\ Len(s) = m
  BY <1>1, <1>7, FunctionIsSeq
<1>9. Says(s, a - 1, g)
  BY <1>3, <1>7, <1>8 DEF Says
<1> QED
  BY <1>8, <1>9 DEF s, part, m

\* A sequence behind another one.
LEMMA Joined ==
  ASSUME NEW S, NEW s \in Seq(S), NEW t \in Seq(S)
  PROVE  /\ s \o t \in Seq(S) /\ Len(s \o t) = Len(s) + Len(t)
         /\ \A i \in 1 .. Len(s) + Len(t) :
              (s \o t)[i] = IF i <= Len(s) THEN s[i] ELSE t[i - Len(s)]
OBVIOUS

\* Two pairs, one behind the other.
LEMMA TwoPairs ==
  ASSUME NEW S, NEW s \in Seq(S), NEW t \in Seq(S), Len(s) = 2, Len(t) = 2
  PROVE  /\ Len(s \o t) = 4
         /\ (s \o t)[1] = s[1] /\ (s \o t)[2] = s[2] /\ (s \o t)[3] = t[1] /\ (s \o t)[4] = t[2]
<1> DEFINE u == s \o t
<1>1. Len(u) = Len(s) + Len(t)
  BY Joined
<1>2. \A i \in 1 .. Len(s) + Len(t) : u[i] = IF i <= Len(s) THEN s[i] ELSE t[i - Len(s)]
  BY Joined
<1> HIDE DEF u
<1>3. Len(u) = 4
  BY <1>1
<1>4. \A i \in 1 .. Len(s) + Len(t) : i \in 1 .. 2 => u[i] = s[i]
  BY <1>2
<1>5. \A i \in 1 .. Len(s) + Len(t) : i \in 3 .. 4 => u[i] = t[i - 2]
  BY <1>2
<1>6. u[1] = s[1] /\ u[2] = s[2]
  BY <1>4
<1>7. u[3] = t[1] /\ u[4] = t[2]
  BY <1>5
<1> QED
  BY <1>3, <1>6, <1>7 DEF u

\* Four numbers between dots say the last two groups.
LowText(n) == <<DotText(n \div 256), DotText(n % 256)>>

\* A dotted end says the last two groups.
LEMMA QuadSays ==
  ASSUME NEW g, IsGroups(g), NEW text, text.quad = LowText(g[7]) \o LowText(g[8])
  PROVE  /\ parseIpv4(text.quad) /\ text.quad # <<>>
         /\ Says(Mixed(text), 6, g) /\ Len(Mixed(text)) = 2
<1>1. ASSUME NEW n \in Nat, n <= 65535
      PROVE  /\ n \div 256 \in Nat /\ n \div 256 <= 255 /\ n % 256 \in Nat /\ n % 256 <= 255
             /\ ((n \div 256) * 256) + (n % 256) = n
  BY <1>1, SMT
<1>2. g[7] \in Nat /\ g[7] <= 65535 /\ g[8] \in Nat /\ g[8] <= 65535
  BY SMT DEF IsGroups, IsAddress
<1> DEFINE a == g[7] \div 256
           b == g[7] % 256
           c == g[8] \div 256
           d == g[8] % 256
<1>3. /\ a \in Nat /\ a <= 255 /\ b \in Nat /\ b <= 255 /\ c \in Nat /\ c <= 255
      /\ d \in Nat /\ d <= 255 /\ (a * 256) + b = g[7] /\ (c * 256) + d = g[8]
  <2> DEFINE x == g[7]
             y == g[8]
  <2>1. x \in Nat /\ x <= 65535 /\ y \in Nat /\ y <= 65535
    BY <1>2, SMT
  <2> HIDE DEF x, y
  <2>2. /\ x \div 256 \in Nat /\ x \div 256 <= 255 /\ x % 256 \in Nat /\ x % 256 <= 255
        /\ ((x \div 256) * 256) + (x % 256) = x
        /\ y \div 256 \in Nat /\ y \div 256 <= 255 /\ y % 256 \in Nat /\ y % 256 <= 255
        /\ ((y \div 256) * 256) + (y % 256) = y
    BY <1>1, <2>1, SMT
  <2> QED
    BY <2>2, Zenon DEF x, y
<1> DEFINE A == DotText(a)
           B == DotText(b)
           C == DotText(c)
           D == DotText(d)
<1>4. text.quad = <<A, B>> \o <<C, D>>
  BY Zenon DEF LowText
<1> HIDE DEF a, b, c, d
<1>5. /\ IsByteText(A) /\ IsByteText(B) /\ IsByteText(C) /\ IsByteText(D)
      /\ A[2] = a /\ B[2] = b /\ C[2] = c /\ D[2] = d
  BY <1>3, DotTextIs, SMT
<1> HIDE DEF A, B, C, D
<1>6. /\ Len(text.quad) = 4 /\ text.quad[1] = A /\ text.quad[2] = B /\ text.quad[3] = C
      /\ text.quad[4] = D
  <2> DEFINE s == <<A, B>>
             t == <<C, D>>
             S == {A, B, C, D}
  <2>1. s \in Seq(S) /\ t \in Seq(S) /\ Len(s) = 2 /\ Len(t) = 2
    OBVIOUS
  <2>2. s[1] = A /\ s[2] = B /\ t[1] = C /\ t[2] = D
    OBVIOUS
  <2> HIDE DEF s, t, S
  <2>3. /\ Len(s \o t) = 4
        /\ (s \o t)[1] = s[1] /\ (s \o t)[2] = s[2] /\ (s \o t)[3] = t[1] /\ (s \o t)[4] = t[2]
    BY <2>1, TwoPairs
  <2>4. text.quad = s \o t
    BY <1>4, Zenon DEF s, t
  <2> QED
    BY <2>2, <2>3, <2>4, Zenon
<1>7. parseIpv4(text.quad) /\ text.quad # <<>>
  <2>1. \A i \in 1 .. 4 : IsByteText(text.quad[i])
    BY <1>5, <1>6
  <2>2. text.quad # <<>>
    BY <1>6
  <2> QED
    BY <1>6, <2>1, <2>2 DEF parseIpv4
<1>8. Mixed(text) = <<<<4, g[7]>>, <<4, g[8]>>>>
  <2>1. Mixed(text) = <<<<4, (A[2] * 256) + B[2]>>, <<4, (C[2] * 256) + D[2]>>>>
    BY <1>6, <1>7, SMT DEF Mixed
  <2> QED
    BY <1>3, <1>5, <2>1, SMT
<1>9. Says(Mixed(text), 6, g) /\ Len(Mixed(text)) = 2
  <2> DEFINE x == g[7]
             y == g[8]
             s == <<<<4, x>>, <<4, y>>>>
  <2>1. x \in Nat /\ y \in Nat
    BY <1>2
  <2> HIDE DEF x, y
  <2>2. s \in Seq(GroupText) /\ Len(s) = 2 /\ s[1][2] = x /\ s[2][2] = y
    BY <2>1 DEF GroupText
  <2> HIDE DEF s
  <2>3. \A i \in 1 .. 2 : s[i][2] = g[6 + i]
    BY <2>2 DEF x, y
  <2>4. Says(s, 6, g) /\ Len(s) = 2
    BY <2>2, <2>3 DEF Says
  <2> QED
    BY <1>8, <2>4, Zenon DEF s, x, y
<1> QED
  BY <1>7, <1>9

\* A text without :: says the groups one after the other.
LEMMA AssembledWhole ==
  ASSUME NEW g, NEW text, text.gaps = 0, Says(text.head, 0, g),
         Says(Mixed(text), Len(text.head), g), Len(text.head) + Len(Mixed(text)) = 8
  PROVE  Says(Groups(text), 0, g) /\ Len(Groups(text)) = 8
<1> DEFINE head == text.head
           mixed == Mixed(text)
<1>1. Groups(text) = head \o mixed
  BY DEF Groups
<1>2. Len(head) \in Nat
  BY DEF Says
<1>3. Says(head, 0, g) /\ Says(mixed, Len(head), g) /\ Len(head) + Len(mixed) = 8
  OBVIOUS
<1> HIDE DEF head, mixed
<1>4. Len(head) = 0 + Len(head)
  BY <1>2
<1>5. Says(head \o mixed, 0, g) /\ Len(head \o mixed) = Len(head) + Len(mixed)
  BY <1>3, <1>4, SaysJoined
<1> QED
  BY <1>1, <1>3, <1>5

\* The zeros that :: stands for are those between what its two sides say.
LEMMA AssembledAround ==
  ASSUME NEW g, NEW text, text.gaps = 1, NEW o \in Nat, Says(text.head, 0, g),
         Len(text.head) <= o, \A i \in Len(text.head) + 1 .. o : g[i] = 0,
         Says(text.tail, o, g), Says(Mixed(text), o + Len(text.tail), g),
         o + Len(text.tail) + Len(Mixed(text)) = 8
  PROVE  Says(Groups(text), 0, g) /\ Len(Groups(text)) = 8
<1> DEFINE head == text.head
           tail == text.tail
           mixed == Mixed(text)
           both == tail \o mixed
           m == 8 - (Len(head) + Len(both))
           zeros == ZeroTexts(m)
<1>1. Groups(text) = head \o zeros \o both
  BY DEF Groups, ZeroTexts
<1>2. /\ Says(head, 0, g) /\ Len(head) <= o /\ \A i \in Len(head) + 1 .. o : g[i] = 0
      /\ Says(tail, o, g) /\ Says(mixed, o + Len(tail), g) /\ o + Len(tail) + Len(mixed) = 8
  OBVIOUS
<1> HIDE DEF head, tail, mixed
<1>3. Len(head) \in Nat /\ Len(tail) \in Nat /\ Len(mixed) \in Nat
  BY <1>2 DEF Says
<1>4. Says(both, o, g) /\ Len(both) = Len(tail) + Len(mixed)
  BY <1>2, SaysJoined
<1>5. m = o - Len(head) /\ m \in Nat
  BY <1>2, <1>3, <1>4
<1> HIDE DEF both, m
<1>6. \A i \in 1 .. m : g[Len(head) + i] = 0
  <2>1. \A i \in 1 .. m : Len(head) + i \in Len(head) + 1 .. o
    BY <1>3, <1>5, SMT
  <2> QED
    BY <1>2, <2>1, Zenon
<1>7. Says(zeros, Len(head), g) /\ Len(zeros) = m
  BY <1>3, <1>5, <1>6, ZerosSay
<1> HIDE DEF zeros
<1>8. Len(head) = 0 + Len(head)
  BY <1>3
<1>9. Says(head \o zeros, 0, g) /\ Len(head \o zeros) = Len(head) + Len(zeros)
  <2>1. Says(head, 0, g)
    BY <1>2
  <2> QED
    BY <1>7, <1>8, <2>1, SaysJoined
<1> DEFINE front == head \o zeros
<1> HIDE DEF front
<1>10. Says(front, 0, g) /\ Len(front) = o
  BY <1>3, <1>5, <1>7, <1>9 DEF front
<1>11. o = 0 + Len(front)
  BY <1>10
<1>12. Says(front \o both, 0, g) /\ Len(front \o both) = Len(front) + Len(both)
  BY <1>4, <1>10, <1>11, SaysJoined
<1>13. Len(front) + Len(both) = 8
  BY <1>2, <1>3, <1>4, <1>10
<1> QED
  BY <1>1, <1>12, <1>13 DEF front

\* A text is a record of five parts.
TextOfParts(form, head, tail, gaps, quad) ==
  [form |-> form, head |-> head, tail |-> tail, gaps |-> gaps, quad |-> quad]
IsText(text) == text = TextOfParts(text.form, text.head, text.tail, text.gaps, text.quad)

\* The parts of a spelling.
Last6or8(dots) == IF dots THEN 6 ELSE 8
QuadOf(g, dots) == IF dots THEN LowText(g[7]) \o LowText(g[8]) ELSE <<>>

HasParts(text, g, run, dots, padded) ==
  /\ IsText(text)
  /\ text.form = "colons" /\ text.quad = QuadOf(g, dots)
  /\ run = {} => /\ text.gaps = 0 /\ text.tail = <<>>
                 /\ text.head = HexTexts(SubSeq(g, 1, Last6or8(dots)), padded)
  /\ run # {} => /\ text.gaps = 1
                 /\ text.head = HexTexts(SubSeq(g, 1, Min(run) - 1), padded)
                 /\ text.tail = HexTexts(SubSeq(g, Max(run) + 1, Last6or8(dots)), padded)

\* A spelling has the parts its choices ask for.
LEMMA SpellingParts ==
  ASSUME NEW g, NEW run, NEW dots, NEW padded
  PROVE  HasParts(Spelling(g, run, dots, padded), g, run, dots, padded)
<1> DEFINE text == Spelling(g, run, dots, padded)
           last == Last6or8(dots)
           H == SubSeq(g, 1, IF run = {} THEN last ELSE Min(run) - 1)
           T == SubSeq(g, Max(run) + 1, last)
           head == HexTexts(H, padded)
           tail == IF run = {} THEN <<>> ELSE HexTexts(T, padded)
           gaps == IF run = {} THEN 0 ELSE 1
           quad == QuadOf(g, dots)
<1>1. text = [form |-> "colons", head |-> head, tail |-> tail, gaps |-> gaps, quad |-> quad]
  BY Zenon DEF Spelling, HexTexts, LowText, Last6or8, QuadOf
<1> HIDE DEF head, tail, gaps, quad
<1> HIDE DEF text
<1>2. text.form = "colons" /\ text.gaps = gaps /\ text.head = head /\ text.tail = tail
      /\ text.quad = quad
  BY <1>1, SMT
<1>3. IsText(text)
  BY <1>1, <1>2, Zenon DEF IsText, TextOfParts
<1> QED
  BY <1>2, <1>3, Zenon DEF HasParts, text, head, tail, gaps, quad

\* The groups are a sequence.
LEMMA GroupsSeq ==
  ASSUME NEW g, IsGroups(g)
  PROVE  g \in Seq(Nat) /\ Len(g) = 8
<1>1. g \in [1 .. 8 -> Nat]
  BY SMT DEF IsGroups, IsAddress
<1> DEFINE n == 8
<1>2. n \in Nat /\ g \in [1 .. n -> Nat]
  BY <1>1, SMT
<1> HIDE DEF n
<1>3. g \in Seq(Nat) /\ Len(g) = n
  BY <1>2, FunctionIsSeq
<1> QED
  BY <1>3, SMT DEF n

\* The first and the last number of a run.
LEMMA RunEnds ==
  ASSUME NEW a \in Nat, NEW b \in Nat, a <= b
  PROVE  Min(a .. b) = a /\ Max(a .. b) = b /\ a .. b # {}
<1>1. a \in a .. b /\ b \in a .. b /\ \A y \in a .. b : a <= y /\ y <= b
  OBVIOUS
<1>2. Min(a .. b) \in a .. b /\ \A y \in a .. b : Min(a .. b) <= y
  <2>1. \E x \in a .. b : \A y \in a .. b : x <= y
    BY <1>1
  <2> QED
    BY <2>1 DEF Min
<1>3. Max(a .. b) \in a .. b /\ \A y \in a .. b : Max(a .. b) >= y
  <2>1. \E x \in a .. b : \A y \in a .. b : x >= y
    BY <1>1
  <2> QED
    BY <2>1 DEF Max
<1> QED
  BY <1>1, <1>2, <1>3

\* What follows the groups between colons.
LEMMA EndSays ==
  ASSUME NEW g, IsGroups(g), NEW dots \in BOOLEAN, NEW text, text.quad = QuadOf(g, dots)
  PROVE  /\ text.quad # <<>> => parseIpv4(text.quad)
         /\ Says(Mixed(text), Last6or8(dots), g)
         /\ Len(Mixed(text)) = 8 - Last6or8(dots)
<1>1. CASE dots
  <2>1. text.quad = LowText(g[7]) \o LowText(g[8])
    BY <1>1, Zenon DEF QuadOf
  <2>2. parseIpv4(text.quad) /\ Says(Mixed(text), 6, g) /\ Len(Mixed(text)) = 2
    BY <2>1, QuadSays, Zenon
  <2>3. Last6or8(dots) = 6 /\ 8 - Last6or8(dots) = 2
    BY <1>1, SMT DEF Last6or8
  <2> QED
    BY <2>2, <2>3, Zenon
<1>2. CASE ~dots
  <2>1. text.quad = <<>>
    BY <1>2, Zenon DEF QuadOf
  <2>2. Mixed(text) = <<>>
    BY <2>1, Zenon DEF Mixed
  <2>3. <<>> \in Seq(GroupText) /\ Len(<<>>) = 0 /\ \A i \in 1 .. Len(<<>>) : FALSE
    BY SMT
  <2>4. Says(<<>>, Last6or8(dots), g)
    BY <2>3, Zenon DEF Says
  <2>5. 8 - Last6or8(dots) = 0
    BY <1>2, SMT DEF Last6or8
  <2> QED
    BY <2>1, <2>2, <2>3, <2>4, <2>5, Zenon
<1> QED
  BY <1>1, <1>2, Zenon

\* What is known of a text that says the groups g.
WellSpelt(text, g) ==
  /\ text.form = "colons" /\ text.gaps \in {0, 1}
  /\ text.quad # <<>> => parseIpv4(text.quad)
  /\ text.head \in Seq(GroupText) /\ text.tail \in Seq(GroupText)
  /\ Mixed(text) \in Seq(GroupText)
  /\ Says(Groups(text), 0, g) /\ Len(Groups(text)) = 8

\* A spelling that leaves no zeros out, and one that leaves a run of them out.
LEMMA SpelledWhole ==
  ASSUME NEW g, IsGroups(g), NEW dots \in BOOLEAN, NEW padded \in BOOLEAN, NEW text,
         text = Spelling(g, {}, dots, padded)
  PROVE  WellSpelt(text, g)
<1> DEFINE last == Last6or8(dots)
           part == SubSeq(g, 1, last)
<1>1. g \in Seq(Nat) /\ Len(g) = 8
  BY GroupsSeq, Zenon
<1>2. last \in Nat /\ last <= 8
  BY SMT DEF Last6or8
<1>3. /\ text.form = "colons" /\ text.gaps = 0 /\ text.head = HexTexts(part, padded)
      /\ text.tail = <<>> /\ text.quad = QuadOf(g, dots)
  <2> DEFINE run == {}
  <2>1. HasParts(text, g, run, dots, padded)
    BY SpellingParts, Zenon
  <2>2. run = {}
    BY Zenon
  <2> QED
    BY <2>1, <2>2, Zenon DEF HasParts
<1>4. /\ text.quad # <<>> => parseIpv4(text.quad)
      /\ Says(Mixed(text), last, g) /\ Len(Mixed(text)) = 8 - last
  BY <1>3, EndSays, Zenon
<1> HIDE DEF last
<1>5. Says(text.head, 0, g) /\ Len(text.head) = last
  <2> DEFINE one == 1
             s == HexTexts(SubSeq(g, one, last), padded)
  <2>1. one \in Nat \ {0} /\ one <= last + 1 /\ last <= Len(g) /\ one - 1 = 0
        /\ last - one + 1 = last
    BY <1>1, <1>2, SMT
  <2> HIDE DEF one
  <2>2. Says(HexTexts(SubSeq(g, one, last), padded), one - 1, g)
        /\ Len(HexTexts(SubSeq(g, one, last), padded)) = last - one + 1
    BY <1>1, <1>2, <2>1, TextSays, Zenon
  <2> QED
    BY <1>3, <2>1, <2>2, Zenon DEF one
<1>6. Says(Mixed(text), Len(text.head), g) /\ Len(text.head) + Len(Mixed(text)) = 8
  BY <1>2, <1>4, <1>5, SMT
<1>7. Says(Groups(text), 0, g) /\ Len(Groups(text)) = 8
  BY <1>3, <1>5, <1>6, AssembledWhole, Zenon
<1>8. text.tail \in Seq(GroupText)
  <2>1. <<>> \in Seq(GroupText)
    OBVIOUS
  <2> QED
    BY <1>3, <2>1, Zenon
<1> QED
  BY <1>3, <1>4, <1>5, <1>7, <1>8, Zenon DEF WellSpelt, Says

\* A spelling that leaves out a run of zeros says all groups.
LEMMA SpelledAround ==
  ASSUME NEW g, IsGroups(g), NEW dots \in BOOLEAN, NEW padded \in BOOLEAN, NEW text,
         NEW from \in Nat \ {0}, NEW to \in Nat, from <= to, to <= Last6or8(dots),
         \A i \in from .. to : g[i] = 0, text = Spelling(g, from .. to, dots, padded)
  PROVE  WellSpelt(text, g)
<1> DEFINE last == Last6or8(dots)
           a == from - 1
           b == to + 1
           one == 1
<1>1. g \in Seq(Nat) /\ Len(g) = 8
  BY GroupsSeq, Zenon
<1>2. last \in Nat /\ last <= 8 /\ to <= last
  BY SMT DEF Last6or8
<1>3. Min(from .. to) = from /\ Max(from .. to) = to /\ from .. to # {}
  BY RunEnds
<1>4. /\ text.form = "colons" /\ text.gaps = 1 /\ text.head = HexTexts(SubSeq(g, one, a), padded)
      /\ text.tail = HexTexts(SubSeq(g, b, last), padded) /\ text.quad = QuadOf(g, dots)
  <2> DEFINE run == from .. to
  <2>1. HasParts(text, g, run, dots, padded)
    BY SpellingParts, Zenon
  <2>2. Min(run) = from /\ Max(run) = to /\ run # {}
    BY <1>3, Zenon
  <2> HIDE DEF run
  <2> QED
    BY <2>1, <2>2, Zenon DEF HasParts
<1>5. /\ text.quad # <<>> => parseIpv4(text.quad)
      /\ Says(Mixed(text), last, g) /\ Len(Mixed(text)) = 8 - last
  BY <1>4, EndSays, Zenon
<1> HIDE DEF last
<1>6. a \in Nat /\ b \in Nat \ {0} /\ one \in Nat \ {0} /\ one <= a + 1 /\ one - 1 = 0
      /\ a - one + 1 = a /\ b <= last + 1 /\ b - 1 = to /\ a <= Len(g) /\ last <= Len(g)
  BY <1>1, <1>2, SMT
<1>7. a + 1 = from /\ last - b + 1 = last - to
  BY <1>2, SMT
<1> HIDE DEF a, b, one
<1>8. Says(text.head, 0, g) /\ Len(text.head) = a
  <2>1. /\ Says(HexTexts(SubSeq(g, one, a), padded), one - 1, g)
        /\ Len(HexTexts(SubSeq(g, one, a), padded)) = a - one + 1
    BY <1>1, <1>6, TextSays, Zenon
  <2> QED
    BY <1>4, <1>6, <2>1, Zenon
<1>9. Says(text.tail, to, g) /\ Len(text.tail) = last - to
  <2>1. /\ Says(HexTexts(SubSeq(g, b, last), padded), b - 1, g)
        /\ Len(HexTexts(SubSeq(g, b, last), padded)) = last - b + 1
    BY <1>1, <1>2, <1>6, TextSays, Zenon
  <2> QED
    BY <1>4, <1>6, <1>7, <2>1, Zenon
<1>10. /\ Len(text.head) <= to /\ \A i \in Len(text.head) + 1 .. to : g[i] = 0
       /\ to + Len(text.tail) = last /\ to + Len(text.tail) + Len(Mixed(text)) = 8
  <2> DEFINE h == Len(text.head)
             t == Len(text.tail)
             m == Len(Mixed(text))
  <2>1. h = a /\ t = last - to /\ m = 8 - last
    BY <1>5, <1>8, <1>9, Zenon
  <2>2. a + 1 = from /\ a \in Nat /\ last \in Nat /\ to <= last /\ last <= 8
    BY <1>2, <1>6, <1>7, Zenon
  <2> HIDE DEF h, t, m
  <2>3. h <= to /\ h + 1 = from /\ to + t = last /\ to + t + m = 8
    BY <2>1, <2>2, SMT
  <2> QED
    BY <2>3, Zenon DEF h, t, m
<1>11. Says(Mixed(text), to + Len(text.tail), g)
  BY <1>5, <1>10, Zenon
<1>12. Says(Groups(text), 0, g) /\ Len(Groups(text)) = 8
  BY <1>4, <1>8, <1>9, <1>10, <1>11, AssembledAround, Zenon
<1> QED
  BY <1>4, <1>5, <1>8, <1>9, <1>12, Zenon DEF WellSpelt, Says

\* The places that :: may stand for.
MayLeaveOut(g, from, to, dots) ==
  /\ from \in 1 .. 8 /\ to \in 1 .. 8 /\ (from <= to \/ (from = 2 /\ to = 1))
  /\ from .. to \subseteq 1 .. Last6or8(dots)
  /\ \A i \in from .. to : g[i] = 0

\* Every spelling of an address says the address: whatever run of zeros it leaves out.
LEMMA SpellingSays ==
  ASSUME NEW g, IsGroups(g), NEW dots \in BOOLEAN, NEW padded \in BOOLEAN,
         NEW from, NEW to, MayLeaveOut(g, from, to, dots)
  PROVE  WellSpelt(Spelling(g, from .. to, dots, padded), g)
<1>1. /\ from \in 1 .. 8 /\ to \in 1 .. 8 /\ (from <= to \/ (from = 2 /\ to = 1))
      /\ from .. to \subseteq 1 .. Last6or8(dots)
      /\ \A i \in from .. to : g[i] = 0
  BY Zenon DEF MayLeaveOut
<1>2. CASE from <= to
  <2>1. from \in Nat \ {0} /\ to \in Nat
    BY <1>1, SMT
  <2>2. to \in from .. to
    BY <1>2, <2>1, SMT
  <2>3. to <= Last6or8(dots)
    BY <1>1, <2>2, SMT DEF Last6or8
  <2> QED
    BY <1>1, <1>2, <2>1, <2>3, SpelledAround, Zenon
<1>3. CASE from = 2 /\ to = 1
  <2>1. from .. to = {}
    BY <1>3, SMT
  <2> QED
    BY <2>1, SpelledWhole, Zenon
<1> QED
  BY <1>1, <1>2, <1>3, Zenon

\* A text that says the groups of an address is recognised as that address.
THEOREM SpeltIsLiteral ==
  ASSUME NEW g, IsGroups(g), NEW text, WellSpelt(text, g)
  PROVE  /\ IsIpv6(text) /\ isIpLiteral(text) /\ ipv6ToBytes(text) = Bytes(g)
         /\ isBlockedIp(text) <=> BlockedV6(Bytes(g))
<1> DEFINE groups == Groups(text)
<1>1. /\ text.form = "colons" /\ text.gaps \in {0, 1} /\ (text.quad # <<>> => parseIpv4(text.quad))
      /\ groups \in Seq(GroupText) /\ Len(groups) = 8
      /\ \A i \in 1 .. Len(groups) : groups[i][2] = g[0 + i]
  BY Zenon DEF WellSpelt, Says
<1> HIDE DEF groups
<1>6. \A i \in 1 .. Len(groups) : groups[i] \in GroupText
  <2>1. groups \in Seq(GroupText)
    BY <1>1, Zenon
  <2> QED
    BY <2>1
<1>2. ASSUME NEW i \in 1 .. 8 PROVE groups[i][1] \in 1 .. 4 /\ groups[i][2] = g[i]
  <2>1. i \in 1 .. Len(groups) /\ 0 + i = i
    BY <1>1, SMT
  <2>2. groups[i] \in GroupText
    BY <1>6, <2>1, Zenon
  <2>3. groups[i][1] \in 1 .. 4
    BY <2>2, SMT DEF GroupText
  <2> QED
    BY <1>1, <2>1, <2>3, Zenon
<1>3. IsIpv6(text)
  <2>1. \A i \in 1 .. 8 : IsGroup(groups[i])
    BY <1>2, Zenon DEF IsGroup
  <2>2. text.gaps <= 1
    BY <1>1, SMT
  <2> QED
    BY <1>1, <2>1, <2>2, Zenon DEF IsIpv6, groups
<1>4. ipv6ToBytes(text) = Bytes(g)
  <2>1. ASSUME NEW i \in 1 .. 16 PROVE groups[(i + 1) \div 2][2] = g[(i + 1) \div 2]
    <3>1. (i + 1) \div 2 \in 1 .. 8
      BY SMT
    <3> QED
      BY <1>2, <3>1, Zenon
  <2> DEFINE Half(i, n) == IF i % 2 = 1 THEN n \div 256 ELSE n % 256
  <2>2. ipv6ToBytes(text) = [i \in 1 .. 16 |-> Half(i, groups[(i + 1) \div 2][2])]
    BY Zenon DEF ipv6ToBytes, groups
  <2>3. Bytes(g) = [i \in 1 .. 16 |-> Half(i, g[(i + 1) \div 2])]
    BY Zenon DEF Bytes
  <2> HIDE DEF Half
  <2>4. \A i \in 1 .. 16 : Half(i, groups[(i + 1) \div 2][2]) = Half(i, g[(i + 1) \div 2])
    BY <2>1, Zenon
  <2> QED
    BY <2>2, <2>3, <2>4, SMT
<1>5. text.form # "dots"
  BY <1>1, SMT
<1> QED
  BY <1>3, <1>4, <1>5, Zenon DEF isIpLiteral, isBlockedIp

\* What has colons and is not well formed is no address, and refused.
LEMMA NoAddress ==
  ASSUME NEW text, text.form = "colons", ~IsIpv6(text)
  PROVE  ~isIpLiteral(text) /\ isBlockedIp(text)
<1>1. text.form # "dots"
  BY SMT
<1> QED
  BY <1>1, Zenon DEF isIpLiteral, isBlockedIp

\* The groups of a text begin with those of its head.
LEMMA GroupsBegin ==
  ASSUME NEW S, <<1, 0>> \in S, NEW text, text.head \in Seq(S), text.tail \in Seq(S),
         Mixed(text) \in Seq(S)
  PROVE  /\ Len(Groups(text)) \in Nat /\ Len(Groups(text)) >= Len(text.head)
         /\ Len(text.head) >= 1 => Groups(text)[1] = text.head[1]
<1> DEFINE head == text.head
           mixed == Mixed(text)
           both == text.tail \o mixed
           m == 8 - (Len(head) + Len(both))
           zeros == ZeroTexts(m)
<1>1. head \in Seq(S) /\ mixed \in Seq(S) /\ both \in Seq(S)
  BY Joined
<1>2. \/ Groups(text) = head \o mixed
      \/ Groups(text) = head \o zeros \o both
  BY Zenon DEF Groups, ZeroTexts
<1> HIDE DEF head, mixed, both
<1>3. zeros \in Seq(S)
  <2>1. m \in Int
    BY <1>1
  <2> HIDE DEF m
  <2> DEFINE n == IF m \in Nat THEN m ELSE 0
  <2>2. n \in Nat /\ 1 .. n = 1 .. m
    BY <2>1
  <2>3. zeros = [i \in 1 .. n |-> <<1, 0>>]
    BY <2>2 DEF ZeroTexts
  <2> HIDE DEF n, zeros
  <2>4. zeros \in [1 .. n -> S]
    BY <2>3
  <2> QED
    BY <2>2, <2>4, FunctionIsSeq
<1> HIDE DEF zeros
<1>4. ASSUME NEW s \in Seq(S), NEW t \in Seq(S)
      PROVE  /\ s \o t \in Seq(S) /\ Len(s) \in Nat /\ Len(s \o t) >= Len(s)
             /\ Len(s) >= 1 => (s \o t)[1] = s[1]
  <2>1. Len(s) \in Nat /\ Len(t) \in Nat
    OBVIOUS
  <2>2. /\ s \o t \in Seq(S) /\ Len(s \o t) = Len(s) + Len(t)
        /\ \A i \in 1 .. Len(s) + Len(t) : (s \o t)[i] = IF i <= Len(s) THEN s[i] ELSE t[i - Len(s)]
    BY Joined
  <2> QED
    BY <2>1, <2>2
<1>5. CASE Groups(text) = head \o mixed
  <2> DEFINE all == head \o mixed
  <2>1. all \in Seq(S) /\ Len(all) >= Len(head) /\ (Len(head) >= 1 => all[1] = head[1])
    BY <1>1, <1>4, Zenon
  <2>2. Groups(text) = all
    BY <1>5, Zenon
  <2> HIDE DEF all
  <2>3. Len(all) \in Nat
    BY <2>1
  <2> QED
    BY <2>1, <2>2, <2>3, Zenon DEF head
<1>6. CASE Groups(text) = head \o zeros \o both
  <2> DEFINE front == head \o zeros
             all == front \o both
  <2>1. front \in Seq(S) /\ Len(head) \in Nat /\ Len(front) >= Len(head)
        /\ (Len(head) >= 1 => front[1] = head[1])
    BY <1>1, <1>3, <1>4, Zenon
  <2>2. Groups(text) = all
    BY <1>6, Zenon
  <2> HIDE DEF front
  <2>3. all \in Seq(S) /\ Len(front) \in Nat /\ Len(all) >= Len(front)
        /\ (Len(front) >= 1 => all[1] = front[1])
    BY <1>1, <1>4, <2>1, Zenon
  <2> HIDE DEF all
  <2>4. Len(all) \in Nat
    BY <2>3
  <2>5. Len(all) >= Len(head) /\ (Len(head) >= 1 => all[1] = head[1])
    BY <2>1, <2>3, <2>4
  <2> QED
    BY <2>2, <2>4, <2>5, Zenon DEF head
<1> QED
  BY <1>2, <1>5, <1>6

\* Eight groups more.
EightOnes == [i \in 1 .. 8 |-> <<1, 1>>]

\* What is wrong with a text that has been spoilt.
LEMMA WhatIsSpoilt ==
  ASSUME NEW text, IsText(text), NEW t \in Spoilt(text)
  PROVE  /\ t.form = text.form
         /\ \/ t.gaps = 2
            \/ t.tail = text.tail /\ t.quad = text.quad /\ t.head = text.head \o EightOnes
            \/ t.tail = text.tail /\ t.quad = text.quad /\ t.head = <<<<5, 1>>>> \o Tail(text.head)
            \/ t.quad = <<<<1, 1>>, <<3, 256>>, <<1, 1>>, <<1, 1>>>>
            \/ t.quad = <<<<1, 1>>, <<1, 1>>, <<1, 1>>>>
<1> DEFINE head == text.head \o EightOnes
           other == <<<<5, 1>>>> \o Tail(text.head)
           four == <<<<1, 1>>, <<3, 256>>, <<1, 1>>, <<1, 1>>>>
           three == <<<<1, 1>>, <<1, 1>>, <<1, 1>>>>
<1>1. \/ t = [text EXCEPT !.gaps = 2]
      \/ t = [text EXCEPT !.head = head]
      \/ t = [text EXCEPT !.head = other]
      \/ t = [text EXCEPT !.quad = four]
      \/ t = [text EXCEPT !.quad = three]
  BY Zenon DEF Spoilt, EightOnes
<1>2. text = [form |-> text.form, head |-> text.head, tail |-> text.tail, gaps |-> text.gaps,
              quad |-> text.quad]
  BY Zenon DEF IsText, TextOfParts
<1> HIDE DEF head, other, four, three
<1>3. /\ t.form = text.form
      /\ \/ t.gaps = 2
         \/ t.tail = text.tail /\ t.quad = text.quad /\ t.head = head
         \/ t.tail = text.tail /\ t.quad = text.quad /\ t.head = other
         \/ t.quad = four
         \/ t.quad = three
  BY <1>1, <1>2, SMT
<1> QED
  BY <1>3, Zenon DEF head, other, four, three

\* A text with one thing wrong with it is no address.
LEMMA SpoiltIsNone ==
  ASSUME NEW g, NEW text, WellSpelt(text, g), IsText(text), text.head # <<>>,
         NEW t \in Spoilt(text)
  PROVE  ~isIpLiteral(t) /\ isBlockedIp(t)
<1> DEFINE S == Nat \X Nat
<1>1. /\ text.form = "colons" /\ text.head \in Seq(GroupText) /\ text.tail \in Seq(GroupText)
      /\ Mixed(text) \in Seq(GroupText)
  BY Zenon DEF WellSpelt
<1>2. t.form = "colons"
  BY <1>1, WhatIsSpoilt, Zenon
<1>3. <<1, 0>> \in S /\ <<1, 1>> \in S /\ <<5, 1>> \in S /\ GroupText \subseteq S
  BY SMT DEF GroupText
<1>4. Seq(GroupText) \subseteq Seq(S)
  <2>1. ASSUME NEW A, NEW B, A \subseteq B, NEW s \in Seq(A) PROVE s \in Seq(B)
    BY <2>1
  <2> QED
    BY <1>3, <2>1, Zenon
<1> HIDE DEF S
<1>5. text.head \in Seq(S) /\ text.tail \in Seq(S) /\ Mixed(text) \in Seq(S)
  BY <1>1, <1>4, Zenon
<1>6. ASSUME t.quad = text.quad PROVE Mixed(t) \in Seq(S)
  <2>1. Mixed(t) = Mixed(text)
    BY <1>6, SMT DEF Mixed
  <2> QED
    BY <1>5, <2>1, Zenon
<1>7. ASSUME t.gaps = 2
      PROVE  ~IsIpv6(t)
  <2>1. ~(t.gaps <= 1)
    BY <1>7, SMT
  <2> QED
    BY <2>1, Zenon DEF IsIpv6
<1>8. ASSUME t.tail = text.tail, t.quad = text.quad, t.head = text.head \o EightOnes
      PROVE  ~IsIpv6(t)
  <2>1. EightOnes \in Seq(S) /\ Len(EightOnes) = 8
    <3> DEFINE n == 8
    <3>1. EightOnes \in [1 .. n -> S] /\ n \in Nat
      BY <1>3, SMT DEF EightOnes
    <3> HIDE DEF n
    <3>2. EightOnes \in Seq(S) /\ Len(EightOnes) = n
      BY <3>1, FunctionIsSeq, Zenon
    <3> QED
      BY <3>2, Zenon DEF n
  <2>2. Len(text.head) \in Nat /\ Len(text.head) # 0
    <3> DEFINE h == text.head
    <3>1. h \in Seq(S) /\ h # <<>>
      BY <1>5, Zenon
    <3> HIDE DEF h
    <3> QED
      BY <3>1 DEF h
  <2>3. t.head \in Seq(S) /\ Len(t.head) = Len(text.head) + 8
    <3>0. /\ text.head \o EightOnes \in Seq(S)
          /\ Len(text.head \o EightOnes) = Len(text.head) + Len(EightOnes)
      BY <1>5, <2>1, Joined, Zenon
    <3>1. t.head \in Seq(S) /\ Len(t.head) = Len(text.head) + Len(EightOnes)
      BY <1>8, <3>0, Zenon
    <3> QED
      BY <2>1, <3>1, Zenon
  <2>4. Len(Groups(t)) \in Nat /\ Len(Groups(t)) >= Len(t.head)
    BY <1>3, <1>5, <1>6, <1>8, <2>3, GroupsBegin, Zenon
  <2>5. Len(Groups(t)) # 8
    <3> DEFINE a == Len(Groups(t))
               b == Len(t.head)
               c == Len(text.head)
    <3>1. a \in Nat /\ c \in Nat /\ c # 0 /\ a >= b /\ b = c + 8
      BY <2>2, <2>3, <2>4, Zenon
    <3> HIDE DEF a, b, c
    <3>2. a # 8
      BY <3>1
    <3> QED
      BY <3>2, Zenon DEF a
  <2> QED
    BY <2>5, Zenon DEF IsIpv6
<1>9. ASSUME t.tail = text.tail, t.quad = text.quad, t.head = <<<<5, 1>>>> \o Tail(text.head)
      PROVE  ~IsIpv6(t)
  <2> DEFINE five == <<5, 1>>
             one == <<five>>
             rest == Tail(text.head)
  <2>1. rest \in Seq(S)
    <3> DEFINE h == text.head
    <3>1. h \in Seq(S) /\ h # <<>>
      BY <1>5, Zenon
    <3> HIDE DEF h
    <3>2. Tail(h) \in Seq(S)
      BY <3>1
    <3> QED
      BY <3>2, Zenon DEF h
  <2>2. five \in S
    BY <1>3
  <2> HIDE DEF five, rest
  <2>3. one \in Seq(S) /\ Len(one) = 1 /\ one[1] = five
    BY <2>2
  <2>4. t.head = one \o rest
    BY <1>9, Zenon DEF five, rest
  <2> HIDE DEF one
  <2>5. one \o rest \in Seq(S) /\ Len(one \o rest) >= 1 /\ (one \o rest)[1] = five
    <3>1. /\ one \o rest \in Seq(S) /\ Len(one \o rest) = Len(one) + Len(rest)
          /\ \A i \in 1 .. Len(one) + Len(rest) :
               (one \o rest)[i] = IF i <= Len(one) THEN one[i] ELSE rest[i - Len(one)]
      BY <2>1, <2>3, Joined, Zenon
    <3>2. Len(rest) \in Nat
      BY <2>1
    <3> QED
      BY <2>3, <3>1, <3>2
  <2>6. Groups(t)[1] = five
    BY <1>3, <1>5, <1>6, <1>9, <2>4, <2>5, GroupsBegin, Zenon
  <2>7. ~IsGroup(Groups(t)[1])
    <3>1. ~IsGroup(five)
      BY SMT DEF IsGroup, five
    <3> QED
      BY <2>6, <3>1, Zenon
  <2>8. 1 \in 1 .. 8
    OBVIOUS
  <2> QED
    BY <2>7, <2>8, Zenon DEF IsIpv6
<1>10. ASSUME t.quad = <<<<1, 1>>, <<3, 256>>, <<1, 1>>, <<1, 1>>>>
      PROVE  ~IsIpv6(t)
  <2> DEFINE four == <<<<1, 1>>, <<3, 256>>, <<1, 1>>, <<1, 1>>>>
  <2>1. four # <<>> /\ ~parseIpv4(four)
    BY SMT DEF parseIpv4, IsByteText
  <2> QED
    BY <1>10, <2>1, Zenon DEF IsIpv6
<1>11. ASSUME t.quad = <<<<1, 1>>, <<1, 1>>, <<1, 1>>>>
      PROVE  ~IsIpv6(t)
  <2> DEFINE three == <<<<1, 1>>, <<1, 1>>, <<1, 1>>>>
  <2>1. three # <<>> /\ ~parseIpv4(three)
    BY SMT DEF parseIpv4
  <2> QED
    BY <1>11, <2>1, Zenon DEF IsIpv6
<1>12. ~IsIpv6(t)
  BY <1>7, <1>8, <1>9, <1>10, <1>11, WhatIsSpoilt, Zenon
<1> QED
  BY <1>2, <1>12, NoAddress, Zenon

\* What the action that asks about a spelling asks.
LEMMA AsksSpellings ==
  ASSUME [Next]_q, q' # q
  PROVE  SpellingsAgree'
<1> SUFFICES ASSUME q'.kind \in {"spelling", "spoilt"}
             PROVE  /\ q'.kind = "spelling" =>
                         isIpLiteral(q'.text) /\ ipv6ToBytes(q'.text) = Bytes(q'.groups)
                    /\ q'.kind = "spoilt" => ~isIpLiteral(q'.text) /\ isBlockedIp(q'.text)
  BY Zenon DEF SpellingsAgree
<1>1. AskSpelling
  BY WhoAsks, Zenon
<1>2. PICK filled \in SUBSET (1 .. 8), from \in 1 .. 8, to \in 1 .. 8, dots \in BOOLEAN,
           padded \in BOOLEAN :
        LET groups == Numbered(filled)
            text == Spelling(groups, from .. to, dots, padded)
        IN /\ from .. to \subseteq (1 .. IF dots THEN 6 ELSE 8) \ filled
           /\ from <= to \/ (from = 2 /\ to = 1)
           /\ \/ q' = [kind |-> "spelling", groups |-> groups, text |-> text]
              \/ /\ text.head # <<>>
                 /\ \E spoilt \in Spoilt(text) : q' = [kind |-> "spoilt", text |-> spoilt]
  BY <1>1, Zenon DEF AskSpelling, Ask
<1> DEFINE groups == Numbered(filled)
           text == Spelling(groups, from .. to, dots, padded)
<1>3. /\ from .. to \subseteq (1 .. IF dots THEN 6 ELSE 8) \ filled
      /\ from <= to \/ (from = 2 /\ to = 1)
      /\ \/ q' = [kind |-> "spelling", groups |-> groups, text |-> text]
         \/ /\ text.head # <<>>
            /\ \E spoilt \in Spoilt(text) : q' = [kind |-> "spoilt", text |-> spoilt]
  BY <1>2, Zenon
<1>4. groups = [i \in 1 .. 8 |-> IF i \in filled THEN 4000 * i + i ELSE 0]
  BY SMT DEF Numbered
<1> HIDE DEF groups
<1>12. /\ \A i \in 1 .. 8 : groups[i] \in Nat /\ groups[i] <= 65535
       /\ \A i \in 1 .. 8 : i \notin filled => groups[i] = 0
  BY <1>4, SMT
<1>13. IsGroups(groups)
  <2>1. \A i \in 1 .. 8 : groups[i] \in Nat /\ groups[i] <= 65535
    BY <1>12, SMT
  <2>2. groups \in [1 .. 8 -> Nat]
    BY <1>4, <2>1, SMT
  <2>3. 8 \in Nat
    BY SMT
  <2> QED
    BY <2>1, <2>2, <2>3, SMT DEF IsGroups, IsAddress
<1>5. \A i \in from .. to : groups[i] = 0
  <2>1. \A i \in from .. to : i \in 1 .. 8 /\ i \notin filled
    BY <1>3, SMT
  <2> QED
    BY <1>12, <2>1, SMT
<1>6. from .. to \subseteq 1 .. IF dots THEN 6 ELSE 8
  BY <1>3, Zenon
<1>7. WellSpelt(text, groups)
  <2>1. 1 .. Last6or8(dots) = 1 .. IF dots THEN 6 ELSE 8
    BY Zenon DEF Last6or8
  <2>2. MayLeaveOut(groups, from, to, dots)
    BY <1>3, <1>5, <1>6, <2>1, Zenon DEF MayLeaveOut
  <2> QED
    BY <1>13, <2>2, SpellingSays, Zenon
<1>8. IsText(text)
  <2> DEFINE run == from .. to
  <2> HIDE DEF run
  <2>1. HasParts(Spelling(groups, run, dots, padded), groups, run, dots, padded)
    BY SpellingParts, Zenon
  <2>2. IsText(Spelling(groups, run, dots, padded))
    BY <2>1, Zenon DEF HasParts
  <2> QED
    BY <2>2, Zenon DEF run
<1> HIDE DEF text
<1>9. CASE q' = [kind |-> "spelling", groups |-> groups, text |-> text]
  <2>1. q'.kind = "spelling" /\ q'.groups = groups /\ q'.text = text
    BY <1>9, SMT
  <2>2. isIpLiteral(text) /\ ipv6ToBytes(text) = Bytes(groups)
    BY <1>7, <1>13, SpeltIsLiteral, Zenon
  <2>3. q'.kind # "spoilt"
    BY <2>1, SMT
  <2> QED
    BY <2>1, <2>2, <2>3, Zenon
<1>10. ASSUME text.head # <<>>, NEW t \in Spoilt(text), q' = [kind |-> "spoilt", text |-> t]
       PROVE  q'.kind = "spoilt" /\ q'.text = t /\ ~isIpLiteral(t) /\ isBlockedIp(t)
  <2>1. q'.kind = "spoilt" /\ q'.text = t
    BY <1>10, SMT
  <2>2. ~isIpLiteral(t) /\ isBlockedIp(t)
    BY <1>7, <1>8, <1>10, SpoiltIsNone, Zenon
  <2> QED
    BY <2>1, <2>2, Zenon
<1>11. "spoilt" # "spelling"
  BY SMT
<1> QED
  BY <1>3, <1>9, <1>10, <1>11, Zenon

\* The groups of the addresses that guardTarget is asked about: ::1 and ::ffff:127.0.0.1.
Loopback6 == <<0, 0, 0, 0, 0, 0, 0, 1>>
Loopback4 == <<0, 0, 0, 0, 0, 65535, 32512, 1>>

\* The loopback address is refused, in either family.
LEMMA LoopbacksBlocked ==
  /\ IsGroups(Loopback6) /\ BlockedV6(Bytes(Loopback6))
  /\ IsGroups(Loopback4) /\ BlockedV6(Bytes(Loopback4))
<1>1. IsGroups(Loopback6) /\ IsGroups(Loopback4)
  BY SMT DEF Loopback6, Loopback4, IsGroups, IsAddress
<1>2. ASSUME NEW g \in Seq(Nat), Len(g) = 8
      PROVE  SubSeq(g, 1, 6) \in [1 .. 6 -> Nat] /\ \A i \in 1 .. 6 : SubSeq(g, 1, 6)[i] = g[i]
  <2> DEFINE n == 6
  <2>1. n \in 0 .. Len(g)
    BY <1>2, SMT
  <2> HIDE DEF n
  <2>2. SubSeq(g, 1, n) \in [1 .. n -> Nat] /\ \A i \in 1 .. n : SubSeq(g, 1, n)[i] = g[i]
    BY <2>1, FirstPlaces, SMT
  <2> QED
    BY <2>2, Zenon DEF n
<1>3. BlockedV6(Bytes(Loopback6))
  <2> DEFINE g == Loopback6
             s == SubSeq(g, 1, 6)
             t == <<0, 0, 0, 0, 0, 65535>>
  <2>1. g \in Seq(Nat) /\ Len(g) = 8
    BY <1>1, GroupsSeq, SMT
  <2>2. s[6] = g[6]
    <3> HIDE DEF g
    <3> QED
      BY <1>2, <2>1, SMT
  <2>3. g[6] = 0 /\ (\A i \in 1 .. 7 : g[i] = 0) /\ g[8] = 1
    BY SMT DEF Loopback6
  <2>4. t[6] = 65535
    BY SMT
  <2> HIDE DEF g, s, t
  <2>5. s # t
    BY <2>2, <2>3, <2>4, SMT
  <2>6. NotOpenV6(g)
    BY <2>3, SMT DEF NotOpenV6
  <2>7. Within(g, RangesV6)
    BY <1>1, <2>6, RangesOfV6, SMT DEF g
  <2>8. IsGroups(g)
    BY <1>1, SMT DEF g
  <2>9. BlockedV6(Bytes(g)) <=>
          IF s = t THEN Within(<<g[7] \div 256, g[7] % 256>>, RangesV4) ELSE Within(g, RangesV6)
    BY <2>8, BlocksV6, SMT DEF s, t
  <2> QED
    BY <2>5, <2>7, <2>9, SMT DEF g
<1>4. BlockedV6(Bytes(Loopback4))
  <2> DEFINE g == Loopback4
             s == SubSeq(g, 1, 6)
             t == <<0, 0, 0, 0, 0, 65535>>
             n == g[7]
  <2>1. g \in Seq(Nat) /\ Len(g) = 8
    BY <1>1, GroupsSeq, SMT
  <2>2. s \in [1 .. 6 -> Nat] /\ \A i \in 1 .. 6 : s[i] = g[i]
    <3> HIDE DEF g
    <3> QED
      BY <1>2, <2>1, SMT
  <2>3. \A i \in 1 .. 6 : g[i] = t[i]
    BY SMT DEF Loopback4
  <2>4. t \in [1 .. 6 -> Nat]
    BY SMT
  <2>5. n = 32512
    BY SMT DEF Loopback4
  <2> HIDE DEF g, s, t, n
  <2>6. s = t
    BY <2>2, <2>3, <2>4, SMT
  <2>7. n \div 256 = 127 /\ n % 256 = 0
    BY <2>5, SMT
  <2>8. NotOpen(127, 0)
    BY SMT DEF NotOpen
  <2>9. Within(<<127, 0>>, RangesV4)
    <3> DEFINE a == 127
               b == 0
    <3>1. a \in 0 .. 255 /\ b \in 0 .. 255 /\ NotOpen(a, b)
      BY <2>8, SMT
    <3> HIDE DEF a, b
    <3>2. Within(<<a, b>>, RangesV4)
      BY <3>1, RangesOfV4, Zenon
    <3> QED
      BY <3>2, SMT DEF a, b
  <2>10. IsGroups(g)
    BY <1>1, SMT DEF g
  <2>11. BlockedV6(Bytes(g)) <=>
           IF s = t THEN Within(<<g[7] \div 256, g[7] % 256>>, RangesV4) ELSE Within(g, RangesV6)
    BY <2>10, BlocksV6, SMT DEF s, t
  <2> QED
    BY <2>6, <2>7, <2>9, <2>11, SMT DEF g, n
<1> QED
  BY <1>1, <1>3, <1>4, SMT

\* The guard refuses the private addresses, and a name is none.
LEMMA PrivateBlocked ==
  /\ \A a \in Private : isBlockedIp(a)
  /\ ~isIpLiteral(Named) /\ isBlockedIp(Named)
<1>1. isBlockedIp(Dots(10, 0, 0, 5))
  <2> DEFINE text == Dots(10, 0, 0, 5)
             bytes == [i \in 1 .. 4 |-> text.quad[i][2]]
             A == DotText(10)
             B == DotText(0)
             C == DotText(5)
  <2>1. text.form = "dots" /\ text.quad = <<A, B, B, C>>
    BY SMT DEF Dots
  <2>2. IsByteText(A) /\ IsByteText(B) /\ IsByteText(C) /\ A[2] = 10 /\ B[2] = 0
    BY DotTextIs, SMT
  <2> HIDE DEF text, A, B, C
  <2>3. parseIpv4(text.quad)
    <3>1. <<A, B, B, C>>[1] = A /\ <<A, B, B, C>>[2] = B /\ <<A, B, B, C>>[3] = B
          /\ <<A, B, B, C>>[4] = C /\ Len(<<A, B, B, C>>) = 4
      BY SMT
    <3> QED
      BY <2>1, <2>2, <3>1, SMT DEF parseIpv4
  <2>4. bytes[1] = 10 /\ bytes[2] = 0
    BY <2>1, <2>2, SMT
  <2> HIDE DEF bytes
  <2>5. bytes[1] \in 0 .. 255 /\ bytes[2] \in 0 .. 255 /\ NotOpen(bytes[1], bytes[2])
    BY <2>4, SMT DEF NotOpen
  <2>6. BlockedV4(bytes)
    BY <2>5, MasksV4, SMT
  <2> QED
    BY <2>1, <2>3, <2>6, Zenon DEF isBlockedIp, bytes, text
<1>2. isBlockedIp(Spelling(Loopback6, 1 .. 7, FALSE, FALSE))
  <2> DEFINE text == Spelling(Loopback6, 1 .. 7, FALSE, FALSE)
  <2>1. MayLeaveOut(Loopback6, 1, 7, FALSE)
    BY SMT DEF MayLeaveOut, Last6or8, Loopback6
  <2>2. WellSpelt(text, Loopback6)
    <3>1. FALSE \in BOOLEAN
      OBVIOUS
    <3> QED
      BY <2>1, <3>1, LoopbacksBlocked, SpellingSays, Zenon
  <2> HIDE DEF text
  <2>3. isBlockedIp(text)
    BY <2>2, LoopbacksBlocked, SpeltIsLiteral, Zenon
  <2> QED
    BY <2>3, Zenon DEF text
<1>3. isBlockedIp(Spelling(Loopback4, 1 .. 5, TRUE, FALSE))
  <2> DEFINE text == Spelling(Loopback4, 1 .. 5, TRUE, FALSE)
  <2>1. MayLeaveOut(Loopback4, 1, 5, TRUE)
    BY SMT DEF MayLeaveOut, Last6or8, Loopback4
  <2>2. WellSpelt(text, Loopback4)
    <3>1. FALSE \in BOOLEAN /\ TRUE \in BOOLEAN
      OBVIOUS
    <3> QED
      BY <2>1, <3>1, LoopbacksBlocked, SpellingSays, Zenon
  <2> HIDE DEF text
  <2>3. isBlockedIp(text)
    BY <2>2, LoopbacksBlocked, SpeltIsLiteral, Zenon
  <2> QED
    BY <2>3, Zenon DEF text
<1>4. Private = {Dots(10, 0, 0, 5), Spelling(Loopback6, 1 .. 7, FALSE, FALSE),
                 Spelling(Loopback4, 1 .. 5, TRUE, FALSE)}
  BY SMT DEF Private, Loopback6, Loopback4
<1>5. Named.form = "name"
  BY SMT DEF Named, Shaped
<1>6. Named.form # "dots" /\ Named.form # "colons"
  BY <1>5, SMT
<1>7. ~isIpLiteral(Named) /\ isBlockedIp(Named)
  BY <1>6, Zenon DEF isIpLiteral, isBlockedIp, IsIpv6
<1> QED
  BY <1>1, <1>2, <1>3, <1>4, <1>7, Zenon

\* What the action that asks the guard asks.
LEMMA AsksGuard ==
  ASSUME [Next]_q, q' # q
  PROVE  GuardAdmitsOnlyOpen'
<1> SUFFICES ASSUME q'.kind = "guard"
             PROVE  LET verdict == guardTarget(q'.host, q'.records)
                    IN verdict.ok =>
                         /\ verdict.addresses \in {<<q'.host>>, q'.records} \ {<<>>}
                         /\ ToSet(verdict.addresses) \subseteq Public
  BY Zenon DEF GuardAdmitsOnlyOpen
<1> DEFINE Results == Public \cup Private \cup {Named}
           Empty == Shaped("empty")
<1>1. AskGuard
  BY WhoAsks, Zenon
<1>2. PICK host \in Public \cup Private \cup {Named, Empty}, records \in BoundedSeq(Results, 3) :
        q' = [kind |-> "guard", host |-> host, records |-> records]
  BY <1>1, Zenon DEF AskGuard, Ask
<1>3. q'.host = host /\ q'.records = records
  BY <1>2, SMT
<1>4. \A a \in Private \cup {Named} : isBlockedIp(a)
  BY PrivateBlocked, Zenon
<1>5. ~isIpLiteral(Named)
  BY PrivateBlocked, Zenon
<1>6. Empty.form = "empty"
  BY SMT DEF Shaped
<1>7. records \in Seq(Results)
  <2>1. BoundedSeq(Results, 3) = UNION {[1 .. m -> Results] : m \in 0 .. 3}
    BY Zenon DEF BoundedSeq, SeqOf
  <2> HIDE DEF Results
  <2>2. PICK m \in 0 .. 3 : records \in [1 .. m -> Results]
    BY <2>1, Zenon
  <2>3. m \in Nat
    BY SMT
  <2> QED
    BY <2>2, <2>3, FunctionIsSeq, Zenon
<1>8. \A i \in DOMAIN records : records[i] \in Results
  <2> HIDE DEF Results
  <2> QED
    BY <1>7
<1> HIDE DEF Empty
<1> DEFINE verdict == guardTarget(host, records)
<1>9. \/ verdict = Refused
      \/ /\ verdict = Admitted(<<host>>) /\ host.form # "empty"
         /\ isIpLiteral(host) /\ ~isBlockedIp(host)
      \/ /\ verdict = Admitted(records) /\ records # <<>>
         /\ \A i \in DOMAIN records : ~isBlockedIp(records[i])
  BY Zenon DEF guardTarget
<1> HIDE DEF verdict
<1>10. CASE verdict = Refused
  <2>1. ~verdict.ok
    BY <1>10, SMT DEF Refused
  <2> QED
    BY <1>3, <2>1, Zenon DEF verdict
<1>11. CASE /\ verdict = Admitted(<<host>>) /\ host.form # "empty"
            /\ isIpLiteral(host) /\ ~isBlockedIp(host)
  <2>1. verdict.addresses = <<host>>
    BY <1>11, SMT DEF Admitted
  <2>2. host \in Public
    BY <1>4, <1>5, <1>6, <1>11, Zenon
  <2>3. <<host>> # <<>> /\ ToSet(<<host>>) = {host}
    BY SMT DEF ToSet
  <2> QED
    BY <1>3, <2>1, <2>2, <2>3, Zenon DEF verdict
<1>12. CASE /\ verdict = Admitted(records) /\ records # <<>>
            /\ \A i \in DOMAIN records : ~isBlockedIp(records[i])
  <2>1. verdict.addresses = records
    BY <1>12, SMT DEF Admitted
  <2>2. \A i \in DOMAIN records : records[i] \in Public
    BY <1>4, <1>8, <1>12, Zenon
  <2>3. ToSet(records) \subseteq Public
    BY <2>2, Zenon DEF ToSet
  <2> QED
    BY <1>3, <1>12, <2>1, <2>3, Zenon DEF verdict
<1> QED
  BY <1>9, <1>10, <1>11, <1>12, Zenon

\* The server connects to no private address, however the client spells it: the masks of
\* the blocks refuse exactly the listed ranges, every spelling of an address says its bytes,
\* one blocked record is enough to refuse a name, and what is malformed is refused.
THEOREM GuardLetsNoPrivateThrough == Spec => []GuardHolds
<1>1. Init => GuardHolds
  BY SMT DEF Init, GuardHolds, BlocksAreRanges, SpellingsAgree, GuardAdmitsOnlyOpen
<1>2. GuardHolds /\ [Next]_q => GuardHolds'
  <2> SUFFICES ASSUME GuardHolds, [Next]_q
               PROVE  GuardHolds'
    BY Zenon
  <2>1. CASE q' = q
    BY <2>1, SMT DEF GuardHolds, BlocksAreRanges, SpellingsAgree, GuardAdmitsOnlyOpen
  <2>2. CASE q' # q
    BY <2>2, AsksBlocks, AsksSpellings, AsksGuard, Zenon DEF GuardHolds
  <2> QED
    BY <2>1, <2>2, Zenon
<1> QED
  BY <1>1, <1>2, PTL DEF Spec

(* --------------------------- host and port ----------------------------- *)

\* The first of some positions.
LEMMA FirstIs ==
  ASSUME NEW P \in SUBSET Nat, NEW k \in P, \A j \in P : k <= j
  PROVE  First(P) = k
<1>1. P # {}
  OBVIOUS
<1>2. First(P) = CHOOSE i \in P : \A j \in P : i <= j
  BY <1>1, Zenon DEF First
<1>3. First(P) \in P /\ \A j \in P : First(P) <= j
  BY <1>2, Zenon
<1>4. First(P) <= k /\ k <= First(P)
  BY <1>3, Zenon
<1>5. First(P) \in Nat /\ k \in Nat
  BY <1>3
<1> QED
  BY <1>4, <1>5

\* A sign is not in a text, or only in its first place.
Without(s, sign) == \A i \in 1 .. Len(s) : s[i] # Sign(sign)
Leads(t, sign) == t # <<>> /\ t[1] = Sign(sign)
LeadsOnly(t, sign) == Leads(t, sign) /\ \A i \in 2 .. Len(t) : t[i] # Sign(sign)

\* A sign that is not in a text has no first place.
LEMMA NoPlace ==
  ASSUME NEW S, NEW s \in Seq(S), NEW sign, Without(s, sign)
  PROVE  Places(s, sign) = {} /\ First(Places(s, sign)) = 0
<1>1. DOMAIN s = 1 .. Len(s)
  OBVIOUS
<1>2. Places(s, sign) = {}
  BY <1>1, Zenon DEF Places, Without
<1> QED
  BY <1>2, Zenon DEF First

\* The first place of a sign is where the part it leads begins.
LEMMA FirstPlace ==
  ASSUME NEW S, NEW s \in Seq(S), NEW t \in Seq(S), NEW sign, Without(s, sign), Leads(t, sign)
  PROVE  /\ First(Places(s \o t, sign)) = Len(s) + 1
         /\ LeadsOnly(t, sign) => Places(s \o t, sign) = {Len(s) + 1}
<1> DEFINE u == s \o t
           n == Len(s)
           m == Len(t)
           P == Places(u, sign)
<1>1. n \in Nat /\ m \in Nat /\ m # 0
  BY DEF Leads
<1>2. u \in Seq(S) /\ Len(u) = n + m
  BY Joined
<1>3. \A i \in 1 .. n + m : u[i] = IF i <= n THEN s[i] ELSE t[i - n]
  BY Joined
<1>4. t[1] = Sign(sign) /\ \A i \in 1 .. n : s[i] # Sign(sign)
  BY Zenon DEF Leads, Without
<1>5. DOMAIN u = 1 .. n + m
  BY <1>2
<1> HIDE DEF u, n, m
<1>6. P = {i \in 1 .. n + m : u[i] = Sign(sign)}
  BY <1>5, Zenon DEF Places
<1> HIDE DEF P
<1>7. n + 1 \in P
  BY <1>1, <1>3, <1>4, <1>6
<1>8. \A j \in P : n + 1 <= j
  BY <1>1, <1>3, <1>4, <1>6
<1>9. P \in SUBSET Nat
  BY <1>6
<1>10. First(P) = n + 1
  BY <1>7, <1>8, <1>9, FirstIs, Zenon
<1>11. ASSUME \A i \in 2 .. m : t[i] # Sign(sign) PROVE P = {n + 1}
  <2>1. ASSUME NEW j \in P PROVE j = n + 1
    <3>1. j \in 1 .. n + m /\ u[j] = Sign(sign) /\ n + 1 <= j
      BY <1>6, <1>8
    <3>2. u[j] = t[j - n]
      BY <1>1, <1>3, <3>1
    <3>3. j - n \in 1 .. m
      BY <1>1, <3>1
    <3>4. j - n \notin 2 .. m
      BY <1>11, <3>1, <3>2, Zenon
    <3> QED
      BY <1>1, <3>1, <3>3, <3>4
  <2> QED
    BY <1>7, <2>1
<1> QED
  BY <1>10, <1>11, Zenon DEF LeadsOnly, P, u, n, m

\* What is in front of a text that is not empty, and the rest of it.
IsJoined(u, s, t) ==
  /\ SubSeq(u, 1, Len(s)) = s /\ u[1] = s[1] /\ u # <<>> /\ DOMAIN u = 1 .. Len(s) + Len(t)
  /\ Len(s) \in Nat \ {0} /\ Len(t) \in Nat /\ Len(u) = Len(s) + Len(t)
  /\ \A i \in 1 .. Len(t) : u[Len(s) + i] = t[i]

\* What the parts of two joined texts are.
LEMMA PartsOfJoined ==
  ASSUME NEW S, NEW s \in Seq(S), NEW t \in Seq(S), s # <<>>
  PROVE  IsJoined(s \o t, s, t)
<1>1. Len(s) \in Nat \ {0} /\ Len(t) \in Nat
  OBVIOUS
<1>2. s \o t \in Seq(S) /\ Len(s \o t) = Len(s) + Len(t)
  BY Joined
<1>3. \A i \in 1 .. Len(s) + Len(t) : (s \o t)[i] = IF i <= Len(s) THEN s[i] ELSE t[i - Len(s)]
  BY Joined
<1>4. SubSeq(s \o t, 1, Len(s)) = s
  <2>1. 1 \in 1 .. Len(s) /\ Len(s) \in 1 .. Len(s)
    BY <1>1
  <2>2. SubSeq(s \o t, 1, Len(s)) = SubSeq(s, 1, Len(s))
    BY <2>1, SubSeqOfConcat1, Zenon
  <2>3. SubSeq(s, 1, Len(s)) = s
    BY SubSeqFull, Zenon
  <2> QED
    BY <2>2, <2>3, Zenon
<1> DEFINE u == s \o t
<1> HIDE DEF u
<1>5. u \in Seq(S) /\ Len(u) = Len(s) + Len(t)
  BY <1>2, Zenon DEF u
<1>6. u # <<>> /\ Len(u) \in Nat /\ DOMAIN u = 1 .. Len(s) + Len(t)
  BY <1>1, <1>5
<1>7. \A i \in 1 .. Len(s) + Len(t) : u[i] = IF i <= Len(s) THEN s[i] ELSE t[i - Len(s)]
  BY <1>3, Zenon DEF u
<1>8. u[1] = s[1] /\ \A i \in 1 .. Len(t) : u[Len(s) + i] = t[i]
  BY <1>1, <1>7
<1> QED
  BY <1>1, <1>4, <1>5, <1>6, <1>8, Zenon DEF u, IsJoined

\* The ports that a port of sixteen bits can be, all of which fit an int.
IsPort(p) == p \in Nat /\ p <= 65535
PortsFit == 65535 <= MaxInt
PortPart(p) == <<Colon>> \o Number(p)
HoldsPort(S, p) == Colon \in S /\ <<"num", p>> \in S

\* A port that is a number of 16 bits is read as it is (std::stoi and the cast).
LEMMA PortRead ==
  ASSUME PortsFit, NEW text, NEW i \in DOMAIN text, NEW p, IsPort(p), text[i] = <<"num", p>>,
         NEW host
  PROVE  WithPort(host, text, i) = Target(host, p)
<1>1. p \in Nat /\ p <= MaxInt /\ p % 65536 = p
  <2>1. MaxInt \in Int
    BY ValuesAssumption, SMT DEF MaxInt
  <2> QED
    BY <2>1, SMT DEF PortsFit, IsPort
<1>2. text[i][1] = "num" /\ text[i][2] = p
  BY SMT
<1> QED
  BY <1>1, <1>2, SMT DEF WithPort

\* A colon and a number make the part of a port.
LEMMA PortPartIs ==
  ASSUME NEW S, NEW p, HoldsPort(S, p)
  PROVE  /\ PortPart(p) \in Seq(S) /\ Len(PortPart(p)) = 2
         /\ PortPart(p)[1] = Colon /\ PortPart(p)[2] = <<"num", p>>
         /\ LeadsOnly(PortPart(p), ":")
<1> DEFINE n == <<"num", p>>
           t == <<Colon>> \o <<n>>
<1>1. Colon \in S /\ n \in S
  BY Zenon DEF HoldsPort
<1>2. Colon # n
  BY SMT DEF Colon, Sign
<1>3. PortPart(p) = t
  BY Zenon DEF PortPart, Number
<1> HIDE DEF n, Colon
<1>4. t \in Seq(S) /\ Len(t) = 2 /\ t[1] = Colon /\ t[2] = n
  <2> DEFINE a == <<Colon>>
             b == <<n>>
  <2>1. a \in Seq(S) /\ b \in Seq(S) /\ Len(a) = 1 /\ Len(b) = 1 /\ a[1] = Colon /\ b[1] = n
    BY <1>1
  <2> HIDE DEF a, b
  <2>2. /\ a \o b \in Seq(S) /\ Len(a \o b) = Len(a) + Len(b)
        /\ \A i \in 1 .. Len(a) + Len(b) : (a \o b)[i] = IF i <= Len(a) THEN a[i] ELSE b[i - Len(a)]
    BY <2>1, Joined, Zenon
  <2>3. a \o b \in Seq(S) /\ Len(a \o b) = 2 /\ (a \o b)[1] = a[1] /\ (a \o b)[2] = b[1]
    BY <2>1, <2>2
  <2> QED
    BY <2>1, <2>3, Zenon DEF a, b
<1> HIDE DEF t
<1>5. LeadsOnly(t, ":")
  <2>1. t # <<>> /\ \A i \in 2 .. Len(t) : t[i] = n
    BY <1>4
  <2> QED
    BY <1>2, <1>4, <2>1, Zenon DEF LeadsOnly, Leads, Colon
<1> QED
  BY <1>3, <1>4, <1>5, Zenon DEF n

\* A host without brackets: alone, as an address with several colons, and with a port.
IsPlain(host) == host # <<>> /\ host[1] # Sign("[")
NoSingleColon(host) == ~\E c : Places(host, ":") = {c}

\* A Host header without a port: the default of the scheme.
LEMMA HeaderAlone ==
  ASSUME NEW host, IsPlain(host), NEW default, NoSingleColon(host)
  PROVE  parseHostHeader(host, default) = Target(host, default)
<1> DEFINE colon == First(Places(host, ":"))
<1>1. Places(host, ":") # {colon}
  BY Zenon DEF NoSingleColon
<1> HIDE DEF colon
<1> QED
  BY <1>1, Zenon DEF IsPlain, parseHostHeader, colon

\* A Host header with a name and a port.
LEMMA HeaderWithPort ==
  ASSUME PortsFit, NEW S, NEW host \in Seq(S), IsPlain(host), Without(host, ":"), NEW default,
         NEW p, IsPort(p), HoldsPort(S, p)
  PROVE  parseHostHeader(host \o PortPart(p), default) = Target(host, p)
<1> DEFINE t == PortPart(p)
           value == host \o t
           n == Len(host)
           colon == First(Places(value, ":"))
<1>1. t \in Seq(S) /\ Len(t) = 2 /\ t[1] = Colon /\ t[2] = <<"num", p>> /\ LeadsOnly(t, ":")
  BY PortPartIs, Zenon
<1>2. host # <<>> /\ host[1] # Sign("[")
  BY Zenon DEF IsPlain
<1> HIDE DEF t
<1>3. /\ SubSeq(value, 1, n) = host /\ value[1] = host[1] /\ value # <<>>
      /\ DOMAIN value = 1 .. n + 2 /\ n \in Nat \ {0} /\ Len(value) = n + 2
      /\ \A i \in 1 .. 2 : value[n + i] = t[i]
  <2>1. /\ SubSeq(value, 1, n) = host /\ value[1] = host[1] /\ value # <<>>
        /\ DOMAIN value = 1 .. n + Len(t) /\ n \in Nat \ {0} /\ Len(value) = n + Len(t)
        /\ \A i \in 1 .. Len(t) : value[n + i] = t[i]
    <3>1. IsJoined(value, host, t)
      BY <1>1, <1>2, PartsOfJoined, Zenon
    <3> QED
      BY <3>1, Zenon DEF IsJoined
  <2> QED
    BY <1>1, <2>1, Zenon
<1>4. colon = n + 1 /\ Places(value, ":") = {n + 1}
  <2>1. Leads(t, ":")
    BY <1>1, Zenon DEF LeadsOnly
  <2> QED
    BY <1>1, <2>1, FirstPlace
<1> HIDE DEF value, n
<1>5. value[n + 2] = <<"num", p>> /\ n + 2 \in DOMAIN value
      /\ (n + 1) + 1 = n + 2 /\ (n + 1) - 1 = n /\ n + 1 < Len(value)
  BY <1>1, <1>3
<1>6. value[n + 2][1] = "num"
  BY <1>5, SMT
<1> HIDE DEF colon
<1>7. parseHostHeader(value, default) =
        IF Places(value, ":") = {colon} /\ colon < Len(value) /\ value[colon + 1][1] = "num"
        THEN WithPort(SubSeq(value, 1, colon - 1), value, colon + 1) ELSE Target(value, default)
  BY <1>2, <1>3, Zenon DEF parseHostHeader, colon
<1>8. parseHostHeader(value, default) = WithPort(SubSeq(value, 1, n), value, n + 2)
  BY <1>4, <1>5, <1>6, <1>7, Zenon
<1>9. WithPort(host, value, n + 2) = Target(host, p)
  BY <1>5, PortRead
<1> QED
  BY <1>3, <1>8, <1>9, Zenon DEF value, t

\* A host in brackets, with what follows it.
Opened(host) == <<Sign("[")>> \o host
Closing == <<Sign("]")>>
HoldsBrackets(S) == Sign("[") \in S /\ Sign("]") \in S

IsBracketed(value, host, t) ==
  /\ value # <<>> /\ value[1] = Sign("[") /\ First(Places(value, "]")) = Len(host) + 2
  /\ SubSeq(value, 2, Len(host) + 1) = host
  /\ Len(host) \in Nat /\ Len(t) \in Nat /\ Len(value) = Len(host) + 1 + Len(t)
  /\ DOMAIN value = 1 .. Len(host) + 1 + Len(t)
  /\ \A i \in 1 .. Len(t) : value[Len(host) + 1 + i] = t[i]

\* Where the brackets of an address are.
LEMMA BracketsAre ==
  ASSUME NEW S, HoldsBrackets(S), NEW host \in Seq(S), host # <<>>, Without(host, "]"),
         NEW t \in Seq(S), Leads(t, "]")
  PROVE  IsBracketed(Opened(host) \o t, host, t)
<1> DEFINE o == Sign("[")
           a == <<o>>
           s == a \o host
           value == s \o t
           n == Len(host)
<1>1. o \in S /\ o # Sign("]")
  BY SMT DEF HoldsBrackets, Sign
<1> HIDE DEF o
<1>2. a \in Seq(S) /\ Len(a) = 1 /\ a[1] = o /\ a # <<>>
  BY <1>1
<1>3. n \in Nat \ {0}
  OBVIOUS
<1> HIDE DEF a
<1>4. IsJoined(s, a, host) /\ s \in Seq(S)
  BY <1>2, PartsOfJoined, Joined, Zenon
<1>5. Len(s) = n + 1 /\ s[1] = o /\ s # <<>> /\ \A i \in 1 .. n : s[1 + i] = host[i]
  <2>1. Len(s) = Len(a) + n /\ s[1] = a[1] /\ s # <<>> /\ \A i \in 1 .. n : s[Len(a) + i] = host[i]
    BY <1>4, Zenon DEF IsJoined
  <2> QED
    BY <1>2, <1>3, <2>1
<1>6. Without(s, "]")
  <2>1. ASSUME NEW i \in 1 .. Len(s) PROVE s[i] # Sign("]")
    <3>1. CASE i = 1
      BY <1>1, <1>5, <3>1, Zenon
    <3>2. CASE i # 1
      <4>1. i - 1 \in 1 .. n /\ 1 + (i - 1) = i
        BY <1>3, <1>5, <3>2
      <4>2. s[i] = host[i - 1]
        BY <1>5, <4>1, Zenon
      <4> QED
        BY <4>1, <4>2, Zenon DEF Without
    <3> QED
      BY <3>1, <3>2, Zenon
  <2> QED
    BY <2>1, Zenon DEF Without
<1>7. SubSeq(value, 2, n + 1) = host
  <2>1. SubSeq(value, 2, n + 1) = SubSeq(s, 2, n + 1)
    <3>1. 2 \in 1 .. Len(s) /\ n + 1 \in 1 .. Len(s)
      BY <1>3, <1>5
    <3> HIDE DEF s
    <3> QED
      BY <1>4, <3>1, SubSeqOfConcat1, Zenon
  <2>2. SubSeq(s, 2, n + 1) = SubSeq(host, 2 - Len(a), (n + 1) - Len(a))
    <3>1. 2 \in Len(a) + 1 .. Len(a) + Len(host) /\ n + 1 \in Len(a) + 1 .. Len(a) + Len(host)
      BY <1>2, <1>3
    <3> QED
      BY <1>2, <3>1, SubSeqOfConcat2, Zenon
  <2>3. 2 - Len(a) = 1 /\ (n + 1) - Len(a) = n
    BY <1>2, <1>3
  <2>4. SubSeq(host, 1, n) = host
    BY SubSeqFull, Zenon
  <2> QED
    BY <2>1, <2>2, <2>3, <2>4, Zenon
<1> HIDE DEF s
<1>8. IsJoined(value, s, t)
  BY <1>4, <1>5, PartsOfJoined, Zenon
<1>9. First(Places(value, "]")) = Len(s) + 1
  BY <1>4, <1>6, FirstPlace, Zenon
<1> HIDE DEF value
<1>10. /\ value # <<>> /\ value[1] = o /\ Len(t) \in Nat /\ Len(value) = Len(s) + Len(t)
       /\ DOMAIN value = 1 .. Len(s) + Len(t) /\ \A i \in 1 .. Len(t) : value[Len(s) + i] = t[i]
  BY <1>5, <1>8, Zenon DEF IsJoined
<1>11. Len(s) + 1 = n + 2
  BY <1>3, <1>5
<1>12. IsBracketed(value, host, t)
  BY <1>3, <1>5, <1>7, <1>9, <1>10, <1>11, Zenon DEF IsBracketed, o
<1> QED
  BY <1>12, Zenon DEF value, s, a, o, Opened

\* What stands behind a closing bracket and a port.
LEMMA ClosedPort ==
  ASSUME NEW S, HoldsBrackets(S), NEW p, HoldsPort(S, p)
  PROVE  /\ Closing \in Seq(S) /\ Len(Closing) = 1 /\ Closing[1] = Sign("]")
         /\ Leads(Closing, "]")
         /\ Closing \o PortPart(p) \in Seq(S) /\ Len(Closing \o PortPart(p)) = 3
         /\ (Closing \o PortPart(p))[2] = Colon
         /\ (Closing \o PortPart(p))[3] = <<"num", p>>
         /\ Leads(Closing \o PortPart(p), "]")
<1> DEFINE c == Sign("]")
           a == Closing
           t == PortPart(p)
           u == a \o t
<1>1. c \in S
  BY Zenon DEF HoldsBrackets
<1>2. a = <<c>>
  BY Zenon DEF Closing
<1> HIDE DEF c, a
<1>3. a \in Seq(S) /\ Len(a) = 1 /\ a[1] = c /\ a # <<>>
  BY <1>1, <1>2
<1>4. t \in Seq(S) /\ Len(t) = 2 /\ t[1] = Colon /\ t[2] = <<"num", p>>
  BY PortPartIs, Zenon
<1> HIDE DEF t
<1>5. u \in Seq(S) /\ IsJoined(u, a, t)
  BY <1>3, <1>4, Joined, PartsOfJoined, Zenon
<1> HIDE DEF u
<1>6. /\ Len(u) = Len(a) + Len(t) /\ u # <<>> /\ u[1] = a[1]
      /\ \A i \in 1 .. Len(t) : u[Len(a) + i] = t[i]
  BY <1>5, Zenon DEF IsJoined
<1>7. Len(u) = 3 /\ u[1] = c /\ u[2] = t[1] /\ u[3] = t[2]
  BY <1>3, <1>4, <1>6
<1> QED
  BY <1>3, <1>4, <1>5, <1>6, <1>7, Zenon DEF Leads, c, a, t, u

\* A Host header with an address in brackets, without a port and with one.
LEMMA HeaderInBrackets ==
  ASSUME NEW S, HoldsBrackets(S), NEW host \in Seq(S), host # <<>>, Without(host, "]"),
         NEW default
  PROVE  parseHostHeader(Opened(host) \o Closing, default) = Target(host, default)
<1> DEFINE t == Closing
           value == Opened(host) \o t
           n == Len(host)
<1>1. t \in Seq(S) /\ Len(t) = 1 /\ Leads(t, "]")
  <2>1. Sign("]") \in S
    BY Zenon DEF HoldsBrackets
  <2> DEFINE c == Sign("]")
  <2> HIDE DEF c
  <2>2. <<c>> \in Seq(S) /\ Len(<<c>>) = 1 /\ <<c>> # <<>> /\ <<c>>[1] = c
    BY <2>1 DEF c
  <2> QED
    BY <2>2, Zenon DEF Leads, Closing, c
<1>2. IsBracketed(value, host, t)
  BY <1>1, BracketsAre, Zenon
<1> HIDE DEF value, t
<1>3. /\ value # <<>> /\ value[1] = Sign("[") /\ First(Places(value, "]")) = n + 2
      /\ SubSeq(value, 2, n + 1) = host /\ n \in Nat /\ Len(value) = n + 1 + Len(t)
  BY <1>2, Zenon DEF IsBracketed
<1>4. n + 2 # 0 /\ (n + 2) - 1 = n + 1 /\ ~(n + 2 < Len(value))
  BY <1>1, <1>3
<1> HIDE DEF n
<1>5. parseHostHeader(value, default) =
        LET end == First(Places(value, "]"))
            h == SubSeq(value, 2, end - 1)
        IN IF end = 0 THEN Fails
           ELSE IF end < Len(value) /\ value[end + 1] = Sign(":") THEN WithPort(h, value, end + 2)
                ELSE Target(h, default)
  BY <1>3, Zenon DEF parseHostHeader
<1> QED
  BY <1>3, <1>4, <1>5, Zenon DEF value, t

\* A Host header with an address in brackets and a port.
LEMMA HeaderBracketsPort ==
  ASSUME PortsFit, NEW S, HoldsBrackets(S), NEW host \in Seq(S), host # <<>>,
         Without(host, "]"), NEW default, NEW p, IsPort(p), HoldsPort(S, p)
  PROVE  parseHostHeader(Opened(host) \o (Closing \o PortPart(p)), default) = Target(host, p)
<1> DEFINE t == Closing \o PortPart(p)
           value == Opened(host) \o t
           n == Len(host)
<1>1. /\ t \in Seq(S) /\ Len(t) = 3 /\ Leads(t, "]") /\ t[2] = Colon /\ t[3] = <<"num", p>>
  BY ClosedPort, Zenon
<1>2. IsBracketed(value, host, t)
  BY <1>1, BracketsAre, Zenon
<1> HIDE DEF value, t
<1>3. /\ value # <<>> /\ value[1] = Sign("[") /\ First(Places(value, "]")) = n + 2
      /\ SubSeq(value, 2, n + 1) = host /\ n \in Nat /\ Len(value) = n + 1 + Len(t)
      /\ DOMAIN value = 1 .. n + 1 + Len(t) /\ \A i \in 1 .. Len(t) : value[n + 1 + i] = t[i]
  BY <1>2, Zenon DEF IsBracketed
<1> HIDE DEF n
<1>4. /\ n + 2 # 0 /\ (n + 2) - 1 = n + 1 /\ n + 2 < Len(value) /\ (n + 2) + 1 = n + 1 + 2
      /\ (n + 2) + 2 = n + 1 + 3 /\ n + 1 + 3 \in DOMAIN value
  BY <1>1, <1>3
<1>5. value[(n + 2) + 1] = Sign(":") /\ value[(n + 2) + 2] = <<"num", p>>
  <2>1. value[n + 1 + 2] = t[2] /\ value[n + 1 + 3] = t[3]
    BY <1>1, <1>3
  <2> QED
    BY <1>1, <1>4, <2>1, Zenon DEF Colon
<1>6. (n + 2) + 2 \in DOMAIN value
  BY <1>4, Zenon
<1>7. parseHostHeader(value, default) =
        LET end == First(Places(value, "]"))
            h == SubSeq(value, 2, end - 1)
        IN IF end = 0 THEN Fails
           ELSE IF end < Len(value) /\ value[end + 1] = Sign(":") THEN WithPort(h, value, end + 2)
                ELSE Target(h, default)
  BY <1>3, Zenon DEF parseHostHeader
<1>8. parseHostHeader(value, default) = WithPort(host, value, (n + 2) + 2)
  BY <1>3, <1>4, <1>5, <1>7, Zenon
<1> DEFINE i == (n + 2) + 2
<1> HIDE DEF i
<1>9. value[i] = <<"num", p>> /\ i \in DOMAIN value
  BY <1>5, <1>6, Zenon DEF i
<1>10. WithPort(host, value, i) = Target(host, p)
  BY <1>9, PortRead
<1> QED
  BY <1>8, <1>10, Zenon DEF value, t, i

\* What stands before the first slash.
LEMMA AuthorityIs ==
  ASSUME NEW S, NEW s \in Seq(S), Without(s, "/"), NEW t \in Seq(S), t = <<>> \/ Leads(t, "/")
  PROVE  Authority(s \o t) = s
<1>1. CASE t = <<>>
  <2>1. s \o t = s
    BY <1>1, ConcatEmptySeq, Zenon
  <2>2. First(Places(s, "/")) = 0
    BY NoPlace, Zenon
  <2> QED
    BY <2>1, <2>2, Zenon DEF Authority
<1>2. CASE Leads(t, "/")
  <2> DEFINE u == s \o t
             n == Len(s)
  <2>1. First(Places(u, "/")) = n + 1
    BY <1>2, FirstPlace
  <2>2. n \in Nat
    OBVIOUS
  <2>3. SubSeq(u, 1, n) = s
    <3>1. CASE n = 0
      <4>1. s = <<>> /\ SubSeq(u, 1, 0) = <<>>
        BY <3>1, SubSeqEmpty
      <4> QED
        BY <3>1, <4>1, Zenon
    <3>2. CASE n # 0
      <4>1. 1 \in 1 .. n
        BY <2>2, <3>2
      <4>2. n \in 1 .. n
        BY <2>2, <3>2
      <4>3. SubSeq(u, 1, n) = SubSeq(s, 1, n)
        BY <4>1, <4>2, SubSeqOfConcat1, Zenon
      <4> QED
        BY <4>3, SubSeqFull, Zenon
    <3> QED
      BY <3>1, <3>2
  <2> HIDE DEF u, n
  <2>4. n + 1 # 0 /\ (n + 1) - 1 = n
    BY <2>2
  <2>5. Authority(u) = SubSeq(u, 1, n)
    BY <2>1, <2>4, Zenon DEF Authority
  <2> QED
    BY <2>3, <2>5, Zenon DEF u
<1> QED
  BY <1>1, <1>2, Zenon

\* What parseWsUrl makes of an authority.
WhereOf(authority) ==
  LET end == First(Places(authority, "]"))
      colons == Places(authority, ":")
      after == First({i \in colons : i > end})
  IN IF authority # <<>> /\ authority[1] = Sign("[")
     THEN IF end = 0 THEN Fails
          ELSE IF after # 0 THEN WithPort(SubSeq(authority, 2, end - 1), authority, after + 1)
          ELSE Target(SubSeq(authority, 2, end - 1), 443)
     ELSE IF colons = {First(colons)}
          THEN WithPort(SubSeq(authority, 1, First(colons) - 1), authority, First(colons) + 1)
          ELSE Target(authority, 443)

\* What parseWsUrl reads is the authority behind a known scheme.
LEMMA UrlIs ==
  ASSUME NEW url
  PROVE  /\ parseWsUrl(url).where =
              WhereOf(Authority(IF SchemeOf(url) \in {"wss", "ws", "https", "http"}
                                THEN Tail(url) ELSE url))
         /\ parseWsUrl(url).tls <=> SchemeOf(url) \notin {"ws", "http"}
BY DEF parseWsUrl, WhereOf

\* A tunnel URL without a port: 443.
LEMMA WherePlain ==
  ASSUME NEW S, NEW host \in Seq(S), IsPlain(host), Without(host, ":")
  PROVE  WhereOf(host) = Target(host, 443)
<1>1. Places(host, ":") = {}
  BY NoPlace, Zenon
<1>2. Places(host, ":") # {First(Places(host, ":"))}
  BY <1>1, Zenon
<1> QED
  BY <1>2, Zenon DEF WhereOf, IsPlain

\* A tunnel URL with a name and a port.
LEMMA WhereWithPort ==
  ASSUME PortsFit, NEW S, NEW host \in Seq(S), IsPlain(host), Without(host, ":"),
         NEW p, IsPort(p), HoldsPort(S, p)
  PROVE  WhereOf(host \o PortPart(p)) = Target(host, p)
<1> DEFINE t == PortPart(p)
           value == host \o t
           n == Len(host)
<1>1. t \in Seq(S) /\ Len(t) = 2 /\ t[2] = <<"num", p>> /\ LeadsOnly(t, ":") /\ Leads(t, ":")
  BY PortPartIs, Zenon DEF LeadsOnly
<1>2. host # <<>> /\ host[1] # Sign("[")
  BY Zenon DEF IsPlain
<1> HIDE DEF t
<1>3. First(Places(value, ":")) = n + 1 /\ Places(value, ":") = {n + 1}
  BY <1>1, FirstPlace
<1>4. IsJoined(value, host, t)
  BY <1>1, <1>2, PartsOfJoined, Zenon
<1> HIDE DEF value, n
<1>5. /\ SubSeq(value, 1, n) = host /\ value[1] = host[1] /\ DOMAIN value = 1 .. n + Len(t)
      /\ n \in Nat \ {0} /\ \A i \in 1 .. Len(t) : value[n + i] = t[i]
  BY <1>4, Zenon DEF IsJoined, n
<1>6. (n + 1) - 1 = n /\ (n + 1) + 1 = n + 2 /\ value[n + 2] = t[2] /\ n + 2 \in DOMAIN value
  BY <1>1, <1>5
<1>7. WhereOf(value) = WithPort(host, value, n + 2)
  <2>1. value[1] # Sign("[")
    BY <1>2, <1>5, Zenon
  <2>2. Places(value, ":") = {First(Places(value, ":"))}
    BY <1>3, Zenon
  <2>3. WhereOf(value) = WithPort(SubSeq(value, 1, First(Places(value, ":")) - 1), value,
                                  First(Places(value, ":")) + 1)
    BY <2>1, <2>2, Zenon DEF WhereOf
  <2> QED
    BY <1>3, <1>5, <1>6, <2>3, Zenon
<1> DEFINE i == n + 2
<1> HIDE DEF i
<1>8. value[i] = <<"num", p>> /\ i \in DOMAIN value
  BY <1>1, <1>6, Zenon DEF i
<1>9. WithPort(host, value, i) = Target(host, p)
  BY <1>8, PortRead
<1> QED
  BY <1>7, <1>9, Zenon DEF value, t, i

\* A tunnel URL with an address in brackets and no port.
LEMMA WhereInBrackets ==
  ASSUME NEW S, HoldsBrackets(S), NEW host \in Seq(S), host # <<>>, Without(host, "]")
  PROVE  WhereOf(Opened(host) \o Closing) = Target(host, 443)
<1> DEFINE t == Closing
           value == Opened(host) \o t
           n == Len(host)
           after == {i \in Places(value, ":") : i > n + 2}
<1>1. t \in Seq(S) /\ Len(t) = 1 /\ Leads(t, "]")
  <2>1. Sign("]") \in S
    BY Zenon DEF HoldsBrackets
  <2> DEFINE c == Sign("]")
  <2> HIDE DEF c
  <2>2. <<c>> \in Seq(S) /\ Len(<<c>>) = 1 /\ <<c>> # <<>> /\ <<c>>[1] = c
    BY <2>1 DEF c
  <2> QED
    BY <2>2, Zenon DEF Leads, Closing, c
<1>2. IsBracketed(value, host, t)
  BY <1>1, BracketsAre, Zenon
<1> HIDE DEF value, t
<1>3. /\ value # <<>> /\ value[1] = Sign("[") /\ First(Places(value, "]")) = n + 2
      /\ SubSeq(value, 2, n + 1) = host /\ n \in Nat /\ DOMAIN value = 1 .. n + 1 + Len(t)
  BY <1>2, Zenon DEF IsBracketed
<1> HIDE DEF n
<1>4. n + 2 # 0 /\ (n + 2) - 1 = n + 1
  BY <1>3
<1>5. after = {}
  <2>1. \A i \in DOMAIN value : ~(i > n + 2)
    BY <1>1, <1>3
  <2>2. Places(value, ":") \subseteq DOMAIN value
    BY Zenon DEF Places
  <2> QED
    BY <2>1, <2>2, Zenon
<1>6. First(after) = 0
  BY <1>5, Zenon DEF First
<1>7. WhereOf(value) =
        LET end == First(Places(value, "]"))
            first == First({i \in Places(value, ":") : i > end})
        IN IF end = 0 THEN Fails
           ELSE IF first # 0 THEN WithPort(SubSeq(value, 2, end - 1), value, first + 1)
           ELSE Target(SubSeq(value, 2, end - 1), 443)
  BY <1>3, Zenon DEF WhereOf
<1>8. WhereOf(value) = Target(host, 443)
  BY <1>3, <1>4, <1>6, <1>7, Zenon
<1> QED
  BY <1>8, Zenon DEF value, t

\* A tunnel URL with an address in brackets and a port.
LEMMA WhereBracketsPort ==
  ASSUME PortsFit, NEW S, HoldsBrackets(S), NEW host \in Seq(S), host # <<>>,
         Without(host, "]"), NEW p, IsPort(p), HoldsPort(S, p)
  PROVE  WhereOf(Opened(host) \o (Closing \o PortPart(p))) = Target(host, p)
<1> DEFINE t == Closing \o PortPart(p)
           value == Opened(host) \o t
           n == Len(host)
           after == {i \in Places(value, ":") : i > n + 2}
<1>1. /\ t \in Seq(S) /\ Len(t) = 3 /\ Leads(t, "]") /\ t[2] = Colon /\ t[3] = <<"num", p>>
  BY ClosedPort, Zenon
<1>2. IsBracketed(value, host, t)
  BY <1>1, BracketsAre, Zenon
<1> HIDE DEF value, t
<1>3. /\ value # <<>> /\ value[1] = Sign("[") /\ First(Places(value, "]")) = n + 2
      /\ SubSeq(value, 2, n + 1) = host /\ n \in Nat
      /\ DOMAIN value = 1 .. n + 1 + Len(t) /\ \A i \in 1 .. Len(t) : value[n + 1 + i] = t[i]
  BY <1>2, Zenon DEF IsBracketed
<1> HIDE DEF n
<1>4. /\ n + 2 # 0 /\ (n + 2) - 1 = n + 1 /\ n + 3 \in DOMAIN value /\ (n + 3) + 1 \in DOMAIN value
      /\ n + 3 # 0
  BY <1>1, <1>3
<1>5. value[n + 3] = Sign(":") /\ value[(n + 3) + 1] = <<"num", p>>
  <2>1. n + 1 + 2 = n + 3 /\ n + 1 + 3 = (n + 3) + 1
    BY <1>3
  <2>2. value[n + 1 + 2] = t[2] /\ value[n + 1 + 3] = t[3]
    BY <1>1, <1>3
  <2> QED
    BY <1>1, <2>1, <2>2, Zenon DEF Colon
<1>6. First(after) = n + 3
  <2>1. n + 3 \in Places(value, ":")
    BY <1>4, <1>5, Zenon DEF Places
  <2>2. Places(value, ":") \subseteq DOMAIN value
    BY Zenon DEF Places
  <2> DEFINE P == Places(value, ":")
  <2> HIDE DEF P
  <2>3. n + 3 \in {i \in P : i > n + 2} /\ {i \in P : i > n + 2} \in SUBSET Nat
        /\ \A i \in {i \in P : i > n + 2} : n + 3 <= i
    BY <1>3, <2>1, <2>2 DEF P
  <2> QED
    BY <2>3, FirstIs, Zenon DEF P
<1>7. WhereOf(value) =
        LET end == First(Places(value, "]"))
            first == First({i \in Places(value, ":") : i > end})
        IN IF end = 0 THEN Fails
           ELSE IF first # 0 THEN WithPort(SubSeq(value, 2, end - 1), value, first + 1)
           ELSE Target(SubSeq(value, 2, end - 1), 443)
  BY <1>3, Zenon DEF WhereOf
<1>8. WhereOf(value) = WithPort(host, value, (n + 3) + 1)
  BY <1>3, <1>4, <1>6, <1>7, Zenon
<1> DEFINE i == (n + 3) + 1
<1> HIDE DEF i
<1>9. value[i] = <<"num", p>> /\ i \in DOMAIN value
  BY <1>4, <1>5, Zenon DEF i
<1>10. WithPort(host, value, i) = Target(host, p)
  BY <1>9, PortRead
<1> QED
  BY <1>8, <1>10, Zenon DEF value, t, i

\* A sign that is in neither of two texts is not in both together.
LEMMA WithoutJoined ==
  ASSUME NEW S, NEW s \in Seq(S), NEW t \in Seq(S), NEW sign, Without(s, sign), Without(t, sign)
  PROVE  Without(s \o t, sign)
<1>1. Len(s) \in Nat /\ Len(t) \in Nat
  OBVIOUS
<1>2. /\ Len(s \o t) = Len(s) + Len(t)
      /\ \A i \in 1 .. Len(s) + Len(t) : (s \o t)[i] = IF i <= Len(s) THEN s[i] ELSE t[i - Len(s)]
  BY Joined
<1> DEFINE u == s \o t
<1> HIDE DEF u
<1>3. ASSUME NEW i \in 1 .. Len(u) PROVE u[i] # Sign(sign)
  <2>1. CASE i <= Len(s)
    <3>1. u[i] = s[i] /\ i \in 1 .. Len(s)
      BY <1>1, <1>2, <2>1 DEF u
    <3> QED
      BY <3>1, Zenon DEF Without
  <2>2. CASE i > Len(s)
    <3>1. u[i] = t[i - Len(s)] /\ i - Len(s) \in 1 .. Len(t)
      BY <1>1, <1>2, <2>2 DEF u
    <3> QED
      BY <3>1, Zenon DEF Without
  <2> QED
    BY <1>1, <1>2, <2>1, <2>2 DEF u
<1> QED
  BY <1>3, Zenon DEF Without, u

\* The texts of the questions.
Schemes == {"ws", "wss", "http", "https", "ftp"}
Tokens ==
  {Sign("["), Sign("]"), Sign(":"), Sign("/"), <<"name", "h">>, <<"name", "p">>}
    \cup {<<"num", n>> : n \in Nat} \cup {<<"scheme", w>> : w \in Schemes}

\* The parts of texts contain brackets, colons and every port.
LEMMA TokensHold ==
  /\ HoldsBrackets(Tokens) /\ \A p : IsPort(p) => HoldsPort(Tokens, p)
<1>1. ASSUME NEW p, IsPort(p) PROVE <<"num", p>> \in Tokens
  BY <1>1, SMT DEF Tokens, IsPort
<1> QED
  BY <1>1, Zenon DEF HoldsBrackets, HoldsPort, Tokens, Colon

\* A host has no single colon and neither a closing bracket nor a slash.
IsHost(host) ==
  /\ host \in Seq(Tokens) /\ IsPlain(host) /\ NoSingleColon(host)
  /\ Without(host, "]") /\ Without(host, "/") /\ host[1][1] # "scheme"

\* The hosts that are asked about are hosts.
LEMMA HostsAre ==
  /\ IsHost(HostName) /\ Without(HostName, ":") /\ HostName # HostV6
  /\ IsHost(HostV6)
<1> DEFINE h == <<"name", "h">>
           n == <<"num", 1>>
<1>1. /\ h \in Tokens /\ n \in Tokens /\ Colon \in Tokens
      /\ h # Colon /\ h # Sign("]") /\ h # Sign("[") /\ h # Sign("/") /\ h[1] # "scheme"
      /\ n # Colon /\ n # Sign("]") /\ n # Sign("[") /\ n # Sign("/")
      /\ Colon # Sign("]") /\ Colon # Sign("[") /\ Colon # Sign("/") /\ Colon[1] # "scheme"
  BY SMT DEF Tokens, Colon, Sign
<1>2. HostName = <<h>> /\ HostV6 = <<Colon, Colon, n>>
  BY Zenon DEF HostName, HostV6
<1> HIDE DEF h, n
<1>3. HostName \in Seq(Tokens) /\ Len(HostName) = 1 /\ HostName[1] = h /\ HostName # <<>>
  BY <1>1, <1>2
<1>4. /\ HostV6 \in Seq(Tokens) /\ Len(HostV6) = 3 /\ HostV6 # <<>>
      /\ HostV6[1] = Colon /\ HostV6[2] = Colon /\ HostV6[3] = n
  BY <1>1, <1>2
<1> HIDE DEF Colon
<1>5. ASSUME NEW sign, h # Sign(sign) PROVE Without(HostName, sign)
  BY <1>3, <1>5 DEF Without
<1>6. ASSUME NEW sign, n # Sign(sign), Colon # Sign(sign) PROVE Without(HostV6, sign)
  BY <1>4, <1>6 DEF Without
<1>7. Colon = Sign(":")
  BY Zenon DEF Colon
<1>8. Places(HostName, ":") = {}
  <2>1. Without(HostName, ":")
    BY <1>1, <1>5, <1>7, Zenon
  <2> QED
    BY <1>3, <2>1, NoPlace, Zenon
<1>9. NoSingleColon(HostName)
  BY <1>8, Zenon DEF NoSingleColon
<1>10. NoSingleColon(HostV6)
  <2>1. 1 \in DOMAIN HostV6 /\ 2 \in DOMAIN HostV6
    BY <1>4
  <2>2. 1 \in Places(HostV6, ":") /\ 2 \in Places(HostV6, ":")
    BY <1>4, <1>7, <2>1, Zenon DEF Places
  <2> QED
    BY <2>2 DEF NoSingleColon
<1>11. HostName # HostV6
  BY <1>1, <1>3, <1>4, Zenon
<1> QED
  BY <1>1, <1>3, <1>4, <1>5, <1>6, <1>7, <1>9, <1>10, <1>11, Zenon DEF IsHost, IsPlain

\* How an authority spells a host that brackets are taken off, and how it is read again.
SpeltAs(host, bracketed, port) ==
  IF bracketed
  THEN IF port = 0 THEN Opened(host) \o Closing ELSE Opened(host) \o (Closing \o PortPart(port))
  ELSE IF port = 0 THEN host ELSE host \o PortPart(port)

\* The text can be followed by a path and preceded by a scheme.
IsAuthority(text) ==
  text \in Seq(Tokens) /\ text # <<>> /\ Without(text, "/") /\ text[1][1] # "scheme"

PortOr(port, default) == IF port = 0 THEN default ELSE port

\* An address in brackets is an authority, whatever follows it up to the path.
LEMMA BracketTexts ==
  ASSUME NEW host, IsHost(host), NEW t \in Seq(Tokens), Without(t, "/")
  PROVE  IsAuthority(Opened(host) \o t) /\ Opened(host) \in Seq(Tokens)
<1> DEFINE o == Sign("[")
           s == <<o>>
           a == s \o host
           u == a \o t
<1>1. o \in Tokens /\ o # Sign("/") /\ o[1] # "scheme"
  BY SMT DEF Tokens, Sign
<1>2. host \in Seq(Tokens) /\ Without(host, "/")
  BY Zenon DEF IsHost
<1> HIDE DEF o
<1>3. s \in Seq(Tokens) /\ s # <<>> /\ s[1] = o /\ Len(s) = 1
  BY <1>1
<1>4. Without(s, "/")
  BY <1>1, <1>3 DEF Without
<1> HIDE DEF s
<1>5. a \in Seq(Tokens) /\ IsJoined(a, s, host) /\ Without(a, "/")
  BY <1>2, <1>3, <1>4, Joined, PartsOfJoined, WithoutJoined, Zenon
<1> HIDE DEF a
<1>6. a # <<>> /\ a[1] = o
  BY <1>3, <1>5, Zenon DEF IsJoined
<1>7. u \in Seq(Tokens) /\ IsJoined(u, a, t) /\ Without(u, "/")
  BY <1>5, <1>6, Joined, PartsOfJoined, WithoutJoined, Zenon
<1> HIDE DEF u
<1>8. u # <<>> /\ u[1] = o
  BY <1>6, <1>7, Zenon DEF IsJoined
<1> QED
  BY <1>1, <1>5, <1>7, <1>8, Zenon DEF IsAuthority, u, a, s, o, Opened

\* The parts of a port, with and without the closing bracket.
LEMMA PortTexts ==
  ASSUME NEW p, IsPort(p)
  PROVE  /\ PortPart(p) \in Seq(Tokens) /\ Without(PortPart(p), "/")
         /\ Closing \in Seq(Tokens) /\ Without(Closing, "/")
         /\ Closing \o PortPart(p) \in Seq(Tokens) /\ Without(Closing \o PortPart(p), "/")
<1> DEFINE n == <<"num", p>>
           c == Sign("]")
           t == PortPart(p)
<1>1. Colon # Sign("/") /\ n # Sign("/") /\ c # Sign("/") /\ c \in Tokens
  BY SMT DEF Colon, Sign, Tokens
<1>2. HoldsPort(Tokens, p)
  BY TokensHold, Zenon
<1>3. t \in Seq(Tokens) /\ Len(t) = 2 /\ t[1] = Colon /\ t[2] = n
  BY <1>2, PortPartIs, Zenon
<1> HIDE DEF n, c, t, Colon
<1>4. Without(t, "/")
  BY <1>1, <1>3 DEF Without
<1>5. Closing = <<c>>
  BY Zenon DEF Closing, c
<1>6. Closing \in Seq(Tokens) /\ Len(Closing) = 1 /\ Closing[1] = c
  BY <1>1, <1>5
<1>7. Without(Closing, "/")
  BY <1>1, <1>6 DEF Without
<1>8. Closing \o t \in Seq(Tokens) /\ Without(Closing \o t, "/")
  BY <1>3, <1>4, <1>6, <1>7, Joined, WithoutJoined, Zenon
<1> QED
  BY <1>3, <1>4, <1>6, <1>7, <1>8, Zenon DEF t

ReadAs(text, host, port, default) ==
  /\ IsAuthority(text)
  /\ parseHostHeader(text, default) = Target(host, PortOr(port, default))
  /\ WhereOf(text) = Target(host, PortOr(port, 443))

\* Whatever the port, the host and the port are read from the text as they were meant.
THEOREM SpeltIsRead ==
  ASSUME PortsFit, NEW host, IsHost(host), NEW bracketed \in BOOLEAN,
         bracketed \/ Without(host, ":"), NEW port, IsPort(port), NEW default
  PROVE  ReadAs(SpeltAs(host, bracketed, port), host, port, default)
<1> DEFINE text == SpeltAs(host, bracketed, port)
<1>1. /\ host \in Seq(Tokens) /\ host # <<>> /\ IsPlain(host) /\ NoSingleColon(host)
      /\ Without(host, "]") /\ Without(host, "/") /\ host[1][1] # "scheme"
  BY Zenon DEF IsHost, IsPlain
<1>2. HoldsBrackets(Tokens) /\ HoldsPort(Tokens, port)
  BY TokensHold, Zenon
<1>3. /\ PortPart(port) \in Seq(Tokens) /\ Without(PortPart(port), "/")
      /\ Closing \in Seq(Tokens) /\ Without(Closing, "/")
      /\ Closing \o PortPart(port) \in Seq(Tokens) /\ Without(Closing \o PortPart(port), "/")
  BY PortTexts, Zenon
<1>4. CASE bracketed /\ port = 0
  <2>1. text = Opened(host) \o Closing /\ PortOr(port, default) = default /\ PortOr(port, 443) = 443
    BY <1>4, Zenon DEF SpeltAs, PortOr
  <2>2. IsAuthority(Opened(host) \o Closing)
    BY <1>3, BracketTexts, Zenon
  <2>3. parseHostHeader(Opened(host) \o Closing, default) = Target(host, default)
    BY <1>1, <1>2, HeaderInBrackets, Zenon
  <2>4. WhereOf(Opened(host) \o Closing) = Target(host, 443)
    BY <1>1, <1>2, WhereInBrackets, Zenon
  <2> QED
    BY <2>1, <2>2, <2>3, <2>4, Zenon DEF ReadAs
<1>5. CASE bracketed /\ port # 0
  <2>1. /\ text = Opened(host) \o (Closing \o PortPart(port))
        /\ PortOr(port, default) = port /\ PortOr(port, 443) = port
    BY <1>5, Zenon DEF SpeltAs, PortOr
  <2>2. IsAuthority(Opened(host) \o (Closing \o PortPart(port)))
    BY <1>3, BracketTexts, Zenon
  <2>3. parseHostHeader(Opened(host) \o (Closing \o PortPart(port)), default) = Target(host, port)
    BY <1>1, <1>2, HeaderBracketsPort
  <2>4. WhereOf(Opened(host) \o (Closing \o PortPart(port))) = Target(host, port)
    BY <1>1, <1>2, WhereBracketsPort, Zenon
  <2> QED
    BY <2>1, <2>2, <2>3, <2>4, Zenon DEF ReadAs
<1>6. CASE ~bracketed /\ port = 0
  <2>1. text = host /\ PortOr(port, default) = default /\ PortOr(port, 443) = 443
    BY <1>6, Zenon DEF SpeltAs, PortOr
  <2>2. IsAuthority(host)
    BY <1>1, Zenon DEF IsAuthority
  <2>3. parseHostHeader(host, default) = Target(host, default)
    BY <1>1, HeaderAlone, Zenon
  <2>4. WhereOf(host) = Target(host, 443)
    BY <1>1, <1>6, WherePlain, Zenon
  <2> QED
    BY <2>1, <2>2, <2>3, <2>4, Zenon DEF ReadAs
<1>7. CASE ~bracketed /\ port # 0
  <2>1. /\ text = host \o PortPart(port)
        /\ PortOr(port, default) = port /\ PortOr(port, 443) = port
    BY <1>7, Zenon DEF SpeltAs, PortOr
  <2>2. IsAuthority(host \o PortPart(port))
    <3> DEFINE t == PortPart(port)
               u == host \o t
    <3>1. u \in Seq(Tokens) /\ Without(u, "/") /\ IsJoined(u, host, t)
      BY <1>1, <1>3, Joined, WithoutJoined, PartsOfJoined, Zenon
    <3> HIDE DEF u
    <3>2. u # <<>> /\ u[1] = host[1]
      BY <3>1, Zenon DEF IsJoined
    <3> QED
      BY <1>1, <3>1, <3>2, Zenon DEF IsAuthority, u
  <2>3. parseHostHeader(host \o PortPart(port), default) = Target(host, port)
    BY <1>1, <1>2, <1>7, HeaderWithPort
  <2>4. WhereOf(host \o PortPart(port)) = Target(host, port)
    BY <1>1, <1>2, <1>7, WhereWithPort, Zenon
  <2> QED
    BY <2>1, <2>2, <2>3, <2>4, Zenon DEF ReadAs
<1> QED
  BY <1>4, <1>5, <1>6, <1>7, Zenon

\* How a host and a port are spelt: an IPv6 address in brackets.
LEMMA SpeltIs ==
  ASSUME NEW host, IsHost(host), NEW port, IsPort(port)
  PROVE  Spelt(host, port) = SpeltAs(host, host = HostV6, port)
<1> DEFINE name == IF host = HostV6 THEN Opened(host) \o Closing ELSE host
           tail == IF port = 0 THEN <<>> ELSE PortPart(port)
<1>1. Spelt(host, port) = name \o tail
  BY Zenon DEF Spelt, Opened, Closing, PortPart
<1>2. /\ PortPart(port) \in Seq(Tokens) /\ Closing \in Seq(Tokens) /\ Without(Closing, "/")
      /\ Closing \o PortPart(port) \in Seq(Tokens)
  BY PortTexts, Zenon
<1>3. Opened(host) \in Seq(Tokens) /\ Opened(host) \o Closing \in Seq(Tokens)
      /\ host \in Seq(Tokens)
  BY <1>2, BracketTexts, Zenon DEF IsAuthority, IsHost
<1>4. CASE port = 0
  <2>1. name \in Seq(Tokens)
    BY <1>3, Zenon
  <2>2. tail = <<>>
    BY <1>4, Zenon
  <2> DEFINE n == name
  <2> HIDE DEF n
  <2>3. n \o <<>> = n
    BY <2>1, ConcatEmptySeq, Zenon DEF n
  <2>4. name \o tail = name
    BY <2>2, <2>3, Zenon DEF n
  <2>5. SpeltAs(host, host = HostV6, port) = name
    BY <1>4, Zenon DEF SpeltAs
  <2> QED
    BY <1>1, <2>4, <2>5, Zenon
<1>5. CASE port # 0
  <2>1. tail = PortPart(port)
    BY <1>5, Zenon
  <2>2. (Opened(host) \o Closing) \o PortPart(port) = Opened(host) \o (Closing \o PortPart(port))
    BY <1>2, <1>3, ConcatAssociative
  <2>3. CASE host = HostV6
    <3>1. SpeltAs(host, host = HostV6, port) = Opened(host) \o (Closing \o PortPart(port))
      BY <1>5, <2>3, Zenon DEF SpeltAs
    <3>2. name = Opened(host) \o Closing
      BY <2>3, Zenon
    <3> QED
      BY <1>1, <2>1, <2>2, <3>1, <3>2, Zenon
  <2>4. CASE host # HostV6
    <3>1. SpeltAs(host, host = HostV6, port) = host \o PortPart(port) /\ name = host
      BY <1>5, <2>4, Zenon DEF SpeltAs
    <3> QED
      BY <1>1, <2>1, <3>1, Zenon
  <2> QED
    BY <2>3, <2>4, Zenon
<1> QED
  BY <1>4, <1>5, Zenon

\* A token in front of a text.
LEMMA TokenInFront ==
  ASSUME NEW S, NEW tok \in S, NEW s \in Seq(S)
  PROVE  /\ Tail(<<tok>> \o s) = s /\ (<<tok>> \o s)[1] = tok /\ <<tok>> \o s # <<>>
         /\ <<tok>> \in Seq(S)
<1> DEFINE a == <<tok>>
           u == a \o s
<1>1. a \in Seq(S) /\ Len(a) = 1 /\ a[1] = tok /\ a # <<>>
  OBVIOUS
<1> HIDE DEF a
<1>2. u \in Seq(S) /\ IsJoined(u, a, s)
  BY <1>1, Joined, PartsOfJoined, Zenon
<1> HIDE DEF u
<1>3. /\ u # <<>> /\ u[1] = a[1] /\ Len(u) = Len(a) + Len(s)
      /\ \A i \in 1 .. Len(s) : u[Len(a) + i] = s[i]
  BY <1>2, Zenon DEF IsJoined
<1>4. /\ Tail(u) \in Seq(S) /\ Len(Tail(u)) = Len(u) - 1
      /\ \A i \in 1 .. Len(Tail(u)) : Tail(u)[i] = u[i + 1]
  BY <1>2, <1>3, HeadTailProperties, Zenon
<1>5. Tail(u) = s
  <2> DEFINE t == Tail(u)
  <2>1. t \in Seq(S) /\ Len(t) = Len(u) - 1 /\ \A i \in 1 .. Len(t) : t[i] = u[i + 1]
    BY <1>4, Zenon
  <2> HIDE DEF t
  <2>2. Len(t) = Len(s) /\ \A i \in 1 .. Len(t) : t[i] = s[i]
    <3>1. Len(s) \in Nat
      OBVIOUS
    <3>2. Len(t) = Len(s)
      BY <1>1, <1>3, <2>1, <3>1
    <3>3. ASSUME NEW i \in 1 .. Len(t) PROVE t[i] = s[i]
      <4>1. t[i] = u[i + 1] /\ i + 1 = 1 + i
        BY <2>1, <3>1, <3>2
      <4>2. u[1 + i] = s[i]
        BY <1>1, <1>3, <3>2
      <4> QED
        BY <4>1, <4>2, Zenon
    <3> QED
      BY <3>2, <3>3, Zenon
  <2>3. t = s
    BY <2>1, <2>2, SeqEqual, Zenon
  <2> QED
    BY <2>3, Zenon DEF t
<1> QED
  BY <1>1, <1>3, <1>5, Zenon DEF u, a

\* A path behind an authority, and the text of a URL without and with a scheme.
IsPath(path) == path \in Seq(Tokens) /\ (path = <<>> \/ Leads(path, "/"))

\* A target that names no scheme is all authority and path.
LEMMA WithoutScheme ==
  ASSUME NEW text, IsAuthority(text), NEW path, IsPath(path)
  PROVE  /\ Authority(text \o path) = text
         /\ Scheme("none") \o text \o path = text \o path
         /\ SchemeOf(text \o path) = "none"
<1>1. text \in Seq(Tokens) /\ text # <<>> /\ Without(text, "/") /\ text[1][1] # "scheme"
  BY Zenon DEF IsAuthority
<1>2. path \in Seq(Tokens) /\ (path = <<>> \/ Leads(path, "/"))
  BY Zenon DEF IsPath
<1>3. Authority(text \o path) = text
  BY <1>1, <1>2, AuthorityIs, Zenon
<1>4. Scheme("none") \o text = text
  <2>1. Scheme("none") = <<>>
    BY Zenon DEF Scheme
  <2> QED
    BY <1>1, <2>1, ConcatEmptySeq, Zenon
<1> DEFINE u == text \o path
<1>5. IsJoined(u, text, path)
  BY <1>1, <1>2, PartsOfJoined, Zenon
<1>6. u[1] = text[1]
  BY <1>5, Zenon DEF IsJoined
<1>7. SchemeOf(u) = "none"
  BY <1>1, <1>6, Zenon DEF SchemeOf
<1> QED
  BY <1>3, <1>4, <1>7, Zenon

\* A target that names a scheme has the authority and the path behind it.
LEMMA WithScheme ==
  ASSUME NEW text, IsAuthority(text), NEW path, IsPath(path), NEW w \in Schemes
  PROVE  /\ SchemeOf(Scheme(w) \o text \o path) = w
         /\ Tail(Scheme(w) \o text \o path) = text \o path
<1> DEFINE tok == <<"scheme", w>>
           rest == text \o path
<1>1. text \in Seq(Tokens) /\ path \in Seq(Tokens)
  BY Zenon DEF IsAuthority, IsPath
<1>2. tok \in Tokens /\ tok[1] = "scheme" /\ tok[2] = w
  BY SMT DEF Tokens
<1>3. Scheme(w) = <<tok>>
  <2>1. w # "none"
    BY SMT DEF Schemes
  <2> QED
    BY <2>1, Zenon DEF Scheme
<1> HIDE DEF tok
<1>4. rest \in Seq(Tokens)
  BY <1>1, Joined, Zenon
<1>5. <<tok>> \in Seq(Tokens)
  BY <1>2, <1>4, TokenInFront, Zenon
<1>6. (<<tok>> \o text) \o path = <<tok>> \o rest
  BY <1>1, <1>5, ConcatAssociative
<1> HIDE DEF rest
<1>7. Tail(<<tok>> \o rest) = rest /\ (<<tok>> \o rest)[1] = tok /\ <<tok>> \o rest # <<>>
  BY <1>2, <1>4, TokenInFront, Zenon
<1>8. SchemeOf(<<tok>> \o rest) = w
  BY <1>2, <1>7, Zenon DEF SchemeOf
<1>9. Scheme(w) \o text \o path = <<tok>> \o rest
  BY <1>3, <1>6, Zenon
<1> QED
  BY <1>7, <1>8, <1>9, Zenon DEF rest

\* What the action that asks about an authority asks.
LEMMA AskedAuthority ==
  ASSUME [Next]_q, q' # q, q'.kind = "authority"
  PROVE  /\ q'.host \in {HostName, HostV6} /\ IsPort(q'.port) /\ IsPath(q'.path)
         /\ q'.scheme \in Schemes \cup {"none"}
<1>1. AskAuthority
  BY WhoAsks, Zenon
<1>2. PICK host \in {HostName, HostV6}, port \in Ports \cup {0}, path \in Paths,
           scheme \in {"none", "ws", "wss", "http", "https", "ftp"} :
        q' = [kind |-> "authority", host |-> host, port |-> port, path |-> path,
              scheme |-> scheme]
  BY <1>1, Zenon DEF AskAuthority, Ask
<1>3. q'.host = host /\ q'.port = port /\ q'.path = path /\ q'.scheme = scheme
  BY <1>2, SMT
<1>4. IsPort(port)
  BY SMT DEF Ports, IsPort
<1>5. IsPath(path)
  <2> DEFINE s == Sign("/")
             n == <<"name", "p">>
             m == <<"num", 9>>
  <2>1. s \in Tokens /\ n \in Tokens /\ m \in Tokens /\ Colon \in Tokens
    BY SMT DEF Tokens, Colon
  <2>2. path \in {<<>>, <<s>>, <<s, n, Colon, m>>}
    BY Zenon DEF Paths
  <2>3. s = Sign("/")
    BY Zenon
  <2> HIDE DEF s, n, m, Colon
  <2>4. <<s>> \in Seq(Tokens) /\ <<s>> # <<>> /\ <<s>>[1] = s
    BY <2>1
  <2>5. /\ <<s, n, Colon, m>> \in Seq(Tokens) /\ <<s, n, Colon, m>> # <<>>
        /\ <<s, n, Colon, m>>[1] = s
    BY <2>1
  <2>6. <<>> \in Seq(Tokens)
    OBVIOUS
  <2> QED
    BY <2>2, <2>3, <2>4, <2>5, <2>6, Zenon DEF IsPath, Leads
<1>6. scheme \in Schemes \cup {"none"}
  BY SMT DEF Schemes
<1> QED
  BY <1>3, <1>4, <1>5, <1>6, Zenon

\* Every question about an authority is answered as it was meant.
LEMMA AsksAuthorities ==
  ASSUME PortsFit, [Next]_q, q' # q
  PROVE  AuthoritiesAreRead' /\ UrlsAreRead'
<1> SUFFICES ASSUME q'.kind = "authority"
             PROVE  AuthoritiesAreRead' /\ UrlsAreRead'
  BY Zenon DEF AuthoritiesAreRead, UrlsAreRead
<1> DEFINE host == q'.host
           port == q'.port
           path == q'.path
           scheme == q'.scheme
           text == Spelt(host, port)
           target == Scheme(scheme) \o text \o path
           web == scheme \in {"http", "https"}
           Or(default) == Target(host, IF port = 0 THEN default ELSE port)
<1>1. /\ host \in {HostName, HostV6} /\ IsPort(port) /\ IsPath(path)
      /\ scheme \in Schemes \cup {"none"}
  BY AskedAuthority, Zenon
<1>2. IsHost(host) /\ (host # HostV6 => Without(host, ":"))
  BY <1>1, HostsAre, Zenon
<1>3. text = SpeltAs(host, host = HostV6, port)
  BY <1>1, <1>2, SpeltIs, Zenon
<1> HIDE DEF text
<1>4. ASSUME NEW default
      PROVE  /\ IsAuthority(text) /\ parseHostHeader(text, default) = Or(default)
             /\ WhereOf(text) = Or(443)
  <2> DEFINE bracketed == host = HostV6
  <2>1. bracketed \in BOOLEAN /\ (bracketed \/ Without(host, ":"))
    BY <1>2, Zenon
  <2>2. text = SpeltAs(host, bracketed, port)
    BY <1>3, Zenon
  <2> HIDE DEF bracketed
  <2>3. ReadAs(text, host, port, default)
    BY <1>1, <1>2, <2>1, <2>2, SpeltIsRead, Zenon
  <2> QED
    BY <2>3, Zenon DEF ReadAs, PortOr
<1> HIDE DEF host, port, path, scheme
<1>5. /\ Authority(text \o path) = text /\ SchemeOf(text \o path) = "none"
      /\ scheme = "none" => target = text \o path
  BY <1>1, <1>4, WithoutScheme, Zenon
<1>6. ASSUME scheme # "none" PROVE SchemeOf(target) = scheme /\ Tail(target) = text \o path
  BY <1>1, <1>4, <1>6, WithScheme, Zenon
<1>7. SchemeOf(target) = scheme
  BY <1>5, <1>6, Zenon
<1> HIDE DEF target
<1>8. text # <<>>
  BY <1>4, Zenon DEF IsAuthority
<1>9. Or(80).ok /\ Or(443).ok
  <2>1. host # <<>>
    BY <1>2, Zenon DEF IsHost, IsPlain
  <2>2. \A h, p : h # <<>> => Target(h, p).ok
    BY DEF Target
  <2> QED
    BY <2>1, <2>2
<1>10. ASSUME web
       PROVE  parseAbsoluteTarget(target) = Or(IF scheme = "http" THEN 80 ELSE 443)
  <2>1. scheme # "none"
    BY <1>10, SMT
  <2>2. Authority(Tail(target)) = text
    BY <1>5, <1>6, <2>1, Zenon
  <2> DEFINE default == IF scheme = "http" THEN 80 ELSE 443
  <2>3. parseAbsoluteTarget(target) = parseHostHeader(text, default)
    BY <1>7, <1>8, <1>10, <2>2, Zenon DEF parseAbsoluteTarget
  <2> HIDE DEF default
  <2>4. parseHostHeader(text, default) = Or(default)
    BY <1>4, Zenon
  <2> QED
    BY <2>3, <2>4, Zenon DEF default
<1>11. ASSUME web PROVE plainTarget(target, Number(6)) = parseAbsoluteTarget(target)
  <2>1. parseAbsoluteTarget(target).ok
    BY <1>9, <1>10, <1>11, Zenon
  <2> QED
    BY <2>1, Zenon DEF plainTarget
<1>12. ASSUME ~web PROVE plainTarget(target, Number(6)) = Target(Number(6), 80)
  <2>1. parseAbsoluteTarget(target) = Fails
    BY <1>7, <1>12, Zenon DEF parseAbsoluteTarget
  <2>2. ~Fails.ok
    BY SMT DEF Fails
  <2>3. plainTarget(target, Number(6)) = parseHostHeader(Number(6), 80)
    BY <2>1, <2>2, Zenon DEF plainTarget
  <2>4. IsPlain(Number(6)) /\ NoSingleColon(Number(6))
    <3> DEFINE n == <<"num", 6>>
    <3>1. n # Sign("[") /\ n # Sign(":") /\ n \in Tokens
      BY SMT DEF Sign, Tokens
    <3> HIDE DEF n
    <3>2. <<n>> \in Seq(Tokens) /\ <<n>> # <<>> /\ <<n>>[1] = n /\ Len(<<n>>) = 1
      BY <3>1
    <3>3. Without(<<n>>, ":")
      BY <3>1, <3>2 DEF Without
    <3>4. Places(<<n>>, ":") = {}
      BY <3>2, <3>3, NoPlace, Zenon
    <3>5. Number(6) = <<n>>
      BY Zenon DEF Number, n
    <3> QED
      BY <3>1, <3>2, <3>4, <3>5, Zenon DEF IsPlain, NoSingleColon
  <2> QED
    BY <2>3, <2>4, HeaderAlone, Zenon
<1>13. ASSUME port = 0 PROVE parseHostHeader(host, 80) = Or(80)
  <2>1. IsPlain(host) /\ NoSingleColon(host)
    BY <1>2, Zenon DEF IsHost
  <2> QED
    BY <1>13, <2>1, HeaderAlone, Zenon
<1>14. AuthoritiesAreRead'
  <2>1. parseHostHeader(text, 443) = Or(443)
    BY <1>4, Zenon
  <2> QED
    BY <2>1, <1>10, <1>11, <1>12, <1>13, Zenon
       DEF AuthoritiesAreRead, host, port, path, scheme, text, target
<1>15. ASSUME scheme # "ftp"
       PROVE  /\ parseWsUrl(target).where = Or(443)
              /\ parseWsUrl(target).tls <=> scheme \in {"wss", "https", "none"}
  <2>1. Authority(IF SchemeOf(target) \in {"wss", "ws", "https", "http"}
                  THEN Tail(target) ELSE target) = text
    <3>1. CASE scheme = "none"
      <4>1. scheme \notin {"wss", "ws", "https", "http"}
        BY <3>1, SMT
      <4> QED
        BY <1>5, <1>7, <3>1, <4>1, Zenon
    <3>2. CASE scheme # "none"
      <4>1. scheme \in {"wss", "ws", "https", "http"}
        BY <1>1, <1>15, <3>2, SMT DEF Schemes
      <4> QED
        BY <1>5, <1>6, <1>7, <3>2, <4>1, Zenon
    <3> QED
      BY <3>1, <3>2, Zenon
  <2>2. /\ parseWsUrl(target).where = WhereOf(text)
        /\ parseWsUrl(target).tls <=> scheme \notin {"ws", "http"}
    BY <1>7, <2>1, UrlIs, Zenon
  <2>3. scheme \notin {"ws", "http"} <=> scheme \in {"wss", "https", "none"}
    BY <1>1, <1>15, SMT DEF Schemes
  <2> QED
    BY <1>4, <2>2, <2>3, Zenon
<1>16. UrlsAreRead'
  BY <1>15, Zenon DEF UrlsAreRead, host, port, path, scheme, text, target
<1> QED
  BY <1>14, <1>16, Zenon

\* What the action that asks about a delay asks.
LEMMA AskedDelay ==
  ASSUME [Next]_q, q' # q, q'.kind = "delay"
  PROVE  q'.base \in Delays /\ q'.max \in Delays /\ q'.attempts \in 0 .. 15
<1>1. AskDelay
  BY WhoAsks, Zenon
<1>2. PICK base \in Delays, max \in Delays \ {3}, attempts \in 0 .. 15 :
        q' = [kind |-> "delay", base |-> base, max |-> max, attempts |-> attempts]
  BY <1>1, Zenon DEF AskDelay, Ask
<1> QED
  BY <1>2, SMT

\* Every question about a delay is answered in range.
LEMMA AsksDelay ==
  ASSUME [Next]_q, q' # q
  PROVE  BackoffGrows'
<1>1. ASSUME q'.kind = "delay", q'.base * 1024 <= MaxInt
      PROVE  /\ delay(q'.base, q'.attempts, q'.max) \in 1 .. q'.max
             /\ delay(q'.base, q'.attempts, q'.max) >= Least(q'.base, q'.max)
             /\ delay(q'.base, q'.attempts + 1, q'.max) >= delay(q'.base, q'.attempts, q'.max)
  <2>1. q'.base \in Delays /\ q'.max \in Delays /\ q'.attempts \in 0 .. 15
    BY <1>1, AskedDelay, SMT
  <2>2. q'.base \in Nat \ {0} /\ q'.max \in Nat \ {0} /\ q'.attempts \in Nat
    BY <2>1, SMT DEF Delays
  <2> DEFINE base == q'.base
             max == q'.max
             attempts == q'.attempts
  <2>3. /\ base \in Nat \ {0} /\ max \in Nat \ {0} /\ attempts \in Nat
        /\ base * 1024 <= MaxInt
    BY <1>1, <2>2, SMT
  <2> HIDE DEF base, max, attempts
  <2>4. /\ delay(base, attempts, max) \in 1 .. max
        /\ delay(base, attempts, max) >= Least(base, max)
        /\ delay(base, attempts + 1, max) >= delay(base, attempts, max)
    BY <2>3, BackoffInRange, SMT
  <2> QED
    BY <2>4, SMT DEF base, max, attempts
<1> QED
  BY <1>1, SMT DEF BackoffGrows

\* What the client computes is in range, for every int into which a port fits: no wait is
\* negative or shorter than the one before it, and the host and the port of a URL, of a
\* CONNECT target, of an absolute target or of a Host header are those it was written with.
THEOREM ClientValuesFit ==
  ASSUME PortsFit
  PROVE  Spec => []ClientValuesInRange
<1>1. Init => ClientValuesInRange
  BY SMT DEF Init, ClientValuesInRange, BackoffGrows, AuthoritiesAreRead, UrlsAreRead
<1>2. ClientValuesInRange /\ [Next]_q => ClientValuesInRange'
  <2> SUFFICES ASSUME ClientValuesInRange, [Next]_q
               PROVE  ClientValuesInRange'
    BY Zenon
  <2>1. CASE q' = q
    BY <2>1, SMT DEF ClientValuesInRange, BackoffGrows, AuthoritiesAreRead, UrlsAreRead
  <2>2. CASE q' # q
    BY <2>2, AsksDelay, AsksAuthorities, Zenon DEF ClientValuesInRange
  <2> QED
    BY <2>1, <2>2, Zenon
<1> QED
  BY <1>1, <1>2, PTL DEF Spec

(* ----------------------------------- reads ----------------------------- *)

\* A set of numbers that is bounded and not empty has a greatest one.
LEMMA GreatestNumber ==
  ASSUME NEW s \in SUBSET Nat, s # {}, NEW n \in Nat, \A x \in s : x <= n
  PROVE  Max(s) \in s /\ \A y \in s : Max(s) >= y
<1> DEFINE T == {k \in Nat : \A y \in s : k >= y}
<1>1. n \in T
  OBVIOUS
<1>2. PICK m \in T : \A k \in T : m <= k
  BY <1>1, LeastNumber
<1>3. m \in s
  <2> SUFFICES ASSUME m \notin s PROVE FALSE
    OBVIOUS
  <2>1. PICK y \in s : TRUE
    OBVIOUS
  <2>2. m - 1 \in Nat /\ \A z \in s : m - 1 >= z
    BY <1>2, <2>1
  <2> QED
    BY <1>2, <2>2
<1>4. \A y \in s : m >= y
  BY <1>2
<1> QED
  BY <1>3, <1>4, Zenon DEF Max

\* The state of readUntil before anything has arrived.
AtFirst == [returned |-> FALSE, ok |-> FALSE, out |-> <<>>, slices |-> 0]

\* What the fold of readUntil says of a set of arrivals, given the smaller sets.
Folded(fold, arrivals, timeoutMs, s) ==
  IF s = {} THEN AtFirst
  ELSE AfterArrival(fold[s \ {Max(s)}], arrivals[Max(s)], timeoutMs)

IsFold(fold, arrivals, timeoutMs, n) ==
  fold = [s \in SUBSET (1 .. n) |-> Folded(fold, arrivals, timeoutMs, s)]

\* The fold exists.
LEMMA FoldExists ==
  ASSUME NEW arrivals, NEW timeoutMs
  PROVE  \A n \in Nat : \E fold : IsFold(fold, arrivals, timeoutMs, n)
<1> DEFINE F(f, s) == Folded(f, arrivals, timeoutMs, s)
           Good(n) == \E f : f = [s \in SUBSET (1 .. n) |-> F(f, s)]
           T == {n \in Nat : Good(n)}
<1>1. Good(0)
  <2> DEFINE f == [s \in SUBSET (1 .. 0) |-> F(<<>>, s)]
  <2>1. \A s \in SUBSET (1 .. 0) : s = {}
    OBVIOUS
  <2>2. \A s \in SUBSET (1 .. 0) : F(f, s) = F(<<>>, s)
    BY <2>1, Zenon DEF Folded
  <2> HIDE DEF F
  <2>3. f = [s \in SUBSET (1 .. 0) |-> F(f, s)]
    BY <2>2, Zenon
  <2> QED
    BY <2>3, Zenon
<1>2. ASSUME NEW n \in Nat, Good(n) PROVE Good(n + 1)
  <2>1. PICK f : f = [s \in SUBSET (1 .. n) |-> F(f, s)]
    BY <1>2
  <2> DEFINE g == [s \in SUBSET (1 .. n + 1) |-> F(f, s)]
  <2>2. \A s \in SUBSET (1 .. n) : g[s] = f[s]
    <3>1. \A s \in SUBSET (1 .. n) : s \in SUBSET (1 .. n + 1)
      OBVIOUS
    <3> HIDE DEF F
    <3> QED
      BY <2>1, <3>1
  <2>3. \A s \in SUBSET (1 .. n + 1) : F(g, s) = F(f, s)
    <3> SUFFICES ASSUME NEW s \in SUBSET (1 .. n + 1), s # {} PROVE F(g, s) = F(f, s)
      BY Zenon DEF Folded
    <3>1. Max(s) \in s /\ \A y \in s : Max(s) >= y
      <4>1. s \in SUBSET Nat /\ n + 1 \in Nat /\ \A x \in s : x <= n + 1
        OBVIOUS
      <4> QED
        BY <4>1, GreatestNumber, Zenon
    <3> DEFINE m == Max(s)
    <3> HIDE DEF m
    <3>2. s \ {m} \in SUBSET (1 .. n)
      <4>1. m \in s /\ \A y \in s : m >= y
        BY <3>1 DEF m
      <4> QED
        BY <4>1
    <3>3. g[s \ {Max(s)}] = f[s \ {Max(s)}]
      BY <2>2, <3>2, Zenon DEF m
    <3> HIDE DEF g
    <3> QED
      BY <3>3, Zenon DEF Folded
  <2>4. g = [s \in SUBSET (1 .. n + 1) |-> F(g, s)]
    <3> HIDE DEF F
    <3> QED
      BY <2>3, Zenon
  <2> HIDE DEF g, F
  <2> QED
    BY <2>4
<1>3. \A n \in Nat : n \in T
  <2> HIDE DEF Good
  <2>1. 0 \in T /\ \A n \in Nat : n \in T => n + 1 \in T
    BY <1>1, <1>2
  <2> HIDE DEF T
  <2> QED
    BY <2>1, AllNumbers
<1> QED
  BY <1>3 DEF IsFold

\* What readUntil gives out when nothing more arrives.
Outcome(state, timeoutMs) ==
  IF state.returned THEN state
  ELSE IF Len(state.out) >= MaxBytes THEN Failed(state.out, state.slices)
  ELSE IF timeoutMs < 0 THEN state
  ELSE Failed(state.out, state.slices + SlicesWaited(timeoutMs))

\* readUntil takes one arrival after the other: run is its state after each of them.
IsRun(run, arrivals, timeoutMs) ==
  /\ run[0] = AtFirst
  /\ \A k \in 1 .. Len(arrivals) : run[k] = AfterArrival(run[k - 1], arrivals[k], timeoutMs)

\* What readUntil gives out comes from such a run.
LEMMA ReadRuns ==
  ASSUME NEW S, NEW arrivals \in Seq(S), NEW timeoutMs
  PROVE  \E run : /\ IsRun(run, arrivals, timeoutMs)
                  /\ readUntil(arrivals, timeoutMs) = Outcome(run[Len(arrivals)], timeoutMs)
<1> DEFINE n == Len(arrivals)
           fold == CHOOSE f : IsFold(f, arrivals, timeoutMs, n)
           run == [k \in 0 .. n |-> fold[1 .. k]]
<1>1. n \in Nat /\ DOMAIN arrivals = 1 .. n
  OBVIOUS
<1>2. IsFold(fold, arrivals, timeoutMs, n)
  BY <1>1, FoldExists
<1>3. readUntil(arrivals, timeoutMs) = Outcome(fold[1 .. n], timeoutMs)
  BY <1>1 DEF readUntil, FoldLeft, MapThenFoldSet, IsFold, Folded, AtFirst, Outcome
<1> HIDE DEF fold
<1>4. run[0] = AtFirst
  <2>1. 1 .. 0 = {} /\ 0 \in 0 .. n
    BY <1>1
  <2>2. fold[{}] = AtFirst
    BY <1>2, Zenon DEF IsFold, Folded
  <2> QED
    BY <2>1, <2>2, Zenon
<1>5. ASSUME NEW k \in 1 .. n
      PROVE  run[k] = AfterArrival(run[k - 1], arrivals[k], timeoutMs)
  <2> DEFINE s == 1 .. k
  <2>1. k \in Nat /\ k <= n /\ k \in s /\ s \in SUBSET Nat /\ \A x \in s : x <= k
    BY <1>1
  <2>2. s # {} /\ Max(s) \in s /\ \A y \in s : Max(s) >= y
    BY <2>1, GreatestNumber, Zenon
  <2> DEFINE m == Max(s)
  <2> HIDE DEF m
  <2>3. m = k
    <3>1. m \in s /\ m >= k
      BY <2>1, <2>2, Zenon DEF m
    <3> QED
      BY <2>1, <3>1
  <2>4. s \ {k} = 1 .. k - 1
    OBVIOUS
  <2>7. s \in SUBSET (1 .. n)
    BY <1>1
  <2> HIDE DEF s
  <2>5. fold[s] = AfterArrival(fold[s \ {k}], arrivals[k], timeoutMs)
    BY <1>2, <2>2, <2>3, <2>7, Zenon DEF IsFold, Folded, m
  <2>6. k \in 0 .. n /\ k - 1 \in 0 .. n
    BY <1>1
  <2> QED
    BY <2>4, <2>5, <2>6, Zenon DEF s
<1> HIDE DEF run
<1>6. IsRun(run, arrivals, timeoutMs)
  BY <1>4, <1>5 DEF IsRun
<1>7. run[n] = fold[1 .. n]
  BY <1>1 DEF run
<1> QED
  BY <1>3, <1>6, <1>7

\* What stands in the beginning of a text stands in the text.
LEMMA BeginOf ==
  ASSUME NEW S, NEW s \in Seq(S), NEW e \in 1 .. Len(s), NEW m \in 1 .. e, NEW n \in 1 .. e
  PROVE  SubSeq(SubSeq(s, 1, e), m, n) = SubSeq(s, m, n)
<1>1. 1 \in 1 .. Len(s) /\ m \in 1 .. e - 1 + 1 /\ n \in 1 .. e - 1 + 1
  OBVIOUS
<1>2. 1 + m - 1 = m /\ 1 + n - 1 = n
  OBVIOUS
<1>3. \A i, j \in 1 .. Len(s) : \A k, l \in 1 .. j - i + 1 :
        SubSeq(SubSeq(s, i, j), k, l) = SubSeq(s, i + k - 1, i + l - 1)
  BY SubSeqOfSubSeq
<1>4. SubSeq(SubSeq(s, 1, e), m, n) = SubSeq(s, 1 + m - 1, 1 + n - 1)
  BY <1>1, <1>3, Zenon
<1> QED
  BY <1>2, <1>4

\* Where a Delim ends in a text.
DelimsIn(s) == {i \in Len(Delim) .. Len(s) : SubSeq(s, i - Len(Delim) + 1, i) = Delim}

\* DelimEnd is the first of them.
LEMMA DelimEndIs ==
  ASSUME NEW s \in Seq(Nat)
  PROVE  /\ DelimsIn(s) = {} => DelimEnd(s) = 0
         /\ DelimsIn(s) # {} => /\ DelimEnd(s) \in DelimsIn(s)
                                /\ \A i \in DelimsIn(s) : DelimEnd(s) <= i
         /\ \A i \in DelimsIn(s) : i \in Nat /\ Len(Delim) <= i /\ i <= Len(s)
         /\ Len(Delim) \in Nat \ {0}
<1> DEFINE D == DelimsIn(s)
<1>1. Len(Delim) \in Nat \ {0} /\ Len(s) \in Nat
  BY ReadAssumption
<1>2. \A i \in D : i \in Nat /\ Len(Delim) <= i /\ i <= Len(s)
  BY <1>1 DEF DelimsIn
<1>3. DelimEnd(s) = IF D = {} THEN 0 ELSE CHOOSE i \in D : \A j \in D : i <= j
  BY Zenon DEF DelimEnd, DelimsIn
<1> HIDE DEF D
<1>4. ASSUME D # {} PROVE DelimEnd(s) \in D /\ \A i \in D : DelimEnd(s) <= i
  <2>1. \E i \in D : \A j \in D : i <= j
    BY <1>2, <1>4, LeastNumber
  <2> QED
    BY <1>3, <1>4, <2>1, Zenon
<1> QED
  BY <1>1, <1>2, <1>3, <1>4, Zenon DEF D

\* In the beginning of a text the same ends are found, as far as it goes.
LEMMA DelimsBegin ==
  ASSUME NEW s \in Seq(Nat), NEW e \in 0 .. Len(s)
  PROVE  DelimsIn(SubSeq(s, 1, e)) = {i \in DelimsIn(s) : i <= e}
<1> DEFINE t == SubSeq(s, 1, e)
           d == Len(Delim)
<1>1. d \in Nat \ {0}
  BY ReadAssumption
<1>2. Len(t) = e /\ e \in Nat /\ Len(s) \in Nat /\ e <= Len(s)
  OBVIOUS
<1> HIDE DEF t, d
<1>3. ASSUME NEW i \in d .. e PROVE SubSeq(t, i - d + 1, i) = SubSeq(s, i - d + 1, i)
  <2> DEFINE m == i - d + 1
  <2>1. m \in 1 .. e /\ i \in 1 .. e /\ e \in 1 .. Len(s)
    BY <1>1, <1>2
  <2> HIDE DEF m
  <2>2. SubSeq(SubSeq(s, 1, e), m, i) = SubSeq(s, m, i)
    BY <2>1, BeginOf, Zenon
  <2> QED
    BY <2>2, Zenon DEF t, m
<1>4. DelimsIn(t) = {i \in d .. e : SubSeq(t, i - d + 1, i) = Delim}
  BY <1>2, Zenon DEF DelimsIn, d
<1>5. DelimsIn(s) = {i \in d .. Len(s) : SubSeq(s, i - d + 1, i) = Delim}
  BY Zenon DEF DelimsIn, d
<1>6. \A i : i \in d .. e <=> i \in d .. Len(s) /\ i <= e
  BY <1>1, <1>2
<1>7. \A i : i \in DelimsIn(t) <=> i \in DelimsIn(s) /\ i <= e
  BY <1>3, <1>4, <1>5, <1>6, Zenon
<1> QED
  BY <1>7, Zenon DEF t

\* The beginning of a text has the end of the first Delim if it reaches that far.
LEMMA DelimEndBegin ==
  ASSUME NEW s \in Seq(Nat), NEW e \in 0 .. Len(s)
  PROVE  /\ DelimEnd(s) \in Nat /\ DelimEnd(s) <= Len(s)
         /\ DelimEnd(s) # 0 /\ DelimEnd(s) <= e => DelimEnd(SubSeq(s, 1, e)) = DelimEnd(s)
         /\ DelimEnd(s) = 0 \/ e < DelimEnd(s) => DelimEnd(SubSeq(s, 1, e)) = 0
<1> DEFINE t == SubSeq(s, 1, e)
           D == DelimsIn(s)
           T == DelimsIn(t)
           d == DelimEnd(s)
           dt == DelimEnd(t)
<1>1. t \in Seq(Nat) /\ e \in Nat /\ Len(s) \in Nat
  OBVIOUS
<1>2. T = {i \in D : i <= e}
  BY DelimsBegin, Zenon
<1> HIDE DEF t, D, T, d, dt
<1>3. /\ D = {} => d = 0
      /\ D # {} => d \in D /\ \A i \in D : d <= i
      /\ \A i \in D : i \in Nat /\ i <= Len(s) /\ i # 0
  <2>1. /\ D = {} => d = 0
        /\ D # {} => d \in D /\ \A i \in D : d <= i
        /\ \A i \in D : i \in Nat /\ Len(Delim) <= i /\ i <= Len(s)
        /\ Len(Delim) \in Nat \ {0}
    BY DelimEndIs, Zenon DEF D, d
  <2> QED
    BY <2>1
<1>4. /\ T = {} => dt = 0
      /\ T # {} => dt \in T /\ \A i \in T : dt <= i
  BY <1>1, DelimEndIs, Zenon DEF T, dt
<1>5. d \in Nat /\ d <= Len(s)
  BY <1>1, <1>3
<1>6. ASSUME d # 0, d <= e PROVE dt = d
  <2>1. d \in D /\ d \in T
    BY <1>2, <1>3, <1>6
  <2>2. dt \in T /\ dt <= d /\ dt \in D /\ d <= dt
    BY <1>2, <1>3, <1>4, <2>1
  <2> QED
    BY <1>3, <2>1, <2>2
<1>7. ASSUME d = 0 \/ e < d PROVE dt = 0
  <2>1. \A i \in D : ~(i <= e)
    BY <1>1, <1>3, <1>7
  <2> QED
    BY <1>2, <1>4, <2>1
<1> QED
  BY <1>5, <1>6, <1>7, Zenon DEF t, d, dt

\* What comes in time takes no more slices than the limit has, and a wait that is in vain
\* one more.
LEMMA SlicesBounded ==
  ASSUME NEW timeoutMs \in Nat
  PROVE  /\ timeoutMs \div Slice \in Nat
         /\ SlicesWaited(timeoutMs) \in Nat /\ SlicesWaited(timeoutMs) <= 1 + timeoutMs \div Slice
         /\ InTime(0, timeoutMs)
         /\ \A gap \in Nat : InTime(gap, timeoutMs) => gap <= timeoutMs \div Slice
<1>1. timeoutMs \div 200 \in Nat
  BY SMT
<1>2. ASSUME NEW gap \in Nat, gap * 200 <= timeoutMs PROVE gap <= timeoutMs \div 200
  BY <1>2, SMT
<1>3. ASSUME NEW gap \in Nat, InTime(gap, timeoutMs) PROVE gap <= timeoutMs \div 200
  BY <1>1, <1>2, <1>3, SMT DEF InTime, Slice
<1>4. SlicesWaited(timeoutMs) \in Nat /\ SlicesWaited(timeoutMs) <= 1 + timeoutMs \div 200
  BY <1>1, SMT DEF SlicesWaited, Slice
<1>5. InTime(0, timeoutMs)
  BY DEF InTime
<1> QED
  BY <1>1, <1>3, <1>4, <1>5, SMT DEF Slice

\* What a read may be given: a limit, or none.
LimitOK(timeoutMs) == timeoutMs \in Nat \/ timeoutMs = NoLimit

\* How a limit and the slices of a read go together; without a limit all comes in time.
LEMMA LimitBounded ==
  ASSUME NEW timeoutMs, LimitOK(timeoutMs)
  PROVE  LET w == timeoutMs \div Slice
             s == SlicesWaited(timeoutMs)
         IN /\ w \in Int /\ s \in Int /\ InTime(0, timeoutMs)
            /\ timeoutMs < 0 <=> timeoutMs = NoLimit
            /\ timeoutMs < 0 => \A gap : InTime(gap, timeoutMs)
            /\ ~(timeoutMs < 0) => /\ w \in Nat /\ s \in Nat /\ s <= 1 + w
                                   /\ \A gap \in Nat : InTime(gap, timeoutMs) => gap <= w
<1>1. CASE timeoutMs \in Nat
  <2>1. ~(timeoutMs < 0) /\ timeoutMs # NoLimit
    BY <1>1 DEF NoLimit
  <2> QED
    BY <1>1, <2>1, SlicesBounded
<1>2. CASE timeoutMs = NoLimit
  BY <1>2 DEF NoLimit, InTime, SlicesWaited, Slice
<1> QED
  BY <1>1, <1>2, Zenon DEF LimitOK

\* readUntil has the first e bytes, which end no head, after so many slices.
Reading(state, bytes, e, slices) ==
  /\ state = [returned |-> FALSE, ok |-> FALSE, out |-> SubSeq(bytes, 1, e), slices |-> slices]
  /\ DelimEnd(bytes) = 0 \/ e < DelimEnd(bytes)

\* readUntil has the head, or none that is whole and in time.
HasRead(state, bytes, gap, timeoutMs) ==
  /\ ~(timeoutMs < 0) => /\ state.returned
                         /\ state.slices \in Nat /\ state.slices <= 2 * (1 + timeoutMs \div Slice)
  /\ state.ok => DelimEnd(bytes) # 0 /\ state.out = SubSeq(bytes, 1, DelimEnd(bytes))
  /\ ~state.ok => ~(DelimEnd(bytes) \in 1 .. MaxBytes /\ InTime(gap, timeoutMs))

\* One more piece, which comes at once or after the gap.
LEMMA PieceRead ==
  ASSUME NEW bytes \in Seq(Nat), NEW timeoutMs, LimitOK(timeoutMs), NEW gap \in Nat,
         NEW g \in {0, gap}, NEW e \in Nat, NEW f \in Nat, e < f, f <= Len(bytes),
         NEW state, Reading(state, bytes, e, 0)
  PROVE  LET next == AfterArrival(state, <<g, SubSeq(bytes, e + 1, f)>>, timeoutMs)
         IN \/ HasRead(next, bytes, gap, timeoutMs) /\ next.returned
            \/ Reading(next, bytes, f, g) /\ InTime(g, timeoutMs)
<1> DEFINE piece == SubSeq(bytes, e + 1, f)
           arrival == <<g, piece>>
           next == AfterArrival(state, arrival, timeoutMs)
           had == SubSeq(bytes, 1, e)
           out == SubSeq(bytes, 1, f)
           d == DelimEnd(bytes)
           end == DelimEnd(out)
           w == timeoutMs \div Slice
           s == SlicesWaited(timeoutMs)
<1>1. /\ had \in Seq(Nat) /\ Len(had) = e /\ piece # <<>> /\ out \in Seq(Nat) /\ Len(out) = f
      /\ e \in 0 .. Len(bytes) /\ f \in 0 .. Len(bytes)
  <2>1. Len(piece) = f - e
    OBVIOUS
  <2>2. f - e # 0
    OBVIOUS
  <2> QED
    BY <2>1, <2>2
<1>2. had \o piece = out
  <2>1. 1 \in 1 .. Len(bytes) + 1 /\ e \in 1 - 1 .. Len(bytes) /\ f \in e .. Len(bytes)
    OBVIOUS
  <2> QED
    BY <2>1, ConcatAdjacentSubSeq
<1>3. /\ d \in Nat
      /\ d # 0 /\ d <= f => end = d
      /\ d = 0 \/ f < d => end = 0
  BY <1>1, DelimEndBegin, Zenon
<1>4. /\ w \in Int /\ s \in Int
      /\ InTime(0, timeoutMs)
      /\ ~(timeoutMs < 0) => w \in Nat /\ s \in Nat /\ s <= 1 + w /\ (InTime(g, timeoutMs) => g <= w)
  <2>1. g \in Nat
    OBVIOUS
  <2> QED
    BY <2>1, LimitBounded, Zenon
<1>5. /\ state.returned = FALSE /\ state.ok = FALSE /\ state.out = had /\ state.slices = 0
      /\ state = [returned |-> FALSE, ok |-> FALSE, out |-> had, slices |-> 0]
      /\ d = 0 \/ e < d
  BY DEF Reading
<1>6. arrival[1] = g /\ arrival[2] = piece /\ g \in Nat /\ 0 + g = g /\ 0 + s = s
  BY <1>4
<1> HIDE DEF piece, arrival, had, out, d, end, w, s
<1>7. next = IF Len(had) >= MaxBytes THEN Failed(had, 0)
             ELSE IF ~InTime(g, timeoutMs) THEN Failed(had, s)
             ELSE IF end = 0 THEN [state EXCEPT !.out = out, !.slices = g]
             ELSE [returned |-> TRUE, ok |-> TRUE, out |-> SubSeq(out, 1, end), slices |-> g]
  BY <1>1, <1>2, <1>5, <1>6, Zenon DEF AfterArrival, end, s
<1>8. MaxBytes \in Nat
  BY ReadAssumption
<1> HIDE DEF next
<1>9. CASE e >= MaxBytes
  <2>1. next = Failed(had, 0)
    BY <1>1, <1>7, <1>9, Zenon
  <2>2. ~(d \in 1 .. MaxBytes)
    BY <1>3, <1>5, <1>8, <1>9
  <2>3. next.returned = TRUE /\ next.ok = FALSE /\ next.slices = 0
    BY <2>1 DEF Failed
  <2>4. ~(timeoutMs < 0) => 0 \in Nat /\ 0 <= 2 * (1 + w)
    BY <1>4
  <2> QED
    BY <2>2, <2>3, <2>4, Zenon DEF HasRead, d, w, next, arrival, piece
<1>10. CASE ~(e >= MaxBytes) /\ ~InTime(g, timeoutMs)
  <2>1. next = Failed(had, s)
    BY <1>1, <1>7, <1>10, Zenon
  <2>2. ~InTime(gap, timeoutMs)
    BY <1>4, <1>10, Zenon
  <2>3. next.returned = TRUE /\ next.ok = FALSE /\ next.slices = s
    BY <2>1 DEF Failed
  <2>4. ~(timeoutMs < 0) => s <= 2 * (1 + w)
    BY <1>4
  <2> QED
    BY <1>4, <2>2, <2>3, <2>4, Zenon DEF HasRead, d, w, next, arrival, piece
<1>11. CASE ~(e >= MaxBytes) /\ InTime(g, timeoutMs) /\ (d = 0 \/ f < d)
  <2>1. next = [state EXCEPT !.out = out, !.slices = g]
    BY <1>1, <1>3, <1>7, <1>11, Zenon
  <2>2. next = [returned |-> FALSE, ok |-> FALSE, out |-> out, slices |-> g]
    BY <1>5, <2>1
  <2> QED
    BY <1>11, <2>2, Zenon DEF Reading, d, out, next, arrival, piece
<1>12. CASE ~(e >= MaxBytes) /\ InTime(g, timeoutMs) /\ d # 0 /\ d <= f
  <2>1. end = d
    BY <1>3, <1>12, Zenon
  <2>2. next = [returned |-> TRUE, ok |-> TRUE, out |-> SubSeq(out, 1, d), slices |-> g]
    BY <1>1, <1>7, <1>12, <2>1, Zenon
  <2>3. SubSeq(out, 1, d) = SubSeq(bytes, 1, d)
    <3>1. f \in 1 .. Len(bytes) /\ 1 \in 1 .. f /\ d \in 1 .. f
      BY <1>1, <1>3, <1>12
    <3> QED
      BY <3>1, BeginOf, Zenon DEF out
  <2>4. /\ next.returned = TRUE /\ next.ok = TRUE /\ next.out = SubSeq(bytes, 1, d)
        /\ next.slices = g
    BY <2>2, <2>3
  <2>5. ~(timeoutMs < 0) => g <= 2 * (1 + w)
    BY <1>4, <1>6, <1>12
  <2> QED
    BY <1>6, <1>12, <2>4, <2>5, Zenon DEF HasRead, d, w, next, arrival, piece
<1>13. d = 0 \/ f < d \/ (d # 0 /\ d <= f)
  BY <1>3
<1> QED
  BY <1>9, <1>10, <1>11, <1>12, <1>13, Zenon

\* A text arrives in pieces, the k-th up to end[k], all of them at once but for the last
\* one, which comes after a gap.
ArrivesCut(arrivals, bytes, end, gap) ==
  /\ arrivals \in Seq(Nat \X Seq(Nat)) /\ arrivals # <<>>
  /\ bytes \in Seq(Nat) /\ gap \in Nat
  /\ \A k \in 0 .. Len(arrivals) : end[k] \in Nat /\ end[k] <= Len(bytes)
  /\ end[0] = 0 /\ end[Len(arrivals)] = Len(bytes)
  /\ \A j, k \in 0 .. Len(arrivals) : j < k => end[j] < end[k]
  /\ \A k \in 1 .. Len(arrivals) :
       /\ arrivals[k] = <<arrivals[k][1], SubSeq(bytes, end[k - 1] + 1, end[k])>>
       /\ arrivals[k][1] = IF k = Len(arrivals) THEN gap ELSE 0

\* However a text is cut: a head that is whole and in time is read, what is read is the
\* head and nothing else, and a call with a limit ends in time.
THEOREM CutRead ==
  ASSUME NEW arrivals, NEW bytes, NEW end, NEW gap, ArrivesCut(arrivals, bytes, end, gap),
         NEW timeoutMs, LimitOK(timeoutMs)
  PROVE  HasRead(readUntil(arrivals, timeoutMs), bytes, gap, timeoutMs)
<1> DEFINE n == Len(arrivals)
           w == timeoutMs \div Slice
           wait == SlicesWaited(timeoutMs)
<1>1. /\ arrivals \in Seq(Nat \X Seq(Nat)) /\ bytes \in Seq(Nat) /\ gap \in Nat /\ n \in Nat \ {0}
  BY DEF ArrivesCut
<1>2. PICK run : /\ IsRun(run, arrivals, timeoutMs)
                 /\ readUntil(arrivals, timeoutMs) = Outcome(run[n], timeoutMs)
  BY <1>1, ReadRuns, Zenon
<1>3. /\ \A k \in 0 .. n : end[k] \in Nat /\ end[k] <= Len(bytes)
      /\ end[0] = 0 /\ end[n] = Len(bytes)
      /\ \A j, k \in 0 .. n : j < k => end[j] < end[k]
      /\ \A k \in 1 .. n :
           /\ arrivals[k] = <<arrivals[k][1], SubSeq(bytes, end[k - 1] + 1, end[k])>>
           /\ k = n => arrivals[k][1] = gap
           /\ k # n => arrivals[k][1] = 0
  BY Zenon DEF ArrivesCut
<1>4. /\ run[0] = AtFirst
      /\ \A k \in 1 .. n : run[k] = AfterArrival(run[k - 1], arrivals[k], timeoutMs)
  BY <1>2, Zenon DEF IsRun
<1>5. /\ InTime(0, timeoutMs)
      /\ ~(timeoutMs < 0) => /\ w \in Nat /\ wait \in Nat /\ wait <= 1 + w
                             /\ \A g \in Nat : InTime(g, timeoutMs) => g <= w
  BY LimitBounded, Zenon
<1> HIDE DEF n, w, wait
<1> DEFINE Goes(k, g) == Reading(run[k], bytes, end[k], g) /\ InTime(g, timeoutMs)
           Ended(k) == HasRead(run[k], bytes, gap, timeoutMs) /\ run[k].returned
           Fine(k) == Ended(k) \/ \E g \in {0, gap} : (k # n => g = 0) /\ Goes(k, g)
           T == {k \in Nat : k <= n => Fine(k)}
<1>6. Fine(0)
  <2>1. DelimEnd(bytes) \in Nat
    <3>1. 0 \in 0 .. Len(bytes)
      BY <1>1
    <3> QED
      BY <1>1, <3>1, DelimEndBegin, Zenon
  <2>2. DelimEnd(bytes) = 0 \/ 0 < DelimEnd(bytes)
    BY <2>1
  <2>3. SubSeq(bytes, 1, 0) = <<>>
    BY <1>1
  <2>4. Reading(run[0], bytes, 0, 0)
    BY <1>4, <2>2, <2>3, Zenon DEF Reading, AtFirst
  <2> QED
    BY <1>3, <1>5, <2>4, Zenon
<1>7. ASSUME NEW k \in Nat, k + 1 <= n, Fine(k) PROVE Fine(k + 1)
  <2> DEFINE m == k + 1
             g == arrivals[m][1]
             piece == SubSeq(bytes, end[k] + 1, end[m])
  <2>1. /\ k \in 0 .. n /\ m \in 1 .. n /\ m \in 0 .. n /\ k < m /\ m - 1 = k
        /\ k # n
    BY <1>1, <1>7
  <2> HIDE DEF m
  <2>2. run[m] = AfterArrival(run[k], arrivals[m], timeoutMs)
    BY <1>4, <2>1, Zenon
  <2>3. arrivals[m] = <<g, piece>> /\ (m = n => g = gap) /\ (m # n => g = 0)
    BY <1>3, <2>1, Zenon
  <2>4. end[k] \in Nat /\ end[m] \in Nat /\ end[k] < end[m] /\ end[m] <= Len(bytes)
    BY <1>3, <2>1, Zenon
  <2> HIDE DEF g, Ended, Goes
  <2>5. CASE Ended(k)
    <3>1. run[k].returned
      BY <2>5, Zenon DEF Ended
    <3>2. run[m] = run[k]
      BY <2>2, <3>1, Zenon DEF AfterArrival
    <3> QED
      BY <2>5, <3>2, Zenon DEF Ended, m
  <2>6. CASE ~Ended(k)
    <3>1. Reading(run[k], bytes, end[k], 0)
      BY <1>7, <2>1, <2>6, Zenon DEF Goes
    <3>2. g \in {0, gap}
      BY <2>3, Zenon
    <3> DEFINE next == AfterArrival(run[k], <<g, piece>>, timeoutMs)
    <3>3. \/ HasRead(next, bytes, gap, timeoutMs) /\ next.returned
          \/ Reading(next, bytes, end[m], g) /\ InTime(g, timeoutMs)
      <4> DEFINE a == end[k]
                 b == end[m]
                 st == run[k]
      <4>1. /\ a \in Nat /\ b \in Nat /\ a < b /\ b <= Len(bytes) /\ Reading(st, bytes, a, 0)
            /\ bytes \in Seq(Nat) /\ gap \in Nat /\ g \in {0, gap} /\ LimitOK(timeoutMs)
        BY <1>1, <2>4, <3>1, <3>2, Zenon
      <4> HIDE DEF a, b, st
      <4>2. LET after == AfterArrival(st, <<g, SubSeq(bytes, a + 1, b)>>, timeoutMs)
            IN \/ HasRead(after, bytes, gap, timeoutMs) /\ after.returned
               \/ Reading(after, bytes, b, g) /\ InTime(g, timeoutMs)
        BY <4>1, PieceRead, ZenonT(60)
      <4> QED
        BY <4>2, Zenon DEF a, b, st
    <3>4. next = run[m]
      BY <2>2, <2>3, Zenon
    <3> HIDE DEF next
    <3>5. Ended(m) \/ Goes(m, g)
      BY <3>3, <3>4, Zenon DEF Ended, Goes
    <3> QED
      BY <2>3, <3>2, <3>5, Zenon DEF m
  <2> QED
    BY <2>5, <2>6, Zenon
<1>8. \A k \in Nat : k \in T
  <2> HIDE DEF Fine
  <2>1. 0 \in T
    BY <1>6
  <2>2. \A k \in Nat : k \in T => k + 1 \in T
    BY <1>1, <1>7
  <2> HIDE DEF T
  <2> QED
    BY <2>1, <2>2, AllNumbers
<1>9. Fine(n)
  <2> HIDE DEF Fine
  <2> QED
    BY <1>1, <1>8
<1> DEFINE state == run[n]
           read == Outcome(state, timeoutMs)
<1>10. CASE Ended(n)
  <2>1. state.returned
    BY <1>10, Zenon
  <2>2. read = state
    BY <2>1, Zenon DEF Outcome
  <2> QED
    BY <1>2, <1>10, <2>2, Zenon
<1>11. CASE ~Ended(n)
  <2>1. PICK g \in {0, gap} : Goes(n, g)
    BY <1>9, <1>11, Zenon
  <2> DEFINE d == DelimEnd(bytes)
  <2>2. /\ state = [returned |-> FALSE, ok |-> FALSE, out |-> SubSeq(bytes, 1, Len(bytes)),
                    slices |-> g]
        /\ d = 0 \/ Len(bytes) < d
    BY <1>3, <2>1, Zenon DEF Reading
  <2>3. d = 0
    <3>1. 0 \in 0 .. Len(bytes)
      BY <1>1
    <3>2. d \in Nat /\ d <= Len(bytes)
      BY <1>1, <3>1, DelimEndBegin, Zenon
    <3> HIDE DEF d
    <3> QED
      BY <1>1, <2>2, <3>2
  <2>4. state.returned = FALSE /\ state.slices = g
    BY <2>2
  <2>5. g \in Nat /\ (~(timeoutMs < 0) => g <= w)
    <3>1. g \in Nat
      BY <1>1
    <3>2. InTime(g, timeoutMs)
      BY <2>1, Zenon
    <3> QED
      BY <1>5, <3>1, <3>2, Zenon
  <2>6. \/ read = Failed(state.out, g) \/ read = Failed(state.out, g + wait)
        \/ timeoutMs < 0 /\ read = state
    BY <2>4, Zenon DEF Outcome, wait
  <2>10. state.ok = FALSE
    BY <2>2
  <2> HIDE DEF state, read
  <2>7. /\ read.ok = FALSE
        /\ ~(timeoutMs < 0) => read.returned = TRUE /\ read.slices \in {g, g + wait}
    BY <2>6, <2>10 DEF Failed
  <2>8. ~(timeoutMs < 0) => read.slices \in Nat /\ read.slices <= 2 * (1 + w)
    BY <1>5, <2>5, <2>7
  <2>9. ~(d \in 1 .. MaxBytes)
    BY <2>3
  <2> QED
    BY <1>2, <2>7, <2>8, <2>9, Zenon DEF HasRead, w, read, state, d
<1> QED
  BY <1>10, <1>11, Zenon

\* How many elements of a set of numbers are less than e.
Lower(E, e) == {d \in E : d < e}
Rank(E, e) == Cardinality(Lower(E, e))

\* Ranks grow with the elements.
LEMMA RanksGrow ==
  ASSUME NEW E \in SUBSET Nat, IsFiniteSet(E)
  PROVE  /\ \A e \in E : Rank(E, e) \in 0 .. Cardinality(E) - 1
         /\ \A d, e \in E : d < e => Rank(E, d) < Rank(E, e)
<1>1. Cardinality(E) \in Nat
  BY FS_CardinalityType
<1>2. \A e \in E : IsFiniteSet(Lower(E, e)) /\ Rank(E, e) \in Nat
  <2> SUFFICES ASSUME NEW e \in E
               PROVE  IsFiniteSet(Lower(E, e)) /\ Rank(E, e) \in Nat
    OBVIOUS
  <2>1. Lower(E, e) \in SUBSET E
    BY DEF Lower
  <2>2. IsFiniteSet(Lower(E, e))
    BY <2>1, FS_Subset
  <2> QED
    BY <2>2, FS_CardinalityType DEF Rank
<1>3. ASSUME NEW e \in E PROVE Rank(E, e) < Cardinality(E)
  <2>1. Lower(E, e) \in SUBSET E /\ e \notin Lower(E, e)
    BY DEF Lower
  <2>2. Rank(E, e) <= Cardinality(E) /\ (Cardinality(E) = Rank(E, e) => E = Lower(E, e))
    BY <2>1, FS_Subset DEF Rank
  <2>3. Cardinality(E) # Rank(E, e)
    BY <2>1, <2>2
  <2> QED
    BY <1>1, <1>2, <2>2, <2>3
<1>4. ASSUME NEW d \in E, NEW e \in E, d < e PROVE Rank(E, d) < Rank(E, e)
  <2> DEFINE L == Lower(E, d)
             H == Lower(E, e)
  <2>1. L \in SUBSET H /\ d \notin L /\ d \in H
    <3>1. ~(d < d) /\ \A x \in E : x < d => x < e
      BY <1>4
    <3> QED
      BY <1>4, <3>1, Zenon DEF Lower
  <2>2. IsFiniteSet(H)
    BY <1>2
  <2> HIDE DEF L, H
  <2>3. Cardinality(L) <= Cardinality(H) /\ (Cardinality(H) = Cardinality(L) => H = L)
    BY <2>1, <2>2, FS_Subset
  <2>4. Cardinality(H) # Cardinality(L)
    BY <2>1, <2>3
  <2>5. Cardinality(L) = Rank(E, d) /\ Cardinality(H) = Rank(E, e)
    BY DEF Rank, L, H
  <2> QED
    BY <1>2, <2>3, <2>4, <2>5
<1> QED
  BY <1>1, <1>2, <1>3, <1>4

\* The element that has so many elements below it.
AtRank(E, k) == CHOOSE e \in E : Cardinality({d \in E : d < e}) = k

\* Every rank up to the number of elements is that of one element.
LEMMA RanksAre ==
  ASSUME NEW E \in SUBSET Nat, IsFiniteSet(E)
  PROVE  /\ \A k \in 0 .. Cardinality(E) - 1 : AtRank(E, k) \in E /\ Rank(E, AtRank(E, k)) = k
         /\ \A e \in E : AtRank(E, Rank(E, e)) = e
         /\ \A j, k \in 0 .. Cardinality(E) - 1 : j < k => AtRank(E, j) < AtRank(E, k)
<1> DEFINE n == Cardinality(E)
           N == 0 .. n - 1
           rank == [e \in E |-> Rank(E, e)]
<1>1. n \in Nat
  BY FS_CardinalityType
<1>2. /\ \A e \in E : Rank(E, e) \in N
      /\ \A d, e \in E : d < e => Rank(E, d) < Rank(E, e)
  BY RanksGrow
<1>3. IsFiniteSet(N) /\ Cardinality(N) = n
  <2>1. 0 \in Int /\ n - 1 \in Int
    BY <1>1
  <2>2. IsFiniteSet(N) /\ Cardinality(N) = IF 0 > n - 1 THEN 0 ELSE n - 1 - 0 + 1
    BY <2>1, FS_Interval
  <2> HIDE DEF N, n
  <2> QED
    BY <1>1, <2>2
<1>4. \A d, e \in E : Rank(E, d) = Rank(E, e) => d = e
  <2> SUFFICES ASSUME NEW d \in E, NEW e \in E, d # e PROVE Rank(E, d) # Rank(E, e)
    OBVIOUS
  <2>1. d < e \/ e < d
    OBVIOUS
  <2>2. Rank(E, d) \in Nat /\ Rank(E, e) \in Nat
    BY <1>1, <1>2
  <2>3. Rank(E, d) < Rank(E, e) \/ Rank(E, e) < Rank(E, d)
    BY <1>2, <2>1
  <2> QED
    BY <2>2, <2>3
<1> HIDE DEF N, n
<1>5. rank \in Injection(E, N)
  BY <1>2, <1>4 DEF Injection, IsInjective
<1>6. rank \in Surjection(E, N)
  BY <1>3, <1>5, FS_Injection DEF n
<1>7. \A k \in N : \E e \in E : Rank(E, e) = k
  BY <1>6 DEF Surjection
<1>8. \A k : AtRank(E, k) = CHOOSE e \in E : Rank(E, e) = k
  BY Zenon DEF AtRank, Rank, Lower
<1>9. \A k \in N : AtRank(E, k) \in E /\ Rank(E, AtRank(E, k)) = k
  BY <1>7, <1>8, Zenon
<1>10. \A e \in E : AtRank(E, Rank(E, e)) = e
  BY <1>2, <1>4, <1>9, Zenon
<1>11. ASSUME NEW j \in N, NEW k \in N, j < k PROVE AtRank(E, j) < AtRank(E, k)
  <2> DEFINE d == AtRank(E, j)
             e == AtRank(E, k)
  <2>1. d \in E /\ e \in E /\ Rank(E, d) = j /\ Rank(E, e) = k
    BY <1>9, Zenon
  <2>2. e < d => k < j
    BY <1>2, <2>1, Zenon
  <2>3. d = e => j = k
    BY <2>1, Zenon
  <2>4. d \in Nat /\ e \in Nat /\ j \in Int /\ k \in Int
    <3>1. \A m \in N : m \in Int
      BY <1>1 DEF N
    <3>2. d \in Nat /\ e \in Nat
      BY <2>1, Zenon
    <3> QED
      BY <3>1, <3>2, Zenon
  <2> HIDE DEF d, e
  <2>5. d < e
    BY <1>11, <2>2, <2>3, <2>4
  <2> QED
    BY <2>5 DEF d, e
<1> QED
  BY <1>9, <1>10, <1>11 DEF N, n

\* The pieces arrive one behind the other, the last one after a gap.
Spread(arrivals, pieces, gap) ==
  /\ arrivals = [k \in DOMAIN pieces |-> arrivals[k]]
  /\ \A k \in DOMAIN pieces :
       arrivals[k] = <<IF k = Len(pieces) THEN gap ELSE 0, pieces[k]>>

\* The pieces of a text are what is between its cuts.
LEMMA CutIs ==
  ASSUME NEW bytes \in Seq(Nat), bytes # <<>>, NEW cuts \in SUBSET (1 .. Len(bytes) - 1)
  PROVE  \E end, n : /\ n \in Nat \ {0}
                     /\ Cut(bytes, cuts) =
                          [k \in 1 .. n |-> SubSeq(bytes, end[k - 1] + 1, end[k])]
                     /\ \A k \in 0 .. n : end[k] \in Nat /\ end[k] <= Len(bytes)
                     /\ end[0] = 0 /\ end[n] = Len(bytes)
                     /\ \A j, k \in 0 .. n : j < k => end[j] < end[k]
                     /\ \A c \in cuts : \E k \in 0 .. n : end[k] = c
<1> DEFINE L == Len(bytes)
           E == cuts \cup {0, L}
           N == Cardinality(E)
           n == N - 1
           end == [k \in 0 .. n |-> AtRank(E, k)]
<1>1. L \in Nat /\ L # 0
  OBVIOUS
<1>2. E \in SUBSET Nat /\ \A e \in E : e <= L
  <2>1. \A c \in cuts : c \in Nat /\ c <= L
    BY <1>1
  <2>2. 0 \in Nat /\ 0 <= L /\ L <= L
    BY <1>1
  <2> HIDE DEF L
  <2> QED
    BY <1>1, <2>1, <2>2, Zenon
<1>3. 0 \in E /\ L \in E
  OBVIOUS
<1>4. Cut(bytes, cuts) =
        [k \in 1 .. n |-> SubSeq(bytes, AtRank(E, k - 1) + 1, AtRank(E, k))]
  BY Zenon DEF Cut, AtRank
<1> HIDE DEF L, E
<1>5. IsFiniteSet(E) /\ N \in Nat
  <2>1. IsFiniteSet(E)
    BY <1>1, <1>2, FS_BoundedSetOfNaturals
  <2> QED
    BY <2>1, FS_CardinalityType
<1> HIDE DEF N
<1>6. /\ \A k \in 0 .. n : AtRank(E, k) \in E /\ Rank(E, AtRank(E, k)) = k
      /\ \A e \in E : AtRank(E, Rank(E, e)) = e
      /\ \A j, k \in 0 .. n : j < k => AtRank(E, j) < AtRank(E, k)
  BY <1>2, <1>5, RanksAre, Zenon DEF N
<1>7. \A e \in E : Rank(E, e) \in 0 .. n
  BY <1>2, <1>5, RanksGrow, Zenon DEF N
<1>8. Rank(E, 0) = 0
  <2>1. \A d \in E : ~(d < 0)
    BY <1>2
  <2>2. Lower(E, 0) = {}
    BY <2>1, Zenon DEF Lower
  <2> QED
    BY <2>2, FS_EmptySet, Zenon DEF Rank
<1> HIDE DEF n
<1>9. n \in Int
  BY <1>5 DEF n
<1>10. n \in Nat \ {0}
  <2> DEFINE r == Rank(E, L)
             z == Rank(E, 0)
  <2>1. r \in 0 .. n /\ z \in 0 .. n
    BY <1>3, <1>7, Zenon
  <2>2. AtRank(E, r) = L /\ AtRank(E, z) = 0
    BY <1>3, <1>6, Zenon
  <2>3. r # z
    BY <1>1, <2>2, Zenon
  <2> HIDE DEF r, z
  <2> QED
    BY <1>9, <2>1, <2>3
<1>11. 0 \in 0 .. n /\ n \in 0 .. n /\ \A k \in 1 .. n : k \in 0 .. n /\ k - 1 \in 0 .. n
  BY <1>10
<1>12. \A k \in 0 .. n : end[k] = AtRank(E, k)
  BY Zenon
<1> HIDE DEF end
<1>13. Cut(bytes, cuts) = [k \in 1 .. n |-> SubSeq(bytes, end[k - 1] + 1, end[k])]
  <2>1. \A k \in 1 .. n : end[k - 1] = AtRank(E, k - 1) /\ end[k] = AtRank(E, k)
    BY <1>11, <1>12, Zenon
  <2> QED
    BY <1>4, <2>1, Zenon
<1>14. \A k \in 0 .. n : end[k] \in Nat /\ end[k] <= L
  BY <1>2, <1>6, <1>12
<1>15. end[0] = 0
  BY <1>3, <1>6, <1>8, <1>11, <1>12, Zenon
<1>16. end[n] = L
  <2> DEFINE r == Rank(E, L)
  <2>1. r \in 0 .. n /\ end[r] = L
    BY <1>3, <1>6, <1>7, <1>12, Zenon
  <2>2. r < n => end[r] < end[n]
    BY <1>6, <1>11, <1>12, <2>1, Zenon
  <2>3. end[n] \in Nat /\ end[n] <= L
    BY <1>11, <1>14, Zenon
  <2> HIDE DEF r
  <2>4. ~(r < n)
    BY <1>1, <2>1, <2>2, <2>3
  <2>5. r = n
    BY <1>9, <2>1, <2>4
  <2> QED
    BY <2>1, <2>5, Zenon
<1>17. \A j, k \in 0 .. n : j < k => end[j] < end[k]
  BY <1>6, <1>12, Zenon
<1>18. \A c \in cuts : \E k \in 0 .. n : end[k] = c
  BY <1>6, <1>7, <1>12, Zenon DEF E
<1> QED
  BY <1>10, <1>13, <1>14, <1>15, <1>16, <1>17, <1>18, Zenon DEF L

\* A text arrives in pieces, with a border at each cut.
CutAt(arrivals, bytes, cuts, gap) ==
  \E end : /\ ArrivesCut(arrivals, bytes, end, gap)
           /\ \A c \in cuts : \E k \in 0 .. Len(arrivals) : end[k] = c

\* Pieces that arrive one behind the other do so.
LEMMA SpreadArrives ==
  ASSUME NEW bytes \in Seq(Nat), bytes # <<>>, NEW cuts \in SUBSET (1 .. Len(bytes) - 1),
         NEW gap \in Nat, NEW arrivals, Spread(arrivals, Cut(bytes, cuts), gap)
  PROVE  CutAt(arrivals, bytes, cuts, gap)
<1> USE DEF CutAt
<1> DEFINE pieces == Cut(bytes, cuts)
           B == Seq(Nat)
           A == Nat \X B
<1>1. PICK end, n :
        /\ n \in Nat \ {0}
        /\ pieces = [k \in 1 .. n |-> SubSeq(bytes, end[k - 1] + 1, end[k])]
        /\ \A k \in 0 .. n : end[k] \in Nat /\ end[k] <= Len(bytes)
        /\ end[0] = 0 /\ end[n] = Len(bytes)
        /\ \A j, k \in 0 .. n : j < k => end[j] < end[k]
        /\ \A c \in cuts : \E k \in 0 .. n : end[k] = c
  BY CutIs, Zenon
<1>2. /\ arrivals = [k \in DOMAIN pieces |-> arrivals[k]]
      /\ \A k \in DOMAIN pieces :
           arrivals[k] = <<IF k = Len(pieces) THEN gap ELSE 0, pieces[k]>>
  BY Zenon DEF Spread
<1> HIDE DEF pieces
<1>3. ASSUME NEW k \in 1 .. n
      PROVE  pieces[k] = SubSeq(bytes, end[k - 1] + 1, end[k]) /\ pieces[k] \in B
  <2>1. pieces[k] = SubSeq(bytes, end[k - 1] + 1, end[k])
    BY <1>1, Zenon
  <2>2. k - 1 \in 0 .. n /\ k \in 0 .. n
    BY <1>1
  <2>3. /\ end[k - 1] \in Nat /\ end[k] \in Nat
        /\ end[k - 1] <= Len(bytes) /\ end[k] <= Len(bytes)
    BY <1>1, <2>2, Zenon
  <2>4. \A a, b \in Nat : b <= Len(bytes) => SubSeq(bytes, a + 1, b) \in B
    OBVIOUS
  <2> QED
    BY <2>1, <2>3, <2>4, Zenon
<1>4. DOMAIN pieces = 1 .. n
  BY <1>1, Zenon
<1>5. pieces \in [1 .. n -> B]
  BY <1>1, <1>3, Zenon
<1> HIDE DEF B
<1>6. Len(pieces) = n
  BY <1>1, <1>5, FunctionIsSeq
<1>7. ASSUME NEW k \in 1 .. n PROVE arrivals[k] \in A
  <2>1. arrivals[k] = <<IF k = Len(pieces) THEN gap ELSE 0, pieces[k]>>
    BY <1>2, <1>4, Zenon
  <2>2. pieces[k] \in B
    BY <1>3
  <2> QED
    BY <2>1, <2>2
<1> HIDE DEF A
<1>8. arrivals \in [1 .. n -> A]
  BY <1>2, <1>4, <1>7, Zenon
<1>9. arrivals \in Seq(A) /\ Len(arrivals) = n /\ arrivals # <<>>
  <2>1. arrivals \in Seq(A) /\ Len(arrivals) = n
    BY <1>1, <1>8, FunctionIsSeq
  <2> QED
    BY <1>1, <2>1
<1>10. ASSUME NEW k \in 1 .. n
       PROVE  /\ arrivals[k] = <<arrivals[k][1], SubSeq(bytes, end[k - 1] + 1, end[k])>>
              /\ arrivals[k][1] = IF k = n THEN gap ELSE 0
  <2>1. arrivals[k] = <<IF k = n THEN gap ELSE 0, SubSeq(bytes, end[k - 1] + 1, end[k])>>
    BY <1>2, <1>3, <1>4, <1>6, Zenon
  <2> QED
    BY <2>1, SMT
<1>11. ArrivesCut(arrivals, bytes, end, gap)
  BY <1>1, <1>9, <1>10, Zenon DEF ArrivesCut, A, B
<1> QED
  BY <1>1, <1>9, <1>11, Zenon

\* A sequence over one set is one over a larger set.
LEMMA WiderSeq ==
  ASSUME NEW A, NEW B, A \subseteq B, NEW s \in Seq(A)
  PROVE  s \in Seq(B)
OBVIOUS

\* A bounded sequence is a sequence.
LEMMA BoundedIsSeq ==
  ASSUME NEW S, NEW n \in Nat, NEW s \in BoundedSeq(S, n)
  PROVE  s \in Seq(S)
<1>1. BoundedSeq(S, n) = UNION {[1 .. m -> S] : m \in 0 .. n}
  BY Zenon DEF BoundedSeq, SeqOf
<1>2. PICK m \in 0 .. n : s \in [1 .. m -> S]
  BY <1>1, Zenon
<1>3. m \in Nat
  BY <1>2
<1> QED
  BY <1>2, <1>3, FunctionIsSeq

\* One or more limits exceed none.
LEMMA TwoLimits ==
  ASSUME NEW n \in Nat \ {0}, NEW w \in Nat
  PROVE  2 * (1 + w) <= (n + 1) * (1 + w)
<1> DEFINE x == 1 + w
           m == n - 1
<1>1. m \in Nat /\ x \in Nat /\ n + 1 = 2 + m
  OBVIOUS
<1> HIDE DEF x, m
<1>2. m * x \in Nat /\ (2 + m) * x = (2 * x) + (m * x)
  BY <1>1
<1>3. 2 * x <= (2 + m) * x
  BY <1>1, <1>2
<1> QED
  BY <1>1, <1>3 DEF x

\* What is asked about reads.
LEMMA AskedRead ==
  ASSUME [Next]_q, q' # q, q'.kind = "read"
  PROVE  /\ q'.bytes \in Seq(Nat) /\ q'.gap \in Nat /\ LimitOK(q'.limit)
         /\ \E end : ArrivesCut(q'.arrivals, q'.bytes, end, q'.gap)
<1>1. AskRead
  BY WhoAsks, Zenon
<1>2. PICK bytes \in BoundedSeq({1, 2}, 6) \ {<<>>}, gap \in 0 .. 3, tls \in BOOLEAN,
           timeoutMs \in {0, 300, 400} :
      \E cuts \in SUBSET (1 .. Len(bytes) - 1) :
        q' = [kind |-> "read", bytes |-> bytes, gap |-> gap, limit |-> Limit(tls, timeoutMs),
              arrivals |-> [k \in DOMAIN Cut(bytes, cuts) |->
                              <<IF k = Len(Cut(bytes, cuts)) THEN gap ELSE 0,
                                Cut(bytes, cuts)[k]>>]]
  BY <1>1, Zenon DEF AskRead, Ask
<1> DEFINE limit == Limit(tls, timeoutMs)
<1>3. PICK cuts \in SUBSET (1 .. Len(bytes) - 1) :
        q' = [kind |-> "read", bytes |-> bytes, gap |-> gap, limit |-> limit,
              arrivals |-> [k \in DOMAIN Cut(bytes, cuts) |->
                              <<IF k = Len(Cut(bytes, cuts)) THEN gap ELSE 0,
                                Cut(bytes, cuts)[k]>>]]
  BY <1>2, Zenon
<1>6. gap \in Nat /\ LimitOK(limit)
  BY DEF LimitOK, Limit
<1> HIDE DEF limit
<1> DEFINE pieces == Cut(bytes, cuts)
           arrivals == [k \in DOMAIN pieces |->
                          <<IF k = Len(pieces) THEN gap ELSE 0, pieces[k]>>]
<1>4. /\ q'.bytes = bytes /\ q'.gap = gap /\ q'.limit = limit
      /\ q'.arrivals = arrivals
  <2> HIDE DEF pieces
  <2>1. q' = [kind |-> "read", bytes |-> bytes, gap |-> gap, limit |-> limit,
              arrivals |-> arrivals]
    BY <1>3, Zenon DEF pieces
  <2> HIDE DEF arrivals
  <2> QED
    BY <2>1
<1>5. bytes \in Seq(Nat) /\ bytes # <<>>
  <2> DEFINE S == {1, 2}
             n == 6
  <2>1. S \subseteq Nat /\ n \in Nat
    OBVIOUS
  <2>2. bytes \in BoundedSeq(S, n) /\ bytes # <<>>
    BY Zenon
  <2> HIDE DEF S, n
  <2>3. bytes \in Seq(S)
    BY <2>1, <2>2, BoundedIsSeq
  <2> QED
    BY <2>1, <2>2, <2>3, WiderSeq, Zenon
<1>7. Spread(arrivals, pieces, gap)
  <2> HIDE DEF pieces
  <2> QED
    BY Zenon DEF Spread
<1> HIDE DEF arrivals
<1>8. \E end : ArrivesCut(arrivals, bytes, end, gap)
  <2>1. CutAt(arrivals, bytes, cuts, gap)
    BY <1>5, <1>6, <1>7, SpreadArrives, Zenon
  <2> QED
    BY <2>1, Zenon DEF CutAt
<1>9. LimitOK(q'.limit)
  BY <1>4, <1>6
<1>10. \E end : ArrivesCut(q'.arrivals, q'.bytes, end, q'.gap)
  BY <1>4, <1>8
<1> QED
  BY <1>4, <1>5, <1>6, <1>9, <1>10

\* Every question about reads is answered as it was meant.
LEMMA AsksRead ==
  ASSUME [Next]_q, q' # q
  PROVE  HeadHoweverCut' /\ ReadsInTime'
<1> SUFFICES ASSUME q'.kind = "read" PROVE HeadHoweverCut' /\ ReadsInTime'
  BY Zenon DEF HeadHoweverCut, ReadsInTime
<1> DEFINE bytes == q'.bytes
           gap == q'.gap
           t == q'.limit
           arrivals == q'.arrivals
           read == readUntil(arrivals, t)
           d == DelimEnd(bytes)
           w == t \div Slice
<1>1. bytes \in Seq(Nat) /\ gap \in Nat /\ LimitOK(t)
  BY AskedRead, Zenon
<1>2. PICK end : ArrivesCut(arrivals, bytes, end, gap)
  BY AskedRead, Zenon
<1>3. Len(arrivals) \in Nat \ {0}
  BY <1>2 DEF ArrivesCut
<1> HIDE DEF bytes, gap, t, arrivals
<1>4. HasRead(read, bytes, gap, t)
  BY <1>1, <1>2, CutRead, Zenon
<1> HIDE DEF read, d, w
<1>5. /\ ~(t < 0) => read.returned /\ read.slices \in Nat /\ read.slices <= 2 * (1 + w)
      /\ read.ok => d # 0 /\ read.out = SubSeq(bytes, 1, d)
      /\ ~read.ok => ~(d \in 1 .. MaxBytes /\ InTime(gap, t))
  BY <1>4, Zenon DEF HasRead, d, w
<1>6. gap = 0 => InTime(gap, t)
  BY Zenon DEF InTime
<1>7. (t = NoLimit \/ gap * Slice <= t => InTime(gap, t)) /\ (t # NoLimit => ~(t < 0) /\ t \in Nat)
  BY <1>1 DEF InTime, Slice, LimitOK, NoLimit
<1>8. ASSUME t # NoLimit PROVE read.returned /\ read.slices <= (Len(arrivals) + 1) * (1 + w)
  <2>1. w \in Nat
    BY <1>7, <1>8, SlicesBounded, Zenon DEF w
  <2> DEFINE n == Len(arrivals)
             x == 2 * (1 + w)
             y == (n + 1) * (1 + w)
  <2>2. x <= y
    BY <1>3, <2>1, TwoLimits, Zenon
  <2>3. x \in Nat /\ y \in Nat
    BY <1>3, <2>1
  <2>4. read.returned /\ read.slices \in Nat /\ read.slices <= x
    BY <1>5, <1>7, <1>8, Zenon
  <2> HIDE DEF x, y
  <2>5. read.slices <= y
    BY <2>2, <2>3, <2>4
  <2> QED
    BY <2>4, <2>5, Zenon DEF y
<1>9. WholeHead' <=> d \in 1 .. MaxBytes
  BY Zenon DEF WholeHead, d, bytes
<1>10. /\ gap = 0 /\ WholeHead' => read.ok
       /\ read.ok => DelimEnd(bytes) # 0 /\ read.out = SubSeq(bytes, 1, DelimEnd(bytes))
       /\ t = NoLimit \/ gap * Slice <= t => (WholeHead' => read.ok)
       /\ t # NoLimit => /\ read.returned
                         /\ read.slices <= (Len(arrivals) + 1) * (1 + t \div Slice)
  BY <1>5, <1>6, <1>7, <1>8, <1>9, Zenon DEF d, w
<1> QED
  BY <1>10, Zenon DEF HeadHoweverCut, ReadsInTime, read, bytes, gap, t, arrivals

\* Joining sequences, one more of them at each step.
Flattens(flatten, seqs, i) == IF i = 1 THEN seqs[i] ELSE flatten[i - 1] \o seqs[i]

IsFlatten(flatten, seqs, n) == flatten = [i \in 1 .. n |-> Flattens(flatten, seqs, i)]

\* Such a function exists.
LEMMA FlattenExists ==
  ASSUME NEW seqs
  PROVE  \A n \in Nat : \E flatten : IsFlatten(flatten, seqs, n)
<1> DEFINE L(f, i) == Flattens(f, seqs, i)
           Good(n) == \E f : f = [i \in 1 .. n |-> L(f, i)]
           T == {n \in Nat : Good(n)}
<1>1. Good(0)
  <2> DEFINE f == [i \in 1 .. 0 |-> L(<<>>, i)]
  <2>1. \A i \in 1 .. 0 : L(f, i) = L(<<>>, i)
    OBVIOUS
  <2> HIDE DEF L
  <2>2. f = [i \in 1 .. 0 |-> L(f, i)]
    BY <2>1, Zenon
  <2> QED
    BY <2>2, Zenon
<1>2. ASSUME NEW n \in Nat, Good(n) PROVE Good(n + 1)
  <2>1. PICK f : f = [i \in 1 .. n |-> L(f, i)]
    BY <1>2, Zenon
  <2> DEFINE g == [i \in 1 .. n + 1 |-> L(f, i)]
  <2>2. \A i \in 1 .. n : g[i] = f[i]
    <3> HIDE DEF L
    <3> QED
      BY <2>1
  <2>3. \A i \in 1 .. n + 1 : L(g, i) = L(f, i)
    <3>1. \A i \in 1 .. n + 1 : i # 1 => i - 1 \in 1 .. n
      OBVIOUS
    <3> HIDE DEF g
    <3> QED
      BY <2>2, <3>1, Zenon DEF Flattens
  <2>4. g = [i \in 1 .. n + 1 |-> L(g, i)]
    <3> HIDE DEF L
    <3> QED
      BY <2>3, Zenon
  <2> HIDE DEF g, L
  <2> QED
    BY <2>4, Zenon
<1>3. \A n \in Nat : n \in T
  <2> HIDE DEF Good
  <2>1. 0 \in T /\ \A n \in Nat : n \in T => n + 1 \in T
    BY <1>1, <1>2
  <2> HIDE DEF T
  <2> QED
    BY <2>1, AllNumbers
<1> QED
  BY <1>3 DEF IsFlatten

FlattenTo(seqs, bytes, end, h, m) == FlattenSeq(seqs) = SubSeq(bytes, end[h] + 1, end[h + m])

\* The pieces between two cuts, joined, are what is between these cuts.
LEMMA FlattenPieces ==
  ASSUME NEW bytes \in Seq(Nat), NEW end, NEW h \in Nat, NEW m \in Nat, NEW seqs,
         \A k \in 0 .. m : end[h + k] \in Nat /\ end[h + k] <= Len(bytes),
         \A k \in 1 .. m : end[h + k - 1] < end[h + k],
         seqs = [k \in 1 .. m |-> SubSeq(bytes, end[h + k - 1] + 1, end[h + k])]
  PROVE  FlattenTo(seqs, bytes, end, h, m)
<1> USE DEF FlattenTo
<1> DEFINE B == Seq(Nat)
           Part(a, b) == SubSeq(bytes, a + 1, b)
<1>1. \A a, b \in Nat : b <= Len(bytes) => Part(a, b) \in B
  OBVIOUS
<1>2. \A a \in Nat : Part(a, a) = <<>>
  OBVIOUS
<1>3. ASSUME NEW a \in Nat, NEW b \in Nat, NEW c \in Nat, a <= b, b <= c, c <= Len(bytes)
      PROVE  Part(a, b) \o Part(b, c) = Part(a, c)
  <2>1. a + 1 \in 1 .. Len(bytes) + 1 /\ b \in a + 1 - 1 .. Len(bytes) /\ c \in b .. Len(bytes)
    BY <1>3
  <2> QED
    BY <2>1, ConcatAdjacentSubSeq
<1> HIDE DEF B, Part
<1>4. ASSUME NEW k \in 1 .. m
      PROVE  /\ seqs[k] = Part(end[h + k - 1], end[h + k]) /\ seqs[k] \in B
             /\ end[h + k - 1] \in Nat /\ end[h + k] \in Nat /\ end[h + k - 1] < end[h + k]
             /\ end[h + k] <= Len(bytes)
  <2>1. k - 1 \in 0 .. m /\ k \in 0 .. m /\ h + (k - 1) = h + k - 1
    OBVIOUS
  <2>2. seqs[k] = Part(end[h + k - 1], end[h + k])
    BY Zenon DEF Part
  <2>3. /\ end[h + (k - 1)] \in Nat /\ end[h + k] \in Nat /\ end[h + k - 1] < end[h + k]
        /\ end[h + k] <= Len(bytes)
    BY <2>1, Zenon
  <2>4. end[h + k - 1] \in Nat
    BY <2>1, <2>3
  <2> QED
    BY <1>1, <2>2, <2>3, <2>4, Zenon
<1>5. seqs \in [1 .. m -> B]
  BY <1>4, Zenon
<1>6. seqs \in Seq(B) /\ Len(seqs) = m
  BY <1>5, FunctionIsSeq
<1>7. CASE m = 0
  <2>1. seqs = <<>>
    BY <1>6, <1>7
  <2>2. FlattenSeq(seqs) = seqs
    BY <1>6, <1>7, Zenon DEF FlattenSeq
  <2>3. h + m = h /\ end[h] \in Nat
    <3>1. 0 \in 0 .. m /\ h + 0 = h
      OBVIOUS
    <3> QED
      BY <1>7, <3>1
  <2> QED
    BY <1>2, <2>1, <2>2, <2>3, Zenon DEF Part
<1>8. CASE m # 0
  <2> DEFINE flatten == CHOOSE f : IsFlatten(f, seqs, m)
  <2>1. IsFlatten(flatten, seqs, m)
    BY FlattenExists, Zenon
  <2>2. FlattenSeq(seqs) = flatten[m]
    BY <1>6, <1>8 DEF FlattenSeq, IsFlatten, Flattens
  <2> HIDE DEF flatten
  <2>3. \A k \in 1 .. m : flatten[k] = IF k = 1 THEN seqs[k] ELSE flatten[k - 1] \o seqs[k]
    BY <2>1, Zenon DEF IsFlatten, Flattens
  <2> DEFINE Done(k) == flatten[k] = Part(end[h], end[h + k]) /\ end[h] <= end[h + k]
             T == {k \in Nat : k + 1 <= m => Done(k + 1)}
  <2>4. Done(1)
    <3>1. 1 \in 1 .. m /\ h + 1 - 1 = h
      BY <1>8
    <3>2. /\ flatten[1] = seqs[1] /\ seqs[1] = Part(end[h + 1 - 1], end[h + 1])
          /\ end[h + 1 - 1] \in Nat /\ end[h + 1] \in Nat /\ end[h + 1 - 1] < end[h + 1]
      BY <1>4, <2>3, <3>1, Zenon
    <3>3. /\ flatten[1] = Part(end[h], end[h + 1])
          /\ end[h] \in Nat /\ end[h + 1] \in Nat /\ end[h] < end[h + 1]
      BY <3>1, <3>2, Zenon
    <3>4. \A a, b \in Nat : a < b => a <= b
      OBVIOUS
    <3> QED
      BY <3>3, <3>4, Zenon
  <2>5. ASSUME NEW k \in Nat \ {0}, k + 1 <= m, Done(k) PROVE Done(k + 1)
    <3> DEFINE j == k + 1
    <3>1. j \in 1 .. m /\ j # 1 /\ j - 1 = k /\ h + j - 1 = h + k /\ k \in 1 .. m
      BY <2>5
    <3> HIDE DEF j
    <3>2. flatten[j] = flatten[k] \o seqs[j]
      BY <2>3, <3>1, Zenon
    <3>3. /\ seqs[j] = Part(end[h + k], end[h + j]) /\ end[h + k] \in Nat /\ end[h + j] \in Nat
          /\ end[h + k] < end[h + j] /\ end[h + j] <= Len(bytes)
      BY <1>4, <3>1
    <3>4. end[h] \in Nat
      <4>1. 0 \in 0 .. m /\ h + 0 = h
        OBVIOUS
      <4>2. end[h + 0] \in Nat
        BY <4>1, Zenon
      <4> QED
        BY <4>1, <4>2
    <3>5. end[h + k] <= end[h + j] /\ end[h] <= end[h + j]
      <4>1. \A a, b, c \in Nat : a <= b /\ b < c => b <= c /\ a <= c
        OBVIOUS
      <4> QED
        BY <2>5, <3>3, <3>4, <4>1, Zenon
    <3>6. Part(end[h], end[h + k]) \o Part(end[h + k], end[h + j]) = Part(end[h], end[h + j])
      BY <1>3, <2>5, <3>3, <3>4, <3>5, Zenon
    <3> QED
      BY <2>5, <3>2, <3>3, <3>5, <3>6, Zenon DEF j
  <2>6. \A k \in Nat : k \in T
    <3> HIDE DEF Done
    <3>1. 0 \in T
      BY <2>4
    <3>2. \A k \in Nat : k \in T => k + 1 \in T
      BY <2>5
    <3> HIDE DEF T
    <3> QED
      BY <3>1, <3>2, AllNumbers
  <2>7. Done(m)
    <3> HIDE DEF Done
    <3> DEFINE k == m - 1
    <3>1. k \in Nat /\ k + 1 = m /\ k + 1 <= m
      BY <1>8
    <3> HIDE DEF k
    <3> QED
      BY <2>6, <3>1
  <2> QED
    BY <2>2, <2>7, Zenon DEF Part
<1> QED
  BY <1>7, <1>8

\* The first pieces of a text are a text in pieces.
LEMMA FirstPieces ==
  ASSUME NEW arrivals, NEW bytes, NEW end, NEW gap, ArrivesCut(arrivals, bytes, end, gap),
         NEW m \in 1 .. Len(arrivals)
  PROVE  ArrivesCut(SubSeq(arrivals, 1, m), SubSeq(bytes, 1, end[m]), end,
                    IF m = Len(arrivals) THEN gap ELSE 0)
<1> DEFINE A == Nat \X Seq(Nat)
           n == Len(arrivals)
           e == end[m]
           some == SubSeq(arrivals, 1, m)
           part == SubSeq(bytes, 1, e)
           late == IF m = n THEN gap ELSE 0
<1>1. /\ arrivals \in Seq(A) /\ bytes \in Seq(Nat) /\ gap \in Nat
      /\ \A k \in 0 .. n : end[k] \in Nat /\ end[k] <= Len(bytes)
      /\ end[0] = 0
      /\ \A j, k \in 0 .. n : j < k => end[j] < end[k]
      /\ \A k \in 1 .. n :
           /\ arrivals[k] = <<arrivals[k][1], SubSeq(bytes, end[k - 1] + 1, end[k])>>
           /\ arrivals[k][1] = IF k = n THEN gap ELSE 0
  BY Zenon DEF ArrivesCut
<1>2. n \in Nat /\ m \in Nat \ {0} /\ m <= n /\ m \in 0 .. n /\ 0 \in 0 .. n /\ 0 < m
  BY <1>1
<1>3. e \in Nat /\ e <= Len(bytes) /\ 0 < e
  BY <1>1, <1>2, Zenon
<1>4. part \in Seq(Nat) /\ Len(part) = e /\ e \in 1 .. Len(bytes)
  <2> HIDE DEF e
  <2>1. bytes \in Seq(Nat)
    BY <1>1, Zenon
  <2> QED
    BY <1>3, <2>1
<1> HIDE DEF A
<1>5. some \in Seq(A) /\ Len(some) = m
  BY <1>1, <1>2
<1>6. \A k \in 1 .. m : some[k] = arrivals[k]
  BY <1>1, <1>2, FirstPlaces
<1>7. some # <<>>
  BY <1>2, <1>5
<1> HIDE DEF n, e, some, part
<1>8. late \in Nat
  BY <1>1
<1>9. ASSUME NEW k \in 0 .. m
      PROVE  k \in 0 .. n /\ end[k] \in Nat /\ end[k] <= e
  <2>1. k \in 0 .. n /\ (k = m \/ k < m)
    BY <1>2
  <2>2. end[k] \in Nat /\ (end[k] = e \/ end[k] < e)
    BY <1>1, <1>2, <2>1, Zenon DEF e
  <2> QED
    BY <1>3, <2>1, <2>2
<1>10. ASSUME NEW k \in 1 .. m
       PROVE  /\ some[k] = <<some[k][1], SubSeq(part, end[k - 1] + 1, end[k])>>
              /\ some[k][1] = IF k = m THEN late ELSE 0
  <2> DEFINE a == end[k - 1]
             b == end[k]
  <2>1. k \in 1 .. n /\ k - 1 \in 0 .. m /\ k \in 0 .. m /\ k - 1 < k
    BY <1>2
  <2>2. a \in Nat /\ b \in Nat /\ b <= e /\ a < b
    BY <1>1, <1>9, <2>1, Zenon
  <2>3. /\ arrivals[k] = <<arrivals[k][1], SubSeq(bytes, a + 1, b)>>
        /\ arrivals[k][1] = IF k = n THEN gap ELSE 0
    BY <1>1, <2>1, Zenon
  <2> HIDE DEF a, b
  <2>4. SubSeq(part, a + 1, b) = SubSeq(bytes, a + 1, b)
    <3> DEFINE c == a + 1
    <3>1. c \in 1 .. e /\ b \in 1 .. e
      BY <1>3, <2>2
    <3> HIDE DEF c
    <3> QED
      BY <1>1, <1>4, <3>1, BeginOf, Zenon DEF part, c
  <2>5. (IF k = n THEN gap ELSE 0) = IF k = m THEN late ELSE 0
    <3>1. k = n => k = m
      BY <1>2
    <3> QED
      BY <3>1, Zenon
  <2> QED
    BY <1>6, <2>3, <2>4, <2>5, Zenon DEF a, b
<1>11. \A j, k \in 0 .. m : j < k => end[j] < end[k]
  BY <1>1, <1>9, Zenon
<1>12. \A k \in 0 .. m : end[k] \in Nat /\ end[k] <= e
  BY <1>9
<1>13. ArrivesCut(some, part, end, late)
  BY <1>1, <1>4, <1>5, <1>7, <1>8, <1>10, <1>11, <1>12, Zenon DEF ArrivesCut, e, A
<1> QED
  BY <1>13, Zenon DEF some, part, e, n

\* Whether the client has the head when it has read m pieces.
HasHead(arrivals, m) == readUntil(SubSeq(arrivals, 1, m), Limit(TRUE, 15000)).ok

\* It has it when the end of the first head is in them.
LEMMA HeadWithin ==
  ASSUME NEW arrivals, NEW bytes, NEW end, NEW gap, ArrivesCut(arrivals, bytes, end, gap),
         NEW m \in 1 .. Len(arrivals)
  PROVE  /\ HasHead(arrivals, m) => DelimEnd(bytes) # 0 /\ DelimEnd(bytes) <= end[m]
         /\ DelimEnd(bytes) \in 1 .. MaxBytes /\ DelimEnd(bytes) <= end[m] => HasHead(arrivals, m)
<1> DEFINE some == SubSeq(arrivals, 1, m)
           e == end[m]
           part == SubSeq(bytes, 1, e)
           late == IF m = Len(arrivals) THEN gap ELSE 0
           t == Limit(TRUE, 15000)
           read == readUntil(some, t)
           d == DelimEnd(bytes)
           dp == DelimEnd(part)
<1>1. ArrivesCut(some, part, end, late)
  BY FirstPieces, Zenon
<1>7. LimitOK(t) /\ InTime(late, t)
  BY DEF LimitOK, Limit, NoLimit, InTime
<1> HIDE DEF late, t
<1>2. HasRead(read, part, late, t)
  BY <1>1, <1>7, CutRead, Zenon
<1>3. e \in 0 .. Len(bytes) /\ bytes \in Seq(Nat)
  <2>1. m \in 0 .. Len(arrivals)
    OBVIOUS
  <2>2. e \in Nat /\ e <= Len(bytes) /\ bytes \in Seq(Nat)
    BY <2>1, Zenon DEF ArrivesCut
  <2> QED
    BY <2>2
<1> HIDE DEF e
<1>4. /\ d \in Nat
      /\ d # 0 /\ d <= e => dp = d
      /\ d = 0 \/ e < d => dp = 0
  BY <1>3, DelimEndBegin, Zenon
<1> HIDE DEF read, d, dp, part
<1>6. (read.ok => dp # 0) /\ (~read.ok => ~(dp \in 1 .. MaxBytes))
  BY <1>2, <1>7, Zenon DEF HasRead, dp
<1>8. read.ok => d # 0 /\ d <= e
  BY <1>3, <1>4, <1>6
<1>9. d \in 1 .. MaxBytes /\ d <= e => read.ok
  <2>1. d \in 1 .. MaxBytes => d # 0
    OBVIOUS
  <2> QED
    BY <1>4, <1>6, <2>1, Zenon
<1>10. HasHead(arrivals, m) = read.ok
  BY DEF HasHead, read, some, t
<1> QED
  BY <1>8, <1>9, <1>10 DEF d, e

\* What a body is: what follows the piece that brought the end of the head.
BodyWithin(arrivals, bytes, end) ==
  \/ bodyOf(arrivals) = <<>> /\ \A m \in 1 .. Len(arrivals) : ~HasHead(arrivals, m)
  \/ \E h \in 1 .. Len(arrivals) :
       /\ HasHead(arrivals, h)
       /\ \A m \in 1 .. Len(arrivals) : HasHead(arrivals, m) => h <= m
       /\ bodyOf(arrivals) = SubSeq(bytes, end[h] + 1, end[Len(arrivals)])

\* The body of an answer is what BodyWithin says.
LEMMA BodyIs ==
  ASSUME NEW arrivals, NEW bytes, NEW end, NEW gap, ArrivesCut(arrivals, bytes, end, gap)
  PROVE  BodyWithin(arrivals, bytes, end)
<1> USE DEF BodyWithin
<1> DEFINE n == Len(arrivals)
           heads == {m \in 1 .. n : HasHead(arrivals, m)}
           head == CHOOSE m \in heads : \A k \in heads : m <= k
           stops == {k \in head + 1 .. n : arrivals[k][2] = <<>>}
           stop == CHOOSE k \in stops : \A m \in stops : k <= m
           last == IF stops = {} THEN n ELSE stop - 1
           parts == [k \in 1 .. last + 1 - (head + 1) |-> arrivals[head + 1 + k - 1][2]]
<1>1. bodyOf(arrivals) = IF heads = {} THEN <<>> ELSE FlattenSeq(parts)
  BY DEF bodyOf, FirstOfBody, HasHead
<1>2. /\ arrivals \in Seq(Nat \X Seq(Nat)) /\ n \in Nat /\ bytes \in Seq(Nat)
      /\ \A k \in 0 .. n : end[k] \in Nat /\ end[k] <= Len(bytes)
      /\ \A j, k \in 0 .. n : j < k => end[j] < end[k]
      /\ \A k \in 1 .. n :
           arrivals[k] = <<arrivals[k][1], SubSeq(bytes, end[k - 1] + 1, end[k])>>
  <2>1. arrivals \in Seq(Nat \X Seq(Nat))
    BY Zenon DEF ArrivesCut
  <2>2. n \in Nat
    BY <2>1
  <2> QED
    BY <2>2, Zenon DEF ArrivesCut
<1> HIDE DEF n
<1>3. CASE heads = {}
  <2>1. bodyOf(arrivals) = <<>>
    <3> HIDE DEF heads, parts
    <3> QED
      BY <1>1, <1>3, Zenon
  <2>2. \A m \in 1 .. n : ~HasHead(arrivals, m)
    BY <1>3, Zenon
  <2> QED
    BY <2>1, <2>2, Zenon DEF n
<1>4. CASE heads # {}
  <2>1. heads \in SUBSET Nat /\ \A m \in heads : m \in 1 .. n
    <3>1. 1 .. n \subseteq Nat
      BY <1>2
    <3> QED
      BY <3>1, Zenon
  <2>2. head \in heads /\ \A k \in heads : head <= k
    <3> HIDE DEF heads
    <3>1. \E m \in heads : \A k \in heads : m <= k
      BY <1>4, <2>1, LeastNumber
    <3> QED
      BY <3>1, Zenon
  <2>3. HasHead(arrivals, head) /\ \A m \in 1 .. n : HasHead(arrivals, m) => head <= m
    BY <2>2, Zenon
  <2>4. head \in 1 .. n
    BY <2>1, <2>2, Zenon
  <2> HIDE DEF heads, head
  <2>5. stops = {}
    <3>1. ASSUME NEW k \in 1 .. n PROVE arrivals[k][2] # <<>>
      <4> DEFINE a == end[k - 1]
                 b == end[k]
      <4>1. k - 1 \in 0 .. n /\ k \in 0 .. n /\ k - 1 < k
        BY <1>2
      <4>2. a \in Nat /\ b \in Nat /\ a < b /\ b <= Len(bytes)
        BY <1>2, <4>1, Zenon
      <4>3. arrivals[k] = <<arrivals[k][1], SubSeq(bytes, a + 1, b)>>
        BY <1>2, Zenon
      <4> HIDE DEF a, b
      <4>4. arrivals[k][2] = SubSeq(bytes, a + 1, b)
        BY <4>3
      <4>5. SubSeq(bytes, a + 1, b) # <<>>
        <5>1. Len(SubSeq(bytes, a + 1, b)) = b - a /\ b - a # 0
          BY <1>2, <4>2
        <5> QED
          BY <5>1
      <4> QED
        BY <4>4, <4>5, Zenon
    <3>2. \A k \in head + 1 .. n : k \in 1 .. n
      BY <1>2, <2>4
    <3> QED
      BY <3>1, <3>2, Zenon
  <2>6. last = n /\ last \in 1 .. n /\ head <= last
    <3>1. last = n
      BY <2>5, Zenon
    <3> HIDE DEF last
    <3> QED
      BY <1>2, <2>4, <3>1
  <2> HIDE DEF stops, stop, last
  <2> DEFINE m == last - head
  <2>7. m \in Nat /\ head \in Nat /\ head + m = last
    BY <1>2, <2>4, <2>6
  <2>8. parts = [k \in 1 .. m |-> SubSeq(bytes, end[head + k - 1] + 1, end[head + k])]
    <3>1. last + 1 - (head + 1) = m /\ \A k \in 1 .. m : head + 1 + k - 1 = head + k
      BY <1>2, <2>4, <2>6
    <3>2. ASSUME NEW k \in 1 .. m
          PROVE  arrivals[head + k][2] = SubSeq(bytes, end[head + k - 1] + 1, end[head + k])
      <4> DEFINE j == head + k
      <4>1. j \in 1 .. n
        BY <1>2, <2>4, <2>6, <2>7
      <4> HIDE DEF j
      <4>2. arrivals[j] = <<arrivals[j][1], SubSeq(bytes, end[j - 1] + 1, end[j])>>
        BY <1>2, <4>1, Zenon
      <4>3. arrivals[j][2] = SubSeq(bytes, end[j - 1] + 1, end[j])
        BY <4>2
      <4>4. j - 1 = head + k - 1
        BY <2>7 DEF j
      <4> QED
        BY <4>3, <4>4, Zenon DEF j
    <3> HIDE DEF m
    <3>3. parts = [k \in 1 .. m |-> arrivals[head + k][2]]
      BY <3>1, Zenon
    <3> HIDE DEF parts
    <3> QED
      BY <3>2, <3>3, Zenon
  <2> HIDE DEF m, parts
  <2>9. /\ \A k \in 0 .. m : end[head + k] \in Nat /\ end[head + k] <= Len(bytes)
        /\ \A k \in 1 .. m : end[head + k - 1] < end[head + k]
    <3>1. \A k \in 0 .. m : head + k \in 0 .. n
      BY <1>2, <2>4, <2>6, <2>7
    <3>2. \A k \in 1 .. m : /\ head + k \in 0 .. n /\ head + k - 1 \in 0 .. n
                            /\ head + k - 1 < head + k
      BY <1>2, <2>4, <2>6, <2>7
    <3> QED
      BY <1>2, <3>1, <3>2, Zenon
  <2>10. FlattenSeq(parts) = SubSeq(bytes, end[head] + 1, end[head + m])
    <3>1. FlattenTo(parts, bytes, end, head, m)
      BY <1>2, <2>7, <2>8, <2>9, FlattenPieces, Zenon
    <3> QED
      BY <3>1, Zenon DEF FlattenTo
  <2>11. bodyOf(arrivals) = SubSeq(bytes, end[head] + 1, end[n])
    BY <1>1, <1>4, <2>6, <2>7, <2>10, Zenon
  <2> QED
    BY <2>3, <2>4, <2>11, Zenon DEF n
<1> QED
  BY <1>3, <1>4, Zenon

\* A head and a body: the first Delim is the one they begin with.
LEMMA HeadAndBody ==
  ASSUME NEW rest \in Seq(Nat)
  PROVE  LET bytes == Delim \o rest
             d == Len(Delim)
         IN /\ bytes \in Seq(Nat) /\ Len(bytes) = d + Len(rest) /\ d \in Nat \ {0}
            /\ DelimEnd(bytes) = d
            /\ SubSeq(bytes, d + 1, Len(bytes)) = rest
<1> DEFINE bytes == Delim \o rest
           d == Len(Delim)
           L == Len(bytes)
<1>1. Delim \in Seq(Nat) /\ d \in Nat \ {0} /\ Len(rest) \in Nat
  BY ReadAssumption
<1>2. bytes \in Seq(Nat) /\ L = d + Len(rest)
  BY <1>1, Joined
<1>3. \A i \in 1 .. d + Len(rest) : bytes[i] = IF i <= d THEN Delim[i] ELSE rest[i - d]
  BY <1>1, Joined
<1> HIDE DEF bytes, d, L
<1>4. SubSeq(bytes, 1, d) = Delim
  <2>1. SubSeq(bytes, 1, d) \in Seq(Nat) /\ Len(SubSeq(bytes, 1, d)) = d
    BY <1>1, <1>2 DEF L
  <2>2. \A i \in 1 .. d : SubSeq(bytes, 1, d)[i] = Delim[i]
    BY <1>1, <1>2, <1>3 DEF L
  <2> QED
    BY <1>1, <2>1, <2>2 DEF d
<1>5. SubSeq(bytes, d + 1, L) = rest
  <2> DEFINE s == SubSeq(bytes, d + 1, L)
  <2>1. s \in Seq(Nat) /\ Len(s) = Len(rest)
    BY <1>1, <1>2 DEF L
  <2>2. \A i \in 1 .. Len(rest) : s[i] = rest[i]
    BY <1>1, <1>2, <1>3, SMTT(30) DEF L
  <2> HIDE DEF s
  <2>3. s = rest
    BY <2>1, <2>2
  <2> QED
    BY <2>3 DEF s
<1>6. d \in DelimsIn(bytes)
  <2>1. d \in d .. L /\ d - d + 1 = 1
    BY <1>1, <1>2
  <2> QED
    BY <1>4, <2>1, Zenon DEF DelimsIn, d, L
<1>7. DelimEnd(bytes) = d
  <2> DEFINE e == DelimEnd(bytes)
  <2>1. /\ e <= d
        /\ e \in Nat /\ d <= e
    BY <1>2, <1>6, DelimEndIs, Zenon DEF d
  <2> HIDE DEF e
  <2> QED
    BY <1>1, <2>1 DEF e
<1> QED
  BY <1>1, <1>2, <1>5, <1>7, Zenon DEF bytes, d, L

\* A head is not too long to be read.
HeadFits == Len(Delim) <= MaxBytes

\* What is asked about bodies.
LEMMA AskedBody ==
  ASSUME [Next]_q, q' # q, q'.kind = "body"
  PROVE  /\ q'.rest \in Seq(Nat)
         /\ q'.cuts \in SUBSET (1 .. Len(Delim \o q'.rest) - 1)
         /\ \E end, gap : /\ ArrivesCut(q'.arrivals, Delim \o q'.rest, end, gap)
                          /\ \A c \in q'.cuts : \E k \in 0 .. Len(q'.arrivals) : end[k] = c
<1>1. AskBody
  BY WhoAsks, Zenon
<1>2. PICK rest \in BoundedSeq({3}, 3), late \in BOOLEAN :
      \E cuts \in SUBSET (1 .. Len(Delim \o rest) - 1) :
        q' = [kind |-> "body", rest |-> rest, late |-> late, cuts |-> cuts,
              arrivals |-> [k \in DOMAIN Cut(Delim \o rest, cuts) |->
                              <<IF late /\ k = Len(Cut(Delim \o rest, cuts)) THEN 99 ELSE 0,
                                Cut(Delim \o rest, cuts)[k]>>]]
  BY <1>1, Zenon DEF AskBody, Ask
<1> DEFINE bytes == Delim \o rest
<1>3. PICK cuts \in SUBSET (1 .. Len(bytes) - 1) :
        q' = [kind |-> "body", rest |-> rest, late |-> late, cuts |-> cuts,
              arrivals |-> [k \in DOMAIN Cut(bytes, cuts) |->
                              <<IF late /\ k = Len(Cut(bytes, cuts)) THEN 99 ELSE 0,
                                Cut(bytes, cuts)[k]>>]]
  BY <1>2, Zenon
<1> DEFINE pieces == Cut(bytes, cuts)
           arrivals == [k \in DOMAIN pieces |->
                          <<IF late /\ k = Len(pieces) THEN 99 ELSE 0, pieces[k]>>]
           gap == IF late THEN 99 ELSE 0
<1>4. /\ q'.rest = rest /\ q'.cuts = cuts
      /\ q'.arrivals = arrivals
  <2> HIDE DEF pieces
  <2>1. q' = [kind |-> "body", rest |-> rest, late |-> late, cuts |-> cuts,
              arrivals |-> arrivals]
    BY <1>3, Zenon DEF pieces
  <2> HIDE DEF arrivals
  <2> QED
    BY <2>1
<1>5. rest \in Seq(Nat)
  <2> DEFINE S == {3}
             n == 3
  <2>1. S \subseteq Nat /\ n \in Nat
    OBVIOUS
  <2>2. rest \in BoundedSeq(S, n)
    BY Zenon
  <2> HIDE DEF S, n
  <2>3. rest \in Seq(S)
    BY <2>1, <2>2, BoundedIsSeq
  <2> QED
    BY <2>1, <2>3, WiderSeq, Zenon
<1>6. bytes \in Seq(Nat) /\ bytes # <<>>
  <2>1. bytes \in Seq(Nat) /\ Len(bytes) = Len(Delim) + Len(rest) /\ Len(Delim) \in Nat \ {0}
    BY <1>5, HeadAndBody, Zenon
  <2>2. Len(rest) \in Nat
    BY <1>5
  <2> HIDE DEF bytes
  <2> QED
    BY <2>1, <2>2
<1>7. gap \in Nat
  OBVIOUS
<1>8. Spread(arrivals, pieces, gap)
  <2> HIDE DEF pieces
  <2>1. \A k : (IF late /\ k = Len(pieces) THEN 99 ELSE 0) = IF k = Len(pieces) THEN gap ELSE 0
    OBVIOUS
  <2> HIDE DEF gap
  <2>2. \A k \in DOMAIN pieces :
          arrivals[k] = <<IF k = Len(pieces) THEN gap ELSE 0, pieces[k]>>
    BY <2>1, Zenon
  <2> QED
    BY <2>2, Zenon DEF Spread
<1>10. cuts \in SUBSET (1 .. Len(bytes) - 1)
  OBVIOUS
<1> HIDE DEF arrivals, bytes, gap
<1>9. \E end : /\ ArrivesCut(arrivals, bytes, end, gap)
               /\ \A c \in cuts : \E k \in 0 .. Len(arrivals) : end[k] = c
  <2>1. CutAt(arrivals, bytes, cuts, gap)
    BY <1>6, <1>7, <1>8, <1>10, SpreadArrives, Zenon
  <2> QED
    BY <2>1, Zenon DEF CutAt
<1> QED
  BY <1>4, <1>5, <1>9, Zenon DEF bytes

\* Every question about a body is answered as it was meant.
LEMMA AsksBody ==
  ASSUME HeadFits, [Next]_q, q' # q
  PROVE  BodyFollowsHead'
<1> SUFFICES ASSUME q'.kind = "body" PROVE BodyFollowsHead'
  BY Zenon DEF BodyFollowsHead
<1> DEFINE rest == q'.rest
           cuts == q'.cuts
           arrivals == q'.arrivals
           bytes == Delim \o rest
           body == bodyOf(arrivals)
           d == Len(Delim)
           n == Len(arrivals)
           L == Len(bytes)
<1>1. rest \in Seq(Nat)
  BY AskedBody, Zenon
<1>2. PICK end, gap : /\ ArrivesCut(arrivals, bytes, end, gap)
                      /\ \A c \in cuts : \E k \in 0 .. n : end[k] = c
  BY AskedBody, Zenon
<1> HIDE DEF rest, cuts, arrivals
<1>3. /\ bytes \in Seq(Nat) /\ L = d + Len(rest) /\ d \in Nat \ {0}
      /\ DelimEnd(bytes) = d
      /\ SubSeq(bytes, d + 1, L) = rest
  BY <1>1, HeadAndBody, Zenon
<1> HIDE DEF bytes
<1>4. /\ n \in Nat /\ end[0] = 0 /\ end[n] = L
      /\ \A k \in 0 .. n : end[k] \in Nat /\ end[k] <= L
      /\ \A j, k \in 0 .. n : j < k => end[j] < end[k]
  <2>1. n \in Nat
    BY <1>2 DEF ArrivesCut
  <2> QED
    BY <1>2, <2>1, Zenon DEF ArrivesCut
<1>5. ASSUME NEW m \in 1 .. n PROVE HasHead(arrivals, m) <=> d <= end[m]
  <2> DEFINE e == DelimEnd(bytes)
  <2>1. d \in 1 .. MaxBytes /\ e = d /\ m \in 1 .. Len(arrivals)
    BY <1>3, ReadAssumption DEF HeadFits
  <2>2. /\ HasHead(arrivals, m) => e <= end[m]
        /\ e \in 1 .. MaxBytes /\ e <= end[m] => HasHead(arrivals, m)
    BY <1>2, <2>1, HeadWithin, Zenon
  <2> HIDE DEF e, d
  <2> QED
    BY <2>1, <2>2, Zenon
<1>6. Len(rest) \in Nat /\ L \in Nat
  BY <1>1, <1>3
<1> HIDE DEF body, d, n, L
<1>7. \/ body = <<>> /\ \A m \in 1 .. n : ~HasHead(arrivals, m)
      \/ \E h \in 1 .. n :
           /\ HasHead(arrivals, h)
           /\ \A m \in 1 .. n : HasHead(arrivals, m) => h <= m
           /\ body = SubSeq(bytes, end[h] + 1, L)
  <2>1. BodyWithin(arrivals, bytes, end)
    BY <1>2, BodyIs, Zenon
  <2> QED
    BY <1>4, <2>1, Zenon DEF BodyWithin, body, n
<1>8. Len(body) <= Len(rest)
  <2>1. CASE body = <<>>
    BY <1>6, <2>1
  <2>2. ASSUME NEW h \in 1 .. n, HasHead(arrivals, h), body = SubSeq(bytes, end[h] + 1, L)
        PROVE  Len(body) <= Len(rest)
    <3> DEFINE a == end[h]
    <3>1. h \in 0 .. n
      BY <1>4
    <3>2. a \in Nat /\ a <= L /\ d <= a
      BY <1>4, <1>5, <2>2, <3>1, Zenon
    <3>3. body = SubSeq(bytes, a + 1, L)
      BY <2>2, Zenon
    <3> HIDE DEF a
    <3>5. L = Len(bytes)
      BY DEF L
    <3>4. Len(body) = L - a
      BY <1>3, <1>6, <3>2, <3>3, <3>5
    <3> QED
      BY <1>3, <1>6, <3>2, <3>4
  <2> QED
    BY <1>7, <2>1, <2>2, Zenon
<1>9. ASSUME d \in cuts PROVE body = rest
  <2>2. PICK k \in 0 .. n : end[k] = d
    BY <1>2, <1>9, Zenon DEF n
  <2>3. k \in 1 .. n
    <3>1. k # 0
      BY <1>3, <1>4, <2>2
    <3> QED
      BY <1>4, <3>1
  <2>4. d <= d
    BY <1>3
  <2>5. HasHead(arrivals, k)
    BY <1>5, <2>2, <2>3, <2>4, Zenon
  <2>6. PICK h \in 1 .. n :
          /\ HasHead(arrivals, h)
          /\ \A m \in 1 .. n : HasHead(arrivals, m) => h <= m
          /\ body = SubSeq(bytes, end[h] + 1, L)
    BY <1>7, <2>3, <2>5, Zenon
  <2>7. h <= k /\ d <= end[h]
    BY <1>5, <2>3, <2>5, <2>6, Zenon
  <2>8. h = k
    <3>1. h \in 0 .. n /\ (h < k \/ h = k)
      BY <1>4, <2>3, <2>7
    <3>2. h < k => end[h] < end[k]
      BY <1>4, <3>1, Zenon
    <3>3. end[h] \in Nat
      BY <1>4, <3>1, Zenon
    <3> QED
      BY <1>3, <2>2, <2>7, <3>1, <3>2, <3>3
  <2> QED
    BY <1>3, <2>2, <2>6, <2>8, Zenon
<1> QED
  BY <1>8, <1>9, Zenon DEF BodyFollowsHead, body, d, rest, cuts, arrivals

\* However the network cuts and delays what is sent, a head is read whole, a call on a
\* plain socket ends in time, and a body is read without the head.
THEOREM ReadsCutAnywhere ==
  ASSUME HeadFits
  PROVE  Spec => []ReadsHoweverCut
<1>1. Init => ReadsHoweverCut
  BY SMT DEF Init, ReadsHoweverCut, HeadHoweverCut, ReadsInTime, BodyFollowsHead
<1>2. ReadsHoweverCut /\ [Next]_q => ReadsHoweverCut'
  <2> SUFFICES ASSUME ReadsHoweverCut, [Next]_q
               PROVE  ReadsHoweverCut'
    BY Zenon
  <2>1. CASE q' = q
    BY <2>1, Zenon DEF ReadsHoweverCut, HeadHoweverCut, ReadsInTime, BodyFollowsHead, WholeHead
  <2>2. CASE q' # q
    BY <2>2, AsksRead, AsksBody, Zenon DEF ReadsHoweverCut
  <2> QED
    BY <2>1, <2>2, Zenon
<1> QED
  BY <1>1, <1>2, PTL DEF Spec

(* -------------------------------- data frames -------------------------- *)

\* A number is what its digits say.
LEMMA DigitsOf ==
  ASSUME NEW R \in Nat \ {0, 1}, NEW v \in Nat
  PROVE  /\ v \div R \in Nat /\ v % R \in 0 .. R - 1
         /\ v = (v \div R) * R + (v % R)
         /\ \A w \in Nat : v < w * R => v \div R < w
<1>1. PICK d \in Nat, m \in 0 .. R - 1 : v = R * d + m /\ d = v \div R
  OBVIOUS
<1>2. (R * d + m) \div R = d /\ (R * d + m) % R = m
  OBVIOUS
<1>3. v \div R = d /\ v % R = m
  BY <1>1, <1>2, Zenon
<1>4. ASSUME NEW w \in Nat, v < w * R PROVE d < w
  <2> SUFFICES ASSUME d >= w PROVE FALSE
    BY <1>1
  <2>1. d * R >= w * R
    BY <1>1
  <2> QED
    BY <1>1, <1>4, <2>1
<1> QED
  BY <1>1, <1>3, <1>4

\* The two parts of what has been joined.
LEMMA BothParts ==
  ASSUME NEW S, NEW s \in Seq(S), NEW t \in Seq(S)
  PROVE  /\ SubSeq(s \o t, 1, Len(s)) = s
         /\ SubSeq(s \o t, Len(s) + 1, Len(s) + Len(t)) = t
  BY SubSeqOfConcat1, SubSeqOfConcat2, SubSeqFull, ConcatProperties, LenProperties

\* A small number is its own digit.
LEMMA OneDigit ==
  ASSUME NEW R \in Nat \ {0, 1}, NEW v \in 0 .. R - 1
  PROVE  v % R = v
OBVIOUS

\* A data frame brings sessionId and payload to the other end.
THEOREM FrameIsRead ==
  ASSUME NEW S, NEW sessionId \in SessionIds, NEW payload \in Seq(S)
  PROVE  LET frame == encodeDataFrame(sessionId, payload)
         IN /\ decodeDataFrame(frame) =
                 [valid |-> TRUE, sessionId |-> sessionId, payload |-> payload]
            /\ \A n \in 0 .. kDataHeaderLen - 1 : ~decodeDataFrame(SubSeq(frame, 1, n)).valid
<1> DEFINE R == Radix
           v == sessionId
           a == v \div R
           b == a \div R
           c == b \div R
           head == <<c % R, b % R, a % R, v % R>>
           frame == head \o payload
<1>1. R \in Nat \ {0, 1} /\ v \in Nat
  BY RadixAssumption DEF SessionIds
<1>2. /\ a \in Nat /\ v % R \in 0 .. R - 1 /\ v = a * R + (v % R)
      /\ \A w \in Nat : v < w * R => a < w
  <2> HIDE DEF R, v
  <2> QED
    BY <1>1, DigitsOf, Zenon DEF a
<1>3. /\ b \in Nat /\ a % R \in 0 .. R - 1 /\ a = b * R + (a % R)
      /\ \A w \in Nat : a < w * R => b < w
  <2> HIDE DEF R, v, a
  <2> QED
    BY <1>1, <1>2, DigitsOf, Zenon DEF b
<1>4. /\ c \in Nat /\ b % R \in 0 .. R - 1 /\ b = c * R + (b % R)
      /\ \A w \in Nat : b < w * R => c < w
  <2> HIDE DEF R, v, a, b
  <2> QED
    BY <1>1, <1>3, DigitsOf, Zenon DEF c
<1>5. c < R
  <2>1. v < ((R * R) * R) * R
    BY <1>1 DEF SessionIds
  <2> HIDE DEF R, v, a, b, c
  <2>2. R * R \in Nat /\ (R * R) * R \in Nat
    BY <1>1
  <2>3. a < (R * R) * R
    BY <1>2, <2>1, <2>2, Zenon
  <2>4. b < R * R
    BY <1>3, <2>2, <2>3, Zenon
  <2> QED
    BY <1>1, <1>4, <2>4, Zenon
<1>6. c % R = c
  <2> HIDE DEF R, v, a, b, c
  <2>1. c \in 0 .. R - 1
    BY <1>1, <1>4, <1>5
  <2> QED
    BY <1>1, <2>1, OneDigit, Zenon
<1>7. getU32BE(head) = v
  <2>1. getU32BE(head) = (((c % R) * R + (b % R)) * R + (a % R)) * R + (v % R)
    BY DEF getU32BE
  <2> HIDE DEF head, R, v, a, b, c
  <2> QED
    BY <1>2, <1>3, <1>4, <1>6, <2>1, Zenon
<1>8. encodeDataFrame(sessionId, payload) = frame
  BY DEF encodeDataFrame, putU32BE
<1>9. /\ Len(frame) = 4 + Len(payload) /\ \A i \in 1 .. 4 : frame[i] = head[i]
      /\ SubSeq(frame, 5, Len(frame)) = payload
      /\ frame \in Seq(Nat \cup S)
  <2> HIDE DEF R, v, a, b, c
  <2>1. head \in Seq(Nat \cup S) /\ payload \in Seq(Nat \cup S) /\ Len(head) = 4
    BY <1>1, <1>2, <1>3, <1>4
  <2> HIDE DEF head
  <2>2. Len(payload) \in Nat
    OBVIOUS
  <2>3. /\ frame \in Seq(Nat \cup S) /\ Len(frame) = Len(head) + Len(payload)
        /\ \A i \in 1 .. Len(head) + Len(payload) :
             frame[i] = IF i <= Len(head) THEN head[i] ELSE payload[i - Len(head)]
    BY <2>1, Joined, Zenon
  <2>4. SubSeq(frame, Len(head) + 1, Len(head) + Len(payload)) = payload
    BY <2>1, BothParts, Zenon
  <2> HIDE DEF frame
  <2> QED
    BY <2>1, <2>2, <2>3, <2>4
<1>10. getU32BE(frame) = getU32BE(head)
  <2> HIDE DEF head, frame
  <2> QED
    BY <1>9 DEF getU32BE
<1>11. decodeDataFrame(frame) = [valid |-> TRUE, sessionId |-> sessionId, payload |-> payload]
  <2>1. v = sessionId
    OBVIOUS
  <2>2. Len(payload) \in Nat
    OBVIOUS
  <2> HIDE DEF head, frame, v
  <2>3. Len(frame) >= 4 /\ 4 + 1 = 5
    BY <1>9, <2>2
  <2>4. getU32BE(frame) = sessionId /\ SubSeq(frame, 4 + 1, Len(frame)) = payload
    BY <1>7, <1>9, <1>10, <2>1, <2>3, Zenon
  <2>5. ~(Len(frame) < 4)
    BY <1>9, <2>2
  <2> QED
    BY <2>4, <2>5, Zenon DEF decodeDataFrame, kDataHeaderLen
<1>12. ASSUME NEW n \in 0 .. kDataHeaderLen - 1
       PROVE  ~decodeDataFrame(SubSeq(frame, 1, n)).valid
  <2>1. n \in 0 .. 3 /\ Len(payload) \in Nat
    BY DEF kDataHeaderLen
  <2> HIDE DEF frame
  <2>2. Len(SubSeq(frame, 1, n)) = n
    BY <1>9, <2>1
  <2> QED
    BY <2>1, <2>2 DEF decodeDataFrame, kDataHeaderLen, NoFrame
<1> QED
  BY <1>8, <1>11, <1>12

(* --------------------------------- folds ------------------------------- *)

\* A fold over the places 1 .. n: Step makes of the value so far and of the next place
\* the value after that place.
FoldedAt(f, base, Step, s) ==
  IF s = {} THEN base ELSE Step[Max(s)][f[s \ {Max(s)}]]

IsFolded(f, n, base, Step) ==
  f = [s \in SUBSET (1 .. n) |-> FoldedAt(f, base, Step, s)]

\* Taking the last place away from some of the first n + 1 leaves some of the first n.
LEMMA WithoutLast ==
  ASSUME NEW n \in Nat, NEW s \in SUBSET (1 .. n + 1), s # {}
  PROVE  Max(s) \in s /\ Max(s) \in 1 .. n + 1 /\ s \ {Max(s)} \in SUBSET (1 .. n)
<1>1. Max(s) \in s /\ \A y \in s : Max(s) >= y
  <2>1. s \in SUBSET Nat /\ n + 1 \in Nat /\ \A x \in s : x <= n + 1
    OBVIOUS
  <2> QED
    BY <2>1, GreatestNumber, Zenon
<1> DEFINE m == Max(s)
<1>2. m \in s /\ \A y \in s : m >= y
  BY <1>1, Zenon
<1> HIDE DEF m
<1>3. m \in 1 .. n + 1 /\ s \ {m} \in SUBSET (1 .. n)
  BY <1>2
<1> QED
  BY <1>2, <1>3, Zenon DEF m

\* Such a fold exists.
LEMMA FoldedExists ==
  ASSUME NEW X, NEW N \in Nat, NEW base \in X, NEW Step \in [1 .. N -> [X -> X]]
  PROVE  \E f \in [SUBSET (1 .. N) -> X] : IsFolded(f, N, base, Step)
<1> DEFINE F(f, s) == FoldedAt(f, base, Step, s)
           Good(n) == \E f \in [SUBSET (1 .. n) -> X] : IsFolded(f, n, base, Step)
           T == {n \in Nat : n <= N => Good(n)}
<1>1. Good(0)
  <2> DEFINE f == [s \in SUBSET (1 .. 0) |-> base]
  <2>1. \A s \in SUBSET (1 .. 0) : s = {}
    OBVIOUS
  <2> HIDE DEF f
  <2>2. \A s \in SUBSET (1 .. 0) : F(f, s) = base
    BY <2>1, Zenon DEF FoldedAt
  <2>3. f = [s \in SUBSET (1 .. 0) |-> base]
    BY DEF f
  <2>4. f = [s \in SUBSET (1 .. 0) |-> F(f, s)]
    <3> HIDE DEF F
    <3> QED
      BY <2>2, <2>3
  <2>5. f \in [SUBSET (1 .. 0) -> X]
    BY <2>3
  <2> QED
    BY <2>4, <2>5, Zenon DEF IsFolded
<1>2. ASSUME NEW n \in Nat, n + 1 <= N, Good(n) PROVE Good(n + 1)
  <2>1. PICK f \in [SUBSET (1 .. n) -> X] : f = [s \in SUBSET (1 .. n) |-> F(f, s)]
    BY <1>2, Zenon DEF IsFolded
  <2> DEFINE g == [s \in SUBSET (1 .. n + 1) |-> F(f, s)]
  <2> HIDE DEF g
  <2>2. \A s \in SUBSET (1 .. n) : g[s] = f[s]
    <3>1. \A s \in SUBSET (1 .. n) : s \in SUBSET (1 .. n + 1)
      OBVIOUS
    <3> HIDE DEF F
    <3> QED
      BY <2>1, <3>1 DEF g
  <2>3. ASSUME NEW s \in SUBSET (1 .. n + 1)
        PROVE  F(g, s) = F(f, s) /\ F(f, s) \in X
    <3>1. CASE s = {}
      BY <3>1, Zenon DEF FoldedAt
    <3>2. CASE s # {}
      <4> DEFINE m == Max(s)
                 r == s \ {m}
      <4>1. m \in 1 .. n + 1 /\ r \in SUBSET (1 .. n)
        BY <3>2, WithoutLast, Zenon
      <4>2. F(g, s) = Step[m][g[r]] /\ F(f, s) = Step[m][f[r]]
        BY <3>2, Zenon DEF FoldedAt
      <4> HIDE DEF m, r, F
      <4>3. g[r] = f[r]
        BY <2>2, <4>1, Zenon
      <4>4. f[r] \in X /\ m \in 1 .. N
        BY <1>2, <2>1, <4>1
      <4>5. Step[m][f[r]] \in X
        BY <4>4
      <4> QED
        BY <4>2, <4>3, <4>5, Zenon
    <3> QED
      BY <3>1, <3>2, Zenon
  <2> HIDE DEF F
  <2>4. g = [s \in SUBSET (1 .. n + 1) |-> F(g, s)]
    BY <2>3 DEF g
  <2>5. g \in [SUBSET (1 .. n + 1) -> X]
    BY <2>3 DEF g
  <2> USE DEF F
  <2> QED
    BY <2>4, <2>5, Zenon DEF IsFolded
<1>3. \A n \in Nat : n \in T
  <2> HIDE DEF Good
  <2>1. 0 \in T
    BY <1>1
  <2>2. \A n \in Nat : n \in T => n + 1 \in T
    BY <1>2
  <2> HIDE DEF T
  <2> QED
    BY <2>1, <2>2, AllNumbers
<1>4. N \in T
  BY <1>3, Zenon
<1>5. N <= N
  OBVIOUS
<1> QED
  BY <1>4, <1>5, Zenon

\* f takes one step for each place of a set, the last one last, while its values are in X.
Follows(f, X, N, base, Step) ==
  /\ f[{}] = base
  /\ \A s \in SUBSET (1 .. N) :
       s # {} /\ f[s \ {Max(s)}] \in X => f[s] = Step[Max(s)][f[s \ {Max(s)}]]

\* The values after each of the steps.
IsSteps(run, X, N, base, Step, last) ==
  /\ run \in [0 .. N -> X] /\ run[0] = base /\ run[N] = last
  /\ \A k \in 1 .. N : run[k] = Step[k][run[k - 1]]

\* A fold goes through the places in their order.
LEMMA FoldedRuns ==
  ASSUME NEW X, NEW N \in Nat, NEW base \in X, NEW Step \in [1 .. N -> [X -> X]], NEW f,
         Follows(f, X, N, base, Step)
  PROVE  \E run : IsSteps(run, X, N, base, Step, f[1 .. N])
<1> DEFINE run == [k \in 0 .. N |-> f[1 .. k]]
           T == {k \in Nat : k <= N => run[k] \in X}
<1>1. run[0] = base
  <2>1. 1 .. 0 = {} /\ 0 \in 0 .. N
    OBVIOUS
  <2> QED
    BY <2>1, Zenon DEF Follows
<1>2. ASSUME NEW k \in Nat, k + 1 <= N, run[k] \in X
      PROVE  run[k + 1] = Step[k + 1][run[k]] /\ run[k + 1] \in X
  <2> DEFINE s == 1 .. k + 1
             m == Max(s)
  <2>1. k + 1 \in Nat /\ k + 1 \in s /\ s \in SUBSET Nat /\ \A x \in s : x <= k + 1
    OBVIOUS
  <2> HIDE DEF s, m
  <2>2. m \in s /\ \A y \in s : m >= y
    BY <2>1, GreatestNumber, Zenon DEF m
  <2>3. m = k + 1
    <3>1. m >= k + 1 /\ m \in 1 .. k + 1
      BY <2>1, <2>2, Zenon DEF s
    <3> QED
      BY <3>1
  <2>4. s \ {k + 1} = 1 .. k /\ s \in SUBSET (1 .. N) /\ s # {}
    <3>1. k \in Nat /\ k + 1 <= N
      BY <1>2, Zenon
    <3>2. k + 1 \in s
      BY <2>1
    <3>3. s \ {k + 1} = 1 .. k
      BY <3>1 DEF s
    <3>4. s \in SUBSET (1 .. N)
      BY <3>1 DEF s
    <3>5. s # {}
      BY <3>2
    <3> QED
      BY <3>3, <3>4, <3>5, Zenon
  <2>5. run[k] = f[1 .. k] /\ run[k + 1] = f[s] /\ k + 1 \in 1 .. N
    BY <1>2 DEF s
  <2> HIDE DEF run
  <2>6. run[k + 1] = Step[k + 1][run[k]]
    <3>1. s \ {m} = 1 .. k
      BY <2>3, <2>4, Zenon
    <3>2. f[s \ {m}] = run[k]
      BY <2>5, <3>1, Zenon
    <3>3. f[s] = Step[m][f[s \ {m}]]
      BY <1>2, <2>4, <3>2, Zenon DEF m, Follows
    <3> QED
      BY <2>3, <2>5, <3>2, <3>3, Zenon
  <2>7. Step[k + 1][run[k]] \in X
    BY <1>2, <2>5
  <2> QED
    BY <2>6, <2>7, Zenon
<1> HIDE DEF run
<1>3. \A k \in Nat : k \in T
  <2>1. 0 \in T
    BY <1>1
  <2>2. ASSUME NEW k \in Nat, k \in T PROVE k + 1 \in T
    <3>1. k + 1 \in Nat /\ (k + 1 <= N => k <= N)
      OBVIOUS
    <3> QED
      BY <1>2, <2>2, <3>1, Zenon
  <2> HIDE DEF T
  <2> QED
    BY <2>1, <2>2, AllNumbers
<1>4. \A k \in 0 .. N : run[k] \in X
  BY <1>3
<1>5. run \in [0 .. N -> X] /\ run[N] = f[1 .. N]
  BY <1>4 DEF run
<1>6. ASSUME NEW k \in 1 .. N PROVE run[k] = Step[k][run[k - 1]]
  <2> DEFINE j == k - 1
  <2>1. j \in Nat /\ j + 1 <= N /\ j \in 0 .. N /\ j + 1 = k
    OBVIOUS
  <2> HIDE DEF j
  <2>2. run[j + 1] = Step[j + 1][run[j]]
    BY <1>2, <1>4, <2>1, Zenon
  <2> QED
    BY <2>1, <2>2, Zenon DEF j
<1> QED
  BY <1>1, <1>5, <1>6, Zenon DEF IsSteps

\* The last of some places, and the others.
LEMMA LastPlace ==
  ASSUME NEW n \in Nat, NEW s \in SUBSET (1 .. n), s # {}
  PROVE  Max(s) \in 1 .. n /\ s \ {Max(s)} \in SUBSET (1 .. n)
<1> DEFINE m == n - 1
<1>0. n # 0
  <2> SUFFICES ASSUME n = 0 PROVE s = {}
    OBVIOUS
  <2>1. 1 .. 0 = {}
    OBVIOUS
  <2> QED
    BY <2>1
<1>1. m \in Nat /\ n = m + 1 /\ \A t \in SUBSET (1 .. m) : t \in SUBSET (1 .. n)
  BY <1>0
<1> HIDE DEF m
<1>2. Max(s) \in 1 .. m + 1 /\ s \ {Max(s)} \in SUBSET (1 .. m)
  BY <1>1, WithoutLast, Zenon
<1> QED
  BY <1>1, <1>2, Zenon

(* -------------------------------- strings ------------------------------ *)

\* The signs that are written for those in S.
Written(S) == S \cup {"quote", "back", "n", "u", "0", "1", "f"}

\* One sign is written as one or more.
LEMMA EscapedIs ==
  ASSUME NEW S, NEW sign \in S
  PROVE  Escaped(sign) \in Seq(Written(S)) /\ Len(Escaped(sign)) \in Nat \ {0}
<1> DEFINE W == Written(S)
<1>1. /\ "quote" \in W /\ "back" \in W /\ "n" \in W /\ "u" \in W /\ "0" \in W /\ "1" \in W
      /\ "f" \in W /\ sign \in W
  BY DEF Written
<1> HIDE DEF W
<1>2. CASE sign = "quote" \/ sign = "back" \/ sign = "line"
  BY <1>1, <1>2 DEF Escaped, W
<1>3. CASE sign = "ctrl"
  <2>1. Escaped(sign) = <<"back", "u", "0", "0", "1", "f">>
    BY <1>3 DEF Escaped
  <2> DEFINE e == <<"back", "u", "0", "0", "1", "f">>
  <2>2. e \in Seq(W) /\ Len(e) = 6
    BY <1>1
  <2> HIDE DEF e
  <2>3. Escaped(sign) = e
    BY <2>1 DEF e
  <2>4. Len(Escaped(sign)) \in Nat \ {0}
    <3>1. Len(Escaped(sign)) = 6
      BY <2>2, <2>3, Zenon
    <3> QED
      BY <3>1
  <2> QED
    BY <2>2, <2>3, <2>4, Zenon DEF W
<1>4. CASE sign \notin {"quote", "back", "line", "ctrl"}
  BY <1>1, <1>4 DEF Escaped, W
<1> QED
  BY <1>2, <1>3, <1>4

\* jsonEscape writes one sign after the other.
IsEscape(run, s) ==
  run[0] = <<>> /\ \A k \in 1 .. Len(s) : run[k] = run[k - 1] \o Escaped(s[k])

\* What jsonEscape writes is the end of such a run.
LEMMA EscapeRuns ==
  ASSUME NEW S, NEW s \in Seq(S)
  PROVE  \E run \in [0 .. Len(s) -> Seq(Written(S))] :
           IsEscape(run, s) /\ jsonEscape(s) = run[Len(s)]
<1> DEFINE n == Len(s)
           X == Seq(Written(S))
           Step == [k \in 1 .. n |-> [x \in X |-> x \o Escaped(s[k])]]
           L(f, t) == IF t = {} THEN <<>> ELSE f[t \ {Max(t)}] \o Escaped(s[Max(t)])
           Fold(f) == f = [t \in SUBSET (1 .. n) |-> L(f, t)]
           fold == CHOOSE f : Fold(f)
<1>1. n \in Nat /\ DOMAIN s = 1 .. n /\ <<>> \in X
  OBVIOUS
<1>2. ASSUME NEW x \in X, NEW k \in 1 .. n
      PROVE  Step[k][x] = x \o Escaped(s[k]) /\ Step[k][x] \in X
  <2>1. Escaped(s[k]) \in X
    BY <1>1, EscapedIs
  <2>2. x \o Escaped(s[k]) \in X
    BY <2>1
  <2> HIDE DEF X, n
  <2>3. Step[k][x] = x \o Escaped(s[k])
    OBVIOUS
  <2> HIDE DEF Step
  <2> QED
    BY <2>2, <2>3, Zenon
<1>3. Step \in [1 .. n -> [X -> X]]
  <2>1. \A x \in X, k \in 1 .. n : x \o Escaped(s[k]) \in X
    BY <1>2, Zenon
  <2> HIDE DEF X, n
  <2> QED
    BY <2>1
<1>4. \E f : Fold(f)
  <2>1. PICK f \in [SUBSET (1 .. n) -> X] : IsFolded(f, n, <<>>, Step)
    <3> HIDE DEF X, n, Step
    <3> QED
      BY <1>1, <1>3, FoldedExists, Zenon
  <2>2. ASSUME NEW t \in SUBSET (1 .. n)
        PROVE  FoldedAt(f, <<>>, Step, t) = L(f, t)
    <3> HIDE DEF X, Step, n
    <3>1. CASE t = {}
      BY <3>1, Zenon DEF FoldedAt
    <3>2. CASE t # {}
      <4> DEFINE m == Max(t)
                 r == t \ {m}
      <4>1. m \in 1 .. n /\ r \in SUBSET (1 .. n)
        BY <1>1, <3>2, LastPlace, Zenon
      <4>2. f[r] \in X
        BY <4>1
      <4>3. Step[m][f[r]] = f[r] \o Escaped(s[m])
        BY <1>2, <4>1, <4>2, Zenon
      <4> QED
        BY <3>2, <4>3, Zenon DEF FoldedAt
    <3> QED
      BY <3>1, <3>2, Zenon
  <2>3. f = [t \in SUBSET (1 .. n) |-> FoldedAt(f, <<>>, Step, t)]
    <3> HIDE DEF X, Step, n
    <3> QED
      BY <2>1, Zenon DEF IsFolded
  <2> HIDE DEF L, X, Step, n
  <2>4. f = [t \in SUBSET (1 .. n) |-> L(f, t)]
    BY <2>2, <2>3
  <2> QED
    BY <2>4, Zenon
<1>5. Fold(fold)
  BY <1>4, Zenon
<1>6. jsonEscape(s) = fold[1 .. n]
  BY <1>1 DEF jsonEscape, FoldLeft, MapThenFoldSet
<1> HIDE DEF fold
<1>7. Follows(fold, X, n, <<>>, Step)
  <2>1. \A t \in SUBSET (1 .. n) : fold[t] = L(fold, t)
    <3> HIDE DEF L, n
    <3> QED
      BY <1>5
  <2>2. fold[{}] = <<>>
    <3>1. {} \in SUBSET (1 .. n)
      OBVIOUS
    <3> QED
      BY <2>1, <3>1, Zenon
  <2>3. ASSUME NEW t \in SUBSET (1 .. n), t # {}, fold[t \ {Max(t)}] \in X
        PROVE  fold[t] = Step[Max(t)][fold[t \ {Max(t)}]]
    <3>1. Max(t) \in 1 .. n
      <4> HIDE DEF n
      <4> QED
        BY <1>1, <2>3, LastPlace, Zenon
    <3> HIDE DEF X, Step, n
    <3> QED
      BY <1>2, <2>1, <2>3, <3>1, Zenon
  <2> HIDE DEF X, Step, n
  <2> QED
    BY <2>2, <2>3, Zenon DEF Follows
<1>8. PICK run : IsSteps(run, X, n, <<>>, Step, fold[1 .. n])
  <2> HIDE DEF X, Step, n
  <2> QED
    BY <1>1, <1>3, <1>7, FoldedRuns, Zenon
<1>9. ASSUME NEW k \in 1 .. n PROVE run[k] = run[k - 1] \o Escaped(s[k])
  <2>1. k - 1 \in 0 .. n
    BY <1>1
  <2>2. run[k - 1] \in X
    <3> HIDE DEF X, n, Step
    <3> QED
      BY <1>8, <2>1 DEF IsSteps
  <2> HIDE DEF X, Step, n
  <2> QED
    BY <1>2, <1>8, <2>2, Zenon DEF IsSteps
<1> QED
  BY <1>6, <1>8, <1>9, Zenon DEF IsEscape, IsSteps

\* Where in a text the signs of s are written, each behind the place b gives for the one
\* before it, and a quote behind them.
IsLaid(text, s, b) ==
  /\ b \in [0 .. Len(s) -> Nat] /\ b[0] = 0
  /\ \A k \in 1 .. Len(s) :
       /\ b[k] = b[k - 1] + Len(Escaped(s[k])) /\ b[k] <= b[Len(s)]
       /\ \A i \in 1 .. Len(Escaped(s[k])) : text[b[k - 1] + i] = Escaped(s[k])[i]
  /\ text[b[Len(s)] + 1] = "quote"
  /\ Len(text) \in Nat /\ b[Len(s)] < Len(text)

\* What is written first stays where it is.
LEMMA EscapeKeeps ==
  ASSUME NEW S, NEW s \in Seq(S), NEW run \in [0 .. Len(s) -> Seq(Written(S))],
         IsEscape(run, s), NEW k \in 0 .. Len(s)
  PROVE  /\ Len(run[k]) <= Len(run[Len(s)])
         /\ \A i \in 1 .. Len(run[k]) : run[Len(s)][i] = run[k][i]
<1> DEFINE n == Len(s)
           V == Written(S)
           T == {d \in Nat : k + d <= n => /\ Len(run[k]) <= Len(run[k + d])
                                           /\ \A i \in 1 .. Len(run[k]) : run[k + d][i] = run[k][i]}
<1>1. n \in Nat
  OBVIOUS
<1>2. \A j \in 0 .. n : run[j] \in Seq(V)
  <2> HIDE DEF n, V
  <2> QED
    BY DEF n, V
<1> HIDE DEF V
<1>3. 0 \in T
  <2>1. k + 0 = k /\ Len(run[k]) <= Len(run[k])
    <3>1. Len(run[k]) \in Nat
      BY <1>2
    <3> QED
      BY <3>1
  <2> QED
    BY <2>1, Zenon
<1>4. ASSUME NEW d \in Nat, d \in T PROVE d + 1 \in T
  <2> SUFFICES ASSUME k + (d + 1) <= n
               PROVE  /\ Len(run[k]) <= Len(run[k + (d + 1)])
                      /\ \A i \in 1 .. Len(run[k]) : run[k + (d + 1)][i] = run[k][i]
    OBVIOUS
  <2> DEFINE j == k + d
  <2>1. j \in 0 .. n /\ j + 1 \in 1 .. n /\ j + 1 = k + (d + 1) /\ (j + 1) - 1 = j /\ j <= n
    BY <1>1
  <2>2. Len(run[k]) <= Len(run[j]) /\ \A i \in 1 .. Len(run[k]) : run[j][i] = run[k][i]
    BY <1>4, <2>1, Zenon
  <2> HIDE DEF j
  <2>3. run[j + 1] = run[j] \o Escaped(s[j + 1])
    BY <2>1, Zenon DEF IsEscape, n
  <2>4. Escaped(s[j + 1]) \in Seq(V)
    BY <2>1, EscapedIs DEF n, V
  <2> DEFINE u == run[j]
             w == Escaped(s[j + 1])
  <2>5. u \in Seq(V)
    BY <1>2, <2>1, Zenon
  <2> HIDE DEF u, w
  <2>6. /\ Len(u \o w) = Len(u) + Len(w)
        /\ \A i \in 1 .. Len(u) + Len(w) : (u \o w)[i] = IF i <= Len(u) THEN u[i] ELSE w[i - Len(u)]
    BY <2>4, <2>5, Joined, Zenon DEF w
  <2>7. Len(u) \in Nat /\ Len(w) \in Nat /\ Len(run[k]) \in Nat
    BY <1>2, <2>4, <2>5 DEF w, n
  <2>8. run[j + 1] = u \o w
    BY <2>3, Zenon DEF u, w
  <2> DEFINE l == Len(run[k])
  <2>9. l <= Len(u) /\ \A i \in 1 .. l : u[i] = run[k][i]
    BY <2>2, Zenon DEF u
  <2> HIDE DEF l
  <2>10. l <= Len(u \o w) /\ \A i \in 1 .. l : (u \o w)[i] = run[k][i]
    BY <2>6, <2>7, <2>9 DEF l
  <2> QED
    BY <2>1, <2>8, <2>10, Zenon DEF l
<1>5. \A d \in Nat : d \in T
  <2> HIDE DEF T
  <2> QED
    BY <1>3, <1>4, AllNumbers
<1> DEFINE d == n - k
<1>6. d \in Nat /\ k + d = n /\ k + d <= n
  BY <1>1
<1> HIDE DEF d
<1> QED
  BY <1>5, <1>6, Zenon

\* A string with a quote behind it and whatever follows.
LEMMA TextLaid ==
  ASSUME NEW S, NEW s \in Seq(S), NEW rest \in Seq(S)
  PROVE  LET text == jsonEscape(s) \o <<"quote">> \o rest
         IN \E b : IsLaid(text, s, b) /\ Len(text) = b[Len(s)] + 1 + Len(rest)
<1> DEFINE n == Len(s)
           V == Written(S)
           e == jsonEscape(s)
           q1 == <<"quote">>
           text == e \o q1 \o rest
<1>1. PICK run \in [0 .. n -> Seq(V)] : IsEscape(run, s) /\ e = run[n]
  BY EscapeRuns, Zenon
<1>2. n \in Nat /\ e \in Seq(V)
  BY <1>1
<1>3. q1 \in Seq(V) /\ rest \in Seq(V) /\ Len(q1) = 1 /\ q1[1] = "quote"
  BY DEF Written
<1> DEFINE b == [k \in 0 .. n |-> Len(run[k])]
<1> HIDE DEF V, e, q1
<1>4. /\ Len(text) = Len(e) + 1 + Len(rest) /\ text[Len(e) + 1] = "quote"
      /\ \A i \in 1 .. Len(e) : text[i] = e[i]
  <2>1. /\ e \o q1 \in Seq(V) /\ Len(e \o q1) = Len(e) + Len(q1)
        /\ \A i \in 1 .. Len(e) + Len(q1) :
             (e \o q1)[i] = IF i <= Len(e) THEN e[i] ELSE q1[i - Len(e)]
    BY <1>2, <1>3, Joined, Zenon
  <2> DEFINE h == e \o q1
  <2>6. h \in Seq(V)
    BY <2>1, Zenon
  <2> HIDE DEF h
  <2>2. /\ Len(h \o rest) = Len(h) + Len(rest)
        /\ \A i \in 1 .. Len(h) + Len(rest) :
             (h \o rest)[i] = IF i <= Len(h) THEN h[i] ELSE rest[i - Len(h)]
    BY <1>3, <2>6, Joined, Zenon
  <2>3. Len(e) \in Nat /\ Len(rest) \in Nat
    BY <1>2, <1>3
  <2>4. Len(h) = Len(e) + 1 /\ h[Len(e) + 1] = "quote" /\ \A i \in 1 .. Len(e) : h[i] = e[i]
    BY <1>3, <2>1, <2>3 DEF h
  <2>5. text = h \o rest
    BY DEF h
  <2> HIDE DEF text
  <2> QED
    BY <2>2, <2>3, <2>4, <2>5
<1> HIDE DEF text
<1>5. \A k \in 0 .. n : run[k] \in Seq(V) /\ Len(run[k]) \in Nat /\ b[k] = Len(run[k])
  BY <1>1
<1>6. Len(e) \in Nat /\ Len(rest) \in Nat /\ b[n] = Len(e)
  BY <1>1, <1>2, <1>3, <1>5
<1> HIDE DEF b
<1>7. b \in [0 .. n -> Nat] /\ b[0] = 0
  <2>1. \A k \in 0 .. n : Len(run[k]) \in Nat
    BY <1>5, Zenon
  <2>2. b \in [0 .. n -> Nat]
    BY <2>1 DEF b
  <2>3. run[0] = <<>> /\ 0 \in 0 .. n
    BY <1>1, <1>2 DEF IsEscape
  <2>4. b[0] = Len(run[0]) /\ Len(run[0]) = 0
    BY <1>5, <2>3
  <2> QED
    BY <2>2, <2>4, Zenon
<1>8. ASSUME NEW k \in 1 .. n
      PROVE  /\ b[k] = b[k - 1] + Len(Escaped(s[k])) /\ b[k] <= b[n]
             /\ \A i \in 1 .. Len(Escaped(s[k])) : text[b[k - 1] + i] = Escaped(s[k])[i]
  <2> DEFINE u == run[k - 1]
             w == Escaped(s[k])
  <2>1. k \in 0 .. n /\ k - 1 \in 0 .. n
    BY <1>2
  <2>2. w \in Seq(V)
    BY EscapedIs DEF V
  <2>3. run[k] = u \o w
    BY <1>1, Zenon DEF IsEscape
  <2>4. u \in Seq(V) /\ b[k - 1] = Len(u) /\ b[k] = Len(u \o w)
    BY <1>5, <2>1, <2>3, Zenon
  <2>10. u \in Seq(V)
    BY <2>4, Zenon
  <2> HIDE DEF u, w
  <2>5. /\ Len(u \o w) = Len(u) + Len(w)
        /\ \A i \in 1 .. Len(u) + Len(w) : (u \o w)[i] = IF i <= Len(u) THEN u[i] ELSE w[i - Len(u)]
    BY <2>2, <2>10, Joined, Zenon
  <2>6. Len(run[k]) <= Len(run[n]) /\ \A i \in 1 .. Len(run[k]) : run[n][i] = run[k][i]
    BY <1>1, <2>1, EscapeKeeps, Zenon DEF V
  <2>7. Len(u) \in Nat /\ Len(w) \in Nat
    BY <2>2, <2>4
  <2>8. Len(u \o w) <= Len(e) /\ \A i \in 1 .. Len(u \o w) : e[i] = (u \o w)[i]
    BY <1>1, <2>3, <2>6, Zenon
  <2>9. \A i \in 1 .. Len(w) : text[Len(u) + i] = w[i]
    <3> SUFFICES ASSUME NEW i \in 1 .. Len(w) PROVE text[Len(u) + i] = w[i]
      OBVIOUS
    <3> DEFINE j == Len(u) + i
    <3>1. j \in 1 .. Len(u \o w) /\ j \in 1 .. Len(e) /\ j \in 1 .. Len(u) + Len(w)
      BY <1>6, <2>5, <2>7, <2>8
    <3>2. ~(j <= Len(u)) /\ j - Len(u) = i
      BY <2>7
    <3> HIDE DEF j
    <3>3. text[j] = e[j] /\ e[j] = (u \o w)[j] /\ (u \o w)[j] = w[j - Len(u)]
      BY <1>4, <2>5, <2>8, <3>1, <3>2, Zenon
    <3> QED
      BY <3>2, <3>3, Zenon DEF j
  <2> QED
    BY <1>6, <2>4, <2>5, <2>8, <2>9, Zenon DEF w
<1>9. /\ text[b[n] + 1] = "quote" /\ Len(text) \in Nat /\ b[n] < Len(text)
      /\ Len(text) = b[n] + 1 + Len(rest)
  BY <1>4, <1>6
<1> QED
  BY <1>7, <1>8, <1>9, Zenon DEF IsLaid, text, e, q1

\* What the scan finds from one place of a text on, given what it finds further on.
Then(scan, sign, j) ==
  IF scan[j].ok THEN [scan[j] EXCEPT !.out = <<sign>> \o @] ELSE NotClosed

Scans(scan, text, i) ==
  IF i > Len(text) THEN NotClosed
  ELSE IF text[i] = "quote" THEN [ok |-> TRUE, out |-> <<>>, next |-> i + 1]
  ELSE IF text[i] # "back" \/ i = Len(text) THEN Then(scan, text[i], i + 1)
  ELSE IF text[i + 1] # "u" THEN Then(scan, Unescaped(text[i + 1]), i + 2)
  ELSE IF i + 5 <= Len(text) /\ SubSeq(text, i + 2, i + 5) = <<"0", "0", "1", "f">>
       THEN Then(scan, "ctrl", i + 6) ELSE NotClosed

IsScan(scan, text) == scan = [i \in 1 .. Len(text) + 1 |-> Scans(scan, text, i)]

\* The scan exists.
LEMMA ScanExists ==
  ASSUME NEW text, Len(text) \in Nat
  PROVE  \E scan : IsScan(scan, text)
<1> DEFINE l == Len(text)
           F(f, i) == Scans(f, text, i)
           Good(n) == \E f : f = [i \in l + 1 - n .. l + 1 |-> F(f, i)]
           T == {n \in Nat : n <= l => Good(n)}
<1>1. Good(0)
  <2> DEFINE f == [i \in l + 1 .. l + 1 |-> NotClosed]
  <2>1. \A i \in l + 1 .. l + 1 : i > Len(text)
    OBVIOUS
  <2> HIDE DEF f
  <2>2. \A i \in l + 1 .. l + 1 : F(f, i) = NotClosed
    BY <2>1, Zenon DEF Scans
  <2> HIDE DEF F, l
  <2>3. f = [i \in l + 1 .. l + 1 |-> F(f, i)]
    BY <2>2 DEF f
  <2>4. l + 1 - 0 = l + 1
    BY DEF l
  <2> QED
    BY <2>3, <2>4, Zenon
<1>2. ASSUME NEW n \in Nat, n + 1 <= l, Good(n) PROVE Good(n + 1)
  <2> DEFINE a == l + 1 - n
             b == l + 1 - (n + 1)
  <2>0. a \in Nat /\ b \in Nat /\ b + 1 = a /\ a <= l + 1
    BY <1>2
  <2>1. PICK f : f = [i \in a .. l + 1 |-> F(f, i)]
    BY <1>2, Zenon
  <2> DEFINE g == [i \in b .. l + 1 |-> F(f, i)]
  <2> HIDE DEF g, a, b
  <2>2. \A i \in a .. l + 1 : g[i] = f[i]
    <3>1. \A i \in a .. l + 1 : i \in b .. l + 1
      BY <2>0
    <3> HIDE DEF F, l
    <3> QED
      BY <2>1, <3>1 DEF g
  <2>3. ASSUME NEW i \in b .. l + 1 PROVE F(g, i) = F(f, i)
    <3>1. /\ i <= l => i + 1 \in a .. l + 1
          /\ i <= l /\ i # l => i + 2 \in a .. l + 1
          /\ i + 5 <= l => i + 6 \in a .. l + 1
          /\ i > l \/ i <= l
      BY <2>0
    <3>2. /\ i <= l => g[i + 1] = f[i + 1]
          /\ i <= l /\ i # l => g[i + 2] = f[i + 2]
          /\ i + 5 <= l => g[i + 6] = f[i + 6]
      BY <2>2, <3>1, Zenon
    <3> QED
      BY <3>1, <3>2, Zenon DEF Scans, Then
  <2> HIDE DEF F, l
  <2>4. g = [i \in b .. l + 1 |-> F(g, i)]
    BY <2>3 DEF g
  <2> USE DEF b
  <2> QED
    BY <2>4, Zenon
<1>3. \A n \in Nat : n \in T
  <2> HIDE DEF Good
  <2>1. 0 \in T
    BY <1>1
  <2>2. ASSUME NEW n \in Nat, n \in T PROVE n + 1 \in T
    <3>1. n + 1 \in Nat /\ (n + 1 <= l => n <= l)
      OBVIOUS
    <3> QED
      BY <1>2, <2>2, <3>1, Zenon
  <2> HIDE DEF T
  <2> QED
    BY <2>1, <2>2, AllNumbers
<1>4. l \in T
  BY <1>3, Zenon
<1>5. l <= l /\ l + 1 - l = 1
  OBVIOUS
<1>6. Good(l)
  BY <1>4, <1>5, Zenon
<1> HIDE DEF F
<1>7. \E f : f = [i \in 1 .. l + 1 |-> F(f, i)]
  <2> HIDE DEF l
  <2> QED
    BY <1>5, <1>6, Zenon
<1> QED
  BY <1>7, Zenon DEF F, IsScan

\* ScanString gives out what such a scan finds from the first place on.
LEMMA ScanStringIs ==
  ASSUME NEW text, Len(text) \in Nat
  PROVE  \E scan : IsScan(scan, text) /\ ScanString(text) = scan[1]
<1> DEFINE scan == CHOOSE s : IsScan(s, text)
<1>1. IsScan(scan, text)
  BY ScanExists, Zenon
<1>2. ScanString(text) = scan[1]
  BY Zenon DEF ScanString, IsScan, Scans, Then
<1> HIDE DEF scan
<1> QED
  BY <1>1, <1>2, Zenon

\* With one sign more in front.
IsLonger(found, then, sign) == found = [then EXCEPT !.out = <<sign>> \o @]

\* One sign as it was written is read as that sign.
LEMMA OneSign ==
  ASSUME NEW s, Len(s) \in Nat, NEW text, NEW b, IsLaid(text, s, b),
         NEW scan, IsScan(scan, text), NEW k \in 1 .. Len(s), scan[b[k] + 1].ok
  PROVE  IsLonger(scan[b[k - 1] + 1], scan[b[k] + 1], s[k])
<1> USE DEF IsLonger
<1> DEFINE n == Len(s)
           l == Len(text)
           c == b[k - 1]
           e == Escaped(s[k])
           i == c + 1
<1>1. /\ b[k] = c + Len(e) /\ b[k] <= b[n] /\ b[n] < l /\ l \in Nat
      /\ \A j \in 1 .. Len(e) : text[c + j] = e[j]
  BY Zenon DEF IsLaid
<1>2. c \in Nat /\ b[k] \in Nat /\ b[n] \in Nat
  <2>1. k - 1 \in 0 .. n /\ k \in 0 .. n /\ n \in 0 .. n /\ b \in [0 .. n -> Nat]
    BY DEF IsLaid
  <2> HIDE DEF n
  <2> QED
    BY <2>1
<1> HIDE DEF n, l, c
<1>3. ASSUME i <= l PROVE scan[i] = Scans(scan, text, i)
  <2>1. i \in 1 .. l + 1
    BY <1>1, <1>2, <1>3
  <2> HIDE DEF i
  <2>2. \A j \in 1 .. l + 1 : scan[j] = Scans(scan, text, j)
    <3> DEFINE F(j) == Scans(scan, text, j)
    <3> HIDE DEF F
    <3>1. scan = [j \in 1 .. l + 1 |-> F(j)]
      BY Zenon DEF IsScan, F, l
    <3>2. \A j \in 1 .. l + 1 : scan[j] = F(j)
      BY <3>1
    <3> QED
      BY <3>2, Zenon DEF F
  <2> QED
    BY <2>1, <2>2, Zenon
<1> DEFINE Reads(m) == scan[i] = [scan[i + m] EXCEPT !.out = <<s[k]>> \o @]
<1>4. CASE s[k] \notin {"quote", "back", "line", "ctrl"}
  <2>1. e = <<s[k]>> /\ Len(e) = 1 /\ e[1] = s[k]
    BY <1>4 DEF Escaped
  <2> HIDE DEF e
  <2>2. b[k] + 1 = i + 1 /\ i <= l /\ text[i] = s[k] /\ ~(i > l)
    BY <1>1, <1>2, <2>1
  <2>3. scan[i + 1].ok
    BY <2>2, Zenon
  <2> HIDE DEF i
  <2>4. scan[i] = Then(scan, s[k], i + 1)
    BY <1>3, <1>4, <2>2, Zenon DEF Scans, l
  <2> QED
    BY <2>2, <2>3, <2>4, Zenon DEF Then, i, c
<1>5. ASSUME NEW sign, Escaped(s[k]) = <<"back", sign>>, sign # "u", Unescaped(sign) = s[k]
      PROVE  scan[i] = [scan[b[k] + 1] EXCEPT !.out = <<s[k]>> \o @]
  <2>1. Len(e) = 2 /\ e[1] = "back" /\ e[2] = sign
    BY <1>5
  <2> HIDE DEF e
  <2>2. b[k] + 1 = i + 2 /\ i <= l /\ i # l /\ ~(i > l) /\ c + 2 = i + 1
    BY <1>1, <1>2, <2>1
  <2>3. text[i] = "back" /\ text[i + 1] = sign
    BY <1>1, <2>1, <2>2
  <2>4. scan[i + 2].ok
    BY <2>2, Zenon
  <2> HIDE DEF i
  <2>5. scan[i] = Then(scan, s[k], i + 2)
    <3>1. "back" # "quote"
      OBVIOUS
    <3> QED
      BY <1>3, <1>5, <2>2, <2>3, <3>1, Zenon DEF Scans, l
  <2> QED
    BY <2>2, <2>4, <2>5, Zenon DEF Then
<1>6. CASE s[k] \in {"quote", "back"}
  <2>1. Escaped(s[k]) = <<"back", s[k]>> /\ s[k] # "u" /\ Unescaped(s[k]) = s[k]
    BY <1>6 DEF Escaped, Unescaped
  <2> QED
    BY <1>5, <2>1, Zenon DEF c
<1>7. CASE s[k] = "line"
  <2>1. Escaped(s[k]) = <<"back", "n">> /\ "n" # "u" /\ Unescaped("n") = s[k]
    BY <1>7 DEF Escaped, Unescaped
  <2> QED
    BY <1>5, <2>1, Zenon DEF c
<1>8. CASE s[k] = "ctrl"
  <2>1. e = <<"back", "u", "0", "0", "1", "f">>
    BY <1>8 DEF Escaped
  <2>2. /\ Len(e) = 6 /\ e[1] = "back" /\ e[2] = "u" /\ e[3] = "0" /\ e[4] = "0" /\ e[5] = "1"
        /\ e[6] = "f"
    BY <2>1
  <2> HIDE DEF e
  <2>3. b[k] + 1 = i + 6 /\ i + 5 <= l /\ i <= l /\ i # l /\ ~(i > l)
    BY <1>1, <1>2, <2>2
  <2>4. text[i] = "back" /\ text[i + 1] = "u"
    <3>1. text[c + 1] = "back" /\ text[c + 2] = "u" /\ c + 2 = i + 1
      BY <1>1, <1>2, <2>2
    <3> QED
      BY <3>1
  <2>5. SubSeq(text, i + 2, i + 5) = <<"0", "0", "1", "f">>
    <3>1. /\ text[c + 3] = "0" /\ text[c + 4] = "0" /\ text[c + 5] = "1" /\ text[c + 6] = "f"
      BY <1>1, <2>2
    <3> DEFINE V == {"0", "1", "f"}
               w == SubSeq(text, i + 2, i + 5)
               x == <<"0", "0", "1", "f">>
    <3>2. \A j \in i + 2 .. i + 5 : j \in {c + 3, c + 4, c + 5, c + 6}
      BY <1>2
    <3>3. \A j \in i + 2 .. i + 5 : text[j] \in V
      BY <3>1, <3>2
    <3> DEFINE o == i + 2
               t == i + 5
    <3>4. o \in Int /\ t \in Int /\ t = o + 3 /\ o = c + 3
      BY <1>2
    <3>5. /\ SubSeq(text, o, t) \in Seq(V)
          /\ Len(SubSeq(text, o, t)) = IF o <= t THEN t - o + 1 ELSE 0
          /\ \A j \in 1 .. t - o + 1 : SubSeq(text, o, t)[j] = text[o + j - 1]
      <4> HIDE DEF V, o, t
      <4> QED
        BY <3>3, <3>4, SubSeqProperties DEF o, t
    <3>6. /\ w \in Seq(V) /\ Len(w) = IF o <= t THEN t - o + 1 ELSE 0
          /\ \A j \in 1 .. t - o + 1 : w[j] = text[o + j - 1]
      BY <3>5, Zenon
    <3> HIDE DEF w, o, t
    <3>11. o <= t /\ t - o + 1 = 4 /\ \A j \in 1 .. 4 : o + j - 1 = c + 2 + j
      BY <1>2, <3>4
    <3>12. w \in Seq(V) /\ Len(w) = 4 /\ \A j \in 1 .. 4 : w[j] = text[c + 2 + j]
      BY <3>6, <3>11
    <3>7. w[1] = text[c + 3] /\ w[2] = text[c + 4] /\ w[3] = text[c + 5] /\ w[4] = text[c + 6]
      <4>1. c + 2 + 1 = c + 3 /\ c + 2 + 2 = c + 4 /\ c + 2 + 3 = c + 5 /\ c + 2 + 4 = c + 6
        BY <1>2
      <4>2. 1 \in 1 .. 4 /\ 2 \in 1 .. 4 /\ 3 \in 1 .. 4 /\ 4 \in 1 .. 4
        OBVIOUS
      <4> QED
        BY <3>12, <4>1, <4>2, Zenon
    <3>8. x \in Seq(V) /\ Len(x) = 4 /\ x[1] = "0" /\ x[2] = "0" /\ x[3] = "1" /\ x[4] = "f"
      OBVIOUS
    <3> HIDE DEF x, V
    <3>9. \A j \in 1 .. 4 : w[j] = x[j]
      BY <3>1, <3>7, <3>8
    <3>10. w = x
      BY <3>12, <3>8, <3>9, SeqEqual
    <3> QED
      BY <3>10, Zenon DEF w, x
  <2>6. scan[i + 6].ok
    BY <2>3, Zenon
  <2> HIDE DEF i
  <2>7. scan[i] = Then(scan, s[k], i + 6)
    <3>1. "back" # "quote"
      OBVIOUS
    <3> QED
      BY <1>3, <1>8, <2>3, <2>4, <2>5, <3>1, Zenon DEF Scans, l
  <2> QED
    BY <2>3, <2>6, <2>7, Zenon DEF Then, i, c
<1> QED
  BY <1>4, <1>6, <1>7, <1>8, Zenon DEF c

\* A string is read back as it was written, whatever signs it holds and whatever follows
\* its closing quote.
THEOREM StringIsRead ==
  ASSUME NEW S, NEW s \in Seq(S), NEW rest \in Seq(S)
  PROVE  LET text == jsonEscape(s) \o <<"quote">> \o rest
         IN ScanString(text) = [ok |-> TRUE, out |-> s, next |-> Len(text) - Len(rest) + 1]
<1> DEFINE n == Len(s)
           text == jsonEscape(s) \o <<"quote">> \o rest
<1>1. PICK b : IsLaid(text, s, b) /\ Len(text) = b[n] + 1 + Len(rest)
  BY TextLaid, Zenon
<1>2. n \in Nat /\ Len(rest) \in Nat
  OBVIOUS
<1> HIDE DEF text
<1>3. /\ Len(text) \in Nat /\ b \in [0 .. n -> Nat] /\ b[0] = 0 /\ text[b[n] + 1] = "quote"
      /\ b[n] < Len(text)
  BY <1>1, Zenon DEF IsLaid
<1>4. PICK scan : IsScan(scan, text) /\ ScanString(text) = scan[1]
  BY <1>3, ScanStringIs, Zenon
<1> DEFINE Found(k) == [ok |-> TRUE, out |-> SubSeq(s, k + 1, n), next |-> b[n] + 2]
           T == {d \in Nat : d <= n => scan[b[n - d] + 1] = Found(n - d)}
<1>5. 0 \in T
  <2>1. b[n] \in Nat /\ n - 0 = n
    BY <1>2, <1>3
  <2> DEFINE i == b[n] + 1
  <2>2. i \in 1 .. Len(text) + 1 /\ ~(i > Len(text)) /\ i + 1 = b[n] + 2 /\ text[i] = "quote"
    BY <1>3, <2>1
  <2> HIDE DEF i
  <2>3. scan[i] = Scans(scan, text, i)
    <3> DEFINE F(j) == Scans(scan, text, j)
    <3> HIDE DEF F
    <3>1. scan = [j \in 1 .. Len(text) + 1 |-> F(j)]
      BY <1>4, Zenon DEF IsScan, F
    <3> QED
      BY <2>2, <3>1 DEF F
  <2>4. scan[i] = [ok |-> TRUE, out |-> <<>>, next |-> i + 1]
    BY <2>2, <2>3, Zenon DEF Scans
  <2>5. SubSeq(s, n + 1, n) = <<>>
    BY <1>2
  <2> QED
    BY <2>1, <2>2, <2>4, <2>5, Zenon DEF i
<1>6. ASSUME NEW d \in Nat, d \in T PROVE d + 1 \in T
  <2>0. d + 1 \in Nat
    OBVIOUS
  <2> SUFFICES ASSUME d + 1 <= n PROVE scan[b[n - (d + 1)] + 1] = Found(n - (d + 1))
    BY <2>0, Zenon
  <2> DEFINE k == n - d
  <2>1. k \in 1 .. n /\ n - (d + 1) = k - 1 /\ d <= n /\ k - 1 + 1 = k
    BY <1>2
  <2>2. scan[b[k] + 1] = Found(k)
    BY <1>6, <2>1, Zenon
  <2> HIDE DEF k
  <2>3. scan[b[k] + 1].ok /\ scan[b[k] + 1].out = SubSeq(s, k + 1, n)
    <3> DEFINE w == SubSeq(s, k + 1, n)
    <3>1. scan[b[k] + 1] = [ok |-> TRUE, out |-> w, next |-> b[n] + 2]
      BY <2>2, Zenon
    <3> HIDE DEF w
    <3>2. scan[b[k] + 1].ok /\ scan[b[k] + 1].out = w
      BY <3>1
    <3> QED
      BY <3>2, Zenon DEF w
  <2>7. scan[b[k] + 1].ok
    BY <2>3, Zenon
  <2>8. Len(s) \in Nat /\ k \in 1 .. Len(s)
    BY <1>2, <2>1, Zenon
  <2>9. IsLaid(text, s, b) /\ IsScan(scan, text)
    BY <1>1, <1>4, Zenon
  <2>4. IsLonger(scan[b[k - 1] + 1], scan[b[k] + 1], s[k])
    BY <2>7, <2>8, <2>9, OneSign, Zenon
  <2>5. <<s[k]>> \o SubSeq(s, k + 1, n) = SubSeq(s, k, n)
    <3>1. n \in k .. Len(s) /\ k \in 1 .. Len(s)
      BY <1>2, <2>1
    <3> QED
      BY <3>1, SubSeqRecursiveFirst
  <2>6. scan[b[k - 1] + 1] = Found(k - 1)
    <3> DEFINE w == SubSeq(s, k + 1, n)
               v == SubSeq(s, k, n)
    <3>1. scan[b[k - 1] + 1] =
            [[ok |-> TRUE, out |-> w, next |-> b[n] + 2] EXCEPT !.out = <<s[k]>> \o @]
      BY <2>2, <2>4, Zenon DEF IsLonger
    <3>2. <<s[k]>> \o w = v
      BY <2>5, Zenon
    <3> HIDE DEF w, v
    <3>3. scan[b[k - 1] + 1] = [ok |-> TRUE, out |-> v, next |-> b[n] + 2]
      BY <3>1, <3>2
    <3> QED
      BY <2>1, <3>3, Zenon DEF v
  <2> QED
    BY <2>1, <2>6, Zenon
<1>7. \A d \in Nat : d \in T
  <2> HIDE DEF T
  <2> QED
    BY <1>5, <1>6, AllNumbers
<1>8. scan[b[0] + 1] = Found(0)
  <2>1. n <= n /\ n - n = 0
    BY <1>2
  <2> QED
    BY <1>2, <1>7, <2>1, Zenon
<1>9. /\ b[0] + 1 = 1 /\ 0 + 1 = 1 /\ b[n] + 2 = Len(text) - Len(rest) + 1
      /\ SubSeq(s, 1, n) = s
  <2>1. b[n] \in Nat
    BY <1>2, <1>3
  <2> QED
    BY <1>1, <1>2, <1>3, <2>1, SubSeqFull
<1>10. ScanString(text) = [ok |-> TRUE, out |-> s, next |-> Len(text) - Len(rest) + 1]
  BY <1>4, <1>8, <1>9, Zenon
<1> QED
  BY <1>10, Zenon DEF text

(* ------------------------------- fragments ----------------------------- *)

\* How many bytes fragment n of a long message holds, and how many those up to n hold.
TakenAt(len, n) == Smaller(SendChunk, len - (n - 1) * SendChunk)
TakenTo(len, n) == Smaller(n * SendChunk, len)

HowMany(len) == (len + SendChunk - 1) \div SendChunk

\* As many fragments as are needed, and not one more.
LEMMA EnoughFragments ==
  ASSUME NEW len \in Nat, len > SendChunk
  PROVE  /\ HowMany(len) \in Nat \ {0, 1} /\ HowMany(len) * SendChunk >= len
         /\ (HowMany(len) - 1) * SendChunk < len
<1> DEFINE v == len + SendChunk - 1
           R == SendChunk
<1>0. R \in Nat \ {0} /\ len > R
  BY WsFramesAssumption
<1>1. v \in Nat /\ v = len + R - 1
  BY <1>0
<1> HIDE DEF v, R
<1>2. PICK d \in Nat, m \in 0 .. R - 1 : v = R * d + m /\ d = v \div R
  BY <1>0, <1>1
<1>3. d * R = len + (R - 1) - m
  BY <1>0, <1>1, <1>2
<1>4. (d - 1) * R = d * R - R
  BY <1>0
<1>5. d * R >= len /\ (d - 1) * R < len
  BY <1>0, <1>3, <1>4
<1>6. d # 0 /\ d # 1
  <2>1. 0 * R = 0 /\ 1 * R = R
    BY <1>0
  <2> QED
    BY <1>0, <1>5, <2>1
<1>7. HowMany(len) = d
  BY <1>2, Zenon DEF HowMany, v, R
<1> QED
  BY <1>5, <1>6, <1>7, Zenon DEF R

\* What one fragment holds, and that the fragments before it leave it something.
LEMMA OneFragment ==
  ASSUME NEW len \in Nat, len > SendChunk, NEW n \in 1 .. HowMany(len)
  PROVE  /\ TakenAt(len, n) \in 1 .. SendChunk
         /\ TakenTo(len, n - 1) + TakenAt(len, n) = TakenTo(len, n)
         /\ (n - 1) * SendChunk + SendChunk >= len <=> n = HowMany(len)
         /\ TakenTo(len, 0) = 0 /\ TakenTo(len, HowMany(len)) = len
<1> DEFINE N == HowMany(len)
           R == SendChunk
<1>1. N \in Nat \ {0, 1} /\ N * R >= len /\ (N - 1) * R < len
  BY EnoughFragments, Zenon
<1>2. R \in Nat \ {0} /\ n \in 1 .. N
  BY WsFramesAssumption
<1> HIDE DEF N, R
<1>3. (n - 1) * R + R = n * R /\ (N - 1) * R = N * R - R /\ 0 * R = 0 /\ n * R >= R
  <2>1. n * R = (n - 1) * R + R
    BY <1>1, <1>2
  <2>2. (N - 1) * R = N * R - R
    BY <1>1, <1>2
  <2>3. (n - 1) * R >= 0
    BY <1>1, <1>2
  <2> QED
    BY <1>2, <2>1, <2>2, <2>3
<1>4. n < N => n * R <= N * R - R
  <2> DEFINE k == N - n
  <2>1. SUFFICES ASSUME n < N PROVE n * R <= N * R - R
    OBVIOUS
  <2>2. k \in Nat \ {0} /\ N = n + k
    BY <1>1, <1>2, <2>1
  <2> HIDE DEF k
  <2>3. k * R >= R
    BY <1>2, <2>2
  <2>4. N * R = n * R + k * R
    BY <1>2, <2>2
  <2>5. n * R \in Nat /\ k * R \in Nat
    BY <1>2, <2>2
  <2> QED
    BY <1>2, <2>3, <2>4, <2>5
<1> DEFINE a == (n - 1) * R
           b == n * R
           c == N * R
<1>5. a \in Nat /\ b \in Nat /\ c \in Nat /\ a + R = b /\ c >= len /\ c - R < len /\ b >= R
      /\ (n < N => b <= c - R) /\ (n = N => b = c)
  BY <1>1, <1>2, <1>3, <1>4
<1>6. TakenAt(len, n) = Smaller(R, len - a) /\ TakenTo(len, n - 1) = Smaller(a, len)
      /\ TakenTo(len, n) = Smaller(b, len) /\ TakenTo(len, 0) = Smaller(0, len)
      /\ TakenTo(len, N) = Smaller(c, len)
  BY <1>2, <1>3, Zenon DEF TakenAt, TakenTo, R, N
<1> HIDE DEF a, b, c
<1>7. n < N \/ n = N
  BY <1>1, <1>2
<1>8. /\ Smaller(R, len - a) \in 1 .. R
      /\ Smaller(a, len) + Smaller(R, len - a) = Smaller(b, len)
      /\ (a + R >= len <=> n = N)
      /\ Smaller(0, len) = 0 /\ Smaller(c, len) = len
  BY <1>2, <1>5, <1>7 DEF Smaller
<1> QED
  BY <1>6, <1>8, Zenon DEF a, R, N

\* The bytes of some frames, added up one after the other.
LEMMA SumRuns ==
  ASSUME NEW N \in Nat, NEW frames, Len(frames) = N, DOMAIN frames = 1 .. N,
         \A k \in 1 .. N : frames[k].take \in Nat
  PROVE  \E run : /\ run[0] = 0 /\ \A k \in 1 .. N : run[k] = run[k - 1] + frames[k].take
                  /\ BytesIn(frames) = run[N]
<1> DEFINE X == Nat
           Step == [k \in 1 .. N |-> [x \in X |-> x + frames[k].take]]
           L(f, t) == IF t = {} THEN 0 ELSE f[t \ {Max(t)}] + frames[Max(t)].take
           Fold(f) == f = [t \in SUBSET (1 .. N) |-> L(f, t)]
           fold == CHOOSE f : Fold(f)
<1>1. 0 \in X
  OBVIOUS
<1>2. ASSUME NEW x \in X, NEW k \in 1 .. N
      PROVE  Step[k][x] = x + frames[k].take /\ Step[k][x] \in X
  <2>1. x + frames[k].take \in X
    OBVIOUS
  <2>2. Step[k][x] = x + frames[k].take
    OBVIOUS
  <2> QED
    BY <2>1, <2>2, Zenon
<1>3. Step \in [1 .. N -> [X -> X]]
  OBVIOUS
<1>4. \E f : Fold(f)
  <2>1. PICK f \in [SUBSET (1 .. N) -> X] : IsFolded(f, N, 0, Step)
    <3> HIDE DEF X, Step
    <3> QED
      BY <1>1, <1>3, FoldedExists, Zenon
  <2>2. ASSUME NEW t \in SUBSET (1 .. N)
        PROVE  FoldedAt(f, 0, Step, t) = L(f, t)
    <3> HIDE DEF X, Step
    <3>1. CASE t = {}
      BY <3>1, Zenon DEF FoldedAt
    <3>2. CASE t # {}
      <4> DEFINE m == Max(t)
                 r == t \ {m}
      <4>1. m \in 1 .. N /\ r \in SUBSET (1 .. N)
        BY <3>2, LastPlace, Zenon
      <4>2. f[r] \in X
        BY <4>1
      <4>3. Step[m][f[r]] = f[r] + frames[m].take
        BY <1>2, <4>1, <4>2, Zenon
      <4> QED
        BY <3>2, <4>3, Zenon DEF FoldedAt
    <3> QED
      BY <3>1, <3>2, Zenon
  <2>3. f = [t \in SUBSET (1 .. N) |-> FoldedAt(f, 0, Step, t)]
    <3> HIDE DEF X, Step
    <3> QED
      BY <2>1, Zenon DEF IsFolded
  <2> HIDE DEF L, X, Step
  <2>4. f = [t \in SUBSET (1 .. N) |-> L(f, t)]
    BY <2>2, <2>3
  <2> QED
    BY <2>4, Zenon
<1>5. Fold(fold)
  BY <1>4, Zenon
<1>6. BytesIn(frames) = fold[1 .. N]
  BY DEF BytesIn, FoldLeft, MapThenFoldSet
<1> HIDE DEF fold
<1>7. Follows(fold, X, N, 0, Step)
  <2>1. \A t \in SUBSET (1 .. N) : fold[t] = L(fold, t)
    <3> HIDE DEF L
    <3> QED
      BY <1>5
  <2>2. fold[{}] = 0
    <3>1. {} \in SUBSET (1 .. N)
      OBVIOUS
    <3> QED
      BY <2>1, <3>1, Zenon
  <2>3. ASSUME NEW t \in SUBSET (1 .. N), t # {}, fold[t \ {Max(t)}] \in X
        PROVE  fold[t] = Step[Max(t)][fold[t \ {Max(t)}]]
    <3>1. Max(t) \in 1 .. N
      BY <2>3, LastPlace, Zenon
    <3> HIDE DEF X, Step
    <3> QED
      BY <1>2, <2>1, <2>3, <3>1, Zenon
  <2> HIDE DEF X, Step
  <2> QED
    BY <2>2, <2>3, Zenon DEF Follows
<1>8. PICK run : IsSteps(run, X, N, 0, Step, fold[1 .. N])
  <2> HIDE DEF X, Step
  <2> QED
    BY <1>1, <1>3, <1>7, FoldedRuns, Zenon
<1>9. ASSUME NEW k \in 1 .. N PROVE run[k] = run[k - 1] + frames[k].take
  <2>1. k - 1 \in 0 .. N
    OBVIOUS
  <2>2. run[k - 1] \in X
    <3> HIDE DEF X, Step
    <3> QED
      BY <1>8, <2>1 DEF IsSteps
  <2> HIDE DEF X, Step
  <2> QED
    BY <1>2, <1>8, <2>2, Zenon DEF IsSteps
<1> QED
  BY <1>6, <1>8, <1>9, Zenon DEF IsSteps

\* The fragments of a message of len bytes.
AddsUp(frames, len) ==
  /\ BytesIn(frames) = len
  /\ \A n \in DOMAIN frames :
       /\ frames[n].take <= SendChunk
       /\ frames[n].take > 0 \/ len = 0
       /\ frames[n].op = kOpBinary <=> n = 1
       /\ frames[n].fin <=> n = Len(frames)

\* sendBinary cuts a message of any length into fragments that hold all of it, none
\* larger than SendChunk and none empty unless the message is, the first one with the
\* opcode and only the last one with fin.
THEOREM FragmentsAreWhole == \A len \in Nat : AddsUp(sendBinary(len), len)
<1> SUFFICES ASSUME NEW len \in Nat PROVE AddsUp(sendBinary(len), len)
  OBVIOUS
<1>1. CASE len <= SendChunk
  <2> DEFINE frame == [op |-> kOpBinary, take |-> len, fin |-> TRUE]
             frames == <<frame>>
  <2>1. sendBinary(len) = frames
    BY <1>1, Zenon DEF sendBinary
  <2>2. 1 \in Nat /\ Len(frames) = 1 /\ DOMAIN frames = 1 .. 1 /\ frames[1] = frame
    OBVIOUS
  <2>3. frame.take = len /\ frame.op = kOpBinary /\ frame.fin = TRUE
    OBVIOUS
  <2> HIDE DEF frame, frames
  <2>4. \A k \in 1 .. 1 : k = 1
    OBVIOUS
  <2>5. \A k \in 1 .. 1 : frames[k].take \in Nat
    BY <2>2, <2>3, <2>4, Zenon
  <2>6. PICK run : /\ run[0] = 0 /\ \A k \in 1 .. 1 : run[k] = run[k - 1] + frames[k].take
                   /\ BytesIn(frames) = run[1]
    <3> DEFINE N == 1
    <3> HIDE DEF N
    <3>1. /\ N \in Nat /\ Len(frames) = N /\ DOMAIN frames = 1 .. N
          /\ \A k \in 1 .. N : frames[k].take \in Nat
      BY <2>2, <2>5, Zenon DEF N
    <3>2. \E run : /\ run[0] = 0 /\ \A k \in 1 .. N : run[k] = run[k - 1] + frames[k].take
                  /\ BytesIn(frames) = run[N]
      BY <3>1, SumRuns, Zenon
    <3> QED
      BY <3>2, Zenon DEF N
  <2>7. run[1] = len
    <3>1. 1 \in 1 .. 1 /\ 1 - 1 = 0 /\ 0 + len = len
      OBVIOUS
    <3> QED
      BY <2>2, <2>3, <2>6, <3>1, Zenon
  <2>8. len > 0 \/ len = 0
    OBVIOUS
  <2> QED
    BY <1>1, <2>1, <2>2, <2>3, <2>4, <2>6, <2>7, <2>8, Zenon DEF AddsUp
<1>2. CASE ~(len <= SendChunk)
  <2> DEFINE N == HowMany(len)
             F(n) == [op |-> IF n = 1 THEN kOpBinary ELSE kOpContinuation,
                      take |-> TakenAt(len, n), fin |-> (n - 1) * SendChunk + SendChunk >= len]
             frames == sendBinary(len)
  <2>1. frames = [n \in 1 .. N |-> F(n)]
    BY <1>2, Zenon DEF sendBinary, HowMany, TakenAt
  <2>0. len > SendChunk
    BY <1>2, WsFramesAssumption
  <2>2. N \in Nat \ {0, 1}
    BY <2>0, EnoughFragments, Zenon
  <2> HIDE DEF F, N, frames
  <2>3. Len(frames) = N /\ DOMAIN frames = 1 .. N /\ \A n \in 1 .. N : frames[n] = F(n)
    BY <2>1, <2>2
  <2>4. ASSUME NEW n \in 1 .. N
        PROVE  /\ frames[n].op = (IF n = 1 THEN kOpBinary ELSE kOpContinuation)
               /\ frames[n].take = TakenAt(len, n)
               /\ frames[n].fin = ((n - 1) * SendChunk + SendChunk >= len)
    <3>1. frames[n] = F(n)
      BY <2>3, Zenon
    <3>2. F(n).op = (IF n = 1 THEN kOpBinary ELSE kOpContinuation)
      BY DEF F
    <3>3. F(n).take = TakenAt(len, n)
      BY DEF F
    <3>4. F(n).fin = ((n - 1) * SendChunk + SendChunk >= len)
      BY DEF F
    <3> QED
      BY <3>1, <3>2, <3>3, <3>4, Zenon
  <2>5. ASSUME NEW n \in 1 .. N
        PROVE  /\ TakenAt(len, n) \in 1 .. SendChunk
               /\ TakenTo(len, n - 1) + TakenAt(len, n) = TakenTo(len, n)
               /\ (n - 1) * SendChunk + SendChunk >= len <=> n = N
               /\ TakenTo(len, 0) = 0 /\ TakenTo(len, N) = len
    BY <2>0, OneFragment, Zenon DEF N
  <2>6. \A k \in 1 .. N : frames[k].take \in Nat
    <3>1. \A x \in 1 .. SendChunk : x \in Nat
      OBVIOUS
    <3> QED
      BY <2>4, <2>5, <3>1, Zenon
  <2>7. PICK run : /\ run[0] = 0 /\ \A k \in 1 .. N : run[k] = run[k - 1] + frames[k].take
                   /\ BytesIn(frames) = run[N]
    <3>1. N \in Nat
      BY <2>2, Zenon
    <3> QED
      BY <2>3, <2>6, <3>1, SumRuns, Zenon
  <2> DEFINE T == {k \in Nat : k <= N => run[k] = TakenTo(len, k)}
  <2>8. 0 \in T
    <3>1. 1 \in 1 .. N
      BY <2>2
    <3>2. TakenTo(len, 0) = 0
      BY <2>5, <3>1, Zenon
    <3> QED
      BY <2>7, <3>2
  <2>9. ASSUME NEW k \in Nat, k \in T PROVE k + 1 \in T
    <3> SUFFICES ASSUME k + 1 <= N PROVE run[k + 1] = TakenTo(len, k + 1)
      OBVIOUS
    <3> DEFINE n == k + 1
    <3>1. n \in 1 .. N /\ n - 1 = k /\ k <= N
      BY <2>2
    <3>2. run[k] = TakenTo(len, k)
      BY <2>9, <3>1, Zenon
    <3> HIDE DEF n
    <3>3. run[n] = run[n - 1] + TakenAt(len, n)
      <4>1. frames[n].take = TakenAt(len, n)
        BY <2>4, <3>1, Zenon
      <4>2. run[n] = run[n - 1] + frames[n].take
        BY <2>7, <3>1, Zenon
      <4> QED
        BY <4>1, <4>2, Zenon
    <3> QED
      BY <2>5, <3>1, <3>2, <3>3, Zenon DEF n
  <2>10. run[N] = len
    <3>1. \A k \in Nat : k \in T
      <4> HIDE DEF T
      <4> QED
        BY <2>8, <2>9, AllNumbers
    <3>2. N \in Nat /\ N <= N /\ 1 \in 1 .. N
      BY <2>2
    <3> QED
      BY <2>5, <3>1, <3>2, Zenon
  <2>11. ASSUME NEW n \in 1 .. N
         PROVE  /\ frames[n].take <= SendChunk /\ frames[n].take > 0
                /\ frames[n].op = kOpBinary <=> n = 1
                /\ frames[n].fin <=> n = Len(frames)
    <3>1. \A x \in 1 .. SendChunk : x <= SendChunk /\ x > 0
      OBVIOUS
    <3>2. frames[n].take <= SendChunk /\ frames[n].take > 0
      BY <2>4, <2>5, <3>1, Zenon
    <3>3. kOpBinary # kOpContinuation
      BY DEF kOpBinary, kOpContinuation
    <3>4. frames[n].op = kOpBinary <=> n = 1
      BY <2>4, <3>3, Zenon
    <3>5. frames[n].fin <=> n = Len(frames)
      BY <2>3, <2>4, <2>5, Zenon
    <3> QED
      BY <3>2, <3>4, <3>5, Zenon
  <2> QED
    BY <2>3, <2>7, <2>10, <2>11, Zenon DEF AddsUp, frames
<1> QED
  BY <1>1, <1>2, Zenon

(* --------------------------------- frames ------------------------------ *)

\* Lengths of eight bytes are below this.
Width64 == 256 * 256 * 256 * 256 * 256 * 256 * 256 * 256

\* The last byte of a number, what is above it, and a number with one byte more.
LowByte(v) == v % 256
HighBytes(v) == v \div 256
Behind(n, byte) == n * 256 + byte

\* n, divided by 256 again and again.
IsShifted(s, n) ==
  s \in [0 .. 7 -> Nat] /\ s[0] = n /\ \A k \in 1 .. 7 : s[k] = HighBytes(s[k - 1])

Shift(s, n, k) == IF k = 0 THEN n ELSE s[k - 1] \div 256

\* The function in Byte exists.
LEMMA ShiftedExists ==
  ASSUME NEW n \in Nat
  PROVE  \E s \in [0 .. 7 -> Nat] : s = [k \in 0 .. 7 |-> Shift(s, n, k)]
<1> DEFINE Good(m) == \E s \in [0 .. m -> Nat] : s = [k \in 0 .. m |-> Shift(s, n, k)]
           T == {m \in Nat : Good(m)}
<1>1. Good(0)
  <2> DEFINE s == [k \in 0 .. 0 |-> n]
  <2>1. s \in [0 .. 0 -> Nat] /\ \A k \in 0 .. 0 : k = 0
    OBVIOUS
  <2>2. s = [k \in 0 .. 0 |-> n]
    OBVIOUS
  <2> HIDE DEF s
  <2>3. \A k \in 0 .. 0 : Shift(s, n, k) = n
    BY <2>1, Zenon DEF Shift
  <2>4. s = [k \in 0 .. 0 |-> Shift(s, n, k)]
    BY <2>2, <2>3
  <2> QED
    BY <2>1, <2>4, Zenon
<1>2. ASSUME NEW m \in Nat, Good(m) PROVE Good(m + 1)
  <2>1. PICK s \in [0 .. m -> Nat] : s = [k \in 0 .. m |-> Shift(s, n, k)]
    BY <1>2, Zenon
  <2> DEFINE t == [k \in 0 .. m + 1 |-> Shift(s, n, k)]
  <2> HIDE DEF t
  <2>2. \A k \in 0 .. m : t[k] = s[k]
    <3>1. \A k \in 0 .. m : k \in 0 .. m + 1
      OBVIOUS
    <3> QED
      BY <2>1, <3>1 DEF t
  <2>3. ASSUME NEW k \in 0 .. m + 1
        PROVE  Shift(t, n, k) = Shift(s, n, k) /\ Shift(s, n, k) \in Nat
    <3>1. CASE k = 0
      BY <3>1, Zenon DEF Shift
    <3>2. CASE k # 0
      <4>1. k - 1 \in 0 .. m
        BY <3>2
      <4>2. t[k - 1] = s[k - 1] /\ s[k - 1] \in Nat
        BY <2>2, <4>1
      <4>3. s[k - 1] \div 256 \in Nat
        BY <4>2
      <4> QED
        BY <3>2, <4>2, <4>3, Zenon DEF Shift
    <3> QED
      BY <3>1, <3>2, Zenon
  <2>4. t = [k \in 0 .. m + 1 |-> Shift(t, n, k)]
    BY <2>3 DEF t
  <2>5. t \in [0 .. m + 1 -> Nat]
    BY <2>3 DEF t
  <2> QED
    BY <2>4, <2>5, Zenon
<1>3. \A m \in Nat : m \in T
  <2> HIDE DEF Good
  <2>1. 0 \in T
    BY <1>1
  <2>2. \A m \in Nat : m \in T => m + 1 \in T
    BY <1>2
  <2> HIDE DEF T
  <2> QED
    BY <2>1, <2>2, AllNumbers
<1>4. 7 \in T
  BY <1>3
<1> QED
  BY <1>4, Zenon

\* The bytes of a number are the last digits of what it is divided into.
LEMMA BytesAre ==
  ASSUME NEW n \in Nat
  PROVE  \E s : IsShifted(s, n) /\ \A i \in 0 .. 7 : Byte(n, i) = LowByte(s[i])
<1> DEFINE Works(x) == x = [k \in 0 .. 7 |-> IF k = 0 THEN n ELSE x[k - 1] \div 256]
           s == CHOOSE x : Works(x)
<1>0. \E x : Works(x)
  <2>1. PICK x \in [0 .. 7 -> Nat] : x = [k \in 0 .. 7 |-> Shift(x, n, k)]
    BY ShiftedExists, Zenon
  <2>2. Works(x)
    BY <2>1, Zenon DEF Shift
  <2> QED
    BY <2>2, Zenon
<1>1. Works(s)
  BY <1>0, Zenon
<1>2. \A i \in 0 .. 7 : Byte(n, i) = LowByte(s[i])
  BY Zenon DEF Byte, LowByte
<1> HIDE DEF s
<1>3. s = [k \in 0 .. 7 |-> Shift(s, n, k)]
  BY <1>1, Zenon DEF Shift
<1>4. \A k \in 0 .. 7 : s[k] = Shift(s, n, k)
  BY <1>3
<1>5. s[0] = n /\ \A k \in 1 .. 7 : s[k] = HighBytes(s[k - 1])
  <2>1. 0 \in 0 .. 7 /\ \A k \in 1 .. 7 : k \in 0 .. 7 /\ k # 0
    OBVIOUS
  <2> QED
    BY <1>4, <2>1, Zenon DEF Shift, HighBytes
<1> DEFINE T == {k \in Nat : k <= 7 => s[k] \in Nat}
<1>6. \A k \in Nat : k \in T
  <2>1. 0 \in T
    BY <1>5
  <2>2. ASSUME NEW k \in Nat, k \in T PROVE k + 1 \in T
    <3>1. SUFFICES ASSUME k + 1 <= 7 PROVE s[k + 1] \in Nat
      OBVIOUS
    <3> DEFINE j == k + 1
    <3>2. j \in 1 .. 7 /\ j - 1 = k /\ s[k] \in Nat
      BY <2>2, <3>1
    <3> HIDE DEF j
    <3>3. s[j] = HighBytes(s[k])
      BY <1>5, <3>2, Zenon
    <3>4. s[j] \in Nat
      BY <3>2, <3>3 DEF HighBytes
    <3> QED
      BY <3>4, Zenon DEF j
  <2> HIDE DEF T
  <2> QED
    BY <2>1, <2>2, AllNumbers
<1>7. \A k \in 0 .. 7 : s[k] \in Nat
  BY <1>6
<1>8. s \in [0 .. 7 -> Nat]
  BY <1>3, <1>7
<1> QED
  BY <1>2, <1>5, <1>8, Zenon DEF IsShifted

\* A number is its last digit and what is above it.
LEMMA ByteAbove ==
  ASSUME NEW v \in Nat
  PROVE  HighBytes(v) \in Nat /\ LowByte(v) \in Nat /\ Behind(HighBytes(v), LowByte(v)) = v
BY DEF HighBytes, LowByte, Behind

\* u is what is above the first byte of v, and v is a number with one byte more than w.
Above(u, v) == u = v \div 256
Under(v, w) == v < w * 256

\* Of a number with one byte less the bytes above the first have one byte less.
LEMMA OneByteLess ==
  ASSUME NEW v \in Nat, NEW u, Above(u, v), NEW w \in Nat, Under(v, w)
  PROVE  u < w
BY DEF Above, Under

\* Nothing is above the eighth byte.
LEMMA EightBytes ==
  ASSUME NEW n \in Nat, n < Width64, NEW s, IsShifted(s, n)
  PROVE  HighBytes(s[7]) = 0
<1>2. \A k \in 0 .. 7 : s[k] \in Nat
  BY DEF IsShifted
<1>3. s[0] = n /\ \A k \in 1 .. 7 : s[k] = HighBytes(s[k - 1])
  BY Zenon DEF IsShifted
<1>4. /\ Above(s[1], s[0]) /\ Above(s[2], s[1]) /\ Above(s[3], s[2]) /\ Above(s[4], s[3])
      /\ Above(s[5], s[4]) /\ Above(s[6], s[5]) /\ Above(s[7], s[6])
  BY <1>3 DEF Above, HighBytes
<1> DEFINE p2 == 256 * 256
           p3 == p2 * 256
           p4 == p3 * 256
           p5 == p4 * 256
           p6 == p5 * 256
           p7 == p6 * 256
<1>5. p2 \in Nat /\ p3 \in Nat /\ p4 \in Nat /\ p5 \in Nat /\ p6 \in Nat /\ p7 \in Nat
  OBVIOUS
<1>6. n < p7 * 256
  BY Zenon DEF Width64
<1>7. /\ s[0] \in Nat /\ s[1] \in Nat /\ s[2] \in Nat /\ s[3] \in Nat /\ s[4] \in Nat
      /\ s[5] \in Nat /\ s[6] \in Nat /\ s[7] \in Nat
  BY <1>2
<1>8. Under(s[0], p7)
  BY <1>3, <1>6, Zenon DEF Under
<1> HIDE DEF p7
<1>9. s[1] < p7
  BY <1>4, <1>5, <1>7, <1>8, OneByteLess, Zenon
<1>10. Under(s[1], p6)
  BY <1>9, Zenon DEF p7, Under
<1> HIDE DEF p6
<1>11. s[2] < p6
  BY <1>4, <1>5, <1>7, <1>10, OneByteLess, Zenon
<1>12. Under(s[2], p5)
  BY <1>11, Zenon DEF p6, Under
<1> HIDE DEF p5
<1>13. s[3] < p5
  BY <1>4, <1>5, <1>7, <1>12, OneByteLess, Zenon
<1>14. Under(s[3], p4)
  BY <1>13, Zenon DEF p5, Under
<1> HIDE DEF p4
<1>15. s[4] < p4
  BY <1>4, <1>5, <1>7, <1>14, OneByteLess, Zenon
<1>16. Under(s[4], p3)
  BY <1>15, Zenon DEF p4, Under
<1> HIDE DEF p3
<1>17. s[5] < p3
  BY <1>4, <1>5, <1>7, <1>16, OneByteLess, Zenon
<1>18. Under(s[5], p2)
  BY <1>17, Zenon DEF p3, Under
<1> HIDE DEF p2
<1>19. s[6] < p2
  BY <1>4, <1>5, <1>7, <1>18, OneByteLess, Zenon
<1> DEFINE v == s[6]
           u == s[7]
<1>20. v \in Nat /\ u \in Nat /\ v < 256 * 256 /\ u = v \div 256
  BY <1>4, <1>7, <1>19, Zenon DEF p2, Above
<1> HIDE DEF u, v
<1>21. u < 256
  BY <1>20
<1>22. u \div 256 = 0
  BY <1>20, <1>21
<1> QED
  BY <1>22 DEF u, HighBytes

\* A number written in bytes, one byte after the other.
LEMMA NumberRuns ==
  ASSUME NEW N \in Nat, NEW bytes, Len(bytes) = N, DOMAIN bytes = 1 .. N,
         \A k \in 1 .. N : bytes[k] \in Nat
  PROVE  \E run : /\ run[0] = 0 /\ \A k \in 1 .. N : run[k] = Behind(run[k - 1], bytes[k])
                  /\ Number256(bytes) = run[N]
<1> DEFINE X == Nat
           Step == [k \in 1 .. N |-> [x \in X |-> Behind(x, bytes[k])]]
           L(f, t) == IF t = {} THEN 0 ELSE Behind(f[t \ {Max(t)}], bytes[Max(t)])
           Fold(f) == f = [t \in SUBSET (1 .. N) |-> L(f, t)]
           fold == CHOOSE f : Fold(f)
<1>1. 0 \in X
  OBVIOUS
<1>2. ASSUME NEW x \in X, NEW k \in 1 .. N
      PROVE  Step[k][x] = Behind(x, bytes[k]) /\ Step[k][x] \in X
  <2>1. Behind(x, bytes[k]) \in X
    BY DEF Behind
  <2>2. Step[k][x] = Behind(x, bytes[k])
    OBVIOUS
  <2> QED
    BY <2>1, <2>2, Zenon
<1>3. Step \in [1 .. N -> [X -> X]]
  BY DEF Behind
<1>4. \E f : Fold(f)
  <2>1. PICK f \in [SUBSET (1 .. N) -> X] : IsFolded(f, N, 0, Step)
    <3> HIDE DEF X, Step
    <3> QED
      BY <1>1, <1>3, FoldedExists, Zenon
  <2>2. ASSUME NEW t \in SUBSET (1 .. N)
        PROVE  FoldedAt(f, 0, Step, t) = L(f, t)
    <3> HIDE DEF X, Step
    <3>1. CASE t = {}
      BY <3>1, Zenon DEF FoldedAt
    <3>2. CASE t # {}
      <4> DEFINE m == Max(t)
                 r == t \ {m}
      <4>1. m \in 1 .. N /\ r \in SUBSET (1 .. N)
        BY <3>2, LastPlace, Zenon
      <4>2. f[r] \in X
        BY <4>1
      <4>3. Step[m][f[r]] = Behind(f[r], bytes[m])
        BY <1>2, <4>1, <4>2, Zenon
      <4> QED
        BY <3>2, <4>3, Zenon DEF FoldedAt
    <3> QED
      BY <3>1, <3>2, Zenon
  <2>3. f = [t \in SUBSET (1 .. N) |-> FoldedAt(f, 0, Step, t)]
    <3> HIDE DEF X, Step
    <3> QED
      BY <2>1, Zenon DEF IsFolded
  <2> HIDE DEF L, X, Step
  <2>4. f = [t \in SUBSET (1 .. N) |-> L(f, t)]
    BY <2>2, <2>3
  <2> QED
    BY <2>4, Zenon
<1>5. Fold(fold)
  BY <1>4, Zenon
<1>6. Number256(bytes) = fold[1 .. N]
  BY DEF Number256, FoldLeft, Behind, MapThenFoldSet
<1> HIDE DEF fold
<1>7. Follows(fold, X, N, 0, Step)
  <2>1. \A t \in SUBSET (1 .. N) : fold[t] = L(fold, t)
    <3> HIDE DEF L
    <3> QED
      BY <1>5
  <2>2. fold[{}] = 0
    <3>1. {} \in SUBSET (1 .. N)
      OBVIOUS
    <3> QED
      BY <2>1, <3>1, Zenon
  <2>3. ASSUME NEW t \in SUBSET (1 .. N), t # {}, fold[t \ {Max(t)}] \in X
        PROVE  fold[t] = Step[Max(t)][fold[t \ {Max(t)}]]
    <3>1. Max(t) \in 1 .. N
      BY <2>3, LastPlace, Zenon
    <3> HIDE DEF X, Step
    <3> QED
      BY <1>2, <2>1, <2>3, <3>1, Zenon
  <2> HIDE DEF X, Step
  <2> QED
    BY <2>2, <2>3, Zenon DEF Follows
<1>8. PICK run : IsSteps(run, X, N, 0, Step, fold[1 .. N])
  <2> HIDE DEF X, Step
  <2> QED
    BY <1>1, <1>3, <1>7, FoldedRuns, Zenon
<1>9. ASSUME NEW k \in 1 .. N PROVE run[k] = Behind(run[k - 1], bytes[k])
  <2>1. k - 1 \in 0 .. N
    OBVIOUS
  <2>2. run[k - 1] \in X
    <3> HIDE DEF X, Step
    <3> QED
      BY <1>8, <2>1 DEF IsSteps
  <2> HIDE DEF X, Step
  <2> QED
    BY <1>2, <1>8, <2>2, Zenon DEF IsSteps
<1> QED
  BY <1>6, <1>8, <1>9, Zenon DEF IsSteps

\* Eight bytes, the highest first, are read as the number they were written for.
LEMMA EightBytesRead ==
  ASSUME NEW n \in Nat, n < Width64
  PROVE  Number256([i \in 1 .. 8 |-> Byte(n, 8 - i)]) = n
<1> DEFINE bytes == [i \in 1 .. 8 |-> Byte(n, 8 - i)]
<1>1. PICK s : IsShifted(s, n) /\ \A i \in 0 .. 7 : Byte(n, i) = LowByte(s[i])
  BY BytesAre, Zenon
<1>2. /\ \A k \in 0 .. 7 : s[k] \in Nat
      /\ s[0] = n /\ \A k \in 1 .. 7 : s[k] = HighBytes(s[k - 1])
  BY <1>1 DEF IsShifted
<1>3. HighBytes(s[7]) = 0
  BY <1>1, EightBytes, Zenon
<1>4. ASSUME NEW k \in 1 .. 8 PROVE bytes[k] = LowByte(s[8 - k]) /\ bytes[k] \in Nat
  <2>1. 8 - k \in 0 .. 7
    OBVIOUS
  <2>2. bytes[k] = Byte(n, 8 - k)
    OBVIOUS
  <2>3. LowByte(s[8 - k]) \in Nat
    BY <1>2, <2>1, ByteAbove
  <2> QED
    BY <1>1, <2>1, <2>2, <2>3, Zenon
<1> DEFINE N == 8
<1>5. N \in Nat /\ Len(bytes) = N /\ DOMAIN bytes = 1 .. N
  OBVIOUS
<1> HIDE DEF bytes
<1>6. PICK run : /\ run[0] = 0 /\ \A k \in 1 .. 8 : run[k] = Behind(run[k - 1], bytes[k])
                 /\ Number256(bytes) = run[8]
  <2> HIDE DEF N
  <2>1. \A k \in 1 .. N : bytes[k] \in Nat
    BY <1>4, Zenon DEF N
  <2>2. \E run : /\ run[0] = 0 /\ \A k \in 1 .. N : run[k] = Behind(run[k - 1], bytes[k])
                 /\ Number256(bytes) = run[N]
    BY <1>5, <2>1, NumberRuns, Zenon
  <2> QED
    BY <2>2, Zenon DEF N
<1>7. run[1] = s[7]
  <2>1. run[1] = Behind(run[0], bytes[1]) /\ bytes[1] = LowByte(s[7]) /\ s[7] \in Nat
    BY <1>2, <1>4, <1>6
  <2> QED
    BY <1>3, <1>6, <2>1, ByteAbove, Zenon
<1> DEFINE T == {k \in Nat : k <= 7 => run[k + 1] = s[7 - k]}
<1>8. \A k \in Nat : k \in T
  <2>1. 0 \in T
    BY <1>7
  <2>2. ASSUME NEW k \in Nat, k \in T PROVE k + 1 \in T
    <3> SUFFICES ASSUME k + 1 <= 7 PROVE run[k + 1 + 1] = s[7 - (k + 1)]
      OBVIOUS
    <3> DEFINE j == k + 2
               v == s[7 - (k + 1)]
    <3>1. /\ j \in 1 .. 8 /\ j - 1 = k + 1 /\ 8 - j = 7 - (k + 1) /\ k <= 7
          /\ 7 - k \in 1 .. 7 /\ (7 - k) - 1 = 7 - (k + 1) /\ 7 - (k + 1) \in 0 .. 7
          /\ j = k + 1 + 1
      OBVIOUS
    <3>2. run[k + 1] = s[7 - k]
      BY <2>2, <3>1
    <3>3. v \in Nat
      BY <1>2, <3>1
    <3>4. s[7 - k] = HighBytes(v)
      BY <1>2, <3>1
    <3>5. bytes[j] = LowByte(v)
      BY <1>4, <3>1, Zenon
    <3>6. run[j] = Behind(run[j - 1], bytes[j])
      BY <1>6, <3>1, Zenon
    <3> HIDE DEF v, j
    <3>7. run[j] = Behind(HighBytes(v), LowByte(v))
      BY <3>1, <3>2, <3>4, <3>5, <3>6, Zenon
    <3>8. run[j] = v
      BY <3>3, <3>7, ByteAbove, Zenon
    <3> QED
      BY <3>1, <3>8, Zenon DEF v
  <2> HIDE DEF T
  <2> QED
    BY <2>1, <2>2, AllNumbers
<1>9. run[8] = n
  <2>1. 7 \in T
    BY <1>8
  <2>2. run[7 + 1] = s[7 - 7]
    BY <2>1
  <2> QED
    BY <1>2, <2>2
<1> QED
  BY <1>6, <1>9, Zenon DEF bytes

\* The lengths that are written in two bytes.
InTwoBytes(n) == n <= 65535

\* The two bytes of a length, read back, are the length.
LEMMA TwoBytesRead ==
  ASSUME NEW n \in Nat, InTwoBytes(n)
  PROVE  Number256(<<Byte(n, 1), Byte(n, 0)>>) = n
<1> DEFINE bytes == <<Byte(n, 1), Byte(n, 0)>>
<1>1. PICK s : IsShifted(s, n) /\ \A i \in 0 .. 7 : Byte(n, i) = LowByte(s[i])
  BY BytesAre, Zenon
<1>2. s[0] = n /\ s[1] = HighBytes(n)
  <2>1. 1 \in 1 .. 7 /\ 1 - 1 = 0
    OBVIOUS
  <2> QED
    BY <1>1, <2>1, Zenon DEF IsShifted
<1>3. Byte(n, 1) = LowByte(HighBytes(n)) /\ Byte(n, 0) = LowByte(n)
  <2>1. 1 \in 0 .. 7 /\ 0 \in 0 .. 7
    OBVIOUS
  <2> QED
    BY <1>1, <1>2, <2>1, Zenon
<1> DEFINE a == HighBytes(n)
           b == LowByte(n)
<1>4. a \in Nat /\ b \in Nat /\ Behind(a, b) = n /\ LowByte(a) = a /\ Behind(0, a) = a
  <2>1. n \in Nat /\ n <= 65535
    BY DEF InTwoBytes
  <2>2. n \div 256 \in 0 .. 255
    BY <2>1
  <2>3. LowByte(a) = a /\ Behind(0, a) = a
    BY <2>2 DEF LowByte, HighBytes, Behind
  <2> QED
    BY <2>3, ByteAbove, Zenon
<1> HIDE DEF a, b
<1>5. bytes = <<a, b>>
  BY <1>3, <1>4, Zenon DEF a, b
<1> DEFINE N == 2
<1>6. N \in Nat /\ Len(bytes) = N /\ DOMAIN bytes = 1 .. N /\ bytes[1] = a /\ bytes[2] = b
  BY <1>5
<1> HIDE DEF bytes
<1>7. PICK run : /\ run[0] = 0 /\ \A k \in 1 .. 2 : run[k] = Behind(run[k - 1], bytes[k])
                 /\ Number256(bytes) = run[2]
  <2>1. \A k \in 1 .. N : bytes[k] \in Nat
    BY <1>4, <1>6
  <2> HIDE DEF N
  <2>2. \E run : /\ run[0] = 0 /\ \A k \in 1 .. N : run[k] = Behind(run[k - 1], bytes[k])
                 /\ Number256(bytes) = run[N]
    BY <1>6, <2>1, NumberRuns, Zenon
  <2> QED
    BY <2>2, Zenon DEF N
<1>8. 1 \in 1 .. 2 /\ 1 - 1 = 0 /\ 2 \in 1 .. 2 /\ 2 - 1 = 1
  OBVIOUS
<1>10. run[1] = a
  BY <1>4, <1>6, <1>7, <1>8, Zenon
<1>9. run[2] = n
  BY <1>4, <1>6, <1>7, <1>8, <1>10, Zenon
<1> QED
  BY <1>7, <1>9, Zenon DEF bytes

\* The first m places of a and b are the same.
Same(a, b, m) == m <= Len(a) /\ m <= Len(b) /\ \A i \in 1 .. m : a[i] = b[i]

SamePart(a, b, i, j) == SubSeq(a, i, j) = SubSeq(b, i, j)

\* Then so are parts of them.
LEMMA SameParts ==
  ASSUME NEW S, NEW a \in Seq(S), NEW b \in Seq(S), NEW m \in Nat, Same(a, b, m),
         NEW i \in Nat, 1 <= i, NEW j \in 0 .. m
  PROVE  SamePart(a, b, i, j)
<1>1. m <= Len(a) /\ m <= Len(b) /\ \A k \in 1 .. m : a[k] = b[k]
  BY Zenon DEF Same
<1>2. /\ SubSeq(a, i, j) = [k \in 1 .. (1 + j - i) |-> a[i + k - 1]]
      /\ SubSeq(b, i, j) = [k \in 1 .. (1 + j - i) |-> b[i + k - 1]]
  OBVIOUS
<1>3. ASSUME NEW k \in 1 .. (1 + j - i) PROVE a[i + k - 1] = b[i + k - 1]
  <2>1. i + k - 1 \in 1 .. m
    OBVIOUS
  <2> QED
    BY <1>1, <2>1
<1>4. [k \in 1 .. (1 + j - i) |-> a[i + k - 1]] = [k \in 1 .. (1 + j - i) |-> b[i + k - 1]]
  BY <1>3
<1> QED
  BY <1>2, <1>4, Zenon DEF SamePart

\* What is joined begins with its first part, and so does a longer text.
LEMMA SameBegin ==
  ASSUME NEW S, NEW s \in Seq(S), NEW t \in Seq(S)
  PROVE  Same(s \o t, s, Len(s)) /\ \A n \in 0 .. Len(s) : Same(SubSeq(s, 1, n), s, n)
<1>1. Same(s \o t, s, Len(s))
  BY DEF Same
<1>2. ASSUME NEW n \in 0 .. Len(s) PROVE Same(SubSeq(s, 1, n), s, n)
  <2>1. Len(SubSeq(s, 1, n)) = n /\ \A i \in 1 .. n : SubSeq(s, 1, n)[i] = s[i]
    OBVIOUS
  <2> QED
    BY <2>1 DEF Same
<1> QED
  BY <1>1, <1>2, Zenon

\* What the two bytes at the front of a frame say.
IsFin(b) == b \div 128 = 1
OpOf(b) == b % 16
CodeOf(b) == b % 128
KeyLen(b) == IF b \div 128 = 0 THEN 0 ELSE 4
Extra(code) == IF code = 126 THEN 2 ELSE IF code = 127 THEN 8 ELSE 0

FirstByte(fin, opcode) == (IF fin THEN 128 ELSE 0) + opcode
SecondByte(key, code) == (IF key = <<>> THEN 0 ELSE 128) + code

Opcodes == 0 .. 15
Codes == 0 .. 127
MaskLen(key) == IF key = <<>> THEN 0 ELSE 4

SayThat(b1, b2, fin, opcode, code, key) ==
  /\ b1 \in Nat /\ b2 \in Nat
  /\ IsFin(b1) = fin /\ OpOf(b1) = opcode /\ CodeOf(b2) = code /\ KeyLen(b2) = MaskLen(key)

\* They say what the writer meant.
LEMMA TwoBytesSay ==
  ASSUME NEW fin \in BOOLEAN, NEW opcode \in Opcodes, NEW code \in Codes, NEW key
  PROVE  SayThat(FirstByte(fin, opcode), SecondByte(key, code), fin, opcode, code, key)
<1>0. opcode \in 0 .. 15 /\ code \in 0 .. 127
  BY DEF Opcodes, Codes
<1>1. /\ FirstByte(fin, opcode) \in Nat /\ OpOf(FirstByte(fin, opcode)) = opcode
      /\ (FirstByte(fin, opcode) \div 128 = 1) <=> fin
  BY <1>0 DEF FirstByte, OpOf
<1>2. IsFin(FirstByte(fin, opcode)) = fin
  BY <1>1, Zenon DEF IsFin
<1>3. CASE key = <<>>
  <2>1. SecondByte(key, code) = code /\ code \in Nat
    BY <1>0, <1>3 DEF SecondByte
  <2>2. code \div 128 = 0 /\ code % 128 = code
    BY <1>0
  <2>3. CodeOf(code) = code /\ KeyLen(code) = 0
    BY <2>2 DEF CodeOf, KeyLen
  <2>4. MaskLen(key) = 0
    BY <1>3, Zenon DEF MaskLen
  <2> QED
    BY <1>1, <1>2, <2>1, <2>3, <2>4, Zenon DEF SayThat
<1>4. CASE key # <<>>
  <2> DEFINE b == 128 + code
  <2>1. SecondByte(key, code) = b
    BY <1>4 DEF SecondByte
  <2>2. b \in Nat /\ b \div 128 # 0 /\ b % 128 = code
    BY <1>0
  <2> HIDE DEF b
  <2>3. CodeOf(b) = code /\ KeyLen(b) = 4
    BY <2>2 DEF CodeOf, KeyLen
  <2>4. MaskLen(key) = 4
    BY <1>4, Zenon DEF MaskLen
  <2> QED
    BY <1>1, <1>2, <2>1, <2>2, <2>3, <2>4, Zenon DEF SayThat
<1> QED
  BY <1>3, <1>4, Zenon

\* The rest of what has one more thing in front.
LEMMA TailIs ==
  ASSUME NEW S, NEW x \in S, NEW s \in Seq(S)
  PROVE  /\ <<x>> \o s \in Seq(S) /\ Len(<<x>> \o s) = 1 + Len(s) /\ (<<x>> \o s)[1] = x
         /\ Tail(<<x>> \o s) = s
OBVIOUS

\* The bytes of a length: one, and extra ones behind it.
IsLength(bytes, len, extra) ==
  /\ bytes \in Seq(Nat) /\ Len(bytes) = 1 + extra /\ extra \in {0, 2, 8}
  /\ bytes[1] \in Codes /\ Extra(bytes[1]) = extra
  /\ IF extra = 0 THEN bytes[1] = len ELSE Number256(Tail(bytes)) = len

\* How the length is written.
OneByteLength(len) == len < 126

\* The bytes of a length: itself, or a code and two or eight bytes behind it.
LEMMA LengthBytesAre ==
  ASSUME NEW len
  PROVE  /\ OneByteLength(len) => LengthBytes(len) = <<len>>
         /\ ~OneByteLength(len) /\ InTwoBytes(len) =>
              LengthBytes(len) = <<126, Byte(len, 1), Byte(len, 0)>>
         /\ ~OneByteLength(len) /\ ~InTwoBytes(len) =>
              LengthBytes(len) = <<127>> \o [i \in 1 .. 8 |-> Byte(len, 8 - i)]
BY DEF LengthBytes, OneByteLength, InTwoBytes

\* A length of up to eight bytes is written so that it can be read.
LEMMA LengthIsRead ==
  ASSUME NEW len \in Nat, len < Width64
  PROVE  \E extra : IsLength(LengthBytes(len), len, extra)
<1>0. \A i \in 0 .. 7 : Byte(len, i) \in Nat
  <2>1. PICK s : IsShifted(s, len) /\ \A i \in 0 .. 7 : Byte(len, i) = LowByte(s[i])
    BY BytesAre, Zenon
  <2>2. \A i \in 0 .. 7 : s[i] \in Nat
    BY <2>1 DEF IsShifted
  <2> QED
    BY <2>1, <2>2, ByteAbove, Zenon
<1>1. CASE OneByteLength(len)
  <2>1. LengthBytes(len) = <<len>>
    BY <1>1, LengthBytesAre, Zenon
  <2>2. Extra(len) = 0 /\ len \in Codes
    BY <1>1 DEF Codes, Extra, OneByteLength
  <2>3. <<len>> \in Seq(Nat) /\ Len(<<len>>) = 1 + 0 /\ <<len>>[1] = len /\ 0 \in {0, 2, 8}
    OBVIOUS
  <2>4. IsLength(<<len>>, len, 0)
    BY <2>2, <2>3, Zenon DEF IsLength
  <2> QED
    BY <2>1, <2>4, Zenon
<1>2. CASE ~OneByteLength(len) /\ InTwoBytes(len)
  <2> DEFINE t == <<Byte(len, 1), Byte(len, 0)>>
             b == <<126, Byte(len, 1), Byte(len, 0)>>
  <2>1. LengthBytes(len) = b
    BY <1>2, LengthBytesAre, Zenon
  <2>2. Number256(t) = len
    <3>1. InTwoBytes(len)
      BY <1>2, Zenon
    <3> QED
      BY <3>1, TwoBytesRead, Zenon
  <2>3. b \in Seq(Nat) /\ Len(b) = 1 + 2 /\ b[1] = 126 /\ Tail(b) = t
    BY <1>0
  <2>4. Extra(126) = 2 /\ 126 \in Codes /\ 2 # 0 /\ 2 \in {0, 2, 8}
    BY DEF Extra, Codes
  <2> HIDE DEF b, t
  <2>5. Tail(b) = t /\ Extra(b[1]) = 2 /\ b[1] \in Codes
    BY <2>3, <2>4
  <2>6. IsLength(b, len, 2)
    BY <2>2, <2>3, <2>4, <2>5, Zenon DEF IsLength
  <2> QED
    BY <2>1, <2>6, Zenon
<1>3. CASE ~OneByteLength(len) /\ ~InTwoBytes(len)
  <2> DEFINE t == [i \in 1 .. 8 |-> Byte(len, 8 - i)]
             c == 127
             b == <<c>> \o t
  <2>1. LengthBytes(len) = b
    BY <1>3, LengthBytesAre, Zenon
  <2>2. Number256(t) = len
    BY EightBytesRead, Zenon
  <2>3. t \in Seq(Nat) /\ Len(t) = 8
    <3>1. \A i \in 1 .. 8 : 8 - i \in 0 .. 7
      OBVIOUS
    <3>2. \A i \in 1 .. 8 : Byte(len, 8 - i) \in Nat
      BY <1>0, <3>1, Zenon
    <3> QED
      BY <3>2
  <2>4. Extra(c) = 8 /\ c \in Codes /\ 8 # 0 /\ 8 \in {0, 2, 8} /\ c \in Nat
    BY DEF Extra, Codes
  <2> HIDE DEF t, c
  <2>5. b \in Seq(Nat) /\ Len(b) = 1 + Len(t) /\ b[1] = c /\ Tail(b) = t
    BY <2>3, <2>4, TailIs, Zenon
  <2> HIDE DEF b
  <2>6. IsLength(b, len, 8)
    BY <2>2, <2>3, <2>4, <2>5, Zenon DEF IsLength
  <2> QED
    BY <2>1, <2>6, Zenon
<1> QED
  BY <1>1, <1>2, <1>3

IsMask(key) == key \in Seq(Nat) /\ (key # <<>> => Len(key) = 4)

\* The head of a frame with extra bytes for its length.
IsHead(head, opcode, len, fin, key, extra) ==
  /\ head \in Seq(Nat) /\ extra \in {0, 2, 8} /\ Len(head) = 2 + extra + MaskLen(key)
  /\ IsFin(head[1]) = fin /\ OpOf(head[1]) = opcode
  /\ KeyLen(head[2]) = MaskLen(key) /\ Extra(CodeOf(head[2])) = extra
  /\ IF extra = 0 THEN CodeOf(head[2]) = len ELSE Number256(SubSeq(head, 3, 2 + extra)) = len
  /\ SubSeq(head, 3 + extra, Len(head)) = key

\* sendFrame writes such a head.
LEMMA FrameHeadIs ==
  ASSUME NEW opcode \in Opcodes, NEW len \in Nat, len < Width64, NEW fin \in BOOLEAN,
         NEW key, IsMask(key)
  PROVE  \E extra : IsHead(FrameHead(opcode, len, fin, key), opcode, len, fin, key, extra)
<1> DEFINE length == LengthBytes(len)
           b1 == FirstByte(fin, opcode)
           b2 == SecondByte(key, length[1])
           two == <<b1, b2>>
           rest == Tail(length)
           front == two \o rest
           head == front \o key
<1>1. PICK extra : IsLength(length, len, extra)
  BY LengthIsRead, Zenon
<1> DEFINE n == 2 + extra
<1>2. FrameHead(opcode, len, fin, key) = head
  BY Zenon DEF FrameHead, FirstByte, SecondByte
<1>3. /\ length \in Seq(Nat) /\ Len(length) = 1 + extra /\ extra \in {0, 2, 8}
      /\ length[1] \in Codes /\ Extra(length[1]) = extra
      /\ IF extra = 0 THEN length[1] = len ELSE Number256(rest) = len
  BY <1>1, Zenon DEF IsLength
<1>4. /\ b1 \in Nat /\ b2 \in Nat /\ IsFin(b1) = fin /\ OpOf(b1) = opcode
      /\ CodeOf(b2) = length[1] /\ KeyLen(b2) = MaskLen(key)
  <2>1. SayThat(b1, b2, fin, opcode, length[1], key)
    BY <1>3, TwoBytesSay, Zenon
  <2> QED
    BY <2>1, Zenon DEF SayThat
<1>5. /\ key \in Seq(Nat) /\ Len(key) = MaskLen(key) /\ SubSeq(key, 1, Len(key)) = key
  <2>1. key = <<>> => Len(key) = 0
    OBVIOUS
  <2>2. key \in Seq(Nat) /\ Len(key) = MaskLen(key)
    BY <2>1, Zenon DEF IsMask, MaskLen
  <2> QED
    BY <2>2, SubSeqFull
<1> HIDE DEF length, b1, b2
<1>6. rest \in Seq(Nat) /\ Len(rest) = extra /\ extra \in Nat
  <2>1. extra \in Nat
    BY <1>3
  <2>2. length # <<>>
    BY <1>3, <2>1
  <2> QED
    BY <1>3, <2>1, <2>2
<1> HIDE DEF rest
<1>7. two \in Seq(Nat) /\ Len(two) = 2 /\ two[1] = b1 /\ two[2] = b2
  BY <1>4
<1> HIDE DEF two
<1>8. /\ front \in Seq(Nat) /\ Len(front) = n /\ n \in Nat /\ front[1] = b1 /\ front[2] = b2
      /\ SubSeq(front, 3, n) = rest
  <2>1. front \in Seq(Nat) /\ Len(front) = Len(two) + Len(rest)
        /\ \A i \in 1 .. Len(two) + Len(rest) :
             front[i] = IF i <= Len(two) THEN two[i] ELSE rest[i - Len(two)]
    BY <1>6, <1>7, Joined, Zenon
  <2>2. SubSeq(front, Len(two) + 1, Len(two) + Len(rest)) = rest
    BY <1>6, <1>7, BothParts, Zenon
  <2>3. 2 + 1 = 3 /\ n \in Nat /\ 1 \in 1 .. n /\ 2 \in 1 .. n /\ 1 <= 2 /\ 2 <= 2
    BY <1>6
  <2>4. Len(two) + Len(rest) = n
    BY <1>6, <1>7, Zenon
  <2> HIDE DEF front, n
  <2>5. SubSeq(front, 3, n) = rest
    BY <1>7, <2>2, <2>3, <2>4, Zenon
  <2> QED
    BY <1>7, <2>1, <2>3, <2>4, <2>5, Zenon
<1> HIDE DEF front, n
<1>9. /\ head \in Seq(Nat) /\ Len(head) = n + MaskLen(key) /\ head[1] = b1 /\ head[2] = b2
      /\ SubSeq(head, n + 1, Len(head)) = key /\ SubSeq(head, 3, n) = rest
  <2>1. head \in Seq(Nat) /\ Len(head) = Len(front) + Len(key)
    BY <1>5, <1>8, Joined, Zenon
  <2>2. SubSeq(head, Len(front) + 1, Len(front) + Len(key)) = key
    BY <1>5, <1>8, BothParts, Zenon
  <2>3. Same(head, front, Len(front))
    BY <1>5, <1>8, SameBegin, Zenon
  <2>4. 3 \in Nat /\ 1 <= 3 /\ n \in 0 .. n /\ 1 \in 1 .. n /\ 2 \in 1 .. n
    BY <1>6, <1>8 DEF n
  <2> HIDE DEF head
  <2>5. SubSeq(head, 3, n) = SubSeq(front, 3, n)
    <3>1. Same(head, front, n)
      BY <1>8, <2>3, Zenon
    <3> QED
      <4>1. front \in Seq(Nat) /\ n \in Nat
        BY <1>8, Zenon
      <4>2. SamePart(head, front, 3, n)
        BY <2>1, <2>4, <3>1, <4>1, SameParts, Zenon
      <4> QED
        BY <4>2, Zenon DEF SamePart
  <2>6. head[1] = b1 /\ head[2] = b2
    BY <1>8, <2>3, <2>4, Zenon DEF Same
  <2> QED
    BY <1>5, <1>8, <2>1, <2>2, <2>5, <2>6, Zenon
<1>10. 3 + extra = n + 1 /\ 2 + extra = n
  BY <1>6 DEF n
<1> HIDE DEF head
<1>11. IsHead(head, opcode, len, fin, key, extra)
  BY <1>3, <1>4, <1>9, <1>10, Zenon DEF IsHead
<1> QED
  BY <1>2, <1>11, Zenon

\* What ReadHead finds in some bytes with extra bytes for the length.
LEMMA ReadHeadIs ==
  ASSUME NEW bytes, NEW extra, extra = Extra(CodeOf(bytes[2])), NEW len,
         len = IF extra = 0 THEN CodeOf(bytes[2]) ELSE Number256(SubSeq(bytes, 3, 2 + extra))
  PROVE  ReadHead(bytes) =
           IF Len(bytes) < 2 \/ Len(bytes) < 2 + extra THEN TooShort
           ELSE IF len > MaxPayload THEN TooLarge
           ELSE IF Len(bytes) < 2 + extra + KeyLen(bytes[2]) THEN TooShort
           ELSE [kind |-> "head", fin |-> IsFin(bytes[1]), opcode |-> OpOf(bytes[1]), len |-> len,
                 key |-> SubSeq(bytes, 3 + extra, 2 + extra + KeyLen(bytes[2])),
                 next |-> 3 + extra + KeyLen(bytes[2])]
BY Zenon DEF ReadHead, Extra, CodeOf, KeyLen, IsFin, OpOf

\* What the reader makes of the beginning of a frame.
Seen(head, opcode, len, fin, key, n) ==
  IF n < Len(head) THEN {TooShort, TooLarge}
  ELSE IF len > MaxPayload THEN {TooLarge}
  ELSE {[kind |-> "head", fin |-> fin, opcode |-> opcode, len |-> len, key |-> key,
         next |-> Len(head) + 1]}

\* Of n bytes of a head the reader makes what it should, whatever stands behind them.
LEMMA BeginningIsRead ==
  ASSUME NEW head, NEW opcode, NEW len, NEW fin, NEW key, NEW extra,
         IsHead(head, opcode, len, fin, key, extra),
         NEW bytes \in Seq(Nat), Len(bytes) >= 2,
         NEW n \in 2 .. Len(head), Same(bytes, head, n), n = Len(head) \/ n = Len(bytes)
  PROVE  ReadHead(bytes) \in Seen(head, opcode, len, fin, key, n)
<1> DEFINE k == MaskLen(key)
           l == IF extra = 0 THEN CodeOf(bytes[2]) ELSE Number256(SubSeq(bytes, 3, 2 + extra))
<1>1. /\ head \in Seq(Nat) /\ extra \in {0, 2, 8} /\ Len(head) = 2 + extra + k
      /\ IsFin(head[1]) = fin /\ OpOf(head[1]) = opcode
      /\ KeyLen(head[2]) = k /\ Extra(CodeOf(head[2])) = extra
      /\ IF extra = 0 THEN CodeOf(head[2]) = len ELSE Number256(SubSeq(head, 3, 2 + extra)) = len
      /\ SubSeq(head, 3 + extra, Len(head)) = key
  BY Zenon DEF IsHead
<1>2. bytes[1] = head[1] /\ bytes[2] = head[2]
  BY DEF Same
<1>3. k \in {0, 4} /\ extra \in Nat
  BY <1>1 DEF MaskLen
<1>8. /\ k \in Nat /\ extra \in Nat /\ Len(head) = 2 + extra + k /\ Len(bytes) \in Nat
      /\ n \in 2 .. Len(head) /\ (n = Len(head) \/ n = Len(bytes))
  <2>1. k \in Nat /\ Len(bytes) \in Nat
    BY <1>3
  <2> QED
    BY <1>1, <1>3, <2>1, Zenon
<1>4. ReadHead(bytes) =
        IF Len(bytes) < 2 \/ Len(bytes) < 2 + extra THEN TooShort
        ELSE IF l > MaxPayload THEN TooLarge
        ELSE IF Len(bytes) < 2 + extra + k THEN TooShort
        ELSE [kind |-> "head", fin |-> fin, opcode |-> opcode, len |-> l,
              key |-> SubSeq(bytes, 3 + extra, 2 + extra + k), next |-> 3 + extra + k]
  <2>1. extra = Extra(CodeOf(bytes[2]))
    BY <1>1, <1>2, Zenon
  <2>2. ReadHead(bytes) =
          IF Len(bytes) < 2 \/ Len(bytes) < 2 + extra THEN TooShort
          ELSE IF l > MaxPayload THEN TooLarge
          ELSE IF Len(bytes) < 2 + extra + KeyLen(bytes[2]) THEN TooShort
          ELSE [kind |-> "head", fin |-> IsFin(bytes[1]), opcode |-> OpOf(bytes[1]), len |-> l,
                key |-> SubSeq(bytes, 3 + extra, 2 + extra + KeyLen(bytes[2])),
                next |-> 3 + extra + KeyLen(bytes[2])]
    BY <2>1, ReadHeadIs
  <2> HIDE DEF k, l
  <2> QED
    BY <1>1, <1>2, <2>2, Zenon
<1>5. n >= 2 + extra => l = len
  <2> SUFFICES ASSUME n >= 2 + extra, extra # 0 PROVE l = len
    BY <1>1, <1>2, Zenon
  <2>1. 3 \in Nat /\ 1 <= 3 /\ 2 + extra \in 0 .. n /\ n \in Nat
    BY <1>3
  <2>2. SubSeq(bytes, 3, 2 + extra) = SubSeq(head, 3, 2 + extra)
    <3>1. head \in Seq(Nat)
      BY <1>1, Zenon
    <3>2. SamePart(bytes, head, 3, 2 + extra)
      BY <2>1, <3>1, SameParts, Zenon
    <3> QED
      BY <3>2, Zenon DEF SamePart
  <2> QED
    BY <1>1, <2>2, Zenon
<1>6. CASE n < Len(head)
  <2>1. n = Len(bytes) /\ Len(bytes) < 2 + extra + k
    <3> HIDE DEF k, l
    <3> QED
      BY <1>6, <1>8
  <2> HIDE DEF k, l
  <2>2. ReadHead(bytes) \in {TooShort, TooLarge}
    BY <1>4, <2>1, Zenon
  <2> QED
    BY <1>6, <2>2, Zenon DEF Seen
<1>7. CASE ~(n < Len(head))
  <2>1. n = Len(head) /\ n \in Nat /\ n \in 0 .. n /\ n >= 2 + extra
    <3> HIDE DEF k, l
    <3> QED
      BY <1>7, <1>8
  <2>2. ~(Len(bytes) < 2) /\ ~(Len(bytes) < 2 + extra) /\ ~(Len(bytes) < 2 + extra + k)
    <3>1. n <= Len(bytes)
      BY Zenon DEF Same
    <3> QED
      <4> HIDE DEF k, l
      <4> QED
        BY <1>8, <2>1, <3>1
  <2>3. SubSeq(bytes, 3 + extra, n) = key
    <3>1. 3 + extra \in Nat /\ 1 <= 3 + extra
      BY <1>3
    <3>2. SubSeq(bytes, 3 + extra, n) = SubSeq(head, 3 + extra, n)
      <4>1. head \in Seq(Nat)
        BY <1>1, Zenon
      <4>2. SamePart(bytes, head, 3 + extra, n)
        BY <2>1, <3>1, <4>1, SameParts, Zenon
      <4> QED
        BY <4>2, Zenon DEF SamePart
    <3> QED
      BY <1>1, <2>1, <3>2, Zenon
  <2>4. 2 + extra + k = n /\ 3 + extra + k = Len(head) + 1
    <3> HIDE DEF k, l
    <3> QED
      BY <1>8, <2>1
  <2> DEFINE found == [kind |-> "head", fin |-> fin, opcode |-> opcode, len |-> len,
                       key |-> key, next |-> Len(head) + 1]
  <2>5. l = len
    BY <1>5, <2>1, Zenon
  <2> HIDE DEF k, l
  <2>6. ReadHead(bytes) = IF len > MaxPayload THEN TooLarge ELSE found
    BY <1>4, <2>2, <2>3, <2>4, <2>5, Zenon
  <2> QED
    BY <1>7, <2>6, Zenon DEF Seen
<1> QED
  BY <1>6, <1>7, Zenon

\* The reader takes head, with rest behind it, for what the writer meant, and never before
\* all of it has come.
Parsed(head, rest, opcode, len, fin, key) ==
  /\ IF len > MaxPayload THEN ReadHead(head \o rest) = TooLarge
     ELSE ReadHead(head \o rest) =
            [kind |-> "head", fin |-> fin, opcode |-> opcode, len |-> len, key |-> key,
             next |-> Len(head) + 1]
  /\ \A n \in 2 .. Len(head) - 1 : ReadHead(SubSeq(head, 1, n)).kind # "head"

\* The head of a frame is read, whatever follows it, when all of it has come and not before:
\* runReadLoop takes it for what sendFrame was called with, or for too large a payload.
THEOREM HeadIsParsed ==
  ASSUME NEW opcode \in Opcodes, NEW len \in Nat, len < Width64, NEW fin \in BOOLEAN,
         NEW key, IsMask(key), NEW rest \in Seq(Nat)
  PROVE  Parsed(FrameHead(opcode, len, fin, key), rest, opcode, len, fin, key)
<1> DEFINE head == FrameHead(opcode, len, fin, key)
<1>1. PICK extra : IsHead(head, opcode, len, fin, key, extra)
  BY FrameHeadIs, Zenon
<1>2. head \in Seq(Nat) /\ Len(head) \in Nat /\ Len(head) >= 2
  <2>1. /\ head \in Seq(Nat) /\ extra \in {0, 2, 8} /\ Len(head) = 2 + extra + MaskLen(key)
    BY <1>1, Zenon DEF IsHead
  <2>2. MaskLen(key) \in {0, 4}
    BY Zenon DEF MaskLen
  <2> DEFINE l == Len(head)
             k == MaskLen(key)
  <2>3. l = 2 + extra + k /\ extra \in {0, 2, 8} /\ k \in {0, 4}
    BY <2>1, <2>2, Zenon
  <2> HIDE DEF l, k
  <2>4. l \in Nat /\ l >= 2
    BY <2>3
  <2> QED
    BY <2>1, <2>4, Zenon DEF l
<1> HIDE DEF head
<1>3. ReadHead(head \o rest) \in Seen(head, opcode, len, fin, key, Len(head))
  <2>1. head \o rest \in Seq(Nat) /\ Len(head \o rest) >= 2
    BY <1>2
  <2>2. Same(head \o rest, head, Len(head))
    BY <1>2, SameBegin, Zenon
  <2>3. Len(head) \in 2 .. Len(head)
    BY <1>2
  <2> QED
    BY <1>1, <2>1, <2>2, <2>3, BeginningIsRead, Zenon
<1>4. /\ len > MaxPayload => ReadHead(head \o rest) = TooLarge
      /\ ~(len > MaxPayload) => ReadHead(head \o rest) =
           [kind |-> "head", fin |-> fin, opcode |-> opcode, len |-> len, key |-> key,
            next |-> Len(head) + 1]
  <2>1. ~(Len(head) < Len(head))
    BY <1>2
  <2> QED
    BY <1>3, <2>1, Zenon DEF Seen
<1>5. ASSUME NEW n \in 2 .. Len(head) - 1 PROVE ReadHead(SubSeq(head, 1, n)).kind # "head"
  <2>1. /\ n \in 2 .. Len(head) /\ n < Len(head) /\ n \in 0 .. Len(head)
        /\ SubSeq(head, 1, n) \in Seq(Nat) /\ Len(SubSeq(head, 1, n)) = n
        /\ Len(SubSeq(head, 1, n)) >= 2
    BY <1>2
  <2>2. Same(SubSeq(head, 1, n), head, n)
    BY <1>2, <2>1, SameBegin, Zenon
  <2>3. ReadHead(SubSeq(head, 1, n)) \in Seen(head, opcode, len, fin, key, n)
    BY <1>1, <2>1, <2>2, BeginningIsRead, Zenon
  <2>4. ReadHead(SubSeq(head, 1, n)) \in {TooShort, TooLarge}
    BY <2>1, <2>3, Zenon DEF Seen
  <2>5. TooShort.kind # "head" /\ TooLarge.kind # "head"
    BY DEF TooShort, TooLarge
  <2> QED
    BY <2>4, <2>5, Zenon
<1> QED
  BY <1>4, <1>5, Zenon DEF head, Parsed

(* ---------------------------------- masks ------------------------------ *)

\* The bit of v that counts w, and the bit that is different in a and b.
Bits == {0, 1}
BitOf(v, w) == (v \div w) % 2
Differ(a, b, w) == (a \div w + b \div w) % 2
EightBits(c1, c2, c4, c8, c16, c32, c64, c128) ==
  c1 * 1 + c2 * 2 + c4 * 4 + c8 * 8 + c16 * 16 + c32 * 32 + c64 * 64 + c128 * 128

\* The xor of two bytes is the sum of the bits in which they differ.
LEMMA XorIs ==
  ASSUME NEW a, NEW b
  PROVE  Xor(a, b) =
           EightBits(Differ(a, b, 1), Differ(a, b, 2), Differ(a, b, 4), Differ(a, b, 8),
                     Differ(a, b, 16), Differ(a, b, 32), Differ(a, b, 64), Differ(a, b, 128))
<1>1. /\ 2 ^ 0 = 1 /\ 2 ^ 1 = 2 /\ 2 ^ 2 = 4 /\ 2 ^ 3 = 8 /\ 2 ^ 4 = 16 /\ 2 ^ 5 = 32
      /\ 2 ^ 6 = 64 /\ 2 ^ 7 = 128
  BY Powers
<1> QED
  BY <1>1, Zenon DEF Xor, EightBits, Differ

HasBits(x, c1, c2, c4, c8, c16, c32, c64, c128) ==
  /\ x \in 0 .. 255
  /\ BitOf(x, 1) = c1 /\ BitOf(x, 2) = c2 /\ BitOf(x, 4) = c4 /\ BitOf(x, 8) = c8
  /\ BitOf(x, 16) = c16 /\ BitOf(x, 32) = c32 /\ BitOf(x, 64) = c64
  /\ BitOf(x, 128) = c128

\* The bits of a sum of bits.
LEMMA BitsOfSum ==
  ASSUME NEW c1 \in Bits, NEW c2 \in Bits, NEW c4 \in Bits, NEW c8 \in Bits,
         NEW c16 \in Bits, NEW c32 \in Bits, NEW c64 \in Bits, NEW c128 \in Bits, NEW x,
         x = EightBits(c1, c2, c4, c8, c16, c32, c64, c128)
  PROVE  HasBits(x, c1, c2, c4, c8, c16, c32, c64, c128)
<1> USE DEF Bits
<1>1. x = c1 + 2 * c2 + 4 * c4 + 8 * c8 + 16 * c16 + 32 * c32 + 64 * c64 + 128 * c128
  BY DEF EightBits
<1>2. x \in 0 .. 255
  BY <1>1
<1>3. x \div 1 = c1 + 2 * (c2 + 2 * (c4 + 2 * (c8 + 2 * (c16 + 2 * (c32 + 2 * (c64 + 2 * c128))))))
  BY <1>1
<1>4. x \div 2 = c2 + 2 * (c4 + 2 * (c8 + 2 * (c16 + 2 * (c32 + 2 * (c64 + 2 * c128)))))
  BY <1>1
<1>5. x \div 4 = c4 + 2 * (c8 + 2 * (c16 + 2 * (c32 + 2 * (c64 + 2 * c128))))
  BY <1>1
<1>6. x \div 8 = c8 + 2 * (c16 + 2 * (c32 + 2 * (c64 + 2 * c128)))
  BY <1>1
<1>7. x \div 16 = c16 + 2 * (c32 + 2 * (c64 + 2 * c128))
  BY <1>1
<1>8. x \div 32 = c32 + 2 * (c64 + 2 * c128)
  BY <1>1
<1>9. x \div 64 = c64 + 2 * c128
  BY <1>1
<1>10. x \div 128 = c128
  BY <1>1
<1>11. \A c \in {0, 1}, u \in Nat : (c + 2 * u) % 2 = c /\ c % 2 = c
  OBVIOUS
<1>12. BitOf(x, 1) = c1 /\ BitOf(x, 2) = c2
  BY <1>3, <1>4 DEF BitOf
<1>13. BitOf(x, 4) = c4 /\ BitOf(x, 8) = c8
  BY <1>5, <1>6 DEF BitOf
<1>14. BitOf(x, 16) = c16 /\ BitOf(x, 32) = c32
  BY <1>7, <1>8 DEF BitOf
<1>15. BitOf(x, 64) = c64 /\ BitOf(x, 128) = c128
  BY <1>9, <1>10 DEF BitOf
<1> QED
  BY <1>2, <1>12, <1>13, <1>14, <1>15 DEF HasBits

\* A byte is the sum of its bits.
LEMMA SumOfBits ==
  ASSUME NEW a \in 0 .. 255
  PROVE  a = EightBits(BitOf(a, 1), BitOf(a, 2), BitOf(a, 4), BitOf(a, 8), BitOf(a, 16),
                       BitOf(a, 32), BitOf(a, 64), BitOf(a, 128))
BY DEF EightBits, BitOf

\* A bit that is inverted twice is the same again.
LEMMA BitTwice ==
  ASSUME NEW a \in Nat, NEW b \in Nat, NEW x \in Nat, NEW w \in Nat \ {0},
         BitOf(x, w) = Differ(a, b, w)
  PROVE  Differ(x, b, w) = BitOf(a, w) /\ Differ(a, b, w) \in {0, 1}
<1> DEFINE u == a \div w
           v == b \div w
           y == x \div w
<1>1. u \in Nat /\ v \in Nat /\ y \in Nat
  OBVIOUS
<1>2. y % 2 = (u + v) % 2
  BY DEF BitOf, Differ
<1> HIDE DEF u, v, y
<1>3. (y + v) % 2 = u % 2 /\ (u + v) % 2 \in {0, 1}
  BY <1>1, <1>2
<1> QED
  BY <1>3 DEF u, v, y, BitOf, Differ

\* What is masked twice is unmasked.
LEMMA XorTwice ==
  ASSUME NEW a \in 0 .. 255, NEW b \in Nat
  PROVE  Xor(a, b) \in Nat /\ Xor(Xor(a, b), b) = a
<1> DEFINE x == Xor(a, b)
           D(w) == Differ(a, b, w)
<1>1. x = EightBits(D(1), D(2), D(4), D(8), D(16), D(32), D(64), D(128))
  BY XorIs, Zenon
<1>2. \A w \in Nat \ {0} : D(w) \in {0, 1}
  BY DEF Differ
<1>3. /\ D(1) \in {0, 1} /\ D(2) \in {0, 1} /\ D(4) \in {0, 1} /\ D(8) \in {0, 1}
      /\ D(16) \in {0, 1} /\ D(32) \in {0, 1} /\ D(64) \in {0, 1} /\ D(128) \in {0, 1}
  BY <1>2
<1> HIDE DEF x, D
<1>4. /\ x \in 0 .. 255
      /\ BitOf(x, 1) = D(1) /\ BitOf(x, 2) = D(2) /\ BitOf(x, 4) = D(4) /\ BitOf(x, 8) = D(8)
      /\ BitOf(x, 16) = D(16) /\ BitOf(x, 32) = D(32) /\ BitOf(x, 64) = D(64)
      /\ BitOf(x, 128) = D(128)
  <2> DEFINE d1 == D(1)
             d2 == D(2)
             d4 == D(4)
             d8 == D(8)
             d16 == D(16)
             d32 == D(32)
             d64 == D(64)
             d128 == D(128)
  <2>2. /\ x = EightBits(d1, d2, d4, d8, d16, d32, d64, d128)
        /\ d1 \in Bits /\ d2 \in Bits /\ d4 \in Bits /\ d8 \in Bits
        /\ d16 \in Bits /\ d32 \in Bits /\ d64 \in Bits /\ d128 \in Bits
    BY <1>1, <1>3 DEF Bits
  <2> HIDE DEF d1, d2, d4, d8, d16, d32, d64, d128
  <2>3. HasBits(x, d1, d2, d4, d8, d16, d32, d64, d128)
    BY <2>2, BitsOfSum, Zenon
  <2>1. HasBits(x, D(1), D(2), D(4), D(8), D(16), D(32), D(64), D(128))
    BY <2>3 DEF d1, d2, d4, d8, d16, d32, d64, d128
  <2> QED
    BY <2>1 DEF HasBits
<1>5. x \in Nat /\ a \in Nat
  BY <1>4
<1>6. ASSUME NEW w \in Nat \ {0}, BitOf(x, w) = D(w) PROVE Differ(x, b, w) = BitOf(a, w)
  BY <1>5, <1>6, BitTwice DEF D
<1>7. /\ Differ(x, b, 1) = BitOf(a, 1) /\ Differ(x, b, 2) = BitOf(a, 2)
      /\ Differ(x, b, 4) = BitOf(a, 4) /\ Differ(x, b, 8) = BitOf(a, 8)
      /\ Differ(x, b, 16) = BitOf(a, 16) /\ Differ(x, b, 32) = BitOf(a, 32)
      /\ Differ(x, b, 64) = BitOf(a, 64) /\ Differ(x, b, 128) = BitOf(a, 128)
  BY <1>4, <1>6
<1>8. Xor(x, b) = a
  BY <1>7, XorIs, SumOfBits, Zenon
<1> QED
  BY <1>5, <1>8, Zenon DEF x

IsBytes(s) == s \in Seq(Nat) /\ \A i \in 1 .. Len(s) : s[i] \in 0 .. 255

\* A mask that is put on twice is off.
LEMMA MaskTwice ==
  ASSUME NEW payload, IsBytes(payload), NEW key \in Seq(Nat), Len(key) = 4
  PROVE  /\ Masked(payload, key) \in Seq(Nat) /\ Len(Masked(payload, key)) = Len(payload)
         /\ Masked(Masked(payload, key), key) = payload
<1> DEFINE n == Len(payload)
           k(i) == key[((i - 1) % 4) + 1]
           m == Masked(payload, key)
<1>1. n \in Nat /\ DOMAIN payload = 1 .. n /\ payload \in Seq(Nat)
  BY DEF IsBytes
<1>2. ASSUME NEW i \in 1 .. n
      PROVE  Xor(payload[i], k(i)) \in Nat /\ Xor(Xor(payload[i], k(i)), k(i)) = payload[i]
  <2>1. ((i - 1) % 4) + 1 \in 1 .. 4
    BY <1>1
  <2> DEFINE j == ((i - 1) % 4) + 1
  <2>4. j \in 1 .. 4
    BY <2>1, Zenon
  <2> HIDE DEF j
  <2>2. k(i) \in Nat
    <3>1. key[j] \in Nat
      BY <2>4, ElementOfSeq
    <3> QED
      BY <3>1, Zenon DEF j
  <2>3. payload[i] \in 0 .. 255
    BY DEF IsBytes
  <2> HIDE DEF k
  <2> QED
    BY <2>2, <2>3, XorTwice
<1>3. m = [i \in 1 .. n |-> Xor(payload[i], k(i))]
  BY <1>1, Zenon DEF Masked
<1> HIDE DEF m, k, n
<1>4. DOMAIN m = 1 .. n /\ \A i \in 1 .. n : m[i] = Xor(payload[i], k(i))
  BY <1>3
<1>5. m \in Seq(Nat) /\ Len(m) = n
  BY <1>1, <1>2, <1>3
<1>6. Masked(m, key) = [i \in 1 .. n |-> Xor(m[i], k(i))]
  BY <1>4, Zenon DEF Masked, k
<1>7. \A i \in 1 .. n : Xor(m[i], k(i)) = payload[i]
  BY <1>2, <1>4, Zenon
<1>8. Masked(m, key) = [i \in 1 .. n |-> payload[i]]
  BY <1>6, <1>7
<1>9. payload = [i \in 1 .. n |-> payload[i]]
  BY <1>1 DEF n
<1> QED
  BY <1>5, <1>8, <1>9, Zenon DEF m, n

\* What sendFrame puts behind the head.
BodyOf(payload, key) == IF key = <<>> THEN payload ELSE Masked(payload, key)

\* The payload of a frame is read as it was sent, with a mask or without one, when it is not
\* too large for the reader: sendFrame and runReadLoop undo each other's xor.
THEOREM PayloadIsRead ==
  ASSUME NEW payload, IsBytes(payload), Len(payload) <= MaxPayload, Len(payload) < Width64,
         NEW key, IsMask(key)
  PROVE  ReadPayload(sendFrame(kOpBinary, payload, TRUE, key)) = payload
<1> DEFINE len == Len(payload)
           head == FrameHead(kOpBinary, len, TRUE, key)
           body == BodyOf(payload, key)
           bytes == head \o body
           read == ReadHead(bytes)
           raw == SubSeq(bytes, read.next, read.next + read.len - 1)
<1>1. sendFrame(kOpBinary, payload, TRUE, key) = bytes
  BY Zenon DEF sendFrame, BodyOf
<1>2. len \in Nat /\ ~(len > MaxPayload) /\ kOpBinary \in Opcodes /\ TRUE \in BOOLEAN
      /\ payload \in Seq(Nat)
  BY WsFramesAssumption DEF IsBytes, kOpBinary, Opcodes
<1>3. body \in Seq(Nat) /\ Len(body) = len
  BY <1>2, MaskTwice, Zenon DEF BodyOf, IsMask
<1>4. head \in Seq(Nat)
  <2>1. PICK extra : IsHead(head, kOpBinary, len, TRUE, key, extra)
    BY <1>2, FrameHeadIs, Zenon
  <2> QED
    BY <2>1, Zenon DEF IsHead
<1> HIDE DEF body
<1>5. read = [kind |-> "head", fin |-> TRUE, opcode |-> kOpBinary, len |-> len, key |-> key,
              next |-> Len(head) + 1]
  <2>1. Parsed(head, body, kOpBinary, len, TRUE, key)
    BY <1>2, <1>3, HeadIsParsed, Zenon
  <2> QED
    BY <1>2, <2>1, Zenon DEF Parsed
<1> HIDE DEF read, head
<1>6. read.next = Len(head) + 1 /\ read.len = len /\ read.key = key
  BY <1>5
<1>7. raw = body
  <2>1. SubSeq(bytes, Len(head) + 1, Len(head) + Len(body)) = body
    BY <1>3, <1>4, BothParts, Zenon
  <2>2. Len(head) + 1 + len - 1 = Len(head) + Len(body)
    BY <1>2, <1>3, <1>4
  <2> HIDE DEF bytes, len
  <2> QED
    BY <1>6, <2>1, <2>2, Zenon
<1>8. ReadPayload(bytes) = IF key = <<>> THEN raw ELSE Masked(raw, key)
  <2> HIDE DEF bytes
  <2> QED
    BY <1>6, Zenon DEF ReadPayload, read
<1>9. (IF key = <<>> THEN body ELSE Masked(body, key)) = payload
  BY MaskTwice, Zenon DEF body, BodyOf, IsMask
<1> HIDE DEF raw
<1> QED
  BY <1>1, <1>7, <1>8, <1>9, Zenon

\* The lengths asked about have fewer than eight bytes.
LEMMA WidthFits == 16777216 < Width64 /\ Width64 \in Nat
<1> DEFINE p3 == 256 * 256 * 256
           p4 == p3 * 256
           p5 == p4 * 256
           p6 == p5 * 256
           p7 == p6 * 256
<1>1. 16777216 <= p3 /\ p3 \in Nat
  BY SMT
<1> HIDE DEF p3
<1>2. p3 <= p4 /\ p4 \in Nat
  BY <1>1, SMT
<1> HIDE DEF p4
<1>3. p4 <= p5 /\ p5 \in Nat
  BY <1>2, SMT
<1> HIDE DEF p5
<1>4. p5 <= p6 /\ p6 \in Nat
  BY <1>3, SMT
<1> HIDE DEF p6
<1>5. p6 <= p7 /\ p7 \in Nat
  BY <1>4, SMT
<1> HIDE DEF p7
<1> DEFINE w == p7 * 256
<1>6. p7 < w /\ w \in Nat
  BY <1>1, <1>2, <1>3, <1>4, <1>5, SMT
<1>7. Width64 = w
  BY DEF Width64, p7, p6, p5, p4, p3
<1> HIDE DEF w
<1> QED
  BY <1>1, <1>2, <1>3, <1>4, <1>5, <1>6, <1>7, SMT

\* What a reader takes has at most eight bytes of length, and the payloads asked about are
\* within what it takes (64 MiB in the code).
PayloadFits == 5 <= MaxPayload /\ MaxPayload + 1 < Width64

\* Every question about heads is answered as it was meant.
LEMMA AsksHead ==
  ASSUME PayloadFits, [Next]_q, q' # q, q'.kind = "head"
  PROVE  LET head == FrameHead(q'.opcode, q'.len, q'.fin, q'.key)
             read == ReadHead(head \o <<1, 2, 3>>)
         IN /\ IF q'.len > MaxPayload THEN read = TooLarge
               ELSE read = [kind |-> "head", fin |-> q'.fin, opcode |-> q'.opcode,
                            len |-> q'.len, key |-> q'.key, next |-> Len(head) + 1]
            /\ \A n \in 2 .. Len(head) - 1 : ReadHead(SubSeq(head, 1, n)).kind # "head"
<1>1. AskHead
  BY WhoAsks, Zenon
<1>2. PICK opcode \in 0 .. 15, len \in Lengths \cup {MaxPayload, MaxPayload + 1},
           fin \in BOOLEAN, key \in {<<>>, Key} :
        q' = [kind |-> "head", opcode |-> opcode, len |-> len, fin |-> fin, key |-> key]
  BY <1>1, Zenon DEF AskHead, Ask
<1>3. q'.opcode = opcode /\ q'.len = len /\ q'.fin = fin /\ q'.key = key
  BY <1>2
<1>4. opcode \in Opcodes
  BY DEF Opcodes
<1>5. len \in Nat /\ len < Width64
  <2>1. CASE len \in Lengths
    <3>1. len \in Nat /\ len <= 16777216
      BY <2>1, SMT DEF Lengths
    <3>2. 16777216 < Width64 /\ Width64 \in Nat
      BY WidthFits
    <3> QED
      BY <3>1, <3>2, SMT
  <2>2. CASE len \in {MaxPayload, MaxPayload + 1}
    <3>1. Width64 \in Nat
      BY DEF Width64
    <3> QED
      BY <2>2, <3>1, WsFramesAssumption DEF PayloadFits
  <2> QED
    BY <2>1, <2>2, Zenon
<1>6. IsMask(key)
  <2>1. IsMask(<<>>)
    BY DEF IsMask
  <2>2. Key \in Seq(Nat) /\ Len(Key) = 4
    BY DEF Key
  <2> QED
    BY <2>1, <2>2 DEF IsMask
<1>7. <<1, 2, 3>> \in Seq(Nat)
  OBVIOUS
<1> DEFINE rest == <<1, 2, 3>>
<1>8. rest \in Seq(Nat)
  BY <1>7, Zenon
<1> HIDE DEF rest
<1>9. Parsed(FrameHead(opcode, len, fin, key), rest, opcode, len, fin, key)
  BY <1>4, <1>5, <1>6, <1>8, HeadIsParsed, Zenon
<1> QED
  BY <1>3, <1>9, Zenon DEF rest, Parsed

\* A bounded sequence is as long as its bound at most.
LEMMA BoundedLength ==
  ASSUME NEW S, NEW n \in Nat, NEW s \in BoundedSeq(S, n)
  PROVE  s \in Seq(S) /\ Len(s) \in 0 .. n
<1>1. BoundedSeq(S, n) = UNION {[1 .. m -> S] : m \in 0 .. n}
  BY Zenon DEF BoundedSeq, SeqOf
<1>2. PICK m \in 0 .. n : s \in [1 .. m -> S]
  BY <1>1, Zenon
<1>3. Len(s) = m
  BY <1>2
<1> QED
  BY <1>2, <1>3, BoundedIsSeq

\* So is every question about payloads.
LEMMA AsksPayload ==
  ASSUME PayloadFits, [Next]_q, q' # q, q'.kind = "payload"
  PROVE  ReadPayload(sendFrame(kOpBinary, q'.payload, TRUE, q'.key)) = q'.payload
<1>1. AskPayload
  BY WhoAsks, Zenon
<1>2. PICK payload \in BoundedSeq({0, 1, 129, 255}, 5), key \in {<<>>, Key} :
        q' = [kind |-> "payload", payload |-> payload, key |-> key]
  BY <1>1, Zenon DEF AskPayload, Ask
<1>3. q'.payload = payload /\ q'.key = key
  BY <1>2
<1> DEFINE S == {0, 1, 129, 255}
           n == 5
<1>4. /\ payload \in BoundedSeq(S, n) /\ n \in Nat /\ \A x \in S : x \in Nat /\ x \in 0 .. 255
  OBVIOUS
<1> HIDE DEF S
<1>9. payload \in Seq(S) /\ Len(payload) \in 0 .. n
  <2> HIDE DEF n
  <2> QED
    BY <1>4, BoundedLength
<1>5. IsBytes(payload)
  <2>1. payload \in Seq(Nat)
    BY <1>4, <1>9
  <2>2. \A i \in 1 .. Len(payload) : payload[i] \in S
    BY <1>9
  <2> QED
    BY <1>4, <2>1, <2>2, Zenon DEF IsBytes
<1>6. IsMask(key)
  <2>1. IsMask(<<>>)
    BY DEF IsMask
  <2>2. Key \in Seq(Nat) /\ Len(Key) = 4
    BY DEF Key
  <2> QED
    BY <2>1, <2>2 DEF IsMask
<1>7. Len(payload) <= MaxPayload /\ Len(payload) < Width64
  <2>1. Len(payload) \in Nat /\ Len(payload) <= 5
    <3>1. \A l \in 0 .. n : l \in Nat /\ l <= 5
      BY DEF n
    <3> QED
      BY <3>1, <1>9, Zenon
  <2> QED
    BY <2>1, WidthFits, WsFramesAssumption DEF PayloadFits
<1>8. ReadPayload(sendFrame(kOpBinary, payload, TRUE, key)) = payload
  BY <1>5, <1>6, <1>7, PayloadIsRead, Zenon
<1> QED
  BY <1>3, <1>8, Zenon

\* So is every question about messages that are cut into fragments.
LEMMA AsksMessage ==
  ASSUME [Next]_q, q' # q
  PROVE  FragmentsAddUp'
<1> SUFFICES ASSUME q'.kind = "message" PROVE AddsUp(sendBinary(q'.len), q'.len)
  BY Zenon DEF FragmentsAddUp, AddsUp
<1>1. AskMessage
  BY WhoAsks, Zenon
<1>2. PICK len \in 0 .. 4 * SendChunk + 1 : q' = [kind |-> "message", len |-> len]
  BY <1>1, Zenon DEF AskMessage, Ask
<1>3. q'.len = len
  BY <1>2
<1>4. len \in Nat
  BY WsFramesAssumption
<1>5. AddsUp(sendBinary(len), len)
  BY <1>4, FragmentsAreWhole, Zenon
<1> QED
  BY <1>3, <1>5, Zenon

\* So is every question about data frames.
LEMMA AsksFrame ==
  ASSUME [Next]_q, q' # q
  PROVE  FramesRoundTrip'
<1> SUFFICES ASSUME q'.kind = "frame" PROVE FramesRoundTrip'
  BY Zenon DEF FramesRoundTrip
<1>1. AskFrame
  BY WhoAsks, Zenon
<1>2. PICK sessionId \in SessionIds, payload \in BoundedSeq(0 .. Radix - 1, 2) :
        q' = [kind |-> "frame", sessionId |-> sessionId, payload |-> payload]
  BY <1>1, Zenon DEF AskFrame, Ask
<1>3. q'.sessionId = sessionId /\ q'.payload = payload
  BY <1>2
<1> DEFINE S == 0 .. Radix - 1
           n == 2
<1>4. payload \in BoundedSeq(S, n) /\ n \in Nat
  OBVIOUS
<1> HIDE DEF S, n
<1>5. payload \in Seq(S)
  BY <1>4, BoundedIsSeq
<1>6. LET frame == encodeDataFrame(sessionId, payload)
      IN /\ decodeDataFrame(frame) =
              [valid |-> TRUE, sessionId |-> sessionId, payload |-> payload]
         /\ \A k \in 0 .. kDataHeaderLen - 1 : ~decodeDataFrame(SubSeq(frame, 1, k)).valid
  BY <1>5, FrameIsRead
<1> QED
  BY <1>3, <1>6, Zenon DEF FramesRoundTrip

\* So is every question about strings.
LEMMA AsksString ==
  ASSUME [Next]_q, q' # q
  PROVE  StringsSurvive'
<1> SUFFICES ASSUME q'.kind = "string" PROVE StringsSurvive'
  BY Zenon DEF StringsSurvive
<1> DEFINE S == {"quote", "back", "line", "ctrl", "n", "u", "0"}
           m == 3
<1>1. AskString
  BY WhoAsks, Zenon
<1>2. PICK s \in BoundedSeq(S, m),
           rest \in {<<>>, <<"quote">>, <<"back">>, <<"u", "quote">>} :
        q' = [kind |-> "string", s |-> s, rest |-> rest]
  BY <1>1, Zenon DEF AskString, Ask
<1>3. q'.s = s /\ q'.rest = rest
  BY <1>2
<1>4. rest \in Seq(S) /\ m \in Nat
  <2>1. m \in Nat
    OBVIOUS
  <2>2. "quote" \in S /\ "back" \in S /\ "u" \in S
    BY Zenon
  <2> HIDE DEF S
  <2>3. <<>> \in Seq(S)
    OBVIOUS
  <2>4. \A x \in S : <<x>> \in Seq(S)
    OBVIOUS
  <2>5. \A x, y \in S : <<x, y>> \in Seq(S)
    OBVIOUS
  <2> QED
    BY <1>2, <2>1, <2>2, <2>3, <2>4, <2>5, Zenon
<1> HIDE DEF S, m
<1>5. s \in Seq(S)
  BY <1>4, BoundedIsSeq
<1>6. LET text == jsonEscape(s) \o <<"quote">> \o rest
      IN ScanString(text) = [ok |-> TRUE, out |-> s, next |-> Len(text) - Len(rest) + 1]
  BY <1>4, <1>5, StringIsRead
<1> QED
  BY <1>3, <1>6, Zenon DEF StringsSurvive

\* What holds of m, and of i when it holds of i + 1, holds of all numbers from a to m.
LEMMA DownFrom ==
  ASSUME NEW a \in Nat, NEW m \in Nat, NEW T, m \in T,
         \A i \in Nat : a <= i /\ i < m /\ i + 1 \in T => i \in T
  PROVE  \A i \in a .. m : i \in T
<1> DEFINE D == {d \in Nat : a <= m - d => m - d \in T}
<1>1. 0 \in D
  <2>1. m - 0 = m
    OBVIOUS
  <2> QED
    BY <2>1
<1>2. ASSUME NEW d \in Nat, d \in D PROVE d + 1 \in D
  <2> DEFINE i == m - (d + 1)
  <2>1. d + 1 \in Nat /\ i + 1 = m - d /\ (a <= i => i \in Nat /\ i < m /\ a <= m - d)
    OBVIOUS
  <2> HIDE DEF i
  <2>2. a <= i => i \in T
    BY <1>2, <2>1, Zenon
  <2> QED
    BY <2>1, <2>2, Zenon DEF i
<1>3. \A d \in Nat : d \in D
  <2> HIDE DEF D
  <2> QED
    BY <1>1, <1>2, AllNumbers
<1> SUFFICES ASSUME NEW i \in a .. m PROVE i \in T
  OBVIOUS
<1> DEFINE d == m - i
<1>4. d \in Nat /\ m - d = i /\ a <= i
  OBVIOUS
<1> HIDE DEF d
<1> QED
  BY <1>3, <1>4, Zenon

(* -------------------------------- objects ------------------------------ *)

\* What skipValue finds from place i on, given what it finds from the next one on.
SkipsAt(skip, text, i, depth) ==
  IF i > Len(text) THEN [ok |-> depth = 0, next |-> i]
  ELSE IF text[i] \in Closes /\ depth <= 1 THEN [ok |-> TRUE, next |-> i + 1]
  ELSE IF text[i] = Tok(",") /\ depth = 0 THEN [ok |-> TRUE, next |-> i]
  ELSE skip[i + 1][IF text[i] \in Opens THEN depth + 1
                   ELSE IF text[i] \in Closes THEN depth - 1 ELSE depth]

Skips(skip, text, i) == [depth \in Nat |-> SkipsAt(skip, text, i, depth)]

IsSkip(skip, text, from) == skip = [i \in from .. Len(text) + 1 |-> Skips(skip, text, i)]

\* What it finds from a place on does not depend on other places than the next one.
LEMMA SkipsAhead ==
  ASSUME NEW f, NEW g, NEW text, NEW i, i > Len(text) \/ f[i + 1] = g[i + 1]
  PROVE  Skips(f, text, i) = Skips(g, text, i)
<1>1. ASSUME NEW depth \in Nat PROVE SkipsAt(f, text, i, depth) = SkipsAt(g, text, i, depth)
  BY Zenon DEF SkipsAt
<1> DEFINE F(d) == SkipsAt(f, text, i, d)
           G(d) == SkipsAt(g, text, i, d)
<1>2. \A d \in Nat : F(d) = G(d)
  BY <1>1, Zenon
<1> HIDE DEF F, G
<1>3. [d \in Nat |-> F(d)] = [d \in Nat |-> G(d)]
  BY <1>2
<1> QED
  BY <1>3, Zenon DEF Skips, F, G

\* The function of skipValue exists.
LEMMA SkipExists ==
  ASSUME NEW text, Len(text) \in Nat, NEW from \in 1 .. Len(text) + 1
  PROVE  \E skip : IsSkip(skip, text, from)
<1> DEFINE l == Len(text)
           F(f, i) == Skips(f, text, i)
           Good(a) == \E f : f = [i \in a .. l + 1 |-> F(f, i)]
           T == {a \in Nat : Good(a)}
<1>1. Good(l + 1)
  <2> DEFINE f == [i \in l + 1 .. l + 1 |-> F(<<>>, i)]
  <2>1. ASSUME NEW i \in l + 1 .. l + 1 PROVE F(f, i) = F(<<>>, i)
    <3>1. i > l
      OBVIOUS
    <3> HIDE DEF f
    <3> QED
      BY <3>1, SkipsAhead
  <2> HIDE DEF F, l
  <2>2. f = [i \in l + 1 .. l + 1 |-> F(f, i)]
    BY <2>1
  <2> QED
    BY <2>2, Zenon
<1>2. ASSUME NEW b \in Nat, b < l + 1, Good(b + 1) PROVE Good(b)
  <2> DEFINE a == b + 1
  <2>0. a \in Nat /\ a <= l + 1
    BY <1>2
  <2>1. PICK f : f = [i \in a .. l + 1 |-> F(f, i)]
    BY <1>2, Zenon
  <2> DEFINE g == [i \in b .. l + 1 |-> F(f, i)]
  <2> HIDE DEF g
  <2>2. \A i \in a .. l + 1 : g[i] = f[i]
    <3>1. \A i \in a .. l + 1 : i \in b .. l + 1
      OBVIOUS
    <3> HIDE DEF F, l, a
    <3> QED
      BY <2>1, <3>1 DEF g
  <2>3. ASSUME NEW i \in b .. l + 1 PROVE F(g, i) = F(f, i)
    <3>1. ~(i > l) => i + 1 \in a .. l + 1
      BY <2>0
    <3>2. ~(i > l) => g[i + 1] = f[i + 1]
      BY <2>2, <3>1, Zenon
    <3> QED
      BY <3>2, SkipsAhead
  <2> HIDE DEF F, l
  <2>4. g = [i \in b .. l + 1 |-> F(g, i)]
    BY <2>3 DEF g
  <2> QED
    BY <2>4, Zenon
<1>3. \A a \in from .. l + 1 : a \in T
  <2>1. from \in Nat /\ l + 1 \in Nat
    OBVIOUS
  <2>2. l + 1 \in T
    BY <1>1, <2>1, Zenon
  <2>3. \A i \in Nat : from <= i /\ i < l + 1 /\ i + 1 \in T => i \in T
    BY <1>2, Zenon
  <2> DEFINE m == l + 1
  <2> HIDE DEF T, m
  <2>4. \A a \in from .. m : a \in T
    BY <2>1, <2>2, <2>3, DownFrom, Zenon DEF m
  <2> QED
    BY <2>4, Zenon DEF m
<1>4. Good(from)
  <2>1. from \in from .. l + 1
    OBVIOUS
  <2> QED
    BY <1>3, <2>1, Zenon
<1> QED
  BY <1>4, Zenon DEF IsSkip

\* skipValue gives out what such a function finds at depth 0.
LEMMA SkipValueIs ==
  ASSUME NEW text, Len(text) \in Nat, NEW from \in 1 .. Len(text) + 1
  PROVE  \E skip : IsSkip(skip, text, from) /\ skipValue(text, from) = skip[from][0]
<1> DEFINE skip == CHOOSE s : IsSkip(s, text, from)
<1>1. IsSkip(skip, text, from)
  BY SkipExists, Zenon
<1>2. skipValue(text, from) = skip[from][0]
  BY Zenon DEF skipValue, IsSkip, Skips, SkipsAt
<1> HIDE DEF skip
<1> QED
  BY <1>1, <1>2, Zenon

\* Its equation.
LEMMA SkipAt ==
  ASSUME NEW text, NEW from, NEW skip, IsSkip(skip, text, from),
         NEW i \in from .. Len(text) + 1, NEW depth \in Nat
  PROVE  skip[i][depth] = SkipsAt(skip, text, i, depth)
<1> DEFINE F(j) == Skips(skip, text, j)
           G(d) == SkipsAt(skip, text, i, d)
<1> HIDE DEF F
<1>1. skip = [j \in from .. Len(text) + 1 |-> F(j)]
  BY Zenon DEF IsSkip, F
<1>2. skip[i] = F(i)
  BY <1>1
<1> HIDE DEF G
<1>3. F(i) = [d \in Nat |-> G(d)]
  BY Zenon DEF F, G, Skips
<1>4. F(i)[depth] = G(depth)
  BY <1>3
<1> QED
  BY <1>2, <1>4, Zenon DEF G

\* The signs of punctuation are different ones, and no strings, numbers or words.
LEMMA TokensDiffer ==
  /\ Opens = {<<"{">>, <<"[">>} /\ Closes = {<<"}">>, <<"]">>}
  /\ <<",">> \notin Opens \cup Closes /\ Opens \cap Closes = {}
  /\ \A w, s : <<w, s>> \notin Opens \cup Closes \cup {<<",">>}
<1>1. Opens = {<<"{">>, <<"[">>} /\ Closes = {<<"}">>, <<"]">>}
  BY DEF Opens, Closes, Tok
<1>2. <<",">> \notin {<<"{">>, <<"[">>} \cup {<<"}">>, <<"]">>}
  OBVIOUS
<1>3. {<<"{">>, <<"[">>} \cap {<<"}">>, <<"]">>} = {}
  OBVIOUS
<1>4. \A w, s : <<w, s>> \notin {<<"{">>, <<"[">>} \cup {<<"}">>, <<"]">>} \cup {<<",">>}
  OBVIOUS
<1> QED
  BY <1>1, <1>2, <1>3, <1>4, Zenon

\* What skipValue does at place i, with d brackets open.
StepsAt(skip, text, i, d) ==
  /\ text[i] \in Opens => skip[i][d] = skip[i + 1][d + 1]
  /\ text[i] \in Closes /\ d > 1 => skip[i][d] = skip[i + 1][d - 1]
  /\ text[i] \in Closes /\ d <= 1 => skip[i][d] = [ok |-> TRUE, next |-> i + 1]
  /\ text[i] \notin Opens \cup Closes /\ (text[i] # <<",">> \/ d > 0) =>
       skip[i][d] = skip[i + 1][d]
  /\ text[i] = <<",">> /\ d = 0 => skip[i][d] = [ok |-> TRUE, next |-> i]

\* One step of skipValue.
LEMMA SkipSteps ==
  ASSUME NEW text, Len(text) \in Nat, NEW from \in Nat, NEW skip, IsSkip(skip, text, from),
         NEW i \in from .. Len(text), NEW d \in Nat
  PROVE  StepsAt(skip, text, i, d)
<1>1. skip[i][d] = SkipsAt(skip, text, i, d)
  <2>1. i \in from .. Len(text) + 1
    OBVIOUS
  <2> QED
    BY <2>1, SkipAt, Zenon
<1>2. ~(i > Len(text)) /\ (d > 1 => ~(d <= 1)) /\ (d > 0 => d # 0) /\ Tok(",") = <<",">>
  BY DEF Tok
<1>3. text[i] \in Opens => text[i] \notin Closes /\ text[i] # <<",">>
  BY TokensDiffer, Zenon
<1>4. <<",">> \notin Opens \cup Closes
  BY TokensDiffer, Zenon
<1>5. text[i] \in Opens => skip[i][d] = skip[i + 1][d + 1]
  BY <1>1, <1>2, <1>3, Zenon DEF SkipsAt
<1>6. text[i] \in Closes /\ d > 1 => skip[i][d] = skip[i + 1][d - 1]
  BY <1>1, <1>2, <1>3, <1>4, Zenon DEF SkipsAt
<1>7. text[i] \in Closes /\ d <= 1 => skip[i][d] = [ok |-> TRUE, next |-> i + 1]
  BY <1>1, <1>2, Zenon DEF SkipsAt
<1>8. text[i] \notin Opens \cup Closes /\ (text[i] # <<",">> \/ d > 0) =>
        skip[i][d] = skip[i + 1][d]
  BY <1>1, <1>2, Zenon DEF SkipsAt
<1>9. text[i] = <<",">> /\ d = 0 => skip[i][d] = [ok |-> TRUE, next |-> i]
  BY <1>1, <1>2, <1>4, Zenon DEF SkipsAt
<1> QED
  BY <1>5, <1>6, <1>7, <1>8, <1>9, Zenon DEF StepsAt

\* v stands in a text behind place a.
Stands(text, a, v) ==
  a + Len(v) <= Len(text) /\ \A j \in 1 .. Len(v) : text[a + j] = v[j]

\* Where skipValue goes on.
GoesOn(text, a, n) == skipValue(text, a + 1) = [ok |-> TRUE, next |-> a + n + 1]

IsComma(text, i) == text[i] = <<",">>

\* A word in front of a comma is skipped.
LEMMA WordSkipped ==
  ASSUME NEW text, Len(text) \in Nat, NEW a \in Nat, Stands(text, a, Word),
         a + 2 <= Len(text), IsComma(text, a + 2)
  PROVE  GoesOn(text, a, 1)
<1> DEFINE i == a + 1
           k == a + 2
<1>1. /\ i \in 1 .. Len(text) + 1 /\ i \in i .. Len(text) /\ k \in i .. Len(text)
      /\ i \in Nat /\ 0 \in Nat /\ i + 1 = k /\ ~(0 > 0)
  OBVIOUS
<1>2. PICK skip : IsSkip(skip, text, i) /\ skipValue(text, i) = skip[i][0]
  BY <1>1, SkipValueIs, Zenon
<1>3. text[i] = <<"word", "true">>
  <2>1. Len(Word) = 1 /\ Word[1] = <<"word", "true">>
    BY DEF Word
  <2>2. 1 \in 1 .. 1
    OBVIOUS
  <2> QED
    BY <2>1, <2>2, Zenon DEF Stands
<1>4. text[k] = <<",">>
  BY Zenon DEF IsComma
<1> HIDE DEF i, k
<1>5. text[i] \notin Opens \cup Closes /\ text[i] # <<",">>
  BY <1>3, TokensDiffer, Zenon
<1>6. StepsAt(skip, text, i, 0) /\ StepsAt(skip, text, k, 0)
  BY <1>1, <1>2, SkipSteps, Zenon
<1>7. skip[i][0] = skip[i + 1][0]
  BY <1>5, <1>6, Zenon DEF StepsAt
<1>8. skip[k][0] = [ok |-> TRUE, next |-> k]
  BY <1>4, <1>6, Zenon DEF StepsAt
<1>9. a + 1 + 1 = k
  BY DEF k
<1> QED
  BY <1>1, <1>2, <1>7, <1>8, <1>9, Zenon DEF GoesOn, i

\* The values that are skipped, token by token.
LEMMA TokensOfValues ==
  /\ Len(Inner) = 5 /\ Inner[1] = <<"{">> /\ Inner[2] = <<"str", "type">>
  /\ Inner[3] = <<":">> /\ Inner[4] = <<"str", "inner">> /\ Inner[5] = <<"}">>
  /\ Len(List) = 9 /\ List[1] = <<"[">> /\ List[2] = <<"str", "]">> /\ List[3] = <<",">>
  /\ \A j \in 1 .. 5 : List[3 + j] = Inner[j]
  /\ List[9] = <<"]">>
<1> DEFINE V == {<<"{">>, <<"str", "type">>, <<":">>, <<"str", "inner">>, <<"}">>, <<"[">>,
                 <<"str", "]">>, <<",">>, <<"]">>}
           x == <<<<"[">>, <<"str", "]">>, <<",">>>>
           z == <<<<"]">>>>
           n == Inner
<1>1. /\ Len(n) = 5 /\ n[1] = <<"{">> /\ n[2] = <<"str", "type">>
      /\ n[3] = <<":">> /\ n[4] = <<"str", "inner">> /\ n[5] = <<"}">>
  BY DEF Inner, Tok, Str
<1>2. n \in Seq(V)
  BY DEF Inner, Tok, Str
<1>3. x \in Seq(V) /\ Len(x) = 3
  OBVIOUS
<1>4. z \in Seq(V) /\ Len(z) = 1
  OBVIOUS
<1>5. x[1] = <<"[">> /\ x[2] = <<"str", "]">> /\ x[3] = <<",">> /\ z[1] = <<"]">>
  OBVIOUS
<1>6. List = (x \o n) \o z
  BY Zenon DEF List, Tok, Str
<1> HIDE DEF V, x, z, n
<1>7. /\ x \o n \in Seq(V) /\ Len(x \o n) = Len(x) + Len(n)
      /\ \A i \in 1 .. Len(x) + Len(n) : (x \o n)[i] = IF i <= Len(x) THEN x[i] ELSE n[i - Len(x)]
  BY <1>2, <1>3, Joined, Zenon
<1> DEFINE h == x \o n
<1>8. /\ h \in Seq(V) /\ Len(h) = 8 /\ h[1] = x[1] /\ h[2] = x[2] /\ h[3] = x[3]
      /\ \A j \in 1 .. 5 : h[3 + j] = n[j]
  <2>1. Len(x) = 3 /\ Len(n) = 5
    BY <1>1, <1>3, Zenon
  <2>2. /\ Len(h) = 3 + 5
        /\ \A i \in 1 .. 3 + 5 : h[i] = IF i <= 3 THEN x[i] ELSE n[i - 3]
    BY <1>7, <2>1, Zenon
  <2> HIDE DEF h
  <2>3. Len(h) = 8 /\ h[1] = x[1] /\ h[2] = x[2] /\ h[3] = x[3]
    BY <2>2
  <2>4. ASSUME NEW j \in 1 .. 5 PROVE h[3 + j] = n[j]
    <3>1. 3 + j \in 1 .. 3 + 5 /\ ~(3 + j <= 3) /\ (3 + j) - 3 = j
      OBVIOUS
    <3> QED
      BY <2>2, <3>1, Zenon
  <2>5. h \in Seq(V)
    BY <1>7, Zenon DEF h
  <2> QED
    BY <2>3, <2>4, <2>5, Zenon
<1> HIDE DEF h
<1>9. /\ Len(h \o z) = Len(h) + Len(z)
      /\ \A i \in 1 .. Len(h) + Len(z) : (h \o z)[i] = IF i <= Len(h) THEN h[i] ELSE z[i - Len(h)]
  BY <1>4, <1>8, Joined, Zenon
<1>10. /\ Len(h \o z) = 8 + 1
       /\ \A i \in 1 .. 8 + 1 : (h \o z)[i] = IF i <= 8 THEN h[i] ELSE z[i - 8]
  BY <1>4, <1>8, <1>9, Zenon
<1> DEFINE y == h \o z
<1>11. y = List
  BY <1>6, Zenon DEF h
<1> HIDE DEF y
<1>12. Len(y) = 8 + 1 /\ \A i \in 1 .. 8 + 1 : y[i] = IF i <= 8 THEN h[i] ELSE z[i - 8]
  BY <1>10, Zenon DEF y
<1>13. Len(y) = 9 /\ y[9] = z[1] /\ \A i \in 1 .. 8 : y[i] = h[i]
  BY <1>12
<1>14. 1 \in 1 .. 8 /\ 2 \in 1 .. 8 /\ 3 \in 1 .. 8 /\ \A j \in 1 .. 5 : 3 + j \in 1 .. 8
  OBVIOUS
<1>15. y[1] = h[1] /\ y[2] = h[2] /\ y[3] = h[3] /\ \A j \in 1 .. 5 : y[3 + j] = h[3 + j]
  BY <1>13, <1>14, Zenon
<1> QED
  BY <1>1, <1>5, <1>8, <1>11, <1>13, <1>15, Zenon DEF n

\* What follows in brackets is skipped up to the bracket that closes them.
LEMMA BracketsSkipped ==
  ASSUME NEW text, Len(text) \in Nat, NEW a \in Nat, NEW v \in {List, Inner}, Stands(text, a, v)
  PROVE  GoesOn(text, a, Len(v))
<1>1. a + 1 \in 1 .. Len(text) + 1
  <2>1. Len(v) = 9 \/ Len(v) = 5
    BY TokensOfValues, Zenon
  <2>2. a + Len(v) <= Len(text)
    BY Zenon DEF Stands
  <2> QED
    BY <2>1, <2>2
<1>2. PICK skip : IsSkip(skip, text, a + 1) /\ skipValue(text, a + 1) = skip[a + 1][0]
  BY <1>1, SkipValueIs, Zenon
<1>3. ASSUME NEW i \in a + 1 .. Len(text), NEW d \in Nat
      PROVE  StepsAt(skip, text, i, d)
  <2>1. a + 1 \in Nat
    OBVIOUS
  <2> QED
    BY <1>2, <2>1, SkipSteps, Zenon
<1>4. /\ <<"{">> \in Opens /\ <<"[">> \in Opens /\ <<"}">> \in Closes /\ <<"]">> \in Closes
      /\ <<",">> \notin Opens \cup Closes /\ \A w, s : <<w, s>> \notin Opens \cup Closes
  BY TokensDiffer, Zenon
<1>5. <<":">> \notin Opens \cup Closes
  BY TokensDiffer
\* An object behind place b, the brackets around it being d ones.
<1>6. ASSUME NEW b \in Nat, a <= b, b + 5 <= Len(text), NEW d \in Nat,
             \A j \in 1 .. 5 : text[b + j] = Inner[j]
      PROVE  skip[b + 1][d] = skip[b + 5][d + 1] /\ text[b + 5] \in Closes
  <2>1. /\ text[b + 1] = <<"{">> /\ text[b + 2] = <<"str", "type">> /\ text[b + 3] = <<":">>
        /\ text[b + 4] = <<"str", "inner">> /\ text[b + 5] = <<"}">>
    <3>2. 1 \in 1 .. 5 /\ 2 \in 1 .. 5 /\ 3 \in 1 .. 5 /\ 4 \in 1 .. 5 /\ 5 \in 1 .. 5
      OBVIOUS
    <3> QED
      BY <1>6, <3>2, TokensOfValues, Zenon
  <2>2. /\ b + 1 \in a + 1 .. Len(text) /\ b + 2 \in a + 1 .. Len(text)
        /\ b + 3 \in a + 1 .. Len(text) /\ b + 4 \in a + 1 .. Len(text)
    <3>1. a <= b /\ b + 5 <= Len(text)
      BY <1>6, Zenon
    <3> QED
      BY <3>1
  <2>3. /\ b + 1 + 1 = b + 2 /\ b + 2 + 1 = b + 3 /\ b + 3 + 1 = b + 4 /\ b + 4 + 1 = b + 5
        /\ d + 1 \in Nat /\ d + 1 > 0
    OBVIOUS
  <2>4. skip[b + 1][d] = skip[b + 2][d + 1]
    <3>1. text[b + 1] \in Opens
      BY <1>4, <2>1, Zenon
    <3>2. StepsAt(skip, text, b + 1, d)
      BY <1>3, <2>2, <2>3, Zenon
    <3> QED
      BY <2>3, <3>1, <3>2, Zenon DEF StepsAt
  <2>5. skip[b + 2][d + 1] = skip[b + 3][d + 1]
    <3>1. text[b + 2] \notin Opens \cup Closes
      BY <1>4, <2>1, Zenon
    <3>2. StepsAt(skip, text, b + 2, d + 1)
      BY <1>3, <2>2, <2>3, Zenon
    <3> QED
      BY <2>3, <3>1, <3>2, Zenon DEF StepsAt
  <2>6. skip[b + 3][d + 1] = skip[b + 4][d + 1]
    <3>1. text[b + 3] \notin Opens \cup Closes
      BY <1>5, <2>1, Zenon
    <3>2. StepsAt(skip, text, b + 3, d + 1)
      BY <1>3, <2>2, <2>3, Zenon
    <3> QED
      BY <2>3, <3>1, <3>2, Zenon DEF StepsAt
  <2>7. skip[b + 4][d + 1] = skip[b + 5][d + 1]
    <3>1. text[b + 4] \notin Opens \cup Closes
      BY <1>4, <2>1, Zenon
    <3>2. StepsAt(skip, text, b + 4, d + 1)
      BY <1>3, <2>2, <2>3, Zenon
    <3> QED
      BY <2>3, <3>1, <3>2, Zenon DEF StepsAt
  <2> QED
    BY <1>4, <2>1, <2>4, <2>5, <2>6, <2>7, Zenon
<1>7. CASE v = Inner
  <2>1. Len(Inner) = 5
    BY TokensOfValues, Zenon
  <2>2. a <= a /\ a + 5 <= Len(text) /\ \A j \in 1 .. 5 : text[a + j] = Inner[j]
    <3>1. a <= a
      OBVIOUS
    <3> QED
      BY <1>7, <2>1, <3>1, Zenon DEF Stands
  <2>4. 0 \in Nat /\ 0 + 1 = 1 /\ 1 <= 1 /\ 1 \in Nat /\ a + 5 \in a + 1 .. Len(text)
    <3>1. a + 5 <= Len(text)
      BY <2>2, Zenon
    <3> QED
      BY <3>1
  <2>3. skip[a + 1][0] = skip[a + 5][0 + 1] /\ text[a + 5] \in Closes
    BY <1>6, <2>2, <2>4, Zenon
  <2>5. skip[a + 5][1] = [ok |-> TRUE, next |-> a + 5 + 1]
    BY <1>3, <2>3, <2>4, Zenon DEF StepsAt
  <2> QED
    BY <1>2, <1>7, <2>1, <2>3, <2>4, <2>5, Zenon DEF GoesOn
<1>8. CASE v = List
  <2>1. /\ Len(List) = 9 /\ List[1] = <<"[">> /\ List[2] = <<"str", "]">> /\ List[3] = <<",">>
        /\ List[9] = <<"]">>
    BY TokensOfValues, Zenon
  <2>2. \A j \in 1 .. 5 : List[3 + j] = Inner[j]
    BY TokensOfValues, Zenon
  <2>3. a + 9 <= Len(text) /\ \A j \in 1 .. 9 : text[a + j] = List[j]
    BY <1>8, <2>1, Zenon DEF Stands
  <2> DEFINE b == a + 3
  <2>4. b \in Nat /\ a <= b /\ b + 5 <= Len(text) /\ \A j \in 1 .. 5 : text[b + j] = Inner[j]
    <3>1. \A j \in 1 .. 5 : a + 3 + j = a + (3 + j) /\ 3 + j \in 1 .. 9
      OBVIOUS
    <3>2. b \in Nat /\ a <= b /\ b + 5 <= Len(text)
      <4>1. a + 9 <= Len(text)
        BY <2>3, Zenon
      <4> QED
        BY <4>1
    <3>3. \A j \in 1 .. 5 : text[a + (3 + j)] = List[3 + j]
      BY <2>3, <3>1, Zenon
    <3> QED
      BY <2>2, <3>1, <3>2, <3>3, Zenon
  <2>5. skip[b + 1][1] = skip[b + 5][1 + 1] /\ text[b + 5] \in Closes
    <3>1. 1 \in Nat
      OBVIOUS
    <3> QED
      BY <1>6, <2>4, <3>1, Zenon
  <2>6. /\ text[a + 1] = <<"[">> /\ text[a + 2] = <<"str", "]">> /\ text[a + 3] = <<",">>
        /\ text[a + 9] = <<"]">>
    <3>1. 1 \in 1 .. 9 /\ 2 \in 1 .. 9 /\ 3 \in 1 .. 9 /\ 9 \in 1 .. 9
      OBVIOUS
    <3> QED
      BY <2>1, <2>3, <3>1, Zenon
  <2>7. /\ a + 1 \in a + 1 .. Len(text) /\ a + 2 \in a + 1 .. Len(text)
        /\ a + 3 \in a + 1 .. Len(text) /\ a + 8 \in a + 1 .. Len(text)
        /\ a + 9 \in a + 1 .. Len(text)
    <3>1. a + 9 <= Len(text)
      BY <2>3, Zenon
    <3> QED
      BY <3>1
  <2>8. /\ a + 1 + 1 = a + 2 /\ a + 2 + 1 = a + 3 /\ a + 3 + 1 = b + 1 /\ b + 5 = a + 8
        /\ a + 8 + 1 = a + 9 /\ 0 + 1 = 1 /\ 1 + 1 = 2 /\ 2 - 1 = 1 /\ 1 <= 1 /\ 2 > 1 /\ 1 > 0
        /\ 0 \in Nat /\ 1 \in Nat /\ 2 \in Nat
    OBVIOUS
  <2>9. skip[a + 1][0] = skip[a + 2][1]
    <3>1. StepsAt(skip, text, a + 1, 0)
      BY <1>3, <2>7, <2>8, Zenon
    <3> QED
      BY <1>4, <2>6, <2>8, <3>1, Zenon DEF StepsAt
  <2>10. skip[a + 2][1] = skip[a + 3][1]
    <3>1. StepsAt(skip, text, a + 2, 1)
      BY <1>3, <2>7, <2>8, Zenon
    <3> QED
      BY <1>4, <2>6, <2>8, <3>1, Zenon DEF StepsAt
  <2>11. skip[a + 3][1] = skip[b + 1][1]
    <3>1. StepsAt(skip, text, a + 3, 1)
      BY <1>3, <2>7, <2>8, Zenon
    <3> QED
      BY <1>4, <2>6, <2>8, <3>1, Zenon DEF StepsAt
  <2>12. skip[a + 8][2] = skip[a + 9][1]
    <3>1. StepsAt(skip, text, a + 8, 2)
      BY <1>3, <2>7, <2>8, Zenon
    <3> QED
      BY <2>5, <2>8, <3>1, Zenon DEF StepsAt
  <2>13. skip[a + 9][1] = [ok |-> TRUE, next |-> a + 9 + 1]
    <3>1. StepsAt(skip, text, a + 9, 1)
      BY <1>3, <2>7, <2>8, Zenon
    <3> QED
      BY <1>4, <2>6, <2>8, <3>1, Zenon DEF StepsAt
  <2> QED
    BY <1>2, <1>8, <2>1, <2>5, <2>8, <2>9, <2>10, <2>11, <2>12, <2>13, Zenon DEF GoesOn
<1> QED
  BY <1>7, <1>8

\* What skipValue finds lies ahead.
LEMMA SkipsForward ==
  ASSUME NEW text, Len(text) \in Nat, NEW from \in 1 .. Len(text) + 1, skipValue(text, from).ok
  PROVE  skipValue(text, from).next \in from .. Len(text) + 1
<1> DEFINE l == Len(text)
<1>1. PICK skip : IsSkip(skip, text, from) /\ skipValue(text, from) = skip[from][0]
  BY SkipValueIs, Zenon
<1>0. ASSUME NEW i \in from .. Len(text) + 1, NEW d \in Nat
      PROVE  skip[i][d] = SkipsAt(skip, text, i, d)
  <2>1. IsSkip(skip, text, from)
    BY <1>1, Zenon
  <2> QED
    BY <2>1, SkipAt, Zenon
<1> DEFINE Forward(j) == \A d \in Nat : skip[j][d].ok => skip[j][d].next \in j .. l + 1
           T == {j \in Nat : Forward(j)}
<1>2. ASSUME NEW d \in Nat PROVE skip[l + 1][d].next \in l + 1 .. l + 1
  <2>1. l + 1 \in from .. Len(text) + 1 /\ l + 1 > Len(text)
    OBVIOUS
  <2> DEFINE m == l + 1
  <2> HIDE DEF l, m
  <2>2. skip[m][d] = SkipsAt(skip, text, m, d)
    BY <1>0, <2>1, Zenon DEF m
  <2>3. SkipsAt(skip, text, m, d) = [ok |-> d = 0, next |-> m]
    BY <2>1, Zenon DEF SkipsAt, m
  <2>4. skip[m][d].next = m
    BY <2>2, <2>3
  <2>5. m \in Nat
    BY DEF m, l
  <2>6. m \in m .. m
    BY <2>5
  <2> QED
    BY <2>4, <2>6, Zenon DEF m
<1>3. l + 1 \in T
  <2>1. l + 1 \in Nat
    OBVIOUS
  <2> QED
    BY <1>2, <2>1, Zenon
<1>4. ASSUME NEW j \in Nat, from <= j, j < l + 1, j + 1 \in T PROVE j \in T
  <2> SUFFICES ASSUME NEW d \in Nat, skip[j][d].ok PROVE skip[j][d].next \in j .. l + 1
    BY Zenon
  <2>1. /\ j \in from .. Len(text) /\ j \in from .. Len(text) + 1 /\ ~(j > Len(text))
        /\ j + 1 \in j .. l + 1 /\ j \in j .. l + 1 /\ \A i \in j + 1 .. l + 1 : i \in j .. l + 1
    BY <1>4
  <2>2. skip[j][d] = SkipsAt(skip, text, j, d)
    BY <1>0, <2>1, Zenon
  <2> DEFINE e == IF text[j] \in Opens THEN d + 1 ELSE IF text[j] \in Closes THEN d - 1 ELSE d
  <2>3. \/ skip[j][d] = [ok |-> TRUE, next |-> j + 1]
        \/ skip[j][d] = [ok |-> TRUE, next |-> j]
        \/ skip[j][d] = skip[j + 1][e] /\ (text[j] \in Closes => ~(d <= 1))
    BY <2>1, <2>2, Zenon DEF SkipsAt
  <2>4. CASE skip[j][d] = [ok |-> TRUE, next |-> j + 1]
    <3>1. skip[j][d].next = j + 1
      BY <2>4
    <3> QED
      BY <2>1, <3>1, Zenon
  <2>5. CASE skip[j][d] = [ok |-> TRUE, next |-> j]
    <3>1. skip[j][d].next = j
      BY <2>5
    <3> QED
      BY <2>1, <3>1, Zenon
  <2>6. CASE skip[j][d] = skip[j + 1][e] /\ (text[j] \in Closes => ~(d <= 1))
    <3>1. d + 1 \in Nat /\ (~(d <= 1) => d - 1 \in Nat)
      OBVIOUS
    <3>2. e \in Nat
      BY <2>6, <3>1, TokensDiffer, Zenon
    <3> HIDE DEF e
    <3> QED
      BY <1>4, <2>1, <2>6, <3>2, Zenon
  <2> QED
    BY <2>3, <2>4, <2>5, <2>6, Zenon
<1>5. \A j \in from .. l + 1 : j \in T
  <2>1. from \in Nat /\ l + 1 \in Nat
    OBVIOUS
  <2>2. \A j \in Nat : from <= j /\ j < l + 1 /\ j + 1 \in T => j \in T
    BY <1>4, Zenon
  <2> DEFINE m == l + 1
  <2>3. m \in T
    BY <1>3, Zenon
  <2> HIDE DEF T, m
  <2>4. \A j \in from .. m : j \in T
    BY <2>1, <2>2, <2>3, DownFrom, Zenon DEF m
  <2> QED
    BY <2>4, Zenon DEF m
<1>6. from \in from .. l + 1 /\ 0 \in Nat
  OBVIOUS
<1>7. skip[from][0].ok => skip[from][0].next \in from .. l + 1
  BY <1>5, <1>6, Zenon
<1> QED
  BY <1>1, <1>7, Zenon

\* The parts of the entry whose key is at place i.
AtomAt(text, i) == At(text, i + 2)[1] \in {"str", "num"}
NextAt(text, i) == IF AtomAt(text, i) THEN i + 3 ELSE skipValue(text, i + 2).next
ValueAt(text, i) == IF AtomAt(text, i) THEN text[i + 2] ELSE Skipped
LacksKey(text, i) == ~IsStr(At(text, i)) \/ At(text, i + 1) # Tok(":")
LacksValue(text, i) == ~AtomAt(text, i) /\ ~skipValue(text, i + 2).ok
CommaAt(text, i) == At(text, i) = Tok(",")
WithField(fields, key, value) ==
  [k \in DOMAIN fields \cup {key} |-> IF k \in DOMAIN fields THEN fields[k] ELSE value]

\* The entry is in order and another one follows it.
Continues(text, i) == ~LacksKey(text, i) /\ ~LacksValue(text, i) /\ CommaAt(text, NextAt(text, i))

\* What parseObject finds from that place on.
EntryAt(entry, text, i) ==
  IF LacksKey(text, i) THEN NotRead
  ELSE IF LacksValue(text, i) THEN NotRead
  ELSE IF At(text, NextAt(text, i)) = Tok("}")
  THEN [ok |-> TRUE, fields |-> WithField(NoFields, At(text, i)[2], ValueAt(text, i))]
  ELSE IF CommaAt(text, NextAt(text, i)) /\ entry[NextAt(text, i) + 1].ok
  THEN [ok |-> TRUE,
        fields |-> WithField(entry[NextAt(text, i) + 1].fields, At(text, i)[2], ValueAt(text, i))]
  ELSE NotRead

IsEntries(entry, text) == entry = [i \in 1 .. Len(text) + 1 |-> EntryAt(entry, text, i)]

\* What follows a comma lies ahead.
LEMMA EntriesForward ==
  ASSUME NEW text, Len(text) \in Nat, NEW i \in 1 .. Len(text) + 1, Continues(text, i)
  PROVE  NextAt(text, i) + 1 \in i + 1 .. Len(text) + 1
<1> DEFINE l == Len(text)
           n == NextAt(text, i)
<1>1. Tok("end") # Tok(":") /\ Tok("end") # Tok(",")
  BY DEF Tok
<1>2. i + 1 <= l /\ n <= l
  BY <1>1, Zenon DEF Continues, LacksKey, CommaAt, At
<1>3. n = i + 3 \/ (n = skipValue(text, i + 2).next /\ skipValue(text, i + 2).ok)
  BY Zenon DEF Continues, LacksValue, NextAt
<1> HIDE DEF n
<1>4. i + 2 \in 1 .. Len(text) + 1
  BY <1>2
<1>5. n = i + 3 \/ n \in i + 2 .. l + 1
  BY <1>3, <1>4, SkipsForward, Zenon
<1> HIDE DEF l
<1>6. l \in Nat /\ i \in Nat
  BY DEF l
<1>7. n + 1 \in i + 1 .. l + 1
  BY <1>2, <1>5, <1>6
<1> QED
  BY <1>7, Zenon DEF l, n

\* f and g are the same behind the comma.
Alike(f, g, text, i) ==
  ~Continues(text, i) \/ f[NextAt(text, i) + 1] = g[NextAt(text, i) + 1]

SameEntry(f, g, text, i) == EntryAt(f, text, i) = EntryAt(g, text, i)

\* What parseObject finds depends on what it finds behind the comma only.
LEMMA EntriesAhead ==
  ASSUME NEW f, NEW g, NEW text, NEW i, Alike(f, g, text, i)
  PROVE  SameEntry(f, g, text, i)
BY Zenon DEF EntryAt, Continues, Alike, SameEntry

\* The function of parseObject exists.
LEMMA EntriesExist ==
  ASSUME NEW text, Len(text) \in Nat
  PROVE  \E entry : IsEntries(entry, text)
<1> DEFINE l == Len(text)
           m == l + 1
           F(f, i) == EntryAt(f, text, i)
           Good(a) == \E f : f = [i \in a .. m |-> F(f, i)]
           T == {a \in Nat : Good(a)}
<1>1. ASSUME NEW b \in Nat, 1 <= b, b <= m,
             \E f : f = [i \in b + 1 .. m |-> F(f, i)]
      PROVE  Good(b)
  <2> DEFINE a == b + 1
  <2>1. PICK f : f = [i \in a .. m |-> F(f, i)]
    BY <1>1, Zenon
  <2> DEFINE g == [i \in b .. m |-> F(f, i)]
  <2> HIDE DEF g
  <2>2. \A i \in a .. m : g[i] = f[i]
    <3>1. \A i \in a .. m : i \in b .. m
      OBVIOUS
    <3> HIDE DEF F, m, a
    <3> QED
      BY <2>1, <3>1 DEF g
  <2>3. ASSUME NEW i \in b .. m PROVE F(g, i) = F(f, i)
    <3>1. i \in 1 .. Len(text) + 1
      BY <1>1
    <3>2. ASSUME Continues(text, i) PROVE g[NextAt(text, i) + 1] = f[NextAt(text, i) + 1]
      <4> DEFINE k == NextAt(text, i) + 1
      <4>1. k \in i + 1 .. Len(text) + 1
        BY <3>1, <3>2, EntriesForward, Zenon
      <4> HIDE DEF k
      <4>2. k \in a .. m
        BY <1>1, <4>1
      <4> QED
        BY <2>2, <4>2, Zenon DEF k
    <3>3. Alike(g, f, text, i)
      BY <3>2, Zenon DEF Alike
    <3>4. SameEntry(g, f, text, i)
      BY <3>3, EntriesAhead, Zenon
    <3> QED
      BY <3>4, Zenon DEF SameEntry
  <2> HIDE DEF F, m
  <2>4. g = [i \in b .. m |-> F(g, i)]
    BY <2>3 DEF g
  <2> QED
    BY <2>4, Zenon
<1>2. Good(m)
  <2> DEFINE f == [i \in m + 1 .. m |-> F(<<>>, i)]
  <2>1. m \in Nat /\ 1 <= m /\ m <= m /\ \A i \in m + 1 .. m : FALSE
    OBVIOUS
  <2> HIDE DEF F, m
  <2>2. f = [i \in m + 1 .. m |-> F(f, i)]
    BY <2>1
  <2> HIDE DEF f
  <2> USE DEF F, m
  <2> QED
    BY <1>1, <2>1, <2>2, Zenon
<1>3. \A a \in 1 .. m : a \in T
  <2>1. 1 \in Nat /\ m \in Nat /\ \A i \in Nat : i < m => i <= m
    OBVIOUS
  <2>2. m \in T
    BY <1>2, <2>1, Zenon
  <2>3. \A i \in Nat : 1 <= i /\ i < m /\ i + 1 \in T => i \in T
    BY <1>1, <2>1, Zenon
  <2> HIDE DEF T, m
  <2> QED
    BY <2>1, <2>2, <2>3, DownFrom, Zenon
<1>4. Good(1)
  <2>1. 1 \in 1 .. m
    OBVIOUS
  <2> QED
    BY <1>3, <2>1, Zenon
<1> QED
  BY <1>4, Zenon DEF IsEntries

\* parseObject reads from the first key on.
LEMMA ParseObjectIs ==
  ASSUME NEW text, Len(text) \in Nat
  PROVE  \E entry : /\ IsEntries(entry, text)
                    /\ parseObject(text) =
                         IF At(text, 1) # Tok("{") THEN NotRead
                         ELSE IF At(text, 2) = Tok("}") THEN [ok |-> TRUE, fields |-> NoFields]
                         ELSE entry[2]
<1> DEFINE entry == CHOOSE e : IsEntries(e, text)
<1>1. IsEntries(entry, text)
  BY EntriesExist, Zenon
<1>2. parseObject(text) =
        IF At(text, 1) # Tok("{") THEN NotRead
        ELSE IF At(text, 2) = Tok("}") THEN [ok |-> TRUE, fields |-> NoFields]
        ELSE entry[2]
  BY Zenon DEF parseObject, IsEntries, EntryAt, LacksKey, LacksValue, CommaAt,
    AtomAt, NextAt, ValueAt, WithField
<1> HIDE DEF entry
<1> QED
  BY <1>1, <1>2, Zenon

\* What stands in front of an entry, and the entry behind it.
Before(k) == IF k = 1 THEN Tok("{") ELSE Tok(",")
EntryText(e) == <<Str(e.key), Tok(":")>> \o e.value
Piece(E, k) == <<Before(k)>> \o EntryText(E[k])

\* A piece stands in a text behind place a.
PieceAt(text, a, sign, e) ==
  /\ a + 3 + Len(e.value) <= Len(text)
  /\ text[a + 1] = sign /\ text[a + 2] = Str(e.key) /\ text[a + 3] = Tok(":")
  /\ Stands(text, a + 3, e.value)

\* A set of signs that texts with these entries are made of.
HoldsEntry(S, e) == Str(e.key) \in S /\ e.value \in Seq(S)
HoldsText(S, E) ==
  /\ Tok("{") \in S /\ Tok(",") \in S /\ Tok(":") \in S /\ Tok("}") \in S
  /\ \A k \in 1 .. Len(E) : HoldsEntry(S, E[k])

\* A text begins with another one.
Begins(longer, text) ==
  /\ Len(longer) \in Nat /\ Len(longer) >= Len(text)
  /\ \A i \in 1 .. Len(text) : longer[i] = text[i]

\* The signs of a piece.
LEMMA PieceIs ==
  ASSUME NEW S, NEW sign \in S, NEW key \in S, NEW colon \in S, NEW v \in Seq(S), NEW piece,
         piece = <<sign>> \o (<<key, colon>> \o v)
  PROVE  /\ piece \in Seq(S) /\ Len(piece) = 3 + Len(v)
         /\ piece[1] = sign /\ piece[2] = key /\ piece[3] = colon
         /\ \A j \in 1 .. Len(v) : piece[3 + j] = v[j]
<1> DEFINE w == <<key, colon>> \o v
<1>1. w \in Seq(S) /\ Len(w) = 2 + Len(v) /\ w[1] = key /\ w[2] = colon
  OBVIOUS
<1>2. \A j \in 1 .. Len(v) : w[2 + j] = v[j]
  OBVIOUS
<1> HIDE DEF w
<1>3. piece = <<sign>> \o w
  BY Zenon DEF w
<1>4. piece \in Seq(S) /\ Len(piece) = 1 + Len(w) /\ piece[1] = sign
  BY <1>1, <1>3
<1>5. \A i \in 1 .. Len(w) : piece[1 + i] = w[i]
  BY <1>1, <1>3
<1>6. /\ 1 \in 1 .. Len(w) /\ 2 \in 1 .. Len(w) /\ 1 + 1 = 2 /\ 1 + 2 = 3
      /\ \A j \in 1 .. Len(v) : 2 + j \in 1 .. Len(w) /\ 1 + (2 + j) = 3 + j
  BY <1>1
<1>7. piece[2] = key /\ piece[3] = colon
  BY <1>1, <1>5, <1>6, Zenon
<1>8. \A j \in 1 .. Len(v) : piece[3 + j] = v[j]
  BY <1>2, <1>5, <1>6
<1>9. Len(piece) = 3 + Len(v)
  BY <1>1, <1>4
<1> QED
  BY <1>4, <1>7, <1>8, <1>9, Zenon

\* s and, behind it, t.
IsBoth(both, s, t) ==
  /\ Len(both) = Len(s) + Len(t)
  /\ \A i \in 1 .. Len(s) : both[i] = s[i]
  /\ \A i \in 1 .. Len(t) : both[Len(s) + i] = t[i]

\* Joined sequences are so.
LEMMA TwoParts ==
  ASSUME NEW S, NEW s \in Seq(S), NEW t \in Seq(S)
  PROVE  s \o t \in Seq(S) /\ IsBoth(s \o t, s, t)
<1>1. IsBoth(s \o t, s, t)
  BY DEF IsBoth
<1> QED
  BY <1>1

\* A piece behind a text stands there.
LEMMA PieceAdded ==
  ASSUME NEW S, NEW text \in Seq(S), NEW sign \in S, Tok(":") \in S, NEW e, HoldsEntry(S, e),
         NEW longer, longer = text \o (<<sign>> \o EntryText(e))
  PROVE  /\ longer \in Seq(S) /\ Len(longer) = Len(text) + 3 + Len(e.value)
         /\ Begins(longer, text) /\ PieceAt(longer, Len(text), sign, e)
<1> DEFINE v == e.value
           key == Str(e.key)
           colon == Tok(":")
           piece == <<sign>> \o (<<key, colon>> \o v)
           a == Len(text)
<1>1. key \in S /\ v \in Seq(S) /\ colon \in S
  BY Zenon DEF HoldsEntry
<1>2. longer = text \o piece
  BY Zenon DEF EntryText
<1> HIDE DEF v, key, colon
<1>3. /\ piece \in Seq(S) /\ Len(piece) = 3 + Len(v)
      /\ piece[1] = sign /\ piece[2] = key /\ piece[3] = colon
      /\ \A j \in 1 .. Len(v) : piece[3 + j] = v[j]
  BY <1>1, PieceIs
<1> HIDE DEF piece
<1>4. a \in Nat /\ Len(v) \in Nat
  BY <1>1
<1>5. /\ longer \in Seq(S) /\ Len(longer) = a + Len(piece)
      /\ \A i \in 1 .. a : longer[i] = text[i]
      /\ \A i \in 1 .. Len(piece) : longer[a + i] = piece[i]
  <2>1. piece \in Seq(S)
    BY <1>3, Zenon
  <2>2. longer \in Seq(S) /\ IsBoth(longer, text, piece)
    BY <1>2, <2>1, TwoParts, Zenon
  <2> QED
    BY <2>2, Zenon DEF IsBoth, a
<1> HIDE DEF a
<1>6. /\ Len(longer) = a + 3 + Len(v) /\ Len(longer) \in Nat /\ Len(longer) >= a
      /\ 1 \in 1 .. Len(piece) /\ 2 \in 1 .. Len(piece) /\ 3 \in 1 .. Len(piece)
      /\ \A j \in 1 .. Len(v) : 3 + j \in 1 .. Len(piece) /\ a + (3 + j) = a + 3 + j
      /\ a + 3 + Len(v) <= Len(longer)
  BY <1>3, <1>4, <1>5
<1>7. longer[a + 1] = sign /\ longer[a + 2] = key /\ longer[a + 3] = colon
  BY <1>3, <1>5, <1>6, Zenon
<1>8. \A j \in 1 .. Len(v) : longer[a + 3 + j] = v[j]
  BY <1>3, <1>5, <1>6
<1> QED
  BY <1>5, <1>6, <1>7, <1>8, Zenon DEF Begins, PieceAt, Stands, a, v, key, colon

\* It stands in all texts that begin like this one.
LEMMA PieceStays ==
  ASSUME NEW text, Len(text) \in Nat, NEW longer, Begins(longer, text), NEW a \in Nat,
         NEW sign, NEW e, Len(e.value) \in Nat, PieceAt(text, a, sign, e)
  PROVE  PieceAt(longer, a, sign, e)
<1> DEFINE v == e.value
<1>1. /\ a + 3 + Len(v) <= Len(text) /\ Len(longer) >= Len(text) /\ Len(longer) \in Nat
      /\ Len(v) \in Nat
      /\ \A i \in 1 .. Len(text) : longer[i] = text[i]
  BY Zenon DEF PieceAt, Begins
<1>2. /\ text[a + 1] = sign /\ text[a + 2] = Str(e.key) /\ text[a + 3] = Tok(":")
      /\ \A j \in 1 .. Len(v) : text[a + 3 + j] = v[j]
  BY Zenon DEF PieceAt, Stands
<1> HIDE DEF v
<1> DEFINE l == Len(text)
           m == Len(longer)
           n == Len(v)
<1> HIDE DEF l, m, n
<1>3. /\ a + 1 \in 1 .. l /\ a + 2 \in 1 .. l /\ a + 3 \in 1 .. l
      /\ \A j \in 1 .. n : a + 3 + j \in 1 .. l
      /\ a + 3 + n <= m
  <2>1. a + 3 + n <= l /\ m >= l /\ m \in Nat /\ n \in Nat /\ l \in Nat
    BY <1>1, Zenon DEF l, m, n
  <2> QED
    BY <2>1
<1>4. \A j \in 1 .. n : longer[a + 3 + j] = v[j]
  BY <1>1, <1>2, <1>3, Zenon DEF l, n
<1>5. longer[a + 1] = sign /\ longer[a + 2] = Str(e.key) /\ longer[a + 3] = Tok(":")
  BY <1>1, <1>2, <1>3, Zenon DEF l
<1> QED
  BY <1>3, <1>4, <1>5, Zenon DEF PieceAt, Stands, v, m, n

\* The first m entries stand in a text, the k-th one up to place end[k].
IsLaidOut(text, E, m, end) ==
  /\ end[0] = 0 /\ Len(text) = end[m] /\ end[m] \in Nat
  /\ \A k \in 1 .. m : /\ end[k - 1] \in Nat /\ end[k] = end[k - 1] + 3 + Len(E[k].value)
                        /\ PieceAt(text, end[k - 1], Before(k), E[k])

\* One more entry.
LEMMA LaidFurther ==
  ASSUME NEW S, NEW E, HoldsText(S, E), NEW m \in Nat, m < Len(E), Len(E) \in Nat,
         NEW text \in Seq(S), NEW end, IsLaidOut(text, E, m, end),
         NEW longer, longer = text \o Piece(E, m + 1)
  PROVE  longer \in Seq(S) /\ \E to : IsLaidOut(longer, E, m + 1, to)
<1> DEFINE n == m + 1
           e == E[n]
           to == [k \in 0 .. n |-> IF k = n THEN Len(longer) ELSE end[k]]
<1>1. n \in 1 .. Len(E) /\ n \in Nat /\ n - 1 = m /\ n # 0 /\ 0 \in 0 .. n /\ n \in 0 .. n
  OBVIOUS
<1>2. Before(n) \in S /\ Tok(":") \in S /\ HoldsEntry(S, e)
  BY <1>1, Zenon DEF HoldsText, Before
<1>3. longer = text \o (<<Before(n)>> \o EntryText(e))
  BY Zenon DEF Piece
<1> HIDE DEF e
<1>4. /\ longer \in Seq(S) /\ Len(longer) = Len(text) + 3 + Len(e.value)
      /\ Begins(longer, text) /\ PieceAt(longer, Len(text), Before(n), e)
  BY <1>2, <1>3, PieceAdded, Zenon
<1>5. /\ end[0] = 0 /\ Len(text) = end[m] /\ end[m] \in Nat
      /\ \A k \in 1 .. m : /\ end[k - 1] \in Nat /\ end[k] = end[k - 1] + 3 + Len(E[k].value)
                            /\ PieceAt(text, end[k - 1], Before(k), E[k])
  BY Zenon DEF IsLaidOut
<1>6. to[n] = Len(longer) /\ Len(longer) \in Nat
  BY <1>1, <1>4
<1>7. to[0] = 0
  BY <1>1, <1>5
<1>8. ASSUME NEW k \in 1 .. m
      PROVE  /\ to[k - 1] = end[k - 1] /\ to[k] = end[k]
             /\ k \in 1 .. Len(E)
  BY <1>1
<1>9. to[m] = end[m]
  BY <1>1
<1> HIDE DEF to
<1>10. ASSUME NEW k \in 1 .. n
       PROVE  /\ to[k - 1] \in Nat /\ to[k] = to[k - 1] + 3 + Len(E[k].value)
              /\ PieceAt(longer, to[k - 1], Before(k), E[k])
  <2>1. k \in 1 .. m \/ k = n
    BY <1>1
  <2>2. CASE k = n
    BY <1>1, <1>4, <1>5, <1>6, <1>9, <2>2, Zenon DEF e
  <2>3. CASE k \in 1 .. m
    <3>1. Len(E[k].value) \in Nat
      <4>1. E[k].value \in Seq(S)
        BY <1>8, <2>3, Zenon DEF HoldsText, HoldsEntry
      <4> QED
        BY <4>1
    <3>2. PieceAt(text, end[k - 1], Before(k), E[k]) /\ end[k - 1] \in Nat
      BY <1>5, <2>3, Zenon
    <3>3. Len(text) \in Nat
      BY <1>5
    <3>4. PieceAt(longer, end[k - 1], Before(k), E[k])
      BY <1>4, <3>1, <3>2, <3>3, PieceStays
    <3> QED
      BY <1>5, <1>8, <2>3, <3>4, Zenon
  <2> QED
    BY <2>1, <2>2, <2>3, Zenon
<1>11. IsLaidOut(longer, E, n, to)
  BY <1>6, <1>7, <1>10, Zenon DEF IsLaidOut
<1> QED
  BY <1>4, <1>11, Zenon

\* A piece is made of the same signs.
LEMMA PieceInText ==
  ASSUME NEW S, NEW E, HoldsText(S, E), NEW k \in 1 .. Len(E)
  PROVE  Piece(E, k) \in Seq(S)
<1> DEFINE key == Str(E[k].key)
           colon == Tok(":")
           v == E[k].value
           sign == Before(k)
           piece == <<sign>> \o (<<key, colon>> \o v)
<1>1. key \in S /\ colon \in S /\ v \in Seq(S) /\ sign \in S
  BY Zenon DEF HoldsText, HoldsEntry, Before
<1> HIDE DEF key, colon, v, sign
<1>2. piece \in Seq(S)
  BY <1>1
<1> QED
  BY <1>2, Zenon DEF Piece, EntryText, piece, key, colon, v, sign

InTurn(S, s, t, u) == s \o (t \o u) = (s \o t) \o u /\ t \o u \in Seq(S)

\* The parts of a text, in whatever way they are put together.
LEMMA JoinedInTurn ==
  ASSUME NEW S, NEW s \in Seq(S), NEW t \in Seq(S), NEW u \in Seq(S)
  PROVE  InTurn(S, s, t, u)
<1>1. t \o u \in Seq(S)
  OBVIOUS
<1>2. s \o (t \o u) = (s \o t) \o u
  BY ConcatAssociative
<1> QED
  BY <1>1, <1>2, Zenon DEF InTurn

\* The entries before the last bracket.
Entries(E) == IF Len(E) = 1 THEN Piece(E, 1)
              ELSE Piece(E, 1) \o FlattenSeq([i \in 1 .. Len(E) - 1 |-> Piece(E, i + 1)])

\* They stand one behind the other.
LEMMA EntriesLaidOut ==
  ASSUME NEW S, NEW E, HoldsText(S, E), Len(E) \in Nat, Len(E) >= 1
  PROVE  Entries(E) \in Seq(S) /\ \E end : IsLaidOut(Entries(E), E, Len(E), end)
<1> DEFINE n == Len(E)
           seqs == [i \in 1 .. n - 1 |-> Piece(E, i + 1)]
           flatten == CHOOSE f : IsFlatten(f, seqs, n - 1)
           head == Piece(E, 1)
           Run(m) == IF m = 0 THEN head ELSE head \o flatten[m]
           Done(m) == /\ Run(m) \in Seq(S) /\ \E end : IsLaidOut(Run(m), E, m + 1, end)
                      /\ m # 0 => flatten[m] \in Seq(S)
           T == {m \in Nat : m <= n - 1 => Done(m)}
<1>1. n \in Nat /\ n - 1 \in Nat /\ 1 \in 1 .. n /\ \A i \in 1 .. n - 1 : i + 1 \in 1 .. n
  OBVIOUS
<1>2. IsFlatten(flatten, seqs, n - 1)
  BY <1>1, FlattenExists, Zenon
<1>3. \A i \in 1 .. n - 1 : flatten[i] = Flattens(flatten, seqs, i)
  <2> DEFINE f == flatten
             L(i) == Flattens(f, seqs, i)
  <2> HIDE DEF L, flatten
  <2>1. f = [i \in 1 .. n - 1 |-> L(i)]
    BY <1>2, Zenon DEF IsFlatten, L
  <2> HIDE DEF f
  <2>2. \A i \in 1 .. n - 1 : f[i] = L(i)
    BY <2>1
  <2> QED
    BY <2>2, Zenon DEF f, L
<1>4. head \in Seq(S) /\ \A i \in 1 .. n - 1 : seqs[i] = Piece(E, i + 1) /\ seqs[i] \in Seq(S)
  BY <1>1, PieceInText, Zenon
<1>5. Done(0)
  <2> DEFINE none == [k \in 0 .. 0 |-> 0]
  <2>1. /\ <<>> \in Seq(S) /\ Len(<<>>) = 0 /\ none[0] = 0 /\ 0 \in Nat
        /\ 0 + 1 = 1 /\ 0 < Len(E) /\ \A k \in 1 .. 0 : FALSE
    OBVIOUS
  <2>2. IsLaidOut(<<>>, E, 0, none)
    BY <2>1, Zenon DEF IsLaidOut
  <2> HIDE DEF none, head
  <2>3. <<>> \o head = head
    BY <1>4
  <2>4. \E to : IsLaidOut(head, E, 0 + 1, to)
    <3>1. head = <<>> \o Piece(E, 0 + 1)
      BY <2>1, <2>3, Zenon DEF head
    <3> QED
      BY <2>1, <2>2, <3>1, LaidFurther, Zenon
  <2> QED
    BY <1>4, <2>4, Zenon
<1>6. ASSUME NEW m \in Nat, m + 1 <= n - 1, Done(m) PROVE Done(m + 1)
  <2> DEFINE k == m + 1
             more == seqs[k]
  <2>1. /\ k \in 1 .. n - 1 /\ k \in Nat /\ k < Len(E) /\ k # 0 /\ k - 1 = m /\ (k = 1 <=> m = 0)
    BY <1>6
  <2> HIDE DEF head, flatten, seqs
  <2>2. more \in Seq(S) /\ more = Piece(E, k + 1)
    BY <1>4, <2>1, Zenon
  <2>3. flatten[k] = IF m = 0 THEN more ELSE flatten[m] \o more
    BY <1>3, <2>1, Zenon DEF Flattens
  <2>4. PICK end : IsLaidOut(Run(m), E, k, end)
    BY <1>6, Zenon
  <2> HIDE DEF k, more
  <2>5. Run(k) = Run(m) \o more /\ flatten[k] \in Seq(S)
    <3>1. CASE m = 0
      BY <2>1, <2>2, <2>3, <3>1, Zenon
    <3>2. CASE m # 0
      <4>1. flatten[m] \in Seq(S) /\ flatten[k] = flatten[m] \o more
        BY <1>6, <2>3, <3>2, Zenon
      <4>2. InTurn(S, head, flatten[m], more)
        BY <1>4, <2>2, <4>1, JoinedInTurn, Zenon
      <4> QED
        BY <2>1, <3>2, <4>1, <4>2, Zenon DEF InTurn
    <3> QED
      BY <3>1, <3>2, Zenon
  <2>6. Run(m) \in Seq(S)
    BY <1>6, Zenon
  <2> HIDE DEF Run
  <2>7. Run(k) = Run(m) \o Piece(E, k + 1)
    BY <2>2, <2>5, Zenon
  <2>8. Run(k) \in Seq(S) /\ \E to : IsLaidOut(Run(k), E, k + 1, to)
    BY <2>1, <2>4, <2>6, <2>7, LaidFurther, Zenon
  <2> QED
    BY <2>5, <2>8, Zenon DEF k, Run
<1>7. \A m \in Nat : m \in T
  <2>1. 0 \in T
    BY <1>5, Zenon
  <2>2. \A m \in Nat : m \in T => m + 1 \in T
    <3>0. \A m \in Nat : m + 1 \in Nat
      OBVIOUS
    <3> SUFFICES ASSUME NEW m \in Nat, m \in T, m + 1 <= n - 1 PROVE Done(m + 1)
      BY <3>0, Zenon
    <3>1. m <= n - 1
      BY <1>1
    <3> QED
      BY <1>6, <3>1, Zenon
  <2> HIDE DEF T
  <2> QED
    BY <2>1, <2>2, AllNumbers, Zenon
<1>8. Done(n - 1)
  <2>1. n - 1 \in T /\ n - 1 <= n - 1
    <3> HIDE DEF T
    <3> QED
      BY <1>1, <1>7
  <2> QED
    BY <2>1, Zenon
<1>9. Run(n - 1) = Entries(E)
  <2>1. n - 1 = 0 <=> Len(E) = 1
    BY <1>1
  <2>2. n - 1 # 0 => FlattenSeq(seqs) = flatten[n - 1]
    <3>1. Len(seqs) = n - 1
      BY <1>1
    <3>2. FlattenSeq(seqs) = IF Len(seqs) = 0 THEN seqs
                             ELSE (CHOOSE f : IsFlatten(f, seqs, Len(seqs)))[Len(seqs)]
      BY Zenon DEF FlattenSeq, IsFlatten, Flattens
    <3> QED
      BY <3>1, <3>2, Zenon
  <2> HIDE DEF flatten, head
  <2>3. CASE n - 1 = 0
    BY <2>1, <2>3, Zenon DEF Entries, head
  <2>4. CASE n - 1 # 0
    <3>1. Entries(E) = head \o FlattenSeq(seqs)
      BY <2>1, <2>4, Zenon DEF Entries, head
    <3> HIDE DEF seqs
    <3> QED
      BY <2>2, <2>4, <3>1, Zenon
  <2> QED
    BY <2>3, <2>4, Zenon
<1>10. n - 1 + 1 = n
  BY <1>1
<1> QED
  BY <1>8, <1>9, <1>10, Zenon

\* What a value means.
IsAtom(v) == v[1][1] \in {"str", "num"}
ValueOf(v) == IF IsAtom(v) THEN v[1] ELSE Skipped

\* Strings and numbers are read, other values are skipped.
LEMMA ValuesAre ==
  ASSUME NEW v \in Values
  PROVE  \/ IsAtom(v) /\ Len(v) = 1 /\ v \in {<<Str("x")>>, <<Str("")>>, <<<<"num", 7>>>>}
         \/ ~IsAtom(v) /\ v = Word /\ Len(v) = 1
         \/ ~IsAtom(v) /\ v \in {List, Inner} /\ Len(v) \in Nat /\ Len(v) >= 1
<1>1. CASE v \in {<<Str("x")>>, <<Str("")>>, <<<<"num", 7>>>>}
  <2>1. \A w, s : Len(<<<<w, s>>>>) = 1 /\ <<<<w, s>>>>[1][1] = w
    OBVIOUS
  <2>2. "str" \in {"str", "num"} /\ "num" \in {"str", "num"}
    OBVIOUS
  <2>4. v = <<<<"str", "x">>>> \/ v = <<<<"str", "">>>> \/ v = <<<<"num", 7>>>>
    BY <1>1, Zenon DEF Str
  <2>3. Len(v) = 1 /\ (v[1][1] = "str" \/ v[1][1] = "num")
    <3> DEFINE IsOne(w) == Len(v) = 1 /\ v[1][1] = w
    <3>1. \A w, s : v = <<<<w, s>>>> => IsOne(w)
      BY <2>1
    <3> HIDE DEF IsOne
    <3>2. IsOne("str") \/ IsOne("num")
      BY <2>4, <3>1, Zenon
    <3> QED
      BY <3>2, Zenon DEF IsOne
  <2> QED
    BY <1>1, <2>2, <2>3, Zenon DEF IsAtom
<1>2. CASE v = Word
  <2>1. Len(v) = 1 /\ v[1][1] = "word"
    BY <1>2 DEF Word
  <2>2. "word" \notin {"str", "num"}
    OBVIOUS
  <2> QED
    BY <1>2, <2>1, <2>2, Zenon DEF IsAtom
<1>3. CASE v \in {List, Inner}
  <2>1. (Len(v) = 9 /\ v[1] = <<"[">>) \/ (Len(v) = 5 /\ v[1] = <<"{">>)
    BY <1>3, TokensOfValues, Zenon
  <2>2. Len(v) \in Nat /\ Len(v) >= 1
    <3>1. 9 \in Nat /\ 9 >= 1 /\ 5 \in Nat /\ 5 >= 1
      OBVIOUS
    <3> QED
      BY <2>1, <3>1, Zenon
  <2>3. v[1][1] = "[" \/ v[1][1] = "{"
    <3>1. \A w : <<w>>[1] = w
      OBVIOUS
    <3> QED
      BY <2>1, <3>1, Zenon
  <2>4. "[" \notin {"str", "num"} /\ "{" \notin {"str", "num"}
    OBVIOUS
  <2> QED
    BY <1>3, <2>2, <2>3, <2>4, Zenon DEF IsAtom
<1> QED
  BY <1>1, <1>2, <1>3, Zenon DEF Values

\* The entry behind place a is read as it was meant, up to place b.
IsReadAt(text, a, b, e) ==
  /\ ~LacksKey(text, a + 2) /\ ~LacksValue(text, a + 2)
  /\ NextAt(text, a + 2) = b + 1
  /\ ValueAt(text, a + 2) = ValueOf(e.value) /\ At(text, a + 2)[2] = e.key

\* The places of an entry with a value of n signs in a text of l signs.
PlacesOfEntry(a, n, l, b) ==
  /\ a + 2 <= l /\ a + 2 + 1 <= l /\ a + 2 + 2 <= l
  /\ a + 2 + 1 = a + 3 /\ a + 2 + 2 = a + 3 + 1 /\ 1 \in 1 .. n
  /\ a + 3 \in Nat /\ a + 3 + n + 1 = b + 1
  /\ n = 1 => a + 2 + 3 = b + 1 /\ a + 3 + 2 = b + 1

\* They are in the text.
LEMMA PlacesAhead ==
  ASSUME NEW a \in Nat, NEW n \in Nat, n >= 1, NEW l \in Nat, NEW b, b = a + 3 + n, b + 1 <= l
  PROVE  PlacesOfEntry(a, n, l, b)
BY DEF PlacesOfEntry

\* An entry is read as it was written.
LEMMA EntryIsRead ==
  ASSUME NEW text, Len(text) \in Nat, NEW a \in Nat, NEW sign, NEW e, e.value \in Values,
         PieceAt(text, a, sign, e), NEW b, b = a + 3 + Len(e.value), b + 1 <= Len(text),
         e.value = Word => IsComma(text, b + 1)
  PROVE  IsReadAt(text, a, b, e)
<1> DEFINE v == e.value
           i == a + 2
           n == Len(v)
           l == Len(text)
<1>1. /\ text[a + 1] = sign /\ text[a + 2] = Str(e.key) /\ text[a + 3] = Tok(":")
      /\ Stands(text, a + 3, v)
  BY Zenon DEF PieceAt
<1>2. \/ IsAtom(v) /\ n = 1
      \/ ~IsAtom(v) /\ v = Word /\ n = 1
      \/ ~IsAtom(v) /\ v \in {List, Inner} /\ n \in Nat /\ n >= 1
  BY ValuesAre, Zenon
<1>3. n \in Nat /\ n >= 1
  BY <1>2
<1>4. b = a + 3 + n /\ b + 1 <= l /\ l \in Nat
  OBVIOUS
<1> HIDE DEF v, n, l
<1>14. PlacesOfEntry(a, n, l, b)
  BY <1>3, <1>4, PlacesAhead, Zenon
<1>5. /\ i <= l /\ i + 1 <= l /\ i + 2 <= l /\ i + 1 = a + 3 /\ i + 2 = a + 3 + 1 /\ 1 \in 1 .. n
      /\ a + 3 \in Nat /\ a + 3 + n + 1 = b + 1
      /\ n = 1 => i + 3 = b + 1 /\ a + 3 + 2 = b + 1
  BY <1>14, Zenon DEF PlacesOfEntry
<1>6. text[i + 2] = v[1]
  BY <1>1, <1>5, Zenon DEF Stands, n
<1> HIDE DEF i
<1>7. At(text, i) = Str(e.key) /\ At(text, i + 1) = Tok(":") /\ At(text, i + 2) = v[1]
  BY <1>1, <1>5, <1>6, Zenon DEF At, l, i
<1>8. Str(e.key)[1] = "str" /\ Str(e.key)[2] = e.key
  BY DEF Str
<1>9. ~LacksKey(text, i) /\ At(text, i)[2] = e.key
  BY <1>7, <1>8, Zenon DEF LacksKey, IsStr
<1>10. AtomAt(text, i) <=> IsAtom(v)
  BY <1>7, Zenon DEF AtomAt, IsAtom
<1>11. ValueAt(text, i) = ValueOf(v)
  BY <1>6, <1>10, Zenon DEF ValueAt, ValueOf
<1>12. CASE IsAtom(v)
  <2>1. NextAt(text, i) = b + 1
    BY <1>2, <1>5, <1>10, <1>12, Zenon DEF NextAt
  <2>2. ~LacksValue(text, i)
    BY <1>10, <1>12, Zenon DEF LacksValue
  <2> QED
    BY <1>9, <1>11, <2>1, <2>2, Zenon DEF IsReadAt, i, v
<1>13. CASE ~IsAtom(v)
  <2>1. GoesOn(text, a + 3, n)
    <3>1. CASE v = Word /\ n = 1
      <4>1. IsComma(text, a + 3 + 2) /\ a + 3 + 2 <= Len(text) /\ Stands(text, a + 3, Word)
        BY <1>1, <1>4, <1>5, <3>1, Zenon DEF v, l
      <4>2. GoesOn(text, a + 3, 1)
        BY <1>5, <4>1, WordSkipped, Zenon
      <4> QED
        BY <3>1, <4>2, Zenon
    <3>2. CASE v \in {List, Inner}
      BY <1>1, <1>5, <3>2, BracketsSkipped, Zenon DEF n
    <3> QED
      BY <1>2, <1>13, <3>1, <3>2, Zenon
  <2>2. skipValue(text, i + 2) = [ok |-> TRUE, next |-> b + 1]
    BY <1>5, <2>1, Zenon DEF GoesOn
  <2>3. skipValue(text, i + 2).ok /\ skipValue(text, i + 2).next = b + 1
    <3>1. \A m : [ok |-> TRUE, next |-> m].ok /\ [ok |-> TRUE, next |-> m].next = m
      OBVIOUS
    <3> QED
      BY <2>2, <3>1, Zenon
  <2>4. NextAt(text, i) = b + 1 /\ ~LacksValue(text, i)
    BY <1>10, <1>13, <2>3, Zenon DEF NextAt, LacksValue
  <2> QED
    BY <1>9, <1>11, <2>4, Zenon DEF IsReadAt, i, v
<1> QED
  BY <1>12, <1>13, Zenon

\* The whole text of an object: the k-th entry stands up to place end[k], and the last
\* bracket behind the last one.
IsObjectText(text, E, end) ==
  /\ end[0] = 0 /\ end[Len(E)] \in Nat /\ Len(text) = end[Len(E)] + 1
  /\ text[end[Len(E)] + 1] = Tok("}")
  /\ \A k \in 1 .. Len(E) : /\ end[k - 1] \in Nat /\ end[k] = end[k - 1] + 3 + Len(E[k].value)
                            /\ PieceAt(text, end[k - 1], Before(k), E[k])

\* It consists of the entries and that bracket.
LEMMA ObjectTextIs ==
  ASSUME NEW E, Len(E) \in Nat, Len(E) >= 1, NEW S, HoldsText(S, E)
  PROVE  ObjectText(E) = Entries(E) \o <<Tok("}")>>
<1> DEFINE n == Len(E)
           seqs == [i \in 1 .. n - 1 |-> Piece(E, i + 1)]
           rest == [i \in 1 .. n - 1 |-> <<Tok(",")>> \o EntryText(E[i + 1])]
           head == Piece(E, 1)
<1>1. ObjectText(E) = <<Tok("{")>> \o EntryText(E[1]) \o FlattenSeq(rest) \o <<Tok("}")>>
  BY Zenon DEF ObjectText, EntryText
<1>2. \A i \in 1 .. n - 1 : i + 1 # 1
  OBVIOUS
<1>3. head = <<Tok("{")>> \o EntryText(E[1])
  BY Zenon DEF Piece, Before
<1>4. rest = seqs
  BY <1>2, Zenon DEF Piece, Before
<1> HIDE DEF head, rest
<1>5. CASE n = 1
  <2>1. Len(seqs) = 0 /\ seqs = <<>>
    BY <1>5
  <2>2. FlattenSeq(seqs) = <<>>
    BY <2>1, Zenon DEF FlattenSeq
  <2> HIDE DEF seqs
  <2>3. head \in Seq(S)
    <3>1. 1 \in 1 .. Len(E)
      BY <1>5
    <3> QED
      BY <3>1, PieceInText, Zenon DEF head
  <2>4. head \o <<>> = head
    BY <2>3
  <2> QED
    BY <1>1, <1>3, <1>4, <1>5, <2>2, <2>4, Zenon DEF Entries, head
<1>6. CASE n # 1
  BY <1>1, <1>3, <1>4, <1>6, Zenon DEF Entries, head
<1> QED
  BY <1>5, <1>6, Zenon

\* The text of an object is laid out so.
LEMMA ObjectLaidOut ==
  ASSUME NEW E, Len(E) \in Nat, Len(E) >= 1, NEW S, HoldsText(S, E)
  PROVE  ObjectText(E) \in Seq(S) /\ \E end : IsObjectText(ObjectText(E), E, end)
<1> DEFINE n == Len(E)
           before == Entries(E)
           last == <<Tok("}")>>
           text == ObjectText(E)
<1>1. PICK end : before \in Seq(S) /\ IsLaidOut(before, E, n, end)
  BY EntriesLaidOut, Zenon
<1>2. text = before \o last
  BY ObjectTextIs, Zenon
<1>3. last \in Seq(S) /\ Len(last) = 1 /\ last[1] = Tok("}")
  <2> DEFINE t == Tok("}")
  <2>1. t \in S
    BY Zenon DEF HoldsText
  <2> HIDE DEF t
  <2>2. <<t>> \in Seq(S) /\ Len(<<t>>) = 1 /\ <<t>>[1] = t
    BY <2>1
  <2> QED
    BY <2>2, Zenon DEF t
<1> HIDE DEF before, last, text
<1>4. text \in Seq(S) /\ IsBoth(text, before, last)
  BY <1>1, <1>2, <1>3, TwoParts, Zenon
<1>5. /\ Len(text) = Len(before) + 1 /\ \A i \in 1 .. Len(before) : text[i] = before[i]
      /\ text[Len(before) + 1] = Tok("}")
  <2>1. 1 \in 1 .. 1
    OBVIOUS
  <2> QED
    BY <1>3, <1>4, <2>1, Zenon DEF IsBoth
<1>6. Len(before) \in Nat /\ Len(text) \in Nat /\ Len(text) >= Len(before)
  <2>1. Len(before) \in Nat
    BY <1>1
  <2>2. Len(text) = Len(before) + 1
    BY <1>5, Zenon
  <2> QED
    BY <2>1, <2>2
<1>7. Begins(text, before)
  BY <1>5, <1>6, Zenon DEF Begins
<1>8. /\ end[0] = 0 /\ Len(before) = end[n] /\ end[n] \in Nat
      /\ \A k \in 1 .. n : /\ end[k - 1] \in Nat /\ end[k] = end[k - 1] + 3 + Len(E[k].value)
                            /\ PieceAt(before, end[k - 1], Before(k), E[k])
  BY <1>1, Zenon DEF IsLaidOut
<1>9. ASSUME NEW k \in 1 .. n PROVE PieceAt(text, end[k - 1], Before(k), E[k])
  <2>1. E[k].value \in Seq(S)
    BY <1>9, Zenon DEF HoldsText, HoldsEntry
  <2>2. Len(E[k].value) \in Nat
    BY <2>1
  <2>3. end[k - 1] \in Nat /\ PieceAt(before, end[k - 1], Before(k), E[k])
    BY <1>8, Zenon
  <2> QED
    BY <1>6, <1>7, <2>2, <2>3, PieceStays
<1>10. IsObjectText(text, E, end)
  BY <1>5, <1>8, <1>9, Zenon DEF IsObjectText
<1> QED
  BY <1>4, <1>10, Zenon DEF text

\* The keys of the entries from the k-th one on, and what f says of them: the last entry
\* with a key counts.
KeysFrom(E, k) == {E[j].key : j \in k .. Len(E)}
LastOfKey(E, j) == \A i \in j + 1 .. Len(E) : E[i].key # E[j].key
IsFields(f, E, k) ==
  /\ f = [key \in KeysFrom(E, k) |-> f[key]]
  /\ \A j \in k .. Len(E) : LastOfKey(E, j) => f[E[j].key] = ValueOf(E[j].value)

\* One more field, in front of the others.
LEMMA OneFieldMore ==
  ASSUME NEW E, Len(E) \in Nat, NEW k \in 1 .. Len(E), NEW f,
         IF k = Len(E) THEN f = NoFields ELSE IsFields(f, E, k + 1)
  PROVE  IsFields(WithField(f, E[k].key, ValueOf(E[k].value)), E, k)
<1> DEFINE n == Len(E)
           key == E[k].key
           v == ValueOf(E[k].value)
           g == WithField(f, key, v)
           D == KeysFrom(E, k + 1)
           R(x) == IF x \in DOMAIN f THEN f[x] ELSE v
<1>1. DOMAIN f = D
  <2>1. CASE k = n
    <3>1. \A j \in k + 1 .. n : FALSE
      BY <2>1
    <3>2. DOMAIN NoFields = {}
      BY DEF NoFields
    <3> QED
      BY <2>1, <3>1, <3>2, Zenon DEF KeysFrom
  <2>2. CASE k # n
    <3>1. f = [x \in D |-> f[x]]
      BY <2>2, Zenon DEF IsFields
    <3> HIDE DEF D
    <3> QED
      BY <3>1
  <2> QED
    BY <2>1, <2>2, Zenon
<1>2. g = [x \in DOMAIN f \cup {key} |-> R(x)]
  BY Zenon DEF WithField
<1>3. \A j : j \in k .. n <=> j = k \/ j \in k + 1 .. n
  OBVIOUS
<1>4. KeysFrom(E, k) = D \cup {key}
  BY <1>3, Zenon DEF KeysFrom
<1> HIDE DEF g, R, D
<1>5. g = [x \in D \cup {key} |-> g[x]] /\ \A x \in D \cup {key} : g[x] = R(x)
  <2>1. g = [x \in D \cup {key} |-> R(x)]
    BY <1>1, <1>2, Zenon
  <2> QED
    BY <2>1
<1>6. ASSUME NEW j \in k .. n, LastOfKey(E, j) PROVE g[E[j].key] = ValueOf(E[j].value)
  <2>1. E[j].key \in D \cup {key}
    BY <1>3, <1>6, Zenon DEF D, KeysFrom
  <2>2. g[E[j].key] = R(E[j].key)
    BY <1>5, <2>1, Zenon
  <2>3. CASE j = k
    <3>1. key \notin D
      BY <1>6, <2>3, Zenon DEF D, KeysFrom, LastOfKey
    <3> QED
      BY <1>1, <2>2, <2>3, <3>1, Zenon DEF R
  <2>4. CASE j \in k + 1 .. n
    <3>1. k # n
      BY <2>4
    <3>2. E[j].key \in D
      BY <2>4, Zenon DEF D, KeysFrom
    <3>3. f[E[j].key] = ValueOf(E[j].value)
      BY <1>6, <2>4, <3>1, Zenon DEF IsFields
    <3> QED
      BY <1>1, <2>2, <3>2, <3>3, Zenon DEF R
  <2> QED
    BY <1>3, <1>6, <2>3, <2>4, Zenon
<1> QED
  BY <1>4, <1>5, <1>6, Zenon DEF IsFields, g

\* The last entry with a key.
PlacesOfKey(E, key) == {i \in 1 .. Len(E) : E[i].key = key}
IsLastOfKey(E, key, m) == m \in 1 .. Len(E) /\ E[m].key = key /\ LastOfKey(E, m)

\* There is one.
LEMMA LastWithKey ==
  ASSUME NEW E, Len(E) \in Nat, NEW key \in KeysFrom(E, 1)
  PROVE  IsLastOfKey(E, key, Max(PlacesOfKey(E, key)))
<1> DEFINE n == Len(E)
           s == PlacesOfKey(E, key)
           m == Max(s)
<1>1. PICK j \in 1 .. n : E[j].key = key
  BY Zenon DEF KeysFrom
<1>2. s \in SUBSET Nat /\ s # {} /\ \A x \in s : x <= n
  BY <1>1 DEF PlacesOfKey
<1> HIDE DEF s
<1>3. m \in s /\ \A y \in s : m >= y
  BY <1>2, GreatestNumber, Zenon
<1>4. m \in 1 .. n /\ E[m].key = key
  BY <1>3, Zenon DEF s, PlacesOfKey
<1> HIDE DEF m
<1>5. LastOfKey(E, m)
  <2> SUFFICES ASSUME NEW i \in m + 1 .. n, E[i].key = key PROVE FALSE
    BY <1>4, Zenon DEF LastOfKey
  <2>1. i \in 1 .. n /\ ~(m >= i)
    BY <1>4
  <2>2. i \in s
    BY <2>1, Zenon DEF s, PlacesOfKey
  <2> QED
    BY <1>3, <2>1, <2>2, Zenon
<1> QED
  BY <1>4, <1>5, Zenon DEF IsLastOfKey, m, s

\* What the entries mean is what the last one with each key means.
LEMMA MeantIs ==
  ASSUME NEW E, DOMAIN E = 1 .. Len(E), Len(E) \in Nat, NEW f, IsFields(f, E, 1)
  PROVE  f = Meant(E)
<1> DEFINE n == Len(E)
           Of(key) == PlacesOfKey(E, key)
           R(key) == ValueOf(E[Max(Of(key))].value)
           D == KeysFrom(E, 1)
<1>1. Meant(E) = [key \in D |-> R(key)]
  BY Zenon DEF Meant, ValueOf, IsAtom, KeysFrom, PlacesOfKey
<1>2. f = [key \in D |-> f[key]]
  BY Zenon DEF IsFields
<1>3. ASSUME NEW key \in D PROVE f[key] = R(key)
  <2> DEFINE m == Max(Of(key))
  <2>1. m \in 1 .. n /\ E[m].key = key /\ LastOfKey(E, m)
    BY LastWithKey, Zenon DEF PlacesOfKey, IsLastOfKey
  <2> HIDE DEF m
  <2>2. f[E[m].key] = ValueOf(E[m].value)
    BY <2>1, Zenon DEF IsFields
  <2> QED
    BY <2>1, <2>2, Zenon DEF m
<1> HIDE DEF D, R
<1>4. [key \in D |-> f[key]] = [key \in D |-> R(key)]
  BY <1>3
<1> QED
  BY <1>1, <1>2, <1>4, Zenon

\* What is read from the k-th entry on.
IsReadFrom(read, E, k) == \E f : IsFields(f, E, k) /\ read = [ok |-> TRUE, fields |-> f]

\* The entries of a text and the places where they end.
IsReadable(text, E, end) ==
  /\ IsObjectText(text, E, end) /\ Len(text) \in Nat /\ Len(E) \in Nat /\ Len(E) >= 1
  /\ \A k \in 1 .. Len(E) : E[k].value \in Values
  /\ E[Len(E)].value # Word

\* Behind the last entry stands the bracket, behind the others a comma.
BehindEntry(text, E, end, k) ==
  /\ end[k - 1] \in Nat /\ end[k] = end[k - 1] + 3 + Len(E[k].value)
  /\ end[k] \in Nat /\ end[k] + 1 <= Len(text)
  /\ PieceAt(text, end[k - 1], Before(k), E[k])
  /\ text[end[k] + 1] = IF k = Len(E) THEN Tok("}") ELSE Tok(",")

\* So it is with all entries.
LEMMA BehindEntries ==
  ASSUME NEW text, NEW E, NEW end, IsReadable(text, E, end), NEW k \in 1 .. Len(E)
  PROVE  BehindEntry(text, E, end, k)
<1> DEFINE n == Len(E)
           l == Len(text)
<1>1. /\ end[0] = 0 /\ end[n] \in Nat /\ l = end[n] + 1 /\ text[end[n] + 1] = Tok("}")
      /\ \A j \in 1 .. n : /\ end[j - 1] \in Nat /\ end[j] = end[j - 1] + 3 + Len(E[j].value)
                           /\ PieceAt(text, end[j - 1], Before(j), E[j])
      /\ l \in Nat /\ n \in Nat
  BY Zenon DEF IsReadable, IsObjectText
<1>2. CASE k = n
  <2>1. l \in Nat /\ l = end[n] + 1
    BY <1>1, Zenon
  <2>2. l <= l
    BY <2>1
  <2> QED
    BY <1>1, <1>2, <2>1, <2>2, Zenon DEF BehindEntry
<1>3. CASE k # n
  <2>0. n \in Nat
    BY <1>1, Zenon
  <2>1. k + 1 \in 1 .. n /\ (k + 1) - 1 = k /\ k + 1 # 1
    BY <2>0, <1>3
  <2>5. end[(k + 1) - 1] \in Nat /\ PieceAt(text, end[(k + 1) - 1], Before(k + 1), E[k + 1])
    BY <1>1, <2>1, Zenon
  <2>2. end[k] \in Nat /\ PieceAt(text, end[k], Before(k + 1), E[k + 1])
    BY <2>1, <2>5, Zenon
  <2>3. text[end[k] + 1] = Tok(",")
    BY <2>1, <2>2, Zenon DEF PieceAt, Before
  <2>4. end[k] + 1 <= l
    <3>1. end[k] + 3 + Len(E[k + 1].value) <= l
      BY <2>2, Zenon DEF PieceAt
    <3>2. Len(E[k + 1].value) \in Nat
      <4>1. E[k + 1].value \in Values
        BY <2>1, Zenon DEF IsReadable
      <4>2. Len(E[k + 1].value) = 1 \/ Len(E[k + 1].value) \in Nat
        BY <4>1, ValuesAre, Zenon
      <4> QED
        BY <4>2
    <3> DEFINE x == end[k]
               m == Len(E[k + 1].value)
    <3>3. x \in Nat /\ m \in Nat /\ l \in Nat /\ x + 3 + m <= l
      BY <1>1, <2>2, <3>1, <3>2, Zenon
    <3> HIDE DEF x, m, l
    <3>4. x + 1 <= l
      BY <3>3
    <3> QED
      BY <3>4, Zenon DEF x
  <2> QED
    BY <1>1, <1>3, <2>2, <2>3, <2>4, Zenon DEF BehindEntry
<1> QED
  BY <1>2, <1>3

\* The signs behind entries are different ones.
LEMMA SignsDiffer ==
  /\ Tok("}") # Tok(",") /\ Tok(",") = <<",">>
  /\ \A s : Str(s) # Tok("}")
BY DEF Tok, Str

\* One entry, when what follows it has been read.
LEMMA EntryFollowed ==
  ASSUME NEW text, NEW E, NEW end, IsReadable(text, E, end), NEW k \in 1 .. Len(E), NEW entry,
         entry[end[k - 1] + 2] = EntryAt(entry, text, end[k - 1] + 2),
         k # Len(E) => IsReadFrom(entry[end[k] + 2], E, k + 1)
  PROVE  IsReadFrom(entry[end[k - 1] + 2], E, k)
<1> DEFINE e == E[k]
           a == end[k - 1]
           b == end[k]
           i == a + 2
           key == e.key
           v == ValueOf(e.value)
<1>1. /\ a \in Nat /\ b = a + 3 + Len(e.value) /\ b \in Nat /\ b + 1 <= Len(text)
      /\ PieceAt(text, a, Before(k), e)
      /\ text[b + 1] = IF k = Len(E) THEN Tok("}") ELSE Tok(",")
  <2>1. BehindEntry(text, E, end, k)
    BY BehindEntries, Zenon
  <2> QED
    BY <2>1, Zenon DEF BehindEntry
<1>2. /\ Len(text) \in Nat /\ e.value \in Values /\ Len(E) \in Nat
      /\ k = Len(E) => e.value # Word
  BY Zenon DEF IsReadable
<1>3. e.value = Word => IsComma(text, b + 1)
  BY <1>1, <1>2, SignsDiffer, Zenon DEF IsComma
<1> HIDE DEF a, b, e
<1>4. IsReadAt(text, a, b, e)
  BY <1>1, <1>2, <1>3, EntryIsRead, Zenon
<1>5. /\ ~LacksKey(text, i) /\ ~LacksValue(text, i) /\ NextAt(text, i) = b + 1
      /\ ValueAt(text, i) = v /\ At(text, i)[2] = key
  BY <1>4, Zenon DEF IsReadAt
<1>6. At(text, b + 1) = IF k = Len(E) THEN Tok("}") ELSE Tok(",")
  BY <1>1, Zenon DEF At
<1>7. b + 1 + 1 = b + 2
  <2>1. b \in Nat
    BY <1>1, Zenon
  <2> QED
    BY <2>1
<1> HIDE DEF i, key, v
<1>8. CASE k = Len(E)
  <2>1. EntryAt(entry, text, i) = [ok |-> TRUE, fields |-> WithField(NoFields, key, v)]
    BY <1>5, <1>6, <1>8, Zenon DEF EntryAt
  <2>2. IsFields(WithField(NoFields, key, v), E, k)
    BY <1>2, <1>8, OneFieldMore, Zenon DEF key, v, e
  <2> QED
    BY <2>1, <2>2, Zenon DEF IsReadFrom, i, a
<1>9. CASE k # Len(E)
  <2>1. PICK f : IsFields(f, E, k + 1) /\ entry[b + 2] = [ok |-> TRUE, fields |-> f]
    BY <1>9, Zenon DEF IsReadFrom, b
  <2>2. entry[b + 2].ok /\ entry[b + 2].fields = f
    <3>1. \A x : [ok |-> TRUE, fields |-> x].ok /\ [ok |-> TRUE, fields |-> x].fields = x
      OBVIOUS
    <3> QED
      BY <2>1, <3>1, Zenon
  <2>3. At(text, NextAt(text, i)) # Tok("}") /\ CommaAt(text, NextAt(text, i))
    BY <1>5, <1>6, <1>9, SignsDiffer, Zenon DEF CommaAt
  <2>4. NextAt(text, i) + 1 = b + 2
    BY <1>5, <1>7, Zenon
  <2>5. EntryAt(entry, text, i) = [ok |-> TRUE, fields |-> WithField(f, key, v)]
    BY <1>5, <2>2, <2>3, <2>4, Zenon DEF EntryAt
  <2>6. IsFields(WithField(f, key, v), E, k)
    BY <1>2, <1>9, <2>1, OneFieldMore, Zenon DEF key, v, e
  <2> QED
    BY <2>5, <2>6, Zenon DEF IsReadFrom, i, a
<1> QED
  BY <1>8, <1>9, Zenon

\* The text of an object is read as its entries mean it.
LEMMA TextIsRead ==
  ASSUME NEW text, NEW E, NEW end, IsReadable(text, E, end)
  PROVE  IsReadFrom(parseObject(text), E, 1)
<1> DEFINE n == Len(E)
<1>1. /\ Len(text) \in Nat /\ n \in Nat /\ n >= 1 /\ end[0] = 0
  BY Zenon DEF IsReadable, IsObjectText
<1>2. PICK entry : /\ IsEntries(entry, text)
                   /\ parseObject(text) =
                        IF At(text, 1) # Tok("{") THEN NotRead
                        ELSE IF At(text, 2) = Tok("}") THEN [ok |-> TRUE, fields |-> NoFields]
                        ELSE entry[2]
  BY <1>1, ParseObjectIs, Zenon
<1>3. \A i \in 1 .. Len(text) + 1 : entry[i] = EntryAt(entry, text, i)
  <2> DEFINE F(i) == EntryAt(entry, text, i)
  <2> HIDE DEF F
  <2>1. entry = [i \in 1 .. Len(text) + 1 |-> F(i)]
    BY <1>2, Zenon DEF IsEntries, F
  <2>2. \A i \in 1 .. Len(text) + 1 : entry[i] = F(i)
    BY <2>1
  <2> QED
    BY <2>2, Zenon DEF F
<1> DEFINE T == {k \in 1 .. n : IsReadFrom(entry[end[k - 1] + 2], E, k)}
<1>4. ASSUME NEW k \in 1 .. n, k # n => IsReadFrom(entry[end[k] + 2], E, k + 1)
      PROVE  k \in T
  <2>1. end[k - 1] + 2 \in 1 .. Len(text) + 1
    <3>1. /\ end[k - 1] \in Nat /\ end[k - 1] + 3 + Len(E[k].value) <= Len(text)
          /\ E[k].value \in Values
      <4>1. BehindEntry(text, E, end, k)
        BY BehindEntries, Zenon
      <4> QED
        BY <4>1, Zenon DEF BehindEntry, PieceAt, IsReadable
    <3>2. Len(E[k].value) = 1 \/ Len(E[k].value) \in Nat
      BY <3>1, ValuesAre, Zenon
    <3> DEFINE x == end[k - 1]
               m == Len(E[k].value)
               l == Len(text)
    <3>3. x \in Nat /\ (m = 1 \/ m \in Nat) /\ l \in Nat /\ x + 3 + m <= l
      BY <1>1, <3>1, <3>2, Zenon
    <3> HIDE DEF x, m, l
    <3>4. x + 2 \in 1 .. l + 1
      BY <3>3
    <3> QED
      BY <3>4, Zenon DEF x, l
  <2>2. entry[end[k - 1] + 2] = EntryAt(entry, text, end[k - 1] + 2)
    BY <1>3, <2>1, Zenon
  <2>3. IsReadFrom(entry[end[k - 1] + 2], E, k)
    BY <1>4, <2>2, EntryFollowed, Zenon
  <2> QED
    BY <2>3, Zenon
<1>5. \A k \in 1 .. n : k \in T
  <2>1. /\ 1 \in Nat /\ n \in 1 .. n
        /\ \A i \in Nat : 1 <= i /\ i < n => i \in 1 .. n /\ (i + 1) - 1 = i
    BY <1>1
  <2>2. n \in T
    BY <1>4, <2>1, Zenon
  <2>3. \A i \in Nat : 1 <= i /\ i < n /\ i + 1 \in T => i \in T
    <3> SUFFICES ASSUME NEW i \in Nat, 1 <= i, i < n, i + 1 \in T PROVE i \in T
      BY Zenon
    <3>0. IsReadFrom(entry[end[(i + 1) - 1] + 2], E, i + 1)
      BY Zenon
    <3>1. IsReadFrom(entry[end[i] + 2], E, i + 1)
      BY <2>1, <3>0, Zenon
    <3> HIDE DEF T
    <3> QED
      BY <1>4, <2>1, <3>1, Zenon
  <2> HIDE DEF T
  <2> QED
    BY <1>1, <2>1, <2>2, <2>3, DownFrom, Zenon
<1>6. IsReadFrom(entry[2], E, 1)
  <2>1. 1 \in 1 .. n /\ 1 - 1 = 0 /\ 0 + 2 = 2
    BY <1>1
  <2>2. IsReadFrom(entry[end[1 - 1] + 2], E, 1)
    BY <1>5, <2>1, Zenon
  <2> QED
    BY <1>1, <2>1, <2>2, Zenon
<1>7. At(text, 1) = Tok("{") /\ At(text, 2) # Tok("}")
  <2>1. 1 \in 1 .. n /\ 1 - 1 = 0 /\ 0 + 1 = 1 /\ 0 + 2 = 2
    BY <1>1
  <2>2. BehindEntry(text, E, end, 1)
    BY <2>1, BehindEntries, Zenon
  <2>3. text[1] = Tok("{") /\ text[2] = Str(E[1].key)
    BY <1>1, <2>1, <2>2, Zenon DEF BehindEntry, PieceAt, Before
  <2>4. 1 <= Len(text) /\ 2 <= Len(text)
    <3>1. 0 + 3 + Len(E[1].value) <= Len(text) /\ E[1].value \in Values
      BY <1>1, <2>1, <2>2, Zenon DEF BehindEntry, PieceAt, IsReadable
    <3>2. Len(E[1].value) = 1 \/ Len(E[1].value) \in Nat
      BY <3>1, ValuesAre, Zenon
    <3> DEFINE m == Len(E[1].value)
               l == Len(text)
    <3>3. (m = 1 \/ m \in Nat) /\ l \in Nat /\ 0 + 3 + m <= l
      BY <1>1, <3>1, <3>2, Zenon
    <3> HIDE DEF m, l
    <3>4. 1 <= l /\ 2 <= l
      BY <3>3
    <3> QED
      BY <3>4, Zenon DEF l
  <2> QED
    BY <2>3, <2>4, SignsDiffer, Zenon DEF At
<1> QED
  BY <1>2, <1>6, <1>7, Zenon

\* The signs of a text with such keys.
AllSigns(K) ==
  {Tok("{"), Tok("}"), Tok("["), Tok("]"), Tok(","), Tok(":")}
  \cup {Str("x"), Str(""), Str("type"), Str("inner"), Str("]")}
  \cup {<<"num", 7>>, <<"word", "true">>} \cup {Str(key) : key \in K}

\* All values consist of them.
LEMMA SignsOfValues ==
  ASSUME NEW K, NEW v \in Values
  PROVE  v \in Seq(AllSigns(K))
<1> DEFINE S == AllSigns(K)
<1>1. /\ Tok("{") \in S /\ Tok("}") \in S /\ Tok("[") \in S /\ Tok("]") \in S /\ Tok(",") \in S
      /\ Tok(":") \in S /\ Str("x") \in S /\ Str("") \in S /\ Str("type") \in S
      /\ Str("inner") \in S /\ Str("]") \in S /\ <<"num", 7>> \in S /\ <<"word", "true">> \in S
  BY Zenon DEF AllSigns
<1> HIDE DEF S
<1>2. \A a \in S : <<a>> \in Seq(S)
  OBVIOUS
<1>3. \A a, b, c \in S : <<a, b, c>> \in Seq(S)
  OBVIOUS
<1>4. \A a, b, c, d, e \in S : <<a, b, c, d, e>> \in Seq(S)
  OBVIOUS
<1>5. Inner \in Seq(S)
  BY <1>1, <1>4, Zenon DEF Inner
<1>6. List \in Seq(S)
  <2> DEFINE x == <<Tok("["), Str("]"), Tok(",")>>
             z == <<Tok("]")>>
  <2>1. x \in Seq(S) /\ z \in Seq(S)
    BY <1>1, <1>2, <1>3, Zenon
  <2>2. List = (x \o Inner) \o z
    BY Zenon DEF List
  <2> HIDE DEF x, z
  <2>3. (x \o Inner) \o z \in Seq(S)
    BY <1>5, <2>1
  <2> QED
    BY <2>2, <2>3, Zenon
<1>7. Word \in Seq(S)
  BY <1>1, <1>2, Zenon DEF Word
<1>8. <<Str("x")>> \in Seq(S) /\ <<Str("")>> \in Seq(S) /\ <<<<"num", 7>>>> \in Seq(S)
  BY <1>1, <1>2, Zenon
<1> QED
  BY <1>5, <1>6, <1>7, <1>8, Zenon DEF Values, S

\* An entry of a sequence of entries.
LEMMA EntryOf ==
  ASSUME NEW K, NEW V, NEW E \in Seq([key : K, value : V]), NEW k \in 1 .. Len(E)
  PROVE  E[k].key \in K /\ E[k].value \in V
<1> DEFINE R == [key : K, value : V]
<1>1. \A r \in R : r.key \in K /\ r.value \in V
  OBVIOUS
<1>2. E \in Seq(R)
  OBVIOUS
<1> HIDE DEF R
<1>3. E[k] \in R
  BY <1>2
<1> QED
  BY <1>1, <1>3, Zenon

\* The text of an object, of whatever keys and however many entries, is read as it was
\* meant: of two entries with one key the later one counts, and nothing inside a nested
\* value is taken for a field, when the last value is no word.
THEOREM ObjectIsRead ==
  ASSUME NEW K, NEW E \in Seq([key : K, value : Values]), E # <<>>, E[Len(E)].value # Word
  PROVE  parseObject(ObjectText(E)) = [ok |-> TRUE, fields |-> Meant(E)]
<1> DEFINE S == AllSigns(K)
           text == ObjectText(E)
<1>1. Len(E) \in Nat /\ Len(E) >= 1 /\ DOMAIN E = 1 .. Len(E)
  OBVIOUS
<1>2. \A k \in 1 .. Len(E) : E[k].key \in K /\ E[k].value \in Values
  BY EntryOf, Zenon
<1>3. HoldsText(S, E)
  <2>1. Tok("{") \in S /\ Tok(",") \in S /\ Tok(":") \in S /\ Tok("}") \in S
    BY Zenon DEF AllSigns
  <2>2. \A key \in K : Str(key) \in S
    BY Zenon DEF AllSigns
  <2> HIDE DEF S
  <2>3. \A v \in Values : v \in Seq(S)
    BY SignsOfValues, Zenon DEF S
  <2> QED
    BY <1>2, <2>1, <2>2, <2>3, Zenon DEF HoldsText, HoldsEntry
<1> HIDE DEF S
<1>4. text \in Seq(S) /\ \E end : IsObjectText(text, E, end)
  BY <1>1, <1>3, ObjectLaidOut, Zenon
<1>5. PICK end : IsObjectText(text, E, end)
  BY <1>4, Zenon
<1>6. Len(text) \in Nat
  BY <1>4
<1> HIDE DEF text
<1>7. IsReadable(text, E, end)
  BY <1>1, <1>2, <1>5, <1>6, Zenon DEF IsReadable
<1>8. PICK f : IsFields(f, E, 1) /\ parseObject(text) = [ok |-> TRUE, fields |-> f]
  BY <1>7, TextIsRead, Zenon DEF IsReadFrom
<1>9. f = Meant(E)
  BY <1>1, <1>8, MeantIs, Zenon
<1> QED
  BY <1>8, <1>9, Zenon DEF text

\* A value that is a string and not empty is the one a type has.
LEMMA TypeOfValues ==
  ASSUME NEW v \in Values
  PROVE  (IsStr(ValueOf(v)) /\ ValueOf(v) # Str("")) <=> ValueOf(v) = <<"str", "x">>
<1>1. Skipped[1] # "str" /\ <<"num", 7>>[1] # "str"
  BY DEF Skipped
<1>2. Str("x") = <<"str", "x">> /\ Str("x")[1] = "str" /\ Str("x") # Str("") /\ Str("")[1] = "str"
  BY DEF Str
<1>3. \A w : <<w>>[1] = w
  OBVIOUS
<1>4. CASE IsAtom(v)
  <2>1. v = <<Str("x")>> \/ v = <<Str("")>> \/ v = <<<<"num", 7>>>>
    BY <1>4, ValuesAre, Zenon DEF Values
  <2>2. v[1] = Str("x") \/ v[1] = Str("") \/ v[1] = <<"num", 7>>
    BY <1>3, <2>1, Zenon
  <2>3. ValueOf(v) = v[1]
    BY <1>4, Zenon DEF ValueOf
  <2> QED
    BY <1>1, <1>2, <2>2, <2>3, Zenon DEF IsStr
<1>5. CASE ~IsAtom(v)
  <2>1. ValueOf(v) = Skipped
    BY <1>5, Zenon DEF ValueOf
  <2> QED
    BY <1>1, <1>2, <2>1, Zenon DEF IsStr
<1> QED
  BY <1>4, <1>5, Zenon

\* A text is a control message when its type is one.
LEMMA ControlIsRead ==
  ASSUME NEW K, NEW E \in Seq([key : K, value : Values]), E # <<>>, E[Len(E)].value # Word
  PROVE  parseControlMessage(ObjectText(E)) =
           IF IsControl(E) THEN [ok |-> TRUE, fields |-> Meant(E)] ELSE NotRead
<1> DEFINE object == parseObject(ObjectText(E))
           M == Meant(E)
           t == M["type"]
<1>1. object = [ok |-> TRUE, fields |-> M]
  BY ObjectIsRead, Zenon
<1>2. object.ok /\ object.fields = M
  <2>1. \A x : [ok |-> TRUE, fields |-> x].ok /\ [ok |-> TRUE, fields |-> x].fields = x
    OBVIOUS
  <2> HIDE DEF object, M
  <2> QED
    BY <1>1, <2>1, Zenon
<1>3. ASSUME "type" \in DOMAIN M
      PROVE  (IsStr(t) /\ t # Str("")) <=> t = <<"str", "x">>
  <2> DEFINE D == KeysFrom(E, 1)
             m == Max(PlacesOfKey(E, "type"))
             R(key) == ValueOf(E[Max(PlacesOfKey(E, key))].value)
  <2>1. Len(E) \in Nat /\ DOMAIN E = 1 .. Len(E)
    OBVIOUS
  <2>2. M = [key \in D |-> R(key)]
    BY <2>1, Zenon DEF Meant, ValueOf, IsAtom, KeysFrom, PlacesOfKey
  <2> HIDE DEF D, R, M
  <2>3. "type" \in D /\ t = R("type")
    <3>1. DOMAIN M = D
      BY <2>2
    <3>2. "type" \in D
      BY <1>3, <3>1, Zenon
    <3> QED
      BY <2>2, <3>2, Zenon
  <2>4. m \in 1 .. Len(E)
    BY <2>1, <2>3, LastWithKey, Zenon DEF D, IsLastOfKey
  <2>5. E[m].value \in Values
    <3> HIDE DEF m
    <3> QED
      BY <2>4, EntryOf, Zenon
  <2>6. t = ValueOf(E[m].value)
    BY <2>3, Zenon DEF R
  <2> QED
    BY <2>5, <2>6, TypeOfValues, Zenon
<1> HIDE DEF object, M
<1>4. parseControlMessage(ObjectText(E)) =
        IF object.ok /\ "type" \in DOMAIN object.fields
           /\ IsStr(object.fields["type"]) /\ object.fields["type"] # Str("")
        THEN object ELSE NotRead
  BY Zenon DEF parseControlMessage, object
<1>5. IsControl(E) <=> "type" \in DOMAIN M /\ t = <<"str", "x">>
  BY Zenon DEF IsControl, M
<1> QED
  BY <1>1, <1>2, <1>3, <1>4, <1>5, Zenon DEF M

\* Every question about objects is answered so.
LEMMA AsksObject ==
  ASSUME [Next]_q, q' # q
  PROVE  FieldsAreRead'
<1> SUFFICES ASSUME q'.kind = "object" PROVE FieldsAreRead'
  BY Zenon DEF FieldsAreRead
<1> DEFINE K == {"type", "a"}
           R == [key : K, value : Values]
           n == 3
<1>1. AskObject
  BY WhoAsks, Zenon
<1>2. PICK E \in BoundedSeq(R, n) : E # <<>> /\ q' = [kind |-> "object", entries |-> E]
  BY <1>1, Zenon DEF AskObject, Ask
<1>3. q'.entries = E
  BY <1>2
<1>4. n \in Nat
  OBVIOUS
<1> HIDE DEF K, n
<1>5. E \in Seq(R)
  BY <1>4, BoundedIsSeq, Zenon
<1>6. E[Len(E)].value # Word =>
        parseControlMessage(ObjectText(E)) =
          IF IsControl(E) THEN [ok |-> TRUE, fields |-> Meant(E)] ELSE NotRead
  BY <1>2, <1>5, ControlIsRead, Zenon
<1> QED
  BY <1>3, <1>6, Zenon DEF FieldsAreRead, Last

\* Every question about frames of the WebSocket is answered as it was meant.
LEMMA AsksFrames ==
  ASSUME PayloadFits, [Next]_q, q' # q
  PROVE  FramesAreParsed'
BY AsksHead, AsksPayload, Zenon DEF FramesAreParsed

\* What is answered stays so.
LEMMA FramesStayParsed ==
  ASSUME FramesAreParsed, q' = q
  PROVE  FramesAreParsed'
<1> DEFINE Heads(x) ==
             x.kind = "head" =>
               LET head == FrameHead(x.opcode, x.len, x.fin, x.key)
                   read == ReadHead(head \o <<1, 2, 3>>)
               IN /\ IF x.len > MaxPayload THEN read = TooLarge
                     ELSE read = [kind |-> "head", fin |-> x.fin, opcode |-> x.opcode,
                                  len |-> x.len, key |-> x.key, next |-> Len(head) + 1]
                  /\ \A n \in 2 .. Len(head) - 1 : ReadHead(SubSeq(head, 1, n)).kind # "head"
           Payloads(x) ==
             x.kind = "payload" =>
               ReadPayload(sendFrame(kOpBinary, x.payload, TRUE, x.key)) = x.payload
<1>1. Heads(q) /\ Payloads(q)
  BY Zenon DEF FramesAreParsed
<1> SUFFICES Heads(q') /\ Payloads(q')
  BY Zenon DEF FramesAreParsed
<1> HIDE DEF Heads, Payloads
<1> QED
  BY <1>1, Zenon

\* What one program writes on the WebSocket the other one reads as it was meant: data
\* frames of every sessionId, strings and control messages, heads and payloads of frames
\* with a mask or without one, and messages cut into fragments.
THEOREM MessagesArrive ==
  ASSUME PayloadFits
  PROVE  Spec => []MessagesSurvive
<1>1. Init => MessagesSurvive
  BY SMT DEF Init, MessagesSurvive, FramesRoundTrip, StringsSurvive, FieldsAreRead,
             FramesAreParsed, FragmentsAddUp
<1>2. MessagesSurvive /\ [Next]_q => MessagesSurvive'
  <2> SUFFICES ASSUME MessagesSurvive, [Next]_q
               PROVE  MessagesSurvive'
    BY Zenon
  <2>1. CASE q' = q
    <3>1. FramesRoundTrip'
      BY <2>1, SMT DEF MessagesSurvive, FramesRoundTrip
    <3>2. StringsSurvive'
      BY <2>1, SMT DEF MessagesSurvive, StringsSurvive
    <3>3. FieldsAreRead'
      BY <2>1, SMT DEF MessagesSurvive, FieldsAreRead
    <3>4. FramesAreParsed'
      BY <2>1, FramesStayParsed, Zenon DEF MessagesSurvive
    <3>5. FragmentsAddUp'
      BY <2>1, SMT DEF MessagesSurvive, FragmentsAddUp
    <3> QED
      BY <3>1, <3>2, <3>3, <3>4, <3>5, Zenon DEF MessagesSurvive
  <2>2. CASE q' # q
    BY <2>2, AsksFrame, AsksString, AsksObject, AsksFrames, AsksMessage, Zenon
       DEF MessagesSurvive
  <2> QED
    BY <2>1, <2>2, Zenon
<1> QED
  BY <1>1, <1>2, PTL DEF Spec
=============================================================================
