------------------------ MODULE ConnAdmissionProofs ------------------------
(***************************************************************************)
(* Proofs about ConnAdmission, for every set of connections, every         *)
(* assignment of addresses and every limit.                                *)
(***************************************************************************)
EXTENDS ConnAdmission, FiniteSetTheorems, TLAPS

(* The connection the accept loop has in hand has no thread yet: without   *)
(* this, the loop could give a counted connection a second start.          *)
InHand == loop \in {"got", "handshake"} => pc[cur] = "accepted"

Inv == TypeOK /\ InHand /\ CountExact

(* A thread that moves within, or outside, the counted states leaves every *)
(* Holding(i) as it is.                                                    *)
LEMMA HoldingKept ==
  ASSUME TypeOK, NEW c \in Conns, NEW at, Goto(c, at),
         pc[c] \in Counted <=> at \in Counted
  PROVE  \A i : Holding(i)' = Holding(i)
BY DEF TypeOK, Goto, Holding

(* The connections an address holds are finitely many. *)
LEMMA HoldingFinite == \A i : IsFiniteSet(Holding(i))
BY FrontAssumption, FS_Subset DEF Holding

(* No connection, no entry. *)
LEMMA InitInv == Init => Inv
<1> SUFFICES ASSUME Init PROVE Inv
  OBVIOUS
<1>1. TypeOK
  BY DEF Init, TypeOK, LoopAt, ThreadAt
<1>2. \A i : Holding(i) = {}
  BY DEF Init, Holding, Counted
<1>3. \A i : ipCount(i) = 0
  BY DEF Init, ipCount
<1>4. InHand
  BY DEF Init, InHand
<1>5. QED
  BY <1>1, <1>2, <1>3, <1>4, FS_EmptySet DEF Inv, CountExact

(* incIp writes a good map: the address has an entry, one above its count. *)
LEMMA IncTyped ==
  ASSUME TypeOK, NEW c \in Conns, incIp(c)
  PROVE  /\ DOMAIN count' \subseteq Ips
         /\ count' \in [DOMAIN count' -> Nat \ {0}]
         /\ \A i \in Ips : ipCount(i)' = IF i = IpOf[c] THEN ipCount(i) + 1 ELSE ipCount(i)
<1>1. IpOf[c] \in Ips
  BY FrontAssumption
<1>2. \A i : ipCount(i) \in Nat
  BY DEF TypeOK, ipCount
<1>3. DOMAIN count' = DOMAIN count \cup {IpOf[c]}
  BY DEF incIp
<1>4. \A i \in DOMAIN count' :
        count'[i] = IF i = IpOf[c] THEN ipCount(i) + 1 ELSE count[i]
  BY DEF incIp
<1>5. \A i \in DOMAIN count' : count'[i] \in Nat \ {0}
  BY <1>2, <1>3, <1>4 DEF TypeOK
<1>6. count' \in [DOMAIN count' -> Nat \ {0}]
  BY <1>5 DEF incIp
<1>7. \A i : ipCount(i)' = IF i = IpOf[c] THEN ipCount(i) + 1 ELSE ipCount(i)
  BY <1>3, <1>4 DEF ipCount
<1>8. QED
  BY <1>1, <1>3, <1>6, <1>7 DEF TypeOK

(* decIp writes a good map as well, and takes one off an address that counts. *)
LEMMA DecTyped ==
  ASSUME TypeOK, NEW c \in Conns, decIp(c)
  PROVE  /\ DOMAIN count' \subseteq Ips
         /\ count' \in [DOMAIN count' -> Nat \ {0}]
         /\ \A i \in Ips : ipCount(i)' =
              IF i = IpOf[c] /\ ipCount(i) > 0 THEN ipCount(i) - 1 ELSE ipCount(i)
<1> DEFINE i == IpOf[c]
           left == IF ipCount(i) <= 1 THEN DOMAIN count \ {i} ELSE DOMAIN count
<1>1. \A j \in DOMAIN count : count[j] \in Nat \ {0}
  BY DEF TypeOK
<1>2. count' = [j \in left |-> IF j = i THEN count[j] - 1 ELSE count[j]]
  BY DEF decIp
<1>3. DOMAIN count' = left /\ left \subseteq DOMAIN count
  BY <1>2
<1>4. \A j \in left : count'[j] = IF j = i THEN count[j] - 1 ELSE count[j]
  BY <1>2
<1>5. i \in left => ipCount(i) > 1 /\ count[i] = ipCount(i)
  BY <1>1 DEF ipCount
<1>6. \A j \in left : count'[j] \in Nat \ {0}
  BY <1>1, <1>3, <1>4, <1>5
<1>7. count' \in [DOMAIN count' -> Nat \ {0}]
  <2> HIDE DEF left
  <2>1. QED
    BY <1>2, <1>3, <1>6
<1>8. ASSUME NEW j
      PROVE  ipCount(j)' = IF j = i /\ ipCount(j) > 0 THEN ipCount(j) - 1 ELSE ipCount(j)
  <2>1. ipCount(j)' = IF j \in left THEN count'[j] ELSE 0
    BY <1>3 DEF ipCount
  <2>2. CASE j # i
    BY <2>1, <2>2, <1>4 DEF ipCount
  <2>3. CASE j = i
    BY <2>1, <2>3, <1>1, <1>4, <1>5 DEF ipCount
  <2>4. QED
    BY <2>2, <2>3
<1>9. QED
  BY <1>3, <1>7, <1>8 DEF TypeOK

(* Every step keeps the types. *)
LEMMA NextTyped == TypeOK /\ [Next]_vars => TypeOK'
<1> SUFFICES ASSUME TypeOK, [Next]_vars PROVE TypeOK'
  OBVIOUS
<1> USE FrontAssumption DEF LoopAt, ThreadAt
<1>1. CASE onSignal
  BY <1>1 DEF onSignal, TypeOK
<1>2. CASE AcceptLoop
  <2>1. CASE LoopTop
    BY <2>1 DEF LoopTop, TypeOK
  <2>2. CASE AcceptNone
    BY <2>2 DEF AcceptNone, TypeOK
  <2>3. CASE Discard
    BY <2>3 DEF Discard, Goto, TypeOK
  <2>4. CASE SpawnPlain
    BY <2>4 DEF SpawnPlain, Spawn, Goto, TypeOK
  <2>5. CASE HandshakeStarts
    BY <2>5 DEF HandshakeStarts, TypeOK
  <2>6. CASE HandshakeDone
    BY <2>6 DEF HandshakeDone, Spawn, Goto, TypeOK
  <2>7. CASE HandshakeFails
    BY <2>7 DEF HandshakeFails, Goto, TypeOK
  <2>8. ASSUME NEW c \in Conns, AcceptOne(c) PROVE TypeOK'
    BY <2>8 DEF AcceptOne, Goto, TypeOK
  <2>9. QED
    BY <1>2, <2>1, <2>2, <2>3, <2>4, <2>5, <2>6, <2>7, <2>8 DEF AcceptLoop
<1>3. ASSUME NEW c \in Conns, Thread(c) PROVE TypeOK'
  <2>1. CASE HeadGood(c)
    BY <2>1 DEF HeadGood, Goto, TypeOK
  <2>2. CASE HeadBad(c)
    BY <2>2 DEF HeadBad, Goto, TypeOK
  <2>3. CASE Admit(c)
    BY <2>3 DEF Admit, Goto, TypeOK
  <2>4. CASE Refuse(c)
    BY <2>4 DEF Refuse, Goto, TypeOK
  <2>5. CASE incIp(c)
    <3>1. DOMAIN count' \subseteq Ips /\ count' \in [DOMAIN count' -> Nat \ {0}]
      BY <2>5, IncTyped
    <3>2. QED
      BY <2>5, <3>1 DEF incIp, Goto, TypeOK
  <2>6. CASE Upgraded(c)
    BY <2>6 DEF Upgraded, Goto, TypeOK
  <2>7. CASE UpgradeFails(c)
    BY <2>7 DEF UpgradeFails, Goto, TypeOK
  <2>8. CASE ReadLoopEnds(c)
    BY <2>8 DEF ReadLoopEnds, Goto, TypeOK
  <2>9. CASE ManagerStops(c)
    BY <2>9 DEF ManagerStops, Goto, TypeOK
  <2>10. CASE decIp(c)
    <3>1. DOMAIN count' \subseteq Ips /\ count' \in [DOMAIN count' -> Nat \ {0}]
      BY <2>10, DecTyped
    <3>2. QED
      BY <2>10, <3>1 DEF decIp, Goto, TypeOK
  <2>11. QED
    BY <1>3, <2>1, <2>2, <2>3, <2>4, <2>5, <2>6, <2>7, <2>8, <2>9, <2>10 DEF Thread
<1>4. ASSUME NEW c \in Conns, Peer(c) PROVE TypeOK'
  <2>1. CASE Connect(c)
    BY <2>1 DEF Connect, Goto, TypeOK
  <2>2. CASE PeerLeaves(c)
    BY <2>2 DEF PeerLeaves, TypeOK
  <2>3. CASE PeerStalls(c)
    BY <2>3 DEF PeerStalls, TypeOK
  <2>4. CASE PeerDrains(c)
    BY <2>4 DEF PeerDrains, TypeOK
  <2>5. CASE TargetStalls(c) \/ TargetDrains(c)
    BY <2>5 DEF TargetStalls, TargetDrains, TypeOK
  <2>6. QED
    BY <1>4, <2>1, <2>2, <2>3, <2>4, <2>5 DEF Peer
<1>5. CASE UNCHANGED vars
  BY <1>5 DEF vars, TypeOK
<1>6. QED
  BY <1>1, <1>2, <1>3, <1>4, <1>5 DEF Next

(* A thread starts where the loop no longer has its connection in hand.    *)
LEMMA NextInHand == TypeOK /\ InHand /\ [Next]_vars => InHand'
<1> SUFFICES ASSUME TypeOK, InHand, [Next]_vars PROVE InHand'
  OBVIOUS
<1> USE DEF InHand, Goto, TypeOK
<1>1. CASE onSignal \/ UNCHANGED vars
  BY <1>1 DEF onSignal, vars
<1>2. CASE AcceptLoop
  BY <1>2 DEF AcceptLoop, LoopTop, AcceptNone, AcceptOne, Discard, SpawnPlain, Spawn,
              HandshakeStarts, HandshakeDone, HandshakeFails
<1>3. ASSUME NEW c \in Conns, Thread(c) PROVE InHand'
  <2>1. pc[c] # "accepted" /\ UNCHANGED <<loop, cur>>
        /\ \A d \in Conns : d # c => pc'[d] = pc[d]
    BY <1>3 DEF Thread, HeadGood, HeadBad, Admit, Refuse, incIp, Upgraded, UpgradeFails,
                ReadLoopEnds, ManagerStops, decIp, At
  <2>2. QED
    BY <2>1
<1>4. ASSUME NEW c \in Conns, Peer(c) PROVE InHand'
  BY <1>4 DEF Peer, Connect, PeerLeaves, PeerStalls, PeerDrains, TargetStalls, TargetDrains
<1>5. QED
  BY <1>1, <1>2, <1>3, <1>4 DEF Next

(* A step that leaves the map and every Holding(i) alone keeps the count exact. *)
LEMMA CountKept ==
  ASSUME CountExact, UNCHANGED count, \A i : Holding(i)' = Holding(i)
  PROVE  CountExact'
BY DEF CountExact, ipCount

(* Every step keeps the count exact. *)
LEMMA NextExact == Inv /\ [Next]_vars => CountExact'
<1> SUFFICES ASSUME TypeOK, InHand, CountExact, [Next]_vars PROVE CountExact'
  BY DEF Inv
<1> USE DEF Counted
<1>1. CASE UNCHANGED <<pc, count>>
  <2>1. \A i : Holding(i)' = Holding(i)
    BY <1>1 DEF Holding
  <2>2. QED
    BY <1>1, <2>1, CountKept
<1>2. ASSUME NEW c \in Conns, NEW at, Goto(c, at), UNCHANGED count,
             pc[c] \in Counted <=> at \in Counted
      PROVE  CountExact'
  BY <1>2, HoldingKept, CountKept
<1>3. CASE AcceptLoop
  <2>1. CASE LoopTop \/ AcceptNone \/ HandshakeStarts
    BY <2>1, <1>1 DEF LoopTop, AcceptNone, HandshakeStarts
  <2>2. ASSUME NEW c \in Conns, AcceptOne(c) PROVE CountExact'
    <3>1. pc[c] = "queued" /\ Goto(c, "accepted") /\ UNCHANGED count
      BY <2>2 DEF AcceptOne
    <3>2. QED
      BY <3>1, <1>2
  <2>3. ASSUME loop \in {"got", "handshake"}, NEW at \in {"done", "head"},
               Goto(cur, at), UNCHANGED count
        PROVE  CountExact'
    <3>1. cur \in Conns /\ pc[cur] = "accepted"
      BY <2>3 DEF TypeOK, InHand
    <3>2. QED
      BY <2>3, <3>1, <1>2
  <2>4. CASE Discard \/ SpawnPlain \/ HandshakeDone \/ HandshakeFails
    <3>1. PICK at \in {"done", "head"} : Goto(cur, at)
      BY <2>4 DEF Discard, SpawnPlain, HandshakeDone, HandshakeFails, Spawn
    <3>2. QED
      BY <2>3, <2>4, <3>1
      DEF Discard, SpawnPlain, HandshakeDone, HandshakeFails, Spawn
  <2>5. QED
    BY <1>3, <2>1, <2>2, <2>4 DEF AcceptLoop
<1>4. ASSUME NEW c \in Conns, incIp(c) PROVE CountExact'
  <2>1. \A i \in Ips : ipCount(i)' = IF i = IpOf[c] THEN ipCount(i) + 1 ELSE ipCount(i)
    BY <1>4, IncTyped
  <2>2. Holding(IpOf[c])' = Holding(IpOf[c]) \cup {c} /\ c \notin Holding(IpOf[c])
    BY <1>4 DEF incIp, At, Goto, Holding, TypeOK
  <2>3. \A i : i # IpOf[c] => Holding(i)' = Holding(i)
    BY <1>4 DEF incIp, At, Goto, Holding, TypeOK
  <2>4. Cardinality(Holding(IpOf[c]) \cup {c}) = Cardinality(Holding(IpOf[c])) + 1
    BY <2>2, HoldingFinite, FS_AddElement
  <2>5. QED
    BY <2>1, <2>2, <2>3, <2>4 DEF CountExact
<1>5. ASSUME NEW c \in Conns, decIp(c) PROVE CountExact'
  <2>1. \A i \in Ips : ipCount(i)' =
          IF i = IpOf[c] /\ ipCount(i) > 0 THEN ipCount(i) - 1 ELSE ipCount(i)
    BY <1>5, DecTyped
  <2>2. Holding(IpOf[c])' = Holding(IpOf[c]) \ {c} /\ c \in Holding(IpOf[c])
    BY <1>5 DEF decIp, At, Goto, Holding, TypeOK
  <2>3. \A i : i # IpOf[c] => Holding(i)' = Holding(i)
    BY <1>5 DEF decIp, At, Goto, Holding, TypeOK
  <2>4. Cardinality(Holding(IpOf[c]) \ {c}) = Cardinality(Holding(IpOf[c])) - 1
    BY <2>2, HoldingFinite, FS_RemoveElement
  <2>5. Cardinality(Holding(IpOf[c])) \in Nat /\ Cardinality(Holding(IpOf[c])) # 0
    BY <2>2, HoldingFinite, FS_EmptySet, FS_CardinalityType
  <2>6. IpOf[c] \in Ips
    BY FrontAssumption
  <2>7. ipCount(IpOf[c])' = Cardinality(Holding(IpOf[c])) - 1
    <3> DEFINE n == Cardinality(Holding(IpOf[c]))
    <3>1. n \in Nat /\ n # 0 /\ ipCount(IpOf[c]) = n
      BY <2>5, <2>6 DEF CountExact
    <3> HIDE DEF n
    <3>2. ipCount(IpOf[c])' = n - 1
      BY <3>1, <2>1, <2>6
    <3>3. QED
      BY <3>2 DEF n
  <2>8. ASSUME NEW i \in Ips PROVE ipCount(i)' = Cardinality(Holding(i)')
    <3>1. CASE i = IpOf[c]
      BY <3>1, <2>2, <2>4, <2>7
    <3>2. CASE i # IpOf[c]
      BY <3>2, <2>1, <2>3 DEF CountExact
    <3>3. QED
      BY <3>1, <3>2
  <2>9. QED
    BY <2>8 DEF CountExact
<1>6. ASSUME NEW c \in Conns, Thread(c) PROVE CountExact'
  <2>1. CASE incIp(c) \/ decIp(c)
    BY <2>1, <1>4, <1>5
  <2>2. CASE HeadGood(c)
    BY <2>2, <1>2 DEF HeadGood, At
  <2>3. CASE HeadBad(c) \/ Admit(c) \/ Refuse(c)
    BY <2>3, <1>2 DEF HeadBad, Admit, Refuse, At
  <2>4. CASE Upgraded(c) \/ UpgradeFails(c)
    BY <2>4, <1>2 DEF Upgraded, UpgradeFails, At
  <2>5. CASE ReadLoopEnds(c) \/ ManagerStops(c)
    BY <2>5, <1>2 DEF ReadLoopEnds, ManagerStops, At
  <2>6. QED
    BY <1>6, <2>1, <2>2, <2>3, <2>4, <2>5 DEF Thread
<1>7. ASSUME NEW c \in Conns, Peer(c) PROVE CountExact'
  <2>1. CASE Connect(c)
    BY <2>1, <1>2 DEF Connect
  <2>2. CASE PeerLeaves(c) \/ PeerStalls(c) \/ PeerDrains(c)
    BY <2>2, <1>1 DEF PeerLeaves, PeerStalls, PeerDrains
  <2>3. CASE TargetStalls(c) \/ TargetDrains(c)
    BY <2>3, <1>1 DEF TargetStalls, TargetDrains
  <2>4. QED
    BY <1>7, <2>1, <2>2, <2>3 DEF Peer
<1>8. CASE onSignal \/ UNCHANGED vars
  BY <1>8, <1>1 DEF onSignal, vars
<1>9. QED
  BY <1>3, <1>6, <1>7, <1>8 DEF Next

LEMMA InvHolds == Spec => []Inv
<1>1. Inv /\ [Next]_vars => Inv'
  BY NextTyped, NextInHand, NextExact DEF Inv
<1>2. QED
  BY InitInv, <1>1, PTL DEF Spec

(* The front's state keeps its types: in particular no entry of            *)
(* g_perIpCount reaches zero or goes below it.                             *)
THEOREM TypeCorrect == Spec => []TypeOK
<1>1. Inv => TypeOK
  BY DEF Inv
<1>2. QED
  BY InvHolds, <1>1, PTL

(* For any number of connections and addresses, g_perIpCount is the number *)
(* of connections of each address that are between incIp and decIp.        *)
THEOREM CountIsExact == Spec => []CountExact
<1>1. Inv => CountExact
  BY DEF Inv
<1>2. QED
  BY InvHolds, <1>1, PTL

(* The check of the limit never turns a peer away while its address holds  *)
(* fewer than maxSessionsPerIp connections.                                *)
THEOREM NoEarlyRefusal == Spec => RefusedOnlyWhenFull
<1>1. ASSUME Inv, NEW c \in Conns, Refuse(c)
      PROVE  Cardinality(Holding(IpOf[c])) >= MaxPerIp
  <2>1. IpOf[c] \in Ips
    BY FrontAssumption
  <2>2. QED
    BY <1>1, <2>1 DEF Inv, CountExact, Refuse
<1>2. Inv /\ [Next]_vars
        => [\A c \in Conns : Refuse(c) => Cardinality(Holding(IpOf[c])) >= MaxPerIp]_vars
  BY <1>1
<1>3. QED
  BY InvHolds, <1>2, PTL DEF Spec, RefusedOnlyWhenFull
=============================================================================
