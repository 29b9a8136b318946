---------------------------- MODULE Control_proofs ----------------------------
(***************************************************************************)
(* Proofs about Control, for any numbers of servers and zones, any loads   *)
(* and any bounds.                                                         *)
(***************************************************************************)
EXTENDS Control, FiniteSetTheorems, SequenceTheorems, WellFoundedInduction,
        TLAPS

USE CountsAssumption, LoadsAssumption, RouterAssumption, FlagsAssumption

-----------------------------------------------------------------------------
(* Numbers and orders. *)

(* The first n numbers are n. *)
LEMMA FirstNumbers ==
  ASSUME NEW n \in Nat
  PROVE  IsFiniteSet(1 .. n) /\ Cardinality(1 .. n) = n
BY FS_Interval

(* A function on the first n numbers is a sequence. *)
LEMMA Tuples ==
  ASSUME NEW n \in Nat, NEW S, NEW f \in [1 .. n -> S]
  PROVE  f \in Seq(S) /\ Len(f) = n /\ DOMAIN f = 1 .. n
OBVIOUS

(* R orders S. *)
Orders(R, S) ==
    /\ \A x \in S : <<x, x>> \in R
    /\ \A x, y \in S : <<x, y>> \in R \/ <<y, x>> \in R
    /\ \A x, y \in S : <<x, y>> \in R /\ <<y, x>> \in R => x = y
    /\ \A x, y, z \in S : <<x, y>> \in R /\ <<y, z>> \in R => <<x, z>> \in R

Below(R, S, x) == {y \in S : <<y, x>> \in R}

(* Counting what is below numbers the elements.                            *)
Numbered(R, S) ==
    /\ Cardinality(S) \in Nat
    /\ \A x \in S : Cardinality(Below(R, S, x)) \in 1 .. Cardinality(S)
    /\ \A x, y \in S : Cardinality(Below(R, S, x)) = Cardinality(Below(R, S, y)) => x = y
    /\ \A k \in 1 .. Cardinality(S) : \E x \in S : Cardinality(Below(R, S, x)) = k

(* It does so in a finite ordered set. *)
LEMMA Ranks ==
  ASSUME NEW S, IsFiniteSet(S), NEW R, Orders(R, S)
  PROVE  Numbered(R, S)
<1> DEFINE rank == [x \in S |-> Cardinality(Below(R, S, x))]
           n == Cardinality(S)
<1>1. n \in Nat
  BY FS_CardinalityType
<1>2. \A x \in S : /\ IsFiniteSet(Below(R, S, x))
                   /\ Cardinality(Below(R, S, x)) \in Nat
                   /\ Cardinality(Below(R, S, x)) <= n
                   /\ x \in Below(R, S, x)
  BY FS_Subset, FS_CardinalityType DEF Below, Orders
<1>3. \A x \in S : Cardinality(Below(R, S, x)) \in 1 .. n
  BY <1>1, <1>2, FS_EmptySet
<1>4. ASSUME NEW x \in S, NEW y \in S, rank[x] = rank[y], <<x, y>> \in R
      PROVE  x = y
  <2>1. Below(R, S, x) \in SUBSET Below(R, S, y)
    BY <1>4 DEF Below, Orders
  <2>2. Below(R, S, y) = Below(R, S, x)
    BY <1>2, <1>4, <2>1, FS_Subset
  <2> QED
    BY <1>2, <1>4, <2>2 DEF Below, Orders
<1>5. \A x, y \in S : rank[x] = rank[y] => x = y
  BY <1>4 DEF Orders
<1>6. rank \in Injection(S, 1 .. n)
  BY <1>3, <1>5 DEF Injection, IsInjective
<1>7. IsFiniteSet(1 .. n) /\ Cardinality(1 .. n) = n
  BY <1>1, FS_Interval
<1>8. rank \in Surjection(S, 1 .. n)
  BY <1>6, <1>7, FS_Injection
<1>9. \A k \in 1 .. n : \E x \in S : rank[x] = k
  BY <1>8 DEF Surjection
<1> QED
  BY <1>1, <1>3, <1>5, <1>9 DEF Numbered

(* Numbers in their order: each of them once. *)
LEMMA AscendingProperties ==
  ASSUME NEW S \in SUBSET Int, IsFiniteSet(S)
  PROVE  /\ Ascending(S) \in Seq(S)
         /\ Len(Ascending(S)) = Cardinality(S) /\ Cardinality(S) \in Nat
         /\ {Ascending(S)[k] : k \in DOMAIN Ascending(S)} = S
<1> DEFINE R == {p \in S \X S : p[1] <= p[2]}
           rank(x) == Cardinality({y \in S : y <= x})
           a == [k \in 1 .. Cardinality(S) |-> CHOOSE x \in S : rank(x) = k]
<1>1. Orders(R, S)
  BY DEF Orders
<1>2. \A x \in S : rank(x) = Cardinality(Below(R, S, x))
  <2>1. \A x \in S : {y \in S : y <= x} = Below(R, S, x)
    BY DEF Below
  <2> QED
    BY <2>1
<1>3. Ascending(S) = a
  BY DEF Ascending
<1> HIDE DEF R, rank
<1>4. /\ Cardinality(S) \in Nat
      /\ \A x \in S : rank(x) \in 1 .. Cardinality(S)
      /\ \A x, y \in S : rank(x) = rank(y) => x = y
      /\ \A k \in 1 .. Cardinality(S) : \E x \in S : rank(x) = k
  <2>1. Numbered(R, S)
    BY <1>1, Ranks
  <2> QED
    BY <1>2, <2>1 DEF Numbered
<1>5. \A k \in 1 .. Cardinality(S) : a[k] \in S /\ rank(a[k]) = k
  BY <1>4
<1>6. \A x \in S : rank(x) \in 1 .. Cardinality(S) /\ a[rank(x)] = x
  BY <1>4, <1>5
<1>7. a \in [1 .. Cardinality(S) -> S]
  BY <1>5
<1> HIDE DEF a
<1>8. a \in Seq(S) /\ Len(a) = Cardinality(S) /\ DOMAIN a = 1 .. Cardinality(S)
  BY <1>4, <1>7, Tuples
<1>9. {a[k] : k \in DOMAIN a} = S
  BY <1>5, <1>6, <1>8
<1> QED
  BY <1>3, <1>4, <1>8, <1>9

(* Sorting leaves the same servers in the list, as many as before.         *)
LEMMA SortedProperties ==
  ASSUME servers \in Seq(Ids), NEW key \in [Ids -> Int]
  PROVE  /\ Sorted(key) \in Seq(Ids) /\ Len(Sorted(key)) = Len(servers)
         /\ {Sorted(key)[k] : k \in DOMAIN Sorted(key)} = Listed
<1> DEFINE D == 1 .. Len(servers)
           K(k) == key[servers[k]]
           R == {p \in D \X D : K(p[1]) < K(p[2]) \/ (K(p[1]) = K(p[2]) /\ p[1] <= p[2])}
           rank(k) == Cardinality({j \in DOMAIN servers :
                        \/ key[servers[j]] < key[servers[k]]
                        \/ key[servers[j]] = key[servers[k]] /\ j <= k})
           perm(r) == CHOOSE k \in DOMAIN servers : rank(k) = r
<1>1. /\ Len(servers) \in Nat /\ DOMAIN servers = D
      /\ \A k \in D : k \in Int /\ K(k) \in Int /\ servers[k] \in Ids
  OBVIOUS
<1>2. IsFiniteSet(D) /\ Cardinality(D) = Len(servers)
  BY <1>1, FirstNumbers
<1>3. Orders(R, D)
  <2> HIDE DEF D
  <2>1. \A j, k \in D : <<j, k>> \in R <=> K(j) < K(k) \/ (K(j) = K(k) /\ j <= k)
    OBVIOUS
  <2>2. \A k \in D : k \in Int /\ K(k) \in Int
    BY <1>1
  <2> HIDE DEF R, K
  <2>3. \A k \in D : <<k, k>> \in R
    BY <2>1, <2>2
  <2>4. ASSUME NEW j \in D, NEW k \in D PROVE <<j, k>> \in R \/ <<k, j>> \in R
    <3>1. \A a, b, c, d \in Int : \/ a < b \/ (a = b /\ c <= d)
                                 \/ b < a \/ (b = a /\ d <= c)
      OBVIOUS
    <3>2. \/ K(j) < K(k) \/ (K(j) = K(k) /\ j <= k)
          \/ K(k) < K(j) \/ (K(k) = K(j) /\ k <= j)
      BY <2>2, <3>1, Zenon
    <3> QED
      BY <2>1, <3>2, Zenon
  <2>5. ASSUME NEW j \in D, NEW k \in D, <<j, k>> \in R, <<k, j>> \in R PROVE j = k
    <3>1. \A a, b, c, d \in Int : (a < b \/ (a = b /\ c <= d))
                                 /\ (b < a \/ (b = a /\ d <= c)) => c = d
      OBVIOUS
    <3>2. (K(j) < K(k) \/ (K(j) = K(k) /\ j <= k)) /\ (K(k) < K(j) \/ (K(k) = K(j) /\ k <= j))
      BY <2>1, <2>5, Zenon
    <3> QED
      BY <2>2, <3>1, <3>2, Zenon
  <2>6. \A j, k, l \in D : <<j, k>> \in R /\ <<k, l>> \in R => <<j, l>> \in R
    BY <2>1, <2>2
  <2> QED
    BY <2>3, <2>4, <2>5, <2>6 DEF Orders
<1>4. \A k \in D : rank(k) = Cardinality(Below(R, D, k))
  <2>1. \A k \in D : Below(R, D, k) = {j \in DOMAIN servers :
                        \/ key[servers[j]] < key[servers[k]]
                        \/ key[servers[j]] = key[servers[k]] /\ j <= k}
    BY <1>1 DEF Below
  <2> QED
    BY <2>1
<1> HIDE DEF rank, R
<1>5. /\ \A k \in D : rank(k) \in D
      /\ \A j, k \in D : rank(j) = rank(k) => j = k
      /\ \A r \in D : \E k \in D : rank(k) = r
  <2> HIDE DEF D
  <2>1. Numbered(R, D)
    BY <1>2, <1>3, Ranks
  <2>2. D = 1 .. Cardinality(D)
    BY <1>2 DEF D
  <2> QED
    BY <1>4, <2>1, <2>2 DEF Numbered
<1>6. \A r \in D : perm(r) \in D /\ rank(perm(r)) = r
  BY <1>1, <1>5
<1>7. \A k \in D : perm(rank(k)) = k
  BY <1>5, <1>6
<1>8. Sorted(key) = [r \in DOMAIN servers |-> servers[perm(r)]]
  BY DEF Sorted, rank
<1> HIDE DEF perm
<1> DEFINE t == [r \in D |-> servers[perm(r)]]
<1>9. Sorted(key) = t
  BY <1>1, <1>8
<1>10. t \in [D -> Ids]
  BY <1>1, <1>6
<1>11. t \in Seq(Ids) /\ Len(t) = Len(servers) /\ DOMAIN t = D
  BY <1>1, <1>10, Tuples
<1>12. {t[k] : k \in DOMAIN t} = Listed
  BY <1>1, <1>5, <1>6, <1>7, <1>11 DEF Listed
<1> QED
  BY <1>9, <1>11, <1>12

(* What is left of m zones over n servers. *)
LEMMA Remainder ==
  ASSUME NEW m \in Nat, NEW n \in Nat, n > 0
  PROVE  /\ m % n \in Nat /\ m % n < n /\ m % n <= m
         /\ m >= n => m - (m % n) >= n
         /\ m < n => m % n = m
<1>1. m % n \in 0 .. n - 1 /\ m = n * (m \div n) + (m % n) /\ m \div n \in Int
  OBVIOUS
<1>2. \A a, b \in Int : a > 0 /\ b >= 1 => a * b >= a
  OBVIOUS
<1>3. \A a, b \in Int : a > 0 /\ b <= -1 => a * b <= -a
  OBVIOUS
<1>4. m \div n >= 0
  <2>1. CASE m \div n <= -1
    <3>1. n * (m \div n) <= -n
      BY <1>1, <1>3, <2>1
    <3> QED
      BY <1>1, <3>1
  <2> QED
    BY <1>1, <2>1
<1>5. n * (m \div n) >= 0
  <2>1. CASE m \div n >= 1
    BY <1>1, <1>2, <2>1
  <2>2. CASE m \div n = 0
    BY <2>2
  <2> QED
    BY <1>1, <1>4, <2>1, <2>2
<1>6. m >= n => n * (m \div n) >= n
  <2>1. CASE m \div n >= 1
    BY <1>1, <1>2, <2>1
  <2>2. CASE m \div n = 0
    BY <1>1, <2>2
  <2> QED
    BY <1>1, <1>4, <2>1, <2>2
<1>7. m < n => m % n = m
  <2>1. CASE m \div n >= 1
    BY <1>1, <1>2, <2>1
  <2>2. CASE m \div n = 0
    BY <1>1, <2>2
  <2> QED
    BY <1>1, <1>4, <2>1, <2>2
<1> QED
  BY <1>1, <1>5, <1>6, <1>7

-----------------------------------------------------------------------------
(* The types, and the counts of zoneAssignment. *)

(* Without any server Control has crashed. *)
StartedInv == pc # "connect" /\ status = "running" => Len(servers) > 0

(* The zones of the front server come first.  The zones that remain are at *)
(* least those that have no server yet.                                    *)
FrontInv ==
    pc = "front" /\ status = "running" =>
        /\ at <= modZonesPerServer /\ zoneIndex = modZonesPerServer
        /\ zonesRestants >= NZones - at
AssignInv ==
    pc = "assign" /\ status = "running" =>
        /\ at \in 1 .. Len(servers)
        /\ zoneIndex >= modZonesPerServer
        /\ zonesRestants >= NZones - zoneIndex

AskInv == pc = "ask" => at >= 1

AddressInv == address \in [Ids -> Ids]

CInv == TypeOK /\ AddressInv /\ StartedInv /\ FrontInv /\ AssignInv /\ AskInv

(* A set of natural numbers has a least one. *)
LEMMA Least ==
  ASSUME NEW S \in SUBSET Nat, S # {}
  PROVE  \E x \in S : \A y \in S : x <= y
<1> DEFINE R == OpToRel(<, Nat)
<1>1. R = {p \in Nat \X Nat : p[1] < p[2]}
  BY Zenon DEF OpToRel
<1>2. IsWellFoundedOn(R, Nat)
  BY NatLessThanWellFounded
<1> HIDE DEF R
<1>3. PICK x \in S : \A y \in S : <<y, x>> \notin R
  BY <1>2, WFMin
<1>4. ASSUME NEW y \in S PROVE x <= y
  <2>1. x \in Nat /\ y \in Nat /\ (<<y, x>> \in {p \in Nat \X Nat : p[1] < p[2]} <=> y < x)
    OBVIOUS
  <2>2. ~(y < x)
    BY <1>1, <1>3, <2>1, Zenon
  <2> QED
    BY <2>1, <2>2
<1> QED
  BY <1>4

(* The ids. *)
LEMMA IdsFinite == IsFiniteSet(Ids) /\ Cardinality(Ids) = NServers /\ NServers \in Nat
BY FS_Interval DEF Ids

(* No more servers are listed than there are ids.                          *)
LEMMA ListSize ==
  ASSUME TypeOK
  PROVE  /\ Listed \in SUBSET Ids /\ IsFiniteSet(Listed)
         /\ Len(servers) \in Nat /\ Len(servers) = Cardinality(Listed)
         /\ Len(servers) <= NServers
<1>1. servers \in Seq(Ids) /\ Len(servers) = Cardinality(Listed)
  BY DEF TypeOK
<1>2. Listed \in SUBSET Ids
  BY <1>1 DEF Listed
<1> QED
  BY <1>1, <1>2, IdsFinite, FS_Subset

(* With a list, the remainder of the division is defined. *)
LEMMA ModZones ==
  ASSUME TypeOK, Len(servers) > 0
  PROVE  /\ modZonesPerServer \in Nat /\ modZonesPerServer < Len(servers)
         /\ modZonesPerServer <= NZones
         /\ NZones >= Len(servers) => NZones - modZonesPerServer >= Len(servers)
         /\ NZones < Len(servers) => modZonesPerServer = NZones
BY ListSize, Remainder DEF modZonesPerServer, numberServers

(* The zones a server has are no more than there are. *)
LEMMA ManagedSize ==
  ASSUME TypeOK, NEW s \in Ids
  PROVE  /\ managed[s] \in SUBSET Zones /\ IsFiniteSet(managed[s])
         /\ Cardinality(managed[s]) \in 0 .. NZones
         /\ managed[s] # {} => Cardinality(managed[s]) > 0
<1>1. managed[s] \in SUBSET Zones
  BY DEF TypeOK
<1>2. IsFiniteSet(Zones) /\ Cardinality(Zones) = NZones
  BY FS_Interval DEF Zones
<1>3. IsFiniteSet(managed[s]) /\ Cardinality(managed[s]) <= NZones
  BY <1>1, <1>2, FS_Subset
<1> QED
  BY <1>1, <1>3, FS_CardinalityType, FS_EmptySet

(* The answers of a server: one for each of its zones, counted down to 0.  *)
LEMMA AnswersOfProperties ==
  ASSUME TypeOK, NEW s \in Ids
  PROVE  /\ AnswersOf(s) \in Seq(Answers)
         /\ Len(AnswersOf(s)) = Cardinality(managed[s])
         /\ \A k \in 1 .. Len(AnswersOf(s)) :
               /\ AnswersOf(s)[k].remaining = Cardinality(managed[s]) - k
               /\ ~AnswersOf(s)[k].stale
<1> DEFINE zones == Ascending(managed[s])
           n == Cardinality(managed[s])
           answers == [k \in DOMAIN zones |->
                          [zone |-> zones[k], remaining |-> Len(zones) - k, stale |-> FALSE]]
<1>1. managed[s] \in SUBSET Int /\ managed[s] \in SUBSET Zones /\ IsFiniteSet(managed[s])
  BY ManagedSize DEF Zones
<1>2. zones \in Seq(managed[s]) /\ Len(zones) = n /\ n \in Nat
  BY <1>1, AscendingProperties
<1>3. n <= NZones
  BY ManagedSize
<1> HIDE DEF zones, n
<1>4. DOMAIN zones = 1 .. n /\ \A k \in 1 .. n : zones[k] \in Zones
  BY <1>1, <1>2
<1>5. answers \in [1 .. n -> Answers]
  BY <1>2, <1>3, <1>4 DEF Answers
<1>6. \A k \in 1 .. n : answers[k].remaining = n - k /\ ~answers[k].stale
  BY <1>2, <1>4
<1>7. AnswersOf(s) = answers
  BY DEF AnswersOf, zones
<1> HIDE DEF answers
<1>8. answers \in Seq(Answers) /\ Len(answers) = n
  BY <1>2, <1>5, Tuples
<1> QED
  BY <1>6, <1>7, <1>8 DEF n

(* A message that is handled changes the figures of its server only.       *)
LEMMA HandleProperties ==
  ASSUME TypeOK, NEW s \in Ids, NEW msg \in Answers, NEW value \in Loads,
         Handle(s, msg, value)
  PROVE  /\ load' \in [Ids -> [Zones -> Loads \cup {0}]]
         /\ totalLoad' \in [Ids -> Nat]
         /\ mask' = IF msg.remaining = 0 THEN mask \ {s} ELSE mask
         /\ heard' = IF msg.remaining = 0 /\ ~msg.stale THEN heard \cup {s} ELSE heard
         /\ mask' \subseteq Ids /\ heard' \subseteq Ids
<1>1. value \in Nat
  BY DEF TypeOK
<1>2. msg.zone \in Zones
  BY DEF Answers
<1>3. load' \in [Ids -> [Zones -> Loads \cup {0}]]
  BY <1>2 DEF Handle, TypeOK
<1>4. totalLoad' \in [Ids -> Nat]
  BY <1>1 DEF Handle, TypeOK
<1> QED
  BY <1>3, <1>4 DEF Handle, TypeOK

Marked(u) == [k \in DOMAIN u |-> [u[k] EXCEPT !.stale = TRUE]]

(* A request: what was under way is of an earlier round, and the answers   *)
(* follow it.                                                              *)
LEMMA RequestProperties ==
  ASSUME TypeOK, NEW s \in Ids, NEW u \in Seq(Answers), Request(s, u)
  PROVE  /\ coming' \in [Ids -> Seq(Answers)]
         /\ \A i \in Ids : i # s => coming'[i] = coming[i]
         /\ u = <<>> => coming'[s] = AnswersOf(s)
         /\ Cardinality(managed[s]) > 0 =>
               \E k \in DOMAIN coming'[s] : coming'[s][k].remaining = 0
<1> DEFINE m == Marked(u)
           a == AnswersOf(s)
<1>1. m \in [1 .. Len(u) -> Answers] /\ Len(u) \in Nat
  <2>1. \A r \in Answers : [r EXCEPT !.stale = TRUE] \in Answers
    BY DEF Answers
  <2>2. Len(u) \in Nat /\ DOMAIN u = 1 .. Len(u) /\ \A k \in 1 .. Len(u) : u[k] \in Answers
    OBVIOUS
  <2> QED
    BY <2>1, <2>2 DEF Marked
<1>2. m \in Seq(Answers) /\ Len(m) = Len(u)
  BY <1>1, Tuples
<1>3. a \in Seq(Answers) /\ Len(a) = Cardinality(managed[s])
  BY AnswersOfProperties
<1>4. /\ m \o a \in Seq(Answers) /\ Len(m \o a) = Len(m) + Len(a)
      /\ \A k \in 1 .. Len(m) + Len(a) :
            (m \o a)[k] = IF k <= Len(m) THEN m[k] ELSE a[k - Len(m)]
  BY <1>2, <1>3, ConcatProperties, Zenon
<1>5. coming' = [coming EXCEPT ![s] = m \o a]
  BY DEF Request, Marked
<1>6. \A k \in 1 .. Len(a) : a[k].remaining = Cardinality(managed[s]) - k
  BY AnswersOfProperties
<1> HIDE DEF m, a
<1>7. coming' \in [Ids -> Seq(Answers)] /\ coming'[s] = m \o a
  BY <1>4, <1>5 DEF TypeOK
<1>8. ASSUME Cardinality(managed[s]) > 0
      PROVE  \E k \in DOMAIN coming'[s] : coming'[s][k].remaining = 0
  <2>1. Len(a) \in 1 .. Len(a) /\ Len(a) \in Nat /\ Len(m) \in Nat
    BY <1>2, <1>3, <1>8
  <2>2. Len(m) + Len(a) \in DOMAIN (m \o a)
    BY <1>4, <2>1
  <2>3. (m \o a)[Len(m) + Len(a)] = a[Len(a)]
    BY <1>4, <2>1
  <2>4. a[Len(a)].remaining = 0
    BY <1>3, <1>6, <2>1
  <2> QED
    BY <1>7, <2>2, <2>3, <2>4
<1>9. u = <<>> => m \o a = a
  BY <1>1, <1>2, <1>3, <1>4
<1> QED
  BY <1>5, <1>7, <1>8, <1>9 DEF a, TypeOK

(* What the steps after the first one do to the list: at most, order it.   *)
Rest ==
    \/ AssignFront \/ Assign
    \/ Ask \/ Test \/ Alarm \/ Wake \/ Sort
    \/ OrderMove \/ WriteMove \/ EndBalance \/ Rebalance
    \/ \E s \in Ids : ReceiveLoad(s) \/ MissServer(s)
    \/ \E l \in Links : Drop(l)
    \/ \E z \in Zones : NewUser(z)
    \/ DisconnectUser

(* The servers in the list stay the same, as many as before.               *)
LEMMA ListStays ==
  ASSUME CInv, Rest
  PROVE  /\ servers' \in Seq(Ids) /\ Len(servers') = Len(servers) /\ Listed' = Listed
         /\ modZonesPerServer' = modZonesPerServer
<1>0. servers \in Seq(Ids)
  BY DEF CInv, TypeOK
<1>1. CASE servers' = servers
  BY <1>0, <1>1 DEF Listed, modZonesPerServer, numberServers
<1>2. ASSUME NEW key \in [Ids -> Int], servers' = Sorted(key)
      PROVE  /\ servers' \in Seq(Ids) /\ Len(servers') = Len(servers) /\ Listed' = Listed
  BY <1>0, <1>2, SortedProperties DEF Listed
<1>3. CASE Sort
  <2>1. totalLoad \in [Ids -> Int] /\ servers' = Sorted(totalLoad)
    BY <1>3 DEF Sort, CInv, TypeOK
  <2> QED
    BY <1>2, <2>1 DEF modZonesPerServer, numberServers
<1>4. CASE WriteMove /\ servers' = Sorted(address)
  <2>1. address \in [Ids -> Int]
    BY DEF CInv, AddressInv, Ids
  <2> QED
    BY <1>2, <1>4, <2>1 DEF modZonesPerServer, numberServers
<1>5. servers' = servers \/ Sort \/ (WriteMove /\ servers' = Sorted(address))
  BY DEF Rest, AssignFront, Assign, Ask, Test, Alarm, Wake, OrderMove, WriteMove,
     EndBalance, Rebalance,
     ReceiveLoad, MissServer, Drop, NewUser, DisconnectUser
<1> QED
  BY <1>1, <1>3, <1>4, <1>5

(* A zone that is given. *)
LEMMA GiveType ==
  ASSUME TypeOK, NEW s \in Ids, NEW z \in Zones, GiveZone(s, z)
  PROVE  /\ zoneServer' \in [Zones -> Ids \cup {NoServer}]
         /\ distribution' \in [Ids -> Seq(Zones)]
         /\ totalLoad' \in [Ids -> Nat]
         /\ managed' \in [Ids -> SUBSET Zones]
         /\ UNCHANGED <<load, coming, heard>>
<1>1. distribution' \in [Ids -> Seq(Zones)]
  <2>1. Append(distribution[s], z) \in Seq(Zones)
    BY DEF TypeOK
  <2> QED
    BY <2>1 DEF GiveZone, TypeOK
<1>2. managed' \in [Ids -> SUBSET Zones]
  BY DEF GiveZone, TypeOK
<1> QED
  BY <1>1, <1>2 DEF GiveZone, TypeOK

(* What StartRounds leaves is of its type. *)
LEMMA StartRoundsType ==
  ASSUME TypeOK, StartRounds
  PROVE  /\ pc' = "ask" /\ at' = 1 /\ mask' \subseteq Ids
         /\ zoneIndex' \in 0 .. NZones /\ zonesRestants' \in 0 .. NZones
         /\ UNCHANGED <<changedZonePosition, timeout, first>>
<1>1. Len(servers) \in Nat /\ Len(servers) <= NServers
  BY ListSize
<1> QED
  BY <1>1 DEF StartRounds, Goto, numberServers, Ids

(* The first step makes the list, which is empty only in a crash.          *)
LEMMA ConnectStep == ASSUME CInv, Connect PROVE CInv'
<1>1. PICK up \in SUBSET Links :
        /\ online' = [l \in Links |-> l \in up]
        /\ servers' = Ascending(up \ {Router})
  BY DEF Connect
<1>2. PICK S \in SUBSET Ids : S = up \ {Router}
  BY DEF Links
<1>3. IsFiniteSet(S) /\ S \in SUBSET Int
  <2>1. IsFiniteSet(S)
    BY IdsFinite, FS_Subset
  <2>2. S \in SUBSET Int
    BY DEF Ids
  <2> QED
    BY <2>1, <2>2
<1>4. servers' \in Seq(S) /\ Len(servers') = Cardinality(S) /\ Listed' = S
  <2>1. servers' = Ascending(S)
    BY <1>1, <1>2
  <2>2. /\ Ascending(S) \in Seq(S) /\ Len(Ascending(S)) = Cardinality(S)
        /\ {Ascending(S)[k] : k \in DOMAIN Ascending(S)} = S
    BY <1>3, AscendingProperties
  <2> QED
    BY <2>1, <2>2 DEF Listed
<1>5. servers' \in Seq(Ids) /\ Len(servers') = Cardinality(Listed') /\ Len(servers') \in Nat
  BY <1>2, <1>4
<1>6. online' \in [Links -> BOOLEAN]
  BY <1>1
<1>7. /\ pc' = "front" /\ at' = 0 /\ zonesRestants' = NZones
      /\ UNCHANGED <<tables, figures, watch, changedZonePosition, address>>
  BY DEF Connect, Goto
<1>8. servers' = <<>> => status' = "crashed" /\ zoneIndex' = zoneIndex
  BY DEF Connect
<1>9. servers' # <<>> =>
         /\ Len(servers') > 0 /\ status' = status
         /\ zoneIndex' = NZones % Len(servers')
         /\ zoneIndex' \in Nat /\ zoneIndex' <= NZones
  BY <1>5, Remainder DEF Connect
<1>10. TypeOK'
  BY <1>5, <1>6, <1>7, <1>8, <1>9 DEF CInv, TypeOK, tables, figures, watch, Places
<1>11. StartedInv' /\ AddressInv'
  BY <1>7, <1>8, <1>9 DEF CInv, StartedInv, AddressInv
<1>12. FrontInv'
  <2>1. CASE servers' = <<>>
    BY <1>8, <2>1 DEF FrontInv
  <2>2. CASE servers' # <<>>
    BY <1>7, <1>9, <2>2 DEF FrontInv, modZonesPerServer, numberServers
  <2> QED
    BY <2>1, <2>2
<1>13. AssignInv' /\ AskInv'
  BY <1>7 DEF AssignInv, AskInv
<1> QED
  BY <1>10, <1>11, <1>12, <1>13 DEF CInv

(* The zones of the front server.                                          *)
LEMMA AssignFrontStep == ASSUME CInv, status = "running", AssignFront PROVE CInv'
<1>0. TypeOK /\ Len(servers) > 0 /\ servers \in Seq(Ids)
  BY DEF CInv, StartedInv, AssignFront, TypeOK
<1>1. front \in Ids
  BY <1>0 DEF front
<1>2. /\ modZonesPerServer \in Nat /\ modZonesPerServer < Len(servers)
      /\ modZonesPerServer <= NZones
  BY <1>0, ModZones
<1>3. /\ at \in Nat /\ at <= modZonesPerServer /\ zoneIndex = modZonesPerServer
      /\ zonesRestants >= NZones - at /\ zonesRestants \in 0 .. NZones
  BY DEF CInv, FrontInv, AssignFront, TypeOK
<1>4. /\ servers' = servers /\ online' = online /\ status' = status /\ address' = address
      /\ modZonesPerServer' = modZonesPerServer /\ Listed' = Listed
  BY DEF AssignFront, modZonesPerServer, numberServers, Listed
<1>5. StartedInv' /\ AddressInv'
  BY <1>0, <1>4 DEF CInv, StartedInv, AddressInv
<1>6. CASE at < modZonesPerServer /\ online[front]
  <2>1. /\ pc' = pc /\ at' = at + 1 /\ zonesRestants' = zonesRestants - 1
        /\ GiveZone(front, at) /\ UNCHANGED <<zoneIndex, changedZonePosition, watch>>
    BY <1>2, <1>3, <1>6 DEF AssignFront
  <2>2. at \in Zones
    BY <1>2, <1>3, <1>6 DEF Zones
  <2>3. zonesRestants' \in 0 .. NZones
    BY <1>2, <1>3, <1>6, <2>1
  <2>4. TypeOK'
    <3>1. /\ zoneServer' \in [Zones -> Ids \cup {NoServer}]
          /\ distribution' \in [Ids -> Seq(Zones)]
          /\ totalLoad' \in [Ids -> Nat]
          /\ managed' \in [Ids -> SUBSET Zones]
          /\ UNCHANGED <<load, coming, heard>>
      BY <1>0, <1>1, <2>1, <2>2, GiveType
    <3> QED
      BY <1>0, <1>3, <1>4, <2>1, <2>3, <3>1 DEF TypeOK, watch
  <2>5. FrontInv' /\ AssignInv' /\ AskInv'
    BY <1>2, <1>3, <1>4, <1>6, <2>1 DEF FrontInv, AssignInv, AskInv, AssignFront
  <2> QED
    BY <1>5, <2>4, <2>5 DEF CInv
<1>7. CASE at < modZonesPerServer /\ ~online[front]
  <2>1. /\ pc' = pc /\ at' = at + 1
        /\ UNCHANGED <<tables, figures, locals, watch>>
    BY <1>2, <1>3, <1>7 DEF AssignFront, NoZoneGiven, locals
  <2>2. TypeOK'
    BY <1>0, <1>4, <2>1 DEF TypeOK, watch, tables, figures, locals
  <2>3. FrontInv' /\ AssignInv' /\ AskInv'
    BY <1>2, <1>3, <1>4, <1>7, <2>1 DEF FrontInv, AssignInv, AskInv, AssignFront, locals
  <2> QED
    BY <1>5, <2>2, <2>3 DEF CInv
<1>8. CASE at = modZonesPerServer /\ zonesRestants > 0
  <2>1. pc' = "assign" /\ at' = 1 /\ UNCHANGED <<tables, figures, locals, watch>>
    BY <1>2, <1>3, <1>8 DEF AssignFront, NoZoneGiven, Goto
  <2>2. TypeOK'
    BY <1>0, <1>4, <2>1 DEF TypeOK, watch, tables, figures, locals, Places
  <2>3. FrontInv' /\ AssignInv' /\ AskInv'
    BY <1>0, <1>2, <1>3, <1>4, <1>8, <2>1 DEF FrontInv, AssignInv, AskInv, locals
  <2> QED
    BY <1>5, <2>2, <2>3 DEF CInv
<1>9. CASE at = modZonesPerServer /\ zonesRestants = 0
  <2>1. StartRounds /\ UNCHANGED <<tables, figures>>
    BY <1>2, <1>3, <1>9 DEF AssignFront, NoZoneGiven
  <2>2. TypeOK'
    BY <1>0, <1>4, <2>1, StartRoundsType DEF TypeOK, tables, figures, Places
  <2>3. FrontInv' /\ AssignInv' /\ AskInv'
    BY <1>0, <2>1, StartRoundsType DEF FrontInv, AssignInv, AskInv
  <2> QED
    BY <1>5, <2>2, <2>3 DEF CInv
<1> QED
  BY <1>3, <1>6, <1>7, <1>8, <1>9 DEF AssignFront

(* The zones of the others, in turn.                                       *)
LEMMA AssignStep == ASSUME CInv, status = "running", Assign PROVE CInv'
<1>0. TypeOK /\ Len(servers) > 0 /\ servers \in Seq(Ids)
  BY DEF CInv, StartedInv, Assign, TypeOK
<1>1. /\ at \in 1 .. Len(servers) /\ Len(servers) \in Nat
      /\ zoneIndex >= modZonesPerServer
      /\ zonesRestants >= NZones - zoneIndex
      /\ zoneIndex \in 0 .. NZones /\ zonesRestants \in 0 .. NZones
  BY <1>0 DEF CInv, AssignInv, Assign, TypeOK
<1>2. PICK s \in Ids : s = servers[at]
  BY <1>0, <1>1
<1>3. /\ servers' = servers /\ online' = online /\ address' = address /\ pc = "assign"
      /\ modZonesPerServer' = modZonesPerServer /\ Listed' = Listed
  BY DEF Assign, modZonesPerServer, numberServers, Listed
<1>4. modZonesPerServer \in Nat
  BY <1>0, ModZones
<1>5. StartedInv' /\ AddressInv'
  BY <1>0, <1>3 DEF CInv, StartedInv, AddressInv
<1>6. (IF at = Len(servers) THEN 1 ELSE at + 1) \in 1 .. Len(servers)
  BY <1>0, <1>1
<1>7. CASE /\ ~online[s]
           /\ at' = IF at = Len(servers) THEN 1 ELSE at + 1
           /\ pc' = pc
           /\ NoZoneGiven /\ UNCHANGED <<locals, watch, status>>
  <2>1. TypeOK'
    BY <1>0, <1>3, <1>6, <1>7 DEF TypeOK, watch, tables, figures, locals, NoZoneGiven
  <2>2. FrontInv' /\ AssignInv' /\ AskInv'
    BY <1>1, <1>3, <1>6, <1>7 DEF FrontInv, AssignInv, AskInv, locals
  <2> QED
    BY <1>5, <2>1, <2>2 DEF CInv
<1>8. CASE /\ status' = "undefined"
           /\ NoZoneGiven /\ UNCHANGED <<pc, at, locals, watch>>
  <2>1. TypeOK'
    BY <1>0, <1>3, <1>8 DEF TypeOK, watch, tables, figures, locals, NoZoneGiven
  <2>2. FrontInv' /\ AssignInv' /\ AskInv'
    BY <1>3, <1>8 DEF FrontInv, AssignInv, AskInv
  <2> QED
    BY <1>5, <2>1, <2>2 DEF CInv
<1>9. CASE zoneIndex < NZones /\ GiveZone(s, zoneIndex) /\ UNCHANGED status
           /\ zoneIndex + 1 = NZones /\ StartRounds
  <2>1. zoneIndex \in Zones
    BY <1>1, <1>9 DEF Zones
  <2>2. TypeOK'
    <3>1. /\ zoneServer' \in [Zones -> Ids \cup {NoServer}]
          /\ distribution' \in [Ids -> Seq(Zones)]
          /\ totalLoad' \in [Ids -> Nat]
          /\ managed' \in [Ids -> SUBSET Zones]
          /\ UNCHANGED <<load, coming, heard>>
      BY <1>0, <1>9, <2>1, GiveType
    <3>2. /\ pc' = "ask" /\ at' = 1 /\ mask' \subseteq Ids
          /\ zoneIndex' \in 0 .. NZones /\ zonesRestants' \in 0 .. NZones
          /\ UNCHANGED <<changedZonePosition, timeout, first>>
      BY <1>0, <1>9, StartRoundsType
    <3> QED
      BY <1>0, <1>3, <1>9, <3>1, <3>2 DEF TypeOK, Places
  <2>3. FrontInv' /\ AssignInv' /\ AskInv'
    BY <1>0, <1>9, StartRoundsType DEF FrontInv, AssignInv, AskInv
  <2> QED
    BY <1>5, <2>2, <2>3 DEF CInv
<1>10. CASE /\ zoneIndex < NZones /\ GiveZone(s, zoneIndex)
            /\ zoneIndex + 1 < NZones
            /\ zoneIndex' = zoneIndex + 1
            /\ zonesRestants' = zonesRestants - 1
            /\ at' = IF at = Len(servers) THEN 1 ELSE at + 1
            /\ pc' = pc
            /\ UNCHANGED <<changedZonePosition, watch, status>>
  <2>1. zoneIndex \in Zones
    BY <1>1, <1>10 DEF Zones
  <2>2. zoneIndex' \in 0 .. NZones /\ zonesRestants' \in 0 .. NZones
    BY <1>1, <1>10
  <2>3. TypeOK'
    <3>1. /\ zoneServer' \in [Zones -> Ids \cup {NoServer}]
          /\ distribution' \in [Ids -> Seq(Zones)]
          /\ totalLoad' \in [Ids -> Nat]
          /\ managed' \in [Ids -> SUBSET Zones]
          /\ UNCHANGED <<load, coming, heard>>
      BY <1>0, <1>10, <2>1, GiveType
    <3>2. at' \in Nat
      BY <1>1, <1>6, <1>10
    <3> QED
      BY <1>0, <1>3, <1>10, <2>2, <3>1, <3>2 DEF TypeOK, watch
  <2>4. FrontInv' /\ AssignInv' /\ AskInv'
    BY <1>1, <1>3, <1>4, <1>6, <1>10 DEF FrontInv, AssignInv, AskInv
  <2> QED
    BY <1>5, <2>3, <2>4 DEF CInv
<1> QED
  BY <1>2, <1>7, <1>8, <1>9, <1>10 DEF Assign

(* An answer, handled or missed.                                           *)
LEMMA AnswerStep ==
  ASSUME CInv, NEW s \in Ids, ReceiveLoad(s) \/ MissServer(s)
  PROVE  CInv'
<1>0. TypeOK /\ coming[s] \in Seq(Answers) /\ coming[s] # <<>>
  BY DEF CInv, TypeOK, ReceiveLoad, MissServer
<1>1. Head(coming[s]) \in Answers /\ Tail(coming[s]) \in Seq(Answers)
  BY <1>0, HeadTailProperties
<1>2. coming' \in [Ids -> Seq(Answers)]
  BY <1>0, <1>1 DEF ReceiveLoad, MissServer, TypeOK
<1>3. /\ load' \in [Ids -> [Zones -> Loads \cup {0}]] /\ totalLoad' \in [Ids -> Nat]
      /\ mask' \subseteq Ids /\ heard' \subseteq Ids
  <2>1. CASE ReceiveLoad(s)
    BY <1>0, <1>1, <2>1, HandleProperties DEF ReceiveLoad
  <2>2. CASE MissServer(s)
    BY <1>0, <2>2 DEF MissServer, TypeOK, watch
  <2> QED
    BY <2>1, <2>2
<1>4. UNCHANGED <<servers, online, tables, timeout, first, pc, at, locals, status, address>>
  BY DEF ReceiveLoad, MissServer, watch
<1>5. Listed' = Listed /\ modZonesPerServer' = modZonesPerServer
  BY <1>4 DEF Listed, modZonesPerServer, numberServers
<1>6. TypeOK'
  BY <1>0, <1>2, <1>3, <1>4, <1>5 DEF TypeOK, tables, locals
<1>7. AddressInv' /\ StartedInv' /\ FrontInv' /\ AssignInv' /\ AskInv'
  BY <1>4, <1>5 DEF CInv, AddressInv, StartedInv, FrontInv, AssignInv, AskInv, locals
<1> QED
  BY <1>6, <1>7 DEF CInv

(* One server is asked. *)
LEMMA AskStep == ASSUME CInv, Ask PROVE CInv'
<1>0. TypeOK /\ servers \in Seq(Ids) /\ at \in Nat /\ pc = "ask"
  BY DEF CInv, TypeOK, Ask
<1>1. UNCHANGED <<servers, online, tables, timeout, first, locals, status, address>>
  BY DEF Ask
<1>2. Listed' = Listed
  BY <1>1 DEF Listed
<1>3. /\ pc' \in {"ask", "test"} /\ at' \in Nat /\ at >= 1
      /\ pc' = "ask" => at' >= 1
  BY <1>0 DEF Ask, Goto, CInv, AskInv
<1>4. StartedInv' /\ AddressInv' /\ FrontInv' /\ AssignInv' /\ AskInv'
  BY <1>0, <1>1, <1>3 DEF CInv, StartedInv, AddressInv, FrontInv, AssignInv, AskInv
<1>5. /\ load' \in [Ids -> [Zones -> Loads \cup {0}]] /\ totalLoad' \in [Ids -> Nat]
      /\ coming' \in [Ids -> Seq(Answers)]
      /\ mask' \subseteq Ids /\ heard' \subseteq Ids
  <2>1. CASE UNCHANGED <<figures, mask>>
    BY <1>0, <2>1 DEF TypeOK, figures
  <2>2. ASSUME NEW s \in Ids, Request(s, coming[s]),
               totalLoad' = [totalLoad EXCEPT ![s] = 0], heard' = heard \ {s},
               UNCHANGED <<load, mask>>
        PROVE  /\ load' \in [Ids -> [Zones -> Loads \cup {0}]] /\ totalLoad' \in [Ids -> Nat]
               /\ coming' \in [Ids -> Seq(Answers)]
               /\ mask' \subseteq Ids /\ heard' \subseteq Ids
    <3>1. coming[s] \in Seq(Answers)
      BY <1>0 DEF TypeOK
    <3>2. coming' \in [Ids -> Seq(Answers)]
      BY <1>0, <2>2, <3>1, RequestProperties
    <3> QED
      BY <1>0, <2>2, <3>2 DEF TypeOK
  <2>3. ASSUME NEW s \in Ids, coming[s] # <<>>, NEW value \in Loads,
               Handle(s, [Head(coming[s]) EXCEPT !.stale = TRUE], value),
               Request(s, Tail(coming[s]))
        PROVE  /\ load' \in [Ids -> [Zones -> Loads \cup {0}]] /\ totalLoad' \in [Ids -> Nat]
               /\ coming' \in [Ids -> Seq(Answers)]
               /\ mask' \subseteq Ids /\ heard' \subseteq Ids
    <3>1. Head(coming[s]) \in Answers /\ Tail(coming[s]) \in Seq(Answers)
      BY <1>0, <2>3, HeadTailProperties DEF TypeOK
    <3>2. PICK msg \in Answers : msg = [Head(coming[s]) EXCEPT !.stale = TRUE]
      BY <3>1 DEF Answers
    <3>3. coming' \in [Ids -> Seq(Answers)]
      BY <1>0, <2>3, <3>1, RequestProperties
    <3>4. /\ load' \in [Ids -> [Zones -> Loads \cup {0}]] /\ totalLoad' \in [Ids -> Nat]
          /\ mask' \subseteq Ids /\ heard' \subseteq Ids
      BY <1>0, <2>3, <3>2, HandleProperties
    <3> QED
      BY <3>3, <3>4
  <2>4. at <= Len(servers) => servers[at] \in Ids
    BY <1>0, <1>3
  <2> QED
    BY <1>0, <2>1, <2>2, <2>3, <2>4 DEF Ask
<1>6. TypeOK'
  BY <1>0, <1>1, <1>2, <1>3, <1>5 DEF TypeOK, tables, locals, Places
<1> QED
  BY <1>4, <1>6 DEF CInv

(* The position that balance picks is one of the distribution it looks at. *)
LEMMA PositionIsIndex ==
  ASSUME TypeOK, Len(servers) > 0
  PROVE  /\ back \in Ids /\ distribution[back] \in Seq(Zones)
         /\ posMinLoadZone \in 0 .. Len(distribution[back]) - 1 \cup {-1}
<1>1. servers \in Seq(Ids) /\ Len(servers) \in Nat
  BY DEF TypeOK
<1>2. PICK s \in Ids : s = back
  BY <1>1 DEF back
<1> DEFINE d == distribution[s]
           Of(k) == load[s][d[k]]
           below == {k \in DOMAIN d : Of(k) < One}
           best == {k \in below : \A j \in below : Of(k) <= Of(j)}
<1>3. d \in Seq(Zones) /\ DOMAIN d = 1 .. Len(d) /\ Len(d) \in Nat
  <2>1. d \in Seq(Zones)
    BY DEF TypeOK
  <2> QED
    BY <2>1
<1>4. \A k \in DOMAIN d : Of(k) \in Nat
  <2>1. load[s] \in [Zones -> Loads \cup {0}] /\ Loads \cup {0} \subseteq Nat
    BY DEF TypeOK
  <2>2. \A z \in Zones : load[s][z] \in Nat
    BY <2>1
  <2> HIDE DEF d
  <2>3. \A k \in DOMAIN d : d[k] \in Zones
    BY <1>3
  <2> QED
    BY <2>2, <2>3
<1>5. posMinLoadZone = IF below = {} THEN -1 ELSE Min(best) - 1
  BY <1>2 DEF posMinLoadZone
<1> HIDE DEF d
<1>6. ASSUME below # {} PROVE Min(best) \in 1 .. Len(d)
  <2> DEFINE loads == {Of(k) : k \in below}
  <2>1. loads \in SUBSET Nat /\ loads # {}
    BY <1>4, <1>6
  <2>2. PICK least \in loads : \A v \in loads : least <= v
    <3> HIDE DEF loads
    <3> QED
      BY <2>1, Least
  <2>3. PICK k \in below : Of(k) = least
    BY <2>2
  <2>4. k \in best
    BY <2>2, <2>3
  <2>5. best \in SUBSET Nat /\ best # {} /\ best \subseteq 1 .. Len(d)
    BY <1>3, <2>4
  <2> HIDE DEF best
  <2>6. \E x \in best : \A y \in best : x <= y
    BY <2>5, Least
  <2>7. Min(best) \in best
    BY <2>6 DEF Min
  <2> QED
    BY <2>5, <2>7
<1> HIDE DEF below, best
<1>7. CASE below = {}
  BY <1>2, <1>3, <1>5, <1>7 DEF d
<1>8. CASE below # {}
  <2>1. Min(best) \in 1 .. Len(d)
    BY <1>6, <1>8
  <2>2. Min(best) - 1 \in 0 .. Len(d) - 1
    BY <1>3, <2>1
  <2> QED
    BY <1>2, <1>3, <1>5, <1>8, <2>2 DEF d
<1> QED
  BY <1>2, <1>3, <1>7, <1>8 DEF d

(* The rest of the loop of main.                                           *)
LEMMA LoopStep ==
  ASSUME CInv, status = "running",
         Test \/ Alarm \/ Wake \/ Sort \/ OrderMove \/ WriteMove \/ EndBalance \/ Rebalance
  PROVE  CInv'
<1>0. TypeOK /\ servers \in Seq(Ids) /\ Len(servers) > 0
  BY DEF CInv, TypeOK, StartedInv, Test, Alarm, Wake, Sort, OrderMove, WriteMove,
     EndBalance, Rebalance
<1>1. servers' \in Seq(Ids) /\ Len(servers') = Len(servers) /\ Listed' = Listed
  BY ListStays DEF Rest
<1>2. /\ UNCHANGED <<online, distribution, managed, figures, mask, zoneIndex,
                     zonesRestants, address>>
      /\ timeout' \in BOOLEAN /\ first' \in BOOLEAN
  BY <1>0 DEF Test, Alarm, Wake, Sort, OrderMove, WriteMove, EndBalance, Rebalance,
     tables, watch, locals, TypeOK
<1>3. /\ pc' \in Places \ {"connect", "front", "assign"} /\ at' \in Nat
      /\ pc' = "ask" => at' >= 1
  BY <1>0 DEF Test, Alarm, Wake, Sort, OrderMove, WriteMove, EndBalance, Rebalance, Goto,
     TypeOK, Places
<1>4. front \in Ids
  BY <1>0 DEF front
<1>5. /\ zoneServer' \in [Zones -> Ids \cup {NoServer}]
      /\ changedZonePosition' \in Nat \cup {-1}
      /\ status' \in {"running", "undefined"}
  <2>1. CASE UNCHANGED <<tables, status, locals>>
    BY <1>0, <2>1 DEF tables, locals, TypeOK
  <2>2. CASE OrderMove
    <3>1. distribution[back] \in Seq(Zones)
          /\ posMinLoadZone \in 0 .. Len(distribution[back]) - 1 \cup {-1}
      BY <1>0, PositionIsIndex
    <3>2. Len(distribution[back]) \in Nat
      BY <3>1
    <3>3. posMinLoadZone \in Nat \cup {-1}
      BY <3>1, <3>2
    <3> QED
      BY <1>0, <2>2, <3>3 DEF OrderMove, tables, TypeOK
  <2>3. CASE WriteMove
    BY <1>0, <1>4, <2>3 DEF WriteMove, TypeOK
  <2> QED
    BY <2>1, <2>2, <2>3 DEF Test, Alarm, Wake, Sort, EndBalance, Rebalance
<1>6. TypeOK'
  BY <1>0, <1>1, <1>2, <1>3, <1>5 DEF TypeOK, figures
<1>7. AddressInv' /\ StartedInv' /\ FrontInv' /\ AssignInv' /\ AskInv'
  BY <1>0, <1>1, <1>2, <1>3 DEF CInv, AddressInv, StartedInv, FrontInv, AssignInv, AskInv
<1> QED
  BY <1>6, <1>7 DEF CInv

(* Links that break, and users. *)
LEMMA OutsideStep ==
  ASSUME CInv,
         \/ \E l \in Links : Drop(l)
         \/ \E z \in Zones : NewUser(z)
         \/ DisconnectUser
         \/ UNCHANGED vars
  PROVE  CInv'
<1>0. TypeOK
  BY DEF CInv
<1>1. UNCHANGED <<servers, tables, load, totalLoad, heard, watch, pc, at, locals, address>>
  BY DEF Drop, NewUser, DisconnectUser, vars, figures
<1>2. Listed' = Listed /\ modZonesPerServer' = modZonesPerServer
  BY <1>1 DEF Listed, modZonesPerServer, numberServers
<1>3. online' \in [Links -> BOOLEAN] /\ coming' \in [Ids -> Seq(Answers)]
  <2>1. CASE UNCHANGED <<online, coming>>
    BY <1>0, <2>1 DEF TypeOK
  <2>2. ASSUME NEW l \in Links, Drop(l)
        PROVE  online' \in [Links -> BOOLEAN] /\ coming' \in [Ids -> Seq(Answers)]
    <3>1. online' = [online EXCEPT ![l] = FALSE] /\ online \in [Links -> BOOLEAN]
      BY <1>0, <2>2 DEF Drop, TypeOK
    <3>2. online' \in [Links -> BOOLEAN]
      BY <3>1, Zenon
    <3>3. <<>> \in Seq(Answers) /\ coming \in [Ids -> Seq(Answers)]
      BY <1>0 DEF TypeOK
    <3>4. coming' \in {coming, [coming EXCEPT ![l] = <<>>]}
      BY <2>2 DEF Drop
    <3> QED
      BY <3>2, <3>3, <3>4
  <2> QED
    BY <2>1, <2>2 DEF NewUser, DisconnectUser, vars, figures
<1>4. status' \in {"running", "crashed", "undefined"} /\ (status' = "running" => status = "running")
  BY <1>0 DEF Drop, NewUser, DisconnectUser, vars, TypeOK
<1>5. TypeOK'
  BY <1>0, <1>1, <1>2, <1>3, <1>4 DEF TypeOK, tables, watch, locals
<1>6. AddressInv' /\ StartedInv' /\ FrontInv' /\ AssignInv' /\ AskInv'
  BY <1>1, <1>2, <1>4 DEF CInv, AddressInv, StartedInv, FrontInv, AssignInv, AskInv, locals
<1> QED
  BY <1>5, <1>6 DEF CInv

(* At the start nothing is counted. *)
LEMMA InitCInv == Init => CInv
<1> SUFFICES ASSUME Init PROVE CInv
  OBVIOUS
<1>1. servers = <<>> /\ Listed = {}
  BY DEF Init, Listed
<1>2. Len(servers) = Cardinality(Listed) /\ servers \in Seq(Ids)
  BY <1>1, FS_EmptySet
<1>3. totalLoad \in [Ids -> Nat]
  <2>1. Unset \subseteq Nat
    BY DEF Unset
  <2> QED
    BY <2>1 DEF Init
<1>4. TypeOK
  BY <1>2, <1>3 DEF Init, TypeOK, Places
<1>5. AddressInv /\ StartedInv /\ FrontInv /\ AssignInv /\ AskInv
  BY DEF Init, AddressInv, StartedInv, FrontInv, AssignInv, AskInv
<1> QED
  BY <1>4, <1>5 DEF CInv

(* Every step is the first one, or one of the rest. *)
LEMMA Steps ==
  ASSUME [Next]_vars
  PROVE  \/ status = "running" /\ (Connect \/ Rest)
         \/ UNCHANGED vars
BY DEF Next, Main, Rest

(* Every step keeps the types and the counts. *)
LEMMA CInvStep == CInv /\ [Next]_vars => CInv'
<1> SUFFICES ASSUME CInv, [Next]_vars PROVE CInv'
  OBVIOUS
<1>1. CASE status = "running" /\ Connect
  BY <1>1, ConnectStep
<1>2. CASE status = "running" /\ Rest
  BY <1>2, AssignFrontStep, AssignStep, AskStep, LoopStep, AnswerStep, OutsideStep DEF Rest
<1>3. CASE UNCHANGED vars
  BY <1>3, OutsideStep
<1> QED
  BY <1>1, <1>2, <1>3, Steps

(* The counts of zoneAssignment and the types hold in every state.         *)
LEMMA CInvAlways == Spec => []CInv
BY InitCInv, CInvStep, PTL DEF Spec

(* Every variable of Control keeps its type: zonesRestants, which the code *)
(* counts down in two loops, does not become negative, the mask has no     *)
(* other bits than the ids, and an answer names a zone and a remainder     *)
(* below NZONES, for any numbers of servers and zones.                     *)
THEOREM TypeCorrect == Spec => []TypeOK
<1>1. CInv => TypeOK
  BY DEF CInv
<1> QED
  BY <1>1, CInvAlways, PTL

-----------------------------------------------------------------------------
(* Who has answered. *)

(* Nothing is asked before the rounds; in them, who has given its last     *)
(* answer is waited for no longer, for good, and nobody is whose number is *)
(* past the end of the list.                                               *)
HeardInv ==
    /\ ~Serving => heard = {} /\ \A s \in Ids : coming[s] = <<>>
    /\ Serving => mask \cap heard = {} /\ mask \subseteq 0 .. Len(servers) - 1

(* A message that is handled keeps it. *)
LEMMA HandleHeard ==
  ASSUME TypeOK, Serving, HeardInv, NEW s \in Ids, NEW msg \in Answers, NEW value \in Loads,
         Handle(s, msg, value)
  PROVE  mask' \cap heard' = {} /\ mask' \subseteq 0 .. Len(servers) - 1
BY HandleProperties DEF HeardInv

(* The mask is set once, before the first request. *)
LEMMA HeardStep == CInv /\ HeardInv /\ [Next]_vars => HeardInv'
<1> SUFFICES ASSUME CInv, HeardInv, [Next]_vars PROVE HeardInv'
  OBVIOUS
<1>0. TypeOK
  BY DEF CInv
<1>9. Rest => Len(servers') = Len(servers)
  BY ListStays
<1>1. CASE Connect
  BY <1>1 DEF Connect, HeardInv, Serving, Goto, figures, watch
<1>2. CASE AssignFront \/ Assign
  <2>1. ~Serving /\ UNCHANGED <<coming, heard, servers>>
    BY <1>2 DEF AssignFront, Assign, Serving, GiveZone, NoZoneGiven, figures
  <2>2. Serving' => mask' = 0 .. Len(servers) - 1
    BY <1>2 DEF AssignFront, Assign, StartRounds, Serving, Goto, numberServers
  <2> QED
    BY <2>1, <2>2 DEF HeardInv
<1>3. ASSUME Serving, Serving', UNCHANGED <<mask, heard>>, Len(servers') = Len(servers)
      PROVE  HeardInv'
  BY <1>3 DEF HeardInv
<1>4. CASE Test \/ Alarm \/ Wake \/ Sort \/ OrderMove \/ WriteMove \/ EndBalance \/ Rebalance
  <2>1. Serving /\ Serving' /\ UNCHANGED <<mask, heard>>
    BY <1>4 DEF Test, Alarm, Wake, Sort, OrderMove, WriteMove, EndBalance, Rebalance, Serving, Goto,
       watch, figures
  <2> QED
    BY <1>3, <1>4, <1>9, <2>1 DEF Rest
<1>5. CASE DisconnectUser \/ UNCHANGED vars \/ \E z \in Zones : NewUser(z)
  BY <1>5 DEF NewUser, DisconnectUser, vars, HeardInv, Serving, watch, figures
<1>6. ASSUME NEW l \in Links, Drop(l) PROVE HeardInv'
  <2>1. UNCHANGED <<pc, heard, mask, servers>> /\ coming' \in {coming, [coming EXCEPT ![l] = <<>>]}
    BY <1>6 DEF Drop, watch
  <2>2. (\A s \in Ids : coming[s] = <<>>) => \A s \in Ids : coming'[s] = <<>>
    BY <1>0, <2>1 DEF TypeOK
  <2> QED
    BY <2>1, <2>2 DEF HeardInv, Serving
<1>7. ASSUME NEW s \in Ids, ReceiveLoad(s) \/ MissServer(s) PROVE HeardInv'
  <2>1. coming[s] # <<>> /\ Serving /\ Serving' /\ servers' = servers
    BY <1>7 DEF ReceiveLoad, MissServer, HeardInv, Serving
  <2>2. CASE ReceiveLoad(s)
    <3>1. Head(coming[s]) \in Answers
      BY <1>0, <2>1, HeadTailProperties DEF TypeOK
    <3>2. mask' \cap heard' = {} /\ mask' \subseteq 0 .. Len(servers) - 1
      BY <1>0, <2>1, <2>2, <3>1, HandleHeard DEF ReceiveLoad
    <3> QED
      BY <2>1, <3>2 DEF HeardInv
  <2>3. CASE MissServer(s)
    BY <1>3, <2>1, <2>3 DEF MissServer, watch
  <2> QED
    BY <1>7, <2>2, <2>3
<1>8. CASE Ask
  <2>1. Serving /\ Serving' /\ servers' = servers
    BY <1>8 DEF Ask, Serving, Goto
  <2>2. ASSUME NEW s \in Ids, coming[s] # <<>>, NEW value \in Loads,
               Handle(s, [Head(coming[s]) EXCEPT !.stale = TRUE], value)
        PROVE  HeardInv'
    <3>1. Head(coming[s]) \in Answers
      BY <1>0, <2>2, HeadTailProperties DEF TypeOK
    <3>2. PICK msg \in Answers : msg = [Head(coming[s]) EXCEPT !.stale = TRUE]
      BY <3>1 DEF Answers
    <3>3. mask' \cap heard' = {} /\ mask' \subseteq 0 .. Len(servers) - 1
      BY <1>0, <2>1, <2>2, <3>2, HandleHeard
    <3> QED
      BY <2>1, <3>3 DEF HeardInv
  <2>3. at \in Nat /\ at >= 1 /\ (at <= Len(servers) => servers[at] \in Ids)
    <3>1. servers \in Seq(Ids) /\ at \in Nat /\ at >= 1
      BY <1>0, <1>8 DEF TypeOK, CInv, AskInv, Ask
    <3> QED
      BY <3>1
  <2>4. CASE mask' = mask /\ heard' \subseteq heard
    BY <2>1, <2>4 DEF HeardInv
  <2> QED
    BY <1>8, <2>2, <2>3, <2>4 DEF Ask, figures
<1> QED
  BY <1>1, <1>2, <1>4, <1>5, <1>6, <1>7, <1>8, Steps DEF Rest

(* At the start nobody has been asked. *)
LEMMA InitHeard == Init => HeardInv
BY DEF Init, HeardInv, Serving

(* When the last answers of all the servers in the list have been handled, *)
(* and these are the ones of the mask, Control waits for none              *)
(* (instruccionesControl.txt:44): for any number of servers, whatever was  *)
(* lost, late or handled out of turn before.                               *)
THEOREM AnswersEndTheWait == Spec => []AllAnsweredEndsTheWait
<1>1. CInv /\ HeardInv => AllAnsweredEndsTheWait
  BY DEF HeardInv, AllAnsweredEndsTheWait, numberServers
<1> QED
  BY <1>1, InitHeard, CInvAlways, HeardStep, PTL DEF Spec

-----------------------------------------------------------------------------
(* The zones and their servers. *)

Held(z) == Holders(z) = {zoneServer[z]}
Bare(z) == Holders(z) = {} /\ zoneServer[z] = NoServer
Late(z) == /\ z < modZonesPerServer /\ Bare(z)
           /\ \E s \in Listed : ~online[s]

(* Until a zone's turn comes nobody has it.  Then one server has it, the   *)
(* one in the table; if it is one of the first zones and the front server  *)
(* has gone, nobody will.                                                  *)
TableInv ==
    /\ pc = "connect" => \A z \in Zones : Bare(z)
    /\ pc = "front" /\ status = "running" =>
          \A z \in Zones : IF z < at THEN Held(z) \/ Late(z) ELSE Bare(z)
    /\ pc = "assign" /\ status = "running" =>
          \A z \in Zones : IF z < zoneIndex THEN Held(z) \/ Late(z) ELSE Bare(z)
    /\ first /\ pc \in {"ask", "test", "asleep", "sort"} =>
          \A z \in Zones : Held(z) \/ Late(z)

(* A zone that is given is held by its server, and no other zone changes.  *)
LEMMA GiveHolds ==
  ASSUME TypeOK, NEW s \in Ids, NEW z \in Zones, GiveZone(s, z), Bare(z)
  PROVE  /\ Held(z)'
         /\ \A y \in Zones : y # z => /\ Holders(y)' = Holders(y)
                                      /\ zoneServer'[y] = zoneServer[y]
<1> DEFINE Has(t, y) == \E k \in DOMAIN distribution[t] : distribution[t][k] = y
<1>1. zoneServer'[z] = s /\ \A y \in Zones : y # z => zoneServer'[y] = zoneServer[y]
  BY DEF GiveZone, TypeOK
<1>2. /\ \A t \in Ids : t # s => distribution'[t] = distribution[t]
      /\ distribution'[s] = Append(distribution[s], z)
      /\ distribution[s] \in Seq(Zones)
  BY DEF GiveZone, TypeOK
<1>3. /\ DOMAIN distribution'[s] = 1 .. Len(distribution[s]) + 1
      /\ DOMAIN distribution[s] = 1 .. Len(distribution[s]) /\ Len(distribution[s]) \in Nat
      /\ distribution'[s][Len(distribution[s]) + 1] = z
      /\ \A k \in 1 .. Len(distribution[s]) : distribution'[s][k] = distribution[s][k]
  BY <1>2
<1>4. \A y : (\E k \in DOMAIN distribution'[s] : distribution'[s][k] = y)
                <=> Has(s, y) \/ y = z
  BY <1>3
<1>5. \A y : Holders(y) = {t \in Ids : Has(t, y)}
  BY DEF Holders
<1>6. \A y : Holders(y)' =
                {t \in Ids : \E k \in DOMAIN distribution'[t] : distribution'[t][k] = y}
  BY DEF Holders
<1> HIDE DEF Has
<1>7. ASSUME NEW y \in Zones, NEW t \in Ids
      PROVE  (\E k \in DOMAIN distribution'[t] : distribution'[t][k] = y)
                <=> Has(t, y) \/ (t = s /\ y = z)
  <2>1. CASE t = s
    BY <1>4, <2>1
  <2>2. CASE t # s
    BY <1>2, <2>2 DEF Has
  <2> QED
    BY <2>1, <2>2
<1>8. \A y \in Zones : Holders(y)' = {t \in Ids : Has(t, y) \/ (t = s /\ y = z)}
  BY <1>6, <1>7
<1>9. Holders(z)' = {s}
  BY <1>5, <1>8 DEF Bare
<1>10. \A y \in Zones : y # z => Holders(y)' = Holders(y)
  BY <1>5, <1>8
<1> QED
  BY <1>1, <1>9, <1>10 DEF Held

(* So a zone stays what it is when another is given.                       *)
LEMMA GiveOthers ==
  ASSUME TypeOK, NEW s \in Ids, NEW z \in Zones, GiveZone(s, z), Bare(z),
         UNCHANGED <<servers, online>>, NEW y \in Zones, y # z
  PROVE  /\ Held(y) => Held(y)'
         /\ Bare(y) => Bare(y)'
         /\ Late(y) => Late(y)'
<1>1. Holders(y)' = Holders(y) /\ zoneServer'[y] = zoneServer[y]
  BY GiveHolds
<1>2. Listed' = Listed /\ modZonesPerServer' = modZonesPerServer
  BY DEF Listed, modZonesPerServer, numberServers
<1>3. (Held(y) => Held(y)') /\ (Bare(y) => Bare(y)')
  BY <1>1 DEF Held, Bare
<1> QED
  BY <1>2, <1>3 DEF Late

(* Links that go offline make no zone early. *)
LEMMA ZonesStay ==
  ASSUME UNCHANGED <<zoneServer, distribution>>,
         Listed' = Listed, modZonesPerServer' = modZonesPerServer,
         \A s \in Listed : ~online[s] => ~online'[s],
         NEW z \in Zones
  PROVE  /\ Held(z) => Held(z)'
         /\ Bare(z) => Bare(z)'
         /\ Late(z) => Late(z)'
<1>1. Holders(z)' = Holders(z)
  BY DEF Holders
<1>2. (Held(z) => Held(z)') /\ (Bare(z) => Bare(z)')
  BY <1>1 DEF Held, Bare
<1> QED
  BY <1>2 DEF Late

(* The zones of the front server. *)
LEMMA TableFront ==
  ASSUME CInv, TableInv, status = "running", AssignFront
  PROVE  TableInv'
<1>0. TypeOK /\ Len(servers) > 0 /\ servers \in Seq(Ids)
  BY DEF CInv, StartedInv, AssignFront, TypeOK
<1>1. front \in Ids /\ front \in Listed
  BY <1>0 DEF front, Listed
<1>2. /\ modZonesPerServer \in Nat /\ modZonesPerServer <= NZones
      /\ at \in Nat /\ at <= modZonesPerServer /\ zoneIndex = modZonesPerServer
      /\ zonesRestants \in 0 .. NZones /\ zonesRestants >= NZones - at
      /\ pc = "front" /\ status' = status
  BY <1>0, ModZones DEF CInv, FrontInv, AssignFront, TypeOK
<1>3. UNCHANGED <<servers, online>> /\ Listed' = Listed
      /\ modZonesPerServer' = modZonesPerServer
  BY DEF AssignFront, Listed, modZonesPerServer, numberServers
<1>4. \A z \in Zones : z \in Nat /\ IF z < at THEN Held(z) \/ Late(z) ELSE Bare(z)
  BY <1>2 DEF TableInv, Zones
<1>5. CASE at < modZonesPerServer /\ online[front]
  <2>1. /\ pc' = pc /\ at' = at + 1 /\ GiveZone(front, at)
    BY <1>2, <1>5 DEF AssignFront
  <2>2. at \in Zones /\ Bare(at)
    BY <1>2, <1>4, <1>5 DEF Zones
  <2>3. \A z \in Zones : IF z < at + 1 THEN Held(z)' \/ Late(z)' ELSE Bare(z)'
    <3> SUFFICES ASSUME NEW z \in Zones
                 PROVE IF z < at + 1 THEN Held(z)' \/ Late(z)' ELSE Bare(z)'
      OBVIOUS
    <3>1. CASE z = at
      BY <1>0, <1>1, <1>2, <2>1, <2>2, <3>1, GiveHolds
    <3>2. CASE z # at
      <4>1. /\ Held(z) => Held(z)'
            /\ Bare(z) => Bare(z)'
            /\ Late(z) => Late(z)'
        BY <1>0, <1>1, <1>3, <2>1, <2>2, <3>2, GiveOthers
      <4>2. z < at <=> z < at + 1
        BY <1>2, <1>4, <3>2
      <4> QED
        BY <1>4, <4>1, <4>2
    <3> QED
      BY <3>1, <3>2
  <2> QED
    BY <1>2, <2>1, <2>3 DEF TableInv
<1>6. ASSUME NoZoneGiven, NEW z \in Zones
      PROVE  /\ Held(z) => Held(z)'
             /\ Bare(z) => Bare(z)'
             /\ Late(z) => Late(z)'
  BY <1>3, <1>6, ZonesStay DEF NoZoneGiven, tables
<1>7. CASE at < modZonesPerServer /\ ~online[front]
  <2>1. pc' = pc /\ at' = at + 1 /\ NoZoneGiven
    BY <1>2, <1>7 DEF AssignFront
  <2>2. \A z \in Zones : IF z < at + 1 THEN Held(z)' \/ Late(z)' ELSE Bare(z)'
    <3> SUFFICES ASSUME NEW z \in Zones
                 PROVE IF z < at + 1 THEN Held(z)' \/ Late(z)' ELSE Bare(z)'
      OBVIOUS
    <3>1. CASE z = at
      BY <1>1, <1>2, <1>4, <1>6, <1>7, <2>1, <3>1 DEF Late
    <3>2. CASE z # at
      <4>1. z < at <=> z < at + 1
        BY <1>2, <1>4, <3>2
      <4> QED
        BY <1>4, <1>6, <2>1, <4>1
    <3> QED
      BY <3>1, <3>2
  <2> QED
    BY <1>2, <2>1, <2>2 DEF TableInv
<1>8. CASE at = modZonesPerServer /\ zonesRestants > 0
  <2>1. pc' = "assign" /\ NoZoneGiven /\ UNCHANGED locals
    BY <1>2, <1>8 DEF AssignFront, Goto
  <2> QED
    BY <1>2, <1>4, <1>6, <1>8, <2>1 DEF TableInv, locals
<1>9. CASE at = modZonesPerServer /\ zonesRestants = 0
  <2>1. pc' = "ask" /\ NoZoneGiven
    BY <1>2, <1>9 DEF AssignFront, StartRounds, Goto
  <2>2. \A z \in Zones : z < at
    BY <1>2, <1>9 DEF Zones
  <2>3. \A z \in Zones : Held(z)' \/ Late(z)'
    BY <1>4, <1>6, <2>1, <2>2
  <2> QED
    BY <2>1, <2>3 DEF TableInv
<1> QED
  BY <1>2, <1>5, <1>7, <1>8, <1>9 DEF AssignFront

(* The zones of the others. *)
LEMMA TableAssign ==
  ASSUME CInv, TableInv, status = "running", Assign
  PROVE  TableInv'
<1>0. TypeOK /\ Len(servers) > 0 /\ servers \in Seq(Ids)
  BY DEF CInv, StartedInv, Assign, TypeOK
<1>1. /\ at \in 1 .. Len(servers) /\ zoneIndex \in 0 .. NZones /\ pc = "assign"
      /\ UNCHANGED <<servers, online>>
  BY <1>0 DEF CInv, AssignInv, Assign, TypeOK
<1>2. PICK s \in Ids : s = servers[at]
  BY <1>0, <1>1
<1>3. Listed' = Listed /\ modZonesPerServer' = modZonesPerServer
  BY <1>1 DEF Listed, modZonesPerServer, numberServers
<1>4. \A z \in Zones : z \in Nat /\ IF z < zoneIndex THEN Held(z) \/ Late(z) ELSE Bare(z)
  BY <1>1 DEF TableInv, Zones
<1>5. CASE pc' = pc /\ NoZoneGiven /\ UNCHANGED locals
  <2>1. \A z \in Zones : /\ Held(z) => Held(z)'
                         /\ Bare(z) => Bare(z)'
                         /\ Late(z) => Late(z)'
    BY <1>1, <1>3, <1>5, ZonesStay DEF NoZoneGiven, tables
  <2> QED
    BY <1>1, <1>4, <1>5, <2>1 DEF TableInv, locals
<1>6. ASSUME zoneIndex < NZones, GiveZone(s, zoneIndex)
      PROVE  \A z \in Zones : IF z < zoneIndex + 1 THEN Held(z)' \/ Late(z)' ELSE Bare(z)'
  <2>1. zoneIndex \in Zones
    BY <1>1, <1>6 DEF Zones
  <2>2. Bare(zoneIndex)
    BY <1>1, <1>4, <2>1
  <2> SUFFICES ASSUME NEW z \in Zones
               PROVE IF z < zoneIndex + 1 THEN Held(z)' \/ Late(z)' ELSE Bare(z)'
    OBVIOUS
  <2>3. CASE z = zoneIndex
    BY <1>0, <1>1, <1>6, <2>1, <2>2, <2>3, GiveHolds
  <2>4. CASE z # zoneIndex
    <3>1. /\ Held(z) => Held(z)'
          /\ Bare(z) => Bare(z)'
          /\ Late(z) => Late(z)'
      BY <1>0, <1>1, <1>6, <2>1, <2>2, <2>4, GiveOthers
    <3>2. z < zoneIndex <=> z < zoneIndex + 1
      BY <1>1, <1>4, <2>4
    <3> QED
      BY <1>4, <3>1, <3>2
  <2> QED
    BY <2>3, <2>4
<1>7. CASE zoneIndex < NZones /\ GiveZone(s, zoneIndex) /\ zoneIndex + 1 = NZones
           /\ StartRounds
  <2>1. \A z \in Zones : z < zoneIndex + 1
    BY <1>7 DEF Zones
  <2>2. \A z \in Zones : Held(z)' \/ Late(z)'
    BY <1>6, <1>7, <2>1
  <2> QED
    BY <1>7, <2>2 DEF TableInv, StartRounds, Goto
<1>8. CASE zoneIndex < NZones /\ GiveZone(s, zoneIndex) /\ zoneIndex' = zoneIndex + 1
           /\ pc' = pc
  BY <1>1, <1>6, <1>8 DEF TableInv
<1> QED
  BY <1>1, <1>2, <1>5, <1>7, <1>8 DEF Assign

(* Every step keeps the table and the distribution together. *)
LEMMA TableStep == CInv /\ TableInv /\ [Next]_vars => TableInv'
<1> SUFFICES ASSUME CInv, TableInv, [Next]_vars PROVE TableInv'
  OBVIOUS
<1>0. TypeOK
  BY DEF CInv
<1>1. CASE Connect
  <2>1. /\ pc = "connect" /\ pc' = "front" /\ at' = 0
        /\ UNCHANGED <<zoneServer, distribution>>
    BY <1>1 DEF Connect, Goto, tables
  <2>2. \A z \in Zones : Holders(z)' = Holders(z)
    BY <2>1 DEF Holders
  <2>3. \A z \in Zones : Bare(z)' /\ ~(z < 0)
    BY <2>1, <2>2 DEF TableInv, Bare, Zones
  <2> QED
    BY <2>1, <2>3 DEF TableInv
<1>2. CASE Rest /\ UNCHANGED tables /\ ~AssignFront /\ ~Assign
  <2>1. Listed' = Listed /\ modZonesPerServer' = modZonesPerServer
    BY <1>2, ListStays
  <2>2. \A s \in Listed : ~online[s] => ~online'[s]
    <3>1. CASE online' = online
      BY <3>1
    <3>2. ASSUME NEW l \in Links, Drop(l) PROVE \A s \in Listed : ~online[s] => ~online'[s]
      BY <1>0, <3>2, ListSize DEF Drop, TypeOK, Links
    <3> QED
      BY <1>2, <3>1, <3>2 DEF Rest, Ask, Test, Alarm, Wake, Sort, OrderMove, WriteMove, EndBalance,
         Rebalance, ReceiveLoad, MissServer, NewUser, DisconnectUser
  <2>3. \A z \in Zones : /\ Held(z) => Held(z)'
                         /\ Bare(z) => Bare(z)'
                         /\ Late(z) => Late(z)'
    BY <1>2, <2>1, <2>2, ZonesStay DEF tables
  <2>4. \/ UNCHANGED <<pc, at, locals, first>> /\ (status' = "running" => status = "running")
        \/ /\ pc \in {"ask", "test", "asleep", "sort"} /\ first' = first
           /\ pc' \in {"ask", "test", "asleep", "sort", "balance"}
        \/ pc' \in {"balance", "moving", "resting"}
        \/ ~first' /\ pc' = "ask"
    BY <1>0, <1>2 DEF Rest, Ask, Test, Alarm, Wake, Sort, OrderMove, WriteMove,
     EndBalance, Rebalance,
       ReceiveLoad, MissServer, NewUser, DisconnectUser, Drop, Goto, watch, TypeOK
  <2> QED
    BY <2>3, <2>4 DEF TableInv, locals
<1>3. CASE WriteMove /\ ~UNCHANGED tables
  BY <1>3 DEF WriteMove, Goto, TableInv, tables
<1>4. CASE UNCHANGED vars
  <2>1. UNCHANGED <<servers, zoneServer, distribution, online>>
    BY <1>4 DEF vars, tables
  <2>2. \A z \in Zones : /\ Held(z) => Held(z)'
                         /\ Bare(z) => Bare(z)'
                         /\ Late(z) => Late(z)'
    BY <2>1, ZonesStay DEF Listed, modZonesPerServer, numberServers
  <2> QED
    BY <1>4, <2>2 DEF TableInv, vars, locals, watch
<1>5. Rest /\ ~AssignFront /\ ~Assign => UNCHANGED tables \/ WriteMove
  BY DEF Rest, Ask, Test, Alarm, Wake, Sort, OrderMove, EndBalance, Rebalance,
     ReceiveLoad, MissServer, NewUser, DisconnectUser, Drop
<1> QED
  BY <1>1, <1>2, <1>3, <1>4, <1>5, TableFront, TableAssign, Steps

(* When the assignment is over, each zone is with exactly one server, the  *)
(* one in zoneServer; a zone without a server is one of those meant for    *)
(* the front of the list, and a server has gone offline: for any numbers   *)
(* of servers and zones.                                                   *)
THEOREM AssignmentAlwaysComplete == Spec => []AssignmentComplete
<1>1. Init => TableInv
  BY DEF Init, TableInv, Bare, Holders
<1>2. TableInv => AssignmentComplete
  BY DEF TableInv, AssignmentComplete, Held, Late, Bare
<1> QED
  BY <1>1, <1>2, CInvAlways, TableStep, PTL DEF Spec
-----------------------------------------------------------------------------
(* The first round. *)

(* Who has answered, or will, is in the list.                              *)
KnownInv == heard \subseteq Listed /\ \A s \in Ids : coming[s] # <<>> => s \in Listed

(* No answer is of an earlier round. *)
FreshInv == first => \A s \in Ids : \A k \in DOMAIN coming[s] : ~coming[s][k].stale

(* A server whose turn has not come has been asked for nothing.            *)
UnaskedInv ==
    first /\ pc = "ask" =>
        \A k \in 1 .. Len(servers) :
            k >= at => coming[servers[k]] = <<>> /\ servers[k] \notin heard

(* A bit that was set is cleared by the last answer only.                  *)
ClearedInv ==
    /\ first /\ pc \in {"ask", "test", "asleep", "sort"} =>
          \A s \in 0 .. Len(servers) - 1 : s \in mask \/ s \in heard
    /\ first /\ pc = "sort" /\ timeout => mask = {}

RoundInv == KnownInv /\ FreshInv /\ UnaskedInv /\ ClearedInv

(* No server is in the list twice. *)
LEMMA NobodyTwice ==
  ASSUME TypeOK, NEW j \in 1 .. Len(servers), NEW k \in 1 .. Len(servers),
         servers[j] = servers[k]
  PROVE  j = k
<1> DEFINE D == 1 .. Len(servers)
<1>1. servers \in Seq(Ids) /\ Len(servers) = Cardinality(Listed) /\ Len(servers) \in Nat
      /\ DOMAIN servers = D
  BY DEF TypeOK
<1>2. servers \in Surjection(D, Listed)
  <2>1. Listed = {servers[i] : i \in D}
    BY <1>1 DEF Listed
  <2>2. servers \in [D -> Listed]
    <3>1. servers = [i \in D |-> servers[i]]
      BY <1>1
    <3> QED
      BY <2>1, <3>1
  <2> QED
    BY <2>1, <2>2 DEF Surjection
<1>3. IsFiniteSet(D) /\ Cardinality(D) = Len(servers)
  BY <1>1, FirstNumbers
<1>4. servers \in Injection(D, Listed)
  BY <1>1, <1>2, <1>3, FS_Surjection
<1> QED
  BY <1>4 DEF Injection, IsInjective

(* A step that loses answers at most and clears nothing keeps the round.   *)
LEMMA RoundKept ==
  ASSUME TypeOK, RoundInv, Len(servers') = Len(servers), Listed' = Listed, heard' = heard,
         mask' = mask,
         \A s \in Ids : coming'[s] \in {coming[s], <<>>},
         first' => first,
         first' /\ pc' = "ask" => pc = "ask" /\ UNCHANGED <<servers, at>>,
         first' /\ pc' \in {"ask", "test", "asleep", "sort"} =>
             pc \in {"ask", "test", "asleep", "sort"},
         first' /\ pc' = "sort" /\ timeout' => mask = {}
  PROVE  RoundInv'
<1>1. KnownInv'
  BY DEF RoundInv, KnownInv
<1>2. FreshInv'
  BY DEF RoundInv, FreshInv
<1>3. UnaskedInv'
  <2> SUFFICES ASSUME first', pc' = "ask", NEW k \in 1 .. Len(servers'), k >= at'
               PROVE  coming'[servers'[k]] = <<>> /\ servers'[k] \notin heard'
    BY DEF UnaskedInv
  <2>1. first /\ pc = "ask" /\ servers' = servers /\ k \in 1 .. Len(servers) /\ k >= at
    OBVIOUS
  <2>2. coming[servers[k]] = <<>> /\ servers[k] \notin heard
    BY <2>1 DEF RoundInv, UnaskedInv
  <2>3. servers[k] \in Ids
    BY <2>1 DEF TypeOK
  <2> QED
    BY <2>1, <2>2, <2>3
<1>4. ClearedInv'
  BY DEF RoundInv, ClearedInv
<1> QED
  BY <1>1, <1>2, <1>3, <1>4 DEF RoundInv

(* An answer that is handled or missed. *)
LEMMA RoundAnswer ==
  ASSUME CInv, HeardInv, RoundInv, NEW s \in Ids, ReceiveLoad(s) \/ MissServer(s)
  PROVE  RoundInv'
<1>0. TypeOK /\ coming[s] \in Seq(Answers) /\ coming[s] # <<>> /\ s \in Listed
  BY DEF CInv, TypeOK, ReceiveLoad, MissServer, RoundInv, KnownInv
<1>1. /\ Head(coming[s]) \in Answers /\ Head(coming[s]) = coming[s][1]
      /\ Tail(coming[s]) \in Seq(Answers) /\ 1 \in DOMAIN coming[s]
      /\ \A k \in DOMAIN Tail(coming[s]) :
            k + 1 \in DOMAIN coming[s] /\ Tail(coming[s])[k] = coming[s][k + 1]
  BY <1>0, HeadTailProperties
<1>2. UNCHANGED <<servers, first, pc, at, timeout>> /\ Listed' = Listed
  BY DEF ReceiveLoad, MissServer, watch, Listed
<1>3. /\ coming' = [coming EXCEPT ![s] = Tail(coming[s])] /\ coming \in [Ids -> Seq(Answers)]
      /\ coming'[s] = Tail(coming[s]) /\ \A i \in Ids : i # s => coming'[i] = coming[i]
  BY <1>0 DEF ReceiveLoad, MissServer, TypeOK
<1>4. /\ heard' \subseteq heard \cup {s} /\ mask' \subseteq mask
      /\ first => \A i \in mask : i \in mask' \/ i \in heard'
      /\ heard \subseteq heard'
      /\ pc \notin {"sort", "balance", "moving"} \/ mask' = mask \/ mask' = mask \ {s}
  <2>1. CASE ReceiveLoad(s)
    <3>1. PICK value \in Loads : Handle(s, Head(coming[s]), value)
      BY <2>1 DEF ReceiveLoad
    <3>2. first => ~Head(coming[s]).stale
      BY <1>0, <1>1 DEF RoundInv, FreshInv
    <3> QED
      BY <1>0, <1>1, <3>1, <3>2, HandleProperties
  <2>2. CASE MissServer(s)
    BY <2>2 DEF MissServer, watch
  <2> QED
    BY <2>1, <2>2
<1>5. KnownInv'
  <2>1. heard' \subseteq Listed
    BY <1>0, <1>4 DEF RoundInv, KnownInv
  <2>2. \A i \in Ids : coming'[i] # <<>> => i \in Listed
    BY <1>0, <1>3 DEF RoundInv, KnownInv
  <2> QED
    BY <1>2, <2>1, <2>2 DEF KnownInv
<1>6. FreshInv'
  <2> SUFFICES ASSUME first, NEW i \in Ids, NEW k \in DOMAIN coming'[i]
               PROVE  ~coming'[i][k].stale
    BY <1>2 DEF FreshInv
  <2>1. CASE i = s
    BY <1>0, <1>1, <1>3, <2>1 DEF RoundInv, FreshInv
  <2>2. CASE i # s
    BY <1>3, <2>2 DEF RoundInv, FreshInv
  <2> QED
    BY <2>1, <2>2
<1>7. UnaskedInv'
  <2> SUFFICES ASSUME first, pc = "ask", NEW k \in 1 .. Len(servers), k >= at
               PROVE  coming'[servers[k]] = <<>> /\ servers[k] \notin heard'
    BY <1>2 DEF UnaskedInv
  <2>1. coming[servers[k]] = <<>> /\ servers[k] \notin heard
    BY DEF RoundInv, UnaskedInv
  <2>2. servers[k] \in Ids
    BY <1>0 DEF TypeOK
  <2> QED
    BY <1>0, <1>3, <1>4, <2>1, <2>2
<1>8. ClearedInv'
  <2>1. mask = {} => mask' = {}
    BY <1>4
  <2> QED
    BY <1>2, <1>4, <2>1 DEF RoundInv, ClearedInv
<1> QED
  BY <1>5, <1>6, <1>7, <1>8 DEF RoundInv

(* A server that is asked. *)
LEMMA RoundAsk ==
  ASSUME CInv, HeardInv, RoundInv, Ask
  PROVE  RoundInv'
<1>0. TypeOK /\ pc = "ask" /\ at \in Nat /\ at >= 1 /\ servers \in Seq(Ids)
      /\ coming \in [Ids -> Seq(Answers)]
  BY DEF CInv, TypeOK, AskInv, Ask
<1>1. UNCHANGED <<servers, first, timeout>> /\ Listed' = Listed
  BY DEF Ask, Listed
<1>2. CASE UNCHANGED <<figures, mask>>
  <2>1. (pc' = "ask" /\ at' = at + 1) \/ pc' = "test"
    BY DEF Ask, Goto
  <2>2. KnownInv' /\ FreshInv' /\ ClearedInv'
    BY <1>0, <1>1, <1>2, <2>1 DEF RoundInv, KnownInv, FreshInv, ClearedInv, figures
  <2>3. UnaskedInv'
    BY <1>0, <1>1, <1>2, <2>1 DEF RoundInv, UnaskedInv, figures
  <2> QED
    BY <2>2, <2>3 DEF RoundInv
<1>3. ASSUME NEW s \in Ids, at <= Len(servers), s = servers[at], NEW u \in Seq(Answers),
             first => u = <<>>, Request(s, u), pc' = "ask", at' = at + 1,
             mask' \subseteq mask, heard' \subseteq heard \cup {s},
             first => mask' = mask /\ heard' = heard \ {s}
      PROVE  RoundInv'
  <2>1. s \in Listed
    BY <1>0, <1>3 DEF Listed
  <2>2. coming' \in [Ids -> Seq(Answers)] /\ \A i \in Ids : i # s => coming'[i] = coming[i]
    BY <1>0, <1>3, RequestProperties
  <2>3. KnownInv'
    <3>1. heard' \subseteq Listed
      BY <1>3, <2>1 DEF RoundInv, KnownInv
    <3>2. \A i \in Ids : coming'[i] # <<>> => i \in Listed
      BY <2>1, <2>2 DEF RoundInv, KnownInv
    <3> QED
      BY <1>1, <3>1, <3>2 DEF KnownInv
  <2>4. FreshInv'
    <3> SUFFICES ASSUME first, NEW i \in Ids, NEW k \in DOMAIN coming'[i]
                 PROVE  ~coming'[i][k].stale
      BY <1>1 DEF FreshInv
    <3>1. CASE i = s
      <4>1. coming'[s] = AnswersOf(s)
        BY <1>0, <1>3, RequestProperties
      <4>2. AnswersOf(s) \in Seq(Answers)
            /\ \A j \in 1 .. Len(AnswersOf(s)) : ~AnswersOf(s)[j].stale
        BY <1>0, AnswersOfProperties
      <4>3. k \in 1 .. Len(AnswersOf(s))
        BY <3>1, <4>1, <4>2
      <4> QED
        BY <3>1, <4>1, <4>2, <4>3
    <3>2. CASE i # s
      BY <2>2, <3>2 DEF RoundInv, FreshInv
    <3> QED
      BY <3>1, <3>2
  <2>5. UnaskedInv'
    <3> SUFFICES ASSUME first, NEW k \in 1 .. Len(servers), k >= at + 1
                 PROVE  coming'[servers[k]] = <<>> /\ servers[k] \notin heard'
      BY <1>1, <1>3 DEF UnaskedInv
    <3>1. k \in 1 .. Len(servers) /\ k >= at /\ k # at /\ at \in 1 .. Len(servers)
      BY <1>0, <1>3
    <3>2. servers[k] \in Ids
      BY <1>0, <3>1
    <3>3. servers[k] # s
      BY <1>0, <1>3, <3>1, NobodyTwice
    <3>4. coming[servers[k]] = <<>> /\ servers[k] \notin heard
      BY <1>0, <3>1 DEF RoundInv, UnaskedInv
    <3> QED
      BY <1>3, <2>2, <3>2, <3>3, <3>4
  <2>6. ClearedInv'
    <3>1. at \in 1 .. Len(servers)
      BY <1>0, <1>3
    <3>2. first => s \notin heard
      BY <1>0, <1>3, <3>1 DEF RoundInv, UnaskedInv
    <3>3. first => mask' = mask /\ heard' = heard
      BY <1>3, <3>2
    <3> QED
      BY <1>0, <1>1, <1>3, <3>3 DEF RoundInv, ClearedInv
  <2> QED
    BY <2>3, <2>4, <2>5, <2>6 DEF RoundInv
<1>4. at <= Len(servers) => servers[at] \in Ids
  BY <1>0
<1>5. at <= Len(servers) /\ first => coming[servers[at]] = <<>>
  <2>1. at <= Len(servers) => at \in 1 .. Len(servers)
    BY <1>0
  <2> QED
    BY <1>0, <2>1 DEF RoundInv, UnaskedInv
<1>6. ASSUME NEW s \in Ids, at <= Len(servers), s = servers[at], Request(s, coming[s]),
             heard' = heard \ {s}, mask' = mask, Goto("ask", at + 1)
      PROVE  RoundInv'
  <2>1. coming[s] \in Seq(Answers)
    BY <1>0
  <2> QED
    BY <1>3, <1>5, <1>6, <2>1 DEF Goto
<1>7. ASSUME NEW s \in Ids, at <= Len(servers), s = servers[at], coming[s] # <<>>,
             NEW value \in Loads, Request(s, Tail(coming[s])), Goto("ask", at + 1),
             Handle(s, [Head(coming[s]) EXCEPT !.stale = TRUE], value)
      PROVE  RoundInv'
  <2>1. Head(coming[s]) \in Answers /\ Tail(coming[s]) \in Seq(Answers)
    BY <1>0, <1>7, HeadTailProperties
  <2>2. PICK msg \in Answers : msg = [Head(coming[s]) EXCEPT !.stale = TRUE]
    BY <2>1 DEF Answers
  <2>3. mask' \subseteq mask /\ heard' \subseteq heard \cup {s}
    BY <1>0, <1>7, <2>2, HandleProperties
  <2>4. ~first
    BY <1>5, <1>7
  <2> QED
    BY <1>3, <1>7, <2>1, <2>3, <2>4 DEF Goto
<1> QED
  BY <1>2, <1>4, <1>6, <1>7 DEF Ask

(* The rounds begin when nobody has been asked and every bit is set.       *)
LEMMA RoundBegins ==
  ASSUME CInv, HeardInv, AssignFront \/ Assign
  PROVE  RoundInv'
<1>1. ~Serving /\ UNCHANGED <<servers, coming, heard>>
  BY DEF AssignFront, Assign, Serving, GiveZone, NoZoneGiven, figures
<1>2. heard = {} /\ \A s \in Ids : coming[s] = <<>>
  BY <1>1 DEF HeardInv
<1>3. KnownInv' /\ FreshInv'
  BY <1>1, <1>2 DEF KnownInv, FreshInv
<1>4. pc' \in {"front", "assign"} \/ (pc' = "ask" /\ mask' = 0 .. Len(servers) - 1)
  BY DEF AssignFront, Assign, StartRounds, Goto, numberServers
<1>5. servers \in Seq(Ids)
  BY DEF CInv, TypeOK
<1>6. UnaskedInv' /\ ClearedInv'
  BY <1>1, <1>2, <1>4, <1>5 DEF UnaskedInv, ClearedInv
<1> QED
  BY <1>3, <1>6 DEF RoundInv

(* Every step keeps the round. *)
LEMMA RoundStep == CInv /\ HeardInv /\ RoundInv /\ [Next]_vars => RoundInv'
<1> SUFFICES ASSUME CInv, HeardInv, RoundInv, [Next]_vars PROVE RoundInv'
  OBVIOUS
<1>0. TypeOK
  BY DEF CInv
<1>1. CASE Connect
  <2>1. ~Serving /\ pc' = "front" /\ UNCHANGED <<coming, heard>>
    BY <1>1 DEF Connect, Serving, Goto, figures
  <2>2. heard' = {} /\ \A s \in Ids : coming'[s] = <<>>
    BY <2>1 DEF HeardInv
  <2> QED
    BY <2>1, <2>2 DEF RoundInv, KnownInv, FreshInv, UnaskedInv, ClearedInv
<1>2. CASE Test \/ Alarm \/ Wake \/ Sort \/ OrderMove \/ WriteMove \/ EndBalance \/ Rebalance
  <2>1. Len(servers') = Len(servers) /\ Listed' = Listed
    BY <1>2, ListStays DEF Rest
  <2>2. heard' = heard /\ mask' = mask /\ coming' = coming
    BY <1>2 DEF Test, Alarm, Wake, Sort, OrderMove, WriteMove, EndBalance, Rebalance, figures, watch
  <2>3. /\ first' => first
        /\ first' => pc' # "ask"
        /\ first' /\ pc' \in {"test", "asleep", "sort"} =>
               pc \in {"test", "asleep", "sort"}
        /\ first' /\ pc' = "sort" /\ timeout' => mask = {}
    BY <1>2 DEF Test, Alarm, Wake, Sort, OrderMove, WriteMove, EndBalance, Rebalance, watch, Goto
  <2> QED
    BY <1>0, <2>1, <2>2, <2>3, RoundKept
<1>3. CASE \/ \E l \in Links : Drop(l)
           \/ \E z \in Zones : NewUser(z)
           \/ DisconnectUser \/ UNCHANGED vars
  <2>1. UNCHANGED <<servers, heard, mask, pc, at, timeout, first>>
    BY <1>3 DEF Drop, NewUser, DisconnectUser, vars, figures, watch
  <2>2. \A s \in Ids : coming'[s] \in {coming[s], <<>>}
    <3>1. CASE coming' = coming
      BY <3>1
    <3>2. ASSUME NEW l, coming' = [coming EXCEPT ![l] = <<>>]
          PROVE  \A s \in Ids : coming'[s] \in {coming[s], <<>>}
      BY <1>0, <3>2 DEF TypeOK
    <3> QED
      BY <1>3, <3>1, <3>2 DEF Drop, NewUser, DisconnectUser, vars, figures
  <2>3. Listed' = Listed /\ (first' /\ pc' = "sort" /\ timeout' => mask = {})
    BY <2>1 DEF Listed, RoundInv, ClearedInv
  <2> QED
    BY <1>0, <2>1, <2>2, <2>3, RoundKept
<1> QED
  BY <1>1, <1>2, <1>3, RoundBegins, RoundAsk, RoundAnswer, Steps DEF Rest

(* In the first round nothing is sorted or moved, unless the time is up,   *)
(* before each server that has zones and a link has given its last answer; *)
(* when servers could not be reached the mask has the bits of other ids    *)
(* than theirs, and then only the timeout ends the wait: for any numbers   *)
(* of servers and zones.                                                   *)
THEOREM FirstRoundWaits == Spec => []FirstRoundHasTheLoads
<1>1. Init => RoundInv
  BY DEF Init, RoundInv, KnownInv, FreshInv, UnaskedInv, ClearedInv
<1>2. ASSUME CInv, RoundInv PROVE FirstRoundHasTheLoads
  <2> SUFFICES ASSUME first, pc = "sort", timeout PROVE Listed \subseteq heard
    BY DEF FirstRoundHasTheLoads, HasTheLoads
  <2>1. /\ Listed \in SUBSET Ids /\ IsFiniteSet(Listed)
        /\ Len(servers) \in Nat /\ Len(servers) = Cardinality(Listed)
    BY <1>2, ListSize DEF CInv
  <2>2. 0 .. Len(servers) - 1 \subseteq heard /\ heard \subseteq Listed
    BY <1>2 DEF RoundInv, ClearedInv, KnownInv
  <2>3. Cardinality(0 .. Len(servers) - 1) = Len(servers)
    BY <2>1, FS_Interval
  <2>4. Listed = 0 .. Len(servers) - 1
    BY <2>1, <2>2, <2>3, FS_Subset
  <2> QED
    BY <2>2, <2>4
<1>3. CInv /\ RoundInv => FirstRoundHasTheLoads
  BY <1>2
<1> QED
  BY <1>1, <1>3, InitCInv, CInvStep, HeardStep, RoundStep, InitHeard, PTL DEF Spec

-----------------------------------------------------------------------------
(* The answer that is waited for. *)

(* A server that is not in the list has no link. *)
ReachInv == pc # "connect" => \A i \in Ids : online[i] => i \in Listed

(* A server that can be asked has zones to answer for. *)
Supplied(s) == online[s] => managed[s] # {}

(* When there are as many zones as servers in the list, the second loop of *)
(* zoneAssignment gives each of them one before it gives any another.      *)
SuppliedInv ==
  NZones >= Len(servers) =>
    /\ pc = "assign" /\ status = "running" =>
          \/ \A k \in 1 .. Len(servers) : Supplied(servers[k])
          \/ /\ zoneIndex < modZonesPerServer + at
             /\ \A k \in 1 .. Len(servers) : k < at => Supplied(servers[k])
    /\ Serving /\ status = "running" => \A s \in Listed : Supplied(s)

(* Otherwise there may be servers that get none. *)
Spare(s) == managed[s] = {} /\ NZones < Len(servers)

(* The last answer of a server with its bit set is under way. *)
Answering(s) ==
    s \in mask /\ online[s] =>
        \/ \E k \in DOMAIN coming[s] : coming[s][k].remaining = 0
        \/ Spare(s)

AskedInv ==
    /\ pc = "ask" => \A k \in 1 .. Len(servers) : k < at => Answering(servers[k])
    /\ pc \in {"test", "asleep"} => \A s \in Listed : Answering(s)

(* Links only go down, and the list stays. *)
LEMMA ReachStep == CInv /\ ReachInv /\ [Next]_vars => ReachInv'
<1> SUFFICES ASSUME CInv, ReachInv, [Next]_vars PROVE ReachInv'
  OBVIOUS
<1>0. TypeOK
  BY DEF CInv
<1>1. CASE Connect
  <2>1. PICK up \in SUBSET Links : /\ online' = [l \in Links |-> l \in up]
                                  /\ servers' = Ascending(up \ {Router})
    BY <1>1 DEF Connect
  <2>2. up \ {Router} \in SUBSET Ids
    BY <2>1 DEF Links
  <2>3. up \ {Router} \in SUBSET Int /\ IsFiniteSet(up \ {Router})
    BY <2>2, IdsFinite, FS_Subset DEF Ids
  <2>4. Listed' = up \ {Router}
    BY <2>1, <2>3, AscendingProperties DEF Listed
  <2>5. \A i \in Ids : i # Router /\ i \in Links
    BY DEF Ids, Links
  <2>6. \A i \in Ids : online'[i] => i \in up
    BY <2>1, <2>5, Zenon
  <2> QED
    BY <2>4, <2>5, <2>6 DEF ReachInv
<1>2. CASE Rest
  <2>1. Listed' = Listed
    BY <1>2, ListStays
  <2>2. pc = "connect" => pc' = "connect"
    BY <1>2 DEF Rest, AssignFront, Assign, Ask, Test, Alarm, Wake, Sort, OrderMove, WriteMove,
       EndBalance, Rebalance, ReceiveLoad, MissServer, NewUser, DisconnectUser, Drop
  <2>3. \A i \in Ids : online'[i] => online[i]
    <3>1. CASE online' = online
      BY <3>1
    <3>2. ASSUME NEW l \in Links, Drop(l) PROVE \A i \in Ids : online'[i] => online[i]
      BY <1>0, <3>2 DEF Drop, TypeOK, Links
    <3> QED
      BY <1>2, <3>1, <3>2 DEF Rest, AssignFront, Assign, Ask, Test, Alarm, Wake, Sort,
         OrderMove, WriteMove, EndBalance, Rebalance, ReceiveLoad, MissServer, NewUser, DisconnectUser
  <2> QED
    BY <2>1, <2>2, <2>3 DEF ReachInv
<1>3. CASE UNCHANGED vars
  BY <1>3 DEF ReachInv, vars, Listed
<1> QED
  BY <1>1, <1>2, <1>3, Steps

(* The second loop of zoneAssignment. *)
LEMMA SuppliedAssign ==
  ASSUME CInv, SuppliedInv, status = "running", Assign
  PROVE  SuppliedInv'
<1> DEFINE s == servers[at]
           n == Len(servers)
<1>0. /\ TypeOK /\ pc = "assign" /\ n \in Nat /\ at \in 1 .. n
      /\ zoneIndex \in 0 .. NZones /\ NZones \in Nat /\ servers' = servers
  BY ListSize DEF CInv, TypeOK, AssignInv, Assign
<1> SUFFICES ASSUME NZones >= n PROVE SuppliedInv'
  BY <1>0 DEF SuppliedInv
<1>1. s \in Ids /\ (\A k \in 1 .. n : servers[k] \in Ids)
      /\ \A t \in Listed : \E k \in 1 .. n : t = servers[k]
  <2>1. servers \in Seq(Ids)
    BY <1>0 DEF TypeOK
  <2>2. DOMAIN servers = 1 .. n /\ \A k \in 1 .. n : servers[k] \in Ids
    BY <2>1
  <2> QED
    BY <1>0, <2>2 DEF Listed
<1>2. /\ modZonesPerServer \in Nat
      /\ NZones - modZonesPerServer >= n
  BY <1>0, ModZones
<1>3. UNCHANGED <<servers, online>> /\ Listed' = Listed /\ modZonesPerServer' = modZonesPerServer
  BY DEF Assign, Listed, modZonesPerServer, numberServers
<1> DEFINE All == \A k \in 1 .. n : Supplied(servers[k])
           Before(b) == \A k \in 1 .. n : k < b => Supplied(servers[k])
<1>4. All \/ (zoneIndex < modZonesPerServer + at /\ Before(at))
  BY <1>0 DEF SuppliedInv
<1>5. CASE UNCHANGED managed /\ UNCHANGED locals /\ ~online[s] /\ pc' = pc
           /\ at' = IF at = n THEN 1 ELSE at + 1
  <2>1. Supplied(s)
    BY <1>5 DEF Supplied
  <2>2. \A k \in 1 .. n : Supplied(servers[k])' <=> Supplied(servers[k])
    BY <1>3, <1>5 DEF Supplied
  <2>3. All \/ (at # n /\ zoneIndex < modZonesPerServer + at + 1 /\ Before(at + 1))
    BY <1>0, <1>2, <1>4, <2>1
  <2>4. \/ \A k \in 1 .. n : Supplied(servers[k])'
        \/ /\ zoneIndex' < modZonesPerServer' + at'
           /\ \A k \in 1 .. n : k < at' => Supplied(servers[k])'
    BY <1>0, <1>2, <1>3, <1>5, <2>2, <2>3 DEF locals
  <2> QED
    BY <1>0, <1>3, <1>5, <2>4 DEF SuppliedInv, Serving
<1>6. CASE status' = "undefined"
  BY <1>6 DEF SuppliedInv
<1>7. CASE /\ GiveZone(s, zoneIndex) /\ zoneIndex < NZones
           /\ \/ zoneIndex + 1 = NZones /\ StartRounds
              \/ zoneIndex' = zoneIndex + 1 /\ pc' = pc /\ at' = IF at = n THEN 1 ELSE at + 1
  <2>1. managed' = [managed EXCEPT ![s] = @ \cup {zoneIndex}]
    BY <1>7 DEF GiveZone
  <2>2. managed'[s] # {} /\ \A t \in Ids : managed[t] \subseteq managed'[t]
    BY <1>0, <1>1, <2>1 DEF TypeOK
  <2>3. \A t \in Ids : online'[t] = online[t]
    BY <1>3
  <2>4. \A k \in 1 .. n : k = at \/ Supplied(servers[k]) => Supplied(servers[k])'
    <3>1. \A k \in 1 .. n : k = at => Supplied(servers[k])'
      BY <1>3, <2>2 DEF Supplied
    <3>2. \A t \in Ids : (online[t] => managed[t] # {}) => (online'[t] => managed'[t] # {})
      BY <2>2, <2>3
    <3>3. \A k \in 1 .. n : Supplied(servers[k]) => Supplied(servers[k])'
      BY <1>1, <1>3, <3>2 DEF Supplied
    <3> QED
      BY <3>1, <3>3
  <2>5. \/ \A k \in 1 .. n : Supplied(servers[k])'
        \/ /\ zoneIndex < modZonesPerServer + at /\ at # n
           /\ \A k \in 1 .. n : k < at + 1 => Supplied(servers[k])'
    <3>1. CASE All
      BY <2>4, <3>1
    <3>2. CASE zoneIndex < modZonesPerServer + at /\ Before(at)
      <4>1. \A k \in 1 .. n : k < at + 1 => k < at \/ k = at
        BY <1>0
      <4>2. \A k \in 1 .. n : k < at + 1 => Supplied(servers[k])'
        BY <2>4, <3>2, <4>1
      <4>3. at = n => \A k \in 1 .. n : k < at + 1
        BY <1>0
      <4> QED
        BY <3>2, <4>2, <4>3
    <3> QED
      BY <1>4, <3>1, <3>2
  <2>6. CASE zoneIndex + 1 = NZones /\ StartRounds
    <3>1. \A k \in 1 .. n : Supplied(servers[k])'
      BY <1>0, <1>2, <2>5, <2>6
    <3>2. \A t \in Listed : Supplied(t)'
      BY <1>1, <1>3, <3>1 DEF Supplied
    <3> QED
      BY <1>3, <2>6, <3>2 DEF SuppliedInv, StartRounds, Goto
  <2>7. CASE zoneIndex' = zoneIndex + 1 /\ pc' = pc /\ at' = IF at = n THEN 1 ELSE at + 1
    <3>1. \/ \A k \in 1 .. n : Supplied(servers[k])'
          \/ /\ zoneIndex' < modZonesPerServer' + at'
             /\ \A k \in 1 .. n : k < at' => Supplied(servers[k])'
      BY <1>0, <1>2, <1>3, <2>5, <2>7
    <3> QED
      BY <1>0, <1>3, <2>7, <3>1 DEF SuppliedInv, Serving
  <2> QED
    BY <1>7, <2>6, <2>7
<1> QED
  BY <1>5, <1>6, <1>7 DEF Assign, NoZoneGiven, tables

(* Nobody is without a zone from there on. *)
LEMMA SuppliedStep == CInv /\ SuppliedInv /\ [Next]_vars => SuppliedInv'
<1> SUFFICES ASSUME CInv, SuppliedInv, [Next]_vars PROVE SuppliedInv'
  OBVIOUS
<1>0. TypeOK
  BY DEF CInv
<1>1. CASE Connect
  BY <1>1 DEF Connect, Goto, SuppliedInv, Serving
<1>2. CASE AssignFront /\ status = "running"
  <2> SUFFICES ASSUME NZones >= Len(servers) PROVE SuppliedInv'
    BY <1>2 DEF SuppliedInv, AssignFront
  <2>1. /\ Len(servers) > 0 /\ NZones \in Nat
        /\ at <= modZonesPerServer /\ zoneIndex = modZonesPerServer
        /\ zonesRestants >= NZones - at
    BY <1>0, <1>2, ListSize DEF AssignFront, CInv, StartedInv, FrontInv
  <2>2. /\ modZonesPerServer \in Nat /\ modZonesPerServer < Len(servers)
        /\ Len(servers) \in Nat /\ at \in Nat /\ zonesRestants \in Int
    BY <1>0, <2>1, ModZones, ListSize DEF TypeOK
  <2>3. zonesRestants # 0
    BY <2>1, <2>2
  <2>4. pc' = "front" \/ (pc' = "assign" /\ at' = 1 /\ UNCHANGED <<servers, zoneIndex>>)
    BY <1>2, <2>3 DEF AssignFront, Goto, locals
  <2>5. CASE pc' = "front"
    BY <2>5 DEF SuppliedInv, Serving
  <2>6. CASE pc' = "assign" /\ at' = 1 /\ UNCHANGED <<servers, zoneIndex>>
    <3>1. zoneIndex' < modZonesPerServer' + at'
      BY <2>1, <2>2, <2>6 DEF modZonesPerServer, numberServers
    <3> QED
      BY <2>6, <3>1 DEF SuppliedInv, Serving
  <2> QED
    BY <2>4, <2>5, <2>6
<1>3. CASE Rest /\ status = "running" /\ ~AssignFront /\ ~Assign
  <2>1. /\ Listed' = Listed /\ modZonesPerServer' = modZonesPerServer
        /\ Len(servers') = Len(servers)
    BY <1>3, ListStays
  <2> SUFFICES ASSUME NZones >= Len(servers) PROVE SuppliedInv'
    BY <2>1 DEF SuppliedInv
  <2>2. UNCHANGED managed
    BY <1>3 DEF Rest, Ask, Test, Alarm, Wake, Sort, OrderMove, WriteMove,
     EndBalance, Rebalance,
       ReceiveLoad, MissServer, NewUser, DisconnectUser, Drop, tables
  <2>3. \A i \in Ids : online'[i] => online[i]
    <3>1. CASE online' = online
      BY <3>1
    <3>2. ASSUME NEW l \in Links, Drop(l) PROVE \A i \in Ids : online'[i] => online[i]
      BY <1>0, <3>2 DEF Drop, TypeOK, Links
    <3> QED
      BY <1>3, <3>1, <3>2 DEF Rest, Ask, Test, Alarm, Wake, Sort,
         OrderMove, WriteMove, EndBalance, Rebalance, ReceiveLoad, MissServer, NewUser, DisconnectUser
  <2>4. \A i \in Ids : Supplied(i) => Supplied(i)'
    BY <2>2, <2>3 DEF Supplied
  <2>5. \/ Serving /\ Serving'
        \/ UNCHANGED <<pc, servers, zoneIndex, at>>
    BY <1>3 DEF Rest, Ask, Test, Alarm, Wake, Sort, OrderMove, WriteMove,
     EndBalance, Rebalance,
       ReceiveLoad, MissServer, NewUser, DisconnectUser, Drop, locals, Serving, Goto
  <2>6. CASE Serving /\ Serving'
    <3>1. \A t \in Listed : Supplied(t)'
      BY <1>0, <1>3, <2>4, <2>6, ListSize DEF SuppliedInv
    <3> QED
      BY <2>1, <2>6, <3>1 DEF SuppliedInv, Serving
  <2>7. CASE UNCHANGED <<pc, servers, zoneIndex, at>>
    <3>1. \A k \in 1 .. Len(servers) : servers[k] \in Ids
      BY <1>0 DEF TypeOK
    <3>2. \A k \in 1 .. Len(servers) : Supplied(servers[k]) => Supplied(servers[k])'
      BY <2>4, <2>7, <3>1 DEF Supplied
    <3>3. \A t \in Listed : Supplied(t) => Supplied(t)'
      BY <1>0, <2>4, ListSize
    <3> QED
      BY <1>3, <2>1, <2>7, <3>2, <3>3 DEF SuppliedInv, Serving
  <2> QED
    BY <2>5, <2>6, <2>7
<1>4. CASE UNCHANGED vars
  BY <1>4 DEF SuppliedInv, Supplied, Serving, Listed, modZonesPerServer, numberServers,
     vars, tables, locals
<1> QED
  BY <1>1, <1>2, <1>3, <1>4, SuppliedAssign, Steps DEF Rest

(* A step that shortens the mask and drops links at most. *)
LEMMA AskedKept ==
  ASSUME TypeOK, AskedInv, Listed' = Listed, mask' \subseteq mask,
         \A s \in Ids : Spare(s) => Spare(s)',
         \A s \in Ids : online'[s] => online[s] /\ (s \in mask' =>
             \/ coming'[s] = coming[s]
             \/ \A k \in DOMAIN coming[s] : coming[s][k].remaining = 0 =>
                   \E j \in DOMAIN coming'[s] : coming'[s][j].remaining = 0),
         pc' = "ask" => at' = 1 \/ (pc = "ask" /\ UNCHANGED <<servers, at>>),
         pc' \in {"test", "asleep"} => pc \in {"test", "asleep"}
  PROVE  AskedInv'
<1>1. \A s \in Ids : Answering(s) => Answering(s)'
  BY DEF Answering
<1>2. Listed \in SUBSET Ids
  BY ListSize
<1>3. \A k \in 1 .. Len(servers) : servers[k] \in Ids
  BY DEF TypeOK
<1>4. pc' \in {"test", "asleep"} => \A s \in Listed : Answering(s)'
  BY <1>1, <1>2 DEF AskedInv
<1>5. ASSUME pc' = "ask" PROVE \A k \in 1 .. Len(servers') : k < at' => Answering(servers[k])'
  <2>1. CASE at' = 1
    <3>1. \A k \in 1 .. Len(servers') : ~(k < 1)
      OBVIOUS
    <3> QED
      BY <2>1, <3>1
  <2>2. CASE pc = "ask" /\ UNCHANGED <<servers, at>>
    BY <1>1, <1>3, <2>2 DEF AskedInv, Answering
  <2> QED
    BY <1>5, <2>1, <2>2
<1> QED
  BY <1>4, <1>5 DEF AskedInv

(* A server that is asked has zones and its last answer follows, or it has *)
(* none and there are fewer zones than servers.                            *)
LEMMA AskedAsk ==
  ASSUME CInv, ReachInv, SuppliedInv, AskedInv, status = "running", Ask
  PROVE  AskedInv'
<1>0. TypeOK /\ pc = "ask" /\ at \in Nat /\ at >= 1 /\ servers \in Seq(Ids)
      /\ coming \in [Ids -> Seq(Answers)] /\ Len(servers) \in Nat
  BY ListSize DEF CInv, TypeOK, AskInv, Ask
<1>1. UNCHANGED <<servers, online, managed>> /\ Listed' = Listed
  BY DEF Ask, Listed, tables
<1>2. \A k \in 1 .. Len(servers) : servers[k] \in Ids /\ servers[k] \in Listed
  BY <1>0 DEF Listed
<1>3. ASSUME UNCHANGED <<coming, mask>> PROVE \A s \in Ids : Answering(s) => Answering(s)'
  BY <1>1, <1>3 DEF Answering, Spare
<1>4. CASE at > Len(servers) /\ UNCHANGED <<figures, mask>> /\ Goto("test", 0)
  <2>1. \A k \in 1 .. Len(servers) : Answering(servers[k])
    BY <1>0, <1>4 DEF AskedInv
  <2>2. \A s \in Listed : Answering(s)
    BY <1>0, <2>1 DEF Listed
  <2>3. \A s \in Listed : Answering(s)'
    BY <1>0, <1>3, <1>4, <2>2, ListSize DEF figures
  <2> QED
    BY <1>1, <1>4, <2>3 DEF AskedInv, Goto
<1>5. ASSUME at <= Len(servers), Goto("ask", at + 1), mask' \subseteq mask,
             \A s \in Ids : s # servers[at] => coming'[s] = coming[s],
             online[servers[at]] =>
                 \/ \E k \in DOMAIN coming'[servers[at]] : coming'[servers[at]][k].remaining = 0
                 \/ Spare(servers[at])
      PROVE  AskedInv'
  <2>1. PICK t \in Ids : t = servers[at]
    BY <1>0, <1>2, <1>5
  <2>2. Answering(t)'
    BY <1>1, <1>5, <2>1 DEF Answering, Spare
  <2>3. \A s \in Ids : Answering(s) \/ s = t => Answering(s)'
    BY <1>1, <1>5, <2>1, <2>2 DEF Answering, Spare
  <2>4. \A k \in 1 .. Len(servers) : k < at + 1 => k < at \/ servers[k] = t
    BY <1>0, <2>1
  <2>5. \A k \in 1 .. Len(servers) : k < at + 1 => Answering(servers[k]) \/ servers[k] = t
    BY <1>0, <2>4 DEF AskedInv
  <2>6. \A k \in 1 .. Len(servers) : k < at + 1 => Answering(servers[k])'
    BY <1>1, <1>2, <2>3, <2>5 DEF Answering, Spare
  <2> QED
    BY <1>1, <1>5, <2>6 DEF AskedInv, Goto
<1>6. CASE at <= Len(servers) /\ ~online[servers[at]] /\ Goto("ask", at + 1)
           /\ UNCHANGED <<figures, mask>>
  BY <1>5, <1>6 DEF figures
<1>7. ASSUME NEW s \in Ids, at <= Len(servers), s = servers[at], online[s],
             Goto("ask", at + 1), mask' \subseteq mask,
             NEW u \in Seq(Answers), Request(s, u)
      PROVE  AskedInv'
  <2>1. managed[s] # {} \/ Spare(s)
    <3>1. at \in 1 .. Len(servers) /\ Serving
      BY <1>0, <1>7 DEF Serving
    <3>2. s \in Listed
      BY <1>2, <1>7, <3>1
    <3> QED
      BY <1>0, <1>7, <3>1, <3>2 DEF SuppliedInv, Supplied, Spare
  <2>2. managed[s] # {} => Cardinality(managed[s]) > 0
    BY <1>0, ManagedSize
  <2>3. /\ \A i \in Ids : i # s => coming'[i] = coming[i]
        /\ managed[s] # {} => \E k \in DOMAIN coming'[s] : coming'[s][k].remaining = 0
    BY <1>0, <1>7, <2>2, RequestProperties
  <2> QED
    BY <1>5, <1>7, <2>1, <2>3
<1>8. at <= Len(servers) => servers[at] \in Ids
  BY <1>0, <1>2
<1>9. ASSUME NEW s \in Ids, coming[s] # <<>>, NEW value \in Loads,
             Handle(s, [Head(coming[s]) EXCEPT !.stale = TRUE], value)
      PROVE  Tail(coming[s]) \in Seq(Answers) /\ mask' \subseteq mask
  <2>1. Head(coming[s]) \in Answers /\ Tail(coming[s]) \in Seq(Answers)
    BY <1>0, <1>9, HeadTailProperties
  <2>2. PICK msg \in Answers : msg = [Head(coming[s]) EXCEPT !.stale = TRUE]
    BY <2>1 DEF Answers
  <2> QED
    BY <1>0, <1>9, <2>1, <2>2, HandleProperties
<1> QED
  BY <1>0, <1>4, <1>6, <1>7, <1>8, <1>9 DEF Ask

(* What is waited for stays under way until it clears the bit. *)
LEMMA AskedStep ==
  CInv /\ ReachInv /\ SuppliedInv /\ AskedInv /\ [Next]_vars => AskedInv'
<1> SUFFICES ASSUME CInv, ReachInv, SuppliedInv, AskedInv, [Next]_vars PROVE AskedInv'
  OBVIOUS
<1>0. TypeOK
  BY DEF CInv
<1>1. CASE Connect
  BY <1>1 DEF Connect, Goto, AskedInv
<1>2. CASE AssignFront \/ Assign
  <2>1. pc' \notin {"test", "asleep"} /\ (pc' = "ask" => at' = 1)
    BY <1>2 DEF AssignFront, Assign, StartRounds, Goto
  <2>2. \A k \in 1 .. Len(servers') : ~(k < 1)
    OBVIOUS
  <2> QED
    BY <2>1, <2>2 DEF AskedInv
<1>3. CASE Test \/ Alarm \/ Wake \/ Sort \/ OrderMove \/ WriteMove \/ EndBalance \/ Rebalance
  <2>1. Listed' = Listed /\ Len(servers') = Len(servers)
    BY <1>3, ListStays DEF Rest
  <2>2. mask' = mask /\ coming' = coming /\ online' = online /\ managed' = managed
    BY <1>3 DEF Test, Alarm, Wake, Sort, OrderMove, WriteMove, EndBalance, Rebalance, figures,
       watch, tables
  <2>3. /\ pc' = "ask" => at' = 1
        /\ pc' \in {"test", "asleep"} => pc \in {"test", "asleep"}
    BY <1>3 DEF Test, Alarm, Wake, Sort, OrderMove, WriteMove, EndBalance, Rebalance, Goto
  <2>4. \A s \in Ids : Spare(s) => Spare(s)'
    BY <2>1, <2>2 DEF Spare
  <2> QED
    BY <1>0, <2>1, <2>2, <2>3, <2>4, AskedKept
<1>4. CASE \/ \E z \in Zones : NewUser(z)
           \/ DisconnectUser \/ UNCHANGED vars
  <2>1. UNCHANGED <<servers, managed, online, coming, mask, pc, at>>
    BY <1>4 DEF NewUser, DisconnectUser, vars, tables, figures, watch
  <2>2. \A s \in Ids : Spare(s) => Spare(s)'
    BY <2>1 DEF Spare
  <2> QED
    BY <1>0, <2>1, <2>2, AskedKept DEF Listed
<1>5. ASSUME NEW l \in Links, Drop(l) PROVE AskedInv'
  <2>1. UNCHANGED <<servers, managed, mask, pc, at>> /\ \A s \in Ids : Spare(s) => Spare(s)'
    BY <1>5 DEF Drop, watch, tables, Spare
  <2>2. \A s \in Ids : online'[s] => online[s] /\ coming'[s] = coming[s]
    <3>1. online' = [online EXCEPT ![l] = FALSE] /\ online \in [Links -> BOOLEAN]
      BY <1>0, <1>5 DEF Drop, TypeOK
    <3>2. \A s \in Ids : s \in Links
      BY DEF Links
    <3>3. \A s \in Ids : online'[s] => online[s] /\ s # l
      BY <3>1, <3>2, Zenon
    <3>4. coming' \in {coming, [coming EXCEPT ![l] = <<>>]} /\ coming \in [Ids -> Seq(Answers)]
      BY <1>0, <1>5 DEF Drop, TypeOK
    <3> QED
      BY <3>3, <3>4
  <2> QED
    BY <1>0, <2>1, <2>2, AskedKept DEF Listed
<1>6. ASSUME NEW s \in Ids, ReceiveLoad(s) PROVE AskedInv'
  <2>0. \A i \in Ids : Spare(i) => Spare(i)'
    BY <1>6 DEF ReceiveLoad, tables, Spare
  <2>1. UNCHANGED <<servers, online, pc, at>> /\ coming[s] \in Seq(Answers) /\ coming[s] # <<>>
    BY <1>0, <1>6 DEF ReceiveLoad, TypeOK
  <2>2. /\ Head(coming[s]) \in Answers /\ Head(coming[s]) = coming[s][1]
        /\ \A k \in DOMAIN coming[s] : k # 1 =>
              k - 1 \in DOMAIN Tail(coming[s]) /\ Tail(coming[s])[k - 1] = coming[s][k]
    BY <2>1, HeadTailProperties
  <2>3. mask' = IF Head(coming[s]).remaining = 0 THEN mask \ {s} ELSE mask
    BY <1>0, <1>6, <2>2, HandleProperties DEF ReceiveLoad
  <2>4. coming'[s] = Tail(coming[s]) /\ \A i \in Ids : i # s => coming'[i] = coming[i]
    BY <1>0, <1>6 DEF ReceiveLoad, TypeOK
  <2>5. s \in mask' => \A k \in DOMAIN coming[s] : coming[s][k].remaining = 0 =>
                   \E j \in DOMAIN coming'[s] : coming'[s][j].remaining = 0
    <3> SUFFICES ASSUME s \in mask', NEW k \in DOMAIN coming[s], coming[s][k].remaining = 0
                 PROVE  \E j \in DOMAIN coming'[s] : coming'[s][j].remaining = 0
      OBVIOUS
    <3>1. k # 1
      BY <2>2, <2>3
    <3> QED
      BY <2>2, <2>4, <3>1
  <2>6. mask' \subseteq mask
    BY <2>3
  <2> QED
    BY <1>0, <2>0, <2>1, <2>4, <2>5, <2>6, AskedKept DEF Listed
<1>7. ASSUME NEW s \in Ids, MissServer(s) PROVE AskedInv'
  BY <1>7 DEF MissServer, AskedInv
<1> QED
  BY <1>1, <1>2, <1>3, <1>4, <1>5, <1>6, <1>7, AskedAsk, Steps DEF Rest

(* As long as the loop of main tests the mask, the message that will clear *)
(* a bit is under way, or the link of its server is down (bits of servers  *)
(* that were never reached count as such), or that server got no zone      *)
(* because there are more servers than zones: for any numbers of both,     *)
(* the five servers and four zones of execution.txt among them.            *)
THEOREM WaitedAnswerAlwaysComing == Spec => []WaitedAnswerIsComing
<1>1. Init => ReachInv /\ SuppliedInv /\ AskedInv
  BY DEF Init, ReachInv, SuppliedInv, AskedInv, Serving
<1>2. CInv /\ SuppliedInv /\ [Next]_vars => SuppliedInv'
  BY SuppliedStep
<1>3. ASSUME TypeOK, ReachInv, AskedInv PROVE WaitedAnswerIsComing
  <2> SUFFICES ASSUME pc \in {"test", "asleep"}, NEW i \in mask, online[i]
               PROVE  \/ \E k \in DOMAIN coming[i] : coming[i][k].remaining = 0
                      \/ Spare(i)
    BY DEF WaitedAnswerIsComing, Spare, numberServers
  <2>1. i \in Ids
    BY <1>3 DEF TypeOK
  <2> QED
    BY <1>3, <2>1 DEF ReachInv, AskedInv, Answering
<1>4. CInv /\ ReachInv /\ AskedInv => WaitedAnswerIsComing
  BY <1>3 DEF CInv
<1> QED
  BY <1>1, <1>2, <1>4, AskedStep, CInvAlways, ReachStep, PTL DEF Spec

-----------------------------------------------------------------------------
(* What is written to zoneServer. *)

(* As long as the front server is there it takes its zones, and they are   *)
(* counted.                                                                *)
RestantsInv ==
    pc = "front" /\ status = "running" /\ online[front] => zonesRestants = NZones - at

(* zoneAssignment can come to the end of zoneServer before it returns only *)
(* when all the zones were meant for a front server that is gone.          *)
RoomInv ==
    pc = "assign" /\ status = "running" =>
        zoneIndex < NZones \/ (NZones < Len(servers) /\ ~online[front])

(* Control does nothing undefined before its rounds, unless there are more *)
(* servers than zones and the front one goes offline.                      *)
StartIsDefined ==
    status = "undefined" /\ ~Serving => NZones < Len(servers) /\ ~online[front]

StartInv == RestantsInv /\ RoomInv /\ StartIsDefined

(* The zones of the front server. *)
LEMMA StartFront ==
  ASSUME CInv, StartInv, status = "running", AssignFront
  PROVE  StartInv'
<1>0. TypeOK /\ Len(servers) > 0 /\ Len(servers) \in Nat /\ NZones \in Nat
  BY ListSize DEF CInv, StartedInv, AssignFront
<1>1. /\ modZonesPerServer \in Nat /\ modZonesPerServer < Len(servers)
      /\ NZones < Len(servers) => modZonesPerServer = NZones
  BY <1>0, ModZones
<1>2. /\ at \in Nat /\ zoneIndex = modZonesPerServer /\ zonesRestants \in Int
      /\ pc = "front" /\ UNCHANGED <<servers, online, status>> /\ front' = front
  BY <1>0 DEF CInv, FrontInv, AssignFront, TypeOK, front
<1>3. online[front] => zonesRestants = NZones - at
  BY <1>2 DEF StartInv, RestantsInv
<1>4. StartIsDefined'
  BY <1>2 DEF StartIsDefined
<1>5. RestantsInv'
  <2>1. CASE at < modZonesPerServer
    BY <1>1, <1>2, <1>3, <2>1 DEF AssignFront, RestantsInv
  <2>2. CASE pc' # "front"
    BY <2>2 DEF RestantsInv
  <2> QED
    BY <2>1, <2>2 DEF AssignFront, Goto, StartRounds
<1>6. RoomInv'
  <2>1. CASE at = modZonesPerServer /\ zonesRestants > 0 /\ UNCHANGED locals
    <3>1. zoneIndex < NZones \/ (NZones < Len(servers) /\ ~online[front])
      <4>1. CASE NZones < Len(servers)
        BY <1>0, <1>1, <1>2, <1>3, <2>1, <4>1
      <4>2. CASE NZones >= Len(servers)
        BY <1>0, <1>1, <1>2, <4>2
      <4> QED
        BY <1>0, <4>1, <4>2
    <3> QED
      BY <1>2, <2>1, <3>1 DEF RoomInv, locals
  <2>2. CASE pc' # "assign"
    BY <2>2 DEF RoomInv
  <2> QED
    BY <1>2, <2>1, <2>2 DEF AssignFront, Goto, StartRounds
<1> QED
  BY <1>4, <1>5, <1>6 DEF StartInv

(* The zones of the others: only here something undefined can be done.     *)
LEMMA StartAssign ==
  ASSUME CInv, StartInv, status = "running", Assign
  PROVE  StartInv'
<1>1. /\ pc = "assign" /\ zoneIndex \in 0 .. NZones /\ NZones \in Nat
      /\ UNCHANGED <<servers, online>> /\ front' = front
  BY DEF Assign, CInv, TypeOK, front
<1>2. zoneIndex < NZones \/ (NZones < Len(servers) /\ ~online[front])
  BY <1>1 DEF StartInv, RoomInv
<1>3. pc' \in {"assign", "ask"}
  BY <1>1 DEF Assign, StartRounds, Goto
<1>4. RestantsInv'
  BY <1>3 DEF RestantsInv
<1>5. RoomInv'
  <2>1. CASE zoneIndex + 1 < NZones /\ zoneIndex' = zoneIndex + 1
    BY <2>1 DEF RoomInv
  <2>2. CASE zoneIndex' = zoneIndex
    BY <1>1, <1>2, <2>2 DEF RoomInv
  <2>3. CASE pc' = "ask"
    BY <2>3 DEF RoomInv
  <2> QED
    BY <2>1, <2>2, <2>3 DEF Assign, StartRounds, Goto, locals
<1>6. StartIsDefined'
  <2>1. CASE status' = "running"
    BY <2>1 DEF StartIsDefined
  <2>2. CASE zoneIndex = NZones
    BY <1>1, <1>2, <2>2 DEF StartIsDefined
  <2> QED
    BY <2>1, <2>2 DEF Assign
<1> QED
  BY <1>4, <1>5, <1>6 DEF StartInv

(* The rest of zoneAssignment is up to the links. *)
LEMMA StartStep == CInv /\ StartInv /\ [Next]_vars => StartInv'
<1> SUFFICES ASSUME CInv, StartInv, [Next]_vars PROVE StartInv'
  OBVIOUS
<1>0. TypeOK
  BY DEF CInv
<1>1. CASE Connect /\ status = "running"
  <2>1. pc' = "front" /\ at' = 0 /\ zonesRestants' = NZones /\ status' \in {"crashed", status}
    BY <1>1 DEF Connect, Goto
  <2> QED
    BY <1>1, <2>1 DEF StartInv, RestantsInv, RoomInv, StartIsDefined
<1>2. CASE Rest /\ status = "running" /\ ~AssignFront /\ ~Assign
  <2>1. CASE Serving /\ Serving'
    BY <2>1 DEF StartInv, RestantsInv, RoomInv, StartIsDefined, Serving
  <2>2. ASSUME NEW l \in Links, Drop(l), pc \in {"front", "assign"} PROVE StartInv'
    <3>1. UNCHANGED <<servers, pc, at, zoneIndex, zonesRestants, status>> /\ front' = front
      BY <2>2 DEF Drop, locals, front
    <3>2. front \in Links
      <4>1. servers \in Seq(Ids) /\ Len(servers) > 0
        BY <1>0, <1>2, <2>2 DEF TypeOK, CInv, StartedInv
      <4> QED
        BY <4>1 DEF front, Links
    <3>3. online' = [online EXCEPT ![l] = FALSE] /\ online \in [Links -> BOOLEAN]
      BY <1>0, <2>2 DEF Drop, TypeOK
    <3>4. online'[front] => online[front]
      BY <3>2, <3>3, Zenon
    <3> QED
      BY <1>2, <3>1, <3>4 DEF StartInv, RestantsInv, RoomInv, StartIsDefined
  <2>3. CASE pc = "connect" /\ pc' = "connect" /\ status' = status
    BY <1>2, <2>3 DEF StartInv, RestantsInv, RoomInv, StartIsDefined
  <2>4. CASE UNCHANGED <<servers, online, pc, at, zoneIndex, zonesRestants, status>>
    BY <1>2, <2>4 DEF StartInv, RestantsInv, RoomInv, StartIsDefined, front
  <2>5. \/ Serving /\ Serving'
        \/ \E l \in Links : Drop(l)
        \/ UNCHANGED <<servers, online, pc, at, zoneIndex, zonesRestants, status>>
    BY <1>2 DEF Rest, Ask, Test, Alarm, Wake, Sort, OrderMove, WriteMove, EndBalance,
       Rebalance, ReceiveLoad, MissServer, NewUser, DisconnectUser, Serving, Goto, locals
  <2>6. ASSUME NEW l \in Links, Drop(l) PROVE StartInv'
    <3>1. UNCHANGED <<pc, status>>
      BY <2>6 DEF Drop
    <3> QED
      BY <2>1, <2>2, <2>3, <2>6, <3>1 DEF Serving
  <2> QED
    BY <2>1, <2>4, <2>5, <2>6
<1>3. CASE UNCHANGED vars
  BY <1>3 DEF StartInv, RestantsInv, RoomInv, StartIsDefined, Serving, vars, locals, front
<1> QED
  BY <1>1, <1>2, <1>3, StartFront, StartAssign, Steps DEF Rest

(* zoneAssignment writes past the end of zoneServer (Control.cpp:256 at    *)
(* zoneIndex = NZONES) only with more servers than zones, when all zones   *)
(* are meant for the front server and it has gone offline: for any numbers *)
(* of servers and zones, although the test that ends the loop comes after  *)
(* the write and links may drop in between.                                *)
THEOREM StartAlwaysDefined == Spec => []StartIsDefined
<1>1. Init => StartInv
  BY DEF Init, StartInv, RestantsInv, RoomInv, StartIsDefined
<1>2. StartInv => StartIsDefined
  BY DEF StartInv
<1> QED
  BY <1>1, <1>2, CInvAlways, StartStep, PTL DEF Spec

(* No zone is twice in a distribution. *)
Distinct(d) == \A j, k \in 1 .. Len(d) : d[j] = d[k] => j = k
DistinctInv == \A s \in Ids : Distinct(distribution[s])

(* zoneServer[changedZonePosition] is an entry of the table or the one     *)
(* before it, when it is chosen and when it is written.                    *)
MoveIsInTable ==
    /\ pc = "balance" /\ status = "running" => posMinLoadZone \in Zones \cup {-1}
    /\ changedZonePosition \in Zones \cup {-1}

(* A zone nobody has is given.                                             *)
LEMMA GiveDistinct ==
  ASSUME TypeOK, DistinctInv, NEW s \in Ids, NEW z \in Zones, Bare(z), GiveZone(s, z)
  PROVE  DistinctInv'
<1>1. /\ distribution \in [Ids -> Seq(Zones)]
      /\ distribution' = [distribution EXCEPT ![s] = Append(distribution[s], z)]
  BY DEF TypeOK, GiveZone
<1> DEFINE d == distribution[s]
<1>2. d \in Seq(Zones) /\ Len(d) \in Nat
  BY <1>1
<1>3. /\ Len(Append(d, z)) = Len(d) + 1
      /\ \A k \in 1 .. Len(d) : Append(d, z)[k] = d[k]
      /\ Append(d, z)[Len(d) + 1] = z
  BY <1>2, AppendProperties
<1>4. \A k \in 1 .. Len(d) : d[k] # z
  BY <1>2 DEF Bare, Holders
<1>5. Distinct(d)
  BY DEF DistinctInv
<1> HIDE DEF d
<1>6. Distinct(Append(d, z))
  <2> SUFFICES ASSUME NEW j \in 1 .. Len(d) + 1, NEW k \in 1 .. Len(d) + 1,
                      Append(d, z)[j] = Append(d, z)[k]
               PROVE  j = k
    BY <1>3 DEF Distinct
  <2>1. \A i \in 1 .. Len(d) + 1 : i \in 1 .. Len(d) \/ i = Len(d) + 1
    BY <1>2
  <2> QED
    BY <1>3, <1>4, <1>5, <2>1 DEF Distinct
<1>7. \A t \in Ids : distribution'[t] = IF t = s THEN Append(d, z) ELSE distribution[t]
  BY <1>1 DEF d
<1> QED
  BY <1>6, <1>7 DEF DistinctInv

(* So a distribution has no more entries than there are zones. *)
LEMMA DistinctFits ==
  ASSUME NEW d \in Seq(Zones), Distinct(d)
  PROVE  Len(d) \in Nat /\ Len(d) <= NZones
<1>1. Len(d) \in Nat /\ d \in [1 .. Len(d) -> Zones]
  OBVIOUS
<1>2. d \in Injection(1 .. Len(d), Zones)
  BY <1>1 DEF Distinct, Injection, IsInjective
<1>3. IsFiniteSet(Zones) /\ Cardinality(Zones) = NZones
  BY FS_Interval DEF Zones
<1>4. Cardinality(1 .. Len(d)) = Len(d)
  BY <1>1, FirstNumbers
<1> QED
  BY <1>1, <1>2, <1>3, <1>4, FS_Injection

(* Every step keeps the distributions without repetition. *)
LEMMA DistinctStep == CInv /\ TableInv /\ DistinctInv /\ [Next]_vars => DistinctInv'
<1> SUFFICES ASSUME CInv, TableInv, DistinctInv, [Next]_vars PROVE DistinctInv'
  OBVIOUS
<1>0. TypeOK
  BY DEF CInv
<1>1. CASE UNCHANGED distribution
  BY <1>1 DEF DistinctInv
<1>2. CASE AssignFront /\ status = "running"
  <2>1. /\ Len(servers) > 0 /\ servers \in Seq(Ids) /\ pc = "front"
        /\ at \in Nat
    BY <1>0, <1>2 DEF AssignFront, CInv, StartedInv, TypeOK
  <2>2. modZonesPerServer \in Nat /\ modZonesPerServer <= NZones
    BY <1>0, <2>1, ModZones
  <2>3. ASSUME at < modZonesPerServer, GiveZone(front, at) PROVE DistinctInv'
    <3>1. at \in Zones /\ front \in Ids
      BY <2>1, <2>2, <2>3 DEF Zones, front
    <3>2. Bare(at)
      BY <1>2, <2>1, <3>1 DEF TableInv
    <3> QED
      BY <1>0, <2>3, <3>1, <3>2, GiveDistinct
  <2> QED
    BY <1>1, <1>2, <2>3 DEF AssignFront, NoZoneGiven, tables
<1>3. CASE Assign /\ status = "running"
  <2>1. /\ servers[at] \in Ids /\ pc = "assign" /\ zoneIndex \in 0 .. NZones
    <3>1. servers \in Seq(Ids) /\ at \in 1 .. Len(servers)
      BY <1>0, <1>3 DEF Assign, CInv, AssignInv, TypeOK
    <3> QED
      BY <1>0, <1>3, <3>1 DEF Assign, TypeOK
  <2>2. ASSUME zoneIndex < NZones, GiveZone(servers[at], zoneIndex) PROVE DistinctInv'
    <3>1. zoneIndex \in Zones
      BY <2>1, <2>2 DEF Zones
    <3>2. Bare(zoneIndex)
      BY <1>3, <2>1, <3>1 DEF TableInv
    <3> QED
      BY <1>0, <2>1, <2>2, <3>1, <3>2, GiveDistinct
  <2> QED
    BY <1>1, <1>3, <2>2 DEF Assign, NoZoneGiven, tables
<1>4. CASE Connect
  BY <1>1, <1>4 DEF Connect, tables
<1>5. CASE UNCHANGED vars
  BY <1>1, <1>5 DEF vars, tables
<1>6. CASE Rest /\ ~AssignFront /\ ~Assign
  BY <1>1, <1>6 DEF Rest, Ask, Test, Alarm, Wake, Sort, OrderMove, WriteMove,
     EndBalance, Rebalance,
     ReceiveLoad, MissServer, NewUser, DisconnectUser, Drop, tables
<1> QED
  BY <1>2, <1>3, <1>4, <1>5, <1>6, Steps

(* Without repetition that is a zone as well. *)
LEMMA PositionFits ==
  ASSUME TypeOK, DistinctInv, Len(servers) > 0
  PROVE  posMinLoadZone \in Zones \cup {-1}
<1>1. PICK d \in Seq(Zones) : d = distribution[back]
  BY PositionIsIndex
<1>2. Distinct(d)
  BY <1>1, PositionIsIndex DEF DistinctInv
<1>3. Len(d) \in Nat /\ Len(d) <= NZones
  BY <1>2, DistinctFits
<1>4. posMinLoadZone \in 0 .. Len(d) - 1 \cup {-1}
  BY <1>1, PositionIsIndex
<1> QED
  BY <1>3, <1>4 DEF Zones

(* What is chosen is what is written.                                     *)
LEMMA MoveStep == CInv /\ DistinctInv /\ MoveIsInTable /\ [Next]_vars =>
                     changedZonePosition' \in Zones \cup {-1}
<1> SUFFICES ASSUME CInv, DistinctInv, MoveIsInTable, [Next]_vars
             PROVE  changedZonePosition' \in Zones \cup {-1}
  OBVIOUS
<1>1. changedZonePosition \in Zones \cup {-1}
  BY DEF MoveIsInTable
<1>2. CASE OrderMove /\ status = "running"
  BY <1>2 DEF OrderMove, MoveIsInTable
<1>3. CASE Connect
  BY <1>1, <1>3 DEF Connect
<1>4. CASE Rest /\ ~OrderMove
  BY <1>1, <1>4 DEF Rest, AssignFront, Assign, StartRounds, Ask, Test, Alarm, Wake, Sort,
     WriteMove, EndBalance, Rebalance, ReceiveLoad, MissServer, NewUser, DisconnectUser, Drop,
     locals
<1>5. CASE UNCHANGED vars
  BY <1>1, <1>5 DEF vars, locals
<1> QED
  BY <1>2, <1>3, <1>4, <1>5, Steps

(* Although balance uses a position in a distribution for a zone, what it  *)
(* writes with it, after the messages about the move have gone out, is     *)
(* within zoneServer, or at -1 (Control.cpp:101) when no load is below     *)
(* 1.0: no distribution is longer than the table.                          *)
THEOREM MoveAlwaysInTable == Spec => []MoveIsInTable
<1> DEFINE Stored == changedZonePosition \in Zones \cup {-1}
<1>1. Init => TableInv /\ DistinctInv /\ Stored
  BY DEF Init, TableInv, Bare, Holders, DistinctInv, Distinct
<1>2. ASSUME CInv, DistinctInv, Stored PROVE MoveIsInTable
  <2>1. TypeOK /\ StartedInv
    BY <1>2 DEF CInv
  <2> QED
    BY <1>2, <2>1, PositionFits DEF MoveIsInTable, StartedInv
<1>3. CInv /\ DistinctInv /\ Stored => MoveIsInTable
  BY <1>2
<1>4. CInv /\ DistinctInv /\ Stored /\ [Next]_vars => Stored'
  BY <1>3, MoveStep
<1> QED
  BY <1>1, <1>3, <1>4, CInvAlways, TableStep, DistinctStep, PTL DEF Spec

-----------------------------------------------------------------------------
(* Sums: what MapThenSumSet returns, by least counterexamples. *)

Sum(f, S) == MapThenSumSet(LAMBDA z : f[z], S)

Pick(S) == CHOOSE x \in S : TRUE
Body(f, it, s) == IF s = {} THEN 0 ELSE f[Pick(s)] + it[s \ {Pick(s)}]

(* it has the sum of f over each subset of S. *)
Adds(f, S, it) == it = [s \in SUBSET S |-> Body(f, it, s)]

(* The sum is what the recursion of the library gives for the whole set.   *)
LEMMA SumIs ==
  ASSUME NEW S, NEW f
  PROVE  Sum(f, S) = (CHOOSE it : Adds(f, S, it))[S]
BY DEF Sum, MapThenSumSet, MapThenFoldSet, Adds, Body, Pick

(* A set without one of its elements. *)
LEMMA OneLess ==
  ASSUME NEW S, IsFiniteSet(S), NEW x \in S
  PROVE  /\ IsFiniteSet(S \ {x}) /\ Cardinality(S) \in Nat /\ Cardinality(S) > 0
         /\ Cardinality(S \ {x}) = Cardinality(S) - 1
BY FS_RemoveElement, FS_CardinalityType, FS_EmptySet

(* There is such a recursion. *)
LEMMA AddsExists ==
  ASSUME NEW S, IsFiniteSet(S), NEW f, \A x \in S : f[x] \in Nat
  PROVE  \E it \in [SUBSET S -> Nat] : Adds(f, S, it)
<1> DEFINE Upto(k, it) ==
              \A s \in SUBSET S : Cardinality(s) <= k => it[s] = Body(f, it, s)
           Bad == {k \in Nat : \A it \in [SUBSET S -> Nat] : ~Upto(k, it)}
<1>1. \A s \in SUBSET S : IsFiniteSet(s) /\ Cardinality(s) \in Nat
  BY FS_Subset, FS_CardinalityType
<1>2. ASSUME NEW it \in [SUBSET S -> Nat], NEW s \in SUBSET S
      PROVE  /\ Body(f, it, s) \in Nat
             /\ s # {} => /\ Pick(s) \in s /\ s \ {Pick(s)} \in SUBSET S
                          /\ Cardinality(s \ {Pick(s)}) = Cardinality(s) - 1
  <2>1. CASE s = {}
    BY <2>1 DEF Body
  <2>2. CASE s # {}
    <3>1. Pick(s) \in s /\ s \ {Pick(s)} \in SUBSET S
      BY <2>2 DEF Pick
    <3>2. f[Pick(s)] \in Nat /\ it[s \ {Pick(s)}] \in Nat
      BY <3>1
    <3>3. Cardinality(s \ {Pick(s)}) = Cardinality(s) - 1
      BY <1>1, <3>1, OneLess
    <3> QED
      BY <2>2, <3>1, <3>2, <3>3 DEF Body
  <2> QED
    BY <2>1, <2>2
<1>3. 0 \notin Bad
  <2>1. [s \in SUBSET S |-> 0] \in [SUBSET S -> Nat]
    OBVIOUS
  <2>2. \A s \in SUBSET S : Cardinality(s) <= 0 => s = {}
    BY <1>1, FS_EmptySet
  <2>3. Upto(0, [s \in SUBSET S |-> 0])
    BY <2>2 DEF Body
  <2> QED
    BY <2>1, <2>3
<1>4. ASSUME NEW k \in Nat, k \notin Bad PROVE k + 1 \notin Bad
  <2>1. PICK g \in [SUBSET S -> Nat] : Upto(k, g)
    BY <1>4
  <2> DEFINE h == [s \in SUBSET S |-> Body(f, g, s)]
  <2>2. h \in [SUBSET S -> Nat]
    BY <1>2
  <2>3. ASSUME NEW s \in SUBSET S, Cardinality(s) <= k + 1 PROVE h[s] = Body(f, h, s)
    <3>1. CASE s = {}
      BY <3>1 DEF Body
    <3>2. CASE s # {}
      <4>1. /\ s \ {Pick(s)} \in SUBSET S /\ Cardinality(s) \in Nat
            /\ Cardinality(s \ {Pick(s)}) = Cardinality(s) - 1
        BY <1>1, <1>2, <3>2
      <4>2. g[s \ {Pick(s)}] = Body(f, g, s \ {Pick(s)})
        BY <2>1, <2>3, <4>1
      <4>3. h[s \ {Pick(s)}] = g[s \ {Pick(s)}]
        BY <4>1, <4>2
      <4> QED
        BY <3>2, <4>3 DEF Body
    <3> QED
      BY <3>1, <3>2
  <2> HIDE DEF h
  <2> QED
    BY <2>2, <2>3
<1> HIDE DEF Bad
<1>5. Bad = {}
  <2> SUFFICES ASSUME Bad # {} PROVE FALSE
    OBVIOUS
  <2>1. Bad \in SUBSET Nat
    BY DEF Bad
  <2>2. PICK k \in Bad : \A j \in Bad : k <= j
    BY <2>1, Least
  <2>3. k # 0 /\ k \in Nat
    BY <1>3, <2>1
  <2>4. k - 1 \in Nat /\ k - 1 \notin Bad /\ (k - 1) + 1 = k
    BY <2>2, <2>3
  <2> QED
    BY <1>4, <2>2, <2>4
<1>6. PICK g \in [SUBSET S -> Nat] : Upto(Cardinality(S), g)
  BY <1>1, <1>5 DEF Bad
<1>7. \A s \in SUBSET S : Cardinality(s) <= Cardinality(S)
  BY FS_Subset
<1>8. \A s \in SUBSET S : g[s] = Body(f, g, s)
  BY <1>6, <1>7
<1> QED
  BY <1>8 DEF Adds

(* And no other, for a subset neither. *)
LEMMA AddsUnique ==
  ASSUME NEW S, IsFiniteSet(S), NEW T \in SUBSET S, NEW f, NEW a, NEW b,
         Adds(f, S, a), Adds(f, T, b)
  PROVE  \A t \in SUBSET T : a[t] = b[t]
<1> DEFINE Bad == {Cardinality(t) : t \in {u \in SUBSET T : a[u] # b[u]}}
<1> SUFFICES ASSUME Bad # {} PROVE FALSE
  OBVIOUS
<1>1. \A t \in SUBSET T : IsFiniteSet(t) /\ Cardinality(t) \in Nat
  BY FS_Subset, FS_CardinalityType
<1>2. Bad \in SUBSET Nat
  BY <1>1
<1>3. PICK k \in Bad : \A j \in Bad : k <= j
  <2> HIDE DEF Bad
  <2> QED
    BY <1>2, Least
<1>4. PICK t \in SUBSET T : a[t] # b[t] /\ Cardinality(t) = k
  BY <1>3
<1>5. a[t] = Body(f, a, t) /\ b[t] = Body(f, b, t)
  <2>1. \A s \in SUBSET S : a[s] = Body(f, a, s)
    BY DEF Adds
  <2>2. \A s \in SUBSET T : b[s] = Body(f, b, s)
    BY DEF Adds
  <2> QED
    BY <2>1, <2>2
<1>6. t # {}
  BY <1>4, <1>5 DEF Body
<1>7. Pick(t) \in t
  BY <1>6 DEF Pick
<1>8. t \ {Pick(t)} \in SUBSET T /\ Cardinality(t \ {Pick(t)}) = k - 1 /\ k \in Nat
  BY <1>1, <1>4, <1>7, OneLess
<1>9. a[t \ {Pick(t)}] = b[t \ {Pick(t)}]
  <2>1. k - 1 \notin Bad
    BY <1>3, <1>8
  <2> QED
    BY <1>8, <2>1
<1> QED
  BY <1>4, <1>5, <1>6, <1>9 DEF Body

(* So sums are numbers, and add up. *)
LEMMA SumAdds ==
  ASSUME NEW S, IsFiniteSet(S), NEW f, \A x \in S : f[x] \in Nat
  PROVE  /\ Sum(f, S) \in Nat
         /\ \A it : Adds(f, S, it) => Sum(f, S) = it[S]
         /\ S = {} => Sum(f, S) = 0
         /\ S # {} => Pick(S) \in S /\ Sum(f, S) = f[Pick(S)] + Sum(f, S \ {Pick(S)})
<1> DEFINE It(T) == CHOOSE it : Adds(f, T, it)
<1>1. \A T \in SUBSET S : IsFiniteSet(T) /\ \A x \in T : f[x] \in Nat
  BY FS_Subset
<1>2. ASSUME NEW T \in SUBSET S PROVE Adds(f, T, It(T)) /\ Sum(f, T) = It(T)[T]
  <2>1. \E it : Adds(f, T, it)
    BY <1>1, AddsExists
  <2>2. Adds(f, T, It(T))
    BY <2>1
  <2> QED
    BY <2>2, SumIs
<1> HIDE DEF It
<1>3. PICK g \in [SUBSET S -> Nat] : Adds(f, S, g)
  BY AddsExists
<1>4. ASSUME NEW T \in SUBSET S PROVE Sum(f, T) = g[T]
  BY <1>2, <1>3, <1>4, AddsUnique
<1>5. ASSUME NEW it, Adds(f, S, it) PROVE Sum(f, S) = it[S]
  BY <1>3, <1>4, <1>5, AddsUnique
<1>6. g[S] = Body(f, g, S)
  BY <1>3 DEF Adds
<1>7. S # {} => Pick(S) \in S
  BY DEF Pick
<1> QED
  BY <1>4, <1>5, <1>6, <1>7 DEF Body

(* Any element can be taken out first. *)
LEMMA SumSplit ==
  ASSUME NEW S, IsFiniteSet(S), NEW f, \A x \in S : f[x] \in Nat, NEW x \in S
  PROVE  Sum(f, S) = f[x] + Sum(f, S \ {x})
<1> DEFINE Splits(T) == \A y \in T : Sum(f, T) = f[y] + Sum(f, T \ {y})
           Bad == {Cardinality(T) : T \in {U \in SUBSET S : ~Splits(U)}}
<1> SUFFICES ASSUME Bad # {} PROVE FALSE
  <2>1. Bad = {} => Splits(S)
    OBVIOUS
  <2> QED
    BY <2>1
<1>1. \A T \in SUBSET S : /\ IsFiniteSet(T) /\ Cardinality(T) \in Nat
                          /\ \A y \in T : f[y] \in Nat
  BY FS_Subset, FS_CardinalityType
<1>2. PICK k \in Bad : \A j \in Bad : k <= j
  <2>1. Bad \in SUBSET Nat
    BY <1>1
  <2> HIDE DEF Bad
  <2> QED
    BY <2>1, Least
<1>3. PICK T \in SUBSET S : ~Splits(T) /\ Cardinality(T) = k
  BY <1>2
<1>4. PICK y \in T : Sum(f, T) # f[y] + Sum(f, T \ {y})
  BY <1>3
<1>5. PICK p \in T : Sum(f, T) = f[p] + Sum(f, T \ {p})
  BY <1>1, <1>4, SumAdds
<1>6. ASSUME NEW z \in T PROVE Splits(T \ {z})
  <2>1. k \in Nat /\ Cardinality(T \ {z}) = k - 1 /\ T \ {z} \in SUBSET S
    BY <1>1, <1>3, OneLess
  <2>2. k - 1 \notin Bad
    BY <1>2, <2>1
  <2> QED
    BY <2>1, <2>2
<1> HIDE DEF Bad
<1>7. y # p
  BY <1>4, <1>5
<1>8. Sum(f, T \ {p}) = f[y] + Sum(f, (T \ {p}) \ {y})
  BY <1>6, <1>7
<1>9. Sum(f, T \ {y}) = f[p] + Sum(f, (T \ {y}) \ {p})
  BY <1>6, <1>7
<1>10. (T \ {p}) \ {y} = (T \ {y}) \ {p}
  OBVIOUS
<1>11. Sum(f, (T \ {p}) \ {y}) \in Nat /\ f[p] \in Nat /\ f[y] \in Nat
  <2>1. (T \ {p}) \ {y} \in SUBSET S
    OBVIOUS
  <2> QED
    BY <1>1, <2>1, SumAdds
<1>12. Sum(f, T \ {y}) = f[p] + Sum(f, (T \ {p}) \ {y})
  BY <1>9, <1>10
<1>13. PICK r \in Nat : r = Sum(f, (T \ {p}) \ {y})
  BY <1>11
<1>14. Sum(f, T \ {p}) = f[y] + r /\ Sum(f, T \ {y}) = f[p] + r
  BY <1>8, <1>12, <1>13
<1>15. f[p] + (f[y] + r) = f[y] + (f[p] + r)
  BY <1>11
<1> QED
  BY <1>4, <1>5, <1>14, <1>15

(* One value changes.                                                      *)
LEMMA SumChange ==
  ASSUME NEW S, IsFiniteSet(S), NEW f, NEW g, \A x \in S : f[x] \in Nat /\ g[x] \in Nat,
         NEW y \in S, \A x \in S : x # y => g[x] = f[x]
  PROVE  Sum(g, S) = Sum(f, S) - f[y] + g[y] /\ Sum(f, S) \in Nat
<1> DEFINE T == S \ {y}
<1>1. IsFiniteSet(T) /\ \A x \in T : f[x] \in Nat /\ g[x] \in Nat /\ g[x] = f[x]
  BY FS_Subset
<1>2. Sum(f, S) = f[y] + Sum(f, T) /\ Sum(g, S) = g[y] + Sum(g, T)
  BY SumSplit
<1> HIDE DEF T
<1>3. Sum(f, T) = Sum(g, T)
  <2>1. PICK it \in [SUBSET T -> Nat] : Adds(f, T, it)
    BY <1>1, AddsExists
  <2>2. \A s \in SUBSET T : Body(f, it, s) = Body(g, it, s)
    <3>1. \A s \in SUBSET T : s # {} => Pick(s) \in T
      BY DEF Pick
    <3> QED
      BY <1>1, <3>1 DEF Body
  <2>3. Adds(g, T, it)
    BY <2>1, <2>2 DEF Adds
  <2> QED
    <3>1. Sum(f, T) = it[T]
      BY <1>1, <2>1, SumAdds
    <3>2. Sum(g, T) = it[T]
      BY <1>1, <2>3, SumAdds
    <3> QED
      BY <3>1, <3>2
<1>4. Sum(f, T) \in Nat /\ f[y] \in Nat /\ g[y] \in Nat
  BY <1>1, SumAdds
<1> QED
  BY <1>2, <1>3, <1>4

(* Nothing adds up to nothing. *)
LEMMA SumZero ==
  ASSUME NEW S, IsFiniteSet(S), NEW f, \A x \in S : f[x] = 0
  PROVE  Sum(f, S) = 0
<1> DEFINE it == [s \in SUBSET S |-> 0]
<1>1. \A s \in SUBSET S : Body(f, it, s) = 0
  <2>1. \A s \in SUBSET S : s # {} => Pick(s) \in s
    BY DEF Pick
  <2> QED
    BY <2>1 DEF Body
<1>2. Adds(f, S, it) /\ it[S] = 0
  BY <1>1 DEF Adds
<1>3. \A x \in S : f[x] \in Nat
  OBVIOUS
<1> HIDE DEF it
<1> QED
  BY <1>2, <1>3, SumAdds

-----------------------------------------------------------------------------
(* The totals of the first round. *)

(* The load of a zone whose answer is under way has not been entered yet.  *)
DueInv(s) ==
    /\ \A k \in 1 .. Len(coming[s]) :
          coming[s][k].zone \in managed[s] /\ load[s][coming[s][k].zone] = 0
    /\ \A j, k \in 1 .. Len(coming[s]) : coming[s][j].zone = coming[s][k].zone => j = k

(* Who has been asked has the sum of the loads that were entered.          *)
SummedInv(s) ==
    coming[s] # <<>> \/ s \in heard => totalLoad[s] = Sum(load[s], managed[s])

(* Nothing is entered for who has not been asked. *)
Blank(s) == \A z \in Zones : load[s][z] = 0

TotalsInv ==
    first => /\ \A s \in Ids : DueInv(s) /\ SummedInv(s)
             /\ ~Serving => \A s \in Ids : Blank(s)
             /\ pc = "ask" => \A k \in 1 .. Len(servers) : k >= at => Blank(servers[k])

(* The answers of a server are for its zones, each once. *)
LEMMA AnswersDistinct ==
  ASSUME TypeOK, NEW s \in Ids
  PROVE  /\ \A k \in 1 .. Len(AnswersOf(s)) : AnswersOf(s)[k].zone \in managed[s]
         /\ \A j, k \in 1 .. Len(AnswersOf(s)) :
               AnswersOf(s)[j].zone = AnswersOf(s)[k].zone => j = k
<1> DEFINE a == Ascending(managed[s])
           D == 1 .. Len(a)
<1>1. managed[s] \in SUBSET Int /\ IsFiniteSet(managed[s])
  BY ManagedSize DEF Zones
<1>2. /\ a \in Seq(managed[s]) /\ Len(a) \in Nat /\ Len(a) = Cardinality(managed[s])
      /\ {a[k] : k \in DOMAIN a} = managed[s]
  BY <1>1, AscendingProperties
<1>3. /\ Len(AnswersOf(s)) = Len(a)
      /\ \A k \in DOMAIN a : AnswersOf(s)[k].zone = a[k]
  BY <1>2, AnswersOfProperties DEF AnswersOf
<1> HIDE DEF a
<1>4. DOMAIN a = D /\ \A k \in D : a[k] \in managed[s]
  BY <1>2
<1>5. a \in Surjection(D, managed[s])
  <2>1. a \in [D -> managed[s]]
    BY <1>2
  <2> QED
    BY <1>2, <1>4, <2>1 DEF Surjection
<1>6. IsFiniteSet(D) /\ Cardinality(D) = Len(a)
  BY <1>2, FirstNumbers
<1>7. a \in Injection(D, managed[s])
  BY <1>2, <1>5, <1>6, FS_Surjection
<1>8. \A j, k \in D : a[j] = a[k] => j = k
  BY <1>7 DEF Injection, IsInjective
<1> QED
  BY <1>3, <1>4, <1>8

(* An answer that is handled in the first round enters a load that was 0.  *)
LEMMA TotalsReceive ==
  ASSUME CInv, HeardInv, RoundInv, TotalsInv, first, NEW s \in Ids, ReceiveLoad(s)
  PROVE  TotalsInv'
<1>0. TypeOK /\ coming[s] \in Seq(Answers) /\ coming[s] # <<>>
  BY DEF CInv, TypeOK, ReceiveLoad
<1>1. /\ Head(coming[s]) \in Answers /\ Head(coming[s]) = coming[s][1]
      /\ Tail(coming[s]) \in Seq(Answers) /\ Len(coming[s]) \in Nat /\ Len(coming[s]) >= 1
      /\ Len(Tail(coming[s])) = Len(coming[s]) - 1
      /\ \A k \in 1 .. Len(Tail(coming[s])) :
            k + 1 \in 1 .. Len(coming[s]) /\ Tail(coming[s])[k] = coming[s][k + 1]
  BY <1>0, HeadTailProperties
<1>2. PICK msg \in Answers : msg = Head(coming[s])
  BY <1>1
<1>3. PICK value \in Loads : Handle(s, msg, value)
  BY <1>2 DEF ReceiveLoad
<1>4. UNCHANGED <<servers, managed, first, pc, at>>
  BY DEF ReceiveLoad, tables
<1>5. /\ coming'[s] = Tail(coming[s]) /\ \A i \in Ids : i # s => coming'[i] = coming[i]
  BY <1>0 DEF ReceiveLoad, TypeOK
<1>6. /\ msg.zone \in managed[s] /\ load[s][msg.zone] = 0 /\ msg.zone \in Zones
      /\ totalLoad[s] = Sum(load[s], managed[s])
      /\ \A k \in 1 .. Len(coming[s]) : k # 1 => coming[s][k].zone # msg.zone
  <2>1. 1 \in 1 .. Len(coming[s]) /\ coming[s][1] = msg
    BY <1>1, <1>2
  <2>2. DueInv(s) /\ SummedInv(s)
    BY DEF TotalsInv
  <2>3. msg.zone \in managed[s] /\ load[s][msg.zone] = 0
    BY <2>1, <2>2 DEF DueInv
  <2>4. totalLoad[s] = Sum(load[s], managed[s])
    BY <1>0, <2>2 DEF SummedInv
  <2>5. \A k \in 1 .. Len(coming[s]) : k # 1 => coming[s][k].zone # msg.zone
    BY <2>1, <2>2 DEF DueInv
  <2>6. msg.zone \in Zones
    BY <1>2 DEF Answers
  <2> QED
    BY <2>3, <2>4, <2>5, <2>6
<1>7. /\ \A i \in Ids : i # s => load'[i] = load[i] /\ totalLoad'[i] = totalLoad[i]
      /\ \A z \in Zones : z # msg.zone => load'[s][z] = load[s][z]
      /\ \/ load'[s][msg.zone] = value /\ totalLoad'[s] = totalLoad[s] + value
         \/ load' = load /\ totalLoad' = totalLoad
  BY <1>0, <1>3, <1>6 DEF Handle, TypeOK
<1>8. \A i \in Ids : i # s => (i \in heard' <=> i \in heard)
  BY <1>3 DEF Handle
<1>9. managed[s] \in SUBSET Zones /\ IsFiniteSet(managed[s])
  BY <1>0, ManagedSize
<1>10. Loads \cup {0} \subseteq Nat
  OBVIOUS
<1>11. \A z \in Zones : load[s][z] \in Nat /\ load'[s][z] \in Nat
  <2>1. load' \in [Ids -> [Zones -> Loads \cup {0}]]
    BY <1>0, <1>3, HandleProperties
  <2>2. load \in [Ids -> [Zones -> Loads \cup {0}]]
    BY <1>0 DEF TypeOK
  <2> QED
    BY <1>10, <2>1, <2>2
<1>12. totalLoad'[s] = Sum(load'[s], managed[s])
  <2>1. CASE load' = load /\ totalLoad' = totalLoad
    BY <1>6, <2>1
  <2>2. CASE load'[s][msg.zone] = value /\ totalLoad'[s] = totalLoad[s] + value
    <3>1. PICK f : f = load[s]
      OBVIOUS
    <3>2. PICK g : g = load'[s]
      OBVIOUS
    <3>3. PICK S : S = managed[s]
      OBVIOUS
    <3>4. PICK z : z = msg.zone
      OBVIOUS
    <3>5. /\ z \in S /\ IsFiniteSet(S)
          /\ \A x \in S : f[x] \in Nat /\ g[x] \in Nat
          /\ \A x \in S : x # z => g[x] = f[x]
      BY <1>6, <1>7, <1>9, <1>11, <3>1, <3>2, <3>3, <3>4
    <3>6. Sum(g, S) = Sum(f, S) - f[z] + g[z] /\ Sum(f, S) \in Nat
      BY <3>5, SumChange
    <3>7. totalLoad[s] = Sum(f, S) /\ f[z] = 0 /\ g[z] = value /\ value \in Nat
      BY <1>6, <1>10, <2>2, <3>1, <3>2, <3>3, <3>4
    <3>8. totalLoad'[s] = Sum(g, S)
      BY <2>2, <3>6, <3>7
    <3> QED
      BY <3>2, <3>3, <3>8
  <2> QED
    BY <1>7, <2>1, <2>2
<1>13. ASSUME NEW i \in Ids PROVE DueInv(i)' /\ SummedInv(i)'
  <2>1. CASE i = s
    <3>1. \A k \in 1 .. Len(coming'[s]) :
             coming'[s][k].zone \in managed[s] /\ load'[s][coming'[s][k].zone] = 0
      <4> SUFFICES ASSUME NEW k \in 1 .. Len(Tail(coming[s]))
                   PROVE  /\ Tail(coming[s])[k].zone \in managed[s]
                          /\ load'[s][Tail(coming[s])[k].zone] = 0
        BY <1>5
      <4>1. k + 1 \in 1 .. Len(coming[s]) /\ k + 1 # 1 /\ Tail(coming[s])[k] = coming[s][k + 1]
        BY <1>1
      <4>2. coming[s][k + 1].zone \in managed[s] /\ load[s][coming[s][k + 1].zone] = 0
            /\ coming[s][k + 1].zone # msg.zone
        BY <1>6, <4>1 DEF TotalsInv, DueInv
      <4> QED
        BY <1>7, <1>9, <4>1, <4>2
    <3>2. \A j, k \in 1 .. Len(coming'[s]) : coming'[s][j].zone = coming'[s][k].zone => j = k
      <4> SUFFICES ASSUME NEW j \in 1 .. Len(Tail(coming[s])), NEW k \in 1 .. Len(Tail(coming[s])),
                          Tail(coming[s])[j].zone = Tail(coming[s])[k].zone
                   PROVE  j = k
        BY <1>5
      <4>1. j + 1 = k + 1
        BY <1>1 DEF TotalsInv, DueInv
      <4> QED
        BY <4>1
    <3> QED
      BY <1>4, <1>12, <2>1, <3>1, <3>2 DEF DueInv, SummedInv
  <2>2. CASE i # s
    BY <1>4, <1>5, <1>7, <1>8, <2>2 DEF TotalsInv, DueInv, SummedInv
  <2> QED
    BY <2>1, <2>2
<1>14. Serving'
  BY <1>0, <1>4 DEF HeardInv, Serving
<1>15. ASSUME pc = "ask", NEW k \in 1 .. Len(servers), k >= at PROVE Blank(servers[k])'
  <2>1. coming[servers[k]] = <<>>
    BY <1>15 DEF RoundInv, UnaskedInv
  <2>2. servers[k] \in Ids /\ servers[k] # s
    BY <1>0, <2>1 DEF TypeOK
  <2>3. Blank(servers[k])
    BY <1>15 DEF TotalsInv
  <2> QED
    BY <1>4, <1>7, <2>2, <2>3 DEF Blank
<1> QED
  BY <1>4, <1>13, <1>14, <1>15 DEF TotalsInv

(* What the loads, the totals and the answers are not part of keeps the    *)
(* totals; answers may be lost.                                            *)
LEMMA TotalsKept ==
  ASSUME TotalsInv, UNCHANGED <<load, totalLoad, managed, heard>>,
         \A s \in Ids : \/ coming'[s] \in {coming[s], <<>>}
                        \/ coming[s] \in Seq(Answers) /\ coming[s] # <<>>
                           /\ coming'[s] = Tail(coming[s]),
         first' => first,
         first' /\ ~Serving' => ~Serving,
         first' /\ pc' = "ask" => pc = "ask" /\ servers' = servers /\ at' \in Int /\ at \in Int
                                  /\ at' >= at
  PROVE  TotalsInv'
<1> SUFFICES ASSUME first' PROVE TotalsInv'
  BY DEF TotalsInv
<1>1. ASSUME NEW s \in Ids PROVE DueInv(s)' /\ SummedInv(s)'
  <2>0. DueInv(s) /\ SummedInv(s)
    BY DEF TotalsInv
  <2>1. CASE coming'[s] = coming[s]
    BY <2>0, <2>1 DEF DueInv, SummedInv
  <2>2. CASE coming'[s] = <<>>
    BY <2>0, <2>2 DEF DueInv, SummedInv
  <2>3. CASE coming[s] \in Seq(Answers) /\ coming[s] # <<>> /\ coming'[s] = Tail(coming[s])
    <3>1. /\ Len(coming[s]) \in Nat /\ Len(Tail(coming[s])) = Len(coming[s]) - 1
          /\ \A k \in 1 .. Len(Tail(coming[s])) :
                k + 1 \in 1 .. Len(coming[s]) /\ Tail(coming[s])[k] = coming[s][k + 1]
      BY <2>3, HeadTailProperties
    <3>2. SummedInv(s)'
      BY <2>0, <2>3 DEF SummedInv
    <3>3. \A k \in 1 .. Len(Tail(coming[s])) :
             Tail(coming[s])[k].zone \in managed[s] /\ load[s][Tail(coming[s])[k].zone] = 0
      BY <2>0, <3>1 DEF DueInv
    <3>4. ASSUME NEW j \in 1 .. Len(Tail(coming[s])), NEW k \in 1 .. Len(Tail(coming[s])),
                 Tail(coming[s])[j].zone = Tail(coming[s])[k].zone
          PROVE  j = k
      <4>1. j + 1 = k + 1
        BY <2>0, <3>1, <3>4 DEF DueInv
      <4> QED
        BY <4>1
    <3> QED
      BY <2>3, <3>2, <3>3, <3>4 DEF DueInv
  <2> QED
    BY <2>1, <2>2, <2>3
<1>2. ~Serving' => \A s \in Ids : Blank(s)'
  BY DEF TotalsInv, Blank
<1>3. pc' = "ask" => \A k \in 1 .. Len(servers') : k >= at' => Blank(servers[k])'
  <2> SUFFICES ASSUME pc' = "ask", NEW k \in 1 .. Len(servers'), k >= at'
               PROVE  Blank(servers[k])'
    OBVIOUS
  <2>1. pc = "ask" /\ k \in 1 .. Len(servers) /\ k >= at
    OBVIOUS
  <2>2. Blank(servers[k])
    BY <2>1 DEF TotalsInv
  <2> QED
    BY <2>1, <2>2 DEF Blank
<1> QED
  BY <1>1, <1>2, <1>3 DEF TotalsInv

(* Before the rounds nothing is entered. *)
LEMMA TotalsBegin ==
  ASSUME CInv, HeardInv, TotalsInv, Connect \/ AssignFront \/ Assign
  PROVE  TotalsInv'
<1>0. servers' \in Seq(Ids)
  <2>1. CASE Connect
    BY <2>1, ConnectStep DEF CInv, TypeOK
  <2> QED
    BY <2>1 DEF AssignFront, Assign, CInv, TypeOK
<1>1. ~Serving /\ UNCHANGED <<coming, heard, load, first>>
  BY DEF Connect, AssignFront, Assign, Serving, GiveZone, NoZoneGiven, StartRounds, figures, watch
<1>2. /\ heard = {} /\ \A s \in Ids : coming[s] = <<>>
      /\ first => \A s \in Ids : Blank(s)
  BY <1>1 DEF HeardInv, TotalsInv
<1> SUFFICES ASSUME first' PROVE TotalsInv'
  BY DEF TotalsInv
<1>3. \A s \in Ids : \A z \in Zones : load[s][z] = 0
  BY <1>1, <1>2 DEF Blank
<1>4. \A s \in Ids : Blank(s)'
  BY <1>1, <1>3 DEF Blank
<1>5. \A s \in Ids : DueInv(s)' /\ SummedInv(s)'
  <2> SUFFICES ASSUME NEW s \in Ids PROVE DueInv(s)' /\ SummedInv(s)'
    OBVIOUS
  <2>1. coming'[s] = <<>> /\ s \notin heard'
    BY <1>1, <1>2
  <2> QED
    BY <2>1 DEF DueInv, SummedInv
<1>6. \A k \in 1 .. Len(servers') : servers'[k] \in Ids
  BY <1>0
<1>7. \A k \in 1 .. Len(servers') : Blank(servers[k])'
  <2> SUFFICES ASSUME NEW k \in 1 .. Len(servers') PROVE Blank(servers[k])'
    OBVIOUS
  <2> QED
    BY <1>1, <1>3, <1>6 DEF Blank
<1> QED
  BY <1>4, <1>5, <1>7 DEF TotalsInv

(* A server is asked in the first round when nothing of it is under way or *)
(* entered: the clearing of its total cannot race with a handler.          *)
LEMMA TotalsAsk ==
  ASSUME CInv, HeardInv, RoundInv, TotalsInv, Ask
  PROVE  TotalsInv'
<1>0. TypeOK /\ pc = "ask" /\ at \in Nat /\ at >= 1 /\ servers \in Seq(Ids)
      /\ coming \in [Ids -> Seq(Answers)]
  BY DEF CInv, TypeOK, AskInv, Ask
<1>1. UNCHANGED <<servers, first, managed>>
  BY DEF Ask, tables
<1> SUFFICES ASSUME first PROVE TotalsInv'
  BY <1>1 DEF TotalsInv
<1>2. CASE UNCHANGED figures
  <2>1. (pc' = "ask" /\ at' = at + 1) \/ pc' = "test"
    BY DEF Ask, Goto
  <2>2. Serving' /\ (pc' = "ask" => at' \in Int /\ at \in Int /\ at' >= at)
    BY <1>0, <2>1 DEF Serving
  <2>3. UNCHANGED <<load, totalLoad, heard>> /\ \A s \in Ids : coming'[s] = coming[s]
    BY <1>2 DEF figures
  <2> QED
    BY <1>0, <1>1, <2>2, <2>3, TotalsKept
<1>3. ASSUME NEW s \in Ids, at <= Len(servers), s = servers[at], Request(s, coming[s]),
             totalLoad' = [totalLoad EXCEPT ![s] = 0], heard' = heard \ {s}, load' = load,
             Goto("ask", at + 1)
      PROVE  TotalsInv'
  <2>1. at \in 1 .. Len(servers) /\ pc' = "ask" /\ at' = at + 1
    BY <1>0, <1>3 DEF Goto
  <2>2. coming[s] = <<>> /\ coming[s] \in Seq(Answers)
    BY <1>0, <1>3, <2>1 DEF RoundInv, UnaskedInv
  <2>3. coming'[s] = AnswersOf(s) /\ \A i \in Ids : i # s => coming'[i] = coming[i]
    BY <1>0, <1>3, <2>2, RequestProperties
  <2>4. Blank(s)
    BY <1>0, <1>3, <2>1 DEF TotalsInv
  <2>5. managed[s] \in SUBSET Zones /\ IsFiniteSet(managed[s])
    BY <1>0, ManagedSize
  <2>6. totalLoad'[s] = 0 /\ \A i \in Ids : i # s => totalLoad'[i] = totalLoad[i]
    BY <1>0, <1>3 DEF TypeOK
  <2>7. ASSUME NEW i \in Ids PROVE DueInv(i)' /\ SummedInv(i)'
    <3>1. CASE i = s
      <4>1. /\ \A k \in 1 .. Len(AnswersOf(s)) : AnswersOf(s)[k].zone \in managed[s]
            /\ \A j, k \in 1 .. Len(AnswersOf(s)) :
                  AnswersOf(s)[j].zone = AnswersOf(s)[k].zone => j = k
        BY <1>0, AnswersDistinct
      <4>2. \A z \in managed[s] : load[s][z] = 0
        BY <2>4, <2>5 DEF Blank
      <4>3. Sum(load[s], managed[s]) = 0
        BY <2>5, <4>2, SumZero
      <4> QED
        <5> HIDE DEF Sum
        <5>1. DueInv(s)'
          <6> DEFINE a == AnswersOf(s)
          <6> PICK b : b = a
            OBVIOUS
          <6> HIDE DEF a
          <6>1. coming'[s] = b /\ managed'[s] = managed[s] /\ load'[s] = load[s]
            BY <1>1, <1>3, <2>3 DEF a
          <6>2. /\ \A k \in 1 .. Len(b) : b[k].zone \in managed[s] /\ load[s][b[k].zone] = 0
                /\ \A j, k \in 1 .. Len(b) : b[j].zone = b[k].zone => j = k
            BY <4>1, <4>2 DEF a
          <6> QED
            BY <6>1, <6>2 DEF DueInv
        <5>2. SummedInv(s)'
          BY <1>1, <1>3, <2>6, <4>3 DEF SummedInv
        <5> QED
          BY <3>1, <5>1, <5>2
    <3>2. CASE i # s
      <4>1. DueInv(i) /\ SummedInv(i)
        BY DEF TotalsInv
      <4>2. coming'[i] = coming[i] /\ totalLoad'[i] = totalLoad[i] /\ load' = load
            /\ (i \in heard' <=> i \in heard) /\ managed' = managed
        BY <1>1, <1>3, <2>3, <2>6, <3>2
      <4> QED
        BY <4>1, <4>2 DEF DueInv, SummedInv
    <3> QED
      BY <3>1, <3>2
  <2>8. ASSUME NEW k \in 1 .. Len(servers), k >= at + 1 PROVE Blank(servers[k])'
    <3>1. Blank(servers[k])
      BY <1>0, <2>8 DEF TotalsInv
    <3> QED
      BY <1>1, <1>3, <3>1 DEF Blank
  <2>9. Serving'
    BY <2>1 DEF Serving
  <2> QED
    BY <1>1, <2>1, <2>7, <2>8, <2>9 DEF TotalsInv
<1>4. at <= Len(servers) => servers[at] \in Ids /\ coming[servers[at]] = <<>>
  <2>1. at <= Len(servers) => at \in 1 .. Len(servers)
    BY <1>0
  <2> QED
    BY <1>0, <2>1 DEF RoundInv, UnaskedInv
<1> QED
  BY <1>2, <1>3, <1>4 DEF Ask

(* Every step keeps the totals of the first round. *)
LEMMA TotalsStep ==
  CInv /\ HeardInv /\ RoundInv /\ TotalsInv /\ [Next]_vars => TotalsInv'
<1> SUFFICES ASSUME CInv, HeardInv, RoundInv, TotalsInv, [Next]_vars PROVE TotalsInv'
  OBVIOUS
<1>0. TypeOK /\ coming \in [Ids -> Seq(Answers)] /\ at \in Nat
  BY DEF CInv, TypeOK
<1>1. CASE Test \/ Alarm \/ Wake \/ Sort \/ OrderMove \/ WriteMove \/ EndBalance \/ Rebalance
  <2>1. UNCHANGED <<load, totalLoad, managed, heard, coming>>
    BY <1>1 DEF Test, Alarm, Wake, Sort, OrderMove, WriteMove, EndBalance, Rebalance, figures, tables
  <2>2. /\ first' => first
        /\ first' => pc' # "ask"
        /\ Serving'
    BY <1>1 DEF Test, Alarm, Wake, Sort, OrderMove, WriteMove, EndBalance, Rebalance, watch, Goto, Serving
  <2> QED
    BY <2>1, <2>2, TotalsKept
<1>2. CASE \/ \E l \in Links : Drop(l)
           \/ \E z \in Zones : NewUser(z)
           \/ DisconnectUser \/ UNCHANGED vars
  <2>1. UNCHANGED <<load, totalLoad, managed, servers, heard, pc, at, first>>
    BY <1>2 DEF Drop, NewUser, DisconnectUser, vars, figures, tables, watch
  <2>2. \A s \in Ids : coming'[s] \in {coming[s], <<>>}
    <3>1. CASE coming' = coming
      BY <3>1
    <3>2. ASSUME NEW l, coming' = [coming EXCEPT ![l] = <<>>]
          PROVE  \A s \in Ids : coming'[s] \in {coming[s], <<>>}
      BY <1>0, <3>2
    <3> QED
      BY <1>2, <3>1, <3>2 DEF Drop, NewUser, DisconnectUser, vars, figures
  <2>3. Serving' = Serving /\ at \in Int /\ at >= at
    BY <1>0, <2>1 DEF Serving
  <2> QED
    BY <2>1, <2>2, <2>3, TotalsKept
<1>3. ASSUME NEW s \in Ids, MissServer(s) PROVE TotalsInv'
  <2>1. /\ UNCHANGED <<load, totalLoad, managed, servers, heard, pc, at, first>>
        /\ pc \in {"sort", "balance", "moving"} /\ coming[s] # <<>>
        /\ coming' = [coming EXCEPT ![s] = Tail(@)]
    BY <1>3 DEF MissServer, tables, watch
  <2>2. coming'[s] = Tail(coming[s]) /\ \A i \in Ids : i # s => coming'[i] = coming[i]
    BY <1>0, <2>1
  <2>3. Serving' = Serving /\ coming[s] \in Seq(Answers)
    BY <1>0, <2>1 DEF Serving
  <2> QED
    BY <2>1, <2>2, <2>3, TotalsKept
<1>4. ASSUME NEW s \in Ids, ReceiveLoad(s) PROVE TotalsInv'
  <2>1. CASE first
    BY <1>4, <2>1, TotalsReceive
  <2>2. CASE ~first
    BY <1>4, <2>2 DEF ReceiveLoad, TotalsInv
  <2> QED
    BY <2>1, <2>2
<1> QED
  BY <1>1, <1>2, <1>3, <1>4, TotalsBegin, TotalsAsk, Steps DEF Rest

(* In the first round the total of a server that has given its last answer *)
(* is the sum of the loads of its zones: no answer is entered twice, and   *)
(* the zero main writes without recievedMutex is not lost under the sum of *)
(* a handler, for any numbers of servers and zones and whatever loads.     *)
THEOREM FirstTotalsAlwaysSums == Spec => []FirstTotalsAreSums
<1>1. Init => TotalsInv
  BY DEF Init, TotalsInv, DueInv, SummedInv, Blank, Serving
<1>2. Init => RoundInv
  BY DEF Init, RoundInv, KnownInv, FreshInv, UnaskedInv, ClearedInv
<1>3. CInv /\ TotalsInv => FirstTotalsAreSums
  BY DEF CInv, TypeOK, TotalsInv, SummedInv, Sum, FirstTotalsAreSums
<1> QED
  BY <1>1, <1>2, <1>3, InitCInv, CInvStep, InitHeard, HeardStep, RoundStep, TotalsStep, PTL
     DEF Spec

=============================================================================
