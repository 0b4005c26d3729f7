---------------------------- MODULE SelectProofs -----------------------------
(***************************************************************************)
(* Proofs about the selection, for reports of any length, any ids, feed    *)
(* and flags: the evidence a parser picks, which findings are left and in  *)
(* what order, and what the SARIF file tells of them.                      *)
(***************************************************************************)
EXTENDS Select, FiniteSetTheorems, TLAPS

Picks == INSTANCE ListFacts WITH Op <- Offer

-----------------------------------------------------------------------------
(* Lists.                                                                  *)

(* To list a finite set in an order of it: the order as a set of pairs.    *)
StrictTotalOrder(R, set) ==
  /\ \A i \in set : <<i, i>> \notin R
  /\ \A i, j \in set : i # j => <<i, j>> \in R \/ <<j, i>> \in R
  /\ \A i, j, k \in set : <<i, j>> \in R /\ <<j, k>> \in R => <<i, k>> \in R

Lists(t, R, set) ==
  /\ t \in [1..Cardinality(set) -> set]
  /\ \A m, n \in DOMAIN t : m < n => <<t[m], t[n]>> \in R

(* Each member has its place: one more than there are members before it.   *)
THEOREM OrderIsListed ==
  ASSUME NEW set, IsFiniteSet(set), NEW R, StrictTotalOrder(R, set)
  PROVE  \E t : Lists(t, R, set)
<1> DEFINE card == Cardinality(set)
           ahead(i) == {j \in set : <<j, i>> \in R}
           place == [i \in set |-> Cardinality(ahead(i)) + 1]
<1>1. card \in Nat
  BY FS_CardinalityType
<1>2. ASSUME NEW i \in set
      PROVE  /\ IsFiniteSet(ahead(i)) /\ Cardinality(ahead(i)) \in Nat
             /\ Cardinality(ahead(i)) + 1 <= card
  <2>1. ahead(i) \in SUBSET set /\ i \notin ahead(i)
    BY DEF StrictTotalOrder
  <2> HIDE DEF ahead
  <2>2. IsFiniteSet(ahead(i)) /\ Cardinality(ahead(i)) <= card
    BY <2>1, FS_Subset
  <2>3. card # Cardinality(ahead(i))
    BY <2>1, FS_Subset
  <2>4. Cardinality(ahead(i)) \in Nat
    BY <2>2, FS_CardinalityType
  <2> QED
    BY <1>1, <2>2, <2>3, <2>4
<1>3. ASSUME NEW i \in set, NEW j \in set, <<i, j>> \in R
      PROVE  place[i] < place[j]
  <2>1. ahead(i) \in SUBSET ahead(j) /\ i \in ahead(j) /\ i \notin ahead(i)
    BY <1>3 DEF StrictTotalOrder
  <2>2. place[i] = Cardinality(ahead(i)) + 1 /\ place[j] = Cardinality(ahead(j)) + 1
    OBVIOUS
  <2> HIDE DEF ahead, place
  <2>3. Cardinality(ahead(i)) <= Cardinality(ahead(j))
    BY <1>2, <2>1, FS_Subset
  <2>4. Cardinality(ahead(j)) # Cardinality(ahead(i))
    BY <1>2, <2>1, FS_Subset
  <2> QED
    BY <1>2, <2>2, <2>3, <2>4
<1>4. place \in [set -> 1..card]
  <2>1. \A i \in set : Cardinality(ahead(i)) + 1 \in 1..card
    <3> HIDE DEF ahead
    <3> QED
      BY <1>1, <1>2
  <2> QED
    BY <2>1
<1> HIDE DEF place
<1>5. \A i \in set : place[i] \in 1..card
  BY <1>4
<1>6. \A i, j \in set : place[i] = place[j] => i = j
  <2> SUFFICES ASSUME NEW i \in set, NEW j \in set, place[i] = place[j], i # j
               PROVE  FALSE
    OBVIOUS
  <2>1. CASE <<i, j>> \in R
    BY <1>1, <1>3, <1>5, <2>1
  <2>2. CASE <<j, i>> \in R
    BY <1>1, <1>3, <1>5, <2>2
  <2> QED
    BY <2>1, <2>2 DEF StrictTotalOrder
<1>7. place \in Injection(set, 1..card)
  BY <1>4, <1>6 DEF Injection, IsInjective
<1>8. IsFiniteSet(1..card) /\ Cardinality(1..card) = card
  <2>1. Cardinality(1..card) = IF 1 > card THEN 0 ELSE card - 1 + 1
    BY <1>1, FS_Interval
  <2> HIDE DEF card
  <2> QED
    BY <1>1, <2>1, FS_Interval
<1>9. place \in Surjection(set, 1..card)
  BY <1>7, <1>8, FS_Injection
<1>10. \A n \in 1..card : \E i \in set : place[i] = n
  BY <1>9 DEF Surjection
<1> DEFINE t == [n \in 1..card |-> CHOOSE i \in set : place[i] = n]
<1>11. \A n \in 1..card : t[n] \in set /\ place[t[n]] = n
  BY <1>10
<1>12. ASSUME NEW m \in 1..card, NEW n \in 1..card, m < n
       PROVE  <<t[m], t[n]>> \in R
  <2> HIDE DEF t
  <2>1. t[m] \in set /\ t[n] \in set /\ place[t[m]] = m /\ place[t[n]] = n
    BY <1>11
  <2>2. t[m] # t[n] /\ ~(n < m)
    BY <1>1, <1>12, <2>1
  <2>3. <<t[n], t[m]>> \notin R
    BY <1>3, <2>1, <2>2
  <2> QED
    BY <2>1, <2>2, <2>3 DEF StrictTotalOrder
<1>13. t \in [1..card -> set]
  <2>1. \A n \in 1..card : t[n] \in set
    BY <1>11
  <2> QED
    BY <2>1
<1>14. Lists(t, R, set)
  <2> HIDE DEF t
  <2> QED
    BY <1>12, <1>13 DEF Lists
<1> QED
  BY <1>14

(* What is listed so is the whole set, each member once.                   *)
THEOREM ListedIsWhole ==
  ASSUME NEW set, IsFiniteSet(set), NEW R, StrictTotalOrder(R, set),
         NEW t, Lists(t, R, set)
  PROVE  /\ Cardinality(set) \in Nat /\ DOMAIN t = 1..Cardinality(set)
         /\ \A n \in DOMAIN t : t[n] \in set
         /\ \A m, n \in DOMAIN t : t[m] = t[n] => m = n
         /\ \A i \in set : \E n \in DOMAIN t : t[n] = i
<1> DEFINE card == Cardinality(set)
<1>1. card \in Nat
  BY FS_CardinalityType
<1>2. t \in [1..card -> set]
  BY DEF Lists
<1>3. \A m, n \in 1..card : t[m] = t[n] => m = n
  <2> SUFFICES ASSUME NEW m \in 1..card, NEW n \in 1..card, t[m] = t[n], m # n
               PROVE  FALSE
    OBVIOUS
  <2>1. <<t[m], t[n]>> \in R \/ <<t[n], t[m]>> \in R
    BY <1>1, <1>2 DEF Lists
  <2> QED
    BY <1>2, <2>1 DEF StrictTotalOrder
<1>4. t \in Injection(1..card, set)
  BY <1>2, <1>3 DEF Injection, IsInjective
<1>5. Cardinality(1..card) = card
  <2>1. Cardinality(1..card) = IF 1 > card THEN 0 ELSE card - 1 + 1
    BY <1>1, FS_Interval
  <2> HIDE DEF card
  <2> QED
    BY <1>1, <2>1
<1>6. t \in Surjection(1..card, set)
  BY <1>4, <1>5, FS_Injection
<1> QED
  BY <1>1, <1>2, <1>3, <1>6 DEF Surjection

(* The places of a list that are kept, in the order they came.             *)
Places(set, t) ==
  /\ DOMAIN t = 1..Cardinality(set) /\ Cardinality(set) \in Nat
  /\ \A n \in DOMAIN t : t[n] \in set
  /\ \A m, n \in DOMAIN t : t[m] = t[n] => m = n
  /\ \A i \in set : \E n \in DOMAIN t : t[n] = i

LEMMA ListedPlaces ==
  ASSUME NEW n \in Nat, NEW set \in SUBSET (1..n)
  PROVE  LET t == Listed(set, <)
         IN  /\ Places(set, t)
             /\ \A k, m \in DOMAIN t : k < m => t[k] < t[m]
<1> DEFINE t == Listed(set, <)
           R == {p \in set \X set : p[1] < p[2]}
<1>1. IsFiniteSet(set)
  <2>1. IsFiniteSet(1..n)
    BY FS_Interval
  <2> QED
    BY <2>1, FS_Subset
<1>2. StrictTotalOrder(R, set)
  BY DEF StrictTotalOrder
<1>3. PICK s : Lists(s, R, set)
  BY <1>1, <1>2, OrderIsListed
<1>4. /\ s \in [1..Cardinality(set) -> set]
      /\ \A k, m \in DOMAIN s : k < m => s[k] < s[m]
  BY <1>3 DEF Lists
<1>5. /\ t \in [1..Cardinality(set) -> set]
      /\ \A k, m \in DOMAIN t : k < m => t[k] < t[m]
  BY <1>4 DEF Listed
<1> HIDE DEF t
<1>6. Lists(t, R, set)
  BY <1>5 DEF Lists
<1>7. Places(set, t)
  BY <1>1, <1>2, <1>6, ListedIsWhole DEF Places
<1> QED
  BY <1>5, <1>7 DEF t

(* r is what is picked from s at such places.                              *)
Picked(r, S, s, set, t) ==
  /\ r \in Seq(S)
  /\ \A x : x \in Range(r) <=> \E i \in set : x = s[i]
  /\ DOMAIN r = DOMAIN t
  /\ \A n \in DOMAIN t : r[n] = s[t[n]]

LEMMA PickedList ==
  ASSUME NEW S, NEW s \in Seq(S), NEW set \in SUBSET DOMAIN s,
         NEW t, Places(set, t)
  PROVE  Picked(Pick(s, t), S, s, set, t)
<1>1. \A n \in DOMAIN t : s[t[n]] \in S
  BY DEF Places
<1>2. Pick(s, t) \in [1..Cardinality(set) -> S]
  BY <1>1 DEF Pick, Places
<1>3. Pick(s, t) \in Seq(S)
  BY <1>2 DEF Places
<1>4. DOMAIN Pick(s, t) = DOMAIN t /\ \A n \in DOMAIN t : Pick(s, t)[n] = s[t[n]]
  BY DEF Pick
<1>5. \A x : x \in Range(Pick(s, t)) <=> \E i \in set : x = s[i]
  BY <1>4 DEF Places, Range
<1> QED
  BY <1>3, <1>4, <1>5 DEF Picked

LEMMA KeptList ==
  ASSUME NEW S, NEW s \in Seq(S), NEW set \in SUBSET DOMAIN s
  PROVE  \E t : /\ Places(set, t)
                /\ Picked(Pick(s, Listed(set, <)), S, s, set, t)
                /\ \A k, m \in DOMAIN t : k < m => t[k] < t[m]
<1>1. Len(s) \in Nat /\ DOMAIN s = 1..Len(s)
  OBVIOUS
<1>2. \E t : /\ t = Listed(set, <) /\ Places(set, t)
             /\ \A k, m \in DOMAIN t : k < m => t[k] < t[m]
  BY <1>1, ListedPlaces
<1>3. PICK t : /\ t = Listed(set, <) /\ Places(set, t)
               /\ \A k, m \in DOMAIN t : k < m => t[k] < t[m]
  BY <1>2
<1>4. Picked(Pick(s, t), S, s, set, t)
  BY <1>3, PickedList
<1> QED
  BY <1>3, <1>4

-----------------------------------------------------------------------------
(* The ranking.                                                            *)

LEMMA BetterOrders ==
  ASSUME NEW f \in Finding, NEW g \in Finding, NEW h \in Finding
  PROVE  /\ Better(f, g) => ~Better(g, f)
         /\ Better(f, g) /\ ~Better(h, g) => Better(f, h)
         /\ ~Better(g, f) /\ Better(g, h) => Better(f, h)
         /\ ~Better(g, f) /\ ~Better(h, g) => ~Better(h, f)
<1>1. \A a \in Finding : /\ a.severity \in Int /\ a.score \in Int /\ a.id \in Int
                         /\ a.pkg[1] \in Int
  BY DEF Finding, Severities, Scores
<1> QED
  BY <1>1 DEF Better

LEMMA RankedList ==
  ASSUME NEW s \in Seq(Finding)
  PROVE  LET r == Ranked(s)
         IN  /\ \E t : Places(DOMAIN s, t) /\ Picked(r, Finding, s, DOMAIN s, t)
             /\ \A m, n \in DOMAIN r : m < n => ~Better(r[n], r[m])
<1> DEFINE before(i, j) == Better(s[i], s[j]) \/ (~Better(s[j], s[i]) /\ i < j)
           set == DOMAIN s
           R == {p \in set \X set : before(p[1], p[2])}
           t == Listed(set, before)
<1>1. /\ IsFiniteSet(set) /\ \A i \in set : s[i] \in Finding /\ i \in Nat
  BY FS_Interval
<1>2. StrictTotalOrder(R, set)
  <2>1. \A i, j \in set : <<i, j>> \in R <=> before(i, j)
    OBVIOUS
  <2>2. \A i \in set : ~before(i, i)
    BY <1>1, BetterOrders
  <2>3. \A i, j \in set : i # j => before(i, j) \/ before(j, i)
    BY <1>1, BetterOrders
  <2>4. ASSUME NEW i \in set, NEW j \in set, NEW k \in set, before(i, j), before(j, k)
        PROVE  before(i, k)
    <3>1. /\ Better(s[i], s[j]) => ~Better(s[j], s[i])
          /\ Better(s[j], s[k]) => ~Better(s[k], s[j])
      BY <1>1, BetterOrders
    <3>2. ~Better(s[j], s[i]) /\ ~Better(s[k], s[j])
      BY <2>4, <3>1
    <3>3. ~Better(s[k], s[i])
      BY <1>1, <3>2, BetterOrders
    <3>4. CASE i < k
      BY <3>3, <3>4
    <3>5. CASE ~(i < k)
      <4>1. Better(s[i], s[j]) \/ Better(s[j], s[k])
        BY <1>1, <2>4, <3>5
      <4>2. Better(s[i], s[k])
        BY <1>1, <3>2, <4>1, BetterOrders
      <4> QED
        BY <4>2
    <3> QED
      BY <3>4, <3>5
  <2> HIDE DEF R, before
  <2> QED
    BY <2>1, <2>2, <2>3, <2>4 DEF StrictTotalOrder
<1>3. PICK u : Lists(u, R, set)
  BY <1>1, <1>2, OrderIsListed
<1>4. /\ u \in [1..Cardinality(set) -> set]
      /\ \A k, m \in DOMAIN u : k < m => before(u[k], u[m])
  BY <1>3 DEF Lists
<1>5. /\ t \in [1..Cardinality(set) -> set]
      /\ \A k, m \in DOMAIN t : k < m => before(t[k], t[m])
  BY <1>4 DEF Listed
<1>6. \E v : Lists(v, R, set) /\ Ranked(s) = Pick(s, v)
  <2>1. Lists(t, R, set)
    <3> HIDE DEF t
    <3> QED
      BY <1>5 DEF Lists
  <2>2. Ranked(s) = Pick(s, t)
    BY DEF Ranked
  <2> QED
    BY <2>1, <2>2
<1> HIDE DEF t
<1>7. PICK v : Lists(v, R, set) /\ Ranked(s) = Pick(s, v)
  BY <1>6
<1>8. Places(set, v) /\ set \in SUBSET DOMAIN s
  BY <1>1, <1>2, <1>7, ListedIsWhole DEF Places
<1>9. Picked(Pick(s, v), Finding, s, set, v)
  BY <1>8, PickedList
<1>10. ASSUME NEW m \in DOMAIN v, NEW n \in DOMAIN v, m < n
       PROVE  ~Better(s[v[n]], s[v[m]])
  <2>1. <<v[m], v[n]>> \in R
    BY <1>7, <1>10 DEF Lists
  <2>2. before(v[m], v[n]) /\ v[m] \in set /\ v[n] \in set
    BY <2>1
  <2> QED
    BY <1>1, <2>2, BetterOrders
<1> QED
  BY <1>7, <1>8, <1>9, <1>10 DEF Picked

-----------------------------------------------------------------------------
(* The evidence a parser picks.                                            *)

PickType == [score : Scores, vector : Vectors]

(* p is the best of the first k entries.                                   *)
BestOf(p, cs, k) ==
  /\ p \in PickType
  /\ \/ p = NoPick
     \/ \E i \in 1..k : p.vector = cs[i].vector /\ p.score = Worth(cs[i]) /\ p.score > 0
  /\ \A i \in 1..k : Worth(cs[i]) <= p.score

LEMMA ScoresAreNumbers == Scores \subseteq Nat /\ 0 \in Scores
  BY SelectAssumption DEF Scores, SelectAssumption

LEMMA OfferKeepsBest ==
  ASSUME NEW cs \in Seq(Cvss), NEW k \in Nat, k + 1 \in 1..Len(cs),
         NEW p, BestOf(p, cs, k)
  PROVE  BestOf(Offer(p, cs[k + 1]), cs, k + 1)
<1> DEFINE c == cs[k + 1]
           q == Offer(p, c)
<1>1. /\ c \in Cvss /\ p \in PickType
      /\ \A i \in 1..k : Worth(cs[i]) \in Nat /\ Worth(cs[i]) <= p.score
  <2>1. \A i \in 1..Len(cs) : cs[i] \in Cvss
    OBVIOUS
  <2>2. \A i \in 1..k : i \in 1..Len(cs)
    OBVIOUS
  <2>3. \A d \in Cvss : Worth(d) \in Nat
    BY ScoresAreNumbers DEF Cvss, Worth
  <2> QED
    BY <2>1, <2>2, <2>3 DEF BestOf
<1>2. /\ Worth(c) \in Scores /\ c.vector \in Vectors /\ Worth(c) \in Nat
      /\ p.score \in Nat /\ p.score >= 0
  <2>1. \A d \in Cvss : Worth(d) \in Scores /\ d.vector \in Vectors
    BY DEF Cvss, Worth
  <2>2. p.score \in Scores
    BY <1>1 DEF PickType
  <2> HIDE DEF c
  <2>3. Worth(c) \in Scores /\ c.vector \in Vectors
    BY <1>1, <2>1
  <2>4. Worth(c) \in Nat /\ p.score \in Nat
    BY <2>2, <2>3, ScoresAreNumbers
  <2>5. p.score >= 0
    BY <2>4
  <2> QED
    BY <2>3, <2>4, <2>5
<1>3. k + 1 \in 1..(k + 1) /\ \A i \in 1..(k + 1) : i \in 1..k \/ i = k + 1
  OBVIOUS
<1>4. CASE Worth(c) > p.score
  <2>1. q = [score |-> Worth(c), vector |-> c.vector]
    BY <1>4 DEF Offer
  <2>2. q \in PickType /\ q.vector = c.vector /\ q.score = Worth(c) /\ q.score > 0
    BY <1>2, <1>4, <2>1 DEF PickType
  <2>3. \A i \in 1..(k + 1) : Worth(cs[i]) <= q.score
    BY <1>1, <1>2, <1>3, <1>4, <2>2
  <2> QED
    BY <1>3, <2>2, <2>3 DEF BestOf
<1>5. CASE ~(Worth(c) > p.score)
  <2>1. q = p
    BY <1>5 DEF Offer
  <2>2. \A i \in 1..(k + 1) : Worth(cs[i]) <= p.score
    BY <1>1, <1>2, <1>3, <1>5
  <2>3. \A i \in 1..k : i \in 1..(k + 1)
    OBVIOUS
  <2> QED
    BY <2>1, <2>2, <2>3 DEF BestOf
<1> QED
  BY <1>4, <1>5

(* cvssPick: a pick is a score with its own vector, and no entry is worth  *)
(* more, however many are offered.                                         *)
LEMMA BestIsPicked ==
  ASSUME NEW cs \in Seq(Cvss)
  PROVE  BestOf(FoldLeft(Offer, NoPick, cs), cs, Len(cs))
<1>1. PICK w : /\ Picks!Walk(w, NoPick, cs)
               /\ w[Len(cs)] = Picks!FoldLeft(Offer, NoPick, cs)
  BY Picks!FoldWalk
<1>2. Picks!FoldLeft(Offer, NoPick, cs) = FoldLeft(Offer, NoPick, cs)
  BY DEF FoldLeft, MapThenFoldSet, Max, Picks!FoldLeft, Picks!MapThenFoldSet,
         Picks!Max
<1>3. w[0] = NoPick /\ \A k \in 1..Len(cs) : w[k] = Offer(w[k - 1], cs[k])
  BY <1>1 DEF Picks!Walk
<1> DEFINE T == {k \in Nat : k \in 0..Len(cs) => BestOf(w[k], cs, k)}
<1>4. 0 \in T
  <2>1. NoPick \in PickType
    BY ScoresAreNumbers DEF NoPick, PickType, Vectors
  <2> QED
    BY <1>3, <2>1 DEF BestOf
<1>5. ASSUME NEW k \in Nat, k \in T PROVE k + 1 \in T
  <2> SUFFICES ASSUME k + 1 \in 0..Len(cs) PROVE BestOf(w[k + 1], cs, k + 1)
    OBVIOUS
  <2>1. k + 1 \in 1..Len(cs) /\ k \in 0..Len(cs) /\ (k + 1) - 1 = k
    OBVIOUS
  <2>2. BestOf(w[k], cs, k) /\ w[k + 1] = Offer(w[k], cs[k + 1])
    BY <1>3, <1>5, <2>1
  <2> QED
    BY <2>1, <2>2, OfferKeepsBest
<1> HIDE DEF T
<1>6. Len(cs) \in T
  BY <1>4, <1>5, Picks!SetInduction
<1> QED
  BY <1>1, <1>2, <1>6 DEF T

(* A finding as the parsers make it: typed, no id twice, and under a CVE   *)
(* id if the entry has one.                                                *)
WellFormed(f) ==
  /\ f \in Finding
  /\ f.id \notin f.aliases /\ 0 \notin f.aliases
  /\ f.id \in Cves \/ f.aliases \cap Cves = {}

(* canonicalizeID: a CVE id if there is one.                               *)
LEMMA CanonicalFacts ==
  ASSUME NEW e, e.id \in Nat, e.aliases \in Seq(Nat)
  PROVE  /\ CanonicalId(e) \in Nat
         /\ CanonicalId(e) \in Cves \/ ({e.id} \cup Range(e.aliases)) \cap Cves = {}
<1> DEFINE set == {i \in DOMAIN e.aliases : e.aliases[i] \in Cves}
           cves == Pick(e.aliases, Listed(set, <))
<1>1. CanonicalId(e) = IF e.id \in Cves \/ cves = <<>> THEN e.id ELSE cves[1]
  BY DEF CanonicalId, Kept
<1>2. set \in SUBSET DOMAIN e.aliases
  OBVIOUS
<1>3. PICK t : Places(set, t) /\ Picked(cves, Nat, e.aliases, set, t)
  <2> HIDE DEF set
  <2> QED
    BY <1>2, KeptList
<1>4. cves \in Seq(Nat) /\ \A x : x \in Range(cves) <=> \E i \in set : x = e.aliases[i]
  BY <1>3 DEF Picked
<1> HIDE DEF cves
<1>5. CASE e.id \in Cves
  BY <1>1, <1>5
<1>6. CASE e.id \notin Cves /\ cves = <<>>
  <2>1. Range(cves) = {}
    BY <1>6 DEF Range
  <2>2. \A i \in DOMAIN e.aliases : e.aliases[i] \notin Cves
    BY <1>4, <2>1
  <2>3. Range(e.aliases) \cap Cves = {}
    BY <2>2 DEF Range
  <2> QED
    BY <1>1, <1>6, <2>3
<1>7. CASE e.id \notin Cves /\ cves # <<>>
  <2>1. 1 \in DOMAIN cves /\ cves[1] \in Nat
    BY <1>4, <1>7
  <2>2. cves[1] \in Range(cves)
    BY <2>1 DEF Range
  <2>3. cves[1] \in Cves
    BY <1>4, <2>2
  <2> QED
    BY <1>1, <1>7, <2>1, <2>3
<1> QED
  BY <1>5, <1>6, <1>7

LEMMA FinishFacts ==
  ASSUME NEW e, e.id \in Nat, e.aliases \in Seq(Nat), e.pkg \in Nat \X Nat,
         NEW v \in Severities, NEW p \in PickType
  PROVE  LET f == Finish(e, v, p)
         IN  /\ WellFormed(f)
             /\ f.score > 0 => f.severity # 0
             /\ f.score = p.score /\ f.vector = p.vector
<1> DEFINE f == Finish(e, v, p)
<1>1. /\ f.id = CanonicalId(e) /\ f.aliases = AliasesOf(e) /\ f.pkg = e.pkg
      /\ f.severity = IF v = 0 THEN ScoreToSeverity(p.score) ELSE v
      /\ f.score = p.score /\ f.vector = p.vector
      /\ f = [id |-> f.id, aliases |-> f.aliases, pkg |-> f.pkg,
              severity |-> f.severity, score |-> f.score, vector |-> f.vector]
  BY DEF Finish
<1>2. p.score \in Scores /\ p.vector \in Vectors /\ p.score \in Nat
  BY ScoresAreNumbers DEF PickType
<1>3. /\ ScoreToSeverity(p.score) \in Severities
      /\ p.score > 0 => ScoreToSeverity(p.score) # 0
  BY <1>2 DEF ScoreToSeverity, Severities
<1>4. f.aliases \in SUBSET Nat /\ 0 \notin f.aliases /\ f.id \notin f.aliases
  <2>1. Range(e.aliases) \in SUBSET Nat
    BY DEF Range
  <2> QED
    BY <1>1, <2>1 DEF AliasesOf
<1>5. f.id \in Nat /\ (f.id \in Cves \/ f.aliases \cap Cves = {})
  BY <1>1, CanonicalFacts DEF AliasesOf
<1>6. f.severity \in Severities /\ (f.score > 0 => f.severity # 0)
  BY <1>1, <1>3
<1> HIDE DEF f
<1>7. f \in Finding
  BY <1>1, <1>2, <1>4, <1>5, <1>6 DEF Finding
<1> QED
  BY <1>1, <1>4, <1>5, <1>6, <1>7 DEF WellFormed, f

(* What EvidencePaired asks of a finding made of an entry.                 *)
PairedIn(format, e, f) ==
  /\ f.score > 0 => f.severity # 0
  /\ f.vector # "none" =>
       \E c \in Range(e.cvss) : c.vector = f.vector /\ f.score \in {c.score, c.base}
  /\ format = "grype" => \A c \in Range(e.cvss) : Worth(c) <= f.score

LEMMA EntryParts ==
  ASSUME NEW e \in Entry
  PROVE  /\ e.id \in Nat /\ e.aliases \in Seq(Nat) /\ e.pkg \in Nat \X Nat
         /\ e.severity \in Severities /\ e.cvss \in Seq(Cvss) /\ e.group \in Scores
         /\ \A i \in DOMAIN e.cvss : e.cvss[i] \in Cvss
  BY DEF Entry

LEMMA GrypePaired ==
  ASSUME NEW e \in Entry, NEW f \in Grype(e)
  PROVE  WellFormed(f) /\ PairedIn("grype", e, f)
<1> DEFINE p == FoldLeft(Offer, NoPick, e.cvss)
<1>1. BestOf(p, e.cvss, Len(e.cvss))
  BY EntryParts, BestIsPicked
<1>2. f = Finish(e, e.severity, p)
  BY DEF Grype
<1> HIDE DEF p
<1>3. /\ WellFormed(f) /\ f.score = p.score /\ f.vector = p.vector
      /\ f.score > 0 => f.severity # 0
  BY <1>1, <1>2, EntryParts, FinishFacts DEF BestOf
<1>4. /\ \A c \in Range(e.cvss) : Worth(c) <= f.score
      /\ f.vector # "none" =>
           \E c \in Range(e.cvss) : c.vector = f.vector /\ f.score \in {c.score, c.base}
  BY <1>1, <1>3, EntryParts DEF BestOf, Range, Worth, NoPick
<1> QED
  BY <1>3, <1>4 DEF PairedIn

LEMMA TrivyPaired ==
  ASSUME NEW e \in Entry, NEW f \in Trivy(e)
  PROVE  WellFormed(f) /\ PairedIn("trivy", e, f)
<1> DEFINE scored == {c \in Range(e.cvss) : c.score > 0}
           best   == {c \in scored : \A d \in scored : d.score <= c.score}
           nvd    == e.cvss # <<>> /\ e.cvss[1].score > 0
           from   == IF nvd THEN {e.cvss[1]} ELSE best
           bare   == [e EXCEPT !.aliases = <<>>]
<1>1. \/ f = Finish(bare, e.severity, NoPick)
      \/ \E c \in from : f = Finish(bare, e.severity, [score |-> c.score, vector |-> c.vector])
  BY DEF Trivy
<1>2. from \subseteq Range(e.cvss)
  <2>1. nvd => e.cvss[1] \in Range(e.cvss)
    BY EntryParts DEF Range
  <2> QED
    BY <2>1
<1>3. bare.id \in Nat /\ bare.aliases \in Seq(Nat) /\ bare.pkg \in Nat \X Nat
  BY DEF Entry
<1>4. \A c \in Range(e.cvss) : c \in Cvss
  BY EntryParts DEF Range
<1> HIDE DEF from, bare
<1>5. CASE f = Finish(bare, e.severity, NoPick)
  <2>1. NoPick \in PickType
    BY ScoresAreNumbers DEF NoPick, PickType, Vectors
  <2>2. WellFormed(f) /\ f.vector = "none" /\ (f.score > 0 => f.severity # 0)
    BY <1>3, <1>5, <2>1, EntryParts, FinishFacts DEF NoPick
  <2> QED
    BY <2>2 DEF PairedIn
<1>6. ASSUME NEW c \in from,
             f = Finish(bare, e.severity, [score |-> c.score, vector |-> c.vector])
      PROVE  WellFormed(f) /\ PairedIn("trivy", e, f)
  <2>1. [score |-> c.score, vector |-> c.vector] \in PickType
    BY <1>2, <1>4 DEF PickType, Cvss
  <2>2. /\ WellFormed(f) /\ f.score = c.score /\ f.vector = c.vector
        /\ f.score > 0 => f.severity # 0
    BY <1>3, <1>6, <2>1, EntryParts, FinishFacts
  <2> QED
    BY <1>2, <2>2 DEF PairedIn
<1> QED
  BY <1>1, <1>5, <1>6

LEMMA OsvPaired ==
  ASSUME NEW e \in Entry, NEW f \in Osv(e)
  PROVE  WellFormed(f) /\ PairedIn("osv", e, f)
<1> DEFINE vectors == [i \in DOMAIN e.cvss |-> [e.cvss[i] EXCEPT !.score = 0]]
           p == FoldLeft(Offer, NoPick, vectors)
           q == IF p.score = 0 THEN [p EXCEPT !.score = e.group] ELSE p
<1>1. /\ vectors \in Seq(Cvss) /\ Len(vectors) = Len(e.cvss)
      /\ \A i \in 1..Len(e.cvss) : /\ vectors[i].vector = e.cvss[i].vector
                                   /\ vectors[i].score = 0
                                   /\ vectors[i].base = e.cvss[i].base
  <2>1. e.cvss \in Seq(Cvss) /\ DOMAIN e.cvss = 1..Len(e.cvss) /\ Len(e.cvss) \in Nat
    BY EntryParts
  <2>2. \A i \in DOMAIN e.cvss : [e.cvss[i] EXCEPT !.score = 0] \in Cvss
    BY EntryParts, ScoresAreNumbers DEF Cvss
  <2>3. vectors \in [1..Len(e.cvss) -> Cvss]
    BY <2>1, <2>2
  <2>4. vectors \in Seq(Cvss) /\ Len(vectors) = Len(e.cvss)
    BY <2>1, <2>3
  <2>5. \A i \in 1..Len(e.cvss) : /\ vectors[i].vector = e.cvss[i].vector
                                  /\ vectors[i].score = 0
                                  /\ vectors[i].base = e.cvss[i].base
    BY <2>1, EntryParts DEF Cvss
  <2> QED
    BY <2>4, <2>5
<1>2. f = Finish(e, e.severity, q)
  BY DEF Osv
<1> HIDE DEF vectors
<1>3. BestOf(p, vectors, Len(e.cvss))
  BY <1>1, BestIsPicked
<1> HIDE DEF p
<1>4. q \in PickType /\ q.vector = p.vector
  BY <1>3, EntryParts DEF BestOf, PickType
<1>5. p.score = 0 => p.vector = "none"
  BY <1>3 DEF BestOf, NoPick
<1>6. p.score # 0 => q = p
  OBVIOUS
<1> HIDE DEF q
<1>7. /\ WellFormed(f) /\ f.score = q.score /\ f.vector = q.vector
      /\ f.score > 0 => f.severity # 0
  BY <1>2, <1>4, EntryParts, FinishFacts
<1>8. ASSUME f.vector # "none"
      PROVE  \E c \in Range(e.cvss) : c.vector = f.vector /\ f.score \in {c.score, c.base}
  <2>1. p.vector # "none" /\ q = p
    BY <1>4, <1>5, <1>6, <1>7, <1>8
  <2>2. PICK i \in 1..Len(e.cvss) : /\ p.vector = vectors[i].vector
                                    /\ p.score = Worth(vectors[i])
    BY <1>3, <2>1 DEF BestOf, NoPick
  <2>3. e.cvss[i] \in Range(e.cvss)
    BY EntryParts DEF Range
  <2>4. f.vector = e.cvss[i].vector /\ f.score = e.cvss[i].base
    BY <1>1, <1>7, <2>1, <2>2 DEF Worth
  <2> QED
    BY <2>3, <2>4
<1> QED
  BY <1>7, <1>8 DEF PairedIn

LEMMA SnykPaired ==
  ASSUME NEW e \in Entry, NEW f \in Snyk(e)
  PROVE  WellFormed(f) /\ PairedIn("snyk", e, f)
<1> DEFINE c == IF e.cvss = <<>> THEN [score |-> 0, vector |-> "none", base |-> 0]
                ELSE e.cvss[1]
           p == [score |-> Worth(c), vector |-> c.vector]
<1>1. f = Finish(e, e.severity, p)
  BY DEF Snyk
<1>2. c \in Cvss /\ (c.vector # "none" => c \in Range(e.cvss))
  BY EntryParts, ScoresAreNumbers DEF Cvss, Vectors, Range
<1> HIDE DEF c
<1>3. p \in PickType
  BY <1>2 DEF PickType, Cvss, Worth
<1>4. /\ WellFormed(f) /\ f.score = Worth(c) /\ f.vector = c.vector
      /\ f.score > 0 => f.severity # 0
  BY <1>1, <1>3, EntryParts, FinishFacts
<1> QED
  BY <1>2, <1>4 DEF PairedIn, Worth

LEMMA SarifPaired ==
  ASSUME NEW e \in Entry, NEW f \in Sarif(e)
  PROVE  WellFormed(f) /\ PairedIn("sarif", e, f)
<1> DEFINE v == IF e.severity > 0 /\ e.group > 0 THEN ScoreToSeverity(e.group)
                ELSE e.severity
           p == [score |-> e.group, vector |-> "none"]
<1>1. f = Finish(e, v, p)
  BY DEF Sarif
<1>2. v \in Severities /\ p \in PickType
  BY EntryParts DEF ScoreToSeverity, Severities, PickType, Vectors
<1> HIDE DEF v
<1>3. WellFormed(f) /\ f.vector = "none" /\ (f.score > 0 => f.severity # 0)
  BY <1>1, <1>2, EntryParts, FinishFacts
<1> QED
  BY <1>3 DEF PairedIn

LEMMA ParsePaired ==
  ASSUME NEW format \in Formats, NEW e \in Entry, NEW f \in Parse(format, e)
  PROVE  WellFormed(f) /\ PairedIn(format, e, f)
<1>1. CASE format = "grype"
  BY <1>1, GrypePaired DEF Parse
<1>2. CASE format = "trivy"
  BY <1>2, TrivyPaired DEF Parse
<1>3. CASE format = "osv"
  BY <1>3, OsvPaired DEF Parse
<1>4. CASE format = "snyk"
  BY <1>4, SnykPaired DEF Parse
<1>5. CASE format = "sarif"
  BY <1>5, SarifPaired DEF Parse
<1> QED
  BY <1>1, <1>2, <1>3, <1>4, <1>5 DEF Formats

-----------------------------------------------------------------------------
(* The filters, as operations on lists of findings.                        *)

Distinct(s) ==
  /\ \A i, j \in DOMAIN s : Key(s[i]) = Key(s[j]) => i = j
  /\ \A i \in DOMAIN s : s[i].id # 0

Ordered(s) == \A m, n \in DOMAIN s : m < n => ~Better(s[n], s[m])

LEMMA PickedDistinct ==
  ASSUME NEW s, NEW set \in SUBSET DOMAIN s, NEW t, Places(set, t),
         NEW r, Picked(r, Finding, s, set, t), Distinct(s)
  PROVE  Distinct(r)
<1>1. \A n \in DOMAIN r : t[n] \in DOMAIN s /\ r[n] = s[t[n]] /\ n \in DOMAIN t
  BY DEF Picked, Places
<1>2. \A m, n \in DOMAIN r : t[m] = t[n] => m = n
  BY <1>1 DEF Places
<1>3. ASSUME NEW m \in DOMAIN r, NEW n \in DOMAIN r, Key(r[m]) = Key(r[n])
      PROVE  m = n
  <2>1. Key(s[t[m]]) = Key(s[t[n]])
    BY <1>1, <1>3
  <2>2. t[m] = t[n]
    BY <1>1, <2>1 DEF Distinct
  <2> QED
    BY <1>2, <2>2
<1>4. \A n \in DOMAIN r : r[n].id # 0
  BY <1>1 DEF Distinct
<1> QED
  BY <1>3, <1>4 DEF Distinct

(* A filter keeps just those that pass, and makes no two of one.           *)
Filters(r, s, passing) ==
  /\ r \in Seq(Finding)
  /\ \A f : f \in Range(r) <=> f \in Range(s) /\ f \in passing
  /\ Distinct(s) => Distinct(r)

LEMMA FilterList ==
  ASSUME NEW s \in Seq(Finding), NEW passing
  PROVE  Filters(Pick(s, Listed({i \in DOMAIN s : s[i] \in passing}, <)), s, passing)
<1> DEFINE set == {i \in DOMAIN s : s[i] \in passing}
           r == Pick(s, Listed(set, <))
<1>1. set \in SUBSET DOMAIN s /\ \A i \in set : s[i] \in passing
  OBVIOUS
<1>2. \A i \in DOMAIN s : s[i] \in passing => i \in set
  OBVIOUS
<1> HIDE DEF set
<1>3. PICK t : Places(set, t) /\ Picked(r, Finding, s, set, t)
  BY <1>1, KeptList
<1> HIDE DEF r
<1>4. r \in Seq(Finding)
  BY <1>3 DEF Picked
<1>5. Distinct(s) => Distinct(r)
  BY <1>1, <1>3, PickedDistinct
<1>6. \A f : f \in Range(r) <=> \E i \in set : f = s[i]
  BY <1>3 DEF Picked
<1>7. \A f : f \in Range(r) <=> f \in Range(s) /\ f \in passing
  BY <1>1, <1>2, <1>6 DEF Range
<1>8. Filters(r, s, passing)
  BY <1>4, <1>5, <1>7 DEF Filters
<1> QED
  BY <1>8 DEF r, set

LEMMA FloorsFilter ==
  ASSUME NEW s \in Seq(Finding)
  PROVE  Filters(Kept(s, PassesFloors), s, {f \in Range(s) : PassesFloors(f)})
<1> DEFINE passing == {f \in Range(s) : PassesFloors(f)}
<1>1. {i \in DOMAIN s : s[i] \in passing} = {i \in DOMAIN s : PassesFloors(s[i])}
  BY DEF Range
<1>2. Kept(s, PassesFloors) = Pick(s, Listed({i \in DOMAIN s : s[i] \in passing}, <))
  BY <1>1 DEF Kept
<1> QED
  BY <1>2, FilterList

LEMMA OnlyFilters ==
  ASSUME NEW s \in Seq(Finding)
  PROVE  Filters(Kept(s, MatchesOnly), s, {f \in Range(s) : MatchesOnly(f)})
<1> DEFINE passing == {f \in Range(s) : MatchesOnly(f)}
<1>1. {i \in DOMAIN s : s[i] \in passing} = {i \in DOMAIN s : MatchesOnly(s[i])}
  BY DEF Range
<1>2. Kept(s, MatchesOnly) = Pick(s, Listed({i \in DOMAIN s : s[i] \in passing}, <))
  BY <1>1 DEF Kept
<1> QED
  BY <1>2, FilterList

LEMMA GatesFilter ==
  ASSUME NEW s \in Seq(Finding)
  PROVE  Filters(Kept(s, PassesGates), s, {f \in Range(s) : PassesGates(f)})
<1> DEFINE passing == {f \in Range(s) : PassesGates(f)}
<1>1. {i \in DOMAIN s : s[i] \in passing} = {i \in DOMAIN s : PassesGates(s[i])}
  BY DEF Range
<1>2. Kept(s, PassesGates) = Pick(s, Listed({i \in DOMAIN s : s[i] \in passing}, <))
  BY <1>1 DEF Kept
<1> QED
  BY <1>2, FilterList

(* DedupFindings: no two of one key are left, and of a list that has no    *)
(* two, and no empty id, nothing is taken.                                 *)
LEMMA DedupList ==
  ASSUME NEW s \in Seq(Finding)
  PROVE  /\ Dedup(s) \in Seq(Finding) /\ Distinct(Dedup(s))
         /\ Range(Dedup(s)) \subseteq Range(s)
         /\ Distinct(s) => Range(Dedup(s)) = Range(s)
<1> DEFINE first(i) == s[i].id # 0 /\ \A j \in 1..(i - 1) : Key(s[j]) # Key(s[i])
           set == {i \in DOMAIN s : first(i)}
           r == Pick(s, Listed(set, <))
<1>1. Dedup(s) = r
  BY DEF Dedup
<1>2. set \in SUBSET DOMAIN s
  OBVIOUS
<1>3. \A i \in set : first(i) /\ i \in Nat
  OBVIOUS
<1>4. Distinct(s) => \A i \in DOMAIN s : i \in set
  <2>1. ASSUME Distinct(s), NEW i \in DOMAIN s PROVE first(i)
    <3>1. \A j \in 1..(i - 1) : j \in DOMAIN s /\ j # i
      OBVIOUS
    <3> QED
      BY <2>1, <3>1 DEF Distinct
  <2> QED
    BY <2>1
<1> HIDE DEF set
<1>5. PICK t : /\ Places(set, t) /\ Picked(r, Finding, s, set, t)
               /\ \A k, m \in DOMAIN t : k < m => t[k] < t[m]
  BY <1>2, KeptList
<1> HIDE DEF r
<1>6. /\ r \in Seq(Finding) /\ DOMAIN r = DOMAIN t
      /\ \A f : f \in Range(r) <=> \E i \in set : f = s[i]
      /\ \A n \in DOMAIN t : r[n] = s[t[n]] /\ t[n] \in set
  BY <1>5 DEF Picked, Places
<1>7. ASSUME NEW m \in DOMAIN r, NEW n \in DOMAIN r, m < n
      PROVE  Key(r[m]) # Key(r[n])
  <2>1. t[m] < t[n] /\ t[m] \in Nat /\ t[n] \in Nat /\ t[m] >= 1
    BY <1>2, <1>5, <1>6, <1>7
  <2>2. t[m] \in 1..(t[n] - 1)
    BY <2>1
  <2>3. first(t[n])
    BY <1>3, <1>6
  <2> QED
    BY <1>6, <2>2, <2>3
<1>8. \A n \in DOMAIN r : n \in Nat /\ r[n].id # 0
  <2>1. \A n \in DOMAIN r : r[n].id # 0
    BY <1>3, <1>6
  <2> QED
    BY <1>6, <2>1
<1>9. Distinct(r)
  <2>1. ASSUME NEW m \in DOMAIN r, NEW n \in DOMAIN r, Key(r[m]) = Key(r[n])
        PROVE  m = n
    BY <1>7, <1>8, <2>1
  <2> QED
    BY <1>8, <2>1 DEF Distinct
<1>10. Range(r) \subseteq Range(s)
  BY <1>2, <1>6 DEF Range
<1>11. Distinct(s) => Range(r) = Range(s)
  BY <1>4, <1>6, <1>10 DEF Range
<1> QED
  BY <1>1, <1>6, <1>9, <1>10, <1>11

(* RankAndCap: nothing is lost but at the cap, and to none worse.          *)
LEMMA RankedIsWhole ==
  ASSUME NEW s \in Seq(Finding)
  PROVE  LET r == Ranked(s)
         IN  /\ r \in Seq(Finding) /\ Range(r) = Range(s) /\ Ordered(r)
             /\ Distinct(s) => Distinct(r)
<1> DEFINE r == Ranked(s)
<1>1. PICK t : Places(DOMAIN s, t) /\ Picked(r, Finding, s, DOMAIN s, t)
  BY RankedList
<1>2. Ordered(r)
  BY RankedList DEF Ordered
<1> HIDE DEF r
<1>3. r \in Seq(Finding) /\ \A x : x \in Range(r) <=> \E i \in DOMAIN s : x = s[i]
  BY <1>1 DEF Picked
<1>4. Range(r) = Range(s)
  BY <1>3 DEF Range
<1>5. Distinct(s) => Distinct(r)
  BY <1>1, PickedDistinct
<1> QED
  BY <1>2, <1>3, <1>4, <1>5 DEF r

LEMMA CappedList ==
  ASSUME NEW s \in Seq(Finding), opt.cap \in Int
  PROVE  /\ Capped(s) \in Seq(Finding) /\ Len(Capped(s)) <= Len(s)
         /\ \A i \in 1..Len(Capped(s)) : Capped(s)[i] = s[i]
         /\ Len(Capped(s)) < Len(s) => opt.cap > 0 /\ Len(Capped(s)) = opt.cap
<1>1. CASE opt.cap > 0 /\ Len(s) > opt.cap
  <2>1. Capped(s) = SubSeq(s, 1, opt.cap)
    BY <1>1 DEF Capped
  <2>2. /\ SubSeq(s, 1, opt.cap) \in Seq(Finding) /\ Len(SubSeq(s, 1, opt.cap)) = opt.cap
        /\ \A i \in 1..opt.cap : SubSeq(s, 1, opt.cap)[i] = s[i]
    BY <1>1
  <2> QED
    BY <1>1, <2>1, <2>2
<1>2. CASE ~(opt.cap > 0 /\ Len(s) > opt.cap)
  <2>1. Capped(s) = s
    BY <1>2 DEF Capped
  <2> QED
    BY <2>1
<1> QED
  BY <1>1, <1>2

LEMMA BestAreLeft ==
  ASSUME NEW s \in Seq(Finding), opt.cap \in Int
  PROVE  LET r == Capped(Ranked(s))
         IN  /\ r \in Seq(Finding) /\ Range(r) \subseteq Range(s) /\ Ordered(r)
             /\ Distinct(s) => Distinct(r)
             /\ \A f \in Range(s) \ Range(r) :
                  /\ opt.cap > 0 /\ Len(r) = opt.cap
                  /\ \A g \in Range(r) : ~Better(f, g)
<1> DEFINE q == Ranked(s)
           r == Capped(q)
<1>1. q \in Seq(Finding) /\ Range(q) = Range(s) /\ Ordered(q) /\ (Distinct(s) => Distinct(q))
  BY RankedIsWhole
<1> HIDE DEF q
<1>2. /\ r \in Seq(Finding) /\ Len(r) <= Len(q)
      /\ \A i \in 1..Len(r) : r[i] = q[i]
      /\ Len(r) < Len(q) => opt.cap > 0 /\ Len(r) = opt.cap
  BY <1>1, CappedList
<1> HIDE DEF r
<1>3. /\ DOMAIN r = 1..Len(r) /\ DOMAIN q = 1..Len(q) /\ Len(r) \in Nat /\ Len(q) \in Nat
      /\ \A i \in DOMAIN r : i \in DOMAIN q /\ r[i] = q[i]
  BY <1>1, <1>2
<1>4. Range(r) \subseteq Range(s)
  BY <1>1, <1>3 DEF Range
<1>5. Ordered(r) /\ (Distinct(s) => Distinct(r))
  BY <1>1, <1>3 DEF Ordered, Distinct
<1>6. ASSUME NEW f \in Range(s) \ Range(r)
      PROVE  /\ opt.cap > 0 /\ Len(r) = opt.cap
             /\ \A g \in Range(r) : ~Better(f, g)
  <2>1. PICK n \in DOMAIN q : f = q[n]
    BY <1>1 DEF Range
  <2>2. n \notin DOMAIN r
    BY <1>3, <2>1 DEF Range
  <2>3. n > Len(r) /\ Len(r) < Len(q)
    BY <1>3, <2>2
  <2>4. ASSUME NEW g \in Range(r) PROVE ~Better(f, g)
    <3>1. PICK m \in DOMAIN r : g = r[m]
      BY DEF Range
    <3>2. m < n /\ m \in DOMAIN q /\ g = q[m]
      BY <1>3, <2>3, <3>1
    <3> QED
      BY <1>1, <2>1, <3>2 DEF Ordered
  <2> QED
    BY <1>2, <2>3, <2>4
<1> QED
  BY <1>2, <1>4, <1>5, <1>6 DEF r, q

-----------------------------------------------------------------------------
(* The invariant.                                                          *)

Stages == {"parse", "dedup", "only", "enrich", "floors", "feed", "gates",
           "rank", "done", "told", "fatal"}

(* Each row of the feed is of another id, and what was matched is whole.   *)
TypeInv ==
  /\ TypeOK
  /\ opt \in Options /\ report \in Seq(EntriesOf[opt.format])
  /\ \A f \in Range(list) : WellFormed(f)
  /\ feed \in Seq(Rows)
  /\ \A i, j \in DOMAIN feed : i # j => feed[i].id # feed[j].id
  /\ \A id \in DOMAIN info : ~info[id].short

(* How far the feed was read, and what is known of it then.                *)
FeedInv ==
  /\ stage \in {"parse", "dedup", "only", "enrich", "floors"} =>
       feed = <<>> /\ at = 1 /\ DOMAIN info = {} /\ feedRead = "no"
  /\ stage = "feed" =>
       /\ feedRead = "no"
       /\ \A j \in 1..(at - 1) : Matches(feed[j]) => feed[j].id \in DOMAIN info
  /\ stage = "gates" =>
       /\ feedRead = "no" => feed = <<>>
       /\ feedRead = "whole" =>
            \A r \in Range(feed) : Matches(r) => r.id \in DOMAIN info
       /\ feedRead = "down" => DOMAIN info = {}
  /\ stage \in {"gates", "rank", "done"} /\ feedRead = "down" => ~opt.exploited

(* What the findings in the list are, from filter to filter.               *)
ListInv ==
  /\ stage \in {"only", "enrich", "floors", "feed", "gates", "rank", "done"} =>
       Distinct(list)
  /\ stage = "floors" => judged = list
  /\ stage \in {"feed", "gates"} =>
       \A f : f \in Range(list) <=> f \in Range(judged) /\ PassesFloors(f)
  /\ stage \in {"rank", "done"} =>
       \A f \in Range(list) : f \in Range(judged) /\ Meets(f)
  /\ stage = "rank" /\ feedRead \in {"no", "whole"} => Meeting \subseteq Range(list)
  /\ stage \in {"done", "told"} => Ordered(list)
  /\ stage = "told" => answers \in [DOMAIN list -> Answers]

SelectInv == TypeInv /\ FeedInv /\ ListInv /\ EvidencePaired /\ BestAreAnalyzed

LEMMA Starts == Init => SelectInv
<1> SUFFICES ASSUME Init PROVE SelectInv
  OBVIOUS
<1>1. /\ opt \in Options /\ stage = "parse" /\ feed = <<>> /\ list = <<>> /\ judged = <<>>
      /\ at = 1 /\ DOMAIN info = {} /\ feedRead = "no"
  BY DEF Init
<1>2. report \in Seq(EntriesOf[opt.format])
  <2>1. report \in UNION {[1..m -> EntriesOf[opt.format]] : m \in 0..MaxReport}
    BY DEF Init, SeqOf
  <2>2. PICK m \in 0..MaxReport : report \in [1..m -> EntriesOf[opt.format]]
    BY <2>1
  <2>3. m \in Nat
    BY SelectAssumption DEF SelectAssumption
  <2> QED
    BY <2>2, <2>3
<1>3. Range(list) = {} /\ Range(feed) = {} /\ list \in Seq(Finding) /\ judged \in Seq(Finding)
      /\ feed \in Seq(Rows) /\ Len(feed) = 0 /\ DOMAIN feed = {}
  BY <1>1 DEF Range
<1>4. TypeInv
  BY <1>1, <1>2, <1>3 DEF TypeInv, TypeOK
<1> QED
  BY <1>1, <1>4 DEF SelectInv, FeedInv, ListInv, EvidencePaired, BestAreAnalyzed

(* A step that leaves the feed alone keeps the types if its list does.     *)
LEMMA KeepsTypes ==
  ASSUME TypeInv, UNCHANGED <<opt, report, feed, at, info, feedRead>>,
         stage' \in Stages, list' \in Seq(Finding), judged' \in Seq(Finding),
         \A f \in Range(list') : WellFormed(f)
  PROVE  TypeInv'
<1>1. DOMAIN info \subseteq {r.id : r \in Range(feed)}
  BY DEF TypeInv, TypeOK
<1>2. TypeOK'
  BY <1>1 DEF TypeInv, TypeOK, WellFormed, Stages
<1> QED
  BY <1>2 DEF TypeInv

LEMMA ListTypes ==
  ASSUME TypeInv
  PROVE  /\ opt \in Options /\ opt.format \in Formats /\ opt.cap \in Int
         /\ list \in Seq(Finding) /\ judged \in Seq(Finding)
         /\ \A f \in Range(list) : WellFormed(f) /\ f \in Finding
         /\ DOMAIN list = 1..Len(list) /\ Len(list) \in Nat
  BY SelectAssumption DEF TypeInv, TypeOK, SelectAssumption, WellFormed

LEMMA ParseStep ==
  ASSUME SelectInv, ParseScan
  PROVE  SelectInv'
<1>1. TypeInv /\ stage = "parse" /\ stage' = "dedup" /\ judged' = judged
      /\ UNCHANGED <<opt, report, feed, at, info, feedRead, answers>>
  BY DEF SelectInv, ParseScan, Step
<1>2. /\ DOMAIN list' = DOMAIN report
      /\ \A i \in DOMAIN report : list'[i] \in Parse(opt.format, report[i])
  BY DEF ParseScan
<1>3. /\ DOMAIN report = 1..Len(report) /\ Len(report) \in Nat
      /\ \A i \in DOMAIN report : report[i] \in Entry
  BY <1>1, ListTypes, SelectAssumption DEF TypeInv, SelectAssumption
<1>4. \A i \in DOMAIN report : /\ WellFormed(list'[i])
                               /\ PairedIn(opt.format, report[i], list'[i])
  BY <1>1, <1>2, <1>3, ListTypes, ParsePaired
<1>5. list' \in Seq(Finding)
  <2>1. list' = [i \in DOMAIN list' |-> list'[i]]
    BY DEF ParseScan
  <2>2. \A i \in 1..Len(report) : list'[i] \in Finding
    BY <1>3, <1>4 DEF WellFormed
  <2>3. list' \in [1..Len(report) -> Finding]
    BY <1>2, <1>3, <2>1, <2>2
  <2> QED
    BY <1>3, <2>3
<1>6. TypeInv'
  <2>1. \A f \in Range(list') : WellFormed(f)
    BY <1>2, <1>4 DEF Range
  <2> QED
    BY <1>1, <1>5, <2>1, KeepsTypes, ListTypes DEF Stages
<1>7. EvidencePaired'
  BY <1>1, <1>2, <1>4 DEF EvidencePaired, PairedIn
<1> QED
  BY <1>1, <1>6, <1>7 DEF SelectInv, FeedInv, ListInv, BestAreAnalyzed

LEMMA DedupStep ==
  ASSUME SelectInv, DedupFindings
  PROVE  SelectInv'
<1>1. TypeInv /\ stage = "dedup" /\ stage' = "only" /\ judged' = judged
      /\ UNCHANGED <<opt, report, feed, at, info, feedRead, answers>>
      /\ list' = Dedup(list)
  BY DEF SelectInv, DedupFindings, Step
<1>2. /\ list' \in Seq(Finding) /\ Distinct(list')
      /\ Range(list') \subseteq Range(list)
  BY <1>1, ListTypes, DedupList
<1>3. TypeInv'
  BY <1>1, <1>2, KeepsTypes, ListTypes DEF Stages
<1> QED
  BY <1>1, <1>2, <1>3
  DEF SelectInv, FeedInv, ListInv, EvidencePaired, BestAreAnalyzed

LEMMA OnlyStep ==
  ASSUME SelectInv, SelectByIDs
  PROVE  SelectInv'
<1>1. TypeInv /\ stage = "only" /\ stage' = "enrich" /\ judged' = judged
      /\ UNCHANGED <<opt, report, feed, at, info, feedRead, answers>>
      /\ list' = Kept(list, MatchesOnly) /\ Distinct(list)
  BY DEF SelectInv, SelectByIDs, Step, ListInv
<1>2. Filters(list', list, {f \in Range(list) : MatchesOnly(f)})
  BY <1>1, ListTypes, OnlyFilters
<1>3. list' \in Seq(Finding) /\ Range(list') \subseteq Range(list) /\ Distinct(list')
  BY <1>1, <1>2 DEF Filters
<1>4. TypeInv'
  BY <1>1, <1>3, KeepsTypes, ListTypes DEF Stages
<1> QED
  BY <1>1, <1>3, <1>4
  DEF SelectInv, FeedInv, ListInv, EvidencePaired, BestAreAnalyzed

LEMMA EnrichedFacts ==
  ASSUME NEW f, WellFormed(f), NEW g \in Enriched(f)
  PROVE  WellFormed(g) /\ Key(g) = Key(f) /\ g.id = f.id
<1>1. /\ f.id \in Nat /\ f.aliases \in SUBSET Nat /\ f.pkg \in Nat \X Nat
      /\ f.score \in Scores /\ f.severity \in Severities /\ f.vector \in Vectors
  BY DEF WellFormed, Finding
<1>2. g \in Finding /\ g.id = f.id /\ g.aliases = f.aliases /\ g.pkg = f.pkg
  BY <1>1 DEF Enriched, Finding
<1> QED
  BY <1>2 DEF WellFormed, Key

LEMMA EnrichStep ==
  ASSUME SelectInv, EnrichFindings
  PROVE  SelectInv'
<1>1. TypeInv /\ stage = "enrich" /\ stage' = "floors" /\ judged' = list'
      /\ UNCHANGED <<opt, report, feed, at, info, feedRead, answers>>
      /\ Distinct(list)
  BY DEF SelectInv, EnrichFindings, Step, ListInv
<1>2. /\ list' \in Seq(Finding) /\ Distinct(list')
      /\ \A f \in Range(list') : WellFormed(f)
  <2>1. CASE UNCHANGED list
    BY <1>1, <2>1, ListTypes
  <2>2. CASE /\ list' \in [DOMAIN list -> UNION {Enriched(f) : f \in Range(list)}]
             /\ \A i \in DOMAIN list : list'[i] \in Enriched(list[i])
    <3>1. \A i \in DOMAIN list : /\ WellFormed(list'[i]) /\ list'[i].id = list[i].id
                                 /\ Key(list'[i]) = Key(list[i])
      <4>1. \A i \in DOMAIN list : WellFormed(list[i])
        BY <1>1, ListTypes DEF Range
      <4> QED
        BY <2>2, <4>1, EnrichedFacts
    <3>2. DOMAIN list' = DOMAIN list
      BY <2>2
    <3>3. list' \in [1..Len(list) -> Finding]
      <4>1. \A i \in 1..Len(list) : list'[i] \in Finding
        BY <1>1, <3>1, ListTypes DEF WellFormed
      <4>2. list' = [i \in 1..Len(list) |-> list'[i]]
        BY <1>1, <2>2, ListTypes
      <4> QED
        BY <4>1, <4>2
    <3>4. list' \in Seq(Finding)
      BY <1>1, <3>3, ListTypes
    <3>5. Distinct(list')
      BY <1>1, <3>1, <3>2 DEF Distinct
    <3>6. \A f \in Range(list') : WellFormed(f)
      BY <3>1, <3>2 DEF Range
    <3> QED
      BY <3>4, <3>5, <3>6
  <2> QED
    BY <2>1, <2>2 DEF EnrichFindings
<1>3. TypeInv'
  BY <1>1, <1>2, KeepsTypes DEF Stages
<1> QED
  BY <1>1, <1>2, <1>3
  DEF SelectInv, FeedInv, ListInv, EvidencePaired, BestAreAnalyzed

LEMMA FloorsStep ==
  ASSUME SelectInv, SelectFindings
  PROVE  SelectInv'
<1>1. /\ TypeInv /\ stage = "floors" /\ judged' = judged /\ judged = list
      /\ UNCHANGED <<opt, report, at, info, feedRead, answers>>
      /\ feed = <<>> /\ at = 1 /\ DOMAIN info = {} /\ feedRead = "no"
      /\ list' = Kept(Dedup(list), PassesFloors) /\ Distinct(list)
      /\ stage' = AfterFloors(list')
      /\ feed' \in IF stage' = "feed" THEN Feeds ELSE {feed}
  BY DEF SelectInv, SelectFindings, ListInv, FeedInv
<1>2. stage' \in {"rank", "gates", "feed"} /\ (stage' = "rank" <=> ~Gated)
  BY <1>1 DEF AfterFloors
<1>3. /\ Dedup(list) \in Seq(Finding) /\ Distinct(Dedup(list))
      /\ Range(Dedup(list)) = Range(list)
  BY <1>1, ListTypes, DedupList
<1>4. Filters(list', Dedup(list), {f \in Range(Dedup(list)) : PassesFloors(f)})
  BY <1>1, <1>3, FloorsFilter
<1>5. /\ list' \in Seq(Finding) /\ Distinct(list')
      /\ \A f : f \in Range(list') <=> f \in Range(judged) /\ PassesFloors(f)
  BY <1>1, <1>3, <1>4 DEF Filters
<1>6. /\ feed' \in Seq(Rows)
      /\ \A i, j \in DOMAIN feed' : i # j => feed'[i].id # feed'[j].id
      /\ stage' # "feed" => feed' = <<>>
      /\ Len(feed') \in Nat
  <2>1. CASE stage' = "feed"
    <3>1. /\ feed' \in UNION {[1..m -> Rows] : m \in 0..Cardinality(Cves)}
          /\ \A i, j \in DOMAIN feed' : i # j => feed'[i].id # feed'[j].id
      BY <1>1, <2>1 DEF Feeds, SeqOf
    <3>2. Cardinality(Cves) \in Nat
      BY SelectAssumption, FS_CardinalityType DEF SelectAssumption
    <3>3. PICK m \in 0..Cardinality(Cves) : feed' \in [1..m -> Rows]
      BY <3>1
    <3>4. m \in Nat
      BY <3>2
    <3>5. feed' \in Seq(Rows)
      BY <3>3, <3>4
    <3> QED
      BY <2>1, <3>1, <3>5
  <2>2. CASE stage' # "feed"
    <3>1. feed' = <<>>
      BY <1>1, <2>2
    <3> QED
      BY <2>2, <3>1
  <2> QED
    BY <2>1, <2>2
<1>7. \A f \in Range(list') : WellFormed(f)
  BY <1>1, <1>5, ListTypes
<1>8. TypeInv'
  <2>1. TypeOK'
    BY <1>1, <1>2, <1>5, <1>6, <1>7 DEF TypeInv, TypeOK, WellFormed
  <2> QED
    BY <1>1, <1>6, <1>7, <2>1 DEF TypeInv
<1>9. FeedInv'
  BY <1>1, <1>2, <1>6 DEF FeedInv
<1>10. stage' = "rank" =>
         /\ \A f \in Range(list') : f \in Range(judged') /\ Meets(f)'
         /\ Meeting' \subseteq Range(list')
  <2> SUFFICES ASSUME stage' = "rank"
               PROVE  /\ \A f \in Range(list') : f \in Range(judged') /\ Meets(f)'
                      /\ Meeting' \subseteq Range(list')
    OBVIOUS
  <2>1. ~opt.remote /\ ~opt.exploited /\ opt' = opt
    BY <1>1, <1>2 DEF Gated
  <2>2. \A f : Meets(f)' <=> PassesFloors(f)
    BY <2>1 DEF Meets, PassesFloors
  <2> QED
    BY <1>1, <1>5, <2>2 DEF Meeting
<1>11. ListInv'
  <2>1. \A f : PassesFloors(f)' <=> PassesFloors(f)
    BY <1>1 DEF PassesFloors
  <2> QED
    BY <1>1, <1>2, <1>5, <1>10, <2>1 DEF ListInv
<1> QED
  BY <1>2, <1>8, <1>9, <1>11 DEF SelectInv, EvidencePaired, BestAreAnalyzed

(* The rows matched so far are those of the feed up to where it was read.  *)
LEMMA ReadRowStep ==
  ASSUME SelectInv, ReadRow
  PROVE  SelectInv'
<1> DEFINE row == feed[at]
<1>1. /\ TypeInv /\ FeedInv /\ ListInv /\ stage = "feed" /\ at <= Len(feed) /\ at' = at + 1
      /\ UNCHANGED <<opt, report, feed, list, judged, answers>>
      /\ info' = [id \in DOMAIN info \cup (IF Matches(row) THEN {row.id} ELSE {}) |->
                    IF Matches(row) /\ id = row.id THEN row ELSE info[id]]
      /\ \/ /\ Matches(row) /\ HasAll(info') /\ stage' = "gates" /\ feedRead' = "whole"
         \/ stage' = "feed" /\ feedRead' = feedRead
  BY DEF SelectInv, ReadRow
<1>2. /\ at \in 1..(Len(feed) + 1) /\ at \in DOMAIN feed /\ Len(feed) \in Nat
      /\ row \in Range(feed) /\ feedRead = "no" /\ at \in Nat
      /\ DOMAIN feed = 1..Len(feed)
  BY <1>1 DEF TypeInv, TypeOK, FeedInv, Range
<1>3. \A id \in DOMAIN info :
        info[id] \in Range(feed) /\ info[id].id = id /\ ~info[id].short
  BY <1>1 DEF TypeInv, TypeOK
<1>4. \A id \in DOMAIN info' :
        info'[id] \in Range(feed) /\ info'[id].id = id /\ ~info'[id].short
  BY <1>1, <1>2, <1>3 DEF Matches
<1>5. TypeInv'
  <2>1. DOMAIN info' \subseteq {r.id : r \in Range(feed)}
    BY <1>4
  <2>2. TypeOK'
    BY <1>1, <1>2, <1>4, <2>1 DEF TypeInv, TypeOK
  <2> QED
    BY <1>1, <1>4, <2>2 DEF TypeInv
<1>6. Wanted' = Wanted
  BY <1>1 DEF Wanted
<1>7. \A r : Matches(r)' <=> Matches(r)
  BY <1>6 DEF Matches
<1>8. FeedInv'
  <2>1. CASE /\ Matches(row) /\ HasAll(info') /\ stage' = "gates" /\ feedRead' = "whole"
    <3>1. \A r \in Range(feed') : Matches(r)' => r.id \in DOMAIN info'
      BY <1>7, <2>1 DEF HasAll, Matches
    <3> QED
      BY <2>1, <3>1 DEF FeedInv
  <2>2. CASE stage' = "feed" /\ feedRead' = feedRead
    <3>1. ASSUME NEW j \in 1..(at' - 1), Matches(feed[j])
          PROVE  feed[j].id \in DOMAIN info'
      <4>1. CASE j = at
        BY <1>1, <3>1, <4>1
      <4>2. CASE j # at
        <5>1. j \in 1..(at - 1)
          BY <1>1, <1>2, <4>2
        <5>2. feed[j].id \in DOMAIN info
          BY <1>1, <3>1, <5>1 DEF FeedInv
        <5> QED
          BY <1>1, <5>2
      <4> QED
        BY <4>1, <4>2
    <3> QED
      BY <1>1, <1>2, <1>7, <2>2, <3>1 DEF FeedInv
  <2> QED
    BY <1>1, <2>1, <2>2
<1>9. ListInv'
  <2>1. \A f : PassesFloors(f)' <=> PassesFloors(f)
    BY <1>1 DEF PassesFloors
  <2> QED
    BY <1>1, <2>1 DEF ListInv
<1> QED
  BY <1>1, <1>5, <1>8, <1>9 DEF SelectInv, EvidencePaired, BestAreAnalyzed

LEMMA FeedStopStep ==
  ASSUME SelectInv, FeedEnds \/ FeedCut \/ FeedDown
  PROVE  SelectInv'
<1>1. /\ TypeInv /\ FeedInv /\ ListInv /\ stage = "feed"
      /\ UNCHANGED <<opt, report, feed, list, judged, at, info, answers>>
      /\ stage' \in {"gates", "fatal"} /\ feedRead' \in {"whole", "cut", "down"}
      /\ feedRead' = "whole" => at > Len(feed)
      /\ feedRead' = "down" => DOMAIN info = {} /\ (stage' = "gates" => ~opt.exploited)
  BY DEF SelectInv, FeedEnds, FeedCut, FeedDown
<1>2. TypeInv'
  <2>1. TypeOK'
    BY <1>1 DEF TypeInv, TypeOK, Wanted
  <2> QED
    BY <1>1, <2>1 DEF TypeInv
<1>3. FeedInv'
  <2>1. \A r : Matches(r)' <=> Matches(r)
    BY <1>1 DEF Matches, Wanted
  <2>2. ASSUME at > Len(feed), NEW r \in Range(feed), Matches(r)
        PROVE  r.id \in DOMAIN info
    <3>1. PICK j \in DOMAIN feed : r = feed[j]
      BY DEF Range
    <3>2. j \in 1..(at - 1)
      BY <1>1, <2>2 DEF TypeInv, TypeOK
    <3> QED
      BY <1>1, <2>2, <3>1, <3>2 DEF FeedInv
  <2> QED
    BY <1>1, <2>1, <2>2 DEF FeedInv
<1>4. ListInv'
  <2>1. \A f : PassesFloors(f)' <=> PassesFloors(f)
    BY <1>1 DEF PassesFloors
  <2> QED
    BY <1>1, <2>1 DEF ListInv
<1> QED
  BY <1>1, <1>2, <1>3, <1>4 DEF SelectInv, EvidencePaired, BestAreAnalyzed

(* What the gates see of the feed: rows it really has, and all that it has *)
(* on a finding in the list unless it was cut or lost.                     *)
LEMMA RowsSeen ==
  ASSUME SelectInv, stage = "gates", NEW f \in Range(list)
  PROVE  /\ \A id \in DOMAIN info : info[id].id = id
         /\ RowsOf(f) \subseteq FeedOn(f)
         /\ feedRead \in {"no", "whole"} =>
              \A r \in FeedOn(f) : r.id \in DOMAIN info /\ info[r.id] = r /\ r \in RowsOf(f)
         /\ feedRead = "down" => RowsOf(f) = {} /\ DOMAIN info = {}
         /\ \A r \in FeedOn(f) : r.vector \in Vectors
<1>1. TypeInv /\ FeedInv
  BY DEF SelectInv
<1>2. \A id \in DOMAIN info :
        info[id] \in Range(feed) /\ info[id].id = id /\ ~info[id].short
  BY <1>1 DEF TypeInv, TypeOK
<1>3. RowsOf(f) \subseteq FeedOn(f)
  BY <1>2 DEF RowsOf, FeedOn
<1>4. \A r \in Range(feed) : r \in Rows /\ r.id \in Cves /\ r.vector \in Vectors
  BY <1>1, SelectAssumption DEF TypeInv, Range, SelectAssumption
<1>5. ASSUME feedRead \in {"no", "whole"}, NEW r \in FeedOn(f)
      PROVE  r.id \in DOMAIN info /\ info[r.id] = r /\ r \in RowsOf(f)
  <2>1. r \in Range(feed) /\ r.id \in Ids(f) /\ ~r.short
    BY DEF FeedOn
  <2>2. feedRead = "whole"
    BY <1>1, <1>5, <2>1 DEF FeedInv, Range
  <2>3. r.id \in Wanted
    BY <1>4, <2>1 DEF Wanted
  <2>4. r.id \in DOMAIN info
    BY <1>1, <2>1, <2>2, <2>3 DEF FeedInv, Matches
  <2>5. \A p, q \in Range(feed) : p.id = q.id => p = q
    BY <1>1 DEF TypeInv, Range
  <2>6. info[r.id] = r
    BY <1>2, <2>1, <2>4, <2>5
  <2> QED
    BY <2>1, <2>4, <2>6 DEF RowsOf
<1>6. feedRead = "down" => RowsOf(f) = {} /\ DOMAIN info = {}
  BY <1>1 DEF FeedInv, RowsOf
<1>7. \A r \in FeedOn(f) : r.vector \in Vectors
  BY <1>4 DEF FeedOn
<1> QED
  BY <1>2, <1>3, <1>5, <1>6, <1>7

LEMMA RemoteIsShown ==
  ASSUME SelectInv, stage = "gates", NEW f \in Range(list)
  PROVE  /\ IsRemote(f) => ShownRemote(f)
         /\ feedRead \in {"no", "whole"} /\ ShownRemote(f) => IsRemote(f)
<1> DEFINE others == {r.vector : r \in RowsOf(f)} \ {"none"}
           own == f.id \in DOMAIN info /\ info[f.id].vector # "none"
<1>1. f.vector # "none" => (IsRemote(f) <=> f.vector = "network")
  BY DEF IsRemote
<1>2. f.vector = "none" =>
        (IsRemote(f) <=> IF own THEN info[f.id].vector = "network" ELSE "network" \in others)
  BY DEF IsRemote, LookupVector
<1>3. own => info[f.id] \in RowsOf(f)
  BY DEF RowsOf, Ids
<1>4. feedRead \in {"no", "whole", "cut", "down"}
  BY DEF SelectInv, TypeInv, TypeOK
<1>5. ASSUME IsRemote(f) PROVE ShownRemote(f)
  <2>1. CASE f.vector # "none"
    BY <1>1, <1>5, <2>1 DEF ShownRemote
  <2>2. CASE f.vector = "none"
    <3>1. \E r \in RowsOf(f) : r.vector = "network"
      BY <1>2, <1>3, <1>5, <2>2
    <3>2. \E r \in FeedOn(f) : r.vector = "network"
      BY <3>1, RowsSeen
    <3>3. ASSUME feedRead # "cut", NEW r \in FeedOn(f), r.id = f.id
          PROVE  r.vector # "local"
      <4>1. feedRead \in {"no", "whole"}
        BY <1>4, <3>1, <3>3, RowsSeen
      <4>2. f.id \in DOMAIN info /\ info[f.id] = r
        BY <3>3, <4>1, RowsSeen
      <4> QED
        BY <1>2, <1>5, <2>2, <4>2
    <3> QED
      BY <2>2, <3>2, <3>3 DEF ShownRemote
  <2> QED
    BY <2>1, <2>2
<1>6. ASSUME feedRead \in {"no", "whole"}, ShownRemote(f) PROVE IsRemote(f)
  <2>1. CASE f.vector # "none"
    BY <1>1, <1>6, <2>1 DEF ShownRemote
  <2>2. CASE f.vector = "none"
    <3>1. PICK r \in FeedOn(f) : r.vector = "network"
      BY <1>6, <2>2 DEF ShownRemote
    <3>2. "network" \in others
      BY <1>6, <3>1, RowsSeen
    <3>3. ASSUME own PROVE info[f.id].vector = "network"
      <4>1. info[f.id] \in FeedOn(f) /\ info[f.id].id = f.id
        BY <1>3, <3>3, RowsSeen
      <4>2. info[f.id].vector # "local" /\ info[f.id].vector \in Vectors
        BY <1>6, <2>2, <4>1, RowsSeen DEF ShownRemote
      <4> QED
        BY <3>3, <4>2 DEF Vectors
    <3> QED
      BY <1>2, <2>2, <3>2, <3>3
  <2> QED
    BY <2>1, <2>2
<1> QED
  BY <1>5, <1>6

LEMMA ExploitedIsShown ==
  ASSUME SelectInv, stage = "gates", NEW f \in Range(list)
  PROVE  /\ IsExploited(f) => ShownExploited(f)
         /\ feedRead \in {"no", "whole"} /\ ShownExploited(f) => IsExploited(f)
  BY RowsSeen DEF IsExploited, ShownExploited

LEMMA GatesStep ==
  ASSUME SelectInv, FilterExploitability
  PROVE  SelectInv'
<1>1. /\ TypeInv /\ FeedInv /\ ListInv /\ stage = "gates" /\ stage' = "rank"
      /\ UNCHANGED <<opt, report, feed, judged, at, info, feedRead, answers>>
      /\ list' = Kept(list, PassesGates) /\ Distinct(list)
      /\ \A f : f \in Range(list) <=> f \in Range(judged) /\ PassesFloors(f)
  BY DEF SelectInv, FilterExploitability, Step, ListInv
<1>2. Filters(list', list, {f \in Range(list) : PassesGates(f)})
  BY <1>1, ListTypes, GatesFilter
<1>3. /\ list' \in Seq(Finding) /\ Distinct(list')
      /\ \A f : f \in Range(list') <=> f \in Range(list) /\ PassesGates(f)
  BY <1>1, <1>2 DEF Filters
<1>4. TypeInv'
  BY <1>1, <1>3, KeepsTypes, ListTypes DEF Stages
<1>5. FeedInv'
  BY <1>1 DEF FeedInv
<1>6. \A f : Meets(f)' <=> Meets(f)
  BY <1>1 DEF Meets, ShownRemote, ShownExploited, FeedOn
<1>7. \A f \in Range(list) : PassesGates(f) => Meets(f)
  BY <1>1, RemoteIsShown, ExploitedIsShown DEF PassesGates, Meets, PassesFloors
<1>8. ASSUME feedRead \in {"no", "whole"}, NEW f \in Meeting
      PROVE  f \in Range(list')
  <2>1. f \in Range(judged) /\ Meets(f) /\ PassesFloors(f)
    BY DEF Meeting, Meets, PassesFloors
  <2>2. f \in Range(list)
    BY <1>1, <2>1
  <2>3. PassesGates(f)
    BY <1>1, <1>8, <2>1, <2>2, RemoteIsShown, ExploitedIsShown DEF PassesGates, Meets
  <2> QED
    BY <1>3, <2>2, <2>3
<1>9. Meeting' = Meeting
  BY <1>1, <1>6 DEF Meeting
<1>10. ListInv'
  <2>1. \A f \in Range(list') : f \in Range(judged') /\ Meets(f)'
    BY <1>1, <1>3, <1>6, <1>7
  <2> QED
    BY <1>1, <1>3, <1>8, <1>9, <2>1 DEF ListInv
<1> QED
  BY <1>1, <1>4, <1>5, <1>10 DEF SelectInv, EvidencePaired, BestAreAnalyzed

LEMMA RankStep ==
  ASSUME SelectInv, RankAndCap
  PROVE  SelectInv'
<1>1. /\ TypeInv /\ FeedInv /\ ListInv /\ stage = "rank" /\ stage' = "done"
      /\ UNCHANGED <<opt, report, feed, judged, at, info, feedRead, answers>>
      /\ list' = Capped(Ranked(list)) /\ Distinct(list)
  BY DEF SelectInv, RankAndCap, Step, ListInv
<1>2. /\ list' \in Seq(Finding) /\ Range(list') \subseteq Range(list)
      /\ Ordered(list') /\ Distinct(list')
      /\ \A f \in Range(list) \ Range(list') :
           /\ opt.cap > 0 /\ Len(list') = opt.cap
           /\ \A g \in Range(list') : ~Better(f, g)
  BY <1>1, ListTypes, BestAreLeft
<1>3. TypeInv'
  BY <1>1, <1>2, KeepsTypes, ListTypes DEF Stages
<1>4. FeedInv'
  BY <1>1 DEF FeedInv
<1>5. \A f : Meets(f)' <=> Meets(f)
  BY <1>1 DEF Meets, ShownRemote, ShownExploited, FeedOn
<1>6. ListInv'
  <2>1. \A f \in Range(list') : f \in Range(judged') /\ Meets(f)'
    BY <1>1, <1>2, <1>5 DEF ListInv
  <2> QED
    BY <1>1, <1>2, <2>1 DEF ListInv
<1>7. BestAreAnalyzed'
  <2>1. feedRead # "cut" /\ (feedRead = "down" => opt.exploited) =>
          Meeting \subseteq Range(list)
    BY <1>1 DEF FeedInv, ListInv, TypeInv, TypeOK
  <2>2. Meeting' = Meeting
    BY <1>1, <1>5 DEF Meeting
  <2> QED
    BY <1>1, <1>2, <2>1, <2>2 DEF BestAreAnalyzed
<1> QED
  BY <1>1, <1>3, <1>4, <1>6, <1>7 DEF SelectInv, EvidencePaired

LEMMA RunStep ==
  ASSUME SelectInv, RunScan
  PROVE  SelectInv'
<1>1. /\ TypeInv /\ FeedInv /\ ListInv /\ stage = "done" /\ stage' = "told"
      /\ UNCHANGED <<opt, report, feed, list, judged, at, info, feedRead>>
      /\ answers' \in [DOMAIN list -> Answers]
  BY DEF SelectInv, RunScan
<1>2. TypeInv'
  BY <1>1, KeepsTypes, ListTypes DEF Stages
<1> QED
  BY <1>1, <1>2 DEF SelectInv, FeedInv, ListInv, EvidencePaired, BestAreAnalyzed

LEMMA GivesUpStep ==
  ASSUME SelectInv, ParseFails \/ BadFloor
  PROVE  SelectInv'
<1>1. /\ TypeInv /\ FeedInv /\ ListInv /\ stage' = "fatal"
      /\ UNCHANGED <<opt, report, feed, list, judged, at, info, feedRead, answers>>
  BY DEF SelectInv, ParseFails, BadFloor, Step
<1>2. TypeInv'
  BY <1>1, KeepsTypes, ListTypes DEF Stages
<1> QED
  BY <1>1, <1>2 DEF SelectInv, FeedInv, ListInv, EvidencePaired, BestAreAnalyzed

LEMMA SelectInvariant == Spec => []SelectInv
<1>1. SelectInv /\ [Next]_vars => SelectInv'
  <2> SUFFICES ASSUME SelectInv, [Next]_vars PROVE SelectInv'
    OBVIOUS
  <2>1. CASE UNCHANGED vars
    BY <2>1
    DEF vars, SelectInv, TypeInv, TypeOK, FeedInv, ListInv, EvidencePaired,
        BestAreAnalyzed, Meeting, Meets, ShownRemote, ShownExploited, FeedOn,
        PassesFloors, Matches, Wanted
  <2>2. CASE Next
    BY <2>2, ParseStep, DedupStep, OnlyStep, EnrichStep, FloorsStep, ReadRowStep,
       FeedStopStep, GatesStep, RankStep, RunStep, GivesUpStep
    DEF Next
  <2> QED
    BY <2>1, <2>2
<1> QED
  BY <1>1, Starts, PTL DEF Spec

-----------------------------------------------------------------------------
(* What follows for the selection.                                         *)

(* scan.go, exploit.go: the pipeline keeps its types, no finding has an id *)
(* twice or an empty alias, and only rows of the feed are matched.         *)
THEOREM TypeCorrect == Spec => []TypeOK
  BY SelectInvariant, PTL DEF SelectInv, TypeInv

(* scan.go:58-64,237-260: whatever the format, and however many scores an  *)
(* entry lists, score and vector come from one of them, what is scored is  *)
(* rated, and of a Grype entry no score is better.                         *)
THEOREM EvidenceIsPaired == Spec => []EvidencePaired
  BY SelectInvariant, PTL DEF SelectInv

(* main.go:206-208: "no LLM session is spent on a finding a filter would   *)
(* drop", on evidence the feed really has, and none gets two.              *)
THEOREM NoSessionIsWasted == Spec => []NoWastedSession
<1>1. SelectInv => NoWastedSession
  BY DEF SelectInv, ListInv, NoWastedSession, Distinct
<1> QED
  BY <1>1, SelectInvariant, PTL

(* scan.go:170-184: of a package a vulnerability with one CVE id is        *)
(* analyzed once, whatever ids the entries of the report came under.       *)
THEOREM OneSessionPerCve == Spec => []OncePerCve
<1>1. SelectInv => OncePerCve
  <2> SUFFICES ASSUME SelectInv, stage = "done",
                      NEW i \in DOMAIN list, NEW j \in DOMAIN list,
                      list[i].pkg = list[j].pkg,
                      NEW id \in Cves, Ids(list[i]) \cap Cves = {id},
                      Ids(list[j]) \cap Cves = {id}
               PROVE  i = j
    BY DEF OncePerCve
  <2>1. WellFormed(list[i]) /\ WellFormed(list[j]) /\ Distinct(list)
    BY DEF SelectInv, TypeInv, ListInv, Range
  <2>2. list[i].id = id /\ list[j].id = id
    BY <2>1 DEF WellFormed, Ids
  <2> QED
    BY <2>1, <2>2 DEF Distinct, Key
<1> QED
  BY <1>1, SelectInvariant, PTL

(* scan.go:291-314, exploit.go:103-170: with the feed read to where its    *)
(* reader stopped of itself nothing that qualifies is left out but at the  *)
(* cap, and for none worse.                                                *)
THEOREM BestAreKept == Spec => []BestAreAnalyzed
  BY SelectInvariant, PTL DEF SelectInv

-----------------------------------------------------------------------------
(* The SARIF file.                                                         *)

(* A result is under the rule made of the first finding with its id.       *)
LEMMA RuleOfResult ==
  ASSUME NEW fs \in Seq(Finding), NEW given, NEW i \in DOMAIN fs
  PROVE  LET doc  == BuildScanSARIF(fs, given)
             rule == doc.rules[doc.results[i].rule]
         IN  /\ doc.results[i].level = SarifLevel(given[i])
             /\ \E h \in 1..i :
                  /\ fs[h].id = fs[i].id /\ h \in DOMAIN fs
                  /\ rule = BuildRule(fs[h], RuleOutcome(fs, given, fs[i].id))
<1> DEFINE new(k) == \A j \in 1..(k - 1) : fs[j].id # fs[k].id
           set == {k \in DOMAIN fs : new(k)}
           firsts == Listed(set, <)
           rules == [k \in DOMAIN firsts |->
                       BuildRule(fs[firsts[k]], RuleOutcome(fs, given, fs[firsts[k]].id))]
           index == CHOOSE k \in DOMAIN rules : rules[k].id = fs[i].id
           doc == BuildScanSARIF(fs, given)
<1>1. /\ doc.rules = rules /\ doc.results[i].rule = index
      /\ doc.results[i].level = SarifLevel(given[i])
  BY DEF BuildScanSARIF
<1>2. DOMAIN fs = 1..Len(fs) /\ Len(fs) \in Nat
  OBVIOUS
<1>3. set \in SUBSET (1..Len(fs)) /\ \A k \in set : new(k)
  BY <1>2
<1>4. PICK h \in set : fs[h].id = fs[i].id /\ h <= i
  <2> DEFINE same == {k \in DOMAIN fs : fs[k].id = fs[i].id}
  <2>1. same \in SUBSET Nat /\ i \in same
    BY <1>2
  <2>2. PICK k \in same : \A j \in same : k <= j
    BY <2>1, Picks!LeastNumber
  <2>3. \A j \in 1..(k - 1) : j \in DOMAIN fs /\ ~(k <= j)
    BY <1>2, <2>2
  <2>4. new(k)
    BY <2>2, <2>3
  <2> QED
    BY <2>1, <2>2, <2>4
<1> HIDE DEF doc
<1>5. Places(set, firsts)
  BY <1>2, <1>3, ListedPlaces
<1> HIDE DEF set
<1>6. PICK k \in DOMAIN firsts : firsts[k] = h
  BY <1>5 DEF Places
<1> HIDE DEF firsts
<1>7. \A n \in DOMAIN firsts : rules[n].id = fs[firsts[n]].id
  BY DEF BuildRule
<1>8. index \in DOMAIN firsts /\ rules[index].id = fs[i].id
  BY <1>4, <1>6, <1>7
<1>9. /\ firsts[index] \in set /\ fs[firsts[index]].id = fs[i].id
      /\ rules[index] = BuildRule(fs[firsts[index]], RuleOutcome(fs, given, fs[i].id))
  BY <1>5, <1>7, <1>8 DEF Places
<1>10. PICK g \in set : /\ fs[g].id = fs[i].id
                        /\ rules[index] = BuildRule(fs[g], RuleOutcome(fs, given, fs[i].id))
  BY <1>9
<1>11. g \in 1..i /\ g \in DOMAIN fs
  <2>1. new(g) /\ g \in 1..Len(fs) /\ i \in 1..Len(fs)
    BY <1>2, <1>3
  <2>2. ~(i \in 1..(g - 1))
    BY <1>10, <2>1
  <2> QED
    BY <1>2, <2>1, <2>2
<1> QED
  BY <1>1, <1>10, <1>11 DEF doc

(* The outcome of a rule is that of one of its findings, and of the most   *)
(* serious of them.                                                        *)
LEMMA OutcomeIsMost ==
  ASSUME NEW fs \in Seq(Finding), NEW given \in [DOMAIN fs -> Answers],
         NEW i \in DOMAIN fs
  PROVE  LET o == RuleOutcome(fs, given, fs[i].id)
         IN  /\ o \in 0..2 /\ o >= ResultOutcome(given[i])
             /\ \E j \in DOMAIN fs : fs[j].id = fs[i].id /\ o = ResultOutcome(given[j])
<1> DEFINE same == {j \in DOMAIN fs : fs[j].id = fs[i].id}
           all == {ResultOutcome(given[j]) : j \in same}
           o == RuleOutcome(fs, given, fs[i].id)
<1>1. \A j \in DOMAIN fs : ResultOutcome(given[j]) \in 0..2
  BY DEF ResultOutcome, notReachable, needsReview, reachable
<1>2. o = Max(all)
  BY DEF RuleOutcome
<1>3. all \subseteq 0..2 /\ ResultOutcome(given[i]) \in all
  BY <1>1
<1>4. \A x \in all : \E j \in DOMAIN fs : fs[j].id = fs[i].id /\ x = ResultOutcome(given[j])
  OBVIOUS
<1> HIDE DEF o, all
<1>5. \E x \in all : \A y \in all : x >= y
  <2>1. CASE 2 \in all
    BY <1>3, <2>1
  <2>2. CASE 2 \notin all /\ 1 \in all
    BY <1>3, <2>2
  <2>3. CASE 2 \notin all /\ 1 \notin all
    <3>1. \A y \in all : y = 0
      <4> SUFFICES ASSUME NEW y \in all PROVE y = 0
        OBVIOUS
      <4>1. y \in 0..2 /\ y # 1 /\ y # 2
        BY <1>3, <2>3
      <4> QED
        BY <4>1
    <3>2. 0 \in all
      BY <1>3, <3>1
    <3> QED
      BY <3>1, <3>2
  <2> QED
    BY <2>1, <2>2, <2>3
<1>6. o \in all /\ \A y \in all : o >= y
  BY <1>2, <1>5 DEF Max
<1> QED
  BY <1>3, <1>4, <1>6 DEF o

(* Of two findings of one id the better ranked is rated in no lower a      *)
(* band, if scores go with severities.                                     *)
LEMMA RatedByRank ==
  ASSUME NEW h \in Finding, NEW f \in Finding, h.id = f.id, ~Better(f, h),
         h.score > 0 => h.severity = ScoreToSeverity(h.score),
         f.score > 0 => f.severity = ScoreToSeverity(f.score),
         NEW o \in 1..2
  PROVE  Band(SecuritySeverity(h, o)) >= Band(SecuritySeverity(f, needsReview))
<1>1. /\ h.severity \in 0..3 /\ f.severity \in 0..3 /\ h.score \in Nat /\ f.score \in Nat
  BY ScoresAreNumbers DEF Finding, Severities
<1>2. h.severity > f.severity \/ (h.severity = f.severity /\ h.score >= f.score)
  BY <1>1 DEF Better
<1>3. o # notReachable /\ needsReview # notReachable
  BY DEF notReachable, needsReview
<1>4. \A g \in {f, h}, q \in {o, needsReview} :
        Band(SecuritySeverity(g, q)) = IF g.severity = 1 THEN 2 ELSE g.severity
  <2> SUFFICES ASSUME NEW g \in {f, h}, NEW q \in {o, needsReview}
               PROVE  Band(SecuritySeverity(g, q)) = IF g.severity = 1 THEN 2 ELSE g.severity
    OBVIOUS
  <2>1. g.severity \in 0..3 /\ g.score \in Nat /\ q # notReachable
    BY <1>1, <1>3
  <2>2. CASE g.score > 0
    <3>1. SecuritySeverity(g, q) = 2 * g.score
      BY <2>1, <2>2 DEF SecuritySeverity
    <3>2. g.severity = IF g.score = 1 THEN 2 ELSE 3
      BY <2>1, <2>2 DEF ScoreToSeverity
    <3> QED
      BY <2>1, <2>2, <3>1, <3>2 DEF Band
  <2>3. CASE g.score = 0
    <3>1. SecuritySeverity(g, q) = IF g.severity = 3 THEN 5
                                   ELSE IF g.severity \in {1, 2} THEN 3 ELSE 0
      BY <2>1, <2>3 DEF SecuritySeverity
    <3>2. Band(5) = 3 /\ Band(3) = 2 /\ Band(0) = 0
      BY DEF Band
    <3> QED
      BY <2>1, <3>1, <3>2
  <2> QED
    BY <2>1, <2>2, <2>3
<1> QED
  BY <1>1, <1>2, <1>4

(* sarif.go:240: a rule shared by several findings is rated in the band of *)
(* the most serious of them, whatever became of the sessions.              *)
THEOREM AlertsAreSeen == Spec => []AlertsStandOut
<1>1. SelectInv => AlertsStandOut
  <2> SUFFICES ASSUME SelectInv, stage = "told", NEW i \in DOMAIN list
               PROVE
                 LET result == Document.results[i]
                     rule   == Document.rules[result.rule]
                 IN  /\ rule.id = list[i].id
                     /\ answers[i] # "no" =>
                          /\ result.level # "note" /\ rule.level # "note"
                          /\ ScoresFit(rule.id) =>
                               Band(rule.severity) >= Band(SecuritySeverity(list[i], needsReview))
                     /\ (\A j \in DOMAIN list : list[j].id = rule.id => answers[j] = "no") =>
                          rule.level = "note" /\ rule.severity = notReachableSeverity
    BY DEF AlertsStandOut
  <2> DEFINE result == Document.results[i]
             rule   == Document.rules[result.rule]
             o      == RuleOutcome(list, answers, list[i].id)
  <2>1. /\ list \in Seq(Finding) /\ Ordered(list) /\ answers \in [DOMAIN list -> Answers]
        /\ DOMAIN list = 1..Len(list) /\ Len(list) \in Nat
        /\ \A j \in DOMAIN list : list[j] \in Finding /\ list[j] \in Range(list)
    BY ListTypes DEF SelectInv, ListInv, Range
  <2>2. result.level = SarifLevel(answers[i])
    BY <2>1, RuleOfResult DEF Document
  <2>3. PICK h \in 1..i : list[h].id = list[i].id /\ h \in DOMAIN list
                          /\ rule = BuildRule(list[h], o)
    BY <2>1, RuleOfResult DEF Document
  <2>4. /\ o \in 0..2 /\ o >= ResultOutcome(answers[i])
        /\ \E j \in DOMAIN list : list[j].id = list[i].id /\ o = ResultOutcome(answers[j])
    BY <2>1, OutcomeIsMost
  <2> HIDE DEF o, rule, result
  <2>5. /\ rule.id = list[i].id /\ rule.level = RuleDefaultLevel(o)
        /\ rule.severity = SecuritySeverity(list[h], o)
    BY <2>3 DEF BuildRule
  <2>6. ASSUME answers[i] # "no"
        PROVE  /\ result.level # "note" /\ rule.level # "note"
               /\ ScoresFit(rule.id) =>
                    Band(rule.severity) >= Band(SecuritySeverity(list[i], needsReview))
    <3>1. ResultOutcome(answers[i]) \in {1, 2}
      BY <2>6 DEF ResultOutcome, reachable, needsReview
    <3>2. o \in 1..2
      BY <2>4, <3>1
    <3>3. result.level # "note" /\ rule.level # "note"
      BY <2>2, <2>5, <2>6, <3>2 DEF SarifLevel, RuleDefaultLevel, notReachable
    <3>4. ~Better(list[i], list[h])
      <4>1. CASE h = i
        BY <2>1, <4>1, BetterOrders
      <4>2. CASE h # i
        <5>1. h < i
          BY <2>1, <4>2
        <5> QED
          BY <2>1, <2>3, <5>1 DEF Ordered
      <4> QED
        BY <4>1, <4>2
    <3>5. ASSUME ScoresFit(rule.id)
          PROVE  Band(rule.severity) >= Band(SecuritySeverity(list[i], needsReview))
      <4>1. /\ list[h].score > 0 => list[h].severity = ScoreToSeverity(list[h].score)
            /\ list[i].score > 0 => list[i].severity = ScoreToSeverity(list[i].score)
        BY <2>1, <2>3, <2>5, <3>5 DEF ScoresFit
      <4> QED
        BY <2>1, <2>3, <2>5, <3>2, <3>4, <4>1, RatedByRank
    <3> QED
      BY <3>3, <3>5
  <2>7. ASSUME \A j \in DOMAIN list : list[j].id = rule.id => answers[j] = "no"
        PROVE  rule.level = "note" /\ rule.severity = notReachableSeverity
    <3>1. o = notReachable
      BY <2>4, <2>5, <2>7 DEF ResultOutcome
    <3> QED
      BY <2>5, <3>1 DEF RuleDefaultLevel, SecuritySeverity
  <2> QED
    BY <2>5, <2>6, <2>7 DEF rule, result
<1> QED
  BY <1>1, SelectInvariant, PTL
=============================================================================
