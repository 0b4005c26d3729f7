----------------------------- MODULE ListFacts ------------------------------
(***************************************************************************)
(* Facts about lists that the proofs of several modules need: induction    *)
(* over the natural numbers, and what a fold computes step by step.        *)
(*                                                                         *)
(* The library states induction for a predicate parameter, which no prover *)
(* here can instantiate; a set does as well.  Op is the step of a fold;    *)
(* an INSTANCE of this module says which.                                  *)
(***************************************************************************)
EXTENDS SequencesExt, FiniteSetTheorems, TLAPS

CONSTANT Op(_, _)

Less == {p \in Nat \X Nat : p[1] < p[2]}

LEMMA LessIsWellFounded == IsWellFoundedOn(Less, Nat)
<1>1. OpToRel(<, Nat) = Less
  BY DEF OpToRel, Less
<1> QED
  BY <1>1, NatLessThanWellFounded

(* A set of numbers that is not empty has a least one.                     *)
THEOREM LeastNumber ==
  ASSUME NEW U, U \subseteq Nat, U # {}
  PROVE  \E n \in U : \A m \in U : n <= m
<1>1. PICK n \in U : \A m \in U : ~ (<<m, n>> \in Less)
  BY WFMin, LessIsWellFounded
<1>2. ASSUME NEW m \in U PROVE n <= m
  <2>1. m \in Nat /\ n \in Nat
    OBVIOUS
  <2>2. ~ (m < n)
    BY <1>1, <2>1 DEF Less
  <2> QED
    BY <2>1, <2>2
<1> QED
  BY <1>2

(* A set that has 0, and with every number the next one, has all of them:  *)
(* otherwise there would be a least one that it lacks.                     *)
THEOREM SetInduction ==
  ASSUME NEW T, 0 \in T, \A n \in Nat : n \in T => n + 1 \in T
  PROVE  Nat \subseteq T
<1> SUFFICES ASSUME Nat \ T # {} PROVE FALSE
  OBVIOUS
<1>1. PICK n \in Nat \ T : \A m \in Nat \ T : n <= m
  BY LeastNumber
<1>2. n - 1 \in Nat /\ ~(n <= n - 1)
  BY <1>1
<1>3. n - 1 \in T /\ (n - 1) + 1 = n
  BY <1>1, <1>2
<1> QED
  BY <1>1, <1>2, <1>3

-----------------------------------------------------------------------------
LEMMA MaxIs ==
  ASSUME NEW t \in SUBSET Nat, NEW x \in t, \A y \in t : y <= x
  PROVE  Max(t) = x
<1>1. x \in Nat /\ \A y \in t : y \in Nat /\ x >= y
  OBVIOUS
<1>2. \A z \in t : (\A y \in t : z >= y) <=> z = x
  BY <1>1
<1>3. Max(t) = CHOOSE z \in t : z = x
  <2>1. \A z : (z \in t /\ \A y \in t : z >= y) <=> (z \in t /\ z = x)
    BY <1>2
  <2> QED
    BY <2>1, Zenon DEF Max
<1> QED
  BY <1>3

(* The recursive function a fold is defined by, on the indices up to n.    *)
Folds(g, base, s, n) ==
  g = [t \in SUBSET (1..n) |->
         IF t = {} THEN base ELSE Op(g[t \ {Max(t)}], s[Max(t)])]

(* It exists, for any list: the recursion is on a smaller set of indices.  *)
LEMMA FoldExists ==
  ASSUME NEW base, NEW s, NEW n \in Nat
  PROVE  \E g : Folds(g, base, s, n)
<1> DEFINE T == {m \in Nat : \E g : Folds(g, base, s, m)}
<1>1. 0 \in T
  <2> DEFINE g == [t \in SUBSET (1..0) |-> base]
  <2>1. SUBSET (1..0) = {{}}
    OBVIOUS
  <2>2. Folds(g, base, s, 0)
    BY <2>1 DEF Folds
  <2> QED
    BY <2>2
<1>2. ASSUME NEW m \in Nat, m \in T PROVE m + 1 \in T
  <2>1. PICK g : Folds(g, base, s, m)
    BY <1>2
  <2> DEFINE D == SUBSET (1..(m + 1))
             h == [t \in D |-> IF m + 1 \in t THEN Op(g[t \ {m + 1}], s[m + 1])
                               ELSE g[t]]
             k == [t \in D |-> IF t = {} THEN base
                               ELSE Op(h[t \ {Max(t)}], s[Max(t)])]
  <2>2. \A t \in SUBSET (1..m) : h[t] = g[t]
    OBVIOUS
  <2>3. ASSUME NEW t \in D PROVE h[t] = k[t]
    <3>1. CASE m + 1 \in t
      <4>1. Max(t) = m + 1
        <5>1. t \in SUBSET Nat /\ \A i \in t : i <= m + 1
          OBVIOUS
        <5> QED
          BY <3>1, <5>1, MaxIs
      <4>2. t \ {m + 1} \in SUBSET (1..m)
        OBVIOUS
      <4>3. h[t \ {m + 1}] = g[t \ {m + 1}]
        BY <2>2, <4>2
      <4> QED
        BY <3>1, <4>1, <4>3
    <3>2. CASE m + 1 \notin t
      <4>1. t \in SUBSET (1..m) /\ t \ {Max(t)} \in SUBSET (1..m)
        <5>1. \A i \in t : i \in 1..(m + 1) /\ i # m + 1
          BY <3>2
        <5>2. \A i \in t : i \in 1..m
          BY <5>1
        <5> QED
          BY <5>2
      <4>2. h[t \ {Max(t)}] = g[t \ {Max(t)}] /\ h[t] = g[t]
        BY <2>2, <4>1
      <4>4. t \in D
        OBVIOUS
      <4>3. g[t] = IF t = {} THEN base ELSE Op(g[t \ {Max(t)}], s[Max(t)])
        BY <2>1, <4>1 DEF Folds
      <4> QED
        BY <4>2, <4>3
    <3> QED
      BY <3>1, <3>2
  <2>4. h = k
    <3> HIDE DEF D
    <3>1. \A t \in D : h[t] = k[t]
      BY <2>3
    <3>2. h = [t \in D |-> h[t]] /\ k = [t \in D |-> k[t]]
      OBVIOUS
    <3> HIDE DEF h, k
    <3> QED
      BY <3>1, <3>2
  <2>5. Folds(h, base, s, m + 1)
    BY <2>4 DEF Folds, D
  <2> QED
    BY <2>5
<1> HIDE DEF T
<1>3. n \in T
  BY <1>1, <1>2, SetInduction
<1> QED
  BY <1>3 DEF T

(* w is the way of a fold from base through s, one step per element.       *)
Walk(w, base, s) ==
  /\ w[0] = base
  /\ \A k \in 1..Len(s) : w[k] = Op(w[k - 1], s[k])

(* FoldLeft is what a walk comes to.                                       *)
THEOREM FoldWalk ==
  ASSUME NEW base, NEW S, NEW s \in Seq(S)
  PROVE  \E w : Walk(w, base, s) /\ w[Len(s)] = FoldLeft(Op, base, s)
<1> DEFINE n == Len(s)
           g == CHOOSE g : Folds(g, base, s, n)
           w == [k \in 0..n |-> g[1..k]]
<1>1. n \in Nat /\ DOMAIN s = 1..n
  OBVIOUS
<1> HIDE DEF n
<1>2. Folds(g, base, s, n)
  BY <1>1, FoldExists
<1>3. FoldLeft(Op, base, s) = g[DOMAIN s]
  BY <1>1 DEF FoldLeft, MapThenFoldSet, Folds
<1>4. w[0] = base
  <2>1. 1..0 = {} /\ {} \in SUBSET (1..n) /\ 0 \in 0..n
    BY <1>1
  <2> QED
    BY <1>2, <2>1 DEF Folds
<1>5. ASSUME NEW k \in 1..n PROVE w[k] = Op(w[k - 1], s[k])
  <2>1. 1..k \in SUBSET (1..n) /\ 1..k # {} /\ k \in 0..n /\ k - 1 \in 0..n
    BY <1>1
  <2>2. Max(1..k) = k
    BY <1>1 DEF Max
  <2>3. (1..k) \ {k} = 1..(k - 1)
    BY <1>1
  <2> QED
    BY <1>2, <2>1, <2>2, <2>3 DEF Folds
<1>6. w[n] = g[DOMAIN s]
  BY <1>1
<1> HIDE DEF w
<1> QED
  BY <1>3, <1>4, <1>5, <1>6 DEF Walk, n

(* There is but one.                                                       *)
THEOREM WalkIsUnique ==
  ASSUME NEW base, NEW S, NEW s \in Seq(S),
         NEW w, Walk(w, base, s), NEW v, Walk(v, base, s)
  PROVE  \A k \in 0..Len(s) : w[k] = v[k]
<1> DEFINE T == {k \in Nat : k \in 0..Len(s) => w[k] = v[k]}
<1>1. 0 \in T
  BY DEF Walk
<1>2. ASSUME NEW k \in Nat, k \in T PROVE k + 1 \in T
  <2> SUFFICES ASSUME k + 1 \in 0..Len(s) PROVE w[k + 1] = v[k + 1]
    OBVIOUS
  <2>1. k + 1 \in 1..Len(s) /\ k \in 0..Len(s) /\ (k + 1) - 1 = k
    OBVIOUS
  <2>2. w[k] = v[k]
    BY <1>2, <2>1
  <2> QED
    BY <2>1, <2>2 DEF Walk
<1> HIDE DEF T
<1>3. Nat \subseteq T
  BY <1>1, <1>2, SetInduction
<1> QED
  BY <1>3 DEF T
=============================================================================
