---------------------------- MODULE Ledger_proofs ----------------------------
(***************************************************************************)
(* Facts about ledgers and sums that the proofs of every contract use.     *)
(* What a sum over a finite set does when the function changes at a point  *)
(* is shown by least counterexample: the subsets of a finite set are well  *)
(* founded under strict inclusion (FS_StrictSubsetOrderingWellFounded), so *)
(* a non-empty set of counterexamples has a minimal element.               *)
(***************************************************************************)
EXTENDS Ledger, Sums, FiniteSetTheorems, WellFoundedInduction, TLAPS

(* A non-empty set of naturals has a least element. *)
LEMMA LeastNatural ==
  ASSUME NEW B, B \subseteq Nat, B # {}
  PROVE  \E m \in B : \A k \in B : ~ (k < m)
<1>1. PICK m \in B : \A k \in B : ~ (<<k, m>> \in OpToRel(<, Nat))
  BY NatLessThanWellFounded, WFMin
<1>2. \A k \in B : k < m => <<k, m>> \in OpToRel(<, Nat)
  BY DEF OpToRel
<1> QED
  BY <1>1, <1>2

(* The recursive function of SumFcn exists: it satisfies its equation. *)
IsPartialSum(s, f, D) ==
  s = [T \in D |-> IF T = {} THEN 0
                   ELSE LET x == CHOOSE x \in T : TRUE IN f[x] + s[T \ {x}]]

LEMMA ChosenElement ==
  ASSUME NEW T, T # {}
  PROVE  (CHOOSE x \in T : TRUE) \in T
OBVIOUS

LEMMA SumFcnIsPartialSum ==
  ASSUME NEW U, IsFiniteSet(U), NEW f, f \in [U -> Int]
  PROVE  IsPartialSum(SumFcn(f, U), f, SUBSET U)
<1> DEFINE Upto(n) == {T \in SUBSET U : Cardinality(T) <= n}
           Bad == {n \in Nat : ~ \E s : IsPartialSum(s, f, Upto(n))}
           el(T) == CHOOSE x \in T : TRUE
<1>0. \A T \in SUBSET U : IsFiniteSet(T) /\ Cardinality(T) \in Nat /\ Cardinality(T) <= Cardinality(U)
  BY FS_Subset, FS_CardinalityType
<1>1. ASSUME NEW m \in Bad, \A k \in Bad : ~ (k < m)
      PROVE  FALSE
  <2>1. CASE m = 0
    <3>1. Upto(0) \subseteq {{}}
      BY <1>0, FS_EmptySet
    <3>2. IsPartialSum([T \in Upto(0) |-> 0], f, Upto(0))
      BY <3>1 DEF IsPartialSum
    <3> QED
      BY <2>1, <3>2
  <2>2. CASE m # 0
    <3>1. m - 1 \in Nat /\ m - 1 < m
      BY <2>2
    <3>2. PICK s : IsPartialSum(s, f, Upto(m - 1))
      BY <3>1, <1>1
    <3> DEFINE g == [T \in Upto(m) |-> IF T = {} THEN 0 ELSE f[el(T)] + s[T \ {el(T)}]]
    <3>3. ASSUME NEW T \in Upto(m), T # {}
          PROVE  T \ {el(T)} \in Upto(m - 1) /\ T \ {el(T)} \in Upto(m)
      <4>1. el(T) \in T
        BY <3>3
      <4>2. Cardinality(T \ {el(T)}) = Cardinality(T) - 1
        BY <4>1, <1>0, FS_RemoveElement
      <4> QED
        BY <4>2, <3>1, <1>0
    <3>4. ASSUME NEW T \in Upto(m - 1) PROVE T \in Upto(m)
      BY <3>1, <1>0
    <3>5. ASSUME NEW T \in Upto(m - 1)
          PROVE  g[T] = s[T]
      <4>1. T \in Upto(m)
        BY <3>4, <3>5
      <4> QED
        BY <4>1, <3>2 DEF IsPartialSum
    <3>6. IsPartialSum(g, f, Upto(m))
      <4>1. ASSUME NEW T \in Upto(m)
            PROVE  g[T] = IF T = {} THEN 0 ELSE f[el(T)] + g[T \ {el(T)}]
        <5>1. CASE T = {}
          BY <5>1
        <5>2. CASE T # {}
          <6>1. g[T] = f[el(T)] + s[T \ {el(T)}]
            BY <5>2
          <6>2. g[T \ {el(T)}] = s[T \ {el(T)}]
            BY <5>2, <3>3, <3>5
          <6> QED
            BY <5>2, <6>1, <6>2
        <5> QED
          BY <5>1, <5>2
      <4>2. g = [T \in Upto(m) |-> g[T]]
        OBVIOUS
      <4> HIDE DEF g, Upto
      <4> QED
        BY <4>1, <4>2, Zenon DEF IsPartialSum
    <3> QED
      BY <3>6
  <2> QED
    BY <2>1, <2>2
<1>2. Bad = {}
  BY <1>1, LeastNatural
<1>3. Upto(Cardinality(U)) = SUBSET U
  BY <1>0
<1>4. \E s : IsPartialSum(s, f, SUBSET U)
  BY <1>2, <1>3, FS_CardinalityType
<1> QED
  BY <1>4 DEF SumFcn, IsPartialSum

(* The two equations of a sum: nothing for the empty set, one element      *)
(* split off otherwise.                                                    *)
LEMMA SumFcnEquation ==
  ASSUME NEW U, IsFiniteSet(U), NEW f, f \in [U -> Int]
  PROVE  /\ SumFcn(f, U)[{}] = 0
         /\ \A T \in SUBSET U : T # {} =>
              \E x \in T : /\ x = CHOOSE y \in T : TRUE
                          /\ SumFcn(f, U)[T] = f[x] + SumFcn(f, U)[T \ {x}]
<1> DEFINE s == SumFcn(f, U)
<1>1. s = [T \in SUBSET U |-> IF T = {} THEN 0
                   ELSE LET x == CHOOSE x \in T : TRUE IN f[x] + s[T \ {x}]]
  BY SumFcnIsPartialSum DEF IsPartialSum
<1> HIDE DEF s
<1>2. s[{}] = 0
  BY <1>1
<1>3. ASSUME NEW T \in SUBSET U, T # {}
      PROVE  \E x \in T : /\ x = CHOOSE y \in T : TRUE
                          /\ s[T] = f[x] + s[T \ {x}]
  <2> DEFINE el == CHOOSE y \in T : TRUE
  <2>1. el \in T
    BY <1>3
  <2>2. s[T] = f[el] + s[T \ {el}]
    BY <1>1, <1>3
  <2> QED
    BY <2>1, <2>2
<1> QED
  BY <1>2, <1>3 DEF s

(* A set of subsets of a finite set is empty when none of its members is   *)
(* minimal: what every induction below rests on.                           *)
LEMMA NoCounterexample ==
  ASSUME NEW U, IsFiniteSet(U), NEW B, B \subseteq SUBSET U,
         \A T \in B : \E V \in B : V \subseteq T /\ V # T
  PROVE  B = {}
<1> SUFFICES ASSUME B # {} PROVE FALSE
  OBVIOUS
<1>1. FiniteSubsetsOf(U) = SUBSET U
  BY FS_FiniteSubsetsOfFinite
<1>2. IsWellFoundedOn(StrictSubsetOrdering(U), SUBSET U)
  <2>1. IsWellFoundedOn(StrictSubsetOrdering(U), FiniteSubsetsOf(U))
    BY FS_StrictSubsetOrderingWellFounded
  <2> QED
    BY <1>1, <2>1
<1>3. PICK T \in B : \A V \in B : ~ (<<V, T>> \in StrictSubsetOrdering(U))
  BY <1>2, WFMin
<1>4. PICK V \in B : V \subseteq T /\ V # T
  OBVIOUS
<1>5. <<V, T>> \in StrictSubsetOrdering(U)
  BY <1>4 DEF StrictSubsetOrdering
<1> QED
  BY <1>3, <1>5

(* The sum of naturals is a natural, of integers an integer. *)
LEMMA SumFcnType ==
  ASSUME NEW U, IsFiniteSet(U), NEW D, D = Nat \/ D = Int, NEW f \in [U -> D]
  PROVE  \A T \in SUBSET U : SumFcn(f, U)[T] \in D
<1> DEFINE s == SumFcn(f, U)
           Bad == {T \in SUBSET U : s[T] \notin D}
<1>0. f \in [U -> Int]
  OBVIOUS
<1>1. /\ s[{}] = 0
      /\ \A T \in SUBSET U : T # {} => \E x \in T : s[T] = f[x] + s[T \ {x}]
  BY <1>0, SumFcnEquation
<1> HIDE DEF s
<1>2. ASSUME NEW T \in Bad, \A V \in Bad : V \subseteq T => V = T
      PROVE  FALSE
  <2>0. 0 \in D
    OBVIOUS
  <2>1. T # {}
    BY <1>1, <2>0
  <2>2. PICK x \in T : s[T] = f[x] + s[T \ {x}]
    BY <1>1, <2>1
  <2>3. s[T \ {x}] \in D
    BY <1>2
  <2>4. f[x] \in D
    OBVIOUS
  <2>5. s[T] \in D
    BY <2>2, <2>3, <2>4
  <2> QED
    BY <2>5
<1>3. Bad = {}
  <2>1. Bad \subseteq SUBSET U
    OBVIOUS
  <2>2. \A T \in Bad : \E V \in Bad : V \subseteq T /\ V # T
    BY <1>2
  <2> HIDE DEF Bad
  <2> QED
    BY <2>1, <2>2, NoCounterexample
<1> QED
  BY <1>3 DEF s

(* A change at one point moves the sum by the change. *)
THEOREM SumUpdate ==
  ASSUME NEW U, IsFiniteSet(U), NEW f \in [U -> Int], NEW g \in [U -> Int],
         NEW a \in U, \A x \in U \ {a} : g[x] = f[x]
  PROVE  SumOver(g, U) = SumOver(f, U) - f[a] + g[a]
<1> DEFINE s == SumFcn(f, U)
           t == SumFcn(g, U)
           shift(T) == IF a \in T THEN g[a] - f[a] ELSE 0
           Bad == {T \in SUBSET U : t[T] # s[T] + shift(T)}
<1>1. \A T \in SUBSET U : s[T] \in Int
  BY SumFcnType
<1>2. \A T \in SUBSET U : t[T] \in Int
  BY SumFcnType
<1>3. /\ s[{}] = 0
      /\ \A T \in SUBSET U : T # {} =>
           \E x \in T : x = (CHOOSE y \in T : TRUE) /\ s[T] = f[x] + s[T \ {x}]
  BY SumFcnEquation
<1>4. /\ t[{}] = 0
      /\ \A T \in SUBSET U : T # {} =>
           \E x \in T : x = (CHOOSE y \in T : TRUE) /\ t[T] = g[x] + t[T \ {x}]
  BY SumFcnEquation
<1> HIDE DEF s, t
<1>5. ASSUME NEW T \in Bad, \A V \in Bad : V \subseteq T => V = T
      PROVE  FALSE
  <2>0. shift({}) = 0
    OBVIOUS
  <2>1. T # {}
    BY <1>3, <1>4, <2>0, 0 + 0 = 0
  <2>2. PICK x \in T : x = (CHOOSE y \in T : TRUE) /\ s[T] = f[x] + s[T \ {x}]
    BY <1>3, <2>1
  <2>3. t[T] = g[x] + t[T \ {x}]
    BY <1>4, <2>1, <2>2
  <2>4. T \ {x} \in SUBSET U /\ T \in SUBSET U /\ x \in U
    OBVIOUS
  <2>5. t[T \ {x}] = s[T \ {x}] + shift(T \ {x})
    BY <1>5, <2>4
  <2>6. /\ s[T] \in Int /\ t[T] \in Int /\ f[x] \in Int /\ f[a] \in Int /\ g[a] \in Int
        /\ s[T \ {x}] \in Int /\ t[T \ {x}] \in Int
    BY <1>1, <1>2, <2>4
  <2>7. CASE x = a
    <3>1. shift(T \ {x}) = 0 /\ shift(T) = g[a] - f[a] /\ g[x] = g[a] /\ f[x] = f[a]
      BY <2>7
    <3> HIDE DEF shift
    <3>2. t[T] = s[T] + shift(T)
      BY <2>2, <2>3, <2>5, <2>6, <3>1
    <3> QED
      BY <3>2
  <2>8. CASE x # a
    <3>1. shift(T \ {x}) = shift(T) /\ shift(T) \in Int
      BY <2>8, <2>6
    <3>2. g[x] = f[x]
      BY <2>8, <2>4
    <3> HIDE DEF shift
    <3>3. t[T] = s[T] + shift(T)
      BY <2>2, <2>3, <2>5, <2>6, <3>1, <3>2
    <3> QED
      BY <3>3
  <2> QED
    BY <2>7, <2>8
<1>6. Bad = {}
  <2>1. Bad \subseteq SUBSET U
    OBVIOUS
  <2>2. \A T \in Bad : \E V \in Bad : V \subseteq T /\ V # T
    BY <1>5
  <2> HIDE DEF Bad
  <2> QED
    BY <2>1, <2>2, NoCounterexample
<1>7. t[U] = s[U] + (g[a] - f[a])
  BY <1>6
<1> QED
  BY <1>1, <1>7 DEF SumOver, s, t

(* A sum of naturals is a natural, of integers an integer. *)
THEOREM SumType ==
  ASSUME NEW U, IsFiniteSet(U), NEW D, D = Nat \/ D = Int, NEW f \in [U -> D]
  PROVE  SumOver(f, U) \in D
BY SumFcnType DEF SumOver

(* The sum of naturals is at least each of them. *)
THEOREM SumBoundsPoint ==
  ASSUME NEW U, IsFiniteSet(U), NEW f \in [U -> Nat], NEW a \in U
  PROVE  f[a] <= SumOver(f, U)
<1> DEFINE g == [f EXCEPT ![a] = 0]
<1>1. /\ f \in [U -> Int] /\ g \in [U -> Int] /\ g \in [U -> Nat]
      /\ g[a] = 0 /\ \A x \in U \ {a} : g[x] = f[x]
  OBVIOUS
<1> HIDE DEF g
<1>2. SumOver(g, U) = SumOver(f, U) - f[a] + g[a]
  BY <1>1, SumUpdate
<1>3. SumOver(g, U) \in Nat /\ SumOver(f, U) \in Nat /\ f[a] \in Nat
  BY <1>1, SumType
<1> QED
  BY <1>1, <1>2, <1>3

(* An amount moved between two points leaves the sum alone. *)
THEOREM SumTransfer ==
  ASSUME NEW U, IsFiniteSet(U), NEW f \in [U -> Int], NEW g \in [U -> Int],
         NEW a \in U, NEW b \in U, a # b,
         g[a] + g[b] = f[a] + f[b],
         \A x \in U \ {a, b} : g[x] = f[x]
  PROVE  SumOver(g, U) = SumOver(f, U)
<1> DEFINE h == [f EXCEPT ![a] = g[a]]
<1>1. /\ h \in [U -> Int] /\ h[a] = g[a] /\ h[b] = f[b]
      /\ \A x \in U \ {a} : h[x] = f[x]
      /\ \A x \in U \ {b} : g[x] = h[x]
  OBVIOUS
<1> HIDE DEF h
<1>2. SumOver(h, U) = SumOver(f, U) - f[a] + h[a]
  BY <1>1, SumUpdate
<1>3. SumOver(g, U) = SumOver(h, U) - h[b] + g[b]
  BY <1>1, SumUpdate
<1>4. SumOver(f, U) \in Int /\ SumOver(h, U) \in Int
  BY <1>1, SumType
<1> QED
  BY <1>1, <1>2, <1>3, <1>4

(* The sum of a function that is zero everywhere is zero. *)
THEOREM SumZero ==
  ASSUME NEW U, IsFiniteSet(U), NEW f \in [U -> Int], \A x \in U : f[x] = 0
  PROVE  SumOver(f, U) = 0
<1> DEFINE s == SumFcn(f, U)
           Bad == {T \in SUBSET U : s[T] # 0}
<1>1. /\ s[{}] = 0
      /\ \A T \in SUBSET U : T # {} => \E x \in T : s[T] = f[x] + s[T \ {x}]
  BY SumFcnEquation
<1> HIDE DEF s
<1>2. ASSUME NEW T \in Bad, \A V \in Bad : V \subseteq T => V = T
      PROVE  FALSE
  <2>1. T # {}
    BY <1>1
  <2>2. PICK x \in T : s[T] = f[x] + s[T \ {x}]
    BY <1>1, <2>1
  <2>3. s[T \ {x}] = 0
    BY <1>2
  <2>4. f[x] = 0
    OBVIOUS
  <2> QED
    BY <2>2, <2>3, <2>4
<1>3. Bad = {}
  <2>1. Bad \subseteq SUBSET U
    OBVIOUS
  <2>2. \A T \in Bad : \E V \in Bad : V \subseteq T /\ V # T
    BY <1>2
  <2> HIDE DEF Bad
  <2> QED
    BY <2>1, <2>2, NoCounterexample
<1> QED
  BY <1>3 DEF SumOver, s

(* The sum of a function that exceeds another by at most k, at the points  *)
(* of S only, exceeds its sum by at most k for each of them.               *)
THEOREM SumRaised ==
  ASSUME NEW U, IsFiniteSet(U), NEW f \in [U -> Int], NEW g \in [U -> Int],
         NEW S, S \subseteq U, NEW k \in Nat,
         \A x \in U : g[x] <= f[x] + (IF x \in S THEN k ELSE 0)
  PROVE  SumOver(g, U) <= SumOver(f, U) + k * Cardinality(S)
<1> DEFINE s == SumFcn(f, U)
           t == SumFcn(g, U)
           n(T) == Cardinality(T \cap S)
           Bad == {T \in SUBSET U : ~(t[T] <= s[T] + k * n(T))}
<1>1. \A T \in SUBSET U : s[T] \in Int
  BY SumFcnType
<1>2. \A T \in SUBSET U : t[T] \in Int
  BY SumFcnType
<1>3. /\ s[{}] = 0
      /\ \A T \in SUBSET U : T # {} =>
           \E x \in T : x = (CHOOSE y \in T : TRUE) /\ s[T] = f[x] + s[T \ {x}]
  BY SumFcnEquation
<1>4. /\ t[{}] = 0
      /\ \A T \in SUBSET U : T # {} =>
           \E x \in T : x = (CHOOSE y \in T : TRUE) /\ t[T] = g[x] + t[T \ {x}]
  BY SumFcnEquation
<1>5. \A T \in SUBSET U : IsFiniteSet(T \cap S) /\ n(T) \in Nat
  <2>1. \A T \in SUBSET U : T \cap S \in SUBSET U
    OBVIOUS
  <2> QED
    BY <2>1, FS_Subset, FS_CardinalityType
<1> HIDE DEF s, t
<1>6. ASSUME NEW T \in Bad, \A V \in Bad : V \subseteq T => V = T
      PROVE  FALSE
  <2>1. T # {}
    <3>1. n({}) = 0
      BY FS_EmptySet
    <3>2. k * 0 = 0 /\ 0 <= 0 + 0
      OBVIOUS
    <3> DEFINE a == k * n({})
    <3>3. a = 0
      BY <3>1, <3>2
    <3>4. ~(t[T] <= s[T] + k * n(T))
      OBVIOUS
    <3> HIDE DEF n, Bad
    <3>5. T = {} => t[{}] <= s[{}] + a
      BY <1>3, <1>4, <3>2, <3>3
    <3> QED
      BY <3>4, <3>5 DEF a
  <2>2. PICK x \in T : x = (CHOOSE y \in T : TRUE) /\ s[T] = f[x] + s[T \ {x}]
    BY <1>3, <2>1
  <2>3. t[T] = g[x] + t[T \ {x}]
    BY <1>4, <2>1, <2>2
  <2>4. T \ {x} \in SUBSET U /\ T \in SUBSET U /\ x \in U
    OBVIOUS
  <2>5. t[T \ {x}] <= s[T \ {x}] + k * n(T \ {x})
    BY <1>6, <2>4
  <2>6. /\ s[T] \in Int /\ t[T] \in Int /\ f[x] \in Int /\ g[x] \in Int
        /\ s[T \ {x}] \in Int /\ t[T \ {x}] \in Int
        /\ n(T) \in Nat /\ n(T \ {x}) \in Nat
    BY <1>1, <1>2, <1>5, <2>4
  <2>7. ~(t[T] <= s[T] + k * n(T))
    OBVIOUS
  <2>8. g[x] <= f[x] + (IF x \in S THEN k ELSE 0)
    BY <2>4
  <2>9. CASE x \in S
    <3>1. (T \ {x}) \cap S = (T \cap S) \ {x} /\ x \in T \cap S
      BY <2>9
    <3>2. n(T \ {x}) = n(T) - 1
      <4> DEFINE V == T \cap S
      <4>1. IsFiniteSet(V) /\ x \in V /\ (T \ {x}) \cap S = V \ {x}
        BY <1>5, <2>4, <3>1
      <4> HIDE DEF V
      <4>2. Cardinality(V \ {x}) = Cardinality(V) - 1
        BY <4>1, FS_RemoveElement
      <4> QED
        BY <4>1, <4>2 DEF V
    <3>3. g[x] <= f[x] + k
      BY <2>8, <2>9
    <3> HIDE DEF n
    <3>4. k * n(T) = k * n(T \ {x}) + k /\ k * n(T) \in Int /\ k * n(T \ {x}) \in Int
      BY <2>6, <3>2
    <3> DEFINE a == k * n(T)
               c == k * n(T \ {x})
    <3>5. /\ a = c + k /\ a \in Int /\ c \in Int
          /\ t[T \ {x}] <= s[T \ {x}] + c /\ ~(t[T] <= s[T] + a)
      BY <2>5, <2>7, <3>4
    <3> HIDE DEF a, c
    <3> QED
      BY <2>2, <2>3, <2>6, <3>3, <3>5
  <2>10. CASE x \notin S
    <3>1. (T \ {x}) \cap S = T \cap S
      BY <2>10
    <3>2. g[x] <= f[x]
      BY <2>6, <2>8, <2>10
    <3> DEFINE a == k * n(T)
    <3>3. n(T \ {x}) = n(T)
      BY <3>1
    <3>4. t[T \ {x}] <= s[T \ {x}] + a
      BY <2>5, <3>3, Zenon
    <3>5. a \in Int /\ ~(t[T] <= s[T] + a)
      <4> HIDE DEF n
      <4> QED
        BY <2>6, <2>7
    <3> HIDE DEF a
    <3> QED
      BY <2>2, <2>3, <2>6, <3>2, <3>4, <3>5
  <2> QED
    BY <2>9, <2>10
<1>7. Bad = {}
  <2>1. Bad \subseteq SUBSET U
    OBVIOUS
  <2>2. \A T \in Bad : \E V \in Bad : V \subseteq T /\ V # T
    BY <1>6
  <2> HIDE DEF Bad
  <2> QED
    BY <2>1, <2>2, NoCounterexample
<1>8. U \cap S = S
  OBVIOUS
<1>9. t[U] <= s[U] + k * n(U)
  BY <1>7
<1> QED
  BY <1>8, <1>9 DEF SumOver, s, t

(* One entry of a mapping of naturals is written.                          *)
SameBut(f, g, u, U) == \A x \in U : x # u => g[x] = f[x]

LEMMA PointWrite ==
  ASSUME NEW U, IsFiniteSet(U), NEW f \in [U -> Nat], NEW g \in [U -> Nat],
         NEW u \in U, SameBut(f, g, u, U)
  PROVE  /\ SumOver(f, U) \in Nat /\ SumOver(g, U) \in Nat
         /\ SumOver(g, U) = SumOver(f, U) - f[u] + g[u]
<1>2. f \in [U -> Int] /\ g \in [U -> Int] /\ \A x \in U \ {u} : g[x] = f[x]
  BY DEF SameBut
<1>3. SumOver(g, U) = SumOver(f, U) - f[u] + g[u]
  BY <1>2, SumUpdate
<1>4. SumOver(f, U) \in Nat /\ SumOver(g, U) \in Nat
  BY SumType
<1> QED
  BY <1>3, <1>4

-----------------------------------------------------------------------------
(* A payment that can be made leaves a ledger, and tells what it changes.  *)
LEMMA MovedFacts ==
  ASSUME NEW A, NEW bal \in [A -> Nat], NEW from \in A, NEW to \in A,
         NEW v \in Nat, CanPay(bal, from, v)
  PROVE  /\ Moved(bal, from, to, v) \in [A -> Nat]
         /\ from # to => /\ Moved(bal, from, to, v)[from] = bal[from] - v
                         /\ Moved(bal, from, to, v)[to] = bal[to] + v
         /\ from = to => Moved(bal, from, to, v)[to] = bal[to]
         /\ \A a \in A : a # from /\ a # to => Moved(bal, from, to, v)[a] = bal[a]
<1> DEFINE debited == [bal EXCEPT ![from] = @ - v]
<1>1. /\ debited \in [A -> Nat] /\ debited[from] = bal[from] - v
      /\ \A a \in A : a # from => debited[a] = bal[a]
  BY DEF CanPay
<1>2. Moved(bal, from, to, v) = [debited EXCEPT ![to] = @ + v]
  BY DEF Moved
<1> HIDE DEF debited
<1> QED
  BY <1>1, <1>2

(* Payments by some accounts leave a ledger and cost no other account.     *)
LEMMA LedgerStepsFacts ==
  ASSUME NEW A, NEW bal \in [A -> Nat], NEW S, S \subseteq A,
         NEW new \in LedgerSteps(bal, S)
  PROVE  /\ new \in [A -> Nat]
         /\ \A a \in A \ S : new[a] >= bal[a]
<1>1. CASE new = bal
  BY <1>1
<1>2. CASE new # bal
  <2>0. PICK m \in S \X DOMAIN bal : \E v \in 0..bal[m[1]] : new = Moved(bal, m[1], m[2], v)
    BY <1>2 DEF LedgerSteps
  <2> DEFINE from == m[1]
             to == m[2]
  <2>1. PICK v \in 0..bal[from] : new = Moved(bal, from, to, v)
    BY <2>0
  <2>2. from \in A /\ to \in A /\ from \in S
    BY <2>0
  <2> HIDE DEF from, to
  <2>3. v \in Nat /\ CanPay(bal, from, v)
    BY <2>1, <2>2 DEF CanPay
  <2> QED
    BY <2>1, <2>2, <2>3, MovedFacts
<1> QED
  BY <1>1, <1>2

(* A payment is a step of the ledger for any set that has the payer.       *)
LEMMA MovedIsStep ==
  ASSUME NEW A, NEW bal \in [A -> Nat], NEW S, S \subseteq A, NEW from \in S,
         NEW to \in A, NEW v \in Nat, CanPay(bal, from, v)
  PROVE  Moved(bal, from, to, v) \in LedgerSteps(bal, S)
<1>1. v \in 0..bal[from] /\ DOMAIN bal = A /\ <<from, to>> \in S \X DOMAIN bal
  BY DEF CanPay
<1> DEFINE m == <<from, to>>
<1>2. m[1] = from /\ m[2] = to
  OBVIOUS
<1>3. Moved(bal, from, to, v) \in {Moved(bal, m[1], m[2], w) : w \in 0..bal[m[1]]}
  BY <1>1, <1>2
<1> QED
  BY <1>1, <1>3 DEF LedgerSteps
-----------------------------------------------------------------------------
(* Arithmetic of products: order is kept, and can be read off them.        *)
LEMMA ProductOrder ==
  ASSUME NEW a \in Int, NEW b \in Int, NEW c \in Nat, a <= b
  PROVE  a * c <= b * c /\ c * a <= c * b
<1>1. b * c = a * c + (b - a) * c /\ c * b = c * a + c * (b - a)
  OBVIOUS
<1>2. (b - a) * c >= 0 /\ c * (b - a) >= 0
  <2>1. b - a \in Nat
    OBVIOUS
  <2>2. \A x, y \in Nat : x * y \in Nat
    OBVIOUS
  <2>3. (b - a) * c \in Nat /\ c * (b - a) \in Nat
    BY <2>1, <2>2
  <2> QED
    BY <2>3
<1> QED
  BY <1>1, <1>2

LEMMA ProductCancel ==
  ASSUME NEW a \in Int, NEW b \in Int, NEW c \in Nat, a * c < b * c
  PROVE  a < b
<1> SUFFICES ASSUME b <= a PROVE FALSE
  OBVIOUS
<1>1. b * c <= a * c
  BY ProductOrder
<1>2. a * c \in Int /\ b * c \in Int
  OBVIOUS
<1> QED
  BY <1>1, <1>2

(* Division down, and up.                                                  *)
LEMMA Down ==
  ASSUME NEW n \in Nat, NEW d \in Nat \ {0}
  PROVE  /\ n \div d \in Nat
         /\ (n \div d) * d <= n /\ n < (n \div d) * d + d
OBVIOUS
=============================================================================
