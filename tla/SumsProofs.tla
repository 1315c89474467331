------------------------------ MODULE SumsProofs ------------------------------
(***************************************************************************)
(* What a change of one value does to the sum of a function, and what a    *)
(* sum tells of the values.  No domain has to be finite: it is enough that *)
(* the units are, and one change keeps them so.  The last part is          *)
(* induction over the natural numbers, stated for sets, and what follows   *)
(* from it: the functions that a definition by recursion asks for exist.   *)
(***************************************************************************)
EXTENDS Sums, Integers, FiniteSetTheorems, TLAPS

LEMMA UnitIn ==
    ASSUME NEW S, NEW f \in [S -> Nat], NEW u
    PROVE  u \in Units(f) <=> \E x \in S : u \in UnitsAt(f, x)
BY DEF Units

(* The units of one value. *)
LEMMA OneValue ==
    ASSUME NEW x, NEW n \in Nat
    PROVE  /\ IsFiniteSet({x} \X (1 .. n))
           /\ Cardinality({x} \X (1 .. n)) = n
<1>1. IsFiniteSet(1 .. n) /\ Cardinality(1 .. n) = n
  BY FS_Interval
<1>2. IsFiniteSet({x}) /\ Cardinality({x}) = 1
  BY FS_Singleton
<1>3. /\ IsFiniteSet({x} \X (1 .. n))
      /\ Cardinality({x} \X (1 .. n)) = Cardinality({x}) * Cardinality(1 .. n)
  BY <1>1, <1>2, FS_Product
<1>. QED
  BY <1>1, <1>2, <1>3

(* All the units of f but those at x, which no other value of x changes. *)
UnitsBut(f, x) == Units(f) \ UnitsAt(f, x)

LEMMA UnitsSplit ==
    ASSUME NEW S, NEW f \in [S -> Nat], NEW x \in S
    PROVE  /\ Units(f) = UnitsBut(f, x) \cup UnitsAt(f, x)
           /\ UnitsBut(f, x) \cap UnitsAt(f, x) = {}
<1>1. UnitsAt(f, x) \subseteq Units(f)
  BY UnitIn
<1>. QED
  BY <1>1 DEF UnitsBut

LEMMA UnitsButSame ==
    ASSUME NEW S, NEW f \in [S -> Nat], NEW x \in S, NEW g \in [S -> Nat],
           \A y \in S \ {x} : g[y] = f[y]
    PROVE  UnitsBut(g, x) = UnitsBut(f, x)
<1>1. ASSUME NEW h \in [S -> Nat], NEW u
      PROVE  u \in UnitsBut(h, x) <=> \E y \in S \ {x} : u \in UnitsAt(h, y)
  <2>1. \A y \in S : u \in UnitsAt(h, y) /\ u \in UnitsAt(h, x) => y = x
    BY DEF UnitsAt
  <2>. QED
    BY <2>1, UnitIn DEF UnitsBut
<1>2. \A y \in S \ {x} : UnitsAt(g, y) = UnitsAt(f, y)
  BY DEF UnitsAt
<1>. QED
  BY <1>1, <1>2

(* A value changes from f[x] to g[x] and the sum changes by as much. *)
LEMMA SumChange ==
    ASSUME NEW S, NEW f \in [S -> Nat], IsFiniteSet(Units(f)),
           NEW x \in S, NEW g \in [S -> Nat],
           \A y \in S \ {x} : g[y] = f[y]
    PROVE  /\ IsFiniteSet(Units(g))
           /\ UnitSum(f) \in Nat /\ UnitSum(g) \in Nat
           /\ UnitSum(g) = UnitSum(f) - f[x] + g[x]
<1>. DEFINE rest == UnitsBut(f, x)
<1>1. IsFiniteSet(rest) /\ Cardinality(rest) \in Nat
  BY FS_Difference, FS_CardinalityType DEF UnitsBut
<1>2. ASSUME NEW h \in [S -> Nat], UnitsBut(h, x) = rest
      PROVE  /\ IsFiniteSet(Units(h)) /\ UnitSum(h) = Cardinality(rest) + h[x]
  <2>1. Units(h) = rest \cup UnitsAt(h, x) /\ rest \cap UnitsAt(h, x) = {}
    BY <1>2, UnitsSplit
  <2>2. IsFiniteSet(UnitsAt(h, x)) /\ Cardinality(UnitsAt(h, x)) = h[x]
    BY OneValue DEF UnitsAt
  <2>. HIDE DEF rest
  <2>3. /\ IsFiniteSet(rest \cup UnitsAt(h, x))
        /\ Cardinality(rest \cup UnitsAt(h, x))
             = Cardinality(rest) + Cardinality(UnitsAt(h, x))
                 - Cardinality(rest \cap UnitsAt(h, x))
    BY <1>1, <2>2, FS_Union
  <2>4. Cardinality(rest \cap UnitsAt(h, x)) = 0
    BY <2>1, FS_EmptySet
  <2>. QED
    BY <1>1, <2>1, <2>2, <2>3, <2>4 DEF UnitSum
<1>3. UnitsBut(g, x) = rest
  BY UnitsButSame
<1>4. /\ IsFiniteSet(Units(g)) /\ UnitSum(g) = Cardinality(rest) + g[x]
      /\ UnitSum(f) = Cardinality(rest) + f[x]
  BY <1>2, <1>3
<1>. QED
  BY <1>1, <1>4

(* Nothing but zeros has no units ... *)
LEMMA SumOfZeros ==
    ASSUME NEW S, NEW f \in [S -> Nat], \A x \in S : f[x] = 0
    PROVE  IsFiniteSet(Units(f)) /\ UnitSum(f) = 0
<1>1. \A x \in S : UnitsAt(f, x) = {}
  BY DEF UnitsAt
<1>2. Units(f) = {}
  BY <1>1, UnitIn
<1>. QED
  BY <1>2, FS_EmptySet DEF UnitSum

(* ... and no value exceeds the sum. *)
LEMMA SumBoundsValue ==
    ASSUME NEW S, NEW f \in [S -> Nat], IsFiniteSet(Units(f)), NEW x \in S
    PROVE  UnitSum(f) \in Nat /\ f[x] <= UnitSum(f)
<1>1. UnitsAt(f, x) \subseteq Units(f)
  BY UnitIn
<1>2. Cardinality(UnitsAt(f, x)) = f[x]
  BY OneValue DEF UnitsAt
<1>3. /\ Cardinality(UnitsAt(f, x)) <= Cardinality(Units(f))
      /\ Cardinality(Units(f)) \in Nat
  BY <1>1, FS_Subset, FS_CardinalityType
<1>. QED
  BY <1>2, <1>3 DEF UnitSum

(* A sum that is not zero has a value that is not. *)
LEMMA SumWitness ==
    ASSUME NEW S, NEW f \in [S -> Nat], UnitSum(f) # 0
    PROVE  \E x \in S : f[x] > 0
BY SumOfZeros

(* A sum over a finite domain is a natural number. *)
LEMMA SumTyped ==
    ASSUME NEW S, IsFiniteSet(S), NEW f \in [S -> Nat]
    PROVE  IsFiniteSet(Units(f)) /\ UnitSum(f) \in Nat
<1>. DEFINE T == {UnitsAt(f, x) : x \in S}
            g == [x \in S |-> UnitsAt(f, x)]
<1>1. g \in Surjection(S, T)
  BY DEF Surjection
<1>2. IsFiniteSet(T)
  BY <1>1, FS_Surjection
<1>3. \A U \in T : IsFiniteSet(U)
  <2>1. ASSUME NEW x \in S PROVE IsFiniteSet(UnitsAt(f, x))
    BY OneValue DEF UnitsAt
  <2>. QED
    BY <2>1
<1>4. IsFiniteSet(UNION T)
  BY <1>2, <1>3, FS_UNION
<1>5. Units(f) = UNION T
  BY DEF Units
<1>. QED
  BY <1>4, <1>5, FS_CardinalityType DEF UnitSum
-------------------------------------------------------------------------------
(* Induction, for a set: one that has 0 and the successor of each of its members has
   every natural number.  The numbers it misses up to n would have their
   predecessors among themselves, and so many numbers as predecessors. *)
LEMMA SetInduction ==
    ASSUME NEW S, 0 \in S, \A n \in Nat : n \in S => n + 1 \in S
    PROVE  Nat \subseteq S
<1>. SUFFICES ASSUME NEW n \in Nat, n \notin S PROVE FALSE
  OBVIOUS
<1>. DEFINE T == (0 .. n) \ S
            before == [x \in T |-> x - 1]
<1>1. IsFiniteSet(0 .. n)
  BY FS_Interval
<1>2. IsFiniteSet(T)
  BY <1>1, FS_Difference
<1>3. \A x \in T : x \in Nat /\ x # 0 /\ x <= n /\ x - 1 \in T
  <2>. SUFFICES ASSUME NEW x \in T PROVE x \in Nat /\ x # 0 /\ x <= n /\ x - 1 \in T
    OBVIOUS
  <2>1. x \in Nat /\ x # 0 /\ x <= n /\ x \notin S
    OBVIOUS
  <2>2. x - 1 \in Nat /\ (x - 1) + 1 = x
    BY <2>1
  <2>3. x - 1 \notin S
    BY <2>1, <2>2
  <2>. QED
    BY <2>1, <2>2, <2>3
<1>4. n \in T
  OBVIOUS
<1>. HIDE DEF T
<1>5. before \in [T -> T]
  BY <1>3
<1>6. before \in Injection(T, T)
  BY <1>3, <1>5 DEF Injection, IsInjective
<1>7. before \in Surjection(T, T)
  BY <1>2, <1>6, FS_Injection
<1>8. PICK x \in T : before[x] = n
  BY <1>4, <1>7 DEF Surjection
<1>. QED
  BY <1>3, <1>8

(* The same up to a bound. *)
LEMMA InductionUpTo ==
    ASSUME NEW N \in Nat, NEW S, 0 \in S, \A n \in 1 .. N : n - 1 \in S => n \in S
    PROVE  0 .. N \subseteq S
<1>. DEFINE T == {n \in Nat : n <= N => n \in S}
<1>1. 0 \in T
  OBVIOUS
<1>2. ASSUME NEW n \in Nat, n \in T PROVE n + 1 \in T
  <2>1. CASE n + 1 <= N
    <3>1. n \in S
      BY <1>2, <2>1
    <3>2. n + 1 \in 1 .. N /\ (n + 1) - 1 = n
      BY <2>1
    <3>. QED
      BY <3>1, <3>2
  <2>. QED
    BY <2>1
<1>. HIDE DEF T
<1>3. Nat \subseteq T
  BY <1>1, <1>2, SetInduction
<1>. QED
  BY <1>3 DEF T

(* A set of natural numbers with a member has a least one. *)
LEMMA LeastMember ==
    ASSUME NEW S \in SUBSET Nat, S # {}
    PROVE  \E n \in S : \A m \in S : n <= m
<1>. SUFFICES ASSUME \A n \in S : \E m \in S : m < n PROVE FALSE
  OBVIOUS
<1>. DEFINE T == {n \in Nat : \A m \in S : n <= m}
<1>1. 0 \in T
  OBVIOUS
<1>2. ASSUME NEW n \in Nat, n \in T PROVE n + 1 \in T
  <2>1. n \notin S
    BY <1>2
  <2>2. \A m \in S : n < m
    BY <1>2, <2>1
  <2>. QED
    BY <2>2
<1>. HIDE DEF T
<1>3. Nat \subseteq T
  BY <1>1, <1>2, SetInduction
<1>4. PICK n \in S : TRUE
  OBVIOUS
<1>5. n + 1 \in T
  BY <1>3
<1>. QED
  BY <1>4, <1>5 DEF T

(* A definition by recursion: a first value and what follows each value. *)
Recursion(T, b, N, g) == b \in T /\ N \in Nat /\ g \in [1 .. N -> [T -> T]]
Solves(f, T, b, N, g) ==
    /\ f \in [0 .. N -> T]
    /\ f[0] = b /\ \A n \in 1 .. N : f[n] = g[n][f[n - 1]]

(* There is a function that it defines. *)
LEMMA RecursionSolved ==
    ASSUME NEW T, NEW b, NEW N, NEW g, Recursion(T, b, N, g)
    PROVE  \E f : Solves(f, T, b, N, g)
<1>. USE DEF Recursion
<1>. DEFINE From(f, n) == f[0] = b /\ \A k \in 1 .. n : f[k] = g[k][f[k - 1]]
            S == {n \in 0 .. N : \E f \in [0 .. n -> T] : From(f, n)}
<1>1. 0 \in S
  <2>. DEFINE h == [k \in 0 .. 0 |-> b]
  <2>1. From(h, 0)
    OBVIOUS
  <2>2. h \in [0 .. 0 -> T]
    OBVIOUS
  <2>. HIDE DEF From, h
  <2>. QED
    BY <2>1, <2>2
<1>2. ASSUME NEW n \in 1 .. N, n - 1 \in S PROVE n \in S
  <2>1. PICK f \in [0 .. n - 1 -> T] : From(f, n - 1)
    BY <1>2
  <2>. DEFINE h == [k \in 0 .. n |-> IF k = n THEN g[n][f[n - 1]] ELSE f[k]]
  <2>2. f[n - 1] \in T /\ g[n] \in [T -> T]
    BY <1>2
  <2>3. h \in [0 .. n -> T]
    BY <2>2
  <2>4. h[0] = b
    BY <2>1
  <2>5. \A k \in 1 .. n : h[k] = g[k][h[k - 1]]
    <3>. SUFFICES ASSUME NEW k \in 1 .. n PROVE h[k] = g[k][h[k - 1]]
      OBVIOUS
    <3>1. k - 1 \in 0 .. n /\ k - 1 # n /\ h[k - 1] = f[k - 1]
      OBVIOUS
    <3>2. CASE k = n
      BY <3>1, <3>2
    <3>3. CASE k # n
      <4>1. k \in 1 .. (n - 1)
        BY <3>3
      <4>2. f[k] = g[k][f[k - 1]]
        BY <2>1, <4>1
      <4>. QED
        BY <3>1, <3>3, <4>1, <4>2
    <3>. QED
      BY <3>2, <3>3
  <2>6. From(h, n)
    BY <2>4, <2>5
  <2>. HIDE DEF From, h
  <2>. QED
    BY <2>3, <2>6
<1>. HIDE DEF S
<1>3. 0 .. N \subseteq S
  BY <1>1, <1>2, InductionUpTo
<1>4. N \in S
  BY <1>3
<1>. QED
  BY <1>4 DEF S, Solves
===============================================================================
