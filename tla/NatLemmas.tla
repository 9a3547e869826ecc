------------------------------ MODULE NatLemmas ------------------------------
(* Least and greatest numbers: what the proofs about positions rest on.  A   *)
(* set of numbers with no least element among its counterexamples has none,  *)
(* which is induction without an operator as a parameter.                    *)
EXTENDS Integers, FiniteSetsExt, WellFoundedInduction, TLAPS

(* Every set of natural numbers has a least one.                             *)
LEMMA LeastNat ==
    ASSUME NEW T, T \subseteq Nat, T # {}
    PROVE  \E x \in T : \A y \in T : x <= y
<1>1. PICK x \in T : \A y \in T : ~ (<<y, x>> \in OpToRel(<, Nat))
  BY NatLessThanWellFounded, WFMin
<1>2. ASSUME NEW y \in T PROVE x <= y
  <2>1. <<y, x>> \in Nat \X Nat
    OBVIOUS
  <2>2. ~ (y < x)
    BY <1>1, <2>1 DEF OpToRel
  <2> QED BY <2>2
<1> QED BY <1>2


(* Every bounded set of natural numbers that is not empty has a greatest one.*)
LEMMA GreatestNat ==
    ASSUME NEW T, T \subseteq Nat, T # {}, NEW b \in Nat, \A x \in T : x <= b
    PROVE  \E x \in T : \A y \in T : y <= x
<1> DEFINE Bounds == {n \in Nat : \A x \in T : x <= n}
<1>1. Bounds \subseteq Nat /\ Bounds # {}
  OBVIOUS
<1>2. PICK m \in Bounds : \A n \in Bounds : m <= n
  BY <1>1, LeastNat
<1>3. ASSUME m \notin T PROVE FALSE
  <2>1. PICK x \in T : x \in Nat
    OBVIOUS
  <2>2. \A y \in T : y \in Nat /\ y <= m /\ y # m
    BY <1>2, <1>3
  <2>3. m \in Nat /\ m >= 1
    BY <1>2, <2>1, <2>2
  <2>4. \A y \in T : y <= m - 1
    BY <2>2, <2>3
  <2>5. m - 1 \in Bounds
    BY <2>3, <2>4
  <2> QED BY <1>2, <2>3, <2>5
<1> QED BY <1>2, <1>3

LEMMA MaxIs ==
    ASSUME NEW T, T \subseteq Int, NEW m \in T, \A x \in T : x <= m
    PROVE  Max(T) = m
<1>1. \A x \in T : m >= x
  OBVIOUS
<1>2. \A x \in T : (\A y \in T : x >= y) => x = m
  OBVIOUS
<1> QED BY <1>1, <1>2 DEF Max

LEMMA MinIs ==
    ASSUME NEW T, T \subseteq Int, NEW m \in T, \A x \in T : m <= x
    PROVE  Min(T) = m
<1>1. \A x \in T : m =< x
  OBVIOUS
<1>2. \A x \in T : (\A y \in T : x =< y) => x = m
  OBVIOUS
<1> QED BY <1>1, <1>2 DEF Min

LEMMA MaxIsGreatest ==
    ASSUME NEW T, T \subseteq Nat, T # {}, NEW b \in Nat, \A x \in T : x <= b
    PROVE  Max(T) \in T /\ \A x \in T : x <= Max(T)
<1>0. T \subseteq Int
  OBVIOUS
<1>1. PICK m \in T : \A x \in T : x <= m
  BY GreatestNat
<1>2. Max(T) = m
  BY <1>0, <1>1, MaxIs
<1> QED BY <1>1, <1>2

LEMMA MinIsLeast ==
    ASSUME NEW T, T \subseteq Nat, T # {}
    PROVE  Min(T) \in T /\ \A x \in T : Min(T) <= x
<1>0. T \subseteq Int
  OBVIOUS
<1>1. PICK m \in T : \A x \in T : m <= x
  BY LeastNat
<1>2. Min(T) = m
  BY <1>0, <1>1, MinIs
<1> QED BY <1>1, <1>2

(* A function on 0 .. m that starts with a and goes on with F exists: what a *)
(* recursive function definition needs to mean something.                    *)
LEMMA StepByStep ==
    ASSUME NEW S, NEW a \in S, NEW m \in Nat, NEW F \in [1 .. m -> [S -> S]]
    PROVE  \E f \in [0 .. m -> S] : f[0] = a /\ \A n \in 1 .. m : f[n] = F[n][f[n - 1]]
<1> DEFINE Goes(k, f) == f[0] = a /\ \A n \in 1 .. k : f[n] = F[n][f[n - 1]]
           Bad == {k \in 0 .. m : \A f \in [0 .. k -> S] : ~ Goes(k, f)}
<1>1. SUFFICES ASSUME Bad # {} PROVE FALSE
  <2>1. SUFFICES m \notin Bad
    OBVIOUS
  <2> QED BY <1>1
<1>2. PICK k \in Bad : \A j \in Bad : k <= j
  <2>1. Bad \subseteq Nat
    OBVIOUS
  <2> HIDE DEF Bad
  <2> QED BY <1>1, <2>1, LeastNat
<1>3. k \in 0 .. m /\ \A f \in [0 .. k -> S] : ~ Goes(k, f)
  OBVIOUS
<1>4. CASE k = 0
  <2> DEFINE f == [x \in 0 .. k |-> a]
  <2>1. f \in [0 .. k -> S] /\ f[0] = a /\ \A n \in 1 .. k : FALSE
    BY <1>4
  <2> QED BY <1>3, <2>1
<1>5. CASE k > 0
  <2>1. k - 1 \in 0 .. m /\ ~ (k <= k - 1)
    BY <1>3, <1>5
  <2>2. k - 1 \notin Bad
    BY <1>2, <2>1
  <2>3. PICK g \in [0 .. k - 1 -> S] : Goes(k - 1, g)
    BY <2>1, <2>2
  <2> DEFINE f == [x \in 0 .. k |-> IF x = k THEN F[k][g[k - 1]] ELSE g[x]]
  <2>4. g[k - 1] \in S /\ F[k][g[k - 1]] \in S
    BY <1>3, <1>5, <2>1
  <2>5. f \in [0 .. k -> S]
    BY <1>3, <2>4
  <2>6. f[0] = a
    BY <1>3, <1>5, <2>3
  <2>7. ASSUME NEW n \in 1 .. k PROVE f[n] = F[n][f[n - 1]]
    <3>1. f[n - 1] = g[n - 1]
      BY <1>3
    <3>2. CASE n = k
      <4>1. f[k] = F[k][g[k - 1]]
        BY <1>3
      <4> HIDE DEF f
      <4> QED BY <3>1, <3>2, <4>1
    <3>3. CASE n # k
      <4>1. n \in 1 .. k - 1
        BY <1>3, <3>3
      <4> QED BY <2>3, <3>1, <3>3, <4>1
    <3> QED BY <3>2, <3>3
  <2>8. Goes(k, f)
    BY <2>6, <2>7
  <2> QED BY <1>3, <2>5, <2>8
<1> QED BY <1>3, <1>4, <1>5
=============================================================================
