------------------------------ MODULE Induction ------------------------------
(* What the proofs about recursive definitions, folds and sums rest on: a set of
   naturals has a least member, so what fails for some number fails for a least
   one, and what fails for some finite set for one of the least size.  What is
   to be shown of every number, or every set, is membership of a set Holds. *)
EXTENDS Integers, FiniteSets, FiniteSetTheorems, FiniteSetsExt, Functions, WellFoundedInduction, TLAPS

(* A nonempty set of naturals has a least member. *)
LEMMA NatMinimum ==
  ASSUME NEW S, S \subseteq Nat, S # {}
  PROVE  \E x \in S : \A y \in S : x <= y
<1> DEFINE R == {p \in Nat \X Nat : p[1] < p[2]}
<1>1. IsWellFoundedOn(R, Nat)
  BY NatLessThanWellFounded, Zenon DEF OpToRel
<1>2. \E x \in S : \A y \in S : ~ (<<y, x>> \in R)
  BY <1>1, WFMin, Zenon
<1>3. PICK x \in S : \A y \in S : ~ (<<y, x>> \in R)
  BY <1>2
<1>4. ASSUME NEW y \in S
      PROVE  x <= y
  <2>1. <<y, x>> \in Nat \X Nat /\ <<y, x>>[1] = y /\ <<y, x>>[2] = x
    OBVIOUS
  <2>2. ~ (y < x)
    BY <1>3, <2>1
  <2> QED BY <2>2
<1> QED BY <1>4

(* The maximum of some of the numbers up to n is one of them. *)
LEMMA MaxIsMember ==
  ASSUME NEW n \in Nat, NEW s \in SUBSET (1..n), s # {}
  PROVE  Max(s) \in s /\ \A y \in s : Max(s) >= y
<1> DEFINE Rest == {k \in Nat : \E y \in s : y = n - k}
<1>1. PICK k \in Rest : \A j \in Rest : k <= j
  <2>1. Rest \subseteq Nat
    OBVIOUS
  <2>2. Rest # {}
    <3>1. PICK y \in s : TRUE
      OBVIOUS
    <3>2. n - y \in Nat /\ y = n - (n - y)
      OBVIOUS
    <3> QED BY <3>2
  <2> HIDE DEF Rest
  <2> QED BY <2>1, <2>2, NatMinimum
<1>2. k \in Nat /\ n - k \in s
  BY <1>1
<1>3. \A y \in s : n - k >= y
  <2> SUFFICES ASSUME NEW y \in s
               PROVE  n - k >= y
    OBVIOUS
  <2>1. n - y \in Nat /\ y = n - (n - y)
    OBVIOUS
  <2>2. n - y \in Rest
    BY <2>1
  <2>3. k <= n - y
    <3> HIDE DEF Rest
    <3> QED BY <1>1, <2>2
  <2> QED BY <1>2, <2>1, <2>3
<1> QED BY <1>2, <1>3 DEF Max

(* What holds at the start of an interval, and at every number of it that
   follows one where it holds, holds in all of it. *)
LEMMA IntervalInduction ==
  ASSUME NEW a \in Int, NEW b \in Int, NEW Holds,
         a \in Holds,
         \A i \in a..b : i \in Holds /\ i < b => i + 1 \in Holds
  PROVE  \A i \in a..b : i \in Holds
<1> DEFINE Bad == {j \in Nat : a + j <= b /\ a + j \notin Holds}
<1>1. SUFFICES ASSUME NEW i \in a..b, i \notin Holds
               PROVE  FALSE
  OBVIOUS
<1>2. i - a \in Bad
  <2>1. i - a \in Nat /\ a + (i - a) = i /\ i <= b
    OBVIOUS
  <2> QED BY <1>1, <2>1
<1>3. PICK j \in Bad : \A k \in Bad : j <= k
  <2> HIDE DEF Bad
  <2>1. Bad \subseteq Nat
    BY DEF Bad
  <2> QED BY <1>2, <2>1, NatMinimum
<1>4. j \in Nat /\ a + j <= b /\ a + j \notin Holds
  BY <1>3
<1>5. j # 0
  BY <1>4
<1>6. j - 1 \notin Bad
  BY <1>3, <1>4, <1>5
<1>7. j - 1 \in Nat /\ a + (j - 1) \in Holds
  BY <1>4, <1>5, <1>6
<1>8. a + (j - 1) \in a..b /\ a + (j - 1) < b /\ a + (j - 1) + 1 = a + j
  BY <1>4, <1>7
<1> QED BY <1>4, <1>7, <1>8

(* The function a recursion on an interval defines: its first value is v0, and
   the others come from the one before by step. *)
Recursion(f, S, v0, a, b, step) ==
    /\ f \in [a..b -> S]
    /\ \A i \in a..b : f[i] = IF i = a THEN v0 ELSE step[<<f[i - 1], i>>]

(* A recursion on an interval defines a function. *)
LEMMA IntervalRecursion ==
  ASSUME NEW S, NEW v0, NEW a, NEW b, NEW step,
         v0 \in S, a \in Int, b \in Int, step \in [S \X Int -> S]
  PROVE  \E f : Recursion(f, S, v0, a, b, step)
<1> DEFINE Fits(f, k) == \A i \in a..k : f[i] = IF i = a THEN v0 ELSE step[<<f[i - 1], i>>]
           Holds == {k \in Int : \E f \in [a..k -> S] : Fits(f, k)}
<1>1. a \in Holds
  <2> DEFINE g == [i \in a..a |-> v0]
  <2>1. g \in [a..a -> S] /\ Fits(g, a)
    OBVIOUS
  <2> QED BY <2>1
<1>2. ASSUME NEW k \in Holds, a <= k
      PROVE  k + 1 \in Holds
  <2>1. PICK f \in [a..k -> S] : Fits(f, k)
    OBVIOUS
  <2> DEFINE g == [i \in a..(k + 1) |-> IF i = k + 1 THEN step[<<f[k], k + 1>>] ELSE f[i]]
  <2>2. f[k] \in S /\ <<f[k], k + 1>> \in S \X Int
    BY <1>2
  <2>3. step[<<f[k], k + 1>>] \in S
    BY <2>2
  <2>4. g \in [a..(k + 1) -> S]
    BY <1>2, <2>3
  <2>5. ASSUME NEW i \in a..(k + 1)
        PROVE  g[i] = IF i = a THEN v0 ELSE step[<<g[i - 1], i>>]
    <3>1. CASE i = k + 1
      BY <1>2, <3>1
    <3>2. CASE i # k + 1 /\ i # a
      <4>1. i \in a..k /\ i - 1 \in a..k /\ i - 1 # k + 1
        BY <3>2
      <4>2. g[i] = f[i] /\ g[i - 1] = f[i - 1]
        BY <4>1, <3>2
      <4> QED BY <2>1, <4>1, <4>2, <3>2
    <3>3. CASE i = a /\ i # k + 1
      <4>1. i \in a..k /\ g[i] = f[i]
        BY <3>3
      <4> QED BY <2>1, <4>1, <3>3
    <3> QED BY <3>1, <3>2, <3>3
  <2>6. Fits(g, k + 1)
    BY <2>5
  <2>7. k + 1 \in Int
    OBVIOUS
  <2> HIDE DEF Fits, g
  <2> QED BY <2>4, <2>6, <2>7
<1>3. CASE a <= b
  <2> HIDE DEF Holds
  <2>0. \A k \in a..b : k \in Holds /\ k < b => k + 1 \in Holds
    BY <1>2
  <2>1. \A i \in a..b : i \in Holds
    BY <1>1, <2>0, IntervalInduction
  <2>2. b \in Holds
    BY <2>1, <1>3
  <2> QED BY <2>2 DEF Holds, Recursion
<1>4. CASE b < a
  <2> DEFINE g == [i \in a..b |-> v0]
  <2>1. g \in [a..b -> S] /\ a..b = {}
    BY <1>4
  <2> QED BY <2>1 DEF Recursion
<1> QED BY <1>3, <1>4

------------------------------------------------------------------------------
(* What holds of the empty set, and of every set one of whose members can be
   taken out without leaving Holds, holds of every finite set. *)
LEMMA SubsetInduction ==
  ASSUME NEW S, IsFiniteSet(S), NEW Holds, {} \in Holds,
         \A s \in SUBSET S : s # {} => \E x \in s : s \ {x} \in Holds => s \in Holds
  PROVE  \A s \in SUBSET S : s \in Holds
<1> DEFINE Bad == {s \in SUBSET S : s \notin Holds}
           Sizes == {Cardinality(s) : s \in Bad}
<1>1. \A s \in SUBSET S : IsFiniteSet(s) /\ Cardinality(s) \in Nat
  BY FS_Subset, FS_CardinalityType
<1>2. SUFFICES ASSUME Bad # {}
               PROVE  FALSE
  OBVIOUS
<1>3. PICK k \in Sizes : \A j \in Sizes : k <= j
  <2>1. Sizes \subseteq Nat /\ Sizes # {}
    BY <1>1, <1>2
  <2> HIDE DEF Sizes
  <2> QED BY <2>1, NatMinimum
<1>4. PICK s \in Bad : Cardinality(s) = k
  BY <1>3
<1>5. s \in SUBSET S /\ s \notin Holds /\ s # {}
  BY <1>4
<1>6. PICK x \in s : s \ {x} \in Holds => s \in Holds
  BY <1>5
<1>7. s \ {x} \in Bad
  BY <1>5, <1>6
<1>8. Cardinality(s \ {x}) = Cardinality(s) - 1
  BY <1>1, <1>5, FS_RemoveElement
<1>9. k <= Cardinality(s \ {x})
  <2> HIDE DEF Bad
  <2> QED BY <1>3, <1>7
<1> QED BY <1>1, <1>4, <1>5, <1>8, <1>9

(* The function a recursion on the subsets of S defines: base for none, and for
   the others step of the value without the member that choice takes out. *)
Descent(f, S, V, base, step, choice) ==
    /\ f \in [SUBSET S -> V]
    /\ \A s \in SUBSET S :
          f[s] = IF s = {} THEN base ELSE step[<<f[s \ {choice[s]}], choice[s]>>]

(* A recursion on the subsets of a finite set defines a function. *)
LEMMA SubsetRecursion ==
  ASSUME NEW S, IsFiniteSet(S), NEW V, NEW base \in V, NEW step \in [V \X S -> V],
         NEW choice, \A s \in SUBSET S : s # {} => choice[s] \in s
  PROVE  \E f : Descent(f, S, V, base, step, choice)
<1> DEFINE Upto(k) == {s \in SUBSET S : Cardinality(s) <= k}
           Value(f, s) == IF s = {} THEN base ELSE step[<<f[s \ {choice[s]}], choice[s]>>]
           Fits(f, k) == f \in [Upto(k) -> V] /\ \A s \in Upto(k) : f[s] = Value(f, s)
           Holds == {k \in Int : \E f : Fits(f, k)}
<1>1. \A s \in SUBSET S : IsFiniteSet(s) /\ Cardinality(s) \in Nat /\ Cardinality(s) <= Cardinality(S)
  BY FS_Subset, FS_CardinalityType
<1>2. \A s \in SUBSET S : s # {} => /\ choice[s] \in S /\ s \ {choice[s]} \in SUBSET S
                                    /\ Cardinality(s \ {choice[s]}) = Cardinality(s) - 1
  BY <1>1, FS_RemoveElement
<1>3. 0 \in Holds
  <2> DEFINE g == [s \in Upto(0) |-> base]
  <2>1. \A s \in Upto(0) : s = {}
    <3>1. \A s \in Upto(0) : s \in SUBSET S /\ Cardinality(s) = 0 /\ IsFiniteSet(s)
      BY <1>1
    <3> QED BY <3>1, FS_EmptySet
  <2>2. Fits(g, 0)
    BY <2>1
  <2> HIDE DEF Fits, g
  <2> QED BY <2>2
<1>4. ASSUME NEW k \in Holds, k \in Nat
      PROVE  k + 1 \in Holds
  <2>1. PICK f : Fits(f, k)
    OBVIOUS
  <2> DEFINE g == [s \in Upto(k + 1) |-> Value(f, s)]
  <2>2. \A s \in Upto(k + 1) : s # {} => s \ {choice[s]} \in Upto(k) /\ choice[s] \in S
    BY <1>1, <1>2, <1>4
  <2>3. \A s \in Upto(k + 1) : Value(f, s) \in V
    <3> SUFFICES ASSUME NEW s \in Upto(k + 1), s # {}
                 PROVE  step[<<f[s \ {choice[s]}], choice[s]>>] \in V
      OBVIOUS
    <3>1. <<f[s \ {choice[s]}], choice[s]>> \in V \X S
      BY <2>1, <2>2
    <3> QED BY <3>1
  <2>4. \A s \in Upto(k) : s \in Upto(k + 1) /\ g[s] = f[s]
    <3> HIDE DEF Value
    <3>1. \A s \in Upto(k) : s \in Upto(k + 1)
      BY <1>1, <1>4
    <3>2. \A s \in Upto(k) : f[s] = Value(f, s)
      BY <2>1
    <3> QED BY <3>1, <3>2
  <2>5. \A s \in Upto(k + 1) : g[s] = Value(g, s)
    BY <2>2, <2>4
  <2>6. g \in [Upto(k + 1) -> V]
    BY <2>3
  <2> HIDE DEF g, Value, Upto
  <2>7. Fits(g, k + 1)
    BY <2>5, <2>6
  <2> QED BY <2>7, <1>4
<1>5. Cardinality(S) \in Holds
  <2> HIDE DEF Holds
  <2>1. Cardinality(S) \in Nat /\ 0 \in Int
    BY <1>1
  <2>2. \A i \in 0..Cardinality(S) : i \in Holds /\ i < Cardinality(S) => i + 1 \in Holds
    BY <1>4
  <2>3. \A i \in 0..Cardinality(S) : i \in Holds
    BY <1>3, <2>1, <2>2, IntervalInduction
  <2> QED BY <2>1, <2>3
<1>6. Upto(Cardinality(S)) = SUBSET S
  BY <1>1
<1> HIDE DEF Upto
<1> QED BY <1>5, <1>6 DEF Descent

------------------------------------------------------------------------------
(* The sum of a function's values, as the folds of the library compute it. *)
Total(f) == FoldFunction(LAMBDA a, b : a + b, 0, f)

Picked(s) == CHOOSE x \in s : TRUE

(* The sums over the subsets of the domain. *)
Sums(F, f) ==
    /\ F \in [SUBSET DOMAIN f -> Int]
    /\ \A s \in SUBSET DOMAIN f :
          F[s] = IF s = {} THEN 0 ELSE f[Picked(s)] + F[s \ {Picked(s)}]

LEMMA TotalIsSum ==
  ASSUME NEW S, IsFiniteSet(S), NEW f \in [S -> Int]
  PROVE  \E F : Sums(F, f) /\ Total(f) = F[S]
<1> DEFINE Fits(F) == F = [s \in SUBSET S |-> IF s = {} THEN 0 ELSE f[Picked(s)] + F[s \ {Picked(s)}]]
           F0 == CHOOSE F : Fits(F)
           step == [p \in Int \X S |-> f[p[2]] + p[1]]
           choice == [s \in SUBSET S |-> Picked(s)]
<1>1. Total(f) = F0[S]
  <2>1. DOMAIN f = S
    OBVIOUS
  <2>2. Total(f) = (CHOOSE F : F = [s \in SUBSET (DOMAIN f) |-> IF s = {} THEN 0 ELSE f[Picked(s)] + F[s \ {Picked(s)}]])[DOMAIN f]
    BY Zenon DEF Total, FoldFunction, FoldFunctionOnSet, MapThenFoldSet, Picked
  <2> QED BY <2>1, <2>2
<1>2. \A s \in SUBSET S : s # {} => Picked(s) \in s /\ choice[s] = Picked(s)
  BY DEF Picked
<1>3. step \in [Int \X S -> Int] /\ \A v \in Int, x \in S : step[<<v, x>>] = f[x] + v
  OBVIOUS
<1> HIDE DEF step, choice
<1>4. PICK F : Descent(F, S, Int, 0, step, choice)
  <2>1. \A s \in SUBSET S : s # {} => choice[s] \in s
    BY <1>2
  <2>2. 0 \in Int
    OBVIOUS
  <2> QED BY <1>3, <2>1, <2>2, SubsetRecursion
<1>5. Fits(F)
  <2>1. F \in [SUBSET S -> Int]
    BY <1>4 DEF Descent
  <2>2. ASSUME NEW s \in SUBSET S
        PROVE  F[s] = IF s = {} THEN 0 ELSE f[Picked(s)] + F[s \ {Picked(s)}]
    <3>1. CASE s = {}
      BY <1>4, <3>1 DEF Descent
    <3>2. CASE s # {}
      <4>1. Picked(s) \in S /\ choice[s] = Picked(s) /\ s \ {Picked(s)} \in SUBSET S
        BY <1>2, <3>2
      <4>2. F[s \ {Picked(s)}] \in Int
        BY <2>1, <4>1
      <4>3. F[s] = step[<<F[s \ {Picked(s)}], Picked(s)>>]
        BY <1>4, <3>2, <4>1 DEF Descent
      <4> QED BY <1>3, <3>2, <4>1, <4>2, <4>3
    <3> QED BY <3>1, <3>2
  <2> QED BY <2>1, <2>2
<1>6. Fits(F0)
  <2> HIDE DEF Fits
  <2> QED BY <1>5
<1>7. \A G : Fits(G) => G = F
  <2> SUFFICES ASSUME NEW G, Fits(G)
               PROVE  G = F
    OBVIOUS
  <2> DEFINE Holds == {s \in SUBSET S : G[s] = F[s]}
  <2>1. DOMAIN G = SUBSET S /\ DOMAIN F = SUBSET S
    BY <1>4 DEF Descent
  <2>2. \A s \in SUBSET S : G[s] = IF s = {} THEN 0 ELSE f[Picked(s)] + G[s \ {Picked(s)}]
    BY Zenon
  <2>3. \A s \in SUBSET S : F[s] = IF s = {} THEN 0 ELSE f[Picked(s)] + F[s \ {Picked(s)}]
    BY <1>5, Zenon
  <2> HIDE DEF Fits
  <2>4. {} \in Holds /\ \A s \in SUBSET S : s # {} => \E x \in s : s \ {x} \in Holds => s \in Holds
    BY <1>2, <2>2, <2>3
  <2> HIDE DEF Holds
  <2>5. \A s \in SUBSET S : s \in Holds
    BY <2>4, SubsetInduction
  <2>6. \A s \in SUBSET S : G[s] = F[s]
    BY <2>5 DEF Holds
  <2>7. F \in [SUBSET S -> Int]
    BY <1>4 DEF Descent
  <2>8. G = [s \in SUBSET S |-> F[s]]
    <3>1. G = [s \in SUBSET S |-> G[s]]
      BY Zenon DEF Fits
    <3> QED BY <2>6, <3>1
  <2> QED BY <2>7, <2>8
<1>8. F0 = F
  BY <1>6, <1>7
<1>9. Sums(F, f)
  BY <1>4, <1>5 DEF Sums, Descent
<1> QED BY <1>1, <1>8, <1>9

(* The sum of integers is one, of naturals a natural. *)
LEMMA TotalType ==
  ASSUME NEW S, IsFiniteSet(S), NEW f \in [S -> Int]
  PROVE  Total(f) \in Int
<1>1. PICK F : Sums(F, f) /\ Total(f) = F[S]
  BY TotalIsSum
<1> QED BY <1>1 DEF Sums

(* A sum changes by what one of its terms changes. *)
LEMMA TotalOfChange ==
  ASSUME NEW S, IsFiniteSet(S), NEW f \in [S -> Int], NEW g \in [S -> Int],
         NEW x \in S, \A y \in S \ {x} : g[y] = f[y]
  PROVE  Total(g) = Total(f) + g[x] - f[x]
<1>1. PICK F : Sums(F, f) /\ Total(f) = F[S]
  BY TotalIsSum
<1>2. PICK G : Sums(G, g) /\ Total(g) = G[S]
  BY TotalIsSum
<1> DEFINE Holds == {s \in SUBSET S : G[s] = F[s] + (IF x \in s THEN g[x] - f[x] ELSE 0)}
<1>3. {} \in Holds
  <2>1. {} \in SUBSET DOMAIN f /\ {} \in SUBSET DOMAIN g /\ {} \in SUBSET S
    OBVIOUS
  <2>2. F[{}] = 0 /\ G[{}] = 0
    BY <1>1, <1>2, <2>1 DEF Sums
  <2> QED BY <2>1, <2>2
<1>4. ASSUME NEW s \in SUBSET S, s # {}
      PROVE  \E y \in s : s \ {y} \in Holds => s \in Holds
  <2> DEFINE y == Picked(s)
             t == s \ {y}
  <2>1. y \in s /\ y \in S /\ t \in SUBSET S
    BY <1>4 DEF Picked
  <2>2. F[s] = f[y] + F[t] /\ G[s] = g[y] + G[t]
    BY <1>1, <1>2, <1>4 DEF Sums
  <2>3. F[t] \in Int /\ G[t] \in Int /\ F[s] \in Int
    BY <1>1, <1>2, <2>1 DEF Sums
  <2> HIDE DEF y
  <2>4. f[y] \in Int /\ g[y] \in Int /\ f[x] \in Int /\ g[x] \in Int
    BY <2>1
  <2>5. ASSUME t \in Holds
        PROVE  s \in Holds
    <3>1. G[t] = F[t] + (IF x \in t THEN g[x] - f[x] ELSE 0)
      BY <2>5
    <3>2. CASE y = x
      <4>1. x \notin t /\ x \in s
        BY <2>1, <3>2
      <4> HIDE DEF t
      <4> QED BY <2>2, <2>3, <2>4, <3>1, <3>2, <4>1
    <3>3. CASE y # x
      <4>1. (x \in t <=> x \in s) /\ g[y] = f[y]
        BY <2>1, <3>3
      <4> HIDE DEF t
      <4> QED BY <2>2, <2>3, <2>4, <3>1, <4>1
    <3> QED BY <3>2, <3>3
  <2> QED BY <2>1, <2>5
<1>5. \A s \in SUBSET S : s \in Holds
  <2> HIDE DEF Holds
  <2> QED BY <1>3, <1>4, SubsetInduction
<1>6. S \in Holds
  BY <1>5
<1>7. F[S] \in Int /\ f[x] \in Int /\ g[x] \in Int
  BY <1>1 DEF Sums
<1> QED BY <1>1, <1>2, <1>6, <1>7

(* A sum of smaller terms is not larger. *)
LEMMA TotalOfSmaller ==
  ASSUME NEW S, IsFiniteSet(S), NEW f \in [S -> Int], NEW g \in [S -> Int],
         \A x \in S : g[x] <= f[x]
  PROVE  Total(g) <= Total(f)
<1>1. PICK F : Sums(F, f) /\ Total(f) = F[S]
  BY TotalIsSum
<1>2. PICK G : Sums(G, g) /\ Total(g) = G[S]
  BY TotalIsSum
<1> DEFINE Holds == {s \in SUBSET S : G[s] <= F[s]}
<1>3. {} \in Holds
  <2>1. {} \in SUBSET DOMAIN f /\ {} \in SUBSET DOMAIN g /\ {} \in SUBSET S
    OBVIOUS
  <2>2. F[{}] = 0 /\ G[{}] = 0
    BY <1>1, <1>2, <2>1 DEF Sums
  <2> QED BY <2>1, <2>2
<1>4. ASSUME NEW s \in SUBSET S, s # {}
      PROVE  \E y \in s : s \ {y} \in Holds => s \in Holds
  <2> DEFINE y == Picked(s)
             t == s \ {y}
  <2>1. y \in s /\ y \in S /\ t \in SUBSET S
    BY <1>4 DEF Picked
  <2>2. F[s] = f[y] + F[t] /\ G[s] = g[y] + G[t]
    BY <1>1, <1>2, <1>4 DEF Sums
  <2>3. F[t] \in Int /\ G[t] \in Int
    BY <1>1, <1>2, <2>1 DEF Sums
  <2> HIDE DEF y
  <2>4. f[y] \in Int /\ g[y] \in Int /\ g[y] <= f[y]
    BY <2>1
  <2> HIDE DEF t
  <2>5. ASSUME t \in Holds
        PROVE  s \in Holds
    BY <2>2, <2>3, <2>4, <2>5
  <2> QED BY <2>1, <2>5 DEF t
<1>5. \A s \in SUBSET S : s \in Holds
  <2> HIDE DEF Holds
  <2> QED BY <1>3, <1>4, SubsetInduction
<1> QED BY <1>1, <1>2, <1>5

(* The sum of zeros. *)
LEMMA TotalOfZeros ==
  ASSUME NEW S, IsFiniteSet(S)
  PROVE  Total([x \in S |-> 0]) = 0
<1> DEFINE f == [x \in S |-> 0]
<1>1. f \in [S -> Int] /\ DOMAIN f = S /\ \A x \in S : f[x] = 0
  OBVIOUS
<1> HIDE DEF f
<1>2. PICK F : Sums(F, f) /\ Total(f) = F[S]
  BY <1>1, TotalIsSum
<1> DEFINE Holds == {s \in SUBSET S : F[s] = 0}
<1>3. {} \in Holds
  BY <1>1, <1>2 DEF Sums
<1>4. ASSUME NEW s \in SUBSET S, s # {}
      PROVE  \E y \in s : s \ {y} \in Holds => s \in Holds
  <2>1. Picked(s) \in s /\ F[s] = f[Picked(s)] + F[s \ {Picked(s)}]
    BY <1>1, <1>2, <1>4 DEF Sums, Picked
  <2> QED BY <1>1, <2>1
<1>5. \A s \in SUBSET S : s \in Holds
  <2> HIDE DEF Holds
  <2> QED BY <1>3, <1>4, SubsetInduction
<1> QED BY <1>2, <1>5 DEF f

(* What holds of two zeros, and goes on holding as a term of each is added,
   holds of two sums. *)
LEMMA TotalsRelated ==
  ASSUME NEW S, IsFiniteSet(S), NEW f \in [S -> Int], NEW g \in [S -> Int], NEW R, <<0, 0>> \in R,
         \A a, b \in Int, x \in S : <<a, b>> \in R => <<f[x] + a, g[x] + b>> \in R
  PROVE  <<Total(f), Total(g)>> \in R
<1>1. PICK F : Sums(F, f) /\ Total(f) = F[S]
  BY TotalIsSum
<1>2. PICK G : Sums(G, g) /\ Total(g) = G[S]
  BY TotalIsSum
<1> DEFINE Holds == {s \in SUBSET S : <<F[s], G[s]>> \in R}
<1>3. {} \in Holds
  <2>1. {} \in SUBSET DOMAIN f /\ {} \in SUBSET DOMAIN g /\ {} \in SUBSET S
    OBVIOUS
  <2>2. F[{}] = 0 /\ G[{}] = 0
    BY <1>1, <1>2, <2>1 DEF Sums
  <2> QED BY <2>1, <2>2
<1>4. ASSUME NEW s \in SUBSET S, s # {}
      PROVE  \E y \in s : s \ {y} \in Holds => s \in Holds
  <2> DEFINE y == Picked(s)
             t == s \ {y}
  <2>1. y \in s /\ y \in S /\ t \in SUBSET S
    BY <1>4 DEF Picked
  <2>2. F[s] = f[y] + F[t] /\ G[s] = g[y] + G[t]
    BY <1>1, <1>2, <1>4 DEF Sums
  <2>3. F[t] \in Int /\ G[t] \in Int
    BY <1>1, <1>2, <2>1 DEF Sums
  <2> HIDE DEF y
  <2> HIDE DEF t
  <2>4. ASSUME t \in Holds
        PROVE  s \in Holds
    <3>1. <<F[t], G[t]>> \in R
      BY <2>4
    <3> QED BY <2>1, <2>2, <2>3, <3>1
  <2> QED BY <2>1, <2>4 DEF t
<1>5. \A s \in SUBSET S : s \in Holds
  <2> HIDE DEF Holds
  <2> QED BY <1>3, <1>4, SubsetInduction
<1> QED BY <1>1, <1>2, <1>5

(* The sum of the terms of two functions is the sum of their sums. *)
LEMMA TotalOfPairs ==
  ASSUME NEW S, IsFiniteSet(S), NEW f \in [S -> Int], NEW g \in [S -> Int]
  PROVE  Total([x \in S |-> f[x] + g[x]]) = Total(f) + Total(g)
<1> DEFINE h == [x \in S |-> f[x] + g[x]]
<1>1. h \in [S -> Int] /\ \A x \in S : h[x] = f[x] + g[x]
  OBVIOUS
<1> HIDE DEF h
<1> DEFINE Upto(s) == [x \in S |-> IF x \in s THEN h[x] ELSE f[x]]
<1>2. PICK G : Sums(G, g) /\ Total(g) = G[S]
  BY TotalIsSum
<1> DEFINE Holds == {s \in SUBSET S : Total(Upto(s)) = Total(f) + G[s]}
<1>3. {} \in Holds
  <2>1. {} \in SUBSET DOMAIN g /\ {} \in SUBSET S
    OBVIOUS
  <2>2. G[{}] = 0
    BY <1>2, <2>1 DEF Sums
  <2>3. Upto({}) = f
    OBVIOUS
  <2>4. Total(f) \in Int
    BY TotalType
  <2> HIDE DEF Upto
  <2> QED BY <2>1, <2>2, <2>3, <2>4
<1>4. ASSUME NEW s \in SUBSET S, s # {}
      PROVE  \E y \in s : s \ {y} \in Holds => s \in Holds
  <2> DEFINE y == Picked(s)
             t == s \ {y}
  <2>1. y \in s /\ y \in S /\ t \in SUBSET S
    BY <1>4 DEF Picked
  <2>2. G[s] = g[y] + G[t]
    BY <1>2, <1>4 DEF Sums
  <2>3. G[t] \in Int /\ Total(f) \in Int
    BY <1>2, <2>1, TotalType DEF Sums
  <2>4. /\ Upto(s) \in [S -> Int] /\ Upto(t) \in [S -> Int]
        /\ Upto(s)[y] = f[y] + g[y] /\ Upto(t)[y] = f[y]
        /\ \A x \in S \ {y} : Upto(s)[x] = Upto(t)[x]
    BY <1>1, <2>1
  <2>5. g[y] \in Int /\ f[y] \in Int
    BY <2>1
  <2> HIDE DEF y
  <2> HIDE DEF t, Upto
  <2>6. Total(Upto(s)) = Total(Upto(t)) + Upto(s)[y] - Upto(t)[y]
    BY <2>1, <2>4, TotalOfChange
  <2>7. ASSUME t \in Holds
        PROVE  s \in Holds
    <3>1. Total(Upto(t)) = Total(f) + G[t]
      BY <2>7
    <3>2. Total(Upto(s)) = Total(f) + G[s]
      BY <2>2, <2>3, <2>4, <2>5, <2>6, <3>1
    <3> QED BY <3>2
  <2> QED BY <2>1, <2>7 DEF t
<1>5. \A s \in SUBSET S : s \in Holds
  <2> HIDE DEF Holds
  <2> QED BY <1>3, <1>4, SubsetInduction
<1>6. Upto(S) = h
  BY <1>1
<1> HIDE DEF Upto
<1> QED BY <1>2, <1>5, <1>6 DEF h

(* Terms that are zero outside a set do not count. *)
LEMMA TotalOnSubset ==
  ASSUME NEW S, IsFiniteSet(S), NEW U \in SUBSET S, NEW g \in [U -> Int]
  PROVE  Total([x \in S |-> IF x \in U THEN g[x] ELSE 0]) = Total(g)
<1> DEFINE Upto(u) == [x \in S |-> IF x \in u THEN g[x] ELSE 0]
<1>1. IsFiniteSet(U)
  BY FS_Subset
<1>2. PICK G : Sums(G, g) /\ Total(g) = G[U]
  BY <1>1, TotalIsSum
<1> DEFINE Holds == {u \in SUBSET U : Total(Upto(u)) = G[u]}
<1>3. {} \in Holds
  <2>1. {} \in SUBSET DOMAIN g /\ {} \in SUBSET U
    OBVIOUS
  <2>2. G[{}] = 0
    BY <1>2, <2>1 DEF Sums
  <2>3. Upto({}) = [x \in S |-> 0]
    OBVIOUS
  <2> HIDE DEF Upto
  <2>4. Total(Upto({})) = 0
    BY <2>3, TotalOfZeros
  <2> QED BY <2>1, <2>2, <2>4
<1>4. ASSUME NEW u \in SUBSET U, u # {}
      PROVE  \E y \in u : u \ {y} \in Holds => u \in Holds
  <2> DEFINE y == Picked(u)
             t == u \ {y}
  <2>1. y \in u /\ y \in U /\ t \in SUBSET U /\ y \in S
    BY <1>4 DEF Picked
  <2>2. G[u] = g[y] + G[t]
    BY <1>2, <1>4 DEF Sums
  <2>3. G[t] \in Int
    BY <1>2, <2>1 DEF Sums
  <2>4. /\ Upto(u) \in [S -> Int] /\ Upto(t) \in [S -> Int]
        /\ Upto(u)[y] = g[y] /\ Upto(t)[y] = 0
        /\ \A x \in S \ {y} : Upto(u)[x] = Upto(t)[x]
    BY <2>1
  <2>5. g[y] \in Int
    BY <2>1
  <2> HIDE DEF y
  <2> HIDE DEF t, Upto
  <2>6. Total(Upto(u)) = Total(Upto(t)) + Upto(u)[y] - Upto(t)[y]
    BY <2>1, <2>4, TotalOfChange
  <2>7. ASSUME t \in Holds
        PROVE  u \in Holds
    <3>1. Total(Upto(t)) = G[t]
      BY <2>7
    <3>2. Total(Upto(u)) = G[u]
      BY <2>2, <2>3, <2>4, <2>5, <2>6, <3>1
    <3> QED BY <3>2
  <2> QED BY <2>1, <2>7 DEF t
<1>5. \A u \in SUBSET U : u \in Holds
  <2> HIDE DEF Holds
  <2> QED BY <1>1, <1>3, <1>4, SubsetInduction
<1> HIDE DEF Upto
<1>6. Total(Upto(U)) = Total(g)
  BY <1>2, <1>5
<1> QED BY <1>6 DEF Upto

(* No term of a sum of naturals is larger than the sum. *)
LEMMA TotalOfMember ==
  ASSUME NEW S, IsFiniteSet(S), NEW f \in [S -> Nat], NEW x \in S
  PROVE  f[x] <= Total(f) /\ Total(f) \in Nat
<1> DEFINE z == [y \in S |-> 0]
           g == [f EXCEPT ![x] = 0]
<1>1. z \in [S -> Int] /\ f \in [S -> Int] /\ g \in [S -> Int]
      /\ g[x] = 0 /\ (\A y \in S \ {x} : g[y] = f[y]) /\ (\A y \in S : z[y] <= g[y] /\ z[y] <= f[y])
  OBVIOUS
<1>2. Total(z) = 0
  BY TotalOfZeros
<1> HIDE DEF z, g
<1>3. 0 <= Total(g) /\ 0 <= Total(f) /\ Total(f) \in Int /\ Total(g) \in Int
  BY <1>1, <1>2, TotalOfSmaller, TotalType
<1>4. Total(g) = Total(f) + g[x] - f[x]
  BY <1>1, TotalOfChange
<1> QED BY <1>1, <1>3, <1>4

(* Shares of an amount in proportion to parts of a whole are not more than the
   amount. *)
LEMMA SharesWithin ==
  ASSUME NEW S, IsFiniteSet(S), NEW f \in [S -> Nat], NEW g \in [S -> Nat],
         NEW whole \in Nat \ {0}, NEW amount \in Nat, Total(f) <= whole,
         \A x \in S : whole * g[x] <= f[x] * amount
  PROVE  Total(g) <= amount
<1> DEFINE R == {p \in Int \X Int : whole * p[2] <= p[1] * amount}
<1>1. <<0, 0>> \in R
  OBVIOUS
<1>2. ASSUME NEW a \in Int, NEW b \in Int, NEW x \in S, <<a, b>> \in R
      PROVE  <<f[x] + a, g[x] + b>> \in R
  <2>1. whole * b <= a * amount /\ whole * g[x] <= f[x] * amount
    BY <1>2
  <2>2. f[x] \in Int /\ g[x] \in Int
    OBVIOUS
  <2>3. whole * (g[x] + b) = whole * g[x] + whole * b /\ (f[x] + a) * amount = f[x] * amount + a * amount
    BY <2>2
  <2>4. whole * (g[x] + b) <= (f[x] + a) * amount
    BY <2>1, <2>2, <2>3
  <2> QED BY <2>2, <2>4
<1>3. f \in [S -> Int] /\ g \in [S -> Int]
  OBVIOUS
<1> HIDE DEF R
<1>4. <<Total(f), Total(g)>> \in R
  BY <1>1, <1>2, <1>3, TotalsRelated
<1>5. whole * Total(g) <= Total(f) * amount /\ Total(f) \in Int /\ Total(g) \in Int
  BY <1>3, <1>4, TotalType DEF R
<1>6. Total(f) * amount <= whole * amount
  BY <1>5
<1>7. whole * Total(g) <= whole * amount
  BY <1>5, <1>6
<1> QED BY <1>5, <1>7

------------------------------------------------------------------------------
(* What FoldLeft computes of the places 1 to n of a sequence: the value of each
   set of places is that of the set without its last place, one step on. *)
Folding(F, n, V, base, step) ==
    /\ F \in [SUBSET (1..n) -> V]
    /\ F[{}] = base
    /\ \A w \in SUBSET (1..n) :
          w # {} => /\ Max(w) \in 1..n /\ w \ {Max(w)} \in SUBSET (1..n)
                    /\ F[w] = step[<<F[w \ {Max(w)}], Max(w)>>]

(* As much is known of what it computes before its values are known to be in V. *)
Follows(F, n, V, base, step) ==
    /\ F[{}] = base
    /\ \A w \in SUBSET (1..n) :
          w # {} /\ F[w \ {Max(w)}] \in V => F[w] = step[<<F[w \ {Max(w)}], Max(w)>>]

(* The values on the way to that of all places. *)
Run(r, F, n, V, base, step) ==
    /\ r \in [0..n -> V]
    /\ r[0] = base /\ r[n] = F[1..n]
    /\ \A i \in 1..n : r[i] = step[<<r[i - 1], i>>]

LEMMA FoldingExists ==
  ASSUME NEW n \in Nat, NEW V, NEW base \in V, NEW step \in [V \X (1..n) -> V]
  PROVE  \E F : Folding(F, n, V, base, step)
<1> DEFINE D == 1..n
           choice == [w \in SUBSET D |-> Max(w)]
<1>1. IsFiniteSet(D) /\ \A w \in SUBSET D : w # {} => Max(w) \in w
  <2>1. 1 \in Int /\ n \in Int
    OBVIOUS
  <2>2. IsFiniteSet(1..n)
    BY <2>1, FS_Interval
  <2> QED BY <2>2, MaxIsMember
<1>2. \A w \in SUBSET D : choice[w] = Max(w)
  OBVIOUS
<1> HIDE DEF D, choice
<1>3. step \in [V \X D -> V]
  BY DEF D
<1>4. PICK F : Descent(F, D, V, base, step, choice)
  BY <1>1, <1>2, <1>3, SubsetRecursion
<1>5. F \in [SUBSET D -> V] /\ F[{}] = base
  BY <1>4 DEF Descent
<1>6. ASSUME NEW w \in SUBSET D, w # {}
      PROVE  Max(w) \in D /\ w \ {Max(w)} \in SUBSET D /\ F[w] = step[<<F[w \ {Max(w)}], Max(w)>>]
  <2>1. F[w] = step[<<F[w \ {choice[w]}], choice[w]>>]
    BY <1>4, <1>6 DEF Descent
  <2> QED BY <1>1, <1>2, <1>6, <2>1
<1> QED BY <1>5, <1>6 DEF D, Folding

(* It does so from the first to the last. *)
LEMMA FoldRuns ==
  ASSUME NEW n \in Nat, NEW V, NEW base \in V, NEW step \in [V \X (1..n) -> V],
         NEW F, Follows(F, n, V, base, step)
  PROVE  \E r : Run(r, F, n, V, base, step)
<1> DEFINE r == [i \in 0..n |-> F[1..i]]
           Holds == {i \in 0..n : F[1..i] \in V}
<1>1. ASSUME NEW i \in 1..n, F[1..(i - 1)] \in V
      PROVE  F[1..i] = step[<<F[1..(i - 1)], i>>]
  <2>1. Max(1..i) = i
    <3>1. 1..i \in SUBSET (1..n) /\ 1..i # {}
      OBVIOUS
    <3>2. Max(1..i) \in 1..i /\ \A y \in 1..i : Max(1..i) >= y
      BY <3>1, MaxIsMember
    <3> QED BY <3>2
  <2>2. 1..i \in SUBSET (1..n) /\ 1..i # {}
    OBVIOUS
  <2>3. (1..i) \ {i} = 1..(i - 1)
    <3>1. \A x : x \in (1..i) \ {i} <=> x \in 1..(i - 1)
      OBVIOUS
    <3> QED BY <3>1
  <2> QED BY <1>1, <2>1, <2>2, <2>3 DEF Follows
<1>2. F[1..0] = base
  <2>1. 1..0 = {}
    OBVIOUS
  <2> QED BY <2>1 DEF Follows
<1>3. 0 \in Holds
  BY <1>2
<1>4. \A i \in 0..n : i \in Holds /\ i < n => i + 1 \in Holds
  <2> SUFFICES ASSUME NEW i \in 0..n, i \in Holds, i < n
               PROVE  i + 1 \in Holds
    OBVIOUS
  <2>1. i + 1 \in 1..n /\ (i + 1) - 1 = i
    OBVIOUS
  <2>2. F[1..(i + 1)] = step[<<F[1..i], i + 1>>]
    BY <1>1, <2>1
  <2>3. <<F[1..i], i + 1>> \in V \X (1..n)
    BY <2>1
  <2> QED BY <2>1, <2>2, <2>3
<1>5. \A i \in 0..n : i \in Holds
  <2> HIDE DEF Holds
  <2>1. 0 \in Int /\ n \in Int
    OBVIOUS
  <2> QED BY <1>3, <1>4, <2>1, IntervalInduction
<1>6. r \in [0..n -> V] /\ \A i \in 0..n : r[i] = F[1..i]
  BY <1>5
<1>7. r[0] = base /\ r[n] = F[1..n]
  BY <1>2, <1>6
<1>8. \A i \in 1..n : r[i] = step[<<r[i - 1], i>>]
  <2> SUFFICES ASSUME NEW i \in 1..n
               PROVE  r[i] = step[<<r[i - 1], i>>]
    OBVIOUS
  <2>1. i \in 0..n /\ i - 1 \in 0..n
    OBVIOUS
  <2> QED BY <1>1, <1>5, <1>6, <2>1
<1> HIDE DEF r
<1> QED BY <1>6, <1>7, <1>8 DEF Run

=============================================================================
