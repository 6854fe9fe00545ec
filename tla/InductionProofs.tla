-------------------------- MODULE InductionProofs --------------------------
(***************************************************************************)
(* Induction, recursive functions and sums.                                *)
(*                                                                         *)
(* An induction is made in first order, from a least counterexample.  What *)
(* a recursive function is at each argument follows once there is such a   *)
(* function: this is an induction of this kind, made once for functions of *)
(* a number and once for the library's sum, which goes through the subsets *)
(* of its domain.                                                          *)
(***************************************************************************)
EXTENDS Picks, Integers, Functions, FiniteSetTheorems, SequenceTheorems,
        WellFoundedInduction, TLAPS

----------------------------------------------------------------------------
(* Induction.                                                              *)

\* A set of subsets of a finite set has a member from which no element can be
\* taken without leaving the set: induction over finite sets, in first order.
LEMMA LeastSubset ==
  ASSUME NEW S, IsFiniteSet(S), NEW T, T \subseteq SUBSET S, T # {}
  PROVE  \E m \in T : \A x \in m : m \ {x} \notin T
<1>1. IsWellFoundedOn(StrictSubsetOrdering(S), SUBSET S)
  BY FS_StrictSubsetOrderingWellFounded, FS_FiniteSubsetsOfFinite
<1>2. PICK m \in T : \A y \in T : <<y, m>> \notin StrictSubsetOrdering(S)
  BY <1>1, WFMin
<1>3. \A x \in m : <<m \ {x}, m>> \in StrictSubsetOrdering(S)
  BY DEF StrictSubsetOrdering
<1> QED
  BY <1>2, <1>3

\* So has a set of numbers a least member.
LEMMA LeastNumber ==
  ASSUME NEW T, T \subseteq Nat, T # {}
  PROVE  \E m \in T : \A k \in T : m <= k
<1> DEFINE R == OpToRel(<, Nat)
<1>1. IsWellFoundedOn(R, Nat)
  BY NatLessThanWellFounded
<1> HIDE DEF R
<1>2. PICK m \in T : \A k \in T : <<k, m>> \notin R
  BY <1>1, WFMin
<1>3. \A k \in T : k < m => <<k, m>> \in R
  BY DEF R, OpToRel
<1>4. \A k \in T : ~(k < m)
  BY <1>2, <1>3
<1> QED
  BY <1>4

\* The function f starts with base and goes on as next says.
Follows(f, N, base, next) ==
  \A i \in 0..N : f[i] = IF i = 0 THEN base ELSE next[<<i, f[i - 1]>>]

\* A function given at zero, and at each further number by the one before, is
\* given: there is a function like that.
LEMMA RecursiveFunctionExists ==
  ASSUME NEW N \in Nat, NEW A, NEW base \in A, NEW next \in [(1..N) \X A -> A]
  PROVE  \E f \in [0..N -> A] : Follows(f, N, base, next)
<1> DEFINE Given(n) == \E f \in [0..n -> A] :
             \A i \in 0..n : f[i] = IF i = 0 THEN base ELSE next[<<i, f[i - 1]>>]
           T == {n \in 0..N : ~Given(n)}
<1>1. Given(0)
  <2> DEFINE f == [i \in 0..0 |-> base]
  <2>1. f \in [0..0 -> A] /\ \A i \in 0..0 : i = 0 /\ f[i] = base
    OBVIOUS
  <2> HIDE DEF f
  <2> QED
    BY <2>1
<1>2. ASSUME NEW n \in Nat, n + 1 \in 0..N, Given(n)
      PROVE  Given(n + 1)
  <2>1. PICK f \in [0..n -> A] :
          \A i \in 0..n : f[i] = IF i = 0 THEN base ELSE next[<<i, f[i - 1]>>]
    BY <1>2
  <2> DEFINE last == next[<<n + 1, f[n]>>]
             g == [i \in 0..(n + 1) |-> IF i = n + 1 THEN last ELSE f[i]]
  <2>2. last \in A
    <3>1. n + 1 \in 1..N /\ f[n] \in A
      BY <1>2, <2>1
    <3> QED
      BY <3>1
  <2> HIDE DEF last
  <2>3. g \in [0..(n + 1) -> A]
    BY <2>2
  <2>4. ASSUME NEW i \in 0..(n + 1)
        PROVE  g[i] = IF i = 0 THEN base ELSE next[<<i, g[i - 1]>>]
    <3>1. CASE i = n + 1
      <4>1. i # 0 /\ i - 1 = n /\ g[i - 1] = f[n] /\ g[i] = last
        BY <3>1
      <4> QED
        BY <3>1, <4>1 DEF last
    <3>2. CASE i \in 0..n
      <4>1. g[i] = f[i] /\ (i # 0 => g[i - 1] = f[i - 1])
        BY <3>2
      <4> QED
        BY <2>1, <3>2, <4>1
    <3> QED
      BY <3>1, <3>2
  <2> QED
    BY <2>3, <2>4
<1> HIDE DEF Given
<1>3. T = {}
  <2> SUFFICES ASSUME T # {} PROVE FALSE
    OBVIOUS
  <2>1. PICK m \in T : \A k \in T : m <= k
    <3>1. T \subseteq Nat
      OBVIOUS
    <3> HIDE DEF T
    <3> QED
      BY <3>1, LeastNumber
  <2>2. m # 0 /\ m \in 0..N
    BY <1>1, <2>1
  <2>3. m - 1 \in Nat /\ (m - 1) + 1 = m /\ m - 1 \notin T
    BY <2>1, <2>2
  <2> QED
    BY <1>2, <2>1, <2>2, <2>3
<1> QED
  BY <1>3 DEF Given, Follows

----------------------------------------------------------------------------
(* Sums over a finite set.                                                 *)

Chosen(s) == CHOOSE x \in s : TRUE

\* What one step of the sum of f over s adds to the sums of smaller sets.
SumStep(f, it, s) == IF s = {} THEN 0 ELSE f[Chosen(s)] + it[s \ {Chosen(s)}]

\* The sums of f over all subsets of S.
IsSums(f, S, it) == it = [s \in SUBSET S |-> SumStep(f, it, s)]

Sums(f, S) == CHOOSE it : IsSums(f, S, it)

\* The library's sum is one of them.
LEMMA SumIsSums ==
  ASSUME NEW f, NEW S
  PROVE  SumFunctionOnSet(f, S) = Sums(f, S)[S]
  BY DEF SumFunctionOnSet, FoldFunctionOnSet, MapThenFoldSet, Sums, IsSums, SumStep, Chosen

Small(S, n) == {s \in SUBSET S : Cardinality(s) <= n}

\* There are such sums over a finite set: those of the sets of at most n elements give
\* those of the sets with one more.
LEMMA SumsExist ==
  ASSUME NEW S, IsFiniteSet(S), NEW f \in [S -> Int]
  PROVE  \E it \in [SUBSET S -> Int] : IsSums(f, S, it)
<1> DEFINE Summed(n) == \E it \in [Small(S, n) -> Int] :
                          \A s \in Small(S, n) : it[s] = SumStep(f, it, s)
<1>1. \A s \in SUBSET S : IsFiniteSet(s) /\ Cardinality(s) \in Nat
  BY FS_Subset, FS_CardinalityType
<1>2. Summed(0)
  <2>1. \A s \in Small(S, 0) : s = {}
    BY <1>1, FS_EmptySet DEF Small
  <2> DEFINE it == [s \in Small(S, 0) |-> 0]
  <2>2. it \in [Small(S, 0) -> Int] /\ \A s \in Small(S, 0) : it[s] = SumStep(f, it, s)
    BY <2>1 DEF SumStep
  <2> QED
    BY <2>2
<1>3. ASSUME NEW n \in Nat, Summed(n)
      PROVE  Summed(n + 1)
  <2>1. PICK it \in [Small(S, n) -> Int] : \A s \in Small(S, n) : it[s] = SumStep(f, it, s)
    BY <1>3
  <2> DEFINE more == [s \in Small(S, n + 1) |-> SumStep(f, it, s)]
  <2>2. ASSUME NEW s \in Small(S, n + 1), s # {}
        PROVE  Chosen(s) \in s /\ s \ {Chosen(s)} \in Small(S, n)
    <3>1. Chosen(s) \in s
      BY <2>2 DEF Chosen
    <3>2. Cardinality(s \ {Chosen(s)}) = Cardinality(s) - 1
      BY <1>1, <3>1, FS_RemoveElement DEF Small
    <3> QED
      BY <1>1, <3>1, <3>2 DEF Small
  <2>3. Small(S, n) \subseteq Small(S, n + 1)
    BY <1>1 DEF Small
  <2>4. \A s \in Small(S, n) : more[s] = it[s]
    BY <2>1, <2>3
  <2>5. more \in [Small(S, n + 1) -> Int]
    BY <2>2 DEF SumStep, Small
  <2>6. \A s \in Small(S, n + 1) : more[s] = SumStep(f, more, s)
    BY <2>2, <2>4 DEF SumStep
  <2> QED
    BY <2>5, <2>6
<1> DEFINE T == {n \in Nat : ~Summed(n)}
<1> HIDE DEF Summed
<1>4. T = {}
  <2> SUFFICES ASSUME T # {} PROVE FALSE
    OBVIOUS
  <2>1. PICK m \in T : \A k \in T : m <= k
    BY LeastNumber
  <2>2. m # 0
    BY <1>2
  <2>3. m - 1 \in Nat /\ m - 1 \notin T
    BY <2>1, <2>2
  <2> QED
    BY <1>3, <2>3
<1>5. Summed(Cardinality(S))
  BY <1>1, <1>4
<1>6. Small(S, Cardinality(S)) = SUBSET S
  BY FS_Subset DEF Small
<1>7. PICK it \in [SUBSET S -> Int] : \A s \in SUBSET S : it[s] = SumStep(f, it, s)
  BY <1>5, <1>6 DEF Summed
<1> QED
  BY <1>7 DEF IsSums

\* What the sums are: numbers, none for no elements, and one element at a time.
LEMMA SumsFacts ==
  ASSUME NEW S, IsFiniteSet(S), NEW f \in [S -> Int]
  PROVE  /\ \A s \in SUBSET S : Sums(f, S)[s] = SumStep(f, Sums(f, S), s)
         /\ Sums(f, S) \in [SUBSET S -> Int]
<1> DEFINE it == Sums(f, S)
<1>1. IsSums(f, S, it)
  BY SumsExist DEF Sums
<1> HIDE DEF it
<1>2. DOMAIN it = SUBSET S /\ \A s \in SUBSET S : it[s] = SumStep(f, it, s)
  BY <1>1 DEF IsSums
<1> DEFINE T == {s \in SUBSET S : it[s] \notin Int}
<1>3. T = {}
  <2> SUFFICES ASSUME T # {} PROVE FALSE
    OBVIOUS
  <2>1. PICK m \in T : \A x \in m : m \ {x} \notin T
    BY LeastSubset
  <2>2. m # {}
    <3>1. {} \in SUBSET S /\ SumStep(f, it, {}) = 0
      BY DEF SumStep
    <3>2. it[{}] = 0
      BY <1>2, <3>1
    <3>3. {} \notin T
      BY <3>2
    <3> QED
      BY <2>1, <3>3
  <2>3. Chosen(m) \in m
    BY <2>2 DEF Chosen
  <2>4. it[m \ {Chosen(m)}] \in Int
    BY <2>1, <2>3
  <2> QED
    BY <1>2, <2>2, <2>3, <2>4 DEF SumStep
<1>4. it = [s \in SUBSET S |-> it[s]]
  BY <1>1 DEF IsSums
<1>5. it \in [SUBSET S -> Int]
  BY <1>3, <1>4
<1> QED
  BY <1>2, <1>5 DEF it

\* Adding to one element adds to the sum.
LEMMA SumOfChanged ==
  ASSUME NEW S, IsFiniteSet(S), NEW f \in [S -> Int], NEW a \in S, NEW d \in Int,
         NEW g \in [S -> Int], g[a] = f[a] + d, \A x \in S \ {a} : g[x] = f[x]
  PROVE  SumFunction(g) = SumFunction(f) + d /\ SumFunction(f) \in Int
<1> DEFINE F == Sums(f, S)
           G == Sums(g, S)
           More(s) == IF a \in s THEN d ELSE 0
           T == {s \in SUBSET S : G[s] # F[s] + More(s)}
<1>1. /\ F \in [SUBSET S -> Int] /\ G \in [SUBSET S -> Int]
      /\ \A s \in SUBSET S : F[s] = SumStep(f, F, s) /\ G[s] = SumStep(g, G, s)
  BY SumsFacts
<1> HIDE DEF F, G
<1>2. T = {}
  <2> SUFFICES ASSUME T # {} PROVE FALSE
    OBVIOUS
  <2>1. PICK m \in T : \A x \in m : m \ {x} \notin T
    BY LeastSubset
  <2>2. m # {}
    <3>1. F[{}] = 0 /\ G[{}] = 0
      BY <1>1 DEF SumStep
    <3>2. G[m] # F[m] + More(m)
      BY <2>1
    <3>3. ASSUME m = {} PROVE FALSE
      <4>1. G[m] = 0 /\ F[m] = 0 /\ More(m) = 0
        BY <3>1, <3>3
      <4> QED
        BY <3>2, <4>1
    <3> QED
      BY <3>3
  <2> DEFINE x == Chosen(m)
  <2>3. x \in m
    BY <2>2 DEF Chosen
  <2> HIDE DEF x
  <2>4. G[m \ {x}] = F[m \ {x}] + More(m \ {x})
    BY <2>1, <2>3
  <2>5. G[m] = g[x] + G[m \ {x}] /\ F[m] = f[x] + F[m \ {x}]
    BY <1>1, <2>2 DEF SumStep, x
  <2>6. F[m \ {x}] \in Int /\ f[x] \in Int /\ g[x] \in Int /\ x \in S
    BY <1>1, <2>3
  <2>7. CASE x = a
    BY <2>3, <2>4, <2>5, <2>6, <2>7
  <2>8. CASE x # a
    <3>1. g[x] = f[x] /\ More(m \ {x}) = More(m) /\ More(m) \in Int
      BY <2>6, <2>8
    <3> HIDE DEF More
    <3>2. G[m] = F[m] + More(m)
      BY <2>4, <2>5, <2>6, <3>1
    <3> QED
      BY <3>2
  <2> QED
    BY <2>7, <2>8
<1>3. G[S] = F[S] + d /\ F[S] \in Int
  BY <1>1, <1>2
<1> QED
  BY <1>3, SumIsSums DEF SumFunction, F, G

\* A sum depends on the values alone.
LEMMA SumOfSame ==
  ASSUME NEW S, NEW f \in [S -> Int], NEW g \in [S -> Int], \A x \in S : g[x] = f[x]
  PROVE  SumFunction(g) = SumFunction(f)
<1>1. f = g
  OBVIOUS
<1> QED
  BY <1>1

\* The elements may be added in any order.
LEMMA SumsInAnyOrder ==
  ASSUME NEW S, IsFiniteSet(S), NEW f \in [S -> Int], NEW s \in SUBSET S, NEW x \in s
  PROVE  Sums(f, S)[s] = f[x] + Sums(f, S)[s \ {x}]
<1> DEFINE F == Sums(f, S)
           T == {r \in SUBSET S : \E y \in r : F[r] # f[y] + F[r \ {y}]}
<1>1. /\ F \in [SUBSET S -> Int]
      /\ \A r \in SUBSET S : F[r] = SumStep(f, F, r)
  BY SumsFacts
<1> HIDE DEF F
<1>2. T = {}
  <2> SUFFICES ASSUME T # {} PROVE FALSE
    OBVIOUS
  <2>1. PICK m \in T : \A y \in m : m \ {y} \notin T
    BY LeastSubset
  <2>2. PICK y \in m : F[m] # f[y] + F[m \ {y}]
    BY <2>1
  <2> DEFINE d == Chosen(m)
  <2>3. d \in m
    BY <2>2 DEF Chosen
  <2>4. F[m] = f[d] + F[m \ {d}]
    BY <1>1, <2>2 DEF SumStep
  <2> HIDE DEF d
  <2>5. d # y
    BY <2>2, <2>4
  <2>6. y \in m \ {d} /\ d \in m \ {y} /\ m \ {d} \in SUBSET S /\ m \ {y} \in SUBSET S
    BY <2>3, <2>5
  <2>7. F[m \ {d}] = f[y] + F[(m \ {d}) \ {y}]
    BY <2>1, <2>3, <2>6
  <2>8. F[m \ {y}] = f[d] + F[(m \ {y}) \ {d}]
    BY <2>1, <2>6
  <2>9. (m \ {d}) \ {y} = (m \ {y}) \ {d} /\ (m \ {y}) \ {d} \in SUBSET S
    OBVIOUS
  <2>10. F[(m \ {y}) \ {d}] \in Int /\ f[d] \in Int /\ f[y] \in Int
    BY <1>1, <2>3, <2>9
  <2> DEFINE rest == F[(m \ {y}) \ {d}]
  <2>11. F[m] = f[d] + (f[y] + rest)
    BY <2>4, <2>7, <2>9
  <2>12. f[y] + F[m \ {y}] = f[y] + (f[d] + rest)
    BY <2>8
  <2>13. rest \in Int
    BY <2>10
  <2> HIDE DEF rest
  <2>14. f[d] + (f[y] + rest) = f[y] + (f[d] + rest)
    BY <2>10, <2>13
  <2> QED
    BY <2>2, <2>11, <2>12, <2>14
<1> QED
  BY <1>2 DEF F

\* One element more adds its value to the sum.
LEMMA SumOfMore ==
  ASSUME NEW S, IsFiniteSet(S), NEW x, x \notin S,
         NEW f \in [S -> Int], NEW g \in [S \cup {x} -> Int],
         \A y \in S : g[y] = f[y]
  PROVE  SumFunction(g) = SumFunction(f) + g[x] /\ SumFunction(f) \in Int
<1> DEFINE R == S \cup {x}
           F == Sums(f, S)
           G == Sums(g, R)
           T == {s \in SUBSET S : G[s] # F[s]}
<1>1. IsFiniteSet(R)
  BY FS_AddElement
<1>2. /\ F \in [SUBSET S -> Int]
      /\ \A s \in SUBSET S : F[s] = SumStep(f, F, s)
  BY SumsFacts
<1>3. \A s \in SUBSET R : G[s] = SumStep(g, G, s)
  BY <1>1, SumsFacts
<1>4. R \in SUBSET R /\ x \in R /\ R \ {x} = S
  OBVIOUS
<1>5. G[R] = g[x] + G[S]
  BY <1>1, <1>4, SumsInAnyOrder
<1>6. SUBSET S \subseteq SUBSET R
  OBVIOUS
<1>7. SumFunction(g) = G[R] /\ SumFunction(f) = F[S]
  BY SumIsSums DEF SumFunction
<1> HIDE DEF F, G, R
<1>8. T = {}
  <2> SUFFICES ASSUME T # {} PROVE FALSE
    OBVIOUS
  <2>1. PICK m \in T : \A y \in m : m \ {y} \notin T
    BY LeastSubset
  <2>2. G[m] = SumStep(g, G, m) /\ F[m] = SumStep(f, F, m)
    BY <1>2, <1>3, <1>6
  <2>3. m # {}
    BY <2>1, <2>2 DEF SumStep
  <2> DEFINE d == Chosen(m)
  <2>4. d \in m
    BY <2>3 DEF Chosen
  <2>5. G[m] = g[d] + G[m \ {d}] /\ F[m] = f[d] + F[m \ {d}]
    BY <2>2, <2>3 DEF SumStep
  <2> HIDE DEF d
  <2>6. G[m \ {d}] = F[m \ {d}] /\ g[d] = f[d]
    BY <2>1, <2>4
  <2>7. G[m] # F[m]
    BY <2>1
  <2> QED
    BY <2>5, <2>6, <2>7
<1>9. G[S] = F[S] /\ F[S] \in Int
  BY <1>2, <1>8
<1>10. g[x] \in Int
  OBVIOUS
<1> QED
  BY <1>5, <1>7, <1>9, <1>10

\* The sum of nothing is zero.
LEMMA SumOfNothing ==
  ASSUME NEW f \in [{} -> Int]
  PROVE  SumFunction(f) = 0
<1>1. IsFiniteSet({})
  BY FS_EmptySet
<1>2. Sums(f, {})[{}] = SumStep(f, Sums(f, {}), {})
  BY <1>1, SumsFacts
<1> QED
  BY <1>2, SumIsSums DEF SumFunction, SumStep

\* A sum of zeros is zero.
LEMMA SumOfZeros ==
  ASSUME NEW S, IsFiniteSet(S), NEW f \in [S -> Int], \A x \in S : f[x] = 0
  PROVE  SumFunction(f) = 0
<1> DEFINE F == Sums(f, S)
           T == {s \in SUBSET S : F[s] # 0}
<1>1. \A s \in SUBSET S : F[s] = SumStep(f, F, s)
  BY SumsFacts
<1>2. SumFunction(f) = F[S]
  BY SumIsSums DEF SumFunction
<1> HIDE DEF F
<1>3. T = {}
  <2> SUFFICES ASSUME T # {} PROVE FALSE
    OBVIOUS
  <2>1. PICK m \in T : \A y \in m : m \ {y} \notin T
    BY LeastSubset
  <2>2. m # {}
    BY <1>1, <2>1 DEF SumStep
  <2> DEFINE d == Chosen(m)
  <2>3. d \in m
    BY <2>2 DEF Chosen
  <2>4. F[m] = f[d] + F[m \ {d}]
    BY <1>1, <2>1, <2>2 DEF SumStep
  <2> HIDE DEF d
  <2>5. F[m \ {d}] = 0 /\ f[d] = 0
    BY <2>1, <2>3
  <2> QED
    BY <2>1, <2>4, <2>5
<1> QED
  BY <1>2, <1>3

\* A sum of naturals is one.
LEMMA SumOfNaturals ==
  ASSUME NEW S, IsFiniteSet(S), NEW f \in [S -> Int], \A x \in S : f[x] >= 0
  PROVE  SumFunction(f) \in Nat
<1> DEFINE F == Sums(f, S)
           T == {s \in SUBSET S : F[s] \notin Nat}
<1>1. \A s \in SUBSET S : F[s] = SumStep(f, F, s)
  BY SumsFacts
<1>2. SumFunction(f) = F[S]
  BY SumIsSums DEF SumFunction
<1> HIDE DEF F
<1>3. T = {}
  <2> SUFFICES ASSUME T # {} PROVE FALSE
    OBVIOUS
  <2>1. PICK m \in T : \A y \in m : m \ {y} \notin T
    BY LeastSubset
  <2>2. m # {}
    <3>1. m = {} => F[m] = 0
      BY <1>1, <2>1 DEF SumStep
    <3> QED
      BY <2>1, <3>1
  <2> DEFINE d == Chosen(m)
  <2>3. d \in m
    BY <2>2 DEF Chosen
  <2>4. F[m] = f[d] + F[m \ {d}]
    BY <1>1, <2>1, <2>2 DEF SumStep
  <2> HIDE DEF d
  <2>5. F[m \ {d}] \in Nat /\ f[d] \in Nat
    BY <2>1, <2>3
  <2> QED
    BY <2>1, <2>4, <2>5
<1> QED
  BY <1>2, <1>3
\* A sum is as large as its terms are.
LEMMA SumOfLarger ==
  ASSUME NEW S, IsFiniteSet(S), NEW f \in [S -> Int], NEW g \in [S -> Int],
         \A x \in S : f[x] <= g[x]
  PROVE  /\ SumFunction(f) \in Int /\ SumFunction(g) \in Int
         /\ SumFunction(f) <= SumFunction(g)
<1> DEFINE F == Sums(f, S)
           G == Sums(g, S)
           T == {s \in SUBSET S : ~(F[s] <= G[s])}
<1>1. /\ F \in [SUBSET S -> Int] /\ G \in [SUBSET S -> Int]
      /\ \A s \in SUBSET S : F[s] = SumStep(f, F, s)
      /\ \A s \in SUBSET S : G[s] = SumStep(g, G, s)
  BY SumsFacts
<1>2. SumFunction(f) = F[S] /\ SumFunction(g) = G[S]
  BY SumIsSums DEF SumFunction
<1> HIDE DEF F, G
<1>3. T = {}
  <2> SUFFICES ASSUME T # {} PROVE FALSE
    OBVIOUS
  <2>1. PICK m \in T : \A y \in m : m \ {y} \notin T
    BY LeastSubset
  <2>2. m # {}
    <3>1. m = {} => F[m] = 0 /\ G[m] = 0
      BY <1>1, <2>1 DEF SumStep
    <3> QED
      BY <2>1, <3>1
  <2> DEFINE d == Chosen(m)
  <2>3. d \in m
    BY <2>2 DEF Chosen
  <2>4. F[m] = f[d] + F[m \ {d}] /\ G[m] = g[d] + G[m \ {d}]
    BY <1>1, <2>1, <2>2 DEF SumStep
  <2> HIDE DEF d
  <2>5. /\ F[m \ {d}] <= G[m \ {d}] /\ f[d] <= g[d]
        /\ F[m \ {d}] \in Int /\ G[m \ {d}] \in Int /\ f[d] \in Int /\ g[d] \in Int
    BY <1>1, <2>1, <2>3
  <2>6. F[m] <= G[m]
    BY <2>4, <2>5
  <2> QED
    BY <2>1, <2>6
<1> QED
  BY <1>1, <1>2, <1>3

\* The sum of the first terms of many.
Total(term, j) == SumFunction([i \in 1..j |-> term[i]])

\* Each adds itself.
LEMMA TotalSums ==
  ASSUME NEW term, NEW n \in Nat, \A i \in 1..n : term[i] \in Int, NEW j \in 0..n
  PROVE  /\ Total(term, j) \in Int
         /\ j # 0 => Total(term, j) = Total(term, j - 1) + term[j]
         /\ j = 0 => Total(term, j) = 0
<1>1. \A h \in 0..n : [i \in 1..h |-> term[i]] \in [1..h -> Int]
  <2> SUFFICES ASSUME NEW h \in 0..n, NEW i \in 1..h
               PROVE  term[i] \in Int
    OBVIOUS
  <2>1. i \in 1..n
    OBVIOUS
  <2> QED
    BY <2>1
<1>2. ASSUME j = 0 PROVE Total(term, j) = 0
  <2> DEFINE f == [i \in 1..j |-> term[i]]
  <2>1. f \in [{} -> Int]
    <3>1. 1..j = {}
      BY <1>2
    <3> QED
      BY <3>1
  <2> HIDE DEF f
  <2>2. SumFunction(f) = 0
    BY <2>1, SumOfNothing
  <2> QED
    BY <2>2 DEF Total, f
<1>3. ASSUME j # 0
      PROVE  Total(term, j) = Total(term, j - 1) + term[j] /\ Total(term, j) \in Int
  <2> DEFINE S == 1..(j - 1)
             f == [i \in S |-> term[i]]
             g == [i \in 1..j |-> term[i]]
             last == j
  <2>1. IsFiniteSet(S) /\ j \notin S /\ 1..j = S \cup {j} /\ j - 1 \in 0..n /\ j \in 1..n
    <3>1. j \in Nat /\ j - 1 \in Int /\ 1 \in Int
      OBVIOUS
    <3>2. IsFiniteSet(S)
      BY <3>1, FS_Interval
    <3>3. j \notin S /\ 1..j = S \cup {j}
      BY <1>3, <3>1
    <3> QED
      BY <1>3, <3>2, <3>3
  <2>2. f \in [S -> Int] /\ g \in [S \cup {j} -> Int] /\ \A i \in S : g[i] = f[i]
    BY <1>1, <2>1
  <2>3. g[j] = term[j] /\ Total(term, j) = SumFunction(g) /\ Total(term, j - 1) = SumFunction(f)
    BY <2>1 DEF Total
  <2> HIDE DEF S, f, g
  <2>4. /\ IsFiniteSet(S) /\ last \notin S /\ f \in [S -> Int]
        /\ g \in [S \cup {last} -> Int] /\ \A i \in S : g[i] = f[i]
    BY <2>1, <2>2
  <2> HIDE DEF last
  <2>5. SumFunction(g) = SumFunction(f) + g[last] /\ SumFunction(f) \in Int
    BY <2>4, SumOfMore
  <2>6. SumFunction(g) = SumFunction(f) + g[j]
    BY <2>5 DEF last
  <2>7. term[j] \in Int
    BY <2>1
  <2> QED
    BY <2>3, <2>5, <2>6, <2>7
<1> QED
  BY <1>2, <1>3

----------------------------------------------------------------------------
(* Sequences of anything.                                                  *)

IsSeq(s) == \E S : s \in Seq(S)

\* What is known of any sequence.
LEMMA SeqFacts ==
  ASSUME NEW s, IsSeq(s)
  PROVE  /\ Len(s) \in Nat /\ DOMAIN s = 1..Len(s)
         /\ s = <<>> <=> Len(s) = 0
<1>1. PICK S : s \in Seq(S)
  BY DEF IsSeq
<1> QED
  BY <1>1

\* The empty sequence is one.
LEMMA EmptyIsSeq ==
  ASSUME NEW s, s = <<>>
  PROVE  IsSeq(s)
<1>1. s \in Seq({s})
  OBVIOUS
<1>2. \E S : s \in Seq(S)
  BY <1>1
<1>3. QED
  BY <1>2 DEF IsSeq

\* So is a sequence with one more element, whatever that is.
LEMMA AppendSeq ==
  ASSUME NEW s, IsSeq(s), NEW x
  PROVE  /\ IsSeq(Append(s, x)) /\ Len(Append(s, x)) = Len(s) + 1
         /\ \A i \in 1..Len(s) : Append(s, x)[i] = s[i]
         /\ Append(s, x)[Len(s) + 1] = x
         /\ Append(s, x) # <<>>
<1>1. PICK S : s \in Seq(S)
  BY DEF IsSeq
<1> DEFINE T == S \cup {x}
<1>2. s \in Seq(T) /\ x \in T
  BY <1>1
<1> HIDE DEF T
<1>3. /\ Append(s, x) \in Seq(T) /\ Len(Append(s, x)) = Len(s) + 1
      /\ \A i \in 1..Len(s) : Append(s, x)[i] = s[i]
      /\ Append(s, x)[Len(s) + 1] = x
      /\ Len(s) \in Nat
  BY <1>2
<1> QED
  BY <1>3 DEF IsSeq

\* And a sequence without its first element.
LEMMA TailSeq ==
  ASSUME NEW s, IsSeq(s), s # <<>>
  PROVE  /\ IsSeq(Tail(s)) /\ Len(Tail(s)) = Len(s) - 1
         /\ \A i \in 1..Len(s) - 1 : Tail(s)[i] = s[i + 1]
         /\ Len(s) \in Nat \ {0}
<1>1. PICK S : s \in Seq(S)
  BY DEF IsSeq
<1>2. /\ Tail(s) \in Seq(S) /\ Len(Tail(s)) = Len(s) - 1
      /\ \A i \in 1..Len(s) - 1 : Tail(s)[i] = s[i + 1]
      /\ Len(s) \in Nat \ {0}
  BY <1>1
<1> QED
  BY <1>2 DEF IsSeq

Replaced(s, c, x) == [s EXCEPT ![c] = x]

\* And one with an element replaced.
LEMMA ReplaceSeq ==
  ASSUME NEW s, IsSeq(s), NEW x, NEW c \in 1..Len(s),
         NEW t, t = Replaced(s, c, x)
  PROVE  /\ IsSeq(t) /\ Len(t) = Len(s) /\ t[c] = x
         /\ \A i \in 1..Len(s) : i # c => t[i] = s[i]
<1>1. PICK S : s \in Seq(S)
  BY DEF IsSeq
<1> DEFINE T == S \cup {x}
<1>2. s \in Seq(T) /\ x \in T
  BY <1>1
<1> HIDE DEF T
<1>3. /\ t \in Seq(T) /\ Len(t) = Len(s) /\ t[c] = x
      /\ \A i \in 1..Len(s) : i # c => t[i] = s[i]
  BY <1>2 DEF Replaced
<1> QED
  BY <1>3 DEF IsSeq

\* What is listed up to a number is a sequence.
LEMMA ListIsSeq ==
  ASSUME NEW n \in Nat, NEW s, s = [i \in 1..n |-> s[i]]
  PROVE  IsSeq(s) /\ Len(s) = n
<1> DEFINE S == {s[i] : i \in 1..n}
<1>1. s \in [1..n -> S]
  OBVIOUS
<1> HIDE DEF S
<1>2. s \in Seq(S)
  BY <1>1, SeqDef
<1>3. Len(s) = n
  BY <1>1, <1>2
<1> QED
  BY <1>2, <1>3 DEF IsSeq

\* Two sequences one behind the other.
LEMMA ConcatSeq ==
  ASSUME NEW s, IsSeq(s), NEW t, IsSeq(t)
  PROVE  /\ IsSeq(s \o t) /\ Len(s \o t) = Len(s) + Len(t)
         /\ Len(s) \in Nat /\ Len(t) \in Nat
         /\ \A i \in 1..Len(s \o t) :
              (s \o t)[i] = IF i <= Len(s) THEN s[i] ELSE t[i - Len(s)]
<1> DEFINE u == s \o t
<1>1. PICK S : s \in Seq(S)
  BY DEF IsSeq
<1>2. PICK T : t \in Seq(T)
  BY DEF IsSeq
<1> DEFINE U == S \cup T
<1>3. s \in Seq(U) /\ t \in Seq(U)
  BY <1>1, <1>2
<1> HIDE DEF U
<1>4. /\ u \in Seq(U) /\ Len(u) = Len(s) + Len(t) /\ Len(s) \in Nat /\ Len(t) \in Nat
      /\ \A i \in 1..Len(u) : u[i] = IF i <= Len(s) THEN s[i] ELSE t[i - Len(s)]
  BY <1>3
<1> QED
  BY <1>4 DEF IsSeq

\* comp.ts, io_wait.  What is picked from a sequence is made by adding the
\* entries at the positions one by one.
LEMMA PickedUpto ==
  ASSUME NEW s, IsSeq(s), NEW I
  PROVE  \E it :
           /\ \A i \in 0..Len(s) : IsSeq(it[i])
           /\ it[0] = <<>>
           /\ \A i \in 1..Len(s) :
                it[i] = IF i \in I THEN Append(it[i - 1], s[i]) ELSE it[i - 1]
           /\ Picked(s, I) = it[Len(s)]
<1>1. PICK S : s \in Seq(S)
  BY DEF IsSeq
<1> DEFINE N == Len(s)
           A == Seq(S)
           IsUpto(f) == f = [i \in 0..N |-> IF i = 0 THEN <<>>
                                           ELSE IF i \in I THEN Append(f[i - 1], s[i])
                                           ELSE f[i - 1]]
           next == [p \in (1..N) \X A |-> IF p[1] \in I THEN Append(p[2], s[p[1]]) ELSE p[2]]
           it == CHOOSE f : IsUpto(f)
<1>2. N \in Nat /\ \A i \in 1..N : s[i] \in S
  BY <1>1
<1>3. Picked(s, I) = it[N]
  BY DEF Picked
<1>4. next \in [(1..N) \X A -> A]
  <2> SUFFICES ASSUME NEW i \in 1..N, NEW t \in A
               PROVE  (IF i \in I THEN Append(t, s[i]) ELSE t) \in A
    OBVIOUS
  <2> QED
    BY <1>2
<1>5. \A i \in 1..N, t \in A : next[<<i, t>>] = IF i \in I THEN Append(t, s[i]) ELSE t
  OBVIOUS
<1>6. <<>> \in A
  OBVIOUS
<1> HIDE DEF next, N, A
<1>7. PICK f \in [0..N -> A] : Follows(f, N, <<>>, next)
  BY <1>2, <1>4, <1>6, RecursiveFunctionExists
<1>8. ASSUME NEW i \in 0..N, i # 0
      PROVE  next[<<i, f[i - 1]>>] = IF i \in I THEN Append(f[i - 1], s[i]) ELSE f[i - 1]
  <2>1. i \in 1..N /\ f[i - 1] \in A
    BY <1>2, <1>7, <1>8
  <2> QED
    BY <1>5, <2>1
<1>9. IsUpto(f)
  <2>1. f = [i \in 0..N |-> f[i]]
    OBVIOUS
  <2> QED
    BY <1>7, <1>8, <2>1 DEF Follows
<1>10. IsUpto(it)
  BY <1>9
<1> HIDE DEF IsUpto, it
<1>11. /\ it[0] = <<>>
       /\ \A i \in 1..N : it[i] = IF i \in I THEN Append(it[i - 1], s[i]) ELSE it[i - 1]
  <2>1. it = [i \in 0..N |-> IF i = 0 THEN <<>>
                             ELSE IF i \in I THEN Append(it[i - 1], s[i])
                             ELSE it[i - 1]]
    BY <1>10 DEF IsUpto
  <2>2. /\ 0 \in 0..N
        /\ \A i \in 1..N : i \in 0..N /\ i # 0
    BY <1>2
  <2> QED
    BY <2>1, <2>2
<1>12. \A i \in 0..N : it[i] \in A
  <2> DEFINE T == {i \in 0..N : it[i] \notin A}
  <2>1. SUFFICES T = {}
    OBVIOUS
  <2>2. ASSUME T # {} PROVE FALSE
    <3>1. T \subseteq Nat
      BY <1>2
    <3> HIDE DEF T
    <3>2. PICK i \in T : \A j \in T : i <= j
      BY <2>2, <3>1, LeastNumber
    <3>3. i \in 0..N /\ it[i] \notin A
      BY <3>2 DEF T
    <3>4. i # 0
      BY <1>6, <1>11, <3>3
    <3>5. i \in 1..N /\ i - 1 \in 0..N /\ i - 1 \notin T
      BY <1>2, <3>2, <3>3, <3>4
    <3>6. it[i - 1] \in A /\ s[i] \in S
      BY <1>2, <3>5 DEF T
    <3>7. Append(it[i - 1], s[i]) \in A
      BY <3>6 DEF A
    <3> QED
      BY <1>11, <3>3, <3>5, <3>6, <3>7
  <2> QED
    BY <2>2
<1>13. \A i \in 0..N : IsSeq(it[i])
  BY <1>12 DEF A, IsSeq
<1>14. \E g : /\ \A i \in 0..N : IsSeq(g[i])
              /\ g[0] = <<>>
              /\ \A i \in 1..N : g[i] = IF i \in I THEN Append(g[i - 1], s[i]) ELSE g[i - 1]
              /\ Picked(s, I) = g[N]
  BY <1>3, <1>11, <1>13
<1> QED
  BY <1>14 DEF N
============================================================================
