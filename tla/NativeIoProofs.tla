--------------------------- MODULE NativeIoProofs ---------------------------
(***************************************************************************)
(* Where the computations of a compiled program are, whichever thread      *)
(* holds them, and that a row of channels is free or in use, for every     *)
(* program and any number of computations, rows, generations and helpers.  *)
(*                                                                         *)
(* A computation is counted wherever it may be: in the queues of the loop, *)
(* in a helper's hand, in the pipe, in a row or inside the loop.  Each     *)
(* step takes it from one place and puts it in another, so the sum of the  *)
(* counts stays; only a spawn starts a sum and only an end takes one off.  *)
(*                                                                         *)
(* The rows build on that: what a computation waits with is never changed  *)
(* while it waits in a row, because it is nowhere else.                    *)
(***************************************************************************)
EXTENDS NativeIo, InductionProofs

----------------------------------------------------------------------------
(* How often a computation is in a sequence.                               *)

Count(s, f) == Cardinality({i \in DOMAIN s : s[i] = f})
ParkCount(s, f) == Cardinality({i \in DOMAIN s : s[i].fiber = f})
RowCount(s, f) == Cardinality({i \in DOMAIN s : f \in ToSet(s[i].wait)})

\* What is counted among the positions of a sequence is finite.
LEMMA Positions ==
  ASSUME NEW s, IsSeq(s), NEW D, D \subseteq DOMAIN s
  PROVE  /\ IsFiniteSet(D) /\ Cardinality(D) \in Nat
         /\ Cardinality(D) = 0 <=> D = {}
<1>1. IsFiniteSet(1..Len(s))
  BY SeqFacts, FS_Interval
<1>2. D \in SUBSET (1..Len(s))
  BY SeqFacts
<1>3. IsFiniteSet(D)
  BY <1>1, <1>2, FS_Subset
<1> QED
  BY <1>3, FS_CardinalityType, FS_EmptySet

\* As many positions further on.
LEMMA Shifted ==
  ASSUME NEW m \in Nat, NEW D, D \subseteq Nat, IsFiniteSet(D)
  PROVE  /\ IsFiniteSet({m + j : j \in D})
         /\ Cardinality({m + j : j \in D}) = Cardinality(D)
<1> DEFINE E == {m + j : j \in D}
           b == [j \in D |-> m + j]
<1>1. b \in Bijection(D, E)
  BY DEF Bijection, Injection, Surjection, IsInjective
<1>2. ExistsBijection(D, E)
  BY <1>1 DEF ExistsBijection
<1> QED
  BY <1>2, FS_Bijection

\* Counts are numbers, and none means nowhere.
LEMMA CountIsNat ==
  ASSUME NEW s, IsSeq(s), NEW f
  PROVE  /\ Count(s, f) \in Nat /\ ParkCount(s, f) \in Nat /\ RowCount(s, f) \in Nat
         /\ Count(s, f) = 0 <=> \A i \in 1..Len(s) : s[i] # f
         /\ RowCount(s, f) = 0 <=> \A i \in 1..Len(s) : f \notin ToSet(s[i].wait)
<1>1. DOMAIN s = 1..Len(s)
  BY SeqFacts
<1>2. Count(s, f) \in Nat /\ (Count(s, f) = 0 <=> \A i \in 1..Len(s) : s[i] # f)
  <2>1. {i \in DOMAIN s : s[i] = f} = {} <=> \A i \in 1..Len(s) : s[i] # f
    BY <1>1
  <2> QED
    BY <2>1, Positions DEF Count
<1>3. ParkCount(s, f) \in Nat
  BY Positions DEF ParkCount
<1>4. RowCount(s, f) \in Nat
      /\ (RowCount(s, f) = 0 <=> \A i \in 1..Len(s) : f \notin ToSet(s[i].wait))
  <2>1. {i \in DOMAIN s : f \in ToSet(s[i].wait)} = {}
        <=> \A i \in 1..Len(s) : f \notin ToSet(s[i].wait)
    BY <1>1
  <2> QED
    BY <2>1, Positions DEF RowCount
<1> QED
  BY <1>2, <1>3, <1>4

\* Nobody is in an empty sequence.
LEMMA CountEmpty ==
  ASSUME NEW s, s = <<>>, NEW f
  PROVE  Count(s, f) = 0 /\ ParkCount(s, f) = 0 /\ RowCount(s, f) = 0
<1>1. DOMAIN s = {}
  OBVIOUS
<1>2. /\ {i \in DOMAIN s : s[i] = f} = {}
      /\ {i \in DOMAIN s : s[i].fiber = f} = {}
      /\ {i \in DOMAIN s : f \in ToSet(s[i].wait)} = {}
  BY <1>1
<1> QED
  BY <1>2, FS_EmptySet DEF Count, ParkCount, RowCount

\* Positions with one more, or the same.
LEMMA OneMore ==
  ASSUME NEW D, IsFiniteSet(D), NEW m, m \notin D, NEW b \in BOOLEAN, NEW E,
         E = D \cup (IF b THEN {m} ELSE {})
  PROVE  Cardinality(E) = Cardinality(D) + (IF b THEN 1 ELSE 0)
<1>1. Cardinality(D) \in Nat
  BY FS_CardinalityType
<1>2. CASE b
  BY <1>1, <1>2, FS_AddElement
<1>3. CASE ~b
  BY <1>1, <1>3
<1> QED
  BY <1>2, <1>3

\* One more at the end.
LEMMA CountAppend ==
  ASSUME NEW s, IsSeq(s), NEW x, NEW f
  PROVE  /\ Count(Append(s, x), f) = Count(s, f) + (IF x = f THEN 1 ELSE 0)
         /\ ParkCount(Append(s, x), f) = ParkCount(s, f) + (IF x.fiber = f THEN 1 ELSE 0)
         /\ RowCount(Append(s, x), f)
              = RowCount(s, f) + (IF f \in ToSet(x.wait) THEN 1 ELSE 0)
<1> DEFINE t == Append(s, x)
           m == Len(s) + 1
<1>1. /\ DOMAIN s = 1..Len(s) /\ Len(s) \in Nat /\ DOMAIN t = 1..m
      /\ \A i \in 1..Len(s) : t[i] = s[i]
      /\ t[m] = x
  BY AppendSeq, SeqFacts
<1> HIDE DEF t
<1>2. m \notin 1..Len(s) /\ 1..m = (1..Len(s)) \cup {m}
  BY <1>1
<1> HIDE DEF m
<1>3. Count(t, f) = Count(s, f) + (IF x = f THEN 1 ELSE 0)
  <2> DEFINE D == {i \in DOMAIN s : s[i] = f}
             E == {i \in DOMAIN t : t[i] = f}
             b == x = f
  <2>1. IsFiniteSet(D) /\ m \notin D
    BY <1>1, <1>2, Positions
  <2>2. E = D \cup (IF b THEN {m} ELSE {})
    BY <1>1, <1>2
  <2>3. b \in BOOLEAN
    OBVIOUS
  <2> HIDE DEF D, E, b
  <2>4. Cardinality(E) = Cardinality(D) + (IF b THEN 1 ELSE 0)
    BY <2>1, <2>2, <2>3, OneMore
  <2> QED
    BY <2>4 DEF Count, D, E, b
<1>4. ParkCount(t, f) = ParkCount(s, f) + (IF x.fiber = f THEN 1 ELSE 0)
  <2> DEFINE D == {i \in DOMAIN s : s[i].fiber = f}
             E == {i \in DOMAIN t : t[i].fiber = f}
             b == x.fiber = f
  <2>1. IsFiniteSet(D) /\ m \notin D
    BY <1>1, <1>2, Positions
  <2>2. E = D \cup (IF b THEN {m} ELSE {})
    BY <1>1, <1>2
  <2>3. b \in BOOLEAN
    OBVIOUS
  <2> HIDE DEF D, E, b
  <2>4. Cardinality(E) = Cardinality(D) + (IF b THEN 1 ELSE 0)
    BY <2>1, <2>2, <2>3, OneMore
  <2> QED
    BY <2>4 DEF ParkCount, D, E, b
<1>5. RowCount(t, f) = RowCount(s, f) + (IF f \in ToSet(x.wait) THEN 1 ELSE 0)
  <2> DEFINE D == {i \in DOMAIN s : f \in ToSet(s[i].wait)}
             E == {i \in DOMAIN t : f \in ToSet(t[i].wait)}
             b == f \in ToSet(x.wait)
  <2>1. IsFiniteSet(D) /\ m \notin D
    BY <1>1, <1>2, Positions
  <2>2. E = D \cup (IF b THEN {m} ELSE {})
    BY <1>1, <1>2
  <2>3. b \in BOOLEAN
    OBVIOUS
  <2> HIDE DEF D, E, b
  <2>4. Cardinality(E) = Cardinality(D) + (IF b THEN 1 ELSE 0)
    BY <2>1, <2>2, <2>3, OneMore
  <2> QED
    BY <2>4 DEF RowCount, D, E, b
<1> QED
  BY <1>3, <1>4, <1>5 DEF t

\* One less at the front.
LEMMA CountTail ==
  ASSUME NEW s, IsSeq(s), s # <<>>, NEW f
  PROVE  Count(s, f) = Count(Tail(s), f) + (IF Head(s) = f THEN 1 ELSE 0)
<1> DEFINE t == Tail(s)
           D == {i \in DOMAIN t : t[i] = f}
           E == {1 + i : i \in D}
           G == {i \in DOMAIN s : s[i] = f}
           b == s[1] = f
<1>1. /\ IsSeq(t) /\ DOMAIN t = 1..(Len(s) - 1) /\ Len(s) \in Nat \ {0}
      /\ \A i \in 1..(Len(s) - 1) : t[i] = s[i + 1]
      /\ DOMAIN s = 1..Len(s)
  BY TailSeq, SeqFacts
<1>2. Head(s) = s[1]
  OBVIOUS
<1> HIDE DEF t
<1>3. IsFiniteSet(D) /\ D \subseteq Nat
  BY <1>1, Positions
<1>4. IsFiniteSet(E) /\ Cardinality(E) = Cardinality(D)
  BY <1>3, Shifted
<1>5. 1 \notin E
  BY <1>1
<1>6. G = E \cup (IF b THEN {1} ELSE {})
  <2>1. ASSUME NEW i \in 1..Len(s), s[i] = f PROVE i \in E \/ (b /\ i = 1)
    <3>1. CASE i = 1
      BY <2>1, <3>1
    <3>2. CASE i # 1
      <4>1. i - 1 \in 1..(Len(s) - 1) /\ 1 + (i - 1) = i
        BY <1>1, <3>2
      <4>2. i - 1 \in D
        BY <1>1, <2>1, <4>1
      <4> QED
        BY <4>1, <4>2
    <3> QED
      BY <3>1, <3>2
  <2>2. ASSUME NEW i \in D PROVE 1 + i \in G
    BY <1>1
  <2>3. 1 \in DOMAIN s
    BY <1>1
  <2> QED
    BY <1>1, <2>1, <2>2, <2>3
<1>7. b \in BOOLEAN
  OBVIOUS
<1> HIDE DEF D, E, G, b
<1>8. Cardinality(G) = Cardinality(E) + (IF b THEN 1 ELSE 0)
  BY <1>4, <1>5, <1>6, <1>7, OneMore
<1>9. Cardinality(G) = Cardinality(D) + (IF b THEN 1 ELSE 0)
  BY <1>4, <1>8
<1> QED
  BY <1>2, <1>9 DEF Count, D, G, b, t

\* One sequence behind another.
LEMMA CountConcat ==
  ASSUME NEW s, IsSeq(s), NEW t, IsSeq(t), NEW f
  PROVE  Count(s \o t, f) = Count(s, f) + Count(t, f)
<1> DEFINE u == s \o t
           m == Len(s)
           C == {i \in DOMAIN s : s[i] = f}
           D == {i \in DOMAIN t : t[i] = f}
           E == {m + i : i \in D}
           G == {i \in DOMAIN u : u[i] = f}
<1>1. /\ DOMAIN s = 1..m /\ DOMAIN t = 1..Len(t) /\ DOMAIN u = 1..(m + Len(t))
      /\ m \in Nat /\ Len(t) \in Nat
      /\ \A i \in 1..(m + Len(t)) : u[i] = IF i <= m THEN s[i] ELSE t[i - m]
  BY ConcatSeq, SeqFacts
<1> HIDE DEF u
<1>2. IsFiniteSet(C) /\ IsFiniteSet(D) /\ D \subseteq Nat
  BY <1>1, Positions
<1> HIDE DEF m
<1>3. IsFiniteSet(E) /\ Cardinality(E) = Cardinality(D)
  BY <1>1, <1>2, Shifted
<1>4. C \cap E = {}
  BY <1>1
<1>5. G = C \cup E
  <2>1. ASSUME NEW i \in G PROVE i \in C \cup E
    <3>1. CASE i <= m
      BY <1>1, <3>1
    <3>2. CASE ~(i <= m)
      <4>1. i - m \in 1..Len(t) /\ m + (i - m) = i
        BY <1>1, <3>2
      <4>2. i - m \in D
        BY <1>1, <3>2, <4>1
      <4> QED
        BY <4>1, <4>2
    <3> QED
      BY <3>1, <3>2
  <2>2. ASSUME NEW i \in C PROVE i \in G
    BY <1>1
  <2>3. ASSUME NEW i \in D PROVE m + i \in G
    <3>1. m + i \in 1..(m + Len(t)) /\ ~(m + i <= m) /\ (m + i) - m = i
      BY <1>1
    <3> QED
      BY <1>1, <3>1
  <2> QED
    BY <2>1, <2>2, <2>3
<1> HIDE DEF C, D, E, G
<1>6. Cardinality(G) = Cardinality(C) + Cardinality(E) - Cardinality({})
  BY <1>2, <1>3, <1>4, <1>5, FS_Union
<1>7. Cardinality(C) \in Nat /\ Cardinality(E) \in Nat /\ Cardinality({}) = 0
  BY <1>2, <1>3, FS_CardinalityType, FS_EmptySet
<1>8. Cardinality(G) = Cardinality(C) + Cardinality(D)
  BY <1>3, <1>6, <1>7
<1> QED
  BY <1>8 DEF Count, C, D, G, u

\* An entry replaced.
LEMMA CountReplace ==
  ASSUME NEW s, IsSeq(s), NEW c \in 1..Len(s), NEW x, NEW t, t = Replaced(s, c, x), NEW f
  PROVE  /\ Count(t, f) + (IF s[c] = f THEN 1 ELSE 0) = Count(s, f) + (IF x = f THEN 1 ELSE 0)
         /\ RowCount(t, f) + (IF f \in ToSet(s[c].wait) THEN 1 ELSE 0)
              = RowCount(s, f) + (IF f \in ToSet(x.wait) THEN 1 ELSE 0)
<1>1. /\ IsSeq(t) /\ DOMAIN t = 1..Len(s) /\ DOMAIN s = 1..Len(s) /\ t[c] = x
      /\ \A i \in 1..Len(s) : i # c => t[i] = s[i]
  BY ReplaceSeq, SeqFacts
<1>2. Count(t, f) + (IF s[c] = f THEN 1 ELSE 0) = Count(s, f) + (IF x = f THEN 1 ELSE 0)
  <2> DEFINE D == {i \in DOMAIN s : s[i] = f}
             R == {i \in DOMAIN s : i # c /\ s[i] = f}
             E == {i \in DOMAIN t : t[i] = f}
             a == s[c] = f
             b == x = f
  <2>1. IsFiniteSet(R) /\ c \notin R
    BY Positions
  <2>2. D = R \cup (IF a THEN {c} ELSE {}) /\ E = R \cup (IF b THEN {c} ELSE {})
    BY <1>1
  <2>3. a \in BOOLEAN /\ b \in BOOLEAN
    OBVIOUS
  <2> HIDE DEF D, E, R, a, b
  <2>4. Cardinality(D) = Cardinality(R) + (IF a THEN 1 ELSE 0)
    BY <2>1, <2>2, <2>3, OneMore
  <2>5. Cardinality(E) = Cardinality(R) + (IF b THEN 1 ELSE 0)
    BY <2>1, <2>2, <2>3, OneMore
  <2>6. Cardinality(R) \in Nat
    BY <2>1, FS_CardinalityType
  <2>7. Cardinality(E) + (IF a THEN 1 ELSE 0) = Cardinality(D) + (IF b THEN 1 ELSE 0)
    BY <2>3, <2>4, <2>5, <2>6
  <2> QED
    BY <2>7 DEF Count, D, E, a, b
<1>3. RowCount(t, f) + (IF f \in ToSet(s[c].wait) THEN 1 ELSE 0)
        = RowCount(s, f) + (IF f \in ToSet(x.wait) THEN 1 ELSE 0)
  <2> DEFINE D == {i \in DOMAIN s : f \in ToSet(s[i].wait)}
             R == {i \in DOMAIN s : i # c /\ f \in ToSet(s[i].wait)}
             E == {i \in DOMAIN t : f \in ToSet(t[i].wait)}
             a == f \in ToSet(s[c].wait)
             b == f \in ToSet(x.wait)
  <2>1. IsFiniteSet(R) /\ c \notin R
    BY Positions
  <2>2. D = R \cup (IF a THEN {c} ELSE {}) /\ E = R \cup (IF b THEN {c} ELSE {})
    BY <1>1
  <2>3. a \in BOOLEAN /\ b \in BOOLEAN
    OBVIOUS
  <2> HIDE DEF D, E, R, a, b
  <2>4. Cardinality(D) = Cardinality(R) + (IF a THEN 1 ELSE 0)
    BY <2>1, <2>2, <2>3, OneMore
  <2>5. Cardinality(E) = Cardinality(R) + (IF b THEN 1 ELSE 0)
    BY <2>1, <2>2, <2>3, OneMore
  <2>6. Cardinality(R) \in Nat
    BY <2>1, FS_CardinalityType
  <2>7. Cardinality(E) + (IF a THEN 1 ELSE 0) = Cardinality(D) + (IF b THEN 1 ELSE 0)
    BY <2>3, <2>4, <2>5, <2>6
  <2> QED
    BY <2>7 DEF RowCount, D, E, a, b
<1> QED
  BY <1>2, <1>3

\* comp.ts, io_wait.  Everyone parked is resumed or stays, and nobody is both.
LEMMA CountPicked ==
  ASSUME NEW s, IsSeq(s), NEW I, NEW f
  PROVE  /\ IsSeq(Picked(s, I)) /\ IsSeq(Picked(s, DOMAIN s \ I))
         /\ ParkCount(Picked(s, I), f) + ParkCount(Picked(s, DOMAIN s \ I), f)
              = ParkCount(s, f)
<1> DEFINE N == Len(s)
           J == DOMAIN s \ I
           P(t) == ParkCount(t, f)
           H(i) == {k \in 1..i : s[k].fiber = f}
<1>1. N \in Nat /\ DOMAIN s = 1..N
  BY SeqFacts
<1>2. PICK a :
        /\ \A i \in 0..N : IsSeq(a[i])
        /\ a[0] = <<>>
        /\ \A i \in 1..N : a[i] = IF i \in I THEN Append(a[i - 1], s[i]) ELSE a[i - 1]
        /\ Picked(s, I) = a[N]
  <2>1. \E it : /\ \A i \in 0..Len(s) : IsSeq(it[i])
                /\ it[0] = <<>>
                /\ \A i \in 1..Len(s) :
                     it[i] = IF i \in I THEN Append(it[i - 1], s[i]) ELSE it[i - 1]
                /\ Picked(s, I) = it[Len(s)]
    BY PickedUpto
  <2> QED
    BY <2>1
<1>3. PICK b :
        /\ \A i \in 0..N : IsSeq(b[i])
        /\ b[0] = <<>>
        /\ \A i \in 1..N : b[i] = IF i \in J THEN Append(b[i - 1], s[i]) ELSE b[i - 1]
        /\ Picked(s, J) = b[N]
  <2> HIDE DEF J
  <2>1. \E it : /\ \A i \in 0..Len(s) : IsSeq(it[i])
                /\ it[0] = <<>>
                /\ \A i \in 1..Len(s) :
                     it[i] = IF i \in J THEN Append(it[i - 1], s[i]) ELSE it[i - 1]
                /\ Picked(s, J) = it[Len(s)]
    BY PickedUpto
  <2> QED
    BY <2>1
<1>4. \A i \in 1..N : i \in J <=> i \notin I
  BY <1>1
<1> HIDE DEF N, J, P, H
<1> DEFINE Right(i) == P(a[i]) + P(b[i]) = Cardinality(H(i))
           T == {i \in 0..N : ~Right(i)}
<1>5. \A i \in 0..N : P(a[i]) \in Nat /\ P(b[i]) \in Nat
  BY <1>2, <1>3, CountIsNat DEF P
<1>6. Right(0)
  <2>1. P(a[0]) = 0 /\ P(b[0]) = 0
    BY <1>2, <1>3, CountEmpty DEF P
  <2>2. H(0) = {}
    BY DEF H
  <2> QED
    BY <2>1, <2>2, FS_EmptySet
<1>7. ASSUME NEW i \in 1..N, Right(i - 1) PROVE Right(i)
  <2> DEFINE g == s[i].fiber = f
             h == IF g THEN 1 ELSE 0
  <2>1. i - 1 \in 0..N /\ 1..i = (1..(i - 1)) \cup {i} /\ i \notin 1..(i - 1) /\ i \in Nat
    BY <1>1
  <2>2. Cardinality(H(i)) = Cardinality(H(i - 1)) + h
    <3>1. IsFiniteSet(H(i - 1)) /\ i \notin H(i - 1)
      <4>1. H(i - 1) \subseteq DOMAIN s
        BY <1>1, <2>1 DEF H
      <4> QED
        BY <2>1, <4>1, Positions DEF H
    <3>2. H(i) = H(i - 1) \cup (IF g THEN {i} ELSE {})
      BY <2>1 DEF H
    <3>3. g \in BOOLEAN
      OBVIOUS
    <3> HIDE DEF g
    <3> QED
      BY <3>1, <3>2, <3>3, OneMore
  <2>3. CASE i \in I
    <3>1. a[i] = Append(a[i - 1], s[i]) /\ b[i] = b[i - 1]
      BY <1>2, <1>3, <1>4, <2>3
    <3>2. P(Append(a[i - 1], s[i])) = P(a[i - 1]) + h
      BY <1>2, <2>1, CountAppend DEF P
    <3>3. h \in Nat
      OBVIOUS
    <3> HIDE DEF h
    <3> QED
      BY <1>5, <1>7, <2>1, <2>2, <3>1, <3>2, <3>3
  <2>4. CASE i \notin I
    <3>1. b[i] = Append(b[i - 1], s[i]) /\ a[i] = a[i - 1]
      BY <1>2, <1>3, <1>4, <2>4
    <3>2. P(Append(b[i - 1], s[i])) = P(b[i - 1]) + h
      BY <1>3, <2>1, CountAppend DEF P
    <3>3. h \in Nat
      OBVIOUS
    <3> HIDE DEF h
    <3> QED
      BY <1>5, <1>7, <2>1, <2>2, <3>1, <3>2, <3>3
  <2> QED
    BY <2>3, <2>4
<1> HIDE DEF Right
<1>8. T = {}
  <2> SUFFICES ASSUME T # {} PROVE FALSE
    OBVIOUS
  <2>1. T \subseteq Nat
    BY <1>1
  <2>2. PICK m \in T : \A k \in T : m <= k
    BY <2>1, LeastNumber
  <2>3. m # 0 /\ m \in 0..N
    BY <1>6, <2>2
  <2>4. m \in 1..N /\ m - 1 \in 0..N /\ m - 1 \notin T
    BY <1>1, <2>2, <2>3
  <2> QED
    BY <1>7, <2>2, <2>4
<1>9. N \in 0..N
  BY <1>1
<1>10. Right(N)
  BY <1>8, <1>9
<1>11. H(N) = {i \in DOMAIN s : s[i].fiber = f}
  BY <1>1 DEF H
<1>12. IsSeq(Picked(s, I)) /\ IsSeq(Picked(s, J))
  BY <1>2, <1>3, <1>9
<1>13. P(Picked(s, I)) + P(Picked(s, J)) = ParkCount(s, f)
  BY <1>2, <1>3, <1>10, <1>11 DEF Right, ParkCount
<1> QED
  BY <1>12, <1>13 DEF P, J

----------------------------------------------------------------------------
(* Rows.                                                                   *)

RowOf(gen, room, ring, size, head, lives, shut, wait) ==
  [gen |-> gen, room |-> room, ring |-> ring, size |-> size,
   head |-> head, live |-> lives, shut |-> shut, wait |-> wait]

\* A row is made of what it holds, and nobody waits in it twice.
RowShape(row) ==
  /\ row = RowOf(row.gen, row.room, row.ring, row.size, row.head, row.live, row.shut, row.wait)
  /\ IsSeq(row.wait) /\ IsInjective(row.wait)

\* The row has become another of the same room, with these values, these
\* waiters and this state.
Becomes(row, next, size, lives, shut, wait) ==
  /\ next = RowOf(next.gen, next.room, next.ring, next.size, next.head, next.live,
                  next.shut, next.wait)
  /\ next.room = row.room /\ next.size = size /\ next.live = lives
  /\ next.shut = shut /\ next.wait = wait

\* What a row holds.
LEMMA RowFields ==
  ASSUME NEW gen, NEW room, NEW ring, NEW size, NEW head, NEW lives, NEW shut, NEW wait,
         NEW row, row = RowOf(gen, room, ring, size, head, lives, shut, wait)
  PROVE  /\ row = RowOf(row.gen, row.room, row.ring, row.size, row.head, row.live,
                        row.shut, row.wait)
         /\ row.gen = gen /\ row.room = room /\ row.ring = ring /\ row.size = size
         /\ row.head = head /\ row.live = lives /\ row.shut = shut /\ row.wait = wait
  BY DEF RowOf

\* comp.ts, chan_open.  A new row is empty, in use and open.
LEMMA NewRowFields ==
  ASSUME NEW gen, NEW room, NEW next, next = NewRow(gen, room)
  PROVE  /\ next = RowOf(next.gen, next.room, next.ring, next.size, next.head, next.live,
                         next.shut, next.wait)
         /\ next.room = room /\ next.size = 0 /\ next.live
         /\ ~next.shut /\ next.wait = <<>>
         /\ next.live \in BOOLEAN /\ next.shut \in BOOLEAN
<1>1. NewRow(gen, room) =
        RowOf(gen, room, [i \in 0..(room - 1) |-> Hole], 0, 0, TRUE, FALSE, <<>>)
  BY DEF NewRow, RowOf
<1> DEFINE ring == [i \in 0..(room - 1) |-> Hole]
<1> HIDE DEF ring
<1>2. next = RowOf(gen, room, ring, 0, 0, TRUE, FALSE, <<>>)
  BY <1>1 DEF ring
<1> QED
  BY <1>2 DEF RowOf

\* What a change of some fields leaves of a row.
LEMMA RowEdits ==
  ASSUME NEW row, RowShape(row), NEW x, NEW y
  PROVE  /\ Becomes(row, [row EXCEPT !.wait = x], row.size, row.live, row.shut, x)
         /\ Becomes(row, [row EXCEPT !.live = x], row.size, x, row.shut, row.wait)
         /\ Becomes(row, [row EXCEPT !.shut = x, !.wait = y], row.size, row.live, x, y)
<1>1. PICK gen, room, ring, size, head, lives, shut, wait :
        row = RowOf(gen, room, ring, size, head, lives, shut, wait)
  BY DEF RowShape
<1>2. /\ row.gen = gen /\ row.room = room /\ row.ring = ring /\ row.size = size
      /\ row.head = head /\ row.live = lives /\ row.shut = shut /\ row.wait = wait
  BY <1>1, RowFields
<1>3. [row EXCEPT !.wait = x] = RowOf(gen, room, ring, size, head, lives, shut, x)
  BY <1>1 DEF RowOf
<1>4. [row EXCEPT !.live = x] = RowOf(gen, room, ring, size, head, x, shut, wait)
  BY <1>1 DEF RowOf
<1>5. [row EXCEPT !.shut = x, !.wait = y] = RowOf(gen, room, ring, size, head, lives, x, y)
  <2> DEFINE m == [row EXCEPT !.shut = x, !.wait = y]
  <2>1. m = [[row EXCEPT !.shut = x] EXCEPT !.wait = y]
    OBVIOUS
  <2>2. [row EXCEPT !.shut = x] = RowOf(gen, room, ring, size, head, lives, x, wait)
    BY <1>1 DEF RowOf
  <2>3. [RowOf(gen, room, ring, size, head, lives, x, wait) EXCEPT !.wait = y]
          = RowOf(gen, room, ring, size, head, lives, x, y)
    BY DEF RowOf
  <2> QED
    BY <2>1, <2>2, <2>3
<1>6. Becomes(row, [row EXCEPT !.wait = x], row.size, row.live, row.shut, x)
  <2> DEFINE m == [row EXCEPT !.wait = x]
  <2> HIDE DEF m
  <2>1. m = RowOf(gen, room, ring, size, head, lives, shut, x)
    BY <1>3 DEF m
  <2>2. Becomes(row, m, row.size, row.live, row.shut, x)
    BY <1>2, <2>1, RowFields DEF Becomes
  <2> QED
    BY <2>2 DEF m
<1>7. Becomes(row, [row EXCEPT !.live = x], row.size, x, row.shut, row.wait)
  <2> DEFINE m == [row EXCEPT !.live = x]
  <2> HIDE DEF m
  <2>1. m = RowOf(gen, room, ring, size, head, x, shut, wait)
    BY <1>4 DEF m
  <2>2. Becomes(row, m, row.size, x, row.shut, row.wait)
    BY <1>2, <2>1, RowFields DEF Becomes
  <2> QED
    BY <2>2 DEF m
<1>8. Becomes(row, [row EXCEPT !.shut = x, !.wait = y], row.size, row.live, x, y)
  <2> DEFINE m == [row EXCEPT !.shut = x, !.wait = y]
  <2> HIDE DEF m
  <2>1. m = RowOf(gen, room, ring, size, head, lives, x, y)
    BY <1>5 DEF m
  <2>2. Becomes(row, m, row.size, row.live, x, y)
    BY <1>2, <2>1, RowFields DEF Becomes
  <2> QED
    BY <2>2 DEF m
<1> QED
  BY <1>6, <1>7, <1>8

\* comp.ts, chan_send and chan_take.  A value stored, and one taken.
LEMMA StoreAndTake ==
  ASSUME NEW row, RowShape(row), NEW v
  PROVE  /\ Becomes(row, Stored(row, v), row.size + 1, row.live, row.shut, row.wait)
         /\ Becomes(row, Taken(row), row.size - 1, row.live, row.shut, row.wait)
<1>1. PICK gen, room, ring, size, head, lives, shut, wait :
        row = RowOf(gen, room, ring, size, head, lives, shut, wait)
  BY DEF RowShape
<1>2. /\ row.gen = gen /\ row.room = room /\ row.ring = ring /\ row.size = size
      /\ row.head = head /\ row.live = lives /\ row.shut = shut /\ row.wait = wait
  BY <1>1, RowFields
<1> DEFINE k == Slot(row, row.size)
           filled == [ring EXCEPT ![k] = v]
           next == (head + 1) % room
           a == Stored(row, v)
           b == Taken(row)
<1>3. a = RowOf(gen, room, filled, size + 1, head, lives, shut, wait)
  <2>1. a = [row EXCEPT !.ring[k] = v, !.size = @ + 1]
    BY DEF Stored
  <2> HIDE DEF k, a
  <2> QED
    BY <1>1, <2>1 DEF RowOf
<1>4. b = RowOf(gen, room, ring, size - 1, next, lives, shut, wait)
  <2>1. b = [row EXCEPT !.head = (@ + 1) % row.room, !.size = @ - 1]
    BY DEF Taken
  <2>2. b = [row EXCEPT !.head = next, !.size = size - 1]
    BY <1>2, <2>1
  <2> HIDE DEF next, b
  <2> QED
    BY <1>1, <2>2 DEF RowOf
<1> HIDE DEF k, filled, next, a, b
<1>5. Becomes(row, a, row.size + 1, row.live, row.shut, row.wait)
  BY <1>2, <1>3, RowFields DEF Becomes
<1>6. Becomes(row, b, row.size - 1, row.live, row.shut, row.wait)
  BY <1>2, <1>4, RowFields DEF Becomes
<1> QED
  BY <1>5, <1>6 DEF a, b

\* Everyone in the row is a receiver, or everyone is a sender.
Receivers(row, it) == \A k \in 1..Len(row.wait) : it[row.wait[k]] = Hole
Offerers(row, it) == \A k \in 1..Len(row.wait) : it[row.wait[k]] # Hole

\* RowsKept of one row, with the items its waiters have.
RowOk(row, it) ==
  /\ RowShape(row)
  /\ row.room \in Nat /\ row.size \in 0..row.room
  /\ row.live \in BOOLEAN /\ row.shut \in BOOLEAN
  /\ ~row.live => row.size = 0
  /\ ~row.live \/ row.shut => row.wait = <<>>
  /\ row.live /\ row.shut => row.size > 0
  /\ row.wait # <<>> => \/ row.size = 0 /\ Receivers(row, it)
                        \/ row.size = row.room /\ Offerers(row, it)

RowsOk(t, it) == IsSeq(t) /\ \A i \in 1..Len(t) : RowOk(t[i], it)

\* The rows not in use are those on the idle list.
IdleOk(t, d) ==
  /\ IsSeq(d) /\ IsInjective(d)
  /\ ToSet(d) = {i \in 1..Len(t) : ~t[i].live}

\* Lists without repetitions: the first of one, the rest, and one more.
LEMMA Lists ==
  ASSUME NEW s, IsSeq(s), IsInjective(s)
  PROVE  /\ s # <<>> => /\ Head(s) = s[1] /\ 1 \in 1..Len(s) /\ Head(s) \in ToSet(s)
                        /\ IsSeq(Tail(s)) /\ IsInjective(Tail(s))
                        /\ ToSet(Tail(s)) = ToSet(s) \ {Head(s)}
         /\ ToSet(s) = {s[i] : i \in 1..Len(s)}
         /\ \A x : x \notin ToSet(s) =>
              /\ IsSeq(Append(s, x)) /\ IsInjective(Append(s, x))
              /\ ToSet(Append(s, x)) = ToSet(s) \cup {x}
              /\ IsSeq(<<x>> \o s) /\ IsInjective(<<x>> \o s)
              /\ ToSet(<<x>> \o s) = ToSet(s) \cup {x}
<1>1. DOMAIN s = 1..Len(s) /\ Len(s) \in Nat /\ (s = <<>> <=> Len(s) = 0)
  BY SeqFacts
<1>2. \A i, j \in 1..Len(s) : s[i] = s[j] => i = j
  BY <1>1 DEF IsInjective
<1>3. ToSet(s) = {s[i] : i \in 1..Len(s)}
  BY <1>1 DEF ToSet
<1>4. ASSUME s # <<>>
      PROVE  /\ Head(s) = s[1] /\ 1 \in 1..Len(s) /\ Head(s) \in ToSet(s)
             /\ IsSeq(Tail(s)) /\ IsInjective(Tail(s))
             /\ ToSet(Tail(s)) = ToSet(s) \ {Head(s)}
  <2> DEFINE t == Tail(s)
  <2>1. /\ IsSeq(t) /\ Len(t) = Len(s) - 1 /\ DOMAIN t = 1..(Len(s) - 1)
        /\ \A i \in 1..(Len(s) - 1) : t[i] = s[i + 1]
        /\ Len(s) \in Nat \ {0}
    BY <1>4, TailSeq, SeqFacts
  <2>2. Head(s) = s[1]
    BY <1>4
  <2> HIDE DEF t
  <2>3. 1 \in 1..Len(s) /\ s[1] \in ToSet(s)
    BY <1>3, <2>1
  <2>4. \A i \in 1..(Len(s) - 1) : i + 1 \in 1..Len(s) /\ i + 1 # 1
    BY <2>1
  <2>5. IsInjective(t)
    <3> SUFFICES ASSUME NEW i \in 1..(Len(s) - 1), NEW j \in 1..(Len(s) - 1), t[i] = t[j]
                 PROVE i = j
      BY <2>1 DEF IsInjective
    <3>1. s[i + 1] = s[j + 1]
      BY <2>1
    <3>2. i + 1 = j + 1
      BY <1>2, <2>4, <3>1
    <3> QED
      BY <2>1, <3>2
  <2>6. ToSet(t) = {t[i] : i \in 1..(Len(s) - 1)}
    BY <2>1 DEF ToSet
  <2>7. ASSUME NEW i \in 1..(Len(s) - 1) PROVE t[i] \in ToSet(s) \ {s[1]}
    <3>1. t[i] = s[i + 1] /\ i + 1 \in 1..Len(s)
      BY <2>1, <2>4
    <3>2. s[i + 1] # s[1]
      BY <1>2, <2>3, <2>4, <3>1
    <3> QED
      BY <1>3, <3>1, <3>2
  <2>8. ASSUME NEW i \in 1..Len(s), s[i] # s[1] PROVE s[i] \in ToSet(t)
    <3>1. i - 1 \in 1..(Len(s) - 1) /\ (i - 1) + 1 = i
      BY <2>1, <2>8
    <3>2. t[i - 1] = s[i]
      BY <2>1, <3>1
    <3> QED
      BY <2>6, <3>1, <3>2
  <2>9. ToSet(t) = ToSet(s) \ {s[1]}
    BY <1>3, <2>6, <2>7, <2>8
  <2> QED
    BY <2>1, <2>2, <2>3, <2>5, <2>9 DEF t
<1>5. ASSUME NEW x, x \notin ToSet(s)
      PROVE  /\ IsSeq(Append(s, x)) /\ IsInjective(Append(s, x))
             /\ ToSet(Append(s, x)) = ToSet(s) \cup {x}
  <2> DEFINE t == Append(s, x)
             m == Len(s) + 1
  <2>1. /\ IsSeq(t) /\ DOMAIN t = 1..m /\ 1..m = (1..Len(s)) \cup {m} /\ m \notin 1..Len(s)
        /\ \A i \in 1..Len(s) : t[i] = s[i]
        /\ t[m] = x
    BY <1>1, AppendSeq, SeqFacts
  <2> HIDE DEF t, m
  <2>2. \A i \in 1..Len(s) : s[i] # x
    BY <1>3, <1>5
  <2>3. IsInjective(t)
    BY <1>2, <2>1, <2>2 DEF IsInjective
  <2>4. ToSet(t) = {t[i] : i \in 1..m}
    BY <2>1 DEF ToSet
  <2>5. ToSet(t) = ToSet(s) \cup {x}
    BY <1>3, <2>1, <2>4
  <2> QED
    BY <2>1, <2>3, <2>5 DEF t
<1>6. ASSUME NEW x, x \notin ToSet(s)
      PROVE  /\ IsSeq(<<x>> \o s) /\ IsInjective(<<x>> \o s)
             /\ ToSet(<<x>> \o s) = ToSet(s) \cup {x}
  <2> DEFINE t == <<x>> \o s
             m == Len(s) + 1
             u == <<x>>
  <2>0. u \in Seq({x}) /\ Len(u) = 1 /\ u[1] = x
    OBVIOUS
  <2>00. IsSeq(u)
    BY <2>0 DEF IsSeq
  <2> HIDE DEF u
  <2>1. /\ IsSeq(u \o s) /\ Len(u \o s) = m
        /\ \A i \in 1..m : (u \o s)[i] = IF i = 1 THEN x ELSE s[i - 1]
    <3>1. /\ IsSeq(u \o s) /\ Len(u \o s) = 1 + Len(s)
          /\ \A i \in 1..Len(u \o s) : (u \o s)[i] = IF i <= 1 THEN u[i] ELSE s[i - 1]
      BY <2>0, <2>00, ConcatSeq
    <3> QED
      BY <1>1, <2>0, <3>1
  <2>2. t = u \o s
    BY DEF u
  <2> HIDE DEF t
  <2>3. IsSeq(t) /\ DOMAIN t = 1..m
        /\ \A i \in 1..m : t[i] = IF i = 1 THEN x ELSE s[i - 1]
    BY <2>1, <2>2, SeqFacts
  <2>4. \A i \in 1..Len(s) : s[i] # x
    BY <1>3, <1>5, <1>6
  <2>5. \A i \in 1..m : i # 1 => i - 1 \in 1..Len(s)
    BY <1>1
  <2>6. IsInjective(t)
    <3> SUFFICES ASSUME NEW i \in 1..m, NEW j \in 1..m, t[i] = t[j] PROVE i = j
      BY <2>3 DEF IsInjective
    <3>1. CASE i = 1
      BY <2>3, <2>4, <2>5, <3>1
    <3>2. CASE j = 1
      BY <2>3, <2>4, <2>5, <3>2
    <3>3. CASE i # 1 /\ j # 1
      <4>1. i - 1 = j - 1
        BY <1>2, <2>3, <2>5, <3>3
      <4> QED
        BY <1>1, <4>1
    <3> QED
      BY <3>1, <3>2, <3>3
  <2>7. ToSet(t) = {t[i] : i \in 1..m}
    BY <2>3 DEF ToSet
  <2>8. ToSet(t) \subseteq ToSet(s) \cup {x}
    BY <1>3, <2>3, <2>5, <2>7
  <2>9. x \in ToSet(t)
    <3>1. 1 \in 1..m
      BY <1>1
    <3> QED
      BY <2>3, <2>7, <3>1
  <2>10. ASSUME NEW i \in 1..Len(s) PROVE s[i] \in ToSet(t)
    <3>1. i + 1 \in 1..m /\ i + 1 # 1 /\ (i + 1) - 1 = i
      BY <1>1
    <3>2. t[i + 1] = s[i]
      BY <2>3, <3>1
    <3> QED
      BY <2>7, <3>1, <3>2
  <2>11. ToSet(t) = ToSet(s) \cup {x}
    BY <1>3, <2>8, <2>9, <2>10
  <2> QED
    BY <2>3, <2>6, <2>11 DEF t
<1> QED
  BY <1>3, <1>4, <1>5, <1>6

\* comp.ts, chan_open.  A new row is kept.
LEMMA NewRowOk ==
  ASSUME NEW gen, NEW room \in Nat, NEW it
  PROVE  RowOk(NewRow(gen, room), it) /\ NewRow(gen, room).live
         /\ NewRow(gen, room).wait = <<>>
<1> DEFINE r == NewRow(gen, room)
<1>0. r = NewRow(gen, room)
  OBVIOUS
<1> HIDE DEF r
<1>1. /\ r = RowOf(r.gen, r.room, r.ring, r.size, r.head, r.live, r.shut, r.wait)
      /\ r.room = room /\ r.size = 0 /\ r.live
      /\ ~r.shut /\ r.wait = <<>>
      /\ r.live \in BOOLEAN /\ r.shut \in BOOLEAN
  BY <1>0, NewRowFields
<1>2. IsSeq(r.wait) /\ IsInjective(r.wait)
  BY <1>1, EmptyIsSeq DEF IsInjective
<1>3. RowShape(r)
  BY <1>1, <1>2 DEF RowShape
<1>4. RowOk(r, it)
  <2>1. r.room \in Nat /\ r.size \in 0..r.room
    BY <1>1
  <2>2. r.live /\ ~r.shut /\ r.live \in BOOLEAN /\ r.shut \in BOOLEAN
    BY <1>1
  <2> QED
    BY <1>1, <1>3, <2>1, <2>2 DEF RowOk
<1> QED
  BY <1>0, <1>1, <1>4

\* comp.ts, chan_wake.  A row whose first waiter left, with as many values.
LEMMA WakeOk ==
  ASSUME NEW row, NEW it, RowOk(row, it), row.wait # <<>>, NEW next,
         Becomes(row, next, row.size, row.live, row.shut, Tail(row.wait))
  PROVE  RowOk(next, it) /\ row.live /\ ~row.shut
<1>1. row.live /\ ~row.shut
  BY DEF RowOk
<1>2. IsSeq(row.wait) /\ IsInjective(row.wait)
  BY DEF RowOk, RowShape
<1>3. IsSeq(next.wait) /\ IsInjective(next.wait)
  BY <1>2, Lists DEF Becomes
<1>4. /\ Len(next.wait) = Len(row.wait) - 1 /\ Len(row.wait) \in Nat \ {0}
      /\ \A k \in 1..(Len(row.wait) - 1) : next.wait[k] = row.wait[k + 1]
  BY <1>2, TailSeq DEF Becomes
<1>5. \A k \in 1..Len(next.wait) : k + 1 \in 1..Len(row.wait) /\ next.wait[k] = row.wait[k + 1]
  BY <1>4
<1>6. /\ Receivers(row, it) => Receivers(next, it)
      /\ Offerers(row, it) => Offerers(next, it)
  BY <1>5 DEF Receivers, Offerers
<1>7. /\ next.room = row.room /\ next.size = row.size /\ next.live = row.live
      /\ next.shut = row.shut
  BY DEF Becomes
<1>8. RowShape(next)
  BY <1>3 DEF Becomes, RowShape
<1>9. next.wait # <<>> => \/ next.size = 0 /\ Receivers(next, it)
                          \/ next.size = next.room /\ Offerers(next, it)
  BY <1>6, <1>7 DEF RowOk
<1>10. RowOk(next, it)
  BY <1>1, <1>7, <1>8, <1>9 DEF RowOk
<1> QED
  BY <1>1, <1>10

\* comp.ts, chan_send, chan_take, chan_shut, chan_free.  A row nobody waits in,
\* with other values or in another state.
LEMMA QuietOk ==
  ASSUME NEW row, NEW it, RowOk(row, it), NEW size, NEW lives \in BOOLEAN, NEW shut \in BOOLEAN,
         NEW next, Becomes(row, next, size, lives, shut, <<>>),
         size \in 0..row.room, ~lives => size = 0, lives /\ shut => size > 0
  PROVE  RowOk(next, it)
<1>1. /\ next.room = row.room /\ next.size = size /\ next.live = lives
      /\ next.shut = shut /\ next.wait = <<>>
  BY DEF Becomes
<1>2. IsSeq(next.wait) /\ IsInjective(next.wait)
  BY <1>1, EmptyIsSeq DEF IsInjective
<1>3. RowShape(next)
  BY <1>2 DEF Becomes, RowShape
<1> QED
  BY <1>1, <1>3 DEF RowOk

\* comp.ts, chan_park.  One more waits, for a value or with one.
LEMMA ParkOk ==
  ASSUME NEW row, NEW it, RowOk(row, it), row.live, ~row.shut, NEW f, f \notin ToSet(row.wait),
         NEW next, Becomes(row, next, row.size, row.live, row.shut, Append(row.wait, f)),
         \/ it[f] = Hole /\ row.size = 0 /\ (row.wait # <<>> => it[Head(row.wait)] = Hole)
         \/ it[f] # Hole /\ row.size >= row.room
            /\ (row.wait # <<>> => it[Head(row.wait)] # Hole)
  PROVE  RowOk(next, it)
<1>1. /\ next.room = row.room /\ next.size = row.size /\ next.live = row.live
      /\ next.shut = row.shut /\ next.wait = Append(row.wait, f)
  BY DEF Becomes
<1>2. IsSeq(row.wait) /\ IsInjective(row.wait)
  BY DEF RowOk, RowShape
<1>3. IsSeq(next.wait) /\ IsInjective(next.wait)
  <2>1. IsSeq(Append(row.wait, f)) /\ IsInjective(Append(row.wait, f))
    BY <1>2, Lists
  <2> QED
    BY <1>1, <2>1
<1>4. /\ Len(next.wait) = Len(row.wait) + 1 /\ Len(row.wait) \in Nat
      /\ \A k \in 1..Len(row.wait) : next.wait[k] = row.wait[k]
      /\ next.wait[Len(row.wait) + 1] = f
      /\ row.wait = <<>> <=> Len(row.wait) = 0
  BY <1>1, <1>2, AppendSeq, SeqFacts
<1>5. \A k \in 1..Len(next.wait) : \/ k \in 1..Len(row.wait) /\ next.wait[k] = row.wait[k]
                                   \/ next.wait[k] = f
  BY <1>4
<1>6. row.wait # <<>> => Head(row.wait) = row.wait[1] /\ 1 \in 1..Len(row.wait)
  BY <1>2, Lists
<1>7. RowShape(next)
  BY <1>3 DEF Becomes, RowShape
<1>8. row.size \in 0..row.room /\ row.room \in Nat
  BY DEF RowOk
<1>9. CASE it[f] = Hole /\ row.size = 0 /\ (row.wait # <<>> => it[Head(row.wait)] = Hole)
  <2>1. Receivers(row, it)
    <3>1. CASE row.wait = <<>>
      <4>1. Len(row.wait) = 0
        BY <1>4, <3>1
      <4>2. 1..Len(row.wait) = {}
        BY <4>1
      <4> QED
        BY <4>2 DEF Receivers
    <3>2. CASE row.wait # <<>>
      <4>1. ~Offerers(row, it)
        BY <1>6, <1>9, <3>2 DEF Offerers
      <4> QED
        BY <3>2, <4>1 DEF RowOk
    <3> QED
      BY <3>1, <3>2
  <2>2. Receivers(next, it)
    BY <1>5, <1>9, <2>1 DEF Receivers
  <2> QED
    BY <1>1, <1>7, <1>9, <2>2 DEF RowOk
<1>10. CASE it[f] # Hole /\ row.size >= row.room /\ (row.wait # <<>> => it[Head(row.wait)] # Hole)
  <2>1. Offerers(row, it)
    <3>1. CASE row.wait = <<>>
      <4>1. Len(row.wait) = 0
        BY <1>4, <3>1
      <4>2. 1..Len(row.wait) = {}
        BY <4>1
      <4> QED
        BY <4>2 DEF Offerers
    <3>2. CASE row.wait # <<>>
      <4>1. ~Receivers(row, it)
        BY <1>6, <1>10, <3>2 DEF Receivers
      <4> QED
        BY <3>2, <4>1 DEF RowOk
    <3> QED
      BY <3>1, <3>2
  <2>2. Offerers(next, it)
    BY <1>5, <1>10, <2>1 DEF Offerers
  <2>3. row.size = row.room
    BY <1>8, <1>10
  <2> QED
    BY <1>1, <1>7, <2>2, <2>3 DEF RowOk
<1> QED
  BY <1>9, <1>10

\* Waiters with the same items.
LEMMA SameItems ==
  ASSUME NEW t, NEW it, RowsOk(t, it), NEW other,
         \A i \in 1..Len(t) : \A f \in ToSet(t[i].wait) : other[f] = it[f]
  PROVE  RowsOk(t, other)
<1> SUFFICES ASSUME NEW i \in 1..Len(t) PROVE RowOk(t[i], other)
  BY DEF RowsOk
<1>1. RowOk(t[i], it)
  BY DEF RowsOk
<1>2. IsSeq(t[i].wait) /\ IsInjective(t[i].wait)
  BY <1>1 DEF RowOk, RowShape
<1>3. \A k \in 1..Len(t[i].wait) : t[i].wait[k] \in ToSet(t[i].wait)
  BY <1>2, Lists
<1>4. /\ Receivers(t[i], it) => Receivers(t[i], other)
      /\ Offerers(t[i], it) => Offerers(t[i], other)
  BY <1>3 DEF Receivers, Offerers
<1> QED
  BY <1>1, <1>4 DEF RowOk

\* One row replaced, or one more.
LEMMA RowReplaced ==
  ASSUME NEW t, NEW it, RowsOk(t, it), NEW c \in 1..Len(t), NEW next, RowOk(next, it),
         NEW u, u = Replaced(t, c, next)
  PROVE  /\ RowsOk(u, it) /\ Len(u) = Len(t) /\ u[c] = next
         /\ \A i \in 1..Len(t) : i # c => u[i] = t[i]
<1>1. /\ IsSeq(u) /\ Len(u) = Len(t) /\ u[c] = next
      /\ \A i \in 1..Len(t) : i # c => u[i] = t[i]
  BY ReplaceSeq DEF RowsOk
<1> QED
  BY <1>1 DEF RowsOk

\* comp.ts, chan_open.
LEMMA RowAdded ==
  ASSUME NEW t, NEW it, RowsOk(t, it), NEW next, RowOk(next, it)
  PROVE  /\ RowsOk(Append(t, next), it) /\ Len(Append(t, next)) = Len(t) + 1 /\ Len(t) \in Nat
         /\ \A i \in 1..Len(t) : Append(t, next)[i] = t[i]
         /\ Append(t, next)[Len(t) + 1] = next
<1> DEFINE u == Append(t, next)
<1>1. /\ IsSeq(u) /\ Len(u) = Len(t) + 1 /\ Len(t) \in Nat
      /\ \A i \in 1..Len(t) : u[i] = t[i]
      /\ u[Len(t) + 1] = next
  BY AppendSeq, SeqFacts DEF RowsOk
<1> HIDE DEF u
<1>2. \A i \in 1..Len(u) : i \in 1..Len(t) \/ i = Len(t) + 1
  BY <1>1
<1>3. \A i \in 1..Len(u) : RowOk(u[i], it)
  BY <1>1, <1>2 DEF RowsOk
<1> QED
  BY <1>1, <1>3 DEF RowsOk, u

\* The idle list, when a row stays what it is, is freed or is used again.
LEMMA IdleStays ==
  ASSUME NEW t, NEW d, IdleOk(t, d), NEW c \in 1..Len(t), NEW u, Len(u) = Len(t),
         \A i \in 1..Len(t) : i # c => u[i] = t[i]
  PROVE  /\ u[c].live = t[c].live => IdleOk(u, d)
         /\ t[c].live /\ ~u[c].live => IdleOk(u, <<c>> \o d)
         /\ d # <<>> /\ c = Head(d) /\ u[c].live => IdleOk(u, Tail(d))
<1>1. IsSeq(d) /\ IsInjective(d) /\ ToSet(d) = {i \in 1..Len(t) : ~t[i].live}
  BY DEF IdleOk
<1>2. ASSUME u[c].live = t[c].live PROVE IdleOk(u, d)
  BY <1>1, <1>2 DEF IdleOk
<1>3. ASSUME t[c].live, ~u[c].live PROVE IdleOk(u, <<c>> \o d)
  <2>1. c \notin ToSet(d)
    BY <1>1, <1>3
  <2>2. /\ IsSeq(<<c>> \o d) /\ IsInjective(<<c>> \o d)
        /\ ToSet(<<c>> \o d) = ToSet(d) \cup {c}
    BY <1>1, <2>1, Lists
  <2>3. {i \in 1..Len(u) : ~u[i].live} = {i \in 1..Len(t) : ~t[i].live} \cup {c}
    BY <1>3
  <2> QED
    BY <1>1, <2>2, <2>3 DEF IdleOk
<1>4. ASSUME d # <<>>, c = Head(d), u[c].live PROVE IdleOk(u, Tail(d))
  <2>1. IsSeq(Tail(d)) /\ IsInjective(Tail(d)) /\ ToSet(Tail(d)) = ToSet(d) \ {c}
    BY <1>1, <1>4, Lists
  <2>2. {i \in 1..Len(u) : ~u[i].live} = {i \in 1..Len(t) : ~t[i].live} \ {c}
    BY <1>4
  <2> QED
    BY <1>1, <2>1, <2>2 DEF IdleOk
<1> QED
  BY <1>2, <1>3, <1>4

\* The same when one more row is used.
LEMMA IdleGrows ==
  ASSUME NEW t, NEW d, IdleOk(t, d), Len(t) \in Nat, NEW u, Len(u) = Len(t) + 1,
         \A i \in 1..Len(t) : u[i] = t[i], u[Len(t) + 1].live
  PROVE  IdleOk(u, d)
<1>1. 1..Len(u) = (1..Len(t)) \cup {Len(t) + 1}
  OBVIOUS
<1>2. {i \in 1..Len(u) : ~u[i].live} = {i \in 1..Len(t) : ~t[i].live}
  BY <1>1
<1> QED
  BY <1>2 DEF IdleOk

----------------------------------------------------------------------------
(* The invariant.                                                          *)

Nobody == {Awake, Asleep}

In(c, f) == IF c = f /\ f \notin Nobody THEN 1 ELSE 0
Hand(h, f) == IF f \in Nobody THEN 0 ELSE Count(h, f)
Hands(h) == {t \in DOMAIN h : h[t] \notin Nobody}

\* In how many places somebody is.
Everywhere(r, p, j, h, q, t, c, f) ==
  Count(r, f) + ParkCount(p, f) + Count(j, f) + Hand(h, f) + Count(q, f)
  + RowCount(t, f) + In(c, f)

Now(f) == Everywhere(runs, park, jobs, helpers, pipe, rows, cur, f)

Shaped ==
  /\ IsSeq(runs) /\ IsSeq(park) /\ IsSeq(jobs) /\ IsSeq(helpers) /\ IsSeq(pipe)
  /\ IsSeq(left) /\ IsSeq(item) /\ Len(item) = Len(left)
  /\ cur # Asleep
  /\ \A h \in handles : h[2] \in 1..Len(rows)

\* Nobody is in two places, and only who was born is anywhere.
Once == \A f : Now(f) <= (IF f \in Born THEN 1 ELSE 0)

Alive == live = Cardinality({f \in Born : Now(f) = 1})

Away ==
  /\ busy = Len(jobs) + Cardinality(Hands(helpers)) + Len(pipe)
  /\ Len(helpers) <= IO_HELP

NInv ==
  /\ Shaped /\ RowsOk(rows, item) /\ IdleOk(rows, idle)
  /\ Once /\ Alive /\ Away

\* The counts after a step.
LEMMA Primed ==
  ASSUME NEW f
  PROVE  Now(f)' = Everywhere(runs', park', jobs', helpers', pipe', rows', cur', f)
  BY DEF Now, Everywhere, Count, ParkCount, RowCount, Hand, In

\* Each count is a number.
LEMMA Numbers ==
  ASSUME NEW r, IsSeq(r), NEW p, IsSeq(p), NEW j, IsSeq(j), NEW h, IsSeq(h),
         NEW q, IsSeq(q), NEW t, IsSeq(t), NEW c, NEW f
  PROVE  /\ Count(r, f) \in Nat /\ ParkCount(p, f) \in Nat /\ Count(j, f) \in Nat
         /\ Hand(h, f) \in Nat /\ Count(q, f) \in Nat /\ RowCount(t, f) \in Nat
         /\ In(c, f) \in {0, 1}
         /\ Everywhere(r, p, j, h, q, t, c, f) \in Nat
<1>1. /\ Count(r, f) \in Nat /\ ParkCount(p, f) \in Nat /\ Count(j, f) \in Nat
      /\ Count(h, f) \in Nat /\ Count(q, f) \in Nat /\ RowCount(t, f) \in Nat
  BY CountIsNat
<1>2. Hand(h, f) \in Nat /\ In(c, f) \in {0, 1}
  BY <1>1 DEF Hand, In
<1> QED
  BY <1>1, <1>2 DEF Everywhere

\* Who is runnable, parked, on the pipe or in the loop waits in no row.
LEMMA WaitsNowhere ==
  ASSUME NEW r, IsSeq(r), NEW p, IsSeq(p), NEW j, IsSeq(j), NEW h, IsSeq(h),
         NEW q, IsSeq(q), NEW t, IsSeq(t), NEW c, NEW f,
         Everywhere(r, p, j, h, q, t, c, f) <= 1,
         Count(r, f) + ParkCount(p, f) + Count(q, f) + In(c, f) >= 1
  PROVE  \A i \in 1..Len(t) : f \notin ToSet(t[i].wait)
<1>1. /\ Count(r, f) \in Nat /\ ParkCount(p, f) \in Nat /\ Count(j, f) \in Nat
      /\ Hand(h, f) \in Nat /\ Count(q, f) \in Nat /\ RowCount(t, f) \in Nat
      /\ In(c, f) \in {0, 1}
  BY SMTT(30), Numbers
<1>2. Count(r, f) + ParkCount(p, f) + Count(j, f) + Hand(h, f) + Count(q, f)
        + RowCount(t, f) + In(c, f) <= 1
  BY DEF Everywhere
<1>3. RowCount(t, f) = 0
  BY <1>1, <1>2
<1> QED
  BY <1>3, CountIsNat

\* What is known of everybody.
LEMMA Counted ==
  ASSUME NInv, NEW f
  PROVE  /\ Count(runs, f) \in Nat /\ ParkCount(park, f) \in Nat /\ Count(jobs, f) \in Nat
         /\ Hand(helpers, f) \in Nat /\ Count(pipe, f) \in Nat /\ RowCount(rows, f) \in Nat
         /\ In(cur, f) \in {0, 1}
         /\ Now(f) = Count(runs, f) + ParkCount(park, f) + Count(jobs, f) + Hand(helpers, f)
                     + Count(pipe, f) + RowCount(rows, f) + In(cur, f)
         /\ Now(f) <= 1
         /\ f \notin Born => Now(f) = 0
<1>1. IsSeq(rows)
  BY DEF NInv, RowsOk
<1>0. IsSeq(runs) /\ IsSeq(park) /\ IsSeq(jobs) /\ IsSeq(helpers) /\ IsSeq(pipe)
  BY DEF NInv, Shaped
<1>2. /\ Count(runs, f) \in Nat /\ ParkCount(park, f) \in Nat /\ Count(jobs, f) \in Nat
      /\ Hand(helpers, f) \in Nat /\ Count(pipe, f) \in Nat /\ RowCount(rows, f) \in Nat
      /\ In(cur, f) \in {0, 1}
  <2>1. /\ Count(runs, f) \in Nat /\ ParkCount(park, f) \in Nat /\ Count(jobs, f) \in Nat
        /\ Count(helpers, f) \in Nat /\ Count(pipe, f) \in Nat /\ RowCount(rows, f) \in Nat
    BY <1>0, <1>1, CountIsNat
  <2> QED
    BY <2>1 DEF Hand, In
<1>3. Now(f) = Count(runs, f) + ParkCount(park, f) + Count(jobs, f) + Hand(helpers, f)
                     + Count(pipe, f) + RowCount(rows, f) + In(cur, f)
  BY DEF Now, Everywhere
<1>4. Now(f) <= (IF f \in Born THEN 1 ELSE 0)
  BY DEF NInv, Once
<1> QED
  BY <1>2, <1>3, <1>4

\* The ids of those who were born, and that nobody is not among them.
LEMMA BornIds ==
  ASSUME NInv
  PROVE  /\ Born = 1..Len(left) /\ Born = 1..Len(item) /\ DOMAIN item = 1..Len(item)
         /\ Len(left) \in Nat /\ IsFiniteSet(Born)
         /\ \A f \in Nobody : f \notin Born
<1>1. /\ Born = 1..Len(left) /\ Born = 1..Len(item) /\ DOMAIN item = 1..Len(item)
      /\ Len(left) \in Nat
  BY SeqFacts DEF NInv, Shaped, Born
<1> QED
  BY <1>1, FS_Interval DEF Nobody, Awake, Asleep

\* Where everybody still is when nobody has moved.
LEMMA NobodyMoved ==
  ASSUME NInv, Born' = Born, live' = live, \A f : Now(f)' = Now(f)
  PROVE  Once' /\ Alive'
<1>1. \A f : Now(f)' <= (IF f \in Born' THEN 1 ELSE 0)
  BY DEF NInv, Once
<1>2. {f \in Born' : Now(f)' = 1} = {f \in Born : Now(f) = 1}
  OBVIOUS
<1> QED
  BY <1>1, <1>2 DEF NInv, Once, Alive

\* What waits in a row was born.
LEMMA WaiterBorn ==
  ASSUME NInv, NEW i \in 1..Len(rows), NEW f \in ToSet(rows[i].wait)
  PROVE  f \in Born
<1>1. IsSeq(rows)
  BY DEF NInv, RowsOk
<1>2. RowCount(rows, f) # 0
  BY <1>1, CountIsNat
<1>3. RowCount(rows, f) \in Nat
  BY <1>1, CountIsNat
<1>4. Now(f) # 0
  BY SMTT(30), <1>2, Counted
<1> QED
  BY <1>4, Counted

----------------------------------------------------------------------------
(* Effects on channels.                                                    *)

\* An effect that moves who is runnable, in a row or in the loop, keeps the
\* rows and everybody.
ChanKept ==
  /\ RowsOk(rows', item') /\ IdleOk(rows', idle')
  /\ IsSeq(runs') /\ IsSeq(item') /\ Len(item') = Len(item) /\ cur' # Asleep
  /\ \A h \in handles' : h[2] \in 1..Len(rows')
  /\ \A g : Count(runs', g) + RowCount(rows', g) + In(cur', g)
              = Count(runs, g) + RowCount(rows, g) + In(cur, g)

\* Facts about one row.
LEMMA RowAt ==
  ASSUME NInv, NEW i \in 1..Len(rows)
  PROVE  /\ RowOk(rows[i], item) /\ RowShape(rows[i])
         /\ IsSeq(rows[i].wait) /\ IsInjective(rows[i].wait)
  BY DEF NInv, RowsOk, RowOk, RowShape

\* Effects that leave rows, runnable and items alone.
LEMMA NothingMoves ==
  ASSUME NInv, UNCHANGED <<rows, idle, handles, item, runs, cur>>
  PROVE  ChanKept
<1>1. \A h \in handles : h[2] \in 1..Len(rows)
  BY DEF NInv, Shaped
<1>2. \A g : Count(runs', g) = Count(runs, g) /\ RowCount(rows', g) = RowCount(rows, g)
             /\ In(cur', g) = In(cur, g)
  OBVIOUS
<1> QED
  BY <1>1, <1>2 DEF NInv, Shaped, ChanKept

\* A row that has the same waiters.
LEMMA RowMoves ==
  ASSUME NInv, NEW i \in 1..Len(rows), NEW next, RowOk(next, item),
         next.wait = rows[i].wait, rows' = Replaced(rows, i, next),
         \/ next.live = rows[i].live /\ idle' = idle
         \/ rows[i].live /\ ~next.live /\ idle' = <<i>> \o idle
         \/ idle # <<>> /\ i = Head(idle) /\ next.live /\ idle' = Tail(idle),
         \A h \in handles' : h \in handles \/ h[2] = i,
         UNCHANGED <<item, runs, cur>>
  PROVE  ChanKept
<1> DEFINE u == rows'
<1>0. u = Replaced(rows, i, next)
  OBVIOUS
<1>1. RowsOk(rows, item) /\ IdleOk(rows, idle) /\ IsSeq(rows)
  BY DEF NInv, RowsOk
<1> HIDE DEF u
<1>2. /\ RowsOk(u, item) /\ Len(u) = Len(rows) /\ u[i] = next
      /\ \A k \in 1..Len(rows) : k # i => u[k] = rows[k]
  BY <1>0, <1>1, RowReplaced
<1>3. IdleOk(u, idle')
  <2>1. /\ u[i].live = rows[i].live => IdleOk(u, idle)
        /\ rows[i].live /\ ~u[i].live => IdleOk(u, <<i>> \o idle)
        /\ idle # <<>> /\ i = Head(idle) /\ u[i].live => IdleOk(u, Tail(idle))
    BY <1>1, <1>2, IdleStays
  <2> QED
    BY <1>2, <2>1
<1>4. ASSUME NEW g
      PROVE  Count(runs', g) + RowCount(u, g) + In(cur', g)
               = Count(runs, g) + RowCount(rows, g) + In(cur, g)
  <2>1. RowCount(u, g) + (IF g \in ToSet(rows[i].wait) THEN 1 ELSE 0)
          = RowCount(rows, g) + (IF g \in ToSet(next.wait) THEN 1 ELSE 0)
    BY <1>0, <1>1, CountReplace
  <2>2. IsSeq(u) /\ RowCount(u, g) \in Nat /\ RowCount(rows, g) \in Nat
    BY <1>1, <1>2, CountIsNat DEF RowsOk
  <2>3. RowCount(u, g) = RowCount(rows, g)
    BY <2>1, <2>2
  <2> QED
    BY <2>3
<1>5. \A h \in handles' : h[2] \in 1..Len(u)
  BY <1>2 DEF NInv, Shaped
<1>6. /\ RowsOk(rows', item') /\ IdleOk(rows', idle')
      /\ \A h \in handles' : h[2] \in 1..Len(rows')
  BY <1>2, <1>3, <1>5 DEF u
<1>7. \A g : Count(runs', g) + RowCount(rows', g) + In(cur', g)
               = Count(runs, g) + RowCount(rows, g) + In(cur, g)
  BY <1>4 DEF u
<1>8. IsSeq(runs') /\ IsSeq(item') /\ Len(item') = Len(item) /\ cur' # Asleep
  BY DEF NInv, Shaped
<1> QED
  BY <1>6, <1>7, <1>8 DEF ChanKept

\* comp.ts, chan_wake.  The first waiter goes to the end of the runnable.
LEMMA WakeMoves ==
  ASSUME NInv, NEW i \in 1..Len(rows), rows[i].wait # <<>>, NEW next, NEW x,
         Becomes(rows[i], next, rows[i].size, rows[i].live, rows[i].shut, Tail(rows[i].wait)),
         rows' = Replaced(rows, i, next),
         item' = [item EXCEPT ![Head(rows[i].wait)] = x],
         runs' = Append(runs, Head(rows[i].wait)),
         UNCHANGED <<idle, handles, cur>>
  PROVE  ChanKept
<1> DEFINE u == rows'
           w == rows[i].wait
           f == Head(w)
           r == runs'
<1>0. u = Replaced(rows, i, next) /\ r = Append(runs, f)
  OBVIOUS
<1>1. RowsOk(rows, item) /\ IdleOk(rows, idle) /\ IsSeq(rows) /\ IsSeq(runs)
  BY DEF NInv, RowsOk, Shaped
<1>2. RowOk(rows[i], item) /\ IsSeq(w) /\ IsInjective(w)
  BY RowAt
<1>3. RowOk(next, item)
  BY <1>2, WakeOk
<1>4. next.live = rows[i].live /\ next.wait = Tail(w)
  BY DEF Becomes
<1>5. f \in ToSet(w) /\ ToSet(Tail(w)) = ToSet(w) \ {f}
  BY <1>2, Lists
<1>6. f \in Born
  BY <1>5, WaiterBorn
<1> HIDE DEF u, w, f, r
<1>7. /\ RowsOk(u, item) /\ Len(u) = Len(rows) /\ u[i] = next
      /\ \A k \in 1..Len(rows) : k # i => u[k] = rows[k]
  BY <1>0, <1>1, <1>3, RowReplaced
<1>8. IdleOk(u, idle)
  BY <1>1, <1>4, <1>7, IdleStays
<1>9. IsSeq(u) /\ IsSeq(r)
  BY <1>0, <1>1, <1>7, AppendSeq DEF RowsOk
<1>10. ASSUME NEW g
       PROVE  /\ Count(r, g) + RowCount(u, g) = Count(runs, g) + RowCount(rows, g)
              /\ Count(r, g) \in Nat /\ RowCount(u, g) \in Nat
              /\ Count(r, g) = Count(runs, g) + (IF f = g THEN 1 ELSE 0)
  <2>1. RowCount(u, g) + (IF g \in ToSet(w) THEN 1 ELSE 0)
          = RowCount(rows, g) + (IF g \in ToSet(Tail(w)) THEN 1 ELSE 0)
    <3>1. RowCount(u, g) + (IF g \in ToSet(rows[i].wait) THEN 1 ELSE 0)
            = RowCount(rows, g) + (IF g \in ToSet(next.wait) THEN 1 ELSE 0)
      BY <1>0, <1>1, CountReplace
    <3> QED
      BY <1>4, <3>1 DEF w
  <2>2. Count(r, g) = Count(runs, g) + (IF f = g THEN 1 ELSE 0)
    BY <1>0, <1>1, CountAppend
  <2>3. /\ RowCount(u, g) \in Nat /\ RowCount(rows, g) \in Nat /\ Count(runs, g) \in Nat
    BY <1>1, <1>9, CountIsNat
  <2>4. g \in ToSet(Tail(w)) <=> g \in ToSet(w) /\ g # f
    BY <1>5
  <2> QED
    BY SMTT(30), <1>5, <2>1, <2>2, <2>3, <2>4
<1>11. \A k \in 1..Len(u) : f \notin ToSet(u[k].wait)
  <2>1. /\ Count(runs, f) \in Nat /\ ParkCount(park, f) \in Nat /\ Count(jobs, f) \in Nat
        /\ Hand(helpers, f) \in Nat /\ Count(pipe, f) \in Nat /\ RowCount(rows, f) \in Nat
        /\ In(cur, f) \in {0, 1}
        /\ Now(f) = Count(runs, f) + ParkCount(park, f) + Count(jobs, f) + Hand(helpers, f)
                    + Count(pipe, f) + RowCount(rows, f) + In(cur, f)
        /\ Now(f) <= 1
    BY Counted
  <2>2. Count(r, f) + RowCount(u, f) = Count(runs, f) + RowCount(rows, f)
        /\ Count(r, f) = Count(runs, f) + 1 /\ RowCount(u, f) \in Nat
    BY <1>10
  <2>3. RowCount(u, f) = 0
    BY SMTT(30), <2>1, <2>2
  <2> QED
    BY <1>9, <2>3, CountIsNat
<1>12. DOMAIN item = 1..Len(item) /\ f \in 1..Len(item) /\ IsSeq(item)
  BY <1>6, BornIds DEF NInv, Shaped
<1> DEFINE it == item'
<1>13. it = Replaced(item, f, x)
  BY DEF Replaced, f, w
<1> HIDE DEF it
<1>14. /\ IsSeq(it) /\ Len(it) = Len(item)
       /\ \A g \in 1..Len(item) : g # f => it[g] = item[g]
  BY <1>12, <1>13, ReplaceSeq
<1>15. \A k \in 1..Len(u) : \A g \in ToSet(u[k].wait) : it[g] = item[g]
  <2> SUFFICES ASSUME NEW k \in 1..Len(u), NEW g \in ToSet(u[k].wait) PROVE it[g] = item[g]
    OBVIOUS
  <2>1. g # f
    BY <1>11
  <2>2. g \in Born
    <3>1. CASE k = i
      <4>1. g \in ToSet(w)
        BY <1>4, <1>5, <1>7, <3>1
      <4> QED
        BY <4>1, WaiterBorn DEF w
    <3>2. CASE k # i
      <4>1. u[k] = rows[k] /\ k \in 1..Len(rows)
        BY <1>7, <3>2
      <4> QED
        BY <4>1, WaiterBorn
    <3> QED
      BY <3>1, <3>2
  <2>3. g \in 1..Len(item)
    BY <2>2, BornIds
  <2> QED
    BY <1>14, <2>1, <2>3
<1>16. RowsOk(u, it)
  BY <1>7, <1>15, SameItems
<1>17. \A g : Count(runs', g) + RowCount(rows', g) + In(cur', g)
                = Count(runs, g) + RowCount(rows, g) + In(cur, g)
  BY <1>10 DEF u, r
<1>18. \A h \in handles' : h[2] \in 1..Len(rows')
  BY <1>7 DEF NInv, Shaped, u
<1>19. RowsOk(rows', item') /\ IdleOk(rows', idle') /\ IsSeq(runs')
       /\ IsSeq(item') /\ Len(item') = Len(item)
  BY <1>8, <1>9, <1>14, <1>16 DEF u, r, it
<1>20. cur' # Asleep
  BY DEF NInv, Shaped
<1> QED
  BY <1>17, <1>18, <1>19, <1>20 DEF ChanKept

\* comp.ts, chan_park.  The computation in the loop waits in a row.
LEMMA ParkMoves ==
  ASSUME NInv, cur # Idle, NEW i \in 1..Len(rows), rows[i].live, ~rows[i].shut,
         NEW next, NEW x,
         Becomes(rows[i], next, rows[i].size, rows[i].live, rows[i].shut,
                 Append(rows[i].wait, cur)),
         \/ x = Hole /\ rows[i].size = 0
            /\ (rows[i].wait # <<>> => item[Head(rows[i].wait)] = Hole)
         \/ x # Hole /\ rows[i].size >= rows[i].room
            /\ (rows[i].wait # <<>> => item[Head(rows[i].wait)] # Hole),
         rows' = Replaced(rows, i, next), item' = [item EXCEPT ![cur] = x],
         cur' = Idle, UNCHANGED <<runs, idle, handles>>
  PROVE  ChanKept
<1> DEFINE u == rows'
           w == rows[i].wait
           it == item'
<1>0. u = Replaced(rows, i, next) /\ it = Replaced(item, cur, x)
  BY DEF Replaced
<1>1. RowsOk(rows, item) /\ IdleOk(rows, idle) /\ IsSeq(rows) /\ IsSeq(runs)
  BY DEF NInv, RowsOk, Shaped
<1>2. RowOk(rows[i], item) /\ IsSeq(w) /\ IsInjective(w)
  BY RowAt
<1>3. cur \notin Nobody /\ In(cur, cur) = 1
  BY DEF NInv, Shaped, Nobody, Idle, Awake, Asleep, In
<1>4. /\ RowCount(rows, cur) = 0 /\ cur \in Born
  <2>1. /\ Count(runs, cur) \in Nat /\ ParkCount(park, cur) \in Nat /\ Count(jobs, cur) \in Nat
        /\ Hand(helpers, cur) \in Nat /\ Count(pipe, cur) \in Nat /\ RowCount(rows, cur) \in Nat
        /\ Now(cur) = Count(runs, cur) + ParkCount(park, cur) + Count(jobs, cur)
                      + Hand(helpers, cur) + Count(pipe, cur) + RowCount(rows, cur) + In(cur, cur)
        /\ Now(cur) <= 1
        /\ cur \notin Born => Now(cur) = 0
    BY Counted
  <2> QED
    BY <1>3, <2>1
<1>5. \A k \in 1..Len(rows) : cur \notin ToSet(rows[k].wait)
  BY <1>1, <1>4, CountIsNat
<1>6. next.live = rows[i].live /\ next.wait = Append(w, cur)
  BY DEF Becomes
<1>7. ToSet(Append(w, cur)) = ToSet(w) \cup {cur}
  BY <1>2, <1>5, Lists
<1>8. DOMAIN item = 1..Len(item) /\ cur \in 1..Len(item) /\ IsSeq(item)
  BY <1>4, BornIds DEF NInv, Shaped
<1> HIDE DEF u, it
<1>9. /\ IsSeq(it) /\ Len(it) = Len(item) /\ it[cur] = x
      /\ \A g \in 1..Len(item) : g # cur => it[g] = item[g]
  BY <1>0, <1>8, ReplaceSeq
<1>10. \A k \in 1..Len(rows) : \A g \in ToSet(rows[k].wait) : it[g] = item[g]
  <2> SUFFICES ASSUME NEW k \in 1..Len(rows), NEW g \in ToSet(rows[k].wait)
               PROVE it[g] = item[g]
    OBVIOUS
  <2>1. g # cur
    BY <1>5
  <2>2. g \in 1..Len(item)
    BY WaiterBorn, BornIds
  <2> QED
    BY <1>9, <2>1, <2>2
<1>11. RowsOk(rows, it)
  BY <1>1, <1>10, SameItems
<1>12. RowOk(rows[i], it)
  BY <1>11 DEF RowsOk
<1>13. w # <<>> => it[Head(w)] = item[Head(w)]
  BY <1>2, <1>10, Lists
<1>14. cur \notin ToSet(rows[i].wait)
  BY <1>5
<1>15. \/ it[cur] = Hole /\ rows[i].size = 0 /\ (rows[i].wait # <<>> => it[Head(rows[i].wait)] = Hole)
       \/ it[cur] # Hole /\ rows[i].size >= rows[i].room
          /\ (rows[i].wait # <<>> => it[Head(rows[i].wait)] # Hole)
  BY <1>9, <1>13
<1>16. RowOk(next, it)
  BY <1>12, <1>14, <1>15, ParkOk
<1> HIDE DEF w
<1>17. /\ RowsOk(u, it) /\ Len(u) = Len(rows) /\ u[i] = next
       /\ \A k \in 1..Len(rows) : k # i => u[k] = rows[k]
  <2>1. u = Replaced(rows, i, next) /\ i \in 1..Len(rows)
    BY <1>0
  <2> QED
    BY ONLY <1>11, <1>16, <2>1, RowReplaced
<1>18. IdleOk(u, idle)
  BY <1>1, <1>6, <1>17, IdleStays
<1>19. ASSUME NEW g
       PROVE  Count(runs', g) + RowCount(u, g) + In(cur', g)
                = Count(runs, g) + RowCount(rows, g) + In(cur, g)
  <2>1. RowCount(u, g) + (IF g \in ToSet(rows[i].wait) THEN 1 ELSE 0)
          = RowCount(rows, g) + (IF g \in ToSet(next.wait) THEN 1 ELSE 0)
    BY <1>0, <1>1, CountReplace
  <2>2. RowCount(u, g) + (IF g \in ToSet(w) THEN 1 ELSE 0)
          = RowCount(rows, g) + (IF g \in ToSet(w) \/ g = cur THEN 1 ELSE 0)
    BY <1>6, <1>7, <2>1 DEF w
  <2>3. IsSeq(u) /\ RowCount(u, g) \in Nat /\ RowCount(rows, g) \in Nat
    BY <1>1, <1>17, CountIsNat DEF RowsOk
  <2>4. cur \notin ToSet(w)
    BY <1>14 DEF w
  <2>5. RowCount(u, g) = RowCount(rows, g) + (IF g = cur THEN 1 ELSE 0)
    BY <2>2, <2>3, <2>4
  <2>6. In(cur', g) = 0 /\ In(cur, g) = IF g = cur THEN 1 ELSE 0
    BY <1>3 DEF In, Nobody, Idle, Awake
  <2>7. Count(runs', g) = Count(runs, g) /\ Count(runs, g) \in Nat
    BY <1>1, CountIsNat
  <2> QED
    BY <2>3, <2>5, <2>6, <2>7
<1>20. \A g : Count(runs', g) + RowCount(rows', g) + In(cur', g)
                = Count(runs, g) + RowCount(rows, g) + In(cur, g)
  BY <1>19 DEF u
<1>21. \A h \in handles' : h[2] \in 1..Len(rows')
  BY <1>17 DEF NInv, Shaped, u
<1>22. RowsOk(rows', item') /\ IdleOk(rows', idle') /\ IsSeq(runs')
       /\ IsSeq(item') /\ Len(item') = Len(item)
  BY <1>1, <1>9, <1>17, <1>18 DEF u, it
<1>23. cur' # Asleep
  BY DEF Idle, Asleep
<1> QED
  BY <1>20, <1>21, <1>22, <1>23 DEF ChanKept

\* Who is in a list without repetitions is there once.
LEMMA CountOnce ==
  ASSUME NEW s, IsSeq(s), IsInjective(s), NEW f
  PROVE  Count(s, f) = IF f \in ToSet(s) THEN 1 ELSE 0
<1> DEFINE D == {i \in DOMAIN s : s[i] = f}
<1>1. CASE f \in ToSet(s)
  <2>1. PICK i \in DOMAIN s : s[i] = f
    BY <1>1 DEF ToSet
  <2>2. D = {i}
    BY <2>1 DEF IsInjective
  <2>3. Cardinality({i}) = 1
    BY FS_Singleton
  <2> QED
    BY <1>1, <2>2, <2>3 DEF Count
<1>2. CASE f \notin ToSet(s)
  <2>1. D = {}
    BY <1>2 DEF ToSet
  <2> QED
    BY <1>2, <2>1, FS_EmptySet DEF Count
<1> QED
  BY <1>1, <1>2

Joined(s, t) == s \o t

\* comp.ts, chan_shut.  All who waited in the row go to the runnable.
LEMMA ShutMoves ==
  ASSUME NInv, NEW i \in 1..Len(rows), rows[i].live, NEW next, RowOk(next, item),
         next.wait = <<>>, rows' = Replaced(rows, i, next),
         \/ next.live /\ idle' = idle
         \/ ~next.live /\ idle' = Joined(<<i>>, idle),
         runs' = Joined(runs, rows[i].wait),
         IsSeq(item') /\ Len(item') = Len(item),
         \A g \in 1..Len(item) : g \notin ToSet(rows[i].wait) => item'[g] = item[g],
         UNCHANGED <<handles, cur>>
  PROVE  ChanKept
<1> DEFINE u == rows'
           w == rows[i].wait
           r == runs'
           it == item'
<1>0. u = Replaced(rows, i, next) /\ r = Joined(runs, w)
  OBVIOUS
<1>1. RowsOk(rows, item) /\ IdleOk(rows, idle) /\ IsSeq(rows) /\ IsSeq(runs)
  BY DEF NInv, RowsOk, Shaped
<1>2. RowOk(rows[i], item) /\ IsSeq(w) /\ IsInjective(w)
  BY RowAt
<1>3. ToSet(next.wait) = {}
  BY DEF ToSet
<1>4. \A g \in 1..Len(item) : g \notin ToSet(w) => it[g] = item[g]
  OBVIOUS
<1> HIDE DEF u, w, r, it
<1>5. /\ RowsOk(u, item) /\ Len(u) = Len(rows) /\ u[i] = next
      /\ \A k \in 1..Len(rows) : k # i => u[k] = rows[k]
  BY <1>0, <1>1, RowReplaced
<1>6. IdleOk(u, idle')
  <2>1. rows[i].live \in BOOLEAN /\ next.live \in BOOLEAN
    BY <1>2 DEF RowOk
  <2>2. /\ u[i].live = rows[i].live => IdleOk(u, idle)
        /\ rows[i].live /\ ~u[i].live => IdleOk(u, Joined(<<i>>, idle))
    BY <1>1, <1>5, IdleStays DEF Joined
  <2> QED
    BY <1>5, <2>1, <2>2
<1>7. IsSeq(u) /\ IsSeq(r)
  BY <1>0, <1>1, <1>2, <1>5, ConcatSeq DEF RowsOk, Joined
<1>8. ASSUME NEW g
      PROVE  /\ Count(r, g) + RowCount(u, g) = Count(runs, g) + RowCount(rows, g)
             /\ Count(r, g) \in Nat /\ RowCount(u, g) \in Nat
             /\ Count(r, g) = Count(runs, g) + (IF g \in ToSet(w) THEN 1 ELSE 0)
  <2>1. RowCount(u, g) + (IF g \in ToSet(w) THEN 1 ELSE 0) = RowCount(rows, g) + 0
    <3>1. RowCount(u, g) + (IF g \in ToSet(rows[i].wait) THEN 1 ELSE 0)
            = RowCount(rows, g) + (IF g \in ToSet(next.wait) THEN 1 ELSE 0)
      BY <1>0, <1>1, CountReplace
    <3> QED
      BY <1>3, <3>1 DEF w
  <2>2. Count(r, g) = Count(runs, g) + Count(w, g)
    BY <1>0, <1>1, <1>2, CountConcat DEF Joined
  <2>3. Count(w, g) = IF g \in ToSet(w) THEN 1 ELSE 0
    BY <1>2, CountOnce
  <2>4. /\ RowCount(u, g) \in Nat /\ RowCount(rows, g) \in Nat /\ Count(runs, g) \in Nat
    BY <1>1, <1>7, CountIsNat
  <2> QED
    BY SMTT(30), <2>1, <2>2, <2>3, <2>4
<1>9. ASSUME NEW f \in ToSet(w) PROVE \A k \in 1..Len(u) : f \notin ToSet(u[k].wait)
  <2>1. /\ Count(runs, f) \in Nat /\ ParkCount(park, f) \in Nat /\ Count(jobs, f) \in Nat
        /\ Hand(helpers, f) \in Nat /\ Count(pipe, f) \in Nat /\ RowCount(rows, f) \in Nat
        /\ In(cur, f) \in {0, 1}
        /\ Now(f) = Count(runs, f) + ParkCount(park, f) + Count(jobs, f) + Hand(helpers, f)
                    + Count(pipe, f) + RowCount(rows, f) + In(cur, f)
        /\ Now(f) <= 1
    BY Counted
  <2>2. Count(r, f) + RowCount(u, f) = Count(runs, f) + RowCount(rows, f)
        /\ Count(r, f) = Count(runs, f) + 1 /\ RowCount(u, f) \in Nat
    BY <1>8
  <2>3. RowCount(u, f) = 0
    BY SMTT(30), <2>1, <2>2
  <2> QED
    BY <1>7, <2>3, CountIsNat
<1>10. \A k \in 1..Len(u) : \A g \in ToSet(u[k].wait) : it[g] = item[g]
  <2> SUFFICES ASSUME NEW k \in 1..Len(u), NEW g \in ToSet(u[k].wait) PROVE it[g] = item[g]
    OBVIOUS
  <2>1. g \notin ToSet(w)
    BY <1>9
  <2>2. k # i
    BY <1>3, <1>5
  <2>3. u[k] = rows[k] /\ k \in 1..Len(rows)
    BY <1>5, <2>2
  <2>4. g \in 1..Len(item)
    BY <2>3, WaiterBorn, BornIds
  <2> QED
    BY <1>4, <2>1, <2>4
<1>11. RowsOk(u, it)
  BY <1>5, <1>10, SameItems
<1>12. \A g : Count(runs', g) + RowCount(rows', g) + In(cur', g)
                = Count(runs, g) + RowCount(rows, g) + In(cur, g)
  BY <1>8 DEF u, r
<1>13. \A h \in handles' : h[2] \in 1..Len(rows')
  BY <1>5 DEF NInv, Shaped, u
<1>14. RowsOk(rows', item') /\ IdleOk(rows', idle') /\ IsSeq(runs')
  BY <1>6, <1>7, <1>11 DEF u, r, it
<1>15. cur' # Asleep
  BY DEF NInv, Shaped
<1> QED
  BY <1>12, <1>13, <1>14, <1>15 DEF ChanKept

\* comp.ts, chan_open.
LEMMA NewKept ==
  ASSUME NInv, ChanNew(cur)
  PROVE  ChanKept
<1>1. RowsOk(rows, item) /\ IdleOk(rows, idle) /\ IsSeq(rows) /\ IsSeq(runs)
  BY DEF NInv, RowsOk, Shaped
<1>2. runs' = runs /\ item' = item /\ cur' = cur
  BY DEF ChanNew, Answer
<1>3. PICK room \in Rooms :
        \/ /\ idle # <<>>
           /\ \E gen : /\ rows' = [rows EXCEPT ![Head(idle)] = NewRow(gen, room)]
                       /\ handles' = handles \cup {<<gen, Head(idle)>>}
           /\ idle' = Tail(idle)
        \/ /\ rows' = Append(rows, NewRow(1, room))
           /\ handles' = handles \cup {<<1, Len(rows) + 1>>}
           /\ idle' = idle
  BY DEF ChanNew
<1>4. room \in Nat
  BY NativeIoAssumption
<1>5. ASSUME idle # <<>>, NEW gen, rows' = [rows EXCEPT ![Head(idle)] = NewRow(gen, room)],
             handles' = handles \cup {<<gen, Head(idle)>>}, idle' = Tail(idle)
      PROVE  ChanKept
  <2> DEFINE i == Head(idle)
             next == NewRow(gen, room)
  <2>1. i \in ToSet(idle)
    BY <1>1, <1>5, Lists DEF IdleOk
  <2>2. i \in 1..Len(rows) /\ ~rows[i].live
    BY <1>1, <2>1 DEF IdleOk
  <2>3. rows[i].wait = <<>>
    BY <1>1, <2>2 DEF RowsOk, RowOk
  <2>4. RowOk(next, item) /\ next.live /\ next.wait = <<>>
    BY <1>4, NewRowOk
  <2>5. rows' = Replaced(rows, i, next)
    BY <1>5 DEF Replaced
  <2>6. \A h \in handles' : h \in handles \/ h[2] = i
    BY <1>5
  <2>7. idle # <<>> /\ i = Head(idle) /\ next.live /\ idle' = Tail(idle)
    BY <1>5, <2>4
  <2>8. next.wait = rows[i].wait
    BY <2>3, <2>4
  <2> HIDE DEF next, i
  <2> QED
    BY <1>2, <2>2, <2>4, <2>5, <2>6, <2>7, <2>8, RowMoves
<1>6. ASSUME rows' = Append(rows, NewRow(1, room)),
             handles' = handles \cup {<<1, Len(rows) + 1>>}, idle' = idle
      PROVE  ChanKept
  <2> DEFINE next == NewRow(1, room)
             u == rows'
  <2>1. RowOk(next, item) /\ next.live /\ next.wait = <<>>
    BY <1>4, NewRowOk
  <2>2. u = Append(rows, next)
    BY <1>6
  <2> HIDE DEF next, u
  <2>3. /\ RowsOk(u, item) /\ Len(u) = Len(rows) + 1 /\ Len(rows) \in Nat
        /\ \A i \in 1..Len(rows) : u[i] = rows[i]
        /\ u[Len(rows) + 1] = next
    BY <1>1, <2>1, <2>2, RowAdded
  <2>4. IdleOk(u, idle)
    BY <1>1, <2>1, <2>3, IdleGrows
  <2>5. ASSUME NEW g PROVE RowCount(u, g) = RowCount(rows, g)
    <3>1. RowCount(u, g) = RowCount(rows, g) + (IF g \in ToSet(next.wait) THEN 1 ELSE 0)
      BY <1>1, <2>2, CountAppend
    <3>2. g \notin ToSet(next.wait)
      BY <2>1 DEF ToSet
    <3>3. RowCount(rows, g) \in Nat
      BY <1>1, CountIsNat
    <3> QED
      BY <3>1, <3>2, <3>3
  <2>6. \A g : Count(runs', g) + RowCount(rows', g) + In(cur', g)
                 = Count(runs, g) + RowCount(rows, g) + In(cur, g)
    BY <1>2, <2>5 DEF u
  <2>7. \A h \in handles' : h[2] \in 1..Len(rows')
    <3>1. \A h \in handles : h[2] \in 1..Len(rows)
      BY DEF NInv, Shaped
    <3>2. \A h \in handles' : h \in handles \/ h[2] = Len(rows) + 1
      BY <1>6
    <3> QED
      BY <2>3, <3>1, <3>2 DEF u
  <2>8. RowsOk(rows', item') /\ IdleOk(rows', idle')
    BY <1>2, <1>6, <2>3, <2>4 DEF u
  <2>9. IsSeq(runs') /\ IsSeq(item') /\ Len(item') = Len(item) /\ cur' # Asleep
    BY <1>2 DEF NInv, Shaped
  <2> QED
    BY <2>6, <2>7, <2>8, <2>9 DEF ChanKept
<1> QED
  BY <1>3, <1>5, <1>6

\* A handle that is found leads to a row in use.
LEMMA FoundRow ==
  ASSUME NInv, NEW h \in handles, Found(h)
  PROVE  h[2] \in 1..Len(rows) /\ rows[h[2]].live
  BY DEF NInv, Shaped, Found

\* comp.ts, chan_send.
LEMMA SendKept ==
  ASSUME NInv, cur # Idle, NEW h \in handles, ChanSend(cur, h)
  PROVE  ChanKept
<1> DEFINE i == h[2]
           row == rows[i]
           v == <<cur, left[cur]>>
<1>1. idle' = idle /\ handles' = handles
  BY DEF ChanSend
<1>2. \/ cur' = cur /\ UNCHANGED <<rows, item, runs>>
      \/ /\ Found(h) /\ ReceiverWaits(row) /\ ChanWake(i, row, Some(v)) /\ cur' = cur
      \/ /\ Found(h) /\ ~row.shut /\ ~ReceiverWaits(row) /\ row.size < row.room
         /\ rows' = [rows EXCEPT ![i] = Stored(row, v)]
         /\ cur' = cur /\ UNCHANGED <<item, runs>>
      \/ /\ Found(h) /\ ~row.shut /\ ~ReceiverWaits(row) /\ row.size >= row.room
         /\ ChanPark(cur, i, v) /\ cur' = Idle /\ UNCHANGED runs
  BY DEF ChanSend
<1>3. ASSUME cur' = cur, UNCHANGED <<rows, item, runs>> PROVE ChanKept
  BY <1>1, <1>3, NothingMoves
<1>4. ASSUME Found(h), ReceiverWaits(row), ChanWake(i, row, Some(v)), cur' = cur
      PROVE  ChanKept
  <2>1. i \in 1..Len(rows)
    BY <1>4, FoundRow
  <2>2. row.wait # <<>>
    BY <1>4 DEF ReceiverWaits
  <2> DEFINE next == [row EXCEPT !.wait = Tail(@)]
  <2>3. Becomes(row, next, row.size, row.live, row.shut, Tail(row.wait))
    BY <2>1, RowAt, RowEdits
  <2>4. /\ rows' = Replaced(rows, i, next)
        /\ item' = [item EXCEPT ![Head(row.wait)] = Some(v)]
        /\ runs' = Append(runs, Head(row.wait))
    BY <1>4 DEF ChanWake, Replaced
  <2> HIDE DEF next, v
  <2> QED
    BY <1>1, <1>4, <2>1, <2>2, <2>3, <2>4, WakeMoves
<1>5. ASSUME Found(h), ~row.shut, ~ReceiverWaits(row), row.size < row.room,
             rows' = [rows EXCEPT ![i] = Stored(row, v)], cur' = cur, UNCHANGED <<item, runs>>
      PROVE  ChanKept
  <2>1. i \in 1..Len(rows) /\ row.live
    BY <1>5, FoundRow
  <2>2. RowOk(row, item) /\ RowShape(row) /\ IsSeq(row.wait) /\ IsInjective(row.wait)
    BY <2>1, RowAt
  <2>3. row.wait = <<>>
    <3> SUFFICES ASSUME row.wait # <<>> PROVE FALSE
      OBVIOUS
    <3>1. Head(row.wait) = row.wait[1] /\ 1 \in 1..Len(row.wait)
      BY <2>2, Lists
    <3>2. item[row.wait[1]] # Hole
      BY <1>5, <3>1 DEF ReceiverWaits
    <3>3. row.size # row.room
      BY <1>5, <2>2 DEF RowOk
    <3> QED
      BY <2>2, <3>1, <3>2, <3>3 DEF RowOk, Receivers
  <2> DEFINE next == Stored(row, v)
  <2>4. Becomes(row, next, row.size + 1, row.live, row.shut, row.wait)
    BY <2>2, StoreAndTake
  <2>5. Becomes(row, next, row.size + 1, row.live, row.shut, <<>>)
    BY <2>3, <2>4
  <2>6. rows' = Replaced(rows, i, next)
    BY <1>5 DEF Replaced
  <2> HIDE DEF next, v
  <2>7. /\ row.live \in BOOLEAN /\ row.shut \in BOOLEAN
        /\ row.size + 1 \in 0..row.room /\ row.size + 1 > 0
    BY <1>5, <2>2 DEF RowOk
  <2>8. RowOk(next, item)
    BY <2>1, <2>2, <2>5, <2>7, QuietOk
  <2>9. next.wait = row.wait /\ next.live = row.live
    BY <2>4 DEF Becomes
  <2> QED
    BY <1>1, <1>5, <2>1, <2>6, <2>8, <2>9, RowMoves
<1>6. ASSUME Found(h), ~row.shut, ~ReceiverWaits(row), row.size >= row.room,
             ChanPark(cur, i, v), cur' = Idle, UNCHANGED runs
      PROVE  ChanKept
  <2>1. i \in 1..Len(rows) /\ row.live
    BY <1>6, FoundRow
  <2> DEFINE next == [row EXCEPT !.wait = Append(@, cur)]
  <2>2. Becomes(row, next, row.size, row.live, row.shut, Append(row.wait, cur))
    BY <2>1, RowAt, RowEdits
  <2>3. rows' = Replaced(rows, i, next) /\ item' = [item EXCEPT ![cur] = v]
    BY <1>6 DEF ChanPark, Replaced
  <2>4. v # Hole
    BY DEF Hole
  <2>5. row.wait # <<>> => item[Head(row.wait)] # Hole
    BY <1>6 DEF ReceiverWaits
  <2> HIDE DEF next, v
  <2> QED
    BY <1>1, <1>6, <2>1, <2>2, <2>3, <2>4, <2>5, ParkMoves
<1> HIDE DEF v
<1> QED
  BY <1>2, <1>3, <1>4, <1>5, <1>6

\* comp.ts, chan_recv and chan_take.
LEMMA RecvKept ==
  ASSUME NInv, cur # Idle, NEW h \in handles, ChanRecv(cur, h)
  PROVE  ChanKept
<1> DEFINE i == h[2]
           row == rows[i]
<1>1. handles' = handles
  BY DEF ChanRecv
<1>2. \/ cur' = cur /\ UNCHANGED <<rows, idle, item, runs>>
      \/ /\ Found(h) /\ row.size > 0 /\ row.wait # <<>>
         /\ ChanWake(i, Stored(Taken(row), item[Head(row.wait)]), Told(TRUE))
         /\ cur' = cur /\ UNCHANGED idle
      \/ /\ Found(h) /\ row.size > 0 /\ row.wait = <<>>
         /\ row.shut /\ row.size = 1 /\ ChanFree(i, Taken(row))
         /\ cur' = cur /\ UNCHANGED <<item, runs>>
      \/ /\ Found(h) /\ row.size > 0 /\ row.wait = <<>>
         /\ ~(row.shut /\ row.size = 1) /\ rows' = [rows EXCEPT ![i] = Taken(row)]
         /\ cur' = cur /\ UNCHANGED <<idle, item, runs>>
      \/ /\ Found(h) /\ SenderWaits(row) /\ ChanWake(i, row, Told(TRUE))
         /\ cur' = cur /\ UNCHANGED idle
      \/ /\ Found(h) /\ row.size = 0 /\ ~SenderWaits(row) /\ ~row.shut
         /\ ChanPark(cur, i, Hole) /\ cur' = Idle /\ UNCHANGED <<idle, runs>>
  BY DEF ChanRecv, Answer, IO_PARK
<1>3. ASSUME Found(h)
      PROVE  /\ i \in 1..Len(rows) /\ row.live
             /\ RowOk(row, item) /\ RowShape(row)
  BY <1>3, FoundRow, RowAt
<1>4. ASSUME cur' = cur, UNCHANGED <<rows, idle, item, runs>> PROVE ChanKept
  BY <1>1, <1>4, NothingMoves
<1>5. ASSUME Found(h), row.size > 0, row.wait # <<>>,
             ChanWake(i, Stored(Taken(row), item[Head(row.wait)]), Told(TRUE)),
             cur' = cur, UNCHANGED idle
      PROVE  ChanKept
  <2> DEFINE taken == Taken(row)
             x == item[Head(row.wait)]
             full == Stored(taken, x)
             next == [full EXCEPT !.wait = Tail(@)]
  <2>1. i \in 1..Len(rows) /\ row.live /\ RowOk(row, item) /\ RowShape(row)
    BY <1>3, <1>5
  <2>2. Becomes(row, taken, row.size - 1, row.live, row.shut, row.wait)
    BY <2>1, StoreAndTake
  <2> HIDE DEF x, taken
  <2>3. RowShape(taken) /\ taken.room = row.room /\ taken.size = row.size - 1
        /\ taken.live = row.live /\ taken.shut = row.shut /\ taken.wait = row.wait
    BY <2>1, <2>2 DEF Becomes, RowShape
  <2>4. Becomes(taken, full, taken.size + 1, taken.live, taken.shut, taken.wait)
    BY <2>3, StoreAndTake
  <2> HIDE DEF full
  <2>5. RowShape(full)
    BY <2>3, <2>4 DEF Becomes, RowShape
  <2>6. full.room = row.room /\ full.size = taken.size + 1 /\ full.live = row.live
        /\ full.shut = row.shut /\ full.wait = row.wait
    BY <2>3, <2>4 DEF Becomes
  <2>7. row.size \in Nat
    BY <2>1 DEF RowOk
  <2>8. full.size = row.size
    BY <2>3, <2>6, <2>7
  <2>9. Becomes(full, next, full.size, full.live, full.shut, Tail(full.wait))
    BY <2>5, RowEdits
  <2>10. /\ rows' = Replaced(rows, i, next)
         /\ item' = [item EXCEPT ![Head(full.wait)] = Told(TRUE)]
         /\ runs' = Append(runs, Head(full.wait))
    BY <1>5 DEF ChanWake, Replaced, full, taken, x
  <2>11. Becomes(row, next, row.size, row.live, row.shut, Tail(row.wait))
    <3> HIDE DEF next
    <3> QED
      BY <2>6, <2>8, <2>9 DEF Becomes
  <2>12. /\ item' = [item EXCEPT ![Head(row.wait)] = Told(TRUE)]
         /\ runs' = Append(runs, Head(row.wait))
    BY <2>6, <2>10
  <2> HIDE DEF next
  <2> QED
    BY <1>1, <1>5, <2>1, <2>10, <2>11, <2>12, WakeMoves
<1>6. ASSUME Found(h), row.size > 0, row.wait = <<>>, row.shut, row.size = 1,
             ChanFree(i, Taken(row)), cur' = cur, UNCHANGED <<item, runs>>
      PROVE  ChanKept
  <2> DEFINE taken == Taken(row)
             next == [taken EXCEPT !.live = FALSE]
  <2>1. i \in 1..Len(rows) /\ row.live /\ RowOk(row, item) /\ RowShape(row)
    BY <1>3, <1>6
  <2>2. Becomes(row, taken, row.size - 1, row.live, row.shut, row.wait)
    BY <2>1, StoreAndTake
  <2> HIDE DEF taken
  <2>3. RowShape(taken) /\ taken.room = row.room /\ taken.size = row.size - 1
        /\ taken.live = row.live /\ taken.shut = row.shut /\ taken.wait = row.wait
    BY <2>1, <2>2 DEF Becomes, RowShape
  <2>4. Becomes(taken, next, taken.size, FALSE, taken.shut, taken.wait)
    BY <2>3, RowEdits
  <2>5. rows' = Replaced(rows, i, next) /\ idle' = <<i>> \o idle
    BY <1>6 DEF ChanFree, Replaced, taken
  <2> HIDE DEF next
  <2>6. taken.size = 0 /\ 0 \in 0..row.room
    BY <1>6, <2>1, <2>3 DEF RowOk
  <2>7. Becomes(row, next, 0, FALSE, row.shut, <<>>)
    BY <1>6, <2>3, <2>4, <2>6 DEF Becomes
  <2>8. FALSE \in BOOLEAN /\ row.shut \in BOOLEAN
    BY <2>1 DEF RowOk
  <2>9. RowOk(next, item)
    BY <2>1, <2>6, <2>7, <2>8, QuietOk
  <2>10. next.wait = row.wait /\ ~next.live
    BY <1>6, <2>7 DEF Becomes
  <2> QED
    BY <1>1, <1>6, <2>1, <2>5, <2>9, <2>10, RowMoves
<1>7. ASSUME Found(h), row.size > 0, row.wait = <<>>, ~(row.shut /\ row.size = 1),
             rows' = [rows EXCEPT ![i] = Taken(row)], cur' = cur, UNCHANGED <<idle, item, runs>>
      PROVE  ChanKept
  <2> DEFINE next == Taken(row)
  <2>1. i \in 1..Len(rows) /\ row.live /\ RowOk(row, item) /\ RowShape(row)
    BY <1>3, <1>7
  <2>2. Becomes(row, next, row.size - 1, row.live, row.shut, row.wait)
    BY <2>1, StoreAndTake
  <2>3. rows' = Replaced(rows, i, next)
    BY <1>7 DEF Replaced
  <2> HIDE DEF next
  <2>4. Becomes(row, next, row.size - 1, row.live, row.shut, <<>>)
    BY <1>7, <2>2
  <2>5. /\ row.live \in BOOLEAN /\ row.shut \in BOOLEAN
        /\ row.size - 1 \in 0..row.room /\ (row.shut => row.size - 1 > 0)
    BY <1>7, <2>1 DEF RowOk
  <2>6. RowOk(next, item)
    BY <2>1, <2>4, <2>5, QuietOk
  <2>7. next.wait = row.wait /\ next.live = row.live
    BY <2>2 DEF Becomes
  <2> QED
    BY <1>1, <1>7, <2>1, <2>3, <2>6, <2>7, RowMoves
<1>8. ASSUME Found(h), SenderWaits(row), ChanWake(i, row, Told(TRUE)), cur' = cur, UNCHANGED idle
      PROVE  ChanKept
  <2>1. i \in 1..Len(rows) /\ RowShape(row)
    BY <1>3, <1>8
  <2>2. row.wait # <<>>
    BY <1>8 DEF SenderWaits
  <2> DEFINE next == [row EXCEPT !.wait = Tail(@)]
  <2>3. Becomes(row, next, row.size, row.live, row.shut, Tail(row.wait))
    BY <2>1, RowEdits
  <2>4. /\ rows' = Replaced(rows, i, next)
        /\ item' = [item EXCEPT ![Head(row.wait)] = Told(TRUE)]
        /\ runs' = Append(runs, Head(row.wait))
    BY <1>8 DEF ChanWake, Replaced
  <2> HIDE DEF next
  <2> QED
    BY <1>1, <1>8, <2>1, <2>2, <2>3, <2>4, WakeMoves
<1>9. ASSUME Found(h), row.size = 0, ~SenderWaits(row), ~row.shut,
             ChanPark(cur, i, Hole), cur' = Idle, UNCHANGED <<idle, runs>>
      PROVE  ChanKept
  <2>1. i \in 1..Len(rows) /\ row.live /\ RowShape(row)
    BY <1>3, <1>9
  <2> DEFINE next == [row EXCEPT !.wait = Append(@, cur)]
  <2>2. Becomes(row, next, row.size, row.live, row.shut, Append(row.wait, cur))
    BY <2>1, RowEdits
  <2>3. rows' = Replaced(rows, i, next) /\ item' = [item EXCEPT ![cur] = Hole]
    BY <1>9 DEF ChanPark, Replaced
  <2>4. row.wait # <<>> => item[Head(row.wait)] = Hole
    BY <1>9 DEF SenderWaits
  <2> HIDE DEF next
  <2> QED
    BY <1>1, <1>9, <2>1, <2>2, <2>3, <2>4, ParkMoves
<1> QED
  BY <1>2, <1>4, <1>5, <1>6, <1>7, <1>8, <1>9

\* comp.ts, chan_shut.
LEMMA CloseKept ==
  ASSUME NInv, NEW h \in handles, ChanClose(cur, h)
  PROVE  ChanKept
<1> DEFINE i == h[2]
           row == rows[i]
<1>1. handles' = handles /\ cur' = cur
  BY DEF ChanClose, Answer
<1>2. \/ Found(h) /\ ~row.shut /\ ChanShut(i)
      \/ UNCHANGED <<rows, idle, item, runs>>
  BY DEF ChanClose
<1>3. ASSUME UNCHANGED <<rows, idle, item, runs>> PROVE ChanKept
  BY <1>1, <1>3, NothingMoves
<1>4. ASSUME Found(h), ~row.shut, ChanShut(i) PROVE ChanKept
  <2> DEFINE shut == [row EXCEPT !.shut = TRUE, !.wait = <<>>]
             dead == [shut EXCEPT !.live = FALSE]
             waiting == ToSet(row.wait)
  <2>1. i \in 1..Len(rows) /\ row.live /\ RowOk(row, item) /\ RowShape(row)
    BY <1>4, FoundRow, RowAt
  <2>2. Becomes(row, shut, row.size, row.live, TRUE, <<>>)
    BY <2>1, RowEdits
  <2>3. /\ runs' = runs \o row.wait
        /\ item' = [f \in DOMAIN item |->
                      IF f \notin waiting THEN item[f]
                      ELSE IF item[f] = Hole THEN None ELSE Told(FALSE)]
        /\ \/ shut.size = 0 /\ rows' = [rows EXCEPT ![i] = dead] /\ idle' = <<i>> \o idle
           \/ shut.size # 0 /\ rows' = [rows EXCEPT ![i] = shut] /\ idle' = idle
    BY <1>4 DEF ChanShut, ChanFree, Frees
  <2>4. \/ shut.size = 0 /\ rows' = Replaced(rows, i, dead) /\ idle' = Joined(<<i>>, idle)
        \/ shut.size # 0 /\ rows' = Replaced(rows, i, shut) /\ idle' = idle
    BY <2>3 DEF Replaced, Joined
  <2>5. DOMAIN item = 1..Len(item) /\ IsSeq(item) /\ Len(item) \in Nat
    BY BornIds DEF NInv, Shaped
  <2>6. /\ IsSeq(item') /\ Len(item') = Len(item)
        /\ \A g \in 1..Len(item) : g \notin waiting => item'[g] = item[g]
    <3> DEFINE it == item'
               m == Len(item)
    <3>1. it = [f \in 1..m |-> IF f \notin waiting THEN item[f]
                               ELSE IF item[f] = Hole THEN None ELSE Told(FALSE)]
      BY <2>3, <2>5
    <3>2. m \in Nat
      BY <2>5
    <3> HIDE DEF it, m, waiting
    <3>3. it = [f \in 1..m |-> it[f]]
      BY <3>1
    <3>4. IsSeq(it) /\ Len(it) = m
      BY <3>2, <3>3, ListIsSeq
    <3>5. \A g \in 1..m : g \notin waiting => it[g] = item[g]
      BY <3>1
    <3> QED
      BY <3>4, <3>5 DEF it, m
  <2> HIDE DEF shut
  <2>7. /\ RowShape(shut) /\ shut.room = row.room /\ shut.size = row.size
        /\ shut.live = row.live /\ shut.wait = <<>>
    <3>1. IsSeq(<<>>) /\ IsInjective(<<>>)
      BY EmptyIsSeq DEF IsInjective
    <3> QED
      BY <2>2, <3>1 DEF Becomes, RowShape
  <2>8. Becomes(shut, dead, shut.size, FALSE, shut.shut, shut.wait)
    BY <2>7, RowEdits
  <2> HIDE DEF dead
  <2>9. Becomes(row, dead, row.size, FALSE, TRUE, <<>>)
    BY <2>2, <2>7, <2>8 DEF Becomes
  <2>10. /\ row.live \in BOOLEAN /\ TRUE \in BOOLEAN /\ FALSE \in BOOLEAN
         /\ row.size \in 0..row.room
    BY <2>1 DEF RowOk
  <2>11. runs' = Joined(runs, row.wait)
    BY <2>3 DEF Joined
  <2>12. CASE shut.size = 0
    <3>1. RowOk(dead, item)
      BY <2>1, <2>7, <2>9, <2>10, <2>12, QuietOk
    <3>2. dead.wait = <<>> /\ ~dead.live
      BY <2>9 DEF Becomes
    <3>3. rows' = Replaced(rows, i, dead) /\ idle' = Joined(<<i>>, idle)
      BY <2>4, <2>12
    <3> HIDE DEF waiting
    <3>4. \A g \in 1..Len(item) : g \notin ToSet(rows[i].wait) => item'[g] = item[g]
      BY <2>6 DEF waiting
    <3> QED
      BY <1>1, <2>1, <2>6, <2>11, <3>1, <3>2, <3>3, <3>4, ShutMoves
  <2>13. CASE shut.size # 0
    <3>1. row.size > 0
      BY <2>7, <2>10, <2>13
    <3>2. RowOk(shut, item)
      BY <2>1, <2>2, <2>10, <3>1, QuietOk
    <3>3. rows' = Replaced(rows, i, shut) /\ idle' = idle
      BY <2>4, <2>13
    <3>4. \A g \in 1..Len(item) : g \notin ToSet(rows[i].wait) => item'[g] = item[g]
      BY <2>6
    <3> QED
      BY <1>1, <2>1, <2>6, <2>7, <2>11, <3>2, <3>3, <3>4, ShutMoves
  <2> QED
    BY <2>12, <2>13
<1> QED
  BY <1>2, <1>3, <1>4

----------------------------------------------------------------------------
(* The helpers.                                                            *)

\* One more entry of a computation that is in the loop, and it leaves the loop.
LEMMA InLoop ==
  ASSUME NInv, cur # Idle
  PROVE  /\ cur \notin Nobody /\ cur \in Born /\ cur \in 1..Len(left)
         /\ \A f : In(cur, f) = IF f = cur THEN 1 ELSE 0
         /\ \A f : In(Idle, f) = 0
<1>1. cur \notin Nobody
  BY DEF NInv, Shaped, Nobody, Idle, Awake, Asleep
<1>2. \A f : In(cur, f) = IF f = cur THEN 1 ELSE 0
  BY <1>1 DEF In
<1>3. \A f : In(Idle, f) = 0
  BY DEF In, Nobody, Idle, Awake
<1>4. /\ Count(runs, cur) \in Nat /\ ParkCount(park, cur) \in Nat /\ Count(jobs, cur) \in Nat
      /\ Hand(helpers, cur) \in Nat /\ Count(pipe, cur) \in Nat /\ RowCount(rows, cur) \in Nat
      /\ Now(cur) = Count(runs, cur) + ParkCount(park, cur) + Count(jobs, cur)
                    + Hand(helpers, cur) + Count(pipe, cur) + RowCount(rows, cur) + In(cur, cur)
      /\ cur \notin Born => Now(cur) = 0
  BY Counted
<1>5. In(cur, cur) = 1
  BY <1>2
<1>6. cur \in Born
  BY <1>4, <1>5
<1> QED
  BY <1>1, <1>2, <1>3, <1>6, BornIds

\* Who answered for an effect may ask one less.
LEMMA OneEffectLess ==
  ASSUME NInv, cur # Idle, left' = [left EXCEPT ![cur] = @ - 1]
  PROVE  IsSeq(left') /\ Len(left') = Len(left) /\ Born' = Born
<1> DEFINE l == left'
<1>1. l = Replaced(left, cur, left[cur] - 1)
  BY DEF Replaced
<1>2. IsSeq(left) /\ cur \in 1..Len(left)
  BY InLoop DEF NInv, Shaped
<1> HIDE DEF l
<1>3. IsSeq(l) /\ Len(l) = Len(left)
  BY <1>1, <1>2, ReplaceSeq
<1>4. DOMAIN l = DOMAIN left
  BY <1>2, <1>3, SeqFacts
<1> QED
  BY <1>3, <1>4 DEF Born, l

\* A step in which everybody stays as often where he is, in all.
LEMMA Kept ==
  ASSUME NInv, Shaped', RowsOk(rows', item'), IdleOk(rows', idle'), Away',
         Born' = Born, live' = live,
         \A f : Everywhere(runs', park', jobs', helpers', pipe', rows', cur', f) = Now(f)
  PROVE  NInv'
<1>1. \A f : Now(f)' = Now(f)
  BY Primed
<1>2. Once' /\ Alive'
  BY <1>1, NobodyMoved
<1> QED
  BY <1>2 DEF NInv

\* A thread that was nobody's and is nobody's now.
LEMMA ThreadTurns ==
  ASSUME NEW h, IsSeq(h), NEW t \in 1..Len(h), h[t] \in Nobody, NEW x \in Nobody,
         NEW u, u = Replaced(h, t, x)
  PROVE  /\ IsSeq(u) /\ Len(u) = Len(h) /\ Hands(u) = Hands(h)
         /\ \A f : Hand(u, f) = Hand(h, f)
<1>1. /\ IsSeq(u) /\ Len(u) = Len(h) /\ u[t] = x
      /\ \A i \in 1..Len(h) : i # t => u[i] = h[i]
      /\ DOMAIN u = 1..Len(h) /\ DOMAIN h = 1..Len(h)
  BY ReplaceSeq, SeqFacts
<1>2. Hands(u) = Hands(h)
  BY <1>1 DEF Hands
<1>3. ASSUME NEW f, f \notin Nobody PROVE Count(u, f) = Count(h, f)
  <2>1. Count(u, f) + (IF h[t] = f THEN 1 ELSE 0) = Count(h, f) + (IF x = f THEN 1 ELSE 0)
    BY CountReplace
  <2>2. h[t] # f /\ x # f
    BY <1>3
  <2>3. Count(u, f) \in Nat /\ Count(h, f) \in Nat
    BY <1>1, CountIsNat
  <2> QED
    BY <2>1, <2>2, <2>3
<1> QED
  BY <1>1, <1>2, <1>3 DEF Hand

\* comp.ts, io_work.  A new thread, and one that the bell wakes.
LEMMA ThreadAdded ==
  ASSUME NEW h, IsSeq(h)
  PROVE  LET u == Append(h, Awake)
         IN  /\ IsSeq(u) /\ Len(u) = Len(h) + 1 /\ Hands(u) = Hands(h)
             /\ \A f : Hand(u, f) = Hand(h, f)
<1> DEFINE u == Append(h, Awake)
<1>1. /\ IsSeq(u) /\ Len(u) = Len(h) + 1 /\ u[Len(h) + 1] = Awake
      /\ \A i \in 1..Len(h) : u[i] = h[i]
      /\ DOMAIN u = 1..(Len(h) + 1) /\ DOMAIN h = 1..Len(h) /\ Len(h) \in Nat
  BY AppendSeq, SeqFacts
<1>2. \A f : Count(u, f) = Count(h, f) + (IF Awake = f THEN 1 ELSE 0)
  BY CountAppend
<1> HIDE DEF u
<1>3. Hands(u) = Hands(h)
  <2>1. 1..(Len(h) + 1) = (1..Len(h)) \cup {Len(h) + 1}
    BY <1>1
  <2> QED
    BY <1>1, <2>1 DEF Hands, Nobody
<1>4. \A f : Hand(u, f) = Hand(h, f)
  <2> SUFFICES ASSUME NEW f PROVE Hand(u, f) = Hand(h, f)
    OBVIOUS
  <2>1. CASE f \in Nobody
    BY <2>1 DEF Hand
  <2>2. CASE f \notin Nobody
    <3>1. Awake # f
      BY <2>2 DEF Nobody
    <3>2. Count(h, f) \in Nat
      BY CountIsNat
    <3>3. Count(u, f) = Count(h, f)
      BY <1>2, <3>1, <3>2
    <3> QED
      BY <3>3 DEF Hand
  <2> QED
    BY <2>1, <2>2
<1> QED
  BY <1>1, <1>3, <1>4 DEF u

\* comp.ts, pthread_cond_signal: the bell moves nobody.
LEMMA RungThreads ==
  ASSUME NEW h, IsSeq(h), NEW u \in Rung(h)
  PROVE  /\ IsSeq(u) /\ Len(u) = Len(h) /\ Hands(u) = Hands(h)
         /\ \A f : Hand(u, f) = Hand(h, f)
<1>1. u = h \/ \E t \in DOMAIN h : h[t] = Asleep /\ u = [h EXCEPT ![t] = Awake]
  BY DEF Rung
<1>2. CASE u = h
  BY <1>2
<1>3. CASE \E t \in DOMAIN h : h[t] = Asleep /\ u = [h EXCEPT ![t] = Awake]
  <2>1. PICK t \in DOMAIN h : h[t] = Asleep /\ u = [h EXCEPT ![t] = Awake]
    BY <1>3
  <2>2. t \in 1..Len(h) /\ h[t] \in Nobody /\ Awake \in Nobody /\ u = Replaced(h, t, Awake)
    BY <2>1, SeqFacts DEF Nobody, Replaced
  <2> QED
    BY <2>2, ThreadTurns
<1> QED
  BY <1>1, <1>2, <1>3

\* Rows and items that did not change.
LEMMA SameRows ==
  ASSUME NInv, UNCHANGED <<rows, item, idle, handles>>
  PROVE  /\ RowsOk(rows', item') /\ IdleOk(rows', idle')
         /\ IsSeq(item') /\ Len(item') = Len(left)
         /\ \A h \in handles' : h[2] \in 1..Len(rows')
  BY DEF NInv, Shaped

\* comp.ts, io_work.
LEMMA FileKept ==
  ASSUME NInv, cur # Idle, FileCall(cur), left' = [left EXCEPT ![cur] = @ - 1]
  PROVE  NInv'
<1> DEFINE h == IF busy' > Len(helpers) /\ Len(helpers) < IO_HELP
                THEN Append(helpers, Awake) ELSE helpers
<1>1. /\ jobs' = Append(jobs, cur) /\ helpers' \in Rung(h) /\ busy' = busy + 1 /\ cur' = Idle
      /\ UNCHANGED <<runs, park, pipe, item, rows, idle, handles, live>>
  BY DEF FileCall, IO_PARK, table
<1>2. /\ IsSeq(jobs) /\ IsSeq(helpers) /\ IsSeq(pipe) /\ IsSeq(runs) /\ IsSeq(park)
      /\ busy = Len(jobs) + Cardinality(Hands(helpers)) + Len(pipe) /\ Len(helpers) <= IO_HELP
  BY DEF NInv, Shaped, Away
<1>3. Len(helpers) \in Nat /\ Len(jobs) \in Nat /\ Len(pipe) \in Nat /\ IO_HELP \in Nat
  BY <1>2, SeqFacts, NativeIoAssumption
<1>4. Cardinality(Hands(helpers)) \in Nat
  BY <1>2, Positions DEF Hands
<1>5. /\ IsSeq(h) /\ Len(h) <= IO_HELP /\ Hands(h) = Hands(helpers)
      /\ \A f : Hand(h, f) = Hand(helpers, f)
  <2>1. LET u == Append(helpers, Awake)
         IN  /\ IsSeq(u) /\ Len(u) = Len(helpers) + 1 /\ Hands(u) = Hands(helpers)
             /\ \A f : Hand(u, f) = Hand(helpers, f)
    BY <1>2, ThreadAdded
  <2>2. CASE busy' > Len(helpers) /\ Len(helpers) < IO_HELP
    BY <1>3, <2>1, <2>2
  <2>3. CASE ~(busy' > Len(helpers) /\ Len(helpers) < IO_HELP)
    BY <1>2, <2>3
  <2> QED
    BY <2>2, <2>3
<1> HIDE DEF h
<1>6. /\ IsSeq(helpers') /\ Len(helpers') <= IO_HELP /\ Hands(helpers') = Hands(helpers)
      /\ \A f : Hand(helpers', f) = Hand(helpers, f)
  <2>1. /\ IsSeq(helpers') /\ Len(helpers') = Len(h) /\ Hands(helpers') = Hands(h)
        /\ \A f : Hand(helpers', f) = Hand(h, f)
    BY <1>1, <1>5, RungThreads
  <2> QED
    BY <1>5, <2>1
<1>7. IsSeq(jobs') /\ Len(jobs') = Len(jobs) + 1
      /\ \A f : Count(jobs', f) = Count(jobs, f) + (IF cur = f THEN 1 ELSE 0)
  BY <1>1, <1>2, AppendSeq, CountAppend
<1>8. Away'
  <2>1. busy' = Len(jobs') + Cardinality(Hands(helpers')) + Len(pipe')
    BY <1>1, <1>2, <1>3, <1>4, <1>6, <1>7
  <2> QED
    BY <1>6, <2>1 DEF Away, Hands, Nobody
<1>9. IsSeq(left') /\ Len(left') = Len(left) /\ Born' = Born
  BY OneEffectLess
<1>10. /\ RowsOk(rows', item') /\ IdleOk(rows', idle')
       /\ IsSeq(item') /\ Len(item') = Len(left)
       /\ \A g \in handles' : g[2] \in 1..Len(rows')
  BY <1>1, SameRows
<1>11. cur' # Asleep
  BY <1>1 DEF Idle, Asleep
<1>12. Shaped'
  BY <1>1, <1>2, <1>6, <1>7, <1>9, <1>10, <1>11 DEF Shaped
<1>13. ASSUME NEW f
       PROVE  Everywhere(runs', park', jobs', helpers', pipe', rows', cur', f) = Now(f)
  <2>1. /\ Count(runs, f) \in Nat /\ ParkCount(park, f) \in Nat /\ Count(jobs, f) \in Nat
        /\ Hand(helpers, f) \in Nat /\ Count(pipe, f) \in Nat /\ RowCount(rows, f) \in Nat
        /\ Now(f) = Count(runs, f) + ParkCount(park, f) + Count(jobs, f) + Hand(helpers, f)
                    + Count(pipe, f) + RowCount(rows, f) + In(cur, f)
    BY Counted
  <2>2. In(cur, f) = (IF f = cur THEN 1 ELSE 0) /\ In(cur', f) = 0
    BY <1>1, InLoop
  <2>3. Everywhere(runs', park', jobs', helpers', pipe', rows', cur', f)
          = Count(runs, f) + ParkCount(park, f) + Count(jobs', f) + Hand(helpers', f)
            + Count(pipe, f) + RowCount(rows, f) + In(cur', f)
    BY <1>1 DEF Everywhere
  <2>4. Count(jobs', f) = Count(jobs, f) + In(cur, f) /\ Hand(helpers', f) = Hand(helpers, f)
    BY <1>6, <1>7, <2>2
  <2> QED
    BY <2>1, <2>2, <2>3, <2>4
<1> QED
  BY <1>1, <1>8, <1>9, <1>10, <1>12, <1>13, Kept

\* An effect on channels: who is nowhere but in the loop or in a row moves.
LEMMA ChannelKept ==
  ASSUME NInv, cur # Idle, ChanEffect(cur), left' = [left EXCEPT ![cur] = @ - 1]
  PROVE  NInv'
<1>1. UNCHANGED <<park, jobs, busy, helpers, pipe, live>>
  BY DEF ChanEffect
<1>2. ChanKept
  <2>1. \/ ChanNew(cur)
        \/ \E h \in handles : ChanSend(cur, h)
        \/ \E h \in handles : ChanRecv(cur, h)
        \/ \E h \in handles : ChanClose(cur, h)
    BY DEF ChanEffect
  <2> QED
    BY <2>1, NewKept, SendKept, RecvKept, CloseKept
<1>3. IsSeq(left') /\ Len(left') = Len(left) /\ Born' = Born
  BY OneEffectLess
<1>4. Shaped'
  BY <1>1, <1>2, <1>3 DEF ChanKept, NInv, Shaped
<1>5. Away'
  BY <1>1 DEF NInv, Away, Hands
<1>6. ASSUME NEW f
      PROVE  Everywhere(runs', park', jobs', helpers', pipe', rows', cur', f) = Now(f)
  <2>1. /\ Count(runs, f) \in Nat /\ ParkCount(park, f) \in Nat /\ Count(jobs, f) \in Nat
        /\ Hand(helpers, f) \in Nat /\ Count(pipe, f) \in Nat /\ RowCount(rows, f) \in Nat
        /\ In(cur, f) \in {0, 1}
        /\ Now(f) = Count(runs, f) + ParkCount(park, f) + Count(jobs, f) + Hand(helpers, f)
                    + Count(pipe, f) + RowCount(rows, f) + In(cur, f)
    BY Counted
  <2>2. Count(runs', f) \in Nat /\ RowCount(rows', f) \in Nat /\ In(cur', f) \in Nat
    BY <1>2, CountIsNat DEF ChanKept, RowsOk, In
  <2>3. Count(runs', f) + RowCount(rows', f) + In(cur', f)
          = Count(runs, f) + RowCount(rows, f) + In(cur, f)
    BY <1>2 DEF ChanKept
  <2>4. Everywhere(runs', park', jobs', helpers', pipe', rows', cur', f)
          = Count(runs', f) + ParkCount(park, f) + Count(jobs, f) + Hand(helpers, f)
            + Count(pipe, f) + RowCount(rows', f) + In(cur', f)
    BY <1>1 DEF Everywhere
  <2> QED
    BY <2>1, <2>2, <2>3, <2>4
<1>7. RowsOk(rows', item') /\ IdleOk(rows', idle')
  BY <1>2 DEF ChanKept
<1> QED
  BY <1>1, <1>3, <1>4, <1>5, <1>6, <1>7, Kept

\* comp.ts, io_wait_on: to park for an instant or a descriptor.
LEMMA ParkedKept ==
  ASSUME NInv, cur # Idle, NEW time, park' = Append(park, Parked(cur, time)), cur' = Idle,
         UNCHANGED <<runs, jobs, busy, helpers, pipe, item, rows, idle, handles, live>>,
         left' = [left EXCEPT ![cur] = @ - 1]
  PROVE  NInv'
<1> DEFINE x == Parked(cur, time)
<1>1. x.fiber = cur
  BY DEF Parked
<1>2. IsSeq(park)
  BY DEF NInv, Shaped
<1>3. park' = Append(park, x)
  OBVIOUS
<1> HIDE DEF x
<1>4. IsSeq(park')
  BY <1>2, <1>3, AppendSeq
<1>5. \A f : ParkCount(park', f) = ParkCount(park, f) + (IF cur = f THEN 1 ELSE 0)
  BY <1>1, <1>2, <1>3, CountAppend
<1>6. IsSeq(left') /\ Len(left') = Len(left) /\ Born' = Born
  BY OneEffectLess
<1>7. /\ RowsOk(rows', item') /\ IdleOk(rows', idle')
      /\ IsSeq(item') /\ Len(item') = Len(left)
      /\ \A h \in handles' : h[2] \in 1..Len(rows')
  BY SameRows
<1>8. cur' # Asleep
  BY DEF Idle, Asleep
<1>9. Shaped'
  BY <1>4, <1>6, <1>7, <1>8 DEF NInv, Shaped
<1>10. Away'
  BY DEF NInv, Away, Hands
<1>11. ASSUME NEW f
       PROVE  Everywhere(runs', park', jobs', helpers', pipe', rows', cur', f) = Now(f)
  <2>1. /\ Count(runs, f) \in Nat /\ ParkCount(park, f) \in Nat /\ Count(jobs, f) \in Nat
        /\ Hand(helpers, f) \in Nat /\ Count(pipe, f) \in Nat /\ RowCount(rows, f) \in Nat
        /\ Now(f) = Count(runs, f) + ParkCount(park, f) + Count(jobs, f) + Hand(helpers, f)
                    + Count(pipe, f) + RowCount(rows, f) + In(cur, f)
    BY Counted
  <2>2. In(cur, f) = (IF f = cur THEN 1 ELSE 0) /\ In(cur', f) = 0
    BY InLoop
  <2>3. Everywhere(runs', park', jobs', helpers', pipe', rows', cur', f)
          = Count(runs, f) + ParkCount(park', f) + Count(jobs, f) + Hand(helpers, f)
            + Count(pipe, f) + RowCount(rows, f) + In(cur', f)
    BY DEF Everywhere
  <2> QED
    BY SMTT(30), <1>5, <2>1, <2>2, <2>3
<1> QED
  BY <1>6, <1>7, <1>9, <1>10, <1>11, Kept

\* Nobody's place changes when only what he may still ask does.
LEMMA AnsweredKept ==
  ASSUME NInv, cur # Idle, left' = [left EXCEPT ![cur] = @ - 1],
         UNCHANGED <<runs, park, jobs, busy, helpers, pipe, rows, idle, handles, item, live, cur>>
  PROVE  NInv'
<1>1. UNCHANGED <<runs, park, jobs, busy, helpers, pipe, rows, idle, handles, item, live, cur>>
  OBVIOUS
<1>2. IsSeq(left') /\ Len(left') = Len(left) /\ Born' = Born
  BY OneEffectLess
<1>3. RowsOk(rows', item') /\ IdleOk(rows', idle')
  BY <1>1 DEF NInv
<1>4. Shaped'
  BY <1>1, <1>2 DEF NInv, Shaped
<1>5. Away'
  BY <1>1 DEF NInv, Away, Hands
<1>6. \A f : Everywhere(runs', park', jobs', helpers', pipe', rows', cur', f) = Now(f)
  BY <1>1 DEF Now
<1> QED
  BY <1>1, <1>2, <1>3, <1>4, <1>5, <1>6, Kept

\* An effect that starts a computation: one place more for one born.
LEMMA SpawnKept ==
  ASSUME NInv, cur # Idle, Spawn(cur)
  PROVE  NInv'
<1> DEFINE k == Len(left) + 1
           l == Replaced(left, cur, left[cur] - 1)
<1>1. /\ runs' = Append(runs, k) /\ item' = Append(item, Unit) /\ live' = live + 1
      /\ left' = Append(l, Asks) /\ cur' = cur
      /\ UNCHANGED <<park, jobs, busy, helpers, pipe, rows, idle, handles>>
  BY DEF Spawn, table, Replaced
<1>2. /\ Born = 1..Len(left) /\ Born = 1..Len(item) /\ Len(left) \in Nat
      /\ IsFiniteSet(Born) /\ \A f \in Nobody : f \notin Born
  BY BornIds
<1>3. /\ IsSeq(runs) /\ IsSeq(left) /\ IsSeq(item) /\ Len(item) = Len(left)
  BY DEF NInv, Shaped
<1>4. IsSeq(l) /\ Len(l) = Len(left)
  BY <1>3, InLoop, ReplaceSeq
<1> HIDE DEF l
<1>5. IsSeq(left') /\ Len(left') = k /\ DOMAIN left' = 1..k
  BY <1>1, <1>4, AppendSeq, SeqFacts
<1>6. k \notin Born /\ Born' = Born \cup {k}
  <2>1. 1..k = (1..Len(left)) \cup {k} /\ k \notin 1..Len(left)
    BY <1>2
  <2> QED
    BY <1>2, <1>5, <2>1 DEF Born
<1>7. /\ IsSeq(item') /\ Len(item') = k
      /\ \A f \in Born : item'[f] = item[f]
  BY <1>1, <1>2, <1>3, AppendSeq
<1>8. IsSeq(runs') /\ \A f : Count(runs', f) = Count(runs, f) + (IF k = f THEN 1 ELSE 0)
  BY <1>1, <1>3, AppendSeq, CountAppend
<1> HIDE DEF k
<1>9. RowsOk(rows', item') /\ IdleOk(rows', idle')
  <2>1. \A i \in 1..Len(rows) : \A f \in ToSet(rows[i].wait) : item'[f] = item[f]
    BY <1>7, WaiterBorn
  <2>2. RowsOk(rows, item')
    BY <2>1, SameItems DEF NInv
  <2> QED
    BY <1>1, <2>2 DEF NInv
<1>10. Shaped'
  BY <1>1, <1>5, <1>7, <1>8 DEF NInv, Shaped
<1>11. Away'
  BY <1>1 DEF NInv, Away, Hands
<1>12. \A f : Now(f)' = Now(f) + (IF k = f THEN 1 ELSE 0)
  <2> SUFFICES ASSUME NEW f PROVE Now(f)' = Now(f) + (IF k = f THEN 1 ELSE 0)
    OBVIOUS
  <2>1. Now(f)' = Everywhere(runs', park', jobs', helpers', pipe', rows', cur', f)
    BY Primed
  <2>2. /\ Count(runs, f) \in Nat /\ ParkCount(park, f) \in Nat /\ Count(jobs, f) \in Nat
        /\ Hand(helpers, f) \in Nat /\ Count(pipe, f) \in Nat /\ RowCount(rows, f) \in Nat
        /\ In(cur, f) \in {0, 1}
        /\ Now(f) = Count(runs, f) + ParkCount(park, f) + Count(jobs, f) + Hand(helpers, f)
                    + Count(pipe, f) + RowCount(rows, f) + In(cur, f)
    BY Counted
  <2>3. Everywhere(runs', park', jobs', helpers', pipe', rows', cur', f)
          = Count(runs', f) + ParkCount(park, f) + Count(jobs, f) + Hand(helpers, f)
            + Count(pipe, f) + RowCount(rows, f) + In(cur, f)
    BY <1>1 DEF Everywhere
  <2> QED
    BY <1>8, <2>1, <2>2, <2>3
<1>13. Now(k) = 0
  BY <1>6, Counted
<1>14. \A f : Now(f) \in Nat
  BY Counted
<1>15. Once'
  <2>1. \A f : Now(f) <= (IF f \in Born THEN 1 ELSE 0)
    BY DEF NInv, Once
  <2>2. \A f : Now(f)' <= (IF f \in Born' THEN 1 ELSE 0)
    BY <1>6, <1>12, <1>13, <1>14, <2>1
  <2> QED
    BY <2>2 DEF Once
<1>16. Alive'
  <2> DEFINE D == {f \in Born : Now(f) = 1}
             E == {f \in Born' : Now(f)' = 1}
  <2>1. E = D \cup {k}
    <3>1. \A f \in E : f \in D \cup {k}
      BY <1>6, <1>12, <1>14
    <3>2. \A f \in D : f \in E
      BY <1>6, <1>12, <1>14
    <3>3. k \in E
      BY <1>6, <1>12, <1>13
    <3> QED
      BY <3>1, <3>2, <3>3
  <2>2. IsFiniteSet(D) /\ k \notin D
    BY <1>2, <1>6, FS_Subset
  <2> HIDE DEF D, E
  <2>3. Cardinality(E) = Cardinality(D) + 1
    BY <2>1, <2>2, FS_AddElement
  <2>4. live = Cardinality(D)
    BY DEF NInv, Alive, D
  <2> QED
    BY <1>1, <2>3, <2>4 DEF Alive, E
<1> QED
  BY <1>9, <1>10, <1>11, <1>15, <1>16 DEF NInv

\* comp.ts, CID_EMIT: a computation that is over is nowhere.
LEMMA EmitKept ==
  ASSUME NInv, Emit
  PROVE  NInv'
<1>1. /\ cur # Idle /\ live' = live - 1 /\ cur' = Idle
      /\ UNCHANGED <<runs, park, jobs, busy, helpers, pipe, rows, idle, handles, item, left>>
  BY DEF Emit, IO_PARK, queues, table
<1>2. Born' = Born
  BY <1>1 DEF Born
<1>3. /\ IsFiniteSet(Born) /\ cur \in Born
      /\ \A f : In(cur, f) = (IF f = cur THEN 1 ELSE 0) /\ In(cur', f) = 0
  BY <1>1, BornIds, InLoop
<1>4. Shaped' /\ RowsOk(rows', item') /\ IdleOk(rows', idle')
  BY <1>1 DEF NInv, Shaped, Idle, Asleep
<1>5. Away'
  BY <1>1 DEF NInv, Away, Hands
<1>6. \A f : Now(f)' = Now(f) - (IF f = cur THEN 1 ELSE 0)
  <2> SUFFICES ASSUME NEW f PROVE Now(f)' = Now(f) - (IF f = cur THEN 1 ELSE 0)
    OBVIOUS
  <2>1. Now(f)' = Everywhere(runs', park', jobs', helpers', pipe', rows', cur', f)
    BY Primed
  <2>2. /\ Count(runs, f) \in Nat /\ ParkCount(park, f) \in Nat /\ Count(jobs, f) \in Nat
        /\ Hand(helpers, f) \in Nat /\ Count(pipe, f) \in Nat /\ RowCount(rows, f) \in Nat
        /\ Now(f) = Count(runs, f) + ParkCount(park, f) + Count(jobs, f) + Hand(helpers, f)
                    + Count(pipe, f) + RowCount(rows, f) + In(cur, f)
    BY Counted
  <2>3. Everywhere(runs', park', jobs', helpers', pipe', rows', cur', f)
          = Count(runs, f) + ParkCount(park, f) + Count(jobs, f) + Hand(helpers, f)
            + Count(pipe, f) + RowCount(rows, f) + In(cur', f)
    BY <1>1 DEF Everywhere
  <2> QED
    BY <1>3, <2>1, <2>2, <2>3
<1>7. Now(cur) = 1
  <2>1. In(cur, cur) = 1
    BY <1>3
  <2> QED
    BY <2>1, Counted
<1>8. \A f : Now(f) \in Nat /\ Now(f) <= (IF f \in Born THEN 1 ELSE 0)
  BY Counted DEF NInv, Once
<1>9. Once'
  <2>1. \A f : Now(f)' <= (IF f \in Born' THEN 1 ELSE 0)
    BY <1>2, <1>6, <1>8
  <2> QED
    BY <2>1 DEF Once
<1>10. Alive'
  <2> DEFINE D == {f \in Born : Now(f) = 1}
             E == {f \in Born' : Now(f)' = 1}
  <2>1. E = D \ {cur}
    BY <1>2, <1>6, <1>7, <1>8
  <2>2. IsFiniteSet(D) /\ cur \in D
    BY <1>3, <1>7, FS_Subset
  <2> HIDE DEF D, E
  <2>3. Cardinality(E) = Cardinality(D) - 1
    BY <2>1, <2>2, FS_RemoveElement
  <2>4. live = Cardinality(D)
    BY DEF NInv, Alive, D
  <2> QED
    BY <1>1, <2>3, <2>4 DEF Alive, E
<1> QED
  BY <1>4, <1>5, <1>9, <1>10 DEF NInv

\* What comes out of a queue of the loop is not waited with in any row.
LEMMA ReadyItems ==
  ASSUME NInv, NEW r,
         \A f \in r : Count(runs, f) + ParkCount(park, f) + Count(pipe, f) >= 1,
         NEW it, it = ItemsAfter(r)
  PROVE  RowsOk(rows, it) /\ IsSeq(it) /\ Len(it) = Len(item)
<1>1. DOMAIN item = 1..Len(item) /\ Len(item) \in Nat
  BY BornIds, SeqFacts DEF NInv, Shaped
<1>2. it = [f \in 1..Len(item) |-> IF f \in r THEN Unit ELSE item[f]]
  BY <1>1 DEF ItemsAfter
<1>3. it = [f \in 1..Len(item) |-> it[f]]
  BY <1>2
<1>4. IsSeq(it) /\ Len(it) = Len(item)
  BY <1>1, <1>3, ListIsSeq
<1>5. ASSUME NEW i \in 1..Len(rows), NEW f \in ToSet(rows[i].wait)
      PROVE  it[f] = item[f]
  <2>1. f \in 1..Len(item)
    BY WaiterBorn, BornIds
  <2>2. CASE f \in r
    <3>1. Now(f) <= 1 /\ In(cur, f) \in {0, 1} /\ Count(runs, f) \in Nat
          /\ ParkCount(park, f) \in Nat /\ Count(pipe, f) \in Nat
      BY Counted
    <3>2. Count(runs, f) + ParkCount(park, f) + Count(pipe, f) + In(cur, f) >= 1
      BY <2>2, <3>1
    <3>3. /\ IsSeq(runs) /\ IsSeq(park) /\ IsSeq(jobs) /\ IsSeq(helpers) /\ IsSeq(pipe)
          /\ IsSeq(rows)
      BY DEF NInv, Shaped, RowsOk
    <3>4. Everywhere(runs, park, jobs, helpers, pipe, rows, cur, f) <= 1
      BY <3>1 DEF Now
    <3>5. \A j \in 1..Len(rows) : f \notin ToSet(rows[j].wait)
      BY <3>2, <3>3, <3>4, WaitsNowhere
    <3> QED
      BY <3>5
  <2>3. CASE f \notin r
    BY <1>2, <2>1, <2>3
  <2> QED
    BY <2>2, <2>3
<1>6. RowsOk(rows, it)
  BY <1>5, SameItems DEF NInv
<1> QED
  BY <1>4, <1>6

----------------------------------------------------------------------------
(* The loop.                                                               *)

\* What comes off the pipe or out of the parked goes on where it is put.
LEMMA ReadiedKept ==
  ASSUME NInv, UNCHANGED <<jobs, helpers, rows, idle, handles, live, left>>,
         IsSeq(runs'), IsSeq(park'), IsSeq(pipe'), cur' # Asleep,
         busy' = busy - (Len(pipe) - Len(pipe')),
         NEW r, item' = ItemsAfter(r),
         \A f \in r : Count(runs, f) + ParkCount(park, f) + Count(pipe, f) >= 1,
         \A f : Count(runs', f) + ParkCount(park', f) + Count(pipe', f) + In(cur', f)
                  = Count(runs, f) + ParkCount(park, f) + Count(pipe, f) + In(cur, f)
  PROVE  NInv'
<1> DEFINE it == item'
<1>1. it = ItemsAfter(r)
  OBVIOUS
<1> HIDE DEF it
<1>2. RowsOk(rows, it) /\ IsSeq(it) /\ Len(it) = Len(item)
  BY <1>1, ReadyItems
<1>3. RowsOk(rows', item') /\ IdleOk(rows', idle')
  BY <1>2 DEF it, NInv
<1>4. Shaped'
  BY <1>2 DEF it, NInv, Shaped
<1>5. Born' = Born
  BY DEF Born
<1>6. Away'
  <2>1. busy = Len(jobs) + Cardinality(Hands(helpers)) + Len(pipe) /\ Len(helpers) <= IO_HELP
    BY DEF NInv, Away
  <2>2. Len(jobs) \in Nat /\ Len(pipe) \in Nat /\ Len(pipe') \in Nat
    BY SeqFacts DEF NInv, Shaped
  <2>3. Cardinality(Hands(helpers)) \in Nat
    BY Positions DEF Hands, NInv, Shaped
  <2>4. busy' = Len(jobs) + Cardinality(Hands(helpers)) + Len(pipe')
    BY <2>1, <2>2, <2>3
  <2> QED
    BY <2>1, <2>4 DEF Away, Hands
<1>7. ASSUME NEW f
      PROVE  Everywhere(runs', park', jobs', helpers', pipe', rows', cur', f) = Now(f)
  <2>1. /\ Count(runs, f) \in Nat /\ ParkCount(park, f) \in Nat /\ Count(jobs, f) \in Nat
        /\ Hand(helpers, f) \in Nat /\ Count(pipe, f) \in Nat /\ RowCount(rows, f) \in Nat
        /\ In(cur, f) \in Nat
        /\ Now(f) = Count(runs, f) + ParkCount(park, f) + Count(jobs, f) + Hand(helpers, f)
                    + Count(pipe, f) + RowCount(rows, f) + In(cur, f)
    BY Counted
  <2>2. Count(runs', f) \in Nat /\ ParkCount(park', f) \in Nat /\ Count(pipe', f) \in Nat
    BY CountIsNat
  <2>3. In(cur', f) \in Nat
    BY DEF In
  <2>4. Count(runs', f) + ParkCount(park', f) + Count(pipe', f) + In(cur', f)
          = Count(runs, f) + ParkCount(park, f) + Count(pipe, f) + In(cur, f)
    OBVIOUS
  <2>5. Everywhere(runs', park', jobs', helpers', pipe', rows', cur', f)
          = Count(runs', f) + ParkCount(park', f) + Count(jobs, f) + Hand(helpers, f)
            + Count(pipe', f) + RowCount(rows, f) + In(cur', f)
    BY DEF Everywhere
  <2> QED
    BY ONLY <2>1, <2>2, <2>3, <2>4, <2>5
<1> QED
  BY <1>3, <1>4, <1>5, <1>6, <1>7, Kept

\* Who is in a sequence is counted there.
LEMMA CountedIn ==
  ASSUME NEW s, IsSeq(s), NEW f \in ToSet(s)
  PROVE  Count(s, f) >= 1
<1>1. \E i \in 1..Len(s) : s[i] = f
  BY SeqFacts DEF ToSet
<1>2. Count(s, f) \in Nat /\ Count(s, f) # 0
  BY <1>1, CountIsNat
<1> QED
  BY <1>2

\* A pipe that is taken, or left as it is.
LEMMA AllOrNothing ==
  ASSUME NEW q, IsSeq(q), NEW t, t = q \/ t = <<>>, NEW u, u = (IF t = <<>> THEN q ELSE <<>>)
  PROVE  /\ IsSeq(t) /\ IsSeq(u) /\ Len(t) = Len(q) - Len(u)
         /\ \A f : Count(t, f) + Count(u, f) = Count(q, f)
<1> DEFINE e == <<>>
<1>1. e = <<>>
  OBVIOUS
<1>2. (t = e /\ u = q) \/ (t = q /\ u = e)
  OBVIOUS
<1> HIDE DEF e
<1>3. IsSeq(e) /\ Len(e) = 0 /\ \A f : Count(e, f) = 0
  BY <1>1, EmptyIsSeq, SeqFacts, CountEmpty
<1>4. Len(q) \in Nat /\ \A f : Count(q, f) \in Nat
  BY SeqFacts, CountIsNat
<1>5. IsSeq(t) /\ IsSeq(u)
  BY <1>2, <1>3
<1>6. Len(t) = Len(q) - Len(u)
  BY <1>2, <1>3, <1>4
<1>7. ASSUME NEW f PROVE Count(t, f) + Count(u, f) = Count(q, f)
  <2>1. Count(e, f) = 0 /\ Count(q, f) \in Nat
    BY <1>3, <1>4
  <2> QED
    BY <1>2, <2>1
<1> QED
  BY <1>5, <1>6, <1>7

\* comp.ts, io_loop: the next runnable computation goes into the loop, and
\* what is on the pipe may become runnable.
LEMMA RunKept ==
  ASSUME NInv, Run
  PROVE  NInv'
<1> DEFINE taken == IF n = 0 /\ busy # 0 THEN pipe ELSE <<>>
           f0 == Head(runs)
           r == ToSet(taken)
<1>1. /\ cur = Idle /\ runs # <<>>
      /\ runs' = Joined(Tail(runs), taken) /\ pipe' = (IF taken = <<>> THEN pipe ELSE <<>>)
      /\ busy' = busy - Len(taken) /\ item' = ItemsAfter(r) /\ cur' = f0
      /\ UNCHANGED <<park, jobs, helpers, rows, idle, handles, live, left>>
  BY DEF Run, Answer, BusyAfter, table, Joined
<1>2. IsSeq(runs) /\ IsSeq(park) /\ IsSeq(pipe)
  BY DEF NInv, Shaped
<1>3. /\ IsSeq(taken) /\ IsSeq(pipe')
      /\ Len(taken) = Len(pipe) - Len(pipe')
      /\ \A f : Count(taken, f) + Count(pipe', f) = Count(pipe, f)
  <2> DEFINE t == taken
             u == pipe'
  <2>1. t = pipe \/ t = <<>>
    OBVIOUS
  <2>2. u = (IF t = <<>> THEN pipe ELSE <<>>)
    BY <1>1
  <2> HIDE DEF t, u
  <2>3. /\ IsSeq(t) /\ IsSeq(u) /\ Len(t) = Len(pipe) - Len(u)
        /\ \A f : Count(t, f) + Count(u, f) = Count(pipe, f)
    BY <1>2, <2>1, <2>2, AllOrNothing
  <2> QED
    BY <2>3 DEF t, u
<1> HIDE DEF taken
<1>4. /\ IsSeq(Tail(runs))
      /\ \A f : Count(runs, f) = Count(Tail(runs), f) + (IF f0 = f THEN 1 ELSE 0)
  BY <1>1, <1>2, TailSeq, CountTail
<1>5. /\ IsSeq(runs')
      /\ \A f : Count(runs', f) = Count(Tail(runs), f) + Count(taken, f)
  BY <1>1, <1>3, <1>4, ConcatSeq, CountConcat DEF Joined
<1>6. f0 \notin Nobody
  <2>1. Count(runs, f0) \in Nat /\ Count(Tail(runs), f0) \in Nat
    BY <1>2, <1>4, CountIsNat
  <2>2. Count(runs, f0) >= 1
    BY <1>4, <2>1
  <2> HIDE DEF f0
  <2>3. Now(f0) # 0
    BY <2>2, Counted
  <2> QED
    BY <2>3, Counted, BornIds
<1> HIDE DEF f0
<1>7. \A f : In(cur, f) = 0 /\ In(cur', f) = (IF f0 = f THEN 1 ELSE 0)
  BY <1>1, <1>6 DEF In, Idle, Nobody, Awake
<1>8. \A f : Count(runs', f) + ParkCount(park', f) + Count(pipe', f) + In(cur', f)
               = Count(runs, f) + ParkCount(park, f) + Count(pipe, f) + In(cur, f)
  <2> SUFFICES ASSUME NEW f
               PROVE  Count(runs', f) + ParkCount(park', f) + Count(pipe', f) + In(cur', f)
                        = Count(runs, f) + ParkCount(park, f) + Count(pipe, f) + In(cur, f)
    OBVIOUS
  <2>1. /\ Count(runs, f) \in Nat /\ ParkCount(park, f) \in Nat /\ Count(pipe, f) \in Nat
        /\ Count(Tail(runs), f) \in Nat /\ Count(taken, f) \in Nat /\ Count(pipe', f) \in Nat
    BY <1>2, <1>3, <1>4, CountIsNat
  <2>2. ParkCount(park', f) = ParkCount(park, f)
    BY <1>1
  <2>3. Count(taken, f) + Count(pipe', f) = Count(pipe, f)
    BY <1>3
  <2>4. Count(runs, f) = Count(Tail(runs), f) + (IF f0 = f THEN 1 ELSE 0)
    BY <1>4
  <2>5. Count(runs', f) = Count(Tail(runs), f) + Count(taken, f)
    BY <1>5
  <2>6. In(cur, f) = 0 /\ In(cur', f) = (IF f0 = f THEN 1 ELSE 0)
    BY <1>7
  <2> QED
    BY <2>1, <2>2, <2>3, <2>4, <2>5, <2>6
<1>9. \A f \in r : Count(runs, f) + ParkCount(park, f) + Count(pipe, f) >= 1
  <2> SUFFICES ASSUME NEW f \in r
               PROVE  Count(runs, f) + ParkCount(park, f) + Count(pipe, f) >= 1
    OBVIOUS
  <2>1. Count(taken, f) >= 1
    BY <1>3, CountedIn
  <2>2. /\ Count(runs, f) \in Nat /\ ParkCount(park, f) \in Nat /\ Count(pipe, f) \in Nat
        /\ Count(taken, f) \in Nat /\ Count(pipe', f) \in Nat
    BY <1>2, <1>3, CountIsNat
  <2>3. Count(taken, f) + Count(pipe', f) = Count(pipe, f)
    BY <1>3
  <2> QED
    BY <2>1, <2>2, <2>3
<1>10. IsSeq(park') /\ cur' # Asleep
  BY <1>1, <1>2, <1>6 DEF Nobody
<1>11. busy' = busy - (Len(pipe) - Len(pipe'))
  BY <1>1, <1>3
<1> HIDE DEF r
<1> QED
  BY <1>1, <1>3, <1>5, <1>8, <1>9, <1>10, <1>11, ReadiedKept

\* comp.ts, io_wait: what is due and what is on the pipe becomes runnable.
LEMMA PollKept ==
  ASSUME NInv, Poll
  PROVE  NInv'
<1>1. PICK ready \in SUBSET {i \in DOMAIN park : park[i].time = 0} :
        \E again \in SUBSET ready :
          LET due == ready \cup {i \in DOMAIN park : park[i].time \in 1..clock}
              resumed == Picked(park, due \ again)
              readied == [k \in DOMAIN resumed |-> resumed[k].fiber]
          IN  /\ runs' = pipe \o readied
              /\ park' = Picked(park, DOMAIN park \ (due \ again))
              /\ item' = ItemsAfter(ToSet(pipe \o readied))
  BY DEF Poll
<1>20. PICK again \in SUBSET ready :
          LET due == ready \cup {i \in DOMAIN park : park[i].time \in 1..clock}
              resumed == Picked(park, due \ again)
              readied == [k \in DOMAIN resumed |-> resumed[k].fiber]
          IN  /\ runs' = pipe \o readied
              /\ park' = Picked(park, DOMAIN park \ (due \ again))
              /\ item' = ItemsAfter(ToSet(pipe \o readied))
  BY <1>1
<1> DEFINE I == (ready \cup {i \in DOMAIN park : park[i].time \in 1..clock}) \ again
           resumed == Picked(park, I)
           readied == [k \in DOMAIN resumed |-> resumed[k].fiber]
           joined == Joined(pipe, readied)
           r == ToSet(joined)
<1>2. /\ runs' = joined /\ park' = Picked(park, DOMAIN park \ I) /\ item' = ItemsAfter(r)
  BY <1>20 DEF Joined
<1>3. /\ cur = Idle /\ runs = <<>> /\ pipe' = <<>> /\ busy' = busy - Len(pipe)
      /\ UNCHANGED <<jobs, helpers, rows, idle, handles, live, left, cur>>
  BY DEF Poll, BusyAfter, table
<1>4. IsSeq(park) /\ IsSeq(pipe)
  BY DEF NInv, Shaped
<1> HIDE DEF I
<1>5. /\ IsSeq(resumed) /\ IsSeq(park')
      /\ \A f : ParkCount(resumed, f) + ParkCount(park', f) = ParkCount(park, f)
  BY <1>2, <1>4, CountPicked
<1> HIDE DEF resumed
<1>6. IsSeq(readied) /\ \A f : Count(readied, f) = ParkCount(resumed, f)
  <2> DEFINE s == readied
  <2>1. DOMAIN resumed = 1..Len(resumed) /\ Len(resumed) \in Nat
    BY <1>5, SeqFacts
  <2>2. s = [k \in 1..Len(resumed) |-> s[k]]
    BY <2>1
  <2>3. DOMAIN s = DOMAIN resumed /\ \A k \in DOMAIN resumed : s[k] = resumed[k].fiber
    OBVIOUS
  <2> HIDE DEF s
  <2>4. IsSeq(s)
    BY <2>1, <2>2, ListIsSeq
  <2>5. \A f : {k \in DOMAIN s : s[k] = f} = {k \in DOMAIN resumed : resumed[k].fiber = f}
    BY <2>3
  <2>6. \A f : Count(s, f) = ParkCount(resumed, f)
    BY <2>5 DEF Count, ParkCount
  <2> QED
    BY <2>4, <2>6 DEF s
<1> HIDE DEF readied
<1>7. IsSeq(joined) /\ \A f : Count(joined, f) = Count(pipe, f) + Count(readied, f)
  BY <1>4, <1>6, ConcatSeq, CountConcat DEF Joined
<1> HIDE DEF joined
<1>8. IsSeq(pipe') /\ Len(pipe') = 0 /\ \A f : Count(pipe', f) = 0 /\ Count(runs, f) = 0
  BY <1>3, EmptyIsSeq, CountEmpty
<1>9. ASSUME NEW f
      PROVE  /\ Count(joined, f) \in Nat /\ ParkCount(park, f) \in Nat /\ Count(pipe, f) \in Nat
             /\ ParkCount(park', f) \in Nat /\ ParkCount(resumed, f) \in Nat
             /\ In(cur, f) \in {0, 1}
             /\ Count(joined, f) + ParkCount(park', f) = Count(pipe, f) + ParkCount(park, f)
  <2>1. /\ Count(joined, f) \in Nat /\ ParkCount(park, f) \in Nat /\ Count(pipe, f) \in Nat
        /\ ParkCount(park', f) \in Nat /\ ParkCount(resumed, f) \in Nat
    BY <1>4, <1>5, <1>7, CountIsNat
  <2>2. ParkCount(resumed, f) + ParkCount(park', f) = ParkCount(park, f)
    BY <1>5
  <2>3. Count(joined, f) = Count(pipe, f) + ParkCount(resumed, f)
    BY <1>6, <1>7
  <2> QED
    BY <2>1, <2>2, <2>3 DEF In
<1>10. \A f : Count(runs', f) + ParkCount(park', f) + Count(pipe', f) + In(cur', f)
                = Count(runs, f) + ParkCount(park, f) + Count(pipe, f) + In(cur, f)
  <2> SUFFICES ASSUME NEW f
               PROVE  Count(runs', f) + ParkCount(park', f) + Count(pipe', f) + In(cur', f)
                        = Count(runs, f) + ParkCount(park, f) + Count(pipe, f) + In(cur, f)
    OBVIOUS
  <2>1. Count(runs', f) = Count(joined, f) /\ In(cur', f) = In(cur, f)
    BY <1>2, <1>3
  <2>2. Count(pipe', f) = 0 /\ Count(runs, f) = 0
    BY <1>8
  <2> QED
    BY <1>9, <2>1, <2>2
<1>11. \A f \in r : Count(runs, f) + ParkCount(park, f) + Count(pipe, f) >= 1
  <2> SUFFICES ASSUME NEW f \in r
               PROVE  Count(runs, f) + ParkCount(park, f) + Count(pipe, f) >= 1
    OBVIOUS
  <2>1. Count(joined, f) >= 1
    BY <1>7, CountedIn
  <2>2. Count(runs, f) = 0
    BY <1>8
  <2> QED
    BY <1>9, <2>1, <2>2
<1>12. busy' = busy - (Len(pipe) - Len(pipe'))
  <2>1. Len(pipe) \in Nat
    BY <1>4, SeqFacts
  <2> QED
    BY <1>3, <1>8, <2>1
<1>13. IsSeq(runs') /\ cur' # Asleep
  BY <1>2, <1>3, <1>7 DEF Idle, Asleep
<1> HIDE DEF r
<1> QED
  BY <1>2, <1>3, <1>5, <1>8, <1>10, <1>11, <1>12, <1>13, ReadiedKept

----------------------------------------------------------------------------
(* The threads.                                                            *)

\* A step of a helper's moves jobs from where they wait over its hand to the
\* pipe, and nothing else.
LEMMA HelperKept ==
  ASSUME NInv, UNCHANGED <<runs, park, busy, rows, idle, handles, item, live, cur, left>>,
         IsSeq(jobs'), IsSeq(helpers'), IsSeq(pipe'), Len(helpers') = Len(helpers),
         Len(jobs') + Cardinality(Hands(helpers')) + Len(pipe')
           = Len(jobs) + Cardinality(Hands(helpers)) + Len(pipe),
         \A f : Count(jobs', f) + Hand(helpers', f) + Count(pipe', f)
                  = Count(jobs, f) + Hand(helpers, f) + Count(pipe, f)
  PROVE  NInv'
<1>1. RowsOk(rows', item') /\ IdleOk(rows', idle')
  BY DEF NInv
<1>2. Shaped'
  BY DEF NInv, Shaped
<1>3. Born' = Born
  BY DEF Born
<1>4. Away'
  BY DEF NInv, Away, Hands
<1>5. ASSUME NEW f
      PROVE  Everywhere(runs', park', jobs', helpers', pipe', rows', cur', f) = Now(f)
  <2>1. /\ Count(runs, f) \in Nat /\ ParkCount(park, f) \in Nat /\ Count(jobs, f) \in Nat
        /\ Hand(helpers, f) \in Nat /\ Count(pipe, f) \in Nat /\ RowCount(rows, f) \in Nat
        /\ In(cur, f) \in Nat
        /\ Now(f) = Count(runs, f) + ParkCount(park, f) + Count(jobs, f) + Hand(helpers, f)
                    + Count(pipe, f) + RowCount(rows, f) + In(cur, f)
    BY Counted
  <2>2. Count(jobs', f) \in Nat /\ Count(helpers', f) \in Nat /\ Count(pipe', f) \in Nat
    BY CountIsNat
  <2>3. Hand(helpers', f) \in Nat
    BY <2>2 DEF Hand
  <2>4. Count(jobs', f) + Hand(helpers', f) + Count(pipe', f)
          = Count(jobs, f) + Hand(helpers, f) + Count(pipe, f)
    OBVIOUS
  <2>5. Everywhere(runs', park', jobs', helpers', pipe', rows', cur', f)
          = Count(runs, f) + ParkCount(park, f) + Count(jobs', f) + Hand(helpers', f)
            + Count(pipe', f) + RowCount(rows, f) + In(cur, f)
    BY DEF Everywhere
  <2> QED
    BY ONLY <2>1, <2>2, <2>3, <2>4, <2>5
<1> QED
  BY <1>1, <1>2, <1>3, <1>4, <1>5, Kept

\* A thread takes a job in hand.
LEMMA HandFilled ==
  ASSUME NEW h, IsSeq(h), NEW t \in 1..Len(h), h[t] \in Nobody, NEW x, x \notin Nobody,
         NEW u, u = Replaced(h, t, x)
  PROVE  /\ IsSeq(u) /\ Len(u) = Len(h)
         /\ Cardinality(Hands(u)) = Cardinality(Hands(h)) + 1
         /\ Cardinality(Hands(h)) \in Nat
         /\ \A f : Hand(u, f) = Hand(h, f) + (IF f = x THEN 1 ELSE 0)
<1>1. /\ IsSeq(u) /\ Len(u) = Len(h) /\ u[t] = x
      /\ \A i \in 1..Len(h) : i # t => u[i] = h[i]
      /\ DOMAIN u = 1..Len(h) /\ DOMAIN h = 1..Len(h)
  BY ReplaceSeq, SeqFacts
<1>2. Hands(u) = Hands(h) \cup {t} /\ t \notin Hands(h)
  BY <1>1 DEF Hands
<1>3. IsFiniteSet(Hands(h)) /\ Cardinality(Hands(h)) \in Nat
  BY Positions DEF Hands
<1>4. Cardinality(Hands(u)) = Cardinality(Hands(h)) + 1
  BY <1>2, <1>3, FS_AddElement
<1>5. ASSUME NEW f PROVE Hand(u, f) = Hand(h, f) + (IF f = x THEN 1 ELSE 0)
  <2>1. CASE f \in Nobody
    BY <2>1 DEF Hand
  <2>2. CASE f \notin Nobody
    <3>1. Count(u, f) + (IF h[t] = f THEN 1 ELSE 0) = Count(h, f) + (IF x = f THEN 1 ELSE 0)
      BY CountReplace
    <3>2. Count(u, f) \in Nat /\ Count(h, f) \in Nat
      BY <1>1, CountIsNat
    <3>3. h[t] # f
      BY <2>2
    <3>4. Count(u, f) = Count(h, f) + (IF f = x THEN 1 ELSE 0)
      BY <3>1, <3>2, <3>3
    <3> QED
      BY <2>2, <3>4 DEF Hand
  <2> QED
    BY <2>1, <2>2
<1> QED
  BY <1>1, <1>3, <1>4, <1>5

\* A thread has answered.
LEMMA HandEmptied ==
  ASSUME NEW h, IsSeq(h), NEW t \in 1..Len(h), h[t] \notin Nobody, NEW x \in Nobody,
         NEW u, u = Replaced(h, t, x)
  PROVE  /\ IsSeq(u) /\ Len(u) = Len(h)
         /\ Cardinality(Hands(h)) = Cardinality(Hands(u)) + 1
         /\ Cardinality(Hands(u)) \in Nat
         /\ \A f : Hand(h, f) = Hand(u, f) + (IF f = h[t] THEN 1 ELSE 0)
<1>1. /\ IsSeq(u) /\ Len(u) = Len(h) /\ u[t] = x
      /\ \A i \in 1..Len(h) : i # t => u[i] = h[i]
      /\ DOMAIN u = 1..Len(h) /\ DOMAIN h = 1..Len(h)
  BY ReplaceSeq, SeqFacts
<1>2. Hands(h) = Hands(u) \cup {t} /\ t \notin Hands(u)
  BY <1>1 DEF Hands
<1>3. IsFiniteSet(Hands(u)) /\ Cardinality(Hands(u)) \in Nat
  BY <1>1, Positions DEF Hands
<1>4. Cardinality(Hands(h)) = Cardinality(Hands(u)) + 1
  BY <1>2, <1>3, FS_AddElement
<1>5. ASSUME NEW f PROVE Hand(h, f) = Hand(u, f) + (IF f = h[t] THEN 1 ELSE 0)
  <2>1. CASE f \in Nobody
    BY <2>1 DEF Hand
  <2>2. CASE f \notin Nobody
    <3>1. Count(u, f) + (IF h[t] = f THEN 1 ELSE 0) = Count(h, f) + (IF x = f THEN 1 ELSE 0)
      BY CountReplace
    <3>2. Count(u, f) \in Nat /\ Count(h, f) \in Nat
      BY <1>1, CountIsNat
    <3>3. x # f
      BY <2>2
    <3>4. Count(h, f) = Count(u, f) + (IF f = h[t] THEN 1 ELSE 0)
      BY <3>1, <3>2, <3>3
    <3> QED
      BY <2>2, <3>4 DEF Hand
  <2> QED
    BY <2>1, <2>2
<1> QED
  BY <1>1, <1>3, <1>4, <1>5

\* comp.ts, io_help: a thread takes a job, or falls asleep.
LEMMA FetchKept ==
  ASSUME NInv, NEW t \in DOMAIN helpers, Fetch(t)
  PROVE  NInv'
<1>1. /\ helpers[t] = Awake
      /\ UNCHANGED <<runs, park, busy, pipe, rows, idle, handles, item, live, cur, left>>
  BY DEF Fetch, Threads, table
<1>2. IsSeq(jobs) /\ IsSeq(helpers) /\ IsSeq(pipe)
  BY DEF NInv, Shaped
<1>3. t \in 1..Len(helpers) /\ helpers[t] \in Nobody
  BY <1>1, <1>2, SeqFacts DEF Nobody
<1>4. CASE jobs = <<>>
  <2> DEFINE u == helpers'
  <2>1. u = Replaced(helpers, t, Asleep) /\ jobs' = jobs
    BY <1>4 DEF Fetch, Replaced
  <2> HIDE DEF u
  <2>2. Asleep \in Nobody
    BY DEF Nobody
  <2>3. /\ IsSeq(u) /\ Len(u) = Len(helpers) /\ Hands(u) = Hands(helpers)
        /\ \A f : Hand(u, f) = Hand(helpers, f)
    BY <1>2, <1>3, <2>1, <2>2, ThreadTurns
  <2> QED
    BY <1>1, <1>2, <2>1, <2>3, HelperKept DEF u
<1>5. CASE jobs # <<>>
  <2> DEFINE u == helpers'
             j == Head(jobs)
             s == jobs'
  <2>1. u = Replaced(helpers, t, j) /\ s = Tail(jobs)
    BY <1>5 DEF Fetch, Replaced
  <2>2. /\ IsSeq(s) /\ Len(s) = Len(jobs) - 1 /\ Len(jobs) \in Nat \ {0}
        /\ \A f : Count(jobs, f) = Count(s, f) + (IF j = f THEN 1 ELSE 0)
    BY <1>2, <1>5, <2>1, TailSeq, CountTail
  <2> HIDE DEF u, j, s
  <2>3. j \notin Nobody
    <3>1. Count(jobs, j) = Count(s, j) + 1 /\ Count(s, j) \in Nat
      BY <2>2, CountIsNat
    <3>2. Now(j) # 0
      BY <3>1, Counted
    <3> QED
      BY <3>2, Counted, BornIds
  <2>4. /\ IsSeq(u) /\ Len(u) = Len(helpers)
        /\ Cardinality(Hands(u)) = Cardinality(Hands(helpers)) + 1
        /\ Cardinality(Hands(helpers)) \in Nat
        /\ \A f : Hand(u, f) = Hand(helpers, f) + (IF f = j THEN 1 ELSE 0)
    BY <1>2, <1>3, <2>1, <2>3, HandFilled
  <2>5. Len(pipe) \in Nat
    BY <1>2, SeqFacts
  <2>6. Len(s) + Cardinality(Hands(u)) + Len(pipe)
          = Len(jobs) + Cardinality(Hands(helpers)) + Len(pipe)
    BY <2>2, <2>4, <2>5
  <2>7. ASSUME NEW f
        PROVE  Count(s, f) + Hand(u, f) + Count(pipe, f)
                 = Count(jobs, f) + Hand(helpers, f) + Count(pipe, f)
    <3>1. Count(s, f) \in Nat /\ Count(jobs, f) \in Nat /\ Count(pipe, f) \in Nat
          /\ Hand(helpers, f) \in Nat
      BY <2>2, CountIsNat, Counted
    <3>2. Count(jobs, f) = Count(s, f) + (IF j = f THEN 1 ELSE 0)
      BY <2>2
    <3>3. Hand(u, f) = Hand(helpers, f) + (IF f = j THEN 1 ELSE 0)
      BY <2>4
    <3> QED
      BY ONLY <3>1, <3>2, <3>3
  <2> QED
    BY <1>1, <1>2, <2>2, <2>4, <2>6, <2>7, HelperKept DEF u, s
<1> QED
  BY <1>4, <1>5

\* comp.ts, io_help: a thread answers on the pipe.
LEMMA ReplyKept ==
  ASSUME NInv, NEW t \in DOMAIN helpers, Reply(t)
  PROVE  NInv'
<1> DEFINE u == helpers'
           j == helpers[t]
           s == pipe'
<1>1. /\ j \notin Nobody /\ u = Replaced(helpers, t, Awake) /\ s = Append(pipe, j)
      /\ UNCHANGED <<runs, park, jobs, busy, rows, idle, handles, item, live, cur, left>>
  BY DEF Reply, Threads, table, Nobody, Replaced
<1>2. IsSeq(jobs) /\ IsSeq(helpers) /\ IsSeq(pipe)
  BY DEF NInv, Shaped
<1>3. t \in 1..Len(helpers) /\ Awake \in Nobody
  BY <1>2, SeqFacts DEF Nobody
<1> HIDE DEF u
<1>4. /\ IsSeq(u) /\ Len(u) = Len(helpers)
      /\ Cardinality(Hands(helpers)) = Cardinality(Hands(u)) + 1
      /\ Cardinality(Hands(u)) \in Nat
      /\ \A f : Hand(helpers, f) = Hand(u, f) + (IF f = j THEN 1 ELSE 0)
  BY <1>1, <1>2, <1>3, HandEmptied
<1> HIDE DEF j, s
<1>5. /\ IsSeq(s) /\ Len(s) = Len(pipe) + 1 /\ Len(pipe) \in Nat
      /\ \A f : Count(s, f) = Count(pipe, f) + (IF j = f THEN 1 ELSE 0)
  BY <1>1, <1>2, AppendSeq, CountAppend, SeqFacts
<1>6. Len(jobs) \in Nat
  BY <1>2, SeqFacts
<1>7. Len(jobs) + Cardinality(Hands(u)) + Len(s)
        = Len(jobs) + Cardinality(Hands(helpers)) + Len(pipe)
  BY <1>4, <1>5, <1>6
<1>8. ASSUME NEW f
      PROVE  Count(jobs, f) + Hand(u, f) + Count(s, f)
               = Count(jobs, f) + Hand(helpers, f) + Count(pipe, f)
  <2>1. Count(u, f) \in Nat /\ Count(jobs, f) \in Nat /\ Count(pipe, f) \in Nat
        /\ Hand(helpers, f) \in Nat
    BY <1>4, CountIsNat, Counted
  <2>2. Hand(u, f) \in Nat
    BY <2>1 DEF Hand
  <2>3. Count(s, f) = Count(pipe, f) + (IF j = f THEN 1 ELSE 0)
    BY <1>5
  <2>4. Hand(helpers, f) = Hand(u, f) + (IF f = j THEN 1 ELSE 0)
    BY <1>4
  <2> QED
    BY ONLY <2>1, <2>2, <2>3, <2>4
<1> QED
  BY <1>1, <1>2, <1>4, <1>5, <1>7, <1>8, HelperKept DEF u, s

----------------------------------------------------------------------------
(* The invariant.                                                          *)

\* An effect, whichever it is.
LEMMA EffectKept ==
  ASSUME NInv, Effect
  PROVE  NInv'
<1>1. cur # Idle
  BY DEF Effect
<1>2. CASE Spawn(cur)
  BY <1>1, <1>2, SpawnKept
<1>3. CASE /\ ChanEffect(cur) \/ FileCall(cur) \/ Sleep(cur) \/ Socket(cur)
           /\ left' = [left EXCEPT ![cur] = @ - 1]
  <2>1. left' = [left EXCEPT ![cur] = @ - 1]
    BY <1>3
  <2>2. CASE ChanEffect(cur)
    BY <1>1, <2>1, <2>2, ChannelKept
  <2>3. CASE FileCall(cur)
    BY <1>1, <2>1, <2>3, FileKept
  <2>4. CASE Sleep(cur)
    <3>1. /\ \E ms \in Delays : park' = Append(park, Parked(cur, clock + ms))
          /\ cur' = Idle
          /\ UNCHANGED <<runs, jobs, busy, helpers, pipe, item, rows, idle, handles, live>>
      BY <2>4 DEF Sleep, IO_PARK, table
    <3>2. PICK ms \in Delays : park' = Append(park, Parked(cur, clock + ms))
      BY <3>1
    <3> QED
      BY <1>1, <2>1, <3>1, <3>2, ParkedKept
  <2>5. CASE Socket(cur)
    <3>1. /\ \/ park' = Append(park, Parked(cur, 0)) /\ cur' = Idle
             \/ UNCHANGED park /\ cur' = cur
          /\ UNCHANGED <<runs, jobs, busy, helpers, pipe, item, rows, idle, handles, live>>
      BY <2>5 DEF Socket, IO_PARK, Answer, table
    <3> QED
      BY <1>1, <2>1, <3>1, ParkedKept, AnsweredKept
  <2> QED
    BY <1>3, <2>2, <2>3, <2>4, <2>5
<1> QED
  BY <1>2, <1>3 DEF Effect

\* A step that moves nobody at all.
LEMMA UnmovedKept ==
  ASSUME NInv, UNCHANGED <<runs, park, jobs, busy, helpers, pipe, rows, idle, handles,
                           item, live, cur, left>>
  PROVE  NInv'
<1>1. Born' = Born
  BY DEF Born
<1>2. Shaped' /\ Away'
  BY DEF NInv, Shaped, Away, Hands
<1>3. \A f : Everywhere(runs', park', jobs', helpers', pipe', rows', cur', f) = Now(f)
  BY DEF Now
<1>4. RowsOk(rows', item') /\ IdleOk(rows', idle')
  BY DEF NInv
<1> QED
  BY <1>1, <1>2, <1>3, <1>4, Kept

\* At the start only main is anywhere: it is runnable.
LEMMA NInit == Init => NInv
<1> SUFFICES ASSUME Init PROVE NInv
  OBVIOUS
<1> DEFINE e == <<>>
<1>1. IsSeq(e) /\ Len(e) = 0 /\ DOMAIN e = {}
  <2>1. IsSeq(<<>>)
    BY EmptyIsSeq
  <2> QED
    BY <2>1
<1>2. /\ runs = <<1>> /\ park = e /\ jobs = e /\ helpers = e /\ pipe = e /\ rows = e /\ idle = e
      /\ item = <<Unit>> /\ left = <<Asks>>
      /\ live = 1 /\ busy = 0 /\ cur = Idle /\ handles = {}
  BY DEF Init
<1>3. \A f : Count(e, f) = 0 /\ ParkCount(e, f) = 0 /\ RowCount(e, f) = 0
  BY CountEmpty
<1>4. ToSet(e) = {} /\ IsInjective(e)
  BY <1>1 DEF ToSet, IsInjective
<1> HIDE DEF e
<1>5. /\ IsSeq(runs) /\ IsSeq(item) /\ IsSeq(left) /\ Len(item) = 1 /\ Len(left) = 1
      /\ DOMAIN left = 1..1
  <2>1. \A x : <<x>> \in Seq({x}) /\ Len(<<x>>) = 1
    OBVIOUS
  <2>2. \A x : IsSeq(<<x>>)
    BY <2>1 DEF IsSeq
  <2>3. IsSeq(runs) /\ IsSeq(item) /\ IsSeq(left) /\ Len(item) = 1 /\ Len(left) = 1
    BY <1>2, <2>1, <2>2
  <2> QED
    BY <2>3, SeqFacts
<1>6. \A f : Count(runs, f) = (IF 1 = f THEN 1 ELSE 0)
  <2> SUFFICES ASSUME NEW f PROVE Count(runs, f) = (IF 1 = f THEN 1 ELSE 0)
    OBVIOUS
  <2>1. DOMAIN runs = {1} /\ runs[1] = 1
    BY <1>2
  <2>2. {i \in DOMAIN runs : runs[i] = f} = (IF 1 = f THEN {1} ELSE {})
    BY <2>1
  <2> QED
    BY <2>2, FS_EmptySet, FS_Singleton DEF Count
<1>7. Shaped
  BY <1>1, <1>2, <1>5 DEF Shaped, Idle, Asleep
<1>8. RowsOk(rows, item) /\ IdleOk(rows, idle)
  BY <1>1, <1>2, <1>4 DEF RowsOk, IdleOk
<1>9. Away
  <2>1. Hands(helpers) = {}
    BY <1>1, <1>2 DEF Hands
  <2> QED
    BY <1>1, <1>2, <2>1, FS_EmptySet, NativeIoAssumption DEF Away
<1>10. Born = {1}
  BY <1>5 DEF Born
<1>11. \A f : Now(f) = (IF 1 = f THEN 1 ELSE 0)
  <2> SUFFICES ASSUME NEW f PROVE Now(f) = (IF 1 = f THEN 1 ELSE 0)
    OBVIOUS
  <2>1. Hand(helpers, f) = 0 /\ In(cur, f) = 0
    BY <1>2, <1>3 DEF Hand, In, Nobody, Idle, Awake
  <2> QED
    BY <1>2, <1>3, <1>6, <2>1 DEF Now, Everywhere
<1>12. Once
  BY <1>10, <1>11 DEF Once
<1>13. Alive
  <2>1. {f \in Born : Now(f) = 1} = {1}
    BY <1>10, <1>11
  <2> QED
    BY <1>2, <2>1, FS_Singleton DEF Alive
<1> QED
  BY <1>7, <1>8, <1>9, <1>12, <1>13 DEF NInv

\* Every step of either kind of thread keeps the invariant.
LEMMA NStep == NInv /\ [Next]_nvars => NInv'
<1> SUFFICES ASSUME NInv, [Next]_nvars PROVE NInv'
  OBVIOUS
<1>1. CASE Run
  BY <1>1, RunKept
<1>2. CASE Effect
  BY <1>2, EffectKept
<1>3. CASE Emit
  BY <1>3, EmitKept
<1>4. CASE Halt \/ Finish \/ Deadlock
  <2>1. UNCHANGED <<queues, table, item, live, cur, left>>
    BY <1>4 DEF Halt, Finish, Deadlock, Exits
  <2> QED
    BY <2>1, UnmovedKept DEF queues, table
<1>5. CASE Poll
  BY <1>5, PollKept
<1>6. CASE Tick
  BY <1>6, UnmovedKept DEF Tick, queues, table
<1>7. CASE \E t \in DOMAIN helpers : Help(t)
  BY <1>7, FetchKept, ReplyKept DEF Help
<1>8. CASE UNCHANGED nvars
  BY <1>8, UnmovedKept DEF nvars, queues, table
<1> QED
  BY <1>1, <1>2, <1>3, <1>4, <1>5, <1>6, <1>7, <1>8 DEF Next, Loop

\* The invariant says where everybody is.
LEMMA NAccounted == NInv => Accounted
<1> SUFFICES ASSUME NInv PROVE Accounted
  OBVIOUS
<1>1. ASSUME NEW f \in Born PROVE Places(f) = Now(f)
  <2>1. f \notin Nobody
    BY BornIds
  <2>2. Hand(helpers, f) = Count(helpers, f) /\ In(cur, f) = (IF cur = f THEN 1 ELSE 0)
    BY <2>1 DEF Hand, In
  <2> QED
    BY <2>2 DEF Places, Now, Everywhere, Count, ParkCount, RowCount
<1>2. \A f \in Born : Places(f) <= 1
  BY <1>1 DEF NInv, Once
<1>3. live = Cardinality({f \in Born : Places(f) = 1})
  <2>1. {f \in Born : Places(f) = 1} = {f \in Born : Now(f) = 1}
    BY <1>1
  <2> QED
    BY <2>1 DEF NInv, Alive
<1>4. \A i \in DOMAIN rows : IsInjective(rows[i].wait)
  BY SeqFacts DEF NInv, RowsOk, RowOk, RowShape
<1>5. InHand = Hands(helpers)
  BY DEF InHand, Hands, Nobody
<1> QED
  BY <1>2, <1>3, <1>4, <1>5 DEF Accounted, NInv, Away

\* The invariant says which rows are free.
LEMMA NRowsKept == NInv => RowsKept
<1> SUFFICES ASSUME NInv PROVE RowsKept
  OBVIOUS
<1>1. IsSeq(rows) /\ DOMAIN rows = 1..Len(rows)
  BY SeqFacts DEF NInv, RowsOk
<1>2. IsInjective(idle) /\ ToSet(idle) = {i \in DOMAIN rows : ~rows[i].live}
  BY <1>1 DEF NInv, IdleOk
<1>3. ASSUME NEW i \in DOMAIN rows
      PROVE  LET row == rows[i]
                 kind(x) == \A k \in DOMAIN row.wait : (item[row.wait[k]] = Hole) = x
             IN /\ row.size \in 0..row.room
                /\ ~row.live => row.size = 0
                /\ ~row.live \/ row.shut => row.wait = <<>>
                /\ row.live /\ row.shut => row.size > 0
                /\ row.wait # <<>> =>
                     (row.size = 0 /\ kind(TRUE)) \/ (row.size = row.room /\ kind(FALSE))
  <2> DEFINE row == rows[i]
             kind(x) == \A k \in DOMAIN row.wait : (item[row.wait[k]] = Hole) = x
  <2>1. RowOk(row, item)
    BY <1>1 DEF NInv, RowsOk
  <2>2. DOMAIN row.wait = 1..Len(row.wait)
    BY <2>1, SeqFacts DEF RowOk, RowShape
  <2>3. Receivers(row, item) => kind(TRUE)
    BY <2>2 DEF Receivers
  <2>4. Offerers(row, item) => kind(FALSE)
    BY <2>2 DEF Offerers
  <2> HIDE DEF kind
  <2>5. /\ row.size \in 0..row.room
        /\ ~row.live => row.size = 0
        /\ ~row.live \/ row.shut => row.wait = <<>>
        /\ row.live /\ row.shut => row.size > 0
        /\ row.wait # <<>> =>
             (row.size = 0 /\ kind(TRUE)) \/ (row.size = row.room /\ kind(FALSE))
    BY <2>1, <2>3, <2>4 DEF RowOk
  <2> QED
    BY <2>5 DEF kind
<1> QED
  BY <1>2, <1>3 DEF RowsKept

\* comp.ts, io_loop and io_help: whatever the programs, however many helpers
\* and however large the pipe, a computation is in one place as long as it
\* lives, io_live counts those alive and io_busy those that are away.
THEOREM EverybodyIsAccounted == Spec => []Accounted
<1>1. Init => NInv
  BY NInit
<1>2. NInv /\ [Next]_nvars => NInv'
  BY NStep
<1>3. NInv => Accounted
  BY NAccounted
<1> QED
  BY <1>1, <1>2, <1>3, PTL DEF Spec

\* comp.ts, chan_open, chan_free and chan_shut: the freed rows are those on the
\* idle list, a row is freed empty and with nobody waiting, and who waits in a
\* row waits for what the row cannot give.
THEOREM RowsAreKept == Spec => []RowsKept
<1>1. Init => NInv
  BY NInit
<1>2. NInv /\ [Next]_nvars => NInv'
  BY NStep
<1>3. NInv => RowsKept
  BY NRowsKept
<1> QED
  BY <1>1, <1>2, <1>3, PTL DEF Spec
============================================================================
