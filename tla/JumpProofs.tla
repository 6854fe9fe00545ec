----------------------------- MODULE JumpProofs -----------------------------
(***************************************************************************)
(* Execution and the scan agree on what is an instruction, for every code  *)
(* and every sequence of jumps.                                            *)
(*                                                                         *)
(* The invariant is inductive as it stands; what it needs is the scan      *)
(* unrolled: over the data of a PUSH it counts down to zero, and over a    *)
(* valid immediate it sees an instruction of one byte.                     *)
(***************************************************************************)
EXTENDS Jumps, InductionProofs

Code == Seq(0..255)

\* What the scan has left to skip at position i, from what it had at i - 1.
Skipped(i, before) == IF before = 0 THEN Width(At(i - 1)) - 1 ELSE before - 1

\* Bytes of the code, and the zeros behind it, are bytes.
LEMMA AtType ==
  ASSUME code \in Code, NEW i \in Nat
  PROVE  /\ Len(code) \in Nat
         /\ At(i) \in 0..255
         /\ i >= Len(code) => At(i) = 0
         /\ Width(At(i)) - 1 \in Nat
<1>1. Len(code) \in Nat /\ \A j \in 1..Len(code) : code[j] \in 0..255
  <2> DEFINE B == 0..255
  <2>1. code \in Seq(B)
    BY DEF Code
  <2> HIDE DEF B
  <2>2. Len(code) \in Nat /\ \A j \in 1..Len(code) : code[j] \in B
    BY <2>1
  <2> QED
    BY <2>2 DEF B
<1>2. At(i) \in 0..255 /\ (i >= Len(code) => At(i) = 0)
  <2>1. CASE i < Len(code)
    BY <1>1, <2>1 DEF At
  <2>2. CASE i >= Len(code)
    BY <1>1, <2>2 DEF At
  <2> QED
    BY <1>1, <2>1, <2>2
<1> DEFINE op == At(i)
<1>3. op \in 0..255
  BY <1>2
<1> HIDE DEF op
<1>4. Width(op) - 1 \in Nat
  BY <1>3 DEF Width, Push
<1> QED
  BY <1>1, <1>2, <1>4 DEF op

\* full/opcode-common.bend:101-119.  The scan, one position at a time.
LEMMA SkipFacts ==
  ASSUME code \in Code
  PROVE  /\ Skip \in [0..Len(code) -> Nat]
         /\ Skip[0] = 0
         /\ \A i \in 1..Len(code) : Skip[i] = Skipped(i, Skip[i - 1])
<1> DEFINE N == Len(code)
           IsSkip(f) == f = [i \in 0..N |->
                               IF i = 0 THEN 0
                               ELSE IF f[i - 1] = 0 THEN Width(At(i - 1)) - 1
                               ELSE f[i - 1] - 1]
           next == [p \in (1..N) \X Nat |-> Skipped(p[1], p[2])]
<1>1. N \in Nat
  BY DEF Code
<1>2. next \in [(1..N) \X Nat -> Nat]
  <2> SUFFICES ASSUME NEW i \in 1..N, NEW k \in Nat PROVE Skipped(i, k) \in Nat
    OBVIOUS
  <2>1. i - 1 \in Nat
    BY <1>1
  <2>2. Width(At(i - 1)) - 1 \in Nat
    BY <2>1, AtType
  <2> QED
    BY <2>2 DEF Skipped
<1>3. \A i \in 1..N, k \in Nat : next[<<i, k>>] = Skipped(i, k)
  OBVIOUS
<1> HIDE DEF next, N
<1>4. PICK f \in [0..N -> Nat] : Follows(f, N, 0, next)
  <2>1. 0 \in Nat
    OBVIOUS
  <2> QED
    BY <1>1, <1>2, <2>1, RecursiveFunctionExists
<1>5. ASSUME NEW i \in 0..N, i # 0
      PROVE  next[<<i, f[i - 1]>>]
               = IF f[i - 1] = 0 THEN Width(At(i - 1)) - 1 ELSE f[i - 1] - 1
  <2>1. i \in 1..N /\ f[i - 1] \in Nat
    BY <1>1, <1>5
  <2> QED
    BY <1>3, <2>1 DEF Skipped
<1>6. IsSkip(f)
  <2>1. f = [i \in 0..N |-> f[i]]
    OBVIOUS
  <2> QED
    BY <1>4, <1>5, <2>1 DEF Follows
<1>7. Skip = CHOOSE g : IsSkip(g)
  BY DEF Skip, N
<1>8. IsSkip(Skip)
  BY <1>6, <1>7
<1> HIDE DEF IsSkip
<1>9. \A i \in 0..N : Skip[i] = IF i = 0 THEN 0 ELSE Skipped(i, Skip[i - 1])
  BY <1>8 DEF IsSkip, Skipped
<1> DEFINE T == {i \in 0..N : Skip[i] \notin Nat}
<1>10. T = {}
  <2> SUFFICES ASSUME T # {} PROVE FALSE
    OBVIOUS
  <2>1. T \subseteq Nat
    BY <1>1
  <2>2. PICK m \in T : \A k \in T : m <= k
    BY <2>1, LeastNumber
  <2>3. m # 0 /\ m \in 0..N
    BY <1>9, <2>2
  <2>4. m - 1 \in 0..N /\ m - 1 \in Nat /\ m - 1 \notin T
    BY <1>1, <2>2, <2>3
  <2>5. Skip[m - 1] \in Nat
    BY <2>4
  <2>6. Skipped(m, Skip[m - 1]) \in Nat
    <3>1. Width(At(m - 1)) - 1 \in Nat
      BY <2>4, AtType
    <3> QED
      BY <2>5, <3>1 DEF Skipped
  <2> QED
    BY <1>9, <2>2, <2>3, <2>6
<1>11. Skip = [i \in 0..N |-> Skip[i]]
  BY <1>8 DEF IsSkip
<1>12. Skip \in [0..N -> Nat]
  BY <1>10, <1>11
<1> QED
  BY <1>1, <1>9, <1>12 DEF N

\* The scan counts down over what it skips.
LEMMA CountsDown ==
  ASSUME code \in Code, NEW i \in 0..Len(code), NEW d \in Nat, Skip[i] = d,
         i + d <= Len(code)
  PROVE  Skip[i + d] = 0
<1> DEFINE T == {j \in 0..d : Skip[i + j] # d - j}
<1>1. T = {}
  <2> SUFFICES ASSUME T # {} PROVE FALSE
    OBVIOUS
  <2>1. T \subseteq Nat
    OBVIOUS
  <2>2. PICK m \in T : \A k \in T : m <= k
    BY <2>1, LeastNumber
  <2>3. m \in 1..d
    BY <2>2
  <2> DEFINE before == Skip[i + m - 1]
  <2>4. before = d - (m - 1)
    BY <2>2, <2>3
  <2>5. Skip[i + m] = Skipped(i + m, before)
    <3>1. i + m \in 1..Len(code)
      BY <2>3 DEF Code
    <3> QED
      BY <3>1, SkipFacts
  <2> HIDE DEF before
  <2>6. Skip[i + m] = d - m
    BY <2>3, <2>4, <2>5 DEF Skipped
  <2> QED
    BY <2>2, <2>6
<1>2. d \in 0..d /\ d - d = 0
  OBVIOUS
<1> QED
  BY <1>1, <1>2

FlowInv ==
  /\ code \in Code
  /\ pc \in Nat
  /\ FlowFollowsScan

\* Every code starts at an instruction.
LEMMA FlowInit == JInit => FlowInv
<1> SUFFICES ASSUME JInit PROVE FlowInv
  OBVIOUS
<1>1. code \in Code /\ pc = 0
  <2>1. PICK n \in Nat : code \in [1..n -> Byte]
    BY JumpsAssumption DEF JInit, BoundedSeq, SeqOf
  <2>2. code \in [1..n -> 0..255]
    BY <2>1, JumpsAssumption
  <2> QED
    BY <2>2 DEF JInit, Code
<1> QED
  BY <1>1, SkipFacts DEF FlowInv, FlowFollowsScan

\* An instruction leads to the next one the scan sees, however many bytes
\* execution steps over.
LEMMA FlowNext == FlowInv /\ [JNext]_jvars => FlowInv'
<1> SUFFICES ASSUME FlowInv, [JNext]_jvars PROVE FlowInv'
  OBVIOUS
<1>0. code \in Code /\ pc \in Nat /\ FlowFollowsScan
  BY DEF FlowInv
<1>1. CASE UNCHANGED <<code, pc>>
  BY <1>0, <1>1 DEF FlowInv, FlowFollowsScan, Skip, At
<1>2. CASE code' = code /\ pc' \in Nat /\ (pc' < Len(code) => Skip[pc'] = 0)
  BY <1>0, <1>2 DEF FlowInv, FlowFollowsScan, Skip, At
<1>3. CASE Simple
  <2>1. pc < Len(code) /\ Width(At(pc)) = 1 /\ Skip[pc] = 0
    BY <1>3, AtType, <1>0 DEF Simple, Width, FlowFollowsScan
  <2>2. pc' = pc + 1 /\ code' = code
    BY <1>0, <1>3 DEF Simple, Advance
  <2>3. pc + 1 <= Len(code) => Skip[pc + 1] = Skipped(pc + 1, Skip[pc])
    BY SkipFacts, <1>0, <2>1
  <2>4. pc' < Len(code) => Skip[pc'] = 0
    BY <1>0, <2>1, <2>2, <2>3 DEF Skipped, Code
  <2> QED
    BY <1>0, <1>2, <2>2, <2>4
<1>4. CASE PushData
  <2> DEFINE d == At(pc) - 95
  <2>1. pc < Len(code) /\ d \in Nat /\ Width(At(pc)) - 1 = d /\ Skip[pc] = 0
    <3>1. At(pc) \in 96..127 /\ At(pc) \in Push
      BY <1>4 DEF PushData, Push
    <3>2. pc < Len(code)
      <4>1. ASSUME pc >= Len(code) PROVE FALSE
        <5>1. At(pc) = 0
          BY <1>0, <4>1, AtType
        <5> QED
          BY <3>1, <5>1
      <4>2. Len(code) \in Nat
        BY <1>0, AtType
      <4> QED
        BY <1>0, <4>1, <4>2
    <3>3. Width(At(pc)) = At(pc) - 94
      BY <3>1 DEF Width
    <3>4. Skip[pc] = 0
      BY <1>0, <3>2 DEF FlowFollowsScan
    <3>5. d \in Nat /\ Width(At(pc)) - 1 = d
      <4> DEFINE op == At(pc)
      <4>1. op \in 96..127 /\ Width(op) = op - 94 /\ d = op - 95
        BY <3>1, <3>3
      <4> HIDE DEF op, d
      <4> QED
        BY <4>1 DEF op
    <3> QED
      BY <3>2, <3>4, <3>5
  <2>2. pc' = (pc + 1) + d /\ code' = code
    BY <1>0, <1>4, <2>1 DEF PushData, Advance
  <2>3. pc + 1 \in 0..Len(code) /\ pc + 1 \in 1..Len(code)
    BY <1>0, <2>1 DEF Code
  <2>4. Skip[pc + 1] = d
    BY SkipFacts, <1>0, <2>1, <2>3 DEF Skipped
  <2> HIDE DEF d
  <2>5. pc' < Len(code) => Skip[pc'] = 0
    BY CountsDown, <1>0, <2>1, <2>2, <2>3, <2>4 DEF Code
  <2> QED
    BY <1>0, <1>2, <2>1, <2>2, <2>5
<1>5. CASE WithImmediate
  <2>1. pc < Len(code) /\ Width(At(pc)) = 1 /\ Skip[pc] = 0
    <3>1. At(pc) \in {230, 231, 232}
      BY <1>5 DEF WithImmediate, Immediate, DUPN, SWAPN, EXCHANGE
    <3>2. pc < Len(code)
      <4>1. ASSUME pc >= Len(code) PROVE FALSE
        <5>1. At(pc) = 0
          BY <1>0, <4>1, AtType
        <5> QED
          BY <3>1, <5>1
      <4>2. Len(code) \in Nat
        BY <1>0, AtType
      <4> QED
        BY <1>0, <4>1, <4>2
    <3>3. Width(At(pc)) = 1
      BY <3>1 DEF Width, Push
    <3> QED
      BY <1>0, <3>2, <3>3 DEF FlowFollowsScan
  <2>2. At(pc + 1) \notin Push /\ Width(At(pc + 1)) = 1
    <3> DEFINE immediate == At(pc + 1)
    <3>1. immediate \in 0..255
      BY AtType, <1>0
    <3>2. immediate >= 128 \/ immediate <= 81 \/ immediate <= 90
      BY <1>5 DEF WithImmediate, ValidImmediate
    <3> HIDE DEF immediate
    <3>3. immediate \notin Push
      BY <3>1, <3>2 DEF Push
    <3> QED
      BY <3>3 DEF Width, immediate
  <2>3. pc' = pc + 2 /\ code' = code
    BY <1>0, <1>5 DEF WithImmediate, Advance
  <2>4. ASSUME pc' < Len(code) PROVE Skip[pc'] = 0
    <3>1. pc + 1 \in 1..Len(code) /\ pc + 2 \in 1..Len(code)
      BY <1>0, <2>3, <2>4 DEF Code
    <3>2. Skip[pc + 1] = 0
      BY SkipFacts, <1>0, <2>1, <3>1 DEF Skipped
    <3>3. Skip[pc + 2] = Skipped(pc + 2, Skip[pc + 1])
      BY SkipFacts, <1>0, <3>1
    <3>4. (pc + 2) - 1 = pc + 1
      BY <1>0
    <3> QED
      BY <2>2, <2>3, <3>2, <3>3, <3>4 DEF Skipped
  <2> QED
    BY <1>0, <1>2, <2>3, <2>4
<1>6. CASE \E target \in 0..Len(code) : Jump(target)
  BY <1>0, <1>2, <1>6 DEF Jump, Accepts, Code
<1> QED
  BY <1>1, <1>3, <1>4, <1>5, <1>6 DEF JNext, Step, Halting, Fail, jvars

\* No byte that the scan takes for data is ever executed, and none it takes
\* for an instruction is skipped over: the immediates of EIP-8024 that
\* execution accepts hide nothing from the scan
\* (full/opcode-common.bend:116-119, full/opcode-stack.bend:46-49).
THEOREM ExecutionFollowsScan == JSpec => []FlowFollowsScan
<1>1. FlowInv => FlowFollowsScan
  BY DEF FlowInv
<1> QED
  BY <1>1, FlowInit, FlowNext, PTL DEF JSpec
=============================================================================
