---------------------------- MODULE RuntimeProofs ----------------------------
(***************************************************************************)
(* What the run loop returns and how far the reservoir strays under it,    *)
(* for every machine, fuel, window and either of the two loops.            *)
(***************************************************************************)
EXTENDS Runtime, JournalProofs

\* The result is the outcome of a machine whose every step was the call
\* machine's.
RInv == SInv /\ ResultIsFinal

\* A loop that returns a terminal frame found the machine done: the frame is
\* the outermost, because a frame is as deep as the stack is high.
LEMMA ReturnStep ==
  ASSUME RInv, Return
  PROVE  RInv'
<1>1. frame \in FrameSet /\ DepthIsHeight
  BY RunningTyped DEF RInv, SInv
<1>2. WithAction(frame, "HostLimit").action.op = "HostLimit"
  BY <1>1 DEF WithAction, Plain, FrameSet
<1>3. ASSUME Returned.action.op \in Terminal
      PROVE  parents = <<>> /\ Returned.depth = 0 /\ InWindow(meter)
  <2>1. Done /\ InWindow(meter) /\ Returned = frame
    BY <1>2, <1>3 DEF Returned, Terminal, Successful
  <2>2. parents = <<>>
    BY <1>3, <2>1 DEF Done, Terminal, Successful
  <2>3. frame.depth = 0
    BY <1>1, <2>2 DEF DepthIsHeight
  <2> QED
    BY <2>1, <2>2, <2>3
<1>4. /\ UNCHANGED vars /\ result' = Returned /\ escrow' = escrow
  BY DEF Return, vars
<1>5. ResultIsFinal'
  BY <1>3, <1>4 DEF ResultIsFinal, InWindow, vars
<1>6. SInv'
  BY <1>4, NextStatic DEF RInv
<1> QED
  BY <1>5, <1>6 DEF RInv

\* Every step of the loop keeps the invariant: while there is no result the
\* machine may move, and afterwards nothing does.
LEMMA RunNextInv == RInv /\ [RunNext]_rvars => RInv'
<1> SUFFICES ASSUME RInv, [RunNext]_rvars PROVE RInv'
  OBVIOUS
<1>1. CASE Tick
  <2>1. Next /\ result' = NoResult
    BY <1>1 DEF Tick, Next
  <2> QED
    BY <2>1, NextStatic DEF RInv, ResultIsFinal
<1>2. CASE Return
  BY <1>2, ReturnStep
<1>3. CASE RunHalt \/ UNCHANGED rvars
  <2>1. UNCHANGED vars /\ UNCHANGED <<result, escrow>>
    BY <1>3 DEF RunHalt, rvars, vars
  <2> QED
    BY <2>1, NextStatic DEF RInv, ResultIsFinal, InWindow, vars
<1> QED
  BY <1>1, <1>2, <1>3 DEF RunNext

\* What the loop hands back as the end of the program is the end of its
\* outermost frame, in a machine within the window, wherever the fuel ran
\* out (full/runtime.bend:68-77).
THEOREM ResultIsTheOutermost == RunSpec => []ResultIsFinal
<1>1. RunInit => RInv
  BY InitStatic DEF RunInit, RInv, ResultIsFinal
<1>2. RInv => ResultIsFinal
  BY DEF RInv
<1> QED
  BY <1>1, <1>2, RunNextInv, PTL DEF RunSpec
----------------------------------------------------------------------------
(* The window of the reservoir.                                            *)

\* What the state in the journals costs, with the accounts that creations in
\* flight have paid for, is in reach.
InReach ==
  /\ StatePrice(Start, world) <= Drift
  /\ \A i \in DOMAIN parents : StatePrice(Start, parents[i].snapshot) + Due(parents[i]) <= Drift

WInv == GInv(Start) /\ entry = RootEntry

\* The reservoir that the frame above the j-th parent was entered with.
Entered(j) == IF j = 0 THEN RootEntry ELSE ChildMeter(j).entry

\* Each frame hands down what it was entered with, less the state gas it used
\* that it did not pay with execution gas.
LEMMA EnteredStep ==
  ASSUME IInv, NEW i \in 1..Len(parents)
  PROVE  /\ parents[i].meter \in MeterSet
         /\ Entered(i) = Entered(i - 1) - parents[i].meter.used + parents[i].meter.spilled
         /\ parents[i].meter.spilled = 0 \/ Entered(i) = 0
         /\ Entered(i) \in Nat
<1>1. /\ parents \in Seq(ParentSet) /\ DOMAIN parents = 1..Len(parents)
      /\ Len(parents) \in Nat /\ meter \in MeterSet
  BY RunningTyped
<1>2. \A h \in 1..Len(parents) : parents[h].meter \in MeterSet
  BY StackBooks
<1>3. Links(parents[i].meter, ChildMeter(i)) /\ Entered(i) = ChildMeter(i).entry
  BY <1>1 DEF IInv, MeterInv, Linked, Entered
<1>4. ChildMeter(i) \in MeterSet
  <2>1. PICK n \in Nat : n = Len(parents)
    BY <1>1
  <2>2. i = n \/ i + 1 \in 1..n
    BY <2>1
  <2> QED
    BY <1>1, <1>2, <2>1, <2>2 DEF ChildMeter
<1>5. Entered(i - 1) = parents[i].meter.entry
  <2>1. CASE i = 1
    BY <1>1, <2>1 DEF Entered, RootEntry
  <2>2. CASE i # 1
    BY <1>1, <2>2 DEF Entered, ChildMeter
  <2> QED
    BY <2>1, <2>2
<1>6. /\ parents[i].meter.used \in Int /\ parents[i].meter.spilled \in Nat
      /\ parents[i].meter.entry \in Nat /\ ChildMeter(i).entry \in Nat
  BY <1>2, <1>4 DEF MeterSet
<1> QED
  BY <1>2, <1>3, <1>5, <1>6 DEF Links, BaselineLink, SpillLink

\* Put together with what was booked on the way, it strays one way only: up,
\* by what execution gas paid for, which the state that is in reach bounds.
LEMMA EnteredNear ==
  ASSUME IsFiniteSet(Address), GInv(Start), InReach, NEW j \in 0..Len(parents)
  PROVE  /\ RootEntry \in Nat /\ Entered(j) \in Nat /\ Paid(j) \in Int
         /\ Entered(j) + Paid(j) \in RootEntry..(RootEntry + Drift)
<1> DEFINE Near(h) == /\ Entered(h) \in Nat /\ Paid(h) \in Int
                      /\ Entered(h) + Paid(h) \in RootEntry..(RootEntry + Drift)
           T == {h \in 0..Len(parents) : ~Near(h)}
<1>1. /\ IInv /\ parents \in Seq(ParentSet) /\ DOMAIN parents = 1..Len(parents)
      /\ Len(parents) \in Nat /\ meter \in MeterSet
  BY Counter, ProgramAssumption
<1>0. Drift \in Nat
  BY RuntimeAssumption
<1>2. PICK n \in Nat : n = Len(parents)
  BY <1>1
<1>3. RootEntry \in Nat
  <2>1. \A m \in MeterSet : m.entry \in Nat
    BY DEF MeterSet
  <2>2. CASE parents = <<>>
    BY <1>1, <2>1, <2>2 DEF RootEntry
  <2>3. CASE parents # <<>>
    <3>1. 1 \in 1..Len(parents)
      BY <1>1, <2>3
    <3>2. parents[1].meter \in MeterSet
      BY <1>1, <3>1, StackBooks
    <3> QED
      BY <2>1, <2>3, <3>2 DEF RootEntry
  <2> QED
    BY <2>2, <2>3
<1>4. Near(0)
  <2>1. Paid(0) = 0
    BY NothingPaid
  <2> QED
    BY <1>0, <1>3, <2>1 DEF Entered
<1>5. ASSUME NEW h \in 1..n, Near(h - 1)
      PROVE  Near(h)
  <2> DEFINE used == parents[h].meter.used
             spilled == parents[h].meter.spilled
  <2>1. /\ Entered(h) = Entered(h - 1) - used + spilled
        /\ spilled = 0 \/ Entered(h) = 0
        /\ Entered(h) \in Nat /\ parents[h].meter \in MeterSet
    BY <1>1, <1>2, EnteredStep
  <2>2. used \in Int /\ spilled \in Nat
    BY <2>1 DEF MeterSet
  <2>3. Paid(h) \in Int /\ Paid(h) = Paid(h - 1) + used
    <3>1. \A i \in 1..n : parents[i].meter.used \in Int
      BY <1>1, <1>2, StackBooks
    <3>2. h \in 0..n /\ h # 0
      BY <1>2
    <3> QED
      BY <1>2, <3>1, <3>2, BookedSums DEF Paid, used
  <2>4. Paid(h) <= Drift
    BY <1>1, <1>2 DEF InReach, GInv, GasBooks
  <2> DEFINE e == Entered(h - 1)
             p == Paid(h - 1)
             root == RootEntry
  <2>5. e \in Nat /\ p \in Int /\ e + p \in root..(root + Drift) /\ root \in Nat
    BY <1>3, <1>5
  <2> HIDE DEF used, spilled, e, p, root
  <2>6. Entered(h) = e - used + spilled /\ Paid(h) = p + used
    BY <2>1, <2>3 DEF e, p
  <2>7. Entered(h) + Paid(h) \in root..(root + Drift)
    BY SMTT(30), <1>0, <2>1, <2>2, <2>3, <2>4, <2>5, <2>6
  <2> QED
    BY <2>1, <2>3, <2>7 DEF root
<1>6. T = {}
  <2> SUFFICES ASSUME T # {} PROVE FALSE
    OBVIOUS
  <2>1. PICK m \in T : \A k \in T : m <= k
    <3>1. T \subseteq Nat
      OBVIOUS
    <3> HIDE DEF T
    <3> QED
      BY <3>1, LeastNumber
  <2>2. m \in 1..n
    BY <1>2, <1>4, <2>1
  <2>3. m - 1 \in 0..n /\ m - 1 \notin T
    BY <1>2, <2>1, <2>2
  <2>4. Near(m - 1)
    BY <1>2, <2>3
  <2> QED
    BY <1>5, <2>1, <2>2, <2>4
<1>7. Near(j)
  BY <1>6
<1> QED
  BY <1>3, <1>7

\* The reservoir and what was booked add up to what the running frame was
\* entered with, and that to what the outermost one was.
LEMMA ReservoirNear ==
  ASSUME IsFiniteSet(Address), WInv, InReach
  PROVE  WindowKept
<1>1. PICK n \in Nat : n = Len(parents)
  BY Counter DEF WInv
<1>2. /\ RootEntry \in Nat /\ Entered(n) \in Nat /\ Paid(n) \in Int
      /\ Entered(n) + Paid(n) \in RootEntry..(RootEntry + Drift)
  BY <1>1, EnteredNear DEF WInv
<1>3. meter.entry = Entered(n)
  <2>1. CASE n = 0
    <3>1. parents \in Seq(ParentSet) /\ Len(parents) = 0
      BY <1>1, <2>1, Counter, ProgramAssumption DEF WInv
    <3>2. parents = <<>>
      BY <3>1
    <3> QED
      BY <2>1, <3>2 DEF Entered, RootEntry
  <2>2. CASE n # 0
    BY <1>1, <2>2 DEF Entered, ChildMeter
  <2> QED
    BY <2>1, <2>2
<1>4. /\ meter.reservoir + meter.used - meter.spilled = meter.entry
      /\ meter.spilled = 0 \/ meter.reservoir = 0
      /\ meter.reservoir \in Nat /\ meter.used \in Int /\ meter.spilled \in Nat
  BY Counter, RunningTyped, ProgramAssumption DEF WInv, Sound, Baseline, SpillsLast, MeterSet
<1>5. meter.used + Paid(n) \in 0..Drift
  BY <1>1, PriceNat, Counter, RuntimeAssumption, ProgramAssumption DEF WInv, InReach
<1>6. Drift \in Nat /\ entry = RootEntry
  BY RuntimeAssumption DEF WInv
<1> QED
  BY <1>2, <1>3, <1>4, <1>5, <1>6 DEF WindowKept

\* Every step of the loop keeps what that rests on.
LEMMA RunNextWindow ==
  ASSUME IsFiniteSet(Address), TidyStart, WInv, [RunNext]_rvars
  PROVE  WInv'
<1>1. [Next]_vars /\ entry' = entry
  BY DEF RunNext, Tick, Return, RunHalt, rvars, vars, Next
<1>2. IInv
  BY Counter, ProgramAssumption DEF WInv
<1>3. GInv(Start)'
  BY <1>1, NextGas, ProgramAssumption DEF WInv
<1>4. RootEntry' = RootEntry
  BY <1>1, <1>2, NextForward DEF Forward
<1> QED
  BY <1>1, <1>3, <1>4 DEF WInv

\* As long as the state in the journals is within reach, the reservoir is
\* within as much of where it was entered, however often frames charge, lend,
\* refill and roll back state gas (transaction-wide.bend:139-144).
THEOREM WindowIsNotLeft ==
  ASSUME IsFiniteSet(Address), TidyStart, FreshJournal
  PROVE  RunSpec => [](InReach => WindowKept)
<1>1. RunInit => WInv
  <2> SUFFICES ASSUME RunInit PROVE WInv
    OBVIOUS
  <2>1. GInv(Start)
    BY InitGasBooks DEF RunInit
  <2>2. entry = RootEntry
    BY DEF RunInit, Init, FreshMeter, RootEntry
  <2> QED
    BY <2>1, <2>2 DEF WInv
<1>2. WInv => (InReach => WindowKept)
  BY ReservoirNear
<1> QED
  BY <1>1, <1>2, RunNextWindow, PTL DEF RunSpec
----------------------------------------------------------------------------
(* The fuel.  Every transition pays for itself out of a store: four times  *)
(* what the purses of the live frames hold (gas, reservoir and state gas   *)
(* used), what the running frame's action may do without paying, and three *)
(* for every frame that waits.  Refills and rollbacks only move gas within *)
(* a purse; and the state gas used is the price of the state, so it is     *)
(* never negative and the purses hold all there is to spend.               *)

Purse(m) == m.gas + m.reservoir + m.used

\* The reservoir of a suspended frame is its child's.
Held(m) == m.gas + m.used

Stored(stack) == Total([i \in 1..Len(stack) |-> Held(stack[i].meter)], Len(stack))

\* How many transitions an action can start before gas is paid again: a call
\* enters a frame that may ask, fault and return.
Rank(op) ==
  CASE op = "Call" -> 6
    [] op = "Running" -> 2
    [] op \in {"Create", "SelfDestruct", "Precompile"} -> 1
    [] OTHER -> 0

Effort(f, m) == 4 * Purse(m) + Rank(f.action.op)

\* Who waits will run.
Resuming == \A i \in 1..Len(parents) : parents[i].frame.action.op = "Running"

Fueled == /\ fuel \in Int
          /\ Effort(frame, meter) + 4 * Stored(parents) + 3 * Len(parents) <= fuel

\* A frame with an action has that action.
LEMMA ActionIs ==
  ASSUME NEW f \in FrameSet, NEW op, NEW output
  PROVE  /\ WithAction(f, op).action.op = op
         /\ [WithAction(f, op) EXCEPT !.output = output].action.op = op
<1>1. WithAction(f, op).action = [op |-> op]
  BY DEF WithAction, Plain, FrameSet
<1>2. [WithAction(f, op) EXCEPT !.output = output].action = [op |-> op]
  BY DEF WithAction, Plain, FrameSet
<1> QED
  BY <1>1, <1>2

\* Ranks are small numbers.
LEMMA Ranks ==
  /\ \A op : Rank(op) \in 0..6
  /\ Rank("Call") = 6 /\ Rank("Running") = 2
  /\ Rank("Create") = 1 /\ Rank("SelfDestruct") = 1 /\ Rank("Precompile") = 1
  /\ \A op \in Terminal \cup {"HostLimit"} : Rank(op) = 0
<1>1. \A op : Rank(op) \in 0..6
  BY DEF Rank
<1>2. /\ Rank("Call") = 6 /\ Rank("Running") = 2
      /\ Rank("Create") = 1 /\ Rank("SelfDestruct") = 1 /\ Rank("Precompile") = 1
  BY DEF Rank
<1>3. \A op \in Terminal \cup {"HostLimit"} : Rank(op) = 0
  BY DEF Rank, Terminal, Successful
<1> QED
  BY <1>1, <1>2, <1>3

----------------------------------------------------------------------------
(* What operations on a meter do to its worth.                             *)

\* The worth of a sound meter is its gas, its spill and its first reservoir.
LEMMA SoundPurse ==
  ASSUME NEW m, Sound(m)
  PROVE  /\ Purse(m) = m.gas + m.spilled + m.entry /\ Purse(m) \in Nat
         /\ m.gas \in Nat /\ m.spilled \in Nat /\ m.entry \in Nat
  BY DEF Sound, MeterSet, Baseline, Purse

\* gas.bend:16-24.
LEMMA ChargePurse ==
  ASSUME NEW m, Sound(m), NEW cost \in Nat, CanCharge(m, cost)
  PROVE  Sound(Charge(m, cost)) /\ Purse(Charge(m, cost)) = Purse(m) - cost
<1> DEFINE n == Charge(m, cost)
<1>1. /\ Sound(n) /\ SameHistory(m, n) /\ n.gas + cost = m.gas /\ n.spilled = m.spilled
  BY ChargeSound
<1> HIDE DEF n
<1>2. Purse(n) = Purse(m) - cost
  BY <1>1, SoundPurse DEF SameHistory
<1> QED
  BY <1>1, <1>2 DEF n

\* What keeps gas and spill together keeps the worth.
LEMMA SamePurse ==
  ASSUME NEW m, Sound(m), NEW n, Sound(n), SameHistory(m, n),
         n.gas + n.spilled = m.gas + m.spilled
  PROVE  Purse(n) = Purse(m)
  BY SoundPurse DEF SameHistory

\* gas.bend:36-62.  State gas and refills move gas and keep its sum.
LEMMA StatePurse ==
  ASSUME NEW m, Sound(m), NEW cost \in Nat
  PROVE  /\ CanSpendState(m, cost) => Purse(SpendState(m, cost)) = Purse(m)
         /\ Purse(Refill(m, cost)) = Purse(m)
<1>1. CanSpendState(m, cost) => Purse(SpendState(m, cost)) = Purse(m)
  BY SpendStateSound, SamePurse
<1>2. Purse(Refill(m, cost)) = Purse(m)
  BY RefillSound, SamePurse
<1> QED
  BY <1>1, <1>2

\* call-common.bend:70-78.
LEMMA BirthPurse ==
  ASSUME NEW m, Sound(m), SpillsLast(m), NEW applies \in BOOLEAN
  PROVE  /\ CanSpendBirth(m, applies) => Purse(SpendBirth(m, applies)) = Purse(m)
         /\ Purse(RefillBirth(m, applies)) = Purse(m)
<1>1. CanSpendBirth(m, applies) => Purse(SpendBirth(m, applies)) = Purse(m)
  BY BirthSound, SamePurse
<1>2. Purse(RefillBirth(m, applies)) = Purse(m)
  BY BirthSound, SamePurse
<1> QED
  BY <1>1, <1>2

\* model.bend:658.
LEMMA ExhaustPurse ==
  ASSUME NEW m, Sound(m)
  PROVE  Purse(Exhaust(m)) <= Purse(m)
<1> DEFINE n == Exhaust(m)
<1>1. Sound(n) /\ n.gas = 0 /\ n.reservoir = m.reservoir /\ n.used = m.used
  BY ExhaustSound DEF Exhaust, Sound, MeterSet
<1> HIDE DEF n
<1>2. Purse(n) <= Purse(m)
  BY <1>1 DEF Purse, Sound, MeterSet
<1> QED
  BY <1>2 DEF n

\* gas.bend:80-100.  A settled frame is worth no more than it was.
LEMMA SettlePurse ==
  ASSUME NEW m, Sound(m), NEW succeeded \in BOOLEAN, NEW reverted \in BOOLEAN
  PROVE  Purse(Settle(m, succeeded, reverted)) <= Purse(m)
<1> DEFINE back == Rollback(m)
<1>1. /\ Sound(back) /\ SameHistory(m, back) /\ back.gas = m.gas + m.spilled
      /\ back.spilled = 0
  BY RollbackSound
<1>2. Settle(m, succeeded, reverted) \in {m, back, Exhaust(back)}
  BY DEF Settle
<1> HIDE DEF back
<1>3. back.gas + back.spilled = m.gas + m.spilled
  BY <1>1, SoundPurse
<1>4. Purse(back) = Purse(m) /\ Purse(m) \in Nat
  BY <1>1, <1>3, SamePurse, SoundPurse
<1>5. Purse(Exhaust(back)) <= Purse(back)
  BY <1>1, ExhaustPurse
<1> QED
  BY <1>2, <1>4, <1>5

\* call-finish.bend:36-42.  A parent gets what its child is worth.
LEMMA MergedPurse ==
  ASSUME NEW parent \in MeterSet, NEW child, Sound(child),
         NEW succeeded \in BOOLEAN,
         ~succeeded => child.used = 0 /\ child.spilled = 0,
         BaselineLink(parent, child), GrantLink(parent, child)
  PROVE  Purse(Merged(parent, child, succeeded)) = Held(parent) + Purse(child)
<1> DEFINE merged == Merged(parent, child, succeeded)
<1>1. /\ Sound(merged) /\ SameHistory(parent, merged)
      /\ merged.gas + merged.spilled
           = parent.gas + parent.spilled + child.gas + child.spilled
  BY MergedSound
<1> HIDE DEF merged
<1>2. /\ parent.gas \in Nat /\ parent.spilled \in Nat /\ parent.used \in Int
      /\ parent.entry \in Nat
  BY DEF MeterSet
<1>3. Purse(merged) = Held(parent) + Purse(child)
  BY <1>1, <1>2, SoundPurse DEF SameHistory, BaselineLink, Held
<1> QED
  BY <1>3 DEF merged

----------------------------------------------------------------------------
(* What the suspended frames hold.                                         *)

\* One frame more on a stack adds what it holds.
LEMMA StoredMore ==
  ASSUME NEW short \in Seq(ParentSet), NEW long \in Seq(ParentSet),
         Len(long) = Len(short) + 1,
         \A i \in 1..Len(short) : long[i] = short[i]
  PROVE  /\ Stored(short) \in Int
         /\ Stored(long) = Stored(short) + Held(long[Len(long)].meter)
         /\ Held(long[Len(long)].meter) \in Int
<1> DEFINE m == Len(short)
           n == Len(long)
           f == [i \in 1..n |-> Held(long[i].meter)]
           g == [i \in 1..m |-> Held(short[i].meter)]
<1>1. m \in Nat /\ n \in Nat /\ n = m + 1 /\ n # 0 /\ n - 1 = m
  OBVIOUS
<1>2. \A i \in 1..n : long[i] \in ParentSet
  OBVIOUS
<1>3. \A p \in ParentSet : Held(p.meter) \in Int
  BY DEF ParentSet, MeterSet, Held
<1>4. /\ \A i \in 1..n : f[i] = Held(long[i].meter) /\ f[i] \in Int
      /\ \A i \in 1..m : g[i] = Held(short[i].meter) /\ i \in 1..n
  BY <1>1, <1>2, <1>3
<1>5. \A i \in 1..m : f[i] = g[i]
  BY <1>4
<1>6. Stored(long) = Total(f, n) /\ Stored(short) = Total(g, m)
  BY DEF Stored
<1> HIDE DEF f, g
<1>7. Total(f, m) = Total(g, m)
  BY <1>5 DEF Total
<1>8. m \in 0..n /\ n \in 0..n /\ n \in 1..n
  BY <1>1
<1> HIDE DEF m, n
<1>9. Total(f, m) \in Int
  BY <1>1, <1>4, <1>8, TotalSums
<1>10. Total(f, n) = Total(f, n - 1) + f[n]
  BY <1>1, <1>4, <1>8, TotalSums
<1>11. Stored(long) = Stored(short) + Held(long[n].meter) /\ Held(long[n].meter) \in Int
  BY <1>1, <1>4, <1>6, <1>7, <1>8, <1>10
<1> QED
  BY <1>6, <1>7, <1>9, <1>11 DEF n

\* They hold at least what they have booked.
LEMMA StoredCovers ==
  ASSUME IInv
  PROVE  /\ Stored(parents) \in Int /\ Paid(Len(parents)) \in Int
         /\ Paid(Len(parents)) <= Stored(parents)
<1> DEFINE n == Len(parents)
           S == 1..n
           f == [i \in S |-> parents[i].meter.used]
           g == [i \in S |-> Held(parents[i].meter)]
<1>1. n \in Nat /\ IsFiniteSet(S)
  <2>1. n \in Nat /\ n \in Int /\ 1 \in Int
    BY StackBooks
  <2> HIDE DEF n
  <2> QED
    BY <2>1, FS_Interval
<1>2. \A i \in S : parents[i].meter \in MeterSet
  BY StackBooks
<1>3. \A m \in MeterSet : m.used \in Int /\ Held(m) \in Int /\ m.used <= Held(m)
  BY DEF MeterSet, Held
<1>4. /\ f \in [S -> Int] /\ g \in [S -> Int] /\ \A i \in S : f[i] <= g[i]
  BY <1>2, <1>3
<1>5. Paid(n) = SumFunction(f)
  BY DEF Paid, Booked
<1>6. Stored(parents) = SumFunction(g)
  <2>1. [i \in 1..n |-> g[i]] = g
    OBVIOUS
  <2> QED
    BY <2>1 DEF Stored, Total
<1> HIDE DEF f, g, S
<1>7. SumFunction(f) \in Int /\ SumFunction(g) \in Int /\ SumFunction(f) <= SumFunction(g)
  BY <1>1, <1>4, SumOfLarger
<1> QED
  BY <1>5, <1>6, <1>7

----------------------------------------------------------------------------
(* The three shapes of a step.                                             *)

\* What is left of the fuel covers what is left to do.
LEMMA Balance ==
  ASSUME NEW e \in Int, NEW s \in Int, NEW n \in Int, NEW f \in Int,
         e + 4 * s + 3 * n <= f, NEW g \in Int, NEW h \in Int
  PROVE  /\ g + 1 <= e => g + 4 * s + 3 * n <= f - 1
         /\ g + 4 * h + 4 <= e => g + 4 * (s + h) + 3 * (n + 1) <= f - 1
         /\ g <= e + 4 * h + 2 => g + 4 * (s - h) + 3 * (n - 1) <= f - 1
  OBVIOUS

\* A step of the running frame that costs its effort something.
LEMMA QuietFuel ==
  ASSUME IInv, Resuming, Fueled, parents' = parents,
         Effort(frame', meter') \in Int, Effort(frame, meter) \in Int,
         Effort(frame', meter') + 1 <= Effort(frame, meter),
         fuel' = fuel - 1
  PROVE  Resuming' /\ Fueled'
<1>1. Stored(parents) \in Int /\ Len(parents) \in Nat
  BY StoredCovers, StackBooks
<1>2. Effort(frame', meter') + 4 * Stored(parents) + 3 * Len(parents) <= fuel'
  <2>1. fuel \in Int /\ Effort(frame, meter) + 4 * Stored(parents) + 3 * Len(parents) <= fuel
    BY DEF Fueled
  <2> QED
    BY <1>1, <2>1, Balance
<1>3. fuel' \in Int
  BY DEF Fueled
<1> QED
  BY <1>2, <1>3 DEF Resuming, Fueled, Effort, Purse, Rank

\* One that suspends it pays for what it keeps and for its return.
LEMMA PushFuel ==
  ASSUME IInv, Resuming, Fueled, NEW parent \in ParentSet, parents' = Append(parents, parent),
         parent.frame.action.op = "Running",
         Effort(frame', meter') \in Int, Effort(frame, meter) \in Int,
         Effort(frame', meter') + 4 * Held(parent.meter) + 4 <= Effort(frame, meter),
         fuel' = fuel - 1
  PROVE  Resuming' /\ Fueled'
<1> DEFINE n == Len(parents)
<1>1. parents \in Seq(ParentSet) /\ n \in Nat
  BY StackBooks
<1>2. /\ parents' \in Seq(ParentSet) /\ Len(parents') = n + 1 /\ parents'[n + 1] = parent
      /\ \A i \in 1..n : parents'[i] = parents[i]
  BY <1>1
<1>3. /\ Stored(parents) \in Int /\ Held(parent.meter) \in Int
      /\ Stored(parents') = Stored(parents) + Held(parent.meter)
  <2> DEFINE long == parents'
  <2>1. /\ long \in Seq(ParentSet) /\ Len(long) = Len(parents) + 1
        /\ \A i \in 1..Len(parents) : long[i] = parents[i]
        /\ long[Len(long)] = parent
    BY <1>2
  <2> HIDE DEF long
  <2>2. /\ Stored(parents) \in Int /\ Held(long[Len(long)].meter) \in Int
        /\ Stored(long) = Stored(parents) + Held(long[Len(long)].meter)
    BY <1>1, <2>1, StoredMore
  <2> QED
    BY <2>1, <2>2 DEF long
<1>4. Effort(frame', meter') + 4 * Stored(parents') + 3 * Len(parents') <= fuel'
  <2>1. fuel \in Int /\ Effort(frame, meter) + 4 * Stored(parents) + 3 * Len(parents) <= fuel
    BY DEF Fueled
  <2>2. Len(parents') = n + 1 /\ Stored(parents') = Stored(parents) + Held(parent.meter)
    BY <1>2, <1>3
  <2> DEFINE e == Effort(frame, meter)
             g == Effort(frame', meter')
             s == Stored(parents)
             h == Held(parent.meter)
  <2>3. /\ e \in Int /\ g \in Int /\ s \in Int /\ h \in Int /\ n \in Int
        /\ e + 4 * s + 3 * n <= fuel /\ g + 4 * h + 4 <= e
    BY <1>1, <1>3, <2>1, <2>2
  <2> HIDE DEF e, g, s, h, n
  <2>4. g + 4 * (s + h) + 3 * (n + 1) <= fuel - 1
    BY <2>1, <2>3, Balance
  <2> QED
    BY <2>2, <2>4 DEF e, g, s, h, n
<1>5. \A i \in 1..Len(parents') : parents'[i].frame.action.op = "Running"
  <2>1. \A i \in 1..Len(parents') : i \in 1..n \/ i = n + 1
    BY <1>1, <1>2
  <2> QED
    BY <1>2, <2>1 DEF Resuming
<1>6. fuel' \in Int
  BY DEF Fueled
<1>7. Fueled'
  BY <1>4, <1>6 DEF Fueled, Stored, Total, Held, Effort, Purse, Rank
<1> QED
  BY <1>5, <1>7 DEF Resuming

\* One that resumes a parent has what that held.
LEMMA PopFuel ==
  ASSUME IInv, Resuming, Fueled, parents # <<>>, parents' = Front(parents),
         Effort(frame', meter') \in Int, Effort(frame, meter) \in Int,
         Effort(frame', meter') <= Effort(frame, meter) + 4 * Held(Waiting.meter) + 2,
         fuel' = fuel - 1
  PROVE  Resuming' /\ Fueled'
<1> DEFINE n == Len(parents)
<1>1. parents \in Seq(ParentSet) /\ n \in Nat \ {0}
  <2>1. parents \in Seq(ParentSet)
    BY StackBooks
  <2> QED
    BY <2>1
<1>2. /\ parents' \in Seq(ParentSet) /\ Len(parents') = n - 1
      /\ \A i \in 1..n - 1 : parents'[i] = parents[i]
  BY <1>1, FrontProperties
<1>3. /\ Stored(parents') \in Int /\ Held(Waiting.meter) \in Int
      /\ Stored(parents) = Stored(parents') + Held(Waiting.meter)
  <2> DEFINE short == parents'
  <2>1. /\ short \in Seq(ParentSet) /\ Len(parents) = Len(short) + 1
        /\ \A i \in 1..Len(short) : parents[i] = short[i]
        /\ parents[Len(parents)] = Waiting
    BY <1>1, <1>2 DEF Waiting, Last
  <2> HIDE DEF short
  <2>2. /\ Stored(short) \in Int /\ Held(parents[Len(parents)].meter) \in Int
        /\ Stored(parents) = Stored(short) + Held(parents[Len(parents)].meter)
    BY <1>1, <2>1, StoredMore
  <2> QED
    BY <2>1, <2>2 DEF short
<1>4. Effort(frame', meter') + 4 * Stored(parents') + 3 * Len(parents') <= fuel'
  <2>1. fuel \in Int /\ Effort(frame, meter) + 4 * Stored(parents) + 3 * Len(parents) <= fuel
    BY DEF Fueled
  <2>2. Len(parents') = n - 1 /\ Stored(parents') = Stored(parents) - Held(Waiting.meter)
    BY <1>2, <1>3
  <2> DEFINE e == Effort(frame, meter)
             g == Effort(frame', meter')
             s == Stored(parents)
             h == Held(Waiting.meter)
  <2>3. /\ e \in Int /\ g \in Int /\ s \in Int /\ h \in Int /\ n \in Int
        /\ e + 4 * s + 3 * n <= fuel /\ g <= e + 4 * h + 2
    BY <1>1, <1>3, <2>1, <2>2
  <2> HIDE DEF e, g, s, h, n
  <2>4. g + 4 * (s - h) + 3 * (n - 1) <= fuel - 1
    BY <2>1, <2>3, Balance
  <2> QED
    BY <2>2, <2>4 DEF e, g, s, h, n
<1>5. \A i \in 1..Len(parents') : parents'[i].frame.action.op = "Running"
  <2>1. \A i \in 1..Len(parents') : i \in 1..n /\ i \in 1..n - 1
    BY <1>1, <1>2
  <2> QED
    BY <1>2, <2>1 DEF Resuming
<1>6. fuel' \in Int
  BY DEF Fueled
<1>7. Fueled'
  BY <1>4, <1>6 DEF Fueled, Stored, Total, Held, Effort, Purse, Rank
<1> QED
  BY <1>5, <1>7 DEF Resuming

----------------------------------------------------------------------------
(* Steps that suspend and resume nobody.                                   *)

\* A frame g with meter n has less to do than the running one.
Cheaper(g, n) ==
  /\ Effort(frame, meter) \in Int /\ Effort(g, n) \in Int
  /\ Effort(g, n) + 1 <= Effort(frame, meter)

\* It does if its action can do less, or if enough was paid for what more it
\* can do.
LEMMA Cheap ==
  ASSUME IInv, NEW g, NEW n, NEW cost \in Nat,
         Purse(n) \in Int, Purse(n) <= Purse(meter) - cost,
         \/ Rank(g.action.op) < Rank(frame.action.op)
         \/ cost >= 1 /\ Rank(g.action.op) <= Rank(frame.action.op) + 3
         \/ cost >= 2 /\ Rank(g.action.op) <= Rank(frame.action.op) + 7
  PROVE  Cheaper(g, n)
<1>1. Purse(meter) \in Int
  BY RunningTyped, SoundPurse
<1>2. Rank(g.action.op) \in Int /\ Rank(frame.action.op) \in Int
  BY Ranks
<1> QED
  BY <1>1, <1>2 DEF Cheaper, Effort

\* A fault asks for nothing more.
LEMMA FaultCheap ==
  ASSUME IInv, Fault, Rank(frame.action.op) >= 1
  PROVE  Cheaper(frame', meter')
<1>1. frame'.action.op = "Fault" /\ meter' = Exhaust(meter)
  BY RunningTyped, ActionIs DEF Fault, FaultFrame
<1>2. Rank(frame'.action.op) = 0
  BY <1>1, Ranks DEF Terminal
<1>3. Purse(meter') \in Int /\ Purse(meter') <= Purse(meter) - 0 /\ 0 \in Nat
  BY <1>1, RunningTyped, ExhaustPurse, ExhaustSound, SoundPurse
<1>4. Rank(frame'.action.op) < Rank(frame.action.op)
  BY <1>2, Ranks
<1> QED
  BY <1>3, <1>4, Cheap

\* A charge pays for what more can be done.
LEMMA ChargeCheap ==
  ASSUME IInv, NEW cost \in Nat, CanCharge(meter, cost), meter' = Charge(meter, cost),
         \/ Rank(frame'.action.op) < Rank(frame.action.op)
         \/ cost >= 1 /\ Rank(frame'.action.op) <= Rank(frame.action.op) + 3
         \/ cost >= 2 /\ Rank(frame'.action.op) <= Rank(frame.action.op) + 7
  PROVE  Cheaper(frame', meter')
<1>1. Purse(meter') \in Int /\ Purse(meter') <= Purse(meter) - cost
  BY RunningTyped, ChargePurse, SoundPurse
<1> QED
  BY <1>1, Cheap

\* Every access has a price.
LEMMA AccessPrice ==
  ASSUME Metered
  PROVE  /\ \A account : AccountAccess(account) \in Nat /\ AccountAccess(account) >= 2
         /\ \A account, k : SlotAccess(account, k) \in Nat /\ SlotAccess(account, k) >= 1
<1>1. /\ WarmAccess >= 2 /\ ColdAccount >= 2 /\ ColdSlot >= 1
      /\ WarmAccess \in Nat /\ ColdAccount \in Nat /\ ColdSlot \in Nat
  BY PricesNat, ScheduleAssumption DEF Metered
<1> QED
  BY <1>1 DEF AccountAccess, SlotAccess

\* state-ops.bend:113-134.  So has every write.
LEMMA SstoreCheap ==
  ASSUME IInv, Metered, NEW k \in Key, NEW value \in Value, Sstore(k, value)
  PROVE  Cheaper(frame', meter') /\ parents' = parents
<1> DEFINE original == Self.original[k]
           current == Self.storage[k]
           price == SlotAccess(Self, k)
                    + (IF original = current /\ current # value THEN SlotWrite ELSE 0)
           paid == Charge(meter, price)
<1>1. price \in Nat /\ price >= 1
  BY AccessPrice, PricesNat
<1>2. /\ CanCharge(meter, price) /\ frame' = frame /\ parents' = parents
      /\ \/ meter' = paid
         \/ meter' = SpendState(paid, SlotState) /\ CanSpendState(paid, SlotState)
         \/ meter' = Refill(paid, SlotState)
  BY DEF Sstore
<1> HIDE DEF price
<1>3. Sound(paid) /\ Purse(paid) = Purse(meter) - price
  BY <1>1, <1>2, RunningTyped, ChargePurse
<1> HIDE DEF paid
<1>4. Purse(meter') = Purse(paid)
  BY <1>2, <1>3, StatePurse, PricesNat
<1>5. Purse(paid) \in Int /\ Purse(meter') \in Int /\ Purse(meter') <= Purse(meter) - price
  BY <1>3, <1>4, RunningTyped, SoundPurse
<1>6. Rank(frame'.action.op) <= Rank(frame.action.op) + 3
  BY <1>2, Ranks
<1>7. Cheaper(frame', meter')
  BY <1>1, <1>5, <1>6, Cheap
<1> QED
  BY <1>2, <1>7

\* vm.bend:46-48.  Every instruction ends its frame, asks for what does not
\* call, or pays.
LEMMA ExecuteCheap ==
  ASSUME IInv, Metered, Execute
  PROVE  Cheaper(frame', meter') /\ parents' = parents
<1>1. Rank("Running") = 2 /\ Rank("Create") = 1 /\ Rank("SelfDestruct") = 1 /\ Rank("Call") = 6
  BY Ranks
<1>2. frame \in FrameSet
  BY RunningTyped
<1>3. ASSUME Running PROVE Rank(frame.action.op) = 2
  BY <1>1, <1>3 DEF Running
<1>4. \A action : [frame EXCEPT !.action = action].action = action
  BY <1>2 DEF FrameSet
<1>5. CASE Throw
  <2>1. Running /\ Fault /\ parents' = parents
    BY <1>5 DEF Throw
  <2>2. Rank(frame.action.op) >= 1 /\ Fault
    BY <1>3, <2>1
  <2>3. Cheaper(frame', meter')
    BY <2>2, FaultCheap
  <2> QED
    BY <2>1, <2>3
<1>6. CASE Stop
  <2>1. /\ Running /\ meter' = meter /\ parents' = parents
        /\ frame' = [WithAction(frame, "Stopped") EXCEPT !.output = NoCode]
    BY <1>6 DEF Stop
  <2>2. Rank(frame'.action.op) = 0
    BY <1>2, <2>1, ActionIs, Ranks DEF Terminal, Successful
  <2>3. Purse(meter') \in Int /\ Purse(meter') <= Purse(meter) - 0
    BY <2>1, RunningTyped, SoundPurse
  <2>4. Rank(frame'.action.op) < Rank(frame.action.op) /\ 0 \in Nat
    BY <1>3, <2>1, <2>2
  <2>5. Cheaper(frame', meter')
    BY <2>3, <2>4, Cheap
  <2> QED
    BY <2>1, <2>5
<1>7. CASE \E cost \in ComputeCost : Compute(cost)
  <2>1. PICK cost \in ComputeCost : Compute(cost)
    BY <1>7
  <2>2. cost \in Nat /\ cost >= 1
    BY InputsNat DEF Metered
  <2>3. /\ CanCharge(meter, cost) /\ meter' = Charge(meter, cost) /\ frame' = frame
        /\ parents' = parents
    BY <2>1 DEF Compute
  <2>4. Rank(frame'.action.op) <= Rank(frame.action.op) + 3
    BY <2>3, Ranks
  <2> QED
    BY <2>2, <2>3, <2>4, ChargeCheap
<1>8. CASE \E op \in {"Returned", "Reverted"}, output \in Output, cost \in MemoryCost :
             Exit(op, output, cost)
  <2>1. PICK op \in {"Returned", "Reverted"}, output \in Output, cost \in MemoryCost :
          Exit(op, output, cost)
    BY <1>8
  <2>2. /\ Running /\ CanCharge(meter, cost) /\ meter' = Charge(meter, cost)
        /\ parents' = parents /\ cost \in Nat
        /\ frame' = [WithAction(frame, op) EXCEPT !.output = output]
    BY <2>1, InputsNat DEF Exit, Executing
  <2>3. Rank(frame'.action.op) = 0
    BY <1>2, <2>1, <2>2, ActionIs, Ranks DEF Terminal, Successful
  <2> QED
    BY <1>3, <2>2, <2>3, ChargeCheap
<1>9. CASE \E a \in Address, cost \in MemoryCost : Touch(a, cost)
  <2>1. PICK a \in Address, cost \in MemoryCost : Touch(a, cost)
    BY <1>9
  <2> DEFINE price == AccountAccess(world.accounts[a]) + cost
  <2>2. price \in Nat /\ price >= 1
    BY AccessPrice, InputsNat
  <2>3. /\ CanCharge(meter, price) /\ meter' = Charge(meter, price) /\ frame' = frame
        /\ parents' = parents
    BY <2>1 DEF Touch
  <2>4. Rank(frame'.action.op) <= Rank(frame.action.op) + 3
    BY <2>3, Ranks
  <2> HIDE DEF price
  <2> QED
    BY <2>2, <2>3, <2>4, ChargeCheap
<1>10. CASE \E k \in Key : Sload(k)
  <2>1. PICK k \in Key : Sload(k)
    BY <1>10
  <2> DEFINE price == SlotAccess(Self, k)
  <2>2. price \in Nat /\ price >= 1
    BY AccessPrice
  <2>3. /\ CanCharge(meter, price) /\ meter' = Charge(meter, price) /\ frame' = frame
        /\ parents' = parents
    BY <2>1 DEF Sload
  <2>4. Rank(frame'.action.op) <= Rank(frame.action.op) + 3
    BY <2>3, Ranks
  <2> HIDE DEF price
  <2> QED
    BY <2>2, <2>3, <2>4, ChargeCheap
<1>11. CASE \E k \in Key, value \in Value : Sstore(k, value)
  BY <1>11, SstoreCheap
<1>12. CASE \E k \in Key, value \in Value : Tstore(k, value)
  <2>1. /\ CanCharge(meter, WarmAccess) /\ meter' = Charge(meter, WarmAccess)
        /\ frame' = frame /\ parents' = parents
    BY <1>12 DEF Tstore
  <2>2. WarmAccess \in Nat /\ WarmAccess >= 1
    BY PricesNat DEF Metered
  <2>3. Rank(frame'.action.op) <= Rank(frame.action.op) + 3
    BY <2>1, Ranks
  <2> QED
    BY <2>1, <2>2, <2>3, ChargeCheap
<1>13. CASE \E cost \in MemoryCost : Emit(cost)
  <2>1. PICK cost \in MemoryCost : Emit(cost)
    BY <1>13
  <2> DEFINE price == LogBase + cost
  <2>2. price \in Nat /\ price >= 1
    BY PricesNat, InputsNat DEF Metered
  <2>3. /\ CanCharge(meter, price) /\ meter' = Charge(meter, price) /\ frame' = frame
        /\ parents' = parents
    BY <2>1 DEF Emit
  <2>4. Rank(frame'.action.op) <= Rank(frame.action.op) + 3
    BY <2>3, Ranks
  <2> HIDE DEF price
  <2> QED
    BY <2>2, <2>3, <2>4, ChargeCheap
<1>14. CASE \E kind \in CallKind, gas \in RequestGas, target \in Address, value \in Amount :
              AskCall(kind, gas, target, value)
  <2>1. PICK kind \in CallKind, gas \in RequestGas, target \in Address, value \in Amount :
          AskCall(kind, gas, target, value)
    BY <1>14
  <2>2. /\ Running /\ CanCharge(meter, WarmAccess) /\ meter' = Charge(meter, WarmAccess)
        /\ parents' = parents
        /\ frame' = [frame EXCEPT !.action =
             [op |-> "Call", kind |-> kind, gas |-> gas, target |-> target, value |-> value]]
    BY <2>1 DEF AskCall, Executing
  <2>3. frame'.action.op = "Call"
    BY <1>4, <2>2
  <2>4. WarmAccess \in Nat /\ WarmAccess >= 2
    BY PricesNat DEF Metered
  <2>5. Rank(frame'.action.op) = 6
    BY <1>1, <2>3
  <2>6. Rank(frame'.action.op) <= Rank(frame.action.op) + 7
    BY <1>3, <2>2, <2>5
  <2> QED
    BY <2>2, <2>4, <2>6, ChargeCheap
<1>15. CASE \/ \E value \in Amount : AskCreate(value)
            \/ \E target \in Address : AskSelfDestruct(target)
  <2>1. /\ Running /\ meter' = meter /\ parents' = parents
        /\ frame'.action.op \in {"Create", "SelfDestruct"}
    <3>1. CASE \E value \in Amount : AskCreate(value)
      <4>1. PICK value \in Amount : AskCreate(value)
        BY <3>1
      <4>2. /\ Running /\ meter' = meter /\ parents' = parents
            /\ frame' = [frame EXCEPT !.action = [op |-> "Create", value |-> value]]
        BY <4>1 DEF AskCreate, Executing
      <4> QED
        BY <1>4, <4>2
    <3>2. CASE \E target \in Address : AskSelfDestruct(target)
      <4>1. PICK target \in Address : AskSelfDestruct(target)
        BY <3>2
      <4>2. /\ Running /\ meter' = meter /\ parents' = parents
            /\ frame' = [frame EXCEPT !.action = [op |-> "SelfDestruct", target |-> target]]
        BY <4>1 DEF AskSelfDestruct, Executing
      <4> QED
        BY <1>4, <4>2
    <3> QED
      BY <1>15, <3>1, <3>2
  <2>2. Rank(frame'.action.op) = 1
    BY <1>1, <2>1
  <2>3. Purse(meter') \in Int /\ Purse(meter') <= Purse(meter) - 0
    BY <2>1, RunningTyped, SoundPurse
  <2> QED
    BY <1>3, <2>1, <2>2, <2>3, Cheap
<1> QED
  BY <1>5, <1>6, <1>7, <1>8, <1>9, <1>10, <1>11, <1>12, <1>13, <1>14, <1>15 DEF Execute

----------------------------------------------------------------------------
(* Calls and creations.                                                    *)

\* A step that suspends the running frame pays for what is kept.
Divided(parent) ==
  /\ parent \in ParentSet
  /\ parents' = Append(parents, parent)
  /\ parent.frame.action.op = "Running"
  /\ Held(parent.meter) \in Int
  /\ Effort(frame, meter) \in Int /\ Effort(frame', meter') \in Int
  /\ Effort(frame', meter') + 4 * Held(parent.meter) + 4 <= Effort(frame, meter)

\* What is handed down and what is kept is what there was, and the stipend.
LEMMA SuspendDivides ==
  ASSUME IInv, NEW paid, Sound(paid), NEW taken \in Nat, NEW extra \in Nat,
         taken <= paid.gas,
         NEW snapshot \in WorldSet, NEW creation \in BOOLEAN,
         NEW charged \in BOOLEAN, NEW created \in Address,
         Suspend(paid, taken, snapshot, creation, charged, created),
         meter' \in {FreshMeter(taken + extra, paid.reservoir),
                     Exhaust(FreshMeter(taken + extra, paid.reservoir))},
         Rank(frame'.action.op) <= 2,
         4 * (Purse(paid) + extra) + 6 <= Effort(frame, meter)
  PROVE  \E parent : Divided(parent)
<1> DEFINE kept == [paid EXCEPT !.gas = @ - taken, !.reservoir = 0]
           waiting == WithAction(frame, "Running")
           parent == [frame |-> waiting, meter |-> kept, snapshot |-> snapshot,
                      creation |-> creation, charged |-> charged, created |-> created]
           fresh == FreshMeter(taken + extra, paid.reservoir)
<1>1. /\ paid \in MeterSet /\ taken + extra \in Nat /\ paid.reservoir \in Nat
      /\ paid.gas \in Nat /\ paid.used \in Int
  BY DEF Sound, MeterSet
<1>2. kept \in MeterSet /\ kept.gas = paid.gas - taken /\ kept.used = paid.used
  <2>1. paid.gas - taken \in Nat /\ 0 \in Nat
    BY <1>1
  <2>2. kept = [paid EXCEPT !.gas = paid.gas - taken, !.reservoir = 0]
    OBVIOUS
  <2> HIDE DEF kept
  <2> QED
    BY <1>1, <2>1, <2>2 DEF MeterSet
<1>3. waiting \in FrameSet /\ waiting.action.op = "Running"
  BY RunningTyped, WithActionType, ActionIs
<1>4. parents' = Append(parents, parent)
  BY DEF Suspend
<1> HIDE DEF kept, waiting
<1>5. /\ parent \in ParentSet /\ parent.meter = kept
      /\ parent.frame.action.op = "Running"
  BY <1>2, <1>3 DEF ParentSet
<1>6. Sound(fresh) /\ Purse(fresh) = taken + extra + paid.reservoir
  BY <1>1, FreshSound DEF FreshMeter, Purse
<1> HIDE DEF parent, fresh
<1>7. Purse(meter') \in Int /\ Purse(meter') <= Purse(fresh)
  <2>1. Sound(Exhaust(fresh)) /\ Purse(Exhaust(fresh)) <= Purse(fresh)
    BY <1>6, ExhaustPurse, ExhaustSound
  <2>2. meter' \in {fresh, Exhaust(fresh)}
    BY DEF fresh
  <2> QED
    BY <1>6, <2>1, <2>2, SoundPurse
<1>8. Held(parent.meter) = paid.gas - taken + paid.used /\ Held(parent.meter) \in Int
  BY <1>1, <1>2, <1>5 DEF Held
<1>9. Purse(meter') + Held(parent.meter) <= Purse(paid) + extra
  BY <1>1, <1>6, <1>7, <1>8 DEF Purse
<1>10. Effort(frame, meter) \in Int
  <2>1. Purse(meter) \in Int /\ Rank(frame.action.op) \in Int
    BY RunningTyped, SoundPurse, Ranks
  <2> QED
    BY <2>1 DEF Effort
<1>11. Purse(paid) \in Int /\ Rank(frame'.action.op) \in Int
  BY SoundPurse, Ranks
<1>12. /\ Effort(frame', meter') = 4 * Purse(meter') + Rank(frame'.action.op)
       /\ Effort(frame', meter') \in Int
  BY <1>7, <1>11 DEF Effort
<1>13. Effort(frame', meter') + 4 * Held(parent.meter) + 4 <= Effort(frame, meter)
  BY <1>7, <1>8, <1>9, <1>10, <1>11, <1>12
<1> QED
  BY <1>4, <1>5, <1>8, <1>10, <1>12, <1>13 DEF Divided

\* call-enter.bend:65-67.  What a call pays covers its stipend.
LEMMA CallPaidPurse ==
  ASSUME IInv, Calling, NEW memory \in MemoryCost, CallAllowed(memory)
  PROVE  /\ Sound(CallPaid(memory)) /\ SpillsLast(CallPaid(memory))
         /\ Purse(CallPaid(memory)) + CallStipend <= Purse(meter)
         /\ CallStipend \in Nat
<1> DEFINE price == memory + CallPrice
           charged == Charge(meter, price)
           paid == SpendBirth(charged, BirthCharged)
<1>1. price \in Nat /\ CallStipend \in Nat /\ CallStipend <= price
  BY CallPriceNat, InputsNat
<1>2. CanCharge(meter, price) /\ CanSpendBirth(charged, BirthCharged)
  BY DEF CallAllowed
<1>3. BirthCharged \in BOOLEAN
  BY DEF BirthCharged, CarriesValue
<1> HIDE DEF price
<1>4. Sound(charged) /\ SpillsLast(charged) /\ Purse(charged) = Purse(meter) - price
  BY <1>1, <1>2, RunningTyped, ChargeSound, ChargePurse
<1> HIDE DEF charged
<1>5. Purse(paid) = Purse(charged)
  BY <1>2, <1>3, <1>4, BirthPurse
<1>6. Purse(meter) \in Int
  BY RunningTyped, SoundPurse
<1>7. CallPaid(memory) = paid
  BY DEF CallPaid, paid, charged, price
<1>8. Purse(CallPaid(memory)) + CallStipend <= Purse(meter)
  BY <1>1, <1>4, <1>5, <1>6, <1>7
<1> QED
  BY <1>1, <1>8, CallPaidSound

\* call-enter.bend:36-41.  A refused call is worth no more than before.
LEMMA CallRefusedCheap ==
  ASSUME IInv, NEW memory \in MemoryCost, CallRefused(memory)
  PROVE  Cheaper(frame', meter') /\ parents' = parents
<1> DEFINE paid == CallPaid(memory)
           refunded == [paid EXCEPT !.gas = @ + CallStipend]
<1>1. Calling /\ CallAllowed(memory) /\ parents' = parents
      /\ frame' = WithAction(frame, "Running")
  BY DEF CallRefused
<1>2. /\ Sound(paid) /\ SpillsLast(paid) /\ CallStipend \in Nat
      /\ paid.gas + CallStipend + paid.spilled <= paid.grant
      /\ Purse(paid) + CallStipend <= Purse(meter)
  BY <1>1, CallPaidSound, CallPaidPurse
<1>3. meter' = RefillBirth(refunded, BirthCharged)
  BY DEF CallRefused
<1> HIDE DEF paid
<1>4. Sound(refunded) /\ SpillsLast(refunded) /\ Purse(refunded) = Purse(paid) + CallStipend
  BY <1>2 DEF Sound, MeterSet, Baseline, WithinGrant, SpillsLast, Purse
<1> HIDE DEF refunded
<1>5. BirthCharged \in BOOLEAN
  BY DEF BirthCharged, CarriesValue
<1>6. Purse(meter') = Purse(refunded)
  BY <1>3, <1>4, <1>5, BirthPurse
<1>7. Purse(refunded) \in Int /\ Purse(meter) \in Int
  BY <1>4, RunningTyped, SoundPurse
<1>8. Purse(meter') \in Int /\ Purse(meter') <= Purse(meter) - 0
  BY <1>2, <1>4, <1>6, <1>7
<1>9. Rank(frame'.action.op) < Rank(frame.action.op)
  <2>1. frame'.action.op = "Running" /\ frame.action.op = "Call"
    BY <1>1, RunningTyped, ActionIs DEF Calling
  <2> QED
    BY <2>1, Ranks
<1> QED
  BY <1>1, <1>8, <1>9, Cheap

\* call-enter.bend:29-63.
LEMMA CallEnterDivides ==
  ASSUME IInv, NEW memory \in MemoryCost, CallEnter(memory)
  PROVE  \E parent : Divided(parent)
<1> DEFINE paid == CallPaid(memory)
           taken == CallLimit(memory)
<1>1. Calling /\ CallAllowed(memory)
  BY DEF CallEnter
<1>2. /\ Sound(paid) /\ CallStipend \in Nat
      /\ Purse(paid) + CallStipend <= Purse(meter)
  BY <1>1, CallPaidPurse
<1>3. Request.gas \in Nat /\ Request.target \in Address
  BY <1>1, CallRequestType DEF IInv
<1>4. taken \in Nat /\ taken <= paid.gas
  <2>1. paid.gas \in Nat
    BY <1>2 DEF Sound, MeterSet
  <2> QED
    BY <1>3, <2>1, CapNat DEF CallLimit, Least
<1>5. CallWorld \in WorldSet /\ BirthCharged \in BOOLEAN
  BY <1>1, CallWorldType DEF BirthCharged, CarriesValue
<1>6. /\ Suspend(paid, taken, CallWorld, FALSE, BirthCharged, Request.target)
      /\ frame' = ChildFrame
      /\ meter' = FreshMeter(taken + CallStipend, paid.reservoir)
  BY DEF CallEnter
<1> HIDE DEF paid, taken
<1>7. Rank(frame'.action.op) <= 2
  <2>1. frame'.action.op \in {"Running", "Precompile"}
    BY <1>6 DEF ChildFrame, Plain, ChildOp
  <2> QED
    BY <2>1, Ranks
<1>8. 4 * (Purse(paid) + CallStipend) + 6 <= Effort(frame, meter)
  <2>1. Rank(frame.action.op) = 6
    BY <1>1, Ranks DEF Calling
  <2>2. Purse(meter) \in Int /\ Purse(paid) \in Int
    BY <1>2, RunningTyped, SoundPurse
  <2> QED
    BY <1>2, <2>1, <2>2 DEF Effort
<1>9. meter' \in {FreshMeter(taken + CallStipend, paid.reservoir),
                  Exhaust(FreshMeter(taken + CallStipend, paid.reservoir))}
  BY <1>6
<1> QED
  BY <1>2, <1>3, <1>4, <1>5, <1>6, <1>7, <1>8, <1>9, SuspendDivides

\* create-enter.bend:20-49.
LEMMA CreateEnterDivides ==
  ASSUME IInv, Metered, NEW cost \in MemoryCost, NEW target \in CreateTarget,
         NEW code \in InitCode, CreateEnter(cost, target, code)
  PROVE  \E parent : Divided(parent)
<1> DEFINE birth == CreateBirth(target)
           charged == CreateCharged(cost)
           paid == SpendBirth(charged, birth)
           taken == Cap(paid.gas)
           snapshot == CreateWorld(target)
<1>1. target \in Address
  BY ProgramAssumption
<1>2. /\ Creating /\ CreateAllowed(cost) /\ CanSpendBirth(charged, birth)
      /\ Suspend(paid, taken, snapshot, TRUE, birth, target)
      /\ meter' \in {FreshMeter(taken, paid.reservoir),
                     Exhaust(FreshMeter(taken, paid.reservoir))}
      /\ frame' \in {WithAction(CreationFrame(target, code), "Fault"),
                     CreationFrame(target, code)}
  BY DEF CreateEnter
<1>3. birth \in BOOLEAN /\ snapshot \in WorldSet
  BY <1>1, CreateWorldType DEF CreateBirth, IsEmpty
<1>4. /\ Sound(charged) /\ SpillsLast(charged)
      /\ Purse(charged) = Purse(meter) - CreatePrice(cost)
  BY <1>2, RunningTyped, CreatePriceNat, ChargeSound, ChargePurse
     DEF CreateCharged, CreateAllowed
<1> HIDE DEF charged, birth, snapshot
<1>5. Sound(paid) /\ Purse(paid) = Purse(charged)
  BY <1>2, <1>3, <1>4, BirthSound, BirthPurse
<1> HIDE DEF paid
<1>6. paid.gas \in Nat
  BY <1>5 DEF Sound, MeterSet
<1>7. taken \in Nat /\ taken <= paid.gas /\ taken + 0 = taken
  BY <1>6, CapNat
<1>8. Rank(frame'.action.op) <= 2
  <2>1. CreationFrame(target, code).action = [op |-> "Running"]
    BY DEF CreationFrame, Plain
  <2>2. WithAction(CreationFrame(target, code), "Fault").action.op = "Fault"
    BY DEF CreationFrame, WithAction, Plain
  <2>3. frame'.action.op \in {"Running", "Fault"}
    BY <1>2, <2>1, <2>2
  <2> QED
    BY <2>3, Ranks DEF Terminal
<1>9. 4 * (Purse(paid) + 0) + 6 <= Effort(frame, meter)
  <2>1. Rank(frame.action.op) = 1
    BY <1>2, Ranks DEF Creating
  <2>2. Purse(meter) \in Int /\ Purse(paid) \in Int
    BY <1>5, RunningTyped, SoundPurse
  <2>3. CreatePrice(cost) \in Nat /\ CreatePrice(cost) >= 2
    BY CreatePriceNat, InputsNat, PricesNat DEF CreatePrice, Metered
  <2> QED
    BY <1>4, <1>5, <2>1, <2>2, <2>3 DEF Effort
<1>10. meter' \in {FreshMeter(taken + 0, paid.reservoir),
                   Exhaust(FreshMeter(taken + 0, paid.reservoir))}
  BY <1>2, <1>7
<1> HIDE DEF taken
<1> QED
  BY <1>1, <1>2, <1>3, <1>5, <1>7, <1>8, <1>9, <1>10, SuspendDivides

\* vm.bend:34-44, runtime.bend:36-65.  What is asked for is served at the
\* expense of what asked.
LEMMA ServeCheap ==
  ASSUME IInv, Metered, Serve
  PROVE  \/ Cheaper(frame', meter') /\ parents' = parents
         \/ \E parent : Divided(parent)
<1>1. /\ Rank("Call") = 6 /\ Rank("Running") = 2 /\ Rank("Create") = 1
      /\ Rank("SelfDestruct") = 1 /\ Rank("Precompile") = 1
      /\ Rank("Stopped") = 0 /\ Rank("Returned") = 0 /\ Rank("HostLimit") = 0
  BY Ranks DEF Terminal, Successful
<1>2. ASSUME Fault, parents' = parents, Calling \/ Creating \/ Destroying \/ Asking
      PROVE  Cheaper(frame', meter') /\ parents' = parents
  <2>1. Rank(frame.action.op) >= 1
    BY <1>1, <1>2 DEF Calling, Creating, Destroying, Asking
  <2>2. Cheaper(frame', meter')
    BY <1>2, <2>1, FaultCheap
  <2> QED
    BY <1>2, <2>2
<1>3. CASE \/ \E memory \in MemoryCost : CallFault(memory)
           \/ CreateFault
           \/ \E cost \in MemoryCost, target \in CreateTarget : CreateStateFault(cost, target)
           \/ DestructFault
           \/ HostRejects
  <2>1. /\ Fault /\ parents' = parents
        /\ Calling \/ Creating \/ Destroying \/ Asking
    BY <1>3 DEF CallFault, CreateFault, CreateStateFault, DestructFault, HostRejects
  <2> QED
    BY <1>2, <2>1
<1>4. CASE \E memory \in MemoryCost : CallRefused(memory)
  BY <1>4, CallRefusedCheap
<1>5. CASE \E memory \in MemoryCost : CallEnter(memory)
  BY <1>5, CallEnterDivides
<1>6. CASE \E cost \in MemoryCost : CreateRefused(cost)
  <2>1. PICK cost \in MemoryCost : CreateRefused(cost)
    BY <1>6
  <2>2. /\ Creating /\ CanCharge(meter, CreatePrice(cost))
        /\ meter' = Charge(meter, CreatePrice(cost)) /\ parents' = parents
        /\ frame' = WithAction(frame, "Running")
    BY <2>1 DEF CreateRefused, CreateAllowed
  <2>3. CreatePrice(cost) \in Nat /\ CreatePrice(cost) >= 1
    BY CreatePriceNat, InputsNat, PricesNat DEF CreatePrice, Metered
  <2>4. Rank(frame'.action.op) <= Rank(frame.action.op) + 3
    <3>1. frame'.action.op = "Running" /\ frame.action.op = "Create"
      BY <2>2, RunningTyped, ActionIs DEF Creating
    <3> QED
      BY <1>1, <3>1
  <2>5. Cheaper(frame', meter')
    BY <2>2, <2>3, <2>4, ChargeCheap
  <2> QED
    BY <2>2, <2>5
<1>7. CASE \E cost \in MemoryCost, target \in CreateTarget, code \in InitCode :
             CreateEnter(cost, target, code)
  BY <1>7, CreateEnterDivides
<1>8. CASE Destruct
  <2> DEFINE price == DestructPrice
             charged == Charge(meter, price)
  <2>1. /\ Destroying /\ CanCharge(meter, price) /\ CanSpendBirth(charged, Topup)
        /\ meter' = SpendBirth(charged, Topup) /\ parents' = parents
        /\ frame' = [WithAction(frame, "Stopped") EXCEPT !.output = NoCode]
    BY <1>8 DEF Destruct, DestructAllowed
  <2>2. price \in Nat /\ Topup \in BOOLEAN
    BY PricesNat DEF DestructPrice, Topup
  <2> HIDE DEF price
  <2>3. Sound(charged) /\ SpillsLast(charged) /\ Purse(charged) = Purse(meter) - price
    BY <2>1, <2>2, RunningTyped, ChargeSound, ChargePurse
  <2> HIDE DEF charged
  <2>4. Purse(meter') = Purse(charged)
    BY <2>1, <2>2, <2>3, BirthPurse
  <2>5. Purse(charged) \in Int /\ Purse(meter) \in Int
    BY <2>3, RunningTyped, SoundPurse
  <2>6. Purse(meter') \in Int /\ Purse(meter') <= Purse(meter) - price
    BY <2>3, <2>4, <2>5
  <2>7. Rank(frame'.action.op) < Rank(frame.action.op)
    <3>1. frame'.action.op = "Stopped" /\ frame.action.op = "SelfDestruct"
      BY <2>1, RunningTyped, ActionIs DEF Destroying
    <3> QED
      BY <1>1, <3>1
  <2>8. Cheaper(frame', meter')
    BY <2>2, <2>6, <2>7, Cheap
  <2> QED
    BY <2>1, <2>8
<1>9. CASE \E gas \in 0..meter.gas : HostReturns(gas)
  <2>1. PICK gas \in 0..meter.gas : HostReturns(gas)
    BY <1>9
  <2>2. /\ Asking /\ meter' = [meter EXCEPT !.gas = gas] /\ parents' = parents
        /\ frame' = WithAction(frame, "Returned")
    BY <2>1 DEF HostReturns
  <2>3. /\ meter'.gas = gas /\ meter'.reservoir = meter.reservoir /\ meter'.used = meter.used
        /\ gas \in Nat /\ gas <= meter.gas /\ meter.gas \in Nat
        /\ meter.reservoir \in Nat /\ meter.used \in Int
    BY <2>1, <2>2, RunningTyped DEF MeterSet
  <2>4. Purse(meter') \in Int /\ Purse(meter') <= Purse(meter) - 0
    BY <2>3 DEF Purse
  <2>5. Rank(frame'.action.op) < Rank(frame.action.op)
    <3>1. frame'.action.op = "Returned" /\ frame.action.op = "Precompile"
      BY <2>2, RunningTyped, ActionIs DEF Asking
    <3> QED
      BY <1>1, <3>1
  <2>6. Cheaper(frame', meter')
    BY <2>4, <2>5, Cheap
  <2> QED
    BY <2>2, <2>6
<1>10. CASE HostBreaks
  <2>1. /\ Asking /\ meter' = meter /\ parents' = parents
        /\ frame' = WithAction(frame, "HostLimit")
    BY <1>10 DEF HostBreaks
  <2>2. Purse(meter') \in Int /\ Purse(meter') <= Purse(meter) - 0
    BY <2>1, RunningTyped, SoundPurse
  <2>3. Rank(frame'.action.op) < Rank(frame.action.op)
    <3>1. frame'.action.op = "HostLimit" /\ frame.action.op = "Precompile"
      BY <2>1, RunningTyped, ActionIs DEF Asking
    <3> QED
      BY <1>1, <3>1
  <2>4. Cheaper(frame', meter')
    BY <2>2, <2>3, Cheap
  <2> QED
    BY <2>1, <2>4
<1> QED
  BY <1>3, <1>4, <1>5, <1>6, <1>7, <1>8, <1>9, <1>10 DEF Serve

----------------------------------------------------------------------------
(* Returns.                                                                *)

\* call-finish.bend:19-42.  A parent resumes with what it held and with what
\* its child was worth.
LEMMA ResumePurse ==
  ASSUME IInv, Resuming, parents # <<>>, Ended,
         NEW child, Sound(child), SameHistory(meter, child),
         NEW succeeded \in BOOLEAN,
         ~succeeded => child.used = 0 /\ child.spilled = 0,
         Purse(child) <= Purse(meter),
         NEW childWorld, Resume(child, succeeded, childWorld)
  PROVE  /\ Effort(frame, meter) \in Int /\ Effort(frame', meter') \in Int
         /\ Effort(frame', meter') <= Effort(frame, meter) + 4 * Held(Waiting.meter) + 2
         /\ parents' = Front(parents)
<1> DEFINE merged == Merged(Waiting.meter, child, succeeded)
           refunded == Waiting.charged /\ ~succeeded
<1>1. Waiting.meter \in MeterSet /\ refunded \in BOOLEAN
  BY WaitingLinked DEF ParentSet
<1>2. BaselineLink(Waiting.meter, child) /\ GrantLink(Waiting.meter, child)
  BY WaitingLinked DEF BaselineLink, GrantLink, SameHistory
<1>3. Sound(merged) /\ SpillsLast(merged)
  BY <1>1, <1>2, MergedSound
<1>4. Purse(merged) = Held(Waiting.meter) + Purse(child)
  BY <1>1, <1>2, MergedPurse
<1>5. /\ meter' = RefillBirth(merged, refunded)
      /\ frame' = Waiting.frame
      /\ parents' = Front(parents)
  BY DEF Resume
<1> HIDE DEF merged, refunded
<1>6. Purse(meter') = Purse(merged)
  BY <1>1, <1>3, <1>5, BirthPurse
<1>7. Rank(frame'.action.op) = 2
  <2>1. Len(parents) \in 1..Len(parents) /\ Waiting = parents[Len(parents)]
    BY StackBooks DEF Waiting, Last
  <2>2. frame'.action.op = "Running"
    BY <1>5, <2>1 DEF Resuming
  <2> QED
    BY <2>2, Ranks
<1>8. Rank(frame.action.op) = 0
  BY Ranks DEF Ended
<1>9. Held(Waiting.meter) \in Int
  BY <1>1 DEF MeterSet, Held
<1>10. Purse(child) \in Int /\ Purse(meter) \in Int
  BY RunningTyped, SoundPurse
<1>11. Purse(meter') \in Int /\ Purse(meter') <= Held(Waiting.meter) + Purse(meter)
  BY <1>4, <1>6, <1>9, <1>10
<1>12. /\ Effort(frame, meter) = 4 * Purse(meter) + 0
       /\ Effort(frame', meter') = 4 * Purse(meter') + 2
  BY <1>7, <1>8 DEF Effort
<1> QED
  BY <1>5, <1>9, <1>10, <1>11, <1>12

\* create-finish.bend:18-31.  A deposit is paid for.
LEMMA DepositedPurse ==
  ASSUME IInv, NEW code \in CodeSet, CanDeposit(code)
  PROVE  Purse(Deposited(code)) <= Purse(meter)
<1> DEFINE words == DepositWords(code)
           bytes == CodeByte * code.len
           hashed == Charge(meter, words)
<1>1. code.len \in Nat
  BY DEF CodeSet
<1>2. (code.len + 31) \div 32 \in Nat
  BY <1>1
<1>3. words \in Nat /\ bytes \in Nat
  BY <1>1, <1>2, PricesNat DEF DepositWords
<1>4. CanCharge(meter, words) /\ CanSpendState(hashed, bytes)
  BY DEF CanDeposit
<1>5. Deposited(code) = SpendState(hashed, bytes)
  BY DEF Deposited
<1> HIDE DEF words, bytes
<1>6. Sound(hashed) /\ Purse(hashed) = Purse(meter) - words
  BY <1>3, <1>4, RunningTyped, ChargePurse
<1> HIDE DEF hashed
<1>7. Purse(Deposited(code)) = Purse(hashed)
  BY <1>3, <1>4, <1>5, <1>6, StatePurse
<1>8. Purse(meter) \in Int
  BY RunningTyped, SoundPurse
<1> QED
  BY <1>3, <1>6, <1>7, <1>8

\* call-finish.bend:44-52.  Every return gives back no more than there was.
LEMMA UnwindPurse ==
  ASSUME IInv, Resuming, Unwind
  PROVE  /\ Effort(frame, meter) \in Int /\ Effort(frame', meter') \in Int
         /\ Effort(frame', meter') <= Effort(frame, meter) + 4 * Held(Waiting.meter) + 2
         /\ parents' = Front(parents) /\ parents # <<>>
<1>1. Succeeded \in BOOLEAN /\ Ended /\ parents # <<>>
  <2>1. Ended /\ parents # <<>>
    BY DEF Unwind, CallReturn, CreateReturn
  <2> QED
    BY <2>1 DEF Succeeded
<1>2. /\ Sound(Settled) /\ SameHistory(meter, Settled) /\ Purse(Settled) <= Purse(meter)
      /\ ~Succeeded => Settled.used = 0 /\ Settled.spilled = 0
  <2>1. Purse(Settled) <= Purse(meter)
    BY <1>1, RunningTyped, SettlePurse DEF Settled
  <2> QED
    BY <2>1, SettledSound
<1>3. CASE CallReturn
  BY <1>1, <1>2, <1>3, ResumePurse DEF CallReturn
<1>4. CASE CreateReturn
  <2>1. frame.output \in CodeSet
    BY RunningTyped DEF FrameSet
  <2>2. CASE /\ CanDeposit(frame.output)
             /\ Resume(Deposited(frame.output), TRUE,
                       SetCode(world, Waiting.created, frame.output))
    <3> DEFINE child == Deposited(frame.output)
               after == SetCode(world, Waiting.created, frame.output)
    <3>1. Sound(child) /\ SameHistory(meter, child) /\ Purse(child) <= Purse(meter)
      BY <2>1, <2>2, DepositedSound, DepositedPurse
    <3>2. Resume(child, TRUE, after)
      BY <2>2
    <3> HIDE DEF child, after
    <3> QED
      BY <1>1, <3>1, <3>2, ResumePurse
  <2>3. CASE Resume(Settle(Exhaust(meter), FALSE, FALSE), FALSE, world)
    <3> DEFINE child == Settle(Exhaust(meter), FALSE, FALSE)
    <3>1. /\ Sound(Exhaust(meter)) /\ SameHistory(meter, Exhaust(meter))
          /\ Purse(Exhaust(meter)) <= Purse(meter)
      BY RunningTyped, ExhaustSound, ExhaustPurse
    <3>2. /\ Sound(child) /\ SameHistory(meter, child)
          /\ child.used = 0 /\ child.spilled = 0
      BY <3>1, SettleSound DEF SameHistory
    <3>3. Purse(child) <= Purse(Exhaust(meter))
      BY <3>1, SettlePurse
    <3> HIDE DEF child
    <3>4. Purse(child) \in Int /\ Purse(Exhaust(meter)) \in Int /\ Purse(meter) \in Int
      BY <3>1, <3>2, RunningTyped, SoundPurse
    <3>5. Purse(child) <= Purse(meter)
      BY <3>1, <3>3, <3>4
    <3>6. Resume(child, FALSE, world)
      BY <2>3 DEF child
    <3> QED
      BY <1>1, <3>2, <3>5, <3>6, ResumePurse
  <2>4. CASE ~Succeeded /\ Resume(Settled, FALSE, world)
    BY <1>1, <1>2, <2>4, ResumePurse
  <2> QED
    BY <1>4, <2>2, <2>3, <2>4 DEF CreateReturn
<1> QED
  BY <1>1, <1>3, <1>4 DEF Unwind

----------------------------------------------------------------------------
(* The invariant of the fuel.                                              *)

FInv == GInv(Start) /\ Resuming /\ Fueled

\* Every transition is worth a unit of fuel.
LEMMA TickFuel ==
  ASSUME IsFiniteSet(Address), Metered, FInv, Tick
  PROVE  Resuming' /\ Fueled'
<1>1. IInv /\ Resuming /\ Fueled /\ fuel' = fuel - 1
  BY Counter, ProgramAssumption DEF FInv, Tick
<1>2. CASE Cheaper(frame', meter') /\ parents' = parents
  BY <1>1, <1>2, QuietFuel DEF Cheaper
<1>3. CASE \E parent : Divided(parent)
  <2>1. PICK parent : Divided(parent)
    BY <1>3
  <2> QED
    BY <1>1, <2>1, PushFuel DEF Divided
<1>4. CASE Unwind
  BY <1>1, <1>4, UnwindPurse, PopFuel
<1>5. CASE Execute
  BY <1>1, <1>2, <1>5, ExecuteCheap
<1>6. CASE Serve
  BY <1>1, <1>2, <1>3, <1>6, ServeCheap
<1> QED
  BY <1>4, <1>5, <1>6 DEF Tick

\* So the loop keeps the invariant.
LEMMA RunNextFuel ==
  ASSUME IsFiniteSet(Address), TidyStart, Metered, FInv, [RunNext]_rvars
  PROVE  FInv'
<1>1. [Next]_vars
  BY DEF RunNext, Tick, Return, RunHalt, rvars, vars, Next
<1>2. GInv(Start)'
  BY <1>1, NextGas, ProgramAssumption DEF FInv
<1>3. CASE Tick
  BY <1>2, <1>3, TickFuel DEF FInv
<1>4. CASE Return \/ RunHalt \/ UNCHANGED rvars
  <2>1. UNCHANGED <<frame, meter, parents, fuel>>
    BY <1>4 DEF Return, RunHalt, rvars
  <2>2. Resuming' /\ Fueled'
    BY <2>1 DEF FInv, Resuming, Fueled, Stored, Total, Held, Effort, Purse, Rank
  <2> QED
    BY <1>2, <2>2 DEF FInv
<1> QED
  BY <1>3, <1>4 DEF RunNext

\* runtime.bend:102-106.  The loop starts with enough.
LEMMA InitFuel ==
  ASSUME IsFiniteSet(Address), TidyStart, FreshJournal, Metered, RunInit
  PROVE  FInv
<1>1. GInv(Start)
  BY InitGasBooks DEF RunInit
<1>2. /\ meter \in MeterSet /\ meter.used = 0 /\ parents = <<>>
      /\ frame.action.op \in {"Precompile", "Running"}
      /\ fuel = FuelFactor * (meter.gas + meter.reservoir) + FuelSlack
  BY <1>1, Counter, RunningTyped, ProgramAssumption DEF RunInit, Init, FreshMeter, Plain, Fuel
<1>3. Rank(frame.action.op) <= 2 /\ Rank(frame.action.op) \in Int
  BY <1>2, Ranks
<1>4. Stored(parents) = 0 /\ Len(parents) = 0
  <2> DEFINE f == [i \in 1..0 |-> Held(parents[i].meter)]
  <2>1. Len(parents) = 0 /\ Stored(parents) = Total(f, 0)
    BY <1>2 DEF Stored
  <2>2. \A i \in 1..0 : f[i] \in Int
    OBVIOUS
  <2> HIDE DEF f
  <2>3. Total(f, 0) = 0
    BY SMTT(30), <2>2, TotalSums
  <2> QED
    BY <2>1, <2>3
<1>5. 4 * (meter.gas + meter.reservoir) <= FuelFactor * (meter.gas + meter.reservoir)
  <2> DEFINE g == meter.gas + meter.reservoir
             more == FuelFactor - 4
  <2>1. g \in Nat
    BY <1>2 DEF MeterSet
  <2>2. more \in Nat /\ FuelFactor = 4 + more
    BY RuntimeAssumption DEF Metered
  <2> HIDE DEF g, more
  <2>3. more * g \in Nat
    BY <2>1, <2>2
  <2>4. FuelFactor * g = 4 * g + more * g
    BY <2>1, <2>2
  <2>5. 4 * g <= FuelFactor * g
    <3> DEFINE h == more * g
               k == FuelFactor * g
    <3>1. h \in Nat /\ k = 4 * g + h
      BY <2>3, <2>4
    <3> HIDE DEF h, k
    <3>2. 4 * g <= k
      BY <2>1, <3>1
    <3> QED
      BY <3>2 DEF k
  <2> QED
    BY <2>5 DEF g
<1>6. Fueled
  <2> DEFINE g == meter.gas + meter.reservoir
             k == FuelFactor * g
  <2>1. /\ g \in Nat /\ k \in Nat /\ 4 * g <= k /\ fuel = k + FuelSlack
        /\ FuelSlack \in Nat /\ FuelSlack >= 2
    <3>1. g \in Nat /\ FuelFactor \in Nat /\ FuelSlack \in Nat
      BY <1>2, RuntimeAssumption DEF MeterSet
    <3>2. k \in Nat
      BY <3>1
    <3> QED
      BY <1>2, <1>5, <3>1, <3>2 DEF Metered
  <2>2. Purse(meter) = g
    BY <1>2, <2>1 DEF Purse, MeterSet
  <2> HIDE DEF g, k
  <2>3. Effort(frame, meter) = 4 * g + Rank(frame.action.op)
    BY <2>2 DEF Effort
  <2> DEFINE e == Effort(frame, meter)
             s == Stored(parents)
             n == Len(parents)
             r == Rank(frame.action.op)
  <2>4. e = 4 * g + r /\ s = 0 /\ n = 0 /\ r <= 2 /\ r \in Int
    BY <1>3, <1>4, <2>3
  <2> HIDE DEF e, s, n, r
  <2>5. fuel \in Int /\ e + 4 * s + 3 * n <= fuel
    BY <2>1, <2>4
  <2> QED
    BY <2>5 DEF Fueled, e, s, n
<1>7. Resuming
  BY <1>4 DEF Resuming
<1> QED
  BY <1>1, <1>6, <1>7 DEF FInv

\* With no fuel left nothing is left to do: the purses together are never
\* overdrawn, since the state gas used is the price of the state there is.
LEMMA NothingLeft ==
  ASSUME IsFiniteSet(Address), FInv
  PROVE  FuelSuffices
<1> SUFFICES ASSUME fuel = 0 PROVE Done
  BY DEF FuelSuffices
<1> DEFINE n == Len(parents)
           s == Stored(parents)
           r == Rank(frame.action.op)
           u == Paid(n)
           w == StatePrice(Start, world)
           p == Purse(meter)
<1>1. /\ IInv /\ meter \in MeterSet /\ meter.used \in Int
      /\ n \in Nat /\ parents \in Seq(ParentSet)
      /\ u \in Int /\ w \in Int /\ meter.used + u = w
  BY Counter, ProgramAssumption DEF FInv
<1>2. w \in Nat
    BY PriceNat, Counter, ProgramAssumption DEF FInv
<1>3. s \in Int /\ u <= s
  BY <1>1, StoredCovers
<1>4. p = meter.gas + meter.reservoir + meter.used /\ meter.gas \in Nat /\ meter.reservoir \in Nat
      /\ p \in Int
  BY <1>1 DEF Purse, MeterSet
<1>5. Effort(frame, meter) = 4 * p + r /\ r \in 0..6
  BY Ranks DEF Effort
<1>6. 4 * p + r + 4 * s + 3 * n <= 0
  <2>1. Effort(frame, meter) + 4 * s + 3 * n <= 0
    BY DEF FInv, Fueled
  <2> QED
    BY <1>5, <2>1
<1> HIDE DEF s, r, u, w, p
<1>7. p + s >= 0
  BY SMTT(30), <1>1, <1>2, <1>3, <1>4
<1>8. r = 0 /\ n = 0
  <2>1. n \in Nat /\ s \in Int /\ p \in Int /\ r \in 0..6
    BY <1>1, <1>3, <1>4, <1>5
  <2> HIDE DEF n
  <2>2. 4 * (p + s) + r + 3 * n <= 0
    BY <1>6, <2>1
  <2> QED
    BY <1>7, <2>1, <2>2
<1>9. parents = <<>>
  BY <1>1, <1>8
<1>10. frame.action.op \in Terminal \cup {"HostLimit"}
  <2>1. frame.action.op \in Terminal \cup {"HostLimit", "Running", "Precompile", "Call",
                                           "Create", "SelfDestruct"}
    BY <1>1, RunningTyped DEF FrameSet, ActionSet
  <2>2. Rank(frame.action.op) = 0
    BY <1>8 DEF r
  <2> QED
    BY <2>1, <2>2, Ranks
<1> QED
  BY <1>9, <1>10 DEF Done, Ended

\* Whatever the program does with its gas, the loop is never cut off by the
\* fuel: entering, refusing, ending and unwinding frames, which spend fuel
\* and no gas, are paid for by what was (full/runtime.bend:102-106).
THEOREM FuelOutlasts ==
  ASSUME IsFiniteSet(Address), TidyStart, FreshJournal, Metered
  PROVE  RunSpec => []FuelSuffices
<1>1. RunInit => FInv
  BY InitFuel
<1>2. FInv => FuelSuffices
  BY NothingLeft
<1> QED
  BY <1>1, <1>2, RunNextFuel, PTL DEF RunSpec
=============================================================================
