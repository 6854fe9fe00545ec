------------------------------ MODULE VmProofs ------------------------------
(***************************************************************************)
(* Type correctness and the gas invariants of the call machine, that       *)
(* static frames are read-only and that the contracts there were outlive   *)
(* the transaction, for every gas schedule, program, world and depth.      *)
(*                                                                         *)
(* First what the operations of the meter and of the world keep, for every *)
(* cost, amount and account; then the machine.  Its inductive invariant is *)
(* the type invariant with MeterInv: each meter is sound, and each         *)
(* suspended parent is linked to the meter of the frame it waits for       *)
(* through the entry and the grant of that frame, which no operation on    *)
(* the running meter changes.                                              *)
(*                                                                         *)
(* Every step of the machine is quiet (it suspends and resumes nobody), a  *)
(* push or a pop of the stack of parents.  StepShape says so once, with    *)
(* what each does to the flag, the depth and the state a static frame may  *)
(* not write; the invariants of the state only reason about those shapes.  *)
(***************************************************************************)
EXTENDS VmProperties, InductionProofs

----------------------------------------------------------------------------
(* The meter: every operation keeps its type, baseline and grant bound.    *)

\* What an operation on a running meter keeps: the frame's rollback still
\* returns the reservoir it was entered with, and it has gained no gas.
Sound(m) == m \in MeterSet /\ Baseline(m) /\ WithinGrant(m)

\* The history fields, which every operation leaves alone.
SameHistory(m, n) == n.grant = m.grant /\ n.entry = m.entry

\* call-enter.bend:32, vm.bend:66.  A frame starts sound.
LEMMA FreshSound ==
  ASSUME NEW gas \in Nat, NEW reservoir \in Nat
  PROVE  /\ Sound(FreshMeter(gas, reservoir))
         /\ SpillsLast(FreshMeter(gas, reservoir))
  BY DEF Sound, FreshMeter, MeterSet, Baseline, WithinGrant, SpillsLast

\* gas.bend:16-24.  A charge that can be paid keeps the meter sound.
LEMMA ChargeSound ==
  ASSUME NEW m, Sound(m), NEW cost \in Nat, CanCharge(m, cost)
  PROVE  /\ Sound(Charge(m, cost))
         /\ SameHistory(m, Charge(m, cost))
         /\ SpillsLast(m) => SpillsLast(Charge(m, cost))
         /\ Charge(m, cost).gas + cost = m.gas
         /\ Charge(m, cost).used = m.used
         /\ Charge(m, cost).spilled = m.spilled
         /\ Charge(m, cost).reservoir = m.reservoir
  BY DEF Sound, Charge, CanCharge, MeterSet, Baseline, WithinGrant, SameHistory, SpillsLast

\* gas.bend:36-50.  State gas that can be paid keeps the meter sound, and
\* execution gas pays only what the reservoir could not.
LEMMA SpendStateSound ==
  ASSUME NEW m, Sound(m), NEW cost \in Nat, CanSpendState(m, cost)
  PROVE  /\ Sound(SpendState(m, cost))
         /\ SameHistory(m, SpendState(m, cost))
         /\ SpillsLast(m) => SpillsLast(SpendState(m, cost))
         /\ SpendState(m, cost).gas + SpendState(m, cost).spilled = m.gas + m.spilled
<1> DEFINE fromReservoir == Least(cost, m.reservoir)
           spill == Spill(m, cost)
<1>1. m \in MeterSet
  BY DEF Sound
<1>2. /\ fromReservoir \in Nat /\ spill \in Nat
      /\ fromReservoir + spill = cost
      /\ fromReservoir <= m.reservoir
      /\ spill # 0 => fromReservoir = m.reservoir
      /\ spill <= m.gas
  BY <1>1 DEF Spill, Least, CanSpendState, CanCharge, MeterSet
<1>3. /\ SpendState(m, cost) \in MeterSet /\ SameHistory(m, SpendState(m, cost))
      /\ SpendState(m, cost).gas = m.gas - spill
      /\ SpendState(m, cost).reservoir = m.reservoir - fromReservoir
      /\ SpendState(m, cost).used = m.used + cost
      /\ SpendState(m, cost).spilled = m.spilled + spill
  <2>1. /\ m.gas - spill \in Nat /\ m.reservoir - fromReservoir \in Nat
        /\ m.used + cost \in Int /\ m.spilled + spill \in Nat
    BY <1>1, <1>2 DEF MeterSet
  <2>2. SpendState(m, cost) =
          [m EXCEPT !.gas = m.gas - spill, !.reservoir = m.reservoir - fromReservoir,
                    !.used = m.used + cost, !.spilled = m.spilled + spill]
    BY DEF SpendState
  <2> HIDE DEF fromReservoir, spill
  <2> QED
    BY <1>1, <2>1, <2>2 DEF MeterSet, SameHistory
<1> HIDE DEF fromReservoir, spill
<1> QED
  BY <1>1, <1>2, <1>3
  DEF Sound, MeterSet, SameHistory, Baseline, WithinGrant, SpillsLast

\* gas.bend:52-62.  A refill repairs the spill before it fills the reservoir.
LEMMA RefillSound ==
  ASSUME NEW m, Sound(m), NEW amount \in Nat
  PROVE  /\ Sound(Refill(m, amount))
         /\ SameHistory(m, Refill(m, amount))
         /\ SpillsLast(m) => SpillsLast(Refill(m, amount))
         /\ Refill(m, amount).gas + Refill(m, amount).spilled = m.gas + m.spilled
<1> DEFINE back == Least(amount, m.spilled)
<1>1. m \in MeterSet
  BY DEF Sound
<1>2. /\ back \in Nat /\ back <= amount /\ back <= m.spilled
      /\ back < amount => back = m.spilled
  BY <1>1 DEF Least, MeterSet
<1>3. /\ Refill(m, amount) \in MeterSet /\ SameHistory(m, Refill(m, amount))
      /\ Refill(m, amount).gas = m.gas + back
      /\ Refill(m, amount).reservoir = m.reservoir + (amount - back)
      /\ Refill(m, amount).used = m.used - amount
      /\ Refill(m, amount).spilled = m.spilled - back
  <2>1. /\ m.gas + back \in Nat /\ m.reservoir + (amount - back) \in Nat
        /\ m.used - amount \in Int /\ m.spilled - back \in Nat
    BY <1>1, <1>2 DEF MeterSet
  <2>2. Refill(m, amount) =
          [m EXCEPT !.gas = m.gas + back, !.reservoir = m.reservoir + (amount - back),
                    !.used = m.used - amount, !.spilled = m.spilled - back]
    BY DEF Refill
  <2> HIDE DEF back
  <2> QED
    BY <1>1, <2>1, <2>2 DEF MeterSet, SameHistory
<1> DEFINE n == Refill(m, amount)
<1> HIDE DEF back, n
<1>4. /\ Baseline(n) /\ WithinGrant(n) /\ n.gas + n.spilled = m.gas + m.spilled
      /\ SpillsLast(m) => SpillsLast(n)
  BY <1>1, <1>2, <1>3
  DEF n, Sound, MeterSet, SameHistory, Baseline, WithinGrant, SpillsLast
<1> QED
  BY <1>3, <1>4 DEF n, Sound, MeterSet, SameHistory, Baseline, WithinGrant, SpillsLast

\* model.bend:658.  An exhausted frame has no gas and keeps its reservoir.
LEMMA ExhaustSound ==
  ASSUME NEW m, Sound(m)
  PROVE  /\ Sound(Exhaust(m))
         /\ SameHistory(m, Exhaust(m))
         /\ SpillsLast(m) => SpillsLast(Exhaust(m))
  BY DEF Sound, Exhaust, MeterSet, Baseline, WithinGrant, SameHistory, SpillsLast

\* gas.bend:80-83.  The subtraction under to_nat never wraps, and what comes
\* back is the reservoir of the frame's entry.
LEMMA RollbackSound ==
  ASSUME NEW m, Sound(m)
  PROVE  /\ Sound(Rollback(m))
         /\ SameHistory(m, Rollback(m))
         /\ Rollback(m).reservoir = m.entry
         /\ Rollback(m).used = 0
         /\ Rollback(m).spilled = 0
         /\ Rollback(m).gas = m.gas + m.spilled
<1>1. m \in MeterSet
  BY DEF Sound
<1>2. ToNat(m.reservoir + m.used - m.spilled) = m.entry
  BY <1>1 DEF ToNat, Sound, Baseline, MeterSet
<1>3. /\ Rollback(m) \in MeterSet /\ SameHistory(m, Rollback(m))
      /\ Rollback(m).gas = m.gas + m.spilled /\ Rollback(m).reservoir = m.entry
      /\ Rollback(m).used = 0 /\ Rollback(m).spilled = 0
  <2>1. m.gas + m.spilled \in Nat /\ m.entry \in Nat /\ 0 \in Int /\ 0 \in Nat
    BY <1>1 DEF MeterSet
  <2>2. Rollback(m) = [m EXCEPT !.gas = m.gas + m.spilled, !.reservoir = m.entry,
                                !.used = 0, !.spilled = 0]
    BY <1>2 DEF Rollback
  <2> QED
    BY <1>1, <2>1, <2>2 DEF MeterSet, SameHistory
<1> QED
  BY <1>1, <1>3 DEF Sound, MeterSet, SameHistory, Baseline, WithinGrant

\* gas.bend:85-100.  A settled frame still returns its entry reservoir.
LEMMA SettleSound ==
  ASSUME NEW m, Sound(m), NEW succeeded \in BOOLEAN, NEW reverted \in BOOLEAN
  PROVE  /\ Sound(Settle(m, succeeded, reverted))
         /\ SameHistory(m, Settle(m, succeeded, reverted))
         /\ ~succeeded => /\ Settle(m, succeeded, reverted).used = 0
                          /\ Settle(m, succeeded, reverted).spilled = 0
         /\ succeeded => Settle(m, succeeded, reverted) = m
  BY RollbackSound DEF Settle, Sound, Exhaust, MeterSet, Baseline, WithinGrant, SameHistory

\* call-finish.bend:36-42.  A parent that takes back a settled child is sound
\* again, and its spill is repaired as far as the reservoir reaches.
LEMMA MergedSound ==
  ASSUME NEW parent \in MeterSet, NEW child, Sound(child),
         NEW succeeded \in BOOLEAN,
         ~succeeded => child.used = 0 /\ child.spilled = 0,
         BaselineLink(parent, child), GrantLink(parent, child)
  PROVE  /\ Sound(Merged(parent, child, succeeded))
         /\ SameHistory(parent, Merged(parent, child, succeeded))
         /\ SpillsLast(Merged(parent, child, succeeded))
         /\ Merged(parent, child, succeeded).gas + Merged(parent, child, succeeded).spilled
              = parent.gas + parent.spilled + child.gas + child.spilled
<1> DEFINE kept == IF succeeded THEN child
                   ELSE [child EXCEPT !.used = 0, !.spilled = 0]
           joint == [parent EXCEPT !.gas = @ + child.gas, !.used = @ + kept.used,
                                   !.spilled = @ + kept.spilled]
           restore == Least(child.reservoir, joint.spilled)
<1>1. child \in MeterSet /\ kept.used = child.used /\ kept.spilled = child.spilled
  BY DEF Sound, MeterSet
<1> HIDE DEF kept
<1>2. /\ joint \in MeterSet /\ SameHistory(parent, joint)
      /\ joint.gas = parent.gas + child.gas
      /\ joint.used = parent.used + child.used
      /\ joint.spilled = parent.spilled + child.spilled
  <2>1. /\ parent.gas + child.gas \in Nat /\ parent.used + child.used \in Int
        /\ parent.spilled + child.spilled \in Nat
    BY <1>1 DEF MeterSet
  <2> QED
    BY <1>1, <2>1 DEF MeterSet, SameHistory
<1>3. Merged(parent, child, succeeded) = Absorb(joint, child.reservoir)
  BY DEF Merged, kept
<1> HIDE DEF joint
<1>4. /\ restore \in Nat /\ restore <= child.reservoir /\ restore <= joint.spilled
      /\ restore < joint.spilled => restore = child.reservoir
  BY <1>1, <1>2 DEF Least, MeterSet
<1> DEFINE merged == Absorb(joint, child.reservoir)
<1>5. /\ merged \in MeterSet /\ SameHistory(joint, merged)
      /\ merged.gas = joint.gas + restore
      /\ merged.reservoir = child.reservoir - restore
      /\ merged.used = joint.used
      /\ merged.spilled = joint.spilled - restore
  <2>1. /\ joint.gas + restore \in Nat /\ child.reservoir - restore \in Nat
        /\ joint.spilled - restore \in Nat
    BY <1>1, <1>2, <1>4 DEF MeterSet
  <2>2. merged = [joint EXCEPT !.gas = joint.gas + restore,
                               !.reservoir = child.reservoir - restore,
                               !.spilled = joint.spilled - restore]
    BY <1>2 DEF Absorb, MeterSet
  <2> HIDE DEF restore, merged
  <2> QED
    BY <1>2, <2>1, <2>2 DEF MeterSet, SameHistory
<1> HIDE DEF restore, merged
<1>6. Sound(merged) /\ SameHistory(parent, merged) /\ SpillsLast(merged)
  BY <1>1, <1>2, <1>4, <1>5
  DEF Sound, MeterSet, SameHistory, Baseline, WithinGrant, SpillsLast,
      BaselineLink, GrantLink
<1>7. merged.gas + merged.spilled = parent.gas + parent.spilled + child.gas + child.spilled
  BY <1>1, <1>2, <1>4, <1>5 DEF MeterSet
<1> QED
  BY <1>3, <1>6, <1>7 DEF merged

----------------------------------------------------------------------------
(* The world: moving ether keeps its type, as its callers check the balance.*)

\* world.bend:34-36.  Putting one account changes that account alone.
LEMMA PutType ==
  ASSUME NEW w \in WorldSet, NEW x \in Address, NEW account \in AccountSet
  PROVE  /\ Put(w, x, account) \in WorldSet
         /\ Put(w, x, account).accounts[x] = account
         /\ \A y \in Address \ {x} : Put(w, x, account).accounts[y] = w.accounts[y]
  BY DEF Put, WorldSet

\* model.bend:650-654.  An account without storage reads zero everywhere.
LEMMA ZeroSlotsType == ZeroSlots \in [Key -> Value]
  BY WorldAssumption DEF ZeroSlots

\* world.bend:47-53.  Pruning an account keeps its balance and its nonce.
LEMMA ModifiedType ==
  ASSUME NEW account \in AccountSet
  PROVE  /\ Modified(account) \in AccountSet
         /\ Modified(account).balance = account.balance
         /\ Modified(account).nonce = account.nonce
  BY ZeroSlotsType DEF Modified, AccountSet, NoCode, CodeSet

\* world.bend:55-56.  Modifying an account keeps the type of the world.
LEMMA ModifyType ==
  ASSUME NEW w \in WorldSet, NEW x \in Address, NEW account \in AccountSet
  PROVE  /\ Modify(w, x, account) \in WorldSet
         /\ Modify(w, x, account).accounts[x].balance = account.balance
         /\ Modify(w, x, account).accounts[x].nonce = account.nonce
         /\ \A y \in Address \ {x} : Modify(w, x, account).accounts[y] = w.accounts[y]
  BY PutType, ModifiedType DEF Modify

\* world.bend:60-63.  A balance that stays natural keeps the world well typed.
LEMMA CreditType ==
  ASSUME NEW w \in WorldSet, NEW x \in Address, NEW delta \in Int,
         w.accounts[x].balance + delta \in Nat
  PROVE  /\ Credit(w, x, delta) \in WorldSet
         /\ Credit(w, x, delta).accounts[x].balance = w.accounts[x].balance + delta
         /\ \A y \in Address \ {x} : Credit(w, x, delta).accounts[y] = w.accounts[y]
<1> DEFINE account == [w.accounts[x] EXCEPT !.balance = @ + delta]
<1>1. account \in AccountSet /\ account.balance = w.accounts[x].balance + delta
  <2>1. w.accounts[x] \in AccountSet
    BY DEF WorldSet
  <2> QED
    BY <2>1 DEF AccountSet
<1> HIDE DEF account
<1> QED
  BY <1>1, ModifyType DEF Credit, account

\* world.bend:58-63.  Moving ether a sender has leaves no negative balance.
LEMMA MoveEtherType ==
  ASSUME NEW w \in WorldSet, NEW source \in Address, NEW target \in Address,
         NEW value \in Nat, value <= w.accounts[source].balance
  PROVE  MoveEther(w, source, target, value) \in WorldSet
<1> DEFINE debited == Credit(w, source, -value)
<1>1. w.accounts[source].balance \in Nat /\ w.accounts[target].balance \in Nat
  <2>1. w.accounts[source] \in AccountSet /\ w.accounts[target] \in AccountSet
    BY DEF WorldSet
  <2> QED
    BY <2>1 DEF AccountSet
<1>2. -value \in Int /\ w.accounts[source].balance + (-value) \in Nat
  BY <1>1
<1>3. debited \in WorldSet /\ debited.accounts[target].balance \in Nat
  BY SMTT(30), <1>1, <1>2, CreditType
<1>4. debited.accounts[target].balance + value \in Nat
  BY <1>3
<1> HIDE DEF debited
<1> QED
  BY <1>3, <1>4, CreditType DEF MoveEther, debited

\* world.bend:65-76.  The same of the transfer that skips a zero value.
LEMMA TransferType ==
  ASSUME NEW w \in WorldSet, NEW source \in Address, NEW target \in Address,
         NEW value \in Nat, value <= w.accounts[source].balance
  PROVE  Transfer(w, source, target, value) \in WorldSet
  BY MoveEtherType DEF Transfer

\* world.bend:78-79.  Warming changes neither balances, nonces nor code.
LEMMA WarmAccountType ==
  ASSUME NEW w \in WorldSet, NEW x \in Address
  PROVE  /\ WarmAccount(w, x) \in WorldSet
         /\ \A y \in Address :
              /\ WarmAccount(w, x).accounts[y].balance = w.accounts[y].balance
              /\ WarmAccount(w, x).accounts[y].nonce = w.accounts[y].nonce
              /\ WarmAccount(w, x).accounts[y].code = w.accounts[y].code
<1> DEFINE account == [w.accounts[x] EXCEPT !.warm = TRUE]
<1>1. w.accounts[x] \in AccountSet
  BY DEF WorldSet
<1>2. /\ account \in AccountSet /\ account.balance = w.accounts[x].balance
      /\ account.nonce = w.accounts[x].nonce /\ account.code = w.accounts[x].code
  BY <1>1 DEF AccountSet
<1>3. WarmAccount(w, x) = Put(w, x, account)
  BY DEF WarmAccount, Put, WorldSet
<1> HIDE DEF account
<1> QED
  BY <1>2, <1>3, PutType

\* create-enter.bend:38.  Spending a nonce moves no ether.
LEMMA IncrementNonceType ==
  ASSUME NEW w \in WorldSet, NEW x \in Address
  PROVE  /\ IncrementNonce(w, x) \in WorldSet
         /\ IncrementNonce(w, x).accounts[x].nonce = w.accounts[x].nonce + 1
         /\ \A y \in Address :
              IncrementNonce(w, x).accounts[y].balance = w.accounts[y].balance
<1> DEFINE account == [w.accounts[x] EXCEPT !.nonce = @ + 1]
<1>1. /\ account \in AccountSet /\ account.nonce = w.accounts[x].nonce + 1
      /\ account.balance = w.accounts[x].balance
  <2>1. w.accounts[x] \in AccountSet
    BY DEF WorldSet
  <2> QED
    BY <2>1 DEF AccountSet
<1> DEFINE after == Modify(w, x, account)
<1> HIDE DEF account
<1>2. /\ after \in WorldSet /\ after.accounts[x].nonce = account.nonce
      /\ after.accounts[x].balance = account.balance
      /\ \A y \in Address \ {x} : after.accounts[y] = w.accounts[y]
  BY <1>1, ModifyType
<1>3. IncrementNonce(w, x) = after
  BY DEF IncrementNonce, account
<1> HIDE DEF after
<1> QED
  BY <1>1, <1>2, <1>3

\* create-finish.bend:10-16.  Depositing code keeps the world well typed.
LEMMA SetCodeType ==
  ASSUME NEW w \in WorldSet, NEW x \in Address, NEW code \in CodeSet
  PROVE  SetCode(w, x, code) \in WorldSet
<1>1. [w.accounts[x] EXCEPT !.code = code] \in AccountSet
  <2>1. w.accounts[x] \in AccountSet
    BY DEF WorldSet
  <2> QED
    BY <2>1 DEF AccountSet
<1> QED
  BY <1>1, ModifyType DEF SetCode

\* world.bend:81-131.  Warming and writing slots, persistent and transient,
\* changes one account's maps only.
LEMMA StorageTypes ==
  ASSUME NEW w \in WorldSet, NEW x \in Address, NEW k \in Key, NEW v \in Value
  PROVE  /\ WarmStorage(w, x, k) \in WorldSet
         /\ SetStorage(w, x, k, v) \in WorldSet
         /\ SetTransient(w, x, k, v) \in WorldSet
<1>1. w.accounts[x] \in AccountSet
  BY DEF WorldSet
<1>2. /\ [w.accounts[x] EXCEPT !.slots = @ \cup {k}] \in AccountSet
      /\ [w.accounts[x] EXCEPT !.storage[k] = v] \in AccountSet
      /\ [w.accounts[x] EXCEPT !.transient[k] = v] \in AccountSet
  BY <1>1 DEF AccountSet
<1> QED
  BY <1>2 DEF WarmStorage, SetStorage, SetTransient, WorldSet

\* world.bend:133-134.  The refund counter is signed.
LEMMA AddRefundType ==
  ASSUME NEW w \in WorldSet, NEW delta \in Int
  PROVE  AddRefund(w, delta) \in WorldSet
  BY DEF AddRefund, WorldSet

\* world.bend:136-142.  Logs only grow at the end.
LEMMA LogType ==
  ASSUME NEW w \in WorldSet, NEW event \in LogSet
  PROVE  /\ Log(w, event) \in WorldSet
         /\ Log(w, event).accounts = w.accounts
<1>1. Append(w.logs, event) \in Seq(LogSet)
  <2>1. w.logs \in Seq(LogSet)
    BY DEF WorldSet
  <2> QED
    BY <2>1
<1> DEFINE logs == Append(w.logs, event)
<1>2. Log(w, event) = [w EXCEPT !.logs = logs]
  BY DEF Log
<1> HIDE DEF logs
<1>3. logs \in Seq(LogSet)
  BY <1>1 DEF logs
<1> QED
  BY <1>2, <1>3 DEF WorldSet

\* call-common.bend:61-68.  A transfer's log is a log.
LEMMA TransferLogType ==
  ASSUME NEW w \in WorldSet, NEW source \in Address, NEW target \in Address,
         NEW value \in Nat
  PROVE  TransferLog(w, source, target, value) \in WorldSet
<1> DEFINE topics == <<source, target>>
           event == [address |-> SystemAddress, topics |-> topics, data |-> value]
<1>1. topics \in Seq(Address)
  OBVIOUS
<1> HIDE DEF topics
<1>2. event \in LogSet
  BY <1>1 DEF LogSet
<1>3. TransferLog(w, source, target, value) = w \/
      TransferLog(w, source, target, value) = Log(w, event)
  BY DEF TransferLog, topics
<1> HIDE DEF event
<1> QED
  BY <1>2, <1>3, LogType

----------------------------------------------------------------------------
(* The machine.                                                            *)

\* A frame that has spilled state gas had no reservoir left to hand down.
SpillLink(parent, child) == parent.spilled = 0 \/ child.entry = 0

Links(parent, child) ==
  BaselineLink(parent, child) /\ GrantLink(parent, child) /\ SpillLink(parent, child)

Linked == \A i \in DOMAIN parents : Links(parents[i].meter, ChildMeter(i))

MeterInv == Sound(meter) /\ SpillsLast(meter) /\ Linked

IInv == TypeOK /\ MeterInv

\* The reservoir that the outermost frame was entered with.
RootEntry == IF parents = <<>> THEN meter.entry ELSE parents[1].meter.entry

\* The execution gas that it was granted.
RootGrant == IF parents = <<>> THEN meter.grant ELSE parents[1].meter.grant

\* A step that keeps the invariant, that reservoir and that gas.
Forward == IInv' /\ RootEntry' = RootEntry /\ RootGrant' = RootGrant

----------------------------------------------------------------------------
(* The constants.                                                          *)

\* Every price of the schedule is a natural number.
LEMMA PricesNat ==
  /\ WarmAccess \in Nat /\ ColdAccount \in Nat /\ ColdSlot \in Nat
  /\ SlotWrite \in Nat /\ SlotState \in Nat /\ ClearRefund \in Nat
  /\ ResetRefund \in Nat /\ Sentry \in Nat /\ LogBase \in Nat
  /\ CallValue \in Nat /\ Stipend \in Nat /\ NewAccount \in Nat
  /\ CreateBase \in Nat /\ DestructBase \in Nat /\ DestructCold \in Nat
  /\ DestructTopup \in Nat /\ CodeWord \in Nat /\ CodeByte \in Nat
  /\ CodeLimit \in Nat /\ CapDivisor \in Nat \ {0} /\ MaxDepth \in Nat
  /\ NonceLimit \in Nat
  BY ScheduleAssumption

\* So is every cost and amount that a program can present.
LEMMA InputsNat ==
  /\ InitGas \subseteq Nat /\ InitReservoir \subseteq Nat /\ Amount \subseteq Nat
  /\ RequestGas \subseteq Nat /\ ComputeCost \subseteq Nat /\ MemoryCost \subseteq Nat
  BY ProgramAssumption

----------------------------------------------------------------------------
(* Frames.                                                                 *)

\* A frame whose action is replaced by a well-formed one is well formed.
LEMMA ActionType ==
  ASSUME NEW f \in FrameSet, NEW action \in ActionSet
  PROVE  [f EXCEPT !.action = action] \in FrameSet
  BY DEF FrameSet

\* model.bend:460-463.  An action without operands is one.
LEMMA PlainType ==
  ASSUME NEW op \in Terminal \cup {"Running", "Precompile", "HostLimit"}
  PROVE  Plain(op) \in ActionSet
  BY DEF Plain, ActionSet

\* model.bend:460-463.  A frame with another such action is a frame.
LEMMA WithActionType ==
  ASSUME NEW f \in FrameSet,
         NEW op \in Terminal \cup {"Running", "Precompile", "HostLimit"}
  PROVE  WithAction(f, op) \in FrameSet
  BY ActionType, PlainType DEF WithAction

\* An exit replaces the output as well.
LEMMA OutputType ==
  ASSUME NEW f \in FrameSet, NEW output \in CodeSet,
         NEW op \in Terminal \cup {"Running", "Precompile", "HostLimit"}
  PROVE  [WithAction(f, op) EXCEPT !.output = output] \in FrameSet
  BY WithActionType DEF FrameSet

\* The empty code is code.
LEMMA NoCodeType == NoCode \in CodeSet
  BY DEF NoCode, CodeSet

\* A call request carries its kind, gas, target and value.
LEMMA CallRequestType ==
  ASSUME TypeOK, Calling
  PROVE  /\ Request.kind \in CallKind /\ Request.gas \in Nat
         /\ Request.target \in Address /\ Request.value \in Nat
  BY DEF TypeOK, FrameSet, ActionSet, Calling, Request, Terminal, Successful

\* A creation request carries its endowment.
LEMMA CreateRequestType ==
  ASSUME TypeOK, Creating
  PROVE  Request.value \in Nat
  BY DEF TypeOK, FrameSet, ActionSet, Creating, Request, Terminal, Successful

\* A self-destruct request carries its recipient.
LEMMA DestructRequestType ==
  ASSUME TypeOK, Destroying
  PROVE  Request.target \in Address
  BY DEF TypeOK, FrameSet, ActionSet, Destroying, Request, Terminal, Successful

----------------------------------------------------------------------------
(* Steps that leave the parents alone, push one, and pop one.              *)

\* A step of the running frame that suspends and resumes nobody keeps the
\* invariant if it keeps its meter sound and its history.
LEMMA Quiet ==
  ASSUME IInv, frame' \in FrameSet, world' \in WorldSet, parents' = parents,
         Sound(meter'), SpillsLast(meter'), SameHistory(meter, meter')
  PROVE  Forward
<1>1. TypeOK'
  BY DEF IInv, TypeOK, Sound
<1>2. Linked'
  BY DEF IInv, MeterInv, Linked, ChildMeter, Links, BaselineLink, GrantLink, SpillLink,
         SameHistory
<1>3. RootEntry' = RootEntry /\ RootGrant' = RootGrant
  BY DEF RootEntry, RootGrant, SameHistory
<1> QED
  BY <1>1, <1>2, <1>3 DEF Forward, IInv, MeterInv

\* A faulting step keeps it, whatever well-typed world it leaves.
LEMMA FaultStep ==
  ASSUME IInv, Fault, world' \in WorldSet, parents' = parents
  PROVE  Forward
<1>1. FaultFrame \in FrameSet
  BY OutputType, NoCodeType DEF FaultFrame, IInv, TypeOK, Terminal
<1>2. /\ Sound(meter') /\ SpillsLast(meter') /\ SameHistory(meter, meter')
  BY ExhaustSound DEF IInv, MeterInv, Fault
<1> QED
  BY <1>1, <1>2, Quiet DEF Fault

\* A charge that can be paid keeps it.
LEMMA ChargeStep ==
  ASSUME IInv, NEW cost \in Nat, CanCharge(meter, cost), meter' = Charge(meter, cost),
         frame' \in FrameSet, world' \in WorldSet, parents' = parents
  PROVE  Forward
  BY ChargeSound, Quiet DEF IInv, MeterInv

\* Suspending the running frame links it to its child.
LEMMA Push ==
  ASSUME IInv, NEW parent \in ParentSet, parents' = Append(parents, parent),
         frame' \in FrameSet, world' \in WorldSet, Sound(meter'), SpillsLast(meter'),
         SameHistory(meter, parent.meter),
         Links(parent.meter, meter')
  PROVE  Forward
<1>1. parents \in Seq(ParentSet)
  BY DEF IInv, TypeOK
<1>2. /\ parents' \in Seq(ParentSet)
      /\ Len(parents') = Len(parents) + 1
      /\ parents'[Len(parents) + 1] = parent
      /\ \A i \in 1..Len(parents) : parents'[i] = parents[i]
      /\ Len(parents) \in Nat
  BY <1>1
<1>3. TypeOK'
  BY <1>2 DEF TypeOK, Sound
<1>4. Linked'
  <2> SUFFICES ASSUME NEW i \in 1..Len(parents')
               PROVE  Links(parents'[i].meter, ChildMeter(i)')
    BY <1>2 DEF Linked
  <2>1. CASE i = Len(parents) + 1
    BY <1>2, <2>1 DEF ChildMeter
  <2>2. CASE i = Len(parents)
    <3>1. i \in 1..Len(parents) /\ ChildMeter(i) = meter
      BY <2>2 DEF ChildMeter
    <3>2. ChildMeter(i)' = parent.meter
      BY <1>2, <2>2 DEF ChildMeter
    <3>3. Links(parents[i].meter, meter)
      BY <1>1, <3>1 DEF IInv, MeterInv, Linked
    <3> QED
      BY <1>2, <3>1, <3>2, <3>3 DEF SameHistory, Links, BaselineLink, GrantLink, SpillLink
  <2>3. CASE i < Len(parents)
    <3>1. i \in 1..Len(parents) /\ i + 1 \in 1..Len(parents)
      BY <1>2, <2>3
    <3>2. ChildMeter(i)' = ChildMeter(i)
      BY <1>2, <2>3, <3>1 DEF ChildMeter
    <3>3. Links(parents[i].meter, ChildMeter(i))
      BY <1>1, <3>1 DEF IInv, MeterInv, Linked
    <3> QED
      BY <1>2, <3>1, <3>2, <3>3
  <2> QED
    BY <1>2, <2>1, <2>2, <2>3
<1>5. RootEntry' = RootEntry /\ RootGrant' = RootGrant
  BY <1>1, <1>2 DEF RootEntry, RootGrant, SameHistory
<1> QED
  BY <1>3, <1>4, <1>5 DEF Forward, IInv, MeterInv

\* The front of a sequence is the sequence without its last element.
LEMMA FrontProperties ==
  ASSUME NEW S, NEW s \in Seq(S), Len(s) \in Nat \ {0}
  PROVE  /\ Front(s) \in Seq(S)
         /\ Len(Front(s)) = Len(s) - 1
         /\ \A i \in 1..Len(s) - 1 : Front(s)[i] = s[i]
<1> DEFINE n == Len(s) - 1
<1>1. n \in Nat /\ \A i \in 1..n : s[i] \in S
  OBVIOUS
<1>2. Front(s) = SubSeq(s, 1, n)
  BY DEF Front
<1> HIDE DEF n
<1>3. /\ SubSeq(s, 1, n) \in Seq(S)
      /\ Len(SubSeq(s, 1, n)) = n
      /\ \A i \in 1..n : SubSeq(s, 1, n)[i] = s[i]
  BY <1>1
<1> QED
  BY <1>2, <1>3 DEF n

\* Resuming the innermost parent leaves the links above it as they were.
LEMMA Pop ==
  ASSUME IInv, parents # <<>>, parents' = Front(parents),
         frame' \in FrameSet, world' \in WorldSet, Sound(meter'), SpillsLast(meter'),
         SameHistory(Waiting.meter, meter')
  PROVE  Forward
<1>1. parents \in Seq(ParentSet) /\ Len(parents) \in Nat \ {0}
  BY DEF IInv, TypeOK
<1>2. /\ parents' \in Seq(ParentSet)
      /\ Len(parents') = Len(parents) - 1
      /\ \A i \in 1..Len(parents) - 1 : parents'[i] = parents[i]
  BY <1>1, FrontProperties
<1>3. TypeOK'
  BY <1>2 DEF TypeOK, Sound
<1>4. Linked'
  <2> SUFFICES ASSUME NEW i \in 1..Len(parents) - 1
               PROVE  Links(parents'[i].meter, ChildMeter(i)')
    BY <1>1, <1>2 DEF Linked
  <2>1. /\ i \in 1..Len(parents) /\ i + 1 \in 1..Len(parents)
        /\ ChildMeter(i) = parents[i + 1].meter
    BY <1>1 DEF ChildMeter
  <2>2. Links(parents[i].meter, ChildMeter(i))
    BY <1>1, <2>1 DEF IInv, MeterInv, Linked
  <2>3. ChildMeter(i)' = parents[i + 1].meter \/
        (i + 1 = Len(parents) /\ ChildMeter(i)' = meter')
    BY <1>1, <1>2, <2>1 DEF ChildMeter
  <2>4. ChildMeter(i)'.entry = ChildMeter(i).entry
        /\ ChildMeter(i)'.grant = ChildMeter(i).grant
    BY <2>1, <2>3 DEF Waiting, Last, SameHistory
  <2> QED
    BY <1>2, <2>2, <2>4 DEF Links, BaselineLink, GrantLink, SpillLink
<1>5. RootEntry' = RootEntry /\ RootGrant' = RootGrant
  BY <1>1, <1>2 DEF RootEntry, RootGrant, Waiting, Last, SameHistory
<1> QED
  BY <1>3, <1>4, <1>5 DEF Forward, IInv, MeterInv

----------------------------------------------------------------------------
(* Instructions.                                                           *)

\* vm.bend:46-48.  Every instruction of the running frame keeps the invariant.
LEMMA ExecuteStep ==
  ASSUME IInv, Execute
  PROVE  Forward
<1> USE PricesNat, InputsNat
<1>1. /\ frame \in FrameSet /\ meter \in MeterSet /\ world \in WorldSet
      /\ frame.address \in Address /\ frame.code \in CodeSet
      /\ Sound(meter) /\ SpillsLast(meter) /\ SameHistory(meter, meter)
  BY DEF IInv, TypeOK, FrameSet, MeterInv, SameHistory
<1>2. CASE Throw
  BY <1>1, <1>2, FaultStep DEF Throw
<1>3. CASE Stop
  BY <1>1, <1>3, Quiet, OutputType, NoCodeType DEF Stop, Terminal, Successful
<1>4. CASE \E cost \in ComputeCost : Compute(cost)
  BY <1>1, <1>4, ChargeStep DEF Compute
<1>5. CASE \E op \in {"Returned", "Reverted"}, output \in Output, cost \in MemoryCost :
             Exit(op, output, cost)
  <2>1. PICK op \in {"Returned", "Reverted"}, output \in Output, cost \in MemoryCost :
          Exit(op, output, cost)
    BY <1>5
  <2>2. output \in CodeSet
    BY ProgramAssumption
  <2>3. frame' \in FrameSet
    BY <1>1, <2>1, <2>2, OutputType DEF Exit, Terminal, Successful
  <2> QED
    BY <1>1, <2>1, <2>3, ChargeStep DEF Exit
<1>6. CASE \E a \in Address, cost \in MemoryCost : Touch(a, cost)
  <2>1. PICK a \in Address, cost \in MemoryCost : Touch(a, cost)
    BY <1>6
  <2>2. AccountAccess(world.accounts[a]) + cost \in Nat
    BY DEF AccountAccess
  <2> QED
    BY <1>1, <2>1, <2>2, ChargeStep, WarmAccountType DEF Touch
<1>7. CASE \E k \in Key : Sload(k)
  <2>1. PICK k \in Key : Sload(k)
    BY <1>7
  <2>2. SlotAccess(Self, k) \in Nat /\ world' \in WorldSet
    BY <1>1, <2>1, StorageTypes, WorldAssumption DEF SlotAccess, Sload
  <2> QED
    BY <1>1, <2>1, <2>2, ChargeStep DEF Sload
<1>8. CASE \E k \in Key, value \in Value : Sstore(k, value)
  <2>1. PICK k \in Key, value \in Value : Sstore(k, value)
    BY <1>8
  <2> DEFINE original == Self.original[k]
             current == Self.storage[k]
             price == SlotAccess(Self, k)
                      + (IF original = current /\ current # value THEN SlotWrite ELSE 0)
             paid == Charge(meter, price)
             refund == SlotRefund(original, current, value)
             warmed == WarmStorage(world, frame.address, k)
  <2>2. price \in Nat /\ refund \in Int
    BY DEF SlotAccess, SlotRefund
  <2>3. world' \in WorldSet
    <3>1. world' = AddRefund(SetStorage(warmed, frame.address, k, value), refund)
      BY <2>1 DEF Sstore
    <3>2. SetStorage(warmed, frame.address, k, value) \in WorldSet
      BY <1>1, StorageTypes
    <3> HIDE DEF refund, warmed
    <3> QED
      BY <2>2, <3>1, <3>2, AddRefundType
  <2>4. /\ CanCharge(meter, price) /\ frame' = frame /\ parents' = parents
        /\ \/ meter' = paid
           \/ meter' = SpendState(paid, SlotState) /\ CanSpendState(paid, SlotState)
           \/ meter' = Refill(paid, SlotState)
    BY <2>1 DEF Sstore
  <2> HIDE DEF price, refund, warmed
  <2>5. Sound(paid) /\ SpillsLast(paid) /\ SameHistory(meter, paid)
    BY <1>1, <2>2, <2>4, ChargeSound
  <2> HIDE DEF paid
  <2>6. Sound(meter') /\ SpillsLast(meter') /\ SameHistory(meter, meter')
    BY <2>4, <2>5, SpendStateSound, RefillSound DEF SameHistory
  <2> QED
    BY <1>1, <2>3, <2>4, <2>6, Quiet
<1>9. CASE \E k \in Key, value \in Value : Tstore(k, value)
  BY <1>1, <1>9, ChargeStep, StorageTypes DEF Tstore
<1>10. CASE \E cost \in MemoryCost : Emit(cost)
  <2>1. PICK cost \in MemoryCost : Emit(cost)
    BY <1>10
  <2> DEFINE event == [address |-> frame.address, topics |-> <<>>, data |-> 0]
  <2>2. event \in LogSet
    BY <1>1 DEF LogSet
  <2>3. /\ LogBase + cost \in Nat /\ CanCharge(meter, LogBase + cost)
        /\ meter' = Charge(meter, LogBase + cost)
        /\ world' = Log(world, event) /\ frame' = frame /\ parents' = parents
    BY <2>1 DEF Emit
  <2> HIDE DEF event
  <2> QED
    BY <1>1, <2>2, <2>3, ChargeStep, LogType
<1>11. CASE \E kind \in CallKind, gas \in RequestGas, target \in Address, value \in Amount :
              AskCall(kind, gas, target, value)
  <2>1. PICK kind \in CallKind, gas \in RequestGas, target \in Address, value \in Amount :
          AskCall(kind, gas, target, value)
    BY <1>11
  <2>2. [op |-> "Call", kind |-> kind, gas |-> gas, target |-> target, value |-> value]
          \in ActionSet
    BY DEF ActionSet
  <2>3. frame' \in FrameSet
    BY <1>1, <2>1, <2>2, ActionType DEF AskCall
  <2> QED
    BY <1>1, <2>1, <2>3, ChargeStep DEF AskCall
<1>12. CASE \E value \in Amount : AskCreate(value)
  <2>1. PICK value \in Amount : AskCreate(value)
    BY <1>12
  <2>2. [op |-> "Create", value |-> value] \in ActionSet
    BY DEF ActionSet
  <2>3. frame' \in FrameSet
    BY <1>1, <2>1, <2>2, ActionType DEF AskCreate
  <2> QED
    BY <1>1, <2>1, <2>3, Quiet DEF AskCreate
<1>13. CASE \E target \in Address : AskSelfDestruct(target)
  <2>1. PICK target \in Address : AskSelfDestruct(target)
    BY <1>13
  <2>2. [op |-> "SelfDestruct", target |-> target] \in ActionSet
    BY DEF ActionSet
  <2>3. frame' \in FrameSet
    BY <1>1, <2>1, <2>2, ActionType DEF AskSelfDestruct
  <2> QED
    BY <1>1, <2>1, <2>3, Quiet DEF AskSelfDestruct
<1> QED
  BY <1>2, <1>3, <1>4, <1>5, <1>6, <1>7, <1>8, <1>9, <1>10, <1>11, <1>12, <1>13
  DEF Execute

----------------------------------------------------------------------------
(* Calls.                                                                  *)

\* What the running frame brings to a request.
LEMMA RunningTyped ==
  ASSUME IInv
  PROVE  /\ frame \in FrameSet /\ frame.address \in Address /\ frame.code \in CodeSet
         /\ world \in WorldSet /\ meter \in MeterSet /\ parents \in Seq(ParentSet)
         /\ Sound(meter) /\ SpillsLast(meter) /\ SameHistory(meter, meter)
         /\ \A a \in Address : /\ world.accounts[a] \in AccountSet
                               /\ world.accounts[a].balance \in Nat
                               /\ world.accounts[a].code \in CodeSet
  BY DEF IInv, TypeOK, FrameSet, MeterInv, SameHistory, WorldSet, AccountSet

\* An account delegates to an account.
LEMMA DelegateType ==
  ASSUME NEW code \in CodeSet, Delegated(code)
  PROVE  code.to \in Address
  BY DEF CodeSet, Delegated

\* call-common.bend:70-78.  The state price of a new account keeps the meter
\* sound, and its refund too.
LEMMA BirthSound ==
  ASSUME NEW m, Sound(m), SpillsLast(m), NEW applies \in BOOLEAN
  PROVE  /\ CanSpendBirth(m, applies) =>
              /\ Sound(SpendBirth(m, applies))
              /\ SpillsLast(SpendBirth(m, applies))
              /\ SameHistory(m, SpendBirth(m, applies))
              /\ SpendBirth(m, applies).gas + SpendBirth(m, applies).spilled
                   = m.gas + m.spilled
         /\ Sound(RefillBirth(m, applies))
         /\ SpillsLast(RefillBirth(m, applies))
         /\ SameHistory(m, RefillBirth(m, applies))
         /\ RefillBirth(m, applies).gas + RefillBirth(m, applies).spilled = m.gas + m.spilled
<1>1. SameHistory(m, m) /\ NewAccount \in Nat
  BY PricesNat DEF SameHistory
<1> QED
  BY <1>1, SpendStateSound, RefillSound DEF CanSpendBirth, SpendBirth, RefillBirth

\* call-enter.bend:69-77.  The accounts a call warms.
LEMMA CallWorldType ==
  ASSUME IInv, Calling
  PROVE  /\ CallWorld \in WorldSet
         /\ CallWorld.accounts[frame.address].balance = Self.balance
<1>1. Request.target \in Address
  BY CallRequestType DEF IInv
<1>2. TargetWarmed \in WorldSet
      /\ TargetWarmed.accounts[frame.address].balance = Self.balance
  BY <1>1, RunningTyped, WarmAccountType DEF TargetWarmed, Self
<1>3. Delegated(Target.code) => Target.code.to \in Address
  BY <1>1, RunningTyped, DelegateType DEF Target
<1> QED
  BY <1>2, <1>3, RunningTyped, WarmAccountType DEF CallWorld

\* call-enter.bend:79-89.  The price of a call covers its stipend.
LEMMA CallPriceNat ==
  ASSUME IInv, Calling
  PROVE  CallPrice \in Nat /\ CallStipend \in Nat /\ CallStipend <= CallPrice
<1>1. /\ AccountAccess(Target) - WarmAccess \in Nat
      /\ AccountAccess(TargetWarmed.accounts[Target.code.to]) \in Nat
  BY PricesNat, ScheduleAssumption DEF AccountAccess
<1> QED
  BY <1>1, PricesNat, ScheduleAssumption DEF CallPrice, CallStipend

\* call-enter.bend:65-67.  A call that is paid for leaves a sound meter with
\* room for the stipend.
LEMMA CallPaidSound ==
  ASSUME IInv, Calling, NEW memory \in MemoryCost, CallAllowed(memory)
  PROVE  /\ Sound(CallPaid(memory)) /\ SpillsLast(CallPaid(memory))
         /\ SameHistory(meter, CallPaid(memory))
         /\ CallPaid(memory).gas + CallStipend + CallPaid(memory).spilled
              <= CallPaid(memory).grant
<1> DEFINE price == memory + CallPrice
           charged == Charge(meter, price)
           paid == SpendBirth(charged, BirthCharged)
<1>1. price \in Nat /\ CallStipend \in Nat /\ CallStipend <= price
  BY CallPriceNat, InputsNat
<1>2. CanCharge(meter, price) /\ CanSpendBirth(charged, BirthCharged)
  BY DEF CallAllowed
<1>3. BirthCharged \in BOOLEAN
  BY DEF BirthCharged, CarriesValue
<1> HIDE DEF price
<1>4. /\ Sound(charged) /\ SpillsLast(charged) /\ SameHistory(meter, charged)
      /\ charged.gas + price = meter.gas /\ charged.spilled = meter.spilled
  BY <1>1, <1>2, RunningTyped, ChargeSound
<1> HIDE DEF charged
<1>5. /\ Sound(paid) /\ SpillsLast(paid) /\ SameHistory(charged, paid)
      /\ paid.gas + paid.spilled = charged.gas + charged.spilled
  BY <1>2, <1>3, <1>4, BirthSound
<1> HIDE DEF paid
<1>6. /\ paid.gas \in Nat /\ paid.spilled \in Nat /\ paid.grant \in Nat
      /\ charged.gas \in Nat /\ charged.spilled \in Nat
      /\ meter.gas \in Nat /\ meter.spilled \in Nat /\ meter.grant \in Nat
      /\ meter.gas + meter.spilled <= meter.grant
      /\ paid.grant = meter.grant
  BY <1>4, <1>5, RunningTyped DEF Sound, MeterSet, SameHistory, WithinGrant
<1>7. paid.gas + CallStipend + paid.spilled <= paid.grant
  BY <1>1, <1>4, <1>5, <1>6
<1>8. CallPaid(memory) = paid
  BY DEF CallPaid, paid, charged, price
<1> QED
  BY <1>4, <1>5, <1>7, <1>8 DEF SameHistory

\* call-common.bend:80-81.  The cap leaves the caller part of its gas.
LEMMA CapNat ==
  ASSUME NEW gas \in Nat
  PROVE  Cap(gas) \in Nat /\ Cap(gas) <= gas
  BY PricesNat DEF Cap

\* call-enter.bend:36-41.  A refused call gives the stipend back and no more.
LEMMA CallRefusedStep ==
  ASSUME IInv, NEW memory \in MemoryCost, CallRefused(memory)
  PROVE  Forward
<1> DEFINE paid == CallPaid(memory)
           refunded == [paid EXCEPT !.gas = @ + CallStipend]
<1>1. Calling /\ CallAllowed(memory)
  BY DEF CallRefused
<1>2. /\ Sound(paid) /\ SpillsLast(paid) /\ SameHistory(meter, paid)
      /\ paid.gas + CallStipend + paid.spilled <= paid.grant
      /\ CallStipend \in Nat
  BY <1>1, CallPaidSound, CallPriceNat
<1>3. meter' = RefillBirth(refunded, BirthCharged)
  BY DEF CallRefused
<1> HIDE DEF paid
<1>4. Sound(refunded) /\ SpillsLast(refunded) /\ SameHistory(paid, refunded)
  BY <1>2 DEF Sound, MeterSet, Baseline, WithinGrant, SpillsLast, SameHistory
<1> HIDE DEF refunded
<1>5. BirthCharged \in BOOLEAN
  BY DEF BirthCharged, CarriesValue
<1>6. Sound(meter') /\ SpillsLast(meter') /\ SameHistory(meter, meter')
  BY <1>2, <1>3, <1>4, <1>5, BirthSound DEF SameHistory
<1>7. frame' \in FrameSet /\ world' \in WorldSet /\ parents' = parents
  BY <1>1, RunningTyped, WithActionType, CallWorldType DEF CallRefused
<1> QED
  BY <1>6, <1>7, Quiet

\* call-enter.bend:79-101.  A call that cannot be paid faults.
LEMMA CallFaultStep ==
  ASSUME IInv, NEW memory \in MemoryCost, CallFault(memory)
  PROVE  Forward
  BY FaultStep, RunningTyped, CallWorldType DEF CallFault

\* call-enter.bend:31-34, 56-62 and create-enter.bend:39-44.  The suspended
\* frame keeps what it did not hand down, and the child starts with the rest.
LEMMA SuspendStep ==
  ASSUME IInv, NEW paid, Sound(paid), SpillsLast(paid), SameHistory(meter, paid),
         NEW taken \in Nat, NEW extra \in Nat, taken <= paid.gas,
         paid.gas + extra + paid.spilled <= paid.grant,
         NEW snapshot \in WorldSet, NEW creation \in BOOLEAN,
         NEW charged \in BOOLEAN, NEW created \in Address,
         Suspend(paid, taken, snapshot, creation, charged, created),
         frame' \in FrameSet, world' \in WorldSet,
         meter' \in {FreshMeter(taken + extra, paid.reservoir),
                     Exhaust(FreshMeter(taken + extra, paid.reservoir))}
  PROVE  Forward
<1> DEFINE kept == [paid EXCEPT !.gas = @ - taken, !.reservoir = 0]
           waiting == WithAction(frame, "Running")
           parent == [frame |-> waiting, meter |-> kept, snapshot |-> snapshot,
                      creation |-> creation, charged |-> charged, created |-> created]
           fresh == FreshMeter(taken + extra, paid.reservoir)
<1>1. paid \in MeterSet /\ taken + extra \in Nat /\ paid.reservoir \in Nat
  BY DEF Sound, MeterSet
<1>2. /\ kept \in MeterSet /\ SameHistory(paid, kept) /\ kept.gas = paid.gas - taken
      /\ kept.used = paid.used /\ kept.spilled = paid.spilled
  <2>1. paid.gas - taken \in Nat /\ 0 \in Nat
    BY <1>1 DEF MeterSet
  <2>2. kept = [paid EXCEPT !.gas = paid.gas - taken, !.reservoir = 0]
    OBVIOUS
  <2> HIDE DEF kept
  <2> QED
    BY <1>1, <2>1, <2>2 DEF MeterSet, SameHistory
<1>3. waiting \in FrameSet
  BY RunningTyped, WithActionType
<1>4. parents' = Append(parents, parent)
  BY DEF Suspend
<1> HIDE DEF kept, waiting
<1>5. parent \in ParentSet /\ parent.meter = kept
  BY <1>2, <1>3 DEF ParentSet
<1>6. /\ Sound(fresh) /\ SpillsLast(fresh)
      /\ fresh.grant = taken + extra /\ fresh.entry = paid.reservoir
  BY <1>1, FreshSound DEF FreshMeter
<1> HIDE DEF parent, fresh
<1>7. /\ Sound(meter') /\ SpillsLast(meter') /\ SameHistory(fresh, meter')
  BY <1>6, ExhaustSound DEF fresh, SameHistory
<1>8. Links(kept, meter') /\ SameHistory(meter, kept)
  BY <1>1, <1>2, <1>6, <1>7
  DEF Links, BaselineLink, GrantLink, SpillLink, SpillsLast, SameHistory, Sound,
      Baseline, MeterSet
<1> QED
  BY <1>4, <1>5, <1>7, <1>8, Push

\* call-common.bend:58-68.  A payment the payer can afford.
LEMMA PayType ==
  ASSUME NEW w \in WorldSet, NEW source \in Address, NEW target \in Address,
         NEW value \in Nat, value <= w.accounts[source].balance
  PROVE  Pay(w, source, target, value) \in WorldSet
  BY TransferType, TransferLogType DEF Pay

\* call-enter.bend:29-63.  Entering a call suspends its caller and links the
\* meter of the child to it.
LEMMA CallEnterStep ==
  ASSUME IInv, NEW memory \in MemoryCost, CallEnter(memory)
  PROVE  Forward
<1> DEFINE paid == CallPaid(memory)
           taken == CallLimit(memory)
<1>1. Calling /\ CallAllowed(memory) /\ ~CallImpossible
  BY DEF CallEnter
<1>2. /\ Sound(paid) /\ SpillsLast(paid) /\ SameHistory(meter, paid)
      /\ paid.gas + CallStipend + paid.spilled <= paid.grant
      /\ CallStipend \in Nat
  BY <1>1, CallPaidSound, CallPriceNat
<1>3. /\ Request.kind \in CallKind /\ Request.gas \in Nat
      /\ Request.target \in Address /\ Request.value \in Nat
  BY <1>1, CallRequestType DEF IInv
<1>4. taken \in Nat /\ taken <= paid.gas
  <2>1. paid.gas \in Nat
    BY <1>2 DEF Sound, MeterSet
  <2> QED
    BY <1>3, <2>1, CapNat DEF CallLimit, Least
<1>5. /\ CallWorld \in WorldSet
      /\ CallWorld.accounts[frame.address].balance = Self.balance
  BY <1>1, CallWorldType
<1>6. world' \in WorldSet
  <2>1. CASE Request.kind = "CALL"
    <3>1. Request.value <= Self.balance
      BY <1>1, <1>3, <2>1, RunningTyped DEF CallImpossible, Self
    <3> QED
      BY <1>3, <1>5, <2>1, <3>1, PayType, RunningTyped DEF CallEnter
  <2>2. CASE Request.kind # "CALL"
    BY <1>5, <2>2 DEF CallEnter
  <2> QED
    BY <2>1, <2>2
<1>7. ChildFrame \in FrameSet
  <2>1. CallCode \in CodeSet
    BY <1>3, RunningTyped, DelegateType DEF CallCode, Target
  <2>2. Plain(ChildOp) \in ActionSet
    BY PlainType DEF ChildOp
  <2>3. /\ frame.caller \in Address /\ frame.value \in Nat /\ frame.static \in BOOLEAN
        /\ frame.depth + 1 \in Nat /\ frame.address \in Address
    BY RunningTyped DEF FrameSet
  <2> QED
    BY <1>3, <2>1, <2>2, <2>3, NoCodeType DEF ChildFrame, FrameSet
<1>8. BirthCharged \in BOOLEAN
  BY DEF BirthCharged, CarriesValue
<1>9. /\ Suspend(paid, taken, CallWorld, FALSE, BirthCharged, Request.target)
      /\ frame' = ChildFrame
      /\ meter' = FreshMeter(taken + CallStipend, paid.reservoir)
  BY DEF CallEnter
<1> HIDE DEF paid, taken
<1> QED
  BY <1>2, <1>3, <1>4, <1>5, <1>6, <1>7, <1>8, <1>9, SuspendStep

----------------------------------------------------------------------------
(* Creations.                                                              *)

\* create-enter.bend:71-76.  A creation has a price.
LEMMA CreatePriceNat ==
  ASSUME NEW cost \in MemoryCost
  PROVE  CreatePrice(cost) \in Nat
  BY PricesNat, InputsNat DEF CreatePrice

\* create-enter.bend:51-69.  A refused creation only pays.
LEMMA CreateRefusedStep ==
  ASSUME IInv, NEW cost \in MemoryCost, CreateRefused(cost)
  PROVE  Forward
  BY ChargeStep, CreatePriceNat, RunningTyped, WithActionType
  DEF CreateRefused, CreateAllowed

\* create-enter.bend:45-49.  A creation that cannot pay for its account faults.
LEMMA CreateStateFaultStep ==
  ASSUME IInv, NEW cost \in MemoryCost, NEW target \in CreateTarget,
         CreateStateFault(cost, target)
  PROVE  Forward
<1>1. target \in Address
  BY ProgramAssumption
<1> QED
  BY <1>1, FaultStep, RunningTyped, WarmAccountType DEF CreateStateFault

\* create-enter.bend:36-38.  The snapshot of a creation keeps the balances.
LEMMA CreateWorldType ==
  ASSUME IInv, NEW target \in Address
  PROVE  /\ CreateWorld(target) \in WorldSet
         /\ CreateWorld(target).accounts[frame.address].balance = Self.balance
<1> DEFINE warmed == WarmAccount(world, target)
<1>1. warmed \in WorldSet /\ warmed.accounts[frame.address].balance = Self.balance
  BY RunningTyped, WarmAccountType DEF Self
<1> HIDE DEF warmed
<1> QED
  BY <1>1, RunningTyped, IncrementNonceType DEF CreateWorld, warmed

\* create-enter.bend:25-27.  A new contract keeps the balance it had.
LEMMA NewContractType ==
  ASSUME NEW w \in WorldSet, NEW target \in Address, NEW x \in Address
  PROVE  /\ NewContract(w, target) \in WorldSet
         /\ NewContract(w, target).accounts[x].balance = w.accounts[x].balance
<1> DEFINE account == [w.accounts[target] EXCEPT
                         !.storage = ZeroSlots, !.original = ZeroSlots,
                         !.nonce = 1, !.exists = TRUE, !.created = TRUE]
<1>1. w.accounts[target] \in AccountSet
  BY DEF WorldSet
<1>2. account \in AccountSet /\ account.balance = w.accounts[target].balance
  BY <1>1, ZeroSlotsType DEF AccountSet
<1>3. NewContract(w, target) = Modify(w, target, account)
  BY DEF NewContract
<1> DEFINE after == Modify(w, target, account)
<1> HIDE DEF account
<1>4. /\ after \in WorldSet /\ after.accounts[target].balance = account.balance
      /\ \A y \in Address \ {target} : after.accounts[y] = w.accounts[y]
  BY <1>2, ModifyType
<1> HIDE DEF after
<1> QED
  BY <1>2, <1>3, <1>4 DEF after

\* create-enter.bend:20-49.  Entering a creation, likewise.
LEMMA CreateEnterStep ==
  ASSUME IInv, NEW cost \in MemoryCost, NEW target \in CreateTarget,
         NEW code \in InitCode, CreateEnter(cost, target, code)
  PROVE  Forward
<1> DEFINE birth == CreateBirth(target)
           charged == CreateCharged(cost)
           paid == SpendBirth(charged, birth)
           taken == Cap(paid.gas)
           snapshot == CreateWorld(target)
           child == CreationFrame(target, code)
           opened == NewContract(snapshot, target)
           paidFor == Pay(opened, frame.address, target, Request.value)
<1>1. target \in Address /\ code \in CodeSet
  BY ProgramAssumption
<1>2. /\ Creating /\ CreateAllowed(cost) /\ ~CreateImpossible
      /\ CanSpendBirth(charged, birth)
      /\ Suspend(paid, taken, snapshot, TRUE, birth, target)
      /\ \/ /\ frame' = WithAction(child, "Fault")
            /\ meter' = Exhaust(FreshMeter(taken, paid.reservoir))
            /\ world' = snapshot
         \/ /\ frame' = child
            /\ meter' = FreshMeter(taken, paid.reservoir)
            /\ world' = paidFor
  BY DEF CreateEnter
<1>3. Request.value \in Nat
  BY <1>2, CreateRequestType DEF IInv
<1>4. birth \in BOOLEAN
  BY DEF CreateBirth, IsEmpty
<1>5. Sound(charged) /\ SpillsLast(charged) /\ SameHistory(meter, charged)
  BY <1>2, RunningTyped, CreatePriceNat, ChargeSound DEF CreateCharged, CreateAllowed
<1> HIDE DEF charged, birth
<1>6. Sound(paid) /\ SpillsLast(paid) /\ SameHistory(charged, paid)
  BY <1>2, <1>4, <1>5, BirthSound
<1> HIDE DEF paid
<1>7. /\ SameHistory(meter, paid) /\ paid.gas \in Nat
      /\ paid.gas + 0 + paid.spilled <= paid.grant
  BY <1>5, <1>6 DEF SameHistory, Sound, MeterSet, WithinGrant
<1>8. taken \in Nat /\ taken <= paid.gas /\ taken + 0 = taken
  BY <1>7, CapNat
<1>9. snapshot \in WorldSet /\ snapshot.accounts[frame.address].balance = Self.balance
  BY <1>1, CreateWorldType
<1>10. child \in FrameSet
  <2>1. /\ Plain("Running") \in ActionSet /\ frame.depth + 1 \in Nat
        /\ frame.address \in Address
    BY PlainType, RunningTyped DEF FrameSet
  <2> QED
    BY <1>1, <1>3, <2>1, NoCodeType DEF CreationFrame, FrameSet
<1> HIDE DEF taken, snapshot, child
<1>11. opened \in WorldSet
       /\ opened.accounts[frame.address].balance = Self.balance
  BY <1>1, <1>9, RunningTyped, NewContractType
<1> HIDE DEF opened
<1>12. paidFor \in WorldSet
  <2>1. Request.value <= Self.balance
    BY <1>2, <1>3, RunningTyped DEF CreateImpossible, Self
  <2> QED
    BY <1>1, <1>3, <1>11, <2>1, RunningTyped, PayType
<1> HIDE DEF paidFor
<1>13. frame' \in FrameSet /\ world' \in WorldSet
  BY <1>2, <1>9, <1>10, <1>12, WithActionType DEF Terminal
<1>14. meter' \in {FreshMeter(taken + 0, paid.reservoir),
                   Exhaust(FreshMeter(taken + 0, paid.reservoir))}
  BY <1>2, <1>8
<1> QED
  BY <1>1, <1>2, <1>4, <1>6, <1>7, <1>8, <1>9, <1>13, <1>14, SuspendStep

----------------------------------------------------------------------------
(* Self-destruction and the precompile host.                               *)

\* call-selfdestruct.bend:25-45.  A self-destruct that cannot be paid faults.
LEMMA DestructFaultStep ==
  ASSUME IInv, DestructFault
  PROVE  Forward
<1>1. TargetWarmed \in WorldSet
  BY DestructRequestType, RunningTyped, WarmAccountType DEF DestructFault, TargetWarmed, IInv
<1> QED
  BY <1>1, FaultStep, RunningTyped DEF DestructFault

\* call-selfdestruct.bend:8-12.  Marking for deletion changes no account.
LEMMA MarkType ==
  ASSUME NEW w \in WorldSet, NEW x \in Address
  PROVE  Mark(w, x) \in WorldSet
<1> DEFINE marked == <<x>> \o w.selfdestructs
<1>1. marked \in Seq(Address)
  BY DEF WorldSet
<1>2. Mark(w, x) = w \/ Mark(w, x) = [w EXCEPT !.selfdestructs = marked]
  BY DEF Mark
<1> HIDE DEF marked
<1> QED
  BY <1>1, <1>2 DEF WorldSet

\* call-selfdestruct.bend:14-45.  A self-destruct keeps the invariant.
LEMMA DestructStep ==
  ASSUME IInv, Destruct
  PROVE  Forward
<1> DEFINE price == DestructPrice
           charged == Charge(meter, price)
           ether == MoveEther(TargetWarmed, frame.address, Request.target, Self.balance)
           moved == TransferLog(ether, frame.address, Request.target, Self.balance)
<1>1. Request.target \in Address
  BY DestructRequestType DEF IInv, Destruct
<1>2. TargetWarmed \in WorldSet
      /\ TargetWarmed.accounts[frame.address].balance = Self.balance
  BY <1>1, RunningTyped, WarmAccountType DEF TargetWarmed, Self
<1>3. Self.balance \in Nat /\ frame.address \in Address
  BY RunningTyped DEF Self
<1>4. ether \in WorldSet
  BY <1>1, <1>2, <1>3, MoveEtherType
<1>5. world' = Mark(moved, frame.address)
  BY DEF Destruct
<1> HIDE DEF ether
<1>6. world' \in WorldSet
  BY <1>1, <1>3, <1>4, <1>5, TransferLogType, MarkType
<1>7. price \in Nat
  BY PricesNat DEF DestructPrice
<1>8. /\ CanCharge(meter, price) /\ CanSpendBirth(charged, Topup)
      /\ meter' = SpendBirth(charged, Topup)
  BY DEF Destruct, DestructAllowed
<1>9. Topup \in BOOLEAN
  BY DEF Topup
<1> HIDE DEF price
<1>10. Sound(charged) /\ SpillsLast(charged) /\ SameHistory(meter, charged)
  BY <1>7, <1>8, RunningTyped, ChargeSound
<1> HIDE DEF charged
<1>11. Sound(meter') /\ SpillsLast(meter') /\ SameHistory(meter, meter')
  BY <1>8, <1>9, <1>10, BirthSound DEF SameHistory
<1>12. frame' \in FrameSet /\ parents' = parents
  BY RunningTyped, OutputType, NoCodeType DEF Destruct, Terminal, Successful
<1> QED
  BY <1>6, <1>11, <1>12, Quiet

\* runtime.bend:36-65.  A host that returns no more gas than it was given.
LEMMA HostStep ==
  ASSUME IInv,
         (\E gas \in 0..meter.gas : HostReturns(gas)) \/ HostRejects \/ HostBreaks
  PROVE  Forward
<1>1. CASE \E gas \in 0..meter.gas : HostReturns(gas)
  <2>1. PICK gas \in 0..meter.gas : HostReturns(gas)
    BY <1>1
  <2>2. gas \in Nat /\ gas <= meter.gas /\ meter' = [meter EXCEPT !.gas = gas]
    BY <2>1, RunningTyped DEF HostReturns, MeterSet
  <2>3. Sound(meter') /\ SpillsLast(meter') /\ SameHistory(meter, meter')
    <3> DEFINE left == [meter EXCEPT !.gas = gas]
    <3>1. /\ left \in MeterSet /\ SameHistory(meter, left) /\ left.gas = gas
          /\ left.reservoir = meter.reservoir /\ left.used = meter.used
          /\ left.spilled = meter.spilled
      BY <2>2, RunningTyped DEF MeterSet, SameHistory
    <3>2. meter' = left
      BY <2>2
    <3> HIDE DEF left
    <3>3. Sound(left) /\ SpillsLast(left)
      BY <2>2, <3>1, RunningTyped
      DEF Sound, MeterSet, Baseline, WithinGrant, SpillsLast, SameHistory
    <3> QED
      BY <3>1, <3>2, <3>3
  <2> QED
    BY <2>1, <2>3, Quiet, RunningTyped, WithActionType DEF HostReturns, Terminal, Successful
<1>2. CASE HostRejects
  BY <1>2, FaultStep, RunningTyped DEF HostRejects
<1>3. CASE HostBreaks
  BY <1>3, Quiet, RunningTyped, WithActionType DEF HostBreaks
<1> QED
  BY <1>1, <1>2, <1>3

\* vm.bend:34-44.  Every request served keeps the invariant.
LEMMA ServeStep ==
  ASSUME IInv, Serve
  PROVE  Forward
<1>1. CASE \E memory \in MemoryCost :
             CallFault(memory) \/ CallRefused(memory) \/ CallEnter(memory)
  BY <1>1, CallFaultStep, CallRefusedStep, CallEnterStep
<1>2. CASE CreateFault
  BY <1>2, FaultStep, RunningTyped DEF CreateFault
<1>3. CASE \E cost \in MemoryCost : CreateRefused(cost)
  BY <1>3, CreateRefusedStep
<1>4. CASE \E cost \in MemoryCost, target \in CreateTarget :
             \/ CreateStateFault(cost, target)
             \/ \E code \in InitCode : CreateEnter(cost, target, code)
  BY <1>4, CreateStateFaultStep, CreateEnterStep
<1>5. CASE DestructFault
  BY <1>5, DestructFaultStep
<1>6. CASE Destruct
  BY <1>6, DestructStep
<1>7. CASE (\E gas \in 0..meter.gas : HostReturns(gas)) \/ HostRejects \/ HostBreaks
  BY <1>7, HostStep
<1> QED
  BY <1>1, <1>2, <1>3, <1>4, <1>5, <1>6, <1>7 DEF Serve

----------------------------------------------------------------------------
(* Unwinding.                                                              *)

\* The innermost suspended frame is linked to the running one.
LEMMA WaitingLinked ==
  ASSUME IInv, parents # <<>>
  PROVE  /\ Waiting \in ParentSet
         /\ BaselineLink(Waiting.meter, meter) /\ GrantLink(Waiting.meter, meter)
         /\ SpillLink(Waiting.meter, meter)
<1>1. parents \in Seq(ParentSet) /\ Len(parents) \in 1..Len(parents)
  BY DEF IInv, TypeOK
<1> QED
  BY <1>1 DEF Waiting, Last, IInv, MeterInv, Linked, Links, ChildMeter

\* call-finish.bend:19-42.  A parent that resumes with a settled child, whose
\* effects on state gas are undone unless it succeeded, keeps the invariant.
LEMMA ResumeStep ==
  ASSUME IInv, parents # <<>>, NEW child, Sound(child), SameHistory(meter, child),
         NEW succeeded \in BOOLEAN,
         ~succeeded => child.used = 0 /\ child.spilled = 0,
         NEW childWorld \in WorldSet, Resume(child, succeeded, childWorld)
  PROVE  Forward
<1> DEFINE merged == Merged(Waiting.meter, child, succeeded)
           refunded == Waiting.charged /\ ~succeeded
<1>1. /\ Waiting.frame \in FrameSet /\ Waiting.meter \in MeterSet
      /\ Waiting.snapshot \in WorldSet
  BY WaitingLinked DEF ParentSet
<1>2. BaselineLink(Waiting.meter, child) /\ GrantLink(Waiting.meter, child)
  BY WaitingLinked DEF BaselineLink, GrantLink, SameHistory
<1>3. Sound(merged) /\ SameHistory(Waiting.meter, merged) /\ SpillsLast(merged)
  BY <1>1, <1>2, MergedSound
<1>4. /\ meter' = RefillBirth(merged, refunded)
      /\ world' = (IF succeeded THEN childWorld ELSE Waiting.snapshot)
      /\ frame' = Waiting.frame
      /\ parents' = Front(parents)
  BY DEF Resume
<1>5. refunded \in BOOLEAN
  BY WaitingLinked DEF ParentSet
<1> HIDE DEF merged, refunded
<1>6. Sound(meter') /\ SpillsLast(meter') /\ SameHistory(Waiting.meter, meter')
  BY <1>3, <1>4, <1>5, BirthSound DEF SameHistory
<1> QED
  BY <1>1, <1>4, <1>6, Pop

\* gas.bend:93-100.  The running frame settles soundly, whatever its outcome.
LEMMA SettledSound ==
  ASSUME IInv
  PROVE  /\ Sound(Settled) /\ SameHistory(meter, Settled)
         /\ ~Succeeded => Settled.used = 0 /\ Settled.spilled = 0
<1>1. Succeeded \in BOOLEAN /\ (frame.action.op = "Reverted") \in BOOLEAN
  BY DEF Succeeded
<1> QED
  BY <1>1, RunningTyped, SettleSound DEF Settled

\* create-finish.bend:18-31.  A deposit that can be paid.
LEMMA DepositedSound ==
  ASSUME IInv, NEW code \in CodeSet, CanDeposit(code)
  PROVE  Sound(Deposited(code)) /\ SameHistory(meter, Deposited(code))
<1> DEFINE words == DepositWords(code)
           bytes == CodeByte * code.len
           hashed == Charge(meter, words)
<1>1. code.len \in Nat
  BY DEF CodeSet
<1>2. (code.len + 31) \div 32 \in Nat
  BY <1>1
<1>3. words \in Nat /\ bytes \in Nat
  BY <1>1, <1>2, PricesNat DEF DepositWords
<1>4. CanCharge(meter, words) /\ CanSpendState(hashed, bytes)
  BY DEF CanDeposit
<1>5. Deposited(code) = SpendState(hashed, bytes)
  BY DEF Deposited
<1> HIDE DEF words, bytes
<1>6. Sound(hashed) /\ SpillsLast(hashed) /\ SameHistory(meter, hashed)
  BY <1>3, <1>4, RunningTyped, ChargeSound
<1> HIDE DEF hashed
<1> QED
  BY <1>3, <1>4, <1>5, <1>6, SpendStateSound DEF SameHistory

\* call-finish.bend:44-52.  Every resumption keeps the invariant.
LEMMA UnwindStep ==
  ASSUME IInv, Unwind
  PROVE  Forward
<1>1. Succeeded \in BOOLEAN
  BY DEF Succeeded
<1>2. CASE CallReturn
  BY <1>1, <1>2, SettledSound, ResumeStep, RunningTyped DEF CallReturn
<1>3. CASE CreateReturn
  <2>1. frame.output \in CodeSet
    BY RunningTyped DEF FrameSet
  <2>2. CASE /\ CanDeposit(frame.output)
             /\ Resume(Deposited(frame.output), TRUE,
                       SetCode(world, Waiting.created, frame.output))
    <3>1. Waiting.created \in Address
      BY <1>3, WaitingLinked DEF ParentSet, CreateReturn
    <3>2. SetCode(world, Waiting.created, frame.output) \in WorldSet
      BY <2>1, <3>1, RunningTyped, SetCodeType
    <3> QED
      BY <1>3, <2>1, <2>2, <3>2, DepositedSound, ResumeStep DEF CreateReturn
  <2>3. CASE Resume(Settle(Exhaust(meter), FALSE, FALSE), FALSE, world)
    <3> DEFINE child == Settle(Exhaust(meter), FALSE, FALSE)
    <3>1. Sound(Exhaust(meter)) /\ SameHistory(meter, Exhaust(meter))
      BY RunningTyped, ExhaustSound
    <3>2. /\ Sound(child) /\ SameHistory(meter, child)
          /\ child.used = 0 /\ child.spilled = 0
      BY <3>1, SettleSound DEF SameHistory
    <3> HIDE DEF child
    <3>3. Resume(child, FALSE, world)
      BY <2>3 DEF child
    <3> QED
      BY <1>3, <3>2, <3>3, ResumeStep, RunningTyped DEF CreateReturn
  <2>4. CASE ~Succeeded /\ Resume(Settled, FALSE, world)
    BY <1>3, <2>4, SettledSound, ResumeStep, RunningTyped DEF CreateReturn
  <2> QED
    BY <1>3, <2>2, <2>3, <2>4 DEF CreateReturn
<1> QED
  BY <1>2, <1>3 DEF Unwind

----------------------------------------------------------------------------
(* The theorems.                                                           *)

\* runtime.bend:102-106.  The outermost frame starts within the invariant.
LEMMA InitInv == Init => IInv
<1> SUFFICES ASSUME Init PROVE IInv
  OBVIOUS
<1>1. Sound(meter) /\ SpillsLast(meter)
  BY FreshSound, InputsNat DEF Init
<1>2. Start.accounts[Entry].code \in CodeSet
  BY ProgramAssumption DEF WorldSet, AccountSet
<1>3. frame \in FrameSet
  <2>1. Plain(IF Entry \in Precompiles THEN "Precompile" ELSE "Running") \in ActionSet
    BY PlainType
  <2> QED
    BY <1>2, <2>1, ProgramAssumption, NoCodeType DEF Init, FrameSet
<1>4. world \in WorldSet
  BY ProgramAssumption DEF Init
<1>5. parents \in Seq(ParentSet) /\ DOMAIN parents = {}
  BY DEF Init
<1> QED
  BY <1>1, <1>3, <1>4, <1>5 DEF IInv, TypeOK, MeterInv, Linked, Sound

\* Every step keeps the invariant and the reservoir of the outermost frame.
LEMMA NextForward ==
  ASSUME IInv, [Next]_vars
  PROVE  Forward
<1>1. CASE Execute
  BY <1>1, ExecuteStep
<1>2. CASE Serve
  BY <1>2, ServeStep
<1>3. CASE Unwind
  BY <1>3, UnwindStep
<1>4. CASE Halt \/ UNCHANGED vars
  BY <1>4, RunningTyped, Quiet DEF Halt, vars
<1> QED
  BY <1>1, <1>2, <1>3, <1>4 DEF Next

\* The invariant is inductive.
LEMMA NextInv == IInv /\ [Next]_vars => IInv'
  BY NextForward DEF Forward

\* The invariant holds of every reachable state.
LEMMA Inductive == Spec => []IInv
  BY InitInv, NextInv, PTL DEF Spec

\* Whatever program runs, every balance, nonce, gas pool and suspended frame
\* keeps its type: no charge, transfer or refill takes one below zero.
THEOREM TypeCorrect == Spec => []TypeOK
<1>1. IInv => TypeOK
  BY DEF IInv
<1> QED
  BY <1>1, Inductive, PTL

\* A rollback at any moment, at any depth, computes the reservoir its frame
\* was entered with (gas.bend:82 never wraps).
THEOREM RollbackRestores == Spec => []ReservoirBaseline
<1>1. IInv => ReservoirBaseline
  BY DEF IInv, MeterInv, Sound, Linked, Links, ReservoirBaseline
<1> QED
  BY <1>1, Inductive, PTL

\* No frame ever holds more execution gas than it was granted, and no chain
\* of calls hands out more than the outermost frame was given.
THEOREM GasNotMinted == Spec => []NoGasMinted
<1>1. IInv => NoGasMinted
  BY DEF IInv, MeterInv, Sound, Linked, Links, NoGasMinted
<1> QED
  BY <1>1, Inductive, PTL

\* The running frame never holds a reservoir while it owes itself spilled gas.
THEOREM SpillAlwaysRepaired == Spec => []SpillRepaired
<1>1. IInv => SpillRepaired
  BY DEF IInv, MeterInv, SpillRepaired
<1> QED
  BY <1>1, Inductive, PTL

----------------------------------------------------------------------------
(* Static frames and the contracts there were.                             *)

\* The world that the frame above parents[j] is given back or has reached.
After(j) == IF j = Len(parents) THEN world ELSE parents[j + 1].snapshot

\* The flag is inherited, and what is below a static frame has not changed.
StaticBelow ==
  \A i \in DOMAIN parents :
    ChildFrameOf(i).static =>
      \A j \in i..Len(parents) :
        ChildFrameOf(j).static /\ Persistent(After(j)) = Persistent(parents[i].snapshot)

\* Nobody creates from a static frame.
CreationsWrite ==
  \A i \in DOMAIN parents : parents[i].creation => ~ChildFrameOf(i).static

\* A frame is as deep as there are frames that wait for it.
DepthIsHeight ==
  /\ frame.depth = Len(parents)
  /\ \A i \in DOMAIN parents : parents[i].frame.depth = i - 1

SInv == IInv /\ StaticBelow /\ CreationsWrite /\ DepthIsHeight

----------------------------------------------------------------------------
(* What the operations on a world leave alone.                             *)

\* Worlds that agree on every persistent part of every account, on logs and
\* on deletions are the same to a caller.
LEMMA PersistentFrom ==
  ASSUME NEW v, NEW w, v.logs = w.logs, v.selfdestructs = w.selfdestructs,
         \A a \in Address :
           /\ v.accounts[a].balance = w.accounts[a].balance
           /\ v.accounts[a].nonce = w.accounts[a].nonce
           /\ v.accounts[a].code = w.accounts[a].code
           /\ v.accounts[a].storage = w.accounts[a].storage
           /\ v.accounts[a].transient = w.accounts[a].transient
  PROVE  Persistent(v) = Persistent(w)
  BY DEF Persistent

\* world.bend:78-79.  Warming an account writes nothing a caller keeps.
LEMMA WarmAccountKeeps ==
  ASSUME NEW w \in WorldSet, NEW x \in Address
  PROVE  Persistent(WarmAccount(w, x)) = Persistent(w)
<1> DEFINE v == WarmAccount(w, x)
<1>1. /\ v.logs = w.logs /\ v.selfdestructs = w.selfdestructs
      /\ \A a \in Address :
           /\ v.accounts[a].balance = w.accounts[a].balance
           /\ v.accounts[a].nonce = w.accounts[a].nonce
           /\ v.accounts[a].code = w.accounts[a].code
           /\ v.accounts[a].storage = w.accounts[a].storage
           /\ v.accounts[a].transient = w.accounts[a].transient
  BY DEF WarmAccount, WorldSet, AccountSet
<1> HIDE DEF v
<1>2. Persistent(v) = Persistent(w)
  BY <1>1, PersistentFrom
<1> QED
  BY <1>2 DEF v

\* world.bend:104-110.  Nor does warming a slot.
LEMMA WarmStorageKeeps ==
  ASSUME NEW w \in WorldSet, NEW x \in Address, NEW k \in Key
  PROVE  Persistent(WarmStorage(w, x, k)) = Persistent(w)
<1> DEFINE v == WarmStorage(w, x, k)
<1>1. /\ v.logs = w.logs /\ v.selfdestructs = w.selfdestructs
      /\ \A a \in Address :
           /\ v.accounts[a].balance = w.accounts[a].balance
           /\ v.accounts[a].nonce = w.accounts[a].nonce
           /\ v.accounts[a].code = w.accounts[a].code
           /\ v.accounts[a].storage = w.accounts[a].storage
           /\ v.accounts[a].transient = w.accounts[a].transient
  BY DEF WarmStorage, WorldSet, AccountSet
<1> HIDE DEF v
<1>2. Persistent(v) = Persistent(w)
  BY <1>1, PersistentFrom
<1> QED
  BY <1>2 DEF v

\* call-enter.bend:69-77.  So a call's world is the caller's to the caller.
LEMMA CallWorldKeeps ==
  ASSUME IInv, Calling
  PROVE  Persistent(CallWorld) = Persistent(world)
<1>1. Request.target \in Address
  BY CallRequestType DEF IInv
<1>2. TargetWarmed \in WorldSet /\ Persistent(TargetWarmed) = Persistent(world)
  BY <1>1, RunningTyped, WarmAccountType, WarmAccountKeeps DEF TargetWarmed
<1>3. Delegated(Target.code) => Target.code.to \in Address
  BY <1>1, RunningTyped, DelegateType DEF Target
<1> QED
  BY <1>2, <1>3, WarmAccountKeeps DEF CallWorld

----------------------------------------------------------------------------
(* The three shapes of a step.                                             *)

Quietly ==
  /\ parents' = parents
  /\ frame'.static = frame.static /\ frame'.depth = frame.depth
  /\ frame.static => Persistent(world') = Persistent(world)

Pushing ==
  \E parent \in ParentSet :
    /\ parents' = Append(parents, parent)
    /\ parent.frame.static = frame.static /\ parent.frame.depth = frame.depth
    /\ frame'.depth = frame.depth + 1
    /\ frame.static =>
         frame'.static /\ Persistent(parent.snapshot) = Persistent(world)
    /\ frame'.static => Persistent(world') = Persistent(parent.snapshot)
    /\ parent.creation => ~frame'.static

Popping ==
  /\ parents # <<>>
  /\ parents' = Front(parents)
  /\ frame' = Waiting.frame
  /\ \/ world' \in {world, Waiting.snapshot}
     \/ Waiting.creation

\* An action is replaced, and an output; the flag and the depth are not.
LEMMA ActionKeeps ==
  ASSUME NEW f \in FrameSet, NEW action, NEW output
  PROVE  LET g == [f EXCEPT !.action = action]
             h == [g EXCEPT !.output = output]
         IN  /\ g.static = f.static /\ g.depth = f.depth
             /\ h.static = f.static /\ h.depth = f.depth
  BY DEF FrameSet

\* A fault and every other end keep them too.
LEMMA WithActionKeeps ==
  ASSUME NEW f \in FrameSet, NEW op, NEW output
  PROVE  /\ WithAction(f, op).static = f.static
         /\ WithAction(f, op).depth = f.depth
         /\ [WithAction(f, op) EXCEPT !.output = output].static = f.static
         /\ [WithAction(f, op) EXCEPT !.output = output].depth = f.depth
  BY ActionKeeps DEF WithAction

\* opcode-common.bend.  A faulting step that leaves the world to the caller.
LEMMA FaultQuiet ==
  ASSUME IInv, Fault, parents' = parents,
         frame.static => Persistent(world') = Persistent(world)
  PROVE  Quietly
  BY RunningTyped, WithActionKeeps DEF Fault, FaultFrame, Quietly

\* state-ops.bend, vm.bend:46-48.  Instructions are quiet: those that write
\* are refused in a static frame.
LEMMA ExecuteShape ==
  ASSUME IInv, Execute
  PROVE  Quietly
<1> USE RunningTyped
<1>1. CASE Throw
  BY <1>1, FaultQuiet DEF Throw
<1>2. CASE Stop
  BY <1>2, WithActionKeeps DEF Stop, Quietly
<1>3. CASE \E cost \in ComputeCost : Compute(cost)
  BY <1>3 DEF Compute, Quietly
<1>4. CASE \E op \in {"Returned", "Reverted"}, output \in Output, cost \in MemoryCost :
             Exit(op, output, cost)
  BY <1>4, WithActionKeeps DEF Exit, Quietly
<1>5. CASE \E a \in Address, cost \in MemoryCost : Touch(a, cost)
  BY <1>5, WarmAccountKeeps DEF Touch, Quietly
<1>6. CASE \E k \in Key : Sload(k)
  BY <1>6, WarmStorageKeeps DEF Sload, Quietly
<1>7. CASE \E k \in Key, value \in Value : Sstore(k, value) \/ Tstore(k, value)
  BY <1>7 DEF Sstore, Tstore, Quietly
<1>8. CASE \E cost \in MemoryCost : Emit(cost)
  BY <1>8 DEF Emit, Quietly
<1>9. CASE \E kind \in CallKind, gas \in RequestGas, target \in Address, value \in Amount :
             AskCall(kind, gas, target, value)
  BY <1>9, ActionKeeps DEF AskCall, Quietly
<1>10. CASE \E value \in Amount : AskCreate(value)
  BY <1>10, ActionKeeps DEF AskCreate, Quietly
<1>11. CASE \E target \in Address : AskSelfDestruct(target)
  BY <1>11, ActionKeeps DEF AskSelfDestruct, Quietly
<1> QED
  BY <1>1, <1>2, <1>3, <1>4, <1>5, <1>6, <1>7, <1>8, <1>9, <1>10, <1>11
  DEF Execute

\* call-enter.bend:31-34 and create-enter.bend:39-44.  What the suspended
\* frame leaves on the stack.
LEMMA SuspendedParent ==
  ASSUME IInv, NEW kept \in MeterSet, NEW snapshot \in WorldSet,
         NEW creation \in BOOLEAN, NEW charged \in BOOLEAN, NEW created \in Address
  PROVE  LET parent == [frame |-> WithAction(frame, "Running"), meter |-> kept,
                        snapshot |-> snapshot, creation |-> creation,
                        charged |-> charged, created |-> created]
         IN  /\ parent \in ParentSet
             /\ parent.frame.static = frame.static
             /\ parent.frame.depth = frame.depth
<1> DEFINE waiting == WithAction(frame, "Running")
<1>1. waiting \in FrameSet /\ waiting.static = frame.static /\ waiting.depth = frame.depth
  BY RunningTyped, WithActionType, WithActionKeeps
<1> HIDE DEF waiting
<1>2. [frame |-> waiting, meter |-> kept, snapshot |-> snapshot, creation |-> creation,
       charged |-> charged, created |-> created] \in ParentSet
  BY <1>1 DEF ParentSet
<1> QED
  BY <1>1, <1>2 DEF waiting

\* A payment of nothing changes nothing.
LEMMA PayNothing ==
  ASSUME NEW w, NEW source, NEW target
  PROVE  Pay(w, source, target, 0) = w
  BY DEF Pay, Transfer, TransferLog

\* call-enter.bend:29-63.  A call of a static frame is static and carries no
\* value; its snapshot is the world that the caller left.
LEMMA CallEnterShape ==
  ASSUME IInv, NEW memory \in MemoryCost, CallEnter(memory), IInv'
  PROVE  Pushing
<1> DEFINE paid == CallPaid(memory)
           taken == CallLimit(memory)
<1>1. Calling /\ CallAllowed(memory) /\ ~CallImpossible
  BY DEF CallEnter
<1>2. /\ Request.kind \in CallKind /\ Request.target \in Address /\ Request.value \in Nat
  BY <1>1, CallRequestType DEF IInv
<1>3. CallWorld \in WorldSet /\ Persistent(CallWorld) = Persistent(world)
  BY <1>1, CallWorldType, CallWorldKeeps
<1>4. BirthCharged \in BOOLEAN
  BY DEF BirthCharged, CarriesValue
<1>5. [paid EXCEPT !.gas = @ - taken, !.reservoir = 0] \in MeterSet
  <2>1. Sound(paid)
    BY <1>1, CallPaidSound
  <2>2. paid \in MeterSet /\ paid.gas \in Nat
    BY <2>1 DEF Sound, MeterSet
  <2>3. taken \in Nat /\ taken <= paid.gas
    BY <1>1, <2>2, CapNat, CallRequestType DEF CallLimit, Least, IInv
  <2> HIDE DEF paid, taken
  <2>4. paid.gas - taken \in Nat /\ 0 \in Nat
    BY <2>2, <2>3
  <2>5. [paid EXCEPT !.gas = @ - taken, !.reservoir = 0]
          = [paid EXCEPT !.gas = paid.gas - taken, !.reservoir = 0]
    OBVIOUS
  <2> QED
    BY <2>2, <2>4, <2>5 DEF MeterSet
<1>6. /\ Suspend(paid, taken, CallWorld, FALSE, BirthCharged, Request.target)
      /\ frame' = ChildFrame
      /\ world' = IF Request.kind = "CALL"
                  THEN Pay(CallWorld, frame.address, Request.target, Request.value)
                  ELSE CallWorld
  BY DEF CallEnter
<1>7. /\ frame'.static = (frame.static \/ Request.kind = "STATICCALL")
      /\ frame'.depth = frame.depth + 1
  BY <1>6 DEF ChildFrame
<1>8. frame'.static => world' = CallWorld
  BY <1>1, <1>2, <1>6, <1>7, PayNothing DEF CallAllowed, Forbidden
<1> DEFINE kept == [paid EXCEPT !.gas = @ - taken, !.reservoir = 0]
           parent == [frame |-> WithAction(frame, "Running"), meter |-> kept,
                      snapshot |-> CallWorld, creation |-> FALSE,
                      charged |-> BirthCharged, created |-> Request.target]
<1>9. parents' = Append(parents, parent)
  BY <1>6 DEF Suspend
<1>10. kept \in MeterSet
  BY <1>5
<1> HIDE DEF kept
<1>11. /\ parent \in ParentSet
       /\ parent.frame.static = frame.static /\ parent.frame.depth = frame.depth
  BY <1>2, <1>3, <1>4, <1>10, SuspendedParent
<1>12. parent.snapshot = CallWorld /\ parent.creation = FALSE
  OBVIOUS
<1> HIDE DEF parent
<1> QED
  BY <1>3, <1>7, <1>8, <1>9, <1>11, <1>12 DEF Pushing

\* create-enter.bend:20-49.  A frame that creates is not static, nor is the
\* frame it creates.
LEMMA CreateEnterShape ==
  ASSUME IInv, NEW cost \in MemoryCost, NEW target \in CreateTarget,
         NEW code \in InitCode, CreateEnter(cost, target, code)
  PROVE  Pushing
<1> DEFINE birth == CreateBirth(target)
           charged == CreateCharged(cost)
           paid == SpendBirth(charged, birth)
           taken == Cap(paid.gas)
           snapshot == CreateWorld(target)
           child == CreationFrame(target, code)
<1>1. target \in Address /\ code \in CodeSet
  BY ProgramAssumption
<1>2. /\ Creating /\ CreateAllowed(cost) /\ CanSpendBirth(charged, birth)
      /\ Suspend(paid, taken, snapshot, TRUE, birth, target)
      /\ frame' = WithAction(child, "Fault") \/ frame' = child
  BY DEF CreateEnter
<1>3. ~frame.static
  BY <1>2 DEF CreateAllowed
<1>4. birth \in BOOLEAN
  BY DEF CreateBirth, IsEmpty
<1>5. Sound(charged) /\ SpillsLast(charged)
  BY <1>2, RunningTyped, CreatePriceNat, ChargeSound DEF CreateCharged, CreateAllowed
<1> HIDE DEF charged, birth
<1>6. Sound(paid)
  BY <1>2, <1>4, <1>5, BirthSound
<1> HIDE DEF paid
<1>7. [paid EXCEPT !.gas = @ - taken, !.reservoir = 0] \in MeterSet
  <2>1. paid \in MeterSet /\ paid.gas \in Nat
    BY <1>6 DEF Sound, MeterSet
  <2>2. taken \in Nat /\ taken <= paid.gas
    BY <2>1, CapNat
  <2> HIDE DEF taken
  <2>3. paid.gas - taken \in Nat /\ 0 \in Nat
    BY <2>1, <2>2
  <2>4. [paid EXCEPT !.gas = @ - taken, !.reservoir = 0]
          = [paid EXCEPT !.gas = paid.gas - taken, !.reservoir = 0]
    OBVIOUS
  <2> QED
    BY <2>1, <2>3, <2>4 DEF MeterSet
<1>8. snapshot \in WorldSet
  BY <1>1, CreateWorldType
<1>9. child.static = FALSE /\ child.depth = frame.depth + 1 /\ child \in FrameSet
  <2>1. /\ Plain("Running") \in ActionSet /\ frame.depth + 1 \in Nat
        /\ frame.address \in Address /\ Request.value \in Nat
    BY <1>2, PlainType, RunningTyped, CreateRequestType DEF FrameSet, IInv
  <2> QED
    BY <1>1, <2>1, NoCodeType DEF CreationFrame, FrameSet
<1> HIDE DEF taken, snapshot, child
<1>10. frame'.static = FALSE /\ frame'.depth = frame.depth + 1
  BY <1>2, <1>9, WithActionKeeps
<1> DEFINE kept == [paid EXCEPT !.gas = @ - taken, !.reservoir = 0]
           parent == [frame |-> WithAction(frame, "Running"), meter |-> kept,
                      snapshot |-> snapshot, creation |-> TRUE,
                      charged |-> birth, created |-> target]
<1>11. parents' = Append(parents, parent)
  BY <1>2 DEF Suspend
<1>12. kept \in MeterSet
  BY <1>7
<1> HIDE DEF kept
<1>13. /\ parent \in ParentSet
       /\ parent.frame.static = frame.static /\ parent.frame.depth = frame.depth
  BY <1>1, <1>4, <1>8, <1>12, SuspendedParent
<1> HIDE DEF parent
<1> QED
  BY <1>3, <1>10, <1>11, <1>13 DEF Pushing

\* vm.bend:34-44.  What is refused or answered at once is quiet, what starts
\* a frame pushes one.
LEMMA ServeShape ==
  ASSUME IInv, Serve, IInv'
  PROVE  Quietly \/ Pushing
<1> USE RunningTyped
<1>1. CASE \E memory \in MemoryCost : CallFault(memory)
  BY <1>1, FaultQuiet, CallWorldKeeps DEF CallFault
<1>2. CASE \E memory \in MemoryCost : CallRefused(memory)
  BY <1>2, WithActionKeeps, CallWorldKeeps DEF CallRefused, Quietly
<1>3. CASE \E memory \in MemoryCost : CallEnter(memory)
  BY <1>3, CallEnterShape
<1>4. CASE CreateFault
  BY <1>4, FaultQuiet DEF CreateFault
<1>5. CASE \E cost \in MemoryCost : CreateRefused(cost)
  BY <1>5, WithActionKeeps DEF CreateRefused, Quietly
<1>6. CASE \E cost \in MemoryCost, target \in CreateTarget : CreateStateFault(cost, target)
  BY <1>6, FaultQuiet DEF CreateStateFault, CreateAllowed
<1>7. CASE \E cost \in MemoryCost, target \in CreateTarget, code \in InitCode :
             CreateEnter(cost, target, code)
  BY <1>7, CreateEnterShape
<1>8. CASE DestructFault
  BY <1>8, FaultQuiet DEF DestructFault
<1>9. CASE Destruct
  BY <1>9, WithActionKeeps DEF Destruct, Quietly
<1>10. CASE \E gas \in 0..meter.gas : HostReturns(gas)
  BY <1>10, WithActionKeeps DEF HostReturns, Quietly
<1>11. CASE HostRejects
  BY <1>11, FaultQuiet DEF HostRejects
<1>12. CASE HostBreaks
  BY <1>12, WithActionKeeps DEF HostBreaks, Quietly
<1> QED
  BY <1>1, <1>2, <1>3, <1>4, <1>5, <1>6, <1>7, <1>8, <1>9, <1>10, <1>11, <1>12
  DEF Serve

\* call-finish.bend:44-52.  A frame that ended is popped; only the creator
\* of a contract gets a world with more than its child wrote.
LEMMA UnwindShape ==
  ASSUME Unwind
  PROVE  Popping
  BY DEF Unwind, CallReturn, CreateReturn, Resume, Popping

\* Every step is of one of the three shapes.
LEMMA StepShape ==
  ASSUME IInv, [Next]_vars, IInv'
  PROVE  Quietly \/ Pushing \/ Popping
  BY ExecuteShape, ServeShape, UnwindShape DEF Next, Halt, vars, Quietly

----------------------------------------------------------------------------
(* The invariant.                                                          *)

\* The stack is a sequence of parents, and its positions are its domain.
LEMMA Stack ==
  ASSUME IInv
  PROVE  /\ parents \in Seq(ParentSet) /\ Len(parents) \in Nat
         /\ DOMAIN parents = 1..Len(parents)
         /\ \A i \in 1..Len(parents) : /\ parents[i] \in ParentSet
                                       /\ parents[i].frame.static \in BOOLEAN
         /\ frame.static \in BOOLEAN
<1>1. parents \in Seq(ParentSet) /\ frame \in FrameSet
  BY DEF IInv, TypeOK
<1>2. \A parent \in ParentSet : parent.frame \in FrameSet
  BY DEF ParentSet
<1>3. \A f \in FrameSet : f.static \in BOOLEAN
  BY DEF FrameSet
<1> QED
  BY <1>1, <1>2, <1>3

\* A quiet step writes nothing below a static frame.
LEMMA QuietKeeps ==
  ASSUME SInv, Quietly
  PROVE  StaticBelow' /\ CreationsWrite' /\ DepthIsHeight'
<1>1. /\ Len(parents) \in Nat /\ DOMAIN parents = 1..Len(parents)
  BY Stack DEF SInv
<1>2. parents' = parents /\ frame'.static = frame.static /\ frame'.depth = frame.depth
  BY DEF Quietly
<1>3. \A i \in 1..Len(parents) : ChildFrameOf(i)'.static = ChildFrameOf(i).static
  BY <1>2 DEF ChildFrameOf
<1>4. StaticBelow'
  <2> SUFFICES ASSUME NEW i \in 1..Len(parents), ChildFrameOf(i).static,
                      NEW j \in i..Len(parents)
               PROVE  /\ ChildFrameOf(j).static
                      /\ Persistent(After(j))' = Persistent(parents[i].snapshot)
    <3>1. \A i \in 1..Len(parents) : Persistent(parents[i].snapshot)' = Persistent(parents[i].snapshot)
      BY <1>2 DEF Persistent
    <3> QED
      BY <1>1, <1>2, <1>3, <3>1 DEF StaticBelow
  <2>1. ChildFrameOf(j).static /\ Persistent(After(j)) = Persistent(parents[i].snapshot)
    BY <1>1 DEF SInv, StaticBelow
  <2>2. Persistent(After(j))' = Persistent(After(j))
    <3>1. CASE j = Len(parents)
      <4>1. frame.static
        BY <2>1, <3>1 DEF ChildFrameOf
      <4>2. After(j) = world /\ After(j)' = world'
        BY <1>2, <3>1 DEF After
      <4> QED
        BY <4>1, <4>2 DEF Quietly, Persistent
    <3>2. CASE j # Len(parents)
      BY <1>2, <3>2 DEF After, Persistent
    <3> QED
      BY <3>1, <3>2
  <2> QED
    BY <2>1, <2>2
<1>5. CreationsWrite' /\ DepthIsHeight'
  BY <1>1, <1>2, <1>3 DEF SInv, CreationsWrite, DepthIsHeight
<1> QED
  BY <1>4, <1>5

\* A push keeps what is below it: a static frame that asks for a call hands
\* its flag down and leaves its world in the snapshot.
LEMMA PushKeeps ==
  ASSUME SInv, Pushing
  PROVE  StaticBelow' /\ CreationsWrite' /\ DepthIsHeight'
<1>0. PICK n \in Nat : n = Len(parents)
  BY Stack DEF SInv
<1>1. /\ parents \in Seq(ParentSet) /\ DOMAIN parents = 1..n
      /\ frame.static \in BOOLEAN
  BY <1>0, Stack DEF SInv
<1>2. PICK parent \in ParentSet :
        /\ parents' = Append(parents, parent)
        /\ parent.frame.static = frame.static /\ parent.frame.depth = frame.depth
        /\ frame'.depth = frame.depth + 1
        /\ frame.static =>
             frame'.static /\ Persistent(parent.snapshot) = Persistent(world)
        /\ frame'.static => Persistent(world') = Persistent(parent.snapshot)
        /\ parent.creation => ~frame'.static
  BY DEF Pushing
<1>3. /\ Len(parents') = n + 1 /\ DOMAIN parents' = 1..n + 1
      /\ parents'[n + 1] = parent
      /\ \A i \in 1..n : parents'[i] = parents[i]
  BY <1>0, <1>1, <1>2
<1>4. /\ \A i \in 1..n : i < n => ChildFrameOf(i)' = ChildFrameOf(i)
      /\ \A i \in 1..n : i < n => After(i)' = After(i)
      /\ n \in 1..n =>
           /\ ChildFrameOf(n) = frame /\ ChildFrameOf(n)' = parent.frame
           /\ After(n) = world /\ After(n)' = parent.snapshot
      /\ ChildFrameOf(n + 1)' = frame' /\ After(n + 1)' = world'
  <2>1. \A i \in 1..n : i < n =>
          ChildFrameOf(i)' = ChildFrameOf(i) /\ After(i)' = After(i)
    <3> SUFFICES ASSUME NEW i \in 1..n, i < n
                 PROVE  ChildFrameOf(i)' = ChildFrameOf(i) /\ After(i)' = After(i)
      OBVIOUS
    <3>1. i # n /\ i # n + 1 /\ i + 1 \in 1..n
      BY <1>0, <1>1
    <3> QED
      BY <1>0, <1>3, <3>1 DEF ChildFrameOf, After
  <2>2. n \in 1..n =>
           /\ ChildFrameOf(n) = frame /\ ChildFrameOf(n)' = parent.frame
           /\ After(n) = world /\ After(n)' = parent.snapshot
    BY <1>0, <1>1, <1>3 DEF ChildFrameOf, After
  <2>3. ChildFrameOf(n + 1)' = frame' /\ After(n + 1)' = world'
    BY <1>0, <1>1, <1>3 DEF ChildFrameOf, After
  <2> QED
    BY <2>1, <2>2, <2>3
<1>5. \A i \in 1..n : ChildFrameOf(i)'.static = ChildFrameOf(i).static
  BY <1>0, <1>1, <1>2, <1>4
<1>6. \A i \in 1..n, j \in 1..n :
        ChildFrameOf(j).static =>
          Persistent(After(j)') = Persistent(After(j))
  BY <1>0, <1>1, <1>2, <1>4
<1>7. \A i \in 1..n : ChildFrameOf(i).static =>
        \A j \in i..n : ChildFrameOf(j).static /\ Persistent(After(j)) = Persistent(parents[i].snapshot)
  BY <1>0, <1>1 DEF SInv, StaticBelow
<1>8. StaticBelow'
  <2> SUFFICES ASSUME NEW i \in 1..n + 1, ChildFrameOf(i)'.static,
                      NEW j \in i..n + 1
               PROVE  /\ ChildFrameOf(j)'.static
                      /\ Persistent(After(j)') = Persistent(parents'[i].snapshot)
    BY <1>0, <1>3 DEF StaticBelow, Persistent
  <2>1. CASE i = n + 1
    BY <1>0, <1>1, <1>2, <1>3, <1>4, <2>1
  <2>2. CASE i \in 1..n /\ j \in i..n
    BY <1>0, <1>1, <1>3, <1>5, <1>6, <1>7, <2>2
  <2>3. CASE i \in 1..n /\ j = n + 1
    <3>1. n \in i..n /\ n \in 1..n
      BY <1>0, <1>1, <2>3
    <3>2. frame.static /\ Persistent(world) = Persistent(parents[i].snapshot)
      BY <1>4, <1>5, <1>7, <2>3, <3>1
    <3> QED
      BY <1>2, <1>3, <1>4, <2>3, <3>2
  <2> QED
    BY <1>0, <1>1, <2>1, <2>2, <2>3
<1>9. CreationsWrite'
  <2> SUFFICES ASSUME NEW i \in 1..n + 1, parents'[i].creation
               PROVE  ~ChildFrameOf(i)'.static
    BY <1>3 DEF CreationsWrite
  <2>1. CASE i = n + 1
    BY <1>2, <1>3, <1>4, <2>1
  <2>2. CASE i \in 1..n
    BY <1>0, <1>1, <1>3, <1>5, <2>2 DEF SInv, CreationsWrite
  <2> QED
    BY <1>0, <1>1, <2>1, <2>2
<1>10. DepthIsHeight'
  BY <1>0, <1>1, <1>2, <1>3 DEF SInv, DepthIsHeight
<1> QED
  BY <1>8, <1>9, <1>10

\* A pop leaves the caller with its snapshot, with what its child reached, or,
\* after a creation, with the code of the contract: then nobody below is static.
LEMMA PopKeeps ==
  ASSUME SInv, Popping
  PROVE  StaticBelow' /\ CreationsWrite' /\ DepthIsHeight'
<1>0. PICK n \in Nat \ {0} : n = Len(parents)
  <2>1. parents \in Seq(ParentSet) /\ parents # <<>>
    BY Stack DEF SInv, Popping
  <2>2. Len(parents) \in Nat \ {0}
    BY <2>1
  <2> QED
    BY <2>2
<1>1. parents \in Seq(ParentSet) /\ DOMAIN parents = 1..n
  BY <1>0, Stack DEF SInv
<1>2. /\ parents' = Front(parents) /\ Waiting = parents[n]
      /\ frame' = Waiting.frame
      /\ world' \in {world, Waiting.snapshot} \/ Waiting.creation
  BY <1>0 DEF Popping, Waiting, Last
<1>3. /\ Len(parents') = n - 1 /\ DOMAIN parents' = 1..n - 1
      /\ \A i \in 1..n - 1 : parents'[i] = parents[i]
  BY <1>0, <1>1, <1>2, FrontProperties
<1>4. /\ \A i \in 1..n - 1 : ChildFrameOf(i)' = ChildFrameOf(i)
      /\ \A i \in 1..n - 1 : i < n - 1 => After(i)' = After(i)
      /\ After(n - 1)' = world'
      /\ After(n) = world
      /\ n - 1 \in 1..n - 1 => After(n - 1) = parents[n].snapshot
      /\ ChildFrameOf(n) = frame
  BY <1>0, <1>1, <1>2, <1>3 DEF ChildFrameOf, After
<1>5. \A i \in 1..n : ChildFrameOf(i).static =>
        \A j \in i..n : ChildFrameOf(j).static /\ Persistent(After(j)) = Persistent(parents[i].snapshot)
  BY <1>0, <1>1 DEF SInv, StaticBelow
<1>6. StaticBelow'
  <2> SUFFICES ASSUME NEW i \in 1..n - 1, ChildFrameOf(i)'.static,
                      NEW j \in i..n - 1
               PROVE  /\ ChildFrameOf(j)'.static
                      /\ Persistent(After(j)') = Persistent(parents'[i].snapshot)
    BY <1>3 DEF StaticBelow, Persistent
  <2>0. ChildFrameOf(i).static /\ parents'[i] = parents[i]
    BY <1>3, <1>4
  <2>1. i \in 1..n /\ j \in 1..n - 1 /\ j \in i..n /\ n \in i..n /\ n \in 1..n
    BY <1>0, <1>1
  <2>2. ChildFrameOf(j)'.static
    BY <1>4, <1>5, <2>0, <2>1
  <2>3. CASE j < n - 1
    BY <1>4, <1>5, <2>0, <2>1, <2>2, <2>3
  <2>4. CASE j = n - 1
    <3>1. ~Waiting.creation
      BY <1>0, <1>1, <1>2, <1>5, <2>0, <2>1 DEF SInv, CreationsWrite
    <3>2. /\ Persistent(world) = Persistent(parents[i].snapshot)
          /\ Persistent(parents[n].snapshot) = Persistent(parents[i].snapshot)
      BY <1>4, <1>5, <2>0, <2>1, <2>4
    <3> QED
      BY <1>2, <1>4, <2>0, <2>2, <2>4, <3>1, <3>2
  <2> QED
    BY <1>0, <1>1, <2>2, <2>3, <2>4
<1>7. CreationsWrite'
  BY <1>0, <1>1, <1>3, <1>4 DEF SInv, CreationsWrite
<1>8. DepthIsHeight'
  BY <1>0, <1>1, <1>2, <1>3 DEF SInv, DepthIsHeight
<1> QED
  BY <1>6, <1>7, <1>8

\* Every step keeps the invariant.
LEMMA NextStatic == SInv /\ [Next]_vars => SInv'
<1> SUFFICES ASSUME SInv, [Next]_vars PROVE SInv'
  OBVIOUS
<1>1. IInv'
  BY NextInv DEF SInv
<1>2. Quietly \/ Pushing \/ Popping
  BY <1>1, StepShape DEF SInv
<1> QED
  BY <1>1, <1>2, QuietKeeps, PushKeeps, PopKeeps DEF SInv

\* The outermost frame waits for nobody and is the first.
LEMMA InitStatic == Init => SInv
<1> SUFFICES ASSUME Init PROVE SInv
  OBVIOUS
<1>1. IInv /\ parents = <<>> /\ DOMAIN parents = {} /\ frame.depth = 0
  BY InitInv DEF Init
<1> QED
  BY <1>1 DEF SInv, StaticBelow, CreationsWrite, DepthIsHeight

\* The invariant holds of every reachable state.
LEMMA InductiveStatic == Spec => []SInv
  BY InitStatic, NextStatic, PTL DEF Spec

----------------------------------------------------------------------------
(* The theorems.                                                           *)

\* Whatever a static frame runs, and whatever it calls at any depth, changes
\* no balance, nonce, code, storage, log or deletion that its caller sees
\* (call-enter.bend:60).
THEOREM StaticFramesAreReadOnly == Spec => []StaticIsReadOnly
<1>1. SInv => StaticIsReadOnly
  BY Stack DEF SInv, StaticBelow, StaticIsReadOnly, After
<1> QED
  BY <1>1, InductiveStatic, PTL

----------------------------------------------------------------------------
(* The survival of contracts.  Three things could touch a contract that    *)
(* was there: a creation at its address, a deposit of code, and a          *)
(* self-destruct.  The first collides, the second only follows a creation  *)
(* that did not, and the third marks only accounts that this transaction   *)
(* created.                                                                *)

\* What an account must keep of the contract it was.
Same(account, a) ==
  /\ account.code = Start.accounts[a].code
  /\ account.nonce >= Start.accounts[a].nonce
  /\ account.original = Start.accounts[a].original
  /\ ~account.created

Kept(w) ==
  \A a \in Contracts : Same(w.accounts[a], a) /\ a \notin ToSet(w.selfdestructs)

\* A creation that waits for code is not at a contract's address, unless it
\* collided: then its frame is a fault, and nothing but its end comes next.
CreationsElsewhere ==
  \A i \in DOMAIN parents :
    parents[i].creation =>
      \/ parents[i].created \notin Contracts
      \/ i = Len(parents) /\ frame.action.op = "Fault"

KInv ==
  /\ IInv
  /\ Kept(world)
  /\ \A i \in DOMAIN parents : Kept(parents[i].snapshot)
  /\ CreationsElsewhere

----------------------------------------------------------------------------
(* The operations on a world.                                              *)

\* Contracts are addresses of accounts with code.
LEMMA ContractsTyped ==
  /\ Contracts \subseteq Address
  /\ \A a \in Contracts :
       /\ Start.accounts[a] \in AccountSet /\ Start.accounts[a].nonce \in Nat
       /\ Start.accounts[a].code.len \in Nat \ {0}
<1>1. Start \in WorldSet
  BY ProgramAssumption
<1> QED
  BY <1>1 DEF Contracts, WorldSet, AccountSet, CodeSet

\* world.bend:47-56.  An account with code is not pruned, so it stays what the
\* caller made of it; every other account stays as it is.
LEMMA ModifyKeeps ==
  ASSUME NEW w \in WorldSet, Kept(w), NEW x \in Address, NEW account \in AccountSet,
         x \in Contracts => Same(account, x)
  PROVE  Kept(Modify(w, x, account))
<1>1. Modify(w, x, account).selfdestructs = w.selfdestructs
  BY DEF Modify, Put, WorldSet
<1>2. Modify(w, x, account).accounts[x] = Modified(account)
  BY DEF Modify, Put, WorldSet
<1>3. \A a \in Address \ {x} : Modify(w, x, account).accounts[a] = w.accounts[a]
  BY ModifyType
<1>4. x \in Contracts => Same(Modified(account), x)
  <2> SUFFICES ASSUME x \in Contracts PROVE Same(Modified(account), x)
    OBVIOUS
  <2>1. account.code.len \in Nat \ {0}
    BY ContractsTyped DEF Same
  <2>2. Modified(account) = [account EXCEPT !.exists = TRUE]
    BY <2>1 DEF Modified, IsEmpty
  <2> QED
    BY <2>2 DEF Same, AccountSet
<1> HIDE DEF Modify
<1> QED
  BY <1>1, <1>2, <1>3, <1>4, ContractsTyped DEF Kept

\* world.bend:60-63.  A balance is not part of what a contract keeps.
LEMMA CreditKeeps ==
  ASSUME NEW w \in WorldSet, Kept(w), NEW x \in Address, NEW delta \in Int,
         w.accounts[x].balance + delta \in Nat
  PROVE  Kept(Credit(w, x, delta))
<1> DEFINE account == [w.accounts[x] EXCEPT !.balance = @ + delta]
<1>1. w.accounts[x] \in AccountSet
  BY DEF WorldSet
<1>2. account \in AccountSet /\ (x \in Contracts => Same(account, x))
  BY <1>1 DEF AccountSet, Kept, Same
<1>3. Credit(w, x, delta) = Modify(w, x, account)
  BY DEF Credit
<1> HIDE DEF account
<1> QED
  BY <1>2, <1>3, ModifyKeeps

\* world.bend:58-63.  Moving ether keeps the code and nonce of contracts.
LEMMA MoveEtherKeeps ==
  ASSUME NEW w \in WorldSet, Kept(w), NEW source \in Address, NEW target \in Address,
         NEW value \in Nat, value <= w.accounts[source].balance
  PROVE  Kept(MoveEther(w, source, target, value))
<1> DEFINE debited == Credit(w, source, -value)
<1>1. w.accounts[source].balance \in Nat /\ w.accounts[target].balance \in Nat
  BY DEF WorldSet, AccountSet
<1>2. -value \in Int /\ w.accounts[source].balance + (-value) \in Nat
  BY <1>1
<1>3. debited \in WorldSet /\ debited.accounts[target].balance \in Nat /\ Kept(debited)
  BY SMTT(30), <1>1, <1>2, CreditType, CreditKeeps
<1>4. debited.accounts[target].balance + value \in Nat
  BY <1>3
<1> HIDE DEF debited
<1> QED
  BY <1>3, <1>4, CreditKeeps DEF MoveEther, debited

\* world.bend:136-142.  A log changes no account.
LEMMA LogKeeps ==
  ASSUME NEW w \in WorldSet, Kept(w), NEW event
  PROVE  Kept(Log(w, event))
<1> DEFINE v == Log(w, event)
<1>1. v.accounts = w.accounts /\ v.selfdestructs = w.selfdestructs
  BY DEF Log, WorldSet
<1> HIDE DEF v
<1>2. Kept(v)
  BY <1>1 DEF Kept
<1> QED
  BY <1>2 DEF v

\* call-common.bend:58-68.  So does a payment with its log.
LEMMA PayKeeps ==
  ASSUME NEW w \in WorldSet, Kept(w), NEW source \in Address, NEW target \in Address,
         NEW value \in Nat, value <= w.accounts[source].balance
  PROVE  Kept(Pay(w, source, target, value))
<1> DEFINE moved == Transfer(w, source, target, value)
<1>1. moved \in WorldSet /\ Kept(moved)
  BY TransferType, MoveEtherKeeps DEF Transfer
<1> HIDE DEF moved
<1> QED
  BY <1>1, LogKeeps DEF Pay, TransferLog, moved

\* world.bend:78-131.  Warmth, storage and transient storage are not part of
\* what a contract keeps either.
LEMMA TouchKeeps ==
  ASSUME NEW w \in WorldSet, Kept(w), NEW x \in Address, NEW k, NEW value
  PROVE  /\ Kept(WarmAccount(w, x)) /\ Kept(WarmStorage(w, x, k))
         /\ Kept(SetStorage(w, x, k, value)) /\ Kept(SetTransient(w, x, k, value))
<1> DEFINE Alike(v) ==
      /\ v.selfdestructs = w.selfdestructs
      /\ \A a \in Address : /\ v.accounts[a].code = w.accounts[a].code
                            /\ v.accounts[a].nonce = w.accounts[a].nonce
                            /\ v.accounts[a].original = w.accounts[a].original
                            /\ v.accounts[a].created = w.accounts[a].created
<1>1. ASSUME NEW v, Alike(v)
      PROVE  Kept(v)
  BY <1>1, ContractsTyped DEF Kept, Same
<1>2. Alike(WarmAccount(w, x))
  BY DEF WarmAccount, WorldSet, AccountSet
<1>3. Alike(WarmStorage(w, x, k))
  BY DEF WarmStorage, WorldSet, AccountSet
<1>4. Alike(SetStorage(w, x, k, value))
  BY DEF SetStorage, WorldSet, AccountSet
<1>5. Alike(SetTransient(w, x, k, value))
  BY DEF SetTransient, WorldSet, AccountSet
<1> HIDE DEF Alike
<1> QED
  BY <1>1, <1>2, <1>3, <1>4, <1>5

\* world.bend:133-134.  So does a change of the refund counter.
LEMMA RefundKeeps ==
  ASSUME NEW w \in WorldSet, Kept(w), NEW delta
  PROVE  Kept(AddRefund(w, delta))
  BY DEF AddRefund, Kept, WorldSet

\* create-enter.bend:38.  A nonce only grows.
LEMMA NonceKeeps ==
  ASSUME NEW w \in WorldSet, Kept(w), NEW x \in Address
  PROVE  Kept(IncrementNonce(w, x))
<1> DEFINE account == [w.accounts[x] EXCEPT !.nonce = @ + 1]
<1>1. w.accounts[x] \in AccountSet /\ w.accounts[x].nonce \in Nat
  BY DEF WorldSet, AccountSet
<1>2. account \in AccountSet /\ account.nonce = w.accounts[x].nonce + 1
      /\ account.code = w.accounts[x].code /\ account.original = w.accounts[x].original
      /\ account.created = w.accounts[x].created
  BY <1>1 DEF AccountSet
<1>3. IncrementNonce(w, x) = Modify(w, x, account)
  BY DEF IncrementNonce
<1> HIDE DEF account
<1>4. x \in Contracts => Same(account, x)
  BY <1>1, <1>2, ContractsTyped DEF Kept, Same
<1> QED
  BY <1>2, <1>3, <1>4, ModifyKeeps

\* create-enter.bend:25-27.  A creation starts at an account without code.
LEMMA NewContractKeeps ==
  ASSUME NEW w \in WorldSet, Kept(w), NEW x \in Address, x \notin Contracts
  PROVE  Kept(NewContract(w, x))
<1> DEFINE account == [w.accounts[x] EXCEPT
                         !.storage = ZeroSlots, !.original = ZeroSlots,
                         !.nonce = 1, !.exists = TRUE, !.created = TRUE]
<1>1. w.accounts[x] \in AccountSet
  BY DEF WorldSet
<1>2. account \in AccountSet
  BY <1>1, ZeroSlotsType DEF AccountSet
<1>3. NewContract(w, x) = Modify(w, x, account)
  BY DEF NewContract
<1> HIDE DEF account
<1> QED
  BY <1>2, <1>3, ModifyKeeps

\* create-finish.bend:10-16.  Code is only stored where no contract was.
LEMMA SetCodeKeeps ==
  ASSUME NEW w \in WorldSet, Kept(w), NEW x \in Address, x \notin Contracts,
         NEW code \in CodeSet
  PROVE  Kept(SetCode(w, x, code))
<1>1. [w.accounts[x] EXCEPT !.code = code] \in AccountSet
  <2>1. w.accounts[x] \in AccountSet
    BY DEF WorldSet
  <2> QED
    BY <2>1 DEF AccountSet
<1> QED
  BY <1>1, ModifyKeeps DEF SetCode

\* A list with a new head has no other new element.
LEMMA ConsRange ==
  ASSUME NEW S, NEW x \in S, NEW s \in Seq(S), NEW y \in ToSet(<<x>> \o s)
  PROVE  y = x \/ y \in ToSet(s)
<1>1. PICK i \in 1..Len(s) + 1 : y = (<<x>> \o s)[i]
  BY DEF ToSet
<1>2. CASE i = 1
  BY <1>1, <1>2
<1>3. CASE i # 1
  <2>1. i - 1 \in 1..Len(s) /\ y = s[i - 1]
    BY <1>1, <1>3
  <2> QED
    BY <2>1 DEF ToSet
<1> QED
  BY <1>2, <1>3

\* call-selfdestruct.bend:8-12.  Only an account that this transaction created
\* is marked, and no contract is one.
LEMMA MarkKeeps ==
  ASSUME IInv, Kept(world), NEW w \in WorldSet, Kept(w)
  PROVE  Kept(Mark(w, frame.address))
<1>1. CASE Self.created
  <2> DEFINE marked == <<frame.address>> \o w.selfdestructs
  <2>1. frame.address \notin Contracts
    BY <1>1 DEF Self, Kept, Same
  <2>2. w.selfdestructs \in Seq(Address) /\ frame.address \in Address
    BY RunningTyped DEF WorldSet
  <2>3. \A a \in Contracts : a \notin ToSet(marked)
    BY <2>1, <2>2, ConsRange DEF Kept
  <2>4. Mark(w, frame.address) = [w EXCEPT !.selfdestructs = marked]
    BY <1>1 DEF Mark
  <2> HIDE DEF marked
  <2> QED
    BY <2>3, <2>4 DEF Kept, WorldSet
<1>2. CASE ~Self.created
  BY <1>2 DEF Mark
<1> QED
  BY <1>1, <1>2

----------------------------------------------------------------------------
(* The shapes of a step.                                                   *)

\* A step that leaves the stack alone.
LEMMA QuietSurvives ==
  ASSUME KInv, IInv', parents' = parents, Kept(world'),
         frame.action.op # "Fault" \/ frame' = frame
  PROVE  KInv'
<1>1. CreationsElsewhere'
  BY DEF KInv, CreationsElsewhere
<1>2. \A i \in DOMAIN parents' : Kept(parents'[i].snapshot)
  BY DEF KInv
<1> QED
  BY <1>1, <1>2 DEF KInv, Kept, Contracts, Same

\* A step that suspends the running frame.
LEMMA PushSurvives ==
  ASSUME KInv, IInv', NEW parent, parents' = Append(parents, parent),
         Kept(parent.snapshot), Kept(world'), frame.action.op # "Fault",
         parent.creation =>
           parent.created \notin Contracts \/ frame'.action.op = "Fault"
  PROVE  KInv'
<1>0. PICK n \in Nat : n = Len(parents)
  BY Stack DEF KInv
<1>1. parents \in Seq(ParentSet) /\ DOMAIN parents = 1..n
  BY <1>0, Stack DEF KInv
<1>2. /\ Len(parents') = n + 1 /\ DOMAIN parents' = 1..n + 1
      /\ parents'[n + 1] = parent
      /\ \A i \in 1..n : parents'[i] = parents[i]
  BY <1>0, <1>1
<1>3. \A i \in 1..n + 1 : i \in 1..n \/ i = n + 1
  OBVIOUS
<1>4. \A i \in DOMAIN parents' : Kept(parents'[i].snapshot)
  BY <1>1, <1>2, <1>3 DEF KInv
<1>5. \A i \in 1..n : parents[i].creation => parents[i].created \notin Contracts
  BY <1>0, <1>1 DEF KInv, CreationsElsewhere
<1>6. CreationsElsewhere'
  <2> SUFFICES ASSUME NEW i \in 1..n + 1, parents'[i].creation
               PROVE  \/ parents'[i].created \notin Contracts
                      \/ i = Len(parents') /\ frame'.action.op = "Fault"
    BY <1>2 DEF CreationsElsewhere, Contracts
  <2> QED
    BY <1>2, <1>3, <1>5
<1> QED
  BY <1>4, <1>6 DEF KInv, Kept, Contracts, Same

\* A step that resumes the innermost parent.
LEMMA PopSurvives ==
  ASSUME KInv, IInv', parents # <<>>, parents' = Front(parents), Kept(world')
  PROVE  KInv'
<1>0. PICK n \in Nat \ {0} : n = Len(parents)
  <2>1. parents \in Seq(ParentSet) /\ parents # <<>>
    BY Stack DEF KInv
  <2>2. Len(parents) \in Nat \ {0}
    BY <2>1
  <2> QED
    BY <2>2
<1>1. parents \in Seq(ParentSet) /\ DOMAIN parents = 1..n
  BY <1>0, Stack DEF KInv
<1>2. /\ Len(parents') = n - 1 /\ DOMAIN parents' = 1..n - 1
      /\ \A i \in 1..n - 1 : parents'[i] = parents[i]
  BY <1>0, <1>1, FrontProperties
<1>3. \A i \in 1..n - 1 : i \in 1..n /\ i # n
  OBVIOUS
<1>4. \A i \in DOMAIN parents' : Kept(parents'[i].snapshot)
  BY <1>1, <1>2, <1>3 DEF KInv
<1>5. CreationsElsewhere'
  <2> SUFFICES ASSUME NEW i \in 1..n - 1, parents'[i].creation
               PROVE  parents'[i].created \notin Contracts
    BY <1>2 DEF CreationsElsewhere, Contracts
  <2> QED
    BY <1>0, <1>1, <1>2, <1>3 DEF KInv, CreationsElsewhere
<1> QED
  BY <1>4, <1>5 DEF KInv, Kept, Contracts, Same

----------------------------------------------------------------------------
(* The actions.                                                            *)

\* What the running frame has to offer.
LEMMA Inside ==
  ASSUME KInv
  PROVE  IInv /\ Kept(world) /\ world \in WorldSet /\ frame.address \in Address
  BY RunningTyped DEF KInv

\* state-ops.bend.  Contracts outlive every instruction,
LEMMA ExecuteSurvives ==
  ASSUME KInv, Execute, IInv'
  PROVE  KInv'
<1> USE Inside
<1>1. parents' = parents
  BY ExecuteShape DEF Quietly
<1>2. frame.action.op # "Fault"
  BY DEF Execute, Throw, Stop, Compute, Exit, Touch, Sload, Sstore, Tstore, Emit,
         AskCall, AskCreate, AskSelfDestruct, Executing, Running
<1>3. Kept(world')
  <2>1. CASE \E a \in Address, cost \in MemoryCost : Touch(a, cost)
    BY <2>1, TouchKeeps DEF Touch
  <2>2. CASE \E k \in Key : Sload(k)
    BY <2>2, TouchKeeps DEF Sload
  <2>3. CASE \E k \in Key, value \in Value : Sstore(k, value)
    <3>1. PICK k \in Key, value \in Value : Sstore(k, value)
      BY <2>3
    <3> DEFINE warmed == WarmStorage(world, frame.address, k)
               stored == SetStorage(warmed, frame.address, k, value)
               refund == SlotRefund(Self.original[k], Self.storage[k], value)
    <3>2. warmed \in WorldSet /\ Kept(warmed)
      BY <3>1, TouchKeeps, StorageTypes
    <3>3. world' = AddRefund(stored, refund)
      BY <3>1 DEF Sstore
    <3> HIDE DEF warmed, refund
    <3>4. stored \in WorldSet /\ Kept(stored)
      BY <3>1, <3>2, TouchKeeps, StorageTypes
    <3> HIDE DEF stored
    <3> QED
      BY <3>3, <3>4, RefundKeeps
  <2>4. CASE \E k \in Key, value \in Value : Tstore(k, value)
    BY <2>4, TouchKeeps DEF Tstore
  <2>5. CASE \E cost \in MemoryCost : Emit(cost)
    BY <2>5, LogKeeps DEF Emit
  <2>6. CASE UNCHANGED world
    BY <2>6
  <2> QED
    BY <2>1, <2>2, <2>3, <2>4, <2>5, <2>6
    DEF Execute, Throw, Stop, Compute, Exit, AskCall, AskCreate, AskSelfDestruct
<1> QED
  BY <1>1, <1>2, <1>3, QuietSurvives

\* call-enter.bend:69-77.  the world a call begins with,
LEMMA CallWorldSurvives ==
  ASSUME KInv, Calling
  PROVE  CallWorld \in WorldSet /\ Kept(CallWorld)
<1> USE Inside
<1>1. Request.target \in Address
  BY CallRequestType DEF IInv
<1>2. TargetWarmed \in WorldSet /\ Kept(TargetWarmed)
  BY <1>1, WarmAccountType, TouchKeeps DEF TargetWarmed
<1>3. Delegated(Target.code) => Target.code.to \in Address
  BY <1>1, RunningTyped, DelegateType DEF Target
<1> QED
  BY <1>2, <1>3, WarmAccountType, TouchKeeps DEF CallWorld

\* call-enter.bend:29-63.  the call itself,
LEMMA CallEnterSurvives ==
  ASSUME KInv, NEW memory \in MemoryCost, CallEnter(memory), IInv'
  PROVE  KInv'
<1> USE Inside
<1>1. Calling /\ CallAllowed(memory) /\ ~CallImpossible
  BY DEF CallEnter
<1>2. /\ Request.kind \in CallKind /\ Request.target \in Address /\ Request.value \in Nat
  BY <1>1, CallRequestType DEF IInv
<1>3. CallWorld \in WorldSet /\ Kept(CallWorld)
  BY <1>1, CallWorldSurvives
<1>4. Kept(world')
  <2>1. CASE Request.kind = "CALL"
    <3>1. Request.value <= CallWorld.accounts[frame.address].balance
      BY <1>1, <1>2, <2>1, RunningTyped, CallWorldType DEF CallImpossible, Self
    <3> QED
      BY <1>2, <1>3, <2>1, <3>1, PayKeeps DEF CallEnter
  <2>2. CASE Request.kind # "CALL"
    BY <1>3, <2>2 DEF CallEnter
  <2> QED
    BY <2>1, <2>2
<1>5. frame.action.op # "Fault"
  BY <1>1 DEF Calling
<1> DEFINE paid == CallPaid(memory)
           kept == [paid EXCEPT !.gas = @ - CallLimit(memory), !.reservoir = 0]
           parent == [frame |-> WithAction(frame, "Running"), meter |-> kept,
                      snapshot |-> CallWorld, creation |-> FALSE,
                      charged |-> BirthCharged, created |-> Request.target]
<1>6. parents' = Append(parents, parent)
  BY DEF CallEnter, Suspend
<1>7. parent.snapshot = CallWorld /\ ~parent.creation
  OBVIOUS
<1> HIDE DEF parent
<1> QED
  BY <1>3, <1>4, <1>5, <1>6, <1>7, PushSurvives

\* create-enter.bend:20-49.  a creation, whose address collides with none of them,
LEMMA CreateEnterSurvives ==
  ASSUME KInv, NEW cost \in MemoryCost, NEW target \in CreateTarget,
         NEW code \in InitCode, CreateEnter(cost, target, code), IInv'
  PROVE  KInv'
<1> USE Inside
<1> DEFINE snapshot == CreateWorld(target)
           warmed == WarmAccount(world, target)
           child == CreationFrame(target, code)
           birth == CreateBirth(target)
           paid == SpendBirth(CreateCharged(cost), birth)
           kept == [paid EXCEPT !.gas = @ - Cap(paid.gas), !.reservoir = 0]
           parent == [frame |-> WithAction(frame, "Running"), meter |-> kept,
                      snapshot |-> snapshot, creation |-> TRUE,
                      charged |-> birth, created |-> target]
<1>1. target \in Address /\ Creating /\ ~CreateImpossible
  BY ProgramAssumption DEF CreateEnter
<1>2. /\ parents' = Append(parents, parent)
      /\ \/ /\ Collision(snapshot.accounts[target])
            /\ frame' = WithAction(child, "Fault")
            /\ world' = snapshot
         \/ /\ ~Collision(snapshot.accounts[target])
            /\ world' = Pay(NewContract(snapshot, target), frame.address, target,
                            Request.value)
  BY DEF CreateEnter, Suspend
<1>3. parent.snapshot = snapshot /\ parent.creation = TRUE /\ parent.created = target
  OBVIOUS
<1> HIDE DEF parent
<1>4. warmed \in WorldSet /\ Kept(warmed)
  BY <1>1, WarmAccountType, TouchKeeps
<1>5. snapshot = IncrementNonce(warmed, frame.address)
  BY DEF CreateWorld
<1>6. /\ snapshot \in WorldSet
      /\ snapshot.accounts[frame.address].balance = Self.balance
  BY <1>1, CreateWorldType
<1> HIDE DEF warmed, snapshot
<1>7. Kept(snapshot)
  BY <1>4, <1>5, NonceKeeps
<1>8. frame.action.op # "Fault"
  BY <1>1 DEF Creating
<1>9. CASE Collision(snapshot.accounts[target])
  <2>1. WithAction(child, "Fault").action.op = "Fault"
    BY DEF WithAction, CreationFrame, Plain
  <2> QED
    BY <1>2, <1>3, <1>7, <1>8, <1>9, <2>1, PushSurvives
<1>10. CASE ~Collision(snapshot.accounts[target])
  <2>1. target \notin Contracts
    BY <1>7, <1>10, ContractsTyped DEF Collision, Kept, Same
  <2> DEFINE opened == NewContract(snapshot, target)
  <2>2. opened \in WorldSet /\ Kept(opened)
    BY <1>1, <1>6, <1>7, <2>1, NewContractType, NewContractKeeps
  <2>3. opened.accounts[frame.address].balance = Self.balance
    BY <1>1, <1>6, NewContractType
  <2>4. Request.value \in Nat /\ Request.value <= Self.balance
    BY <1>1, CreateRequestType, RunningTyped DEF IInv, CreateImpossible, Self
  <2>5. world' = Pay(opened, frame.address, target, Request.value)
    BY <1>2, <1>10
  <2> HIDE DEF opened
  <2>6. Kept(world')
    BY <1>1, <2>2, <2>3, <2>4, <2>5, PayKeeps
  <2> QED
    BY <1>2, <1>3, <1>7, <1>8, <2>1, <2>6, PushSurvives
<1> QED
  BY <1>9, <1>10

\* call-selfdestruct.bend:14-45.  a self-destruct, which only schedules what was created,
LEMMA DestructSurvives ==
  ASSUME KInv, Destruct, IInv'
  PROVE  KInv'
<1> USE Inside
<1> DEFINE ether == MoveEther(TargetWarmed, frame.address, Request.target, Self.balance)
           moved == TransferLog(ether, frame.address, Request.target, Self.balance)
<1>1. Destroying /\ Request.target \in Address
  BY DestructRequestType DEF IInv, Destruct
<1>2. /\ TargetWarmed \in WorldSet /\ Kept(TargetWarmed)
      /\ TargetWarmed.accounts[frame.address].balance = Self.balance
  BY <1>1, RunningTyped, WarmAccountType, TouchKeeps DEF TargetWarmed, Self
<1>3. Self.balance \in Nat
  BY RunningTyped DEF Self
<1>4. ether \in WorldSet /\ Kept(ether)
  BY <1>1, <1>2, <1>3, MoveEtherType, MoveEtherKeeps
<1>5. world' = Mark(moved, frame.address) /\ parents' = parents
  BY DEF Destruct
<1> HIDE DEF ether
<1>6. moved \in WorldSet /\ Kept(moved)
  BY <1>1, <1>3, <1>4, TransferLogType, LogKeeps DEF TransferLog
<1> HIDE DEF moved
<1>7. Kept(world')
  BY <1>5, <1>6, MarkKeeps
<1>8. frame.action.op # "Fault"
  BY <1>1 DEF Destroying
<1> QED
  BY <1>5, <1>7, <1>8, QuietSurvives

\* vm.bend:34-44.  and whatever else is served.
LEMMA ServeSurvives ==
  ASSUME KInv, Serve, IInv'
  PROVE  KInv'
<1> USE Inside
<1>1. CASE \E memory \in MemoryCost : CallEnter(memory)
  BY <1>1, CallEnterSurvives
<1>2. CASE \E cost \in MemoryCost, target \in CreateTarget, code \in InitCode :
             CreateEnter(cost, target, code)
  BY <1>2, CreateEnterSurvives
<1>3. CASE Destruct
  BY <1>3, DestructSurvives
<1>4. CASE \E memory \in MemoryCost : CallFault(memory) \/ CallRefused(memory)
  <2>1. parents' = parents /\ Calling /\ world' \in {world, CallWorld}
    BY <1>4 DEF CallFault, CallRefused
  <2> QED
    BY <2>1, CallWorldSurvives, QuietSurvives DEF Calling
<1>5. CASE \E cost \in MemoryCost, target \in CreateTarget : CreateStateFault(cost, target)
  <2>1. PICK cost \in MemoryCost, target \in CreateTarget : CreateStateFault(cost, target)
    BY <1>5
  <2>2. target \in Address
    BY ProgramAssumption
  <2> QED
    BY <2>1, <2>2, TouchKeeps, QuietSurvives DEF CreateStateFault, Creating
<1>6. CASE CreateFault \/ \E cost \in MemoryCost : CreateRefused(cost)
  BY <1>6, QuietSurvives DEF CreateFault, CreateRefused, Creating
<1>7. CASE DestructFault
  <2>1. Destroying /\ Request.target \in Address
    BY <1>7, DestructRequestType DEF IInv, DestructFault
  <2> QED
    BY <1>7, <2>1, TouchKeeps, QuietSurvives DEF DestructFault, Destroying, TargetWarmed
<1>8. CASE (\E gas \in 0..meter.gas : HostReturns(gas)) \/ HostRejects \/ HostBreaks
  BY <1>8, QuietSurvives DEF HostReturns, HostRejects, HostBreaks, Asking
<1> QED
  BY <1>1, <1>2, <1>3, <1>4, <1>5, <1>6, <1>7, <1>8 DEF Serve

\* call-finish.bend:44-52, create-finish.bend:10-31.  Code is deposited only
\* for a creation whose frame succeeded, so did not collide.
LEMMA UnwindSurvives ==
  ASSUME KInv, Unwind, IInv'
  PROVE  KInv'
<1> USE Inside
<1>1. parents # <<>> /\ parents' = Front(parents)
  BY UnwindShape DEF Popping
<1>2. Waiting \in ParentSet /\ Kept(Waiting.snapshot)
  <2>1. Waiting \in ParentSet
    BY <1>1, WaitingLinked
  <2>2. Len(parents) \in DOMAIN parents
    BY <1>1, Stack
  <2> QED
    BY <2>1, <2>2 DEF KInv, Waiting, Last
<1>3. CASE world' \in {world, Waiting.snapshot}
  BY <1>1, <1>2, <1>3, PopSurvives
<1>4. CASE /\ CreateReturn /\ Succeeded
           /\ world' = SetCode(world, Waiting.created, frame.output)
  <2>1. Len(parents) \in DOMAIN parents /\ Waiting = parents[Len(parents)]
    BY <1>1, Stack DEF Waiting, Last
  <2>2. Waiting.creation /\ frame.action.op # "Fault"
    BY <1>4 DEF CreateReturn, Succeeded, Successful
  <2>3. Waiting.created \notin Contracts
    BY <2>1, <2>2 DEF KInv, CreationsElsewhere
  <2>4. Waiting.created \in Address /\ frame.output \in CodeSet
    BY <1>2, RunningTyped DEF ParentSet, FrameSet
  <2>5. Kept(world')
    BY <1>4, <2>3, <2>4, SetCodeKeeps
  <2> QED
    BY <1>1, <2>5, PopSurvives
<1> QED
  BY <1>3, <1>4 DEF Unwind, CallReturn, CreateReturn, Resume

\* Every step keeps the invariant.
LEMMA NextSurvives == KInv /\ [Next]_vars => KInv'
<1> SUFFICES ASSUME KInv, [Next]_vars PROVE KInv'
  OBVIOUS
<1>1. IInv'
  BY NextInv DEF KInv
<1>2. CASE Execute
  BY <1>1, <1>2, ExecuteSurvives
<1>3. CASE Serve
  BY <1>1, <1>3, ServeSurvives
<1>4. CASE Unwind
  BY <1>1, <1>4, UnwindSurvives
<1>5. CASE Halt \/ UNCHANGED vars
  BY <1>1, <1>5, Inside, QuietSurvives DEF Halt, vars
<1> QED
  BY <1>2, <1>3, <1>4, <1>5 DEF Next

\* They are there to begin with.
LEMMA InitSurvives ==
  ASSUME FreshStart, Init
  PROVE  KInv
<1>1. IInv /\ world = Start /\ DOMAIN parents = {}
  BY InitInv DEF Init
<1>2. Kept(Start)
  BY ContractsTyped DEF FreshStart, Kept, Same
<1> QED
  BY <1>1, <1>2 DEF KInv, CreationsElsewhere

\* A contract that has code when the transaction begins keeps its code, its
\* original storage and at least its nonce in the journal and in every
\* snapshot, and is never put up for deletion (create-enter.bend:12,
\* call-selfdestruct.bend:9).
THEOREM ContractsOutlive ==
  ASSUME FreshStart
  PROVE  Spec => []ExistingContractsSurvive
<1>1. KInv => ExistingContractsSurvive
  BY DEF KInv, ExistingContractsSurvive, Journals, Kept, Contracts, Same
<1> QED
  BY <1>1, InitSurvives, NextSurvives, PTL DEF Spec

----------------------------------------------------------------------------
(***************************************************************************)
(* The call machine implements nested transactions on a ledger, whatever   *)
(* program it runs; so it neither makes nor loses ether.                   *)
(*                                                                         *)
(* Two facts about every reachable state carry the refinement.  An account *)
(* without code has no remains of one, and one without nonce and code has  *)
(* no storage: so pruning an emptied account changes nothing in the        *)
(* ledger.  And a creation that waits for code started where there was no  *)
(* contract, and keeps its nonce and no code until its own end: so a       *)
(* deposit is what the ledger calls a commit.                              *)
(*                                                                         *)
(* Ether is conserved because a transaction on the ledger moves it or      *)
(* leaves it where it is: this needs only sums over a finite set.          *)
(***************************************************************************)

\* The part of an account that is in the ledger.
Face(account) ==
  [balance |-> account.balance, nonce |-> account.nonce,
   code |-> account.code, storage |-> account.storage]

FaceSet == [balance: Nat, nonce: Nat, code: CodeSet, storage: [Key -> Value]]

\* A contract, and a contract whose code is still to come.
Alive(l, x)   == l[x].nonce # 0 \/ l[x].code.len # 0
Budding(l, x) == l[x].nonce # 0 /\ l[x].code.len = 0

----------------------------------------------------------------------------
(* Operations on a world, as seen in the ledger.                           *)

\* The ledger of a world, account by account.
LEMMA LedgerFaces ==
  ASSUME NEW w
  PROVE  LedgerOf(w) = [x \in Address |-> Face(w.accounts[x])]
  BY DEF LedgerOf, Face

\* A ledger is well typed.
LEMMA LedgerType ==
  ASSUME NEW w \in WorldSet
  PROVE  /\ LedgerOf(w) \in [Address -> FaceSet]
         /\ \A x \in Address : LedgerOf(w)[x] = Face(w.accounts[x])
<1>1. \A x \in Address : w.accounts[x] \in AccountSet
  BY DEF WorldSet
<1>2. \A account \in AccountSet : Face(account) \in FaceSet
  BY DEF AccountSet, Face, FaceSet
<1> QED
  BY <1>1, <1>2, LedgerFaces

\* Worlds whose accounts have the same faces have the same ledger.
LEMMA SameLedger ==
  ASSUME NEW v, NEW w,
         \A x \in Address : Face(v.accounts[x]) = Face(w.accounts[x])
  PROVE  LedgerOf(v) = LedgerOf(w)
  BY LedgerFaces

\* world.bend:47-56.  A clean account is not changed by pruning.
LEMMA ModifyLedger ==
  ASSUME NEW w \in WorldSet, NEW x \in Address, NEW account \in AccountSet, Clean(account)
  PROVE  LedgerOf(Modify(w, x, account)) = [LedgerOf(w) EXCEPT ![x] = Face(account)]
<1> DEFINE v == Modify(w, x, account)
<1>1. v.accounts[x] = Modified(account)
  BY DEF Modify, Put, WorldSet
<1>2. \A y \in Address \ {x} : v.accounts[y] = w.accounts[y]
  BY ModifyType
<1>3. Face(Modified(account)) = Face(account)
  BY DEF Modified, IsEmpty, Clean, Face, AccountSet
<1> HIDE DEF v
<1>4. LedgerOf(v) = [LedgerOf(w) EXCEPT ![x] = Face(account)]
  BY <1>1, <1>2, <1>3, LedgerFaces
<1> QED
  BY <1>4 DEF v

\* An account with a nonce is not pruned.
LEMMA GrownLedger ==
  ASSUME NEW w \in WorldSet, NEW x \in Address, NEW account \in AccountSet,
         account.nonce # 0
  PROVE  LedgerOf(Modify(w, x, account)) = [LedgerOf(w) EXCEPT ![x] = Face(account)]
<1> DEFINE v == Modify(w, x, account)
<1>1. v.accounts[x] = [account EXCEPT !.exists = TRUE]
  BY DEF Modify, Modified, IsEmpty, Put, WorldSet
<1>2. Face(v.accounts[x]) = Face(account)
  BY <1>1 DEF AccountSet, Face
<1>3. \A y \in Address \ {x} : v.accounts[y] = w.accounts[y]
  BY ModifyType
<1> HIDE DEF v
<1>4. LedgerOf(v) = [LedgerOf(w) EXCEPT ![x] = Face(account)]
  BY <1>2, <1>3, LedgerFaces
<1> QED
  BY <1>4 DEF v

\* world.bend:60-63.  A credit changes one balance of the ledger.
LEMMA CreditLedger ==
  ASSUME NEW w \in WorldSet, Tidy(LedgerOf(w)), NEW x \in Address, NEW delta \in Int,
         w.accounts[x].balance + delta \in Nat
  PROVE  LedgerOf(Credit(w, x, delta)) = [LedgerOf(w) EXCEPT ![x].balance = @ + delta]
<1> DEFINE old == w.accounts[x]
           account == [old EXCEPT !.balance = @ + delta]
<1>1. old \in AccountSet /\ LedgerOf(w)[x] = Face(old) /\ Clean(Face(old))
  BY LedgerType DEF WorldSet, Tidy
<1>2. Credit(w, x, delta) = Modify(w, x, account) /\ old.balance + delta \in Nat
  BY DEF Credit
<1> HIDE DEF old
<1>3. account \in AccountSet /\ Clean(account)
  BY <1>1, <1>2 DEF AccountSet, Clean, Face
<1>4. Face(account) = [Face(old) EXCEPT !.balance = @ + delta]
  BY <1>1 DEF AccountSet, Face
<1> HIDE DEF account
<1>5. LedgerOf(w) \in [Address -> FaceSet]
  BY LedgerType
<1> QED
  BY <1>1, <1>2, <1>3, <1>4, <1>5, ModifyLedger

\* A ledger keeps what a step that moves ether does not touch.
LEMMA MovedKeeps ==
  ASSUME NEW l \in [Address -> FaceSet], NEW m, NEW x \in Address, NEW y \in Address,
         Nested!Moved(l, m, x, y), Tidy(l)
  PROVE  /\ Tidy(m)
         /\ \A z \in Address : m[z].nonce = l[z].nonce /\ m[z].code = l[z].code
<1>1. PICK amount \in 0..l[x].balance :
        m = [[l EXCEPT ![x].balance = @ - amount] EXCEPT ![y].balance = @ + amount]
  BY DEF Nested!Moved
<1>2. \A z \in Address : /\ m[z].nonce = l[z].nonce /\ m[z].code = l[z].code
                         /\ m[z].storage = l[z].storage
  BY <1>1 DEF FaceSet
<1> QED
  BY <1>2 DEF Tidy, Clean

\* world.bend:58-76.  Moved ether changes two, or none if both are one.
LEMMA MoveEtherLedger ==
  ASSUME NEW w \in WorldSet, Tidy(LedgerOf(w)), NEW x \in Address, NEW y \in Address,
         NEW value \in Nat, value <= w.accounts[x].balance
  PROVE  Nested!Moved(LedgerOf(w), LedgerOf(MoveEther(w, x, y, value)), x, y)
<1> DEFINE debited == Credit(w, x, -value)
           l == LedgerOf(w)
<1>1. w.accounts[x].balance \in Nat /\ w.accounts[y].balance \in Nat
  BY DEF WorldSet, AccountSet
<1>2. -value \in Int /\ w.accounts[x].balance + (-value) \in Nat
  BY <1>1
<1>3. debited \in WorldSet /\ debited.accounts[y].balance \in Nat
  BY <1>1, <1>2, CreditType
<1>4. LedgerOf(debited) = [l EXCEPT ![x].balance = @ + (-value)]
  BY <1>2, CreditLedger
<1>5. l \in [Address -> FaceSet] /\ l[x].balance = w.accounts[x].balance /\ Tidy(l)
  <2>1. l[x] = Face(w.accounts[x]) /\ l \in [Address -> FaceSet]
    BY LedgerType
  <2> QED
    BY <2>1 DEF Face
<1>6. MoveEther(w, x, y, value) = Credit(debited, y, value)
  BY DEF MoveEther
<1> HIDE DEF debited, l
<1>7. Tidy(LedgerOf(debited))
  <2>1. \A z \in Address : /\ LedgerOf(debited)[z].nonce = l[z].nonce
                           /\ LedgerOf(debited)[z].code = l[z].code
                           /\ LedgerOf(debited)[z].storage = l[z].storage
    BY <1>4, <1>5 DEF FaceSet
  <2> QED
    BY <1>5, <2>1 DEF Tidy, Clean
<1>8. LedgerOf(MoveEther(w, x, y, value))
        = [[l EXCEPT ![x].balance = @ + (-value)] EXCEPT ![y].balance = @ + value]
  <2>1. debited.accounts[y].balance + value \in Nat
    BY <1>3
  <2>2. LedgerOf(Credit(debited, y, value)) = [LedgerOf(debited) EXCEPT ![y].balance = @ + value]
    BY <1>3, <1>7, <2>1, CreditLedger
  <2> QED
    BY <1>4, <1>6, <2>2
<1>9. value \in 0..l[x].balance /\ l[x].balance + (-value) = l[x].balance - value
  BY <1>1, <1>5
<1>10. [l EXCEPT ![x].balance = @ + (-value)] = [l EXCEPT ![x].balance = @ - value]
  BY <1>9
<1> QED
  BY <1>8, <1>9, <1>10 DEF Nested!Moved, l

\* call-common.bend:58-68.  A payment of nothing moves nothing.
LEMMA PayLedger ==
  ASSUME NEW w \in WorldSet, Tidy(LedgerOf(w)), NEW x \in Address, NEW y \in Address,
         NEW value \in Nat, value <= w.accounts[x].balance
  PROVE  Nested!Moved(LedgerOf(w), LedgerOf(Pay(w, x, y, value)), x, y)
<1> DEFINE moved == Transfer(w, x, y, value)
           l == LedgerOf(w)
<1>1. LedgerOf(Pay(w, x, y, value)) = LedgerOf(moved)
  <2>1. moved \in WorldSet
    BY TransferType
  <2>2. Pay(w, x, y, value).accounts = moved.accounts
    <3> HIDE DEF moved
    <3>1. TransferLog(moved, x, y, value).accounts = moved.accounts
      BY <2>1 DEF TransferLog, Log, WorldSet
    <3> QED
      BY <3>1 DEF Pay, moved
  <2> HIDE DEF moved
  <2> QED
    BY <2>2, LedgerFaces
<1>2. CASE value = 0
  <2>1. moved = w
    BY <1>2 DEF Transfer
  <2>2. /\ l \in [Address -> FaceSet] /\ l[x].balance \in Nat /\ l[y].balance \in Nat
    <3>1. l \in [Address -> FaceSet]
      BY LedgerType
    <3> HIDE DEF l
    <3> QED
      BY <3>1 DEF FaceSet
  <2> HIDE DEF l
  <2>3. l = [[l EXCEPT ![x].balance = @ - 0] EXCEPT ![y].balance = @ + 0]
    BY <2>2 DEF FaceSet
  <2> QED
    BY <1>1, <2>1, <2>2, <2>3 DEF Nested!Moved, l
<1>3. CASE value # 0
  BY <1>1, <1>3, MoveEtherLedger DEF Transfer
<1> QED
  BY <1>2, <1>3

\* world.bend:78-131, gas.bend.  Warm slots, transient storage and refunds
\* are not in the ledger.
LEMMA Unseen ==
  ASSUME NEW w \in WorldSet, NEW x \in Address, NEW k \in Key, NEW v
  PROVE  /\ LedgerOf(WarmStorage(w, x, k)) = LedgerOf(w)
         /\ LedgerOf(SetTransient(w, x, k, v)) = LedgerOf(w)
         /\ LedgerOf(AddRefund(w, v)) = LedgerOf(w)
<1>1. \A y \in Address : Face(WarmStorage(w, x, k).accounts[y]) = Face(w.accounts[y])
  BY DEF WarmStorage, WorldSet, AccountSet, Face
<1>2. \A y \in Address : Face(SetTransient(w, x, k, v).accounts[y]) = Face(w.accounts[y])
  BY DEF SetTransient, WorldSet, AccountSet, Face
<1>3. AddRefund(w, v).accounts = w.accounts
  BY DEF AddRefund, WorldSet
<1> QED
  BY <1>1, <1>2, <1>3, SameLedger

\* Nor are warm accounts, logs and marks for deletion.
LEMMA WarmUnseen ==
  ASSUME NEW w \in WorldSet, NEW x \in Address, NEW event
  PROVE  /\ LedgerOf(WarmAccount(w, x)) = LedgerOf(w)
         /\ LedgerOf(Log(w, event)) = LedgerOf(w)
         /\ LedgerOf(Mark(w, x)) = LedgerOf(w)
<1>1. \A y \in Address : Face(WarmAccount(w, x).accounts[y]) = Face(w.accounts[y])
  BY DEF WarmAccount, WorldSet, AccountSet, Face
<1>2. Log(w, event).accounts = w.accounts /\ Mark(w, x).accounts = w.accounts
  BY DEF Log, Mark, WorldSet
<1> QED
  BY <1>1, <1>2, SameLedger

\* world.bend:104-117.  A store is a write to one account's storage.
LEMMA SetStorageLedger ==
  ASSUME NEW w \in WorldSet, NEW x \in Address, NEW k \in Key, NEW v \in Value
  PROVE  LET l == LedgerOf(w)
             m == LedgerOf(SetStorage(w, x, k, v))
         IN  /\ Nested!AgreeOutside(l, m, {x})
             /\ m[x] = [l[x] EXCEPT !.storage = m[x].storage]
<1> DEFINE u == SetStorage(w, x, k, v)
<1>1. \A y \in Address \ {x} : u.accounts[y] = w.accounts[y]
  BY DEF SetStorage, WorldSet
<1>2. Face(u.accounts[x]) = [Face(w.accounts[x]) EXCEPT !.storage = Face(u.accounts[x]).storage]
  <2>1. w.accounts[x] \in AccountSet
    BY DEF WorldSet
  <2>2. u.accounts[x] = [w.accounts[x] EXCEPT !.storage = [@ EXCEPT ![k] = v]]
    BY DEF SetStorage, WorldSet
  <2> HIDE DEF u
  <2>3. /\ u.accounts[x].balance = w.accounts[x].balance
        /\ u.accounts[x].nonce = w.accounts[x].nonce
        /\ u.accounts[x].code = w.accounts[x].code
    BY <2>1, <2>2 DEF AccountSet
  <2> QED
    BY <2>3 DEF Face
<1> HIDE DEF u
<1>3. /\ \A y \in Address : LedgerOf(u)[y] = Face(u.accounts[y])
      /\ \A y \in Address : LedgerOf(w)[y] = Face(w.accounts[y])
  BY LedgerFaces
<1>4. \A y \in Address \ {x} : LedgerOf(w)[y] = LedgerOf(u)[y]
  BY <1>1, <1>3
<1>5. LedgerOf(u)[x] = [LedgerOf(w)[x] EXCEPT !.storage = LedgerOf(u)[x].storage]
  BY <1>2, <1>3
<1> QED
  BY <1>4, <1>5 DEF u, Nested!AgreeOutside

\* create-enter.bend:38.  The nonce is spent and nothing else.
LEMMA NonceLedger ==
  ASSUME NEW w \in WorldSet, NEW x \in Address
  PROVE  LedgerOf(IncrementNonce(w, x)) = [LedgerOf(w) EXCEPT ![x].nonce = @ + 1]
<1> DEFINE old == w.accounts[x]
           account == [old EXCEPT !.nonce = @ + 1]
<1>1. IncrementNonce(w, x) = Modify(w, x, account) /\ LedgerOf(w)[x] = Face(old)
  BY LedgerFaces DEF IncrementNonce
<1>2. old \in AccountSet /\ old.nonce \in Nat
  BY DEF WorldSet, AccountSet
<1> HIDE DEF old
<1>3. account \in AccountSet /\ account.nonce # 0
  BY <1>2 DEF AccountSet
<1>4. Face(account) = [Face(old) EXCEPT !.nonce = @ + 1]
  BY <1>2 DEF AccountSet, Face
<1> HIDE DEF account
<1>5. LedgerOf(Modify(w, x, account)) = [LedgerOf(w) EXCEPT ![x] = Face(account)]
  BY <1>3, GrownLedger
<1> QED
  BY <1>1, <1>4, <1>5

\* create-enter.bend:25-27.  A contract starts with nonce 1 and no storage.
LEMMA NewContractLedger ==
  ASSUME NEW w \in WorldSet, NEW x \in Address
  PROVE  LedgerOf(NewContract(w, x)) = Nested!Started(LedgerOf(w), x)
<1> DEFINE old == w.accounts[x]
           account == [old EXCEPT !.storage = ZeroSlots, !.original = ZeroSlots,
                                  !.nonce = 1, !.exists = TRUE, !.created = TRUE]
           l == LedgerOf(w)
<1>1. NewContract(w, x) = Modify(w, x, account) /\ l[x] = Face(old)
  BY LedgerFaces DEF NewContract
<1>2. old \in AccountSet
  BY DEF WorldSet
<1> HIDE DEF old
<1>3. account \in AccountSet
  BY <1>2, ZeroSlotsType DEF AccountSet
<1>4. /\ account.balance = old.balance /\ account.nonce = 1
      /\ account.code = old.code /\ account.storage = ZeroSlots
  BY <1>2 DEF AccountSet
<1> HIDE DEF account
<1>5. Face(account) = [[Face(old) EXCEPT !.nonce = 1] EXCEPT !.storage = [k \in Key |-> 0]]
  <2> DEFINE opened == [Face(old) EXCEPT !.nonce = 1]
  <2>1. opened = [balance |-> old.balance, nonce |-> 1,
                  code |-> old.code, storage |-> old.storage]
    BY DEF Face
  <2> HIDE DEF opened
  <2>2. [opened EXCEPT !.storage = [k \in Key |-> 0]] = Face(account)
    BY <1>4, <2>1 DEF Face, ZeroSlots
  <2> QED
    BY <2>2 DEF opened
<1>6. LedgerOf(Modify(w, x, account)) = [l EXCEPT ![x] = Face(account)]
  BY <1>3, <1>4, GrownLedger
<1>7. l \in [Address -> FaceSet]
  BY LedgerType
<1> HIDE DEF l
<1>8. Nested!Started(l, x) = [l EXCEPT ![x] = Face(account)]
  <2>1. Nested!Started(l, x)
          = [[l EXCEPT ![x].nonce = 1] EXCEPT ![x].storage = [k \in Key |-> 0]]
    BY DEF Nested!Started
  <2>2. Face(account) = [[l[x] EXCEPT !.nonce = 1] EXCEPT !.storage = [k \in Key |-> 0]]
    BY <1>1, <1>5
  <2> QED
    BY <1>7, <2>1, <2>2
<1> QED
  BY <1>1, <1>6, <1>8 DEF l

\* create-finish.bend:10-16.  A deposit on a tidy account changes its code.
LEMMA SetCodeLedger ==
  ASSUME NEW w \in WorldSet, NEW x \in Address, NEW code \in CodeSet,
         w.accounts[x].nonce # 0
  PROVE  LedgerOf(SetCode(w, x, code)) = [LedgerOf(w) EXCEPT ![x].code = code]
<1> DEFINE old == w.accounts[x]
           account == [old EXCEPT !.code = code]
<1>1. SetCode(w, x, code) = Modify(w, x, account) /\ LedgerOf(w)[x] = Face(old)
  BY LedgerFaces DEF SetCode
<1>2. old \in AccountSet /\ old.nonce # 0
  BY DEF WorldSet
<1> HIDE DEF old
<1>3. account \in AccountSet /\ account.nonce # 0
  BY <1>2 DEF AccountSet
<1>4. Face(account) = [Face(old) EXCEPT !.code = code]
  BY <1>2 DEF AccountSet, Face
<1> HIDE DEF account
<1>5. LedgerOf(Modify(w, x, account)) = [LedgerOf(w) EXCEPT ![x] = Face(account)]
  BY <1>3, GrownLedger
<1> QED
  BY <1>1, <1>4, <1>5

----------------------------------------------------------------------------
(* The invariant.                                                          *)

\* The ledger that the frame at height j works on or comes back to.
Books(j) == LedgerOf(After(j))

Asks == {"Call", "Create", "SelfDestruct"}

\* A frame with nothing to return returns the empty code, and only code asks
\* for anything.
Proper(f) ==
  /\ Canonical(f.output)
  /\ f.action.op \in Asks => f.code.len # 0

\* Nothing is bytes.
LEMMA NothingCanonical ==
  Canonical(NoCode)
  BY DEF Canonical, Delegated, NoCode

OrderlyBooks ==
  \A i \in 0..Len(parents) : Tidy(Books(i)) /\ Proper(ChildFrameOf(i))

\* Code runs at the address of a contract, which lasts as long as the frame.
Housed ==
  \A i \in 0..Len(parents) :
    ChildFrameOf(i).code.len # 0 =>
      \A j \in i..Len(parents) : Alive(Books(j), ChildFrameOf(i).address)

\* A creation that did not collide started where there was no contract, and
\* nobody else deposits code there.
Awaited ==
  \A i \in 1..Len(parents) :
    parents[i].creation =>
      \/ i = Len(parents) /\ frame.action.op = "Fault"
      \/ /\ ~Alive(Books(i - 1), parents[i].created)
         /\ \A j \in i..Len(parents) : Budding(Books(j), parents[i].created)

LInv == IInv /\ OrderlyBooks /\ Housed /\ Awaited

\* A step from one ledger to the next that ends no contract and brings no code.
Onward(l, m) ==
  \A x \in Address : /\ Alive(l, x) => Alive(m, x)
                     /\ Budding(l, x) => Budding(m, x)

\* Frames and creations on the stack are at addresses.
LEMMA FramesTyped ==
  ASSUME IInv
  PROVE  /\ \A i \in 0..Len(parents) : ChildFrameOf(i) \in FrameSet
                                       /\ ChildFrameOf(i).address \in Address
         /\ \A i \in 1..Len(parents) : parents[i].created \in Address
                                       /\ parents[i].snapshot \in WorldSet
<1>1. frame \in FrameSet /\ Len(parents) \in Nat
      /\ \A i \in 1..Len(parents) : parents[i] \in ParentSet
  BY RunningTyped, Stack
<1>2. \A f \in FrameSet : f.address \in Address
  BY DEF FrameSet
<1>3. \A q \in ParentSet : q.frame \in FrameSet /\ q.created \in Address /\ q.snapshot \in WorldSet
  BY DEF ParentSet
<1>4. \A i \in 0..Len(parents) : i # Len(parents) => i + 1 \in 1..Len(parents)
  BY <1>1
<1> QED
  BY <1>1, <1>2, <1>3, <1>4 DEF ChildFrameOf

\* What the running frame and its ledger are to the invariant.
LEMMA OnTop ==
  ASSUME LInv
  PROVE  /\ IInv /\ Len(parents) \in Nat /\ DOMAIN parents = 1..Len(parents)
         /\ parents \in Seq(ParentSet)
         /\ ChildFrameOf(Len(parents)) = frame /\ Books(Len(parents)) = LedgerOf(world)
         /\ Tidy(LedgerOf(world)) /\ Proper(frame)
         /\ frame.code.len # 0 => Alive(LedgerOf(world), frame.address)
<1>1. /\ IInv /\ Len(parents) \in Nat /\ DOMAIN parents = 1..Len(parents)
      /\ parents \in Seq(ParentSet)
  BY Stack DEF LInv
<1>2. ChildFrameOf(Len(parents)) = frame /\ Books(Len(parents)) = LedgerOf(world)
  BY DEF ChildFrameOf, Books, After
<1>3. Len(parents) \in 0..Len(parents) /\ Len(parents) \in Len(parents)..Len(parents)
  BY <1>1
<1>4. Tidy(LedgerOf(world)) /\ Proper(frame)
  BY <1>2, <1>3 DEF LInv, OrderlyBooks
<1>5. frame.code.len # 0 => Alive(LedgerOf(world), frame.address)
  BY <1>2, <1>3 DEF LInv, Housed
<1> QED
  BY <1>1, <1>2, <1>4, <1>5

\* A step that leaves the stack alone.
LEMMA QuietBooks ==
  ASSUME LInv, IInv', parents' = parents, frame.action.op # "Fault",
         frame'.address = frame.address, frame'.code = frame.code, Proper(frame'),
         Tidy(LedgerOf(world')), Onward(LedgerOf(world), LedgerOf(world'))
  PROVE  LInv'
<1>0. PICK n \in Nat : n = Len(parents)
  BY OnTop
<1>1. /\ Len(parents') = n
      /\ \A j \in 0..n : j # n => Books(j)' = Books(j)
      /\ \A i \in 0..n : i # n => ChildFrameOf(i)' = ChildFrameOf(i)
      /\ Books(n)' = LedgerOf(world') /\ ChildFrameOf(n)' = frame'
  BY <1>0 DEF Books, After, ChildFrameOf, LedgerOf
<1>2. Books(n) = LedgerOf(world) /\ ChildFrameOf(n) = frame /\ frame.address \in Address
  BY <1>0, OnTop, RunningTyped
<1>3. OrderlyBooks'
  BY <1>0, <1>1 DEF LInv, OrderlyBooks, Tidy
<1>4. \A i \in 0..n : /\ ChildFrameOf(i)'.code = ChildFrameOf(i).code
                      /\ ChildFrameOf(i)'.address = ChildFrameOf(i).address
                      /\ ChildFrameOf(i).address \in Address
  BY <1>0, <1>1, <1>2, OnTop, FramesTyped
<1>5. \A j \in 0..n, x \in Address : /\ Alive(Books(j), x) => Alive(Books(j)', x)
                                     /\ Budding(Books(j), x) => Budding(Books(j)', x)
  BY <1>1, <1>2 DEF Onward
<1>6. Housed'
  <2> SUFFICES ASSUME NEW i \in 0..n, ChildFrameOf(i).code.len # 0, NEW j \in i..n
               PROVE  Alive(Books(j)', ChildFrameOf(i).address)
    BY <1>1, <1>4 DEF Housed, Alive
  <2> QED
    BY <1>0, <1>4, <1>5 DEF LInv, Housed
<1>7. Awaited'
  <2> SUFFICES ASSUME NEW i \in 1..n, parents[i].creation
               PROVE  /\ ~Alive(Books(i - 1)', parents[i].created)
                      /\ \A j \in i..n : Budding(Books(j)', parents[i].created)
    BY <1>1 DEF Awaited, Alive, Budding
  <2>1. parents[i].created \in Address
    BY <1>0, OnTop, FramesTyped
  <2>2. i - 1 \in 0..n /\ i - 1 # n
    OBVIOUS
  <2>3. /\ ~Alive(Books(i - 1), parents[i].created)
        /\ \A j \in i..n : Budding(Books(j), parents[i].created)
    BY <1>0 DEF LInv, Awaited
  <2> QED
    BY <1>1, <1>5, <2>1, <2>2, <2>3
<1> QED
  BY <1>3, <1>6, <1>7 DEF LInv

\* A step that suspends the running frame.
LEMMA PushBooks ==
  ASSUME LInv, IInv', NEW parent \in ParentSet, parents' = Append(parents, parent),
         frame.action.op # "Fault",
         parent.frame.address = frame.address, parent.frame.code = frame.code,
         Proper(parent.frame), Proper(frame'),
         Tidy(LedgerOf(parent.snapshot)), Tidy(LedgerOf(world')),
         Onward(LedgerOf(world), LedgerOf(parent.snapshot)),
         Onward(LedgerOf(parent.snapshot), LedgerOf(world')),
         frame'.code.len # 0 => Alive(LedgerOf(world'), frame'.address),
         parent.creation =>
           \/ frame'.action.op = "Fault"
           \/ /\ ~Alive(LedgerOf(parent.snapshot), parent.created)
              /\ Budding(LedgerOf(world'), parent.created)
  PROVE  LInv'
<1>0. PICK n \in Nat : n = Len(parents)
  BY OnTop
<1>1. parents \in Seq(ParentSet) /\ DOMAIN parents = 1..n
  BY <1>0, OnTop
<1>2. /\ Len(parents') = n + 1 /\ parents'[n + 1] = parent
      /\ \A i \in 1..n : parents'[i] = parents[i]
  BY <1>0, <1>1
<1>3. /\ \A j \in 0..n : j # n => Books(j)' = Books(j) /\ ChildFrameOf(j)' = ChildFrameOf(j)
      /\ Books(n)' = LedgerOf(parent.snapshot) /\ ChildFrameOf(n)' = parent.frame
      /\ Books(n + 1)' = LedgerOf(world') /\ ChildFrameOf(n + 1)' = frame'
  <2>1. \A j \in 0..n : j # n => j + 1 \in 1..n /\ j # n + 1
    OBVIOUS
  <2>2. \A j \in 0..n : j # n => After(j)' = After(j) /\ ChildFrameOf(j)' = ChildFrameOf(j)
    BY <1>0, <1>2, <2>1 DEF After, ChildFrameOf
  <2>3. n # n + 1
    OBVIOUS
  <2>4. /\ After(n)' = parent.snapshot /\ ChildFrameOf(n)' = parent.frame
        /\ After(n + 1)' = world' /\ ChildFrameOf(n + 1)' = frame'
    BY <1>2, <2>3 DEF After, ChildFrameOf
  <2> QED
    BY <2>2, <2>4 DEF Books, LedgerOf
<1>4. Books(n) = LedgerOf(world) /\ ChildFrameOf(n) = frame
  BY <1>0, OnTop
<1>5. /\ \A i \in 0..n + 1 : i \in 0..n \/ i = n + 1
      /\ \A i \in 1..n + 1 : i \in 1..n \/ i = n + 1
      /\ n \in 0..n
  OBVIOUS
<1>6. OrderlyBooks'
  <2>1. \A i \in 0..n : Tidy(Books(i)) /\ Proper(ChildFrameOf(i))
    BY <1>0 DEF LInv, OrderlyBooks
  <2>2. \A i \in 0..n + 1 : Tidy(Books(i)') /\ Proper(ChildFrameOf(i)')
    BY <1>3, <1>5, <2>1
  <2> QED
    BY <1>2, <2>2 DEF OrderlyBooks, Tidy, Proper, Clean
<1>7. /\ \A i \in 0..n : /\ ChildFrameOf(i)'.code = ChildFrameOf(i).code
                         /\ ChildFrameOf(i)'.address = ChildFrameOf(i).address
                         /\ ChildFrameOf(i).address \in Address
      /\ \A i \in 1..n : parents[i].created \in Address
  BY <1>0, <1>3, <1>4, OnTop, FramesTyped
<1>8. /\ \A j \in 0..n, x \in Address : /\ Alive(Books(j), x) => Alive(Books(j)', x)
                                        /\ Budding(Books(j), x) => Budding(Books(j)', x)
      /\ \A x \in Address : /\ Alive(Books(n), x) => Alive(Books(n + 1)', x)
                            /\ Budding(Books(n), x) => Budding(Books(n + 1)', x)
  BY <1>3, <1>4 DEF Onward
<1>9. Housed'
  <2> SUFFICES ASSUME NEW i \in 0..n + 1, ChildFrameOf(i)'.code.len # 0, NEW j \in i..n + 1
               PROVE  Alive(Books(j)', ChildFrameOf(i)'.address)
    BY <1>2 DEF Housed, Alive
  <2>1. CASE i = n + 1
    BY <1>3, <2>1
  <2>2. CASE i \in 0..n
    <3>1. \A h \in i..n : Alive(Books(h), ChildFrameOf(i).address)
      BY <1>0, <1>7, <2>2 DEF LInv, Housed
    <3>2. (j \in i..n /\ j \in 0..n) \/ j = n + 1
      BY <2>2
    <3>3. n \in i..n
      BY <2>2
    <3> QED
      BY <1>7, <1>8, <2>2, <3>1, <3>2, <3>3
  <2> QED
    BY <1>5, <2>1, <2>2
<1>10. Awaited'
  <2> SUFFICES ASSUME NEW i \in 1..n + 1, parents'[i].creation,
                      ~(i = n + 1 /\ frame'.action.op = "Fault")
               PROVE  /\ ~Alive(Books(i - 1)', parents'[i].created)
                      /\ \A j \in i..n + 1 : Budding(Books(j)', parents'[i].created)
    BY <1>2 DEF Awaited, Alive, Budding
  <2>1. CASE i = n + 1
    BY <1>2, <1>3, <2>1
  <2>2. CASE i \in 1..n
    <3>1. /\ ~Alive(Books(i - 1), parents[i].created)
          /\ \A j \in i..n : Budding(Books(j), parents[i].created)
      BY <1>0, <1>2, <2>2 DEF LInv, Awaited
    <3>2. i - 1 \in 0..n /\ i - 1 # n /\ n \in i..n
      BY <2>2
    <3>3. \A j \in i..n + 1 : (j \in i..n /\ j \in 0..n) \/ j = n + 1
      BY <2>2
    <3>4. ~Alive(Books(i - 1)', parents[i].created)
      BY <1>3, <3>1, <3>2
    <3>5. \A j \in i..n + 1 : Budding(Books(j)', parents[i].created)
      BY <1>7, <1>8, <2>2, <3>1, <3>2, <3>3
    <3> QED
      BY <1>2, <2>2, <3>4, <3>5
  <2> QED
    BY <1>5, <2>1, <2>2
<1> QED
  BY <1>6, <1>9, <1>10 DEF LInv

\* A step that resumes the innermost parent, on the ledger it saved or on one
\* that goes on from its child's, but for the contract that it created.
LEMMA PopBooks ==
  ASSUME LInv, IInv', parents # <<>>, parents' = Front(parents), frame' = Waiting.frame,
         \/ world' = Waiting.snapshot
         \/ /\ Tidy(LedgerOf(world'))
            /\ \A x \in Address :
                 /\ Alive(LedgerOf(world), x) => Alive(LedgerOf(world'), x)
                 /\ Budding(LedgerOf(world), x) =>
                      \/ Budding(LedgerOf(world'), x)
                      \/ /\ Waiting.creation /\ x = Waiting.created
                         /\ ~Alive(LedgerOf(Waiting.snapshot), x)
  PROVE  LInv'
<1>0. PICK n \in Nat \ {0} : n = Len(parents)
  <2>1. parents \in Seq(ParentSet)
    BY OnTop
  <2>2. Len(parents) \in Nat \ {0}
    BY <2>1
  <2> QED
    BY <2>2
<1>1. parents \in Seq(ParentSet) /\ Waiting = parents[n]
  BY <1>0, OnTop DEF Waiting, Last
<1>2. /\ Len(parents') = n - 1
      /\ \A i \in 1..n - 1 : parents'[i] = parents[i]
  BY <1>0, <1>1, FrontProperties
<1>3. /\ \A j \in 0..n - 1 : j # n - 1 => Books(j)' = Books(j)
      /\ \A j \in 0..n - 1 : ChildFrameOf(j)' = ChildFrameOf(j)
      /\ Books(n - 1)' = LedgerOf(world')
  <2>1. \A j \in 0..n - 1 : j # n - 1 => j + 1 \in 1..n - 1
    OBVIOUS
  <2>2. \A j \in 0..n - 1 : j # n
    OBVIOUS
  <2>3. \A j \in 0..n - 1 : j # n - 1 => After(j)' = After(j) /\ ChildFrameOf(j)' = ChildFrameOf(j)
    BY <1>0, <1>2, <2>1, <2>2 DEF After, ChildFrameOf
  <2>4. After(n - 1)' = world' /\ ChildFrameOf(n - 1)' = Waiting.frame
    BY <1>2 DEF After, ChildFrameOf
  <2>5. ChildFrameOf(n - 1) = Waiting.frame
    BY <1>0, <1>1 DEF ChildFrameOf
  <2> QED
    BY <2>3, <2>4, <2>5 DEF Books, LedgerOf
<1>4. Books(n) = LedgerOf(world) /\ Books(n - 1) = LedgerOf(Waiting.snapshot)
  BY <1>0, <1>1 DEF Books, After
<1>5. /\ \A i \in 0..n - 1 : i \in 0..n /\ ChildFrameOf(i).address \in Address
      /\ \A i \in 1..n - 1 : i \in 1..n /\ i # n /\ parents[i].created \in Address
  BY <1>0, OnTop, FramesTyped
<1>6. \A i \in 0..n - 1 : /\ n - 1 \in i..n /\ n \in i..n
                          /\ \A j \in i..n - 1 : j \in i..n /\ j \in 0..n - 1
  OBVIOUS
<1>7. OrderlyBooks'
  <2>1. \A i \in 0..n : Tidy(Books(i)) /\ Proper(ChildFrameOf(i))
    BY <1>0 DEF LInv, OrderlyBooks
  <2>2. n - 1 \in 0..n - 1
    OBVIOUS
  <2>3. Tidy(LedgerOf(world'))
    BY <1>4, <1>5, <2>1, <2>2
  <2>4. \A i \in 0..n - 1 : Tidy(Books(i)') /\ Proper(ChildFrameOf(i)')
    BY <1>3, <1>5, <2>1, <2>3
  <2> QED
    BY <1>2, <2>4 DEF OrderlyBooks, Tidy, Proper, Clean
<1>8. \A x \in Address :
        Alive(Books(n), x) /\ Alive(Books(n - 1), x) => Alive(Books(n - 1)', x)
  BY <1>3, <1>4
<1>9. Housed'
  <2> SUFFICES ASSUME NEW i \in 0..n - 1, ChildFrameOf(i).code.len # 0, NEW j \in i..n - 1
               PROVE  Alive(Books(j)', ChildFrameOf(i).address)
    BY <1>2, <1>3 DEF Housed, Alive
  <2>1. \A h \in i..n : Alive(Books(h), ChildFrameOf(i).address)
    BY <1>0, <1>5 DEF LInv, Housed
  <2>2. Alive(Books(n - 1)', ChildFrameOf(i).address)
    BY <1>5, <1>6, <1>8, <2>1
  <2> QED
    BY <1>3, <1>6, <2>1, <2>2
<1>10. Awaited'
  <2> SUFFICES ASSUME NEW i \in 1..n - 1, parents[i].creation
               PROVE  /\ ~Alive(Books(i - 1)', parents[i].created)
                      /\ \A j \in i..n - 1 : Budding(Books(j)', parents[i].created)
    BY <1>2 DEF Awaited, Alive, Budding
  <2>1. /\ ~Alive(Books(i - 1), parents[i].created)
        /\ \A j \in i..n : Budding(Books(j), parents[i].created)
    BY <1>0, <1>5 DEF LInv, Awaited
  <2>2. /\ i \in 0..n - 1 /\ i - 1 \in 0..n - 1 /\ i - 1 # n - 1
    OBVIOUS
  <2>3. Budding(Books(n), parents[i].created) /\ Budding(Books(n - 1), parents[i].created)
    BY <1>6, <2>1, <2>2
  <2>4. Alive(Books(n - 1), parents[i].created)
    BY <2>3 DEF Alive, Budding
  <2>5. Budding(Books(n - 1)', parents[i].created)
    BY <1>3, <1>4, <1>5, <2>3, <2>4
  <2>6. ~Alive(Books(i - 1)', parents[i].created)
    BY <1>3, <2>1, <2>2
  <2> QED
    BY <1>3, <1>6, <2>1, <2>2, <2>5, <2>6
<1> QED
  BY <1>7, <1>9, <1>10 DEF LInv

\* At first there is one frame, on the ledger it starts from.
LEMMA InitBooks ==
  ASSUME TidyStart, Init
  PROVE  LInv
<1>1. IInv /\ Len(parents) = 0 /\ world = Start
  BY InitInv DEF Init
<1>2. \A i \in 0..Len(parents) : /\ i = Len(parents) /\ Books(i) = LedgerOf(Start)
                                 /\ ChildFrameOf(i) = frame
                                 /\ \A j \in i..Len(parents) : j = i
  BY <1>1 DEF Books, After, ChildFrameOf
<1>3. /\ frame.address = Entry /\ frame.code = Start.accounts[Entry].code
      /\ frame.output = NoCode /\ frame.action.op \notin Asks
  BY DEF Init, Plain, Asks
<1>4. OrderlyBooks
  BY <1>2, <1>3, NothingCanonical DEF OrderlyBooks, Proper, TidyStart
<1>5. Housed
  <2>1. LedgerOf(Start)[Entry].code = Start.accounts[Entry].code
    BY ProgramAssumption, LedgerFaces DEF Face
  <2> QED
    BY <1>2, <1>3, <2>1 DEF Housed, Alive
<1>6. Awaited
  BY <1>1 DEF Awaited
<1> QED
  BY <1>1, <1>4, <1>5, <1>6 DEF LInv

----------------------------------------------------------------------------
(* The steps of the ledger.                                                *)

\* The saved ledgers, as the refinement mapping has them.
Saved == [i \in DOMAIN parents |-> LedgerOf(parents[i].snapshot)]

\* What a step of the machine is to the ledger.
Accounted == Nested!Next \/ UNCHANGED Nested!lvars

\* A step that leaves the stack alone does one thing to the ledger, or none.
LEMMA QuietAccounted ==
  ASSUME parents' = parents,
         \/ LedgerOf(world') = LedgerOf(world)
         \/ \E x \in Address :
              /\ Nested!AgreeOutside(LedgerOf(world), LedgerOf(world'), {x})
              /\ LedgerOf(world')[x]
                   = [LedgerOf(world)[x] EXCEPT !.storage = LedgerOf(world')[x].storage]
         \/ \E x, y \in Address : Nested!Moved(LedgerOf(world), LedgerOf(world'), x, y)
  PROVE  Accounted
<1>1. LedgerOf(world)' = LedgerOf(world')
  BY DEF LedgerOf
<1>2. Saved' = Saved
  BY DEF Saved, LedgerOf
<1>3. CASE LedgerOf(world') = LedgerOf(world)
  BY <1>1, <1>2, <1>3 DEF Accounted, Nested!lvars, Saved
<1>4. CASE \E x \in Address :
             /\ Nested!AgreeOutside(LedgerOf(world), LedgerOf(world'), {x})
             /\ LedgerOf(world')[x]
                  = [LedgerOf(world)[x] EXCEPT !.storage = LedgerOf(world')[x].storage]
  <2>1. Nested!Write
    BY <1>1, <1>2, <1>4 DEF Nested!Write, Saved
  <2> QED
    BY <2>1 DEF Accounted, Nested!Next
<1>5. CASE \E x, y \in Address : Nested!Moved(LedgerOf(world), LedgerOf(world'), x, y)
  <2>1. Nested!Move
    BY <1>1, <1>2, <1>5 DEF Nested!Move, Saved
  <2> QED
    BY <2>1 DEF Accounted, Nested!Next
<1> QED
  BY <1>3, <1>4, <1>5

\* A frame that is suspended saves its ledger.
LEMMA SavedPush ==
  ASSUME IInv, NEW parent \in ParentSet, parents' = Append(parents, parent)
  PROVE  Saved' = Append(Saved, LedgerOf(parent.snapshot))
<1>0. PICK n \in Nat : n = Len(parents)
  BY Stack
<1>1. parents \in Seq(ParentSet) /\ DOMAIN parents = 1..n
  BY <1>0, Stack
<1>2. /\ DOMAIN parents' = 1..n + 1 /\ parents'[n + 1] = parent
      /\ \A i \in 1..n : parents'[i] = parents[i]
  BY <1>0, <1>1
<1> DEFINE saved == LedgerOf(parent.snapshot)
<1>3. Saved' = [i \in 1..n + 1 |-> IF i = n + 1 THEN saved ELSE LedgerOf(parents[i].snapshot)]
  <2>1. Saved' = [i \in 1..n + 1 |-> LedgerOf(parents'[i].snapshot)]
    BY <1>2 DEF Saved, LedgerOf
  <2>2. \A i \in 1..n + 1 : i \in 1..n \/ i = n + 1
    OBVIOUS
  <2>3. \A i \in 1..n + 1 : LedgerOf(parents'[i].snapshot)
          = IF i = n + 1 THEN saved ELSE LedgerOf(parents[i].snapshot)
    BY <1>2, <2>2
  <2> HIDE DEF saved
  <2> QED
    BY <2>1, <2>3
<1>4. Saved = [i \in 1..n |-> LedgerOf(parents[i].snapshot)] /\ Len(Saved) = n
  BY <1>1 DEF Saved
<1> HIDE DEF saved
<1>5. Append(Saved, saved)
        = [i \in 1..n + 1 |-> IF i = n + 1 THEN saved ELSE Saved[i]]
  BY <1>4
<1>6. \A i \in 1..n + 1 : i # n + 1 => Saved[i] = LedgerOf(parents[i].snapshot)
  BY <1>4
<1> QED
  BY <1>3, <1>5, <1>6 DEF saved

\* A frame that is resumed is the last that saved one.
LEMMA SavedPop ==
  ASSUME IInv, parents # <<>>, parents' = Front(parents)
  PROVE  /\ Saved # <<>> /\ Last(Saved) = LedgerOf(Waiting.snapshot)
         /\ Saved' = Front(Saved)
<1>0. PICK n \in Nat \ {0} : n = Len(parents)
  <2>1. parents \in Seq(ParentSet)
    BY Stack
  <2>2. Len(parents) \in Nat \ {0}
    BY <2>1
  <2> QED
    BY <2>2
<1>1. /\ parents \in Seq(ParentSet) /\ DOMAIN parents = 1..n
      /\ parents' \in Seq(ParentSet)
      /\ Len(parents') = n - 1 /\ \A i \in 1..n - 1 : parents'[i] = parents[i]
  BY <1>0, Stack, FrontProperties
<1>2. Saved = [i \in 1..n |-> LedgerOf(parents[i].snapshot)]
  BY <1>1 DEF Saved
<1>3. Saved' = [i \in 1..n - 1 |-> LedgerOf(parents[i].snapshot)]
  <2>1. DOMAIN parents' = 1..n - 1
    BY <1>1
  <2> QED
    BY <1>1, <2>1 DEF Saved, LedgerOf
<1>4. Saved \in Seq({LedgerOf(parents[i].snapshot) : i \in 1..n}) /\ Len(Saved) = n
  BY <1>2
<1>5. Front(Saved) = [i \in 1..n - 1 |-> LedgerOf(parents[i].snapshot)]
  <2>1. Front(Saved) = SubSeq(Saved, 1, n - 1)
    BY <1>4 DEF Front
  <2>2. SubSeq(Saved, 1, n - 1) = [i \in 1..n - 1 |-> Saved[i]]
    BY <1>4
  <2>3. \A i \in 1..n - 1 : Saved[i] = LedgerOf(parents[i].snapshot)
    BY <1>2
  <2> QED
    BY <2>1, <2>2, <2>3
<1>6. Saved # <<>> /\ Last(Saved) = LedgerOf(Waiting.snapshot)
  <2>1. Saved # <<>>
    BY <1>4
  <2>2. Last(Saved) = Saved[n] /\ Waiting = parents[n] /\ n \in 1..n
    BY <1>0, <1>4 DEF Last, Waiting
  <2> QED
    BY <1>2, <2>1, <2>2
<1> QED
  BY <1>3, <1>5, <1>6

\* A call that is entered saves the ledger and may pay.
LEMMA CallAccounted ==
  ASSUME IInv, NEW parent \in ParentSet, parents' = Append(parents, parent),
         LedgerOf(parent.snapshot) = LedgerOf(world),
         NEW x \in Address, NEW y \in Address,
         Nested!Moved(LedgerOf(world), LedgerOf(world'), x, y)
  PROVE  Accounted
<1>1. LedgerOf(world)' = LedgerOf(world')
  BY DEF LedgerOf
<1>2. Saved' = Append(Saved, LedgerOf(world))
  BY SavedPush
<1>3. Nested!OpenCall
  BY <1>1, <1>2 DEF Nested!OpenCall, Saved
<1> QED
  BY <1>3 DEF Accounted, Nested!Next

\* A creation that is entered saves the ledger with the nonce spent.
LEMMA CreationAccounted ==
  ASSUME IInv, NEW parent \in ParentSet, parents' = Append(parents, parent),
         NEW x \in Address, NEW y \in Address,
         LedgerOf(parent.snapshot) = Nested!Spent(x),
         \/ LedgerOf(world') = Nested!Spent(x)
         \/ /\ ~Alive(LedgerOf(world), y)
            /\ Nested!Moved(Nested!Started(Nested!Spent(x), y), LedgerOf(world'), x, y)
  PROVE  Accounted
<1>1. LedgerOf(world)' = LedgerOf(world')
  BY DEF LedgerOf
<1>2. Saved' = Append(Saved, Nested!Spent(x))
  BY SavedPush
<1>3. Nested!OpenCreation
  BY <1>1, <1>2 DEF Nested!OpenCreation, Saved, Alive
<1> QED
  BY <1>3 DEF Accounted, Nested!Next

\* A frame that is resumed has the ledger of its child, with the code of the
\* contract that it created, or the one that it saved.
LEMMA ReturnAccounted ==
  ASSUME IInv, parents # <<>>, parents' = Front(parents),
         \/ world' = Waiting.snapshot
         \/ world' = world
         \/ \E x \in Address :
              /\ ~Alive(LedgerOf(Waiting.snapshot), x) /\ LedgerOf(world)[x].code.len = 0
              /\ Nested!AgreeOutside(LedgerOf(world), LedgerOf(world'), {x})
              /\ LedgerOf(world')[x]
                   = [LedgerOf(world)[x] EXCEPT !.code = LedgerOf(world')[x].code]
  PROVE  Accounted
<1>1. LedgerOf(world)' = LedgerOf(world')
  BY DEF LedgerOf
<1>2. /\ Saved # <<>> /\ Nested!Last(Saved) = LedgerOf(Waiting.snapshot)
      /\ Saved' = Nested!Front(Saved)
  BY SavedPop DEF Last, Front, Nested!Last, Nested!Front
<1>3. CASE world' = Waiting.snapshot
  <2>1. Nested!Abort
    BY <1>1, <1>2, <1>3 DEF Nested!Abort, Saved
  <2> QED
    BY <2>1 DEF Accounted, Nested!Next
<1>4. CASE world' # Waiting.snapshot
  <2>1. Nested!Commit
    BY <1>1, <1>2, <1>4 DEF Nested!Commit, Saved, Alive
  <2> QED
    BY <2>1 DEF Accounted, Nested!Next
<1> QED
  BY <1>3, <1>4

----------------------------------------------------------------------------
(* The actions.                                                            *)

\* An action or an output is replaced; the address and the code are not.
LEMMA TurnKeeps ==
  ASSUME NEW f \in FrameSet, NEW action, NEW output
  PROVE  LET g == [f EXCEPT !.action = action]
             h == [g EXCEPT !.output = output]
         IN  /\ g.address = f.address /\ g.code = f.code
             /\ g.action = action /\ g.output = f.output
             /\ h.address = f.address /\ h.code = f.code
             /\ h.action = action /\ h.output = output
  BY DEF FrameSet

\* A frame that takes a plain action stays where it is, and proper.
LEMMA PlainTurn ==
  ASSUME NEW f \in FrameSet, Proper(f), NEW op, op \notin Asks
  PROVE  LET g == WithAction(f, op)
         IN  g.address = f.address /\ g.code = f.code /\ Proper(g)
<1>1. Plain(op).op = op
  BY DEF Plain
<1> QED
  BY <1>1, TurnKeeps DEF WithAction, Proper

\* One that ends also sets what it returns.
LEMMA EndTurn ==
  ASSUME NEW f \in FrameSet, NEW op, op \notin Asks,
         NEW output, Canonical(output)
  PROVE  LET h == [WithAction(f, op) EXCEPT !.output = output]
         IN  h.address = f.address /\ h.code = f.code /\ Proper(h)
<1>1. Plain(op).op = op
  BY DEF Plain
<1> QED
  BY <1>1, TurnKeeps DEF WithAction, Proper

\* A step of the running frame that is not in the ledger.
LEMMA TurnBooks ==
  ASSUME LInv, IInv', parents' = parents, frame.action.op # "Fault",
         LedgerOf(world') = LedgerOf(world),
         frame'.address = frame.address, frame'.code = frame.code, Proper(frame')
  PROVE  LInv' /\ Accounted
<1>1. Tidy(LedgerOf(world')) /\ Onward(LedgerOf(world), LedgerOf(world'))
  BY OnTop DEF Onward
<1> QED
  BY <1>1, QuietBooks, QuietAccounted

\* opcode-common.bend.  A fault is one.
LEMMA FaultBooks ==
  ASSUME LInv, IInv', Fault, parents' = parents, frame.action.op # "Fault",
         LedgerOf(world') = LedgerOf(world)
  PROVE  LInv' /\ Accounted
<1>1. frame \in FrameSet /\ Proper(frame)
  BY OnTop, RunningTyped
<1>2. frame'.address = frame.address /\ frame'.code = frame.code /\ Proper(frame')
  BY <1>1, EndTurn, NothingCanonical DEF Fault, FaultFrame, Asks
<1> QED
  BY <1>2, TurnBooks

\* state-ops.bend:107-136.  A store is a write to the account of code that
\* runs, so of a contract.
LEMMA SstoreBooks ==
  ASSUME LInv, IInv', NEW k \in Key, NEW value \in Value, Sstore(k, value)
  PROVE  LInv' /\ Accounted
<1> DEFINE warmed == WarmStorage(world, frame.address, k)
           stored == SetStorage(warmed, frame.address, k, value)
           refund == SlotRefund(Self.original[k], Self.storage[k], value)
           l == LedgerOf(world)
           m == LedgerOf(world')
           x == frame.address
<1>1. /\ frame.action.op # "Fault" /\ frame.code.len # 0 /\ frame.code.len \in Nat
      /\ frame' = frame /\ parents' = parents
      /\ world' = AddRefund(stored, refund)
  BY RunningTyped DEF Sstore, Executing, Running, LInv, CodeSet
<1>2. /\ world \in WorldSet /\ x \in Address /\ Tidy(l) /\ Proper(frame) /\ Alive(l, x)
  BY <1>1, OnTop, RunningTyped
<1>3. warmed \in WorldSet /\ LedgerOf(warmed) = l
  BY <1>2, StorageTypes, Unseen
<1> HIDE DEF warmed, refund
<1>4. stored \in WorldSet
  BY <1>2, <1>3, StorageTypes
<1>5. /\ Nested!AgreeOutside(l, LedgerOf(stored), {x})
      /\ LedgerOf(stored)[x] = [l[x] EXCEPT !.storage = LedgerOf(stored)[x].storage]
  BY <1>2, <1>3, SetStorageLedger
<1> HIDE DEF stored
<1>6. m = LedgerOf(stored)
  BY <1>1, <1>2, <1>4, Unseen
<1>7. l[x] \in FaceSet
  BY <1>2, LedgerType
<1> HIDE DEF l, m
<1>8. /\ \A y \in Address \ {x} : m[y] = l[y]
      /\ m[x].nonce = l[x].nonce /\ m[x].code = l[x].code
  BY <1>5, <1>6, <1>7 DEF Nested!AgreeOutside, FaceSet
<1>9. Tidy(m) /\ Onward(l, m)
  BY <1>2, <1>8 DEF Tidy, Clean, Onward, Alive, Budding
<1> QED
  BY <1>1, <1>2, <1>5, <1>6, <1>9, QuietBooks, QuietAccounted DEF l, m

\* state-ops.bend, vm.bend:46-48.
LEMMA ExecuteBooks ==
  ASSUME TidyStart, LInv, Execute, IInv'
  PROVE  LInv' /\ Accounted
<1>1. /\ IInv /\ world \in WorldSet /\ frame \in FrameSet /\ frame.address \in Address
      /\ Proper(frame) /\ frame.code.len \in Nat
  BY OnTop, RunningTyped DEF CodeSet
<1>2. parents' = parents
  BY <1>1, ExecuteShape DEF Quietly
<1>3. Running /\ frame.action.op # "Fault"
  BY DEF Execute, Throw, Stop, Compute, Exit, Touch, Sload, Sstore, Tstore, Emit,
         AskCall, AskCreate, AskSelfDestruct, Executing, Running
<1>4. CASE Throw
  BY <1>2, <1>3, <1>4, FaultBooks DEF Throw
<1>5. CASE Stop
  <2>1. frame'.address = frame.address /\ frame'.code = frame.code /\ Proper(frame')
    BY <1>1, <1>5, EndTurn, NothingCanonical DEF Stop, Asks
  <2> QED
    BY <1>2, <1>3, <1>5, <2>1, TurnBooks DEF Stop
<1>6. CASE \E cost \in ComputeCost : Compute(cost)
  BY <1>1, <1>2, <1>3, <1>6, TurnBooks DEF Compute
<1>7. CASE \E op \in {"Returned", "Reverted"}, output \in Output, cost \in MemoryCost :
             Exit(op, output, cost)
  <2>1. PICK op \in {"Returned", "Reverted"}, output \in Output, cost \in MemoryCost :
          Exit(op, output, cost)
    BY <1>7
  <2>2. op \notin Asks /\ Canonical(output)
    BY DEF TidyStart, Asks
  <2>3. frame'.address = frame.address /\ frame'.code = frame.code /\ Proper(frame')
    BY <1>1, <2>1, <2>2, EndTurn DEF Exit
  <2> QED
    BY <1>2, <1>3, <2>1, <2>3, TurnBooks DEF Exit
<1>8. CASE \E a \in Address, cost \in MemoryCost : Touch(a, cost)
  BY <1>1, <1>2, <1>3, <1>8, WarmUnseen, TurnBooks DEF Touch
<1>9. CASE \E k \in Key : Sload(k)
  BY <1>1, <1>2, <1>3, <1>9, Unseen, TurnBooks DEF Sload
<1>10. CASE \E k \in Key, value \in Value : Sstore(k, value)
  BY <1>10, SstoreBooks
<1>11. CASE \E k \in Key, value \in Value : Tstore(k, value)
  BY <1>1, <1>2, <1>3, <1>11, Unseen, TurnBooks DEF Tstore
<1>12. CASE \E cost \in MemoryCost : Emit(cost)
  BY <1>1, <1>2, <1>3, <1>12, WarmUnseen, TurnBooks DEF Emit
<1>13. CASE \/ \E kind \in CallKind, gas \in RequestGas, target \in Address, value \in Amount :
                 AskCall(kind, gas, target, value)
            \/ \E value \in Amount : AskCreate(value)
            \/ \E target \in Address : AskSelfDestruct(target)
  <2>1. PICK action : /\ frame' = [frame EXCEPT !.action = action] /\ world' = world
                      /\ frame.code.len > 0
    BY <1>13 DEF AskCall, AskCreate, AskSelfDestruct, Executing
  <2>2. frame'.address = frame.address /\ frame'.code = frame.code /\ Proper(frame')
    BY <1>1, <2>1, TurnKeeps DEF Proper
  <2> QED
    BY <1>2, <1>3, <2>1, <2>2, TurnBooks
<1> QED
  BY <1>4, <1>5, <1>6, <1>7, <1>8, <1>9, <1>10, <1>11, <1>12, <1>13 DEF Execute

\* call-enter.bend:69-77.  Warming is not in the ledger.
LEMMA CallWorldLedger ==
  ASSUME IInv, Calling
  PROVE  CallWorld \in WorldSet /\ LedgerOf(CallWorld) = LedgerOf(world)
<1>1. Request.target \in Address
  BY CallRequestType DEF IInv
<1>2. TargetWarmed \in WorldSet /\ LedgerOf(TargetWarmed) = LedgerOf(world)
  BY <1>1, RunningTyped, WarmAccountType, WarmUnseen DEF TargetWarmed
<1>3. Delegated(Target.code) => Target.code.to \in Address
  BY <1>1, RunningTyped, DelegateType DEF Target
<1> QED
  BY <1>2, <1>3, WarmAccountType, WarmUnseen DEF CallWorld

\* What a step pushes on the stack is a parent.
LEMMA PushedTyped ==
  ASSUME IInv, IInv', NEW parent, parents' = Append(parents, parent)
  PROVE  parent \in ParentSet
<1>1. parents \in Seq(ParentSet) /\ parents' \in Seq(ParentSet)
  BY DEF IInv, TypeOK
<1>2. parents'[Len(parents) + 1] = parent /\ Len(parents') = Len(parents) + 1
  BY <1>1
<1>3. Len(parents) + 1 \in 1..Len(parents')
  BY <1>1, <1>2
<1> QED
  BY <1>1, <1>2, <1>3

\* A step that moves ether ends no contract and brings no code.
LEMMA MovedOnward ==
  ASSUME NEW w \in WorldSet, NEW v, NEW x \in Address, NEW y \in Address,
         Nested!Moved(LedgerOf(w), LedgerOf(v), x, y), Tidy(LedgerOf(w))
  PROVE  Tidy(LedgerOf(v)) /\ Onward(LedgerOf(w), LedgerOf(v))
<1> DEFINE l == LedgerOf(w)
           m == LedgerOf(v)
<1>1. l \in [Address -> FaceSet]
  BY LedgerType
<1>2. Nested!Moved(l, m, x, y) /\ Tidy(l)
  OBVIOUS
<1> HIDE DEF l, m
<1>3. /\ Tidy(m)
      /\ \A z \in Address : m[z].nonce = l[z].nonce /\ m[z].code = l[z].code
  BY <1>1, <1>2, MovedKeeps
<1>4. Onward(l, m)
  BY <1>3 DEF Onward, Alive, Budding
<1> QED
  BY <1>3, <1>4 DEF l, m

\* call-enter.bend:29-63.  The child of a call runs at its caller's address or
\* at the target's, where its code comes from.
LEMMA CallEnterBooks ==
  ASSUME LInv, NEW memory \in MemoryCost, CallEnter(memory), IInv'
  PROVE  LInv' /\ Accounted
<1> DEFINE paid == CallPaid(memory)
           kept == [paid EXCEPT !.gas = @ - CallLimit(memory), !.reservoir = 0]
           parent == [frame |-> WithAction(frame, "Running"), meter |-> kept,
                      snapshot |-> CallWorld, creation |-> FALSE,
                      charged |-> BirthCharged, created |-> Request.target]
           l == LedgerOf(world)
<1>1. Calling /\ CallAllowed(memory) /\ ~CallImpossible /\ frame' = ChildFrame
  BY DEF CallEnter
<1>2. /\ IInv /\ frame \in FrameSet /\ frame.address \in Address /\ Proper(frame)
      /\ Tidy(l) /\ frame.code.len # 0 /\ Alive(l, frame.address)
  BY <1>1, OnTop, RunningTyped DEF Proper, Calling, Asks
<1>3. /\ Request.kind \in CallKind /\ Request.target \in Address /\ Request.value \in Nat
  BY <1>1, <1>2, CallRequestType DEF IInv
<1>4. CallWorld \in WorldSet /\ LedgerOf(CallWorld) = l
  BY <1>1, <1>2, CallWorldLedger
<1>5. \E y \in Address : Nested!Moved(l, LedgerOf(world'), frame.address, y)
  <2>1. CASE Request.kind = "CALL"
    <3>1. Request.value <= CallWorld.accounts[frame.address].balance
      BY <1>1, <1>2, <1>3, <2>1, RunningTyped, CallWorldType DEF CallImpossible, Self
    <3>2. world' = Pay(CallWorld, frame.address, Request.target, Request.value)
      BY <2>1 DEF CallEnter
    <3> HIDE DEF l
    <3> QED
      BY <1>2, <1>3, <1>4, <3>1, <3>2, PayLedger
  <2>2. CASE Request.kind # "CALL"
    <3>1. world' = Pay(CallWorld, frame.address, Request.target, 0)
      BY <2>2, PayNothing DEF CallEnter
    <3>2. 0 <= CallWorld.accounts[frame.address].balance /\ 0 \in Nat
      BY <1>2, <1>4 DEF WorldSet, AccountSet
    <3> HIDE DEF l
    <3> QED
      BY <1>2, <1>3, <1>4, <3>1, <3>2, PayLedger
  <2> QED
    BY <2>1, <2>2
<1>6. PICK y \in Address : Nested!Moved(l, LedgerOf(world'), frame.address, y)
  BY <1>5
<1>7. Tidy(LedgerOf(world')) /\ Onward(l, LedgerOf(world'))
  BY <1>2, <1>6, RunningTyped, MovedOnward
<1>8. parents' = Append(parents, parent)
  BY DEF CallEnter, Suspend
<1>9. /\ parent.snapshot = CallWorld /\ parent.creation = FALSE
      /\ parent.frame = WithAction(frame, "Running")
  OBVIOUS
<1> HIDE DEF parent, l
<1>10. parent \in ParentSet
  BY <1>2, <1>8, PushedTyped
<1>11. /\ parent.frame.address = frame.address /\ parent.frame.code = frame.code
       /\ Proper(parent.frame)
  BY <1>2, <1>9, PlainTurn DEF Asks
<1>12. /\ Proper(frame') /\ frame'.code = CallCode
       /\ frame'.address = frame.address \/ frame'.address = Request.target
  BY <1>1, NothingCanonical DEF ChildFrame, ChildOp, Plain, Proper, Asks
<1>13. CallCode.len # 0 => Alive(l, Request.target)
  <2>1. l[Request.target].code = Target.code
    BY <1>3, LedgerFaces DEF l, Face, Target
  <2>2. Delegated(Target.code) => Target.code # NoCode
    BY DEF Delegated, NoCode
  <2>3. Target.code.len = 0 => Target.code = NoCode
    BY <1>2, <1>3, <2>1 DEF Tidy, Clean
  <2> QED
    BY <2>1, <2>2, <2>3 DEF CallCode, Alive
<1>14. frame'.code.len # 0 => Alive(LedgerOf(world'), frame'.address)
  <2>1. \A z \in Address : Alive(l, z) => Alive(LedgerOf(world'), z)
    BY <1>7 DEF Onward
  <2> SUFFICES ASSUME CallCode.len # 0
               PROVE  Alive(LedgerOf(world'), frame'.address)
    BY <1>12
  <2>2. Alive(LedgerOf(world'), frame.address) /\ Alive(LedgerOf(world'), Request.target)
    BY <1>2, <1>3, <1>13, <2>1
  <2> QED
    BY <1>12, <2>2
<1>15. /\ Tidy(LedgerOf(parent.snapshot))
       /\ Onward(LedgerOf(world), LedgerOf(parent.snapshot))
       /\ Onward(LedgerOf(parent.snapshot), LedgerOf(world'))
  BY <1>2, <1>4, <1>7, <1>9 DEF Onward, l
<1>16. frame.action.op # "Fault"
  BY <1>1 DEF Calling
<1>17. LInv'
  BY <1>7, <1>8, <1>9, <1>10, <1>11, <1>12, <1>14, <1>15, <1>16, PushBooks
<1>18. Accounted
  BY <1>2, <1>4, <1>6, <1>8, <1>9, <1>10, CallAccounted DEF l
<1> QED
  BY <1>17, <1>18

\* A spent nonce and a started contract leave a ledger tidy.
LEMMA SpentOnward ==
  ASSUME NEW l \in [Address -> FaceSet], Tidy(l), NEW x \in Address
  PROVE  LET m == [l EXCEPT ![x].nonce = @ + 1]
         IN  Tidy(m) /\ Onward(l, m)
<1> DEFINE m == [l EXCEPT ![x].nonce = @ + 1]
<1>1. \A y \in Address \ {x} : m[y] = l[y]
  OBVIOUS
<1>2. l[x] \in FaceSet /\ l[x].nonce \in Nat
  BY DEF FaceSet
<1>3. m[x].nonce = l[x].nonce + 1 /\ m[x].code = l[x].code
  BY <1>2 DEF FaceSet
<1>4. m[x].nonce # 0
  BY <1>2, <1>3
<1> HIDE DEF m
<1>5. Tidy(m) /\ Onward(l, m)
  BY <1>1, <1>3, <1>4 DEF Tidy, Clean, Onward, Alive, Budding
<1> QED
  BY <1>5 DEF m

\* A contract is started where there was none.
LEMMA StartedOnward ==
  ASSUME NEW l \in [Address -> FaceSet], Tidy(l), NEW x \in Address
  PROVE  LET m == Nested!Started(l, x)
         IN  /\ Tidy(m) /\ Onward(l, m)
             /\ m[x].nonce = 1 /\ m[x].code = l[x].code
<1> DEFINE m == Nested!Started(l, x)
<1>1. \A y \in Address \ {x} : m[y] = l[y]
  BY DEF Nested!Started
<1>2. m[x].nonce = 1 /\ m[x].code = l[x].code
  BY DEF Nested!Started, FaceSet
<1> HIDE DEF m
<1>3. Tidy(m) /\ Onward(l, m)
  BY <1>1, <1>2 DEF Tidy, Clean, Onward, Alive, Budding
<1> QED
  BY <1>2, <1>3 DEF m

\* create-enter.bend:20-49.  A creation starts where there was no contract,
\* or its frame is a fault.
LEMMA CreateEnterBooks ==
  ASSUME LInv, NEW cost \in MemoryCost, NEW target \in CreateTarget,
         NEW code \in InitCode, CreateEnter(cost, target, code), IInv'
  PROVE  LInv' /\ Accounted
<1> DEFINE snapshot == CreateWorld(target)
           warmed == WarmAccount(world, target)
           opened == NewContract(snapshot, target)
           child == CreationFrame(target, code)
           birth == CreateBirth(target)
           paid == SpendBirth(CreateCharged(cost), birth)
           kept == [paid EXCEPT !.gas = @ - Cap(paid.gas), !.reservoir = 0]
           parent == [frame |-> WithAction(frame, "Running"), meter |-> kept,
                      snapshot |-> snapshot, creation |-> TRUE,
                      charged |-> birth, created |-> target]
           x == frame.address
           l == LedgerOf(world)
           s == LedgerOf(snapshot)
           m == LedgerOf(world')
<1>1. target \in Address /\ Creating /\ ~CreateImpossible /\ frame.action.op # "Fault"
  BY ProgramAssumption DEF CreateEnter, Creating
<1>2. /\ IInv /\ world \in WorldSet /\ frame \in FrameSet /\ x \in Address /\ Proper(frame)
      /\ Tidy(l) /\ l \in [Address -> FaceSet]
  BY OnTop, RunningTyped, LedgerType
<1>3. /\ parents' = Append(parents, parent)
      /\ \/ /\ Collision(snapshot.accounts[target])
            /\ frame' = WithAction(child, "Fault")
            /\ world' = snapshot
         \/ /\ ~Collision(snapshot.accounts[target])
            /\ frame' = child
            /\ world' = Pay(opened, x, target, Request.value)
  BY DEF CreateEnter, Suspend
<1>4. /\ parent.snapshot = snapshot /\ parent.creation = TRUE /\ parent.created = target
      /\ parent.frame = WithAction(frame, "Running")
  OBVIOUS
<1> HIDE DEF parent
<1>5. parent \in ParentSet
  BY <1>2, <1>3, PushedTyped
<1>6. parent.frame.address = x /\ parent.frame.code = frame.code /\ Proper(parent.frame)
  BY <1>2, <1>4, PlainTurn DEF Asks
<1>7. snapshot \in WorldSet /\ snapshot.accounts[x].balance = Self.balance
  BY <1>1, <1>2, CreateWorldType
<1>8. s = Nested!Spent(x)
  <2>1. warmed \in WorldSet /\ LedgerOf(warmed) = l
    BY <1>1, <1>2, WarmAccountType, WarmUnseen
  <2>2. snapshot = IncrementNonce(warmed, x)
    BY DEF CreateWorld
  <2> HIDE DEF warmed, snapshot, l
  <2>3. s = [l EXCEPT ![x].nonce = @ + 1]
    BY <1>2, <2>1, <2>2, NonceLedger
  <2> QED
    BY <2>3 DEF Nested!Spent, l
<1>9. s = [l EXCEPT ![x].nonce = @ + 1]
  BY <1>8 DEF Nested!Spent
<1>10. Tidy(s) /\ Onward(l, s)
  <2> HIDE DEF l, s
  <2> QED
    BY <1>2, <1>9, SpentOnward
<1>11. s \in [Address -> FaceSet] /\ s[target] = Face(snapshot.accounts[target])
  BY <1>1, <1>7, LedgerType
<1>12. /\ child \in FrameSet /\ child.address = target /\ Proper(child)
  <2>1. /\ Plain("Running") \in ActionSet /\ frame.depth + 1 \in Nat
        /\ Request.value \in Nat /\ code \in CodeSet
    BY <1>1, <1>2, ProgramAssumption, PlainType, CreateRequestType DEF FrameSet, IInv
  <2>2. child \in FrameSet
    BY <1>1, <1>2, <2>1, NoCodeType DEF CreationFrame, FrameSet
  <2> QED
    BY <2>2, NothingCanonical DEF CreationFrame, Proper, Plain, Asks
<1> HIDE DEF snapshot, child, s, l, x
<1>13. CASE Collision(snapshot.accounts[target])
  <2>1. /\ frame'.address = target /\ Proper(frame') /\ frame'.action.op = "Fault"
        /\ world' = snapshot
    <3>1. frame' = WithAction(child, "Fault") /\ world' = snapshot
      BY <1>3, <1>13
    <3>2. frame'.action.op = "Fault"
      BY <1>12, <3>1, TurnKeeps DEF WithAction, Plain
    <3> QED
      BY <1>12, <3>1, <3>2, PlainTurn DEF Asks
  <2>2. Alive(s, target)
    BY <1>11, <1>13 DEF Collision, Alive, Face
  <2>3. Onward(s, s) /\ m = s
    BY <2>1 DEF Onward, s
  <2>4. LInv'
    BY <1>1, <1>3, <1>4, <1>5, <1>6, <1>10, <2>1, <2>2, <2>3, PushBooks DEF l, s, x
  <2>5. Accounted
    BY <1>1, <1>2, <1>3, <1>4, <1>5, <1>8, <2>3, CreationAccounted DEF l, s
  <2> QED
    BY <2>4, <2>5
<1>14. CASE ~Collision(snapshot.accounts[target])
  <2>1. frame' = child /\ world' = Pay(opened, x, target, Request.value)
    BY <1>3, <1>14
  <2> DEFINE o == LedgerOf(opened)
  <2>2. opened \in WorldSet /\ o = Nested!Started(s, target)
    BY <1>1, <1>7, NewContractType, NewContractLedger DEF s
  <2>3. opened.accounts[x].balance = Self.balance
    BY <1>1, <1>2, <1>7, NewContractType
  <2>4. Request.value \in Nat /\ Request.value <= opened.accounts[x].balance
    BY <1>1, <1>2, <2>3, CreateRequestType, RunningTyped DEF IInv, CreateImpossible, Self, x
  <2> HIDE DEF opened
  <2>5. ~Alive(s, target) /\ s[target].code.len = 0
    BY <1>11, <1>14 DEF Collision, Alive, Face
  <2>6. Tidy(o) /\ Onward(s, o) /\ Budding(o, target)
    <3>1. /\ Tidy(Nested!Started(s, target)) /\ Onward(s, Nested!Started(s, target))
          /\ Nested!Started(s, target)[target].nonce = 1
          /\ Nested!Started(s, target)[target].code = s[target].code
      BY <1>1, <1>10, <1>11, StartedOnward
    <3> QED
      BY <2>2, <2>5, <3>1 DEF Budding
  <2>7. Nested!Moved(o, m, x, target)
    BY <1>1, <1>2, <2>1, <2>2, <2>4, <2>6, PayLedger
  <2>8. Tidy(m) /\ Onward(o, m)
    BY <1>1, <1>2, <2>2, <2>6, <2>7, MovedOnward
  <2>9. Onward(s, m) /\ Budding(m, target)
    BY <1>1, <2>6, <2>8 DEF Onward
  <2>10. Alive(m, target)
    BY <2>9 DEF Alive, Budding
  <2>11. LInv'
    BY <1>1, <1>3, <1>4, <1>5, <1>6, <1>10, <1>12, <2>1, <2>5, <2>8, <2>9, <2>10, PushBooks
    DEF l, s, x
  <2>12. ~Alive(l, target)
    BY <1>1, <1>10, <2>5 DEF Onward
  <2>13. Nested!Moved(Nested!Started(Nested!Spent(x), target), m, x, target)
    BY <1>8, <2>2, <2>7
  <2>14. Accounted
    BY <1>1, <1>2, <1>3, <1>4, <1>5, <1>8, <2>12, <2>13, CreationAccounted DEF l, s
  <2> QED
    BY <2>11, <2>14
<1> QED
  BY <1>13, <1>14

\* call-selfdestruct.bend:14-45.  The balance moves, perhaps to nobody else.
LEMMA DestructBooks ==
  ASSUME LInv, Destruct, IInv'
  PROVE  LInv' /\ Accounted
<1> DEFINE ether == MoveEther(TargetWarmed, frame.address, Request.target, Self.balance)
           moved == TransferLog(ether, frame.address, Request.target, Self.balance)
           l == LedgerOf(world)
<1>1. /\ Destroying /\ parents' = parents /\ frame.action.op # "Fault"
      /\ world' = Mark(moved, frame.address)
      /\ frame' = [WithAction(frame, "Stopped") EXCEPT !.output = NoCode]
  BY DEF Destruct, Destroying
<1>2. /\ IInv /\ world \in WorldSet /\ frame \in FrameSet /\ frame.address \in Address
      /\ Tidy(l) /\ Self.balance \in Nat
  BY OnTop, RunningTyped DEF Self
<1>3. Request.target \in Address
  BY <1>1, <1>2, DestructRequestType DEF IInv
<1>4. /\ TargetWarmed \in WorldSet /\ LedgerOf(TargetWarmed) = l
      /\ TargetWarmed.accounts[frame.address].balance = Self.balance
  BY <1>2, <1>3, WarmAccountType, WarmUnseen DEF TargetWarmed, Self
<1>5. ether \in WorldSet
  BY <1>2, <1>3, <1>4, MoveEtherType
<1> HIDE DEF l
<1>6. Nested!Moved(l, LedgerOf(ether), frame.address, Request.target)
  BY <1>2, <1>3, <1>4, MoveEtherLedger
<1> HIDE DEF ether
<1>7. moved \in WorldSet /\ LedgerOf(moved) = LedgerOf(ether)
  BY <1>2, <1>3, <1>5, TransferLogType, WarmUnseen DEF TransferLog
<1> HIDE DEF moved
<1>8. LedgerOf(world') = LedgerOf(ether)
  BY <1>1, <1>2, <1>7, WarmUnseen
<1>9. Nested!Moved(l, LedgerOf(world'), frame.address, Request.target)
  BY <1>6, <1>8
<1>10. Tidy(LedgerOf(world')) /\ Onward(l, LedgerOf(world'))
  BY <1>2, <1>3, <1>9, MovedOnward DEF l
<1>11. frame'.address = frame.address /\ frame'.code = frame.code /\ Proper(frame')
  BY <1>1, <1>2, EndTurn, NothingCanonical DEF Asks
<1>12. LInv'
  BY <1>1, <1>10, <1>11, QuietBooks DEF l
<1>13. Accounted
  BY <1>1, <1>2, <1>3, <1>9, QuietAccounted DEF l
<1> QED
  BY <1>12, <1>13

\* vm.bend:34-44.  Whatever request is served, the books stay in order.
LEMMA ServeBooks ==
  ASSUME LInv, Serve, IInv'
  PROVE  LInv' /\ Accounted
<1>1. IInv /\ world \in WorldSet /\ frame \in FrameSet /\ frame.address \in Address /\ Proper(frame)
  BY OnTop, RunningTyped
<1>2. CASE \E memory \in MemoryCost : CallEnter(memory)
  BY <1>2, CallEnterBooks
<1>3. CASE \E cost \in MemoryCost, target \in CreateTarget, code \in InitCode :
             CreateEnter(cost, target, code)
  BY <1>3, CreateEnterBooks
<1>4. CASE Destruct
  BY <1>4, DestructBooks
<1>5. CASE \E memory \in MemoryCost : CallFault(memory)
  <2>1. /\ Calling /\ Fault /\ parents' = parents /\ world' \in {world, CallWorld}
        /\ frame.action.op # "Fault"
    BY <1>5 DEF CallFault, Calling
  <2> QED
    BY <1>1, <2>1, CallWorldLedger, FaultBooks
<1>6. CASE \E memory \in MemoryCost : CallRefused(memory)
  <2>1. /\ Calling /\ frame' = WithAction(frame, "Running") /\ parents' = parents
        /\ world' = CallWorld /\ frame.action.op # "Fault"
    BY <1>6 DEF CallRefused, Calling
  <2>2. frame'.address = frame.address /\ frame'.code = frame.code /\ Proper(frame')
    BY <1>1, <2>1, PlainTurn DEF Asks
  <2> QED
    BY <1>1, <2>1, <2>2, CallWorldLedger, TurnBooks
<1>7. CASE \E cost \in MemoryCost, target \in CreateTarget : CreateStateFault(cost, target)
  <2>1. PICK cost \in MemoryCost, target \in CreateTarget : CreateStateFault(cost, target)
    BY <1>7
  <2>2. target \in Address
    BY ProgramAssumption
  <2> QED
    BY <1>1, <2>1, <2>2, WarmUnseen, FaultBooks DEF CreateStateFault, Creating
<1>8. CASE CreateFault
  BY <1>8, FaultBooks DEF CreateFault, Creating
<1>9. CASE \E cost \in MemoryCost : CreateRefused(cost)
  <2>1. /\ frame' = WithAction(frame, "Running") /\ parents' = parents /\ world' = world
        /\ frame.action.op # "Fault"
    BY <1>9 DEF CreateRefused, Creating
  <2>2. frame'.address = frame.address /\ frame'.code = frame.code /\ Proper(frame')
    BY <1>1, <2>1, PlainTurn DEF Asks
  <2> QED
    BY <2>1, <2>2, TurnBooks
<1>10. CASE DestructFault
  <2>1. Destroying /\ Request.target \in Address
    BY <1>1, <1>10, DestructRequestType DEF IInv, DestructFault
  <2> QED
    BY <1>1, <1>10, <2>1, WarmUnseen, FaultBooks DEF DestructFault, Destroying, TargetWarmed
<1>11. CASE (\E gas \in 0..meter.gas : HostReturns(gas)) \/ HostBreaks
  <2>1. PICK op \in {"Returned", "HostLimit"} : frame' = WithAction(frame, op)
    BY <1>11 DEF HostReturns, HostBreaks
  <2>2. op \notin Asks /\ parents' = parents /\ world' = world /\ frame.action.op # "Fault"
    BY <1>11 DEF HostReturns, HostBreaks, Asking, Asks
  <2>3. frame'.address = frame.address /\ frame'.code = frame.code /\ Proper(frame')
    BY <1>1, <2>1, <2>2, PlainTurn
  <2> QED
    BY <2>2, <2>3, TurnBooks
<1>12. CASE HostRejects
  BY <1>12, FaultBooks DEF HostRejects, Asking
<1> QED
  BY <1>2, <1>3, <1>4, <1>5, <1>6, <1>7, <1>8, <1>9, <1>10, <1>11, <1>12 DEF Serve

\* call-finish.bend:44-52, create-finish.bend:10-31.  A deposit is to the
\* contract that the parent waits for: it started and still has no code.
LEMMA UnwindBooks ==
  ASSUME LInv, Unwind, IInv'
  PROVE  LInv' /\ Accounted
<1>1. /\ IInv /\ parents # <<>> /\ parents' = Front(parents) /\ frame' = Waiting.frame
      /\ world \in WorldSet /\ Tidy(LedgerOf(world)) /\ frame.output \in CodeSet
      /\ frame.output.len = 0 => frame.output = NoCode
  BY OnTop, RunningTyped, UnwindShape DEF Popping, Proper, FrameSet, Canonical
<1>2. CASE world' = Waiting.snapshot
  BY <1>1, <1>2, PopBooks, ReturnAccounted
<1>3. CASE world' = world
  BY <1>1, <1>3, PopBooks, ReturnAccounted
<1>4. CASE /\ CreateReturn /\ Succeeded
           /\ world' = SetCode(world, Waiting.created, frame.output)
  <2> DEFINE x == Waiting.created
             l == LedgerOf(world)
             m == LedgerOf(world')
  <2>1. /\ Len(parents) \in 1..Len(parents) /\ Len(parents) \in Len(parents)..Len(parents)
        /\ Waiting = parents[Len(parents)]
    <3>1. parents \in Seq(ParentSet)
      BY OnTop
    <3> QED
      BY <1>1, <3>1 DEF Waiting, Last
  <2>2. Waiting.creation /\ frame.action.op # "Fault"
    BY <1>4 DEF CreateReturn, Succeeded, Successful
  <2>3. /\ ~Alive(Books(Len(parents) - 1), x) /\ Budding(Books(Len(parents)), x)
    BY <2>1, <2>2 DEF LInv, Awaited
  <2>4. Books(Len(parents) - 1) = LedgerOf(Waiting.snapshot) /\ Books(Len(parents)) = l
    <3>1. Len(parents) - 1 # Len(parents) /\ Len(parents) - 1 + 1 = Len(parents)
      BY <2>1
    <3> QED
      BY <2>1, <3>1, OnTop DEF Books, After
  <2>5. x \in Address
    BY <1>1, WaitingLinked DEF ParentSet
  <2>6. l \in [Address -> FaceSet] /\ l[x] = Face(world.accounts[x]) /\ l[x].nonce # 0
        /\ l[x].code.len = 0
    BY <1>1, <2>3, <2>4, <2>5, LedgerType DEF Budding
  <2>7. world.accounts[x].nonce # 0
    BY <2>6 DEF Face
  <2>8. m = [l EXCEPT ![x].code = frame.output]
    BY <1>1, <1>4, <2>5, <2>7, SetCodeLedger
  <2> HIDE DEF l, m, x
  <2>9. /\ \A y \in Address \ {x} : m[y] = l[y]
        /\ m[x].nonce = l[x].nonce /\ m[x].code = frame.output
        /\ m[x] = [l[x] EXCEPT !.code = frame.output]
    <3>1. l[x] \in FaceSet
      BY <2>5, <2>6
    <3>2. m[x] = [l[x] EXCEPT !.code = frame.output] /\ \A y \in Address \ {x} : m[y] = l[y]
      BY <2>5, <2>6, <2>8
    <3> QED
      BY <3>1, <3>2 DEF FaceSet
  <2>10. Tidy(m)
    BY <1>1, <2>6, <2>9 DEF Tidy, Clean, l
  <2>11. \A y \in Address : /\ Alive(l, y) => Alive(m, y)
                            /\ Budding(l, y) => Budding(m, y) \/ y = x
    BY <2>6, <2>9 DEF Alive, Budding
  <2>12. LInv'
    BY <1>1, <2>2, <2>3, <2>4, <2>10, <2>11, PopBooks DEF l, m, x
  <2>13. /\ Nested!AgreeOutside(l, m, {x})
         /\ m[x] = [l[x] EXCEPT !.code = m[x].code]
    BY <2>9 DEF Nested!AgreeOutside
  <2>14. Accounted
    BY <1>1, <2>3, <2>4, <2>5, <2>6, <2>13, ReturnAccounted DEF l, m
  <2> QED
    BY <2>12, <2>14
<1> QED
  BY <1>2, <1>3, <1>4 DEF Unwind, CallReturn, CreateReturn, Resume

\* Every step keeps the invariant and is one of the ledger's or none.
LEMMA NextBooks ==
  ASSUME TidyStart, LInv, [Next]_vars
  PROVE  LInv' /\ Accounted
<1>1. IInv'
  BY NextInv DEF LInv
<1>2. CASE Execute
  BY <1>1, <1>2, ExecuteBooks
<1>3. CASE Serve
  BY <1>1, <1>3, ServeBooks
<1>4. CASE Unwind
  BY <1>1, <1>4, UnwindBooks
<1>5. CASE Halt \/ UNCHANGED vars
  <2>1. UNCHANGED <<frame, world, parents>>
    BY <1>5 DEF Halt, vars
  <2>2. /\ \A j : Books(j)' = Books(j)
        /\ \A i : ChildFrameOf(i)' = ChildFrameOf(i)
    BY <2>1 DEF Books, After, LedgerOf, ChildFrameOf
  <2>3. OrderlyBooks' /\ Housed' /\ Awaited'
    BY <2>1, <2>2 DEF LInv, OrderlyBooks, Housed, Awaited, Tidy, Alive, Budding
  <2>4. Accounted
    BY <2>1, QuietAccounted
  <2> QED
    BY <1>1, <2>3, <2>4 DEF LInv
<1> QED
  BY <1>2, <1>3, <1>4, <1>5 DEF Next

\* Calls and creations are nested transactions on the ledger of balances,
\* nonces, code and storage: each is kept whole or undone whole but for the
\* creator's nonce, for every program, world, schedule and depth
\* (call-finish.bend:19-22, create-enter.bend:38-41).
THEOREM CallsAreTransactions ==
  ASSUME TidyStart
  PROVE  Spec => ImplementsLedger
<1>1. Init => LInv
  BY InitBooks
<1>2. LInv /\ [Next]_vars => LInv'
  BY NextBooks
<1>3. Init => Nested!Init
  <2> SUFFICES ASSUME Init PROVE Nested!Init
    OBVIOUS
  <2>1. world = Start /\ parents = <<>>
    BY DEF Init
  <2>2. [i \in DOMAIN parents |-> LedgerOf(parents[i].snapshot)] = <<>>
    BY <2>1
  <2> QED
    BY <2>1, <2>2 DEF Nested!Init
<1>4. LInv /\ [Next]_vars => [Nested!Next]_Nested!lvars
  BY NextBooks DEF Accounted
<1> QED
  BY <1>1, <1>2, <1>3, <1>4, PTL DEF Spec, ImplementsLedger, Nested!Spec

----------------------------------------------------------------------------
(* What a step of the ledger does to its ether.                            *)

Balances(l) == [x \in Address |-> l[x].balance]

Worth(l) == SumFunction(Balances(l))

\* The ether of a world is that of its ledger.
LEMMA EtherIsWorth ==
  ASSUME NEW w
  PROVE  Ether(w) = Worth(LedgerOf(w))
<1>1. \A x \in Address : LedgerOf(w)[x].balance = w.accounts[x].balance
  BY DEF LedgerOf
<1> QED
  BY <1>1 DEF Ether, Worth, Balances

\* Ledgers with the same balances are worth the same.
LEMMA SameWorth ==
  ASSUME NEW l, NEW m, \A x \in Address : m[x].balance = l[x].balance
  PROVE  Worth(m) = Worth(l)
<1>1. Balances(m) = Balances(l)
  BY DEF Balances
<1> QED
  BY <1>1 DEF Worth

\* Ledger!Moved.  What one account loses the other gains.
LEMMA MovedWorth ==
  ASSUME IsFiniteSet(Address), NEW l \in [Address -> FaceSet], NEW m,
         NEW x \in Address, NEW y \in Address, Nested!Moved(l, m, x, y)
  PROVE  Worth(m) = Worth(l)
<1>1. PICK amount \in 0..l[x].balance :
        m = [[l EXCEPT ![x].balance = @ - amount] EXCEPT ![y].balance = @ + amount]
  BY DEF Nested!Moved
<1>2. \A z \in Address : l[z].balance \in Nat
  BY DEF FaceSet
<1> DEFINE taken == [l EXCEPT ![x].balance = @ - amount]
<1> DEFINE Faces == [balance: Int, nonce: Nat, code: CodeSet, storage: [Key -> Value]]
<1>3. /\ taken[x].balance = l[x].balance - amount
      /\ \A z \in Address \ {x} : taken[z].balance = l[z].balance
      /\ taken \in [Address -> Faces]
      /\ m = [taken EXCEPT ![y].balance = @ + amount]
      /\ amount \in Int
  <2>1. l[x].balance - amount \in Int /\ l \in [Address -> Faces]
    BY <1>2 DEF FaceSet
  <2> QED
    BY <1>1, <2>1 DEF FaceSet
<1> HIDE DEF taken
<1>4. /\ m[y].balance = taken[y].balance + amount
      /\ \A z \in Address \ {y} : m[z].balance = taken[z].balance
      /\ m \in [Address -> Faces]
  <2>1. taken[y].balance + amount \in Int
    BY <1>3
  <2> QED
    BY <1>3, <2>1
<1> DEFINE less == -amount
           f == Balances(l)
           g == Balances(taken)
           h == Balances(m)
<1>5. /\ f \in [Address -> Int] /\ g \in [Address -> Int] /\ h \in [Address -> Int]
      /\ less \in Int /\ amount \in Int
  BY <1>2, <1>3, <1>4 DEF Balances
<1>6. /\ g[x] = f[x] + less
      /\ \A z \in Address \ {x} : g[z] = f[z]
      /\ h[y] = g[y] + amount
      /\ \A z \in Address \ {y} : h[z] = g[z]
  BY <1>2, <1>3, <1>4 DEF Balances
<1>7. amount + less = 0
  BY <1>3
<1> HIDE DEF f, g, h, less
<1>8. SumFunction(g) = SumFunction(f) + less /\ SumFunction(f) \in Int
  <2>1. f \in [Address -> Int] /\ g \in [Address -> Int] /\ less \in Int
    BY <1>5
  <2> QED
    BY <2>1, <1>6, SumOfChanged
<1>9. SumFunction(h) = SumFunction(g) + amount
  BY <1>5, <1>6, SumOfChanged
<1>10. SumFunction(h) = SumFunction(f)
  BY <1>5, <1>7, <1>8, <1>9
<1> QED
  BY <1>10 DEF Worth, f, h

\* A world and the snapshots of a stack of parents are all worth the same.
Solvent(w, stack, W) ==
  /\ Worth(LedgerOf(w)) = W
  /\ \A i \in DOMAIN stack : Worth(LedgerOf(stack[i].snapshot)) = W

\* Worlds between which ether moved.
LEMMA MovedBooks ==
  ASSUME IsFiniteSet(Address), NEW w \in WorldSet, NEW v, NEW x \in Address,
         NEW y \in Address, Nested!Moved(LedgerOf(w), LedgerOf(v), x, y), Tidy(LedgerOf(w))
  PROVE  /\ Tidy(LedgerOf(v)) /\ Worth(LedgerOf(v)) = Worth(LedgerOf(w))
         /\ \A z \in Address : /\ LedgerOf(v)[z].nonce = LedgerOf(w)[z].nonce
                               /\ LedgerOf(v)[z].code = LedgerOf(w)[z].code
<1> DEFINE l == LedgerOf(w)
           m == LedgerOf(v)
<1>1. l \in [Address -> FaceSet]
  BY LedgerType
<1>2. Nested!Moved(l, m, x, y) /\ Tidy(l)
  OBVIOUS
<1> HIDE DEF l, m
<1>3. /\ Tidy(m)
      /\ \A z \in Address : m[z].nonce = l[z].nonce /\ m[z].code = l[z].code
  BY <1>1, <1>2, MovedKeeps
<1>4. Worth(m) = Worth(l)
  BY <1>1, <1>2, MovedWorth
<1> QED
  BY <1>3, <1>4 DEF l, m

\* call-common.bend:58-68.  A payment changes no nonce and no code, leaves the
\* books tidy, and loses nothing.
LEMMA PaidBooks ==
  ASSUME IsFiniteSet(Address), NEW w \in WorldSet, Tidy(LedgerOf(w)),
         NEW x \in Address, NEW y \in Address,
         NEW value \in Nat, value <= w.accounts[x].balance
  PROVE  LET v == Pay(w, x, y, value)
         IN  /\ Tidy(LedgerOf(v)) /\ Worth(LedgerOf(v)) = Worth(LedgerOf(w))
             /\ \A z \in Address : /\ LedgerOf(v)[z].nonce = LedgerOf(w)[z].nonce
                                   /\ LedgerOf(v)[z].code = LedgerOf(w)[z].code
<1> DEFINE v == Pay(w, x, y, value)
<1>1. Nested!Moved(LedgerOf(w), LedgerOf(v), x, y)
  BY PayLedger
<1> HIDE DEF v
<1>2. /\ Tidy(LedgerOf(v)) /\ Worth(LedgerOf(v)) = Worth(LedgerOf(w))
      /\ \A z \in Address : /\ LedgerOf(v)[z].nonce = LedgerOf(w)[z].nonce
                            /\ LedgerOf(v)[z].code = LedgerOf(w)[z].code
  BY <1>1, MovedBooks
<1> QED
  BY <1>2 DEF v

\* Saved ledgers are ledgers.
LEMMA SavedType ==
  ASSUME IInv
  PROVE  Saved \in Seq([Address -> FaceSet]) /\ DOMAIN Saved = DOMAIN parents
<1>1. PICK n \in Nat : n = Len(parents)
  BY Stack
<1>2. DOMAIN parents = 1..n /\ \A i \in 1..n : parents[i].snapshot \in WorldSet
  BY <1>1, FramesTyped, Stack
<1>3. Saved = [i \in 1..n |-> LedgerOf(parents[i].snapshot)]
  BY <1>2 DEF Saved
<1>4. \A i \in 1..n : LedgerOf(parents[i].snapshot) \in [Address -> FaceSet]
  BY <1>2, LedgerType
<1>5. Saved \in [1..n -> [Address -> FaceSet]]
  BY <1>3, <1>4
<1> QED
  BY <1>2, <1>5

\* One more saved ledger, worth what the others are.
LEMMA SolventPush ==
  ASSUME NEW W, NEW S, NEW s \in Seq(S), NEW t, NEW l,
         \A i \in DOMAIN s : Worth(s[i]) = W, Worth(l) = W, t = Append(s, l)
  PROVE  \A i \in DOMAIN t : Worth(t[i]) = W
<1>1. PICK n \in Nat : n = Len(s)
  OBVIOUS
<1>2. s \in Seq(S \cup {l}) /\ l \in S \cup {l}
  OBVIOUS
<1>3. /\ DOMAIN t = 1..n + 1 /\ t[n + 1] = l
      /\ \A i \in 1..n : t[i] = s[i] /\ i \in DOMAIN s
  BY <1>1, <1>2
<1>4. \A i \in 1..n + 1 : i = n + 1 \/ i \in 1..n
  BY <1>1
<1> QED
  BY <1>3, <1>4

\* And one less.
LEMMA SolventPop ==
  ASSUME NEW W, NEW S, NEW s \in Seq(S), NEW t,
         \A i \in DOMAIN s : Worth(s[i]) = W, s # <<>>, t = SubSeq(s, 1, Len(s) - 1)
  PROVE  \A i \in DOMAIN t : Worth(t[i]) = W
<1>1. PICK n \in Nat \ {0} : n = Len(s)
  OBVIOUS
<1>2. t = SubSeq(s, 1, n - 1)
  BY <1>1
<1>3. DOMAIN t = 1..n - 1 /\ \A i \in 1..n - 1 : t[i] = s[i] /\ i \in DOMAIN s
  BY <1>1, <1>2
<1> QED
  BY <1>3

\* A write, a payment, a call, a creation, their end and their failure make
\* and lose no ether.
LEMMA LedgerConserves ==
  ASSUME IsFiniteSet(Address), IInv, IInv', Accounted,
         NEW W, Solvent(world, parents, W)
  PROVE  Solvent(world', parents', W)
<1> DEFINE l == LedgerOf(world)
           m == LedgerOf(world)'
           s == Saved
           t == Saved'
<1>1. l \in [Address -> FaceSet] /\ m \in [Address -> FaceSet]
  BY RunningTyped, LedgerType DEF IInv, TypeOK, LedgerOf
<1>2. s \in Seq([Address -> FaceSet])
  BY SavedType
<1>3. Worth(l) = W /\ \A i \in DOMAIN s : Worth(s[i]) = W
  <2>1. \A i \in DOMAIN parents : s[i] = LedgerOf(parents[i].snapshot)
    BY DEF Saved
  <2> QED
    BY <2>1, SavedType DEF Solvent
<1>4. \A x, y \in Address : Nested!Moved(l, m, x, y) => Worth(m) = W
  BY <1>1, <1>3, MovedWorth
<1> SUFFICES Worth(m) = W /\ \A i \in DOMAIN t : Worth(t[i]) = W
  <2>1. /\ m = LedgerOf(world') /\ DOMAIN t = DOMAIN parents'
        /\ \A i \in DOMAIN parents' : t[i] = LedgerOf(parents'[i].snapshot)
    BY DEF Saved, LedgerOf
  <2> HIDE DEF m, t
  <2> QED
    BY <2>1 DEF Solvent
<1>5. CASE Nested!Write \/ Nested!Move \/ UNCHANGED Nested!lvars
  <2>1. t = s
    BY <1>5 DEF Nested!Write, Nested!Move, Nested!lvars, Saved
  <2>2. Worth(m) = W
    <3>1. CASE Nested!Write
      <4>1. \A x \in Address : m[x].balance = l[x].balance
        BY <1>1, <3>1 DEF Nested!Write, Nested!AgreeOutside, FaceSet
      <4> QED
        BY <1>3, <4>1, SameWorth
    <3>2. CASE Nested!Move
      BY <1>4, <3>2 DEF Nested!Move
    <3>3. CASE UNCHANGED Nested!lvars
      BY <1>3, <3>3 DEF Nested!lvars
    <3> QED
      BY <1>5, <3>1, <3>2, <3>3
  <2> QED
    BY <1>3, <2>1, <2>2
<1>6. CASE Nested!OpenCall
  <2>1. t = Append(s, l) /\ Worth(m) = W
    BY <1>4, <1>6 DEF Nested!OpenCall, Saved
  <2>2. \A i \in DOMAIN t : Worth(t[i]) = W
    BY <1>2, <1>3, <2>1, SolventPush
  <2> QED
    BY <2>1, <2>2
<1>7. CASE Nested!OpenCreation
  <2>1. PICK x \in Address, y \in Address :
          /\ t = Append(s, Nested!Spent(x))
          /\ \/ m = Nested!Spent(x)
             \/ Nested!Moved(Nested!Started(Nested!Spent(x), y), m, x, y)
    BY <1>7 DEF Nested!OpenCreation, Saved
  <2> DEFINE spent == Nested!Spent(x)
             started == Nested!Started(spent, y)
  <2>2. spent \in [Address -> FaceSet] /\ \A z \in Address : spent[z].balance = l[z].balance
    <3> DEFINE known == l[x]
               bumped == [known EXCEPT !.nonce = @ + 1]
    <3>1. known \in FaceSet
      BY <1>1
    <3> HIDE DEF known
    <3>2. bumped \in FaceSet /\ bumped.balance = known.balance
      BY <3>1 DEF FaceSet
    <3>3. spent = [l EXCEPT ![x] = bumped]
      BY DEF Nested!Spent, known
    <3> HIDE DEF bumped, spent, l
    <3>4. spent \in [Address -> FaceSet]
      BY <1>1, <3>2, <3>3
    <3>5. \A z \in Address : spent[z].balance = l[z].balance
      BY <1>1, <3>2, <3>3 DEF known
    <3> QED
      BY <3>4, <3>5
  <2> HIDE DEF spent
  <2>3. started \in [Address -> FaceSet] /\ \A z \in Address : started[z].balance = spent[z].balance
    <3>1. [k \in Key |-> 0] \in [Key -> Value]
      BY WorldAssumption
    <3> QED
      BY <2>2, <3>1 DEF Nested!Started, FaceSet
  <2> HIDE DEF started
  <2>4. Worth(spent) = W /\ Worth(started) = W
    BY <1>3, <2>2, <2>3, SameWorth
  <2>5. Worth(m) = W
    <3>1. CASE m = spent
      BY <2>4, <3>1
    <3>2. CASE Nested!Moved(started, m, x, y)
      BY <2>3, <2>4, <3>2, MovedWorth
    <3> QED
      BY <2>1, <3>1, <3>2 DEF spent, started
  <2>6. PICK k : t = Append(s, k) /\ Worth(k) = W
    BY <2>1, <2>4 DEF spent
  <2>7. \A i \in DOMAIN t : Worth(t[i]) = W
    BY <1>2, <1>3, <2>6, SolventPush
  <2> QED
    BY <2>5, <2>7
<1>8. CASE Nested!Commit \/ Nested!Abort
  <2>1. s # <<>> /\ t = Nested!Front(s)
    BY <1>8 DEF Nested!Commit, Nested!Abort, Saved
  <2>2. \A i \in DOMAIN t : Worth(t[i]) = W
    <3>1. s # <<>> /\ t = SubSeq(s, 1, Len(s) - 1)
      BY <2>1 DEF Nested!Front
    <3> HIDE DEF s, t
    <3> QED
      BY <1>2, <1>3, <3>1, SolventPop
  <2>3. CASE Nested!Commit
    <3>1. \A x \in Address : m[x].balance = l[x].balance
      BY ZenonT(60), <1>1, <2>3 DEF Nested!Commit, Nested!AgreeOutside, FaceSet
    <3>2. Worth(m) = W
      BY <1>3, <3>1, SameWorth
    <3> QED
      BY <2>2, <3>2
  <2>4. CASE Nested!Abort
    <3>1. m = Nested!Last(s)
      BY <2>4 DEF Nested!Abort, Saved
    <3>2. Nested!Last(s) = s[Len(s)] /\ Len(s) \in DOMAIN s
      BY <1>2, <2>1 DEF Nested!Last
    <3>3. Worth(m) = W
      BY <1>3, <3>1, <3>2
    <3> QED
      BY <2>2, <3>3
  <2> QED
    BY <1>8, <2>3, <2>4
<1> QED
  BY <1>5, <1>6, <1>7, <1>8 DEF Accounted, Nested!Next

\* A contract that was started before any open transaction, and whose code has
\* not been deposited: it is there in the ledger and in every saved one.
Founded(w, stack, y) ==
  /\ Budding(LedgerOf(w), y)
  /\ \A i \in DOMAIN stack : Budding(LedgerOf(stack[i].snapshot), y)

\* Moving ether leaves it there.
LEMMA MovedBuds ==
  ASSUME NEW y \in Address
  PROVE  \A l \in [Address -> FaceSet] : \A m, p, q :
           /\ p \in Address /\ q \in Address
           /\ Tidy(l) /\ Budding(l, y) /\ Nested!Moved(l, m, p, q)
           => Budding(m, y)
<1> SUFFICES ASSUME NEW l \in [Address -> FaceSet], NEW m, NEW p \in Address,
                    NEW q \in Address, Tidy(l), Budding(l, y), Nested!Moved(l, m, p, q)
             PROVE  Budding(m, y)
  OBVIOUS
<1>1. \A z \in Address : m[z].nonce = l[z].nonce /\ m[z].code = l[z].code
  BY MovedKeeps
<1> QED
  BY <1>1 DEF Budding

\* Nothing within takes its nonce back or deposits its code.
LEMMA LedgerFounds ==
  ASSUME LInv, IInv', Accounted, NEW y \in Address, Founded(world, parents, y)
  PROVE  Founded(world', parents', y)
<1> DEFINE l == LedgerOf(world)
           m == LedgerOf(world')
           s == Saved
           t == Saved'
           B == {k \in [Address -> FaceSet] : Budding(k, y)}
<1>1. /\ IInv /\ world \in WorldSet /\ l \in [Address -> FaceSet] /\ Tidy(l)
      /\ m \in [Address -> FaceSet]
  <2>1. IInv /\ Tidy(l)
    BY OnTop
  <2>2. world \in WorldSet /\ world' \in WorldSet
    BY <2>1, RunningTyped DEF IInv, TypeOK
  <2> QED
    BY <2>1, <2>2, LedgerType
<1>2. s \in Seq(B) /\ l \in B
  <2>1. s \in Seq([Address -> FaceSet]) /\ DOMAIN s = DOMAIN parents
    BY <1>1, SavedType
  <2>2. Budding(l, y) /\ \A i \in DOMAIN s : Budding(s[i], y)
    BY <2>1 DEF Founded, Saved
  <2> HIDE DEF s, l
  <2> QED
    BY <1>1, <2>1, <2>2
<1> SUFFICES m \in B /\ t \in Seq(B)
  <2>1. /\ m = LedgerOf(world') /\ DOMAIN t = DOMAIN parents'
        /\ \A i \in DOMAIN parents' : t[i] = LedgerOf(parents'[i].snapshot)
    BY DEF Saved, LedgerOf
  <2> HIDE DEF m, t
  <2>2. Budding(m, y) /\ \A i \in DOMAIN t : Budding(t[i], y)
    OBVIOUS
  <2> QED
    BY <2>1, <2>2 DEF Founded
<1>3. \A k \in [Address -> FaceSet] : Budding(l, y) /\ Onward(l, k) => k \in B
  BY DEF Onward
<1>4. CASE Nested!Write \/ UNCHANGED Nested!lvars
  <2>1. t = s
    BY <1>4 DEF Nested!Write, Nested!lvars, Saved
  <2>2. Budding(m, y)
    <3>1. CASE Nested!Write
      <4>1. PICK p \in Address :
              /\ \A z \in Address \ {p} : m[z] = l[z]
              /\ m[p] = [l[p] EXCEPT !.storage = m[p].storage]
        BY <3>1 DEF Nested!Write, Nested!AgreeOutside
      <4> HIDE DEF l, m
      <4>2. m[p].nonce = l[p].nonce /\ m[p].code = l[p].code
        BY <1>1, <4>1 DEF FaceSet
      <4>3. m[y].nonce = l[y].nonce /\ m[y].code = l[y].code
        BY <4>1, <4>2
      <4> QED
        BY <1>2, <4>3 DEF Budding
    <3>2. CASE UNCHANGED Nested!lvars
      BY <1>2, <3>2 DEF Nested!lvars
    <3> QED
      BY <1>4, <3>1, <3>2
  <2> QED
    BY <1>1, <1>2, <2>1, <2>2
<1>5. CASE Nested!Move \/ Nested!OpenCall
  <2>1. (t = s \/ t = Append(s, l)) /\ \E p, q \in Address : Nested!Moved(l, m, p, q)
    BY <1>5 DEF Nested!Move, Nested!OpenCall, Saved
  <2> HIDE DEF s, t, l, m
  <2>2. Budding(l, y)
    BY <1>2
  <2>3. m \in B
    BY <1>1, <2>1, <2>2, MovedBuds
  <2> HIDE DEF B
  <2> QED
    BY <1>2, <2>1, <2>3
<1>6. CASE Nested!OpenCreation
  <2>1. PICK p \in Address, q \in Address :
          /\ t = Append(s, Nested!Spent(p))
          /\ \/ m = Nested!Spent(p)
             \/ Nested!Moved(Nested!Started(Nested!Spent(p), q), m, p, q)
    BY <1>6 DEF Nested!OpenCreation, Saved
  <2> DEFINE spent == [l EXCEPT ![p].nonce = @ + 1]
             started == Nested!Started(spent, q)
  <2>2. Nested!Spent(p) = spent
    BY DEF Nested!Spent
  <2> HIDE DEF l, m, s, t
  <2>3. spent \in [Address -> FaceSet]
    BY SMTT(30), <1>1 DEF FaceSet
  <2>4. Tidy(spent) /\ Onward(l, spent)
    BY <1>1, SpentOnward
  <2> HIDE DEF spent
  <2>5. started \in [Address -> FaceSet]
    <3>1. [k \in Key |-> 0] \in [Key -> Value]
      BY WorldAssumption
    <3> QED
      BY <2>3, <3>1 DEF Nested!Started, FaceSet
  <2>6. Tidy(started) /\ Onward(spent, started)
    BY <2>3, <2>4, StartedOnward
  <2> HIDE DEF started
  <2>7. Budding(spent, y) /\ Budding(started, y)
    BY <1>2, <2>4, <2>6 DEF Onward
  <2>8. m \in B
    <3>1. CASE m = spent
      BY <2>3, <2>7, <3>1
    <3>2. CASE m # spent
      <4>1. Nested!Moved(started, m, p, q)
        BY <2>1, <2>2, <3>2 DEF started
      <4> QED
        BY <1>1, <2>5, <2>6, <2>7, <4>1, MovedBuds
    <3> QED
      BY <3>1, <3>2
  <2>9. spent \in B /\ t = Append(s, spent)
    BY <2>1, <2>2, <2>3, <2>7
  <2> HIDE DEF B
  <2> QED
    BY <1>2, <2>8, <2>9
<1>7. CASE Nested!Commit \/ Nested!Abort
  <2>1. s # <<>> /\ t = Nested!Front(s)
    BY <1>7 DEF Nested!Commit, Nested!Abort, Saved
  <2>2. t \in Seq(B) /\ s[Len(s)] \in B /\ Nested!Last(s) = s[Len(s)]
    <3>1. s # <<>> /\ t = SubSeq(s, 1, Len(s) - 1) /\ Nested!Last(s) = s[Len(s)]
      BY <2>1 DEF Nested!Front, Nested!Last
    <3> HIDE DEF s, t, B
    <3> QED
      BY <1>2, <3>1
  <2>3. CASE Nested!Commit
    <3>1. CASE m = l
      BY <1>2, <2>2, <3>1
    <3>2. CASE m # l
      <4>1. PICK z \in Address :
              /\ Nested!Last(s)[z].nonce = 0
              /\ Nested!AgreeOutside(l, m, {z})
        BY <2>3, <3>2 DEF Nested!Commit, Saved
      <4> HIDE DEF l, m, s, t
      <4>2. z # y
        BY <2>2, <4>1 DEF Budding
      <4>3. m[y] = l[y]
        BY <4>1, <4>2 DEF Nested!AgreeOutside
      <4> QED
        BY <1>1, <1>2, <2>2, <4>3 DEF Budding
    <3> QED
      BY <3>1, <3>2
  <2>4. CASE Nested!Abort
    <3>1. m = Nested!Last(s)
      BY <2>4 DEF Nested!Abort, Saved
    <3> QED
      BY <2>2, <3>1
  <2> QED
    BY <1>7, <2>3, <2>4
<1> QED
  BY <1>4, <1>5, <1>6, <1>7 DEF Accounted, Nested!Next

\* Ether is neither made nor lost by calls, creations, self-destructs and
\* rollbacks, in the journal and in every snapshot, for every program, world,
\* schedule and depth (world.bend:58-76, call-selfdestruct.bend:19-30).
THEOREM NoEtherMadeOrLost ==
  ASSUME IsFiniteSet(Address), TidyStart
  PROVE  Spec => []EtherConserved
<1>1. Init => LInv
  BY InitBooks
<1> DEFINE Conserved == Solvent(world, parents, Worth(LedgerOf(Start)))
<1>2. Init => Conserved
  BY DEF Init, Solvent
<1>3. LInv /\ Conserved /\ [Next]_vars => LInv' /\ Conserved'
  <2> SUFFICES ASSUME LInv, Conserved, [Next]_vars PROVE LInv' /\ Conserved'
    OBVIOUS
  <2>1. LInv' /\ Accounted
    BY NextBooks
  <2>2. Solvent(world', parents', Worth(LedgerOf(Start)))
    BY <2>1, LedgerConserves DEF LInv
  <2> QED
    BY <2>1, <2>2 DEF Solvent, LedgerOf
<1>4. LInv /\ Conserved => EtherConserved
  <2> SUFFICES ASSUME LInv, Conserved, NEW w \in Journals
               PROVE  Ether(w) = Ether(Start)
    BY DEF EtherConserved
  <2>1. CASE w = world
    BY <2>1, EtherIsWorth DEF Solvent
  <2>2. CASE \E i \in DOMAIN parents : w = parents[i].snapshot
    <3>1. PICK i \in DOMAIN parents : w = parents[i].snapshot
      BY <2>2
    <3>2. Worth(LedgerOf(w)) = Worth(LedgerOf(Start))
      BY <3>1 DEF Solvent
    <3> QED
      BY <3>2, EtherIsWorth
  <2> QED
    BY <2>1, <2>2 DEF Journals
<1> QED
  BY <1>1, <1>2, <1>3, <1>4, PTL DEF Spec
=============================================================================
