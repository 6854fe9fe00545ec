------------------------------- MODULE Meter -------------------------------
(***************************************************************************)
(* The two gas pools of a frame and the operations of full/gas.bend.       *)
(*                                                                         *)
(* Execution gas ("gas") belongs to one frame.  State gas is paid from the *)
(* reservoir, which a frame hands to its child whole; when the reservoir   *)
(* is short the rest spills onto execution gas.  "used" is the net state   *)
(* gas of the frame (signed: a refill may give back what an ancestor       *)
(* paid), "spilled" the part of it that execution gas paid.                *)
(*                                                                         *)
(* "grant" and "entry" are history: the gas and the reservoir the frame    *)
(* started with.  No operation reads them; the invariants do.              *)
(***************************************************************************)
EXTENDS Integers

CONSTANT WordModulus        \* 2^256: Word arithmetic wraps

ASSUME WordModulusAssumption == WordModulus \in Nat \ {0}

MeterSet == [gas: Nat, reservoir: Nat, used: Int, spilled: Nat,
             grant: Nat, entry: Nat]

FreshMeter(gas, reservoir) ==
  [gas |-> gas, reservoir |-> reservoir, used |-> 0, spilled |-> 0,
   grant |-> gas, entry |-> reservoir]

Least(a, b) == IF a < b THEN a ELSE b

\* A two's-complement word read back as a natural number.
ToNat(word) == IF word < 0 THEN word + WordModulus ELSE word

----------------------------------------------------------------------------
(* Charging.  The caller tests CanCharge or CanSpendState first; a charge  *)
(* that fails faults the frame (Exhaust) and leaves the pools alone.       *)

CanCharge(m, cost) == cost <= m.gas

Charge(m, cost) == [m EXCEPT !.gas = @ - cost]

Spill(m, cost) == cost - Least(cost, m.reservoir)

CanSpendState(m, cost) == CanCharge(m, Spill(m, cost))

\* Mutant: all of a state charge is taken from the reservoir.
SpendReservoirOnly(m, cost) == [m EXCEPT !.reservoir = @ - cost, !.used = @ + cost]

SpendState(m, cost) ==
  [m EXCEPT !.gas = @ - Spill(m, cost),
            !.reservoir = @ - Least(cost, @),
            !.used = @ + cost,
            !.spilled = @ + Spill(m, cost)]

\* Gives state gas back, to the pool that funded it last.
Refill(m, amount) ==
  LET toExecution == Least(amount, m.spilled)
  IN  [m EXCEPT !.gas = @ + toExecution,
                !.reservoir = @ + (amount - toExecution),
                !.used = @ - amount,
                !.spilled = @ - toExecution]

----------------------------------------------------------------------------
(* Ending a frame.                                                         *)

\* The gas effect of a fault.
Exhaust(m) == [m EXCEPT !.gas = 0]

Rollback(m) ==
  [m EXCEPT !.gas = @ + m.spilled,
            !.reservoir = ToNat(m.reservoir + m.used - m.spilled),
            !.used = 0,
            !.spilled = 0]

Settle(m, succeeded, reverted) ==
  CASE succeeded -> m
    [] ~succeeded /\ reverted -> Rollback(m)
    [] OTHER -> Exhaust(Rollback(m))

\* Mutant: the parent adopts the reservoir and leaves its spill outstanding.
AbsorbWithoutRepair(m, returned) == [m EXCEPT !.reservoir = returned]

\* A parent adopts its child's reservoir, repairing its own spill first.
Absorb(m, returned) ==
  LET restore == Least(returned, m.spilled)
  IN  [m EXCEPT !.gas = @ + restore,
                !.reservoir = returned - restore,
                !.spilled = @ - restore]

\* Mutant: a successful child's spill is forgotten.
MergedForgetsSpill(parent, child, succeeded) ==
  Absorb([parent EXCEPT !.gas = @ + child.gas,
                        !.used = @ + (IF succeeded THEN child.used ELSE 0)],
         child.reservoir)

\* The meter of a parent that resumes after a settled child.
Merged(parent, child, succeeded) ==
  LET kept == IF succeeded THEN child ELSE [child EXCEPT !.used = 0, !.spilled = 0]
  IN  Absorb([parent EXCEPT !.gas = @ + child.gas,
                            !.used = @ + kept.used,
                            !.spilled = @ + kept.spilled],
             child.reservoir)

----------------------------------------------------------------------------
(* What the invariants say of a running meter, and of a suspended parent   *)
(* and the child it waits for.                                             *)

\* Rolling the frame back returns exactly the reservoir it was entered with.
Baseline(m) == m.reservoir + m.used - m.spilled = m.entry

BaselineLink(parent, child) ==
  child.entry + parent.used - parent.spilled = parent.entry

\* The execution gas a frame can end with is at most what it was granted,
\* and what a parent kept with what it granted is at most its own grant.
WithinGrant(m) == m.gas + m.spilled <= m.grant

GrantLink(parent, child) == parent.gas + child.grant + parent.spilled <= parent.grant

\* State gas spills only once the reservoir is dry.
SpillsLast(m) == m.spilled = 0 \/ m.reservoir = 0
=============================================================================
