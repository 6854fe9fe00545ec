------------------------------- MODULE Runtime -------------------------------
(***************************************************************************)
(* The host's run loop around the call machine: full/runtime.bend, and     *)
(* full/transaction-wide.bend, whose loop also watches the reservoir.      *)
(*                                                                         *)
(* The loop spends one unit of fuel per transition.  It stops the machine  *)
(* with HostLimit when the fuel is spent or, with part of the gas held in  *)
(* escrow, when the reservoir leaves its window.  A HostLimit makes the    *)
(* transaction Incomplete: it is never a verdict on the program.           *)
(***************************************************************************)
EXTENDS VmProperties

CONSTANTS
  FuelFactor,       \* 4
  FuelSlack,        \* 4096
  Escrows,          \* whether gas beyond the window is held in escrow: the
                    \* loops of runtime.bend (FALSE), transaction-wide.bend
  Window,           \* 2^44
  Margin,           \* 2^40
  Drift,            \* the state gas of all the state in reach
  NoResult

ASSUME RuntimeAssumption ==
  /\ {FuelFactor, FuelSlack, Window, Margin, Drift} \subseteq Nat
  /\ Escrows \subseteq BOOLEAN

VARIABLES
  fuel,       \* transitions the loop still grants
  result,     \* the frame of the engine it returned
  escrow,     \* which of the two loops runs
  entry       \* the reservoir the machine was entered with

rvars == <<frame, meter, world, parents, fuel, result, escrow, entry>>

\* Mutant: one transition for every unit of gas.
FuelPerGas(m) == m.gas + m.reservoir + FuelSlack

Fuel(m) == FuelFactor * (m.gas + m.reservoir) + FuelSlack

\* A machine with gas in escrow is entered with a reservoir at the centre.
RunInit ==
  /\ Init
  /\ fuel = Fuel(meter)
  /\ result = NoResult
  /\ escrow \in Escrows
  /\ entry = meter.reservoir
  /\ escrow => entry = Window

\* wide.invariant, evaluated before the first transition and after each.
InWindow(m) ==
  escrow => m.reservoir \in (Window - Margin)..(Window + Margin)

\* The decision is Done: the machine ended, or it left the window.
Decided == Done \/ ~InWindow(meter)

LoopEnds == Decided \/ fuel = 0

\* Mutant: the engine is handed back with whatever its frame last did.
ReturnedUncut == frame

\* Done hands the engine back; a machine out of the window, or cut off by the
\* fuel, is marked first.
Returned == IF Done /\ InWindow(meter) THEN frame ELSE WithAction(frame, "HostLimit")

\* One transition of the machine, or one answer of the precompile host.
Tick ==
  /\ result = NoResult
  /\ fuel > 0
  /\ ~Decided
  /\ Execute \/ Serve \/ Unwind
  /\ fuel' = fuel - 1
  /\ UNCHANGED <<result, escrow, entry>>

Return ==
  /\ result = NoResult
  /\ LoopEnds
  /\ result' = Returned
  /\ UNCHANGED <<frame, meter, world, parents, fuel, escrow, entry>>

RunHalt == result # NoResult /\ UNCHANGED rvars

RunNext == Tick \/ Return \/ RunHalt

RunSpec == RunInit /\ [][RunNext]_rvars

----------------------------------------------------------------------------
\* The fuel outlasts the program: it is not spent before the machine has
\* ended, although entering, refusing, ending and unwinding a call spend fuel
\* and no gas (the claim of the comment at full/runtime.bend:103).
FuelSuffices == fuel = 0 => Done

\* The reservoir never strays from where it was entered by more than the price
\* of the state in reach, however often state gas is charged, refilled and
\* rolled back by nested frames: a window wider than that is never left
\* (full/transaction-wide.bend:139-144).
WindowKept == meter.reservoir \in (entry - Drift)..(entry + Drift)

\* What the loop returns as the outcome of the program is the outcome of the
\* outermost frame in a machine that ended: cutting the loop in the middle of
\* a call never passes a child's end for the end of the transaction
\* (full/runtime.bend:68-77).
ResultIsFinal ==
  result # NoResult /\ result.action.op \in Terminal =>
    /\ parents = <<>>
    /\ result.depth = 0
    /\ InWindow(meter)

\* Hypothesis of the theorem of the fuel: the loop grants as much as
\* full/runtime.bend:104 does or more, every instruction that does not end the
\* frame costs gas, and asking for a call or starting a creation costs two.
Metered ==
  /\ FuelFactor >= 4 /\ FuelSlack >= 2
  /\ WarmAccess >= 2 /\ CreateBase >= 2
  /\ ColdSlot > 0 /\ LogBase > 0 /\ 0 \notin ComputeCost
=============================================================================
