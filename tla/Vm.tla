--------------------------------- MODULE Vm ---------------------------------
(***************************************************************************)
(* The resumable call machine: full/vm.bend dispatches one transition on   *)
(* the action of the running frame; state-ops, call-enter, create-enter,   *)
(* call-finish, create-finish and call-selfdestruct are its handlers, and  *)
(* full/runtime.bend answers precompile requests.                          *)
(*                                                                         *)
(* The program is arbitrary: a running frame may execute any instruction   *)
(* of Instructions with any operand of the constant sets.  Stack, memory,  *)
(* program counter and data bytes are abstracted; what an instruction      *)
(* charges for memory is an element of MemoryCost.                         *)
(***************************************************************************)
EXTENDS Meter, World, SequencesExt

CONSTANTS
  Instructions,     \* the instructions a program may contain
  Origin, Entry,    \* caller and callee of the outermost frame
  Precompiles,      \* addresses 1..17 and 256
  CreateTarget,     \* addresses CREATE and CREATE2 can derive
  Start,            \* the world of the outermost frame
  InitGas, InitReservoir,
  Amount,           \* ether values of calls and creations
  RequestGas,       \* gas operands of calls
  Output,           \* return data of a frame, as code to deposit
  InitCode,         \* init code of creations
  ComputeCost, MemoryCost

CONSTANTS           \* the gas schedule, with its value in the code
  WarmAccess,       \* 100
  ColdAccount,      \* 3000
  ColdSlot,         \* 2100
  SlotWrite,        \* 10000
  SlotState,        \* 97920, state gas
  ClearRefund,      \* 11616
  ResetRefund,      \* 10000
  Sentry,           \* 2300
  LogBase,          \* 375
  CallValue,        \* 11300
  Stipend,          \* 2300
  NewAccount,       \* 183600, state gas
  CreateBase,       \* 12000
  DestructBase,     \* 5000
  DestructCold,     \* 3000
  DestructTopup,    \* 9000
  CodeWord,         \* 6
  CodeByte,         \* 1530, state gas
  CodeLimit,        \* 65536
  CapDivisor,       \* 64
  MaxDepth,         \* 1024
  NonceLimit        \* 2^64 - 1

ASSUME ScheduleAssumption ==
  /\ {WarmAccess, ColdAccount, ColdSlot, SlotWrite, SlotState, ClearRefund,
      ResetRefund, Sentry, LogBase, CallValue, Stipend, NewAccount, CreateBase,
      DestructBase, DestructCold, DestructTopup, CodeWord, CodeByte, CodeLimit,
      CapDivisor, MaxDepth, NonceLimit} \subseteq Nat
  /\ WarmAccess <= ColdAccount
  /\ Stipend <= CallValue
  /\ CapDivisor > 0

ASSUME ProgramAssumption ==
  /\ Origin \in Address /\ Entry \in Address
  /\ Precompiles \subseteq Address /\ CreateTarget \subseteq Address
  /\ Start \in WorldSet
  /\ UNION {InitGas, InitReservoir, Amount, RequestGas, ComputeCost, MemoryCost}
       \subseteq Nat
  /\ 0 \in Amount
  /\ Output \subseteq CodeSet /\ InitCode \subseteq CodeSet /\ NoCode \in Output

VARIABLES
  frame,      \* the running frame
  meter,      \* its gas and the engine's reservoir, state_used, state_spilled
  world,      \* the current journal
  parents     \* suspended frames, the innermost last

vars == <<frame, meter, world, parents>>

----------------------------------------------------------------------------
(* Frames and actions.                                                     *)

CallKind == {"CALL", "CALLCODE", "DELEGATECALL", "STATICCALL"}

Successful == {"Stopped", "Returned"}
Terminal   == Successful \cup {"Reverted", "Fault"}

ActionSet ==
  [op: Terminal \cup {"Running", "Precompile", "HostLimit"}]
  \cup [op: {"Call"}, kind: CallKind, gas: Nat, target: Address, value: Nat]
  \cup [op: {"Create"}, value: Nat]
  \cup [op: {"SelfDestruct"}, target: Address]

FrameSet ==
  [address: Address, caller: Address, value: Nat, static: BOOLEAN, depth: Nat,
   code: CodeSet, action: ActionSet, output: CodeSet]

ParentSet ==
  [frame: FrameSet, meter: MeterSet, snapshot: WorldSet,
   creation: BOOLEAN,       \* bits 0-7 of Parent.kind: CREATE or CREATE2
   charged: BOOLEAN,        \* bit 8: NewAccount is given back on failure
   created: Address]        \* created_address, the target of the call

TypeOK ==
  /\ frame \in FrameSet
  /\ meter \in MeterSet
  /\ world \in WorldSet
  /\ parents \in Seq(ParentSet)

Plain(op) == [op |-> op]

WithAction(f, op) == [f EXCEPT !.action = Plain(op)]

\* A fault takes the gas and drops the output.
FaultFrame == [WithAction(frame, "Fault") EXCEPT !.output = NoCode]

Fault == frame' = FaultFrame /\ meter' = Exhaust(meter)

Self == world.accounts[frame.address]

AccountAccess(account) == IF account.warm THEN WarmAccess ELSE ColdAccount

SlotAccess(account, k) == IF k \in account.slots THEN WarmAccess ELSE ColdSlot

----------------------------------------------------------------------------
(* Instructions.  One that fails - out of gas, stack bounds, an invalid    *)
(* opcode, a write from a static frame - faults without touching the       *)
(* world, whatever it is; Throw stands for all of them.                    *)

Running == frame.action.op = "Running"

Executing(instruction) ==
  /\ Running
  /\ instruction \in Instructions
  /\ frame.code.len > 0
  /\ ~frame.code.ef

Throw ==
  /\ Running
  /\ frame.code.len > 0
  /\ Fault
  /\ UNCHANGED <<world, parents>>

\* STOP, also read past the end of the code.
Stop ==
  /\ Running
  /\ ~frame.code.ef
  /\ frame' = [WithAction(frame, "Stopped") EXCEPT !.output = NoCode]
  /\ UNCHANGED <<meter, world, parents>>

\* RETURN and REVERT.
Exit(op, output, cost) ==
  /\ Executing("EXIT")
  /\ CanCharge(meter, cost)
  /\ frame' = [WithAction(frame, op) EXCEPT !.output = output]
  /\ meter' = Charge(meter, cost)
  /\ UNCHANGED <<world, parents>>

\* Every opcode that reads and writes the frame alone.
Compute(cost) ==
  /\ Executing("COMPUTE")
  /\ CanCharge(meter, cost)
  /\ meter' = Charge(meter, cost)
  /\ UNCHANGED <<frame, world, parents>>

\* BALANCE, EXTCODESIZE, EXTCODECOPY, EXTCODEHASH.
Touch(a, cost) ==
  LET price == AccountAccess(world.accounts[a]) + cost
  IN  /\ Executing("TOUCH")
      /\ CanCharge(meter, price)
      /\ meter' = Charge(meter, price)
      /\ world' = WarmAccount(world, a)
      /\ UNCHANGED <<frame, parents>>

Sload(k) ==
  LET price == SlotAccess(Self, k)
  IN  /\ Executing("SLOAD")
      /\ CanCharge(meter, price)
      /\ meter' = Charge(meter, price)
      /\ world' = WarmStorage(world, frame.address, k)
      /\ UNCHANGED <<frame, parents>>

\* Mutant: a refill takes the clearing refund back wherever it came from.
SlotRefundUngiven(original, current, value) ==
  CASE current = 0 /\ value # 0                  -> -ClearRefund
    [] original # 0 /\ current # 0 /\ value = 0  -> ClearRefund
    [] OTHER                                    -> 0

\* The refund of writing value over current, given the slot's original value.
SlotRefund(original, current, value) ==
  LET clear == CASE original # 0 /\ current = 0 /\ value # 0 -> -ClearRefund
                 [] original # 0 /\ current # 0 /\ value = 0 -> ClearRefund
                 [] OTHER                                   -> 0
      reset == IF original = value /\ current # value THEN ResetRefund ELSE 0
  IN  clear + reset

\* Mutant: state gas is charged for every slot that becomes non-zero.
FillsAnySlot(original, current, value) == current = 0 /\ value # 0

\* A slot that was empty when the transaction began is written, or cleared.
FillsSlot(original, current, value) == original = 0 /\ current = 0 /\ value # 0
EmptiesSlot(original, current, value) == original = 0 /\ current # 0 /\ value = 0

Sstore(k, value) ==
  LET original == Self.original[k]
      current  == Self.storage[k]
      price    == SlotAccess(Self, k)
                  + (IF original = current /\ current # value THEN SlotWrite ELSE 0)
      paid     == Charge(meter, price)
      fills    == FillsSlot(original, current, value)
      empties  == EmptiesSlot(original, current, value)
      warmed   == WarmStorage(world, frame.address, k)
  IN  /\ Executing("SSTORE")
      /\ ~frame.static
      /\ meter.gas > Sentry
      /\ CanCharge(meter, price)
      /\ fills => CanSpendState(paid, SlotState)
      /\ meter' = CASE fills   -> SpendState(paid, SlotState)
                    [] empties -> Refill(paid, SlotState)
                    [] OTHER   -> paid
      /\ world' = AddRefund(SetStorage(warmed, frame.address, k, value),
                            SlotRefund(original, current, value))
      /\ UNCHANGED <<frame, parents>>

Tstore(k, value) ==
  /\ Executing("TSTORE")
  /\ ~frame.static
  /\ CanCharge(meter, WarmAccess)
  /\ meter' = Charge(meter, WarmAccess)
  /\ world' = SetTransient(world, frame.address, k, value)
  /\ UNCHANGED <<frame, parents>>

\* LOG0 to LOG4.
Emit(cost) ==
  LET price == LogBase + cost
  IN  /\ Executing("LOG")
      /\ ~frame.static
      /\ CanCharge(meter, price)
      /\ meter' = Charge(meter, price)
      /\ world' = Log(world, [address |-> frame.address, topics |-> <<>>,
                              data |-> 0])
      /\ UNCHANGED <<frame, parents>>

----------------------------------------------------------------------------
(* The instructions that ask the machine for something leave a request in  *)
(* the frame's action; the next transition serves it.                      *)

CarriesValue(kind, value) == kind \in {"CALL", "CALLCODE"} /\ value # 0

Forbidden(kind, value) == frame.static /\ kind = "CALL" /\ value # 0

AskCall(kind, gas, target, value) ==
  /\ Executing(kind)
  /\ value # 0 => kind \in {"CALL", "CALLCODE"}
  /\ ~Forbidden(kind, value)
  /\ CanCharge(meter, WarmAccess)
  /\ meter' = Charge(meter, WarmAccess)
  /\ frame' = [frame EXCEPT !.action =
       [op |-> "Call", kind |-> kind, gas |-> gas, target |-> target, value |-> value]]
  /\ UNCHANGED <<world, parents>>

AskCreate(value) ==
  /\ Executing("CREATE")
  /\ ~frame.static
  /\ frame' = [frame EXCEPT !.action = [op |-> "Create", value |-> value]]
  /\ UNCHANGED <<meter, world, parents>>

AskSelfDestruct(target) ==
  /\ Executing("SELFDESTRUCT")
  /\ ~frame.static
  /\ frame' = [frame EXCEPT !.action = [op |-> "SelfDestruct", target |-> target]]
  /\ UNCHANGED <<meter, world, parents>>

----------------------------------------------------------------------------
(* CALL, CALLCODE, DELEGATECALL, STATICCALL.                               *)

Calling == frame.action.op = "Call"

Request == frame.action

Target == world.accounts[Request.target]

\* The target is warmed as soon as memory is paid, then the account that its
\* code delegates to (EIP-7702); both stay warm when the call fails.
TargetWarmed == WarmAccount(world, Request.target)

\* Mutant: a delegated call warms the delegate instead of the target.
CallWorldDelegateOnly ==
  IF Delegated(Target.code) THEN WarmAccount(world, Target.code.to) ELSE TargetWarmed

CallWorld ==
  IF Delegated(Target.code)
  THEN WarmAccount(TargetWarmed, Target.code.to)
  ELSE TargetWarmed

\* Mutant: a value call hands out the stipend without charging for it.
CallPriceFreeValue ==
  (AccountAccess(Target) - WarmAccess)
  + (IF Delegated(Target.code)
     THEN AccountAccess(TargetWarmed.accounts[Target.code.to])
     ELSE 0)

\* Execution gas of the call, without memory.
CallPrice ==
  (AccountAccess(Target) - WarmAccess)
  + (IF CarriesValue(Request.kind, Request.value) THEN CallValue ELSE 0)
  + (IF Delegated(Target.code)
     THEN AccountAccess(TargetWarmed.accounts[Target.code.to])
     ELSE 0)

\* Whether the call pays state gas for bringing its target to life.
BirthCharged ==
  /\ Request.kind = "CALL"
  /\ CarriesValue(Request.kind, Request.value)
  /\ IsEmpty(Target)

\* The state charge of a new account, if it applies.
CanSpendBirth(m, applies) == applies => CanSpendState(m, NewAccount)
SpendBirth(m, applies)    == IF applies THEN SpendState(m, NewAccount) ELSE m

\* Mutant: a failed call or creation keeps the charge.
RefillBirthForgotten(m, applies) == m

RefillBirth(m, applies)   == IF applies THEN Refill(m, NewAccount) ELSE m

CallAllowed(memory) ==
  /\ ~Forbidden(Request.kind, Request.value)
  /\ CanCharge(meter, memory + CallPrice)
  /\ CanSpendBirth(Charge(meter, memory + CallPrice), BirthCharged)

CallPaid(memory) == SpendBirth(Charge(meter, memory + CallPrice), BirthCharged)

\* All but one 64th of the gas.
Cap(gas) == gas - (gas \div CapDivisor)

\* The gas taken from the caller, and the gas added to it for the callee.
CallLimit(memory) == Least(Request.gas, Cap(CallPaid(memory).gas))
CallStipend == IF CarriesValue(Request.kind, Request.value) THEN Stipend ELSE 0

\* Depth or balance forbid the child frame; the caller sees a failed call.
CallImpossible ==
  \/ frame.depth >= MaxDepth
  \/ /\ Request.kind \in {"CALL", "CALLCODE"}
     /\ Self.balance < Request.value

CallFault(memory) ==
  /\ Calling
  /\ ~CallAllowed(memory)
  /\ Fault
  /\ world' = IF Forbidden(Request.kind, Request.value) \/ ~CanCharge(meter, memory)
              THEN world
              ELSE CallWorld
  /\ UNCHANGED parents

\* The gas meant for the child returns to the caller, stipend included.
CallRefused(memory) ==
  LET paid == CallPaid(memory)
  IN  /\ Calling
      /\ CallAllowed(memory)
      /\ CallImpossible
      /\ meter' = RefillBirth([paid EXCEPT !.gas = @ + CallStipend], BirthCharged)
      /\ frame' = WithAction(frame, "Running")
      /\ world' = CallWorld
      /\ UNCHANGED parents

\* Delegated code runs as code even when the delegate is a precompile.
CallCode ==
  IF Delegated(Target.code) THEN world.accounts[Target.code.to].code ELSE Target.code

ChildOp ==
  IF Request.target \in Precompiles /\ ~Delegated(Target.code)
  THEN "Precompile" ELSE "Running"

\* Mutant: only a STATICCALL itself makes its callee static.
ChildFrameNotInherited ==
  LET kind == Request.kind
  IN  [address |-> IF kind \in {"CALLCODE", "DELEGATECALL"}
                   THEN frame.address ELSE Request.target,
       caller  |-> IF kind = "DELEGATECALL" THEN frame.caller ELSE frame.address,
       value   |-> IF kind = "DELEGATECALL" THEN frame.value ELSE Request.value,
       static  |-> kind = "STATICCALL",
       depth   |-> frame.depth + 1,
       code    |-> CallCode,
       action  |-> Plain(ChildOp),
       output  |-> NoCode]

ChildFrame ==
  LET kind == Request.kind
  IN  [address |-> IF kind \in {"CALLCODE", "DELEGATECALL"}
                   THEN frame.address ELSE Request.target,
       caller  |-> IF kind = "DELEGATECALL" THEN frame.caller ELSE frame.address,
       value   |-> IF kind = "DELEGATECALL" THEN frame.value ELSE Request.value,
       static  |-> frame.static \/ kind = "STATICCALL",
       depth   |-> frame.depth + 1,
       code    |-> CallCode,
       action  |-> Plain(ChildOp),
       output  |-> NoCode]

\* Ether moves with its log.
Pay(w, source, target, value) ==
  TransferLog(Transfer(w, source, target, value), source, target, value)

\* Suspends the running frame, with the reservoir left to the child.
Suspend(paid, taken, snapshot, creation, charged, created) ==
  parents' = Append(parents,
    [frame |-> WithAction(frame, "Running"),
     meter |-> [paid EXCEPT !.gas = @ - taken, !.reservoir = 0],
     snapshot |-> snapshot,
     creation |-> creation, charged |-> charged, created |-> created])

CallEnter(memory) ==
  LET paid  == CallPaid(memory)
      taken == CallLimit(memory)
  IN  /\ Calling
      /\ CallAllowed(memory)
      /\ ~CallImpossible
      /\ Suspend(paid, taken, CallWorld, FALSE, BirthCharged, Request.target)
      /\ frame' = ChildFrame
      /\ meter' = FreshMeter(taken + CallStipend, paid.reservoir)
      /\ world' = IF Request.kind = "CALL"
                  THEN Pay(CallWorld, frame.address, Request.target, Request.value)
                  ELSE CallWorld

----------------------------------------------------------------------------
(* CREATE and CREATE2.  "cost" is the charge for memory and for the words  *)
(* of the init code, "target" the address derived for the new contract.    *)

Creating == frame.action.op = "Create"

CreatePrice(cost) == CreateBase + cost

CreateAllowed(cost) == ~frame.static /\ CanCharge(meter, CreatePrice(cost))

CreateImpossible ==
  \/ frame.depth >= MaxDepth
  \/ Self.balance < Request.value
  \/ Self.nonce >= NonceLimit

\* Also init code larger than the limit.
CreateFault ==
  /\ Creating
  /\ Fault
  /\ UNCHANGED <<world, parents>>

\* No child and no nonce: the creator only pays the charge.
CreateRefused(cost) ==
  /\ Creating
  /\ CreateAllowed(cost)
  /\ CreateImpossible
  /\ meter' = Charge(meter, CreatePrice(cost))
  /\ frame' = WithAction(frame, "Running")
  /\ UNCHANGED <<world, parents>>

\* The target is warmed and, when empty, paid for, before anything else.
CreateBirth(target) == IsEmpty(world.accounts[target])
CreateCharged(cost) == Charge(meter, CreatePrice(cost))

CreateStateFault(cost, target) ==
  /\ Creating
  /\ CreateAllowed(cost)
  /\ ~CreateImpossible
  /\ ~CanSpendBirth(CreateCharged(cost), CreateBirth(target))
  /\ Fault
  /\ world' = WarmAccount(world, target)
  /\ UNCHANGED parents

\* Mutant: the nonce is not spent before the snapshot.
CreateWorldUnspent(target) == WarmAccount(world, target)

\* The snapshot of a creation: the destination warm, the nonce spent.
CreateWorld(target) == IncrementNonce(WarmAccount(world, target), frame.address)

Collision(account) == account.nonce # 0 \/ account.code.len # 0

\* The account a creation starts from: its balance, and nothing stored.
NewContract(w, target) ==
  Modify(w, target,
         [w.accounts[target] EXCEPT !.storage = ZeroSlots, !.original = ZeroSlots,
                                    !.nonce = 1, !.exists = TRUE, !.created = TRUE])

CreationFrame(target, code) ==
  [address |-> target, caller |-> frame.address, value |-> Request.value,
   static |-> FALSE, depth |-> frame.depth + 1, code |-> code,
   action |-> Plain("Running"), output |-> NoCode]

CreateEnter(cost, target, code) ==
  LET birth    == CreateBirth(target)
      paid     == SpendBirth(CreateCharged(cost), birth)
      taken    == Cap(paid.gas)
      snapshot == CreateWorld(target)
      collided == Collision(snapshot.accounts[target])
      child    == CreationFrame(target, code)
  IN  /\ Creating
      /\ CreateAllowed(cost)
      /\ ~CreateImpossible
      /\ CanSpendBirth(CreateCharged(cost), birth)
      /\ Suspend(paid, taken, snapshot, TRUE, birth, target)
      /\ \/ /\ collided
            /\ frame' = WithAction(child, "Fault")
            /\ meter' = Exhaust(FreshMeter(taken, paid.reservoir))
            /\ world' = snapshot
         \/ /\ ~collided
            /\ frame' = child
            /\ meter' = FreshMeter(taken, paid.reservoir)
            /\ world' = Pay(NewContract(snapshot, target), frame.address, target,
                            Request.value)

----------------------------------------------------------------------------
(* SELFDESTRUCT.                                                           *)

Destroying == frame.action.op = "SelfDestruct"

\* An empty recipient is brought to life by the balance it receives.
Topup == Self.balance # 0 /\ IsEmpty(Target)

DestructPrice ==
  DestructBase + (IF Target.warm THEN 0 ELSE DestructCold)
               + (IF Topup THEN DestructTopup ELSE 0)

DestructAllowed ==
  /\ CanCharge(meter, DestructPrice)
  /\ CanSpendBirth(Charge(meter, DestructPrice), Topup)

DestructFault ==
  /\ Destroying
  /\ frame.static \/ ~DestructAllowed
  /\ Fault
  /\ world' = IF frame.static THEN world ELSE TargetWarmed
  /\ UNCHANGED parents

\* Mutant: any account may be put up for deletion.
MarkAny(w, a) == [w EXCEPT !.selfdestructs = <<a>> \o @]

\* Deletion waits for the end of the transaction, and only an account
\* created in it is deleted.
Mark(w, a) ==
  IF Self.created THEN [w EXCEPT !.selfdestructs = <<a>> \o @] ELSE w

Destruct ==
  LET moved == TransferLog(
                 MoveEther(TargetWarmed, frame.address, Request.target, Self.balance),
                 frame.address, Request.target, Self.balance)
  IN  /\ Destroying
      /\ ~frame.static
      /\ DestructAllowed
      /\ meter' = SpendBirth(Charge(meter, DestructPrice), Topup)
      /\ world' = Mark(moved, frame.address)
      /\ frame' = [WithAction(frame, "Stopped") EXCEPT !.output = NoCode]
      /\ UNCHANGED parents

----------------------------------------------------------------------------
(* The precompile host.  It is trusted to return no more gas than it got;  *)
(* a rejected input faults, a broken host stops the whole machine.         *)

Asking == frame.action.op = "Precompile"

HostReturns(gas) ==
  /\ Asking
  /\ gas <= meter.gas
  /\ frame' = WithAction(frame, "Returned")
  /\ meter' = [meter EXCEPT !.gas = gas]
  /\ UNCHANGED <<world, parents>>

HostRejects ==
  /\ Asking
  /\ Fault
  /\ UNCHANGED <<world, parents>>

HostBreaks ==
  /\ Asking
  /\ frame' = WithAction(frame, "HostLimit")
  /\ UNCHANGED <<meter, world, parents>>

----------------------------------------------------------------------------
(* Unwinding: the innermost parent resumes with the settled child.         *)

Succeeded == frame.action.op \in Successful

Ended == frame.action.op \in Terminal

Settled == Settle(meter, Succeeded, frame.action.op = "Reverted")

Waiting == Last(parents)

\* The parent adopts the child's world or gets its snapshot back.
Resume(child, succeeded, childWorld) ==
  LET merged == Merged(Waiting.meter, child, succeeded)
  IN  /\ meter' = RefillBirth(merged, Waiting.charged /\ ~succeeded)
      /\ world' = IF succeeded THEN childWorld ELSE Waiting.snapshot
      /\ frame' = Waiting.frame
      /\ parents' = Front(parents)

CallReturn ==
  /\ Ended
  /\ parents # <<>>
  /\ ~Waiting.creation
  /\ Resume(Settled, Succeeded, world)

\* The output of a successful creation is the code of the new contract, if
\* it is well formed and its deposit can be paid.
DepositWords(code) == CodeWord * ((code.len + 31) \div 32)

CanDeposit(code) ==
  LET hashed == Charge(meter, DepositWords(code))
  IN  /\ code.len <= CodeLimit
      /\ ~code.ef
      /\ CanCharge(meter, DepositWords(code))
      /\ CanSpendState(hashed, CodeByte * code.len)

Deposited(code) ==
  SpendState(Charge(meter, DepositWords(code)), CodeByte * code.len)

CreateReturn ==
  /\ Ended
  /\ parents # <<>>
  /\ Waiting.creation
  /\ \/ /\ Succeeded
        /\ CanDeposit(frame.output)
        /\ Resume(Deposited(frame.output), TRUE,
                  SetCode(world, Waiting.created, frame.output))
     \/ /\ Succeeded
        /\ ~CanDeposit(frame.output)
        /\ Resume(Settle(Exhaust(meter), FALSE, FALSE), FALSE, world)
     \/ /\ ~Succeeded
        /\ Resume(Settled, FALSE, world)

----------------------------------------------------------------------------
(* The machine.                                                            *)

\* The run loop of the host stops here.
Done == frame.action.op = "HostLimit" \/ (Ended /\ parents = <<>>)

Halt == Done /\ UNCHANGED vars

Init ==
  /\ \E gas \in InitGas, reservoir \in InitReservoir : meter = FreshMeter(gas, reservoir)
  /\ frame = [address |-> Entry, caller |-> Origin, value |-> 0, static |-> FALSE,
              depth |-> 0, code |-> Start.accounts[Entry].code,
              action |-> Plain(IF Entry \in Precompiles THEN "Precompile" ELSE "Running"),
              output |-> NoCode]
  /\ world = Start
  /\ parents = <<>>

Execute ==
  \/ Throw
  \/ Stop
  \/ \E cost \in ComputeCost : Compute(cost)
  \/ \E op \in {"Returned", "Reverted"}, output \in Output, cost \in MemoryCost :
       Exit(op, output, cost)
  \/ \E a \in Address, cost \in MemoryCost : Touch(a, cost)
  \/ \E k \in Key : Sload(k)
  \/ \E k \in Key, value \in Value : Sstore(k, value) \/ Tstore(k, value)
  \/ \E cost \in MemoryCost : Emit(cost)
  \/ \E kind \in CallKind, gas \in RequestGas, target \in Address, value \in Amount :
       AskCall(kind, gas, target, value)
  \/ \E value \in Amount : AskCreate(value)
  \/ \E target \in Address : AskSelfDestruct(target)

Serve ==
  \/ \E memory \in MemoryCost :
       CallFault(memory) \/ CallRefused(memory) \/ CallEnter(memory)
  \/ CreateFault
  \/ \E cost \in MemoryCost : CreateRefused(cost)
  \/ \E cost \in MemoryCost, target \in CreateTarget :
       \/ CreateStateFault(cost, target)
       \/ \E code \in InitCode : CreateEnter(cost, target, code)
  \/ DestructFault
  \/ Destruct
  \/ \E gas \in 0..meter.gas : HostReturns(gas)
  \/ HostRejects
  \/ HostBreaks

Unwind == CallReturn \/ CreateReturn

Next == Execute \/ Serve \/ Unwind \/ Halt

Spec == Init /\ [][Next]_vars

\* The run loop never pauses while there is a transition to take.
LiveSpec == Spec /\ WF_vars(Next)
=============================================================================
