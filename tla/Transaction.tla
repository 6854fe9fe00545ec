----------------------------- MODULE Transaction -----------------------------
(***************************************************************************)
(* One transaction around the call machine: full/transaction.bend,         *)
(* transaction-auth.bend, transaction-finish.bend and the wide-gas entry   *)
(* point full/transaction-wide.bend.                                       *)
(*                                                                         *)
(* The sender pays for all the gas and spends a nonce, the authorizations  *)
(* are applied one by one, the message is dispatched, the machine runs,    *)
(* and the outcome is settled.  Calldata and access list count through     *)
(* what they cost and what they warm.                                      *)
(***************************************************************************)
EXTENDS VmProperties

CONSTANTS
  Coinbase,
  Recipient,        \* accounts a message may be sent to
  TxGas,            \* gas limits
  IntrinsicCost,    \* records [execution, floor]
  AccessLists,      \* sets of pairs of an account and a slot
  AuthLists,        \* sequences of authorizations
  GasPrice, Priority,
  GrantLimit,       \* 2^24
  Window,           \* 2^44
  Indicator,        \* 35190, state gas
  AuthWrite,        \* 9000
  RefundQuotient    \* 5

Authorization ==
  [valid: BOOLEAN,      \* chain, nonce bound and signature
   authority: Address, address: Address \cup {NoAddress}, nonce: Nat]

ASSUME TransactionAssumption ==
  /\ Coinbase \in Address /\ Recipient \subseteq Address
  /\ TxGas \subseteq Nat /\ IntrinsicCost \subseteq [execution: Nat, floor: Nat]
  /\ AccessLists \subseteq SUBSET (Address \X Key)
  /\ AuthLists \subseteq Seq(Authorization)
  /\ {GasPrice, Priority, GrantLimit, Window, Indicator, AuthWrite, RefundQuotient}
       \subseteq Nat
  /\ Priority <= GasPrice /\ RefundQuotient > 0 /\ GrantLimit <= Window

VARIABLES
  tx,           \* the accepted transaction
  phase,        \* "Authorizing", "Running", "Completed" or "Incomplete"
  auths,        \* authorizations not yet processed
  written,      \* paid_writes
  designated,   \* designation_set
  before,       \* the world with the nonce spent and the gas paid
  snapshot,     \* the world a failed message returns to
  committed,    \* state gas of the authorizations
  receipt       \* the settlement

book == <<tx, auths, written, designated, before, snapshot, committed, receipt>>

tvars == <<vars, phase, book>>

----------------------------------------------------------------------------
(* Preparation.                                                            *)

\* The gas the machine deals with; the rest stays in escrow.
Proxy(t) == Least(t.gas, Window)
EscrowOf(t) == t.gas - Proxy(t)

Grant(t) == Least(GrantLimit, Proxy(t)) - t.cost.execution
EntryReservoir(t) == Proxy(t) - t.cost.execution - Grant(t)

\* No annotation of an earlier transaction survives.
Reset(w) ==
  [accounts |-> [x \in Address |->
     [w.accounts[x] EXCEPT !.original = w.accounts[x].storage, !.transient = ZeroSlots,
                           !.warm = FALSE, !.created = FALSE, !.slots = {}]],
   logs |-> <<>>, refund |-> 0, selfdestructs |-> <<>>]

Debit(w, x, amount) ==
  Modify(w, x, [w.accounts[x] EXCEPT !.balance = @ - amount])

\* What validation asks of a transaction, of those parts modelled here.
Valid(t) ==
  LET sender == Start.accounts[Origin]
  IN  /\ t.gas >= t.cost.execution /\ t.gas >= t.cost.floor
      /\ t.cost.execution <= GrantLimit /\ t.cost.floor <= GrantLimit
      /\ sender.balance >= t.gas * GasPrice + t.value
      /\ sender.nonce < NonceLimit
      /\ sender.code = NoCode \/ Delegated(sender.code)

Message(address, value) ==
  [address |-> address, caller |-> Origin, value |-> value, static |-> FALSE,
   depth |-> 0, code |-> NoCode, action |-> Plain("Running"), output |-> NoCode]

TxInit ==
  /\ \E create \in BOOLEAN, to \in Recipient \cup CreateTarget, gas \in TxGas,
        value \in Amount, code \in InitCode, cost \in IntrinsicCost,
        access \in AccessLists, list \in AuthLists :
       /\ create => to \in CreateTarget /\ list = <<>>
       /\ ~create => to \in Recipient
       /\ tx = [create |-> create, to |-> to, gas |-> gas, value |-> value,
                code |-> code, cost |-> cost, access |-> access]
       /\ auths = list
  /\ Valid(tx)
  /\ before = Debit(IncrementNonce(Reset(Start), Origin), Origin, Proxy(tx) * GasPrice)
  /\ world = before
  /\ snapshot = before
  /\ meter = FreshMeter(Grant(tx), EntryReservoir(tx))
  /\ frame = Message(tx.to, tx.value)
  /\ parents = <<>>
  /\ phase = "Authorizing"
  /\ written = {Origin} \cup (IF tx.create \/ tx.value # 0 THEN {tx.to} ELSE {})
  /\ designated = {}
  /\ committed = [used |-> 0, spilled |-> 0]
  /\ receipt = <<>>

Failing == frame.action.op = "Fault"

\* The code an authorization installs, or none.
Designation(auth) ==
  IF auth.address = NoAddress
  THEN NoCode
  ELSE [len |-> 23, ef |-> TRUE, to |-> auth.address]

\* One authorization: skipped, charged and applied, or the end of preparation.
Authorize ==
  LET auth      == Head(auths)
      warmed    == WarmAccount(world, auth.authority)
      authority == warmed.accounts[auth.authority]
      applies   == /\ auth.valid
                   /\ authority.code = NoCode \/ Delegated(authority.code)
                   /\ authority.nonce = auth.nonce
      birth     == ~authority.exists
      price     == IF auth.authority \in written THEN 0 ELSE AuthWrite
      indicates == /\ auth.address # NoAddress
                   /\ ~Delegated(Start.accounts[auth.authority].code)
                   /\ auth.authority \notin designated
      born      == SpendBirth(meter, birth)
      paid      == Charge(born, price)
      enough    == /\ CanSpendBirth(meter, birth)
                   /\ CanCharge(born, price)
                   /\ indicates => CanSpendState(paid, Indicator)
  IN  /\ phase = "Authorizing" /\ auths # <<>> /\ ~Failing
      /\ auths' = Tail(auths)
      /\ \/ /\ ~applies
            /\ world' = IF auth.valid THEN warmed ELSE world
            /\ UNCHANGED <<frame, meter, written, designated>>
         \/ /\ applies /\ enough
            /\ meter' = IF indicates THEN SpendState(paid, Indicator) ELSE paid
            /\ world' = Modify(warmed, auth.authority,
                          [authority EXCEPT !.code = Designation(auth), !.nonce = @ + 1])
            /\ written' = written \cup {auth.authority}
            /\ designated' = IF auth.address = NoAddress THEN designated
                             ELSE designated \cup {auth.authority}
            /\ UNCHANGED frame
         \/ /\ applies /\ ~enough
            /\ world' = warmed
            /\ frame' = FaultFrame
            /\ meter' = Exhaust(IF ~CanSpendBirth(meter, birth) THEN meter
                               ELSE IF ~CanCharge(born, price) THEN born ELSE paid)
            /\ UNCHANGED <<written, designated>>
      /\ UNCHANGED <<parents, phase, tx, before, snapshot, committed, receipt>>

\* Sender, recipient, coinbase, precompiles and the access list.
Warmed(w) ==
  LET accounts == {Origin, tx.to, Coinbase} \cup Precompiles \cup {s[1] : s \in tx.access}
  IN  [w EXCEPT !.accounts = [x \in Address |->
        [w.accounts[x] EXCEPT !.warm  = @ \/ x \in accounts,
                              !.slots = @ \cup {k \in Key : <<x, k>> \in tx.access}]]]

Dispatched == Warmed(world)
Callee     == Dispatched.accounts[tx.to]
Delegating == ~tx.create /\ Delegated(Callee.code)

DispatchBirth ==
  IF tx.create THEN IsEmpty(Start.accounts[tx.to]) ELSE tx.value # 0 /\ IsEmpty(Callee)

DispatchPrice ==
  IF Delegating THEN AccountAccess(Dispatched.accounts[Callee.code.to]) ELSE 0

\* Mutant: the counters of the authorizations stay in the engine's meter.
CommittedMeterKept == [meter EXCEPT !.grant = meter.gas]

\* The authorizations are settled: what they paid is out of a rollback's reach.
CommittedMeter == FreshMeter(meter.gas, meter.reservoir)

CanDispatch ==
  /\ ~Failing
  /\ tx.create => ~Collision(Callee)
  /\ CanSpendBirth(CommittedMeter, DispatchBirth)
  /\ CanCharge(SpendBirth(CommittedMeter, DispatchBirth), DispatchPrice)

EscrowPaid(w) == Debit(w, Origin, EscrowOf(tx) * GasPrice)

Preparing == phase = "Authorizing" /\ (auths = <<>> \/ Failing)

\* Mutant: the authorizations outlive a failed dispatch.
UndispatchedWorldKept == EscrowPaid(world)

\* A failed dispatch undoes the authorizations too.
UndispatchedWorld == EscrowPaid(before)

DispatchFails ==
  /\ Preparing
  /\ ~CanDispatch
  /\ frame' = FaultFrame
  /\ meter' = FreshMeter(0, EntryReservoir(tx))
  /\ world' = UndispatchedWorld
  /\ snapshot' = UndispatchedWorld
  /\ phase' = "Running"
  /\ UNCHANGED <<parents, tx, auths, written, designated, before, committed, receipt>>

Dispatch ==
  LET warmed  == IF Delegating THEN WarmAccount(Dispatched, Callee.code.to) ELSE Dispatched
      started == IF tx.create THEN NewContract(warmed, tx.to) ELSE warmed
      code    == CASE tx.create -> tx.code
                   [] Delegating -> IF Callee.code.to \in Precompiles THEN NoCode
                                    ELSE Dispatched.accounts[Callee.code.to].code
                   [] OTHER -> Callee.code
      asks    == ~tx.create /\ ~Delegating /\ tx.to \in Precompiles
  IN  /\ Preparing
      /\ CanDispatch
      /\ frame' = [frame EXCEPT !.code = code,
                                !.action = Plain(IF asks THEN "Precompile" ELSE "Running")]
      /\ meter' = Charge(SpendBirth(CommittedMeter, DispatchBirth), DispatchPrice)
      /\ snapshot' = EscrowPaid(warmed)
      /\ world' = EscrowPaid(Pay(started, Origin, tx.to, tx.value))
      /\ committed' = [used |-> meter.used, spilled |-> meter.spilled]
      /\ phase' = "Running"
      /\ UNCHANGED <<parents, tx, auths, written, designated, before, receipt>>

Run ==
  /\ phase = "Running"
  /\ ~Done
  /\ Execute \/ Serve \/ Unwind
  /\ UNCHANGED <<phase, book>>

----------------------------------------------------------------------------
(* Settlement.                                                             *)

Completes == Succeeded /\ (tx.create => CanDeposit(frame.output))

\* The outermost frame's meter and world, deposited or rolled back.
FinalMeter ==
  CASE Completes /\ tx.create  -> Deposited(frame.output)
    [] Completes /\ ~tx.create -> meter
    [] ~Succeeded              -> Settled
    [] OTHER                   -> Settle(Exhaust(meter), FALSE, FALSE)

\* Mutant: the gas of a failed message is rolled back, its world is not.
FinalWorldKept ==
  CASE Completes /\ tx.create -> SetCode(world, tx.to, frame.output)
    [] OTHER                  -> world

FinalWorld ==
  CASE Completes /\ tx.create  -> SetCode(world, tx.to, frame.output)
    [] Completes /\ ~tx.create -> world
    [] OTHER                   -> [snapshot EXCEPT !.refund = 0]

\* A negative counter counts as zero.
Positive(word) == IF word < 0 THEN 0 ELSE word

\* Mutant: the refund is not capped.
ChargedUncapped(used, refund) ==
  IF used - refund < tx.cost.floor THEN tx.cost.floor ELSE used - refund

\* Gas charged for used gas: a fifth of it may be refunded, down to the floor.
Charged(used, refund) ==
  LET capped == Least(refund, used \div RefundQuotient)
  IN  IF used - capped < tx.cost.floor THEN tx.cost.floor ELSE used - capped

Settlement ==
  LET used  == tx.gas - FinalMeter.gas - FinalMeter.reservoir - EscrowOf(tx)
      fee   == Charged(used, Positive(FinalWorld.refund))
      state == Positive(FinalMeter.used + committed.used)
  IN  [success |-> Completes, before |-> used, used |-> fee, left |-> tx.gas - fee,
       execution |-> IF used - state < tx.cost.floor THEN tx.cost.floor ELSE used - state,
       state |-> state]

\* Mutant: a deleted account loses the balance it received last.
DestroyBurns(w) ==
  [w EXCEPT !.accounts = [x \in Address |->
     IF x \in ToSet(w.selfdestructs)
     THEN Modified([w.accounts[x] EXCEPT !.nonce = 0, !.code = NoCode,
                                         !.storage = ZeroSlots, !.balance = 0])
     ELSE w.accounts[x]]]

\* Scheduled accounts are cleared; what was paid to them stays.
Destroy(w) ==
  [w EXCEPT !.accounts = [x \in Address |->
     IF x \in ToSet(w.selfdestructs)
     THEN Modified([w.accounts[x] EXCEPT !.nonce = 0, !.code = NoCode,
                                         !.storage = ZeroSlots])
     ELSE w.accounts[x]]]

PayFees(w, r) ==
  Destroy(Credit(Credit(w, Origin, r.left * GasPrice), Coinbase, r.used * Priority))

Finish ==
  /\ phase = "Running"
  /\ Ended /\ parents = <<>>
  /\ receipt' = Settlement
  /\ world' = PayFees(FinalWorld, Settlement)
  /\ meter' = [FinalMeter EXCEPT !.used = @ + committed.used,
                                 !.spilled = @ + committed.spilled]
  /\ frame' = IF Succeeded /\ ~Completes THEN FaultFrame ELSE frame
  /\ phase' = "Completed"
  /\ UNCHANGED <<parents, tx, auths, written, designated, before, snapshot, committed>>

\* The host gave up (when its run loop does is Runtime's): nothing is settled.
Abandon ==
  /\ phase = "Running"
  /\ frame.action.op = "HostLimit"
  /\ phase' = "Incomplete"
  /\ UNCHANGED <<vars, book>>

TxHalt == phase \in {"Completed", "Incomplete"} /\ UNCHANGED tvars

TxNext == Authorize \/ DispatchFails \/ Dispatch \/ Run \/ Finish \/ Abandon \/ TxHalt

TxSpec == TxInit /\ [][TxNext]_tvars

----------------------------------------------------------------------------
(* What a transaction must keep true.                                      *)

Completed == phase = "Completed"

\* The sender is charged for the gas used and not a wei more or less: before
\* settlement the ether missing is the price of all the gas, in every world a
\* rollback can return to; after it, what the used gas burnt.  A deleted
\* account keeps what it was paid (full/transaction-wide.bend:84-91, 114-118,
\* full/transaction-finish.bend:49-57).
EtherSettled ==
  /\ phase = "Authorizing" =>
       Ether(world) + Proxy(tx) * GasPrice = Ether(Start)
  /\ phase = "Running" =>
       \A w \in Journals \cup {snapshot} :
         Ether(w) + tx.gas * GasPrice = Ether(Start)
  /\ Completed =>
       Ether(world) + receipt.used * (GasPrice - Priority) = Ether(Start)

\* The charge lies between the floor and the limit, and no more than its
\* share of the gas is refunded (full/transaction-wide.bend:104-109).
ChargeBounded ==
  Completed =>
    /\ tx.cost.floor <= receipt.used /\ receipt.used <= tx.gas
    /\ receipt.used >= receipt.before - receipt.before \div RefundQuotient

\* Execution and state gas add up to the gas used: no rollback gives back
\* what the intrinsic cost and the authorizations took, and nothing is
\* reported twice (full/transaction.bend:115-117, full/transaction-wide.bend:
\* 110-112, 123-126).
GasAccounted ==
  Completed =>
    /\ receipt.before <= tx.gas
    /\ receipt.before >= tx.cost.execution + receipt.state

Changed(a, x) == world.accounts[x][a] # Start.accounts[x][a]

\* State there is now and was not before: slots, accounts, bytes of code and
\* designations.  Fees bring their recipient to life for nothing.
NewSlots ==
  {s \in Address \X Key : /\ Start.accounts[s[1]].storage[s[2]] = 0
                          /\ world.accounts[s[1]].storage[s[2]] # 0}

NewDesignations ==
  {x \in Address : /\ Delegated(world.accounts[x].code)
                   /\ ~Delegated(Start.accounts[x].code)}

NewCode ==
  SumFunction([x \in Address |->
    IF Delegated(world.accounts[x].code) THEN 0
    ELSE LET growth == world.accounts[x].code.len - Start.accounts[x].code.len
         IN  IF growth > 0 THEN growth ELSE 0])

\* No account of the state is empty and exists (EIP-161), and the sender is
\* not empty: it has spent a nonce or has ether.
PrunedStart ==
  /\ \A x \in Address : IsEmpty(Start.accounts[x]) => ~Start.accounts[x].exists
  /\ ~IsEmpty(Start.accounts[Origin])

\* All the state a transaction leaves behind is in the state gas it reports,
\* whether an authorization, the dispatch, the program or the deposit of the
\* code made it, and whatever was rolled back in between
\* (full/transaction-finish.bend:86, full/transaction-auth.bend:64-96).
StatePaid ==
  Completed =>
    receipt.state >= SlotState * Cardinality(NewSlots)
                     + NewAccount * Cardinality(Born \ {Coinbase})
                     + CodeByte * NewCode
                     + Indicator * Cardinality(NewDesignations)

\* A failed transaction leaves its fees, the sender's nonce and the
\* authorizations it was charged for; no transfer, creation, write, log or
\* deletion survives (full/transaction-finish.bend:64-69,
\* full/transaction.bend:61-70).
FailureLeavesOnlyFees ==
  Completed /\ ~receipt.success =>
    /\ world.logs = <<>> /\ world.selfdestructs = <<>>
    /\ Changed("nonce", Origin)
    /\ \A x \in Address :
         /\ ~Changed("storage", x)
         /\ Changed("balance", x) => x \in {Origin, Coinbase}
         /\ Changed("code", x) => x \in written
         /\ Changed("nonce", x) => x = Origin \/ x \in written
=============================================================================
