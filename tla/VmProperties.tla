---------------------------- MODULE VmProperties ----------------------------
(***************************************************************************)
(* What the call machine must keep true, whatever program it runs.         *)
(***************************************************************************)
EXTENDS Vm

\* The meter of the frame that parents[i] waits for.
ChildMeter(i) == IF i = Len(parents) THEN meter ELSE parents[i + 1].meter

ChildFrameOf(i) == IF i = Len(parents) THEN frame ELSE parents[i + 1].frame

Journals == {world} \cup {parents[i].snapshot : i \in DOMAIN parents}

----------------------------------------------------------------------------
(* Gas.                                                                    *)

\* At every moment of every nesting, what a frame's rollback would compute
\* (full/gas.bend:82) is the reservoir the frame was entered with, never
\* negative, whatever its children spent, spilled, refilled or gave back.
ReservoirBaseline ==
  /\ Baseline(meter)
  /\ \A i \in DOMAIN parents : BaselineLink(parents[i].meter, ChildMeter(i))

\* No frame ends with more execution gas than it was granted: the stipend of
\* a value call, the refund of a refused call and the repair of spilled
\* state gas are all paid for (full/call-enter.bend:52, full/gas.bend:103).
NoGasMinted ==
  /\ WithinGrant(meter)
  /\ \A i \in DOMAIN parents : GrantLink(parents[i].meter, ChildMeter(i))

\* A running frame never holds a reservoir while execution gas it paid for
\* state is still outstanding: refills and returning children repair the
\* spill first (full/gas.bend:52-62, 102-106).
SpillRepaired == SpillsLast(meter)

\* Slots this transaction filled, accounts it brought to life, code it added.
FilledSlots ==
  {s \in Address \X Key : /\ world.accounts[s[1]].original[s[2]] = 0
                          /\ world.accounts[s[1]].storage[s[2]] # 0}

Born == {a \in Address : IsEmpty(Start.accounts[a]) /\ ~IsEmpty(world.accounts[a])}

CodeGrowth ==
  SumFunction([a \in Address |-> world.accounts[a].code.len - Start.accounts[a].code.len])

NetStateGas ==
  meter.used + SumFunction([i \in DOMAIN parents |-> parents[i].meter.used])

\* The net state gas of all live frames is the price of the state there is:
\* a slot is paid once however often it is written and by whichever frame,
\* and a failed call or creation has paid for nothing
\* (full/state-ops.bend:127-134, full/call-finish.bend:36-42).
StateGasMatchesState ==
  NetStateGas = SlotState * Cardinality(FilledSlots)
                + NewAccount * Cardinality(Born)
                + CodeByte * CodeGrowth

\* The refund counter is never negative: a clearing refund is taken back only
\* where it was given (full/state-ops.bend:113-125).
RefundNonNegative == \A w \in Journals : w.refund >= 0

----------------------------------------------------------------------------
(* State.                                                                  *)

Ether(w) == SumFunction([a \in Address |-> w.accounts[a].balance])

\* Ether is neither made nor lost by calls, creations, self-destructs and
\* rollbacks, in the current journal and in every snapshot.
EtherConserved == \A w \in Journals : Ether(w) = Ether(Start)

\* The ether that transfer logs move from (topic 1) or to (topic 2) an account.
Sent(w, topic, a) ==
  LET Moves(event) == event.address = SystemAddress /\ event.topics[topic] = a
  IN  SumFunction([i \in DOMAIN w.logs |->
                     IF Moves(w.logs[i]) THEN w.logs[i].data ELSE 0])

\* The transfer logs explain every balance: replaying them over the starting
\* balances gives the journal's (full/call-common.bend:61-68).
LogsExplainBalances ==
  \A w \in Journals, a \in Address :
    w.accounts[a].balance =
      Start.accounts[a].balance + Sent(w, 2, a) - Sent(w, 1, a)

\* What outlives the transaction, with the transient storage and logs that a
\* static frame may not write either.
Persistent(w) ==
  [accounts |-> [a \in Address |->
     [balance |-> w.accounts[a].balance, nonce |-> w.accounts[a].nonce,
      code |-> w.accounts[a].code, storage |-> w.accounts[a].storage,
      transient |-> w.accounts[a].transient]],
   logs |-> w.logs, selfdestructs |-> w.selfdestructs]

\* Nothing a static frame or any frame below it does changes the state its
\* caller sees (full/call-enter.bend:60 hands the flag down).
StaticIsReadOnly ==
  \A i \in DOMAIN parents :
    ChildFrameOf(i).static =>
      \A j \in i..Len(parents) :
        LET later == IF j = Len(parents) THEN world ELSE parents[j + 1].snapshot
        IN  Persistent(later) = Persistent(parents[i].snapshot)

\* A contract that existed before the transaction keeps its code and its
\* nonce never falls, and only contracts of this transaction are up for
\* deletion (full/create-enter.bend:12, full/call-selfdestruct.bend:9).
ExistingContractsSurvive ==
  \A w \in Journals, a \in Address :
    Start.accounts[a].code.len > 0 =>
      /\ w.accounts[a].code = Start.accounts[a].code
      /\ w.accounts[a].nonce >= Start.accounts[a].nonce
      /\ w.accounts[a].original = Start.accounts[a].original
      /\ a \notin ToSet(w.selfdestructs)

\* Whatever differs from the start was accessed, and its cold access paid:
\* a changed account is warm and so is a changed slot (EIP-2929).
ChangedIsWarm ==
  \A w \in Journals, a \in Address :
    LET now == w.accounts[a]  before == Start.accounts[a]
    IN  /\ <<now.balance, now.nonce, now.code>>
             # <<before.balance, before.nonce, before.code>> => now.warm
        /\ \A k \in Key : /\ now.storage[k] # before.storage[k]
                          /\ ~now.created
                          => k \in now.slots

----------------------------------------------------------------------------
(* The machine implements nested transactions on a ledger.                 *)

LedgerOf(w) ==
  [a \in Address |->
     [balance |-> w.accounts[a].balance, nonce |-> w.accounts[a].nonce,
      code |-> w.accounts[a].code, storage |-> w.accounts[a].storage]]

Nested == INSTANCE Ledger WITH
  Genesis <- LedgerOf(Start),
  ledger  <- LedgerOf(world),
  pending <- [i \in DOMAIN parents |-> LedgerOf(parents[i].snapshot)]

\* Calls and creations are atomic: a child's effects are kept whole or undone
\* whole, except for the creator's nonce (full/call-finish.bend:19-22,
\* full/create-enter.bend:38-41).
ImplementsLedger == Nested!Spec

\* The machine stops, whatever the program: every transition consumes gas or
\* is one of the boundedly many that follow one that did.
Termination == <>Done

----------------------------------------------------------------------------
(* What a transaction starts from: hypotheses of the theorems.  All but    *)
(* the tidiness of the accounts hold of every world that                   *)
(* full/transaction-world.bend prepares; that is up to the chain's state.  *)

Contracts == {a \in Address : Start.accounts[a].code.len > 0}

\* No contract begins as created by this transaction or up for deletion.
FreshStart ==
  \A a \in Contracts :
    ~Start.accounts[a].created /\ a \notin ToSet(Start.selfdestructs)

\* No remains of a code, and none of a contract.
Clean(account) ==
  /\ account.code.len = 0 => account.code = NoCode
  /\ account.nonce = 0 /\ account.code.len = 0 => account.storage = ZeroSlots

Tidy(l) == \A x \in Address : Clean(l[x])

\* What a frame returns when it returns nothing is the empty code, and what
\* reads as a delegation begins with byte 0xEF.
Canonical(code) ==
  /\ code.len = 0 => code = NoCode
  /\ Delegated(code) => code.ef

\* The world begins tidy, and frames return bytes.
TidyStart ==
  /\ Tidy(LedgerOf(Start))
  /\ \A code \in Output : Canonical(code)

\* A journal begins with no logs and no refund, the storage of every account
\* as it was, and the callee warm.
FreshJournal ==
  /\ Start.logs = <<>>
  /\ Start.refund = 0
  /\ \A x \in Address : Start.accounts[x].original = Start.accounts[x].storage
  /\ Start.accounts[Entry].warm
=============================================================================
