------------------------------- MODULE World -------------------------------
(***************************************************************************)
(* The journaled world of full/world.bend: accounts with their storage and *)
(* transaction metadata, logs, the refund counter and the deferred         *)
(* deletions.  A snapshot is the value itself, so a rollback is an         *)
(* assignment.                                                             *)
(*                                                                         *)
(* The association list of accounts is a function on Address (an absent    *)
(* account reads as empty_account), the slot lists are functions on Key    *)
(* (an absent slot reads as zero).  Code is its length, whether it begins  *)
(* with byte 0xEF, and the account it delegates to.                        *)
(***************************************************************************)
EXTENDS Integers, Sequences, FiniteSets

CONSTANTS Address,          \* normalized 20-byte addresses
          NoAddress,        \* stands for "delegates to nobody"
          SystemAddress,    \* the emitter of transfer logs
          Key,              \* storage keys
          Value             \* storage values

ASSUME WorldAssumption ==
  /\ NoAddress \notin Address
  /\ SystemAddress \notin Address
  /\ Value \subseteq Nat
  /\ 0 \in Value

CodeSet == [len: Nat, ef: BOOLEAN, to: Address \cup {NoAddress}]

NoCode == [len |-> 0, ef |-> FALSE, to |-> NoAddress]

Delegated(code) == code.to # NoAddress

AccountSet ==
  [balance: Nat, nonce: Nat, code: CodeSet,
   storage: [Key -> Value], original: [Key -> Value], transient: [Key -> Value],
   warm: BOOLEAN, exists: BOOLEAN, created: BOOLEAN, slots: SUBSET Key]

LogSet == [address: Address \cup {SystemAddress}, topics: Seq(Address), data: Nat]

WorldSet ==
  [accounts: [Address -> AccountSet], logs: Seq(LogSet),
   refund: Int, selfdestructs: Seq(Address)]

ZeroSlots == [k \in Key |-> 0]

----------------------------------------------------------------------------
(* Accounts.                                                               *)

Put(w, a, account) == [w EXCEPT !.accounts[a] = account]

IsEmpty(account) ==
  account.balance = 0 /\ account.nonce = 0 /\ account.code.len = 0

\* An account modified into emptiness becomes a tombstone: it no longer
\* exists and has no storage, but keeps its transaction metadata.
Modified(account) ==
  IF IsEmpty(account)
  THEN [account EXCEPT !.code = NoCode, !.storage = ZeroSlots, !.exists = FALSE]
  ELSE [account EXCEPT !.exists = TRUE]

Modify(w, a, account) == Put(w, a, Modified(account))

\* Adds delta to a balance, deleting the account if that empties it.
Credit(w, a, delta) ==
  Modify(w, a, [w.accounts[a] EXCEPT !.balance = @ + delta])

\* Mutant: the recipient is read before the sender is debited.
MoveEtherStale(w, source, target, value) ==
  Modify(Credit(w, source, -value), target,
         [w.accounts[target] EXCEPT !.balance = @ + value])

MoveEther(w, source, target, value) ==
  Credit(Credit(w, source, -value), target, value)

\* A zero transfer touches nothing.
Transfer(w, source, target, value) ==
  IF value = 0 THEN w ELSE MoveEther(w, source, target, value)

WarmAccount(w, a) == [w EXCEPT !.accounts[a].warm = TRUE]

IncrementNonce(w, a) ==
  Modify(w, a, [w.accounts[a] EXCEPT !.nonce = @ + 1])

SetCode(w, a, code) == Modify(w, a, [w.accounts[a] EXCEPT !.code = code])

----------------------------------------------------------------------------
(* Storage, refund counter, logs.                                          *)

WarmStorage(w, a, k) == [w EXCEPT !.accounts[a].slots = @ \cup {k}]

SetStorage(w, a, k, v) == [w EXCEPT !.accounts[a].storage[k] = v]

SetTransient(w, a, k, v) == [w EXCEPT !.accounts[a].transient[k] = v]

AddRefund(w, delta) == [w EXCEPT !.refund = @ + delta]

Log(w, event) == [w EXCEPT !.logs = Append(@, event)]

\* Mutant: the log's topics are swapped.
TransferLogSwapped(w, source, target, value) ==
  IF value = 0 \/ source = target
  THEN w
  ELSE Log(w, [address |-> SystemAddress, topics |-> <<target, source>>,
               data |-> value])

\* The log an ether transfer leaves (EIP-7708), none for zero or for self.
TransferLog(w, source, target, value) ==
  IF value = 0 \/ source = target
  THEN w
  ELSE Log(w, [address |-> SystemAddress, topics |-> <<source, target>>,
               data |-> value])
=============================================================================
