-------------------------- MODULE TransactionProofs --------------------------
(***************************************************************************)
(* What a whole transaction charges, keeps and leaves behind, for every    *)
(* list of authorizations, message, program, price and state.              *)
(*                                                                         *)
(* Until it runs, a transaction has taken from the sender the price of its *)
(* gas and changed nothing else but nonces and codes of accounts that it   *)
(* has written down.  While it runs, the machine is the call machine, so   *)
(* what is proved of every step of it holds here too: the ledgers are      *)
(* worth the same, and no meter gains gas.  The end adds up.               *)
(*                                                                         *)
(* The message also keeps the books of what it made of the world it found, *)
(* so what it hands back and what was spent before it are what was bought; *)
(* and all the state the transaction leaves is on the bill of its          *)
(* authorizations or in the price of the message's journal.                *)
(***************************************************************************)
EXTENDS Transaction, JournalProofs

----------------------------------------------------------------------------
(* The constants and the gas a transaction is split into.                  *)

\* Prices and limits are natural numbers.
LEMMA LimitsNat ==
  /\ GasPrice \in Nat /\ Priority \in Nat /\ Priority <= GasPrice
  /\ GrantLimit \in Nat /\ Window \in Nat /\ GrantLimit <= Window
  /\ Indicator \in Nat /\ AuthWrite \in Nat /\ RefundQuotient \in Nat \ {0}
  /\ Coinbase \in Address /\ Origin \in Address /\ NoAddress \notin Address
  BY TransactionAssumption, ProgramAssumption, WorldAssumption

Transactions ==
  [create: BOOLEAN, to: Address, gas: Nat, value: Nat, code: CodeSet,
   cost: [execution: Nat, floor: Nat], access: SUBSET (Address \X Key)]

\* transaction-wide.bend:25-51.  Gas is split without remainder, and what is
\* left of the intrinsic cost is no less than nothing.
LEMMA GasSplit ==
  ASSUME NEW t \in Transactions, Valid(t)
  PROVE  /\ Proxy(t) \in Nat /\ EscrowOf(t) \in Nat /\ Proxy(t) + EscrowOf(t) = t.gas
         /\ Grant(t) \in Nat /\ EntryReservoir(t) \in Nat
         /\ Grant(t) + EntryReservoir(t) + t.cost.execution = Proxy(t)
         /\ t.cost.floor <= t.gas /\ t.gas \in Nat /\ t.cost.floor \in Nat
         /\ t.cost.execution \in Nat
         /\ Proxy(t) * GasPrice + EscrowOf(t) * GasPrice = t.gas * GasPrice
<1>1. /\ t.gas \in Nat /\ t.cost.execution \in Nat /\ t.cost.floor \in Nat
      /\ t.gas >= t.cost.execution /\ t.gas >= t.cost.floor
      /\ t.cost.execution <= GrantLimit
  BY DEF Transactions, Valid
<1>2. /\ Proxy(t) \in Nat /\ EscrowOf(t) \in Nat /\ Proxy(t) + EscrowOf(t) = t.gas
      /\ Grant(t) \in Nat /\ EntryReservoir(t) \in Nat
      /\ Grant(t) + EntryReservoir(t) + t.cost.execution = Proxy(t)
  BY <1>1, LimitsNat DEF Proxy, EscrowOf, Grant, EntryReservoir, Least
<1>3. \A p, e \in Nat : p * GasPrice + e * GasPrice = (p + e) * GasPrice
  BY LimitsNat
<1>4. Proxy(t) * GasPrice + EscrowOf(t) * GasPrice = t.gas * GasPrice
  BY <1>2, <1>3
<1> QED
  BY <1>1, <1>2, <1>4

----------------------------------------------------------------------------
(* Operations on worlds.                                                   *)

\* world.bend:34-56.  Putting an account leaves the rest of the journal.
LEMMA PutAside ==
  ASSUME NEW w \in WorldSet, NEW x \in Address, NEW account
  PROVE  /\ Put(w, x, account).logs = w.logs
         /\ Put(w, x, account).selfdestructs = w.selfdestructs
         /\ Put(w, x, account).refund = w.refund
  BY DEF Put, WorldSet

\* world.bend:55-56.  So does modifying one.
LEMMA ModifyAside ==
  ASSUME NEW w \in WorldSet, NEW x \in Address, NEW account
  PROVE  /\ Modify(w, x, account).logs = w.logs
         /\ Modify(w, x, account).selfdestructs = w.selfdestructs
  BY PutAside DEF Modify

\* world.bend:58-63.  And a credit.
LEMMA CreditAside ==
  ASSUME NEW w \in WorldSet, NEW x \in Address, NEW delta
  PROVE  /\ Credit(w, x, delta).logs = w.logs
         /\ Credit(w, x, delta).selfdestructs = w.selfdestructs
  BY ModifyAside DEF Credit

\* transaction-wide.bend:79-91.  A debit is a negative credit.
LEMMA DebitIsCredit ==
  ASSUME NEW w \in WorldSet, NEW x \in Address, NEW amount \in Nat
  PROVE  Debit(w, x, amount) = Credit(w, x, -amount)
<1>1. w.accounts[x].balance \in Nat
  BY DEF WorldSet, AccountSet
<1>2. w.accounts[x].balance - amount = w.accounts[x].balance + (-amount)
  BY <1>1
<1> QED
  BY <1>2 DEF Debit, Credit

\* The ether of two worlds, of which one has more in one account.
LEMMA EtherOfOne ==
  ASSUME IsFiniteSet(Address), NEW v \in WorldSet, NEW w \in WorldSet, NEW x \in Address,
         NEW d \in Int, w.accounts[x].balance = v.accounts[x].balance + d,
         \A y \in Address \ {x} : w.accounts[y].balance = v.accounts[y].balance
  PROVE  Ether(w) = Ether(v) + d /\ Ether(v) \in Int
<1> DEFINE f == [y \in Address |-> v.accounts[y].balance]
           g == [y \in Address |-> w.accounts[y].balance]
<1>1. \A y \in Address : v.accounts[y].balance \in Int /\ w.accounts[y].balance \in Int
  BY DEF WorldSet, AccountSet
<1>2. f \in [Address -> Int] /\ g \in [Address -> Int]
  BY <1>1
<1>3. g[x] = f[x] + d /\ \A y \in Address \ {x} : g[y] = f[y]
  OBVIOUS
<1>4. Ether(w) = SumFunction(g) /\ Ether(v) = SumFunction(f)
  BY DEF Ether
<1> HIDE DEF f, g
<1>5. SumFunction(g) = SumFunction(f) + d /\ SumFunction(f) \in Int
  BY <1>2, <1>3, SumOfChanged
<1> QED
  BY <1>4, <1>5

\* Worlds with the same balances hold the same ether.
LEMMA SameEther ==
  ASSUME NEW v, NEW w, \A x \in Address : w.accounts[x].balance = v.accounts[x].balance
  PROVE  Ether(w) = Ether(v)
  BY DEF Ether

\* world.bend:60-63.  A credit adds to the ether what it adds to a balance.
LEMMA EtherOfCredit ==
  ASSUME IsFiniteSet(Address), NEW w \in WorldSet, NEW x \in Address, NEW d \in Int,
         w.accounts[x].balance + d \in Nat
  PROVE  Ether(Credit(w, x, d)) = Ether(w) + d /\ Ether(w) \in Int
<1> DEFINE v == Credit(w, x, d)
<1>1. /\ v \in WorldSet /\ v.accounts[x].balance = w.accounts[x].balance + d
      /\ \A y \in Address \ {x} : v.accounts[y] = w.accounts[y]
  BY CreditType
<1> HIDE DEF v
<1>2. Ether(v) = Ether(w) + d /\ Ether(w) \in Int
  BY <1>1, EtherOfOne
<1> QED
  BY <1>2 DEF v

\* call-common.bend:58-68.  A payer has no less than what it had and did not
\* pay, and what is paid is not lost.
LEMMA PayBalance ==
  ASSUME NEW w \in WorldSet, NEW x \in Address, NEW y \in Address,
         NEW value \in Nat, value <= w.accounts[x].balance
  PROVE  Pay(w, x, y, value).accounts[x].balance >= w.accounts[x].balance - value
<1> DEFINE moved == Transfer(w, x, y, value)
           debited == Credit(w, x, -value)
<1>1. w.accounts[x].balance \in Nat /\ w.accounts[y].balance \in Nat
  BY DEF WorldSet, AccountSet
<1>2. /\ debited \in WorldSet
      /\ debited.accounts[x].balance = w.accounts[x].balance - value
      /\ debited.accounts[y].balance \in Nat
  <2>1. -value \in Int /\ w.accounts[x].balance + (-value) \in Nat
    BY <1>1
  <2>2. /\ debited \in WorldSet
        /\ debited.accounts[x].balance = w.accounts[x].balance + (-value)
        /\ \A z \in Address \ {x} : debited.accounts[z] = w.accounts[z]
    BY <2>1, CreditType
  <2> HIDE DEF debited
  <2> QED
    BY <1>1, <2>1, <2>2
<1> HIDE DEF debited
<1>3. MoveEther(w, x, y, value).accounts[x].balance >= w.accounts[x].balance - value
  <2> DEFINE credited == Credit(debited, y, value)
  <2>1. debited.accounts[y].balance + value \in Nat /\ value \in Int
    BY <1>2
  <2>2. /\ credited.accounts[y].balance = debited.accounts[y].balance + value
        /\ \A z \in Address \ {y} : credited.accounts[z] = debited.accounts[z]
    BY <1>2, <2>1, CreditType
  <2>3. MoveEther(w, x, y, value) = credited
    BY DEF MoveEther, debited
  <2> HIDE DEF credited
  <2>4. credited.accounts[x].balance >= w.accounts[x].balance - value
    BY <1>1, <1>2, <2>2
  <2> QED
    BY <2>3, <2>4
<1>4. moved.accounts[x].balance >= w.accounts[x].balance - value
  BY <1>1, <1>3 DEF Transfer
<1>5. Pay(w, x, y, value).accounts = moved.accounts
  <2>1. moved \in WorldSet
    BY TransferType
  <2> HIDE DEF moved
  <2>2. TransferLog(moved, x, y, value).accounts = moved.accounts
    BY <2>1 DEF TransferLog, Log, WorldSet
  <2> QED
    BY <2>2 DEF Pay, moved
<1> QED
  BY <1>4, <1>5

----------------------------------------------------------------------------
(* A world before the message ran.                                         *)

\* Nothing is taken but the price of some gas, from the sender, and nothing
\* changed but its nonce and accounts that are written down.
Unspent(l, gas, changed) ==
  /\ l \in [Address -> FaceSet] /\ Tidy(l)
  /\ l[Origin].balance + gas * GasPrice = Start.accounts[Origin].balance
  /\ l[Origin].nonce > Start.accounts[Origin].nonce
  /\ \A x \in Address :
       /\ l[x].storage = Start.accounts[x].storage
       /\ x # Origin => l[x].balance = Start.accounts[x].balance
       /\ x \notin changed => l[x].code = Start.accounts[x].code
       /\ x \notin changed /\ x # Origin => l[x].nonce = Start.accounts[x].nonce

Prepaid(w, gas, changed) ==
  /\ w \in WorldSet /\ w.logs = <<>> /\ w.selfdestructs = <<>>
  /\ Unspent(LedgerOf(w), gas, changed)

\* The accounts a transaction starts from.
LEMMA StartAccounts ==
  \A x \in Address : /\ Start.accounts[x] \in AccountSet
                     /\ Start.accounts[x].balance \in Nat /\ Start.accounts[x].nonce \in Nat
                     /\ Start.accounts[x].code \in CodeSet
                     /\ Start.accounts[x].storage \in [Key -> Value]
  BY ProgramAssumption DEF WorldSet, AccountSet

\* The balance, nonce and code of an account are those in the ledger.
LEMMA FaceOf ==
  ASSUME NEW w, NEW x \in Address
  PROVE  /\ LedgerOf(w)[x].balance = w.accounts[x].balance
         /\ LedgerOf(w)[x].nonce = w.accounts[x].nonce
         /\ LedgerOf(w)[x].code = w.accounts[x].code
         /\ LedgerOf(w)[x].storage = w.accounts[x].storage
  BY DEF LedgerOf

\* What the sender still has.
LEMMA PrepaidSender ==
  ASSUME NEW w, NEW gas, NEW changed, Prepaid(w, gas, changed)
  PROVE  /\ w.accounts[Origin].balance + gas * GasPrice = Start.accounts[Origin].balance
         /\ w.accounts[Origin].balance \in Nat
         /\ w.accounts[Origin].nonce > Start.accounts[Origin].nonce
         /\ w.accounts[Origin].nonce \in Nat /\ w.accounts[Origin].nonce # 0
         /\ Tidy(LedgerOf(w)) /\ w \in WorldSet
<1>1. w.accounts[Origin].balance \in Nat /\ w.accounts[Origin].nonce \in Nat
  BY LimitsNat DEF Prepaid, WorldSet, AccountSet
<1>2. /\ w.accounts[Origin].balance + gas * GasPrice = Start.accounts[Origin].balance
      /\ w.accounts[Origin].nonce > Start.accounts[Origin].nonce
  BY FaceOf, LimitsNat DEF Prepaid, Unspent
<1>3. Start.accounts[Origin].nonce \in Nat
  BY StartAccounts, LimitsNat
<1> QED
  BY <1>1, <1>2, <1>3 DEF Prepaid, Unspent

\* transaction-wide.bend:79-91.  Paying for more gas.
LEMMA PrepaidDebit ==
  ASSUME NEW w, NEW gas \in Nat, NEW more \in Nat, NEW changed, Prepaid(w, gas, changed),
         more * GasPrice <= w.accounts[Origin].balance
  PROVE  Prepaid(Debit(w, Origin, more * GasPrice), gas + more, changed)
<1> DEFINE amount == more * GasPrice
           v == Credit(w, Origin, -amount)
           l == LedgerOf(w)
           m == LedgerOf(v)
<1>1. /\ w \in WorldSet /\ Tidy(l) /\ l \in [Address -> FaceSet]
      /\ w.accounts[Origin].balance \in Nat /\ Origin \in Address
  BY PrepaidSender, LimitsNat DEF Prepaid, Unspent
<1>2. amount \in Nat /\ -amount \in Int /\ w.accounts[Origin].balance + (-amount) \in Nat
  <2>1. amount \in Nat
    BY LimitsNat
  <2> HIDE DEF amount
  <2>2. amount <= w.accounts[Origin].balance
    BY DEF amount
  <2> QED
    BY <1>1, <2>1, <2>2
<1>3. Debit(w, Origin, amount) = v
  BY <1>1, <1>2, DebitIsCredit
<1>4. (gas + more) * GasPrice = gas * GasPrice + amount /\ gas * GasPrice \in Nat
  BY LimitsNat
<1> HIDE DEF amount
<1>5. v \in WorldSet /\ v.logs = w.logs /\ v.selfdestructs = w.selfdestructs
  <2>1. v \in WorldSet
    BY <1>1, <1>2, CreditType
  <2>2. v.logs = w.logs /\ v.selfdestructs = w.selfdestructs
    BY <1>1, CreditAside
  <2> QED
    BY <2>1, <2>2
<1>6. m = [l EXCEPT ![Origin].balance = @ + (-amount)] /\ m \in [Address -> FaceSet]
  <2> DEFINE less == -amount
  <2>1. less \in Int /\ w.accounts[Origin].balance + less \in Nat
    BY <1>2
  <2> HIDE DEF less
  <2>3. LedgerOf(Credit(w, Origin, less)) = [LedgerOf(w) EXCEPT ![Origin].balance = @ + less]
    BY <1>1, <2>1, CreditLedger
  <2>4. m = [l EXCEPT ![Origin].balance = @ + (-amount)]
    BY <2>3 DEF less
  <2>2. m \in [Address -> FaceSet]
    BY <1>5, LedgerType
  <2> QED
    BY <2>4, <2>2
<1>7. l[Origin].balance = w.accounts[Origin].balance
  BY <1>1, FaceOf
<1> HIDE DEF v, l, m
<1>8. /\ m[Origin].balance = l[Origin].balance - amount
      /\ \A x \in Address : /\ x # Origin => m[x].balance = l[x].balance
                            /\ m[x].nonce = l[x].nonce /\ m[x].code = l[x].code
                            /\ m[x].storage = l[x].storage
  BY <1>1, <1>2, <1>6, <1>7 DEF FaceSet
<1>9. Tidy(m)
  BY <1>1, <1>8 DEF Tidy, Clean
<1>10. Unspent(l, gas, changed)
  BY DEF Prepaid, l
<1>11. m[Origin].balance + (gas + more) * GasPrice = Start.accounts[Origin].balance
  <2>1. l[Origin].balance + gas * GasPrice = Start.accounts[Origin].balance
        /\ l[Origin].balance \in Nat
    BY <1>1, <1>7, <1>10 DEF Unspent
  <2> QED
    BY <1>2, <1>4, <1>8, <2>1
<1>12. Unspent(m, gas + more, changed)
  BY <1>1, <1>6, <1>8, <1>9, <1>10, <1>11 DEF Unspent
<1>13. Prepaid(v, gas + more, changed)
  BY <1>5, <1>12 DEF Prepaid, m
<1> QED
  BY <1>3, <1>13 DEF amount

\* transaction-auth.bend:78-96.  Installing a code at an account that is
\* written down.
LEMMA PrepaidCode ==
  ASSUME NEW w, NEW gas, NEW changed, Prepaid(w, gas, changed),
         NEW y \in Address, NEW code \in CodeSet, code.len = 0 => code = NoCode
  PROVE  Prepaid(Modify(w, y, [w.accounts[y] EXCEPT !.code = code, !.nonce = @ + 1]),
                 gas, changed \cup {y})
<1> DEFINE old == w.accounts[y]
           account == [old EXCEPT !.code = code, !.nonce = @ + 1]
           v == Modify(w, y, account)
           l == LedgerOf(w)
           m == LedgerOf(v)
<1>1. w \in WorldSet /\ Tidy(l) /\ l \in [Address -> FaceSet] /\ old \in AccountSet
  BY DEF Prepaid, Unspent, WorldSet
<1>2. l[y] = Face(old)
  BY <1>1, LedgerType
<1> HIDE DEF old
<1>3. /\ account \in AccountSet /\ account.nonce = old.nonce + 1 /\ account.nonce # 0
      /\ account.code = code /\ account.balance = old.balance
      /\ account.storage = old.storage /\ old.nonce \in Nat
  <2> DEFINE next == old.nonce + 1
  <2>1. next \in Nat /\ next # 0 /\ old.nonce \in Nat
    BY <1>1 DEF AccountSet
  <2>2. account = [old EXCEPT !.code = code, !.nonce = next]
    BY DEF account
  <2> HIDE DEF account, next
  <2>3. account \in AccountSet
    BY <1>1, <2>1, <2>2 DEF AccountSet
  <2>4. account.nonce = next /\ account.code = code
        /\ account.balance = old.balance /\ account.storage = old.storage
    BY <1>1, <2>2 DEF AccountSet
  <2> QED
    BY <2>1, <2>3, <2>4 DEF next
<1> HIDE DEF account
<1>4. v \in WorldSet /\ v.logs = w.logs /\ v.selfdestructs = w.selfdestructs
  <2>1. v \in WorldSet
    BY <1>1, <1>3, ModifyType
  <2>2. v.logs = w.logs /\ v.selfdestructs = w.selfdestructs
    BY <1>1, ModifyAside
  <2> QED
    BY <2>1, <2>2
<1>5. m = [l EXCEPT ![y] = Face(account)] /\ m \in [Address -> FaceSet]
  BY <1>1, <1>3, <1>4, GrownLedger, LedgerType
<1> HIDE DEF v, l, m
<1>6. /\ \A x \in Address \ {y} : m[x] = l[x]
      /\ m[y].balance = l[y].balance /\ m[y].nonce = l[y].nonce + 1
      /\ m[y].nonce # 0 /\ l[y].nonce \in Nat
      /\ m[y].code = code /\ m[y].storage = l[y].storage
  BY <1>1, <1>2, <1>3, <1>5 DEF Face
<1>7. Tidy(m)
  BY <1>1, <1>6 DEF Tidy, Clean
<1>8. Unspent(l, gas, changed)
  BY DEF Prepaid, l
<1>9. /\ m[Origin].balance = l[Origin].balance
      /\ m[Origin].nonce > Start.accounts[Origin].nonce
  <2>1. Start.accounts[Origin].nonce \in Nat /\ Origin \in Address
    BY LimitsNat, StartAccounts
  <2> QED
    BY <1>6, <1>8, <2>1 DEF Unspent
<1>10. Unspent(m, gas, changed \cup {y})
  BY <1>5, <1>6, <1>7, <1>8, <1>9 DEF Unspent
<1>11. Prepaid(v, gas, changed \cup {y})
  BY <1>4, <1>10 DEF Prepaid, m
<1> QED
  BY <1>11 DEF v, account, old

\* A world that differs in what is not in the ledger, nor logged or marked.
LEMMA PrepaidAside ==
  ASSUME NEW w, NEW gas, NEW changed, Prepaid(w, gas, changed), NEW v \in WorldSet,
         LedgerOf(v) = LedgerOf(w), v.logs = w.logs, v.selfdestructs = w.selfdestructs
  PROVE  Prepaid(v, gas, changed)
  BY DEF Prepaid

\* Warming an account.
LEMMA PrepaidWarm ==
  ASSUME NEW w, NEW gas, NEW changed, Prepaid(w, gas, changed), NEW x \in Address
  PROVE  Prepaid(WarmAccount(w, x), gas, changed)
<1> DEFINE v == WarmAccount(w, x)
<1>1. v \in WorldSet /\ LedgerOf(v) = LedgerOf(w)
  BY WarmAccountType, WarmUnseen DEF Prepaid
<1>2. v.logs = w.logs /\ v.selfdestructs = w.selfdestructs
  BY DEF WarmAccount, Prepaid, WorldSet
<1> HIDE DEF v
<1>3. Prepaid(v, gas, changed)
  BY <1>1, <1>2, PrepaidAside
<1> QED
  BY <1>3 DEF v

\* transaction-world.bend.  Warming what the transaction names.
LEMMA PrepaidWarmed ==
  ASSUME NEW w, NEW gas, NEW changed, Prepaid(w, gas, changed),
         tx \in Transactions
  PROVE  Prepaid(Warmed(w), gas, changed) /\ LedgerOf(Warmed(w)) = LedgerOf(w)
<1> DEFINE v == Warmed(w)
           accounts == {Origin, tx.to, Coinbase} \cup Precompiles \cup {s[1] : s \in tx.access}
           Listed(x) == {k \in Key : <<x, k>> \in tx.access}
<1>1. w \in WorldSet
  BY DEF Prepaid
<1>2. v = [w EXCEPT !.accounts = [x \in Address |->
            [w.accounts[x] EXCEPT !.warm = @ \/ x \in accounts,
                                  !.slots = @ \cup Listed(x)]]]
  BY DEF Warmed
<1>3. \A x \in Address : Listed(x) \in SUBSET Key
  OBVIOUS
<1>4. \A x \in Address : w.accounts[x] \in AccountSet
  BY <1>1 DEF WorldSet
<1> DEFINE table == [x \in Address |->
             [w.accounts[x] EXCEPT !.warm = @ \/ x \in accounts,
                                   !.slots = @ \cup Listed(x)]]
<1>5. \A x \in Address : /\ table[x] \in AccountSet
                         /\ Face(table[x]) = Face(w.accounts[x])
  <2> SUFFICES ASSUME NEW x \in Address
               PROVE  table[x] \in AccountSet /\ Face(table[x]) = Face(w.accounts[x])
    OBVIOUS
  <2> DEFINE old == w.accounts[x]
             more == old.slots \cup Listed(x)
             hot == old.warm \/ x \in accounts
  <2>1. old \in AccountSet /\ more \in SUBSET Key /\ hot \in BOOLEAN
    BY <1>3, <1>4 DEF AccountSet
  <2>2. table[x] = [old EXCEPT !.warm = hot, !.slots = more]
    OBVIOUS
  <2> HIDE DEF old, more, hot, table
  <2> QED
    BY <2>1, <2>2 DEF AccountSet, Face, old
<1>6. table \in [Address -> AccountSet]
  BY <1>5
<1>7. v = [w EXCEPT !.accounts = table]
  BY <1>2
<1> HIDE DEF table, v
<1>8. v \in WorldSet /\ v.logs = w.logs /\ v.selfdestructs = w.selfdestructs
      /\ v.accounts = table
  BY <1>1, <1>6, <1>7 DEF WorldSet
<1>9. LedgerOf(v) = LedgerOf(w)
  BY <1>5, <1>8, SameLedger
<1>10. Prepaid(v, gas, changed)
  BY <1>8, <1>9, PrepaidAside
<1> QED
  BY <1>9, <1>10 DEF v

\* The ether that the price of the gas is missing from.
LEMMA PrepaidEther ==
  ASSUME IsFiniteSet(Address), NEW w, NEW gas \in Nat, NEW changed,
         Prepaid(w, gas, changed)
  PROVE  Ether(w) + gas * GasPrice = Ether(Start) /\ Ether(w) \in Int
<1> DEFINE d == gas * GasPrice
<1>1. d \in Int /\ Start \in WorldSet /\ Origin \in Address /\ w \in WorldSet
  BY LimitsNat, ProgramAssumption DEF Prepaid
<1>2. Start.accounts[Origin].balance = w.accounts[Origin].balance + d
  BY PrepaidSender
<1>3. \A x \in Address \ {Origin} : Start.accounts[x].balance = w.accounts[x].balance
  BY FaceOf DEF Prepaid, Unspent
<1> HIDE DEF d
<1>4. Ether(Start) = Ether(w) + d /\ Ether(w) \in Int
  BY <1>1, <1>2, <1>3, EtherOfOne
<1> QED
  BY <1>4 DEF d

\* What the sender can still pay when its message is dispatched.
LEMMA Affordable ==
  ASSUME NEW w, NEW changed, tx \in Transactions, Valid(tx),
         Prepaid(w, Proxy(tx), changed)
  PROVE  EscrowOf(tx) * GasPrice + tx.value <= w.accounts[Origin].balance
<1>1. /\ Start.accounts[Origin].balance >= tx.gas * GasPrice + tx.value
      /\ tx.value \in Nat
  BY DEF Valid, Transactions
<1>2. w.accounts[Origin].balance + Proxy(tx) * GasPrice = Start.accounts[Origin].balance
      /\ w.accounts[Origin].balance \in Nat
  BY PrepaidSender
<1>3. /\ Proxy(tx) * GasPrice + EscrowOf(tx) * GasPrice = tx.gas * GasPrice
      /\ Proxy(tx) \in Nat /\ EscrowOf(tx) \in Nat
  BY GasSplit
<1>4. Proxy(tx) * GasPrice \in Nat /\ EscrowOf(tx) * GasPrice \in Nat
  BY <1>3, LimitsNat
<1> QED
  BY <1>1, <1>2, <1>3, <1>4

\* transaction-wide.bend:79-91.  What paying for the escrow leaves.
LEMMA EscrowPrepaid ==
  ASSUME NEW w, NEW changed, tx \in Transactions, Valid(tx),
         Prepaid(w, Proxy(tx), changed)
  PROVE  Prepaid(EscrowPaid(w), tx.gas, changed)
<1>1. /\ Proxy(tx) \in Nat /\ EscrowOf(tx) \in Nat /\ Proxy(tx) + EscrowOf(tx) = tx.gas
      /\ tx.value \in Nat
  BY GasSplit DEF Transactions
<1>2. w.accounts[Origin].balance \in Nat /\ EscrowOf(tx) * GasPrice \in Nat
  BY <1>1, PrepaidSender, LimitsNat
<1>3. EscrowOf(tx) * GasPrice <= w.accounts[Origin].balance
  BY <1>1, <1>2, Affordable
<1> DEFINE p == Proxy(tx)
           e == EscrowOf(tx)
<1>4. p \in Nat /\ e \in Nat /\ p + e = tx.gas /\ Prepaid(w, p, changed)
      /\ e * GasPrice <= w.accounts[Origin].balance
  BY <1>1, <1>3
<1> HIDE DEF p, e
<1>5. Prepaid(Debit(w, Origin, e * GasPrice), p + e, changed)
  BY <1>4, PrepaidDebit
<1> QED
  BY <1>4, <1>5 DEF EscrowPaid, e

\* transaction-types.bend, transaction-validate.bend.  The start without the
\* annotations of an earlier transaction.
LEMMA ResetType ==
  /\ Reset(Start) \in WorldSet /\ LedgerOf(Reset(Start)) = LedgerOf(Start)
  /\ Reset(Start).logs = <<>> /\ Reset(Start).selfdestructs = <<>>
<1> DEFINE table == [x \in Address |->
             [Start.accounts[x] EXCEPT !.original = Start.accounts[x].storage,
                !.transient = ZeroSlots, !.warm = FALSE, !.created = FALSE, !.slots = {}]]
           v == Reset(Start)
<1>1. \A x \in Address : /\ table[x] \in AccountSet
                         /\ Face(table[x]) = Face(Start.accounts[x])
  <2> SUFFICES ASSUME NEW x \in Address
               PROVE  table[x] \in AccountSet /\ Face(table[x]) = Face(Start.accounts[x])
    OBVIOUS
  <2> DEFINE old == Start.accounts[x]
             kept == old.storage
  <2>1. old \in AccountSet /\ kept \in [Key -> Value] /\ ZeroSlots \in [Key -> Value]
    BY StartAccounts, ZeroSlotsType
  <2>2. table[x] = [old EXCEPT !.original = kept, !.transient = ZeroSlots,
                               !.warm = FALSE, !.created = FALSE, !.slots = {}]
    OBVIOUS
  <2> HIDE DEF old, kept, table
  <2> QED
    BY <2>1, <2>2 DEF AccountSet, Face, old
<1>2. table \in [Address -> AccountSet]
  BY <1>1
<1>3. v = [accounts |-> table, logs |-> <<>>, refund |-> 0, selfdestructs |-> <<>>]
  BY DEF Reset
<1> HIDE DEF table, v
<1>4. v \in WorldSet /\ v.accounts = table /\ v.logs = <<>> /\ v.selfdestructs = <<>>
  BY <1>2, <1>3 DEF WorldSet
<1>5. LedgerOf(v) = LedgerOf(Start)
  BY <1>1, <1>4, SameLedger
<1> QED
  BY <1>4, <1>5 DEF v

----------------------------------------------------------------------------
(* The invariant.                                                          *)

\* Before the message runs, nothing but gas was taken in the world there is
\* or in the one to fall back to; and nobody is suspended.
Prepared ==
  phase = "Authorizing" =>
    /\ IInv /\ parents = <<>>
    /\ auths \in Seq(Authorization)
    /\ frame.address = tx.to /\ frame.code = NoCode /\ frame.output = NoCode
    /\ frame.action.op \in {"Running", "Fault"}
    /\ Prepaid(world, Proxy(tx), written)
    /\ Prepaid(before, Proxy(tx), written)

\* While it runs the machine is in order, and every journal holds the ether
\* of the world that a failed message returns to.
Underway ==
  phase = "Running" =>
    /\ LInv
    /\ Prepaid(snapshot, tx.gas, written)
    /\ Solvent(world, parents, Worth(LedgerOf(snapshot)))

TInv ==
  /\ tx \in Transactions /\ Valid(tx)
  /\ Prepared /\ Underway

\* What a step within the preparation has to keep.
LEMMA StillPrepared ==
  ASSUME TInv, phase = "Authorizing", phase' = phase, tx' = tx, IInv',
         parents' = parents, auths' \in Seq(Authorization),
         frame'.address = frame.address, frame'.code = frame.code,
         frame'.output = NoCode, frame'.action.op \in {"Running", "Fault"},
         before' = before, written \subseteq written',
         Prepaid(world', Proxy(tx), written')
  PROVE  TInv'
<1>1. Prepaid(before', Proxy(tx), written')
  <2>1. Prepaid(before, Proxy(tx), written)
    BY DEF TInv, Prepared
  <2> QED
    BY <2>1 DEF Prepaid, Unspent
<1>2. Valid(tx') /\ tx' \in Transactions /\ Proxy(tx') = Proxy(tx)
  BY DEF TInv
<1>3. Prepaid(world', Proxy(tx'), written') /\ Prepaid(before', Proxy(tx'), written')
  BY <1>1, <1>2
<1>4. Prepared'
  <2> HIDE DEF Prepaid
  <2> QED
    BY <1>2, <1>3 DEF TInv, Prepared
<1>5. Underway'
  BY DEF Underway
<1> QED
  BY <1>2, <1>4, <1>5 DEF TInv, Valid

\* The transaction is one the engine accepts.
LEMMA TxInitTyped ==
  ASSUME TxInit
  PROVE  /\ tx \in Transactions /\ tx.to \in Address /\ tx.value \in Nat
         /\ auths \in Seq(Authorization) /\ Valid(tx)
         /\ tx.create => auths = <<>>
<1>1. PICK create \in BOOLEAN, to \in Recipient \cup CreateTarget, gas \in TxGas,
           value \in Amount, code \in InitCode, cost \in IntrinsicCost,
           access \in AccessLists, list \in AuthLists :
        /\ create => list = <<>>
        /\ tx = [create |-> create, to |-> to, gas |-> gas, value |-> value,
                 code |-> code, cost |-> cost, access |-> access]
        /\ auths = list
  BY DEF TxInit
<1>2. /\ create \in BOOLEAN /\ to \in Address /\ gas \in Nat /\ value \in Nat
      /\ code \in CodeSet /\ cost \in [execution: Nat, floor: Nat]
      /\ access \in SUBSET (Address \X Key) /\ list \in Seq(Authorization)
  BY TransactionAssumption, ProgramAssumption
<1>3. /\ tx \in Transactions /\ tx.to \in Address /\ tx.value \in Nat
      /\ auths \in Seq(Authorization) /\ (tx.create => auths = <<>>)
  BY <1>1, <1>2 DEF Transactions
<1>4. Valid(tx)
  BY DEF TxInit
<1> QED
  BY <1>3, <1>4

\* The sender has spent its nonce and paid for the gas, and nothing else has
\* changed yet.
LEMMA TxInitPrepaid ==
  ASSUME TidyStart, TxInit, NEW changed
  PROVE  Prepaid(before, Proxy(tx), changed)
<1>1. tx \in Transactions /\ Valid(tx) /\ tx.value \in Nat
  BY TxInitTyped
<1>2. before = Debit(IncrementNonce(Reset(Start), Origin), Origin, Proxy(tx) * GasPrice)
  BY DEF TxInit
<1> DEFINE u == Reset(Start)
           v == IncrementNonce(u, Origin)
           l == LedgerOf(Start)
           m == LedgerOf(v)
<1>3. /\ u \in WorldSet /\ LedgerOf(u) = l /\ u.logs = <<>> /\ u.selfdestructs = <<>>
      /\ Origin \in Address /\ l \in [Address -> FaceSet] /\ Tidy(l)
  BY ResetType, LimitsNat, LedgerType, ProgramAssumption DEF TidyStart
<1>4. \A x \in Address : /\ l[x].balance = Start.accounts[x].balance
                         /\ l[x].nonce = Start.accounts[x].nonce
                         /\ l[x].code = Start.accounts[x].code
                         /\ l[x].storage = Start.accounts[x].storage
  BY FaceOf
<1> HIDE DEF u, l
<1>5. v \in WorldSet /\ m = [l EXCEPT ![Origin].nonce = @ + 1]
  BY <1>3, IncrementNonceType, NonceLedger
<1>6. v.logs = <<>> /\ v.selfdestructs = <<>>
  BY <1>3, ModifyAside DEF IncrementNonce
<1>7. m \in [Address -> FaceSet]
  BY <1>5, LedgerType
<1> HIDE DEF v, m
<1>8. /\ m[Origin].nonce = l[Origin].nonce + 1
      /\ \A x \in Address : /\ m[x].balance = l[x].balance
                            /\ m[x].code = l[x].code
                            /\ m[x].storage = l[x].storage
                            /\ x # Origin => m[x].nonce = l[x].nonce
  BY <1>3, <1>5 DEF FaceSet
<1>9. l[Origin].nonce \in Nat /\ l[Origin].balance \in Nat
  BY <1>3 DEF FaceSet
<1>10. Tidy(m)
  BY <1>3, <1>8, <1>9 DEF Tidy, Clean
<1>11. 0 * GasPrice = 0
  BY LimitsNat
<1>12. Unspent(m, 0, changed)
  BY <1>3, <1>4, <1>7, <1>8, <1>9, <1>10, <1>11 DEF Unspent
<1>13. Prepaid(v, 0, changed)
  BY <1>5, <1>6, <1>12 DEF Prepaid, m
<1>14. Proxy(tx) * GasPrice <= v.accounts[Origin].balance
  <2>1. /\ Start.accounts[Origin].balance >= tx.gas * GasPrice + tx.value
        /\ Proxy(tx) * GasPrice + EscrowOf(tx) * GasPrice = tx.gas * GasPrice
        /\ Proxy(tx) \in Nat /\ EscrowOf(tx) \in Nat
    BY <1>1, GasSplit DEF Valid
  <2>2. Proxy(tx) * GasPrice \in Nat /\ EscrowOf(tx) * GasPrice \in Nat
    BY <2>1, LimitsNat
  <2>3. v.accounts[Origin].balance + 0 * GasPrice = Start.accounts[Origin].balance
        /\ v.accounts[Origin].balance \in Nat
    BY <1>13, PrepaidSender
  <2> QED
    BY <1>1, <1>11, <2>1, <2>2, <2>3
<1> DEFINE p == Proxy(tx)
<1>15. p \in Nat /\ 0 \in Nat /\ 0 + p = p
  BY <1>1, GasSplit
<1>16. p * GasPrice <= v.accounts[Origin].balance
  BY <1>14
<1> HIDE DEF p
<1>17. Prepaid(Debit(v, Origin, p * GasPrice), 0 + p, changed)
  BY <1>13, <1>15, <1>16, PrepaidDebit
<1> QED
  BY <1>2, <1>15, <1>17 DEF p, u, v

\* transaction-wide.bend:25-91.  What is accepted is prepared.
LEMMA TxInitPrepared ==
  ASSUME TidyStart, TxInit
  PROVE  TInv
<1>1. tx \in Transactions /\ tx.to \in Address /\ tx.value \in Nat
      /\ auths \in Seq(Authorization)
  BY TxInitTyped
<1>2. Valid(tx)
  BY DEF TxInit
<1>3. phase = "Authorizing" /\ parents = <<>> /\ world = before
      /\ frame = Message(tx.to, tx.value)
  BY DEF TxInit
<1>4. meter = FreshMeter(Grant(tx), EntryReservoir(tx))
  BY DEF TxInit
<1>5. Prepaid(before, Proxy(tx), written)
  BY TxInitPrepaid
<1>6. IInv
  <2>1. Sound(meter) /\ SpillsLast(meter)
    BY <1>1, <1>2, <1>4, GasSplit, FreshSound
  <2>2. frame \in FrameSet
    <3>1. Plain("Running") \in ActionSet
      BY PlainType
    <3> QED
      BY <1>1, <1>3, <3>1, NoCodeType, LimitsNat DEF Message, FrameSet
  <2>3. world \in WorldSet
    BY <1>3, <1>5 DEF Prepaid
  <2>4. parents \in Seq(ParentSet) /\ DOMAIN parents = {}
    BY <1>3
  <2> QED
    BY <2>1, <2>2, <2>3, <2>4 DEF IInv, TypeOK, MeterInv, Linked, Sound
<1>7. frame.address = tx.to /\ frame.code = NoCode /\ frame.output = NoCode
      /\ frame.action.op \in {"Running", "Fault"}
  BY <1>3 DEF Message, Plain
<1>8. Prepared
  BY <1>1, <1>3, <1>5, <1>6, <1>7 DEF Prepared
<1> QED
  BY <1>1, <1>2, <1>3, <1>8 DEF TInv, Underway

----------------------------------------------------------------------------
(* The steps.                                                              *)

\* model.bend:395-403.  A designation is a code, and none is the empty code.
LEMMA DesignationType ==
  ASSUME NEW auth \in Authorization
  PROVE  /\ Designation(auth) \in CodeSet
         /\ Designation(auth).len = 0 => Designation(auth) = NoCode
<1>1. auth.address \in Address \cup {NoAddress}
  BY DEF Authorization
<1> QED
  BY <1>1, NoCodeType DEF Designation, CodeSet, NoCode

\* transaction-auth.bend:52-96.  An authorization warms its authority, and one
\* that is applied writes it down.
LEMMA AuthorizePrepared ==
  ASSUME TInv, Authorize
  PROVE  TInv'
<1> DEFINE auth == Head(auths)
           y == auth.authority
           warmed == WarmAccount(world, y)
           authority == warmed.accounts[y]
           birth == ~authority.exists
           price == IF y \in written THEN 0 ELSE AuthWrite
           born == SpendBirth(meter, birth)
           paid == Charge(born, price)
<1>1. /\ phase = "Authorizing" /\ auths # <<>> /\ phase' = phase /\ tx' = tx
      /\ parents' = parents /\ before' = before /\ auths' = Tail(auths)
  BY DEF Authorize
<1>2. /\ IInv /\ auths \in Seq(Authorization) /\ Prepaid(world, Proxy(tx), written)
      /\ frame.output = NoCode /\ frame.action.op \in {"Running", "Fault"}
  BY <1>1 DEF TInv, Prepared
<1>3. auth \in Authorization /\ auths' \in Seq(Authorization) /\ y \in Address
  <2>1. auth \in Authorization /\ auths' \in Seq(Authorization)
    BY <1>1, <1>2
  <2> QED
    BY <2>1 DEF Authorization
<1>4. /\ Prepaid(warmed, Proxy(tx), written) /\ warmed \in WorldSet
      /\ authority \in AccountSet /\ birth \in BOOLEAN
  <2>1. Prepaid(warmed, Proxy(tx), written)
    BY <1>2, <1>3, PrepaidWarm
  <2> HIDE DEF warmed
  <2>2. warmed \in WorldSet
    BY <2>1 DEF Prepaid
  <2>3. authority \in AccountSet
    BY <1>3, <2>2 DEF WorldSet
  <2> QED
    BY <2>1, <2>2, <2>3
<1>5. price \in Nat /\ Indicator \in Nat
  BY LimitsNat
<1>6. /\ CanSpendBirth(meter, birth) =>
           Sound(born) /\ SpillsLast(born) /\ SameHistory(meter, born)
      /\ CanSpendBirth(meter, birth) /\ CanCharge(born, price) =>
           Sound(paid) /\ SpillsLast(paid) /\ SameHistory(meter, paid)
  <2>1. CanSpendBirth(meter, birth) =>
          Sound(born) /\ SpillsLast(born) /\ SameHistory(meter, born)
    <3> HIDE DEF birth
    <3> QED
      BY <1>2, <1>4, RunningTyped, BirthSound
  <2> HIDE DEF born, birth, price
  <2>2. CanSpendBirth(meter, birth) /\ CanCharge(born, price) =>
          Sound(paid) /\ SpillsLast(paid) /\ SameHistory(born, paid)
    BY <1>5, <2>1, ChargeSound
  <2> HIDE DEF paid
  <2> QED
    BY <2>1, <2>2 DEF SameHistory
<1> HIDE DEF paid, born, price, birth
<1>7. CASE frame' = frame /\ meter' = meter /\ written' = written
           /\ world' = IF auth.valid THEN warmed ELSE world
  <2>1. Prepaid(world', Proxy(tx), written')
    BY <1>2, <1>4, <1>7
  <2>2. world' \in WorldSet
    BY <2>1 DEF Prepaid
  <2>3. IInv'
    <3>1. /\ frame' \in FrameSet /\ Sound(meter') /\ SpillsLast(meter')
          /\ SameHistory(meter, meter')
      BY <1>2, <1>7, RunningTyped
    <3> QED
      BY <1>1, <1>2, <2>2, <3>1, Quiet DEF Forward
  <2> QED
    BY <1>1, <1>2, <1>3, <1>7, <2>1, <2>3, StillPrepared
<1>8. CASE /\ frame' = frame /\ written' = written \cup {y}
           /\ CanSpendBirth(meter, birth) /\ CanCharge(born, price)
           /\ \/ meter' = paid
              \/ CanSpendState(paid, Indicator) /\ meter' = SpendState(paid, Indicator)
           /\ world' = Modify(warmed, y,
                         [authority EXCEPT !.code = Designation(auth), !.nonce = @ + 1])
  <2>1. Prepaid(world', Proxy(tx), written')
    <3> HIDE DEF warmed, auth, y
    <3>1. Prepaid(warmed, Proxy(tx), written) /\ y \in Address
      BY <1>3, <1>4
    <3>2. Designation(auth) \in CodeSet
          /\ (Designation(auth).len = 0 => Designation(auth) = NoCode)
      BY <1>3, DesignationType
    <3> QED
      BY <1>8, <3>1, <3>2, PrepaidCode
  <2>2. world' \in WorldSet
    BY <2>1 DEF Prepaid
  <2>3. Sound(meter') /\ SpillsLast(meter') /\ SameHistory(meter, meter')
    <3>1. Sound(paid) /\ SpillsLast(paid) /\ SameHistory(meter, paid)
      BY <1>6, <1>8
    <3>2. CASE meter' = paid
      BY <3>1, <3>2
    <3>3. CASE CanSpendState(paid, Indicator) /\ meter' = SpendState(paid, Indicator)
      BY <1>5, <3>1, <3>3, SpendStateSound DEF SameHistory
    <3> QED
      BY <1>8, <3>2, <3>3
  <2>4. IInv'
    <3>1. frame' \in FrameSet
      BY <1>2, <1>8, RunningTyped
    <3> QED
      BY <1>1, <1>2, <2>2, <2>3, <3>1, Quiet DEF Forward
  <2>5. written \subseteq written' /\ frame'.address = frame.address /\ frame'.code = frame.code
        /\ frame'.output = NoCode /\ frame'.action.op \in {"Running", "Fault"}
    BY <1>2, <1>8
  <2> QED
    BY <1>1, <1>3, <2>1, <2>4, <2>5, StillPrepared
<1>9. CASE /\ frame' = FaultFrame /\ written' = written /\ world' = warmed
           /\ \/ meter' = Exhaust(meter)
              \/ CanSpendBirth(meter, birth) /\ meter' = Exhaust(born)
              \/ /\ CanSpendBirth(meter, birth) /\ CanCharge(born, price)
                 /\ meter' = Exhaust(paid)
  <2>1. Sound(meter') /\ SpillsLast(meter') /\ SameHistory(meter, meter')
    <3>1. Sound(meter) /\ SpillsLast(meter) /\ SameHistory(meter, meter)
      BY <1>2, RunningTyped
    <3>2. \A m : Sound(m) /\ SpillsLast(m) /\ SameHistory(meter, m) =>
            Sound(Exhaust(m)) /\ SpillsLast(Exhaust(m)) /\ SameHistory(meter, Exhaust(m))
      BY ExhaustSound DEF SameHistory
    <3> QED
      BY <1>6, <1>9, <3>1, <3>2
  <2>2. FaultFrame \in FrameSet /\ FaultFrame.address = frame.address
        /\ FaultFrame.code = frame.code /\ FaultFrame.output = NoCode
        /\ FaultFrame.action.op = "Fault"
    <3>1. frame \in FrameSet
      BY <1>2, RunningTyped
    <3>2. FaultFrame \in FrameSet
      BY <3>1, OutputType, NoCodeType DEF FaultFrame, Terminal
    <3> QED
      BY <3>1, <3>2 DEF FaultFrame, WithAction, Plain, FrameSet
  <2>3. IInv'
    BY <1>1, <1>2, <1>4, <1>9, <2>1, <2>2, Quiet DEF Forward
  <2> QED
    BY <1>1, <1>2, <1>3, <1>4, <1>9, <2>2, <2>3, StillPrepared
<1> QED
  <2> DEFINE applies == /\ auth.valid
                        /\ authority.code = NoCode \/ Delegated(authority.code)
                        /\ authority.nonce = auth.nonce
             indicates == /\ auth.address # NoAddress
                          /\ ~Delegated(Start.accounts[y].code)
                          /\ y \notin designated
             enough == /\ CanSpendBirth(meter, birth) /\ CanCharge(born, price)
                       /\ indicates => CanSpendState(paid, Indicator)
  <2>1. \/ /\ ~applies /\ world' = IF auth.valid THEN warmed ELSE world
           /\ UNCHANGED <<frame, meter, written>>
        \/ /\ applies /\ enough
           /\ meter' = IF indicates THEN SpendState(paid, Indicator) ELSE paid
           /\ world' = Modify(warmed, y,
                          [authority EXCEPT !.code = Designation(auth), !.nonce = @ + 1])
           /\ written' = written \cup {y} /\ frame' = frame
        \/ /\ applies /\ ~enough /\ world' = warmed /\ frame' = FaultFrame
           /\ meter' = Exhaust(IF ~CanSpendBirth(meter, birth) THEN meter
                              ELSE IF ~CanCharge(born, price) THEN born ELSE paid)
           /\ written' = written
    BY DEF Authorize, birth, born, price, paid
  <2>2. CASE applies /\ enough
    <3>1. meter' = paid \/ (CanSpendState(paid, Indicator) /\ meter' = SpendState(paid, Indicator))
      <4> HIDE DEF indicates, applies
      <4> QED
        BY <2>1, <2>2
    <3> QED
      BY <1>8, <2>1, <2>2, <3>1
  <2>3. CASE applies /\ ~enough
    <3>1. \/ meter' = Exhaust(meter)
          \/ CanSpendBirth(meter, birth) /\ meter' = Exhaust(born)
          \/ /\ CanSpendBirth(meter, birth) /\ CanCharge(born, price)
             /\ meter' = Exhaust(paid)
      <4> HIDE DEF indicates, applies
      <4> QED
        BY <2>1, <2>3
    <3> QED
      BY <1>9, <2>1, <2>3, <3>1
  <2>4. CASE ~applies
    BY <1>7, <2>1, <2>4
  <2> QED
    BY <2>2, <2>3, <2>4

\* A machine that starts with nobody suspended.
LEMMA Started ==
  ASSUME TInv, phase' = "Running", tx' = tx, written' = written, parents' = <<>>,
         frame' \in FrameSet, Sound(meter'), SpillsLast(meter'), world' \in WorldSet,
         Tidy(LedgerOf(world')), Proper(frame'),
         frame'.code.len # 0 => Alive(LedgerOf(world'), frame'.address),
         Prepaid(snapshot', tx.gas, written),
         Worth(LedgerOf(world')) = Worth(LedgerOf(snapshot'))
  PROVE  TInv'
<1>1. IInv'
  <2>1. parents' \in Seq(ParentSet) /\ DOMAIN parents' = {}
    OBVIOUS
  <2>2. TypeOK'
    BY <2>1 DEF TypeOK, Sound
  <2>3. MeterInv'
    BY <2>1 DEF MeterInv, Linked
  <2> QED
    BY <2>2, <2>3 DEF IInv
<1>2. Len(parents') = 0 /\ Len(parents)' = 0
  OBVIOUS
<1>3. \A i \in 0..0 : i = 0 /\ \A j \in i..0 : j = 0
  OBVIOUS
<1>4. (Books(0))' = LedgerOf(world') /\ (ChildFrameOf(0))' = frame'
  BY <1>2 DEF Books, After, ChildFrameOf, LedgerOf
<1>5. OrderlyBooks'
  BY <1>2, <1>3, <1>4 DEF OrderlyBooks
<1>6. Housed'
  BY <1>2, <1>3, <1>4 DEF Housed
<1>7. Awaited'
  BY <1>2 DEF Awaited
<1>8. LInv'
  BY <1>1, <1>5, <1>6, <1>7 DEF LInv
<1>9. Solvent(world', parents', Worth(LedgerOf(snapshot')))
  BY DEF Solvent
<1>10. Prepaid(snapshot', tx'.gas, written')
  OBVIOUS
<1>11. Underway'
  <2> HIDE DEF Prepaid
  <2> QED
    BY <1>8, <1>9, <1>10 DEF Underway, Solvent, Worth, Balances, LedgerOf
<1>12. Prepared'
  BY DEF Prepared
<1>13. tx' \in Transactions /\ Valid(tx')
  BY DEF TInv
<1> QED
  BY <1>11, <1>12, <1>13 DEF TInv, Valid

\* transaction.bend:61-70.  A message that cannot be dispatched falls back to
\* the world before the authorizations.
LEMMA DispatchFailsPrepared ==
  ASSUME TInv, DispatchFails
  PROVE  TInv'
<1>1. /\ tx \in Transactions /\ Valid(tx) /\ phase = "Authorizing"
      /\ phase' = "Running" /\ tx' = tx /\ written' = written
      /\ meter' = FreshMeter(0, EntryReservoir(tx)) /\ frame' = FaultFrame
      /\ world' = EscrowPaid(before) /\ snapshot' = EscrowPaid(before)
      /\ parents' = parents
  BY DEF TInv, DispatchFails, Preparing, UndispatchedWorld
<1>2. /\ IInv /\ parents = <<>> /\ frame.code = NoCode /\ frame.output = NoCode
      /\ Prepaid(before, Proxy(tx), written)
  BY <1>1 DEF TInv, Prepared
<1>3. Prepaid(EscrowPaid(before), tx.gas, written)
  BY <1>1, <1>2, EscrowPrepaid
<1>4. world' \in WorldSet /\ Tidy(LedgerOf(world')) /\ Prepaid(snapshot', tx.gas, written)
  BY <1>1, <1>3 DEF Prepaid, Unspent
<1>5. Sound(meter') /\ SpillsLast(meter')
  <2>1. 0 \in Nat /\ EntryReservoir(tx) \in Nat
    BY <1>1, GasSplit
  <2> QED
    BY <1>1, <2>1, FreshSound
<1>6. /\ frame' \in FrameSet /\ Proper(frame') /\ frame'.code.len = 0
  <2>1. frame \in FrameSet
    BY <1>2, RunningTyped
  <2>2. FaultFrame \in FrameSet
    BY <2>1, OutputType, NoCodeType DEF FaultFrame, Terminal
  <2>3. FaultFrame.code = frame.code /\ FaultFrame.output = NoCode
        /\ FaultFrame.action.op = "Fault"
    BY <2>1 DEF FaultFrame, WithAction, Plain, FrameSet
  <2> QED
    BY NothingCanonical, <1>1, <1>2, <2>2, <2>3 DEF Proper, Asks, NoCode
<1>7. Worth(LedgerOf(world')) = Worth(LedgerOf(snapshot'))
  BY <1>1
<1> QED
  BY <1>1, <1>2, <1>4, <1>5, <1>6, <1>7, Started

\* transaction.bend:82-91.  The transfer of a message and the payment for the
\* escrow leave the sender what it can afford.
LEMMA MessagePaid ==
  ASSUME IsFiniteSet(Address), tx \in Transactions, Valid(tx),
         NEW w, NEW changed, Prepaid(w, Proxy(tx), changed),
         NEW v \in WorldSet, Tidy(LedgerOf(v)),
         \A x \in Address : v.accounts[x].balance = w.accounts[x].balance
  PROVE  LET u == EscrowPaid(Pay(v, Origin, tx.to, tx.value))
         IN  /\ u \in WorldSet /\ Tidy(LedgerOf(u))
             /\ Worth(LedgerOf(u)) = Worth(LedgerOf(EscrowPaid(w)))
             /\ \A x \in Address : /\ LedgerOf(u)[x].nonce = LedgerOf(v)[x].nonce
                                   /\ LedgerOf(u)[x].code = LedgerOf(v)[x].code
<1> DEFINE e == EscrowOf(tx) * GasPrice
           p == Pay(v, Origin, tx.to, tx.value)
           u == EscrowPaid(p)
           q == EscrowPaid(w)
<1>1. /\ Origin \in Address /\ tx.to \in Address /\ tx.value \in Nat /\ w \in WorldSet
      /\ EscrowOf(tx) \in Nat /\ GasPrice \in Nat
  BY LimitsNat, GasSplit DEF Transactions, Prepaid
<1>2. e \in Nat
  BY <1>1
<1>3. u = Debit(p, Origin, e) /\ q = Debit(w, Origin, e)
  BY DEF EscrowPaid
<1>4. e + tx.value <= w.accounts[Origin].balance
  BY Affordable
<1> HIDE DEF e, u, q
<1>5. v.accounts[Origin].balance = w.accounts[Origin].balance
      /\ w.accounts[Origin].balance \in Nat
  BY <1>1 DEF WorldSet, AccountSet
<1>6. tx.value <= v.accounts[Origin].balance /\ e <= v.accounts[Origin].balance - tx.value
  BY <1>1, <1>2, <1>4, <1>5
<1>7. p \in WorldSet /\ p.accounts[Origin].balance >= v.accounts[Origin].balance - tx.value
  BY <1>1, <1>6, PayType, PayBalance
<1>10. /\ Tidy(LedgerOf(p)) /\ Worth(LedgerOf(p)) = Worth(LedgerOf(v))
       /\ \A x \in Address : /\ LedgerOf(p)[x].nonce = LedgerOf(v)[x].nonce
                             /\ LedgerOf(p)[x].code = LedgerOf(v)[x].code
  BY <1>1, <1>6, PaidBooks
<1> HIDE DEF p
<1>9. LedgerOf(v) \in [Address -> FaceSet] /\ LedgerOf(p) \in [Address -> FaceSet]
  BY <1>7, LedgerType
<1>11. Ether(p) = Ether(w)
  <2>1. Ether(v) = Ether(w)
    BY SameEther
  <2> QED
    BY <1>10, <2>1, EtherIsWorth
<1> DEFINE less == -e
<1>12. less \in Int
  BY <1>2
<1>13. p.accounts[Origin].balance \in Nat /\ w.accounts[Origin].balance \in Nat
  BY <1>1, <1>7 DEF WorldSet, AccountSet
<1>14. p.accounts[Origin].balance + less \in Nat /\ w.accounts[Origin].balance + less \in Nat
  BY <1>1, <1>2, <1>4, <1>5, <1>6, <1>7, <1>13
<1>15. u = Credit(p, Origin, less) /\ q = Credit(w, Origin, less)
  BY <1>1, <1>2, <1>3, <1>7, DebitIsCredit
<1> HIDE DEF less
<1>16. u \in WorldSet
  BY <1>1, <1>7, <1>12, <1>14, <1>15, CreditType
<1>17. LedgerOf(u) = [LedgerOf(p) EXCEPT ![Origin].balance = @ + less]
  BY <1>1, <1>7, <1>10, <1>12, <1>14, <1>15, CreditLedger
<1>18. Ether(u) = Ether(p) + less /\ Ether(q) = Ether(w) + less
  BY <1>1, <1>7, <1>12, <1>14, <1>15, EtherOfCredit
<1>19. Worth(LedgerOf(u)) = Worth(LedgerOf(q))
  BY <1>11, <1>18, EtherIsWorth
<1>20. \A x \in Address : /\ LedgerOf(u)[x].nonce = LedgerOf(p)[x].nonce
                          /\ LedgerOf(u)[x].code = LedgerOf(p)[x].code
                          /\ LedgerOf(u)[x].storage = LedgerOf(p)[x].storage
  BY <1>1, <1>9, <1>17 DEF FaceSet
<1>21. Tidy(LedgerOf(u))
  BY <1>10, <1>20 DEF Tidy, Clean
<1> QED
  BY <1>10, <1>16, <1>19, <1>20, <1>21 DEF u, p, q

\* transaction.bend:72-81.  The birth and the access of a dispatch are paid
\* from what the authorizations left.
LEMMA DispatchMeter ==
  ASSUME Sound(meter), NEW birth \in BOOLEAN, NEW price \in Nat,
         CanSpendBirth(CommittedMeter, birth),
         CanCharge(SpendBirth(CommittedMeter, birth), price)
  PROVE  LET m == Charge(SpendBirth(CommittedMeter, birth), price)
         IN  Sound(m) /\ SpillsLast(m) /\ SameHistory(CommittedMeter, m)
<1> DEFINE fresh == CommittedMeter
           born == SpendBirth(fresh, birth)
           m == Charge(born, price)
<1>1. Sound(fresh) /\ SpillsLast(fresh)
  <2>1. meter.gas \in Nat /\ meter.reservoir \in Nat
    BY DEF Sound, MeterSet
  <2> QED
    BY <2>1, FreshSound DEF CommittedMeter
<1> HIDE DEF fresh
<1>2. Sound(born) /\ SpillsLast(born) /\ SameHistory(fresh, born)
  BY <1>1, BirthSound DEF fresh
<1> HIDE DEF born
<1>3. Sound(m) /\ SpillsLast(m) /\ SameHistory(born, m)
  BY <1>2, ChargeSound DEF born, fresh
<1> HIDE DEF m
<1>4. SameHistory(fresh, m)
  BY <1>2, <1>3 DEF SameHistory
<1> QED
  BY <1>3, <1>4 DEF m, born, fresh

\* Asking an account for its price.
LEMMA AccessNat ==
  ASSUME NEW account
  PROVE  AccountAccess(account) \in Nat
  BY PricesNat DEF AccountAccess

\* transaction.bend:63-91.  A dispatched message has paid the escrow and its
\* value, and runs at the address of a contract.
LEMMA DispatchPrepared ==
  ASSUME IsFiniteSet(Address), TInv, Dispatch
  PROVE  TInv'
<1> DEFINE d == Dispatched
           callee == d.accounts[tx.to]
           to == callee.code.to
           warmed == IF Delegating THEN WarmAccount(d, to) ELSE d
           started == IF tx.create THEN NewContract(warmed, tx.to) ELSE warmed
           u == EscrowPaid(Pay(started, Origin, tx.to, tx.value))
           code == CASE tx.create -> tx.code
                     [] Delegating -> IF to \in Precompiles THEN NoCode
                                      ELSE d.accounts[to].code
                     [] OTHER -> callee.code
           op == IF ~tx.create /\ ~Delegating /\ tx.to \in Precompiles
                 THEN "Precompile" ELSE "Running"
<1>1. /\ tx \in Transactions /\ Valid(tx) /\ phase = "Authorizing" /\ phase' = "Running"
      /\ tx' = tx /\ written' = written /\ parents' = parents
      /\ snapshot' = EscrowPaid(warmed) /\ world' = u
      /\ frame' = [frame EXCEPT !.code = code, !.action = Plain(op)]
      /\ meter' = Charge(SpendBirth(CommittedMeter, DispatchBirth), DispatchPrice)
      /\ CanDispatch
  BY DEF TInv, Dispatch, Preparing, Callee
<1>2. /\ IInv /\ parents = <<>> /\ frame.output = NoCode /\ frame.address = tx.to
      /\ Prepaid(world, Proxy(tx), written) /\ frame \in FrameSet /\ Sound(meter)
  BY <1>1, RunningTyped DEF TInv, Prepared
<1>3. tx.to \in Address /\ tx.create \in BOOLEAN /\ tx.code \in CodeSet /\ tx.value \in Nat
  BY <1>1 DEF Transactions
<1>4. Prepaid(d, Proxy(tx), written) /\ d \in WorldSet /\ Tidy(LedgerOf(d))
  <2>1. Prepaid(d, Proxy(tx), written)
    BY <1>1, <1>2, PrepaidWarmed DEF Dispatched
  <2> HIDE DEF d
  <2> QED
    BY <2>1 DEF Prepaid, Unspent
<1>5. Delegating <=> ~tx.create /\ Delegated(callee.code)
  BY DEF Delegating, Callee
<1> HIDE DEF d
<1>6. \A x \in Address : d.accounts[x].code \in CodeSet
  BY <1>4 DEF WorldSet, AccountSet
<1>7. Delegating => to \in Address
  BY <1>3, <1>5, <1>6, DelegateType
<1>8. Prepaid(warmed, Proxy(tx), written) /\ LedgerOf(warmed) = LedgerOf(d)
  <2> HIDE DEF to
  <2>1. CASE Delegating
    <3>1. Prepaid(WarmAccount(d, to), Proxy(tx), written)
      BY <1>4, <1>7, <2>1, PrepaidWarm
    <3>2. LedgerOf(WarmAccount(d, to)) = LedgerOf(d)
      BY <1>4, <1>7, <2>1, WarmUnseen
    <3> QED
      BY <2>1, <3>1, <3>2
  <2>2. CASE ~Delegating
    BY <1>4, <2>2
  <2> QED
    BY <2>1, <2>2
<1>9. warmed \in WorldSet
  BY <1>8 DEF Prepaid
<1> HIDE DEF warmed
<1>10. /\ started \in WorldSet /\ Tidy(LedgerOf(started))
       /\ \A x \in Address : started.accounts[x].balance = warmed.accounts[x].balance
       /\ tx.create => LedgerOf(started)[tx.to].nonce = 1
       /\ ~tx.create => LedgerOf(started)[tx.to].code = callee.code
  <2>1. CASE tx.create
    <3> DEFINE y == tx.to
               v == NewContract(warmed, y)
               l == LedgerOf(d)
               m == LedgerOf(v)
    <3>1. y \in Address /\ v \in WorldSet
      BY <1>3, <1>9, NewContractType
    <3>2. \A x \in Address : v.accounts[x].balance = warmed.accounts[x].balance
      BY <1>9, <3>1, NewContractType
    <3>3. m = Nested!Started(l, y)
      BY <1>8, <1>9, <3>1, NewContractLedger
    <3>4. l \in [Address -> FaceSet] /\ Tidy(l)
      BY <1>4, LedgerType
    <3> HIDE DEF l, m, v, y
    <3>5. Tidy(m) /\ m[y].nonce = 1
      BY <3>1, <3>3, <3>4, StartedOnward
    <3> QED
      BY <2>1, <3>1, <3>2, <3>5 DEF m, v, y
  <2>2. CASE ~tx.create
    <3>1. LedgerOf(d)[tx.to].code = callee.code
      BY <1>3, FaceOf
    <3> QED
      BY <1>4, <1>8, <1>9, <2>2, <3>1
  <2> QED
    BY <1>3, <2>1, <2>2
<1> HIDE DEF started
<1>11. /\ u \in WorldSet /\ Tidy(LedgerOf(u))
       /\ Worth(LedgerOf(u)) = Worth(LedgerOf(EscrowPaid(warmed)))
       /\ \A x \in Address : /\ LedgerOf(u)[x].nonce = LedgerOf(started)[x].nonce
                             /\ LedgerOf(u)[x].code = LedgerOf(started)[x].code
  BY SMTT(30), <1>1, <1>8, <1>10, MessagePaid
<1> HIDE DEF u
<1>12. code \in CodeSet /\ (code.len # 0 => Alive(LedgerOf(u), tx.to))
  <2>1. CASE tx.create
    <3>1. code = tx.code
      BY <1>5, <2>1
    <3> HIDE DEF code
    <3>2. Alive(LedgerOf(u), tx.to)
      BY <1>3, <1>10, <1>11, <2>1 DEF Alive
    <3> QED
      BY <1>3, <3>1, <3>2
  <2>2. CASE ~tx.create /\ Delegating
    <3>1. code = NoCode \/ code = d.accounts[to].code
      BY <2>2
    <3> HIDE DEF code
    <3>2. callee.code.len # 0
      <4>1. LedgerOf(d)[tx.to].code = callee.code
        BY <1>3, FaceOf
      <4>2. callee.code.len = 0 => callee.code = NoCode
        BY <1>3, <1>4, <4>1 DEF Tidy, Clean
      <4> QED
        BY <1>5, <2>2, <4>2 DEF Delegated, NoCode
    <3>3. Alive(LedgerOf(u), tx.to)
      BY <1>3, <1>10, <1>11, <2>2, <3>2 DEF Alive
    <3> QED
      BY <1>6, <1>7, <2>2, <3>1, <3>3, NoCodeType
  <2>3. CASE ~tx.create /\ ~Delegating
    <3>1. code = callee.code
      BY <2>3
    <3> HIDE DEF code
    <3>2. code.len # 0 => Alive(LedgerOf(u), tx.to)
      BY <1>3, <1>10, <1>11, <2>3, <3>1 DEF Alive
    <3> QED
      BY <1>3, <1>6, <3>1, <3>2
  <2> QED
    BY <1>3, <2>1, <2>2, <2>3
<1> HIDE DEF code
<1>13. /\ frame' \in FrameSet /\ Proper(frame')
       /\ frame'.address = tx.to /\ frame'.code = code
  <2>1. op \in {"Precompile", "Running"}
    OBVIOUS
  <2> HIDE DEF op
  <2>2. Plain(op) \in ActionSet
    BY <2>1, PlainType
  <2>3. Plain(op).op = op
    BY DEF Plain
  <2> DEFINE action == Plain(op)
  <2> HIDE DEF action
  <2>4. frame' = [frame EXCEPT !.code = code, !.action = action]
    BY <1>1 DEF action
  <2>5. action \in ActionSet
    BY <2>2 DEF action
  <2>6. frame' \in FrameSet /\ frame'.address = frame.address /\ frame'.code = code
        /\ frame'.output = frame.output /\ frame'.action = action
    BY <1>2, <1>12, <2>4, <2>5 DEF FrameSet
  <2> QED
    BY NothingCanonical, <1>2, <2>1, <2>3, <2>6 DEF action, Proper, Asks
<1>14. Sound(meter') /\ SpillsLast(meter')
  <2>1. DispatchBirth \in BOOLEAN
    BY <1>3 DEF DispatchBirth, IsEmpty
  <2>2. DispatchPrice \in Nat
    BY AccessNat DEF DispatchPrice
  <2>3. /\ CanSpendBirth(CommittedMeter, DispatchBirth)
        /\ CanCharge(SpendBirth(CommittedMeter, DispatchBirth), DispatchPrice)
    BY <1>1 DEF CanDispatch
  <2> QED
    BY <1>1, <1>2, <2>1, <2>2, <2>3, DispatchMeter
<1>15. Prepaid(snapshot', tx.gas, written)
  BY <1>1, <1>8, EscrowPrepaid
<1>16. Worth(LedgerOf(world')) = Worth(LedgerOf(snapshot'))
  BY <1>1, <1>11
<1> QED
  BY <1>1, <1>2, <1>11, <1>12, <1>13, <1>14, <1>15, <1>16, Started

\* Every step of the machine is one the call machine may take.
LEMMA RunPrepared ==
  ASSUME IsFiniteSet(Address), TidyStart, TInv, Run
  PROVE  TInv'
<1>1. /\ phase = "Running" /\ phase' = phase /\ tx' = tx /\ written' = written
      /\ snapshot' = snapshot /\ [Next]_vars
  BY DEF Run, book, Next
<1>2. /\ LInv /\ Prepaid(snapshot, tx.gas, written)
      /\ Solvent(world, parents, Worth(LedgerOf(snapshot)))
  BY <1>1 DEF TInv, Underway
<1>3. LInv' /\ Accounted
  BY <1>1, <1>2, NextBooks
<1>4. IInv /\ IInv'
  BY <1>2, <1>3 DEF LInv
<1> DEFINE W == Worth(LedgerOf(snapshot))
<1>5. Solvent(world', parents', W)
  <2>1. Solvent(world, parents, W)
    BY <1>2
  <2> HIDE DEF W
  <2> QED
    BY <1>3, <1>4, <2>1, LedgerConserves
<1>6. Worth(LedgerOf(snapshot')) = W
  BY <1>1
<1>7. Prepaid(snapshot', tx'.gas, written')
  BY <1>1, <1>2
<1>8. Solvent(world', parents', Worth(LedgerOf(snapshot')))
  <2> HIDE DEF W
  <2> QED
    BY <1>5, <1>6
<1>9. Underway'
  <2> HIDE DEF Prepaid
  <2> QED
    BY <1>3, <1>7, <1>8 DEF Underway, Solvent, Worth, Balances, LedgerOf
<1>10. Prepared'
  BY <1>1 DEF Prepared
<1> QED
  BY <1>1, <1>9, <1>10 DEF TInv, Valid

----------------------------------------------------------------------------
(* The settlement.                                                         *)

\* transaction-wide.bend:104-109.  The charge lies between the floor and the
\* limit, and leaves no more than its share to be refunded.
LEMMA ChargeBetween ==
  ASSUME tx \in Transactions, Valid(tx), NEW used \in Int, NEW refund \in Nat,
         used <= tx.gas
  PROVE  /\ Charged(used, refund) \in Nat
         /\ tx.cost.floor <= Charged(used, refund) /\ Charged(used, refund) <= tx.gas
         /\ Charged(used, refund) >= used - used \div RefundQuotient
<1> DEFINE share == used \div RefundQuotient
           capped == Least(refund, share)
           floor == tx.cost.floor
           gas == tx.gas
<1>1. RefundQuotient \in Nat /\ RefundQuotient > 0
  BY LimitsNat
<1>2. share \in Int /\ (used >= 0 => share >= 0) /\ (used < 0 => used <= share)
  BY <1>1
<1> HIDE DEF share
<1>3. capped \in Int /\ capped <= share /\ (capped = refund \/ capped = share)
  BY <1>2 DEF Least
<1> HIDE DEF capped
<1>4. floor \in Nat /\ gas \in Nat /\ floor <= gas /\ used <= gas
  BY GasSplit
<1>5. Charged(used, refund) = IF used - capped < floor THEN floor ELSE used - capped
  BY DEF Charged, capped, share
<1> HIDE DEF floor, gas
<1>6. used - capped <= gas
  BY <1>2, <1>3, <1>4
<1>7. /\ Charged(used, refund) \in Nat /\ floor <= Charged(used, refund)
      /\ Charged(used, refund) <= gas /\ Charged(used, refund) >= used - share
  BY <1>2, <1>3, <1>4, <1>5, <1>6
<1> QED
  BY <1>7 DEF floor, gas, share

\* transaction-finish.bend:49-57.  Deletion leaves balances, and nobody is
\* deleted who is not scheduled.
LEMMA DestroyKeeps ==
  ASSUME NEW w \in WorldSet
  PROVE  /\ \A x \in Address : Destroy(w).accounts[x].balance = w.accounts[x].balance
         /\ Destroy(w).logs = w.logs /\ Destroy(w).selfdestructs = w.selfdestructs
         /\ w.selfdestructs = <<>> =>
              \A x \in Address : Destroy(w).accounts[x] = w.accounts[x]
<1>1. \A x \in Address : w.accounts[x] \in AccountSet
  BY DEF WorldSet
<1>2. \A old \in AccountSet :
        Modified([old EXCEPT !.nonce = 0, !.code = NoCode,
                             !.storage = ZeroSlots]).balance = old.balance
  <2> SUFFICES ASSUME NEW old \in AccountSet
               PROVE  Modified([old EXCEPT !.nonce = 0, !.code = NoCode,
                                           !.storage = ZeroSlots]).balance = old.balance
    OBVIOUS
  <2> DEFINE bare == [old EXCEPT !.nonce = 0, !.code = NoCode, !.storage = ZeroSlots]
  <2>1. bare \in AccountSet /\ bare.balance = old.balance
    BY ZeroSlotsType, NoCodeType DEF AccountSet
  <2> HIDE DEF bare
  <2>2. Modified(bare).balance = bare.balance
    BY <2>1, ModifiedType
  <2> QED
    BY <2>1, <2>2 DEF bare
<1> DEFINE table == [x \in Address |->
             IF x \in ToSet(w.selfdestructs)
             THEN Modified([w.accounts[x] EXCEPT !.nonce = 0, !.code = NoCode,
                                                 !.storage = ZeroSlots])
             ELSE w.accounts[x]]
<1>3. \A x \in Address : table[x].balance = w.accounts[x].balance
  BY <1>1, <1>2
<1>4. w.selfdestructs = <<>> => \A x \in Address : table[x] = w.accounts[x]
  BY DEF ToSet
<1>5. Destroy(w) = [w EXCEPT !.accounts = table]
  BY DEF Destroy
<1> HIDE DEF table
<1>6. /\ Destroy(w).accounts = table /\ Destroy(w).logs = w.logs
      /\ Destroy(w).selfdestructs = w.selfdestructs
  BY <1>5 DEF WorldSet
<1> QED
  BY <1>3, <1>4, <1>6

\* transaction-wide.bend:114-118.  What the fees add to the ether there is.
LEMMA FeesAdd ==
  ASSUME IsFiniteSet(Address), NEW w \in WorldSet, NEW r,
         NEW left \in Nat, NEW used \in Nat, r.left = left, r.used = used
  PROVE  Ether(PayFees(w, r)) = Ether(w) + left * GasPrice + used * Priority
         /\ Ether(w) \in Int
<1> DEFINE back == left * GasPrice
           tip == used * Priority
           v == Credit(w, Origin, back)
           u == Credit(v, Coinbase, tip)
<1>1. back \in Nat /\ tip \in Nat /\ Origin \in Address /\ Coinbase \in Address
  BY LimitsNat
<1>2. PayFees(w, r) = Destroy(u)
  BY DEF PayFees
<1> HIDE DEF back, tip
<1>3. \A z \in WorldSet, x \in Address, d \in Nat : z.accounts[x].balance + d \in Nat /\ d \in Int
  BY DEF WorldSet, AccountSet
<1>4. v \in WorldSet /\ Ether(v) = Ether(w) + back /\ Ether(w) \in Int
  <2>1. w.accounts[Origin].balance + back \in Nat /\ back \in Int
    BY <1>1, <1>3
  <2> QED
    BY <1>1, <2>1, CreditType, EtherOfCredit
<1> HIDE DEF v
<1>5. u \in WorldSet /\ Ether(u) = Ether(v) + tip
  <2>1. v.accounts[Coinbase].balance + tip \in Nat /\ tip \in Int
    BY <1>1, <1>3, <1>4
  <2> QED
    BY <1>1, <1>4, <2>1, CreditType, EtherOfCredit
<1> HIDE DEF u
<1>6. Ether(Destroy(u)) = Ether(u)
  <2>1. \A x \in Address : Destroy(u).accounts[x].balance = u.accounts[x].balance
    BY <1>5, DestroyKeeps
  <2> QED
    BY <2>1, SameEther
<1>7. Ether(PayFees(w, r)) = Ether(w) + back + tip /\ Ether(w) \in Int
  BY <1>1, <1>2, <1>4, <1>5, <1>6
<1> QED
  BY <1>7 DEF back, tip

\* transaction-wide.bend:114-118.  What the fees leave, when there is nothing
\* to delete.
LEMMA FeesLeave ==
  ASSUME NEW w \in WorldSet, Tidy(LedgerOf(w)), w.logs = <<>>, w.selfdestructs = <<>>,
         NEW r, NEW left \in Nat, NEW used \in Nat, r.left = left, r.used = used
  PROVE  LET v == PayFees(w, r)
         IN  /\ v.logs = <<>> /\ v.selfdestructs = <<>>
             /\ \A x \in Address :
                  /\ v.accounts[x].nonce = w.accounts[x].nonce
                  /\ v.accounts[x].code = w.accounts[x].code
                  /\ v.accounts[x].storage = w.accounts[x].storage
                  /\ x \notin {Origin, Coinbase} =>
                       v.accounts[x].balance = w.accounts[x].balance
<1> DEFINE back == left * GasPrice
           tip == used * Priority
           v == Credit(w, Origin, back)
           u == Credit(v, Coinbase, tip)
           l == LedgerOf(w)
           m == LedgerOf(v)
           n == LedgerOf(u)
<1>1. back \in Nat /\ tip \in Nat /\ Origin \in Address /\ Coinbase \in Address
  BY LimitsNat
<1>2. PayFees(w, r) = Destroy(u)
  BY DEF PayFees
<1> HIDE DEF back, tip
<1>3. \A z \in WorldSet, x \in Address, d \in Nat : z.accounts[x].balance + d \in Nat /\ d \in Int
  BY DEF WorldSet, AccountSet
<1>4. /\ v \in WorldSet /\ m = [l EXCEPT ![Origin].balance = @ + back]
      /\ v.logs = <<>> /\ v.selfdestructs = <<>>
  <2>1. w.accounts[Origin].balance + back \in Nat /\ back \in Int
    BY <1>1, <1>3
  <2> QED
    BY <1>1, <2>1, CreditType, CreditLedger, CreditAside
<1>5. l \in [Address -> FaceSet]
  BY LedgerType
<1>6. m \in [Address -> FaceSet]
  BY <1>4, LedgerType
<1> HIDE DEF v
<1>7. /\ \A x \in Address : /\ m[x].nonce = l[x].nonce /\ m[x].code = l[x].code
                            /\ m[x].storage = l[x].storage
                            /\ x # Origin => m[x].balance = l[x].balance
      /\ Tidy(m)
  <2> HIDE DEF l, m
  <2>1. \A x \in Address : /\ m[x].nonce = l[x].nonce /\ m[x].code = l[x].code
                           /\ m[x].storage = l[x].storage
                           /\ x # Origin => m[x].balance = l[x].balance
    BY <1>1, <1>4, <1>5 DEF FaceSet
  <2>2. Tidy(l)
    BY DEF l
  <2> QED
    BY <2>1, <2>2 DEF Tidy, Clean
<1>8. /\ u \in WorldSet /\ n = [m EXCEPT ![Coinbase].balance = @ + tip]
      /\ u.logs = <<>> /\ u.selfdestructs = <<>>
  <2>1. v.accounts[Coinbase].balance + tip \in Nat /\ tip \in Int
    BY <1>1, <1>3, <1>4
  <2>2. Tidy(LedgerOf(v))
    BY <1>7
  <2>3. u \in WorldSet
    BY <1>1, <1>4, <2>1, CreditType
  <2>6. v \in WorldSet
    BY <1>4
  <2>4. LedgerOf(u) = [LedgerOf(v) EXCEPT ![Coinbase].balance = @ + tip]
    BY <1>1, <2>1, <2>2, <2>6, CreditLedger
  <2>5. u.logs = v.logs /\ u.selfdestructs = v.selfdestructs
    BY <1>1, <1>4, CreditAside
  <2> QED
    BY <1>4, <2>3, <2>4, <2>5
<1> HIDE DEF u
<1>9. \A x \in Address : /\ n[x].nonce = m[x].nonce /\ n[x].code = m[x].code
                         /\ n[x].storage = m[x].storage
                         /\ x # Coinbase => n[x].balance = m[x].balance
  <2> HIDE DEF n, m
  <2> QED
    BY <1>1, <1>6, <1>8 DEF FaceSet
<1>10. \A x \in Address : Destroy(u).accounts[x] = u.accounts[x]
  BY <1>8, DestroyKeeps
<1>11. Destroy(u).logs = <<>> /\ Destroy(u).selfdestructs = <<>>
  BY <1>8, DestroyKeeps
<1>12. \A x \in Address :
         /\ n[x].nonce = u.accounts[x].nonce /\ n[x].code = u.accounts[x].code
         /\ n[x].storage = u.accounts[x].storage /\ n[x].balance = u.accounts[x].balance
         /\ l[x].nonce = w.accounts[x].nonce /\ l[x].code = w.accounts[x].code
         /\ l[x].storage = w.accounts[x].storage /\ l[x].balance = w.accounts[x].balance
  BY FaceOf
<1> HIDE DEF l, m, n
<1> QED
  BY <1>2, <1>7, <1>9, <1>10, <1>11, <1>12

\* full/transaction-finish.bend:26-47.  The outermost frame ends with a meter,
\* and a world that lacks the price of all the gas.
LEMMA Outcome ==
  ASSUME IsFiniteSet(Address), TInv, phase = "Running", parents = <<>>
  PROVE  /\ Sound(FinalMeter) /\ SameHistory(meter, FinalMeter)
         /\ FinalWorld \in WorldSet
         /\ Ether(FinalWorld) + tx.gas * GasPrice = Ether(Start)
         /\ ~Completes => Prepaid(FinalWorld, tx.gas, written)
<1>1. /\ tx \in Transactions /\ IInv /\ Prepaid(snapshot, tx.gas, written)
      /\ Worth(LedgerOf(world)) = Worth(LedgerOf(snapshot))
  BY DEF TInv, Underway, LInv, Solvent
<1>2. /\ tx.to \in Address /\ tx.create \in BOOLEAN /\ world \in WorldSet
      /\ frame.output \in CodeSet /\ Sound(meter) /\ tx.gas \in Nat
  <2>1. frame \in FrameSet
    BY <1>1, RunningTyped
  <2> QED
    BY <1>1, <2>1, RunningTyped DEF Transactions, FrameSet
<1>3. Sound(FinalMeter) /\ SameHistory(meter, FinalMeter)
  <2>1. CASE Completes /\ tx.create
    <3>1. FinalMeter = Deposited(frame.output) /\ CanDeposit(frame.output)
      BY <2>1 DEF FinalMeter, Completes
    <3> QED
      BY <1>1, <1>2, <3>1, DepositedSound
  <2>2. CASE Completes /\ ~tx.create
    <3>1. FinalMeter = meter
      BY <2>2 DEF FinalMeter, Completes
    <3> QED
      BY <1>2, <3>1 DEF SameHistory
  <2>3. CASE ~Succeeded
    <3>1. FinalMeter = Settled
      BY <2>3 DEF FinalMeter, Completes
    <3> QED
      BY <1>1, <3>1, SettledSound
  <2>4. CASE Succeeded /\ ~Completes
    <3> DEFINE spent == Exhaust(meter)
    <3>1. FinalMeter = Settle(spent, FALSE, FALSE)
      BY <2>4 DEF FinalMeter, Completes
    <3>2. Sound(spent) /\ SameHistory(meter, spent)
      BY <1>2, ExhaustSound
    <3> HIDE DEF spent
    <3>3. /\ Sound(Settle(spent, FALSE, FALSE))
          /\ SameHistory(spent, Settle(spent, FALSE, FALSE))
      BY <3>2, SettleSound
    <3> QED
      BY <3>1, <3>2, <3>3 DEF SameHistory
  <2> QED
    BY <1>2, <2>1, <2>2, <2>3, <2>4 DEF Completes
<1>4. Ether(snapshot) + tx.gas * GasPrice = Ether(Start) /\ Ether(world) = Ether(snapshot)
  <2>1. Ether(world) = Ether(snapshot)
    BY <1>1, EtherIsWorth
  <2> DEFINE gas == tx.gas
  <2>2. gas \in Nat /\ Prepaid(snapshot, gas, written)
    BY <1>1, <1>2
  <2> HIDE DEF gas
  <2>3. Ether(snapshot) + gas * GasPrice = Ether(Start)
    BY <2>2, PrepaidEther
  <2> QED
    BY <2>1, <2>3 DEF gas
<1>5. CASE Completes /\ tx.create
  <2> DEFINE y == tx.to
             code == frame.output
             old == world.accounts[y]
             account == [old EXCEPT !.code = code]
             v == Modify(world, y, account)
  <2>1. FinalWorld = v
    BY <1>5 DEF FinalWorld, SetCode
  <2>2. y \in Address /\ old \in AccountSet /\ code \in CodeSet
    BY <1>2 DEF WorldSet
  <2>3. account \in AccountSet /\ account.balance = old.balance
    <3> HIDE DEF old, code
    <3> QED
      BY <2>2 DEF AccountSet
  <2> HIDE DEF account, y
  <2>4. v \in WorldSet /\ \A x \in Address : v.accounts[x].balance = world.accounts[x].balance
    <3>1. /\ v \in WorldSet /\ v.accounts[y].balance = account.balance
          /\ \A x \in Address \ {y} : v.accounts[x] = world.accounts[x]
      BY <1>2, <2>2, <2>3, ModifyType
    <3> HIDE DEF v
    <3> QED
      BY <2>2, <2>3, <3>1
  <2> HIDE DEF v
  <2>5. Ether(v) = Ether(world)
    BY <2>4, SameEther
  <2> QED
    BY <1>3, <1>4, <1>5, <2>1, <2>4, <2>5
<1>6. CASE Completes /\ ~tx.create
  <2>1. FinalWorld = world
    BY <1>6 DEF FinalWorld
  <2> QED
    BY <1>2, <1>3, <1>4, <1>6, <2>1
<1>7. CASE ~Completes
  <2> DEFINE v == [snapshot EXCEPT !.refund = 0]
  <2>1. FinalWorld = v
    BY <1>7 DEF FinalWorld
  <2>2. snapshot \in WorldSet
    BY <1>1 DEF Prepaid
  <2>3. /\ v \in WorldSet /\ v.accounts = snapshot.accounts /\ v.logs = snapshot.logs
        /\ v.selfdestructs = snapshot.selfdestructs
    BY SMTT(30), <2>2 DEF WorldSet
  <2> HIDE DEF v
  <2>4. LedgerOf(v) = LedgerOf(snapshot) /\ Ether(v) = Ether(snapshot)
    BY <2>3, SameLedger, SameEther
  <2>5. Prepaid(v, tx.gas, written)
    BY <1>1, <2>3, <2>4, PrepaidAside
  <2> QED
    BY <1>3, <1>4, <2>1, <2>3, <2>4, <2>5
<1> QED
  BY <1>2, <1>5, <1>6, <1>7

\* What is true of a completed transaction.
Concluded ==
  /\ Completed => Ether(world) + receipt.used * (GasPrice - Priority) = Ether(Start)
  /\ ChargeBounded
  /\ FailureLeavesOnlyFees

\* transaction-wide.bend:93-126.  The figures of a settlement.
LEMMA SettlementOf ==
  ASSUME tx \in Transactions, Valid(tx), Sound(FinalMeter), FinalWorld \in WorldSet
  PROVE  /\ Settlement.success = Completes
         /\ Settlement.used \in Nat /\ Settlement.left \in Nat
         /\ Settlement.used + Settlement.left = tx.gas
         /\ tx.cost.floor <= Settlement.used /\ Settlement.used <= tx.gas
         /\ Settlement.used >= Settlement.before - Settlement.before \div RefundQuotient
<1> DEFINE used == tx.gas - FinalMeter.gas - FinalMeter.reservoir - EscrowOf(tx)
           refund == Positive(FinalWorld.refund)
           fee == Charged(used, refund)
<1>1. /\ Settlement.success = Completes /\ Settlement.before = used
      /\ Settlement.used = fee /\ Settlement.left = tx.gas - fee
  BY DEF Settlement
<1>2. FinalMeter.gas \in Nat /\ FinalMeter.reservoir \in Nat
  BY DEF Sound, MeterSet
<1>3. tx.gas \in Nat /\ EscrowOf(tx) \in Nat
  BY GasSplit
<1>4. used \in Int /\ used <= tx.gas
  BY <1>2, <1>3
<1>5. refund \in Nat
  BY DEF Positive, WorldSet
<1> HIDE DEF used, refund
<1>6. /\ fee \in Nat /\ tx.cost.floor <= fee /\ fee <= tx.gas
      /\ fee >= used - used \div RefundQuotient
  BY <1>4, <1>5, ChargeBetween
<1> HIDE DEF fee
<1>7. tx.gas - fee \in Nat /\ fee + (tx.gas - fee) = tx.gas
  BY <1>3, <1>6
<1> QED
  BY <1>1, <1>6, <1>7

\* full/transaction-finish.bend:26-86.  What the last step leaves.
LEMMA FinishConcludes ==
  ASSUME IsFiniteSet(Address), TInv, Finish
  PROVE  TInv' /\ Concluded'
<1> DEFINE r == Settlement
<1>1. /\ phase = "Running" /\ parents = <<>> /\ phase' = "Completed" /\ tx' = tx
      /\ written' = written /\ receipt' = r /\ world' = PayFees(FinalWorld, r)
      /\ tx \in Transactions /\ Valid(tx)
  BY DEF TInv, Finish
<1>2. /\ Sound(FinalMeter) /\ FinalWorld \in WorldSet
      /\ Ether(FinalWorld) + tx.gas * GasPrice = Ether(Start)
      /\ ~Completes => Prepaid(FinalWorld, tx.gas, written)
  BY <1>1, Outcome
<1>3. /\ r.success = Completes /\ r.used \in Nat /\ r.left \in Nat
      /\ r.used + r.left = tx.gas /\ tx.cost.floor <= r.used /\ r.used <= tx.gas
      /\ r.used >= r.before - r.before \div RefundQuotient
  BY <1>1, <1>2, SettlementOf
<1> HIDE DEF r
<1>4. TInv'
  BY <1>1 DEF TInv, Valid, Prepared, Underway
<1>5. ChargeBounded'
  BY <1>1, <1>3 DEF ChargeBounded
<1>6. Ether(world') + r.used * (GasPrice - Priority) = Ether(Start)
  <2> DEFINE fee == r.used
             left == r.left
             gas == tx.gas
             all == gas * GasPrice
             back == left * GasPrice
             tip == fee * Priority
             cut == fee * (GasPrice - Priority)
  <2>1. fee \in Nat /\ left \in Nat /\ fee + left = gas /\ gas \in Nat
    BY <1>3
  <2>2. Ether(world') = Ether(FinalWorld) + back + tip /\ Ether(FinalWorld) \in Int
    BY <1>1, <1>2, <2>1, FeesAdd
  <2> HIDE DEF fee, left, gas
  <2>3. back + tip + cut = all /\ back \in Int /\ tip \in Int /\ cut \in Int /\ all \in Int
    <3>1. all = fee * GasPrice + back
      BY <2>1, LimitsNat
    <3>2. fee * GasPrice = tip + cut
      BY <2>1, LimitsNat
    <3> QED
      BY <2>1, <3>1, <3>2, LimitsNat
  <2>4. Ether(FinalWorld) + all = Ether(Start)
    BY <1>2 DEF gas
  <2> HIDE DEF all, back, tip, cut
  <2>5. Ether(world') + cut = Ether(Start)
    BY <2>2, <2>3, <2>4
  <2> QED
    BY <2>5 DEF cut, fee
<1>7. (Completed => Ether(world) + receipt.used * (GasPrice - Priority) = Ether(Start))'
  BY <1>1, <1>6 DEF Ether
<1>8. FailureLeavesOnlyFees'
  <2> SUFFICES ASSUME ~Completes
               PROVE  FailureLeavesOnlyFees'
    BY <1>1, <1>3 DEF FailureLeavesOnlyFees
  <2> DEFINE w == FinalWorld
             v == world'
             left == r.left
             used == r.used
  <2>1. /\ w \in WorldSet /\ w.logs = <<>> /\ w.selfdestructs = <<>>
        /\ Unspent(LedgerOf(w), tx.gas, written)
    BY <1>2 DEF Prepaid
  <2>2. Tidy(LedgerOf(w))
    BY <2>1 DEF Unspent
  <2>3. left \in Nat /\ used \in Nat /\ r.left = left /\ r.used = used
    BY <1>3
  <2>4. v = PayFees(w, r)
    BY <1>1
  <2> HIDE DEF w, v, left, used
  <2>5. /\ v.logs = <<>> /\ v.selfdestructs = <<>>
        /\ \A x \in Address :
             /\ v.accounts[x].nonce = w.accounts[x].nonce
             /\ v.accounts[x].code = w.accounts[x].code
             /\ v.accounts[x].storage = w.accounts[x].storage
             /\ x \notin {Origin, Coinbase} =>
                  v.accounts[x].balance = w.accounts[x].balance
    BY <2>1, <2>2, <2>3, <2>4, FeesLeave
  <2>6. \A x \in Address :
          /\ w.accounts[x].storage = Start.accounts[x].storage
          /\ x # Origin => w.accounts[x].balance = Start.accounts[x].balance
          /\ x \notin written => w.accounts[x].code = Start.accounts[x].code
          /\ x \notin written /\ x # Origin =>
               w.accounts[x].nonce = Start.accounts[x].nonce
    BY <2>1, FaceOf DEF Unspent
  <2>7. w.accounts[Origin].nonce # Start.accounts[Origin].nonce /\ Origin \in Address
    <3>1. Prepaid(w, tx.gas, written)
      BY <1>2 DEF w
    <3>2. Start.accounts[Origin].nonce \in Nat
      BY StartAccounts, LimitsNat
    <3> QED
      BY <3>1, <3>2, PrepaidSender, LimitsNat
  <2>8. \A x \in Address :
          /\ v.accounts[x].storage = Start.accounts[x].storage
          /\ v.accounts[x].balance # Start.accounts[x].balance => x \in {Origin, Coinbase}
          /\ v.accounts[x].code # Start.accounts[x].code => x \in written
          /\ v.accounts[x].nonce # Start.accounts[x].nonce => x = Origin \/ x \in written
    BY <2>5, <2>6
  <2>9. v.accounts[Origin].nonce # Start.accounts[Origin].nonce
    BY <2>5, <2>7
  <2> QED
    BY <1>1, <2>5, <2>8, <2>9 DEF v, FailureLeavesOnlyFees, Changed
<1> QED
  BY <1>4, <1>5, <1>7, <1>8 DEF Concluded

----------------------------------------------------------------------------
(* The theorems.                                                           *)

TxInv == TInv /\ Concluded

\* What is accepted satisfies the invariant.
LEMMA TxInitInv ==
  ASSUME TidyStart, TxInit
  PROVE  TxInv
<1>1. TInv
  BY TxInitPrepared
<1>2. phase = "Authorizing"
  BY DEF TxInit
<1> QED
  BY <1>1, <1>2 DEF TxInv, Concluded, Completed, ChargeBounded, FailureLeavesOnlyFees

\* Every step keeps it.
LEMMA TxNextInv ==
  ASSUME IsFiniteSet(Address), TidyStart, TxInv, [TxNext]_tvars
  PROVE  TxInv'
<1>0. TInv /\ Concluded
  BY DEF TxInv
<1>1. ASSUME TInv', phase' # "Completed"
      PROVE  TxInv'
  BY <1>1 DEF TxInv, Concluded, Completed, ChargeBounded, FailureLeavesOnlyFees
<1>2. CASE Authorize
  <2>1. phase' # "Completed"
    BY <1>2 DEF Authorize
  <2> QED
    BY <1>0, <1>1, <1>2, <2>1, AuthorizePrepared
<1>3. CASE DispatchFails
  <2>1. phase' # "Completed"
    BY <1>3 DEF DispatchFails
  <2> QED
    BY <1>0, <1>1, <1>3, <2>1, DispatchFailsPrepared
<1>4. CASE Dispatch
  <2>1. phase' # "Completed"
    BY <1>4 DEF Dispatch
  <2> QED
    BY <1>0, <1>1, <1>4, <2>1, DispatchPrepared
<1>5. CASE Run
  <2>1. phase' # "Completed"
    BY <1>5 DEF Run
  <2> QED
    BY <1>0, <1>1, <1>5, <2>1, RunPrepared
<1>6. CASE Finish
  BY <1>0, <1>6, FinishConcludes DEF TxInv
<1>7. CASE Abandon
  <2>1. phase' = "Incomplete" /\ tx' = tx
    BY <1>7 DEF Abandon, book
  <2>2. TInv'
    BY <1>0, <2>1 DEF TInv, Valid, Prepared, Underway
  <2> QED
    BY <1>1, <2>1, <2>2
<1>8. CASE UNCHANGED tvars
  <2>1. /\ frame' = frame /\ meter' = meter /\ world' = world /\ parents' = parents
        /\ phase' = phase /\ tx' = tx /\ auths' = auths /\ written' = written
        /\ before' = before /\ snapshot' = snapshot /\ receipt' = receipt
    BY <1>8 DEF tvars, vars, book
  <2>2. CASE phase = "Running"
    <3>1. LInv'
      <4>1. LInv /\ [Next]_vars
        BY <1>0, <1>8, <2>2 DEF TInv, Underway, tvars
      <4> QED
        BY <4>1, NextBooks
    <3>2. Underway'
      BY <1>0, <2>1, <2>2, <3>1
         DEF TInv, Underway, Prepaid, Unspent, LedgerOf, Solvent, Worth, Balances
    <3>3. Prepared'
      BY <2>1, <2>2 DEF Prepared
    <3>4. TInv'
      BY <1>0, <2>1, <3>2, <3>3 DEF TInv, Valid
    <3> QED
      BY <1>1, <2>1, <2>2, <3>4
  <2>3. CASE phase # "Running"
    <3>1. Underway'
      BY <2>1, <2>3 DEF Underway
    <3>2. Prepared'
      <4>1. CASE phase = "Authorizing"
        <5>1. IInv'
          <6>1. IInv /\ [Next]_vars
            BY <1>0, <1>8, <4>1 DEF TInv, Prepared, tvars
          <6> QED
            BY <6>1, NextInv
        <5> QED
          BY <1>0, <2>1, <4>1, <5>1 DEF TInv, Prepared, Prepaid, Unspent, LedgerOf
      <4>2. CASE phase # "Authorizing"
        BY <2>1, <4>2 DEF Prepared
      <4> QED
        BY <4>1, <4>2
    <3>3. TInv'
      BY <1>0, <2>1, <3>1, <3>2 DEF TInv, Valid
    <3>4. Concluded'
      BY <1>0, <2>1
         DEF Concluded, Completed, Ether, ChargeBounded, FailureLeavesOnlyFees, Changed
    <3> QED
      BY <3>3, <3>4 DEF TxInv
  <2> QED
    BY <2>2, <2>3
<1> QED
  BY <1>2, <1>3, <1>4, <1>5, <1>6, <1>7, <1>8 DEF TxNext, TxHalt

\* A transaction keeps it.
LEMMA TxInductive ==
  ASSUME IsFiniteSet(Address), TidyStart
  PROVE  TxSpec => []TxInv
<1>1. TxInit => TxInv
  BY TxInitInv
<1>2. TxInv /\ [TxNext]_tvars => TxInv'
  BY TxNextInv
<1> QED
  BY <1>1, <1>2, PTL DEF TxSpec

\* The sender is charged for the gas used and not a wei more or less, whatever
\* the message does: the ether missing is the price of all the gas while it
\* runs, in every world that a rollback can return to, and what the used gas
\* burnt afterwards (transaction-wide.bend:84-91, 114-118).
THEOREM EtherIsSettled ==
  ASSUME IsFiniteSet(Address), TidyStart
  PROVE  TxSpec => []EtherSettled
<1>1. TxInv => EtherSettled
  <2> SUFFICES ASSUME TxInv PROVE EtherSettled
    OBVIOUS
  <2>1. /\ tx \in Transactions /\ Valid(tx) /\ Prepared /\ Underway /\ Concluded
    BY DEF TxInv, TInv
  <2>2. ASSUME phase = "Authorizing"
        PROVE  Ether(world) + Proxy(tx) * GasPrice = Ether(Start)
    <3> DEFINE p == Proxy(tx)
    <3>1. p \in Nat /\ Prepaid(world, p, written)
      BY <2>1, <2>2, GasSplit DEF Prepared
    <3> HIDE DEF p
    <3>2. Ether(world) + p * GasPrice = Ether(Start)
      BY <3>1, PrepaidEther
    <3> QED
      BY <3>2 DEF p
  <2>3. ASSUME phase = "Running", NEW w \in Journals \cup {snapshot}
        PROVE  Ether(w) + tx.gas * GasPrice = Ether(Start)
    <3> DEFINE g == tx.gas
    <3>1. g \in Nat /\ Prepaid(snapshot, g, written)
      BY <2>1, <2>3, GasSplit DEF Underway
    <3> HIDE DEF g
    <3>2. Ether(snapshot) + g * GasPrice = Ether(Start)
      BY <3>1, PrepaidEther
    <3>3. Worth(LedgerOf(w)) = Worth(LedgerOf(snapshot))
      BY <2>1, <2>3 DEF Underway, Solvent, Journals
    <3>4. Ether(w) = Ether(snapshot)
      BY <3>3, EtherIsWorth
    <3> QED
      BY <3>2, <3>4 DEF g
  <2> QED
    BY <2>1, <2>2, <2>3 DEF EtherSettled, Concluded
<1> QED
  BY <1>1, TxInductive, PTL

\* The charge lies between the floor and the limit, and no more than its share
\* of the gas is refunded, for every message, schedule and price
\* (transaction-wide.bend:104-109).
THEOREM ChargesAreBounded ==
  ASSUME IsFiniteSet(Address), TidyStart
  PROVE  TxSpec => []ChargeBounded
<1>1. TxInv => ChargeBounded
  BY DEF TxInv, Concluded
<1> QED
  BY <1>1, TxInductive, PTL

\* A failed transaction leaves its fees, the sender's nonce and the
\* authorizations it was charged for, whatever its message and the frames below
\* it had done (full/transaction-finish.bend:64-69, transaction.bend:61-70).
THEOREM FailuresLeaveFees ==
  ASSUME IsFiniteSet(Address), TidyStart
  PROVE  TxSpec => []FailureLeavesOnlyFees
<1>1. TxInv => FailureLeavesOnlyFees
  BY DEF TxInv, Concluded
<1> QED
  BY <1>1, TxInductive, PTL
----------------------------------------------------------------------------
(* What gas is left and what state was paid for.  Seen from the world the  *)
(* message started in, the machine keeps the books of JournalProofs; what  *)
(* went before, it only took from the gas.                                 *)

\* Paying the same amount on both sides of a journal changes nothing it shows.
LEMMA EscrowShifts ==
  ASSUME IsFiniteSet(Address), NEW w \in WorldSet, NEW v \in WorldSet,
         Tidy(LedgerOf(w)), Tidy(LedgerOf(v)), Good(w, v), Fit(w, v),
         \A s \in {w, v} : s.accounts[Origin].warm /\ s.accounts[Origin].nonce # 0,
         NEW e \in Nat, e <= w.accounts[Origin].balance, e <= v.accounts[Origin].balance
  PROVE  LET b == Debit(w, Origin, e)
             u == Debit(v, Origin, e)
         IN  /\ b \in WorldSet /\ u \in WorldSet
             /\ Good(b, u) /\ Fit(b, u) /\ StatePrice(b, u) = StatePrice(w, v)
             /\ Warm(w) \subseteq Warm(b) /\ Warm(v) \subseteq Warm(u)
<1> DEFINE less == -e
           b == Credit(w, Origin, less)
           u == Credit(v, Origin, less)
<1>1. /\ Origin \in Address /\ w.accounts[Origin].balance \in Nat
      /\ v.accounts[Origin].balance \in Nat
  BY LimitsNat DEF WorldSet, AccountSet
<1>2. less \in Int /\ w.accounts[Origin].balance + less \in Nat
      /\ v.accounts[Origin].balance + less \in Nat
  BY <1>1
<1>3. Debit(w, Origin, e) = b /\ Debit(v, Origin, e) = u
  BY <1>1, DebitIsCredit
<1> HIDE DEF less
<1>4. /\ b \in WorldSet /\ b.accounts[Origin].balance = w.accounts[Origin].balance + less
      /\ \A y \in Address \ {Origin} : b.accounts[y] = w.accounts[y]
  BY <1>1, <1>2, CreditType
<1>5. /\ u \in WorldSet /\ u.accounts[Origin].balance = v.accounts[Origin].balance + less
      /\ \A y \in Address \ {Origin} : u.accounts[y] = v.accounts[y]
  BY <1>1, <1>2, CreditType
<1>6. Careful(w, b) /\ b.logs = w.logs /\ Careful(v, u) /\ u.logs = v.logs
  BY <1>1, <1>2, CreditCareful
<1>7. Grown(w, b, {}) /\ Grown(v, u, {})
  <2>1. Living(w.accounts[Origin]) /\ Living(v.accounts[Origin])
    BY DEF Living
  <2> QED
    BY <1>1, <1>2, <2>1, CreditGrown
<1> HIDE DEF b, u
<1>8. Rooted(u) /\ Owed(u) /\ Warmth(w, u)
  BY <1>5, <1>6, CarefulKeeps DEF Good
<1>9. u.accounts[Origin].warm
  BY <1>1, <1>6 DEF Careful, Fine
<1>10. Warmth(b, u)
  <2> SUFFICES ASSUME NEW x \in Address
               PROVE  /\ b.accounts[x].warm => u.accounts[x].warm
                      /\ u.accounts[x].original = b.accounts[x].original
                      /\ \/ u.accounts[x].warm
                         \/ /\ u.accounts[x].balance = b.accounts[x].balance
                            /\ u.accounts[x].nonce = b.accounts[x].nonce
                            /\ u.accounts[x].code = b.accounts[x].code
                      /\ \A k \in Key : \/ u.accounts[x].storage[k] = b.accounts[x].storage[k]
                                        \/ k \in u.accounts[x].slots
    BY DEF Warmth
  <2>1. CASE x # Origin
    BY <1>4, <1>8, <2>1 DEF Warmth
  <2>2. CASE x = Origin
    <3>1. b.accounts[x].original = w.accounts[x].original
          /\ b.accounts[x].storage = w.accounts[x].storage
      BY <1>6 DEF Careful, Fine
    <3> QED
      BY <1>8, <1>9, <2>2, <3>1 DEF Warmth
  <2> QED
    BY <2>1, <2>2
<1>11. Explained(b, u)
  <2> SUFFICES ASSUME NEW x \in Address
               PROVE  u.accounts[x].balance
                        = b.accounts[x].balance + Sent(u, 2, x) - Sent(u, 1, x)
    BY DEF Explained
  <2>1. v.accounts[x].balance = w.accounts[x].balance + Sent(v, 2, x) - Sent(v, 1, x)
    BY DEF Good, Explained
  <2>2. Sent(u, 2, x) = Sent(v, 2, x) /\ Sent(u, 1, x) = Sent(v, 1, x)
    BY <1>6 DEF Sent
  <2>3. Sent(v, 2, x) \in Int /\ Sent(v, 1, x) \in Int
    <3>1. PICK event \in LogSet : TRUE
      <4>1. [address |-> Origin, topics |-> <<>>, data |-> 0] \in LogSet
        BY <1>1 DEF LogSet
      <4> QED
        BY <4>1
    <3> QED
      BY <3>1, LogSent
  <2>4. CASE x # Origin
    BY <1>4, <1>5, <2>1, <2>2, <2>4
  <2>5. CASE x = Origin
    BY <1>1, <1>2, <1>4, <1>5, <2>1, <2>2, <2>3, <2>5
  <2> QED
    BY <2>4, <2>5
<1>12. \A x \in Address : /\ b.accounts[x].code = w.accounts[x].code
                          /\ u.accounts[x].code = v.accounts[x].code
  <2>1. \A x \in Address : w.accounts[x].code.len = 0 => w.accounts[x].code = NoCode
    BY TidyAccounts DEF Clean
  <2>2. \A x \in Address : v.accounts[x].code.len = 0 => v.accounts[x].code = NoCode
    BY TidyAccounts DEF Clean
  <2> QED
    BY <1>7, <2>1, <2>2 DEF Grown
<1>13. \A x \in Address : /\ IsEmpty(b.accounts[x]) <=> IsEmpty(w.accounts[x])
                          /\ IsEmpty(u.accounts[x]) <=> IsEmpty(v.accounts[x])
  BY <1>7 DEF Grown
<1>14. Filled(u) = Filled(v)
  BY <1>6, CarefulFills
<1>15. Fit(b, u)
  <2> HIDE DEF IsEmpty
  <2> QED
    BY <1>12, <1>13, <1>14 DEF Fit
<1>16. Newborn(b, u) = Newborn(w, v) /\ Coded(b, u) = Coded(w, v)
  <2>1. Newborn(b, u) = Newborn(w, v)
    BY <1>13 DEF Newborn
  <2> QED
    BY <1>12, <2>1 DEF Coded
<1>17. StatePrice(b, u) = StatePrice(w, v)
  BY <1>14, <1>16 DEF StatePrice
<1>18. Warm(w) \subseteq Warm(b) /\ Warm(v) \subseteq Warm(u)
  BY <1>6, CarefulWarms
<1> QED
  BY <1>3, <1>4, <1>5, <1>8, <1>10, <1>11, <1>15, <1>17, <1>18 DEF Good

\* A journal in which no slot has been written yet.
Level(w) ==
  /\ w.refund = 0
  /\ \A x \in Address : w.accounts[x].original = w.accounts[x].storage

\* A new face leaves a level journal level.
LEMMA ModifyLevel ==
  ASSUME NEW w \in WorldSet, Level(w), NEW x \in Address, NEW account \in AccountSet,
         Clean(account), account.storage = w.accounts[x].storage,
         account.original = w.accounts[x].original
  PROVE  Level(Modify(w, x, account))
<1> DEFINE now == Modified(account)
<1>1. now.original = account.original /\ now.storage = account.storage
  BY DEF Modified, Clean, IsEmpty, AccountSet
<1> HIDE DEF now
<1>2. Modify(w, x, account) = [w EXCEPT !.accounts = [w.accounts EXCEPT ![x] = now]]
  BY DEF Modify, Put, now
<1> DEFINE table == [w.accounts EXCEPT ![x] = now]
           v == Modify(w, x, account)
<1>3. \A y \in Address : table[y] = IF y = x THEN now ELSE w.accounts[y]
  BY DEF WorldSet
<1>4. v = [w EXCEPT !.accounts = table]
  BY <1>2
<1> HIDE DEF table, v
<1>5. v.refund = w.refund /\ v.accounts = table
  BY <1>4 DEF WorldSet
<1> QED
  BY <1>1, <1>3, <1>5 DEF Level, v

\* Neither do a payment and a spent nonce.
LEMMA SpendingLevel ==
  ASSUME NEW w \in WorldSet, Level(w), Tidy(LedgerOf(w)), NEW x \in Address,
         NEW amount \in Nat, amount <= w.accounts[x].balance, w.accounts[x].nonce # 0
  PROVE  Level(Debit(w, x, amount))
<1> DEFINE old == w.accounts[x]
           left == old.balance - amount
           now == [old EXCEPT !.balance = left]
<1>1. old \in AccountSet /\ Clean(old)
  BY TidyAccounts
<1>2. left \in Nat
  BY <1>1 DEF AccountSet
<1>3. Debit(w, x, amount) = Modify(w, x, now)
  BY DEF Debit
<1> HIDE DEF old, left
<1>4. /\ now \in AccountSet /\ now.storage = old.storage /\ now.original = old.original
      /\ now.nonce = old.nonce /\ now.code = old.code
  BY <1>1, <1>2 DEF AccountSet
<1> HIDE DEF now
<1>5. Clean(now)
  BY <1>1, <1>4 DEF Clean
<1> QED
  BY <1>3, <1>4, <1>5, ModifyLevel DEF old

\* A designation, or none, with a nonce.
LEMMA CodeLevel ==
  ASSUME NEW w \in WorldSet, Level(w), NEW x \in Address, NEW code \in CodeSet,
         code.len = 0 => code = NoCode
  PROVE  Level(Modify(w, x, [w.accounts[x] EXCEPT !.code = code, !.nonce = @ + 1]))
<1> DEFINE old == w.accounts[x]
           next == old.nonce + 1
           now == [old EXCEPT !.code = code, !.nonce = next]
<1>1. old \in AccountSet
  BY DEF WorldSet
<1>2. next \in Nat \ {0}
  BY <1>1 DEF AccountSet
<1>3. Modify(w, x, [w.accounts[x] EXCEPT !.code = code, !.nonce = @ + 1]) = Modify(w, x, now)
  OBVIOUS
<1> HIDE DEF old, next
<1>4. /\ now \in AccountSet /\ now.storage = old.storage /\ now.original = old.original
      /\ now.nonce = next /\ now.code = code
  BY <1>1, <1>2 DEF AccountSet
<1> HIDE DEF now
<1>5. Clean(now)
  BY <1>2, <1>4 DEF Clean
<1> QED
  BY <1>3, <1>4, <1>5, ModifyLevel DEF old

\* Warming accounts and slots writes nothing.
LEMMA WarmLevel ==
  ASSUME NEW w \in WorldSet, Level(w), NEW x \in Address
  PROVE  Level(WarmAccount(w, x))
<1> DEFINE v == WarmAccount(w, x)
<1>1. /\ v.refund = w.refund
      /\ \A y \in Address : /\ v.accounts[y].original = w.accounts[y].original
                            /\ v.accounts[y].storage = w.accounts[y].storage
  BY DEF WarmAccount, WorldSet, AccountSet
<1> HIDE DEF v
<1> QED
  BY <1>1 DEF Level, v

\* What the message finds warm: its sender and its recipient.
LEMMA WarmedLevel ==
  ASSUME NEW w \in WorldSet, Level(w), tx \in Transactions
  PROVE  /\ Level(Warmed(w))
         /\ \A x \in Address : /\ x \in {Origin, tx.to} => Warmed(w).accounts[x].warm
                               /\ Warmed(w).accounts[x].exists = w.accounts[x].exists
<1> DEFINE accounts == {Origin, tx.to, Coinbase} \cup Precompiles \cup {s[1] : s \in tx.access}
           Listed(x) == {k \in Key : <<x, k>> \in tx.access}
           table == [x \in Address |->
             [w.accounts[x] EXCEPT !.warm = @ \/ x \in accounts,
                                   !.slots = @ \cup Listed(x)]]
           v == Warmed(w)
<1>1. v = [w EXCEPT !.accounts = table]
  BY DEF Warmed
<1>2. \A x \in Address : /\ table[x].original = w.accounts[x].original
                         /\ table[x].storage = w.accounts[x].storage
                         /\ table[x].exists = w.accounts[x].exists
                         /\ x \in {Origin, tx.to} => table[x].warm
  <2> SUFFICES ASSUME NEW x \in Address
               PROVE  /\ table[x].original = w.accounts[x].original
                      /\ table[x].storage = w.accounts[x].storage
                      /\ table[x].exists = w.accounts[x].exists
                      /\ x \in {Origin, tx.to} => table[x].warm
    OBVIOUS
  <2> DEFINE old == w.accounts[x]
             more == old.slots \cup Listed(x)
             hot == old.warm \/ x \in accounts
  <2>1. old \in AccountSet
    BY DEF WorldSet
  <2>2. table[x] = [old EXCEPT !.warm = hot, !.slots = more]
    OBVIOUS
  <2>3. x \in {Origin, tx.to} => hot
    OBVIOUS
  <2> HIDE DEF old, more, hot, table
  <2> QED
    BY <2>1, <2>2, <2>3 DEF AccountSet, old
<1> HIDE DEF table, v
<1>3. v.refund = w.refund /\ v.accounts = table
  BY <1>1 DEF WorldSet
<1> QED
  BY <1>2, <1>3 DEF Level, v

\* The first journal: every slot holds what it held.
LEMMA ResetLevel ==
  /\ Level(Reset(Start))
  /\ \A x \in Address : Reset(Start).accounts[x].exists = Start.accounts[x].exists
<1> DEFINE table == [x \in Address |->
             [Start.accounts[x] EXCEPT !.original = Start.accounts[x].storage,
                !.transient = ZeroSlots, !.warm = FALSE, !.created = FALSE, !.slots = {}]]
           v == Reset(Start)
<1>1. \A x \in Address : /\ table[x].original = table[x].storage
                         /\ table[x].exists = Start.accounts[x].exists
  BY StartAccounts DEF AccountSet
<1>2. v = [accounts |-> table, logs |-> <<>>, refund |-> 0, selfdestructs |-> <<>>]
  BY DEF Reset
<1> HIDE DEF table, v
<1>3. v.refund = 0 /\ v.accounts = table
  BY <1>2
<1> QED
  BY <1>1, <1>3 DEF Level, v

\* One authorization: it only warms its authority, or it is applied and pays
\* for the account and for the designation; a fault undoes no payment.
LEMMA AuthorizeShape ==
  ASSUME TInv, Authorize
  PROVE  LET auth == Head(auths)
             y == auth.authority
             warmed == WarmAccount(world, y)
             indicates == /\ auth.address # NoAddress
                          /\ ~Delegated(Start.accounts[y].code)
                          /\ y \notin designated
         IN  /\ phase = "Authorizing" /\ phase' = phase /\ tx' = tx /\ auths # <<>>
             /\ before' = before /\ committed' = committed
             /\ auth \in Authorization /\ y \in Address
             /\ SameHistory(meter, meter')
             /\ meter.used \in Int /\ meter'.used \in Int /\ meter'.used >= meter.used
             /\ \/ world' \in {world, warmed} /\ designated' = designated
                \/ /\ world' = Modify(warmed, y, [warmed.accounts[y] EXCEPT
                                  !.code = Designation(auth), !.nonce = @ + 1])
                   /\ \/ warmed.accounts[y].code = NoCode
                      \/ Delegated(warmed.accounts[y].code)
                   /\ meter'.used = meter.used
                        + (IF ~warmed.accounts[y].exists THEN NewAccount ELSE 0)
                        + (IF indicates THEN Indicator ELSE 0)
                   /\ designated' = IF auth.address = NoAddress THEN designated
                                    ELSE designated \cup {y}
<1> DEFINE auth == Head(auths)
           y == auth.authority
           warmed == WarmAccount(world, y)
           authority == warmed.accounts[y]
           birth == ~authority.exists
           price == IF y \in written THEN 0 ELSE AuthWrite
           born == SpendBirth(meter, birth)
           paid == Charge(born, price)
           marked == SpendState(paid, Indicator)
           indicates == /\ auth.address # NoAddress
                        /\ ~Delegated(Start.accounts[y].code)
                        /\ y \notin designated
           enough == /\ CanSpendBirth(meter, birth) /\ CanCharge(born, price)
                     /\ indicates => CanSpendState(paid, Indicator)
<1>1. /\ phase = "Authorizing" /\ auths # <<>> /\ phase' = phase /\ tx' = tx
      /\ before' = before /\ committed' = committed
  BY DEF Authorize
<1>2. /\ IInv /\ auths \in Seq(Authorization) /\ world \in WorldSet
      /\ Sound(meter) /\ SpillsLast(meter) /\ meter \in MeterSet /\ meter.used \in Int
  <2>1. IInv /\ auths \in Seq(Authorization)
    BY <1>1 DEF TInv, Prepared
  <2> QED
    BY <2>1, RunningTyped DEF MeterSet
<1>3. auth \in Authorization /\ y \in Address
  <2>1. auth \in Authorization
    BY <1>1, <1>2
  <2> QED
    BY <2>1 DEF Authorization
<1>4. birth \in BOOLEAN
  <2>1. warmed \in WorldSet
    BY <1>2, <1>3, WarmAccountType
  <2> HIDE DEF warmed
  <2>2. authority \in AccountSet
    BY <1>3, <2>1 DEF WorldSet
  <2> QED
    BY <2>2 DEF AccountSet
<1>5. \/ world' \in {world, warmed} /\ designated' = designated /\ meter' = meter
      \/ /\ enough
         /\ world' = Modify(warmed, y, [authority EXCEPT !.code = Designation(auth), !.nonce = @ + 1])
         /\ authority.code = NoCode \/ Delegated(authority.code)
         /\ meter' = IF indicates THEN marked ELSE paid
         /\ designated' = IF auth.address = NoAddress THEN designated ELSE designated \cup {y}
      \/ /\ world' = warmed /\ designated' = designated
         /\ meter' = Exhaust(IF ~CanSpendBirth(meter, birth) THEN meter
                            ELSE IF ~CanCharge(born, price) THEN born ELSE paid)
  BY DEF Authorize
<1> HIDE DEF indicates, warmed, authority, auth, y
<1>6. price \in Nat /\ Indicator \in Nat /\ NewAccount \in Nat
  BY LimitsNat, PricesNat
<1>7. /\ CanSpendBirth(meter, birth) =>
           Sound(born) /\ SpillsLast(born) /\ SameHistory(meter, born)
      /\ CanSpendBirth(meter, birth) /\ CanCharge(born, price) =>
           Sound(paid) /\ SameHistory(meter, paid)
      /\ CanSpendBirth(meter, birth) /\ CanCharge(born, price) /\ CanSpendState(paid, Indicator) =>
           Sound(marked) /\ SameHistory(meter, marked)
  <2> HIDE DEF birth, price
  <2>1. CanSpendBirth(meter, birth) =>
          Sound(born) /\ SpillsLast(born) /\ SameHistory(meter, born)
    BY <1>2, <1>4, BirthSound
  <2> HIDE DEF born
  <2>2. CanSpendBirth(meter, birth) /\ CanCharge(born, price) =>
          Sound(paid) /\ SameHistory(born, paid)
    BY <1>6, <2>1, ChargeSound
  <2> HIDE DEF paid
  <2>3. CanSpendBirth(meter, birth) /\ CanCharge(born, price) /\ CanSpendState(paid, Indicator) =>
          Sound(marked) /\ SameHistory(paid, marked)
    BY <1>6, <2>2, SpendStateSound
  <2> HIDE DEF marked
  <2> QED
    BY <2>1, <2>2, <2>3 DEF SameHistory
<1> DEFINE due == IF birth THEN NewAccount ELSE 0
<1>8. /\ born.used = meter.used + due
      /\ paid.used = born.used /\ marked.used = paid.used + Indicator
      /\ \A m \in {meter, born, paid} : Exhaust(m).used = m.used
  <2>1. Counts(meter)
    BY <1>2 DEF Counts, MeterSet
  <2>2. due = IF birth THEN NewAccount ELSE 0
    OBVIOUS
  <2> HIDE DEF birth, price, due
  <2>3. Counts(born) /\ born.used = meter.used + due
    BY <1>4, <2>1, <2>2, BirthUsed
  <2> HIDE DEF born
  <2>4. Counts(paid) /\ paid.used = born.used
    BY <2>3, UsedFacts
  <2> HIDE DEF paid
  <2>5. marked.used = paid.used + Indicator
    <3>1. Indicator \in Int
      BY <1>6
    <3>2. \A cost \in Int : SpendState(paid, cost).used = paid.used + cost
      BY <2>4, UsedFacts
    <3> QED
      BY <3>1, <3>2
  <2>6. \A m \in {meter, born, paid} : Exhaust(m).used = m.used
    BY <2>1, <2>3, <2>4, UsedFacts
  <2> QED
    BY <2>3, <2>4, <2>5, <2>6
<1>9. due \in Nat
  BY <1>6
<1> HIDE DEF birth, price, born, paid, marked, due
<1>10. \A m : (\E n \in {meter, born, paid} : m = Exhaust(n) /\ n.used >= meter.used
                                               /\ n.used \in Int /\ SameHistory(meter, n)
                                               /\ Sound(n))
              => m.used \in Int /\ m.used >= meter.used /\ SameHistory(meter, m)
  BY <1>8, ExhaustSound DEF SameHistory
<1>11. CASE world' \in {world, warmed} /\ designated' = designated /\ meter' = meter
  BY <1>1, <1>2, <1>3, <1>11 DEF SameHistory, auth, y, warmed
<1>12. CASE /\ enough
            /\ world' = Modify(warmed, y, [authority EXCEPT !.code = Designation(auth), !.nonce = @ + 1])
            /\ authority.code = NoCode \/ Delegated(authority.code)
            /\ meter' = IF indicates THEN marked ELSE paid
            /\ designated' = IF auth.address = NoAddress THEN designated ELSE designated \cup {y}
  <2>1. SameHistory(meter, meter')
    BY <1>7, <1>12
  <2>2. meter'.used = meter.used + due + (IF indicates THEN Indicator ELSE 0)
    <3>1. CASE indicates
      BY <1>2, <1>6, <1>8, <1>9, <1>12, <3>1
    <3>2. CASE ~indicates
      BY <1>2, <1>6, <1>8, <1>9, <1>12, <3>2
    <3> QED
      BY <3>1, <3>2
  <2>3. meter'.used \in Int /\ meter'.used >= meter.used
    BY <1>2, <1>6, <1>9, <2>2
  <2> QED
    BY <1>1, <1>2, <1>3, <1>12, <2>1, <2>2, <2>3
       DEF auth, y, warmed, authority, birth, indicates, due
<1>13. CASE /\ world' = warmed /\ designated' = designated
            /\ meter' = Exhaust(IF ~CanSpendBirth(meter, birth) THEN meter
                               ELSE IF ~CanCharge(born, price) THEN born ELSE paid)
  <2>1. SameHistory(meter, meter') /\ meter'.used \in Int /\ meter'.used >= meter.used
    <3>1. SameHistory(meter, meter) /\ meter.used >= meter.used
      BY <1>2 DEF SameHistory
    <3>2. /\ born.used \in Int /\ born.used >= meter.used
          /\ paid.used \in Int /\ paid.used >= meter.used
      BY <1>2, <1>8, <1>9
    <3>3. CASE ~CanSpendBirth(meter, birth)
      BY <1>2, <1>10, <1>13, <3>1, <3>3
    <3>4. CASE CanSpendBirth(meter, birth) /\ ~CanCharge(born, price)
      BY <1>7, <1>10, <1>13, <3>2, <3>4
    <3>5. CASE CanSpendBirth(meter, birth) /\ CanCharge(born, price)
      BY <1>7, <1>10, <1>13, <3>2, <3>5
    <3> QED
      BY <3>3, <3>4, <3>5
  <2> QED
    BY <1>1, <1>2, <1>3, <1>13, <2>1 DEF auth, y, warmed
<1> QED
  BY <1>5, <1>11, <1>12, <1>13

\* Before the message runs: nothing was written, the meter holds what the
\* transaction bought and has only ever paid, and a creation has no
\* authorizations.
Enlisted ==
  phase = "Authorizing" =>
    /\ Level(world) /\ Level(before)
    /\ meter.grant = Grant(tx) /\ meter.entry = EntryReservoir(tx)
    /\ meter.used \in Nat /\ committed.used = 0
    /\ tx.create => auths = <<>> /\ Prepaid(world, Proxy(tx), {})

\* transaction-wide.bend:25-91.  What is accepted is enlisted.
LEMMA TxInitEnlisted ==
  ASSUME TidyStart, TxInit
  PROVE  Enlisted
<1>1. /\ tx \in Transactions /\ Valid(tx) /\ (tx.create => auths = <<>>)
      /\ Prepaid(before, Proxy(tx), {})
  BY TxInitTyped, TxInitPrepaid
<1>2. /\ world = before /\ committed.used = 0
      /\ meter = FreshMeter(Grant(tx), EntryReservoir(tx))
      /\ before = Debit(IncrementNonce(Reset(Start), Origin), Origin, Proxy(tx) * GasPrice)
  BY DEF TxInit
<1>3. meter.grant = Grant(tx) /\ meter.entry = EntryReservoir(tx) /\ meter.used = 0
  BY <1>2 DEF FreshMeter
<1>4. Level(before)
  <2> DEFINE u == Reset(Start)
             v == IncrementNonce(u, Origin)
             old == u.accounts[Origin]
             now == [old EXCEPT !.nonce = @ + 1]
             p == Proxy(tx) * GasPrice
  <2>1. u \in WorldSet /\ Level(u) /\ Tidy(LedgerOf(u)) /\ Origin \in Address
    BY ResetType, ResetLevel, LimitsNat DEF TidyStart
  <2>2. v = Modify(u, Origin, now)
    BY DEF IncrementNonce
  <2> HIDE DEF u
  <2>3. old \in AccountSet /\ Clean(old)
    BY <2>1, TidyAccounts
  <2> HIDE DEF old
  <2>4. /\ now \in AccountSet /\ now.storage = old.storage /\ now.original = old.original
        /\ now.balance = old.balance /\ now.nonce = old.nonce + 1 /\ now.nonce # 0
        /\ now.code = old.code
    BY <2>3 DEF AccountSet
  <2> HIDE DEF now, v
  <2>5. Clean(now)
    BY <2>3, <2>4 DEF Clean
  <2>6. Level(v)
    BY <2>1, <2>2, <2>4, <2>5, ModifyLevel DEF old
  <2>7. /\ v \in WorldSet /\ v.accounts[Origin].nonce # 0
        /\ v.accounts[Origin].balance = Start.accounts[Origin].balance
    <3>1. Origin \in Address /\ Start \in WorldSet
      BY <2>1, ProgramAssumption
    <3>2. u.accounts[Origin].balance = Start.accounts[Origin].balance
      <4>1. LedgerOf(u) = LedgerOf(Start)
        BY ResetType DEF u
      <4> QED
        BY <3>1, <4>1, FaceOf
    <3> QED
      BY <2>1, <2>2, <2>4, <3>2, ModifyType DEF old
  <2>8. Tidy(LedgerOf(v))
    <3>1. LedgerOf(v) = [LedgerOf(u) EXCEPT ![Origin].nonce = @ + 1]
      BY <2>1, NonceLedger DEF v
    <3>2. LedgerOf(u) \in [Address -> FaceSet]
      BY <2>1, LedgerType
    <3> QED
      BY <2>1, <3>1, <3>2, SpentOnward
  <2>9. p \in Nat /\ p <= v.accounts[Origin].balance
    <3>1. /\ Proxy(tx) \in Nat /\ EscrowOf(tx) \in Nat /\ tx.value \in Nat
          /\ Proxy(tx) * GasPrice + EscrowOf(tx) * GasPrice = tx.gas * GasPrice
      BY <1>1, GasSplit DEF Transactions
    <3>2. Proxy(tx) * GasPrice \in Nat /\ EscrowOf(tx) * GasPrice \in Nat
      BY <3>1, LimitsNat
    <3>3. Start.accounts[Origin].balance >= tx.gas * GasPrice + tx.value
      BY <1>1 DEF Valid
    <3>4. Start.accounts[Origin].balance \in Nat
      BY StartAccounts, LimitsNat
    <3> QED
      BY <2>7, <3>1, <3>2, <3>3, <3>4
  <2>10. before = Debit(v, Origin, p)
    BY <1>2 DEF v, u
  <2> HIDE DEF p
  <2> QED
    BY <2>1, <2>6, <2>7, <2>8, <2>9, <2>10, SpendingLevel
<1> QED
  BY <1>1, <1>2, <1>3, <1>4 DEF Enlisted

\* transaction-auth.bend:64-96.  An authorization writes no slot, and only pays.
LEMMA AuthorizeEnlisted ==
  ASSUME TInv, Enlisted, Authorize
  PROVE  Enlisted'
<1> DEFINE auth == Head(auths)
           y == auth.authority
           warmed == WarmAccount(world, y)
           applied == Modify(warmed, y, [warmed.accounts[y] EXCEPT
                               !.code = Designation(auth), !.nonce = @ + 1])
<1>1. /\ phase = "Authorizing" /\ tx' = tx /\ auths # <<>>
      /\ before' = before /\ committed' = committed
      /\ auth \in Authorization /\ y \in Address
      /\ SameHistory(meter, meter')
      /\ meter.used \in Int /\ meter'.used \in Int /\ meter'.used >= meter.used
      /\ world' \in {world, warmed, applied}
  BY AuthorizeShape
<1>2. /\ Level(world) /\ Level(before) /\ meter.grant = Grant(tx)
      /\ meter.entry = EntryReservoir(tx) /\ meter.used \in Nat /\ committed.used = 0
      /\ ~tx.create /\ world \in WorldSet
  BY <1>1 DEF Enlisted, TInv, Prepared, Prepaid
<1> HIDE DEF auth, y
<1>3. Level(warmed) /\ warmed \in WorldSet
  BY <1>1, <1>2, WarmLevel, WarmAccountType
<1> HIDE DEF warmed
<1>4. Level(applied)
  BY <1>1, <1>3, DesignationType, CodeLevel
<1> HIDE DEF applied
<1>5. Level(world') /\ Level(before')
  BY <1>1, <1>2, <1>3, <1>4
<1>6. meter'.grant = Grant(tx') /\ meter'.entry = EntryReservoir(tx')
  BY <1>1, <1>2 DEF SameHistory
<1>7. meter'.used \in Nat /\ committed'.used = 0
  BY <1>1, <1>2
<1>8. ~tx'.create
  BY <1>1, <1>2
<1> QED
  BY <1>5, <1>6, <1>7, <1>8 DEF Enlisted, Level, Grant, EntryReservoir, Proxy

\* A prepared world is one that nothing has happened to yet.
LEMMA PreparedUntouched ==
  ASSUME NEW w, NEW gas, NEW changed, Prepaid(w, gas, changed), Level(w)
  PROVE  Untouched(w)
<1>1. w \in WorldSet /\ w.logs = <<>> /\ Tidy(LedgerOf(w))
  BY DEF Prepaid, Unspent
<1>2. \A x \in Address : Clean(w.accounts[x])
  BY <1>1, TidyAccounts
<1> QED
  BY <1>1, <1>2 DEF Untouched, Level

\* The payment for the escrow writes no slot.
LEMMA EscrowLevel ==
  ASSUME NEW w, NEW changed, tx \in Transactions, Valid(tx),
         Prepaid(w, Proxy(tx), changed), Level(w)
  PROVE  Level(EscrowPaid(w))
<1> DEFINE e == EscrowOf(tx) * GasPrice
<1>1. w \in WorldSet /\ Tidy(LedgerOf(w)) /\ w.accounts[Origin].nonce # 0
      /\ w.accounts[Origin].balance \in Nat
  BY PrepaidSender
<1>2. EscrowOf(tx) \in Nat /\ tx.value \in Nat /\ GasPrice \in Nat /\ Origin \in Address
  BY GasSplit, LimitsNat DEF Transactions
<1>3. e \in Nat
  BY <1>2
<1>4. e + tx.value <= w.accounts[Origin].balance
  BY Affordable
<1> HIDE DEF e
<1>5. e <= w.accounts[Origin].balance
  BY <1>1, <1>2, <1>3, <1>4
<1>6. Level(Debit(w, Origin, e))
  BY <1>1, <1>2, <1>3, <1>5, SpendingLevel
<1> QED
  BY <1>6 DEF EscrowPaid, e

\* transaction.bend:82-91.  What a journal shows of the payment a message or a
\* creation starts with, in the eyes of one who has paid for the escrow: state
\* is paid for where there was none.
LEMMA PaymentShown ==
  ASSUME IsFiniteSet(Address), tx \in Transactions, Valid(tx),
         NEW w, NEW changed, Prepaid(w, Proxy(tx), changed), Level(w),
         w.accounts[Origin].warm, w.accounts[tx.to].warm,
         tx.create => ~Collision(w.accounts[tx.to])
  PROVE  LET started == IF tx.create THEN NewContract(w, tx.to) ELSE w
             b == EscrowPaid(w)
             u == EscrowPaid(Pay(started, Origin, tx.to, tx.value))
         IN  /\ b \in WorldSet /\ Good(b, u) /\ Fit(b, u)
             /\ tx.to \in Warm(b) /\ tx.to \in Warm(u)
             /\ StatePrice(b, u) =
                  IF /\ tx.create \/ tx.value # 0
                     /\ IsEmpty(w.accounts[tx.to])
                  THEN NewAccount ELSE 0
<1> DEFINE e == EscrowOf(tx) * GasPrice
           to == tx.to
           value == tx.value
           started == IF tx.create THEN NewContract(w, to) ELSE w
           v == Pay(started, Origin, to, value)
           due == IF (tx.create \/ value # 0) /\ IsEmpty(w.accounts[to]) THEN NewAccount ELSE 0
<1>1. /\ to \in Address /\ value \in Nat /\ EscrowOf(tx) \in Nat /\ Origin \in Address
      /\ GasPrice \in Nat /\ NewAccount \in Nat
  BY GasSplit, LimitsNat, PricesNat DEF Transactions
<1>2. e \in Nat
  BY <1>1
<1>3. e + value <= w.accounts[Origin].balance
  BY Affordable
<1>4. EscrowPaid(w) = Debit(w, Origin, e) /\ EscrowPaid(v) = Debit(v, Origin, e)
  BY DEF EscrowPaid
<1>5. /\ w \in WorldSet /\ Tidy(LedgerOf(w)) /\ w.accounts[Origin].balance \in Nat
      /\ w.accounts[Origin].nonce # 0
  BY PrepaidSender
<1>6. Good(w, w) /\ Fit(w, w) /\ StatePrice(w, w) = 0
  BY <1>5, PreparedUntouched, UntouchedGood, UntouchedPrice
<1>7. to \in Warm(w) /\ Origin \in Warm(w) /\ Living(w.accounts[Origin])
  BY <1>1, <1>5 DEF Warm, Living
<1> HIDE DEF e, to, value
<1>8. value <= w.accounts[Origin].balance /\ e <= w.accounts[Origin].balance
  BY <1>1, <1>2, <1>3, <1>5
<1>9. /\ started \in WorldSet /\ Tidy(LedgerOf(started))
      /\ started.accounts[Origin].balance = w.accounts[Origin].balance
      /\ LedgerOf(started)[Origin].nonce # 0
  <2>1. CASE tx.create
    <3> DEFINE l == LedgerOf(w)
               m == LedgerOf(started)
    <3>1. started = NewContract(w, to)
      BY <2>1
    <3>2. started \in WorldSet /\ started.accounts[Origin].balance = w.accounts[Origin].balance
      BY <1>1, <1>5, <3>1, NewContractType
    <3>3. m = Nested!Started(l, to)
      BY <1>1, <1>5, <3>1, NewContractLedger
    <3>4. l \in [Address -> FaceSet] /\ Tidy(l) /\ l[Origin].nonce # 0
      BY <1>1, <1>5, LedgerType, FaceOf
    <3> HIDE DEF l, m, started
    <3>5. Tidy(m)
      BY <1>1, <3>3, <3>4, StartedOnward
    <3>6. m[Origin].nonce # 0
      BY <1>1, <3>3, <3>4 DEF Nested!Started, FaceSet
    <3> QED
      BY <3>2, <3>5, <3>6 DEF m
  <2>2. CASE ~tx.create
    BY <1>1, <1>5, <2>2, FaceOf
  <2> QED
    BY <2>1, <2>2
<1>10. Good(w, v) /\ Fit(w, v) /\ StatePrice(w, v) = due /\ Warm(w) \subseteq Warm(v)
  <2>1. CASE tx.create
    <3>1. started = NewContract(w, to)
      BY <2>1
    <3>2. v = Pay(NewContract(w, to), Origin, to, value)
      BY <3>1
    <3>3. ~Collision(w.accounts[to])
      BY <2>1 DEF to
    <3> HIDE DEF started, v
    <3>4. Good(w, v) /\ Warm(w) \subseteq Warm(v)
      BY <1>1, <1>5, <1>6, <1>7, <1>8, <3>2, <3>3, OpenedJournal
    <3>5. Fit(w, v) /\ StatePrice(w, v) = StatePrice(w, w)
                         + (IF IsEmpty(w.accounts[to]) THEN NewAccount ELSE 0)
      BY <1>1, <1>5, <1>6, <1>7, <1>8, <3>2, <3>3, OpenedPrice
    <3>6. due = IF IsEmpty(w.accounts[to]) THEN NewAccount ELSE 0
      BY <2>1
    <3> HIDE DEF due
    <3> QED
      BY <1>1, <1>6, <3>4, <3>5, <3>6
  <2>2. CASE ~tx.create
    <3>1. v = Pay(w, Origin, to, value)
      BY <2>2
    <3> HIDE DEF started, v
    <3>2. w.accounts[Origin].warm /\ w.accounts[to].warm
      BY DEF to
    <3>3. Good(w, v) /\ Warm(w) \subseteq Warm(v)
      BY <1>1, <1>5, <1>6, <1>8, <3>1, <3>2, PayGood
    <3>4. Fit(w, v) /\ StatePrice(w, v) = StatePrice(w, w)
                         + (IF value # 0 /\ IsEmpty(w.accounts[to]) THEN NewAccount ELSE 0)
      BY <1>1, <1>5, <1>6, <1>7, <1>8, <3>1, <3>2, PayPrice
    <3>5. due = IF value # 0 /\ IsEmpty(w.accounts[to]) THEN NewAccount ELSE 0
      BY <2>2
    <3> HIDE DEF due
    <3> QED
      BY <1>1, <1>6, <3>3, <3>4, <3>5
  <2> QED
    BY <2>1, <2>2
<1> HIDE DEF started, due
<1>11. /\ v \in WorldSet /\ Tidy(LedgerOf(v)) /\ v.accounts[Origin].nonce # 0
       /\ e <= v.accounts[Origin].balance
  <2>1. /\ v \in WorldSet
        /\ v.accounts[Origin].balance >= started.accounts[Origin].balance - value
    BY <1>1, <1>8, <1>9, PayType, PayBalance
  <2>2. Tidy(LedgerOf(v)) /\ LedgerOf(v)[Origin].nonce = LedgerOf(started)[Origin].nonce
    BY <1>1, <1>8, <1>9, PaidBooks
  <2> HIDE DEF v
  <2>3. v.accounts[Origin].nonce # 0
    BY <1>1, <1>9, <2>2, FaceOf
  <2>4. v.accounts[Origin].balance \in Nat
    BY <1>1, <2>1 DEF WorldSet, AccountSet
  <2>5. e <= v.accounts[Origin].balance
    BY <1>1, <1>2, <1>3, <1>5, <1>9, <2>1, <2>4
  <2> QED
    BY <2>1, <2>2, <2>3, <2>5
<1> HIDE DEF v
<1>12. v.accounts[Origin].warm /\ w.accounts[Origin].warm
  BY <1>7, <1>10 DEF Warm
<1> DEFINE b == Debit(w, Origin, e)
           u == Debit(v, Origin, e)
<1>13. /\ b \in WorldSet /\ Good(b, u) /\ Fit(b, u) /\ StatePrice(b, u) = StatePrice(w, v)
       /\ Warm(w) \subseteq Warm(b) /\ Warm(v) \subseteq Warm(u)
  BY <1>2, <1>5, <1>8, <1>10, <1>11, <1>12, EscrowShifts
<1> HIDE DEF b, u
<1>14. EscrowPaid(w) = b /\ EscrowPaid(v) = u
  BY <1>4 DEF b, u
<1> QED
  BY <1>7, <1>10, <1>13, <1>14 DEF v, started, due, to, value

\* While the message runs: its first frame got no more gas than the purchase
\* and the authorizations left; and from the world it started in, the machine
\* keeps its books, unless the message was never dispatched.  A contract being
\* created has a nonce and no code, in every world to return to.
Backed ==
  phase = "Running" =>
    /\ Level(snapshot) /\ committed.used \in Nat
    /\ RootGrant + RootEntry + committed.used <= Grant(tx) + EntryReservoir(tx)
    /\ \/ parents = <<>> /\ Failing
       \/ \E b \in WorldSet :
            /\ b = snapshot /\ GInv(b)
            /\ tx.create => Founded(world, parents, tx.to) /\ tx.to \in Warm(b)

\* transaction.bend:61-70.  A message that was not dispatched has paid for
\* nothing and gets no gas.
LEMMA DispatchFailsBacked ==
  ASSUME TInv, Enlisted, DispatchFails
  PROVE  Backed'
<1>1. /\ tx \in Transactions /\ Valid(tx) /\ phase = "Authorizing" /\ tx' = tx
      /\ meter' = FreshMeter(0, EntryReservoir(tx)) /\ frame' = FaultFrame
      /\ snapshot' = EscrowPaid(before) /\ parents' = parents /\ committed' = committed
  BY DEF TInv, DispatchFails, Preparing, UndispatchedWorld
<1>2. /\ parents = <<>> /\ Prepaid(before, Proxy(tx), written) /\ Level(before)
      /\ committed.used = 0 /\ frame \in FrameSet
  BY <1>1, RunningTyped DEF TInv, Prepared, Enlisted
<1>3. Level(snapshot')
  BY <1>1, <1>2, EscrowLevel
<1>4. frame'.action.op = "Fault"
  BY <1>1, <1>2 DEF FaultFrame, WithAction, Plain, FrameSet
<1>5. Grant(tx) \in Nat /\ EntryReservoir(tx) \in Nat
  BY <1>1, GasSplit
<1>6. meter'.grant = 0 /\ meter'.entry = EntryReservoir(tx)
  BY <1>1 DEF FreshMeter
<1>7. RootGrant' = 0 /\ RootEntry' = EntryReservoir(tx)
  BY <1>1, <1>2, <1>6 DEF RootGrant, RootEntry
<1>8. RootGrant' + RootEntry' + committed'.used <= Grant(tx) + EntryReservoir(tx)
  BY <1>1, <1>2, <1>5, <1>7
<1>9. Grant(tx') = Grant(tx) /\ EntryReservoir(tx') = EntryReservoir(tx)
  BY <1>1
<1>10. Level(snapshot)'
  BY <1>3 DEF Level
<1>11. committed'.used \in Nat /\ parents' = <<>> /\ Failing'
  BY <1>1, <1>2, <1>4 DEF Failing
<1> HIDE DEF Level, Failing, GInv
<1>12. (Grant(tx) + EntryReservoir(tx))' = Grant(tx) + EntryReservoir(tx)
  BY <1>9 DEF Grant, EntryReservoir, Proxy
<1> QED
  BY <1>8, <1>10, <1>11, <1>12 DEF Backed

\* What the first frame starts with and what the authorizations took is what
\* was bought.
LEMMA LeftOver ==
  ASSUME Sound(meter), NEW birth \in BOOLEAN, NEW price \in Nat,
         CanSpendBirth(CommittedMeter, birth),
         CanCharge(SpendBirth(CommittedMeter, birth), price)
  PROVE  LET m == Charge(SpendBirth(CommittedMeter, birth), price)
         IN  /\ m.grant + m.entry + meter.used <= meter.grant + meter.entry
             /\ m \in MeterSet
             /\ m.used = IF birth THEN NewAccount ELSE 0
<1> DEFINE fresh == CommittedMeter
           born == SpendBirth(fresh, birth)
           m == Charge(born, price)
           due == IF birth THEN NewAccount ELSE 0
<1>1. Sound(m) /\ SameHistory(fresh, m)
  BY DispatchMeter
<1>2. fresh.grant = meter.gas /\ fresh.entry = meter.reservoir /\ fresh.used = 0
  BY DEF CommittedMeter, FreshMeter
<1>3. Counts(fresh)
  BY DEF CommittedMeter, FreshMeter, Counts
<1> HIDE DEF fresh
<1>4. Counts(born) /\ born.used = fresh.used + due
  BY <1>3, BirthUsed
<1> HIDE DEF born
<1>5. m.used = born.used
  BY <1>4, UsedFacts
<1>6. due \in Nat
  BY PricesNat
<1> HIDE DEF m, due
<1>7. m.used = due
  BY <1>2, <1>4, <1>5, <1>6
<1>8. m.grant = meter.gas /\ m.entry = meter.reservoir
  BY <1>1, <1>2 DEF SameHistory
<1>9. /\ meter.gas \in Nat /\ meter.reservoir \in Nat /\ meter.used \in Int
      /\ meter.spilled \in Nat /\ meter.grant \in Nat /\ meter.entry \in Nat
      /\ meter.reservoir + meter.used - meter.spilled = meter.entry
      /\ meter.gas + meter.spilled <= meter.grant
  BY DEF Sound, MeterSet, Baseline, WithinGrant
<1>10. m.grant + m.entry + meter.used <= meter.grant + meter.entry
  BY <1>8, <1>9
<1>11. m \in MeterSet
  BY <1>1 DEF Sound
<1> QED
  BY <1>7, <1>10, <1>11 DEF m, born, fresh, due

\* A machine alone with its first frame keeps the books.
LEMMA StartedBooks ==
  ASSUME NEW b \in WorldSet, LInv', parents' = <<>>,
         Good(b, world'), Fit(b, world'), frame'.address \in Warm(world'),
         meter'.used = StatePrice(b, world'), meter'.used \in Int
  PROVE  GInv(b)'
<1>1. Len(parents)' = 0 /\ (\A i \in 0..0 : \A j \in i..0 : i = 0 /\ j = 0)
  OBVIOUS
<1>2. ChildFrameOf(0)' = frame' /\ After(0)' = world'
  BY <1>1 DEF ChildFrameOf, After
<1>3. Hot'
  BY <1>1, <1>2 DEF Hot, Warm
<1>4. Good(b, world)'
  BY DEF Good, Rooted, Owed, Warmth, Explained, Cleared, Sent, Living
<1>5. JInv(b)'
  BY <1>1, <1>3, <1>4 DEF JInv
<1>6. Paid(0)' = 0
  <2> DEFINE f == [i \in 1..0 |-> parents'[i].meter.used]
  <2>1. f \in [{} -> Int]
    <3>1. 1..0 = {}
      OBVIOUS
    <3> QED
      BY <3>1
  <2> HIDE DEF f
  <2>2. SumFunction(f) = 0
    BY <2>1, SumOfNothing
  <2> QED
    BY <2>2 DEF Paid, Booked, f
<1>7. Fit(b, world)' /\ (StatePrice(b, world) = meter.used)'
  BY DEF Fit, StatePrice, Filled, Newborn, Coded, IsEmpty
<1>8. \A j \in 0..0 : Fit(b, After(j))'
  <2>1. Fit(b, After(0))'
    BY <1>2 DEF Fit, Filled, IsEmpty
  <2> QED
    BY <2>1
<1>9. GasBooks(b)'
  BY <1>1, <1>2, <1>6, <1>7, <1>8 DEF GasBooks
<1> QED
  BY <1>5, <1>9 DEF GInv

\* transaction.bend:63-91.  What the dispatch brings to life it pays for.
LEMMA DispatchBacked ==
  ASSUME IsFiniteSet(Address), TInv, Enlisted, Dispatch
  PROVE  Backed'
<1> DEFINE d == Dispatched
           callee == d.accounts[tx.to]
           to == callee.code.to
           warmed == IF Delegating THEN WarmAccount(d, to) ELSE d
           started == IF tx.create THEN NewContract(warmed, tx.to) ELSE warmed
           u == EscrowPaid(Pay(started, Origin, tx.to, tx.value))
           b == EscrowPaid(warmed)
           m == Charge(SpendBirth(CommittedMeter, DispatchBirth), DispatchPrice)
<1>1. /\ tx \in Transactions /\ Valid(tx) /\ phase = "Authorizing" /\ phase' = "Running"
      /\ tx' = tx /\ parents' = parents /\ snapshot' = b /\ world' = u /\ meter' = m
      /\ CanDispatch /\ committed'.used = meter.used
      /\ frame'.address = tx.to
  <2>1. /\ tx \in Transactions /\ Valid(tx) /\ phase = "Authorizing" /\ phase' = "Running"
        /\ tx' = tx /\ parents' = parents /\ snapshot' = b /\ world' = u /\ meter' = m
        /\ CanDispatch /\ committed'.used = meter.used
    BY DEF TInv, Dispatch, Preparing, Callee
  <2>2. frame.address = tx.to /\ frame \in FrameSet
    BY <2>1, RunningTyped DEF TInv, Prepared
  <2>3. \E code, action : frame' = [frame EXCEPT !.code = code, !.action = action]
    BY DEF Dispatch
  <2>4. frame'.address = frame.address
    BY <2>2, <2>3 DEF FrameSet
  <2> QED
    BY <2>1, <2>2, <2>4
<1>2. /\ IInv /\ parents = <<>> /\ Prepaid(world, Proxy(tx), written) /\ Level(world)
      /\ Sound(meter) /\ meter.grant = Grant(tx) /\ meter.entry = EntryReservoir(tx)
      /\ meter.used \in Nat /\ world \in WorldSet
      /\ tx.create => Prepaid(world, Proxy(tx), {})
  <2>1. /\ IInv /\ parents = <<>> /\ Prepaid(world, Proxy(tx), written)
    BY <1>1 DEF TInv, Prepared
  <2> QED
    BY <1>1, <2>1, RunningTyped DEF Enlisted
<1>3. tx.to \in Address /\ tx.create \in BOOLEAN /\ tx.value \in Nat /\ Origin \in Address
  BY <1>1, LimitsNat DEF Transactions
<1>4. /\ Prepaid(d, Proxy(tx), written) /\ Level(d)
      /\ d.accounts[Origin].warm /\ d.accounts[tx.to].warm
      /\ tx.create => Prepaid(d, Proxy(tx), {})
  BY <1>1, <1>2, <1>3, PrepaidWarmed, WarmedLevel DEF Dispatched
<1>5. Delegating <=> ~tx.create /\ Delegated(callee.code)
  BY DEF Delegating, Callee
<1> HIDE DEF d
<1>6. d \in WorldSet
  BY <1>4 DEF Prepaid
<1>7. Delegating => to \in Address
  <2>1. callee.code \in CodeSet
    BY <1>3, <1>6 DEF WorldSet, AccountSet
  <2> QED
    BY <1>5, <2>1, DelegateType
<1>8. /\ Prepaid(warmed, Proxy(tx), written) /\ Level(warmed)
      /\ warmed.accounts[Origin].warm /\ warmed.accounts[tx.to].warm
      /\ IsEmpty(warmed.accounts[tx.to]) <=> IsEmpty(callee)
      /\ Collision(warmed.accounts[tx.to]) <=> Collision(callee)
      /\ tx.create => warmed = d
  <2> HIDE DEF to
  <2>1. CASE Delegating
    <3> DEFINE v == WarmAccount(d, to)
    <3>1. warmed = v /\ ~tx.create
      BY <1>5, <2>1
    <3>2. Prepaid(v, Proxy(tx), written) /\ Level(v)
      BY <1>4, <1>6, <1>7, <2>1, PrepaidWarm, WarmLevel
    <3>3. Warm(d) \subseteq Warm(v) /\ LedgerOf(v) = LedgerOf(d)
      <4>1. Careful(d, v)
        BY <1>6, <1>7, <2>1, WarmFree DEF Free
      <4> QED
        BY <1>6, <1>7, <2>1, <4>1, CarefulWarms, WarmUnseen
    <3> HIDE DEF v
    <3>4. v.accounts[Origin].warm /\ v.accounts[tx.to].warm
      BY <1>3, <1>4, <3>3 DEF Warm
    <3>5. /\ v.accounts[tx.to].balance = callee.balance
          /\ v.accounts[tx.to].nonce = callee.nonce
          /\ v.accounts[tx.to].code = callee.code
      BY <1>3, <3>3, FaceOf
    <3> HIDE DEF warmed, callee
    <3>6. /\ IsEmpty(v.accounts[tx.to]) <=> IsEmpty(callee)
          /\ Collision(v.accounts[tx.to]) <=> Collision(callee)
      BY <3>5 DEF IsEmpty, Collision
    <3> QED
      BY <3>1, <3>2, <3>4, <3>6
  <2>2. CASE ~Delegating
    BY <1>4, <2>2
  <2> QED
    BY <2>1, <2>2
<1>9. /\ DispatchBirth = (IF tx.create THEN IsEmpty(Start.accounts[tx.to])
                          ELSE tx.value # 0 /\ IsEmpty(callee))
      /\ tx.create => ~Collision(callee)
      /\ CanSpendBirth(CommittedMeter, DispatchBirth)
      /\ CanCharge(SpendBirth(CommittedMeter, DispatchBirth), DispatchPrice)
  BY <1>1 DEF DispatchBirth, CanDispatch, Callee, d
<1> HIDE DEF callee, to
<1>10. DispatchBirth <=> (tx.create \/ tx.value # 0) /\ IsEmpty(warmed.accounts[tx.to])
  <2>1. CASE tx.create
    <3>1. Prepaid(warmed, Proxy(tx), {}) /\ ~Collision(warmed.accounts[tx.to])
      BY <1>4, <1>8, <1>9, <2>1
    <3> HIDE DEF warmed
    <3>2. warmed.accounts[Origin].nonce # 0
      BY <3>1, PrepaidSender
    <3>3. tx.to # Origin
      BY <3>1, <3>2 DEF Collision
    <3>4. /\ warmed.accounts[tx.to].balance = Start.accounts[tx.to].balance
          /\ warmed.accounts[tx.to].nonce = Start.accounts[tx.to].nonce
          /\ warmed.accounts[tx.to].code = Start.accounts[tx.to].code
      BY <1>3, <3>1, <3>3, FaceOf DEF Prepaid, Unspent
    <3>5. IsEmpty(warmed.accounts[tx.to]) <=> IsEmpty(Start.accounts[tx.to])
      BY <3>4 DEF IsEmpty
    <3> QED
      BY <1>9, <2>1, <3>5
  <2>2. CASE ~tx.create
    <3> HIDE DEF warmed
    <3> QED
      BY <1>8, <1>9, <2>2
  <2> QED
    BY <1>3, <2>1, <2>2
<1> HIDE DEF warmed
<1>11. /\ b \in WorldSet /\ Good(b, u) /\ Fit(b, u) /\ tx.to \in Warm(b) /\ tx.to \in Warm(u)
       /\ StatePrice(b, u) = IF (tx.create \/ tx.value # 0) /\ IsEmpty(warmed.accounts[tx.to])
                             THEN NewAccount ELSE 0
  BY <1>1, <1>8, <1>9, PaymentShown
<1> DEFINE birth == DispatchBirth
           price == DispatchPrice
<1>12. birth \in BOOLEAN /\ price \in Nat
  BY <1>3, AccessNat DEF DispatchBirth, DispatchPrice, IsEmpty
<1>13. /\ m.grant + m.entry + meter.used <= meter.grant + meter.entry
       /\ m \in MeterSet /\ m.used = IF birth THEN NewAccount ELSE 0
  <2>1. m = Charge(SpendBirth(CommittedMeter, birth), price)
    OBVIOUS
  <2>2. /\ CanSpendBirth(CommittedMeter, birth)
        /\ CanCharge(SpendBirth(CommittedMeter, birth), price)
    BY <1>9
  <2> HIDE DEF m, birth, price
  <2> QED
    BY <1>2, <1>12, <2>1, <2>2, LeftOver
<1>14. Level(b)
  BY <1>1, <1>8, EscrowLevel
<1>15. tx.create => Budding(LedgerOf(u), tx.to)
  <2> SUFFICES ASSUME tx.create PROVE Budding(LedgerOf(u), tx.to)
    OBVIOUS
  <2> DEFINE y == tx.to
             l == LedgerOf(warmed)
             s == LedgerOf(started)
  <2>1. /\ warmed \in WorldSet /\ l \in [Address -> FaceSet] /\ Tidy(l) /\ y \in Address
        /\ l[y].code = warmed.accounts[y].code
    <3>1. warmed \in WorldSet
      BY <1>8 DEF Prepaid
    <3> QED
      BY <1>3, <1>8, <3>1, LedgerType, FaceOf DEF Prepaid, Unspent
  <2>2. started = NewContract(warmed, y)
    OBVIOUS
  <2>3. s = Nested!Started(l, y) /\ started \in WorldSet
    BY <2>1, <2>2, NewContractLedger, NewContractType
  <2>4. \A x \in Address : started.accounts[x].balance = warmed.accounts[x].balance
    BY <2>1, <2>2, NewContractType
  <2> HIDE DEF l, s
  <2>5. Tidy(s) /\ s[y].nonce = 1 /\ s[y].code = l[y].code
    BY <2>1, <2>3, StartedOnward
  <2>6. Tidy(LedgerOf(started))
    BY <2>5 DEF s
  <2> HIDE DEF started
  <2>7. \A x \in Address : /\ LedgerOf(u)[x].nonce = LedgerOf(started)[x].nonce
                           /\ LedgerOf(u)[x].code = LedgerOf(started)[x].code
    BY <1>1, <1>8, <2>3, <2>4, <2>6, MessagePaid
  <2>8. warmed.accounts[y].code.len = 0
    BY <1>8, <1>9 DEF Collision
  <2> HIDE DEF u
  <2> QED
    BY <2>1, <2>5, <2>7, <2>8 DEF Budding, s, y
<1>16. LInv'
  BY <1>1, DispatchPrepared DEF TInv, Underway
<1> HIDE DEF u, b, m, started
<1>17. PICK c \in WorldSet : c = b
  BY <1>11
<1>18. GInv(c)' /\ snapshot' = c /\ tx.to \in Warm(c) /\ Level(c)
  <2>1. Good(c, world') /\ Fit(c, world') /\ parents' = <<>>
    BY <1>1, <1>2, <1>11, <1>17
  <2>2. frame'.address \in Warm(world')
    BY <1>1, <1>11
  <2>3. meter'.used = StatePrice(c, world') /\ meter'.used \in Int
    BY <1>1, <1>10, <1>11, <1>13, <1>17 DEF MeterSet
  <2>4. GInv(c)'
    BY <1>16, <2>1, <2>2, <2>3, StartedBooks
  <2> QED
    BY <1>1, <1>11, <1>14, <1>17, <2>4
<1>19. RootGrant' = m.grant /\ RootEntry' = m.entry
  BY <1>1, <1>2 DEF RootGrant, RootEntry
<1>20. m.grant + m.entry + meter.used <= Grant(tx) + EntryReservoir(tx)
  BY <1>2, <1>13
<1>21. (Grant(tx) + EntryReservoir(tx))' = Grant(tx) + EntryReservoir(tx)
  BY <1>1 DEF Grant, EntryReservoir, Proxy
<1>22. tx'.create => Founded(world', parents', tx'.to) /\ tx'.to \in Warm(c)
  <2>1. tx.create => Founded(world', parents', tx.to)
    BY <1>1, <1>2, <1>15 DEF Founded
  <2> QED
    BY <1>1, <1>18, <2>1
<1>23. Level(snapshot)'
  BY <1>18 DEF Level
<1>24. (\E w \in WorldSet :
         /\ w = snapshot /\ GInv(w)
         /\ tx.create => Founded(world, parents, tx.to) /\ tx.to \in Warm(w))'
  <2> HIDE DEF GInv
  <2> QED
    BY <1>18, <1>22 DEF Founded, Budding, LedgerOf
<1>25. (committed.used \in Nat)'
       /\ (RootGrant + RootEntry + committed.used <= Grant(tx) + EntryReservoir(tx))'
  BY <1>1, <1>2, <1>19, <1>20, <1>21
<1> HIDE DEF Level, GInv
<1> QED
  BY <1>23, <1>24, <1>25 DEF Backed

\* Every step of the machine keeps its books and its first frame's history.
LEMMA StepBacked ==
  ASSUME IsFiniteSet(Address), TidyStart, TInv, Backed, phase = "Running",
         [Next]_vars, UNCHANGED <<phase, book>>, ~Done \/ UNCHANGED vars
  PROVE  Backed'
<1>1. /\ tx' = tx /\ snapshot' = snapshot /\ committed' = committed /\ phase' = phase
  BY DEF book
<1>2. LInv
  BY DEF TInv, Underway
<1>3. /\ Level(snapshot) /\ committed.used \in Nat
      /\ RootGrant + RootEntry + committed.used <= Grant(tx) + EntryReservoir(tx)
  BY DEF Backed
<1>4. IInv /\ LInv' /\ Accounted
  BY <1>2, NextBooks DEF LInv
<1>5. IInv' /\ RootEntry' = RootEntry /\ RootGrant' = RootGrant
  BY <1>4, NextForward DEF Forward
<1>6. Level(snapshot)'
  BY <1>1, <1>3 DEF Level
<1>7. (Grant(tx) + EntryReservoir(tx))' = Grant(tx) + EntryReservoir(tx)
  BY <1>1 DEF Grant, EntryReservoir, Proxy
<1>8. (committed.used \in Nat)'
      /\ (RootGrant + RootEntry + committed.used <= Grant(tx) + EntryReservoir(tx))'
  BY <1>1, <1>3, <1>5, <1>7
<1>9. CASE parents = <<>> /\ Failing
  <2>1. UNCHANGED vars
    BY <1>9 DEF Done, Ended, Terminal, Failing
  <2>2. (parents = <<>> /\ Failing)'
    BY <1>9, <2>1 DEF vars, Failing
  <2> HIDE DEF Level, GInv
  <2> QED
    BY <1>6, <1>8, <2>2 DEF Backed
<1>10. CASE ~(parents = <<>> /\ Failing)
  <2>1. PICK b \in WorldSet :
          /\ b = snapshot /\ GInv(b)
          /\ tx.create => Founded(world, parents, tx.to) /\ tx.to \in Warm(b)
    <3> HIDE DEF GInv, Founded, Failing
    <3> QED
      BY <1>10 DEF Backed
  <2>2. GInv(b)'
    BY <2>1, NextGas
  <2>3. tx.create => Founded(world', parents', tx.to)
    <3>1. tx.to \in Address
      BY DEF TInv, Transactions
    <3> QED
      BY <1>2, <1>4, <1>5, <2>1, <3>1, LedgerFounds
  <2>4. (\E w \in WorldSet :
           /\ w = snapshot /\ GInv(w)
           /\ tx.create => Founded(world, parents, tx.to) /\ tx.to \in Warm(w))'
    <3>1. snapshot' = b
      BY <1>1, <2>1
    <3> HIDE DEF GInv
    <3> QED
      BY <1>1, <2>1, <2>2, <2>3, <3>1 DEF Founded, Budding, LedgerOf
  <2> HIDE DEF Level, GInv
  <2> QED
    BY <1>6, <1>8, <2>4 DEF Backed
<1> QED
  BY <1>9, <1>10

\* transaction-finish.bend:57-86.  What a message ends with: one that failed
\* has paid for nothing; one that completed has paid for all the state that it
\* added to the world it started in, the code of a creation included.
LEMMA FinalBooks ==
  ASSUME IsFiniteSet(Address), TInv, Backed, phase = "Running", parents = <<>>
  PROVE  /\ ~Completes => FinalMeter.used = 0
         /\ Completes =>
              \E b \in WorldSet :
                /\ b = snapshot /\ Fit(b, FinalWorld) /\ Warmth(b, FinalWorld)
                /\ FinalMeter.used = StatePrice(b, FinalWorld)
<1>1. /\ tx \in Transactions /\ tx.to \in Address /\ LInv /\ IInv
  BY DEF TInv, Underway, LInv, Transactions
<1>2. /\ world \in WorldSet /\ meter \in MeterSet /\ frame \in FrameSet /\ Proper(frame)
      /\ Sound(meter) /\ frame.output \in CodeSet
  BY <1>1, RunningTyped, OnTop DEF FrameSet
<1>3. ASSUME ~Completes
      PROVE  FinalMeter.used = 0
  <2>1. CASE ~Succeeded
    <3>1. FinalMeter = Settled
      BY <2>1 DEF FinalMeter, Completes
    <3> QED
      BY <1>1, <2>1, <3>1, SettledSound
  <2>2. CASE Succeeded
    <3> DEFINE spent == Exhaust(meter)
    <3>1. FinalMeter = Settle(spent, FALSE, FALSE)
      BY <1>3, <2>2 DEF FinalMeter, Completes
    <3>2. Sound(spent)
      BY <1>2, ExhaustSound
    <3> HIDE DEF spent
    <3>3. Settle(spent, FALSE, FALSE).used = 0
      BY <3>2, SettleSound
    <3> QED
      BY <3>1, <3>3
  <2> QED
    BY <2>1, <2>2
<1>4. ASSUME Completes
      PROVE  \E b \in WorldSet :
               /\ b = snapshot /\ Fit(b, FinalWorld) /\ Warmth(b, FinalWorld)
               /\ FinalMeter.used = StatePrice(b, FinalWorld)
  <2>1. ~Failing
    BY <1>4 DEF Completes, Succeeded, Successful, Failing
  <2>2. PICK b \in WorldSet :
          /\ b = snapshot /\ GInv(b)
          /\ tx.create => Founded(world, parents, tx.to) /\ tx.to \in Warm(b)
    <3> HIDE DEF GInv, Founded, Failing
    <3> QED
      BY <2>1 DEF Backed
  <2>3. /\ Fit(b, world) /\ Counts(meter) /\ meter.used \in Int
        /\ StatePrice(b, world) \in Int /\ meter.used = StatePrice(b, world)
    <3>1. /\ Fit(b, world) /\ Counts(meter) /\ meter.used \in Int /\ StatePrice(b, world) \in Int
          /\ meter.used + Paid(Len(parents)) = StatePrice(b, world)
      BY <2>2, Counter
    <3>2. Paid(Len(parents)) = 0
      BY NothingPaid
    <3> QED
      BY <3>1, <3>2
  <2>4. Good(b, world)
    BY <2>2 DEF GInv, JInv
  <2>5. CASE ~tx.create
    <3>1. FinalWorld = world /\ FinalMeter = meter
      BY <1>4, <2>5 DEF FinalWorld, FinalMeter, Completes
    <3> QED
      BY <2>2, <2>3, <2>4, <3>1 DEF Good
  <2>6. CASE tx.create
    <3> DEFINE y == tx.to
               code == frame.output
               v == SetCode(world, y, code)
               len == CodeByte * code.len
               hashed == Charge(meter, DepositWords(code))
               m == SpendState(hashed, len)
    <3>1. FinalWorld = v /\ FinalMeter = m /\ CanDeposit(code)
      BY <1>4, <2>6 DEF FinalWorld, FinalMeter, Deposited, Completes
    <3>2. code \in CodeSet /\ (code.len = 0 => code = NoCode) /\ ~Delegated(code)
      BY <1>2, <3>1 DEF Proper, Canonical, CanDeposit
    <3>3. /\ y \in Address /\ world.accounts[y].nonce # 0 /\ world.accounts[y].code.len = 0
          /\ world.accounts[y].warm
      <4>1. Founded(world, parents, y) /\ y \in Warm(b) /\ y \in Address
        BY <1>1, <2>2, <2>6
      <4>2. world.accounts[y].nonce # 0 /\ world.accounts[y].code.len = 0
        BY <4>1, FaceOf DEF Founded, Budding
      <4>3. world.accounts[y].warm
        BY <2>4, <4>1 DEF Good, Warmth, Warm
      <4> QED
        BY <4>1, <4>2, <4>3
    <3> HIDE DEF code, y
    <3>4. Careful(world, v)
      BY <1>2, <3>2, <3>3, SetCodeCareful
    <3>5. v \in WorldSet
      <4>1. FinalWorld \in WorldSet
        BY Outcome
      <4> QED
        BY <3>1, <4>1
    <3>6. Warmth(b, v)
      BY <1>2, <2>4, <3>4, <3>5, CarefulKeeps DEF Good
    <3>7. Fit(b, v) /\ StatePrice(b, v) = StatePrice(b, world) + CodeByte * code.len
      BY <1>2, <2>3, <3>2, <3>3, <3>4, <3>5, DepositPrice
    <3>8. m.used = meter.used + len
      <4>1. CodeByte \in Nat /\ code.len \in Nat
        BY <3>2, PricesNat DEF CodeSet
      <4>2. len \in Int
        BY <4>1
      <4> HIDE DEF len, code
      <4>3. Counts(hashed) /\ hashed.used = meter.used
        BY <2>3, UsedFacts
      <4> HIDE DEF hashed
      <4>4. \A cost \in Int : SpendState(hashed, cost).used = hashed.used + cost
        BY <4>3, UsedFacts
      <4> QED
        BY <4>2, <4>3, <4>4
    <3> HIDE DEF v, m
    <3> QED
      BY <2>2, <2>3, <3>1, <3>6, <3>7, <3>8
  <2> QED
    BY <2>5, <2>6
<1> QED
  BY <1>3, <1>4

\* The state gas of the outcome is not negative.
LEMMA FinalUsed ==
  ASSUME IsFiniteSet(Address), TInv, Backed, phase = "Running", parents = <<>>
  PROVE  FinalMeter.used \in Nat
<1>1. CASE ~Completes
  BY <1>1, FinalBooks
<1>2. CASE Completes
  <2>1. PICK b \in WorldSet :
          Fit(b, FinalWorld) /\ FinalMeter.used = StatePrice(b, FinalWorld)
    BY <1>2, FinalBooks
  <2>2. FinalWorld \in WorldSet
    BY Outcome
  <2> QED
    BY <2>1, <2>2, PriceNat
<1> QED
  BY <1>1, <1>2

\* transaction-finish.bend:57-86, transaction-wide.bend:110-112.  What was
\* bought is left, or paid for execution, or for state.
LEMMA FinishAccounts ==
  ASSUME IsFiniteSet(Address), TInv, Backed, Finish
  PROVE  GasAccounted'
<1> DEFINE r == Settlement
           F == FinalMeter
           used == tx.gas - F.gas - F.reservoir - EscrowOf(tx)
<1>1. /\ phase = "Running" /\ parents = <<>> /\ phase' = "Completed" /\ tx' = tx
      /\ receipt' = r /\ tx \in Transactions /\ Valid(tx)
  BY DEF TInv, Finish
<1>2. Sound(F) /\ SameHistory(meter, F) /\ F.used \in Nat
  BY <1>1, Outcome, FinalUsed
<1>3. /\ committed.used \in Nat
      /\ RootGrant + RootEntry + committed.used <= Grant(tx) + EntryReservoir(tx)
      /\ RootGrant = meter.grant /\ RootEntry = meter.entry
  BY <1>1 DEF Backed, RootGrant, RootEntry
<1>4. r.before = used /\ r.state = Positive(F.used + committed.used)
  BY DEF Settlement
<1> HIDE DEF F, r
<1>5. /\ F.gas \in Nat /\ F.reservoir \in Nat /\ F.spilled \in Nat
      /\ F.grant \in Nat /\ F.entry \in Nat
      /\ F.reservoir + F.used - F.spilled = F.entry /\ F.gas + F.spilled <= F.grant
      /\ F.grant = meter.grant /\ F.entry = meter.entry
  BY <1>2 DEF Sound, MeterSet, Baseline, WithinGrant, SameHistory
<1>6. r.state = F.used + committed.used
  BY <1>2, <1>3, <1>4 DEF Positive
<1>7. /\ Proxy(tx) \in Nat /\ EscrowOf(tx) \in Nat /\ Proxy(tx) + EscrowOf(tx) = tx.gas
      /\ Grant(tx) \in Nat /\ EntryReservoir(tx) \in Nat
      /\ Grant(tx) + EntryReservoir(tx) + tx.cost.execution = Proxy(tx)
      /\ tx.gas \in Nat /\ tx.cost.execution \in Nat
  BY <1>1, GasSplit
<1>8. F.gas + F.reservoir + F.used <= meter.grant + meter.entry
  BY <1>2, <1>5
<1>9. used <= tx.gas
  BY <1>5, <1>7
<1>10. F.gas + F.reservoir + F.used + committed.used <= Grant(tx) + EntryReservoir(tx)
  BY <1>2, <1>3, <1>5, <1>7, <1>8
<1>11. used >= tx.cost.execution + (F.used + committed.used)
  BY <1>2, <1>3, <1>5, <1>7, <1>10
<1>12. r.before <= tx.gas /\ r.before >= tx.cost.execution + r.state
  BY <1>4, <1>6, <1>9, <1>11
<1> QED
  BY <1>1, <1>12 DEF GasAccounted

----------------------------------------------------------------------------
(* Execution and state gas.                                                *)

GasInv == TxInv /\ Enlisted /\ Backed /\ GasAccounted

\* It holds before anything has happened.
LEMMA TxInitGas ==
  ASSUME TidyStart, TxInit
  PROVE  GasInv
<1>1. TxInv /\ Enlisted
  BY TxInitInv, TxInitEnlisted
<1>2. phase = "Authorizing"
  BY DEF TxInit
<1> QED
  BY <1>1, <1>2 DEF GasInv, Backed, GasAccounted, Completed

\* Every step keeps it.
LEMMA TxNextGas ==
  ASSUME IsFiniteSet(Address), TidyStart, GasInv, [TxNext]_tvars
  PROVE  GasInv'
<1>1. TInv /\ TxInv /\ Enlisted /\ Backed /\ GasAccounted
  BY DEF GasInv, TxInv
<1>2. TxInv'
  BY <1>1, TxNextInv
<1>3. ASSUME phase' = "Authorizing", Enlisted'
      PROVE  GasInv'
  BY <1>2, <1>3 DEF GasInv, Backed, GasAccounted, Completed
<1>4. ASSUME phase' = "Running", Backed'
      PROVE  GasInv'
  BY <1>2, <1>4 DEF GasInv, Enlisted, GasAccounted, Completed
<1>5. ASSUME phase' \notin {"Authorizing", "Running"}, GasAccounted'
      PROVE  GasInv'
  BY <1>2, <1>5 DEF GasInv, Enlisted, Backed
<1>6. CASE Authorize
  <2>1. phase' = "Authorizing"
    BY <1>6 DEF Authorize
  <2> QED
    BY <1>1, <1>3, <1>6, <2>1, AuthorizeEnlisted
<1>7. CASE DispatchFails
  <2>1. phase' = "Running"
    BY <1>7 DEF DispatchFails
  <2> QED
    BY <1>1, <1>4, <1>7, <2>1, DispatchFailsBacked
<1>8. CASE Dispatch
  <2>1. phase' = "Running"
    BY <1>8 DEF Dispatch
  <2> QED
    BY <1>1, <1>4, <1>8, <2>1, DispatchBacked
<1>9. CASE Run
  <2>1. /\ phase = "Running" /\ phase' = "Running" /\ ~Done /\ [Next]_vars
        /\ UNCHANGED <<phase, book>>
    BY <1>9 DEF Run, Next
  <2> QED
    BY <1>1, <1>4, <2>1, StepBacked
<1>10. CASE Finish
  <2>1. phase' = "Completed"
    BY <1>10 DEF Finish
  <2> QED
    BY <1>1, <1>5, <1>10, <2>1, FinishAccounts
<1>11. CASE Abandon
  <2>1. phase' = "Incomplete"
    BY <1>11 DEF Abandon
  <2> QED
    BY <1>5, <2>1 DEF GasAccounted, Completed
<1>12. CASE UNCHANGED tvars
  <2>1. /\ UNCHANGED vars /\ UNCHANGED <<phase, book>> /\ world' = world /\ meter' = meter
        /\ phase' = phase /\ tx' = tx /\ auths' = auths /\ before' = before
        /\ committed' = committed /\ receipt' = receipt
    BY <1>12 DEF tvars, vars, book
  <2>2. CASE phase = "Authorizing"
    <3>1. Enlisted'
      BY <1>1, <2>1, <2>2
         DEF Enlisted, Level, Grant, EntryReservoir, Proxy, Prepaid, Unspent, LedgerOf
    <3> QED
      BY <1>3, <2>1, <2>2, <3>1
  <2>3. CASE phase = "Running"
    <3>1. Backed'
      BY <1>1, <2>1, <2>3, StepBacked
    <3> QED
      BY <1>4, <2>1, <2>3, <3>1
  <2>4. CASE phase \notin {"Authorizing", "Running"}
    <3>1. GasAccounted'
      BY <1>1, <2>1 DEF GasAccounted, Completed
    <3> QED
      BY <1>5, <2>1, <2>4, <3>1
  <2> QED
    BY <2>2, <2>3, <2>4
<1> QED
  BY <1>6, <1>7, <1>8, <1>9, <1>10, <1>11, <1>12 DEF TxNext, TxHalt

\* Execution and state gas add up to the gas used, whatever the message does:
\* no rollback gives back what the intrinsic cost and the authorizations took,
\* and nothing is reported twice (transaction.bend:115-117,
\* transaction-wide.bend:110-112, 123-126).
THEOREM GasIsAccounted ==
  ASSUME IsFiniteSet(Address), TidyStart
  PROVE  TxSpec => []GasAccounted
<1>1. TxInit => GasInv
  BY TxInitGas
<1>2. GasInv /\ [TxNext]_tvars => GasInv'
  BY TxNextGas
<1>3. GasInv => GasAccounted
  BY DEF GasInv
<1> QED
  BY <1>1, <1>2, <1>3, PTL DEF TxSpec

----------------------------------------------------------------------------
(* The state a transaction leaves behind.                                  *)

\* No account that is empty counts as existing.
Pruned(w) == \A x \in Address : IsEmpty(w.accounts[x]) => ~w.accounts[x].exists

\* Before the message, codes are what they were, designations or none.
Early(w) ==
  \A x \in Address :
    \/ w.accounts[x].code \in {NoCode, Start.accounts[x].code}
    \/ Delegated(w.accounts[x].code)

\* The accounts that delegate and did not, and those listed for having begun to.
Marked(w) ==
  {x \in Address : Delegated(w.accounts[x].code) /\ ~Delegated(Start.accounts[x].code)}

Listed(list) == {x \in Address : x \in list /\ ~Delegated(Start.accounts[x].code)}

\* What authorizations pay for accounts brought to life and designations.
Bill(born, marked) == NewAccount * Cardinality(born) + Indicator * Cardinality(marked)

\* A price per piece is monotone.
LEMMA PricedMore ==
  ASSUME NEW price \in Nat, NEW n \in Int, NEW m \in Int, n <= m
  PROVE  /\ price * n \in Int /\ price * m \in Int /\ price * n <= price * m
         /\ n \in Nat => price * n \in Nat
<1>1. PICK d \in Nat : m = n + d
  <2>1. m - n \in Nat /\ m = n + (m - n)
    OBVIOUS
  <2> QED
    BY <2>1
<1>2. price * m = price * n + price * d
  BY <1>1
<1>3. price * n \in Int /\ price * d \in Nat
  OBVIOUS
<1>4. n \in Nat => price * n \in Nat
  OBVIOUS
<1> QED
  BY <1>2, <1>3, <1>4

\* A subset costs no more.
LEMMA SubsetPriced ==
  ASSUME NEW B, IsFiniteSet(B), NEW C \in SUBSET B, NEW price \in Nat
  PROVE  /\ price * Cardinality(B) \in Nat /\ price * Cardinality(C) \in Nat
         /\ price * Cardinality(C) <= price * Cardinality(B)
<1>1. IsFiniteSet(C) /\ Cardinality(C) <= Cardinality(B)
  BY FS_Subset
<1>2. Cardinality(B) \in Nat /\ Cardinality(C) \in Nat
  BY <1>1, FS_CardinalityType
<1> QED
  BY <1>1, <1>2, PricedMore

\* One element more costs one price more, at most.
LEMMA OneMorePriced ==
  ASSUME IsFiniteSet(Address), NEW price \in Nat, NEW B \in SUBSET Address,
         NEW more \in BOOLEAN, NEW x \in Address,
         NEW C, C \subseteq (IF more THEN B \cup {x} ELSE B)
  PROVE  /\ price * Cardinality(B) \in Nat /\ price * Cardinality(C) \in Nat
         /\ price * Cardinality(C) <= price * Cardinality(B) + (IF more THEN price ELSE 0)
<1> DEFINE D == B \cup {x}
<1>1. D \in SUBSET Address /\ IsFiniteSet(B) /\ IsFiniteSet(D)
  BY FS_Subset
<1>2. Cardinality(D) <= Cardinality(B) + 1 /\ Cardinality(B) \in Nat /\ Cardinality(D) \in Nat
  <2>1. Cardinality(B) \in Nat
    BY <1>1, FS_CardinalityType
  <2>2. Cardinality(D) = IF x \in B THEN Cardinality(B) ELSE Cardinality(B) + 1
    BY <1>1, FS_AddElement
  <2> QED
    BY <2>1, <2>2
<1> HIDE DEF D
<1>3. CASE ~more
  BY <1>1, <1>3, SubsetPriced
<1>4. CASE more
  <2>1. C \in SUBSET D
    BY <1>4 DEF D
  <2>2. /\ price * Cardinality(D) \in Nat /\ price * Cardinality(C) \in Nat
        /\ price * Cardinality(C) <= price * Cardinality(D)
    BY <1>1, <2>1, SubsetPriced
  <2>3. price * Cardinality(D) <= price * (Cardinality(B) + 1)
    BY <1>2, PricedMore
  <2>4. price * (Cardinality(B) + 1) = price * Cardinality(B) + price
    BY <1>2
  <2>5. price * Cardinality(B) \in Nat
    BY <1>1, SubsetPriced
  <2> DEFINE c == price * Cardinality(C)
             d == price * Cardinality(D)
             b == price * Cardinality(B)
  <2>6. c \in Nat /\ d \in Nat /\ b \in Nat /\ c <= d /\ d <= b + price
    BY <2>2, <2>3, <2>4, <2>5
  <2> HIDE DEF b, c, d
  <2>7. c <= b + price
    BY <2>6
  <2> QED
    BY <1>4, <2>6, <2>7 DEF b, c
<1> QED
  BY <1>3, <1>4

\* transaction-auth.bend:64-96.  The bill grows by what an authorization pays.
LEMMA BillGrows ==
  ASSUME IsFiniteSet(Address), NEW B \in SUBSET Address, NEW M \in SUBSET Address,
         NEW birth \in BOOLEAN, NEW mark \in BOOLEAN, NEW x \in Address,
         NEW C, C \subseteq (IF birth THEN B \cup {x} ELSE B),
         NEW N, N \subseteq (IF mark THEN M \cup {x} ELSE M)
  PROVE  /\ Bill(B, M) \in Nat /\ Bill(C, N) \in Nat
         /\ Bill(C, N) <= Bill(B, M) + (IF birth THEN NewAccount ELSE 0)
                                     + (IF mark THEN Indicator ELSE 0)
<1> DEFINE b == NewAccount * Cardinality(B)
           c == NewAccount * Cardinality(C)
           m == Indicator * Cardinality(M)
           n == Indicator * Cardinality(N)
<1>1. NewAccount \in Nat /\ Indicator \in Nat
  BY PricesNat, LimitsNat
<1>2. b \in Nat /\ c \in Nat /\ c <= b + (IF birth THEN NewAccount ELSE 0)
  BY <1>1, OneMorePriced
<1>3. m \in Nat /\ n \in Nat /\ n <= m + (IF mark THEN Indicator ELSE 0)
  BY <1>1, OneMorePriced
<1>4. Bill(B, M) = b + m /\ Bill(C, N) = c + n
  BY DEF Bill
<1> HIDE DEF b, c, m, n
<1> QED
  BY <1>1, <1>2, <1>3, <1>4

\* It is no more for subsets.
LEMMA BillBounded ==
  ASSUME IsFiniteSet(Address), NEW B \in SUBSET Address, NEW M \in SUBSET Address,
         NEW C \in SUBSET B, NEW N \in SUBSET M
  PROVE  Bill(C, N) <= Bill(B, M) /\ Bill(B, M) \in Nat /\ Bill(C, N) \in Nat
<1> DEFINE x == Origin
<1>1. x \in Address
  BY LimitsNat
<1>2. /\ Bill(B, M) \in Nat /\ Bill(C, N) \in Nat
      /\ Bill(C, N) <= Bill(B, M) + 0 + 0
  <2> HIDE DEF x
  <2>1. C \subseteq (IF FALSE THEN B \cup {x} ELSE B) /\ N \subseteq (IF FALSE THEN M \cup {x} ELSE M)
    OBVIOUS
  <2>2. /\ Bill(B, M) \in Nat /\ Bill(C, N) \in Nat
        /\ Bill(C, N) <= Bill(B, M) + (IF FALSE THEN NewAccount ELSE 0)
                                    + (IF FALSE THEN Indicator ELSE 0)
    BY <1>1, <2>1, BillGrows
  <2> QED
    BY <2>2
<1> QED
  BY <1>2

\* The same codes, and the same accounts empty.
Alike(w, v) ==
  \A x \in Address : /\ v.accounts[x].code = w.accounts[x].code
                     /\ IsEmpty(v.accounts[x]) <=> IsEmpty(w.accounts[x])

\* Nothing of the bill tells two such worlds apart.
LEMMA AlikeBilled ==
  ASSUME NEW w, NEW v, Alike(w, v), Early(w)
  PROVE  /\ Early(v) /\ Marked(v) = Marked(w)
         /\ Newborn(Start, v) = Newborn(Start, w)
<1>1. Early(v)
  BY DEF Alike, Early
<1>2. Marked(v) = Marked(w)
  BY DEF Alike, Marked
<1>3. Newborn(Start, v) = Newborn(Start, w)
  BY DEF Alike, Newborn
<1> QED
  BY <1>1, <1>2, <1>3

\* world.bend:120-134.  What is modified into emptiness no longer exists.
LEMMA ModifyPruned ==
  ASSUME NEW w \in WorldSet, Pruned(w), NEW x \in Address, NEW account \in AccountSet
  PROVE  Pruned(Modify(w, x, account))
<1> DEFINE after == Modified(account)
<1>1. IsEmpty(after) => ~after.exists
  BY DEF Modified, IsEmpty, AccountSet, NoCode
<1>2. \A y \in Address :
        Modify(w, x, account).accounts[y] = IF y = x THEN after ELSE w.accounts[y]
  BY DEF Modify, Put, WorldSet
<1> HIDE DEF after
<1> QED
  BY <1>1, <1>2 DEF Pruned

\* A payment by the sender, who has spent a nonce, empties nobody.
LEMMA SpendingAlike ==
  ASSUME NEW w, NEW gas, NEW changed, Prepaid(w, gas, changed),
         NEW amount \in Nat, amount <= w.accounts[Origin].balance
  PROVE  Alike(w, Debit(w, Origin, amount))
<1> DEFINE less == -amount
           v == Credit(w, Origin, less)
           l == LedgerOf(w)
           m == LedgerOf(v)
<1>1. /\ w \in WorldSet /\ Tidy(l) /\ l \in [Address -> FaceSet]
      /\ w.accounts[Origin].balance \in Nat /\ Origin \in Address
      /\ w.accounts[Origin].nonce # 0
  BY PrepaidSender, LimitsNat DEF Prepaid, Unspent
<1>2. less \in Int /\ w.accounts[Origin].balance + less \in Nat
  BY <1>1
<1>3. Debit(w, Origin, amount) = v
  BY <1>1, DebitIsCredit
<1> HIDE DEF less
<1>4. m = [l EXCEPT ![Origin].balance = @ + less]
  BY <1>1, <1>2, CreditLedger
<1>5. \A x \in Address :
        /\ m[x].code = l[x].code /\ m[x].nonce = l[x].nonce
        /\ x # Origin => m[x].balance = l[x].balance
  BY <1>1, <1>4 DEF FaceSet
<1>6. \A x \in Address :
        /\ m[x].code = v.accounts[x].code /\ l[x].code = w.accounts[x].code
        /\ m[x].nonce = v.accounts[x].nonce /\ l[x].nonce = w.accounts[x].nonce
        /\ m[x].balance = v.accounts[x].balance /\ l[x].balance = w.accounts[x].balance
  BY FaceOf
<1> HIDE DEF v, l, m
<1>7. \A x \in Address :
        /\ v.accounts[x].code = w.accounts[x].code
        /\ v.accounts[x].nonce = w.accounts[x].nonce
        /\ x # Origin => v.accounts[x].balance = w.accounts[x].balance
  BY <1>5, <1>6
<1>8. Alike(w, v)
  BY <1>1, <1>7 DEF Alike, IsEmpty
<1> QED
  BY <1>3, <1>8

\* Before any authorization there is nothing on the bill.
LEMMA NothingBilled ==
  ASSUME PrunedStart, NEW w, NEW gas, Prepaid(w, gas, {})
  PROVE  Early(w) /\ Marked(w) = {} /\ Newborn(Start, w) = {}
<1>1. \A x \in Address :
        /\ w.accounts[x].code = Start.accounts[x].code
        /\ x # Origin => /\ w.accounts[x].nonce = Start.accounts[x].nonce
                         /\ w.accounts[x].balance = Start.accounts[x].balance
  BY FaceOf DEF Prepaid, Unspent
<1>2. Early(w) /\ Marked(w) = {}
  BY <1>1 DEF Early, Marked
<1>3. Newborn(Start, w) = {}
  BY <1>1 DEF Newborn, IsEmpty, PrunedStart
<1> QED
  BY <1>2, <1>3

\* What authorizations have done is on the bill, and the bill is paid.
Billed ==
  /\ phase = "Authorizing" =>
       /\ Prepaid(before, Proxy(tx), {})
       /\ Pruned(world) /\ Early(world)
       /\ Marked(world) \subseteq Listed(designated)
       /\ meter.used >= Bill(Newborn(Start, world), Listed(designated))
  /\ phase = "Running" =>
       /\ Early(snapshot)
       /\ committed.used >= Bill(Newborn(Start, snapshot), Marked(snapshot))

\* Nothing costs nothing.
LEMMA NoBill ==
  Bill({}, {}) = 0
<1>1. NewAccount \in Nat /\ Indicator \in Nat /\ Cardinality({}) = 0
  BY PricesNat, LimitsNat, FS_EmptySet
<1> QED
  BY <1>1 DEF Bill

\* transaction.bend:26-43.  The bill begins empty.
LEMMA TxInitBilled ==
  ASSUME TidyStart, PrunedStart, TxInit
  PROVE  Billed
<1>1. /\ phase = "Authorizing" /\ designated = {} /\ world = before
      /\ before = Debit(IncrementNonce(Reset(Start), Origin), Origin, Proxy(tx) * GasPrice)
      /\ meter = FreshMeter(Grant(tx), EntryReservoir(tx))
  BY DEF TxInit
<1>2. Prepaid(before, Proxy(tx), {})
  BY TxInitPrepaid
<1>3. Early(before) /\ Marked(before) = {} /\ Newborn(Start, before) = {}
  BY <1>2, NothingBilled
<1>4. Listed({}) = {} /\ meter.used = 0
  BY <1>1 DEF Listed, FreshMeter
<1>5. Pruned(before)
  <2> DEFINE w == Reset(Start)
             v == IncrementNonce(w, Origin)
             sender == [w.accounts[Origin] EXCEPT !.nonce = @ + 1]
             payer == [v.accounts[Origin] EXCEPT !.balance = @ - Proxy(tx) * GasPrice]
  <2>1. w \in WorldSet /\ LedgerOf(w) = LedgerOf(Start) /\ Origin \in Address
    BY ResetType, LimitsNat
  <2>2. \A x \in Address : w.accounts[x].exists = Start.accounts[x].exists
    BY ResetLevel
  <2> HIDE DEF w
  <2>3. \A x \in Address : IsEmpty(w.accounts[x]) <=> IsEmpty(Start.accounts[x])
    <3>1. \A x \in Address :
            /\ w.accounts[x].balance = Start.accounts[x].balance
            /\ w.accounts[x].nonce = Start.accounts[x].nonce
            /\ w.accounts[x].code = Start.accounts[x].code
      BY <2>1, FaceOf
    <3> QED
      BY <3>1 DEF IsEmpty
  <2>4. Pruned(w)
    BY <2>2, <2>3 DEF Pruned, PrunedStart
  <2>5. sender \in AccountSet
    <3> DEFINE owner == w.accounts[Origin]
    <3>1. owner \in AccountSet
      BY <2>1 DEF WorldSet
    <3> HIDE DEF owner
    <3>2. [owner EXCEPT !.nonce = @ + 1] \in AccountSet
      BY <3>1 DEF AccountSet
    <3> QED
      BY <3>2 DEF owner
  <2>6. v = Modify(w, Origin, sender)
    BY DEF IncrementNonce
  <2>7. v \in WorldSet
    BY <2>1, <2>5, <2>6, ModifyType
  <2>8. Pruned(v)
    BY <2>1, <2>4, <2>5, <2>6, ModifyPruned
  <2>9. before = Modify(v, Origin, payer) /\ before \in WorldSet
    <3>1. before = Debit(v, Origin, Proxy(tx) * GasPrice)
      BY <1>1 DEF w
    <3> HIDE DEF v
    <3>2. Debit(v, Origin, Proxy(tx) * GasPrice) = Modify(v, Origin, payer)
      BY DEF Debit
    <3>3. before \in WorldSet
      BY <1>2 DEF Prepaid
    <3> QED
      BY <3>1, <3>2, <3>3
  <2> HIDE DEF v
  <2>10. payer \in AccountSet
    <3> DEFINE owner == v.accounts[Origin]
    <3>1. owner \in AccountSet
      BY <2>1, <2>7 DEF WorldSet
    <3>2. payer.balance = before.accounts[Origin].balance
      BY <2>1, <2>7, <2>9 DEF Modify, Put, Modified, WorldSet, AccountSet
    <3>3. payer.balance \in Nat
      BY <1>2, <3>2, PrepaidSender
    <3>4. payer.balance = owner.balance - Proxy(tx) * GasPrice
      BY <3>1 DEF AccountSet
    <3> HIDE DEF owner
    <3>5. owner.balance - Proxy(tx) * GasPrice \in Nat
      BY <3>3, <3>4
    <3> QED
      BY <3>1, <3>5 DEF owner, AccountSet
  <2> HIDE DEF payer
  <2> QED
    BY <2>1, <2>7, <2>8, <2>9, <2>10, ModifyPruned
<1> QED
  BY <1>1, <1>2, <1>3, <1>4, <1>5, NoBill DEF Billed

\* Worlds with the same ledger are alike.
LEMMA LedgerAlike ==
  ASSUME NEW w, NEW v, LedgerOf(v) = LedgerOf(w)
  PROVE  Alike(w, v)
<1>1. \A x \in Address :
        /\ v.accounts[x].balance = w.accounts[x].balance
        /\ v.accounts[x].nonce = w.accounts[x].nonce
        /\ v.accounts[x].code = w.accounts[x].code
  BY FaceOf
<1> QED
  BY <1>1 DEF Alike, IsEmpty

\* Warming an account brings nobody to life.
LEMMA WarmPruned ==
  ASSUME NEW w \in WorldSet, Pruned(w), NEW x \in Address
  PROVE  Pruned(WarmAccount(w, x)) /\ Alike(w, WarmAccount(w, x))
<1> DEFINE v == WarmAccount(w, x)
<1>1. Alike(w, v)
  BY WarmUnseen, LedgerAlike
<1>2. \A y \in Address : v.accounts[y].exists = w.accounts[y].exists
  BY DEF WarmAccount, WorldSet, AccountSet
<1> HIDE DEF v
<1>3. Pruned(v)
  BY <1>1, <1>2 DEF Pruned, Alike
<1> QED
  BY <1>1, <1>3 DEF v

\* transaction-auth.bend:61-66.  An authorization that is applied brings only
\* its authority to life, and changes no other account's code.
LEMMA AppliedFaces ==
  ASSUME NEW w \in WorldSet, Pruned(w), NEW y \in Address, NEW code \in CodeSet
  PROVE  LET v == Modify(w, y, [w.accounts[y] EXCEPT !.code = code, !.nonce = @ + 1])
         IN  /\ Pruned(v) /\ v.accounts[y].code = code /\ ~IsEmpty(v.accounts[y])
             /\ \A x \in Address \ {y} : v.accounts[x] = w.accounts[x]
<1> DEFINE old == w.accounts[y]
           account == [old EXCEPT !.code = code, !.nonce = @ + 1]
           v == Modify(w, y, account)
<1>1. old \in AccountSet
  BY DEF WorldSet
<1> HIDE DEF old
<1>2. account \in AccountSet /\ account.code = code /\ account.nonce # 0
  <2>1. old.nonce + 1 \in Nat /\ old.nonce + 1 # 0
    BY <1>1 DEF AccountSet
  <2> DEFINE next == old.nonce + 1
  <2>2. account = [old EXCEPT !.code = code, !.nonce = next]
    OBVIOUS
  <2> HIDE DEF next
  <2>3. next \in Nat /\ next # 0
    BY <2>1 DEF next
  <2> QED
    BY <1>1, <2>2, <2>3 DEF AccountSet
<1> HIDE DEF account
<1>3. Pruned(v)
  BY <1>2, ModifyPruned
<1>4. ~IsEmpty(account)
  BY <1>2 DEF IsEmpty
<1>5. Modified(account) = [account EXCEPT !.exists = TRUE]
  BY <1>4 DEF Modified
<1>6. Modified(account).code = code /\ ~IsEmpty(Modified(account))
  BY <1>2, <1>4, <1>5 DEF AccountSet, IsEmpty
<1>7. \A x \in Address : v.accounts[x] = IF x = y THEN Modified(account) ELSE w.accounts[x]
  BY DEF Modify, Put, WorldSet
<1>8. /\ Pruned(v) /\ v.accounts[y].code = code /\ ~IsEmpty(v.accounts[y])
      /\ \A x \in Address \ {y} : v.accounts[x] = w.accounts[x]
  BY <1>3, <1>6, <1>7
<1> QED
  BY <1>8 DEF v, account, old

\* transaction-auth.bend:64-96.  An authorization pays for the account it
\* brings to life and for the first designation of an account that had none.
LEMMA AuthorizeBilled ==
  ASSUME IsFiniteSet(Address), TInv, Billed, Authorize
  PROVE  Billed'
<1> DEFINE auth == Head(auths)
           y == auth.authority
           warmed == WarmAccount(world, y)
           code == Designation(auth)
           applied == Modify(warmed, y, [warmed.accounts[y] EXCEPT
                               !.code = code, !.nonce = @ + 1])
           birth == ~warmed.accounts[y].exists
           indicates == /\ auth.address # NoAddress
                        /\ ~Delegated(Start.accounts[y].code)
                        /\ y \notin designated
<1>1. /\ phase = "Authorizing" /\ phase' = phase /\ tx' = tx /\ before' = before
      /\ auth \in Authorization /\ y \in Address
      /\ meter.used \in Int /\ meter'.used \in Int /\ meter'.used >= meter.used
  BY AuthorizeShape
<1>2. \/ world' \in {world, warmed} /\ designated' = designated
      \/ /\ world' = applied
         /\ meter'.used = meter.used + (IF birth THEN NewAccount ELSE 0)
                                     + (IF indicates THEN Indicator ELSE 0)
         /\ designated' = IF auth.address = NoAddress THEN designated
                          ELSE designated \cup {y}
  BY AuthorizeShape
<1>3. /\ Prepaid(before, Proxy(tx), {})
      /\ Pruned(world) /\ Early(world) /\ world \in WorldSet
      /\ Marked(world) \subseteq Listed(designated)
      /\ meter.used >= Bill(Newborn(Start, world), Listed(designated))
  BY <1>1 DEF Billed, TInv, Prepared, Prepaid
<1>4. code \in CodeSet /\ (auth.address = NoAddress => code = NoCode)
      /\ (code = NoCode \/ Delegated(code))
  BY <1>1, DesignationType DEF Designation, Delegated, Authorization
<1> HIDE DEF auth, y, code
<1>5. Pruned(warmed) /\ Alike(world, warmed) /\ warmed \in WorldSet
  BY <1>1, <1>3, WarmPruned, WarmAccountType
<1>6. /\ Early(warmed) /\ Marked(warmed) = Marked(world)
      /\ Newborn(Start, warmed) = Newborn(Start, world)
  BY <1>3, <1>5, AlikeBilled
<1> HIDE DEF warmed
<1>7. /\ Pruned(applied) /\ applied.accounts[y].code = code /\ ~IsEmpty(applied.accounts[y])
      /\ \A x \in Address \ {y} : applied.accounts[x] = warmed.accounts[x]
  BY <1>1, <1>4, <1>5, AppliedFaces
<1> HIDE DEF applied
<1>8. Prepaid(before', Proxy(tx'), {})
  BY <1>1, <1>3
<1> DEFINE B == Newborn(Start, world)
           M == Listed(designated)
<1>9. B \in SUBSET Address /\ M \in SUBSET Address
  BY DEF Newborn, Listed
<1>10. ASSUME world' \in {world, warmed}, designated' = designated
       PROVE  /\ Pruned(world') /\ Early(world')
              /\ Marked(world') \subseteq Listed(designated')
              /\ meter'.used >= Bill(Newborn(Start, world'), Listed(designated'))
  <2>1. Newborn(Start, world') = B /\ Listed(designated') = M /\ Marked(world') = Marked(world)
    BY <1>6, <1>10
  <2>2. Pruned(world') /\ Early(world')
    BY <1>3, <1>5, <1>6, <1>10
  <2>3. Bill(B, M) \in Nat /\ meter.used >= Bill(B, M)
    BY <1>3, <1>9, BillBounded
  <2> HIDE DEF B, M
  <2>4. meter'.used >= Bill(B, M)
    BY <1>1, <2>3
  <2>5. meter'.used >= Bill(Newborn(Start, world'), Listed(designated'))
    BY <2>1, <2>4
  <2> QED
    BY <1>3, <2>1, <2>2, <2>5 DEF M
<1>11. ASSUME world' = applied,
              meter'.used = meter.used + (IF birth THEN NewAccount ELSE 0)
                                       + (IF indicates THEN Indicator ELSE 0),
              designated' = IF auth.address = NoAddress THEN designated
                            ELSE designated \cup {y}
       PROVE  /\ Pruned(world') /\ Early(world')
              /\ Marked(world') \subseteq Listed(designated')
              /\ meter'.used >= Bill(Newborn(Start, world'), Listed(designated'))
  <2>1. Pruned(world')
    BY <1>7, <1>11
  <2>2. Early(world')
    BY <1>4, <1>6, <1>7, <1>11 DEF Early
  <2>3. Marked(world') \subseteq Listed(designated')
    <3>1. ASSUME NEW x \in Marked(world')
          PROVE  x \in Listed(designated')
      <4>1. x \in Address /\ Delegated(world'.accounts[x].code)
            /\ ~Delegated(Start.accounts[x].code)
        BY <3>1 DEF Marked
      <4>2. CASE x = y
        <5>1. Delegated(code)
          BY <1>7, <1>11, <4>1, <4>2
        <5>2. auth.address # NoAddress
          BY <1>4, <5>1 DEF Delegated, NoCode
        <5> QED
          BY <1>11, <4>1, <4>2, <5>2 DEF Listed
      <4>3. CASE x # y
        <5>1. x \in Marked(world)
          BY <1>6, <1>7, <1>11, <4>1, <4>3 DEF Marked
        <5>2. x \in designated
          BY <1>3, <5>1 DEF Listed
        <5>3. x \in designated'
          BY <1>11, <5>2
        <5> QED
          BY <4>1, <5>3 DEF Listed
      <4> QED
        BY <4>2, <4>3
    <3> QED
      BY <3>1
  <2> DEFINE C == Newborn(Start, world')
             N == Listed(designated')
  <2>4. C \subseteq (IF birth THEN B \cup {y} ELSE B)
    <3>1. ASSUME NEW x \in C, x # y
          PROVE  x \in B
      <4>1. x \in Newborn(Start, warmed)
        BY <1>7, <1>11, <3>1 DEF Newborn
      <4> QED
        BY <1>6, <4>1
    <3>2. ASSUME y \in C, ~birth
          PROVE  y \in B
      <4>1. ~IsEmpty(warmed.accounts[y])
        BY <1>1, <1>5, <3>2 DEF Pruned
      <4>2. y \in Newborn(Start, warmed)
        BY <3>2, <4>1 DEF Newborn
      <4> QED
        BY <1>6, <4>2
    <3> QED
      BY <3>1, <3>2
  <2>5. N \subseteq (IF indicates THEN M \cup {y} ELSE M)
    BY <1>11 DEF Listed
  <2> HIDE DEF B, M, C, N
  <2> DEFINE more == IF birth THEN NewAccount ELSE 0
             mark == IF indicates THEN Indicator ELSE 0
  <2>6. birth \in BOOLEAN /\ indicates \in BOOLEAN
    BY <1>1, <1>5 DEF WorldSet, AccountSet
  <2>7. Bill(B, M) \in Nat /\ Bill(C, N) \in Nat /\ Bill(C, N) <= Bill(B, M) + more + mark
    <3> HIDE DEF birth, indicates
    <3> QED
      BY <1>1, <1>9, <2>4, <2>5, <2>6, BillGrows
  <2>8. more \in Nat /\ mark \in Nat
    BY PricesNat, LimitsNat
  <2>9. meter'.used = meter.used + more + mark
    BY <1>11
  <2>10. meter.used >= Bill(B, M)
    BY <1>3 DEF B, M
  <2> HIDE DEF more, mark, birth, indicates
  <2>11. meter'.used >= Bill(C, N)
    BY <1>1, <2>7, <2>8, <2>9, <2>10
  <2> QED
    BY <2>1, <2>2, <2>3, <2>11 DEF C, N
<1>12. /\ Pruned(world') /\ Early(world')
       /\ Marked(world') \subseteq Listed(designated')
       /\ meter'.used >= Bill(Newborn(Start, world'), Listed(designated'))
  <2> HIDE DEF birth, indicates, B, M
  <2> QED
    BY <1>2, <1>10, <1>11
<1>13. phase' = "Authorizing"
  BY <1>1
<1>14. Prepaid(before, Proxy(tx), {})'
  BY <1>8 DEF Prepaid, Unspent, Proxy, LedgerOf
<1> HIDE DEF Pruned, Early, Marked, Listed, Newborn, Bill
<1> QED
  BY <1>12, <1>13, <1>14 DEF Billed, Pruned, Early, Marked, Listed, Newborn, Bill

\* Nor does the payment for the escrow.
LEMMA EscrowAlike ==
  ASSUME NEW w, NEW changed, tx \in Transactions, Valid(tx),
         Prepaid(w, Proxy(tx), changed)
  PROVE  Alike(w, EscrowPaid(w))
<1> DEFINE e == EscrowOf(tx) * GasPrice
<1>1. w.accounts[Origin].balance \in Nat
  BY PrepaidSender
<1>2. EscrowOf(tx) \in Nat /\ tx.value \in Nat /\ GasPrice \in Nat
  BY GasSplit, LimitsNat DEF Transactions
<1>3. e \in Nat
  BY <1>2
<1>4. e + tx.value <= w.accounts[Origin].balance
  BY Affordable
<1>5. EscrowPaid(w) = Debit(w, Origin, e)
  BY DEF EscrowPaid
<1> HIDE DEF e
<1>6. e <= w.accounts[Origin].balance
  BY <1>1, <1>2, <1>3, <1>4
<1> QED
  BY <1>3, <1>5, <1>6, SpendingAlike

\* transaction.bend:61-70.  A failed dispatch leaves nothing to pay for.
LEMMA DispatchFailsBilled ==
  ASSUME PrunedStart, TInv, Enlisted, Billed, DispatchFails
  PROVE  Billed'
<1>1. /\ tx \in Transactions /\ Valid(tx) /\ phase = "Authorizing" /\ phase' = "Running"
      /\ snapshot' = EscrowPaid(before) /\ committed' = committed
  BY DEF TInv, DispatchFails, Preparing, UndispatchedWorld
<1>2. Prepaid(before, Proxy(tx), {}) /\ committed.used = 0
  BY <1>1 DEF Billed, Enlisted
<1>3. Prepaid(EscrowPaid(before), tx.gas, {})
  BY <1>1, <1>2, EscrowPrepaid
<1>4. /\ Early(snapshot') /\ Marked(snapshot') = {} /\ Newborn(Start, snapshot') = {}
  BY <1>1, <1>3, NothingBilled
<1>5. committed'.used >= Bill(Newborn(Start, snapshot'), Marked(snapshot'))
  BY <1>1, <1>2, <1>4, NoBill
<1> QED
  BY <1>1, <1>4, <1>5 DEF Billed, Early, Marked, Newborn, Bill

\* transaction.bend:107-117.  A dispatch settles what the authorizations paid,
\* and the snapshot shows what they did.
LEMMA DispatchBilled ==
  ASSUME IsFiniteSet(Address), TInv, Billed, Dispatch
  PROVE  Billed'
<1> DEFINE d == Dispatched
           callee == d.accounts[tx.to]
           to == callee.code.to
           warmed == IF Delegating THEN WarmAccount(d, to) ELSE d
           b == EscrowPaid(warmed)
<1>1. /\ tx \in Transactions /\ Valid(tx) /\ phase = "Authorizing" /\ phase' = "Running"
      /\ tx' = tx /\ snapshot' = b /\ committed'.used = meter.used
  BY DEF TInv, Dispatch, Preparing, Callee
<1>2. /\ Prepaid(world, Proxy(tx), written) /\ meter.used \in Int
      /\ Early(world) /\ Marked(world) \subseteq Listed(designated)
      /\ meter.used >= Bill(Newborn(Start, world), Listed(designated))
  <2>1. IInv /\ Prepaid(world, Proxy(tx), written)
    BY <1>1 DEF TInv, Prepared
  <2>2. meter.used \in Int
    BY <2>1, RunningTyped DEF MeterSet
  <2> QED
    BY <1>1, <2>1, <2>2 DEF Billed
<1>3. Prepaid(d, Proxy(tx), written) /\ LedgerOf(d) = LedgerOf(world)
  BY <1>1, <1>2, PrepaidWarmed DEF Dispatched
<1>4. tx.to \in Address /\ (Delegating => Delegated(callee.code))
  BY <1>1 DEF Delegating, Callee, Transactions
<1> HIDE DEF d
<1>5. d \in WorldSet
  BY <1>3 DEF Prepaid
<1>6. Delegating => to \in Address
  <2>1. callee.code \in CodeSet
    BY <1>4, <1>5 DEF WorldSet, AccountSet
  <2> QED
    BY <1>4, <2>1, DelegateType
<1>7. Prepaid(warmed, Proxy(tx), written) /\ LedgerOf(warmed) = LedgerOf(world)
  <2> HIDE DEF to
  <2>1. CASE Delegating
    BY <1>3, <1>5, <1>6, <2>1, PrepaidWarm, WarmUnseen
  <2>2. CASE ~Delegating
    BY <1>3, <2>2
  <2> QED
    BY <2>1, <2>2
<1> HIDE DEF warmed
<1>8. /\ Early(warmed) /\ Marked(warmed) = Marked(world)
      /\ Newborn(Start, warmed) = Newborn(Start, world)
  BY <1>2, <1>7, LedgerAlike, AlikeBilled
<1>9. /\ Early(b) /\ Marked(b) = Marked(world)
      /\ Newborn(Start, b) = Newborn(Start, world)
  BY <1>1, <1>7, <1>8, EscrowAlike, AlikeBilled
<1> HIDE DEF b
<1>10. /\ Bill(Newborn(Start, world), Marked(world)) \in Nat
       /\ Bill(Newborn(Start, world), Listed(designated)) \in Nat
       /\ Bill(Newborn(Start, world), Marked(world))
            <= Bill(Newborn(Start, world), Listed(designated))
  <2>1. /\ Newborn(Start, world) \in SUBSET Address
        /\ Listed(designated) \in SUBSET Address
    BY DEF Newborn, Listed
  <2> QED
    BY <1>2, <2>1, BillBounded
<1>11. committed'.used >= Bill(Newborn(Start, snapshot'), Marked(snapshot'))
  BY <1>1, <1>2, <1>9, <1>10
<1>12. Early(snapshot')
  BY <1>1, <1>9
<1> QED
  BY <1>1, <1>11, <1>12 DEF Billed, Early, Marked, Newborn, Bill

\* What a message ends with shows the state that it paid for: all that it
\* added to the world it started in, nothing if it failed.
LEMMA OutcomeShown ==
  ASSUME IsFiniteSet(Address), TInv, Backed, phase = "Running", parents = <<>>
  PROVE  \E b \in WorldSet :
           /\ b = snapshot /\ Fit(b, FinalWorld) /\ Warmth(b, FinalWorld)
           /\ FinalMeter.used = StatePrice(b, FinalWorld)
<1>1. CASE Completes
  BY <1>1, FinalBooks
<1>2. CASE ~Completes
  <2> DEFINE b == snapshot
             v == [b EXCEPT !.refund = 0]
  <2>1. FinalMeter.used = 0
    BY <1>2, FinalBooks
  <2>2. FinalWorld = v
    BY <1>2 DEF FinalWorld, Completes
  <2>3. Prepaid(b, tx.gas, written) /\ Level(b)
    BY DEF TInv, Underway, Backed
  <2>4. b \in WorldSet /\ Untouched(b)
    BY <2>3, PreparedUntouched DEF Prepaid
  <2> HIDE DEF b
  <2>5. v.accounts = b.accounts
    BY <2>4 DEF WorldSet
  <2>6. Fit(b, b) /\ StatePrice(b, b) = 0 /\ Warmth(b, b)
    BY <2>4, UntouchedPrice, UntouchedGood DEF Good
  <2> HIDE DEF v
  <2>7. Filled(v) = Filled(b) /\ Newborn(b, v) = Newborn(b, b) /\ Coded(b, v) = Coded(b, b)
    BY <2>5 DEF Filled, Newborn, Coded
  <2>8. Fit(b, v)
    BY <2>5, <2>6, <2>7 DEF Fit
  <2>9. StatePrice(b, v) = 0
    BY <2>6, <2>7 DEF StatePrice
  <2>10. Warmth(b, v)
    BY <2>5, <2>6 DEF Warmth
  <2> QED
    BY <2>1, <2>2, <2>4, <2>8, <2>9, <2>10 DEF b
<1> QED
  BY <1>1, <1>2

\* What settlement may do to accounts: clear code and storage, and bring those
\* of a set to life.
Fewer(w, v, S) ==
  \A x \in Address :
    /\ v.accounts[x].code \in {w.accounts[x].code, NoCode}
    /\ v.accounts[x].storage \in {w.accounts[x].storage, ZeroSlots}
    /\ IsEmpty(w.accounts[x]) /\ x \notin S => IsEmpty(v.accounts[x])

\* It may do so twice.
LEMMA FewerTwice ==
  ASSUME NEW u, NEW v, NEW w, NEW S, NEW T, Fewer(u, v, S), Fewer(v, w, T)
  PROVE  Fewer(u, w, S \cup T)
<1>1. ASSUME NEW x \in Address
      PROVE  /\ w.accounts[x].code \in {u.accounts[x].code, NoCode}
             /\ w.accounts[x].storage \in {u.accounts[x].storage, ZeroSlots}
             /\ IsEmpty(u.accounts[x]) /\ x \notin S \cup T => IsEmpty(w.accounts[x])
  <2>1. /\ v.accounts[x].code \in {u.accounts[x].code, NoCode}
        /\ v.accounts[x].storage \in {u.accounts[x].storage, ZeroSlots}
        /\ IsEmpty(u.accounts[x]) /\ x \notin S => IsEmpty(v.accounts[x])
    BY DEF Fewer
  <2>2. /\ w.accounts[x].code \in {v.accounts[x].code, NoCode}
        /\ w.accounts[x].storage \in {v.accounts[x].storage, ZeroSlots}
        /\ IsEmpty(v.accounts[x]) /\ x \notin T => IsEmpty(w.accounts[x])
    BY DEF Fewer
  <2> QED
    BY <2>1, <2>2
<1> QED
  BY <1>1 DEF Fewer

\* Modifying an account keeps or clears its code and storage.
LEMMA ModifiedFewer ==
  ASSUME NEW account \in AccountSet
  PROVE  /\ Modified(account).code \in {account.code, NoCode}
         /\ Modified(account).storage \in {account.storage, ZeroSlots}
         /\ IsEmpty(account) => IsEmpty(Modified(account))
<1>1. CASE IsEmpty(account)
  <2>1. Modified(account) = [account EXCEPT !.code = NoCode, !.storage = ZeroSlots,
                                            !.exists = FALSE]
    BY <1>1 DEF Modified
  <2>2. /\ Modified(account).code = NoCode /\ Modified(account).storage = ZeroSlots
        /\ Modified(account).balance = account.balance
        /\ Modified(account).nonce = account.nonce
    BY <2>1 DEF AccountSet
  <2> QED
    BY <1>1, <2>2 DEF IsEmpty, NoCode
<1>2. CASE ~IsEmpty(account)
  <2>1. Modified(account) = [account EXCEPT !.exists = TRUE]
    BY <1>2 DEF Modified
  <2>2. Modified(account).code = account.code /\ Modified(account).storage = account.storage
    BY <2>1 DEF AccountSet
  <2> QED
    BY <1>2, <2>2
<1> QED
  BY <1>1, <1>2

\* A credit brings its recipient to life.
LEMMA CreditFewer ==
  ASSUME NEW w \in WorldSet, NEW x \in Address, NEW delta \in Nat
  PROVE  Fewer(w, Credit(w, x, delta), {x})
<1> DEFINE old == w.accounts[x]
           account == [old EXCEPT !.balance = @ + delta]
           v == Credit(w, x, delta)
<1>1. old \in AccountSet
  BY DEF WorldSet
<1>2. \A y \in Address : v.accounts[y] = IF y = x THEN Modified(account) ELSE w.accounts[y]
  BY DEF Credit, Modify, Put, WorldSet
<1> HIDE DEF old, v
<1>3. account \in AccountSet /\ account.code = old.code /\ account.storage = old.storage
  BY <1>1 DEF AccountSet
<1> HIDE DEF account
<1>4. /\ Modified(account).code \in {old.code, NoCode}
      /\ Modified(account).storage \in {old.storage, ZeroSlots}
  BY <1>3, ModifiedFewer
<1>5. Fewer(w, v, {x})
  BY <1>2, <1>4 DEF Fewer, old
<1> QED
  BY <1>5 DEF v

\* A deletion brings nobody to life.
LEMMA DestroyFewer ==
  ASSUME NEW w \in WorldSet
  PROVE  Fewer(w, Destroy(w), {})
<1> DEFINE v == Destroy(w)
           bare(x) == [w.accounts[x] EXCEPT !.nonce = 0, !.code = NoCode, !.storage = ZeroSlots]
<1>1. \A x \in Address :
        v.accounts[x] = IF x \in ToSet(w.selfdestructs) THEN Modified(bare(x))
                        ELSE w.accounts[x]
  BY DEF Destroy, WorldSet
<1> HIDE DEF v
<1>2. ASSUME NEW x \in Address
      PROVE  /\ Modified(bare(x)).code \in {w.accounts[x].code, NoCode}
             /\ Modified(bare(x)).storage \in {w.accounts[x].storage, ZeroSlots}
             /\ IsEmpty(w.accounts[x]) => IsEmpty(Modified(bare(x)))
  <2> DEFINE old == w.accounts[x]
             account == [old EXCEPT !.nonce = 0, !.code = NoCode, !.storage = ZeroSlots]
  <2>1. old \in AccountSet /\ bare(x) = account
    BY DEF WorldSet
  <2> HIDE DEF old, bare
  <2>2. /\ account.code = NoCode /\ account.storage = ZeroSlots /\ account.nonce = 0
        /\ account.balance = old.balance
    BY <2>1 DEF AccountSet
  <2>3. account \in AccountSet
    <3>1. NoCode \in CodeSet /\ ZeroSlots \in [Key -> Value]
      BY WorldAssumption DEF NoCode, CodeSet, ZeroSlots
    <3> QED
      BY <2>1, <3>1 DEF AccountSet
  <2> HIDE DEF account
  <2>4. /\ Modified(account).code \in {NoCode} /\ Modified(account).storage \in {ZeroSlots}
        /\ IsEmpty(account) => IsEmpty(Modified(account))
    BY <2>2, <2>3, ModifiedFewer
  <2>5. IsEmpty(old) => IsEmpty(account)
    BY <2>2 DEF IsEmpty, NoCode
  <2>6. /\ Modified(account).code \in {old.code, NoCode}
        /\ Modified(account).storage \in {old.storage, ZeroSlots}
        /\ IsEmpty(old) => IsEmpty(Modified(account))
    BY <2>4, <2>5
  <2> QED
    BY <2>1, <2>6 DEF old
<1> HIDE DEF bare
<1>3. Fewer(w, v, {})
  BY <1>1, <1>2 DEF Fewer
<1> QED
  BY <1>3 DEF v

\* transaction-finish.bend:49-57.  The fees bring only the sender and the
\* coinbase to life.
LEMMA FeesFewer ==
  ASSUME NEW w \in WorldSet, NEW r, NEW left \in Nat, NEW used \in Nat,
         r.left = left, r.used = used
  PROVE  Fewer(w, PayFees(w, r), {Origin, Coinbase})
<1> DEFINE back == left * GasPrice
           tip == used * Priority
           v == Credit(w, Origin, back)
           u == Credit(v, Coinbase, tip)
<1>1. back \in Nat /\ tip \in Nat /\ Origin \in Address /\ Coinbase \in Address
  BY LimitsNat
<1>2. PayFees(w, r) = Destroy(u)
  BY DEF PayFees
<1> HIDE DEF back, tip
<1>3. \A z \in WorldSet, x \in Address, d \in Nat : z.accounts[x].balance + d \in Nat /\ d \in Int
  BY DEF WorldSet, AccountSet
<1>4. v \in WorldSet /\ Fewer(w, v, {Origin})
  <2>1. w.accounts[Origin].balance + back \in Nat /\ back \in Int
    BY <1>1, <1>3
  <2> QED
    BY <1>1, <2>1, CreditType, CreditFewer
<1> HIDE DEF v
<1>5. u \in WorldSet /\ Fewer(v, u, {Coinbase})
  <2>1. v.accounts[Coinbase].balance + tip \in Nat /\ tip \in Int
    BY <1>1, <1>3, <1>4
  <2> QED
    BY <1>1, <1>4, <2>1, CreditType, CreditFewer
<1> HIDE DEF u
<1>6. Fewer(u, Destroy(u), {})
  BY <1>5, DestroyFewer
<1>7. Fewer(w, u, {Origin} \cup {Coinbase})
  BY <1>4, <1>5, FewerTwice
<1>8. Fewer(w, Destroy(u), ({Origin} \cup {Coinbase}) \cup {})
  BY <1>6, <1>7, FewerTwice
<1>9. ({Origin} \cup {Coinbase}) \cup {} = {Origin, Coinbase}
  OBVIOUS
<1> QED
  BY <1>2, <1>8, <1>9

\* The slots a world has filled, and the bytes of code it has, since Start.
Appeared(w) ==
  {s \in Address \X Key : /\ Start.accounts[s[1]].storage[s[2]] = 0
                          /\ w.accounts[s[1]].storage[s[2]] # 0}

Growth(w) ==
  [x \in Address |->
    IF Delegated(w.accounts[x].code) THEN 0
    ELSE LET growth == w.accounts[x].code.len - Start.accounts[x].code.len
         IN  IF growth > 0 THEN growth ELSE 0]

\* What a message started from, ended with and left after the fees.
Chain(b, w, v) ==
  /\ b \in WorldSet /\ w \in WorldSet
  /\ \E gas, changed : Prepaid(b, gas, changed)
  /\ Level(b) /\ Early(b)
  /\ Fit(b, w) /\ Warmth(b, w) /\ Fewer(w, v, {Origin, Coinbase})

\* A slot that the transaction filled the message filled.
LEMMA ChainSlots ==
  ASSUME NEW b, NEW w, NEW v, Chain(b, w, v)
  PROVE  Appeared(v) \subseteq Filled(w)
<1>1. \A x \in Address : w.accounts[x].original = Start.accounts[x].storage
  <2>1. PICK gas, changed : Prepaid(b, gas, changed)
    BY DEF Chain
  <2>2. \A x \in Address : b.accounts[x].storage = Start.accounts[x].storage
    BY <2>1, FaceOf DEF Prepaid, Unspent
  <2>3. \A x \in Address : b.accounts[x].original = b.accounts[x].storage
    BY DEF Chain, Level
  <2>4. \A x \in Address : w.accounts[x].original = b.accounts[x].original
    BY DEF Chain, Warmth
  <2> QED
    BY <2>2, <2>3, <2>4
<1>2. ASSUME NEW s \in Appeared(v)
      PROVE  s \in Filled(w)
  <2>1. /\ s \in Address \X Key /\ s[1] \in Address /\ s[2] \in Key
        /\ Start.accounts[s[1]].storage[s[2]] = 0
        /\ v.accounts[s[1]].storage[s[2]] # 0
    BY <1>2 DEF Appeared
  <2>2. v.accounts[s[1]].storage \in {w.accounts[s[1]].storage, ZeroSlots}
    BY <2>1 DEF Chain, Fewer
  <2>3. v.accounts[s[1]].storage # ZeroSlots
    BY <2>1 DEF ZeroSlots
  <2>4. w.accounts[s[1]].storage[s[2]] # 0
    BY <2>1, <2>2, <2>3
  <2> QED
    BY <1>1, <2>1, <2>4 DEF Filled
<1> QED
  BY <1>2

\* An account that it brought to life an authorization or the message did.
LEMMA ChainBorn ==
  ASSUME PrunedStart, NEW b, NEW w, NEW v, Chain(b, w, v)
  PROVE  Newborn(Start, v) \ {Coinbase} \subseteq Newborn(b, w) \cup Newborn(Start, b)
<1>1. ASSUME NEW x \in Newborn(Start, v), x # Coinbase
      PROVE  x \in Newborn(b, w) \cup Newborn(Start, b)
  <2>1. x \in Address /\ IsEmpty(Start.accounts[x]) /\ ~IsEmpty(v.accounts[x])
    BY <1>1 DEF Newborn
  <2>2. x # Origin
    BY <2>1 DEF PrunedStart
  <2>3. ~IsEmpty(w.accounts[x])
    BY <1>1, <2>1, <2>2 DEF Chain, Fewer
  <2> QED
    BY <2>1, <2>3 DEF Newborn
<1> QED
  BY <1>1

\* An account that it made delegate an authorization did.
LEMMA ChainMarked ==
  ASSUME NEW b, NEW w, NEW v, Chain(b, w, v)
  PROVE  Marked(v) \subseteq Marked(b)
<1>1. ASSUME NEW x \in Marked(v)
      PROVE  x \in Marked(b)
  <2>1. x \in Address /\ Delegated(v.accounts[x].code) /\ ~Delegated(Start.accounts[x].code)
    BY <1>1 DEF Marked
  <2>2. v.accounts[x].code \in {w.accounts[x].code, NoCode} /\ ~Delegated(NoCode)
    BY <2>1 DEF Chain, Fewer, Delegated, NoCode
  <2>3. Delegated(w.accounts[x].code)
    BY <2>1, <2>2
  <2>4. w.accounts[x].code = b.accounts[x].code
    BY <2>1, <2>3 DEF Chain, Fit
  <2> QED
    BY <2>1, <2>3, <2>4 DEF Marked
<1> QED
  BY <1>1

\* The bytes of code that it added the message deposited.
LEMMA ChainCode ==
  ASSUME NEW b, NEW w, NEW v, Chain(b, w, v)
  PROVE  /\ Growth(v) \in [Address -> Int] /\ Coded(b, w) \in [Address -> Int]
         /\ \A x \in Address : Growth(v)[x] <= Coded(b, w)[x]
<1>1. \A x \in Address : /\ b.accounts[x].code \in CodeSet /\ w.accounts[x].code \in CodeSet
                         /\ Start.accounts[x].code \in CodeSet
  BY StartAccounts DEF Chain, WorldSet, AccountSet
<1>2. NoCode \in CodeSet /\ NoCode.len = 0
  BY DEF NoCode, CodeSet
<1>3. \A x \in Address : v.accounts[x].code \in {w.accounts[x].code, NoCode}
  BY DEF Chain, Fewer
<1>4. \A x \in Address : /\ b.accounts[x].code.len \in Nat /\ w.accounts[x].code.len \in Nat
                         /\ Start.accounts[x].code.len \in Nat
                         /\ v.accounts[x].code.len \in Nat
  BY <1>1, <1>2, <1>3 DEF CodeSet
<1>5. Growth(v) \in [Address -> Int] /\ Coded(b, w) \in [Address -> Int]
  BY <1>4 DEF Growth, Coded
<1>6. ASSUME NEW x \in Address
      PROVE  Growth(v)[x] <= Coded(b, w)[x]
  <2> DEFINE start == Start.accounts[x].code
             early == b.accounts[x].code
             late  == w.accounts[x].code
             end   == v.accounts[x].code
             grown == end.len - start.len
  <2>1. /\ start.len \in Nat /\ early.len \in Nat /\ late.len \in Nat /\ end.len \in Nat
        /\ end \in {late, NoCode}
    BY <1>3, <1>4
  <2>2. late = early \/ (early.len = 0 /\ ~Delegated(late))
    BY DEF Chain, Fit
  <2>3. early \in {NoCode, start} \/ Delegated(early)
    BY DEF Chain, Early
  <2>4. Coded(b, w)[x] = late.len - early.len
    BY DEF Coded
  <2>5. Growth(v)[x] = IF Delegated(end) THEN 0 ELSE IF grown > 0 THEN grown ELSE 0
    BY DEF Growth
  <2> HIDE DEF start, early, late, end
  <2>6. CASE ~Delegated(end) /\ grown > 0
    <3>1. end = late
      BY <1>2, <2>1, <2>6
    <3>2. early.len = 0
      BY <1>2, <2>1, <2>2, <2>3, <2>6, <3>1
    <3> QED
      BY <2>1, <2>4, <2>5, <2>6, <3>1, <3>2
  <2>7. CASE Delegated(end) \/ ~(grown > 0)
    <3>1. Growth(v)[x] = 0
      BY <2>5, <2>7
    <3>2. late.len - early.len >= 0
      BY <2>1, <2>2
    <3> QED
      BY <2>1, <2>4, <3>1, <3>2
  <2> QED
    BY <2>6, <2>7
<1> QED
  BY <1>5, <1>6

\* All of it is on the bill or in the price of what the message shows.
LEMMA ChainPaid ==
  ASSUME IsFiniteSet(Address), PrunedStart, NEW b, NEW w, NEW v, Chain(b, w, v)
  PROVE  SlotState * Cardinality(Appeared(v))
           + NewAccount * Cardinality(Newborn(Start, v) \ {Coinbase})
           + CodeByte * SumFunction(Growth(v))
           + Indicator * Cardinality(Marked(v))
         <= StatePrice(b, w) + Bill(Newborn(Start, b), Marked(b))
<1> DEFINE late == Newborn(b, w)
           early == Newborn(Start, b)
           born == Newborn(Start, v) \ {Coinbase}
           slots == SlotState * Cardinality(Appeared(v))
           filled == SlotState * Cardinality(Filled(w))
           births == NewAccount * Cardinality(born)
           lateBirths == NewAccount * Cardinality(late)
           earlyBirths == NewAccount * Cardinality(early)
           bytes == CodeByte * SumFunction(Growth(v))
           coded == CodeByte * SumFunction(Coded(b, w))
           marks == Indicator * Cardinality(Marked(v))
           marked == Indicator * Cardinality(Marked(b))
<1>1. /\ SlotState \in Nat /\ NewAccount \in Nat /\ CodeByte \in Nat /\ Indicator \in Nat
  BY PricesNat, LimitsNat
<1>2. slots \in Int /\ filled \in Int /\ slots <= filled
  <2>1. IsFiniteSet(Filled(w)) /\ Appeared(v) \in SUBSET Filled(w)
    BY ChainSlots DEF Chain, Fit
  <2> QED
    BY <1>1, <2>1, SubsetPriced
<1>3. births \in Int /\ lateBirths \in Int /\ earlyBirths \in Int
      /\ births <= lateBirths + earlyBirths
  <2>1. /\ late \in SUBSET Address /\ early \in SUBSET Address
        /\ born \in SUBSET (late \cup early)
    BY ChainBorn DEF Newborn
  <2> HIDE DEF late, early, born
  <2>2. IsFiniteSet(late) /\ IsFiniteSet(early) /\ IsFiniteSet(late \cup early)
        /\ IsFiniteSet(late \cap early)
    <3>1. /\ late \cup early \in SUBSET Address /\ late \cap early \in SUBSET Address
      BY <2>1
    <3> QED
      BY <2>1, <3>1, FS_Subset
  <2>3. /\ Cardinality(late) \in Nat /\ Cardinality(early) \in Nat
        /\ Cardinality(late \cup early) \in Nat /\ Cardinality(late \cap early) \in Nat
    BY <2>2, FS_CardinalityType
  <2>4. Cardinality(late \cup early)
          = Cardinality(late) + Cardinality(early) - Cardinality(late \cap early)
    BY <2>2, FS_Union
  <2> DEFINE l == Cardinality(late)
             e == Cardinality(early)
             all == Cardinality(late \cup early)
  <2>5. births \in Nat /\ births <= NewAccount * all
    BY <1>1, <2>1, <2>2, SubsetPriced
  <2>6. l \in Nat /\ e \in Nat /\ all \in Nat /\ all <= l + e
    BY <2>3, <2>4
  <2> HIDE DEF l, e, all, births
  <2>7. NewAccount * all <= NewAccount * (l + e) /\ NewAccount * all \in Int
    BY <1>1, <2>6, PricedMore
  <2>8. NewAccount * (l + e) = NewAccount * l + NewAccount * e
    BY <1>1, <2>6
  <2>9. NewAccount * l \in Int /\ NewAccount * e \in Int
    BY <1>1, <2>6
  <2>10. lateBirths = NewAccount * l /\ earlyBirths = NewAccount * e
    BY DEF l, e
  <2> HIDE DEF lateBirths, earlyBirths
  <2>11. births <= lateBirths + earlyBirths
    BY <2>5, <2>7, <2>8, <2>9, <2>10
  <2> QED
    BY <2>5, <2>9, <2>10, <2>11
<1>4. bytes \in Int /\ coded \in Int /\ bytes <= coded
  <2>1. /\ SumFunction(Growth(v)) \in Int /\ SumFunction(Coded(b, w)) \in Int
        /\ SumFunction(Growth(v)) <= SumFunction(Coded(b, w))
    <3>1. /\ Growth(v) \in [Address -> Int] /\ Coded(b, w) \in [Address -> Int]
          /\ \A x \in Address : Growth(v)[x] <= Coded(b, w)[x]
      BY ChainCode
    <3> HIDE DEF Growth, Coded
    <3> QED
      BY <3>1, SumOfLarger
  <2> QED
    BY <1>1, <2>1, PricedMore
<1>5. marks \in Int /\ marked \in Int /\ marks <= marked
  <2>1. IsFiniteSet(Marked(b)) /\ Marked(v) \in SUBSET Marked(b)
    <3>1. Marked(b) \in SUBSET Address
      BY DEF Marked
    <3> QED
      BY <3>1, ChainMarked, FS_Subset
  <2> QED
    BY <1>1, <2>1, SubsetPriced
<1>6. StatePrice(b, w) = filled + lateBirths + coded
  BY DEF StatePrice
<1>7. Bill(Newborn(Start, b), Marked(b)) = earlyBirths + marked
  BY DEF Bill
<1> HIDE DEF slots, filled, births, lateBirths, earlyBirths, bytes, coded, marks, marked
<1>8. slots + births + bytes + marks <= (filled + lateBirths + coded) + (earlyBirths + marked)
  BY <1>2, <1>3, <1>4, <1>5
<1> QED
  BY <1>6, <1>7, <1>8 DEF slots, births, bytes, marks, born

\* transaction-finish.bend:57-86.  What the transaction leaves behind is in
\* the state gas that it reports.
LEMMA FinishPaid ==
  ASSUME IsFiniteSet(Address), PrunedStart, TInv, Backed, Billed, Finish
  PROVE  StatePaid'
<1> DEFINE r == Settlement
           w == FinalWorld
           v == PayFees(w, r)
<1>1. /\ phase = "Running" /\ parents = <<>> /\ phase' = "Completed"
      /\ receipt' = r /\ world' = v /\ tx \in Transactions /\ Valid(tx)
  BY DEF TInv, Finish
<1>2. PICK b \in WorldSet :
        /\ b = snapshot /\ Fit(b, w) /\ Warmth(b, w) /\ FinalMeter.used = StatePrice(b, w)
  BY <1>1, OutcomeShown
<1>3. Sound(FinalMeter) /\ w \in WorldSet
  BY <1>1, Outcome
<1>4. /\ \E gas, changed : Prepaid(b, gas, changed)
      /\ Level(b) /\ Early(b)
      /\ committed.used \in Nat /\ committed.used >= Bill(Newborn(Start, b), Marked(b))
  BY <1>1, <1>2 DEF TInv, Underway, Backed, Billed
<1>5. r.left \in Nat /\ r.used \in Nat
  BY <1>1, <1>3, SettlementOf
<1>6. r.state = Positive(FinalMeter.used + committed.used)
  BY DEF Settlement
<1>7. FinalMeter.used \in Nat
  BY <1>1, FinalUsed
<1> HIDE DEF r, w
<1>8. Fewer(w, v, {Origin, Coinbase})
  BY <1>3, <1>5, FeesFewer
<1> HIDE DEF v
<1>9. Chain(b, w, v)
  BY <1>2, <1>3, <1>4, <1>8 DEF Chain
<1> DEFINE left == SlotState * Cardinality(Appeared(v))
                     + NewAccount * Cardinality(Newborn(Start, v) \ {Coinbase})
                     + CodeByte * SumFunction(Growth(v))
                     + Indicator * Cardinality(Marked(v))
<1>10. left <= StatePrice(b, w) + Bill(Newborn(Start, b), Marked(b))
  BY <1>9, ChainPaid
<1>11. left \in Int /\ Bill(Newborn(Start, b), Marked(b)) \in Nat
  <2>1. Bill(Newborn(Start, b), Marked(b)) \in Nat
    <3>1. Newborn(Start, b) \in SUBSET Address /\ Marked(b) \in SUBSET Address
      BY DEF Newborn, Marked
    <3> QED
      BY <3>1, BillBounded
  <2>2. left \in Int
    <3>1. IsFiniteSet(Appeared(v))
      BY <1>2, <1>9, ChainSlots, FS_Subset DEF Fit
    <3>2. IsFiniteSet(Newborn(Start, v) \ {Coinbase}) /\ IsFiniteSet(Marked(v))
      <4>1. /\ Newborn(Start, v) \ {Coinbase} \in SUBSET Address
            /\ Marked(v) \in SUBSET Address
        BY DEF Newborn, Marked
      <4> QED
        BY <4>1, FS_Subset
    <3>3. /\ Cardinality(Appeared(v)) \in Nat
          /\ Cardinality(Newborn(Start, v) \ {Coinbase}) \in Nat
          /\ Cardinality(Marked(v)) \in Nat
      BY <3>1, <3>2, FS_CardinalityType
    <3>4. SumFunction(Growth(v)) \in Int
      <4>1. /\ Growth(v) \in [Address -> Int] /\ Coded(b, w) \in [Address -> Int]
            /\ \A x \in Address : Growth(v)[x] <= Coded(b, w)[x]
        BY <1>9, ChainCode
      <4> QED
        BY <4>1, SumOfLarger
    <3> QED
      BY <3>3, <3>4, PricesNat, LimitsNat
  <2> QED
    BY <2>1, <2>2
<1>12. r.state = StatePrice(b, w) + committed.used /\ StatePrice(b, w) \in Nat
  BY <1>2, <1>4, <1>6, <1>7 DEF Positive
<1> HIDE DEF left
<1>13. r.state >= left
  BY <1>4, <1>10, <1>11, <1>12
<1>14. receipt'.state >= SlotState * Cardinality(Appeared(world'))
                     + NewAccount * Cardinality(Newborn(Start, world') \ {Coinbase})
                     + CodeByte * SumFunction(Growth(world'))
                     + Indicator * Cardinality(Marked(world'))
  BY <1>1, <1>13 DEF left
<1> QED
  BY <1>14 DEF StatePaid, NewSlots, NewDesignations, NewCode, Born,
               Appeared, Newborn, Growth, Marked

BillInv == GasInv /\ Billed /\ StatePaid

\* Nothing moves what is billed but authorizations and the dispatch.
LEMMA BilledStays ==
  ASSUME Billed, phase' = phase, tx' = tx, before' = before,
         phase = "Authorizing" =>
           world' = world /\ designated' = designated /\ meter' = meter,
         snapshot' = snapshot, committed' = committed
  PROVE  Billed'
<1>1. CASE phase = "Authorizing"
  <2>1. /\ Prepaid(before', Proxy(tx'), {}) /\ Pruned(world') /\ Early(world')
        /\ Marked(world') \subseteq Listed(designated')
        /\ meter'.used >= Bill(Newborn(Start, world'), Listed(designated'))
    BY <1>1 DEF Billed
  <2>2. Prepaid(before, Proxy(tx), {})'
    BY <2>1 DEF Prepaid, Unspent, Proxy, LedgerOf
  <2> QED
    BY <1>1, <2>1, <2>2 DEF Billed, Pruned, Early, Marked, Listed, Newborn, Bill
<1>2. CASE phase # "Authorizing"
  <2>1. phase' = "Running" =>
          /\ Early(snapshot')
          /\ committed'.used >= Bill(Newborn(Start, snapshot'), Marked(snapshot'))
    BY DEF Billed
  <2> QED
    BY <1>2, <2>1 DEF Billed, Early, Marked, Newborn, Bill
<1> QED
  BY <1>1, <1>2

\* Every step keeps the bill paid.
LEMMA TxNextBill ==
  ASSUME IsFiniteSet(Address), TidyStart, PrunedStart, BillInv, [TxNext]_tvars
  PROVE  BillInv'
<1>1. TInv /\ GasInv /\ Enlisted /\ Backed /\ Billed /\ StatePaid
  BY DEF BillInv, GasInv, TxInv
<1>2. GasInv'
  BY <1>1, TxNextGas
<1>3. ASSUME phase' # "Completed", Billed'
      PROVE  BillInv'
  BY <1>2, <1>3 DEF BillInv, StatePaid, Completed
<1>4. ASSUME phase' \notin {"Authorizing", "Running"}, StatePaid'
      PROVE  BillInv'
  BY <1>2, <1>4 DEF BillInv, Billed
<1>5. CASE Authorize
  <2>1. phase' = "Authorizing"
    BY <1>5 DEF Authorize
  <2> QED
    BY <1>1, <1>3, <1>5, <2>1, AuthorizeBilled
<1>6. CASE DispatchFails
  <2>1. phase' = "Running"
    BY <1>6 DEF DispatchFails
  <2> QED
    BY <1>1, <1>3, <1>6, <2>1, DispatchFailsBilled
<1>7. CASE Dispatch
  <2>1. phase' = "Running"
    BY <1>7 DEF Dispatch
  <2> QED
    BY <1>1, <1>3, <1>7, <2>1, DispatchBilled
<1>8. CASE Run
  <2>1. /\ phase = "Running" /\ phase' = phase /\ tx' = tx /\ before' = before
        /\ snapshot' = snapshot /\ committed' = committed
    BY <1>8 DEF Run, book
  <2> QED
    BY <1>1, <1>3, <2>1, BilledStays
<1>9. CASE Finish
  <2>1. phase' = "Completed"
    BY <1>9 DEF Finish
  <2> QED
    BY <1>1, <1>4, <1>9, <2>1, FinishPaid
<1>10. CASE Abandon
  <2>1. phase' = "Incomplete"
    BY <1>10 DEF Abandon
  <2> QED
    BY <1>4, <2>1 DEF StatePaid, Completed
<1>11. CASE UNCHANGED tvars
  <2>1. /\ world' = world /\ meter' = meter /\ designated' = designated
        /\ phase' = phase /\ tx' = tx /\ before' = before /\ snapshot' = snapshot
        /\ committed' = committed /\ receipt' = receipt
    BY <1>11 DEF tvars, vars, book
  <2>2. Billed'
    BY <1>1, <2>1, BilledStays
  <2>3. StatePaid'
    BY <1>1, <2>1 DEF StatePaid, Completed, NewSlots, NewDesignations, NewCode, Born
  <2> QED
    BY <1>2, <2>2, <2>3 DEF BillInv
<1>12. TxHalt => UNCHANGED tvars
  BY DEF TxHalt
<1> QED
  BY <1>5, <1>6, <1>7, <1>8, <1>9, <1>10, <1>11, <1>12 DEF TxNext

\* The account of a transaction's state is complete: every slot filled, account
\* brought to life, byte of code and designation that it leaves behind is in
\* the state gas it reports, whether an authorization, the dispatch or the
\* program made it and whatever was rolled back in between
\* (transaction-finish.bend:86, transaction-auth.bend:64-96).
THEOREM StateIsPaid ==
  ASSUME IsFiniteSet(Address), TidyStart, PrunedStart
  PROVE  TxSpec => []StatePaid
<1>1. TxInit => BillInv
  <2> SUFFICES ASSUME TxInit
               PROVE  BillInv
    OBVIOUS
  <2>1. GasInv /\ Billed
    BY TxInitGas, TxInitBilled
  <2>2. phase = "Authorizing"
    BY DEF TxInit
  <2> QED
    BY <2>1, <2>2 DEF BillInv, StatePaid, Completed
<1>2. BillInv /\ [TxNext]_tvars => BillInv'
  BY TxNextBill
<1>3. BillInv => StatePaid
  BY DEF BillInv
<1> QED
  BY <1>1, <1>2, <1>3, PTL DEF TxSpec
=============================================================================
