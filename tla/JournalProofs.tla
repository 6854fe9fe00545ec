---------------------------- MODULE JournalProofs ----------------------------
(***************************************************************************)
(* What a journal always shows, whatever ran: a refund for every slot that *)
(* was cleared, warmth for everything that changed, a log for all the      *)
(* ether that moved, and state gas for all the state there now is.         *)
(*                                                                         *)
(* Almost every operation on a world is careful: it takes no warmth away,  *)
(* warms what it changes, and leaves refund and storage alone.  A store is *)
(* the exception and keeps the books of the refund itself.  The invariant  *)
(* also says which addresses are warm from when on: those of the frames,   *)
(* and those they were called or created for.                              *)
(*                                                                         *)
(* For the state gas the meters of all frames are summed.  Most operations *)
(* are free: what state they add, they add to nothing that has a price.  A *)
(* birth, a store and a deposit of code are paid for as they happen, and a *)
(* rollback takes back both the state and its price.                       *)
(***************************************************************************)
EXTENDS VmProofs

Living(account) == account.nonce # 0 \/ account.code.len # 0

\* Only a contract can have had storage when the transaction began.
Rooted(w) ==
  \A x \in Address : w.accounts[x].original # ZeroSlots => Living(w.accounts[x])

\* The slots that were not empty when the transaction began and are now.
Cleared(w) ==
  {s \in Address \X Key : /\ w.accounts[s[1]].original[s[2]] # 0
                          /\ w.accounts[s[1]].storage[s[2]] = 0}

\* Every cleared slot has its refund, so the counter cannot be negative.
Owed(w) ==
  /\ IsFiniteSet(Cleared(w))
  /\ w.refund >= ClearRefund * Cardinality(Cleared(w))

\* A changed account is warm, and so is a changed slot; what was warm stays
\* so, and what a slot held when the transaction began stays known.
Warmth(base, w) ==
  \A x \in Address :
    LET now == w.accounts[x]  before == base.accounts[x]
    IN  /\ before.warm => now.warm
        /\ now.original = before.original
        /\ \/ now.warm
           \/ /\ now.balance = before.balance
              /\ now.nonce = before.nonce
              /\ now.code = before.code
        /\ \A k \in Key : now.storage[k] = before.storage[k] \/ k \in now.slots

Explained(base, w) ==
  \A x \in Address :
    w.accounts[x].balance = base.accounts[x].balance + Sent(w, 2, x) - Sent(w, 1, x)

Good(base, w) == Rooted(w) /\ Owed(w) /\ Warmth(base, w) /\ Explained(base, w)

Warm(w) == {x \in Address : w.accounts[x].warm}

\* The frame at height i and the account it was called or created for are
\* warm for as long as the frame lasts.
Hot ==
  \A i \in 0..Len(parents) : \A j \in i..Len(parents) :
    /\ ChildFrameOf(i).address \in Warm(After(j))
    /\ i # 0 => parents[i].created \in Warm(After(j))

JInv(base) ==
  /\ LInv
  /\ Good(base, world)
  /\ \A i \in 1..Len(parents) : Good(base, parents[i].snapshot)
  /\ Hot

----------------------------------------------------------------------------
(* Careful operations.                                                     *)

\* What an operation that is not a store may do to an account.
Fine(p, q) ==
  /\ p.warm => q.warm
  /\ p.slots \subseteq q.slots
  /\ q.original = p.original
  /\ q.storage = p.storage
  /\ Living(p) => Living(q)
  /\ \/ q.warm
     \/ q.balance = p.balance /\ q.nonce = p.nonce /\ q.code = p.code

Careful(w, v) ==
  /\ v.refund = w.refund
  /\ \A x \in Address : Fine(w.accounts[x], v.accounts[x])

\* Being careful once and again is being careful.
LEMMA CarefulTwice ==
  ASSUME NEW u, NEW v, NEW w, Careful(u, v), Careful(v, w)
  PROVE  Careful(u, w)
<1>1. \A x \in Address : Fine(u.accounts[x], w.accounts[x])
  <2> SUFFICES ASSUME NEW x \in Address PROVE Fine(u.accounts[x], w.accounts[x])
    OBVIOUS
  <2> DEFINE p == u.accounts[x]
             q == v.accounts[x]
             r == w.accounts[x]
  <2>1. Fine(p, q) /\ Fine(q, r)
    BY DEF Careful
  <2> HIDE DEF p, q, r
  <2>2. Fine(p, r)
    BY <2>1 DEF Fine
  <2> QED
    BY <2>2 DEF p, r
<1> QED
  BY <1>1 DEF Careful

\* A world with the same accounts and the same refund.
LEMMA CarefulSame ==
  ASSUME NEW w, NEW v, v.accounts = w.accounts, v.refund = w.refund
  PROVE  Careful(w, v)
  BY DEF Careful, Fine

\* A careful operation keeps all but the explanation of the balances.
LEMMA CarefulKeeps ==
  ASSUME NEW base \in WorldSet,
         NEW w \in WorldSet, NEW v \in WorldSet, Careful(w, v),
         Rooted(w), Owed(w), Warmth(base, w)
  PROVE  Rooted(v) /\ Owed(v) /\ Warmth(base, v)
<1>1. \A x \in Address : Fine(w.accounts[x], v.accounts[x])
  BY DEF Careful
<1>2. Rooted(v)
  BY <1>1 DEF Rooted, Fine
<1>3. Cleared(v) = Cleared(w)
  <2>1. \A s \in Address \X Key : s[1] \in Address
    OBVIOUS
  <2>2. \A x \in Address : /\ v.accounts[x].original = w.accounts[x].original
                           /\ v.accounts[x].storage = w.accounts[x].storage
    BY <1>1 DEF Fine
  <2> QED
    BY <2>1, <2>2 DEF Cleared
<1>4. Owed(v)
  BY <1>3 DEF Owed, Careful
<1>5. Warmth(base, v)
  <2> SUFFICES ASSUME NEW x \in Address
               PROVE  /\ base.accounts[x].warm => v.accounts[x].warm
                      /\ v.accounts[x].original = base.accounts[x].original
                      /\ \/ v.accounts[x].warm
                         \/ /\ v.accounts[x].balance = base.accounts[x].balance
                            /\ v.accounts[x].nonce = base.accounts[x].nonce
                            /\ v.accounts[x].code = base.accounts[x].code
                      /\ \A k \in Key :
                           \/ v.accounts[x].storage[k] = base.accounts[x].storage[k]
                           \/ k \in v.accounts[x].slots
    BY DEF Warmth
  <2> QED
    BY <1>1 DEF Fine, Warmth
<1> QED
  BY <1>2, <1>4, <1>5

\* world.bend:47-56.  Writing a clean account back is as careful as the
\* account was changed.
LEMMA ModifyCareful ==
  ASSUME NEW w \in WorldSet, NEW x \in Address, NEW account \in AccountSet,
         Clean(account), Fine(w.accounts[x], account)
  PROVE  Careful(w, Modify(w, x, account)) /\ Modify(w, x, account).logs = w.logs
<1> DEFINE v == Modify(w, x, account)
           p == w.accounts[x]
           q == Modified(account)
<1>1. v.accounts[x] = q /\ v.refund = w.refund /\ v.logs = w.logs
  BY DEF Modify, Put, WorldSet
<1>2. \A y \in Address \ {x} : v.accounts[y] = w.accounts[y]
  BY ModifyType
<1>3. /\ q.balance = account.balance /\ q.nonce = account.nonce /\ q.code = account.code
      /\ q.storage = account.storage /\ q.original = account.original
      /\ q.warm = account.warm /\ q.slots = account.slots
  BY DEF Modified, IsEmpty, Clean, AccountSet
<1> HIDE DEF v, p, q
<1>4. Fine(p, q)
  <2>1. Fine(p, account)
    BY DEF p
  <2> QED
    BY <1>3, <2>1 DEF Fine, Living
<1>5. \A y \in Address : Fine(w.accounts[y], v.accounts[y])
  <2> SUFFICES ASSUME NEW y \in Address PROVE Fine(w.accounts[y], v.accounts[y])
    OBVIOUS
  <2>1. CASE y = x
    BY <1>1, <1>4, <2>1 DEF p
  <2>2. CASE y # x
    BY <1>2, <2>2 DEF Fine
  <2> QED
    BY <2>1, <2>2
<1>6. Careful(w, v)
  BY <1>1, <1>5 DEF Careful
<1> QED
  BY <1>1, <1>6 DEF v

\* The account of a tidy world is clean.
LEMMA TidyAccounts ==
  ASSUME NEW w \in WorldSet, Tidy(LedgerOf(w)), NEW x \in Address
  PROVE  w.accounts[x] \in AccountSet /\ Clean(w.accounts[x])
<1>1. LedgerOf(w)[x] = Face(w.accounts[x]) /\ Clean(LedgerOf(w)[x])
  BY LedgerType DEF Tidy
<1> QED
  BY <1>1 DEF Clean, Face, WorldSet

\* world.bend:60-63.  The balance of a warm account.
LEMMA CreditCareful ==
  ASSUME NEW w \in WorldSet, Tidy(LedgerOf(w)), NEW x \in Address, NEW delta \in Int,
         w.accounts[x].balance + delta \in Nat, w.accounts[x].warm
  PROVE  Careful(w, Credit(w, x, delta)) /\ Credit(w, x, delta).logs = w.logs
<1> DEFINE p == w.accounts[x]
           account == [p EXCEPT !.balance = @ + delta]
<1>1. p \in AccountSet /\ Clean(p) /\ p.balance + delta \in Nat /\ p.warm
  BY TidyAccounts
<1> HIDE DEF p
<1>2. /\ account \in AccountSet
      /\ account.nonce = p.nonce /\ account.code = p.code
      /\ account.storage = p.storage /\ account.original = p.original
      /\ account.warm = p.warm /\ account.slots = p.slots
  BY <1>1 DEF AccountSet
<1>3. Credit(w, x, delta) = Modify(w, x, account)
  BY DEF Credit, p
<1> HIDE DEF account
<1>4. Clean(account) /\ Fine(p, account)
  BY <1>1, <1>2 DEF Clean, Fine, Living
<1> QED
  BY <1>2, <1>3, <1>4, ModifyCareful DEF p

\* world.bend:58-63.  Ether moves from one warm account to another.
LEMMA MoveEtherCareful ==
  ASSUME NEW w \in WorldSet, Tidy(LedgerOf(w)), NEW source \in Address,
         NEW target \in Address, NEW value \in Nat,
         value <= w.accounts[source].balance,
         w.accounts[source].warm, w.accounts[target].warm
  PROVE  LET v == MoveEther(w, source, target, value)
         IN  /\ v \in WorldSet /\ Careful(w, v) /\ v.logs = w.logs
             /\ \A x \in Address :
                  v.accounts[x].balance = w.accounts[x].balance
                    + (IF x = target THEN value ELSE 0)
                    - (IF x = source THEN value ELSE 0)
<1> DEFINE less == -value
           debited == Credit(w, source, less)
           v == Credit(debited, target, value)
<1>1. \A x \in Address : w.accounts[x].balance \in Nat
  BY DEF WorldSet, AccountSet
<1>2. less \in Int /\ w.accounts[source].balance + less \in Nat
  BY <1>1
<1> HIDE DEF less
<1>3. /\ debited \in WorldSet /\ Careful(w, debited) /\ debited.logs = w.logs
      /\ debited.accounts[source].balance = w.accounts[source].balance + less
      /\ \A y \in Address \ {source} : debited.accounts[y] = w.accounts[y]
  BY <1>2, CreditType, CreditCareful
<1>4. Tidy(LedgerOf(debited))
  <2>1. LedgerOf(debited) = [LedgerOf(w) EXCEPT ![source].balance = @ + less]
    BY <1>2, CreditLedger
  <2>2. LedgerOf(w) \in [Address -> FaceSet]
    BY LedgerType
  <2>3. \A y \in Address : /\ LedgerOf(debited)[y].nonce = LedgerOf(w)[y].nonce
                           /\ LedgerOf(debited)[y].code = LedgerOf(w)[y].code
                           /\ LedgerOf(debited)[y].storage = LedgerOf(w)[y].storage
    BY <2>1, <2>2 DEF FaceSet
  <2> QED
    BY <2>3 DEF Tidy, Clean
<1>5. debited.accounts[target].warm
  BY <1>3 DEF Careful, Fine
<1>6. debited.accounts[target].balance \in Nat
  BY <1>3 DEF WorldSet, AccountSet
<1>7. debited.accounts[target].balance + value \in Nat /\ value \in Int
  BY <1>6
<1> HIDE DEF debited
<1>8. /\ v \in WorldSet /\ Careful(debited, v) /\ v.logs = debited.logs
      /\ v.accounts[target].balance = debited.accounts[target].balance + value
      /\ \A y \in Address \ {target} : v.accounts[y] = debited.accounts[y]
  BY <1>3, <1>4, <1>5, <1>7, CreditType, CreditCareful
<1>9. v = MoveEther(w, source, target, value)
  BY DEF MoveEther, debited, less
<1> HIDE DEF v
<1>10. Careful(w, v)
  BY <1>3, <1>8, CarefulTwice
<1>11. ASSUME NEW x \in Address
       PROVE  v.accounts[x].balance = w.accounts[x].balance
                    + (IF x = target THEN value ELSE 0)
                    - (IF x = source THEN value ELSE 0)
  BY <1>1, <1>3, <1>8 DEF less
<1> QED
  BY <1>3, <1>8, <1>9, <1>10, <1>11

\* world.bend:104-131.  Warming a slot, and transient storage.
LEMMA TouchCareful ==
  ASSUME NEW w \in WorldSet, NEW x \in Address, NEW k \in Key, NEW value
  PROVE  /\ Careful(w, WarmStorage(w, x, k))
         /\ Careful(w, SetTransient(w, x, k, value))
         /\ \A v \in {WarmStorage(w, x, k), SetTransient(w, x, k, value)} :
              /\ v.logs = w.logs
              /\ \A y \in Address : v.accounts[y].balance = w.accounts[y].balance
  BY DEF WarmStorage, SetTransient, Careful, Fine, Living, WorldSet, AccountSet

\* create-enter.bend:38.  A nonce of a warm account.
LEMMA NonceCareful ==
  ASSUME NEW w \in WorldSet, Tidy(LedgerOf(w)), NEW x \in Address, w.accounts[x].warm
  PROVE  /\ Careful(w, IncrementNonce(w, x))
         /\ IncrementNonce(w, x).logs = w.logs
<1> DEFINE p == w.accounts[x]
           account == [p EXCEPT !.nonce = @ + 1]
<1>1. p \in AccountSet /\ Clean(p) /\ p.warm /\ p.nonce \in Nat
  BY TidyAccounts DEF AccountSet
<1>0. p.nonce + 1 \in Nat
  BY <1>1
<1> HIDE DEF p
<1>2. /\ account \in AccountSet
      /\ account.nonce = p.nonce + 1 /\ account.code = p.code
      /\ account.storage = p.storage /\ account.original = p.original
      /\ account.warm = p.warm /\ account.slots = p.slots
  BY <1>0, <1>1 DEF AccountSet
<1>3. IncrementNonce(w, x) = Modify(w, x, account)
  BY DEF IncrementNonce, p
<1> HIDE DEF account
<1>4. Clean(account) /\ Fine(p, account)
  BY <1>1, <1>2 DEF Clean, Fine, Living
<1> QED
  BY <1>2, <1>3, <1>4, ModifyCareful DEF p

\* create-enter.bend:25-27.  A contract starts where there was none, at a warm
\* account, without storage then as now.
LEMMA NewContractCareful ==
  ASSUME NEW w \in WorldSet, Tidy(LedgerOf(w)), Rooted(w), NEW x \in Address,
         w.accounts[x].warm, ~Living(w.accounts[x])
  PROVE  /\ Careful(w, NewContract(w, x))
         /\ NewContract(w, x).logs = w.logs
<1> DEFINE p == w.accounts[x]
           account == [p EXCEPT !.storage = ZeroSlots, !.original = ZeroSlots,
                                !.nonce = 1, !.exists = TRUE, !.created = TRUE]
<1>1. /\ p \in AccountSet /\ Clean(p) /\ p.warm
      /\ p.original = ZeroSlots /\ p.storage = ZeroSlots
  BY TidyAccounts DEF Rooted, Clean, Living
<1> HIDE DEF p
<1>2. /\ account \in AccountSet
      /\ account.nonce = 1 /\ account.code = p.code
      /\ account.storage = ZeroSlots /\ account.original = ZeroSlots
      /\ account.warm = p.warm /\ account.slots = p.slots
  BY <1>1, ZeroSlotsType DEF AccountSet
<1>3. NewContract(w, x) = Modify(w, x, account)
  BY DEF NewContract, p
<1> HIDE DEF account
<1>4. Clean(account) /\ Fine(p, account)
  BY <1>1, <1>2 DEF Clean, Fine, Living
<1> QED
  BY <1>2, <1>3, <1>4, ModifyCareful DEF p

\* create-finish.bend:10-16.  Code is deposited at a warm account that has a
\* nonce.
LEMMA SetCodeCareful ==
  ASSUME NEW w \in WorldSet, NEW x \in Address, NEW code \in CodeSet,
         code.len = 0 => code = NoCode,
         w.accounts[x].warm, w.accounts[x].nonce # 0
  PROVE  /\ Careful(w, SetCode(w, x, code))
         /\ SetCode(w, x, code).logs = w.logs
<1> DEFINE p == w.accounts[x]
           account == [p EXCEPT !.code = code]
<1>1. p \in AccountSet /\ p.warm /\ p.nonce # 0
  BY DEF WorldSet
<1> HIDE DEF p
<1>2. /\ account \in AccountSet
      /\ account.nonce = p.nonce /\ account.code = code
      /\ account.storage = p.storage /\ account.original = p.original
      /\ account.warm = p.warm /\ account.slots = p.slots
  BY <1>1 DEF AccountSet
<1>3. SetCode(w, x, code) = Modify(w, x, account)
  BY DEF SetCode, p
<1> HIDE DEF account
<1>4. Clean(account) /\ Fine(p, account)
  BY <1>1, <1>2 DEF Clean, Fine, Living
<1> QED
  BY <1>2, <1>3, <1>4, ModifyCareful DEF p

\* create-finish.bend:10-16.  A deposit pays nobody.
LEMMA SetCodeBalance ==
  ASSUME NEW w \in WorldSet, NEW x \in Address, NEW code \in CodeSet
  PROVE  \A y \in Address : SetCode(w, x, code).accounts[y].balance = w.accounts[y].balance
<1> DEFINE p == w.accounts[x]
           account == [p EXCEPT !.code = code]
<1>1. p \in AccountSet
  BY DEF WorldSet
<1> HIDE DEF p
<1>2. account \in AccountSet /\ account.balance = p.balance
  BY <1>1 DEF AccountSet
<1>3. SetCode(w, x, code) = Modify(w, x, account)
  BY DEF SetCode, p
<1> HIDE DEF account
<1> QED
  BY <1>2, <1>3, ModifyType DEF p

----------------------------------------------------------------------------
(* The logs.                                                               *)

\* The ether that one event moves for an account.
Moves(event, topic, x) ==
  IF event.address = SystemAddress /\ event.topics[topic] = x THEN event.data ELSE 0

Moved(w, topic, x) == [i \in DOMAIN w.logs |-> Moves(w.logs[i], topic, x)]

\* What logs sent is a sum of natural numbers.
LEMMA SentSums ==
  ASSUME NEW w \in WorldSet, NEW topic, NEW x
  PROVE  /\ Sent(w, topic, x) = SumFunction(Moved(w, topic, x))
         /\ Len(w.logs) \in Nat /\ DOMAIN w.logs = 1..Len(w.logs)
         /\ Moved(w, topic, x) \in [1..Len(w.logs) -> Int]
<1>1. w.logs \in Seq(LogSet)
  BY DEF WorldSet
<1>2. /\ Len(w.logs) \in Nat /\ DOMAIN w.logs = 1..Len(w.logs)
      /\ \A i \in 1..Len(w.logs) : w.logs[i] \in LogSet
  BY <1>1
<1>3. \A event \in LogSet : Moves(event, topic, x) \in Int
  BY DEF Moves, LogSet
<1> QED
  BY <1>2, <1>3 DEF Sent, Moved, Moves

\* world.bend:136-142.  One more log sends what it says.
LEMMA LogSent ==
  ASSUME NEW w \in WorldSet, NEW event \in LogSet, NEW topic, NEW x
  PROVE  /\ Sent(Log(w, event), topic, x) = Sent(w, topic, x) + Moves(event, topic, x)
         /\ Sent(w, topic, x) \in Int
         /\ Moves(event, topic, x) \in Int
<1> DEFINE v == Log(w, event)
           f == Moved(w, topic, x)
           g == Moved(v, topic, x)
<1>1. PICK n \in Nat : n = Len(w.logs)
  BY SentSums
<1>2. w.logs \in Seq(LogSet) /\ v.logs = Append(w.logs, event) /\ v \in WorldSet
  BY LogType DEF Log, WorldSet
<1>3. /\ Len(v.logs) = n + 1 /\ v.logs[n + 1] = event
      /\ \A i \in 1..n : v.logs[i] = w.logs[i]
  BY <1>1, <1>2
<1> HIDE DEF v
<1>4. f \in [1..n -> Int] /\ g \in [1..(n + 1) -> Int]
  BY <1>1, <1>2, <1>3, SentSums
<1>5. DOMAIN w.logs = 1..n /\ DOMAIN v.logs = 1..(n + 1)
  BY <1>1, <1>2, <1>3, SentSums
<1>6. \A i \in 1..n : i \in 1..(n + 1) /\ g[i] = f[i]
  BY <1>3, <1>5 DEF Moved
<1>7. g[n + 1] = Moves(event, topic, x)
  BY <1>3, <1>5 DEF Moved
<1> HIDE DEF f, g
<1>8. IsFiniteSet(1..n) /\ n + 1 \notin 1..n /\ 1..(n + 1) = (1..n) \cup {n + 1}
  BY FS_Interval
<1>9. g \in [(1..n) \cup {n + 1} -> Int] /\ \A i \in 1..n : g[i] = f[i]
  BY <1>4, <1>6, <1>8
<1>10. SumFunction(g) = SumFunction(f) + g[n + 1] /\ SumFunction(f) \in Int
  <2> DEFINE S == 1..n
             last == n + 1
  <2>1. /\ IsFiniteSet(S) /\ last \notin S /\ f \in [S -> Int]
        /\ g \in [S \cup {last} -> Int] /\ \A i \in S : g[i] = f[i]
    BY <1>4, <1>8, <1>9
  <2> HIDE DEF S, last
  <2>2. SumFunction(g) = SumFunction(f) + g[last]
    BY <2>1, SumOfMore
  <2>3. SumFunction(f) \in Int
    BY <2>1, SumOfMore
  <2> QED
    BY <2>2, <2>3 DEF last
<1>11. Moves(event, topic, x) \in Int
  BY DEF Moves, LogSet
<1> QED
  BY <1>2, <1>7, <1>10, <1>11, SentSums DEF f, g, v

\* Balances and logs that stay explain each other as before.
LEMMA SameExplained ==
  ASSUME NEW base \in WorldSet, NEW w, NEW v, Explained(base, w), v.logs = w.logs,
         \A x \in Address : v.accounts[x].balance = w.accounts[x].balance
  PROVE  Explained(base, v)
  BY DEF Explained, Sent

\* A log of a program is not one of a transfer.
LEMMA LogExplained ==
  ASSUME NEW base \in WorldSet,
         NEW w \in WorldSet, Explained(base, w), NEW event \in LogSet,
         event.address # SystemAddress
  PROVE  Explained(base, Log(w, event))
<1> DEFINE v == Log(w, event)
<1>1. v.accounts = w.accounts
  BY LogType
<1>2. \A topic, x : Sent(v, topic, x) = Sent(w, topic, x)
  <2> SUFFICES ASSUME NEW topic, NEW x PROVE Sent(v, topic, x) = Sent(w, topic, x)
    OBVIOUS
  <2>1. /\ Sent(v, topic, x) = Sent(w, topic, x) + Moves(event, topic, x)
        /\ Sent(w, topic, x) \in Int
    BY LogSent
  <2>2. Moves(event, topic, x) = 0
    BY DEF Moves
  <2> HIDE DEF v
  <2> QED
    BY <2>1, <2>2
<1> HIDE DEF v
<1>3. Explained(base, v)
  BY <1>1, <1>2 DEF Explained
<1> QED
  BY <1>3 DEF v

\* call-common.bend:61-68.  The log of a transfer explains the ether it moved.
LEMMA TransferExplained ==
  ASSUME NEW base \in WorldSet,
         NEW w \in WorldSet, Explained(base, w), NEW v \in WorldSet, v.logs = w.logs,
         NEW source \in Address, NEW target \in Address, NEW value \in Nat,
         \A x \in Address :
           v.accounts[x].balance = w.accounts[x].balance
             + (IF x = target THEN value ELSE 0) - (IF x = source THEN value ELSE 0)
  PROVE  Explained(base, TransferLog(v, source, target, value))
<1>0. \A x \in Address : w.accounts[x].balance \in Nat
  BY DEF WorldSet, AccountSet
<1>1. CASE value = 0 \/ source = target
  <2>1. TransferLog(v, source, target, value) = v
    BY <1>1 DEF TransferLog
  <2>2. \A x \in Address : v.accounts[x].balance = w.accounts[x].balance
    BY <1>0, <1>1
  <2> QED
    BY <2>1, <2>2, SameExplained
<1>2. CASE ~(value = 0 \/ source = target)
  <2> DEFINE topics == <<source, target>>
             event == [address |-> SystemAddress, topics |-> topics, data |-> value]
             u == Log(v, event)
  <2>1. topics \in Seq(Address) /\ topics[1] = source /\ topics[2] = target
    OBVIOUS
  <2> HIDE DEF topics
  <2>2. event \in LogSet
    BY <2>1 DEF LogSet
  <2>3. \A x : /\ Moves(event, 1, x) = IF source = x THEN value ELSE 0
               /\ Moves(event, 2, x) = IF target = x THEN value ELSE 0
    BY <2>1 DEF Moves
  <2>4. TransferLog(v, source, target, value) = u
    BY <1>2 DEF TransferLog, topics
  <2> HIDE DEF event
  <2>5. u.accounts = v.accounts
    BY <2>2, LogType
  <2>6. \A topic, x : Sent(v, topic, x) = Sent(w, topic, x)
    BY DEF Sent
  <2>7. ASSUME NEW x \in Address
        PROVE  u.accounts[x].balance
                 = base.accounts[x].balance + Sent(u, 2, x) - Sent(u, 1, x)
    <3> DEFINE s1 == Sent(w, 1, x)
               s2 == Sent(w, 2, x)
               d1 == IF source = x THEN value ELSE 0
               d2 == IF target = x THEN value ELSE 0
    <3>1. /\ Sent(u, 1, x) = Sent(v, 1, x) + Moves(event, 1, x)
          /\ Sent(u, 2, x) = Sent(v, 2, x) + Moves(event, 2, x)
          /\ Sent(v, 1, x) \in Int /\ Sent(v, 2, x) \in Int
      BY <2>2, LogSent
    <3>2. /\ Sent(u, 1, x) = s1 + d1 /\ Sent(u, 2, x) = s2 + d2
          /\ s1 \in Int /\ s2 \in Int /\ d1 \in Int /\ d2 \in Int
      BY <2>3, <2>6, <3>1
    <3>3. w.accounts[x].balance = base.accounts[x].balance + s2 - s1
      BY DEF Explained
    <3>4. base.accounts[x].balance \in Nat
      BY ProgramAssumption DEF WorldSet, AccountSet
    <3>5. u.accounts[x].balance = w.accounts[x].balance + d2 - d1
      BY <2>5
    <3> HIDE DEF s1, s2, d1, d2, u
    <3> QED
      BY <3>2, <3>3, <3>4, <3>5
  <2> QED
    BY <2>4, <2>7 DEF Explained
<1> QED
  BY <1>1, <1>2

----------------------------------------------------------------------------
(* The shapes of a step.                                                   *)

\* What the running frame has to offer.
LEMMA Surface ==
  ASSUME NEW base \in WorldSet, JInv(base)
  PROVE  /\ LInv /\ IInv /\ Good(base, world) /\ world \in WorldSet /\ Tidy(LedgerOf(world))
         /\ Len(parents) \in Nat /\ parents \in Seq(ParentSet)
         /\ frame \in FrameSet /\ frame.address \in Address
         /\ frame.address \in Warm(world)
         /\ Len(parents) # 0 => parents[Len(parents)].created \in Warm(world)
<1>1. /\ LInv /\ IInv /\ Good(base, world) /\ world \in WorldSet /\ Tidy(LedgerOf(world))
      /\ Len(parents) \in Nat /\ parents \in Seq(ParentSet)
      /\ frame \in FrameSet /\ frame.address \in Address
      /\ ChildFrameOf(Len(parents)) = frame
  BY OnTop, RunningTyped DEF JInv
<1>2. After(Len(parents)) = world
  BY DEF After
<1>3. Len(parents) \in 0..Len(parents) /\ Len(parents) \in Len(parents)..Len(parents)
  BY <1>1
<1> QED
  BY <1>1, <1>2, <1>3 DEF JInv, Hot

\* A step that leaves the stack alone.
LEMMA QuietJournal ==
  ASSUME NEW base \in WorldSet,
         JInv(base), LInv', parents' = parents, frame'.address = frame.address,
         Good(base, world'), Warm(world) \subseteq Warm(world')
  PROVE  JInv(base)'
<1>0. PICK n \in Nat : n = Len(parents)
  BY Surface
<1>1. /\ Len(parents') = n /\ parents' = parents
      /\ \A j \in 0..n : j # n => After(j)' = After(j)
      /\ \A i \in 0..n : i # n => ChildFrameOf(i)' = ChildFrameOf(i)
      /\ After(n)' = world' /\ ChildFrameOf(n)' = frame'
      /\ After(n) = world /\ ChildFrameOf(n) = frame
  BY <1>0 DEF After, ChildFrameOf
<1>2. \A j \in 0..n : Warm(After(j)) \subseteq Warm(After(j)')
  BY <1>1
<1>3. \A i \in 0..n : ChildFrameOf(i)'.address = ChildFrameOf(i).address
  BY <1>1
<1>4. Hot'
  <2> SUFFICES ASSUME NEW i \in 0..n, NEW j \in i..n
               PROVE  /\ ChildFrameOf(i)'.address \in Warm(After(j)')
                      /\ i # 0 => parents[i].created \in Warm(After(j)')
    BY <1>1 DEF Hot, Warm
  <2>1. j \in 0..n
    OBVIOUS
  <2>2. /\ ChildFrameOf(i).address \in Warm(After(j))
        /\ i # 0 => parents[i].created \in Warm(After(j))
    BY <1>0 DEF JInv, Hot
  <2> QED
    BY <1>2, <1>3, <2>1, <2>2
<1>5. \A i \in 1..Len(parents') : Good(base, parents'[i].snapshot)
  BY DEF JInv
<1> QED
  BY <1>4, <1>5
     DEF JInv, Good, Rooted, Owed, Cleared, Warmth, Explained, Living, Sent

\* A step that suspends the running frame.
LEMMA PushJournal ==
  ASSUME NEW base \in WorldSet,
         JInv(base), LInv', NEW parent, parents' = Append(parents, parent),
         parent.frame.address = frame.address,
         Good(base, parent.snapshot), Good(base, world'),
         Warm(world) \subseteq Warm(parent.snapshot),
         Warm(parent.snapshot) \subseteq Warm(world'),
         frame'.address \in Warm(world'), parent.created \in Warm(world')
  PROVE  JInv(base)'
<1>0. PICK n \in Nat : n = Len(parents)
  BY Surface
<1>1. parents \in Seq(ParentSet)
  BY Surface
<1>2. /\ Len(parents') = n + 1 /\ parents'[n + 1] = parent
      /\ \A i \in 1..n : parents'[i] = parents[i]
  BY <1>0, <1>1
<1>3. /\ \A j \in 0..n : j # n => After(j)' = After(j) /\ ChildFrameOf(j)' = ChildFrameOf(j)
      /\ After(n)' = parent.snapshot /\ ChildFrameOf(n)' = parent.frame
      /\ After(n + 1)' = world' /\ ChildFrameOf(n + 1)' = frame'
  <2>1. \A j \in 0..n : j # n => j + 1 \in 1..n /\ j # n + 1
    OBVIOUS
  <2>2. n # n + 1
    OBVIOUS
  <2> QED
    BY <1>0, <1>2, <2>1, <2>2 DEF After, ChildFrameOf
<1>4. After(n) = world /\ ChildFrameOf(n) = frame
  BY <1>0 DEF After, ChildFrameOf
<1>5. /\ \A i \in 0..n + 1 : i \in 0..n \/ i = n + 1
      /\ \A i \in 1..n + 1 : i \in 1..n \/ i = n + 1
  OBVIOUS
<1>6. \A j \in 0..n : Warm(After(j)) \subseteq Warm(After(j)')
  BY <1>3, <1>4
<1>7. Warm(After(n)) \subseteq Warm(After(n + 1)')
  BY <1>3, <1>4
<1>8. \A i \in 0..n : ChildFrameOf(i)'.address = ChildFrameOf(i).address
  BY <1>3, <1>4
<1>9. Hot'
  <2> SUFFICES ASSUME NEW i \in 0..n + 1, NEW j \in i..n + 1
               PROVE  /\ ChildFrameOf(i)'.address \in Warm(After(j)')
                      /\ i # 0 => parents'[i].created \in Warm(After(j)')
    BY <1>2 DEF Hot, Warm
  <2>1. CASE i = n + 1
    <3>1. j = n + 1
      BY <2>1
    <3> QED
      BY <1>2, <1>3, <2>1, <3>1
  <2>2. CASE i \in 0..n
    <3>1. \A h \in i..n : /\ ChildFrameOf(i).address \in Warm(After(h))
                          /\ i # 0 => parents[i].created \in Warm(After(h))
      BY <1>0, <2>2 DEF JInv, Hot
    <3>2. (j \in i..n /\ j \in 0..n) \/ j = n + 1
      BY <2>2
    <3>3. n \in i..n /\ (i # 0 => parents'[i] = parents[i])
      BY <1>2, <2>2
    <3> QED
      BY <1>6, <1>7, <1>8, <2>2, <3>1, <3>2, <3>3
  <2> QED
    BY <1>5, <2>1, <2>2
<1>10. \A i \in 1..n + 1 : Good(base, parents'[i].snapshot)
  BY <1>0, <1>2, <1>5 DEF JInv
<1>11. \A i \in 1..Len(parents') : Good(base, parents'[i].snapshot)
  BY <1>2, <1>10
<1> QED
  BY <1>9, <1>11
     DEF JInv, Good, Rooted, Owed, Cleared, Warmth, Explained, Living, Sent

\* A step that resumes the innermost parent, on the journal it saved or on
\* one that goes on from its child's.
LEMMA PopJournal ==
  ASSUME NEW base \in WorldSet,
         JInv(base), LInv', parents # <<>>, parents' = Front(parents), frame' = Waiting.frame,
         Good(base, world'), Warm(world) \cap Warm(Waiting.snapshot) \subseteq Warm(world')
  PROVE  JInv(base)'
<1>0. PICK n \in Nat \ {0} : n = Len(parents)
  <2>1. parents \in Seq(ParentSet)
    BY Surface
  <2>2. Len(parents) \in Nat \ {0}
    BY <2>1
  <2> QED
    BY <2>2
<1>1. parents \in Seq(ParentSet) /\ Waiting = parents[n]
  BY <1>0, Surface DEF Waiting, Last
<1>2. /\ Len(parents') = n - 1
      /\ \A i \in 1..n - 1 : parents'[i] = parents[i]
  BY <1>0, <1>1, FrontProperties
<1>3. /\ \A j \in 0..n - 1 : j # n - 1 => After(j)' = After(j)
      /\ \A j \in 0..n - 1 : ChildFrameOf(j)' = ChildFrameOf(j)
      /\ After(n - 1)' = world'
  <2>1. \A j \in 0..n - 1 : j # n - 1 => j + 1 \in 1..n - 1
    OBVIOUS
  <2>2. \A j \in 0..n - 1 : j # n
    OBVIOUS
  <2>3. \A j \in 0..n - 1 : j # n - 1 => After(j)' = After(j) /\ ChildFrameOf(j)' = ChildFrameOf(j)
    BY <1>0, <1>2, <2>1, <2>2 DEF After, ChildFrameOf
  <2>4. After(n - 1)' = world' /\ ChildFrameOf(n - 1)' = Waiting.frame
    BY <1>2 DEF After, ChildFrameOf
  <2>5. ChildFrameOf(n - 1) = Waiting.frame
    BY <1>0, <1>1 DEF ChildFrameOf
  <2> QED
    BY <2>3, <2>4, <2>5
<1>4. After(n) = world /\ After(n - 1) = Waiting.snapshot
  BY <1>0, <1>1 DEF After
<1>5. \A i \in 0..n - 1 : /\ i \in 0..n /\ n - 1 \in i..n /\ n \in i..n
                          /\ \A j \in i..n - 1 : j \in i..n /\ j \in 0..n - 1
  OBVIOUS
<1>6. Hot'
  <2> SUFFICES ASSUME NEW i \in 0..n - 1, NEW j \in i..n - 1
               PROVE  /\ ChildFrameOf(i).address \in Warm(After(j)')
                      /\ i # 0 => parents[i].created \in Warm(After(j)')
    <3>1. \A i \in 0..n - 1 : i # 0 => parents'[i] = parents[i]
      BY <1>2
    <3> QED
      BY <1>2, <1>3, <3>1 DEF Hot, Warm
  <2>1. \A h \in i..n : /\ ChildFrameOf(i).address \in Warm(After(h))
                        /\ i # 0 => parents[i].created \in Warm(After(h))
    BY <1>0, <1>5 DEF JInv, Hot
  <2>2. CASE j = n - 1
    <3>1. n - 1 \in i..n /\ n \in i..n
      BY <1>5
    <3> QED
      BY <1>3, <1>4, <2>1, <2>2, <3>1
  <2>3. CASE j # n - 1
    BY <1>3, <1>5, <2>1, <2>3
  <2> QED
    BY <2>2, <2>3
<1>7. \A i \in 1..n - 1 : i \in 1..n
  OBVIOUS
<1>8. \A i \in 1..Len(parents') : Good(base, parents'[i].snapshot)
  BY <1>0, <1>2, <1>7 DEF JInv
<1> QED
  BY <1>6, <1>8
     DEF JInv, Good, Rooted, Owed, Cleared, Warmth, Explained, Living, Sent

----------------------------------------------------------------------------
(* The operations that steps are made of.                                  *)

\* A careful operation cools nothing.
LEMMA CarefulWarms ==
  ASSUME NEW w, NEW v, Careful(w, v)
  PROVE  Warm(w) \subseteq Warm(v)
  BY DEF Careful, Fine, Warm

\* A careful operation that moves no ether and writes no log.
LEMMA GoodStep ==
  ASSUME NEW base \in WorldSet,
         NEW w \in WorldSet, NEW v \in WorldSet, Good(base, w), Careful(w, v),
         v.logs = w.logs,
         \A x \in Address : v.accounts[x].balance = w.accounts[x].balance
  PROVE  Good(base, v) /\ Warm(w) \subseteq Warm(v)
  BY CarefulKeeps, CarefulWarms, SameExplained DEF Good

\* world.bend:78-79.  A warmed account.
LEMMA WarmGood ==
  ASSUME NEW base \in WorldSet, NEW w \in WorldSet, Good(base, w), NEW x \in Address
  PROVE  /\ WarmAccount(w, x) \in WorldSet /\ Good(base, WarmAccount(w, x))
         /\ Warm(w) \subseteq Warm(WarmAccount(w, x))
         /\ x \in Warm(WarmAccount(w, x))
<1> DEFINE v == WarmAccount(w, x)
<1>1. v \in WorldSet /\ v.logs = w.logs /\ v.refund = w.refund /\ v.accounts[x].warm
  <2>1. v \in WorldSet
    BY WarmAccountType
  <2>2. v.logs = w.logs /\ v.refund = w.refund
    BY DEF WarmAccount, WorldSet
  <2>3. v.accounts[x].warm
    BY DEF WarmAccount, WorldSet, AccountSet
  <2> QED
    BY <2>1, <2>2, <2>3
<1>2. \A y \in Address : Fine(w.accounts[y], v.accounts[y])
  BY DEF WarmAccount, Fine, Living, WorldSet, AccountSet
<1>3. \A y \in Address : v.accounts[y].balance = w.accounts[y].balance
  BY WarmAccountType
<1> HIDE DEF v
<1>4. Careful(w, v)
  BY <1>1, <1>2 DEF Careful
<1>5. Good(base, v) /\ Warm(w) \subseteq Warm(v) /\ x \in Warm(v)
  BY <1>1, <1>3, <1>4, GoodStep DEF Warm
<1> QED
  BY <1>1, <1>5 DEF v

\* world.bend:104-131.  A warmed slot, and transient storage.
LEMMA TouchGood ==
  ASSUME NEW base \in WorldSet,
         NEW w \in WorldSet, Good(base, w), NEW x \in Address, NEW k \in Key,
         NEW value \in Value
  PROVE  \A v \in {WarmStorage(w, x, k), SetTransient(w, x, k, value)} :
           Good(base, v) /\ Warm(w) \subseteq Warm(v)
<1>1. WarmStorage(w, x, k) \in WorldSet /\ SetTransient(w, x, k, value) \in WorldSet
  BY StorageTypes
<1>2. Careful(w, WarmStorage(w, x, k)) /\ Careful(w, SetTransient(w, x, k, value))
  BY TouchCareful
<1>3. \A v \in {WarmStorage(w, x, k), SetTransient(w, x, k, value)} :
        /\ v.logs = w.logs
        /\ \A y \in Address : v.accounts[y].balance = w.accounts[y].balance
  BY TouchCareful
<1> QED
  BY <1>1, <1>2, <1>3, GoodStep

\* call-common.bend:61-68.  A transfer's log has no effect but itself.
LEMMA TransferLogCareful ==
  ASSUME NEW w \in WorldSet, NEW source \in Address, NEW target \in Address,
         NEW value \in Nat
  PROVE  Careful(w, TransferLog(w, source, target, value))
<1> DEFINE v == TransferLog(w, source, target, value)
<1>1. v.accounts = w.accounts /\ v.refund = w.refund
  BY DEF TransferLog, Log, WorldSet
<1> QED
  BY <1>1, CarefulSame

\* call-common.bend:58-68, call-selfdestruct.bend:19-30.  Ether that moves
\* between warm accounts with its log keeps a journal good.
LEMMA MoveGood ==
  ASSUME NEW base \in WorldSet,
         NEW w \in WorldSet, Good(base, w), Tidy(LedgerOf(w)), NEW source \in Address,
         NEW target \in Address, NEW value \in Nat,
         value <= w.accounts[source].balance,
         w.accounts[source].warm, w.accounts[target].warm
  PROVE  LET v == TransferLog(MoveEther(w, source, target, value), source, target, value)
         IN  v \in WorldSet /\ Good(base, v) /\ Warm(w) \subseteq Warm(v)
<1> DEFINE u == MoveEther(w, source, target, value)
           v == TransferLog(u, source, target, value)
<1>1. /\ u \in WorldSet /\ Careful(w, u) /\ u.logs = w.logs
      /\ \A x \in Address :
           u.accounts[x].balance = w.accounts[x].balance
             + (IF x = target THEN value ELSE 0)
             - (IF x = source THEN value ELSE 0)
  BY MoveEtherCareful
<1> HIDE DEF u
<1>2. v \in WorldSet /\ Careful(u, v)
  BY <1>1, TransferLogType, TransferLogCareful
<1>3. Explained(base, v)
  BY <1>1, TransferExplained DEF Good
<1> HIDE DEF v
<1>4. Careful(w, v)
  BY <1>1, <1>2, CarefulTwice
<1>5. Rooted(v) /\ Owed(v) /\ Warmth(base, v)
  BY <1>2, <1>4, CarefulKeeps DEF Good
<1> QED
  BY <1>2, <1>3, <1>4, <1>5, CarefulWarms DEF Good, v, u

\* call-common.bend:58-68.  So does a payment, of nothing too.
LEMMA PayGood ==
  ASSUME NEW base \in WorldSet,
         NEW w \in WorldSet, Good(base, w), Tidy(LedgerOf(w)), NEW source \in Address,
         NEW target \in Address, NEW value \in Nat,
         value <= w.accounts[source].balance,
         w.accounts[source].warm, w.accounts[target].warm
  PROVE  Good(base, Pay(w, source, target, value)) /\ Warm(w) \subseteq Warm(Pay(w, source, target, value))
<1>1. CASE value = 0
  BY <1>1, PayNothing
<1>2. CASE value # 0
  BY <1>2, MoveGood DEF Pay, Transfer
<1> QED
  BY <1>1, <1>2

\* state-ops.bend:113-125.  What a refund comes to.
LEMMA RefundCovers ==
  ASSUME NEW original \in Value, NEW current \in Value, NEW value \in Value
  PROVE  /\ SlotRefund(original, current, value) \in Int
         /\ SlotRefund(original, current, value) >=
              IF original = 0 \/ current = value THEN 0
              ELSE IF current = 0 THEN -ClearRefund
              ELSE IF value = 0 THEN ClearRefund ELSE 0
<1>1. ClearRefund \in Nat /\ ResetRefund \in Nat
  BY PricesNat
<1> QED
  BY <1>1 DEF SlotRefund

\* One slot more or less that is cleared.
LEMMA OwedChanges ==
  ASSUME NEW S, IsFiniteSet(S), NEW s, NEW r \in Int, NEW d \in Int,
         r >= ClearRefund * Cardinality(S)
  PROVE  /\ d >= ClearRefund =>
              /\ IsFiniteSet(S \cup {s})
              /\ r + d >= ClearRefund * Cardinality(S \cup {s})
         /\ d >= -ClearRefund /\ s \in S =>
              /\ IsFiniteSet(S \ {s})
              /\ r + d >= ClearRefund * Cardinality(S \ {s})
<1>1. ClearRefund \in Nat
  BY PricesNat
<1>2. PICK n \in Nat : n = Cardinality(S)
  BY FS_CardinalityType
<1>3. /\ IsFiniteSet(S \cup {s}) /\ Cardinality(S \cup {s}) = IF s \in S THEN n ELSE n + 1
      /\ IsFiniteSet(S \ {s})
      /\ s \in S => Cardinality(S \ {s}) = n - 1
  BY <1>2, FS_AddElement, FS_RemoveElement
<1>4. /\ ClearRefund * (n + 1) = ClearRefund * n + ClearRefund
      /\ ClearRefund * (n - 1) = ClearRefund * n - ClearRefund
      /\ ClearRefund * n \in Nat
  BY <1>1
<1> DEFINE owed == ClearRefund * n
<1>5. owed \in Nat /\ r >= owed
  BY <1>2, <1>4
<1>6. ASSUME d >= ClearRefund
      PROVE  IsFiniteSet(S \cup {s}) /\ r + d >= ClearRefund * Cardinality(S \cup {s})
  <2>1. ClearRefund * Cardinality(S \cup {s}) \in {owed, owed + ClearRefund}
    BY <1>3, <1>4
  <2> HIDE DEF owed
  <2> QED
    BY <1>1, <1>3, <1>5, <1>6, <2>1
<1>7. ASSUME d >= -ClearRefund, s \in S
      PROVE  IsFiniteSet(S \ {s}) /\ r + d >= ClearRefund * Cardinality(S \ {s})
  <2>1. ClearRefund * Cardinality(S \ {s}) = owed - ClearRefund
    BY <1>3, <1>4, <1>7
  <2> HIDE DEF owed
  <2> QED
    BY <1>1, <1>3, <1>5, <1>7, <2>1
<1> QED
  BY <1>6, <1>7

\* world.bend:81-127.  A store changes one slot of one account.
LEMMA StoredShape ==
  ASSUME NEW w \in WorldSet, NEW x \in Address, NEW k \in Key, NEW value \in Value,
         NEW stored, stored = SetStorage(w, x, k, value)
  PROVE  /\ stored \in WorldSet /\ stored.refund = w.refund /\ stored.logs = w.logs
         /\ \A y \in Address \ {x} : stored.accounts[y] = w.accounts[y]
         /\ stored.accounts[x] = [w.accounts[x] EXCEPT !.storage[k] = value]
<1>1. stored \in WorldSet
  BY StorageTypes
<1>2. stored = [w EXCEPT !.accounts[x].storage[k] = value]
  BY DEF SetStorage
<1>3. stored.refund = w.refund /\ stored.logs = w.logs
  BY <1>2 DEF WorldSet
<1>4. stored.accounts = [w.accounts EXCEPT ![x].storage[k] = value]
  BY <1>2 DEF WorldSet
<1>5. DOMAIN w.accounts = Address
  BY DEF WorldSet
<1> QED
  BY <1>1, <1>3, <1>4, <1>5

\* state-ops.bend:105-134.  A store to a warm slot books its own refund.
LEMMA StoreGood ==
  ASSUME NEW base \in WorldSet,
         NEW w \in WorldSet, Good(base, w), NEW x \in Address, NEW k \in Key,
         NEW value \in Value, k \in w.accounts[x].slots
  PROVE  LET original == w.accounts[x].original[k]
             current  == w.accounts[x].storage[k]
             v == AddRefund(SetStorage(w, x, k, value),
                            SlotRefund(original, current, value))
         IN  Good(base, v) /\ Warm(w) \subseteq Warm(v)
<1> DEFINE original == w.accounts[x].original[k]
           current  == w.accounts[x].storage[k]
           refund   == SlotRefund(original, current, value)
           stored   == SetStorage(w, x, k, value)
           v == AddRefund(stored, refund)
           p == w.accounts[x]
           q == v.accounts[x]
           s == <<x, k>>
<1>1. p \in AccountSet /\ original \in Value /\ current \in Value /\ w.refund \in Int
  BY DEF WorldSet, AccountSet
<1>2. /\ refund \in Int
      /\ refund >= IF original = 0 \/ current = value THEN 0
                   ELSE IF current = 0 THEN -ClearRefund
                   ELSE IF value = 0 THEN ClearRefund ELSE 0
  <2> HIDE DEF original, current
  <2> QED
    BY <1>1, RefundCovers
<1>3. /\ stored \in WorldSet /\ stored.refund = w.refund /\ stored.logs = w.logs
      /\ \A y \in Address \ {x} : stored.accounts[y] = w.accounts[y]
      /\ stored.accounts[x] = [p EXCEPT !.storage[k] = value]
  <2> DEFINE t == stored
  <2>1. t = SetStorage(w, x, k, value)
    OBVIOUS
  <2> HIDE DEF t
  <2>2. /\ t \in WorldSet /\ t.refund = w.refund /\ t.logs = w.logs
        /\ \A y \in Address \ {x} : t.accounts[y] = w.accounts[y]
        /\ t.accounts[x] = [w.accounts[x] EXCEPT !.storage[k] = value]
    BY <2>1, StoredShape
  <2> QED
    BY <2>2 DEF t
<1>4. /\ v.accounts = stored.accounts /\ v.refund = stored.refund + refund
      /\ v.logs = stored.logs
  <2> HIDE DEF stored, refund
  <2> QED
    BY <1>3 DEF AddRefund, WorldSet
<1>5. /\ \A y \in Address \ {x} : v.accounts[y] = w.accounts[y]
      /\ q = [p EXCEPT !.storage[k] = value]
      /\ v.refund = w.refund + refund /\ v.logs = w.logs
  BY <1>3, <1>4
<1> HIDE DEF p, q, v, stored, refund
<1>6. /\ q.balance = p.balance /\ q.nonce = p.nonce /\ q.code = p.code
      /\ q.original = p.original /\ q.warm = p.warm /\ q.slots = p.slots
      /\ q.storage = [p.storage EXCEPT ![k] = value] /\ p.storage \in [Key -> Value]
  BY <1>1, <1>5 DEF AccountSet
<1>7. q.storage[k] = value /\ \A h \in Key \ {k} : q.storage[h] = p.storage[h]
  BY <1>6
<1>8. Rooted(v)
  <2>1. \A y \in Address : /\ v.accounts[y].original = w.accounts[y].original
                           /\ Living(v.accounts[y]) = Living(w.accounts[y])
    BY <1>5, <1>6 DEF p, q, Living
  <2> QED
    BY <2>1 DEF Rooted, Good
<1>9. Warmth(base, v)
  <2> SUFFICES ASSUME NEW y \in Address
               PROVE  /\ base.accounts[y].warm => v.accounts[y].warm
                      /\ v.accounts[y].original = base.accounts[y].original
                      /\ \/ v.accounts[y].warm
                         \/ /\ v.accounts[y].balance = base.accounts[y].balance
                            /\ v.accounts[y].nonce = base.accounts[y].nonce
                            /\ v.accounts[y].code = base.accounts[y].code
                      /\ \A h \in Key :
                           \/ v.accounts[y].storage[h] = base.accounts[y].storage[h]
                           \/ h \in v.accounts[y].slots
    BY DEF Warmth
  <2>1. CASE y # x
    BY <1>5, <2>1 DEF Good, Warmth
  <2>2. CASE y = x
    BY <1>6, <1>7, <2>2 DEF Good, Warmth, p, q
  <2> QED
    BY <2>1, <2>2
<1>10. Explained(base, v)
  <2>1. \A y \in Address : v.accounts[y].balance = w.accounts[y].balance
    BY <1>5, <1>6 DEF p, q
  <2> QED
    BY <1>5, <2>1, SameExplained DEF Good
<1>11. /\ \A t \in Address \X Key : t # s => (t \in Cleared(v) <=> t \in Cleared(w))
       /\ s \in Cleared(v) <=> original # 0 /\ value = 0
       /\ s \in Cleared(w) <=> original # 0 /\ current = 0
       /\ s \in Address \X Key
  <2>1. \A t \in Address \X Key :
          /\ t \in Cleared(v) <=> /\ v.accounts[t[1]].original[t[2]] # 0
                                  /\ v.accounts[t[1]].storage[t[2]] = 0
          /\ t \in Cleared(w) <=> /\ w.accounts[t[1]].original[t[2]] # 0
                                  /\ w.accounts[t[1]].storage[t[2]] = 0
    BY DEF Cleared
  <2>2. s \in Address \X Key /\ s[1] = x /\ s[2] = k
    OBVIOUS
  <2>3. /\ s \in Cleared(v) <=> original # 0 /\ value = 0
        /\ s \in Cleared(w) <=> original # 0 /\ current = 0
    BY <1>6, <1>7, <2>1, <2>2 DEF p, q
  <2>4. ASSUME NEW t \in Address \X Key, t # s
        PROVE  t \in Cleared(v) <=> t \in Cleared(w)
    <3>1. t[1] \in Address /\ t[2] \in Key /\ (t[1] # x \/ t[2] # k)
      BY <2>4
    <3>2. CASE t[1] # x
      BY <1>5, <2>1, <3>1, <3>2
    <3>3. CASE t[1] = x /\ t[2] # k
      BY SMTT(30), <1>6, <1>7, <2>1, <3>1, <3>3 DEF p, q
    <3> QED
      BY <3>1, <3>2, <3>3
  <2> QED
    BY <2>2, <2>3, <2>4
<1>12. Cleared(v) \subseteq Address \X Key /\ Cleared(w) \subseteq Address \X Key
  BY DEF Cleared
<1>13. IsFiniteSet(Cleared(w)) /\ w.refund >= ClearRefund * Cardinality(Cleared(w))
  BY DEF Good, Owed
<1>14. Owed(v)
  <2> HIDE DEF s, original, current
  <2>1. CASE original # 0 /\ current # value /\ current = 0
    <3>1. Cleared(v) = Cleared(w) \ {s} /\ s \in Cleared(w)
      BY <1>11, <1>12, <2>1
    <3>2. refund >= -ClearRefund
      BY <1>2, <2>1
    <3>3. /\ IsFiniteSet(Cleared(w) \ {s})
          /\ w.refund + refund >= ClearRefund * Cardinality(Cleared(w) \ {s})
      BY <1>1, <1>2, <1>13, <3>1, <3>2, OwedChanges
    <3> QED
      BY <1>5, <3>1, <3>3 DEF Owed
  <2>2. CASE original # 0 /\ current # value /\ current # 0 /\ value = 0
    <3>1. Cleared(v) = Cleared(w) \cup {s}
      BY <1>11, <1>12, <2>2
    <3>2. refund >= ClearRefund
      BY <1>2, <2>2
    <3>3. /\ IsFiniteSet(Cleared(w) \cup {s})
          /\ w.refund + refund >= ClearRefund * Cardinality(Cleared(w) \cup {s})
      BY <1>1, <1>2, <1>13, <3>2, OwedChanges
    <3> QED
      BY <1>5, <3>1, <3>3 DEF Owed
  <2>3. CASE original = 0 \/ current = value \/ (current # 0 /\ value # 0)
    <3>1. Cleared(v) = Cleared(w)
      BY <1>11, <1>12, <2>3
    <3>2. refund >= 0
      BY <1>2, <2>3
    <3>3. Cardinality(Cleared(w)) \in Nat /\ ClearRefund \in Nat
      BY <1>13, FS_CardinalityType, PricesNat
    <3>4. PICK c \in Nat : c = ClearRefund * Cardinality(Cleared(w))
      BY <3>3
    <3> QED
      BY <1>1, <1>2, <1>5, <1>13, <3>1, <3>2, <3>4 DEF Owed
  <2> QED
    BY <2>1, <2>2, <2>3
<1>15. Warm(w) \subseteq Warm(v)
  BY <1>5, <1>6 DEF Warm, p, q
<1> QED
  BY <1>8, <1>9, <1>10, <1>14, <1>15 DEF Good, v, stored, refund

\* state-ops.bend:143-153.  A program's log moves no ether.
LEMMA EmitGood ==
  ASSUME NEW base \in WorldSet, NEW w \in WorldSet, Good(base, w), NEW x \in Address
  PROVE  LET v == Log(w, [address |-> x, topics |-> <<>>, data |-> 0])
         IN  Good(base, v) /\ Warm(w) \subseteq Warm(v)
<1> DEFINE event == [address |-> x, topics |-> <<>>, data |-> 0]
           v == Log(w, event)
<1>1. event \in LogSet /\ event.address # SystemAddress
  BY WorldAssumption DEF LogSet
<1> HIDE DEF event
<1>2. v \in WorldSet /\ Explained(base, v)
  BY <1>1, LogType, LogExplained DEF Good
<1>3. v.accounts = w.accounts /\ v.refund = w.refund
  BY DEF Log, WorldSet
<1> HIDE DEF v
<1>4. Careful(w, v)
  BY <1>3, CarefulSame
<1>5. Good(base, v) /\ Warm(w) \subseteq Warm(v)
  BY <1>2, <1>4, CarefulKeeps, CarefulWarms DEF Good
<1> QED
  BY <1>5 DEF v, event

\* call-selfdestruct.bend:9.  A mark for deletion is not in the books.
LEMMA MarkGood ==
  ASSUME NEW base \in WorldSet, NEW w \in WorldSet, Good(base, w), NEW x \in Address
  PROVE  Good(base, Mark(w, x)) /\ Warm(w) \subseteq Warm(Mark(w, x))
<1> DEFINE v == Mark(w, x)
<1>1. v \in WorldSet /\ v.accounts = w.accounts /\ v.refund = w.refund /\ v.logs = w.logs
  BY MarkType DEF Mark, WorldSet
<1> HIDE DEF v
<1>2. Careful(w, v)
  BY <1>1, CarefulSame
<1>3. \A y \in Address : v.accounts[y].balance = w.accounts[y].balance
  BY <1>1
<1>4. Good(base, v) /\ Warm(w) \subseteq Warm(v)
  BY <1>1, <1>2, <1>3, GoodStep
<1> QED
  BY <1>4 DEF v

----------------------------------------------------------------------------
(* The actions.                                                            *)

\* An instruction and a refused request do not change the frame's address.
LEMMA ActionAddress ==
  ASSUME NEW f \in FrameSet
  PROVE  /\ \A op : WithAction(f, op).address = f.address
         /\ \A op, output : [WithAction(f, op) EXCEPT !.output = output].address = f.address
         /\ \A action : [f EXCEPT !.action = action].address = f.address
  BY DEF WithAction, FrameSet

\* state-ops.bend:105-134.  A store keeps the books of the refund and warms its
\* slot.
LEMMA SstoreJournal ==
  ASSUME NEW base \in WorldSet,
         JInv(base), LInv', NEW k \in Key, NEW value \in Value, Sstore(k, value)
  PROVE  JInv(base)'
<1>0. /\ Good(base, world) /\ world \in WorldSet /\ frame.address \in Address
  BY Surface
<1> DEFINE x == frame.address
           warmed == WarmStorage(world, x, k)
<1>1. warmed \in WorldSet /\ Good(base, warmed) /\ Warm(world) \subseteq Warm(warmed)
  BY <1>0, StorageTypes, TouchGood
<1>2. /\ k \in warmed.accounts[x].slots
      /\ warmed.accounts[x].original = Self.original
      /\ warmed.accounts[x].storage = Self.storage
  BY <1>0 DEF WarmStorage, WorldSet, AccountSet, Self
<1>3. /\ world' = AddRefund(SetStorage(warmed, x, k, value),
                            SlotRefund(Self.original[k], Self.storage[k], value))
      /\ parents' = parents /\ frame' = frame
  BY DEF Sstore
<1> HIDE DEF warmed
<1>4. Good(base, world') /\ Warm(warmed) \subseteq Warm(world')
  BY <1>0, <1>1, <1>2, <1>3, StoreGood
<1> QED
  BY <1>1, <1>3, <1>4, QuietJournal

\* state-ops.bend.  An instruction of the running frame keeps the journal good.
LEMMA ExecuteJournal ==
  ASSUME NEW base \in WorldSet, JInv(base), LInv', Execute
  PROVE  JInv(base)'
<1>0. /\ IInv /\ Good(base, world) /\ world \in WorldSet /\ frame.address \in Address
      /\ frame \in FrameSet
  BY Surface
<1>1. CASE \E a \in Address, cost \in MemoryCost : Touch(a, cost)
  <2>1. PICK a \in Address : world' = WarmAccount(world, a) /\ frame' = frame /\ parents' = parents
    BY <1>1 DEF Touch
  <2>2. Good(base, world') /\ Warm(world) \subseteq Warm(world')
    BY <1>0, <2>1, WarmGood
  <2> QED
    BY <2>1, <2>2, QuietJournal
<1>2. CASE \E k \in Key : Sload(k)
  <2>1. PICK k \in Key : /\ world' = WarmStorage(world, frame.address, k)
                         /\ frame' = frame /\ parents' = parents
    BY <1>2 DEF Sload
  <2>2. Good(base, world') /\ Warm(world) \subseteq Warm(world')
    BY <1>0, <2>1, WorldAssumption, TouchGood
  <2> QED
    BY <2>1, <2>2, QuietJournal
<1>3. CASE \E k \in Key, value \in Value : Sstore(k, value)
  BY <1>3, SstoreJournal
<1>4. CASE \E k \in Key, value \in Value : Tstore(k, value)
  <2>1. PICK k \in Key, value \in Value :
          /\ world' = SetTransient(world, frame.address, k, value)
          /\ frame' = frame /\ parents' = parents
    BY <1>4 DEF Tstore
  <2>2. Good(base, world') /\ Warm(world) \subseteq Warm(world')
    BY <1>0, <2>1, TouchGood
  <2> QED
    BY <2>1, <2>2, QuietJournal
<1>5. CASE \E cost \in MemoryCost : Emit(cost)
  <2>1. /\ world' = Log(world, [address |-> frame.address, topics |-> <<>>, data |-> 0])
        /\ frame' = frame /\ parents' = parents
    BY <1>5 DEF Emit
  <2>2. Good(base, world') /\ Warm(world) \subseteq Warm(world')
    BY <1>0, <2>1, EmitGood
  <2> QED
    BY <2>1, <2>2, QuietJournal
<1>6. CASE /\ UNCHANGED <<world, parents>>
           /\ frame'.address = frame.address
  BY <1>0, <1>6, QuietJournal
<1>7. \/ \E a \in Address, cost \in MemoryCost : Touch(a, cost)
      \/ \E k \in Key : Sload(k)
      \/ \E k \in Key, value \in Value : Sstore(k, value) \/ Tstore(k, value)
      \/ \E cost \in MemoryCost : Emit(cost)
      \/ UNCHANGED <<world, parents>> /\ frame'.address = frame.address
  <2>1. ASSUME Throw \/ Stop \/ \E cost \in ComputeCost : Compute(cost)
        PROVE  UNCHANGED <<world, parents>> /\ frame'.address = frame.address
    <3>1. CASE Throw
      BY <1>0, <3>1, ActionAddress DEF Throw, Fault, FaultFrame
    <3>2. CASE Stop
      BY <1>0, <3>2, ActionAddress DEF Stop
    <3>3. CASE \E cost \in ComputeCost : Compute(cost)
      BY <3>3 DEF Compute
    <3> QED
      BY <2>1, <3>1, <3>2, <3>3
  <2>2. ASSUME \E op \in {"Returned", "Reverted"}, output \in Output, cost \in MemoryCost :
                 Exit(op, output, cost)
        PROVE  UNCHANGED <<world, parents>> /\ frame'.address = frame.address
    BY <1>0, <2>2, ActionAddress DEF Exit
  <2>3. ASSUME \/ \E kind \in CallKind, gas \in RequestGas, target \in Address,
                      value \in Amount : AskCall(kind, gas, target, value)
               \/ \E value \in Amount : AskCreate(value)
               \/ \E target \in Address : AskSelfDestruct(target)
        PROVE  UNCHANGED <<world, parents>> /\ frame'.address = frame.address
    <3>1. \E action : frame' = [frame EXCEPT !.action = action]
      BY <2>3 DEF AskCall, AskCreate, AskSelfDestruct
    <3>2. UNCHANGED <<world, parents>>
      BY <2>3 DEF AskCall, AskCreate, AskSelfDestruct
    <3> QED
      BY <1>0, <3>1, <3>2, ActionAddress
  <2> QED
    BY <2>1, <2>2, <2>3 DEF Execute
<1> QED
  BY <1>1, <1>2, <1>3, <1>4, <1>5, <1>6, <1>7

\* call-enter.bend:69-77.  A call warms its target, and stays good.
LEMMA CallWorldJournal ==
  ASSUME NEW base \in WorldSet, JInv(base), Calling
  PROVE  /\ CallWorld \in WorldSet /\ Good(base, CallWorld) /\ Tidy(LedgerOf(CallWorld))
         /\ Warm(world) \subseteq Warm(CallWorld)
         /\ Request.target \in Address /\ Request.target \in Warm(CallWorld)
<1>0. IInv /\ Good(base, world) /\ world \in WorldSet /\ Tidy(LedgerOf(world))
  BY Surface
<1>1. Request.target \in Address
  BY <1>0, CallRequestType DEF IInv
<1>3. /\ TargetWarmed \in WorldSet /\ Good(base, TargetWarmed)
      /\ Warm(world) \subseteq Warm(TargetWarmed)
      /\ Request.target \in Warm(TargetWarmed)
  BY <1>0, <1>1, WarmGood DEF TargetWarmed
<1>4. Delegated(Target.code) => Target.code.to \in Address
  BY <1>0, <1>1, RunningTyped, DelegateType DEF Target
<1>5. Tidy(LedgerOf(CallWorld))
  BY <1>0, CallWorldLedger
<1>6. CASE Delegated(Target.code)
  <2>1. CallWorld = WarmAccount(TargetWarmed, Target.code.to)
    BY <1>6 DEF CallWorld
  <2> QED
    BY <1>1, <1>3, <1>4, <1>5, <1>6, <2>1, WarmGood
<1>7. CASE ~Delegated(Target.code)
  BY <1>1, <1>3, <1>5, <1>7 DEF CallWorld
<1> QED
  BY <1>6, <1>7

\* call-enter.bend:29-63.  A call is to a warm account and moves ether with a log.
LEMMA CallEnterJournal ==
  ASSUME NEW base \in WorldSet,
         JInv(base), LInv', NEW memory \in MemoryCost, CallEnter(memory)
  PROVE  JInv(base)'
<1>0. /\ IInv /\ Good(base, world) /\ world \in WorldSet /\ frame.address \in Address
      /\ frame \in FrameSet /\ frame.address \in Warm(world)
  BY Surface
<1>1. Calling /\ CallAllowed(memory) /\ ~CallImpossible
  BY DEF CallEnter
<1>2. Request.kind \in CallKind /\ Request.target \in Address /\ Request.value \in Nat
  BY <1>0, <1>1, CallRequestType DEF IInv
<1>3. /\ CallWorld \in WorldSet /\ Good(base, CallWorld) /\ Tidy(LedgerOf(CallWorld))
      /\ Warm(world) \subseteq Warm(CallWorld)
      /\ Request.target \in Warm(CallWorld) /\ frame.address \in Warm(CallWorld)
  BY <1>0, <1>1, CallWorldJournal
<1>4. Good(base, world') /\ Warm(CallWorld) \subseteq Warm(world')
  <2>1. CASE Request.kind = "CALL"
    <3>1. Request.value <= CallWorld.accounts[frame.address].balance
      BY <1>0, <1>1, <1>2, <2>1, RunningTyped, CallWorldType DEF CallImpossible, Self
    <3>2. /\ CallWorld.accounts[frame.address].warm
          /\ CallWorld.accounts[Request.target].warm
      BY <1>3 DEF Warm
    <3>3. world' = Pay(CallWorld, frame.address, Request.target, Request.value)
      BY <2>1 DEF CallEnter
    <3> QED
      BY <1>0, <1>2, <1>3, <3>1, <3>2, <3>3, PayGood
  <2>2. CASE Request.kind # "CALL"
    BY <1>3, <2>2 DEF CallEnter
  <2> QED
    BY <2>1, <2>2
<1>5. frame'.address \in {frame.address, Request.target}
  BY DEF CallEnter, ChildFrame
<1> DEFINE paid == CallPaid(memory)
           kept == [paid EXCEPT !.gas = @ - CallLimit(memory), !.reservoir = 0]
           parent == [frame |-> WithAction(frame, "Running"), meter |-> kept,
                      snapshot |-> CallWorld, creation |-> FALSE,
                      charged |-> BirthCharged, created |-> Request.target]
<1>6. parents' = Append(parents, parent)
  BY DEF CallEnter, Suspend
<1>7. /\ parent.snapshot = CallWorld /\ parent.created = Request.target
      /\ parent.frame.address = frame.address
  BY <1>0, ActionAddress
<1> HIDE DEF parent
<1>8. frame'.address \in Warm(world') /\ parent.created \in Warm(world')
  BY <1>3, <1>4, <1>5, <1>7
<1> QED
  BY <1>3, <1>4, <1>6, <1>7, <1>8, PushJournal

\* create-enter.bend:36-38.  The destination is warm and the nonce spent.
LEMMA CreateWorldJournal ==
  ASSUME NEW base \in WorldSet, JInv(base), NEW target \in Address
  PROVE  LET snapshot == CreateWorld(target)
         IN  /\ snapshot \in WorldSet /\ Good(base, snapshot) /\ Tidy(LedgerOf(snapshot))
             /\ Warm(world) \subseteq Warm(snapshot)
             /\ target \in Warm(snapshot)
<1>0. /\ IInv /\ Good(base, world) /\ world \in WorldSet /\ frame.address \in Address
      /\ frame.address \in Warm(world) /\ Tidy(LedgerOf(world))
  BY Surface
<1> DEFINE warmed == WarmAccount(world, target)
           snapshot == CreateWorld(target)
<1>1. /\ warmed \in WorldSet /\ Good(base, warmed) /\ Warm(world) \subseteq Warm(warmed)
      /\ target \in Warm(warmed) /\ LedgerOf(warmed) = LedgerOf(world)
  BY <1>0, WarmGood, WarmUnseen
<1>2. snapshot = IncrementNonce(warmed, frame.address)
  BY DEF CreateWorld
<1> HIDE DEF warmed, snapshot
<1>3. warmed.accounts[frame.address].warm
  BY <1>0, <1>1 DEF Warm
<1>4. Tidy(LedgerOf(warmed))
  BY <1>0, <1>1
<1>5. /\ snapshot \in WorldSet /\ Careful(warmed, snapshot) /\ snapshot.logs = warmed.logs
      /\ \A y \in Address : snapshot.accounts[y].balance = warmed.accounts[y].balance
  BY <1>0, <1>1, <1>2, <1>3, <1>4, IncrementNonceType, NonceCareful
<1>6. Good(base, snapshot) /\ Warm(warmed) \subseteq Warm(snapshot)
  BY <1>1, <1>5, GoodStep
<1>7. Tidy(LedgerOf(snapshot))
  <2>1. LedgerOf(snapshot) = [LedgerOf(warmed) EXCEPT ![frame.address].nonce = @ + 1]
    BY <1>0, <1>1, <1>2, NonceLedger
  <2>2. LedgerOf(warmed) \in [Address -> FaceSet]
    BY <1>1, LedgerType
  <2> QED
    BY <1>0, <1>4, <2>1, <2>2, SpentOnward
<1> QED
  BY <1>1, <1>5, <1>6, <1>7 DEF snapshot

\* create-enter.bend:25-32.  The new contract and its endowment.
LEMMA OpenedJournal ==
  ASSUME NEW base \in WorldSet,
         NEW w \in WorldSet, Good(base, w), Tidy(LedgerOf(w)), NEW source \in Address,
         NEW target \in Address, NEW value \in Nat,
         value <= w.accounts[source].balance,
         source \in Warm(w), target \in Warm(w), ~Collision(w.accounts[target])
  PROVE  LET v == Pay(NewContract(w, target), source, target, value)
         IN  Good(base, v) /\ Warm(w) \subseteq Warm(v)
<1> DEFINE opened == NewContract(w, target)
           v == Pay(opened, source, target, value)
<1>1. w.accounts[source].warm /\ w.accounts[target].warm /\ ~Living(w.accounts[target])
  BY DEF Warm, Collision, Living
<1>2. /\ opened \in WorldSet
      /\ \A y \in Address : opened.accounts[y].balance = w.accounts[y].balance
  BY NewContractType
<1>3. Careful(w, opened) /\ opened.logs = w.logs
  BY <1>1, NewContractCareful DEF Good
<1>4. Tidy(LedgerOf(opened))
  <2>1. LedgerOf(opened) = Nested!Started(LedgerOf(w), target)
    BY NewContractLedger
  <2>2. LedgerOf(w) \in [Address -> FaceSet]
    BY LedgerType
  <2> HIDE DEF opened
  <2> QED
    BY <2>1, <2>2, StartedOnward
<1> HIDE DEF opened
<1>5. Good(base, opened) /\ Warm(w) \subseteq Warm(opened)
  BY <1>2, <1>3, GoodStep
<1>6. opened.accounts[source].warm /\ opened.accounts[target].warm
  BY <1>1, <1>3 DEF Careful, Fine
<1>7. value <= opened.accounts[source].balance
  BY <1>2
<1>8. Good(base, v) /\ Warm(opened) \subseteq Warm(v)
  BY <1>2, <1>4, <1>5, <1>6, <1>7, PayGood
<1> QED
  BY <1>5, <1>8 DEF v, opened

\* create-enter.bend:20-49.  A creation warms its address and resets what only
\* a contract has.
LEMMA CreateEnterJournal ==
  ASSUME NEW base \in WorldSet,
         JInv(base), LInv', NEW cost \in MemoryCost, NEW target \in CreateTarget,
         NEW code \in InitCode, CreateEnter(cost, target, code)
  PROVE  JInv(base)'
<1>0. /\ IInv /\ world \in WorldSet /\ frame.address \in Address
      /\ frame \in FrameSet /\ frame.address \in Warm(world)
  BY Surface
<1> DEFINE snapshot == CreateWorld(target)
           child == CreationFrame(target, code)
           birth == CreateBirth(target)
           paid == SpendBirth(CreateCharged(cost), birth)
           kept == [paid EXCEPT !.gas = @ - Cap(paid.gas), !.reservoir = 0]
           parent == [frame |-> WithAction(frame, "Running"), meter |-> kept,
                      snapshot |-> snapshot, creation |-> TRUE,
                      charged |-> birth, created |-> target]
<1>1. target \in Address /\ Creating /\ ~CreateImpossible
  BY ProgramAssumption DEF CreateEnter
<1>2. /\ parents' = Append(parents, parent)
      /\ frame' \in {WithAction(child, "Fault"), child}
      /\ \/ world' = snapshot
         \/ /\ ~Collision(snapshot.accounts[target])
            /\ world' = Pay(NewContract(snapshot, target), frame.address, target,
                            Request.value)
  BY DEF CreateEnter, Suspend
<1>3. /\ parent.snapshot = snapshot /\ parent.created = target
      /\ parent.frame.address = frame.address
  BY <1>0, ActionAddress
<1>4. frame'.address = target
  <2>1. child.address = target /\ WithAction(child, "Fault").address = target
    BY DEF CreationFrame, WithAction
  <2> HIDE DEF child
  <2> QED
    BY <1>2, <2>1
<1> HIDE DEF parent
<1>5. /\ snapshot \in WorldSet /\ Good(base, snapshot) /\ Tidy(LedgerOf(snapshot))
      /\ Warm(world) \subseteq Warm(snapshot)
      /\ target \in Warm(snapshot) /\ frame.address \in Warm(snapshot)
  BY <1>0, <1>1, CreateWorldJournal
<1>6. snapshot.accounts[frame.address].balance = Self.balance
  BY <1>0, <1>1, CreateWorldType
<1>7. Request.value \in Nat /\ Request.value <= Self.balance
  BY <1>0, <1>1, CreateRequestType, RunningTyped DEF IInv, CreateImpossible, Self
<1> HIDE DEF snapshot
<1>8. Good(base, world') /\ Warm(snapshot) \subseteq Warm(world')
  <2>1. CASE world' = snapshot
    BY <1>5, <2>1
  <2>2. CASE /\ ~Collision(snapshot.accounts[target])
             /\ world' = Pay(NewContract(snapshot, target), frame.address, target,
                             Request.value)
    BY <1>0, <1>1, <1>5, <1>6, <1>7, <2>2, OpenedJournal
  <2> QED
    BY <1>2, <2>1, <2>2
<1>9. frame'.address \in Warm(world') /\ parent.created \in Warm(world')
  BY <1>3, <1>4, <1>5, <1>8
<1> QED
  BY <1>2, <1>3, <1>5, <1>8, <1>9, PushJournal

\* call-selfdestruct.bend:14-45.  A self-destruct warms its beneficiary first.
LEMMA DestructJournal ==
  ASSUME NEW base \in WorldSet, JInv(base), LInv', Destruct
  PROVE  JInv(base)'
<1>0. /\ IInv /\ Good(base, world) /\ world \in WorldSet /\ frame.address \in Address
      /\ frame \in FrameSet /\ frame.address \in Warm(world) /\ Tidy(LedgerOf(world))
  BY Surface
<1> DEFINE x == frame.address
           y == Request.target
           value == Self.balance
           moved == TransferLog(MoveEther(TargetWarmed, x, y, value), x, y, value)
<1>1. Destroying /\ y \in Address
  BY <1>0, DestructRequestType DEF IInv, Destruct
<1>2. /\ TargetWarmed \in WorldSet /\ Good(base, TargetWarmed)
      /\ Warm(world) \subseteq Warm(TargetWarmed) /\ y \in Warm(TargetWarmed)
      /\ Tidy(LedgerOf(TargetWarmed))
      /\ TargetWarmed.accounts[x].balance = value
  BY <1>0, <1>1, WarmGood, WarmUnseen, WarmAccountType DEF TargetWarmed, Self
<1>3. TargetWarmed.accounts[x].warm /\ TargetWarmed.accounts[y].warm
  BY <1>0, <1>2 DEF Warm
<1>4. value \in Nat /\ value <= TargetWarmed.accounts[x].balance
  BY <1>0, <1>2, RunningTyped DEF Self
<1>5. /\ world' = Mark(moved, x) /\ parents' = parents
      /\ frame' = [WithAction(frame, "Stopped") EXCEPT !.output = NoCode]
  BY DEF Destruct
<1>6. frame'.address = frame.address
  BY <1>0, <1>5, ActionAddress
<1> HIDE DEF y, value
<1>7. moved \in WorldSet /\ Good(base, moved) /\ Warm(TargetWarmed) \subseteq Warm(moved)
  BY <1>0, <1>1, <1>2, <1>3, <1>4, MoveGood
<1> HIDE DEF moved
<1>8. Good(base, world') /\ Warm(moved) \subseteq Warm(world')
  BY <1>0, <1>5, <1>7, MarkGood
<1> QED
  BY <1>2, <1>5, <1>6, <1>7, <1>8, QuietJournal

\* vm.bend:34-44.  Whatever request is served, the journal stays good.
LEMMA ServeJournal ==
  ASSUME NEW base \in WorldSet, JInv(base), LInv', Serve
  PROVE  JInv(base)'
<1>0. /\ IInv /\ Good(base, world) /\ world \in WorldSet /\ frame \in FrameSet
  BY Surface
<1>1. CASE \E memory \in MemoryCost : CallEnter(memory)
  BY <1>1, CallEnterJournal
<1>2. CASE \E cost \in MemoryCost, target \in CreateTarget, code \in InitCode :
             CreateEnter(cost, target, code)
  BY <1>2, CreateEnterJournal
<1>3. CASE Destruct
  BY <1>3, DestructJournal
<1>4. ASSUME Fault PROVE frame'.address = frame.address
  BY <1>0, <1>4, ActionAddress DEF Fault, FaultFrame
<1>5. CASE \E memory \in MemoryCost : CallFault(memory) \/ CallRefused(memory)
  <2>1. parents' = parents /\ Calling /\ world' \in {world, CallWorld}
    BY <1>5 DEF CallFault, CallRefused
  <2>2. frame'.address = frame.address
    BY <1>0, <1>4, <1>5, ActionAddress DEF CallFault, CallRefused
  <2>3. Good(base, world') /\ Warm(world) \subseteq Warm(world')
    BY <1>0, <2>1, CallWorldJournal
  <2> QED
    BY <2>1, <2>2, <2>3, QuietJournal
<1>6. CASE \E cost \in MemoryCost, target \in CreateTarget : CreateStateFault(cost, target)
  <2>1. PICK cost \in MemoryCost, target \in CreateTarget : CreateStateFault(cost, target)
    BY <1>6
  <2>2. /\ target \in Address /\ Fault /\ parents' = parents
        /\ world' = WarmAccount(world, target)
    BY <2>1, ProgramAssumption DEF CreateStateFault
  <2> QED
    BY <1>0, <1>4, <2>2, WarmGood, QuietJournal
<1>7. CASE CreateFault \/ HostRejects
  BY <1>0, <1>4, <1>7, QuietJournal DEF CreateFault, HostRejects
<1>8. CASE \/ \E cost \in MemoryCost : CreateRefused(cost)
           \/ \E gas \in 0..meter.gas : HostReturns(gas)
           \/ HostBreaks
  <2>1. UNCHANGED <<world, parents>> /\ \E op : frame' = WithAction(frame, op)
    BY <1>8 DEF CreateRefused, HostReturns, HostBreaks
  <2> QED
    BY <1>0, <2>1, ActionAddress, QuietJournal
<1>9. CASE DestructFault
  <2>1. /\ Destroying /\ Request.target \in Address /\ Fault /\ parents' = parents
        /\ world' \in {world, WarmAccount(world, Request.target)}
    BY <1>0, <1>9, DestructRequestType DEF IInv, DestructFault, TargetWarmed
  <2>2. Good(base, world') /\ Warm(world) \subseteq Warm(world')
    BY <1>0, <2>1, WarmGood
  <2> QED
    BY <1>4, <2>1, <2>2, QuietJournal
<1> QED
  BY <1>1, <1>2, <1>3, <1>5, <1>6, <1>7, <1>8, <1>9 DEF Serve

\* call-finish.bend:44-52, create-finish.bend:10-31.  Code is deposited at the
\* account that the parent waits for: it is warm, has a nonce and no code.
LEMMA UnwindJournal ==
  ASSUME NEW base \in WorldSet, JInv(base), LInv', Unwind
  PROVE  JInv(base)'
<1>0. /\ IInv /\ LInv /\ Good(base, world) /\ world \in WorldSet /\ frame \in FrameSet
      /\ Len(parents) \in Nat /\ parents \in Seq(ParentSet)
      /\ Len(parents) # 0 => parents[Len(parents)].created \in Warm(world)
  BY Surface
<1>1. parents # <<>> /\ parents' = Front(parents) /\ frame' = Waiting.frame
  BY <1>0, UnwindShape DEF Popping
<1>2. /\ Len(parents) \in 1..Len(parents) /\ Len(parents) \in Len(parents)..Len(parents)
      /\ Waiting = parents[Len(parents)] /\ Len(parents) # 0
  BY <1>0, <1>1 DEF Waiting, Last
<1>3. Good(base, Waiting.snapshot)
  BY <1>2 DEF JInv
<1>4. CASE world' \in {world, Waiting.snapshot}
  BY <1>0, <1>1, <1>3, <1>4, PopJournal
<1>5. CASE /\ CreateReturn /\ Succeeded
           /\ world' = SetCode(world, Waiting.created, frame.output)
  <2> DEFINE x == Waiting.created
  <2>1. Waiting.creation /\ frame.action.op # "Fault"
    BY <1>5 DEF CreateReturn, Succeeded, Successful
  <2>2. Budding(Books(Len(parents)), x)
    BY <1>0, <1>2, <2>1 DEF LInv, Awaited
  <2>3. /\ x \in Address /\ frame.output \in CodeSet
        /\ frame.output.len = 0 => frame.output = NoCode
        /\ Books(Len(parents)) = LedgerOf(world)
    BY <1>0, <1>1, OnTop, WaitingLinked DEF ParentSet, FrameSet, Proper, Canonical
  <2>4. LedgerOf(world)[x] = Face(world.accounts[x])
    BY <1>0, <2>3, LedgerType
  <2>5. world.accounts[x].nonce # 0 /\ world.accounts[x].warm
    BY <1>0, <1>2, <2>2, <2>3, <2>4 DEF Budding, Face, Warm
  <2>6. world' = SetCode(world, x, frame.output)
    BY <1>5
  <2> HIDE DEF x
  <2>7. /\ world' \in WorldSet /\ Careful(world, world') /\ world'.logs = world.logs
        /\ \A y \in Address : world'.accounts[y].balance = world.accounts[y].balance
    <3>1. SetCode(world, x, frame.output) \in WorldSet
      BY <1>0, <2>3, SetCodeType
    <3>2. /\ Careful(world, SetCode(world, x, frame.output))
          /\ SetCode(world, x, frame.output).logs = world.logs
      BY <1>0, <2>3, <2>5, SetCodeCareful
    <3>3. \A y \in Address :
            SetCode(world, x, frame.output).accounts[y].balance = world.accounts[y].balance
      BY <1>0, <2>3, SetCodeBalance
    <3> QED
      BY <2>6, <3>1, <3>2, <3>3
  <2>8. Good(base, world') /\ Warm(world) \subseteq Warm(world')
    BY <1>0, <2>7, GoodStep
  <2> QED
    BY <1>1, <2>8, PopJournal
<1> QED
  BY <1>4, <1>5 DEF Unwind, CallReturn, CreateReturn, Resume

\* Every step keeps the invariant.
LEMMA NextJournal ==
  ASSUME NEW base \in WorldSet, TidyStart, JInv(base), [Next]_vars
  PROVE  JInv(base)'
<1>1. LInv'
  BY NextBooks DEF JInv
<1>2. CASE Execute
  BY <1>1, <1>2, ExecuteJournal
<1>3. CASE Serve
  BY <1>1, <1>3, ServeJournal
<1>4. CASE Unwind
  BY <1>1, <1>4, UnwindJournal
<1>5. CASE Halt \/ UNCHANGED vars
  <2>1. UNCHANGED <<frame, world, parents>>
    BY <1>5 DEF Halt, vars
  <2> QED
    BY <1>1, <2>1, Surface, QuietJournal
<1> QED
  BY <1>2, <1>3, <1>4, <1>5 DEF Next

\* A world that no transaction has touched: accounts in order, nothing logged
\* or refunded, the storage of every account as it was.
Untouched(w) ==
  /\ \A x \in Address : /\ Clean(w.accounts[x])
                         /\ w.accounts[x].original = w.accounts[x].storage
  /\ w.logs = <<>>
  /\ w.refund = 0

\* What the hypotheses say of the start.
LEMMA StartUntouched ==
  ASSUME TidyStart, FreshJournal
  PROVE  Start \in WorldSet /\ Untouched(Start)
<1>1. Start \in WorldSet
  BY ProgramAssumption
<1>2. \A x \in Address : Clean(Start.accounts[x])
  BY <1>1, TidyAccounts DEF TidyStart
<1> QED
  BY <1>1, <1>2 DEF Untouched, FreshJournal

\* Such a world is good as the base of its own journal.
LEMMA UntouchedGood ==
  ASSUME NEW base \in WorldSet, Untouched(base)
  PROVE  Good(base, base)
<1>1. Rooted(base)
  BY DEF Rooted, Living, Clean, Untouched
<1>2. Owed(base)
  <2>1. Cleared(base) = {}
    BY DEF Cleared, Untouched
  <2>2. ClearRefund * 0 = 0
    BY PricesNat
  <2> QED
    BY <2>1, <2>2, FS_EmptySet DEF Owed, Untouched
<1>3. Warmth(base, base)
  BY DEF Warmth
<1>4. Explained(base, base)
  <2> SUFFICES ASSUME NEW x \in Address
               PROVE  base.accounts[x].balance
                        = base.accounts[x].balance + Sent(base, 2, x) - Sent(base, 1, x)
    BY DEF Explained
  <2>1. \A topic : Sent(base, topic, x) = 0
    <3> SUFFICES ASSUME NEW topic PROVE Sent(base, topic, x) = 0
      OBVIOUS
    <3> DEFINE f == Moved(base, topic, x)
    <3>1. Sent(base, topic, x) = SumFunction(f) /\ f \in [1..Len(base.logs) -> Int]
      BY SentSums
    <3>2. 1..Len(base.logs) = {}
      BY DEF Untouched
    <3> HIDE DEF f
    <3>3. DOMAIN f = {}
      BY <3>1, <3>2
    <3> QED
      BY <3>1, <3>2, <3>3, SumOfNothing
  <2>2. base.accounts[x].balance \in Nat
    BY DEF WorldSet, AccountSet
  <2> QED
    BY <2>1, <2>2
<1> QED
  BY <1>1, <1>2, <1>3, <1>4 DEF Good

\* A frame alone is at a warm address if its own is.
LEMMA AloneHot ==
  ASSUME Len(parents) = 0, frame.address \in Warm(world)
  PROVE  Hot
<1>1. \A i \in 0..Len(parents) : \A j \in i..Len(parents) : i = 0 /\ j = 0
  OBVIOUS
<1>2. ChildFrameOf(0) = frame /\ After(0) = world
  BY DEF ChildFrameOf, After
<1> QED
  BY <1>1, <1>2 DEF Hot

\* The journal of the outermost frame has nothing to show.
LEMMA InitJournal ==
  ASSUME TidyStart, FreshJournal, Init
  PROVE  JInv(Start)
<1>1. LInv /\ world = Start /\ Len(parents) = 0 /\ frame.address = Entry
  BY InitBooks DEF Init
<1>2. Start \in WorldSet /\ Untouched(Start)
  BY StartUntouched
<1>3. Good(Start, Start)
  BY <1>2, UntouchedGood
<1>4. Entry \in Warm(Start)
  BY ProgramAssumption DEF FreshJournal, Warm
<1>5. Hot
  BY <1>1, <1>4, AloneHot
<1>6. \A i \in 1..Len(parents) : FALSE
  BY <1>1
<1> QED
  BY <1>1, <1>3, <1>5, <1>6 DEF JInv

\* The journal and every snapshot are good.
LEMMA JournalsGood ==
  ASSUME NEW base \in WorldSet, JInv(base), NEW w \in Journals
  PROVE  Good(base, w)
<1>1. CASE w = world
  BY <1>1 DEF JInv
<1>2. CASE \E i \in DOMAIN parents : w = parents[i].snapshot
  BY <1>2, OnTop DEF JInv
<1> QED
  BY <1>1, <1>2 DEF Journals

\* The refund counter is never negative, in the journal and in every
\* snapshot: what is taken back was given for a slot that was still cleared
\* (state-ops.bend:113-125).
THEOREM RefundsAreCovered ==
  ASSUME TidyStart, FreshJournal
  PROVE  Spec => []RefundNonNegative
<1>1. JInv(Start) => RefundNonNegative
  <2> SUFFICES ASSUME JInv(Start), NEW w \in Journals PROVE w.refund >= 0
    BY DEF RefundNonNegative
  <2>1. Owed(w)
    BY JournalsGood, ProgramAssumption DEF Good
  <2>2. Cardinality(Cleared(w)) \in Nat /\ ClearRefund \in Nat
    BY <2>1, FS_CardinalityType, PricesNat DEF Owed
  <2>3. PICK c \in Nat : c = ClearRefund * Cardinality(Cleared(w))
    BY <2>2
  <2>4. w.refund \in Int /\ w.refund >= c
    <3>1. w \in WorldSet
      <4>1. IInv /\ world \in WorldSet /\ DOMAIN parents = 1..Len(parents)
        BY OnTop, RunningTyped DEF JInv
      <4> QED
        BY <4>1, FramesTyped DEF Journals
    <3> QED
      BY <2>1, <2>3, <3>1 DEF Owed, WorldSet
  <2> QED
    BY <2>3, <2>4
<1>2. Init => JInv(Start)
  BY InitJournal
<1>3. JInv(Start) /\ [Next]_vars => JInv(Start)'
  BY NextJournal, ProgramAssumption
<1> QED
  BY <1>1, <1>2, <1>3, PTL DEF Spec

\* A changed account is warm and so is a changed slot, in the journal and in
\* every snapshot: nothing is changed without its cold access having been
\* charged (world.bend:78-110, call-enter.bend:69-77, EIP-2929).
THEOREM ChangesWerePaidFor ==
  ASSUME TidyStart, FreshJournal
  PROVE  Spec => []ChangedIsWarm
<1>1. JInv(Start) => ChangedIsWarm
  <2> SUFFICES ASSUME JInv(Start) PROVE \A w \in Journals : Warmth(Start, w)
    BY DEF ChangedIsWarm, Warmth
  <2> QED
    BY JournalsGood, ProgramAssumption DEF Good
<1>2. Init => JInv(Start)
  BY InitJournal
<1>3. JInv(Start) /\ [Next]_vars => JInv(Start)'
  BY NextJournal, ProgramAssumption
<1> QED
  BY <1>1, <1>2, <1>3, PTL DEF Spec

\* Replaying the transfer logs over the starting balances gives the balances,
\* in the journal and in every snapshot (call-common.bend:61-68).
THEOREM LogsTellBalances ==
  ASSUME TidyStart, FreshJournal
  PROVE  Spec => []LogsExplainBalances
<1>1. JInv(Start) => LogsExplainBalances
  <2> SUFFICES ASSUME JInv(Start) PROVE \A w \in Journals : Explained(Start, w)
    BY DEF LogsExplainBalances, Explained
  <2> QED
    BY JournalsGood, ProgramAssumption DEF Good
<1>2. Init => JInv(Start)
  BY InitJournal
<1>3. JInv(Start) /\ [Next]_vars => JInv(Start)'
  BY NextJournal, ProgramAssumption
<1> QED
  BY <1>1, <1>2, <1>3, PTL DEF Spec

----------------------------------------------------------------------------
(* The state there is, and its price.                                      *)

\* The slots that were empty when the transaction began and are not now.
Filled(w) ==
  {s \in Address \X Key : /\ w.accounts[s[1]].original[s[2]] = 0
                          /\ w.accounts[s[1]].storage[s[2]] # 0}

Newborn(base, w) == {x \in Address : IsEmpty(base.accounts[x]) /\ ~IsEmpty(w.accounts[x])}

Coded(base, w) == [x \in Address |-> w.accounts[x].code.len - base.accounts[x].code.len]

StatePrice(base, w) ==
  SlotState * Cardinality(Filled(w)) + NewAccount * Cardinality(Newborn(base, w))
    + CodeByte * SumFunction(Coded(base, w))

\* A world whose state can be counted, and where no account has vanished and
\* code has only come to accounts that had none, as a deposit.
Fit(base, w) ==
  /\ IsFiniteSet(Filled(w))
  /\ \A x \in Address :
       /\ ~IsEmpty(base.accounts[x]) => ~IsEmpty(w.accounts[x])
       /\ \/ w.accounts[x].code = base.accounts[x].code
          \/ base.accounts[x].code.len = 0 /\ ~Delegated(w.accounts[x].code)

\* From w to v, no account vanishes, only those of B come to life, and code
\* stays but for remains without length.
Grown(w, v, B) ==
  \A x \in Address :
    /\ v.accounts[x].code.len = w.accounts[x].code.len
    /\ \/ v.accounts[x].code = w.accounts[x].code
       \/ w.accounts[x].code.len = 0 /\ v.accounts[x].code = NoCode
    /\ IsEmpty(v.accounts[x]) <=> IsEmpty(w.accounts[x]) /\ x \notin B

\* Growth upon growth.
LEMMA GrownTwice ==
  ASSUME NEW u, NEW v, NEW w, NEW A, NEW B, Grown(u, v, A), Grown(v, w, B)
  PROVE  Grown(u, w, A \cup B)
  BY DEF Grown

\* Nothing that is not empty comes to life.
LEMMA GrownAlready ==
  ASSUME NEW w, NEW v, NEW x \in Address, ~IsEmpty(w.accounts[x]), Grown(w, v, {x})
  PROVE  Grown(w, v, {})
  BY DEF Grown

\* An operation that changes neither balances, nonces nor code.
LEMMA GrownSame ==
  ASSUME NEW w, NEW v,
         \A x \in Address : /\ v.accounts[x].balance = w.accounts[x].balance
                            /\ v.accounts[x].nonce = w.accounts[x].nonce
                            /\ v.accounts[x].code = w.accounts[x].code
  PROVE  Grown(w, v, {})
  BY DEF Grown, IsEmpty

\* world.bend:47-56.  An account that is not left empty is the only one to come
\* to life.
LEMMA ModifyGrown ==
  ASSUME NEW w \in WorldSet, NEW x \in Address, NEW account \in AccountSet,
         NEW B \in SUBSET {x}, account.code = w.accounts[x].code,
         IsEmpty(account) <=> IsEmpty(w.accounts[x]) /\ x \notin B
  PROVE  Grown(w, Modify(w, x, account), B)
<1> DEFINE v == Modify(w, x, account)
           q == Modified(account)
<1>1. v.accounts[x] = q
  BY DEF Modify, Put, WorldSet
<1>2. \A y \in Address \ {x} : v.accounts[y] = w.accounts[y]
  BY ModifyType
<1>3. /\ q.code.len = account.code.len /\ (IsEmpty(q) <=> IsEmpty(account))
      /\ q.code = account.code \/ (account.code.len = 0 /\ q.code = NoCode)
  BY DEF Modified, IsEmpty, AccountSet, NoCode
<1> HIDE DEF v, q
<1>4. Grown(w, v, B)
  BY <1>1, <1>2, <1>3 DEF Grown
<1> QED
  BY <1>4 DEF v

\* world.bend:60-63.  A balance changed, of an account that is not empty for
\* it alone.
LEMMA CreditGrown ==
  ASSUME NEW w \in WorldSet, NEW x \in Address, NEW delta \in Int,
         w.accounts[x].balance + delta \in Nat
  PROVE  /\ Living(w.accounts[x]) => Grown(w, Credit(w, x, delta), {})
         /\ delta > 0 => Grown(w, Credit(w, x, delta), {x})
         /\ delta = 0 => Grown(w, Credit(w, x, delta), {})
<1> DEFINE p == w.accounts[x]
           account == [p EXCEPT !.balance = @ + delta]
<1>1. p \in AccountSet /\ p.balance + delta \in Nat /\ p.balance \in Nat
  BY DEF WorldSet, AccountSet
<1> HIDE DEF p
<1>2. /\ account \in AccountSet
      /\ account.balance = p.balance + delta
      /\ account.nonce = p.nonce /\ account.code = p.code
  BY <1>1 DEF AccountSet
<1>3. Credit(w, x, delta) = Modify(w, x, account)
  BY DEF Credit, p
<1> HIDE DEF account
<1>4. CASE Living(p)
  <2>1. ~IsEmpty(account) /\ ~IsEmpty(p)
    BY <1>2, <1>4 DEF IsEmpty, Living
  <2>2. Grown(w, Modify(w, x, account), {}) /\ Grown(w, Modify(w, x, account), {x})
    BY <1>2, <2>1, ModifyGrown DEF p
  <2> QED
    BY <1>3, <2>2
<1>5. CASE ~Living(p)
  <2>1. IsEmpty(account) <=> account.balance = 0
    BY <1>2, <1>5 DEF IsEmpty, Living
  <2>2. IsEmpty(p) <=> p.balance = 0
    BY <1>5 DEF IsEmpty, Living
  <2>3. ASSUME delta > 0 PROVE Grown(w, Modify(w, x, account), {x})
    <3>1. ~IsEmpty(account)
      BY <1>1, <1>2, <2>1, <2>3
    <3> QED
      BY <1>2, <3>1, ModifyGrown DEF p
  <2>4. ASSUME delta = 0 PROVE Grown(w, Modify(w, x, account), {})
    <3>1. IsEmpty(account) <=> IsEmpty(p)
      BY <1>1, <1>2, <2>1, <2>2, <2>4
    <3> QED
      BY <1>2, <3>1, ModifyGrown DEF p
  <2> QED
    BY <1>3, <1>5, <2>3, <2>4 DEF p
<1> QED
  BY <1>4, <1>5

\* world.bend:58-63.  Ether from a living account brings to life at most the
\* one that gets it.
LEMMA MoveGrown ==
  ASSUME NEW w \in WorldSet, NEW source \in Address, NEW target \in Address,
         NEW value \in Nat, value <= w.accounts[source].balance,
         Living(w.accounts[source])
  PROVE  Grown(w, MoveEther(w, source, target, value), IF value = 0 THEN {} ELSE {target})
<1> DEFINE less == -value
           debited == Credit(w, source, less)
           v == Credit(debited, target, value)
           B == IF value = 0 THEN {} ELSE {target}
<1>1. \A x \in Address : w.accounts[x].balance \in Nat
  BY DEF WorldSet, AccountSet
<1>2. less \in Int /\ w.accounts[source].balance + less \in Nat
  BY <1>1
<1> HIDE DEF less
<1>3. debited \in WorldSet /\ Grown(w, debited, {})
  BY <1>2, CreditType, CreditGrown
<1> HIDE DEF debited
<1>4. debited.accounts[target].balance + value \in Nat /\ value \in Int
  BY <1>3 DEF WorldSet, AccountSet
<1>5. Grown(debited, v, B)
  BY <1>3, <1>4, CreditGrown
<1>6. Grown(w, v, {} \cup B)
  BY <1>3, <1>5, GrownTwice
<1>7. {} \cup B = B
  OBVIOUS
<1>8. MoveEther(w, source, target, value) = v
  BY DEF MoveEther, debited, less
<1> QED
  BY <1>6, <1>7, <1>8

\* call-common.bend:61-68.  A log brings nothing to life.
LEMMA TransferLogGrown ==
  ASSUME NEW w \in WorldSet, NEW v \in WorldSet, NEW B, Grown(w, v, B),
         NEW source, NEW target, NEW value
  PROVE  Grown(w, TransferLog(v, source, target, value), B)
<1>1. TransferLog(v, source, target, value).accounts = v.accounts
  BY DEF TransferLog, Log, WorldSet
<1> QED
  BY <1>1 DEF Grown

\* call-common.bend:58-68.  A payment brings at most its recipient to life.
LEMMA PayGrown ==
  ASSUME NEW w \in WorldSet, NEW source \in Address, NEW target \in Address,
         NEW value \in Nat, value <= w.accounts[source].balance,
         Living(w.accounts[source])
  PROVE  Grown(w, Pay(w, source, target, value), IF value = 0 THEN {} ELSE {target})
<1>1. CASE value = 0
  <2>1. Grown(w, w, {})
    BY GrownSame
  <2> QED
    BY <1>1, <2>1, PayNothing
<1>2. CASE value # 0
  <2>1. MoveEther(w, source, target, value) \in WorldSet
    BY MoveEtherType
  <2> QED
    BY <1>2, <2>1, MoveGrown, TransferLogGrown DEF Pay, Transfer
<1> QED
  BY <1>1, <1>2

\* create-enter.bend:38.  A nonce is spent by the living.
LEMMA NonceGrown ==
  ASSUME NEW w \in WorldSet, NEW x \in Address, Living(w.accounts[x])
  PROVE  Grown(w, IncrementNonce(w, x), {})
<1> DEFINE p == w.accounts[x]
           account == [p EXCEPT !.nonce = @ + 1]
<1>1. p \in AccountSet /\ p.nonce \in Nat
  BY DEF WorldSet, AccountSet
<1>0. p.nonce + 1 \in Nat /\ p.nonce + 1 # 0
  BY <1>1
<1> HIDE DEF p
<1>2. /\ account \in AccountSet
      /\ account.nonce = p.nonce + 1 /\ account.code = p.code
  BY <1>0, <1>1 DEF AccountSet
<1>3. IncrementNonce(w, x) = Modify(w, x, account)
  BY DEF IncrementNonce, p
<1> HIDE DEF account
<1>4. ~IsEmpty(account) /\ ~IsEmpty(p)
  BY <1>0, <1>2 DEF IsEmpty, Living, p
<1> QED
  BY <1>2, <1>3, <1>4, ModifyGrown DEF p

\* create-enter.bend:25-27.  A contract comes to life with its nonce.
LEMMA NewContractGrown ==
  ASSUME NEW w \in WorldSet, NEW x \in Address
  PROVE  Grown(w, NewContract(w, x), {x})
<1> DEFINE p == w.accounts[x]
           account == [p EXCEPT !.storage = ZeroSlots, !.original = ZeroSlots,
                                !.nonce = 1, !.exists = TRUE, !.created = TRUE]
<1>1. p \in AccountSet
  BY DEF WorldSet
<1> HIDE DEF p
<1>2. account \in AccountSet /\ account.nonce = 1 /\ account.code = p.code
  BY <1>1, ZeroSlotsType DEF AccountSet
<1>3. NewContract(w, x) = Modify(w, x, account)
  BY DEF NewContract, p
<1> HIDE DEF account
<1>4. ~IsEmpty(account)
  BY <1>2 DEF IsEmpty
<1> QED
  BY <1>2, <1>3, <1>4, ModifyGrown DEF p

\* create-finish.bend:10-16.  Code comes to an account that has a nonce.
LEMMA SetCodeLives ==
  ASSUME NEW w \in WorldSet, NEW x \in Address, NEW code \in CodeSet,
         w.accounts[x].nonce # 0
  PROVE  LET v == SetCode(w, x, code)
         IN  /\ v.accounts[x].code = code
             /\ ~IsEmpty(w.accounts[x]) /\ ~IsEmpty(v.accounts[x])
             /\ \A y \in Address \ {x} : v.accounts[y] = w.accounts[y]
<1> DEFINE p == w.accounts[x]
           account == [p EXCEPT !.code = code]
           v == SetCode(w, x, code)
<1>1. p \in AccountSet /\ p.nonce # 0
  BY DEF WorldSet
<1> HIDE DEF p
<1>2. /\ account \in AccountSet /\ account.nonce = p.nonce /\ account.code = code
  BY <1>1 DEF AccountSet
<1>3. v = Modify(w, x, account)
  BY DEF SetCode, p
<1> HIDE DEF account
<1>4. \A y \in Address \ {x} : v.accounts[y] = w.accounts[y]
  BY <1>2, <1>3, ModifyType
<1>5. v.accounts[x] = Modified(account)
  BY <1>3 DEF Modify, Put, WorldSet
<1>6. ~IsEmpty(account) /\ ~IsEmpty(p)
  BY <1>1, <1>2 DEF IsEmpty
<1>7. Modified(account) = [account EXCEPT !.exists = TRUE]
  BY <1>6 DEF Modified
<1>8. Modified(account).nonce = account.nonce /\ Modified(account).code = account.code
  BY <1>2, <1>7 DEF AccountSet
<1> QED
  BY <1>1, <1>2, <1>4, <1>5, <1>6, <1>8 DEF IsEmpty, p

\* What state comes to, in numbers.
LEMMA PriceParts ==
  ASSUME NEW base \in WorldSet,
         IsFiniteSet(Address), NEW w \in WorldSet, Fit(base, w)
  PROVE  /\ IsFiniteSet(Newborn(base, w)) /\ Cardinality(Newborn(base, w)) \in Nat
         /\ Cardinality(Filled(w)) \in Nat
         /\ Coded(base, w) \in [Address -> Int] /\ SumFunction(Coded(base, w)) \in Int
         /\ StatePrice(base, w) \in Int
<1>1. IsFiniteSet(Newborn(base, w)) /\ Newborn(base, w) \in SUBSET Address
  <2>1. Newborn(base, w) \in SUBSET Address
    BY DEF Newborn
  <2> QED
    BY <2>1, FS_Subset
<1>2. Cardinality(Newborn(base, w)) \in Nat /\ Cardinality(Filled(w)) \in Nat
  BY <1>1, FS_CardinalityType DEF Fit
<1>3. Coded(base, w) \in [Address -> Int]
  <2>1. \A x \in Address : w.accounts[x].code.len \in Nat /\ base.accounts[x].code.len \in Nat
    BY ProgramAssumption DEF WorldSet, AccountSet, CodeSet
  <2>2. \A x \in Address : w.accounts[x].code.len - base.accounts[x].code.len \in Int
    BY <2>1
  <2> QED
    BY <2>2 DEF Coded
<1>4. SumFunction(Coded(base, w)) \in Int
  <2> DEFINE f == Coded(base, w)
  <2>1. f \in [Address -> Int] /\ Entry \in Address
    BY <1>3, ProgramAssumption
  <2>2. f[Entry] = f[Entry] + 0
    BY <2>1
  <2> HIDE DEF f
  <2> QED
    BY <2>1, <2>2, SumOfChanged DEF f
<1>5. StatePrice(base, w) \in Int
  <2>1. SlotState \in Nat /\ NewAccount \in Nat /\ CodeByte \in Nat
    BY PricesNat
  <2> DEFINE n1 == Cardinality(Filled(w))
             n2 == Cardinality(Newborn(base, w))
             n3 == SumFunction(Coded(base, w))
  <2>2. n1 \in Int /\ n2 \in Int /\ n3 \in Int
    BY <1>2, <1>4
  <2> HIDE DEF n1, n2, n3
  <2>3. SlotState * n1 \in Int /\ NewAccount * n2 \in Int /\ CodeByte * n3 \in Int
    BY <2>1, <2>2
  <2> QED
    BY <2>3 DEF StatePrice, n1, n2, n3
<1> QED
  BY <1>1, <1>2, <1>3, <1>4, <1>5

\* No code gets shorter, so all state there is has a price of its own.
LEMMA PriceNat ==
  ASSUME NEW base \in WorldSet, IsFiniteSet(Address), NEW w \in WorldSet, Fit(base, w)
  PROVE  StatePrice(base, w) \in Nat
<1>1. /\ Cardinality(Newborn(base, w)) \in Nat /\ Cardinality(Filled(w)) \in Nat
      /\ Coded(base, w) \in [Address -> Int]
  BY PriceParts
<1>2. ASSUME NEW x \in Address
      PROVE  Coded(base, w)[x] >= 0
  <2>1. w.accounts[x].code.len \in Nat /\ base.accounts[x].code.len \in Nat
    BY DEF WorldSet, AccountSet, CodeSet
  <2>2. w.accounts[x].code = base.accounts[x].code \/ base.accounts[x].code.len = 0
    BY DEF Fit
  <2> QED
    BY <2>1, <2>2 DEF Coded
<1>3. SumFunction(Coded(base, w)) \in Nat
  <2> DEFINE f == Coded(base, w)
  <2>1. f \in [Address -> Int] /\ \A x \in Address : f[x] >= 0
    BY <1>1, <1>2
  <2> HIDE DEF f
  <2>2. SumFunction(f) \in Nat
    BY <2>1, SumOfNaturals
  <2> QED
    BY <2>2 DEF f
<1>4. /\ SlotState * Cardinality(Filled(w)) \in Nat
      /\ NewAccount * Cardinality(Newborn(base, w)) \in Nat
      /\ CodeByte * SumFunction(Coded(base, w)) \in Nat
  BY <1>1, <1>3, PricesNat
<1> QED
  BY <1>4 DEF StatePrice

\* An operation that is not a store fills no slot.
LEMMA CarefulFills ==
  ASSUME NEW w, NEW v, Careful(w, v)
  PROVE  Filled(v) = Filled(w)
<1>1. \A s \in Address \X Key : s[1] \in Address
  OBVIOUS
<1>2. \A x \in Address : /\ v.accounts[x].original = w.accounts[x].original
                         /\ v.accounts[x].storage = w.accounts[x].storage
  BY DEF Careful, Fine
<1> QED
  BY <1>1, <1>2 DEF Filled

\* Where nothing comes to life there is the same code and the same births.
LEMMA NobodyBorn ==
  ASSUME NEW base \in WorldSet, NEW w, NEW v, Grown(w, v, {})
  PROVE  Newborn(base, v) = Newborn(base, w) /\ Coded(base, v) = Coded(base, w)
<1>1. \A x \in Address : /\ IsEmpty(v.accounts[x]) <=> IsEmpty(w.accounts[x])
                         /\ v.accounts[x].code.len = w.accounts[x].code.len
  BY DEF Grown
<1>2. Newborn(base, v) = Newborn(base, w)
  BY <1>1 DEF Newborn
<1>3. Coded(base, v) = Coded(base, w)
  BY <1>1 DEF Coded
<1> QED
  BY <1>2, <1>3

\* What only grows stays fit, as far as accounts and code go.
LEMMA GrownFits ==
  ASSUME NEW base \in WorldSet, NEW w, NEW v, NEW B, Grown(w, v, B), Fit(base, w),
         IsFiniteSet(Filled(v))
  PROVE  Fit(base, v)
<1> SUFFICES ASSUME NEW x \in Address
             PROVE  /\ ~IsEmpty(base.accounts[x]) => ~IsEmpty(v.accounts[x])
                    /\ \/ v.accounts[x].code = base.accounts[x].code
                       \/ /\ base.accounts[x].code.len = 0
                          /\ ~Delegated(v.accounts[x].code)
  BY DEF Fit
<1>1. ~Delegated(NoCode)
  BY DEF NoCode, Delegated
<1> QED
  BY <1>1 DEF Fit, Grown

\* An operation that fills no slot and brings nothing to life is free.
LEMMA SamePrice ==
  ASSUME NEW base \in WorldSet,
         NEW w, NEW v, Careful(w, v), Grown(w, v, {}), Fit(base, w)
  PROVE  Fit(base, v) /\ StatePrice(base, v) = StatePrice(base, w)
<1>1. Fit(base, v)
  BY CarefulFills, GrownFits DEF Fit
<1>2. StatePrice(base, v) = StatePrice(base, w)
  BY CarefulFills, NobodyBorn DEF StatePrice
<1> QED
  BY <1>1, <1>2

\* One that brings an empty account to life costs a new account: the account
\* was empty to begin with, for no account vanishes.
LEMMA BirthPrice ==
  ASSUME NEW base \in WorldSet,
         IsFiniteSet(Address), NEW w \in WorldSet, NEW v, Careful(w, v),
         NEW x \in Address, IsEmpty(w.accounts[x]), Grown(w, v, {x}), Fit(base, w)
  PROVE  Fit(base, v) /\ StatePrice(base, v) = StatePrice(base, w) + NewAccount
<1>1. Fit(base, v)
  BY CarefulFills, GrownFits DEF Fit
<1>2. Newborn(base, v) = Newborn(base, w) \cup {x} /\ x \notin Newborn(base, w)
  <2>1. IsEmpty(base.accounts[x])
    BY DEF Fit
  <2>2. \A y \in Address : IsEmpty(v.accounts[y]) <=> IsEmpty(w.accounts[y]) /\ y # x
    BY DEF Grown
  <2> QED
    BY <2>1, <2>2 DEF Newborn
<1>3. Coded(base, v) = Coded(base, w)
  <2>1. \A y \in Address : v.accounts[y].code.len = w.accounts[y].code.len
    BY DEF Grown
  <2> QED
    BY <2>1 DEF Coded
<1>4. /\ IsFiniteSet(Newborn(base, w)) /\ Cardinality(Newborn(base, w)) \in Nat
      /\ Cardinality(Filled(w)) \in Nat /\ SumFunction(Coded(base, w)) \in Int
  BY PriceParts
<1>5. Cardinality(Newborn(base, v)) = Cardinality(Newborn(base, w)) + 1
  BY <1>2, <1>4, FS_AddElement
<1> DEFINE n1 == Cardinality(Filled(w))
           n2 == Cardinality(Newborn(base, w))
           n3 == SumFunction(Coded(base, w))
<1>6. n1 \in Int /\ n2 \in Int /\ n3 \in Int
  BY <1>4
<1>7. /\ StatePrice(base, v) = SlotState * n1 + NewAccount * (n2 + 1) + CodeByte * n3
      /\ StatePrice(base, w) = SlotState * n1 + NewAccount * n2 + CodeByte * n3
  BY <1>3, <1>5, CarefulFills DEF StatePrice
<1> HIDE DEF n1, n2, n3
<1>8. SlotState \in Int /\ NewAccount \in Int /\ CodeByte \in Int
  BY PricesNat
<1>9. NewAccount * (n2 + 1) = NewAccount * n2 + NewAccount
  BY <1>6, <1>8
<1>10. SlotState * n1 \in Int /\ NewAccount * n2 \in Int /\ CodeByte * n3 \in Int
  BY <1>6, <1>8
<1>11. PICK i \in Int, j \in Int, k \in Int :
         i = SlotState * n1 /\ j = NewAccount * n2 /\ k = CodeByte * n3
  BY <1>10
<1>12. StatePrice(base, v) = i + (j + NewAccount) + k /\ StatePrice(base, w) = i + j + k
  BY <1>7, <1>9, <1>11
<1>13. StatePrice(base, v) = StatePrice(base, w) + NewAccount
  BY <1>8, <1>12
<1> QED
  BY <1>1, <1>13

\* create-finish.bend:10-31.  A deposit costs what it is long.
LEMMA DepositPrice ==
  ASSUME NEW base \in WorldSet,
         IsFiniteSet(Address), NEW w \in WorldSet, NEW v \in WorldSet, Fit(base, w),
         NEW x \in Address, NEW code \in CodeSet, v = SetCode(w, x, code), Careful(w, v),
         w.accounts[x].nonce # 0, w.accounts[x].code.len = 0, ~Delegated(code)
  PROVE  Fit(base, v) /\ StatePrice(base, v) = StatePrice(base, w) + CodeByte * code.len
<1>1. /\ v.accounts[x].code.len = code.len
      /\ ~IsEmpty(w.accounts[x]) /\ ~IsEmpty(v.accounts[x])
      /\ \A y \in Address \ {x} : v.accounts[y] = w.accounts[y]
  BY SetCodeLives
<1>2. \A y \in Address : IsEmpty(v.accounts[y]) <=> IsEmpty(w.accounts[y])
  BY <1>1
<1>3. Newborn(base, v) = Newborn(base, w) /\ Filled(v) = Filled(w)
  BY <1>2, CarefulFills DEF Newborn
<1>16. Fit(base, v)
  <2>1. ASSUME NEW y \in Address
        PROVE  /\ ~IsEmpty(base.accounts[y]) => ~IsEmpty(v.accounts[y])
               /\ \/ v.accounts[y].code = base.accounts[y].code
                  \/ base.accounts[y].code.len = 0 /\ ~Delegated(v.accounts[y].code)
    <3>1. CASE y = x
      <4>1. base.accounts[x].code.len = 0
        BY DEF Fit
      <4>2. v.accounts[x].code = code
        BY SetCodeLives
      <4> QED
        BY <1>2, <3>1, <4>1, <4>2 DEF Fit
    <3>2. CASE y # x
      BY <1>1, <3>2 DEF Fit
    <3> QED
      BY <3>1, <3>2
  <2> QED
    BY <1>3, <2>1 DEF Fit
<1>4. /\ Cardinality(Newborn(base, w)) \in Nat /\ Cardinality(Filled(w)) \in Nat
      /\ SumFunction(Coded(base, w)) \in Int
      /\ Coded(base, w) \in [Address -> Int] /\ Coded(base, v) \in [Address -> Int]
  BY <1>16, PriceParts
<1>5. code.len \in Int /\ base.accounts[x].code.len \in Int
  BY DEF CodeSet, WorldSet, AccountSet
<1>6. /\ Coded(base, v)[x] = Coded(base, w)[x] + code.len
      /\ \A y \in Address \ {x} : Coded(base, v)[y] = Coded(base, w)[y]
  BY <1>1, <1>5 DEF Coded
<1>7. SumFunction(Coded(base, v)) = SumFunction(Coded(base, w)) + code.len
  BY <1>4, <1>5, <1>6, SumOfChanged
<1> DEFINE n1 == Cardinality(Filled(w))
           n2 == Cardinality(Newborn(base, w))
           n3 == SumFunction(Coded(base, w))
           n4 == code.len
<1>8. n1 \in Int /\ n2 \in Int /\ n3 \in Int /\ n4 \in Int
  BY <1>4, <1>5
<1>9. /\ StatePrice(base, v) = SlotState * n1 + NewAccount * n2 + CodeByte * (n3 + n4)
      /\ StatePrice(base, w) = SlotState * n1 + NewAccount * n2 + CodeByte * n3
  BY <1>3, <1>7 DEF StatePrice
<1> HIDE DEF n1, n2, n3, n4
<1>10. SlotState \in Int /\ NewAccount \in Int /\ CodeByte \in Int
  BY PricesNat
<1>11. CodeByte * (n3 + n4) = CodeByte * n3 + CodeByte * n4
  BY <1>8, <1>10
<1>12. /\ SlotState * n1 \in Int /\ NewAccount * n2 \in Int
       /\ CodeByte * n3 \in Int /\ CodeByte * n4 \in Int
  BY <1>8, <1>10
<1>13. PICK i \in Int, j \in Int, k \in Int, l \in Int :
         i = SlotState * n1 /\ j = NewAccount * n2 /\ k = CodeByte * n3 /\ l = CodeByte * n4
  BY <1>12
<1>14. StatePrice(base, v) = i + j + (k + l) /\ StatePrice(base, w) = i + j + k
  BY <1>9, <1>11, <1>13
<1>15. StatePrice(base, v) = StatePrice(base, w) + l
  BY <1>14
<1> QED
  BY <1>13, <1>15, <1>16 DEF n4

\* state-ops.bend:105-134.  What a store adds to the price of the state.
StoreCost(original, current, value) ==
  IF FillsSlot(original, current, value) THEN SlotState
  ELSE IF EmptiesSlot(original, current, value) THEN -SlotState
  ELSE 0

LEMMA StorePrice ==
  ASSUME NEW base \in WorldSet,
         IsFiniteSet(Address), NEW w \in WorldSet, Fit(base, w), NEW x \in Address, NEW k \in Key,
         NEW value \in Value, NEW refund \in Int
  PROVE  LET original == w.accounts[x].original[k]
             current  == w.accounts[x].storage[k]
             v == AddRefund(SetStorage(w, x, k, value), refund)
         IN  Fit(base, v) /\ StatePrice(base, v) = StatePrice(base, w) + StoreCost(original, current, value)
<1> DEFINE original == w.accounts[x].original[k]
           current  == w.accounts[x].storage[k]
           stored   == SetStorage(w, x, k, value)
           v == AddRefund(stored, refund)
           p == w.accounts[x]
           q == v.accounts[x]
           s == <<x, k>>
<1>1. p \in AccountSet /\ original \in Value /\ current \in Value
  BY DEF WorldSet, AccountSet
<1>3. /\ stored \in WorldSet
      /\ \A y \in Address \ {x} : stored.accounts[y] = w.accounts[y]
      /\ stored.accounts[x] = [p EXCEPT !.storage[k] = value]
  <2> DEFINE t == stored
  <2>1. t = SetStorage(w, x, k, value)
    OBVIOUS
  <2> HIDE DEF t
  <2>2. /\ t \in WorldSet /\ t.refund = w.refund /\ t.logs = w.logs
        /\ \A y \in Address \ {x} : t.accounts[y] = w.accounts[y]
        /\ t.accounts[x] = [w.accounts[x] EXCEPT !.storage[k] = value]
    BY <2>1, StoredShape
  <2> QED
    BY <2>2 DEF t
<1>4. v.accounts = stored.accounts
  <2> HIDE DEF stored
  <2> QED
    BY <1>3 DEF AddRefund, WorldSet
<1>5. /\ \A y \in Address \ {x} : v.accounts[y] = w.accounts[y]
      /\ q = [p EXCEPT !.storage[k] = value]
  BY <1>3, <1>4
<1> HIDE DEF p, q, v, stored
<1>6. /\ q.balance = p.balance /\ q.nonce = p.nonce /\ q.code = p.code
      /\ q.original = p.original
      /\ q.storage = [p.storage EXCEPT ![k] = value] /\ p.storage \in [Key -> Value]
  BY <1>1, <1>5 DEF AccountSet
<1>7. q.storage[k] = value /\ \A h \in Key \ {k} : q.storage[h] = p.storage[h]
  BY <1>6
<1>8. Grown(w, v, {})
  <2>1. \A y \in Address : /\ v.accounts[y].balance = w.accounts[y].balance
                           /\ v.accounts[y].nonce = w.accounts[y].nonce
                           /\ v.accounts[y].code = w.accounts[y].code
    BY <1>5, <1>6 DEF p, q
  <2> QED
    BY <2>1, GrownSame
<1>9. Newborn(base, v) = Newborn(base, w) /\ Coded(base, v) = Coded(base, w)
  BY <1>8, NobodyBorn
<1>11. /\ \A t \in Address \X Key : t # s => (t \in Filled(v) <=> t \in Filled(w))
       /\ s \in Filled(v) <=> original = 0 /\ value # 0
       /\ s \in Filled(w) <=> original = 0 /\ current # 0
       /\ s \in Address \X Key
  <2>1. \A t \in Address \X Key :
          /\ t \in Filled(v) <=> /\ v.accounts[t[1]].original[t[2]] = 0
                                 /\ v.accounts[t[1]].storage[t[2]] # 0
          /\ t \in Filled(w) <=> /\ w.accounts[t[1]].original[t[2]] = 0
                                 /\ w.accounts[t[1]].storage[t[2]] # 0
    BY DEF Filled
  <2>2. s \in Address \X Key /\ s[1] = x /\ s[2] = k
    OBVIOUS
  <2>3. /\ s \in Filled(v) <=> original = 0 /\ value # 0
        /\ s \in Filled(w) <=> original = 0 /\ current # 0
    BY <1>6, <1>7, <2>1, <2>2 DEF p, q
  <2>4. ASSUME NEW t \in Address \X Key, t # s
        PROVE  t \in Filled(v) <=> t \in Filled(w)
    <3>1. t[1] \in Address /\ t[2] \in Key /\ (t[1] # x \/ t[2] # k)
      BY <2>4
    <3>2. CASE t[1] # x
      BY <1>5, <2>1, <3>1, <3>2
    <3>3. CASE t[1] = x /\ t[2] # k
      BY SMTT(30), <1>6, <1>7, <2>1, <3>1, <3>3 DEF p, q
    <3> QED
      BY <3>1, <3>2, <3>3
  <2> QED
    BY <2>2, <2>3, <2>4
<1>12. Filled(v) \subseteq Address \X Key /\ Filled(w) \subseteq Address \X Key
  BY DEF Filled
<1>13. IsFiniteSet(Filled(w)) /\ StatePrice(base, w) \in Int
  BY PriceParts DEF Fit
<1> DEFINE n1 == Cardinality(Filled(w))
           n2 == NewAccount * Cardinality(Newborn(base, w))
           n3 == CodeByte * SumFunction(Coded(base, w))
<1>14. n1 \in Int /\ n2 \in Int /\ n3 \in Int /\ SlotState \in Nat
  <2>1. /\ Cardinality(Filled(w)) \in Nat /\ Cardinality(Newborn(base, w)) \in Nat
        /\ SumFunction(Coded(base, w)) \in Int
    BY PriceParts
  <2>2. SlotState \in Nat /\ NewAccount \in Nat /\ CodeByte \in Nat
    BY PricesNat
  <2> QED
    BY <2>1, <2>2
<1>15. StatePrice(base, v) = SlotState * Cardinality(Filled(v)) + n2 + n3
  BY <1>9 DEF StatePrice
<1>16. StatePrice(base, w) = SlotState * n1 + n2 + n3
  BY DEF StatePrice
<1>17. StoreCost(original, current, value) =
         IF original = 0 /\ current = 0 /\ value # 0 THEN SlotState
         ELSE IF original = 0 /\ current # 0 /\ value = 0 THEN -SlotState ELSE 0
  BY DEF StoreCost, FillsSlot, EmptiesSlot
<1> HIDE DEF s, original, current, n2, n3
<1>18. /\ IsFiniteSet(Filled(v))
       /\ StatePrice(base, v) = StatePrice(base, w) + StoreCost(original, current, value)
  <2>0. /\ SlotState * n1 \in Int
        /\ SlotState * (n1 + 1) = SlotState * n1 + SlotState
        /\ SlotState * (n1 - 1) = SlotState * n1 - SlotState
    <3> HIDE DEF n1
    <3> QED
      BY <1>14
  <2> DEFINE i == SlotState * n1
  <2>1. CASE original = 0 /\ current = 0 /\ value # 0
    <3>1. Filled(v) = Filled(w) \cup {s} /\ s \notin Filled(w)
      BY <1>11, <1>12, <2>1
    <3>2. IsFiniteSet(Filled(v)) /\ Cardinality(Filled(v)) = n1 + 1
      BY <1>13, <3>1, FS_AddElement
    <3>3. StatePrice(base, v) = i + SlotState + n2 + n3 /\ StatePrice(base, w) = i + n2 + n3
      BY <1>15, <1>16, <2>0, <3>2
    <3>4. i \in Int
      BY <2>0
    <3> HIDE DEF i, n1
    <3> QED
      BY <1>14, <1>17, <2>1, <3>2, <3>3, <3>4
  <2>2. CASE original = 0 /\ current # 0 /\ value = 0
    <3>1. Filled(v) = Filled(w) \ {s} /\ s \in Filled(w)
      BY <1>11, <1>12, <2>2
    <3>2. IsFiniteSet(Filled(v)) /\ Cardinality(Filled(v)) = n1 - 1
      BY <1>13, <3>1, FS_RemoveElement
    <3>3. StatePrice(base, v) = i - SlotState + n2 + n3 /\ StatePrice(base, w) = i + n2 + n3
      BY <1>15, <1>16, <2>0, <3>2
    <3>4. i \in Int
      BY <2>0
    <3> HIDE DEF i, n1
    <3> QED
      BY <1>14, <1>17, <2>2, <3>2, <3>3, <3>4
  <2>3. CASE ~(original = 0 /\ current = 0 /\ value # 0)
             /\ ~(original = 0 /\ current # 0 /\ value = 0)
    <3>1. Filled(v) = Filled(w)
      BY <1>11, <1>12, <2>3
    <3>2. StatePrice(base, v) = StatePrice(base, w)
      BY <1>15, <1>16, <3>1
    <3>3. StoreCost(original, current, value) = 0
      BY <1>17, <2>3
    <3> QED
      BY <1>13, <3>1, <3>2, <3>3
  <2> QED
    BY <2>1, <2>2, <2>3
<1>19. Fit(base, v)
  BY <1>8, <1>18, GrownFits
<1> QED
  BY <1>18, <1>19 DEF v, stored, original, current

----------------------------------------------------------------------------
(* The state gas that operations on a meter book.                          *)

\* All that is asked of a meter: that it counts what it used.
Counts(m) == "used" \in DOMAIN m /\ m.used \in Int

\* gas.bend:16-62.  Only state gas and refills move the counter of state gas.
LEMMA UsedFacts ==
  ASSUME NEW m, Counts(m)
  PROVE  /\ \A cost : Counts(Charge(m, cost)) /\ Charge(m, cost).used = m.used
         /\ \A cost \in Int : /\ Counts(SpendState(m, cost))
                              /\ SpendState(m, cost).used = m.used + cost
                              /\ Counts(Refill(m, cost))
                              /\ Refill(m, cost).used = m.used - cost
         /\ Counts(Exhaust(m)) /\ Exhaust(m).used = m.used
         /\ \A gas : Counts([m EXCEPT !.gas = gas]) /\ [m EXCEPT !.gas = gas].used = m.used
         /\ \A gas : [m EXCEPT !.gas = gas, !.reservoir = 0].used = m.used
<1>1. \A cost : Counts(Charge(m, cost)) /\ Charge(m, cost).used = m.used
  BY DEF Charge, Counts
<1>2. \A cost \in Int : SpendState(m, cost).used = m.used + cost
  BY DEF SpendState, Counts
<1>3. \A cost \in Int : Refill(m, cost).used = m.used - cost
  BY DEF Refill, Counts
<1>4. \A cost \in Int : Counts(SpendState(m, cost)) /\ Counts(Refill(m, cost))
  <2>1. \A cost : "used" \in DOMAIN SpendState(m, cost) /\ "used" \in DOMAIN Refill(m, cost)
    BY DEF SpendState, Refill, Counts
  <2> QED
    BY <1>2, <1>3, <2>1 DEF Counts
<1>5. Counts(Exhaust(m)) /\ Exhaust(m).used = m.used
  BY DEF Exhaust, Counts
<1>6. \A gas : Counts([m EXCEPT !.gas = gas]) /\ [m EXCEPT !.gas = gas].used = m.used
  BY DEF Counts
<1>7. \A gas : [m EXCEPT !.gas = gas, !.reservoir = 0].used = m.used
  BY DEF Counts
<1> QED
  BY <1>1, <1>2, <1>3, <1>4, <1>5, <1>6, <1>7

\* The new account that a frame was charged for.
Due(parent) == IF parent.charged THEN NewAccount ELSE 0

\* call-common.bend:70-78.  A birth is booked and refilled at the same price.
LEMMA BirthUsed ==
  ASSUME NEW m, Counts(m), NEW applies \in BOOLEAN
  PROVE  /\ Counts(SpendBirth(m, applies))
         /\ SpendBirth(m, applies).used = m.used + (IF applies THEN NewAccount ELSE 0)
         /\ RefillBirth(m, applies).used = m.used - (IF applies THEN NewAccount ELSE 0)
<1>1. m.used \in Int /\ NewAccount \in Int
  BY PricesNat DEF Counts
<1>2. CASE applies
  BY <1>1, <1>2, UsedFacts DEF SpendBirth, RefillBirth
<1>3. CASE ~applies
  BY <1>1, <1>3 DEF SpendBirth, RefillBirth
<1> QED
  BY <1>2, <1>3

\* gas.bend:97-113.  A parent takes over what a successful child booked.
LEMMA MergedUsed ==
  ASSUME NEW parent \in MeterSet, NEW child \in MeterSet, NEW succeeded \in BOOLEAN
  PROVE  /\ Counts(Merged(parent, child, succeeded))
         /\ Merged(parent, child, succeeded).used
              = parent.used + (IF succeeded THEN child.used ELSE 0)
<1>1. \A m \in [gas: Int, reservoir: Nat, used: Int, spilled: Int, grant: Nat, entry: Nat] :
       \A returned :
        Absorb(m, returned).used = m.used /\ "used" \in DOMAIN Absorb(m, returned)
  BY DEF Absorb
<1> DEFINE kept == IF succeeded THEN child ELSE [child EXCEPT !.used = 0, !.spilled = 0]
           gas == parent.gas + child.gas
           used == parent.used + kept.used
           spilled == parent.spilled + kept.spilled
           m == [parent EXCEPT !.gas = gas, !.used = used, !.spilled = spilled]
<1>2. kept.used = IF succeeded THEN child.used ELSE 0
  BY DEF MeterSet
<1>3. kept.used \in Int /\ kept.spilled \in Int
  BY DEF MeterSet
<1>4. gas \in Int /\ used \in Int /\ spilled \in Int
  BY <1>3 DEF MeterSet
<1>5. Merged(parent, child, succeeded) = Absorb(m, child.reservoir)
  BY DEF Merged, MeterSet
<1> HIDE DEF gas, used, spilled, kept
<1>6. /\ m \in [gas: Int, reservoir: Nat, used: Int, spilled: Int, grant: Nat, entry: Nat]
      /\ m.used = used
  BY <1>4 DEF MeterSet
<1> HIDE DEF m
<1>7. /\ Merged(parent, child, succeeded).used = used
      /\ "used" \in DOMAIN Merged(parent, child, succeeded)
  BY <1>1, <1>5, <1>6
<1> QED
  BY <1>2, <1>4, <1>7 DEF used, Counts

----------------------------------------------------------------------------
(* What the suspended frames have booked.                                  *)

Booked(stack, j) == SumFunction([i \in 1..j |-> stack[i].meter.used])

Paid(j) == Booked(parents, j)

\* No frame has paid for anything.
LEMMA NothingPaid == Paid(0) = 0
<1> DEFINE f == [i \in 1..0 |-> parents[i].meter.used]
<1>1. f \in [{} -> Int]
  <2>1. 1..0 = {}
    OBVIOUS
  <2> QED
    BY <2>1
<1> HIDE DEF f
<1>2. SumFunction(f) = 0
  BY <1>1, SumOfNothing
<1> QED
  BY <1>2 DEF Paid, Booked, f

\* A sum over the first frames.
LEMMA BookedSums ==
  ASSUME NEW stack, NEW n \in Nat, \A i \in 1..n : stack[i].meter.used \in Int,
         NEW j \in 0..n
  PROVE  /\ Booked(stack, j) \in Int
         /\ j # 0 => Booked(stack, j) = Booked(stack, j - 1) + stack[j].meter.used
<1> DEFINE term == [i \in 1..n |-> stack[i].meter.used]
<1>1. \A i \in 1..n : term[i] \in Int /\ term[i] = stack[i].meter.used
  OBVIOUS
<1>2. ASSUME NEW h \in 0..n PROVE Booked(stack, h) = Total(term, h)
  <2>1. \A i \in 1..h : term[i] = stack[i].meter.used
    <3>1. \A i \in 1..h : i \in 1..n
      OBVIOUS
    <3> QED
      BY <3>1
  <2> HIDE DEF term
  <2> QED
    BY <2>1 DEF Booked, Total
<1> HIDE DEF term
<1>3. Total(term, j) \in Int /\ (j # 0 => Total(term, j) = Total(term, j - 1) + term[j])
  BY <1>1, TotalSums
<1>4. j # 0 => j - 1 \in 0..n /\ j \in 1..n
  OBVIOUS
<1> QED
  BY <1>1, <1>2, <1>3, <1>4

\* A sum of the same terms.
LEMMA BookedSame ==
  ASSUME NEW stack, NEW other, NEW j, \A i \in 1..j : other[i].meter.used = stack[i].meter.used
  PROVE  Booked(other, j) = Booked(stack, j)
  BY DEF Booked

\* What a frame has booked is an integer.
LEMMA StackBooks ==
  ASSUME IInv
  PROVE  /\ Len(parents) \in Nat /\ parents \in Seq(ParentSet)
         /\ \A i \in 1..Len(parents) : /\ parents[i] \in ParentSet
                                       /\ parents[i].meter \in MeterSet
                                       /\ parents[i].meter.used \in Int
<1>1. /\ Len(parents) \in Nat /\ parents \in Seq(ParentSet)
      /\ \A i \in 1..Len(parents) : parents[i] \in ParentSet
  BY Stack, RunningTyped
<1> QED
  BY <1>1 DEF ParentSet, MeterSet

\* The gas books: what every live frame has booked together is the price of
\* the state, and what the frames below a snapshot have booked is the price of
\* the state in it, with the account that its child was charged for.
GasBooks(base) ==
  /\ \A j \in 0..Len(parents) : Fit(base, After(j))
  /\ meter.used + Paid(Len(parents)) = StatePrice(base, world)
  /\ \A i \in 1..Len(parents) :
       Paid(i) = StatePrice(base, parents[i].snapshot) + Due(parents[i])

GInv(base) == JInv(base) /\ GasBooks(base)

\* What the running frame has to offer.
LEMMA Counter ==
  ASSUME NEW base \in WorldSet, IsFiniteSet(Address), GInv(base)
  PROVE  /\ JInv(base) /\ LInv /\ IInv /\ Fit(base, world) /\ world \in WorldSet
         /\ meter \in MeterSet /\ Counts(meter) /\ meter.used \in Int
         /\ Len(parents) \in Nat /\ parents \in Seq(ParentSet)
         /\ Paid(Len(parents)) \in Int /\ StatePrice(base, world) \in Int
         /\ meter.used + Paid(Len(parents)) = StatePrice(base, world)
<1>1. /\ JInv(base) /\ LInv /\ IInv /\ world \in WorldSet
      /\ Len(parents) \in Nat /\ parents \in Seq(ParentSet)
  BY Surface DEF GInv
<1>2. meter \in MeterSet /\ Counts(meter) /\ meter.used \in Int
  BY <1>1, RunningTyped DEF Counts, MeterSet
<1>3. After(Len(parents)) = world /\ Len(parents) \in 0..Len(parents)
  BY <1>1 DEF After
<1>4. Fit(base, world)
  BY <1>3 DEF GInv, GasBooks
<1>5. Paid(Len(parents)) \in Int
  BY <1>1, <1>3, StackBooks, BookedSums DEF Paid
<1> QED
  BY <1>1, <1>2, <1>4, <1>5, PriceParts DEF GInv, GasBooks

\* A step that leaves the stack alone books what it changes.
LEMMA QuietGas ==
  ASSUME NEW base \in WorldSet,
         IsFiniteSet(Address), GInv(base), JInv(base)', parents' = parents, Fit(base, world'),
         NEW d \in Int, meter'.used = meter.used + d,
         StatePrice(base, world') = StatePrice(base, world) + d
  PROVE  GInv(base)'
<1>0. PICK n \in Nat : n = Len(parents)
  BY Counter
<1>1. /\ Len(parents') = n
      /\ \A j \in 0..n : j # n => After(j)' = After(j)
      /\ After(n)' = world'
      /\ \A j : Paid(j)' = Paid(j)
  BY <1>0 DEF After, Paid
<1>2. \A j \in 0..n : Fit(base, After(j)')
  BY <1>0, <1>1 DEF GInv, GasBooks
<1>3. \A j \in 0..Len(parents') : Fit(base, After(j))'
  BY <1>1, <1>2 DEF Fit, Filled
<1>4. meter'.used + Paid(n)' = StatePrice(base, world')
  BY <1>0, <1>1, Counter
<1>5. \A i \in 1..n : Paid(i)' = StatePrice(base, parents'[i].snapshot) + Due(parents'[i])
  BY <1>0, <1>1 DEF GInv, GasBooks
<1> QED
  BY <1>0, <1>1, <1>3, <1>4, <1>5
     DEF GInv, GasBooks, StatePrice, Filled, Newborn, Coded, Due

\* A step that suspends the running frame books the account it pays for.
LEMMA PushGas ==
  ASSUME NEW base \in WorldSet,
         IsFiniteSet(Address), GInv(base), JInv(base)', NEW parent, parents' = Append(parents, parent),
         parent.meter.used = meter.used + Due(parent), Due(parent) \in Int,
         Fit(base, parent.snapshot), StatePrice(base, parent.snapshot) = StatePrice(base, world),
         Fit(base, world'), StatePrice(base, world') = StatePrice(base, world) + Due(parent),
         meter'.used = 0
  PROVE  GInv(base)'
<1>0. PICK n \in Nat : n = Len(parents)
  BY Counter
<1>1. parents \in Seq(ParentSet)
  BY Counter
<1>2. /\ Len(parents') = n + 1 /\ parents'[n + 1] = parent
      /\ \A i \in 1..n : parents'[i] = parents[i]
  BY <1>0, <1>1
<1>3. /\ \A j \in 0..n : j # n => After(j)' = After(j)
      /\ After(n)' = parent.snapshot
      /\ After(n + 1)' = world'
  <2>1. \A j \in 0..n : j # n => j + 1 \in 1..n /\ j # n + 1
    OBVIOUS
  <2>2. n # n + 1
    OBVIOUS
  <2> QED
    BY <1>0, <1>2, <2>1, <2>2 DEF After
<1>4. \A j \in 0..n + 1 : Fit(base, After(j)')
  <2> SUFFICES ASSUME NEW j \in 0..n + 1 PROVE Fit(base, After(j)')
    OBVIOUS
  <2>1. CASE j = n + 1
    BY <1>3, <2>1
  <2>2. CASE j = n
    BY <1>3, <2>2
  <2>3. CASE j \in 0..n /\ j # n
    BY <1>0, <1>3, <2>3 DEF GInv, GasBooks
  <2> QED
    BY <2>1, <2>2, <2>3
<1>5. \A j \in 0..Len(parents') : Fit(base, After(j))'
  BY <1>2, <1>4 DEF Fit, Filled
<1>6. \A j \in 0..n : Booked(parents', j) = Paid(j)
  <2> SUFFICES ASSUME NEW j \in 0..n PROVE Booked(parents', j) = Booked(parents, j)
    BY DEF Paid
  <2>1. \A i \in 1..j : parents'[i].meter.used = parents[i].meter.used
    <3>1. \A i \in 1..j : i \in 1..n
      OBVIOUS
    <3> QED
      BY <1>2, <3>1
  <2> QED
    BY <2>1, BookedSame
<1>7. parent.meter.used \in Int /\ meter.used \in Int /\ Paid(n) \in Int
      /\ meter.used + Paid(n) = StatePrice(base, world) /\ StatePrice(base, world) \in Int
  BY <1>0, Counter
<1>8. Booked(parents', n + 1) = Paid(n) + parent.meter.used
  <2> DEFINE last == n + 1
             other == parents'
  <2>1. \A i \in 1..last : other[i].meter.used \in Int
    <3>1. \A i \in 1..last : i \in 1..n \/ i = last
      OBVIOUS
    <3>2. \A i \in 1..n : parents[i].meter.used \in Int
      BY <1>0, Counter, StackBooks
    <3> QED
      BY <1>2, <1>7, <3>1, <3>2
  <2>2. last \in Nat /\ last \in 0..last /\ last # 0 /\ last - 1 = n
    OBVIOUS
  <2> HIDE DEF last, other
  <2>3. Booked(other, last) = Booked(other, last - 1) + other[last].meter.used
    BY <2>1, <2>2, BookedSums
  <2>4. Booked(other, last) = Booked(parents', n) + parent.meter.used
    BY <1>2, <2>2, <2>3 DEF Paid, other, last, Booked
  <2>5. Booked(parents', n + 1) = Booked(other, last)
    BY DEF Paid, other, last, Booked
  <2> QED
    BY <1>6, <2>4, <2>5
<1>9. meter'.used + Booked(parents', n + 1) = StatePrice(base, world')
  BY <1>7, <1>8
<1>10. \A i \in 1..n + 1 : Booked(parents', i) = StatePrice(base, parents'[i].snapshot) + Due(parents'[i])
  <2> SUFFICES ASSUME NEW i \in 1..n + 1
               PROVE  Booked(parents', i) = StatePrice(base, parents'[i].snapshot) + Due(parents'[i])
    OBVIOUS
  <2>1. CASE i = n + 1
    <3>1. Booked(parents', n + 1) = StatePrice(base, parent.snapshot) + Due(parent)
      BY <1>7, <1>8
    <3> QED
      BY <1>2, <2>1, <3>1
  <2>2. CASE i \in 1..n
    <3>1. Paid(i) = StatePrice(base, parents[i].snapshot) + Due(parents[i])
      BY <1>0, <2>2 DEF GInv, GasBooks
    <3>2. Booked(parents', i) = Paid(i) /\ parents'[i] = parents[i]
      BY <1>2, <1>6, <2>2
    <3> QED
      BY <3>1, <3>2
  <2>3. i = n + 1 \/ i \in 1..n
    OBVIOUS
  <2> QED
    BY <2>1, <2>2, <2>3
<1> QED
  BY <1>2, <1>5, <1>9, <1>10
     DEF GInv, GasBooks, Paid, StatePrice, Filled, Newborn, Coded, Due

\* A step that resumes the innermost parent: on the journal it saved, less
\* what the child was charged for; or with what the child booked and d more.
LEMMA PopGas ==
  ASSUME NEW base \in WorldSet,
         IsFiniteSet(Address), GInv(base), JInv(base)', parents # <<>>, parents' = Front(parents),
         \/ /\ world' = Waiting.snapshot
            /\ meter'.used = Waiting.meter.used - Due(Waiting)
         \/ /\ Fit(base, world')
            /\ \E d \in Int : /\ StatePrice(base, world') = StatePrice(base, world) + d
                              /\ meter'.used = Waiting.meter.used + meter.used + d
  PROVE  GInv(base)'
<1>0. PICK n \in Nat \ {0} : n = Len(parents)
  <2>1. parents \in Seq(ParentSet)
    BY Counter
  <2>2. Len(parents) \in Nat \ {0}
    BY <2>1
  <2> QED
    BY <2>2
<1>1. parents \in Seq(ParentSet) /\ Waiting = parents[n]
  BY <1>0, Counter DEF Waiting, Last
<1>2. /\ Len(parents') = n - 1
      /\ \A i \in 1..n - 1 : parents'[i] = parents[i]
  BY <1>0, <1>1, FrontProperties
<1>3. /\ \A j \in 0..n - 1 : j # n - 1 => After(j)' = After(j)
      /\ After(n - 1)' = world'
  <2>1. \A j \in 0..n - 1 : j # n - 1 => j + 1 \in 1..n - 1
    OBVIOUS
  <2>2. \A j \in 0..n - 1 : j # n
    OBVIOUS
  <2>3. \A j \in 0..n - 1 : j # n - 1 => After(j)' = After(j)
    BY <1>0, <1>2, <2>1, <2>2 DEF After
  <2>4. After(n - 1)' = world'
    BY <1>2 DEF After
  <2> QED
    BY <2>3, <2>4
<1>4. \A j \in 0..n : Fit(base, After(j))
  BY <1>0 DEF GInv, GasBooks
<1>5. After(n - 1) = Waiting.snapshot /\ n - 1 \in 0..n
  BY <1>0, <1>1 DEF After
<1>6. Fit(base, world')
  BY <1>4, <1>5
<1>7. \A j \in 0..n - 1 : Fit(base, After(j)')
  <2>1. \A j \in 0..n - 1 : j \in 0..n
    OBVIOUS
  <2> QED
    BY <1>3, <1>4, <1>6, <2>1
<1>8. \A j \in 0..Len(parents') : Fit(base, After(j))'
  BY <1>2, <1>7 DEF Fit, Filled
<1>9. \A j \in 0..n - 1 : Booked(parents', j) = Paid(j)
  <2> SUFFICES ASSUME NEW j \in 0..n - 1 PROVE Booked(parents', j) = Booked(parents, j)
    BY DEF Paid
  <2>1. \A i \in 1..j : parents'[i].meter.used = parents[i].meter.used
    <3>1. \A i \in 1..j : i \in 1..n - 1
      OBVIOUS
    <3> QED
      BY <1>2, <3>1
  <2> QED
    BY <2>1, BookedSame
<1>10. /\ Paid(n) = Paid(n - 1) + Waiting.meter.used
       /\ Paid(n - 1) \in Int /\ Waiting.meter.used \in Int /\ Paid(n) \in Int
  <2>1. /\ \A i \in 1..n : parents[i].meter.used \in Int
        /\ n \in Nat /\ n \in 0..n /\ n - 1 \in 0..n /\ n \in 1..n /\ n # 0
    BY <1>0, Counter, StackBooks
  <2>2. Paid(n) = Paid(n - 1) + parents[n].meter.used
    BY <2>1, BookedSums DEF Paid
  <2>3. Paid(n - 1) \in Int
    BY <2>1, BookedSums DEF Paid
  <2>4. Paid(n) \in Int
    BY <2>1, BookedSums DEF Paid
  <2> QED
    BY <1>1, <2>1, <2>2, <2>3, <2>4
<1>11. /\ meter.used + Paid(n) = StatePrice(base, world) /\ meter.used \in Int
       /\ StatePrice(base, world) \in Int
  BY <1>0, Counter
<1>12. Paid(n) = StatePrice(base, Waiting.snapshot) + Due(Waiting)
  BY <1>0, <1>1 DEF GInv, GasBooks
<1>13. meter'.used + Paid(n - 1) = StatePrice(base, world')
  <2>1. ASSUME world' = Waiting.snapshot, meter'.used = Waiting.meter.used - Due(Waiting)
        PROVE  meter'.used + Paid(n - 1) = StatePrice(base, world')
    <3>1. Due(Waiting) \in Int
      BY PricesNat DEF Due
    <3>2. StatePrice(base, Waiting.snapshot) \in Int
      <4>1. Waiting.snapshot \in WorldSet
        BY <1>0, <1>1, Counter, StackBooks DEF ParentSet
      <4> QED
        BY <1>4, <1>5, <4>1, PriceParts
    <3>3. meter'.used + Paid(n - 1) = Paid(n) - Due(Waiting)
      BY <1>10, <2>1, <3>1
    <3> QED
      BY <1>12, <2>1, <3>1, <3>2, <3>3
  <2>2. ASSUME NEW d \in Int, StatePrice(base, world') = StatePrice(base, world) + d,
               meter'.used = Waiting.meter.used + meter.used + d
        PROVE  meter'.used + Paid(n - 1) = StatePrice(base, world')
    BY <1>10, <1>11, <2>2
  <2> QED
    BY <2>1, <2>2
<1>14. \A i \in 1..n - 1 : Booked(parents', i) = StatePrice(base, parents'[i].snapshot) + Due(parents'[i])
  <2> SUFFICES ASSUME NEW i \in 1..n - 1
               PROVE  Booked(parents', i) = StatePrice(base, parents'[i].snapshot) + Due(parents'[i])
    OBVIOUS
  <2>1. i \in 1..n /\ i \in 0..n - 1
    OBVIOUS
  <2>2. Paid(i) = StatePrice(base, parents[i].snapshot) + Due(parents[i])
    BY <1>0, <2>1 DEF GInv, GasBooks
  <2> QED
    BY <1>2, <1>9, <2>1, <2>2
<1>15. meter'.used + Booked(parents', n - 1) = StatePrice(base, world')
  <2>1. n - 1 \in 0..n - 1
    OBVIOUS
  <2> QED
    BY <1>9, <1>13, <2>1
<1> QED
  BY <1>2, <1>8, <1>14, <1>15
     DEF GInv, GasBooks, Paid, StatePrice, Filled, Newborn, Coded, Due

\* The second of them.
LEMMA PopKept ==
  ASSUME NEW base \in WorldSet,
         IsFiniteSet(Address), GInv(base), JInv(base)', parents # <<>>, parents' = Front(parents),
         Fit(base, world'), NEW d \in Int, StatePrice(base, world') = StatePrice(base, world) + d,
         meter'.used = Waiting.meter.used + meter.used + d
  PROVE  GInv(base)'
  BY PopGas


----------------------------------------------------------------------------
(* What the operations that steps are made of cost.                        *)

\* An operation that fills no slot and brings nothing to life.
Free(w, v) == Careful(w, v) /\ Grown(w, v, {})

\* Free once and again is free.
LEMMA FreeTwice ==
  ASSUME NEW u, NEW v, NEW w, Free(u, v), Free(v, w)
  PROVE  Free(u, w)
<1>1. Grown(u, w, {} \cup {})
  BY GrownTwice DEF Free
<1>2. {} \cup {} = {}
  OBVIOUS
<1> QED
  BY <1>1, <1>2, CarefulTwice DEF Free

\* The same accounts and refund.
LEMMA FreeSame ==
  ASSUME NEW w, NEW v, v.accounts = w.accounts, v.refund = w.refund
  PROVE  Free(w, v)
  BY CarefulSame, GrownSame DEF Free

\* world.bend:78-79.  Warming an account adds no state.
LEMMA WarmFree ==
  ASSUME NEW w \in WorldSet, NEW x \in Address
  PROVE  Free(w, WarmAccount(w, x))
<1> DEFINE v == WarmAccount(w, x)
<1>1. v.refund = w.refund
  BY DEF WarmAccount, WorldSet
<1>2. \A y \in Address : Fine(w.accounts[y], v.accounts[y])
  BY DEF WarmAccount, Fine, Living, WorldSet, AccountSet
<1>3. \A y \in Address : /\ v.accounts[y].balance = w.accounts[y].balance
                         /\ v.accounts[y].nonce = w.accounts[y].nonce
                         /\ v.accounts[y].code = w.accounts[y].code
  BY WarmAccountType
<1> HIDE DEF v
<1>4. Free(w, v)
  BY <1>1, <1>2, <1>3, GrownSame DEF Careful, Free
<1> QED
  BY <1>4 DEF v

\* world.bend:104-131.  Neither does warming a slot or a transient store.
LEMMA TouchFree ==
  ASSUME NEW w \in WorldSet, NEW x \in Address, NEW k \in Key, NEW value
  PROVE  Free(w, WarmStorage(w, x, k)) /\ Free(w, SetTransient(w, x, k, value))
<1> DEFINE u == WarmStorage(w, x, k)
           v == SetTransient(w, x, k, value)
<1>1. \A y \in Address : /\ u.accounts[y].balance = w.accounts[y].balance
                         /\ u.accounts[y].nonce = w.accounts[y].nonce
                         /\ u.accounts[y].code = w.accounts[y].code
  BY DEF WarmStorage, WorldSet, AccountSet
<1>2. \A y \in Address : /\ v.accounts[y].balance = w.accounts[y].balance
                         /\ v.accounts[y].nonce = w.accounts[y].nonce
                         /\ v.accounts[y].code = w.accounts[y].code
  BY DEF SetTransient, WorldSet, AccountSet
<1>3. Careful(w, u) /\ Careful(w, v)
  BY TouchCareful
<1> HIDE DEF u, v
<1>4. Free(w, u) /\ Free(w, v)
  BY <1>1, <1>2, <1>3, GrownSame DEF Free
<1> QED
  BY <1>4 DEF u, v

\* call-selfdestruct.bend:19-30.  Ether that moves from a living account costs
\* a new account where there was none.
LEMMA MovePrice ==
  ASSUME NEW base \in WorldSet,
         IsFiniteSet(Address), NEW w \in WorldSet, Tidy(LedgerOf(w)), Fit(base, w),
         NEW source \in Address, NEW target \in Address, NEW value \in Nat,
         value <= w.accounts[source].balance, Living(w.accounts[source]),
         w.accounts[source].warm, w.accounts[target].warm
  PROVE  LET v == TransferLog(MoveEther(w, source, target, value), source, target, value)
         IN  /\ Fit(base, v)
             /\ StatePrice(base, v) = StatePrice(base, w) +
                  (IF value # 0 /\ IsEmpty(w.accounts[target]) THEN NewAccount ELSE 0)
<1> DEFINE u == MoveEther(w, source, target, value)
           v == TransferLog(u, source, target, value)
           B == IF value = 0 THEN {} ELSE {target}
<1>1. u \in WorldSet /\ Careful(w, u) /\ Grown(w, u, B)
  BY MoveEtherCareful, MoveGrown
<1> HIDE DEF u, B
<1>2. Careful(w, v) /\ Grown(w, v, B)
  BY <1>1, TransferLogCareful, CarefulTwice, TransferLogGrown
<1> HIDE DEF v
<1>3. StatePrice(base, w) \in Int
  BY PriceParts
<1>4. CASE value # 0 /\ IsEmpty(w.accounts[target])
  <2>1. Grown(w, v, {target})
    BY <1>2, <1>4 DEF B
  <2> QED
    BY <1>2, <1>4, <2>1, BirthPrice DEF v, u
<1>5. CASE ~(value # 0 /\ IsEmpty(w.accounts[target]))
  <2>1. Grown(w, v, {})
    BY <1>2, <1>5, GrownAlready DEF B
  <2>2. Fit(base, v) /\ StatePrice(base, v) = StatePrice(base, w)
    BY <1>2, <2>1, SamePrice
  <2> QED
    BY <1>3, <1>5, <2>2 DEF v, u
<1> QED
  BY <1>4, <1>5

\* call-common.bend:58-68.  A payment adds the price of the account it brings to
\* life, if it does.
LEMMA PayPrice ==
  ASSUME NEW base \in WorldSet,
         IsFiniteSet(Address), NEW w \in WorldSet, Tidy(LedgerOf(w)), Fit(base, w),
         NEW source \in Address, NEW target \in Address, NEW value \in Nat,
         value <= w.accounts[source].balance, Living(w.accounts[source]),
         w.accounts[source].warm, w.accounts[target].warm
  PROVE  LET v == Pay(w, source, target, value)
         IN  /\ Fit(base, v)
             /\ StatePrice(base, v) = StatePrice(base, w) +
                  (IF value # 0 /\ IsEmpty(w.accounts[target]) THEN NewAccount ELSE 0)
<1>1. CASE value = 0
  <2>1. StatePrice(base, w) \in Int
    BY PriceParts
  <2> QED
    BY <1>1, <2>1, PayNothing
<1>2. CASE value # 0
  <2>1. Pay(w, source, target, value)
          = TransferLog(MoveEther(w, source, target, value), source, target, value)
    BY <1>2 DEF Pay, Transfer
  <2> QED
    BY <2>1, MovePrice
<1> QED
  BY <1>1, <1>2

\* A frame that asks for something runs at an account that is not empty.
LEMMA AskerLives ==
  ASSUME NEW base \in WorldSet, GInv(base), frame.action.op \in Asks
  PROVE  Living(Self)
<1>1. /\ frame.address \in Address /\ world \in WorldSet /\ LInv
      /\ frame.address \in Warm(world) /\ Tidy(LedgerOf(world))
  BY Surface DEF GInv
<1>2. Alive(LedgerOf(world), frame.address)
  BY <1>1, OnTop DEF Proper
<1>3. LedgerOf(world)[frame.address] = Face(world.accounts[frame.address])
  BY <1>1, LedgerType
<1> QED
  BY <1>2, <1>3 DEF Alive, Face, Living, Self

----------------------------------------------------------------------------
(* The actions, and the state gas they book.                               *)

\* A free step of the running frame that books nothing.
LEMMA FreeGas ==
  ASSUME NEW base \in WorldSet,
         IsFiniteSet(Address), GInv(base), JInv(base)', parents' = parents, Free(world, world'),
         meter'.used = meter.used
  PROVE  GInv(base)'
<1>1. /\ Fit(base, world) /\ StatePrice(base, world) \in Int /\ meter.used \in Int
  BY Counter
<1>2. Fit(base, world') /\ StatePrice(base, world') = StatePrice(base, world)
  BY <1>1, SamePrice DEF Free
<1>3. StatePrice(base, world') = StatePrice(base, world) + 0 /\ meter'.used = meter.used + 0
  BY <1>1, <1>2
<1> QED
  BY <1>2, <1>3, QuietGas

\* state-ops.bend:105-134.  A store books what the state it fills costs, and
\* refills what it empties.
LEMMA SstoreGas ==
  ASSUME NEW base \in WorldSet,
         IsFiniteSet(Address), GInv(base), JInv(base)', NEW k \in Key, NEW value \in Value, Sstore(k, value)
  PROVE  GInv(base)'
<1>0. /\ Fit(base, world) /\ world \in WorldSet /\ frame.address \in Address
      /\ Counts(meter) /\ StatePrice(base, world) \in Int /\ meter.used \in Int
  BY Counter, Surface DEF GInv
<1> DEFINE x == frame.address
           warmed == WarmStorage(world, x, k)
           original == Self.original[k]
           current == Self.storage[k]
           refund == SlotRefund(original, current, value)
           d == StoreCost(original, current, value)
<1>1. /\ warmed \in WorldSet /\ Fit(base, warmed) /\ StatePrice(base, warmed) = StatePrice(base, world)
  <2>1. warmed \in WorldSet /\ Free(world, warmed)
    BY <1>0, StorageTypes, TouchFree
  <2> QED
    BY <1>0, <2>1, SamePrice DEF Free
<1>2. /\ warmed.accounts[x].original = Self.original
      /\ warmed.accounts[x].storage = Self.storage
      /\ original \in Value /\ current \in Value
  BY <1>0 DEF WarmStorage, WorldSet, AccountSet, Self
<1>3. refund \in Int
  BY <1>2, RefundCovers
<1>4. world' = AddRefund(SetStorage(warmed, x, k, value), refund) /\ parents' = parents
  BY DEF Sstore
<1> HIDE DEF warmed, refund
<1>5. Fit(base, world') /\ StatePrice(base, world') = StatePrice(base, warmed) + d
  BY <1>0, <1>1, <1>2, <1>3, <1>4, StorePrice
<1>6. SlotState \in Int /\ d \in Int
  BY PricesNat DEF StoreCost
<1>7. meter'.used = meter.used + d
  <2> DEFINE price == SlotAccess(Self, k)
                      + (IF original = current /\ current # value THEN SlotWrite ELSE 0)
             paid == Charge(meter, price)
  <2>1. meter' = CASE FillsSlot(original, current, value)   -> SpendState(paid, SlotState)
                   [] EmptiesSlot(original, current, value) -> Refill(paid, SlotState)
                   [] OTHER                                 -> paid
    BY DEF Sstore
  <2>2. Counts(paid) /\ paid.used = meter.used
    BY <1>0, UsedFacts
  <2> HIDE DEF paid, original, current
  <2>3. CASE FillsSlot(original, current, value)
    <3>1. meter' = SpendState(paid, SlotState)
      BY <2>1, <2>3 DEF FillsSlot, EmptiesSlot
    <3>2. d = SlotState
      BY <2>3 DEF StoreCost
    <3>3. SpendState(paid, SlotState).used = paid.used + SlotState
      BY <1>6, <2>2, UsedFacts
    <3> QED
      BY <2>2, <3>1, <3>2, <3>3
  <2>4. CASE EmptiesSlot(original, current, value) /\ ~FillsSlot(original, current, value)
    <3>1. meter' = Refill(paid, SlotState)
      BY <2>1, <2>4 DEF FillsSlot, EmptiesSlot
    <3>2. d = -SlotState
      BY <2>4 DEF StoreCost
    <3>3. Refill(paid, SlotState).used = paid.used - SlotState
      BY <1>6, <2>2, UsedFacts
    <3> QED
      BY <1>0, <1>6, <2>2, <3>1, <3>2, <3>3
  <2>5. CASE ~EmptiesSlot(original, current, value) /\ ~FillsSlot(original, current, value)
    <3>1. meter' = paid /\ d = 0
      BY <2>1, <2>5 DEF StoreCost
    <3> QED
      BY <1>0, <2>2, <3>1
  <2> QED
    BY <2>3, <2>4, <2>5
<1>8. StatePrice(base, world') = StatePrice(base, world) + d
  BY <1>1, <1>5
<1> HIDE DEF d
<1> QED
  BY <1>4, <1>5, <1>6, <1>7, <1>8, QuietGas

\* state-ops.bend.  An instruction of the running frame keeps the books of state
\* gas.
LEMMA ExecuteGas ==
  ASSUME NEW base \in WorldSet,
         IsFiniteSet(Address), GInv(base), JInv(base)', Execute
  PROVE  GInv(base)'
<1>0. /\ world \in WorldSet /\ frame.address \in Address /\ Counts(meter)
  BY Counter, Surface DEF GInv
<1>1. CASE \E a \in Address, cost \in MemoryCost : Touch(a, cost)
  <2>1. PICK a \in Address :
          /\ world' = WarmAccount(world, a) /\ parents' = parents
          /\ \E price : meter' = Charge(meter, price)
    BY <1>1 DEF Touch
  <2> QED
    BY <1>0, <2>1, WarmFree, UsedFacts, FreeGas
<1>2. CASE \E k \in Key : Sload(k)
  <2>1. PICK k \in Key :
          /\ world' = WarmStorage(world, frame.address, k) /\ parents' = parents
          /\ \E price : meter' = Charge(meter, price)
    BY <1>2 DEF Sload
  <2>2. Free(world, WarmStorage(world, frame.address, k))
    BY <1>0, TouchFree
  <2>3. meter'.used = meter.used
    BY <1>0, <2>1, UsedFacts
  <2> QED
    BY <2>1, <2>2, <2>3, FreeGas
<1>3. CASE \E k \in Key, value \in Value : Sstore(k, value)
  BY <1>3, SstoreGas
<1>4. CASE \E k \in Key, value \in Value : Tstore(k, value)
  <2>1. PICK k \in Key, value \in Value :
          /\ world' = SetTransient(world, frame.address, k, value)
          /\ meter' = Charge(meter, WarmAccess) /\ parents' = parents
    BY <1>4 DEF Tstore
  <2> QED
    BY <1>0, <2>1, TouchFree, UsedFacts, FreeGas
<1>5. CASE \E cost \in MemoryCost : Emit(cost)
  <2>1. PICK event, price :
          /\ world' = Log(world, event) /\ meter' = Charge(meter, price) /\ parents' = parents
    BY <1>5 DEF Emit
  <2>2. world'.accounts = world.accounts /\ world'.refund = world.refund
    BY <1>0, <2>1 DEF Log, WorldSet
  <2>3. Free(world, world')
    BY <2>2, FreeSame
  <2> QED
    BY <1>0, <2>1, <2>3, UsedFacts, FreeGas
<1>6. CASE UNCHANGED <<world, parents>> /\ meter'.used = meter.used
  BY <1>6, FreeSame, FreeGas
<1>7. \/ \E a \in Address, cost \in MemoryCost : Touch(a, cost)
      \/ \E k \in Key : Sload(k)
      \/ \E k \in Key, value \in Value : Sstore(k, value) \/ Tstore(k, value)
      \/ \E cost \in MemoryCost : Emit(cost)
      \/ UNCHANGED <<world, parents>> /\ meter'.used = meter.used
  <2>1. ASSUME Throw \/ Stop
        PROVE  UNCHANGED <<world, parents>> /\ meter'.used = meter.used
    BY <1>0, <2>1, UsedFacts DEF Throw, Fault, Stop
  <2>2. ASSUME \/ \E cost \in ComputeCost : Compute(cost)
               \/ \E op \in {"Returned", "Reverted"}, output \in Output, cost \in MemoryCost :
                    Exit(op, output, cost)
               \/ \E kind \in CallKind, gas \in RequestGas, target \in Address,
                      value \in Amount : AskCall(kind, gas, target, value)
        PROVE  UNCHANGED <<world, parents>> /\ meter'.used = meter.used
    <3>1. UNCHANGED <<world, parents>> /\ \E cost : meter' = Charge(meter, cost)
      BY <2>2 DEF Compute, Exit, AskCall
    <3> QED
      BY <1>0, <3>1, UsedFacts
  <2>3. ASSUME \/ \E value \in Amount : AskCreate(value)
               \/ \E target \in Address : AskSelfDestruct(target)
        PROVE  UNCHANGED <<world, parents>> /\ meter'.used = meter.used
    BY <2>3 DEF AskCreate, AskSelfDestruct
  <2> QED
    BY <2>1, <2>2, <2>3 DEF Execute
<1> QED
  BY <1>1, <1>2, <1>3, <1>4, <1>5, <1>6, <1>7

\* call-enter.bend:69-77.  To warm the target of a call is free.
LEMMA CallWorldFree ==
  ASSUME NEW base \in WorldSet, GInv(base), Calling
  PROVE  Free(world, CallWorld)
<1>0. IInv /\ world \in WorldSet /\ Request.target \in Address
  BY Surface, CallRequestType DEF GInv, IInv
<1>1. TargetWarmed \in WorldSet /\ Free(world, TargetWarmed)
  BY <1>0, WarmAccountType, WarmFree DEF TargetWarmed
<1>2. CASE Delegated(Target.code)
  <2>1. Target.code.to \in Address
    BY <1>0, <1>2, RunningTyped, DelegateType DEF Target
  <2>2. CallWorld = WarmAccount(TargetWarmed, Target.code.to)
    BY <1>2 DEF CallWorld
  <2> QED
    BY <1>1, <2>1, <2>2, WarmFree, FreeTwice
<1>3. CASE ~Delegated(Target.code)
  BY <1>1, <1>3 DEF CallWorld
<1> QED
  BY <1>2, <1>3

\* call-enter.bend:29-63.  What a call that was paid for has booked.
LEMMA CallPaidUsed ==
  ASSUME Counts(meter), NEW memory
  PROVE  /\ BirthCharged \in BOOLEAN
         /\ Counts(CallPaid(memory))
         /\ CallPaid(memory).used = meter.used + (IF BirthCharged THEN NewAccount ELSE 0)
<1> DEFINE paid == Charge(meter, memory + CallPrice)
<1>1. BirthCharged \in BOOLEAN
  BY DEF BirthCharged
<1>2. Counts(paid) /\ paid.used = meter.used
  BY UsedFacts
<1>3. CallPaid(memory) = SpendBirth(paid, BirthCharged)
  BY DEF CallPaid
<1> HIDE DEF paid
<1> QED
  BY <1>1, <1>2, <1>3, BirthUsed

\* call-enter.bend:29-63.  A refused call takes back what it booked.
LEMMA CallRefusedGas ==
  ASSUME NEW base \in WorldSet,
         IsFiniteSet(Address), GInv(base), JInv(base)', NEW memory \in MemoryCost, CallRefused(memory)
  PROVE  GInv(base)'
<1>1. Counts(meter) /\ NewAccount \in Int
  BY Counter, PricesNat
<1> DEFINE paid == CallPaid(memory)
           gas == paid.gas + CallStipend
           kept == [paid EXCEPT !.gas = gas]
<1>2. /\ meter' = RefillBirth(kept, BirthCharged)
      /\ Free(world, world') /\ parents' = parents
  BY CallWorldFree DEF CallRefused
<1>3. /\ BirthCharged \in BOOLEAN /\ Counts(paid)
      /\ paid.used = meter.used + (IF BirthCharged THEN NewAccount ELSE 0)
  BY <1>1, CallPaidUsed
<1> HIDE DEF paid, gas
<1>4. Counts(kept) /\ kept.used = paid.used
  BY <1>3, UsedFacts
<1> HIDE DEF kept
<1>5. meter'.used = kept.used - (IF BirthCharged THEN NewAccount ELSE 0)
  BY <1>2, <1>3, <1>4, BirthUsed
<1>6. meter'.used = meter.used
  BY <1>1, <1>3, <1>4, <1>5 DEF Counts
<1> QED
  BY <1>2, <1>6, FreeGas

\* call-enter.bend:29-63.  A call pays for the account that its value brings
\* to life.
LEMMA CallEnterGas ==
  ASSUME NEW base \in WorldSet,
         IsFiniteSet(Address), GInv(base), JInv(base)', NEW memory \in MemoryCost, CallEnter(memory)
  PROVE  GInv(base)'
<1>0. /\ IInv /\ Fit(base, world) /\ world \in WorldSet /\ frame.address \in Address
      /\ frame \in FrameSet /\ frame.address \in Warm(world)
      /\ Counts(meter) /\ StatePrice(base, world) \in Int /\ meter.used \in Int
  BY Counter, Surface DEF GInv
<1>1. Calling /\ CallAllowed(memory) /\ ~CallImpossible
  BY DEF CallEnter
<1>2. Request.kind \in CallKind /\ Request.target \in Address /\ Request.value \in Nat
  BY <1>0, <1>1, CallRequestType DEF IInv
<1>3. /\ CallWorld \in WorldSet /\ Tidy(LedgerOf(CallWorld)) /\ Free(world, CallWorld)
      /\ Request.target \in Warm(CallWorld) /\ frame.address \in Warm(CallWorld)
  BY <1>0, <1>1, CallWorldJournal, CallWorldFree DEF GInv
<1>4. Fit(base, CallWorld) /\ StatePrice(base, CallWorld) = StatePrice(base, world)
  BY <1>0, <1>3, SamePrice DEF Free
<1>5. /\ Living(CallWorld.accounts[frame.address])
      /\ IsEmpty(CallWorld.accounts[Request.target]) <=> IsEmpty(Target)
  <2>1. Living(world.accounts[frame.address])
    BY <1>1, AskerLives DEF Asks, Calling, Self
  <2> QED
    BY <1>0, <1>2, <1>3, <2>1 DEF Free, Careful, Fine, Grown, Target
<1> DEFINE paid == CallPaid(memory)
           limit == CallLimit(memory)
           kept == [paid EXCEPT !.gas = @ - limit, !.reservoir = 0]
           parent == [frame |-> WithAction(frame, "Running"), meter |-> kept,
                      snapshot |-> CallWorld, creation |-> FALSE,
                      charged |-> BirthCharged, created |-> Request.target]
           birth == IF BirthCharged THEN NewAccount ELSE 0
<1>6. /\ parents' = Append(parents, parent)
      /\ meter' = FreshMeter(limit + CallStipend, paid.reservoir)
  BY DEF CallEnter, Suspend
<1>7. Counts(paid) /\ paid.used = meter.used + birth
  BY <1>0, CallPaidUsed
<1>8. kept.used = paid.used
  <2> HIDE DEF paid, limit
  <2> QED
    BY <1>7 DEF Counts
<1>9. meter'.used = 0
  BY <1>6 DEF FreshMeter
<1> HIDE DEF paid, limit, kept
<1>10. /\ parent.snapshot = CallWorld /\ Due(parent) = birth
       /\ parent.meter.used = kept.used
  BY DEF Due
<1>11. birth \in Int
  BY PricesNat
<1>12. Fit(base, world') /\ StatePrice(base, world') = StatePrice(base, world) + birth
  <2>1. CASE Request.kind = "CALL"
    <3>1. Request.value <= CallWorld.accounts[frame.address].balance
      BY <1>0, <1>1, <1>2, <2>1, RunningTyped, CallWorldType DEF CallImpossible, Self
    <3>2. /\ CallWorld.accounts[frame.address].warm
          /\ CallWorld.accounts[Request.target].warm
      BY <1>3 DEF Warm
    <3>3. world' = Pay(CallWorld, frame.address, Request.target, Request.value)
      BY <2>1 DEF CallEnter
    <3>4. BirthCharged <=> /\ Request.value # 0
                           /\ IsEmpty(CallWorld.accounts[Request.target])
      BY <1>5, <2>1 DEF BirthCharged, CarriesValue
    <3> QED
      BY <1>0, <1>2, <1>3, <1>4, <1>5, <3>1, <3>2, <3>3, <3>4, PayPrice
  <2>2. CASE Request.kind # "CALL"
    <3>1. world' = CallWorld /\ ~BirthCharged
      BY <2>2 DEF CallEnter, BirthCharged
    <3> QED
      BY <1>0, <1>4, <3>1
  <2> QED
    BY <2>1, <2>2
<1> HIDE DEF parent, birth
<1> QED
  BY <1>4, <1>6, <1>7, <1>8, <1>9, <1>10, <1>11, <1>12, PushGas

\* create-enter.bend:36-38.  The snapshot of a creation costs nothing.
LEMMA CreateWorldFree ==
  ASSUME NEW base \in WorldSet, GInv(base), Living(Self), NEW target \in Address
  PROVE  Free(world, CreateWorld(target))
<1>0. /\ world \in WorldSet /\ frame.address \in Address
      /\ frame.address \in Warm(world) /\ Tidy(LedgerOf(world))
  BY Surface DEF GInv
<1> DEFINE warmed == WarmAccount(world, target)
<1>1. warmed \in WorldSet /\ Free(world, warmed) /\ LedgerOf(warmed) = LedgerOf(world)
  BY <1>0, WarmAccountType, WarmFree, WarmUnseen
<1>2. CreateWorld(target) = IncrementNonce(warmed, frame.address)
  BY DEF CreateWorld
<1> HIDE DEF warmed
<1>3. Living(warmed.accounts[frame.address]) /\ warmed.accounts[frame.address].warm
  BY <1>0, <1>1 DEF Free, Careful, Fine, Warm, Self
<1>4. Free(warmed, IncrementNonce(warmed, frame.address))
  BY <1>0, <1>1, <1>3, NonceCareful, NonceGrown DEF Free
<1> QED
  BY <1>1, <1>2, <1>4, FreeTwice

\* create-enter.bend:25-32.  A contract and its endowment cost a new account
\* where there was none.
LEMMA OpenedPrice ==
  ASSUME NEW base \in WorldSet,
         IsFiniteSet(Address), NEW w \in WorldSet, Good(base, w), Tidy(LedgerOf(w)), Fit(base, w),
         NEW source \in Address, NEW target \in Address, NEW value \in Nat,
         value <= w.accounts[source].balance, Living(w.accounts[source]),
         source \in Warm(w), target \in Warm(w), ~Collision(w.accounts[target])
  PROVE  LET v == Pay(NewContract(w, target), source, target, value)
         IN  /\ Fit(base, v)
             /\ StatePrice(base, v) = StatePrice(base, w) +
                  (IF IsEmpty(w.accounts[target]) THEN NewAccount ELSE 0)
<1> DEFINE opened == NewContract(w, target)
           v == Pay(opened, source, target, value)
<1>1. w.accounts[source].warm /\ w.accounts[target].warm /\ ~Living(w.accounts[target])
  BY DEF Warm, Collision, Living
<1>2. /\ opened \in WorldSet
      /\ \A y \in Address : opened.accounts[y].balance = w.accounts[y].balance
  BY NewContractType
<1>3. Careful(w, opened) /\ Grown(w, opened, {target})
  BY <1>1, NewContractCareful, NewContractGrown DEF Good
<1>4. Tidy(LedgerOf(opened))
  <2>1. LedgerOf(opened) = Nested!Started(LedgerOf(w), target)
    BY NewContractLedger
  <2>2. LedgerOf(w) \in [Address -> FaceSet]
    BY LedgerType
  <2> HIDE DEF opened
  <2> QED
    BY <2>1, <2>2, StartedOnward
<1> HIDE DEF opened
<1>5. StatePrice(base, w) \in Int /\ NewAccount \in Int
  BY PriceParts, PricesNat
<1>6. /\ Fit(base, opened)
      /\ StatePrice(base, opened) = StatePrice(base, w) +
           (IF IsEmpty(w.accounts[target]) THEN NewAccount ELSE 0)
  <2>1. CASE IsEmpty(w.accounts[target])
    BY <1>3, <2>1, BirthPrice
  <2>2. CASE ~IsEmpty(w.accounts[target])
    <3>1. Grown(w, opened, {})
      BY <1>3, <2>2, GrownAlready
    <3> QED
      BY <1>3, <1>5, <2>2, <3>1, SamePrice
  <2> QED
    BY <2>1, <2>2
<1>7. opened.accounts[source].warm /\ opened.accounts[target].warm
  BY <1>1, <1>3 DEF Careful, Fine
<1>8. Living(opened.accounts[source]) /\ value <= opened.accounts[source].balance
  BY <1>2, <1>3 DEF Careful, Fine
<1>9. ~IsEmpty(opened.accounts[target])
  BY <1>3 DEF Grown
<1>10. StatePrice(base, opened) \in Int
  BY <1>2, <1>6, PriceParts
<1>11. Fit(base, v) /\ StatePrice(base, v) = StatePrice(base, opened)
  BY <1>2, <1>4, <1>6, <1>7, <1>8, <1>9, <1>10, PayPrice
<1> QED
  BY <1>6, <1>11 DEF v, opened

\* create-enter.bend:20-49.  A creation pays for the account that it brings to
\* life; one that collides brings none.
LEMMA CreateEnterGas ==
  ASSUME NEW base \in WorldSet,
         IsFiniteSet(Address), GInv(base), JInv(base)', NEW cost \in MemoryCost,
         NEW target \in CreateTarget, NEW code \in InitCode, CreateEnter(cost, target, code)
  PROVE  GInv(base)'
<1>0. /\ IInv /\ Fit(base, world) /\ world \in WorldSet /\ frame.address \in Address
      /\ frame.address \in Warm(world)
      /\ Counts(meter) /\ StatePrice(base, world) \in Int /\ meter.used \in Int
  BY Counter, Surface DEF GInv
<1> DEFINE snapshot == CreateWorld(target)
           birth == CreateBirth(target)
           charged == CreateCharged(cost)
           paid == SpendBirth(charged, birth)
           taken == Cap(paid.gas)
           kept == [paid EXCEPT !.gas = @ - taken, !.reservoir = 0]
           parent == [frame |-> WithAction(frame, "Running"), meter |-> kept,
                      snapshot |-> snapshot, creation |-> TRUE,
                      charged |-> birth, created |-> target]
           due == IF birth THEN NewAccount ELSE 0
<1>1. target \in Address /\ Creating /\ ~CreateImpossible
  BY ProgramAssumption DEF CreateEnter
<1>2. /\ parents' = Append(parents, parent)
      /\ meter' \in {FreshMeter(taken, paid.reservoir), Exhaust(FreshMeter(taken, paid.reservoir))}
      /\ \/ world' = snapshot /\ Collision(snapshot.accounts[target])
         \/ /\ ~Collision(snapshot.accounts[target])
            /\ world' = Pay(NewContract(snapshot, target), frame.address, target,
                            Request.value)
  BY DEF CreateEnter, Suspend
<1>3. birth \in BOOLEAN /\ (birth <=> IsEmpty(world.accounts[target]))
  BY DEF CreateBirth, IsEmpty
<1>4. Counts(paid) /\ paid.used = meter.used + due
  <2>1. Counts(charged) /\ charged.used = meter.used
    BY <1>0, UsedFacts DEF CreateCharged
  <2> HIDE DEF charged, birth
  <2> QED
    BY <1>3, <2>1, BirthUsed
<1> HIDE DEF paid
<1>5. kept.used = paid.used
  <2> HIDE DEF taken
  <2> QED
    BY <1>4 DEF Counts
<1>6. meter'.used = 0
  BY <1>2 DEF FreshMeter, Exhaust
<1> HIDE DEF kept, taken
<1>7. /\ parent.snapshot = snapshot /\ Due(parent) = due
      /\ parent.meter.used = kept.used
  BY DEF Due
<1> HIDE DEF parent
<1>8. due \in Int
  BY PricesNat
<1>9. /\ snapshot \in WorldSet /\ Good(base, snapshot) /\ Tidy(LedgerOf(snapshot))
      /\ target \in Warm(snapshot) /\ frame.address \in Warm(snapshot)
  BY <1>0, <1>1, CreateWorldJournal DEF GInv
<1>10. Living(world.accounts[frame.address]) /\ Free(world, snapshot)
  <2>1. Living(Self)
    BY <1>1, AskerLives DEF Asks, Creating
  <2> QED
    BY <1>1, <2>1, CreateWorldFree DEF Self
<1>11. snapshot.accounts[frame.address].balance = Self.balance
  BY <1>0, <1>1, CreateWorldType
<1>12. Request.value \in Nat /\ Request.value <= Self.balance
  BY <1>0, <1>1, CreateRequestType, RunningTyped DEF IInv, CreateImpossible, Self
<1> HIDE DEF snapshot
<1>13. /\ Fit(base, snapshot) /\ StatePrice(base, snapshot) = StatePrice(base, world)
       /\ IsEmpty(snapshot.accounts[target]) <=> IsEmpty(world.accounts[target])
       /\ Living(snapshot.accounts[frame.address])
  BY <1>0, <1>1, <1>10, SamePrice DEF Free, Careful, Fine, Grown
<1>14. Fit(base, world') /\ StatePrice(base, world') = StatePrice(base, world) + due
  <2>1. CASE world' = snapshot /\ Collision(snapshot.accounts[target])
    <3>1. ~birth
      BY <1>3, <1>13, <2>1 DEF Collision, IsEmpty
    <3> QED
      BY <1>0, <1>13, <2>1, <3>1
  <2>2. CASE /\ ~Collision(snapshot.accounts[target])
             /\ world' = Pay(NewContract(snapshot, target), frame.address, target,
                             Request.value)
    BY <1>0, <1>1, <1>3, <1>9, <1>11, <1>12, <1>13, <2>2, OpenedPrice
  <2> QED
    BY <1>2, <2>1, <2>2
<1> HIDE DEF due
<1> QED
  BY <1>2, <1>4, <1>5, <1>6, <1>7, <1>8, <1>13, <1>14, PushGas

\* call-selfdestruct.bend:14-45.  A destruction pays for the account that the
\* balance brings to life.
LEMMA DestructGas ==
  ASSUME NEW base \in WorldSet,
         IsFiniteSet(Address), GInv(base), JInv(base)', Destruct
  PROVE  GInv(base)'
<1>0. /\ IInv /\ Fit(base, world) /\ world \in WorldSet /\ frame.address \in Address
      /\ frame.address \in Warm(world) /\ Good(base, world) /\ Tidy(LedgerOf(world))
      /\ Counts(meter) /\ StatePrice(base, world) \in Int /\ meter.used \in Int
  BY Counter, Surface DEF GInv
<1> DEFINE x == frame.address
           y == Request.target
           value == Self.balance
           moved == TransferLog(MoveEther(TargetWarmed, x, y, value), x, y, value)
           due == IF Topup THEN NewAccount ELSE 0
<1>1. Destroying /\ y \in Address
  BY <1>0, DestructRequestType DEF IInv, Destruct
<1>2. /\ TargetWarmed \in WorldSet /\ Free(world, TargetWarmed)
      /\ Warm(world) \subseteq Warm(TargetWarmed) /\ y \in Warm(TargetWarmed)
      /\ Tidy(LedgerOf(TargetWarmed))
      /\ TargetWarmed.accounts[x].balance = value
  BY <1>0, <1>1, WarmGood, WarmFree, WarmUnseen, WarmAccountType DEF TargetWarmed, Self
<1>3. TargetWarmed.accounts[x].warm /\ TargetWarmed.accounts[y].warm
  BY <1>0, <1>2 DEF Warm
<1>4. value \in Nat /\ value <= TargetWarmed.accounts[x].balance
  BY <1>0, <1>2, RunningTyped DEF Self
<1>5. Living(Self)
  BY <1>1, AskerLives DEF Asks, Destroying
<1>6. /\ Fit(base, TargetWarmed) /\ StatePrice(base, TargetWarmed) = StatePrice(base, world)
      /\ Living(TargetWarmed.accounts[x])
      /\ IsEmpty(TargetWarmed.accounts[y]) <=> IsEmpty(Target)
  BY <1>0, <1>1, <1>2, <1>5, SamePrice DEF Free, Careful, Fine, Grown, Self, Target
<1>7. /\ world' = Mark(moved, x) /\ parents' = parents
      /\ meter' = SpendBirth(Charge(meter, DestructPrice), Topup)
  BY DEF Destruct
<1>8. meter'.used = meter.used + due
  <2> DEFINE paid == Charge(meter, DestructPrice)
  <2>1. Counts(paid) /\ paid.used = meter.used /\ Topup \in BOOLEAN
    BY <1>0, UsedFacts DEF Topup
  <2>2. meter' = SpendBirth(paid, Topup)
    BY <1>7
  <2> HIDE DEF paid
  <2> QED
    BY <2>1, <2>2, BirthUsed
<1>9. Topup <=> value # 0 /\ IsEmpty(TargetWarmed.accounts[y])
  BY <1>6 DEF Topup
<1> HIDE DEF y, value
<1>10. moved \in WorldSet
  BY <1>0, <1>1, <1>2, <1>3, <1>4, MoveGood, WarmGood DEF TargetWarmed, y
<1>11. Fit(base, moved) /\ StatePrice(base, moved) = StatePrice(base, world) + due
  BY <1>0, <1>1, <1>2, <1>3, <1>4, <1>6, <1>9, MovePrice
<1> HIDE DEF moved
<1>12. Fit(base, world') /\ StatePrice(base, world') = StatePrice(base, moved)
  <2>1. world'.accounts = moved.accounts /\ world'.refund = moved.refund
    BY <1>7, <1>10, MarkType DEF Mark, WorldSet
  <2>2. Free(moved, world')
    BY <2>1, FreeSame
  <2> QED
    BY <1>11, <2>2, SamePrice DEF Free
<1>13. due \in Int
  BY PricesNat
<1> HIDE DEF due
<1> QED
  BY <1>7, <1>8, <1>11, <1>12, <1>13, QuietGas

\* vm.bend:34-44.  Whatever request is served, the state gas is kept.
LEMMA ServeGas ==
  ASSUME NEW base \in WorldSet, IsFiniteSet(Address), GInv(base), JInv(base)', Serve
  PROVE  GInv(base)'
<1>0. /\ IInv /\ world \in WorldSet /\ meter \in MeterSet /\ Counts(meter)
      /\ Free(world, world)
  BY Counter, FreeSame
<1>1. CASE \E memory \in MemoryCost : CallEnter(memory)
  BY <1>1, CallEnterGas
<1>2. CASE \E cost \in MemoryCost, target \in CreateTarget, code \in InitCode :
             CreateEnter(cost, target, code)
  BY <1>2, CreateEnterGas
<1>3. CASE Destruct
  BY <1>3, DestructGas
<1>4. CASE \E memory \in MemoryCost : CallRefused(memory)
  BY <1>4, CallRefusedGas
<1>5. ASSUME Fault PROVE meter'.used = meter.used
  BY <1>0, <1>5, UsedFacts DEF Fault
<1>6. CASE \E memory \in MemoryCost : CallFault(memory)
  <2>1. Calling /\ Fault /\ parents' = parents /\ world' \in {world, CallWorld}
    BY <1>6 DEF CallFault
  <2> QED
    BY <1>0, <1>5, <2>1, CallWorldFree, FreeGas
<1>7. CASE \E cost \in MemoryCost, target \in CreateTarget : CreateStateFault(cost, target)
  <2>1. PICK target \in CreateTarget :
          Fault /\ parents' = parents /\ world' = WarmAccount(world, target)
    BY <1>7 DEF CreateStateFault
  <2>2. target \in Address
    BY ProgramAssumption
  <2> QED
    BY <1>0, <1>5, <2>1, <2>2, WarmFree, FreeGas
<1>8. CASE CreateFault \/ HostRejects
  <2>1. Fault /\ UNCHANGED <<world, parents>>
    BY <1>8 DEF CreateFault, HostRejects
  <2> QED
    BY <1>0, <1>5, <2>1, FreeGas
<1>9. CASE \/ \E cost \in MemoryCost : CreateRefused(cost)
           \/ \E gas \in 0..meter.gas : HostReturns(gas)
           \/ HostBreaks
  <2>1. UNCHANGED <<world, parents>>
    BY <1>9 DEF CreateRefused, HostReturns, HostBreaks
  <2>2. ASSUME \E cost \in MemoryCost : CreateRefused(cost)
        PROVE  meter'.used = meter.used
    BY <1>0, <2>2, UsedFacts DEF CreateRefused
  <2>3. ASSUME \E gas \in 0..meter.gas : HostReturns(gas)
        PROVE  meter'.used = meter.used
    <3>1. PICK gas : meter' = [meter EXCEPT !.gas = gas]
      BY <2>3 DEF HostReturns
    <3>2. [meter EXCEPT !.gas = gas].used = meter.used
      BY <1>0 DEF MeterSet
    <3> QED
      BY <3>1, <3>2
  <2>4. meter'.used = meter.used
    BY <1>9, <2>2, <2>3 DEF HostBreaks
  <2> QED
    BY <1>0, <2>1, <2>4, FreeGas
<1>10. CASE DestructFault
  <2>1. /\ Request.target \in Address /\ Fault /\ parents' = parents
        /\ world' \in {world, WarmAccount(world, Request.target)}
    BY <1>0, <1>10, DestructRequestType DEF IInv, DestructFault, TargetWarmed
  <2> QED
    BY <1>0, <1>5, <2>1, WarmFree, FreeGas
<1> QED
  BY <1>1, <1>2, <1>3, <1>4, <1>6, <1>7, <1>8, <1>9, <1>10 DEF Serve

\* gas.bend:97-113, call-finish.bend:19-42.  What a parent has booked when it
\* resumes.
LEMMA ResumeUsed ==
  ASSUME IInv, parents # <<>>, NEW child \in MeterSet, NEW succeeded \in BOOLEAN,
         NEW childWorld, Resume(child, succeeded, childWorld)
  PROVE  /\ Waiting.meter.used \in Int /\ Due(Waiting) \in Int
         /\ succeeded => /\ world' = childWorld
                         /\ meter'.used = Waiting.meter.used + child.used
         /\ ~succeeded => /\ world' = Waiting.snapshot
                          /\ meter'.used = Waiting.meter.used - Due(Waiting)
<1> DEFINE merged == Merged(Waiting.meter, child, succeeded)
           refunded == Waiting.charged /\ ~succeeded
<1>1. Waiting.meter \in MeterSet /\ Waiting.charged \in BOOLEAN
  BY WaitingLinked DEF ParentSet
<1>2. /\ Counts(merged)
      /\ merged.used = Waiting.meter.used + (IF succeeded THEN child.used ELSE 0)
  BY <1>1, MergedUsed
<1>3. /\ meter' = RefillBirth(merged, refunded)
      /\ world' = IF succeeded THEN childWorld ELSE Waiting.snapshot
  BY DEF Resume
<1>4. refunded \in BOOLEAN
  BY <1>1
<1> HIDE DEF merged
<1>5. meter'.used = merged.used - (IF refunded THEN NewAccount ELSE 0)
  BY <1>2, <1>3, <1>4, BirthUsed
<1>6. Waiting.meter.used \in Int /\ child.used \in Int /\ NewAccount \in Int
  <2>1. \A m \in MeterSet : m.used \in Int
    BY DEF MeterSet
  <2> QED
    BY <1>1, <2>1, PricesNat
<1>7. CASE succeeded
  BY <1>2, <1>3, <1>5, <1>6, <1>7 DEF Due
<1>8. CASE ~succeeded
  BY <1>1, <1>2, <1>3, <1>5, <1>6, <1>8 DEF Due
<1> QED
  BY <1>7, <1>8

\* call-finish.bend:44-52, create-finish.bend:10-31.  A parent takes over what
\* its child has booked and the state that it left, or neither.
LEMMA UnwindGas ==
  ASSUME NEW base \in WorldSet,
         IsFiniteSet(Address), GInv(base), JInv(base)', Unwind
  PROVE  GInv(base)'
<1>0. /\ IInv /\ JInv(base) /\ LInv /\ Good(base, world) /\ world \in WorldSet /\ Fit(base, world)
      /\ meter \in MeterSet /\ Counts(meter) /\ meter.used \in Int /\ StatePrice(base, world) \in Int
      /\ Len(parents) \in Nat /\ parents \in Seq(ParentSet)
      /\ Len(parents) # 0 => parents[Len(parents)].created \in Warm(world)
  BY Counter, Surface DEF GInv
<1>1. parents # <<>> /\ parents' = Front(parents)
  BY <1>0, UnwindShape DEF Popping
<1>2. /\ Len(parents) \in 1..Len(parents) /\ Len(parents) \in Len(parents)..Len(parents)
      /\ Waiting = parents[Len(parents)] /\ Len(parents) # 0
  BY <1>0, <1>1 DEF Waiting, Last
<1>3. Settled \in MeterSet
  BY <1>0, SettledSound DEF Sound
<1>4. ASSUME ~Succeeded, Resume(Settled, FALSE, world)
      PROVE  GInv(base)'
  BY <1>0, <1>1, <1>3, <1>4, ResumeUsed, PopGas
<1>5. ASSUME Succeeded, Resume(Settled, TRUE, world)
      PROVE  GInv(base)'
  <2>1. Settled = meter
    BY <1>5 DEF Settled, Settle
  <2>2. /\ world' = world /\ meter'.used = Waiting.meter.used + meter.used
        /\ Waiting.meter.used \in Int
    BY <1>0, <1>1, <1>5, <2>1, ResumeUsed
  <2>3. /\ StatePrice(base, world') = StatePrice(base, world) + 0 /\ Fit(base, world')
        /\ meter'.used = Waiting.meter.used + meter.used + 0
    BY <1>0, <2>2
  <2> QED
    BY <1>1, <2>3, PopKept
<1>6. ASSUME Resume(Settle(Exhaust(meter), FALSE, FALSE), FALSE, world)
      PROVE  GInv(base)'
  <2>1. Sound(meter) /\ Sound(Exhaust(meter))
    BY <1>0, RunningTyped, ExhaustSound
  <2>2. Settle(Exhaust(meter), FALSE, FALSE) \in MeterSet
    BY <2>1, SettleSound DEF Sound
  <2> QED
    BY <1>0, <1>1, <1>6, <2>2, ResumeUsed, PopGas
<1>7. ASSUME Succeeded, Waiting.creation, CanDeposit(frame.output),
             Resume(Deposited(frame.output), TRUE,
                    SetCode(world, Waiting.created, frame.output))
      PROVE  GInv(base)'
  <2> DEFINE x == Waiting.created
             code == frame.output
             d == CodeByte * code.len
  <2>1. frame.action.op # "Fault"
    BY <1>7 DEF Succeeded, Successful
  <2>2. Budding(Books(Len(parents)), x)
    BY <1>0, <1>2, <1>7, <2>1 DEF LInv, Awaited
  <2>3. /\ x \in Address /\ code \in CodeSet
        /\ code.len = 0 => code = NoCode
        /\ Books(Len(parents)) = LedgerOf(world)
        /\ ~Delegated(code)
    BY <1>0, <1>1, <1>7, OnTop, WaitingLinked, RunningTyped
       DEF ParentSet, FrameSet, Proper, Canonical, CanDeposit
  <2>4. LedgerOf(world)[x] = Face(world.accounts[x])
    BY <1>0, <2>3, LedgerType
  <2>5. /\ world.accounts[x].nonce # 0 /\ world.accounts[x].code.len = 0
        /\ world.accounts[x].warm
    BY <1>0, <1>2, <2>2, <2>3, <2>4 DEF Budding, Face, Warm
  <2>6. Deposited(code) \in MeterSet
    BY <1>0, <1>7, <2>3, DepositedSound DEF Sound
  <2>7. d \in Int
    <3>1. CodeByte \in Int
      BY PricesNat
    <3>2. code.len \in Int
      BY <2>3 DEF CodeSet
    <3> QED
      BY <3>1, <3>2
  <2>8. Deposited(code).used = meter.used + d
    <3> DEFINE hashed == Charge(meter, DepositWords(code))
    <3>1. Counts(hashed) /\ hashed.used = meter.used
      BY <1>0, UsedFacts
    <3>2. Deposited(code) = SpendState(hashed, d)
      BY DEF Deposited
    <3> HIDE DEF hashed, d
    <3>3. SpendState(hashed, d).used = hashed.used + d
      BY <2>7, <3>1, UsedFacts
    <3> QED
      BY <3>1, <3>2, <3>3
  <2>9. /\ world' = SetCode(world, x, code)
        /\ meter'.used = Waiting.meter.used + Deposited(code).used
        /\ Waiting.meter.used \in Int
    BY <1>0, <1>1, <1>7, <2>6, ResumeUsed
  <2> HIDE DEF x, code
  <2>10. world' \in WorldSet /\ Careful(world, world')
    BY <1>0, <2>3, <2>5, <2>9, SetCodeType, SetCodeCareful
  <2>11. Fit(base, world') /\ StatePrice(base, world') = StatePrice(base, world) + d
    BY <1>0, <2>3, <2>5, <2>9, <2>10, DepositPrice
  <2> HIDE DEF d
  <2>12. meter'.used = Waiting.meter.used + meter.used + d
    BY <1>0, <2>7, <2>8, <2>9
  <2> QED
    BY <1>1, <2>7, <2>11, <2>12, PopKept
<1>8. CASE CallReturn
  <2>1. CASE Succeeded
    <3>1. Resume(Settled, TRUE, world)
      BY <1>8, <2>1 DEF CallReturn, Resume
    <3> QED
      BY <1>5, <2>1, <3>1
  <2>2. CASE ~Succeeded
    <3>0. Succeeded = FALSE
      BY <2>2 DEF Succeeded
    <3>1. Resume(Settled, FALSE, world)
      BY <1>8, <3>0 DEF CallReturn
    <3> QED
      BY <1>4, <2>2, <3>1
  <2> QED
    BY <2>1, <2>2
<1>9. CASE CreateReturn
  BY <1>4, <1>6, <1>7, <1>9 DEF CreateReturn
<1> QED
  BY <1>8, <1>9 DEF Unwind

\* Every step keeps the gas books.
LEMMA NextGas ==
  ASSUME NEW base \in WorldSet,
         IsFiniteSet(Address), TidyStart, GInv(base), [Next]_vars
  PROVE  GInv(base)'
<1>1. JInv(base)'
  BY NextJournal DEF GInv
<1>2. CASE Execute
  BY <1>1, <1>2, ExecuteGas
<1>3. CASE Serve
  BY <1>1, <1>3, ServeGas
<1>4. CASE Unwind
  BY <1>1, <1>4, UnwindGas
<1>5. CASE Halt \/ UNCHANGED vars
  <2>1. UNCHANGED <<meter, world, parents>>
    BY <1>5 DEF Halt, vars
  <2> QED
    BY <1>1, <2>1, FreeSame, FreeGas
<1> QED
  BY <1>2, <1>3, <1>4, <1>5 DEF Next

\* The state of a world is free as the base of its own journal.
LEMMA UntouchedPrice ==
  ASSUME NEW base \in WorldSet, IsFiniteSet(Address), Untouched(base)
  PROVE  Fit(base, base) /\ StatePrice(base, base) = 0
<1>1. Filled(base) = {} /\ Newborn(base, base) = {}
  BY DEF Filled, Newborn, Untouched
<1>2. Fit(base, base)
  BY <1>1, FS_EmptySet DEF Fit
<1>3. SumFunction(Coded(base, base)) = 0
  <2>1. \A x \in Address : base.accounts[x].code.len \in Nat
    BY DEF WorldSet, AccountSet, CodeSet
  <2>2. \A x \in Address : Coded(base, base)[x] = 0
    BY <2>1 DEF Coded
  <2>3. Coded(base, base) \in [Address -> Int]
    BY <1>2, PriceParts
  <2> QED
    BY <2>2, <2>3, SumOfZeros
<1>4. StatePrice(base, base) = 0
  <2>1. Cardinality(Filled(base)) = 0 /\ Cardinality(Newborn(base, base)) = 0
    BY <1>1, FS_EmptySet
  <2>2. /\ StatePrice(base, base) = SlotState * 0 + NewAccount * 0 + CodeByte * 0
        /\ SlotState \in Int /\ NewAccount \in Int /\ CodeByte \in Int
    BY <1>3, <2>1, PricesNat DEF StatePrice
  <2> QED
    BY <2>2
<1> QED
  BY <1>2, <1>4

\* A frame alone has booked all there is to pay for.
LEMMA AloneBooked ==
  ASSUME NEW base \in WorldSet, Len(parents) = 0, Fit(base, world),
         meter.used \in Int, meter.used = StatePrice(base, world)
  PROVE  GasBooks(base)
<1>1. Paid(0) = 0
  BY NothingPaid
<1>2. \A j \in 0..Len(parents) : After(j) = world
  BY DEF After
<1>3. \A i \in 1..Len(parents) : FALSE
  OBVIOUS
<1> QED
  BY <1>1, <1>2, <1>3 DEF GasBooks

\* Nothing has been booked when there is nothing to pay for.
LEMMA InitGasBooks ==
  ASSUME IsFiniteSet(Address), TidyStart, FreshJournal, Init
  PROVE  GInv(Start)
<1>1. /\ JInv(Start) /\ world = Start /\ Len(parents) = 0 /\ meter.used = 0
  BY InitJournal DEF Init, FreshMeter
<1>2. Start \in WorldSet /\ Untouched(Start)
  BY StartUntouched
<1>3. Fit(Start, world) /\ meter.used = StatePrice(Start, world)
  BY <1>1, <1>2, UntouchedPrice
<1>4. GasBooks(Start)
  BY <1>1, <1>2, <1>3, AloneBooked
<1> QED
  BY <1>1, <1>4 DEF GInv

\* At every moment the net state gas of all live frames is the price of the
\* state there is: slots filled, accounts brought to life and code deposited
\* are paid for once, whichever frames wrote them and however they are undone
\* (state-ops.bend:127-134, call-finish.bend:36-42, create-finish.bend:18-31).
THEOREM StateIsPaidFor ==
  ASSUME IsFiniteSet(Address), TidyStart, FreshJournal
  PROVE  Spec => []StateGasMatchesState
<1>1. GInv(Start) => StateGasMatchesState
  <2> SUFFICES ASSUME GInv(Start) PROVE StateGasMatchesState
    OBVIOUS
  <2>1. /\ meter.used + Paid(Len(parents)) = StatePrice(Start, world)
        /\ DOMAIN parents = 1..Len(parents)
    BY Counter, OnTop, ProgramAssumption
  <2>2. FilledSlots = Filled(world) /\ Born = Newborn(Start, world)
    BY DEF FilledSlots, Filled, Born, Newborn
  <2>3. CodeGrowth = SumFunction(Coded(Start, world))
    BY DEF CodeGrowth, Coded
  <2>4. NetStateGas = meter.used + Paid(Len(parents))
    BY <2>1 DEF NetStateGas, Paid, Booked
  <2> QED
    BY <2>1, <2>2, <2>3, <2>4 DEF StateGasMatchesState, StatePrice
<1>2. Init => GInv(Start)
  BY InitGasBooks
<1>3. GInv(Start) /\ [Next]_vars => GInv(Start)'
  BY NextGas, ProgramAssumption
<1> QED
  BY <1>1, <1>2, <1>3, PTL DEF Spec
=============================================================================
