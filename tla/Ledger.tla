------------------------------- MODULE Ledger -------------------------------
(***************************************************************************)
(* What the call machine promises of the persistent state: a ledger of     *)
(* accounts and a stack of nested transactions over it.  Opening one saves *)
(* the ledger to come back to; committing keeps what was done since;       *)
(* aborting restores exactly what was saved.  Between, work touches one    *)
(* account's storage or moves ether between two accounts.                  *)
(***************************************************************************)
EXTENDS Integers, Sequences, SequencesExt

CONSTANTS Address, Key, Genesis

VARIABLES ledger,     \* [Address -> [balance, nonce, code, storage]]
          pending     \* the saved ledgers, the innermost last

lvars == <<ledger, pending>>

Init == ledger = Genesis /\ pending = <<>>

\* Ledgers that agree on every account but those of a set.
AgreeOutside(l, m, accounts) == \A a \in Address \ accounts : l[a] = m[a]

Write ==
  /\ \E a \in Address :
       /\ AgreeOutside(ledger, ledger', {a})
       /\ ledger'[a] = [ledger[a] EXCEPT !.storage = ledger'[a].storage]
  /\ UNCHANGED pending

\* Moves an amount from a to b (possibly the same account).
Moved(before, after, a, b) ==
  \E amount \in 0..before[a].balance :
    after = [[before EXCEPT ![a].balance = @ - amount] EXCEPT ![b].balance = @ + amount]

Move ==
  /\ \E a, b \in Address : Moved(ledger, ledger', a, b)
  /\ UNCHANGED pending

\* A call saves the ledger and may pay the callee.
OpenCall ==
  /\ pending' = Append(pending, ledger)
  /\ \E a, b \in Address : Moved(ledger, ledger', a, b)

\* A creation saves the ledger with the creator's nonce already spent, so an
\* abort does not give it back, then starts a contract where there was none;
\* or does nothing more, if there was one.
Spent(a) == [ledger EXCEPT ![a].nonce = @ + 1]

Started(l, b) ==
  [l EXCEPT ![b].nonce = 1, ![b].storage = [k \in Key |-> 0]]

OpenCreation ==
  \E a, b \in Address :
    /\ pending' = Append(pending, Spent(a))
    /\ \/ ledger' = Spent(a)
       \/ /\ ledger[b].nonce = 0
          /\ ledger[b].code.len = 0
          /\ Moved(Started(Spent(a), b), ledger', a, b)

\* A commit may deposit the code of one contract that had none.
Commit ==
  /\ pending # <<>>
  /\ pending' = Front(pending)
  /\ \/ ledger' = ledger
     \/ \E b \in Address :
          /\ Last(pending)[b].nonce = 0
          /\ ledger[b].code.len = 0
          /\ AgreeOutside(ledger, ledger', {b})
          /\ ledger'[b] = [ledger[b] EXCEPT !.code = ledger'[b].code]

Abort ==
  /\ pending # <<>>
  /\ pending' = Front(pending)
  /\ ledger' = Last(pending)

Next == Write \/ Move \/ OpenCall \/ OpenCreation \/ Commit \/ Abort

Spec == Init /\ [][Next]_lvars
=============================================================================
