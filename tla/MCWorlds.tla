------------------------------ MODULE MCWorlds ------------------------------
(***************************************************************************)
(* The accounts of the small instances that TLC checks.                    *)
(***************************************************************************)
EXTENDS VmProperties

CONSTANTS a,      \* a contract with ether, the entry of every run
          b,      \* a second contract, without ether
          d,      \* an account that delegates its code to b (EIP-7702)
          e,      \* an account that does not exist yet, a creation target
          p       \* a precompile

Plaincode(n) == [len |-> n, ef |-> FALSE, to |-> NoAddress]
Designator(x) == [len |-> 1, ef |-> TRUE, to |-> x]
Reserved == [len |-> 1, ef |-> TRUE, to |-> NoAddress]

Slots(v) == [k \in Key |-> v]

MCAccount(balance, nonce, code, slot, warm) ==
  [balance |-> balance, nonce |-> nonce, code |-> code,
   storage |-> Slots(slot), original |-> Slots(slot), transient |-> Slots(0),
   warm |-> warm, exists |-> balance + nonce + code.len > 0, created |-> FALSE,
   slots |-> {}]

Absent(warm) == MCAccount(0, 0, NoCode, 0, warm)

MCWorld(accounts) ==
  [accounts |-> [x \in Address |-> accounts[x]],
   logs |-> <<>>, refund |-> 0, selfdestructs |-> <<>>]

\* The contract a has a slot that was empty, b one that was not.
MCStart ==
  MCWorld((a :> MCAccount(1, 1, Plaincode(1), 0, TRUE)) @@
          (b :> MCAccount(0, 1, Plaincode(1), 1, FALSE)) @@
          (d :> MCAccount(1, 1, Designator(b), 0, FALSE)) @@
          (e :> Absent(FALSE)) @@
          (p :> Absent(TRUE)))

MCOutput == {NoCode, Plaincode(1), Reserved}
MCInit == {NoCode, Plaincode(1)}
MCNoOutput == {NoCode}
MCNoInit == {}
=============================================================================
