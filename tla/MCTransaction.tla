---------------------------- MODULE MCTransaction ----------------------------
(***************************************************************************)
(* Small instances of a whole transaction for TLC.                         *)
(***************************************************************************)
EXTENDS Transaction, MCWorlds

CONSTANTS s,      \* the sender
          c       \* the coinbase, absent

\* The sender has no code yet; the slot of the contract b is not empty.
MCTxStart ==
  MCWorld((s :> MCAccount(100, 1, NoCode, 0, FALSE)) @@
          (c :> Absent(FALSE)) @@
          (b :> MCAccount(0, 1, Plaincode(1), 1, FALSE)) @@
          (e :> Absent(FALSE)) @@
          (p :> Absent(FALSE)))

Signed(authority, address, nonce) ==
  [valid |-> TRUE, authority |-> authority, address |-> address, nonce |-> nonce]

\* None; a designation for an absent account; one set and cleared; one by the
\* sender, whose nonce is already spent; and one with a bad signature.
MCAuthLists ==
  {<<>>,
   <<Signed(e, b, 0)>>,
   <<Signed(e, b, 0), Signed(e, NoAddress, 1)>>,
   <<Signed(s, p, 2), Signed(s, b, 1)>>,
   <<[Signed(e, b, 0) EXCEPT !.valid = FALSE], Signed(s, b, 2)>>}

MCNoAuthLists == {<<>>}

MCNoAccess == {{}}
MCAccess == {{}, {<<b, 1>>}}

MCCost == {[execution |-> 2, floor |-> 3]}
MCCosts == {[execution |-> 2, floor |-> 3], [execution |-> 1, floor |-> 12]}

\* The hypotheses of the theorems hold of these instances.
ASSUME StartAssumption == TidyStart /\ PrunedStart /\ IsFiniteSet(Address)
=============================================================================
