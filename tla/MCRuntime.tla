------------------------------ MODULE MCRuntime ------------------------------
(***************************************************************************)
(* Small instances of the run loop for TLC.                                *)
(***************************************************************************)
EXTENDS Runtime, MCWorlds

\* The callee b is warm, as a transaction leaves it.
MCRunStart == WarmAccount(MCStart, b)

\* The hypotheses of the theorems hold of these instances.
ASSUME StartAssumption ==
  FreshStart /\ TidyStart /\ FreshJournal /\ IsFiniteSet(Address) /\ Metered
=============================================================================
