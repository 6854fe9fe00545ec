-------------------------------- MODULE MCVm --------------------------------
(***************************************************************************)
(* Small instances of the call machine for TLC.                            *)
(***************************************************************************)
EXTENDS MCWorlds

\* The hypotheses of the theorems hold of these instances.
ASSUME StartAssumption ==
  FreshStart /\ TidyStart /\ FreshJournal /\ IsFiniteSet(Address)
=============================================================================
