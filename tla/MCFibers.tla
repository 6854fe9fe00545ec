------------------------------ MODULE MCFibers ------------------------------
(* Small instances of the JavaScript runtime's loop for TLC. *)
EXTENDS Fibers
=============================================================================
