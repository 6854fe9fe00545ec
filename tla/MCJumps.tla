------------------------------- MODULE MCJumps -------------------------------
(***************************************************************************)
(* All codes up to a length over the bytes where the analyses can differ.  *)
(***************************************************************************)
EXTENDS Jumps

\* STOP, ADD, JUMP (an immediate of DUPN but not of EXCHANGE), JUMPI,
\* JUMPDEST, PUSH1, PUSH2, DUPN, EXCHANGE.
MCByte == {0, 1, 86, 87, 91, 96, 97, 230, 232}
=============================================================================
