------------------------------ MODULE MCNativeIo ------------------------------
(* Small instances of the native runtime's loop for TLC. *)
EXTENDS NativeIo

\* Computations that share channels, and ones that do a little of
\* everything, and ones that keep all helpers busy.
MCPrograms ==
  {[uses |-> {"spawn", "new", "send", "recv", "close"}, asks |-> 3],
   [uses |-> {"spawn", "new", "send", "recv", "close", "sleep", "file", "socket", "halt"},
    asks |-> 2],
   [uses |-> {"spawn", "file"}, asks |-> 3]}
=============================================================================
