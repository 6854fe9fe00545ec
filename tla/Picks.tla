-------------------------------- MODULE Picks --------------------------------
(* How both event loops divide the activations they park: those to resume, *)
(* and those that go on waiting, each in the order they came.              *)
EXTENDS Integers, Sequences

\* The entries of s at the positions of I, in their order.
Picked(s, I) ==
  LET upto[i \in 0..Len(s)] == IF i = 0 THEN <<>>
                               ELSE IF i \in I THEN Append(upto[i - 1], s[i])
                               ELSE upto[i - 1]
  IN upto[Len(s)]
=============================================================================
