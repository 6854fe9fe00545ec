------------------------------- MODULE MCSched ------------------------------
(* Small programs, and a bag of four rows, for TLC.                        *)
EXTENDS Sched

CONSTANT none

\* Program 1 forks 2 and 3 and goes on as 4; 3 forks 5 and 6 and goes on as 7,
\* which forks 8 and 9 and goes on as 10.  Program 11 calls 12, which forks 13
\* and 14 and goes on as 15.  Program 16 does not fork.  Program 17 forks 18
\* and 19 and goes on as 20; 18 forks the nine from 21 on, more than the
\* first column has slots for.
MCTask == 1..30
MCKids == [t \in MCTask |->
  CASE t = 1 -> <<2, 3>> [] t = 3 -> <<5, 6>> [] t = 7 -> <<8, 9>>
    [] t = 12 -> <<13, 14>> [] t = 17 -> <<18, 19>>
    [] t = 18 -> [i \in 1..9 |-> 20 + i] [] OTHER -> <<>>]
MCThen == [t \in MCTask |->
  CASE t = 1 -> 4 [] t = 3 -> 7 [] t = 7 -> 10 [] t = 11 -> 12 [] t = 12 -> 15
    [] t = 17 -> 20 [] t = 18 -> 30 [] OTHER -> none]
MCCont == [t \in MCTask |->
  CASE t \in {2, 3, 7, 10} -> 1 [] t \in {5, 6} -> 3 [] t \in {8, 9} -> 7
    [] t \in {13, 14} -> 12 [] t \in {18, 19, 30} -> 17 [] t \in 21..29 -> 18
    [] OTHER -> none]
=============================================================================
