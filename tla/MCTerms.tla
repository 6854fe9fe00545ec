------------------------------- MODULE MCTerms ------------------------------
(* A small heap with small generations, and programs that fill it, for TLC. *)
EXTENDS Terms

CONSTANTS host1, host2, dev1

MCHost == {host1, host2}
MCDevice == {dev1}

Begin(a, b, d) == (host1 :> a) @@ (host2 :> b) @@ (dev1 :> d)

\* Two lanes share a node of a node.
Shares == Begin(<<<<"new", 0>>, <<"new", 1>>, <<"keep">>, <<"give", host2>>>>, <<>>, <<>>)
\* An array of four, all the same node, and a copy of it.
Array == Begin(<<<<"new", 0>>, <<"fill", 1, 2>>, <<"clone">>, <<"give", host2>>>>, <<>>, <<>>)
\* One lane's slots all freed, to be used by another.
Frees == Begin(<<<<"new", 0>>, <<"new", 0>>, <<"new", 2>>, <<"drop">>, <<"new", 0>>, <<"new", 1>>,
                 <<"drop">>>>, <<>>, <<>>)
\* A kernel that gets an array and a node, and leaves one node behind.
Kernel == Begin(<<<<"new", 0>>, <<"keep">>, <<"fill", 1, 1>>, <<"give", dev1>>, <<"give", dev1>>>>, <<>>,
                <<<<"keep">>, <<"new", 2>>, <<"give", host2>>, <<"drop">>>>)
\* One lane's generations reach the bank, another lane takes them.
Passes == Begin(<<<<"new", 0>>, <<"keep">>, <<"new", 2>>, <<"give", host2>>, <<"new", 0>>, <<"drop">>>>,
                <<<<"take">>, <<"drop">>, <<"drop">>, <<"new", 0>>, <<"keep">>>>, <<>>)
\* A node of nodes, shared by all its fields, that both lanes open or drop.
Races == Begin(<<<<"new", 0>>, <<"keep">>, <<"new", 2>>, <<"keep">>, <<"give", host2>>, <<"take">>, <<"drop">>>>,
               <<<<"take">>, <<"take">>>>, <<>>)
MCPrograms == {Shares, Array, Frees, Kernel, Passes, Races}
=============================================================================
