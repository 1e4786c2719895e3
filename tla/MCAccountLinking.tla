-------------------------- MODULE MCAccountLinking --------------------------
(***************************************************************************)
(* AccountLinking on small instances: two subjects of different providers, *)
(* two addresses, two accounts.                                            *)
(***************************************************************************)
EXTENDS AccountLinking, TLC

CONSTANTS g1, g2, e1, e2, p1, p2

OwnProvider == [s \in Subjects |-> s]
\* The first subject changes its address; the second shares one of them.
Moving == {<<g1, e1>>, <<g1, e2>>, <<g2, e1>>}
FirstAddress == {<<e1, p1>>}
Sym == Permutations(Requests)
=============================================================================
