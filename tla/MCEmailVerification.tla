------------------------- MODULE MCEmailVerification ------------------------
(***************************************************************************)
(* EmailVerification on small instances: the requests are interchangeable. *)
(***************************************************************************)
EXTENDS EmailVerification, TLC

Sym == Permutations(Requests)
=============================================================================
