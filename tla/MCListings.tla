---------------------------- MODULE MCListings ------------------------------
(***************************************************************************)
(* Listings with four rows, so that a walk has two pages or more.          *)
(***************************************************************************)
EXTENDS Listings, TLC

Sym == Permutations(Items)
=============================================================================
