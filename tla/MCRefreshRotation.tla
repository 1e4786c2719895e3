------------------------- MODULE MCRefreshRotation --------------------------
(***************************************************************************)
(* RefreshRotation with interchangeable requests.                          *)
(***************************************************************************)
EXTENDS RefreshRotation, TLC

Sym == Permutations(Requests)
=============================================================================
