--------------------------- MODULE MCInvitations ----------------------------
(***************************************************************************)
(* Invitations on small instances: requests and users are interchangeable. *)
(***************************************************************************)
EXTENDS Invitations, TLC

Sym == Permutations(Requests) \cup Permutations(Users)
=============================================================================
