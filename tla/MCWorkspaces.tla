---------------------------- MODULE MCWorkspaces ----------------------------
(***************************************************************************)
(* Workspaces, small instances: requests and values are interchangeable.   *)
(***************************************************************************)
EXTENDS Workspaces, TLC

Sym == Permutations(Requests) \cup Permutations(Values)
=============================================================================
