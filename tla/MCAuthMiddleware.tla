-------------------------- MODULE MCAuthMiddleware --------------------------
(***************************************************************************)
(* AuthMiddleware with two requests and a provider that replaces key k1 by *)
(* k2 and has only keys that are not RSA in between.                       *)
(***************************************************************************)
EXTENDS AuthMiddleware, TLC

CONSTANTS k1, k2

Rotation == 0 :> {} @@ 1 :> {k1} @@ 2 :> {} @@ 3 :> {k2}

SomeTokens ==
  {[kind |-> "api", kid |-> k1, expired |-> FALSE],
   [kind |-> "api", kid |-> k2, expired |-> FALSE],
   [kind |-> "other", kid |-> k2, expired |-> FALSE],
   [kind |-> "misfit", kid |-> k1, expired |-> FALSE],
   [kind |-> "local", kid |-> NoKid, expired |-> FALSE],
   [kind |-> "local", kid |-> NoKid, expired |-> TRUE]}
=============================================================================
