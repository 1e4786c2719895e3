----------------------------- MODULE MCChatRoom -----------------------------
(***************************************************************************)
(* ChatRoom on a small instance: two connections of one channel.           *)
(***************************************************************************)
EXTENDS ChatRoom, TLC

CONSTANTS a, b, ch1

SameChannel  == [x \in Conns |-> ch1]
OnlyA        == [x \in Conns |-> IF x = a THEN 1 ELSE 0]
AAndB        == [x \in Conns |-> 1]
ATwiceBOnce  == [x \in Conns |-> IF x = a THEN 2 ELSE 1]
=============================================================================
