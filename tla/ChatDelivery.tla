---------------------------- MODULE ChatDelivery ----------------------------
(***************************************************************************)
(* What the channel chat promises its clients, without rooms, locks,       *)
(* sockets or failures: a client posts messages one after the other, and   *)
(* every client's inbox is a sequence of whole messages of its own         *)
(* channel, each at most once, those of one sender in the order that       *)
(* sender posted them.  Nothing is promised about the relative order of    *)
(* two senders, and a message may be missed (a client that is not in the   *)
(* room, or whose connection fails, does not get it).                      *)
(*                                                                         *)
(* ChatRoom (chat_service.go and chat_handler.go) implements this module.  *)
(***************************************************************************)
EXTENDS Naturals, Sequences

CONSTANTS Conns,      \* the WebSocket connections
          ChannelOf   \* the channel each connection is opened on

VARIABLES posted,     \* posted[c]: how many messages c has posted
          inbox       \* inbox[c]: the messages c has received, oldest first

vars == <<posted, inbox>>

Message == Conns \X (Nat \ {0})

Init == /\ posted = [c \in Conns |-> 0]
        /\ inbox = [c \in Conns |-> <<>>]

Post(s) == /\ posted' = [posted EXCEPT ![s] = @ + 1]
           /\ UNCHANGED inbox

\* Only the sender's newest message is ever in flight, because the handler
\* of a connection finishes one broadcast before it reads the next frame.
Deliver(s, d) ==
  /\ ChannelOf[s] = ChannelOf[d]
  /\ posted[s] > 0
  /\ \A i \in 1..Len(inbox[d]) : inbox[d][i][1] = s => inbox[d][i][2] < posted[s]
  /\ inbox' = [inbox EXCEPT ![d] = Append(@, <<s, posted[s]>>)]
  /\ UNCHANGED posted

Next == \/ \E s \in Conns : Post(s)
        \/ \E s, d \in Conns : Deliver(s, d)

Spec == Init /\ [][Next]_vars
=============================================================================
