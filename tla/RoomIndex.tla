----------------------------- MODULE RoomIndex ------------------------------
(***************************************************************************)
(* What IRoomManager promises the goroutines that call it: one index of    *)
(* the connections subscribed to each channel, on which every call takes   *)
(* effect at one moment between its invocation and its return.             *)
(*                                                                         *)
(* RoomManager (service/chat/room_manager.go) implements this module.      *)
(***************************************************************************)
CONSTANTS Procs,     \* the goroutines that call
          Channels,  \* the channels
          Conns      \* the connections, by id

VARIABLES index,     \* index[ch]: the connections subscribed to channel ch
          phase,     \* phase[p]: "idle", "called" or "applied"
          call,      \* call[p]: the call p makes, or made last
          answer     \* answer[p]: what p's last List or Count saw

vars == <<index, phase, call, answer>>

Call == [op : {"Join", "Leave", "List", "Count"}, ch : Channels, conn : Conns]

Init == /\ index = [ch \in Channels |-> {}]
        /\ phase = [p \in Procs |-> "idle"]
        /\ call \in [Procs -> Call]
        /\ answer = [p \in Procs |-> {}]

Invoke(p, k) ==
  /\ phase[p] = "idle"
  /\ phase' = [phase EXCEPT ![p] = "called"]
  /\ call' = [call EXCEPT ![p] = k]
  /\ UNCHANGED <<index, answer>>

\* The call takes effect.
Apply(p) ==
  /\ phase[p] = "called"
  /\ phase' = [phase EXCEPT ![p] = "applied"]
  /\ LET k == call[p] IN
     \/ /\ k.op = "Join"
        /\ index' = [index EXCEPT ![k.ch] = @ \cup {k.conn}]
        /\ UNCHANGED answer
     \/ /\ k.op = "Leave"
        /\ index' = [index EXCEPT ![k.ch] = @ \ {k.conn}]
        /\ UNCHANGED answer
     \/ /\ k.op \in {"List", "Count"}
        /\ answer' = [answer EXCEPT ![p] = index[k.ch]]
        /\ UNCHANGED index
  /\ UNCHANGED call

Return(p) ==
  /\ phase[p] = "applied"
  /\ phase' = [phase EXCEPT ![p] = "idle"]
  /\ UNCHANGED <<index, call, answer>>

Next == \E p \in Procs : Apply(p) \/ Return(p) \/ \E k \in Call : Invoke(p, k)

Spec == Init /\ [][Next]_vars
=============================================================================
