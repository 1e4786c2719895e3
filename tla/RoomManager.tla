---------------------------- MODULE RoomManager -----------------------------
(***************************************************************************)
(* The sharded room manager of service/chat/room_manager.go: Join, Leave,  *)
(* List and Count of roomManager.  A channel belongs to one shard; a shard *)
(* has an RWMutex and a Go map from its channels to rooms, and a room is a *)
(* Go map itself, which the map of the shard only refers to: who has       *)
(* looked a room up goes on with that room even if another goroutine takes *)
(* it out of the shard's map.  (The server does not use the manager yet;   *)
(* ChatService has a map and a mutex of its own.)                          *)
(***************************************************************************)
CONSTANTS Procs,     \* the goroutines that call
          Channels,  \* the channels
          Conns,     \* the connections, by id
          Maps,      \* the room maps that can be allocated
          shardFor   \* shardFor[ch]: the shard of channel ch

VARIABLES
  rooms,    \* rooms[s][ch]: {m} if the map of shard s has room m for ch, else {}
  members,  \* members[m]: the connections in room m
  writer,   \* writer[s]: who has locked shard s
  readers,  \* readers[s]: who has read-locked shard s
  pc,       \* pc[p]: where p is in its call
  room,     \* room[p]: {m} if p has looked up room m, else {}
  call,     \* call[p]: the call p makes, or made last
  answer    \* answer[p]: what p's last List or Count saw

vars == <<rooms, members, writer, readers, pc, room, call, answer>>

Shards == {shardFor[ch] : ch \in Channels}
Call == [op : {"Join", "Leave", "List", "Count"}, ch : Channels, conn : Conns]
States == {"idle", "lock", "find", "put", "delete", "clean", "read", "unlock"}

Shard(p) == shardFor[call[p].ch]
Found(p) == rooms[Shard(p)][call[p].ch]
Goto(p, s) == pc' = [pc EXCEPT ![p] = s]
SetKey(p, S) == rooms' = [rooms EXCEPT ![Shard(p)][call[p].ch] = S]
\* The room that p has looked up gets the members S.
SetRoom(p, S) == members' = [m \in Maps |-> IF m \in room[p] THEN S ELSE members[m]]
Members(p) == UNION {members[m] : m \in room[p]}

Init == /\ rooms = [s \in Shards |-> [ch \in Channels |-> {}]]
        /\ members = [m \in Maps |-> {}]
        /\ writer = [s \in Shards |-> {}]
        /\ readers = [s \in Shards |-> {}]
        /\ pc = [p \in Procs |-> "idle"]
        /\ room = [p \in Procs |-> {}]
        /\ call \in [Procs -> Call]
        /\ answer = [p \in Procs |-> {}]

\* A goroutine calls; nil for a connection is refused at once.
Invoke(p, k) ==
  /\ pc[p] = "idle"
  /\ call' = [call EXCEPT ![p] = k]
  /\ Goto(p, "lock")
  /\ UNCHANGED <<rooms, members, writer, readers, room, answer>>

\* Join and Leave lock the shard, List and Count lock it for reading.
Lock(p) ==
  /\ pc[p] = "lock" /\ call[p].op \in {"Join", "Leave"}
  /\ writer[Shard(p)] = {} /\ readers[Shard(p)] = {}
  /\ writer' = [writer EXCEPT ![Shard(p)] = {p}]
  /\ Goto(p, "find")
  /\ UNCHANGED <<rooms, members, readers, room, call, answer>>

RLock(p) ==
  /\ pc[p] = "lock" /\ call[p].op \in {"List", "Count"}
  /\ writer[Shard(p)] = {}
  /\ readers' = [readers EXCEPT ![Shard(p)] = @ \cup {p}]
  /\ Goto(p, "find")
  /\ UNCHANGED <<rooms, members, writer, room, call, answer>>

-----------------------------------------------------------------------------
\* The room is in the map of the shard ...
Find(p) ==
  /\ pc[p] = "find" /\ Found(p) # {}
  /\ room' = [room EXCEPT ![p] = Found(p)]
  /\ \/ call[p].op = "Join" /\ Goto(p, "put")
     \/ call[p].op = "Leave" /\ Goto(p, "delete")
     \/ call[p].op \in {"List", "Count"} /\ Goto(p, "read")
  /\ UNCHANGED <<rooms, members, writer, readers, call, answer>>

\* ... or not: Join makes a room that nobody has ...
Unused(m) == /\ \A s \in Shards, ch \in Channels : m \notin rooms[s][ch]
             /\ \A p \in Procs : m \notin room[p]
MakeRoom(p) ==
  /\ pc[p] = "find" /\ Found(p) = {} /\ call[p].op = "Join"
  /\ \E m \in Maps :
       /\ Unused(m)
       /\ members' = [members EXCEPT ![m] = {}]
       /\ SetKey(p, {m})
       /\ room' = [room EXCEPT ![p] = {m}]
  /\ Goto(p, "put")
  /\ UNCHANGED <<writer, readers, call, answer>>

\* ... and the others return, List and Count with nothing.
NotFound(p) ==
  /\ pc[p] = "find" /\ Found(p) = {} /\ call[p].op # "Join"
  /\ answer' = IF call[p].op = "Leave" THEN answer ELSE [answer EXCEPT ![p] = {}]
  /\ Goto(p, "unlock")
  /\ UNCHANGED <<rooms, members, writer, readers, room, call>>

\* Join puts the connection into the room.
Put(p) ==
  /\ pc[p] = "put"
  /\ SetRoom(p, Members(p) \cup {call[p].conn})
  /\ Goto(p, "unlock")
  /\ UNCHANGED <<rooms, writer, readers, room, call, answer>>

\* Leave takes it out, and the room with it if it is empty.
Delete(p) ==
  /\ pc[p] = "delete"
  /\ SetRoom(p, Members(p) \ {call[p].conn})
  /\ Goto(p, "clean")
  /\ UNCHANGED <<rooms, writer, readers, room, call, answer>>

Clean(p) ==
  /\ pc[p] = "clean"
  /\ IF Members(p) = {} THEN SetKey(p, {}) ELSE UNCHANGED rooms
  /\ Goto(p, "unlock")
  /\ UNCHANGED <<members, writer, readers, room, call, answer>>

\* List copies the room, Count takes its size.
Read(p) ==
  /\ pc[p] = "read"
  /\ answer' = [answer EXCEPT ![p] = Members(p)]
  /\ Goto(p, "unlock")
  /\ UNCHANGED <<rooms, members, writer, readers, room, call>>

\* The deferred unlock; the call returns.
Unlock(p) ==
  /\ pc[p] = "unlock"
  /\ writer' = [writer EXCEPT ![Shard(p)] = @ \ {p}]
  /\ readers' = [readers EXCEPT ![Shard(p)] = @ \ {p}]
  /\ room' = [room EXCEPT ![p] = {}]
  /\ Goto(p, "idle")
  /\ UNCHANGED <<rooms, members, call, answer>>

Step(p) == \/ Lock(p) \/ RLock(p) \/ Find(p) \/ MakeRoom(p) \/ NotFound(p)
           \/ Put(p) \/ Delete(p) \/ Clean(p) \/ Read(p) \/ Unlock(p)
Next == \E p \in Procs : Step(p) \/ \E k \in Call : Invoke(p, k)

Spec == Init /\ [][Next]_vars
-----------------------------------------------------------------------------
TypeOK ==
  /\ rooms \in [Shards -> [Channels -> SUBSET Maps]]
  /\ members \in [Maps -> SUBSET Conns]
  /\ writer \in [Shards -> SUBSET Procs] /\ readers \in [Shards -> SUBSET Procs]
  /\ pc \in [Procs -> States]
  /\ room \in [Procs -> SUBSET Maps]
  /\ call \in [Procs -> Call]
  /\ answer \in [Procs -> SUBSET Conns]

\* No room is left behind empty: every room in a map has members, except
\* while the goroutine that has just made or emptied it holds the shard.
NoEmptyRooms ==
  \A ch \in Channels : \A m \in rooms[shardFor[ch]][ch] :
    members[m] = {} => \E p \in writer[shardFor[ch]] : pc[p] \in {"put", "clean"}

\* The manager is one index with atomic calls, whatever the shards
\* (room_manager.go:20-23, "a local, per-node membership index").
Subscribed(ch) == UNION {members[m] : m \in rooms[shardFor[ch]][ch]}
Phase(p) == IF pc[p] = "idle" THEN "idle"
            ELSE IF pc[p] \in {"clean", "unlock"} THEN "applied" ELSE "called"
Index == INSTANCE RoomIndex WITH index <- [ch \in Channels |-> Subscribed(ch)],
                                 phase <- [p \in Procs |-> Phase(p)]
ImplementsIndex == Index!Spec
=============================================================================
