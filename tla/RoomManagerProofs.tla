------------------------- MODULE RoomManagerProofs --------------------------
(***************************************************************************)
(* RoomManager implements RoomIndex for all goroutines, channels and       *)
(* connections and for every assignment of channels to shards.             *)
(***************************************************************************)
EXTENDS RoomManager, TLAPS

\* Where a goroutine holds a lock of its shard, and where it has a room.
InSection == {"find", "put", "delete", "clean", "read", "unlock"}
HasRoom == {"put", "delete", "clean", "read"}
Writes(p) == call[p].op \in {"Join", "Leave"}
Key(ch) == rooms[shardFor[ch]][ch]

\* A writer is alone in its shard.
LockInv ==
  \A p \in Procs : pc[p] \in InSection =>
    /\ Writes(p) => writer[Shard(p)] = {p} /\ readers[Shard(p)] = {}
    /\ ~Writes(p) => writer[Shard(p)] = {} /\ p \in readers[Shard(p)]
OpInv ==
  \A p \in Procs : /\ pc[p] = "put" => call[p].op = "Join"
                   /\ pc[p] \in {"delete", "clean"} => call[p].op = "Leave"
                   /\ pc[p] = "read" => call[p].op \in {"List", "Count"}
\* A channel has at most one room, and no two channels share one.
RoomInv ==
  /\ \A ch \in Channels : \A m, n \in Key(ch) : m = n
  /\ \A ch, dh \in Channels : ch # dh => Key(ch) \cap Key(dh) = {}
\* The room a goroutine has looked up is still the room of its channel.
HeldInv == \A p \in Procs : pc[p] \in HasRoom => room[p] # {} /\ room[p] = Found(p)
\* An empty room is the room of somebody about to fill or to remove it.
EmptyInv ==
  \A ch \in Channels : \A m \in Key(ch) :
    members[m] = {} => \E p \in Procs : pc[p] \in {"put", "clean"} /\ m \in room[p]

CtlInv == TypeOK /\ LockInv /\ OpInv
IndInv == CtlInv /\ RoomInv /\ HeldInv /\ EmptyInv

LEMMA CallType ==
  ASSUME TypeOK, NEW p \in Procs
  PROVE  /\ call[p].op \in {"Join", "Leave", "List", "Count"}
         /\ call[p].ch \in Channels /\ call[p].conn \in Conns /\ Shard(p) \in Shards
  BY DEF TypeOK, Call, Shard, Shards

\* Two goroutines are in the sections of one shard only if both read.
LEMMA Exclusion ==
  ASSUME CtlInv, NEW p \in Procs, NEW q \in Procs, p # q, Writes(p),
         pc[p] \in InSection, pc[q] \in InSection
  PROVE  Shard(p) # Shard(q) /\ call[p].ch # call[q].ch
<1>1. Shard(p) # Shard(q)
  BY Zenon DEF CtlInv, LockInv
<1>2. QED
  BY <1>1 DEF Shard

LEMMA SetKeyLemma ==
  ASSUME TypeOK, NEW p \in Procs, NEW S \in SUBSET Maps, SetKey(p, S)
  PROVE  /\ rooms' \in [Shards -> [Channels -> SUBSET Maps]]
         /\ \A ch \in Channels : Key(ch)' = IF ch = call[p].ch THEN S ELSE Key(ch)
<1>1. Shard(p) \in Shards /\ call[p].ch \in Channels /\ Shard(p) = shardFor[call[p].ch]
  BY CallType DEF Shard
<1>2. rooms \in [Shards -> [Channels -> SUBSET Maps]]
  BY DEF TypeOK
<1>3. rooms' = [rooms EXCEPT ![Shard(p)] = [rooms[Shard(p)] EXCEPT ![call[p].ch] = S]]
  BY <1>1, <1>2 DEF SetKey
<1>4. \A ch \in Channels : shardFor[ch] \in Shards
  BY DEF Shards
<1> QED
  BY <1>1, <1>2, <1>3, <1>4 DEF Key

-----------------------------------------------------------------------------
LEMMA CtlInit == Init => CtlInv
  BY DEF Init, CtlInv, TypeOK, LockInv, OpInv, InSection, States

LEMMA CtlNext == CtlInv /\ [Next]_vars => CtlInv'
<1> SUFFICES ASSUME CtlInv, [Next]_vars PROVE CtlInv'
  OBVIOUS
<1>0. TypeOK /\ LockInv /\ OpInv
  BY DEF CtlInv
<1> USE DEF Goto
<1>1. ASSUME NEW p \in Procs, NEW k \in Call, Invoke(p, k) PROVE CtlInv'
  <2>1. TypeOK'
    BY <1>0, <1>1 DEF TypeOK, Invoke, States
  <2>2. LockInv' /\ OpInv'
    BY <1>0, <1>1 DEF TypeOK, LockInv, OpInv, Invoke, InSection, Writes, Shard
  <2> QED
    BY <2>1, <2>2 DEF CtlInv
<1>2. ASSUME NEW p \in Procs, Lock(p) PROVE CtlInv'
  <2>1. TypeOK'
    BY <1>0, <1>2 DEF TypeOK, Lock, States
  <2>2. Shard(p) \in Shards
    BY <1>0, CallType
  <2>3. OpInv'
    BY <1>0, <1>2 DEF TypeOK, OpInv, Lock
  <2>4. ASSUME NEW q \in Procs, pc'[q] \in InSection
        PROVE  /\ Writes(q)' => (writer[Shard(q)] = {q} /\ readers[Shard(q)] = {})'
               /\ ~Writes(q)' => (writer[Shard(q)] = {} /\ q \in readers[Shard(q)])'
    <3>1. call' = call /\ readers' = readers /\ Shard(q) \in Shards
      BY <1>0, <1>2, CallType DEF Lock
    <3>2. /\ Shard(q) = Shard(p) => writer'[Shard(q)] = {p}
          /\ Shard(q) # Shard(p) => writer'[Shard(q)] = writer[Shard(q)]
      BY <1>0, <1>2, <2>2, <3>1 DEF Lock, TypeOK
    <3>3. CASE q = p
      BY <1>2, <3>1, <3>2, <3>3 DEF Lock, Writes, Shard
    <3>4. CASE q # p
      <4>1. pc[q] \in InSection
        BY <1>0, <1>2, <2>4, <3>4 DEF TypeOK, Lock
      <4>2. /\ Writes(q) => writer[Shard(q)] = {q} /\ readers[Shard(q)] = {}
            /\ ~Writes(q) => writer[Shard(q)] = {} /\ q \in readers[Shard(q)]
        BY <1>0, <4>1 DEF LockInv
      <4>3. Shard(q) # Shard(p)
        BY <1>2, <4>2 DEF Lock
      <4> QED
        BY <3>1, <3>2, <4>2, <4>3 DEF Writes, Shard
    <3> QED
      BY <3>3, <3>4
  <2>5. LockInv'
    BY <2>4 DEF LockInv
  <2> QED
    BY <2>1, <2>3, <2>5 DEF CtlInv
<1>3. ASSUME NEW p \in Procs, RLock(p) PROVE CtlInv'
  <2>1. TypeOK'
    BY <1>0, <1>3 DEF TypeOK, RLock, States
  <2>2. Shard(p) \in Shards
    BY <1>0, CallType
  <2>3. OpInv'
    BY <1>0, <1>3 DEF TypeOK, OpInv, RLock
  <2>4. ASSUME NEW q \in Procs, pc'[q] \in InSection
        PROVE  /\ Writes(q)' => (writer[Shard(q)] = {q} /\ readers[Shard(q)] = {})'
               /\ ~Writes(q)' => (writer[Shard(q)] = {} /\ q \in readers[Shard(q)])'
    <3>1. call' = call /\ writer' = writer /\ Shard(q) \in Shards
      BY <1>0, <1>3, CallType DEF RLock
    <3>2. /\ Shard(q) = Shard(p) => readers'[Shard(q)] = readers[Shard(q)] \cup {p}
          /\ Shard(q) # Shard(p) => readers'[Shard(q)] = readers[Shard(q)]
      BY <1>0, <1>3, <2>2, <3>1 DEF RLock, TypeOK
    <3>3. CASE q = p
      BY <1>3, <3>1, <3>2, <3>3 DEF RLock, Writes, Shard
    <3>4. CASE q # p
      <4>1. pc[q] \in InSection
        BY <1>0, <1>3, <2>4, <3>4 DEF TypeOK, RLock
      <4>2. /\ Writes(q) => writer[Shard(q)] = {q} /\ readers[Shard(q)] = {}
            /\ ~Writes(q) => writer[Shard(q)] = {} /\ q \in readers[Shard(q)]
        BY <1>0, <4>1 DEF LockInv
      <4>3. Shard(q) = Shard(p) => ~Writes(q)
        BY <1>3, <4>2 DEF RLock
      <4> QED
        BY <3>1, <3>2, <4>2, <4>3 DEF Writes, Shard
    <3> QED
      BY <3>3, <3>4
  <2>5. LockInv'
    BY <2>4 DEF LockInv
  <2> QED
    BY <2>1, <2>3, <2>5 DEF CtlInv
\* The steps inside a section keep the locks and the call.
<1>4. ASSUME NEW p \in Procs, pc[p] \in InSection, NEW s \in InSection, Goto(p, s),
             UNCHANGED <<writer, readers, call>>, TypeOK',
             s = "put" => call[p].op = "Join",
             s \in {"delete", "clean"} => call[p].op = "Leave",
             s = "read" => call[p].op \in {"List", "Count"}
      PROVE  CtlInv'
  <2>1. LockInv' /\ OpInv'
    BY <1>0, <1>4 DEF TypeOK, LockInv, OpInv, Writes, Shard
  <2> QED
    BY <1>4, <2>1 DEF CtlInv
<1>5. ASSUME NEW p \in Procs, Find(p) PROVE CtlInv'
  <2>1. Shard(p) \in Shards /\ call[p].ch \in Channels
    BY <1>0, CallType
  <2>2. Found(p) \in SUBSET Maps
    BY <1>0, <2>1 DEF TypeOK, Found
  <2>3. TypeOK'
    BY <1>0, <1>5, <2>2 DEF TypeOK, Find, States
  <2>4. QED
    BY <1>4, <1>5, <2>3 DEF Find, InSection
<1>6. ASSUME NEW p \in Procs, MakeRoom(p) PROVE CtlInv'
  <2>1. PICK m \in Maps : /\ members' = [members EXCEPT ![m] = {}]
                          /\ SetKey(p, {m}) /\ room' = [room EXCEPT ![p] = {m}]
    BY <1>6 DEF MakeRoom
  <2>2. rooms' \in [Shards -> [Channels -> SUBSET Maps]]
    BY <1>0, <2>1, SetKeyLemma
  <2>3. TypeOK'
    BY <1>0, <1>6, <2>1, <2>2 DEF TypeOK, MakeRoom, States
  <2>4. QED
    BY <1>4, <1>6, <2>3 DEF MakeRoom, InSection
<1>7. ASSUME NEW p \in Procs, NotFound(p) PROVE CtlInv'
  <2>1. TypeOK'
    BY <1>0, <1>7 DEF TypeOK, NotFound, States
  <2>2. QED
    BY <1>4, <1>7, <2>1 DEF NotFound, InSection
<1>8. ASSUME NEW p \in Procs, Put(p) \/ Delete(p) PROVE CtlInv'
  <2>1. call[p].conn \in Conns /\ Members(p) \in SUBSET Conns
    BY <1>0, CallType DEF TypeOK, Members
  <2>2. TypeOK'
    <3>1. PICK S \in SUBSET Conns : SetRoom(p, S)
      BY <1>8, <2>1 DEF Put, Delete
    <3>2. members' \in [Maps -> SUBSET Conns]
      BY <1>0, <3>1 DEF TypeOK, SetRoom
    <3>3. pc' \in [Procs -> States]
      BY <1>0, <1>8 DEF TypeOK, Put, Delete, States
    <3> QED
      BY <1>0, <1>8, <3>2, <3>3 DEF TypeOK, Put, Delete
  <2>3. pc[p] = "delete" => call[p].op = "Leave"
    BY <1>0 DEF OpInv
  <2>4. QED
    BY <1>4, <1>8, <2>2, <2>3 DEF Put, Delete, InSection
<1>9. ASSUME NEW p \in Procs, Clean(p) PROVE CtlInv'
  <2>1. rooms' \in [Shards -> [Channels -> SUBSET Maps]]
    BY <1>0, <1>9, SetKeyLemma DEF Clean, TypeOK
  <2>2. TypeOK'
    BY <1>0, <1>9, <2>1 DEF TypeOK, Clean, States
  <2>3. QED
    BY <1>4, <1>9, <2>2 DEF Clean, InSection
<1>10. ASSUME NEW p \in Procs, Read(p) PROVE CtlInv'
  <2>1. Members(p) \in SUBSET Conns
    BY <1>0 DEF TypeOK, Members
  <2>2. TypeOK'
    BY <1>0, <1>10, <2>1 DEF TypeOK, Read, States
  <2>3. QED
    BY <1>4, <1>10, <2>2 DEF Read, InSection
<1>11. ASSUME NEW p \in Procs, Unlock(p) PROVE CtlInv'
  <2>1. TypeOK'
    BY <1>0, <1>11 DEF TypeOK, Unlock, States
  <2>2. OpInv'
    BY <1>0, <1>11 DEF TypeOK, OpInv, Unlock
  <2>3. ASSUME NEW q \in Procs, pc'[q] \in InSection
        PROVE  /\ Writes(q)' => (writer[Shard(q)] = {q} /\ readers[Shard(q)] = {})'
               /\ ~Writes(q)' => (writer[Shard(q)] = {} /\ q \in readers[Shard(q)])'
    <3>1. q # p /\ pc[q] \in InSection /\ pc[p] \in InSection
      BY <1>0, <1>11, <2>3 DEF TypeOK, Unlock, InSection
    <3>2. call' = call /\ Shard(q) \in Shards
      BY <1>0, <1>11, CallType DEF Unlock
    <3>3. /\ writer'[Shard(q)] \in {writer[Shard(q)], writer[Shard(q)] \ {p}}
          /\ readers'[Shard(q)] \in {readers[Shard(q)], readers[Shard(q)] \ {p}}
      BY <1>0, <1>11, <3>2 DEF Unlock, TypeOK
    <3>4. /\ Writes(q) => writer[Shard(q)] = {q} /\ readers[Shard(q)] = {}
          /\ ~Writes(q) => writer[Shard(q)] = {} /\ q \in readers[Shard(q)]
      BY <1>0, <3>1 DEF LockInv
    <3>5. QED
      BY <3>1, <3>2, <3>3, <3>4 DEF Writes, Shard
  <2>4. LockInv'
    BY <2>3 DEF LockInv
  <2> QED
    BY <2>1, <2>2, <2>4 DEF CtlInv
<1>12. CASE UNCHANGED vars
  BY <1>0, <1>12 DEF vars, CtlInv, TypeOK, LockInv, OpInv, Writes, Shard
<1> QED
  BY <1>1, <1>2, <1>3, <1>5, <1>6, <1>7, <1>8, <1>9, <1>10, <1>11, <1>12 DEF Next, Step

-----------------------------------------------------------------------------
LEMMA KeyType ==
  ASSUME TypeOK, NEW ch \in Channels
  PROVE  shardFor[ch] \in Shards /\ Key(ch) \in SUBSET Maps
  BY DEF TypeOK, Shards, Key

LEMMA FoundIsKey == \A p : Found(p) = Key(call[p].ch)
  BY DEF Found, Key, Shard

\* The room that a goroutine holds is that of its channel, and the only one.
LEMMA HeldLemma ==
  ASSUME IndInv, NEW p \in Procs, pc[p] \in HasRoom
  PROVE  \E m \in Maps : /\ room[p] = {m} /\ Key(call[p].ch) = {m}
                         /\ \A ch \in Channels \ {call[p].ch} : m \notin Key(ch)
<1>1. call[p].ch \in Channels /\ Key(call[p].ch) \in SUBSET Maps
  BY CallType, KeyType DEF IndInv, CtlInv
<1>2. room[p] # {} /\ room[p] = Key(call[p].ch)
  BY FoundIsKey DEF IndInv, HeldInv
<1>3. PICK m \in Maps : m \in room[p]
  BY <1>1, <1>2
<1>4. room[p] = {m}
  BY <1>1, <1>2, <1>3 DEF IndInv, RoomInv
<1>5. \A ch \in Channels \ {call[p].ch} : m \notin Key(ch)
  BY <1>1, <1>2, <1>3 DEF IndInv, RoomInv
<1> QED
  BY <1>2, <1>3, <1>4, <1>5

Rest == RoomInv /\ HeldInv /\ EmptyInv

\* A step that touches no room, and ends or begins no change of one.
LEMMA RestSame ==
  ASSUME IndInv, NEW p \in Procs, NEW s \in States \ HasRoom, Goto(p, s),
         pc[p] \notin {"put", "clean"}, UNCHANGED <<rooms, members, room>>,
         \A q \in Procs \ {p} : call'[q] = call[q]
  PROVE  Rest'
<1>1. pc \in [Procs -> States]
  BY DEF IndInv, CtlInv, TypeOK
<1>2. \A q \in Procs : pc'[q] = IF q = p THEN s ELSE pc[q]
  BY <1>1 DEF Goto
<1>3. RoomInv'
  BY DEF IndInv, RoomInv, Key
<1>4. HeldInv'
  BY <1>2 DEF IndInv, HeldInv, Found, Shard
<1>5. EmptyInv'
  BY <1>2 DEF IndInv, EmptyInv, Key
<1> QED
  BY <1>3, <1>4, <1>5 DEF Rest

LEMMA RestFind ==
  ASSUME IndInv, NEW p \in Procs, Find(p)
  PROVE  Rest'
<1>1. pc \in [Procs -> States] /\ room \in [Procs -> SUBSET Maps]
  BY DEF IndInv, CtlInv, TypeOK
<1>2. \A q \in Procs : q # p => pc'[q] = pc[q] /\ room'[q] = room[q]
  BY <1>1 DEF Find, Goto
<1>3. room'[p] = Found(p) /\ Found(p) # {} /\ UNCHANGED <<rooms, members, call>>
  BY <1>1 DEF Find
<1>4. RoomInv'
  BY <1>3 DEF IndInv, RoomInv, Key
<1>5. HeldInv'
  BY <1>2, <1>3 DEF IndInv, HeldInv, Found, Shard
<1>6. pc[p] \notin {"put", "clean"}
  BY DEF Find
<1>7. EmptyInv'
  BY <1>2, <1>3, <1>6 DEF IndInv, EmptyInv, Key
<1> QED
  BY <1>4, <1>5, <1>7 DEF Rest

LEMMA RestMakeRoom ==
  ASSUME IndInv, NEW p \in Procs, MakeRoom(p)
  PROVE  Rest'
<1>0. TypeOK /\ CtlInv
  BY DEF IndInv, CtlInv
<1>1. PICK m \in Maps : /\ Unused(m) /\ members' = [members EXCEPT ![m] = {}]
                        /\ SetKey(p, {m}) /\ room' = [room EXCEPT ![p] = {m}]
  BY DEF MakeRoom
<1>2. /\ pc[p] = "find" /\ Writes(p) /\ call' = call
      /\ \A q \in Procs : pc'[q] = IF q = p THEN "put" ELSE pc[q]
  BY <1>0 DEF TypeOK, MakeRoom, Goto, Writes
<1>3. \A ch \in Channels : Key(ch)' = IF ch = call[p].ch THEN {m} ELSE Key(ch)
  BY <1>0, <1>1, SetKeyLemma
<1>4. \A ch \in Channels : m \notin Key(ch)
  BY <1>1 DEF Unused, Key, Shards
<1>5. /\ \A n \in Maps \ {m} : members'[n] = members[n]
      /\ \A q \in Procs : room'[q] = IF q = p THEN {m} ELSE room[q]
  BY <1>0, <1>1 DEF TypeOK
<1>6. RoomInv'
  BY <1>3, <1>4 DEF IndInv, RoomInv
<1>7. ASSUME NEW q \in Procs, pc'[q] \in HasRoom
      PROVE  room'[q] # {} /\ room'[q] = Key(call[q].ch)'
  <2>1. call[q].ch \in Channels
    BY <1>0, CallType
  <2>2. CASE q = p
    BY <1>2, <1>3, <1>5, <2>1, <2>2 DEF Key
  <2>3. CASE q # p
    <3>1. pc[q] \in HasRoom /\ pc[q] \in InSection /\ pc[p] \in InSection
      BY <1>2, <1>7, <2>3 DEF HasRoom, InSection
    <3>2. call[p].ch # call[q].ch
      BY <1>0, <1>2, <2>3, <3>1, Exclusion
    <3>3. room[q] # {} /\ room[q] = Key(call[q].ch)
      BY <3>1, FoundIsKey DEF IndInv, HeldInv
    <3> QED
      BY <1>2, <1>3, <1>5, <2>1, <2>3, <3>2, <3>3 DEF Key
  <2> QED
    BY <2>2, <2>3
<1>8. HeldInv'
  BY <1>2, <1>7 DEF HeldInv, Found, Key, Shard
<1>9. ASSUME NEW ch \in Channels, NEW n \in Key(ch)', members'[n] = {}
      PROVE  \E q \in Procs : pc'[q] \in {"put", "clean"} /\ n \in room'[q]
  <2>1. CASE ch = call[p].ch
    BY <1>2, <1>3, <1>5, <1>9, <2>1
  <2>2. CASE ch # call[p].ch
    <3>1. n \in Key(ch) /\ n \in Maps /\ n # m
      BY <1>0, <1>3, <1>4, <1>9, <2>2, KeyType
    <3>2. PICK q \in Procs : pc[q] \in {"put", "clean"} /\ n \in room[q]
      BY <1>5, <1>9, <3>1 DEF IndInv, EmptyInv
    <3> QED
      BY <1>2, <1>5, <3>2
  <2> QED
    BY <2>1, <2>2
<1>10. EmptyInv'
  BY <1>9 DEF EmptyInv, Key
<1> QED
  BY <1>6, <1>8, <1>10 DEF Rest

LEMMA RestPutDelete ==
  ASSUME IndInv, NEW p \in Procs, Put(p) \/ Delete(p)
  PROVE  Rest'
<1>0. TypeOK
  BY DEF IndInv, CtlInv
<1>1. /\ UNCHANGED <<rooms, room, call>> /\ pc[p] \in {"put", "delete"}
      /\ \A q \in Procs \ {p} : pc'[q] = pc[q]
      /\ pc[p] = "put" => pc'[p] = "unlock"
      /\ pc[p] = "delete" => pc'[p] = "clean"
  BY <1>0 DEF TypeOK, Put, Delete, Goto
<1>2. RoomInv'
  BY <1>1 DEF IndInv, RoomInv, Key
<1>3. HeldInv'
  BY <1>1 DEF IndInv, HeldInv, HasRoom, Found, Shard
<1>4. \A m \in room[p] : Put(p) => members'[m] # {}
  BY <1>0 DEF TypeOK, Put, SetRoom
<1>5. \A m \in Maps \ room[p] : members'[m] = members[m]
  BY DEF Put, Delete, SetRoom
<1>6. ASSUME NEW ch \in Channels, NEW n \in Key(ch), members'[n] = {}
      PROVE  \E q \in Procs : pc'[q] \in {"put", "clean"} /\ n \in room[q]
  <2>1. CASE n \in room[p]
    BY <1>1, <1>4, <1>6, <2>1 DEF Put, Delete
  <2>2. CASE n \notin room[p]
    <3>1. n \in Maps
      BY <1>0, KeyType
    <3>2. PICK q \in Procs : pc[q] \in {"put", "clean"} /\ n \in room[q]
      BY <1>5, <1>6, <2>2, <3>1 DEF IndInv, EmptyInv
    <3> QED
      BY <1>1, <2>2, <3>2
  <2> QED
    BY <2>1, <2>2
<1>7. EmptyInv'
  BY <1>1, <1>6 DEF EmptyInv, Key
<1> QED
  BY <1>2, <1>3, <1>7 DEF Rest

LEMMA RestClean ==
  ASSUME IndInv, NEW p \in Procs, Clean(p)
  PROVE  Rest'
<1>0. TypeOK /\ CtlInv
  BY DEF IndInv, CtlInv
<1>1. /\ UNCHANGED <<members, room, call>> /\ pc[p] = "clean"
      /\ \A q \in Procs : pc'[q] = IF q = p THEN "unlock" ELSE pc[q]
  BY <1>0 DEF TypeOK, Clean, Goto
<1>2. PICK m \in Maps : /\ room[p] = {m} /\ Key(call[p].ch) = {m}
                        /\ \A ch \in Channels \ {call[p].ch} : m \notin Key(ch)
  BY <1>1, HeldLemma DEF HasRoom
<1>3. \A ch \in Channels : Key(ch)' = IF ch = call[p].ch /\ members[m] = {}
                                      THEN {} ELSE Key(ch)
  <2>1. Members(p) = members[m]
    BY <1>2 DEF Members
  <2>2. CASE members[m] = {}
    <3>1. SetKey(p, {})
      BY <2>1, <2>2 DEF Clean
    <3> QED
      BY <1>0, <2>2, <3>1, SetKeyLemma
  <2>3. CASE members[m] # {}
    BY <2>1, <2>3 DEF Clean, Key
  <2> QED
    BY <2>2, <2>3
<1>4. RoomInv'
  BY <1>3 DEF IndInv, RoomInv
<1>5. ASSUME NEW q \in Procs, pc'[q] \in HasRoom
      PROVE  room[q] # {} /\ room[q] = Key(call[q].ch)'
  <2>1. q # p /\ pc[q] \in HasRoom /\ pc[q] \in InSection /\ pc[p] \in InSection
    BY <1>1, <1>5 DEF HasRoom, InSection
  <2>2. Writes(p)
    BY <1>0, <1>1 DEF CtlInv, OpInv, Writes
  <2>3. call[p].ch # call[q].ch
    BY <1>0, <2>1, <2>2, Exclusion
  <2>4. room[q] # {} /\ room[q] = Key(call[q].ch) /\ call[q].ch \in Channels
    BY <1>0, <2>1, FoundIsKey, CallType DEF IndInv, HeldInv
  <2> QED
    BY <1>1, <1>3, <2>3, <2>4 DEF Key
<1>6. HeldInv'
  BY <1>1, <1>5 DEF HeldInv, Found, Key, Shard
<1>7. ASSUME NEW ch \in Channels, NEW n \in Key(ch)', members[n] = {}
      PROVE  \E q \in Procs : pc'[q] \in {"put", "clean"} /\ n \in room[q]
  <2>1. n \in Key(ch) /\ n # m
    BY <1>2, <1>3, <1>7
  <2>2. PICK q \in Procs : pc[q] \in {"put", "clean"} /\ n \in room[q]
    BY <1>7, <2>1 DEF IndInv, EmptyInv
  <2> QED
    BY <1>1, <1>2, <2>1, <2>2
<1>8. EmptyInv'
  BY <1>1, <1>7 DEF EmptyInv, Key
<1> QED
  BY <1>4, <1>6, <1>8 DEF Rest

LEMMA RestUnlock ==
  ASSUME IndInv, NEW p \in Procs, Unlock(p)
  PROVE  Rest'
<1>1. TypeOK
  BY DEF IndInv, CtlInv
<1>2. /\ UNCHANGED <<rooms, members, call>> /\ pc[p] = "unlock" /\ pc'[p] = "idle"
      /\ \A q \in Procs \ {p} : pc'[q] = pc[q] /\ room'[q] = room[q]
  BY <1>1 DEF TypeOK, Unlock, Goto
<1>3. RoomInv'
  BY <1>2 DEF IndInv, RoomInv, Key
<1>4. HeldInv'
  BY <1>2 DEF IndInv, HeldInv, HasRoom, Found, Shard
<1>5. EmptyInv'
  BY <1>2 DEF IndInv, EmptyInv, Key
<1> QED
  BY <1>3, <1>4, <1>5 DEF Rest

LEMMA IndNext == IndInv /\ [Next]_vars => IndInv'
<1> SUFFICES ASSUME IndInv, [Next]_vars PROVE Rest'
  BY CtlNext DEF IndInv, Rest
<1>0. TypeOK
  BY DEF IndInv, CtlInv
<1>1. ASSUME NEW p \in Procs, NEW k \in Call, Invoke(p, k) PROVE Rest'
  <2>1. \A q \in Procs \ {p} : call'[q] = call[q]
    BY <1>0, <1>1 DEF TypeOK, Invoke
  <2> QED
    BY <1>1, <2>1, RestSame DEF Invoke, States, HasRoom
<1>2. ASSUME NEW p \in Procs, Lock(p) \/ RLock(p) \/ NotFound(p) \/ Read(p) PROVE Rest'
  BY <1>2, RestSame DEF Lock, RLock, NotFound, Read, States, HasRoom
<1>3. CASE UNCHANGED vars
  BY <1>3 DEF vars, IndInv, Rest, RoomInv, HeldInv, EmptyInv, Key, Found, Shard
<1> QED
  BY <1>1, <1>2, <1>3, RestFind, RestMakeRoom, RestPutDelete, RestClean, RestUnlock
     DEF Next, Step

LEMMA Invariance == Spec => []IndInv
<1>1. Init => IndInv
  <2> SUFFICES ASSUME Init PROVE RoomInv /\ HeldInv /\ EmptyInv
    BY CtlInit DEF IndInv
  <2>1. \A ch \in Channels : Key(ch) = {}
    BY DEF Init, Key, Shards
  <2> QED
    BY <2>1 DEF Init, RoomInv, HeldInv, EmptyInv, HasRoom
<1> QED
  BY <1>1, IndNext, PTL DEF Spec

-----------------------------------------------------------------------------
\* The fields of the state are of their types.
THEOREM ManagerTyped == Spec => []TypeOK
<1>1. IndInv => TypeOK
  BY DEF IndInv, CtlInv
<1> QED
  BY <1>1, Invariance, PTL

\* No empty room is left behind: one that is empty belongs to the goroutine
\* that holds the lock and is about to fill or to remove it.
THEOREM RoomsAreRemoved == Spec => []NoEmptyRooms
<1>1. ASSUME IndInv, NEW ch \in Channels, NEW m \in Key(ch), members[m] = {}
      PROVE  \E p \in writer[shardFor[ch]] : pc[p] \in {"put", "clean"}
  <2>1. PICK p \in Procs : pc[p] \in {"put", "clean"} /\ m \in room[p]
    BY <1>1 DEF IndInv, EmptyInv
  <2>2. ch = call[p].ch
    BY <1>1, <2>1, HeldLemma DEF HasRoom
  <2>3. Writes(p) /\ pc[p] \in InSection
    BY <1>1, <2>1 DEF IndInv, CtlInv, OpInv, Writes, InSection
  <2>4. p \in writer[Shard(p)]
    BY <1>1, <2>3 DEF IndInv, CtlInv, LockInv
  <2> QED
    BY <2>1, <2>2, <2>4 DEF Shard
<1>2. IndInv => NoEmptyRooms
  BY <1>1 DEF NoEmptyRooms, Key
<1> QED
  BY <1>2, Invariance, PTL

-----------------------------------------------------------------------------
\* What the index shows of a channel whose key and members are known.
LEMMA SubscribedIs == \A ch : Subscribed(ch) = UNION {members[m] : m \in Key(ch)}
  BY DEF Subscribed, Key

LEMMA HeldMembers ==
  ASSUME IndInv, NEW p \in Procs, pc[p] \in HasRoom
  PROVE  Members(p) = Subscribed(call[p].ch)
  BY SubscribedIs, FoundIsKey DEF IndInv, HeldInv, Members

LEMMA SetRoomLemma ==
  ASSUME IndInv, NEW p \in Procs, pc[p] \in HasRoom, NEW S \in SUBSET Conns,
         SetRoom(p, S), UNCHANGED rooms
  PROVE  \A ch \in Channels : Subscribed(ch)' = IF ch = call[p].ch THEN S ELSE Subscribed(ch)
<1>1. PICK m \in Maps : /\ room[p] = {m} /\ Key(call[p].ch) = {m}
                        /\ \A ch \in Channels \ {call[p].ch} : m \notin Key(ch)
  BY HeldLemma
<1>2. TypeOK
  BY DEF IndInv, CtlInv
<1>3. \A n \in Maps : members'[n] = IF n = m THEN S ELSE members[n]
  BY <1>1 DEF SetRoom
<1>4. TAKE ch \in Channels
<1>5. Key(ch) \in SUBSET Maps
  BY <1>2, KeyType
<1>6. Subscribed(ch)' = UNION {members'[n] : n \in Key(ch)}
  BY DEF Subscribed, Key
<1>7. CASE ch = call[p].ch
  BY <1>1, <1>3, <1>6, <1>7
<1>8. CASE ch # call[p].ch
  <2>1. \A n \in Key(ch) : members'[n] = members[n]
    BY <1>1, <1>3, <1>5, <1>8
  <2> QED
    BY <1>6, <1>8, <2>1, SubscribedIs
<1> QED
  BY <1>7, <1>8

NoIndexStep == UNCHANGED <<[ch \in Channels |-> Subscribed(ch)], [p \in Procs |-> Phase(p)],
                           call, answer>>

LEMMA MakeRoomStutters ==
  ASSUME IndInv, NEW p \in Procs, MakeRoom(p)
  PROVE  NoIndexStep
<1>0. TypeOK
  BY DEF IndInv, CtlInv
<1>1. PICK m \in Maps : /\ Unused(m) /\ members' = [members EXCEPT ![m] = {}]
                        /\ SetKey(p, {m}) /\ room' = [room EXCEPT ![p] = {m}]
  BY DEF MakeRoom
<1>2. \A ch \in Channels : Key(ch)' = IF ch = call[p].ch THEN {m} ELSE Key(ch)
  BY <1>0, <1>1, SetKeyLemma
<1>3. \A ch \in Channels : m \notin Key(ch) /\ Key(ch) \in SUBSET Maps
  BY <1>0, <1>1, KeyType DEF Unused, Key, Shards
<1>4. /\ members'[m] = {}
      /\ \A n \in Maps \ {m} : members'[n] = members[n]
  BY <1>0, <1>1 DEF TypeOK
<1>5. ASSUME NEW ch \in Channels PROVE Subscribed(ch)' = Subscribed(ch)
  <2>1. Subscribed(ch)' = UNION {members'[n] : n \in Key(ch)'}
    BY DEF Subscribed, Key
  <2>2. CASE ch = call[p].ch
    <3>1. Key(ch) = {}
      BY <2>2, FoundIsKey DEF MakeRoom
    <3> QED
      BY <1>2, <1>4, <2>1, <2>2, <3>1, SubscribedIs
  <2>3. CASE ch # call[p].ch
    <3>1. \A n \in Key(ch) : members'[n] = members[n]
      BY <1>3, <1>4
    <3> QED
      BY <1>2, <2>1, <2>3, <3>1, SubscribedIs
  <2> QED
    BY <2>2, <2>3
<1>6. \A q \in Procs : Phase(q)' = Phase(q)
  BY <1>0 DEF TypeOK, MakeRoom, Goto, Phase
<1> QED
  BY <1>5, <1>6 DEF NoIndexStep, MakeRoom

LEMMA CleanStutters ==
  ASSUME IndInv, NEW p \in Procs, Clean(p)
  PROVE  NoIndexStep
<1>0. TypeOK
  BY DEF IndInv, CtlInv
<1>1. pc[p] \in HasRoom
  BY DEF Clean, HasRoom
<1>2. Members(p) = Subscribed(call[p].ch)
  BY <1>1, HeldMembers
<1>3. ASSUME NEW ch \in Channels PROVE Subscribed(ch)' = Subscribed(ch)
  <2>1. Subscribed(ch)' = UNION {members[n] : n \in Key(ch)'}
    BY DEF Clean, Subscribed, Key
  <2>2. CASE Members(p) = {}
    <3>1. SetKey(p, {})
      BY <2>2 DEF Clean
    <3>2. Key(ch)' = IF ch = call[p].ch THEN {} ELSE Key(ch)
      BY <1>0, <3>1, SetKeyLemma
    <3>3. CASE ch = call[p].ch
      <4>1. Subscribed(ch) = {}
        BY <1>2, <2>2, <3>3
      <4>2. Key(ch)' = {}
        BY <3>2, <3>3
      <4> QED
        BY <2>1, <4>1, <4>2
    <3>4. CASE ch # call[p].ch
      BY <2>1, <3>2, <3>4, SubscribedIs
    <3> QED
      BY <3>3, <3>4
  <2>3. CASE Members(p) # {}
    BY <2>3 DEF Clean, Subscribed
  <2> QED
    BY <2>2, <2>3
<1>4. \A q \in Procs : Phase(q)' = Phase(q)
  BY <1>0 DEF TypeOK, Clean, Goto, Phase
<1> QED
  BY <1>3, <1>4 DEF NoIndexStep, Clean

\* The step at which p's call takes effect.
LEMMA Applies ==
  ASSUME IndInv, NEW p \in Procs, Put(p) \/ Delete(p) \/ NotFound(p) \/ Read(p)
  PROVE  Index!Apply(p)
<1>0. TypeOK /\ call[p].ch \in Channels /\ call[p].conn \in Conns
  BY CallType DEF IndInv, CtlInv
<1> DEFINE index == [ch \in Channels |-> Subscribed(ch)]
           phase == [q \in Procs |-> Phase(q)]
<1>1. phase[p] = "called" /\ phase' = [phase EXCEPT ![p] = "applied"] /\ UNCHANGED call
  <2>1. Phase(p) = "called" /\ Phase(p)' = "applied"
    BY <1>0 DEF TypeOK, Put, Delete, NotFound, Read, Goto, Phase
  <2>2. \A q \in Procs \ {p} : Phase(q)' = Phase(q)
    BY <1>0 DEF TypeOK, Put, Delete, NotFound, Read, Goto, Phase
  <2>3. UNCHANGED call
    BY DEF Put, Delete, NotFound, Read
  <2> QED
    BY <2>1, <2>2, <2>3
<1>2. CASE Put(p)
  <2>1. call[p].op = "Join" /\ pc[p] \in HasRoom
    BY <1>2 DEF IndInv, CtlInv, OpInv, Put, HasRoom
  <2>2. Members(p) \cup {call[p].conn} \in SUBSET Conns
    BY <1>0 DEF TypeOK, Members
  <2>3. \A ch \in Channels : Subscribed(ch)' =
          IF ch = call[p].ch THEN Members(p) \cup {call[p].conn} ELSE Subscribed(ch)
    BY <1>2, <2>1, <2>2, SetRoomLemma DEF Put
  <2>4. index' = [index EXCEPT ![call[p].ch] = @ \cup {call[p].conn}]
    BY <1>0, <2>1, <2>3, HeldMembers
  <2> QED
    BY <1>1, <1>2, <2>1, <2>4 DEF Index!Apply, Put
<1>3. CASE Delete(p)
  <2>1. call[p].op = "Leave" /\ pc[p] \in HasRoom
    BY <1>3 DEF IndInv, CtlInv, OpInv, Delete, HasRoom
  <2>2. Members(p) \ {call[p].conn} \in SUBSET Conns
    BY <1>0 DEF TypeOK, Members
  <2>3. \A ch \in Channels : Subscribed(ch)' =
          IF ch = call[p].ch THEN Members(p) \ {call[p].conn} ELSE Subscribed(ch)
    BY <1>3, <2>1, <2>2, SetRoomLemma DEF Delete
  <2>4. index' = [index EXCEPT ![call[p].ch] = @ \ {call[p].conn}]
    BY <1>0, <2>1, <2>3, HeldMembers
  <2> QED
    BY <1>1, <1>3, <2>1, <2>4 DEF Index!Apply, Delete
<1>4. CASE NotFound(p)
  <2>1. Subscribed(call[p].ch) = {}
    BY <1>4, SubscribedIs, FoundIsKey DEF NotFound
  <2>2. index' = index
    BY <1>4 DEF NotFound, Subscribed
  <2>3. CASE call[p].op = "Leave"
    <3>1. index' = [index EXCEPT ![call[p].ch] = @ \ {call[p].conn}]
      BY <1>0, <2>1, <2>2
    <3> QED
      BY <1>1, <1>4, <2>3, <3>1 DEF Index!Apply, NotFound
  <2>4. CASE call[p].op \in {"List", "Count"}
    <3>1. answer' = [answer EXCEPT ![p] = index[call[p].ch]]
      BY <1>0, <1>4, <2>1, <2>4 DEF NotFound
    <3> QED
      BY <1>1, <2>2, <2>4, <3>1 DEF Index!Apply
  <2> QED
    BY <1>0, <1>4, <2>3, <2>4, CallType DEF NotFound
<1>5. CASE Read(p)
  <2>1. call[p].op \in {"List", "Count"} /\ pc[p] \in HasRoom
    BY <1>5 DEF IndInv, CtlInv, OpInv, Read, HasRoom
  <2>2. answer' = [answer EXCEPT ![p] = index[call[p].ch]]
    BY <1>0, <1>5, <2>1, HeldMembers DEF Read
  <2>3. index' = index
    BY <1>5 DEF Read, Subscribed
  <2> QED
    BY <1>1, <2>1, <2>2, <2>3 DEF Index!Apply
<1> QED
  BY <1>2, <1>3, <1>4, <1>5

\* The manager is one index of connections on which every call takes effect
\* at one moment: sharding, and looking rooms up before changing them, do not
\* show.
THEOREM ManagerIsIndex == Spec => ImplementsIndex
<1>1. Init => Index!Init
  <2> SUFFICES ASSUME Init PROVE Index!Init
    OBVIOUS
  <2>1. \A ch \in Channels : Subscribed(ch) = {}
    BY DEF Init, Subscribed, Shards
  <2>2. \A p \in Procs : Phase(p) = "idle"
    BY DEF Init, Phase
  <2> QED
    BY <2>1, <2>2 DEF Init, Index!Init, Call, Index!Call
<1>2. IndInv /\ [Next]_vars => [Index!Next]_Index!vars
  <2> SUFFICES ASSUME IndInv, [Next]_vars PROVE NoIndexStep \/ Index!Next
    BY DEF NoIndexStep, Index!vars
  <2>0. TypeOK
    BY DEF IndInv, CtlInv
  <2>1. ASSUME NEW p \in Procs, NEW k \in Call, Invoke(p, k) PROVE Index!Invoke(p, k)
    <3>1. \A ch \in Channels : Subscribed(ch)' = Subscribed(ch)
      BY <2>1 DEF Invoke, Subscribed
    <3>2. \A q \in Procs : Phase(q)' = IF q = p THEN "called" ELSE Phase(q)
      BY <2>0, <2>1 DEF TypeOK, Invoke, Goto, Phase
    <3>3. Phase(p) = "idle"
      BY <2>1 DEF Invoke, Phase
    <3> QED
      BY <2>1, <3>1, <3>2, <3>3 DEF Invoke, Index!Invoke
  <2>2. ASSUME NEW p \in Procs, Lock(p) \/ RLock(p) \/ Find(p) PROVE NoIndexStep
    <3>1. \A ch \in Channels : Subscribed(ch)' = Subscribed(ch)
      BY <2>2 DEF Lock, RLock, Find, Subscribed
    <3>2. \A q \in Procs : Phase(q)' = Phase(q)
      BY <2>0, <2>2 DEF TypeOK, Lock, RLock, Find, Goto, Phase
    <3> QED
      BY <2>2, <3>1, <3>2 DEF Lock, RLock, Find, NoIndexStep
  <2>3. ASSUME NEW p \in Procs, Unlock(p) PROVE Index!Return(p)
    <3>1. \A ch \in Channels : Subscribed(ch)' = Subscribed(ch)
      BY <2>3 DEF Unlock, Subscribed
    <3>2. \A q \in Procs : Phase(q)' = IF q = p THEN "idle" ELSE Phase(q)
      BY <2>0, <2>3 DEF TypeOK, Unlock, Goto, Phase
    <3>3. Phase(p) = "applied"
      BY <2>3 DEF Unlock, Phase
    <3> QED
      BY <2>3, <3>1, <3>2, <3>3 DEF Unlock, Index!Return
  <2>4. CASE UNCHANGED vars
    BY <2>4 DEF vars, NoIndexStep, Subscribed, Phase
  <2>5. Index!Call = Call
    BY DEF Call, Index!Call
  <2> QED
    BY <2>1, <2>2, <2>3, <2>4, <2>5, MakeRoomStutters, CleanStutters, Applies
       DEF Next, Step, Index!Next
<1> QED
  BY <1>1, <1>2, Invariance, PTL DEF Spec, ImplementsIndex, Index!Spec
=============================================================================
