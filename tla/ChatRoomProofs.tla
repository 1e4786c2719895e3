--------------------------- MODULE ChatRoomProofs ---------------------------
(***************************************************************************)
(* The safety of ChatRoom for every number of connections, channels,       *)
(* messages and pings.                                                     *)
(***************************************************************************)
EXTENDS ChatRoom, WellFoundedInduction, TLAPS

USE ChatAssumption

\* What SetRoom does to the map: room ch becomes S, the others stay, and a
\* map of sets of connections without empty rooms stays one.
LEMMA SetRoomLemma ==
  ASSUME NEW ch \in Channels, NEW S \in SUBSET Conns,
         DOMAIN rooms \subseteq Channels, rooms \in [DOMAIN rooms -> SUBSET Conns],
         rooms' = SetRoom(ch, S)
  PROVE  /\ DOMAIN rooms' \subseteq Channels
         /\ rooms' \in [DOMAIN rooms' -> SUBSET Conns]
         /\ Room(ch)' = S
         /\ \A k \in Channels \ {ch} : Room(k)' = Room(k)
         /\ (\A k \in DOMAIN rooms : rooms[k] # {}) => \A k \in DOMAIN rooms' : rooms'[k] # {}
  BY DEF SetRoom, Room

\* The same where the new room is a room with connections added or removed.
LEMMA RoomsTyped ==
  ASSUME TypeOK, NEW h \in Conns, NEW S \in SUBSET Conns,
         rooms' = SetRoom(ChannelOf[h], S)
  PROVE  DOMAIN rooms' \subseteq Channels /\ rooms' \in [DOMAIN rooms' -> SUBSET Conns]
  BY SetRoomLemma DEF TypeOK

\* Every snapshot of a room is a set of connections.
LEMMA RoomType == ASSUME TypeOK, NEW ch PROVE Room(ch) \in SUBSET Conns
  BY DEF TypeOK, Room

\* A piece appended to a wire leaves the wires well typed.
LEMMA WriteOKType ==
  ASSUME NEW d \in Conns, NEW p \in Piece, wire \in [Conns -> Seq(Piece)], WriteOK(d, p)
  PROVE  wire' \in [Conns -> Seq(Piece)]
  BY DEF WriteOK

-----------------------------------------------------------------------------
\* In the write loop the goroutine is at a client of its snapshot, and from
\* the Save on it has a message.
CurOK == \A h \in Conns : handler[h] \in InLoop => cur[h] \in Conns
MsgOK == \A h \in Conns : handler[h] \in InLoop \cup {"save", "snapshot"} => sent[h] > 0
TypeInv == TypeOK /\ CurOK /\ MsgOK

LEMMA MsgType ==
  ASSUME TypeInv, NEW h \in Conns, handler[h] \in InLoop \cup {"save", "snapshot"}
  PROVE  Msg(h) \in Message
  BY DEF TypeInv, TypeOK, MsgOK, Msg, Message

\* The end of an iteration of the loop keeps the loop's variables typed.
LEMMA NextClientType ==
  ASSUME TypeInv, NEW h \in Conns, NEW bad \in SUBSET Conns, NextClient(h, bad)
  PROVE  /\ clients' \in [Conns -> SUBSET Conns] /\ todo' \in [Conns -> SUBSET Conns]
         /\ failed' \in [Conns -> SUBSET Conns]
         /\ cur' \in [Conns -> Conns \cup {None}]
         /\ handler' \in [Conns -> States]
         /\ failed' = [failed EXCEPT ![h] = bad]
         /\ \A g \in Conns \ {h} : cur'[g] = cur[g] /\ handler'[g] = handler[g]
         /\ \/ cur'[h] \in Conns /\ handler'[h] = "lock"
            \/ handler'[h] \in {"read", "prune"}
<1>1. CASE \E d \in todo[h] :
             /\ cur' = [cur EXCEPT ![h] = d]
             /\ todo' = [todo EXCEPT ![h] = @ \ {d}]
             /\ failed' = [failed EXCEPT ![h] = bad]
             /\ Goto(h, "lock")
             /\ UNCHANGED clients
  BY <1>1 DEF TypeInv, TypeOK, Goto, States, Serving, InLoop
<1>2. CASE todo[h] = {}
  <2>1. /\ cur' = [cur EXCEPT ![h] = None]
        /\ failed' = [failed EXCEPT ![h] = bad]
        /\ Goto(h, IF bad = {} THEN "read" ELSE "prune")
        /\ clients' = IF bad = {} THEN [clients EXCEPT ![h] = {}] ELSE clients
        /\ UNCHANGED todo
    BY <1>2, Zenon DEF NextClient
  <2>2. CASE bad = {}
    BY <2>1, <2>2 DEF TypeInv, TypeOK, Goto, States, Serving
  <2>3. CASE bad # {}
    BY <2>1, <2>3 DEF TypeInv, TypeOK, Goto, States, Serving
  <2>4. QED
    BY <2>2, <2>3
<1>3. QED
  <2>1. todo[h] # {} \/ todo[h] = {}
    OBVIOUS
  <2>2. ASSUME todo[h] # {}
        PROVE \E d \in todo[h] :
             /\ cur' = [cur EXCEPT ![h] = d]
             /\ todo' = [todo EXCEPT ![h] = @ \ {d}]
             /\ failed' = [failed EXCEPT ![h] = bad]
             /\ Goto(h, "lock")
             /\ UNCHANGED clients
    BY <2>2, Zenon DEF NextClient
  <2>3. QED
    BY <2>1, <2>2, <1>1, <1>2, Zenon

LEMMA TypeInit == Init => TypeInv
  BY DEF Init, TypeInv, TypeOK, CurOK, MsgOK, InLoop, Serving, States

LEMMA TypeNext == TypeInv /\ [Next]_vars => TypeInv'
<1> SUFFICES ASSUME TypeInv, [Next]_vars PROVE TypeInv'
  OBVIOUS
<1> USE DEF TypeInv, CurOK, MsgOK, InLoop, Serving, States, Goto,
            peerVars, loopVars, countVars
<1>1. ASSUME NEW h \in Conns, JoinRefused(h) PROVE TypeInv'
  BY <1>1 DEF TypeOK, JoinRefused
<1>2. ASSUME NEW h \in Conns, JoinRoom(h) PROVE TypeInv'
  <2>1. DOMAIN rooms' \subseteq Channels /\ rooms' \in [DOMAIN rooms' -> SUBSET Conns]
    <3>1. Room(ChannelOf[h]) \cup {h} \in SUBSET Conns
      BY RoomType
    <3>2. rooms' = SetRoom(ChannelOf[h], Room(ChannelOf[h]) \cup {h})
      BY <1>2 DEF JoinRoom
    <3>3. QED
      BY <3>1, <3>2, RoomsTyped
  <2>2. QED
    BY <1>2, <2>1 DEF TypeOK, JoinRoom
<1>3. ASSUME NEW h \in Conns, ReadText(h) PROVE TypeInv'
  BY <1>3 DEF TypeOK, ReadText
<1>4. ASSUME NEW h \in Conns, ReadControl(h) PROVE TypeInv'
  BY <1>4 DEF TypeOK, ReadControl
<1>5. ASSUME NEW h \in Conns, WriteReply(h) PROVE TypeInv'
  <2>1. Pong \in Piece /\ WriteOK(h, Pong) /\ wire \in [Conns -> Seq(Piece)]
    BY <1>5 DEF TypeOK, WriteReply, Pong, Piece
  <2>2. wire' \in [Conns -> Seq(Piece)]
    BY <2>1, WriteOKType
  <2>3. PICK s \in {"read", "leave"} : Goto(h, s)
    BY <1>5 DEF WriteReply
  <2> QED
    BY <1>5, <2>2, <2>3 DEF TypeOK, WriteReply
<1>6. ASSUME NEW h \in Conns, ReadFails(h) \/ ReadTimesOut(h) PROVE TypeInv'
  <2>1. /\ handler' = [handler EXCEPT ![h] = "leave"]
        /\ UNCHANGED <<rooms, conn, peerVars, countVars, loopVars, lock, wire>>
    BY <1>6, Zenon DEF ReadFails, ReadTimesOut
  <2> QED
    BY <2>1 DEF TypeOK
<1>7. ASSUME NEW h \in Conns, LeaveRoom(h) PROVE TypeInv'
  <2>1. DOMAIN rooms' \subseteq Channels /\ rooms' \in [DOMAIN rooms' -> SUBSET Conns]
    <3>1. Room(ChannelOf[h]) \ {h} \in SUBSET Conns
      BY RoomType
    <3>2. rooms' = SetRoom(ChannelOf[h], Room(ChannelOf[h]) \ {h})
      BY <1>7 DEF LeaveRoom
    <3>3. QED
      BY <3>1, <3>2, RoomsTyped
  <2>2. QED
    BY <1>7, <2>1 DEF TypeOK, LeaveRoom
<1>8. ASSUME NEW h \in Conns, CloseConn(h) PROVE TypeInv'
  BY <1>8 DEF TypeOK, CloseConn
<1>9. ASSUME NEW h \in Conns, SaveMessage(h) PROVE TypeInv'
  BY <1>9 DEF TypeOK, SaveMessage
<1>10. ASSUME NEW h \in Conns, Snapshot(h) PROVE TypeInv'
  <2>1. Room(ChannelOf[h]) \in SUBSET Conns
    BY RoomType
  <2>2. CASE Room(ChannelOf[h]) = {}
    BY <1>10, <2>1, <2>2, Zenon DEF TypeOK, Snapshot
  <2>3. CASE Room(ChannelOf[h]) # {}
    <3>1. PICK d \in Room(ChannelOf[h]) :
             /\ cur' = [cur EXCEPT ![h] = d]
             /\ todo' = [todo EXCEPT ![h] = Room(ChannelOf[h]) \ {d}]
             /\ handler' = [handler EXCEPT ![h] = "lock"]
      BY <1>10, <2>3, Zenon DEF Snapshot
    <3>2. /\ clients' = [clients EXCEPT ![h] = Room(ChannelOf[h])]
          /\ UNCHANGED <<rooms, conn, peerVars, countVars, failed, lock, wire>>
          /\ handler[h] = "snapshot"
      BY <1>10 DEF Snapshot
    <3>3. TypeOK'
      BY <2>1, <3>1, <3>2 DEF TypeOK
    <3>4. CurOK' /\ MsgOK'
      BY <2>1, <3>1, <3>2 DEF TypeOK
    <3>5. QED
      BY <3>3, <3>4
  <2>4. QED
    BY <2>2, <2>3
<1>11. ASSUME NEW h \in Conns, LockClient(h) PROVE TypeInv'
  BY <1>11 DEF TypeOK, LockClient
<1>12. ASSUME NEW h \in Conns, WriteHead(h) PROVE TypeInv'
  BY <1>12, WriteOKType, MsgType DEF TypeOK, WriteHead, Piece
<1>13. ASSUME NEW h \in Conns, WriteBody(h) PROVE TypeInv'
  <2>1. wire' \in [Conns -> Seq(Piece)]
    BY <1>13, WriteOKType, MsgType DEF TypeOK, WriteBody, Piece
  <2>2. NextClient(h, failed[h]) /\ failed[h] \in SUBSET Conns
    BY <1>13 DEF TypeOK, WriteBody
  <2>3. /\ UNCHANGED <<rooms, conn, peerVars, countVars>>
        /\ lock' \in [Conns -> Conns \cup {None}]
    BY <1>13 DEF TypeOK, WriteBody
  <2>4. QED
    <3>1. /\ clients' \in [Conns -> SUBSET Conns] /\ todo' \in [Conns -> SUBSET Conns]
          /\ failed' \in [Conns -> SUBSET Conns]
          /\ cur' \in [Conns -> Conns \cup {None}]
          /\ handler' \in [Conns -> States]
          /\ \A g \in Conns \ {h} : cur'[g] = cur[g] /\ handler'[g] = handler[g]
          /\ \/ cur'[h] \in Conns /\ handler'[h] = "lock"
             \/ handler'[h] \in {"read", "prune"}
      BY <2>2, NextClientType
    <3>2. TypeOK'
      BY <2>1, <2>3, <3>1 DEF TypeOK
    <3>3. CurOK' /\ MsgOK'
      BY <2>1, <2>3, <3>1, <1>13 DEF TypeOK, WriteBody
    <3> QED
      BY <3>2, <3>3
<1>14. ASSUME NEW h \in Conns, WriteFails(h) PROVE TypeInv'
  BY <1>14 DEF TypeOK, WriteFails
<1>15. ASSUME NEW h \in Conns, CloseFailed(h) PROVE TypeInv'
  <2>1. /\ NextClient(h, failed[h] \cup {cur[h]})
        /\ failed[h] \cup {cur[h]} \in SUBSET Conns
    BY <1>15 DEF TypeOK, CloseFailed
  <2>2. /\ UNCHANGED <<rooms, gone, countVars, lock, wire>>
        /\ conn' \in [Conns -> {"open", "closed"}]
        /\ stalled' \subseteq Conns
    BY <1>15 DEF TypeOK, CloseFailed
  <2>3. QED
    <3>1. /\ clients' \in [Conns -> SUBSET Conns] /\ todo' \in [Conns -> SUBSET Conns]
          /\ failed' \in [Conns -> SUBSET Conns]
          /\ cur' \in [Conns -> Conns \cup {None}]
          /\ handler' \in [Conns -> States]
          /\ \A g \in Conns \ {h} : cur'[g] = cur[g] /\ handler'[g] = handler[g]
          /\ \/ cur'[h] \in Conns /\ handler'[h] = "lock"
             \/ handler'[h] \in {"read", "prune"}
      BY <2>1, NextClientType
    <3>2. TypeOK'
      BY <2>2, <3>1 DEF TypeOK
    <3>3. CurOK' /\ MsgOK'
      BY <2>2, <3>1, <1>15 DEF TypeOK, CloseFailed
    <3> QED
      BY <3>2, <3>3
<1>16. ASSUME NEW h \in Conns, Prune(h) PROVE TypeInv'
  <2>1. DOMAIN rooms' \subseteq Channels /\ rooms' \in [DOMAIN rooms' -> SUBSET Conns]
    <3>1. Room(ChannelOf[h]) \ failed[h] \in SUBSET Conns
      BY RoomType
    <3>2. rooms' = SetRoom(ChannelOf[h], Room(ChannelOf[h]) \ failed[h])
      BY <1>16 DEF Prune
    <3>3. QED
      BY <3>1, <3>2, RoomsTyped
  <2>2. QED
    BY <1>16, <2>1 DEF TypeOK, Prune
<1>17. ASSUME NEW h \in Conns, Peer(h) PROVE TypeInv'
  BY <1>17 DEF TypeOK, Peer, PeerLeaves, PeerStalls, PeerResumes
<1>18. CASE UNCHANGED vars
  BY <1>18 DEF TypeOK, vars
<1> QED
  BY <1>1, <1>2, <1>3, <1>4, <1>5, <1>6, <1>7, <1>8, <1>9, <1>10, <1>11, <1>12,
     <1>13, <1>14, <1>15, <1>16, <1>17, <1>18
  DEF Next, Serve, Arrive, Finished

\* The strengthening is an invariant.
LEMMA TypeAlways == Spec => []TypeInv
  BY TypeInit, TypeNext, PTL DEF Spec

\* Every variable keeps its type: the rooms of ChatService, the goroutines of
\* the handlers and the mutexes of the clients.
THEOREM TypeCorrect == Spec => []TypeOK
<1>1. TypeInv => TypeOK
  BY DEF TypeInv
<1> QED
  BY <1>1, TypeAlways, PTL

-----------------------------------------------------------------------------
\* wsClient.mu is held exactly by the goroutine that is inside a frame, so
\* two goroutines are never inside a frame of the same client.
THEOREM FrameMutex == Spec => []LockGuardsFrame
<1>1. Init => LockGuardsFrame
  BY DEF Init, LockGuardsFrame
<1>2. TypeInv /\ LockGuardsFrame /\ [Next]_vars => LockGuardsFrame'
  <2> SUFFICES ASSUME TypeInv, LockGuardsFrame, [Next]_vars
               PROVE  LockGuardsFrame'
    OBVIOUS
  <2>0. /\ handler \in [Conns -> States]
        /\ lock \in [Conns -> Conns \cup {None}]
        /\ cur \in [Conns -> Conns \cup {None}]
    BY DEF TypeInv, TypeOK
  <2> USE <2>0 DEF LockGuardsFrame, Goto, loopVars
  <2>1. ASSUME NEW g \in Conns,
               \/ JoinRefused(g) \/ JoinRoom(g) \/ ReadText(g) \/ ReadControl(g)
               \/ WriteReply(g) \/ ReadFails(g) \/ ReadTimesOut(g) \/ LeaveRoom(g)
               \/ CloseConn(g) \/ SaveMessage(g) \/ Prune(g)
        PROVE  LockGuardsFrame'
    <3>1. /\ handler[g] \notin {"head", "body"} /\ lock' = lock /\ cur' = cur
          /\ \E s \in States \ {"head", "body"} : handler' = [handler EXCEPT ![g] = s]
      BY <2>1 DEF JoinRefused, JoinRoom, ReadText, ReadControl, WriteReply, ReadFails,
           ReadTimesOut, LeaveRoom, CloseConn, SaveMessage, Prune, States, Serving, InLoop
    <3>2. QED
      BY <3>1
  <2>2. ASSUME NEW g \in Conns, Snapshot(g) PROVE LockGuardsFrame'
    <3>1. /\ handler[g] = "snapshot" /\ lock' = lock
          /\ \A h \in Conns \ {g} : cur'[h] = cur[h] /\ handler'[h] = handler[h]
          /\ handler'[g] \in {"read", "lock"}
      BY <2>2 DEF Snapshot
    <3>2. QED
      BY <3>1
  <2>3. ASSUME NEW g \in Conns, LockClient(g) PROVE LockGuardsFrame'
    <3>1. cur[g] \in Conns
      BY <2>3 DEF LockClient, TypeInv, CurOK, InLoop
    <3>2. QED
      BY <2>3, <3>1 DEF LockClient
  <2>4. ASSUME NEW g \in Conns, WriteHead(g) PROVE LockGuardsFrame'
    BY <2>4 DEF WriteHead
  <2>5. ASSUME NEW g \in Conns, WriteFails(g) PROVE LockGuardsFrame'
    BY <2>5 DEF WriteFails
  <2>6. ASSUME NEW g \in Conns, WriteBody(g) PROVE LockGuardsFrame'
    <3>1. /\ \A h \in Conns \ {g} : cur'[h] = cur[h] /\ handler'[h] = handler[h]
          /\ handler'[g] \in {"lock", "read", "prune"}
      <4>1. NextClient(g, failed[g]) /\ failed[g] \in SUBSET Conns
        BY <2>6 DEF WriteBody, TypeInv, TypeOK
      <4>2. QED
        BY <4>1, NextClientType
    <3>2. handler[g] = "body" /\ lock' = [lock EXCEPT ![cur[g]] = None]
      BY <2>6 DEF WriteBody
    <3>3. QED
      BY <3>1, <3>2
  <2>7. ASSUME NEW g \in Conns, CloseFailed(g) PROVE LockGuardsFrame'
    <3>1. /\ \A h \in Conns \ {g} : cur'[h] = cur[h] /\ handler'[h] = handler[h]
          /\ handler'[g] \in {"lock", "read", "prune"}
      <4>1. /\ NextClient(g, failed[g] \cup {cur[g]})
            /\ failed[g] \cup {cur[g]} \in SUBSET Conns
        BY <2>7 DEF CloseFailed, TypeInv, TypeOK, CurOK, InLoop
      <4>2. QED
        BY <4>1, NextClientType
    <3>2. handler[g] = "drop" /\ lock' = lock
      BY <2>7 DEF CloseFailed
    <3>3. QED
      BY <3>1, <3>2
  <2>8. ASSUME NEW g \in Conns, Peer(g) PROVE LockGuardsFrame'
    BY <2>8 DEF Peer, PeerLeaves, PeerStalls, PeerResumes
  <2>9. CASE UNCHANGED vars
    BY <2>9 DEF vars
  <2> QED
    BY <2>1, <2>2, <2>3, <2>4, <2>5, <2>6, <2>7, <2>8, <2>9
    DEF Next, Serve, Arrive, Finished
<1> QED
  BY <1>1, <1>2, TypeAlways, PTL DEF Spec

-----------------------------------------------------------------------------
\* A connection in a list of failed clients has been closed, so the prune
\* that follows takes away nothing that works.
FailedClosed == \A h \in Conns : \A d \in failed[h] : conn[d] = "closed"
RegistryInv == RegistryIsClean /\ ServedIsRegistered /\ FailedClosed

\* RegistryIsClean said of Room(ch), which SetRoomLemma describes.
NoEmptyRoom == \A ch \in DOMAIN rooms : rooms[ch] # {}
RoomClean == \A ch \in Channels : \A c \in Room(ch) :
               ChannelOf[c] = ch /\ handler[c] \in Serving

LEMMA RegistryByRoom ==
  ASSUME DOMAIN rooms \subseteq Channels
  PROVE  RegistryIsClean <=> NoEmptyRoom /\ RoomClean
  BY DEF RegistryIsClean, NoEmptyRoom, RoomClean, Room

\* A step that leaves the rooms alone, closes at most failing connections and
\* moves no goroutine out of Serving keeps the registry.
LEMMA RegistryKept ==
  ASSUME RegistryInv, rooms' = rooms,
         \A c \in Conns : conn'[c] = "open" => conn[c] = "open",
         \A c \in Conns : handler[c] \in Serving => handler'[c] \in Serving,
         \A c \in Conns : handler'[c] \in Serving /\ conn'[c] = "open" => handler[c] \in Serving,
         \A h \in Conns : \A d \in failed'[h] : conn'[d] = "closed",
         DOMAIN rooms \subseteq Channels, rooms \in [DOMAIN rooms -> SUBSET Conns]
  PROVE  RegistryInv'
<1>1. RegistryIsClean'
  BY DEF RegistryInv, RegistryIsClean
<1>2. ServedIsRegistered'
  BY DEF RegistryInv, ServedIsRegistered, Room
<1> QED
  BY <1>1, <1>2 DEF RegistryInv, FailedClosed

\* A step that sets the room of h's channel to S.
LEMMA RegistrySet ==
  ASSUME TypeOK, RegistryInv, NEW h \in Conns, NEW S \in SUBSET Conns,
         rooms' = SetRoom(ChannelOf[h], S), conn' = conn,
         \A g \in Conns \ {h} : handler'[g] = handler[g],
         S \subseteq Room(ChannelOf[h]) \cup {h},
         h \in S => handler'[h] \in Serving,
         h \notin S => handler'[h] \notin Serving \/ conn[h] = "closed",
         \A c \in Room(ChannelOf[h]) \ S : c = h \/ conn[c] = "closed",
         \A g \in Conns : failed'[g] \subseteq failed[g]
  PROVE  RegistryInv'
<1> DEFINE ch == ChannelOf[h]
<1>0. ch \in Channels /\ DOMAIN rooms \subseteq Channels
      /\ rooms \in [DOMAIN rooms -> SUBSET Conns]
  BY DEF TypeOK
<1>1. /\ DOMAIN rooms' \subseteq Channels
      /\ Room(ch)' = S
      /\ \A k \in Channels \ {ch} : Room(k)' = Room(k)
      /\ NoEmptyRoom => NoEmptyRoom'
  BY <1>0, SetRoomLemma DEF NoEmptyRoom
<1>2. NoEmptyRoom /\ RoomClean
  BY <1>0, RegistryByRoom DEF RegistryInv
<1>3. RoomClean'
  <2> SUFFICES ASSUME NEW k \in Channels, NEW c \in Room(k)'
               PROVE  ChannelOf[c] = k /\ handler'[c] \in Serving
    BY DEF RoomClean
  <2>1. CASE k = ch
    BY <2>1, <1>1, <1>2 DEF RoomClean
  <2>2. CASE k # ch
    <3>1. c \in Room(k)
      BY <2>2, <1>1
    <3>2. ChannelOf[c] = k /\ handler[c] \in Serving /\ c # h
      BY <3>1, <2>2, <1>2 DEF RoomClean
    <3>3. c \in Conns
      BY <3>1, RoomType
    <3>4. QED
      BY <3>2, <3>3
  <2>3. QED
    BY <2>1, <2>2
<1>4. RegistryIsClean'
  <2>1. NoEmptyRoom'
    BY <1>1, <1>2
  <2>2. QED
    BY <1>3, <2>1, <1>1 DEF RegistryIsClean, NoEmptyRoom, RoomClean, Room
<1>5. ServedIsRegistered'
  <2> SUFFICES ASSUME NEW c \in Conns, handler'[c] \in Serving, conn'[c] = "open"
               PROVE  c \in Room(ChannelOf[c])'
    BY DEF ServedIsRegistered
  <2>1. CASE c = h
    BY <2>1, <1>1
  <2>2. CASE c # h
    <3>1. c \in Room(ChannelOf[c])
      BY <2>2 DEF RegistryInv, ServedIsRegistered
    <3>2. CASE ChannelOf[c] = ch
      BY <2>2, <3>1, <3>2, <1>1
    <3>3. CASE ChannelOf[c] # ch
      BY <3>1, <3>3, <1>1
    <3>4. QED
      BY <3>2, <3>3
  <2>3. QED
    BY <2>1, <2>2
<1>6. FailedClosed'
  BY DEF RegistryInv, FailedClosed
<1> QED
  BY <1>4, <1>5, <1>6 DEF RegistryInv

LEMMA RegistryNext == TypeInv /\ RegistryInv /\ [Next]_vars => RegistryInv'
<1> SUFFICES ASSUME TypeInv, RegistryInv, [Next]_vars PROVE RegistryInv'
  OBVIOUS
<1>0. /\ TypeOK
      /\ DOMAIN rooms \subseteq Channels /\ rooms \in [DOMAIN rooms -> SUBSET Conns]
      /\ handler \in [Conns -> States] /\ conn \in [Conns -> {"open", "closed"}]
      /\ failed \in [Conns -> SUBSET Conns]
      /\ \A h \in Conns : \A d \in failed[h] : conn[d] = "closed"
      /\ \A c \in Conns : handler[c] \in Serving /\ conn[c] = "open" => c \in Room(ChannelOf[c])
  BY DEF TypeInv, TypeOK, RegistryInv, FailedClosed, ServedIsRegistered
<1> USE <1>0 DEF Goto, loopVars
\* The steps of a goroutine that stays in, or stays out of, its read loop.
<1>1. ASSUME NEW g \in Conns,
             \/ ReadText(g) \/ ReadControl(g) \/ WriteReply(g) \/ ReadFails(g)
             \/ ReadTimesOut(g) \/ SaveMessage(g) \/ LockClient(g) \/ WriteHead(g)
             \/ WriteFails(g)
      PROVE  RegistryInv'
  <2>1. /\ handler[g] \in Serving /\ UNCHANGED <<rooms, conn, failed>>
        /\ \E s \in Serving : handler' = [handler EXCEPT ![g] = s]
    BY <1>1 DEF ReadText, ReadControl, WriteReply, ReadFails, ReadTimesOut, SaveMessage,
         LockClient, WriteHead, WriteFails, Serving, InLoop
  <2>2. QED
    BY <2>1, RegistryKept
<1>2. ASSUME NEW g \in Conns, JoinRefused(g) \/ CloseConn(g) PROVE RegistryInv'
  <2>1. /\ handler[g] \in {"join", "close"} /\ UNCHANGED <<rooms, failed>>
        /\ handler' = [handler EXCEPT ![g] = "done"]
        /\ conn' = [conn EXCEPT ![g] = "closed"]
    BY <1>2 DEF JoinRefused, CloseConn
  <2>2. /\ \A c \in Conns : conn'[c] = "open" => conn[c] = "open"
        /\ \A c \in Conns : handler[c] \in Serving => handler'[c] \in Serving
        /\ \A c \in Conns : handler'[c] \in Serving => handler[c] \in Serving
        /\ \A h \in Conns : \A d \in failed'[h] : conn'[d] = "closed"
    BY <2>1 DEF Serving, InLoop
  <2>3. QED
    BY <2>1, <2>2, RegistryKept
<1>3. ASSUME NEW g \in Conns, Snapshot(g) PROVE RegistryInv'
  <2>1. /\ handler[g] = "snapshot" /\ UNCHANGED <<rooms, conn, failed>>
        /\ handler'[g] \in {"read", "lock"}
        /\ \A h \in Conns \ {g} : handler'[h] = handler[h]
    BY <1>3 DEF Snapshot
  <2>2. /\ \A c \in Conns : handler[c] \in Serving => handler'[c] \in Serving
        /\ \A c \in Conns : handler'[c] \in Serving => handler[c] \in Serving
    BY <2>1 DEF Serving, InLoop
  <2>3. QED
    BY <2>1, <2>2, RegistryKept
<1>4. ASSUME NEW g \in Conns, WriteBody(g) PROVE RegistryInv'
  <2>1. NextClient(g, failed[g]) /\ handler[g] = "body" /\ UNCHANGED <<rooms, conn>>
    BY <1>4 DEF WriteBody
  <2>2. /\ handler'[g] \in {"lock", "read", "prune"}
        /\ \A h \in Conns \ {g} : handler'[h] = handler[h]
        /\ failed' = [failed EXCEPT ![g] = failed[g]]
    BY <2>1, NextClientType
  <2>3. /\ \A c \in Conns : handler[c] \in Serving => handler'[c] \in Serving
        /\ \A c \in Conns : handler'[c] \in Serving => handler[c] \in Serving
    BY <2>1, <2>2 DEF Serving, InLoop
  <2>4. \A h \in Conns : \A d \in failed'[h] : conn'[d] = "closed"
    BY <2>1, <2>2
  <2>5. QED
    BY <2>1, <2>3, <2>4, RegistryKept
<1>5. ASSUME NEW g \in Conns, CloseFailed(g) PROVE RegistryInv'
  <2>1. /\ NextClient(g, failed[g] \cup {cur[g]}) /\ handler[g] = "drop"
        /\ conn' = [conn EXCEPT ![cur[g]] = "closed"] /\ rooms' = rooms
    BY <1>5 DEF CloseFailed
  <2>2. cur[g] \in Conns
    BY <2>1 DEF TypeInv, CurOK, InLoop
  <2>3. /\ handler'[g] \in {"lock", "read", "prune"}
        /\ \A h \in Conns \ {g} : handler'[h] = handler[h]
        /\ failed' = [failed EXCEPT ![g] = failed[g] \cup {cur[g]}]
    BY <2>1, <2>2, NextClientType
  <2>4. /\ \A c \in Conns : handler[c] \in Serving => handler'[c] \in Serving
        /\ \A c \in Conns : handler'[c] \in Serving => handler[c] \in Serving
    BY <2>1, <2>3 DEF Serving, InLoop
  <2>5. /\ \A h \in Conns : \A d \in failed'[h] : conn'[d] = "closed"
        /\ \A c \in Conns : conn'[c] = "open" => conn[c] = "open"
    BY <2>1, <2>2, <2>3
  <2>6. QED
    BY <2>1, <2>4, <2>5, RegistryKept
\* The three steps that write to the map.
<1>6. ASSUME NEW g \in Conns, JoinRoom(g) PROVE RegistryInv'
  <2> DEFINE S == Room(ChannelOf[g]) \cup {g}
  <2>1. /\ rooms' = SetRoom(ChannelOf[g], S) /\ UNCHANGED <<conn, failed>>
        /\ handler' = [handler EXCEPT ![g] = "read"]
    BY <1>6 DEF JoinRoom
  <2>2. S \in SUBSET Conns
    BY RoomType
  <2>3. handler'[g] \in Serving /\ \A h \in Conns \ {g} : handler'[h] = handler[h]
    BY <2>1 DEF Serving
  <2> HIDE DEF S
  <2>4. /\ S \subseteq Room(ChannelOf[g]) \cup {g} /\ g \in S
        /\ Room(ChannelOf[g]) \ S = {}
    BY DEF S
  <2>5. QED
    BY <2>1, <2>2, <2>3, <2>4, RegistrySet
<1>7. ASSUME NEW g \in Conns, LeaveRoom(g) PROVE RegistryInv'
  <2> DEFINE S == Room(ChannelOf[g]) \ {g}
  <2>1. /\ rooms' = SetRoom(ChannelOf[g], S) /\ UNCHANGED <<conn, failed>>
        /\ handler' = [handler EXCEPT ![g] = "close"]
    BY <1>7 DEF LeaveRoom
  <2>2. S \in SUBSET Conns
    BY RoomType
  <2>3. handler'[g] \notin Serving /\ \A h \in Conns \ {g} : handler'[h] = handler[h]
    BY <2>1 DEF Serving, InLoop
  <2> HIDE DEF S
  <2>4. /\ S \subseteq Room(ChannelOf[g]) \cup {g} /\ g \notin S
        /\ \A c \in Room(ChannelOf[g]) \ S : c = g
    BY DEF S
  <2>5. QED
    BY <2>1, <2>2, <2>3, <2>4, RegistrySet
<1>8. ASSUME NEW g \in Conns, Prune(g) PROVE RegistryInv'
  <2> DEFINE S == Room(ChannelOf[g]) \ failed[g]
  <2>1. /\ rooms' = SetRoom(ChannelOf[g], S) /\ UNCHANGED conn
        /\ failed' = [failed EXCEPT ![g] = {}]
        /\ handler[g] = "prune" /\ handler' = [handler EXCEPT ![g] = "read"]
    BY <1>8 DEF Prune
  <2>2. S \in SUBSET Conns
    BY RoomType
  <2>3. handler'[g] \in Serving /\ \A h \in Conns \ {g} : handler'[h] = handler[h]
    BY <2>1 DEF Serving
  <2>4. \A h \in Conns : failed'[h] \subseteq failed[h]
    BY <2>1
  <2>5. g \notin S => conn[g] = "closed"
    BY <2>1 DEF Serving
  <2>6. \A c \in Room(ChannelOf[g]) \ S : conn[c] = "closed"
    OBVIOUS
  <2>7. S \subseteq Room(ChannelOf[g]) \cup {g}
    OBVIOUS
  <2> HIDE DEF S
  <2>8. QED
    BY <2>1, <2>2, <2>3, <2>4, <2>5, <2>6, <2>7, RegistrySet
<1>9. ASSUME NEW g \in Conns, Peer(g) PROVE RegistryInv'
  <2>1. UNCHANGED <<rooms, conn, failed, handler>>
    BY <1>9 DEF Peer, PeerLeaves, PeerStalls, PeerResumes
  <2>2. QED
    BY <2>1, RegistryKept
<1>10. CASE UNCHANGED vars
  BY <1>10, RegistryKept DEF vars
<1> QED
  BY <1>1, <1>2, <1>3, <1>4, <1>5, <1>6, <1>7, <1>8, <1>9, <1>10
  DEF Next, Serve, Arrive, Finished

\* The strengthening is an invariant.
LEMMA RegistryAlways == Spec => []RegistryInv
<1>1. Init => RegistryInv
  BY DEF Init, RegistryInv, RegistryIsClean, ServedIsRegistered, FailedClosed, Serving, InLoop
<1> QED
  BY <1>1, RegistryNext, TypeAlways, PTL DEF Spec

\* No leak: the room index holds only connections that are being served, each
\* in the room of its channel, and has no empty room, whatever fails and
\* whoever prunes (JoinRoom, LeaveRoom, BroadcastToRoom).
THEOREM RegistrySafe == Spec => []RegistryIsClean
<1>1. RegistryInv => RegistryIsClean
  BY DEF RegistryInv
<1> QED
  BY <1>1, RegistryAlways, PTL

\* No loss: an open connection in service is registered; a prune from a stale
\* snapshot takes out none that still works (BroadcastToRoom).
THEOREM NoLostSubscriber == Spec => []ServedIsRegistered
<1>1. RegistryInv => ServedIsRegistered
  BY DEF RegistryInv
<1> QED
  BY <1>1, RegistryAlways, PTL

-----------------------------------------------------------------------------
\* A dead connection stays dead and what reached a wire stays there.
LEMMA Persists ==
  ASSUME TypeInv, [Next]_vars, NEW d \in Conns
  PROVE  /\ Dead(d) => Dead(d)'
         /\ \A m : Received(d, m) => Received(d, m)'
<1>0. /\ conn \in [Conns -> {"open", "closed"}] /\ wire \in [Conns -> Seq(Piece)]
      /\ cur \in [Conns -> Conns \cup {None}]
  BY DEF TypeInv, TypeOK
<1>1. /\ gone \subseteq gone'
      /\ \/ conn' = conn
         \/ \E c : conn' = [conn EXCEPT ![c] = "closed"]
  <2>1. ASSUME NEW g \in Conns, Serve(g) \/ Arrive(g) \/ ReadTimesOut(g)
        PROVE  gone' = gone /\ (conn' = conn \/ \E c : conn' = [conn EXCEPT ![c] = "closed"])
    BY <2>1 DEF Serve, Arrive, JoinRefused, JoinRoom, ReadText, ReadControl, WriteReply,
         ReadFails, ReadTimesOut, LeaveRoom, CloseConn, SaveMessage, Snapshot, LockClient,
         WriteHead, WriteBody, WriteFails, CloseFailed, Prune, peerVars
  <2>2. ASSUME NEW g \in Conns, Peer(g) PROVE gone \subseteq gone' /\ conn' = conn
    BY <2>2 DEF Peer, PeerLeaves, PeerStalls, PeerResumes
  <2>3. CASE UNCHANGED vars
    BY <2>3 DEF vars
  <2>4. QED
    BY <2>1, <2>2, <2>3 DEF Next, Finished
<1>2. wire' = wire \/ \E e \in Conns, p \in Piece : wire' = [wire EXCEPT ![e] = Append(@, p)]
  <2>1. ASSUME NEW g \in Conns, WriteReply(g)
        PROVE  wire' = wire \/ wire' = [wire EXCEPT ![g] = Append(@, Pong)]
    BY <2>1 DEF WriteReply, WriteOK
  <2>2. ASSUME NEW g \in Conns, WriteHead(g) \/ WriteBody(g)
        PROVE  \/ wire' = wire
               \/ \E p \in Piece : wire' = [wire EXCEPT ![cur[g]] = Append(@, p)]
    <3>1. Msg(g) \in Message
      BY <2>2, MsgType DEF WriteHead, WriteBody, InLoop
    <3>2. QED
      BY <2>2, <3>1 DEF WriteHead, WriteBody, WriteOK, Piece
  <2>3. ASSUME NEW g \in Conns, WriteHead(g) \/ WriteBody(g) PROVE cur[g] \in Conns
    BY <2>3 DEF WriteHead, WriteBody, TypeInv, CurOK, InLoop
  <2>4. Pong \in Piece
    BY DEF Pong, Piece
  <2>5. ASSUME NEW g \in Conns,
               \/ JoinRefused(g) \/ JoinRoom(g) \/ Arrive(g) \/ ReadFails(g)
               \/ ReadTimesOut(g) \/ LeaveRoom(g) \/ CloseConn(g) \/ SaveMessage(g)
               \/ Snapshot(g) \/ LockClient(g) \/ WriteFails(g) \/ CloseFailed(g)
               \/ Prune(g) \/ Peer(g)
        PROVE  wire' = wire
    BY <2>5 DEF JoinRefused, JoinRoom, Arrive, ReadText, ReadControl, ReadFails,
         ReadTimesOut, LeaveRoom, CloseConn, SaveMessage, Snapshot, LockClient,
         WriteFails, CloseFailed, Prune, Peer, PeerLeaves, PeerStalls, PeerResumes
  <2>6. CASE UNCHANGED vars
    BY <2>6 DEF vars
  <2>7. QED
    BY <2>1, <2>2, <2>3, <2>4, <2>5, <2>6 DEF Next, Serve, Finished
<1>3. Dead(d) => Dead(d)'
  BY <1>0, <1>1 DEF Dead
<1>4. ASSUME NEW m, Received(d, m) PROVE Received(d, m)'
  <2>1. PICK i \in 1..Len(wire[d]) : wire[d][i] = [kind |-> "body", msg |-> m]
    BY <1>4 DEF Received
  <2>2. i \in 1..Len(wire'[d]) /\ wire'[d][i] = wire[d][i]
    <3>1. CASE wire' = wire
      BY <3>1
    <3>2. ASSUME NEW e \in Conns, NEW p \in Piece, wire' = [wire EXCEPT ![e] = Append(@, p)]
          PROVE  i \in 1..Len(wire'[d]) /\ wire'[d][i] = wire[d][i]
      BY <1>0, <3>2
    <3>3. QED
      BY <1>2, <3>1, <3>2
  <2>3. QED
    BY <2>1, <2>2 DEF Received
<1> QED
  BY <1>3, <1>4

\* What a step does to the write loop of h: it stays outside, keeps its place,
\* enters at the first client of a snapshot, or has served its client (which
\* is dead or has the payload) and moves to the next one or ends.
OutsideLoop(h) == handler[h] \notin InLoop /\ handler'[h] \notin InLoop
SamePlace(h) ==
  /\ handler[h] \in InLoop /\ handler'[h] \in InLoop
  /\ clients'[h] = clients[h] /\ todo'[h] = todo[h] /\ cur'[h] = cur[h]
  /\ sent'[h] = sent[h]
EntersLoop(h) ==
  handler[h] \notin InLoop /\ todo'[h] = clients'[h] \ {cur'[h]}
ServedClient(h) ==
  /\ handler[h] \in InLoop /\ sent'[h] = sent[h]
  /\ \A d \in {cur[h]} : Dead(d)' \/ Received(d, Msg(h))'
  /\ \/ /\ clients'[h] = clients[h] /\ todo'[h] = todo[h] \ {cur'[h]}
        /\ handler'[h] \in InLoop
     \/ todo[h] = {} /\ handler'[h] \notin InLoop
LoopStep(h) == OutsideLoop(h) \/ SamePlace(h) \/ EntersLoop(h) \/ ServedClient(h)

LEMMA NextClientLoop ==
  ASSUME TypeInv, NEW h \in Conns, NEW bad \in SUBSET Conns, NextClient(h, bad)
  PROVE  /\ \/ /\ clients'[h] = clients[h] /\ todo'[h] = todo[h] \ {cur'[h]}
               /\ handler'[h] \in InLoop
            \/ todo[h] = {} /\ handler'[h] \notin InLoop
         /\ \A g \in Conns \ {h} : /\ clients'[g] = clients[g] /\ todo'[g] = todo[g]
                                   /\ cur'[g] = cur[g] /\ handler'[g] = handler[g]
<1>0. /\ handler \in [Conns -> States] /\ cur \in [Conns -> Conns \cup {None}]
      /\ clients \in [Conns -> SUBSET Conns] /\ todo \in [Conns -> SUBSET Conns]
  BY DEF TypeInv, TypeOK
<1>1. ASSUME NEW d \in todo[h],
             cur' = [cur EXCEPT ![h] = d], todo' = [todo EXCEPT ![h] = @ \ {d}],
             Goto(h, "lock"), UNCHANGED clients
      PROVE  /\ clients'[h] = clients[h] /\ todo'[h] = todo[h] \ {cur'[h]}
             /\ handler'[h] \in InLoop
             /\ \A g \in Conns \ {h} : /\ clients'[g] = clients[g] /\ todo'[g] = todo[g]
                                       /\ cur'[g] = cur[g] /\ handler'[g] = handler[g]
  BY <1>0, <1>1 DEF Goto, InLoop
<1>2. ASSUME todo[h] = {}, cur' = [cur EXCEPT ![h] = None],
             Goto(h, IF bad = {} THEN "read" ELSE "prune"),
             clients' = IF bad = {} THEN [clients EXCEPT ![h] = {}] ELSE clients,
             UNCHANGED todo
      PROVE  /\ handler'[h] \notin InLoop
             /\ \A g \in Conns \ {h} : /\ clients'[g] = clients[g] /\ todo'[g] = todo[g]
                                       /\ cur'[g] = cur[g] /\ handler'[g] = handler[g]
  <2>1. CASE bad = {}
    BY <1>0, <1>2, <2>1 DEF Goto, InLoop
  <2>2. CASE bad # {}
    BY <1>0, <1>2, <2>2 DEF Goto, InLoop
  <2>3. QED
    BY <2>1, <2>2
<1> QED
  BY <1>1, <1>2, Zenon DEF NextClient

LEMMA LoopSteps == ASSUME TypeInv, [Next]_vars, NEW h \in Conns PROVE LoopStep(h)
<1>0. /\ handler \in [Conns -> States] /\ cur \in [Conns -> Conns \cup {None}]
      /\ clients \in [Conns -> SUBSET Conns] /\ todo \in [Conns -> SUBSET Conns]
      /\ sent \in [Conns -> Nat] /\ failed \in [Conns -> SUBSET Conns]
      /\ wire \in [Conns -> Seq(Piece)] /\ conn \in [Conns -> {"open", "closed"}]
  BY DEF TypeInv, TypeOK
<1> USE <1>0 DEF Goto, loopVars, countVars
\* A step that leaves h as it is.
<1>1. ASSUME clients'[h] = clients[h], todo'[h] = todo[h], cur'[h] = cur[h],
             handler'[h] = handler[h], handler[h] \in InLoop => sent'[h] = sent[h]
      PROVE  LoopStep(h)
  BY <1>1 DEF LoopStep, OutsideLoop, SamePlace
<1>2. ASSUME NEW g \in Conns,
             \/ JoinRefused(g) \/ JoinRoom(g) \/ ReadText(g) \/ ReadControl(g)
             \/ WriteReply(g) \/ ReadFails(g) \/ ReadTimesOut(g) \/ LeaveRoom(g)
             \/ CloseConn(g) \/ SaveMessage(g)
      PROVE  LoopStep(h)
  <2>1. /\ UNCHANGED <<clients, todo, cur>>
        /\ \E s \in States \ InLoop : handler' = [handler EXCEPT ![g] = s]
        /\ handler[g] \notin InLoop
        /\ \A f \in Conns \ {g} : sent'[f] = sent[f]
    BY <1>2 DEF JoinRefused, JoinRoom, ReadText, ReadControl, WriteReply, ReadFails,
         ReadTimesOut, LeaveRoom, CloseConn, SaveMessage, States, Serving, InLoop
  <2>2. CASE g = h
    BY <2>1, <2>2 DEF LoopStep, OutsideLoop
  <2>3. CASE g # h
    BY <2>1, <2>3, <1>1
  <2>4. QED
    BY <2>2, <2>3
<1>3. ASSUME NEW g \in Conns, Prune(g) PROVE LoopStep(h)
  <2>1. /\ UNCHANGED <<todo, cur, sent>> /\ clients' = [clients EXCEPT ![g] = {}]
        /\ handler[g] = "prune" /\ handler' = [handler EXCEPT ![g] = "read"]
    BY <1>3 DEF Prune
  <2>2. CASE g = h
    BY <2>1, <2>2 DEF LoopStep, OutsideLoop, InLoop
  <2>3. CASE g # h
    BY <2>1, <2>3, <1>1
  <2>4. QED
    BY <2>2, <2>3
<1>4. ASSUME NEW g \in Conns, Snapshot(g) PROVE LoopStep(h)
  <2>1. /\ UNCHANGED sent /\ handler[g] = "snapshot"
        /\ \A f \in Conns \ {g} : /\ clients'[f] = clients[f] /\ todo'[f] = todo[f]
                                  /\ cur'[f] = cur[f] /\ handler'[f] = handler[f]
    BY <1>4 DEF Snapshot
  <2>2. \/ handler'[g] = "read"
        \/ todo'[g] = clients'[g] \ {cur'[g]}
    BY <1>4 DEF Snapshot
  <2>3. CASE g = h
    BY <2>1, <2>2, <2>3 DEF LoopStep, OutsideLoop, EntersLoop, InLoop
  <2>4. CASE g # h
    BY <2>1, <2>4, <1>1
  <2>5. QED
    BY <2>3, <2>4
<1>5. ASSUME NEW g \in Conns, LockClient(g) \/ WriteHead(g) \/ WriteFails(g)
      PROVE  LoopStep(h)
  <2>1. /\ UNCHANGED <<clients, todo, cur, sent>> /\ handler[g] \in InLoop
        /\ \E s \in InLoop : handler' = [handler EXCEPT ![g] = s]
    BY <1>5 DEF LockClient, WriteHead, WriteFails, InLoop
  <2>2. CASE g = h
    BY <2>1, <2>2 DEF LoopStep, SamePlace
  <2>3. CASE g # h
    BY <2>1, <2>3, <1>1
  <2>4. QED
    BY <2>2, <2>3
<1>6. ASSUME NEW g \in Conns, WriteBody(g) PROVE LoopStep(h)
  <2>1. /\ NextClient(g, failed[g]) /\ handler[g] = "body" /\ UNCHANGED <<sent, gone, conn>>
        /\ WriteOK(cur[g], [kind |-> "body", msg |-> Msg(g)])
    BY <1>6 DEF WriteBody, peerVars
  <2>2. cur[g] \in Conns
    BY <2>1 DEF TypeInv, CurOK, InLoop
  <2>3. \A d \in {cur[g]} : Dead(d)' \/ Received(d, Msg(g))'
    <3> SUFFICES ASSUME NEW d \in Conns, d = cur[g] PROVE Dead(d)' \/ Received(d, Msg(g))'
      BY <2>2
    <3>1. CASE d \in gone
      BY <2>1, <3>1 DEF Dead
    <3>2. CASE d \notin gone
      <4> DEFINE p == [kind |-> "body", msg |-> Msg(g)]
      <4>1. wire' = [wire EXCEPT ![d] = Append(@, p)]
        BY <2>1, <3>2 DEF WriteOK
      <4>2. p \in Piece
        BY <2>1, MsgType DEF Piece, InLoop
      <4> HIDE DEF p
      <4>3. wire'[d] = Append(wire[d], p) /\ wire[d] \in Seq(Piece)
        BY <4>1
      <4>4. Len(wire'[d]) \in 1..Len(wire'[d]) /\ wire'[d][Len(wire'[d])] = p
        BY <4>2, <4>3
      <4>5. p = [kind |-> "body", msg |-> Msg(g)'] 
        BY <2>1 DEF p, Msg
      <4>6. QED
        BY <4>4, <4>5 DEF Received
    <3>3. QED
      BY <3>1, <3>2
  <2>4. /\ \/ /\ clients'[g] = clients[g] /\ todo'[g] = todo[g] \ {cur'[g]}
              /\ handler'[g] \in InLoop
           \/ todo[g] = {} /\ handler'[g] \notin InLoop
        /\ \A f \in Conns \ {g} : /\ clients'[f] = clients[f] /\ todo'[f] = todo[f]
                                  /\ cur'[f] = cur[f] /\ handler'[f] = handler[f]
    BY <2>1, NextClientLoop
  <2>5. CASE g = h
    BY <2>1, <2>3, <2>4, <2>5 DEF LoopStep, ServedClient, InLoop
  <2>6. CASE g # h
    BY <2>1, <2>4, <2>6, <1>1
  <2>7. QED
    BY <2>5, <2>6
<1>7. ASSUME NEW g \in Conns, CloseFailed(g) PROVE LoopStep(h)
  <2>1. /\ NextClient(g, failed[g] \cup {cur[g]}) /\ handler[g] = "drop" /\ UNCHANGED sent
        /\ conn' = [conn EXCEPT ![cur[g]] = "closed"]
    BY <1>7 DEF CloseFailed
  <2>2. cur[g] \in Conns
    BY <2>1 DEF TypeInv, CurOK, InLoop
  <2>3. \A d \in {cur[g]} : Dead(d)' \/ Received(d, Msg(g))'
    BY <2>1, <2>2 DEF Dead
  <2>4. failed[g] \cup {cur[g]} \in SUBSET Conns
    BY <2>2
  <2>5. /\ \/ /\ clients'[g] = clients[g] /\ todo'[g] = todo[g] \ {cur'[g]}
              /\ handler'[g] \in InLoop
           \/ todo[g] = {} /\ handler'[g] \notin InLoop
        /\ \A f \in Conns \ {g} : /\ clients'[f] = clients[f] /\ todo'[f] = todo[f]
                                  /\ cur'[f] = cur[f] /\ handler'[f] = handler[f]
    BY <2>1, <2>4, NextClientLoop
  <2>6. CASE g = h
    BY <2>1, <2>3, <2>5, <2>6 DEF LoopStep, ServedClient, InLoop
  <2>7. CASE g # h
    BY <2>1, <2>5, <2>7, <1>1
  <2>8. QED
    BY <2>6, <2>7
<1>8. ASSUME NEW g \in Conns, Peer(g) PROVE LoopStep(h)
  BY <1>1, <1>8 DEF Peer, PeerLeaves, PeerStalls, PeerResumes
<1>9. CASE UNCHANGED vars
  BY <1>1, <1>9 DEF vars
<1> QED
  BY <1>2, <1>3, <1>4, <1>5, <1>6, <1>7, <1>8, <1>9 DEF Next, Serve, Arrive, Finished

\* In the loop, the clients behind the current one are dead or served.
Reached ==
  \A h \in Conns : handler[h] \in InLoop =>
    \A d \in (clients[h] \ todo[h]) \ {cur[h]} : Dead(d) \/ Received(d, Msg(h))

BroadcastStep ==
  \A h \in Conns :
    handler[h] \in InLoop /\ handler'[h] \notin InLoop =>
      \A d \in clients[h] : Dead(d)' \/ Received(d, Msg(h))'

\* What a step keeps of the clients that have been served.
LEMMA ServedKept ==
  ASSUME TypeInv, [Next]_vars, NEW h \in Conns, NEW d \in Conns,
         Dead(d) \/ Received(d, Msg(h)), sent'[h] = sent[h]
  PROVE  Dead(d)' \/ Received(d, Msg(h))'
<1>1. Msg(h)' = Msg(h)
  BY DEF Msg
<1>2. CASE Dead(d)
  BY <1>2, Persists
<1>3. CASE Received(d, Msg(h))
  <2>1. \A m : Received(d, m) => Received(d, m)'
    BY Persists
  <2>2. QED
    BY <1>1, <1>3, <2>1 DEF Received
<1> QED
  BY <1>2, <1>3

LEMMA ReachedNext == ASSUME TypeInv, Reached, [Next]_vars PROVE Reached' /\ BroadcastStep
<1>0. \A h \in Conns : clients[h] \subseteq Conns
  BY DEF TypeInv, TypeOK
<1>1. ASSUME NEW h \in Conns, handler'[h] \in InLoop,
             NEW d \in (clients'[h] \ todo'[h]) \ {cur'[h]}
      PROVE  Dead(d)' \/ Received(d, Msg(h))'
  <2>1. SamePlace(h) \/ EntersLoop(h) \/ ServedClient(h)
    BY <1>1, LoopSteps DEF LoopStep, OutsideLoop
  <2>2. CASE SamePlace(h)
    BY <1>0, <1>1, <2>2, ServedKept DEF SamePlace, Reached
  <2>3. CASE EntersLoop(h)
    BY <1>1, <2>3 DEF EntersLoop
  <2>4. CASE ServedClient(h)
    <3>1. d \in clients[h] \ todo[h]
      BY <1>1, <2>4 DEF ServedClient
    <3>2. CASE d = cur[h]
      BY <2>4, <3>2 DEF ServedClient
    <3>3. CASE d # cur[h]
      BY <1>0, <2>4, <3>1, <3>3, ServedKept DEF ServedClient, Reached
    <3>4. QED
      BY <3>2, <3>3
  <2>5. QED
    BY <2>1, <2>2, <2>3, <2>4
<1>2. ASSUME NEW h \in Conns, handler[h] \in InLoop, handler'[h] \notin InLoop,
             NEW d \in clients[h]
      PROVE  Dead(d)' \/ Received(d, Msg(h))'
  <2>1. ServedClient(h) /\ todo[h] = {}
    BY <1>2, LoopSteps DEF LoopStep, OutsideLoop, SamePlace, EntersLoop, ServedClient
  <2>2. CASE d = cur[h]
    BY <2>1, <2>2 DEF ServedClient
  <2>3. CASE d # cur[h]
    BY <1>0, <1>2, <2>1, <2>3, ServedKept DEF ServedClient, Reached
  <2>4. QED
    BY <2>2, <2>3
<1>3. Reached'
  BY <1>1, Zenon DEF Reached
<1>4. BroadcastStep
  BY <1>2, Zenon DEF BroadcastStep
<1> QED
  BY <1>3, <1>4

\* A broadcast leaves nobody out: when it ends, each client of its snapshot is
\* dead or has the whole message, whoever else failed, left, joined or
\* broadcast meanwhile (BroadcastToRoom).
THEOREM BroadcastComplete == Spec => BroadcastReachesLive
<1>1. Init => Reached
  BY DEF Init, Reached, InLoop
<1>2. BroadcastStep <=> \A h \in Conns :
       handler[h] \in InLoop /\ handler'[h] \notin InLoop =>
         \A d \in clients[h] : Dead(d)' \/ Received(d, Msg(h))'
  BY Zenon DEF BroadcastStep
<1>3. TypeInv /\ Reached /\ [Next]_vars => Reached' /\ [BroadcastStep]_vars
  BY ReachedNext
<1> QED
  BY <1>1, <1>2, <1>3, TypeAlways, PTL DEF Spec, BroadcastReachesLive

-----------------------------------------------------------------------------
\* A wire that is in order, a frame that has been begun on it, and a wire on
\* which none is: the pieces that count are the last ones, pongs apart.
HeadOf(m) == [kind |-> "head", msg |-> m]
BodyOf(m) == [kind |-> "body", msg |-> m]
NotTorn(w) ==
  \A j \in 1..Len(w) :
    /\ \A i \in 1..Len(w) : w[i].kind = "head" /\ Follows(w, i, j) => w[j] = BodyOf(w[i].msg)
    /\ w[j].kind = "body" => \E i \in 1..Len(w) : Follows(w, i, j) /\ w[i] = HeadOf(w[j].msg)
Begun(w, m) == \E i \in 1..Len(w) : w[i] = HeadOf(m) /\ \A k \in (i + 1)..Len(w) : w[k] = Pong
Ended(w) == \A i \in 1..Len(w) : w[i].kind = "head" => \E k \in (i + 1)..Len(w) : w[k] # Pong

\* What is appended does not change what was behind what.
Grown(w, p, v, n) ==
  /\ n \in Nat /\ Len(v) = n + 1 /\ v[n + 1] = p
  /\ \A i \in 1..n : v[i] = w[i] /\ w[i] \in Piece
  /\ \A i \in 1..n : \A j \in 1..n : Follows(v, i, j) <=> Follows(w, i, j)
  /\ \A i \in 1..(n + 1) : Follows(v, i, n + 1) <=>
       i \in 1..n /\ p # Pong /\ \A k \in (i + 1)..n : w[k] = Pong

LEMMA Appended ==
  ASSUME NEW w \in Seq(Piece), NEW p \in Piece, NEW v, v = Append(w, p), NEW n, n = Len(w)
  PROVE  Grown(w, p, v, n)
<1>1. n \in Nat /\ Len(v) = n + 1 /\ v[n + 1] = p /\ \A i \in 1..n : v[i] = w[i] /\ w[i] \in Piece
  OBVIOUS
<1>2. ASSUME NEW i \in 1..n, NEW j \in 1..n PROVE Follows(v, i, j) <=> Follows(w, i, j)
  <2>1. \A k \in (i + 1)..(j - 1) : k \in 1..n
    BY <1>1
  <2> QED
    BY <1>1, <2>1 DEF Follows
<1>3. ASSUME NEW i \in 1..(n + 1)
      PROVE  Follows(v, i, n + 1) <=> i \in 1..n /\ p # Pong /\ \A k \in (i + 1)..n : w[k] = Pong
  <2>1. (n + 1) - 1 = n /\ (i < n + 1 <=> i \in 1..n) /\ \A k \in (i + 1)..n : k \in 1..n
    BY <1>1
  <2> QED
    BY <1>1, <2>1 DEF Follows
<1> QED
  BY <1>1, <1>2, <1>3 DEF Grown

\* So a wire stays in order if the new piece is in its place.
LEMMA NotTornAppend ==
  ASSUME NEW w \in Seq(Piece), NEW p \in Piece, NotTorn(w),
         p # Pong => \A i \in 1..Len(w) :
            w[i].kind = "head" /\ (\A k \in (i + 1)..Len(w) : w[k] = Pong) => p = BodyOf(w[i].msg),
         p.kind = "body" => Begun(w, p.msg)
  PROVE  NotTorn(Append(w, p))
<1>1. PICK v, n : v = Append(w, p) /\ n = Len(w)
  OBVIOUS
<1>2. /\ n \in Nat /\ Len(v) = n + 1 /\ v[n + 1] = p
      /\ \A i \in 1..n : v[i] = w[i] /\ w[i] \in Piece
      /\ \A i \in 1..n : \A j \in 1..n : Follows(v, i, j) <=> Follows(w, i, j)
      /\ \A i \in 1..(n + 1) : Follows(v, i, n + 1) <=>
           i \in 1..n /\ p # Pong /\ \A k \in (i + 1)..n : w[k] = Pong
  <2>1. Grown(w, p, v, n)
    BY <1>1, Appended
  <2> QED
    BY <2>1 DEF Grown
<1>3. \A i \in 1..(n + 1) : i \in 1..n \/ i = n + 1
  BY <1>2
<1>4. \A i \in 1..n : i \in 1..(n + 1)
  BY <1>2
<1>5. ASSUME NEW j \in 1..(n + 1), NEW i \in 1..(n + 1), v[i].kind = "head", Follows(v, i, j)
      PROVE  v[j] = BodyOf(v[i].msg)
  <2>1. CASE j \in 1..n
    <3>1. i \in 1..n
      BY <1>2, <1>5, <2>1 DEF Follows
    <3> QED
      BY <1>1, <1>2, <1>5, <2>1, <3>1 DEF NotTorn
  <2>2. CASE j = n + 1
    BY <1>1, <1>2, <1>5, <2>2
  <2> QED
    BY <1>3, <2>1, <2>2
<1>6. ASSUME NEW j \in 1..(n + 1), v[j].kind = "body"
      PROVE  \E i \in 1..(n + 1) : Follows(v, i, j) /\ v[i] = HeadOf(v[j].msg)
  <2>1. CASE j \in 1..n
    BY <1>1, <1>2, <1>4, <1>6, <2>1 DEF NotTorn
  <2>2. CASE j = n + 1
    <3>1. p # Pong /\ Begun(w, p.msg)
      BY <1>2, <1>6, <2>2 DEF Pong
    <3>2. PICK i \in 1..n : w[i] = HeadOf(p.msg) /\ \A k \in (i + 1)..n : w[k] = Pong
      BY <1>1, <3>1 DEF Begun
    <3> QED
      BY <1>2, <1>4, <2>2, <3>1, <3>2
  <2> QED
    BY <1>3, <2>1, <2>2
<1> QED
  BY <1>1, <1>2, <1>5, <1>6 DEF NotTorn

LEMMA AppendPong ==
  ASSUME NEW w \in Seq(Piece), NotTorn(w)
  PROVE  /\ NotTorn(Append(w, Pong))
         /\ \A m : Begun(w, m) => Begun(Append(w, Pong), m)
         /\ Ended(w) => Ended(Append(w, Pong))
<1>1. Pong \in Piece /\ Pong.kind = "pong"
  BY DEF Pong, Piece
<1>2. PICK v, n : v = Append(w, Pong) /\ n = Len(w)
  OBVIOUS
<1>3. n \in Nat /\ Len(v) = n + 1 /\ v[n + 1] = Pong /\ \A i \in 1..n : v[i] = w[i]
  BY <1>1, <1>2
<1>4. NotTorn(v)
  BY <1>1, <1>2, NotTornAppend
<1>5. ASSUME NEW m, Begun(w, m) PROVE Begun(v, m)
  <2>1. PICK i \in 1..n : w[i] = HeadOf(m) /\ \A k \in (i + 1)..n : w[k] = Pong
    BY <1>2, <1>5 DEF Begun
  <2>2. i \in 1..(n + 1) /\ \A k \in (i + 1)..(n + 1) : k = n + 1 \/ (k \in (i + 1)..n /\ k \in 1..n)
    BY <1>3
  <2> QED
    BY <1>3, <2>1, <2>2 DEF Begun
<1>6. ASSUME Ended(w) PROVE Ended(v)
  <2> SUFFICES ASSUME NEW i \in 1..(n + 1), v[i].kind = "head" PROVE \E k \in (i + 1)..(n + 1) : v[k] # Pong
    BY <1>3 DEF Ended
  <2>1. i \in 1..n
    BY <1>1, <1>3
  <2>2. PICK k \in (i + 1)..n : w[k] # Pong
    BY <1>2, <1>3, <1>6, <2>1 DEF Ended
  <2>3. k \in (i + 1)..(n + 1) /\ k \in 1..n
    BY <1>3, <2>1
  <2> QED
    BY <1>3, <2>2, <2>3
<1> QED
  BY <1>2, <1>4, <1>5, <1>6

LEMMA AppendHead ==
  ASSUME NEW w \in Seq(Piece), NotTorn(w), Ended(w), NEW m, HeadOf(m) \in Piece
  PROVE  NotTorn(Append(w, HeadOf(m))) /\ Begun(Append(w, HeadOf(m)), m)
<1>1. PICK v, n, p : v = Append(w, p) /\ n = Len(w) /\ p = HeadOf(m)
  OBVIOUS
<1>2. n \in Nat /\ Len(v) = n + 1 /\ v[n + 1] = p /\ p.kind = "head"
  BY <1>1 DEF HeadOf
<1>3. NotTorn(v)
  BY <1>1, <1>2, NotTornAppend DEF Ended
<1>4. Begun(v, m)
  BY <1>1, <1>2 DEF Begun
<1> QED
  BY <1>1, <1>3, <1>4

LEMMA AppendBody ==
  ASSUME NEW w \in Seq(Piece), NotTorn(w), NEW m, Begun(w, m), BodyOf(m) \in Piece
  PROVE  NotTorn(Append(w, BodyOf(m))) /\ Ended(Append(w, BodyOf(m)))
<1>1. PICK v, n, p : v = Append(w, p) /\ n = Len(w) /\ p = BodyOf(m)
  OBVIOUS
<1>2. n \in Nat /\ Len(v) = n + 1 /\ v[n + 1] = p /\ p.kind = "body" /\ p.msg = m
  BY <1>1 DEF BodyOf
<1>3. p # Pong
  BY <1>2 DEF Pong
<1>4. PICK j \in 1..n : w[j] = HeadOf(m) /\ \A k \in (j + 1)..n : w[k] = Pong
  BY <1>1 DEF Begun
<1>5. ASSUME NEW i \in 1..n, w[i].kind = "head", \A k \in (i + 1)..n : w[k] = Pong PROVE p = BodyOf(w[i].msg)
  <2>1. w[j].kind = "head" /\ w[j].msg = m /\ Pong.kind = "pong"
    BY <1>4 DEF HeadOf, Pong
  <2>2. w[i] # Pong /\ w[j] # Pong
    BY <1>5, <2>1
  <2>3. j \notin (i + 1)..n /\ i \notin (j + 1)..n
    BY <1>4, <1>5, <2>2
  <2>4. i = j
    BY <1>2, <2>3
  <2> QED
    BY <1>1, <2>1, <2>4
<1>6. NotTorn(v)
  BY <1>1, <1>2, <1>5, NotTornAppend
<1>7. Ended(v)
  <2> SUFFICES ASSUME NEW i \in 1..(n + 1), v[i].kind = "head" PROVE \E k \in (i + 1)..(n + 1) : v[k] # Pong
    BY <1>2 DEF Ended
  <2>1. i # n + 1
    BY <1>2
  <2>2. n + 1 \in (i + 1)..(n + 1)
    BY <1>2, <2>1
  <2> QED
    BY <1>2, <1>3, <2>2
<1> QED
  BY <1>1, <1>6, <1>7

\* On the wire of a client that lives, the frame that is begun is the one whose
\* header has been written by the goroutine that is at the payload; there is at
\* most one, by the mutex.
InBody(h, d) == handler[h] = "body" /\ cur[h] = d
WireOK(d) == /\ \A h \in Conns : InBody(h, d) => Begun(wire[d], Msg(h))
             /\ (\A h \in Conns : ~InBody(h, d)) => Ended(wire[d])
FrameInv == /\ \A d \in Conns : NotTorn(wire[d])
            /\ \A d \in Conns : Dead(d) \/ WireOK(d)

\* A step that writes nothing to d and neither begins nor ends a payload there.
LEMMA FrameKept ==
  ASSUME TypeInv, [Next]_vars, FrameInv, NEW d \in Conns, wire'[d] = wire[d],
         \A h \in Conns : /\ InBody(h, d)' <=> InBody(h, d)
                          /\ InBody(h, d) => sent'[h] = sent[h]
  PROVE  NotTorn(wire[d])' /\ (Dead(d)' \/ WireOK(d)')
<1>1. NotTorn(wire[d])'
  <2>1. PICK v : v = wire[d] /\ v = wire'[d]
    OBVIOUS
  <2>2. NotTorn(v)
    BY <2>1 DEF FrameInv
  <2>3. NotTorn(wire'[d])
    BY <2>1, <2>2
  <2> QED
    BY <2>3
<1>2. ASSUME ~Dead(d)' PROVE WireOK(d)'
  <2>1. WireOK(d)
    BY <1>2, Persists DEF FrameInv
  <2>2. Ended(wire[d])' <=> Ended(wire[d])
    BY DEF Ended
  <2>3. ASSUME NEW h \in Conns, InBody(h, d) PROVE Begun(wire[d], Msg(h))' <=> Begun(wire[d], Msg(h))
    BY <2>3 DEF Begun, Msg
  <2> QED
    BY <2>1, <2>2, <2>3 DEF WireOK
<1> QED
  BY <1>1, <1>2

\* A step that appends p to d.
LEMMA FrameWritten ==
  ASSUME NEW d \in Conns, wire \in [Conns -> Seq(Piece)], NEW p \in Piece, WriteOK(d, p), NotTorn(wire[d]),
         d \notin gone
  PROVE  wire[d] \in Seq(Piece) /\ wire'[d] = Append(wire[d], p) /\ \A e \in Conns \ {d} : wire'[e] = wire[e]
  BY DEF WriteOK

LEMMA FrameNext == TypeInv /\ LockGuardsFrame /\ FrameInv /\ [Next]_vars => FrameInv'
<1> SUFFICES ASSUME TypeInv, LockGuardsFrame, FrameInv, [Next]_vars, NEW d \in Conns
             PROVE  NotTorn(wire[d])' /\ (Dead(d)' \/ WireOK(d)')
  BY DEF FrameInv
<1>0. /\ handler \in [Conns -> States] /\ cur \in [Conns -> Conns \cup {None}]
      /\ wire \in [Conns -> Seq(Piece)] /\ failed \in [Conns -> SUBSET Conns] /\ sent \in [Conns -> Nat]
  BY DEF TypeInv, TypeOK
<1>1. ASSUME NEW g \in Conns,
             \/ JoinRefused(g) \/ JoinRoom(g) \/ ReadText(g) \/ ReadControl(g) \/ ReadFails(g)
             \/ ReadTimesOut(g) \/ LeaveRoom(g) \/ CloseConn(g) \/ SaveMessage(g) \/ Snapshot(g)
             \/ LockClient(g) \/ Prune(g) \/ Peer(g)
      PROVE  NotTorn(wire[d])' /\ (Dead(d)' \/ WireOK(d)')
  <2>1. wire' = wire
    BY <1>1 DEF JoinRefused, JoinRoom, ReadText, ReadControl, ReadFails, ReadTimesOut, LeaveRoom, CloseConn,
       SaveMessage, Snapshot, LockClient, Prune, Peer, PeerLeaves, PeerStalls, PeerResumes
  <2>2. \/ handler' = handler /\ cur' = cur /\ sent' = sent
        \/ /\ handler[g] # "body" /\ handler'[g] # "body"
           /\ \A h \in Conns \ {g} : handler'[h] = handler[h] /\ cur'[h] = cur[h] /\ sent'[h] = sent[h]
    <3>1. CASE \/ JoinRefused(g) \/ JoinRoom(g) \/ ReadFails(g) \/ ReadTimesOut(g) \/ LeaveRoom(g) \/ CloseConn(g)
               \/ ReadControl(g)
      BY <1>0, <3>1 DEF JoinRefused, JoinRoom, ReadFails, ReadTimesOut, LeaveRoom, CloseConn, ReadControl, Goto,
         loopVars, countVars
    <3>2. CASE SaveMessage(g) \/ LockClient(g) \/ Prune(g) \/ ReadText(g)
      BY <1>0, <3>2 DEF SaveMessage, LockClient, Prune, ReadText, Goto, loopVars, countVars
    <3>3. CASE Snapshot(g)
      BY <1>0, <3>3 DEF Snapshot, Goto, countVars
    <3>4. CASE Peer(g)
      BY <3>4 DEF Peer, PeerLeaves, PeerStalls, PeerResumes, loopVars, countVars
    <3> QED
      BY <1>1, <3>1, <3>2, <3>3, <3>4
  <2>3. \A h \in Conns : /\ InBody(h, d)' <=> InBody(h, d)
                         /\ InBody(h, d) => sent'[h] = sent[h]
    BY <2>2 DEF InBody
  <2> QED
    BY <2>1, <2>3, FrameKept
<1>2. ASSUME NEW g \in Conns, WriteReply(g) PROVE NotTorn(wire[d])' /\ (Dead(d)' \/ WireOK(d)')
  <2>0. PICK s \in {"read", "leave"} : Goto(g, s)
    BY <1>2 DEF WriteReply
  <2>1. /\ handler' = [handler EXCEPT ![g] = s] /\ handler[g] = "pong" /\ s # "body"
        /\ cur' = cur /\ sent' = sent /\ WriteOK(g, Pong)
    BY <1>2, <2>0 DEF WriteReply, Goto, loopVars, countVars
  <2>2. \A h \in Conns : /\ InBody(h, d)' <=> InBody(h, d)
                         /\ InBody(h, d) => sent'[h] = sent[h]
    BY <1>0, <2>1 DEF InBody
  <2>3. CASE d # g \/ g \in gone
    <3>1. wire'[d] = wire[d]
      BY <1>0, <2>1, <2>3 DEF WriteOK
    <3> QED
      BY <2>2, <3>1, FrameKept
  <2>4. CASE d = g /\ g \notin gone
    <3>1. wire'[d] = Append(wire[d], Pong) /\ wire[d] \in Seq(Piece)
      BY <1>0, <2>1, <2>4 DEF WriteOK
    <3>2. /\ NotTorn(Append(wire[d], Pong))
          /\ \A m : Begun(wire[d], m) => Begun(Append(wire[d], Pong), m)
          /\ Ended(wire[d]) => Ended(Append(wire[d], Pong))
      BY <3>1, AppendPong DEF FrameInv
    <3>3. NotTorn(wire'[d])
      BY <3>1, <3>2
    <3>4. NotTorn(wire[d])'
      BY <3>3
    <3>5. ASSUME ~Dead(d)' PROVE WireOK(d)'
      <4>1. WireOK(d)
        BY <3>5, Persists DEF FrameInv
      <4>2. Ended(wire[d]) => Ended(wire[d])'
        BY <3>1, <3>2 DEF Ended
      <4>3. ASSUME NEW h \in Conns, Begun(wire[d], Msg(h)), sent'[h] = sent[h] PROVE Begun(wire[d], Msg(h))'
        <5>1. Begun(Append(wire[d], Pong), Msg(h))
          BY <3>2, <4>3
        <5> QED
          BY <3>1, <4>3, <5>1 DEF Begun, Msg
      <4> QED
        BY <2>2, <4>1, <4>2, <4>3 DEF WireOK
    <3> QED
      BY <3>4, <3>5
  <2> QED
    BY <2>3, <2>4
<1>3. ASSUME NEW g \in Conns, WriteHead(g) PROVE NotTorn(wire[d])' /\ (Dead(d)' \/ WireOK(d)')
  <2>1. /\ handler' = [handler EXCEPT ![g] = "body"] /\ handler[g] = "head"
        /\ cur' = cur /\ sent' = sent /\ conn' = conn /\ gone' = gone
        /\ WriteOK(cur[g], HeadOf(Msg(g)))
    BY <1>3 DEF WriteHead, Goto, loopVars, countVars, peerVars, HeadOf
  <2>2. CASE d # cur[g]
    <3>1. wire'[d] = wire[d]
      BY <1>0, <2>1, <2>2 DEF WriteOK
    <3>2. \A h \in Conns : /\ InBody(h, d)' <=> InBody(h, d)
                           /\ InBody(h, d) => sent'[h] = sent[h]
      BY <1>0, <2>1, <2>2 DEF InBody
    <3> QED
      BY <3>1, <3>2, FrameKept
  <2>3. CASE d = cur[g] /\ d \in gone
    <3>1. wire' = wire /\ Dead(d)'
      BY <2>1, <2>3 DEF WriteOK, Dead
    <3> QED
      BY <3>1 DEF FrameInv, NotTorn, Follows
  <2>4. CASE d = cur[g] /\ d \notin gone
    <3>1. wire'[d] = Append(wire[d], HeadOf(Msg(g))) /\ wire[d] \in Seq(Piece) /\ conn[d] = "open"
      BY <1>0, <2>1, <2>4 DEF WriteOK
    <3>2. \A h \in Conns : ~InBody(h, d)
      BY <2>1, <2>4 DEF LockGuardsFrame, InBody
    <3>3. Ended(wire[d]) /\ NotTorn(wire[d])
      BY <2>4, <3>1, <3>2 DEF FrameInv, Dead, WireOK
    <3>4. HeadOf(Msg(g)) \in Piece
      BY <2>1, MsgType DEF HeadOf, Piece, InLoop
    <3>5. NotTorn(Append(wire[d], HeadOf(Msg(g)))) /\ Begun(Append(wire[d], HeadOf(Msg(g))), Msg(g))
      BY <3>1, <3>3, <3>4, AppendHead
    <3>6. NotTorn(wire[d])'
      <4>1. NotTorn(wire'[d])
        BY <3>1, <3>5
      <4> QED
        BY <4>1
    <3>7. \A h \in Conns : InBody(h, d)' <=> h = g
      BY <1>0, <2>1, <2>4, <3>2 DEF InBody
    <3>8. Begun(wire[d], Msg(g))'
      BY <2>1, <3>1, <3>5 DEF Begun, Msg
    <3> QED
      BY <3>6, <3>7, <3>8 DEF WireOK
  <2> QED
    BY <2>2, <2>3, <2>4
<1>4. ASSUME NEW g \in Conns, WriteBody(g) PROVE NotTorn(wire[d])' /\ (Dead(d)' \/ WireOK(d)')
  <2>1. /\ handler[g] = "body" /\ sent' = sent /\ conn' = conn /\ gone' = gone
        /\ WriteOK(cur[g], BodyOf(Msg(g)))
    BY <1>4 DEF WriteBody, countVars, peerVars, BodyOf
  <2>2. /\ \A h \in Conns \ {g} : cur'[h] = cur[h] /\ handler'[h] = handler[h]
        /\ handler'[g] \in {"lock", "read", "prune"}
    <3>1. NextClient(g, failed[g]) /\ failed[g] \in SUBSET Conns
      BY <1>0, <1>4 DEF WriteBody
    <3> QED
      BY <3>1, NextClientType
  <2>3. CASE d # cur[g]
    <3>1. wire'[d] = wire[d]
      BY <1>0, <2>1, <2>3 DEF WriteOK
    <3>2. \A h \in Conns : /\ InBody(h, d)' <=> InBody(h, d)
                           /\ InBody(h, d) => sent'[h] = sent[h]
      BY <2>1, <2>2, <2>3 DEF InBody
    <3> QED
      BY <3>1, <3>2, FrameKept
  <2>4. CASE d = cur[g] /\ d \in gone
    <3>1. wire' = wire /\ Dead(d)'
      BY <2>1, <2>4 DEF WriteOK, Dead
    <3> QED
      BY <3>1 DEF FrameInv, NotTorn, Follows
  <2>5. CASE d = cur[g] /\ d \notin gone
    <3>1. wire'[d] = Append(wire[d], BodyOf(Msg(g))) /\ wire[d] \in Seq(Piece) /\ conn[d] = "open"
      BY <1>0, <2>1, <2>5 DEF WriteOK
    <3>2. Begun(wire[d], Msg(g)) /\ NotTorn(wire[d])
      BY <2>1, <2>5, <3>1 DEF FrameInv, Dead, WireOK, InBody
    <3>3. BodyOf(Msg(g)) \in Piece
      BY <2>1, MsgType DEF BodyOf, Piece, InLoop
    <3>4. NotTorn(Append(wire[d], BodyOf(Msg(g)))) /\ Ended(Append(wire[d], BodyOf(Msg(g))))
      BY <3>1, <3>2, <3>3, AppendBody
    <3>5. NotTorn(wire[d])' /\ Ended(wire[d])'
      <4>1. NotTorn(wire'[d]) /\ Ended(wire'[d])
        BY <3>1, <3>4
      <4> QED
        BY <4>1
    <3>6. \A h \in Conns : ~InBody(h, d)'
      BY <2>1, <2>2, <2>5 DEF LockGuardsFrame, InBody
    <3> QED
      BY <3>5, <3>6 DEF WireOK
  <2> QED
    BY <2>3, <2>4, <2>5
<1>5. ASSUME NEW g \in Conns, WriteFails(g) PROVE NotTorn(wire[d])' /\ (Dead(d)' \/ WireOK(d)')
  <2>1. /\ handler' = [handler EXCEPT ![g] = "drop"] /\ cur' = cur /\ sent' = sent /\ wire' = wire /\ Dead(cur[g])
    BY <1>5 DEF WriteFails, Goto, loopVars, countVars
  <2>2. CASE d = cur[g]
    <3>1. Dead(d)'
      BY <2>1, <2>2, Persists
    <3> QED
      BY <2>1, <3>1 DEF FrameInv, NotTorn, Follows
  <2>3. CASE d # cur[g]
    <3>1. \A h \in Conns : /\ InBody(h, d)' <=> InBody(h, d)
                           /\ InBody(h, d) => sent'[h] = sent[h]
      BY <1>0, <2>1, <2>3 DEF InBody
    <3> QED
      BY <2>1, <3>1, FrameKept
  <2> QED
    BY <2>2, <2>3
<1>6. ASSUME NEW g \in Conns, CloseFailed(g) PROVE NotTorn(wire[d])' /\ (Dead(d)' \/ WireOK(d)')
  <2>1. /\ \A h \in Conns \ {g} : cur'[h] = cur[h] /\ handler'[h] = handler[h]
        /\ handler'[g] \in {"lock", "read", "prune"}
    <3>1. /\ NextClient(g, failed[g] \cup {cur[g]})
          /\ failed[g] \cup {cur[g]} \in SUBSET Conns
      BY <1>0, <1>6 DEF CloseFailed, TypeInv, CurOK, InLoop
    <3> QED
      BY <3>1, NextClientType
  <2>2. handler[g] = "drop" /\ sent' = sent /\ wire' = wire
    BY <1>6 DEF CloseFailed, countVars
  <2>3. \A h \in Conns : /\ InBody(h, d)' <=> InBody(h, d)
                         /\ InBody(h, d) => sent'[h] = sent[h]
    BY <2>1, <2>2 DEF InBody
  <2> QED
    BY <2>2, <2>3, FrameKept
<1>7. CASE UNCHANGED vars
  <2>1. /\ \A h \in Conns : /\ InBody(h, d)' <=> InBody(h, d)
                            /\ InBody(h, d) => sent'[h] = sent[h]
        /\ wire' = wire
    BY <1>7 DEF vars, InBody
  <2> QED
    BY <2>1, FrameKept
<1> QED
  BY <1>1, <1>2, <1>3, <1>4, <1>5, <1>6, <1>7 DEF Next, Serve, Arrive, Finished

\* Two goroutines that broadcast at once never tear each other's frames, and
\* neither does a write that fails halfway: nothing follows it, since the
\* connection it failed on stays dead.
THEOREM FramesInOrder == Spec => []FramesNotTorn
<1>1. Init => FrameInv
  <2> SUFFICES ASSUME Init PROVE FrameInv
    OBVIOUS
  <2>1. \A d \in Conns : wire[d] = <<>> /\ Len(wire[d]) = 0 /\ handler[d] = "join"
    BY DEF Init
  <2> QED
    BY <2>1 DEF FrameInv, NotTorn, WireOK, Ended, InBody
<1>2. FrameInv => FramesNotTorn
  BY DEF FrameInv, NotTorn, FramesNotTorn, BodyOf, HeadOf
<1> QED
  BY <1>1, <1>2, FrameNext, TypeAlways, FrameMutex, PTL DEF Spec

-----------------------------------------------------------------------------
\* From here on, the refinement of ChatDelivery.  What a wire delivers is a
\* fold over it, so first an induction: a nonempty set of numbers has a least.
LEMMA Least ==
  ASSUME NEW S \in SUBSET Nat, S # {}
  PROVE  \E n \in S : \A k \in Nat : k < n => k \notin S
<1>1. PICK x \in S : \A y \in S : ~ (<<y, x>> \in OpToRel(<, Nat))
  BY NatLessThanWellFounded, WFMin
<1>2. \A y \in S : ~ (y < x)
  BY <1>1, Zenon DEF OpToRel
<1> QED
  BY <1>2

HIDE ChatAssumption

\* The function that Payloads computes, and one step of it.
Step1(w, i, s) == IF w[i].kind = "body" THEN Append(s, w[i].msg) ELSE s
IsGot(f, w, n) == f = [i \in 0..n |-> IF i = 0 THEN <<>> ELSE Step1(w, i, f[i - 1])]

Prefix(w, v, n, m) == n <= m /\ \A i \in 1..n : w[i] = v[i]

\* Wires that agree up to n have delivered the same up to n.
LEMMA GotUnique ==
  ASSUME NEW w, NEW v, NEW n \in Nat, NEW m \in Nat, Prefix(w, v, n, m),
         NEW f, NEW g, IsGot(f, w, n), IsGot(g, v, m)
  PROVE  f[n] = g[n]
<1>0. n <= m /\ \A i \in 1..n : w[i] = v[i]
  BY DEF Prefix
<1> DEFINE Bad == {i \in 0..n : f[i] # g[i]}
<1>1. SUFFICES ASSUME Bad # {} PROVE FALSE
  BY n \in 0..n
<1>2. PICK i \in Bad : \A k \in Nat : k < i => k \notin Bad
  <2>1. Bad \in SUBSET Nat
    OBVIOUS
  <2> HIDE DEF Bad
  <2> QED
    BY <1>1, <2>1, Least
<1>3. f[0] = <<>> /\ g[0] = <<>> /\ \A k \in 1..n : f[k] = Step1(w, k, f[k - 1]) /\ g[k] = Step1(v, k, g[k - 1])
  <2>1. f[0] = <<>> /\ \A k \in 1..n : f[k] = Step1(w, k, f[k - 1])
    BY DEF IsGot
  <2>2. g[0] = <<>> /\ \A k \in 1..m : g[k] = Step1(v, k, g[k - 1])
    BY DEF IsGot
  <2> QED
    BY <1>0, <2>1, <2>2
<1>4. i \in 1..n /\ i - 1 \in Nat /\ i - 1 \in 0..n /\ i - 1 < i
  BY <1>2, <1>3
<1>5. f[i - 1] = g[i - 1]
  BY <1>2, <1>4
<1>6. f[i] = g[i]
  BY <1>0, <1>3, <1>4, <1>5 DEF Step1
<1> QED
  BY <1>2, <1>6

LEMMA GotExists ==
  ASSUME NEW w, NEW n \in Nat
  PROVE  \E f : IsGot(f, w, n)
<1> DEFINE Bad == {k \in Nat : ~ \E f : IsGot(f, w, k)}
<1>1. SUFFICES ASSUME Bad # {} PROVE FALSE
  OBVIOUS
<1>2. PICK k \in Bad : \A j \in Nat : j < k => j \notin Bad
  BY <1>1, Least
<1>3. IsGot([i \in 0..0 |-> <<>>], w, 0)
  BY DEF IsGot
<1>4. k # 0 /\ k \in Nat /\ k - 1 \in Nat /\ k - 1 < k
  BY <1>2, <1>3
<1>5. PICK f : IsGot(f, w, k - 1)
  BY <1>2, <1>4
<1> DEFINE g == [i \in 0..k |-> IF i = k THEN Step1(w, k, f[k - 1]) ELSE f[i]]
<1>6. \A i \in 0..k : g[i] = IF i = 0 THEN <<>> ELSE Step1(w, i, g[i - 1])
  <2> SUFFICES ASSUME NEW i \in 0..k PROVE g[i] = IF i = 0 THEN <<>> ELSE Step1(w, i, g[i - 1])
    OBVIOUS
  <2>1. CASE i = 0
    BY <1>4, <1>5, <2>1 DEF IsGot
  <2>2. CASE i = k
    BY <1>4, <2>2
  <2>3. CASE i # 0 /\ i # k
    <3>1. i \in 0..(k - 1) /\ i - 1 \in 0..k /\ i - 1 # k
      BY <1>4, <2>3
    <3>2. g[i] = f[i] /\ g[i - 1] = f[i - 1]
      BY <2>3, <3>1
    <3>3. f[i] = Step1(w, i, f[i - 1])
      BY <1>5, <2>3, <3>1 DEF IsGot
    <3> QED
      BY <2>3, <3>2, <3>3
  <2> QED
    BY <2>1, <2>2, <2>3
<1>7. IsGot(g, w, k)
  BY <1>6, Zenon DEF IsGot
<1> QED
  BY <1>2, <1>7

LEMMA GotPayloads ==
  ASSUME NEW w, Len(w) \in Nat
  PROVE  \E f : IsGot(f, w, Len(w)) /\ Payloads(w) = f[Len(w)]
<1>1. PICK f : f = CHOOSE g : IsGot(g, w, Len(w))
  OBVIOUS
<1>2. IsGot(f, w, Len(w))
  BY <1>1, GotExists
<1>3. Payloads(w) = f[Len(w)]
  BY <1>1 DEF Payloads, IsGot, Step1
<1> QED
  BY <1>2, <1>3

LEMMA PayloadsAppend ==
  ASSUME NEW w \in Seq(Piece), NEW p \in Piece
  PROVE  Payloads(Append(w, p)) = IF p.kind = "body" THEN Append(Payloads(w), p.msg) ELSE Payloads(w)
<1>1. PICK v, n, m : v = Append(w, p) /\ n = Len(w) /\ m = Len(v)
  OBVIOUS
<1>2. n \in Nat /\ m \in Nat /\ m = n + 1 /\ n <= m /\ v[m] = p /\ \A i \in 1..n : w[i] = v[i]
  BY <1>1
<1>3. PICK f : IsGot(f, w, n) /\ Payloads(w) = f[n]
  BY <1>1, <1>2, GotPayloads
<1>4. PICK g : IsGot(g, v, m) /\ Payloads(v) = g[m]
  BY <1>1, <1>2, GotPayloads
<1>5. f[n] = g[n]
  <2>1. n \in Nat /\ m \in Nat /\ Prefix(w, v, n, m)
    BY <1>2 DEF Prefix
  <2>2. IsGot(f, w, n) /\ IsGot(g, v, m)
    BY <1>3, <1>4
  <2> QED
    BY <2>1, <2>2, GotUnique
<1>6. g[m] = Step1(v, m, g[m - 1])
  BY <1>2, <1>4 DEF IsGot
<1>7. m - 1 = n /\ f[n] = g[n]
  BY <1>2, <1>5
<1> QED
  BY <1>1, <1>2, <1>3, <1>4, <1>6, <1>7 DEF Step1

LEMMA PayloadsEmpty == Payloads(<<>>) = <<>>
<1>1. PICK f : IsGot(f, <<>>, 0) /\ Payloads(<<>>) = f[0]
  BY GotPayloads
<1> QED
  BY <1>1 DEF IsGot

USE ChatAssumption
-----------------------------------------------------------------------------
\* The clients that a broadcast has still to write to are of the sender's
\* channel, and it visits none of them twice.
Unserved(h) == todo[h] \cup {cur[h]}
LoopOK == \A h \in Conns : handler[h] \in InLoop =>
            cur[h] \notin todo[h] /\ \A d \in Unserved(h) : ChannelOf[d] = ChannelOf[h]

\* The current message of h has not been written to d and may still be ...
NotYet(h, d) ==
  \/ handler[h] \in {"save", "snapshot"}
  \/ handler[h] \in InLoop /\ d \in todo[h]
  \/ handler[h] \in {"lock", "head", "body"} /\ d = cur[h]
\* ... and then d has only older messages of h.
Bound(h, d) == IF NotYet(h, d) THEN sent[h] ELSE sent[h] + 1
InboxOK(box, d) ==
  box \in Seq(Message) /\ \A i \in 1..Len(box) : box[i][2] < Bound(box[i][1], d)
DeliveryInv == LoopOK /\ \A d \in Conns : InboxOK(Payloads(wire[d]), d)

\* What a step does to the place of h in its broadcast.
Arrives(h) == handler[h] = "read" /\ handler'[h] = "save" /\ sent'[h] = sent[h] + 1
Idles(h) == handler'[h] \notin InLoop \cup {"save", "snapshot"} /\ sent'[h] = sent[h]
Saves(h) == handler[h] = "save" /\ handler'[h] = "snapshot" /\ sent'[h] = sent[h]
Enters(h) == /\ handler[h] = "snapshot" /\ handler'[h] = "lock" /\ sent'[h] = sent[h]
             /\ cur'[h] \notin todo'[h] /\ todo'[h] \cup {cur'[h]} \subseteq Room(ChannelOf[h])
Stays(h) == /\ cur'[h] = cur[h] /\ todo'[h] = todo[h] /\ sent'[h] = sent[h]
            /\ handler'[h] \in InLoop => handler[h] \in InLoop
            /\ handler'[h] \in {"save", "snapshot"} => handler[h] \in {"save", "snapshot"}
            /\ handler'[h] \in {"lock", "head", "body"} => handler[h] \in {"lock", "head", "body"}
Moves(h) == /\ handler[h] \in {"body", "drop"} /\ handler'[h] = "lock" /\ sent'[h] = sent[h]
            /\ cur'[h] \in todo[h] /\ todo'[h] = todo[h] \ {cur'[h]}
WalkStep(h) == Arrives(h) \/ Idles(h) \/ Saves(h) \/ Enters(h) \/ Stays(h) \/ Moves(h)

LEMMA NextClientMoves ==
  ASSUME TypeInv, NEW h \in Conns, NEW bad \in SUBSET Conns, NextClient(h, bad)
  PROVE  /\ \/ handler'[h] = "lock" /\ cur'[h] \in todo[h] /\ todo'[h] = todo[h] \ {cur'[h]}
            \/ handler'[h] \in {"read", "prune"}
         /\ \A g \in Conns \ {h} : todo'[g] = todo[g] /\ cur'[g] = cur[g] /\ handler'[g] = handler[g]
<1>0. /\ handler \in [Conns -> States] /\ cur \in [Conns -> Conns \cup {None}]
      /\ todo \in [Conns -> SUBSET Conns]
  BY DEF TypeInv, TypeOK
<1>1. ASSUME NEW d \in todo[h],
             cur' = [cur EXCEPT ![h] = d], todo' = [todo EXCEPT ![h] = @ \ {d}], Goto(h, "lock")
      PROVE  handler'[h] = "lock" /\ cur'[h] \in todo[h] /\ todo'[h] = todo[h] \ {cur'[h]}
  BY <1>0, <1>1 DEF Goto
<1>2. ASSUME todo[h] = {}, Goto(h, IF bad = {} THEN "read" ELSE "prune")
      PROVE  handler'[h] \in {"read", "prune"}
  <2>1. CASE bad = {}
    BY <1>0, <1>2, <2>1 DEF Goto
  <2>2. CASE bad # {}
    BY <1>0, <1>2, <2>2 DEF Goto
  <2> QED
    BY <2>1, <2>2
<1>3. \/ handler'[h] = "lock" /\ cur'[h] \in todo[h] /\ todo'[h] = todo[h] \ {cur'[h]}
      \/ handler'[h] \in {"read", "prune"}
  BY <1>1, <1>2, Zenon DEF NextClient
<1> QED
  BY <1>3, NextClientLoop

LEMMA WalkSteps == ASSUME TypeInv, [Next]_vars, NEW h \in Conns PROVE WalkStep(h)
<1>0. /\ handler \in [Conns -> States] /\ cur \in [Conns -> Conns \cup {None}]
      /\ todo \in [Conns -> SUBSET Conns] /\ sent \in [Conns -> Nat] /\ failed \in [Conns -> SUBSET Conns]
  BY DEF TypeInv, TypeOK
<1> USE <1>0 DEF Goto, loopVars, countVars
\* A step that leaves h as it is.
<1>1. ASSUME todo'[h] = todo[h], cur'[h] = cur[h], handler'[h] = handler[h], sent'[h] = sent[h]
      PROVE  WalkStep(h)
  BY <1>1 DEF WalkStep, Stays
<1>2. ASSUME NEW g \in Conns,
             \/ JoinRefused(g) \/ JoinRoom(g) \/ ReadControl(g)
             \/ WriteReply(g) \/ ReadFails(g) \/ ReadTimesOut(g) \/ LeaveRoom(g)
             \/ CloseConn(g) \/ Prune(g)
      PROVE  WalkStep(h)
  <2>1. /\ UNCHANGED <<todo, cur, sent>>
        /\ \E s \in States \ (InLoop \cup {"save", "snapshot"}) : handler' = [handler EXCEPT ![g] = s]
    BY <1>2 DEF JoinRefused, JoinRoom, ReadControl, WriteReply, ReadFails, ReadTimesOut, LeaveRoom, CloseConn,
       Prune, States, Serving, InLoop
  <2>2. CASE g = h
    BY <2>1, <2>2 DEF WalkStep, Idles
  <2>3. CASE g # h
    BY <2>1, <2>3, <1>1
  <2> QED
    BY <2>2, <2>3
<1>3. ASSUME NEW g \in Conns, ReadText(g) PROVE WalkStep(h)
  <2>1. /\ handler[g] = "read" /\ handler' = [handler EXCEPT ![g] = "save"]
        /\ sent' = [sent EXCEPT ![g] = @ + 1] /\ UNCHANGED <<todo, cur>>
    BY <1>3 DEF ReadText
  <2>2. CASE g = h
    BY <2>1, <2>2 DEF WalkStep, Arrives
  <2>3. CASE g # h
    BY <2>1, <2>3, <1>1
  <2> QED
    BY <2>2, <2>3
<1>4. ASSUME NEW g \in Conns, SaveMessage(g) PROVE WalkStep(h)
  <2>1. /\ handler[g] = "save" /\ handler' = [handler EXCEPT ![g] = "snapshot"]
        /\ UNCHANGED <<todo, cur, sent>>
    BY <1>4 DEF SaveMessage
  <2>2. CASE g = h
    BY <2>1, <2>2 DEF WalkStep, Saves
  <2>3. CASE g # h
    BY <2>1, <2>3, <1>1
  <2> QED
    BY <2>2, <2>3
<1>5. ASSUME NEW g \in Conns, Snapshot(g) PROVE WalkStep(h)
  <2>1. /\ UNCHANGED sent /\ handler[g] = "snapshot"
        /\ \A f \in Conns \ {g} : todo'[f] = todo[f] /\ cur'[f] = cur[f] /\ handler'[f] = handler[f]
    BY <1>5 DEF Snapshot
  <2>2. \/ handler'[g] = "read"
        \/ /\ handler'[g] = "lock" /\ cur'[g] \notin todo'[g]
           /\ todo'[g] \cup {cur'[g]} \subseteq Room(ChannelOf[g])
    BY <1>5 DEF Snapshot
  <2>3. CASE g = h
    BY <2>1, <2>2, <2>3 DEF WalkStep, Idles, Enters, InLoop
  <2>4. CASE g # h
    BY <2>1, <2>4, <1>1
  <2> QED
    BY <2>3, <2>4
<1>6. ASSUME NEW g \in Conns, LockClient(g) \/ WriteHead(g) \/ WriteFails(g) PROVE WalkStep(h)
  <2>1. /\ UNCHANGED <<todo, cur, sent>> /\ handler[g] \in {"lock", "head", "body"}
        /\ \E s \in {"head", "body", "drop"} : handler' = [handler EXCEPT ![g] = s]
    BY <1>6 DEF LockClient, WriteHead, WriteFails
  <2>2. CASE g = h
    BY <2>1, <2>2 DEF WalkStep, Stays, InLoop
  <2>3. CASE g # h
    BY <2>1, <2>3, <1>1
  <2> QED
    BY <2>2, <2>3
<1>7. ASSUME NEW g \in Conns, WriteBody(g) \/ CloseFailed(g) PROVE WalkStep(h)
  <2>1. /\ handler[g] \in {"body", "drop"} /\ sent' = sent
        /\ \E bad \in SUBSET Conns : NextClient(g, bad)
    <3>1. CASE WriteBody(g)
      BY <3>1 DEF WriteBody
    <3>2. CASE CloseFailed(g)
      <4>1. failed[g] \cup {cur[g]} \in SUBSET Conns
        BY <3>2 DEF CloseFailed, TypeInv, CurOK, InLoop
      <4> QED
        BY <3>2, <4>1 DEF CloseFailed
    <3> QED
      BY <1>7, <3>1, <3>2
  <2>2. /\ \/ handler'[g] = "lock" /\ cur'[g] \in todo[g] /\ todo'[g] = todo[g] \ {cur'[g]}
           \/ handler'[g] \in {"read", "prune"}
        /\ \A f \in Conns \ {g} : todo'[f] = todo[f] /\ cur'[f] = cur[f] /\ handler'[f] = handler[f]
    BY <2>1, NextClientMoves
  <2>3. CASE g = h
    BY <2>1, <2>2, <2>3 DEF WalkStep, Moves, Idles, InLoop
  <2>4. CASE g # h
    BY <2>1, <2>2, <2>4, <1>1
  <2> QED
    BY <2>3, <2>4
<1>8. ASSUME NEW g \in Conns, Peer(g) PROVE WalkStep(h)
  BY <1>1, <1>8 DEF Peer, PeerLeaves, PeerStalls, PeerResumes
<1>9. CASE UNCHANGED vars
  BY <1>1, <1>9 DEF vars
<1> QED
  BY <1>2, <1>3, <1>4, <1>5, <1>6, <1>7, <1>8, <1>9 DEF Next, Serve, Arrive, Finished

LEMMA LoopNext ==
  ASSUME TypeInv, RegistryIsClean, LoopOK, [Next]_vars PROVE LoopOK'
<1> SUFFICES ASSUME NEW h \in Conns, handler'[h] \in InLoop
             PROVE  cur'[h] \notin todo'[h] /\ \A d \in todo'[h] \cup {cur'[h]} : ChannelOf[d] = ChannelOf[h]
  BY DEF LoopOK, Unserved
<1>1. Enters(h) \/ Stays(h) \/ Moves(h)
  BY WalkSteps DEF WalkStep, Arrives, Idles, Saves, InLoop
<1>2. CASE Enters(h)
  BY <1>2 DEF Enters, RegistryIsClean, Room
<1>3. CASE Stays(h)
  BY <1>3 DEF Stays, LoopOK, Unserved
<1>4. CASE Moves(h)
  BY <1>4 DEF Moves, LoopOK, Unserved, InLoop
<1> QED
  BY <1>1, <1>2, <1>3, <1>4

\* The bound never falls.
LEMMA BoundNext ==
  ASSUME TypeInv, [Next]_vars, NEW h \in Conns, NEW d \in Conns
  PROVE  Bound(h, d) \in Nat /\ Bound(h, d)' \in Nat /\ Bound(h, d) <= Bound(h, d)'
<1>1. sent[h] \in Nat
  BY DEF TypeInv, TypeOK
<1>2. CASE Arrives(h)
  <2>1. ~NotYet(h, d)
    BY <1>2 DEF Arrives, NotYet, InLoop
  <2> QED
    BY <1>1, <1>2, <2>1 DEF Arrives, Bound
<1>3. CASE ~Arrives(h)
  <2>1. sent'[h] = sent[h]
    BY <1>3, WalkSteps DEF WalkStep, Idles, Saves, Enters, Stays, Moves
  <2>2. NotYet(h, d)' => NotYet(h, d)
    <3>1. CASE Idles(h)
      BY <3>1 DEF Idles, NotYet, InLoop
    <3>2. CASE Saves(h) \/ Enters(h)
      BY <3>2 DEF Saves, Enters, NotYet
    <3>3. CASE Stays(h)
      BY <3>3 DEF Stays, NotYet
    <3>4. CASE Moves(h)
      BY <3>4 DEF Moves, NotYet, InLoop
    <3> QED
      BY <1>3, <3>1, <3>2, <3>3, <3>4, WalkSteps DEF WalkStep
  <2> QED
    BY <1>1, <2>1, <2>2 DEF Bound
<1> QED
  BY <1>2, <1>3

\* A wire delivers one message more when the payload of a broadcast is
\* written to a peer that is there, and otherwise what it did.
Writes(h, d) ==
  /\ WriteBody(h) /\ d = cur[h] /\ sent' = sent
  /\ Payloads(wire'[d]) = Append(Payloads(wire[d]), Msg(h))
Same(d) == Payloads(wire'[d]) = Payloads(wire[d])

LEMMA PayloadSteps ==
  ASSUME TypeInv, [Next]_vars
  PROVE  \/ \A d \in Conns : Same(d)
         \/ \E h, d \in Conns : Writes(h, d) /\ \A e \in Conns \ {d} : Same(e)
<1>0. wire \in [Conns -> Seq(Piece)] /\ cur \in [Conns -> Conns \cup {None}]
  BY DEF TypeInv, TypeOK
<1>1. ASSUME wire' = wire PROVE \A d \in Conns : Same(d)
  BY <1>1 DEF Same
<1>2. ASSUME NEW g \in Conns, NEW p \in Piece, p.kind # "body", WriteOK(g, p)
      PROVE  \A d \in Conns : Same(d)
  <2> SUFFICES ASSUME NEW d \in Conns PROVE Same(d)
    OBVIOUS
  <2>1. wire'[d] = wire[d] \/ wire'[d] = Append(wire[d], p)
    BY <1>0, <1>2 DEF WriteOK
  <2>2. Payloads(Append(wire[d], p)) = Payloads(wire[d])
    BY <1>0, <1>2, PayloadsAppend
  <2> QED
    BY <2>1, <2>2 DEF Same
<1>3. ASSUME NEW g \in Conns, WriteReply(g) PROVE \A d \in Conns : Same(d)
  <2>1. Pong \in Piece /\ Pong.kind # "body" /\ WriteOK(g, Pong)
    BY <1>3 DEF WriteReply, Pong, Piece
  <2> QED
    BY <2>1, <1>2
<1>4. ASSUME NEW g \in Conns, WriteHead(g) PROVE \A d \in Conns : Same(d)
  <2>1. /\ HeadOf(Msg(g)) \in Piece /\ HeadOf(Msg(g)).kind # "body" /\ WriteOK(cur[g], HeadOf(Msg(g)))
        /\ cur[g] \in Conns
    BY <1>4, MsgType DEF WriteHead, HeadOf, Piece, InLoop, TypeInv, CurOK
  <2> QED
    BY <2>1, <1>2
<1>5. ASSUME NEW g \in Conns, WriteBody(g)
      PROVE  \/ \A d \in Conns : Same(d)
             \/ \E h, d \in Conns : Writes(h, d) /\ \A e \in Conns \ {d} : Same(e)
  <2>1. /\ BodyOf(Msg(g)) \in Piece /\ BodyOf(Msg(g)).kind = "body" /\ BodyOf(Msg(g)).msg = Msg(g)
        /\ WriteOK(cur[g], BodyOf(Msg(g))) /\ cur[g] \in Conns /\ sent' = sent
    BY <1>5, MsgType DEF WriteBody, BodyOf, Piece, InLoop, TypeInv, CurOK, countVars
  <2>2. PICK d \in Conns : d = cur[g]
    BY <2>1
  <2>3. CASE d \in gone
    <3>1. wire' = wire
      BY <2>1, <2>2, <2>3 DEF WriteOK
    <3> QED
      BY <3>1, <1>1
  <2>4. CASE d \notin gone
    <3>1. wire' = [wire EXCEPT ![d] = Append(@, BodyOf(Msg(g)))]
      BY <2>1, <2>2, <2>4 DEF WriteOK
    <3>2. wire'[d] = Append(wire[d], BodyOf(Msg(g))) /\ \A e \in Conns \ {d} : wire'[e] = wire[e]
      BY <1>0, <3>1
    <3>3. Payloads(Append(wire[d], BodyOf(Msg(g)))) = Append(Payloads(wire[d]), Msg(g))
      BY <1>0, <2>1, PayloadsAppend
    <3>4. Payloads(wire'[d]) = Append(Payloads(wire[d]), Msg(g))
      BY <3>2, <3>3
    <3> QED
      BY <1>5, <2>1, <2>2, <3>2, <3>4 DEF Writes, Same
  <2> QED
    BY <2>3, <2>4
<1>6. ASSUME NEW g \in Conns,
             \/ JoinRefused(g) \/ JoinRoom(g) \/ Arrive(g) \/ ReadFails(g)
             \/ ReadTimesOut(g) \/ LeaveRoom(g) \/ CloseConn(g) \/ SaveMessage(g)
             \/ Snapshot(g) \/ LockClient(g) \/ WriteFails(g) \/ CloseFailed(g)
             \/ Prune(g) \/ Peer(g)
      PROVE  wire' = wire
  BY <1>6 DEF JoinRefused, JoinRoom, Arrive, ReadText, ReadControl, ReadFails,
     ReadTimesOut, LeaveRoom, CloseConn, SaveMessage, Snapshot, LockClient,
     WriteFails, CloseFailed, Prune, Peer, PeerLeaves, PeerStalls, PeerResumes
<1>7. CASE UNCHANGED vars
  BY <1>1, <1>7 DEF vars
<1> QED
  BY <1>1, <1>3, <1>4, <1>5, <1>6, <1>7 DEF Next, Serve, Finished

\* A payload is written only to somebody of the channel who has nothing as
\* new of that sender, and who counts as served from then on.
LEMMA WritesNew ==
  ASSUME TypeInv, DeliveryInv, [Next]_vars, NEW h \in Conns, NEW d \in Conns, Writes(h, d)
  PROVE  /\ ChannelOf[h] = ChannelOf[d] /\ sent[h] > 0 /\ Msg(h) \in Message
         /\ Bound(h, d) = sent[h] /\ Bound(h, d)' = sent[h] + 1
<1>1. handler[h] = "body" /\ d = cur[h] /\ sent' = sent /\ NextClient(h, failed[h])
  BY DEF Writes, WriteBody
<1>2. failed[h] \in SUBSET Conns
  BY DEF TypeInv, TypeOK
<1>3. \/ handler'[h] = "lock" /\ cur'[h] \in todo[h] /\ todo'[h] = todo[h] \ {cur'[h]}
      \/ handler'[h] \in {"read", "prune"}
  BY <1>1, <1>2, NextClientMoves
<1>4. d \notin todo[h] /\ ChannelOf[d] = ChannelOf[h]
  BY <1>1 DEF DeliveryInv, LoopOK, Unserved, InLoop
<1>5. NotYet(h, d) /\ ~NotYet(h, d)'
  BY <1>1, <1>3, <1>4 DEF NotYet, InLoop
<1>6. sent[h] > 0 /\ Msg(h) \in Message
  BY <1>1, MsgType DEF InLoop, TypeInv, MsgOK
<1> QED
  BY <1>1, <1>4, <1>5, <1>6 DEF Bound

LEMMA InboxKept ==
  ASSUME TypeInv, [Next]_vars, NEW d \in Conns, NEW box, InboxOK(box, d)
  PROVE  box \in Seq(Message) /\ \A i \in 1..Len(box) : box[i][2] < Bound(box[i][1], d)'
<1>1. box \in Seq(Message) /\ \A i \in 1..Len(box) : box[i][2] < Bound(box[i][1], d)
  BY DEF InboxOK
<1> SUFFICES ASSUME NEW i \in 1..Len(box) PROVE box[i][2] < Bound(box[i][1], d)'
  BY <1>1
<1>2. PICK s \in Conns, k \in Nat : s = box[i][1] /\ k = box[i][2]
  <2>1. box[i] \in Message
    BY <1>1
  <2> QED
    BY <2>1 DEF Message
<1>3. k < Bound(s, d)
  BY <1>1, <1>2
<1>4. Bound(s, d) \in Nat /\ Bound(s, d)' \in Nat /\ Bound(s, d) <= Bound(s, d)'
  BY BoundNext
<1>5. PICK x, y \in Nat : x = Bound(s, d) /\ y = Bound(s, d)'
  BY <1>4
<1>6. k < y
  BY <1>2, <1>3, <1>4, <1>5
<1> QED
  BY <1>2, <1>5, <1>6

LEMMA DeliveryNext ==
  ASSUME TypeInv, RegistryIsClean, DeliveryInv, [Next]_vars PROVE DeliveryInv'
<1>1. LoopOK'
  BY LoopNext DEF DeliveryInv
<1>2. ASSUME NEW d \in Conns, Same(d) PROVE InboxOK(Payloads(wire[d]), d)'
  <2>1. PICK box : box = Payloads(wire[d]) /\ box = Payloads(wire'[d])
    BY <1>2 DEF Same
  <2>2. InboxOK(box, d)
    BY <2>1 DEF DeliveryInv
  <2>3. box \in Seq(Message) /\ \A i \in 1..Len(box) : box[i][2] < Bound(box[i][1], d)'
    BY <2>2, InboxKept
  <2> QED
    BY <2>1, <2>3 DEF InboxOK
<1>3. ASSUME NEW h \in Conns, NEW d \in Conns, Writes(h, d) PROVE InboxOK(Payloads(wire[d]), d)'
  <2>1. PICK box, new : box = Payloads(wire[d]) /\ new = Payloads(wire'[d])
    OBVIOUS
  <2>2. InboxOK(box, d)
    BY <2>1 DEF DeliveryInv
  <2>3. box \in Seq(Message) /\ \A i \in 1..Len(box) : box[i][2] < Bound(box[i][1], d)'
    BY <2>2, InboxKept
  <2>4. PICK m \in Message : m = Msg(h)
    BY <1>3, WritesNew
  <2>5. new = Append(box, m) /\ m[1] = h /\ m[2] = sent[h] /\ sent[h] \in Nat
    BY <1>3, <2>1, <2>4 DEF Writes, Msg, TypeInv, TypeOK
  <2>6. m[2] < Bound(m[1], d)'
    BY <1>3, <2>5, WritesNew
  <2>7. new \in Seq(Message) /\ \A i \in 1..Len(new) : (i \in 1..Len(box) /\ new[i] = box[i]) \/ new[i] = m
    BY <2>3, <2>5
  <2>8. \A i \in 1..Len(new) : new[i][2] < Bound(new[i][1], d)'
    BY <2>3, <2>6, <2>7
  <2> QED
    BY <2>1, <2>7, <2>8 DEF InboxOK
<1> QED
  BY <1>1, <1>2, <1>3, PayloadSteps DEF DeliveryInv

LEMMA DeliveryInit == Init => DeliveryInv
<1> SUFFICES ASSUME Init PROVE DeliveryInv
  OBVIOUS
<1>1. \A d \in Conns : wire[d] = <<>> /\ handler[d] = "join"
  BY DEF Init
<1>2. \A d \in Conns : Payloads(wire[d]) = <<>>
  BY <1>1, PayloadsEmpty
<1>3. ASSUME NEW d \in Conns, NEW box, box = <<>> PROVE InboxOK(box, d)
  BY <1>3 DEF InboxOK
<1>4. \A d \in Conns : InboxOK(Payloads(wire[d]), d)
  BY <1>2, <1>3
<1> QED
  BY <1>1, <1>4 DEF DeliveryInv, LoopOK, InLoop

LEMMA DeliveryAlways == Spec => []DeliveryInv
<1>1. RegistryIsClean /\ TypeInv /\ DeliveryInv /\ [Next]_vars => DeliveryInv'
  BY DeliveryNext
<1> QED
  BY <1>1, DeliveryInit, TypeAlways, RegistrySafe, PTL DEF Spec

\* ChatService and its handler keep what the chat promises: whole messages of
\* the own channel, each at most once, those of one sender in the order it
\* posted them.  Reading a text frame posts, and writing the last piece of a
\* frame to a peer that is there delivers; every other step stutters.
THEOREM DeliveryKept == Spec => ImplementsDelivery
<1>1. Init => Delivery!Init
  <2> SUFFICES ASSUME Init PROVE Delivery!Init
    OBVIOUS
  <2>1. \A d \in Conns : wire[d] = <<>>
    BY DEF Init
  <2>2. \A d \in Conns : Payloads(wire[d]) = <<>>
    BY <2>1, PayloadsEmpty
  <2> QED
    BY <2>2 DEF Init, Delivery!Init
<1>2. TypeInv /\ DeliveryInv /\ [Next]_vars => [Delivery!Next]_Delivery!vars
  <2> SUFFICES ASSUME TypeInv, DeliveryInv, [Next]_vars PROVE [Delivery!Next]_Delivery!vars
    OBVIOUS
  <2>0. sent \in [Conns -> Nat]
    BY DEF TypeInv, TypeOK
  <2>1. ASSUME \A d \in Conns : Same(d) PROVE [Delivery!Next]_Delivery!vars
    <3>1. [d \in Conns |-> Payloads(wire'[d])] = [d \in Conns |-> Payloads(wire[d])]
      BY <2>1 DEF Same
    <3>2. sent' = sent \/ \E h \in Conns : sent' = [sent EXCEPT ![h] = @ + 1]
      BY Zenon
      DEF Next, Serve, Arrive, Finished, JoinRefused, JoinRoom, ReadText, ReadControl, WriteReply, ReadFails,
         ReadTimesOut, LeaveRoom, CloseConn, SaveMessage, Snapshot, LockClient, WriteHead, WriteBody,
         WriteFails, CloseFailed, Prune, Peer, PeerLeaves, PeerStalls, PeerResumes, countVars, vars
    <3> QED
      BY <3>1, <3>2 DEF Delivery!Next, Delivery!Post, Delivery!vars
  <2>2. ASSUME NEW h \in Conns, NEW d \in Conns, Writes(h, d), \A e \in Conns \ {d} : Same(e)
        PROVE  Delivery!Deliver(h, d)
    <3> DEFINE inbox == [e \in Conns |-> Payloads(wire[e])]
               newInbox == [e \in Conns |-> Payloads(wire'[e])]
    <3>1. /\ ChannelOf[h] = ChannelOf[d] /\ sent[h] > 0 /\ Bound(h, d) = sent[h]
      BY <2>2, WritesNew
    <3>2. \A i \in 1..Len(inbox[d]) : inbox[d][i][1] = h => inbox[d][i][2] < sent[h]
      <4>1. PICK box : box = Payloads(wire[d])
        OBVIOUS
      <4>2. \A i \in 1..Len(box) : box[i][2] < Bound(box[i][1], d)
        BY <4>1 DEF DeliveryInv, InboxOK
      <4>3. \A i \in 1..Len(box) : box[i][1] = h => box[i][2] < sent[h]
        BY <3>1, <4>2
      <4> QED
        BY <4>1, <4>3
    <3>3. newInbox = [inbox EXCEPT ![d] = Append(@, <<h, sent[h]>>)]
      BY <2>2 DEF Writes, Same, Msg
    <3>4. sent' = sent
      BY <2>2 DEF Writes
    <3> QED
      BY <3>1, <3>2, <3>3, <3>4 DEF Delivery!Deliver
  <2> QED
    BY <2>1, <2>2, PayloadSteps DEF Delivery!Next
<1> QED
  BY <1>1, <1>2, DeliveryAlways, TypeAlways, PTL DEF Spec, ImplementsDelivery, Delivery!Spec
=============================================================================
