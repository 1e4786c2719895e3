------------------------------ MODULE ChatRoom ------------------------------
(***************************************************************************)
(* The live chat of one server instance: ChatService (JoinRoom, LeaveRoom, *)
(* BroadcastToRoom) and the WebSocket handler that drives it.              *)
(*                                                                         *)
(* Every connection c has one goroutine, the handler, that joins the room  *)
(* and then reads frames; a text frame is broadcast in that same           *)
(* goroutine.  handler[c] is its program counter.  The sections of code    *)
(* under ChatService.mu never block, so each is one atomic step; the       *)
(* per-client mutex is held across a socket write, so it is explicit.      *)
(*                                                                         *)
(* A frame leaves the process in two writes (header, payload); the answer  *)
(* to a ping or a close frame, a "pong" here, in one.  stalled is the set  *)
(* of peers that do not read: their socket buffers are full and a write to *)
(* them blocks, with no write deadline.                                    *)
(***************************************************************************)
EXTENDS Naturals, Sequences, FiniteSets

CONSTANTS Conns,       \* the connections opened in a behaviour
          Channels,    \* the channels (rooms)
          ChannelOf,   \* ChannelOf[c]: the channel in the URL of c
          SlowPeers,   \* the peers that may stop reading
          Leavers,     \* the peers that may vanish
          MaxMsgs,     \* bound: MaxMsgs[c] text frames come from c
          MaxPings,    \* bound: MaxPings[c] ping or close frames come from c
          None         \* no connection

ASSUME ChatAssumption ==
  /\ ChannelOf \in [Conns -> Channels]
  /\ SlowPeers \subseteq Conns /\ Leavers \subseteq Conns
  /\ MaxMsgs \in [Conns -> Nat] /\ MaxPings \in [Conns -> Nat]
  /\ None \notin Conns

VARIABLES
  rooms,     \* ChatService.rooms: channel -> set of connections; absent channels have no key
  handler,   \* the program counter of each connection's goroutine
  conn,      \* the server's end: "open" | "closed"
  gone,      \* the peers that have disconnected
  stalled,   \* the peers that are not reading
  sent,      \* sent[c]: text frames read from c; <<c, sent[c]>> is its current message
  pings,     \* pings[c]: ping and close frames read from c
  clients,   \* clients[h]: the snapshot a broadcast works through
  todo,      \* todo[h]: the clients of the snapshot not yet written to
  cur,       \* cur[h]: the client the loop is at
  failed,    \* failed[h]: the clients whose write failed
  lock,      \* lock[d]: the goroutine that holds wsClient.mu of d
  wire       \* wire[d]: the pieces that reached the peer of d, in order

vars == <<rooms, handler, conn, gone, stalled, sent, pings, clients, todo,
          cur, failed, lock, wire>>

peerVars  == <<gone, stalled>>
loopVars  == <<clients, todo, cur, failed>>
countVars == <<sent, pings>>

\* The states of a goroutine in the write loop of BroadcastToRoom.
InLoop == {"lock", "head", "body", "drop"}
\* The states between JoinRoom's insertion and LeaveRoom's deletion.
Serving == InLoop \cup {"read", "pong", "save", "snapshot", "prune", "leave"}
States == Serving \cup {"join", "close", "done"}

Message == Conns \X (Nat \ {0})
Piece == [kind : {"head", "body"}, msg : Message] \cup [kind : {"pong"}]
Pong == [kind |-> "pong"]

Goto(h, s) == handler' = [handler EXCEPT ![h] = s]
Msg(h) == <<h, sent[h]>>
Dead(d) == conn[d] = "closed" \/ d \in gone
Room(ch) == IF ch \in DOMAIN rooms THEN rooms[ch] ELSE {}

\* The map with room ch set to S; an empty room has no key.
SetRoom(ch, S) ==
  [k \in (DOMAIN rooms \ {ch}) \cup (IF S = {} THEN {} ELSE {ch}) |->
     IF k = ch THEN S ELSE rooms[k]]

\* A socket write to d that returns without error: bytes sent to a peer that
\* has vanished are lost.
WriteOK(d, piece) ==
  /\ conn[d] = "open" /\ d \notin stalled
  /\ wire' = IF d \in gone THEN wire ELSE [wire EXCEPT ![d] = Append(@, piece)]

-----------------------------------------------------------------------------
Init ==
  /\ rooms = [ch \in {} |-> {}]
  /\ handler = [c \in Conns |-> "join"]
  /\ conn = [c \in Conns |-> "open"]
  /\ gone = {} /\ stalled = {}
  /\ sent = [c \in Conns |-> 0]
  /\ pings = [c \in Conns |-> 0]
  /\ clients = [c \in Conns |-> {}]
  /\ todo = [c \in Conns |-> {}]
  /\ cur = [c \in Conns |-> None]
  /\ failed = [c \in Conns |-> {}]
  /\ lock = [c \in Conns |-> None]
  /\ wire = [c \in Conns |-> <<>>]

\* The peers: a connected peer may vanish, stop reading, and read again.
PeerLeaves(c) ==
  /\ c \in Leavers /\ conn[c] = "open" /\ c \notin gone
  /\ gone' = gone \cup {c}
  /\ stalled' = stalled \ {c}
  /\ UNCHANGED <<rooms, handler, conn, countVars, loopVars, lock, wire>>

PeerStalls(c) ==
  /\ c \in SlowPeers /\ conn[c] = "open" /\ c \notin gone \cup stalled
  /\ stalled' = stalled \cup {c}
  /\ UNCHANGED <<rooms, handler, conn, gone, countVars, loopVars, lock, wire>>

PeerResumes(c) ==
  /\ c \in stalled
  /\ stalled' = stalled \ {c}
  /\ UNCHANGED <<rooms, handler, conn, gone, countVars, loopVars, lock, wire>>

-----------------------------------------------------------------------------
\* The handler starts where UpgradeHTTP has returned an open connection.  (A
\* request refused before that has no connection and changes nothing.)
\* IsMember is asked before the lock; a refusal or an error closes the
\* connection without LeaveRoom.
JoinRefused(h) ==
  /\ handler[h] = "join"
  /\ conn' = [conn EXCEPT ![h] = "closed"]
  /\ Goto(h, "done")
  /\ UNCHANGED <<rooms, peerVars, countVars, loopVars, lock, wire>>

\* Mutant: the room is keyed by the connection instead of the channel.
JoinRoom_WrongKey(h) ==
  /\ handler[h] = "join"
  /\ rooms' = SetRoom(h, Room(h) \cup {h})
  /\ Goto(h, "read")
  /\ UNCHANGED <<conn, peerVars, countVars, loopVars, lock, wire>>

JoinRoom(h) ==
  /\ handler[h] = "join"
  /\ rooms' = SetRoom(ChannelOf[h], Room(ChannelOf[h]) \cup {h})
  /\ Goto(h, "read")
  /\ UNCHANGED <<conn, peerVars, countVars, loopVars, lock, wire>>

\* ReadClientData returns a text frame that parses.  (A binary frame or bad
\* JSON goes back to reading and is not a step.)
ReadText(h) ==
  /\ handler[h] = "read" /\ conn[h] = "open"
  /\ sent[h] < MaxMsgs[h]
  /\ sent' = [sent EXCEPT ![h] = @ + 1]
  /\ Goto(h, "save")
  /\ UNCHANGED <<rooms, conn, peerVars, pings, loopVars, lock, wire>>

\* ReadClientData answers a ping or a close frame itself, without
\* wsClient.mu ...
ReadControl(h) ==
  /\ handler[h] = "read" /\ conn[h] = "open"
  /\ pings[h] < MaxPings[h]
  /\ pings' = [pings EXCEPT ![h] = @ + 1]
  /\ Goto(h, "pong")
  /\ UNCHANGED <<rooms, conn, peerVars, sent, loopVars, lock, wire>>

\* ... and goes on reading after a ping; after a close frame it returns an
\* error.
WriteReply(h) ==
  /\ handler[h] = "pong" /\ WriteOK(h, Pong)
  /\ Goto(h, "read") \/ Goto(h, "leave")
  /\ UNCHANGED <<rooms, conn, peerVars, countVars, loopVars, lock>>

\* Mutant: a failed read returns without the deferred LeaveRoom.
ReadFails_NoLeave(h) ==
  /\ handler[h] \in {"read", "pong"} /\ Dead(h)
  /\ Goto(h, "close")
  /\ UNCHANGED <<rooms, conn, peerVars, countVars, loopVars, lock, wire>>

\* The read (or the answer) fails because the connection is gone ...
ReadFails(h) ==
  /\ handler[h] \in {"read", "pong"} /\ Dead(h)
  /\ Goto(h, "leave")
  /\ UNCHANGED <<rooms, conn, peerVars, countVars, loopVars, lock, wire>>

\* ... or no data frame came within the 90 s deadline.
ReadTimesOut(h) ==
  /\ handler[h] = "read" /\ ~Dead(h)
  /\ Goto(h, "leave")
  /\ UNCHANGED <<rooms, conn, peerVars, countVars, loopVars, lock, wire>>

\* Mutant: the deferred cleanup forgets Close.
LeaveRoom_NoClose(h) ==
  /\ handler[h] = "leave"
  /\ rooms' = SetRoom(ChannelOf[h], Room(ChannelOf[h]) \ {h})
  /\ Goto(h, "done")
  /\ UNCHANGED <<conn, peerVars, countVars, loopVars, lock, wire>>

\* The deferred cleanup: LeaveRoom, then Close.
LeaveRoom(h) ==
  /\ handler[h] = "leave"
  /\ rooms' = SetRoom(ChannelOf[h], Room(ChannelOf[h]) \ {h})
  /\ Goto(h, "close")
  /\ UNCHANGED <<conn, peerVars, countVars, loopVars, lock, wire>>

CloseConn(h) ==
  /\ handler[h] = "close"
  /\ conn' = [conn EXCEPT ![h] = "closed"]
  /\ stalled' = stalled \ {h}
  /\ Goto(h, "done")
  /\ UNCHANGED <<rooms, gone, countVars, loopVars, lock, wire>>

-----------------------------------------------------------------------------
\* BroadcastToRoom begins with the Save, which may block.  Nothing here reads
\* what is stored, and a failed Save is only logged: the message goes out.
SaveMessage(h) ==
  /\ handler[h] = "save"
  /\ Goto(h, "snapshot")
  /\ UNCHANGED <<rooms, conn, peerVars, countVars, loopVars, lock, wire>>

\* The room is copied under the read lock; the loop visits the copy in map
\* order, that is in any order.
Snapshot(h) ==
  /\ handler[h] = "snapshot"
  /\ LET S == Room(ChannelOf[h]) IN
     /\ clients' = [clients EXCEPT ![h] = S]
     /\ \/ /\ S = {}
           /\ Goto(h, "read")
           /\ UNCHANGED <<todo, cur>>
        \/ \E d \in S :
             /\ cur' = [cur EXCEPT ![h] = d]
             /\ todo' = [todo EXCEPT ![h] = S \ {d}]
             /\ Goto(h, "lock")
  /\ UNCHANGED <<rooms, conn, peerVars, countVars, failed, lock, wire>>

\* Mutant: the write does not wait for wsClient.mu.
LockClient_NoWait(h) ==
  /\ handler[h] = "lock"
  /\ lock' = [lock EXCEPT ![cur[h]] = h]
  /\ Goto(h, "head")
  /\ UNCHANGED <<rooms, conn, peerVars, countVars, loopVars, wire>>

LockClient(h) ==
  /\ handler[h] = "lock"
  /\ lock[cur[h]] = None
  /\ lock' = [lock EXCEPT ![cur[h]] = h]
  /\ Goto(h, "head")
  /\ UNCHANGED <<rooms, conn, peerVars, countVars, loopVars, wire>>

\* Mutant: the loop does not strike off the client it moves to.
NextClient_Repeats(h, bad) ==
  \/ \E d \in clients[h] :
       /\ cur' = [cur EXCEPT ![h] = d]
       /\ failed' = [failed EXCEPT ![h] = bad]
       /\ Goto(h, "lock")
       /\ UNCHANGED <<clients, todo>>
  \/ /\ cur' = [cur EXCEPT ![h] = None]
     /\ failed' = [failed EXCEPT ![h] = bad]
     /\ Goto(h, IF bad = {} THEN "read" ELSE "prune")
     /\ clients' = IF bad = {} THEN [clients EXCEPT ![h] = {}] ELSE clients
     /\ UNCHANGED todo

\* The loop moves to its next client, or ends; bad are the failures so far.
NextClient(h, bad) ==
  \/ \E d \in todo[h] :
       /\ cur' = [cur EXCEPT ![h] = d]
       /\ todo' = [todo EXCEPT ![h] = @ \ {d}]
       /\ failed' = [failed EXCEPT ![h] = bad]
       /\ Goto(h, "lock")
       /\ UNCHANGED clients
  \/ /\ todo[h] = {}
     /\ cur' = [cur EXCEPT ![h] = None]
     /\ failed' = [failed EXCEPT ![h] = bad]
     /\ Goto(h, IF bad = {} THEN "read" ELSE "prune")
     /\ clients' = IF bad = {} THEN [clients EXCEPT ![h] = {}] ELSE clients
     /\ UNCHANGED todo

WriteHead(h) ==
  /\ handler[h] = "head"
  /\ WriteOK(cur[h], [kind |-> "head", msg |-> Msg(h)])
  /\ Goto(h, "body")
  /\ UNCHANGED <<rooms, conn, peerVars, countVars, loopVars, lock>>

WriteBody(h) ==
  /\ handler[h] = "body"
  /\ WriteOK(cur[h], [kind |-> "body", msg |-> Msg(h)])
  /\ lock' = [lock EXCEPT ![cur[h]] = None]
  /\ NextClient(h, failed[h])
  /\ UNCHANGED <<rooms, conn, peerVars, countVars>>

\* Mutant: the error path does not unlock.
WriteFails_NoUnlock(h) ==
  /\ handler[h] \in {"head", "body"}
  /\ Dead(cur[h])
  /\ Goto(h, "drop")
  /\ UNCHANGED <<rooms, conn, peerVars, countVars, loopVars, lock, wire>>

\* Either write returns an error, also one that was blocked when the
\* connection died; the mutex is released before the connection is closed.
WriteFails(h) ==
  /\ handler[h] \in {"head", "body"}
  /\ Dead(cur[h])
  /\ lock' = [lock EXCEPT ![cur[h]] = None]
  /\ Goto(h, "drop")
  /\ UNCHANGED <<rooms, conn, peerVars, countVars, loopVars, wire>>

\* Mutant: a failed client is pruned but not closed.
CloseFailed_NoClose(h) ==
  /\ handler[h] = "drop"
  /\ NextClient(h, failed[h] \cup {cur[h]})
  /\ UNCHANGED <<rooms, conn, peerVars, countVars, lock, wire>>

\* Mutant: the first failed write ends the loop.
CloseFailed_Stops(h) ==
  /\ handler[h] = "drop"
  /\ conn' = [conn EXCEPT ![cur[h]] = "closed"]
  /\ failed' = [failed EXCEPT ![h] = {cur[h]}]
  /\ Goto(h, "prune")
  /\ UNCHANGED <<rooms, gone, stalled, countVars, clients, todo, cur, lock, wire>>

CloseFailed(h) ==
  /\ handler[h] = "drop"
  /\ conn' = [conn EXCEPT ![cur[h]] = "closed"]
  /\ stalled' = stalled \ {cur[h]}
  /\ NextClient(h, failed[h] \cup {cur[h]})
  /\ UNCHANGED <<rooms, gone, countVars, lock, wire>>

Prune(h) ==
  /\ handler[h] = "prune"
  /\ rooms' = SetRoom(ChannelOf[h], Room(ChannelOf[h]) \ failed[h])
  /\ clients' = [clients EXCEPT ![h] = {}]
  /\ failed' = [failed EXCEPT ![h] = {}]
  /\ Goto(h, "read")
  /\ UNCHANGED <<conn, peerVars, countVars, todo, cur, lock, wire>>

-----------------------------------------------------------------------------
\* What the scheduler, the database and the network always get done.
Serve(h) ==
  \/ JoinRefused(h) \/ JoinRoom(h)
  \/ WriteReply(h) \/ ReadFails(h) \/ LeaveRoom(h) \/ CloseConn(h)
  \/ SaveMessage(h) \/ Snapshot(h) \/ LockClient(h)
  \/ WriteHead(h) \/ WriteBody(h) \/ WriteFails(h) \/ CloseFailed(h) \/ Prune(h)

Peer(c) == PeerLeaves(c) \/ PeerStalls(c) \/ PeerResumes(c)
Arrive(h) == ReadText(h) \/ ReadControl(h)

Finished == (\A c \in Conns : handler[c] = "done") /\ UNCHANGED vars

Next == \/ \E c \in Conns : Serve(c) \/ Arrive(c) \/ ReadTimesOut(c) \/ Peer(c)
        \/ Finished

Spec == Init /\ [][Next]_vars

\* Strong fairness of the goroutines: sync.Mutex does not starve a waiter,
\* and a write to a peer that keeps reading is not starved either.  A silent
\* connection does reach its read deadline, and a peer that does not read
\* reads again at some time: without that a write to it never returns.
ServerFairness ==
  \A c \in Conns : SF_vars(Serve(c)) /\ WF_vars(ReadTimesOut(c))
PeersResume == \A c \in Conns : WF_vars(PeerResumes(c))

FairSpec == Spec /\ ServerFairness /\ PeersResume
-----------------------------------------------------------------------------
TypeOK ==
  /\ DOMAIN rooms \subseteq Channels
  /\ rooms \in [DOMAIN rooms -> SUBSET Conns]
  /\ handler \in [Conns -> States]
  /\ conn \in [Conns -> {"open", "closed"}]
  /\ gone \subseteq Conns /\ stalled \subseteq Conns
  /\ sent \in [Conns -> Nat] /\ pings \in [Conns -> Nat]
  /\ clients \in [Conns -> SUBSET Conns] /\ todo \in [Conns -> SUBSET Conns]
  /\ failed \in [Conns -> SUBSET Conns]
  /\ cur \in [Conns -> Conns \cup {None}]
  /\ lock \in [Conns -> Conns \cup {None}]
  /\ wire \in [Conns -> Seq(Piece)]

-----------------------------------------------------------------------------
\* Nothing leaks: a registered connection is in the room of its own channel
\* and its handler is still there to run LeaveRoom, whatever the order of
\* joins, failures, prunes and disconnects; and no room is left empty
\* (JoinRoom, LeaveRoom and the end of BroadcastToRoom).
RegistryIsClean ==
  \A ch \in DOMAIN rooms :
    /\ rooms[ch] # {}
    /\ \A c \in rooms[ch] : ChannelOf[c] = ch /\ handler[c] \in Serving

\* A connection that is open and being served is registered: the prune of
\* somebody's failed clients, from a stale snapshot, never unsubscribes a
\* connection that still works.
ServedIsRegistered ==
  \A c \in Conns :
    handler[c] \in Serving /\ conn[c] = "open" => c \in Room(ChannelOf[c])

\* wsClient.mu: the goroutine between the first and the last write of a
\* frame is the holder, so two goroutines are never both there for a client.
LockGuardsFrame ==
  \A h, d \in Conns :
    lock[d] = h <=> (handler[h] \in {"head", "body"} /\ cur[h] = d)

\* Concurrent broadcasts never tear each other's frames: on every wire, "pong"s
\* apart, what follows a header is the payload of that header, and a payload
\* follows its header.
Follows(w, i, j) == i < j /\ w[j] # Pong /\ \A k \in (i + 1)..(j - 1) : w[k] = Pong
FramesNotTorn ==
  \A d \in Conns : \A j \in 1..Len(wire[d]) :
    LET w == wire[d] IN
    /\ \A i \in 1..Len(w) : w[i].kind = "head" /\ Follows(w, i, j) => w[j] = [kind |-> "body", msg |-> w[i].msg]
    /\ w[j].kind = "body" =>
         \E i \in 1..Len(w) : Follows(w, i, j) /\ w[i] = [kind |-> "head", msg |-> w[j].msg]

\* What a client can parse: a payload directly behind its header
\* (docs/frontend-guide.md:650, "broadcasts a full `Message` object as a JSON
\* text frame").  ReadClientData's answers do not take wsClient.mu.
FramesWhole ==
  \A d \in Conns : \A i \in 1..(Len(wire[d]) - 1) :
    wire[d][i].kind = "head" => wire[d][i + 1].kind = "body"

\* When a broadcast ends, every client of its snapshot whose connection still
\* lives has the whole message, the sender included, however many others
\* failed in between (docs/frontend-guide.md:644, "echoed back to all
\* connected clients (including the sender)").
Received(d, m) == \E i \in 1..Len(wire[d]) : wire[d][i] = [kind |-> "body", msg |-> m]
BroadcastReachesLive ==
  [][\A h \in Conns :
       handler[h] \in InLoop /\ handler'[h] \notin InLoop =>
         \A d \in clients[h] : Dead(d)' \/ Received(d, Msg(h))']_vars

\* The chat's promise: whole messages, at most once, in each sender's order.
\* A message counts as received when its payload has been written.
Payloads(w) ==
  LET got[i \in 0..Len(w)] ==
        IF i = 0 THEN <<>>
        ELSE IF w[i].kind = "body" THEN Append(got[i - 1], w[i].msg) ELSE got[i - 1]
  IN  got[Len(w)]
Delivery == INSTANCE ChatDelivery
              WITH posted <- sent, inbox <- [d \in Conns |-> Payloads(wire[d])]
ImplementsDelivery == Delivery!Spec

\* If peers that stall eventually read again, every broadcast ends ...
BroadcastEnds ==
  \A h \in Conns : handler[h] \in InLoop ~> handler[h] \in {"read", "done"}

\* ... and the connection of a peer that has vanished is closed and
\* unregistered.
VanishedIsReaped ==
  \A c \in Conns : c \in gone ~> conn[c] = "closed" /\ c \notin Room(ChannelOf[c])
=============================================================================
