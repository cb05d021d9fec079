------------------------------ MODULE ChatRoom ------------------------------
(***************************************************************************)
(* One chat room: the actor goroutine Room.run (chat/hub.go) and, for each *)
(* viewer, the two goroutines of ServeWS and readLoop (chat/ws.go), which  *)
(* talk to it through the buffered channels join, leave, send and the      *)
(* client's own out.  The manager that creates the room and closes its     *)
(* stop channel is the environment here.                                   *)
(*                                                                         *)
(* Go's select takes any ready case, so the actor may receive from join,   *)
(* leave, send and stop in any order; each channel by itself is FIFO.      *)
(* Closing a closed channel and sending on a closed one panic, and a panic *)
(* in the actor ends the whole process.                                    *)
(***************************************************************************)
EXTENDS Integers, Sequences, FiniteSets

CONSTANTS
  Clients,      \* connections, each with a fixed identity
  User,         \* [Clients -> username, "" for a guest]
  Anon,         \* [Clients -> anonymous cookie, "" if there is none]
  NoClient,     \* value of cur outside the join branch
  HistorySize,  \* historySize: 50 in the code
  SendBuffer,   \* clientSendBuffer: 32 in the code
  JoinCap,      \* capacity of the join channel: 4 in the code
  LeaveCap,     \* capacity of the leave channel: 4 in the code
  SendCap,      \* capacity of the send channel: 64 in the code
  MaxMsgs       \* bound: messages users send to this room

ASSUME ConstantsAssumption ==
  /\ IsFiniteSet(Clients) /\ NoClient \notin Clients
  /\ User \in [Clients -> STRING] /\ Anon \in [Clients -> STRING]
  /\ {HistorySize, SendBuffer, JoinCap, LeaveCap, SendCap} \subseteq Nat \ {0}
  /\ MaxMsgs \in Nat

VARIABLES
  serve,    \* [Clients -> where the ServeWS goroutine is]
  reader,   \* [Clients -> where the readLoop goroutine is]
  got,      \* [Clients -> ids of the chat messages written to the socket]
  joinQ, leaveQ, sendQ,  \* the channels (of sendQ only the length matters)
  stop,     \* the stop channel is closed
  pc,       \* where the actor is: select, one of its branches, or its end
  cur,      \* local of the join branch: the client that joins
  pos,      \* local of the join branch: next message of the backlog
  changed,  \* local of the join and leave branches: viewerChanged
  room,     \* the actor's maps and the clients' queues, see RoomType
  history,  \* ids of the latest messages, oldest first
  lastId,   \* messages accepted so far, which are numbered 1, 2, ...
  viewerCount  \* the atomic read-side cache

conns == <<serve, reader, got>>
queue == <<joinQ, leaveQ, sendQ, stop>>
actor == <<pc, cur, pos, changed>>
log   == <<history, lastId>>
vars  == <<conns, queue, actor, room, log, viewerCount>>

Notice == 0   \* a system or viewers message; chat messages are 1, 2, ...

\* client.viewerKey: the identity the viewer count dedupes by.
NoKey == <<"", "">>
viewerKey(c) == IF User[c] # "" THEN <<"u", User[c]>>
                ELSE IF Anon[c] # "" THEN <<"g", Anon[c]>>
                ELSE NoKey

Keys  == {viewerKey(c) : c \in Clients} \ {NoKey}
Names == {User[c] : c \in Clients} \ {""}

\* How many of the connections S each identity has.
ByKey(S)  == [k \in Keys |-> Cardinality({c \in S : viewerKey(c) = k})]
ByName(S) == [n \in Names |-> Cardinality({c \in S : User[c] = n})]

Panics == {"panic_send", "panic_close"}
Alive  == pc \notin Panics

RoomType ==
  [members : SUBSET Clients,      \* the clients map
   closed  : SUBSET Clients,      \* client.closed
   shut    : SUBSET Clients,      \* close(c.out) was called
   out     : [Clients -> Seq(Nat)],
   views   : [Keys -> Nat],       \* viewerCounts, 0 for a missing key
   users   : [Names -> Nat]]      \* userPresence

TypeOK ==
  /\ serve \in [Clients -> {"new", "joining", "write", "bye", "close", "gone"}]
  /\ reader \in [Clients -> {"none", "read", "send", "gone"}]
  /\ got \in [Clients -> Seq(Nat)]
  /\ joinQ \in Seq(Clients) /\ Len(joinQ) <= JoinCap
  /\ leaveQ \in Seq(Clients) /\ Len(leaveQ) <= LeaveCap
  /\ sendQ \in 0..SendCap
  /\ stop \in BOOLEAN
  /\ pc \in {"select", "backlog", "joined", "left", "stopped"} \cup Panics
  /\ cur \in Clients \cup {NoClient}
  /\ pos \in Nat \ {0} /\ changed \in BOOLEAN
  /\ room \in RoomType
  /\ \A c \in Clients : Len(room.out[c]) <= SendBuffer
  /\ history \in Seq(Nat) /\ Len(history) <= HistorySize
  /\ lastId \in Nat
  /\ viewerCount \in Nat

Init ==
  /\ serve = [c \in Clients |-> "new"]
  /\ reader = [c \in Clients |-> "none"]
  /\ got = [c \in Clients |-> <<>>]
  /\ joinQ = <<>> /\ leaveQ = <<>> /\ sendQ = 0
  /\ stop = FALSE
  /\ pc = "select" /\ cur = NoClient /\ pos = 1 /\ changed = FALSE
  /\ room = [members |-> {}, closed |-> {}, shut |-> {},
             out |-> [c \in Clients |-> <<>>],
             views |-> [k \in Keys |-> 0], users |-> [n \in Names |-> 0]]
  /\ history = <<>> /\ lastId = 0
  /\ viewerCount = 0

-----------------------------------------------------------------------------
(* The goroutines of a connection. *)

\* websocket.Accept succeeded and getOrCreate returned this room.
Connect(c) ==
  /\ Alive /\ ~stop
  /\ serve[c] = "new"
  /\ serve' = [serve EXCEPT ![c] = "joining"]
  /\ UNCHANGED <<reader, got, queue, actor, room, log, viewerCount>>

\* The request context was already done (the peer left during the upgrade).
JoinCancelled(c) ==
  /\ Alive
  /\ serve[c] = "joining"
  /\ serve' = [serve EXCEPT ![c] = "gone"]
  /\ UNCHANGED <<reader, got, queue, actor, room, log, viewerCount>>

\* room.join <- c, then the reader goroutine starts.
JoinSent(c) ==
  /\ Alive
  /\ serve[c] = "joining"
  /\ Len(joinQ) < JoinCap
  /\ joinQ' = Append(joinQ, c)
  /\ serve' = [serve EXCEPT ![c] = "write"]
  /\ reader' = [reader EXCEPT ![c] = "read"]
  /\ UNCHANGED <<got, leaveQ, sendQ, stop, actor, room, log, viewerCount>>

\* The writer takes one message; a failed or timed out write ends the loop.
WriteOne(c, ok) ==
  /\ Alive
  /\ serve[c] = "write" /\ room.out[c] # <<>>
  /\ LET m == Head(room.out[c]) IN
       got' = IF ok /\ m # Notice THEN [got EXCEPT ![c] = Append(@, m)]
              ELSE got
  /\ room' = [room EXCEPT !.out[c] = Tail(@)]
  /\ serve' = [serve EXCEPT ![c] = IF ok THEN "write" ELSE "bye"]
  /\ UNCHANGED <<reader, queue, actor, log, viewerCount>>

\* range c.out ends: the queue is closed and drained.
WriterDrained(c) ==
  /\ Alive
  /\ serve[c] = "write" /\ room.out[c] = <<>> /\ c \in room.shut
  /\ serve' = [serve EXCEPT ![c] = "bye"]
  /\ UNCHANGED <<reader, got, queue, actor, room, log, viewerCount>>

\* Mutant: the select lost its default case and blocks.
LeaveBlocks(c) == Len(leaveQ) < LeaveCap /\ leaveQ' = Append(leaveQ, c)

\* select { case room.leave <- c: default: }: dropped when the channel is full.
TryLeave(c) ==
  leaveQ' = IF Len(leaveQ) < LeaveCap THEN Append(leaveQ, c) ELSE leaveQ

WriterLeaves(c) ==
  /\ Alive
  /\ serve[c] = "bye"
  /\ TryLeave(c)
  /\ serve' = [serve EXCEPT ![c] = "close"]
  /\ UNCHANGED <<reader, got, joinQ, sendQ, stop, actor, room, log, viewerCount>>

\* conn.Close, then the deferred readerCancel and CloseNow.
CloseConn(c) ==
  /\ Alive
  /\ serve[c] = "close"
  /\ serve' = [serve EXCEPT ![c] = "gone"]
  /\ UNCHANGED <<reader, got, queue, actor, room, log, viewerCount>>

\* conn.Read fails: the peer left, or this side closed the connection.
ReadFails(c) ==
  /\ Alive
  /\ reader[c] = "read"
  /\ TryLeave(c)
  /\ reader' = [reader EXCEPT ![c] = "gone"]
  /\ UNCHANGED <<serve, got, joinQ, sendQ, stop, actor, room, log, viewerCount>>

\* A well-formed message of a logged-in user within its quota; every other
\* frame is answered with an error and the loop continues.
ReadMessage(c) ==
  /\ Alive
  /\ reader[c] = "read" /\ serve[c] # "gone" /\ User[c] # ""
  /\ lastId + sendQ + Cardinality({d \in Clients : reader[d] = "send"}) < MaxMsgs
  /\ reader' = [reader EXCEPT ![c] = "send"]
  /\ UNCHANGED <<serve, got, queue, actor, room, log, viewerCount>>

SendInbound(c) ==
  /\ Alive
  /\ reader[c] = "send" /\ sendQ < SendCap
  /\ sendQ' = sendQ + 1
  /\ reader' = [reader EXCEPT ![c] = "read"]
  /\ UNCHANGED <<serve, got, joinQ, leaveQ, stop, actor, room, log, viewerCount>>

\* ctx.Done() while the send channel is full; this exit does not leave.
SendCancelled(c) ==
  /\ Alive
  /\ reader[c] = "send" /\ serve[c] = "gone"
  /\ reader' = [reader EXCEPT ![c] = "gone"]
  /\ UNCHANGED <<serve, got, queue, actor, room, log, viewerCount>>

-----------------------------------------------------------------------------
(* The actor's helpers, on a value r of the room. *)

\* Decrement per identity; an entry that reaches zero or less is deleted.
Less(counts, n) ==
  [k \in DOMAIN counts |-> IF counts[k] > n[k] THEN counts[k] - n[k] ELSE 0]

\* Mutant: the client stays in the clients map.
CloseWithoutDelete(r, S) ==
  [r EXCEPT !.closed = @ \cup S,
            !.shut   = @ \cup S,
            !.views  = Less(@, ByKey(S)),
            !.users  = Less(@, ByName(S))]

\* Mutant: the counts of an evicted client are left as they are.
RemoveKeepsCounts(r, S) ==
  [r EXCEPT !.members = @ \ S,
            !.closed  = @ \cup S,
            !.shut    = @ \cup S]

removeClients(r, S) ==
  [r EXCEPT !.members = @ \ S,
            !.closed  = @ \cup S,
            !.shut    = @ \cup S,
            !.views   = Less(@, ByKey(S)),
            !.users   = Less(@, ByName(S))]

Full(r, c) == Len(r.out[c]) >= SendBuffer

\* Every member gets the message or, its queue being full, is evicted.
dispatch(r, m) ==
  LET slow == {c \in r.members : Full(r, c)}
  IN  removeClients([r EXCEPT !.out =
                       [c \in Clients |-> IF c \in r.members \ slow
                                          THEN Append(@[c], m) ELSE @[c]]],
                    slow)

\* dispatch, then on to the next step; a send to a closed queue panics.
DispatchThen(r, m, next) ==
  IF r.members \cap r.shut = {}
  THEN room' = dispatch(r, m) /\ pc' = next
  ELSE room' = r /\ pc' = "panic_send"

Viewers(r) == Cardinality({k \in Keys : r.views[k] > 0})

-----------------------------------------------------------------------------
(* The actor. *)

\* The branch is over and its locals are out of scope.
EndBranch == cur' = NoClient /\ pos' = 1 /\ changed' = FALSE

RecvJoin ==
  /\ pc = "select" /\ joinQ # <<>>
  /\ cur' = Head(joinQ)
  /\ joinQ' = Tail(joinQ)
  /\ pc' = "backlog"
  /\ UNCHANGED <<conns, leaveQ, sendQ, stop, pos, changed, room, log, viewerCount>>

\* Mutant: after an overflow the client is registered all the same.
OverflowRegisters ==
  /\ pc = "backlog" /\ pos <= Len(history)
  /\ IF Full(room, cur)
     THEN pos' = Len(history) + 1 /\ UNCHANGED room
     ELSE /\ room' = [room EXCEPT !.out[cur] = Append(@, history[pos])]
          /\ pos' = pos + 1
  /\ UNCHANGED <<conns, queue, pc, cur, changed, log, viewerCount>>

\* Mutant: the join goes on after an overflow has closed the queue.
OverflowGoesOn ==
  /\ pc = "backlog" /\ pos <= Len(history)
  /\ IF Full(room, cur)
     THEN /\ room' = [room EXCEPT !.shut = @ \cup {cur}]
          /\ pos' = Len(history) + 1
     ELSE /\ room' = [room EXCEPT !.out[cur] = Append(@, history[pos])]
          /\ pos' = pos + 1
  /\ UNCHANGED <<conns, queue, pc, cur, changed, log, viewerCount>>

\* One message of the history; on overflow out is closed, closed is not set.
DeliverBacklog ==
  /\ pc = "backlog" /\ pos <= Len(history)
  /\ \/ /\ cur \in room.shut
        /\ pc' = "panic_send"
        /\ UNCHANGED <<cur, pos, changed, room>>
     \/ /\ cur \notin room.shut /\ ~Full(room, cur)
        /\ room' = [room EXCEPT !.out[cur] = Append(@, history[pos])]
        /\ pos' = pos + 1
        /\ UNCHANGED <<pc, cur, changed>>
     \/ /\ cur \notin room.shut /\ Full(room, cur)
        /\ room' = [room EXCEPT !.shut = @ \cup {cur}]
        /\ pc' = "select" /\ EndBranch
  /\ UNCHANGED <<conns, queue, log, viewerCount>>

\* The client enters the maps; its first connection is announced.
Enter(r, c) ==
  [r EXCEPT !.members = @ \cup {c},
            !.views = [k \in Keys |->
                         IF k = viewerKey(c) THEN @[k] + 1 ELSE @[k]],
            !.users = [n \in Names |->
                         IF n = User[c] THEN @[n] + 1 ELSE @[n]]]

Register ==
  /\ pc = "backlog" /\ pos > Len(history)
  /\ LET r == Enter(room, cur)
         first == User[cur] # "" /\ r.users[User[cur]] = 1
     IN  /\ changed' = (viewerKey(cur) # NoKey /\ r.views[viewerKey(cur)] = 1)
         /\ \/ first /\ DispatchThen(r, Notice, "joined")
            \/ ~first /\ room' = r /\ pc' = "joined"
  /\ UNCHANGED <<conns, queue, cur, pos, log, viewerCount>>

\* publishCount and the viewers broadcast.
Announce ==
  /\ viewerCount' = Viewers(room)
  /\ DispatchThen(room, Notice, "select")

\* No transition: only the new tab is told the count, if its queue has room.
TellOne(c) ==
  /\ UNCHANGED viewerCount
  /\ IF c \in room.shut
     THEN pc' = "panic_send" /\ UNCHANGED room
     ELSE /\ pc' = "select"
          /\ room' = IF Full(room, c) THEN room
                     ELSE [room EXCEPT !.out[c] = Append(@, Notice)]

JoinCount ==
  /\ pc = "joined"
  /\ IF changed THEN Announce ELSE TellOne(cur)
  /\ EndBranch
  /\ UNCHANGED <<conns, queue, log>>

RecvLeave ==
  /\ pc = "select" /\ leaveQ # <<>>
  /\ leaveQ' = Tail(leaveQ)
  /\ LET c == Head(leaveQ)
         r == removeClients(room, {c})
         key == viewerKey(c)
     IN  \/ /\ c \in room.closed
            /\ pc' = "left" /\ UNCHANGED <<changed, room>>
         \/ /\ c \in room.shut \ room.closed
            /\ pc' = "panic_close" /\ UNCHANGED <<changed, room>>
         \/ /\ c \notin room.shut \cup room.closed
            /\ changed' = (key # NoKey /\ r.views[key] = 0)
            /\ IF User[c] # "" /\ r.users[User[c]] = 0
               THEN DispatchThen(r, Notice, "left")
               ELSE room' = r /\ pc' = "left"
  /\ UNCHANGED <<conns, joinQ, sendQ, stop, cur, pos, log, viewerCount>>

\* onEmpty, called here when nobody is left, only arms the manager's timer.
LeaveCount ==
  /\ pc = "left"
  /\ IF changed THEN Announce ELSE pc' = "select" /\ UNCHANGED <<room, viewerCount>>
  /\ EndBranch
  /\ UNCHANGED <<conns, queue, log>>

appendHistory(m) ==
  Append(IF Len(history) = HistorySize THEN Tail(history) ELSE history, m)

RecvSend ==
  /\ pc = "select" /\ sendQ > 0
  /\ sendQ' = sendQ - 1
  /\ lastId' = lastId + 1
  /\ history' = appendHistory(lastId + 1)
  /\ DispatchThen(room, lastId + 1, "select")
  /\ UNCHANGED <<conns, joinQ, leaveQ, stop, cur, pos, changed, viewerCount>>

\* reap or shutdownAll closes the stop channel.
CloseStop ==
  /\ Alive /\ ~stop
  /\ stop' = TRUE
  /\ UNCHANGED <<conns, joinQ, leaveQ, sendQ, actor, room, log, viewerCount>>

\* Mutant: the actor returns without closing its clients.
StopReturns ==
  /\ pc = "select" /\ stop
  /\ pc' = "stopped"
  /\ UNCHANGED <<conns, queue, cur, pos, changed, room, log, viewerCount>>

RecvStop ==
  /\ pc = "select" /\ stop
  /\ room' = removeClients(room, room.members)
  /\ pc' = "stopped"
  /\ UNCHANGED <<conns, queue, cur, pos, changed, log, viewerCount>>

-----------------------------------------------------------------------------
Next ==
  \/ RecvJoin \/ DeliverBacklog \/ Register \/ JoinCount
  \/ RecvLeave \/ LeaveCount \/ RecvSend \/ CloseStop \/ RecvStop
  \/ \E c \in Clients :
       \/ Connect(c) \/ JoinCancelled(c) \/ JoinSent(c)
       \/ WriterDrained(c) \/ WriterLeaves(c) \/ CloseConn(c)
       \/ ReadFails(c) \/ ReadMessage(c) \/ SendInbound(c) \/ SendCancelled(c)
       \/ \E ok \in BOOLEAN : WriteOne(c, ok)

Spec == Init /\ [][Next]_vars

\* Goroutines with something to do run; a write ends within writeTimeout, one
\* way or the other; a read of a connection this side has closed fails.  Go's
\* select is random, so a closed stop, always ready, is taken in the end
\* although joins, leaves and messages go on.  Peers owe nothing.
Fairness ==
  /\ WF_vars(DeliverBacklog \/ Register \/ JoinCount \/ LeaveCount)
  /\ SF_vars(RecvStop)
  /\ \A c \in Clients :
       /\ WF_vars(\/ \E ok \in BOOLEAN : WriteOne(c, ok)
                  \/ WriterDrained(c) \/ WriterLeaves(c) \/ CloseConn(c))
       /\ WF_vars(serve[c] = "gone" /\ (ReadFails(c) \/ SendCancelled(c)))

FairSpec == Spec /\ Fairness

-----------------------------------------------------------------------------
(* Properties that hold. *)

\* A client whose leave was received before its join, which the select may do
\* and which closes its queue.  Receiving its join ends the process.
Overtaken == \E i \in 1..Len(joinQ) : joinQ[i] \in room.closed

Doomed ==
  \/ ~Alive
  \/ Overtaken
  \/ pc = "backlog" /\ cur \in room.closed
  \/ room.members \cap room.closed # {}

\* viewerCounts and userPresence count exactly the registered connections of
\* each identity, through joins, leaves, evictions in the middle of a join or
\* of a leave, duplicated leaves and dropped ones.
CountsExact ==
  ~Doomed =>
    /\ room.views = ByKey(room.members)
    /\ room.users = ByName(room.members)

\* While the actor waits in its select the queue of every registered client
\* is open, so that no broadcast, count or stop can hit a closed channel; and
\* no queue, channel or history is ever longer than its bound.
MembersOpen ==
  /\ TypeOK
  /\ pc = "select" => room.members \cap room.shut = {}

\* The only client a send can find closed is one whose leave was received
\* before its join: no eviction, overflow or stop, in the middle of whatever
\* branch, leaves a closed queue where a broadcast or a count is sent.
OnlyOvertakenPanics ==
  pc = "panic_send" =>
    cur \in room.closed \/ room.members \cap room.closed # {}

\* What a connection has been given, written or still queued.
Given(c) == got[c] \o room.out[c]

\* Each chat message in g follows the one before it, notices apart.
Contiguous(g) ==
  \A i, j \in 1..Len(g) :
    /\ i < j /\ g[i] # Notice /\ g[j] # Notice
    /\ \A k \in i+1..j-1 : g[k] = Notice
    => g[j] = g[i] + 1

\* The last chat message in g is n; there is none if n is 0.
UpTo(g, n) ==
  \/ n = 0 /\ \A k \in 1..Len(g) : g[k] = Notice
  \/ n # 0 /\ \E i \in 1..Len(g) :
       g[i] = n /\ \A k \in i+1..Len(g) : g[k] = Notice

\* Backlog and broadcasts join up: a connection sees the messages in order,
\* each once, without a gap, whatever is broadcast while it joins; and a
\* registered one has been given everything up to the latest message.
DeliveryContiguous ==
  \A c \in Clients :
    /\ serve[c] \in {"new", "joining", "write"} => Contiguous(Given(c))
    /\ c \in room.members /\ serve[c] = "write" => UpTo(Given(c), lastId)

\* Once the room has closed a client's queue, both its goroutines end.
ClosedEnds ==
  \A c \in Clients : c \in room.shut /\ serve[c] = "write"
     ~> (serve[c] = "gone" /\ reader[c] = "gone") \/ ~Alive

\* Once stop is closed the actor returns, although clients go on sending, and
\* every client registered at that moment has its queue closed.
StopStops == stop ~> (pc = "stopped" /\ room.members = {}) \/ ~Alive

-----------------------------------------------------------------------------
(* A statement of the code's comments that the code does not keep. *)

\* hub.go:96: the deferred leave "is a harmless no-op".
LeaveHarmless == pc # "panic_close"

=============================================================================
