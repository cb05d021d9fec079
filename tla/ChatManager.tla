----------------------------- MODULE ChatManager -----------------------------
(***************************************************************************)
(* The chat manager (chat/manager.go): the map from channel names to room  *)
(* entries, the reap timers and the shutdown, with the rooms of chat/hub.go*)
(* and the connections of chat/ws.go reduced to who is in which room.      *)
(*                                                                         *)
(* Rooms are incarnations: a channel gets a new one after the previous one *)
(* was reaped.  m.mu makes each method one step, but reap and shutdownAll  *)
(* close the stop channel after unlocking, an AfterFunc goroutine waits    *)
(* for the lock after its timer fired, and a room calls onEmpty by channel *)
(* name.  A leave is received after the join of the same client, and the   *)
(* backlog of a join fits: what happens otherwise is the subject of module *)
(* ChatRoom, as are the queues abstracted here.  The join channel keeps    *)
(* its capacity: a client of a full one waits, and nobody empties it once  *)
(* the actor has returned.                                                 *)
(***************************************************************************)
EXTENDS Naturals, FiniteSets

CONSTANTS
  Channels,   \* channel names
  Rooms,      \* incarnations of rooms, a bound on how many are created
  Clients,    \* connections
  JoinCap,    \* capacity of the join channel: 4 in the code
  NoRoom,     \* no entry in the rooms map
  NoChannel   \* channel of an incarnation not created yet

ASSUME NoRoomAssumption == NoRoom \notin Rooms /\ NoChannel \notin Channels

ASSUME JoinCapAssumption == JoinCap \in Nat \ {0}

VARIABLES
  entry,    \* m.rooms: [Channels -> room or NoRoom]
  stopped,  \* m.stopped
  name,     \* [Rooms -> channel it was created for]
  armed,    \* [Rooms -> the reapTimer of its entry is pending]
  fired,    \* [Rooms -> its timer has fired and reap waits for the lock]
  closing,  \* rooms deleted from the map whose stop is about to be closed
  stop,     \* rooms whose stop channel is closed
  run,      \* [Rooms -> state of the actor goroutine]
  members,  \* [Rooms -> the clients map]
  serve,    \* [Clients -> where ServeWS is]
  where,    \* [Clients -> the room getOrCreate returned]
  reading,  \* clients whose reader goroutine runs
  leaves    \* pending messages of the leave channels: <<client, sender>>

manager == <<entry, stopped, name, armed, fired>>
rooms   == <<closing, stop, run, members>>
clients == <<serve, where, reading, leaves>>
vars    == <<manager, rooms, clients>>

Senders == {"reader", "writer"}

TypeOK ==
  /\ entry \in [Channels -> Rooms \cup {NoRoom}]
  /\ stopped \in BOOLEAN
  /\ name \in [Rooms -> Channels \cup {NoChannel}]
  /\ armed \in SUBSET Rooms /\ fired \in SUBSET Rooms
  /\ closing \in SUBSET Rooms /\ stop \in SUBSET Rooms
  /\ run \in [Rooms -> {"none", "select", "empty", "exited"}]
  /\ members \in [Rooms -> SUBSET Clients]
  /\ serve \in [Clients -> {"new", "got", "queued", "in", "shut", "gone"}]
  /\ where \in [Clients -> Rooms \cup {NoRoom}]
  /\ reading \in SUBSET Clients
  /\ leaves \in SUBSET (Clients \X Senders)

Init ==
  /\ entry = [ch \in Channels |-> NoRoom]
  /\ stopped = FALSE
  /\ name = [r \in Rooms |-> NoChannel]
  /\ armed = {} /\ fired = {} /\ closing = {} /\ stop = {}
  /\ run = [r \in Rooms |-> "none"]
  /\ members = [r \in Rooms |-> {}]
  /\ serve = [c \in Clients |-> "new"]
  /\ where = [c \in Clients |-> NoRoom]
  /\ reading = {} /\ leaves = {}

-----------------------------------------------------------------------------
(* manager.getOrCreate, as ServeWS calls it. *)

Hand(c, r) ==
  /\ serve' = [serve EXCEPT ![c] = "got"]
  /\ where' = [where EXCEPT ![c] = r]
  /\ UNCHANGED <<reading, leaves>>

\* stopped: nil is returned and the connection is closed.
Refuse(c) ==
  /\ stopped /\ serve[c] = "new"
  /\ serve' = [serve EXCEPT ![c] = "gone"]
  /\ UNCHANGED <<manager, rooms, where, reading, leaves>>

\* The room exists: a pending reap timer is stopped, one that fired is not.
GetRoom(c, ch) ==
  /\ ~stopped /\ serve[c] = "new" /\ entry[ch] # NoRoom
  /\ armed' = armed \ {entry[ch]}
  /\ Hand(c, entry[ch])
  /\ UNCHANGED <<entry, stopped, name, fired, rooms>>

\* Mutant: stopped is not checked.
CreateAfterStop(c, ch, r) ==
  /\ serve[c] = "new" /\ entry[ch] = NoRoom
  /\ run[r] = "none"
  /\ entry' = [entry EXCEPT ![ch] = r]
  /\ name' = [name EXCEPT ![r] = ch]
  /\ run' = [run EXCEPT ![r] = "select"]
  /\ Hand(c, r)
  /\ UNCHANGED <<stopped, armed, fired, closing, stop, members>>

CreateRoom(c, ch, r) ==
  /\ ~stopped /\ serve[c] = "new" /\ entry[ch] = NoRoom
  /\ run[r] = "none"
  /\ entry' = [entry EXCEPT ![ch] = r]
  /\ name' = [name EXCEPT ![r] = ch]
  /\ run' = [run EXCEPT ![r] = "select"]
  /\ Hand(c, r)
  /\ UNCHANGED <<stopped, armed, fired, closing, stop, members>>

-----------------------------------------------------------------------------
(* A connection and its room, reduced to membership. *)

To(c, st) == serve' = [serve EXCEPT ![c] = st]

\* The request context is done: the peer left during the upgrade.
JoinCancelled(c) ==
  /\ serve[c] = "got"
  /\ To(c, "gone")
  /\ UNCHANGED <<manager, rooms, where, reading, leaves>>

\* The clients whose join is in the channel of room r.
JoinQueue(r) == {c \in Clients : serve[c] = "queued" /\ where[c] = r}

\* room.join <- c, which blocks while the channel is full; then the reader
\* goroutine starts.
JoinSent(c) ==
  /\ serve[c] = "got"
  /\ Cardinality(JoinQueue(where[c])) < JoinCap
  /\ To(c, "queued")
  /\ reading' = reading \cup {c}
  /\ UNCHANGED <<manager, rooms, where, leaves>>

RecvJoin(c) ==
  /\ serve[c] = "queued" /\ run[where[c]] = "select"
  /\ members' = [members EXCEPT ![where[c]] = @ \cup {c}]
  /\ To(c, "in")
  /\ UNCHANGED <<manager, closing, stop, run, where, reading, leaves>>

\* select { case room.leave <- c: default: }: dropped when the channel, whose
\* length is abstracted, is full.
TryLeave(c, who) == leaves' \in {leaves, leaves \cup {<<c, who>>}}

\* conn.Read fails: the reader goroutine leaves and ends.
ReaderLeaves(c) ==
  /\ c \in reading
  /\ reading' = reading \ {c}
  /\ TryLeave(c, "reader")
  /\ UNCHANGED <<manager, rooms, serve, where>>

\* The writer's final leave, after a failed write or the end of its queue.
WriterLeaves(c) ==
  /\ serve[c] \in {"in", "shut"}
  /\ TryLeave(c, "writer")
  /\ To(c, "gone")
  /\ UNCHANGED <<manager, rooms, where, reading>>

\* The room closes the queues of clients: the writers of those still writing
\* will find their range loop over.
CloseOut(S) ==
  serve' = [c \in Clients |->
              IF c \in S /\ serve[c] = "in" THEN "shut" ELSE serve[c]]

\* dispatch finds the client's queue full.
Evict(c) ==
  /\ where[c] # NoRoom /\ run[where[c]] = "select" /\ c \in members[where[c]]
  /\ members' = [members EXCEPT ![where[c]] = @ \ {c}]
  /\ CloseOut({c})
  /\ UNCHANGED <<manager, closing, stop, run, where, reading, leaves>>

\* removeClient, which does nothing to a closed client; then, if nobody is
\* left, onEmpty.
RecvLeave(c, who) ==
  /\ <<c, who>> \in leaves /\ serve[c] # "queued"
  /\ run[where[c]] = "select"
  /\ leaves' = leaves \ {<<c, who>>}
  /\ members' = [members EXCEPT ![where[c]] = @ \ {c}]
  /\ CloseOut({c})
  /\ run' = [run EXCEPT ![where[c]] =
               IF members[where[c]] \ {c} = {} THEN "empty" ELSE "select"]
  /\ UNCHANGED <<manager, closing, stop, where, reading>>

\* Mutant: the actor returns and leaves the queues of its clients open.
StopLeavesQueues(r) ==
  /\ run[r] = "select" /\ r \in stop
  /\ run' = [run EXCEPT ![r] = "exited"]
  /\ members' = [members EXCEPT ![r] = {}]
  /\ UNCHANGED <<manager, closing, stop, clients>>

RecvStop(r) ==
  /\ run[r] = "select" /\ r \in stop
  /\ run' = [run EXCEPT ![r] = "exited"]
  /\ CloseOut(members[r])
  /\ members' = [members EXCEPT ![r] = {}]
  /\ UNCHANGED <<manager, closing, stop, where, reading, leaves>>

-----------------------------------------------------------------------------
(* Reaping and shutdown. *)

\* Mutant: no check that the channel still has an entry.
ScheduleWithoutEntry(r) ==
  /\ run[r] = "empty"
  /\ run' = [run EXCEPT ![r] = "select"]
  /\ armed' = armed \cup {entry[name[r]]}
  /\ UNCHANGED <<entry, stopped, name, fired, closing, stop, members, clients>>

\* Mutant: the old timer is stopped and no new one started.
TimerNotRestarted(r) ==
  /\ run[r] = "empty"
  /\ run' = [run EXCEPT ![r] = "select"]
  /\ armed' = armed \ {entry[name[r]]}
  /\ UNCHANGED <<entry, stopped, name, fired, closing, stop, members, clients>>

\* onEmpty is bound to the channel's name: whatever entry is there now gets
\* its timer replaced by a new one.
scheduleReap(r) ==
  /\ run[r] = "empty"
  /\ run' = [run EXCEPT ![r] = "select"]
  /\ armed' = armed \cup ({entry[name[r]]} \ {NoRoom})
  /\ UNCHANGED <<entry, stopped, name, fired, closing, stop, members, clients>>

\* roomIdleAfter has passed: the AfterFunc goroutine starts.  An earlier one
\* of the same entry has long got the lock by then.
TimerFires(r) ==
  /\ r \in armed \ fired
  /\ armed' = armed \ {r}
  /\ fired' = fired \cup {r}
  /\ UNCHANGED <<entry, stopped, name, rooms, clients>>

\* Mutant: the entry is not deleted.
ReapKeepsEntry(r) ==
  /\ r \in fired
  /\ fired' = fired \ {r}
  /\ closing' = closing \cup ({entry[name[r]]} \ {NoRoom})
  /\ UNCHANGED <<entry, stopped, name, armed, stop, run, members, clients>>

\* Mutant: the entry is deleted and the actor forgotten.
ReapForgetsStop(r) ==
  /\ r \in fired
  /\ fired' = fired \ {r}
  /\ entry' = [entry EXCEPT ![name[r]] = NoRoom]
  /\ UNCHANGED <<stopped, name, armed, rooms, clients>>

\* It gets the lock and deletes whatever is registered for the name.
reap(r) ==
  /\ r \in fired
  /\ fired' = fired \ {r}
  /\ closing' = closing \cup ({entry[name[r]]} \ {NoRoom})
  /\ entry' = [entry EXCEPT ![name[r]] = NoRoom]
  /\ UNCHANGED <<stopped, name, armed, stop, run, members, clients>>

\* close(e.room.stop), after the unlock.
CloseStop(r) ==
  /\ r \in closing
  /\ closing' = closing \ {r}
  /\ stop' = stop \cup {r}
  /\ UNCHANGED <<manager, run, members, clients>>

\* Mutant: the map is emptied but no stop channel is closed.
ShutdownForgetsStop ==
  /\ ~stopped
  /\ stopped' = TRUE
  /\ armed' = armed \ {entry[ch] : ch \in Channels}
  /\ entry' = [ch \in Channels |-> NoRoom]
  /\ UNCHANGED <<name, fired, rooms, clients>>

shutdownAll ==
  /\ ~stopped
  /\ stopped' = TRUE
  /\ LET all == {entry[ch] : ch \in Channels} \ {NoRoom}
     IN  armed' = armed \ all /\ closing' = closing \cup all
  /\ entry' = [ch \in Channels |-> NoRoom]
  /\ UNCHANGED <<name, fired, stop, run, members, clients>>

-----------------------------------------------------------------------------
Next ==
  \/ shutdownAll
  \/ \E r \in Rooms : \/ scheduleReap(r) \/ TimerFires(r) \/ reap(r)
                      \/ CloseStop(r) \/ RecvStop(r)
  \/ \E c \in Clients :
       \/ Refuse(c) \/ JoinCancelled(c) \/ JoinSent(c) \/ RecvJoin(c)
       \/ ReaderLeaves(c) \/ WriterLeaves(c) \/ Evict(c)
       \/ \E who \in Senders : RecvLeave(c, who)
       \/ \E ch \in Channels : GetRoom(c, ch)
       \/ \E ch \in Channels, r \in Rooms : CreateRoom(c, ch, r)

Spec == Init /\ [][Next]_vars

\* Goroutines that hold or wait for the lock go on, timers fire, a join for
\* which the channel has room is sent, a closed queue or connection is noticed,
\* and an actor whose stop is closed takes that case in the end (select is
\* random, hence SF).  Peers owe nothing, and that a request context is done, or
\* that a join or a leave is received before the stop, is not owed either.
Fairness ==
  /\ \A r \in Rooms :
       /\ WF_vars(scheduleReap(r)) /\ WF_vars(TimerFires(r))
       /\ WF_vars(reap(r)) /\ WF_vars(CloseStop(r)) /\ SF_vars(RecvStop(r))
  /\ \A c \in Clients :
       /\ WF_vars(JoinSent(c))
       /\ WF_vars(serve[c] = "shut" /\ WriterLeaves(c))
       /\ WF_vars(serve[c] = "gone" /\ ReaderLeaves(c))

FairSpec == Spec /\ Fairness

-----------------------------------------------------------------------------
(* Properties that hold. *)

\* What getOrCreate hands out is alive: the room of an entry has a running
\* actor and nobody has closed, or is about to close, its stop channel.  So
\* stop is closed at most once, although timers outlive their entries and
\* reap by name.
EntryRunning ==
  \A ch \in Channels : entry[ch] # NoRoom =>
    /\ name[entry[ch]] = ch
    /\ run[entry[ch]] \in {"select", "empty"}
    /\ entry[ch] \notin closing \cup stop

\* No actor goroutine is leaked: a running room is in the map or on its way
\* to be stopped; and none is stopped twice.
NoLeakedRoom ==
  /\ closing \cap stop = {}
  /\ \A r \in Rooms : run[r] \in {"select", "empty"} =>
       entry[name[r]] = r \/ r \in closing \cup stop

\* After Shutdown the map stays empty: a late onEmpty, a fired timer or a new
\* connection does not bring a room back.
StoppedEmpty == stopped => \A ch \in Channels : entry[ch] = NoRoom

\* After Shutdown every room actor returns.
ShutdownEnds ==
  stopped ~> \A r \in Rooms : run[r] \in {"none", "exited"} /\ members[r] = {}

\* After Shutdown every connection that had a room ends, except in a room whose
\* actor has returned: a client whose join was still in the channel waits for
\* ever on a queue nobody closes, and one behind a full join channel waits for
\* ever to send.
ClientsReleased ==
  \A c \in Clients :
    stopped ~> \/ serve[c] \in {"new", "gone"}
               \/ /\ run[where[c]] = "exited"
                  /\ \/ serve[c] = "queued"
                     \/ /\ serve[c] = "got"
                        /\ Cardinality(JoinQueue(where[c])) = JoinCap

\* A room that its last client left, when no connection is still to call
\* getOrCreate, is reaped in the end or occupied again by a client that had
\* taken it before, although leaves are duplicated or dropped.
EmptiedReaped ==
  \A r \in Rooms :
    run[r] = "empty" /\ (\A c \in Clients : serve[c] # "new")
      ~> run[r] = "exited" \/ members[r] # {}

-----------------------------------------------------------------------------
(* A statement of the code's comments that the code does not keep. *)

\* manager.go:52: "if a new client joins before it fires, the timer is cancelled
\* in getOrCreate"; the timer is there "while empty and pending reap".
OccupiedNotPending == \A r \in Rooms : members[r] # {} => r \notin armed

=============================================================================
