------------------------- MODULE ChatManager_proofs -------------------------
(***************************************************************************)
(* Proofs about ChatManager, for any sets of channels, incarnations and    *)
(* connections.  reap and onEmpty work by channel name, so the invariants  *)
(* need Born: every timer, pending close and closed stop channel belongs   *)
(* to an incarnation that was created, hence to a channel of the map.      *)
(***************************************************************************)
EXTENDS ChatManager, TLAPS

\* What is known of an incarnation once, and only once, it was created.
Born ==
  /\ \A r \in Rooms : run[r] # "none" => name[r] \in Channels
  /\ \A r \in armed \cup fired \cup closing \cup stop : run[r] # "none"

\* The inductive invariant.
MapInv == Born /\ EntryRunning /\ NoLeakedRoom /\ StoppedEmpty

LEMMA MapInit == Init => TypeOK /\ MapInv
<1> SUFFICES ASSUME Init PROVE TypeOK /\ MapInv
  OBVIOUS
<1> USE DEF Init
<1>1. TypeOK
  BY DEF TypeOK
<1>2. MapInv
  BY DEF MapInv, Born, EntryRunning, NoLeakedRoom, StoppedEmpty
<1> QED
  BY <1>1, <1>2

LEMMA MapStep == TypeOK /\ MapInv /\ [Next]_vars => TypeOK' /\ MapInv'
<1> SUFFICES ASSUME TypeOK, MapInv, [Next]_vars PROVE TypeOK' /\ MapInv'
  OBVIOUS
<1> USE NoRoomAssumption DEF TypeOK, MapInv, Born, EntryRunning, NoLeakedRoom,
        StoppedEmpty, manager, rooms, clients, Senders
<1>1. CASE UNCHANGED vars
  BY <1>1 DEF vars
<1>2. CASE shutdownAll
  BY <1>2 DEF shutdownAll
<1>3. ASSUME NEW r \in Rooms, scheduleReap(r)
      PROVE  TypeOK' /\ MapInv'
  BY <1>3 DEF scheduleReap
<1>4. ASSUME NEW r \in Rooms, TimerFires(r)
      PROVE  TypeOK' /\ MapInv'
  BY <1>4 DEF TimerFires
<1>5. ASSUME NEW r \in Rooms, reap(r)
      PROVE  TypeOK' /\ MapInv'
  BY <1>5 DEF reap
<1>6. ASSUME NEW r \in Rooms, CloseStop(r)
      PROVE  TypeOK' /\ MapInv'
  BY <1>6 DEF CloseStop
<1>7. ASSUME NEW r \in Rooms, RecvStop(r)
      PROVE  TypeOK' /\ MapInv'
  BY <1>7 DEF RecvStop, CloseOut
<1>8. ASSUME NEW c \in Clients, Refuse(c)
      PROVE  TypeOK' /\ MapInv'
  BY <1>8 DEF Refuse
<1>9. ASSUME NEW c \in Clients, JoinCancelled(c)
      PROVE  TypeOK' /\ MapInv'
  BY <1>9 DEF JoinCancelled, To
<1>10. ASSUME NEW c \in Clients, JoinSent(c)
      PROVE  TypeOK' /\ MapInv'
  BY <1>10 DEF JoinSent, To
<1>11. ASSUME NEW c \in Clients, RecvJoin(c)
      PROVE  TypeOK' /\ MapInv'
  <2>1. members' \in [Rooms -> SUBSET Clients]
    <3>1. \A r \in Rooms : members[r] \cup {c} \in SUBSET Clients
      OBVIOUS
    <3>2. members' = [r \in Rooms |-> IF r = where[c] THEN members[r] \cup {c}
                                      ELSE members[r]]
      BY <1>11 DEF RecvJoin
    <3> QED
      BY <3>1, <3>2
  <2>2. serve' \in [Clients -> {"new", "got", "queued", "in", "shut", "gone"}]
    BY <1>11 DEF RecvJoin, To
  <2> QED
    BY <1>11, <2>1, <2>2 DEF RecvJoin
<1>12. ASSUME NEW c \in Clients, ReaderLeaves(c)
      PROVE  TypeOK' /\ MapInv'
  BY <1>12 DEF ReaderLeaves, TryLeave
<1>13. ASSUME NEW c \in Clients, WriterLeaves(c)
      PROVE  TypeOK' /\ MapInv'
  BY <1>13 DEF WriterLeaves, TryLeave, To
<1>14. ASSUME NEW c \in Clients, Evict(c)
      PROVE  TypeOK' /\ MapInv'
  BY <1>14 DEF Evict, CloseOut
<1>15. ASSUME NEW c \in Clients, NEW who \in Senders, RecvLeave(c, who)
      PROVE  TypeOK' /\ MapInv'
  <2>1. members' \in [Rooms -> SUBSET Clients]
    BY <1>15 DEF RecvLeave
  <2>2. serve' \in [Clients -> {"new", "got", "queued", "in", "shut", "gone"}]
    BY <1>15 DEF RecvLeave, CloseOut
  <2>3. run' \in [Rooms -> {"none", "select", "empty", "exited"}]
    BY <1>15 DEF RecvLeave
  <2>4. leaves' \in SUBSET (Clients \X Senders)
    BY <1>15 DEF RecvLeave
  <2>5. TypeOK'
    BY <1>15, <2>1, <2>2, <2>3, <2>4 DEF RecvLeave
  <2>6. \A r \in Rooms : run[r] \in {"select", "empty"}
                           <=> run'[r] \in {"select", "empty"}
    BY <1>15 DEF RecvLeave
  <2>7. \A r \in Rooms : run[r] = "none" <=> run'[r] = "none"
    BY <1>15 DEF RecvLeave
  <2> QED
    BY <1>15, <2>5, <2>6, <2>7 DEF RecvLeave
<1>16. ASSUME NEW c \in Clients, NEW ch \in Channels, GetRoom(c, ch)
      PROVE  TypeOK' /\ MapInv'
  BY <1>16 DEF GetRoom, Hand
<1>17. ASSUME NEW c \in Clients, NEW ch \in Channels, NEW r \in Rooms,
             CreateRoom(c, ch, r)
      PROVE  TypeOK' /\ MapInv'
  BY <1>17 DEF CreateRoom, Hand
<1> HIDE DEF TypeOK, MapInv
<1> QED
  BY <1>1, <1>2, <1>3, <1>4, <1>5, <1>6, <1>7,
     <1>8, <1>9, <1>10, <1>11, <1>12, <1>13, <1>14, <1>15, <1>16, <1>17 DEF Next

\* Every reachable state satisfies the types and the inductive invariant.
THEOREM MapInvariance == Spec => [](TypeOK /\ MapInv)
BY MapInit, MapStep, PTL DEF Spec

\* Every reachable state has the declared types: rooms, timers and clients are
\* always in one of the positions the manager's code has for them.
THEOREM TypeCorrect == Spec => []TypeOK
<1>1. TypeOK /\ MapInv => TypeOK
  OBVIOUS
<1> QED
  BY <1>1, MapInvariance, PTL

\* getOrCreate only hands out rooms whose actor runs and which nobody is
\* about to stop, whatever timers are pending, fired or left over.
THEOREM RoomsRunning == Spec => []EntryRunning
<1>1. MapInv => EntryRunning
  BY DEF MapInv
<1> QED
  BY <1>1, MapInvariance, PTL

\* Every actor goroutine is in the map or will be stopped, and no stop
\* channel is closed twice.
THEOREM NoRoomLeaks == Spec => []NoLeakedRoom
<1>1. MapInv => NoLeakedRoom
  BY DEF MapInv
<1> QED
  BY <1>1, MapInvariance, PTL

\* After shutdownAll no room is ever registered again.
THEOREM ShutdownFinal == Spec => []StoppedEmpty
<1>1. MapInv => StoppedEmpty
  BY DEF MapInv
<1> QED
  BY <1>1, MapInvariance, PTL

=============================================================================
