-------------------------- MODULE ChatRoom_proofs ---------------------------
(***************************************************************************)
(* Proofs about ChatRoom, for every set of connections and identities and  *)
(* every capacity of the queues.  They follow a connection from its join   *)
(* request to its end: it is asked for once, so it is in the join channel, *)
(* at the actor's hands, in the maps or closed, and never comes back.  The *)
(* second half follows what each connection is given, message by message.  *)
(***************************************************************************)
EXTENDS ChatRoom, FiniteSetTheorems, SequenceTheorems, TLAPS

Queued(c) == \E i \in 1..Len(joinQ) : joinQ[i] = c
InHand(c) == pc = "backlog" /\ cur = c

\* Closed by an overflow of the backlog: client.closed is not set.
Overflowed == room.shut \ room.closed

\* reader # "none" says that the join of the connection was sent.
Started ==
  /\ \A c \in Clients : serve[c] \in {"new", "joining"} => reader[c] = "none"
  /\ \A c \in Clients : serve[c] \in {"write", "bye", "close"} => reader[c] # "none"
  /\ \A i \in 1..Len(leaveQ) : reader[leaveQ[i]] # "none"

\* Each connection joins once, and from then on it is somewhere.
JoinsOnce ==
  /\ \A i, j \in 1..Len(joinQ) : joinQ[i] = joinQ[j] => i = j
  /\ pc = "backlog" => cur \in Clients /\ ~Queued(cur)
  /\ \A c \in Clients : Queued(c) \/ InHand(c) =>
       reader[c] # "none" /\ c \notin room.members /\ c \notin Overflowed
  /\ \A c \in room.members \cup room.shut : reader[c] # "none"
  /\ \A c \in Clients : reader[c] # "none" =>
       Queued(c) \/ InHand(c) \/ c \in room.members \/ c \in room.shut

\* Where a registered client's queue may be closed.
Open ==
  /\ room.closed \subseteq room.shut
  /\ room.members \cap Overflowed = {}
  /\ pc \in {"select", "backlog", "left"} => room.members \cap room.shut = {}
  /\ pc = "joined" =>
       /\ cur \in Clients
       /\ room.members \cap room.shut \subseteq {cur}
       /\ ~changed => cur \in room.members
  /\ pc = "stopped" => room.members = {}
  /\ OnlyOvertakenPanics

\* The two counters of a user agree.
Paired(r) == \A n \in Names : r.views[<<"u", n>>] = r.users[n]

RoomInv ==
  TypeOK /\ Started /\ JoinsOnce /\ Open /\ Paired(room) /\ CountsExact

-----------------------------------------------------------------------------
(* Counting connections. *)

LEMMA FiniteKeys == IsFiniteSet(Keys)
<1> DEFINE f == [c \in Clients |-> viewerKey(c)]
           K == {viewerKey(c) : c \in Clients}
<1>1. f \in Surjection(Clients, K)
  BY DEF Surjection
<1>2. IsFiniteSet(K)
  BY <1>1, FS_Surjection, ConstantsAssumption
<1> QED
  BY <1>2, FS_Subset DEF Keys

\* The connections among S of one identity.
LEMMA CountType ==
  ASSUME NEW S \in SUBSET Clients
  PROVE  ByKey(S) \in [Keys -> Nat] /\ ByName(S) \in [Names -> Nat]
<1>1. ASSUME NEW T \in SUBSET S
      PROVE  IsFiniteSet(T) /\ Cardinality(T) \in Nat
  BY FS_Subset, FS_CardinalityType, ConstantsAssumption
<1>2. \A k \in Keys : Cardinality({c \in S : viewerKey(c) = k}) \in Nat
  BY <1>1
<1>3. \A n \in Names : Cardinality({c \in S : User[c] = n}) \in Nat
  BY <1>1
<1> QED
  BY <1>2, <1>3 DEF ByKey, ByName

\* A logged-in user is counted by the name.
LEMMA UserKey ==
  ASSUME NEW n \in Names
  PROVE  /\ <<"u", n>> \in Keys
         /\ \A c \in Clients : viewerKey(c) = <<"u", n>> <=> User[c] = n
         /\ \A S \in SUBSET Clients : ByKey(S)[<<"u", n>>] = ByName(S)[n]
<1>1. n # ""
  BY DEF Names
<1>2. ASSUME NEW c \in Clients
      PROVE  viewerKey(c) = <<"u", n>> <=> User[c] = n
  BY <1>1 DEF viewerKey, NoKey
<1>3. <<"u", n>> \in Keys
  <2>1. PICK c \in Clients : User[c] = n
    BY DEF Names
  <2>2. viewerKey(c) = <<"u", n>>
    BY <1>2, <2>1
  <2>3. <<"u", n>> # NoKey
    BY DEF NoKey
  <2> QED
    BY <2>2, <2>3 DEF Keys
<1>4. ASSUME NEW S \in SUBSET Clients
      PROVE  ByKey(S)[<<"u", n>>] = ByName(S)[n]
  <2>1. {c \in S : viewerKey(c) = <<"u", n>>} = {c \in S : User[c] = n}
    BY <1>2
  <2> QED
    BY <1>3, <2>1 DEF ByKey, ByName
<1> QED
  BY <1>2, <1>3, <1>4

\* Cardinalities of parts of a set of connections.
LEMMA PartCount ==
  ASSUME NEW T \in SUBSET Clients, NEW P \in SUBSET T
  PROVE  /\ Cardinality(T) \in Nat /\ Cardinality(P) \in Nat
         /\ Cardinality(T \ P) \in Nat
         /\ Cardinality(T) = Cardinality(T \ P) + Cardinality(P)
<1>1. IsFiniteSet(T) /\ IsFiniteSet(P) /\ IsFiniteSet(T \ P)
  BY FS_Subset, ConstantsAssumption
<1>2. /\ Cardinality(T) \in Nat /\ Cardinality(P) \in Nat
      /\ Cardinality(T \ P) \in Nat
  BY <1>1, FS_CardinalityType
<1>3. T = (T \ P) \cup P /\ (T \ P) \cap P = {}
  OBVIOUS
<1>4. Cardinality((T \ P) \cup P)
        = Cardinality(T \ P) + Cardinality(P) - Cardinality((T \ P) \cap P)
  BY <1>1, FS_Union
<1>5. Cardinality(T) = Cardinality(T \ P) + Cardinality(P) - 0
  BY <1>3, <1>4, FS_EmptySet
<1> QED
  BY <1>2, <1>5

LEMMA LessType ==
  ASSUME NEW K, NEW f \in [K -> Nat], NEW g \in [K -> Nat]
  PROVE  /\ Less(f, g) \in [K -> Nat]
         /\ \A k \in K : /\ Less(f, g)[k] <= f[k]
                         /\ Less(f, g)[k] = IF f[k] > g[k] THEN f[k] - g[k] ELSE 0
<1>1. DOMAIN f = K
  OBVIOUS
<1>2. Less(f, g) = [k \in K |-> IF f[k] > g[k] THEN f[k] - g[k] ELSE 0]
  BY <1>1 DEF Less
<1>3. \A k \in K : f[k] \in Nat /\ g[k] \in Nat
  OBVIOUS
<1> QED
  BY <1>2, <1>3

\* Taking some registered connections away, per identity.
LEMMA LessExact ==
  ASSUME NEW M \in SUBSET Clients, NEW S \in SUBSET M
  PROVE  /\ Less(ByKey(M), ByKey(S)) = ByKey(M \ S)
         /\ Less(ByName(M), ByName(S)) = ByName(M \ S)
<1>1. /\ ByKey(M) \in [Keys -> Nat] /\ ByKey(S) \in [Keys -> Nat]
      /\ ByKey(M \ S) \in [Keys -> Nat]
      /\ ByName(M) \in [Names -> Nat] /\ ByName(S) \in [Names -> Nat]
      /\ ByName(M \ S) \in [Names -> Nat]
  BY CountType
<1>2. ASSUME NEW k \in Keys
      PROVE  Less(ByKey(M), ByKey(S))[k] = ByKey(M \ S)[k]
  <2> DEFINE T == {c \in M : viewerKey(c) = k}
             P == {c \in S : viewerKey(c) = k}
  <2>1. T \in SUBSET Clients /\ P \in SUBSET T
    OBVIOUS
  <2>2. {c \in M \ S : viewerKey(c) = k} = T \ P
    OBVIOUS
  <2>3. /\ ByKey(M)[k] = Cardinality(T) /\ ByKey(S)[k] = Cardinality(P)
        /\ ByKey(M \ S)[k] = Cardinality(T \ P)
    BY <2>2 DEF ByKey
  <2> HIDE DEF T, P
  <2>4. Less(ByKey(M), ByKey(S))[k]
          = IF ByKey(M)[k] > ByKey(S)[k] THEN ByKey(M)[k] - ByKey(S)[k] ELSE 0
    BY <1>1, LessType
  <2>5. /\ Cardinality(T) \in Nat /\ Cardinality(P) \in Nat
        /\ Cardinality(T \ P) \in Nat
        /\ Cardinality(T) = Cardinality(T \ P) + Cardinality(P)
    BY <2>1, PartCount
  <2> QED
    BY <2>3, <2>4, <2>5
<1>3. ASSUME NEW n \in Names
      PROVE  Less(ByName(M), ByName(S))[n] = ByName(M \ S)[n]
  <2> DEFINE T == {c \in M : User[c] = n}
             P == {c \in S : User[c] = n}
  <2>1. T \in SUBSET Clients /\ P \in SUBSET T
    OBVIOUS
  <2>2. {c \in M \ S : User[c] = n} = T \ P
    OBVIOUS
  <2>3. /\ ByName(M)[n] = Cardinality(T) /\ ByName(S)[n] = Cardinality(P)
        /\ ByName(M \ S)[n] = Cardinality(T \ P)
    BY <2>2 DEF ByName
  <2> HIDE DEF T, P
  <2>4. Less(ByName(M), ByName(S))[n]
          = IF ByName(M)[n] > ByName(S)[n] THEN ByName(M)[n] - ByName(S)[n] ELSE 0
    BY <1>1, LessType
  <2>5. /\ Cardinality(T) \in Nat /\ Cardinality(P) \in Nat
        /\ Cardinality(T \ P) \in Nat
        /\ Cardinality(T) = Cardinality(T \ P) + Cardinality(P)
    BY <2>1, PartCount
  <2> QED
    BY <2>3, <2>4, <2>5
<1>4. /\ Less(ByKey(M), ByKey(S)) \in [Keys -> Nat]
      /\ Less(ByName(M), ByName(S)) \in [Names -> Nat]
  BY <1>1, LessType
<1>5. Less(ByKey(M), ByKey(S)) = ByKey(M \ S)
  <2> DEFINE f == Less(ByKey(M), ByKey(S))
             g == ByKey(M \ S)
  <2>1. /\ f \in [Keys -> Nat] /\ g \in [Keys -> Nat]
        /\ \A k \in Keys : f[k] = g[k]
    BY <1>1, <1>2, <1>4
  <2> HIDE DEF f, g
  <2>2. f = g
    BY ONLY <2>1
  <2> QED
    BY <2>2 DEF f, g
<1>6. Less(ByName(M), ByName(S)) = ByName(M \ S)
  <2> DEFINE f == Less(ByName(M), ByName(S))
             g == ByName(M \ S)
  <2>1. /\ f \in [Names -> Nat] /\ g \in [Names -> Nat]
        /\ \A k \in Names : f[k] = g[k]
    BY <1>1, <1>3, <1>4
  <2> HIDE DEF f, g
  <2>2. f = g
    BY ONLY <2>1
  <2> QED
    BY <2>2 DEF f, g
<1> QED
  BY <1>5, <1>6

-----------------------------------------------------------------------------
(* What the actor's helpers do to the room. *)

RoomOK(r) == r \in RoomType /\ \A c \in Clients : Len(r.out[c]) <= SendBuffer

Exact(r) == r.views = ByKey(r.members) /\ r.users = ByName(r.members)

\* d is r after some of its members, or none, were removed and closed.
Evicted(r, d) ==
  /\ RoomOK(d)
  /\ d.members \subseteq r.members
  /\ d.closed = r.closed \cup (r.members \ d.members)
  /\ d.shut = r.shut \cup (r.members \ d.members)
  /\ Paired(r) => Paired(d)
  /\ Exact(r) => Exact(d)

LEMMA ViewersType ==
  ASSUME NEW r, r.views \in [Keys -> Nat]
  PROVE  Viewers(r) \in Nat
<1> DEFINE R == {k \in Keys : r.views[k] > 0}
<1>1. IsFiniteSet(R)
  BY FiniteKeys, FS_Subset
<1> QED
  BY <1>1, FS_CardinalityType DEF Viewers

LEMMA RemoveFields ==
  ASSUME NEW r \in RoomType, NEW S \in SUBSET Clients
  PROVE  LET d == removeClients(r, S) IN
         /\ d \in RoomType
         /\ d.members = r.members \ S /\ d.closed = r.closed \cup S
         /\ d.shut = r.shut \cup S /\ d.out = r.out
         /\ d.views = Less(r.views, ByKey(S))
         /\ d.users = Less(r.users, ByName(S))
<1>1. ByKey(S) \in [Keys -> Nat] /\ ByName(S) \in [Names -> Nat]
  BY CountType
<1>2. r.views \in [Keys -> Nat] /\ r.users \in [Names -> Nat]
  BY DEF RoomType
<1>3. /\ Less(r.views, ByKey(S)) \in [Keys -> Nat]
      /\ Less(r.users, ByName(S)) \in [Names -> Nat]
  BY <1>1, <1>2, LessType
<1> QED
  BY <1>3 DEF removeClients, RoomType

LEMMA RemoveCounts ==
  ASSUME NEW r \in RoomType, NEW S \in SUBSET Clients
  PROVE  LET d == removeClients(r, S) IN
         /\ Paired(r) => Paired(d)
         /\ S \subseteq r.members /\ Exact(r) => Exact(d)
<1> DEFINE d == removeClients(r, S)
<1>1. /\ d \in RoomType /\ d.members = r.members \ S
      /\ d.views = Less(r.views, ByKey(S)) /\ d.users = Less(r.users, ByName(S))
  BY RemoveFields
<1> HIDE DEF d
<1>2. ByKey(S) \in [Keys -> Nat] /\ ByName(S) \in [Names -> Nat]
  BY CountType
<1>3. /\ r.members \in SUBSET Clients
      /\ r.views \in [Keys -> Nat] /\ r.users \in [Names -> Nat]
      /\ d.views \in [Keys -> Nat] /\ d.users \in [Names -> Nat]
  BY <1>1 DEF RoomType
<1>4. ASSUME Paired(r), NEW n \in Names
      PROVE  d.views[<<"u", n>>] = d.users[n]
  <2>1. <<"u", n>> \in Keys /\ ByKey(S)[<<"u", n>>] = ByName(S)[n]
    BY UserKey
  <2>2. r.views[<<"u", n>>] = r.users[n]
    BY <1>4 DEF Paired
  <2>3. d.views[<<"u", n>>] = IF r.views[<<"u", n>>] > ByKey(S)[<<"u", n>>]
                              THEN r.views[<<"u", n>>] - ByKey(S)[<<"u", n>>]
                              ELSE 0
    BY <1>1, <1>2, <1>3, <2>1, LessType
  <2>4. d.users[n] = IF r.users[n] > ByName(S)[n]
                     THEN r.users[n] - ByName(S)[n] ELSE 0
    BY <1>1, <1>2, <1>3, LessType
  <2> QED
    BY <2>1, <2>2, <2>3, <2>4
<1>5. S \subseteq r.members /\ Exact(r) => Exact(d)
  BY <1>1, <1>3, LessExact DEF Exact
<1> QED
  BY <1>4, <1>5 DEF d, Paired

\* Removing members evicts them.
LEMMA RemoveMembers ==
  ASSUME NEW r, RoomOK(r), NEW S \in SUBSET r.members
  PROVE  Evicted(r, removeClients(r, S))
<1> DEFINE d == removeClients(r, S)
<1>1. r \in RoomType /\ r.members \in SUBSET Clients /\ S \in SUBSET Clients
  BY DEF RoomOK, RoomType
<1>2. /\ d \in RoomType /\ d.members = r.members \ S
      /\ d.closed = r.closed \cup S /\ d.shut = r.shut \cup S /\ d.out = r.out
  BY <1>1, RemoveFields
<1>3. /\ Paired(r) => Paired(d)
      /\ Exact(r) => Exact(d)
  BY <1>1, RemoveCounts
<1> HIDE DEF d
<1>4. RoomOK(d)
  BY <1>2 DEF RoomOK
<1>5. r.members \ d.members = S
  BY <1>2
<1>6. Evicted(r, d)
  BY <1>2, <1>3, <1>4, <1>5 DEF Evicted
<1> QED
  BY <1>6 DEF d

\* A broadcast evicts the members whose queue is full, and no queue grows
\* beyond its bound.
LEMMA DispatchEvicts ==
  ASSUME NEW r, RoomOK(r), NEW m \in Nat
  PROVE  Evicted(r, dispatch(r, m))
<1> DEFINE slow == {c \in r.members : Full(r, c)}
           out == [c \in Clients |-> IF c \in r.members \ slow
                                     THEN Append(r.out[c], m) ELSE r.out[c]]
           s == [r EXCEPT !.out = out]
<1>1. /\ r \in RoomType /\ r.members \in SUBSET Clients
      /\ r.out \in [Clients -> Seq(Nat)] /\ SendBuffer \in Nat
  BY ConstantsAssumption DEF RoomOK, RoomType
<1>2. dispatch(r, m) = removeClients(s, slow)
  BY DEF dispatch
<1>3. ASSUME NEW c \in Clients
      PROVE  out[c] \in Seq(Nat) /\ Len(out[c]) <= SendBuffer
  <2>1. r.out[c] \in Seq(Nat) /\ Len(r.out[c]) \in Nat
    BY <1>1
  <2>2. Append(r.out[c], m) \in Seq(Nat)
        /\ Len(Append(r.out[c], m)) = Len(r.out[c]) + 1
    BY <2>1
  <2>3. Len(r.out[c]) <= SendBuffer
    BY DEF RoomOK
  <2>4. c \in r.members \ slow => Len(r.out[c]) + 1 <= SendBuffer
    BY <1>1, <2>1 DEF Full
  <2> QED
    BY <2>1, <2>2, <2>3, <2>4
<1>4. out \in [Clients -> Seq(Nat)]
  BY <1>3
<1>5. \A c \in Clients : Len(out[c]) <= SendBuffer
  BY <1>3
<1>6. slow \in SUBSET r.members
  OBVIOUS
<1> HIDE DEF out, slow
<1>7. /\ s \in RoomType /\ s.out = out /\ s.members = r.members
      /\ s.closed = r.closed /\ s.shut = r.shut
      /\ s.views = r.views /\ s.users = r.users
  BY <1>1, <1>4 DEF RoomType
<1> HIDE DEF s
<1>8. RoomOK(s)
  BY <1>5, <1>7 DEF RoomOK
<1>9. Evicted(s, removeClients(s, slow))
  BY <1>6, <1>7, <1>8, RemoveMembers
<1> QED
  BY <1>2, <1>7, <1>9 DEF Evicted, Paired, Exact

\* Nothing at all is evicted.
LEMMA NoneEvicted ==
  ASSUME NEW r, RoomOK(r)
  PROVE  Evicted(r, r)
BY DEF Evicted

\* The client enters the maps.
LEMMA EnterFields ==
  ASSUME NEW r, RoomOK(r), NEW c \in Clients
  PROVE  LET e == Enter(r, c) IN
         /\ RoomOK(e)
         /\ e.members = r.members \cup {c}
         /\ e.closed = r.closed /\ e.shut = r.shut /\ e.out = r.out
         /\ \A k \in Keys : e.views[k] = IF k = viewerKey(c) THEN r.views[k] + 1
                                         ELSE r.views[k]
         /\ \A n \in Names : e.users[n] = IF n = User[c] THEN r.users[n] + 1
                                          ELSE r.users[n]
<1> DEFINE views == [k \in Keys |-> IF k = viewerKey(c) THEN r.views[k] + 1
                                    ELSE r.views[k]]
           users == [n \in Names |-> IF n = User[c] THEN r.users[n] + 1
                                     ELSE r.users[n]]
           e == [r EXCEPT !.members = @ \cup {c}, !.views = views, !.users = users]
<1>1. /\ r \in RoomType /\ r.views \in [Keys -> Nat] /\ r.users \in [Names -> Nat]
      /\ \A d \in Clients : Len(r.out[d]) <= SendBuffer
  BY DEF RoomOK, RoomType
<1>2. views \in [Keys -> Nat] /\ users \in [Names -> Nat]
  BY <1>1
<1>3. Enter(r, c) = e
  BY DEF Enter
<1>4. /\ \A k \in Keys : views[k] = IF k = viewerKey(c) THEN r.views[k] + 1
                                    ELSE r.views[k]
      /\ \A n \in Names : users[n] = IF n = User[c] THEN r.users[n] + 1
                                     ELSE r.users[n]
  OBVIOUS
<1> HIDE DEF views, users
<1>5. /\ e \in RoomType /\ e.members = r.members \cup {c}
      /\ e.closed = r.closed /\ e.shut = r.shut /\ e.out = r.out
      /\ e.views = views /\ e.users = users
  BY <1>1, <1>2 DEF RoomType
<1>6. RoomOK(e)
  BY <1>1, <1>5 DEF RoomOK
<1> QED
  BY <1>3, <1>4, <1>5, <1>6

LEMMA EnterCounts ==
  ASSUME NEW r, RoomOK(r), NEW c \in Clients
  PROVE  LET e == Enter(r, c) IN
         /\ Paired(r) => Paired(e)
         /\ Exact(r) /\ c \notin r.members => Exact(e)
<1> DEFINE e == Enter(r, c)
<1>1. /\ RoomOK(e) /\ e.members = r.members \cup {c}
      /\ \A k \in Keys : e.views[k] = IF k = viewerKey(c) THEN r.views[k] + 1
                                      ELSE r.views[k]
      /\ \A n \in Names : e.users[n] = IF n = User[c] THEN r.users[n] + 1
                                       ELSE r.users[n]
  BY EnterFields
<1> HIDE DEF e
<1>2. /\ r.views \in [Keys -> Nat] /\ r.users \in [Names -> Nat]
      /\ e.views \in [Keys -> Nat] /\ e.users \in [Names -> Nat]
      /\ r.members \in SUBSET Clients
  BY <1>1 DEF RoomOK, RoomType
<1>3. ASSUME Paired(r), NEW n \in Names
      PROVE  e.views[<<"u", n>>] = e.users[n]
  <2>1. <<"u", n>> \in Keys /\ (viewerKey(c) = <<"u", n>> <=> User[c] = n)
    BY UserKey
  <2>2. r.views[<<"u", n>>] = r.users[n]
    BY <1>3 DEF Paired
  <2> QED
    BY <1>1, <2>1, <2>2
<1>4. ASSUME Exact(r), c \notin r.members
      PROVE  Exact(e)
  <2>1. ASSUME NEW T \in SUBSET r.members
        PROVE  Cardinality(T \cup {c}) = Cardinality(T) + 1
    <3>1. IsFiniteSet(T) /\ c \notin T
      BY <1>2, <1>4, FS_Subset, ConstantsAssumption
    <3> QED
      BY <3>1, FS_AddElement
  <2>2. ASSUME NEW k \in Keys
        PROVE  e.views[k] = ByKey(e.members)[k]
    <3> DEFINE T == {d \in r.members : viewerKey(d) = k}
    <3>1. r.views[k] = Cardinality(T)
      BY <1>4 DEF Exact, ByKey
    <3>2. {d \in e.members : viewerKey(d) = k}
            = IF k = viewerKey(c) THEN T \cup {c} ELSE T
      BY <1>1
    <3>3. ByKey(e.members)[k]
            = IF k = viewerKey(c) THEN Cardinality(T \cup {c}) ELSE Cardinality(T)
      BY <3>2 DEF ByKey
    <3>4. Cardinality(T \cup {c}) = Cardinality(T) + 1
      BY <2>1
    <3> HIDE DEF T
    <3> QED
      BY <1>1, <3>1, <3>3, <3>4
  <2>3. ASSUME NEW n \in Names
        PROVE  e.users[n] = ByName(e.members)[n]
    <3> DEFINE T == {d \in r.members : User[d] = n}
    <3>1. r.users[n] = Cardinality(T)
      BY <1>4 DEF Exact, ByName
    <3>2. {d \in e.members : User[d] = n}
            = IF n = User[c] THEN T \cup {c} ELSE T
      BY <1>1
    <3>3. ByName(e.members)[n]
            = IF n = User[c] THEN Cardinality(T \cup {c}) ELSE Cardinality(T)
      BY <3>2 DEF ByName
    <3>4. Cardinality(T \cup {c}) = Cardinality(T) + 1
      BY <2>1
    <3> HIDE DEF T
    <3> QED
      BY <1>1, <3>1, <3>3, <3>4
  <2>4. ByKey(e.members) \in [Keys -> Nat] /\ ByName(e.members) \in [Names -> Nat]
    BY <1>1, <1>2, CountType
  <2>5. e.views = ByKey(e.members)
    BY <1>2, <2>2, <2>4
  <2>6. e.users = ByName(e.members)
    BY <1>2, <2>3, <2>4
  <2> QED
    BY <2>5, <2>6 DEF Exact
<1> QED
  BY <1>3, <1>4 DEF e, Paired

-----------------------------------------------------------------------------
(* The goroutines of the connections. *)

LEMMA RoomInit == Init => RoomInv
<1> SUFFICES ASSUME Init
             PROVE  RoomInv
  OBVIOUS
<1>1. /\ room.members = {} /\ room.closed = {} /\ room.shut = {}
      /\ room.out = [c \in Clients |-> <<>>]
      /\ room.views = [k \in Keys |-> 0] /\ room.users = [n \in Names |-> 0]
  BY DEF Init
<1>2. room \in RoomType /\ \A c \in Clients : Len(room.out[c]) <= SendBuffer
  <2>1. <<>> \in Seq(Nat) /\ Len(<<>>) = 0 /\ SendBuffer \in Nat
    BY ConstantsAssumption
  <2> QED
    BY <1>1, <2>1 DEF Init, RoomType
<1>3. TypeOK
  <2>1. /\ Len(joinQ) = 0 /\ Len(leaveQ) = 0 /\ Len(history) = 0
        /\ joinQ \in Seq(Clients) /\ leaveQ \in Seq(Clients)
        /\ history \in Seq(Nat) /\ got \in [Clients -> Seq(Nat)]
        /\ pos \in Nat \ {0} /\ lastId \in Nat /\ viewerCount \in Nat
    BY DEF Init
  <2>2. /\ JoinCap \in Nat /\ LeaveCap \in Nat /\ SendCap \in Nat
        /\ HistorySize \in Nat
    BY ConstantsAssumption
  <2>3. sendQ \in 0..SendCap
    BY <2>2 DEF Init
  <2>4. /\ Len(joinQ) <= JoinCap /\ Len(leaveQ) <= LeaveCap
        /\ Len(history) <= HistorySize
    BY <2>1, <2>2
  <2>5. /\ serve \in [Clients -> {"new", "joining", "write", "bye", "close", "gone"}]
        /\ reader \in [Clients -> {"none", "read", "send", "gone"}]
        /\ stop \in BOOLEAN /\ changed \in BOOLEAN
        /\ pc \in {"select", "backlog", "joined", "left", "stopped"} \cup Panics
        /\ cur \in Clients \cup {NoClient}
    BY DEF Init
  <2> QED
    BY <1>2, <2>1, <2>3, <2>4, <2>5 DEF TypeOK
<1>4. Started /\ JoinsOnce
  <2>1. Len(joinQ) = 0 /\ Len(leaveQ) = 0 /\ reader = [c \in Clients |-> "none"]
    BY DEF Init
  <2> QED
    BY <1>1, <2>1 DEF Init, Started, JoinsOnce, Queued, InHand
<1>5. Open
  <2>1. pc = "select"
    BY DEF Init
  <2>2. OnlyOvertakenPanics
    BY <2>1 DEF OnlyOvertakenPanics
  <2> QED
    BY <1>1, <2>1, <2>2 DEF Open, Overflowed
<1>6. Paired(room)
  <2>1. \A n \in Names : <<"u", n>> \in Keys
    BY UserKey
  <2> QED
    BY <1>1, <2>1 DEF Paired
<1>7. CountsExact
  <2>1. ASSUME NEW k \in Keys
        PROVE  ByKey({})[k] = 0
    <3>1. {c \in {} : viewerKey(c) = k} = {}
      OBVIOUS
    <3> QED
      BY <3>1, FS_EmptySet DEF ByKey
  <2>2. ASSUME NEW n \in Names
        PROVE  ByName({})[n] = 0
    <3>1. {c \in {} : User[c] = n} = {}
      OBVIOUS
    <3> QED
      BY <3>1, FS_EmptySet DEF ByName
  <2>3. ByKey({}) \in [Keys -> Nat] /\ ByName({}) \in [Names -> Nat]
    BY CountType
  <2>4. ByKey({}) = room.views
    BY <1>1, <2>1, <2>3
  <2>5. ByName({}) = room.users
    BY <1>1, <2>2, <2>3
  <2> QED
    BY <1>1, <2>4, <2>5 DEF CountsExact
<1> QED
  BY <1>3, <1>4, <1>5, <1>6, <1>7 DEF RoomInv

\* A step of a connection that leaves the actor and its maps alone.
LEMMA ConnFrame ==
  ASSUME RoomInv, TypeOK', Started',
         UNCHANGED <<joinQ, pc, cur, changed, viewerCount>>,
         room'.members = room.members, room'.closed = room.closed,
         room'.shut = room.shut, room'.views = room.views,
         room'.users = room.users,
         \A c \in Clients : reader'[c] = "none" <=> reader[c] = "none"
  PROVE  RoomInv'
<1>1. JoinsOnce'
  <2>1. room.members \cup room.shut \subseteq Clients
    BY DEF RoomInv, TypeOK, RoomType
  <2> QED
    BY <2>1 DEF RoomInv, JoinsOnce, Queued, InHand, Overflowed
<1>2. Open'
  BY DEF RoomInv, Open, Overflowed, OnlyOvertakenPanics
<1>3. Paired(room')
  BY DEF RoomInv, Paired
<1>4. CountsExact'
  BY DEF RoomInv, CountsExact, Doomed, Overtaken, Alive
<1> QED
  BY <1>1, <1>2, <1>3, <1>4 DEF RoomInv, Paired

\* Appending to a channel.
LEMMA AppendQ ==
  ASSUME NEW q \in Seq(Clients), NEW c \in Clients
  PROVE  /\ Append(q, c) \in Seq(Clients) /\ Len(Append(q, c)) = Len(q) + 1
         /\ Len(q) \in Nat
         /\ \A i \in 1..Len(q) : Append(q, c)[i] = q[i]
         /\ Append(q, c)[Len(q) + 1] = c
OBVIOUS

LEMMA QuietStep ==
  ASSUME RoomInv, NEW c \in Clients,
         \/ Connect(c) \/ JoinCancelled(c) \/ WriterDrained(c) \/ CloseConn(c)
         \/ ReadMessage(c) \/ SendInbound(c) \/ SendCancelled(c)
  PROVE  RoomInv'
<1>1. /\ UNCHANGED <<joinQ, leaveQ, actor, room, log, viewerCount, stop, got>>
      /\ sendQ' = sendQ \/ (sendQ < SendCap /\ sendQ' = sendQ + 1)
  BY DEF Connect, JoinCancelled, WriterDrained, CloseConn, ReadMessage,
         SendInbound, SendCancelled, queue
<1>2. \/ /\ reader' = reader
         /\ \/ serve[c] = "new" /\ serve' = [serve EXCEPT ![c] = "joining"]
            \/ serve[c] = "joining" /\ serve' = [serve EXCEPT ![c] = "gone"]
            \/ serve[c] = "write" /\ serve' = [serve EXCEPT ![c] = "bye"]
            \/ serve[c] = "close" /\ serve' = [serve EXCEPT ![c] = "gone"]
      \/ /\ serve' = serve /\ reader[c] \in {"read", "send"}
         /\ \/ reader' = [reader EXCEPT ![c] = "send"]
            \/ reader' = [reader EXCEPT ![c] = "read"]
            \/ reader' = [reader EXCEPT ![c] = "gone"]
  BY DEF Connect, JoinCancelled, WriterDrained, CloseConn, ReadMessage,
         SendInbound, SendCancelled
<1>3. /\ serve \in [Clients -> {"new", "joining", "write", "bye", "close", "gone"}]
      /\ reader \in [Clients -> {"none", "read", "send", "gone"}]
      /\ sendQ \in 0..SendCap /\ SendCap \in Nat
  BY ConstantsAssumption DEF RoomInv, TypeOK
<1>4. /\ serve' \in [Clients -> {"new", "joining", "write", "bye", "close", "gone"}]
      /\ reader' \in [Clients -> {"none", "read", "send", "gone"}]
  BY <1>2, <1>3
<1>5. sendQ' \in 0..SendCap
  BY <1>1, <1>3
<1>6. TypeOK'
  BY <1>1, <1>4, <1>5 DEF RoomInv, TypeOK, actor, log
<1>7. \A d \in Clients : reader'[d] = "none" <=> reader[d] = "none"
  BY <1>2, <1>3
<1>8. Started'
  <2>1. \A i \in 1..Len(leaveQ) : leaveQ[i] \in Clients
    BY ElementOfSeq DEF RoomInv, TypeOK
  <2>2. \A d \in Clients : serve'[d] \in {"new", "joining"} =>
          serve[d] \in {"new", "joining"}
    BY <1>2, <1>3
  <2>3. \A d \in Clients : serve'[d] \in {"write", "bye", "close"} =>
          serve[d] \in {"write", "bye", "close"}
    BY <1>2, <1>3
  <2> QED
    BY <1>1, <1>7, <2>1, <2>2, <2>3 DEF RoomInv, Started
<1> QED
  BY <1>1, <1>6, <1>7, <1>8, ConnFrame DEF actor

LEMMA LeaveStep ==
  ASSUME RoomInv, NEW c \in Clients, WriterLeaves(c) \/ ReadFails(c)
  PROVE  RoomInv'
<1>1. /\ UNCHANGED <<joinQ, sendQ, actor, room, log, viewerCount, stop, got>>
      /\ TryLeave(c)
  BY DEF WriterLeaves, ReadFails
<1>2. \/ /\ serve[c] = "bye" /\ reader' = reader
         /\ serve' = [serve EXCEPT ![c] = "close"]
      \/ /\ reader[c] = "read" /\ serve' = serve
         /\ reader' = [reader EXCEPT ![c] = "gone"]
  BY DEF WriterLeaves, ReadFails
<1>3. /\ serve \in [Clients -> {"new", "joining", "write", "bye", "close", "gone"}]
      /\ reader \in [Clients -> {"none", "read", "send", "gone"}]
      /\ leaveQ \in Seq(Clients) /\ Len(leaveQ) <= LeaveCap /\ LeaveCap \in Nat
  BY ConstantsAssumption DEF RoomInv, TypeOK
<1>4. /\ serve' \in [Clients -> {"new", "joining", "write", "bye", "close", "gone"}]
      /\ reader' \in [Clients -> {"none", "read", "send", "gone"}]
  BY <1>2, <1>3
<1>5. /\ leaveQ' \in Seq(Clients) /\ Len(leaveQ') <= LeaveCap
      /\ \A i \in 1..Len(leaveQ') :
           (i \in 1..Len(leaveQ) /\ leaveQ'[i] = leaveQ[i]) \/ leaveQ'[i] = c
  <2>1. CASE Len(leaveQ) < LeaveCap
    <3>1. leaveQ' = Append(leaveQ, c)
      BY <1>1, <2>1 DEF TryLeave
    <3> QED
      BY <1>3, <2>1, <3>1, AppendQ
  <2>2. CASE ~(Len(leaveQ) < LeaveCap)
    BY <1>1, <1>3, <2>2 DEF TryLeave
  <2> QED
    BY <2>1, <2>2
<1>6. TypeOK'
  BY <1>1, <1>4, <1>5 DEF RoomInv, TypeOK, actor, log
<1>7. reader[c] # "none"
  BY <1>2 DEF RoomInv, Started
<1>8. \A d \in Clients : reader'[d] = "none" <=> reader[d] = "none"
  BY <1>2, <1>3
<1>9. Started'
  <2>1. \A i \in 1..Len(leaveQ) : leaveQ[i] \in Clients
    BY <1>3, ElementOfSeq
  <2>2. \A d \in Clients : serve'[d] \in {"new", "joining"} =>
          serve[d] \in {"new", "joining"}
    BY <1>2, <1>3
  <2>3. \A d \in Clients : serve'[d] \in {"write", "bye", "close"} =>
          serve[d] \in {"write", "bye", "close"}
    BY <1>2, <1>3
  <2>4. \A i \in 1..Len(leaveQ') : reader'[leaveQ'[i]] # "none"
    BY <1>5, <1>7, <1>8, <2>1 DEF RoomInv, Started
  <2> QED
    BY <1>8, <2>2, <2>3, <2>4 DEF RoomInv, Started
<1> QED
  BY <1>1, <1>6, <1>8, <1>9, ConnFrame DEF actor

\* Replacing the queue of one client by one that is not longer than the bound.
LEMMA QueueUpdate ==
  ASSUME NEW r, RoomOK(r), NEW c \in Clients, NEW s \in Seq(Nat),
         Len(s) <= SendBuffer
  PROVE  LET d == [r EXCEPT !.out[c] = s] IN
         /\ RoomOK(d)
         /\ d.members = r.members /\ d.closed = r.closed /\ d.shut = r.shut
         /\ d.views = r.views /\ d.users = r.users
         /\ d.out = [r.out EXCEPT ![c] = s]
<1> DEFINE out == [r.out EXCEPT ![c] = s]
           d == [r EXCEPT !.out[c] = s]
<1>1. r \in RoomType /\ r.out \in [Clients -> Seq(Nat)]
  BY DEF RoomOK, RoomType
<1>2. out \in [Clients -> Seq(Nat)]
  BY <1>1
<1>3. \A b \in Clients : Len(out[b]) <= SendBuffer
  BY <1>1 DEF RoomOK
<1>4. d = [r EXCEPT !.out = out]
  OBVIOUS
<1> HIDE DEF out
<1>5. /\ d \in RoomType
      /\ d.members = r.members /\ d.closed = r.closed /\ d.shut = r.shut
      /\ d.views = r.views /\ d.users = r.users /\ d.out = out
  BY <1>1, <1>2, <1>4 DEF RoomType
<1> HIDE DEF d
<1>6. RoomOK(d)
  BY <1>3, <1>5 DEF RoomOK
<1> QED
  BY <1>5, <1>6 DEF d, out

LEMMA WriteStep ==
  ASSUME RoomInv, NEW c \in Clients, NEW ok \in BOOLEAN, WriteOne(c, ok)
  PROVE  RoomInv'
<1>1. /\ UNCHANGED <<joinQ, leaveQ, sendQ, stop, actor, log, viewerCount, reader>>
      /\ serve[c] = "write" /\ room.out[c] # <<>>
      /\ room' = [room EXCEPT !.out[c] = Tail(room.out[c])]
      /\ \/ serve' = [serve EXCEPT ![c] = "write"]
         \/ serve' = [serve EXCEPT ![c] = "bye"]
      /\ \/ got' = [got EXCEPT ![c] = Append(got[c], Head(room.out[c]))]
         \/ got' = got
  BY DEF WriteOne, queue
<1>2. /\ RoomOK(room) /\ room.out[c] \in Seq(Nat)
      /\ Len(room.out[c]) <= SendBuffer /\ SendBuffer \in Nat
      /\ got \in [Clients -> Seq(Nat)] /\ got[c] \in Seq(Nat)
      /\ serve \in [Clients -> {"new", "joining", "write", "bye", "close", "gone"}]
  BY ConstantsAssumption DEF RoomInv, TypeOK, RoomOK, RoomType
<1>3. /\ Tail(room.out[c]) \in Seq(Nat) /\ Head(room.out[c]) \in Nat
      /\ Len(Tail(room.out[c])) = Len(room.out[c]) - 1
      /\ Len(room.out[c]) \in Nat
  BY <1>1, <1>2, HeadTailProperties, LenProperties
<1>4. Len(Tail(room.out[c])) <= SendBuffer
  BY <1>2, <1>3
<1>5. /\ RoomOK(room') /\ room'.members = room.members
      /\ room'.closed = room.closed /\ room'.shut = room.shut
      /\ room'.views = room.views /\ room'.users = room.users
  <2> DEFINE t == Tail(room.out[c])
  <2>1. /\ t \in Seq(Nat) /\ Len(t) <= SendBuffer
        /\ room' = [room EXCEPT !.out[c] = t]
    BY <1>1, <1>3, <1>4
  <2> HIDE DEF t
  <2> QED
    BY <1>2, <2>1, QueueUpdate
<1>6. got' \in [Clients -> Seq(Nat)]
  <2> DEFINE g == Append(got[c], Head(room.out[c]))
  <2>1. g \in Seq(Nat)
    BY <1>2, <1>3
  <2>2. got' = [got EXCEPT ![c] = g] \/ got' = got
    BY <1>1
  <2> HIDE DEF g
  <2> QED
    BY <1>2, <2>1, <2>2
<1>7. serve' \in [Clients -> {"new", "joining", "write", "bye", "close", "gone"}]
  BY <1>1, <1>2
<1>8. TypeOK'
  BY <1>1, <1>5, <1>6, <1>7 DEF RoomInv, TypeOK, RoomOK, actor, log
<1>9. Started'
  <2>1. \A d \in Clients : serve'[d] \in {"new", "joining"} =>
          serve[d] \in {"new", "joining"}
    BY <1>1, <1>2
  <2>2. \A d \in Clients : serve'[d] \in {"write", "bye", "close"} =>
          serve[d] \in {"write", "bye", "close"}
    BY <1>1, <1>2
  <2> QED
    BY <1>1, <2>1, <2>2 DEF RoomInv, Started
<1> QED
  BY <1>1, <1>5, <1>8, <1>9, ConnFrame DEF actor

LEMMA JoinSentStep ==
  ASSUME RoomInv, NEW c \in Clients, JoinSent(c)
  PROVE  RoomInv'
<1>1. /\ UNCHANGED <<leaveQ, sendQ, stop, actor, room, log, viewerCount, got>>
      /\ UNCHANGED <<pc, cur, changed>>
      /\ serve[c] = "joining" /\ Len(joinQ) < JoinCap
      /\ joinQ' = Append(joinQ, c)
      /\ serve' = [serve EXCEPT ![c] = "write"]
      /\ reader' = [reader EXCEPT ![c] = "read"]
  BY DEF JoinSent, actor
<1>2. /\ serve \in [Clients -> {"new", "joining", "write", "bye", "close", "gone"}]
      /\ reader \in [Clients -> {"none", "read", "send", "gone"}]
      /\ joinQ \in Seq(Clients) /\ JoinCap \in Nat
  BY ConstantsAssumption DEF RoomInv, TypeOK
<1>3. /\ joinQ' \in Seq(Clients) /\ Len(joinQ') = Len(joinQ) + 1
      /\ Len(joinQ) \in Nat /\ joinQ'[Len(joinQ) + 1] = c
      /\ \A i \in 1..Len(joinQ) : joinQ'[i] = joinQ[i]
  BY <1>1, <1>2, AppendQ
<1>4. Len(joinQ') <= JoinCap
  BY <1>1, <1>2, <1>3
<1>5. /\ serve' \in [Clients -> {"new", "joining", "write", "bye", "close", "gone"}]
      /\ reader' \in [Clients -> {"none", "read", "send", "gone"}]
  BY <1>1, <1>2
<1>6. TypeOK'
  BY <1>1, <1>3, <1>4, <1>5 DEF RoomInv, TypeOK, actor, log
<1>7. reader[c] = "none"
  BY <1>1 DEF RoomInv, Started
<1>8. /\ ~Queued(c) /\ ~InHand(c) /\ c \notin room.members /\ c \notin room.shut
      /\ c \notin room.closed
  BY <1>7 DEF RoomInv, JoinsOnce, Open
<1>9. \A d : Queued(d)' <=> Queued(d) \/ d = c
  BY <1>3 DEF Queued
<1>10. \A i, j \in 1..Len(joinQ') : joinQ'[i] = joinQ'[j] => i = j
  <2>1. \A i \in 1..Len(joinQ) : joinQ[i] # c
    BY <1>8 DEF Queued
  <2>2. \A i, j \in 1..Len(joinQ) : joinQ[i] = joinQ[j] => i = j
    BY DEF RoomInv, JoinsOnce
  <2> QED
    BY <1>3, <2>1, <2>2
<1>11. /\ \A d \in Clients : reader[d] # "none" => reader'[d] # "none"
       /\ \A d \in Clients : reader'[d] # "none" => reader[d] # "none" \/ d = c
       /\ reader'[c] # "none"
  BY <1>1, <1>2
<1>12. JoinsOnce'
  <2>1. pc' = "backlog" => cur' \in Clients /\ ~Queued(cur)'
    <3>1. pc = "backlog" => cur \in Clients /\ ~Queued(cur) /\ cur # c
      BY <1>8 DEF RoomInv, JoinsOnce, InHand
    <3>2. Queued(cur)' <=> Queued(cur) \/ cur = c
      BY <1>1, <1>3 DEF Queued
    <3> QED
      BY <1>1, <3>1, <3>2
  <2>2. ASSUME NEW d \in Clients, Queued(d)' \/ InHand(d)'
        PROVE  reader'[d] # "none" /\ d \notin room'.members /\ d \notin Overflowed'
    <3>1. CASE d = c
      BY <1>1, <1>8, <1>11, <3>1 DEF Overflowed
    <3>2. CASE d # c
      <4>1. Queued(d) \/ InHand(d)
        BY <1>1, <1>9, <2>2, <3>2 DEF InHand
      <4> QED
        BY <1>1, <1>11, <4>1 DEF RoomInv, JoinsOnce, Overflowed
    <3> QED
      BY <3>1, <3>2
  <2>3. \A d \in room'.members \cup room'.shut : reader'[d] # "none"
    <3>1. room.members \cup room.shut \subseteq Clients
      BY DEF RoomInv, TypeOK, RoomType
    <3> QED
      BY <1>1, <1>11, <3>1 DEF RoomInv, JoinsOnce
  <2>4. ASSUME NEW d \in Clients, reader'[d] # "none"
        PROVE  Queued(d)' \/ InHand(d)' \/ d \in room'.members \/ d \in room'.shut
    BY <1>1, <1>9, <1>11, <2>4 DEF RoomInv, JoinsOnce, InHand
  <2> QED
    BY <1>10, <2>1, <2>2, <2>3, <2>4 DEF JoinsOnce
<1>13. Started'
  <2>1. \A i \in 1..Len(leaveQ) : leaveQ[i] \in Clients
    BY ElementOfSeq DEF RoomInv, TypeOK
  <2>2. \A d \in Clients : serve'[d] \in {"new", "joining"} =>
          d # c /\ serve[d] \in {"new", "joining"} /\ reader'[d] = reader[d]
    BY <1>1, <1>2
  <2>3. \A d \in Clients : serve'[d] \in {"write", "bye", "close"} =>
          d = c \/ serve[d] \in {"write", "bye", "close"}
    BY <1>1, <1>2
  <2> QED
    BY <1>1, <1>11, <2>1, <2>2, <2>3 DEF RoomInv, Started
<1>14. Open' /\ Paired(room')
  BY <1>1 DEF RoomInv, Open, Overflowed, OnlyOvertakenPanics, Paired
<1>15. CountsExact'
  <2>1. Overtaken => Overtaken'
    BY <1>1, <1>3 DEF Overtaken
  <2> QED
    BY <1>1, <2>1 DEF RoomInv, CountsExact, Doomed, Alive
<1> QED
  BY <1>6, <1>12, <1>13, <1>14, <1>15 DEF RoomInv, Paired

-----------------------------------------------------------------------------
(* The actor. *)

\* Wherever the clients in X come from, they end up in the maps or closed.
LEMMA PlacesKept ==
  ASSUME RoomInv, UNCHANGED <<reader, joinQ>>, pc' # "backlog",
         NEW X \in SUBSET Clients, \A c \in X : reader[c] # "none",
         \A c \in Clients : InHand(c) => c \in X,
         \A c \in room'.members : c \in room.members \/ (c \in X /\ ~Queued(c)),
         room'.members \cup room'.shut = room.members \cup room.shut \cup X,
         \A c \in Overflowed' : c \in Overflowed \/ ~Queued(c)
  PROVE  JoinsOnce'
<1>1. \A c \in Clients : (Queued(c)' <=> Queued(c)) /\ ~InHand(c)'
  BY DEF Queued, InHand
<1>2. \A i, j \in 1..Len(joinQ') : joinQ'[i] = joinQ'[j] => i = j
  BY DEF RoomInv, JoinsOnce
<1>3. ASSUME NEW c \in Clients, Queued(c)' \/ InHand(c)'
      PROVE  reader'[c] # "none" /\ c \notin room'.members /\ c \notin Overflowed'
  BY <1>1, <1>3 DEF RoomInv, JoinsOnce
<1>4. \A c \in room'.members \cup room'.shut : reader'[c] # "none"
  BY DEF RoomInv, JoinsOnce
<1>5. ASSUME NEW c \in Clients, reader'[c] # "none"
      PROVE  Queued(c)' \/ InHand(c)' \/ c \in room'.members \/ c \in room'.shut
  BY <1>1, <1>5 DEF RoomInv, JoinsOnce
<1> QED
  BY <1>2, <1>3, <1>4, <1>5 DEF JoinsOnce

\* dispatch panics, or evicts.
LEMMA DispatchCases ==
  ASSUME NEW r, RoomOK(r), NEW m \in Nat, NEW next, DispatchThen(r, m, next)
  PROVE  \/ r.members \cap r.shut = {} /\ pc' = next /\ Evicted(r, room')
         \/ r.members \cap r.shut # {} /\ pc' = "panic_send" /\ room' = r
BY DispatchEvicts DEF DispatchThen

\* A broadcast that ends a branch, or the process.
LEMMA BroadcastStep ==
  ASSUME RoomInv, TypeOK', UNCHANGED <<serve, reader, joinQ, leaveQ>>,
         pc \in {"select", "joined", "left"},
         \/ /\ room.members \cap room.shut = {}
            /\ pc' = "select" /\ Evicted(room, room')
         \/ /\ room.members \cap room.shut # {}
            /\ pc' = "panic_send" /\ room' = room
  PROVE  RoomInv'
<1>1. RoomOK(room) /\ RoomOK(room') /\ viewerCount' \in Nat
  BY DEF RoomInv, TypeOK, RoomOK
<1>2. Evicted(room, room')
  BY <1>1, NoneEvicted
<1>3. /\ room'.members \subseteq room.members
      /\ room'.closed = room.closed \cup (room.members \ room'.members)
      /\ room'.shut = room.shut \cup (room.members \ room'.members)
      /\ Paired(room')
      /\ Exact(room) => Exact(room')
  BY <1>2 DEF Evicted, RoomInv
<1>4. JoinsOnce'
  <2>1. \A c \in Clients : ~InHand(c)
    BY DEF InHand
  <2>2. room'.members \cup room'.shut = room.members \cup room.shut \cup {}
    BY <1>3
  <2>3. Overflowed' \subseteq Overflowed
    BY <1>3 DEF Overflowed
  <2> QED
    BY <1>3, <2>1, <2>2, <2>3, PlacesKept
<1>5. Open'
  <2>1. room.closed \subseteq room.shut /\ room.members \cap Overflowed = {}
    BY DEF RoomInv, Open
  <2>2. room'.closed \subseteq room'.shut /\ room'.members \cap Overflowed' = {}
    BY <1>3, <2>1 DEF Overflowed
  <2>3. pc' = "select" => room'.members \cap room'.shut = {}
    BY <1>3
  <2>4. pc' = "panic_send" => room'.members \cap room'.closed # {}
    BY <2>1 DEF Overflowed
  <2> QED
    BY <2>2, <2>3, <2>4 DEF Open, OnlyOvertakenPanics
<1>6. CountsExact'
  <2> SUFFICES ASSUME ~Doomed'
               PROVE  Exact(room')
    BY DEF CountsExact, Exact
  <2>1. pc' = "select" /\ room.members \cap room.shut = {}
    BY DEF Doomed, Alive, Panics
  <2>2. ~Overtaken
    BY <1>3 DEF Doomed, Overtaken
  <2>3. room.members \cap room.closed = {}
    BY <2>1 DEF RoomInv, Open
  <2>4. ~Doomed
    BY <2>2, <2>3 DEF Doomed, Alive, Panics
  <2> QED
    BY <1>3, <2>4 DEF RoomInv, CountsExact, Exact
<1>7. Started'
  BY DEF RoomInv, Started
<1> QED
  BY <1>3, <1>4, <1>5, <1>6, <1>7 DEF RoomInv, Paired

\* The facts every step of the actor starts from.
LEMMA RoomTyped ==
  ASSUME RoomInv
  PROVE  /\ RoomOK(room) /\ room \in RoomType /\ viewerCount \in Nat
         /\ room.members \subseteq Clients /\ room.closed \subseteq room.shut
         /\ room.shut \subseteq Clients
         /\ room.out \in [Clients -> Seq(Nat)]
         /\ room.views \in [Keys -> Nat] /\ room.users \in [Names -> Nat]
         /\ Viewers(room) \in Nat
<1>1. /\ RoomOK(room) /\ room \in RoomType /\ viewerCount \in Nat
      /\ room.closed \subseteq room.shut
  BY DEF RoomInv, TypeOK, RoomOK, Open
<1>2. /\ room.members \subseteq Clients /\ room.shut \subseteq Clients
      /\ room.out \in [Clients -> Seq(Nat)]
      /\ room.views \in [Keys -> Nat] /\ room.users \in [Names -> Nat]
  BY <1>1 DEF RoomType
<1>3. Viewers(room) \in Nat
  BY <1>2, ViewersType
<1> QED
  BY <1>1, <1>2, <1>3

\* A client's own queue, changed by the actor or by its writer, is all that
\* changes.
LEMMA SameMaps ==
  ASSUME NEW r, RoomOK(r), NEW d, RoomOK(d),
         d.members = r.members, d.closed = r.closed, d.shut = r.shut,
         d.views = r.views, d.users = r.users
  PROVE  Evicted(r, d)
BY DEF Evicted, Paired, Exact

LEMMA JoinCountStep ==
  ASSUME RoomInv, JoinCount
  PROVE  RoomInv'
<1>1. /\ pc = "joined" /\ EndBranch
      /\ UNCHANGED <<serve, reader, got, joinQ, leaveQ, sendQ, stop, history, lastId>>
  BY DEF JoinCount, conns, queue, log
<1>2. /\ cur \in Clients /\ room.members \cap room.shut \subseteq {cur}
      /\ ~changed => cur \in room.members
  BY <1>1 DEF RoomInv, Open
<1>3. /\ RoomOK(room) /\ viewerCount \in Nat /\ Viewers(room) \in Nat
  BY RoomTyped
<1>4. /\ viewerCount' \in Nat
      /\ \/ /\ room.members \cap room.shut = {}
            /\ pc' = "select" /\ Evicted(room, room')
         \/ /\ room.members \cap room.shut # {}
            /\ pc' = "panic_send" /\ room' = room
  <2>1. CASE changed
    <3>1. viewerCount' = Viewers(room) /\ DispatchThen(room, Notice, "select")
      BY <2>1 DEF JoinCount, Announce
    <3>2. Notice \in Nat
      BY DEF Notice
    <3> QED
      BY <1>3, <3>1, <3>2, DispatchCases
  <2>2. CASE ~changed
    <3>1. TellOne(cur) /\ viewerCount' = viewerCount
      BY <2>2 DEF JoinCount, TellOne
    <3>2. CASE cur \in room.shut
      BY <1>2, <1>3, <2>2, <3>1, <3>2 DEF TellOne
    <3>3. CASE cur \notin room.shut
      <4>1. /\ pc' = "select"
            /\ \/ room' = room
               \/ /\ ~Full(room, cur)
                  /\ room' = [room EXCEPT !.out[cur] = Append(room.out[cur], Notice)]
        BY <3>1, <3>3 DEF TellOne
      <4>2. room.members \cap room.shut = {}
        BY <1>2, <3>3
      <4>3. CASE room' = room
        BY <1>3, <3>1, <4>1, <4>2, <4>3, NoneEvicted
      <4>4. CASE room' # room
        <5> DEFINE t == Append(room.out[cur], Notice)
        <5>1. /\ room.out[cur] \in Seq(Nat) /\ SendBuffer \in Nat
              /\ Len(room.out[cur]) \in Nat
          BY <1>2, RoomTyped, ConstantsAssumption
        <5>2. t \in Seq(Nat) /\ Len(t) <= SendBuffer
          BY <4>1, <4>4, <5>1 DEF Full, Notice
        <5>3. room' = [room EXCEPT !.out[cur] = t]
          BY <4>1, <4>4
        <5> HIDE DEF t
        <5>4. /\ RoomOK(room') /\ room'.members = room.members
              /\ room'.closed = room.closed /\ room'.shut = room.shut
              /\ room'.views = room.views /\ room'.users = room.users
          BY <1>2, <1>3, <5>2, <5>3, QueueUpdate
        <5>5. Evicted(room, room')
          BY <1>3, <5>4, SameMaps
        <5> QED
          BY <1>3, <3>1, <4>1, <4>2, <5>5
      <4> QED
        BY <4>3, <4>4
    <3> QED
      BY <3>2, <3>3
  <2> QED
    BY <2>1, <2>2
<1>5. TypeOK'
  <2>1. RoomOK(room')
    BY <1>3, <1>4 DEF Evicted
  <2>2. cur' = NoClient /\ pos' = 1 /\ changed' = FALSE /\ 1 \in Nat \ {0}
    BY <1>1 DEF EndBranch
  <2>3. pc' \in {"select", "backlog", "joined", "left", "stopped"} \cup Panics
    BY <1>4 DEF Panics
  <2> QED
    BY <1>1, <1>4, <2>1, <2>2, <2>3 DEF RoomInv, TypeOK, RoomOK
<1> QED
  BY <1>1, <1>4, <1>5, BroadcastStep

LEMMA LeaveCountStep ==
  ASSUME RoomInv, LeaveCount
  PROVE  RoomInv'
<1>1. /\ pc = "left" /\ EndBranch
      /\ UNCHANGED <<serve, reader, got, joinQ, leaveQ, sendQ, stop, history, lastId>>
  BY DEF LeaveCount, conns, queue, log
<1>2. room.members \cap room.shut = {}
  BY <1>1 DEF RoomInv, Open
<1>3. /\ RoomOK(room) /\ viewerCount \in Nat /\ Viewers(room) \in Nat
  BY RoomTyped
<1>4. /\ viewerCount' \in Nat
      /\ pc' = "select" /\ Evicted(room, room')
  <2>1. CASE changed
    <3>1. viewerCount' = Viewers(room) /\ DispatchThen(room, Notice, "select")
      BY <2>1 DEF LeaveCount, Announce
    <3>2. Notice \in Nat
      BY DEF Notice
    <3> QED
      BY <1>2, <1>3, <3>1, <3>2, DispatchCases
  <2>2. CASE ~changed
    BY <1>2, <1>3, <2>2, NoneEvicted DEF LeaveCount
  <2> QED
    BY <2>1, <2>2
<1>5. TypeOK'
  <2>1. RoomOK(room')
    BY <1>4 DEF Evicted
  <2>2. cur' = NoClient /\ pos' = 1 /\ changed' = FALSE /\ 1 \in Nat \ {0}
    BY <1>1 DEF EndBranch
  <2> QED
    BY <1>1, <1>4, <2>1, <2>2 DEF RoomInv, TypeOK, RoomOK
<1> QED
  BY <1>1, <1>2, <1>4, <1>5, BroadcastStep

\* The history stays a bounded sequence of messages.
LEMMA HistoryBound ==
  ASSUME TypeOK, NEW m \in Nat
  PROVE  appendHistory(m) \in Seq(Nat) /\ Len(appendHistory(m)) <= HistorySize
<1>1. /\ history \in Seq(Nat) /\ Len(history) \in Nat /\ Len(history) <= HistorySize
      /\ HistorySize \in Nat \ {0}
  BY ConstantsAssumption DEF TypeOK
<1> DEFINE h == IF Len(history) = HistorySize THEN Tail(history) ELSE history
<1>2. h \in Seq(Nat) /\ Len(h) \in Nat /\ Len(h) + 1 <= HistorySize
  <2>1. CASE Len(history) = HistorySize
    <3>1. history # <<>>
      BY <1>1, <2>1
    <3>2. Tail(history) \in Seq(Nat) /\ Len(Tail(history)) = Len(history) - 1
      BY <1>1, <3>1, HeadTailProperties
    <3> QED
      BY <1>1, <2>1, <3>2
  <2>2. CASE Len(history) # HistorySize
    BY <1>1, <2>2
  <2> QED
    BY <2>1, <2>2
<1>3. appendHistory(m) = Append(h, m)
  BY DEF appendHistory
<1> HIDE DEF h
<1> QED
  BY <1>2, <1>3

LEMMA RecvSendStep ==
  ASSUME RoomInv, RecvSend
  PROVE  RoomInv'
<1>1. /\ pc = "select" /\ sendQ > 0 /\ sendQ' = sendQ - 1
      /\ lastId' = lastId + 1 /\ history' = appendHistory(lastId + 1)
      /\ DispatchThen(room, lastId + 1, "select")
      /\ UNCHANGED <<serve, reader, got, joinQ, leaveQ, stop, cur, pos, changed>>
      /\ UNCHANGED viewerCount
  BY DEF RecvSend, conns
<1>2. room.members \cap room.shut = {}
  BY <1>1 DEF RoomInv, Open
<1>3. RoomOK(room) /\ lastId + 1 \in Nat /\ TypeOK
  BY RoomTyped DEF RoomInv, TypeOK
<1>4. pc' = "select" /\ Evicted(room, room')
  BY <1>1, <1>2, <1>3, DispatchCases
<1>5. TypeOK'
  <2>1. RoomOK(room')
    BY <1>4 DEF Evicted
  <2>2. history' \in Seq(Nat) /\ Len(history') <= HistorySize
    BY <1>1, <1>3, HistoryBound
  <2>3. sendQ' \in 0..SendCap
    BY <1>1, <1>3, ConstantsAssumption DEF TypeOK
  <2> QED
    BY <1>1, <1>3, <1>4, <2>1, <2>2, <2>3 DEF TypeOK, RoomOK
<1> QED
  BY <1>1, <1>2, <1>4, <1>5, BroadcastStep

\* Taking the first element off a channel.
LEMMA TailQ ==
  ASSUME NEW q \in Seq(Clients), q # <<>>
  PROVE  /\ Head(q) \in Clients /\ Head(q) = q[1] /\ Tail(q) \in Seq(Clients)
         /\ Len(q) \in Nat /\ Len(q) >= 1 /\ Len(Tail(q)) = Len(q) - 1
         /\ \A i \in 1..Len(Tail(q)) : Tail(q)[i] = q[i+1]
<1>1. Len(q) \in Nat /\ Len(q) >= 1
  BY EmptySeq, LenProperties
<1>2. /\ Head(q) \in Clients /\ Tail(q) \in Seq(Clients)
      /\ Len(Tail(q)) = Len(q) - 1
      /\ \A i \in 1..Len(Tail(q)) : Tail(q)[i] = q[i+1]
  BY HeadTailProperties
<1>3. Head(q) = q[1]
  BY <1>1
<1> QED
  BY <1>1, <1>2, <1>3

LEMMA RecvJoinStep ==
  ASSUME RoomInv, RecvJoin
  PROVE  RoomInv'
<1>1. /\ pc = "select" /\ joinQ # <<>> /\ cur' = Head(joinQ)
      /\ joinQ' = Tail(joinQ) /\ pc' = "backlog"
      /\ UNCHANGED <<serve, reader, got, leaveQ, sendQ, stop, pos, changed, room>>
      /\ UNCHANGED <<history, lastId, viewerCount>>
  BY DEF RecvJoin, conns, log
<1>2. joinQ \in Seq(Clients) /\ Len(joinQ) <= JoinCap /\ JoinCap \in Nat
  BY ConstantsAssumption DEF RoomInv, TypeOK
<1>3. /\ cur' \in Clients /\ cur' = joinQ[1] /\ joinQ' \in Seq(Clients)
      /\ Len(joinQ) \in Nat /\ Len(joinQ) >= 1 /\ Len(joinQ') = Len(joinQ) - 1
      /\ \A i \in 1..Len(joinQ') : joinQ'[i] = joinQ[i+1]
  BY <1>1, <1>2, TailQ
<1>4. TypeOK'
  <2>1. Len(joinQ') <= JoinCap
    BY <1>2, <1>3
  <2> QED
    BY <1>1, <1>3, <2>1 DEF RoomInv, TypeOK
<1>5. \A i, j \in 1..Len(joinQ) : joinQ[i] = joinQ[j] => i = j
  BY DEF RoomInv, JoinsOnce
<1>6. \A i \in 1..Len(joinQ') : i + 1 \in 1..Len(joinQ) /\ i + 1 # 1
  BY <1>3
<1>7. \A i \in 1..Len(joinQ') : joinQ'[i] # cur'
  <2>1. 1 \in 1..Len(joinQ)
    BY <1>3
  <2> QED
    BY <1>3, <1>5, <1>6, <2>1
<1>8. ASSUME NEW c \in Clients
      PROVE  Queued(c) <=> Queued(c)' \/ c = cur'
  <2>1. ASSUME NEW i \in 1..Len(joinQ), joinQ[i] = c
        PROVE  Queued(c)' \/ c = cur'
    <3>1. CASE i = 1
      BY <1>3, <2>1, <3>1
    <3>2. CASE i # 1
      <4>1. i - 1 \in 1..Len(joinQ') /\ (i - 1) + 1 = i
        BY <1>3, <3>2
      <4>2. joinQ'[i - 1] = c
        BY <1>3, <2>1, <4>1
      <4> QED
        BY <4>1, <4>2 DEF Queued
    <3> QED
      BY <3>1, <3>2
  <2>2. Queued(c)' => Queued(c)
    BY <1>3, <1>6 DEF Queued
  <2>3. c = cur' => Queued(c)
    <3>1. 1 \in 1..Len(joinQ)
      BY <1>3
    <3> QED
      BY <1>3, <3>1 DEF Queued
  <2> QED
    BY <2>1, <2>2, <2>3 DEF Queued
<1>9. JoinsOnce'
  <2>1. \A i, j \in 1..Len(joinQ') : joinQ'[i] = joinQ'[j] => i = j
    <3> SUFFICES ASSUME NEW i \in 1..Len(joinQ'), NEW j \in 1..Len(joinQ'),
                        joinQ'[i] = joinQ'[j]
                 PROVE  i = j
      OBVIOUS
    <3>1. i + 1 = j + 1
      BY <1>3, <1>5, <1>6
    <3> QED
      BY <3>1
  <2>2. ~Queued(cur)'
    BY <1>7 DEF Queued
  <2>3. ASSUME NEW c \in Clients, Queued(c)' \/ InHand(c)'
        PROVE  reader'[c] # "none" /\ c \notin room'.members /\ c \notin Overflowed'
    <3>1. Queued(c)
      BY <1>8, <2>3 DEF InHand
    <3> QED
      BY <1>1, <3>1 DEF RoomInv, JoinsOnce, Overflowed
  <2>4. \A c \in room'.members \cup room'.shut : reader'[c] # "none"
    BY <1>1 DEF RoomInv, JoinsOnce
  <2>5. ASSUME NEW c \in Clients, reader'[c] # "none"
        PROVE  Queued(c)' \/ InHand(c)' \/ c \in room'.members \/ c \in room'.shut
    <3>1. Queued(c) \/ c \in room.members \/ c \in room.shut
      BY <1>1, <2>5 DEF RoomInv, JoinsOnce, InHand
    <3> QED
      BY <1>1, <1>8, <3>1 DEF InHand
  <2> QED
    BY <1>3, <2>1, <2>2, <2>3, <2>4, <2>5 DEF JoinsOnce
<1>10. Started'
  BY <1>1 DEF RoomInv, Started
<1>11. Open' /\ Paired(room')
  BY <1>1 DEF RoomInv, Open, Overflowed, OnlyOvertakenPanics, Paired
<1>12. CountsExact'
  <2> SUFFICES ASSUME ~Doomed'
               PROVE  ~Doomed
    BY <1>1 DEF RoomInv, CountsExact
  <2>1. ASSUME NEW i \in 1..Len(joinQ), joinQ[i] \in room.closed
        PROVE  FALSE
    <3>1. joinQ[i] \in Clients /\ Queued(joinQ[i])
      BY <1>2, ElementOfSeq DEF Queued
    <3>2. joinQ[i] # cur'
      BY <1>1, <2>1 DEF Doomed
    <3>3. \E j \in 1..Len(joinQ') : joinQ'[j] = joinQ[i]
      <4>1. PICK c \in Clients : c = joinQ[i]
        BY <3>1
      <4>2. Queued(c)'
        BY <1>8, <3>1, <3>2, <4>1
      <4> QED
        BY <4>1, <4>2 DEF Queued
    <3> QED
      BY <1>1, <2>1, <3>3 DEF Doomed, Overtaken
  <2>2. room.members \cap room.closed = {}
    BY <1>1 DEF Doomed
  <2> QED
    BY <1>1, <2>1, <2>2 DEF Doomed, Overtaken, Alive, Panics
<1> QED
  BY <1>4, <1>9, <1>10, <1>11, <1>12 DEF RoomInv, Paired

LEMMA DeliverBacklogStep ==
  ASSUME RoomInv, DeliverBacklog
  PROVE  RoomInv'
<1>1. /\ pc = "backlog" /\ pos <= Len(history)
      /\ UNCHANGED <<serve, reader, got, joinQ, leaveQ, sendQ, stop, history, lastId>>
      /\ UNCHANGED viewerCount
  BY DEF DeliverBacklog, conns, queue, log
<1>2. /\ cur \in Clients /\ ~Queued(cur) /\ reader[cur] # "none"
      /\ cur \notin room.members /\ cur \notin Overflowed
  BY <1>1 DEF RoomInv, JoinsOnce, InHand
<1>3. /\ room.members \cap room.shut = {} /\ room.closed \subseteq room.shut
      /\ room.members \cap Overflowed = {}
  BY <1>1 DEF RoomInv, Open
<1>4. /\ RoomOK(room) /\ room \in RoomType /\ room.out[cur] \in Seq(Nat)
      /\ pos \in Nat \ {0} /\ history \in Seq(Nat) /\ room.shut \subseteq Clients
  BY <1>2, RoomTyped DEF RoomInv, TypeOK
<1>5. Started'
  BY <1>1 DEF RoomInv, Started
<1>6. CASE cur \in room.shut /\ pc' = "panic_send"
           /\ UNCHANGED <<cur, pos, changed, room>>
  <2>1. TypeOK'
    BY <1>1, <1>6 DEF RoomInv, TypeOK, Panics
  <2>2. JoinsOnce'
    <3>1. \A c \in Clients : InHand(c) => c \in {cur}
      BY DEF InHand
    <3>2. room'.members \cup room'.shut = room.members \cup room.shut \cup {cur}
      BY <1>6
    <3>3. {cur} \in SUBSET Clients /\ \A c \in {cur} : reader[c] # "none"
      BY <1>2
    <3>4. Overflowed' = Overflowed
      BY <1>6 DEF Overflowed
    <3> QED
      BY <1>1, <1>6, <3>1, <3>2, <3>3, <3>4, PlacesKept
  <2>3. Open'
    <3>1. cur' \in room'.closed
      BY <1>2, <1>6 DEF Overflowed
    <3> QED
      BY <1>3, <1>6, <3>1 DEF Open, Overflowed, OnlyOvertakenPanics
  <2>4. CountsExact' /\ Paired(room')
    BY <1>6 DEF CountsExact, Doomed, Alive, Panics, RoomInv, Paired
  <2> QED
    BY <1>5, <2>1, <2>2, <2>3, <2>4 DEF RoomInv, Paired
<1>7. CASE /\ cur \notin room.shut /\ ~Full(room, cur)
           /\ room' = [room EXCEPT !.out[cur] = Append(room.out[cur], history[pos])]
           /\ pos' = pos + 1
           /\ UNCHANGED <<pc, cur, changed>>
  <2> DEFINE t == Append(room.out[cur], history[pos])
  <2>1. room' = [room EXCEPT !.out[cur] = t]
    BY <1>7
  <2>2. t \in Seq(Nat) /\ Len(t) <= SendBuffer
    <3>1. history[pos] \in Nat
      BY <1>1, <1>4, ElementOfSeq
    <3>2. Len(t) = Len(room.out[cur]) + 1 /\ Len(room.out[cur]) \in Nat
      BY <1>4
    <3>3. SendBuffer \in Nat
      BY ConstantsAssumption
    <3> QED
      BY <1>4, <1>7, <3>1, <3>2, <3>3 DEF Full
  <2> HIDE DEF t
  <2>3. /\ RoomOK(room') /\ room'.members = room.members
        /\ room'.closed = room.closed /\ room'.shut = room.shut
        /\ room'.views = room.views /\ room'.users = room.users
    BY <1>2, <1>4, <2>1, <2>2, QueueUpdate
  <2>4. TypeOK'
    BY <1>1, <1>4, <1>7, <2>3 DEF RoomInv, TypeOK, RoomOK
  <2> QED
    BY <1>1, <1>5, <1>7, <2>3, <2>4, ConnFrame
<1>8. CASE /\ cur \notin room.shut /\ Full(room, cur)
           /\ room' = [room EXCEPT !.shut = @ \cup {cur}]
           /\ pc' = "select" /\ EndBranch
  <2>1. /\ room' \in RoomType /\ room'.members = room.members
        /\ room'.closed = room.closed /\ room'.shut = room.shut \cup {cur}
        /\ room'.views = room.views /\ room'.users = room.users
        /\ room'.out = room.out
    BY <1>2, <1>4, <1>8 DEF RoomType
  <2>2. TypeOK'
    <3>1. cur' = NoClient /\ pos' = 1 /\ changed' = FALSE /\ 1 \in Nat \ {0}
      BY <1>8 DEF EndBranch
    <3> QED
      BY <1>1, <1>8, <2>1, <3>1 DEF RoomInv, TypeOK
  <2>3. JoinsOnce'
    <3>1. \A c \in Clients : InHand(c) => c \in {cur}
      BY DEF InHand
    <3>2. room'.members \cup room'.shut = room.members \cup room.shut \cup {cur}
      BY <2>1
    <3>3. {cur} \in SUBSET Clients /\ \A c \in {cur} : reader[c] # "none"
      BY <1>2
    <3>4. \A c \in Overflowed' : c \in Overflowed \/ ~Queued(c)
      BY <1>2, <2>1 DEF Overflowed
    <3> QED
      BY <1>1, <1>8, <2>1, <3>1, <3>2, <3>3, <3>4, PlacesKept
  <2>4. Open'
    BY <1>2, <1>3, <1>8, <2>1 DEF Open, Overflowed, OnlyOvertakenPanics
  <2>5. CountsExact'
    <3>1. Doomed => Doomed'
      BY <1>1, <1>3, <1>8, <2>1 DEF Doomed, Overtaken, Alive, Panics
    <3> QED
      BY <2>1, <3>1 DEF RoomInv, CountsExact
  <2>6. Paired(room')
    BY <1>1, <1>8, <2>1 DEF RoomInv, Paired
  <2> QED
    BY <1>5, <2>2, <2>3, <2>4, <2>5, <2>6 DEF RoomInv, Paired
<1> QED
  BY <1>6, <1>7, <1>8 DEF DeliverBacklog

\* Register announces a user's first connection, and only that.
LEMMA FirstChanges ==
  ASSUME NEW r, Paired(r), NEW c \in Clients, User[c] # "", r.users[User[c]] = 1
  PROVE  viewerKey(c) # NoKey /\ r.views[viewerKey(c)] = 1
<1>1. User[c] \in Names
  BY DEF Names
<1>2. viewerKey(c) = <<"u", User[c]>>
  BY DEF viewerKey
<1>3. <<"u", User[c]>> # NoKey
  BY DEF NoKey
<1> QED
  BY <1>1, <1>2, <1>3 DEF Paired

LEMMA RegisterStep ==
  ASSUME RoomInv, Register
  PROVE  RoomInv'
<1> DEFINE e == Enter(room, cur)
           first == User[cur] # "" /\ e.users[User[cur]] = 1
<1>1. /\ pc = "backlog"
      /\ changed' = (viewerKey(cur) # NoKey /\ e.views[viewerKey(cur)] = 1)
      /\ \/ first /\ DispatchThen(e, Notice, "joined")
         \/ ~first /\ room' = e /\ pc' = "joined"
      /\ UNCHANGED <<serve, reader, got, joinQ, leaveQ, sendQ, stop, cur, pos>>
      /\ UNCHANGED <<history, lastId, viewerCount>>
  BY DEF Register, conns, queue, log
<1>2. /\ cur \in Clients /\ ~Queued(cur) /\ reader[cur] # "none"
      /\ cur \notin room.members /\ cur \notin Overflowed
  BY <1>1 DEF RoomInv, JoinsOnce, InHand
<1>3. /\ room.members \cap room.shut = {} /\ room.closed \subseteq room.shut
      /\ room.members \cap Overflowed = {}
  BY <1>1 DEF RoomInv, Open
<1>4. /\ RoomOK(room) /\ viewerCount \in Nat /\ Viewers(room) \in Nat
      /\ Paired(room)
  BY RoomTyped DEF RoomInv
<1>5. /\ RoomOK(e) /\ e.members = room.members \cup {cur}
      /\ e.closed = room.closed /\ e.shut = room.shut
  BY <1>2, <1>4, EnterFields
<1>6. /\ Paired(e)
      /\ Exact(room) => Exact(e)
  BY <1>1, <1>2, <1>4, EnterCounts
<1>7. first => changed'
  BY <1>1, <1>2, <1>6, FirstChanges
<1> HIDE DEF e
<1>8. /\ Evicted(e, room')
      /\ \/ /\ pc' = "joined" /\ e.members \cap e.shut = {}
         \/ /\ pc' = "joined" /\ room' = e /\ ~first
         \/ /\ pc' = "panic_send" /\ room' = e /\ e.members \cap e.shut # {}
  <2>1. CASE first /\ DispatchThen(e, Notice, "joined")
    <3>1. Notice \in Nat
      BY DEF Notice
    <3> QED
      BY <1>5, <2>1, <3>1, DispatchCases, NoneEvicted
  <2>2. CASE ~first /\ room' = e /\ pc' = "joined"
    BY <1>5, <2>2, NoneEvicted
  <2> QED
    BY <1>1, <2>1, <2>2
<1>9. /\ RoomOK(room') /\ room'.members \subseteq e.members
      /\ room'.closed = e.closed \cup (e.members \ room'.members)
      /\ room'.shut = e.shut \cup (e.members \ room'.members)
      /\ Paired(room')
      /\ Exact(e) => Exact(room')
  BY <1>6, <1>8 DEF Evicted
<1>10. ~changed' => ~first
  BY <1>7
<1> HIDE DEF first
<1>11. TypeOK'
  <2>1. pc' \in {"select", "backlog", "joined", "left", "stopped"} \cup Panics
    BY <1>8 DEF Panics
  <2>2. changed' \in BOOLEAN
    BY <1>1
  <2> QED
    BY <1>1, <1>9, <2>1, <2>2 DEF RoomInv, TypeOK, RoomOK
<1>12. Started'
  BY <1>1 DEF RoomInv, Started
<1>13. JoinsOnce'
  <2>1. \A c \in Clients : InHand(c) => c \in {cur}
    BY DEF InHand
  <2>2. room'.members \cup room'.shut = room.members \cup room.shut \cup {cur}
    BY <1>5, <1>9
  <2>3. {cur} \in SUBSET Clients /\ \A c \in {cur} : reader[c] # "none"
    BY <1>2
  <2>4. \A c \in Overflowed' : c \in Overflowed
    BY <1>5, <1>9 DEF Overflowed
  <2>5. \A c \in room'.members : c \in room.members \/ (c \in {cur} /\ ~Queued(c))
    BY <1>2, <1>5, <1>9
  <2>6. pc' # "backlog"
    BY <1>8
  <2> QED
    BY <1>1, <2>1, <2>2, <2>3, <2>4, <2>5, <2>6, PlacesKept
<1>14. Open'
  <2>1. room'.closed \subseteq room'.shut
    BY <1>3, <1>5, <1>9
  <2>2. room'.members \cap Overflowed' = {}
    BY <1>2, <1>3, <1>5, <1>9 DEF Overflowed
  <2>3. pc' = "joined" => /\ cur' \in Clients
                          /\ room'.members \cap room'.shut \subseteq {cur'}
    BY <1>1, <1>2, <1>3, <1>5, <1>8, <1>9
  <2>4. ASSUME pc' = "joined", ~changed'
        PROVE  cur' \in room'.members
    <3>1. ~first
      BY <1>10, <2>4
    <3>2. room' = e
      BY <1>1, <3>1
    <3> QED
      BY <1>1, <1>5, <3>2
  <2>5. pc' = "panic_send" => room'.members \cap room'.closed # {}
    <3>1. e.members \cap (e.shut \ e.closed) = {}
      BY <1>2, <1>3, <1>5 DEF Overflowed
    <3> QED
      BY <1>8, <3>1
  <2> QED
    BY <1>8, <2>1, <2>2, <2>3, <2>4, <2>5 DEF Open, OnlyOvertakenPanics
<1>15. CountsExact'
  <2> SUFFICES ASSUME ~Doomed'
               PROVE  Exact(room')
    BY DEF CountsExact, Exact
  <2>1. pc' = "joined" /\ room'.members \cap room'.closed = {}
    BY <1>8 DEF Doomed, Alive, Panics
  <2>2. ~Overtaken
    BY <1>1, <1>5, <1>9 DEF Doomed, Overtaken
  <2>3. cur \notin room.closed
    BY <1>3, <1>5, <1>8, <2>1
  <2>4. ~Doomed
    BY <1>1, <1>3, <2>2, <2>3 DEF Doomed, Alive, Panics
  <2>5. Exact(room)
    BY <2>4 DEF RoomInv, CountsExact, Exact
  <2> QED
    BY <1>6, <1>9, <2>5
<1> QED
  BY <1>9, <1>11, <1>12, <1>13, <1>14, <1>15 DEF RoomInv, Paired

LEMMA RecvLeaveStep ==
  ASSUME RoomInv, RecvLeave
  PROVE  RoomInv'
<1> DEFINE c == Head(leaveQ)
           r == removeClients(room, {c})
<1>1. /\ pc = "select" /\ leaveQ # <<>> /\ leaveQ' = Tail(leaveQ)
      /\ UNCHANGED <<serve, reader, got, joinQ, sendQ, stop, cur, pos>>
      /\ UNCHANGED <<history, lastId, viewerCount>>
  BY DEF RecvLeave, conns, log
<1>2. leaveQ \in Seq(Clients) /\ Len(leaveQ) <= LeaveCap /\ LeaveCap \in Nat
  BY ConstantsAssumption DEF RoomInv, TypeOK
<1>3. /\ c \in Clients /\ c = leaveQ[1] /\ leaveQ' \in Seq(Clients)
      /\ Len(leaveQ) \in Nat /\ Len(leaveQ) >= 1 /\ Len(leaveQ') = Len(leaveQ) - 1
      /\ \A i \in 1..Len(leaveQ') : leaveQ'[i] = leaveQ[i+1]
  BY <1>1, <1>2, TailQ
<1>4. /\ Len(leaveQ') <= LeaveCap /\ 1 \in 1..Len(leaveQ)
      /\ \A i \in 1..Len(leaveQ') : i + 1 \in 1..Len(leaveQ)
  BY <1>2, <1>3
<1>5. reader[c] # "none"
  BY <1>3, <1>4 DEF RoomInv, Started
<1>6. Started'
  BY <1>1, <1>3, <1>4 DEF RoomInv, Started
<1>7. /\ room.members \cap room.shut = {} /\ room.closed \subseteq room.shut
      /\ room.members \cap Overflowed = {}
  BY <1>1 DEF RoomInv, Open
<1>8. /\ RoomOK(room) /\ room \in RoomType /\ viewerCount \in Nat
      /\ Viewers(room) \in Nat /\ Paired(room)
  BY RoomTyped DEF RoomInv
<1>9. \A d \in Clients : ~InHand(d)
  BY <1>1 DEF InHand
<1>10. CASE /\ c \in room.shut /\ UNCHANGED <<changed, room>>
            /\ pc' \in {"left", "panic_close"}
  <2>1. TypeOK'
    BY <1>1, <1>3, <1>4, <1>10 DEF RoomInv, TypeOK, Panics
  <2>2. JoinsOnce'
    <3>1. room'.members \cup room'.shut = room.members \cup room.shut \cup {}
      BY <1>10
    <3>2. Overflowed' = Overflowed
      BY <1>10 DEF Overflowed
    <3>3. /\ UNCHANGED <<reader, joinQ>> /\ pc' # "backlog"
          /\ \A d \in room'.members : d \in room.members
          /\ \A d \in Overflowed' : d \in Overflowed
      BY <1>1, <1>10, <3>2
    <3>4. PICK X \in SUBSET Clients : X = {}
      OBVIOUS
    <3> HIDE DEF c, r
    <3> QED
      BY ONLY RoomInv, <1>9, <3>1, <3>3, <3>4, PlacesKept
  <2>3. Open'
    BY <1>7, <1>10 DEF Open, Overflowed, OnlyOvertakenPanics
  <2>4. Paired(room')
    BY <1>8, <1>10 DEF Paired
  <2>5. CountsExact'
    <3>1. Doomed => Doomed'
      BY <1>1, <1>10 DEF Doomed, Overtaken, Alive, Panics
    <3> QED
      BY <1>10, <3>1 DEF RoomInv, CountsExact
  <2> QED
    BY <1>6, <2>1, <2>2, <2>3, <2>4, <2>5 DEF RoomInv, Paired
<1>11. CASE /\ c \notin room.shut \cup room.closed
            /\ changed' = (viewerKey(c) # NoKey /\ r.views[viewerKey(c)] = 0)
            /\ \/ DispatchThen(r, Notice, "left")
               \/ room' = r /\ pc' = "left"
  <2>1. {c} \in SUBSET Clients
    BY <1>3
  <2>2. /\ r \in RoomType /\ r.members = room.members \ {c}
        /\ r.closed = room.closed \cup {c} /\ r.shut = room.shut \cup {c}
        /\ r.out = room.out
    BY <1>8, <2>1, RemoveFields
  <2>3. /\ Paired(r)
        /\ c \in room.members /\ Exact(room) => Exact(r)
    BY <1>8, <2>1, RemoveCounts
  <2> HIDE DEF r, c
  <2>4. RoomOK(r)
    BY <1>8, <2>2 DEF RoomOK
  <2>5. r.members \cap r.shut = {}
    BY <1>7, <2>2
  <2>6. pc' = "left" /\ Evicted(r, room')
    <3>1. Notice \in Nat
      BY DEF Notice
    <3> QED
      BY <1>11, <2>4, <2>5, <3>1, DispatchCases, NoneEvicted
  <2>7. /\ RoomOK(room') /\ room'.members \subseteq r.members
        /\ room'.closed = r.closed \cup (r.members \ room'.members)
        /\ room'.shut = r.shut \cup (r.members \ room'.members)
        /\ Paired(room')
        /\ Exact(r) => Exact(room')
    BY <2>3, <2>6 DEF Evicted
  <2>8. TypeOK'
    <3>1. changed' \in BOOLEAN
      BY <1>11
    <3> QED
      BY <1>1, <1>3, <1>4, <2>6, <2>7, <3>1 DEF RoomInv, TypeOK, RoomOK
  <2>9. JoinsOnce'
    <3>1. room'.members \cup room'.shut = room.members \cup room.shut \cup {c}
      BY <2>2, <2>7
    <3>2. \A d \in Overflowed' : d \in Overflowed
      BY <2>2, <2>7 DEF Overflowed
    <3>3. \A d \in {c} : reader[d] # "none"
      BY <1>5
    <3>4. \A d \in room'.members : d \in room.members
      BY <2>2, <2>7
    <3> QED
      BY <1>1, <1>9, <2>1, <2>6, <3>1, <3>2, <3>3, <3>4, PlacesKept
  <2>10. Open'
    <3>1. /\ room'.closed \subseteq room'.shut /\ room'.members \cap room'.shut = {}
      BY <1>7, <2>2, <2>5, <2>7
    <3>2. room'.members \cap Overflowed' = {}
      BY <3>1 DEF Overflowed
    <3> QED
      BY <2>6, <3>1, <3>2 DEF Open, OnlyOvertakenPanics
  <2>11. CountsExact'
    <3> SUFFICES ASSUME ~Doomed'
                 PROVE  Exact(room')
      BY DEF CountsExact, Exact
    <3>1. ~Queued(c)
      BY <1>1, <2>2, <2>7 DEF Doomed, Overtaken, Queued
    <3>2. c \in room.members
      BY <1>3, <1>5, <1>9, <1>11, <3>1 DEF RoomInv, JoinsOnce
    <3>3. ~Overtaken
      BY <1>1, <2>2, <2>7 DEF Doomed, Overtaken
    <3>4. ~Doomed
      BY <1>1, <1>7, <3>3 DEF Doomed, Alive, Panics
    <3>5. Exact(room)
      BY <3>4 DEF RoomInv, CountsExact, Exact
    <3> QED
      BY <2>3, <2>7, <3>2, <3>5
  <2> QED
    BY <1>6, <2>7, <2>8, <2>9, <2>10, <2>11 DEF RoomInv, Paired
<1> QED
  BY <1>7, <1>10, <1>11 DEF RecvLeave

LEMMA RecvStopStep ==
  ASSUME RoomInv, RecvStop
  PROVE  RoomInv'
<1>1. /\ pc = "select" /\ pc' = "stopped"
      /\ room' = removeClients(room, room.members)
      /\ UNCHANGED <<serve, reader, got, joinQ, leaveQ, sendQ, stop, cur, pos>>
      /\ UNCHANGED <<changed, history, lastId, viewerCount>>
  BY DEF RecvStop, conns, queue, log
<1>2. /\ room.members \cap room.shut = {} /\ room.closed \subseteq room.shut
      /\ room.members \cap Overflowed = {}
  BY <1>1 DEF RoomInv, Open
<1>3. /\ RoomOK(room) /\ room \in RoomType /\ room.members \in SUBSET Clients
      /\ viewerCount \in Nat /\ Viewers(room) \in Nat
  BY RoomTyped
<1>4. /\ RoomOK(room') /\ room'.members \subseteq room.members
      /\ room'.closed = room.closed \cup (room.members \ room'.members)
      /\ room'.shut = room.shut \cup (room.members \ room'.members)
      /\ Paired(room')
      /\ Exact(room) => Exact(room')
  BY <1>1, <1>3, RemoveMembers DEF Evicted, RoomInv
<1>5. room'.members = {}
  BY <1>1, <1>3, RemoveFields
<1>6. TypeOK'
  BY <1>1, <1>4 DEF RoomInv, TypeOK, RoomOK
<1>7. JoinsOnce'
  <2>1. \A c \in Clients : ~InHand(c)
    BY <1>1 DEF InHand
  <2>2. room'.members \cup room'.shut = room.members \cup room.shut \cup {}
    BY <1>4
  <2>3. \A c \in Overflowed' : c \in Overflowed
    BY <1>4 DEF Overflowed
  <2>4. /\ UNCHANGED <<reader, joinQ>> /\ pc' # "backlog"
        /\ \A c \in room'.members : c \in room.members
    BY <1>1, <1>4
  <2>5. PICK X \in SUBSET Clients : X = {}
    OBVIOUS
  <2> QED
    BY ONLY RoomInv, <2>1, <2>2, <2>3, <2>4, <2>5, PlacesKept
<1>8. Started'
  BY <1>1 DEF RoomInv, Started
<1>9. Open'
  BY <1>1, <1>2, <1>4, <1>5 DEF Open, OnlyOvertakenPanics
<1>10. CountsExact'
  <2>1. ~Doomed' => ~Doomed
    BY <1>1, <1>2, <1>4 DEF Doomed, Overtaken, Alive, Panics
  <2> QED
    BY <1>4, <2>1 DEF RoomInv, CountsExact, Exact
<1> QED
  BY <1>4, <1>6, <1>7, <1>8, <1>9, <1>10 DEF RoomInv, Paired

LEMMA CloseStopStep ==
  ASSUME RoomInv, CloseStop
  PROVE  RoomInv'
<1>1. TypeOK'
  BY DEF CloseStop, RoomInv, TypeOK, conns, actor, log
<1>2. Started'
  BY DEF CloseStop, RoomInv, Started, conns
<1> QED
  BY <1>1, <1>2, ConnFrame DEF CloseStop, conns, actor

LEMMA RoomStep == RoomInv /\ [Next]_vars => RoomInv'
<1> SUFFICES ASSUME RoomInv, [Next]_vars
             PROVE  RoomInv'
  OBVIOUS
<1>1. CASE RecvJoin
  BY <1>1, RecvJoinStep
<1>2. CASE DeliverBacklog
  BY <1>2, DeliverBacklogStep
<1>3. CASE Register
  BY <1>3, RegisterStep
<1>4. CASE JoinCount
  BY <1>4, JoinCountStep
<1>5. CASE RecvLeave
  BY <1>5, RecvLeaveStep
<1>6. CASE LeaveCount
  BY <1>6, LeaveCountStep
<1>7. CASE RecvSend
  BY <1>7, RecvSendStep
<1>8. CASE CloseStop
  BY <1>8, CloseStopStep
<1>9. CASE RecvStop
  BY <1>9, RecvStopStep
<1>10. ASSUME NEW c \in Clients,
              \/ Connect(c) \/ JoinCancelled(c) \/ WriterDrained(c)
              \/ CloseConn(c) \/ ReadMessage(c) \/ SendInbound(c)
              \/ SendCancelled(c)
       PROVE  RoomInv'
  BY <1>10, QuietStep
<1>11. ASSUME NEW c \in Clients, JoinSent(c)
       PROVE  RoomInv'
  BY <1>11, JoinSentStep
<1>12. ASSUME NEW c \in Clients, WriterLeaves(c) \/ ReadFails(c)
       PROVE  RoomInv'
  BY <1>12, LeaveStep
<1>13. ASSUME NEW c \in Clients, NEW ok \in BOOLEAN, WriteOne(c, ok)
       PROVE  RoomInv'
  BY <1>13, WriteStep
<1>14. CASE UNCHANGED vars
  <2>1. /\ UNCHANGED <<serve, reader, got, joinQ, leaveQ, sendQ, stop, pc, cur, pos>>
        /\ UNCHANGED <<changed, room, history, lastId, viewerCount>>
    BY <1>14 DEF vars, conns, queue, actor, log
  <2>2. TypeOK' /\ Started'
    BY <2>1 DEF RoomInv, TypeOK, Started
  <2> QED
    BY <2>1, <2>2, ConnFrame
<1> QED
  BY <1>1, <1>2, <1>3, <1>4, <1>5, <1>6, <1>7, <1>8, <1>9, <1>10, <1>11, <1>12,
     <1>13, <1>14 DEF Next

\* The inductive invariant of the room: every connection joins once and is then
\* queued, in the actor's hands, registered or closed; closed queues are where
\* no send reaches them; counters and cache agree with the maps.
THEOREM RoomInvariance == Spec => []RoomInv
  BY RoomInit, RoomStep, PTL DEF Spec

-----------------------------------------------------------------------------
(* What it means. *)

\* While Room.run waits in its select every registered client can be sent to,
\* and no channel, client queue or history is beyond its capacity.
THEOREM MembersAlwaysOpen == Spec => []MembersOpen
<1>1. RoomInv => MembersOpen
  BY DEF RoomInv, Open, MembersOpen
<1> QED
  BY <1>1, RoomInvariance, PTL

\* A send on a closed channel has one cause, a leave that the select took
\* before the join of the same client.
THEOREM SendPanicsExplained == Spec => []OnlyOvertakenPanics
<1>1. RoomInv => OnlyOvertakenPanics
  BY DEF RoomInv, Open
<1> QED
  BY <1>1, RoomInvariance, PTL

\* viewerCounts and userPresence of hub.go count exactly the registered
\* connections of each identity.
THEOREM CountsAlwaysExact == Spec => []CountsExact
<1>1. RoomInv => CountsExact
  BY DEF RoomInv
<1> QED
  BY <1>1, RoomInvariance, PTL

-----------------------------------------------------------------------------
(* Delivery. *)

\* The history ends with the latest message and has no gap.
HistoryWhole ==
  /\ Len(history) <= lastId
  /\ lastId > 0 => Len(history) > 0
  /\ \A i \in 1..Len(history) : history[i] = lastId - Len(history) + i

\* Where the actor is in the history.
Position ==
  /\ pc \in {"select", "left"} => pos = 1
  /\ pc = "backlog" => pos <= Len(history) + 1

\* The message of the backlog that was delivered last.
Delivered == IF pos = 1 THEN 0 ELSE history[pos - 1]

\* A connection whose writer has not failed yet.
Whole(c) == serve[c] \in {"new", "joining", "write"}

Flow ==
  \A c \in Clients :
    /\ Queued(c) \/ reader[c] = "none" => got[c] = <<>> /\ room.out[c] = <<>>
    /\ Whole(c) =>
         /\ Contiguous(Given(c))
         /\ c \in room.members => UpTo(Given(c), lastId)
         /\ InHand(c) => UpTo(Given(c), Delivered)

FlowInv == HistoryWhole /\ Position /\ Flow

\* h is g with m behind it.
Extends(h, g, m) ==
  /\ Len(h) = Len(g) + 1 /\ h[Len(g) + 1] = m
  /\ \A i \in 1..Len(g) : h[i] = g[i]

\* Two indices of a sequence to which an element was appended.
LEMMA Indices ==
  ASSUME NEW L \in Nat, NEW i \in Nat, NEW j \in Nat,
         1 <= i, i < j, j <= L + 1
  PROVE  /\ j = L + 1 \/ j <= L
         /\ j > L => j = L + 1
         /\ i \in 1..L
         /\ j <= L => j \in 1..L
         /\ \A k \in i+1..j-1 : k \in 1..L
OBVIOUS

\* The next message joins up with the ones before it.
LEMMA ChatAppended ==
  ASSUME NEW g \in Seq(Nat), NEW h \in Seq(Nat), NEW n \in Nat, NEW m \in Nat,
         Extends(h, g, m), Contiguous(g), UpTo(g, n), m # 0, n = 0 \/ m = n + 1
  PROVE  Contiguous(h) /\ UpTo(h, m)
<1>1. /\ Len(g) \in Nat /\ Len(h) = Len(g) + 1 /\ h[Len(g) + 1] = m
      /\ \A i \in 1..Len(g) : h[i] = g[i]
  BY LenProperties DEF Extends
<1>0. Len(g) \in Nat /\ Len(h) = Len(g) + 1
  BY <1>1
<1>2. ASSUME NEW i \in 1..Len(h), NEW j \in 1..Len(h),
             i < j, h[i] # Notice, h[j] # Notice,
             \A k \in i+1..j-1 : h[k] = Notice
      PROVE  h[j] = h[i] + 1
  <2>0. i \in Nat /\ j \in Nat /\ 1 <= i /\ i < j /\ j <= Len(g) + 1
    BY <1>0, <1>2
  <2>1. CASE j <= Len(g)
    <3>1. /\ i \in 1..Len(g) /\ j \in 1..Len(g)
          /\ \A k \in i+1..j-1 : k \in 1..Len(g)
      BY <1>0, <2>0, <2>1, Indices, Zenon
    <3>2. /\ h[i] = g[i] /\ h[j] = g[j]
          /\ \A k \in i+1..j-1 : g[k] = Notice
      BY <1>1, <1>2, <3>1
    <3> QED
      BY <1>2, <3>1, <3>2 DEF Contiguous
  <2>2. CASE j > Len(g)
    <3>1. j = Len(g) + 1 /\ i \in 1..Len(g) /\ h[j] = m /\ h[i] = g[i]
      <4>1. j = Len(g) + 1 /\ i \in 1..Len(g)
        BY <1>0, <2>0, <2>2, Indices, Zenon
      <4> QED
        BY <1>1, <4>1
    <3>2. n # 0
      BY <1>2, <3>1 DEF UpTo
    <3>3. PICK l \in 1..Len(g) :
            g[l] = n /\ \A k \in l+1..Len(g) : g[k] = Notice
      BY <3>2 DEF UpTo
    <3>4. ~(i > l)
      <4> SUFFICES ASSUME i > l
                   PROVE  FALSE
        OBVIOUS
      <4>1. i \in l+1..Len(g)
        BY <1>0, <3>1
      <4>2. g[i] = Notice
        BY <3>3, <4>1
      <4> QED
        BY <1>2, <3>1, <4>2
    <3>5. ~(i < l)
      <4> SUFFICES ASSUME i < l
                   PROVE  FALSE
        OBVIOUS
      <4>1. l \in i+1..j-1
        BY <1>1, <3>1, <3>3
      <4>2. h[l] = Notice /\ h[l] = n
        BY <1>1, <1>2, <3>3, <4>1
      <4> QED
        BY <3>2, <4>2 DEF Notice
    <3>6. i = l
      BY <1>1, <3>1, <3>3, <3>4, <3>5
    <3> QED
      BY <3>1, <3>2, <3>3, <3>6
  <2> QED
    BY <1>1, <2>1, <2>2
<1>3. Contiguous(h)
  BY <1>2 DEF Contiguous
<1>4. UpTo(h, m)
  <2>1. Len(g) + 1 \in 1..Len(h) /\ h[Len(g) + 1] = m
    BY <1>1
  <2>2. \A k \in (Len(g) + 1)+1..Len(h) : h[k] = Notice
    BY <1>1
  <2> QED
    BY <2>1, <2>2 DEF UpTo
<1> QED
  BY <1>3, <1>4

\* Notices do not matter.
LEMMA NoticeAppended ==
  ASSUME NEW g \in Seq(Nat), NEW h \in Seq(Nat), Extends(h, g, Notice),
         Contiguous(g)
  PROVE  Contiguous(h) /\ \A n \in Nat : UpTo(g, n) => UpTo(h, n)
<1>1. /\ Len(g) \in Nat /\ Len(h) = Len(g) + 1 /\ h[Len(g) + 1] = Notice
      /\ \A i \in 1..Len(g) : h[i] = g[i]
  BY LenProperties DEF Extends
<1>0. Len(g) \in Nat /\ Len(h) = Len(g) + 1
  BY <1>1
<1>2. ASSUME NEW i \in 1..Len(h), NEW j \in 1..Len(h),
             i < j, h[i] # Notice, h[j] # Notice,
             \A k \in i+1..j-1 : h[k] = Notice
      PROVE  h[j] = h[i] + 1
  <2>0. i \in Nat /\ j \in Nat /\ 1 <= i /\ i < j /\ j <= Len(g) + 1
    BY <1>0, <1>2
  <2>1. j # Len(g) + 1
    BY <1>1, <1>2
  <2>2. /\ i \in 1..Len(g) /\ j \in 1..Len(g)
        /\ \A k \in i+1..j-1 : k \in 1..Len(g)
    <3>1. j <= Len(g)
      BY <1>0, <2>0, <2>1, Indices, Zenon
    <3> QED
      BY <1>0, <2>0, <3>1, Indices, Zenon
  <2>3. /\ h[i] = g[i] /\ h[j] = g[j]
        /\ \A k \in i+1..j-1 : g[k] = Notice
    BY <1>1, <1>2, <2>2
  <2> QED
    BY <1>2, <2>2, <2>3 DEF Contiguous
<1>3. Contiguous(h)
  BY <1>2 DEF Contiguous
<1>4. ASSUME NEW n \in Nat, UpTo(g, n)
      PROVE  UpTo(h, n)
  <2>1. CASE n = 0
    <3>1. \A k \in 1..Len(g) : g[k] = Notice
      BY <1>4, <2>1 DEF UpTo
    <3>2. \A k \in 1..Len(h) : h[k] = Notice
      BY <1>1, <3>1
    <3> QED
      BY <2>1, <3>2 DEF UpTo
  <2>2. CASE n # 0
    <3>1. PICK l \in 1..Len(g) :
            g[l] = n /\ \A k \in l+1..Len(g) : g[k] = Notice
      BY <1>4, <2>2 DEF UpTo
    <3>2. l \in 1..Len(h) /\ h[l] = n
      BY <1>1, <3>1
    <3>3. ASSUME NEW k \in l+1..Len(h)
          PROVE  h[k] = Notice
      <4>1. k \in Int /\ l \in Int /\ l >= 1 /\ k >= l + 1 /\ k <= Len(g) + 1
        BY <1>0
      <4>2. CASE k = Len(g) + 1
        BY <1>1, <4>2
      <4>3. CASE k # Len(g) + 1
        <5>1. k <= Len(g)
          BY <1>0, <4>1, <4>3
        <5>2. k \in 1..Len(g) /\ k \in l+1..Len(g)
          BY <1>0, <4>1, <5>1
        <5>3. h[k] = g[k] /\ g[k] = Notice
          BY <1>1, <3>1, <5>2
        <5> QED
          BY <5>3
      <4> QED
        BY <4>2, <4>3
    <3> QED
      BY <2>2, <3>2, <3>3 DEF UpTo
  <2> QED
    BY <2>1, <2>2
<1> QED
  BY <1>3, <1>4

\* h is g without its element at p.
Skips(h, g, p) ==
  /\ Len(h) = Len(g) - 1
  /\ \A i \in 1..Len(h) : h[i] = IF i < p THEN g[i] ELSE g[i+1]

LEMMA NoticeDropped ==
  ASSUME NEW g \in Seq(Nat), NEW h \in Seq(Nat), NEW p \in 1..Len(g),
         g[p] = Notice, Skips(h, g, p), Contiguous(g)
  PROVE  Contiguous(h) /\ \A n \in Nat : UpTo(g, n) => UpTo(h, n)
<1> DEFINE up(i) == IF i < p THEN i ELSE i + 1
<1>1. /\ Len(g) \in Nat /\ Len(h) = Len(g) - 1 /\ p \in Nat
      /\ \A i \in 1..Len(h) : h[i] = g[up(i)]
  <2>1. /\ Len(g) \in Nat /\ Len(h) = Len(g) - 1 /\ p \in Nat
    BY LenProperties DEF Skips
  <2>2. ASSUME NEW i \in 1..Len(h)
        PROVE  h[i] = g[up(i)]
    <3>1. h[i] = IF i < p THEN g[i] ELSE g[i+1]
      BY DEF Skips
    <3>2. CASE i < p
      BY <3>1, <3>2
    <3>3. CASE ~(i < p)
      BY <3>1, <3>3
    <3> QED
      BY <3>2, <3>3
  <2> QED
    BY <2>1, <2>2
<1>2. ASSUME NEW i \in 1..Len(h)
      PROVE  up(i) \in 1..Len(g) /\ up(i) # p
  BY <1>1
<1>3. ASSUME NEW k \in 1..Len(g), k # p
      PROVE  \E i \in 1..Len(h) : up(i) = k
  <2>1. CASE k < p
    <3>1. k \in 1..Len(h) /\ up(k) = k
      BY <1>1, <2>1
    <3> QED
      BY <3>1
  <2>2. CASE k > p
    <3>1. k - 1 \in 1..Len(h) /\ up(k - 1) = k
      BY <1>1, <2>2
    <3> QED
      BY <3>1
  <2> QED
    BY <1>1, <1>3, <2>1, <2>2
<1>4. ASSUME NEW i \in 1..Len(h), NEW j \in 1..Len(h)
      PROVE  i < j <=> up(i) < up(j)
  <2>1. i \in Int /\ j \in Int /\ p \in Int
    BY <1>1
  <2> QED
    BY ONLY <2>1
<1> HIDE DEF up
<1>5. ASSUME NEW i \in 1..Len(h), NEW j \in 1..Len(h),
             i < j, h[i] # Notice, h[j] # Notice,
             \A k \in i+1..j-1 : h[k] = Notice
      PROVE  h[j] = h[i] + 1
  <2>1. /\ up(i) \in 1..Len(g) /\ up(j) \in 1..Len(g) /\ up(i) < up(j)
        /\ h[i] = g[up(i)] /\ h[j] = g[up(j)]
    BY <1>1, <1>2, <1>4, <1>5
  <2>2. ASSUME NEW k \in up(i)+1..up(j)-1
        PROVE  g[k] = Notice
    <3>1. k \in 1..Len(g) /\ up(i) < k /\ k < up(j)
      <4>1. PICK x \in 1..Len(g) : x = up(i)
        BY <2>1
      <4>2. PICK y \in 1..Len(g) : y = up(j)
        BY <2>1
      <4>3. k \in x+1..y-1
        BY <4>1, <4>2
      <4>4. k \in 1..Len(g) /\ x < k /\ k < y
        BY <1>1, <4>3
      <4> QED
        BY <4>1, <4>2, <4>4
    <3>2. CASE k = p
      BY <3>2
    <3>3. CASE k # p
      <4>1. PICK l \in 1..Len(h) : up(l) = k
        BY <1>3, <3>1, <3>3
      <4>2. i < l /\ l < j
        BY <1>4, <3>1, <4>1
      <4>3. l \in i+1..j-1
        BY <1>1, <4>1, <4>2
      <4> QED
        BY <1>1, <1>5, <4>1, <4>3
    <3> QED
      BY <3>2, <3>3
  <2> QED
    BY <1>5, <2>1, <2>2 DEF Contiguous
<1>6. Contiguous(h)
  BY <1>5 DEF Contiguous
<1>7. ASSUME NEW n \in Nat, UpTo(g, n)
      PROVE  UpTo(h, n)
  <2>1. CASE n = 0
    <3>1. \A k \in 1..Len(g) : g[k] = Notice
      BY <1>7, <2>1 DEF UpTo
    <3>2. ASSUME NEW k \in 1..Len(h)
          PROVE  h[k] = Notice
      <4>1. h[k] = g[up(k)] /\ up(k) \in 1..Len(g)
        BY <1>1, <1>2
      <4> QED
        BY <3>1, <4>1
    <3> QED
      BY <2>1, <3>2 DEF UpTo
  <2>2. CASE n # 0
    <3>1. PICK l \in 1..Len(g) :
            g[l] = n /\ \A k \in l+1..Len(g) : g[k] = Notice
      BY <1>7, <2>2 DEF UpTo
    <3>2. l # p
      BY <2>2, <3>1 DEF Notice
    <3>3. PICK i \in 1..Len(h) : up(i) = l
      BY <1>3, <3>2
    <3>4. ASSUME NEW k \in i+1..Len(h)
          PROVE  h[k] = Notice
      <4>1. k \in 1..Len(h) /\ i < k
        <5>1. PICK m \in Nat : m = Len(h)
          BY <1>1
        <5>2. i \in 1..m /\ k \in i+1..m
          BY <3>3, <5>1
        <5>3. k \in 1..m /\ i < k
          BY ONLY m \in Nat, <5>2
        <5> QED
          BY <5>1, <5>3
      <4>2. up(k) \in 1..Len(g) /\ l < up(k)
        BY <1>2, <1>4, <3>3, <4>1
      <4>3. up(k) \in l+1..Len(g)
        BY <1>1, <4>2
      <4>4. g[up(k)] = Notice
        BY <3>1, <4>3
      <4>5. h[k] = g[up(k)]
        BY <1>1, <4>1
      <4> QED
        BY <4>4, <4>5
    <3>5. h[i] = n
      BY <1>1, <3>1, <3>3
    <3> QED
      BY <2>2, <3>4, <3>5 DEF UpTo
  <2> QED
    BY <2>1, <2>2
<1> QED
  BY <1>6, <1>7

\* Appending to a queue, and writing from it, in terms of what was given.
LEMMA QueueAppended ==
  ASSUME NEW a \in Seq(Nat), NEW b \in Seq(Nat), NEW m \in Nat
  PROVE  /\ a \o b \in Seq(Nat) /\ a \o Append(b, m) \in Seq(Nat)
         /\ Extends(a \o Append(b, m), a \o b, m)
<1>1. Len(a) \in Nat /\ Len(b) \in Nat
  BY LenProperties
<1>2. /\ Append(b, m) \in Seq(Nat) /\ Len(Append(b, m)) = Len(b) + 1
      /\ Append(b, m)[Len(b) + 1] = m
      /\ \A i \in 1..Len(b) : Append(b, m)[i] = b[i]
  OBVIOUS
<1> DEFINE c == Append(b, m)
<1> HIDE DEF c
<1>3. /\ c \in Seq(Nat) /\ Len(c) = Len(b) + 1 /\ c[Len(b) + 1] = m
      /\ \A i \in 1..Len(b) : c[i] = b[i]
  BY <1>2 DEF c
<1>4. /\ a \o b \in Seq(Nat) /\ Len(a \o b) = Len(a) + Len(b)
      /\ \A i \in 1..Len(a)+Len(b) :
           (a \o b)[i] = IF i <= Len(a) THEN a[i] ELSE b[i - Len(a)]
  BY ConcatProperties
<1>5. /\ a \o c \in Seq(Nat) /\ Len(a \o c) = Len(a) + Len(c)
      /\ \A i \in 1..Len(a)+Len(c) :
           (a \o c)[i] = IF i <= Len(a) THEN a[i] ELSE c[i - Len(a)]
  BY <1>3, ConcatProperties
<1> DEFINE g == a \o b
           h == a \o c
<1> HIDE DEF g, h
<1>6. Len(h) = Len(g) + 1 /\ h[Len(g) + 1] = m
  BY <1>1, <1>3, <1>4, <1>5 DEF g, h
<1>7. ASSUME NEW i \in 1..Len(g)
      PROVE  h[i] = g[i]
  <2>1. /\ i \in Int /\ i \in 1..Len(a)+Len(b) /\ i \in 1..Len(a)+Len(c)
        /\ i > Len(a) => i - Len(a) \in 1..Len(b)
    BY <1>1, <1>3, <1>4 DEF g
  <2>2. /\ g[i] = IF i <= Len(a) THEN a[i] ELSE b[i - Len(a)]
        /\ h[i] = IF i <= Len(a) THEN a[i] ELSE c[i - Len(a)]
    BY <1>4, <1>5, <2>1 DEF g, h
  <2>3. CASE i <= Len(a)
    BY <2>2, <2>3
  <2>4. CASE i > Len(a)
    <3>1. c[i - Len(a)] = b[i - Len(a)]
      BY <1>3, <2>1, <2>4
    <3> QED
      BY <1>1, <2>1, <2>2, <2>4, <3>1
  <2> QED
    BY <1>1, <2>1, <2>3, <2>4
<1> QED
  BY <1>4, <1>5, <1>6, <1>7 DEF g, h, c, Extends

LEMMA QueueWritten ==
  ASSUME NEW a \in Seq(Nat), NEW b \in Seq(Nat), b # <<>>
  PROVE  /\ Append(a, Head(b)) \o Tail(b) = a \o b
         /\ a \o Tail(b) \in Seq(Nat) /\ a \o b \in Seq(Nat)
         /\ Len(a) + 1 \in 1..Len(a \o b) /\ (a \o b)[Len(a) + 1] = Head(b)
         /\ Skips(a \o Tail(b), a \o b, Len(a) + 1)
<1> DEFINE t == Tail(b)
           h == Head(b)
           d == Append(a, h)
<1>1. Len(a) \in Nat /\ Len(b) \in Nat /\ Len(b) >= 1
  BY LenProperties, EmptySeq
<1>2. /\ h \in Nat /\ t \in Seq(Nat) /\ Len(t) = Len(b) - 1
      /\ \A i \in 1..Len(t) : t[i] = b[i+1]
  BY HeadTailProperties
<1>3. h = b[1]
  BY <1>1
<1> HIDE DEF t, h
<1>4. /\ d \in Seq(Nat) /\ Len(d) = Len(a) + 1 /\ d[Len(a) + 1] = h
      /\ \A i \in 1..Len(a) : d[i] = a[i]
  BY <1>2
<1> HIDE DEF d
<1>5. /\ a \o b \in Seq(Nat) /\ Len(a \o b) = Len(a) + Len(b)
      /\ \A i \in 1..Len(a)+Len(b) :
           (a \o b)[i] = IF i <= Len(a) THEN a[i] ELSE b[i - Len(a)]
  BY ConcatProperties
<1>6. /\ a \o t \in Seq(Nat) /\ Len(a \o t) = Len(a) + Len(t)
      /\ \A i \in 1..Len(a)+Len(t) :
           (a \o t)[i] = IF i <= Len(a) THEN a[i] ELSE t[i - Len(a)]
  BY <1>2, ConcatProperties
<1>7. /\ d \o t \in Seq(Nat) /\ Len(d \o t) = Len(d) + Len(t)
      /\ \A i \in 1..Len(d)+Len(t) :
           (d \o t)[i] = IF i <= Len(d) THEN d[i] ELSE t[i - Len(d)]
  BY <1>2, <1>4, ConcatProperties
<1> DEFINE g == a \o b
           u == a \o t
           w == d \o t
<1> HIDE DEF g, u, w
<1>8. w = g
  <2>1. Len(w) = Len(g)
    BY <1>1, <1>2, <1>4, <1>5, <1>7 DEF g, w
  <2>2. ASSUME NEW i \in 1..Len(g)
        PROVE  w[i] = g[i]
    <3>1. CASE i <= Len(a)
      BY <1>1, <1>2, <1>4, <1>5, <1>7, <3>1 DEF g, w
    <3>2. CASE i = Len(a) + 1
      BY <1>1, <1>2, <1>3, <1>4, <1>5, <1>7, <3>2 DEF g, w
    <3>3. CASE i > Len(a) + 1
      <4>1. /\ i \in Int /\ i \in 1..Len(d)+Len(t) /\ i \in 1..Len(a)+Len(b)
            /\ i - Len(d) \in 1..Len(t) /\ (i - Len(d)) + 1 = i - Len(a)
        <5>1. i \in 1..Len(a)+Len(b)
          BY <1>5 DEF g
        <5>2. Len(t) = Len(b) - 1 /\ Len(d) = Len(a) + 1
          BY <1>2, <1>4
        <5> QED
          BY <1>1, <3>3, <5>1, <5>2
      <4>2. w[i] = t[i - Len(d)] /\ g[i] = b[i - Len(a)]
        <5>1. ~(i <= Len(d)) /\ ~(i <= Len(a))
          BY <1>1, <1>4, <3>3, <4>1
        <5>2. w[i] = IF i <= Len(d) THEN d[i] ELSE t[i - Len(d)]
          BY <1>7, <4>1 DEF w
        <5>3. g[i] = IF i <= Len(a) THEN a[i] ELSE b[i - Len(a)]
          BY <1>5, <4>1 DEF g
        <5> QED
          BY <5>1, <5>2, <5>3
      <4>3. t[i - Len(d)] = b[(i - Len(d)) + 1]
        BY <1>2, <4>1
      <4> QED
        BY <4>1, <4>2, <4>3
    <3> QED
      BY <1>1, <1>5, <3>1, <3>2, <3>3 DEF g
  <2>3. w \in Seq(Nat) /\ g \in Seq(Nat)
    BY <1>5, <1>7 DEF g, w
  <2> QED
    BY <2>1, <2>2, <2>3, SeqEqual
<1>9. Len(a) + 1 \in 1..Len(g) /\ g[Len(a) + 1] = h
  BY <1>1, <1>3, <1>5 DEF g
<1>10. Skips(u, g, Len(a) + 1)
  <2>1. Len(u) = Len(g) - 1
    BY <1>1, <1>2, <1>5, <1>6 DEF g, u
  <2>2. ASSUME NEW i \in 1..Len(u)
        PROVE  u[i] = IF i < Len(a) + 1 THEN g[i] ELSE g[i+1]
    <3>1. CASE i < Len(a) + 1
      BY <1>1, <1>2, <1>5, <1>6, <3>1 DEF g, u
    <3>2. CASE ~(i < Len(a) + 1)
      <4>1. /\ i \in Int /\ i \in 1..Len(a)+Len(t) /\ i + 1 \in 1..Len(a)+Len(b)
            /\ i - Len(a) \in 1..Len(t) /\ (i - Len(a)) + 1 = (i + 1) - Len(a)
        <5>1. i \in 1..Len(a)+Len(t)
          BY <1>6 DEF u
        <5>2. Len(t) = Len(b) - 1
          BY <1>2
        <5> QED
          BY <1>1, <3>2, <5>1, <5>2
      <4>2. u[i] = t[i - Len(a)] /\ g[i+1] = b[(i + 1) - Len(a)]
        <5>1. ~(i <= Len(a)) /\ ~(i + 1 <= Len(a))
          BY <1>1, <3>2, <4>1
        <5>2. u[i] = IF i <= Len(a) THEN a[i] ELSE t[i - Len(a)]
          BY <1>6, <4>1 DEF u
        <5>3. g[i+1] = IF i + 1 <= Len(a) THEN a[i+1] ELSE b[(i + 1) - Len(a)]
          BY <1>5, <4>1 DEF g
        <5> QED
          BY <5>1, <5>2, <5>3
      <4>3. t[i - Len(a)] = b[(i - Len(a)) + 1]
        BY <1>2, <4>1
      <4> QED
        BY <3>2, <4>1, <4>2, <4>3
    <3> QED
      BY <3>1, <3>2
  <2> QED
    BY <2>1, <2>2 DEF Skips
<1> QED
  BY <1>5, <1>6, <1>8, <1>9, <1>10 DEF g, u, w, d, h, t

\* A broadcast reaches exactly the clients that are members afterwards.
LEMMA DispatchOut ==
  ASSUME NEW r, RoomOK(r), NEW m \in Nat, NEW c \in Clients
  PROVE  dispatch(r, m).out[c] = IF c \in dispatch(r, m).members
                                 THEN Append(r.out[c], m) ELSE r.out[c]
<1> DEFINE slow == {b \in r.members : Full(r, b)}
           out == [b \in Clients |-> IF b \in r.members \ slow
                                     THEN Append(r.out[b], m) ELSE r.out[b]]
           s == [r EXCEPT !.out = out]
<1>1. /\ r \in RoomType /\ r.members \in SUBSET Clients
      /\ r.out \in [Clients -> Seq(Nat)]
  BY DEF RoomOK, RoomType
<1>2. dispatch(r, m) = removeClients(s, slow)
  BY DEF dispatch
<1>3. ASSUME NEW b \in Clients
      PROVE  out[b] \in Seq(Nat)
  <2>1. r.out[b] \in Seq(Nat)
    BY <1>1
  <2>2. Append(r.out[b], m) \in Seq(Nat)
    BY <2>1
  <2> QED
    BY <2>1, <2>2
<1>4. /\ out \in [Clients -> Seq(Nat)] /\ slow \in SUBSET Clients
      /\ out[c] = IF c \in r.members \ slow THEN Append(r.out[c], m) ELSE r.out[c]
  BY <1>1, <1>3
<1> HIDE DEF out, slow
<1>5. s \in RoomType /\ s.out = out /\ s.members = r.members
  BY <1>1, <1>4 DEF RoomType
<1> HIDE DEF s
<1>6. /\ removeClients(s, slow).out = s.out
      /\ removeClients(s, slow).members = s.members \ slow
  BY <1>4, <1>5, RemoveFields
<1> QED
  BY <1>2, <1>4, <1>5, <1>6

\* What was given is a sequence of numbers.
LEMMA GivenTyped ==
  ASSUME RoomInv, NEW c \in Clients
  PROVE  /\ got[c] \in Seq(Nat) /\ room.out[c] \in Seq(Nat)
         /\ Given(c) \in Seq(Nat) /\ Given(c) = got[c] \o room.out[c]
<1>1. got[c] \in Seq(Nat) /\ room.out[c] \in Seq(Nat)
  BY RoomTyped DEF RoomInv, TypeOK
<1> QED
  BY <1>1, ConcatProperties DEF Given

\* A step that neither queues nor writes a message.
LEMMA QuietFlow ==
  ASSUME RoomInv, FlowInv, UNCHANGED <<got, history, lastId>>,
         room'.out = room.out, Position',
         \A c \in Clients : Whole(c)' => Whole(c),
         \A c \in Clients : Queued(c)' \/ reader'[c] = "none" =>
                            Queued(c) \/ reader[c] = "none",
         \A c \in Clients : Whole(c) /\ c \in room'.members =>
                            UpTo(Given(c), lastId),
         \A c \in Clients : Whole(c) /\ InHand(c)' => UpTo(Given(c), Delivered')
  PROVE  FlowInv'
<1>1. HistoryWhole'
  BY DEF FlowInv, HistoryWhole
<1>2. \A c \in Clients : Given(c)' = Given(c)
  BY DEF Given
<1>3. ASSUME NEW c \in Clients
      PROVE  /\ Queued(c)' \/ reader'[c] = "none" =>
                  got'[c] = <<>> /\ room'.out[c] = <<>>
             /\ Whole(c)' =>
                  /\ Contiguous(Given(c)')
                  /\ c \in room'.members => UpTo(Given(c)', lastId')
                  /\ InHand(c)' => UpTo(Given(c)', Delivered')
  BY <1>2 DEF FlowInv, Flow
<1>4. Flow'
  BY <1>3 DEF Flow, Contiguous, UpTo
<1> QED
  BY <1>1, <1>4 DEF FlowInv

\* A step of the actor that queues m for some or all of the members.
LEMMA OutFlow ==
  ASSUME RoomInv, RoomInv', FlowInv, UNCHANGED <<serve, reader, got, joinQ>>,
         HistoryWhole', Position', pc' # "backlog", NEW m \in Nat,
         \A c \in Clients :
           \/ room'.out[c] = room.out[c]
           \/ c \in room'.members /\ room'.out[c] = Append(room.out[c], m),
         \A c \in Clients : Whole(c) /\ c \in room'.members =>
                            UpTo(Given(c), lastId),
         \/ m = Notice /\ lastId' = lastId
         \/ /\ m = lastId + 1 /\ lastId' = lastId + 1
            /\ \A c \in room'.members : room'.out[c] = Append(room.out[c], m)
  PROVE  FlowInv'
<1>1. lastId \in Nat
  BY DEF RoomInv, TypeOK
<1>2. ASSUME NEW c \in Clients, Queued(c)' \/ reader'[c] = "none"
      PROVE  got'[c] = <<>> /\ room'.out[c] = <<>>
  <2>1. Queued(c) \/ reader[c] = "none"
    BY <1>2 DEF Queued
  <2>2. c \notin room'.members
    BY <1>2 DEF RoomInv, JoinsOnce
  <2> QED
    BY <2>1, <2>2 DEF FlowInv, Flow
<1>3. ASSUME NEW c \in Clients, Whole(c)'
      PROVE  /\ Contiguous(Given(c)')
             /\ c \in room'.members => UpTo(Given(c)', lastId')
  <2>1. Whole(c) /\ Contiguous(Given(c))
    BY <1>3 DEF Whole, FlowInv, Flow
  <2>2. Given(c)' = got[c] \o room'.out[c]
    BY DEF Given
  <2>3. CASE room'.out[c] = room.out[c]
    <3>1. Given(c)' = Given(c)
      BY <2>2, <2>3 DEF Given
    <3>2. ASSUME c \in room'.members
          PROVE  UpTo(Given(c), lastId')
      <4>1. CASE lastId' = lastId
        BY <2>1, <3>2, <4>1
      <4>2. CASE room'.out[c] = Append(room.out[c], m)
        <5>1. Len(Append(room.out[c], m)) = Len(room.out[c]) + 1
              /\ Len(room.out[c]) \in Nat
          BY GivenTyped
        <5> QED
          BY <2>3, <4>2, <5>1
      <4> QED
        BY <3>2, <4>1, <4>2
    <3> QED
      BY <2>1, <3>1, <3>2
  <2>4. CASE c \in room'.members /\ room'.out[c] = Append(room.out[c], m)
    <3> DEFINE g == Given(c)
               h == got[c] \o Append(room.out[c], m)
    <3>1. g \in Seq(Nat) /\ h \in Seq(Nat) /\ Extends(h, g, m)
      <4>1. got[c] \in Seq(Nat) /\ room.out[c] \in Seq(Nat)
        BY GivenTyped
      <4> QED
        BY <4>1, QueueAppended DEF Given
    <3>2. Given(c)' = h
      BY <2>2, <2>4
    <3>3. Contiguous(g) /\ UpTo(g, lastId)
      BY <2>1, <2>4
    <3> HIDE DEF g, h
    <3>4. CASE m = Notice /\ lastId' = lastId
      <4>1. Extends(h, g, Notice)
        BY <3>1, <3>4
      <4>2. Contiguous(h) /\ UpTo(h, lastId)
        BY <1>1, <3>1, <3>3, <4>1, NoticeAppended
      <4> QED
        BY <3>2, <3>4, <4>2
    <3>5. CASE m = lastId + 1 /\ lastId' = lastId + 1
      <4>1. m # 0 /\ lastId' = m
        BY <1>1, <3>5
      <4>2. Contiguous(h) /\ UpTo(h, m)
        BY <1>1, <3>1, <3>3, <3>5, <4>1, ChatAppended
      <4> QED
        BY <3>2, <4>1, <4>2
    <3> QED
      BY <3>4, <3>5
  <2> QED
    BY <2>3, <2>4
<1>4. \A c \in Clients : ~InHand(c)'
  BY DEF InHand
<1>5. Flow'
  BY <1>2, <1>3, <1>4 DEF Flow, Contiguous, UpTo
<1> QED
  BY <1>5 DEF FlowInv

LEMMA FlowInit == Init => FlowInv
<1> SUFFICES ASSUME Init
             PROVE  FlowInv
  OBVIOUS
<1>1. Len(history) = 0 /\ lastId = 0 /\ pos = 1 /\ pc = "select"
  BY DEF Init
<1>2. HistoryWhole /\ Position
  BY <1>1 DEF HistoryWhole, Position
<1>3. ASSUME NEW c \in Clients
      PROVE  /\ got[c] = <<>> /\ room.out[c] = <<>> /\ c \notin room.members
             /\ ~InHand(c) /\ Contiguous(Given(c))
  <2>1. got[c] = <<>> /\ room.out[c] = <<>> /\ c \notin room.members
    BY DEF Init
  <2>2. Given(c) = <<>> /\ Len(<<>>) = 0
    BY <2>1 DEF Given
  <2>3. Contiguous(<<>>)
    BY <2>2 DEF Contiguous
  <2> QED
    BY <1>1, <2>1, <2>2, <2>3 DEF InHand
<1> QED
  BY <1>2, <1>3 DEF FlowInv, Flow

\* A step of a connection other than a write.
LEMMA ConnFlow ==
  ASSUME RoomInv, FlowInv,
         UNCHANGED <<got, room, pc, cur, pos, history, lastId>>,
         \A c \in Clients : Whole(c)' => Whole(c),
         \A c \in Clients : Queued(c)' \/ reader'[c] = "none" =>
                            Queued(c) \/ reader[c] = "none"
  PROVE  FlowInv'
<1>1. Position'
  BY DEF FlowInv, Position
<1>2. Delivered' = Delivered
  BY DEF Delivered
<1>3. \A c \in Clients : Whole(c) /\ c \in room'.members => UpTo(Given(c), lastId)
  BY DEF FlowInv, Flow
<1>4. \A c \in Clients : Whole(c) /\ InHand(c)' => UpTo(Given(c), Delivered')
  BY <1>2 DEF FlowInv, Flow, InHand
<1> QED
  BY <1>1, <1>3, <1>4, QuietFlow

LEMMA ConnStepFlow ==
  ASSUME RoomInv, FlowInv, NEW c \in Clients,
         \/ Connect(c) \/ JoinCancelled(c) \/ WriterDrained(c) \/ CloseConn(c)
         \/ ReadMessage(c) \/ SendInbound(c) \/ SendCancelled(c)
         \/ WriterLeaves(c) \/ ReadFails(c)
  PROVE  FlowInv'
<1>1. UNCHANGED <<got, joinQ, room, pc, cur, pos, history, lastId>>
  BY DEF Connect, JoinCancelled, WriterDrained, CloseConn, ReadMessage,
         SendInbound, SendCancelled, WriterLeaves, ReadFails, queue, actor, log
<1>2. /\ \/ serve' = serve
         \/ serve[c] = "new" /\ serve' = [serve EXCEPT ![c] = "joining"]
         \/ serve' = [serve EXCEPT ![c] = "gone"]
         \/ serve' = [serve EXCEPT ![c] = "bye"]
         \/ serve' = [serve EXCEPT ![c] = "close"]
      /\ \/ reader' = reader
         \/ reader' = [reader EXCEPT ![c] = "send"]
         \/ reader' = [reader EXCEPT ![c] = "read"]
         \/ reader' = [reader EXCEPT ![c] = "gone"]
  BY DEF Connect, JoinCancelled, WriterDrained, CloseConn, ReadMessage,
         SendInbound, SendCancelled, WriterLeaves, ReadFails
<1>3. /\ serve \in [Clients -> {"new", "joining", "write", "bye", "close", "gone"}]
      /\ reader \in [Clients -> {"none", "read", "send", "gone"}]
  BY DEF RoomInv, TypeOK
<1>4. \A d \in Clients : Whole(d)' => Whole(d)
  BY <1>2, <1>3 DEF Whole
<1>5. \A d \in Clients : reader'[d] = "none" => reader[d] = "none"
  BY <1>2, <1>3
<1>6. \A d \in Clients : Queued(d)' => Queued(d)
  BY <1>1 DEF Queued
<1> QED
  BY <1>1, <1>4, <1>5, <1>6, ConnFlow

LEMMA JoinSentFlow ==
  ASSUME RoomInv, FlowInv, NEW c \in Clients, JoinSent(c)
  PROVE  FlowInv'
<1>1. /\ UNCHANGED <<got, room, pc, cur, pos, history, lastId>>
      /\ serve[c] = "joining" /\ joinQ' = Append(joinQ, c)
      /\ serve' = [serve EXCEPT ![c] = "write"]
      /\ reader' = [reader EXCEPT ![c] = "read"]
  BY DEF JoinSent, actor, log
<1>2. /\ serve \in [Clients -> {"new", "joining", "write", "bye", "close", "gone"}]
      /\ reader \in [Clients -> {"none", "read", "send", "gone"}]
      /\ joinQ \in Seq(Clients)
  BY DEF RoomInv, TypeOK
<1>3. /\ Len(joinQ') = Len(joinQ) + 1 /\ Len(joinQ) \in Nat
      /\ joinQ'[Len(joinQ) + 1] = c
      /\ \A i \in 1..Len(joinQ) : joinQ'[i] = joinQ[i]
  BY <1>1, <1>2, AppendQ
<1>4. reader[c] = "none"
  BY <1>1 DEF RoomInv, Started
<1>5. \A d \in Clients : Queued(d)' => Queued(d) \/ d = c
  BY <1>3 DEF Queued
<1>6. \A d \in Clients : reader'[d] = "none" => reader[d] = "none"
  BY <1>1, <1>2
<1>7. \A d \in Clients : Whole(d)' => Whole(d)
  BY <1>1, <1>2 DEF Whole
<1> QED
  BY <1>1, <1>4, <1>5, <1>6, <1>7, ConnFlow

\* The writer: what was given stays the same, a written notice apart.
LEMMA WriteFlow ==
  ASSUME RoomInv, FlowInv, NEW c \in Clients, NEW ok \in BOOLEAN, WriteOne(c, ok)
  PROVE  FlowInv'
<1>1. /\ UNCHANGED <<joinQ, pc, cur, pos, history, lastId, reader>>
      /\ serve[c] = "write" /\ room.out[c] # <<>>
      /\ room' = [room EXCEPT !.out[c] = Tail(room.out[c])]
      /\ serve' = [serve EXCEPT ![c] = IF ok THEN "write" ELSE "bye"]
      /\ got' = IF ok /\ Head(room.out[c]) # Notice
                THEN [got EXCEPT ![c] = Append(got[c], Head(room.out[c]))]
                ELSE got
  BY DEF WriteOne, queue, actor, log
<1>2. /\ RoomOK(room) /\ got \in [Clients -> Seq(Nat)]
      /\ room.out \in [Clients -> Seq(Nat)]
      /\ serve \in [Clients -> {"new", "joining", "write", "bye", "close", "gone"}]
  BY RoomTyped DEF RoomInv, TypeOK
<1> DEFINE a == got[c]
           b == room.out[c]
           g == a \o b
           u == a \o Tail(b)
<1>3. a \in Seq(Nat) /\ b \in Seq(Nat) /\ b # <<>> /\ Given(c) = g
  BY <1>1, <1>2 DEF Given
<1>4. /\ room'.members = room.members
      /\ room'.out = [room.out EXCEPT ![c] = Tail(b)]
  <2> DEFINE t == Tail(b)
  <2>1. /\ t \in Seq(Nat) /\ Len(t) = Len(b) - 1 /\ Len(b) \in Nat
    BY <1>3, HeadTailProperties, LenProperties
  <2>2. Len(t) <= SendBuffer
    BY <1>2, <2>1, ConstantsAssumption DEF RoomOK
  <2>3. room' = [room EXCEPT !.out[c] = t]
    BY <1>1
  <2> HIDE DEF t
  <2>4. /\ room'.members = room.members
        /\ room'.out = [room.out EXCEPT ![c] = t]
    BY <1>2, <2>1, <2>2, <2>3, QueueUpdate
  <2> QED
    BY <2>4 DEF t
<1>5. room'.out[c] = Tail(b)
  BY <1>2, <1>4
<1>6. HistoryWhole' /\ Position' /\ Delivered' = Delivered
  BY <1>1 DEF FlowInv, HistoryWhole, Position, Delivered
<1>7. ASSUME NEW d \in Clients, d # c
      PROVE  /\ got'[d] = got[d] /\ room'.out[d] = room.out[d]
             /\ Given(d)' = Given(d) /\ (Whole(d)' => Whole(d))
  <2>1. got'[d] = got[d] /\ room'.out[d] = room.out[d] /\ serve'[d] = serve[d]
    BY <1>1, <1>2, <1>4, <1>7
  <2> QED
    BY <2>1 DEF Given, Whole
<1>8. \A d \in Clients : (Queued(d)' <=> Queued(d)) /\ (InHand(d)' <=> InHand(d))
  BY <1>1 DEF Queued, InHand
<1>9. ~Queued(c) /\ reader[c] # "none" /\ Whole(c)
  BY <1>1 DEF FlowInv, Flow, Whole
<1>10. /\ g \in Seq(Nat) /\ u \in Seq(Nat) /\ Append(a, Head(b)) \o Tail(b) = g
       /\ Len(a) + 1 \in 1..Len(g) /\ g[Len(a) + 1] = Head(b)
       /\ Skips(u, g, Len(a) + 1)
  BY <1>3, QueueWritten
<1>11. Contiguous(g)
  BY <1>3, <1>9 DEF FlowInv, Flow
<1>12. lastId \in Nat /\ (InHand(c) => Delivered \in Nat)
  <2>1. lastId \in Nat /\ history \in Seq(Nat) /\ pos \in Nat \ {0}
    BY DEF RoomInv, TypeOK
  <2>2. ASSUME InHand(c), pos # 1
        PROVE  history[pos - 1] \in Nat
    <3>1. pos - 1 \in 1..Len(history)
      BY <2>1, <2>2 DEF FlowInv, Position, InHand
    <3> QED
      BY <2>1, <3>1, ElementOfSeq
  <2> QED
    BY <2>1, <2>2 DEF Delivered
<1>13. ASSUME Whole(c)'
       PROVE  /\ Contiguous(Given(c)')
              /\ \A n \in Nat : UpTo(g, n) => UpTo(Given(c)', n)
  <2>1. ok
    BY <1>1, <1>2, <1>13 DEF Whole
  <2>2. CASE Head(b) # Notice
    <3>1. got'[c] = Append(a, Head(b))
      BY <1>1, <1>2, <2>1, <2>2
    <3>2. Given(c)' = g
      BY <1>5, <1>10, <3>1 DEF Given
    <3> QED
      BY <1>11, <3>2
  <2>3. CASE Head(b) = Notice
    <3>1. got'[c] = a
      BY <1>1, <2>3
    <3>2. Given(c)' = u
      BY <1>5, <3>1 DEF Given
    <3>3. g[Len(a) + 1] = Notice
      BY <1>10, <2>3
    <3>4. PICK p \in 1..Len(g) : p = Len(a) + 1
      BY <1>10
    <3>5. g[p] = Notice /\ Skips(u, g, p)
      BY <1>10, <3>3, <3>4
    <3> HIDE DEF a, b, g, u
    <3>6. Contiguous(u) /\ \A n \in Nat : UpTo(g, n) => UpTo(u, n)
      BY <1>10, <1>11, <3>5, NoticeDropped
    <3> QED
      BY <3>2, <3>6
  <2> QED
    BY <2>2, <2>3
<1> HIDE DEF a, b, g, u
<1>14. ASSUME NEW d \in Clients
       PROVE  /\ Queued(d)' \/ reader'[d] = "none" =>
                   got'[d] = <<>> /\ room'.out[d] = <<>>
              /\ Whole(d)' =>
                   /\ Contiguous(Given(d)')
                   /\ d \in room'.members => UpTo(Given(d)', lastId')
                   /\ InHand(d)' => UpTo(Given(d)', Delivered')
  <2>1. CASE d = c
    <3>1. ~(Queued(d)' \/ reader'[d] = "none")
      BY <1>1, <1>8, <1>9, <2>1
    <3>2. /\ c \in room'.members => UpTo(g, lastId)
          /\ InHand(c)' => UpTo(g, Delivered)
      BY <1>3, <1>4, <1>8, <1>9 DEF FlowInv, Flow
    <3>3. /\ lastId' = lastId /\ Delivered' = Delivered
          /\ InHand(c)' => InHand(c)
      BY <1>1, <1>6, <1>8
    <3> QED
      BY <1>12, <1>13, <2>1, <3>1, <3>2, <3>3
  <2>2. CASE d # c
    <3>1. /\ Queued(d) \/ reader[d] = "none" => got[d] = <<>> /\ room.out[d] = <<>>
          /\ Whole(d) => /\ Contiguous(Given(d))
                         /\ d \in room.members => UpTo(Given(d), lastId)
                         /\ InHand(d) => UpTo(Given(d), Delivered)
      BY DEF FlowInv, Flow
    <3> QED
      BY <1>1, <1>4, <1>6, <1>7, <1>8, <2>2, <3>1
  <2> QED
    BY <2>1, <2>2
<1>15. Flow'
  BY <1>14 DEF Flow, Contiguous, UpTo
<1> QED
  BY <1>6, <1>15 DEF FlowInv

LEMMA RecvJoinFlow ==
  ASSUME RoomInv, FlowInv, RecvJoin
  PROVE  FlowInv'
<1>1. /\ pc = "select" /\ joinQ # <<>> /\ cur' = Head(joinQ)
      /\ joinQ' = Tail(joinQ) /\ pc' = "backlog"
      /\ UNCHANGED <<serve, reader, got, pos, room, history, lastId>>
  BY DEF RecvJoin, conns, log
<1>2. joinQ \in Seq(Clients) /\ history \in Seq(Nat) /\ Len(history) \in Nat
  BY LenProperties DEF RoomInv, TypeOK
<1>3. /\ cur' \in Clients /\ cur' = joinQ[1]
      /\ Len(joinQ) \in Nat /\ Len(joinQ) >= 1 /\ Len(joinQ') = Len(joinQ) - 1
      /\ \A i \in 1..Len(joinQ') : joinQ'[i] = joinQ[i+1]
  BY <1>1, <1>2, TailQ
<1>4. /\ 1 \in 1..Len(joinQ)
      /\ \A i \in 1..Len(joinQ') : i + 1 \in 1..Len(joinQ)
  BY <1>3
<1>5. \A c \in Clients : Queued(c)' => Queued(c)
  BY <1>3, <1>4 DEF Queued
<1>6. pos = 1 /\ pos' = 1
  BY <1>1 DEF FlowInv, Position
<1>7. Position'
  BY <1>1, <1>2, <1>6 DEF Position
<1>8. ASSUME NEW c \in Clients, InHand(c)'
      PROVE  UpTo(Given(c), Delivered')
  <2>1. Queued(c)
    BY <1>3, <1>4, <1>8 DEF InHand, Queued
  <2>2. got[c] = <<>> /\ room.out[c] = <<>>
    BY <2>1 DEF FlowInv, Flow
  <2>3. Given(c) = <<>> /\ Len(<<>>) = 0
    BY <2>2 DEF Given
  <2>4. Delivered' = 0
    BY <1>6 DEF Delivered
  <2>5. UpTo(<<>>, 0)
    BY <2>3 DEF UpTo
  <2> QED
    BY <2>3, <2>4, <2>5
<1>9. \A c \in Clients : Whole(c) /\ c \in room'.members => UpTo(Given(c), lastId)
  BY <1>1 DEF FlowInv, Flow
<1>10. \A c \in Clients : Whole(c)' => Whole(c)
  BY <1>1 DEF Whole
<1> QED
  BY <1>1, <1>5, <1>7, <1>8, <1>9, <1>10, QuietFlow

\* The backlog: each message of the history follows the one before it.
LEMMA DeliverBacklogFlow ==
  ASSUME RoomInv, FlowInv, DeliverBacklog
  PROVE  FlowInv'
<1>1. /\ pc = "backlog" /\ pos <= Len(history)
      /\ UNCHANGED <<serve, reader, got, joinQ, history, lastId>>
  BY DEF DeliverBacklog, conns, queue, log
<1>2. /\ cur \in Clients /\ ~Queued(cur) /\ reader[cur] # "none"
      /\ cur \notin room.members
  BY <1>1 DEF RoomInv, JoinsOnce, InHand
<1>3. /\ RoomOK(room) /\ room \in RoomType /\ room.out \in [Clients -> Seq(Nat)]
      /\ pos \in Nat \ {0} /\ history \in Seq(Nat) /\ Len(history) \in Nat
      /\ lastId \in Nat
  BY RoomTyped, LenProperties DEF RoomInv, TypeOK
<1>4. /\ \A c \in Clients : (Whole(c)' <=> Whole(c)) /\ (Queued(c)' <=> Queued(c))
      /\ \A c \in Clients : Whole(c) /\ c \in room.members => UpTo(Given(c), lastId)
  BY <1>1 DEF Whole, Queued, FlowInv, Flow
<1>5. CASE cur \in room.shut /\ pc' = "panic_send"
           /\ UNCHANGED <<cur, pos, changed, room>>
  <2>1. Position' /\ \A c \in Clients : ~InHand(c)'
    BY <1>5 DEF Position, InHand
  <2> QED
    BY <1>1, <1>4, <1>5, <2>1, QuietFlow
<1>6. CASE /\ cur \notin room.shut /\ Full(room, cur)
           /\ room' = [room EXCEPT !.shut = @ \cup {cur}]
           /\ pc' = "select" /\ EndBranch
  <2>1. Position' /\ \A c \in Clients : ~InHand(c)'
    BY <1>6 DEF Position, InHand, EndBranch
  <2>2. room'.members = room.members /\ room'.out = room.out
    BY <1>3, <1>6 DEF RoomType
  <2> QED
    BY <1>1, <1>4, <2>1, <2>2, QuietFlow
<1>7. CASE /\ cur \notin room.shut /\ ~Full(room, cur)
           /\ room' = [room EXCEPT !.out[cur] = Append(room.out[cur], history[pos])]
           /\ pos' = pos + 1
           /\ UNCHANGED <<pc, cur, changed>>
  <2> DEFINE m == history[pos]
             t == Append(room.out[cur], m)
             g == Given(cur)
             h == got[cur] \o t
  <2>1. /\ m \in Nat /\ m = lastId - Len(history) + pos /\ m # 0
        /\ pos # 1 => history[pos - 1] \in Nat /\ m = history[pos - 1] + 1
    <3>1. pos \in 1..Len(history) /\ (pos # 1 => pos - 1 \in 1..Len(history))
      BY <1>1, <1>3
    <3>2. /\ m = lastId - Len(history) + pos
          /\ pos # 1 => history[pos - 1] = lastId - Len(history) + (pos - 1)
      BY <3>1 DEF FlowInv, HistoryWhole
    <3>3. m \in Nat /\ (pos # 1 => history[pos - 1] \in Nat)
      BY <1>3, <3>1, ElementOfSeq
    <3>4. Len(history) <= lastId
      BY DEF FlowInv, HistoryWhole
    <3> HIDE DEF m
    <3>5. m # 0
      BY <1>3, <3>1, <3>2, <3>4
    <3>6. pos # 1 => m = history[pos - 1] + 1
      BY <1>3, <3>1, <3>2, <3>3
    <3> QED
      BY <3>2, <3>3, <3>5, <3>6
  <2> HIDE DEF m
  <2>2. t \in Seq(Nat) /\ Len(t) <= SendBuffer
    <3>1. /\ room.out[cur] \in Seq(Nat) /\ Len(room.out[cur]) \in Nat
          /\ Len(t) = Len(room.out[cur]) + 1 /\ SendBuffer \in Nat
      BY <1>2, <1>3, <2>1, ConstantsAssumption
    <3> QED
      BY <1>7, <2>1, <3>1 DEF Full
  <2>3. /\ room'.members = room.members
        /\ room'.out = [room.out EXCEPT ![cur] = t]
    <3>1. room' = [room EXCEPT !.out[cur] = t]
      BY <1>7 DEF m
    <3> HIDE DEF t
    <3> QED
      BY <1>2, <1>3, <2>2, <3>1, QueueUpdate
  <2>4. g \in Seq(Nat) /\ h \in Seq(Nat) /\ Extends(h, g, m)
    <3>1. got[cur] \in Seq(Nat) /\ room.out[cur] \in Seq(Nat) /\ m \in Nat
      BY <1>2, <2>1, GivenTyped
    <3> QED
      BY <3>1, QueueAppended DEF Given
  <2>5. Given(cur)' = h
    BY <1>1, <1>2, <1>3, <1>7, <2>3 DEF Given
  <2>6. Delivered' = m
    BY <1>1, <1>3, <1>7 DEF Delivered, m
  <2>7. Whole(cur) => Contiguous(h) /\ UpTo(h, m)
    <3> SUFFICES ASSUME Whole(cur)
                 PROVE  Contiguous(h) /\ UpTo(h, m)
      OBVIOUS
    <3>1. Contiguous(g) /\ UpTo(g, Delivered)
      BY <1>1, <1>2 DEF FlowInv, Flow, InHand
    <3>2. PICK n \in Nat : n = Delivered /\ (n = 0 \/ m = n + 1)
      BY <2>1 DEF Delivered
    <3> HIDE DEF g, h, t
    <3> QED
      BY <2>1, <2>4, <3>1, <3>2, ChatAppended
  <2> HIDE DEF t, g, h
  <2>8. HistoryWhole' /\ Position'
    BY <1>1, <1>3, <1>7 DEF FlowInv, HistoryWhole, Position
  <2>9. ASSUME NEW c \in Clients, c # cur
        PROVE  /\ got'[c] = got[c] /\ room'.out[c] = room.out[c]
               /\ Given(c)' = Given(c) /\ ~InHand(c)'
    <3>1. got'[c] = got[c] /\ room'.out[c] = room.out[c]
      BY <1>1, <1>3, <2>3, <2>9
    <3> QED
      BY <1>7, <2>9, <3>1 DEF Given, InHand
  <2>10. ASSUME NEW c \in Clients
         PROVE  /\ Queued(c)' \/ reader'[c] = "none" =>
                     got'[c] = <<>> /\ room'.out[c] = <<>>
                /\ Whole(c)' =>
                     /\ Contiguous(Given(c)')
                     /\ c \in room'.members => UpTo(Given(c)', lastId')
                     /\ InHand(c)' => UpTo(Given(c)', Delivered')
    <3>1. CASE c = cur
      <4>1. /\ ~(Queued(c)' \/ reader'[c] = "none") /\ c \notin room'.members
            /\ Whole(c)' => Whole(cur)
        BY <1>1, <1>2, <1>4, <2>3, <3>1
      <4>2. Given(c)' = h
        BY <1>7, <2>5, <3>1 DEF Given
      <4> QED
        BY <2>6, <2>7, <4>1, <4>2
    <3>2. CASE c # cur
      <4>1. /\ Queued(c) \/ reader[c] = "none" => got[c] = <<>> /\ room.out[c] = <<>>
            /\ Whole(c) => Contiguous(Given(c))
        BY DEF FlowInv, Flow
      <4> QED
        BY <1>1, <1>4, <2>3, <2>9, <3>2, <4>1
    <3> QED
      BY <3>1, <3>2
  <2>11. Flow'
    BY <2>10 DEF Flow, Contiguous, UpTo
  <2> QED
    BY <2>8, <2>11 DEF FlowInv
<1> QED
  BY <1>5, <1>6, <1>7 DEF DeliverBacklog

\* Who gets a broadcast.
LEMMA DispatchGives ==
  ASSUME NEW r, RoomOK(r), NEW m \in Nat, NEW next, DispatchThen(r, m, next)
  PROVE  /\ pc' \in {next, "panic_send"} /\ room'.members \subseteq r.members
         /\ \A c \in Clients :
              \/ room'.out[c] = r.out[c]
              \/ c \in room'.members /\ room'.out[c] = Append(r.out[c], m)
         /\ r.members \cap r.shut = {} =>
              /\ pc' = next
              /\ \A c \in room'.members : room'.out[c] = Append(r.out[c], m)
<1>1. CASE r.members \cap r.shut = {}
  <2>1. room' = dispatch(r, m) /\ pc' = next
    BY <1>1 DEF DispatchThen
  <2>2. room'.members \subseteq r.members /\ room'.members \subseteq Clients
    BY <2>1, DispatchEvicts DEF Evicted, RoomOK, RoomType
  <2>3. \A c \in Clients : room'.out[c] = IF c \in room'.members
                                          THEN Append(r.out[c], m) ELSE r.out[c]
    BY <2>1, DispatchOut
  <2> QED
    BY <2>1, <2>2, <2>3
<1>2. CASE r.members \cap r.shut # {}
  BY <1>2 DEF DispatchThen
<1> QED
  BY <1>1, <1>2

\* The client that registers has been given the whole history.
LEMMA RegisterFlow ==
  ASSUME RoomInv, RoomInv', FlowInv, Register
  PROVE  FlowInv'
<1> DEFINE e == Enter(room, cur)
<1>1. /\ pc = "backlog" /\ pos > Len(history)
      /\ \/ DispatchThen(e, Notice, "joined")
         \/ room' = e /\ pc' = "joined"
      /\ UNCHANGED <<serve, reader, got, joinQ, pos, history, lastId>>
  BY DEF Register, conns, queue, log
<1>2. cur \in Clients
  BY <1>1 DEF RoomInv, JoinsOnce
<1>3. /\ RoomOK(room) /\ pos \in Nat \ {0} /\ Len(history) \in Nat /\ lastId \in Nat
  BY RoomTyped, LenProperties DEF RoomInv, TypeOK
<1>4. RoomOK(e) /\ e.members = room.members \cup {cur} /\ e.out = room.out
  BY <1>2, <1>3, EnterFields
<1> HIDE DEF e
<1>5. /\ pc' \in {"joined", "panic_send"} /\ room'.members \subseteq e.members
      /\ \A c \in Clients :
           \/ room'.out[c] = room.out[c]
           \/ c \in room'.members /\ room'.out[c] = Append(room.out[c], Notice)
  <2>1. CASE DispatchThen(e, Notice, "joined")
    <3>1. Notice \in Nat
      BY DEF Notice
    <3> QED
      BY <1>4, <2>1, <3>1, DispatchGives
  <2>2. CASE room' = e /\ pc' = "joined"
    BY <1>4, <2>2
  <2> QED
    BY <1>1, <2>1, <2>2
<1>6. Delivered = lastId
  <2>1. pos = Len(history) + 1 /\ pos - 1 = Len(history)
    BY <1>1, <1>3 DEF FlowInv, Position
  <2>2. CASE Len(history) = 0
    BY <1>3, <2>1, <2>2 DEF FlowInv, HistoryWhole, Delivered
  <2>3. CASE Len(history) # 0
    <3>1. Len(history) \in 1..Len(history) /\ pos # 1
      BY <1>3, <2>1, <2>3
    <3>2. history[Len(history)] = lastId - Len(history) + Len(history)
      BY <3>1 DEF FlowInv, HistoryWhole
    <3> QED
      BY <1>3, <2>1, <3>1, <3>2 DEF Delivered
  <2> QED
    BY <2>2, <2>3
<1>7. \A c \in Clients : Whole(c) /\ c \in room'.members => UpTo(Given(c), lastId)
  BY <1>1, <1>4, <1>5, <1>6 DEF FlowInv, Flow, InHand
<1>8. HistoryWhole' /\ Position' /\ pc' # "backlog"
  BY <1>1, <1>5 DEF FlowInv, HistoryWhole, Position
<1>9. PICK m \in Nat : m = Notice
  BY DEF Notice
<1> QED
  BY <1>1, <1>5, <1>7, <1>8, <1>9, OutFlow

\* The broadcasts of the counts, and the count told to a new tab.
LEMMA CountFlow ==
  ASSUME RoomInv, RoomInv', FlowInv, JoinCount \/ LeaveCount
  PROVE  FlowInv'
<1>1. /\ EndBranch /\ UNCHANGED <<serve, reader, got, joinQ, history, lastId>>
      /\ \/ DispatchThen(room, Notice, "select")
         \/ pc' = "select" /\ room' = room
         \/ pc = "joined" /\ ~changed /\ TellOne(cur)
  BY DEF JoinCount, LeaveCount, Announce, conns, queue, log
<1>2. RoomOK(room)
  BY RoomTyped
<1>3. /\ pc' \in {"select", "panic_send"} /\ room'.members \subseteq room.members
      /\ \A c \in Clients :
           \/ room'.out[c] = room.out[c]
           \/ c \in room'.members /\ room'.out[c] = Append(room.out[c], Notice)
  <2>1. CASE DispatchThen(room, Notice, "select")
    <3>1. Notice \in Nat
      BY DEF Notice
    <3> QED
      BY <1>2, <2>1, <3>1, DispatchGives
  <2>2. CASE pc' = "select" /\ room' = room
    BY <2>2
  <2>3. CASE pc = "joined" /\ ~changed /\ TellOne(cur)
    <3>1. cur \in Clients /\ cur \in room.members
      BY <2>3 DEF RoomInv, Open
    <3>2. /\ pc' \in {"select", "panic_send"}
          /\ \/ room' = room
             \/ /\ ~Full(room, cur)
                /\ room' = [room EXCEPT !.out[cur] = Append(room.out[cur], Notice)]
      BY <2>3 DEF TellOne
    <3>3. CASE room' = room
      BY <3>2, <3>3
    <3>4. CASE room' # room
      <4> DEFINE t == Append(room.out[cur], Notice)
      <4>1. /\ room.out \in [Clients -> Seq(Nat)] /\ room.out[cur] \in Seq(Nat)
            /\ SendBuffer \in Nat /\ Len(room.out[cur]) \in Nat
        BY <3>1, RoomTyped, ConstantsAssumption
      <4>2. t \in Seq(Nat) /\ Len(t) <= SendBuffer
        BY <3>2, <3>4, <4>1 DEF Full, Notice
      <4>3. room' = [room EXCEPT !.out[cur] = t]
        BY <3>2, <3>4
      <4> HIDE DEF t
      <4>4. /\ room'.members = room.members
            /\ room'.out = [room.out EXCEPT ![cur] = t]
        BY <1>2, <3>1, <4>2, <4>3, QueueUpdate
      <4>5. \A c \in Clients : \/ room'.out[c] = room.out[c]
                               \/ c = cur /\ room'.out[c] = t
        BY <4>1, <4>4
      <4> QED
        BY <3>1, <3>2, <4>4, <4>5 DEF t
    <3> QED
      BY <3>3, <3>4
  <2> QED
    BY <1>1, <2>1, <2>2, <2>3
<1>4. \A c \in Clients : Whole(c) /\ c \in room'.members => UpTo(Given(c), lastId)
  BY <1>3 DEF FlowInv, Flow
<1>5. HistoryWhole' /\ Position' /\ pc' # "backlog"
  BY <1>1, <1>3 DEF FlowInv, HistoryWhole, Position, EndBranch
<1>6. PICK m \in Nat : m = Notice
  BY DEF Notice
<1> QED
  BY <1>1, <1>3, <1>4, <1>5, <1>6, OutFlow

LEMMA RecvLeaveFlow ==
  ASSUME RoomInv, RoomInv', FlowInv, RecvLeave
  PROVE  FlowInv'
<1> DEFINE c == Head(leaveQ)
           r == removeClients(room, {c})
<1>1. /\ pc = "select" /\ leaveQ # <<>>
      /\ UNCHANGED <<serve, reader, got, joinQ, pos, history, lastId>>
      /\ \/ room' = room /\ pc' \in {"left", "panic_close"}
         \/ DispatchThen(r, Notice, "left")
         \/ room' = r /\ pc' = "left"
  BY DEF RecvLeave, conns, log
<1>2. c \in Clients /\ RoomOK(room)
  BY <1>1, TailQ, RoomTyped DEF RoomInv, TypeOK
<1>3. r \in RoomType /\ r.members \subseteq room.members /\ r.out = room.out
  <2>1. {c} \in SUBSET Clients /\ room \in RoomType
    BY <1>2 DEF RoomOK
  <2> QED
    BY <2>1, RemoveFields
<1> HIDE DEF r, c
<1>4. RoomOK(r)
  BY <1>2, <1>3 DEF RoomOK
<1>5. /\ pc' \in {"left", "panic_send", "panic_close"}
      /\ room'.members \subseteq room.members
      /\ \A d \in Clients :
           \/ room'.out[d] = room.out[d]
           \/ d \in room'.members /\ room'.out[d] = Append(room.out[d], Notice)
  <2>1. CASE DispatchThen(r, Notice, "left")
    <3>1. Notice \in Nat
      BY DEF Notice
    <3> QED
      BY <1>3, <1>4, <2>1, <3>1, DispatchGives
  <2>2. CASE room' = r /\ pc' = "left"
    BY <1>3, <2>2
  <2>3. CASE room' = room /\ pc' \in {"left", "panic_close"}
    BY <2>3
  <2> QED
    BY <1>1, <2>1, <2>2, <2>3
<1>6. \A d \in Clients : Whole(d) /\ d \in room'.members => UpTo(Given(d), lastId)
  BY <1>5 DEF FlowInv, Flow
<1>7. HistoryWhole' /\ Position' /\ pc' # "backlog"
  BY <1>1, <1>5 DEF FlowInv, HistoryWhole, Position
<1>8. PICK m \in Nat : m = Notice
  BY DEF Notice
<1> QED
  BY <1>1, <1>5, <1>6, <1>7, <1>8, OutFlow

\* The history goes on without a gap, its oldest message lost when it is full.
LEMMA HistoryGrows ==
  ASSUME RoomInv, FlowInv, lastId' = lastId + 1, history' = appendHistory(lastId + 1)
  PROVE  HistoryWhole'
<1>1. /\ history \in Seq(Nat) /\ Len(history) \in Nat /\ lastId \in Nat
      /\ HistorySize \in Nat \ {0} /\ Len(history) <= lastId
      /\ \A i \in 1..Len(history) : history[i] = lastId - Len(history) + i
  BY ConstantsAssumption, LenProperties DEF RoomInv, TypeOK, FlowInv, HistoryWhole
<1> DEFINE h == IF Len(history) = HistorySize THEN Tail(history) ELSE history
<1>2. /\ h \in Seq(Nat) /\ Len(h) \in Nat /\ Len(h) <= lastId
      /\ \A i \in 1..Len(h) : h[i] = lastId - Len(h) + i
  <2>1. CASE Len(history) = HistorySize
    <3>1. history # <<>>
      BY <1>1, <2>1
    <3>2. /\ h \in Seq(Nat) /\ Len(h) = Len(history) - 1
          /\ \A i \in 1..Len(h) : h[i] = history[i+1]
      <4>1. /\ Tail(history) \in Seq(Nat) /\ Len(Tail(history)) = Len(history) - 1
            /\ \A i \in 1..Len(Tail(history)) : Tail(history)[i] = history[i+1]
        BY <1>1, <3>1, HeadTailProperties
      <4>2. h = Tail(history)
        BY <2>1
      <4> QED
        BY <4>1, <4>2
    <3> HIDE DEF h
    <3>3. Len(h) \in Nat /\ Len(h) <= lastId
      BY <1>1, <2>1, <3>2
    <3>4. ASSUME NEW i \in 1..Len(h)
          PROVE  h[i] = lastId - Len(h) + i
      <4>1. i \in Int /\ i + 1 \in 1..Len(history)
        BY <1>1, <3>2, <3>3
      <4>2. h[i] = lastId - Len(history) + (i + 1)
        BY <1>1, <3>2, <4>1
      <4> QED
        BY <1>1, <3>2, <4>1, <4>2
    <3> QED
      BY <3>2, <3>3, <3>4
  <2>2. CASE Len(history) # HistorySize
    <3>1. h = history
      BY <2>2
    <3> HIDE DEF h
    <3> QED
      BY <1>1, <3>1
  <2> QED
    BY <2>1, <2>2
<1>3. PICK m \in Nat : m = lastId + 1 /\ history' = Append(h, m)
  BY <1>1 DEF appendHistory
<1> HIDE DEF h
<1>4. /\ Len(history') = Len(h) + 1 /\ history'[Len(h) + 1] = m
      /\ \A i \in 1..Len(h) : history'[i] = h[i]
  <2>1. h \in Seq(Nat) /\ m \in Nat
    BY <1>2
  <2>2. /\ Len(Append(h, m)) = Len(h) + 1 /\ Append(h, m)[Len(h) + 1] = m
        /\ \A i \in 1..Len(h) : Append(h, m)[i] = h[i]
    BY ONLY <2>1, AppendProperties
  <2> QED
    BY <1>3, <2>2
<1>5. ASSUME NEW i \in 1..Len(history')
      PROVE  history'[i] = lastId' - Len(history') + i
  <2>1. CASE i = Len(h) + 1
    BY <1>1, <1>2, <1>3, <1>4, <2>1
  <2>2. CASE i # Len(h) + 1
    <3>1. i \in 1..Len(h)
      <4>1. i \in 1..Len(h)+1
        BY <1>4
      <4> QED
        BY <1>2, <2>2, <4>1
    <3>2. /\ i \in Int /\ history'[i] = h[i]
          /\ h[i] = lastId - Len(h) + i
      BY <1>2, <1>4, <3>1
    <3>3. lastId' - Len(history') + i = (lastId + 1) - (Len(h) + 1) + i
      BY <1>4
    <3>4. (lastId + 1) - (Len(h) + 1) + i = lastId - Len(h) + i
      BY <1>1, <1>2, <3>2
    <3> QED
      BY <3>2, <3>3, <3>4
  <2> QED
    BY <2>1, <2>2
<1>6. Len(history') <= lastId' /\ Len(history') > 0
  BY <1>1, <1>2, <1>4
<1> QED
  BY <1>5, <1>6 DEF HistoryWhole

LEMMA RecvSendFlow ==
  ASSUME RoomInv, RoomInv', FlowInv, RecvSend
  PROVE  FlowInv'
<1>1. /\ pc = "select" /\ lastId' = lastId + 1
      /\ history' = appendHistory(lastId + 1)
      /\ DispatchThen(room, lastId + 1, "select")
      /\ UNCHANGED <<serve, reader, got, joinQ, pos>>
  BY DEF RecvSend, conns
<1>2. room.members \cap room.shut = {} /\ RoomOK(room) /\ lastId + 1 \in Nat
  BY <1>1, RoomTyped DEF RoomInv, TypeOK, Open
<1>3. PICK m \in Nat : m = lastId + 1
  BY <1>2
<1>4. DispatchThen(room, m, "select")
  BY <1>1, <1>3
<1>5. /\ pc' = "select" /\ room'.members \subseteq room.members
      /\ \A c \in Clients :
           \/ room'.out[c] = room.out[c]
           \/ c \in room'.members /\ room'.out[c] = Append(room.out[c], m)
      /\ \A c \in room'.members : room'.out[c] = Append(room.out[c], m)
  BY <1>2, <1>4, DispatchGives
<1>6. \A c \in Clients : Whole(c) /\ c \in room'.members => UpTo(Given(c), lastId)
  BY <1>5 DEF FlowInv, Flow
<1>7. Position' /\ pc' # "backlog"
  BY <1>1, <1>5 DEF FlowInv, Position
<1>8. HistoryWhole'
  BY <1>1, HistoryGrows
<1> QED
  BY <1>1, <1>3, <1>5, <1>6, <1>7, <1>8, OutFlow

LEMMA RecvStopFlow ==
  ASSUME RoomInv, FlowInv, RecvStop
  PROVE  FlowInv'
<1>1. /\ pc' = "stopped" /\ room' = removeClients(room, room.members)
      /\ UNCHANGED <<serve, reader, got, joinQ, pos, history, lastId>>
  BY DEF RecvStop, conns, queue, log
<1>2. room'.members = {} /\ room'.out = room.out
  <2>1. room \in RoomType /\ room.members \in SUBSET Clients
    BY RoomTyped
  <2> QED
    BY <1>1, <2>1, RemoveFields
<1>3. Position' /\ \A c \in Clients : ~InHand(c)'
  BY <1>1 DEF Position, InHand
<1>4. \A c \in Clients : (Whole(c)' <=> Whole(c)) /\ (Queued(c)' <=> Queued(c))
  BY <1>1 DEF Whole, Queued
<1> QED
  BY <1>1, <1>2, <1>3, <1>4, QuietFlow

LEMMA FlowStep == RoomInv /\ RoomInv' /\ FlowInv /\ [Next]_vars => FlowInv'
<1> SUFFICES ASSUME RoomInv, RoomInv', FlowInv, [Next]_vars
             PROVE  FlowInv'
  OBVIOUS
<1>1. CASE RecvJoin
  BY <1>1, RecvJoinFlow
<1>2. CASE DeliverBacklog
  BY <1>2, DeliverBacklogFlow
<1>3. CASE Register
  BY <1>3, RegisterFlow
<1>4. CASE JoinCount \/ LeaveCount
  BY <1>4, CountFlow
<1>5. CASE RecvLeave
  BY <1>5, RecvLeaveFlow
<1>6. CASE RecvSend
  BY <1>6, RecvSendFlow
<1>7. CASE RecvStop
  BY <1>7, RecvStopFlow
<1>8. CASE CloseStop \/ UNCHANGED vars
  <2>1. UNCHANGED <<serve, reader, got, joinQ, room, pc, cur, pos, history, lastId>>
    BY <1>8 DEF CloseStop, vars, conns, queue, actor, log
  <2>2. \A c \in Clients : (Whole(c)' <=> Whole(c)) /\ (Queued(c)' <=> Queued(c))
    BY <2>1 DEF Whole, Queued
  <2> QED
    BY <2>1, <2>2, ConnFlow
<1>9. ASSUME NEW c \in Clients,
             \/ Connect(c) \/ JoinCancelled(c) \/ WriterDrained(c)
             \/ CloseConn(c) \/ ReadMessage(c) \/ SendInbound(c)
             \/ SendCancelled(c) \/ WriterLeaves(c) \/ ReadFails(c)
      PROVE  FlowInv'
  BY <1>9, ConnStepFlow
<1>10. ASSUME NEW c \in Clients, JoinSent(c)
       PROVE  FlowInv'
  BY <1>10, JoinSentFlow
<1>11. ASSUME NEW c \in Clients, NEW ok \in BOOLEAN, WriteOne(c, ok)
       PROVE  FlowInv'
  BY <1>11, WriteFlow
<1> QED
  BY <1>1, <1>2, <1>3, <1>4, <1>5, <1>6, <1>7, <1>8, <1>9, <1>10, <1>11 DEF Next

\* The history has no gap and ends with the latest message; the client whose
\* backlog Room.run delivers has been given the history up to there; registered
\* clients have been given everything.
THEOREM FlowInvariance == Spec => []FlowInv
  BY FlowInit, FlowStep, RoomInvariance, PTL DEF Spec

\* Backlog and broadcasts of hub.go join up: a connection is given the messages
\* in order, each once and without a gap, whatever is sent while it joins.
THEOREM DeliveryAlwaysContiguous == Spec => []DeliveryContiguous
<1>1. FlowInv => DeliveryContiguous
  BY DEF FlowInv, Flow, Whole, DeliveryContiguous
<1> QED
  BY <1>1, FlowInvariance, PTL

=============================================================================
