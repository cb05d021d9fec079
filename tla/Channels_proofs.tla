-------------------------- MODULE Channels_proofs ---------------------------
(***************************************************************************)
(* Proofs about Channels, for every number of accounts, publishers, page   *)
(* requests, regenerations and updates.  KeySound needs to know that keys  *)
(* only grow within a row, so that a key that was replaced stays so;       *)
(* TitleNotOlder that the rows a request has yet to read are not older     *)
(* than when it was sent.                                                  *)
(***************************************************************************)
EXTENDS Channels, TLAPS

\* Every account has exactly one row.
OneRow ==
  /\ \A u \in Names : \E c \in channels : c.user = u
  /\ \A c, d \in channels : c.user = d.user => c = d

\* The key of a row was issued to its channel, and titles come from updates.
RowsSound ==
  \A c \in channels : c.key.for = c.user /\ c.key.n <= keys /\ c.title <= titles

\* A key that had been replaced when the publish began is replaced for good; a
\* publish that was accepted has a key that was not.
PubSound(q) ==
  /\ q.dead => Replaced(q.key)
  /\ q.st # "sent" => ~q.dead /\ q.key.for = q.user

\* The title a publish has, or is about to find, is not from before it began.
PubFresh(q) ==
  IF q.st = "sent"
  THEN \A c \in channels : c.user = q.key.for => c.title >= q.floor
  ELSE q.title >= q.floor

\* The same of a page request.
ViewFresh(q) ==
  IF q.st = "sent"
  THEN \A c \in channels : c.user = q.name => c.title >= q.floor
  ELSE q.title >= q.floor

RequestsSound ==
  /\ \A p \in Pubs : pub[p] # None => PubSound(pub[p]) /\ PubFresh(pub[p])
  /\ \A v \in Views : view[v] # None => ViewFresh(view[v])

ChanInv == TypeOK /\ OneRow /\ RowsSound /\ RequestsSound

-----------------------------------------------------------------------------
(* Rows. *)

\* Row(u) is the row of u.
LEMMA RowOf ==
  ASSUME OneRow, NEW u \in Names
  PROVE  /\ Row(u) \in channels /\ Row(u).user = u
         /\ \A c \in channels : c.user = u => c = Row(u)
BY DEF OneRow, Row

\* A publish request and a page request are no None.
LEMMA NoneIsNoRequest ==
  ASSUME TypeOK
  PROVE  /\ \A p \in Pubs : pub[p] # None => pub[p] \in Publishes
         /\ \A v \in Views : view[v] # None => view[v] \in Requests
BY DEF TypeOK

\* An UPDATE of one row that makes neither its key nor its title older keeps
\* everything that is known of the requests under way.
LEMMA RowUpdate ==
  ASSUME ChanInv, TypeOK', OneRow', UNCHANGED <<view, pub>>,
         \A d \in channels : \E c \in channels' :
           c.user = d.user /\ c.key.n >= d.key.n,
         \A c \in channels' : \E d \in channels :
           c.user = d.user /\ c.title >= d.title
  PROVE  RequestsSound'
<1>1. \A c \in channels : c.key.n \in Nat /\ c.title \in Nat
  BY DEF ChanInv, TypeOK, Rows, Keys
<1>2. \A c \in channels' : c.key.n \in Nat /\ c.title \in Nat
  BY DEF TypeOK, Rows, Keys
<1>3. ASSUME NEW p \in Pubs, pub[p] # None
      PROVE  PubSound(pub[p])' /\ PubFresh(pub[p])'
  <2>1. pub[p] \in Publishes /\ PubSound(pub[p]) /\ PubFresh(pub[p])
    BY <1>3, NoneIsNoRequest DEF ChanInv, RequestsSound
  <2>2. pub[p].key.n \in Nat /\ pub[p].floor \in Nat
    BY <2>1 DEF Publishes, Keys
  <2>3. Replaced(pub[p].key) => Replaced(pub[p].key)'
    BY <1>1, <1>2, <2>2 DEF Replaced, Of
  <2>4. PubSound(pub[p])'
    BY <2>1, <2>3 DEF PubSound
  <2>5. PubFresh(pub[p])'
    BY <1>1, <1>2, <2>1, <2>2 DEF PubFresh
  <2> QED
    BY <2>4, <2>5
<1>4. ASSUME NEW v \in Views, view[v] # None
      PROVE  ViewFresh(view[v])'
  <2>1. view[v] \in Requests /\ ViewFresh(view[v])
    BY <1>4, NoneIsNoRequest DEF ChanInv, RequestsSound
  <2>2. view[v].floor \in Nat
    BY <2>1 DEF Requests
  <2> QED
    BY <1>1, <1>2, <2>1, <2>2 DEF ViewFresh
<1> QED
  BY <1>3, <1>4 DEF RequestsSound

-----------------------------------------------------------------------------
(* The invariant. *)

LEMMA ChanInit == Init => ChanInv
<1> SUFFICES ASSUME Init
             PROVE  ChanInv
  OBVIOUS
<1>1. \A c \in channels : /\ c \in Rows /\ c.user \in Names /\ c.title = 0
                          /\ c = [user |-> c.user,
                                  key |-> [n |-> 0, for |-> c.user],
                                  title |-> 0]
  BY ChannelsAssumption DEF Init, Rows, Keys
<1>2. OneRow
  <2>1. \A u \in Names : \E c \in channels : c.user = u
    <3> TAKE u \in Names
    <3>1. [user |-> u, key |-> [n |-> 0, for |-> u], title |-> 0] \in channels
      BY DEF Init
    <3> QED
      BY <3>1
  <2> QED
    BY <1>1, <2>1 DEF OneRow
<1>3. RowsSound
  BY <1>1, ChannelsAssumption DEF Init, RowsSound
<1>4. TypeOK
  <2>1. \A c \in channels : c.key \in Keys
    BY <1>1 DEF Rows
  <2>2. known \subseteq Keys
    BY <2>1 DEF Init
  <2> QED
    BY <1>1, <2>2, ChannelsAssumption DEF Init, TypeOK
<1>5. RequestsSound
  BY DEF Init, RequestsSound
<1> QED
  BY <1>2, <1>3, <1>4, <1>5 DEF ChanInv

LEMMA UpdateTitleStep ==
  ASSUME ChanInv, NEW u \in Names, updateTitle(u)
  PROVE  ChanInv'
<1> DEFINE Upd(c) == IF c.user = u THEN [c EXCEPT !.title = titles + 1] ELSE c
<1>1. /\ titles < MaxTitles /\ titles' = titles + 1
      /\ channels' = {Upd(c) : c \in channels}
      /\ UNCHANGED <<keys, shown, known, view, pub>>
  BY DEF updateTitle, UpdateChannelTitle
<1>2. titles \in Nat /\ titles + 1 \in 0..MaxTitles
  BY <1>1, ChannelsAssumption DEF ChanInv, TypeOK
<1>3. ASSUME NEW c \in channels
      PROVE  /\ Upd(c) \in Rows /\ Upd(c).user = c.user /\ Upd(c).key = c.key
             /\ Upd(c).title >= c.title /\ Upd(c).title <= titles + 1
  <2>1. c \in Rows /\ c.title \in Nat /\ c.title <= titles
    BY DEF ChanInv, TypeOK, Rows, RowsSound
  <2> QED
    BY <1>2, <2>1 DEF Rows
<1> HIDE DEF Upd
<1>4. TypeOK'
  BY <1>1, <1>2, <1>3 DEF ChanInv, TypeOK
<1>5. OneRow'
  BY <1>1, <1>3 DEF ChanInv, OneRow
<1>6. RowsSound'
  BY <1>1, <1>3 DEF ChanInv, RowsSound
<1>7. \A d \in channels : \E c \in channels' :
        c.user = d.user /\ c.key.n >= d.key.n
  <2> TAKE d \in channels
  <2>1. d.key.n \in Nat
    BY DEF ChanInv, TypeOK, Rows, Keys
  <2>2. Upd(d) \in channels' /\ Upd(d).user = d.user /\ Upd(d).key = d.key
    BY <1>1, <1>3
  <2> QED
    BY <2>1, <2>2
<1>8. \A c \in channels' : \E d \in channels :
        c.user = d.user /\ c.title >= d.title
  BY <1>1, <1>3
<1>9. RequestsSound'
  BY <1>1, <1>4, <1>5, <1>7, <1>8, RowUpdate
<1> QED
  BY <1>4, <1>5, <1>6, <1>9 DEF ChanInv

LEMMA RegenerateStep ==
  ASSUME ChanInv, NEW u \in Names, regenerateKey(u)
  PROVE  ChanInv'
<1> DEFINE k == [n |-> keys + 1, for |-> u]
           Upd(c) == IF c.user = u THEN [c EXCEPT !.key = k] ELSE c
<1>1. /\ keys < MaxKeys /\ keys' = keys + 1
      /\ channels' = {Upd(c) : c \in channels}
      /\ shown' = shown \cup {k} \/ shown' = shown
      /\ UNCHANGED <<titles, known, view, pub>>
  BY DEF regenerateKey, RegenerateStreamKey
<1>2. keys \in Nat /\ keys + 1 \in 0..MaxKeys /\ k \in Keys
  BY <1>1, ChannelsAssumption DEF ChanInv, TypeOK, Keys
<1>3. k.n = keys + 1 /\ k.for = u
  OBVIOUS
<1> HIDE DEF k
<1>4. ASSUME NEW c \in channels
      PROVE  /\ Upd(c) \in Rows /\ Upd(c).user = c.user
             /\ Upd(c).title = c.title /\ Upd(c).title <= titles
             /\ Upd(c).key.for = c.user
             /\ Upd(c).key.n >= c.key.n /\ Upd(c).key.n <= keys + 1
  <2>1. /\ c \in Rows /\ c.key.n \in Nat /\ c.key.n <= keys
        /\ c.key.for = c.user /\ c.title <= titles
    BY DEF ChanInv, TypeOK, Rows, Keys, RowsSound
  <2>2. CASE c.user = u
    <3>1. Upd(c) = [c EXCEPT !.key = k]
      BY <2>2
    <3>2. /\ Upd(c) \in Rows /\ Upd(c).user = c.user
          /\ Upd(c).title = c.title /\ Upd(c).key = k
      BY <1>2, <2>1, <3>1 DEF Rows
    <3> QED
      BY <1>2, <1>3, <2>1, <2>2, <3>2
  <2>3. CASE c.user # u
    BY <1>2, <2>1, <2>3
  <2> QED
    BY <2>2, <2>3
<1> HIDE DEF Upd
<1>5. TypeOK'
  BY <1>1, <1>2, <1>4 DEF ChanInv, TypeOK
<1>6. OneRow'
  BY <1>1, <1>4 DEF ChanInv, OneRow
<1>7. RowsSound'
  BY <1>1, <1>4 DEF RowsSound
<1>8. \A d \in channels : \E c \in channels' :
        c.user = d.user /\ c.key.n >= d.key.n
  BY <1>1, <1>4
<1>9. \A c \in channels' : \E d \in channels :
        c.user = d.user /\ c.title >= d.title
  <2>1. \A d \in channels : d.title \in Nat
    BY DEF ChanInv, TypeOK, Rows
  <2> QED
    BY <1>1, <1>4, <2>1
<1>10. RequestsSound'
  BY <1>1, <1>5, <1>6, <1>8, <1>9, RowUpdate
<1> QED
  BY <1>5, <1>6, <1>7, <1>10 DEF ChanInv

\* What a step does to one publish, with everything else as it was.
LEMMA PubStep ==
  ASSUME ChanInv, UNCHANGED <<channels, keys, titles, shown, known, view>>,
         NEW p \in Pubs, NEW q, pub' = [pub EXCEPT ![p] = q],
         q = None \/ (q \in Publishes /\ PubSound(q) /\ PubFresh(q))
  PROVE  ChanInv'
<1>1. pub' \in [Pubs -> Publishes \cup {None}]
  BY DEF ChanInv, TypeOK
<1>2. TypeOK' /\ OneRow' /\ RowsSound'
  BY <1>1 DEF ChanInv, TypeOK, OneRow, RowsSound
<1>3. ASSUME NEW r \in Pubs, pub'[r] # None
      PROVE  PubSound(pub'[r]) /\ PubFresh(pub'[r])
  <2>1. pub'[r] = IF r = p THEN q ELSE pub[r]
    BY DEF ChanInv, TypeOK
  <2> QED
    BY <1>3, <2>1 DEF ChanInv, RequestsSound
<1>4. RequestsSound'
  BY <1>3 DEF ChanInv, RequestsSound, PubSound, PubFresh, ViewFresh,
              Replaced, Of
<1> QED
  BY <1>2, <1>4 DEF ChanInv

\* The same of one page request.
LEMMA ViewStep ==
  ASSUME ChanInv, UNCHANGED <<channels, keys, titles, shown, known, pub>>,
         NEW v \in Views, NEW q, view' = [view EXCEPT ![v] = q],
         q = None \/ (q \in Requests /\ ViewFresh(q))
  PROVE  ChanInv'
<1>1. view' \in [Views -> Requests \cup {None}]
  BY DEF ChanInv, TypeOK
<1>2. TypeOK' /\ OneRow' /\ RowsSound'
  BY <1>1 DEF ChanInv, TypeOK, OneRow, RowsSound
<1>3. ASSUME NEW r \in Views, view'[r] # None
      PROVE  ViewFresh(view'[r])
  <2>1. view'[r] = IF r = v THEN q ELSE view[r]
    BY DEF ChanInv, TypeOK
  <2> QED
    BY <1>3, <2>1 DEF ChanInv, RequestsSound
<1>4. RequestsSound'
  BY <1>3 DEF ChanInv, RequestsSound, PubSound, PubFresh, ViewFresh,
              Replaced, Of
<1> QED
  BY <1>2, <1>4 DEF ChanInv

\* The publisher's steps.
LEMMA PublisherStep ==
  ASSUME ChanInv, NEW p \in Pubs,
         \/ \E k \in known : Publish(p, k)
         \/ LookupKey(p) \/ UnknownKey(p) \/ GoLive(p) \/ StreamEnds(p)
  PROVE  ChanInv'
<1>1. ASSUME NEW k \in known, Publish(p, k)
      PROVE  ChanInv'
  <2> DEFINE q == [st |-> "sent", key |-> k, dead |-> Replaced(k),
                   user |-> None, title |-> 0, floor |-> Row(k.for).title]
  <2>1. k \in Keys /\ k.for \in Names
    BY DEF ChanInv, TypeOK, Keys
  <2>2. /\ Row(k.for) \in channels /\ Row(k.for) \in Rows
        /\ \A c \in channels : c.user = k.for => c = Row(k.for)
    BY <2>1, RowOf DEF ChanInv, TypeOK
  <2>3. Row(k.for).title \in 0..MaxTitles /\ 0 \in 0..MaxTitles
    BY <2>2, ChannelsAssumption DEF Rows
  <2>4. Replaced(k) \in BOOLEAN
    BY DEF Replaced
  <2>5. q \in Publishes
    BY <2>1, <2>3, <2>4 DEF Publishes
  <2>6. PubSound(q)
    BY DEF PubSound
  <2>7. PubFresh(q)
    BY <2>2, <2>3 DEF PubFresh
  <2>8. pub' = [pub EXCEPT ![p] = q]
        /\ UNCHANGED <<channels, keys, titles, shown, known, view>>
    BY <1>1 DEF Publish
  <2> HIDE DEF q
  <2> QED
    BY <2>5, <2>6, <2>7, <2>8, PubStep
<1>2. CASE LookupKey(p)
  <2>1. pub[p] # None /\ pub[p].st = "sent"
    BY <1>2 DEF LookupKey
  <2>2. PICK c \in ByKey(pub[p].key) : Found(p, c)
    BY <1>2 DEF LookupKey
  <2>3. pub[p] \in Publishes /\ PubSound(pub[p]) /\ PubFresh(pub[p])
    BY <2>1, NoneIsNoRequest DEF ChanInv, RequestsSound
  <2>4. c \in channels /\ c \in Rows /\ c.key = pub[p].key /\ c.user = c.key.for
    BY <2>2 DEF ByKey, ChanInv, TypeOK, RowsSound
  <2> DEFINE q == [pub[p] EXCEPT !.st = "found", !.user = c.user,
                                 !.title = c.title]
  <2>5. pub' = [pub EXCEPT ![p] = q]
    BY <2>2 DEF Found
  <2>6. /\ q \in Publishes /\ q.st = "found" /\ q.user = c.user
        /\ q.title = c.title /\ q.key = pub[p].key
        /\ q.dead = pub[p].dead /\ q.floor = pub[p].floor
    BY <2>3, <2>4 DEF Publishes, Rows
  <2>7. ~pub[p].dead
    <3> SUFFICES ASSUME pub[p].dead
                 PROVE  FALSE
      OBVIOUS
    <3>1. PICK d \in channels : d.user = c.key.for /\ d.key.n > pub[p].key.n
      BY <2>3, <2>4 DEF PubSound, Replaced, Of
    <3>2. d = c
      BY <2>4, <3>1 DEF ChanInv, OneRow
    <3>3. c.key.n \in Nat
      BY <2>4 DEF Rows, Keys
    <3> QED
      BY <2>4, <3>1, <3>2, <3>3
  <2>8. PubSound(q)
    BY <2>4, <2>6, <2>7 DEF PubSound
  <2>9. PubFresh(q)
    BY <2>1, <2>3, <2>4, <2>6 DEF PubFresh
  <2>10. UNCHANGED <<channels, keys, titles, shown, known, view>>
    BY <1>2 DEF LookupKey
  <2> HIDE DEF q
  <2> QED
    BY <2>5, <2>6, <2>8, <2>9, <2>10, PubStep
<1>3. CASE UnknownKey(p)
  BY <1>3, PubStep DEF UnknownKey
<1>4. CASE GoLive(p)
  <2>1. pub[p] # None /\ pub[p].st = "found"
    BY <1>4 DEF GoLive
  <2>2. pub[p] \in Publishes /\ PubSound(pub[p]) /\ PubFresh(pub[p])
    BY <2>1, NoneIsNoRequest DEF ChanInv, RequestsSound
  <2> DEFINE q == [pub[p] EXCEPT !.st = "live"]
  <2>3. /\ q \in Publishes /\ q.st = "live" /\ q.user = pub[p].user
        /\ q.title = pub[p].title /\ q.key = pub[p].key
        /\ q.dead = pub[p].dead /\ q.floor = pub[p].floor
    BY <2>2 DEF Publishes
  <2>4. PubSound(q) /\ PubFresh(q)
    BY <2>1, <2>2, <2>3 DEF PubSound, PubFresh
  <2>5. \/ pub' = [pub EXCEPT ![p] = q]
        \/ pub' = [pub EXCEPT ![p] = None]
    BY <1>4 DEF GoLive
  <2>6. UNCHANGED <<channels, keys, titles, shown, known, view>>
    BY <1>4 DEF GoLive
  <2> HIDE DEF q
  <2> QED
    BY <2>3, <2>4, <2>5, <2>6, PubStep
<1>5. CASE StreamEnds(p)
  BY <1>5, PubStep DEF StreamEnds
<1> QED
  BY <1>1, <1>2, <1>3, <1>4, <1>5

\* The viewer's steps.
LEMMA ViewerStep ==
  ASSUME ChanInv, NEW v \in Views,
         \/ \E u \in Names : RequestPage(v, u)
         \/ ChannelByName(v) \/ Watch(v) \/ PageEnds(v)
  PROVE  ChanInv'
<1>1. ASSUME NEW u \in Names, RequestPage(v, u)
      PROVE  ChanInv'
  <2> DEFINE q == [st |-> "sent", name |-> u, title |-> 0,
                   floor |-> Row(u).title]
  <2>1. /\ Row(u) \in channels /\ Row(u) \in Rows
        /\ \A c \in channels : c.user = u => c = Row(u)
    BY RowOf DEF ChanInv, TypeOK
  <2>2. Row(u).title \in 0..MaxTitles /\ 0 \in 0..MaxTitles
    BY <2>1, ChannelsAssumption DEF Rows
  <2>3. q \in Requests
    BY <2>2 DEF Requests
  <2>4. ViewFresh(q)
    BY <2>1, <2>2 DEF ViewFresh
  <2>5. /\ view' = [view EXCEPT ![v] = q]
        /\ UNCHANGED <<channels, keys, titles, shown, known, pub>>
    BY <1>1 DEF RequestPage
  <2> HIDE DEF q
  <2> QED
    BY <2>3, <2>4, <2>5, ViewStep
<1>2. CASE ChannelByName(v)
  <2>1. view[v] # None /\ view[v].st = "sent"
    BY <1>2 DEF ChannelByName
  <2>2. PICK c \in Of(view[v].name) :
          view' = [view EXCEPT ![v].st = "page", ![v].title = c.title]
    BY <1>2 DEF ChannelByName
  <2>3. view[v] \in Requests /\ ViewFresh(view[v])
    BY <2>1, NoneIsNoRequest DEF ChanInv, RequestsSound
  <2>4. c \in channels /\ c \in Rows /\ c.user = view[v].name
    BY <2>2 DEF Of, ChanInv, TypeOK
  <2> DEFINE q == [view[v] EXCEPT !.st = "page", !.title = c.title]
  <2>5. view' = [view EXCEPT ![v] = q]
    BY <2>2
  <2>6. /\ q \in Requests /\ q.st = "page" /\ q.title = c.title
        /\ q.floor = view[v].floor
    BY <2>3, <2>4 DEF Requests, Rows
  <2>7. ViewFresh(q)
    BY <2>1, <2>3, <2>4, <2>6 DEF ViewFresh
  <2>8. UNCHANGED <<channels, keys, titles, shown, known, pub>>
    BY <1>2 DEF ChannelByName
  <2> HIDE DEF q
  <2> QED
    BY <2>5, <2>6, <2>7, <2>8, ViewStep
<1>3. CASE Watch(v)
  <2>1. view[v] # None /\ view[v].st = "page"
    BY <1>3 DEF Watch
  <2>2. view[v] \in Requests /\ ViewFresh(view[v])
    BY <2>1, NoneIsNoRequest DEF ChanInv, RequestsSound
  <2>3. UNCHANGED <<channels, keys, titles, shown, known, pub>>
    BY <1>3 DEF Watch
  <2>4. ASSUME NEW p \in Live(view[v].name),
               view' = [view EXCEPT ![v].st = "done",
                                    ![v].title = pub[p].title,
                                    ![v].floor = pub[p].floor]
        PROVE  ChanInv'
    <3>1. p \in Pubs /\ pub[p] # None /\ pub[p].st = "live"
      BY DEF Live
    <3>2. pub[p] \in Publishes /\ PubFresh(pub[p])
      BY <3>1, NoneIsNoRequest DEF ChanInv, RequestsSound
    <3> DEFINE q == [view[v] EXCEPT !.st = "done", !.title = pub[p].title,
                                    !.floor = pub[p].floor]
    <3>3. view' = [view EXCEPT ![v] = q]
      BY <2>4
    <3>4. /\ q \in Requests /\ q.st = "done" /\ q.title = pub[p].title
          /\ q.floor = pub[p].floor
      BY <2>2, <3>2 DEF Requests, Publishes
    <3>5. ViewFresh(q)
      BY <3>1, <3>2, <3>4 DEF ViewFresh, PubFresh
    <3> HIDE DEF q
    <3> QED
      BY <2>3, <3>3, <3>4, <3>5, ViewStep
  <2>5. ASSUME view' = [view EXCEPT ![v].st = "done"]
        PROVE  ChanInv'
    <3> DEFINE q == [view[v] EXCEPT !.st = "done"]
    <3>1. view' = [view EXCEPT ![v] = q]
      BY <2>5
    <3>2. /\ q \in Requests /\ q.st = "done" /\ q.title = view[v].title
          /\ q.floor = view[v].floor
      BY <2>2 DEF Requests
    <3>3. ViewFresh(q)
      BY <2>1, <2>2, <3>2 DEF ViewFresh
    <3> HIDE DEF q
    <3> QED
      BY <2>3, <3>1, <3>2, <3>3, ViewStep
  <2> QED
    BY <1>3, <2>4, <2>5 DEF Watch
<1>4. CASE PageEnds(v)
  BY <1>4, ViewStep DEF PageEnds
<1> QED
  BY <1>1, <1>2, <1>3, <1>4

LEMMA ChanStep == ChanInv /\ [Next]_vars => ChanInv'
<1> SUFFICES ASSUME ChanInv, [Next]_vars
             PROVE  ChanInv'
  OBVIOUS
<1>1. CASE Reboot
  <2>1. /\ pub' \in [Pubs -> {None}] /\ view' \in [Views -> {None}]
        /\ shown' = {} /\ UNCHANGED <<channels, keys, titles, known>>
    BY <1>1 DEF Reboot
  <2>2. TypeOK'
    BY <2>1 DEF ChanInv, TypeOK
  <2>3. OneRow' /\ RowsSound'
    BY <2>1 DEF ChanInv, OneRow, RowsSound
  <2>4. RequestsSound'
    BY <2>1 DEF RequestsSound
  <2> QED
    BY <2>2, <2>3, <2>4 DEF ChanInv
<1>2. ASSUME NEW u \in Names, updateTitle(u)
      PROVE  ChanInv'
  BY <1>2, UpdateTitleStep
<1>3. ASSUME NEW u \in Names, regenerateKey(u)
      PROVE  ChanInv'
  BY <1>3, RegenerateStep
<1>4. ASSUME NEW k \in shown, KeyPage(k)
      PROVE  ChanInv'
  <2>1. TypeOK'
    BY <1>4 DEF KeyPage, ChanInv, TypeOK
  <2>2. OneRow' /\ RowsSound'
    BY <1>4 DEF KeyPage, ChanInv, OneRow, RowsSound
  <2>3. RequestsSound'
    BY <1>4 DEF KeyPage, ChanInv, RequestsSound, PubSound, PubFresh,
                ViewFresh, Replaced, Of
  <2> QED
    BY <2>1, <2>2, <2>3 DEF ChanInv
<1>5. ASSUME NEW p \in Pubs,
             \/ \E k \in known : Publish(p, k)
             \/ LookupKey(p) \/ UnknownKey(p) \/ GoLive(p) \/ StreamEnds(p)
      PROVE  ChanInv'
  BY <1>5, PublisherStep
<1>6. ASSUME NEW v \in Views,
             \/ \E u \in Names : RequestPage(v, u)
             \/ ChannelByName(v) \/ Watch(v) \/ PageEnds(v)
      PROVE  ChanInv'
  BY <1>6, ViewerStep
<1>7. CASE UNCHANGED vars
  BY <1>7 DEF vars, ChanInv, TypeOK, OneRow, RowsSound, RequestsSound,
              PubSound, PubFresh, ViewFresh, Replaced, Of
<1> QED
  BY <1>1, <1>2, <1>3, <1>4, <1>5, <1>6, <1>7 DEF Next

\* The inductive invariant: one row per account with keys and titles that only
\* grow, and requests that are not behind the rows they were sent against.
THEOREM ChanInvariance == Spec => []ChanInv
  BY ChanInit, ChanStep, PTL DEF Spec

-----------------------------------------------------------------------------
(* What it means. *)

\* However regenerations, publishes and restarts interleave, a publish is
\* accepted only with a key of its own channel that had not been replaced
\* when the publish began (auth/service.go and stream/service.go).
THEOREM KeysSound == Spec => []KeySound
<1>1. ChanInv => KeySound
  BY DEF ChanInv, RequestsSound, PubSound, KeySound
<1> QED
  BY <1>1, ChanInvariance, PTL

\* The watch page, which reads the row first and the live registry second,
\* never shows a title older than the publish it shows, or than its own
\* request when the channel is offline.
THEOREM TitlesNotOlder == Spec => []TitleNotOlder
<1>1. ChanInv => TitleNotOlder
  BY DEF ChanInv, RequestsSound, ViewFresh, TitleNotOlder
<1> QED
  BY <1>1, ChanInvariance, PTL

=============================================================================
