------------------------------ MODULE Channels ------------------------------
(***************************************************************************)
(* Stream keys and titles: the rows of the channels table, the dashboard   *)
(* handlers that change them (web/dashboard.go, auth/service.go), the key  *)
(* lookup of a publisher (stream/service.go) with the copy of the row its  *)
(* session keeps, and the watch page, which reads the row and then the     *)
(* live registry (web/watch.go).  Who may do what is settled in Accounts.  *)
(*                                                                         *)
(* Keys are random, hence numbers; each also carries the channel it was    *)
(* issued to, for the properties.  Titles are numbered in the order of the *)
(* updates, so that a larger one is newer.                                 *)
(***************************************************************************)
EXTENDS Naturals

CONSTANTS
  Names,    \* channels, named after their users
  Views,    \* page requests under way
  Pubs,     \* RTMP connections that publish
  None,
  Faults,   \* "db": a statement may fail; "net": a response is lost
  MaxKeys, MaxTitles   \* bounds on regenerations and title updates

ASSUME ChannelsAssumption ==
  /\ None \notin Names
  /\ MaxKeys \in Nat /\ MaxTitles \in Nat

VARIABLES
  channels,      \* table channels: rows [user, key, title]
  keys, titles,  \* how many regenerations and updates there were
  shown,         \* keys in a response on its way to the streamer
  known,         \* keys the streamer has seen
  view,          \* [Views -> page request]
  pub            \* [Pubs -> publish]

vars == <<channels, keys, titles, shown, known, view, pub>>

Keys == [n : 0..MaxKeys, for : Names]
Rows == [user : Names, key : Keys, title : 0..MaxTitles]

\* A page request: the channel, the title it will show, and the oldest title
\* it may show.
Requests == [st : {"sent", "page", "done"}, name : Names,
             title : 0..MaxTitles, floor : 0..MaxTitles]

\* A publish: its key and whether that had been replaced when the publish
\* began; the row it found; the title of that row when the publish began.
Publishes == [st : {"sent", "found", "live"}, key : Keys, dead : BOOLEAN,
              user : Names \cup {None}, title : 0..MaxTitles,
              floor : 0..MaxTitles]

TypeOK ==
  /\ channels \subseteq Rows
  /\ keys \in 0..MaxKeys /\ titles \in 0..MaxTitles
  /\ shown \subseteq Keys /\ known \subseteq Keys
  /\ view \in [Views -> Requests \cup {None}]
  /\ pub \in [Pubs -> Publishes \cup {None}]

\* Every account has its channel, with the key of the signup and the default
\* title; that key was shown, or the signup failed after its commit.
Init ==
  /\ channels = {[user |-> u, key |-> [n |-> 0, for |-> u], title |-> 0] :
                   u \in Names}
  /\ keys = 0 /\ titles = 0
  /\ shown = {}
  /\ known \in SUBSET {c.key : c \in channels}
  /\ view = [v \in Views |-> None]
  /\ pub = [p \in Pubs |-> None]

Of(u)    == {c \in channels : c.user = u}
Row(u)   == CHOOSE c \in channels : c.user = u
ByKey(k) == {c \in channels : c.key = k}

-----------------------------------------------------------------------------
(* The dashboard. *)

UpdateChannelTitle(u, t) ==
  {IF c.user = u THEN [c EXCEPT !.title = t] ELSE c : c \in channels}

updateTitle(u) ==
  /\ titles < MaxTitles
  /\ titles' = titles + 1
  /\ channels' = UpdateChannelTitle(u, titles + 1)
  /\ UNCHANGED <<keys, shown, known, view, pub>>

\* Mutant: the new key is stored beside the old one.
RegenerateAdds(u, k) == channels \cup {[c EXCEPT !.key = k] : c \in Of(u)}

RegenerateStreamKey(u, k) ==
  {IF c.user = u THEN [c EXCEPT !.key = k] ELSE c : c \in channels}

\* An UPDATE that reports an error may have been applied: the old key is dead
\* and the new one is never shown.
regenerateKey(u) ==
  /\ keys < MaxKeys
  /\ keys' = keys + 1
  /\ LET k == [n |-> keys + 1, for |-> u]
     IN  /\ channels' = RegenerateStreamKey(u, k)
         /\ \/ shown' = shown \cup {k}
            \/ "db" \in Faults /\ UNCHANGED shown
  /\ UNCHANGED <<titles, known, view, pub>>

\* The page with the key arrives, in any order, or does not (external).
KeyPage(k) ==
  /\ shown' = shown \ {k}
  /\ \/ known' = known \cup {k}
     \/ "net" \in Faults /\ UNCHANGED known
  /\ UNCHANGED <<channels, keys, titles, view, pub>>

-----------------------------------------------------------------------------
(* A publisher, as far as keys and titles go. *)

Live(u) == {p \in Pubs : pub[p] # None /\ pub[p].st = "live" /\ pub[p].user = u}

\* A newer key has been stored for the channel.
Replaced(k) == \E c \in Of(k.for) : c.key.n > k.n

\* Somebody publishes with a key that a page has shown.
Publish(p, k) ==
  /\ pub[p] = None
  /\ pub' = [pub EXCEPT ![p] =
       [st |-> "sent", key |-> k, dead |-> Replaced(k), user |-> None,
        title |-> 0, floor |-> Row(k.for).title]]
  /\ UNCHANGED <<channels, keys, titles, shown, known, view>>

Found(p, c) ==
  pub' = [pub EXCEPT ![p].st = "found", ![p].user = c.user,
                     ![p].title = c.title]

\* lookupChannelByStreamKey returns the row, title included.
LookupKey(p) ==
  /\ pub[p] # None /\ pub[p].st = "sent"
  /\ \E c \in ByKey(pub[p].key) : Found(p, c)
  /\ UNCHANGED <<channels, keys, titles, shown, known, view>>

\* No row has the key, or the lookup fails.
UnknownKey(p) ==
  /\ pub[p] # None /\ pub[p].st = "sent"
  /\ "db" \in Faults \/ ByKey(pub[p].key) = {}
  /\ pub' = [pub EXCEPT ![p] = None]
  /\ UNCHANGED <<channels, keys, titles, shown, known, view>>

\* registry.add, or ErrAlreadyLive.
GoLive(p) ==
  /\ pub[p] # None /\ pub[p].st = "found"
  /\ pub' = IF Live(pub[p].user) = {} THEN [pub EXCEPT ![p].st = "live"]
            ELSE [pub EXCEPT ![p] = None]
  /\ UNCHANGED <<channels, keys, titles, shown, known, view>>

StreamEnds(p) ==
  /\ pub[p] # None /\ pub[p].st = "live"
  /\ pub' = [pub EXCEPT ![p] = None]
  /\ UNCHANGED <<channels, keys, titles, shown, known, view>>

-----------------------------------------------------------------------------
(* The watch page. *)

RequestPage(v, u) ==
  /\ view[v] = None
  /\ view' = [view EXCEPT ![v] = [st |-> "sent", name |-> u, title |-> 0,
                                  floor |-> Row(u).title]]
  /\ UNCHANGED <<channels, keys, titles, shown, known, pub>>

ChannelByName(v) ==
  /\ view[v] # None /\ view[v].st = "sent"
  /\ \E c \in Of(view[v].name) :
       view' = [view EXCEPT ![v].st = "page", ![v].title = c.title]
  /\ UNCHANGED <<channels, keys, titles, shown, known, pub>>

\* Mutant: the title of the row wins over the live one.
WatchRowTitle(v) ==
  /\ view[v] # None /\ view[v].st = "page"
  /\ LET live == Live(view[v].name)
     IN  \/ \E p \in live : view' = [view EXCEPT ![v].st = "done",
                                       ![v].floor = pub[p].floor]
         \/ live = {} /\ view' = [view EXCEPT ![v].st = "done"]
  /\ UNCHANGED <<channels, keys, titles, shown, known, pub>>

\* GetByName: while the channel is live the copy of its session wins.
Watch(v) ==
  /\ view[v] # None /\ view[v].st = "page"
  /\ LET live == Live(view[v].name)
     IN  \/ \E p \in live : view' = [view EXCEPT ![v].st = "done",
                                       ![v].title = pub[p].title,
                                       ![v].floor = pub[p].floor]
         \/ live = {} /\ view' = [view EXCEPT ![v].st = "done"]
  /\ UNCHANGED <<channels, keys, titles, shown, known, pub>>

\* The response arrives, or the connection or a statement failed before.
PageEnds(v) ==
  /\ view[v] # None
  /\ view[v].st = "done" \/ Faults # {}
  /\ view' = [view EXCEPT ![v] = None]
  /\ UNCHANGED <<channels, keys, titles, shown, known, pub>>

\* The process ends and boots again.
Reboot ==
  /\ shown' = {}
  /\ view' = [v \in Views |-> None]
  /\ pub' = [p \in Pubs |-> None]
  /\ UNCHANGED <<channels, keys, titles, known>>

-----------------------------------------------------------------------------
Next ==
  \/ Reboot
  \/ \E u \in Names : updateTitle(u) \/ regenerateKey(u)
  \/ \E k \in shown : KeyPage(k)
  \/ \E p \in Pubs :
       \/ \E k \in known : Publish(p, k)
       \/ LookupKey(p) \/ UnknownKey(p) \/ GoLive(p) \/ StreamEnds(p)
  \/ \E v \in Views :
       \/ \E u \in Names : RequestPage(v, u)
       \/ ChannelByName(v) \/ Watch(v) \/ PageEnds(v)

Spec == Init /\ [][Next]_vars

-----------------------------------------------------------------------------
(* Properties. *)

\* A publish is accepted only for the channel its key was issued to, and never
\* if the key had been replaced when the publish began: regenerating works
\* from then on, also when it reported an error, when two of them raced, and
\* across restarts.
KeySound ==
  /\ TypeOK
  /\ \A p \in Pubs : pub[p] # None /\ pub[p].st # "sent" =>
       ~pub[p].dead /\ pub[p].key.for = pub[p].user

\* The title a watch page shows is at least as new as the one the channel had
\* when the running stream was published or, if it is offline, when the page
\* was requested: the copy a session keeps is never from before its publish,
\* and the row read before the registry never hides it.
TitleNotOlder ==
  \A v \in Views : view[v] # None /\ view[v].st = "done" =>
    view[v].title >= view[v].floor

=============================================================================
