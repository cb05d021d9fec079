---------------------------- MODULE LiveDirectory ----------------------------
(***************************************************************************)
(* What the stream package promises the web pages through ListLive and     *)
(* GetByName: a channel is live through one session at a time, a session   *)
(* is live for one uninterrupted stretch and never again, it goes offline  *)
(* only once its own stream is over, and a restart takes every channel     *)
(* offline.                                                                *)
(***************************************************************************)
CONSTANTS Sessions, Channels, NoSession

VARIABLES
  live,   \* [Channels -> the session shown as live, or NoSession]
  spent,  \* sessions that have been live or have been refused
  over    \* sessions whose stream is over: tearDown was called

vars == <<live, spent, over>>

Offline == [c \in Channels |-> NoSession]

Init == live = Offline /\ spent = {} /\ over = {}

Start(c, s) ==
  /\ live[c] = NoSession
  /\ s \notin spent
  /\ live' = [live EXCEPT ![c] = s]
  /\ spent' = spent \cup {s}
  /\ UNCHANGED over

Refuse(s) ==
  /\ s \notin spent
  /\ spent' = spent \cup {s}
  /\ UNCHANGED <<live, over>>

\* The publisher goes, ffmpeg exits or the server shuts down.
Finish(c) ==
  /\ live[c] # NoSession
  /\ over' = over \cup {live[c]}
  /\ UNCHANGED <<live, spent>>

\* Only a session whose own stream is over is taken off the directory.
End(c) ==
  /\ live[c] \in over
  /\ live' = [live EXCEPT ![c] = NoSession]
  /\ UNCHANGED <<spent, over>>

\* A restart ends every stream and every connection that was still deciding.
Restart ==
  /\ live' = Offline
  /\ spent' \in SUBSET Sessions
  /\ spent \subseteq spent'
  /\ UNCHANGED over

Next ==
  \/ Restart
  \/ \E s \in Sessions : Refuse(s)
  \/ \E c \in Channels : Finish(c) \/ End(c)
  \/ \E c \in Channels, s \in Sessions : Start(c, s)

Spec == Init /\ [][Next]_vars

=============================================================================
