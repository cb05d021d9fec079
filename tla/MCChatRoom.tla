----------------------------- MODULE MCChatRoom -----------------------------
(* Two tabs of one user; a tab and a connection with neither user nor cookie,
   for which viewerKey is the empty string; a tab and a guest with a cookie. *)
EXTENDS ChatRoom

Tabs == {"alice1", "alice2"}
TabAndKeyless == {"alice1", "nobody"}
TabAndGuest == {"alice1", "guest"}

UserOf == [c \in Clients |-> IF c \in Tabs THEN "alice" ELSE ""]
AnonOf == [c \in Clients |-> IF c = "guest" THEN "cookie" ELSE ""]
=============================================================================
