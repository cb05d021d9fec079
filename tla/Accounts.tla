------------------------------ MODULE Accounts ------------------------------
(***************************************************************************)
(* Accounts and login sessions: the auth service with its handlers and     *)
(* middleware (auth/), the route table (web/server.go) and the upgrade of  *)
(* a chat connection.  The tables are sets of rows.                        *)
(*                                                                         *)
(* A browser has several requests under way at once, one per slot.  Each   *)
(* carries the cookie the browser had when it was sent; between two        *)
(* database calls of a handler anything else may happen, and responses     *)
(* reach the browser in any order or not at all.  Random tokens are never  *)
(* issued twice, hence numbers; a token also carries the user it was       *)
(* issued to, for the properties: no action looks at it.                   *)
(***************************************************************************)
EXTENDS Naturals

CONSTANTS
  Browsers, Names,   \* Names: the usernames people sign up with
  Slots,             \* requests that may be under way at the same time
  None, Keep,        \* no value; no Set-Cookie header
  Faults,            \* "db": a statement may fail; "net": a response is lost
  TTL,               \* life time of a login session, in ticks
  MaxTokens, MaxTime \* bounds

Tokens == [n : 1..MaxTokens, for : Names]

ASSUME AccountsAssumption ==
  /\ None \notin Names \cup Browsers \cup Tokens
  /\ Keep \notin Tokens \cup {None}
  /\ TTL \in Nat \ {0} /\ MaxTokens \in Nat /\ MaxTime \in Nat

VARIABLES
  now,        \* the clock, of server and database
  users,      \* table users: the names
  channels,   \* table channels: the names of the owners
  sessions,   \* table sessions: rows [id, user, exp]
  tokens,     \* how many tokens were issued so far
  cookie,     \* [Browsers -> token or None]
  req         \* [Slots -> request]

tables == <<users, channels, sessions>>
vars   == <<now, tables, tokens, cookie, req>>

Guest     == {"signup", "login"}       \* behind RequireGuest
Protected == {"logout", "dashboard"}   \* behind RequireAuth
Kinds     == Guest \cup Protected \cup {"watch", "chat"}

\* Of a request: the cookie it carried and whether that token was dead when
\* it was sent; the account a form names; the user of its context; whether
\* the session lookup failed; the Set-Cookie header of the response, where
\* None clears the cookie.
Requests ==
  [st : {"idle", "sent", "handler", "tx", "login", "done", "chat"},
   b : Browsers \cup {None}, kind : Kinds \cup {None},
   tok : Tokens \cup {None}, stale : BOOLEAN, name : Names \cup {None},
   user : Names \cup {None}, err : BOOLEAN, set : Tokens \cup {None, Keep}]

NoReq == [st |-> "idle", b |-> None, kind |-> None, tok |-> None,
          stale |-> FALSE, name |-> None, user |-> None, err |-> FALSE,
          set |-> Keep]

TypeOK ==
  /\ now \in 0..MaxTime
  /\ users \subseteq Names /\ channels \subseteq Names
  /\ sessions \subseteq [id : Tokens, user : Names, exp : 0..MaxTime+TTL]
  /\ tokens \in 0..MaxTokens
  /\ cookie \in [Browsers -> Tokens \cup {None}]
  /\ req \in [Slots -> Requests]

\* A migrated, empty database; the process has booted.
Init ==
  /\ now = 0
  /\ users = {} /\ channels = {} /\ sessions = {}
  /\ tokens = 0
  /\ cookie = [b \in Browsers |-> None]
  /\ req = [r \in Slots |-> NoReq]

-----------------------------------------------------------------------------
(* Requests and the middleware. *)

\* The token has a session row that has not expired.
Valid(t) == \E s \in sessions : s.id = t /\ s.exp > now

At(r, st, kinds) == req[r].st = st /\ req[r].kind \in kinds

\* The handler of slot r goes on with the record q.
Step(r, q) == req' = [req EXCEPT ![r] = q]

\* The handler returns.  A response without Set-Cookie has no effect on the
\* browser's state, so that it need not be followed any further.
Respond(r, q) ==
  Step(r, IF q.set = Keep THEN NoReq
          ELSE [q EXCEPT !.st = "done", !.user = None, !.stale = FALSE,
                         !.name = None])

Send(r, b, kind, u) ==
  /\ req[r].st = "idle"
  /\ Step(r, [NoReq EXCEPT
       !.st = "sent", !.b = b, !.kind = kind, !.tok = cookie[b],
       !.stale = cookie[b] # None /\ ~Valid(cookie[b]),
       !.name = IF kind \in Guest THEN u ELSE None])
  /\ UNCHANGED <<now, tables, tokens, cookie>>

\* Mutant: the query does not compare expires_at.
LookupIgnoresExpiry(t) == {s \in sessions : s.id = t}

\* Mutant: a session is taken for expired one tick early.
LookupTooStrict(t) == {s \in sessions : s.id = t /\ s.exp > now + 1}

\* The row of the token that has not expired, or none.
GetSessionWithUser(t) == {s \in sessions : s.id = t /\ s.exp > now}

SessionUser(t) == {s.user : s \in GetSessionWithUser(t)}

\* RequireAuth sends a guest to /login, RequireGuest a user to /dashboard;
\* otherwise the handler runs, as u or as a guest.
Route(r, u, set, err) ==
  LET q == [req[r] EXCEPT !.user = u, !.set = set, !.err = err]
  IN  IF q.kind \in (IF u = None THEN Protected ELSE Guest) THEN Respond(r, q)
      ELSE Step(r, [q EXCEPT !.st = "handler"])

\* No cookie: anonymous.  A row: its user goes into the context.  No row, or
\* any error of the lookup: anonymous, and the response clears the cookie.
Middleware(r) ==
  /\ req[r].st = "sent"
  /\ LET t == req[r].tok
     IN  \/ t = None /\ Route(r, None, Keep, FALSE)
         \/ \E u \in SessionUser(t) : Route(r, u, Keep, FALSE)
         \/ t # None /\ SessionUser(t) = {} /\ Route(r, None, None, FALSE)
         \/ t # None /\ "db" \in Faults /\ Route(r, None, None, TRUE)
  /\ UNCHANGED <<now, tables, tokens, cookie>>

-----------------------------------------------------------------------------
(* Signup, login and logout. *)

\* A bad form, a taken name or email, bad credentials, or an error before
\* the commit, which rolls the transaction back.
Refused(r) ==
  /\ At(r, "handler", Guest) \/ req[r].st = "tx"
  /\ Respond(r, req[r])
  /\ UNCHANGED <<now, tables, tokens, cookie>>

\* The two INSERTs, not yet visible to others.  The unique index makes an
\* INSERT of the same name wait until the first transaction has ended.
SignupInsert(r) ==
  /\ At(r, "handler", {"signup"})
  /\ req[r].name \notin users
  /\ \A o \in Slots : req[o].st = "tx" => req[o].name # req[r].name
  /\ Step(r, [req[r] EXCEPT !.st = "tx"])
  /\ UNCHANGED <<now, tables, tokens, cookie>>

\* Mutant: the INSERTs are not in one transaction, and the second may fail.
SignupWithoutTx(r) ==
  /\ req[r].st = "tx"
  /\ users' = users \cup {req[r].name}
  /\ \/ /\ channels' = channels \cup {req[r].name}
        /\ Step(r, [req[r] EXCEPT !.st = "login"])
     \/ "db" \in Faults /\ UNCHANGED channels /\ Respond(r, req[r])
  /\ UNCHANGED <<now, sessions, tokens, cookie>>

\* After a failed COMMIT the rows are there or not, and the form says error.
SignupCommit(r) ==
  /\ req[r].st = "tx"
  /\ \/ /\ users' = users \cup {req[r].name}
        /\ channels' = channels \cup {req[r].name}
        /\ \/ Step(r, [req[r] EXCEPT !.st = "login"])
           \/ "db" \in Faults /\ Respond(r, req[r])
     \/ "db" \in Faults /\ UNCHANGED <<users, channels>> /\ Respond(r, req[r])
  /\ UNCHANGED <<now, sessions, tokens, cookie>>

Login(r) ==
  /\ At(r, "handler", {"login"}) /\ req[r].name \in users
  /\ Step(r, [req[r] EXCEPT !.st = "login"])
  /\ UNCHANGED <<now, tables, tokens, cookie>>

InsertSession(t, u) ==
  sessions \cup {[id |-> t, user |-> u, exp |-> now + TTL]}

\* The last step of signup and of login; if it fails no cookie is set, and the
\* row may be there or not.
CreateSession(r) ==
  /\ req[r].st = "login" /\ tokens < MaxTokens
  /\ tokens' = tokens + 1
  /\ LET t    == [n |-> tokens + 1, for |-> req[r].name]
         rows == InsertSession(t, req[r].name)
     IN  \/ sessions' = rows /\ Respond(r, [req[r] EXCEPT !.set = t])
         \/ /\ "db" \in Faults /\ sessions' \in {sessions, rows}
            /\ Respond(r, req[r])
  /\ UNCHANGED <<now, users, channels, cookie>>

\* Mutant: every session of the user is deleted.
DeleteEverySession(t) == {s \in sessions : s.user # t.for}

DeleteSession(t) == {s \in sessions : s.id # t}

\* The cookie is cleared even if the DELETE failed.
Logout(r) ==
  /\ At(r, "handler", {"logout"})
  /\ \/ sessions' = DeleteSession(req[r].tok)
     \/ "db" \in Faults /\ UNCHANGED sessions
  /\ Respond(r, [req[r] EXCEPT !.set = None])
  /\ UNCHANGED <<now, users, channels, tokens, cookie>>

\* The other pages, and an upgrade that is refused (no such channel), read and
\* write nothing of this module.
ServePage(r) ==
  /\ At(r, "handler", {"dashboard", "watch", "chat"})
  /\ Respond(r, req[r])
  /\ UNCHANGED <<now, tables, tokens, cookie>>

-----------------------------------------------------------------------------
(* Browsers (external) and chat connections. *)

SetCookie(r) ==
  cookie' = IF req[r].set = Keep THEN cookie
            ELSE [cookie EXCEPT ![req[r].b] = req[r].set]

\* chatWS: the connection keeps the user of the upgrade for its whole life.
ChatUpgrade(r) ==
  /\ At(r, "handler", {"chat"})
  /\ Step(r, [req[r] EXCEPT !.st = "chat", !.set = Keep])
  /\ SetCookie(r) \/ ("net" \in Faults /\ UNCHANGED cookie)
  /\ UNCHANGED <<now, tables, tokens>>

ChatEnds(r) ==
  /\ req[r].st = "chat"
  /\ Step(r, NoReq)
  /\ UNCHANGED <<now, tables, tokens, cookie>>

Deliver(r) ==
  /\ req[r].st = "done"
  /\ SetCookie(r)
  /\ Step(r, NoReq)
  /\ UNCHANGED <<now, tables, tokens>>

ResponseLost(r) ==
  /\ "net" \in Faults /\ req[r].st = "done"
  /\ Step(r, NoReq)
  /\ UNCHANGED <<now, tables, tokens, cookie>>

\* MaxAge has passed, or somebody deletes the cookie.
CookieGone(b) ==
  /\ cookie[b] # None
  /\ cookie' = [cookie EXCEPT ![b] = None]
  /\ UNCHANGED <<now, tables, tokens, req>>

-----------------------------------------------------------------------------
(* Time, and the process. *)

Tick ==
  /\ now < MaxTime
  /\ now' = now + 1
  /\ UNCHANGED <<tables, tokens, cookie, req>>

\* DeleteExpiredSessions
Swept == {s \in sessions : s.exp > now}

\* The process dies, or stops, and boots again: what was under way is gone,
\* open transactions are rolled back, expired sessions are swept (a failure
\* of the sweep is only logged).
Reboot ==
  /\ sessions' \in {Swept} \cup IF "db" \in Faults THEN {sessions} ELSE {}
  /\ req' = [r \in Slots |-> NoReq]
  /\ UNCHANGED <<now, users, channels, tokens, cookie>>

-----------------------------------------------------------------------------
Next ==
  \/ Tick \/ Reboot
  \/ \E b \in Browsers : CookieGone(b)
  \/ \E r \in Slots :
       \/ \E b \in Browsers, k \in Kinds, u \in Names : Send(r, b, k, u)
       \/ Middleware(r) \/ Refused(r) \/ SignupInsert(r) \/ SignupCommit(r)
       \/ Login(r) \/ CreateSession(r) \/ Logout(r) \/ ServePage(r)
       \/ ChatUpgrade(r) \/ ChatEnds(r) \/ Deliver(r) \/ ResponseLost(r)

Spec == Init /\ [][Next]_vars

-----------------------------------------------------------------------------
(* Properties. *)

\* Signup is all or nothing: whatever fails or crashes, every account has its
\* channel and every session row its account, so that neither the "no
\* channel" answer of the dashboard nor a session without user can occur.
ChannelPerUser ==
  /\ TypeOK
  /\ users = channels
  /\ \A s \in sessions : s.user \in users
  /\ \A r \in Slots : req[r].user # None => req[r].user \in channels

\* A request runs as a user, and a chat connection speaks as one, only if its
\* token was issued to that user and was still good when the request was
\* sent: nothing revives a token that was deleted or has expired, not a
\* restart, not a failed statement, not a response that comes late.
AuthSound ==
  \A r \in Slots :
    req[r].user # None => ~req[r].stale /\ req[r].tok.for = req[r].user

\* A login lasts: a session row goes away only when it has expired or when a
\* logout that carried its very token is handled, not through restarts or
\* through what other browsers of the user do.
SessionsKept ==
  [][\A s \in sessions \ sessions' :
       \/ s.exp <= now
       \/ \E r \in Slots : At(r, "handler", {"logout"}) /\ req[r].tok = s.id]_vars

\* A browser keeps a good cookie: a response takes it away only if it answers
\* a logout, a request whose session lookup failed, or one that was sent with
\* another cookie, before this one was set.
CookieKept ==
  [][\A b \in Browsers, r \in Slots :
       /\ req[r].b = b /\ req'[r] # req[r]
       /\ cookie[b] # None /\ Valid(cookie[b]) /\ cookie'[b] = None
       => req[r].kind = "logout" \/ req[r].err \/ req[r].tok # cookie[b]]_vars

=============================================================================
