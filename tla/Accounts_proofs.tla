-------------------------- MODULE Accounts_proofs ---------------------------
(***************************************************************************)
(* Proofs about Accounts, for every number of browsers, accounts, requests *)
(* under way, tokens and ticks.  The heart of it is that a token, once it  *)
(* is dead, stays dead: rows only go away, time only passes, and a new row *)
(* has a token that nobody had before.  So what a request found out about  *)
(* its token stays true however late its response is.                      *)
(***************************************************************************)
EXTENDS Accounts, TLAPS

Issued == {t \in Tokens : t.n <= tokens}
Dead   == {t \in Issued : ~Valid(t)}

\* What is known of a request q when U are the accounts, I the tokens that
\* were issued and D the dead ones.
Sound(q, U, I, D) ==
  /\ q.tok \in I \cup {None}
  /\ q.set \in I \cup {None, Keep}
  /\ q.stale => q.tok \in D
  /\ q.user # None =>
       q.user \in U /\ ~q.stale /\ q.tok # None /\ q.tok.for = q.user
  /\ q.set = None => q.kind = "logout" \/ q.err \/ q.tok \in D
  /\ q.kind \in Guest /\ q.st \in {"sent", "handler"} => q.name \in Names
  /\ q.st = "tx" => q.name \in Names
  /\ q.st = "login" => q.name \in U

TablesSound ==
  /\ users = channels
  /\ \A s \in sessions : s.user \in users /\ s.id.for = s.user /\ s.id \in Issued

CookiesIssued == \A b \in Browsers : cookie[b] \in Issued \cup {None}

RequestsSound == \A r \in Slots : Sound(req[r], users, Issued, Dead)

AccInv == TypeOK /\ TablesSound /\ CookiesIssued /\ RequestsSound

-----------------------------------------------------------------------------
(* Requests. *)

\* What a handler that returns leaves in its slot.
Answer(q) ==
  IF q.set = Keep THEN NoReq
  ELSE [q EXCEPT !.st = "done", !.user = None, !.stale = FALSE, !.name = None]

LEMMA NoReqSound ==
  ASSUME NEW U, NEW I, NEW D
  PROVE  NoReq \in Requests /\ Sound(NoReq, U, I, D)
<1>1. NoReq \in Requests
  BY DEF NoReq, Requests, Kinds
<1>2. Keep # None
  BY AccountsAssumption
<1>3. Sound(NoReq, U, I, D)
  BY <1>2 DEF NoReq, Sound, Guest
<1> QED
  BY <1>1, <1>3

LEMMA AnswerSound ==
  ASSUME NEW U, NEW I, NEW D, NEW q \in Requests, Sound(q, U, I, D)
  PROVE  Answer(q) \in Requests /\ Sound(Answer(q), U, I, D)
<1>1. CASE q.set = Keep
  BY <1>1, NoReqSound DEF Answer
<1>2. CASE q.set # Keep
  <2> DEFINE a == [q EXCEPT !.st = "done", !.user = None, !.stale = FALSE,
                            !.name = None]
  <2>1. Answer(q) = a
    BY <1>2 DEF Answer
  <2>2. /\ a \in Requests /\ a.st = "done" /\ a.user = None /\ a.stale = FALSE
        /\ a.tok = q.tok /\ a.set = q.set /\ a.kind = q.kind /\ a.err = q.err
    BY DEF Requests
  <2> HIDE DEF a
  <2>3. Sound(a, U, I, D)
    BY <2>2 DEF Sound
  <2> QED
    BY <2>1, <2>2, <2>3
<1> QED
  BY <1>1, <1>2

\* Nothing that is known of a request is lost while accounts are added, tokens
\* issued, and dead tokens stay dead.
LEMMA SoundGrows ==
  ASSUME NEW U, NEW I, NEW D, NEW V, NEW J, NEW E,
         U \subseteq V, I \subseteq J, D \subseteq E,
         NEW q \in Requests, Sound(q, U, I, D)
  PROVE  Sound(q, V, J, E)
BY DEF Sound

\* The session table may lose rows and gain one of a new token, and time may
\* pass: a dead token stays dead.
LEMMA DeadStays ==
  ASSUME AccInv, TypeOK', tokens <= tokens', now <= now',
         \A s \in sessions' : s \in sessions \/ s.id.n > tokens
  PROVE  Issued \subseteq Issued' /\ Dead \subseteq Dead'
<1>1. tokens \in Nat /\ tokens' \in Nat /\ now \in Nat /\ now' \in Nat
  BY AccountsAssumption DEF AccInv, TypeOK
<1>2. \A t \in Tokens : t.n \in Nat
  BY AccountsAssumption DEF Tokens
<1>3. Issued \subseteq Issued'
  BY <1>1, <1>2 DEF Issued
<1>4. ASSUME NEW t \in Dead
      PROVE  t \in Dead'
  <2>1. t \in Issued /\ t \in Issued' /\ t.n \in Nat /\ t.n <= tokens
    BY <1>2, <1>3 DEF Dead, Issued
  <2>2. ASSUME NEW s \in sessions', s.id = t, s.exp > now'
        PROVE  FALSE
    <3>1. s.exp \in Nat
      BY AccountsAssumption DEF TypeOK
    <3>2. s \in sessions
      BY <1>1, <2>1, <2>2
    <3>3. s.exp > now
      BY <1>1, <2>2, <3>1
    <3> QED
      BY <2>2, <3>2, <3>3 DEF Dead, Valid
  <2> QED
    BY <2>1, <2>2 DEF Dead, Valid
<1> QED
  BY <1>3, <1>4

\* A step that replaces the request of one slot.
LEMMA SlotStep ==
  ASSUME AccInv, users \subseteq users', Issued \subseteq Issued',
         Dead \subseteq Dead',
         NEW r \in Slots, NEW q \in Requests,
         Sound(q, users', Issued', Dead'), Step(r, q)
  PROVE  req' \in [Slots -> Requests] /\ RequestsSound'
<1>1. req \in [Slots -> Requests]
  BY DEF AccInv, TypeOK
<1>2. req' = [req EXCEPT ![r] = q]
  BY DEF Step
<1>3. req' \in [Slots -> Requests]
  BY <1>1, <1>2
<1>4. ASSUME NEW o \in Slots
      PROVE  Sound(req'[o], users', Issued', Dead')
  <2>1. CASE o = r
    BY <1>1, <1>2, <2>1
  <2>2. CASE o # r
    <3>1. req'[o] = req[o] /\ req[o] \in Requests
      BY <1>1, <1>2, <2>2
    <3>2. Sound(req[o], users, Issued, Dead)
      BY DEF AccInv, RequestsSound
    <3> QED
      BY <3>1, <3>2, SoundGrows
  <2> QED
    BY <2>1, <2>2
<1> QED
  BY <1>3, <1>4 DEF RequestsSound

\* A step of a handler that touches nothing but its own slot.
LEMMA HandlerStep ==
  ASSUME AccInv, UNCHANGED <<now, tables, tokens, cookie>>,
         NEW r \in Slots, NEW q \in Requests,
         Sound(q, users, Issued, Dead), Step(r, q)
  PROVE  AccInv'
<1>1. UNCHANGED <<now, users, channels, sessions, tokens, cookie>>
  BY DEF tables
<1>2. Issued' = Issued /\ Dead' = Dead
  BY <1>1 DEF Issued, Dead, Valid
<1>3. req' \in [Slots -> Requests] /\ RequestsSound'
  BY <1>1, <1>2, SlotStep
<1>4. TypeOK' /\ TablesSound' /\ CookiesIssued'
  BY <1>1, <1>2, <1>3 DEF AccInv, TypeOK, TablesSound, CookiesIssued
<1> QED
  BY <1>3, <1>4 DEF AccInv

\* The same when the handler returns.
LEMMA ReturnStep ==
  ASSUME AccInv, UNCHANGED <<now, tables, tokens, cookie>>,
         NEW r \in Slots, NEW q \in Requests,
         Sound(q, users, Issued, Dead), Respond(r, q)
  PROVE  AccInv'
<1>1. Step(r, Answer(q))
  BY DEF Respond, Answer
<1> QED
  BY <1>1, AnswerSound, HandlerStep

-----------------------------------------------------------------------------
(* The invariant. *)

LEMMA AccInit == Init => AccInv
<1> SUFFICES ASSUME Init
             PROVE  AccInv
  OBVIOUS
<1>1. TypeOK
  BY NoReqSound, AccountsAssumption DEF Init, TypeOK
<1>2. TablesSound /\ CookiesIssued
  BY DEF Init, TablesSound, CookiesIssued
<1>3. RequestsSound
  BY NoReqSound DEF Init, RequestsSound
<1> QED
  BY <1>1, <1>2, <1>3 DEF AccInv

\* The request of a slot, and what is known of it.
LEMMA InSlot ==
  ASSUME AccInv, NEW r \in Slots
  PROVE  req[r] \in Requests /\ Sound(req[r], users, Issued, Dead)
BY DEF AccInv, TypeOK, RequestsSound

LEMMA SendStep ==
  ASSUME AccInv, NEW r \in Slots, NEW b \in Browsers, NEW k \in Kinds,
         NEW u \in Names, Send(r, b, k, u)
  PROVE  AccInv'
<1> DEFINE dead == cookie[b] # None /\ ~Valid(cookie[b])
           name == IF k \in Guest THEN u ELSE None
           q == [NoReq EXCEPT !.st = "sent", !.b = b, !.kind = k,
                              !.tok = cookie[b], !.stale = dead, !.name = name]
<1>1. cookie[b] \in Tokens \cup {None} /\ cookie[b] \in Issued \cup {None}
  BY DEF AccInv, TypeOK, CookiesIssued
<1>2. dead \in BOOLEAN /\ (dead => cookie[b] \in Dead)
  BY <1>1 DEF Dead, Valid
<1>3. name \in Names \cup {None} /\ (k \in Guest => name \in Names)
  OBVIOUS
<1>4. Step(r, q) /\ UNCHANGED <<now, tables, tokens, cookie>>
  BY DEF Send
<1> HIDE DEF dead, name
<1>5. q \in Requests
  BY <1>1, <1>2, <1>3 DEF NoReq, Requests
<1>6. /\ q.st = "sent" /\ q.kind = k /\ q.tok = cookie[b] /\ q.stale = dead
      /\ q.name = name /\ q.user = None /\ q.set = Keep
  BY DEF NoReq
<1> HIDE DEF q
<1>7. Keep # None
  BY AccountsAssumption
<1>8. Sound(q, users, Issued, Dead)
  BY <1>1, <1>2, <1>3, <1>6, <1>7 DEF Sound
<1> QED
  BY <1>4, <1>5, <1>8, HandlerStep

\* The middleware hands on what it found about the token.
LEMMA RouteStep ==
  ASSUME AccInv, UNCHANGED <<now, tables, tokens, cookie>>,
         NEW r \in Slots, NEW u \in Names \cup {None},
         NEW set \in {None, Keep}, NEW err \in BOOLEAN,
         req[r].st = "sent", Route(r, u, set, err),
         u # None => /\ u \in users /\ req[r].tok \in Issued
                     /\ req[r].tok \notin Dead /\ req[r].tok.for = u,
         set = None => err \/ req[r].tok \in Dead
  PROVE  AccInv'
<1> DEFINE q == [req[r] EXCEPT !.user = u, !.set = set, !.err = err]
           h == [q EXCEPT !.st = "handler"]
<1>1. req[r] \in Requests /\ Sound(req[r], users, Issued, Dead)
  BY InSlot
<1>2. Respond(r, q) \/ Step(r, h)
  BY DEF Route
<1>3. /\ q \in Requests /\ q.user = u /\ q.set = set /\ q.err = err
      /\ q.st = "sent" /\ q.kind = req[r].kind /\ q.tok = req[r].tok
      /\ q.stale = req[r].stale /\ q.name = req[r].name
  <2>1. q \in Requests
    BY <1>1 DEF Requests
  <2>2. /\ q.user = u /\ q.set = set /\ q.err = err
        /\ q.st = "sent" /\ q.kind = req[r].kind /\ q.tok = req[r].tok
        /\ q.stale = req[r].stale /\ q.name = req[r].name
    BY <1>1 DEF Requests
  <2> QED
    BY <2>1, <2>2
<1> HIDE DEF q
<1>4. /\ h \in Requests /\ h.user = u /\ h.set = set /\ h.err = err
      /\ h.st = "handler" /\ h.kind = req[r].kind /\ h.tok = req[r].tok
      /\ h.stale = req[r].stale /\ h.name = req[r].name
  BY <1>3 DEF Requests
<1> HIDE DEF h
<1>5. req[r].tok \in Issued => req[r].tok # None
  BY AccountsAssumption DEF Issued
<1>6. Sound(q, users, Issued, Dead)
  BY <1>1, <1>3, <1>5 DEF Sound
<1>7. Sound(h, users, Issued, Dead)
  BY <1>1, <1>4, <1>5 DEF Sound
<1> QED
  BY <1>2, <1>3, <1>4, <1>6, <1>7, ReturnStep, HandlerStep

LEMMA MiddlewareStep ==
  ASSUME AccInv, NEW r \in Slots, Middleware(r)
  PROVE  AccInv'
<1> DEFINE t == req[r].tok
<1>1. req[r].st = "sent" /\ UNCHANGED <<now, tables, tokens, cookie>>
  BY DEF Middleware
<1>2. t \in Issued \cup {None}
  BY InSlot DEF Sound
<1>3. Keep # None /\ FALSE \in BOOLEAN /\ TRUE \in BOOLEAN
  BY AccountsAssumption
<1>4. CASE Route(r, None, Keep, FALSE)
  BY <1>1, <1>3, <1>4, RouteStep
<1>5. ASSUME NEW u \in SessionUser(t), Route(r, u, Keep, FALSE)
      PROVE  AccInv'
  <2>1. PICK s \in sessions : s.id = t /\ s.exp > now /\ s.user = u
    BY DEF SessionUser, GetSessionWithUser
  <2>2. u \in users /\ t.for = u /\ t \in Issued
    BY <2>1 DEF AccInv, TablesSound
  <2>3. t \notin Dead
    BY <2>1 DEF Dead, Valid
  <2>4. u \in Names \cup {None}
    BY <2>2 DEF AccInv, TypeOK
  <2> QED
    BY <1>1, <1>3, <1>5, <2>2, <2>3, <2>4, RouteStep
<1>6. CASE t # None /\ SessionUser(t) = {} /\ Route(r, None, None, FALSE)
  <2>1. ~Valid(t)
    BY <1>6 DEF SessionUser, GetSessionWithUser, Valid
  <2>2. t \in Dead
    BY <1>2, <1>6, <2>1 DEF Dead
  <2> QED
    BY <1>1, <1>3, <1>6, <2>2, RouteStep
<1>7. CASE Route(r, None, None, TRUE)
  BY <1>1, <1>3, <1>7, RouteStep
<1> QED
  BY <1>4, <1>5, <1>6, <1>7 DEF Middleware

\* The other steps that touch nothing but the slot.
LEMMA LocalStep ==
  ASSUME AccInv, NEW r \in Slots,
         \/ Refused(r) \/ SignupInsert(r) \/ Login(r) \/ ServePage(r)
         \/ ChatEnds(r) \/ ResponseLost(r)
  PROVE  AccInv'
<1>1. req[r] \in Requests /\ Sound(req[r], users, Issued, Dead)
  BY InSlot
<1>2. CASE Refused(r) \/ ServePage(r)
  BY <1>1, <1>2, ReturnStep DEF Refused, ServePage
<1>3. CASE SignupInsert(r)
  <2> DEFINE q == [req[r] EXCEPT !.st = "tx"]
  <2>1. /\ Step(r, q) /\ UNCHANGED <<now, tables, tokens, cookie>>
        /\ req[r].st = "handler" /\ req[r].kind = "signup"
    BY <1>3 DEF SignupInsert, At
  <2>2. /\ q \in Requests /\ q.st = "tx" /\ q.user = req[r].user
        /\ q.set = req[r].set /\ q.err = req[r].err /\ q.kind = req[r].kind
        /\ q.tok = req[r].tok /\ q.stale = req[r].stale /\ q.name = req[r].name
    BY <1>1 DEF Requests
  <2> HIDE DEF q
  <2>3. Sound(q, users, Issued, Dead)
    BY <1>1, <2>1, <2>2 DEF Sound, Guest
  <2> QED
    BY <2>1, <2>2, <2>3, HandlerStep
<1>4. CASE Login(r)
  <2> DEFINE q == [req[r] EXCEPT !.st = "login"]
  <2>1. /\ Step(r, q) /\ UNCHANGED <<now, tables, tokens, cookie>>
        /\ req[r].name \in users
    BY <1>4 DEF Login
  <2>2. /\ q \in Requests /\ q.st = "login" /\ q.user = req[r].user
        /\ q.set = req[r].set /\ q.err = req[r].err /\ q.kind = req[r].kind
        /\ q.tok = req[r].tok /\ q.stale = req[r].stale /\ q.name = req[r].name
    BY <1>1 DEF Requests
  <2> HIDE DEF q
  <2>3. Sound(q, users, Issued, Dead)
    BY <1>1, <2>1, <2>2 DEF Sound
  <2> QED
    BY <2>1, <2>2, <2>3, HandlerStep
<1>5. CASE ChatEnds(r) \/ ResponseLost(r)
  BY <1>5, NoReqSound, HandlerStep DEF ChatEnds, ResponseLost
<1> QED
  BY <1>2, <1>3, <1>4, <1>5

\* The two INSERTs become visible together, or not at all.
LEMMA SignupCommitStep ==
  ASSUME AccInv, NEW r \in Slots, SignupCommit(r)
  PROVE  AccInv'
<1> DEFINE q == [req[r] EXCEPT !.st = "login"]
<1>1. /\ req[r] \in Requests /\ Sound(req[r], users, Issued, Dead)
      /\ req[r].st = "tx" /\ req[r].name \in Names
  BY InSlot DEF SignupCommit, Sound
<1>2. /\ UNCHANGED <<now, sessions, tokens, cookie>>
      /\ \/ /\ users' = users \cup {req[r].name}
            /\ channels' = channels \cup {req[r].name}
            /\ Step(r, q) \/ Respond(r, req[r])
         \/ UNCHANGED <<users, channels>> /\ Respond(r, req[r])
  BY DEF SignupCommit
<1>3. Issued' = Issued /\ Dead' = Dead
  BY <1>2 DEF Issued, Dead, Valid
<1>4. users \subseteq users' /\ users' \subseteq Names /\ channels' = users'
  BY <1>1, <1>2 DEF AccInv, TypeOK, TablesSound
<1>5. /\ q \in Requests /\ q.st = "login" /\ q.user = req[r].user
      /\ q.set = req[r].set /\ q.err = req[r].err /\ q.kind = req[r].kind
      /\ q.tok = req[r].tok /\ q.stale = req[r].stale /\ q.name = req[r].name
  BY <1>1 DEF Requests
<1>6. Sound(req[r], users', Issued', Dead')
  BY <1>1, <1>3, <1>4, SoundGrows
<1>7. req' \in [Slots -> Requests] /\ RequestsSound'
  <2>1. CASE Respond(r, req[r])
    <3>1. Step(r, Answer(req[r]))
      BY <2>1 DEF Respond, Answer
    <3>2. Answer(req[r]) \in Requests
          /\ Sound(Answer(req[r]), users', Issued', Dead')
      BY <1>1, <1>6, AnswerSound
    <3> QED
      BY <1>3, <1>4, <3>1, <3>2, SlotStep
  <2>2. CASE users' = users \cup {req[r].name} /\ Step(r, q)
    <3> HIDE DEF q
    <3>1. Sound(q, users', Issued', Dead')
      BY <1>5, <1>6, <2>2 DEF Sound
    <3> QED
      BY <1>3, <1>4, <1>5, <2>2, <3>1, SlotStep
  <2> QED
    BY <1>2, <2>1, <2>2
<1>8. TypeOK'
  BY <1>2, <1>4, <1>7 DEF AccInv, TypeOK
<1>9. TablesSound' /\ CookiesIssued'
  BY <1>2, <1>3, <1>4 DEF AccInv, TablesSound, CookiesIssued
<1> QED
  BY <1>7, <1>8, <1>9 DEF AccInv

LEMMA CreateSessionStep ==
  ASSUME AccInv, NEW r \in Slots, CreateSession(r)
  PROVE  AccInv'
<1> DEFINE t == [n |-> tokens + 1, for |-> req[r].name]
           row == [id |-> t, user |-> req[r].name, exp |-> now + TTL]
           q == [req[r] EXCEPT !.set = t]
<1>1. /\ req[r] \in Requests /\ Sound(req[r], users, Issued, Dead)
      /\ req[r].st = "login" /\ req[r].name \in users
  BY InSlot DEF CreateSession, Sound
<1>2. /\ UNCHANGED <<now, users, channels, cookie>>
      /\ tokens < MaxTokens /\ tokens' = tokens + 1
      /\ \/ sessions' = sessions \cup {row} /\ Respond(r, q)
         \/ sessions' \in {sessions, sessions \cup {row}} /\ Respond(r, req[r])
  BY DEF CreateSession, InsertSession
<1>3. /\ now \in 0..MaxTime /\ tokens \in 0..MaxTokens /\ tokens' \in 0..MaxTokens
      /\ users \subseteq Names
  BY <1>2, AccountsAssumption DEF AccInv, TypeOK
<1>4. now + TTL \in 0..MaxTime+TTL /\ tokens + 1 \in 1..MaxTokens
  BY <1>2, <1>3, AccountsAssumption
<1>5. /\ t \in Tokens /\ t.n = tokens + 1 /\ t.for = req[r].name /\ t \in Issued'
  BY <1>1, <1>2, <1>3, <1>4 DEF Tokens, Issued
<1>6. req[r].set \in Issued \cup {None, Keep}
  BY <1>1 DEF Sound
<1> HIDE DEF t
<1>7. /\ row \in [id : Tokens, user : Names, exp : 0..MaxTime+TTL]
      /\ row.id = t /\ row.user = req[r].name
  BY <1>1, <1>3, <1>4, <1>5
<1>8. /\ q \in Requests /\ q.st = "login" /\ q.user = req[r].user
      /\ q.set = t /\ q.err = req[r].err /\ q.kind = req[r].kind
      /\ q.tok = req[r].tok /\ q.stale = req[r].stale /\ q.name = req[r].name
  BY <1>1, <1>5 DEF Requests
<1> HIDE DEF row, q
<1>9. sessions' \subseteq sessions \cup {row}
  BY <1>2
<1>10. sessions' \subseteq [id : Tokens, user : Names, exp : 0..MaxTime+TTL]
  BY <1>7, <1>9 DEF AccInv, TypeOK
<1>11. tokens <= tokens' /\ now <= now' /\ tokens + 1 > tokens
  BY <1>2, <1>3
<1>12. \A s \in sessions' : s \in sessions \/ s.id.n > tokens
  BY <1>5, <1>7, <1>9, <1>11
<1>13. Answer(q) \in Requests /\ Answer(req[r]) \in Requests
  <2>1. ASSUME NEW p \in Requests
        PROVE  Answer(p) \in Requests
    BY NoReqSound DEF Answer, Requests
  <2> QED
    BY <1>1, <1>8, <2>1
<1>14. TypeOK'
  <2>1. req' = [req EXCEPT ![r] = Answer(q)] \/ req' = [req EXCEPT ![r] = Answer(req[r])]
    BY <1>2 DEF Respond, Answer, Step
  <2>2. req' \in [Slots -> Requests]
    BY <1>13, <2>1 DEF AccInv, TypeOK
  <2> QED
    BY <1>2, <1>3, <1>10, <2>2 DEF AccInv, TypeOK
<1>15. Issued \subseteq Issued' /\ Dead \subseteq Dead'
  BY <1>11, <1>12, <1>14, DeadStays
<1>16. Sound(req[r], users', Issued', Dead')
  BY <1>1, <1>2, <1>15, SoundGrows
<1>17. Sound(q, users', Issued', Dead')
  <2>1. t # None
    BY <1>5, AccountsAssumption
  <2> QED
    BY <1>1, <1>5, <1>8, <1>16, <2>1 DEF Sound
<1>18. RequestsSound'
  <2>1. CASE Respond(r, q)
    <3>1. Step(r, Answer(q))
      BY <2>1 DEF Respond, Answer
    <3>2. Sound(Answer(q), users', Issued', Dead')
      BY <1>8, <1>17, AnswerSound
    <3> QED
      BY <1>2, <1>13, <1>15, <3>1, <3>2, SlotStep
  <2>2. CASE Respond(r, req[r])
    <3>1. Step(r, Answer(req[r]))
      BY <2>2 DEF Respond, Answer
    <3>2. Sound(Answer(req[r]), users', Issued', Dead')
      BY <1>1, <1>16, AnswerSound
    <3> QED
      BY <1>2, <1>13, <1>15, <3>1, <3>2, SlotStep
  <2> QED
    BY <1>2, <2>1, <2>2
<1>19. TablesSound'
  BY <1>1, <1>2, <1>5, <1>7, <1>9, <1>15 DEF AccInv, TablesSound
<1>20. CookiesIssued'
  BY <1>2, <1>15 DEF AccInv, CookiesIssued
<1> QED
  BY <1>14, <1>18, <1>19, <1>20 DEF AccInv

\* Fewer sessions, or a later time, with the same accounts and tokens.
LEMMA FewerSessions ==
  ASSUME AccInv, TypeOK', UNCHANGED <<users, channels, tokens, cookie>>,
         now <= now', sessions' \subseteq sessions
  PROVE  /\ Issued \subseteq Issued' /\ Dead \subseteq Dead'
         /\ TablesSound' /\ CookiesIssued'
<1>1. tokens <= tokens'
  BY AccountsAssumption DEF AccInv, TypeOK
<1>2. Issued \subseteq Issued' /\ Dead \subseteq Dead'
  BY <1>1, DeadStays
<1>3. TablesSound' /\ CookiesIssued'
  BY <1>2 DEF AccInv, TablesSound, CookiesIssued
<1> QED
  BY <1>2, <1>3

LEMMA LogoutStep ==
  ASSUME AccInv, NEW r \in Slots, Logout(r)
  PROVE  AccInv'
<1> DEFINE q == [req[r] EXCEPT !.set = None]
<1>1. /\ req[r] \in Requests /\ Sound(req[r], users, Issued, Dead)
      /\ req[r].kind = "logout" /\ req[r].st = "handler"
  BY InSlot DEF Logout, At
<1>2. /\ UNCHANGED <<now, users, channels, tokens, cookie>>
      /\ sessions' \subseteq sessions /\ Respond(r, q)
  BY DEF Logout, DeleteSession
<1>3. /\ q \in Requests /\ q.st = "handler" /\ q.user = req[r].user
      /\ q.set = None /\ q.err = req[r].err /\ q.kind = "logout"
      /\ q.tok = req[r].tok /\ q.stale = req[r].stale /\ q.name = req[r].name
  BY <1>1 DEF Requests
<1> HIDE DEF q
<1>4. Sound(q, users, Issued, Dead)
  BY <1>1, <1>3 DEF Sound, Guest
<1>5. Step(r, Answer(q))
  BY <1>2 DEF Respond, Answer
<1>6. Answer(q) \in Requests /\ Sound(Answer(q), users, Issued, Dead)
  BY <1>3, <1>4, AnswerSound
<1>7. req' \in [Slots -> Requests]
  BY <1>5, <1>6 DEF Step, AccInv, TypeOK
<1>8. TypeOK'
  BY <1>2, <1>7 DEF AccInv, TypeOK
<1>9. now <= now'
  BY <1>2, AccountsAssumption DEF AccInv, TypeOK
<1>10. /\ Issued \subseteq Issued' /\ Dead \subseteq Dead'
       /\ TablesSound' /\ CookiesIssued'
  BY <1>2, <1>8, <1>9, FewerSessions
<1>11. Sound(Answer(q), users', Issued', Dead')
  BY <1>2, <1>6, <1>10, SoundGrows
<1>12. RequestsSound'
  BY <1>2, <1>5, <1>6, <1>10, <1>11, SlotStep
<1> QED
  BY <1>8, <1>10, <1>12 DEF AccInv

\* A response or an upgrade reaches the browser.
LEMMA CookieStep ==
  ASSUME AccInv, NEW r \in Slots, NEW q \in Requests,
         Sound(q, users, Issued, Dead), Step(r, q),
         SetCookie(r) \/ UNCHANGED cookie, UNCHANGED <<now, tables, tokens>>
  PROVE  AccInv'
<1>1. /\ req[r].set \in Tokens \cup {None, Keep}
      /\ req[r].set \in Issued \cup {None, Keep}
  BY InSlot DEF Sound, Requests
<1>2. UNCHANGED <<now, users, channels, sessions, tokens>>
  BY DEF tables
<1>3. Issued' = Issued /\ Dead' = Dead
  BY <1>2 DEF Issued, Dead, Valid
<1>4. cookie \in [Browsers -> Tokens \cup {None}] /\ CookiesIssued
  BY DEF AccInv, TypeOK
<1>5. \/ cookie' = cookie
      \/ req[r].set # Keep /\ cookie' = [cookie EXCEPT ![req[r].b] = req[r].set]
  BY DEF SetCookie
<1>6. cookie' \in [Browsers -> Tokens \cup {None}] /\ CookiesIssued'
  BY <1>1, <1>3, <1>4, <1>5 DEF CookiesIssued
<1>7. req' \in [Slots -> Requests] /\ RequestsSound'
  BY <1>2, <1>3, SlotStep
<1>8. TypeOK' /\ TablesSound'
  BY <1>2, <1>3, <1>6, <1>7 DEF AccInv, TypeOK, TablesSound
<1> QED
  BY <1>6, <1>7, <1>8 DEF AccInv

LEMMA BrowserStep ==
  ASSUME AccInv, NEW r \in Slots, ChatUpgrade(r) \/ Deliver(r)
  PROVE  AccInv'
<1>1. CASE ChatUpgrade(r)
  <2> DEFINE q == [req[r] EXCEPT !.st = "chat", !.set = Keep]
  <2>1. /\ Step(r, q) /\ UNCHANGED <<now, tables, tokens>>
        /\ SetCookie(r) \/ UNCHANGED cookie
    BY <1>1 DEF ChatUpgrade
  <2>2. req[r] \in Requests /\ Sound(req[r], users, Issued, Dead)
    BY InSlot
  <2>3. /\ q \in Requests /\ q.st = "chat" /\ q.user = req[r].user
        /\ q.set = Keep /\ q.err = req[r].err /\ q.kind = req[r].kind
        /\ q.tok = req[r].tok /\ q.stale = req[r].stale /\ q.name = req[r].name
    BY <2>2 DEF Requests
  <2> HIDE DEF q
  <2>4. Keep # None
    BY AccountsAssumption
  <2>5. Sound(q, users, Issued, Dead)
    BY <2>2, <2>3, <2>4 DEF Sound
  <2> QED
    BY <2>1, <2>3, <2>5, CookieStep
<1>2. CASE Deliver(r)
  BY <1>2, NoReqSound, CookieStep DEF Deliver
<1> QED
  BY <1>1, <1>2

\* The browser, the clock and the process.
LEMMA OutsideStep ==
  ASSUME AccInv, Tick \/ Reboot \/ \E b \in Browsers : CookieGone(b)
  PROVE  AccInv'
<1>1. ASSUME NEW b \in Browsers, CookieGone(b)
      PROVE  AccInv'
  <2>1. UNCHANGED <<now, users, channels, sessions, tokens, req>>
    BY <1>1 DEF CookieGone, tables
  <2>2. Issued' = Issued /\ Dead' = Dead
    BY <2>1 DEF Issued, Dead, Valid
  <2>3. TypeOK' /\ CookiesIssued'
    BY <1>1, <2>1, <2>2 DEF CookieGone, AccInv, TypeOK, CookiesIssued
  <2>4. TablesSound' /\ RequestsSound'
    BY <2>1, <2>2 DEF AccInv, TablesSound, RequestsSound
  <2> QED
    BY <2>3, <2>4 DEF AccInv
<1>2. CASE Tick
  <2>1. /\ now' = now + 1 /\ now < MaxTime
        /\ UNCHANGED <<users, channels, sessions, tokens, cookie, req>>
    BY <1>2 DEF Tick, tables
  <2>2. now \in Nat /\ now' \in 0..MaxTime /\ now <= now'
    BY <2>1, AccountsAssumption DEF AccInv, TypeOK
  <2>3. TypeOK'
    BY <2>1, <2>2 DEF AccInv, TypeOK
  <2>4. /\ Issued \subseteq Issued' /\ Dead \subseteq Dead'
        /\ TablesSound' /\ CookiesIssued'
    BY <2>1, <2>2, <2>3, FewerSessions
  <2>5. ASSUME NEW r \in Slots
        PROVE  Sound(req'[r], users', Issued', Dead')
    BY <2>1, <2>4, InSlot, SoundGrows
  <2> QED
    BY <2>3, <2>4, <2>5 DEF AccInv, RequestsSound
<1>3. CASE Reboot
  <2>1. /\ UNCHANGED <<now, users, channels, tokens, cookie>>
        /\ sessions' \subseteq sessions /\ req' = [r \in Slots |-> NoReq]
    BY <1>3 DEF Reboot, Swept
  <2>2. TypeOK'
    BY <2>1, NoReqSound DEF AccInv, TypeOK
  <2>3. now <= now'
    BY <2>1, AccountsAssumption DEF AccInv, TypeOK
  <2>4. TablesSound' /\ CookiesIssued'
    BY <2>1, <2>2, <2>3, FewerSessions
  <2>5. RequestsSound'
    BY <2>1, NoReqSound DEF RequestsSound
  <2> QED
    BY <2>2, <2>4, <2>5 DEF AccInv
<1> QED
  BY <1>1, <1>2, <1>3

LEMMA AccStep == AccInv /\ [Next]_vars => AccInv'
<1> SUFFICES ASSUME AccInv, [Next]_vars
             PROVE  AccInv'
  OBVIOUS
<1>1. CASE Tick \/ Reboot \/ \E b \in Browsers : CookieGone(b)
  BY <1>1, OutsideStep
<1>2. ASSUME NEW r \in Slots, NEW b \in Browsers, NEW k \in Kinds,
             NEW u \in Names, Send(r, b, k, u)
      PROVE  AccInv'
  BY <1>2, SendStep
<1>3. ASSUME NEW r \in Slots, Middleware(r)
      PROVE  AccInv'
  BY <1>3, MiddlewareStep
<1>4. ASSUME NEW r \in Slots,
             \/ Refused(r) \/ SignupInsert(r) \/ Login(r) \/ ServePage(r)
             \/ ChatEnds(r) \/ ResponseLost(r)
      PROVE  AccInv'
  BY <1>4, LocalStep
<1>5. ASSUME NEW r \in Slots, SignupCommit(r)
      PROVE  AccInv'
  BY <1>5, SignupCommitStep
<1>6. ASSUME NEW r \in Slots, CreateSession(r)
      PROVE  AccInv'
  BY <1>6, CreateSessionStep
<1>7. ASSUME NEW r \in Slots, Logout(r)
      PROVE  AccInv'
  BY <1>7, LogoutStep
<1>8. ASSUME NEW r \in Slots, ChatUpgrade(r) \/ Deliver(r)
      PROVE  AccInv'
  BY <1>8, BrowserStep
<1>9. CASE UNCHANGED vars
  BY <1>9 DEF vars, tables, AccInv, TypeOK, TablesSound, CookiesIssued,
              RequestsSound, Issued, Dead, Valid
<1> QED
  BY <1>1, <1>2, <1>3, <1>4, <1>5, <1>6, <1>7, <1>8, <1>9 DEF Next

\* The inductive invariant: whole accounts, tokens that were issued to the user
\* of their row, and requests whose knowledge of their token is still true.
THEOREM AccInvariance == Spec => []AccInv
  BY AccInit, AccStep, PTL DEF Spec

-----------------------------------------------------------------------------
(* What it means. *)

\* Signup is all or nothing (the transaction of auth/service.go): an account
\* without its channel, a session without its account, or a request that runs
\* as a user who has no channel cannot occur.
THEOREM SignupAtomic == Spec => []ChannelPerUser
<1>1. AccInv => ChannelPerUser
  BY DEF AccInv, TablesSound, RequestsSound, Sound, ChannelPerUser
<1> QED
  BY <1>1, AccInvariance, PTL

\* The middleware lets a request run as a user only on a token that was issued
\* to this user and was good when the request was sent.
THEOREM AuthAlwaysSound == Spec => []AuthSound
<1>1. AccInv => AuthSound
  BY DEF AccInv, RequestsSound, Sound, AuthSound
<1> QED
  BY <1>1, AccInvariance, PTL

\* A session row goes away only by expiring or by the logout of its token:
\* the sweep at boot and the logouts of other browsers leave it alone.
THEOREM LoginsLast == Spec => SessionsKept
<1>1. AccInv /\ [Next]_vars =>
        [\A s \in sessions \ sessions' :
           \/ s.exp <= now
           \/ \E r \in Slots :
                At(r, "handler", {"logout"}) /\ req[r].tok = s.id]_vars
  <2> SUFFICES ASSUME AccInv, Next, NEW s \in sessions \ sessions'
               PROVE  \/ s.exp <= now
                      \/ \E r \in Slots :
                           At(r, "handler", {"logout"}) /\ req[r].tok = s.id
    OBVIOUS
  <2>1. s.exp \in Nat /\ now \in Nat
    BY AccountsAssumption DEF AccInv, TypeOK
  <2>2. CASE Reboot
    BY <2>1, <2>2 DEF Reboot, Swept
  <2>3. ASSUME NEW r \in Slots, Logout(r)
        PROVE  At(r, "handler", {"logout"}) /\ req[r].tok = s.id
    BY <2>3 DEF Logout, DeleteSession
  <2>4. ASSUME NEW r \in Slots,
               \/ \E b \in Browsers, k \in Kinds, u \in Names : Send(r, b, k, u)
               \/ Middleware(r) \/ Refused(r) \/ SignupInsert(r)
               \/ SignupCommit(r) \/ Login(r) \/ CreateSession(r)
               \/ ServePage(r) \/ ChatUpgrade(r) \/ ChatEnds(r) \/ Deliver(r)
               \/ ResponseLost(r)
        PROVE  FALSE
    BY <2>4 DEF tables, Send, Middleware, Refused, SignupInsert, SignupCommit,
                Login, CreateSession, InsertSession, ServePage, ChatUpgrade,
                ChatEnds, Deliver, ResponseLost
  <2>5. CASE Tick \/ \E b \in Browsers : CookieGone(b)
    BY <2>5 DEF Tick, CookieGone, tables
  <2> QED
    BY <2>2, <2>3, <2>4, <2>5 DEF Next
<1> QED
  BY <1>1, AccInvariance, PTL DEF Spec, SessionsKept

\* A response clears a good cookie only if it answers a logout, a request whose
\* session lookup failed, or a request sent with another cookie.
THEOREM CookiesKept == Spec => CookieKept
<1>1. AccInv /\ [Next]_vars =>
        [\A b \in Browsers, r \in Slots :
           /\ req[r].b = b /\ req'[r] # req[r]
           /\ cookie[b] # None /\ Valid(cookie[b]) /\ cookie'[b] = None
           => req[r].kind = "logout" \/ req[r].err \/ req[r].tok # cookie[b]]_vars
  <2> SUFFICES ASSUME AccInv, Next, NEW b \in Browsers, NEW r \in Slots,
                      req[r].b = b, req'[r] # req[r],
                      cookie[b] # None, Valid(cookie[b]), cookie'[b] = None
               PROVE  \/ req[r].kind = "logout" \/ req[r].err
                      \/ req[r].tok # cookie[b]
    OBVIOUS
  <2>1. Sound(req[r], users, Issued, Dead)
    BY InSlot
  <2>2. cookie \in [Browsers -> Tokens \cup {None}] /\ cookie' # cookie
    BY DEF AccInv, TypeOK
  <2>3. req \in [Slots -> Requests]
    BY DEF AccInv, TypeOK
  <2>4. ASSUME NEW o \in Slots, ChatUpgrade(o) \/ Deliver(o)
        PROVE  req[r].set = None
    <3>1. o = r
      BY <2>3, <2>4 DEF ChatUpgrade, Deliver, Step
    <3>2. req[r].set # Keep /\ cookie' = [cookie EXCEPT ![b] = req[r].set]
      BY <2>2, <2>4, <3>1 DEF ChatUpgrade, Deliver, SetCookie
    <3> QED
      BY <2>2, <3>2
  <2>5. CASE req[r].set = None
    BY <2>1, <2>5 DEF Sound, Dead
  <2>6. ASSUME NEW o \in Slots,
               \/ \E c \in Browsers, k \in Kinds, u \in Names : Send(o, c, k, u)
               \/ Middleware(o) \/ Refused(o) \/ SignupInsert(o)
               \/ SignupCommit(o) \/ Login(o) \/ CreateSession(o)
               \/ Logout(o) \/ ServePage(o) \/ ChatEnds(o) \/ ResponseLost(o)
        PROVE  FALSE
    BY <2>2, <2>6 DEF Send, Middleware, Refused, SignupInsert, SignupCommit,
                      Login, CreateSession, Logout, ServePage, ChatEnds,
                      ResponseLost
  <2>7. CASE Tick \/ Reboot \/ \E c \in Browsers : CookieGone(c)
    BY <2>2, <2>7 DEF Tick, Reboot, CookieGone
  <2> QED
    BY <2>4, <2>5, <2>6, <2>7 DEF Next
<1> QED
  BY <1>1, AccInvariance, PTL DEF Spec, CookieKept

=============================================================================
