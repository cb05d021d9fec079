# Verification of chtiwt

TLA+ models of chtiwt, a small live-streaming server in Go: RTMP ingest, HLS
output through ffmpeg, a directory of live channels, and a chat room per
channel. TLC checks the models on small instances; TLAPS proves the safety properties
and the refinement for every instance. Every definition names the lines it models in
`PROJECT.json` under `map`; paths below are relative to `src/`.

## The system

| part | state | operations | interacts with |
|---|---|---|---|
| RTMP ingest (`internal/stream/ingest.go`) | one `rtmpHandler` per connection | `OnPublish`, `OnClose`, media callbacks | database, ffmpeg, registry, session |
| session (`internal/stream/session.go`) | pipe, ffmpeg, row id, `sync.Once` | `tearDown(reason)` | called by `OnClose`, the watchdog and `ShutdownLive` |
| live registry (`internal/stream/registry.go`) | map name → session under a mutex | `add`, `remove`, `get`, `snapshot` | read by the web pages |
| ffmpeg supervisor (`internal/stream/ffmpeg.go`, `ringbuf.go`) | process, `done`, `waitErr`, stderr tail | start, wait, kill by context | ingest, session |
| boot and shutdown (`cmd/chtiwt/main.go`, `internal/stream/service.go`) | listeners, rows, directories | `RecoverOnBoot`, listen, `ShutdownLive` | all of the above |
| chat room (`internal/chat/hub.go`) | clients, history, presence, viewer counts, local to one goroutine; an atomic count | join, leave, send, stop | connections through channels, the manager through `onEmpty` and `stop` |
| chat connection (`internal/chat/ws.go`) | outbound queue, reader and writer goroutine | `ServeWS`, `readLoop` | room, manager, limiter |
| chat manager (`internal/chat/manager.go`) | map name → room and reap timer | `getOrCreate`, `scheduleReap`, `reap`, `shutdownAll` | rooms, connections |
| rate limiter (`internal/chat/ratelimit.go`) | token bucket per user | `allow` | `readLoop` |
| accounts (`internal/auth`) | users, channels, login sessions in PostgreSQL; a cookie in each browser | signup, login, logout, middleware, boot sweep | web pages, chat upgrade |
| stream keys and titles (`internal/auth`, `internal/web/dashboard.go`) | rows of `channels`; a copy in each live session | regenerate, update title | ingest looks keys up, the watch page shows titles |
| web pages (`internal/web`) | none of their own | home, watch, dashboard, chat upgrade | registry, viewer counts, accounts |
| store, config, templates | pool, migrations, environment | | |

What is hard here: goroutines that race for one `tearDown`; a registry that
removes by name; a directory that is shared by successive sessions; crashes
between the steps of a publish; a `select` that may take a leave before the
join of the same client; non-blocking sends that drop; queues that are closed
by one goroutine and written by another; timers that outlive what they were set
for; responses that reach a browser in another order than its requests were
sent; statements that report an error after they were applied; pipes without
buffer between goroutines that wait for each other. The list, each entry at its
line, is `hazards` in `PROJECT.json`.

What makes each part correct:

- *stream*: at most one session per channel; `remove` only ever removes its own
  session; no ffmpeg without an owner; no open row of a dead process after boot;
  ended rows are final and their reason is true; nothing is left behind once a
  channel is quiet; a session whose publisher is gone ends; shutdown ends.
- *room*: presence and counts equal the registered connections; a connection
  sees an unbroken run of messages; no operation on a closed queue while
  waiting; everything that was told to stop stops.
- *manager*: a room handed out is alive; none is leaked or stopped twice; none
  appears after shutdown.
- *limiter, ring buffer*: quota in every window; the tail in order.
- *media path*: what was accepted reaches ffmpeg; nobody stays blocked on a pipe
  whose other end is gone.
- *accounts*: an account has its channel; a request runs as the owner of a token
  that was good when it was sent; logins and cookies are not lost without cause.
- *keys and titles*: a replaced key opens nothing; a page does not go back in time.

## Modules

**StreamIngest** — one process and its restarts. A member of `Sessions` is one
RTMP connection together with the session, the ffmpeg process and the row that
its publish creates. `handler` is how far `OnPublish` has come (`conn`, `row`
after the INSERT, `dir`, `spawned`, then `live`, `lost` or `refused`), `td` how
far `tearDown` has (`grace`, `kill`, `endrow`, `rmdir`, `done`; `cut` if the
process died in it), `ff` the process, `row` and `dir` what survives a crash.
Each step between two accesses to shared state is an action, so `OnPublish`
takes five to seven. `tearDown` is a `sync.Once`: `TearDown(s, why)` starts it
or does nothing. The constant `Faults` says which calls may fail: `"db"` the
UPDATE of a row, `"fs"` mkdir and removal, `"exec"` starting ffmpeg or the
encoder. Failures that only refuse a publish before anything was created are
always possible (`RejectPublish`). Two variables are there for the properties
only: `failed`, whether such a call has failed in the running process, and
`snap`, the snapshot that ShutdownLive works through.

**LiveDirectory** — what `ListLive` and `GetByName` promise: a channel is live
through one session at a time, a session is live for one stretch only and leaves
the directory only after its own stream is over, a restart takes all channels
offline. `StreamIngest` implements it with `live <- registry`,
`spent <- Decided` and `over <- TornDown`: a step by which anybody else's entry
goes would be no step of LiveDirectory.

**MediaPipe** — the inside of one publish, which StreamIngest sees as "ffmpeg
runs": the goroutine of go-rtmp that calls the handler (`rd`), the `io.Pipe`
without buffer into the copying goroutine (`cp`), stdin and stderr of ffmpeg with
finite buffers (`inq`, `errq`), the scanner, the goroutine in `cmd.Wait`, the
watchdog and `tearDown` until the process is reaped. Payloads are counted, not
carried: `sent`, `inq` and `got` are numbers of pieces, one per write to the pipe,
and one call of `NewEncoder` or `Encode` writes one or more of them
(`WriterGoesOn`). ffmpeg is external: it reads, logs, blocks when stderr is full,
ends at the end of its input or crashes.

**Accounts** — the three tables of `auth/` as sets of rows, and requests in
slots. A request carries the cookie its browser had when it was sent, passes the
middleware and the route guard, runs its handler in one step per database call,
and its `Set-Cookie` header reaches the browser later, in any order, or never. A
chat connection keeps the user of its upgrade. `Faults` has `"db"` (a statement
fails; a COMMIT or an INSERT that reports an error may have been applied) and
`"net"` (a response is lost). `Reboot` ends whatever was under way and sweeps
expired sessions. Two fields are there for the properties only: the user a token
was issued to, and whether the token was dead when the request was sent.

**Channels** — keys and titles of the `channels` table: the dashboard handlers,
the key lookup of a publisher, the copy of the title its session keeps, and the
watch page, which reads the row and then the registry. It abstracts the publish
to sent, looked up, live; the rest is StreamIngest.

**ChatRoom** — one `Room.run` and the goroutines of its connections. `joinQ`,
`leaveQ` and `sendQ` are the bounded channels, `room` holds the actor's maps and
the clients' queues, `closed` is `client.closed` and `shut` says that
`close(c.out)` was called: the code keeps them apart and so does the model. A
send on, or a second close of, a closed channel is a panic state in which the
whole process has ended. The join and leave branches are several steps, because
the writers drain queues between two broadcasts of the same branch. Within one
`dispatch` the clients are handled at once: each only touches its own queue and
a sum, so any order and any interleaving with the writers gives a result that
also arises with the writer's step before or after.

**ChatManager** — the map, the timers and the life of the room incarnations,
with the rooms reduced to who is in which. `reap`, `scheduleReap` and the timers
work by channel name, as in the code. `armed` is a pending timer, `fired` an
`AfterFunc` goroutine waiting for the lock, `closing` a room whose stop is about
to be closed after the unlock. A join is sent only when the room's join channel
has room (`JoinCap`, 4 in the code); nobody drains it once the actor has returned.

**RingBuffer**, **RateLimiter** — the two data structures, each with a history
variable as reference (`last`, `grants`). The limiter counts units so that the
refill is exact: floats become integers.

**MCAccounts** and **MCChannels** give TLC symmetry sets, **MCChatRoom** identities; the other modules are checked as they are. The modules
`<component>_proofs` extend a component with its theorems. Definitions introduced
by the comment word "Mutant" are wrong variants of the definition that follows
them; each must make its property fail.

## Runs

| run | checks | instance |
|---|---|---|
| `ingest` | TypeOK, RegistryExact, NoStrayFFmpeg, RecoveredRows, EndReasonExplained, QuiescentClean, ShutdownClosesLive, EndedRowsFinal, DirectoryRefined, SessionEnds, ShutdownTerminates | 2 connections, 2 channels, all faults, fair (551,000 states) |
| `room_delivery` | DeliveryContiguous, MembersOpen, OnlyOvertakenPanics, CountsExact | 2 tabs of one user, 3 messages, history 2, queue 1, channels 1 (1.9 million) |
| `room_ends` | CountsExact, ClosedEnds, StopStops | a tab and a connection without user and cookie, 1 message, fair (130,000) |
| `manager` | TypeOK, EntryRunning, NoLeakedRoom, StoppedEmpty, ShutdownEnds, EmptiedReaped, ClientsReleased | 1 channel, 2 incarnations, 2 connections, join channel 1, fair (23,000) |
| `media` | NothingLost, PublishProceeds, HandlerReleased, TearDownEnds, CloseSeen | 4 pieces, 3 log lines, pipes of capacity 1, fair (61,000) |
| `accounts` | ChannelPerUser, AuthSound, SessionsKept, CookieKept | 2 browsers, 2 names, 2 requests at once, 2 tokens, all faults, symmetric (1.8 million) |
| `channels` | KeySound, TitleNotOlder | 2 channels, 2 publishers, 1 page, 2 regenerations, 2 title updates, all faults, symmetric (1.2 million) |
| `ring` | SnapshotIsTail | capacity 4, writes up to 6 bytes (364) |
| `rate` | WindowBound, QuotaReturns | 2 users, burst 2, refill 2/3 token per tick, 5 ticks (29,000) |

Each module has a type invariant `TypeOK`; where the table does not list it, it is
a conjunct of MembersOpen, NothingLost, ChannelPerUser, KeySound, SnapshotIsTail
or WindowBound.

What they show:

- *RegistryExact*: the registry holds exactly the sessions that went live and
  have not been removed by their own tearDown, although `remove` goes by name.
- *NoStrayFFmpeg*: no path of ingest or tearDown loses a process.
- *RecoveredRows*, *EndedRowsFinal*, *EndReasonExplained*: the history table is
  repaired at boot, never rewritten, and true.
- *DirectoryRefined*: pages that read the registry see LiveDirectory; no session is
  taken off it by the late tearDown of another.
- *QuiescentClean*: as long as no call of the running process has failed, nothing is
  left once a channel is quiet, whatever earlier processes left. After a failed
  call a row or a directory can stay until the next boot.
- *SessionEnds*, *ShutdownTerminates*: a channel cannot stay live for ever; a
  signalled process exits.
- *ShutdownClosesLive*: after an orderly exit without failed calls every session in
  ShutdownLive's snapshot has its row closed, whoever ran its tearDown.
- *OnlyOvertakenPanics*: the one way to a send on a closed queue is a leave that
  was received before the join of the same client.
- *ClientsReleased*: after Shutdown every connection ends, except two kinds in a room
  whose actor has returned: one whose join was still in the channel, and one that
  is stuck in the send because such joins fill the channel.
- *NothingLost*: an ffmpeg that ends at EOF has read every piece the pipe accepted.
- *PublishProceeds*: `NewEncoder` gets all its pieces to the copying goroutine,
  although no watchdog or tearDown exists yet, unless ffmpeg died meanwhile and the
  copy ended with it, or ffmpeg is blocked on a stderr nobody drains.
- *HandlerReleased*, *TearDownEnds*: a handler blocked in Encode behind a dead ffmpeg
  is freed; tearDown ends even when ffmpeg is blocked on its stderr.
- *CloseSeen*: a publisher that goes is noticed, unless ffmpeg is blocked for ever
  because the scanner gave up at a line above its limit, or died during OnPublish.
- *ChannelPerUser*, *AuthSound*: signup is all or nothing; nobody is authenticated
  by a token that was deleted or had expired when the request was sent, or as
  somebody else.
- *SessionsKept*, *CookieKept*: a row goes by expiry or by the logout with its
  token; a good cookie goes by a logout, a failed lookup, or a late response to a
  request that carried another cookie.
- *KeySound*: no publish that began after a regeneration gets in with the old key,
  also if the regeneration reported an error.
- *TitleNotOlder*: a watch page never shows a title from before the publish of the
  running stream or, offline, from before the page was requested.
- *DeliveryContiguous*: what a connection was given, written or still queued, is
  an unbroken run of the room's messages: backlog and broadcasts join up without
  gap or repetition.
- *CountsExact*: presence and viewer counts equal the registered connections of each
  identity. (The cached count is another matter, see below.)
- *MembersOpen*: between two events every registered client has an open queue.
- *ClosedEnds*, *StopStops*: what the room closed ends, and the room ends.
- *EntryRunning*, *NoLeakedRoom*, *StoppedEmpty*, *ShutdownEnds*: timers by name do no
  harm to the map. *EmptiedReaped*: an emptied room goes away, or a client that had
  taken it before it was empty occupies it again.

Why the bounds are enough to make the cases happen. Two connections to one channel
are a live session and one that loses the race, or one that starts during the
tearDown of the other; to two channels, two sessions in the shutdown loop, the
only place where channels interact. The safety properties of StreamIngest are
proved for any number. The two room runs have tabs that share an identity, and a
connection that has none (`viewerKey` is empty); a guest's cookie is a key like a
user's name, without presence, and takes part in `room_double_close`. They use a
history larger than a queue, as the code does (50 and 32), so that a backlog
overflows and a broadcast evicts; capacity 1 makes every channel fill up. In the
manager a leave received twice arms a timer that outlives its incarnation and
fires on the next one, with two connections already; with a join channel of one,
the second client of a stopped room is stuck in the send. Two requests of one
browser are enough for a late response to meet a newer cookie, two browsers for
a logout beside another login of the same user, two tokens for an old and a new
one; TTL 1 with one tick expires a session, and the second browser's is fresh.
Four pieces are a header in two writes, one in the hands of the copying goroutine,
one in a pipe of capacity 1, and more that block the handler; three lines let a long one stop the scanner, one more fill
the pipe and one block ffmpeg. Ring writes range from
empty to above the capacity. Liveness is checked without symmetry.

Bounds in the models: `MaxMsgs` (messages of a room), `Rooms` (incarnations),
`MaxWrite`, `MaxTime`, `MaxTokens`, `MaxKeys`, `MaxTitles`, `MaxPieces`, `MaxLines`,
and the sets of connections, each of which is used once.

Deadlock is reported except in the chat runs and in `media`: there all
connections may be gone and the room idle or, after a panic, the process ended;
a torn-down publish has nothing left to do.

### Runs that show a disagreement with a comment

Each ends in a counterexample; `findings` in `PROJECT.json` quotes the comments.

| run | property | what happens |
|---|---|---|
| `room_double_close` | LeaveHarmless | the backlog overflows, the queue is closed but the client is not marked: its leave closes it again and panics |
| `next_dir` | LiveHasDir | a publisher passes MkdirAll while the directory of a session being torn down still exists, goes live, and the tearDown removes it, although `session.go:115` promises a fresh one |
| `reap_joined` | OccupiedNotPending | a client takes the room before the last other one leaves and joins after that leave armed the timer: the room is occupied and will be reaped, although `manager.go:52` says a join cancels the timer |

CountsExact speaks of states in which no leave has been received before its join
(`Doomed` is the complement): after that event the code's counts are wrong ("alice
left" while another tab of hers is connected) and the process is about to panic.

The models also have behaviours that no property claims away:

- an eviction changes the viewer count without publishing it (`hub.go:136`), so the
  cached count is too high until the next join or leave changes the number: it is not
  always the `len(viewerCounts)` that `hub.go:42` calls it, nor is an update
  broadcast whenever the count changes, as `hub.go:73` has it;
- a connection with neither user nor cookie is not counted at all (`hub.go:165`),
  while `ws.go:39` says it "counts as unique" and `internal/web/anoncookie.go:25` that
  the room treats it as "a unique guest"; the upgrade makes a cookie for every
  guest, so this takes a failing random source;
- an ffmpeg that dies while `NewEncoder` is still writing leaves the handler blocked
  for ever, before any watchdog exists (`ingest.go:123`; PublishProceeds);
- a publish between its INSERT and `registry.add`, or a tearDown between
  `registry.remove` and its UPDATE, is in no snapshot of ShutdownLive, and its row
  is open after "shutdown complete", until the next boot (`service.go:128`);
- a leave received before its join closes the queue, and the join then sends on
  it, which panics (`hub.go:149`; OnlyOvertakenPanics);
- a short database failure, or a late response to a request with an old cookie,
  clears a good cookie (`middleware.go:31`; CookieKept); the row lives on;
- a logout whose DELETE fails leaves a token that works until it expires
  (`handlers.go:131`), and a chat connection outlives the login it began with;
- after a committed signup whose session could not be created, or a regeneration
  that reported an error, nobody was shown the stored key; of two racing
  regenerations the page that arrives last may show the dead key;
- the title of a live page is the one of the publish, however often it was changed
  since (`ingest.go:134`);
- behind an ffmpeg that is blocked on its stderr the handler stays in Encode and
  OnClose never runs, until a shutdown (`ffmpeg.go:103`; CloseSeen);
- `cmd.Wait` does not wait for the scanner: the logged tail may lack its end
  (`ffmpeg.go:110`);
- a publish refused because mkdir, ffmpeg or the encoder failed leaves its row
  open until the next boot (`ingest.go:90`, `112`, `128`);
- when both leaves of a client find the channel full they are dropped, and it
  stays registered until it is evicted or the room stops (`ws.go:107`, `121`);
- a join sent to a room already stopped is never received, and the writer waits
  for ever; behind a channel full of such joins the next client waits for ever to
  send (`ws.go:81`; ClientsReleased);
- a room whose only client gives up before joining stays empty and is not reaped,
  which is why EmptiedReaped starts from a leave (`ws.go:83`).

## Fairness

*StreamIngest*: per goroutine, weak fairness of its next step: main's shutdown
sequence, the goroutine inside a tearDown with its three-second timer, the
watchdog; and a killed process dies. Nothing is assumed of publishers,
signals, or of an ffmpeg that has not been killed.

*ChatRoom*: the writer goroutine runs, since each write is bounded by
`writeTimeout`; a read of a connection that this side has closed fails; the actor
goes on inside a branch. Go's `select` picks among ready cases at random, so a
closed stop, ready whenever the actor is back in its select, is taken in the end:
strong fairness for stop, and for nothing else. Peers owe nothing, neither closing
nor reading, and joins and leaves need never be received.

*ChatManager*: goroutines that wait for the lock get it, timers fire, a join for
which the channel has room is sent, a closed queue or connection is noticed by its
goroutine, and an actor takes a closed stop in the end (strong fairness, as above).

*MediaPipe*: goroutines with something to do run, the grace timer fires, a killed
process dies, a closed connection is noticed by the goroutine that reads it, and
an ffmpeg that is not blocked reads its input, goes on with a blocked write when
there is room, and ends at the end of its input. Nothing is assumed of the peer,
the shutdown, crashes or log lines.

Accounts and Channels have safety properties only and assume no fairness.

## Proofs

Every invariant and every action property of the passing runs, and the
refinement, is also a theorem, for every value of the constants. Each component
has a module `<component>_proofs`, with one lemma or step per action and under
it one step per conjunct that the action can disturb.

| module | theorems | property |
|---|---|---|
| `StreamIngest_proofs` | `TypeCorrect`, `RegistryCorrect`, `NoFFmpegLeak`, `BootRecovers`, `ReasonsTrue` | TypeOK, RegistryExact, NoStrayFFmpeg, RecoveredRows, EndReasonExplained |
| | `HistoryKept`, `ImplementsDirectory` | EndedRowsFinal, DirectoryRefined |
| | `NothingLeftBehind`, `ShutdownRecorded` | QuiescentClean, ShutdownClosesLive |
| `ChatManager_proofs` | `TypeCorrect`, `RoomsRunning`, `NoRoomLeaks`, `ShutdownFinal` | TypeOK, EntryRunning, NoLeakedRoom, StoppedEmpty |
| `ChatRoom_proofs` | `MembersAlwaysOpen`, `SendPanicsExplained`, `CountsAlwaysExact`, `DeliveryAlwaysContiguous` | MembersOpen, OnlyOvertakenPanics, CountsExact, DeliveryContiguous |
| `MediaPipe_proofs` | `MediaComplete` | NothingLost |
| `Accounts_proofs` | `SignupAtomic`, `AuthAlwaysSound`, `LoginsLast`, `CookiesKept` | ChannelPerUser, AuthSound, SessionsKept, CookieKept |
| `Channels_proofs` | `KeysSound`, `TitlesNotOlder` | KeySound, TitleNotOlder |
| `RingBuffer_proofs` | `SnapshotCorrect` | SnapshotIsTail |
| `RateLimiter_proofs` | `WindowBounded`, `QuotaAlwaysReturns` | WindowBound, QuotaReturns |

The assumptions are the named ASSUMEs of the component modules, which TLC
evaluates in the runs: the markers for "none" are not members of the sets they
mark, capacities, burst and rate are positive numbers, bounds are numbers, and
in ChatRoom the set of connections is finite, since the room counts them.

**StreamIngest.** The inductive invariant `IInv` conjoins the invariants with
`Lifecycle` and `ReasonKept`. RegistryExact is not inductive alone: that
`remove(name)` hits one's own entry needs that only a session that has been live
runs `tearDown`, and that it has a channel (`Lifecycle`). EndReasonExplained
speaks of the row, which takes the reason much later than the event that
justifies it, so `ReasonKept` says that the reason stays justified in between.
QuiescentClean says nothing while a publish is in flight, so it needs
to know who will clean up: `HeldInv` gives every directory and every open row a
session that is on a path that removes or ends it (`HoldsDir`, `HoldsRow`). The
loser of a race lets go of a directory without removing it; the winner, which is
registered and has not finished its tearDown, holds it. A failing UPDATE or removal
lets go for good, so `HeldInv` holds as long as `failed` is false, and the boot,
which wipes the state directory and sweeps the rows, establishes it anew.
ShutdownClosesLive is about the end of a loop: `Awaited` says that each session of
the snapshot is still to come, is waited for, or has its tearDown done.

**ChatManager.** What makes `MapInv` inductive is `Born`: every timer, pending
close and closed stop belongs to an incarnation that was created, hence to a
channel, so that working by name always finds an entry of the map's domain.

**ChatRoom.** `RoomInv` follows a connection: it joins once (`Started`,
`JoinsOnce`), so from then on it is in the join channel, at the actor's hands,
registered or closed, and a closed one does not come back. `Open` says at which
points of a branch a registered client may have a closed queue: only the client
that is being joined, and only until the branch has noticed. For CountsExact the
actor's incremental counters are compared with cardinalities: lemmas about
`Less`, `ByKey` and `ByName` show that removing a set of clients subtracts as
many per identity as are in it, and `Paired` that a user's presence and viewer
counter agree, which is why one transition test serves both. For
DeliveryContiguous, `FlowInv` says that the history is the unbroken end
of all messages (`HistoryWhole`) and what each connection was given, queue
included, ends where the actor stands: at the last message for a registered
client, at the last message of the backlog delivered so far for the one being
joined (`Flow`). Eviction and overflow close a queue at that point.

**MediaPipe.** NothingLost speaks of the end only. `MediaInv` has the
conservation law behind it: as long as ffmpeg was neither killed nor crashed,
each piece accepted is read, in the pipe, or in the hands of the copying
goroutine; and ffmpeg sees EOF only after that goroutine has ended and the pipe
is empty.

**Accounts.** A token that is dead stays dead: rows only go away, time only
passes, and a new row has a token that nobody had before. So what a request found
out about its token (`Sound`) remains true until its response arrives, however
late, and through every other request in between.

**Channels.** Keys of a row only grow, so a replaced key stays replaced
(`PubSound`); the rows that a publish or a page request has yet to read are not
older than when it was sent (`PubFresh`, `ViewFresh`).

**RingBuffer.** `RingInv` gives the array index of each byte of the tail; the
three ways of Write (oversized, fitting, wrapping) are followed index by index.

**RateLimiter.** WindowBound mentions grants only. `RateInv` keeps the account
that carries it through refills and refusals: what was granted since a grant
plus what is left in the bucket is at most a full bucket plus the refill since
(`Covered`). The converse, that a refused refill stays in the bucket (`Saved`),
gives QuotaReturns.

Only model-checked: the liveness properties (SessionEnds, ShutdownTerminates,
ClosedEnds, StopStops, ShutdownEnds, EmptiedReaped,
ClientsReleased, PublishProceeds, HandlerReleased, TearDownEnds, CloseSeen).
Their proofs need fairness and ENABLED, which TLAPS does not handle.

## What the models assume

- A connection publishes once. A second publish on one connection would replace
  the handler's session; the server never asks for it.
- ffmpeg does not survive the server: it loses its stdin and exits.
- A row INSERT that returns an error has inserted nothing.
- An `AfterFunc` goroutine gets the manager's lock within `roomIdleAfter` (30 s):
  the next timer of the same entry does not fire before it.
- The request context of a WebSocket is done only if the peer left during the
  upgrade; after the hijack nothing cancels it.
- ChatManager receives a client's leave after its join and its backlogs fit;
  ChatRoom has the other cases.
- Random tokens and keys are never issued twice, and the key hash is injective.
- The server and the database share one clock.
- go-rtmp calls a connection's callbacks one after the other from its read loop.
- In Accounts a request is answered by one process; MaxAge and deletion by hand
  are the same event to the server (`CookieGone`).
- Go's monotonic clock does not run backwards, and floats do not round.

## Not modelled

What ffmpeg writes and what `http.FileServer` serves; the home page, which only
lists the registry (LiveDirectory) with cached counts, and the
anonymous cookie, a random id that ChatRoom has as the key of a guest; message
texts and error replies; password hashing and form validation, which only decide
whether a step is refused; the cut of long titles; migrations and connection
pool; configuration; templates and player script; logs and the health check.

## Plan

Done: StreamIngest, LiveDirectory, MediaPipe, ChatRoom, ChatManager, RingBuffer,
RateLimiter, Accounts, Channels, and the proofs of their safety properties.

Left: an abstract room (who sees which messages) that ChatRoom refines.
