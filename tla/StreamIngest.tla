---------------------------- MODULE StreamIngest ----------------------------
(***************************************************************************)
(* The life of live streams in one chtiwt process and across restarts:     *)
(* the RTMP publish handler (stream/ingest.go), the single tearDown path   *)
(* (stream/session.go), the live registry (stream/registry.go), the ffmpeg *)
(* child process as the code sees it (stream/ffmpeg.go), the               *)
(* stream_sessions table, the per-channel HLS directory, and the boot and  *)
(* shutdown sequences (stream/service.go, cmd/chtiwt/main.go).             *)
(*                                                                         *)
(* A member of Sessions stands for one RTMP connection and for everything  *)
(* its one publish creates: the rtmpHandler, the session struct, the       *)
(* ffmpeg process and the row of stream_sessions.  Every step between two  *)
(* accesses to shared state is an action of its own, so that handlers,     *)
(* watchdogs, tearDowns and the shutdown loop interleave as goroutines do. *)
(***************************************************************************)
CONSTANTS
  Sessions,   \* RTMP connections, each publishing at most once
  Channels,   \* channel names
  NoSession,  \* "no entry" in the registry
  NoChannel,  \* channel of a connection that has not published yet
  Faults      \* which calls may return an error: "db", "fs", "exec"

ASSUME NoneAssumption ==
  /\ NoSession \notin Sessions
  /\ NoChannel \notin Channels

VARIABLES
  phase,      \* the server process, as main.run walks through it
  listening,  \* the RTMP listener accepts connections
  handler,    \* [Sessions -> how far the rtmpHandler of this connection is]
  chan,       \* [Sessions -> channel the stream key resolved to]
  ff,         \* [Sessions -> state of its ffmpeg process]
  td,         \* [Sessions -> progress of session.tearDown (sync.Once)]
  reason,     \* [Sessions -> reason the winning tearDown call passed]
  todo,       \* sessions ShutdownLive still has to tear down
  cur,        \* session ShutdownLive is tearing down now
  snap,       \* history: every session of its snapshot
  registry,   \* liveRegistry.byName: [Channels -> session or NoSession]
  row,        \* stream_sessions.end_reason, "open" while ended_at IS NULL
  dir,        \* the channels whose HLS directory exists
  failed      \* history: a call of this process that cleans up has failed

mem  == <<handler, chan, ff, td, reason>>
proc == <<phase, listening, todo, cur, snap>>
disk == <<row, dir, failed>>
vars == <<proc, mem, registry, disk>>

Phases   == {"down", "stopped", "swept", "up", "draining", "tearing"}
Serving  == {"up", "draining", "tearing"}   \* RTMP handlers run
Handlers == {"none", "conn", "row", "dir", "spawned", "lost",
             "live", "refused", "closed", "dead"}
Running  == {"running", "eof", "killed"}    \* the ffmpeg process exists
Exited   == {"ok", "err"}                   \* proc.done is closed
Reasons  == {"normal", "crashed", "orphan_swept"}

TypeOK ==
  /\ phase \in Phases
  /\ listening \in BOOLEAN
  /\ handler \in [Sessions -> Handlers]
  /\ chan \in [Sessions -> Channels \cup {NoChannel}]
  /\ ff \in [Sessions -> Running \cup Exited \cup {"none"}]
  /\ td \in [Sessions -> {"idle", "grace", "kill", "endrow", "rmdir",
                          "done", "cut"}]
  /\ reason \in [Sessions -> Reasons \cup {"none"}]
  /\ todo \in SUBSET Sessions
  /\ cur \in Sessions \cup {NoSession}
  /\ snap \in SUBSET Sessions
  /\ registry \in [Channels -> Sessions \cup {NoSession}]
  /\ row \in [Sessions -> Reasons \cup {"none", "open"}]
  /\ dir \in SUBSET Channels
  /\ failed \in BOOLEAN

\* A first boot on an empty database and an empty state directory.
Init ==
  /\ phase = "down"
  /\ listening = FALSE
  /\ handler = [s \in Sessions |-> "none"]
  /\ chan = [s \in Sessions |-> NoChannel]
  /\ ff = [s \in Sessions |-> "none"]
  /\ td = [s \in Sessions |-> "idle"]
  /\ reason = [s \in Sessions |-> "none"]
  /\ todo = {}
  /\ cur = NoSession
  /\ snap = {}
  /\ registry = [c \in Channels |-> NoSession]
  /\ row = [s \in Sessions |-> "none"]
  /\ dir = {}
  /\ failed = FALSE

-----------------------------------------------------------------------------
(* Boot: RecoverOnBoot runs before the RTMP listener is opened. *)

\* Mutant: the UPDATE lost its WHERE clause.
OrphanedEveryRow(rows) ==
  [s \in Sessions |-> IF rows[s] = "none" THEN "none" ELSE "orphan_swept"]

\* MarkOpenStreamSessionsOrphaned: UPDATE ... WHERE ended_at IS NULL.
Orphaned(rows) ==
  [s \in Sessions |-> IF rows[s] = "open" THEN "orphan_swept" ELSE rows[s]]

\* Mutant: an error of the UPDATE is logged and boot goes on.
SweepErrorLogged ==
  /\ phase \in {"down", "stopped"}
  /\ phase' = "swept"
  /\ row' \in {row, Orphaned(row)}
  /\ snap' = {}
  /\ UNCHANGED <<listening, todo, cur, mem, registry, dir, failed>>

\* A failed UPDATE makes main return before anything else happened.
MarkOpenStreamSessionsOrphaned ==
  /\ phase \in {"down", "stopped"}
  /\ phase' = "swept"
  /\ row' = Orphaned(row)
  /\ snap' = {}
  /\ UNCHANGED <<listening, todo, cur, mem, registry, dir, failed>>

\* Every entry of the state directory is removed; an entry that cannot be
\* removed is logged and stays.  Then the listener opens.
WipeAndListen ==
  /\ phase = "swept"
  /\ phase' = "up"
  /\ listening' = TRUE
  /\ dir' \in IF "fs" \in Faults THEN SUBSET dir ELSE {{}}
  /\ failed' = (dir' # {})
  /\ UNCHANGED <<todo, cur, snap, mem, registry, row>>

-----------------------------------------------------------------------------
(* The publish handler. *)

At(s, h) == phase \in Serving /\ handler[s] = h
Goto(s, h) == handler' = [handler EXCEPT ![s] = h]

Accept(s) ==
  /\ listening /\ phase \in Serving
  /\ handler[s] = "none"
  /\ Goto(s, "conn")
  /\ UNCHANGED <<proc, chan, ff, td, reason, registry, disk>>

\* Empty or unknown stream key, or the lookup or the INSERT failed.
RejectPublish(s) ==
  /\ At(s, "conn")
  /\ Goto(s, "refused")
  /\ UNCHANGED <<proc, chan, ff, td, reason, registry, disk>>

\* Mutant: the channel that was looked up is not the one used.
CreateForNoChannel(s, c) ==
  /\ At(s, "conn")
  /\ Goto(s, "row")
  /\ row' = [row EXCEPT ![s] = "open"]
  /\ UNCHANGED <<proc, chan, ff, td, reason, registry, dir, failed>>

\* The key resolves to channel c and CreateStreamSession inserts the row.
CreateStreamSession(s, c) ==
  /\ At(s, "conn")
  /\ Goto(s, "row")
  /\ chan' = [chan EXCEPT ![s] = c]
  /\ row' = [row EXCEPT ![s] = "open"]
  /\ UNCHANGED <<proc, ff, td, reason, registry, dir, failed>>

\* Mkdir, ffmpeg or the encoder fails: the publish ends and its row stays open.
GiveUp(s) == Goto(s, "refused") /\ failed' = TRUE

MkdirOut(s) ==
  /\ At(s, "row")
  /\ \/ Goto(s, "dir") /\ dir' = dir \cup {chan[s]} /\ UNCHANGED failed
     \/ "fs" \in Faults /\ GiveUp(s) /\ UNCHANGED dir
  /\ UNCHANGED <<proc, chan, ff, td, reason, registry, row>>

StartFFmpeg(s) ==
  /\ At(s, "dir")
  /\ \/ /\ Goto(s, "spawned") /\ ff' = [ff EXCEPT ![s] = "running"]
        /\ UNCHANGED failed
     \/ "exec" \in Faults /\ GiveUp(s) /\ UNCHANGED ff
  /\ UNCHANGED <<proc, chan, td, reason, registry, row, dir>>

\* cancel() of the supervisor context: SIGKILL, unless already exited.
Kill(s) == IF ff[s] \in Running THEN [ff EXCEPT ![s] = "killed"] ELSE ff
\* Closing the pipe writer: ffmpeg sees EOF on stdin.
Eof(s)  == IF ff[s] = "running" THEN [ff EXCEPT ![s] = "eof"] ELSE ff

\* flv.NewEncoder returned an error.
EncoderFails(s) ==
  /\ "exec" \in Faults
  /\ At(s, "spawned")
  /\ GiveUp(s)
  /\ ff' = Kill(s)
  /\ UNCHANGED <<proc, chan, td, reason, registry, row, dir>>

\* Mutant: add does not look whether the channel has a session.
AddOverwrites(s) ==
  /\ At(s, "spawned")
  /\ registry' = [registry EXCEPT ![chan[s]] = s]
  /\ Goto(s, "live")
  /\ UNCHANGED <<proc, chan, ff, td, reason, disk>>

\* registry.add succeeds; the watchdog goroutine starts and h.sess is set.
GoLive(s) ==
  /\ At(s, "spawned")
  /\ registry[chan[s]] = NoSession
  /\ registry' = [registry EXCEPT ![chan[s]] = s]
  /\ Goto(s, "live")
  /\ UNCHANGED <<proc, chan, ff, td, reason, disk>>

\* Mutant: the lost race returns without cancel().
LoseRaceNoCancel(s) ==
  /\ At(s, "spawned")
  /\ registry[chan[s]] # NoSession
  /\ Goto(s, "lost")
  /\ UNCHANGED <<proc, chan, ff, td, reason, registry, disk>>

\* registry.add finds another session: the publisher lost the race.
LoseRace(s) ==
  /\ At(s, "spawned")
  /\ registry[chan[s]] # NoSession
  /\ Goto(s, "lost")
  /\ ff' = Kill(s)
  /\ UNCHANGED <<proc, chan, td, reason, registry, disk>>

\* EndStreamSession: UPDATE ... WHERE id = $1 AND ended_at IS NULL.
\* The callers ignore (or only log) an error.
EndStreamSession(s, why) ==
  \/ /\ row' = IF row[s] = "open" THEN [row EXCEPT ![s] = why] ELSE row
     /\ UNCHANGED failed
  \/ "db" \in Faults /\ failed' = TRUE /\ UNCHANGED row

\* Mutant: the row of the lost race is left alone.
LostRowForgotten(s) ==
  /\ At(s, "lost")
  /\ Goto(s, "refused")
  /\ UNCHANGED <<proc, chan, ff, td, reason, registry, disk>>

EndLostRow(s) ==
  /\ At(s, "lost")
  /\ EndStreamSession(s, "orphan_swept")
  /\ Goto(s, "refused")
  /\ UNCHANGED <<proc, chan, ff, td, reason, registry, dir>>

-----------------------------------------------------------------------------
(* tearDown: its first caller runs the body, later callers wait for it. *)

TearDown(s, why) ==
  IF td[s] = "idle"
  THEN /\ td' = [td EXCEPT ![s] = "grace"]
       /\ reason' = [reason EXCEPT ![s] = why]
       /\ ff' = Eof(s)
  ELSE UNCHANGED <<td, reason, ff>>

\* The connection drops: before a publish nothing is to be done.
OnClose(s) ==
  /\ \/ At(s, "conn") /\ UNCHANGED <<td, reason, ff>>
     \/ At(s, "live") /\ TearDown(s, "normal")
  /\ Goto(s, "closed")
  /\ UNCHANGED <<proc, chan, registry, disk>>

\* Mutant: the watchdog does not look at waitErr.
WatchdogAlwaysNormal(s) ==
  /\ At(s, "live")
  /\ ff[s] \in Exited /\ td[s] = "idle"
  /\ TearDown(s, "normal")
  /\ UNCHANGED <<proc, handler, chan, registry, disk>>

\* The goroutine waiting on proc.done.
Watchdog(s) ==
  /\ At(s, "live")
  /\ ff[s] \in Exited /\ td[s] = "idle"
  /\ TearDown(s, IF ff[s] = "err" THEN "crashed" ELSE "normal")
  /\ UNCHANGED <<proc, handler, chan, registry, disk>>

\* Mutant: the grace window ends without a kill.
GraceNoKill(s) ==
  /\ phase \in Serving
  /\ td[s] = "grace" /\ ff[s] \in Running
  /\ td' = [td EXCEPT ![s] = "kill"]
  /\ UNCHANGED <<proc, handler, chan, ff, reason, registry, disk>>

\* Three seconds passed: kill, then block until the process is reaped.
GraceExpires(s) ==
  /\ phase \in Serving
  /\ td[s] = "grace" /\ ff[s] \in Running
  /\ ff' = Kill(s)
  /\ td' = [td EXCEPT ![s] = "kill"]
  /\ UNCHANGED <<proc, handler, chan, reason, registry, disk>>

\* registry.remove deletes by name, whoever is registered there.
Unregister(s) ==
  /\ phase \in Serving
  /\ td[s] \in {"grace", "kill"} /\ ff[s] \in Exited
  /\ registry' = [registry EXCEPT ![chan[s]] = NoSession]
  /\ td' = [td EXCEPT ![s] = "endrow"]
  /\ UNCHANGED <<proc, handler, chan, ff, reason, disk>>

EndRow(s) ==
  /\ phase \in Serving
  /\ td[s] = "endrow"
  /\ EndStreamSession(s, reason[s])
  /\ td' = [td EXCEPT ![s] = "rmdir"]
  /\ UNCHANGED <<proc, handler, chan, ff, reason, registry, dir>>

\* Mutant: registry.remove is called once more when everything is done.
RemoveDirUnregisters(s) ==
  /\ phase \in Serving
  /\ td[s] = "rmdir"
  /\ dir' = dir \ {chan[s]}
  /\ td' = [td EXCEPT ![s] = "done"]
  /\ registry' = [registry EXCEPT ![chan[s]] = NoSession]
  /\ UNCHANGED <<proc, handler, chan, ff, reason, row, failed>>

\* os.RemoveAll of the channel's directory; an error is only logged.
RemoveDir(s) ==
  /\ phase \in Serving
  /\ td[s] = "rmdir"
  /\ \/ dir' = dir \ {chan[s]} /\ UNCHANGED failed
     \/ "fs" \in Faults /\ failed' = TRUE /\ UNCHANGED dir
  /\ td' = [td EXCEPT ![s] = "done"]
  /\ UNCHANGED <<proc, handler, chan, ff, reason, registry, row>>

\* ffmpeg exits: by itself at any time with any status, after EOF, or killed.
FFmpegExits(s, status) ==
  /\ phase \in Serving
  /\ ff[s] \in Running
  /\ ff[s] = "killed" => status = "err"
  /\ ff' = [ff EXCEPT ![s] = status]
  /\ UNCHANGED <<proc, handler, chan, td, reason, registry, disk>>

-----------------------------------------------------------------------------
(* Shutdown and crash. *)

Signal ==
  /\ phase = "up"
  /\ phase' = "draining"
  /\ UNCHANGED <<listening, todo, cur, snap, mem, registry, disk>>

CloseListener ==
  /\ phase \in {"draining", "tearing"} /\ listening
  /\ listening' = FALSE
  /\ UNCHANGED <<phase, todo, cur, snap, mem, registry, disk>>

\* http.Server.Shutdown returned nil: ShutdownLive takes its snapshot.
ShutdownLive ==
  /\ phase = "draining"
  /\ phase' = "tearing"
  /\ todo' = {registry[c] : c \in Channels} \ {NoSession}
  /\ snap' = todo'
  /\ UNCHANGED <<listening, cur, mem, registry, disk>>

\* Mutant: shutdown waits for the session to end by itself.
ShutdownOnlyWaits(s) ==
  /\ phase = "tearing" /\ cur = NoSession /\ s \in todo
  /\ cur' = s
  /\ todo' = todo \ {s}
  /\ UNCHANGED <<phase, listening, snap, mem, registry, disk>>

ShutdownNext(s) ==
  /\ phase = "tearing" /\ cur = NoSession /\ s \in todo
  /\ cur' = s
  /\ todo' = todo \ {s}
  /\ TearDown(s, "orphan_swept")
  /\ UNCHANGED <<phase, listening, snap, handler, chan, registry, disk>>

\* Mutant: a session that is being torn down already is not waited for.
ShutdownDoesNotWait ==
  /\ phase = "tearing" /\ cur # NoSession
  /\ cur' = NoSession
  /\ UNCHANGED <<phase, listening, todo, snap, mem, registry, disk>>

ShutdownWaits ==
  /\ phase = "tearing" /\ cur # NoSession
  /\ td[cur] = "done"
  /\ cur' = NoSession
  /\ UNCHANGED <<phase, listening, todo, snap, mem, registry, disk>>

\* The process is gone: everything in memory is lost, every ffmpeg loses its
\* stdin and exits; rows and directories stay.
ProcessGone(to) ==
  /\ phase' = to
  /\ listening' = FALSE
  /\ handler' = [s \in Sessions |->
                   IF handler[s] = "none" THEN "none" ELSE "dead"]
  /\ td' = [s \in Sessions |->
              IF td[s] \in {"grace", "kill", "endrow", "rmdir"} THEN "cut"
              ELSE td[s]]
  /\ ff' = [s \in Sessions |-> IF ff[s] \in Running THEN "err" ELSE ff[s]]
  /\ registry' = [c \in Channels |-> NoSession]
  /\ todo' = {} /\ cur' = NoSession
  /\ UNCHANGED <<snap, chan, reason, disk>>

\* main returns nil: "shutdown complete".
Stop ==
  /\ phase = "tearing" /\ todo = {} /\ cur = NoSession
  /\ ProcessGone("stopped")

\* The process dies, or main returns early with an error (HTTP shutdown
\* timed out, a listener failed) without calling ShutdownLive.
Crash == phase \in Serving \cup {"swept"} /\ ProcessGone("down")

-----------------------------------------------------------------------------
Next ==
  \/ MarkOpenStreamSessionsOrphaned \/ WipeAndListen
  \/ Signal \/ CloseListener \/ ShutdownLive \/ ShutdownWaits \/ Stop \/ Crash
  \/ \E s \in Sessions :
       \/ Accept(s) \/ RejectPublish(s) \/ MkdirOut(s) \/ StartFFmpeg(s)
       \/ EncoderFails(s) \/ GoLive(s) \/ LoseRace(s) \/ EndLostRow(s)
       \/ OnClose(s) \/ Watchdog(s) \/ GraceExpires(s) \/ Unregister(s)
       \/ EndRow(s) \/ RemoveDir(s) \/ ShutdownNext(s)
       \/ \E c \in Channels : CreateStreamSession(s, c)
       \/ \E status \in Exited : FFmpegExits(s, status)

Spec == Init /\ [][Next]_vars

\* What the runtime owes: main's shutdown sequence, the goroutine inside
\* tearDown (with its 3s timer) and the watchdog go on, and a killed process
\* dies.  Publishers, signals, crashes and a voluntary exit of ffmpeg are never
\* owed.
Fairness ==
  /\ WF_vars(\/ ShutdownLive \/ ShutdownWaits \/ Stop
             \/ \E s \in Sessions : ShutdownNext(s))
  /\ \A s \in Sessions :
       /\ WF_vars(GraceExpires(s) \/ Unregister(s) \/ EndRow(s) \/ RemoveDir(s))
       /\ WF_vars(Watchdog(s))
       /\ WF_vars(ff[s] = "killed" /\ FFmpegExits(s, "err"))

FairSpec == Spec /\ Fairness

-----------------------------------------------------------------------------
(* Properties that hold. *)

\* The registry holds exactly the sessions that went live and whose tearDown
\* has not yet reached registry.remove.  remove(name) deletes by name only:
\* this says it never deletes somebody else's entry, and that add never
\* overwrites one.
RegistryExact ==
  \A s \in Sessions, c \in Channels :
    registry[c] = s <=> /\ chan[s] = c
                        /\ handler[s] \in {"live", "closed"}
                        /\ td[s] \in {"idle", "grace", "kill"}

\* An ffmpeg nobody has killed belongs to a publish still in OnPublish or to
\* the session registered for its channel, and tearDown never gets past its
\* wait while the process exists: no path of ingest.go or session.go leaks one.
NoStrayFFmpeg ==
  \A s \in Sessions :
    /\ ff[s] \in {"running", "eof"} =>
         handler[s] = "spawned" \/ registry[chan[s]] = s
    /\ td[s] \in {"endrow", "rmdir", "done"} => ff[s] \in Exited

\* Once RecoverOnBoot has run, no row left by an earlier process is open: the
\* sweep misses nothing, and nothing re-opens or skips a row of a dead handler.
RecoveredRows ==
  phase \in Serving \cup {"swept"} =>
    \A s \in Sessions : handler[s] = "dead" => row[s] # "open"

\* The recorded end_reason is the one of an event that happened, whichever of
\* OnClose, the watchdog, ShutdownLive and the lost-race path came first.
EndReasonExplained ==
  \A s \in Sessions : handler[s] # "dead" =>
    /\ row[s] = "normal" => handler[s] = "closed" \/ ff[s] = "ok"
    /\ row[s] = "crashed" => ff[s] = "err" /\ handler[s] \in {"live", "closed"}
    /\ row[s] = "orphan_swept" => handler[s] = "refused" \/ phase = "tearing"

\* A publish that is still going on, or a session not yet fully torn down.
InFlight(s) ==
  \/ handler[s] \in {"row", "dir", "spawned", "lost"}
  \/ handler[s] \in {"live", "closed"} /\ chan[s] # NoChannel /\ td[s] # "done"

\* A serving process none of whose calls has failed leaves nothing behind: a
\* channel with no publish in flight has no registry entry, no open row and no
\* HLS directory, whatever was refused, crashed or failed in earlier processes.
QuiescentClean ==
  phase \in Serving /\ ~failed =>
    \A c \in Channels :
      (\A s \in Sessions : chan[s] = c => ~InFlight(s)) =>
        /\ registry[c] = NoSession
        /\ c \notin dir
        /\ \A s \in Sessions : chan[s] = c => row[s] # "open"

\* stream_sessions is history: a row that has ended keeps its end_reason for
\* ever, across tearDown, lost races, shutdown and every boot sweep.
EndedRowsFinal ==
  [][\A s \in Sessions : row[s] \in Reasons => row'[s] = row[s]]_vars

\* Once its publisher is gone or its ffmpeg has exited, a session leaves the
\* registry: the channel cannot stay "live" for ever.
SessionEnds ==
  \A s \in Sessions :
    (handler[s] = "closed" \/ (handler[s] = "live" /\ ff[s] \in Exited))
      ~> (\A c \in Channels : registry[c] # s)

\* When main has returned, "shutdown complete", the row of every session in the
\* snapshot of ShutdownLive is closed, whoever ran its tearDown, unless a call
\* failed.  (A publish still in OnPublish, and a tearDown that is between
\* registry.remove and its UPDATE, are in no snapshot: their rows are left to
\* the next boot.)
ShutdownClosesLive ==
  phase = "stopped" /\ ~failed => \A s \in snap : row[s] # "open"

\* A signalled process exits, although handlers keep publishing and closing
\* while ShutdownLive waits for one tearDown after the other.
ShutdownTerminates == phase = "draining" ~> phase \in {"stopped", "down"}

-----------------------------------------------------------------------------
(* The strengthening the proofs of the invariants above rest on. *)

\* How far the handler of a session has come bounds what else it may have: a
\* channel and a row only from CreateStreamSession on, an ffmpeg only from
\* Start on, and a tearDown only once it has been live.
Lifecycle ==
  \A s \in Sessions :
    /\ handler[s] \in {"none", "conn"} => chan[s] = NoChannel /\ row[s] = "none"
    /\ handler[s] \in {"row", "dir", "spawned", "lost", "live"} =>
         chan[s] \in Channels
    /\ handler[s] \in {"none", "conn", "row", "dir"} => ff[s] = "none"
    /\ handler[s] \in {"none", "conn", "row", "dir", "spawned", "lost",
                       "refused"} => td[s] = "idle"
    /\ td[s] \in {"grace", "kill", "endrow", "rmdir"} \/ s \in todo =>
         handler[s] \in {"live", "closed"} /\ chan[s] \in Channels

\* The reason tearDown was given is justified as long as the process lives,
\* and a row only ever takes that reason, or the one of the lost race.
ReasonKept ==
  /\ phase \in {"down", "stopped", "swept"} =>
       \A s \in Sessions : handler[s] \in {"none", "dead"}
  /\ \A s \in Sessions : handler[s] # "dead" =>
       /\ td[s] = "idle" => reason[s] = "none"
       /\ reason[s] = "normal" => handler[s] = "closed" \/ ff[s] = "ok"
       /\ reason[s] = "crashed" =>
            ff[s] = "err" /\ handler[s] \in {"live", "closed"}
       /\ reason[s] = "orphan_swept" => phase = "tearing"
       /\ row[s] \in Reasons =>
            \/ row[s] = reason[s]
            \/ row[s] = "orphan_swept" /\ handler[s] = "refused"

-----------------------------------------------------------------------------
(* The abstract directory the web pages see. *)

\* Sessions whose publish has been decided: live once, or refused.
Decided ==
  {s \in Sessions :
     handler[s] \notin {"none", "conn", "row", "dir", "spawned"}}

\* Sessions whose stream is over: somebody has called tearDown.
TornDown == {s \in Sessions : td[s] # "idle"}

LD == INSTANCE LiveDirectory
        WITH live <- registry, spent <- Decided, over <- TornDown

\* ListLive and GetByName read the registry at any moment; through it the
\* whole machinery of publishes, tearDowns, crashes and restarts is seen as
\* the simple directory: one session per channel, each live at most once, and
\* taken off it only when its own stream is over or the process is gone.
DirectoryRefined == LD!Spec

-----------------------------------------------------------------------------
(* A statement of the code's comments that the code does not keep. *)

\* session.go:115: "the next publisher of this channel gets a fresh dir".  A
\* session that is live, and that nobody has begun to tear down, has one.
LiveHasDir ==
  \A c \in Channels :
    registry[c] # NoSession /\ td[registry[c]] = "idle" => c \in dir

=============================================================================
