----------------------------- MODULE MediaPipe ------------------------------
(***************************************************************************)
(* The path of the media of one publish: the goroutine of go-rtmp's read   *)
(* loop that calls the handler (stream/ingest.go), the synchronous io.Pipe *)
(* into the copying goroutine, ffmpeg's stdin and stderr with their finite *)
(* buffers, the goroutines that scan stderr and wait for the process       *)
(* (stream/ffmpeg.go), the watchdog, and tearDown up to the end of the     *)
(* process (stream/session.go).  What tearDown does next, and publishes    *)
(* that are refused, are in StreamIngest.                                  *)
(*                                                                         *)
(* NewEncoder and Encode write the header and each tag in one or more      *)
(* pieces, as the FLV library likes; the model counts pieces.              *)
(***************************************************************************)
EXTENDS Naturals, Sequences

CONSTANTS
  InCap, ErrCap,      \* what the pipes of stdin and stderr hold
  MaxPieces, MaxLines \* bounds: pieces of FLV written, lines ffmpeg logs

ASSUME MediaAssumption ==
  /\ InCap \in Nat \ {0} /\ ErrCap \in Nat \ {0}
  /\ MaxPieces \in Nat \ {0} /\ MaxLines \in Nat

VARIABLES
  peer,     \* the TCP connection is there
  rd,       \* read loop: "header" in NewEncoder, "loop" waiting for a message,
            \* "encode" in Encode, "closing", "waiting" in OnClose, "end"
  wclosed,  \* pipeW is closed
  cp,       \* copying goroutine: "read", "write", "end" (stdin is closed)
  sent,     \* pieces handed over to the copying goroutine
  inq,      \* pieces in the pipe of stdin
  got,      \* pieces ffmpeg has read
  ff,       \* "run", "stall" writing stderr; ended: "eof", "crash", "killed"
  cancel,   \* the supervisor context is cancelled
  errq,     \* lines in the pipe of stderr; "long" is one above 1 MB
  lines,    \* how many lines ffmpeg has logged
  scan,     \* the scanner goroutine goes on
  done,     \* proc.done is closed
  td        \* tearDown: "idle", "grace", "kill", "done"

in   == <<wclosed, cp, sent, inq, got>>
err  == <<errq, lines, scan>>
vars == <<peer, rd, in, ff, cancel, err, done, td>>

Alive  == ff \in {"run", "stall"}

TypeOK ==
  /\ {peer, wclosed, cancel, scan, done} \subseteq BOOLEAN
  /\ rd \in {"header", "loop", "encode", "closing", "waiting", "end"}
  /\ cp \in {"read", "write", "end"}
  /\ sent \in 0..MaxPieces /\ got \in 0..MaxPieces /\ inq \in 0..InCap
  /\ ff \in {"run", "stall", "eof", "crash", "killed"}
  /\ errq \in Seq({"line", "long"}) /\ Len(errq) <= ErrCap
  /\ lines \in 0..MaxLines
  /\ td \in {"idle", "grace", "kill", "done"}

\* startFFmpeg has returned and the copying goroutine is started; OnPublish
\* enters NewEncoder, which writes the FLV header.
Init ==
  /\ peer = TRUE /\ rd = "header"
  /\ wclosed = FALSE /\ cp = "read" /\ sent = 0 /\ inq = 0 /\ got = 0
  /\ ff = "run" /\ cancel = FALSE
  /\ errq = <<>> /\ lines = 0 /\ scan = TRUE
  /\ done = FALSE /\ td = "idle"

-----------------------------------------------------------------------------
(* The read loop and the handler. *)

\* OnSetDataFrame, OnAudio or OnVideo enters Encode.  What the peer sent
\* before it went is still read.
NextTag ==
  /\ rd = "loop" /\ sent < MaxPieces
  /\ rd' = "encode"
  /\ UNCHANGED <<peer, in, ff, cancel, err, done, td>>

\* The payload cannot be decoded: the error ends the connection.
BadTag ==
  /\ rd = "loop" /\ rd' = "closing"
  /\ UNCHANGED <<peer, in, ff, cancel, err, done, td>>

PeerGone ==
  /\ peer /\ peer' = FALSE
  /\ UNCHANGED <<rd, in, ff, cancel, err, done, td>>

\* Only the read loop notices, between two messages.
ReadEof ==
  /\ rd = "loop" /\ ~peer /\ rd' = "closing"
  /\ UNCHANGED <<peer, in, ff, cancel, err, done, td>>

\* io.ErrClosedPipe comes back from Encode.
EncodeFails ==
  /\ rd = "encode" /\ wclosed /\ rd' = "closing"
  /\ UNCHANGED <<peer, in, ff, cancel, err, done, td>>

-----------------------------------------------------------------------------
(* tearDown, and who calls it. *)

\* Mutant: tearDown closes ffmpeg's stdin, not the writer of the pipe.
TearDownClosesStdin ==
  IF td # "idle" THEN UNCHANGED <<td, wclosed, cp>>
  ELSE td' = "grace" /\ wclosed' = TRUE /\ cp' = "end"

\* Mutant: tearDown does not close the pipe.
TearDownKeepsPipe ==
  IF td # "idle" THEN UNCHANGED <<td, wclosed, cp>>
  ELSE td' = "grace" /\ UNCHANGED <<wclosed, cp>>

\* sync.Once: the first caller closes pipeW and starts the grace window.
TearDown ==
  IF td # "idle" THEN UNCHANGED <<td, wclosed, cp>>
  ELSE td' = "grace" /\ wclosed' = TRUE /\ UNCHANGED cp

OnClose ==
  /\ rd = "closing" /\ rd' = "waiting"
  /\ TearDown
  /\ UNCHANGED <<peer, sent, inq, got, ff, cancel, err, done>>

CloseReturns ==
  /\ rd = "waiting" /\ td = "done" /\ rd' = "end"
  /\ UNCHANGED <<peer, in, ff, cancel, err, done, td>>

\* Mutant: the watchdog is only started when the connection closes.
WatchdogLate ==
  /\ rd = "waiting" /\ done /\ td = "idle"
  /\ TearDown
  /\ UNCHANGED <<peer, rd, sent, inq, got, ff, cancel, err, done>>

\* Started at the end of OnPublish.
Watchdog ==
  /\ rd # "header" /\ done /\ td = "idle"
  /\ TearDown
  /\ UNCHANGED <<peer, rd, sent, inq, got, ff, cancel, err, done>>

ShutdownLive ==
  /\ rd # "header" /\ td = "idle"
  /\ TearDown
  /\ UNCHANGED <<peer, rd, sent, inq, got, ff, cancel, err, done>>

\* Mutant: the context is not cancelled.
GraceNoKill ==
  /\ td = "grace" /\ ~done /\ td' = "kill"
  /\ UNCHANGED <<peer, rd, in, ff, cancel, err, done>>

\* Three seconds have passed.
GraceExpires ==
  /\ td = "grace" /\ ~done /\ td' = "kill"
  /\ cancel' = TRUE
  /\ UNCHANGED <<peer, rd, in, ff, err, done>>

Reaped ==
  /\ td \in {"grace", "kill"} /\ done /\ td' = "done"
  /\ UNCHANGED <<peer, rd, in, ff, cancel, err, done>>

-----------------------------------------------------------------------------
(* The copying goroutine: io.Copy(proc.stdin, pipeR). *)

\* The call that writes returns with its last piece.
WriterGoesOn == rd' = "loop" \/ (rd' = rd /\ sent' < MaxPieces)

\* Mutant: it is started after NewEncoder.
CopyReadsLater ==
  /\ cp = "read" /\ rd = "encode" /\ ~wclosed
  /\ cp' = "write" /\ sent' = sent + 1
  /\ WriterGoesOn
  /\ UNCHANGED <<peer, wclosed, inq, got, ff, cancel, err, done, td>>

\* The pipe has no buffer: a piece is written when the reader has it.
CopyReads ==
  /\ cp = "read" /\ rd \in {"header", "encode"} /\ ~wclosed
  /\ cp' = "write" /\ sent' = sent + 1
  /\ WriterGoesOn
  /\ UNCHANGED <<peer, wclosed, inq, got, ff, cancel, err, done, td>>

CopyWrites ==
  /\ cp = "write" /\ inq < InCap /\ Alive
  /\ cp' = "read" /\ inq' = inq + 1
  /\ UNCHANGED <<peer, rd, wclosed, sent, got, ff, cancel, err, done, td>>

\* EOF of the pipe, or EPIPE of stdin: stdin is closed, pipeR is not.
CopyEnds ==
  /\ \/ cp = "read" /\ wclosed
     \/ cp = "write" /\ ~Alive
  /\ cp' = "end"
  /\ UNCHANGED <<peer, rd, wclosed, sent, inq, got, ff, cancel, err, done, td>>

-----------------------------------------------------------------------------
(* ffmpeg (external). *)

FFmpegReads ==
  /\ ff = "run" /\ inq > 0
  /\ inq' = inq - 1 /\ got' = got + 1
  /\ UNCHANGED <<peer, rd, wclosed, cp, sent, ff, cancel, err, done, td>>

\* It logs a line, at once or when the pipe has room again.
FFmpegLogs(line) ==
  /\ Alive /\ lines < MaxLines /\ Len(errq) < ErrCap
  /\ errq' = Append(errq, line) /\ lines' = lines + 1
  /\ ff' = "run"
  /\ UNCHANGED <<peer, rd, in, cancel, scan, done, td>>

FFmpegStalls ==
  /\ ff = "run" /\ lines < MaxLines /\ Len(errq) = ErrCap
  /\ ff' = "stall"
  /\ UNCHANGED <<peer, rd, in, cancel, err, done, td>>

FFmpegEof ==
  /\ ff = "run" /\ inq = 0 /\ cp = "end"
  /\ ff' = "eof"
  /\ UNCHANGED <<peer, rd, in, cancel, err, done, td>>

FFmpegCrashes ==
  /\ ff = "run" /\ ff' = "crash"
  /\ UNCHANGED <<peer, rd, in, cancel, err, done, td>>

-----------------------------------------------------------------------------
(* The supervisor. *)

\* exec.CommandContext kills the process.
Kill ==
  /\ Alive /\ cancel /\ ff' = "killed"
  /\ UNCHANGED <<peer, rd, in, cancel, err, done, td>>

\* cmd.Wait returns, having closed the pipes; it does not wait for the scanner.
Wait ==
  /\ ~Alive /\ ~done /\ done' = TRUE
  /\ UNCHANGED <<peer, rd, in, ff, cancel, err, td>>

\* A line goes into the ring buffer; a line above the limit ends the loop.
Scan ==
  /\ scan /\ errq # <<>> /\ ~done
  /\ IF Head(errq) = "long" THEN scan' = FALSE /\ UNCHANGED errq
     ELSE errq' = Tail(errq) /\ UNCHANGED scan
  /\ UNCHANGED <<peer, rd, in, ff, cancel, lines, done, td>>

ScanEnds ==
  /\ scan /\ (done \/ (~Alive /\ errq = <<>>))
  /\ scan' = FALSE
  /\ UNCHANGED <<peer, rd, in, ff, cancel, errq, lines, done, td>>

-----------------------------------------------------------------------------
Next ==
  \/ NextTag \/ BadTag \/ PeerGone \/ ReadEof \/ EncodeFails
  \/ OnClose \/ CloseReturns \/ Watchdog \/ ShutdownLive
  \/ GraceExpires \/ Reaped
  \/ CopyReads \/ CopyWrites \/ CopyEnds
  \/ FFmpegReads \/ FFmpegStalls \/ FFmpegEof \/ FFmpegCrashes
  \/ \E line \in {"line", "long"} : FFmpegLogs(line)
  \/ Kill \/ Wait \/ Scan \/ ScanEnds

\* Goroutines with something to do run, a closed connection is noticed by who
\* reads it, the grace timer fires, a killed process dies, and an ffmpeg that
\* is not blocked reads its input and ends at its end.  Peers, shutdown,
\* crashes and log lines are not owed, but a blocked write goes on when there
\* is room.
Fairness ==
  /\ WF_vars(ReadEof) /\ WF_vars(EncodeFails) /\ WF_vars(OnClose)
  /\ WF_vars(CloseReturns) /\ WF_vars(Watchdog)
  /\ WF_vars(GraceExpires) /\ WF_vars(Reaped)
  /\ WF_vars(CopyReads) /\ WF_vars(CopyWrites) /\ WF_vars(CopyEnds)
  /\ WF_vars(FFmpegReads) /\ WF_vars(FFmpegEof)
  /\ WF_vars(ff = "stall" /\ \E line \in {"line", "long"} : FFmpegLogs(line))
  /\ WF_vars(Kill) /\ WF_vars(Wait) /\ WF_vars(Scan) /\ WF_vars(ScanEnds)

Spec == Init /\ [][Next]_vars /\ Fairness

-----------------------------------------------------------------------------
(* Properties. *)

\* An ffmpeg that ends at the end of its input has read every piece the pipe
\* accepted: closing the writer of the pipe lets what is under way through, and
\* no pipe holds more than it can.
NothingLost == TypeOK /\ (ff = "eof" => got = sent)

\* NewEncoder returns, although the pipe has no buffer, ffmpeg may log instead of
\* reading, and no watchdog or tearDown exists yet to release it.  Two ends are
\* excepted, after which nobody reads the pipe or closes it: ffmpeg has died and
\* the copy with it, or it is blocked on a stderr nobody drains any more.
PublishProceeds ==
  rd = "header" ~> \/ rd # "header"
                   \/ ~Alive /\ cp = "end"
                   \/ ff = "stall" /\ ~scan

\* A handler blocked in Encode is released once ffmpeg has ended: nobody reads
\* the pipe any more, only the watchdog's tearDown frees it.
HandlerReleased == rd = "encode" /\ ~Alive ~> rd # "encode"

\* tearDown gets to the end of the process, also of one that is blocked
\* writing to a stderr nobody drains.
TearDownEnds == td = "grace" ~> td = "done"

\* When the peer has gone the session is torn down and OnClose returns, unless
\* the handler may never leave Encode or NewEncoder to notice: ffmpeg is blocked
\* for ever because the scanner gave up on a long line, or it died during
\* OnPublish.
CloseSeen ==
  ~peer ~> \/ rd = "end"
           \/ ff = "stall" /\ ~scan
           \/ rd = "header" /\ ~Alive /\ cp = "end"

=============================================================================
