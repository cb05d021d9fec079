-------------------------- MODULE MediaPipe_proofs --------------------------
(***************************************************************************)
(* Proofs about MediaPipe, for every capacity of the pipes and every       *)
(* length of the stream.  What makes NothingLost inductive is a            *)
(* conservation law: as long as ffmpeg has not died early, each piece that *)
(* was handed over is in one of three places.                              *)
(***************************************************************************)
EXTENDS MediaPipe, SequenceTheorems, TLAPS

\* The piece the copying goroutine holds, read from the pipe and not yet written.
InHand == IF cp = "write" THEN 1 ELSE 0

\* A piece is only lost in a process that crashed or was killed.
Conserved == ff \in {"run", "stall", "eof"} => sent = got + inq + InHand

\* ffmpeg sees the end of its input only after the copy has ended and the pipe
\* is empty.
EofLast == ff = "eof" => cp = "end" /\ inq = 0

\* Nothing is sent twice, and a call that writes has a piece left to write.
Counted ==
  /\ got + inq <= sent
  /\ rd \in {"header", "encode"} => sent < MaxPieces

MediaInv == TypeOK /\ Conserved /\ EofLast /\ Counted

LEMMA MediaInit == Init => MediaInv
<1> SUFFICES ASSUME Init
             PROVE  MediaInv
  OBVIOUS
<1> USE MediaAssumption DEF Init
<1>1. errq \in Seq({"line", "long"}) /\ Len(errq) <= ErrCap
  OBVIOUS
<1>2. {peer, wclosed, cancel, scan, done} \subseteq BOOLEAN
  BY Zenon
<1>3. TypeOK
  BY <1>1, <1>2 DEF TypeOK
<1>4. Conserved /\ EofLast /\ Counted
  BY DEF Conserved, EofLast, Counted, InHand
<1> QED
  BY <1>3, <1>4 DEF MediaInv

LEMMA MediaStep == MediaInv /\ [Next]_vars => MediaInv'
<1> SUFFICES ASSUME MediaInv, [Next]_vars
             PROVE  MediaInv'
  OBVIOUS
<1> USE MediaAssumption
    DEF MediaInv, TypeOK, Conserved, EofLast, Counted, InHand, Alive, in, err
<1>1. CASE NextTag
  BY <1>1 DEF NextTag
<1>2. CASE BadTag
  BY <1>2 DEF BadTag
<1>3. CASE PeerGone
  BY <1>3 DEF PeerGone
<1>4. CASE ReadEof
  BY <1>4 DEF ReadEof
<1>5. CASE EncodeFails
  BY <1>5 DEF EncodeFails
<1>6. CASE OnClose
  BY <1>6 DEF OnClose, TearDown
<1>7. CASE CloseReturns
  BY <1>7 DEF CloseReturns
<1>8. CASE Watchdog
  BY <1>8 DEF Watchdog, TearDown
<1>9. CASE ShutdownLive
  BY <1>9 DEF ShutdownLive, TearDown
<1>10. CASE GraceExpires
  BY <1>10 DEF GraceExpires
<1>11. CASE Reaped
  BY <1>11 DEF Reaped
<1>12. CASE CopyReads
  BY <1>12 DEF CopyReads, WriterGoesOn
<1>13. CASE CopyWrites
  BY <1>13 DEF CopyWrites
<1>14. CASE CopyEnds
  BY <1>14 DEF CopyEnds
<1>15. CASE FFmpegReads
  BY <1>15 DEF FFmpegReads
<1>16. CASE FFmpegStalls
  BY <1>16 DEF FFmpegStalls
<1>17. CASE FFmpegEof
  BY <1>17 DEF FFmpegEof
<1>18. CASE FFmpegCrashes
  BY <1>18 DEF FFmpegCrashes
<1>19. ASSUME NEW line \in {"line", "long"}, FFmpegLogs(line)
       PROVE  MediaInv'
  BY <1>19 DEF FFmpegLogs
<1>20. CASE Kill
  BY <1>20 DEF Kill
<1>21. CASE Wait
  BY <1>21 DEF Wait
<1>22. CASE Scan
  <2>1. errq' \in Seq({"line", "long"}) /\ Len(errq') <= ErrCap
    <3>1. errq # <<>> /\ (errq' = errq \/ errq' = Tail(errq))
      BY <1>22 DEF Scan
    <3>2. errq \in Seq({"line", "long"}) /\ Len(errq) \in Nat
      OBVIOUS
    <3>3. Tail(errq) \in Seq({"line", "long"}) /\ Len(Tail(errq)) = Len(errq) - 1
      BY ONLY <3>1, <3>2, HeadTailProperties
    <3> QED
      BY <3>1, <3>2, <3>3
  <2>2. scan' \in BOOLEAN
    BY <1>22 DEF Scan
  <2>3. UNCHANGED <<peer, rd, wclosed, cp, sent, inq, got, ff, cancel, lines,
                    done, td>>
    BY <1>22 DEF Scan
  <2>4. TypeOK'
    BY <2>1, <2>2, <2>3
  <2> QED
    BY <2>3, <2>4
<1>23. CASE ScanEnds
  <2>1. /\ scan' = FALSE
        /\ UNCHANGED <<peer, rd, wclosed, cp, sent, inq, got, ff, cancel, errq,
                        lines, done, td>>
    BY <1>23 DEF ScanEnds
  <2>2. TypeOK'
    BY <2>1
  <2> QED
    BY <2>1, <2>2
<1>24. CASE UNCHANGED vars
  <2>1. UNCHANGED <<peer, rd, wclosed, cp, sent, inq, got, ff, cancel, errq, lines,
                    scan, done, td>>
    BY <1>24 DEF vars
  <2>2. TypeOK'
    BY <2>1
  <2> QED
    BY <2>1, <2>2
<1> QED
  BY <1>1, <1>2, <1>3, <1>4, <1>5, <1>6, <1>7, <1>8, <1>9, <1>10, <1>11,
     <1>12, <1>13, <1>14, <1>15, <1>16, <1>17, <1>18, <1>19, <1>20, <1>21,
     <1>22, <1>23, <1>24 DEF Next

\* Every reachable state satisfies the conservation law.
THEOREM MediaInvariance == Spec => []MediaInv
BY MediaInit, MediaStep, PTL DEF Spec

\* An ffmpeg that ends at the end of its input has read every piece the pipe
\* accepted, whoever called tearDown and however full the pipes were.
THEOREM MediaComplete == Spec => []NothingLost
<1>1. MediaInv => NothingLost
  BY DEF MediaInv, NothingLost, TypeOK, Conserved, EofLast, InHand
<1> QED
  BY <1>1, MediaInvariance, PTL

=============================================================================
