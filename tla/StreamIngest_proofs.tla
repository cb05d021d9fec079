------------------------ MODULE StreamIngest_proofs ------------------------
(***************************************************************************)
(* Proofs about StreamIngest, for any number of sessions and channels and  *)
(* any set of faults.  RegistryExact is not inductive by itself: a GoLive  *)
(* needs to know that no tearDown of the session has begun, and Unregister *)
(* that the session it deletes by name is the one that was live.  These    *)
(* facts are Lifecycle, which in turn needs RegistryExact to know that     *)
(* what ShutdownLive snapshots was live.  ReasonKept carries the reasons   *)
(* from the event that started a tearDown to the row it ends.  The last    *)
(* part adds who owns each directory and each open row as long as no call  *)
(* has failed, and what is left of them after a shutdown.                  *)
(***************************************************************************)
EXTENDS StreamIngest, TLAPS

\* The inductive invariant.
IInv ==
  /\ TypeOK /\ Lifecycle /\ RegistryExact
  /\ NoStrayFFmpeg /\ RecoveredRows /\ ReasonKept

LEMMA InitInv == Init => IInv
<1> SUFFICES ASSUME Init PROVE IInv
  OBVIOUS
<1> USE NoneAssumption DEF Init
<1>1. TypeOK
  BY DEF TypeOK, Phases, Handlers, Reasons, Running, Exited
<1>2. Lifecycle /\ RegistryExact
  BY DEF Lifecycle, RegistryExact
<1>3. NoStrayFFmpeg /\ RecoveredRows
  BY DEF NoStrayFFmpeg, RecoveredRows, Exited, Serving
<1>4. ReasonKept
  BY DEF ReasonKept, Reasons
<1> QED
  BY <1>1, <1>2, <1>3, <1>4 DEF IInv

-----------------------------------------------------------------------------
\* Every step keeps the types and what a handler's progress says about its
\* channel, row, ffmpeg and tearDown.
LEMMA BaseStep ==
  TypeOK /\ Lifecycle /\ RegistryExact /\ [Next]_vars => TypeOK' /\ Lifecycle'
<1> SUFFICES ASSUME TypeOK, Lifecycle, RegistryExact, [Next]_vars
             PROVE  TypeOK' /\ Lifecycle'
  OBVIOUS
<1> USE NoneAssumption DEF TypeOK, Lifecycle, mem, proc, disk, Phases,
        Handlers, Reasons, Running, Exited
<1>1. CASE \/ UNCHANGED vars
           \/ Signal \/ CloseListener
           \/ ShutdownWaits
  <2>1. CASE UNCHANGED vars
    BY <2>1 DEF vars
  <2>2. CASE Signal
    BY <2>2 DEF Signal
  <2>3. CASE CloseListener
    BY <2>3 DEF CloseListener
  <2>4. CASE ShutdownWaits
    BY <2>4 DEF ShutdownWaits
  <2> QED
    BY <1>1, <2>1, <2>2, <2>3, <2>4
<1>2. CASE MarkOpenStreamSessionsOrphaned
  BY <1>2 DEF MarkOpenStreamSessionsOrphaned, Orphaned
<1>3. CASE WipeAndListen
  BY <1>3 DEF WipeAndListen
<1>4. CASE ShutdownLive
  BY <1>4 DEF ShutdownLive, RegistryExact
<1>5. CASE Stop
  BY <1>5 DEF Stop, ProcessGone
<1>6. CASE Crash
  BY <1>6 DEF Crash, ProcessGone
<1>7. ASSUME NEW s \in Sessions, Accept(s)
      PROVE  TypeOK' /\ Lifecycle'
  BY <1>7 DEF Accept, At, Goto
<1>8. ASSUME NEW s \in Sessions, RejectPublish(s)
      PROVE  TypeOK' /\ Lifecycle'
  BY <1>8 DEF RejectPublish, At, Goto
<1>9. ASSUME NEW s \in Sessions, MkdirOut(s)
      PROVE  TypeOK' /\ Lifecycle'
  <2>1. failed' \in BOOLEAN /\ dir' \in SUBSET Channels
    BY <1>9 DEF MkdirOut, GiveUp, At, Goto
  <2> QED
    BY <1>9, <2>1 DEF MkdirOut, GiveUp, At, Goto
<1>10. ASSUME NEW s \in Sessions, StartFFmpeg(s)
      PROVE  TypeOK' /\ Lifecycle'
  <2>1. failed' \in BOOLEAN
    BY <1>10 DEF StartFFmpeg, GiveUp, At, Goto
  <2> QED
    BY <1>10, <2>1 DEF StartFFmpeg, GiveUp, At, Goto
<1>11. ASSUME NEW s \in Sessions, EncoderFails(s)
      PROVE  TypeOK' /\ Lifecycle'
  BY <1>11 DEF EncoderFails, GiveUp, Kill, At, Goto
<1>12. ASSUME NEW s \in Sessions, GoLive(s)
      PROVE  TypeOK' /\ Lifecycle'
  BY <1>12 DEF GoLive, At, Goto
<1>13. ASSUME NEW s \in Sessions, LoseRace(s)
      PROVE  TypeOK' /\ Lifecycle'
  BY <1>13 DEF LoseRace, Kill, At, Goto
<1>14. ASSUME NEW s \in Sessions, EndLostRow(s)
      PROVE  TypeOK' /\ Lifecycle'
  <2>1. failed' \in BOOLEAN
    BY <1>14 DEF EndLostRow, EndStreamSession
  <2>2. row' \in [Sessions -> {"none", "open"} \cup Reasons]
    BY <1>14 DEF EndLostRow, EndStreamSession
  <2>3. \A t \in Sessions : row[t] = "none" => row'[t] = "none"
    BY <1>14 DEF EndLostRow, EndStreamSession
  <2>4. TypeOK'
    BY <1>14, <2>1, <2>2 DEF EndLostRow, At, Goto
  <2>5. Lifecycle'
    BY <1>14, <2>3 DEF EndLostRow, At, Goto
  <2> QED
    BY <2>4, <2>5
<1>15. ASSUME NEW s \in Sessions, OnClose(s)
      PROVE  TypeOK' /\ Lifecycle'
  BY <1>15 DEF OnClose, TearDown, Eof, At, Goto
<1>16. ASSUME NEW s \in Sessions, Watchdog(s)
      PROVE  TypeOK' /\ Lifecycle'
  BY <1>16 DEF Watchdog, TearDown, Eof, At
<1>17. ASSUME NEW s \in Sessions, GraceExpires(s)
      PROVE  TypeOK' /\ Lifecycle'
  BY <1>17 DEF GraceExpires, Kill
<1>18. ASSUME NEW s \in Sessions, Unregister(s)
      PROVE  TypeOK' /\ Lifecycle'
  BY <1>18 DEF Unregister
<1>19. ASSUME NEW s \in Sessions, EndRow(s)
      PROVE  TypeOK' /\ Lifecycle'
  <2>1. failed' \in BOOLEAN
    BY <1>19 DEF EndRow, EndStreamSession
  <2>2. row' \in [Sessions -> {"none", "open"} \cup Reasons]
    BY <1>19 DEF EndRow, EndStreamSession
  <2>3. \A t \in Sessions : row[t] = "none" => row'[t] = "none"
    BY <1>19 DEF EndRow, EndStreamSession
  <2>4. TypeOK'
    BY <1>19, <2>1, <2>2 DEF EndRow
  <2>5. Lifecycle'
    BY <1>19, <2>3 DEF EndRow
  <2> QED
    BY <2>4, <2>5
<1>20. ASSUME NEW s \in Sessions, RemoveDir(s)
      PROVE  TypeOK' /\ Lifecycle'
  <2>1. failed' \in BOOLEAN /\ dir' \in SUBSET Channels
    BY <1>20 DEF RemoveDir
  <2> QED
    BY <1>20, <2>1 DEF RemoveDir
<1>21. ASSUME NEW s \in Sessions, ShutdownNext(s)
      PROVE  TypeOK' /\ Lifecycle'
  BY <1>21 DEF ShutdownNext, TearDown, Eof
<1>22. ASSUME NEW s \in Sessions, NEW c \in Channels, CreateStreamSession(s, c)
      PROVE  TypeOK' /\ Lifecycle'
  BY <1>22 DEF CreateStreamSession, At, Goto
<1>23. ASSUME NEW s \in Sessions, NEW status \in Exited, FFmpegExits(s, status)
      PROVE  TypeOK' /\ Lifecycle'
  BY <1>23 DEF FFmpegExits
<1> HIDE DEF TypeOK, Lifecycle
<1> QED
  BY <1>1, <1>2, <1>3, <1>4, <1>5, <1>6, <1>7, <1>8, <1>9, <1>10, <1>11,
     <1>12, <1>13, <1>14, <1>15, <1>16, <1>17, <1>18, <1>19, <1>20, <1>21,
     <1>22, <1>23 DEF Next

-----------------------------------------------------------------------------
\* add never overwrites and remove never deletes an entry of another session.
LEMMA RegistryStep ==
  TypeOK /\ Lifecycle /\ RegistryExact /\ [Next]_vars => RegistryExact'
<1> SUFFICES ASSUME TypeOK, Lifecycle, RegistryExact, [Next]_vars
             PROVE  RegistryExact'
  OBVIOUS
<1> USE NoneAssumption DEF TypeOK, Lifecycle, RegistryExact, mem, proc, disk,
        Handlers
<1>1. CASE \/ UNCHANGED vars
           \/ MarkOpenStreamSessionsOrphaned \/ WipeAndListen
           \/ Signal \/ CloseListener
           \/ ShutdownLive \/ ShutdownWaits
  BY <1>1 DEF vars, MarkOpenStreamSessionsOrphaned, WipeAndListen, Signal,
              CloseListener, ShutdownLive, ShutdownWaits, Orphaned
<1>2. CASE Stop
  BY <1>2 DEF Stop, ProcessGone
<1>3. CASE Crash
  BY <1>3 DEF Crash, ProcessGone
<1>4. ASSUME NEW s \in Sessions, Accept(s)
      PROVE  RegistryExact'
  BY <1>4 DEF Accept, At, Goto
<1>5. ASSUME NEW s \in Sessions, RejectPublish(s)
      PROVE  RegistryExact'
  BY <1>5 DEF RejectPublish, At, Goto
<1>6. ASSUME NEW s \in Sessions, MkdirOut(s)
      PROVE  RegistryExact'
  BY <1>6 DEF MkdirOut, GiveUp, At, Goto
<1>7. ASSUME NEW s \in Sessions, StartFFmpeg(s)
      PROVE  RegistryExact'
  BY <1>7 DEF StartFFmpeg, GiveUp, At, Goto
<1>8. ASSUME NEW s \in Sessions, EncoderFails(s)
      PROVE  RegistryExact'
  BY <1>8 DEF EncoderFails, GiveUp, Kill, At, Goto
<1>9. ASSUME NEW s \in Sessions, GoLive(s)
      PROVE  RegistryExact'
  BY <1>9 DEF GoLive, At, Goto
<1>10. ASSUME NEW s \in Sessions, LoseRace(s)
      PROVE  RegistryExact'
  BY <1>10 DEF LoseRace, Kill, At, Goto
<1>11. ASSUME NEW s \in Sessions, EndLostRow(s)
      PROVE  RegistryExact'
  BY <1>11 DEF EndLostRow, EndStreamSession, At, Goto
<1>12. ASSUME NEW s \in Sessions, OnClose(s)
      PROVE  RegistryExact'
  BY <1>12 DEF OnClose, TearDown, Eof, At, Goto
<1>13. ASSUME NEW s \in Sessions, Watchdog(s)
      PROVE  RegistryExact'
  BY <1>13 DEF Watchdog, TearDown, Eof, At
<1>14. ASSUME NEW s \in Sessions, GraceExpires(s)
      PROVE  RegistryExact'
  BY <1>14 DEF GraceExpires, Kill
<1>15. ASSUME NEW s \in Sessions, Unregister(s)
      PROVE  RegistryExact'
  BY <1>15 DEF Unregister
<1>16. ASSUME NEW s \in Sessions, EndRow(s)
      PROVE  RegistryExact'
  BY <1>16 DEF EndRow, EndStreamSession
<1>17. ASSUME NEW s \in Sessions, RemoveDir(s)
      PROVE  RegistryExact'
  BY <1>17 DEF RemoveDir
<1>18. ASSUME NEW s \in Sessions, ShutdownNext(s)
      PROVE  RegistryExact'
  BY <1>18 DEF ShutdownNext, TearDown, Eof
<1>19. ASSUME NEW s \in Sessions, NEW c \in Channels, CreateStreamSession(s, c)
      PROVE  RegistryExact'
  BY <1>19 DEF CreateStreamSession, At, Goto
<1>20. ASSUME NEW s \in Sessions, NEW status \in Exited, FFmpegExits(s, status)
      PROVE  RegistryExact'
  BY <1>20 DEF FFmpegExits
<1> QED
  BY <1>1, <1>2, <1>3, <1>4, <1>5, <1>6, <1>7, <1>8, <1>9, <1>10, <1>11,
     <1>12, <1>13, <1>14, <1>15, <1>16, <1>17, <1>18, <1>19, <1>20 DEF Next

-----------------------------------------------------------------------------
\* Every path kills or reaps the ffmpeg it lets go of.
LEMMA StrayStep ==
  TypeOK /\ Lifecycle /\ RegistryExact /\ NoStrayFFmpeg /\ [Next]_vars
    => NoStrayFFmpeg'
<1> SUFFICES ASSUME TypeOK, Lifecycle, RegistryExact, NoStrayFFmpeg, [Next]_vars
             PROVE  NoStrayFFmpeg'
  OBVIOUS
<1> USE NoneAssumption DEF TypeOK, Lifecycle, RegistryExact, NoStrayFFmpeg,
        mem, proc, disk, Handlers, Running, Exited
<1>1. CASE \/ UNCHANGED vars
           \/ MarkOpenStreamSessionsOrphaned \/ WipeAndListen
           \/ Signal \/ CloseListener
           \/ ShutdownLive \/ ShutdownWaits
  BY <1>1 DEF vars, MarkOpenStreamSessionsOrphaned, WipeAndListen, Signal,
              CloseListener, ShutdownLive, ShutdownWaits, Orphaned
<1>2. CASE Stop
  BY <1>2 DEF Stop, ProcessGone
<1>3. CASE Crash
  BY <1>3 DEF Crash, ProcessGone
<1>4. ASSUME NEW s \in Sessions, Accept(s)
      PROVE  NoStrayFFmpeg'
  BY <1>4 DEF Accept, At, Goto
<1>5. ASSUME NEW s \in Sessions, RejectPublish(s)
      PROVE  NoStrayFFmpeg'
  BY <1>5 DEF RejectPublish, At, Goto
<1>6. ASSUME NEW s \in Sessions, MkdirOut(s)
      PROVE  NoStrayFFmpeg'
  BY <1>6 DEF MkdirOut, GiveUp, At, Goto
<1>7. ASSUME NEW s \in Sessions, StartFFmpeg(s)
      PROVE  NoStrayFFmpeg'
  BY <1>7 DEF StartFFmpeg, GiveUp, At, Goto
<1>8. ASSUME NEW s \in Sessions, EncoderFails(s)
      PROVE  NoStrayFFmpeg'
  BY <1>8 DEF EncoderFails, GiveUp, Kill, At, Goto
<1>9. ASSUME NEW s \in Sessions, GoLive(s)
      PROVE  NoStrayFFmpeg'
  BY <1>9 DEF GoLive, At, Goto
<1>10. ASSUME NEW s \in Sessions, LoseRace(s)
      PROVE  NoStrayFFmpeg'
  BY <1>10 DEF LoseRace, Kill, At, Goto
<1>11. ASSUME NEW s \in Sessions, EndLostRow(s)
      PROVE  NoStrayFFmpeg'
  BY <1>11 DEF EndLostRow, EndStreamSession, At, Goto
<1>12. ASSUME NEW s \in Sessions, OnClose(s)
      PROVE  NoStrayFFmpeg'
  BY <1>12 DEF OnClose, TearDown, Eof, At, Goto
<1>13. ASSUME NEW s \in Sessions, Watchdog(s)
      PROVE  NoStrayFFmpeg'
  BY <1>13 DEF Watchdog, TearDown, Eof, At
<1>14. ASSUME NEW s \in Sessions, GraceExpires(s)
      PROVE  NoStrayFFmpeg'
  BY <1>14 DEF GraceExpires, Kill
<1>15. ASSUME NEW s \in Sessions, Unregister(s)
      PROVE  NoStrayFFmpeg'
  BY <1>15 DEF Unregister
<1>16. ASSUME NEW s \in Sessions, EndRow(s)
      PROVE  NoStrayFFmpeg'
  BY <1>16 DEF EndRow, EndStreamSession
<1>17. ASSUME NEW s \in Sessions, RemoveDir(s)
      PROVE  NoStrayFFmpeg'
  BY <1>17 DEF RemoveDir
<1>18. ASSUME NEW s \in Sessions, ShutdownNext(s)
      PROVE  NoStrayFFmpeg'
  BY <1>18 DEF ShutdownNext, TearDown, Eof
<1>19. ASSUME NEW s \in Sessions, NEW c \in Channels, CreateStreamSession(s, c)
      PROVE  NoStrayFFmpeg'
  BY <1>19 DEF CreateStreamSession, At, Goto
<1>20. ASSUME NEW s \in Sessions, NEW status \in Exited, FFmpegExits(s, status)
      PROVE  NoStrayFFmpeg'
  BY <1>20 DEF FFmpegExits
<1> QED
  BY <1>1, <1>2, <1>3, <1>4, <1>5, <1>6, <1>7, <1>8, <1>9, <1>10, <1>11,
     <1>12, <1>13, <1>14, <1>15, <1>16, <1>17, <1>18, <1>19, <1>20 DEF Next

-----------------------------------------------------------------------------
\* A dead handler's row is never re-opened, and boot sweeps them all.
LEMMA RecoveredStep ==
  TypeOK /\ RecoveredRows /\ [Next]_vars => RecoveredRows'
<1> SUFFICES ASSUME TypeOK, RecoveredRows, [Next]_vars
             PROVE  RecoveredRows'
  OBVIOUS
<1> USE DEF TypeOK, RecoveredRows, Serving, mem, proc, disk, Handlers
<1>1. CASE \/ UNCHANGED vars
           \/ MarkOpenStreamSessionsOrphaned \/ WipeAndListen
           \/ Signal \/ CloseListener
           \/ ShutdownLive \/ ShutdownWaits
  BY <1>1 DEF vars, MarkOpenStreamSessionsOrphaned, WipeAndListen, Signal,
              CloseListener, ShutdownLive, ShutdownWaits, Orphaned
<1>2. CASE Stop
  BY <1>2 DEF Stop, ProcessGone
<1>3. CASE Crash
  BY <1>3 DEF Crash, ProcessGone
<1>4. ASSUME NEW s \in Sessions, Accept(s)
      PROVE  RecoveredRows'
  BY <1>4 DEF Accept, At, Goto
<1>5. ASSUME NEW s \in Sessions, RejectPublish(s)
      PROVE  RecoveredRows'
  BY <1>5 DEF RejectPublish, At, Goto
<1>6. ASSUME NEW s \in Sessions, MkdirOut(s)
      PROVE  RecoveredRows'
  BY <1>6 DEF MkdirOut, GiveUp, At, Goto
<1>7. ASSUME NEW s \in Sessions, StartFFmpeg(s)
      PROVE  RecoveredRows'
  BY <1>7 DEF StartFFmpeg, GiveUp, At, Goto
<1>8. ASSUME NEW s \in Sessions, EncoderFails(s)
      PROVE  RecoveredRows'
  BY <1>8 DEF EncoderFails, GiveUp, Kill, At, Goto
<1>9. ASSUME NEW s \in Sessions, GoLive(s)
      PROVE  RecoveredRows'
  BY <1>9 DEF GoLive, At, Goto
<1>10. ASSUME NEW s \in Sessions, LoseRace(s)
      PROVE  RecoveredRows'
  BY <1>10 DEF LoseRace, Kill, At, Goto
<1>11. ASSUME NEW s \in Sessions, EndLostRow(s)
      PROVE  RecoveredRows'
  BY <1>11 DEF EndLostRow, EndStreamSession, At, Goto
<1>12. ASSUME NEW s \in Sessions, OnClose(s)
      PROVE  RecoveredRows'
  BY <1>12 DEF OnClose, TearDown, Eof, At, Goto
<1>13. ASSUME NEW s \in Sessions, Watchdog(s)
      PROVE  RecoveredRows'
  BY <1>13 DEF Watchdog, TearDown, Eof, At
<1>14. ASSUME NEW s \in Sessions, GraceExpires(s)
      PROVE  RecoveredRows'
  BY <1>14 DEF GraceExpires, Kill
<1>15. ASSUME NEW s \in Sessions, Unregister(s)
      PROVE  RecoveredRows'
  BY <1>15 DEF Unregister
<1>16. ASSUME NEW s \in Sessions, EndRow(s)
      PROVE  RecoveredRows'
  BY <1>16 DEF EndRow, EndStreamSession
<1>17. ASSUME NEW s \in Sessions, RemoveDir(s)
      PROVE  RecoveredRows'
  BY <1>17 DEF RemoveDir
<1>18. ASSUME NEW s \in Sessions, ShutdownNext(s)
      PROVE  RecoveredRows'
  BY <1>18 DEF ShutdownNext, TearDown, Eof
<1>19. ASSUME NEW s \in Sessions, NEW c \in Channels, CreateStreamSession(s, c)
      PROVE  RecoveredRows'
  BY <1>19 DEF CreateStreamSession, At, Goto
<1>20. ASSUME NEW s \in Sessions, NEW status \in Exited, FFmpegExits(s, status)
      PROVE  RecoveredRows'
  BY <1>20 DEF FFmpegExits
<1> QED
  BY <1>1, <1>2, <1>3, <1>4, <1>5, <1>6, <1>7, <1>8, <1>9, <1>10, <1>11,
     <1>12, <1>13, <1>14, <1>15, <1>16, <1>17, <1>18, <1>19, <1>20 DEF Next

-----------------------------------------------------------------------------
\* The reason of a tearDown stays justified and reaches the row unchanged.
LEMMA ReasonStep ==
  TypeOK /\ Lifecycle /\ ReasonKept /\ [Next]_vars => ReasonKept'
<1> SUFFICES ASSUME TypeOK, Lifecycle, ReasonKept, [Next]_vars
             PROVE  ReasonKept'
  OBVIOUS
<1> USE DEF TypeOK, Lifecycle, ReasonKept, mem, proc, disk, Phases, Handlers,
        Reasons, Serving, Running, Exited
<1>1. CASE \/ UNCHANGED vars
           \/ MarkOpenStreamSessionsOrphaned \/ WipeAndListen
           \/ Signal \/ CloseListener
           \/ ShutdownLive \/ ShutdownWaits
  BY <1>1 DEF vars, MarkOpenStreamSessionsOrphaned, WipeAndListen, Signal,
              CloseListener, ShutdownLive, ShutdownWaits, Orphaned
<1>2. CASE Stop
  BY <1>2 DEF Stop, ProcessGone
<1>3. CASE Crash
  BY <1>3 DEF Crash, ProcessGone
<1>4. ASSUME NEW s \in Sessions, Accept(s)
      PROVE  ReasonKept'
  BY <1>4 DEF Accept, At, Goto
<1>5. ASSUME NEW s \in Sessions, RejectPublish(s)
      PROVE  ReasonKept'
  BY <1>5 DEF RejectPublish, At, Goto
<1>6. ASSUME NEW s \in Sessions, MkdirOut(s)
      PROVE  ReasonKept'
  BY <1>6 DEF MkdirOut, GiveUp, At, Goto
<1>7. ASSUME NEW s \in Sessions, StartFFmpeg(s)
      PROVE  ReasonKept'
  BY <1>7 DEF StartFFmpeg, GiveUp, At, Goto
<1>8. ASSUME NEW s \in Sessions, EncoderFails(s)
      PROVE  ReasonKept'
  BY <1>8 DEF EncoderFails, GiveUp, Kill, At, Goto
<1>9. ASSUME NEW s \in Sessions, GoLive(s)
      PROVE  ReasonKept'
  BY <1>9 DEF GoLive, At, Goto
<1>10. ASSUME NEW s \in Sessions, LoseRace(s)
      PROVE  ReasonKept'
  BY <1>10 DEF LoseRace, Kill, At, Goto
<1>11. ASSUME NEW s \in Sessions, EndLostRow(s)
      PROVE  ReasonKept'
  BY <1>11 DEF EndLostRow, EndStreamSession, At, Goto
<1>12. ASSUME NEW s \in Sessions, OnClose(s)
      PROVE  ReasonKept'
  BY <1>12 DEF OnClose, TearDown, Eof, At, Goto
<1>13. ASSUME NEW s \in Sessions, Watchdog(s)
      PROVE  ReasonKept'
  BY <1>13 DEF Watchdog, TearDown, Eof, At
<1>14. ASSUME NEW s \in Sessions, GraceExpires(s)
      PROVE  ReasonKept'
  BY <1>14 DEF GraceExpires, Kill
<1>15. ASSUME NEW s \in Sessions, Unregister(s)
      PROVE  ReasonKept'
  BY <1>15 DEF Unregister
<1>16. ASSUME NEW s \in Sessions, EndRow(s)
      PROVE  ReasonKept'
  BY <1>16 DEF EndRow, EndStreamSession
<1>17. ASSUME NEW s \in Sessions, RemoveDir(s)
      PROVE  ReasonKept'
  BY <1>17 DEF RemoveDir
<1>18. ASSUME NEW s \in Sessions, ShutdownNext(s)
      PROVE  ReasonKept'
  BY <1>18 DEF ShutdownNext, TearDown, Eof
<1>19. ASSUME NEW s \in Sessions, NEW c \in Channels, CreateStreamSession(s, c)
      PROVE  ReasonKept'
  BY <1>19 DEF CreateStreamSession, At, Goto
<1>20. ASSUME NEW s \in Sessions, NEW status \in Exited, FFmpegExits(s, status)
      PROVE  ReasonKept'
  BY <1>20 DEF FFmpegExits
<1> QED
  BY <1>1, <1>2, <1>3, <1>4, <1>5, <1>6, <1>7, <1>8, <1>9, <1>10, <1>11,
     <1>12, <1>13, <1>14, <1>15, <1>16, <1>17, <1>18, <1>19, <1>20 DEF Next

-----------------------------------------------------------------------------
\* No step changes a row that has ended.
LEMMA RowsStep ==
  TypeOK /\ Lifecycle /\ [Next]_vars
    => \A t \in Sessions : row[t] \in Reasons => row'[t] = row[t]
<1> SUFFICES ASSUME TypeOK, Lifecycle, [Next]_vars, NEW t \in Sessions,
                    row[t] \in Reasons
             PROVE  row'[t] = row[t]
  OBVIOUS
<1> USE DEF TypeOK, Lifecycle, mem, proc, disk, Reasons
<1>1. CASE \/ UNCHANGED vars
           \/ MarkOpenStreamSessionsOrphaned \/ WipeAndListen
           \/ Signal \/ CloseListener
           \/ ShutdownLive \/ ShutdownWaits
  BY <1>1 DEF vars, MarkOpenStreamSessionsOrphaned, WipeAndListen, Signal,
              CloseListener, ShutdownLive, ShutdownWaits, Orphaned
<1>2. CASE Stop
  BY <1>2 DEF Stop, ProcessGone
<1>3. CASE Crash
  BY <1>3 DEF Crash, ProcessGone
<1>4. ASSUME NEW s \in Sessions, Accept(s)
      PROVE  row'[t] = row[t]
  BY <1>4 DEF Accept, At, Goto
<1>5. ASSUME NEW s \in Sessions, RejectPublish(s)
      PROVE  row'[t] = row[t]
  BY <1>5 DEF RejectPublish, At, Goto
<1>6. ASSUME NEW s \in Sessions, MkdirOut(s)
      PROVE  row'[t] = row[t]
  BY <1>6 DEF MkdirOut, GiveUp, At, Goto
<1>7. ASSUME NEW s \in Sessions, StartFFmpeg(s)
      PROVE  row'[t] = row[t]
  BY <1>7 DEF StartFFmpeg, GiveUp, At, Goto
<1>8. ASSUME NEW s \in Sessions, EncoderFails(s)
      PROVE  row'[t] = row[t]
  BY <1>8 DEF EncoderFails, GiveUp, Kill, At, Goto
<1>9. ASSUME NEW s \in Sessions, GoLive(s)
      PROVE  row'[t] = row[t]
  BY <1>9 DEF GoLive, At, Goto
<1>10. ASSUME NEW s \in Sessions, LoseRace(s)
      PROVE  row'[t] = row[t]
  BY <1>10 DEF LoseRace, Kill, At, Goto
<1>11. ASSUME NEW s \in Sessions, EndLostRow(s)
      PROVE  row'[t] = row[t]
  BY <1>11 DEF EndLostRow, EndStreamSession, At, Goto
<1>12. ASSUME NEW s \in Sessions, OnClose(s)
      PROVE  row'[t] = row[t]
  BY <1>12 DEF OnClose, TearDown, Eof, At, Goto
<1>13. ASSUME NEW s \in Sessions, Watchdog(s)
      PROVE  row'[t] = row[t]
  BY <1>13 DEF Watchdog, TearDown, Eof, At
<1>14. ASSUME NEW s \in Sessions, GraceExpires(s)
      PROVE  row'[t] = row[t]
  BY <1>14 DEF GraceExpires, Kill
<1>15. ASSUME NEW s \in Sessions, Unregister(s)
      PROVE  row'[t] = row[t]
  BY <1>15 DEF Unregister
<1>16. ASSUME NEW s \in Sessions, EndRow(s)
      PROVE  row'[t] = row[t]
  BY <1>16 DEF EndRow, EndStreamSession
<1>17. ASSUME NEW s \in Sessions, RemoveDir(s)
      PROVE  row'[t] = row[t]
  BY <1>17 DEF RemoveDir
<1>18. ASSUME NEW s \in Sessions, ShutdownNext(s)
      PROVE  row'[t] = row[t]
  BY <1>18 DEF ShutdownNext, TearDown, Eof
<1>19. ASSUME NEW s \in Sessions, NEW c \in Channels, CreateStreamSession(s, c)
      PROVE  row'[t] = row[t]
  BY <1>19 DEF CreateStreamSession, At, Goto
<1>20. ASSUME NEW s \in Sessions, NEW status \in Exited, FFmpegExits(s, status)
      PROVE  row'[t] = row[t]
  BY <1>20 DEF FFmpegExits
<1> QED
  BY <1>1, <1>2, <1>3, <1>4, <1>5, <1>6, <1>7, <1>8, <1>9, <1>10, <1>11,
     <1>12, <1>13, <1>14, <1>15, <1>16, <1>17, <1>18, <1>19, <1>20 DEF Next

-----------------------------------------------------------------------------
\* Every step is a step of the directory, or leaves it alone.
LEMMA DirectoryStep ==
  TypeOK /\ Lifecycle /\ RegistryExact /\ [Next]_vars => [LD!Next]_(LD!vars)
<1> SUFFICES ASSUME TypeOK, Lifecycle, RegistryExact, [Next]_vars
             PROVE  [LD!Next]_(LD!vars)
  OBVIOUS
<1> USE NoneAssumption DEF TypeOK, Lifecycle, mem, proc, disk, Handlers, Decided, TornDown,
        LD!vars
<1>a. ASSUME NEW s \in Sessions, NEW why, TearDown(s, why),
             handler[s] \in {"live", "closed"}, chan[s] \in Channels,
             UNCHANGED registry, Decided' = Decided
      PROVE  [LD!Next]_(LD!vars)
  \* The first caller of tearDown ends the stream of a registered session.
  <2>1. CASE td[s] = "idle"
    <3>1. registry[chan[s]] = s /\ TornDown' = TornDown \cup {s}
      BY <1>a, <2>1 DEF TearDown, RegistryExact
    <3>2. PICK c \in Channels : c = chan[s]
      BY <1>a
    <3>3. LD!Finish(c)
      BY <1>a, <3>1, <3>2 DEF LD!Finish
    <3>4. LD!Next
      BY <3>3 DEF LD!Next
    <3> QED
      BY <3>4
  <2>2. CASE td[s] # "idle"
    BY <1>a, <2>2 DEF TearDown
  <2> QED
    BY <2>1, <2>2
<1>1. CASE \/ UNCHANGED vars
           \/ MarkOpenStreamSessionsOrphaned \/ WipeAndListen
           \/ Signal \/ CloseListener
           \/ ShutdownLive \/ ShutdownWaits
  BY <1>1 DEF vars, MarkOpenStreamSessionsOrphaned, WipeAndListen, Signal,
              CloseListener, ShutdownLive, ShutdownWaits, Orphaned
<1>2. CASE Stop
  BY <1>2 DEF Stop, ProcessGone, LD!Next, LD!Restart, LD!Offline
<1>3. CASE Crash
  BY <1>3 DEF Crash, ProcessGone, LD!Next, LD!Restart, LD!Offline
<1>4. ASSUME NEW s \in Sessions, Accept(s)
      PROVE  [LD!Next]_(LD!vars)
  BY <1>4 DEF Accept, At, Goto
<1>5. ASSUME NEW s \in Sessions, RejectPublish(s)
      PROVE  [LD!Next]_(LD!vars)
  BY <1>5 DEF RejectPublish, At, Goto, LD!Next, LD!Refuse
<1>6. ASSUME NEW s \in Sessions, MkdirOut(s)
      PROVE  [LD!Next]_(LD!vars)
  BY <1>6 DEF MkdirOut, GiveUp, At, Goto, LD!Next, LD!Refuse
<1>7. ASSUME NEW s \in Sessions, StartFFmpeg(s)
      PROVE  [LD!Next]_(LD!vars)
  BY <1>7 DEF StartFFmpeg, GiveUp, At, Goto, LD!Next, LD!Refuse
<1>8. ASSUME NEW s \in Sessions, EncoderFails(s)
      PROVE  [LD!Next]_(LD!vars)
  BY <1>8 DEF EncoderFails, GiveUp, Kill, At, Goto, LD!Next, LD!Refuse
<1>9. ASSUME NEW s \in Sessions, GoLive(s)
      PROVE  [LD!Next]_(LD!vars)
  <2>1. LD!Start(chan[s], s)
    BY <1>9 DEF GoLive, At, Goto, LD!Start
  <2> QED
    BY <1>9, <2>1 DEF LD!Next, GoLive, At
<1>10. ASSUME NEW s \in Sessions, LoseRace(s)
      PROVE  [LD!Next]_(LD!vars)
  BY <1>10 DEF LoseRace, Kill, At, Goto, LD!Next, LD!Refuse
<1>11. ASSUME NEW s \in Sessions, EndLostRow(s)
      PROVE  [LD!Next]_(LD!vars)
  BY <1>11 DEF EndLostRow, EndStreamSession, At, Goto
<1>12. ASSUME NEW s \in Sessions, OnClose(s)
      PROVE  [LD!Next]_(LD!vars)
  <2>1. CASE handler[s] = "conn"
    BY <1>12, <2>1 DEF OnClose, At, Goto, LD!Next, LD!Refuse
  <2>2. CASE handler[s] = "live"
    <3>1. TearDown(s, "normal") /\ UNCHANGED registry /\ Decided' = Decided
      BY <1>12, <2>2 DEF OnClose, At, Goto
    <3> QED
      BY <1>a, <2>2, <3>1
  <2> QED
    BY <1>12, <2>1, <2>2 DEF OnClose, At
<1>13. ASSUME NEW s \in Sessions, Watchdog(s)
      PROVE  [LD!Next]_(LD!vars)
  <2>1. /\ TearDown(s, IF ff[s] = "err" THEN "crashed" ELSE "normal")
        /\ handler[s] = "live" /\ UNCHANGED registry /\ Decided' = Decided
    BY <1>13 DEF Watchdog, At
  <2> QED
    BY <1>a, <2>1
<1>14. ASSUME NEW s \in Sessions, GraceExpires(s)
      PROVE  [LD!Next]_(LD!vars)
  BY <1>14 DEF GraceExpires, Kill
<1>15. ASSUME NEW s \in Sessions, Unregister(s)
      PROVE  [LD!Next]_(LD!vars)
  <2>1. chan[s] \in Channels /\ registry[chan[s]] = s
    BY <1>15 DEF Unregister, RegistryExact
  <2>2. LD!End(chan[s])
    BY <1>15, <2>1 DEF Unregister, LD!End
  <2> QED
    BY <2>1, <2>2 DEF LD!Next
<1>16. ASSUME NEW s \in Sessions, EndRow(s)
      PROVE  [LD!Next]_(LD!vars)
  BY <1>16 DEF EndRow, EndStreamSession
<1>17. ASSUME NEW s \in Sessions, RemoveDir(s)
      PROVE  [LD!Next]_(LD!vars)
  BY <1>17 DEF RemoveDir
<1>18. ASSUME NEW s \in Sessions, ShutdownNext(s)
      PROVE  [LD!Next]_(LD!vars)
  <2>1. /\ TearDown(s, "orphan_swept") /\ s \in todo
        /\ UNCHANGED registry /\ Decided' = Decided
    BY <1>18 DEF ShutdownNext
  <2> QED
    BY <1>a, <2>1
<1>19. ASSUME NEW s \in Sessions, NEW c \in Channels, CreateStreamSession(s, c)
      PROVE  [LD!Next]_(LD!vars)
  BY <1>19 DEF CreateStreamSession, At, Goto
<1>20. ASSUME NEW s \in Sessions, NEW status \in Exited, FFmpegExits(s, status)
      PROVE  [LD!Next]_(LD!vars)
  BY <1>20 DEF FFmpegExits
<1> QED
  BY <1>1, <1>2, <1>3, <1>4, <1>5, <1>6, <1>7, <1>8, <1>9, <1>10, <1>11,
     <1>12, <1>13, <1>14, <1>15, <1>16, <1>17, <1>18, <1>19, <1>20 DEF Next

-----------------------------------------------------------------------------
LEMMA StepInv == IInv /\ [Next]_vars => IInv'
BY BaseStep, RegistryStep, StrayStep, RecoveredStep, ReasonStep DEF IInv

\* Every reachable state satisfies the inductive invariant.
THEOREM Invariance == Spec => []IInv
BY InitInv, StepInv, PTL DEF Spec

\* Type correctness of the whole publish, tearDown, boot and shutdown model.
THEOREM TypeCorrect == Spec => []TypeOK
<1>1. IInv => TypeOK
  BY DEF IInv
<1> QED
  BY <1>1, Invariance, PTL

\* liveRegistry holds exactly the sessions that are live and not yet removed,
\* although tearDown removes by channel name.
THEOREM RegistryCorrect == Spec => []RegistryExact
<1>1. IInv => RegistryExact
  BY DEF IInv
<1> QED
  BY <1>1, Invariance, PTL

\* No exit path of a publish or a session leaks an ffmpeg process.
THEOREM NoFFmpegLeak == Spec => []NoStrayFFmpeg
<1>1. IInv => NoStrayFFmpeg
  BY DEF IInv
<1> QED
  BY <1>1, Invariance, PTL

\* After RecoverOnBoot no row of an earlier process is open.
THEOREM BootRecovers == Spec => []RecoveredRows
<1>1. IInv => RecoveredRows
  BY DEF IInv
<1> QED
  BY <1>1, Invariance, PTL

\* The end_reason of a row names an event that happened.
THEOREM ReasonsTrue == Spec => []EndReasonExplained
<1>1. IInv => EndReasonExplained
  <2> SUFFICES ASSUME IInv, NEW s \in Sessions, handler[s] # "dead"
               PROVE  /\ row[s] = "normal" => handler[s] = "closed" \/ ff[s] = "ok"
                      /\ row[s] = "crashed" =>
                           ff[s] = "err" /\ handler[s] \in {"live", "closed"}
                      /\ row[s] = "orphan_swept" =>
                           handler[s] = "refused" \/ phase = "tearing"
    BY DEF EndReasonExplained
  <2> QED
    BY DEF IInv, ReasonKept, Reasons
<1> QED
  BY <1>1, Invariance, PTL

\* A row of stream_sessions that has ended is never written again.
THEOREM HistoryKept == Spec => EndedRowsFinal
<1>1. IInv /\ [Next]_vars =>
        [\A s \in Sessions : row[s] \in Reasons => row'[s] = row[s]]_vars
  BY RowsStep DEF IInv
<1> QED
  BY <1>1, Invariance, PTL DEF Spec, EndedRowsFinal

\* Through ListLive and GetByName the whole machinery implements the abstract
\* directory: one session per channel, each live for one stretch.
THEOREM ImplementsDirectory == Spec => DirectoryRefined
<1>1. Init => LD!Init
  BY DEF Init, LD!Init, LD!Offline, Decided, TornDown
<1>2. IInv /\ [Next]_vars => [LD!Next]_(LD!vars)
  BY DirectoryStep DEF IInv
<1> QED
  BY <1>1, <1>2, Invariance, PTL DEF Spec, DirectoryRefined, LD!Spec

-----------------------------------------------------------------------------
(* What is left behind as long as no call has failed. *)

\* The directory of a channel belongs to a publish that will register or lose
\* to a registered session, or to a session whose tearDown will remove it.
HoldsDir(s) ==
  \/ handler[s] \in {"dir", "spawned"}
  \/ handler[s] \in {"live", "closed"} /\ td[s] # "done"

\* An open row belongs to a publish or a tearDown that will end it.
HoldsRow(s) ==
  \/ handler[s] \in {"row", "dir", "spawned", "lost"}
  \/ handler[s] \in {"live", "closed"} /\ td[s] \notin {"rmdir", "done"}

DirsHeld ==
  phase \in Serving /\ ~failed =>
    \A c \in dir : \E s \in Sessions : chan[s] = c /\ HoldsDir(s)

RowsHeld ==
  phase \in Serving /\ ~failed =>
    \A s \in Sessions : row[s] = "open" => HoldsRow(s)

\* Every path that lets go of an open row ends it first.
LEMMA RowsHeldStep ==
  ASSUME TypeOK, Lifecycle, RecoveredRows, ReasonKept, RowsHeld,
         [Next]_vars
  PROVE  RowsHeld'
<1> USE DEF TypeOK, Lifecycle, mem, proc, disk, Phases, Handlers, Serving,
        HoldsRow, RowsHeld, RecoveredRows
<1>1. CASE \/ UNCHANGED vars
           \/ MarkOpenStreamSessionsOrphaned \/ WipeAndListen
           \/ Signal \/ CloseListener
           \/ ShutdownLive \/ ShutdownWaits
  <2>1. CASE WipeAndListen
    BY <2>1 DEF WipeAndListen, ReasonKept
  <2> QED
    BY <1>1, <2>1 DEF vars, MarkOpenStreamSessionsOrphaned, Signal,
                      CloseListener, ShutdownLive, ShutdownWaits
<1>2. CASE Stop \/ Crash
  BY <1>2 DEF Stop, Crash, ProcessGone
<1>3. ASSUME NEW s \in Sessions, Accept(s)
      PROVE  RowsHeld'
  BY <1>3 DEF Accept, At, Goto
<1>4. ASSUME NEW s \in Sessions, RejectPublish(s)
      PROVE  RowsHeld'
  BY <1>4 DEF RejectPublish, At, Goto
<1>5. ASSUME NEW s \in Sessions, MkdirOut(s)
      PROVE  RowsHeld'
  BY <1>5 DEF MkdirOut, GiveUp, At, Goto
<1>6. ASSUME NEW s \in Sessions, StartFFmpeg(s)
      PROVE  RowsHeld'
  BY <1>6 DEF StartFFmpeg, GiveUp, At, Goto
<1>7. ASSUME NEW s \in Sessions, EncoderFails(s)
      PROVE  RowsHeld'
  BY <1>7 DEF EncoderFails, GiveUp, Kill, At, Goto
<1>8. ASSUME NEW s \in Sessions, GoLive(s)
      PROVE  RowsHeld'
  BY <1>8 DEF GoLive, At, Goto
<1>9. ASSUME NEW s \in Sessions, LoseRace(s)
      PROVE  RowsHeld'
  BY <1>9 DEF LoseRace, Kill, At, Goto
<1>10. ASSUME NEW s \in Sessions, EndLostRow(s)
      PROVE  RowsHeld'
  BY <1>10 DEF EndLostRow, EndStreamSession, At, Goto
<1>11. ASSUME NEW s \in Sessions, OnClose(s)
      PROVE  RowsHeld'
  BY <1>11 DEF OnClose, TearDown, Eof, At, Goto
<1>12. ASSUME NEW s \in Sessions, Watchdog(s)
      PROVE  RowsHeld'
  BY <1>12 DEF Watchdog, TearDown, Eof, At
<1>13. ASSUME NEW s \in Sessions, GraceExpires(s)
      PROVE  RowsHeld'
  BY <1>13 DEF GraceExpires, Kill
<1>14. ASSUME NEW s \in Sessions, Unregister(s)
      PROVE  RowsHeld'
  BY <1>14 DEF Unregister
<1>15. ASSUME NEW s \in Sessions, EndRow(s)
      PROVE  RowsHeld'
  BY <1>15 DEF EndRow, EndStreamSession, Reasons
<1>16. ASSUME NEW s \in Sessions, RemoveDir(s)
      PROVE  RowsHeld'
  BY <1>16 DEF RemoveDir
<1>17. ASSUME NEW s \in Sessions, ShutdownNext(s)
      PROVE  RowsHeld'
  BY <1>17 DEF ShutdownNext, TearDown, Eof
<1>18. ASSUME NEW s \in Sessions, NEW c \in Channels, CreateStreamSession(s, c)
      PROVE  RowsHeld'
  BY <1>18 DEF CreateStreamSession, At, Goto
<1>19. ASSUME NEW s \in Sessions, NEW status \in Exited, FFmpegExits(s, status)
      PROVE  RowsHeld'
  BY <1>19 DEF FFmpegExits
<1> QED
  BY <1>1, <1>2, <1>3, <1>4, <1>5, <1>6, <1>7, <1>8, <1>9, <1>10, <1>11,
     <1>12, <1>13, <1>14, <1>15, <1>16, <1>17, <1>18, <1>19 DEF Next

\* Every path that lets go of a directory removes it, or leaves it to a session
\* that is registered.
LEMMA DirsHeldStep ==
  ASSUME TypeOK, Lifecycle, RegistryExact, DirsHeld, [Next]_vars
  PROVE  DirsHeld'
<1> USE DEF TypeOK, Lifecycle, mem, proc, disk, Phases, Handlers, Serving,
        HoldsDir, DirsHeld
<1>1. CASE \/ UNCHANGED vars
           \/ MarkOpenStreamSessionsOrphaned \/ WipeAndListen
           \/ Signal \/ CloseListener
           \/ ShutdownLive \/ ShutdownWaits
  <2>1. CASE WipeAndListen
    <3>1. failed' = (dir' # {})
      BY <2>1 DEF WipeAndListen
    <3> QED
      BY <3>1
  <2> QED
    BY <1>1, <2>1 DEF vars, MarkOpenStreamSessionsOrphaned, Signal,
                      CloseListener, ShutdownLive, ShutdownWaits
<1>2. CASE Stop \/ Crash
  BY <1>2 DEF Stop, Crash, ProcessGone
<1>3. ASSUME NEW s \in Sessions, Accept(s)
      PROVE  DirsHeld'
  BY <1>3 DEF Accept, At, Goto
<1>4. ASSUME NEW s \in Sessions, RejectPublish(s)
      PROVE  DirsHeld'
  BY <1>4 DEF RejectPublish, At, Goto
<1>5. ASSUME NEW s \in Sessions, MkdirOut(s)
      PROVE  DirsHeld'
  BY <1>5 DEF MkdirOut, GiveUp, At, Goto
<1>6. ASSUME NEW s \in Sessions, StartFFmpeg(s)
      PROVE  DirsHeld'
  BY <1>6 DEF StartFFmpeg, GiveUp, At, Goto
<1>7. ASSUME NEW s \in Sessions, EncoderFails(s)
      PROVE  DirsHeld'
  BY <1>7 DEF EncoderFails, GiveUp, Kill, At, Goto
<1>8. ASSUME NEW s \in Sessions, GoLive(s)
      PROVE  DirsHeld'
  BY <1>8 DEF GoLive, At, Goto
<1>9. ASSUME NEW s \in Sessions, LoseRace(s)
      PROVE  DirsHeld'
  <2>1. /\ handler[s] = "spawned" /\ registry[chan[s]] # NoSession
        /\ handler' = [handler EXCEPT ![s] = "lost"]
        /\ UNCHANGED <<phase, chan, td, dir, failed>>
    BY <1>9 DEF LoseRace, At, Goto
  <2>2. PICK o \in Sessions : registry[chan[s]] = o /\ chan[s] \in Channels
    BY <2>1
  <2>3. chan[o] = chan[s] /\ HoldsDir(o) /\ o # s
    BY <2>1, <2>2 DEF RegistryExact
  <2> QED
    BY <2>1, <2>3
<1>10. ASSUME NEW s \in Sessions, EndLostRow(s)
      PROVE  DirsHeld'
  BY <1>10 DEF EndLostRow, EndStreamSession, At, Goto
<1>11. ASSUME NEW s \in Sessions, OnClose(s)
      PROVE  DirsHeld'
  BY <1>11 DEF OnClose, TearDown, Eof, At, Goto
<1>12. ASSUME NEW s \in Sessions, Watchdog(s)
      PROVE  DirsHeld'
  BY <1>12 DEF Watchdog, TearDown, Eof, At
<1>13. ASSUME NEW s \in Sessions, GraceExpires(s)
      PROVE  DirsHeld'
  BY <1>13 DEF GraceExpires, Kill
<1>14. ASSUME NEW s \in Sessions, Unregister(s)
      PROVE  DirsHeld'
  BY <1>14 DEF Unregister
<1>15. ASSUME NEW s \in Sessions, EndRow(s)
      PROVE  DirsHeld'
  BY <1>15 DEF EndRow, EndStreamSession
<1>16. ASSUME NEW s \in Sessions, RemoveDir(s)
      PROVE  DirsHeld'
  BY <1>16 DEF RemoveDir
<1>17. ASSUME NEW s \in Sessions, ShutdownNext(s)
      PROVE  DirsHeld'
  BY <1>17 DEF ShutdownNext, TearDown, Eof
<1>18. ASSUME NEW s \in Sessions, NEW c \in Channels, CreateStreamSession(s, c)
      PROVE  DirsHeld'
  BY <1>18 DEF CreateStreamSession, At, Goto
<1>19. ASSUME NEW s \in Sessions, NEW status \in Exited, FFmpegExits(s, status)
      PROVE  DirsHeld'
  BY <1>19 DEF FFmpegExits
<1> QED
  BY <1>1, <1>2, <1>3, <1>4, <1>5, <1>6, <1>7, <1>8, <1>9, <1>10, <1>11,
     <1>12, <1>13, <1>14, <1>15, <1>16, <1>17, <1>18, <1>19 DEF Next

\* What is open or exists belongs to a publish in flight.
HeldInv == DirsHeld /\ RowsHeld

LEMMA HeldStep == IInv /\ HeldInv /\ [Next]_vars => HeldInv'
BY RowsHeldStep, DirsHeldStep DEF IInv, HeldInv

LEMMA HeldClean == IInv /\ HeldInv => QuiescentClean
<1> SUFFICES ASSUME IInv, HeldInv, phase \in Serving, ~failed, NEW c \in Channels,
                    \A s \in Sessions : chan[s] = c => ~InFlight(s)
             PROVE  /\ registry[c] = NoSession /\ c \notin dir
                    /\ \A s \in Sessions : chan[s] = c => row[s] # "open"
  BY DEF QuiescentClean
<1> USE NoneAssumption
<1>1. registry[c] = NoSession
  BY DEF IInv, TypeOK, RegistryExact, InFlight
<1>2. c \notin dir
  BY DEF HeldInv, DirsHeld, HoldsDir, InFlight
<1>3. ASSUME NEW s \in Sessions, chan[s] = c
      PROVE  row[s] # "open"
  BY <1>3 DEF HeldInv, RowsHeld, HoldsRow, InFlight
<1> QED
  BY <1>1, <1>2, <1>3

LEMMA HeldInvariance == Spec => []HeldInv
<1>1. Init => HeldInv
  BY DEF Init, HeldInv, DirsHeld, RowsHeld, Serving
<1> QED
  BY <1>1, HeldStep, Invariance, PTL DEF Spec

\* A process none of whose database, file or exec calls has failed leaves no
\* registry entry, open row or HLS directory of a channel nobody publishes to.
THEOREM NothingLeftBehind == Spec => []QuiescentClean
BY HeldClean, HeldInvariance, Invariance, PTL

-----------------------------------------------------------------------------
(* What a shutdown leaves. *)

\* ShutdownLive has yet to get to a session of its snapshot, waits for it, or
\* has seen its tearDown done.
Awaited ==
  phase = "tearing" => \A s \in snap : s \in todo \/ s = cur \/ td[s] = "done"

\* A tearDown that is done stays so, and the loop drops nobody.
LEMMA AwaitedStep == ASSUME IInv, Awaited, [Next]_vars PROVE Awaited'
<1> USE DEF IInv, TypeOK, Awaited, mem, proc, disk
<1>1. CASE \/ UNCHANGED vars \/ Signal \/ CloseListener \/ ShutdownLive
           \/ MarkOpenStreamSessionsOrphaned \/ WipeAndListen
           \/ ShutdownWaits \/ Stop \/ Crash
  BY <1>1 DEF vars, Signal, CloseListener, ShutdownLive, WipeAndListen,
              MarkOpenStreamSessionsOrphaned, ShutdownWaits, Stop, Crash,
              ProcessGone
<1>2. ASSUME NEW s \in Sessions,
             \/ Accept(s) \/ RejectPublish(s) \/ MkdirOut(s) \/ StartFFmpeg(s)
             \/ EncoderFails(s) \/ GoLive(s) \/ LoseRace(s) \/ EndLostRow(s)
             \/ \E c \in Channels : CreateStreamSession(s, c)
             \/ \E status \in Exited : FFmpegExits(s, status)
      PROVE  Awaited'
  BY <1>2 DEF Accept, RejectPublish, MkdirOut, StartFFmpeg, EncoderFails,
              GoLive, LoseRace, EndLostRow, CreateStreamSession, FFmpegExits
<1>3. ASSUME NEW s \in Sessions, OnClose(s) \/ Watchdog(s)
      PROVE  Awaited'
  BY <1>3 DEF OnClose, Watchdog, TearDown
<1>4. ASSUME NEW s \in Sessions,
             GraceExpires(s) \/ Unregister(s) \/ EndRow(s) \/ RemoveDir(s)
      PROVE  Awaited'
  BY <1>4 DEF GraceExpires, Unregister, EndRow, RemoveDir
<1>5. ASSUME NEW s \in Sessions, ShutdownNext(s)
      PROVE  Awaited'
  BY NoneAssumption, <1>5 DEF ShutdownNext, TearDown
<1> QED
  BY <1>1, <1>2, <1>3, <1>4, <1>5 DEF Next

\* Only a sweep touches rows after the exit.
LEMMA ClosedStep ==
  ASSUME IInv, HeldInv, Awaited, ShutdownClosesLive, [Next]_vars
  PROVE  ShutdownClosesLive'
<1> SUFFICES ASSUME phase' = "stopped", ~failed', NEW s \in snap'
             PROVE  row'[s] # "open"
  BY DEF ShutdownClosesLive
<1> USE NoneAssumption DEF IInv, TypeOK, mem, proc, disk
<1>1. CASE Stop
  <2>1. /\ phase = "tearing" /\ todo = {} /\ cur = NoSession /\ ~failed
        /\ s \in Sessions /\ s \in snap /\ row' = row
    BY <1>1 DEF Stop, ProcessGone
  <2>2. td[s] = "done"
    BY <2>1 DEF Awaited
  <2>3. ~HoldsRow(s)
    BY <2>1, <2>2 DEF HoldsRow, Lifecycle
  <2> QED
    BY <2>1, <2>3 DEF HeldInv, RowsHeld, Serving
<1>2. CASE \/ Signal \/ CloseListener \/ ShutdownLive \/ ShutdownWaits
           \/ MarkOpenStreamSessionsOrphaned \/ WipeAndListen \/ Crash
  BY <1>2 DEF Signal, CloseListener, ShutdownLive, ShutdownWaits, WipeAndListen,
              MarkOpenStreamSessionsOrphaned, Crash, ProcessGone
<1>3. CASE UNCHANGED vars
  BY <1>3 DEF vars, ShutdownClosesLive
<1>4. ASSUME NEW o \in Sessions,
             \/ Accept(o) \/ RejectPublish(o) \/ MkdirOut(o) \/ StartFFmpeg(o)
             \/ EncoderFails(o) \/ GoLive(o) \/ LoseRace(o) \/ EndLostRow(o)
             \/ \E c \in Channels : CreateStreamSession(o, c)
      PROVE  FALSE
  BY <1>4 DEF Accept, RejectPublish, MkdirOut, StartFFmpeg, EncoderFails,
              GoLive, LoseRace, EndLostRow, CreateStreamSession, At, Serving
<1>5. ASSUME NEW o \in Sessions,
             \/ OnClose(o) \/ Watchdog(o) \/ GraceExpires(o) \/ Unregister(o)
             \/ EndRow(o) \/ RemoveDir(o) \/ ShutdownNext(o)
             \/ \E status \in Exited : FFmpegExits(o, status)
      PROVE  FALSE
  BY <1>5 DEF OnClose, Watchdog, GraceExpires, Unregister, EndRow, RemoveDir,
              ShutdownNext, FFmpegExits, At, Serving
<1> QED
  BY <1>1, <1>2, <1>3, <1>4, <1>5 DEF Next

\* After a clean shutdown the rows of all sessions that were live when
\* ShutdownLive began are closed, for any number of sessions and whoever tore
\* them down.
THEOREM ShutdownRecorded == Spec => []ShutdownClosesLive
<1>1. Init => Awaited /\ ShutdownClosesLive
  BY DEF Init, Awaited, ShutdownClosesLive
<1> QED
  BY <1>1, AwaitedStep, ClosedStep, HeldInvariance, Invariance, PTL DEF Spec

=============================================================================
