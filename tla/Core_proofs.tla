---------------------------- MODULE Core_proofs ----------------------------
(***************************************************************************)
(* Proofs about Core: the variables of the two threads keep their types,   *)
(* the machine is never switched off by a timer that nobody set and always *)
(* where one has run down, and the program is left by both threads.        *)
(***************************************************************************)
EXTENDS Core, TLAPS

-----------------------------------------------------------------------------
(* Types *)

\* The variables start with values of their types.
LEMMA TypeInit == Init => TypeOK
<1> SUFFICES ASSUME Init PROVE TypeOK
  OBVIOUS
<1>1. /\ global_filename \in BOOLEAN /\ gmu_running \in BOOLEAN /\ quit \in BOOLEAN
      /\ auto_shutdown \in BOOLEAN /\ minute \in BOOLEAN /\ armed \in BOOLEAN
  BY Zenon DEF Init
<1>2. /\ main = "setup" /\ ui = "idle" /\ player_status = "STOPPED" /\ player = "STOPPED"
      /\ global_command \in {"NO_CMD", "NEXT"} /\ global_param = 0 /\ current = 0
      /\ quits = 0 /\ loaded = 0 /\ shutdown_timer \in Timer
      /\ remaining_time = (IF shutdown_timer > 0 THEN shutdown_timer ELSE 1)
  BY Zenon DEF Init
<1>3. remaining_time \in Int BY <1>2, MinutesAssumption DEF Timer
<1> QED BY <1>1, <1>2, <1>3, LengthAssumption, QuitsAssumption
        DEF TypeOK, MainLabel, UiLabel, Command, Player

\* Every step keeps the types; the main loop has one step per action, and so
\* has the frontend.
LEMMA TypeStep == TypeOK /\ [Next]_vars => TypeOK'
<1> SUFFICES ASSUME TypeOK, [Next]_vars PROVE TypeOK'
  OBVIOUS
<1> USE LengthAssumption, MinutesAssumption, QuitsAssumption
<1> USE DEF TypeOK, Command, Timer, Player, commands, playback, running, timer
<1>1. CASE MainStep
  <2>1. CASE Setup BY <2>1 DEF Setup, Main, MainLabel
  <2>2. CASE Top BY <2>2 DEF Top, Main, MainLabel
  <2>3. CASE ReadCommand BY <2>3 DEF ReadCommand, Main, MainLabel
  <2>4. CASE DoItem BY <2>4 DEF DoItem, Main, MainLabel, PlayFile
  <2>5. CASE DoFile BY <2>5 DEF DoFile, Main, MainLabel, PlayFile
  <2>6. CASE DoNext BY <2>6 DEF DoNext, Main, MainLabel, NextTrack
  <2>7. CASE PlayNext BY <2>7 DEF PlayNext, Main, MainLabel, PlayFile
  <2>8. CASE Crash(main) BY <2>8 DEF Crash, MainLabel, UiLabel
  <2>9. CASE NextStatus BY <2>9 DEF NextStatus, Main, MainLabel
  <2>10. CASE DoStop BY <2>10 DEF DoStop, Main, MainLabel
  <2>11. CASE ResetCurrent BY <2>11 DEF ResetCurrent, Main, MainLabel
  <2>12. CASE StopStatus BY <2>12 DEF StopStatus, Main, MainLabel
  <2>13. CASE NoNext
    <3>1. quits' \in 0 .. MaxQuits BY <2>13 DEF NoNext, PushQuit
    <3>2. gmu_running' \in BOOLEAN /\ auto_shutdown' \in BOOLEAN BY <2>13, Zenon DEF NoNext
    <3> QED BY <2>13, <3>1, <3>2 DEF NoNext, Main, MainLabel
  <2>14. CASE ClearCommand BY <2>14 DEF ClearCommand, Main, MainLabel
  <2>15. CASE ClearParam BY <2>15 DEF ClearParam, Main, MainLabel
  <2>16. CASE ClearFile BY <2>16 DEF ClearFile, Main, MainLabel
  <2>17. CASE ClearName
    <3>1. global_filename' \in BOOLEAN BY <2>17, Zenon DEF ClearName
    <3>2. main' = "timer" /\ UNCHANGED <<ui, global_command, global_param, playback, running, timer>>
      BY <2>17, Zenon DEF ClearName, Main
    <3> QED BY <3>1, <3>2 DEF MainLabel
  <2>18. CASE LoadTimer BY <2>18 DEF LoadTimer, Main, MainLabel
  <2>19. CASE StoreTimer BY <2>19 DEF StoreTimer, Main, MainLabel
  <2>20. CASE Restart
    <3>1. minute' \in BOOLEAN BY <2>20, Zenon DEF Restart
    <3>2. main' = "zero" /\ UNCHANGED <<ui, commands, playback, running, shutdown_timer,
                                        remaining_time, auto_shutdown, loaded, armed>>
      BY <2>20, Zenon DEF Restart, Main
    <3> QED BY <3>1, <3>2 DEF MainLabel
  <2>21. CASE TestTimer
    <3>1. quits' \in 0 .. MaxQuits BY <2>21 DEF TestTimer, PushQuit
    <3>2. gmu_running' \in BOOLEAN /\ auto_shutdown' \in BOOLEAN BY <2>21, Zenon DEF TestTimer
    <3> QED BY <2>21, <3>1, <3>2 DEF TestTimer, Main, MainLabel
  <2>22. CASE DeliverEvent BY <2>22 DEF DeliverEvent
  <2>23. CASE EventsDone BY <2>23 DEF EventsDone, Main, MainLabel
  <2>24. CASE Exit BY <2>24 DEF Exit, Main, MainLabel
  <2>25. CASE Close BY <2>25 DEF Close, Main, MainLabel
  <2>26. CASE Join BY <2>26 DEF Join, Main, MainLabel
  <2> QED BY <1>1, <2>1, <2>2, <2>3, <2>4, <2>5, <2>6, <2>7, <2>8, <2>9, <2>10, <2>11,
         <2>12, <2>13, <2>14, <2>15, <2>16, <2>17, <2>18, <2>19, <2>20, <2>21, <2>22,
         <2>23, <2>24, <2>25, <2>26 DEF MainStep
<1>2. CASE UiStep
  <2>1. CASE SetCommand BY <2>1 DEF SetCommand, Ui, UiLabel
  <2>2. CASE SetParam BY <2>2 DEF SetParam, Ui, UiLabel
  <2>3. CASE SetFilename BY <2>3 DEF SetFilename, Ui, UiLabel
  <2>4. CASE SetFileCommand BY <2>4 DEF SetFileCommand, Ui, UiLabel
  <2>5. CASE SetPlaying BY <2>5 DEF SetPlaying, Ui, UiLabel
  <2>6. CASE CallNext BY <2>6 DEF CallNext, Ui, UiLabel, NextTrack
  <2>7. CASE PlayCalled BY <2>7 DEF PlayCalled, Ui, UiLabel, PlayFile
  <2>8. CASE Crash(ui) BY <2>8 DEF Crash, MainLabel, UiLabel
  <2>9. CASE Pause BY <2>9 DEF Pause, Ui, UiLabel, Player
  <2>10. CASE CallStop BY <2>10 DEF CallStop, Ui, UiLabel
  <2>11. CASE ForgetCurrent BY <2>11 DEF ForgetCurrent, Ui, UiLabel
  <2>12. CASE SetStopped BY <2>12 DEF SetStopped, Ui, UiLabel
  <2>13. CASE SetTimer BY <2>13 DEF SetTimer, Ui, UiLabel
  <2>14. CASE SetRemaining BY <2>14 DEF SetRemaining, Ui, UiLabel
  <2>15. CASE QuitEvent BY <2>15 DEF QuitEvent, Ui, UiLabel, PushQuit
  <2>16. CASE QuitRunning BY <2>16 DEF QuitRunning, Ui, UiLabel
  <2> QED BY <1>2, <2>1, <2>2, <2>3, <2>4, <2>5, <2>6, <2>7, <2>8, <2>9, <2>10, <2>11,
         <2>12, <2>13, <2>14, <2>15, <2>16 DEF UiStep
<1>3. CASE Press BY <1>3 DEF Press, Ui, UiLabel
<1>4. CASE LeaveUi BY <1>4 DEF LeaveUi, Ui, UiLabel
<1>5. CASE TrackEnds BY <1>5 DEF TrackEnds, MainLabel, UiLabel
<1>6. CASE MinutePasses BY <1>6 DEF MinutePasses, MainLabel, UiLabel
<1>7. CASE UNCHANGED vars BY <1>7 DEF vars, MainLabel, UiLabel
<1> QED BY <1>1, <1>2, <1>3, <1>4, <1>5, <1>6, <1>7 DEF Next

\* Every variable of the main loop and of the frontend keeps its type: no index
\* past the end of the playlist becomes the current track.
THEOREM TypeCorrect == Spec => []TypeOK
<1>1. Init => TypeOK BY TypeInit
<1>2. TypeOK /\ [Next]_vars => TypeOK' BY TypeStep
<1> QED BY <1>1, <1>2, PTL DEF Spec

-----------------------------------------------------------------------------
(* The timer *)

\* As long as the timer has not been set it is 0, a minute is left, and the main
\* loop is not about to store anything else.
Unarmed == ~armed => shutdown_timer = 0 /\ remaining_time = 1 /\ main # "store"
UInv    == NeverUnarmed /\ Unarmed

\* It holds at the start, whatever the configuration says.
LEMMA UnarmedInit == Init => UInv
<1> SUFFICES ASSUME Init PROVE UInv
  OBVIOUS
<1>1. ~armed => shutdown_timer = 0 BY Zenon DEF Init
<1> QED BY <1>1 DEF Init, UInv, NeverUnarmed, Unarmed

\* Every step keeps it: those that read or write the timer one by one, the rest
\* because they leave the timer alone and do not go to the store.
LEMMA UnarmedStep == UInv /\ [Next]_vars => UInv'
<1> SUFFICES ASSUME UInv, [Next]_vars PROVE UInv'
  OBVIOUS
<1> USE DEF UInv, NeverUnarmed, Unarmed
<1>1. CASE NoNext BY <1>1 DEF NoNext, Main, PushQuit
<1>2. CASE LoadTimer BY <1>2 DEF LoadTimer, Main
<1>3. CASE StoreTimer BY <1>3 DEF StoreTimer, Main
<1>4. CASE TestTimer BY <1>4 DEF TestTimer, Main, PushQuit
<1>5. CASE SetTimer BY <1>5 DEF SetTimer, Ui
<1>6. CASE SetRemaining BY <1>6 DEF SetRemaining, Ui
<1>7. CASE ~(NoNext \/ LoadTimer \/ StoreTimer \/ TestTimer \/ SetTimer \/ SetRemaining)
  <2>1. \/ UNCHANGED <<shutdown_timer, remaining_time, armed, auto_shutdown>> /\ main' # "store"
        \/ UNCHANGED <<main, shutdown_timer, remaining_time, armed, auto_shutdown>>
    BY <1>7 DEF Next, MainStep, UiStep, vars, timer, Setup, Main, Top, ReadCommand,
       DoItem, DoFile, DoNext, PlayNext, Crash, DoStop, ResetCurrent, Halted, NextStatus,
       StopStatus, ClearCommand, ClearParam, ClearFile, ClearName, Restart, DeliverEvent,
       EventsDone, Exit, Close, Join, SetCommand, Ui, SetParam, SetFilename, SetFileCommand,
       SetPlaying, CallNext, PlayCalled, Pause, CallStop, ForgetCurrent, SetStopped,
       QuitEvent, QuitRunning, Press, LeaveUi, TrackEnds, MinutePasses
  <2> QED BY <2>1
<1> QED BY <1>1, <1>2, <1>3, <1>4, <1>5, <1>6, <1>7

\* For every playlist and every set of times: core.c never runs the command that
\* switches the machine off unless the timer has been set (core.c, 427).
THEOREM NeverFiresUnarmed == Spec => []NeverUnarmed
<1>1. Init => UInv BY UnarmedInit
<1>2. UInv /\ [Next]_vars => UInv' BY UnarmedStep
<1>3. UInv => NeverUnarmed BY DEF UInv
<1> QED BY <1>1, <1>2, <1>3, PTL DEF Spec

-----------------------------------------------------------------------------
(* What EverybodyLeaves and TimerFires rest on *)

(* The end of the program is announced before it is decided, and the main    *)
(* loop waits for the decoder thread and joins the frontend only when the    *)
(* frontend has been told to leave; it ends after the frontend.              *)
LeavesTogether ==
    /\ Ending /\ ~Crashed => quit \/ quits > 0
    /\ main \in {"exit", "close", "join", "ended"} => Ending /\ quit
    /\ main = "ended" => ui = "ended"

(* The main loop tests remaining_time for 0 and for nothing below: as long   *)
(* as the program is not to end, the time never gets past 0, and never is 0  *)
(* where the test does not follow.                                           *)
NeverPastZero ==
    ~Ending /\ ~Crashed => remaining_time > 0 \/ (remaining_time = 0 /\ main \in {"start", "zero"})

\* The frontend pushes its event before it clears the flag.
LeaveInv ==
    /\ LeavesTogether
    /\ ui = "not_running" => quit \/ quits > 0

\* What the main loop has loaded, it takes one from.
ZeroInv ==
    /\ NeverPastZero
    /\ ~Ending /\ main = "store" => loaded > 0

\* Nobody is told anything before the program starts.
LEMMA LeaveInit == Init => LeaveInv
BY DEF Init, LeaveInv, LeavesTogether, Ending, Crashed

\* The steps that touch gmu_running, the event or the flag of the frontend, and
\* those on the way out, one by one; the rest leave all of them alone.
LEMMA LeaveStep == MaxQuits > 0 /\ TypeOK /\ LeaveInv /\ [Next]_vars => LeaveInv'
<1> SUFFICES ASSUME MaxQuits > 0, TypeOK, LeaveInv, [Next]_vars PROVE LeaveInv'
  OBVIOUS
<1> DEFINE Out == {"exit", "close", "join", "ended"}
<1> USE DEF LeaveInv, LeavesTogether, Ending, Crashed
<1>q. quits \in Nat /\ MaxQuits \in Nat /\ gmu_running \in BOOLEAN /\ quit \in BOOLEAN
  BY QuitsAssumption DEF TypeOK
<1>p. ASSUME PushQuit PROVE quits' > 0
  BY <1>p, <1>q DEF PushQuit
<1>1. CASE Setup BY <1>1 DEF Setup, Main, running
<1>2. CASE Top BY <1>2, <1>q DEF Top, Main, running
<1>3. CASE NoNext
  <2>1. main = "no_next" /\ main' = "clear" /\ ui' = ui /\ quit' = quit
    BY <1>3 DEF NoNext, Main
  <2>2. CASE shutdown_timer = -1
    BY <1>3, <1>p, <2>1, <2>2 DEF NoNext
  <2>3. CASE shutdown_timer # -1
    BY <1>3, <2>1, <2>3 DEF NoNext
  <2> QED BY <2>2, <2>3
<1>4. CASE TestTimer
  <2>1. main = "zero" /\ main' = "events" /\ ui' = ui /\ quit' = quit
    BY <1>4 DEF TestTimer, Main
  <2>2. CASE remaining_time = 0
    BY <1>4, <1>p, <2>1, <2>2 DEF TestTimer
  <2>3. CASE remaining_time # 0
    BY <1>4, <2>1, <2>3 DEF TestTimer
  <2> QED BY <2>2, <2>3
<1>5. CASE DeliverEvent BY <1>5 DEF DeliverEvent
<1>6. CASE Exit BY <1>6 DEF Exit, Main, running
<1>7. CASE Close BY <1>7 DEF Close, Main
<1>8. CASE Join BY <1>8 DEF Join, Main, running
<1>9. CASE QuitEvent
  <2>1. main' = main /\ ui # "ended" /\ gmu_running' = gmu_running /\ quit' = quit
    BY <1>9 DEF QuitEvent, Ui
  <2>2. quits' > 0
    BY <1>9, <1>p DEF QuitEvent
  <2> QED BY <2>1, <2>2
<1>10. CASE QuitRunning BY <1>10 DEF QuitRunning, Ui
<1>11. CASE ~(Setup \/ Top \/ NoNext \/ TestTimer \/ DeliverEvent \/ Exit \/ Close \/ Join
              \/ QuitEvent \/ QuitRunning \/ Crash(main) \/ Crash(ui))
  <2>1. UNCHANGED <<gmu_running, quits, quit>>
    BY <1>11 DEF Next, MainStep, UiStep, vars, running, Main, ReadCommand,
       DoItem, DoFile, DoNext, PlayNext, DoStop, ResetCurrent, NextStatus,
       StopStatus, ClearCommand, ClearParam, ClearFile, ClearName, LoadTimer, StoreTimer,
       Restart, EventsDone, SetCommand, Ui, SetParam, SetFilename, SetFileCommand,
       SetPlaying, CallNext, PlayCalled, Pause, CallStop, ForgetCurrent, SetStopped,
       SetTimer, SetRemaining, Press, LeaveUi, TrackEnds, MinutePasses
  <2>2. \/ main' = main
        \/ main \notin Out \cup {"setup", "crashed"} /\ main' \notin Out \cup {"setup", "crashed"}
    BY <1>11 DEF Next, MainStep, UiStep, vars, Main, ReadCommand,
       DoItem, DoFile, DoNext, PlayNext, DoStop, ResetCurrent, NextStatus,
       StopStatus, ClearCommand, ClearParam, ClearFile, ClearName, LoadTimer, StoreTimer,
       Restart, EventsDone, SetCommand, Ui, SetParam, SetFilename, SetFileCommand,
       SetPlaying, CallNext, PlayCalled, Pause, CallStop, ForgetCurrent, SetStopped,
       SetTimer, SetRemaining, Press, LeaveUi, TrackEnds, MinutePasses
  <2>3. ui' = ui \/ (ui # "ended" /\ ui' # "not_running")
    <3>1. CASE MainStep
      <4>1. ui' = ui
        BY <1>11, <3>1, Zenon DEF MainStep, Main, ReadCommand, DoItem, DoFile, DoNext, PlayNext,
           NextStatus, DoStop, ResetCurrent, StopStatus, ClearCommand, ClearParam, ClearFile,
           ClearName, LoadTimer, StoreTimer, Restart, EventsDone
      <4> QED BY <4>1
    <3>2. CASE UiStep
      BY <1>11, <3>2 DEF UiStep, Ui, SetCommand, SetParam, SetFilename, SetFileCommand,
         SetPlaying, CallNext, PlayCalled, Pause, CallStop, ForgetCurrent, SetStopped,
         SetTimer, SetRemaining
    <3>3. CASE Press \/ LeaveUi
      BY <3>3 DEF Press, LeaveUi, Ui
    <3>4. CASE TrackEnds \/ MinutePasses \/ UNCHANGED vars
      BY <3>4 DEF TrackEnds, MinutePasses, vars
    <3>5. Next \/ UNCHANGED vars
      OBVIOUS
    <3> QED BY <3>1, <3>2, <3>3, <3>4, <3>5 DEF Next
  <2> QED BY <2>1, <2>2, <2>3
<1>12. CASE Crash(main) \/ Crash(ui) BY <1>12 DEF Crash
<1> QED BY <1>1, <1>2, <1>3, <1>4, <1>5, <1>6, <1>7, <1>8, <1>9, <1>10, <1>11, <1>12

\* Whoever ends the program, the user or the timer, the frontend gets to know,
\* and before the main loop waits for what only the frontend can end (core.c,
\* 807).  The bound must leave room for one event.
THEOREM TheyLeaveTogether == MaxQuits > 0 => (Spec => []LeavesTogether)
<1> SUFFICES ASSUME MaxQuits > 0 PROVE Spec => []LeavesTogether
  OBVIOUS
<1>1. Init => LeaveInv BY LeaveInit
<1>2. TypeOK /\ LeaveInv /\ [Next]_vars => LeaveInv' BY LeaveStep
<1>3. LeaveInv => LeavesTogether BY DEF LeaveInv
<1> QED BY <1>1, <1>2, <1>3, TypeCorrect, PTL DEF Spec

\* The time starts above 0.
LEMMA ZeroInit == Init => ZeroInv
<1> SUFFICES ASSUME Init PROVE ZeroInv
  OBVIOUS
<1>1. remaining_time > 0
  <2>1. shutdown_timer \in Timer /\ remaining_time = (IF shutdown_timer > 0 THEN shutdown_timer ELSE 1)
    BY Zenon DEF Init
  <2> QED BY <2>1, MinutesAssumption DEF Timer
<1> QED BY <1>1 DEF Init, ZeroInv, NeverPastZero, Ending, Crashed

\* The steps that read or write the time one by one, and those that change
\* whether the program is to end.
LEMMA ZeroStep == TypeOK /\ ZeroInv /\ [Next]_vars => ZeroInv'
<1> SUFFICES ASSUME TypeOK, ZeroInv, [Next]_vars PROVE ZeroInv'
  OBVIOUS
<1> USE DEF ZeroInv, NeverPastZero, Ending, Crashed
<1>t. remaining_time \in Int /\ loaded \in Int /\ gmu_running \in BOOLEAN
  BY DEF TypeOK
<1>1. CASE Setup BY <1>1, <1>t DEF Setup, Main, timer
<1>2. CASE NoNext BY <1>2, <1>t DEF NoNext, Main
<1>3. CASE LoadTimer BY <1>3, <1>t DEF LoadTimer, Main, running
<1>4. CASE StoreTimer BY <1>4, <1>t DEF StoreTimer, Main, running
<1>5. CASE Restart BY <1>5, <1>t DEF Restart, Main, running
<1>6. CASE TestTimer BY <1>6, <1>t DEF TestTimer, Main
<1>7. CASE SetRemaining
  <2>1. remaining_time' > 0
    BY <1>7, MinutesAssumption DEF SetRemaining, TypeOK, Timer
  <2> QED BY <1>7, <2>1 DEF SetRemaining, Ui, running
<1>8. CASE QuitRunning BY <1>8, <1>t DEF QuitRunning, Ui, timer
<1>9. CASE ~(Setup \/ NoNext \/ LoadTimer \/ StoreTimer \/ Restart \/ TestTimer
             \/ SetRemaining \/ QuitRunning \/ Crash(main) \/ Crash(ui))
  <2>1. UNCHANGED <<remaining_time, loaded, gmu_running>>
    BY <1>9 DEF Next, MainStep, UiStep, vars, timer, running, Main, Top, ReadCommand,
       DoItem, DoFile, DoNext, PlayNext, DoStop, ResetCurrent, NextStatus,
       StopStatus, ClearCommand, ClearParam, ClearFile, ClearName, DeliverEvent,
       EventsDone, Exit, Close, Join, SetCommand, Ui, SetParam, SetFilename,
       SetFileCommand, SetPlaying, CallNext, PlayCalled, Pause, CallStop, ForgetCurrent,
       SetStopped, SetTimer, QuitEvent, Press, LeaveUi, TrackEnds, MinutePasses
  <2>2. \/ main' = main
        \/ /\ main \notin {"setup", "store", "start", "zero", "crashed"}
           /\ main' \notin {"setup", "store", "crashed"}
    BY <1>9 DEF Next, MainStep, UiStep, vars, Main, Top, ReadCommand,
       DoItem, DoFile, DoNext, PlayNext, DoStop, ResetCurrent, NextStatus,
       StopStatus, ClearCommand, ClearParam, ClearFile, ClearName, DeliverEvent,
       EventsDone, Exit, Close, Join, SetCommand, Ui, SetParam, SetFilename,
       SetFileCommand, SetPlaying, CallNext, PlayCalled, Pause, CallStop, ForgetCurrent,
       SetStopped, SetTimer, QuitEvent, Press, LeaveUi, TrackEnds, MinutePasses
  <2> QED BY <2>1, <2>2, <1>t
<1>10. CASE Crash(main) \/ Crash(ui) BY <1>10 DEF Crash
<1> QED BY <1>1, <1>2, <1>3, <1>4, <1>5, <1>6, <1>7, <1>8, <1>9, <1>10

\* However the frontend sets the time while the main loop counts a minute, the
\* test for 0 is never skipped (core.c, 781-793).
THEOREM ZeroIsNeverMissed == Spec => []NeverPastZero
<1>1. Init => ZeroInv BY ZeroInit
<1>2. TypeOK /\ ZeroInv /\ [Next]_vars => ZeroInv' BY ZeroStep
<1>3. ZeroInv => NeverPastZero BY DEF ZeroInv
<1> QED BY <1>1, <1>2, <1>3, TypeCorrect, PTL DEF Spec
=============================================================================
