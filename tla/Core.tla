-------------------------------- MODULE Core --------------------------------
(***************************************************************************)
(* The main program (gmu-0.7.0/src/core.c) and the frontend thread, which  *)
(* share the global variables of core.c without a lock: the commands the   *)
(* frontend leaves for the main loop, the shutdown timer, and how the      *)
(* program ends.  Accesses to the globals are one step only where no step  *)
(* of the other thread between them would lead anywhere else.              *)
(*                                                                         *)
(* What other modules model is taken as a whole here: the playlist is its  *)
(* tracks 1 .. Length in continue mode, which nobody edits (Playlist); the *)
(* file player is one status, and a stop stops it at once (FilePlayer has  *)
(* the races of its thread); and of the event queue only GMU_QUIT is       *)
(* counted: no other event has an effect on what is modelled (EventQueue). *)
(***************************************************************************)
EXTENDS Integers

CONSTANTS
    Length,     \* tracks in the playlist
    Minutes,    \* the times the shutdown timer can be set to
    MaxQuits    \* bound: GMU_QUIT events that may wait

ASSUME LengthAssumption  == Length \in Nat
ASSUME MinutesAssumption == Minutes \subseteq Nat \ {0}
ASSUME QuitsAssumption   == MaxQuits \in Nat

Command == {"NO_CMD", "PLAY_ITEM", "PLAY_FILE", "NEXT"}
Timer   == {-1, 0} \cup Minutes

\* What file_player_get_playback_status and _item_status say, and the audio device:
\* PAUSED has a decoder thread that waits for it, SILENT is a playback status of
\* PLAYING with no thread at all, because no decoder takes the file.
Player == {"STOPPED", "PLAYING", "PAUSED", "FINISHED", "SILENT"}

VARIABLES
    main, ui,           \* where the two threads are
    global_command, global_param, global_filename,  \* the last: whether there is one
    player_status,      \* PLAYING or STOPPED, what core.c thinks
    player,             \* the file player, see Player
    current,            \* the current track, 0 if there is none
    gmu_running, quits,
    quit,               \* the flag that ends the frontend
    shutdown_timer, remaining_time, auto_shutdown,
    minute,             \* a minute has passed since start
    loaded,             \* the value of remaining_time that is being decremented, else 0
    armed               \* history: the timer has been set to something

commands == <<global_command, global_param, global_filename>>
playback == <<player_status, player, current>>
running  == <<gmu_running, quits, quit>>
timer    == <<shutdown_timer, remaining_time, auto_shutdown, minute, loaded, armed>>
vars     == <<main, ui, commands, playback, running, timer>>

\* The configuration: the timer, and whether playback starts by itself.
Init ==
    /\ main = "setup" /\ ui = "idle"
    /\ global_command \in {"NO_CMD", "NEXT"} /\ global_param = 0 /\ global_filename = FALSE
    /\ player_status = "STOPPED" /\ player = "STOPPED" /\ current = 0
    /\ gmu_running = FALSE /\ quits = 0 /\ quit = FALSE
    /\ shutdown_timer \in Timer
    /\ remaining_time = (IF shutdown_timer > 0 THEN shutdown_timer ELSE 1)
    /\ auto_shutdown = FALSE /\ minute = FALSE /\ loaded = 0
    /\ armed = (shutdown_timer # 0)

-----------------------------------------------------------------------------
(* What both threads call *)

Main(from, to) == main = from /\ main' = to /\ UNCHANGED ui
Ui(from, to)   == ui = from /\ ui' = to /\ UNCHANGED main

\* playlist_next
NextTrack == current < Length /\ current' = current + 1

\* file_player_play_file: a thread is started only where a decoder is found, and
\* nobody sets the item status to FINISHED where it is not.
PlayFile == player' \in {"PLAYING", "SILENT"}

\* gmu_core_stop does nothing if player_status says STOPPED.
Halted == player_status = "STOPPED"

\* Between playlist_next and the call of file_player_play_file the other thread may
\* have left no track current: the file name is NULL, and strncpy reads from there.
Crash(thread) ==
    /\ thread = "play" /\ current = 0
    /\ main' = "crashed" /\ ui' = "crashed"
    /\ UNCHANGED <<commands, playback, running, timer>>

\* event_queue_push(GMU_QUIT)
PushQuit == quits' = IF quits < MaxQuits THEN quits + 1 ELSE quits

-----------------------------------------------------------------------------
(* The main loop *)

\* The loop sets gmu_running whatever the frontend, which already runs, has done.
Setup ==
    /\ Main("setup", "top")
    /\ gmu_running' = TRUE
    /\ UNCHANGED <<commands, playback, quits, quit, timer>>

Top ==
    /\ Main("top", IF gmu_running \/ quits > 0 THEN "command" ELSE "exit")
    /\ UNCHANGED <<commands, playback, running, timer>>

ReadCommand ==
    /\ Main("command",
            IF global_command = "PLAY_ITEM" THEN "item"
            ELSE IF global_command = "PLAY_FILE" /\ global_filename THEN "file"
            ELSE IF player = "FINISHED" \/ global_command = "NEXT" THEN "next"
            ELSE "timer")
    /\ UNCHANGED <<commands, playback, running, timer>>

\* A fault: the item after the last is taken for one.
DoItemPast ==
    /\ Main("item", "clear")
    /\ current' = global_param + 1 /\ PlayFile
    /\ UNCHANGED <<commands, player_status, running, timer>>

\* The parameter is read after the command; the list may have no such item.  What is
\* played is the item that was looked up, whatever is current by then.
DoItem ==
    /\ Main("item", "clear")
    /\ IF global_param < Length
       THEN current' = global_param + 1 /\ PlayFile
       ELSE UNCHANGED <<current, player>>
    /\ UNCHANGED <<commands, player_status, running, timer>>

DoFile ==
    /\ Main("file", "clear_file")
    /\ current' = 0 /\ PlayFile
    /\ UNCHANGED <<commands, player_status, running, timer>>

DoNext ==
    /\ Main("next", "play")
    /\ NextTrack
    /\ UNCHANGED <<commands, player_status, player, running, timer>>

\* What is played is what is current by then.
PlayNext ==
    /\ Main("play", "status")
    /\ current # 0
    /\ PlayFile
    /\ UNCHANGED <<commands, player_status, current, running, timer>>

\* gmu_core_stop, when there is no next track
DoStop ==
    /\ Main("next", IF Halted THEN "no_next" ELSE "reset")
    /\ current = Length
    /\ player' = IF Halted THEN player ELSE "STOPPED"
    /\ UNCHANGED <<commands, player_status, current, running, timer>>

ResetCurrent ==
    /\ Main("reset", "stopped")
    /\ current' = 0
    /\ UNCHANGED <<commands, player_status, player, running, timer>>

NextStatus ==
    /\ Main("status", "clear")
    /\ player_status' = "PLAYING"
    /\ UNCHANGED <<commands, player, current, running, timer>>

StopStatus ==
    /\ Main("stopped", "no_next")
    /\ player_status' = "STOPPED"
    /\ UNCHANGED <<commands, player, current, running, timer>>

\* A fault: looks at the time that remains instead of the timer.
NoNextRemaining ==
    /\ Main("no_next", "clear")
    /\ IF remaining_time = -1
       THEN auto_shutdown' = TRUE /\ PushQuit /\ gmu_running' = FALSE
       ELSE UNCHANGED <<auto_shutdown, quits, gmu_running>>
    /\ UNCHANGED <<commands, playback, quit,
                   shutdown_timer, remaining_time, minute, loaded, armed>>

\* Shut down if it was to be after the last track.
NoNext ==
    /\ Main("no_next", "clear")
    /\ IF shutdown_timer = -1
       THEN auto_shutdown' = TRUE /\ PushQuit /\ gmu_running' = FALSE
       ELSE UNCHANGED <<auto_shutdown, quits, gmu_running>>
    /\ UNCHANGED <<commands, playback, quit,
                   shutdown_timer, remaining_time, minute, loaded, armed>>

ClearCommand ==
    /\ Main("clear", "clear_param")
    /\ global_command' = "NO_CMD"
    /\ UNCHANGED <<global_param, global_filename, playback, running, timer>>

ClearParam ==
    /\ Main("clear_param", "timer")
    /\ global_param' = 0
    /\ UNCHANGED <<global_command, global_filename, playback, running, timer>>

ClearFile ==
    /\ Main("clear_file", "clear_name")
    /\ global_command' = "NO_CMD"
    /\ UNCHANGED <<global_param, global_filename, playback, running, timer>>

ClearName ==
    /\ Main("clear_name", "timer")
    /\ global_filename' = FALSE
    /\ UNCHANGED <<global_command, global_param, playback, running, timer>>

\* A fault: the minute is counted without looking whether it is over.
LoadTimerBackwards ==
    /\ Main("timer", IF shutdown_timer > 0 /\ ~minute THEN "store" ELSE "zero")
    /\ loaded' = IF shutdown_timer > 0 THEN remaining_time ELSE 0
    /\ UNCHANGED <<commands, playback, running,
                   shutdown_timer, remaining_time, auto_shutdown, minute, armed>>

\* remaining_time-- is a load and a store.
LoadTimer ==
    /\ Main("timer", IF shutdown_timer > 0 /\ minute THEN "store" ELSE "zero")
    /\ loaded' = IF shutdown_timer > 0 /\ minute THEN remaining_time ELSE 0
    /\ UNCHANGED <<commands, playback, running,
                   shutdown_timer, remaining_time, auto_shutdown, minute, armed>>

StoreTimer ==
    /\ Main("store", "start")
    /\ remaining_time' = loaded - 1
    /\ loaded' = 0
    /\ UNCHANGED <<commands, playback, running,
                   shutdown_timer, auto_shutdown, minute, armed>>

\* time(&start)
Restart ==
    /\ Main("start", "zero")
    /\ minute' = FALSE
    /\ UNCHANGED <<commands, playback, running,
                   shutdown_timer, remaining_time, auto_shutdown, loaded, armed>>

TestTimer ==
    /\ Main("zero", "events")
    /\ IF remaining_time = 0
       THEN auto_shutdown' = TRUE /\ PushQuit /\ gmu_running' = FALSE
       ELSE UNCHANGED <<auto_shutdown, quits, gmu_running>>
    /\ UNCHANGED <<commands, playback, quit,
                   shutdown_timer, remaining_time, minute, loaded, armed>>

\* A fault: the frontends are not told.
DropEvent ==
    /\ main = "events" /\ quits > 0
    /\ quits' = quits - 1
    /\ UNCHANGED <<main, ui, commands, playback, gmu_running, quit, timer>>

\* Every event that waits goes to the frontends.
DeliverEvent ==
    /\ main = "events" /\ quits > 0
    /\ quits' = quits - 1
    /\ quit' = TRUE
    /\ UNCHANGED <<main, ui, commands, playback, gmu_running, timer>>

EventsDone ==
    /\ Main("events", "top")
    /\ quits = 0
    /\ UNCHANGED <<commands, playback, running, timer>>

\* The wait for the decoder thread.
Exit ==
    /\ Main("exit", "close")
    /\ player \notin {"PLAYING", "PAUSED"}
    /\ UNCHANGED <<commands, playback, running, timer>>

\* Audio, settings, decoders; then shut_down of the frontend.
Close ==
    /\ Main("close", "join")
    /\ quit' = TRUE
    /\ UNCHANGED <<commands, playback, gmu_running, quits, timer>>

Join ==
    /\ Main("join", "ended")
    /\ ui = "ended"
    /\ UNCHANGED <<commands, playback, running, timer>>

MainStep ==
    \/ Setup \/ Top \/ ReadCommand
    \/ DoItem \/ DoFile
    \/ DoNext \/ PlayNext \/ Crash(main) \/ NextStatus
    \/ DoStop \/ ResetCurrent \/ StopStatus \/ NoNext
    \/ ClearCommand \/ ClearParam \/ ClearFile \/ ClearName
    \/ LoadTimer \/ StoreTimer \/ Restart \/ TestTimer
    \/ DeliverEvent \/ EventsDone
    \/ Exit \/ Close \/ Join

-----------------------------------------------------------------------------
(* The frontend *)

\* The user presses a key; the frontend looks at its flag before each.
Press ==
    /\ \E to \in {"item", "file", "next", "pause", "stop", "timer"} : Ui("idle", to)
    /\ ~quit
    /\ UNCHANGED <<commands, playback, running, timer>>

\* gmu_core_play_pl_item; Length stands for an item that is not in the list.
SetCommand ==
    /\ Ui("item", "param")
    /\ global_command' = "PLAY_ITEM"
    /\ UNCHANGED <<global_param, global_filename, playback, running, timer>>

SetParam ==
    /\ Ui("param", "playing")
    /\ \E item \in 0 .. Length : global_param' = item
    /\ UNCHANGED <<global_command, global_filename, playback, running, timer>>

\* gmu_core_play_file, after gmu_core_playlist_set_current(NULL)
SetFilename ==
    /\ Ui("file", "play_file")
    /\ current' = 0
    /\ global_filename' = TRUE
    /\ UNCHANGED <<global_command, global_param, player_status, player, running, timer>>

SetFileCommand ==
    /\ Ui("play_file", "playing")
    /\ global_command' = "PLAY_FILE"
    /\ UNCHANGED <<global_param, global_filename, playback, running, timer>>

SetPlaying ==
    /\ Ui("playing", "idle")
    /\ player_status' = "PLAYING"
    /\ UNCHANGED <<commands, player, current, running, timer>>

\* gmu_core_next runs in the thread of the frontend.
CallNext ==
    /\ \/ Ui("next", "play") /\ NextTrack
       \/ Ui("next", "idle") /\ current = Length /\ UNCHANGED current
    /\ UNCHANGED <<commands, player_status, player, running, timer>>

PlayCalled ==
    /\ Ui("play", "playing")
    /\ current # 0
    /\ PlayFile
    /\ UNCHANGED <<commands, player_status, current, running, timer>>

\* gmu_core_pause; a device that is not open or stands still knows no difference.
Pause ==
    /\ Ui("pause", "idle")
    /\ player' = CASE player = "PLAYING" -> "PAUSED" [] player = "PAUSED" -> "PLAYING"
                   [] OTHER -> player
    /\ UNCHANGED <<commands, player_status, current, running, timer>>

\* gmu_core_stop
CallStop ==
    /\ \/ Ui("stop", IF Halted THEN "idle" ELSE "reset")
       \/ Ui("leave", IF Halted THEN "quit" ELSE "last_reset")
    /\ player' = IF Halted THEN player ELSE "STOPPED"
    /\ UNCHANGED <<commands, player_status, current, running, timer>>

ForgetCurrent ==
    /\ Ui("reset", "halted") \/ Ui("last_reset", "last_halted")
    /\ current' = 0
    /\ UNCHANGED <<commands, player_status, player, running, timer>>

SetStopped ==
    /\ Ui("halted", "idle") \/ Ui("last_halted", "quit")
    /\ player_status' = "STOPPED"
    /\ UNCHANGED <<commands, player, current, running, timer>>

\* gmu_core_set_shutdown_time
SetTimer ==
    /\ Ui("timer", "remaining")
    /\ \E value \in Timer : shutdown_timer' = value /\ armed' = (armed \/ value # 0)
    /\ UNCHANGED <<commands, playback, running,
                   remaining_time, auto_shutdown, minute, loaded>>

\* A fault: no time is left when there is no time to wait for.
SetRemainingPlain ==
    /\ Ui("remaining", "idle")
    /\ remaining_time' = IF shutdown_timer >= 0 THEN shutdown_timer ELSE 1
    /\ UNCHANGED <<commands, playback, running,
                   shutdown_timer, auto_shutdown, minute, loaded, armed>>

\* The value is still in shutdown_timer, which only the frontend writes.
SetRemaining ==
    /\ Ui("remaining", "idle")
    /\ remaining_time' = IF shutdown_timer > 0 THEN shutdown_timer ELSE 1
    /\ UNCHANGED <<commands, playback, running,
                   shutdown_timer, auto_shutdown, minute, loaded, armed>>

\* The exit key, the flag, or no skin at the start: the frontend stops the player
\* and quits.
LeaveUi ==
    /\ Ui("idle", "leave")
    /\ UNCHANGED <<commands, playback, running, timer>>

\* gmu_core_quit
QuitEvent ==
    /\ Ui("quit", "not_running")
    /\ PushQuit
    /\ UNCHANGED <<commands, playback, gmu_running, quit, timer>>

QuitRunning ==
    /\ Ui("not_running", "ended")
    /\ gmu_running' = FALSE
    /\ UNCHANGED <<commands, playback, quits, quit, timer>>

\* A call that has begun, and the end.
UiStep ==
    \/ SetCommand \/ SetParam \/ SetFilename \/ SetFileCommand \/ SetPlaying
    \/ CallNext \/ PlayCalled \/ Crash(ui) \/ Pause
    \/ CallStop \/ ForgetCurrent \/ SetStopped
    \/ SetTimer \/ SetRemaining
    \/ QuitEvent \/ QuitRunning

-----------------------------------------------------------------------------
(* The rest of the world *)

\* The decoder also comes to the end of a file whose rest fits into the buffer of
\* a device that is paused.
TrackEnds ==
    /\ player \in {"PLAYING", "PAUSED"}
    /\ player' = "FINISHED"
    /\ UNCHANGED <<main, ui, commands, player_status, current, running, timer>>

\* 60 seconds since start.
MinutePasses ==
    /\ ~minute
    /\ minute' = TRUE
    /\ UNCHANGED <<main, ui, commands, playback, running,
                   shutdown_timer, remaining_time, auto_shutdown, loaded, armed>>

Next == MainStep \/ Press \/ UiStep \/ LeaveUi \/ TrackEnds \/ MinutePasses

\* Both threads are scheduled, SDL delivers an event to the frontend ten times a
\* second, a track that plays ends and time passes.  Nobody needs to press a key.
Fairness ==
    /\ WF_vars(MainStep) /\ WF_vars(UiStep) /\ WF_vars(quit /\ LeaveUi)
    /\ WF_vars(player = "PLAYING" /\ TrackEnds) /\ WF_vars(MinutePasses)

Spec     == Init /\ [][Next]_vars
FairSpec == Spec /\ Fairness

-----------------------------------------------------------------------------
MainLabel == {"setup", "top", "command", "item", "file", "next", "play", "status",
              "reset", "stopped", "no_next", "clear", "clear_param", "clear_file",
              "clear_name", "timer", "store", "start", "zero", "events",
              "exit", "close", "join", "ended", "crashed"}
UiLabel   == {"idle", "item", "param", "file", "play_file", "playing", "next", "play",
              "pause", "stop", "reset", "halted", "timer", "remaining", "leave",
              "last_reset", "last_halted", "quit", "not_running", "ended", "crashed"}

TypeOK ==
    /\ main \in MainLabel /\ ui \in UiLabel
    /\ global_command \in Command /\ global_param \in 0 .. Length /\ global_filename \in BOOLEAN
    /\ player_status \in {"STOPPED", "PLAYING"}
    /\ player \in Player
    /\ current \in 0 .. Length
    /\ gmu_running \in BOOLEAN /\ quits \in 0 .. MaxQuits /\ quit \in BOOLEAN
    /\ shutdown_timer \in Timer /\ remaining_time \in Int /\ auto_shutdown \in BOOLEAN
    /\ minute \in BOOLEAN /\ loaded \in Int /\ armed \in BOOLEAN

\* core.c, 427: with 0 the player does not shut down by itself.  The command
\* that switches the machine off is never run unless a timer has been set.
NeverUnarmed == auto_shutdown => armed

\* A timer that is left alone fires: remaining_time comes to 0 and is seen there,
\* whatever the frontend has written into it before.
Ending     == ~gmu_running /\ main # "setup"
LeftAlone  == shutdown_timer > 0 /\ ui \notin {"timer", "remaining", "crashed"}
TimerFires == (<>[]LeftAlone) => <>Ending

\* core.c, 430: with -1 the player shuts down after the last track.  What plays
\* while nobody presses a key, and is not paused, is followed to the end of the
\* playlist and of the program, however the player had been set going, as long as
\* a decoder is found for every file.
Undisturbed    == shutdown_timer = -1 /\ ui = "idle" /\ player # "PAUSED"
LastTrackFires ==
    [](player \in {"PLAYING", "FINISHED"} /\ [](Undisturbed /\ player # "SILENT") => <>Ending)

\* The same of the last track itself, whether or not there is a decoder for it.
EndOfListFires ==
    [](current = Length /\ player # "STOPPED" /\ []Undisturbed => <>Ending)

\* Once the program is to end, by the user or by the timer, both threads do: the
\* event reaches the frontend while it makes calls, and the wait for the decoder
\* thread (core.c, 807) is not prolonged for ever by a frontend that goes on.  The
\* exception is a track that was set going while player_status said STOPPED, so that
\* the last gmu_core_stop of the frontend passes it by, and then paused.
Left            == main = "ended" /\ ui = "ended"
Crashed         == main = "crashed"
PausedForGood   == main = "exit" /\ ui = "ended" /\ player = "PAUSED"
EverybodyLeaves == Ending ~> (Left \/ Crashed \/ PausedForGood)
=============================================================================
