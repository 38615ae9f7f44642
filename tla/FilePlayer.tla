----------------------------- MODULE FilePlayer -----------------------------
(***************************************************************************)
(* The file player (gmu-0.7.0/src/fileplayer.c): every track is played by  *)
(* a detached thread of its own, which takes over from the one before it   *)
(* by way of three unprotected static variables.  Two threads call         *)
(* file_player_play_file and file_player_stop_playback: the main loop and  *)
(* the frontend.  A step is what happens between two accesses to a shared  *)
(* variable.  What decoding does with the audio buffer is not here: a      *)
(* track may last as long as it likes.                                     *)
(***************************************************************************)
EXTENDS Naturals, FiniteSets

CONSTANTS
    Thread,     \* bound: the decoder threads there may be at a time
    Track,      \* the files
    Playable,   \* those that decloader_get_decoder_for_extension has a decoder for
    None,       \* no track, no decoder
    Keys        \* bound: what the user asks for once the first track is to be played

ASSUME TrackAssumption == Playable \subseteq Track /\ None \notin Track
ASSUME KeysAssumption  == Keys \subseteq {"play", "stop"}

Status == {"STOPPED", "PLAYING", "FINISHED"}

\* Where a decoder thread is.
Starting == {"start", "check", "stop", "wait", "claim", "status", "status2", "open"}
Inside   == {"status", "status2", "open", "loop", "ended", "leave"}
Ending   == {"tail", "finish"}
Label    == {"idle"} \cup Starting \cup Inside \cup Ending

\* Where a caller is: outside, in the condition of the main loop, in play_file
\* or in stop_playback.
Caller    == {"main", "frontend"}
InPlay    == {"name", "item", "playback", "dap", "create"}
InStop    == {"stop", "stop2"}
CallLabel == {"out", "look"} \cup InPlay \cup InStop

VARIABLES
    playback_status, item_status, thread_running,
    filename,   \* the static buffer of play_file
    dap,        \* the static decode_audio_params: the track its decoder was chosen for
    at,         \* where each thread is
    gd,         \* the track its decoder was chosen for, until it is opened
    call,       \* where each caller is
    arg,        \* the track it is to play
    latest,     \* history: the thread created last
    asked,      \* history: the last request
    apart       \* history: it did not overlap with anything that undoes it

statuses == <<playback_status, item_status, thread_running>>
params   == <<filename, dap>>
threads  == <<at, gd, latest>>
callers  == <<call, arg, asked, apart>>
vars     == <<statuses, params, threads, callers>>

Init ==
    /\ playback_status = "STOPPED" /\ item_status = "STOPPED" /\ thread_running = FALSE
    /\ filename = None /\ dap = None
    /\ at = [t \in Thread |-> "idle"] /\ gd = [t \in Thread |-> None]
    /\ call = [c \in Caller |-> "out"] /\ arg = [c \in Caller |-> None]
    /\ latest = None /\ asked = "stop" /\ apart = TRUE

-----------------------------------------------------------------------------
(* A decoder thread: decode_audio_thread *)

Step(t, from, to) == at[t] = from /\ at' = [at EXCEPT ![t] = to]

\* The parameters, of which file is a pointer to the static buffer.  Another
\* request may have set the decoder to NULL meanwhile: then the program ends here,
\* and what the model lets it do beyond is more than it does.
Start(t) ==
    /\ Step(t, "start", "check")
    /\ gd' = [gd EXCEPT ![t] = dap]
    /\ UNCHANGED <<statuses, params, latest, callers>>

Check(t) ==
    /\ Step(t, "check", IF thread_running THEN "stop" ELSE "claim")
    /\ UNCHANGED <<statuses, params, gd, latest, callers>>

\* The other thread is told to stop.
StopOther(t) ==
    /\ Step(t, "stop", "wait")
    /\ item_status' = "STOPPED"
    /\ UNCHANGED <<playback_status, thread_running, params, gd, latest, callers>>

\* It polls every 50 ms.
Wait(t) ==
    /\ Step(t, "wait", "claim")
    /\ ~thread_running
    /\ UNCHANGED <<statuses, params, gd, latest, callers>>

Claim(t) ==
    /\ Step(t, "claim", "status")
    /\ thread_running' = TRUE
    /\ UNCHANGED <<playback_status, item_status, params, gd, latest, callers>>

SetItem(t) ==
    /\ Step(t, "status", "status2")
    /\ item_status' = "PLAYING"
    /\ UNCHANGED <<playback_status, thread_running, params, gd, latest, callers>>

SetPlayback(t) ==
    /\ Step(t, "status2", "open")
    /\ playback_status' = "PLAYING"
    /\ UNCHANGED <<item_status, thread_running, params, gd, latest, callers>>

\* The file is what filename has now.  open_file fails, the stream is broken, or
\* there is something to decode.
OpenFile(t) ==
    /\ \E to \in {"leave", "loop"} : Step(t, "open", to)
    /\ gd' = [gd EXCEPT ![t] = None]
    /\ UNCHANGED <<statuses, params, latest, callers>>

\* The loop goes on while item_status is PLAYING and there is more to decode.
\* decode_data returns 0 or an error with the status read before.
Loop(t) ==
    /\ Step(t, "loop", IF item_status = "PLAYING" THEN "ended" ELSE "leave")
    /\ UNCHANGED <<statuses, params, gd, latest, callers>>

Ended(t) ==
    /\ Step(t, "ended", "leave")
    /\ item_status' = "FINISHED"
    /\ UNCHANGED <<playback_status, thread_running, params, gd, latest, callers>>

\* A fault: the flag is reset only where a file has been open.
LeaveWithFlag(t) ==
    /\ Step(t, "leave", "tail")
    /\ thread_running' = (thread_running /\ item_status = "PLAYING")
    /\ UNCHANGED <<playback_status, item_status, params, gd, latest, callers>>

Leave(t) ==
    /\ Step(t, "leave", "tail")
    /\ thread_running' = FALSE
    /\ UNCHANGED <<playback_status, item_status, params, gd, latest, callers>>

Tail(t) ==
    /\ Step(t, "tail", IF item_status = "STOPPED" THEN "idle" ELSE "finish")
    /\ UNCHANGED <<statuses, params, gd, latest, callers>>

\* A fault: a track that could not be opened is not finished.
FinishNothing(t) ==
    /\ Step(t, "finish", "idle")
    /\ UNCHANGED <<statuses, params, gd, latest, callers>>

Finish(t) ==
    /\ Step(t, "finish", "idle")
    /\ item_status' = "FINISHED"
    /\ UNCHANGED <<playback_status, thread_running, params, gd, latest, callers>>

Decode(t) ==
    \/ Start(t) \/ Check(t) \/ StopOther(t) \/ Wait(t) \/ Claim(t)
    \/ SetItem(t) \/ SetPlayback(t) \/ OpenFile(t)
    \/ Loop(t) \/ Ended(t)
    \/ Leave(t) \/ Tail(t) \/ Finish(t)

-----------------------------------------------------------------------------
(* The callers *)

Go(c, from, to) == call[c] = from /\ call' = [call EXCEPT ![c] = to]

\* There is a thread left for every call that creates one.
Room == Cardinality({c \in Caller : call[c] \in InPlay}) < Cardinality({t \in Thread : at[t] = "idle"})

Stopping == \E c \in Caller : call[c] \in InStop

\* gmu_core_next, gmu_core_previous, a command of the frontend that the main
\* loop carries out.
Request(c) ==
    /\ "play" \in Keys \/ (latest = None /\ \A d \in Caller : call[d] = "out")
    /\ Room
    /\ Go(c, "out", "name")
    /\ \E f \in Track : arg' = [arg EXCEPT ![c] = f]
    /\ asked' = "play" /\ apart' = ~Stopping
    /\ UNCHANGED <<statuses, params, threads>>

AskStop(c) ==
    /\ asked' = "stop"
    /\ apart' = /\ \A d \in Caller \ {c} : call[d] = "out"
               /\ \A t \in Thread : at[t] \notin Starting

RequestStop(c) ==
    /\ "stop" \in Keys
    /\ Go(c, "out", "stop")
    /\ AskStop(c)
    /\ UNCHANGED <<statuses, params, threads, arg>>

\* The condition of the main loop reads first one status and then the other.
Look ==
    /\ item_status = "FINISHED"
    /\ Go("main", "out", "look")
    /\ UNCHANGED <<statuses, params, threads, arg, asked, apart>>

\* A fault: the item alone decides.
LookOnAtItem ==
    /\ \/ /\ Room
          /\ Go("main", "look", "name")
          /\ \E f \in Track : arg' = [arg EXCEPT !["main"] = f]
          /\ apart' = (apart /\ ~Stopping)
          /\ UNCHANGED asked
       \/ /\ Go("main", "look", "stop")
          /\ AskStop("main")
          /\ UNCHANGED arg
    /\ UNCHANGED <<statuses, params, threads>>

\* The track has ended: the next one is played, or there is none, and then
\* gmu_core_stop stops the player unless core.c thinks that it is stopped.
LookOn ==
    /\ \/ /\ playback_status = "PLAYING" /\ Room
          /\ Go("main", "look", "name")
          /\ \E f \in Track : arg' = [arg EXCEPT !["main"] = f]
          /\ apart' = (apart /\ ~Stopping)
          /\ UNCHANGED asked
       \/ /\ playback_status = "PLAYING"
          /\ Go("main", "look", "stop")
          /\ AskStop("main")
          /\ UNCHANGED arg
       \/ /\ Go("main", "look", "out")
          /\ UNCHANGED <<arg, asked, apart>>
    /\ UNCHANGED <<statuses, params, threads>>

\* file_player_play_file
Name(c) ==
    /\ Go(c, "name", "item")
    /\ filename' = arg[c]
    /\ UNCHANGED <<statuses, dap, threads, arg, asked, apart>>

ResetItem(c) ==
    /\ Go(c, "item", "playback")
    /\ item_status' = "STOPPED"
    /\ UNCHANGED <<playback_status, thread_running, params, threads, arg, asked, apart>>

PromisePlayback(c) ==
    /\ Go(c, "playback", "dap")
    /\ playback_status' = "PLAYING"
    /\ UNCHANGED <<item_status, thread_running, params, threads, arg, asked, apart>>

\* Without a decoder for it the file is not played.
ChooseDecoder(c) ==
    /\ Go(c, "dap", IF arg[c] \in Playable THEN "create" ELSE "out")
    /\ dap' = IF arg[c] \in Playable THEN arg[c] ELSE None
    /\ arg' = [arg EXCEPT ![c] = None]
    /\ UNCHANGED <<statuses, filename, threads, asked, apart>>

Create(c) ==
    /\ Go(c, "create", "out")
    /\ \E t \in Thread :
        /\ Step(t, "idle", "start")
        /\ latest' = t
    /\ UNCHANGED <<statuses, params, gd, arg, asked, apart>>

\* file_player_stop_playback
StopPlayback(c) ==
    /\ Go(c, "stop", "stop2")
    /\ playback_status' = "STOPPED"
    /\ UNCHANGED <<item_status, thread_running, params, threads, arg, asked, apart>>

StopItem(c) ==
    /\ Go(c, "stop2", "out")
    /\ item_status' = "STOPPED"
    /\ UNCHANGED <<playback_status, thread_running, params, threads, arg, asked, apart>>

Play(c) == Name(c) \/ ResetItem(c) \/ PromisePlayback(c) \/ ChooseDecoder(c) \/ Create(c)

Stop(c) == StopPlayback(c) \/ StopItem(c)

Next ==
    \/ \E t \in Thread : Decode(t)
    \/ \E c \in Caller : Request(c) \/ RequestStop(c) \/ Play(c) \/ Stop(c)
    \/ Look \/ LookOn

Spec == Init /\ [][Next]_vars

\* The threads are scheduled, and a track that is played ends.
FairSpec == Spec /\ \A t \in Thread : WF_vars(Decode(t))

-----------------------------------------------------------------------------
TypeOK ==
    /\ playback_status \in Status /\ item_status \in Status /\ thread_running \in BOOLEAN
    /\ filename \in Track \cup {None} /\ dap \in Track \cup {None}
    /\ at \in [Thread -> Label] /\ gd \in [Thread -> Track \cup {None}]
    /\ call \in [Caller -> CallLabel] /\ arg \in [Caller -> Track \cup {None}]
    /\ latest \in Thread \cup {None} /\ asked \in {"play", "stop"} /\ apart \in BOOLEAN

\* A track is shown as playing only while a thread is there that will end it,
\* in whatever order threads and callers write the status.
PlayingHasDecoder ==
    item_status = "PLAYING" => \E t \in Thread : at[t] \in (Inside \ {"status"}) \cup Ending

\* fileplayer.c, 132: "if thread_running never gets false this threads deadlocks
\* here, should not happen though!"  Whoever waits waits for a thread that is
\* going to reset the flag; the main program waits for it too (core.c, 807).
WaitHasReason == thread_running => \E t \in Thread : at[t] \in Inside

\* When nobody calls any more, every thread ends.
CalledOff == (<>[](\A c \in Caller : call[c] = "out"))
                => <>[](\A t \in Thread : at[t] = "idle")

NoCall == \A c \in Caller : call[c] \notin InPlay \cup InStop

\* README.txt, 116: the stop key stops playback.  Once file_player_stop_playback
\* has returned and nobody has asked to play since, nothing plays on.
StopStops == asked = "stop" /\ NoCall => playback_status = "STOPPED" /\ item_status # "PLAYING"

\* A stop that meets neither another call nor a thread that is starting is final:
\* the FINISHED that the thread may still write, at the end of its track or on
\* its way out, does not make the main loop go on.
StopHolds == apart => StopStops

\* fileplayer.c, 37: while playback_status is PLAYING the next track is played
\* after the current one has finished.  The main loop takes the one asked for
\* last to be over only when it has been played or could not be opened.
PlayedOut ==
    item_status = "FINISHED" /\ playback_status = "PLAYING" /\ NoCall
        => at[latest] \in {"leave", "idle"} \cup Ending

\* The player does not fall silent by itself: whatever requests and changes of
\* track cross each other, in the end the main loop is told to go on or a thread is
\* there that will tell it.  With no decoder for the file asked for last there is
\* neither (fileplayer.c, 292).
PlaybackGoesOn ==
    asked = "play" /\ apart /\ NoCall /\ dap # None
        => /\ playback_status = "PLAYING"
           /\ item_status = "FINISHED" \/ \E t \in Thread : at[t] # "idle"
=============================================================================
