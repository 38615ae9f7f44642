------------------------------- MODULE Audio --------------------------------
(***************************************************************************)
(* The audio output (gmu-0.7.0/src/audio.c) between the decoder threads    *)
(* (decode_audio_thread of fileplayer.c), the callback on the thread of    *)
(* SDL, the user's pause key and the end of the program.  Of the ring      *)
(* buffer only how full it is matters here (RingBuffer has the rest).  The *)
(* mutex covers writing to it and reading from it; clearing it, looking at *)
(* it and pausing the device are outside.  SDL 1.2 is external: a paused   *)
(* device does not call back, SDL_PauseAudio waits for nobody,             *)
(* SDL_CloseAudio waits for the callback to return.                        *)
(* A step is what happens between two accesses to something shared;        *)
(* audio_set_pause counts as one.  How a decoder thread takes over from    *)
(* the one before is FilePlayer's subject and one step here.               *)
(***************************************************************************)
EXTENDS Integers

CONSTANTS
    Size,       \* RINGBUFFER_SIZE
    MinFill,    \* MIN_BUFFER_FILL: with less the callback stops the device
    Half,       \* half the buffer: with this much it goes on
    CallLen,    \* what a callback takes
    Chunk,      \* what the decoders produce for one write
    Thread,     \* bound: the decoder threads there may be at a time
    NoOne       \* nobody holds the mutex

ASSUME SizeAssumption ==
    /\ MinFill \in Nat /\ Half \in Nat /\ CallLen \in Nat \ {0}
    /\ CallLen <= MinFill /\ MinFill <= Half
    /\ Size = 2 * Half
\* A piece of 32 kB or less after less than 32 kB, or one that fills 64 kB by
\* itself: what a decoder returns is never more than half the buffer in one go.
ASSUME ChunkAssumption  == Chunk \subseteq 1 .. Half
ASSUME ThreadAssumption == NoOne \notin Thread /\ "callback" \notin Thread /\ NoOne # "callback"

CallbackLabel == {"out", "locking", "check", "underrun", "wait", "relock", "paused",
                  "resume", "read", "store"}
ThreadLabel ==
    {"idle", "takeover", "open", "close", "reopen", "clear", "hold", "play", "hold_again",
     "loop", "write", "added", "look", "resume", "after", "release", "tail", "silence", "empty"}
EndLabel == {"running", "closing", "over"}

VARIABLES
    fill,               \* audio_rb.buffer_fill
    mutex,              \* who holds audio_mutex
    paused, device_open,
    sdl, sdl_paused,    \* SDL's device: "closed", "open" or "closing"
    cb, cb_fill,        \* where the callback is, and the fill it has loaded
    item_status, playback_status, thread_running,   \* fileplayer.c
    at, size, loaded,   \* where each decoder thread is, and its locals
    main,               \* the end of the program
    raced,              \* history: the last clear has met a read or a write in progress
    overtaken           \* history: the last pause has met somebody about to resume

buffer  == <<fill, mutex, raced>>
device  == <<device_open, sdl>>
pausing == <<paused, sdl_paused, overtaken>>
call    == <<cb, cb_fill>>
status  == <<item_status, playback_status, thread_running>>
locals  == <<size, loaded>>
vars    == <<buffer, device, pausing, call, status, at, locals, main>>

Init ==
    /\ fill = 0 /\ mutex = NoOne /\ raced = FALSE
    /\ paused = TRUE /\ device_open = FALSE
    /\ sdl = "closed" /\ sdl_paused = TRUE /\ overtaken = FALSE
    /\ cb = "out" /\ cb_fill = 0
    /\ item_status = "STOPPED" /\ playback_status = "STOPPED" /\ thread_running = FALSE
    /\ at = [t \in Thread |-> "idle"]
    /\ size = [t \in Thread |-> 0] /\ loaded = [t \in Thread |-> 0]
    /\ main = "running"

Go(t, label) == at' = [at EXCEPT ![t] = label]

\* Without a device SDL_PauseAudio does nothing.
SDL_PauseAudio(on) == sdl_paused' = IF sdl = "closed" THEN sdl_paused ELSE on

AboutToResume == cb = "resume" \/ \E t \in Thread : at[t] = "resume"

\* audio_set_pause
SetPause(on) ==
    IF device_open /\ paused # on
    THEN /\ paused' = on
         /\ SDL_PauseAudio(on)
         /\ overtaken' = (on /\ AboutToResume)
    ELSE UNCHANGED pausing

\* ringbuffer_clear, without the mutex: what somebody has loaded of fill stays
\* with him.
Clear ==
    /\ fill' = 0
    /\ raced' = (cb = "store" \/ \E t \in Thread : at[t] = "added")
    /\ UNCHANGED mutex

-----------------------------------------------------------------------------
(***************************************************************************)
(* The callback, fill_audio                                                *)
(***************************************************************************)
Calls ==
    /\ cb = "out"
    /\ sdl = "open" /\ ~sdl_paused
    /\ cb' = "locking"
    /\ UNCHANGED <<buffer, cb_fill, device, pausing, status, at, locals, main>>

Lock(from, to) ==
    /\ cb = from
    /\ mutex = NoOne
    /\ mutex' = "callback"
    /\ cb' = to
    /\ UNCHANGED <<fill, raced, cb_fill, device, pausing, status, at, locals, main>>

LooksAtFill ==
    /\ cb = "check"
    /\ cb' = IF fill < MinFill THEN "underrun" ELSE "read"
    /\ UNCHANGED <<buffer, cb_fill, device, pausing, status, at, locals, main>>

\* The buffer is almost empty: the callback itself pauses the device.
Underrun ==
    /\ cb = "underrun"
    /\ SDL_PauseAudio(TRUE)
    /\ mutex' = NoOne
    /\ cb' = "wait"
    /\ UNCHANGED <<fill, raced, cb_fill, device, paused, overtaken, status, at, locals, main>>

\* A fault: the callback waits for more than the decoder can be sure to write.
EnoughWhenFull == fill > Size - MinFill

\* ringbuffer_get_free(&audio_rb) <= 65536
Enough == Size - fill <= Half

WaitEnds ==
    /\ cb = "wait"
    /\ Enough
    /\ cb' = "relock"
    /\ UNCHANGED <<buffer, cb_fill, device, pausing, status, at, locals, main>>

LooksAtPaused ==
    /\ cb = "paused"
    /\ cb' = IF paused THEN "read" ELSE "resume"
    /\ UNCHANGED <<buffer, cb_fill, device, pausing, status, at, locals, main>>

CallbackResumes ==
    /\ cb = "resume"
    /\ SDL_PauseAudio(FALSE)
    /\ cb' = "read"
    /\ UNCHANGED <<buffer, cb_fill, device, paused, overtaken, status, at, locals, main>>

\* A fault: the mutex is given back before the ring buffer is read.
ReadsUnlocked ==
    /\ cb = "read"
    /\ mutex' = NoOne
    /\ IF CallLen <= fill
       THEN cb_fill' = fill /\ cb' = "store"
       ELSE cb_fill' = 0 /\ cb' = "out"
    /\ UNCHANGED <<fill, raced, device, pausing, status, at, locals, main>>

\* ringbuffer_read refuses to give what is not there.
Reads ==
    /\ cb = "read"
    /\ IF CallLen <= fill
       THEN cb_fill' = fill /\ cb' = "store" /\ UNCHANGED mutex
       ELSE cb_fill' = 0 /\ cb' = "out" /\ mutex' = NoOne
    /\ UNCHANGED <<fill, raced, device, pausing, status, at, locals, main>>

Stores ==
    /\ cb = "store"
    /\ fill' = cb_fill - CallLen
    /\ cb_fill' = 0
    /\ mutex' = NoOne
    /\ cb' = "out"
    /\ UNCHANGED <<raced, device, pausing, status, at, locals, main>>

Callback ==
    \/ Calls \/ Lock("locking", "check") \/ LooksAtFill \/ Underrun
    \/ WaitEnds \/ Lock("relock", "paused") \/ LooksAtPaused \/ CallbackResumes
    \/ Reads \/ Stores

-----------------------------------------------------------------------------
(***************************************************************************)
(* The decoder threads: decode_audio_thread and audio_device_open          *)
(***************************************************************************)

\* file_player_play_file: whoever plays is to stop.  (Bound: one thread at a time
\* waits for its turn.)
Play(t) ==
    /\ main = "running"
    /\ at[t] = "idle" /\ \A u \in Thread : at[u] # "takeover"
    /\ item_status' = "STOPPED" /\ playback_status' = "PLAYING"
    /\ Go(t, "takeover")
    /\ UNCHANGED <<buffer, device, pausing, call, thread_running, locals, main>>

\* Before the claim the thread has told the one before to stop, and waited
\* until thread_running was 0.  Not every file is one its decoder can open.
TakesOver(t) == \E label \in {"open", "release"} :
    /\ at[t] = "takeover"
    /\ ~thread_running
    /\ thread_running' = TRUE
    /\ item_status' = "PLAYING" /\ playback_status' = "PLAYING"
    /\ Go(t, label)
    /\ UNCHANGED <<buffer, device, pausing, call, locals, main>>

\* audio_device_open: a device that is open may be right for the next file.
KeepDevice(t) ==
    /\ at[t] = "open"
    /\ device_open
    /\ Go(t, "clear")
    /\ UNCHANGED <<buffer, device, pausing, call, status, locals, main>>

\* Another sample rate, or another number of channels.
ChangeDevice(t) ==
    /\ at[t] = "open"
    /\ device_open
    /\ SetPause(TRUE)
    /\ device_open' = FALSE
    /\ sdl' = "closing"
    /\ Go(t, "close")
    /\ UNCHANGED <<buffer, call, status, locals, main>>

NoDevice(t) ==
    /\ at[t] = "open"
    /\ ~device_open
    /\ Go(t, "reopen")
    /\ UNCHANGED <<buffer, device, pausing, call, status, locals, main>>

\* SDL_CloseAudio, once the callback has returned.
DeviceCloses ==
    /\ sdl = "closing" /\ cb = "out"
    /\ sdl' = "closed"
    /\ UNCHANGED device_open

CloseDevice(t) ==
    /\ at[t] = "close"
    /\ DeviceCloses
    /\ Go(t, "reopen")
    /\ UNCHANGED <<buffer, pausing, call, status, locals, main>>

\* A device is paused when it is opened.
SDL_OpenAudio(t) ==
    /\ at[t] = "reopen"
    /\ device_open' = TRUE
    /\ sdl' = "open" /\ sdl_paused' = TRUE
    /\ Go(t, "clear")
    /\ UNCHANGED <<buffer, paused, overtaken, call, status, locals, main>>

\* Without a device the track is decoded until the buffer is full.
OpenFails(t) ==
    /\ at[t] = "reopen"
    /\ Go(t, "clear")
    /\ UNCHANGED <<buffer, device, pausing, call, status, locals, main>>

ClearBuffer(t) ==
    /\ at[t] = "clear"
    /\ Clear
    /\ Go(t, IF device_open THEN "hold" ELSE "play")
    /\ UNCHANGED <<device, pausing, call, status, locals, main>>

Hold(t) ==
    /\ at[t] \in {"hold", "hold_again"}
    /\ SDL_PauseAudio(TRUE)
    /\ Go(t, IF at[t] = "hold" THEN "play" ELSE "loop")
    /\ UNCHANGED <<buffer, device, paused, overtaken, call, status, locals, main>>

\* audio_set_pause(0); for a moment the device runs on an empty buffer.
Unpause(t) ==
    /\ at[t] = "play"
    /\ SetPause(FALSE)
    /\ Go(t, "hold_again")
    /\ UNCHANGED <<buffer, device, call, status, locals, main>>

Decode(t, c) ==
    /\ at[t] = "loop"
    /\ item_status = "PLAYING"
    /\ size' = [size EXCEPT ![t] = c]
    /\ Go(t, "write")
    /\ UNCHANGED <<buffer, device, pausing, call, status, loaded, main>>

\* The end of the track, or an error in it.
TrackEnds(t) ==
    /\ at[t] = "loop"
    /\ item_status = "PLAYING"
    /\ SetPause(TRUE)
    /\ item_status' = "FINISHED"
    /\ Go(t, "after")
    /\ UNCHANGED <<buffer, device, call, playback_status, thread_running, locals, main>>

LoopEnds(t) ==
    /\ at[t] = "loop"
    /\ item_status # "PLAYING"
    /\ Go(t, "after")
    /\ UNCHANGED <<buffer, device, pausing, call, status, locals, main>>

\* audio_fill_buffer; it is tried again until the chunk fits.
Write(t) ==
    /\ at[t] = "write"
    /\ item_status = "PLAYING"
    /\ mutex = NoOne
    /\ size[t] <= Size - fill
    /\ mutex' = t
    /\ loaded' = [loaded EXCEPT ![t] = fill]
    /\ Go(t, "added")
    /\ UNCHANGED <<fill, raced, device, pausing, call, status, size, main>>

Added(t) ==
    /\ at[t] = "added"
    /\ fill' = loaded[t] + size[t]
    /\ mutex' = NoOne
    /\ size' = [size EXCEPT ![t] = 0] /\ loaded' = [loaded EXCEPT ![t] = 0]
    /\ Go(t, "look")
    /\ UNCHANGED <<raced, device, pausing, call, status, main>>

\* A fault: the loop around the write does not look at item_status.
WriteNeverGivenUp(t) ==
    /\ at[t] = "write"
    /\ item_status # "PLAYING"
    /\ size[t] <= Size - fill
    /\ size' = [size EXCEPT ![t] = 0]
    /\ Go(t, "look")
    /\ UNCHANGED <<buffer, device, pausing, call, status, loaded, main>>

WriteGivenUp(t) ==
    /\ at[t] = "write"
    /\ item_status # "PLAYING"
    /\ size' = [size EXCEPT ![t] = 0]
    /\ Go(t, "look")
    /\ UNCHANGED <<buffer, device, pausing, call, status, loaded, main>>

\* A fault: the device is started again only when the buffer is full.
MayResumeFull ==
    /\ sdl # "open" \/ sdl_paused
    /\ ~paused
    /\ playback_status = "PLAYING"
    /\ fill = Size

\* A fault: the user's pause is not asked for.
MayResumePaused ==
    /\ sdl # "open" \/ sdl_paused
    /\ playback_status = "PLAYING"
    /\ fill > Half

\* The device does not play, nobody wants it to be silent, and the buffer is
\* more than half full.
MayResume ==
    /\ sdl # "open" \/ sdl_paused
    /\ ~paused
    /\ playback_status = "PLAYING"
    /\ fill > Half

LookAtDevice(t) ==
    /\ at[t] = "look"
    /\ Go(t, IF MayResume THEN "resume" ELSE "loop")
    /\ UNCHANGED <<buffer, device, pausing, call, status, locals, main>>

Resume(t) ==
    /\ at[t] = "resume"
    /\ SDL_PauseAudio(FALSE)
    /\ Go(t, "loop")
    /\ UNCHANGED <<buffer, device, paused, overtaken, call, status, locals, main>>

StopSound(t) ==
    /\ at[t] = "after"
    /\ SetPause(TRUE)
    /\ Go(t, "release")
    /\ UNCHANGED <<buffer, device, call, status, locals, main>>

Release(t) ==
    /\ at[t] = "release"
    /\ thread_running' = FALSE
    /\ Go(t, "tail")
    /\ UNCHANGED <<buffer, device, pausing, call, item_status, playback_status, locals, main>>

\* The next thread may run already.  A thread that was stopped empties the buffer.
Tail(t) ==
    /\ at[t] = "tail"
    /\ IF item_status = "STOPPED"
       THEN Go(t, "silence") /\ UNCHANGED item_status
       ELSE Go(t, "idle") /\ item_status' = "FINISHED"
    /\ UNCHANGED <<buffer, device, pausing, call, playback_status, thread_running, locals, main>>

\* audio_buffer_clear
Silence(t) ==
    /\ at[t] = "silence"
    /\ SetPause(TRUE)
    /\ Go(t, "empty")
    /\ UNCHANGED <<buffer, device, call, status, locals, main>>

Empty(t) ==
    /\ at[t] = "empty"
    /\ Clear
    /\ item_status' = IF item_status = "STOPPED" THEN "STOPPED" ELSE "FINISHED"
    /\ Go(t, "idle")
    /\ UNCHANGED <<device, pausing, call, playback_status, thread_running, locals, main>>

ThreadStep(t) ==
    \/ TakesOver(t) \/ KeepDevice(t) \/ ChangeDevice(t) \/ NoDevice(t) \/ CloseDevice(t) \/ SDL_OpenAudio(t) \/ OpenFails(t)
    \/ ClearBuffer(t) \/ Hold(t) \/ Unpause(t)
    \/ \E c \in Chunk : Decode(t, c)
    \/ TrackEnds(t) \/ LoopEnds(t)
    \/ Write(t) \/ Added(t) \/ WriteGivenUp(t) \/ LookAtDevice(t) \/ Resume(t)
    \/ StopSound(t) \/ Release(t) \/ Tail(t) \/ Silence(t) \/ Empty(t)

-----------------------------------------------------------------------------
(***************************************************************************)
(* The user, and the end of the program                                    *)
(***************************************************************************)

\* file_player_stop_playback
Stop ==
    /\ main = "running"
    /\ item_status' = "STOPPED" /\ playback_status' = "STOPPED"
    /\ UNCHANGED <<buffer, device, pausing, call, thread_running, at, locals, main>>

\* gmu_core_pause
PauseKey ==
    /\ main = "running"
    /\ SetPause(~paused)
    /\ UNCHANGED <<buffer, device, call, status, at, locals, main>>

\* The main loop has ended and no decoder thread runs: audio_device_close.  The
\* keys work until then.  (Bound: not while a track is about to start, which
\* would open the device that is being closed.)
Quit ==
    /\ main = "running"
    /\ ~thread_running /\ \A t \in Thread : at[t] # "takeover"
    /\ SetPause(TRUE)
    /\ device_open' = FALSE
    /\ sdl' = IF device_open THEN "closing" ELSE sdl
    /\ main' = "closing"
    /\ UNCHANGED <<buffer, call, status, at, locals>>

QuitCloses ==
    /\ main = "closing"
    /\ IF sdl = "closed" THEN UNCHANGED device ELSE DeviceCloses
    /\ main' = "over"
    /\ UNCHANGED <<buffer, pausing, call, status, at, locals>>

User == Stop \/ PauseKey \/ Quit \/ \E t \in Thread : Play(t)

Next == Callback \/ QuitCloses \/ User \/ \E t \in Thread : ThreadStep(t)

Spec == Init /\ [][Next]_vars

\* Every thread runs, and gets the mutex that the other one gives back again
\* and again: a decoder sleeps for 10 ms after each write.
FairSpec ==
    /\ Spec
    /\ SF_vars(Callback) /\ WF_vars(QuitCloses)
    /\ \A t \in Thread : SF_vars(ThreadStep(t))

-----------------------------------------------------------------------------
(***************************************************************************)
(* Properties                                                              *)
(***************************************************************************)

\* The types of the variables.
TypeOK ==
    /\ fill \in Int /\ mutex \in Thread \cup {NoOne, "callback"} /\ raced \in BOOLEAN
    /\ paused \in BOOLEAN /\ sdl_paused \in BOOLEAN /\ overtaken \in BOOLEAN
    /\ device_open \in BOOLEAN /\ sdl \in {"closed", "open", "closing"}
    /\ cb \in CallbackLabel /\ cb_fill \in Int
    /\ item_status \in {"STOPPED", "PLAYING", "FINISHED"}
    /\ playback_status \in {"STOPPED", "PLAYING"} /\ thread_running \in BOOLEAN
    /\ at \in [Thread -> ThreadLabel]
    /\ size \in [Thread -> Chunk \cup {0}] /\ loaded \in [Thread -> Int]
    /\ main \in EndLabel
    /\ device_open => sdl = "open"

\* How full the buffer is is counted right: what the callback or a decoder has
\* loaded of it is still so when it stores the new value, and that is never
\* more than the size or less than nothing; unless a clear, which takes no
\* mutex, has come between (ringbuffer_clear in audio_device_open and
\* audio_buffer_clear).
NoLostUpdate ==
    ~raced => /\ fill \in 0 .. Size
              /\ cb = "store" => cb_fill = fill
              /\ \A t \in Thread : at[t] = "added" => loaded[t] = fill

\* While the user has paused, the device is silent, but for somebody who had
\* made up his mind to resume it before the key was pressed (audio_set_pause,
\* and the conditions under which the decoder and the callback resume).
PauseHolds == paused => sdl_paused \/ sdl # "open" \/ overtaken

\* A decoder with something to write is not left waiting for room while nobody
\* has paused: a device that stands still has room for a chunk or is resumed
\* (the callback's thresholds against the decoder's).  After a clear that has
\* met a read it may be: what the read puts back has no sound behind it.
WriterGoesOn == \A t \in Thread :
    []<>(at[t] # "write" \/ paused \/ ~device_open \/ raced)

\* A callback that waits for the buffer to fill goes on as long as there is a
\* decoder that writes: they never wait for each other.
CallbackGoesOn == []<>(cb # "wait" \/ \A t \in Thread : at[t] \notin {"loop", "write", "added", "look"})

\* A thread that takes over gets its turn, whatever the one before is doing
\* when it is told to stop, but for one deadlock: the one before, or the one
\* before that, closes the device while the callback waits for a buffer that
\* nobody fills any more (fileplayer.c:132, audio.c:48 and audio.c:163).
TurnOrDeadlock == \A t \in Thread :
    at[t] = "takeover" ~> at[t] # "takeover" \/ (sdl = "closing" /\ cb = "wait")

\* A thread that takes over gets its turn: "if thread_running never gets false
\* this threads deadlocks here, should not happen though!" (fileplayer.c:132)
TurnComes == \A t \in Thread : at[t] = "takeover" ~> at[t] # "takeover"
=============================================================================
