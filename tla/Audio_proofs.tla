----------------------------- MODULE Audio_proofs -----------------------------
(***************************************************************************)
(* Proofs about Audio, for any sizes and any number of decoder threads.    *)
(***************************************************************************)
EXTENDS Audio, TLAPS

\* Where the callback holds the mutex.
Inside == {"check", "underrun", "paused", "resume", "read", "store"}

(* The mutex is held by whoever is between locking and unlocking it.         *)
MutexInv ==
    /\ mutex = "callback" <=> cb \in Inside
    /\ \A t \in Thread : mutex = t <=> at[t] = "added"

(* What has been loaded of fill is still so, and there is room, or enough,   *)
(* for what the store will make of it.                                       *)
FillInv ==
    ~raced => /\ fill \in 0 .. Size
              /\ cb = "store" => cb_fill = fill /\ CallLen <= fill
              /\ \A t \in Thread : at[t] = "added" => loaded[t] = fill /\ size[t] <= Size - fill

(* Those who are about to resume have seen that nobody has paused, or have   *)
(* been overtaken since.                                                     *)
PauseInv ==
    /\ PauseHolds
    /\ paused /\ AboutToResume => overtaken
    /\ device_open => sdl = "open"

(* The types the other parts rest on.                                       *)
Labels ==
    /\ mutex \in Thread \cup {NoOne, "callback"}
    /\ cb \in CallbackLabel
    /\ at \in [Thread -> ThreadLabel]
    /\ fill \in Int /\ cb_fill \in Int
    /\ size \in [Thread -> Chunk \cup {0}] /\ loaded \in [Thread -> Int]

\* The callback takes the mutex and gives it back (audio.c 36-62).
LEMMA CallbackMutex == ASSUME Labels, MutexInv, Callback PROVE MutexInv'
<1> USE ThreadAssumption DEF Labels, MutexInv, Inside, CallbackLabel
<1>1. CASE Calls
    BY <1>1 DEF Calls, buffer
<1>2. CASE Lock("locking", "check") \/ Lock("relock", "paused")
    BY <1>2 DEF Lock
<1>3. CASE LooksAtFill \/ WaitEnds \/ LooksAtPaused
    BY <1>3 DEF LooksAtFill, WaitEnds, LooksAtPaused, buffer
<1>4. CASE Underrun \/ CallbackResumes
    BY <1>4 DEF Underrun, CallbackResumes, buffer
<1>5. CASE Reads \/ Stores
    BY <1>5 DEF Reads, Stores, buffer
<1> QED
    BY <1>1, <1>2, <1>3, <1>4, <1>5 DEF Callback

\* A decoder thread holds the mutex only between writing and having written
\* (audio_fill_buffer).
LEMMA ThreadMutex == ASSUME Labels, MutexInv, NEW t \in Thread, ThreadStep(t) PROVE MutexInv'
<1> USE ThreadAssumption DEF Labels, MutexInv, ThreadLabel, Go, buffer, call
<1>1. CASE TakesOver(t) \/ KeepDevice(t) \/ ChangeDevice(t) \/ NoDevice(t) \/ CloseDevice(t)
    BY <1>1 DEF TakesOver, KeepDevice, ChangeDevice, NoDevice, CloseDevice
<1>2. CASE SDL_OpenAudio(t) \/ OpenFails(t) \/ ClearBuffer(t) \/ Hold(t) \/ Unpause(t)
    BY <1>2 DEF SDL_OpenAudio, OpenFails, ClearBuffer, Clear, Hold, Unpause
<1>3. CASE (\E c \in Chunk : Decode(t, c)) \/ TrackEnds(t) \/ LoopEnds(t)
    BY <1>3 DEF Decode, TrackEnds, LoopEnds
<1>4. CASE Write(t) \/ Added(t)
    BY <1>4 DEF Write, Added
<1>5. CASE WriteGivenUp(t) \/ LookAtDevice(t) \/ Resume(t) \/ StopSound(t)
    BY <1>5 DEF WriteGivenUp, LookAtDevice, Resume, StopSound
<1>6. CASE Release(t) \/ Tail(t) \/ Silence(t) \/ Empty(t)
    BY <1>6 DEF Release, Tail, Silence, Empty, Clear
<1> QED
    BY <1>1, <1>2, <1>3, <1>4, <1>5, <1>6 DEF ThreadStep
\* The callback keeps the types.
LEMMA CallbackLabels == ASSUME Labels, Callback PROVE Labels'
<1> USE SizeAssumption, ChunkAssumption, ThreadAssumption DEF Labels, CallbackLabel
<1>1. CASE Calls
    BY <1>1 DEF Calls, buffer, locals, device, pausing
<1>2. CASE Lock("locking", "check") \/ Lock("relock", "paused")
    BY <1>2 DEF Lock, buffer, locals, device, pausing
<1>3. CASE LooksAtFill \/ WaitEnds \/ LooksAtPaused
    BY <1>3 DEF LooksAtFill, WaitEnds, LooksAtPaused, buffer, locals, device, pausing
<1>4. CASE Underrun \/ CallbackResumes
    BY <1>4 DEF Underrun, CallbackResumes, buffer, locals, device, pausing
<1>5. CASE Reads \/ Stores
    BY <1>5 DEF Reads, Stores, buffer, locals, device, pausing
<1> QED
    BY <1>1, <1>2, <1>3, <1>4, <1>5 DEF Callback

\* So do the decoder threads.
LEMMA ThreadLabels == ASSUME Labels, NEW t \in Thread, ThreadStep(t) PROVE Labels'
<1> USE SizeAssumption, ChunkAssumption, ThreadAssumption DEF Labels, ThreadLabel
<1>1. CASE TakesOver(t) \/ KeepDevice(t) \/ ChangeDevice(t) \/ NoDevice(t) \/ CloseDevice(t)
    BY <1>1 DEF TakesOver, KeepDevice, ChangeDevice, NoDevice, CloseDevice, buffer, call, locals, Go
<1>2. CASE SDL_OpenAudio(t) \/ OpenFails(t) \/ ClearBuffer(t) \/ Hold(t) \/ Unpause(t)
  <2>1. CASE SDL_OpenAudio(t)
    BY <2>1 DEF SDL_OpenAudio, buffer, call, locals, Go
  <2>2. CASE OpenFails(t)
    BY <2>2 DEF OpenFails, buffer, call, locals, Go
  <2>3. CASE ClearBuffer(t)
    BY <2>3 DEF ClearBuffer, Clear, buffer, call, locals, Go
  <2>4. CASE Hold(t)
    BY <2>4 DEF Hold, buffer, call, locals, Go
  <2>5. CASE Unpause(t)
    BY <2>5 DEF Unpause, buffer, call, locals, Go
  <2> QED
    BY <1>2, <2>1, <2>2, <2>3, <2>4, <2>5
<1>3. CASE (\E c \in Chunk : Decode(t, c)) \/ TrackEnds(t) \/ LoopEnds(t)
    BY <1>3 DEF Decode, TrackEnds, LoopEnds, buffer, call, locals, Go
<1>4. CASE Write(t) \/ Added(t)
  <2>1. CASE Write(t)
    BY <2>1 DEF Write, buffer, call, locals, Go
  <2>2. CASE Added(t)
    BY <2>2 DEF Added, buffer, call, locals, Go
  <2> QED
    BY <1>4, <2>1, <2>2
<1>5. CASE WriteGivenUp(t) \/ LookAtDevice(t) \/ Resume(t) \/ StopSound(t)
    BY <1>5 DEF WriteGivenUp, LookAtDevice, Resume, StopSound, buffer, call, locals, Go
<1>6. CASE Release(t) \/ Tail(t) \/ Silence(t) \/ Empty(t)
  <2>1. CASE Release(t)
    BY <2>1 DEF Release, buffer, call, locals, Go
  <2>2. CASE Tail(t)
    BY <2>2 DEF Tail, buffer, call, locals, Go
  <2>3. CASE Silence(t)
    BY <2>3 DEF Silence, buffer, call, locals, Go
  <2>4. CASE Empty(t)
    BY <2>4 DEF Empty, Clear, buffer, call, locals, Go
  <2> QED
    BY <1>6, <2>1, <2>2, <2>3, <2>4
<1> QED
    BY <1>1, <1>2, <1>3, <1>4, <1>5, <1>6 DEF ThreadStep

\* A callback takes what it has found to be there.
LEMMA CallbackFill == ASSUME Labels, MutexInv, FillInv, Callback PROVE FillInv'
<1> USE SizeAssumption, ChunkAssumption, ThreadAssumption DEF Labels, MutexInv, Inside, FillInv
<1>1. CASE Calls
    BY <1>1 DEF Calls, buffer, locals, device, pausing
<1>2. CASE Lock("locking", "check") \/ Lock("relock", "paused")
    BY <1>2 DEF Lock, buffer, locals, device, pausing
<1>3. CASE LooksAtFill \/ WaitEnds \/ LooksAtPaused
    BY <1>3 DEF LooksAtFill, WaitEnds, LooksAtPaused, buffer, locals, device, pausing
<1>4. CASE Underrun \/ CallbackResumes
    BY <1>4 DEF Underrun, CallbackResumes, buffer, locals, device, pausing
<1>5. CASE Reads \/ Stores
    BY <1>5 DEF Reads, Stores, buffer, locals, device, pausing
<1> QED
    BY <1>1, <1>2, <1>3, <1>4, <1>5 DEF Callback

\* A decoder adds what it has found room for; a clear that meets nobody leaves an
\* empty buffer.
LEMMA ThreadFill == ASSUME Labels, MutexInv, FillInv, NEW t \in Thread, ThreadStep(t) PROVE FillInv'
<1> USE SizeAssumption, ChunkAssumption, ThreadAssumption DEF Labels, MutexInv, Inside, FillInv
<1>1. CASE TakesOver(t) \/ KeepDevice(t) \/ ChangeDevice(t) \/ NoDevice(t) \/ CloseDevice(t)
    BY <1>1 DEF TakesOver, KeepDevice, ChangeDevice, NoDevice, CloseDevice, buffer, call, locals, Go
<1>2. CASE SDL_OpenAudio(t) \/ OpenFails(t) \/ ClearBuffer(t) \/ Hold(t) \/ Unpause(t)
  <2>1. CASE SDL_OpenAudio(t)
    BY <2>1 DEF SDL_OpenAudio, buffer, call, locals, Go
  <2>2. CASE OpenFails(t)
    BY <2>2 DEF OpenFails, buffer, call, locals, Go
  <2>3. CASE ClearBuffer(t)
    <3>1. ~raced' => cb # "store" /\ \A u \in Thread : at[u] # "added"
        BY <2>3 DEF ClearBuffer, Clear
    <3>2. fill' = 0 /\ cb' = cb /\ at' \in [Thread -> ThreadLabel] /\ \A u \in Thread : at'[u] = "added" => at[u] = "added"
        BY <2>3 DEF ClearBuffer, Clear, call, Go, ThreadLabel
    <3>3. 0 \in 0 .. Size
        BY SizeAssumption
    <3> QED
        BY <3>1, <3>2, <3>3 DEF FillInv
  <2>4. CASE Hold(t)
    BY <2>4 DEF Hold, buffer, call, locals, Go
  <2>5. CASE Unpause(t)
    BY <2>5 DEF Unpause, buffer, call, locals, Go
  <2> QED
    BY <1>2, <2>1, <2>2, <2>3, <2>4, <2>5
<1>3. CASE (\E c \in Chunk : Decode(t, c)) \/ TrackEnds(t) \/ LoopEnds(t)
    BY <1>3 DEF Decode, TrackEnds, LoopEnds, buffer, call, locals, Go
<1>4. CASE Write(t) \/ Added(t)
  <2>1. CASE Write(t)
    BY <2>1 DEF Write, buffer, call, locals, Go
  <2>2. CASE Added(t)
    <3>1. /\ at[t] = "added" /\ mutex = t
          /\ fill' = loaded[t] + size[t] /\ at' = [at EXCEPT ![t] = "look"] /\ cb' = cb
        BY <2>2 DEF Added, call, Go
    <3>2. raced' = raced
        BY <2>2 DEF Added
    <3>3. cb # "store" /\ \A u \in Thread : at'[u] # "added"
        BY <3>1
    <3>4. ~raced => loaded[t] = fill /\ fill \in 0 .. Size /\ size[t] <= Size - fill
        BY <3>1
    <3>5. size[t] \in Nat
      <4>1. size[t] \in Chunk \cup {0}
        OBVIOUS
      <4>2. \A c \in Chunk : c \in Nat
        OBVIOUS
      <4> QED
        BY ONLY <4>1, <4>2
    <3>6. ~raced => fill' \in 0 .. Size
        BY <3>1, <3>4, <3>5
    <3> QED
        BY <3>1, <3>2, <3>3, <3>6 DEF FillInv
  <2> QED
    BY <1>4, <2>1, <2>2
<1>5. CASE WriteGivenUp(t) \/ LookAtDevice(t) \/ Resume(t) \/ StopSound(t)
    BY <1>5 DEF WriteGivenUp, LookAtDevice, Resume, StopSound, buffer, call, locals, Go
<1>6. CASE Release(t) \/ Tail(t) \/ Silence(t) \/ Empty(t)
  <2>1. CASE Release(t)
    BY <2>1 DEF Release, buffer, call, locals, Go
  <2>2. CASE Tail(t)
    BY <2>2 DEF Tail, buffer, call, locals, Go
  <2>3. CASE Silence(t)
    BY <2>3 DEF Silence, buffer, call, locals, Go
  <2>4. CASE Empty(t)
    <3>1. ~raced' => cb # "store" /\ \A u \in Thread : at[u] # "added"
        BY <2>4 DEF Empty, Clear
    <3>2. fill' = 0 /\ cb' = cb /\ at' \in [Thread -> ThreadLabel] /\ \A u \in Thread : at'[u] = "added" => at[u] = "added"
        BY <2>4 DEF Empty, Clear, call, Go, ThreadLabel
    <3>3. 0 \in 0 .. Size
        BY SizeAssumption
    <3> QED
        BY <3>1, <3>2, <3>3 DEF FillInv
  <2> QED
    BY <1>6, <2>1, <2>2, <2>3, <2>4
<1> QED
    BY <1>1, <1>2, <1>3, <1>4, <1>5, <1>6 DEF ThreadStep

\* The callback resumes when it has seen that nobody has paused.
LEMMA CallbackPause == ASSUME Labels, PauseInv, Callback PROVE PauseInv'
<1> USE ThreadAssumption DEF Labels, PauseInv, PauseHolds, AboutToResume, SDL_PauseAudio, SetPause
<1>1. CASE Calls
    BY <1>1 DEF Calls, buffer, locals, device, pausing
<1>2. CASE Lock("locking", "check") \/ Lock("relock", "paused")
    BY <1>2 DEF Lock, buffer, locals, device, pausing
<1>3. CASE LooksAtFill \/ WaitEnds \/ LooksAtPaused
    BY <1>3 DEF LooksAtFill, WaitEnds, LooksAtPaused, buffer, locals, device, pausing
<1>4. CASE Underrun \/ CallbackResumes
  <2>1. CASE Underrun
    BY <2>1 DEF Underrun, device
  <2>2. CASE CallbackResumes
    BY <2>2 DEF CallbackResumes, device
  <2> QED
    BY <1>4, <2>1, <2>2
<1>5. CASE Reads \/ Stores
    BY <1>5 DEF Reads, Stores, buffer, locals, device, pausing
<1> QED
    BY <1>1, <1>2, <1>3, <1>4, <1>5 DEF Callback

\* So does a decoder; a device that is opened is silent.
LEMMA ThreadPause == ASSUME Labels, PauseInv, NEW t \in Thread, ThreadStep(t) PROVE PauseInv'
<1> USE ThreadAssumption DEF Labels, PauseInv, PauseHolds, AboutToResume, SDL_PauseAudio, SetPause
<1>1. CASE TakesOver(t) \/ KeepDevice(t) \/ ChangeDevice(t) \/ NoDevice(t) \/ CloseDevice(t)
  <2>1. CASE TakesOver(t)
    BY <2>1 DEF TakesOver, buffer, call, locals, Go, device, pausing, DeviceCloses, MayResume
  <2>2. CASE KeepDevice(t)
    BY <2>2 DEF KeepDevice, buffer, call, locals, Go, device, pausing, DeviceCloses, MayResume
  <2>3. CASE ChangeDevice(t)
    BY <2>3 DEF ChangeDevice, buffer, call, locals, Go, device, pausing, DeviceCloses, MayResume
  <2>4. CASE NoDevice(t)
    BY <2>4 DEF NoDevice, buffer, call, locals, Go, device, pausing, DeviceCloses, MayResume
  <2>5. CASE CloseDevice(t)
    BY <2>5 DEF CloseDevice, buffer, call, locals, Go, device, pausing, DeviceCloses, MayResume
  <2> QED
    BY <1>1, <2>1, <2>2, <2>3, <2>4, <2>5
<1>2. CASE SDL_OpenAudio(t) \/ OpenFails(t) \/ ClearBuffer(t) \/ Hold(t) \/ Unpause(t)
  <2>1. CASE SDL_OpenAudio(t)
    BY <2>1 DEF SDL_OpenAudio, buffer, call, locals, Go, device, pausing, DeviceCloses, MayResume
  <2>2. CASE OpenFails(t)
    BY <2>2 DEF OpenFails, buffer, call, locals, Go, device, pausing, DeviceCloses, MayResume
  <2>3. CASE ClearBuffer(t)
    BY <2>3 DEF ClearBuffer, Clear, buffer, call, locals, Go, device, pausing, DeviceCloses, MayResume
  <2>4. CASE Hold(t)
    BY <2>4 DEF Hold, buffer, call, locals, Go, device, pausing, DeviceCloses, MayResume
  <2>5. CASE Unpause(t)
    BY <2>5 DEF Unpause, buffer, call, locals, Go, device, pausing, DeviceCloses, MayResume
  <2> QED
    BY <1>2, <2>1, <2>2, <2>3, <2>4, <2>5
<1>3. CASE (\E c \in Chunk : Decode(t, c)) \/ TrackEnds(t) \/ LoopEnds(t)
  <2>1. CASE \E c \in Chunk : Decode(t, c)
    BY <2>1 DEF Decode, buffer, call, locals, Go, device, pausing, DeviceCloses, MayResume
  <2>2. CASE TrackEnds(t)
    BY <2>2 DEF TrackEnds, buffer, call, locals, Go, device, pausing, DeviceCloses, MayResume
  <2>3. CASE LoopEnds(t)
    BY <2>3 DEF LoopEnds, buffer, call, locals, Go, device, pausing, DeviceCloses, MayResume
  <2> QED
    BY <1>3, <2>1, <2>2, <2>3
<1>4. CASE Write(t) \/ Added(t)
    BY <1>4 DEF Write, Added, buffer, call, locals, Go, device, pausing, DeviceCloses, MayResume
<1>5. CASE WriteGivenUp(t) \/ LookAtDevice(t) \/ Resume(t) \/ StopSound(t)
  <2>1. CASE WriteGivenUp(t)
    BY <2>1 DEF WriteGivenUp, buffer, call, locals, Go, device, pausing, DeviceCloses, MayResume
  <2>2. CASE LookAtDevice(t)
    BY <2>2 DEF LookAtDevice, buffer, call, locals, Go, device, pausing, DeviceCloses, MayResume
  <2>3. CASE Resume(t)
    BY <2>3 DEF Resume, buffer, call, locals, Go, device, pausing, DeviceCloses, MayResume
  <2>4. CASE StopSound(t)
    BY <2>4 DEF StopSound, buffer, call, locals, Go, device, pausing, DeviceCloses, MayResume
  <2> QED
    BY <1>5, <2>1, <2>2, <2>3, <2>4
<1>6. CASE Release(t) \/ Tail(t) \/ Silence(t) \/ Empty(t)
  <2>1. CASE Release(t)
    BY <2>1 DEF Release, buffer, call, locals, Go, device, pausing, DeviceCloses, MayResume
  <2>2. CASE Tail(t)
    BY <2>2 DEF Tail, buffer, call, locals, Go, device, pausing, DeviceCloses, MayResume
  <2>3. CASE Silence(t)
    BY <2>3 DEF Silence, buffer, call, locals, Go, device, pausing, DeviceCloses, MayResume
  <2>4. CASE Empty(t)
    BY <2>4 DEF Empty, Clear, buffer, call, locals, Go, device, pausing, DeviceCloses, MayResume
  <2> QED
    BY <1>6, <2>1, <2>2, <2>3, <2>4
<1> QED
    BY <1>1, <1>2, <1>3, <1>4, <1>5, <1>6 DEF ThreadStep


\* The user and the end of the program do not touch the buffer.
LEMMA OthersParts ==
    ASSUME Labels, MutexInv, FillInv, User \/ QuitCloses
    PROVE  Labels' /\ MutexInv' /\ FillInv'
<1> USE ThreadAssumption DEF Labels, MutexInv, Inside, FillInv, ThreadLabel, Go, buffer, call, locals
<1>1. CASE Stop \/ PauseKey \/ Quit
    BY <1>1 DEF Stop, PauseKey, Quit
<1>2. CASE QuitCloses
    BY <1>2 DEF QuitCloses
<1>3. ASSUME NEW t \in Thread, Play(t) PROVE Labels' /\ MutexInv' /\ FillInv'
    BY <1>3 DEF Play
<1> QED
    BY <1>1, <1>2, <1>3 DEF User

\* The pause key, and the device that closes at the end.
LEMMA OthersPause == ASSUME Labels, PauseInv, User \/ QuitCloses PROVE PauseInv'
<1> USE ThreadAssumption
    DEF Labels, PauseInv, PauseHolds, AboutToResume, SDL_PauseAudio, SetPause,
        ThreadLabel, Go, device, pausing, call, DeviceCloses
<1>1. CASE Stop
    BY <1>1 DEF Stop
<1>2. CASE PauseKey
    BY <1>2 DEF PauseKey
<1>3. CASE Quit
    BY <1>3 DEF Quit
<1>4. CASE QuitCloses
    BY <1>4 DEF QuitCloses
<1>5. ASSUME NEW t \in Thread, Play(t) PROVE PauseInv'
    BY <1>5 DEF Play
<1> QED
    BY <1>1, <1>2, <1>3, <1>4, <1>5 DEF User

(* The flags and the states with names.                                      *)
Flags ==
    /\ raced \in BOOLEAN /\ paused \in BOOLEAN /\ sdl_paused \in BOOLEAN /\ overtaken \in BOOLEAN
    /\ device_open \in BOOLEAN /\ thread_running \in BOOLEAN

Names ==
    /\ sdl \in {"closed", "open", "closing"}
    /\ item_status \in {"STOPPED", "PLAYING", "FINISHED"}
    /\ playback_status \in {"STOPPED", "PLAYING"}
    /\ main \in EndLabel

\* The callback sets no flag to anything else than true or false.
LEMMA CallbackFlags == ASSUME Flags, Names, Callback PROVE Flags' /\ Names'
<1> USE DEF Flags, Names, buffer, device, pausing, status, SDL_PauseAudio
<1>1. CASE Calls \/ Reads \/ Stores
    BY <1>1 DEF Calls, Reads, Stores
<1>2. CASE Lock("locking", "check") \/ Lock("relock", "paused")
    BY <1>2 DEF Lock
<1>3. CASE LooksAtFill \/ WaitEnds \/ LooksAtPaused
    BY <1>3 DEF LooksAtFill, WaitEnds, LooksAtPaused
<1>4. CASE Underrun
    BY <1>4 DEF Underrun
<1>5. CASE CallbackResumes
    BY <1>5 DEF CallbackResumes
<1> QED
    BY <1>1, <1>2, <1>3, <1>4, <1>5 DEF Callback

\* Nor do the decoder threads.
LEMMA ThreadFlags ==
    ASSUME Flags, Names, NEW t \in Thread, ThreadStep(t)
    PROVE  Flags' /\ Names'
<1> USE DEF Flags, Names, buffer, device, pausing, status, SDL_PauseAudio, SetPause
<1>1. CASE TakesOver(t)
    BY <1>1 DEF TakesOver
<1>2. CASE KeepDevice(t)
    BY <1>2 DEF KeepDevice
<1>3. CASE ChangeDevice(t)
    BY <1>3 DEF ChangeDevice
<1>4. CASE NoDevice(t)
    BY <1>4 DEF NoDevice
<1>5. CASE CloseDevice(t)
    BY <1>5 DEF CloseDevice, DeviceCloses
<1>6. CASE SDL_OpenAudio(t)
    BY <1>6 DEF SDL_OpenAudio
<1>7. CASE OpenFails(t)
    BY <1>7 DEF OpenFails
<1>8. CASE ClearBuffer(t)
    BY <1>8 DEF ClearBuffer, Clear
<1>9. CASE Hold(t)
    BY <1>9 DEF Hold
<1>10. CASE Unpause(t)
    BY <1>10 DEF Unpause
<1>11. CASE (\E c \in Chunk : Decode(t, c))
    BY <1>11 DEF Decode
<1>12. CASE TrackEnds(t)
    BY <1>12 DEF TrackEnds
<1>13. CASE LoopEnds(t)
    BY <1>13 DEF LoopEnds
<1>14. CASE Write(t)
    BY <1>14 DEF Write
<1>15. CASE Added(t)
    BY <1>15 DEF Added
<1>16. CASE WriteGivenUp(t)
    BY <1>16 DEF WriteGivenUp
<1>17. CASE LookAtDevice(t)
    BY <1>17 DEF LookAtDevice
<1>18. CASE Resume(t)
    BY <1>18 DEF Resume
<1>19. CASE StopSound(t)
    BY <1>19 DEF StopSound
<1>20. CASE Release(t)
    BY <1>20 DEF Release
<1>21. CASE Tail(t)
    BY <1>21 DEF Tail
<1>22. CASE Silence(t)
    BY <1>22 DEF Silence
<1>23. CASE Empty(t)
    BY <1>23 DEF Empty, Clear
<1> QED
    BY <1>1, <1>2, <1>3, <1>4, <1>5, <1>6, <1>7, <1>8, <1>9, <1>10, <1>11, <1>12, <1>13, <1>14, <1>15, <1>16, <1>17, <1>18, <1>19, <1>20, <1>21, <1>22, <1>23
       DEF ThreadStep

\* Nor does the user.
LEMMA OthersFlags == ASSUME Flags, Names, User \/ QuitCloses PROVE Flags' /\ Names'
<1> USE DEF Flags, Names, buffer, device, pausing, status, SDL_PauseAudio, SetPause, EndLabel
<1>1. CASE Stop
    BY <1>1 DEF Stop
<1>2. CASE PauseKey
    BY <1>2 DEF PauseKey
<1>3. CASE Quit
    BY <1>3 DEF Quit
<1>4. CASE QuitCloses
    BY <1>4 DEF QuitCloses, DeviceCloses
<1>5. ASSUME NEW t \in Thread, Play(t) PROVE Flags' /\ Names'
    BY <1>5 DEF Play
<1> QED
    BY <1>1, <1>2, <1>3, <1>4, <1>5 DEF User

\* The inductive invariant.
Inv == Labels /\ MutexInv /\ FillInv /\ PauseInv /\ Flags /\ Names

\* Before the first track the device is closed and the buffer is empty.
LEMMA InitInv == Init => Inv
<1> SUFFICES ASSUME Init PROVE Inv
    OBVIOUS
<1> USE DEF Init
<1>1. Labels
    BY DEF Labels, CallbackLabel, ThreadLabel
<1>2. MutexInv
    BY ThreadAssumption DEF MutexInv, Inside
<1>3. FillInv
    BY SizeAssumption DEF FillInv
<1>4. PauseInv
    BY DEF PauseInv, PauseHolds, AboutToResume
<1>5. Flags /\ Names
    BY DEF Flags, Names, EndLabel
<1> QED
    BY <1>1, <1>2, <1>3, <1>4, <1>5 DEF Inv

\* Every step keeps the invariant.
LEMMA NextInv == ASSUME Inv, [Next]_vars PROVE Inv'
<1> USE DEF Inv
<1>1. CASE Callback
    BY <1>1, CallbackLabels, CallbackMutex, CallbackFill, CallbackPause, CallbackFlags
<1>2. CASE \E t \in Thread : ThreadStep(t)
    BY <1>2, ThreadLabels, ThreadMutex, ThreadFill, ThreadPause, ThreadFlags
<1>3. CASE User \/ QuitCloses
    BY <1>3, OthersParts, OthersPause, OthersFlags
<1>4. CASE UNCHANGED vars
  <2> USE <1>4 DEF vars, buffer, device, pausing, call, status, locals
  <2>1. Labels' /\ MutexInv' /\ FillInv'
    BY DEF Labels, MutexInv, FillInv
  <2>2. PauseInv'
    BY DEF PauseInv, PauseHolds, AboutToResume
  <2>3. Flags' /\ Names'
    BY DEF Flags, Names
  <2> QED
    BY <2>1, <2>2, <2>3
<1> QED
    BY <1>1, <1>2, <1>3, <1>4 DEF Next

\* The invariant holds throughout.
THEOREM Invariant == Spec => []Inv
<1>1. Init => Inv
    BY InitInv
<1>2. Inv /\ [Next]_vars => Inv'
    BY NextInv
<1> QED
    BY <1>1, <1>2, PTL DEF Spec

-----------------------------------------------------------------------------
(* The audio output keeps its types, and a device the program takes for open *)
(* is one SDL has open (device_open of audio.c).                             *)
THEOREM TypeCorrect == Spec => []TypeOK
<1>1. Inv => TypeOK
  <2> SUFFICES ASSUME Inv PROVE TypeOK
    OBVIOUS
  <2> USE DEF Inv
  <2>1. /\ fill \in Int /\ mutex \in Thread \cup {NoOne, "callback"}
        /\ cb \in CallbackLabel /\ cb_fill \in Int
        /\ at \in [Thread -> ThreadLabel]
        /\ size \in [Thread -> Chunk \cup {0}] /\ loaded \in [Thread -> Int]
    BY DEF Labels
  <2>2. Flags /\ Names /\ (device_open => sdl = "open")
    BY DEF PauseInv
  <2> QED
    BY <2>1, <2>2 DEF TypeOK, Flags, Names
<1> QED
    BY <1>1, Invariant, PTL

(* The fill of the buffer is counted right, for any sizes of callback, chunk *)
(* and buffer and any number of decoder threads, unless a clear without the  *)
(* mutex has met a read or a write.                                          *)
THEOREM NothingMiscounted == Spec => []NoLostUpdate
<1>1. Inv => NoLostUpdate
    BY DEF Inv, FillInv, NoLostUpdate
<1> QED
    BY <1>1, Invariant, PTL

(* A pause the user has asked for is silence, but for somebody who had made  *)
(* up his mind to resume before.                                             *)
THEOREM PauseAlwaysHolds == Spec => []PauseHolds
<1>1. Inv => PauseHolds
    BY DEF Inv, PauseInv
<1> QED
    BY <1>1, Invariant, PTL

-----------------------------------------------------------------------------
(* What WriterGoesOn and CallbackGoesOn rest on.                             *)

\* From the claim of thread_running to its release.
Claims(t) == at[t] \notin {"idle", "takeover", "tail", "silence", "empty"}

\* The callback has stopped the device and will look whether to start it again.
Pending == cb \in {"wait", "relock", "paused", "resume"}

(* A decoder for whose chunk there is no room while nobody has paused finds  *)
(* a device that runs, or a callback that has stopped it and goes on; it and *)
(* a callback that waits for sound are never both without what they need.    *)
SomebodyDrains ==
    /\ \A t \in Thread :
         /\ at[t] = "write" /\ item_status = "PLAYING" /\ size[t] > Size - fill
         /\ device_open /\ ~paused /\ ~raced
         => (sdl = "open" /\ ~sdl_paused) \/ Pending
    /\ \A t \in Thread :
         at[t] = "write" /\ cb = "wait" => Enough \/ size[t] <= Size - fill

(* One thread at a time has claimed thread_running, and a track that plays   *)
(* is one that was asked for.                                                *)
ClaimInv ==
    /\ \A t \in Thread : Claims(t) => thread_running
    /\ \A t, u \in Thread : Claims(t) /\ Claims(u) => t = u
    /\ item_status = "PLAYING" => playback_status = "PLAYING"

(* A track starts on an empty buffer, and a device that stands still though  *)
(* nobody has paused and the callback has no plans has room for any chunk:   *)
(* with more in the buffer the decoder would have started it.                *)
StandInv ==
    ~raced =>
        /\ \A t \in Thread : at[t] \in {"hold", "play", "hold_again"} => fill = 0
        /\ device_open /\ ~paused /\ sdl_paused /\ ~Pending /\ item_status = "PLAYING" =>
             \A t \in Thread : at[t] \in {"loop", "write"} => fill <= Half

\* A thread claims thread_running when nobody has it, and keeps it until its
\* release (fileplayer.c 132-262).
LEMMA ThreadClaims ==
    ASSUME Inv, ClaimInv, NEW t \in Thread, ThreadStep(t)
    PROVE  ClaimInv'
<1> DEFINE Free == {"idle", "takeover", "tail", "silence", "empty"}
<1> USE DEF Inv, Labels, Flags
<1>1. CASE TakesOver(t)
  <2>1. /\ ~thread_running /\ thread_running' /\ playback_status' = "PLAYING"
        /\ \E l \in {"open", "release"} : at' = [at EXCEPT ![t] = l]
    BY <1>1 DEF TakesOver, Go
  <2>2. \A u \in Thread : ~Claims(u)
    BY <2>1 DEF ClaimInv
  <2> QED
    BY <2>1, <2>2 DEF ClaimInv, Claims
<1>2. CASE Release(t)
  <2>1. at[t] = "release" /\ at' = [at EXCEPT ![t] = "tail"]
    BY <1>2 DEF Release, Go
  <2>2. \A u \in Thread : ~Claims(u)'
    <3>1. Claims(t)
        BY <2>1 DEF Claims
    <3>2. \A u \in Thread : Claims(u) => u = t
        BY <3>1 DEF ClaimInv
    <3> QED
        BY <2>1, <3>2 DEF Claims
  <2>3. UNCHANGED <<item_status, playback_status>>
    BY <1>2 DEF Release
  <2> QED
    BY <2>2, <2>3 DEF ClaimInv
<1>3. CASE ~TakesOver(t) /\ ~Release(t)
  <2> DEFINE Quiet(l) == /\ at' = [at EXCEPT ![t] = l]
                         /\ l \notin Free => at[t] \notin Free
                         /\ UNCHANGED thread_running
                         /\ item_status' = "PLAYING" => UNCHANGED <<item_status, playback_status>>
  <2>1. \E l \in ThreadLabel : Quiet(l)
    <3> USE DEF ThreadLabel, Go, status
    <3>1. CASE KeepDevice(t)
        BY <3>1 DEF KeepDevice
    <3>2. CASE ChangeDevice(t)
        BY <3>2 DEF ChangeDevice
    <3>3. CASE NoDevice(t)
        BY <3>3 DEF NoDevice
    <3>4. CASE CloseDevice(t)
        BY <3>4 DEF CloseDevice
    <3>5. CASE SDL_OpenAudio(t)
        BY <3>5 DEF SDL_OpenAudio
    <3>6. CASE OpenFails(t)
        BY <3>6 DEF OpenFails
    <3>7. CASE ClearBuffer(t)
        BY <3>7 DEF ClearBuffer
    <3>8. CASE Hold(t)
        BY <3>8 DEF Hold
    <3>9. CASE Unpause(t)
        BY <3>9 DEF Unpause
    <3>10. CASE \E c \in Chunk : Decode(t, c)
        BY <3>10 DEF Decode
    <3>11. CASE TrackEnds(t)
        BY <3>11 DEF TrackEnds
    <3>12. CASE LoopEnds(t)
        BY <3>12 DEF LoopEnds
    <3>13. CASE Write(t)
        BY <3>13 DEF Write
    <3>14. CASE Added(t)
        BY <3>14 DEF Added
    <3>15. CASE WriteGivenUp(t)
        BY <3>15 DEF WriteGivenUp
    <3>16. CASE LookAtDevice(t)
        BY <3>16 DEF LookAtDevice
    <3>17. CASE Resume(t)
        BY <3>17 DEF Resume
    <3>18. CASE StopSound(t)
        BY <3>18 DEF StopSound
    <3>19. CASE Tail(t)
        BY <3>19 DEF Tail
    <3>20. CASE Silence(t)
        BY <3>20 DEF Silence
    <3>21. CASE Empty(t)
        BY <3>21 DEF Empty
    <3> QED
        BY <1>3, <3>1, <3>2, <3>3, <3>4, <3>5, <3>6, <3>7, <3>8, <3>9, <3>10, <3>11, <3>12, <3>13, <3>14, <3>15, <3>16, <3>17, <3>18, <3>19, <3>20, <3>21 DEF ThreadStep
  <2>2. PICK l \in ThreadLabel : Quiet(l)
    BY <2>1
  <2>3. \A u \in Thread : Claims(u)' => Claims(u)
    BY <2>2 DEF Claims
  <2> QED
    BY <2>2, <2>3 DEF ClaimInv
<1> QED
    BY <1>1, <1>2, <1>3

\* Nobody else touches thread_running.
LEMMA OthersClaims ==
    ASSUME Inv, ClaimInv, Callback \/ User \/ QuitCloses
    PROVE  ClaimInv'
<1> USE DEF Inv, Labels
<1>1. ASSUME UNCHANGED <<at, thread_running>>,
             item_status' = "PLAYING" => UNCHANGED <<item_status, playback_status>>
      PROVE  ClaimInv'
    BY <1>1 DEF ClaimInv, Claims
<1>2. CASE Callback
  <2>1. UNCHANGED <<at, thread_running, item_status, playback_status>>
    BY <1>2 DEF Callback, Calls, Lock, LooksAtFill, Underrun, WaitEnds, LooksAtPaused,
           CallbackResumes, Reads, Stores, status
  <2> QED
    BY <1>1, <2>1
<1>3. CASE Stop \/ PauseKey \/ Quit \/ QuitCloses
  <2>1. /\ UNCHANGED <<at, thread_running>>
        /\ item_status' = "PLAYING" => UNCHANGED <<item_status, playback_status>>
    BY <1>3 DEF Stop, PauseKey, Quit, QuitCloses, status
  <2> QED
    BY <1>1, <2>1
<1>4. ASSUME NEW t \in Thread, Play(t) PROVE ClaimInv'
  <2>1. /\ at[t] = "idle" /\ at' = [at EXCEPT ![t] = "takeover"]
        /\ UNCHANGED thread_running /\ item_status' = "STOPPED"
    BY <1>4 DEF Play, Go
  <2>2. \A u \in Thread : Claims(u)' => Claims(u)
    BY <2>1 DEF Claims
  <2> QED
    BY <2>1, <2>2 DEF ClaimInv
<1> QED
    BY <1>2, <1>3, <1>4 DEF User

\* The callback takes from the buffer, stops the device with a plan to start it
\* again, and gives the plan up only when it has, or when somebody has paused.
LEMMA CallbackStands == ASSUME Inv, StandInv, Callback PROVE StandInv'
<1> USE SizeAssumption DEF Inv, Labels, FillInv, Flags, Names, PauseInv, StandInv, Pending, SDL_PauseAudio,
       buffer, device, pausing, status
<1>1. CASE Calls
    BY <1>1 DEF Calls
<1>2. CASE Lock("locking", "check") \/ Lock("relock", "paused")
    BY <1>2 DEF Lock
<1>3. CASE LooksAtFill
    BY <1>3 DEF LooksAtFill
<1>4. CASE Underrun
    BY <1>4 DEF Underrun
<1>5. CASE WaitEnds
    BY <1>5 DEF WaitEnds
<1>6. CASE LooksAtPaused
    BY <1>6 DEF LooksAtPaused
<1>7. CASE CallbackResumes
    BY <1>7 DEF CallbackResumes
<1>8. CASE Reads
    BY <1>8 DEF Reads
<1>9. CASE Stores
    BY <1>9 DEF Stores
<1> QED
    BY <1>1, <1>2, <1>3, <1>4, <1>5, <1>6, <1>7, <1>8, <1>9 DEF Callback

\* The decoder that plays is the only one to fill the buffer, and looks at it
\* before it goes on (fileplayer.c 205-239).
LEMMA ThreadStands == ASSUME Inv, ClaimInv, StandInv, NEW t \in Thread, ThreadStep(t) PROVE StandInv'
<1> USE SizeAssumption DEF Inv, Labels, FillInv, Flags, Names, PauseInv, StandInv, Pending, SDL_PauseAudio,
       SetPause, Clear, Go, buffer, device, pausing, call, status, ThreadLabel
<1>a. \A u \in Thread : Claims(t) /\ u # t => ~Claims(u)
    BY DEF ClaimInv
<1>b. Claims(t) => \A u \in Thread : u # t => at[u] \in {"idle", "takeover", "tail", "silence", "empty"}
    BY <1>a DEF Claims
<1>1. CASE TakesOver(t)
    BY <1>1, <1>b DEF TakesOver, Claims, ClaimInv
<1>2. CASE KeepDevice(t)
    BY <1>2, <1>b DEF KeepDevice, Claims
<1>3. CASE ChangeDevice(t)
    BY <1>3, <1>b DEF ChangeDevice, Claims
<1>4. CASE NoDevice(t)
    BY <1>4, <1>b DEF NoDevice, Claims
<1>5. CASE CloseDevice(t)
    BY <1>5, <1>b DEF CloseDevice, Claims, DeviceCloses
<1>6. CASE SDL_OpenAudio(t)
    BY <1>6, <1>b DEF SDL_OpenAudio, Claims
<1>7. CASE OpenFails(t)
    BY <1>7, <1>b DEF OpenFails, Claims
<1>8. CASE ClearBuffer(t)
    BY <1>8, <1>b DEF ClearBuffer, Claims
<1>9. CASE Hold(t)
    BY <1>9, <1>b DEF Hold, Claims
<1>10. CASE Unpause(t)
    BY <1>10, <1>b DEF Unpause, Claims
<1>11. CASE \E c \in Chunk : Decode(t, c)
    BY <1>11, <1>b DEF Decode, Claims
<1>12. CASE TrackEnds(t)
    BY <1>12, <1>b DEF TrackEnds, Claims
<1>13. CASE LoopEnds(t)
    BY <1>13, <1>b DEF LoopEnds, Claims
<1>14. CASE Write(t)
    BY <1>14, <1>b DEF Write, Claims
<1>15. CASE Added(t)
    BY <1>15, <1>b DEF Added, Claims
<1>16. CASE WriteGivenUp(t)
    BY <1>16, <1>b DEF WriteGivenUp, Claims
<1>17. CASE LookAtDevice(t)
    BY <1>17, <1>b DEF LookAtDevice, Claims, MayResume, ClaimInv
<1>18. CASE Resume(t)
    BY <1>18, <1>b DEF Resume, Claims
<1>19. CASE StopSound(t)
    BY <1>19, <1>b DEF StopSound, Claims
<1>20. CASE Release(t)
    BY <1>20, <1>b DEF Release, Claims
<1>21. CASE Tail(t)
    BY <1>21, <1>b DEF Tail, Claims, ClaimInv
<1>22. CASE Silence(t)
    BY <1>22, <1>b DEF Silence, Claims
<1>23. CASE Empty(t)
    BY <1>23, <1>b DEF Empty, Claims, ClaimInv
<1> QED
    BY <1>1, <1>2, <1>3, <1>4, <1>5, <1>6, <1>7, <1>8, <1>9, <1>10, <1>11, <1>12, <1>13, <1>14, <1>15, <1>16, <1>17, <1>18, <1>19, <1>20, <1>21, <1>22, <1>23 DEF ThreadStep

\* A key that ends a pause starts the device; the device is closed when nobody
\* plays.
LEMMA OthersStand == ASSUME Inv, ClaimInv, StandInv, User \/ QuitCloses PROVE StandInv'
<1> USE SizeAssumption DEF Inv, Labels, FillInv, Flags, Names, PauseInv, StandInv, Pending, SDL_PauseAudio,
       SetPause, buffer, device, pausing, call, status
<1>1. CASE Stop
    BY <1>1 DEF Stop
<1>2. CASE PauseKey
    BY <1>2 DEF PauseKey
<1>3. CASE Quit
    BY <1>3 DEF Quit
<1>4. CASE QuitCloses
    BY <1>4 DEF QuitCloses, DeviceCloses
<1>5. ASSUME NEW t \in Thread, Play(t) PROVE StandInv'
    BY <1>5 DEF Play, Go
<1> QED
    BY <1>1, <1>2, <1>3, <1>4, <1>5 DEF User

\* The two parts hold throughout.
LEMMA DrainInvariance == Spec => [](ClaimInv /\ StandInv)
<1>1. Init => ClaimInv /\ StandInv
    BY DEF Init, ClaimInv, Claims, StandInv
<1>2. Inv /\ ClaimInv /\ StandInv /\ [Next]_vars => (ClaimInv /\ StandInv)'
  <2> SUFFICES ASSUME Inv, ClaimInv, StandInv, [Next]_vars PROVE ClaimInv' /\ StandInv'
    OBVIOUS
  <2>1. CASE UNCHANGED vars
    BY <2>1 DEF vars, buffer, device, pausing, call, status, ClaimInv, Claims, StandInv, Pending
  <2>2. CASE Callback
    BY <2>2, OthersClaims, CallbackStands
  <2>3. CASE \E t \in Thread : ThreadStep(t)
    BY <2>3, ThreadClaims, ThreadStands
  <2>4. CASE User \/ QuitCloses
    BY <2>4, OthersClaims, OthersStand
  <2> QED
    BY <2>1, <2>2, <2>3, <2>4 DEF Next
<1> QED
    BY <1>1, <1>2, Invariant, PTL DEF Spec

(* The decoder and the callback are never both waiting, whatever the sizes   *)
(* of the buffer, the chunks and what a callback takes: with no room for the *)
(* next chunk, and nobody having paused, the device runs or the callback is  *)
(* about to start it.                                                        *)
THEOREM SomebodyAlwaysDrains == Spec => []SomebodyDrains
<1>1. Inv /\ ClaimInv /\ StandInv => SomebodyDrains
  <2> SUFFICES ASSUME Inv, StandInv, NEW t \in Thread, at[t] = "write"
               PROVE  /\ /\ item_status = "PLAYING" /\ size[t] > Size - fill
                         /\ device_open /\ ~paused /\ ~raced
                         => (sdl = "open" /\ ~sdl_paused) \/ Pending
                      /\ cb = "wait" => Enough \/ size[t] <= Size - fill
    BY DEF SomebodyDrains
  <2>1. size[t] \in 0 .. Half /\ fill \in Int /\ Half \in Nat /\ Size = 2 * Half
    <3>1. size[t] \in Chunk \cup {0} /\ fill \in Int
        BY DEF Inv, Labels
    <3>2. Half \in Nat /\ Size = 2 * Half
        BY SizeAssumption
    <3>3. Chunk \subseteq 1 .. Half
        BY ChunkAssumption
    <3>4. size[t] \in 1 .. Half \/ size[t] = 0
        BY ONLY <3>1, <3>3
    <3>5. size[t] \in 0 .. Half
        BY ONLY <3>2, <3>4
    <3> QED
        BY ONLY <3>1, <3>2, <3>5
  <2>2. size[t] > Size - fill => fill > Half
    BY <2>1
  <2>3. device_open => sdl = "open"
    BY DEF Inv, PauseInv
  <2>4. ~raced /\ device_open /\ ~paused /\ sdl_paused /\ ~Pending /\ item_status = "PLAYING" => fill <= Half
    BY DEF StandInv
  <2>5. Enough \/ size[t] <= Size - fill
    BY <2>1 DEF Enough
  <2>6. ~(fill > Half /\ fill <= Half)
    BY <2>1
  <2> QED
    BY <2>2, <2>3, <2>4, <2>5, <2>6
<1> QED
    BY <1>1, Invariant, DrainInvariance, PTL
=============================================================================
