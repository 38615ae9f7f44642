# A verification project for the JLime embedded applications

The repository collects the applications that the JLime distribution ported to
small handhelds: a music player, MPlayer, a terminal, games, an offline
encyclopedia. They are separate programs and most are third-party code. The
project is about the parts whose correctness hangs on concurrency, or on
pointers and counts kept up by hand:

* the music player Gmu (`src/gmu-0.7.0`), whose core is modelled as a whole;
* of MPlayer (`src/MPlayer-1.0rc2-kai_for_nn`) the stream cache,
  `stream/cache2.c`, two processes on one ring without a lock, and the thread
  pool of its codecs, `libavcodec/pthread.c`.

The other programs are listed in `PROJECT.json` with the reason why they are
not modelled. Paths below are relative to `src/gmu-0.7.0/src` or to MPlayer's
directory; `README.txt` is the manual in `src/gmu-0.7.0`.

## The system

Gmu runs at least three threads, and almost everything they share is an
unprotected global.

| thread | what it runs | what it writes |
|---|---|---|
| main | the loop of `core.c` (723-805), then the shutdown (807-870) | everything in `core.c`; starts decoder threads; the only one that pops events |
| frontend | `start_player` of `frontends/sdl/sdl.c` | calls `gmu_core_*` directly, so it changes the playlist, the file player, the commands and the timer in its own thread |
| decoder | `decode_audio_thread` of `fileplayer.c`, detached, a new one per track | the three status variables, the ring buffer, the audio device, the track information |
| SDL audio | `fill_audio` of `audio.c` | takes bytes out of the ring buffer, stops and resumes the device |
| add-directory | `playlist.c` (142-228) | adds to the playlist |

| part | state | operations | what makes it right |
|---|---|---|---|
| ring buffer, `ringbuffer.c` | bytes, two pointers, fill level | write, read, clear | first in, first out, at every position of the wrap |
| audio, `audio.c` | the ring buffer, pause, the device, a mutex | open, close, pause, fill, clear, callback | callback and decoder never wait for one another; the fill level is counted right; a pause is silence |
| event queue, `eventqueue.c` | a linked list under a mutex | push, is-waiting (no lock), pop, clear | every event delivered once, in order; what was seen waiting can be popped |
| playlist, `playlist.c` | a doubly linked list with counts, a queue threaded through the same entries, a current entry, play mode, random marks | add, insert, delete, clear, enqueue, next, previous, select | no entry lost, no pointer into freed memory, counts that count what is linked, play order as the manual says |
| file player, `fileplayer.c` | `playback_status`, `item_status`, `thread_running`, the static parameters | play, stop, seek, the decoder thread | what is shown as playing has a thread, no wait for nobody, a stop that is final, playback that goes on |
| core, `core.c` | commands for the main loop, `player_status`, the shutdown timer, `gmu_running` | the loop, the wrappers the frontends call | no command or event that ends the program is lost; the timer fires when and only when it should |
| SDL frontend | views, selection, a quit flag | keys, event callback | leaves when told; its selection is in the list |
| log frontend, `frontends/log.c` | a copy of the previous track's information | event callback | a track is logged once, and only if it played long enough |
| track information, `trackinfo.c` | strings and an `updated` flag | set, read-and-clear | no update lost |
| loaders, configuration, M3U, directories, tags, images, hardware | lists filled once, files | reading and writing | parsing and I/O; not modelled |
| stream cache, `stream/cache2.c` | a ring of sectors in shared memory, four positions and an end flag | the filler's `cache_fill`; the reader's prefill, read, seek, reset, close | the reader gets the sectors of the file, in order, and its end at the end; no wait for ever |
| thread pool, `libavcodec/pthread.c` | job counter and count, a done flag, one mutex, two conditions | init, execute, free; the workers | each job of a call runs once, the call returns when the last has ended, no wakeup lost |

How they interact. The frontend calls the core. The core either acts at once in
the frontend's thread (`gmu_core_next`, `gmu_core_stop`) or leaves a command for
the main loop (`gmu_core_play_pl_item`, `gmu_core_play_file`). Main loop and
frontend call `file_player_play_file`, which sets the statuses and creates a
decoder thread, which waits for its predecessor to give up `thread_running`,
opens the device and writes to the ring buffer that SDL's callback empties. The
main loop polls the statuses, goes to the next track on `FINISHED`, and delivers
the events that anybody has pushed to the frontends' callbacks. A quit goes
round: frontend → `GMU_QUIT` and `gmu_running = 0` → main loop → callbacks → the
frontend's `quit` flag → `pthread_join`. The two parts of MPlayer meet neither
Gmu nor one another: demuxers read through the cache, codecs decode through the
pool.

What is hard: unlocked reads that are used later (`eventqueue.c` 80, `core.c`
728, 743, `stream/cache2.c` 76), values written one after the other that belong
together (command and parameter, the two statuses, timer and remaining time, the
filler's positions), a new thread that overwrites what a caller has written
meanwhile (`fileplayer.c` 136), counts and pointers kept up by hand
(`playlist.c`, the pool's `current_job`), waits without a timeout
(`fileplayer.c` 132, `audio.c` 48, `core.c` 807, the pool's conditions).
`PROJECT.json` lists the hazards one by one with their lines and the properties
that watch them.

## The modules

| module | models | its actions are |
|---|---|---|
| `ByteFifo` | a bounded FIFO of bytes (abstract) | a write, a read, a clear |
| `RingBuffer` | `ringbuffer.c` | the check at the head of a call, each byte copied, the return |
| `EventFifo` | a FIFO of events (abstract) | a push, a pop |
| `EventQueue` | `eventqueue.c` and its use in `core.c` 795-796 | the statements of push and pop one by one |
| `TrackList` | what a playlist is for its user (abstract) | add, insert, enqueue, remove, advance, ... on sequences |
| `Playlist` | `playlist.c` and the operations of `core.c`, `sdl.c`, `plbrowser.c` on it | one operation of the user or the main loop each |
| `FilePlayer` | `fileplayer.c`, with its two callers | each access to a shared variable |
| `Core` | the loop and the end of `core.c`, and the frontend's thread | each access to a global of `core.c` that the other thread can write |
| `Audio` | `audio.c` with the decoder loop of `fileplayer.c`, SDL's callback, the pause key and the end | each access to the fill level, the flags and the device |
| `FileStream` | a file with a place in it (abstract) | a read, a read at the end, a seek, a reset |
| `StreamCache` | `stream/cache2.c` and what `stream/stream.c` does around it | each access of filler and reader to a variable the other one uses |
| `ParallelFor` | a parallel loop (abstract) | a call, the begin and end of a job, the return |
| `ThreadPool` | `libavcodec/pthread.c` | one critical section each |

`RingBuffer`, `EventQueue`, `Playlist`, `StreamCache` and `ThreadPool` are shown to
implement their abstract modules with a refinement mapping that an `INSTANCE ...
WITH` states. For `Playlist` the mapping takes the sequence of entries that a walk
meets, `Sequence`; there is at most one. The `MC` modules hold the instances and symmetries for TLC, the `_proofs` modules the theorems.
Definitions that begin with the comment "A fault" are wrong versions of the
definition after them. They are in no next-state relation: they document which
mistake a property notices.

Correspondence worth knowing before reading a module:

* `RingBuffer`: `buffer_fill` changes for the whole chunk before the first byte
  is copied, so in the middle of a call the bytes between the pointers are
  `Stored`, not `buffer_fill`. Audio's mutex lets one call run at a time.
* `EventQueue`: `queued` is a history variable, the nodes in the order they were
  linked. `malloc` may fail. `event_queue_clear` and the teardown are single
  threaded and left out.
* `Playlist`: the structure is one record `pl`. An operator with a parameter `p`
  is a function of `playlist.c`, an action is a whole handler, one at a time.
  `malloc`'s uninitialised `queue_pos` is a nondeterministic choice. `Scenario`
  selects which operations the user has, so that a defect found with one of them
  does not hide what holds without it. `playlist.c` draws a random track as
  `rand() / (RAND_MAX / l)` (477), which is 0 to l inclusive; where the list has no
  entry of that number the walk ends at NULL and the program with it. `Drawn` has
  the entries it can end at, and the draw that ends the program has no step. The
  same goes for an index that has become stale: `PlayItem` plays any linked entry,
  or nothing for an index just past the end (`core.c` 730), and has no step for one
  further behind, which `playlist_get_entry` follows through NULL (622-624). What
  the properties and theorems of `Playlist` say is said of runs up to there.
* `FilePlayer`: callers and threads interleave at every access to a shared
  variable, and the main loop goes on as soon as it sees `FINISHED`, with the old
  thread still in its last statements. `Keys` are the keys the user has besides the
  first request to play. `asked`, `latest` and `apart` are history variables:
  `apart` says that the last request met nothing that can undo it, a request to
  play no stop in progress, a stop no call in progress and no thread that is
  starting.
* `Core`: the playlist is its length, and nobody edits it; the file player is one
  status, the event queue the number of `GMU_QUIT` in it. `PAUSED` has a decoder
  thread that may have to wait, `SILENT` is what a file without a decoder leaves
  behind: playing, with no thread. A stop stops at once here. `minute` says that 60
  seconds have passed since `start`; `armed` is a history variable: the timer has
  been set. `remaining_time--` is a load and a store. A stop between
  `playlist_next` and the look at the current track (`core.c` 84-85) leaves
  `file_player_play_file` a NULL file name: `Crash`. The frontend runs before the
  loop does: if it leaves at once (no key map, no skin), `gmu_running = 1` at `core.c`
  722 can undo its `gmu_core_quit`, and the program goes on without it. The
  module has this behaviour; `EverybodyLeaves` speaks of a program whose loop has
  been told to end.
* `Audio`: of the ring buffer only the fill level, in units of 16 kB; a load and
  a store of it are two steps, since `ringbuffer_clear` takes no mutex. `raced`
  records that a clear has met a read or a write in progress, `overtaken` that a
  pause has met somebody who had already looked and was about to resume. SDL 1.2
  is external: a paused device does not call back, and closing it waits for the
  callback. How one decoder thread hands over to the next is one step here, and
  at most one waits for its turn (`FilePlayer` has the details).
  `ChunkAssumption` says that a decoder never returns more than half of the ring
  buffer in one piece: mpg123, which may return 64 kB at once, is at that limit.
* `StreamCache`: the unit is the sector. The filler's stores become visible in
  the order of the source. `raced` records the moments in which a lock would have
  been needed: a seek in the middle of a fill that has planned with the old
  position, or the look at `eof` after the look at `max_filepos`. A key can
  interrupt the prefill. On a stream that cannot seek the reader goes back only
  to what is kept, since going back further drops the cache and continues with
  wrong positions (a hazard with a note). Forward the filler's stream is taken to
  follow: a network stream without a seek, and a seek that fails, do not
  (`stream/stream.c` 321-332), with the same result.
* `ThreadPool`: everything is under `current_job_lock`, so a critical section is
  a step; `job` is a history variable. Creating a thread may fail. Spurious
  wakeups, which POSIX allows and against which the code has no loop, are left
  out: with them a call can return early.

## The runs

Twelve runs; those marked V are expected to end with a violation and are
findings of the next section.

| run | shows | bounds |
|---|---|---|
| `ring_buffer` | pointers and fill level agree in the middle of every call; the buffer is a bounded FIFO | 3 bytes of 2 values, chunks of 0 to 4: every position of the wrap, full, empty and both refusals |
| `event_queue` | list in order, a pop after a positive look finds an event, FIFO | 2 threads, 3 nodes, 2 events: lists of length 0, 1 and more, no memory, every interleaving |
| `playlist` | no dangling pointer, no entry lost, no more entries counted than linked, the random draw ends, queue positions; implements `TrackList` | 3 entries: first, middle and last; all play modes; counts up to `MaxPlayed` = 3 |
| `playlist_insert` | no dangling pointer also with insertions in the middle and a failing `getcwd` | 3 entries, and a list that is full with 2 (`PLAYLIST_MAX_LENGTH`) |
| `file_player` | what is shown as playing has a thread; whoever waits waits for a thread that will reset the flag; a stop that meets nothing is final; playback goes on; all threads end once nobody calls | 2 threads, 2 files, one without decoder, 2 callers, any interleaving |
| `core` | the timer fires when left alone, never if not set, after the last track if so set and every file has a decoder; once the program is to end, both threads do | 1 track, a timer of 2 minutes, up to 2 `GMU_QUIT` waiting |
| `core_no_decoder` V | a last track without a decoder: the program that was to end after it does not | as above |
| `audio` | the fill level is counted right; a pause holds; writer and callback do not wait for each other; a new track gets its turn but for one deadlock | 2 decoder threads, buffer 8, underrun below 2, resume at 4, callback takes 1, chunks of 2 and 4 |
| `audio_turn` V | that deadlock | as above |
| `stream_cache` | the window holds what it says, the reader copies the sector it asked for, the end is the end; implements `FileStream`; every call returns | ring of 6 sectors of which 3 are kept, file of 8, fills of up to 2, seeks to 1 and 7, a stream that seeks and one with a seek limit above the buffer, a prefill above the buffer |
| `stream_cache_eof` V | the end reported before the last sectors, without a single seek | ring of 8, file of 9 |
| `thread_pool` | two workers never have the same job; implements `ParallelFor`; calls and the end of the codec return | 3 workers, calls of 1 to 5 jobs, any number of calls, a failing `pthread_create` at any place |

Five more configurations belong to the counterexamples of the next section:
`playlist_insert_last.cfg`, `playlist_random.cfg` and `playlist_remove.cfg` for
`MCPlaylist`, `file_player_stop.cfg` and `file_player_early.cfg` for
`MCFilePlayer`; for instance `tlc -config playlist_remove.cfg MCPlaylist`.

Why the bounds are enough. Ring buffer and list code distinguishes empty, one,
more, full, first, middle and last: three slots or entries have them all. Races
in file player, queue and core are between two threads; a third adds no new
pair. `MaxPlayed` only stops counting: the count matters up to the number of
entries. The list is full at 3 or 2 entries instead of 9999. `Room` in `FilePlayer` lets a call begin only when a thread is left for
it, so with two threads one caller's track can overtake the other's, but three
generations at a time are not explored (the proofs are for any number). With one
track `core` has every branch: no track current (after a file, or at the start)
and then the first, the last one and none to follow, an index in the list and one
past its end. Of two `GMU_QUIT` that wait the second changes nothing. Two minutes are needed so that one decrement is not the last. The audio sizes are
those of the code (128 kB, 32 kB, 64 kB) in units of 16 kB; a callback takes
much less than 16 kB, and a unit of its own is the coarsest step that still
passes every threshold. The file is longer than the ring, so the offset moves and
the slots are used again; the end of the file falls inside a fill; seeks go
behind the window, into it and ahead of it. With 3 workers and up to 5 jobs a
call has fewer jobs than workers, as many, and more; a worker can come late from
one call into the next.

Fairness. `file_player` assumes that every decoder thread is scheduled (weak
fairness of its steps), and that a track ends: `CalledOff` is not about a player
that stays paused, nor about the deadlock of the audio device that `audio_turn`
shows. `core` assumes weak fairness of the main loop and of a call of the frontend
that has begun, that a track ends unless it is paused (then it may) and time passes, and that a frontend whose `quit` flag is set
leaves: SDL's timer sends it ten events a second, so `SDL_WaitEvent` returns, and
after `SDL_QuitSubSystem` it returns 0. Nobody has to press a key: `Press` has
no fairness. `audio` assumes strong fairness of the callback and of each decoder
thread, because both need a mutex that the other one takes again and again and a
decoder sleeps for 10 ms after each write, and weak fairness of the last step of
the program's end. `stream_cache` assumes that both processes run (weak
fairness); the reader's calls have none. `thread_pool` assumes weak fairness of
the caller once it is inside a function and of each worker; nobody has to call.
The other runs check safety only. `core`, `audio`, `stream_cache` and
`thread_pool` disable the deadlock check because what they model is meant to end
(and `audio` may end in the deadlock below, which `TurnOrDeadlock` singles out).

## What the violations say

* `core_no_decoder`: `file_player_play_file` looks for a decoder only after it has
  set `playback_status` to `PLAYING` and `item_status` to `STOPPED`; without one it
  starts no thread (`fileplayer.c` 291-293), nobody sets `FINISHED`, and the main
  loop never asks for the next track. With the timer at -1 and such a track at the
  end of the list, `core.c` 749 is not reached, against `core.c` 430-431 and
  `README.txt` 638. In the middle of the list playback stands still in the same
  way, against the comment at `fileplayer.c` 37.
* `audio_turn`: a decoder thread that opens a file with another sample rate
  closes the device (`audio.c` 163), and `SDL_CloseAudio` waits for the callback.
  If an underrun has come, the callback waits (`audio.c` 48) for a buffer that
  only this thread could fill. `thread_running` is never reset, and the comment at
  `fileplayer.c` 132 ("should not happen though!") is wrong.
* `stream_cache_eof`: the reader finds the ring empty and looks at `eof` in a
  second step (`stream/cache2.c` 76-78). Between the two the filler can put in the
  last sectors and find the end of the file. The reader then reports the end with
  sectors left; line 4 says that no locking is required.

Counterexamples of Gmu whose configurations are kept but are not in the list of
runs:

* `playlist_insert_last.cfg` (`NothingLost`): `playlist.c` 246 leaves `pl->last`
  where it was when the insertion, described in `README.txt` 128, is behind the
  last entry; the next addition loses the inserted one.
* `playlist_random.cfg` (`RandomPlaysAll`): `playlist.c` 536 counts a track each
  time it becomes current, played before or not; `README.txt` 525 promises all
  tracks.
* `playlist_remove.cfg` (`NothingDangling`): `playlist.c` 364 frees an entry that
  the queue or the current pointer may still lead to; `README.txt` 182-184
  describes both keys without a restriction.
* `file_player_stop.cfg` (`StopStops`): `fileplayer.c` 136 sets both statuses
  without looking whether a stop has come since the thread was created, against
  the comment at `fileplayer.c` 45 and `README.txt` 116.
* `file_player_early.cfg` (`PlayedOut`): without a single key the old thread's last
  `FINISHED` (`fileplayer.c` 260) overwrites the `PLAYING` of its successor, and the
  main loop goes on to the track after it at once, against the comment at
  `fileplayer.c` 37. Two decoders at a time, and a file opened with the decoder of
  another, can follow from the same crossing.

Other things the models show that no document promises to exclude are hazards
with a note. The ones worth a maintainer's look: an unlocked `ringbuffer_clear`
can leave a stale fill level behind it, after which a decoder may wait for room
that never comes on a stopped device (`audio.c` 93); a pool whose creation of
threads fails half way may never be freed, since a worker that has not taken its
number when `avcodec_thread_free` runs never looks at `done` (`pthread.c` 159); a
track shorter than half of the ring buffer is never heard (`fileplayer.c` 234); a
random draw can end at NULL (`playlist.c` 477); a stop during a change of track can
make `file_player_play_file` read a NULL file name (`core.c` 85); a player that is
paused when the program is told to end, with `player_status` at `STOPPED`, keeps it
from ending (`core.c` 807).

## What is proved

All for every value of the constants, from the named assumptions on them, with
TLAPS (`Spec` is the specification without fairness).

* `RingBuffer_proofs`: `PointersAlwaysAgree`, `RingBufferImplementsFifo`. The
  invariant adds to `PointersAgree` what a call in progress has reserved
  (`CallInv`), for the refinement also what it has copied so far (`CopyInv`); a
  step of a call is a stutter of the abstract buffer until it returns.
* `EventQueue_proofs`: `ListAlwaysInOrder`, `PopAlwaysFindsEvent`,
  `EventQueueImplementsFifo`, for any number of threads and nodes. The
  invariant says who is in the critical section, that a node held by a thread is
  not in the list, and which of the pointers lag behind at which statement. The
  unlocked look is safe because only the main loop takes entries out.
* `Playlist_proofs`: `TypeCorrect`, whatever the user does; `NothingIsLost`,
  `RetryAlwaysEnds` and `CountedAreAlwaysLinked`, under `Sound`: no insertion behind
  the last entry and no failing `getcwd`, the two operations that break the list.
  The last of them makes every index below the length safe to walk to, and says
  nothing of the index `length` that a random draw can have. The invariant `ListInv` says that `next` and `prev` are inverse on the
  live entries, that both walks meet exactly these, that `length` counts them, and
  that at least as many are counted as played as are marked.
  `PositionsAlwaysRight` is proved under `Careful`, which adds that no entry in use
  is removed, and if nothing is inserted either. Its invariant `QueueInv` speaks
  only of what a walk of the queue meets, because
  entries that have left it keep a stale link; `Numbered` adds that the walk is
  straight and counts what lies before each entry. The lemmas `AppendReach`,
  `UnlinkReach` and `TailReach` say what each change of the links does to every
  walk; without induction over the list, they follow from a walk being the least
  set that is closed under the links.
  `NothingEverDangles` needs none of `ListInv`, which a failing `getcwd` breaks: the
  entry is linked and not counted, and when the count says one, a deletion takes
  the rest off the list. It is proved under `Prudent`, no insertion behind the last
  entry and no removal of what is in use. Its invariant `Owned` lets entries be
  lost, but says that the links of neighbours agree in the lost chains too, so
  none leads from there to an entry that is freed. `Moved` sums up what playing,
  stopping, `playlist_next` and `playlist_prev` can change.
  `PlaylistImplementsTrackList`, under `Careful`: list, queue, current track, marks
  and mode change as `TrackList` says, in every operation. The invariant `Stands`
  names the two sequences that the links stand for, and says that the number of a
  queued track is its place, which makes `entry_enqueue` take the right branch.
  `SequenceIs` shows that there is no other such sequence; `WalkAppend`,
  `WalkInsert`, `WalkRemove` and `WalkTail` say what each change of the links makes
  of it, one lemma per operation (`AddStands`, `DeleteStands`, ...) applies them,
  and `NextIs` compares `playlist_next` with what may follow in each play mode. In
  place of an induction along the list, `UpFrom` counts: places closed under "the
  next one" have all places behind the first.
* `FilePlayer_proofs`: `TypeCorrect`, `PlayingAlwaysHasDecoder`,
  `WaitAlwaysHasReason`, `StopAlwaysHolds` and `PlaybackAlwaysGoesOn`, all in every
  interleaving, for any number of threads and any set of files and keys. The
  invariants follow the flag and `item_status` through the labels of the threads.
  `StopInv`: after a stop that met nobody, nobody is on the way to play, and the
  main loop does not go on at a `FINISHED` that is still written, because
  `playback_status` stays `STOPPED`. `GoesOn`: where `item_status` is `STOPPED`, a
  call is in `play_file` or a thread is before its own `PLAYING`.
* `Core_proofs`: `TypeCorrect` and `NeverFiresUnarmed`. As long as the timer has
  not been set it is 0, one minute remains, and the main loop is not about to
  store a decremented value; `NeverUnarmed` alone is not inductive.
  `TheyLeaveTogether`: an end is announced before it is decided, and the main loop
  waits for the decoder and the frontend only when the frontend has been told; if
  the bound `MaxQuits` leaves room for one event, without which the model cannot
  press the key. A program that has crashed (`core.c` 85) tells nobody. `ZeroIsNeverMissed`: the time left is above 0, or 0 where the test
  for 0 comes next, however the frontend sets it between the load and the store.
* `Audio_proofs`: `TypeCorrect`, `NothingMiscounted` and `PauseAlwaysHolds`, for
  any sizes and any number of decoder threads. The invariant says between which
  labels the mutex is held (`MutexInv`), what a loaded fill level is good for
  until a clear comes (`FillInv`), and that whoever is about to resume either has
  looked at a player that was not paused or has been overtaken (`PauseInv`).
  `SomebodyAlwaysDrains`: while a decoder waits for room, the device runs or the
  callback that starts it is under way, and the two never wait for each other. It
  needs that at most one thread has claimed `thread_running` (`ClaimInv`).
* `StreamCache_proofs`: `TypeCorrect`, `WindowAlwaysIntact`,
  `AlwaysCopiesRightData`, `EofAlwaysTrue` and `CacheImplementsFile`, for any
  sizes of ring, file and limits. The invariant relates the positions at each of
  the filler's labels (`PlacesInv`), what a fill in progress has added
  (`WindowInv`), what the reader may still rely on in what it has loaded
  (`ReaderInv`) and what `eof` says (`EndInv`). The lemma `PieceFits` is the
  arithmetic of the ring: a fill never reaches the sectors that are kept. It
  needs the clamped seek limit, which is the reason for the clamp.
  `AlwaysSleepsFed`: a filler that sleeps for want of room has left the reader what
  it waits for, and the prefill its minimum; that needs the clamp of the minimum.
* `ThreadPool_proofs`: `TypeCorrect`, `AlwaysAlone` and
  `PoolImplementsParallelFor`, for any number of workers and jobs. The heart is
  `CountInv`: how many workers are busy is a function of `current_job` alone, so
  the count that wakes the caller is reached exactly when the last job has ended;
  `JobInv` says who has, or will take, each job. `NoWakeupIsLost`:
  `avcodec_thread_init` and `_execute` wait for a worker that is awake and has yet
  to signal, and `_free`, if every worker was created, for workers that are awake.

Model-checked only: liveness (`CalledOff`, `TimerFires`, `LastTrackFires`,
`EverybodyLeaves`, `WriterGoesOn`, `CallbackGoesOn`, `TurnOrDeadlock`,
`CallsReturn`, `FreeReturns`), since the prover handles neither fairness nor
`ENABLED`. What is safety in it is proved: `ZeroIsNeverMissed` for `TimerFires`,
`TheyLeaveTogether` for `EverybodyLeaves`, `SomebodyAlwaysDrains` for `WriterGoesOn`
and `CallbackGoesOn`, `AlwaysSleepsFed` and `NoWakeupIsLost` for `CallsReturn` of cache
and pool and for `FreeReturns`: whoever waits has somebody who can still move, for
every value of the constants. That this somebody does move is left to the runs.
Every invariant that a passing run checks is a theorem.

## What is not modelled

Of Gmu: track information, the log frontend, the frontend's views and selection,
seeking, volume, the configuration, what is saved at the end, the add-directory
thread inside a playlist operation, loaders, decoders, tags, images, character
sets and hardware. In `Playlist` an operation is atomic though most of the code
takes no lock: its races are hazards with a note. Memory is sequentially
consistent in all modules; what a compiler or a processor may do with
unsynchronised accesses beyond reordering at the statements is not considered.

Of MPlayer everything but the two parts above: the cache's status display, reads
shorter than a sector and the stream drivers behind it, the codecs that use the
pool, and the rest of the player, which runs in one thread and consists of
demuxers, codecs and outputs, most of them pure functions on bytes.

The other programs of the repository are games, viewers, editors and libraries
with a single thread: event loops, drawing, parsing and arithmetic. Most lines
of the repository are codecs, emulated processors, tables and drawing code. They
have no protocol between parts to state properties about, and are better served
by tests on data.

## Plan

1. Done: ring buffer, event queue, playlist, file player, core, audio output,
   stream cache, thread pool; proofs of every invariant that a passing run
   checks, and of the five refinements.
2. `LogBot`: events from the main loop, playtime and the status suppressed at
   `core.c` 747; abstract: each track played long enough is logged once.
3. `TrackInfo` flags (`updated`, `meta_data_loaded`), with `TRACK_CHANGE`: the
   last update is always announced.
4. `Playlist` with the add-directory thread: `playlist_clear` and
   `playlist_add_item` at the level of their critical sections.
5. `Core`: agreement of `player_status` and the file player in settled states,
   and the play mode that is saved and restored.
