-------------------------- MODULE FilePlayer_proofs --------------------------
(***************************************************************************)
(* Proofs about FilePlayer, for any number of threads and tracks and in    *)
(* every interleaving of threads and callers: what the statuses say of the *)
(* threads, that a stop holds, and that playback goes on.                  *)
(***************************************************************************)
EXTENDS FilePlayer, TLAPS

(* The definitions of the labels, and of how much of the state is left alone. *)
USE DEF Starting, Inside, Ending, Label, InPlay, InStop, CallLabel, Caller, Status

-----------------------------------------------------------------------------
(* Typing *)

\* The static variables of fileplayer.c start with values of their types.
LEMMA TypeInit == Init => TypeOK
BY DEF Init, TypeOK

\* Every step of a decoder thread keeps the types.
LEMMA TypeDecode ==
    ASSUME TypeOK, NEW t \in Thread, Decode(t) PROVE TypeOK'
<1>1. CASE Start(t)       BY <1>1 DEF Start, Step, TypeOK, statuses, params, threads, callers
<1>2. CASE Check(t)       BY <1>2 DEF Check, Step, TypeOK, statuses, params, threads, callers
<1>3. CASE StopOther(t)   BY <1>3 DEF StopOther, Step, TypeOK, statuses, params, threads, callers
<1>4. CASE Wait(t)        BY <1>4 DEF Wait, Step, TypeOK, statuses, params, threads, callers
<1>5. CASE Claim(t)       BY <1>5 DEF Claim, Step, TypeOK, statuses, params, threads, callers
<1>6. CASE SetItem(t)     BY <1>6 DEF SetItem, Step, TypeOK, statuses, params, threads, callers
<1>7. CASE SetPlayback(t) BY <1>7 DEF SetPlayback, Step, TypeOK, statuses, params, threads, callers
<1>8. CASE OpenFile(t)    BY <1>8 DEF OpenFile, Step, TypeOK, statuses, params, threads, callers
<1>9. CASE Loop(t)        BY <1>9 DEF Loop, Step, TypeOK, statuses, params, threads, callers
<1>10. CASE Ended(t)      BY <1>10 DEF Ended, Step, TypeOK, statuses, params, threads, callers
<1>11. CASE Leave(t)      BY <1>11 DEF Leave, Step, TypeOK, statuses, params, threads, callers
<1>12. CASE Tail(t)       BY <1>12 DEF Tail, Step, TypeOK, statuses, params, threads, callers
<1>13. CASE Finish(t)     BY <1>13 DEF Finish, Step, TypeOK, statuses, params, threads, callers
<1> QED BY <1>1, <1>2, <1>3, <1>4, <1>5, <1>6, <1>7, <1>8, <1>9, <1>10, <1>11, <1>12, <1>13 DEF Decode

\* Every step of file_player_play_file and file_player_stop_playback keeps them.
LEMMA TypeCall ==
    ASSUME TypeOK, NEW c \in Caller, Request(c) \/ RequestStop(c) \/ Play(c) \/ Stop(c) PROVE TypeOK'
<1>1. CASE Request(c)         BY <1>1 DEF Request, Go, TypeOK, statuses, params, threads, callers
<1>2. CASE RequestStop(c)     BY <1>2 DEF RequestStop, AskStop, Go, TypeOK, statuses, params, threads, callers
<1>3. CASE Name(c)            BY <1>3 DEF Name, Go, TypeOK, statuses, params, threads, callers
<1>4. CASE ResetItem(c)       BY <1>4 DEF ResetItem, Go, TypeOK, statuses, params, threads, callers
<1>5. CASE PromisePlayback(c) BY <1>5 DEF PromisePlayback, Go, TypeOK, statuses, params, threads, callers
<1>6. CASE ChooseDecoder(c)   BY <1>6 DEF ChooseDecoder, Go, TypeOK, statuses, params, threads, callers
<1>7. CASE Create(c)          BY <1>7 DEF Create, Go, Step, TypeOK, statuses, params, threads, callers
<1>8. CASE StopPlayback(c)    BY <1>8 DEF StopPlayback, Go, TypeOK, statuses, params, threads, callers
<1>9. CASE StopItem(c)        BY <1>9 DEF StopItem, Go, TypeOK, statuses, params, threads, callers
<1> QED BY <1>1, <1>2, <1>3, <1>4, <1>5, <1>6, <1>7, <1>8, <1>9 DEF Play, Stop

\* So do the two halves of the main loop's condition.
LEMMA TypeLook ==
    ASSUME TypeOK, Look \/ LookOn PROVE TypeOK'
<1>1. CASE Look   BY <1>1 DEF Look, Go, TypeOK, statuses, params, threads, callers
<1>2. CASE LookOn BY <1>2 DEF LookOn, AskStop, Go, TypeOK, statuses, params, threads, callers
<1> QED BY <1>1, <1>2

\* Every step keeps the types.
LEMMA TypeStep == TypeOK /\ [Next]_vars => TypeOK'
<1> SUFFICES ASSUME TypeOK, [Next]_vars PROVE TypeOK'
    OBVIOUS
<1>1. CASE UNCHANGED vars
    BY <1>1 DEF vars, statuses, params, threads, callers, TypeOK
<1> QED BY <1>1, TypeDecode, TypeCall, TypeLook DEF Next

(* Type correctness of the statuses, the parameters and the two threads of *)
(* control of fileplayer.c: in particular that item_status is never PAUSED, *)
(* which its users do not look for.                                        *)
THEOREM TypeCorrect == Spec => []TypeOK
BY TypeInit, TypeStep, PTL DEF Spec

-----------------------------------------------------------------------------
(* What every interleaving keeps *)

Shown == PlayingHasDecoder /\ WaitHasReason

\* What is shown as playing, and the flag, have their thread after every step of a
\* thread.
LEMMA ShownDecode ==
    ASSUME TypeOK, Shown, NEW t \in Thread, Decode(t) PROVE Shown'
<1> USE DEF TypeOK, Shown, PlayingHasDecoder, WaitHasReason, Step, statuses, params, threads, callers
<1>1. CASE Start(t)       BY <1>1 DEF Start
<1>2. CASE Check(t)       BY <1>2 DEF Check
<1>3. CASE StopOther(t)   BY <1>3 DEF StopOther
<1>4. CASE Wait(t)        BY <1>4 DEF Wait
<1>5. CASE Claim(t)       BY <1>5 DEF Claim
<1>6. CASE SetItem(t)     BY <1>6 DEF SetItem
<1>7. CASE SetPlayback(t) BY <1>7 DEF SetPlayback
<1>8. CASE OpenFile(t)    BY <1>8 DEF OpenFile
<1>9. CASE Loop(t)        BY <1>9 DEF Loop
<1>10. CASE Ended(t)      BY <1>10 DEF Ended
<1>11. CASE Leave(t)      BY <1>11 DEF Leave
<1>12. CASE Tail(t)       BY <1>12 DEF Tail
<1>13. CASE Finish(t)     BY <1>13 DEF Finish
<1> QED BY <1>1, <1>2, <1>3, <1>4, <1>5, <1>6, <1>7, <1>8, <1>9, <1>10, <1>11, <1>12, <1>13 DEF Decode

\* A call never sets an item to playing and never touches the flag.
LEMMA ShownCall ==
    ASSUME TypeOK, Shown, NEW c \in Caller, Request(c) \/ RequestStop(c) \/ Play(c) \/ Stop(c)
    PROVE  Shown'
<1> USE DEF Shown, PlayingHasDecoder, WaitHasReason, statuses, params, threads, callers
<1>1. CASE Request(c)         BY <1>1 DEF Request
<1>2. CASE RequestStop(c)     BY <1>2 DEF RequestStop
<1>3. CASE Name(c)            BY <1>3 DEF Name
<1>4. CASE ResetItem(c)       BY <1>4 DEF ResetItem
<1>5. CASE PromisePlayback(c) BY <1>5 DEF PromisePlayback
<1>6. CASE ChooseDecoder(c)   BY <1>6 DEF ChooseDecoder
<1>7. CASE Create(c)          BY <1>7 DEF Create, Step, TypeOK
<1>8. CASE StopPlayback(c)    BY <1>8 DEF StopPlayback
<1>9. CASE StopItem(c)        BY <1>9 DEF StopItem
<1> QED BY <1>1, <1>2, <1>3, <1>4, <1>5, <1>6, <1>7, <1>8, <1>9 DEF Play, Stop

\* Every step keeps both.
LEMMA ShownStep == TypeOK /\ Shown /\ [Next]_vars => Shown'
<1> SUFFICES ASSUME TypeOK, Shown, [Next]_vars PROVE Shown'
    OBVIOUS
<1>1. CASE UNCHANGED vars \/ Look \/ LookOn
    BY <1>1 DEF vars, statuses, params, threads, callers, Shown, PlayingHasDecoder, WaitHasReason,
                Look, LookOn
<1> QED BY <1>1, ShownDecode, ShownCall DEF Next

\* What is shown as playing, and the flag, have their thread in every behaviour.
LEMMA AlwaysShown == Spec => []Shown
<1>1. Init => Shown
    BY DEF Init, Shown, PlayingHasDecoder, WaitHasReason
<1> QED BY <1>1, ShownStep, TypeCorrect, PTL DEF Spec

(* Whatever the order in which decoder threads, main loop and frontend     *)
(* write item_status (fileplayer.c, 84, 131, 136, 221, 226, 260, 275), a   *)
(* track is shown as playing only while a thread is there to end it.       *)
THEOREM PlayingAlwaysHasDecoder == Spec => []PlayingHasDecoder
BY AlwaysShown, PTL DEF Shown

(* The waits for thread_running (fileplayer.c, 132, and core.c, 807) have  *)
(* somebody to wait for: the flag is never left behind by a thread that    *)
(* has passed line 256.                                                    *)
THEOREM WaitAlwaysHasReason == Spec => []WaitHasReason
BY AlwaysShown, PTL DEF Shown
-----------------------------------------------------------------------------
(* A stop holds *)

\* While a stop has met nobody, no thread and no call is on its way to play, and
\* what the stop has written stays written.
StopInv ==
    asked = "stop" /\ apart =>
        /\ \A t \in Thread : at[t] \notin Starting
        /\ \A c \in Caller : call[c] \notin InPlay
        /\ (\E c \in Caller : call[c] = "stop2") => playback_status = "STOPPED"
        /\ NoCall => playback_status = "STOPPED" /\ item_status # "PLAYING"

\* A decoder thread that is not starting writes FINISHED at most.
LEMMA StopDecode ==
    ASSUME TypeOK, StopInv, NEW t \in Thread, Decode(t) PROVE StopInv'
<1> USE DEF TypeOK, StopInv, NoCall, Step, statuses, params, threads, callers
<1>1. CASE Start(t)            BY <1>1 DEF Start
<1>2. CASE Check(t)            BY <1>2 DEF Check
<1>3. CASE StopOther(t)        BY <1>3 DEF StopOther
<1>4. CASE Wait(t)             BY <1>4 DEF Wait
<1>5. CASE Claim(t)            BY <1>5 DEF Claim
<1>6. CASE SetItem(t)          BY <1>6 DEF SetItem
<1>7. CASE SetPlayback(t)      BY <1>7 DEF SetPlayback
<1>8. CASE OpenFile(t)         BY <1>8 DEF OpenFile
<1>9. CASE Loop(t)             BY <1>9 DEF Loop
<1>10. CASE Ended(t)           BY <1>10 DEF Ended
<1>11. CASE Leave(t)           BY <1>11 DEF Leave
<1>12. CASE Tail(t)            BY <1>12 DEF Tail
<1>13. CASE Finish(t)          BY <1>13 DEF Finish
<1> QED BY <1>1, <1>2, <1>3, <1>4, <1>5, <1>6, <1>7, <1>8, <1>9, <1>10, <1>11, <1>12, <1>13 DEF Decode

\* A request to play ends the matter, and so does a stop that meets anything.
LEMMA StopCall ==
    ASSUME TypeOK, StopInv, NEW c \in Caller, Request(c) \/ RequestStop(c) \/ Play(c) \/ Stop(c)
    PROVE  StopInv'
<1> USE DEF TypeOK, StopInv, NoCall, Go, statuses, params, threads, callers
<1>1. CASE Request(c)          BY <1>1 DEF Request
<1>2. CASE RequestStop(c)      BY <1>2 DEF RequestStop, AskStop
<1>3. CASE Name(c)             BY <1>3 DEF Name
<1>4. CASE ResetItem(c)        BY <1>4 DEF ResetItem
<1>5. CASE PromisePlayback(c)  BY <1>5 DEF PromisePlayback
<1>6. CASE ChooseDecoder(c)    BY <1>6 DEF ChooseDecoder
<1>7. CASE Create(c)           BY <1>7 DEF Create, Step
<1>8. CASE StopPlayback(c)     BY <1>8 DEF StopPlayback
<1>9. CASE StopItem(c)         BY <1>9 DEF StopItem
<1> QED BY <1>1, <1>2, <1>3, <1>4, <1>5, <1>6, <1>7, <1>8, <1>9 DEF Play, Stop

\* The main loop does not go on where the stop has been written; where it is
\* only about to be, the two have met.
LEMMA StopLook ==
    ASSUME TypeOK, StopInv, Look \/ LookOn PROVE StopInv'
<1> USE DEF TypeOK, StopInv, NoCall, Go, statuses, params, threads, callers
<1>1. CASE Look   BY <1>1 DEF Look
<1>2. CASE LookOn BY <1>2 DEF LookOn, AskStop, Stopping
<1> QED BY <1>1, <1>2

\* Every step keeps it.
LEMMA StopStep == TypeOK /\ StopInv /\ [Next]_vars => StopInv'
<1> SUFFICES ASSUME TypeOK, StopInv, [Next]_vars PROVE StopInv'
    OBVIOUS
<1>1. CASE UNCHANGED vars
    BY <1>1 DEF vars, statuses, params, threads, callers, StopInv, NoCall
<1> QED BY <1>1, StopDecode, StopCall, StopLook DEF Next

(* A stop in the middle of a track is final, for any number of threads and *)
(* whatever the decoder thread and the main loop are about to do: the      *)
(* late FINISHED of lines 221, 226 and 260 does not set the player going   *)
(* again (core.c, 743).                                                    *)
THEOREM StopAlwaysHolds == Spec => []StopHolds
<1>1. Init => StopInv
    BY DEF Init, StopInv
<1>2. StopInv => StopHolds
    BY DEF StopInv, StopHolds, StopStops
<1> QED BY <1>1, <1>2, StopStep, TypeCorrect, PTL DEF Spec

-----------------------------------------------------------------------------
(* Playback goes on *)

\* A thread that has not yet shown its track as playing.
Waiting == {"start", "check", "stop", "wait", "claim", "status"}

\* While a request to play has met no stop: playback is promised or about to be,
\* and an item that has been reset has a call or a thread that will set it.
GoesOn ==
    asked = "play" /\ apart =>
        /\ ~Stopping
        /\ playback_status = "PLAYING" \/ \E c \in Caller : call[c] \in {"name", "item", "playback"}
        /\ dap # None /\ item_status = "STOPPED"
               => (\E c \in Caller : call[c] \in InPlay) \/ \E t \in Thread : at[t] \in Waiting

\* The thread that tells another one to stop goes on to play itself.
LEMMA GoesOnDecode ==
    ASSUME TypeOK, GoesOn, NEW t \in Thread, Decode(t) PROVE GoesOn'
<1> USE DEF TypeOK, GoesOn, Stopping, Waiting, Step, statuses, params, threads, callers
<1>1. CASE Start(t)            BY <1>1 DEF Start
<1>2. CASE Check(t)            BY <1>2 DEF Check
<1>3. CASE StopOther(t)        BY <1>3 DEF StopOther
<1>4. CASE Wait(t)             BY <1>4 DEF Wait
<1>5. CASE Claim(t)            BY <1>5 DEF Claim
<1>6. CASE SetItem(t)          BY <1>6 DEF SetItem
<1>7. CASE SetPlayback(t)      BY <1>7 DEF SetPlayback
<1>8. CASE OpenFile(t)         BY <1>8 DEF OpenFile
<1>9. CASE Loop(t)             BY <1>9 DEF Loop
<1>10. CASE Ended(t)           BY <1>10 DEF Ended
<1>11. CASE Leave(t)           BY <1>11 DEF Leave
<1>12. CASE Tail(t)            BY <1>12 DEF Tail
<1>13. CASE Finish(t)          BY <1>13 DEF Finish
<1> QED BY <1>1, <1>2, <1>3, <1>4, <1>5, <1>6, <1>7, <1>8, <1>9, <1>10, <1>11, <1>12, <1>13 DEF Decode

\* The call that resets the item creates a thread, or leaves no decoder behind.
LEMMA GoesOnCall ==
    ASSUME TypeOK, GoesOn, NEW c \in Caller, Request(c) \/ RequestStop(c) \/ Play(c) \/ Stop(c)
    PROVE  GoesOn'
<1> USE TrackAssumption DEF TypeOK, GoesOn, Stopping, Waiting, Go, statuses, params, threads, callers
<1>1. CASE Request(c)          BY <1>1 DEF Request
<1>2. CASE RequestStop(c)      BY <1>2 DEF RequestStop, AskStop
<1>3. CASE Name(c)             BY <1>3 DEF Name
<1>4. CASE ResetItem(c)        BY <1>4 DEF ResetItem
<1>5. CASE PromisePlayback(c)  BY <1>5 DEF PromisePlayback
<1>6. CASE ChooseDecoder(c)    BY <1>6 DEF ChooseDecoder
<1>7. CASE Create(c)           BY <1>7 DEF Create, Step
<1>8. CASE StopPlayback(c)     BY <1>8 DEF StopPlayback
<1>9. CASE StopItem(c)         BY <1>9 DEF StopItem
<1> QED BY <1>1, <1>2, <1>3, <1>4, <1>5, <1>6, <1>7, <1>8, <1>9 DEF Play, Stop

\* The main loop goes on by a call of its own.
LEMMA GoesOnLook ==
    ASSUME TypeOK, GoesOn, Look \/ LookOn PROVE GoesOn'
<1> USE DEF TypeOK, GoesOn, Stopping, Waiting, Go, statuses, params, threads, callers
<1>1. CASE Look   BY <1>1 DEF Look
<1>2. CASE LookOn BY <1>2 DEF LookOn, AskStop
<1> QED BY <1>1, <1>2

\* Every step keeps it.
LEMMA GoesOnStep == TypeOK /\ GoesOn /\ [Next]_vars => GoesOn'
<1> SUFFICES ASSUME TypeOK, GoesOn, [Next]_vars PROVE GoesOn'
    OBVIOUS
<1>1. CASE UNCHANGED vars
    BY <1>1 DEF vars, statuses, params, threads, callers, GoesOn, Stopping, Waiting
<1> QED BY <1>1, GoesOnDecode, GoesOnCall, GoesOnLook DEF Next

(* The player never falls silent by itself, for any number of threads and  *)
(* tracks and however requests, the main loop's change of track and the    *)
(* threads that start and end cross each other: while playback_status is   *)
(* PLAYING (fileplayer.c, 37) there is a FINISHED for the main loop or a   *)
(* thread that will write one, unless the file asked for has no decoder.   *)
THEOREM PlaybackAlwaysGoesOn == Spec => []PlaybackGoesOn
<1>1. Init => GoesOn
    BY DEF Init, GoesOn
<1>2. TypeOK /\ Shown /\ GoesOn => PlaybackGoesOn
    BY DEF TypeOK, Shown, PlayingHasDecoder, GoesOn, Stopping, Waiting, NoCall, PlaybackGoesOn
<1> QED BY <1>1, <1>2, GoesOnStep, AlwaysShown, TypeCorrect, PTL DEF Spec
=============================================================================
