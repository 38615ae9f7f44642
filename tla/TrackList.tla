----------------------------- MODULE TrackList ------------------------------
(***************************************************************************)
(* What the playlist of the player promises: a sequence of tracks, a       *)
(* sequence of tracks to be played next (the queue), a current track, a    *)
(* play mode, and for the random modes the set of tracks already played.   *)
(* Playlist implements it with a doubly linked list and a second linked    *)
(* list threaded through the same entries.                                 *)
(***************************************************************************)
EXTENDS Naturals, SequencesExt

CONSTANTS Track, NULL

VARIABLES tracks, queue, current, played, mode

vars == <<tracks, queue, current, played, mode>>

\* The order in which the mode key goes round.
Modes == <<"continue", "repeat_all", "repeat_1", "random", "random_repeat">>

Random == mode \in {"random", "random_repeat"}

Init ==
    /\ tracks = <<>> /\ queue = <<>>
    /\ current = NULL
    /\ played = {}
    /\ mode \in ToSet(Modes)

NewTrack == Track \ ToSet(tracks)

Add == \E t \in NewTrack :
    /\ tracks' = Append(tracks, t)
    /\ UNCHANGED <<queue, current, played, mode>>

InsertAfter == \E i \in DOMAIN tracks, t \in NewTrack :
    /\ tracks' = InsertAt(tracks, i + 1, t)
    /\ UNCHANGED <<queue, current, played, mode>>

CycleMode ==
    /\ \E i \in DOMAIN Modes : mode = Modes[i] /\ mode' = Modes[1 + (i % Len(Modes))]
    /\ UNCHANGED <<tracks, queue, current, played>>

Position(s, t) == CHOOSE i \in DOMAIN s : s[i] = t

Without(s, t) == RemoveAt(s, Position(s, t))

\* A track is queued at most once: asking again takes it out of the queue.
Enqueue == \E t \in ToSet(tracks) :
    /\ queue' = IF t \in ToSet(queue) THEN Without(queue, t) ELSE Append(queue, t)
    /\ UNCHANGED <<tracks, current, played, mode>>

Clear ==
    /\ tracks' = <<>> /\ queue' = <<>>
    /\ current' = NULL
    /\ played' = {}
    /\ UNCHANGED mode

-----------------------------------------------------------------------------
\* The tracks that may follow the current one when nothing is queued.
Followers ==
    IF tracks = <<>> THEN {}
    ELSE IF Random THEN ToSet(tracks) \ played
    ELSE IF current = NULL THEN {tracks[1]}
    ELSE IF mode = "repeat_1" THEN {current}
    ELSE IF current # Last(tracks) THEN {tracks[Position(tracks, current) + 1]}
    ELSE IF mode = "repeat_all" THEN {tracks[1]}
    ELSE {}

\* Random play marks the track; random+repeat may start over with it.
Mark(p, t) == {p \cup {t}} \cup (IF mode = "random_repeat" THEN {{}} ELSE {})

\* The queue comes first, whatever the mode.
Advance ==
    IF queue # <<>>
    THEN current' = Head(queue) /\ queue' = Tail(queue) /\ played' = played
    ELSE \E t \in Followers :
            /\ current' = t
            /\ played' \in (IF Random THEN Mark(played, t) ELSE {played})
            /\ UNCHANGED queue

\* There may be nothing to advance to; the random modes also give up early,
\* when tracks chosen by hand have been counted as played.
NoFollower == queue = <<>> /\ (Followers = {} \/ Random)

NextTrack ==
    /\ \/ Advance
       \/ /\ NoFollower
          /\ played' \in {played} \cup (IF mode = "random_repeat" THEN {{}} ELSE {})
          /\ UNCHANGED <<queue, current>>
    /\ UNCHANGED <<tracks, mode>>

Stop ==
    /\ current' = NULL
    /\ played' = {}
    /\ UNCHANGED <<tracks, queue, mode>>

\* At the end of a track: the next one, or stop.
TrackEnds == NextTrack \/ (NoFollower /\ Stop)

Previous ==
    /\ current # NULL
    /\ \/ Position(tracks, current) > 1 /\ current' = tracks[Position(tracks, current) - 1]
       \/ Position(tracks, current) = 1 /\ mode = "repeat_all" /\ current' = Last(tracks)
    /\ ~Random /\ mode # "repeat_1"
    /\ UNCHANGED <<tracks, queue, played, mode>>

PlayItem == \E t \in ToSet(tracks) :
    /\ current' = t
    /\ played' = IF Random THEN played \cup {t} ELSE played
    /\ UNCHANGED <<tracks, queue, mode>>

PlayFile ==
    /\ current' = NULL
    /\ UNCHANGED <<tracks, queue, played, mode>>

\* Asking to delete a file makes the random modes start over.
StartOver ==
    /\ Random
    /\ played' = {}
    /\ UNCHANGED <<tracks, queue, current, mode>>

\* A track that is not queued leaves the list; if it is the current one the
\* player moves on to another first, or stops.
RemoveTrack == \E t \in ToSet(tracks) \ ToSet(queue) :
    /\ tracks' = Without(tracks, t)
    /\ \/ /\ current # t
          /\ played' = played \ {t}
          /\ UNCHANGED <<queue, current>>
       \/ /\ current = t
          /\ IF queue # <<>>
             THEN current' = Head(queue) /\ queue' = Tail(queue) /\ played' = played \ {t}
             ELSE \E u \in Followers \ {t} :
                    /\ current' = u
                    /\ played' \in {p \ {t} : p \in (IF Random THEN Mark(played, u) ELSE {played})}
                    /\ UNCHANGED queue
       \/ /\ current = t
          /\ NoFollower
          /\ current' = NULL
          /\ played' = {}
          /\ UNCHANGED queue
    /\ UNCHANGED mode

Next ==
    \/ Add \/ InsertAfter \/ RemoveTrack \/ Clear
    \/ CycleMode \/ Enqueue \/ StartOver
    \/ NextTrack \/ TrackEnds \/ Previous \/ PlayItem \/ PlayFile \/ Stop

Spec == Init /\ [][Next]_vars
=============================================================================
