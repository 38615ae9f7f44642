------------------------------ MODULE Playlist ------------------------------
(***************************************************************************)
(* The playlist of the player (gmu-0.7.0/src/playlist.c) and what the      *)
(* operations of core.c and of the SDL frontend do to it.  An operator     *)
(* with a parameter p is a function of playlist.c that takes Playlist *pl; *)
(* the actions at the end are the operations of the user and of the main   *)
(* loop, one at a time.                                                    *)
(*                                                                         *)
(* Freed memory has no contents here: NothingDangling says that no pointer *)
(* leads there, and a behaviour means nothing beyond a state that has one. *)
(***************************************************************************)
EXTENDS Integers, FiniteSets, Sequences

CONSTANTS
    Entry,          \* the memory there is for Entry structures
    NULL,
    PLAYLIST_MAX_LENGTH,
    MaxPlayed,      \* bound: how far played_items is counted
    Scenario        \* which of the operations below in Operation the user has

Operation == {"enqueue", "insert", "insert_last", "getcwd_fails", "remove_in_use"}

ASSUME EntryAssumption    == IsFiniteSet(Entry) /\ NULL \notin Entry
ASSUME NumberAssumption   == MaxPlayed \in Nat /\ PLAYLIST_MAX_LENGTH \in Nat
ASSUME ScenarioAssumption == Scenario \subseteq Operation

VARIABLES
    pl,         \* the Playlist structure and the entries it owns
    playing     \* player_status # STOPPED in core.c

vars == <<pl, playing>>

PlayMode == {"continue", "repeat_all", "repeat_1", "random", "random_repeat"}
RandomMode == {"random", "random_repeat"}

Pointer == Entry \cup {NULL}

PlaylistType == [
    first : Pointer, last : Pointer, current : Pointer, queue_start : Pointer,
    length : Nat, played_items : Nat, play_mode : PlayMode,
    live : SUBSET Entry,                    \* allocated and not freed
    next : [Entry -> Pointer], prev : [Entry -> Pointer],
    played : [Entry -> BOOLEAN],
    queue_pos : [Entry -> Int], next_in_queue : [Entry -> Pointer] ]

\* set_default_play_mode runs after playlist_init, from the configuration.
Init ==
    /\ playing = FALSE
    /\ \E mode \in PlayMode \ {"random_repeat"} :
        pl = [first |-> NULL, last |-> NULL, current |-> NULL, queue_start |-> NULL,
              length |-> 0, played_items |-> 0, play_mode |-> mode,
              live |-> {},
              next |-> [e \in Entry |-> NULL], prev |-> [e \in Entry |-> NULL],
              played |-> [e \in Entry |-> FALSE],
              queue_pos |-> [e \in Entry |-> 0], next_in_queue |-> [e \in Entry |-> NULL]]

-----------------------------------------------------------------------------
(* Walking a linked list *)

\* The entries met by following link from start.
Reach(start, link) ==
    LET Closed == {S \in SUBSET Entry : /\ start \in S \cup {NULL}
                                        /\ \A x \in S : link[x] \in S \cup {NULL}}
    IN  {e \in Entry : \A S \in Closed : e \in S}

Linked(p) == Reach(p.first, p.next)
Queued(p) == Reach(p.queue_start, p.next_in_queue)

\* How many entries come before e.
Position(start, link, e) == Cardinality(Reach(start, link) \ Reach(e, link))

\* What the frontends can select: the entries with an index below pl->length.
Selectable(p) == {e \in Linked(p) : Position(p.first, p.next, e) < p.length}

\* x->field = y where x is an entry; no store where x is NULL.
Set(field, x, y) == [e \in Entry |-> IF e = x THEN y ELSE field[e]]

-----------------------------------------------------------------------------
(* playlist.c *)

\* Uninitialised memory: all that is ever asked of a queue_pos is whether it is 0.
Uninitialised == {0, 1}

\* A fault: pl->last stays where it was.
AppendedLastKept(p, e) ==
    [p EXCEPT !.first = IF @ = NULL THEN e ELSE @,
              !.last = IF @ = NULL THEN e ELSE @,
              !.live = @ \cup {e},
              !.next = Set(Set(@, p.last, e), e, NULL),
              !.prev = Set(@, e, p.last),
              !.played = Set(@, e, FALSE)]

\* The new entry behind the last one.
Appended(p, e) ==
    [p EXCEPT !.first = IF @ = NULL THEN e ELSE @,
              !.last = e,
              !.live = @ \cup {e},
              !.next = Set(Set(@, p.last, e), e, NULL),
              !.prev = Set(@, e, p.last),
              !.played = Set(@, e, FALSE)]

\* A relative file name needs getcwd: without it the entry stays in the list,
\* uncounted and half initialised.  A list that is full is left as it is.
AddItem(p, e, getcwd) ==
    LET q == Appended(p, e) IN
    IF p.length >= PLAYLIST_MAX_LENGTH THEN {}
    ELSE IF getcwd
    THEN {[q EXCEPT !.queue_pos = Set(@, e, 0), !.next_in_queue = Set(@, e, NULL), !.length = @ + 1]}
    ELSE {[q EXCEPT !.queue_pos = Set(@, e, u)] : u \in Uninitialised}

\* A fault: the entry behind the new one keeps its back pointer.
InsertedForwardOnly(p, s, e, u) ==
    [p EXCEPT !.live = @ \cup {e},
              !.next = Set(Set(@, e, p.next[s]), s, e),
              !.prev = Set(@, e, s),
              !.played = Set(@, e, FALSE),
              !.next_in_queue = Set(@, e, NULL),
              !.queue_pos = Set(@, e, u),
              !.length = @ + 1]

\* The new entry behind s; pl->last is left alone.
Inserted(p, s, e, u) ==
    [p EXCEPT !.live = @ \cup {e},
              !.next = Set(Set(@, e, p.next[s]), s, e),
              !.prev = Set(Set(@, p.next[s], e), e, s),
              !.played = Set(@, e, FALSE),
              !.next_in_queue = Set(@, e, NULL),
              !.queue_pos = Set(@, e, u),
              !.length = @ + 1]

\* queue_pos is not initialised.
InsertItemAfter(p, s, e) == {Inserted(p, s, e, u) : u \in Uninitialised}

\* free(): what is in the memory afterwards is nobody's business.
Free(p, S) ==
    [p EXCEPT !.live = @ \ S,
              !.next = [e \in Entry |-> IF e \in S THEN NULL ELSE @[e]],
              !.prev = [e \in Entry |-> IF e \in S THEN NULL ELSE @[e]],
              !.played = [e \in Entry |-> e \notin S /\ @[e]],
              !.queue_pos = [e \in Entry |-> IF e \in S THEN 0 ELSE @[e]],
              !.next_in_queue = [e \in Entry |-> IF e \in S THEN NULL ELSE @[e]]]

\* A fault: the queue outlives the entries it is made of.
ClearKeepsQueue(p) ==
    [Free(p, Linked(p)) EXCEPT !.length = 0, !.current = NULL,
              !.first = NULL, !.last = NULL, !.played_items = 0]

Cleared(p) ==
    [Free(p, Linked(p)) EXCEPT !.length = 0, !.current = NULL,
              !.first = NULL, !.last = NULL, !.played_items = 0, !.queue_start = NULL]

\* A fault: the marks of the entries are kept.
CountReset(p) == [p EXCEPT !.played_items = 0]

\* The walk from first clears every mark it meets.
ResetRandom(p) ==
    [p EXCEPT !.played = [e \in Entry |-> e \notin Linked(p) /\ p.played[e]],
              !.played_items = 0]

SetCurrent(p, e) ==
    IF e = NULL THEN [p EXCEPT !.current = NULL]
    ELSE [p EXCEPT !.current = e,
                   !.played = Set(@, e, p.played[e] \/ p.play_mode \in RandomMode),
                   !.played_items = @ + 1]

\* A fault: the back pointer of the entry behind is not redirected.
DeletedForwardOnly(p, e) ==
    IF p.length = 0 THEN p
    ELSE [Free(p, {e}) EXCEPT
                   !.next = Set(@, p.prev[e], p.next[e]),
                   !.first = IF p.length = 1 THEN NULL ELSE IF p.prev[e] = NULL THEN p.next[e] ELSE @,
                   !.last = IF p.length = 1 THEN NULL ELSE IF p.next[e] = NULL THEN p.prev[e] ELSE @,
                   !.length = @ - 1]

\* A fault: the entry is still counted.
DeletedStillCounted(p, e) ==
    IF p.length = 0 THEN p
    ELSE [Free(p, {e}) EXCEPT
                   !.next = Set(@, p.prev[e], p.next[e]),
                   !.prev = Set(@, p.next[e], p.prev[e]),
                   !.first = IF p.prev[e] = NULL THEN p.next[e] ELSE @,
                   !.last = IF p.next[e] = NULL THEN p.prev[e] ELSE @]

\* The four cases of entry->prev and entry->next, then the check for length 0.
Deleted(p, e) ==
    IF p.length = 0 THEN p
    ELSE [Free(p, {e}) EXCEPT
                   !.next = Set(@, p.prev[e], p.next[e]),
                   !.prev = Set(@, p.next[e], p.prev[e]),
                   !.first = IF p.length = 1 THEN NULL ELSE IF p.prev[e] = NULL THEN p.next[e] ELSE @,
                   !.last = IF p.length = 1 THEN NULL ELSE IF p.next[e] = NULL THEN p.prev[e] ELSE @,
                   !.length = @ - 1]

-----------------------------------------------------------------------------
(* The queue *)

\* The entries that follow e in the queue.
Behind(p, e) == Reach(p.next_in_queue[e], p.next_in_queue)

QueueEnd(p) == {x \in Queued(p) : p.next_in_queue[x] = NULL}

EnqueuedLast(p, e) ==
    LET link == [x \in Entry |-> IF x \in QueueEnd(p) THEN e ELSE p.next_in_queue[x]] IN
    [p EXCEPT !.queue_start = IF @ = NULL THEN e ELSE @,
              !.next_in_queue = Set(link, e, NULL),
              !.queue_pos = Set(@, e, Cardinality(Queued(p)) + 1)]

\* An entry that is not found in the queue changes nothing.
Dequeued(p, e) ==
    IF e \notin Queued(p) THEN p
    ELSE [p EXCEPT
            !.queue_start = IF @ = e THEN p.next_in_queue[e] ELSE @,
            !.next_in_queue = [x \in Entry |->
                IF x = e THEN NULL
                ELSE IF x \in Queued(p) /\ p.next_in_queue[x] = e THEN p.next_in_queue[e]
                ELSE p.next_in_queue[x]],
            !.queue_pos = [x \in Entry |->
                IF x = e THEN 0
                ELSE IF x \in Behind(p, e) THEN p.queue_pos[x] - 1
                ELSE p.queue_pos[x]]]

EntryEnqueue(p, e) == IF p.queue_pos[e] = 0 THEN EnqueuedLast(p, e) ELSE Dequeued(p, e)

\* A fault: the positions of the entries that stay in the queue are not moved up.
FromQueueUnnumbered(p) ==
    [p EXCEPT !.current = p.queue_start,
              !.queue_start = p.next_in_queue[p.queue_start],
              !.queue_pos = Set(@, p.queue_start, 0)]

\* The head of the queue is next; every queued entry moves up, the head to 0.
FromQueue(p) ==
    [p EXCEPT !.current = p.queue_start,
              !.queue_start = p.next_in_queue[p.queue_start],
              !.queue_pos = [e \in Entry |->
                  IF e \in Queued(p)
                  THEN Position(p.queue_start, p.next_in_queue, e)
                  ELSE p.queue_pos[e]]]

-----------------------------------------------------------------------------
(* playlist_next and playlist_prev: the result and the playlist after it *)

Found(p)    == [found |-> TRUE,  pl |-> p]
NotFound(p) == [found |-> FALSE, pl |-> p]

MoveTo(p, e) == IF e = NULL THEN NotFound(p) ELSE Found([p EXCEPT !.current = e])

\* When every track counts as played, random+repeat starts over.
StartOver(r) ==
    IF r.pl.play_mode = "random_repeat" /\ r.pl.played_items >= r.pl.length
    THEN [r EXCEPT !.pl = ResetRandom(r.pl)]
    ELSE r

\* rand() / (RAND_MAX / l) is 0 .. l, and may be l: what the walk of that many
\* entries can end at.  Where no entry has the number l the walk ends at NULL, whose
\* mark is then looked at: the program ends there, and Next has no step for it.
Drawn(p) == {e \in Linked(p) : Position(p.first, p.next, e) <= p.length}

\* A draw that hits an entry already played is repeated until one is not:
\* the draws end at any entry that is still unplayed.
Unplayed(p) == {e \in Drawn(p) : ~p.played[e]}

\* It is drawn also where nothing is left to be played.
NextRandom(p) ==
    IF p.played_items < p.length
    THEN {StartOver(Found(SetCurrent(p, e))) : e \in Unplayed(p)}
    ELSE {r \in {StartOver(NotFound(p))} : p.length = 0 \/ Drawn(p) # {}}

Following(p) == IF p.current = NULL THEN p.first ELSE p.next[p.current]

\* From the last entry back to the first.  The code does not ask whether there is
\* a first one: with an entry that deletion has lost (see NothingLost) as the
\* current one there may be none, and playing it is undefined.
RoundAgain(p) ==
    {r \in {MoveTo(p, IF Following(p) = NULL THEN p.first ELSE Following(p))} :
        r.found \/ p.current = NULL}

PlaylistNext(p) ==
    IF p.queue_start # NULL THEN {Found(FromQueue(p))}
    ELSE IF p.play_mode \in RandomMode THEN NextRandom(p)
    ELSE IF p.play_mode = "continue" THEN {MoveTo(p, Following(p))}
    ELSE IF p.play_mode = "repeat_all" THEN RoundAgain(p)
    ELSE {MoveTo(p, IF p.current = NULL THEN p.first ELSE p.current)}

PlaylistPrev(p) ==
    IF p.current = NULL \/ p.play_mode \in RandomMode THEN NotFound(p)
    ELSE IF p.play_mode = "repeat_1" THEN Found(p)
    ELSE IF p.play_mode = "repeat_all" /\ p.prev[p.current] = NULL
    THEN [found |-> p.last # NULL, pl |-> [p EXCEPT !.current = p.last]]
    ELSE MoveTo(p, p.prev[p.current])

-----------------------------------------------------------------------------
(* The operations of the user and of the main loop *)

New == Entry \ pl.live

Counted == pl'.played_items <= MaxPlayed

Add ==
    /\ \E e \in New, getcwd \in {TRUE} \cup {"getcwd_fails" \notin Scenario} :
           pl' \in AddItem(pl, e, getcwd)
    /\ UNCHANGED playing

Insert ==
    /\ "insert" \in Scenario
    /\ \E s \in Selectable(pl), e \in New :
        /\ pl.next[s] = NULL => "insert_last" \in Scenario
        /\ pl' \in InsertItemAfter(pl, s, e)
    /\ UNCHANGED playing

Clear == pl' = Cleared(pl) /\ UNCHANGED playing

Enqueue ==
    /\ "enqueue" \in Scenario
    /\ \E e \in Selectable(pl) : pl' = EntryEnqueue(pl, e)
    /\ UNCHANGED playing

\* The key that changes the mode goes round all five.
ModeAfter == [continue |-> "repeat_all", repeat_all |-> "repeat_1", repeat_1 |-> "random",
              random |-> "random_repeat", random_repeat |-> "continue"]

CycleMode == pl' = [pl EXCEPT !.play_mode = ModeAfter[@]] /\ UNCHANGED playing

\* gmu_core_stop
Stopped(p, status) == IF status THEN SetCurrent(ResetRandom(p), NULL) ELSE p

Stop ==
    /\ pl' = Stopped(pl, playing)
    /\ playing' = FALSE

NextTrack == \E r \in PlaylistNext(pl) :
    /\ pl' = r.pl
    /\ playing' = (playing \/ r.found)
    /\ Counted

PreviousTrack ==
    /\ pl' = PlaylistPrev(pl).pl
    /\ playing' = (playing \/ PlaylistPrev(pl).found)

\* The main loop when a track has ended or at an automatic start, the frontend before it removes the
\* current track: the next one, or stop.
NextOrStop(p) == {[pl |-> IF r.found THEN r.pl ELSE Stopped(r.pl, playing),
                   playing |-> r.found] : r \in PlaylistNext(p)}

TrackEnds == \E r \in NextOrStop(pl) :
    /\ pl' = r.pl
    /\ playing' = r.playing
    /\ Counted

\* The index was chosen from the list as it was when the key was pressed.  One
\* just past the end leads to no entry and plays nothing; one further behind leads
\* through NULL, where the program ends.
PlayItem ==
    /\ \/ \E e \in Linked(pl) : pl' = SetCurrent(pl, e)
       \/ UNCHANGED pl
    /\ playing' = TRUE
    /\ Counted

PlayFile ==
    /\ pl' = SetCurrent(pl, NULL)
    /\ playing' = TRUE

\* The frontend looks at the current entry and at nothing else that may still
\* point to the entry.
InUse(p, e) == e = p.current \/ e \in Queued(p)

Remove == \E e \in Selectable(pl) :
    \E r \in IF e = pl.current THEN NextOrStop(pl) ELSE {[pl |-> pl, playing |-> playing]} :
        /\ InUse(r.pl, e) => "remove_in_use" \in Scenario
        /\ pl' = Deleted(r.pl, e)
        /\ playing' = r.playing
        /\ Counted

\* The question before a file is deleted; the deletion itself is Remove.
AskDelete ==
    /\ pl.first # NULL
    /\ pl.play_mode \in RandomMode
    /\ pl' = ResetRandom(pl)
    /\ UNCHANGED playing

-----------------------------------------------------------------------------
\* Everything the playlist can reach is allocated.
NothingDangling ==
    Linked(pl) \cup Queued(pl) \cup ({pl.current} \ {NULL}) \subseteq pl.live

Next ==
    \/ Add \/ Insert \/ Remove \/ Clear
    \/ Enqueue \/ CycleMode \/ AskDelete
    \/ NextTrack \/ TrackEnds \/ PreviousTrack \/ PlayItem \/ PlayFile \/ Stop

Spec == Init /\ [][Next]_vars

-----------------------------------------------------------------------------
TypeOK == pl \in PlaylistType /\ playing \in BOOLEAN

\* Every entry ever added and not removed is still met by a walk from first,
\* whatever was added, inserted and removed around it.
NothingLost == pl.live \subseteq Linked(pl)

\* pl->length never counts an entry that is not there: every index below it leads
\* playlist_get_entry and the walks of the frontends to their selection, none of
\* which asks for NULL, to an entry.  For the index pl->length, which a random draw
\* can have (playlist.c, 477), there is none in general.
CountedAreLinked == pl.length <= Cardinality(Linked(pl))

\* The random draw is repeated until it hits an unplayed entry (playlist.c, 482):
\* there is one whenever the count of played items lets it be tried.
RetryEnds == pl.played_items < pl.length => Unplayed(pl) # {}

\* The position shown for a queued track (Q:1, Q:2, ...) is when it will be
\* played, through every dequeue from the middle, and 0 tells that a track is
\* not queued, which is what enqueue decides by.
QueuePositions == \A e \in pl.live :
    pl.queue_pos[e] = IF e \in Queued(pl)
                      THEN Position(pl.queue_start, pl.next_in_queue, e) + 1
                      ELSE 0

\* README.txt, 525: in random mode all tracks are played before the player stops.
\* It gives up when as many are counted as played as the list has; then no track
\* is left out but, perhaps, the current one.
RandomPlaysAll ==
    pl.play_mode = "random" /\ pl.played_items >= pl.length
        => \A e \in Linked(pl) \ {pl.current} : pl.played[e]

-----------------------------------------------------------------------------
(* The list of tracks that the pointers stand for *)

\* The walk from start meets the entries of s, in that order, and ends there.
InOrder(s, start, link) ==
    /\ \A i, j \in DOMAIN s : s[i] = s[j] => i = j
    /\ start = IF s = <<>> THEN NULL ELSE s[1]
    /\ \A i \in DOMAIN s : link[s[i]] = IF i = Len(s) THEN NULL ELSE s[i + 1]

Sequence(start, link) ==
    CHOOSE s \in UNION {[1 .. n -> Entry] : n \in 0 .. Cardinality(Entry)} :
        InOrder(s, start, link)

List == INSTANCE TrackList WITH
            Track   <- Entry,
            tracks  <- Sequence(pl.first, pl.next),
            queue   <- Sequence(pl.queue_start, pl.next_in_queue),
            current <- pl.current,
            played  <- {e \in pl.live : pl.played[e]},
            mode    <- pl.play_mode

\* The doubly linked list of playlist.c and the queue threaded through it are
\* the list of tracks and the queue that TrackList describes: order, current
\* track, what random play has played, and what may be played next.
ImplementsTrackList == List!Spec
=============================================================================
