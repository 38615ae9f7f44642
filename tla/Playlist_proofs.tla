-------------------------- MODULE Playlist_proofs ---------------------------
(***************************************************************************)
(* Proofs about the doubly linked list of Playlist, for any number of      *)
(* entries, whatever the user does short of inserting behind the last      *)
(* entry and losing the working directory; and about the queue threaded    *)
(* through it, as long as no entry is removed that is still in use.  What  *)
(* is left when getcwd fails or when anything goes wrong, no dangling      *)
(* pointer and the types, is shown after that.  The last part shows that   *)
(* list and queue are the list of tracks and the queue of TrackList: a     *)
(* sequence of entries that a walk goes along stands for each list, and    *)
(* every operation changes it as TrackList does.                           *)
(***************************************************************************)
EXTENDS Playlist, FiniteSetTheorems, SequenceTheorems, TLAPS

(* The operations that leave pl->last or pl->length wrong are not used. *)
Sound == "insert_last" \notin Scenario /\ "getcwd_fails" \notin Scenario

-----------------------------------------------------------------------------
(* What a walk reaches *)

(* A walk meets its start and, after any entry, the entry it links to. *)
LEMMA ReachClosed ==
    ASSUME NEW start \in Pointer, NEW link \in [Entry -> Pointer]
    PROVE  /\ Reach(start, link) \subseteq Entry
           /\ start \in Reach(start, link) \cup {NULL}
           /\ \A x \in Reach(start, link) : link[x] \in Reach(start, link) \cup {NULL}
BY EntryAssumption DEF Reach, Pointer

(* It meets nothing else: any set with the start that is closed under the *)
(* links has all of it.                                                    *)
LEMMA ReachLeast ==
    ASSUME NEW start, NEW link, NEW S \in SUBSET Entry,
           start \in S \cup {NULL},
           \A x \in S : link[x] \in S \cup {NULL}
    PROVE  Reach(start, link) \subseteq S
BY DEF Reach

(* Without a start there is nothing to meet. *)
LEMMA ReachNothing ==
    ASSUME NEW link
    PROVE  Reach(NULL, link) = {}
<1> DEFINE T == {}
<1>1. T \in SUBSET Entry /\ NULL \in T \cup {NULL} /\ \A x \in T : link[x] \in T \cup {NULL}
    OBVIOUS
<1> HIDE DEF T
<1>2. Reach(NULL, link) \subseteq T
    BY <1>1, ReachLeast
<1> QED BY <1>2 DEF T

-----------------------------------------------------------------------------
(* Doubly linked lists, as plain values *)

(* The links of neighbouring entries agree, first and last are the entries *)
(* without a neighbour on that side, and the list is all there is.         *)
Chain(first, last, live, next, prev) ==
    /\ live \in SUBSET Entry
    /\ next \in [Entry -> Pointer] /\ prev \in [Entry -> Pointer]
    /\ first \in live \cup {NULL}
    /\ last \in live \cup {NULL}
    /\ first = NULL <=> last = NULL
    /\ \A e \in live :
        /\ prev[e] = NULL <=> e = first
        /\ next[e] = NULL <=> e = last
        /\ next[e] # NULL => next[e] \in live /\ prev[next[e]] = e
        /\ prev[e] # NULL => prev[e] \in live /\ next[prev[e]] = e
    /\ live = Reach(first, next)

(* An entry is appended. *)
LEMMA AppendChain ==
    ASSUME NEW first, NEW last, NEW live, NEW next, NEW prev,
           Chain(first, last, live, next, prev),
           NEW e \in Entry \ live
    PROVE  Chain(IF first = NULL THEN e ELSE first, e, live \cup {e},
                 Set(Set(next, last, e), e, NULL), Set(prev, e, last))
<1> DEFINE f == IF first = NULL THEN e ELSE first
           n == Set(Set(next, last, e), e, NULL)
           p == Set(prev, e, last)
<1>1. /\ n \in [Entry -> Pointer] /\ p \in [Entry -> Pointer]
      /\ \A x \in Entry : /\ n[x] = IF x = e THEN NULL ELSE IF x = last THEN e ELSE next[x]
                          /\ p[x] = IF x = e THEN last ELSE prev[x]
    BY DEF Chain, Set, Pointer
<1>f. f = IF first = NULL THEN e ELSE first
    OBVIOUS
<1> HIDE DEF n, p, f
<1>2. Reach(f, n) \subseteq live \cup {e}
    <2>1. /\ live \cup {e} \in SUBSET Entry /\ f \in (live \cup {e}) \cup {NULL}
          /\ \A x \in live \cup {e} : n[x] \in (live \cup {e}) \cup {NULL}
        BY <1>1, <1>f, EntryAssumption DEF Chain
    <2> QED BY <2>1, ReachLeast
<1>3. /\ Reach(f, n) \subseteq Entry /\ f \in Reach(f, n) \cup {NULL}
      /\ \A x \in Reach(f, n) : n[x] \in Reach(f, n) \cup {NULL}
    BY <1>1, <1>f, ReachClosed DEF Chain, Pointer
<1>4. live \subseteq Reach(f, n)
    <2>1. first \in (Reach(f, n) \ {e}) \cup {NULL}
        BY <1>1, <1>f, <1>3 DEF Chain
    <2>2. \A x \in Reach(f, n) \ {e} : next[x] \in (Reach(f, n) \ {e}) \cup {NULL}
        <3> TAKE x \in Reach(f, n) \ {e}
        <3>1. x \in live /\ x \in Entry /\ n[x] \in Reach(f, n) \cup {NULL}
            BY <1>2, <1>3
        <3>2. CASE x = last
            BY <3>1, <3>2 DEF Chain
        <3>3. CASE x # last
            <4>1. n[x] = next[x]
                BY <3>1, <3>3, <1>1
            <4>2. next[x] # e
                BY <3>1, EntryAssumption DEF Chain
            <4> QED BY <3>1, <4>1, <4>2
        <3> QED BY <3>2, <3>3
    <2>3. Reach(first, next) \subseteq Reach(f, n) \ {e}
        <3> DEFINE T == Reach(f, n) \ {e}
        <3>1. /\ T \in SUBSET Entry /\ first \in T \cup {NULL}
              /\ \A x \in T : next[x] \in T \cup {NULL}
            BY <1>3, <2>1, <2>2
        <3> HIDE DEF T
        <3>2. Reach(first, next) \subseteq T
            BY <3>1, ReachLeast
        <3> QED BY <3>2 DEF T
    <2> QED BY <2>3 DEF Chain
<1>5. e \in Reach(f, n)
    BY <1>1, <1>f, <1>3, <1>4, EntryAssumption DEF Chain
<1> QED BY <1>1, <1>f, <1>2, <1>4, <1>5, EntryAssumption DEF Chain, n, p, f

(* An entry is inserted behind another one that is not the last. *)
LEMMA InsertChain ==
    ASSUME NEW first, NEW last, NEW live, NEW next, NEW prev,
           Chain(first, last, live, next, prev),
           NEW s \in live, next[s] # NULL,
           NEW e \in Entry \ live
    PROVE  Chain(first, last, live \cup {e},
                 Set(Set(next, e, next[s]), s, e), Set(Set(prev, next[s], e), e, s))
<1> DEFINE n == Set(Set(next, e, next[s]), s, e)
           p == Set(Set(prev, next[s], e), e, s)
<1>1. /\ n \in [Entry -> Pointer] /\ p \in [Entry -> Pointer]
      /\ \A x \in Entry : /\ n[x] = IF x = s THEN e ELSE IF x = e THEN next[s] ELSE next[x]
                          /\ p[x] = IF x = e THEN s ELSE IF x = next[s] THEN e ELSE prev[x]
    BY DEF Chain, Set, Pointer
<1> HIDE DEF n, p
<1>0. s \in Entry /\ s # e /\ next[s] \in live /\ e # NULL /\ s # NULL
    BY EntryAssumption DEF Chain
<1>2. Reach(first, n) \subseteq live \cup {e}
    <2>1. /\ live \cup {e} \in SUBSET Entry /\ first \in (live \cup {e}) \cup {NULL}
          /\ \A x \in live \cup {e} : n[x] \in (live \cup {e}) \cup {NULL}
        BY <1>0, <1>1 DEF Chain
    <2> QED BY <2>1, ReachLeast
<1>3. /\ Reach(first, n) \subseteq Entry /\ first \in Reach(first, n) \cup {NULL}
      /\ \A x \in Reach(first, n) : n[x] \in Reach(first, n) \cup {NULL}
    BY <1>1, ReachClosed DEF Chain, Pointer
<1>4. live \subseteq Reach(first, n)
    <2>1. first \in (Reach(first, n) \ {e}) \cup {NULL}
        BY <1>3 DEF Chain
    <2>2. \A x \in Reach(first, n) \ {e} : next[x] \in (Reach(first, n) \ {e}) \cup {NULL}
        <3> TAKE x \in Reach(first, n) \ {e}
        <3>1. x \in live /\ x \in Entry /\ n[x] \in Reach(first, n) \cup {NULL} /\ next[x] # e
            BY <1>2, <1>3, <1>0 DEF Chain
        <3>2. CASE x = s
            <4>1. e \in Reach(first, n) /\ n[e] = next[s]
                BY <3>1, <3>2, <1>0, <1>1
            <4> QED BY <4>1, <3>1, <3>2, <1>3
        <3>3. CASE x # s
            BY <3>1, <3>3, <1>1
        <3> QED BY <3>2, <3>3
    <2>3. Reach(first, next) \subseteq Reach(first, n) \ {e}
        <3> DEFINE T == Reach(first, n) \ {e}
        <3>1. /\ T \in SUBSET Entry /\ first \in T \cup {NULL}
              /\ \A x \in T : next[x] \in T \cup {NULL}
            BY <1>3, <2>1, <2>2
        <3> HIDE DEF T
        <3>2. Reach(first, next) \subseteq T
            BY <3>1, ReachLeast
        <3> QED BY <3>2 DEF T
    <2> QED BY <2>3 DEF Chain
<1>5. e \in Reach(first, n)
    BY <1>0, <1>1, <1>3, <1>4
<1> QED BY <1>0, <1>1, <1>2, <1>4, <1>5 DEF Chain, n, p

(* The links n and p lead past the entry e, those of next and prev to it. *)
Bridged(e, live, next, prev, n, p) ==
    \A x \in live \ {e} : /\ n[x] = IF x = prev[e] THEN next[e] ELSE next[x]
                          /\ p[x] = IF x = next[e] THEN prev[e] ELSE prev[x]

(* An entry is taken out of the list. *)
LEMMA DeleteChain ==
    ASSUME NEW first, NEW last, NEW live, NEW next, NEW prev,
           Chain(first, last, live, next, prev),
           NEW e \in live,
           NEW f, f = (IF prev[e] = NULL THEN next[e] ELSE first),
           NEW l, l = (IF next[e] = NULL THEN prev[e] ELSE last),
           NEW n \in [Entry -> Pointer], NEW p \in [Entry -> Pointer],
           Bridged(e, live, next, prev, n, p)
    PROVE  Chain(f, l, live \ {e}, n, p)
<1>b. \A x \in live \ {e} : /\ n[x] = IF x = prev[e] THEN next[e] ELSE next[x]
                            /\ p[x] = IF x = next[e] THEN prev[e] ELSE prev[x]
    BY DEF Bridged
<1> USE <1>b
<1>0. e \in Entry /\ e # NULL /\ live \in SUBSET Entry /\ NULL \notin live
    BY EntryAssumption DEF Chain
\* An entry linked to itself would not be met by a walk from first.
<1>1. next[e] # e /\ prev[e] # e
    <2> SUFFICES ASSUME next[e] = e \/ prev[e] = e PROVE FALSE
        OBVIOUS
    <2>1. next[e] = e /\ prev[e] = e
        BY <1>0 DEF Chain
    <2>2. first \in (live \ {e}) \cup {NULL}
        BY <2>1, <1>0 DEF Chain
    <2>3. \A x \in live \ {e} : next[x] \in (live \ {e}) \cup {NULL}
        BY <2>1, <1>0 DEF Chain
    <2>4. Reach(first, next) \subseteq live \ {e}
        BY <2>2, <2>3, <1>0, ReachLeast
    <2> QED BY <2>4 DEF Chain
<1>2. /\ f \in (live \ {e}) \cup {NULL}
      /\ l \in (live \ {e}) \cup {NULL}
    BY <1>0, <1>1 DEF Chain
<1>f. /\ prev[e] = NULL => f = next[e]
      /\ prev[e] # NULL => f = first /\ prev[e] \in live \ {e} /\ next[prev[e]] = e
    BY <1>0, <1>1 DEF Chain
<1>l. /\ next[e] = NULL => l = prev[e]
      /\ next[e] # NULL => l = last /\ next[e] \in live \ {e} /\ prev[next[e]] = e
    BY <1>0, <1>1 DEF Chain
<1>3. ASSUME NEW x \in live \ {e}
      PROVE  /\ n[x] \in (live \ {e}) \cup {NULL}
             /\ p[x] \in (live \ {e}) \cup {NULL}
             /\ p[x] = NULL <=> x = f
             /\ n[x] = NULL <=> x = l
             /\ n[x] # NULL => p[n[x]] = x
             /\ p[x] # NULL => n[p[x]] = x
    <2>0. /\ x \in live /\ x # e
          /\ next[x] = e <=> x = prev[e]
          /\ prev[x] = e <=> x = next[e]
        BY <1>0, <1>1 DEF Chain
    <2>n. /\ n[x] \in (live \ {e}) \cup {NULL}
          /\ n[x] = NULL <=> x = l
          /\ n[x] # NULL => p[n[x]] = x
        <3>1. CASE x = prev[e]
            <4>1. n[x] = next[e] /\ next[x] = e /\ x # last
                BY <2>0, <3>1, <1>0, <1>f DEF Chain
            <4>2. next[e] # NULL => p[next[e]] = prev[e]
                BY <1>l
            <4> QED BY <3>1, <4>1, <4>2, <1>f, <1>l, <2>0
        <3>2. CASE x # prev[e]
            <4>1. n[x] = next[x] /\ next[x] # e /\ next[x] \in live \cup {NULL}
                BY <2>0, <3>2, <1>0 DEF Chain
            <4>2. next[x] = NULL <=> x = last
                BY <2>0 DEF Chain
            <4>3. next[e] = NULL => e = last
                BY DEF Chain
            <4>4. ASSUME next[x] # NULL PROVE p[next[x]] = x
                <5>1. next[x] \in live \ {e} /\ prev[next[x]] = x
                    BY <4>1, <4>4, <2>0 DEF Chain
                <5>2. next[x] # next[e]
                    BY <5>1, <2>0, <1>0, <1>l
                <5> QED BY <5>1, <5>2
            <4> QED BY <3>2, <4>1, <4>2, <4>3, <4>4, <1>l, <2>0
        <3> QED BY <3>1, <3>2
    <2>p. /\ p[x] \in (live \ {e}) \cup {NULL}
          /\ p[x] = NULL <=> x = f
          /\ p[x] # NULL => n[p[x]] = x
        <3>1. CASE x = next[e]
            <4>1. p[x] = prev[e] /\ prev[x] = e /\ x # first
                BY <2>0, <3>1, <1>0, <1>l DEF Chain
            <4>2. prev[e] # NULL => n[prev[e]] = next[e]
                BY <1>f
            <4> QED BY <3>1, <4>1, <4>2, <1>f, <1>l, <2>0
        <3>2. CASE x # next[e]
            <4>1. p[x] = prev[x] /\ prev[x] # e /\ prev[x] \in live \cup {NULL}
                BY <2>0, <3>2, <1>0 DEF Chain
            <4>2. prev[x] = NULL <=> x = first
                BY <2>0 DEF Chain
            <4>3. prev[e] = NULL => e = first
                BY DEF Chain
            <4>4. ASSUME prev[x] # NULL PROVE n[prev[x]] = x
                <5>1. prev[x] \in live \ {e} /\ next[prev[x]] = x
                    BY <4>1, <4>4, <2>0 DEF Chain
                <5>2. prev[x] # prev[e]
                    BY <5>1, <2>0, <1>0, <1>f
                <5> QED BY <5>1, <5>2
            <4> QED BY <3>2, <4>1, <4>2, <4>3, <4>4, <1>f, <2>0
        <3> QED BY <3>1, <3>2
    <2> QED BY <2>n, <2>p
<1>4. Reach(f, n) \subseteq live \ {e}
    <2> DEFINE T == live \ {e}
    <2>1. T \in SUBSET Entry /\ f \in T \cup {NULL} /\ \A x \in T : n[x] \in T \cup {NULL}
        BY <1>0, <1>2, <1>3
    <2> HIDE DEF T
    <2>2. Reach(f, n) \subseteq T
        BY <2>1, ReachLeast
    <2> QED BY <2>2 DEF T
<1>5. /\ Reach(f, n) \subseteq Entry /\ f \in Reach(f, n) \cup {NULL}
      /\ \A x \in Reach(f, n) : n[x] \in Reach(f, n) \cup {NULL}
    BY <1>0, <1>2, ReachClosed DEF Pointer
\* The old walk stays within the new one and e, or within the new one if that
\* does not come past the neighbour of e.
<1>6. live \subseteq Reach(f, n) \cup {e}
    <2> DEFINE T == IF prev[e] \in Reach(f, n) \cup {NULL} THEN Reach(f, n) \cup {e} ELSE Reach(f, n)
    <2>1. ASSUME NEW x \in Reach(f, n)
          PROVE  (next[x] = e /\ x = prev[e]) \/ next[x] \in Reach(f, n) \cup {NULL}
        BY <1>4, <1>5, <1>0 DEF Chain
    <2>2. T \in SUBSET Entry /\ T \subseteq Reach(f, n) \cup {e}
        BY <1>0, <1>5
    <2>3. first \in T \cup {NULL}
        BY <1>0, <1>5, <1>f DEF Chain
    <2>4. ASSUME NEW x \in T PROVE next[x] \in T \cup {NULL}
        <3>1. CASE x = e
            <4>1. CASE prev[e] = NULL
                BY <3>1, <4>1, <1>5, <1>f
            <4>2. CASE prev[e] # NULL
                <5>1. n[prev[e]] = next[e]
                    BY <4>2, <1>f
                <5>2. prev[e] \in Reach(f, n)
                    BY <3>1, <2>4, <4>2, <1>4
                <5> QED BY <3>1, <5>1, <5>2, <1>5
            <4> QED BY <4>1, <4>2
        <3>2. CASE x # e
            BY <3>2, <2>1, <2>4
        <3> QED BY <3>1, <3>2
    <2> HIDE DEF T
    <2>5. Reach(first, next) \subseteq T
        BY <2>2, <2>3, <2>4, ReachLeast
    <2> QED BY <2>2, <2>5 DEF Chain
<1>7. f = NULL <=> l = NULL
    <2>1. first # NULL
        BY ReachNothing DEF Chain
    <2>2. last # NULL
        BY <2>1 DEF Chain
    <2> QED BY <2>1, <2>2, <1>0, <1>f, <1>l
<1> QED BY <1>0, <1>2, <1>3, <1>4, <1>6, <1>7 DEF Chain

-----------------------------------------------------------------------------
(* The list invariant *)

PlayedEntries(p) == {e \in p.live : p.played[e]}

ListInv(p) ==
    /\ p \in PlaylistType
    /\ Chain(p.first, p.last, p.live, p.next, p.prev)
    /\ p.length = Cardinality(p.live)
    /\ Cardinality(PlayedEntries(p)) <= p.played_items

(* Entries are finitely many, and so are those in use and those played. *)
LEMMA LiveFinite ==
    ASSUME NEW S \in SUBSET Entry
    PROVE  IsFiniteSet(S) /\ Cardinality(S) \in Nat
BY EntryAssumption, FS_Subset, FS_CardinalityType

\* The entries marked as played, and those in use, are entries.
LEMMA PlayedFinite ==
    ASSUME NEW p \in PlaylistType
    PROVE  PlayedEntries(p) \in SUBSET Entry /\ p.live \in SUBSET Entry
BY DEF PlaylistType, PlayedEntries

(* The list looks at the fields below only: changing the queue, the current *)
(* entry or the mode keeps it.                                               *)
LEMMA SameList ==
    ASSUME NEW p, NEW q \in PlaylistType, ListInv(p),
           q.first = p.first, q.last = p.last, q.live = p.live,
           q.next = p.next, q.prev = p.prev, q.length = p.length,
           q.played = p.played, q.played_items = p.played_items
    PROVE  ListInv(q)
BY DEF ListInv, PlayedEntries

(* Every entry can be selected and drawn: it has fewer entries before it *)
(* than the list has.                                                    *)
LEMMA AllSelectable ==
    ASSUME NEW p, ListInv(p)
    PROVE  Linked(p) = p.live /\ Selectable(p) = p.live /\ Drawn(p) = p.live
<1>1. Linked(p) = p.live
    BY DEF ListInv, Chain, Linked
<1>2. ASSUME NEW e \in p.live
      PROVE  Position(p.first, p.next, e) < p.length /\ Position(p.first, p.next, e) <= p.length
    <2>1. /\ p.live \in SUBSET Entry /\ e \in Entry /\ e # NULL
          /\ p.next \in [Entry -> Pointer] /\ e \in Pointer
        BY EntryAssumption DEF ListInv, Chain, Pointer
    <2>2. e \in Reach(e, p.next)
        BY <2>1, ReachClosed
    <2> DEFINE before == p.live \ Reach(e, p.next)
    <2>3. before \in SUBSET p.live /\ before # p.live /\ before \in SUBSET Entry
        BY <2>1, <2>2
    <2>4. IsFiniteSet(p.live) /\ Cardinality(p.live) \in Nat
        BY <2>1, LiveFinite
    <2> HIDE DEF before
    <2>5. Cardinality(before) < Cardinality(p.live)
        BY <2>3, <2>4, LiveFinite, FS_Subset
    <2>6. Reach(p.first, p.next) \ Reach(e, p.next) = before
        BY <1>1 DEF Linked, before
    <2>7. p.length = Cardinality(p.live)
        BY DEF ListInv
    <2>8. Cardinality(before) \in Nat
        BY <2>3, LiveFinite
    <2>9. Cardinality(before) <= Cardinality(p.live)
        BY ONLY <2>4, <2>5, <2>8
    <2> QED BY <2>5, <2>6, <2>7, <2>9 DEF Position
<1> QED BY <1>1, <1>2 DEF Selectable, Drawn

(* The empty playlist. *)
LEMMA InitList == Init => ListInv(pl)
<1> SUFFICES ASSUME Init PROVE ListInv(pl)
    OBVIOUS
<1>1. pl \in PlaylistType
    BY DEF Init, PlaylistType, Pointer
<1>2. /\ pl.first = NULL /\ pl.last = NULL /\ pl.live = {} /\ pl.length = 0 /\ pl.played_items = 0
    BY DEF Init
<1>3. Chain(pl.first, pl.last, pl.live, pl.next, pl.prev)
    BY <1>1, <1>2, ReachNothing DEF Chain, PlaylistType
<1>4. PlayedEntries(pl) = {}
    BY <1>2 DEF PlayedEntries
<1> QED BY <1>1, <1>2, <1>3, <1>4, FS_EmptySet DEF ListInv

-----------------------------------------------------------------------------
(* The operations on the list *)

(* A field of the entries keeps its type. *)
LEMMA SetType ==
    ASSUME NEW T, NEW field \in [Entry -> T], NEW x, NEW y \in T
    PROVE  Set(field, x, y) \in [Entry -> T]
BY DEF Set

(* The types of the fields, one by one. *)
LEMMA FieldTypes ==
    ASSUME NEW p \in PlaylistType
    PROVE  /\ p.first \in Pointer /\ p.last \in Pointer
           /\ p.current \in Pointer /\ p.queue_start \in Pointer
           /\ p.length \in Nat /\ p.played_items \in Nat /\ p.live \in SUBSET Entry
           /\ p.next \in [Entry -> Pointer] /\ p.prev \in [Entry -> Pointer]
           /\ p.played \in [Entry -> BOOLEAN]
           /\ p.queue_pos \in [Entry -> Int] /\ p.next_in_queue \in [Entry -> Pointer]
BY DEF PlaylistType

\* An entry and NULL are pointers.
LEMMA PointerTypes == Entry \subseteq Pointer /\ NULL \in Pointer
BY DEF Pointer

(* An entry appended with its file name. *)
LEMMA AddKeepsList ==
    ASSUME NEW p, ListInv(p), NEW e \in Entry \ p.live, NEW q \in AddItem(p, e, TRUE)
    PROVE  ListInv(q)
<1> DEFINE a == Appended(p, e)
<1>0. /\ p \in PlaylistType /\ Chain(p.first, p.last, p.live, p.next, p.prev)
      /\ p.length = Cardinality(p.live) /\ p.live \in SUBSET Entry
      /\ Cardinality(PlayedEntries(p)) <= p.played_items
    BY DEF ListInv, Chain
<1>p. p \in PlaylistType
    BY <1>0
<1>1. /\ (IF p.first = NULL THEN e ELSE p.first) \in Pointer
      /\ e \in Pointer
      /\ p.live \cup {e} \in SUBSET Entry
      /\ Set(Set(p.next, p.last, e), e, NULL) \in [Entry -> Pointer]
      /\ Set(p.prev, e, p.last) \in [Entry -> Pointer]
      /\ Set(p.played, e, FALSE) \in [Entry -> BOOLEAN]
    BY <1>p, FieldTypes, PointerTypes, SetType
<1>2. a \in PlaylistType
    BY <1>p, <1>1 DEF Appended, PlaylistType
<1>3. /\ a.live = p.live \cup {e}
      /\ a.first = IF p.first = NULL THEN e ELSE p.first
      /\ a.last = e
      /\ a.next = Set(Set(p.next, p.last, e), e, NULL)
      /\ a.prev = Set(p.prev, e, p.last)
      /\ a.played = Set(p.played, e, FALSE)
      /\ a.length = p.length /\ a.played_items = p.played_items
    BY <1>2, <1>p DEF Appended, PlaylistType
<1>4. q = [a EXCEPT !.queue_pos = Set(a.queue_pos, e, 0),
                    !.next_in_queue = Set(a.next_in_queue, e, NULL),
                    !.length = a.length + 1]
    BY DEF AddItem
<1> HIDE DEF a
<1>5. /\ Set(a.queue_pos, e, 0) \in [Entry -> Int]
      /\ Set(a.next_in_queue, e, NULL) \in [Entry -> Pointer]
      /\ a.length + 1 \in Nat
    <2>1. 0 \in Int /\ a.queue_pos \in [Entry -> Int] /\ a.next_in_queue \in [Entry -> Pointer]
        BY <1>2, FieldTypes
    <2>2. a.length + 1 \in Nat
        BY <1>2, FieldTypes
    <2> QED BY <2>1, <2>2, PointerTypes, SetType
<1>6. q \in PlaylistType
    BY <1>2, <1>4, <1>5 DEF PlaylistType
<1>7. /\ q.live = a.live /\ q.first = a.first /\ q.last = a.last
      /\ q.next = a.next /\ q.prev = a.prev /\ q.played = a.played
      /\ q.length = a.length + 1 /\ q.played_items = a.played_items
    BY <1>6, <1>2, <1>4 DEF PlaylistType
<1>8. Chain(q.first, q.last, q.live, q.next, q.prev)
    BY <1>0, <1>3, <1>7, AppendChain
<1>9. q.length = Cardinality(q.live)
    BY <1>0, <1>3, <1>7, LiveFinite, FS_AddElement
<1>10. PlayedEntries(q) = PlayedEntries(p)
    <2>1. \A x \in q.live : q.played[x] <=> x # e /\ p.played[x]
        BY <1>0, <1>3, <1>7 DEF Set
    <2> QED BY <2>1, <1>3, <1>7 DEF PlayedEntries
<1> QED BY <1>0, <1>3, <1>6, <1>7, <1>8, <1>9, <1>10 DEF ListInv

(* An entry inserted inside the list. *)
LEMMA InsertKeepsList ==
    ASSUME NEW p, ListInv(p), NEW s \in p.live, p.next[s] # NULL,
           NEW e \in Entry \ p.live, NEW q \in InsertItemAfter(p, s, e)
    PROVE  ListInv(q)
<1>0. /\ p \in PlaylistType /\ Chain(p.first, p.last, p.live, p.next, p.prev)
      /\ p.length = Cardinality(p.live) /\ p.live \in SUBSET Entry
      /\ Cardinality(PlayedEntries(p)) <= p.played_items
    BY DEF ListInv, Chain
<1>p. p \in PlaylistType
    BY <1>0
<1>u. PICK u \in Uninitialised : q = Inserted(p, s, e, u)
    BY DEF InsertItemAfter
<1>1. /\ p.live \cup {e} \in SUBSET Entry
      /\ Set(Set(p.next, e, p.next[s]), s, e) \in [Entry -> Pointer]
      /\ Set(Set(p.prev, p.next[s], e), e, s) \in [Entry -> Pointer]
      /\ Set(p.played, e, FALSE) \in [Entry -> BOOLEAN]
      /\ Set(p.next_in_queue, e, NULL) \in [Entry -> Pointer]
      /\ Set(p.queue_pos, e, u) \in [Entry -> Int]
      /\ p.length + 1 \in Nat
    <2>1. s \in Entry /\ p.next[s] \in Pointer /\ u \in Int
        BY <1>0, FieldTypes DEF Uninitialised
    <2>2. p.length + 1 \in Nat
        BY <1>p, FieldTypes
    <2>3. /\ p.next \in [Entry -> Pointer] /\ p.prev \in [Entry -> Pointer]
          /\ p.played \in [Entry -> BOOLEAN] /\ p.queue_pos \in [Entry -> Int]
          /\ p.next_in_queue \in [Entry -> Pointer]
          /\ e \in Pointer /\ s \in Pointer /\ NULL \in Pointer /\ p.live \cup {e} \in SUBSET Entry
        BY <1>p, <2>1, FieldTypes, PointerTypes
    <2> QED BY <2>1, <2>2, <2>3, SetType
<1>2. q \in PlaylistType
    BY <1>p, <1>u, <1>1 DEF Inserted, PlaylistType
<1>3. /\ q.live = p.live \cup {e} /\ q.first = p.first /\ q.last = p.last
      /\ q.next = Set(Set(p.next, e, p.next[s]), s, e)
      /\ q.prev = Set(Set(p.prev, p.next[s], e), e, s)
      /\ q.played = Set(p.played, e, FALSE)
      /\ q.length = p.length + 1 /\ q.played_items = p.played_items
    BY <1>2, <1>p, <1>u DEF Inserted, PlaylistType
<1>4. Chain(q.first, q.last, q.live, q.next, q.prev)
    <2>1. Chain(p.first, p.last, p.live \cup {e},
                Set(Set(p.next, e, p.next[s]), s, e), Set(Set(p.prev, p.next[s], e), e, s))
        BY <1>0, InsertChain
    <2> QED BY <2>1, <1>3
<1>5. q.length = Cardinality(q.live)
    BY <1>0, <1>3, LiveFinite, FS_AddElement
<1>6. PlayedEntries(q) = PlayedEntries(p)
    <2>1. \A x \in q.live : q.played[x] <=> x # e /\ p.played[x]
        BY <1>0, <1>3 DEF Set
    <2> QED BY <2>1, <1>3 DEF PlayedEntries
<1> QED BY <1>0, <1>2, <1>3, <1>4, <1>5, <1>6 DEF ListInv

(* Freeing memory changes the fields of what is freed only. *)
LEMMA FreeFields ==
    ASSUME NEW p \in PlaylistType, NEW S \in SUBSET Entry
    PROVE  /\ Free(p, S) \in PlaylistType
           /\ Free(p, S).live = p.live \ S
           /\ Free(p, S).first = p.first /\ Free(p, S).last = p.last
           /\ Free(p, S).length = p.length /\ Free(p, S).played_items = p.played_items
           /\ Free(p, S).queue_start = p.queue_start /\ Free(p, S).current = p.current
           /\ \A e \in Entry \ S : /\ Free(p, S).played[e] = p.played[e]
                                   /\ Free(p, S).next[e] = p.next[e]
                                   /\ Free(p, S).prev[e] = p.prev[e]
<1>1. /\ p.live \ S \in SUBSET Entry
      /\ [e \in Entry |-> IF e \in S THEN NULL ELSE p.next[e]] \in [Entry -> Pointer]
      /\ [e \in Entry |-> IF e \in S THEN NULL ELSE p.prev[e]] \in [Entry -> Pointer]
      /\ [e \in Entry |-> IF e \in S THEN NULL ELSE p.next_in_queue[e]] \in [Entry -> Pointer]
      /\ [e \in Entry |-> e \notin S /\ p.played[e]] \in [Entry -> BOOLEAN]
      /\ [e \in Entry |-> IF e \in S THEN 0 ELSE p.queue_pos[e]] \in [Entry -> Int]
    BY FieldTypes DEF Pointer
<1>2. Free(p, S) \in PlaylistType
    BY <1>1 DEF Free, PlaylistType
<1> QED BY <1>2 DEF Free, PlaylistType

(* The list part of a playlist replaced by one of the same types. *)
LEMMA Relinked ==
    ASSUME NEW a \in PlaylistType, NEW n \in [Entry -> Pointer], NEW b \in [Entry -> Pointer],
           NEW f \in Pointer, NEW l \in Pointer, NEW k \in Nat
    PROVE  [a EXCEPT !.next = n, !.prev = b, !.first = f, !.last = l, !.length = k] \in PlaylistType
BY DEF PlaylistType

(* An entry deleted. *)
LEMMA DeleteKeepsList ==
    ASSUME NEW p, ListInv(p), NEW e \in p.live
    PROVE  ListInv(Deleted(p, e))
<1>0. /\ p \in PlaylistType /\ Chain(p.first, p.last, p.live, p.next, p.prev)
      /\ p.length = Cardinality(p.live) /\ p.live \in SUBSET Entry /\ e \in Entry
      /\ Cardinality(PlayedEntries(p)) <= p.played_items
    BY DEF ListInv, Chain
<1>p. p \in PlaylistType
    BY <1>0
<1> DEFINE a == Free(p, {e})
           f == IF p.prev[e] = NULL THEN p.next[e] ELSE p.first
           l == IF p.next[e] = NULL THEN p.prev[e] ELSE p.last
           n == Set(a.next, p.prev[e], p.next[e])
           b == Set(a.prev, p.next[e], p.prev[e])
           q == Deleted(p, e)
<1>1. IsFiniteSet(p.live) /\ p.length # 0 /\ p.length \in Nat
    BY <1>0, LiveFinite, FS_EmptySet
<1>2. Cardinality(p.live \ {e}) = p.length - 1 /\ IsFiniteSet(p.live \ {e})
    BY <1>0, <1>1, FS_RemoveElement
<1>3. /\ a \in PlaylistType
      /\ a.live = p.live \ {e} /\ a.length = p.length /\ a.played_items = p.played_items
      /\ a.first = p.first /\ a.last = p.last
      /\ a.next \in [Entry -> Pointer] /\ a.prev \in [Entry -> Pointer]
      /\ \A x \in Entry \ {e} : /\ a.next[x] = p.next[x] /\ a.prev[x] = p.prev[x]
                                /\ a.played[x] = p.played[x]
    <2>1. {e} \in SUBSET Entry
        BY <1>0
    <2>2. /\ a \in PlaylistType
          /\ a.live = p.live \ {e} /\ a.length = p.length /\ a.played_items = p.played_items
          /\ a.first = p.first /\ a.last = p.last
          /\ \A x \in Entry \ {e} : /\ a.next[x] = p.next[x] /\ a.prev[x] = p.prev[x]
                                    /\ a.played[x] = p.played[x]
        BY <1>p, <2>1, FreeFields
    <2> HIDE DEF a
    <2> QED BY <2>2, FieldTypes
<1>4. p.next[e] \in Pointer /\ p.prev[e] \in Pointer
    BY <1>p, <1>0, FieldTypes
<1> HIDE DEF a
<1>5. n \in [Entry -> Pointer] /\ b \in [Entry -> Pointer]
    BY <1>3, <1>4, SetType
<1>6. Bridged(e, p.live, p.next, p.prev, n, b)
    BY <1>0, <1>3 DEF Set, Bridged
<1> HIDE DEF n, b
<1>7. Chain(f, l, p.live \ {e}, n, b)
    <2>1. Chain(p.first, p.last, p.live, p.next, p.prev) /\ e \in p.live
        BY <1>0
    <2>2. /\ f = (IF p.prev[e] = NULL THEN p.next[e] ELSE p.first)
          /\ l = (IF p.next[e] = NULL THEN p.prev[e] ELSE p.last)
        OBVIOUS
    <2> HIDE DEF f, l
    <2> QED BY <2>1, <2>2, <1>5, <1>6, DeleteChain
\* The check for length 0 after the four cases has nothing left to do.
<1>8. p.length = 1 => f = NULL /\ l = NULL
    <2> SUFFICES ASSUME p.length = 1 PROVE f = NULL /\ l = NULL
        OBVIOUS
    <2>1. p.live \ {e} = {}
        BY <1>2, FS_EmptySet
    <2> HIDE DEF f, l
    <2> QED BY <2>1, <1>7 DEF Chain
<1>9. q = [a EXCEPT !.next = n, !.prev = b, !.first = f, !.last = l, !.length = p.length - 1]
    <2>1. q = [a EXCEPT !.next = n, !.prev = b,
                        !.first = IF p.length = 1 THEN NULL ELSE IF p.prev[e] = NULL THEN p.next[e] ELSE a.first,
                        !.last = IF p.length = 1 THEN NULL ELSE IF p.next[e] = NULL THEN p.prev[e] ELSE a.last,
                        !.length = a.length - 1]
        BY <1>1 DEF Deleted, a, n, b
    <2>2. /\ (IF p.length = 1 THEN NULL ELSE IF p.prev[e] = NULL THEN p.next[e] ELSE a.first) = f
          /\ (IF p.length = 1 THEN NULL ELSE IF p.next[e] = NULL THEN p.prev[e] ELSE a.last) = l
        BY <1>3, <1>8
    <2> HIDE DEF f, l
    <2> QED BY <2>1, <2>2, <1>3
<1>10. f \in Pointer /\ l \in Pointer /\ p.length - 1 \in Nat
    BY <1>p, <1>1, <1>4, FieldTypes
<1> HIDE DEF f, l
<1>11. q \in PlaylistType
    <2>1. a \in PlaylistType
        BY <1>3
    <2> HIDE DEF q
    <2> QED BY <2>1, <1>5, <1>9, <1>10, Relinked
<1>12. /\ q.live = a.live /\ q.first = f /\ q.last = l /\ q.next = n /\ q.prev = b
       /\ q.length = p.length - 1 /\ q.played = a.played /\ q.played_items = a.played_items
    BY <1>3, <1>9, <1>11 DEF PlaylistType
<1> HIDE DEF q
<1>13. Chain(q.first, q.last, q.live, q.next, q.prev)
    BY <1>3, <1>7, <1>12
<1>14. PlayedEntries(q) \subseteq PlayedEntries(p)
    BY <1>0, <1>3, <1>12 DEF PlayedEntries
<1>15. Cardinality(PlayedEntries(q)) <= q.played_items
    <2>1. /\ IsFiniteSet(PlayedEntries(p)) /\ Cardinality(PlayedEntries(p)) \in Nat
          /\ Cardinality(PlayedEntries(q)) \in Nat /\ p.played_items \in Nat
        BY <1>p, <1>11, PlayedFinite, LiveFinite, FieldTypes
    <2>2. Cardinality(PlayedEntries(q)) <= Cardinality(PlayedEntries(p))
        BY <2>1, <1>14, FS_Subset
    <2> QED BY <2>1, <2>2, <1>0, <1>3, <1>12
<1>16. q.length = Cardinality(q.live)
    BY <1>2, <1>3, <1>12
<1>17. ListInv(q)
    BY <1>11, <1>13, <1>15, <1>16 DEF ListInv
<1> QED BY <1>17 DEF q

(* The playlist cleared. *)
LEMMA ClearKeepsList ==
    ASSUME NEW p, ListInv(p)
    PROVE  ListInv(Cleared(p))
<1>p. p \in PlaylistType /\ Linked(p) = p.live /\ p.live \in SUBSET Entry
    BY AllSelectable DEF ListInv, Chain
<1> DEFINE a == Free(p, Linked(p))
           q == Cleared(p)
<1>1. a \in PlaylistType /\ a.live = {}
    BY <1>p, FreeFields
<1>2. q = [a EXCEPT !.length = 0, !.current = NULL, !.first = NULL, !.last = NULL,
                    !.played_items = 0, !.queue_start = NULL]
    BY DEF Cleared
<1> HIDE DEF a, q
<1>3. 0 \in Nat /\ NULL \in Pointer
    BY PointerTypes
<1>4. q \in PlaylistType
    BY <1>1, <1>2, <1>3 DEF PlaylistType
<1>5. q.live = {} /\ q.first = NULL /\ q.last = NULL /\ q.length = 0 /\ q.played_items = 0
    BY <1>1, <1>2, <1>4 DEF PlaylistType
<1>6. Chain(q.first, q.last, q.live, q.next, q.prev)
    BY <1>4, <1>5, FieldTypes, ReachNothing DEF Chain
<1>7. PlayedEntries(q) = {}
    BY <1>5 DEF PlayedEntries
<1>8. ListInv(q)
    BY <1>4, <1>5, <1>6, <1>7, FS_EmptySet DEF ListInv
<1> QED BY <1>8 DEF q

(* The marks of random play cleared: the walk meets every entry. *)
LEMMA ResetKeepsList ==
    ASSUME NEW p, ListInv(p)
    PROVE  ListInv(ResetRandom(p)) /\ ResetRandom(p).live = p.live
<1>p. p \in PlaylistType /\ Linked(p) = p.live
    BY AllSelectable DEF ListInv
<1> DEFINE m == [e \in Entry |-> e \notin Linked(p) /\ p.played[e]]
           q == ResetRandom(p)
<1>1. m \in [Entry -> BOOLEAN] /\ \A e \in p.live : e \in Entry => m[e] = FALSE
    BY <1>p
<1>2. q = [p EXCEPT !.played = m, !.played_items = 0]
    BY DEF ResetRandom
<1> HIDE DEF m, q
<1>3. q \in PlaylistType
    BY <1>p, <1>1, <1>2 DEF PlaylistType
<1>4. /\ q.live = p.live /\ q.first = p.first /\ q.last = p.last /\ q.next = p.next
      /\ q.prev = p.prev /\ q.length = p.length /\ q.played = m /\ q.played_items = 0
    BY <1>p, <1>2, <1>3 DEF PlaylistType
<1>5. PlayedEntries(q) = {}
    BY <1>p, <1>1, <1>4, FieldTypes DEF PlayedEntries
<1>6. ListInv(q)
    BY <1>3, <1>4, <1>5, FS_EmptySet DEF ListInv
<1> QED BY <1>4, <1>6 DEF q

(* An entry chosen: when the mode marks it, the count keeps up. *)
LEMMA SetCurrentKeepsList ==
    ASSUME NEW p, ListInv(p), NEW e \in p.live \cup {NULL}
    PROVE  ListInv(SetCurrent(p, e)) /\ SetCurrent(p, e).live = p.live
<1>0. /\ p \in PlaylistType /\ Chain(p.first, p.last, p.live, p.next, p.prev)
      /\ p.length = Cardinality(p.live) /\ p.live \in SUBSET Entry /\ NULL \notin p.live
      /\ Cardinality(PlayedEntries(p)) <= p.played_items
    BY EntryAssumption DEF ListInv, Chain
<1>p. p \in PlaylistType
    BY <1>0
<1> DEFINE q == SetCurrent(p, e)
<1>1. CASE e = NULL
    <2>1. q = [p EXCEPT !.current = NULL]
        BY <1>1 DEF SetCurrent
    <2> HIDE DEF q
    <2>2. q \in PlaylistType
        BY <2>1, <1>p, PointerTypes DEF PlaylistType
    <2>3. /\ q.first = p.first /\ q.last = p.last /\ q.live = p.live
          /\ q.next = p.next /\ q.prev = p.prev /\ q.length = p.length
          /\ q.played = p.played /\ q.played_items = p.played_items
        BY <2>1, <2>2, <1>p DEF PlaylistType
    <2>4. ListInv(q)
        BY <2>2, <2>3, SameList
    <2> QED BY <2>3, <2>4 DEF q
<1>2. CASE e # NULL
    <2> DEFINE m == Set(p.played, e, p.played[e] \/ p.play_mode \in RandomMode)
    <2>1. q = [p EXCEPT !.current = e, !.played = m, !.played_items = p.played_items + 1]
        BY <1>2 DEF SetCurrent
    <2>2. e \in p.live /\ e \in Pointer
        BY <1>2, <1>0, PointerTypes
    <2>3. m \in [Entry -> BOOLEAN]
        BY <1>p, FieldTypes, SetType
    <2>4. p.played_items + 1 \in Nat /\ p.played_items \in Nat
        BY <1>p, FieldTypes
    <2>5. \A x \in p.live \ {e} : m[x] = p.played[x]
        BY <1>0 DEF Set
    <2> HIDE DEF q, m
    <2>6. q \in PlaylistType
        BY <1>p, <2>1, <2>2, <2>3, <2>4 DEF PlaylistType
    <2>7. /\ q.live = p.live /\ q.first = p.first /\ q.last = p.last /\ q.next = p.next
          /\ q.prev = p.prev /\ q.length = p.length /\ q.played = m
          /\ q.played_items = p.played_items + 1
        BY <1>p, <2>1, <2>6 DEF PlaylistType
    <2>8. PlayedEntries(q) \subseteq PlayedEntries(p) \cup {e}
        BY <2>5, <2>7 DEF PlayedEntries
    <2>9. Cardinality(PlayedEntries(q)) <= q.played_items
        <3>1. /\ IsFiniteSet(PlayedEntries(p)) /\ Cardinality(PlayedEntries(p)) \in Nat
              /\ Cardinality(PlayedEntries(q)) \in Nat
            BY <1>p, <2>6, PlayedFinite, LiveFinite
        <3> DEFINE T == PlayedEntries(p) \cup {e}
        <3>2. IsFiniteSet(T) /\ (Cardinality(T) = Cardinality(PlayedEntries(p))
                                 \/ Cardinality(T) = Cardinality(PlayedEntries(p)) + 1)
            BY <3>1, FS_AddElement
        <3>3. Cardinality(PlayedEntries(q)) <= Cardinality(T)
            BY <3>2, <2>8, FS_Subset
        <3> HIDE DEF T
        <3> QED BY <3>1, <3>2, <3>3, <2>4, <2>7, <1>0
    <2>10. ListInv(q)
        BY <1>0, <2>6, <2>7, <2>9 DEF ListInv
    <2> QED BY <2>7, <2>10 DEF q
<1> QED BY <1>1, <1>2

-----------------------------------------------------------------------------
(* The queue, the current entry and the mode are not part of the list *)

\* Enqueueing and dequeueing an entry leave the list of tracks as it is.
LEMMA EnqueueKeepsList ==
    ASSUME NEW p, ListInv(p), NEW e \in p.live
    PROVE  ListInv(EntryEnqueue(p, e))
<1>p. p \in PlaylistType /\ e \in Entry
    BY DEF ListInv, Chain
<1>t. /\ p.next_in_queue \in [Entry -> Pointer] /\ p.queue_pos \in [Entry -> Int]
      /\ p.queue_start \in Pointer /\ e \in Pointer /\ NULL \in Pointer
      /\ p.next_in_queue[e] \in Pointer
    BY <1>p, FieldTypes, PointerTypes
<1>1. ListInv(EnqueuedLast(p, e))
    <2> DEFINE link == [x \in Entry |-> IF x \in QueueEnd(p) THEN e ELSE p.next_in_queue[x]]
               s == IF p.queue_start = NULL THEN e ELSE p.queue_start
               n == Set(link, e, NULL)
               k == Set(p.queue_pos, e, Cardinality(Queued(p)) + 1)
               q == EnqueuedLast(p, e)
    <2>1. q = [p EXCEPT !.queue_start = s, !.next_in_queue = n, !.queue_pos = k]
        BY DEF EnqueuedLast
    <2>2. s \in Pointer
        BY <1>t
    <2>3. link \in [Entry -> Pointer]
        BY <1>t
    <2>4. n \in [Entry -> Pointer]
        BY <1>t, <2>3, SetType
    <2>5. Cardinality(Queued(p)) + 1 \in Int
        <3>1. Queued(p) \in SUBSET Entry
            BY DEF Queued, Reach
        <3> QED BY <3>1, LiveFinite
    <2>6. k \in [Entry -> Int]
        BY <1>t, <2>5, SetType
    <2> HIDE DEF q, s, n, k, link
    <2>7. q \in PlaylistType
        BY <1>p, <2>1, <2>2, <2>4, <2>6 DEF PlaylistType
    <2>8. /\ q.first = p.first /\ q.last = p.last /\ q.live = p.live
          /\ q.next = p.next /\ q.prev = p.prev /\ q.length = p.length
          /\ q.played = p.played /\ q.played_items = p.played_items
        BY <1>p, <2>1, <2>7 DEF PlaylistType
    <2>9. ListInv(q)
        BY <2>7, <2>8, SameList
    <2> QED BY <2>9 DEF q
<1>2. ASSUME e \in Queued(p) PROVE ListInv(Dequeued(p, e))
    <2> DEFINE s == IF p.queue_start = e THEN p.next_in_queue[e] ELSE p.queue_start
               n == [x \in Entry |->
                        IF x = e THEN NULL
                        ELSE IF x \in Queued(p) /\ p.next_in_queue[x] = e THEN p.next_in_queue[e]
                        ELSE p.next_in_queue[x]]
               k == [x \in Entry |->
                        IF x = e THEN 0
                        ELSE IF x \in Behind(p, e) THEN p.queue_pos[x] - 1
                        ELSE p.queue_pos[x]]
               q == Dequeued(p, e)
    <2>1. q = [p EXCEPT !.queue_start = s, !.next_in_queue = n, !.queue_pos = k]
        BY <1>2 DEF Dequeued
    <2>2. s \in Pointer
        BY <1>t
    <2>3. n \in [Entry -> Pointer]
        BY <1>t
    <2>4. k \in [Entry -> Int]
        BY <1>t
    <2> HIDE DEF q, s, n, k
    <2>5. q \in PlaylistType
        BY <1>p, <2>1, <2>2, <2>3, <2>4 DEF PlaylistType
    <2>6. /\ q.first = p.first /\ q.last = p.last /\ q.live = p.live
          /\ q.next = p.next /\ q.prev = p.prev /\ q.length = p.length
          /\ q.played = p.played /\ q.played_items = p.played_items
        BY <1>p, <2>1, <2>5 DEF PlaylistType
    <2>7. ListInv(q)
        BY <2>5, <2>6, SameList
    <2> QED BY <2>7 DEF q
<1>3. e \notin Queued(p) => Dequeued(p, e) = p
    BY DEF Dequeued
<1> QED BY <1>1, <1>2, <1>3 DEF EntryEnqueue

\* So does taking the head of the queue.
LEMMA FromQueueKeepsList ==
    ASSUME NEW p, ListInv(p), p.queue_start # NULL
    PROVE  ListInv(FromQueue(p)) /\ FromQueue(p).live = p.live
<1>p. p \in PlaylistType
    BY DEF ListInv
<1> DEFINE s == p.next_in_queue[p.queue_start]
           k == [e \in Entry |-> IF e \in Queued(p)
                                 THEN Position(p.queue_start, p.next_in_queue, e)
                                 ELSE p.queue_pos[e]]
           q == FromQueue(p)
<1>1. q = [p EXCEPT !.current = p.queue_start, !.queue_start = s, !.queue_pos = k]
    BY DEF FromQueue
<1>2. s \in Pointer /\ p.queue_start \in Pointer
    <2>1. p.queue_start \in Entry
        BY <1>p, FieldTypes DEF Pointer
    <2> QED BY <2>1, <1>p, FieldTypes
<1>3. k \in [Entry -> Int]
    <2>1. ASSUME NEW e \in Entry
          PROVE  Position(p.queue_start, p.next_in_queue, e) \in Int
        <3>1. Reach(p.queue_start, p.next_in_queue) \ Reach(e, p.next_in_queue) \in SUBSET Entry
            BY DEF Reach
        <3> QED BY <3>1, LiveFinite DEF Position
    <2> QED BY <1>p, <2>1, FieldTypes
<1> HIDE DEF q, s, k
<1>4. q \in PlaylistType
    BY <1>p, <1>1, <1>2, <1>3 DEF PlaylistType
<1>5. /\ q.first = p.first /\ q.last = p.last /\ q.live = p.live
      /\ q.next = p.next /\ q.prev = p.prev /\ q.length = p.length
      /\ q.played = p.played /\ q.played_items = p.played_items
    BY <1>p, <1>1, <1>4 DEF PlaylistType
<1>6. ListInv(q)
    BY <1>4, <1>5, SameList
<1> QED BY <1>5, <1>6 DEF q

\* So does moving to an entry, if there is one to move to.
LEMMA MoveToKeepsList ==
    ASSUME NEW p, ListInv(p), NEW e \in Pointer
    PROVE  /\ ListInv(MoveTo(p, e).pl) /\ MoveTo(p, e).pl.live = p.live
           /\ MoveTo(p, e).found \in BOOLEAN
<1>p. p \in PlaylistType
    BY DEF ListInv
<1>1. CASE e = NULL
    BY <1>1 DEF MoveTo, NotFound
<1>2. CASE e # NULL
    <2> DEFINE q == [p EXCEPT !.current = e]
    <2>1. MoveTo(p, e) = [found |-> TRUE, pl |-> q]
        BY <1>2 DEF MoveTo, Found
    <2>2. q \in PlaylistType
        BY <1>p DEF PlaylistType
    <2>3. /\ q.first = p.first /\ q.last = p.last /\ q.live = p.live
          /\ q.next = p.next /\ q.prev = p.prev /\ q.length = p.length
          /\ q.played = p.played /\ q.played_items = p.played_items
        BY <1>p, <2>2 DEF PlaylistType
    <2> HIDE DEF q
    <2>4. ListInv(q)
        BY <2>2, <2>3, SameList
    <2> QED BY <2>1, <2>3, <2>4
<1> QED BY <1>1, <1>2

-----------------------------------------------------------------------------
(* playlist_next, playlist_prev and what is built on them *)

(* What an outcome of playlist_next or playlist_prev leaves behind. *)
Kept(r, p) == ListInv(r.pl) /\ r.pl.live = p.live /\ r.found \in BOOLEAN

\* So does starting over when all entries have been played.
LEMMA StartOverKeepsList ==
    ASSUME NEW p, NEW b \in BOOLEAN, ListInv(p)
    PROVE  Kept(StartOver([found |-> b, pl |-> p]), p)
<1> DEFINE r == [found |-> b, pl |-> p]
<1>1. CASE p.play_mode = "random_repeat" /\ p.played_items >= p.length
    <2>1. StartOver(r) = [found |-> b, pl |-> ResetRandom(p)]
        BY <1>1 DEF StartOver
    <2> HIDE DEF r
    <2> QED BY <2>1, ResetKeepsList DEF Kept, r
<1>2. CASE ~(p.play_mode = "random_repeat" /\ p.played_items >= p.length)
    BY <1>2 DEF StartOver, Kept
<1> QED BY <1>1, <1>2

\* playlist_next keeps the list, in every play mode.
LEMMA NextKeepsList ==
    ASSUME NEW p, ListInv(p), NEW r \in PlaylistNext(p)
    PROVE  Kept(r, p)
<1>p. p \in PlaylistType
    BY DEF ListInv
<1>1. CASE p.queue_start # NULL
    <2>1. r = [found |-> TRUE, pl |-> FromQueue(p)]
        BY <1>1 DEF PlaylistNext, Found
    <2>2. ListInv(FromQueue(p)) /\ FromQueue(p).live = p.live
        BY <1>1, FromQueueKeepsList
    <2>3. r.pl = FromQueue(p) /\ r.found = TRUE
        BY <2>1
    <2> QED BY <2>2, <2>3 DEF Kept
<1>2. ASSUME r \in NextRandom(p) PROVE Kept(r, p)
    <2>1. CASE p.played_items < p.length
        <3>1. PICK e \in Unplayed(p) : r = StartOver([found |-> TRUE, pl |-> SetCurrent(p, e)])
            BY <1>2, <2>1 DEF NextRandom, Found
        <3>2. e \in p.live
            BY AllSelectable DEF Unplayed
        <3>3. ListInv(SetCurrent(p, e)) /\ SetCurrent(p, e).live = p.live
            BY <3>2, SetCurrentKeepsList
        <3>4. Kept(r, SetCurrent(p, e))
            BY <3>1, <3>3, StartOverKeepsList
        <3> QED BY <3>3, <3>4 DEF Kept
    <2>2. CASE ~(p.played_items < p.length)
        <3>1. r = StartOver([found |-> FALSE, pl |-> p])
            BY <1>2, <2>2 DEF NextRandom, NotFound
        <3> QED BY <3>1, StartOverKeepsList
    <2> QED BY <2>1, <2>2
<1>3. ASSUME NEW e \in Pointer, r = MoveTo(p, e) PROVE Kept(r, p)
    BY <1>3, MoveToKeepsList DEF Kept
<1>4. /\ p.first \in Pointer /\ p.current \in Pointer
      /\ Following(p) \in Pointer
    BY <1>p, FieldTypes DEF Following, Pointer
<1>5. CASE p.queue_start = NULL
    <2>1. CASE p.play_mode \in RandomMode
        BY <1>2, <1>5, <2>1 DEF PlaylistNext
    <2>2. CASE p.play_mode \notin RandomMode
        <3>1. \E e \in Pointer : r = MoveTo(p, e)
            BY <1>4, <1>5, <2>2 DEF PlaylistNext, RoundAgain
        <3> QED BY <3>1, <1>3
    <2> QED BY <2>1, <2>2
<1> QED BY <1>1, <1>5

\* playlist_prev keeps the list.
LEMMA PrevKeepsList ==
    ASSUME NEW p, ListInv(p)
    PROVE  Kept(PlaylistPrev(p), p)
<1>p. p \in PlaylistType
    BY DEF ListInv
<1>1. /\ p.last \in Pointer
      /\ p.current # NULL => p.prev[p.current] \in Pointer
    BY <1>p, FieldTypes DEF Pointer
<1>2. ASSUME NEW r, NEW b \in BOOLEAN, r = [found |-> b, pl |-> p] PROVE Kept(r, p)
    <2>1. r.pl = p /\ r.found = b
        BY <1>2
    <2> QED BY <2>1 DEF Kept
<1>3. ASSUME NEW e \in Pointer PROVE Kept(MoveTo(p, e), p)
    BY MoveToKeepsList DEF Kept
<1>4. Kept(Found(p), p) /\ Kept(NotFound(p), p)
    BY <1>2 DEF Found, NotFound
<1>5. \/ PlaylistPrev(p) = Found(p) \/ PlaylistPrev(p) = NotFound(p)
      \/ PlaylistPrev(p) = MoveTo(p, p.last)
      \/ PlaylistPrev(p) = NotFound(SetCurrent(p, NULL))
      \/ p.current # NULL /\ PlaylistPrev(p) = MoveTo(p, p.prev[p.current])
    BY DEF PlaylistPrev, MoveTo, Found, NotFound, SetCurrent
<1>6. CASE PlaylistPrev(p) = Found(p) \/ PlaylistPrev(p) = NotFound(p)
    BY <1>4, <1>6
<1>7. CASE PlaylistPrev(p) = MoveTo(p, p.last)
    BY <1>1, <1>3, <1>7
<1>8. CASE p.current # NULL /\ PlaylistPrev(p) = MoveTo(p, p.prev[p.current])
    BY <1>1, <1>3, <1>8
<1>9. CASE PlaylistPrev(p) = NotFound(SetCurrent(p, NULL))
    <2> DEFINE q == SetCurrent(p, NULL)
    <2>1. ListInv(q) /\ q.live = p.live
        BY SetCurrentKeepsList
    <2> HIDE DEF q
    <2> QED BY <1>9, <2>1 DEF Kept, NotFound, q
<1> QED BY <1>5, <1>6, <1>7, <1>8, <1>9

\* gmu_core_stop keeps the list.
LEMMA StoppedKeepsList ==
    ASSUME NEW p, ListInv(p), NEW status \in BOOLEAN
    PROVE  ListInv(Stopped(p, status)) /\ Stopped(p, status).live = p.live
BY ResetKeepsList, SetCurrentKeepsList DEF Stopped

\* Going on to the next track, or stopping where there is none, keeps the list.
LEMMA NextOrStopKeepsList ==
    ASSUME NEW p, ListInv(p), playing \in BOOLEAN, NEW r \in NextOrStop(p)
    PROVE  ListInv(r.pl) /\ r.pl.live = p.live /\ r.playing \in BOOLEAN
<1>1. PICK s \in PlaylistNext(p) :
        r = [pl |-> IF s.found THEN s.pl ELSE Stopped(s.pl, playing), playing |-> s.found]
    BY DEF NextOrStop
<1>2. ListInv(s.pl) /\ s.pl.live = p.live /\ s.found \in BOOLEAN
    BY NextKeepsList DEF Kept
<1>3. ListInv(Stopped(s.pl, playing)) /\ Stopped(s.pl, playing).live = p.live
    BY <1>2, StoppedKeepsList
<1> QED BY <1>1, <1>2, <1>3

-----------------------------------------------------------------------------
(* The invariant of the specification *)

Inv == ListInv(pl) /\ playing \in BOOLEAN

\* Every operation of the user and of the main loop keeps the list.
LEMMA StepInv ==
    ASSUME Sound, Inv, [Next]_vars
    PROVE  Inv'
<1>0. ListInv(pl) /\ playing \in BOOLEAN /\ pl \in PlaylistType
    BY DEF Inv, ListInv
<1>s. Selectable(pl) = pl.live
    BY <1>0, AllSelectable
<1>1. CASE Add
    <2>1. PICK e \in New : pl' \in AddItem(pl, e, TRUE)
        BY <1>1 DEF Add, Sound
    <2> QED BY <1>0, <1>1, <2>1, AddKeepsList DEF Add, New, Inv
<1>2. CASE Insert
    <2>1. PICK s \in pl.live, e \in New : pl.next[s] # NULL /\ pl' \in InsertItemAfter(pl, s, e)
        BY <1>2, <1>s DEF Insert, Sound
    <2> QED BY <1>0, <1>2, <2>1, InsertKeepsList DEF Insert, New, Inv
<1>3. CASE Remove
    <2>1. PICK e \in pl.live :
            \E r \in IF e = pl.current THEN NextOrStop(pl) ELSE {[pl |-> pl, playing |-> playing]} :
                pl' = Deleted(r.pl, e) /\ playing' = r.playing
        BY <1>3, <1>s DEF Remove
    <2>2. PICK r \in IF e = pl.current THEN NextOrStop(pl) ELSE {[pl |-> pl, playing |-> playing]} :
                pl' = Deleted(r.pl, e) /\ playing' = r.playing
        BY <2>1
    <2>3. ListInv(r.pl) /\ r.pl.live = pl.live /\ r.playing \in BOOLEAN
        BY <1>0, NextOrStopKeepsList
    <2> QED BY <2>2, <2>3, DeleteKeepsList DEF Inv
<1>4. CASE Clear
    BY <1>0, <1>4, ClearKeepsList DEF Clear, Inv
<1>5. CASE Enqueue
    BY <1>0, <1>s, <1>5, EnqueueKeepsList DEF Enqueue, Inv
<1>6. CASE CycleMode
    <2> DEFINE q == [pl EXCEPT !.play_mode = ModeAfter[pl.play_mode]]
    <2>1. pl' = q /\ playing' = playing
        BY <1>6 DEF CycleMode
    <2>2. ModeAfter[pl.play_mode] \in PlayMode
        <3>1. pl.play_mode \in PlayMode
            BY <1>0 DEF PlaylistType
        <3> QED BY <3>1 DEF PlayMode, ModeAfter
    <2>3. q \in PlaylistType
        BY <1>0, <2>2 DEF PlaylistType
    <2>4. /\ q.first = pl.first /\ q.last = pl.last /\ q.live = pl.live
          /\ q.next = pl.next /\ q.prev = pl.prev /\ q.length = pl.length
          /\ q.played = pl.played /\ q.played_items = pl.played_items
        BY <1>0, <2>3 DEF PlaylistType
    <2> HIDE DEF q
    <2>5. ListInv(q)
        BY <1>0, <2>3, <2>4, SameList
    <2> QED BY <1>0, <2>1, <2>5 DEF Inv
<1>7. CASE AskDelete
    BY <1>0, <1>7, ResetKeepsList DEF AskDelete, Inv
<1>8. CASE NextTrack
    BY <1>0, <1>8, NextKeepsList DEF NextTrack, Kept, Inv
<1>9. CASE TrackEnds
    BY <1>0, <1>9, NextOrStopKeepsList DEF TrackEnds, Inv
<1>10. CASE PreviousTrack
    BY <1>0, <1>10, PrevKeepsList DEF PreviousTrack, Kept, Inv
<1>11. CASE PlayItem
    <2>1. PICK e \in pl.live \cup {NULL} : pl' = SetCurrent(pl, e) \/ pl' = pl
        BY <1>0, <1>11, AllSelectable DEF PlayItem
    <2> QED BY <1>0, <1>11, <2>1, SetCurrentKeepsList DEF PlayItem, Inv
<1>12. CASE PlayFile
    BY <1>0, <1>12, SetCurrentKeepsList DEF PlayFile, Inv
<1>13. CASE Stop
    BY <1>0, <1>13, StoppedKeepsList DEF Stop, Inv
<1>14. CASE UNCHANGED vars
    BY <1>0, <1>14 DEF vars, Inv
<1> QED BY <1>1, <1>2, <1>3, <1>4, <1>5, <1>6, <1>7, <1>8, <1>9, <1>10, <1>11, <1>12, <1>13, <1>14
        DEF Next

\* The list is well formed after every sequence of the sound operations.
THEOREM Invariance == Sound => (Spec => []Inv)
<1> SUFFICES ASSUME Sound PROVE Spec => []Inv
    OBVIOUS
<1>1. Init => Inv
    BY InitList DEF Init, Inv
<1>2. Inv /\ [Next]_vars => Inv'
    BY StepInv
<1> QED BY <1>1, <1>2, PTL DEF Spec

-----------------------------------------------------------------------------
(* No entry is lost: whatever is added, inserted and removed, in whatever  *)
(* order, a walk from pl->first meets every entry (playlist.c, 73-117,     *)
(* 233-258 and 341-371 keep first, last, next and prev consistent).        *)
THEOREM NothingIsLost == Sound => (Spec => []NothingLost)
<1>1. Inv => NothingLost
    BY AllSelectable DEF Inv, NothingLost
<1> QED BY <1>1, Invariance, PTL

(* Unless a track is inserted after the last one or getcwd fails,          *)
(* pl->length is not more than the entries there are: what a frontend      *)
(* selects by an index below it, playlist_get_entry finds (playlist.c,     *)
(* 615-629).  Of the random draw, which can have the number pl->length     *)
(* itself (477), this says nothing.                                        *)
THEOREM CountedAreAlwaysLinked == Sound => (Spec => []CountedAreLinked)
<1>1. Inv => CountedAreLinked
    <2> SUFFICES ASSUME Inv PROVE CountedAreLinked
        OBVIOUS
    <2>1. pl.length = Cardinality(Linked(pl)) /\ pl.length \in Nat
        BY AllSelectable, FieldTypes DEF Inv, ListInv
    <2> QED BY <2>1 DEF CountedAreLinked
<1> QED BY <1>1, Invariance, PTL

(* The repeated random draw of playlist_next ends: while fewer items count *)
(* as played than the list has, one of the entries it draws from has not   *)
(* been played, because every mark has been counted.                       *)
THEOREM RetryAlwaysEnds == Sound => (Spec => []RetryEnds)
<1>1. Inv => RetryEnds
    <2> SUFFICES ASSUME Inv, pl.played_items < pl.length PROVE Unplayed(pl) # {}
        BY DEF RetryEnds
    <2>1. /\ pl \in PlaylistType /\ pl.length = Cardinality(pl.live)
          /\ Cardinality(PlayedEntries(pl)) <= pl.played_items
          /\ Drawn(pl) = pl.live
        BY AllSelectable DEF Inv, ListInv
    <2>2. Cardinality(PlayedEntries(pl)) \in Nat /\ pl.played_items \in Nat /\ pl.length \in Nat
        BY <2>1, PlayedFinite, LiveFinite, FieldTypes
    <2>3. PlayedEntries(pl) # pl.live
        BY <2>1, <2>2
    <2> QED BY <2>1, <2>3 DEF Unplayed, PlayedEntries
<1> QED BY <1>1, Invariance, PTL

-----------------------------------------------------------------------------
(* Positions in a linked list, as plain values *)

\* A walk meets its first entry and then what the entry behind it meets.
LEMMA ReachStep ==
    ASSUME NEW link \in [Entry -> Pointer], NEW x \in Entry
    PROVE  Reach(x, link) = {x} \cup Reach(link[x], link)
<1> DEFINE S == {x} \cup Reach(link[x], link)
<1>1. x \in Pointer /\ x # NULL /\ link[x] \in Pointer
    BY EntryAssumption DEF Pointer
<1>2. /\ Reach(link[x], link) \subseteq Entry /\ link[x] \in Reach(link[x], link) \cup {NULL}
      /\ \A y \in Reach(link[x], link) : link[y] \in Reach(link[x], link) \cup {NULL}
    BY <1>1, ReachClosed
<1>3. /\ Reach(x, link) \subseteq Entry /\ x \in Reach(x, link)
      /\ \A y \in Reach(x, link) : link[y] \in Reach(x, link) \cup {NULL}
    BY <1>1, ReachClosed
<1>4. Reach(x, link) \subseteq S
    <2>1. S \in SUBSET Entry /\ x \in S \cup {NULL} /\ \A y \in S : link[y] \in S \cup {NULL}
        BY <1>2
    <2> HIDE DEF S
    <2> QED BY <2>1, ReachLeast
<1>5. Reach(link[x], link) \subseteq Reach(x, link)
    BY <1>3, ReachLeast
<1> QED BY <1>3, <1>4, <1>5

\* A walk that begins at an entry met by another one meets no more than that.
LEMMA ReachSub ==
    ASSUME NEW link \in [Entry -> Pointer], NEW start \in Pointer,
           NEW x \in Reach(start, link) \cup {NULL}
    PROVE  Reach(x, link) \subseteq Reach(start, link)
BY ReachClosed, ReachLeast

\* Of two entries met by one walk, one comes after the other or they are the same.
LEMMA ReachLinear ==
    ASSUME NEW link \in [Entry -> Pointer], NEW start \in Pointer,
           NEW x \in Reach(start, link), NEW y \in Reach(start, link)
    PROVE  y \in Reach(x, link) \/ x \in Reach(link[y], link)
<1> DEFINE S == {z \in Reach(start, link) : y \in Reach(z, link) \/ z \in Reach(link[y], link)}
<1>1. /\ Reach(start, link) \subseteq Entry /\ start \in Reach(start, link) \cup {NULL}
      /\ \A z \in Reach(start, link) : link[z] \in Reach(start, link) \cup {NULL}
    BY ReachClosed
<1>2. S \in SUBSET Entry /\ start \in S \cup {NULL}
    BY <1>1
<1>3. ASSUME NEW z \in S PROVE link[z] \in S \cup {NULL}
    <2>1. z \in Entry /\ y \in Entry /\ link[z] \in Reach(start, link) \cup {NULL}
        BY <1>1
    <2>2. /\ link[y] \in Pointer /\ link[y] \in Reach(link[y], link) \cup {NULL}
          /\ \A w \in Reach(link[y], link) : link[w] \in Reach(link[y], link) \cup {NULL}
        BY <2>1, ReachClosed
    <2>3. Reach(z, link) = {z} \cup Reach(link[z], link)
        BY <2>1, ReachStep
    <2>4. CASE z \in Reach(link[y], link)
        BY <2>1, <2>2, <2>4
    <2>5. CASE y = z
        BY <2>1, <2>2, <2>5
    <2>6. CASE y \in Reach(link[z], link)
        BY <2>1, <2>6
    <2> QED BY <2>3, <2>4, <2>5, <2>6
<1> HIDE DEF S
<1>4. Reach(start, link) \subseteq S
    BY <1>2, <1>3, ReachLeast
<1> QED BY <1>4 DEF S

\* Links that agree on what a walk meets give the same walk.
LEMMA ReachSame ==
    ASSUME NEW link \in [Entry -> Pointer], NEW n \in [Entry -> Pointer], NEW start \in Pointer,
           \A x \in Reach(start, link) : n[x] = link[x]
    PROVE  Reach(start, n) = Reach(start, link)
<1>1. /\ Reach(start, link) \subseteq Entry /\ start \in Reach(start, link) \cup {NULL}
      /\ \A x \in Reach(start, link) : link[x] \in Reach(start, link) \cup {NULL}
    BY ReachClosed
<1>2. /\ Reach(start, n) \subseteq Entry /\ start \in Reach(start, n) \cup {NULL}
      /\ \A x \in Reach(start, n) : n[x] \in Reach(start, n) \cup {NULL}
    BY ReachClosed
<1>3. Reach(start, n) \subseteq Reach(start, link)
    BY <1>1, ReachLeast
<1>4. Reach(start, link) \subseteq Reach(start, n)
    BY <1>1, <1>2, <1>3, ReachLeast
<1> QED BY <1>3, <1>4

(* A walk from start that comes to an end and meets no entry twice. *)
Straight(start, link) ==
    /\ \A x \in Reach(start, link) : x \notin Reach(link[x], link)
    /\ Reach(start, link) # {} => \E z \in Reach(start, link) : link[z] = NULL

\* An end is the only one, and every walk along the list comes to it.
LEMMA OneEnd ==
    ASSUME NEW link \in [Entry -> Pointer], NEW start \in Pointer,
           NEW z \in Reach(start, link), link[z] = NULL, NEW x \in Reach(start, link)
    PROVE  z \in Reach(x, link) /\ (link[x] = NULL => x = z)
<1>1. z \in Reach(x, link)
    BY ReachLinear, ReachNothing
<1>2. ASSUME link[x] = NULL PROVE x = z
    <2>1. x \in Entry
        BY ReachClosed
    <2>2. Reach(x, link) = {x}
        BY <2>1, <1>2, ReachStep, ReachNothing
    <2> QED BY <1>1, <2>2
<1> QED BY <1>1, <1>2

(* The links n lead from the end z on to the entry e, those of link end at z. *)
Extended(e, z, start, link, n) ==
    /\ link[z] = NULL /\ n[z] = e /\ n[e] = NULL
    /\ \A x \in Reach(start, link) \ {z} : n[x] = link[x]

\* An entry is linked to the end: every walk along the list meets it too.
LEMMA AppendReach ==
    ASSUME NEW link \in [Entry -> Pointer], NEW n \in [Entry -> Pointer], NEW start \in Pointer,
           NEW z \in Reach(start, link), NEW e \in Entry, e \notin Reach(start, link),
           Extended(e, z, start, link, n)
    PROVE  /\ Reach(e, n) = {e}
           /\ \A x \in Reach(start, link) : Reach(x, n) = Reach(x, link) \cup {e}
<1> USE DEF Extended
<1>1. Reach(e, n) = {e}
    BY ReachStep, ReachNothing
<1>2. ASSUME NEW x \in Reach(start, link) PROVE Reach(x, n) = Reach(x, link) \cup {e}
    <2>1. x \in Entry /\ x \in Pointer /\ x # NULL
        BY ReachClosed, EntryAssumption DEF Pointer
    <2>2. /\ Reach(x, link) \subseteq Entry /\ x \in Reach(x, link)
          /\ \A y \in Reach(x, link) : link[y] \in Reach(x, link) \cup {NULL}
        BY <2>1, ReachClosed
    <2>3. /\ Reach(x, n) \subseteq Entry /\ x \in Reach(x, n)
          /\ \A y \in Reach(x, n) : n[y] \in Reach(x, n) \cup {NULL}
        BY <2>1, ReachClosed
    <2>4. Reach(x, link) \subseteq Reach(start, link)
        BY ReachSub
    <2>5. Reach(x, n) \subseteq Reach(x, link) \cup {e}
        <3> DEFINE S == Reach(x, link) \cup {e}
        <3>1. S \in SUBSET Entry /\ x \in S \cup {NULL} /\ \A y \in S : n[y] \in S \cup {NULL}
            BY <2>2, <2>4
        <3> HIDE DEF S
        <3>2. Reach(x, n) \subseteq S
            BY <3>1, ReachLeast
        <3> QED BY <3>2 DEF S
    <2>6. Reach(x, link) \subseteq Reach(x, n)
        <3> DEFINE S == Reach(x, n) \cap Reach(x, link)
        <3>1. S \in SUBSET Entry /\ x \in S \cup {NULL} /\ \A y \in S : link[y] \in S \cup {NULL}
            BY <2>2, <2>3, <2>4
        <3> HIDE DEF S
        <3>2. Reach(x, link) \subseteq S
            BY <3>1, ReachLeast
        <3> QED BY <3>2 DEF S
    <2>7. z \in Reach(x, link)
        BY OneEnd
    <2>8. e # NULL
        BY EntryAssumption
    <2> QED BY <2>3, <2>5, <2>6, <2>7, <2>8
<1> QED BY <1>1, <1>2

(* The links n lead past the entry e, those of link to it. *)
Unlinked(e, start, link, n) ==
    /\ n[e] = NULL
    /\ \A x \in Reach(start, link) \ {e} : n[x] = IF link[x] = e THEN link[e] ELSE link[x]

\* An entry is taken out: a walk along the list that does not begin there meets all but it.
LEMMA UnlinkReach ==
    ASSUME NEW link \in [Entry -> Pointer], NEW n \in [Entry -> Pointer], NEW start \in Pointer,
           Straight(start, link), NEW e \in Reach(start, link), Unlinked(e, start, link, n),
           NEW x \in Reach(start, link) \cup {NULL}, x # e
    PROVE  Reach(x, n) = Reach(x, link) \ {e}
<1>0. /\ e \in Entry /\ e # NULL /\ Reach(start, link) \subseteq Entry
      /\ \A y \in Reach(start, link) : link[y] \in Reach(start, link) \cup {NULL}
    BY ReachClosed, EntryAssumption
<1>1. link[e] # e
    <2>1. link[e] \in Pointer /\ e \notin Reach(link[e], link)
        BY <1>0 DEF Straight
    <2> QED BY <2>1, <1>0, ReachClosed
<1>2. x \in Pointer
    BY <1>0 DEF Pointer
<1>3. /\ Reach(x, link) \subseteq Entry /\ x \in Reach(x, link) \cup {NULL}
      /\ \A y \in Reach(x, link) : link[y] \in Reach(x, link) \cup {NULL}
    BY <1>2, ReachClosed
<1>4. /\ Reach(x, n) \subseteq Entry /\ x \in Reach(x, n) \cup {NULL}
      /\ \A y \in Reach(x, n) : n[y] \in Reach(x, n) \cup {NULL}
    BY <1>2, ReachClosed
<1>5. Reach(x, link) \subseteq Reach(start, link)
    BY ReachSub
<1>6. \A y \in Reach(x, link) \ {e} : n[y] = IF link[y] = e THEN link[e] ELSE link[y]
    BY <1>5 DEF Unlinked
<1>7. Reach(x, n) \subseteq Reach(x, link) \ {e}
    <2> DEFINE S == Reach(x, link) \ {e}
    <2>1. S \in SUBSET Entry /\ x \in S \cup {NULL} /\ \A y \in S : n[y] \in S \cup {NULL}
        BY <1>0, <1>1, <1>3, <1>6
    <2> HIDE DEF S
    <2>2. Reach(x, n) \subseteq S
        BY <2>1, ReachLeast
    <2> QED BY <2>2 DEF S
\* The old walk meets e only where the new one passes it by.
<1>8. Reach(x, link) \ {e} \subseteq Reach(x, n)
    <2> DEFINE S == {y \in Reach(x, n) \cup {e} : y = e => \E w \in Reach(x, n) : link[w] = e}
    <2>1. S \in SUBSET Entry /\ x \in S \cup {NULL} /\ S \subseteq Reach(x, n) \cup {e}
        BY <1>0, <1>4
    <2>2. ASSUME NEW y \in S PROVE link[y] \in S \cup {NULL}
        <3>1. CASE y = e
            <4>1. PICK w \in Reach(x, n) : link[w] = e
                BY <3>1
            <4>2. n[w] = link[e]
                BY <4>1, <1>6, <1>7
            <4> QED BY <3>1, <4>1, <4>2, <1>1, <1>4
        <3>2. CASE y # e
            <4>1. y \in Reach(x, n) /\ n[y] = IF link[y] = e THEN link[e] ELSE link[y]
                BY <3>2, <1>6, <1>7
            <4> QED BY <4>1, <1>4
        <3> QED BY <3>1, <3>2
    <2> HIDE DEF S
    <2>3. Reach(x, link) \subseteq S
        BY <2>1, <2>2, ReachLeast
    <2> QED BY <2>1, <2>3
<1> QED BY <1>7, <1>8

\* The head of a list without circles is not met again.
LEMMA TailReach ==
    ASSUME NEW link \in [Entry -> Pointer], NEW start \in Entry, Straight(start, link)
    PROVE  Reach(link[start], link) = Reach(start, link) \ {start}
<1>1. Reach(start, link) = {start} \cup Reach(link[start], link)
    BY ReachStep
<1>2. start \notin Reach(link[start], link)
    BY <1>1 DEF Straight
<1> QED BY <1>1, <1>2

-----------------------------------------------------------------------------
(* The pointers that leave the list: the queue and the current entry *)

(* What the user does not do: remove an entry that is still queued or current. *)
Careful == Sound /\ "remove_in_use" \notin Scenario

(* The queue has an end and no circle, and queue_pos says how far away a track *)
(* is from its head.                                                           *)
Numbered(p) ==
    /\ Straight(p.queue_start, p.next_in_queue)
    /\ \A e \in p.live : p.queue_pos[e] = IF e \in Queued(p)
                                          THEN Position(p.queue_start, p.next_in_queue, e) + 1
                                          ELSE 0

(* Entries that have left the queue may keep a stale link, so only the entries *)
(* that a walk of the queue meets are spoken of.  An inserted entry has no     *)
(* queue_pos to rely on.                                                       *)
QueueInv(p) ==
    /\ Queued(p) \subseteq p.live
    /\ p.current \in p.live \cup {NULL}
    /\ "insert" \notin Scenario => Numbered(p)

\* A set of entries that has the head of a queue and is closed under its links has all of it.
LEMMA QueueLeast ==
    ASSUME NEW q, NEW S \in SUBSET Entry,
           q.queue_start \in S \cup {NULL},
           \A x \in S : q.next_in_queue[x] \in S \cup {NULL}
    PROVE  Queued(q) \subseteq S
BY ReachLeast DEF Queued

\* The queue has its head and, with an entry, the entry behind it.
LEMMA QueueClosed ==
    ASSUME NEW p \in PlaylistType
    PROVE  /\ Queued(p) \in SUBSET Entry
           /\ p.queue_start \in Queued(p) \cup {NULL}
           /\ \A x \in Queued(p) : p.next_in_queue[x] \in Queued(p) \cup {NULL}
<1>1. p.queue_start \in Pointer /\ p.next_in_queue \in [Entry -> Pointer]
    BY FieldTypes
<1> QED BY <1>1, ReachClosed DEF Queued

\* The entries before an entry of the queue are entries.
LEMMA BeforeFinite ==
    ASSUME NEW p \in PlaylistType, NEW S, NEW T \in SUBSET Queued(p)
    PROVE  IsFiniteSet(T \ S) /\ Cardinality(T \ S) \in Nat
<1>1. T \ S \in SUBSET Entry
    BY QueueClosed
<1> QED BY <1>1, LiveFinite

\* What leaves the links and numbers of the queued entries alone leaves the queue alone.
LEMMA SameNumbers ==
    ASSUME NEW p \in PlaylistType, NEW q \in PlaylistType, Numbered(p),
           Queued(p) \subseteq p.live,
           q.queue_start = p.queue_start,
           \A x \in Queued(p) : q.next_in_queue[x] = p.next_in_queue[x],
           \A x \in q.live : q.queue_pos[x] = IF x \in p.live THEN p.queue_pos[x] ELSE 0
    PROVE  Numbered(q)
<1> DEFINE s == p.queue_start
           link == p.next_in_queue
           n == q.next_in_queue
           R == Reach(s, link)
<1>1. /\ s \in Pointer /\ link \in [Entry -> Pointer] /\ n \in [Entry -> Pointer]
      /\ R = Queued(p) /\ R \in SUBSET Entry
      /\ \A x \in R : n[x] = link[x] /\ link[x] \in R \cup {NULL}
    BY FieldTypes, QueueClosed DEF Queued
<1>2. Straight(s, link)
    BY DEF Numbered
<1>q. q.queue_start = s /\ q.next_in_queue = n
    OBVIOUS
<1> HIDE DEF s, link, n
<1>3. ASSUME NEW x \in R \cup {NULL} PROVE Reach(x, n) = Reach(x, link)
    <2>1. Reach(x, link) \subseteq R
        BY <1>1, ReachSub
    <2>2. x \in Pointer
        BY <1>1 DEF Pointer
    <2> QED BY <1>1, <2>1, <2>2, ReachSame
<1>4. Reach(s, n) = R
    BY <1>1, ReachSame
<1> HIDE DEF R
<1>5. Straight(s, n)
    BY <1>1, <1>2, <1>3, <1>4 DEF Straight, R
<1>6. Queued(q) = R
    BY <1>4, <1>q DEF Queued
<1>7. ASSUME NEW x \in R PROVE Position(s, n, x) = Position(s, link, x)
    BY <1>3, <1>4, <1>7 DEF Position, R
<1>8. \A x \in p.live : p.queue_pos[x] = IF x \in R THEN Position(s, link, x) + 1 ELSE 0
    BY <1>1 DEF Numbered, s, link
<1>9. \A x \in q.live : q.queue_pos[x] = IF x \in R THEN Position(s, n, x) + 1 ELSE 0
    BY <1>1, <1>7, <1>8
<1> QED BY <1>5, <1>6, <1>9, <1>q DEF Numbered

\* So is the current entry as long as it is one of the list.
LEMMA SameQueue ==
    ASSUME NEW p \in PlaylistType, NEW q \in PlaylistType, QueueInv(p),
           q.queue_start = p.queue_start,
           \A x \in Queued(p) : q.next_in_queue[x] = p.next_in_queue[x],
           Queued(p) \subseteq q.live, q.current \in q.live \cup {NULL},
           "insert" \notin Scenario
               => \A x \in q.live : q.queue_pos[x] = IF x \in p.live THEN p.queue_pos[x] ELSE 0
    PROVE  QueueInv(q)
<1>1. Queued(q) \subseteq Queued(p)
    BY QueueClosed, QueueLeast
<1>2. "insert" \notin Scenario => Numbered(q)
    BY SameNumbers DEF QueueInv
<1> QED BY <1>1, <1>2 DEF QueueInv

(* The three changes of the queue keep the numbers right. *)

\* A track behind the last one is numbered after it.
LEMMA EnqueuedNumbers ==
    ASSUME NEW p \in PlaylistType, Numbered(p), Queued(p) \subseteq p.live,
           NEW e \in p.live, p.queue_pos[e] = 0, EnqueuedLast(p, e) \in PlaylistType
    PROVE  Numbered(EnqueuedLast(p, e))
<1> DEFINE q == EnqueuedLast(p, e)
           s == p.queue_start
           link == p.next_in_queue
           R == Queued(p)
           tail == [x \in Entry |-> IF x \in QueueEnd(p) THEN e ELSE link[x]]
           s2 == IF s = NULL THEN e ELSE s
           n == Set(tail, e, NULL)
           k == Set(p.queue_pos, e, Cardinality(R) + 1)
<1>1. /\ s \in Pointer /\ link \in [Entry -> Pointer] /\ p.queue_pos \in [Entry -> Int]
      /\ R \in SUBSET Entry /\ R = Reach(s, link) /\ s \in R \cup {NULL}
      /\ \A x \in R : link[x] \in R \cup {NULL}
      /\ e \in Entry /\ p.live \in SUBSET Entry /\ e # NULL /\ e \in Pointer /\ NULL \in Pointer
    BY FieldTypes, QueueClosed, EntryAssumption, PointerTypes DEF Queued
<1>2. /\ q.live = p.live /\ q.queue_start = s2 /\ q.next_in_queue = n /\ q.queue_pos = k
    BY DEF EnqueuedLast, PlaylistType
<1>3. Straight(s, link)
    BY DEF Numbered
<1>4. /\ \A x \in R : p.queue_pos[x] = Cardinality(R \ Reach(x, link)) + 1
      /\ \A x \in p.live \ R : p.queue_pos[x] = 0
    BY <1>1 DEF Numbered, Position
<1>5. \A x \in R : Cardinality(R \ Reach(x, link)) \in Nat
    BY BeforeFinite
<1>6. e \notin R
    <2> SUFFICES ASSUME e \in R PROVE FALSE
        OBVIOUS
    <2> DEFINE c == Cardinality(R \ Reach(e, link))
    <2>1. c \in Nat /\ p.queue_pos[e] = c + 1
        BY <1>4, <1>5
    <2> HIDE DEF c
    <2> QED BY <2>1
<1>7. n \in [Entry -> Pointer] /\ n[e] = NULL
    BY <1>1 DEF Set
<1>8. \A x \in Entry \ {e} : n[x] = IF x \in R /\ link[x] = NULL THEN e ELSE link[x]
    BY <1>1 DEF Set, QueueEnd
<1>9. /\ Reach(s2, n) = R \cup {e}
      /\ Reach(e, n) = {e}
      /\ \A x \in R : Reach(x, n) = Reach(x, link) \cup {e}
    <2>1. CASE R = {}
        <3>1. s2 = e /\ Reach(e, n) = {e}
            BY <2>1, <1>1, <1>7, ReachStep, ReachNothing
        <3> QED BY <3>1, <2>1
    <2>2. CASE R # {}
        <3>1. PICK z \in R : link[z] = NULL
            BY <2>2, <1>1, <1>3 DEF Straight
        <3>2. \A x \in R \ {z} : link[x] # NULL
            BY <3>1, <1>1, OneEnd
        <3>3. n[z] = e /\ \A x \in R \ {z} : n[x] = link[x]
            BY <3>1, <3>2, <1>1, <1>6, <1>8
        <3> HIDE DEF q, s, link, R, s2, n, k, tail
        <3>4. /\ Reach(e, n) = {e}
              /\ \A x \in Reach(s, link) : Reach(x, n) = Reach(x, link) \cup {e}
            <4>1. z \in Reach(s, link) /\ e \notin Reach(s, link) /\ Extended(e, z, s, link, n)
                BY <3>1, <3>3, <1>1, <1>6, <1>7 DEF Extended
            <4>2. /\ link \in [Entry -> Pointer] /\ n \in [Entry -> Pointer] /\ s \in Pointer
                  /\ e \in Entry
                BY <1>1, <1>7
            <4> QED BY <4>1, <4>2, AppendReach
        <3>5. s2 = s /\ s \in R
            BY <2>2, <1>1, ReachNothing DEF s2
        <3> QED BY <3>4, <3>5, <1>1
    <2> QED BY <2>1, <2>2
<1>10. k[e] = Cardinality(R) + 1 /\ \A x \in Entry \ {e} : k[x] = p.queue_pos[x]
    BY <1>1 DEF Set
<1> HIDE DEF q, s, link, R, s2, n, k, tail
<1>11. Queued(q) = R \cup {e}
    BY <1>2, <1>9 DEF Queued
<1>12. Straight(s2, n)
    <2>1. ASSUME NEW x \in R PROVE x \notin Reach(n[x], n)
        <3>1. n[x] = IF link[x] = NULL THEN e ELSE link[x]
            BY <1>1, <1>6, <1>8
        <3>2. CASE link[x] = NULL
            BY <3>1, <3>2, <1>6, <1>9
        <3>3. CASE link[x] # NULL
            <4>1. Reach(n[x], n) = Reach(link[x], link) \cup {e}
                BY <3>1, <3>3, <1>1, <1>9
            <4>2. x \notin Reach(link[x], link)
                BY <1>1, <1>3 DEF Straight
            <4> QED BY <4>1, <4>2, <1>6
        <3> QED BY <3>2, <3>3
    <2>2. e \notin Reach(n[e], n)
        BY <1>7, ReachNothing
    <2> QED BY <2>1, <2>2, <1>7, <1>9 DEF Straight
<1>13. ASSUME NEW x \in R PROVE k[x] = Position(s2, n, x) + 1
    <2>1. (R \cup {e}) \ (Reach(x, link) \cup {e}) = R \ Reach(x, link)
        BY <1>6
    <2>2. Position(s2, n, x) = Cardinality(R \ Reach(x, link))
        BY <2>1, <1>9 DEF Position
    <2>3. k[x] = p.queue_pos[x]
        BY <1>1, <1>6, <1>10
    <2> QED BY <2>2, <2>3, <1>4
<1>14. k[e] = Position(s2, n, e) + 1
    <2>1. (R \cup {e}) \ {e} = R
        BY <1>6
    <2> QED BY <2>1, <1>9, <1>10 DEF Position
<1>15. \A x \in p.live : k[x] = IF x \in R \cup {e} THEN Position(s2, n, x) + 1 ELSE 0
    BY <1>1, <1>4, <1>10, <1>13, <1>14
<1>16. Numbered(q)
    BY <1>2, <1>11, <1>12, <1>15 DEF Numbered
<1> QED BY <1>16 DEF q

\* A track taken out of the middle lets those behind it move up.
LEMMA DequeuedNumbers ==
    ASSUME NEW p \in PlaylistType, Numbered(p), Queued(p) \subseteq p.live,
           NEW e \in Queued(p), Dequeued(p, e) \in PlaylistType
    PROVE  Numbered(Dequeued(p, e))
<1> DEFINE q == Dequeued(p, e)
           s == p.queue_start
           link == p.next_in_queue
           R == Queued(p)
           s2 == IF s = e THEN link[e] ELSE s
           n == [x \in Entry |->
                    IF x = e THEN NULL
                    ELSE IF x \in R /\ link[x] = e THEN link[e]
                    ELSE link[x]]
           k == [x \in Entry |->
                    IF x = e THEN 0
                    ELSE IF x \in Behind(p, e) THEN p.queue_pos[x] - 1
                    ELSE p.queue_pos[x]]
<1>1. /\ s \in Pointer /\ link \in [Entry -> Pointer] /\ p.queue_pos \in [Entry -> Int]
      /\ R \in SUBSET Entry /\ R = Reach(s, link) /\ s \in R \cup {NULL}
      /\ \A x \in R : link[x] \in R \cup {NULL}
      /\ e \in Entry /\ e \in R /\ p.live \in SUBSET Entry /\ e # NULL /\ NULL \in Pointer
      /\ NULL \notin R
    BY FieldTypes, QueueClosed, EntryAssumption, PointerTypes DEF Queued
<1>2. /\ q.live = p.live /\ q.queue_start = s2 /\ q.next_in_queue = n /\ q.queue_pos = k
    BY DEF Dequeued, PlaylistType
<1>3. Straight(s, link)
    BY DEF Numbered
<1>4. /\ \A x \in R : p.queue_pos[x] = Cardinality(R \ Reach(x, link)) + 1
      /\ \A x \in p.live \ R : p.queue_pos[x] = 0
    BY <1>1 DEF Numbered, Position
<1>5. n \in [Entry -> Pointer] /\ Unlinked(e, s, link, n)
    BY <1>1 DEF Unlinked
<1>6. Behind(p, e) = Reach(link[e], link)
    BY DEF Behind
<1>7. /\ k[e] = 0
      /\ \A x \in Entry \ {e} : k[x] = IF x \in Reach(link[e], link)
                                       THEN p.queue_pos[x] - 1 ELSE p.queue_pos[x]
    BY <1>1, <1>6
<1>s. s2 = IF s = e THEN link[e] ELSE s
    OBVIOUS
<1> HIDE DEF q, s, link, R, s2, n, k
<1>8. /\ e \notin Reach(link[e], link) /\ link[e] # e /\ link[e] \in R \cup {NULL}
      /\ Reach(link[e], link) \subseteq R
    <2>1. e \notin Reach(link[e], link) /\ link[e] \in R \cup {NULL} /\ link[e] \in Pointer
        BY <1>1, <1>3 DEF Straight
    <2>2. link[e] \in Reach(link[e], link) \cup {NULL}
        BY <1>1, <2>1, ReachClosed
    <2>3. Reach(link[e], link) \subseteq R
        BY <1>1, <2>1, ReachSub
    <2> QED BY <1>1, <2>1, <2>2, <2>3
<1>9. ASSUME NEW x \in R \cup {NULL}, x # e PROVE Reach(x, n) = Reach(x, link) \ {e}
    BY <1>1, <1>3, <1>5, <1>9, UnlinkReach
<1>10. Reach(s2, n) = R \ {e}
    <2>1. CASE s = e
        <3>1. R = {e} \cup Reach(link[e], link)
            BY <2>1, <1>1, ReachStep
        <3> QED BY <2>1, <3>1, <1>s, <1>8, <1>9
    <2>2. CASE s # e
        BY <2>2, <1>s, <1>1, <1>9
    <2> QED BY <2>1, <2>2
<1>11. Queued(q) = R \ {e}
    BY <1>2, <1>10 DEF Queued
<1>12. Straight(s2, n)
    <2>1. ASSUME NEW x \in R \ {e} PROVE x \notin Reach(n[x], n)
        <3>1. /\ n[x] = IF link[x] = e THEN link[e] ELSE link[x]
              /\ x \notin Reach(link[x], link) /\ link[x] \in R \cup {NULL}
            BY <1>1, <1>3, <1>5 DEF Unlinked, Straight
        <3>2. CASE link[x] = e
            <4>1. Reach(e, link) = {e} \cup Reach(link[e], link)
                BY <1>1, ReachStep
            <4> QED BY <3>1, <3>2, <4>1, <1>8, <1>9
        <3>3. CASE link[x] # e
            BY <3>1, <3>3, <1>9
        <3> QED BY <3>2, <3>3
    <2>2. ASSUME NEW x \in R \ {e} PROVE \E z \in R \ {e} : n[z] = NULL
        <3>1. PICK z \in R : link[z] = NULL
            BY <2>2, <1>1, <1>3 DEF Straight
        <3>2. CASE z # e
            BY <3>1, <3>2, <1>1, <1>5 DEF Unlinked
        <3>3. CASE z = e
            <4>1. e \in Reach(x, link)
                BY <3>1, <3>3, <1>1, OneEnd
            <4>2. \E w \in R \ {e} : link[w] = e
                <5> SUFFICES ASSUME \A w \in R \ {e} : link[w] # e PROVE FALSE
                    OBVIOUS
                <5> DEFINE S == R \ {e}
                <5>1. S \in SUBSET Entry /\ x \in S \cup {NULL} /\ \A w \in S : link[w] \in S \cup {NULL}
                    BY <1>1
                <5> HIDE DEF S
                <5>2. Reach(x, link) \subseteq S
                    BY <5>1, ReachLeast
                <5> QED BY <5>2, <4>1 DEF S
            <4> QED BY <4>2, <3>1, <3>3, <1>1, <1>5 DEF Unlinked
        <3> QED BY <3>2, <3>3
    <2> QED BY <2>1, <2>2, <1>10 DEF Straight
<1>13. ASSUME NEW x \in R \ {e} PROVE k[x] = Position(s2, n, x) + 1
    <2> DEFINE before == R \ Reach(x, link)
    <2>1. Position(s2, n, x) = Cardinality(before \ {e})
        <3>1. Reach(x, n) = Reach(x, link) \ {e}
            BY <1>9
        <3>2. (R \ {e}) \ (Reach(x, link) \ {e}) = before \ {e}
            OBVIOUS
        <3> QED BY <3>1, <3>2, <1>10 DEF Position
    <2>2. IsFiniteSet(before) /\ Cardinality(before) \in Nat
        BY BeforeFinite DEF R
    <2>3. x \in Entry /\ p.queue_pos[x] = Cardinality(before) + 1
        BY <1>1, <1>4
    <2>4. CASE x \in Reach(link[e], link)
        <3>1. e \in before
            <4>1. link[e] \in Pointer
                BY <1>1
            <4>2. Reach(x, link) \subseteq Reach(link[e], link)
                BY <4>1, <2>4, <1>1, ReachSub
            <4> QED BY <4>2, <1>1, <1>8
        <3> HIDE DEF before
        <3>2. Cardinality(before \ {e}) = Cardinality(before) - 1
            BY <2>2, <3>1, FS_RemoveElement
        <3>3. k[x] = p.queue_pos[x] - 1
            BY <1>7, <2>3, <2>4
        <3> QED BY <2>1, <2>2, <2>3, <3>2, <3>3
    <2>5. CASE x \notin Reach(link[e], link)
        <3>1. e \in Reach(x, link)
            BY <2>5, <1>1, ReachLinear
        <3>2. before \ {e} = before
            BY <3>1
        <3>3. k[x] = p.queue_pos[x]
            BY <1>7, <2>3, <2>5
        <3> QED BY <2>1, <2>3, <3>2, <3>3
    <2> QED BY <2>4, <2>5
<1>14. ASSUME NEW x \in p.live, x \notin R PROVE k[x] = 0
    <2>1. x \in Entry \ {e} /\ x \notin Reach(link[e], link)
        BY <1>1, <1>8, <1>14
    <2> QED BY <2>1, <1>4, <1>7, <1>14
<1>15. \A x \in p.live : k[x] = IF x \in R \ {e} THEN Position(s2, n, x) + 1 ELSE 0
    BY <1>7, <1>13, <1>14
<1>16. Numbered(q)
    BY <1>2, <1>11, <1>12, <1>15 DEF Numbered
<1> QED BY <1>16 DEF q

\* When the head is played every other track moves up.
LEMMA FromQueueNumbers ==
    ASSUME NEW p \in PlaylistType, Numbered(p), Queued(p) \subseteq p.live,
           p.queue_start \in Queued(p), FromQueue(p) \in PlaylistType
    PROVE  Numbered(FromQueue(p))
<1> DEFINE q == FromQueue(p)
           s == p.queue_start
           link == p.next_in_queue
           R == Queued(p)
           k == [e \in Entry |-> IF e \in R THEN Position(s, link, e) ELSE p.queue_pos[e]]
<1>1. /\ s \in Pointer /\ link \in [Entry -> Pointer] /\ p.queue_pos \in [Entry -> Int]
      /\ R \in SUBSET Entry /\ R = Reach(s, link) /\ s \in R /\ s \in Entry
      /\ p.live \in SUBSET Entry
    BY FieldTypes, QueueClosed DEF Queued
<1>2. /\ q.live = p.live /\ q.queue_start = link[s] /\ q.next_in_queue = link /\ q.queue_pos = k
    BY DEF FromQueue, PlaylistType
<1>3. Straight(s, link)
    BY DEF Numbered
<1>4. \A x \in p.live \ R : p.queue_pos[x] = 0
    BY DEF Numbered
<1>5. \A x \in Entry : k[x] = IF x \in R THEN Cardinality(R \ Reach(x, link)) ELSE p.queue_pos[x]
    BY <1>1 DEF Position
<1>6. Reach(link[s], link) = R \ {s}
    BY <1>1, <1>3, TailReach
<1> HIDE DEF q, s, link, R, k
<1>7. Queued(q) = R \ {s}
    BY <1>2, <1>6 DEF Queued
<1>8. Straight(link[s], link)
    <2>1. ASSUME NEW x \in R \ {s} PROVE \E z \in R \ {s} : link[z] = NULL
        <3>1. PICK z \in R : link[z] = NULL
            BY <1>1, <1>3 DEF Straight
        <3>2. z # s
            BY <2>1, <3>1, <1>6, ReachNothing
        <3> QED BY <3>1, <3>2
    <2> QED BY <2>1, <1>1, <1>3, <1>6 DEF Straight
<1>9. ASSUME NEW x \in R \ {s} PROVE k[x] = Position(link[s], link, x) + 1
    <2> DEFINE before == R \ Reach(x, link)
    <2>1. s \in before
        <3>1. link[s] \in Pointer
            BY <1>1
        <3>2. Reach(x, link) \subseteq R \ {s}
            BY <3>1, <1>1, <1>6, ReachSub
        <3> QED BY <3>2, <1>1
    <2>2. IsFiniteSet(before) /\ Cardinality(before) \in Nat
        BY BeforeFinite DEF R
    <2>3. Position(link[s], link, x) = Cardinality(before \ {s})
        <3>1. (R \ {s}) \ Reach(x, link) = before \ {s}
            OBVIOUS
        <3> QED BY <3>1, <1>6 DEF Position
    <2>4. k[x] = Cardinality(before)
        BY <1>1, <1>5
    <2> HIDE DEF before
    <2>5. Cardinality(before \ {s}) = Cardinality(before) - 1
        BY <2>1, <2>2, FS_RemoveElement
    <2> QED BY <2>2, <2>3, <2>4, <2>5
<1>10. k[s] = 0
    <2>1. R \ Reach(s, link) = {}
        BY <1>1
    <2> QED BY <2>1, <1>1, <1>5, FS_EmptySet
<1>11. \A x \in p.live : k[x] = IF x \in R \ {s} THEN Position(link[s], link, x) + 1 ELSE 0
    BY <1>1, <1>4, <1>5, <1>9, <1>10
<1>12. Numbered(q)
    BY <1>2, <1>7, <1>8, <1>11 DEF Numbered
<1> QED BY <1>12 DEF q

\* A new entry is not queued, whatever its memory held.
LEMMA AddKeepsQueue ==
    ASSUME NEW p, ListInv(p), QueueInv(p), NEW e \in Entry \ p.live, NEW q \in AddItem(p, e, TRUE)
    PROVE  QueueInv(q)
<1>p. p \in PlaylistType
    BY DEF ListInv
<1>1. ListInv(q)
    BY AddKeepsList
<1>2. q \in PlaylistType
    BY <1>1 DEF ListInv
<1>3. /\ q.live = p.live \cup {e} /\ q.queue_start = p.queue_start /\ q.current = p.current
      /\ q.next_in_queue = Set(p.next_in_queue, e, NULL)
      /\ q.queue_pos = Set(p.queue_pos, e, 0)
    <2> DEFINE a == Appended(p, e)
    <2>1. q = [a EXCEPT !.queue_pos = Set(a.queue_pos, e, 0),
                        !.next_in_queue = Set(a.next_in_queue, e, NULL),
                        !.length = a.length + 1]
        BY DEF AddItem
    <2>2. /\ a.live = p.live \cup {e} /\ a.queue_start = p.queue_start /\ a.current = p.current
          /\ a.next_in_queue = p.next_in_queue /\ a.queue_pos = p.queue_pos
          /\ DOMAIN a = DOMAIN p
        BY <1>p DEF Appended, PlaylistType
    <2>3. DOMAIN p = {"first", "last", "current", "queue_start", "length", "played_items",
                      "play_mode", "live", "next", "prev", "played", "queue_pos", "next_in_queue"}
        BY <1>p DEF PlaylistType
    <2> HIDE DEF a
    <2> QED BY <2>1, <2>2, <2>3
<1>4. Queued(p) \subseteq p.live /\ Queued(p) \in SUBSET Entry /\ p.current \in p.live \cup {NULL}
    BY <1>p, QueueClosed DEF QueueInv
<1>5. \A x \in Queued(p) : q.next_in_queue[x] = p.next_in_queue[x]
    BY <1>3, <1>4 DEF Set
<1>6. \A x \in q.live : q.queue_pos[x] = IF x \in p.live THEN p.queue_pos[x] ELSE 0
    <2>1. p.live \in SUBSET Entry
        BY <1>p, FieldTypes
    <2> QED BY <2>1, <1>3 DEF Set
<1> QED BY <1>p, <1>2, <1>3, <1>4, <1>5, <1>6, SameQueue

\* Neither is an inserted one, whatever its queue_pos says.
LEMMA InsertKeepsQueue ==
    ASSUME NEW p, ListInv(p), QueueInv(p), NEW s \in p.live, p.next[s] # NULL,
           NEW e \in Entry \ p.live, NEW q \in InsertItemAfter(p, s, e), "insert" \in Scenario
    PROVE  QueueInv(q)
<1>p. p \in PlaylistType
    BY DEF ListInv
<1>1. ListInv(q)
    BY InsertKeepsList
<1>2. q \in PlaylistType
    BY <1>1 DEF ListInv
<1>u. PICK u \in Uninitialised : q = Inserted(p, s, e, u)
    BY DEF InsertItemAfter
<1>3. /\ q.live = p.live \cup {e} /\ q.queue_start = p.queue_start /\ q.current = p.current
      /\ q.next_in_queue = Set(p.next_in_queue, e, NULL)
    BY <1>p, <1>2, <1>u DEF Inserted, PlaylistType
<1>4. Queued(p) \subseteq p.live /\ Queued(p) \in SUBSET Entry /\ p.current \in p.live \cup {NULL}
    BY <1>p, QueueClosed DEF QueueInv
<1>5. \A x \in Queued(p) : q.next_in_queue[x] = p.next_in_queue[x]
    BY <1>3, <1>4 DEF Set
<1> QED BY <1>p, <1>2, <1>3, <1>4, <1>5, SameQueue

\* An entry that is neither queued nor current is deleted.
LEMMA DeleteKeepsQueue ==
    ASSUME NEW p, ListInv(p), QueueInv(p), NEW e \in p.live, ~InUse(p, e)
    PROVE  QueueInv(Deleted(p, e))
<1>p. p \in PlaylistType /\ e \in Entry
    BY DEF ListInv, Chain
<1> DEFINE q == Deleted(p, e)
<1>1. CASE p.length = 0
    BY <1>1 DEF Deleted
<1>2. CASE p.length # 0
    <2>1. ListInv(q)
        BY DeleteKeepsList
    <2>2. q \in PlaylistType
        BY <2>1 DEF ListInv
    <2>3. /\ q.live = p.live \ {e} /\ q.queue_start = p.queue_start /\ q.current = p.current
          /\ q.next_in_queue = [x \in Entry |-> IF x \in {e} THEN NULL ELSE p.next_in_queue[x]]
          /\ q.queue_pos = [x \in Entry |-> IF x \in {e} THEN 0 ELSE p.queue_pos[x]]
        <3> DEFINE a == Free(p, {e})
                   n == Set(a.next, p.prev[e], p.next[e])
                   b == Set(a.prev, p.next[e], p.prev[e])
                   f == IF p.length = 1 THEN NULL ELSE IF p.prev[e] = NULL THEN p.next[e] ELSE a.first
                   l == IF p.length = 1 THEN NULL ELSE IF p.next[e] = NULL THEN p.prev[e] ELSE a.last
                   k == a.length - 1
        <3>1. q = [a EXCEPT !.next = n, !.prev = b, !.first = f, !.last = l, !.length = k]
            BY <1>2 DEF Deleted
        <3>2. a \in PlaylistType /\ a.live = p.live \ {e}
              /\ a.queue_start = p.queue_start /\ a.current = p.current
            BY <1>p, FreeFields
        <3>3. /\ a.next_in_queue = [x \in Entry |-> IF x \in {e} THEN NULL ELSE p.next_in_queue[x]]
              /\ a.queue_pos = [x \in Entry |-> IF x \in {e} THEN 0 ELSE p.queue_pos[x]]
            BY <1>p DEF Free, PlaylistType
        <3> HIDE DEF a, n, b, f, l, k, q
        <3> QED BY <2>2, <3>1, <3>2, <3>3 DEF PlaylistType
    <2> HIDE DEF q
    <2>4. /\ Queued(p) \subseteq p.live \ {e} /\ Queued(p) \in SUBSET Entry
          /\ p.current \in (p.live \ {e}) \cup {NULL}
        BY <1>p, QueueClosed DEF QueueInv, InUse
    <2>5. \A x \in Queued(p) : q.next_in_queue[x] = p.next_in_queue[x]
        BY <2>3, <2>4
    <2>6. \A x \in q.live : q.queue_pos[x] = IF x \in p.live THEN p.queue_pos[x] ELSE 0
        <3>1. p.live \in SUBSET Entry
            BY <1>p, FieldTypes
        <3> QED BY <3>1, <2>3
    <2>7. QueueInv(q)
        BY <1>p, <2>2, <2>3, <2>4, <2>5, <2>6, SameQueue
    <2> QED BY <2>7 DEF q
<1> QED BY <1>1, <1>2

\* Clearing the playlist clears the queue with it.
LEMMA ClearEmptiesQueue ==
    ASSUME NEW p, ListInv(p)
    PROVE  QueueInv(Cleared(p))
<1>p. p \in PlaylistType
    BY DEF ListInv
<1>1. ListInv(Cleared(p))
    BY ClearKeepsList
<1>2. Cleared(p) \in PlaylistType
    BY <1>1 DEF ListInv
<1>3. /\ Cleared(p).queue_start = NULL /\ Cleared(p).current = NULL
      /\ Cleared(p).live = p.live \ Linked(p)
    BY <1>p, <1>2 DEF Cleared, Free, PlaylistType
<1>4. Queued(Cleared(p)) = {} /\ Cleared(p).live = {}
    BY <1>3, ReachNothing, AllSelectable DEF Queued
<1>5. Numbered(Cleared(p))
    BY <1>4 DEF Numbered, Straight, Queued
<1> QED BY <1>3, <1>4, <1>5 DEF QueueInv

\* The marks of random play have nothing to do with the queue.
LEMMA ResetKeepsQueue ==
    ASSUME NEW p, ListInv(p), QueueInv(p)
    PROVE  QueueInv(ResetRandom(p))
<1>p. p \in PlaylistType
    BY DEF ListInv
<1>1. ListInv(ResetRandom(p))
    BY ResetKeepsList
<1>2. ResetRandom(p) \in PlaylistType
    BY <1>1 DEF ListInv
<1> DEFINE q == ResetRandom(p)
<1>3. /\ q.live = p.live /\ q.queue_start = p.queue_start /\ q.current = p.current
      /\ q.next_in_queue = p.next_in_queue /\ q.queue_pos = p.queue_pos
    BY <1>p, <1>2 DEF ResetRandom, PlaylistType
<1>t. q \in PlaylistType
    BY <1>2
<1> HIDE DEF q
<1>4. QueueInv(q)
    BY <1>p, <1>t, <1>3, SameQueue DEF QueueInv
<1> QED BY <1>4 DEF q

\* Only an entry of the list, or none, becomes current.
LEMMA SetCurrentKeepsQueue ==
    ASSUME NEW p, ListInv(p), QueueInv(p), NEW e \in p.live \cup {NULL}
    PROVE  QueueInv(SetCurrent(p, e))
<1>p. p \in PlaylistType
    BY DEF ListInv
<1>1. ListInv(SetCurrent(p, e))
    BY SetCurrentKeepsList
<1>2. SetCurrent(p, e) \in PlaylistType
    BY <1>1 DEF ListInv
<1> DEFINE q == SetCurrent(p, e)
<1>3. /\ q.live = p.live /\ q.queue_start = p.queue_start /\ q.current = e
      /\ q.next_in_queue = p.next_in_queue /\ q.queue_pos = p.queue_pos
    <2>1. CASE e = NULL
        BY <1>p, <1>2, <2>1 DEF SetCurrent, PlaylistType
    <2>2. CASE e # NULL
        BY <1>p, <1>2, <2>2 DEF SetCurrent, PlaylistType
    <2> QED BY <2>1, <2>2
<1>t. q \in PlaylistType
    BY <1>2
<1> HIDE DEF q
<1>4. QueueInv(q)
    BY <1>p, <1>t, <1>3, SameQueue DEF QueueInv
<1> QED BY <1>4 DEF q

\* Enqueueing adds the entry to the queue; dequeueing adds nothing.
LEMMA EnqueueKeepsQueue ==
    ASSUME NEW p, ListInv(p), QueueInv(p), NEW e \in p.live
    PROVE  QueueInv(EntryEnqueue(p, e))
<1>p. p \in PlaylistType /\ e \in Entry
    BY DEF ListInv, Chain
<1>0. ListInv(EntryEnqueue(p, e))
    BY EnqueueKeepsList
<1> DEFINE q == EntryEnqueue(p, e)
<1>t. q \in PlaylistType
    BY <1>0 DEF ListInv
<1>c. /\ Queued(p) \in SUBSET Entry
      /\ p.queue_start \in Queued(p) \cup {NULL}
      /\ \A x \in Queued(p) : p.next_in_queue[x] \in Queued(p) \cup {NULL}
      /\ Queued(p) \subseteq p.live /\ p.current \in p.live \cup {NULL}
    BY <1>p, QueueClosed DEF QueueInv
<1>1. CASE p.queue_pos[e] = 0
    <2> DEFINE S == Queued(p) \cup {e}
               link == [x \in Entry |-> IF x \in QueueEnd(p) THEN e ELSE p.next_in_queue[x]]
    <2>1. /\ q.live = p.live /\ q.current = p.current
          /\ q.queue_start = IF p.queue_start = NULL THEN e ELSE p.queue_start
          /\ q.next_in_queue = Set(link, e, NULL)
        BY <1>p, <1>1, <1>t DEF EntryEnqueue, EnqueuedLast, PlaylistType
    <2> HIDE DEF q
    <2>2. \A x \in S : Set(link, e, NULL)[x] \in S \cup {NULL}
        BY <1>c, <1>p DEF Set
    <2>3. S \in SUBSET Entry /\ q.queue_start \in S \cup {NULL}
        BY <1>c, <1>p, <2>1
    <2> HIDE DEF S, link
    <2>4. Queued(q) \subseteq S
        BY <2>1, <2>2, <2>3, QueueLeast
    <2>5. "insert" \notin Scenario => Numbered(q)
        <3>1. q = EnqueuedLast(p, e)
            BY <1>1 DEF EntryEnqueue, q
        <3>2. Numbered(p) => Numbered(EnqueuedLast(p, e))
            BY <1>1, <1>p, <1>c, <1>t, <3>1, EnqueuedNumbers
        <3> QED BY <3>1, <3>2 DEF QueueInv
    <2>6. QueueInv(q)
        BY <1>c, <2>1, <2>4, <2>5 DEF QueueInv, S
    <2> QED BY <2>6 DEF q
<1>2. CASE p.queue_pos[e] # 0 /\ e \in Queued(p)
    <2>1. /\ q.live = p.live /\ q.current = p.current
          /\ q.queue_start = IF p.queue_start = e THEN p.next_in_queue[e] ELSE p.queue_start
          /\ q.next_in_queue = [x \in Entry |->
                IF x = e THEN NULL
                ELSE IF x \in Queued(p) /\ p.next_in_queue[x] = e THEN p.next_in_queue[e]
                ELSE p.next_in_queue[x]]
        BY <1>p, <1>2, <1>t DEF EntryEnqueue, Dequeued, PlaylistType
    <2> HIDE DEF q
    <2>2. /\ \A x \in Queued(p) : q.next_in_queue[x] \in Queued(p) \cup {NULL}
          /\ q.queue_start \in Queued(p) \cup {NULL}
        BY <1>c, <1>2, <2>1
    <2>3. Queued(q) \subseteq Queued(p)
        BY <1>c, <2>2, QueueLeast
    <2>4. "insert" \notin Scenario => Numbered(q)
        <3>1. q = Dequeued(p, e)
            BY <1>2 DEF EntryEnqueue, q
        <3>2. Numbered(p) => Numbered(Dequeued(p, e))
            BY <1>2, <1>p, <1>c, <1>t, <3>1, DequeuedNumbers
        <3> QED BY <3>1, <3>2 DEF QueueInv
    <2>5. QueueInv(q)
        BY <1>c, <2>1, <2>3, <2>4 DEF QueueInv
    <2> QED BY <2>5 DEF q
<1>3. CASE p.queue_pos[e] # 0 /\ e \notin Queued(p)
    BY <1>3 DEF EntryEnqueue, Dequeued
<1> QED BY <1>1, <1>2, <1>3

\* The head leaves the queue and becomes current.
LEMMA FromQueueKeepsQueue ==
    ASSUME NEW p, ListInv(p), QueueInv(p), p.queue_start # NULL
    PROVE  QueueInv(FromQueue(p))
<1>p. p \in PlaylistType
    BY DEF ListInv
<1>0. ListInv(FromQueue(p))
    BY FromQueueKeepsList
<1> DEFINE q == FromQueue(p)
<1>t. q \in PlaylistType
    BY <1>0 DEF ListInv
<1>c. /\ Queued(p) \in SUBSET Entry
      /\ p.queue_start \in Queued(p)
      /\ \A x \in Queued(p) : p.next_in_queue[x] \in Queued(p) \cup {NULL}
      /\ Queued(p) \subseteq p.live
    BY <1>p, QueueClosed DEF QueueInv
<1>1. /\ q.live = p.live /\ q.current = p.queue_start
      /\ q.queue_start = p.next_in_queue[p.queue_start]
      /\ q.next_in_queue = p.next_in_queue
    BY <1>p, <1>t DEF FromQueue, PlaylistType
<1> HIDE DEF q
<1>2. Queued(q) \subseteq Queued(p)
    BY <1>c, <1>1, QueueLeast
<1>3. "insert" \notin Scenario => Numbered(q)
    <2>1. FromQueue(p) \in PlaylistType
        BY <1>t DEF q
    <2>2. Numbered(p) => Numbered(FromQueue(p))
        BY <1>p, <1>c, <2>1, FromQueueNumbers
    <2> QED BY <2>2 DEF QueueInv, q
<1>4. QueueInv(q)
    BY <1>c, <1>1, <1>2, <1>3 DEF QueueInv
<1> QED BY <1>4 DEF q

\* So does moving along the list, which leads to entries of the list.
LEMMA MoveToKeepsQueue ==
    ASSUME NEW p, ListInv(p), QueueInv(p), NEW e \in p.live \cup {NULL}
    PROVE  QueueInv(MoveTo(p, e).pl)
<1>p. p \in PlaylistType /\ p.live \cup {NULL} \subseteq Pointer
    BY DEF ListInv, Chain, Pointer
<1>1. CASE e = NULL
    BY <1>1 DEF MoveTo, NotFound
<1>2. CASE e # NULL
    <2> DEFINE q == [p EXCEPT !.current = e]
    <2>1. MoveTo(p, e) = [found |-> TRUE, pl |-> q]
        BY <1>2 DEF MoveTo, Found
    <2>2. q \in PlaylistType
        BY <1>p DEF PlaylistType
    <2>3. /\ q.live = p.live /\ q.queue_start = p.queue_start /\ q.current = e
          /\ q.next_in_queue = p.next_in_queue /\ q.queue_pos = p.queue_pos
        BY <1>p, <2>2 DEF PlaylistType
    <2> HIDE DEF q
    <2>4. QueueInv(q)
        BY <1>p, <2>2, <2>3, SameQueue DEF QueueInv
    <2> QED BY <2>1, <2>4
<1> QED BY <1>1, <1>2

\* Starting over touches the marks only.
LEMMA StartOverKeepsQueue ==
    ASSUME NEW p, NEW b \in BOOLEAN, ListInv(p), QueueInv(p)
    PROVE  QueueInv(StartOver([found |-> b, pl |-> p]).pl)
<1> DEFINE r == [found |-> b, pl |-> p]
<1>1. CASE p.play_mode = "random_repeat" /\ p.played_items >= p.length
    <2>1. StartOver(r) = [found |-> b, pl |-> ResetRandom(p)]
        BY <1>1 DEF StartOver
    <2> HIDE DEF r
    <2> QED BY <2>1, ResetKeepsQueue DEF r
<1>2. CASE ~(p.play_mode = "random_repeat" /\ p.played_items >= p.length)
    BY <1>2 DEF StartOver
<1> QED BY <1>1, <1>2

\* playlist_next finds an entry of the list, in every play mode.
LEMMA NextKeepsQueue ==
    ASSUME NEW p, ListInv(p), QueueInv(p), NEW r \in PlaylistNext(p)
    PROVE  QueueInv(r.pl)
<1>1. CASE p.queue_start # NULL
    <2>1. r = [found |-> TRUE, pl |-> FromQueue(p)]
        BY <1>1 DEF PlaylistNext, Found
    <2> QED BY <1>1, <2>1, FromQueueKeepsQueue
<1>2. ASSUME r \in NextRandom(p) PROVE QueueInv(r.pl)
    <2>1. CASE p.played_items < p.length
        <3>1. PICK e \in Unplayed(p) : r = StartOver([found |-> TRUE, pl |-> SetCurrent(p, e)])
            BY <1>2, <2>1 DEF NextRandom, Found
        <3>2. e \in p.live
            BY AllSelectable DEF Unplayed
        <3>3. ListInv(SetCurrent(p, e)) /\ QueueInv(SetCurrent(p, e))
            BY <3>2, SetCurrentKeepsList, SetCurrentKeepsQueue
        <3> QED BY <3>1, <3>3, StartOverKeepsQueue
    <2>2. CASE ~(p.played_items < p.length)
        <3>1. r = StartOver([found |-> FALSE, pl |-> p])
            BY <1>2, <2>2 DEF NextRandom, NotFound
        <3> QED BY <3>1, StartOverKeepsQueue
    <2> QED BY <2>1, <2>2
<1>3. /\ p.first \in p.live \cup {NULL}
      /\ p.current \in p.live \cup {NULL}
      /\ Following(p) \in p.live \cup {NULL}
    BY DEF ListInv, Chain, QueueInv, Following
<1>4. CASE p.queue_start = NULL
    <2>1. CASE p.play_mode \in RandomMode
        BY <1>2, <1>4, <2>1 DEF PlaylistNext
    <2>2. CASE p.play_mode \notin RandomMode
        <3>1. \E e \in p.live \cup {NULL} : r = MoveTo(p, e)
            BY <1>3, <1>4, <2>2 DEF PlaylistNext, RoundAgain
        <3> QED BY <3>1, MoveToKeepsQueue
    <2> QED BY <2>1, <2>2
<1> QED BY <1>1, <1>4

\* So does playlist_prev.
LEMMA PrevKeepsQueue ==
    ASSUME NEW p, ListInv(p), QueueInv(p)
    PROVE  QueueInv(PlaylistPrev(p).pl)
<1>1. /\ p.last \in p.live \cup {NULL}
      /\ p.current # NULL => p.prev[p.current] \in p.live \cup {NULL}
    BY DEF ListInv, Chain, QueueInv
<1>2. QueueInv(Found(p).pl) /\ QueueInv(NotFound(p).pl)
    BY DEF Found, NotFound
<1>3. \/ PlaylistPrev(p) = Found(p) \/ PlaylistPrev(p) = NotFound(p)
      \/ PlaylistPrev(p) = MoveTo(p, p.last)
      \/ PlaylistPrev(p) = NotFound(SetCurrent(p, NULL))
      \/ p.current # NULL /\ PlaylistPrev(p) = MoveTo(p, p.prev[p.current])
    BY DEF PlaylistPrev, MoveTo, Found, NotFound, SetCurrent
<1>4. CASE PlaylistPrev(p) = Found(p) \/ PlaylistPrev(p) = NotFound(p)
    BY <1>2, <1>4
<1>5. CASE PlaylistPrev(p) = MoveTo(p, p.last)
    BY <1>1, <1>5, MoveToKeepsQueue
<1>6. CASE p.current # NULL /\ PlaylistPrev(p) = MoveTo(p, p.prev[p.current])
    BY <1>1, <1>6, MoveToKeepsQueue
<1>7. CASE PlaylistPrev(p) = NotFound(SetCurrent(p, NULL))
    <2>1. QueueInv(SetCurrent(p, NULL))
        BY SetCurrentKeepsQueue
    <2> QED BY <1>7, <2>1 DEF NotFound
<1> QED BY <1>3, <1>4, <1>5, <1>6, <1>7

\* Stopping leaves no entry current.
LEMMA StoppedKeepsQueue ==
    ASSUME NEW p, ListInv(p), QueueInv(p), NEW status \in BOOLEAN
    PROVE  QueueInv(Stopped(p, status))
<1>1. ListInv(ResetRandom(p)) /\ QueueInv(ResetRandom(p))
    BY ResetKeepsList, ResetKeepsQueue
<1>2. QueueInv(SetCurrent(ResetRandom(p), NULL))
    BY <1>1, SetCurrentKeepsQueue
<1> QED BY <1>2 DEF Stopped

\* The next track, or a stop.
LEMMA NextOrStopKeepsQueue ==
    ASSUME NEW p, ListInv(p), QueueInv(p), playing \in BOOLEAN, NEW r \in NextOrStop(p)
    PROVE  QueueInv(r.pl)
<1>1. PICK s \in PlaylistNext(p) :
        r = [pl |-> IF s.found THEN s.pl ELSE Stopped(s.pl, playing), playing |-> s.found]
    BY DEF NextOrStop
<1>2. ListInv(s.pl) /\ QueueInv(s.pl)
    BY NextKeepsList, NextKeepsQueue DEF Kept
<1>3. QueueInv(Stopped(s.pl, playing))
    BY <1>2, StoppedKeepsQueue
<1> QED BY <1>1, <1>2, <1>3

\* Every operation keeps queue and current entry inside the list.
LEMMA StepQueue ==
    ASSUME Careful, Inv, QueueInv(pl), [Next]_vars
    PROVE  QueueInv(pl')
<1>0. ListInv(pl) /\ playing \in BOOLEAN /\ pl \in PlaylistType
    BY DEF Inv, ListInv
<1>s. Selectable(pl) = pl.live
    BY <1>0, AllSelectable
<1>1. CASE Add
    <2>1. PICK e \in New : pl' \in AddItem(pl, e, TRUE)
        BY <1>1 DEF Add, Sound, Careful
    <2> QED BY <1>0, <2>1, AddKeepsQueue DEF New
<1>2. CASE Insert
    <2>1. PICK s \in pl.live, e \in New : pl.next[s] # NULL /\ pl' \in InsertItemAfter(pl, s, e)
        BY <1>2, <1>s DEF Insert, Sound, Careful
    <2> QED BY <1>0, <1>2, <2>1, InsertKeepsQueue DEF New, Insert
<1>3. CASE Remove
    <2>1. PICK e \in pl.live :
            \E r \in IF e = pl.current THEN NextOrStop(pl) ELSE {[pl |-> pl, playing |-> playing]} :
                ~InUse(r.pl, e) /\ pl' = Deleted(r.pl, e)
        BY <1>3, <1>s DEF Remove, Careful
    <2>2. PICK r \in IF e = pl.current THEN NextOrStop(pl) ELSE {[pl |-> pl, playing |-> playing]} :
                ~InUse(r.pl, e) /\ pl' = Deleted(r.pl, e)
        BY <2>1
    <2>3. ListInv(r.pl) /\ r.pl.live = pl.live /\ QueueInv(r.pl)
        BY <1>0, NextOrStopKeepsList, NextOrStopKeepsQueue
    <2> QED BY <2>2, <2>3, DeleteKeepsQueue
<1>4. CASE Clear
    BY <1>0, <1>4, ClearEmptiesQueue DEF Clear
<1>5. CASE Enqueue
    BY <1>0, <1>s, <1>5, EnqueueKeepsQueue DEF Enqueue
<1>6. CASE CycleMode
    <2> DEFINE m == ModeAfter[pl.play_mode]
               q == [pl EXCEPT !.play_mode = m]
    <2>1. pl' = q
        BY <1>6 DEF CycleMode
    <2>m. m \in PlayMode
        <3>1. pl.play_mode \in PlayMode
            BY <1>0 DEF PlaylistType
        <3> QED BY <3>1 DEF PlayMode, ModeAfter
    <2> HIDE DEF m
    <2>2. /\ q.live = pl.live /\ q.queue_start = pl.queue_start /\ q.current = pl.current
          /\ q.next_in_queue = pl.next_in_queue /\ q.queue_pos = pl.queue_pos
          /\ q \in PlaylistType
        BY <1>0, <2>m DEF PlaylistType
    <2> HIDE DEF q
    <2>3. QueueInv(q)
        BY <1>0, <2>2, SameQueue DEF QueueInv
    <2> QED BY <2>1, <2>3
<1>7. CASE AskDelete
    BY <1>0, <1>7, ResetKeepsQueue DEF AskDelete
<1>8. CASE NextTrack
    BY <1>0, <1>8, NextKeepsQueue DEF NextTrack
<1>9. CASE TrackEnds
    BY <1>0, <1>9, NextOrStopKeepsQueue DEF TrackEnds
<1>10. CASE PreviousTrack
    BY <1>0, <1>10, PrevKeepsQueue DEF PreviousTrack
<1>11. CASE PlayItem
    <2>1. PICK e \in pl.live \cup {NULL} : pl' = SetCurrent(pl, e) \/ pl' = pl
        BY <1>0, <1>11, AllSelectable DEF PlayItem
    <2> QED BY <1>0, <2>1, SetCurrentKeepsQueue
<1>12. CASE PlayFile
    BY <1>0, <1>12, SetCurrentKeepsQueue DEF PlayFile
<1>13. CASE Stop
    BY <1>0, <1>13, StoppedKeepsQueue DEF Stop
<1>14. CASE UNCHANGED vars
    BY <1>14 DEF vars
<1> QED BY <1>1, <1>2, <1>3, <1>4, <1>5, <1>6, <1>7, <1>8, <1>9, <1>10, <1>11, <1>12, <1>13, <1>14
        DEF Next

\* Queue and current entry stay inside the list after every sequence of operations.
THEOREM QueueInvariance == Careful => (Spec => [](Inv /\ QueueInv(pl)))
<1> SUFFICES ASSUME Careful PROVE Spec => [](Inv /\ QueueInv(pl))
    OBVIOUS
<1>1. Init => Inv /\ QueueInv(pl)
    <2> SUFFICES ASSUME Init PROVE Inv /\ QueueInv(pl)
        OBVIOUS
    <2>1. pl.queue_start = NULL /\ pl.current = NULL
        BY DEF Init
    <2>2. Queued(pl) = {}
        BY <2>1, ReachNothing DEF Queued
    <2>3. Inv
        BY InitList DEF Init, Inv
    <2>4. Numbered(pl)
        <3>1. pl.live = {}
            BY DEF Init
        <3> QED BY <2>2, <3>1 DEF Numbered, Straight, Queued
    <2> QED BY <2>1, <2>2, <2>3, <2>4 DEF QueueInv
<1>2. (Inv /\ QueueInv(pl)) /\ [Next]_vars => (Inv /\ QueueInv(pl))'
    <2> SUFFICES ASSUME Inv, QueueInv(pl), [Next]_vars PROVE Inv' /\ QueueInv(pl')
        OBVIOUS
    <2> QED BY StepInv, StepQueue DEF Careful
<1> QED BY <1>1, <1>2, PTL DEF Spec

(* If no track is inserted, whose queue_pos nobody sets, the number         *)
(* shown for a queued track is when it will be played, and 0 tells that it  *)
(* is not queued (playlist.c, 433-456, 541-612): dequeueing from the middle *)
(* and playing the head renumber what remains.                              *)
THEOREM PositionsAlwaysRight ==
    Careful /\ "insert" \notin Scenario => (Spec => []QueuePositions)
<1> SUFFICES ASSUME Careful, "insert" \notin Scenario PROVE Spec => []QueuePositions
    OBVIOUS
<1>1. Inv /\ QueueInv(pl) => QueuePositions
    BY DEF QueueInv, Numbered, QueuePositions
<1> QED BY <1>1, QueueInvariance, PTL

-----------------------------------------------------------------------------
(* Types, whatever the user does *)

\* An entry appended, counted or not.
LEMMA AddTypes ==
    ASSUME NEW p \in PlaylistType, NEW e \in Entry, NEW g \in BOOLEAN, NEW q \in AddItem(p, e, g)
    PROVE  /\ q \in PlaylistType
           /\ q.first = (IF p.first = NULL THEN e ELSE p.first) /\ q.last = e
           /\ q.live = p.live \cup {e}
           /\ q.next = Set(Set(p.next, p.last, e), e, NULL) /\ q.prev = Set(p.prev, e, p.last)
           /\ q.current = p.current /\ q.queue_start = p.queue_start
           /\ q.next_in_queue \in {p.next_in_queue, Set(p.next_in_queue, e, NULL)}
<1> DEFINE f == IF p.first = NULL THEN e ELSE p.first
           n == Set(Set(p.next, p.last, e), e, NULL)
           b == Set(p.prev, e, p.last)
           m == Set(p.played, e, FALSE)
           v == p.live \cup {e}
           a == Appended(p, e)
<1>1. /\ f \in Pointer /\ e \in Pointer /\ v \in SUBSET Entry
      /\ n \in [Entry -> Pointer] /\ b \in [Entry -> Pointer] /\ m \in [Entry -> BOOLEAN]
    BY FieldTypes, PointerTypes, SetType
<1>2. a = [p EXCEPT !.first = f, !.last = e, !.live = v, !.next = n, !.prev = b, !.played = m]
    BY DEF Appended
<1>v. /\ f = (IF p.first = NULL THEN e ELSE p.first) /\ v = p.live \cup {e}
      /\ n = Set(Set(p.next, p.last, e), e, NULL) /\ b = Set(p.prev, e, p.last)
    OBVIOUS
<1> HIDE DEF f, n, b, m, v, a
<1>3. /\ a \in PlaylistType
      /\ a.first = f /\ a.last = e /\ a.live = v /\ a.next = n /\ a.prev = b
      /\ a.current = p.current /\ a.queue_start = p.queue_start
      /\ a.next_in_queue = p.next_in_queue
    BY <1>1, <1>2 DEF PlaylistType
<1>4. CASE g = TRUE
    <2> DEFINE i == Set(a.queue_pos, e, 0)
               k == Set(a.next_in_queue, e, NULL)
               c == a.length + 1
    <2>1. i \in [Entry -> Int] /\ k \in [Entry -> Pointer] /\ c \in Nat
        <3>1. 0 \in Int /\ a.queue_pos \in [Entry -> Int] /\ a.next_in_queue \in [Entry -> Pointer]
            BY <1>3, FieldTypes
        <3>2. c \in Nat
            BY <1>3, FieldTypes
        <3> QED BY <3>1, <3>2, PointerTypes, SetType
    <2>2. q = [a EXCEPT !.queue_pos = i, !.next_in_queue = k, !.length = c]
        BY <1>4 DEF AddItem, a
    <2>v. k = Set(p.next_in_queue, e, NULL)
        BY <1>3
    <2> HIDE DEF i, k, c
    <2>3. /\ q \in PlaylistType
          /\ q.first = a.first /\ q.last = a.last /\ q.live = a.live /\ q.next = a.next
          /\ q.prev = a.prev /\ q.current = a.current /\ q.queue_start = a.queue_start
          /\ q.next_in_queue = k
        BY <1>3, <2>1, <2>2 DEF PlaylistType
    <2> QED BY <1>3, <1>v, <2>3, <2>v
<1>5. CASE g = FALSE
    <2>1. PICK u \in Uninitialised : q = [a EXCEPT !.queue_pos = Set(a.queue_pos, e, u)]
        BY <1>5 DEF AddItem, a
    <2> DEFINE i == Set(a.queue_pos, e, u)
    <2>2. i \in [Entry -> Int]
        <3>1. u \in Int
            BY DEF Uninitialised
        <3> QED BY <3>1, <1>3, FieldTypes, SetType
    <2>3. q = [a EXCEPT !.queue_pos = i]
        BY <2>1
    <2> HIDE DEF i
    <2>4. /\ q \in PlaylistType
          /\ q.first = a.first /\ q.last = a.last /\ q.live = a.live /\ q.next = a.next
          /\ q.prev = a.prev /\ q.current = a.current /\ q.queue_start = a.queue_start
          /\ q.next_in_queue = a.next_in_queue
        BY <1>3, <2>2, <2>3 DEF PlaylistType
    <2> QED BY <1>3, <1>v, <2>4
<1> QED BY <1>4, <1>5

\* An entry inserted, behind the last one too.
LEMMA InsertTypes ==
    ASSUME NEW p \in PlaylistType, NEW s \in Entry, NEW e \in Entry, NEW q \in InsertItemAfter(p, s, e)
    PROVE  /\ q \in PlaylistType
           /\ q.first = p.first /\ q.last = p.last /\ q.live = p.live \cup {e}
           /\ q.next = Set(Set(p.next, e, p.next[s]), s, e)
           /\ q.prev = Set(Set(p.prev, p.next[s], e), e, s)
           /\ q.current = p.current /\ q.queue_start = p.queue_start
           /\ q.next_in_queue = Set(p.next_in_queue, e, NULL)
<1>u. PICK u \in Uninitialised : q = Inserted(p, s, e, u)
    BY DEF InsertItemAfter
<1> DEFINE n == Set(Set(p.next, e, p.next[s]), s, e)
           b == Set(Set(p.prev, p.next[s], e), e, s)
           m == Set(p.played, e, FALSE)
           k == Set(p.next_in_queue, e, NULL)
           i == Set(p.queue_pos, e, u)
           v == p.live \cup {e}
           c == p.length + 1
<1>1. /\ n \in [Entry -> Pointer] /\ b \in [Entry -> Pointer] /\ m \in [Entry -> BOOLEAN]
      /\ k \in [Entry -> Pointer] /\ i \in [Entry -> Int] /\ v \in SUBSET Entry /\ c \in Nat
    <2>1. p.next[s] \in Pointer /\ u \in Int
        BY FieldTypes DEF Uninitialised
    <2>2. c \in Nat
        BY FieldTypes
    <2>3. /\ p.next \in [Entry -> Pointer] /\ p.prev \in [Entry -> Pointer]
          /\ p.played \in [Entry -> BOOLEAN] /\ p.queue_pos \in [Entry -> Int]
          /\ p.next_in_queue \in [Entry -> Pointer]
          /\ e \in Pointer /\ s \in Pointer /\ NULL \in Pointer /\ v \in SUBSET Entry
        BY FieldTypes, PointerTypes
    <2> QED BY <2>1, <2>2, <2>3, SetType
<1>2. q = [p EXCEPT !.live = v, !.next = n, !.prev = b, !.played = m, !.next_in_queue = k,
                    !.queue_pos = i, !.length = c]
    BY <1>u DEF Inserted
<1>v. /\ n = Set(Set(p.next, e, p.next[s]), s, e) /\ b = Set(Set(p.prev, p.next[s], e), e, s)
      /\ k = Set(p.next_in_queue, e, NULL) /\ v = p.live \cup {e}
    OBVIOUS
<1> HIDE DEF n, b, m, k, i, v, c
<1> QED BY <1>1, <1>2, <1>v DEF PlaylistType

\* Freeing memory leaves the queue links of the others alone.
LEMMA FreeQueue ==
    ASSUME NEW p \in PlaylistType, NEW S \in SUBSET Entry
    PROVE  \A x \in Entry \ S : Free(p, S).next_in_queue[x] = p.next_in_queue[x]
BY DEF Free, PlaylistType

\* An entry deleted, be it in use or not.
LEMMA DeleteTypes ==
    ASSUME NEW p \in PlaylistType, p.length # 0, NEW e \in Entry, NEW q, q = Deleted(p, e)
    PROVE  /\ q \in PlaylistType
           /\ q.live = p.live \ {e}
           /\ q.first = (IF p.length = 1 THEN NULL ELSE IF p.prev[e] = NULL THEN p.next[e] ELSE p.first)
           /\ q.last = (IF p.length = 1 THEN NULL ELSE IF p.next[e] = NULL THEN p.prev[e] ELSE p.last)
           /\ Bridged(e, p.live, p.next, p.prev, q.next, q.prev)
           /\ q.current = p.current /\ q.queue_start = p.queue_start
           /\ \A x \in Entry \ {e} : q.next_in_queue[x] = p.next_in_queue[x]
<1> DEFINE a == Free(p, {e})
           n == Set(a.next, p.prev[e], p.next[e])
           b == Set(a.prev, p.next[e], p.prev[e])
           f == IF p.length = 1 THEN NULL ELSE IF p.prev[e] = NULL THEN p.next[e] ELSE p.first
           l == IF p.length = 1 THEN NULL ELSE IF p.next[e] = NULL THEN p.prev[e] ELSE p.last
           c == p.length - 1
<1>1. /\ a \in PlaylistType /\ a.live = p.live \ {e} /\ a.length = p.length
      /\ a.first = p.first /\ a.last = p.last
      /\ a.queue_start = p.queue_start /\ a.current = p.current
      /\ \A x \in Entry \ {e} : /\ a.next[x] = p.next[x] /\ a.prev[x] = p.prev[x]
                                /\ a.next_in_queue[x] = p.next_in_queue[x]
    <2>1. {e} \in SUBSET Entry
        OBVIOUS
    <2> QED BY <2>1, FreeFields, FreeQueue
<1>2. p.next[e] \in Pointer /\ p.prev[e] \in Pointer
    BY FieldTypes
<1>3. q = [a EXCEPT !.next = n, !.prev = b, !.first = f, !.last = l, !.length = c]
    <2>1. q = [a EXCEPT !.next = n, !.prev = b,
                        !.first = IF p.length = 1 THEN NULL ELSE IF p.prev[e] = NULL THEN p.next[e] ELSE a.first,
                        !.last = IF p.length = 1 THEN NULL ELSE IF p.next[e] = NULL THEN p.prev[e] ELSE a.last,
                        !.length = a.length - 1]
        BY DEF Deleted
    <2> HIDE DEF a, n, b
    <2> QED BY <2>1, <1>1
<1> HIDE DEF a
<1>4. n \in [Entry -> Pointer] /\ b \in [Entry -> Pointer]
    BY <1>1, <1>2, FieldTypes, SetType
<1>5. Bridged(e, p.live, p.next, p.prev, n, b)
    BY <1>1, FieldTypes DEF Set, Bridged
<1>6. f \in Pointer /\ l \in Pointer
    BY <1>2, FieldTypes, PointerTypes
<1>7. c \in Nat
    BY FieldTypes
<1>v. /\ f = (IF p.length = 1 THEN NULL ELSE IF p.prev[e] = NULL THEN p.next[e] ELSE p.first)
      /\ l = (IF p.length = 1 THEN NULL ELSE IF p.next[e] = NULL THEN p.prev[e] ELSE p.last)
    OBVIOUS
<1> HIDE DEF n, b, f, l, c
<1>8. q \in PlaylistType
    <2>1. a \in PlaylistType
        BY <1>1
    <2>2. [a EXCEPT !.next = n, !.prev = b, !.first = f, !.last = l, !.length = c] \in PlaylistType
        BY ONLY <2>1, <1>4, <1>6, <1>7, Relinked
    <2> QED BY ONLY <2>2, <1>3
<1>9. /\ q.live = a.live /\ q.first = f /\ q.last = l /\ q.next = n /\ q.prev = b
      /\ q.current = a.current /\ q.queue_start = a.queue_start
      /\ q.next_in_queue = a.next_in_queue
    BY <1>1, <1>3, <1>8 DEF PlaylistType
<1> QED BY <1>1, <1>5, <1>8, <1>9, <1>v

\* The playlist cleared, of all that a walk meets.
LEMMA ClearTypes ==
    ASSUME NEW p \in PlaylistType, NEW q, q = Cleared(p)
    PROVE  /\ q \in PlaylistType
           /\ q.live = p.live \ Linked(p)
           /\ q.first = NULL /\ q.last = NULL /\ q.current = NULL /\ q.queue_start = NULL
           /\ \A x \in Entry \ Linked(p) : q.next[x] = p.next[x] /\ q.prev[x] = p.prev[x]
<1> DEFINE a == Free(p, Linked(p))
<1>1. /\ a \in PlaylistType /\ a.live = p.live \ Linked(p)
      /\ \A x \in Entry \ Linked(p) : a.next[x] = p.next[x] /\ a.prev[x] = p.prev[x]
    <2>1. Linked(p) \in SUBSET Entry
        BY DEF Linked, Reach
    <2> QED BY <2>1, FreeFields
<1>2. q = [a EXCEPT !.length = 0, !.current = NULL, !.first = NULL, !.last = NULL,
                    !.played_items = 0, !.queue_start = NULL]
    BY DEF Cleared
<1> HIDE DEF a
<1>3. 0 \in Nat /\ NULL \in Pointer
    BY PointerTypes
<1>4. /\ q \in PlaylistType /\ q.live = a.live
      /\ q.first = NULL /\ q.last = NULL /\ q.current = NULL /\ q.queue_start = NULL
      /\ q.next = a.next /\ q.prev = a.prev
    BY <1>1, <1>2, <1>3 DEF PlaylistType
<1> QED BY <1>1, <1>4

(* What playlist and entries do not lose when only marks, counts or the mode *)
(* change.                                                                   *)
SameLinks(q, p) ==
    /\ q.live = p.live /\ q.first = p.first /\ q.last = p.last
    /\ q.next = p.next /\ q.prev = p.prev
    /\ q.queue_start = p.queue_start /\ q.next_in_queue = p.next_in_queue

\* The marks of random play cleared.
LEMMA ResetTypes ==
    ASSUME NEW p \in PlaylistType, NEW q, q = ResetRandom(p)
    PROVE  q \in PlaylistType /\ SameLinks(q, p) /\ q.current = p.current
<1> DEFINE m == [e \in Entry |-> e \notin Linked(p) /\ p.played[e]]
<1>1. m \in [Entry -> BOOLEAN]
    BY FieldTypes
<1>2. q = [p EXCEPT !.played = m, !.played_items = 0]
    BY DEF ResetRandom
<1> HIDE DEF m
<1>3. 0 \in Nat
    OBVIOUS
<1> QED BY <1>1, <1>2, <1>3 DEF PlaylistType, SameLinks

\* An entry, or none, made current.
LEMMA SetCurrentTypes ==
    ASSUME NEW p \in PlaylistType, NEW e \in Pointer, NEW q, q = SetCurrent(p, e)
    PROVE  q \in PlaylistType /\ SameLinks(q, p) /\ q.current = e
<1>1. CASE e = NULL
    <2>1. q = [p EXCEPT !.current = NULL]
        BY <1>1 DEF SetCurrent
    <2> QED BY <1>1, <2>1, PointerTypes DEF PlaylistType, SameLinks
<1>2. CASE e # NULL
    <2> DEFINE m == Set(p.played, e, p.played[e] \/ p.play_mode \in RandomMode)
               c == p.played_items + 1
    <2>1. q = [p EXCEPT !.current = e, !.played = m, !.played_items = c]
        BY <1>2 DEF SetCurrent
    <2>2. e \in Entry
        BY <1>2 DEF Pointer
    <2>3. m \in [Entry -> BOOLEAN]
        BY <2>2, FieldTypes, SetType
    <2>4. c \in Nat
        BY FieldTypes
    <2> HIDE DEF m, c
    <2> QED BY <2>1, <2>3, <2>4 DEF PlaylistType, SameLinks
<1> QED BY <1>1, <1>2

\* The current entry moved along the list.
LEMMA MoveToTypes ==
    ASSUME NEW p \in PlaylistType, NEW e \in Pointer, NEW r, r = MoveTo(p, e)
    PROVE  /\ r.pl \in PlaylistType /\ r.found \in BOOLEAN
           /\ SameLinks(r.pl, p) /\ r.pl.current \in {p.current, e}
<1>1. CASE e = NULL
    <2>1. r.pl = p /\ r.found = FALSE
        BY <1>1 DEF MoveTo, NotFound
    <2> QED BY <2>1 DEF SameLinks
<1>2. CASE e # NULL
    <2> DEFINE q == [p EXCEPT !.current = e]
    <2>1. r.pl = q /\ r.found = TRUE
        BY <1>2 DEF MoveTo, Found
    <2>2. q \in PlaylistType /\ SameLinks(q, p) /\ q.current = e
        BY DEF PlaylistType, SameLinks
    <2> HIDE DEF q
    <2> QED BY <2>1, <2>2
<1> QED BY <1>1, <1>2
\* An entry put into the queue, or taken out of it.
LEMMA EnqueueTypes ==
    ASSUME NEW p \in PlaylistType, NEW e \in Entry, NEW q, q = EntryEnqueue(p, e)
    PROVE  /\ q \in PlaylistType
           /\ q.live = p.live /\ q.first = p.first /\ q.last = p.last
           /\ q.next = p.next /\ q.prev = p.prev /\ q.current = p.current
           /\ Queued(q) \subseteq Queued(p) \cup {e}
<1>t. /\ p.next_in_queue \in [Entry -> Pointer] /\ p.queue_pos \in [Entry -> Int]
      /\ p.queue_start \in Pointer /\ e \in Pointer /\ NULL \in Pointer
      /\ p.next_in_queue[e] \in Pointer
    BY FieldTypes, PointerTypes
<1>c. /\ Queued(p) \in SUBSET Entry
      /\ p.queue_start \in Queued(p) \cup {NULL}
      /\ \A x \in Queued(p) : p.next_in_queue[x] \in Queued(p) \cup {NULL}
    BY QueueClosed
<1>1. CASE p.queue_pos[e] = 0
    <2> DEFINE link == [x \in Entry |-> IF x \in QueueEnd(p) THEN e ELSE p.next_in_queue[x]]
               s == IF p.queue_start = NULL THEN e ELSE p.queue_start
               n == Set(link, e, NULL)
               k == Set(p.queue_pos, e, Cardinality(Queued(p)) + 1)
               S == Queued(p) \cup {e}
    <2>1. q = [p EXCEPT !.queue_start = s, !.next_in_queue = n, !.queue_pos = k]
        BY <1>1 DEF EntryEnqueue, EnqueuedLast
    <2>2. s \in Pointer /\ link \in [Entry -> Pointer]
        BY <1>t
    <2>3. n \in [Entry -> Pointer]
        BY <1>t, <2>2, SetType
    <2>4. k \in [Entry -> Int]
        <3>1. Cardinality(Queued(p)) + 1 \in Int
            BY <1>c, LiveFinite
        <3> QED BY <1>t, <3>1, SetType
    <2>5. S \in SUBSET Entry /\ s \in S \cup {NULL} /\ \A x \in S : n[x] \in S \cup {NULL}
        BY <1>c DEF Set
    <2> HIDE DEF s, n, k, link, S
    <2>6. /\ q \in PlaylistType
          /\ q.live = p.live /\ q.first = p.first /\ q.last = p.last
          /\ q.next = p.next /\ q.prev = p.prev /\ q.current = p.current
          /\ q.queue_start = s /\ q.next_in_queue = n
        BY <2>1, <2>2, <2>3, <2>4 DEF PlaylistType
    <2>7. Queued(q) \subseteq S
        BY <2>5, <2>6, QueueLeast
    <2> QED BY <2>6, <2>7 DEF S
<1>2. CASE p.queue_pos[e] # 0 /\ e \in Queued(p)
    <2> DEFINE s == IF p.queue_start = e THEN p.next_in_queue[e] ELSE p.queue_start
               n == [x \in Entry |->
                        IF x = e THEN NULL
                        ELSE IF x \in Queued(p) /\ p.next_in_queue[x] = e THEN p.next_in_queue[e]
                        ELSE p.next_in_queue[x]]
               k == [x \in Entry |->
                        IF x = e THEN 0
                        ELSE IF x \in Behind(p, e) THEN p.queue_pos[x] - 1
                        ELSE p.queue_pos[x]]
    <2>1. q = [p EXCEPT !.queue_start = s, !.next_in_queue = n, !.queue_pos = k]
        BY <1>2 DEF EntryEnqueue, Dequeued
    <2>2. s \in Pointer /\ n \in [Entry -> Pointer]
        BY <1>t
    <2>3. k \in [Entry -> Int]
        BY <1>t
    <2>4. s \in Queued(p) \cup {NULL} /\ \A x \in Queued(p) : n[x] \in Queued(p) \cup {NULL}
        BY <1>c, <1>2
    <2> HIDE DEF s, n, k
    <2>5. /\ q \in PlaylistType
          /\ q.live = p.live /\ q.first = p.first /\ q.last = p.last
          /\ q.next = p.next /\ q.prev = p.prev /\ q.current = p.current
          /\ q.queue_start = s /\ q.next_in_queue = n
        BY <2>1, <2>2, <2>3 DEF PlaylistType
    <2>6. Queued(q) \subseteq Queued(p)
        BY <1>c, <2>4, <2>5, QueueLeast
    <2> QED BY <2>5, <2>6
<1>3. CASE p.queue_pos[e] # 0 /\ e \notin Queued(p)
    BY <1>3 DEF EntryEnqueue, Dequeued
<1> QED BY <1>1, <1>2, <1>3

(* Where the player can go from here. *)
Targets(p) ==
    {NULL, p.current, p.first, p.last, p.queue_start} \cup Linked(p) \cup
    {x \in Pointer : p.current # NULL /\ x \in {p.next[p.current], p.prev[p.current]}}

(* It has gone there, and may have taken the head of the queue. *)
Moved(q, p) ==
    /\ q \in PlaylistType
    /\ q.live = p.live /\ q.first = p.first /\ q.last = p.last
    /\ q.next = p.next /\ q.prev = p.prev /\ q.next_in_queue = p.next_in_queue
    /\ \/ q.queue_start = p.queue_start
       \/ p.queue_start # NULL /\ q.queue_start = p.next_in_queue[p.queue_start]
    /\ q.current \in Targets(p)

\* Whoever can be selected is an entry, and so is every target but NULL.
LEMMA TargetTypes ==
    ASSUME NEW p \in PlaylistType
    PROVE  /\ Selectable(p) \subseteq Entry /\ Linked(p) \subseteq Entry
           /\ Targets(p) \subseteq Pointer
BY FieldTypes DEF Selectable, Linked, Reach, Targets, Pointer

\* Marks, counts and the mode move nothing, nor does a stop.
LEMMA MovedOn ==
    ASSUME NEW p, NEW q, Moved(q, p), NEW r \in PlaylistType, SameLinks(r, q),
           r.current \in {q.current, NULL}
    PROVE  Moved(r, p)
BY DEF Moved, SameLinks, Targets

\* To stay is to move.
LEMMA MovedNot ==
    ASSUME NEW p \in PlaylistType
    PROVE  Moved(p, p)
BY DEF Moved, Targets

\* The links are the same, and the player goes to a target.
LEMMA MovedThere ==
    ASSUME NEW p \in PlaylistType, NEW q \in PlaylistType, SameLinks(q, p), q.current \in Targets(p)
    PROVE  Moved(q, p)
BY DEF Moved, SameLinks

\* The head of the queue becomes current.
LEMMA FromQueueMoves ==
    ASSUME NEW p \in PlaylistType, p.queue_start # NULL, NEW q, q = FromQueue(p)
    PROVE  Moved(q, p)
<1> DEFINE s == p.next_in_queue[p.queue_start]
           k == [e \in Entry |-> IF e \in Queued(p)
                                 THEN Position(p.queue_start, p.next_in_queue, e)
                                 ELSE p.queue_pos[e]]
<1>1. q = [p EXCEPT !.current = p.queue_start, !.queue_start = s, !.queue_pos = k]
    BY DEF FromQueue
<1>2. s \in Pointer /\ p.queue_start \in Pointer
    <2>1. p.queue_start \in Entry
        BY FieldTypes DEF Pointer
    <2> QED BY <2>1, FieldTypes, PointerTypes
<1>3. k \in [Entry -> Int]
    <2>1. ASSUME NEW e \in Entry
          PROVE  Position(p.queue_start, p.next_in_queue, e) \in Int
        <3>1. Reach(p.queue_start, p.next_in_queue) \ Reach(e, p.next_in_queue) \in SUBSET Entry
            BY DEF Reach
        <3> QED BY <3>1, LiveFinite DEF Position
    <2> QED BY <2>1, FieldTypes
<1>v. s = p.next_in_queue[p.queue_start]
    OBVIOUS
<1> HIDE DEF s, k
<1>4. /\ q \in PlaylistType
      /\ q.live = p.live /\ q.first = p.first /\ q.last = p.last
      /\ q.next = p.next /\ q.prev = p.prev /\ q.next_in_queue = p.next_in_queue
      /\ q.queue_start = s /\ q.current = p.queue_start
    BY <1>1, <1>2, <1>3 DEF PlaylistType
<1> QED BY <1>4, <1>v DEF Moved, Targets

\* playlist_next moves, in every play mode.
LEMMA NextMoves ==
    ASSUME NEW p \in PlaylistType, NEW r \in PlaylistNext(p)
    PROVE  Moved(r.pl, p) /\ r.found \in BOOLEAN
<1>1. CASE p.queue_start # NULL
    <2>1. r.pl = FromQueue(p) /\ r.found = TRUE
        BY <1>1 DEF PlaylistNext, Found
    <2> QED BY <1>1, <2>1, FromQueueMoves
<1>2. ASSUME NEW a, NEW b \in BOOLEAN, Moved(a, p), r = StartOver([found |-> b, pl |-> a])
      PROVE  Moved(r.pl, p) /\ r.found \in BOOLEAN
    <2>1. \/ r.pl = a /\ r.found = b
          \/ r.pl = ResetRandom(a) /\ r.found = b
        BY <1>2 DEF StartOver
    <2>2. Moved(ResetRandom(a), p)
        <3>1. a \in PlaylistType
            BY <1>2 DEF Moved
        <3> DEFINE m == ResetRandom(a)
        <3>2. m \in PlaylistType /\ SameLinks(m, a) /\ m.current = a.current
            BY <3>1, ResetTypes
        <3> HIDE DEF m
        <3>3. Moved(m, p)
            BY <1>2, <3>2, MovedOn
        <3> QED BY <3>3 DEF m
    <2> QED BY <1>2, <2>1, <2>2
<1>3. ASSUME r \in NextRandom(p) PROVE Moved(r.pl, p) /\ r.found \in BOOLEAN
    <2>1. CASE p.played_items < p.length
        <3>1. PICK e \in Unplayed(p) : r = StartOver([found |-> TRUE, pl |-> SetCurrent(p, e)])
            BY <1>3, <2>1 DEF NextRandom, Found
        <3> DEFINE m == SetCurrent(p, e)
        <3>2. e \in Targets(p) /\ e \in Pointer
            BY TargetTypes, PointerTypes DEF Unplayed, Drawn, Targets
        <3>3. m \in PlaylistType /\ SameLinks(m, p) /\ m.current = e
            BY <3>2, SetCurrentTypes
        <3> HIDE DEF m
        <3>4. Moved(m, p)
            BY <3>2, <3>3, MovedThere
        <3> QED BY <3>1, <3>4, <1>2 DEF m
    <2>2. CASE ~(p.played_items < p.length)
        <3>1. r = StartOver([found |-> FALSE, pl |-> p])
            BY <1>3, <2>2 DEF NextRandom, NotFound
        <3> QED BY <3>1, <1>2, MovedNot
    <2> QED BY <2>1, <2>2
<1>4. CASE p.queue_start = NULL
    <2>1. CASE p.play_mode \in RandomMode
        BY <1>3, <1>4, <2>1 DEF PlaylistNext
    <2>2. CASE p.play_mode \notin RandomMode
        <3>1. Following(p) \in Targets(p) /\ p.first \in Targets(p) /\ p.current \in Targets(p)
            <4>1. p.current # NULL => p.next[p.current] \in Pointer
                BY FieldTypes DEF Pointer
            <4> QED BY <4>1 DEF Following, Targets
        <3>2. PICK e \in Targets(p) : r = MoveTo(p, e)
            BY <3>1, <1>4, <2>2 DEF PlaylistNext, RoundAgain
        <3>3. e \in Pointer
            BY TargetTypes
        <3>4. /\ r.pl \in PlaylistType /\ r.found \in BOOLEAN
              /\ SameLinks(r.pl, p) /\ r.pl.current \in {p.current, e}
            BY <3>2, <3>3, MoveToTypes
        <3> QED BY <3>1, <3>4, MovedThere
    <2> QED BY <2>1, <2>2
<1> QED BY <1>1, <1>4

\* playlist_prev moves.
LEMMA PrevMoves ==
    ASSUME NEW p \in PlaylistType, NEW r, r = PlaylistPrev(p)
    PROVE  Moved(r.pl, p) /\ r.found \in BOOLEAN
<1>1. \/ r = Found(p) \/ r = NotFound(p)
      \/ r = NotFound(SetCurrent(p, NULL))
      \/ \E e \in Targets(p) : r = MoveTo(p, e)
    <2>1. p.current # NULL => p.prev[p.current] \in Targets(p)
        BY FieldTypes DEF Targets, Pointer
    <2>2. p.last \in Targets(p)
        BY DEF Targets
    <2> QED BY <2>1, <2>2 DEF PlaylistPrev, MoveTo, Found, NotFound, SetCurrent
<1>2. CASE r = Found(p) \/ r = NotFound(p)
    <2>1. /\ Found(p).pl = p /\ Found(p).found \in BOOLEAN
          /\ NotFound(p).pl = p /\ NotFound(p).found \in BOOLEAN
        BY DEF Found, NotFound
    <2>2. r.pl = p /\ r.found \in BOOLEAN
        BY ONLY <1>2, <2>1
    <2> QED BY <2>2, MovedNot
<1>3. ASSUME NEW e \in Targets(p), r = MoveTo(p, e) PROVE Moved(r.pl, p) /\ r.found \in BOOLEAN
    <2>1. e \in Pointer /\ p.current \in Targets(p)
        BY TargetTypes DEF Targets
    <2>2. /\ r.pl \in PlaylistType /\ r.found \in BOOLEAN
          /\ SameLinks(r.pl, p) /\ r.pl.current \in {p.current, e}
        BY <1>3, <2>1, MoveToTypes
    <2> QED BY <2>1, <2>2, MovedThere
<1>4. CASE r = NotFound(SetCurrent(p, NULL))
    <2> DEFINE q == SetCurrent(p, NULL)
    <2>1. q \in PlaylistType /\ SameLinks(q, p) /\ q.current = NULL
        BY PointerTypes, SetCurrentTypes
    <2> HIDE DEF q
    <2>2. Moved(q, p)
        BY <2>1, MovedThere DEF Targets
    <2>3. r.pl = q /\ r.found = FALSE
        BY <1>4 DEF NotFound, q
    <2> QED BY <2>2, <2>3
<1> QED BY <1>1, <1>2, <1>3, <1>4

\* A stop leaves no entry current, or everything as it was.
LEMMA StoppedMoves ==
    ASSUME NEW p, NEW q, Moved(q, p), NEW status \in BOOLEAN
    PROVE  Moved(Stopped(q, status), p)
<1> DEFINE m == ResetRandom(q)
           c == SetCurrent(m, NULL)
<1>1. q \in PlaylistType
    BY DEF Moved
<1>2. m \in PlaylistType /\ SameLinks(m, q)
    BY <1>1, ResetTypes
<1> HIDE DEF m
<1>3. c \in PlaylistType /\ SameLinks(c, m) /\ c.current = NULL
    BY <1>2, PointerTypes, SetCurrentTypes
<1> HIDE DEF c
<1>4. SameLinks(c, q)
    BY <1>2, <1>3 DEF SameLinks
<1>5. Moved(c, p)
    BY <1>3, <1>4, MovedOn
<1> QED BY <1>5 DEF Stopped, c, m

\* The next track, or a stop.
LEMMA NextOrStopMoves ==
    ASSUME NEW p \in PlaylistType, playing \in BOOLEAN, NEW r \in NextOrStop(p)
    PROVE  Moved(r.pl, p) /\ r.playing \in BOOLEAN
<1>1. PICK s \in PlaylistNext(p) :
        r = [pl |-> IF s.found THEN s.pl ELSE Stopped(s.pl, playing), playing |-> s.found]
    BY DEF NextOrStop
<1>2. Moved(s.pl, p) /\ s.found \in BOOLEAN
    BY NextMoves
<1>3. Moved(Stopped(s.pl, playing), p)
    BY <1>2, StoppedMoves
<1> QED BY <1>1, <1>2, <1>3

\* The player's operations move, all of them.
Playing ==
    \/ CycleMode \/ AskDelete
    \/ NextTrack \/ TrackEnds \/ PreviousTrack \/ PlayItem \/ PlayFile \/ Stop

LEMMA PlayingMoves ==
    ASSUME pl \in PlaylistType, playing \in BOOLEAN, Playing
    PROVE  Moved(pl', pl) /\ playing' \in BOOLEAN
<1>0. /\ Linked(pl) \subseteq Entry /\ Linked(pl) \subseteq Targets(pl)
      /\ NULL \in Targets(pl) /\ pl.current \in Targets(pl) /\ Targets(pl) \subseteq Pointer
    BY TargetTypes DEF Targets
<1>c. ASSUME NEW e \in Targets(pl) PROVE Moved(SetCurrent(pl, e), pl)
    <2> DEFINE q == SetCurrent(pl, e)
    <2>1. q \in PlaylistType /\ SameLinks(q, pl) /\ q.current = e
        BY <1>0, SetCurrentTypes
    <2> HIDE DEF q
    <2>2. Moved(q, pl)
        BY <2>1, MovedThere
    <2> QED BY <2>2 DEF q
<1>6. CASE CycleMode
    <2> DEFINE m == ModeAfter[pl.play_mode]
    <2>1. pl' = [pl EXCEPT !.play_mode = m] /\ playing' = playing
        BY <1>6 DEF CycleMode
    <2>2. m \in PlayMode
        <3>1. pl.play_mode \in PlayMode
            BY DEF PlaylistType
        <3> QED BY <3>1 DEF PlayMode, ModeAfter
    <2> HIDE DEF m
    <2>3. pl' \in PlaylistType /\ SameLinks(pl', pl) /\ pl'.current = pl.current
        BY <2>1, <2>2 DEF PlaylistType, SameLinks
    <2> QED BY <2>1, <2>3, <1>0, MovedThere
<1>7. CASE AskDelete
    <2>1. pl' = ResetRandom(pl) /\ playing' = playing
        BY <1>7 DEF AskDelete
    <2>2. pl' \in PlaylistType /\ SameLinks(pl', pl) /\ pl'.current = pl.current
        BY <2>1, ResetTypes
    <2> QED BY <2>1, <2>2, <1>0, MovedThere
<1>8. CASE NextTrack
    <2>1. PICK r \in PlaylistNext(pl) : pl' = r.pl /\ playing' = (playing \/ r.found)
        BY <1>8 DEF NextTrack
    <2> QED BY <2>1, NextMoves
<1>9. CASE TrackEnds
    <2>1. PICK r \in NextOrStop(pl) : pl' = r.pl /\ playing' = r.playing
        BY <1>9 DEF TrackEnds
    <2> QED BY <2>1, NextOrStopMoves
<1>10. CASE PreviousTrack
    BY <1>10, PrevMoves DEF PreviousTrack
<1>11. CASE PlayItem
    BY <1>0, <1>c, <1>11, MovedNot DEF PlayItem
<1>12. CASE PlayFile
    BY <1>0, <1>c, <1>12 DEF PlayFile
<1>13. CASE Stop
    BY <1>13, MovedNot, StoppedMoves DEF Stop
<1> QED BY <1>6, <1>7, <1>8, <1>9, <1>10, <1>11, <1>12, <1>13 DEF Playing

\* Every operation keeps the types, the faulty ones too.
LEMMA StepTypes ==
    ASSUME TypeOK, [Next]_vars
    PROVE  TypeOK'
<1>0. pl \in PlaylistType /\ playing \in BOOLEAN
    BY DEF TypeOK
<1>s. Selectable(pl) \subseteq Entry
    BY <1>0, TargetTypes
<1>1. CASE Add
    <2>1. PICK e \in Entry, g \in BOOLEAN : pl' \in AddItem(pl, e, g)
        BY <1>1 DEF Add, New
    <2> QED BY <1>0, <1>1, <2>1, AddTypes DEF Add, TypeOK
<1>2. CASE Insert
    <2>1. PICK s \in Entry, e \in Entry : pl' \in InsertItemAfter(pl, s, e)
        BY <1>2, <1>s DEF Insert, New
    <2> QED BY <1>0, <1>2, <2>1, InsertTypes DEF Insert, TypeOK
<1>3. CASE Remove
    <2>1. PICK e \in Entry :
            \E r \in IF e = pl.current THEN NextOrStop(pl) ELSE {[pl |-> pl, playing |-> playing]} :
                pl' = Deleted(r.pl, e) /\ playing' = r.playing
        BY <1>3, <1>s DEF Remove
    <2>2. PICK r \in IF e = pl.current THEN NextOrStop(pl) ELSE {[pl |-> pl, playing |-> playing]} :
                pl' = Deleted(r.pl, e) /\ playing' = r.playing
        BY <2>1
    <2>3. Moved(r.pl, pl) /\ r.playing \in BOOLEAN
        BY <1>0, MovedNot, NextOrStopMoves
    <2>4. r.pl \in PlaylistType
        BY <2>3 DEF Moved
    <2>5. Deleted(r.pl, e) \in PlaylistType
        <3>1. CASE r.pl.length = 0
            BY <2>4, <3>1 DEF Deleted
        <3>2. CASE r.pl.length # 0
            BY <2>4, <3>2, DeleteTypes
        <3> QED BY <3>1, <3>2
    <2> QED BY <2>2, <2>3, <2>5 DEF TypeOK
<1>4. CASE Clear
    BY <1>0, <1>4, ClearTypes DEF Clear, TypeOK
<1>5. CASE Enqueue
    BY <1>0, <1>s, <1>5, EnqueueTypes DEF Enqueue, TypeOK
<1>6. CASE Playing
    BY <1>0, <1>6, PlayingMoves DEF Moved, TypeOK
<1>7. CASE UNCHANGED vars
    BY <1>0, <1>7 DEF vars, TypeOK
<1> QED BY <1>1, <1>2, <1>3, <1>4, <1>5, <1>6, <1>7 DEF Next, Playing

(* Type correctness of the playlist, for any number of entries and whatever the *)
(* user does, insertions behind the last entry, a failing getcwd and removals   *)
(* of what is in use included: pl->length in particular, which deletion counts  *)
(* down also where entries are linked and not counted, never goes below zero.   *)
THEOREM TypeCorrect == Spec => []TypeOK
<1>1. Init => TypeOK
    BY InitList DEF Init, TypeOK, ListInv
<1>2. TypeOK /\ [Next]_vars => TypeOK'
    BY StepTypes
<1> QED BY <1>1, <1>2, PTL DEF Spec

-----------------------------------------------------------------------------
(* Nothing dangles, even where entries are lost *)

(* The links of neighbouring entries agree, in the list and in the chains of    *)
(* entries that have been lost from it alike; an end of the list has no         *)
(* neighbour outside.  Nothing is said of what a walk from first meets, nor of  *)
(* pl->length.                                                                  *)
TwoWay(first, last, live, next, prev) ==
    /\ first \in live \cup {NULL} /\ last \in live \cup {NULL}
    /\ first = NULL => last = NULL
    /\ first # NULL => prev[first] = NULL
    /\ last # NULL => next[last] = NULL
    /\ \A e \in live :
        /\ next[e] # NULL => next[e] \in live /\ prev[next[e]] = e
        /\ prev[e] # NULL => prev[e] \in live /\ next[prev[e]] = e

(* Whatever the playlist leads to is allocated. *)
Owned(p) ==
    /\ p \in PlaylistType
    /\ TwoWay(p.first, p.last, p.live, p.next, p.prev)
    /\ Queued(p) \subseteq p.live
    /\ p.current \in p.live \cup {NULL}

\* A walk of the list stays among the allocated entries.
LEMMA LinkedOwned ==
    ASSUME NEW p, Owned(p)
    PROVE  Linked(p) \subseteq p.live /\ Selectable(p) \subseteq p.live
<1>1. p.live \in SUBSET Entry
    BY FieldTypes DEF Owned
<1>2. p.first \in p.live \cup {NULL} /\ \A x \in p.live : p.next[x] \in p.live \cup {NULL}
    BY DEF Owned, TwoWay
<1>3. Reach(p.first, p.next) \subseteq p.live
    BY <1>1, <1>2, ReachLeast
<1> QED BY <1>3 DEF Linked, Selectable

\* An entry appended, counted or not.
LEMMA AddOwned ==
    ASSUME NEW p, Owned(p), NEW e \in Entry \ p.live, NEW g \in BOOLEAN, NEW q \in AddItem(p, e, g)
    PROVE  Owned(q)
<1>0. /\ p \in PlaylistType /\ p.live \in SUBSET Entry /\ e \in Entry /\ e # NULL
      /\ TwoWay(p.first, p.last, p.live, p.next, p.prev)
      /\ p.next \in [Entry -> Pointer] /\ p.prev \in [Entry -> Pointer]
      /\ p.next_in_queue \in [Entry -> Pointer] /\ NULL \notin p.live
    BY EntryAssumption, FieldTypes DEF Owned
<1>1. /\ q \in PlaylistType
      /\ q.first = (IF p.first = NULL THEN e ELSE p.first) /\ q.last = e
      /\ q.live = p.live \cup {e}
      /\ q.next = Set(Set(p.next, p.last, e), e, NULL) /\ q.prev = Set(p.prev, e, p.last)
      /\ q.current = p.current /\ q.queue_start = p.queue_start
      /\ q.next_in_queue \in {p.next_in_queue, Set(p.next_in_queue, e, NULL)}
    BY <1>0, AddTypes
<1>2. \A x \in Entry : /\ q.next[x] = IF x = e THEN NULL ELSE IF x = p.last THEN e ELSE p.next[x]
                       /\ q.prev[x] = IF x = e THEN p.last ELSE p.prev[x]
                       /\ x # e => q.next_in_queue[x] = p.next_in_queue[x]
    BY <1>1, <1>0 DEF Set
<1>3. /\ q.first # NULL => q.prev[q.first] = NULL
      /\ q.next[q.last] = NULL
    BY <1>0, <1>1, <1>2 DEF TwoWay
<1>4. ASSUME NEW x \in q.live
      PROVE  /\ q.next[x] # NULL => q.next[x] \in q.live /\ q.prev[q.next[x]] = x
             /\ q.prev[x] # NULL => q.prev[x] \in q.live /\ q.next[q.prev[x]] = x
    <2>1. CASE x = e
        BY <2>1, <1>0, <1>1, <1>2 DEF TwoWay
    <2>2. CASE x # e
        <3>1. x \in p.live /\ x \in Entry
            BY <2>2, <1>0, <1>1
        <3>2. q.next[x] # NULL => q.next[x] \in q.live /\ q.prev[q.next[x]] = x
            BY <2>2, <3>1, <1>0, <1>1, <1>2 DEF TwoWay
        <3>3. q.prev[x] # NULL => q.prev[x] \in q.live /\ q.next[q.prev[x]] = x
            BY <2>2, <3>1, <1>0, <1>1, <1>2 DEF TwoWay
        <3> QED BY <3>2, <3>3
    <2> QED BY <2>1, <2>2
<1>5. TwoWay(q.first, q.last, q.live, q.next, q.prev)
    BY <1>0, <1>1, <1>3, <1>4 DEF TwoWay
<1>6. Queued(q) \subseteq Queued(p)
    <2>1. /\ Queued(p) \in SUBSET Entry
          /\ p.queue_start \in Queued(p) \cup {NULL}
          /\ \A x \in Queued(p) : p.next_in_queue[x] \in Queued(p) \cup {NULL}
          /\ e \notin Queued(p)
        BY <1>0, QueueClosed DEF Owned
    <2>2. \A x \in Queued(p) : q.next_in_queue[x] \in Queued(p) \cup {NULL}
        BY <2>1, <1>2
    <2> QED BY <2>1, <2>2, <1>1, QueueLeast
<1> QED BY <1>1, <1>5, <1>6 DEF Owned

\* An entry inserted before one that is there.
LEMMA InsertOwned ==
    ASSUME NEW p, Owned(p), NEW s \in p.live, p.next[s] # NULL,
           NEW e \in Entry \ p.live, NEW q \in InsertItemAfter(p, s, e)
    PROVE  Owned(q)
<1>0. /\ p \in PlaylistType /\ p.live \in SUBSET Entry /\ e \in Entry /\ e # NULL /\ s \in Entry
      /\ TwoWay(p.first, p.last, p.live, p.next, p.prev)
      /\ p.next \in [Entry -> Pointer] /\ p.prev \in [Entry -> Pointer]
      /\ p.next_in_queue \in [Entry -> Pointer] /\ NULL \notin p.live /\ s # e /\ s # NULL
    BY EntryAssumption, FieldTypes DEF Owned
<1>1. /\ q \in PlaylistType
      /\ q.first = p.first /\ q.last = p.last /\ q.live = p.live \cup {e}
      /\ q.next = Set(Set(p.next, e, p.next[s]), s, e)
      /\ q.prev = Set(Set(p.prev, p.next[s], e), e, s)
      /\ q.current = p.current /\ q.queue_start = p.queue_start
      /\ q.next_in_queue = Set(p.next_in_queue, e, NULL)
    BY <1>0, InsertTypes
<1>2. \A x \in Entry : /\ q.next[x] = IF x = s THEN e ELSE IF x = e THEN p.next[s] ELSE p.next[x]
                       /\ q.prev[x] = IF x = e THEN s ELSE IF x = p.next[s] THEN e ELSE p.prev[x]
                       /\ x # e => q.next_in_queue[x] = p.next_in_queue[x]
    BY <1>1, <1>0 DEF Set
<1>n. p.next[s] \in p.live /\ p.prev[p.next[s]] = s /\ p.next[s] \in Entry /\ p.next[s] # e
    BY <1>0 DEF TwoWay
<1>3. /\ q.first # NULL => q.prev[q.first] = NULL
      /\ q.last # NULL => q.next[q.last] = NULL
    BY <1>0, <1>1, <1>2, <1>n DEF TwoWay
<1>4. ASSUME NEW x \in q.live
      PROVE  /\ q.next[x] # NULL => q.next[x] \in q.live /\ q.prev[q.next[x]] = x
             /\ q.prev[x] # NULL => q.prev[x] \in q.live /\ q.next[q.prev[x]] = x
    <2>1. CASE x = e
        BY <2>1, <1>0, <1>1, <1>2, <1>n
    <2>2. CASE x # e
        <3>1. x \in p.live /\ x \in Entry
            BY <2>2, <1>0, <1>1
        <3>2. q.next[x] # NULL => q.next[x] \in q.live /\ q.prev[q.next[x]] = x
            <4>1. CASE x = s
                BY <4>1, <1>0, <1>1, <1>2
            <4>2. CASE x # s
                <5>1. q.next[x] = p.next[x]
                    BY <2>2, <3>1, <4>2, <1>2
                <5>2. ASSUME p.next[x] # NULL
                      PROVE  p.next[x] \in p.live /\ p.prev[p.next[x]] = x /\ p.next[x] # e
                    BY <3>1, <5>2, <1>0 DEF TwoWay
                <5>3. p.next[x] # NULL => p.next[x] # p.next[s]
                    BY <5>2, <4>2, <1>n
                <5> QED BY <5>1, <5>2, <5>3, <1>0, <1>1, <1>2
            <4> QED BY <4>1, <4>2
        <3>3. q.prev[x] # NULL => q.prev[x] \in q.live /\ q.next[q.prev[x]] = x
            <4>1. CASE x = p.next[s]
                BY <2>2, <3>1, <4>1, <1>0, <1>1, <1>2
            <4>2. CASE x # p.next[s]
                <5>1. q.prev[x] = p.prev[x]
                    BY <2>2, <3>1, <4>2, <1>2
                <5>2. ASSUME p.prev[x] # NULL
                      PROVE  p.prev[x] \in p.live /\ p.next[p.prev[x]] = x /\ p.prev[x] # e
                    BY <3>1, <5>2, <1>0 DEF TwoWay
                <5>3. p.prev[x] # NULL => p.prev[x] # s
                    BY <5>2, <4>2
                <5> QED BY <5>1, <5>2, <5>3, <1>0, <1>1, <1>2
            <4> QED BY <4>1, <4>2
        <3> QED BY <3>2, <3>3
    <2> QED BY <2>1, <2>2
<1>5. TwoWay(q.first, q.last, q.live, q.next, q.prev)
    BY <1>0, <1>1, <1>3, <1>4 DEF TwoWay
<1>6. Queued(q) \subseteq Queued(p)
    <2>1. /\ Queued(p) \in SUBSET Entry
          /\ p.queue_start \in Queued(p) \cup {NULL}
          /\ \A x \in Queued(p) : p.next_in_queue[x] \in Queued(p) \cup {NULL}
          /\ e \notin Queued(p)
        BY <1>0, QueueClosed DEF Owned
    <2>2. \A x \in Queued(p) : q.next_in_queue[x] \in Queued(p) \cup {NULL}
        BY <2>1, <1>2
    <2> QED BY <2>1, <2>2, <1>1, QueueLeast
<1> QED BY <1>1, <1>5, <1>6 DEF Owned

\* An entry of the list deleted that nothing else points to.
LEMMA DeleteOwned ==
    ASSUME NEW p, Owned(p), p.length # 0, NEW e \in p.live, p.first # NULL, ~InUse(p, e),
           NEW q, q = Deleted(p, e)
    PROVE  Owned(q)
<1>0. /\ p \in PlaylistType /\ p.live \in SUBSET Entry /\ e \in Entry /\ NULL \notin p.live
      /\ TwoWay(p.first, p.last, p.live, p.next, p.prev)
    BY EntryAssumption, FieldTypes DEF Owned
<1>1. /\ q \in PlaylistType
      /\ q.live = p.live \ {e}
      /\ q.first = (IF p.length = 1 THEN NULL ELSE IF p.prev[e] = NULL THEN p.next[e] ELSE p.first)
      /\ q.last = (IF p.length = 1 THEN NULL ELSE IF p.next[e] = NULL THEN p.prev[e] ELSE p.last)
      /\ Bridged(e, p.live, p.next, p.prev, q.next, q.prev)
      /\ q.current = p.current /\ q.queue_start = p.queue_start
      /\ \A x \in Entry \ {e} : q.next_in_queue[x] = p.next_in_queue[x]
    BY <1>0, DeleteTypes
<1>2. \A x \in p.live \ {e} :
        /\ q.next[x] = IF x = p.prev[e] THEN p.next[e] ELSE p.next[x]
        /\ q.prev[x] = IF x = p.next[e] THEN p.prev[e] ELSE p.prev[x]
    BY <1>1 DEF Bridged
<1>n. /\ p.next[e] # NULL => p.next[e] \in p.live /\ p.prev[p.next[e]] = e
      /\ p.prev[e] # NULL => p.prev[e] \in p.live /\ p.next[p.prev[e]] = e
      /\ p.next[e] = e <=> p.prev[e] = e
    BY <1>0 DEF TwoWay
<1>f. /\ q.first \in q.live \cup {NULL}
      /\ q.first # NULL => q.prev[q.first] = NULL
    BY <1>0, <1>1, <1>2, <1>n DEF TwoWay
<1>l. /\ q.last \in q.live \cup {NULL}
      /\ q.last # NULL => q.next[q.last] = NULL
    BY <1>0, <1>1, <1>2, <1>n DEF TwoWay
<1>3. q.first = NULL => q.last = NULL
    BY <1>0, <1>1, <1>n
<1>4. ASSUME NEW x \in q.live
      PROVE  /\ q.next[x] # NULL => q.next[x] \in q.live /\ q.prev[q.next[x]] = x
             /\ q.prev[x] # NULL => q.prev[x] \in q.live /\ q.next[q.prev[x]] = x
    <2>0. /\ x \in p.live /\ x # e /\ x # NULL
          /\ p.next[x] # NULL => p.next[x] \in p.live /\ p.prev[p.next[x]] = x
          /\ p.prev[x] # NULL => p.prev[x] \in p.live /\ p.next[p.prev[x]] = x
          /\ p.next[x] = e => x = p.prev[e]
          /\ p.prev[x] = e => x = p.next[e]
        BY <1>0, <1>1 DEF TwoWay
    <2>1. q.next[x] # NULL => q.next[x] \in q.live /\ q.prev[q.next[x]] = x
        <3>1. CASE x = p.prev[e]
            <4>1. q.next[x] = p.next[e]
                BY <2>0, <3>1, <1>2
            <4>2. p.next[e] # e
                BY <2>0, <3>1, <1>n
            <4> QED BY <3>1, <4>1, <4>2, <1>n, <1>1, <1>2
        <3>2. CASE x # p.prev[e]
            <4>1. q.next[x] = p.next[x] /\ p.next[x] # e
                BY <2>0, <3>2, <1>2
            <4>2. p.next[x] # NULL => p.next[x] # p.next[e]
                BY <2>0, <1>n
            <4> QED BY <4>1, <4>2, <2>0, <1>1, <1>2
        <3> QED BY <3>1, <3>2
    <2>2. q.prev[x] # NULL => q.prev[x] \in q.live /\ q.next[q.prev[x]] = x
        <3>1. CASE x = p.next[e]
            <4>1. q.prev[x] = p.prev[e]
                BY <2>0, <3>1, <1>2
            <4>2. p.prev[e] # e
                BY <2>0, <3>1, <1>n
            <4> QED BY <3>1, <4>1, <4>2, <1>n, <1>1, <1>2
        <3>2. CASE x # p.next[e]
            <4>1. q.prev[x] = p.prev[x] /\ p.prev[x] # e
                BY <2>0, <3>2, <1>2
            <4>2. p.prev[x] # NULL => p.prev[x] # p.prev[e]
                BY <2>0, <1>n
            <4> QED BY <4>1, <4>2, <2>0, <1>1, <1>2
        <3> QED BY <3>1, <3>2
    <2> QED BY <2>1, <2>2
<1>5. TwoWay(q.first, q.last, q.live, q.next, q.prev)
    BY <1>f, <1>l, <1>3, <1>4 DEF TwoWay
<1>6. Queued(q) \subseteq Queued(p)
    <2>1. /\ Queued(p) \in SUBSET Entry
          /\ p.queue_start \in Queued(p) \cup {NULL}
          /\ \A x \in Queued(p) : p.next_in_queue[x] \in Queued(p) \cup {NULL}
          /\ e \notin Queued(p)
        BY <1>0, QueueClosed DEF InUse
    <2>2. \A x \in Queued(p) : q.next_in_queue[x] \in Queued(p) \cup {NULL}
        BY <2>1, <1>1
    <2> QED BY <2>1, <2>2, <1>1, QueueLeast
<1> QED BY <1>1, <1>5, <1>6 DEF Owned, InUse

\* The walk that clears the list frees none of the chains that have been lost.
LEMMA ClearOwned ==
    ASSUME NEW p, Owned(p), NEW q, q = Cleared(p)
    PROVE  Owned(q)
<1>0. /\ p \in PlaylistType /\ p.live \in SUBSET Entry /\ NULL \notin p.live
      /\ p.first \in Pointer /\ p.next \in [Entry -> Pointer]
      /\ TwoWay(p.first, p.last, p.live, p.next, p.prev)
    BY EntryAssumption, FieldTypes DEF Owned
<1>1. /\ q \in PlaylistType
      /\ q.live = p.live \ Linked(p)
      /\ q.first = NULL /\ q.last = NULL /\ q.current = NULL /\ q.queue_start = NULL
      /\ \A x \in Entry \ Linked(p) : q.next[x] = p.next[x] /\ q.prev[x] = p.prev[x]
    BY <1>0, ClearTypes
<1>2. /\ Linked(p) \subseteq p.live
      /\ p.first \in Linked(p) \cup {NULL}
      /\ \A x \in Linked(p) : p.next[x] \in Linked(p) \cup {NULL}
    BY <1>0, LinkedOwned, ReachClosed DEF Linked
\* What a walk meets, it meets first or coming from its neighbour.
<1>3. \A x \in Linked(p) : x = p.first \/ p.prev[x] \in Linked(p)
    <2> DEFINE S == {x \in Linked(p) : x = p.first \/ p.prev[x] \in Linked(p)}
    <2>1. S \in SUBSET Entry /\ p.first \in S \cup {NULL}
        BY <1>0, <1>2
    <2>2. ASSUME NEW x \in S PROVE p.next[x] \in S \cup {NULL}
        <3>1. x \in p.live /\ x \in Linked(p) /\ p.next[x] \in Linked(p) \cup {NULL}
            BY <1>2
        <3>2. p.next[x] # NULL => p.prev[p.next[x]] = x
            BY <3>1, <1>0 DEF TwoWay
        <3> QED BY <3>1, <3>2
    <2> HIDE DEF S
    <2>3. Linked(p) \subseteq S
        BY <2>1, <2>2, ReachLeast DEF Linked
    <2> QED BY <2>3 DEF S
<1>4. ASSUME NEW x \in q.live
      PROVE  /\ q.next[x] # NULL => q.next[x] \in q.live /\ q.prev[q.next[x]] = x
             /\ q.prev[x] # NULL => q.prev[x] \in q.live /\ q.next[q.prev[x]] = x
    <2>1. /\ x \in p.live /\ x \notin Linked(p) /\ x \in Entry
          /\ q.next[x] = p.next[x] /\ q.prev[x] = p.prev[x]
          /\ p.next[x] # NULL => p.next[x] \in p.live /\ p.prev[p.next[x]] = x
          /\ p.prev[x] # NULL => p.prev[x] \in p.live /\ p.next[p.prev[x]] = x
        BY <1>0, <1>1 DEF TwoWay
    <2>2. p.next[x] # NULL => p.next[x] \notin Linked(p)
        <3> SUFFICES ASSUME p.next[x] # NULL, p.next[x] \in Linked(p) PROVE FALSE
            OBVIOUS
        <3>1. p.next[x] = p.first => x = NULL
            BY <2>1, <1>0 DEF TwoWay
        <3> QED BY <2>1, <3>1, <1>0, <1>3
    <2>3. p.prev[x] # NULL => p.prev[x] \notin Linked(p)
        BY <2>1, <1>2, <1>0
    <2> QED BY <2>1, <2>2, <2>3, <1>0, <1>1
<1>5. TwoWay(q.first, q.last, q.live, q.next, q.prev)
    BY <1>1, <1>4 DEF TwoWay
<1>6. Queued(q) = {}
    BY <1>1, ReachNothing DEF Queued
<1> QED BY <1>1, <1>5, <1>6 DEF Owned

\* The player goes to allocated entries only.
LEMMA MovedOwned ==
    ASSUME NEW p, Owned(p), NEW q, Moved(q, p)
    PROVE  Owned(q)
<1>0. /\ p \in PlaylistType /\ q \in PlaylistType /\ NULL \notin Entry
      /\ TwoWay(p.first, p.last, p.live, p.next, p.prev)
    BY EntryAssumption DEF Owned, Moved
<1>1. TwoWay(q.first, q.last, q.live, q.next, q.prev)
    BY <1>0 DEF Moved
<1>2. /\ Queued(p) \in SUBSET Entry /\ Queued(p) \subseteq p.live
      /\ p.queue_start \in Queued(p) \cup {NULL}
      /\ \A x \in Queued(p) : p.next_in_queue[x] \in Queued(p) \cup {NULL}
    BY <1>0, QueueClosed DEF Owned
<1>3. Queued(q) \subseteq Queued(p)
    <2>1. q.queue_start \in Queued(p) \cup {NULL}
        BY <1>2 DEF Moved
    <2>2. \A x \in Queued(p) : q.next_in_queue[x] \in Queued(p) \cup {NULL}
        BY <1>2 DEF Moved
    <2> QED BY <2>1, <2>2, <1>2, QueueLeast
<1>4. q.current \in q.live \cup {NULL}
    <2>1. Linked(p) \subseteq p.live
        BY LinkedOwned
    <2>2. /\ p.first \in p.live \cup {NULL} /\ p.last \in p.live \cup {NULL}
          /\ p.current \in p.live \cup {NULL}
          /\ p.current # NULL => /\ p.next[p.current] \in p.live \cup {NULL}
                                 /\ p.prev[p.current] \in p.live \cup {NULL}
        BY <1>0 DEF Owned, TwoWay
    <2>3. p.queue_start \in p.live \cup {NULL}
        BY <1>2
    <2> QED BY <2>1, <2>2, <2>3 DEF Moved, Targets
<1>5. q.live = p.live
    BY DEF Moved
<1> QED BY <1>0, <1>1, <1>2, <1>3, <1>4, <1>5 DEF Owned

(* What the user does not do: insert behind the last entry, or remove an entry *)
(* that is still queued or current.  getcwd may fail.                          *)
Prudent == "insert_last" \notin Scenario /\ "remove_in_use" \notin Scenario

\* Every operation leaves the playlist to allocated entries.
LEMMA StepOwned ==
    ASSUME Prudent, Owned(pl), playing \in BOOLEAN, [Next]_vars
    PROVE  Owned(pl')
<1>0. pl \in PlaylistType
    BY DEF Owned
<1>s. Selectable(pl) \subseteq pl.live
    BY LinkedOwned
<1>1. CASE Add
    <2>1. PICK e \in New, g \in BOOLEAN : pl' \in AddItem(pl, e, g)
        BY <1>1 DEF Add
    <2> QED BY <2>1, AddOwned DEF New
<1>2. CASE Insert
    <2>1. PICK s \in pl.live, e \in New : pl.next[s] # NULL /\ pl' \in InsertItemAfter(pl, s, e)
        BY <1>2, <1>s DEF Insert, Prudent
    <2> QED BY <2>1, InsertOwned DEF New
<1>3. CASE Remove
    <2>1. PICK e \in Selectable(pl) :
            \E r \in IF e = pl.current THEN NextOrStop(pl) ELSE {[pl |-> pl, playing |-> playing]} :
                ~InUse(r.pl, e) /\ pl' = Deleted(r.pl, e)
        BY <1>3 DEF Remove, Prudent
    <2>2. PICK r \in IF e = pl.current THEN NextOrStop(pl) ELSE {[pl |-> pl, playing |-> playing]} :
                ~InUse(r.pl, e) /\ pl' = Deleted(r.pl, e)
        BY <2>1
    <2>3. Moved(r.pl, pl)
        BY <1>0, MovedNot, NextOrStopMoves
    <2>4. Owned(r.pl) /\ e \in r.pl.live
        BY <1>s, <2>3, MovedOwned DEF Moved
    <2>5. r.pl.first # NULL
        <3>1. pl.first # NULL
            BY ReachNothing DEF Selectable, Linked
        <3> QED BY <2>3, <3>1 DEF Moved
    <2>6. CASE r.pl.length = 0
        BY <2>2, <2>4, <2>6 DEF Deleted
    <2>7. CASE r.pl.length # 0
        BY <2>2, <2>4, <2>5, <2>7, DeleteOwned
    <2> QED BY <2>6, <2>7
<1>4. CASE Clear
    BY <1>4, ClearOwned DEF Clear
<1>5. CASE Enqueue
    <2>1. PICK e \in Selectable(pl) : pl' = EntryEnqueue(pl, e)
        BY <1>5 DEF Enqueue
    <2>2. e \in pl.live /\ e \in Entry
        BY <1>s, <1>0, TargetTypes
    <2>3. /\ pl' \in PlaylistType
          /\ pl'.live = pl.live /\ pl'.first = pl.first /\ pl'.last = pl.last
          /\ pl'.next = pl.next /\ pl'.prev = pl.prev /\ pl'.current = pl.current
          /\ Queued(pl') \subseteq Queued(pl) \cup {e}
        BY <1>0, <2>1, <2>2, EnqueueTypes
    <2> QED BY <2>2, <2>3 DEF Owned
<1>6. CASE Playing
    BY <1>0, <1>6, PlayingMoves, MovedOwned
<1>7. CASE UNCHANGED vars
    BY <1>7 DEF vars
<1> QED BY <1>1, <1>2, <1>3, <1>4, <1>5, <1>6, <1>7 DEF Next, Playing

(* As long as the user removes no entry that is queued or current, no      *)
(* pointer of the playlist leads to freed memory: the list, the queue and  *)
(* the current entry are made of allocated entries, though entries that    *)
(* have left the queue keep their link (playlist.c, 433-456, 341-371), and *)
(* though a failing getcwd leaves entries linked and not counted, which    *)
(* deletion then loses (playlist.c, 94-112).                               *)
THEOREM NothingEverDangles == Prudent => (Spec => []NothingDangling)
<1> SUFFICES ASSUME Prudent PROVE Spec => []NothingDangling
    OBVIOUS
<1>1. Init => TypeOK /\ Owned(pl)
    <2> SUFFICES ASSUME Init PROVE TypeOK /\ Owned(pl)
        OBVIOUS
    <2>1. TypeOK
        BY InitList DEF Init, TypeOK, ListInv
    <2>2. /\ pl.queue_start = NULL /\ pl.current = NULL /\ pl.live = {}
          /\ pl.first = NULL /\ pl.last = NULL
        BY DEF Init
    <2>3. Queued(pl) = {}
        BY <2>2, ReachNothing DEF Queued
    <2> QED BY <2>1, <2>2, <2>3 DEF Owned, TwoWay, TypeOK
<1>2. TypeOK /\ Owned(pl) /\ [Next]_vars => TypeOK' /\ Owned(pl)'
    <2> SUFFICES ASSUME TypeOK, Owned(pl), [Next]_vars PROVE TypeOK' /\ Owned(pl')
        OBVIOUS
    <2>1. playing \in BOOLEAN
        BY DEF TypeOK
    <2> QED BY <2>1, StepTypes, StepOwned
<1>3. Owned(pl) => NothingDangling
    BY LinkedOwned DEF Owned, NothingDangling
<1> QED BY <1>1, <1>2, <1>3, PTL DEF Spec

-----------------------------------------------------------------------------
(* Linked lists as sequences *)

\* A set of positions that has one and, with every position but the last, the next one,
\* has all that follow: otherwise those before the first gap would be as many as their
\* successors, which are fewer.
LEMMA UpFrom ==
    ASSUME NEW n \in Nat, NEW M \in SUBSET (1 .. n), NEW i \in M,
           \A k \in M : k < n => k + 1 \in M
    PROVE  i .. n \subseteq M
<1> SUFFICES ASSUME NEW j \in i .. n, j \notin M PROVE FALSE
    OBVIOUS
<1> DEFINE K == {k \in M : i <= k /\ k < j}
           f == [k \in K |-> k + 1]
<1>1. i \in Nat /\ j \in Nat /\ i < j /\ j <= n
    <2>1. i \in 1 .. n /\ i # j /\ j \in i .. n
        OBVIOUS
    <2> QED BY <2>1
<1>2. i \in K /\ K \in SUBSET (1 .. n)
    <2>1. i \in K
        BY <1>1
    <2>2. K \in SUBSET (1 .. n)
        OBVIOUS
    <2> QED BY <2>1, <2>2
<1>3. ASSUME NEW k \in K PROVE k \in Nat /\ i <= k /\ k + 1 \in K
    <2>1. k \in M /\ k \in 1 .. n /\ i <= k /\ k < j
        OBVIOUS
    <2>2. k + 1 \in M
        BY <2>1, <1>1
    <2>3. k + 1 # j
        BY <2>2
    <2> QED BY <2>1, <2>2, <2>3, <1>1
<1>4. IsFiniteSet(K)
    <2>1. IsFiniteSet(1 .. n)
        BY FS_Interval
    <2> HIDE DEF K
    <2> QED BY <1>2, <2>1, FS_Subset
<1>5. f \in [K -> K] /\ \A k \in K : f[k] = k + 1
    BY <1>3
<1> HIDE DEF K, f
<1>6. f \in Injection(K, K)
    <2>1. \A a, b \in K : f[a] = f[b] => a = b
        BY <1>3, <1>5
    <2> QED BY <2>1, <1>5 DEF Injection, IsInjective
<1>7. f \in Surjection(K, K)
    BY <1>4, <1>6, FS_Injection
<1>8. PICK k \in K : f[k] = i
    BY <1>2, <1>7 DEF Surjection
<1> QED BY <1>1, <1>3, <1>5, <1>8

(* s is a sequence of entries, and the walk from start goes along it. *)
Walk(s, start, link) ==
    /\ s \in Seq(Entry)
    /\ link \in [Entry -> Pointer]
    /\ InOrder(s, start, link)

\* What the sequence of a walk says of the links.
LEMMA WalkSteps ==
    ASSUME NEW s, NEW start, NEW link, Walk(s, start, link)
    PROVE  /\ Len(s) \in Nat /\ DOMAIN s = 1 .. Len(s)
           /\ \A i \in 1 .. Len(s) : s[i] \in Entry /\ s[i] # NULL
           /\ \A i, j \in 1 .. Len(s) : s[i] = s[j] => i = j
           /\ Len(s) = 0 <=> start = NULL
           /\ Len(s) = 0 <=> s = <<>>
           /\ Len(s) > 0 => start = s[1]
           /\ \A i \in 1 .. Len(s) : i < Len(s) => link[s[i]] = s[i + 1]
           /\ \A i \in 1 .. Len(s) : i = Len(s) => link[s[i]] = NULL
           /\ start \in Pointer
<1>1. s \in Seq(Entry) /\ InOrder(s, start, link)
    BY DEF Walk
<1>2. Len(s) \in Nat /\ DOMAIN s = 1 .. Len(s) /\ \A i \in 1 .. Len(s) : s[i] \in Entry
    BY <1>1, LenProperties, ElementOfSeq
<1>3. Len(s) = 0 <=> s = <<>>
    BY <1>1, EmptySeq
<1>4. \A i \in 1 .. Len(s) : s[i] # NULL
    BY <1>2, EntryAssumption
<1>5. Len(s) > 0 => 1 \in 1 .. Len(s)
    BY <1>2
<1>6. start \in Pointer /\ (Len(s) = 0 <=> start = NULL) /\ (Len(s) > 0 => start = s[1])
    BY <1>1, <1>2, <1>3, <1>4, <1>5 DEF InOrder, Pointer
<1>7. /\ \A i, j \in 1 .. Len(s) : s[i] = s[j] => i = j
      /\ \A i \in 1 .. Len(s) : link[s[i]] = IF i = Len(s) THEN NULL ELSE s[i + 1]
    BY <1>1, <1>2 DEF InOrder
<1>8. ASSUME NEW i \in 1 .. Len(s), i < Len(s) PROVE link[s[i]] = s[i + 1]
    <2>1. \A m, k \in Int : m < k => m # k
        OBVIOUS
    <2>2. i \in Int /\ Len(s) \in Int
        BY <1>2
    <2>3. i # Len(s)
        BY ONLY <2>1, <2>2, <1>8
    <2> QED BY <2>3, <1>7
<1>9. \A i \in 1 .. Len(s) : i = Len(s) => link[s[i]] = NULL
    BY <1>7
<1>10. \A i \in 1 .. Len(s) : i < Len(s) => link[s[i]] = s[i + 1]
    BY <1>8
<1>11. \A i \in 1 .. Len(s) : s[i] \in Entry /\ s[i] # NULL
    BY <1>2, <1>4
<1> QED BY ONLY <1>2, <1>3, <1>6, <1>7, <1>9, <1>10, <1>11, Zenon

\* The walk from any entry of the sequence meets that one and those behind it.
LEMMA WalkReach ==
    ASSUME NEW s, NEW start, NEW link, Walk(s, start, link), NEW i \in 1 .. Len(s)
    PROVE  Reach(s[i], link) = {s[j] : j \in i .. Len(s)}
<1> DEFINE n == Len(s)
           T == {s[j] : j \in i .. n}
           R == Reach(s[i], link)
           M == {j \in 1 .. n : s[j] \in R}
<1>1. /\ n \in Nat /\ \A j \in 1 .. n : s[j] \in Entry
      /\ \A j \in 1 .. n : j < n => link[s[j]] = s[j + 1]
      /\ \A j \in 1 .. n : j = n => link[s[j]] = NULL
      /\ link \in [Entry -> Pointer] /\ i \in Nat /\ i >= 1 /\ i <= n
    BY WalkSteps DEF Walk
<1>2. R \subseteq T
    <2>1. T \in SUBSET Entry /\ s[i] \in T \cup {NULL}
        BY <1>1
    <2>2. ASSUME NEW x \in T PROVE link[x] \in T \cup {NULL}
        <3>1. PICK j \in i .. n : x = s[j]
            OBVIOUS
        <3>2. j \in 1 .. n /\ (j < n => j + 1 \in i .. n)
            BY <1>1
        <3> QED BY <1>1, <3>1, <3>2
    <2> HIDE DEF T
    <2> QED BY <2>1, <2>2, ReachLeast
<1>3. /\ s[i] \in R \cup {NULL} /\ s[i] # NULL
      /\ \A x \in R : link[x] \in R \cup {NULL}
    BY <1>1, ReachClosed, EntryAssumption DEF Pointer
<1>4. i .. n \subseteq M
    <2>1. M \in SUBSET (1 .. n) /\ i \in M
        BY <1>3
    <2>2. ASSUME NEW k \in M, k < n PROVE k + 1 \in M
        <3>1. k \in 1 .. n /\ s[k] \in R /\ k + 1 \in 1 .. n
            BY <2>2, <1>1
        <3>2. link[s[k]] = s[k + 1] /\ s[k + 1] # NULL
            BY <2>2, <3>1, <1>1, EntryAssumption
        <3> QED BY <3>1, <3>2, <1>3
    <2> HIDE DEF M, n
    <2> QED BY <1>1, <2>1, <2>2, UpFrom
<1> QED BY <1>2, <1>4

(* The entries of a sequence. *)
Entries(s) == {s[i] : i \in DOMAIN s}

\* A walk meets the entries of its sequence.
LEMMA WalkEntries ==
    ASSUME NEW s, NEW start, NEW link, Walk(s, start, link)
    PROVE  Reach(start, link) = Entries(s)
<1>1. CASE Len(s) = 0
    <2>1. start = NULL /\ Entries(s) = {}
        BY <1>1, WalkSteps DEF Entries
    <2> QED BY <2>1, ReachNothing
<1>2. CASE Len(s) > 0
    <2>1. start = s[1] /\ 1 \in 1 .. Len(s) /\ DOMAIN s = 1 .. Len(s)
        BY <1>2, WalkSteps
    <2> QED BY <2>1, WalkReach DEF Entries
<1> QED BY <1>1, <1>2, WalkSteps

\* The sequence has as many entries as it is long, and no more than there are.
LEMMA WalkSize ==
    ASSUME NEW s, NEW start, NEW link, Walk(s, start, link)
    PROVE  /\ Cardinality(Entries(s)) = Len(s)
           /\ Len(s) <= Cardinality(Entry)
           /\ Entries(s) \in SUBSET Entry
<1>1. /\ Len(s) \in Nat /\ DOMAIN s = 1 .. Len(s)
      /\ \A i \in 1 .. Len(s) : s[i] \in Entry
      /\ \A i, j \in 1 .. Len(s) : s[i] = s[j] => i = j
    BY WalkSteps
<1>2. s \in [1 .. Len(s) -> Entries(s)] /\ Entries(s) \in SUBSET Entry
    <2>1. s \in [1 .. Len(s) -> Entry]
        BY LenProperties DEF Walk
    <2> QED BY <1>1, <2>1 DEF Entries
<1>3. s \in Injection(1 .. Len(s), Entries(s)) /\ s \in Surjection(1 .. Len(s), Entries(s))
    BY <1>1, <1>2 DEF Injection, Surjection, IsInjective, Entries
<1>4. IsFiniteSet(Entries(s)) /\ IsFiniteSet(Entry)
    BY <1>2, LiveFinite
<1>5. Cardinality(1 .. Len(s)) = Len(s)
    BY <1>1, FS_Interval
<1>6. Cardinality(Entries(s)) = Len(s)
    BY <1>3, <1>4, <1>5, FS_Injection
<1>7. Cardinality(Entries(s)) <= Cardinality(Entry)
    BY <1>2, <1>4, FS_Subset
<1> QED BY <1>2, <1>6, <1>7

\* Two sequences of one walk agree as far as the first goes.
LEMMA WalkAgree ==
    ASSUME NEW s, NEW t, NEW start, NEW link, Walk(s, start, link), Walk(t, start, link)
    PROVE  \A i \in 1 .. Len(s) : i <= Len(t) /\ s[i] = t[i]
<1> DEFINE n == Len(s)
           M == {j \in 1 .. n : j <= Len(t) /\ s[j] = t[j]}
<1>s. /\ n \in Nat /\ \A j \in 1 .. n : s[j] # NULL
      /\ \A j \in 1 .. n : j < n => link[s[j]] = s[j + 1]
      /\ n = 0 <=> start = NULL
      /\ n > 0 => start = s[1]
    BY WalkSteps
<1>t. /\ Len(t) \in Nat
      /\ \A j \in 1 .. Len(t) : j < Len(t) => link[t[j]] = t[j + 1]
      /\ \A j \in 1 .. Len(t) : j = Len(t) => link[t[j]] = NULL
      /\ Len(t) = 0 <=> start = NULL
      /\ Len(t) > 0 => start = t[1]
    BY WalkSteps
<1> HIDE DEF n
<1>1. CASE n = 0
    BY <1>1 DEF n
<1>2. CASE n > 0
    <2>1. 1 \in M /\ M \in SUBSET (1 .. n)
        BY <1>2, <1>s, <1>t
    <2>2. ASSUME NEW k \in M, k < n PROVE k + 1 \in M
        <3>1. k \in 1 .. n /\ k + 1 \in 1 .. n /\ k \in 1 .. Len(t) /\ s[k] = t[k]
            BY <2>2, <1>s, <1>t
        <3>2. link[t[k]] = s[k + 1] /\ s[k + 1] # NULL
            BY <2>2, <3>1, <1>s
        <3>3. k < Len(t)
            BY <3>1, <3>2, <1>t
        <3> QED BY <3>1, <3>2, <3>3, <1>t
    <2> HIDE DEF M
    <2>3. 1 .. n \subseteq M
        BY <2>1, <2>2, <1>s, UpFrom
    <2> QED BY <2>3 DEF M, n
<1> QED BY <1>1, <1>2, <1>s

\* The sequence that a walk stands for.
LEMMA SequenceIs ==
    ASSUME NEW s, NEW start, NEW link, Walk(s, start, link)
    PROVE  Sequence(start, link) = s
<1> DEFINE B == UNION {[1 .. n -> Entry] : n \in 0 .. Cardinality(Entry)}
           t == Sequence(start, link)
<1>1. s \in B /\ InOrder(s, start, link)
    <2>1. Len(s) \in 0 .. Cardinality(Entry)
        BY WalkSize, WalkSteps, EntryAssumption, FS_CardinalityType
    <2>2. s \in [1 .. Len(s) -> Entry]
        BY LenProperties DEF Walk
    <2> QED BY <2>1, <2>2 DEF Walk
<1>2. t \in B /\ InOrder(t, start, link)
    BY <1>1 DEF Sequence
<1>3. t \in Seq(Entry)
    <2>1. Cardinality(Entry) \in Nat
        BY EntryAssumption, FS_CardinalityType
    <2>2. PICK n \in 0 .. Cardinality(Entry) : t \in [1 .. n -> Entry]
        BY <1>2
    <2>3. n \in Nat
        BY <2>1
    <2> HIDE DEF t
    <2> QED BY <2>2, <2>3, SeqDef
<1> HIDE DEF t
<1>4. Walk(t, start, link)
    BY <1>2, <1>3 DEF Walk
<1>5. /\ \A i \in 1 .. Len(s) : i <= Len(t) /\ s[i] = t[i]
      /\ \A i \in 1 .. Len(t) : i <= Len(s) /\ t[i] = s[i]
    BY <1>4, WalkAgree
<1>6. Len(s) = Len(t)
    <2>1. Len(s) \in Nat /\ Len(t) \in Nat
        BY <1>4, WalkSteps
    <2> QED BY <2>1, <1>5
<1>7. t = s
    BY <1>3, <1>5, <1>6, SeqEqual DEF Walk
<1> QED BY <1>7 DEF t

\* What is asked of a sequence of entries and of links for a walk along it.
LEMMA WalkAlong ==
    ASSUME NEW s \in Seq(Entry), NEW start, NEW link \in [Entry -> Pointer],
           \A i, j \in 1 .. Len(s) : s[i] = s[j] => i = j,
           Len(s) = 0 => start = NULL,
           Len(s) > 0 => start = s[1],
           \A i \in 1 .. Len(s) : i < Len(s) => link[s[i]] = s[i + 1],
           Len(s) > 0 => link[s[Len(s)]] = NULL
    PROVE  Walk(s, start, link)
<1>1. Len(s) \in Nat /\ DOMAIN s = 1 .. Len(s)
    BY LenProperties
<1>2. Len(s) = 0 <=> s = <<>>
    BY EmptySeq
<1>3. start = IF s = <<>> THEN NULL ELSE s[1]
    BY <1>1, <1>2
<1>4. ASSUME NEW i \in DOMAIN s PROVE link[s[i]] = IF i = Len(s) THEN NULL ELSE s[i + 1]
    <2>1. i \in 1 .. Len(s) /\ i <= Len(s) /\ Len(s) > 0
        BY <1>1
    <2>2. CASE i = Len(s)
        BY <2>1, <2>2
    <2>3. CASE i # Len(s)
        <3>1. i < Len(s)
            BY <1>1, <2>1, <2>3
        <3> QED BY <2>1, <2>3, <3>1
    <2> QED BY <2>2, <2>3
<1> QED BY <1>1, <1>3, <1>4 DEF Walk, InOrder

\* Links that agree on the entries of the sequence lead along it too.
LEMMA WalkSame ==
    ASSUME NEW s, NEW start, NEW link, Walk(s, start, link), NEW n \in [Entry -> Pointer],
           \A x \in Entries(s) : n[x] = link[x]
    PROVE  Walk(s, start, n)
BY DEF Walk, InOrder, Entries

\* An entry is linked behind the last one.
LEMMA WalkAppend ==
    ASSUME NEW s, NEW start, NEW link, Walk(s, start, link), NEW n \in [Entry -> Pointer],
           NEW e \in Entry \ Entries(s), n[e] = NULL,
           NEW f, f = (IF start = NULL THEN e ELSE start),
           \A x \in Entries(s) : n[x] = IF link[x] = NULL THEN e ELSE link[x]
    PROVE  Walk(Append(s, e), f, n)
<1>s. /\ s \in Seq(Entry) /\ e \in Entry /\ DOMAIN s = 1 .. Len(s)
      /\ Len(s) = 0 => start = NULL
      /\ Len(s) > 0 => start = s[1] /\ start # NULL
    BY WalkSteps, EntryAssumption DEF Walk
<1>l. Len(s) \in Nat
    BY WalkSteps
<1>i. \A i, j \in 1 .. Len(s) : s[i] = s[j] => i = j
    BY WalkSteps
<1>e. \A i \in 1 .. Len(s) : i < Len(s) => link[s[i]] = s[i + 1] /\ s[i + 1] # NULL
    <2> SUFFICES ASSUME NEW i \in 1 .. Len(s), i < Len(s)
                 PROVE  link[s[i]] = s[i + 1] /\ s[i + 1] # NULL
        OBVIOUS
    <2>1. i + 1 \in 1 .. Len(s)
        BY <1>l
    <2> QED BY <2>1, WalkSteps
<1>z. \A i \in 1 .. Len(s) : i = Len(s) => link[s[i]] = NULL
    BY WalkSteps
<1> DEFINE t == Append(s, e)
<1>1. t \in Seq(Entry)
    BY <1>s, AppendProperties
<1>n. Len(t) = Len(s) + 1 /\ t[Len(s) + 1] = e
    BY <1>s, AppendProperties
<1>o. \A i \in 1 .. Len(s) : t[i] = s[i]
    BY <1>s, AppendProperties
<1>2. \A i \in 1 .. Len(s) : s[i] # e /\ n[s[i]] = IF link[s[i]] = NULL THEN e ELSE link[s[i]]
    BY <1>s DEF Entries
<1> HIDE DEF t
<1>3. /\ \A i \in 1 .. Len(t) : i \in 1 .. Len(s) \/ i = Len(s) + 1
      /\ \A i \in 1 .. Len(s) : i # Len(s) + 1
    BY ONLY <1>n, <1>l
<1>4. \A i, j \in 1 .. Len(t) : t[i] = t[j] => i = j
    BY ONLY <1>n, <1>o, <1>2, <1>3, <1>i
<1>5. Len(t) > 0 /\ f = t[1]
    <2>1. CASE Len(s) = 0
        BY <2>1, <1>s, <1>n
    <2>2. CASE Len(s) > 0
        <3>1. 1 \in 1 .. Len(s)
            BY <2>2, <1>l
        <3> QED BY <2>2, <3>1, <1>s, <1>n, <1>o, <1>l
    <2> QED BY <2>1, <2>2, <1>l
<1>6. ASSUME NEW i \in 1 .. Len(t), i < Len(t) PROVE n[t[i]] = t[i + 1]
    <2>1. i \in 1 .. Len(s)
        BY <1>6, <1>n, <1>l
    <2>2. CASE i < Len(s)
        <3>1. i + 1 \in 1 .. Len(s)
            BY <2>1, <2>2, <1>l
        <3>2. t[i] = s[i] /\ t[i + 1] = s[i + 1]
            BY <2>1, <3>1, <1>o
        <3>3. link[s[i]] = s[i + 1] /\ s[i + 1] # NULL
            BY <2>1, <2>2, <1>e
        <3> QED BY <2>1, <3>2, <3>3, <1>2
    <2>3. CASE i = Len(s)
        BY <2>1, <2>3, <1>n, <1>o, <1>2, <1>z
    <2> QED BY <2>1, <2>2, <2>3, <1>l
<1>7. n[t[Len(t)]] = NULL
    BY <1>n
<1>8. Walk(t, f, n)
    <2>1. Len(t) # 0
        BY <1>n, <1>l
    <2> QED BY <1>1, <1>4, <1>5, <1>6, <1>7, <2>1, WalkAlong
<1> QED BY <1>8 DEF t

\* The first entry is left behind.
LEMMA WalkTail ==
    ASSUME NEW s, NEW start, NEW link, Walk(s, start, link), start # NULL
    PROVE  /\ s # <<>> /\ start = Head(s) /\ start \in Entry
           /\ Walk(Tail(s), link[start], link)
<1>s. /\ s \in Seq(Entry) /\ Len(s) \in Nat /\ Len(s) > 0 /\ s # <<>> /\ start = s[1]
      /\ link \in [Entry -> Pointer]
      /\ \A i \in 1 .. Len(s) : s[i] \in Entry /\ s[i] # NULL
      /\ \A i, j \in 1 .. Len(s) : s[i] = s[j] => i = j
      /\ \A i \in 1 .. Len(s) : i < Len(s) => link[s[i]] = s[i + 1]
      /\ \A i \in 1 .. Len(s) : i = Len(s) => link[s[i]] = NULL
    BY WalkSteps DEF Walk
<1> DEFINE t == Tail(s)
<1>1. /\ t \in Seq(Entry) /\ Len(t) = Len(s) - 1
      /\ \A i \in 1 .. Len(t) : t[i] = s[i + 1]
      /\ Head(s) = s[1]
    BY <1>s, HeadTailProperties
<1> HIDE DEF t
<1>2. /\ \A i \in 1 .. Len(t) : i + 1 \in 1 .. Len(s)
      /\ 1 \in 1 .. Len(s)
    BY <1>1, <1>s
<1>3. \A i, j \in 1 .. Len(t) : t[i] = t[j] => i = j
    BY <1>1, <1>2, <1>s
<1>4. Len(t) = 0 => link[start] = NULL
    BY <1>1, <1>2, <1>s
<1>5. Len(t) > 0 => link[start] = t[1]
    <2> SUFFICES ASSUME Len(t) > 0 PROVE link[start] = t[1]
        OBVIOUS
    <2>1. 1 \in 1 .. Len(t) /\ 1 < Len(s)
        BY <1>1, <1>s
    <2> QED BY <2>1, <1>1, <1>2, <1>s
<1>6. ASSUME NEW i \in 1 .. Len(t), i < Len(t) PROVE link[t[i]] = t[i + 1]
    <2>1. i + 1 \in 1 .. Len(s) /\ i + 1 < Len(s) /\ i + 1 \in 1 .. Len(t)
        BY <1>6, <1>1, <1>s
    <2>2. t[i] = s[i + 1] /\ t[i + 1] = s[(i + 1) + 1]
        BY <2>1, <1>1
    <2>3. link[s[i + 1]] = s[(i + 1) + 1]
        BY <2>1, <1>s
    <2> QED BY <2>2, <2>3
<1>7. Len(t) > 0 => link[t[Len(t)]] = NULL
    <2> SUFFICES ASSUME Len(t) > 0 PROVE link[t[Len(t)]] = NULL
        OBVIOUS
    <2>1. Len(t) \in 1 .. Len(t) /\ Len(t) + 1 = Len(s) /\ Len(s) \in 1 .. Len(s)
        BY <1>1, <1>s
    <2>2. t[Len(t)] = s[Len(s)]
        BY <2>1, <1>1
    <2> QED BY <2>1, <2>2, <1>s
<1>8. Walk(t, link[start], link)
    BY <1>1, <1>3, <1>4, <1>5, <1>6, <1>7, <1>s, WalkAlong
<1>9. start \in Entry
    BY <1>2, <1>s
<1> QED BY <1>1, <1>8, <1>9, <1>s DEF t

\* A sequence without its element at i.
LEMMA SequenceWithout ==
    ASSUME NEW S, NEW s \in Seq(S), NEW i \in 1 .. Len(s)
    PROVE  LET r == List!RemoveAt(s, i) IN
           /\ r \in Seq(S) /\ Len(r) = Len(s) - 1
           /\ \A j \in 1 .. Len(r) : j < i => r[j] = s[j]
           /\ \A j \in 1 .. Len(r) : j >= i => r[j] = s[j + 1]
<1>0. Len(s) \in Nat /\ i \in Nat /\ i >= 1 /\ i <= Len(s)
    BY LenProperties
<1>e. \A j \in 1 .. Len(s) : s[j] \in S
    BY ElementOfSeq
<1> DEFINE r == List!RemoveAt(s, i)
           a == SubSeq(s, 1, i - 1)
           b == SubSeq(s, i + 1, Len(s))
<1>1. a \in Seq(S) /\ Len(a) = i - 1 /\ \A j \in 1 .. i - 1 : a[j] = s[j]
    <2>1. \A j \in 1 .. i - 1 : s[j] \in S
        BY <1>0, <1>e
    <2>2. 1 \in Int /\ i - 1 \in Int
        BY <1>0
    <2>3. /\ a \in Seq(S) /\ Len(a) = IF 1 <= i - 1 THEN (i - 1) - 1 + 1 ELSE 0
          /\ \A j \in 1 .. (i - 1) - 1 + 1 : a[j] = s[1 + j - 1]
        BY <2>1, <2>2, SubSeqProperties
    <2> QED BY <2>3, <1>0
<1>2. b \in Seq(S) /\ Len(b) = Len(s) - i /\ \A j \in 1 .. Len(s) - i : b[j] = s[i + j]
    <2>1. \A j \in i + 1 .. Len(s) : s[j] \in S
        BY <1>0, <1>e
    <2>2. i + 1 \in Int /\ Len(s) \in Int
        BY <1>0
    <2>3. /\ b \in Seq(S) /\ Len(b) = IF i + 1 <= Len(s) THEN Len(s) - (i + 1) + 1 ELSE 0
          /\ \A j \in 1 .. Len(s) - (i + 1) + 1 : b[j] = s[(i + 1) + j - 1]
        BY <2>1, <2>2, SubSeqProperties
    <2>4. Len(b) = Len(s) - i
        BY <2>3, <1>0
    <2>5. ASSUME NEW j \in 1 .. Len(s) - i PROVE b[j] = s[i + j]
        <3>1. j \in 1 .. Len(s) - (i + 1) + 1 /\ (i + 1) + j - 1 = i + j
            BY <1>0
        <3> QED BY <3>1, <2>3
    <2> QED BY <2>3, <2>4, <2>5
<1>3. /\ a \o b \in Seq(S) /\ Len(a \o b) = Len(a) + Len(b)
      /\ \A j \in 1 .. Len(a) + Len(b) : (a \o b)[j] = IF j <= Len(a) THEN a[j] ELSE b[j - Len(a)]
    BY <1>1, <1>2, ConcatProperties
<1>4. r = a \o b
    BY DEF List!RemoveAt
<1> HIDE DEF a, b, r
<1>l. Len(a) = i - 1 /\ Len(b) = Len(s) - i /\ Len(r) = Len(a) + Len(b)
    BY <1>1, <1>2, <1>3, <1>4
<1>5. Len(r) = Len(s) - 1
    BY <1>0, <1>l
<1>6. ASSUME NEW j \in 1 .. Len(r), j < i PROVE r[j] = s[j]
    <2>1. j \in 1 .. i - 1 /\ j <= Len(a) /\ j \in 1 .. Len(a) + Len(b)
        BY <1>0, <1>l, <1>6
    <2> QED BY <2>1, <1>1, <1>3, <1>4
<1>7. ASSUME NEW j \in 1 .. Len(r), j >= i PROVE r[j] = s[j + 1]
    <2>1. /\ ~(j <= Len(a)) /\ j \in 1 .. Len(a) + Len(b)
          /\ j - Len(a) \in 1 .. Len(s) - i /\ i + (j - Len(a)) = j + 1
        BY <1>0, <1>l, <1>7
    <2>2. r[j] = b[j - Len(a)]
        BY <2>1, <1>3, <1>4
    <2>3. b[j - Len(a)] = s[i + (j - Len(a))]
        BY <2>1, <1>2
    <2> QED BY <2>1, <2>2, <2>3
<1>8. r \in Seq(S)
    BY <1>3, <1>4
<1> QED BY <1>5, <1>6, <1>7, <1>8 DEF r

\* r is the sequence s, of elements of S, with e behind its element i.
LongerBy(r, s, i, e, S) ==
    /\ r \in Seq(S) /\ Len(r) = Len(s) + 1
    /\ \A j \in 1 .. Len(r) : j <= i => r[j] = s[j]
    /\ r[i + 1] = e
    /\ \A j \in 1 .. Len(r) : j > i + 1 => r[j] = s[j - 1]

\* A sequence with e behind its element at i.
LEMMA SequenceWith ==
    ASSUME NEW S, NEW s \in Seq(S), NEW i \in 1 .. Len(s), NEW e \in S
    PROVE  LongerBy(List!InsertAt(s, i + 1, e), s, i, e, S)
<1>0. Len(s) \in Nat /\ i \in Nat /\ i >= 1 /\ i <= Len(s)
    BY LenProperties
<1>e. \A j \in 1 .. Len(s) : s[j] \in S
    BY ElementOfSeq
<1> DEFINE r == List!InsertAt(s, i + 1, e)
           a == SubSeq(s, 1, (i + 1) - 1)
           b == SubSeq(s, i + 1, Len(s))
           c == <<e>>
<1>1. a \in Seq(S) /\ Len(a) = i /\ \A j \in 1 .. i : a[j] = s[j]
    <2>1. \A j \in 1 .. (i + 1) - 1 : s[j] \in S
        BY <1>0, <1>e
    <2>2. 1 \in Int /\ (i + 1) - 1 \in Int
        BY <1>0
    <2>3. /\ a \in Seq(S) /\ Len(a) = IF 1 <= (i + 1) - 1 THEN ((i + 1) - 1) - 1 + 1 ELSE 0
          /\ \A j \in 1 .. ((i + 1) - 1) - 1 + 1 : a[j] = s[1 + j - 1]
        BY <2>1, <2>2, SubSeqProperties
    <2> QED BY <2>3, <1>0
<1>2. b \in Seq(S) /\ Len(b) = Len(s) - i /\ \A j \in 1 .. Len(s) - i : b[j] = s[i + j]
    <2>1. \A j \in i + 1 .. Len(s) : s[j] \in S
        BY <1>0, <1>e
    <2>2. i + 1 \in Int /\ Len(s) \in Int
        BY <1>0
    <2>3. /\ b \in Seq(S) /\ Len(b) = IF i + 1 <= Len(s) THEN Len(s) - (i + 1) + 1 ELSE 0
          /\ \A j \in 1 .. Len(s) - (i + 1) + 1 : b[j] = s[(i + 1) + j - 1]
        BY <2>1, <2>2, SubSeqProperties
    <2>4. Len(b) = Len(s) - i
        BY <2>3, <1>0
    <2>5. ASSUME NEW j \in 1 .. Len(s) - i PROVE b[j] = s[i + j]
        <3>1. j \in 1 .. Len(s) - (i + 1) + 1 /\ (i + 1) + j - 1 = i + j
            BY <1>0
        <3> QED BY <3>1, <2>3
    <2> QED BY <2>3, <2>4, <2>5
<1>c. c \in Seq(S) /\ Len(c) = 1 /\ c[1] = e
    OBVIOUS
<1>3. r = (a \o c) \o b
    BY DEF List!InsertAt
<1> HIDE DEF a, b, c, r
<1> DEFINE d == a \o c
<1>4. /\ d \in Seq(S) /\ Len(d) = i + 1
      /\ \A j \in 1 .. i + 1 : d[j] = IF j <= i THEN a[j] ELSE c[j - i]
    <2>1. /\ d \in Seq(S) /\ Len(d) = Len(a) + Len(c)
          /\ \A j \in 1 .. Len(a) + Len(c) : d[j] = IF j <= Len(a) THEN a[j] ELSE c[j - Len(a)]
        BY <1>1, <1>c, ConcatProperties
    <2>2. Len(a) = i /\ Len(c) = 1
        BY <1>1, <1>c
    <2> HIDE DEF d
    <2> QED BY <2>1, <2>2
<1> HIDE DEF d
<1>5. /\ d \o b \in Seq(S) /\ Len(d \o b) = Len(s) + 1
      /\ \A j \in 1 .. Len(s) + 1 : (d \o b)[j] = IF j <= i + 1 THEN d[j] ELSE b[j - (i + 1)]
    <2>1. /\ d \o b \in Seq(S) /\ Len(d \o b) = Len(d) + Len(b)
          /\ \A j \in 1 .. Len(d) + Len(b) : (d \o b)[j] = IF j <= Len(d) THEN d[j] ELSE b[j - Len(d)]
        BY <1>2, <1>4, ConcatProperties
    <2>2. Len(d) + Len(b) = Len(s) + 1 /\ Len(d) = i + 1
        BY <1>2, <1>4, <1>0
    <2> QED BY <2>1, <2>2
<1>6. r \in Seq(S) /\ Len(r) = Len(s) + 1
    BY <1>3, <1>5 DEF d
<1>l. Len(r) = Len(s) + 1
    BY <1>6
<1>7. ASSUME NEW j \in 1 .. Len(r) PROVE r[j] = IF j <= i + 1 THEN d[j] ELSE b[j - (i + 1)]
    BY <1>3, <1>5, <1>6 DEF d
<1>8. ASSUME NEW j \in 1 .. Len(r), j <= i PROVE r[j] = s[j]
    <2>1. j \in 1 .. i /\ j \in 1 .. i + 1 /\ j <= i + 1
        BY <1>0, <1>l, <1>8
    <2>2. r[j] = d[j]
        BY <2>1, <1>7
    <2>3. d[j] = a[j]
        BY <2>1, <1>4, <1>8
    <2> QED BY <2>1, <2>2, <2>3, <1>1
<1>9. r[i + 1] = e
    <2>1. i + 1 \in 1 .. Len(r) /\ i + 1 <= i + 1 /\ i + 1 \in 1 .. i + 1 /\ ~(i + 1 <= i) /\ (i + 1) - i = 1
        BY <1>0, <1>l
    <2>2. r[i + 1] = d[i + 1]
        BY <2>1, <1>7
    <2>3. d[i + 1] = c[(i + 1) - i]
        BY <2>1, <1>4
    <2> QED BY <2>1, <2>2, <2>3, <1>c
<1>10. ASSUME NEW j \in 1 .. Len(r), j > i + 1 PROVE r[j] = s[j - 1]
    <2>1. ~(j <= i + 1) /\ j - (i + 1) \in 1 .. Len(s) - i /\ i + (j - (i + 1)) = j - 1
        BY <1>0, <1>l, <1>10
    <2>2. r[j] = b[j - (i + 1)]
        BY <2>1, <1>7
    <2>3. b[j - (i + 1)] = s[i + (j - (i + 1))]
        BY <2>1, <1>2
    <2> QED BY <2>1, <2>2, <2>3
<1> QED BY <1>6, <1>8, <1>9, <1>10 DEF r, LongerBy

\* An entry is linked behind the one at i.
LEMMA WalkInsert ==
    ASSUME NEW s, NEW start, NEW link, Walk(s, start, link), NEW n \in [Entry -> Pointer],
           NEW i \in 1 .. Len(s), NEW e \in Entry \ Entries(s),
           n[s[i]] = e, n[e] = link[s[i]],
           \A x \in Entries(s) \ {s[i]} : n[x] = link[x]
    PROVE  Walk(List!InsertAt(s, i + 1, e), start, n)
<1>l. Len(s) \in Nat /\ i >= 1 /\ i <= Len(s) /\ i \in Nat
    BY WalkSteps
<1>s. /\ s \in Seq(Entry) /\ e \in Entry /\ DOMAIN s = 1 .. Len(s)
      /\ start = s[1]
    BY <1>l, WalkSteps DEF Walk
<1>d. \A j, k \in 1 .. Len(s) : s[j] = s[k] => j = k
    BY WalkSteps
<1>e. \A j \in 1 .. Len(s) : s[j] # e /\ (j # i => n[s[j]] = link[s[j]])
    BY <1>s, <1>d DEF Entries
<1>n. \A j \in 1 .. Len(s) : j < Len(s) => link[s[j]] = s[j + 1]
    BY WalkSteps
<1>z. \A j \in 1 .. Len(s) : j = Len(s) => link[s[j]] = NULL
    BY WalkSteps
<1>q. s \in Seq(Entry) /\ i \in 1 .. Len(s) /\ e \in Entry
    BY <1>s
<1>p. LongerBy(List!InsertAt(s, i + 1, e), s, i, e, Entry)
    BY ONLY <1>q, SequenceWith
<1> DEFINE r == List!InsertAt(s, i + 1, e)
<1>r. /\ r \in Seq(Entry) /\ Len(r) = Len(s) + 1
      /\ \A j \in 1 .. Len(r) : j <= i => r[j] = s[j]
      /\ r[i + 1] = e
      /\ \A j \in 1 .. Len(r) : j > i + 1 => r[j] = s[j - 1]
    BY ONLY <1>p DEF LongerBy
<1>1. r \in Seq(Entry)
    BY <1>r
<1>2. Len(r) = Len(s) + 1 /\ r[i + 1] = e
    BY <1>r
<1>3. \A j \in 1 .. Len(r) : j <= i => r[j] = s[j]
    BY <1>r
<1>4. \A j \in 1 .. Len(r) : j > i + 1 => r[j] = s[j - 1]
    BY <1>r
<1> HIDE DEF r
\* Where the entries of the longer sequence stand in the shorter one.
<1>w. ASSUME NEW j \in 1 .. Len(r)
      PROVE  \/ j \in 1 .. Len(s) /\ j <= i /\ r[j] = s[j]
             \/ j = i + 1 /\ r[j] = e
             \/ j - 1 \in 1 .. Len(s) /\ j > i + 1 /\ r[j] = s[j - 1]
    <2>1. CASE j <= i
        <3>1. j \in 1 .. Len(s)
            BY <2>1, <1>l
        <3> QED BY <2>1, <3>1, <1>3
    <2>2. CASE j = i + 1
        BY <2>2, <1>2
    <2>3. CASE j > i + 1
        <3>1. j - 1 \in 1 .. Len(s)
            BY <2>3, <1>l, <1>2
        <3> QED BY <2>3, <3>1, <1>4
    <2> QED BY <2>1, <2>2, <2>3, <1>l
<1>5. ASSUME NEW j \in 1 .. Len(r), NEW k \in 1 .. Len(r), r[j] = r[k] PROVE j = k
    <2>j. \/ j \in 1 .. Len(s) /\ j <= i /\ r[j] = s[j]
          \/ j = i + 1 /\ r[j] = e
          \/ j - 1 \in 1 .. Len(s) /\ j > i + 1 /\ r[j] = s[j - 1]
        BY <1>w
    <2>k. \/ k \in 1 .. Len(s) /\ k <= i /\ r[k] = s[k]
          \/ k = i + 1 /\ r[k] = e
          \/ k - 1 \in 1 .. Len(s) /\ k > i + 1 /\ r[k] = s[k - 1]
        BY <1>w
    <2>n. j \in Int /\ k \in Int
        OBVIOUS
    <2>1. CASE r[j] = e
        BY <2>1, <2>j, <2>k, <1>5, <1>e
    <2>2. CASE r[j] # e
        <3>1. \E a, b \in 1 .. Len(s) : /\ a = b /\ (j = a \/ j = a + 1) /\ (k = b \/ k = b + 1)
                                        /\ (j = a <=> a <= i) /\ (k = b <=> b <= i)
            <4>1. PICK a \in 1 .. Len(s) : r[j] = s[a] /\ (j = a \/ j = a + 1) /\ (j = a <=> a <= i)
                <5>1. CASE j \in 1 .. Len(s) /\ j <= i /\ r[j] = s[j]
                    BY <5>1
                <5>2. CASE j - 1 \in 1 .. Len(s) /\ j > i + 1 /\ r[j] = s[j - 1]
                    <6>1. j = (j - 1) + 1 /\ j # j - 1 /\ ~(j - 1 <= i)
                        BY <5>2, <2>n, <1>l
                    <6> QED BY <5>2, <6>1
                <5> QED BY <2>j, <2>2, <5>1, <5>2
            <4>2. PICK b \in 1 .. Len(s) : r[k] = s[b] /\ (k = b \/ k = b + 1) /\ (k = b <=> b <= i)
                <5>1. CASE k \in 1 .. Len(s) /\ k <= i /\ r[k] = s[k]
                    BY <5>1
                <5>2. CASE k - 1 \in 1 .. Len(s) /\ k > i + 1 /\ r[k] = s[k - 1]
                    <6>1. k = (k - 1) + 1 /\ k # k - 1 /\ ~(k - 1 <= i)
                        BY <5>2, <2>n, <1>l
                    <6> QED BY <5>2, <6>1
                <5> QED BY <2>k, <2>2, <1>5, <5>1, <5>2
            <4>3. a = b
                <5>1. s[a] = s[b]
                    BY <4>1, <4>2, <1>5
                <5> QED BY <5>1, <1>d
            <4> QED BY <4>1, <4>2, <4>3
        <3> QED BY <3>1
    <2> QED BY <2>1, <2>2
<1>6. Len(r) > 0 /\ start = r[1]
    <2>1. 1 \in 1 .. Len(r) /\ 1 <= i /\ Len(r) > 0
        BY <1>2, <1>l
    <2> QED BY <2>1, <1>3, <1>s
<1>7. ASSUME NEW j \in 1 .. Len(r), j < Len(r) PROVE n[r[j]] = r[j + 1]
    <2>0. j + 1 \in 1 .. Len(r) /\ i \in 1 .. Len(s)
        BY <1>7, <1>2, <1>l
    <2>1. CASE j < i
        <3>1. j + 1 <= i /\ j <= i /\ j \in 1 .. Len(s) /\ j < Len(s) /\ j # i
            BY <2>1, <1>l
        <3>2. r[j] = s[j] /\ r[j + 1] = s[j + 1]
            BY <2>0, <3>1, <1>3
        <3>3. n[s[j]] = link[s[j]] /\ link[s[j]] = s[j + 1]
            BY <3>1, <1>e, <1>n
        <3> QED BY <3>2, <3>3
    <2>2. CASE j = i
        <3>1. r[j] = s[i] /\ r[j + 1] = e
            BY <2>0, <2>2, <1>2, <1>3, <1>l
        <3> QED BY <3>1
    <2>3. CASE j = i + 1
        <3>1. j + 1 > i + 1 /\ (j + 1) - 1 = i + 1 /\ i < Len(s)
            BY <2>3, <1>7, <1>2, <1>l
        <3>2. r[j] = e /\ r[j + 1] = s[i + 1]
            BY <2>0, <2>3, <3>1, <1>2, <1>4
        <3>3. link[s[i]] = s[i + 1]
            BY <2>0, <3>1, <1>n
        <3> QED BY <3>2, <3>3
    <2>4. CASE j > i + 1
        <3>1. /\ j + 1 > i + 1 /\ (j + 1) - 1 = j /\ j - 1 \in 1 .. Len(s) /\ j - 1 < Len(s)
              /\ j - 1 # i /\ (j - 1) + 1 = j
            BY <2>4, <1>7, <1>2, <1>l
        <3>2. r[j] = s[j - 1] /\ r[j + 1] = s[j]
            BY <2>0, <2>4, <3>1, <1>4
        <3>3. n[s[j - 1]] = link[s[j - 1]] /\ link[s[j - 1]] = s[j]
            BY <3>1, <1>e, <1>n
        <3> QED BY <3>2, <3>3
    <2> QED BY <2>1, <2>2, <2>3, <2>4, <1>l
<1>8. n[r[Len(r)]] = NULL
    <2>0. Len(r) \in 1 .. Len(r) /\ Len(s) \in 1 .. Len(s) /\ Len(r) = Len(s) + 1
        BY <1>2, <1>l
    <2>1. CASE i = Len(s)
        <3>1. r[Len(r)] = e
            BY <2>0, <2>1, <1>2
        <3> QED BY <2>1, <3>1, <1>z
    <2>2. CASE i # Len(s)
        <3>1. Len(r) > i + 1 /\ Len(r) - 1 = Len(s)
            BY <2>0, <2>2, <1>l
        <3>2. r[Len(r)] = s[Len(s)]
            BY <2>0, <3>1, <1>4
        <3> QED BY <2>0, <2>2, <3>2, <1>e, <1>z
    <2> QED BY <2>1, <2>2
<1>9. Walk(r, start, n)
    <2>1. Len(r) # 0
        BY <1>6
    <2> QED BY <1>1, <1>5, <1>6, <1>7, <1>8, <2>1, WalkAlong
<1> QED BY <1>9 DEF r

\* The entry at i is taken out.
LEMMA WalkRemove ==
    ASSUME NEW s, NEW start, NEW link, Walk(s, start, link), NEW n \in [Entry -> Pointer],
           NEW i \in 1 .. Len(s),
           NEW f, f = (IF start = s[i] THEN link[s[i]] ELSE start),
           \A x \in Entries(s) \ {s[i]} : n[x] = IF link[x] = s[i] THEN link[s[i]] ELSE link[x]
    PROVE  Walk(List!RemoveAt(s, i), f, n)
<1>l. Len(s) \in Nat /\ i >= 1 /\ i <= Len(s) /\ i \in Nat
    BY WalkSteps
<1>s. /\ s \in Seq(Entry) /\ DOMAIN s = 1 .. Len(s)
      /\ start = s[1]
    BY <1>l, WalkSteps DEF Walk
<1>d. \A j, k \in 1 .. Len(s) : s[j] = s[k] => j = k
    BY WalkSteps
<1>e. \A j \in 1 .. Len(s) : j # i => n[s[j]] = IF link[s[j]] = s[i] THEN link[s[i]] ELSE link[s[j]]
    BY <1>s, <1>d DEF Entries
<1>n. \A j \in 1 .. Len(s) : j < Len(s) => link[s[j]] = s[j + 1]
    BY WalkSteps
<1>z. \A j \in 1 .. Len(s) : j = Len(s) => link[s[j]] = NULL
    BY WalkSteps
<1>y. s[i] # NULL
    BY WalkSteps
<1> DEFINE r == List!RemoveAt(s, i)
<1>1. r \in Seq(Entry)
    BY <1>s, SequenceWithout
<1>2. Len(r) = Len(s) - 1
    BY <1>s, SequenceWithout
<1>3. \A j \in 1 .. Len(r) : j < i => r[j] = s[j]
    BY <1>s, SequenceWithout
<1>4. \A j \in 1 .. Len(r) : j >= i => r[j] = s[j + 1]
    BY <1>s, SequenceWithout
<1> HIDE DEF r
<1>5. ASSUME NEW j \in 1 .. Len(r), NEW k \in 1 .. Len(r), r[j] = r[k] PROVE j = k
    <2>1. /\ j \in 1 .. Len(s) /\ j + 1 \in 1 .. Len(s) /\ k \in 1 .. Len(s) /\ k + 1 \in 1 .. Len(s)
          /\ j \in Int /\ k \in Int
        BY <1>2, <1>l
    <2>2. r[j] = (IF j < i THEN s[j] ELSE s[j + 1]) /\ r[k] = (IF k < i THEN s[k] ELSE s[k + 1])
        <3>1. (j < i \/ j >= i) /\ (k < i \/ k >= i)
            BY <2>1, <1>l
        <3> QED BY <3>1, <1>3, <1>4
    <2>3. (IF j < i THEN j ELSE j + 1) = (IF k < i THEN k ELSE k + 1)
        BY <2>1, <2>2, <1>5, <1>d
    <2> QED BY <2>1, <2>3, <1>l
<1>6. ASSUME Len(r) = 0 PROVE f = NULL
    <2>0. Len(s) - 1 = 0
        BY <1>2, <1>6
    <2>1. i = 1 /\ Len(s) = 1
        BY ONLY <2>0, <1>l
    <2> QED BY <2>1, <1>s, <1>z
<1>7. Len(r) > 0 => f = r[1]
    <2> SUFFICES ASSUME Len(r) > 0 PROVE f = r[1]
        OBVIOUS
    <2>0. 1 \in 1 .. Len(r) /\ 1 < Len(s) /\ 1 \in 1 .. Len(s) /\ 1 + 1 = 2
        BY <1>2, <1>l
    <2>1. CASE i = 1
        BY <2>0, <2>1, <1>4, <1>n, <1>s
    <2>2. CASE i # 1
        <3>1. 1 < i /\ s[1] # s[i]
            BY <2>0, <2>2, <1>l, <1>d
        <3> QED BY <2>0, <3>1, <1>3, <1>s
    <2> QED BY <2>1, <2>2
<1>8. ASSUME NEW j \in 1 .. Len(r), j < Len(r) PROVE n[r[j]] = r[j + 1]
    <2>0. /\ j + 1 \in 1 .. Len(r) /\ i \in 1 .. Len(s) /\ j \in 1 .. Len(s) /\ j + 1 \in 1 .. Len(s)
          /\ (j + 1) + 1 \in 1 .. Len(s) /\ j < Len(s) /\ j + 1 < Len(s)
        BY <1>8, <1>2, <1>l
    <2>1. CASE j + 1 < i
        <3>1. j < i /\ j # i /\ j + 1 # i
            BY <2>1, <1>l
        <3>2. r[j] = s[j] /\ r[j + 1] = s[j + 1]
            BY <2>0, <2>1, <3>1, <1>3
        <3>3. link[s[j]] = s[j + 1] /\ s[j + 1] # s[i]
            BY <2>0, <3>1, <1>n, <1>d
        <3>4. n[s[j]] = link[s[j]]
            BY <2>0, <3>1, <3>3, <1>e
        <3> QED BY <3>2, <3>3, <3>4
    <2>2. CASE j + 1 = i
        <3>1. j < i /\ j # i /\ j + 1 >= i
            BY <2>2, <1>l
        <3>2. r[j] = s[j] /\ r[j + 1] = s[(j + 1) + 1]
            BY <2>0, <3>1, <1>3, <1>4
        <3>3. link[s[j]] = s[i] /\ link[s[i]] = s[(j + 1) + 1]
            BY <2>0, <2>2, <1>n
        <3>4. n[s[j]] = link[s[i]]
            BY <2>0, <3>1, <3>3, <1>e
        <3> QED BY <3>2, <3>3, <3>4
    <2>3. CASE j >= i
        <3>1. j + 1 >= i /\ j + 1 # i /\ (j + 1) + 1 # i
            BY <2>3, <1>l
        <3>2. r[j] = s[j + 1] /\ r[j + 1] = s[(j + 1) + 1]
            BY <2>0, <2>3, <3>1, <1>4
        <3>3. link[s[j + 1]] = s[(j + 1) + 1] /\ s[(j + 1) + 1] # s[i]
            BY <2>0, <3>1, <1>n, <1>d
        <3>4. n[s[j + 1]] = link[s[j + 1]]
            BY <2>0, <3>1, <3>3, <1>e
        <3> QED BY <3>2, <3>3, <3>4
    <2> QED BY <2>1, <2>2, <2>3, <1>l
<1>9. Len(r) > 0 => n[r[Len(r)]] = NULL
    <2> SUFFICES ASSUME Len(r) > 0 PROVE n[r[Len(r)]] = NULL
        OBVIOUS
    <2>0. /\ Len(r) \in 1 .. Len(r) /\ Len(r) \in 1 .. Len(s) /\ Len(s) \in 1 .. Len(s)
          /\ Len(r) + 1 = Len(s) /\ Len(r) < Len(s) /\ Len(r) # Len(s)
        BY <1>2, <1>l
    <2>1. CASE i = Len(s)
        <3>1. Len(r) < i /\ Len(r) # i
            BY <2>0, <2>1
        <3>2. r[Len(r)] = s[Len(r)] /\ link[s[Len(r)]] = s[i] /\ link[s[i]] = NULL
            BY <2>0, <2>1, <3>1, <1>3, <1>n, <1>z
        <3>3. n[s[Len(r)]] = link[s[i]]
            BY <2>0, <3>1, <3>2, <1>e
        <3> QED BY <3>2, <3>3
    <2>2. CASE i # Len(s)
        <3>1. Len(r) >= i /\ Len(s) # i
            BY <2>0, <2>2, <1>l
        <3>2. r[Len(r)] = s[Len(s)] /\ link[s[Len(s)]] = NULL
            BY <2>0, <3>1, <1>4, <1>z
        <3>3. n[s[Len(s)]] = NULL
            BY <2>0, <3>1, <3>2, <1>e, <1>y
        <3> QED BY <3>2, <3>3
    <2> QED BY <2>1, <2>2
<1>10. Walk(r, f, n)
    BY <1>1, <1>5, <1>6, <1>7, <1>8, <1>9, WalkAlong
<1> QED BY <1>10 DEF r

-----------------------------------------------------------------------------
(* The sequences that a playlist stands for *)

(* The list is the walk along s, the queue the walk along t, and the numbers of *)
(* the queued entries are their places in t.                                    *)
Stands(p, s, t) ==
    /\ Walk(s, p.first, p.next)
    /\ Walk(t, p.queue_start, p.next_in_queue)
    /\ \A i \in DOMAIN t : p.queue_pos[t[i]] = i

\* The sequences are those of the mapping, and their entries those of the list and the queue.
LEMMA StandsFor ==
    ASSUME NEW p, ListInv(p), NEW s, NEW t, Stands(p, s, t)
    PROVE  /\ Sequence(p.first, p.next) = s /\ Sequence(p.queue_start, p.next_in_queue) = t
           /\ s \in Seq(Entry) /\ t \in Seq(Entry)
           /\ List!ToSet(s) = p.live /\ List!ToSet(t) = Queued(p)
           /\ Entries(s) = p.live /\ Entries(t) = Queued(p)
<1>1. Walk(s, p.first, p.next) /\ Walk(t, p.queue_start, p.next_in_queue)
    BY DEF Stands
<1>2. Entries(s) = Linked(p) /\ Entries(t) = Queued(p)
    BY <1>1, WalkEntries DEF Linked, Queued
<1>3. Linked(p) = p.live
    BY AllSelectable
<1>4. List!ToSet(s) = Entries(s) /\ List!ToSet(t) = Entries(t)
    BY DEF List!ToSet, Entries
<1>5. s \in Seq(Entry) /\ t \in Seq(Entry)
    BY <1>1 DEF Walk
<1>6. Sequence(p.first, p.next) = s /\ Sequence(p.queue_start, p.next_in_queue) = t
    BY <1>1, SequenceIs
<1> QED BY <1>2, <1>3, <1>4, <1>5, <1>6

\* Where an entry stands in the sequence of a walk.
LEMMA WhereIs ==
    ASSUME NEW s, NEW start, NEW link, Walk(s, start, link), NEW e \in Entries(s)
    PROVE  /\ List!Position(s, e) \in 1 .. Len(s)
           /\ s[List!Position(s, e)] = e
           /\ \A i \in 1 .. Len(s) : s[i] = e => List!Position(s, e) = i
<1>1. DOMAIN s = 1 .. Len(s) /\ \A i, j \in 1 .. Len(s) : s[i] = s[j] => i = j
    BY WalkSteps
<1>2. \E i \in DOMAIN s : s[i] = e
    BY DEF Entries
<1>3. List!Position(s, e) \in DOMAIN s /\ s[List!Position(s, e)] = e
    BY <1>2 DEF List!Position
<1> QED BY <1>1, <1>3

\* What the neighbours in the list are in the sequence.
LEMMA Neighbours ==
    ASSUME NEW p, ListInv(p), NEW s, NEW t, Stands(p, s, t), NEW e \in p.live
    PROVE  /\ s # <<>> /\ p.first = s[1] /\ p.first # NULL
           /\ p.last = List!Last(s) /\ p.last # NULL
           /\ p.next[e] = NULL => e = List!Last(s)
           /\ p.next[e] # NULL => e # List!Last(s) /\ p.next[e] = s[List!Position(s, e) + 1]
           /\ p.prev[e] = NULL => List!Position(s, e) = 1
           /\ p.prev[e] # NULL => List!Position(s, e) > 1 /\ p.prev[e] = s[List!Position(s, e) - 1]
<1> DEFINE i == List!Position(s, e)
           n == Len(s)
<1>w. Walk(s, p.first, p.next)
    BY DEF Stands
<1>1. Chain(p.first, p.last, p.live, p.next, p.prev)
    BY DEF ListInv
<1>2. Entries(s) = p.live
    BY StandsFor
<1>3. i \in 1 .. n /\ s[i] = e
    BY <1>w, <1>2, WhereIs
<1>4. n \in Nat /\ DOMAIN s = 1 .. n /\ (n = 0 <=> s = <<>>) /\ (n = 0 <=> p.first = NULL)
    BY <1>w, WalkSteps
<1>5. n > 0 => p.first = s[1]
    BY <1>w, WalkSteps
<1>6. \A j \in 1 .. n : j < n => p.next[s[j]] = s[j + 1]
    BY <1>w, WalkSteps
<1>7. \A j \in 1 .. n : j = n => p.next[s[j]] = NULL
    BY <1>w, WalkSteps
<1>8. \A j \in 1 .. n : s[j] \in Entry /\ s[j] # NULL
    BY <1>w, WalkSteps
<1>9. \A j, k \in 1 .. n : s[j] = s[k] => j = k
    BY <1>w, WalkSteps
<1>10. \A j \in 1 .. n : s[j] \in p.live
    BY <1>2, <1>4 DEF Entries
<1>11. List!Last(s) = s[n]
    BY DEF List!Last
<1> HIDE DEF i, n
<1>12. n > 0 /\ i \in Int /\ i >= 1 /\ i <= n /\ 1 \in 1 .. n /\ n \in 1 .. n
    BY <1>3, <1>4
<1>13. p.next[s[n]] = NULL /\ s[n] \in p.live
    BY <1>7, <1>10, <1>12
<1>14. p.last = s[n] /\ p.last # NULL
    BY <1>1, <1>13, <1>8, <1>12 DEF Chain
<1>15. s # <<>> /\ p.first = s[1] /\ p.first # NULL
    BY <1>4, <1>5, <1>12
<1>16. p.next[e] = NULL => e = s[n]
    BY <1>1, <1>14 DEF Chain
<1>17. p.next[e] # NULL => e # s[n] /\ p.next[e] = s[i + 1]
    <2> SUFFICES ASSUME p.next[e] # NULL PROVE e # s[n] /\ p.next[e] = s[i + 1]
        OBVIOUS
    <2>1. e # s[n]
        BY <1>13
    <2>2. i # n
        BY <2>1, <1>3
    <2>3. i < n
        BY <2>2, <1>12, <1>4
    <2> QED BY <2>1, <2>3, <1>3, <1>6
<1>18. p.prev[e] = NULL => i = 1
    BY <1>1, <1>3, <1>9, <1>12, <1>15 DEF Chain
<1>19. p.prev[e] # NULL => i > 1 /\ p.prev[e] = s[i - 1]
    <2> SUFFICES ASSUME p.prev[e] # NULL PROVE i > 1 /\ p.prev[e] = s[i - 1]
        OBVIOUS
    <2>1. i # 1
        BY <1>1, <1>3, <1>15 DEF Chain
    <2>2. i > 1 /\ i - 1 \in 1 .. n /\ i - 1 < n /\ (i - 1) + 1 = i
        BY <2>1, <1>12, <1>4
    <2>3. p.next[s[i - 1]] = s[(i - 1) + 1]
        BY <2>2, <1>6
    <2>4. p.next[s[i - 1]] = e
        BY <2>2, <2>3, <1>3
    <2>5. s[i - 1] \in p.live /\ e # NULL
        BY <2>2, <1>10, <1>3, <1>8
    <2>6. p.prev[e] = s[i - 1]
        BY <2>4, <2>5, <1>1 DEF Chain
    <2> QED BY <2>2, <2>6
<1> QED BY <1>11, <1>14, <1>15, <1>16, <1>17, <1>18, <1>19 DEF i

\* What leaves links and numbers alone leaves the sequences alone.
LEMMA SameStands ==
    ASSUME NEW p, NEW q, NEW s, NEW t, Stands(p, s, t),
           q.first = p.first, q.next = p.next, q.queue_start = p.queue_start,
           q.next_in_queue = p.next_in_queue, q.queue_pos = p.queue_pos
    PROVE  Stands(q, s, t)
BY DEF Stands

\* The queue is left alone by what changes entries outside it.
LEMMA SameQueued ==
    ASSUME NEW p, ListInv(p), QueueInv(p), NEW q \in PlaylistType, NEW s, NEW t, Stands(p, s, t),
           q.queue_start = p.queue_start,
           \A x \in Queued(p) : /\ q.next_in_queue[x] = p.next_in_queue[x]
                                /\ q.queue_pos[x] = p.queue_pos[x]
    PROVE  /\ Walk(t, q.queue_start, q.next_in_queue)
           /\ \A i \in DOMAIN t : q.queue_pos[t[i]] = i
<1>1. /\ Walk(t, p.queue_start, p.next_in_queue)
      /\ \A i \in DOMAIN t : p.queue_pos[t[i]] = i
    BY DEF Stands
<1>2. Entries(t) = Queued(p)
    BY StandsFor
<1>3. q.next_in_queue \in [Entry -> Pointer]
    BY FieldTypes
<1>4. Walk(t, q.queue_start, q.next_in_queue)
    BY <1>1, <1>2, <1>3, WalkSame
<1>5. ASSUME NEW i \in DOMAIN t PROVE q.queue_pos[t[i]] = i
    <2>1. t[i] \in Queued(p)
        BY <1>2 DEF Entries
    <2> QED BY <2>1, <1>1
<1> QED BY <1>4, <1>5

\* What two playlists that are otherwise alike have in common.
Alike(q, p) == q.current = p.current /\ q.play_mode = p.play_mode

\* An appended entry stands behind all others.
LEMMA AddStands ==
    ASSUME NEW p, ListInv(p), QueueInv(p), NEW s, NEW t, Stands(p, s, t),
           NEW e \in Entry \ p.live, NEW q \in AddItem(p, e, TRUE)
    PROVE  /\ Stands(q, Append(s, e), t) /\ Alike(q, p)
           /\ PlayedEntries(q) = PlayedEntries(p)
<1>p. p \in PlaylistType
    BY DEF ListInv
<1>1. ListInv(q)
    BY AddKeepsList
<1>2. q \in PlaylistType
    BY <1>1 DEF ListInv
<1>3. /\ q.live = p.live \cup {e} /\ q.queue_start = p.queue_start /\ q.current = p.current
      /\ q.play_mode = p.play_mode
      /\ q.first = IF p.first = NULL THEN e ELSE p.first
      /\ q.next = Set(Set(p.next, p.last, e), e, NULL)
      /\ q.next_in_queue = Set(p.next_in_queue, e, NULL)
      /\ q.queue_pos = Set(p.queue_pos, e, 0)
      /\ q.played = Set(p.played, e, FALSE)
    <2> DEFINE a == Appended(p, e)
    <2>1. q = [a EXCEPT !.queue_pos = Set(a.queue_pos, e, 0),
                        !.next_in_queue = Set(a.next_in_queue, e, NULL),
                        !.length = a.length + 1]
        BY DEF AddItem
    <2>2. /\ a.live = p.live \cup {e} /\ a.queue_start = p.queue_start /\ a.current = p.current
          /\ a.next_in_queue = p.next_in_queue /\ a.queue_pos = p.queue_pos
          /\ a.play_mode = p.play_mode
          /\ a.first = IF p.first = NULL THEN e ELSE p.first
          /\ a.next = Set(Set(p.next, p.last, e), e, NULL)
          /\ a.played = Set(p.played, e, FALSE)
          /\ DOMAIN a = DOMAIN p
        BY <1>p DEF Appended, PlaylistType
    <2>3. DOMAIN p = {"first", "last", "current", "queue_start", "length", "played_items",
                      "play_mode", "live", "next", "prev", "played", "queue_pos", "next_in_queue"}
        BY <1>p DEF PlaylistType
    <2> HIDE DEF a
    <2> QED BY <2>1, <2>2, <2>3
<1>4. Walk(s, p.first, p.next) /\ Entries(s) = p.live /\ e \notin Entries(s) /\ e \in Entry
    BY StandsFor DEF Stands
<1>5. Chain(p.first, p.last, p.live, p.next, p.prev) /\ p.live \in SUBSET Entry
    BY DEF ListInv, Chain
<1>6. q.next \in [Entry -> Pointer] /\ p.played \in [Entry -> BOOLEAN]
    BY <1>p, <1>2, FieldTypes
<1>7. q.next[e] = NULL
    BY <1>3 DEF Set
<1>8. \A x \in Entries(s) : q.next[x] = IF p.next[x] = NULL THEN e ELSE p.next[x]
    BY <1>3, <1>4, <1>5 DEF Set, Chain
<1>9. Walk(Append(s, e), q.first, q.next)
    <2>1. q.first = IF p.first = NULL THEN e ELSE p.first
        BY <1>3
    <2> QED BY ONLY <2>1, <1>4, <1>6, <1>7, <1>8, WalkAppend
<1>10. Queued(p) \subseteq p.live
    BY DEF QueueInv
<1>11. \A x \in Queued(p) : /\ q.next_in_queue[x] = p.next_in_queue[x]
                            /\ q.queue_pos[x] = p.queue_pos[x]
    BY <1>3, <1>4, <1>5, <1>10 DEF Set
<1>12. /\ Walk(t, q.queue_start, q.next_in_queue)
       /\ \A i \in DOMAIN t : q.queue_pos[t[i]] = i
    BY <1>2, <1>3, <1>11, SameQueued
<1>13. PlayedEntries(q) = PlayedEntries(p)
    <2>1. \A x \in q.live : q.played[x] <=> x # e /\ p.played[x]
        BY <1>3, <1>5 DEF Set
    <2> QED BY <2>1, <1>3, <1>4 DEF PlayedEntries
<1> QED BY <1>3, <1>9, <1>12, <1>13 DEF Stands, Alike

\* An inserted entry stands behind the one it was inserted after.
LEMMA InsertStands ==
    ASSUME NEW p, ListInv(p), QueueInv(p), NEW s, NEW t, Stands(p, s, t),
           NEW d \in p.live, p.next[d] # NULL,
           NEW e \in Entry \ p.live, NEW q \in InsertItemAfter(p, d, e)
    PROVE  /\ Stands(q, List!InsertAt(s, List!Position(s, d) + 1, e), t) /\ Alike(q, p)
           /\ PlayedEntries(q) = PlayedEntries(p)
<1>p. p \in PlaylistType
    BY DEF ListInv
<1>1. ListInv(q)
    BY InsertKeepsList
<1>2. q \in PlaylistType
    BY <1>1 DEF ListInv
<1>u. PICK u \in Uninitialised : q = Inserted(p, d, e, u)
    BY DEF InsertItemAfter
<1>3. /\ q.live = p.live \cup {e} /\ q.queue_start = p.queue_start /\ q.current = p.current
      /\ q.play_mode = p.play_mode /\ q.first = p.first
      /\ q.next = Set(Set(p.next, e, p.next[d]), d, e)
      /\ q.next_in_queue = Set(p.next_in_queue, e, NULL)
      /\ q.queue_pos = Set(p.queue_pos, e, u)
      /\ q.played = Set(p.played, e, FALSE)
    BY <1>p, <1>2, <1>u DEF Inserted, PlaylistType
<1>4. Walk(s, p.first, p.next) /\ Entries(s) = p.live /\ e \in Entry \ Entries(s)
    BY StandsFor DEF Stands
<1>5. p.live \in SUBSET Entry
    BY DEF ListInv, Chain
<1>6. q.next \in [Entry -> Pointer] /\ p.played \in [Entry -> BOOLEAN]
    BY <1>p, <1>2, FieldTypes
<1> DEFINE i == List!Position(s, d)
<1>7. i \in 1 .. Len(s) /\ s[i] = d
    BY <1>4, WhereIs
<1> HIDE DEF i
<1>8. q.next[s[i]] = e /\ q.next[e] = p.next[s[i]]
    BY <1>3, <1>4, <1>5, <1>7 DEF Set
<1>9. \A x \in Entries(s) \ {s[i]} : q.next[x] = p.next[x]
    BY <1>3, <1>4, <1>5, <1>7 DEF Set
<1>10. Walk(List!InsertAt(s, i + 1, e), p.first, q.next)
    BY ONLY <1>4, <1>6, <1>7, <1>8, <1>9, WalkInsert
<1>11. Queued(p) \subseteq p.live
    BY DEF QueueInv
<1>12. \A x \in Queued(p) : /\ q.next_in_queue[x] = p.next_in_queue[x]
                            /\ q.queue_pos[x] = p.queue_pos[x]
    BY <1>3, <1>4, <1>5, <1>11 DEF Set
<1>13. /\ Walk(t, q.queue_start, q.next_in_queue)
       /\ \A j \in DOMAIN t : q.queue_pos[t[j]] = j
    BY <1>2, <1>3, <1>12, SameQueued
<1>14. PlayedEntries(q) = PlayedEntries(p)
    <2>1. \A x \in q.live : q.played[x] <=> x # e /\ p.played[x]
        BY <1>3, <1>5 DEF Set
    <2> QED BY <2>1, <1>3, <1>4 DEF PlayedEntries
<1> QED BY <1>3, <1>10, <1>13, <1>14 DEF Stands, Alike, i

\* A deleted entry leaves its place.
LEMMA DeleteStands ==
    ASSUME NEW p, ListInv(p), QueueInv(p), NEW s, NEW t, Stands(p, s, t),
           NEW e \in p.live, ~InUse(p, e)
    PROVE  LET q == Deleted(p, e) IN
           /\ Stands(q, List!Without(s, e), t) /\ Alike(q, p)
           /\ PlayedEntries(q) = PlayedEntries(p) \ {e}
<1>p. p \in PlaylistType /\ e \in Entry /\ p.live \in SUBSET Entry
    BY DEF ListInv, Chain
<1> DEFINE q == Deleted(p, e)
<1>1. ListInv(q)
    BY DeleteKeepsList
<1>2. q \in PlaylistType
    BY <1>1 DEF ListInv
<1>0. p.length # 0
    BY <1>p, LiveFinite, FS_EmptySet DEF ListInv
<1>3. /\ q.live = p.live \ {e} /\ q.queue_start = p.queue_start /\ q.current = p.current
      /\ q.play_mode = p.play_mode
      /\ q.first = IF p.length = 1 THEN NULL ELSE IF p.prev[e] = NULL THEN p.next[e] ELSE p.first
      /\ q.next = Set([x \in Entry |-> IF x \in {e} THEN NULL ELSE p.next[x]], p.prev[e], p.next[e])
      /\ q.next_in_queue = [x \in Entry |-> IF x \in {e} THEN NULL ELSE p.next_in_queue[x]]
      /\ q.queue_pos = [x \in Entry |-> IF x \in {e} THEN 0 ELSE p.queue_pos[x]]
      /\ q.played = [x \in Entry |-> x \notin {e} /\ p.played[x]]
    <3> DEFINE a == Free(p, {e})
               n == Set(a.next, p.prev[e], p.next[e])
               b == Set(a.prev, p.next[e], p.prev[e])
               f == IF p.length = 1 THEN NULL ELSE IF p.prev[e] = NULL THEN p.next[e] ELSE a.first
               l == IF p.length = 1 THEN NULL ELSE IF p.next[e] = NULL THEN p.prev[e] ELSE a.last
               k == a.length - 1
    <3>1. q = [a EXCEPT !.next = n, !.prev = b, !.first = f, !.last = l, !.length = k]
        BY <1>0 DEF Deleted
    <3>2. a \in PlaylistType /\ a.live = p.live \ {e}
          /\ a.queue_start = p.queue_start /\ a.current = p.current /\ a.first = p.first
        BY <1>p, FreeFields
    <3>3. /\ a.next_in_queue = [x \in Entry |-> IF x \in {e} THEN NULL ELSE p.next_in_queue[x]]
          /\ a.queue_pos = [x \in Entry |-> IF x \in {e} THEN 0 ELSE p.queue_pos[x]]
          /\ a.next = [x \in Entry |-> IF x \in {e} THEN NULL ELSE p.next[x]]
          /\ a.played = [x \in Entry |-> x \notin {e} /\ p.played[x]]
          /\ a.play_mode = p.play_mode
        BY <1>p DEF Free, PlaylistType
    <3>4. q.next = n /\ q.first = f /\ q.live = a.live /\ q.queue_start = a.queue_start
          /\ q.current = a.current /\ q.play_mode = a.play_mode
          /\ q.next_in_queue = a.next_in_queue /\ q.queue_pos = a.queue_pos /\ q.played = a.played
        <4> HIDE DEF a, n, b, f, l, k, q
        <4> QED BY <1>2, <3>1, <3>2 DEF PlaylistType
    <3>5. n = Set([x \in Entry |-> IF x \in {e} THEN NULL ELSE p.next[x]], p.prev[e], p.next[e])
          /\ f = IF p.length = 1 THEN NULL ELSE IF p.prev[e] = NULL THEN p.next[e] ELSE p.first
        BY <3>2, <3>3
    <3> HIDE DEF a, n, b, f, l, k, q
    <3> QED BY <3>2, <3>3, <3>4, <3>5
<1> HIDE DEF q
<1>c. Chain(p.first, p.last, p.live, p.next, p.prev)
    BY DEF ListInv
<1>4. Walk(s, p.first, p.next) /\ Entries(s) = p.live
    BY StandsFor DEF Stands
<1>5. q.next \in [Entry -> Pointer] /\ p.next \in [Entry -> Pointer]
    BY <1>p, <1>2, FieldTypes
<1> DEFINE i == List!Position(s, e)
<1>6. i \in 1 .. Len(s) /\ s[i] = e
    BY <1>4, WhereIs
<1> HIDE DEF i
<1>7. \A x \in Entries(s) \ {s[i]} : q.next[x] = IF p.next[x] = s[i] THEN p.next[s[i]] ELSE p.next[x]
    <2> SUFFICES ASSUME NEW x \in p.live \ {e}
                 PROVE  q.next[x] = IF p.next[x] = e THEN p.next[e] ELSE p.next[x]
        BY <1>4, <1>6
    <2>1. x = p.prev[e] <=> p.next[x] = e
        BY <1>c, EntryAssumption, <1>p DEF Chain
    <2> QED BY <2>1, <1>3, <1>p DEF Set
<1>8. q.first = IF p.first = s[i] THEN p.next[s[i]] ELSE p.first
    <2>1. p.prev[e] = NULL <=> e = p.first
        BY <1>c DEF Chain
    <2>2. CASE p.length = 1
        <3>1. q.first = NULL
            BY <1>3, <2>2
        <3>2. p.live = {e}
            <4>1. IsFiniteSet(p.live) /\ Cardinality(p.live) = 1
                BY <1>p, <2>2, LiveFinite DEF ListInv
            <4>2. Cardinality(p.live \ {e}) = 1 - 1 /\ IsFiniteSet(p.live \ {e})
                BY <4>1, FS_RemoveElement
            <4>3. p.live \ {e} = {}
                BY <4>2, FS_EmptySet
            <4> QED BY <4>3
        <3>3. p.first = e
            <4>1. p.first # NULL
                BY Neighbours
            <4> QED BY <3>2, <4>1, <1>c DEF Chain
        <3>4. p.next[e] = NULL
            BY <3>2, <1>c, <3>3 DEF Chain
        <3> QED BY <3>1, <3>3, <3>4, <1>6
    <2>3. CASE p.length # 1
        BY <2>1, <2>3, <1>3, <1>6
    <2> QED BY <2>2, <2>3
<1>9. Walk(List!RemoveAt(s, i), q.first, q.next)
    BY ONLY <1>4, <1>5, <1>6, <1>7, <1>8, WalkRemove
<1>10. Queued(p) \subseteq p.live \ {e}
    BY DEF QueueInv, InUse
<1>11. \A x \in Queued(p) : /\ q.next_in_queue[x] = p.next_in_queue[x]
                            /\ q.queue_pos[x] = p.queue_pos[x]
    BY <1>3, <1>p, <1>10
<1>12. /\ Walk(t, q.queue_start, q.next_in_queue)
       /\ \A j \in DOMAIN t : q.queue_pos[t[j]] = j
    <2>1. ListInv(p) /\ QueueInv(p) /\ Stands(p, s, t) /\ q.queue_start = p.queue_start
        BY <1>3
    <2> QED BY ONLY <2>1, <1>2, <1>11, SameQueued
<1>13. PlayedEntries(q) = PlayedEntries(p) \ {e}
    BY <1>3, <1>p DEF PlayedEntries
<1>14. Walk(List!Without(s, e), q.first, q.next)
    BY <1>9 DEF List!Without, i
<1>15. /\ Stands(q, List!Without(s, e), t) /\ Alike(q, p)
       /\ PlayedEntries(q) = PlayedEntries(p) \ {e}
    BY <1>3, <1>12, <1>13, <1>14 DEF Stands, Alike
<1> QED BY <1>15 DEF q

\* As many entries come before the one at i as there are places before i.
LEMMA PlaceIs ==
    ASSUME NEW s, NEW start, NEW link, Walk(s, start, link), NEW i \in 1 .. Len(s)
    PROVE  Position(start, link, s[i]) = i - 1
<1> DEFINE n == Len(s)
           B == {s[j] : j \in 1 .. i - 1}
           f == [j \in 1 .. i - 1 |-> s[j]]
<1>1. /\ n \in Nat /\ DOMAIN s = 1 .. n /\ i \in Int /\ i >= 1 /\ i <= n
      /\ \A j \in 1 .. n : s[j] \in Entry
    BY WalkSteps
<1>2. \A j, k \in 1 .. n : s[j] = s[k] => j = k
    BY WalkSteps
<1>3. Reach(start, link) = {s[j] : j \in 1 .. n}
    BY <1>1, WalkEntries DEF Entries
<1>4. Reach(s[i], link) = {s[j] : j \in i .. n}
    BY WalkReach
<1> HIDE DEF n
<1>5. \A j \in 1 .. i - 1 : j \in 1 .. n /\ j < i
    BY <1>1
<1>6. \A j \in 1 .. n : j \in i .. n \/ j \in 1 .. i - 1
    BY <1>1
<1>7. \A j \in i .. n : j \in 1 .. n /\ j >= i
    BY <1>1
<1>8. Reach(start, link) \ Reach(s[i], link) = B
    <2>1. ASSUME NEW x \in B PROVE x \in Reach(start, link) /\ x \notin Reach(s[i], link)
        <3>1. PICK j \in 1 .. i - 1 : x = s[j]
            OBVIOUS
        <3>2. j \in 1 .. n /\ j < i
            BY <1>5
        <3>3. ASSUME NEW k \in i .. n, x = s[k] PROVE FALSE
            <4>1. k \in 1 .. n /\ k >= i
                BY <1>7
            <4>2. j = k
                BY <3>1, <3>2, <3>3, <4>1, <1>2
            <4>3. k < i
                BY <3>2, <4>2
            <4> QED BY <4>1, <4>3, <1>1
        <3> QED BY <3>1, <3>2, <3>3, <1>3, <1>4
    <2>2. ASSUME NEW x \in Reach(start, link) \ Reach(s[i], link) PROVE x \in B
        BY <1>3, <1>4, <1>6
    <2> QED BY <2>1, <2>2
<1>9. IsFiniteSet(B) /\ Cardinality(B) = i - 1
    <2>1. \A j \in 1 .. i - 1 : s[j] \in B
        OBVIOUS
    <2>2. f \in Injection(1 .. i - 1, B)
        BY <1>2, <1>5, <2>1 DEF Injection, IsInjective
    <2>3. f \in Surjection(1 .. i - 1, B)
        BY <2>1 DEF Surjection
    <2>4. IsFiniteSet(1 .. i - 1) /\ Cardinality(1 .. i - 1) = i - 1
        <3> DEFINE m == i - 1
        <3>1. m \in Int /\ m >= 0 /\ 1 \in Int
            BY <1>1
        <3> HIDE DEF m
        <3>2. IsFiniteSet(1 .. m) /\ Cardinality(1 .. m) = IF 1 > m THEN 0 ELSE m - 1 + 1
            BY ONLY <3>1, FS_Interval
        <3>3. IsFiniteSet(1 .. m) /\ Cardinality(1 .. m) = m
            BY ONLY <3>1, <3>2
        <3> QED BY <3>3 DEF m
    <2>5. B \in SUBSET Entry
        BY <1>1, <1>5
    <2>6. IsFiniteSet(B)
        BY <2>5, LiveFinite
    <2> HIDE DEF f, B
    <2>7. Cardinality(1 .. i - 1) = Cardinality(B)
        BY <2>2, <2>3, <2>4, <2>6, FS_Injection
    <2> QED BY <2>4, <2>6, <2>7
<1> QED BY <1>8, <1>9 DEF Position

\* The head of the queue becomes current, and the others move up.
LEMMA FromQueueStands ==
    ASSUME NEW p, ListInv(p), NEW s, NEW t, Stands(p, s, t), p.queue_start # NULL
    PROVE  LET q == FromQueue(p) IN
           /\ t # <<>> /\ q.current = Head(t)
           /\ Stands(q, s, Tail(t))
           /\ q.play_mode = p.play_mode /\ PlayedEntries(q) = PlayedEntries(p)
<1>p. p \in PlaylistType
    BY DEF ListInv
<1> DEFINE q == FromQueue(p)
           h == p.queue_start
           link == p.next_in_queue
<1>0. ListInv(q)
    BY FromQueueKeepsList
<1>t. q \in PlaylistType
    BY <1>0 DEF ListInv
<1>1. /\ q.live = p.live /\ q.current = h /\ q.first = p.first /\ q.next = p.next
      /\ q.queue_start = link[h] /\ q.next_in_queue = link
      /\ q.play_mode = p.play_mode /\ q.played = p.played
      /\ q.queue_pos = [e \in Entry |-> IF e \in Queued(p) THEN Position(h, link, e) ELSE p.queue_pos[e]]
    BY <1>p, <1>t DEF FromQueue, PlaylistType
<1> HIDE DEF q
<1>2. Walk(s, p.first, p.next) /\ Walk(t, h, link)
    BY DEF Stands
<1>3. Entries(t) = Queued(p)
    BY StandsFor
<1> HIDE DEF h, link
<1>h. h # NULL
    BY DEF h
<1>4. t # <<>> /\ h = Head(t) /\ Walk(Tail(t), link[h], link)
    BY ONLY <1>2, <1>h, WalkTail
<1>5. /\ DOMAIN Tail(t) = 1 .. Len(Tail(t)) /\ Len(Tail(t)) = Len(t) - 1 /\ Len(t) \in Nat
      /\ \A i \in 1 .. Len(Tail(t)) : Tail(t)[i] = t[i + 1]
    <2>1. t \in Seq(Entry) /\ Tail(t) \in Seq(Entry)
        BY <1>2, <1>4 DEF Walk
    <2> QED BY <2>1, <1>4, HeadTailProperties, LenProperties
<1>6. DOMAIN t = 1 .. Len(t) /\ \A i \in 1 .. Len(t) : t[i] \in Entry /\ Position(h, link, t[i]) = i - 1
    <2>1. DOMAIN t = 1 .. Len(t) /\ \A i \in 1 .. Len(t) : t[i] \in Entry
        BY <1>2, WalkSteps
    <2> QED BY <2>1, <1>2, PlaceIs
<1>7. ASSUME NEW i \in DOMAIN Tail(t) PROVE q.queue_pos[Tail(t)[i]] = i
    <2>1. i + 1 \in 1 .. Len(t) /\ (i + 1) - 1 = i
        BY <1>5
    <2>2. Tail(t)[i] = t[i + 1]
        BY <1>5
    <2>3. t[i + 1] \in Queued(p) /\ t[i + 1] \in Entry
        BY <2>1, <1>3, <1>6 DEF Entries
    <2> QED BY <2>1, <2>2, <2>3, <1>1, <1>6
<1>8. /\ t # <<>> /\ q.current = Head(t)
      /\ Stands(q, s, Tail(t))
      /\ q.play_mode = p.play_mode /\ PlayedEntries(q) = PlayedEntries(p)
    BY <1>1, <1>2, <1>4, <1>7 DEF Stands, PlayedEntries
<1> QED BY <1>8 DEF q

\* A track that is not queued goes to the end.
LEMMA EnqueuedStands ==
    ASSUME NEW p, ListInv(p), NEW s, NEW t, Stands(p, s, t), NEW e \in p.live, p.queue_pos[e] = 0
    PROVE  LET q == EntryEnqueue(p, e) IN
           /\ e \notin Entries(t) /\ Stands(q, s, Append(t, e)) /\ Alike(q, p)
           /\ PlayedEntries(q) = PlayedEntries(p)
<1>p. p \in PlaylistType /\ e \in Entry
    BY DEF ListInv, Chain
<1> DEFINE q == EntryEnqueue(p, e)
<1>0. ListInv(q)
    BY EnqueueKeepsList
<1>t. q \in PlaylistType
    BY <1>0 DEF ListInv
<1> DEFINE link == [x \in Entry |-> IF x \in QueueEnd(p) THEN e ELSE p.next_in_queue[x]]
<1>1. /\ q.live = p.live /\ q.current = p.current /\ q.first = p.first /\ q.next = p.next
      /\ q.queue_start = IF p.queue_start = NULL THEN e ELSE p.queue_start
      /\ q.next_in_queue = Set(link, e, NULL)
      /\ q.play_mode = p.play_mode /\ q.played = p.played
      /\ q.queue_pos = Set(p.queue_pos, e, Cardinality(Queued(p)) + 1)
    BY <1>p, <1>t DEF EntryEnqueue, EnqueuedLast, PlaylistType
<1> HIDE DEF q
<1>2. Walk(s, p.first, p.next) /\ Walk(t, p.queue_start, p.next_in_queue)
    BY DEF Stands
<1>3. Entries(t) = Queued(p)
    BY StandsFor
<1>4. /\ DOMAIN t = 1 .. Len(t) /\ Len(t) \in Nat /\ t \in Seq(Entry)
      /\ \A i \in 1 .. Len(t) : t[i] \in Entry
    BY <1>2, WalkSteps DEF Walk
<1>5. e \notin Entries(t)
    <2> SUFFICES ASSUME NEW i \in DOMAIN t, e = t[i] PROVE FALSE
        BY DEF Entries
    <2>1. p.queue_pos[e] = i
        BY DEF Stands
    <2>2. i >= 1
        BY <1>4
    <2> QED BY <2>1, <2>2
<1>6. q.next_in_queue \in [Entry -> Pointer] /\ q.next_in_queue[e] = NULL
    BY <1>t, <1>p, <1>1, FieldTypes DEF Set
<1>7. \A x \in Entries(t) : q.next_in_queue[x] = IF p.next_in_queue[x] = NULL THEN e ELSE p.next_in_queue[x]
    <2>1. Entries(t) \subseteq Entry
        BY <1>4 DEF Entries
    <2> QED BY <2>1, <1>1, <1>3, <1>5 DEF Set, QueueEnd
<1>8. Walk(Append(t, e), q.queue_start, q.next_in_queue)
    <2>1. q.queue_start = IF p.queue_start = NULL THEN e ELSE p.queue_start
        BY <1>1
    <2>2. e \in Entry \ Entries(t)
        BY <1>p, <1>5
    <2> QED BY ONLY <2>1, <2>2, <1>2, <1>6, <1>7, WalkAppend
<1>9. Cardinality(Queued(p)) = Len(t)
    BY <1>2, <1>3, WalkSize
<1>10. ASSUME NEW i \in DOMAIN Append(t, e) PROVE q.queue_pos[Append(t, e)[i]] = i
    <2>1. DOMAIN Append(t, e) = 1 .. Len(t) + 1 /\ Append(t, e)[Len(t) + 1] = e
          /\ \A j \in 1 .. Len(t) : Append(t, e)[j] = t[j]
        BY <1>4, <1>p, AppendProperties, LenProperties
    <2>2. CASE i = Len(t) + 1
        BY <2>1, <2>2, <1>1, <1>9, <1>p DEF Set
    <2>3. CASE i # Len(t) + 1
        <3>1. i \in 1 .. Len(t)
            BY <2>1, <2>3, <1>4
        <3>2. t[i] # e /\ t[i] \in Entry
            BY <3>1, <1>4, <1>5 DEF Entries
        <3>3. p.queue_pos[t[i]] = i
            BY <3>1, <1>4 DEF Stands
        <3> QED BY <2>1, <3>1, <3>2, <3>3, <1>1 DEF Set
    <2> QED BY <2>2, <2>3
<1>11. /\ e \notin Entries(t) /\ Stands(q, s, Append(t, e)) /\ Alike(q, p)
       /\ PlayedEntries(q) = PlayedEntries(p)
    BY <1>1, <1>2, <1>5, <1>8, <1>10 DEF Stands, Alike, PlayedEntries
<1> QED BY <1>11 DEF q

\* A track that is queued is taken out, and those behind it move up.
LEMMA DequeuedStands ==
    ASSUME NEW p, ListInv(p), NEW s, NEW t, Stands(p, s, t), NEW e \in Entries(t),
           e \in p.live
    PROVE  LET q == EntryEnqueue(p, e) IN
           /\ Stands(q, s, List!Without(t, e)) /\ Alike(q, p)
           /\ PlayedEntries(q) = PlayedEntries(p)
<1>p. p \in PlaylistType /\ e \in Entry
    BY DEF ListInv, Chain
<1> DEFINE q == EntryEnqueue(p, e)
           link == p.next_in_queue
           i == List!Position(t, e)
           r == List!RemoveAt(t, i)
           n == Len(t)
<1>0. ListInv(q)
    BY EnqueueKeepsList
<1>q. q \in PlaylistType
    BY <1>0 DEF ListInv
<1>2. Walk(s, p.first, p.next) /\ Walk(t, p.queue_start, link)
    BY DEF Stands
<1>3. Entries(t) = Queued(p)
    BY StandsFor
<1>4. /\ DOMAIN t = 1 .. n /\ n \in Nat /\ t \in Seq(Entry)
      /\ \A j \in 1 .. n : t[j] \in Entry
    BY <1>2, WalkSteps DEF Walk
<1>5. i \in 1 .. n /\ t[i] = e
    BY <1>2, WhereIs
<1>6. \A j \in 1 .. n : p.queue_pos[t[j]] = j
    BY <1>4 DEF Stands
<1> HIDE DEF i, n
<1>i. i \in Int /\ i >= 1 /\ i <= n
    BY <1>4, <1>5
<1>7. p.queue_pos[e] # 0
    <2>1. p.queue_pos[e] = i
        BY <1>5, <1>6
    <2> QED BY <2>1, <1>i
<1>1. /\ q.live = p.live /\ q.current = p.current /\ q.first = p.first /\ q.next = p.next
      /\ q.queue_start = IF p.queue_start = e THEN link[e] ELSE p.queue_start
      /\ q.next_in_queue = [x \in Entry |->
                IF x = e THEN NULL
                ELSE IF x \in Queued(p) /\ link[x] = e THEN link[e]
                ELSE link[x]]
      /\ q.play_mode = p.play_mode /\ q.played = p.played
      /\ q.queue_pos = [x \in Entry |->
                IF x = e THEN 0
                ELSE IF x \in Behind(p, e) THEN p.queue_pos[x] - 1
                ELSE p.queue_pos[x]]
    BY <1>p, <1>q, <1>3, <1>7 DEF EntryEnqueue, Dequeued, PlaylistType
<1> HIDE DEF q
<1>8. q.next_in_queue \in [Entry -> Pointer]
    BY <1>q, FieldTypes
<1>9. \A x \in Entries(t) \ {t[i]} : q.next_in_queue[x] = IF link[x] = t[i] THEN link[t[i]] ELSE link[x]
    <2>1. Entries(t) \subseteq Entry
        BY <1>4 DEF Entries
    <2> QED BY <2>1, <1>1, <1>3, <1>5
<1>10. Walk(r, q.queue_start, q.next_in_queue)
    <2>1. q.queue_start = IF p.queue_start = t[i] THEN link[t[i]] ELSE p.queue_start
        BY <1>1, <1>5
    <2>2. i \in 1 .. Len(t)
        BY <1>5 DEF n
    <2> QED BY ONLY <2>1, <2>2, <1>2, <1>8, <1>9, WalkRemove
<1>11. Behind(p, e) = {t[j] : j \in i + 1 .. n}
    <2>0. \A k \in 1 .. n : Reach(t[k], link) = {t[j] : j \in k .. n}
        BY <1>2, WalkReach DEF n
    <2>1. CASE i = n
        <3>1. link[e] = NULL
            BY <2>1, <1>2, <1>5, WalkSteps DEF n
        <3>2. Behind(p, e) = {}
            BY <3>1, ReachNothing DEF Behind
        <3>3. i + 1 .. n = {}
            BY <2>1, <1>i
        <3> QED BY <3>2, <3>3
    <2>2. CASE i # n
        <3>1. i < n /\ i + 1 \in 1 .. n
            BY <2>2, <1>i, <1>4
        <3>2. \A k \in 1 .. n : k < n => link[t[k]] = t[k + 1]
            BY <1>2, WalkSteps DEF n
        <3>3. link[e] = t[i + 1]
            BY <3>1, <3>2, <1>5
        <3> QED BY <2>0, <3>1, <3>3 DEF Behind
    <2> QED BY <2>1, <2>2
<1>d. \A j, k \in 1 .. n : t[j] = t[k] => j = k
    BY <1>2, WalkSteps DEF n
<1>r. t \in Seq(Entry) /\ i \in 1 .. Len(t)
    BY <1>4, <1>5 DEF n
<1>12. r \in Seq(Entry) /\ Len(r) = n - 1
    BY ONLY <1>r, SequenceWithout DEF n
<1>13. \A j \in 1 .. Len(r) : j < i => r[j] = t[j]
    BY ONLY <1>r, SequenceWithout
<1>14. \A j \in 1 .. Len(r) : j >= i => r[j] = t[j + 1]
    BY ONLY <1>r, SequenceWithout
<1>15. DOMAIN r = 1 .. Len(r)
    BY ONLY <1>12, LenProperties
<1> HIDE DEF r, link
<1>16. ASSUME NEW j \in DOMAIN r PROVE q.queue_pos[r[j]] = j
    <2>1. j \in 1 .. Len(r) /\ j \in Int /\ j >= 1 /\ j <= n - 1
        BY <1>12, <1>15, <1>4
    <2>2. CASE j < i
        <3>1. j \in 1 .. n /\ j # i /\ ~(j >= i + 1)
            BY <2>1, <2>2, <1>4, <1>i
        <3>2. r[j] = t[j] /\ t[j] # e /\ t[j] \in Entry /\ p.queue_pos[t[j]] = j
            BY <2>1, <2>2, <3>1, <1>13, <1>5, <1>d, <1>4, <1>6
        <3>3. ASSUME NEW k \in i + 1 .. n, t[j] = t[k] PROVE FALSE
            <4>1. k \in 1 .. n /\ k >= i + 1
                BY <1>i, <1>4
            <4>2. j = k
                BY <3>1, <3>3, <4>1, <1>d
            <4> QED BY <3>1, <4>1, <4>2
        <3>4. t[j] \notin Behind(p, e)
            BY <3>3, <1>11
        <3> QED BY <3>2, <3>4, <1>1
    <2>3. CASE j >= i
        <3>1. j + 1 \in 1 .. n /\ j + 1 # i /\ j + 1 \in i + 1 .. n /\ (j + 1) - 1 = j
            BY <2>1, <2>3, <1>4, <1>i
        <3>2. r[j] = t[j + 1]
            BY <2>1, <2>3, <1>14
        <3>3. t[j + 1] # e /\ t[j + 1] \in Entry /\ p.queue_pos[t[j + 1]] = j + 1
            BY <3>1, <1>5, <1>d, <1>4, <1>6
        <3>4. t[j + 1] \in Behind(p, e)
            BY <3>1, <1>11
        <3> QED BY <3>1, <3>2, <3>3, <3>4, <1>1
    <2> QED BY <2>1, <2>2, <2>3, <1>i
<1>17. /\ Stands(q, s, r) /\ Alike(q, p)
       /\ PlayedEntries(q) = PlayedEntries(p)
    BY <1>1, <1>2, <1>10, <1>16 DEF Stands, Alike, PlayedEntries
<1> QED BY <1>17 DEF q, r, i, List!Without

\* Nothing is left.
LEMMA ClearStands ==
    ASSUME NEW p, ListInv(p)
    PROVE  LET q == Cleared(p) IN
           /\ Stands(q, <<>>, <<>>)
           /\ q.current = NULL /\ q.play_mode = p.play_mode /\ PlayedEntries(q) = {}
<1>p. p \in PlaylistType
    BY DEF ListInv
<1> DEFINE q == Cleared(p)
<1>1. ListInv(q)
    BY ClearKeepsList
<1>2. q \in PlaylistType
    BY <1>1 DEF ListInv
<1>3. /\ q.queue_start = NULL /\ q.current = NULL /\ q.first = NULL
      /\ q.live = p.live \ Linked(p) /\ q.play_mode = p.play_mode
    BY <1>p, <1>2 DEF Cleared, Free, PlaylistType
<1> HIDE DEF q
<1>4. PlayedEntries(q) = {}
    BY <1>3, AllSelectable DEF PlayedEntries
<1>5. q.next \in [Entry -> Pointer] /\ q.next_in_queue \in [Entry -> Pointer]
    BY <1>2, FieldTypes
<1>6. ASSUME NEW link \in [Entry -> Pointer] PROVE Walk(<<>>, NULL, link)
    BY DEF Walk, InOrder
<1>7. Stands(q, <<>>, <<>>)
    BY <1>3, <1>5, <1>6 DEF Stands
<1> QED BY <1>3, <1>4, <1>7 DEF q

\* The marks are gone, and nothing else.
LEMMA ResetStands ==
    ASSUME NEW p, ListInv(p), NEW s, NEW t, Stands(p, s, t)
    PROVE  LET q == ResetRandom(p) IN
           /\ Stands(q, s, t) /\ Alike(q, p) /\ PlayedEntries(q) = {}
<1>p. p \in PlaylistType /\ Linked(p) = p.live /\ p.live \in SUBSET Entry
    BY AllSelectable DEF ListInv, Chain
<1> DEFINE q == ResetRandom(p)
<1>1. ListInv(q)
    BY ResetKeepsList
<1>2. q \in PlaylistType
    BY <1>1 DEF ListInv
<1>3. /\ q.queue_start = p.queue_start /\ q.current = p.current /\ q.first = p.first
      /\ q.next = p.next /\ q.next_in_queue = p.next_in_queue /\ q.queue_pos = p.queue_pos
      /\ q.live = p.live /\ q.play_mode = p.play_mode
      /\ q.played = [e \in Entry |-> e \notin Linked(p) /\ p.played[e]]
    BY <1>p, <1>2 DEF ResetRandom, PlaylistType
<1> HIDE DEF q
<1>4. PlayedEntries(q) = {}
    BY <1>3, <1>p DEF PlayedEntries
<1>5. Stands(q, s, t)
    BY <1>3, SameStands
<1>6. Stands(q, s, t) /\ Alike(q, p) /\ PlayedEntries(q) = {}
    BY <1>3, <1>4, <1>5 DEF Alike
<1> QED BY <1>6 DEF q

\* An entry becomes current, marked in the random modes, or none does.
LEMMA SetCurrentStands ==
    ASSUME NEW p, ListInv(p), NEW s, NEW t, Stands(p, s, t), NEW e \in p.live \cup {NULL}
    PROVE  LET q == SetCurrent(p, e) IN
           /\ Stands(q, s, t) /\ q.current = e /\ q.play_mode = p.play_mode
           /\ PlayedEntries(q) = IF e # NULL /\ p.play_mode \in RandomMode
                                 THEN PlayedEntries(p) \cup {e} ELSE PlayedEntries(p)
<1>p. p \in PlaylistType /\ p.live \in SUBSET Entry /\ p.played \in [Entry -> BOOLEAN]
    BY FieldTypes DEF ListInv, Chain
<1> DEFINE q == SetCurrent(p, e)
<1>1. ListInv(q)
    BY SetCurrentKeepsList
<1>2. q \in PlaylistType
    BY <1>1 DEF ListInv
<1>3. /\ q.queue_start = p.queue_start /\ q.current = e /\ q.first = p.first
      /\ q.next = p.next /\ q.next_in_queue = p.next_in_queue /\ q.queue_pos = p.queue_pos
      /\ q.live = p.live /\ q.play_mode = p.play_mode
      /\ q.played = IF e = NULL THEN p.played
                    ELSE Set(p.played, e, p.played[e] \/ p.play_mode \in RandomMode)
    <2>1. CASE e = NULL
        BY <1>p, <1>2, <2>1 DEF SetCurrent, PlaylistType
    <2>2. CASE e # NULL
        BY <1>p, <1>2, <2>2 DEF SetCurrent, PlaylistType
    <2> QED BY <2>1, <2>2
<1> HIDE DEF q
<1>4. Stands(q, s, t)
    BY <1>3, SameStands
<1>5. PlayedEntries(q) = IF e # NULL /\ p.play_mode \in RandomMode
                         THEN PlayedEntries(p) \cup {e} ELSE PlayedEntries(p)
    <2>1. CASE e = NULL
        BY <2>1, <1>3 DEF PlayedEntries
    <2>2. CASE e # NULL /\ p.play_mode \in RandomMode
        <3>1. \A x \in p.live : q.played[x] <=> x = e \/ p.played[x]
            BY <2>2, <1>3, <1>p DEF Set
        <3> QED BY <2>2, <3>1, <1>3 DEF PlayedEntries
    <2>3. CASE e # NULL /\ p.play_mode \notin RandomMode
        <3>1. \A x \in p.live : q.played[x] <=> p.played[x]
            BY <2>3, <1>3, <1>p DEF Set
        <3> QED BY <2>3, <3>1, <1>3 DEF PlayedEntries
    <2> QED BY <2>1, <2>2, <2>3
<1>6. /\ Stands(q, s, t) /\ q.current = e /\ q.play_mode = p.play_mode
      /\ PlayedEntries(q) = IF e # NULL /\ p.play_mode \in RandomMode
                            THEN PlayedEntries(p) \cup {e} ELSE PlayedEntries(p)
    BY <1>3, <1>4, <1>5
<1> QED BY <1>6 DEF q

\* An entry becomes current without a mark, if there is one.
LEMMA MoveToStands ==
    ASSUME NEW p, ListInv(p), NEW s, NEW t, Stands(p, s, t), NEW e \in p.live \cup {NULL}
    PROVE  LET r == MoveTo(p, e) IN
           /\ r.found = (e # NULL)
           /\ Stands(r.pl, s, t) /\ r.pl.current = IF e = NULL THEN p.current ELSE e
           /\ r.pl.play_mode = p.play_mode /\ PlayedEntries(r.pl) = PlayedEntries(p)
<1>p. p \in PlaylistType /\ p.live \cup {NULL} \subseteq Pointer
    BY DEF ListInv, Chain, Pointer
<1>1. CASE e = NULL
    BY <1>1 DEF MoveTo, NotFound
<1>2. CASE e # NULL
    <2> DEFINE q == [p EXCEPT !.current = e]
    <2>1. MoveTo(p, e) = [found |-> TRUE, pl |-> q]
        BY <1>2 DEF MoveTo, Found
    <2>3. /\ q.queue_start = p.queue_start /\ q.current = e /\ q.first = p.first
          /\ q.next = p.next /\ q.next_in_queue = p.next_in_queue /\ q.queue_pos = p.queue_pos
          /\ q.live = p.live /\ q.play_mode = p.play_mode /\ q.played = p.played
        BY <1>p DEF PlaylistType
    <2> HIDE DEF q
    <2>4. Stands(q, s, t)
        BY <2>3, SameStands
    <2>5. PlayedEntries(q) = PlayedEntries(p)
        BY <2>3 DEF PlayedEntries
    <2>6. MoveTo(p, e).found = TRUE /\ MoveTo(p, e).pl = q
        BY <2>1
    <2>7. (e # NULL) = TRUE
        BY <1>2
    <2>8. MoveTo(p, e).found = (e # NULL)
        BY <2>6, <2>7
    <2> QED BY <1>2, <2>3, <2>4, <2>5, <2>6, <2>8
<1> QED BY <1>1, <1>2

-----------------------------------------------------------------------------
(* What playlist_next finds is what the list of tracks allows *)

\* The outcome r of playlist_next or of what is built on it, for the player with the list pl.
Advances(q, t, u) ==
    /\ t # <<>> => /\ q.current = Head(t) /\ u = Tail(t)
                   /\ PlayedEntries(q) = PlayedEntries(pl)
    /\ t = <<>> => /\ u = t /\ q.current \in List!Followers
                   /\ PlayedEntries(q) \in IF List!Random THEN List!Mark(PlayedEntries(pl), q.current)
                                                          ELSE {PlayedEntries(pl)}

GivesUp(q, t, u) ==
    /\ t = <<>> /\ u = t /\ q.current = pl.current
    /\ List!Followers = {} \/ List!Random
    /\ PlayedEntries(q) \in {PlayedEntries(pl)} \cup (IF pl.play_mode = "random_repeat" THEN {{}} ELSE {})

Goes(r, t, u) == IF r.found THEN Advances(r.pl, t, u) ELSE GivesUp(r.pl, t, u)

\* The tracks that may follow, in terms of the links.
LEMMA FollowersAre ==
    ASSUME ListInv(pl), QueueInv(pl), NEW s, NEW t, Stands(pl, s, t)
    PROVE  /\ List!Random <=> pl.play_mode \in RandomMode
           /\ pl.first = NULL => List!Followers = {}
           /\ pl.first # NULL /\ pl.play_mode \in RandomMode => List!Followers = pl.live \ PlayedEntries(pl)
           /\ pl.first # NULL /\ pl.play_mode \notin RandomMode =>
                /\ pl.current = NULL => List!Followers = {pl.first}
                /\ pl.current # NULL =>
                    /\ pl.play_mode = "repeat_1" => List!Followers = {pl.current}
                    /\ pl.play_mode # "repeat_1" =>
                        /\ pl.next[pl.current] # NULL => List!Followers = {pl.next[pl.current]}
                        /\ pl.next[pl.current] = NULL =>
                                /\ pl.play_mode = "repeat_all" => List!Followers = {pl.first}
                                /\ pl.play_mode # "repeat_all" => List!Followers = {}
<1>1. /\ Sequence(pl.first, pl.next) = s /\ List!ToSet(s) = pl.live
    BY StandsFor
<1>2. List!Random <=> pl.play_mode \in RandomMode
    BY DEF List!Random, RandomMode
<1>3. s = <<>> <=> pl.first = NULL
    BY WalkSteps DEF Stands
<1>4. s # <<>> => pl.first = s[1]
    <2>1. Walk(s, pl.first, pl.next)
        BY DEF Stands
    <2> QED BY <2>1 DEF Walk, InOrder
<1>5. pl.current # NULL => pl.current \in pl.live
    BY DEF QueueInv
<1>6. pl.current # NULL =>
        /\ pl.next[pl.current] = NULL => pl.current = List!Last(s)
        /\ pl.next[pl.current] # NULL => /\ pl.current # List!Last(s)
                                         /\ pl.next[pl.current] = s[List!Position(s, pl.current) + 1]
    BY <1>5, Neighbours
<1>7. PlayedEntries(pl) = {e \in pl.live : pl.played[e]}
    BY DEF PlayedEntries
<1>8. List!Followers = IF s = <<>> THEN {}
                       ELSE IF List!Random THEN pl.live \ PlayedEntries(pl)
                       ELSE IF pl.current = NULL THEN {s[1]}
                       ELSE IF pl.play_mode = "repeat_1" THEN {pl.current}
                       ELSE IF pl.current # List!Last(s) THEN {s[List!Position(s, pl.current) + 1]}
                       ELSE IF pl.play_mode = "repeat_all" THEN {s[1]}
                       ELSE {}
    BY <1>1, <1>7 DEF List!Followers
<1> QED BY <1>2, <1>3, <1>4, <1>5, <1>6, <1>8

\* playlist_next plays the head of the queue, or a track that may follow; or it finds none.
LEMMA NextIs ==
    ASSUME ListInv(pl), QueueInv(pl), NEW s, NEW t, Stands(pl, s, t), NEW r \in PlaylistNext(pl)
    PROVE  \E u : Stands(r.pl, s, u) /\ r.pl.play_mode = pl.play_mode /\ Goes(r, t, u)
<1>q. pl.queue_start = NULL <=> t = <<>>
    <2>1. Walk(t, pl.queue_start, pl.next_in_queue)
        BY DEF Stands
    <2> QED BY <2>1, WalkSteps
<1>1. CASE pl.queue_start # NULL
    <2>1. r = [found |-> TRUE, pl |-> FromQueue(pl)]
        BY <1>1 DEF PlaylistNext, Found
    <2>2. /\ t # <<>> /\ FromQueue(pl).current = Head(t)
          /\ Stands(FromQueue(pl), s, Tail(t))
          /\ FromQueue(pl).play_mode = pl.play_mode
          /\ PlayedEntries(FromQueue(pl)) = PlayedEntries(pl)
        BY <1>1, FromQueueStands
    <2>3. r.found /\ r.pl = FromQueue(pl)
        BY <2>1
    <2>4. Stands(r.pl, s, Tail(t)) /\ r.pl.play_mode = pl.play_mode /\ Goes(r, t, Tail(t))
        BY <2>2, <2>3 DEF Goes, Advances
    <2> QED BY <2>4
<1>2. CASE pl.queue_start = NULL /\ pl.play_mode \in RandomMode
    <2>1. r \in NextRandom(pl) /\ t = <<>> /\ List!Random
        BY <1>2, <1>q, FollowersAre DEF PlaylistNext
    <2>2. ASSUME NEW q, ListInv(q), Stands(q, s, t), q.play_mode = pl.play_mode, NEW b \in BOOLEAN,
                 r = StartOver([found |-> b, pl |-> q])
          PROVE  /\ r.found = b /\ Stands(r.pl, s, t) /\ Alike(r.pl, q)
                 /\ PlayedEntries(r.pl) \in
                        {PlayedEntries(q)} \cup (IF pl.play_mode = "random_repeat" THEN {{}} ELSE {})
        <3>1. CASE q.play_mode = "random_repeat" /\ q.played_items >= q.length
            <4>1. r = [found |-> b, pl |-> ResetRandom(q)]
                BY <2>2, <3>1 DEF StartOver
            <4>2. /\ Stands(ResetRandom(q), s, t) /\ Alike(ResetRandom(q), q)
                  /\ PlayedEntries(ResetRandom(q)) = {}
                BY <2>2, ResetStands
            <4> QED BY <2>2, <3>1, <4>1, <4>2
        <3>2. CASE ~(q.play_mode = "random_repeat" /\ q.played_items >= q.length)
            <4>1. r = [found |-> b, pl |-> q]
                BY <2>2, <3>2 DEF StartOver
            <4> QED BY <2>2, <4>1 DEF Alike
        <3> QED BY <3>1, <3>2
    <2>3. CASE pl.played_items < pl.length
        <3>1. PICK e \in Unplayed(pl) : r = StartOver([found |-> TRUE, pl |-> SetCurrent(pl, e)])
            BY <2>1, <2>3 DEF NextRandom, Found
        <3>2. e \in pl.live /\ e \notin PlayedEntries(pl)
            BY AllSelectable DEF Unplayed, PlayedEntries
        <3>3. e # NULL
            BY <3>2, EntryAssumption DEF ListInv, Chain
        <3>4. ListInv(SetCurrent(pl, e))
            BY <3>2, SetCurrentKeepsList
        <3>5. /\ Stands(SetCurrent(pl, e), s, t) /\ SetCurrent(pl, e).current = e
              /\ SetCurrent(pl, e).play_mode = pl.play_mode
              /\ PlayedEntries(SetCurrent(pl, e)) = PlayedEntries(pl) \cup {e}
            BY <1>2, <3>2, <3>3, SetCurrentStands
        <3>6. /\ r.found = TRUE /\ Stands(r.pl, s, t) /\ Alike(r.pl, SetCurrent(pl, e))
              /\ PlayedEntries(r.pl) \in
                    {PlayedEntries(pl) \cup {e}} \cup (IF pl.play_mode = "random_repeat" THEN {{}} ELSE {})
            BY <2>2, <3>1, <3>4, <3>5
        <3>7. e \in List!Followers
            <4>1. pl.first # NULL
                BY <3>2, Neighbours
            <4> QED BY <1>2, <3>2, <4>1, FollowersAre
        <3>8. PlayedEntries(r.pl) \in List!Mark(PlayedEntries(pl), e)
            BY <3>6 DEF List!Mark
        <3> QED BY <2>1, <3>5, <3>6, <3>7, <3>8 DEF Alike, Goes, Advances
    <2>4. CASE ~(pl.played_items < pl.length)
        <3>1. r = StartOver([found |-> FALSE, pl |-> pl])
            BY <2>1, <2>4 DEF NextRandom, NotFound
        <3>2. /\ r.found = FALSE /\ Stands(r.pl, s, t) /\ Alike(r.pl, pl)
              /\ PlayedEntries(r.pl) \in
                    {PlayedEntries(pl)} \cup (IF pl.play_mode = "random_repeat" THEN {{}} ELSE {})
            BY <2>2, <3>1
        <3> QED BY <2>1, <3>2 DEF Alike, Goes, GivesUp
    <2> QED BY <2>3, <2>4
<1>3. CASE pl.queue_start = NULL /\ pl.play_mode \notin RandomMode
    <2>1. /\ pl.first \in pl.live \cup {NULL} /\ pl.current \in pl.live \cup {NULL}
          /\ pl.current # NULL => pl.next[pl.current] \in pl.live \cup {NULL} /\ pl.first # NULL
        BY Neighbours DEF ListInv, Chain, QueueInv
    <2>2. pl.play_mode \in {"continue", "repeat_all", "repeat_1"}
        BY <1>3 DEF ListInv, PlaylistType, PlayMode, RandomMode
    <2>3. PICK e \in pl.live \cup {NULL} :
            /\ r = MoveTo(pl, e)
            /\ e # NULL => e \in List!Followers
            /\ e = NULL => List!Followers = {}
        <3> DEFINE F == List!Followers
        <3>1. /\ pl.first = NULL => F = {}
              /\ pl.first # NULL =>
                /\ pl.current = NULL => F = {pl.first}
                /\ pl.current # NULL =>
                    /\ pl.play_mode = "repeat_1" => F = {pl.current}
                    /\ pl.play_mode # "repeat_1" =>
                        /\ pl.next[pl.current] # NULL => F = {pl.next[pl.current]}
                        /\ pl.next[pl.current] = NULL =>
                                /\ pl.play_mode = "repeat_all" => F = {pl.first}
                                /\ pl.play_mode # "repeat_all" => F = {}
            BY <1>3, FollowersAre
        <3> HIDE DEF F
        <3>2. CASE pl.play_mode = "continue"
            <4>1. r = MoveTo(pl, Following(pl))
                BY <1>3, <3>2 DEF PlaylistNext
            <4>2. Following(pl) \in pl.live \cup {NULL}
                BY <2>1 DEF Following
            <4>3. /\ Following(pl) # NULL => Following(pl) \in F
                  /\ Following(pl) = NULL => F = {}
                BY <2>1, <3>1, <3>2 DEF Following
            <4> QED BY <4>1, <4>2, <4>3 DEF F
        <3>3. CASE pl.play_mode = "repeat_all"
            <4> DEFINE e == IF Following(pl) = NULL THEN pl.first ELSE Following(pl)
            <4>1. r = MoveTo(pl, e)
                BY <1>3, <3>3 DEF PlaylistNext, RoundAgain
            <4>2. e \in pl.live \cup {NULL}
                BY <2>1 DEF Following
            <4>3. (e # NULL => e \in F) /\ (e = NULL => F = {})
                BY <2>1, <3>1, <3>3 DEF Following
            <4> HIDE DEF e
            <4> QED BY <4>1, <4>2, <4>3 DEF F
        <3>4. CASE pl.play_mode = "repeat_1"
            <4> DEFINE e == IF pl.current = NULL THEN pl.first ELSE pl.current
            <4>1. r = MoveTo(pl, e)
                BY <1>3, <3>4 DEF PlaylistNext, RandomMode
            <4>2. e \in pl.live \cup {NULL}
                BY <2>1
            <4>3. (e # NULL => e \in F) /\ (e = NULL => F = {})
                BY <2>1, <3>1, <3>4
            <4> HIDE DEF e
            <4> QED BY <4>1, <4>2, <4>3 DEF F
        <3> QED BY <2>2, <3>2, <3>3, <3>4
    <2>4. /\ r.found = (e # NULL)
          /\ Stands(r.pl, s, t) /\ r.pl.current = IF e = NULL THEN pl.current ELSE e
          /\ r.pl.play_mode = pl.play_mode /\ PlayedEntries(r.pl) = PlayedEntries(pl)
        BY <2>3, MoveToStands
    <2>5. t = <<>> /\ ~List!Random
        BY <1>3, <1>q, FollowersAre
    <2>6. Goes(r, t, t)
        BY <2>3, <2>4, <2>5 DEF Goes, Advances, GivesUp
    <2> QED BY <2>4, <2>6
<1> QED BY <1>1, <1>2, <1>3

-----------------------------------------------------------------------------
(* Every operation is one of the list of tracks, or changes nothing there *)

\* The state of the list of tracks before and after an operation.
Before(s, t) ==
    /\ Sequence(pl.first, pl.next) = s /\ Sequence(pl.queue_start, pl.next_in_queue) = t
    /\ {e \in pl.live : pl.played[e]} = PlayedEntries(pl)
    /\ List!ToSet(s) = pl.live /\ List!ToSet(t) = Queued(pl)

After(s, t) ==
    /\ Sequence(pl'.first, pl'.next) = s /\ Sequence(pl'.queue_start, pl'.next_in_queue) = t
    /\ {e \in pl'.live : pl'.played[e]} = PlayedEntries(pl')

\* So the mapping sees the sequences, the marks and the tracks of the playlist,
LEMMA BeforeIs ==
    ASSUME ListInv(pl), NEW s, NEW t, Stands(pl, s, t)
    PROVE  Before(s, t)
BY StandsFor DEF Before, PlayedEntries

\* and those of the playlist that the operation leaves.
LEMMA AfterIs ==
    ASSUME ListInv(pl'), NEW s, NEW t, Stands(pl', s, t)
    PROVE  After(s, t)
BY StandsFor DEF After, PlayedEntries

\* What every step is taken from: the invariants before it, the list after it.
Between(s, t) ==
    Careful /\ ListInv(pl) /\ ListInv(pl') /\ QueueInv(pl) /\ playing \in BOOLEAN /\ Stands(pl, s, t)

Refined == List!Next /\ \E u, v : Stands(pl', u, v)

\* Add appends a track that is new.
LEMMA AddRefines == ASSUME NEW s, NEW t, Between(s, t), Add PROVE Refined
<1> USE DEF Between
<1>1. PICK e \in New : pl' \in AddItem(pl, e, TRUE)
    BY DEF Add, Sound, Careful
<1>2. e \in Entry \ pl.live
    BY DEF New
<1>3. /\ Stands(pl', Append(s, e), t) /\ Alike(pl', pl)
      /\ PlayedEntries(pl') = PlayedEntries(pl)
    BY <1>1, <1>2, AddStands
<1>4. Before(s, t) /\ After(Append(s, e), t)
    BY <1>3, BeforeIs, AfterIs
<1>5. List!Add
    BY <1>2, <1>3, <1>4 DEF Before, After, Alike, List!Add, List!NewTrack
<1> QED BY <1>3, <1>5 DEF List!Next, Refined

\* Insert puts a new track behind the selected one.
LEMMA InsertRefines == ASSUME NEW s, NEW t, Between(s, t), Insert PROVE Refined
<1> USE DEF Between
<1>1. PICK d \in pl.live, e \in New : pl.next[d] # NULL /\ pl' \in InsertItemAfter(pl, d, e)
    BY AllSelectable DEF Insert, Sound, Careful
<1>2. e \in Entry \ pl.live
    BY DEF New
<1> DEFINE i == List!Position(s, d)
           r == List!InsertAt(s, i + 1, e)
<1>3. /\ Stands(pl', r, t) /\ Alike(pl', pl)
      /\ PlayedEntries(pl') = PlayedEntries(pl)
    BY <1>1, <1>2, InsertStands
<1>4. i \in DOMAIN s
    <2>1. Walk(s, pl.first, pl.next) /\ Entries(s) = pl.live
        BY StandsFor DEF Stands
    <2> QED BY <2>1, WhereIs, WalkSteps
<1>5. Before(s, t) /\ After(r, t)
    BY <1>3, BeforeIs, AfterIs
<1> HIDE DEF i
<1>6. List!InsertAfter
    BY <1>2, <1>3, <1>4, <1>5 DEF Before, After, Alike, List!InsertAfter, List!NewTrack
<1> QED BY <1>3, <1>6 DEF List!Next, Refined

\* Clear leaves nothing of list, queue and marks.
LEMMA ClearRefines == ASSUME NEW s, NEW t, Between(s, t), Clear PROVE Refined
<1> USE DEF Between
<1>1. /\ Stands(pl', <<>>, <<>>)
      /\ pl'.current = NULL /\ pl'.play_mode = pl.play_mode /\ PlayedEntries(pl') = {}
    BY ClearStands DEF Clear
<1>2. Before(s, t) /\ After(<<>>, <<>>)
    BY <1>1, BeforeIs, AfterIs
<1>3. List!Clear
    BY <1>1, <1>2 DEF Before, After, List!Clear
<1> QED BY <1>1, <1>3 DEF List!Next, Refined

\* Enqueue adds a track to the queue or takes it out; a track whose number nobody set changes
\* nothing.
LEMMA EnqueueRefines ==
    ASSUME NEW s, NEW t, Between(s, t), Enqueue
    PROVE  (List!Next \/ UNCHANGED List!vars) /\ \E u, v : Stands(pl', u, v)
<1> USE DEF Between
<1>1. PICK e \in pl.live : pl' = EntryEnqueue(pl, e)
    BY AllSelectable DEF Enqueue
<1>b. Before(s, t) /\ Entries(t) = Queued(pl)
    BY BeforeIs, StandsFor
<1>2. CASE pl.queue_pos[e] = 0
    <2>1. /\ e \notin Entries(t) /\ Stands(pl', s, Append(t, e)) /\ Alike(pl', pl)
          /\ PlayedEntries(pl') = PlayedEntries(pl)
        BY <1>1, <1>2, EnqueuedStands
    <2>2. After(s, Append(t, e))
        BY <2>1, AfterIs
    <2>3. List!Enqueue
        BY <1>b, <2>1, <2>2 DEF Before, After, Alike, List!Enqueue
    <2> QED BY <2>1, <2>3 DEF List!Next
<1>3. CASE e \in Entries(t)
    <2>1. /\ Stands(pl', s, List!Without(t, e)) /\ Alike(pl', pl)
          /\ PlayedEntries(pl') = PlayedEntries(pl)
        BY <1>1, <1>3, DequeuedStands
    <2>2. After(s, List!Without(t, e))
        BY <2>1, AfterIs
    <2>3. List!Enqueue
        BY <1>b, <1>3, <2>1, <2>2 DEF Before, After, Alike, List!Enqueue
    <2> QED BY <2>1, <2>3 DEF List!Next
<1>4. CASE pl.queue_pos[e] # 0 /\ e \notin Entries(t)
    <2>1. pl' = pl
        BY <1>1, <1>4, <1>b DEF EntryEnqueue, Dequeued
    <2>2. UNCHANGED List!vars
        BY <2>1 DEF List!vars
    <2>3. Stands(pl', s, t)
        BY <2>1
    <2> QED BY <2>2, <2>3
<1> QED BY <1>2, <1>3, <1>4

\* The mode goes round in the order of the list of tracks.
LEMMA CycleModeRefines == ASSUME NEW s, NEW t, Between(s, t), CycleMode PROVE Refined
<1> USE DEF Between
<1>p. pl \in PlaylistType /\ pl.play_mode \in PlayMode
    BY DEF ListInv, PlaylistType
<1>0. pl' = [pl EXCEPT !.play_mode = ModeAfter[pl.play_mode]]
    BY DEF CycleMode
<1>1. /\ pl'.first = pl.first /\ pl'.next = pl.next /\ pl'.queue_start = pl.queue_start
      /\ pl'.next_in_queue = pl.next_in_queue /\ pl'.queue_pos = pl.queue_pos
      /\ pl'.current = pl.current /\ pl'.live = pl.live /\ pl'.played = pl.played
      /\ pl'.play_mode = ModeAfter[pl.play_mode]
    BY <1>0, <1>p DEF PlaylistType
<1>2. Stands(pl', s, t) /\ PlayedEntries(pl') = PlayedEntries(pl)
    BY <1>1, SameStands DEF PlayedEntries
<1>3. Before(s, t) /\ After(s, t)
    BY <1>2, BeforeIs, AfterIs
<1>4. \E i \in DOMAIN List!Modes : pl.play_mode = List!Modes[i]
                                   /\ pl'.play_mode = List!Modes[1 + (i % Len(List!Modes))]
    <2> DEFINE M == List!Modes
    <2>0. DOMAIN M = 1 .. 5 /\ Len(M) = 5 /\ M[1] = "continue" /\ M[2] = "repeat_all"
          /\ M[3] = "repeat_1" /\ M[4] = "random" /\ M[5] = "random_repeat"
        BY DEF List!Modes
    <2> HIDE DEF M
    <2>1. CASE pl.play_mode = "continue"
        <3>1. pl'.play_mode = M[1 + (1 % 5)]
            BY <1>1, <2>0, <2>1 DEF ModeAfter
        <3> QED BY <2>0, <2>1, <3>1 DEF M
    <2>2. CASE pl.play_mode = "repeat_all"
        <3>1. pl'.play_mode = M[1 + (2 % 5)]
            BY <1>1, <2>0, <2>2 DEF ModeAfter
        <3> QED BY <2>0, <2>2, <3>1 DEF M
    <2>3. CASE pl.play_mode = "repeat_1"
        <3>1. pl'.play_mode = M[1 + (3 % 5)]
            BY <1>1, <2>0, <2>3 DEF ModeAfter
        <3> QED BY <2>0, <2>3, <3>1 DEF M
    <2>4. CASE pl.play_mode = "random"
        <3>1. pl'.play_mode = M[1 + (4 % 5)]
            BY <1>1, <2>0, <2>4 DEF ModeAfter
        <3> QED BY <2>0, <2>4, <3>1 DEF M
    <2>5. CASE pl.play_mode = "random_repeat"
        <3>1. pl'.play_mode = M[1 + (5 % 5)]
            BY <1>1, <2>0, <2>5 DEF ModeAfter
        <3> QED BY <2>0, <2>5, <3>1 DEF M
    <2> QED BY <1>p, <2>1, <2>2, <2>3, <2>4, <2>5 DEF PlayMode
<1>5. List!CycleMode
    BY <1>1, <1>2, <1>3, <1>4 DEF Before, After, List!CycleMode
<1> QED BY <1>2, <1>5 DEF List!Next, Refined

\* The question before a deletion makes the random modes start over.
LEMMA AskDeleteRefines == ASSUME NEW s, NEW t, Between(s, t), AskDelete PROVE Refined
<1> USE DEF Between
<1>1. pl.play_mode \in RandomMode /\ pl' = ResetRandom(pl)
    BY DEF AskDelete
<1>2. /\ Stands(pl', s, t) /\ Alike(pl', pl) /\ PlayedEntries(pl') = {}
    BY <1>1, ResetStands
<1>3. Before(s, t) /\ After(s, t)
    BY <1>2, BeforeIs, AfterIs
<1>4. List!StartOver
    BY <1>1, <1>2, <1>3 DEF Before, After, Alike, List!StartOver, List!Random, RandomMode
<1> QED BY <1>2, <1>4 DEF List!Next, Refined

\* gmu_core_stop: nothing is current and nothing counts as played.
LEMMA StoppedStands ==
    ASSUME NEW p, ListInv(p), NEW s, NEW t, Stands(p, s, t)
    PROVE  LET q == Stopped(p, TRUE) IN
           /\ Stands(q, s, t) /\ q.current = NULL /\ q.play_mode = p.play_mode
           /\ PlayedEntries(q) = {}
<1> DEFINE r == ResetRandom(p)
<1>1. ListInv(r) /\ Stands(r, s, t) /\ r.play_mode = p.play_mode /\ PlayedEntries(r) = {}
    BY ResetKeepsList, ResetStands DEF Alike
<1> HIDE DEF r
<1>2. /\ Stands(SetCurrent(r, NULL), s, t) /\ SetCurrent(r, NULL).current = NULL
      /\ SetCurrent(r, NULL).play_mode = p.play_mode /\ PlayedEntries(SetCurrent(r, NULL)) = {}
    BY <1>1, SetCurrentStands
<1> QED BY <1>2 DEF Stopped, r

\* What playlist_next does to the playlist is a step to the next track.
LEMMA GoesRefines ==
    ASSUME NEW s, NEW t, Between(s, t), NEW r, NEW u,
           pl' = r.pl, Stands(pl', s, u), pl'.play_mode = pl.play_mode, Goes(r, t, u)
    PROVE  List!NextTrack
<1>1. Before(s, t) /\ After(s, u)
    BY BeforeIs, AfterIs DEF Between
<1>2. CASE r.found
    <2>1. Advances(pl', t, u)
        BY <1>2 DEF Goes
    <2>2. List!Advance
        BY <1>1, <2>1 DEF Before, After, Advances, List!Advance
    <2> QED BY <1>1, <2>2 DEF Before, After, List!NextTrack
<1>3. CASE ~r.found
    <2>1. GivesUp(pl', t, u)
        BY <1>3 DEF Goes
    <2>2. List!NoFollower
        BY <1>1, <2>1 DEF Before, GivesUp, List!NoFollower
    <2> QED BY <1>1, <2>1, <2>2 DEF Before, After, GivesUp, List!NextTrack
<1> QED BY <1>2, <1>3

\* The next key goes to the next track, or nowhere.
LEMMA NextTrackRefines == ASSUME NEW s, NEW t, Between(s, t), NextTrack PROVE Refined
<1>1. PICK r \in PlaylistNext(pl) : pl' = r.pl
    BY DEF NextTrack
<1>2. PICK u : Stands(r.pl, s, u) /\ r.pl.play_mode = pl.play_mode /\ Goes(r, t, u)
    BY NextIs DEF Between
<1>3. List!NextTrack
    BY <1>1, <1>2, GoesRefines
<1> QED BY <1>1, <1>2, <1>3 DEF Refined, List!Next

\* So does the end of a track, or playing stops.
LEMMA TrackEndsRefines == ASSUME NEW s, NEW t, Between(s, t), TrackEnds PROVE Refined
<1>1. PICK r \in PlaylistNext(pl) : pl' = IF r.found THEN r.pl ELSE Stopped(r.pl, playing)
    BY DEF TrackEnds, NextOrStop
<1>2. PICK u : Stands(r.pl, s, u) /\ r.pl.play_mode = pl.play_mode /\ Goes(r, t, u)
    BY NextIs DEF Between
<1>3. CASE r.found \/ ~playing
    <2>1. pl' = r.pl
        BY <1>1, <1>3 DEF Stopped
    <2>2. List!NextTrack
        BY <1>2, <2>1, GoesRefines
    <2> QED BY <1>2, <2>1, <2>2 DEF Refined, List!Next, List!TrackEnds
<1>4. CASE ~r.found /\ playing
    <2>1. pl' = Stopped(r.pl, TRUE)
        BY <1>1, <1>4 DEF Between
    <2>2. ListInv(r.pl)
        BY NextKeepsList DEF Kept, Between
    <2>3. /\ Stands(pl', s, u) /\ pl'.current = NULL /\ pl'.play_mode = pl.play_mode
          /\ PlayedEntries(pl') = {}
        BY <1>2, <2>1, <2>2, StoppedStands
    <2>4. Before(s, t) /\ After(s, u)
        BY <2>3, BeforeIs, AfterIs DEF Between
    <2>5. GivesUp(r.pl, t, u)
        BY <1>2, <1>4 DEF Goes
    <2>6. List!NoFollower
        BY <2>4, <2>5 DEF Before, GivesUp, List!NoFollower
    <2>7. List!Stop
        BY <2>3, <2>4, <2>5 DEF Before, After, GivesUp, List!Stop
    <2> QED BY <2>3, <2>6, <2>7 DEF Refined, List!Next, List!TrackEnds
<1> QED BY <1>3, <1>4 DEF Between

\* The previous key goes to the track before, round to the last one, or nowhere.
LEMMA PreviousRefines ==
    ASSUME NEW s, NEW t, Between(s, t), PreviousTrack
    PROVE  (List!Next \/ UNCHANGED List!vars) /\ \E u, v : Stands(pl', u, v)
<1> USE DEF Between
<1> DEFINE c == pl.current
<1>0. pl' = PlaylistPrev(pl).pl
    BY DEF PreviousTrack
<1>1. CASE pl' = pl
    <2>1. UNCHANGED List!vars
        BY <1>1 DEF List!vars
    <2>2. Stands(pl', s, t)
        BY <1>1
    <2> QED BY <2>1, <2>2
<1>2. CASE pl' # pl
    <2>0. /\ c # NULL /\ pl.play_mode \notin RandomMode /\ pl.play_mode # "repeat_1"
          /\ \/ /\ pl.play_mode = "repeat_all" /\ pl.prev[c] = NULL
                /\ pl' = [pl EXCEPT !.current = pl.last]
             \/ pl.prev[c] # NULL /\ pl' = MoveTo(pl, pl.prev[c]).pl
        BY <1>0, <1>2 DEF PlaylistPrev, Found, NotFound, MoveTo
    <2>1. c \in pl.live
        BY <2>0 DEF QueueInv
    <2>2. /\ pl.last = List!Last(s) /\ pl.last # NULL
          /\ pl.prev[c] = NULL => List!Position(s, c) = 1
          /\ pl.prev[c] # NULL => List!Position(s, c) > 1 /\ pl.prev[c] = s[List!Position(s, c) - 1]
        BY <2>1, Neighbours
    <2>3. pl.last \in pl.live \cup {NULL} /\ pl.prev[c] \in pl.live \cup {NULL}
        BY <2>1 DEF ListInv, Chain
    <2>4. PICK e \in pl.live \cup {NULL} :
            /\ e # NULL /\ pl' = MoveTo(pl, e).pl
            /\ \/ List!Position(s, c) > 1 /\ e = s[List!Position(s, c) - 1]
               \/ List!Position(s, c) = 1 /\ pl.play_mode = "repeat_all" /\ e = List!Last(s)
        BY <2>0, <2>2, <2>3 DEF MoveTo, Found
    <2>5. /\ Stands(pl', s, t) /\ pl'.current = e
          /\ pl'.play_mode = pl.play_mode /\ PlayedEntries(pl') = PlayedEntries(pl)
        BY <2>4, MoveToStands
    <2>6. Before(s, t) /\ After(s, t)
        BY <2>5, BeforeIs, AfterIs
    <2>7. ~List!Random
        BY <2>0 DEF List!Random, RandomMode
    <2>8. List!Previous
        BY <2>0, <2>4, <2>5, <2>6, <2>7 DEF Before, After, List!Previous
    <2> QED BY <2>5, <2>8 DEF List!Next
<1> QED BY <1>1, <1>2

\* A track chosen by hand is current, and counts as played in the random modes.
LEMMA PlayItemRefines ==
    ASSUME NEW s, NEW t, Between(s, t), PlayItem
    PROVE  (List!Next \/ UNCHANGED List!vars) /\ \E u, v : Stands(pl', u, v)
<1> USE DEF Between
<1>1. CASE UNCHANGED pl
    <2>1. UNCHANGED List!vars
        BY <1>1 DEF List!vars
    <2>2. Stands(pl', s, t)
        BY <1>1
    <2> QED BY <2>1, <2>2
<1>2. CASE \E e \in Linked(pl) : pl' = SetCurrent(pl, e)
    <2>1. PICK e \in pl.live : pl' = SetCurrent(pl, e)
        BY <1>2, AllSelectable
    <2>2. e # NULL
        BY EntryAssumption DEF ListInv, Chain
    <2>3. /\ Stands(pl', s, t) /\ pl'.current = e /\ pl'.play_mode = pl.play_mode
          /\ PlayedEntries(pl') = IF pl.play_mode \in RandomMode
                                  THEN PlayedEntries(pl) \cup {e} ELSE PlayedEntries(pl)
        BY <2>1, <2>2, SetCurrentStands
    <2>4. Before(s, t) /\ After(s, t)
        BY <2>3, BeforeIs, AfterIs
    <2>5. List!Random <=> pl.play_mode \in RandomMode
        BY DEF List!Random, RandomMode
    <2>6. List!PlayItem
        BY <2>3, <2>4, <2>5 DEF Before, After, List!PlayItem
    <2> QED BY <2>3, <2>6 DEF List!Next
<1> QED BY <1>1, <1>2 DEF PlayItem

\* A file that is not in the list leaves no track of it current.
LEMMA PlayFileRefines == ASSUME NEW s, NEW t, Between(s, t), PlayFile PROVE Refined
<1> USE DEF Between
<1>1. /\ Stands(pl', s, t) /\ pl'.current = NULL /\ pl'.play_mode = pl.play_mode
      /\ PlayedEntries(pl') = PlayedEntries(pl)
    BY SetCurrentStands DEF PlayFile
<1>2. Before(s, t) /\ After(s, t)
    BY <1>1, BeforeIs, AfterIs
<1>3. List!PlayFile
    BY <1>1, <1>2 DEF Before, After, List!PlayFile
<1> QED BY <1>1, <1>3 DEF Refined, List!Next

\* Stopping forgets the current track and the marks; when nothing plays it changes nothing.
LEMMA StopRefines ==
    ASSUME NEW s, NEW t, Between(s, t), Stop
    PROVE  (List!Next \/ UNCHANGED List!vars) /\ \E u, v : Stands(pl', u, v)
<1> USE DEF Between
<1>1. CASE playing
    <2>0. pl' = Stopped(pl, TRUE)
        BY <1>1 DEF Stop
    <2>1. /\ Stands(pl', s, t) /\ pl'.current = NULL /\ pl'.play_mode = pl.play_mode
          /\ PlayedEntries(pl') = {}
        BY <2>0, StoppedStands
    <2>2. Before(s, t) /\ After(s, t)
        BY <2>1, BeforeIs, AfterIs
    <2>3. List!Stop
        BY <2>1, <2>2 DEF Before, After, List!Stop
    <2> QED BY <2>1, <2>3 DEF List!Next
<1>2. CASE ~playing
    <2>0. pl' = pl
        BY <1>2 DEF Stop, Stopped
    <2>1. UNCHANGED List!vars
        BY <2>0 DEF List!vars
    <2> QED BY <2>0, <2>1
<1> QED BY <1>1, <1>2

\* The selected track leaves the list; if it is the current one, playing moves on or stops first.
LEMMA RemoveRefines == ASSUME NEW s, NEW t, Between(s, t), Remove PROVE Refined
<1> USE DEF Between
<1>0. PICK e \in pl.live :
        \E r \in IF e = pl.current THEN NextOrStop(pl) ELSE {[pl |-> pl, playing |-> playing]} :
            ~InUse(r.pl, e) /\ pl' = Deleted(r.pl, e)
    BY AllSelectable DEF Remove, Careful
<1>e. e # NULL
    BY EntryAssumption DEF ListInv, Chain
<1>b. Before(s, t)
    BY BeforeIs
<1>l. \A p, u : ListInv(p) /\ Stands(p, s, u) => (e \in Queued(p) <=> e \in List!ToSet(u))
    BY StandsFor
\* What is left to show, once the playlist q is known from which e is deleted.
<1>1. ASSUME NEW q, ListInv(q), QueueInv(q), NEW u, Stands(q, s, u), q.play_mode = pl.play_mode,
             q.live = pl.live, ~InUse(q, e), pl' = Deleted(q, e)
      PROVE  /\ Stands(pl', List!Without(s, e), u) /\ After(List!Without(s, e), u)
             /\ Alike(pl', q) /\ PlayedEntries(pl') = PlayedEntries(q) \ {e}
             /\ e \notin List!ToSet(u)
    <2>1. e \in q.live
        BY <1>1
    <2>2. /\ Stands(pl', List!Without(s, e), u) /\ Alike(pl', q)
          /\ PlayedEntries(pl') = PlayedEntries(q) \ {e}
        BY <1>1, <2>1, DeleteStands
    <2>3. After(List!Without(s, e), u)
        BY <2>2, AfterIs
    <2>4. e \notin List!ToSet(u)
        BY <1>1, <1>l DEF InUse
    <2> QED BY <2>2, <2>3, <2>4
<1>2. CASE e # pl.current
    <2>1. ~InUse(pl, e) /\ pl' = Deleted(pl, e)
        BY <1>0, <1>2
    <2>2. /\ Stands(pl', List!Without(s, e), t) /\ After(List!Without(s, e), t)
          /\ Alike(pl', pl) /\ PlayedEntries(pl') = PlayedEntries(pl) \ {e}
          /\ e \notin List!ToSet(t)
        BY <1>1, <2>1
    <2>3. List!RemoveTrack
        BY <1>2, <1>b, <2>2 DEF Before, After, Alike, List!RemoveTrack
    <2> QED BY <2>2, <2>3 DEF Refined, List!Next
<1>3. CASE e = pl.current
    <2>1. PICK o \in NextOrStop(pl) : ~InUse(o.pl, e) /\ pl' = Deleted(o.pl, e)
        BY <1>0, <1>3
    <2>2. PICK r \in PlaylistNext(pl) : o.pl = IF r.found THEN r.pl ELSE Stopped(r.pl, playing)
        BY <2>1 DEF NextOrStop
    <2>3. PICK u : Stands(r.pl, s, u) /\ r.pl.play_mode = pl.play_mode /\ Goes(r, t, u)
        BY NextIs
    <2>4. ListInv(o.pl) /\ QueueInv(o.pl) /\ o.pl.live = pl.live /\ ListInv(r.pl)
        BY <2>1, NextOrStopKeepsList, NextOrStopKeepsQueue, NextKeepsList DEF Kept
    <2>5. CASE r.found
        <3>0. o.pl = r.pl
            BY <2>2, <2>5
        <3>1. /\ Stands(pl', List!Without(s, e), u) /\ After(List!Without(s, e), u)
              /\ Alike(pl', r.pl) /\ PlayedEntries(pl') = PlayedEntries(r.pl) \ {e}
              /\ e \notin List!ToSet(u)
            BY <2>1, <2>3, <2>4, <3>0, <1>1
        <3>2. r.pl.current # e
            BY <2>1, <3>0 DEF InUse
        <3>3. Advances(r.pl, t, u)
            BY <2>3, <2>5 DEF Goes
        <3>4. CASE t # <<>>
            <4>1. r.pl.current = Head(t) /\ u = Tail(t) /\ PlayedEntries(r.pl) = PlayedEntries(pl)
                BY <3>3, <3>4 DEF Advances
            <4>2. e \notin List!ToSet(t)
                <5>1. t \in Seq(Entry)
                    BY StandsFor
                <5>2. \A x \in List!ToSet(t) : x = Head(t) \/ x \in List!ToSet(Tail(t))
                    <6>1. /\ Len(t) \in Nat /\ DOMAIN t = 1 .. Len(t)
                          /\ DOMAIN Tail(t) = 1 .. Len(Tail(t)) /\ Len(Tail(t)) = Len(t) - 1
                          /\ Head(t) = t[1] /\ \A i \in 1 .. Len(Tail(t)) : Tail(t)[i] = t[i + 1]
                        BY <3>4, <5>1, HeadTailProperties, LenProperties
                    <6>2. ASSUME NEW i \in 1 .. Len(t), i # 1 PROVE t[i] \in List!ToSet(Tail(t))
                        <7>1. i - 1 \in 1 .. Len(Tail(t)) /\ (i - 1) + 1 = i
                            BY <6>1, <6>2
                        <7>2. Tail(t)[i - 1] = t[i]
                            BY <6>1, <7>1
                        <7> QED BY <6>1, <7>1, <7>2 DEF List!ToSet
                    <6> QED BY <6>1, <6>2 DEF List!ToSet
                <5> QED BY <3>1, <3>2, <4>1, <5>2
            <4>3. List!RemoveTrack
                BY <1>3, <1>b, <2>3, <3>1, <3>4, <4>1, <4>2 DEF Before, After, Alike, List!RemoveTrack
            <4> QED BY <3>1, <4>3 DEF Refined, List!Next
        <3>5. CASE t = <<>>
            <4>1. /\ u = t /\ r.pl.current \in List!Followers
                  /\ PlayedEntries(r.pl) \in IF List!Random
                                             THEN List!Mark(PlayedEntries(pl), r.pl.current)
                                             ELSE {PlayedEntries(pl)}
                BY <3>3, <3>5 DEF Advances
            <4>2. List!RemoveTrack
                BY <1>3, <1>b, <2>3, <3>1, <3>2, <3>5, <4>1 DEF Before, After, Alike, List!RemoveTrack
            <4> QED BY <3>1, <4>2 DEF Refined, List!Next
        <3> QED BY <3>4, <3>5
    <2>6. CASE ~r.found
        <3>1. GivesUp(r.pl, t, u)
            BY <2>3, <2>6 DEF Goes
        <3>2. playing
            <4> SUFFICES ASSUME ~playing PROVE FALSE
                OBVIOUS
            <4>1. o.pl = r.pl
                BY <2>2, <2>6 DEF Stopped
            <4> QED BY <1>3, <2>1, <3>1, <4>1 DEF GivesUp, InUse
        <3>3. o.pl = Stopped(r.pl, TRUE)
            BY <2>2, <2>6, <3>2
        <3>4. /\ Stands(o.pl, s, u) /\ o.pl.current = NULL /\ o.pl.play_mode = pl.play_mode
              /\ PlayedEntries(o.pl) = {}
            BY <2>3, <2>4, <3>3, StoppedStands
        <3>5. /\ Stands(pl', List!Without(s, e), u) /\ After(List!Without(s, e), u)
              /\ Alike(pl', o.pl) /\ PlayedEntries(pl') = PlayedEntries(o.pl) \ {e}
              /\ e \notin List!ToSet(u)
            BY <2>1, <2>4, <3>4, <1>1
        <3>6. t = <<>> /\ u = t /\ List!NoFollower
            BY <1>b, <3>1 DEF Before, GivesUp, List!NoFollower
        <3>7. List!RemoveTrack
            BY <1>3, <1>b, <3>4, <3>5, <3>6 DEF Before, After, Alike, List!RemoveTrack
        <3> QED BY <3>5, <3>7 DEF Refined, List!Next
    <2> QED BY <2>5, <2>6
<1> QED BY <1>2, <1>3

\* There are sequences for the list and the queue.
Ordered == \E s, t : Stands(pl, s, t)

\* The empty playlist is the empty list of tracks.
LEMMA InitRefines == Init => List!Init /\ Ordered
<1> SUFFICES ASSUME Init PROVE List!Init /\ Ordered
    OBVIOUS
<1>1. /\ pl.first = NULL /\ pl.queue_start = NULL /\ pl.current = NULL /\ pl.live = {}
      /\ pl.play_mode \in PlayMode
      /\ pl.next \in [Entry -> Pointer] /\ pl.next_in_queue \in [Entry -> Pointer]
    BY DEF Init, Pointer
<1>2. ASSUME NEW link \in [Entry -> Pointer] PROVE Walk(<<>>, NULL, link)
    BY DEF Walk, InOrder
<1>3. Stands(pl, <<>>, <<>>)
    BY <1>1, <1>2 DEF Stands
<1>4. Before(<<>>, <<>>)
    BY <1>3, InitList, BeforeIs
<1>5. pl.play_mode \in List!ToSet(List!Modes)
    <2> DEFINE M == List!Modes
    <2>0. DOMAIN M = 1 .. 5 /\ M[1] = "continue" /\ M[2] = "repeat_all"
          /\ M[3] = "repeat_1" /\ M[4] = "random" /\ M[5] = "random_repeat"
        BY DEF List!Modes
    <2> HIDE DEF M
    <2>1. pl.play_mode \in {M[i] : i \in DOMAIN M}
        BY <1>1, <2>0 DEF PlayMode
    <2> QED BY <2>1 DEF List!ToSet, M
<1>6. PlayedEntries(pl) = {}
    BY <1>1 DEF PlayedEntries
<1>7. List!Init
    BY <1>1, <1>4, <1>5, <1>6 DEF Before, List!Init
<1> QED BY <1>3, <1>7 DEF Ordered

\* Every operation is a step of the list of tracks or leaves it as it is.
LEMMA StepRefines ==
    ASSUME Careful, Inv, QueueInv(pl), Ordered, [Next]_vars
    PROVE  [List!Next]_(List!vars) /\ Ordered'
<1>1. PICK s, t : Stands(pl, s, t)
    BY DEF Ordered
<1>2. Inv'
    BY StepInv DEF Careful
<1>3. Between(s, t)
    BY <1>1, <1>2 DEF Between, Inv
<1> DEFINE Goal == (List!Next \/ UNCHANGED List!vars) /\ \E u, v : Stands(pl', u, v)
<1> SUFFICES Goal
    BY DEF Ordered
<1>4. Refined => Goal
    BY DEF Refined
<1>5. CASE Add
    BY <1>3, <1>4, <1>5, AddRefines
<1>6. CASE Insert
    BY <1>3, <1>4, <1>6, InsertRefines
<1>7. CASE Remove
    BY <1>3, <1>4, <1>7, RemoveRefines
<1>8. CASE Clear
    BY <1>3, <1>4, <1>8, ClearRefines
<1>9. CASE Enqueue
    BY <1>3, <1>9, EnqueueRefines
<1>10. CASE CycleMode
    BY <1>3, <1>4, <1>10, CycleModeRefines
<1>11. CASE AskDelete
    BY <1>3, <1>4, <1>11, AskDeleteRefines
<1>12. CASE NextTrack
    BY <1>3, <1>4, <1>12, NextTrackRefines
<1>13. CASE TrackEnds
    BY <1>3, <1>4, <1>13, TrackEndsRefines
<1>14. CASE PreviousTrack
    BY <1>3, <1>14, PreviousRefines
<1>15. CASE PlayItem
    BY <1>3, <1>4, <1>15, PlayItemRefines
<1>16. CASE PlayFile
    BY <1>3, <1>4, <1>16, PlayFileRefines
<1>17. CASE Stop
    BY <1>3, <1>17, StopRefines
<1>18. CASE UNCHANGED vars
    <2>1. UNCHANGED List!vars
        BY <1>18 DEF vars, List!vars
    <2>2. Stands(pl', s, t)
        BY <1>1, <1>18 DEF vars
    <2> QED BY <2>1, <2>2
<1> QED BY <1>5, <1>6, <1>7, <1>8, <1>9, <1>10, <1>11, <1>12, <1>13, <1>14, <1>15, <1>16, <1>17,
           <1>18 DEF Next

(* The playlist is the list of tracks of TrackList, whatever the number of      *)
(* entries and the sequence of operations, as long as no entry is removed that  *)
(* is still in use: the doubly linked list is its sequence, the chain of        *)
(* next_in_queue its queue, playlist_next and playlist_prev move where it       *)
(* allows in every play mode (playlist.c), and a removal takes out that track.  *)
THEOREM PlaylistImplementsTrackList == Careful => (Spec => ImplementsTrackList)
<1> SUFFICES ASSUME Careful PROVE Spec => ImplementsTrackList
    OBVIOUS
<1>1. Init => List!Init /\ Ordered
    BY InitRefines
<1>2. Inv /\ QueueInv(pl) /\ Ordered /\ [Next]_vars => [List!Next]_(List!vars) /\ Ordered'
    BY StepRefines
<1>3. Spec => [](Inv /\ QueueInv(pl))
    BY QueueInvariance
<1> QED BY <1>1, <1>2, <1>3, PTL DEF Spec, ImplementsTrackList, List!Spec
=============================================================================
