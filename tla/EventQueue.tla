----------------------------- MODULE EventQueue -----------------------------
(***************************************************************************)
(* The event queue of the player (gmu-0.7.0/src/eventqueue.c): a singly    *)
(* linked list under a mutex.  Any thread pushes; only the main loop pops, *)
(* after event_queue_is_event_waiting, which reads eq->first WITHOUT the   *)
(* mutex, has told it that there is something to pop (core.c, 795-796).    *)
(* The statements of a critical section are steps of their own, because    *)
(* that unlocked read can fall between any two of them.                    *)
(***************************************************************************)
EXTENDS Naturals, Sequences, FiniteSets

CONSTANTS
    Thread,     \* the threads that push events
    Main,       \* the thread of the main loop, the only one that pops
    Node,       \* the memory there is for EventQueueEntry structures
    Event,      \* the events
    NULL, NO_EVENT

ASSUME MainAssumption  == Main \in Thread
ASSUME NullAssumption  == NULL \notin Node /\ NULL \notin Thread
ASSUME EventAssumption == NO_EVENT \notin Event

VARIABLES
    first, last,    \* eq->first and eq->last
    event, next,    \* the two fields of every node
    free,           \* the nodes malloc may hand out
    mutex,          \* who holds eq->mutex, or NULL
    pc,             \* where each thread is
    node,           \* new_entry of each pusher, tmp of the popper
    arg,            \* the event each thread is pushing
    result,         \* the event the last pop returned
    queued          \* history: the nodes linked and not yet taken, in order

list == <<first, last, event, next, free>>
vars == <<list, mutex, pc, node, arg, result, queued>>

Init ==
    /\ first = NULL /\ last = NULL
    /\ event \in [Node -> {NO_EVENT}]
    /\ next \in [Node -> {NULL}]
    /\ free = Node
    /\ mutex = NULL
    /\ pc = [t \in Thread |-> "idle"]
    /\ node = [t \in Thread |-> NULL]
    /\ arg = [t \in Thread |-> NO_EVENT]
    /\ result = NO_EVENT
    /\ queued = <<>>

Goto(t, from, to) == pc[t] = from /\ pc' = [pc EXCEPT ![t] = to]

Lock(t)   == mutex = NULL /\ mutex' = t
Unlock(t) == mutex = t /\ mutex' = NULL

\* A function's locals end with the call.
Forget(t) ==
    /\ node' = [node EXCEPT ![t] = NULL]
    /\ arg' = [arg EXCEPT ![t] = NO_EVENT]

-----------------------------------------------------------------------------
(* event_queue_push *)

\* malloc outside the critical section; it may fail.
PushAlloc(t, ev) ==
    /\ Goto(t, "idle", "push_lock")
    /\ arg' = [arg EXCEPT ![t] = ev]
    /\ \/ \E n \in free : node' = [node EXCEPT ![t] = n] /\ free' = free \ {n}
       \/ node' = [node EXCEPT ![t] = NULL] /\ UNCHANGED free
    /\ UNCHANGED <<first, last, event, next, mutex, result, queued>>

PushLock(t) ==
    /\ Goto(t, "push_lock", "push_link")
    /\ Lock(t)
    /\ UNCHANGED <<list, node, arg, result, queued>>

\* A fault: the new entry is not linked behind the last one.
LinkDropped(n) == [next EXCEPT ![n] = NULL]

\* new_entry->next = NULL; if (eq->last) eq->last->next = new_entry
Linked(n) ==
    [x \in Node |-> IF x = n THEN NULL ELSE IF x = last THEN n ELSE next[x]]

PushLink(t) ==
    LET n == node[t] IN
    /\ n # NULL
    /\ Goto(t, "push_link", "push_first")
    /\ event' = [event EXCEPT ![n] = arg[t]]
    /\ next' = Linked(n)
    /\ last' = n
    /\ queued' = Append(queued, n)
    /\ UNCHANGED <<first, free, mutex, node, arg, result>>

\* Without memory the event is dropped.
PushNoMemory(t) ==
    /\ node[t] = NULL
    /\ Goto(t, "push_link", "push_unlock")
    /\ UNCHANGED <<list, mutex, node, arg, result, queued>>

PushFirst(t) ==
    /\ Goto(t, "push_first", "push_unlock")
    /\ first' = IF first = NULL THEN node[t] ELSE first
    /\ UNCHANGED <<last, event, next, free, mutex, node, arg, result, queued>>

PushUnlock(t) ==
    /\ Goto(t, "push_unlock", "idle")
    /\ Unlock(t)
    /\ Forget(t)
    /\ UNCHANGED <<list, result, queued>>

-----------------------------------------------------------------------------
(* event_queue_is_event_waiting and event_queue_pop, by the main loop *)

\* A fault: looking at eq->last, which a push sets before eq->first.
IsLastWaiting ==
    /\ last # NULL
    /\ Goto(Main, "idle", "pop_lock")
    /\ UNCHANGED <<list, mutex, node, arg, result, queued>>

IsEventWaiting ==
    /\ first # NULL
    /\ Goto(Main, "idle", "pop_lock")
    /\ UNCHANGED <<list, mutex, node, arg, result, queued>>

PopLock ==
    /\ Goto(Main, "pop_lock", "pop_take")
    /\ Lock(Main)
    /\ UNCHANGED <<list, node, arg, result, queued>>

\* With nothing in the queue the pop returns GMU_NO_EVENT.
PopTake ==
    /\ Goto(Main, "pop_take", "pop_last")
    /\ node' = [node EXCEPT ![Main] = first]
    /\ IF first = NULL
       THEN result' = NO_EVENT /\ UNCHANGED <<first, queued>>
       ELSE /\ result' = event[first]
            /\ first' = next[first]
            /\ queued' = Tail(queued)
    /\ UNCHANGED <<last, event, next, free, mutex, arg>>

\* A fault: eq->last keeps pointing at the entry that was freed.
LastKept == last

\* if (eq->last == tmp) eq->last = NULL
LastAfterPop == IF last = node[Main] THEN NULL ELSE last

PopLast ==
    /\ Goto(Main, "pop_last", "pop_unlock")
    /\ last' = LastAfterPop
    /\ free' = free \cup ({node[Main]} \ {NULL})
    /\ UNCHANGED <<first, event, next, mutex, node, arg, result, queued>>

PopUnlock ==
    /\ Goto(Main, "pop_unlock", "idle")
    /\ Unlock(Main)
    /\ Forget(Main)
    /\ UNCHANGED <<list, result, queued>>

-----------------------------------------------------------------------------
Push(t) ==
    \/ \E ev \in Event : PushAlloc(t, ev)
    \/ PushLock(t) \/ PushLink(t) \/ PushNoMemory(t) \/ PushFirst(t) \/ PushUnlock(t)

Pop == IsEventWaiting \/ PopLock \/ PopTake \/ PopLast \/ PopUnlock

Next == Pop \/ \E t \in Thread : Push(t)

Spec == Init /\ [][Next]_vars

-----------------------------------------------------------------------------
Critical == {"push_link", "push_first", "push_unlock", "pop_take", "pop_last", "pop_unlock"}
Label    == Critical \cup {"idle", "push_lock", "pop_lock"}

TypeOK ==
    /\ first \in Node \cup {NULL}
    /\ last \in Node \cup {NULL}
    /\ event \in [Node -> Event \cup {NO_EVENT}]
    /\ next \in [Node -> Node \cup {NULL}]
    /\ free \subseteq Node
    /\ mutex \in Thread \cup {NULL}
    /\ pc \in [Thread -> Label]
    /\ node \in [Thread -> Node \cup {NULL}]
    /\ arg \in [Thread -> Event \cup {NO_EVENT}]
    /\ result \in Event \cup {NO_EVENT}
    /\ queued \in Seq(Node)

\* The node a thread holds outside the list: one it has allocated and not yet
\* linked, or taken and not yet freed.
Holds(t, n) == node[t] = n /\ pc[t] \in {"push_lock", "push_link", "pop_last"}

\* The event the list must hand to the main loop next is the oldest one pushed:
\* the pointers, followed from first, visit the entries in the order in which
\* they were pushed, and last is the one the next push links behind.
ListInOrder ==
    /\ \A k \in 1 .. Len(queued) - 1 : next[queued[k]] = queued[k + 1]
    /\ queued # <<>> => next[queued[Len(queued)]] = NULL
    /\ mutex = NULL =>
          /\ first = IF queued = <<>> THEN NULL ELSE queued[1]
          /\ last = IF queued = <<>> THEN NULL ELSE queued[Len(queued)]

\* When the unlocked look of the main loop has seen an entry, the entry is still
\* there when the main loop has got the mutex: its pop returns an event
\* (core.c, 795-801, which would otherwise hand GMU_NO_EVENT to the frontends).
PopFindsEvent == pc[Main] \in {"pop_lock", "pop_take"} => first # NULL

Fifo == INSTANCE EventFifo WITH
            pending <- [k \in 1 .. Len(queued) |-> event[queued[k]]],
            got     <- result

\* The list delivers the events of all threads first-in first-out.
ImplementsFifo == Fifo!Spec
=============================================================================
