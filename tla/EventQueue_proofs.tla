------------------------- MODULE EventQueue_proofs --------------------------
(***************************************************************************)
(* Proofs about EventQueue, for any number of threads, nodes and events.   *)
(***************************************************************************)
EXTENDS EventQueue, SequenceTheorems, TLAPS

(* Only the thread that holds the mutex is in a critical section, and only  *)
(* the main thread is in event_queue_pop.                                   *)
MutexInv ==
    /\ \A t \in Thread : pc[t] \in Critical => mutex = t
    /\ \A t \in Thread : pc[t] \in {"pop_lock", "pop_take", "pop_last", "pop_unlock"} => t = Main

(* The entries of the list are distinct and in use.                         *)
QueuedInv ==
    /\ \A j, k \in 1 .. Len(queued) : queued[j] = queued[k] => j = k
    /\ \A k \in 1 .. Len(queued) : queued[k] \notin free

(* A node a thread holds is neither free nor in the list nor held twice.    *)
HoldInv ==
    \A t \in Thread, n \in Node :
       Holds(t, n) => /\ n \notin free
                      /\ \A k \in 1 .. Len(queued) : queued[k] # n
                      /\ \A u \in Thread : Holds(u, n) => u = t

(* Following next from an entry leads to the one pushed after it.           *)
ChainInv ==
    /\ \A k \in 1 .. Len(queued) - 1 : next[queued[k]] = queued[k + 1]
    /\ queued # <<>> => next[queued[Len(queued)]] = NULL

(* first points at the oldest entry, except between the two statements of a *)
(* push that found the list empty.                                          *)
FirstInv ==
    /\ queued = <<>> => first = NULL
    /\ queued # <<>> => \/ first = queued[1]
                        \/ /\ first = NULL
                           /\ Len(queued) = 1
                           /\ \E t \in Thread : pc[t] = "push_first"

(* last points at the newest entry, except between the two statements of a  *)
(* pop that emptied the list.                                               *)
LastInv ==
    /\ queued # <<>> => last = queued[Len(queued)]
    /\ queued = <<>> => \/ last = NULL
                        \/ pc[Main] = "pop_last" /\ last = node[Main]

(* Between its two statements a push knows the newest entry.                *)
PushInv ==
    \A t \in Thread : pc[t] = "push_first" =>
        queued # <<>> /\ node[t] = queued[Len(queued)]

Inv == /\ TypeOK /\ MutexInv /\ QueuedInv /\ HoldInv /\ ChainInv
       /\ FirstInv /\ LastInv /\ PushInv /\ PopFindsEvent

\* The empty queue (event_queue_init) satisfies the invariant.
LEMMA InitInv == Init => Inv
<1> SUFFICES ASSUME Init PROVE Inv
    OBVIOUS
<1> USE MainAssumption, NullAssumption DEF Init
<1>1. TypeOK
    BY DEF TypeOK, Label
<1>2. MutexInv /\ HoldInv /\ PushInv /\ PopFindsEvent
    BY DEF MutexInv, HoldInv, Holds, PushInv, PopFindsEvent, Critical
<1>3. QueuedInv /\ ChainInv /\ FirstInv /\ LastInv
    BY DEF QueuedInv, ChainInv, FirstInv, LastInv
<1> QED BY <1>1, <1>2, <1>3 DEF Inv

-----------------------------------------------------------------------------
(* What a program counter that moves does to the invariant: nothing but     *)
(* through the mutex and the nodes held.                                    *)
LEMMA PcMoves ==
    ASSUME TypeOK, NEW t \in Thread, NEW from, NEW to \in Label, Goto(t, from, to)
    PROVE  /\ pc[t] = from /\ pc' \in [Thread -> Label] /\ pc'[t] = to
           /\ \A u \in Thread : u # t => pc'[u] = pc[u]
BY DEF TypeOK, Goto

\* A push that allocates its entry leaves the list alone and holds a node that is
\* not in it.
LEMMA AllocInv ==
    ASSUME Inv, NEW t \in Thread, NEW ev \in Event, PushAlloc(t, ev)
    PROVE  Inv'
<1> USE MainAssumption, NullAssumption DEF Inv
<1>1. /\ pc[t] = "idle" /\ pc' \in [Thread -> Label] /\ pc'[t] = "push_lock"
      /\ \A u \in Thread : u # t => pc'[u] = pc[u]
    BY PcMoves DEF PushAlloc, Label
<1>2. /\ first' = first /\ last' = last /\ event' = event /\ next' = next
      /\ mutex' = mutex /\ result' = result /\ queued' = queued
      /\ free' \subseteq free /\ node' \in [Thread -> Node \cup {NULL}]
      /\ \A u \in Thread : u # t => node'[u] = node[u]
      /\ node'[t] # NULL => node'[t] \in free /\ node'[t] \notin free'
    BY DEF PushAlloc, TypeOK
<1>3. TypeOK'
    BY <1>1, <1>2 DEF PushAlloc, TypeOK
<1>4. MutexInv' /\ PushInv' /\ PopFindsEvent'
    BY <1>1, <1>2 DEF MutexInv, PushInv, PopFindsEvent, Critical
<1>5. QueuedInv' /\ ChainInv'
    BY <1>2 DEF QueuedInv, ChainInv
<1>6. HoldInv'
    BY <1>1, <1>2 DEF HoldInv, Holds, QueuedInv, TypeOK
<1>7. FirstInv' /\ LastInv'
    BY <1>1, <1>2 DEF FirstInv, LastInv
<1> QED BY <1>3, <1>4, <1>5, <1>6, <1>7

\* Linking the new entry behind the last one keeps the chain in the order of the pushes.
LEMMA LinkInv ==
    ASSUME Inv, NEW t \in Thread, PushLink(t)
    PROVE  Inv'
<1> USE MainAssumption, NullAssumption DEF Inv
<1> DEFINE n == node[t]
<1>1. /\ pc[t] = "push_link" /\ pc' \in [Thread -> Label] /\ pc'[t] = "push_first"
      /\ \A u \in Thread : u # t => pc'[u] = pc[u]
    BY PcMoves DEF PushLink, Label, Critical
<1>2. /\ n \in Node /\ last' = n /\ first' = first /\ free' = free /\ mutex' = mutex
      /\ node' = node /\ arg' = arg /\ result' = result
      /\ queued' = Append(queued, n) /\ next' = Linked(n)
      /\ event' = [event EXCEPT ![n] = arg[t]]
    BY DEF PushLink, TypeOK
<1>3. /\ mutex = t /\ pc[Main] \notin {"pop_take", "pop_last", "pop_unlock"}
      /\ \A u \in Thread : pc[u] \notin {"push_first"}
    BY <1>1 DEF MutexInv, Critical
<1>4. n \notin free /\ \A k \in 1 .. Len(queued) : queued[k] # n
    BY <1>1, <1>2 DEF HoldInv, Holds
<1>5. /\ Len(queued) \in Nat /\ queued' \in Seq(Node) /\ Len(queued') = Len(queued) + 1
      /\ queued'[Len(queued) + 1] = n /\ queued' # <<>>
      /\ \A k \in 1 .. Len(queued) : queued'[k] = queued[k] /\ queued[k] \in Node
    BY <1>2 DEF TypeOK
<1>6. TypeOK'
    BY <1>1, <1>2, <1>5 DEF TypeOK, Linked
<1>7. MutexInv' /\ PopFindsEvent'
    BY <1>1, <1>2, <1>3 DEF MutexInv, PopFindsEvent, Critical
<1>8. QueuedInv'
    BY <1>2, <1>4, <1>5 DEF QueuedInv
<1>9. HoldInv'
    <2>1. SUFFICES ASSUME NEW u \in Thread, NEW x \in Node, Holds(u, x)'
                   PROVE  /\ x \notin free'
                          /\ \A k \in 1 .. Len(queued') : queued'[k] # x
                          /\ \A w \in Thread : Holds(w, x)' => w = u
        BY DEF HoldInv
    <2>2. u # t /\ Holds(u, x) /\ x # n
        BY <2>1, <1>1, <1>2 DEF HoldInv, Holds
    <2>3. \A w \in Thread : Holds(w, x)' => Holds(w, x)
        BY <1>1, <1>2 DEF Holds
    <2> QED BY <2>2, <2>3, <1>2, <1>5 DEF HoldInv
<1>10. ChainInv'
    <2>1. next'[n] = NULL
        BY <1>2 DEF Linked
    <2>2. ASSUME NEW k \in 1 .. Len(queued) - 1 PROVE next'[queued[k]] = queued[k + 1]
        <3>1. queued # <<>> /\ last = queued[Len(queued)] /\ queued[k] # last /\ queued[k] # n
            BY <1>4, <1>5 DEF LastInv, QueuedInv
        <3> QED BY <3>1, <1>2, <1>5 DEF ChainInv, Linked
    <2>3. queued # <<>> => next'[queued[Len(queued)]] = n
        <3>1. SUFFICES ASSUME queued # <<>> PROVE next'[queued[Len(queued)]] = n
            OBVIOUS
        <3>2. Len(queued) \in 1 .. Len(queued)
            BY <3>1, <1>5
        <3>3. last = queued[Len(queued)] /\ last # n /\ last \in Node
            BY <3>1, <3>2, <1>4, <1>5 DEF LastInv
        <3> QED BY <3>3, <1>2 DEF Linked
    <2>4. ASSUME NEW k \in 1 .. Len(queued') - 1 PROVE next'[queued'[k]] = queued'[k + 1]
        <3>1. CASE k = Len(queued)
            BY <3>1, <2>3, <1>5
        <3>2. CASE k # Len(queued)
            <4>1. k \in 1 .. Len(queued) - 1 /\ k + 1 \in 1 .. Len(queued) /\ k \in 1 .. Len(queued)
                BY <3>2, <1>5
            <4> QED BY <4>1, <2>2, <1>5
        <3> QED BY <3>1, <3>2
    <2> QED BY <2>1, <2>4, <1>5 DEF ChainInv
<1>11. FirstInv' /\ LastInv' /\ PushInv'
    BY <1>1, <1>2, <1>3, <1>5 DEF FirstInv, LastInv, PushInv
<1> QED BY <1>6, <1>7, <1>8, <1>9, <1>10, <1>11

\* A pop that takes the first entry leaves the chain of the others.
LEMMA TakeInv ==
    ASSUME Inv, PopTake
    PROVE  Inv'
<1> USE MainAssumption, NullAssumption DEF Inv
<1>1. /\ pc[Main] = "pop_take" /\ pc' \in [Thread -> Label] /\ pc'[Main] = "pop_last"
      /\ \A u \in Thread : u # Main => pc'[u] = pc[u]
    BY PcMoves DEF PopTake, Label, Critical
<1>2. /\ mutex = Main /\ \A u \in Thread : pc[u] # "push_first"
      /\ \A u \in Thread : pc[u] = "pop_last" => u = Main
    BY <1>1 DEF MutexInv, Critical
<1>3. /\ first # NULL /\ queued # <<>> /\ first = queued[1]
    BY <1>1, <1>2 DEF PopFindsEvent, FirstInv
<1>4. /\ first' = next[first] /\ queued' = Tail(queued) /\ result' = event[first]
      /\ last' = last /\ event' = event /\ next' = next /\ free' = free /\ mutex' = mutex
      /\ arg' = arg /\ node' = [node EXCEPT ![Main] = first]
    BY <1>3 DEF PopTake
<1>5. /\ Len(queued) \in Nat \ {0} /\ queued' \in Seq(Node) /\ Len(queued') = Len(queued) - 1
      /\ \A k \in 1 .. Len(queued) - 1 : queued'[k] = queued[k + 1]
      /\ \A k \in 1 .. Len(queued) : queued[k] \in Node
    BY <1>3, <1>4 DEF TypeOK
<1>6. TypeOK'
    BY <1>1, <1>3, <1>4, <1>5 DEF TypeOK
<1>7. MutexInv' /\ PushInv' /\ PopFindsEvent'
    BY <1>1, <1>2, <1>4 DEF MutexInv, PushInv, PopFindsEvent, Critical
<1>8. QueuedInv'
    BY <1>4, <1>5 DEF QueuedInv
<1>9. HoldInv'
    <2>1. SUFFICES ASSUME NEW u \in Thread, NEW x \in Node, Holds(u, x)'
                   PROVE  /\ x \notin free'
                          /\ \A k \in 1 .. Len(queued') : queued'[k] # x
                          /\ \A w \in Thread : Holds(w, x)' => w = u
        BY DEF HoldInv
    <2>2. node' \in [Thread -> Node \cup {NULL}] /\ node'[Main] = first
          /\ \A w \in Thread : w # Main => node'[w] = node[w]
        BY <1>4, <1>6 DEF TypeOK
    <2>3. \A w \in Thread : w # Main /\ Holds(w, x)' => Holds(w, x)
        BY <1>1, <2>2 DEF Holds
    <2>4. \A w \in Thread : Holds(w, queued[1]) => FALSE
        BY <1>5 DEF HoldInv
    <2>5. CASE u = Main
        <3>1. x = queued[1] /\ x \notin free /\ \A k \in 2 .. Len(queued) : queued[k] # x
            BY <2>1, <2>2, <2>5, <1>3, <1>5 DEF Holds, QueuedInv
        <3> QED BY <3>1, <2>3, <2>4, <2>5, <1>4, <1>5
    <2>6. CASE u # Main
        <3>1. Holds(u, x) /\ x # queued[1]
            BY <2>1, <2>3, <2>4, <2>6
        <3>2. ~Holds(Main, x)'
            BY <2>2, <3>1, <1>3 DEF Holds
        <3> QED BY <3>1, <3>2, <2>3, <1>4, <1>5 DEF HoldInv
    <2> QED BY <2>5, <2>6
<1>10. ChainInv'
    <2>1. ASSUME NEW k \in 1 .. Len(queued') - 1 PROVE next'[queued'[k]] = queued'[k + 1]
        <3>1. k + 1 \in 1 .. Len(queued) - 1 /\ k \in 1 .. Len(queued) - 1
            BY <1>5
        <3> QED BY <3>1, <1>4, <1>5 DEF ChainInv
    <2>2. queued' # <<>> => next'[queued'[Len(queued')]] = NULL
        <3>1. queued' # <<>> => Len(queued) - 1 \in 1 .. Len(queued) - 1
            BY <1>5
        <3> QED BY <3>1, <1>3, <1>4, <1>5 DEF ChainInv
    <2> QED BY <2>1, <2>2 DEF ChainInv
<1>11. FirstInv' /\ LastInv'
    <2>1. CASE Len(queued) = 1
        <3>1. queued' = <<>> /\ first' = NULL /\ last' = first /\ node'[Main] = first
            BY <2>1, <1>3, <1>4, <1>5 DEF ChainInv, LastInv, TypeOK
        <3> QED BY <3>1, <1>1 DEF FirstInv, LastInv
    <2>2. CASE Len(queued) > 1
        <3>1. queued' # <<>> /\ 1 \in 1 .. Len(queued) - 1 /\ Len(queued) - 1 \in 1 .. Len(queued) - 1
            BY <2>2, <1>5
        <3>2. first' = queued[2] /\ queued'[1] = queued[2] /\ last' = queued[Len(queued)]
              /\ queued'[Len(queued')] = queued[Len(queued)]
            BY <3>1, <1>3, <1>4, <1>5 DEF ChainInv, LastInv
        <3> QED BY <3>1, <3>2 DEF FirstInv, LastInv
    <2> QED BY <2>1, <2>2, <1>5
<1> QED BY <1>6, <1>7, <1>8, <1>9, <1>10, <1>11

\* Setting last, and freeing the entry taken, keeps the rest of the list.
LEMMA LastStepInv ==
    ASSUME Inv, PopLast
    PROVE  Inv'
<1> USE MainAssumption, NullAssumption DEF Inv
<1>1. /\ pc[Main] = "pop_last" /\ pc' \in [Thread -> Label] /\ pc'[Main] = "pop_unlock"
      /\ \A u \in Thread : u # Main => pc'[u] = pc[u]
    BY PcMoves DEF PopLast, Label, Critical
<1>2. /\ mutex = Main /\ \A u \in Thread : pc[u] # "push_first"
    BY <1>1 DEF MutexInv, Critical
<1>3. /\ first' = first /\ queued' = queued /\ event' = event /\ next' = next /\ mutex' = mutex
      /\ node' = node /\ arg' = arg /\ result' = result
      /\ last' = LastAfterPop /\ free' = free \cup ({node[Main]} \ {NULL})
    BY DEF PopLast
<1>4. node[Main] \in Node => Holds(Main, node[Main])
    BY <1>1 DEF Holds
<1>5. TypeOK'
    BY <1>1, <1>3 DEF TypeOK, LastAfterPop
<1>6. MutexInv' /\ PushInv' /\ PopFindsEvent'
    BY <1>1, <1>2, <1>3 DEF MutexInv, PushInv, PopFindsEvent, Critical
<1>7. QueuedInv' /\ ChainInv'
    BY <1>3, <1>4 DEF QueuedInv, ChainInv, HoldInv, TypeOK
<1>8. HoldInv'
    BY <1>1, <1>3, <1>4 DEF HoldInv, Holds, TypeOK
<1>9. FirstInv' /\ LastInv'
    <2>1. FirstInv'
        BY <1>1, <1>2, <1>3 DEF FirstInv
    <2>2. CASE queued = <<>>
        <3>1. last = NULL \/ last = node[Main]
            BY <2>2 DEF LastInv
        <3>2. last' = NULL
            BY <3>1, <1>3 DEF LastAfterPop
        <3> QED BY <2>1, <3>2, <2>2, <1>3 DEF LastInv
    <2>3. CASE queued # <<>>
        <3>1. Len(queued) \in 1 .. Len(queued) /\ queued[Len(queued)] \in Node
            BY <2>3 DEF TypeOK
        <3>2. last # node[Main]
            BY <3>1, <2>3, <1>4 DEF LastInv, HoldInv
        <3>3. last' = last
            BY <3>2, <1>3 DEF LastAfterPop
        <3> QED BY <2>1, <3>3, <2>3, <1>3 DEF LastInv
    <2> QED BY <2>2, <2>3
<1> QED BY <1>5, <1>6, <1>7, <1>8, <1>9

(* The other steps move a program counter, the mutex and, at the second     *)
(* statement of a push, the first pointer.                                  *)
LEMMA QuietInv ==
    ASSUME Inv, NEW t \in Thread,
           \/ PushLock(t) \/ PushNoMemory(t) \/ PushFirst(t) \/ PushUnlock(t)
           \/ t = Main /\ (IsEventWaiting \/ PopLock \/ PopUnlock)
    PROVE  Inv'
<1> USE MainAssumption, NullAssumption DEF Inv
<1>1. ASSUME PushLock(t) PROVE Inv'
    <2>1. /\ pc[t] = "push_lock" /\ pc' \in [Thread -> Label] /\ pc'[t] = "push_link"
          /\ \A u \in Thread : u # t => pc'[u] = pc[u]
        BY <1>1, PcMoves DEF PushLock, Label, Critical
    <2> QED BY <1>1, <2>1 DEF PushLock, Lock, list, TypeOK, MutexInv, QueuedInv, HoldInv, Holds,
                ChainInv, FirstInv, LastInv, PushInv, PopFindsEvent, Critical
<1>2. ASSUME PushNoMemory(t) PROVE Inv'
    <2>1. /\ pc[t] = "push_link" /\ pc' \in [Thread -> Label] /\ pc'[t] = "push_unlock"
          /\ \A u \in Thread : u # t => pc'[u] = pc[u]
        BY <1>2, PcMoves DEF PushNoMemory, Label, Critical
    <2> QED BY <1>2, <2>1 DEF PushNoMemory, list, TypeOK, MutexInv, QueuedInv, HoldInv, Holds,
                ChainInv, FirstInv, LastInv, PushInv, PopFindsEvent, Critical
<1>3. ASSUME PushFirst(t) PROVE Inv'
    <2>1. /\ pc[t] = "push_first" /\ pc' \in [Thread -> Label] /\ pc'[t] = "push_unlock"
          /\ \A u \in Thread : u # t => pc'[u] = pc[u]
        BY <1>3, PcMoves DEF PushFirst, Label, Critical
    <2>2. /\ last' = last /\ event' = event /\ next' = next /\ free' = free /\ mutex' = mutex
          /\ node' = node /\ arg' = arg /\ result' = result /\ queued' = queued
          /\ queued # <<>> /\ node[t] = queued[Len(queued)]
          /\ first' = IF first = NULL THEN node[t] ELSE first
        BY <1>3, <2>1 DEF PushFirst, PushInv
    <2>3. first' = queued[1] /\ first' \in Node
        <3>1. 1 \in 1 .. Len(queued) /\ queued[1] \in Node
            BY <2>2 DEF TypeOK
        <3> QED BY <3>1, <2>2 DEF FirstInv
    <2>4. TypeOK'
        BY <2>1, <2>2, <2>3 DEF TypeOK
    <2>5. MutexInv' /\ QueuedInv' /\ ChainInv' /\ LastInv' /\ PopFindsEvent'
        BY <2>1, <2>2, <2>3 DEF MutexInv, QueuedInv, ChainInv, LastInv, PopFindsEvent, Critical
    <2>6. HoldInv' /\ FirstInv' /\ PushInv'
        BY <2>1, <2>2, <2>3 DEF HoldInv, Holds, FirstInv, PushInv
    <2> QED BY <2>4, <2>5, <2>6
<1>4. ASSUME PushUnlock(t) PROVE Inv'
    <2>1. /\ pc[t] = "push_unlock" /\ pc' \in [Thread -> Label] /\ pc'[t] = "idle"
          /\ \A u \in Thread : u # t => pc'[u] = pc[u]
        BY <1>4, PcMoves DEF PushUnlock, Label, Critical
    <2>2. \A u \in Thread : u # t => pc[u] \notin Critical
        BY <2>1 DEF MutexInv, Critical
    <2>3. /\ first' = first /\ last' = last /\ event' = event /\ next' = next /\ free' = free
          /\ result' = result /\ queued' = queued /\ mutex' = NULL
          /\ node' = [node EXCEPT ![t] = NULL] /\ arg' = [arg EXCEPT ![t] = NO_EVENT]
        BY <1>4 DEF PushUnlock, Unlock, Forget, list
    <2>4. /\ node' \in [Thread -> Node \cup {NULL}] /\ arg' \in [Thread -> Event \cup {NO_EVENT}]
          /\ \A u \in Thread : u # t => node'[u] = node[u]
        BY <2>3 DEF TypeOK
    <2>5. TypeOK'
        BY <2>1, <2>3, <2>4 DEF TypeOK
    <2>6. MutexInv' /\ PopFindsEvent' /\ QueuedInv' /\ ChainInv'
        BY <2>1, <2>2, <2>3 DEF MutexInv, PopFindsEvent, QueuedInv, ChainInv, Critical
    <2>7. HoldInv' /\ PushInv'
        BY <2>1, <2>3, <2>4 DEF HoldInv, Holds, PushInv
    <2>8. FirstInv' /\ LastInv'
        BY <2>1, <2>2, <2>3, <2>4 DEF FirstInv, LastInv, Critical
    <2> QED BY <2>5, <2>6, <2>7, <2>8
<1>5. ASSUME t = Main, IsEventWaiting PROVE Inv'
    <2>1. /\ pc[t] = "idle" /\ pc' \in [Thread -> Label] /\ pc'[t] = "pop_lock"
          /\ \A u \in Thread : u # t => pc'[u] = pc[u]
        BY <1>5, PcMoves DEF IsEventWaiting, Label, Critical
    <2> QED BY <1>5, <2>1 DEF IsEventWaiting, list, TypeOK, MutexInv, QueuedInv, HoldInv, Holds,
                ChainInv, FirstInv, LastInv, PushInv, PopFindsEvent, Critical
<1>6. ASSUME t = Main, PopLock PROVE Inv'
    <2>1. /\ pc[t] = "pop_lock" /\ pc' \in [Thread -> Label] /\ pc'[t] = "pop_take"
          /\ \A u \in Thread : u # t => pc'[u] = pc[u]
        BY <1>6, PcMoves DEF PopLock, Label, Critical
    <2> QED BY <1>6, <2>1 DEF PopLock, Lock, list, TypeOK, MutexInv, QueuedInv, HoldInv, Holds,
                ChainInv, FirstInv, LastInv, PushInv, PopFindsEvent, Critical
<1>7. ASSUME t = Main, PopUnlock PROVE Inv'
    <2>1. /\ pc[t] = "pop_unlock" /\ pc' \in [Thread -> Label] /\ pc'[t] = "idle"
          /\ \A u \in Thread : u # t => pc'[u] = pc[u]
        BY <1>7, PcMoves DEF PopUnlock, Label, Critical
    <2>2. \A u \in Thread : u # t => pc[u] \notin Critical
        BY <1>7, <2>1 DEF MutexInv, Critical
    <2>3. /\ first' = first /\ last' = last /\ event' = event /\ next' = next /\ free' = free
          /\ result' = result /\ queued' = queued /\ mutex' = NULL
          /\ node' = [node EXCEPT ![t] = NULL] /\ arg' = [arg EXCEPT ![t] = NO_EVENT]
        BY <1>7 DEF PopUnlock, Unlock, Forget, list
    <2>4. /\ node' \in [Thread -> Node \cup {NULL}] /\ arg' \in [Thread -> Event \cup {NO_EVENT}]
          /\ \A u \in Thread : u # t => node'[u] = node[u]
        BY <2>3 DEF TypeOK
    <2>5. TypeOK'
        BY <2>1, <2>3, <2>4 DEF TypeOK
    <2>6. MutexInv' /\ PopFindsEvent' /\ QueuedInv' /\ ChainInv'
        BY <2>1, <2>2, <2>3 DEF MutexInv, PopFindsEvent, QueuedInv, ChainInv, Critical
    <2>7. HoldInv' /\ PushInv'
        BY <2>1, <2>3, <2>4 DEF HoldInv, Holds, PushInv
    <2>8. FirstInv' /\ LastInv'
        BY <2>1, <2>2, <2>3, <2>4 DEF FirstInv, LastInv, Critical
    <2> QED BY <2>5, <2>6, <2>7, <2>8
<1> QED BY <1>1, <1>2, <1>3, <1>4, <1>5, <1>6, <1>7

\* Every step of every thread keeps the invariant.
LEMMA StepInv == Inv /\ [Next]_vars => Inv'
<1> SUFFICES ASSUME Inv, [Next]_vars PROVE Inv'
    OBVIOUS
<1>1. CASE Pop
    BY <1>1, MainAssumption, QuietInv, TakeInv, LastStepInv DEF Pop
<1>2. ASSUME NEW t \in Thread, Push(t) PROVE Inv'
    BY <1>2, AllocInv, LinkInv, QuietInv DEF Push
<1>3. CASE UNCHANGED vars
    BY <1>3 DEF vars, list, Inv, TypeOK, MutexInv, QueuedInv, HoldInv, Holds, ChainInv,
                FirstInv, LastInv, PushInv, PopFindsEvent
<1> QED BY <1>1, <1>2, <1>3 DEF Next

\* The invariant of the linked list holds in every behaviour of any number of threads.
THEOREM Invariance == Spec => []Inv
<1> QED BY InitInv, StepInv, PTL DEF Spec

(* A push under way pushes a real event. *)
ArgInv == \A t \in Thread : pc[t] \in {"push_lock", "push_link"} => arg[t] \in Event

\* A thread that is pushing has an event to push.
LEMMA StepArg == TypeOK /\ ArgInv /\ [Next]_vars => ArgInv'
BY MainAssumption DEF ArgInv, TypeOK, Next, Push, Pop, vars, list, PushAlloc, PushLock, PushLink,
   PushNoMemory, PushFirst, PushUnlock, IsEventWaiting, PopLock, PopTake, PopLast, PopUnlock,
   Goto, Forget

(* While no push or pop is under way the pointers describe the pushed       *)
(* events in order, and at all times every next pointer of the list does:   *)
(* for any number of threads, nodes and events.                             *)
THEOREM ListAlwaysInOrder == Spec => []ListInOrder
<1>1. Inv => ListInOrder
    <2> SUFFICES ASSUME Inv PROVE ListInOrder
        OBVIOUS
    <2>1. mutex = NULL => \A t \in Thread : pc[t] \notin Critical
        BY NullAssumption DEF Inv, MutexInv
    <2>2. mutex = NULL => pc[Main] # "pop_last" /\ \A t \in Thread : pc[t] # "push_first"
        BY <2>1, MainAssumption DEF Critical
    <2> QED BY <2>2 DEF Inv, ListInOrder, ChainInv, FirstInv, LastInv
<1> QED BY <1>1, Invariance, PTL

(* The main loop's unlocked look at the queue is never out of date when it  *)
(* pops, because no other thread takes anything out.                        *)
THEOREM PopAlwaysFindsEvent == Spec => []PopFindsEvent
<1>1. Inv => PopFindsEvent
    BY DEF Inv
<1> QED BY <1>1, Invariance, PTL
-----------------------------------------------------------------------------
(* The tail of a sequence, element by element. *)
LEMMA TailSeq ==
    ASSUME NEW S, NEW s \in Seq(S), Len(s) \in Nat \ {0}
    PROVE  Tail(s) = [k \in 1 .. Len(s) - 1 |-> s[k + 1]]
<1>1. /\ Tail(s) \in Seq(S) /\ Len(Tail(s)) = Len(s) - 1
      /\ \A k \in 1 .. Len(Tail(s)) : Tail(s)[k] = s[k + 1]
    BY HeadTailProperties
<1> DEFINE r == [k \in 1 .. Len(s) - 1 |-> s[k + 1]]
<1>2. r \in Seq(S) /\ Len(r) = Len(s) - 1 /\ \A k \in 1 .. Len(r) : r[k] = s[k + 1]
    OBVIOUS
<1> DEFINE w == Tail(s)
<1>3. w \in Seq(S) /\ Len(w) = Len(r) /\ \A k \in 1 .. Len(w) : w[k] = r[k]
    BY <1>1, <1>2
<1> HIDE DEF r, w
<1>4. w = r
    BY <1>2, <1>3
<1> QED BY <1>4 DEF r, w

\* The empty list stands for the empty queue of events.
LEMMA InitFifo == Init => Fifo!Init
BY DEF Init, Fifo!Init

(* Linking an entry is the push, taking the first entry is the pop, and     *)
(* every other step leaves the queue of events alone.                       *)
LEMMA StepFifo == Inv /\ ArgInv /\ [Next]_vars => [Fifo!Next]_(Fifo!vars)
<1> SUFFICES ASSUME Inv, ArgInv, [Next]_vars PROVE [Fifo!Next]_(Fifo!vars)
    OBVIOUS
<1> DEFINE P == [k \in 1 .. Len(queued) |-> event[queued[k]]]
<1>0. /\ queued \in Seq(Node) /\ Len(queued) \in Nat
      /\ \A k \in 1 .. Len(queued) : queued[k] \in Node
      /\ event \in [Node -> Event \cup {NO_EVENT}]
      /\ P \in Seq(Event \cup {NO_EVENT}) /\ Len(P) = Len(queued)
    <2>1. queued \in Seq(Node) /\ Len(queued) \in Nat /\ event \in [Node -> Event \cup {NO_EVENT}]
        BY DEF Inv, TypeOK
    <2>2. \A k \in 1 .. Len(queued) : queued[k] \in Node
        BY <2>1
    <2>3. \A k \in 1 .. Len(queued) : event[queued[k]] \in Event \cup {NO_EVENT}
        BY <2>1, <2>2
    <2> QED BY <2>1, <2>2, <2>3
<1>1. ASSUME NEW t \in Thread, PushLink(t) PROVE arg[t] \in Event /\ Fifo!Push(arg[t])
    <2> DEFINE n == node[t]
    <2>1. /\ n \in Node /\ queued' = Append(queued, n) /\ result' = result
          /\ event' = [event EXCEPT ![n] = arg[t]] /\ Holds(t, n)
        BY <1>1 DEF PushLink, Goto, Inv, TypeOK, Holds
    <2>2. \A k \in 1 .. Len(queued) : queued[k] # n
        BY <2>1 DEF Inv, HoldInv
    <2>3. /\ Len(queued') = Len(queued) + 1 /\ queued'[Len(queued) + 1] = n
          /\ \A k \in 1 .. Len(queued) : queued'[k] = queued[k]
        BY <1>0, <2>1
    <2>4. /\ P' = [k \in 1 .. Len(queued) + 1 |-> event'[queued'[k]]]
        BY <2>3
    <2>5. \A k \in 1 .. Len(queued) : P'[k] = P[k]
        BY <1>0, <2>1, <2>2, <2>3, <2>4
    <2>6. P'[Len(queued) + 1] = arg[t]
        BY <1>0, <2>1, <2>3, <2>4
    <2>7. Append(P, arg[t]) = [k \in 1 .. Len(queued) + 1 |->
                                  IF k = Len(queued) + 1 THEN arg[t] ELSE P[k]]
        <3> HIDE DEF P
        <3> QED BY <1>0
    <2>8. P' = Append(P, arg[t])
        <3>1. \A k \in 1 .. Len(queued) + 1 :
                  P'[k] = IF k = Len(queued) + 1 THEN arg[t] ELSE P[k]
            <4> HIDE DEF P
            <4> QED BY <1>0, <2>5, <2>6
        <3>2. P' = [k \in 1 .. Len(queued) + 1 |->
                      IF k = Len(queued) + 1 THEN arg[t] ELSE P[k]]
            BY <2>4, <3>1
        <3> QED BY <2>7, <3>2
    <2>9. arg[t] \in Event
        BY <1>1 DEF PushLink, Goto, ArgInv
    <2> QED BY <2>1, <2>8, <2>9 DEF Fifo!Push
<1>2. ASSUME PopTake PROVE Fifo!Pop
    <2>1. /\ first # NULL /\ queued # <<>> /\ first = queued[1]
          /\ event' = event /\ queued' = Tail(queued) /\ result' = event[first]
        BY <1>2, MainAssumption DEF PopTake, Goto, Inv, PopFindsEvent, FirstInv
    <2>2. /\ Len(queued) \in Nat \ {0} /\ Len(queued') = Len(queued) - 1
          /\ \A k \in 1 .. Len(queued) - 1 : queued'[k] = queued[k + 1]
        BY <1>0, <2>1
    <2>3. P # <<>> /\ Head(P) = event[first]
        <3>1. Len(P) # 0 /\ P[1] = event[queued[1]] /\ 1 \in 1 .. Len(queued)
            BY <1>0, <2>2
        <3> HIDE DEF P
        <3> QED BY <3>1, <1>0, <2>1
    <2>4. P' = [k \in 1 .. Len(queued) - 1 |-> event[queued[k + 1]]]
        BY <2>1, <2>2
    <2>5. Tail(P) = [k \in 1 .. Len(queued) - 1 |-> P[k + 1]]
        <3> HIDE DEF P
        <3> QED BY <1>0, <2>2, TailSeq
    <2>6. \A k \in 1 .. Len(queued) - 1 : P[k + 1] = event[queued[k + 1]]
        BY <1>0, <2>2
    <2>7. P' = Tail(P)
        BY <2>4, <2>5, <2>6
    <2> QED BY <2>1, <2>3, <2>7 DEF Fifo!Pop
<1>3. ASSUME UNCHANGED <<event, queued, result>> PROVE UNCHANGED Fifo!vars
    BY <1>3 DEF Fifo!vars
<1>4. CASE Pop
    BY <1>4, <1>2, <1>3 DEF Pop, Fifo!Next, IsEventWaiting, PopLock, PopLast, PopUnlock, list
<1>5. ASSUME NEW t \in Thread, Push(t), ~PushLink(t) PROVE UNCHANGED Fifo!vars
    BY <1>5, <1>3 DEF Push, PushAlloc, PushLock, PushNoMemory, PushFirst, PushUnlock, list
<1>6. CASE UNCHANGED vars
    BY <1>6, <1>3 DEF vars, list
<1>7. ASSUME NEW t \in Thread, Push(t) PROVE [Fifo!Next]_(Fifo!vars)
    <2>1. CASE PushLink(t)
        <3>1. arg[t] \in Event /\ Fifo!Push(arg[t])
            BY <1>1, <2>1
        <3>2. \E ev \in Event : Fifo!Push(ev)
            BY <3>1, Zenon DEF Fifo!Push
        <3> QED BY <3>2 DEF Fifo!Next
    <2>2. CASE ~PushLink(t)
        BY <1>5, <1>7, <2>2
    <2> QED BY <2>1, <2>2
<1> QED BY <1>4, <1>6, <1>7 DEF Next

(* eventqueue.c is a first-in first-out queue of events between the threads *)
(* that push and the main loop, for any number of threads.                  *)
THEOREM EventQueueImplementsFifo == Spec => ImplementsFifo
<1>1. Init => ArgInv
    BY DEF Init, ArgInv
<1>2. Inv => TypeOK
    BY DEF Inv
<1> QED BY <1>1, <1>2, InitInv, StepInv, StepArg, InitFifo, StepFifo, PTL
        DEF Spec, ImplementsFifo, Fifo!Spec
=============================================================================
