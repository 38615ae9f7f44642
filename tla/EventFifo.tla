----------------------------- MODULE EventFifo ------------------------------
(***************************************************************************)
(* What the event queue promises: the events the threads of the player     *)
(* push reach the main loop one by one, in the order of the pushes.        *)
(***************************************************************************)
EXTENDS Sequences

CONSTANTS Event, NO_EVENT

VARIABLES
    pending,    \* the events pushed and not yet popped, oldest first
    got         \* the event the last pop returned

vars == <<pending, got>>

Init == pending = <<>> /\ got = NO_EVENT

Push(ev) ==
    /\ pending' = Append(pending, ev)
    /\ UNCHANGED got

Pop ==
    /\ pending # <<>>
    /\ got' = Head(pending)
    /\ pending' = Tail(pending)

Next == Pop \/ \E ev \in Event : Push(ev)

Spec == Init /\ [][Next]_vars
=============================================================================
