------------------------------ MODULE ByteFifo ------------------------------
(***************************************************************************)
(* What a ring buffer promises its callers: a bounded first-in first-out   *)
(* queue of bytes.  A write takes the whole chunk or nothing, a read       *)
(* delivers exactly the bytes it asked for or nothing, and clearing        *)
(* forgets every byte.  RingBuffer is shown to implement this module.      *)
(***************************************************************************)
EXTENDS Naturals, Sequences

CONSTANTS
    Capacity,   \* how many bytes fit
    Chunk,      \* the chunks a caller may write
    ReadLen     \* the lengths a caller may read

VARIABLES
    queue,      \* the bytes written and not yet read, oldest first
    last        \* what the last call returned: its kind, its result, its bytes

vars == <<queue, last>>

Answer(op, ok, bytes) == [op |-> op, ok |-> ok, bytes |-> bytes]

Init ==
    /\ queue = <<>>
    /\ last = Answer("clear", TRUE, <<>>)

\* A write that fits appends all of its chunk.
Put(chunk) ==
    /\ Len(queue) + Len(chunk) <= Capacity
    /\ queue' = queue \o chunk
    /\ last' = Answer("write", TRUE, <<>>)

\* A write that does not fit leaves the queue alone.
PutRefused(chunk) ==
    /\ Len(queue) + Len(chunk) > Capacity
    /\ last' = Answer("write", FALSE, <<>>)
    /\ UNCHANGED queue

\* A read of n bytes takes the n oldest.
Get(n) ==
    /\ n <= Len(queue)
    /\ last' = Answer("read", TRUE, SubSeq(queue, 1, n))
    /\ queue' = SubSeq(queue, n + 1, Len(queue))

\* A read of more bytes than there are takes none.
GetRefused(n) ==
    /\ n > Len(queue)
    /\ last' = Answer("read", FALSE, <<>>)
    /\ UNCHANGED queue

Clear ==
    /\ queue' = <<>>
    /\ last' = Answer("clear", TRUE, <<>>)

Next ==
    \/ \E chunk \in Chunk : Put(chunk) \/ PutRefused(chunk)
    \/ \E n \in ReadLen : Get(n) \/ GetRefused(n)
    \/ Clear

Spec == Init /\ [][Next]_vars
=============================================================================
