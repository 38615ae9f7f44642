----------------------------- MODULE RingBuffer -----------------------------
(***************************************************************************)
(* The ring buffer between the decoder and the audio callback              *)
(* (gmu-0.7.0/src/ringbuffer.c).  A call copies byte by byte, moving a     *)
(* pointer that wraps at the end of the buffer, while buffer_fill has      *)
(* already been changed for the whole chunk: the module has one action per *)
(* byte copied, so its states include those in the middle of a call.  The  *)
(* callers hold audio_mutex during ringbuffer_write and ringbuffer_read,   *)
(* so at most one call is in progress.                                     *)
(***************************************************************************)
EXTENDS Integers, Sequences

CONSTANTS
    Byte,       \* the values of a byte
    Size,       \* rb->size
    Chunk,      \* the chunks a caller may write
    ReadLen     \* the lengths a caller may read

ASSUME SizeAssumption    == Size \in Nat \ {0}
ASSUME ChunkAssumption   == Chunk \subseteq Seq(Byte)
ASSUME ReadLenAssumption == ReadLen \subseteq Nat

VARIABLES
    buffer,         \* rb->buffer
    read_ptr, write_ptr, buffer_fill,
    call,           \* the call in progress: "none", "write" or "read"
    data,           \* the chunk being written
    size,           \* the size argument of the call in progress
    i,              \* its loop counter
    target,         \* the bytes a read has copied out
    last            \* what the last call returned

ptrs == <<read_ptr, write_ptr, buffer_fill>>
vars == <<buffer, ptrs, call, data, size, i, target, last>>

Slot == 0 .. Size - 1

\* What malloc leaves in the buffer is never read; any byte stands for it.
Init ==
    /\ buffer \in [Slot -> Byte]
    /\ read_ptr = 0
    /\ write_ptr = 0
    /\ buffer_fill = 0
    /\ call = "none"
    /\ data = <<>>
    /\ size = 0
    /\ i = 0
    /\ target = <<>>
    /\ last = [op |-> "clear", ok |-> TRUE, bytes |-> <<>>]

\* Both loops move their pointer one slot on and wrap after the last slot.
Advance(ptr) == IF ptr < Size - 1 THEN ptr + 1 ELSE 0

\* A fault: the free space is overestimated by one byte.
FitsOneMore(n) == n <= Size - buffer_fill + 1

\* The checks at the head of the two functions.
Fits(n)      == n <= Size - buffer_fill
Available(n) == n <= buffer_fill

WriteRefused(d) ==
    /\ call = "none"
    /\ ~Fits(Len(d))
    /\ last' = [op |-> "write", ok |-> FALSE, bytes |-> <<>>]
    /\ UNCHANGED <<buffer, ptrs, call, data, size, i, target>>

\* buffer_fill grows by the whole chunk before the first byte is stored.
WriteCall(d) ==
    /\ call = "none"
    /\ Fits(Len(d))
    /\ buffer_fill' = buffer_fill + Len(d)
    /\ call' = "write"
    /\ data' = d
    /\ size' = Len(d)
    /\ i' = 0
    /\ UNCHANGED <<buffer, read_ptr, write_ptr, target, last>>

WriteByte ==
    /\ call = "write"
    /\ i < size
    /\ buffer' = [buffer EXCEPT ![write_ptr] = data[i + 1]]
    /\ write_ptr' = Advance(write_ptr)
    /\ i' = i + 1
    /\ UNCHANGED <<read_ptr, buffer_fill, call, data, size, target, last>>

WriteReturn ==
    /\ call = "write"
    /\ i = size
    /\ call' = "none"
    /\ last' = [op |-> "write", ok |-> TRUE, bytes |-> <<>>]
    /\ UNCHANGED <<buffer, ptrs, data, size, i, target>>

ReadRefused(n) ==
    /\ call = "none"
    /\ ~Available(n)
    /\ last' = [op |-> "read", ok |-> FALSE, bytes |-> <<>>]
    /\ UNCHANGED <<buffer, ptrs, call, data, size, i, target>>

\* buffer_fill shrinks by the whole size before the first byte is copied.
ReadCall(n) ==
    /\ call = "none"
    /\ Available(n)
    /\ buffer_fill' = buffer_fill - n
    /\ call' = "read"
    /\ size' = n
    /\ i' = 0
    /\ target' = <<>>
    /\ UNCHANGED <<buffer, read_ptr, write_ptr, data, last>>

ReadByte ==
    /\ call = "read"
    /\ i < size
    /\ target' = Append(target, buffer[read_ptr])
    /\ read_ptr' = Advance(read_ptr)
    /\ i' = i + 1
    /\ UNCHANGED <<buffer, write_ptr, buffer_fill, call, data, size, last>>

ReadReturn ==
    /\ call = "read"
    /\ i = size
    /\ call' = "none"
    /\ last' = [op |-> "read", ok |-> TRUE, bytes |-> target]
    /\ UNCHANGED <<buffer, ptrs, data, size, i, target>>

\* A fault: clearing forgets the write pointer.
ClearKeepsWritePtr ==
    /\ call = "none"
    /\ read_ptr' = 0
    /\ buffer_fill' = 0
    /\ last' = [op |-> "clear", ok |-> TRUE, bytes |-> <<>>]
    /\ UNCHANGED <<buffer, write_ptr, call, data, size, i, target>>

\* ringbuffer_clear, called here while no other call is in progress.
Clear ==
    /\ call = "none"
    /\ read_ptr' = 0
    /\ write_ptr' = 0
    /\ buffer_fill' = 0
    /\ last' = [op |-> "clear", ok |-> TRUE, bytes |-> <<>>]
    /\ UNCHANGED <<buffer, call, data, size, i, target>>

Next ==
    \/ \E d \in Chunk : WriteRefused(d) \/ WriteCall(d)
    \/ WriteByte \/ WriteReturn
    \/ \E n \in ReadLen : ReadRefused(n) \/ ReadCall(n)
    \/ ReadByte \/ ReadReturn
    \/ Clear

Spec == Init /\ [][Next]_vars

-----------------------------------------------------------------------------
TypeOK ==
    /\ buffer \in [Slot -> Byte]
    /\ read_ptr \in Slot
    /\ write_ptr \in Slot
    /\ buffer_fill \in 0 .. Size
    /\ call \in {"none", "write", "read"}
    /\ data \in Seq(Byte)
    /\ size \in Nat
    /\ i \in 0 .. size
    /\ target \in Seq(Byte)
    /\ last \in [op : {"write", "read", "clear"}, ok : BOOLEAN, bytes : Seq(Byte)]

\* How many bytes really lie between the pointers: in the middle of a call
\* this differs from buffer_fill, which already counts the whole chunk.
Stored ==
    IF call = "write" THEN buffer_fill - (size - i)
    ELSE IF call = "read" THEN buffer_fill + (size - i)
    ELSE buffer_fill

\* The slot k places after slot p.
Slots(p, k) == IF p + k < Size THEN p + k ELSE p + k - Size

\* The fill level and the two pointers describe the same bytes: the write
\* pointer is Stored slots after the read pointer, with wrap-around, also in
\* the middle of every call (ringbuffer_write and ringbuffer_read).
PointersAgree ==
    /\ Stored \in 0 .. Size
    /\ write_ptr = Slots(read_ptr, Stored)

\* The bytes between the pointers, oldest first.
Contents == [k \in 1 .. Stored |-> buffer[Slots(read_ptr, k - 1)]]

\* The bytes a reader of the buffer would have got when the call in progress
\* began: the abstract write or read takes effect when the call returns.
Queue ==
    IF call = "write" THEN SubSeq(Contents, 1, buffer_fill - size)
    ELSE IF call = "read" THEN target \o Contents
    ELSE Contents

Fifo == INSTANCE ByteFifo WITH Capacity <- Size, queue <- Queue

\* ringbuffer.c keeps the promise of a bounded FIFO of bytes: no byte is
\* lost, repeated or reordered, whatever the wrap-around position.
ImplementsFifo == Fifo!Spec
=============================================================================
