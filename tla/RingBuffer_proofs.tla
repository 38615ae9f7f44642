------------------------- MODULE RingBuffer_proofs --------------------------
(***************************************************************************)
(* Proofs about RingBuffer, for every buffer size and every set of chunks. *)
(***************************************************************************)
EXTENDS RingBuffer, TLAPS

(* What a call in progress has claimed: the chunk being written is counted *)
(* in buffer_fill, the bytes being read no longer are but still fit.       *)
CallInv ==
    /\ call = "write" => size = Len(data) /\ size <= buffer_fill
    /\ call = "read"  => Len(target) = i /\ buffer_fill + size <= Size

Inv == TypeOK /\ PointersAgree /\ CallInv

(* Advancing a pointer moves it one slot round the buffer: the two branches *)
(* of the wrap in both copy loops of ringbuffer.c.                          *)
LEMMA AdvanceSlots ==
    ASSUME NEW p \in Slot, NEW k \in 0 .. Size - 1
    PROVE  /\ Slots(p, k) \in Slot
           /\ Slots(p, k + 1) = Advance(Slots(p, k))
           /\ Advance(p) \in Slot
           /\ Slots(p, 0) = p
           /\ Slots(Advance(p), k) = Slots(p, k + 1)
BY SizeAssumption DEF Slots, Advance, Slot

(* The initial buffer is empty with both pointers at slot 0. *)
LEMMA InitInv == Init => Inv
<1> SUFFICES ASSUME Init PROVE Inv
    OBVIOUS
<1>1. TypeOK
    BY SizeAssumption DEF Init, TypeOK, Slot
<1>2. PointersAgree
    BY SizeAssumption DEF Init, PointersAgree, Stored, Slots
<1>3. CallInv
    BY DEF Init, CallInv
<1> QED BY <1>1, <1>2, <1>3 DEF Inv

(* Every step of a call keeps the pointers and the fill level in agreement. *)
LEMMA StepInv == Inv /\ [Next]_vars => Inv'
<1> SUFFICES ASSUME Inv, [Next]_vars PROVE Inv'
    OBVIOUS
<1> USE SizeAssumption, ChunkAssumption, ReadLenAssumption
<1>1. ASSUME NEW d \in Chunk, WriteRefused(d) PROVE Inv'
    BY <1>1 DEF WriteRefused, Inv, TypeOK, PointersAgree, Stored, Slots, CallInv, ptrs, Slot
<1>2. ASSUME NEW d \in Chunk, WriteCall(d) PROVE Inv'
    <2>1. d \in Seq(Byte) /\ Len(d) \in Nat
        BY ChunkAssumption
    <2>2. TypeOK'
        BY <1>2, <2>1 DEF WriteCall, Inv, TypeOK, Fits, Slot
    <2>3. Stored' = Stored
        BY <1>2, <2>1 DEF WriteCall, Inv, TypeOK, Stored, Fits
    <2>4. PointersAgree'
        BY <1>2, <2>3 DEF WriteCall, Inv, PointersAgree, Slots
    <2>5. CallInv'
        BY <1>2, <2>1 DEF WriteCall, Inv, TypeOK, CallInv
    <2> QED BY <2>2, <2>4, <2>5 DEF Inv
<1>3. ASSUME WriteByte PROVE Inv'
    <2>1. data[i + 1] \in Byte /\ write_ptr \in Slot /\ buffer_fill \in 0 .. Size
        BY <1>3 DEF WriteByte, Inv, TypeOK, CallInv
    <2>2. Stored \in 0 .. Size - 1 /\ Stored' = Stored + 1
        BY <1>3 DEF WriteByte, Inv, TypeOK, CallInv, PointersAgree, Stored
    <2>3. write_ptr' = Slots(read_ptr, Stored + 1) /\ write_ptr' \in Slot
        BY <1>3, <2>1, <2>2, AdvanceSlots DEF WriteByte, Inv, TypeOK, PointersAgree
    <2>4. TypeOK'
        BY <1>3, <2>1, <2>3 DEF WriteByte, Inv, TypeOK
    <2>5. PointersAgree'
        BY <1>3, <2>2, <2>3 DEF WriteByte, PointersAgree, Slots
    <2>6. CallInv'
        BY <1>3 DEF WriteByte, Inv, CallInv
    <2> QED BY <2>4, <2>5, <2>6 DEF Inv
<1>4. ASSUME WriteReturn PROVE Inv'
    BY <1>4 DEF WriteReturn, Inv, TypeOK, PointersAgree, Stored, Slots, CallInv, ptrs, Slot
<1>5. ASSUME NEW n \in ReadLen, ReadRefused(n) PROVE Inv'
    BY <1>5 DEF ReadRefused, Inv, TypeOK, PointersAgree, Stored, Slots, CallInv, ptrs, Slot
<1>6. ASSUME NEW n \in ReadLen, ReadCall(n) PROVE Inv'
    <2>1. n \in Nat
        BY ReadLenAssumption
    <2>2. TypeOK'
        BY <1>6, <2>1 DEF ReadCall, Inv, TypeOK, Available, Slot
    <2>3. Stored' = Stored
        BY <1>6, <2>1 DEF ReadCall, Inv, TypeOK, Stored, Available
    <2>4. PointersAgree'
        BY <1>6, <2>3 DEF ReadCall, Inv, PointersAgree, Slots
    <2>5. CallInv'
        BY <1>6, <2>1 DEF ReadCall, Inv, TypeOK, CallInv, Available
    <2> QED BY <2>2, <2>4, <2>5 DEF Inv
<1>7. ASSUME ReadByte PROVE Inv'
    <2>1. buffer[read_ptr] \in Byte /\ read_ptr \in Slot
        BY <1>7 DEF ReadByte, Inv, TypeOK
    <2>2. Stored \in 1 .. Size /\ Stored' = Stored - 1
        BY <1>7 DEF ReadByte, Inv, TypeOK, CallInv, PointersAgree, Stored
    <2>3. read_ptr' \in Slot /\ Slots(read_ptr', Stored - 1) = Slots(read_ptr, Stored)
        BY <1>7, <2>1, <2>2, AdvanceSlots DEF ReadByte
    <2>4. TypeOK'
        BY <1>7, <2>1, <2>3 DEF ReadByte, Inv, TypeOK
    <2>5. PointersAgree'
        BY <1>7, <2>2, <2>3 DEF ReadByte, Inv, PointersAgree, Slots
    <2>6. CallInv'
        BY <1>7 DEF ReadByte, Inv, CallInv, TypeOK
    <2> QED BY <2>4, <2>5, <2>6 DEF Inv
<1>8. ASSUME ReadReturn PROVE Inv'
    BY <1>8 DEF ReadReturn, Inv, TypeOK, PointersAgree, Stored, Slots, CallInv, ptrs, Slot
<1>9. ASSUME Clear PROVE Inv'
    <2>1. TypeOK'
        BY <1>9 DEF Clear, Inv, TypeOK, Slot
    <2>2. PointersAgree' /\ CallInv'
        BY <1>9 DEF Clear, PointersAgree, Stored, Slots, CallInv
    <2> QED BY <2>1, <2>2 DEF Inv
<1>10. ASSUME UNCHANGED vars PROVE Inv'
    BY <1>10 DEF vars, ptrs, Inv, TypeOK, PointersAgree, Stored, Slots, CallInv, Slot
<1> QED BY <1>1, <1>2, <1>3, <1>4, <1>5, <1>6, <1>7, <1>8, <1>9, <1>10 DEF Next

\* Types, pointers and the call in progress agree in every behaviour.
THEOREM Invariance == Spec => []Inv
<1> QED BY InitInv, StepInv, PTL DEF Spec

(* For every size of buffer and every sequence of calls, the fill level and *)
(* the two pointers of ringbuffer.c describe the same bytes.                *)
THEOREM PointersAlwaysAgree == Spec => []PointersAgree
<1>1. Inv => PointersAgree
    BY DEF Inv
<1> QED BY <1>1, Invariance, PTL
-----------------------------------------------------------------------------
(* The bytes copied so far by a write are in place behind those that were   *)
(* there before, and the call's argument is one a caller may pass.          *)
CopyInv ==
    /\ call = "write" => /\ data \in Chunk
                         /\ \A k \in 1 .. i : Contents[buffer_fill - size + k] = data[k]
    /\ call = "read"  => size \in ReadLen

(* Contents is a sequence of Stored bytes. *)
ContentsInv ==
    /\ Contents \in Seq(Byte)
    /\ Len(Contents) = Stored
    /\ Stored \in 0 .. Size
    /\ \A k \in 1 .. Stored : Contents[k] = buffer[Slots(read_ptr, k - 1)]

\* The bytes between the pointers are a sequence of bytes.
LEMMA ContentsSeq == Inv => ContentsInv
<1> SUFFICES ASSUME Inv PROVE ContentsInv
    OBVIOUS
<1>1. Stored \in 0 .. Size /\ read_ptr \in Slot /\ buffer \in [Slot -> Byte]
    BY DEF Inv, TypeOK, PointersAgree
<1>2. \A k \in 1 .. Stored : Slots(read_ptr, k - 1) \in Slot
    BY <1>1, AdvanceSlots, SizeAssumption
<1>3. \A k \in 1 .. Stored : buffer[Slots(read_ptr, k - 1)] \in Byte
    BY <1>1, <1>2
<1>4. Contents \in [1 .. Stored -> Byte]
    BY <1>3 DEF Contents
<1> QED BY <1>1, <1>4 DEF ContentsInv, Contents

(* Storing a byte at the write pointer leaves the bytes already there alone *)
(* and puts the new one behind them.                                        *)
LEMMA StoreByte ==
    ASSUME Inv, WriteByte
    PROVE  /\ Stored' = Stored + 1
           /\ \A k \in 1 .. Stored : Contents'[k] = Contents[k]
           /\ Contents'[Stored + 1] = data[i + 1]
<1>1. /\ Stored \in 0 .. Size - 1 /\ Stored' = Stored + 1
      /\ read_ptr \in Slot /\ write_ptr \in Slot
      /\ buffer \in [Slot -> Byte]
      /\ read_ptr' = read_ptr
      /\ buffer' = [buffer EXCEPT ![write_ptr] = data[i + 1]]
      /\ write_ptr = Slots(read_ptr, Stored)
    BY SizeAssumption DEF WriteByte, Inv, TypeOK, CallInv, PointersAgree, Stored
<1>2. Contents' = [k \in 1 .. Stored + 1 |-> buffer'[Slots(read_ptr, k - 1)]]
    BY <1>1 DEF Contents, Slots
<1>3. \A k \in 1 .. Stored : /\ Slots(read_ptr, k - 1) \in Slot
                              /\ Slots(read_ptr, k - 1) # write_ptr
    BY <1>1, SizeAssumption DEF Slots, Slot
<1>4. \A k \in 1 .. Stored : Contents'[k] = Contents[k]
    BY <1>1, <1>2, <1>3 DEF Contents
<1>5. Contents'[Stored + 1] = data[i + 1]
    BY <1>1, <1>2
<1> QED BY <1>1, <1>4, <1>5

\* What a call has copied so far is what it was to copy, after every step.
LEMMA StepCopy == Inv /\ CopyInv /\ [Next]_vars => CopyInv'
<1> SUFFICES ASSUME Inv, CopyInv, [Next]_vars PROVE CopyInv'
    OBVIOUS
<1>1. ASSUME NEW d \in Chunk, WriteRefused(d) PROVE CopyInv'
    BY <1>1 DEF WriteRefused, CopyInv
<1>2. ASSUME NEW d \in Chunk, WriteCall(d) PROVE CopyInv'
    BY <1>2 DEF WriteCall, CopyInv
<1>3. ASSUME WriteByte PROVE CopyInv'
    <2>1. /\ size \in Nat /\ i \in 0 .. size - 1 /\ buffer_fill \in Nat /\ size <= buffer_fill
          /\ Stored = buffer_fill - size + i
          /\ call' = call /\ data' = data /\ size' = size /\ buffer_fill' = buffer_fill
          /\ i' = i + 1 /\ call = "write"
        BY <1>3 DEF WriteByte, Inv, TypeOK, CallInv, Stored
    <2>2. ASSUME NEW k \in 1 .. i' PROVE Contents'[buffer_fill - size + k] = data[k]
        <3>1. CASE k = i + 1
            BY <3>1, <2>1, <1>3, StoreByte
        <3>2. CASE k # i + 1
            <4>1. k \in 1 .. i /\ buffer_fill - size + k \in 1 .. Stored
                BY <3>2, <2>1
            <4> QED BY <4>1, <2>1, <1>3, StoreByte DEF CopyInv
        <3> QED BY <3>1, <3>2
    <2> QED BY <2>1, <2>2 DEF CopyInv
<1>4. ASSUME WriteReturn PROVE CopyInv'
    BY <1>4 DEF WriteReturn, CopyInv
<1>5. ASSUME NEW n \in ReadLen, ReadRefused(n) PROVE CopyInv'
    BY <1>5 DEF ReadRefused, CopyInv
<1>6. ASSUME NEW n \in ReadLen, ReadCall(n) PROVE CopyInv'
    BY <1>6 DEF ReadCall, CopyInv
<1>7. ASSUME ReadByte PROVE CopyInv'
    BY <1>7 DEF ReadByte, CopyInv
<1>8. ASSUME ReadReturn PROVE CopyInv'
    BY <1>8 DEF ReadReturn, CopyInv
<1>9. ASSUME Clear PROVE CopyInv'
    BY <1>9 DEF Clear, CopyInv
<1>10. ASSUME UNCHANGED vars PROVE CopyInv'
    <2>1. Contents' = Contents
        BY <1>10 DEF vars, ptrs, Contents, Stored, Slots
    <2> QED BY <2>1, <1>10 DEF vars, ptrs, CopyInv
<1> QED BY <1>1, <1>2, <1>3, <1>4, <1>5, <1>6, <1>7, <1>8, <1>9, <1>10 DEF Next
-----------------------------------------------------------------------------
(* Two sequences of the same length with the same elements are equal. *)
LEMMA SameSeq ==
    ASSUME NEW s \in Seq(Byte), NEW t \in Seq(Byte), Len(s) = Len(t),
           \A k \in 1 .. Len(s) : s[k] = t[k]
    PROVE  s = t
OBVIOUS

(* Appending two sequences, and taking the parts apart again. *)
LEMMA Parts ==
    ASSUME NEW s \in Seq(Byte), NEW t \in Seq(Byte)
    PROVE  /\ s \o t \in Seq(Byte)
           /\ Len(s \o t) = Len(s) + Len(t)
           /\ \A k \in 1 .. Len(s) : (s \o t)[k] = s[k]
           /\ \A k \in Len(s) + 1 .. Len(s) + Len(t) : (s \o t)[k] = t[k - Len(s)]
           /\ SubSeq(s \o t, 1, Len(s)) = s
           /\ SubSeq(s \o t, Len(s) + 1, Len(s) + Len(t)) = t
<1>1. /\ s \o t \in Seq(Byte) /\ Len(s \o t) = Len(s) + Len(t)
      /\ Len(s) \in Nat /\ Len(t) \in Nat
      /\ \A k \in 1 .. Len(s) : (s \o t)[k] = s[k]
      /\ \A k \in Len(s) + 1 .. Len(s) + Len(t) : (s \o t)[k] = t[k - Len(s)]
    OBVIOUS
<1>2. /\ SubSeq(s \o t, 1, Len(s)) \in Seq(Byte)
      /\ Len(SubSeq(s \o t, 1, Len(s))) = Len(s)
      /\ \A k \in 1 .. Len(s) : SubSeq(s \o t, 1, Len(s))[k] = (s \o t)[k]
    BY <1>1
<1>3. SubSeq(s \o t, 1, Len(s)) = s
    BY <1>1, <1>2, SameSeq
<1> DEFINE r == SubSeq(s \o t, Len(s) + 1, Len(s) + Len(t))
<1>4. /\ r \in Seq(Byte)
      /\ Len(r) = Len(t)
      /\ \A k \in 1 .. Len(t) : r[k] = (s \o t)[Len(s) + k]
    BY <1>1
<1>5. \A k \in 1 .. Len(t) : (s \o t)[Len(s) + k] = t[k]
    BY <1>1
<1> HIDE DEF r
<1>6. \A k \in 1 .. Len(r) : r[k] = t[k]
    BY <1>4, <1>5
<1>7. r = t
    BY <1>4, <1>6, SameSeq
<1> QED BY <1>1, <1>3, <1>7 DEF r

\* The cleared buffer stands for the empty FIFO.
LEMMA InitFifo == Init => Fifo!Init
<1> SUFFICES ASSUME Init PROVE Fifo!Init
    OBVIOUS
<1>1. Stored = 0 /\ call = "none"
    BY DEF Init, Stored
<1>2. Contents = <<>>
    BY <1>1 DEF Contents
<1> QED BY <1>1, <1>2 DEF Init, Fifo!Init, Fifo!Answer, Queue

(* Each step of a call is a step of the FIFO or leaves it alone: a call has *)
(* its effect on the FIFO in the step in which it returns.                  *)
LEMMA StepFifo ==
    Inv /\ ContentsInv /\ ContentsInv' /\ CopyInv /\ [Next]_vars => [Fifo!Next]_(Fifo!vars)
<1> SUFFICES ASSUME Inv, ContentsInv, ContentsInv', CopyInv, [Next]_vars
             PROVE  [Fifo!Next]_(Fifo!vars)
    OBVIOUS
<1> USE SizeAssumption, ChunkAssumption, ReadLenAssumption
<1>0. /\ Contents \in Seq(Byte) /\ Len(Contents) = Stored /\ Stored \in 0 .. Size
      /\ \A k \in 1 .. Stored : Contents[k] = buffer[Slots(read_ptr, k - 1)]
    BY DEF ContentsInv
<1>00. /\ Contents' \in Seq(Byte) /\ Len(Contents') = Stored' /\ Stored' \in 0 .. Size
       /\ \A k \in 1 .. Stored' : Contents'[k] = buffer'[Slots(read_ptr, k - 1)']
    BY DEF ContentsInv
<1>1. ASSUME NEW d \in Chunk, WriteRefused(d) PROVE Fifo!PutRefused(d)
    <2>1. Queue = Contents /\ Stored = buffer_fill
        BY <1>1 DEF WriteRefused, Queue, Stored
    <2>2. Queue' = Queue
        BY <1>1 DEF WriteRefused, ptrs, Queue, Contents, Stored, Slots
    <2>3. Len(d) > Size - buffer_fill /\ Len(d) \in Nat /\ buffer_fill \in Nat
        BY <1>1 DEF WriteRefused, Fits, Inv, TypeOK
    <2> QED BY <1>1, <1>0, <2>1, <2>2, <2>3 DEF WriteRefused, Fifo!PutRefused, Fifo!Answer
<1>2. ASSUME NEW d \in Chunk, WriteCall(d) PROVE UNCHANGED Fifo!vars
    <2>1. Queue = Contents /\ Stored = buffer_fill
        BY <1>2 DEF WriteCall, Queue, Stored
    <2>2. Stored' = Stored /\ Contents' = Contents
        BY <1>2 DEF WriteCall, Inv, TypeOK, Contents, Stored, Slots
    <2>3. buffer_fill' - size' = Stored /\ call' = "write"
        BY <1>2, <2>1 DEF WriteCall, Inv, TypeOK
    <2>4. Queue' = SubSeq(Contents, 1, Len(Contents))
        BY <1>0, <2>2, <2>3 DEF Queue
    <2>5. Queue' = Queue
        BY <1>0, <2>1, <2>4
    <2> QED BY <1>2, <2>5 DEF WriteCall, Fifo!vars
<1>3. ASSUME WriteByte PROVE UNCHANGED Fifo!vars
    <2> DEFINE n == buffer_fill - size
    <2>1. /\ n \in 0 .. Stored /\ call = "write" /\ call' = "write"
          /\ buffer_fill' - size' = n
        BY <1>3 DEF WriteByte, Inv, TypeOK, CallInv, Stored
    <2>2. Stored' = Stored + 1 /\ \A k \in 1 .. Stored : Contents'[k] = Contents[k]
        BY <1>3, StoreByte
    <2>3. Queue = SubSeq(Contents, 1, n) /\ Queue' = SubSeq(Contents', 1, n)
        BY <2>1 DEF Queue
    <2>4. /\ Queue \in Seq(Byte) /\ Len(Queue) = n
          /\ \A k \in 1 .. n : Queue[k] = Contents[k]
        BY <1>0, <2>1, <2>3
    <2>5. /\ Queue' \in Seq(Byte) /\ Len(Queue') = n
          /\ \A k \in 1 .. n : Queue'[k] = Contents'[k]
        BY <1>0, <1>00, <2>1, <2>2, <2>3
    <2>6. \A k \in 1 .. n : Queue'[k] = Queue[k]
        BY <1>0, <2>1, <2>2, <2>4, <2>5
    <2>7. Queue' = Queue
        BY <2>4, <2>5, <2>6, SameSeq
    <2> QED BY <1>3, <2>7 DEF WriteByte, Fifo!vars
<1>4. ASSUME WriteReturn PROVE Fifo!Put(data)
    <2> DEFINE n == buffer_fill - size
    <2>1. /\ call = "write" /\ call' = "none" /\ i = size /\ Stored = buffer_fill
          /\ data \in Seq(Byte) /\ Len(data) = size /\ n \in 0 .. Stored
          /\ size \in Nat /\ n \in Nat /\ Stored = n + size
        BY <1>4 DEF WriteReturn, Inv, TypeOK, CallInv, Stored
    <2>2. Queue = SubSeq(Contents, 1, n)
        BY <2>1 DEF Queue
    <2>3. Contents' = Contents
        BY <1>4, <2>1 DEF WriteReturn, ptrs, Contents, Stored, Slots
    <2>4. Queue' = Contents
        BY <2>1, <2>3 DEF Queue
    <2>5. /\ Queue \in Seq(Byte) /\ Len(Queue) = n
          /\ \A k \in 1 .. n : Queue[k] = Contents[k]
        BY <1>0, <2>1, <2>2
    <2>6. \A k \in 1 .. size : Contents[n + k] = data[k]
        BY <2>1 DEF CopyInv
    <2>7. /\ Queue \o data \in Seq(Byte) /\ Len(Queue \o data) = Len(Contents)
          /\ \A k \in 1 .. n : (Queue \o data)[k] = Queue[k]
          /\ \A k \in n + 1 .. n + size : (Queue \o data)[k] = data[k - n]
        <3>1. /\ Queue \o data \in Seq(Byte) /\ Len(Queue \o data) = Len(Queue) + Len(data)
              /\ \A k \in 1 .. Len(Queue) : (Queue \o data)[k] = Queue[k]
              /\ \A k \in Len(Queue) + 1 .. Len(Queue) + Len(data) :
                    (Queue \o data)[k] = data[k - Len(Queue)]
            <4>1. Queue \in Seq(Byte) /\ data \in Seq(Byte)
                BY <2>1, <2>5
            <4> QED BY <4>1, Parts, Zenon
        <3>2. Len(Queue) = n /\ Len(data) = size /\ Len(Contents) = n + size
            BY <1>0, <2>1, <2>5
        <3> QED BY <3>1, <3>2, Zenon
    <2>8. \A k \in n + 1 .. n + size : Contents[k] = data[k - n]
        <3>1. SUFFICES ASSUME NEW k \in n + 1 .. n + size PROVE Contents[k] = data[k - n]
            OBVIOUS
        <3>2. k - n \in 1 .. size /\ n + (k - n) = k
            BY <2>1
        <3> QED BY <3>2, <2>6
    <2>9. \A k \in 1 .. Len(Contents) : Contents[k] = (Queue \o data)[k]
        <3>1. SUFFICES ASSUME NEW k \in 1 .. Len(Contents) PROVE Contents[k] = (Queue \o data)[k]
            OBVIOUS
        <3>2. n \in Nat /\ size \in Nat /\ k \in 1 .. n + size
            BY <1>0, <2>1
        <3>3. CASE k \in 1 .. n
            BY <2>5, <2>7, <3>3
        <3>4. CASE k \in n + 1 .. n + size
            BY <2>7, <2>8, <3>4
        <3> HIDE DEF n
        <3>5. k \in 1 .. n \/ k \in n + 1 .. n + size
            BY <3>2
        <3> QED BY <3>3, <3>4, <3>5
    <2>10. Contents = Queue \o data
        BY <1>0, <2>7, <2>9, SameSeq
    <2>11. Len(Queue) + Len(data) <= Size
        BY <1>0, <2>1, <2>5
    <2> QED BY <1>4, <2>4, <2>10, <2>11 DEF WriteReturn, Fifo!Put, Fifo!Answer
<1>5. ASSUME NEW n \in ReadLen, ReadRefused(n) PROVE Fifo!GetRefused(n)
    <2>1. Queue = Contents /\ Stored = buffer_fill
        BY <1>5 DEF ReadRefused, Queue, Stored
    <2>2. Queue' = Queue
        BY <1>5 DEF ReadRefused, ptrs, Queue, Contents, Stored, Slots
    <2>3. n > buffer_fill
        BY <1>5 DEF ReadRefused, Available, Inv, TypeOK
    <2> QED BY <1>5, <1>0, <2>1, <2>2, <2>3 DEF ReadRefused, Fifo!GetRefused, Fifo!Answer
<1>6. ASSUME NEW n \in ReadLen, ReadCall(n) PROVE UNCHANGED Fifo!vars
    <2>1. Queue = Contents
        BY <1>6 DEF ReadCall, Queue
    <2>2. Stored' = Stored /\ Contents' = Contents
        BY <1>6 DEF ReadCall, Inv, TypeOK, Contents, Stored, Slots
    <2>3. Queue' = <<>> \o Contents
        BY <1>6, <2>2 DEF ReadCall, Queue
    <2>4. Queue' = Queue
        BY <1>0, <2>1, <2>3
    <2> QED BY <1>6, <2>4 DEF ReadCall, Fifo!vars
<1>7. ASSUME ReadByte PROVE UNCHANGED Fifo!vars
    <2>1. /\ call = "read" /\ call' = "read" /\ Stored \in 1 .. Size /\ Stored' = Stored - 1
          /\ target \in Seq(Byte) /\ read_ptr \in Slot /\ read_ptr' = Advance(read_ptr)
          /\ buffer' = buffer /\ buffer \in [Slot -> Byte]
          /\ target' = Append(target, buffer[read_ptr])
        BY <1>7 DEF ReadByte, Inv, TypeOK, CallInv, Stored, PointersAgree
    <2>2. Queue = target \o Contents /\ Queue' = target' \o Contents'
        BY <2>1 DEF Queue
    <2>3. Contents[1] = buffer[read_ptr]
        BY <1>0, <2>1, AdvanceSlots
    <2>4. \A k \in 1 .. Stored' : Contents'[k] = Contents[k + 1]
        <3>1. SUFFICES ASSUME NEW k \in 1 .. Stored' PROVE Contents'[k] = Contents[k + 1]
            OBVIOUS
        <3>2. k - 1 \in 0 .. Size - 1 /\ k + 1 \in 1 .. Stored /\ (k + 1) - 1 = (k - 1) + 1
            BY <2>1
        <3>3. Slots(Advance(read_ptr), k - 1) = Slots(read_ptr, (k - 1) + 1)
            BY <2>1, <3>2, AdvanceSlots
        <3>4. Contents'[k] = buffer[Slots(Advance(read_ptr), k - 1)]
            BY <2>1, <1>00 DEF Slots
        <3> QED BY <1>0, <3>2, <3>3, <3>4
    <2>5. /\ Queue \in Seq(Byte) /\ Queue' \in Seq(Byte) /\ Len(Queue') = Len(Queue)
          /\ Len(Queue) = Len(target) + Stored
        <3>1. target' \in Seq(Byte) /\ Len(target') = Len(target) + 1
            BY <2>1, <1>7 DEF Inv, TypeOK
        <3>2. Queue \in Seq(Byte) /\ Len(Queue) = Len(target) + Stored
            BY <1>0, <2>1, <2>2, Parts
        <3>3. Queue' \in Seq(Byte) /\ Len(Queue') = Len(target') + Stored'
            BY <1>00, <2>2, <3>1, Parts
        <3> QED BY <3>1, <3>2, <3>3, <2>1
    <2>6. \A k \in 1 .. Len(Queue) : Queue'[k] = Queue[k]
        <3>1. SUFFICES ASSUME NEW k \in 1 .. Len(Queue) PROVE Queue'[k] = Queue[k]
            OBVIOUS
        <3> DEFINE t == Len(target)
        <3>2. t \in Nat /\ Len(target') = t + 1 /\ target' \in Seq(Byte)
            BY <2>1, <1>7 DEF Inv, TypeOK
        <3>21. /\ \A m \in 1 .. t : Queue[m] = target[m]
               /\ \A m \in t + 1 .. t + Stored : Queue[m] = Contents[m - t]
               /\ \A m \in 1 .. t + 1 : Queue'[m] = target'[m]
               /\ \A m \in t + 2 .. t + 1 + Stored' : Queue'[m] = Contents'[m - (t + 1)]
            <4>1. target \in Seq(Byte) /\ Contents \in Seq(Byte) /\ Len(Contents) = Stored
                BY <1>0, <2>1
            <4>2. target' \in Seq(Byte) /\ Contents' \in Seq(Byte) /\ Len(Contents') = Stored'
                BY <1>00, <3>2
            <4>3. /\ \A m \in 1 .. t : Queue[m] = target[m]
                  /\ \A m \in t + 1 .. t + Stored : Queue[m] = Contents[m - t]
                BY <4>1, <2>2, Parts, Zenon
            <4>4. /\ \A m \in 1 .. Len(target') : Queue'[m] = target'[m]
                  /\ \A m \in Len(target') + 1 .. Len(target') + Stored' :
                        Queue'[m] = Contents'[m - Len(target')]
                BY <4>2, <2>2, Parts, Zenon
            <4>5. Len(target') + 1 = t + 2
                BY <3>2
            <4> QED BY <4>3, <4>4, <4>5, <3>2, Zenon
        <3>22. target'[t + 1] = buffer[read_ptr] /\ \A m \in 1 .. t : target'[m] = target[m]
            BY <2>1
        <3>3. CASE k <= t
            BY <3>2, <3>21, <3>22, <3>3
        <3>4. CASE k = t + 1
            BY <2>1, <2>3, <3>2, <3>21, <3>22, <3>4
        <3>5. CASE k > t + 1
            <4>1. k - t - 1 \in 1 .. Stored' /\ (k - t - 1) + 1 = k - t
                BY <2>1, <2>5, <3>2, <3>5
            <4>2. Queue'[k] = Contents'[k - t - 1]
                <5>1. k \in t + 2 .. t + 1 + Stored' /\ k - (t + 1) = k - t - 1
                    BY <2>1, <2>5, <3>2, <3>5
                <5> QED BY <5>1, <3>21
            <4>3. Queue[k] = Contents[k - t]
                BY <2>1, <2>5, <3>2, <3>21, <3>5
            <4> QED BY <2>4, <4>1, <4>2, <4>3
        <3> QED BY <3>2, <3>3, <3>4, <3>5, <2>5
    <2>7. Queue' = Queue
        BY <2>5, <2>6, SameSeq
    <2> QED BY <1>7, <2>7 DEF ReadByte, Fifo!vars
<1>8. ASSUME ReadReturn PROVE size \in ReadLen /\ Fifo!Get(size)
    <2>1. /\ call = "read" /\ call' = "none" /\ i = size /\ size \in ReadLen
          /\ target \in Seq(Byte) /\ Len(target) = size
        BY <1>8 DEF ReadReturn, Inv, TypeOK, CallInv, CopyInv
    <2>2. Queue = target \o Contents
        BY <2>1 DEF Queue
    <2>3. Contents' = Contents
        BY <1>8, <2>1 DEF ReadReturn, Inv, TypeOK, ptrs, Contents, Stored, Slots
    <2>4. Queue' = Contents
        BY <2>1, <2>3 DEF Queue
    <2>5. /\ Len(Queue) = size + Stored
          /\ SubSeq(Queue, 1, size) = target
        BY <1>0, <2>1, <2>2, Parts
    <2>6. SubSeq(Queue, size + 1, Len(Queue)) = Contents
        BY <1>0, <2>1, <2>2, <2>5, Parts
    <2>7. size <= Len(Queue)
        BY <1>0, <2>1, <2>5
    <2> QED BY <1>8, <2>1, <2>4, <2>5, <2>6, <2>7 DEF ReadReturn, Fifo!Get, Fifo!Answer
<1>9. ASSUME Clear PROVE Fifo!Clear
    <2>1. Stored' = 0 /\ call' = "none"
        BY <1>9 DEF Clear, Stored
    <2>2. Queue' = <<>>
        BY <2>1 DEF Queue, Contents
    <2> QED BY <1>9, <2>2 DEF Clear, Fifo!Clear, Fifo!Answer
<1>10. ASSUME UNCHANGED vars PROVE UNCHANGED Fifo!vars
    BY <1>10 DEF vars, ptrs, Queue, Contents, Stored, Slots, Fifo!vars
<1>11. ASSUME WriteReturn PROVE data \in Chunk
    BY <1>11 DEF WriteReturn, CopyInv
<1> QED
    BY <1>1, <1>2, <1>3, <1>4, <1>5, <1>6, <1>7, <1>8, <1>9, <1>10, <1>11
    DEF Next, Fifo!Next

(* ringbuffer.c is a bounded FIFO of bytes, for every size and every        *)
(* sequence of calls: no byte is lost, repeated or reordered.               *)
THEOREM RingBufferImplementsFifo == Spec => ImplementsFifo
<1>1. Init => CopyInv
    BY DEF Init, CopyInv
<1> QED BY <1>1, InitInv, StepInv, StepCopy, ContentsSeq, InitFifo, StepFifo, PTL
        DEF Spec, ImplementsFifo, Fifo!Spec
=============================================================================
