-------------------------- MODULE StreamCache_proofs --------------------------
(***************************************************************************)
(* Proofs about StreamCache, for any sizes of the buffer, the file and the *)
(* limits.  What the two processes store is always consistent for the one  *)
(* that stores it; the invariant says what it is for the other one.        *)
(***************************************************************************)
EXTENDS StreamCache, TLAPS

Dropping == {"drop_min", "drop_offset"}

\* Between finding that there is something to read and having read it.
Reading == {"look_min", "take", "copy"}

\* The slot of a position near the offset.
SlotOf(p) == IF p < offset THEN p - offset + BufferSize ELSE p - offset

(* The types the other parts rest on, and what keeps read_filepos inside of  *)
(* the file: there has been a sector where the reader reads.                 *)
Types ==
    /\ buffer \in [Slot -> Place \cup {Nothing}]
    /\ min_filepos \in Place /\ max_filepos \in Place /\ read_filepos \in Place
    /\ offset \in Nat /\ stream_pos \in Place
    /\ seek_limit \in Nat /\ min \in Nat /\ seek_limit <= BufferSize - FillLimit
    /\ f_at \in FillerLabel /\ r_at \in ReaderLabel
    /\ read \in Place /\ pos \in Nat /\ space \in Nat /\ len \in Nat
    /\ seen_max \in Place /\ slot \in Int
    /\ data \in Place \cup {Nothing, NoSector}
    /\ r_at \in Reading \cup {"advance"} => read_filepos < seen_max

Flags ==
    /\ eof \in BOOLEAN /\ stream_eof \in BOOLEAN /\ raced \in BOOLEAN
    /\ r_at \in Reading \cup {"look", "eof", "end", "advance"} => ~stream_eof

(* The positions: the window is no larger than the buffer, it ends less than *)
(* a buffer after offset, and a fill fits between its end and the sectors    *)
(* that are kept.                                                            *)
PlacesInv ==
    /\ f_at = "fill" => read = 0
    /\ f_at = "drop_min" => max_filepos = read
    /\ f_at = "drop_offset" => max_filepos = read /\ min_filepos = read
    /\ f_at \notin Dropping =>
         /\ min_filepos <= max_filepos /\ max_filepos - min_filepos <= BufferSize
         /\ offset <= max_filepos
         /\ f_at = "offset" => max_filepos - offset = BufferSize
         /\ f_at # "offset" => max_filepos - offset < BufferSize
         /\ f_at \in {"copy", "max"} => stream_pos = max_filepos + len
         /\ f_at \notin {"copy", "max"} => stream_pos = max_filepos
    /\ f_at = "space" => read >= min_filepos /\ (read <= max_filepos \/ read < max_filepos + seek_limit)
    /\ f_at \in {"copy", "max"} =>
         /\ pos = max_filepos - offset /\ len <= space /\ pos + space <= BufferSize
         /\ max_filepos + space - min_filepos <= BufferSize

(* The contents: what is in the window, and what a fill has added to it.     *)
WindowInv ==
    /\ f_at \notin Dropping => \A p \in min_filepos .. max_filepos - 1 : buffer[SlotOf(p)] = p
    /\ f_at \in {"copy", "max"} => \A i \in 0 .. len - 1 : buffer[pos + i] = max_filepos + i

(* As long as the lock has not been needed the filler is never ahead of the  *)
(* reader in what it gives up, and never drops what the reader reads.        *)
ReaderInv ==
    /\ min_filepos <= read_filepos /\ read <= read_filepos
    /\ r_at \in Reading => read_filepos < max_filepos /\ f_at \notin Dropping
    /\ r_at = "copy" => slot = SlotOf(read_filepos)
    /\ r_at # "crashed"

(* Nor does it report an end the reader has not reached.                     *)
EndInv ==
    /\ eof => max_filepos = Length /\ f_at \notin Dropping
    /\ r_at = "eof" /\ eof => read_filepos >= Length
    /\ r_at = "end" => read_filepos >= Length

NoRaceInv == ~raced => ReaderInv /\ EndInv

Inv == Types /\ Flags /\ PlacesInv /\ WindowInv /\ NoRaceInv

\* The sizes (cache_init).
LEMMA Sizes ==
    /\ BufferSize \in Nat /\ BackSize \in Nat /\ FillLimit \in Nat /\ MaxFill \in Nat
    /\ MaxFill > 0 /\ MaxFill <= FillLimit /\ FillLimit + BackSize <= BufferSize
    /\ Length \in Nat /\ Place = 0 .. Length /\ Slot = 0 .. BufferSize - 1
    /\ Target \subseteq Place
    /\ Nothing \in Int
BY SizeAssumption, RequestAssumption DEF Place, Slot, Nothing

\* Positions less than a buffer away from the offset have different slots if
\* they are less than a buffer apart.
LEMMA SlotsDiffer ==
    ASSUME NEW p \in Int, NEW q \in Int, NEW o \in Int, NEW b \in Nat,
           p < q, q - p < b, p >= o - b, q - o < b
    PROVE  /\ (IF p < o THEN p - o + b ELSE p - o) \in 0 .. b - 1
           /\ (IF p < o THEN p - o + b ELSE p - o) # (IF q < o THEN q - o + b ELSE q - o)
OBVIOUS

\* The filler decides what to do (cache_fill).
LEMMA SnapshotInv == ASSUME Types, PlacesInv, WindowInv, Snapshot PROVE Types' /\ PlacesInv' /\ WindowInv'
<1> USE Sizes DEF Types, PlacesInv, Dropping
<1>a. /\ f_at = "fill" /\ read' = read_filepos
      /\ \/ OutOfReach(read_filepos) /\ max_filepos' = read_filepos /\ f_at' = "drop_min"
         \/ ~OutOfReach(read_filepos) /\ f_at' = "space" /\ max_filepos' = max_filepos
      /\ UNCHANGED <<buffer, min_filepos, offset, read_filepos, seek_limit, min, pos, space, len,
                     stream_pos, r_at, seen_max, slot, data>>
    BY DEF Snapshot, FillerAt, limits, reader
<1>1. Types'
    BY <1>a DEF FillerLabel
<1>2. PlacesInv'
    BY <1>a DEF OutOfReach
<1>3. WindowInv'
    BY <1>a DEF WindowInv, SlotOf
<1> QED
    BY <1>1, <1>2, <1>3

\* The filler starts again somewhere else.
LEMMA DropInv ==
    ASSUME Types, PlacesInv, WindowInv, DropMin \/ DropOffset
    PROVE  Types' /\ PlacesInv' /\ WindowInv'
<1> USE Sizes DEF Types, PlacesInv, Dropping
<1>a. /\ \/ /\ f_at = "drop_min" /\ f_at' = "drop_offset" /\ min_filepos' = read
            /\ UNCHANGED <<offset, stream_pos>>
         \/ /\ f_at = "drop_offset" /\ f_at' = "space" /\ offset' = read /\ stream_pos' = read
            /\ UNCHANGED min_filepos
      /\ UNCHANGED <<buffer, max_filepos, read_filepos, seek_limit, min, read, pos, space, len,
                     r_at, seen_max, slot, data>>
    BY DEF DropMin, DropOffset, FillerAt, limits, reader
<1>1. Types'
    BY <1>a DEF FillerLabel
<1>2. PlacesInv'
    BY <1>a
<1>3. WindowInv'
    BY <1>a DEF WindowInv, SlotOf
<1> QED
    BY <1>1, <1>2, <1>3

\* What cache_fill computes before it reads: the piece fits behind the window,
\* and what it keeps leaves room for it, the more so because the seek limit has
\* been clamped.
LEMMA PieceFits ==
    ASSUME Types, PlacesInv, f_at = "space", Free >= FillLimit
    PROVE  /\ FillSlot(max_filepos) = max_filepos - offset
           /\ Piece \in Nat /\ Piece > 0
           /\ max_filepos - offset + Piece <= BufferSize
           /\ Kept \in Int /\ min_filepos <= Kept /\ Kept <= max_filepos /\ Kept <= read
           /\ max_filepos + Piece - Kept <= BufferSize
<1> USE Sizes DEF Types, PlacesInv, Dropping
<1>1. /\ min_filepos <= max_filepos /\ offset <= max_filepos /\ max_filepos - offset < BufferSize
      /\ read >= min_filepos /\ (read <= max_filepos \/ read < max_filepos + seek_limit)
      /\ seek_limit <= BufferSize - FillLimit
      /\ \A n \in {read, min_filepos, max_filepos, offset, seek_limit} : n \in Nat
    OBVIOUS
<1>2. FillSlot(max_filepos) = max_filepos - offset
    BY <1>1 DEF FillSlot
<1>3. Back \in Nat /\ Newb \in Nat /\ Free \in Int /\ Newb + Back + Free = BufferSize
    BY <1>1 DEF Back, Newb, Free, Smaller, Larger
<1>4. /\ Piece \in Nat /\ Piece > 0 /\ Piece <= Free /\ Piece <= MaxFill
      /\ Piece <= BufferSize - (max_filepos - offset)
    BY <1>1, <1>2, <1>3 DEF Piece, Smaller
<1>5. Newb = IF read <= max_filepos THEN max_filepos - read ELSE 0
    BY <1>1 DEF Newb, Larger
<1>6. /\ Kept \in Int /\ min_filepos <= Kept
      /\ Kept = min_filepos \/ Kept = read - (BufferSize - (Piece + Newb))
      /\ Kept >= read - (BufferSize - (Piece + Newb))
    BY <1>1, <1>3, <1>4 DEF Kept, Larger
<1>7. Kept <= max_filepos
  <2>1. read - (BufferSize - (Piece + Newb)) <= max_filepos
    <3>1. Piece <= BufferSize /\ Piece <= FillLimit
        BY <1>1, <1>4
    <3> QED
        BY <1>1, <1>4, <1>5, <3>1
  <2> QED
    BY <1>1, <1>6, <2>1
<1>8. Kept <= read
    BY <1>1, <1>3, <1>4, <1>6
<1>9. max_filepos + Piece - Kept <= BufferSize
    BY <1>1, <1>4, <1>5, <1>6
<1> QED
    BY <1>1, <1>2, <1>4, <1>6, <1>7, <1>8, <1>9

\* Old sectors are given up.
LEMMA GiveUpOldInv ==
    ASSUME Types, PlacesInv, WindowInv, GiveUpOld
    PROVE  Types' /\ PlacesInv' /\ WindowInv' /\ min_filepos' <= Larger(min_filepos, read)
<1> USE Sizes DEF Types, PlacesInv, Dropping
<1>a. /\ f_at = "space" /\ f_at' = "copy" /\ Free >= FillLimit
      /\ pos' = FillSlot(max_filepos) /\ space' = Piece /\ min_filepos' = Kept /\ len' = 0
      /\ UNCHANGED <<buffer, max_filepos, offset, read_filepos, seek_limit, min, read,
                     stream_pos, r_at, seen_max, slot, data>>
    BY DEF GiveUpOld, FillerAt, limits, reader
<1>b. /\ FillSlot(max_filepos) = max_filepos - offset
      /\ Piece \in Nat /\ max_filepos - offset + Piece <= BufferSize
      /\ Kept \in Int /\ min_filepos <= Kept /\ Kept <= max_filepos /\ Kept <= read
      /\ max_filepos + Piece - Kept <= BufferSize
    BY <1>a, PieceFits
<1>1. Types'
    BY <1>a, <1>b DEF FillerLabel
<1>2. PlacesInv'
    BY <1>a, <1>b
<1>3. WindowInv'
    BY <1>a, <1>b DEF WindowInv, SlotOf
<1>4. min_filepos' <= Larger(min_filepos, read)
    BY <1>a, <1>b DEF Larger
<1> QED
    BY <1>1, <1>2, <1>3, <1>4

\* A sector is copied to a slot that is not in the window any more.
LEMMA CopySectorInv ==
    ASSUME Types, PlacesInv, WindowInv, CopySector
    PROVE  /\ Types' /\ PlacesInv' /\ WindowInv'
           /\ \A p \in min_filepos .. max_filepos - 1 : buffer'[SlotOf(p)] = buffer[SlotOf(p)]
<1> USE Sizes DEF Types, PlacesInv, Dropping
<1>a. /\ f_at = "copy" /\ len < space /\ stream_pos < Length
      /\ buffer' = [buffer EXCEPT ![pos + len] = stream_pos]
      /\ stream_pos' = stream_pos + 1 /\ len' = len + 1
      /\ UNCHANGED <<min_filepos, max_filepos, offset, read_filepos, seek_limit, min,
                     f_at, read, pos, space, r_at, seen_max, slot, data>>
    BY DEF CopySector, FillerAt, limits, reader
<1>b. pos + len \in Slot /\ stream_pos = max_filepos + len /\ pos = max_filepos - offset
    BY <1>a
<1>1. Types'
    BY <1>a, <1>b
<1>2. PlacesInv'
    BY <1>a
<1>3. ASSUME NEW p \in min_filepos .. max_filepos - 1
      PROVE  SlotOf(p) \in Slot /\ SlotOf(p) # pos + len
  <2>1. /\ p < max_filepos + len /\ max_filepos + len - p < BufferSize
        /\ p >= offset - BufferSize /\ max_filepos + len - offset < BufferSize
        /\ p \in Int /\ max_filepos + len \in Int /\ offset \in Int
    BY <1>a, <1>b
  <2>2. SlotOf(p) \in 0 .. BufferSize - 1 /\ SlotOf(p) # SlotOf(max_filepos + len)
    BY <2>1, SlotsDiffer DEF SlotOf
  <2>3. SlotOf(max_filepos + len) = pos + len
    BY <1>a, <1>b DEF SlotOf
  <2> QED
    BY <2>2, <2>3
<1>4. \A p \in min_filepos .. max_filepos - 1 : buffer'[SlotOf(p)] = buffer[SlotOf(p)]
    BY <1>a, <1>b, <1>3
<1>5. WindowInv'
  <2>1. \A p \in min_filepos .. max_filepos - 1 : buffer[SlotOf(p)] = p /\ SlotOf(p)' = SlotOf(p)
    BY <1>a DEF WindowInv, SlotOf
  <2>2. ASSUME NEW i \in 0 .. len PROVE buffer'[pos + i] = max_filepos + i
    <3>1. CASE i = len
        BY <1>a, <1>b, <3>1
    <3>2. CASE i \in 0 .. len - 1
      <4>1. buffer[pos + i] = max_filepos + i
        BY <1>a, <3>2 DEF WindowInv
      <4>2. pos + i # pos + len /\ pos + i \in Slot
        BY <1>a, <1>b, <3>2
      <4> QED
        BY <1>a, <4>1, <4>2
    <3> QED
        BY <1>a, <2>2, <3>1, <3>2
  <2> QED
    BY <1>a, <1>4, <2>1, <2>2 DEF WindowInv
<1> QED
    BY <1>1, <1>2, <1>4, <1>5

\* What a fill has read joins the window.
LEMMA AdvanceMaxInv ==
    ASSUME Types, PlacesInv, WindowInv, AdvanceMax
    PROVE  Types' /\ PlacesInv' /\ WindowInv' /\ max_filepos <= max_filepos'
<1> USE Sizes DEF Types, PlacesInv, Dropping
<1>a. /\ f_at = "max" /\ max_filepos' = max_filepos + len
      /\ UNCHANGED <<buffer, min_filepos, offset, read_filepos, seek_limit, min,
                     stream_pos, r_at, seen_max, slot, data>>
      /\ \/ Wraps /\ f_at' = "offset" /\ UNCHANGED <<read, pos, space, len>>
         \/ ~Wraps /\ f_at' = "fill" /\ read' = 0 /\ pos' = 0 /\ space' = 0 /\ len' = 0
    BY DEF AdvanceMax, FillerAt, EndFill, limits, reader
<1>b. stream_pos = max_filepos + len /\ pos = max_filepos - offset
    BY <1>a
<1>1. Types'
    BY <1>a, <1>b DEF FillerLabel
<1>2. PlacesInv'
    BY <1>a, <1>b DEF Wraps
<1>3. WindowInv'
  <2>1. ASSUME NEW p \in min_filepos .. max_filepos + len - 1 PROVE buffer[SlotOf(p)] = p
    <3>1. CASE p < max_filepos
        BY <1>a, <2>1, <3>1 DEF WindowInv
    <3>2. CASE p >= max_filepos
      <4>1. p - max_filepos \in 0 .. len - 1 /\ SlotOf(p) = pos + (p - max_filepos)
        BY <1>a, <1>b, <2>1, <3>2 DEF SlotOf
      <4>2. buffer[pos + (p - max_filepos)] = max_filepos + (p - max_filepos)
        BY <1>a, <4>1 DEF WindowInv
      <4> QED
        BY <4>1, <4>2, <2>1
    <3> QED
        BY <2>1, <3>1, <3>2
  <2>2. \A p \in min_filepos .. max_filepos + len - 1 : SlotOf(p)' = SlotOf(p)
    BY <1>a DEF SlotOf
  <2> QED
    BY <1>a, <2>1, <2>2 DEF WindowInv
<1>4. max_filepos <= max_filepos'
    BY <1>a
<1> QED
    BY <1>1, <1>2, <1>3, <1>4

\* The offset moves on by a buffer: every position keeps its slot.
LEMMA AdvanceOffsetInv ==
    ASSUME Types, PlacesInv, WindowInv, AdvanceOffset
    PROVE  /\ Types' /\ PlacesInv' /\ WindowInv'
           /\ \A p \in min_filepos .. max_filepos - 1 : SlotOf(p)' = SlotOf(p)
<1> USE Sizes DEF Types, PlacesInv, Dropping
<1>a. /\ f_at = "offset" /\ f_at' = "fill" /\ offset' = offset + BufferSize
      /\ read' = 0 /\ pos' = 0 /\ space' = 0 /\ len' = 0
      /\ UNCHANGED <<buffer, min_filepos, max_filepos, read_filepos, seek_limit, min,
                     stream_pos, r_at, seen_max, slot, data>>
    BY DEF AdvanceOffset, FillerAt, EndFill, limits, reader
<1>b. BufferSize > 0 /\ max_filepos = offset'
    BY <1>a
<1>1. Types'
    BY <1>a DEF FillerLabel
<1>2. PlacesInv'
  <2>1. /\ min_filepos <= max_filepos /\ max_filepos - min_filepos <= BufferSize
        /\ stream_pos = max_filepos
    BY <1>a
  <2> QED
    BY <1>a, <1>b, <2>1
<1>3. \A p \in min_filepos .. max_filepos - 1 : SlotOf(p)' = SlotOf(p)
    BY <1>a DEF SlotOf
<1>4. WindowInv'
    BY <1>a, <1>3 DEF WindowInv
<1> QED
    BY <1>1, <1>2, <1>3, <1>4

\* The other steps of the filler move no position.
LEMMA FillerRestInv ==
    ASSUME Types, PlacesInv, WindowInv, NoFill \/ CopyDone \/ FoundEnd
    PROVE  Types' /\ PlacesInv' /\ WindowInv'
<1> USE Sizes DEF Types, PlacesInv, Dropping
<1>a. /\ UNCHANGED <<buffer, min_filepos, max_filepos, offset, read_filepos, seek_limit, min,
                     stream_pos, r_at, seen_max, slot, data>>
      /\ \/ f_at = "copy" /\ f_at' = "max" /\ UNCHANGED <<read, pos, space, len>>
         \/ /\ f_at = "space" \/ (f_at = "copy" /\ len = 0)
            /\ f_at' = "fill" /\ read' = 0 /\ pos' = 0 /\ space' = 0 /\ len' = 0
    BY DEF NoFill, CopyDone, FoundEnd, FillerAt, EndFill, shared, limits, reader
<1>1. Types'
    BY <1>a DEF FillerLabel
<1>2. PlacesInv'
  <2>1. CASE f_at = "copy" /\ f_at' = "max" /\ UNCHANGED <<read, pos, space, len>>
    BY <1>a, <2>1
  <2>2. CASE f_at' = "fill"
    <3>1. stream_pos = max_filepos
        BY <1>a, <2>2
    <3>2. f_at \notin {"offset", "drop_min", "drop_offset"}
        BY <1>a, <2>2
    <3> QED
        BY <1>a, <2>2, <3>1, <3>2
  <2> QED
    BY <1>a, <2>1, <2>2
<1>3. WindowInv'
    BY <1>a DEF WindowInv, SlotOf
<1> QED
    BY <1>1, <1>2, <1>3

\* Every step of the filler keeps the positions and the contents.
LEMMA FillerKeeps ==
    ASSUME Types, PlacesInv, WindowInv, Filler
    PROVE  Types' /\ PlacesInv' /\ WindowInv'
BY SnapshotInv, DropInv, GiveUpOldInv, CopySectorInv, AdvanceMaxInv, AdvanceOffsetInv, FillerRestInv
   DEF Filler

\* What the reader leaves alone.
LEMMA ReaderLeaves ==
    ASSUME Reader \/ Interrupted \/ Call
    PROVE  UNCHANGED <<buffer, min_filepos, max_filepos, offset, limits, filler>>
BY DEF Reader, Interrupted, Call, PrefillLook, PrefillEof, LookMax, LookMin, LookEof, ReturnEof,
       Take, Copy, Advance, SeekClearsEof, Read, ReadAgainAtEnd, Reset, Close, Seek, Goto, shared

\* So the positions and the contents stay as they are.
LEMMA ReaderKeeps ==
    ASSUME Types, PlacesInv, WindowInv, Reader \/ Interrupted \/ Call
    PROVE  PlacesInv' /\ WindowInv'
BY ReaderLeaves DEF PlacesInv, WindowInv, SlotOf, limits, filler

\* The place the reader is at lies in the file.
LEMMA ReaderTypes ==
    ASSUME Types, Reader \/ Interrupted \/ Call
    PROVE  Types'
<1> USE Sizes DEF Types, Reading, ReaderLabel, limits, filler, shared, Goto
<1>1. CASE PrefillLook \/ PrefillEof \/ Interrupted \/ Read \/ Close
    BY <1>1 DEF PrefillLook, PrefillEof, Interrupted, Read, Close
<1>2. CASE ReadAgainAtEnd \/ Reset \/ ReturnEof
  <2>1. CASE ReadAgainAtEnd
    BY <2>1 DEF ReadAgainAtEnd
  <2>2. CASE Reset
    BY <2>2 DEF Reset
  <2>3. CASE ReturnEof
    BY <2>3 DEF ReturnEof, EndRead
  <2> QED
    BY <1>2, <2>1, <2>2, <2>3
<1>3. CASE LookMax
    BY <1>3 DEF LookMax
<1>4. CASE LookMin \/ LookEof
    BY <1>4 DEF LookMin, LookEof
<1>5. CASE Take
  <2>1. ReadSlot(read_filepos) \in Int
    BY DEF ReadSlot
  <2>2. /\ r_at = "take" /\ slot' = ReadSlot(read_filepos)
        /\ r_at' \in {"copy", "look", "crashed"}
        /\ UNCHANGED <<shared, limits, filler, seen_max, data>>
    BY <1>5 DEF Take
  <2> QED
    BY <2>1, <2>2
<1>6. CASE Copy
    BY <1>6 DEF Copy
<1>7. CASE Advance
    BY <1>7 DEF Advance, EndRead
<1>8. CASE SeekClearsEof
    BY <1>8 DEF SeekClearsEof
<1>9. ASSUME NEW p \in Target, Seek(p) PROVE Types'
    BY <1>9 DEF Seek
<1> QED
    BY <1>1, <1>2, <1>3, <1>4, <1>5, <1>6, <1>7, <1>8, <1>9 DEF Reader, Call

-----------------------------------------------------------------------------
\* Without a race the filler gives up nothing the reader reads, and keeps the
\* end of the file once it has found it.
LEMMA FillerNoRace ==
    ASSUME Types, PlacesInv, WindowInv, NoRaceInv, Filler, ~raced'
    PROVE  ReaderInv' /\ EndInv'
<1>u. /\ GiveUpOld => min_filepos' <= Larger(min_filepos, read)
      /\ AdvanceMax => max_filepos <= max_filepos'
    BY GiveUpOldInv, AdvanceMaxInv
<1>t. Types'
    BY FillerKeeps
<1>v. min_filepos' \in Place /\ max_filepos' \in Place
    BY <1>t DEF Types
<1> USE Sizes DEF Types, PlacesInv, Dropping, Reading, ReaderInv, EndInv
<1>1. ~raced
    BY DEF Filler, Snapshot, DropMin, DropOffset, NoFill, GiveUpOld, CopySector, CopyDone, FoundEnd,
           AdvanceMax, AdvanceOffset, reader
<1>2. ReaderInv /\ EndInv
    BY <1>1 DEF NoRaceInv
<1>3. CASE Snapshot
  <2>1. /\ f_at = "fill" /\ read' = read_filepos
        /\ \/ OutOfReach(read_filepos) /\ max_filepos' = read_filepos /\ f_at' = "drop_min"
           \/ ~OutOfReach(read_filepos) /\ f_at' = "space" /\ max_filepos' = max_filepos
        /\ UNCHANGED <<eof, min_filepos, offset, read_filepos, r_at, slot>>
    BY <1>3 DEF Snapshot, FillerAt, reader
  <2>2. OutOfReach(read_filepos) => read_filepos > max_filepos
    BY <1>2 DEF OutOfReach
  <2>3. ReaderInv'
    BY <1>2, <2>1, <2>2 DEF SlotOf
  <2>4. EndInv'
    BY <1>2, <2>1, <2>2
  <2> QED
    BY <2>3, <2>4
<1>4. CASE DropMin \/ DropOffset
  <2>1. /\ f_at \in Dropping /\ f_at' # "copy" /\ min_filepos' \in {min_filepos, read}
        /\ UNCHANGED <<max_filepos, read_filepos, read, r_at>>
    BY <1>4 DEF DropMin, DropOffset, FillerAt, reader
  <2>2. UNCHANGED eof /\ ~eof
    BY <1>2, <1>4, <2>1 DEF DropMin, DropOffset
  <2> QED
    BY <1>2, <2>1, <2>2
<1>5. CASE NoFill \/ CopyDone \/ CopySector
  <2>1. /\ f_at' \in {"fill", "copy", "max"} /\ read' \in {read, 0}
        /\ UNCHANGED <<eof, min_filepos, max_filepos, offset, read_filepos, r_at, slot>>
    BY <1>5 DEF NoFill, CopyDone, CopySector, FillerAt, EndFill, shared, reader
  <2>2. f_at \notin Dropping
    BY <1>5 DEF NoFill, CopyDone, CopySector, FillerAt
  <2> QED
    BY <1>2, <2>1, <2>2 DEF SlotOf
<1>6. CASE FoundEnd
  <2>1. /\ f_at = "copy" /\ len = 0 /\ stream_pos >= Length /\ f_at' = "fill" /\ read' = 0
        /\ UNCHANGED <<min_filepos, max_filepos, offset, read_filepos, r_at, slot>>
    BY <1>6 DEF FoundEnd, FillerAt, EndFill
  <2>2. r_at # "eof"
    BY <1>6 DEF FoundEnd
  <2>3. max_filepos = Length
    BY <2>1
  <2> QED
    BY <1>2, <2>1, <2>2, <2>3 DEF SlotOf
<1>7. CASE GiveUpOld
  <2>1. /\ f_at = "space" /\ f_at' = "copy"
        /\ UNCHANGED <<eof, max_filepos, offset, read_filepos, read, r_at, slot>>
    BY <1>7 DEF GiveUpOld, FillerAt, reader
  <2>2. min_filepos' <= Larger(min_filepos, read)
    BY <1>7, <1>u
  <2>3. min_filepos' <= read_filepos
    BY <1>2, <1>v, <2>2 DEF Larger
  <2> QED
    BY <1>2, <2>1, <2>3 DEF SlotOf
<1>8. CASE AdvanceMax
  <2>1. /\ f_at = "max" /\ f_at' \in {"offset", "fill"} /\ read' \in {read, 0}
        /\ UNCHANGED <<eof, min_filepos, offset, read_filepos, r_at, slot>>
    BY <1>8 DEF AdvanceMax, FillerAt, EndFill, reader
  <2>2. max_filepos <= max_filepos' /\ max_filepos' <= Length
    BY <1>8, <1>u, <1>v
  <2> QED
    BY <1>2, <1>v, <2>1, <2>2 DEF SlotOf
<1>9. CASE AdvanceOffset
  <2>1. /\ f_at = "offset" /\ f_at' = "fill" /\ read' = 0
        /\ UNCHANGED <<eof, min_filepos, max_filepos, read_filepos, r_at, slot>>
    BY <1>9 DEF AdvanceOffset, FillerAt, EndFill, reader
  <2>2. r_at = "copy" => SlotOf(read_filepos)' = SlotOf(read_filepos)
    <3>1. \A p \in min_filepos .. max_filepos - 1 : SlotOf(p)' = IF p < offset' THEN p - offset' + BufferSize ELSE p - offset'
        BY <2>1 DEF SlotOf
    <3>2. \A p \in min_filepos .. max_filepos - 1 : SlotOf(p)' = SlotOf(p)
        BY <1>9, AdvanceOffsetInv
    <3>3. r_at = "copy" => read_filepos \in min_filepos .. max_filepos - 1
        BY <1>2
    <3> QED
        BY <2>1, <3>1, <3>2, <3>3 DEF SlotOf
  <2> QED
    BY <1>2, <2>1, <2>2
<1> QED
    BY <1>3, <1>4, <1>5, <1>6, <1>7, <1>8, <1>9 DEF Filler

\* Without a race the reader finds what it looks for, and takes it from where
\* it is.
LEMMA ReaderNoRace ==
    ASSUME Types, PlacesInv, WindowInv, NoRaceInv, Reader \/ Interrupted \/ Call, ~raced'
    PROVE  ReaderInv' /\ EndInv'
<1>1. ~raced /\ UNCHANGED <<buffer, min_filepos, max_filepos, offset, filler>>
  <2>1. raced => raced'
    BY DEF Reader, Interrupted, Call, PrefillLook, PrefillEof, LookMax, LookMin, LookEof, ReturnEof,
           Take, Copy, Advance, SeekClearsEof, Read, ReadAgainAtEnd, Reset, Close, Seek, Goto
  <2> QED
    BY <2>1, ReaderLeaves
<1>2. ReaderInv /\ EndInv
    BY <1>1 DEF NoRaceInv
<1> USE Sizes DEF Types, PlacesInv, Dropping, Reading, ReaderInv, EndInv
<1>a. UNCHANGED <<min_filepos, max_filepos, offset, f_at, read>>
    BY <1>1 DEF filler
<1>3. CASE PrefillLook \/ PrefillEof \/ Interrupted \/ Read \/ Close
  <2>1. /\ r_at' \in {"prefill", "prefill_eof", "idle", "look", "closed"}
        /\ UNCHANGED <<eof, read_filepos, slot>>
    BY <1>3 DEF PrefillLook, PrefillEof, Interrupted, Read, Close, Goto, shared
  <2> QED
    BY <1>2, <1>a, <2>1
<1>4. CASE ReadAgainAtEnd \/ Reset \/ ReturnEof \/ Copy
  <2>1. r_at' \in {"idle", "advance"} /\ UNCHANGED <<eof, read_filepos>>
    BY <1>4 DEF ReadAgainAtEnd, Reset, ReturnEof, Copy, EndRead, shared
  <2> QED
    BY <1>2, <1>a, <2>1
<1>5. CASE LookMax
  <2>1. /\ r_at' = IF read_filepos >= max_filepos THEN "eof" ELSE "look_min"
        /\ UNCHANGED <<eof, read_filepos, slot>>
    BY <1>5 DEF LookMax, shared
  <2> QED
    BY <1>2, <1>a, <2>1
<1>6. CASE LookMin
  <2>1. /\ r_at = "look_min" /\ r_at' = IF read_filepos < min_filepos THEN "eof" ELSE "take"
        /\ UNCHANGED <<eof, read_filepos, slot>>
    BY <1>6 DEF LookMin, Goto, shared
  <2> QED
    BY <1>2, <1>a, <2>1
<1>7. CASE LookEof
  <2>1. /\ r_at = "eof" /\ r_at' = IF eof THEN "end" ELSE "look"
        /\ UNCHANGED <<eof, read_filepos, slot>>
    BY <1>7 DEF LookEof, Goto, shared
  <2> QED
    BY <1>2, <1>a, <2>1
<1>8. CASE Take
  <2>1. PICK max \in {seen_max, max_filepos} :
          /\ r_at = "take" /\ slot' = ReadSlot(read_filepos)
          /\ LET newb == Smaller(max - read_filepos, BufferSize - ReadSlot(read_filepos))
             IN r_at' = IF newb > 0 THEN "copy" ELSE IF newb = 0 THEN "look" ELSE "crashed"
          /\ UNCHANGED <<eof, read_filepos>>
    BY <1>8 DEF Take, shared
  <2>2. /\ read_filepos - offset < BufferSize /\ read_filepos - offset >= -BufferSize
        /\ max - read_filepos > 0 /\ max \in Int /\ f_at \notin {"drop_min", "drop_offset"}
    BY <1>2, <2>1
  <2>3. ReadSlot(read_filepos) = SlotOf(read_filepos) /\ ReadSlot(read_filepos) \in 0 .. BufferSize - 1
    BY <2>2 DEF ReadSlot, SlotOf
  <2>4. r_at' = "copy"
    BY <2>1, <2>2, <2>3 DEF Smaller
  <2>5. slot' = SlotOf(read_filepos)'
    BY <1>a, <2>1, <2>3 DEF SlotOf
  <2> QED
    BY <1>2, <1>a, <2>1, <2>4, <2>5
<1>9. CASE Advance
  <2>1. r_at = "advance" /\ r_at' = "idle" /\ read_filepos' = read_filepos + 1 /\ UNCHANGED eof
    BY <1>9 DEF Advance, EndRead
  <2> QED
    BY <1>2, <1>a, <2>1
<1>10. CASE SeekClearsEof
  <2>1. r_at' \in {"idle", "look"} /\ UNCHANGED read_filepos
    BY <1>10 DEF SeekClearsEof
  <2>2. ~eof'
    BY <1>10 DEF SeekClearsEof
  <2> QED
    BY <1>2, <1>a, <2>1, <2>2
<1>11. ASSUME NEW p \in Target, Seek(p) PROVE ReaderInv' /\ EndInv'
  <2>1. read_filepos' = p /\ r_at' = "seek_eof" /\ UNCHANGED eof
    BY <1>11 DEF Seek
  <2>2. Safe(p)
    BY <1>11 DEF Seek
  <2>3. p \in Nat /\ min_filepos <= p /\ read <= p
    BY <1>2, <2>2 DEF Safe
  <2> QED
    BY <1>2, <1>a, <2>1, <2>3
<1> QED
    BY <1>3, <1>4, <1>5, <1>6, <1>7, <1>8, <1>9, <1>10, <1>11 DEF Reader, Call

-----------------------------------------------------------------------------
\* The flags are true or false, and a read only starts on a stream that is not
\* at its end.
LEMMA FlagsKept == ASSUME Flags, Next PROVE Flags'
<1> USE DEF Flags, Reading, shared, reader, Goto, EndRead
<1>1. CASE Snapshot \/ DropMin \/ DropOffset \/ GiveUpOld \/ CopySector \/ AdvanceMax \/ AdvanceOffset
    BY <1>1 DEF Snapshot, DropMin, DropOffset, GiveUpOld, CopySector, AdvanceMax, AdvanceOffset
<1>2. CASE NoFill \/ CopyDone \/ FoundEnd
  <2>1. CASE NoFill \/ CopyDone
    BY <2>1 DEF NoFill, CopyDone
  <2>2. CASE FoundEnd
    BY <2>2 DEF FoundEnd
  <2> QED
    BY <1>2, <2>1, <2>2
<1>3. CASE PrefillLook \/ PrefillEof \/ Interrupted \/ Read \/ Close
    BY <1>3 DEF PrefillLook, PrefillEof, Interrupted, Read, Close
<1>4. CASE ReadAgainAtEnd \/ Reset \/ ReturnEof \/ Copy
  <2>1. CASE ReadAgainAtEnd
    BY <2>1 DEF ReadAgainAtEnd
  <2>2. CASE Reset
    BY <2>2 DEF Reset
  <2>3. CASE ReturnEof
    BY <2>3 DEF ReturnEof
  <2>4. CASE Copy
    BY <2>4 DEF Copy
  <2> QED
    BY <1>4, <2>1, <2>2, <2>3, <2>4
<1>5. CASE LookMax \/ LookMin \/ LookEof \/ Take \/ Advance
    BY <1>5 DEF LookMax, LookMin, LookEof, Take, Advance
<1>6. CASE SeekClearsEof
    BY <1>6 DEF SeekClearsEof
<1>7. ASSUME NEW p \in Target, Seek(p) PROVE Flags'
    BY <1>7 DEF Seek
<1> QED
    BY <1>1, <1>2, <1>3, <1>4, <1>5, <1>6, <1>7 DEF Next, Filler, Reader, Call

\* cache_init and stream_enable_cache start in the invariant.
LEMMA InitInv == Init => Inv
<1> SUFFICES ASSUME Init PROVE Inv
    OBVIOUS
<1> USE Sizes DEF Init
<1>1. Types
  <2>1. /\ seek_limit \in Nat /\ seek_limit <= BufferSize - FillLimit /\ min \in Nat
    BY RequestAssumption DEF Clamped, Smaller
  <2>2. buffer \in [Slot -> Place \cup {Nothing}]
    OBVIOUS
  <2> QED
    BY <2>1, <2>2 DEF Types, FillerLabel, ReaderLabel, Reading
<1>2. Flags
    BY DEF Flags, Reading
<1>3. PlacesInv /\ WindowInv
    BY DEF PlacesInv, WindowInv, Dropping
<1>4. ReaderInv /\ EndInv
    BY DEF ReaderInv, EndInv, Reading
<1> QED
    BY <1>1, <1>2, <1>3, <1>4 DEF Inv, NoRaceInv

\* Every step of either process keeps the invariant.
LEMMA NextInv == ASSUME Inv, [Next]_vars PROVE Inv'
<1>1. CASE UNCHANGED vars
  <2> USE <1>1 DEF Inv, vars, shared, limits, filler, reader
  <2>1. Types' /\ PlacesInv' /\ WindowInv'
    BY DEF Types, PlacesInv, WindowInv, SlotOf
  <2>2. Flags'
    BY DEF Flags
  <2>3. NoRaceInv'
    BY DEF NoRaceInv, ReaderInv, EndInv, SlotOf
  <2> QED
    BY <2>1, <2>2, <2>3
<1>2. CASE Filler
    BY <1>2, FillerKeeps, FillerNoRace, FlagsKept DEF Inv, NoRaceInv, Next
<1>3. CASE Reader \/ Interrupted \/ Call
    BY <1>3, ReaderTypes, ReaderKeeps, ReaderNoRace, FlagsKept DEF Inv, NoRaceInv, Next
<1> QED
    BY <1>1, <1>2, <1>3 DEF Next

\* The invariant holds throughout.
THEOREM Invariant == Spec => []Inv
<1>1. Init => Inv
    BY InitInv
<1>2. Inv /\ [Next]_vars => Inv'
    BY NextInv
<1> QED
    BY <1>1, <1>2, PTL DEF Spec

-----------------------------------------------------------------------------
(* The cache keeps its types: no position leaves the file, race or not.      *)
THEOREM TypeCorrect == Spec => []TypeOK
<1>1. Inv => TypeOK
    BY DEF Inv, Types, Flags, TypeOK
<1> QED
    BY <1>1, Invariant, PTL

(* What the filler says is in the buffer is there, for any sizes and however *)
(* the reader seeks.                                                         *)
THEOREM WindowAlwaysIntact == Spec => []WindowIntact
<1>1. ASSUME Inv PROVE WindowIntact
  <2> SUFFICES ASSUME f_at \notin Dropping, NEW p \in min_filepos .. max_filepos - 1
               PROVE  buffer[(p - offset) % BufferSize] = p
    BY DEF WindowIntact, Dropping
  <2> USE Sizes
  <2>1. buffer[SlotOf(p)] = p
    BY <1>1 DEF Inv, WindowInv
  <2>2. p - offset \in Int /\ p - offset < BufferSize /\ p - offset >= -BufferSize /\ BufferSize > 0
    BY <1>1 DEF Inv, Types, PlacesInv
  <2>3. SlotOf(p) = IF p - offset < 0 THEN p - offset + BufferSize ELSE p - offset
    BY <1>1 DEF SlotOf, Inv, Types
  <2>4. \A x \in Int : x >= 0 /\ x < BufferSize => x % BufferSize = x
    OBVIOUS
  <2>5. \A x \in Int : x < 0 /\ x >= -BufferSize => x % BufferSize = x + BufferSize
    BY <2>2
  <2> QED
    BY <2>1, <2>2, <2>3, <2>4, <2>5
<1> QED
    BY <1>1, Invariant, PTL

(* The reader copies the sector it asked for as long as it has not sought    *)
(* back under a running fill, wherever the filler is meanwhile.              *)
THEOREM AlwaysCopiesRightData == Spec => []CopiesRightData
<1>1. ASSUME Inv PROVE CopiesRightData
  <2> SUFFICES ASSUME ~raced
               PROVE  /\ r_at # "crashed"
                      /\ r_at = "copy" => slot \in Slot /\ buffer[slot] = read_filepos
    BY DEF CopiesRightData
  <2> USE Sizes DEF Inv
  <2>1. ReaderInv
    BY <1>1 DEF NoRaceInv
  <2>2. ASSUME r_at = "copy" PROVE slot \in Slot /\ buffer[slot] = read_filepos
    <3>1. read_filepos \in min_filepos .. max_filepos - 1 /\ f_at \notin Dropping /\ slot = SlotOf(read_filepos)
        BY <1>1, <2>1, <2>2 DEF ReaderInv, Reading, Types
    <3>2. buffer[slot] = read_filepos
        BY <1>1, <3>1 DEF WindowInv
    <3>3. slot \in Slot
        BY <1>1, <3>1 DEF SlotOf, PlacesInv, Types
    <3> QED
        BY <3>2, <3>3
  <2> QED
    BY <2>1, <2>2 DEF ReaderInv
<1> QED
    BY <1>1, Invariant, PTL

(* The end of the file is reported at its end, as long as the filler has not *)
(* met it just when the reader found the buffer empty.                       *)
THEOREM EofAlwaysTrue == Spec => []EofIsTrue
<1>1. Inv => EofIsTrue
    BY DEF Inv, NoRaceInv, EndInv, EofIsTrue
<1> QED
    BY <1>1, Invariant, PTL

(* As long as the lock has not been needed, the cache is a file: the reads   *)
(* and seeks of its user are those of FileStream.                            *)
THEOREM CacheImplementsFile == Spec => ImplementsFile
<1>1. Init => File!Init
    BY DEF Init, File!Init
<1>2. ASSUME Inv, [Next]_vars
      PROVE  [raced' \/ File!Next \/ UNCHANGED File!vars]_vars
  <2> SUFFICES ASSUME Next, ~raced' PROVE File!Next \/ UNCHANGED File!vars
    BY <1>2
  <2> USE Sizes DEF Inv
  <2>1. CASE Filler
    <3>1. UNCHANGED <<read_filepos, r_at, data, stream_eof>>
        BY <2>1 DEF Filler, Snapshot, DropMin, DropOffset, NoFill, GiveUpOld, CopySector, CopyDone,
                    FoundEnd, AdvanceMax, AdvanceOffset, shared, reader
    <3> QED
        BY <3>1 DEF File!vars
  <2>2. CASE PrefillLook \/ PrefillEof \/ Interrupted \/ Read \/ Close \/ LookMax \/ LookMin \/ LookEof \/ Take
    <3>1. /\ r_at # "advance" /\ r_at' # "advance"
          /\ UNCHANGED <<read_filepos, data, stream_eof>>
        BY <2>2 DEF PrefillLook, PrefillEof, Interrupted, Read, Close, LookMax, LookMin, LookEof, Take,
                    Goto, shared
    <3> QED
        BY <3>1 DEF File!vars
  <2>3. CASE SeekClearsEof
    BY <2>3 DEF SeekClearsEof, File!vars
  <2>4. CASE Advance
    BY <2>4 DEF Advance, EndRead, File!vars
  <2>5. CASE Copy
    <3>1. ~raced
        BY <2>5 DEF Copy
    <3>2. /\ r_at = "copy" /\ r_at' = "advance" /\ UNCHANGED <<read_filepos, slot>>
          /\ data' = IF slot \in Slot THEN buffer[slot] ELSE Nothing
        BY <2>5 DEF Copy, shared
    <3>3. /\ read_filepos \in min_filepos .. max_filepos - 1 /\ f_at \notin Dropping
          /\ slot = SlotOf(read_filepos) /\ read_filepos < Length
        BY <1>2, <3>1, <3>2 DEF NoRaceInv, ReaderInv, Reading, Types
    <3>4. buffer[slot] = read_filepos
        BY <1>2, <3>3 DEF WindowInv
    <3>5. slot \in Slot
        BY <1>2, <3>3 DEF SlotOf, PlacesInv, Types
    <3>6. ~stream_eof /\ UNCHANGED stream_eof
        BY <1>2, <2>5, <3>2 DEF Flags, Reading, Copy
    <3>7. data' = read_filepos
        BY <3>2, <3>4, <3>5
    <3> QED
        BY <3>2, <3>3, <3>6, <3>7 DEF File!Next, File!Read
  <2>6. CASE ReturnEof
    <3>1. ~raced
        BY <2>6 DEF ReturnEof
    <3>2. /\ r_at = "end" /\ r_at' = "idle" /\ UNCHANGED read_filepos /\ data' = NoSector
        BY <2>6 DEF ReturnEof, EndRead, shared
    <3>3. read_filepos >= Length
        BY <1>2, <3>1, <3>2 DEF NoRaceInv, EndInv
    <3>4. stream_eof' = TRUE
        BY <2>6 DEF ReturnEof
    <3> QED
        BY <3>2, <3>3, <3>4 DEF File!Next, File!ReadAtEnd
  <2>7. CASE ReadAgainAtEnd
    <3>1. /\ r_at = "idle" /\ r_at' = "idle" /\ UNCHANGED read_filepos /\ data' = NoSector
        BY <2>7 DEF ReadAgainAtEnd, shared
    <3>2. stream_eof /\ stream_eof' = TRUE
        BY <1>2, <2>7 DEF ReadAgainAtEnd, Flags
    <3> QED
        BY <3>1, <3>2 DEF File!Next, File!ReadAtEnd
  <2>8. CASE Reset
    <3>1. r_at = "idle" /\ UNCHANGED <<r_at, read_filepos, data>>
        BY <2>8 DEF Reset, shared
    <3>2. stream_eof' = FALSE
        BY <2>8 DEF Reset
    <3> QED
        BY <3>1, <3>2 DEF File!Next, File!Reset
  <2>9. ASSUME NEW p \in Target, Seek(p) PROVE File!Next
    <3>1. r_at = "idle" /\ r_at' = "seek_eof" /\ read_filepos' = p /\ data' = NoSector /\ p \in 0 .. Length
        BY <2>9 DEF Seek
    <3>2. UNCHANGED stream_eof
        BY <2>9 DEF Seek
    <3> QED
        BY <3>1, <3>2 DEF File!Next, File!Seek
  <2> QED
    BY <2>1, <2>2, <2>3, <2>4, <2>5, <2>6, <2>7, <2>8, <2>9 DEF Next, Reader, Call
<1> QED
    BY <1>1, <1>2, Invariant, PTL DEF Spec, ImplementsFile

-----------------------------------------------------------------------------
(* What CallsReturn rests on.                                                *)

(* A filler that finds too little room for a fill has left the reader, where *)
(* it saw it, something to read, and the prefill all that it waits for; and  *)
(* a fill that begins has room for a sector, so that nothing read means the  *)
(* end of the file.                                                          *)
SleepsFed ==
    /\ f_at = "space" /\ Free < FillLimit =>
         /\ min_filepos <= read /\ read < max_filepos
         /\ r_at \in {"prefill", "prefill_eof"} => read_filepos >= min_filepos /\ Prefilled
    /\ f_at = "copy" => space > 0

(* The prefill fills from the start of the file and gives up nothing.        *)
PrefillInv ==
    /\ min <= BufferSize - FillLimit
    /\ r_at \in {"prefill", "prefill_eof"} =>
         read_filepos = 0 /\ min_filepos = 0 /\ read = 0 /\ f_at \notin Dropping
    /\ f_at = "copy" => space > 0

\* stream_enable_cache clamps what it waits for.
LEMMA PrefillInit == Init => PrefillInv
<1> SUFFICES ASSUME Init PROVE PrefillInv
    OBVIOUS
<1>1. min <= BufferSize - FillLimit
    BY Sizes, RequestAssumption DEF Init, Clamped, Smaller
<1> QED
    BY <1>1 DEF PrefillInv, Init, Dropping

\* The filler goes on from where it is, and begins no fill without room.
LEMMA PrefillFiller == ASSUME Inv, PrefillInv, Filler PROVE PrefillInv'
<1> USE Sizes DEF Inv, PrefillInv, Dropping
<1>a. UNCHANGED <<min, r_at, read_filepos>>
    BY DEF Filler, Snapshot, DropMin, DropOffset, NoFill, GiveUpOld, CopySector, CopyDone,
           FoundEnd, AdvanceMax, AdvanceOffset, shared, limits, reader
<1>1. CASE Snapshot
  <2>1. /\ f_at' \in {"drop_min", "space"} /\ read' = read_filepos /\ UNCHANGED <<min_filepos, space>>
        /\ f_at' = "drop_min" => OutOfReach(read_filepos)
    BY <1>1 DEF Snapshot
  <2>2. ASSUME read_filepos = 0, min_filepos = 0, f_at = "fill" PROVE ~OutOfReach(read_filepos)
    <3>1. max_filepos \in Nat
        BY DEF Types
    <3> QED
        BY <2>2, <3>1 DEF OutOfReach
  <2>3. f_at = "fill"
    BY <1>1 DEF Snapshot, FillerAt
  <2> QED
    BY <1>a, <2>1, <2>2, <2>3
<1>2. CASE DropMin \/ DropOffset
  <2>1. f_at \in Dropping /\ f_at' \in {"drop_offset", "space"} /\ UNCHANGED space
    BY <1>2 DEF DropMin, DropOffset, FillerAt
  <2> QED
    BY <1>a, <2>1
<1>3. CASE GiveUpOld
  <2>1. /\ f_at = "space" /\ Free >= FillLimit /\ f_at' = "copy"
        /\ space' = Piece /\ min_filepos' = Kept /\ UNCHANGED read
    BY <1>3 DEF GiveUpOld, FillerAt
  <2>2. Piece > 0 /\ Kept \in Int /\ min_filepos <= Kept /\ Kept <= read
    BY <2>1, PieceFits
  <2>3. read = 0 /\ min_filepos = 0 => Kept = 0
    BY <2>2
  <2> QED
    BY <1>a, <2>1, <2>2, <2>3
<1>4. CASE NoFill \/ FoundEnd \/ AdvanceOffset
  <2>1. f_at' = "fill" /\ read' = 0 /\ UNCHANGED min_filepos
    BY <1>4 DEF NoFill, FoundEnd, AdvanceOffset, EndFill, shared
  <2> QED
    BY <1>a, <2>1
<1>5. CASE CopySector \/ CopyDone
  <2>1. f_at = "copy" /\ f_at' \in {"copy", "max"} /\ UNCHANGED <<min_filepos, read, space>>
    BY <1>5 DEF CopySector, CopyDone, FillerAt, shared
  <2> QED
    BY <1>a, <2>1
<1>6. CASE AdvanceMax
  <2>1. /\ f_at' \in {"fill", "offset"} /\ UNCHANGED min_filepos
        /\ read' = 0 \/ UNCHANGED read
    BY <1>6 DEF AdvanceMax, EndFill
  <2> QED
    BY <1>a, <2>1
<1> QED
    BY <1>1, <1>2, <1>3, <1>4, <1>5, <1>6 DEF Filler

\* The reader does not come back to the prefill.
LEMMA PrefillReader ==
    ASSUME PrefillInv, Reader \/ Interrupted \/ Call
    PROVE  PrefillInv'
<1> DEFINE Early == {"prefill", "prefill_eof"}
<1>1. UNCHANGED <<min, min_filepos, read, space, f_at>>
    BY DEF Reader, Interrupted, Call, PrefillLook, PrefillEof, LookMax, LookMin, LookEof,
           ReturnEof, Take, Copy, Advance, SeekClearsEof, Read, ReadAgainAtEnd, Reset, Close, Seek,
           Goto, shared, limits, filler
<1>2. r_at' \in Early => r_at \in Early /\ UNCHANGED read_filepos
  <2>1. CASE PrefillLook \/ PrefillEof \/ Interrupted
    BY <2>1 DEF PrefillLook, PrefillEof, Interrupted, Goto, shared
  <2>2. CASE LookMax \/ LookMin \/ LookEof \/ Read \/ Close
    BY <2>2 DEF LookMax, LookMin, LookEof, Read, Close, Goto
  <2>3. CASE ReturnEof \/ Take \/ Copy \/ Advance \/ SeekClearsEof
    BY <2>3 DEF ReturnEof, Take, Copy, Advance, SeekClearsEof, EndRead
  <2>4. CASE ReadAgainAtEnd \/ Reset \/ \E p \in Target : Seek(p)
    BY <2>4 DEF ReadAgainAtEnd, Reset, Seek
  <2> QED
    BY <2>1, <2>2, <2>3, <2>4 DEF Reader, Call
<1> QED
    BY <1>1, <1>2 DEF PrefillInv, Dropping

\* What is behind the reader takes half of the buffer at most, so that less room
\* than a fill needs means that the rest is ahead of it.
LEMMA FullIsFed ==
    ASSUME Inv, PrefillInv, f_at = "space", Free < FillLimit
    PROVE  /\ min_filepos <= read /\ read < max_filepos
           /\ r_at \in {"prefill", "prefill_eof"} => read_filepos >= min_filepos /\ Prefilled
<1> USE Sizes DEF Inv
<1>1. /\ read \in Nat /\ min_filepos \in Nat /\ max_filepos \in Nat /\ read >= min_filepos
      /\ min \in Nat /\ min <= BufferSize - FillLimit
    BY DEF Types, PlacesInv, PrefillInv
<1>2. /\ Back \in Nat /\ Back <= BackSize /\ Newb \in Nat /\ Newb + Back > BufferSize - FillLimit
      /\ Newb = IF read <= max_filepos THEN max_filepos - read ELSE 0
      /\ read = min_filepos => Back = 0
  <2>1. /\ Back \in Nat /\ Back <= BackSize
        /\ read = min_filepos => Back = 0
    BY <1>1 DEF Back, Smaller, Larger
  <2>2. Newb \in Nat /\ Newb = IF read <= max_filepos THEN max_filepos - read ELSE 0
    BY <1>1 DEF Newb, Larger
  <2>3. Free = BufferSize - (Newb + Back)
    BY DEF Free
  <2> QED
    BY <2>1, <2>2, <2>3
<1>3. Newb > 0
    BY <1>2
<1>4. read < max_filepos
    BY <1>1, <1>2, <1>3
<1>5. ASSUME r_at \in {"prefill", "prefill_eof"} PROVE read_filepos >= min_filepos /\ Prefilled
  <2>1. read_filepos = 0 /\ min_filepos = 0 /\ read = 0
    BY <1>5 DEF PrefillInv
  <2>2. Newb = max_filepos /\ Newb > BufferSize - FillLimit
    BY <1>1, <1>2, <2>1
  <2> QED
    BY <1>1, <2>1, <2>2 DEF Prefilled
<1> QED
    BY <1>1, <1>4, <1>5

(* cache_read and stream_enable_cache never wait for a filler that has gone  *)
(* to sleep over a full buffer: for any sizes that cache_init can choose and *)
(* any prefill and seek limit, as they are clamped.                          *)
THEOREM AlwaysSleepsFed == Spec => []SleepsFed
<1>1. Init => PrefillInv
    BY PrefillInit
<1>2. Inv /\ PrefillInv /\ [Next]_vars => PrefillInv'
  <2>1. UNCHANGED vars /\ PrefillInv => PrefillInv'
    BY DEF PrefillInv, Dropping, vars, shared, limits, filler, reader
  <2> QED
    BY <2>1, PrefillFiller, PrefillReader DEF Next
<1>3. Inv /\ PrefillInv => SleepsFed
  <2>1. PrefillInv => (f_at = "copy" => space > 0)
    BY DEF PrefillInv
  <2> QED
    BY <2>1, FullIsFed DEF SleepsFed
<1> QED
    BY <1>1, <1>2, <1>3, Invariant, PTL DEF Spec
=============================================================================
