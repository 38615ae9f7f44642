---------------------------- MODULE StreamCache -----------------------------
(***************************************************************************)
(* The stream cache of MPlayer (stream/cache2.c): a forked process, the    *)
(* filler, reads ahead into a ring of shared memory, the player's process  *)
(* reads from it, and there is no lock.  The filler alone writes           *)
(* min_filepos, max_filepos and offset, the reader alone read_filepos;     *)
(* both write eof.  A step is what a process does between two accesses to  *)
(* a variable the other one writes or reads.  The unit is the sector: the  *)
(* reader takes one at a time and every position the code stores is a      *)
(* multiple of it.  Writes of the filler that follow each other become     *)
(* visible in the order of the source.                                     *)
(***************************************************************************)
EXTENDS Integers

CONSTANTS
    BufferSize,     \* buffer_size
    BackSize,       \* back_size: half the buffer
    FillLimit,      \* fill_limit: 8 sectors
    MaxFill,        \* the 4 sectors that are read at once at most
    SeekLimit,      \* the seek limits asked for; 0 stands for a stream that seeks
    Prefill,        \* the prefills asked for
    Length,         \* the sectors of the file
    Target,         \* bound: the sectors the reader seeks to
    NoSector        \* what a read returns at the end

ASSUME SizeAssumption ==
    /\ BufferSize \in Nat /\ BackSize \in Nat /\ FillLimit \in Nat /\ MaxFill \in Nat \ {0}
    /\ MaxFill <= FillLimit
    /\ FillLimit + BackSize <= BufferSize
ASSUME RequestAssumption ==
    /\ SeekLimit \subseteq Nat /\ Prefill \subseteq Nat
    /\ Length \in Nat /\ Target \subseteq 0 .. Length

Slot == 0 .. BufferSize - 1
Place == 0 .. Length

FillerLabel == {"fill", "drop_min", "drop_offset", "space", "copy", "max", "offset"}
ReaderLabel == {"prefill", "prefill_eof", "idle", "look", "look_min", "eof", "end",
                "take", "copy", "advance", "seek_eof", "closed", "crashed"}

VARIABLES
    buffer,             \* which sector of the file is in each slot
    eof, min_filepos, max_filepos, offset, read_filepos,    \* cache_vars_t
    seek_limit, min,    \* as cache_vars_t and stream_enable_cache have clamped them
    f_at,               \* where the filler is
    read, pos, space, len,      \* its locals
    stream_pos,         \* the place of its own stream in the file
    r_at,               \* where the reader is
    seen_max,           \* the max_filepos its loop has loaded
    slot,               \* the slot it copies from
    data,               \* the sector it has in its own buffer
    stream_eof,         \* the eof of its stream_t
    raced               \* history: the missing lock has been needed

shared == <<buffer, eof, min_filepos, max_filepos, offset, read_filepos>>
limits == <<seek_limit, min>>
filler == <<f_at, read, pos, space, len, stream_pos>>
reader == <<r_at, seen_max, slot, data, stream_eof, raced>>
vars   == <<shared, limits, filler, reader>>

\* Sectors that no fill has put there.
Nothing == -1

Smaller(a, b) == IF a < b THEN a ELSE b
Larger(a, b)  == IF a < b THEN b ELSE a

\* A fault: the limits are taken as they were asked for.
AsAsked(limit) == limit

\* "make sure that we won't wait from cache_fill more data than it is allowed
\* to fill"
Clamped(limit) == Smaller(limit, BufferSize - FillLimit)

\* cache_init, and stream_enable_cache up to the fork.
Init ==
    /\ buffer = [s \in Slot |-> Nothing]
    /\ eof = FALSE
    /\ min_filepos = 0 /\ max_filepos = 0 /\ offset = 0 /\ read_filepos = 0
    /\ \E l \in SeekLimit : seek_limit = Clamped(l)
    /\ \E m \in Prefill : min = Clamped(m)
    /\ f_at = "fill"
    /\ read = 0 /\ pos = 0 /\ space = 0 /\ len = 0 /\ stream_pos = 0
    /\ r_at = "prefill"
    /\ seen_max = 0 /\ slot = 0 /\ data = NoSector
    /\ stream_eof = FALSE
    /\ raced = FALSE

-----------------------------------------------------------------------------
(***************************************************************************)
(* The filler: cache_fill, again and again.                                *)
(***************************************************************************)
\* Locals end with the call.
EndFill == f_at' = "fill" /\ read' = 0 /\ pos' = 0 /\ space' = 0 /\ len' = 0

FillerAt(label) == f_at = label /\ r_at # "closed"

\* The position lies outside of the buffer, and a linear stream would not get
\* there soon by reading on.
OutOfReach(r) ==
    \/ r < min_filepos
    \/ r > max_filepos /\ r >= max_filepos + seek_limit

\* One read of read_filepos serves the whole fill.  A drop stores the new
\* position from right to left: max_filepos, min_filepos, offset.
Snapshot ==
    /\ FillerAt("fill")
    /\ read' = read_filepos
    /\ IF OutOfReach(read_filepos)
       THEN max_filepos' = read_filepos /\ f_at' = "drop_min"
       ELSE f_at' = "space" /\ UNCHANGED max_filepos
    /\ UNCHANGED <<buffer, eof, min_filepos, offset, read_filepos, limits,
                   pos, space, len, stream_pos, reader>>

DropMin ==
    /\ FillerAt("drop_min")
    /\ min_filepos' = read
    /\ f_at' = "drop_offset"
    /\ UNCHANGED <<buffer, eof, max_filepos, offset, read_filepos, limits,
                   read, pos, space, len, stream_pos, reader>>

\* The filler's own stream follows: it is one that can be sought.  A network
\* stream without a seek of its own, and a seek that fails, stay where they are
\* while the positions move on (stream.c, 321-332): they are not modelled.
DropOffset ==
    /\ FillerAt("drop_offset")
    /\ offset' = read
    /\ stream_pos' = read
    /\ f_at' = "space"
    /\ UNCHANGED <<buffer, eof, min_filepos, max_filepos, read_filepos, limits,
                   read, pos, space, len, reader>>

\* How much is behind and ahead of the reader, and so how much is free.
Back == Smaller(Larger(read - min_filepos, 0), BackSize)
Newb == Larger(max_filepos - read, 0)
Free == BufferSize - (Newb + Back)

\* The slot of a position: of the filler's end, of the reader's place.
FillSlot(p) == IF p - offset >= BufferSize THEN p - offset - BufferSize ELSE p - offset

\* One fill stops at the end of the buffer and after MaxFill sectors.
Piece == Smaller(Smaller(Free, BufferSize - FillSlot(max_filepos)), MaxFill)

\* A fault: the old sectors are given up for a fill one sector smaller.
KeptTooLong == Larger(min_filepos, read - (BufferSize - (Piece - 1 + Newb)))

\* The old sectors a fill of that size leaves in the buffer.
Kept == Larger(min_filepos, read - (BufferSize - (Piece + Newb)))

NoFill ==
    /\ FillerAt("space")
    /\ Free < FillLimit
    /\ EndFill
    /\ UNCHANGED <<shared, limits, stream_pos, reader>>

GiveUpOld ==
    /\ FillerAt("space")
    /\ Free >= FillLimit
    /\ pos' = FillSlot(max_filepos)
    /\ space' = Piece
    /\ min_filepos' = Kept
    /\ len' = 0
    /\ f_at' = "copy"
    /\ UNCHANGED <<buffer, eof, max_filepos, offset, read_filepos, limits,
                   read, stream_pos, reader>>

\* stream_read, sector by sector.
CopySector ==
    /\ FillerAt("copy")
    /\ len < space /\ stream_pos < Length
    /\ buffer' = [buffer EXCEPT ![pos + len] = stream_pos]
    /\ stream_pos' = stream_pos + 1
    /\ len' = len + 1
    /\ UNCHANGED <<eof, min_filepos, max_filepos, offset, read_filepos, limits,
                   f_at, read, pos, space, reader>>

\* A fault: a short read is taken for the end at once.
CopyDoneShort ==
    /\ FillerAt("copy")
    /\ len > 0
    /\ len = space \/ stream_pos >= Length
    /\ eof' = (eof \/ len < space)
    /\ f_at' = "max"
    /\ UNCHANGED <<buffer, min_filepos, max_filepos, offset, read_filepos, limits,
                   read, pos, space, len, stream_pos, reader>>

CopyDone ==
    /\ FillerAt("copy")
    /\ len > 0
    /\ len = space \/ stream_pos >= Length
    /\ f_at' = "max"
    /\ UNCHANGED <<shared, limits, read, pos, space, len, stream_pos, reader>>

\* Nothing was read: the end of the file.  (pos + 0 lies inside of the buffer.)
\* A reader that has just found the buffer empty, and is about to look at eof,
\* has not seen what was read before the end.
FoundEnd ==
    /\ FillerAt("copy")
    /\ len = 0 /\ stream_pos >= Length
    /\ eof' = TRUE
    /\ raced' = (raced \/ r_at = "eof")
    /\ EndFill
    /\ UNCHANGED <<buffer, min_filepos, max_filepos, offset, read_filepos, limits, stream_pos,
                   r_at, seen_max, slot, data, stream_eof>>

\* A fault: the offset moves only when a fill runs past the end of the buffer,
\* which it never does.
WrapLate == pos + len > BufferSize

\* The fill ended at the end of the buffer.
Wraps == pos + len >= BufferSize

\* A fault: the room for a fill is taken for what was read.
AdvanceBySpace ==
    /\ FillerAt("max")
    /\ max_filepos' = max_filepos + space
    /\ IF Wraps THEN f_at' = "offset" /\ UNCHANGED <<read, pos, space, len>> ELSE EndFill
    /\ UNCHANGED <<buffer, eof, min_filepos, offset, read_filepos, limits, stream_pos, reader>>

AdvanceMax ==
    /\ FillerAt("max")
    /\ max_filepos' = max_filepos + len
    /\ IF Wraps THEN f_at' = "offset" /\ UNCHANGED <<read, pos, space, len>> ELSE EndFill
    /\ UNCHANGED <<buffer, eof, min_filepos, offset, read_filepos, limits, stream_pos, reader>>

AdvanceOffset ==
    /\ FillerAt("offset")
    /\ offset' = offset + BufferSize
    /\ EndFill
    /\ UNCHANGED <<buffer, eof, min_filepos, max_filepos, read_filepos, limits, stream_pos, reader>>

Filler ==
    \/ Snapshot \/ DropMin \/ DropOffset
    \/ NoFill \/ GiveUpOld \/ CopySector \/ CopyDone \/ FoundEnd
    \/ AdvanceMax \/ AdvanceOffset

-----------------------------------------------------------------------------
(***************************************************************************)
(* The reader: the prefill, then cache_stream_fill_buffer and              *)
(* cache_stream_seek_long as the demuxer calls them.                       *)
(***************************************************************************)
Goto(label) ==
    /\ r_at' = label
    /\ UNCHANGED <<shared, limits, filler, seen_max, slot, data, stream_eof, raced>>

Prefilled == max_filepos - read_filepos >= min

PrefillLook ==
    /\ r_at = "prefill"
    /\ Goto(IF read_filepos >= min_filepos /\ Prefilled THEN "idle" ELSE "prefill_eof")

\* "file is smaller than prefill size"
PrefillEof ==
    /\ r_at = "prefill_eof"
    /\ Goto(IF eof THEN "idle" ELSE "prefill")

\* The user interrupts the prefill, and the file is played all the same.
Interrupted ==
    /\ r_at = "prefill_eof"
    /\ ~eof
    /\ Goto("idle")

Read ==
    /\ r_at = "idle"
    /\ ~stream_eof
    /\ Goto("look")

\* cache_stream_fill_buffer on a stream that is at its end already.
ReadAgainAtEnd ==
    /\ r_at = "idle"
    /\ stream_eof
    /\ data' = NoSector
    /\ UNCHANGED <<shared, limits, filler, r_at, seen_max, slot, stream_eof, raced>>

EndRead == r_at' = "idle" /\ seen_max' = 0 /\ slot' = 0

\* The two halves of cache_read's condition: there is nothing to read.
LookMax ==
    /\ r_at = "look"
    /\ seen_max' = max_filepos
    /\ r_at' = IF read_filepos >= max_filepos THEN "eof" ELSE "look_min"
    /\ UNCHANGED <<shared, limits, filler, slot, data, stream_eof, raced>>

LookMin ==
    /\ r_at = "look_min"
    /\ Goto(IF read_filepos < min_filepos THEN "eof" ELSE "take")

LookEof ==
    /\ r_at = "eof"
    /\ Goto(IF eof THEN "end" ELSE "look")

ReturnEof ==
    /\ r_at = "end"
    /\ stream_eof' = TRUE
    /\ data' = NoSector
    /\ EndRead
    /\ UNCHANGED <<shared, limits, filler, raced>>

\* A fault: a position the filler's offset has just moved past is taken as it is.
SlotInFront(p) == IF p - offset >= BufferSize THEN p - offset - BufferSize ELSE p - offset

\* The filler may move the offset by the size of the buffer at any moment: a
\* position on either side of it finds its slot.
ReadSlot(p) ==
    IF p < offset THEN p - offset + BufferSize
    ELSE IF p - offset >= BufferSize THEN p - offset - BufferSize
    ELSE p - offset

\* How much there is to read: the build may load max_filepos again or use what
\* the loop has loaded.  A negative length is the end of the process.
Take == \E max \in {seen_max, max_filepos} :
    LET newb == Smaller(max - read_filepos, BufferSize - ReadSlot(read_filepos))
    IN /\ r_at = "take"
       /\ slot' = ReadSlot(read_filepos)
       /\ r_at' = IF newb > 0 THEN "copy" ELSE IF newb = 0 THEN "look" ELSE "crashed"
       /\ UNCHANGED <<shared, limits, filler, seen_max, data, stream_eof, raced>>

\* Outside of the buffer there is no sector of the file.
Copy ==
    /\ r_at = "copy"
    /\ data' = IF slot \in Slot THEN buffer[slot] ELSE Nothing
    /\ r_at' = "advance"
    /\ UNCHANGED <<shared, limits, filler, seen_max, slot, stream_eof, raced>>

Advance ==
    /\ r_at = "advance"
    /\ read_filepos' = read_filepos + 1
    /\ EndRead
    /\ UNCHANGED <<buffer, eof, min_filepos, max_filepos, offset, limits, filler,
                   data, stream_eof, raced>>

\* The seeks that need no lock: forward, and back to a sector that is kept if
\* the filler sleeps between two fills.
Safe(p) == p >= read_filepos \/ (p >= min_filepos /\ f_at = "fill")

\* (Bound: a linear stream is not taken back further than to what is kept, which
\* its own stream_seek_long refuses to do.)
Seek(p) ==
    /\ r_at = "idle"
    /\ seek_limit > 0 => p >= min_filepos
    /\ read_filepos' = p
    /\ raced' = (raced \/ ~Safe(p))
    /\ data' = NoSector
    /\ r_at' = "seek_eof"
    /\ UNCHANGED <<buffer, eof, min_filepos, max_filepos, offset, limits, filler,
                   seen_max, slot, stream_eof>>

\* A fault: the read that follows does not mind that the stream is at its end.
SeekReadsOn ==
    /\ r_at = "seek_eof"
    /\ eof' = FALSE
    /\ r_at' = "look"
    /\ UNCHANGED <<buffer, min_filepos, max_filepos, offset, read_filepos, limits, filler,
                   seen_max, slot, data, stream_eof, raced>>

\* "!!!!!!!": the flag of the filler is cleared.  Then a read follows, which a
\* stream at its end refuses.
SeekClearsEof ==
    /\ r_at = "seek_eof"
    /\ eof' = FALSE
    /\ r_at' = IF stream_eof THEN "idle" ELSE "look"
    /\ UNCHANGED <<buffer, min_filepos, max_filepos, offset, read_filepos, limits, filler,
                   seen_max, slot, data, stream_eof, raced>>

\* stream_reset
Reset ==
    /\ r_at = "idle"
    /\ stream_eof
    /\ stream_eof' = FALSE
    /\ UNCHANGED <<shared, limits, filler, r_at, seen_max, slot, data, raced>>

\* cache_uninit kills the filler wherever it is.
Close ==
    /\ r_at = "idle"
    /\ Goto("closed")

Call == Read \/ ReadAgainAtEnd \/ Reset \/ Close \/ \E p \in Target : Seek(p)

Reader ==
    \/ PrefillLook \/ PrefillEof
    \/ LookMax \/ LookMin \/ LookEof \/ ReturnEof
    \/ Take \/ Copy \/ Advance
    \/ SeekClearsEof

Next == Filler \/ Reader \/ Interrupted \/ Call

Spec == Init /\ [][Next]_vars

\* Both processes run until they end; the reader calls again when it likes.
FairSpec == Spec /\ WF_vars(Filler) /\ WF_vars(Reader)

-----------------------------------------------------------------------------
(***************************************************************************)
(* Properties                                                              *)
(***************************************************************************)

\* The types of the variables.
TypeOK ==
    /\ buffer \in [Slot -> Place \cup {Nothing}]
    /\ eof \in BOOLEAN /\ stream_eof \in BOOLEAN /\ raced \in BOOLEAN
    /\ min_filepos \in Place /\ max_filepos \in Place /\ read_filepos \in Place
    /\ offset \in Nat /\ stream_pos \in Place
    /\ seek_limit \in Nat /\ min \in Nat
    /\ f_at \in FillerLabel /\ r_at \in ReaderLabel
    /\ read \in Place /\ pos \in Nat /\ space \in Nat /\ len \in Nat
    /\ seen_max \in Place /\ slot \in Int
    /\ data \in Place \cup {Nothing, NoSector}

\* What the filler says is in the buffer is there, each sector in the slot of
\* its position, also while a fill is overwriting older sectors and however
\* the reader seeks meanwhile (cache_fill gives up min_filepos before it reads,
\* and adds to max_filepos after it).
WindowIntact ==
    f_at \notin {"drop_min", "drop_offset"} =>
        \A p \in min_filepos .. max_filepos - 1 : buffer[(p - offset) % BufferSize] = p

\* The reader copies the sector it asked for: while it copies, the filler
\* leaves that slot alone, wherever the offset stands (cache_read).
CopiesRightData ==
    ~raced => /\ r_at # "crashed"
              /\ r_at = "copy" => slot \in Slot /\ buffer[slot] = read_filepos

\* A read that reports the end of the file is at the end of the file.
EofIsTrue == ~raced /\ r_at = "end" => read_filepos >= Length

\* The same without a lock and whatever happens: "Note it runs in 2 processes
\* (using fork()), but doesn't requires locking!!" (cache2.c:4)
EofWithoutLock == r_at = "end" => read_filepos >= Length

\* As long as the lock has not been needed, reads and seeks are those of a file.
\* The place moves with the copy.
File == INSTANCE FileStream WITH
    place <- IF r_at = "advance" THEN read_filepos + 1 ELSE read_filepos,
    at_end <- stream_eof, result <- data
ImplementsFile ==
    /\ File!Init
    /\ [][raced' \/ File!Next \/ UNCHANGED File!vars]_vars

\* No call waits for ever: the prefill, a read and a seek return, at any place
\* of the file, for any seek limit (the waits of cache_read and
\* stream_enable_cache for a filler that stops when the buffer is full).
CallsReturn == r_at # "idle" ~> r_at \in {"idle", "closed", "crashed"}
=============================================================================
