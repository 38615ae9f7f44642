----------------------------- MODULE FileStream -----------------------------
(***************************************************************************)
(* What a stream promises its reader: a file of Length sectors, a place in *)
(* it, reads that return the sector at that place until the file is over,  *)
(* and seeks.  Once a read has met the end, every read does, until the     *)
(* stream is reset.  StreamCache implements it with a second process that  *)
(* reads ahead.                                                            *)
(***************************************************************************)
EXTENDS Integers

CONSTANTS
    Length,     \* the sectors of the file
    NoSector    \* what a read returns at the end

VARIABLES
    place,      \* the sector the next read returns
    at_end,     \* a read has met the end
    result      \* the sector read last

vars == <<place, at_end, result>>

Init ==
    /\ place = 0
    /\ at_end = FALSE
    /\ result = NoSector

Read ==
    /\ ~at_end
    /\ place < Length
    /\ result' = place
    /\ place' = place + 1
    /\ UNCHANGED at_end

ReadAtEnd ==
    /\ at_end \/ place >= Length
    /\ result' = NoSector
    /\ at_end' = TRUE
    /\ UNCHANGED place

Seek == \E p \in 0 .. Length :
    /\ place' = p
    /\ result' = NoSector
    /\ UNCHANGED at_end

Reset ==
    /\ at_end' = FALSE
    /\ UNCHANGED <<place, result>>

Next == Read \/ ReadAtEnd \/ Seek \/ Reset

Spec == Init /\ [][Next]_vars
=============================================================================
