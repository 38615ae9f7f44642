---------------------------- MODULE MCRingBuffer ----------------------------
(* RingBuffer on a small instance: a 3- or 4-byte buffer, chunks of up to   *)
(* Size + 1 bytes so that both refusals and every wrap position occur.      *)
EXTENDS RingBuffer

CONSTANT MaxChunk

MCChunk   == UNION {[1 .. n -> Byte] : n \in 0 .. MaxChunk}
MCReadLen == 0 .. Size + 1

=============================================================================
