------------------------------ MODULE MCAudio -------------------------------
(* Sixteenths of the buffer would do for the real sizes; these are eighths:  *)
(* 16 kB, what a callback takes.                                             *)
EXTENDS Audio

MCChunk == {2, 4}
=============================================================================
