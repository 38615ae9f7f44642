---------------------------- MODULE MCFilePlayer ----------------------------
(* FilePlayer with interchangeable threads. *)
EXTENDS FilePlayer, TLC

ThreadSymmetry == Permutations(Thread)
=============================================================================
