---------------------------- MODULE MCEventQueue ----------------------------
(* EventQueue with the two threads of the player that push events, the     *)
(* main thread and a frontend thread.  The nodes are interchangeable: no    *)
(* definition tells one from another.                                       *)
EXTENDS EventQueue, TLC

NodeSymmetry == Permutations(Node)
=============================================================================
