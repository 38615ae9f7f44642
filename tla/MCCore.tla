------------------------------- MODULE MCCore -------------------------------
(***************************************************************************)
(* Core for TLC: a playlist of one track, which is also what follows a     *)
(* file that is not in the list, and a timer of two minutes, so that one   *)
(* decrement is not yet the end and a timer can be set again while it runs.*)
(***************************************************************************)
EXTENDS Core

MCMinutes == {2}
=============================================================================
