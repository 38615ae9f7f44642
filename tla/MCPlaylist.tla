----------------------------- MODULE MCPlaylist -----------------------------
(* Playlist with interchangeable entries.                                  *)
EXTENDS Playlist, TLC

EntrySymmetry == Permutations(Entry)
=============================================================================
