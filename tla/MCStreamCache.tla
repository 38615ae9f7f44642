--------------------------- MODULE MCStreamCache ----------------------------
(* A stream that seeks and a linear one; limits below and above the clamp. *)
EXTENDS StreamCache

MCSeekLimit == {0, 9}
MCPrefill   == {9}
MCTarget    == {1, 7}
=============================================================================
