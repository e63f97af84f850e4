-------------------------------- MODULE MCPscd --------------------------------
(***************************************************************************)
(* Pscd for TLC: the file trees over a few names, up to a given depth.     *)
(***************************************************************************)
EXTENDS Pscd

CONSTANTS Names, MaxDepth

MCPaths == UNION {[1 .. n -> Names] : n \in 1 .. MaxDepth}
=============================================================================
