----------------------------- MODULE MCXaStreams -----------------------------
(***************************************************************************)
(* XaStreams for TLC: one file of each kind.                               *)
(***************************************************************************)
EXTENDS XaStreams

MCStreams == {"song", "voice", "film"}
MCKind    == [st \in MCStreams |->
                CASE st = "song" -> "xa" [] st = "voice" -> "xacd" [] st = "film" -> "str"]
MCIds     == <<7, 5>>

\* Numbers left out, and the file number given but the encoder's channel kept.
MCLineIds == {<<>>, <<3, -1>>}
=============================================================================
