---------------------------- MODULE MCPar2Commands ----------------------------
(***************************************************************************)
(* The files of MCPar2Decoder for Par2Commands: "a" has the slices 11 and  *)
(* 20, "b" the slice 21.                                                   *)
(***************************************************************************)
EXTENDS Par2Commands

MCPaths    == {"a", "b"}
MCSet      == <<"a", "b">>
MCOriginal == [p \in MCPaths |-> IF p = "a" THEN <<1, 1, 2>> ELSE <<2, 1>>]
MCByte     == {0, 1, 2, 9}
MCJunk     == <<9, 9>>

\* Damage with slices out of place, and damage that leaves slices only where
\* they belong.
MCContents == {<<1, 1, 2>>, <<2, 1>>, <<2, 1, 1, 2>>, <<1, 1, 9>>, <<9, 9, 2>>, Missing,
               Unreadable}

MCExponents == 0..2
MCVolumes   == <<{0}, {1, 2}>>
MCCut       == <<{}, {2}>>
MCNone      == {}
MCNoStale   == {{}}
===============================================================================
