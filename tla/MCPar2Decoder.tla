----------------------------- MODULE MCPar2Decoder -----------------------------
(***************************************************************************)
(* Two small files for Par2Decoder.  Slices are two bytes: file "a" has    *)
(* the slices 11 and 20 (the second one padded), file "b" the slice 21.    *)
(***************************************************************************)
EXTENDS Par2Decoder

MCPaths    == {"a", "b"}
MCSet      == <<"a", "b">>
MCOriginal == [p \in MCPaths |-> IF p = "a" THEN <<1, 1, 2>> ELSE <<2, 1>>]
MCByte     == {0, 1, 2, 9}
MCJunk     == <<9, 9>>

\* Intact, the other file's bytes, a byte inserted in front (whose scan hits
\* the slice of "b" first), a slice overwritten, a byte appended, cut short.
MCContents == {<<1, 1, 2>>, <<2, 1>>, <<2, 1, 1, 2>>, <<1, 1, 9>>,
               <<2, 1, 1>>, <<1, 1>>, Missing, Unreadable}

MCExponents == 0..2
MCVolumes   == <<{0}, {1, 2}>>
MCOverlap   == <<{0, 1}, {0, 2}>>
MCCut       == <<{}, {2}>>
MCNone      == {}
MCNoStale   == {{}}
MCStale     == {{}, {2}}
MCSingular  == {<<{<<1, 0>>, <<1, 1>>}, {1, 2}>>, <<{<<2, 0>>}, {1}>>}
===============================================================================
