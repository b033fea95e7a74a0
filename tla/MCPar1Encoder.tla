----------------------------- MODULE MCPar1Encoder -----------------------------
(***************************************************************************)
(* Two files for Par1Encoder, given in either order or one of them twice.  *)
(* With a limit of 5 shards and of 2 volumes, 3 volumes of 2 files are as  *)
(* 254 are to the code, and one more is refused.                           *)
(***************************************************************************)
EXTENDS Par1Encoder

MCPaths     == {"a", "b"}
MCArguments == {<<"b", "a">>, <<"b">>, <<"a", "a">>}
MCContents  == {"x", "y", "none"}
MCCounts    == {1, 3, 4}
===============================================================================
