---------------------------- MODULE MCPar1Commands ----------------------------
(***************************************************************************)
(* Three small files for Par1Commands; "e" is empty.  With a limit of four *)
(* shards, four and five entries are as 256 and 257 are to the code.       *)
(***************************************************************************)
EXTENDS Par1Commands

In(p)  == [path |-> p, saved |-> TRUE]
Out(p) == [path |-> p, saved |-> FALSE]

MCPaths    == {"a", "b", "e"}
MCOriginal == [p \in MCPaths |-> CASE p = "a" -> <<1, 2>> [] p = "b" -> <<2>> [] p = "e" -> <<>>]
MCByte     == {0, 1, 2}
MCContents == {<<1, 2>>, <<1>>, <<2>>, Missing, Unreadable}

\* All saved, with and without an empty file; entries that are not saved, after
\* and before those that are; as many entries as the limit, and more; none.
MCEntries ==
  {<<In("a"), In("b")>>, <<In("b"), In("e")>>, <<In("a"), Out("b")>>,
   <<Out("b"), In("a")>>, <<Out("a"), In("b")>>, <<Out("e"), In("a")>>,
   <<In("a"), In("b"), Out("e"), Out("e")>>,
   <<In("a"), In("b"), In("e"), In("a"), Out("b")>>, <<Out("a")>>}
MCAligned  == {<<In("a"), In("b")>>}
MCSingular == {<<{1, 2}, {1, 2}>>}
MCNone     == {}
===============================================================================
