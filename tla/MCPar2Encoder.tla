----------------------------- MODULE MCPar2Encoder -----------------------------
(***************************************************************************)
(* Two files for Par2Encoder, named in another order than their IDs have.  *)
(* The contents "x" and "z" differ only after their first 16k.             *)
(***************************************************************************)
EXTENDS Par2Encoder

MCPaths     == {"a", "b"}
MCArguments == {<<"b", "a">>, <<"a", "b", "a">>}
MCContents  == {"x", "y", "z", "none"}
MCFirst     == {[p \in MCPaths |-> "x"], [p \in MCPaths |-> "none"]}
MCStart     == [c \in MCContents |-> IF c = "z" THEN "x" ELSE c]
MCRank ==
  [id \in MCPaths \X {"x", "y", "none"} |->
     CASE id[2] = "none" -> IF id[1] = "a" THEN 1 ELSE 4
       [] id[2] = "x"    -> IF id[1] = "a" THEN 2 ELSE 6
       [] id[2] = "y"    -> IF id[1] = "a" THEN 5 ELSE 3]
MCCounts    == {2, 3}

\* Content "y" has two slices and the others have one; the coder takes four.
Slices(data) == Len(data) + Cardinality({k \in DOMAIN data : data[k] = "y"})
MCOversized  ==
  {data \in UNION {[1 .. n -> MCContents] : n \in {2, 3}} : Slices(data) > 4} \X MCCounts
===============================================================================
