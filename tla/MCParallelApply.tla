---------------------------- MODULE MCParallelApply ----------------------------
(***************************************************************************)
(* Small shards for ParallelApply: as many goroutines as make two or three *)
(* ranges, the last of which is shorter than the others.                   *)
(***************************************************************************)
EXTENDS ParallelApply
===============================================================================
