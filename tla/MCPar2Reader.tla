----------------------------- MODULE MCPar2Reader -----------------------------
(***************************************************************************)
(* Files of up to three packets, of the sets "S" and "T".                   *)
(***************************************************************************)
EXTENDS Par2Reader

Of(set, type, body) == [set |-> set, type |-> type, body |-> body]
Shard(e, data)      == [exponent |-> e, data |-> data]

MCPackets ==
  {Broken,
   Of("S", "creator", [client |-> "gopar"]), Of("T", "creator", [client |-> "gopar"]),
   Of("S", "main", [slices |-> "m"]), Of("S", "main", [slices |-> "n"]),
   Of("S", "fileDesc", [id |-> "f", content |-> "x"]),
   Of("S", "fileDesc", [id |-> "f", content |-> "y"]),
   Of("S", "ifsc", [id |-> "f", content |-> "x"]),
   Of("S", "recovery", Shard(0, "p")), Of("S", "recovery", Shard(0, "q")),
   Of("S", "recovery", Shard(1, "q")), Of("T", "recovery", Shard(0, "q")),
   Of("S", "unknown", [size |-> 0]), Of("S", "recovery", Malformed), Of("T", "main", Malformed)}
===============================================================================
