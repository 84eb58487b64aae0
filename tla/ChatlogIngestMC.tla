--------------------------- MODULE ChatlogIngestMC ---------------------------
(* Two processes and two turns, each for a store of its own. *)
EXTENDS ChatlogIngest, TLC

CONSTANTS t1, t2, p1, p2

Apart == t1 :> "main" @@ t2 :> "other"
SmallAndLarge == p1 :> 1 @@ p2 :> 2
Large == p1 :> 2 @@ p2 :> 2
=============================================================================
