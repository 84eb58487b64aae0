---------------------------- MODULE SpillDrainMC ----------------------------
(* SpillDrain on two turns and two drains. *)
EXTENDS SpillDrain

CONSTANTS t1, t2, d1, d2, f1, f2

Apart == [t \in Turns |-> IF t = t1 THEN "main" ELSE "other"]
=============================================================================
