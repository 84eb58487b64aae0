--------------------------- MODULE WarehouseSyncMC ---------------------------
(* WarehouseSync on two devices and one row. *)
EXTENDS WarehouseSync, TLC

CONSTANTS d1, d2, i1

Written == [i \in Ids |-> "auto"]

\* A row that is not plain only promises to be pulled, which a creation, a push
\* and two runs can break: its last reading of the clock ends the behaviour.
LateRowsEndEarly == plain = Ids \/ clock < MaxClock

Interchangeable == Permutations({d1, d2})
=============================================================================
