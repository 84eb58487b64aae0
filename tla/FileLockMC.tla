----------------------------- MODULE FileLockMC -----------------------------
(* FileLock on small sets of processes. *)
EXTENDS FileLock, TLC

CONSTANTS p1, p2, p3

SameHost3 == [p \in {p1, p2, p3} |-> "h1"]
TwoHosts3 == [p \in {p1, p2, p3} |-> IF p = p3 THEN "h2" ELSE "h1"]
Interchangeable2 == Permutations({p1, p2})
=============================================================================
