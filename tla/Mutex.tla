-------------------------------- MODULE Mutex --------------------------------
(***************************************************************************)
(* What file_lock of bin/m3_core/locking.py is for, without files: one      *)
(* holder at a time.  "broken" says that the promise is off: the lock of a   *)
(* live owner was taken away, which the code can only log.                  *)
(***************************************************************************)
CONSTANT Procs

VARIABLES
  holders,  \* the live processes inside
  broken    \* the promise is off

Init == holders = {} /\ broken = FALSE

Enter(p) ==
  /\ p \notin holders
  /\ holders = {} \/ broken
  /\ holders' = holders \union {p}
  /\ UNCHANGED broken

\* p releases the lock, or dies.
Leave(p) ==
  /\ p \in holders
  /\ holders' = holders \ {p}
  /\ UNCHANGED broken

Break ==
  /\ broken' = TRUE
  /\ UNCHANGED holders

Next == Break \/ \E p \in Procs : Enter(p) \/ Leave(p)

Spec == Init /\ [][Next]_<<holders, broken>>
=============================================================================
