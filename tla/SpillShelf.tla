----------------------------- MODULE SpillShelf -----------------------------
(***************************************************************************)
(* What the spill files promise to the chat log, without files, drains or  *)
(* failures: a turn that was accepted waits until it is placed, in its     *)
(* store or among the parked lines, in one of the two and for good.        *)
(***************************************************************************)
CONSTANT Turns

VARIABLES
  waiting,   \* turns accepted and not yet placed
  stored,    \* turns in their store
  parked     \* turns set aside, never to be tried again

vars == <<waiting, stored, parked>>

Init == waiting = {} /\ stored = {} /\ parked = {}

Accept ==
  /\ \E batch \in SUBSET (Turns \ (waiting \union stored \union parked)) :
       waiting' = waiting \union batch
  /\ UNCHANGED <<stored, parked>>

Store(group) ==
  /\ waiting' = waiting \ group
  /\ stored' = stored \union group
  /\ UNCHANGED parked

SetAside(group) ==
  /\ waiting' = waiting \ group
  /\ parked' = parked \union group
  /\ UNCHANGED stored

Next == Accept \/ \E group \in SUBSET waiting : Store(group) \/ SetAside(group)

Spec == Init /\ [][Next]_vars
=============================================================================
