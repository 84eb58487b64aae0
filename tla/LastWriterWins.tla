--------------------------- MODULE LastWriterWins ---------------------------
(***************************************************************************)
(* What the exchange of rows between devices and a warehouse promises,     *)
(* without runs, transactions, watermarks or guards: only devices make     *)
(* versions of a row, each newer than all there are; copies travel and may *)
(* be lost; and a store or the warehouse gives a version up for a newer    *)
(* one only.  A version is the time it was written, 0 for none.            *)
(***************************************************************************)
EXTENDS Naturals

CONSTANTS
  Devices,
  Keys,
  Versions   \* a set of natural numbers with 0

VARIABLES
  held,      \* held[d][k]: the version of k in d's store
  shared,    \* shared[k]: the version in the warehouse
  moving     \* moving[k]: the versions of which copies are under way

vars == <<held, shared, moving>>

Init ==
  /\ held = [d \in Devices |-> [k \in Keys |-> 0]]
  /\ shared = [k \in Keys |-> 0]
  /\ moving = [k \in Keys |-> {}]

Anywhere(k) == {held[d][k] : d \in Devices} \union {shared[k]} \union moving[k]

Write(d, k) ==
  /\ \E v \in Versions :
       /\ \A u \in Anywhere(k) : v > u
       /\ held' = [held EXCEPT ![d][k] = v]
  /\ UNCHANGED <<shared, moving>>

\* Copies are made of what there is, or lost.
Carry ==
  /\ \A k \in Keys : moving'[k] \subseteq Anywhere(k)
  /\ UNCHANGED <<held, shared>>

\* "new" is "old", or a newer copy that has arrived.
Newer(k, old, new) == new = old \/ (new > old /\ new \in moving[k])

Arrived == \A k \in Keys : moving'[k] \subseteq moving[k]

Deliver(d) ==
  /\ \A k \in Keys : Newer(k, held[d][k], held'[d][k])
  /\ \A e \in Devices \ {d} : held'[e] = held[e]
  /\ Arrived
  /\ UNCHANGED shared

Publish ==
  /\ \A k \in Keys : Newer(k, shared[k], shared'[k])
  /\ Arrived
  /\ UNCHANGED held

Next ==
  \/ Carry \/ Publish
  \/ \E d \in Devices : Deliver(d) \/ \E k \in Keys : Write(d, k)

Spec == Init /\ [][Next]_vars
=============================================================================
