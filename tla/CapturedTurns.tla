---------------------------- MODULE CapturedTurns ----------------------------
(***************************************************************************)
(* What a process that captures chat turns promises: a row it accepted     *)
(* stays in its memory until it is durable.  A row leaves memory without   *)
(* being durable only when the process dies, when neither the store nor    *)
(* the disk took it and the process either ends or has no room left, or,   *)
(* the one exception that no failure of the disk excuses, when the process *)
(* ends while a store is taking it.                                        *)
(***************************************************************************)
EXTENDS Naturals, FiniteSets

CONSTANTS
    Procs,
    Capacity  \* Capacity[p]: the room in the memory of p

VARIABLES
    pending,  \* pending[p]: the rows in the memory of p
    durable,  \* rows in a store or in a file
    refused,  \* rows neither the store nor the disk took
    unwatched,\* rows a store was taking when their process ended
    serving,  \* serving[p]: p will try its rows again
    deaths

vars == <<pending, durable, refused, unwatched, serving, deaths>>

Init ==
    /\ pending = [p \in Procs |-> {}] /\ durable = {} /\ refused = {} /\ unwatched = {}
    /\ serving \in [Procs -> BOOLEAN] /\ deaths = 0

Accepted(p) == (pending'[p] \cup durable') \ (pending[p] \cup durable)
Dropped(p) == pending[p] \ (pending'[p] \cup durable')

\* Only p moves; what is durable stays so, and what p accepts is new.
Moves(p) ==
    /\ \A q \in Procs \ {p} : pending'[q] = pending[q] /\ serving'[q] = serving[q]
    /\ durable \subseteq durable' /\ refused \subseteq refused' /\ unwatched \subseteq unwatched'
    /\ (refused' \ refused) \cup (unwatched' \ unwatched) \subseteq pending[p]
    /\ Accepted(p) \cap (refused \cup unwatched) = {}
    /\ unwatched' # unwatched => ~serving'[p]

\* p accepts rows, makes rows durable, has rows refused, or gives up rows it may.
Work(p) ==
    /\ Moves(p) /\ deaths' = deaths
    /\ Dropped(p) \subseteq refused' \cup unwatched'
    /\ serving[p] /\ Dropped(p) # {} => Cardinality(pending'[p]) >= Capacity[p]

Die(p) == Moves(p) /\ deaths' = deaths + 1 /\ pending'[p] = {}

Next == \E p \in Procs : Work(p) \/ Die(p)

Spec == Init /\ [][Next]_vars
=============================================================================
