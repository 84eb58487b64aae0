----------------------------- MODULE MessageQueue -----------------------------
(***************************************************************************)
(* What a queue with leases promises: a message is handed out to one        *)
(* attempt at a time, at most MaxAttempts times, and taken back from an     *)
(* attempt only when its lease has lapsed; only the attempt that has it     *)
(* closes it, once; a closed message is not handed out again.               *)
(***************************************************************************)
EXTENDS Naturals

CONSTANTS Messages, MaxAttempts

VARIABLES
    state,     \* the state of each message
    attempts,  \* how often each message was handed out
    lapsed,    \* lapsed[m]: the attempts whose lease on m has lapsed
    closedBy   \* closedBy[m]: the attempts that were told they closed m

vars == <<state, attempts, lapsed, closedBy>>

States == {"ABSENT", "PENDING", "CLAIMED", "COMPLETED", "FAILED"}

Init ==
    /\ state = [m \in Messages |-> "ABSENT"] /\ attempts = [m \in Messages |-> 0]
    /\ lapsed = [m \in Messages |-> {}] /\ closedBy = [m \in Messages |-> {}]

Goes(m, from, to) == state[m] = from /\ state'[m] = to
Keeps(m) == attempts'[m] = attempts[m] /\ lapsed'[m] = lapsed[m] /\ closedBy'[m] = closedBy[m]

HandOut(m) ==
    /\ Goes(m, "PENDING", "CLAIMED")
    /\ attempts[m] < MaxAttempts /\ attempts'[m] = attempts[m] + 1
    /\ lapsed'[m] = lapsed[m] /\ closedBy'[m] = closedBy[m]

Lapse(m) ==
    /\ Goes(m, "CLAIMED", "CLAIMED") /\ lapsed'[m] = lapsed[m] \cup {attempts[m]}
    /\ attempts'[m] = attempts[m] /\ closedBy'[m] = closedBy[m]

TakeBack(m) ==
    /\ attempts[m] \in lapsed[m] /\ Keeps(m)
    /\ IF attempts[m] < MaxAttempts THEN Goes(m, "CLAIMED", "PENDING") ELSE Goes(m, "CLAIMED", "FAILED")

Close(m) ==
    /\ Goes(m, "CLAIMED", "COMPLETED") \/ Goes(m, "CLAIMED", "FAILED")
    /\ closedBy'[m] = closedBy[m] \cup {attempts[m]}
    /\ attempts'[m] = attempts[m] /\ lapsed'[m] = lapsed[m]

\* A message is posted, read by somebody who did not claim it, or left alone.
Rest(m) ==
    /\ Goes(m, "ABSENT", "PENDING") \/ Goes(m, "PENDING", "COMPLETED") \/ state'[m] = state[m]
    /\ Keeps(m)

\* One step may move several messages.
Next == \A m \in Messages : HandOut(m) \/ Lapse(m) \/ TakeBack(m) \/ Close(m) \/ Rest(m)

Spec == Init /\ [][Next]_vars
=============================================================================
