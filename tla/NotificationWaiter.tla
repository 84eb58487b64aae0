-------------------------- MODULE NotificationWaiter --------------------------
(***************************************************************************)
(* The waiter of one inbox (bin/m3_notification_waiter.py, under            *)
(* --supervise) beside the agents that use the inbox.  A waiter stamps      *)
(* receipt on what is there, remembers what is unread as its baseline, and  *)
(* then reads the inbox whenever the change token of the stores differs     *)
(* from the one it remembers, or a doorbell rings, or, on PostgreSQL, at    *)
(* every poll.  News ends it; so does its timeout; the supervisor starts    *)
(* the next one.                                                            *)
(*                                                                         *)
(* Stamps and reads go store by store, and each may fail.  What matters of  *)
(* the token is whether it differs: "changed".                              *)
(***************************************************************************)
EXTENDS Notifications

CONSTANTS
    MaxMishaps,  \* bound on failed stamps and reads and on crashes of the waiter
    Unknown      \* no baseline yet; a read that failed

ASSUME WaiterAssumption == MaxMishaps \in Nat /\ \A S \in SUBSET Messages : S # Unknown

VARIABLES
    stage,     \* what the waiter does
    todo,      \* the stores it has yet to visit in this stage
    got,       \* the unread ids it found there, or Unknown
    partial,   \* a store was skipped
    baseline,  \* baselines[a]: a set of ids, or Unknown
    news,      \* what it reports
    seen,      \* history: the ids this waiter has found, but for the news
    changed,   \* the stores were written to since it took the token
    mishaps

pass == <<todo, got, partial>>
waiter == <<stage, pass, baseline, news, seen>>
vars == <<queueVars, waiter, changed, mishaps>>

Found == (SUBSET Messages) \cup {Unknown}
Keys == {<<m, k>> : m \in Messages, k \in 1 .. MaxAttempts}

TypeOK ==
    /\ sent \subseteq Messages /\ read \subseteq sent /\ failed \subseteq sent /\ received \subseteq sent
    /\ claimedBy \in [Messages -> Agents \cup {Nobody}]
    /\ token \in [Messages -> 0 .. MaxAttempts] /\ attempts \in [Messages -> 0 .. MaxAttempts]
    /\ deadline \in [Messages -> {"none", "ahead", "past"}]
    /\ held \in [Agents -> Keys \cup {Nothing}]
    /\ lapsed \in [Messages -> SUBSET (1 .. MaxAttempts)]
    /\ closedBy \in [Messages -> SUBSET (1 .. MaxAttempts)]
    /\ stage \in {"stamping", "baseline", "armed", "looking", "reporting"}
    /\ todo \subseteq Stores /\ got \in Found /\ partial \in BOOLEAN /\ baseline \in Found
    /\ news \subseteq Messages /\ seen \subseteq Messages
    /\ changed \in BOOLEAN /\ mishaps \in 0 .. MaxMishaps

NewPass == todo' = Stores /\ got' = {} /\ partial' = FALSE
Forgets == baseline' = Unknown /\ news' = {} /\ seen' = {}

Init ==
    /\ QueueInit
    /\ stage = "stamping" /\ todo = Stores /\ got = {} /\ partial = FALSE
    /\ baseline = Unknown /\ news = {} /\ seen = {} /\ changed = FALSE /\ mishaps = 0

Mishap == mishaps < MaxMishaps /\ mishaps' = mishaps + 1
Rows(s) == {m \in sent : StoreOf[m] = s}
Visits(s) == s \in todo /\ todo' = todo \ {s}
Done == todo = {}

\* notifications_mark_received_checked, one store: at the start and with a report.
Stamp(s) ==
    /\ stage \in {"stamping", "reporting"} /\ Visits(s)
    /\ \/ /\ received' = received \cup Rows(s) /\ changed' = (changed \/ ~(Rows(s) \subseteq received))
          /\ UNCHANGED mishaps
       \/ Mishap /\ UNCHANGED <<received, changed>>
    /\ UNCHANGED <<sent, lease, attempts, read, failed, held, lapsed, closedBy>>
    /\ UNCHANGED <<stage, got, partial, baseline, news, seen>>

\* read_across_notification_stores_checked: a store that cannot be read is skipped.
Read(s) ==
    /\ stage \in {"baseline", "looking"} /\ Visits(s)
    /\ \/ got' = got \cup {m \in Rows(s) : InInbox(m)} /\ UNCHANGED <<partial, mishaps>>
       \/ Mishap /\ partial' = TRUE /\ UNCHANGED got
    /\ UNCHANGED <<queueVars, changed, stage, baseline, news, seen>>

\* unread_ids returns None.
ReadFails ==
    /\ stage \in {"baseline", "looking"} /\ ~Done /\ Mishap
    /\ todo' = {} /\ got' = Unknown
    /\ UNCHANGED <<queueVars, changed, stage, partial, baseline, news, seen>>

EndStamping ==
    /\ stage = "stamping" /\ Done /\ stage' = "baseline" /\ NewPass
    /\ UNCHANGED <<queueVars, changed, mishaps, baseline, news, seen>>

\* The baseline is kept, partial or not; then the token is taken.
TakeToken ==
    /\ stage = "baseline" /\ Done /\ stage' = "armed" /\ NewPass
    /\ baseline' = got /\ seen' = (IF got = Unknown THEN {} ELSE got) /\ changed' = FALSE
    /\ UNCHANGED <<queueVars, mishaps, news>>

\* The token differs, or the doorbell rings, or it is time to poll by query.
Wakes ==
    /\ stage = "armed" /\ stage' = "looking" /\ changed' \in {changed, FALSE}
    /\ UNCHANGED <<queueVars, mishaps, pass, baseline, news, seen>>

\* _advance: what is new, and the baseline from now on.
Gained == IF got = Unknown \/ baseline = Unknown THEN {} ELSE got \ baseline

\* Mutant of NewsIsNew: what a skipped store holds is forgotten.
LastRead == IF got = Unknown THEN baseline ELSE got

NextBaseline ==
    IF got = Unknown THEN baseline
    ELSE IF partial /\ baseline # Unknown THEN got \cup baseline ELSE got

Advance ==
    /\ stage = "looking" /\ Done /\ NewPass
    /\ baseline' = NextBaseline /\ news' = Gained
    /\ IF Gained = {} THEN stage' = "armed" /\ seen' = (IF got = Unknown THEN seen ELSE seen \cup got)
       ELSE stage' = "reporting" /\ UNCHANGED seen
    /\ UNCHANGED <<queueVars, changed, mishaps>>

\* Mutant of ReceiptInTheEnd: no sweep at startup.
RestartUnswept == stage' = "baseline" /\ NewPass /\ Forgets

\* The waiter has exited, and main calls _wait_once again.
Restart == stage' = "stamping" /\ NewPass /\ Forgets

Reports ==
    /\ stage = "reporting" /\ Done /\ Restart
    /\ UNCHANGED <<queueVars, changed, mishaps>>

TimesOut ==
    /\ stage = "armed" /\ Restart
    /\ UNCHANGED <<queueVars, changed, mishaps>>

Crashes ==
    /\ stage # "stamping" /\ Mishap /\ Restart
    /\ UNCHANGED <<queueVars, changed>>

\* Every write to a row changes the token.
Writes ==
    \/ \E m \in Messages : Notify(m) \/ Ack(m)
    \/ \E a \in Agents, m \in Messages : Claim(a, m)
    \/ \E a \in Agents, m \in Messages, k \in 1 .. MaxAttempts : Complete(a, m, k) \/ Fail(a, m, k)
    \/ \E s \in Stores : Sweep(s) \/ AckAll(s)

Idles ==
    \/ \E a \in Agents, m \in Messages, k \in 1 .. MaxAttempts : LeaseLost(a, m, k)
    \/ \E a \in Agents : Dies(a)
    \/ \E m \in Messages : Lapse(m)

\* Something else is written to a store: a renewal, another table.
Touched == ~changed /\ changed' = TRUE /\ UNCHANGED <<queueVars, waiter, mishaps>>

Queue ==
    \/ Writes /\ changed' = TRUE /\ UNCHANGED <<waiter, mishaps>>
    \/ Idles /\ UNCHANGED <<changed, waiter, mishaps>>
    \/ Touched

Steps ==
    \/ \E s \in Stores : Stamp(s) \/ Read(s)
    \/ EndStamping \/ TakeToken \/ Advance \/ Reports

Next == Queue \/ Steps \/ Wakes \/ ReadFails \/ TimesOut \/ Crashes

Spec == Init /\ [][Next]_vars

Abandoned(m) == \A a \in Agents : held[a] # <<m, token[m]>>

\* Every agent that polls sweeps; a lease nobody renews lapses; the waiter goes
\* on, and looks at its deadline each time round.
Fairness ==
    /\ \A s \in Stores : WF_vars(Sweep(s) /\ changed' = TRUE /\ UNCHANGED <<waiter, mishaps>>)
    /\ \A m \in Messages :
        WF_vars(Abandoned(m) /\ Lapse(m) /\ UNCHANGED <<changed, waiter, mishaps>>)
    /\ WF_vars(Steps) /\ SF_vars(TimesOut)

FairSpec == Spec /\ Fairness

-----------------------------------------------------------------------------
(* Properties *)

\* message_state_sql, before a row is there too.
StateOf(m) ==
    IF m \notin sent THEN "ABSENT"
    ELSE IF m \in failed THEN "FAILED"
    ELSE IF m \in read THEN "COMPLETED"
    ELSE IF claimedBy[m] # Nobody THEN "CLAIMED" ELSE "PENDING"

Queued == INSTANCE MessageQueue WITH state <- [m \in Messages |-> StateOf(m)]

\* The rows of both stores, whoever claims, stalls, dies or comes back late, are
\* the message queue of MessageQueue: "a worker whose lease expired and was
\* reclaimed by the sweeper MUST NOT be able to complete the row".
ImplementsMessageQueue == Queued!Spec

\* "Two agents were handed the same message and did it twice" was the fault the
\* lease is for: of two agents at work on a message, all but the holder of the last
\* attempt have let their lease lapse.
OneWorkerUnlessLate ==
    \A a, b \in Agents, m \in Messages, j, k \in 1 .. MaxAttempts :
        (a # b /\ held[a] = <<m, j>> /\ held[b] = <<m, k>>) =>
            j # k /\ (j < k => j \in lapsed[m])

\* A waiter reports a message as news only the first time it finds it, whatever
\* stores it skipped meanwhile (_advance).
NewsIsNew == stage = "reporting" => news \cap seen = {}

\* "A worker that crashed mid-message" does not strand the row: somebody's sweep
\* takes it back or fails it (sweep_leases_opportunistically).
Stranded(m) == StateOf(m) = "CLAIMED" /\ Abandoned(m)
NotStranded == \A m \in Messages : Stranded(m) ~> ~Stranded(m)

\* A message that came while no waiter looked, or between its sweep and its
\* baseline, gets its receipt all the same, at the latest from the next waiter.
ReceiptInTheEnd == \A m \in Messages : m \in sent ~> m \in received
=============================================================================
