---------------------------- MODULE Notifications ----------------------------
(***************************************************************************)
(* The notifications of one inbox and the leases on them                    *)
(* (bin/memory/orchestration.py, bin/memory/backends/dialect.py).  Agents   *)
(* claim a notification, work on it, and complete or fail it under the      *)
(* fence of their attempt; every poll sweeps leases that lapsed; others     *)
(* read without a claim and ack.  Rows live in two stores, each swept and   *)
(* acked in a transaction of its own.  Lease time is the database's.        *)
(*                                                                         *)
(* The state of a row is derived from its columns, which are the variables. *)
(* An attempt's token is its number.  Which of the unclaimed rows a claim   *)
(* finds first is left out.                                                *)
(***************************************************************************)
EXTENDS Naturals, FiniteSets

CONSTANTS
    Messages,
    Agents,
    Work,        \* the messages agents claim; others are only read
    Stores,      \* the main store and the dispatch store
    StoreOf,     \* StoreOf[m]: the store the row of m is in
    MaxAttempts  \* max_attempts

ASSUME NotificationsAssumption ==
    /\ MaxAttempts \in Nat \ {0} /\ StoreOf \in [Messages -> Stores] /\ Work \subseteq Messages

VARIABLES
    sent,       \* the rows there are
    claimedBy,  \* claimed_by of each row
    token,      \* lease_token; 0 is NULL
    deadline,   \* claim_expires_at: NULL, ahead, or past
    attempts,   \* attempt_count
    read,       \* rows with read_at
    failed,     \* rows with failed_at
    received,   \* rows with received_at
    held,       \* what each agent works on: a message and its token, or nothing
    lapsed,     \* history: the attempts on each message whose lease lapsed
    closedBy    \* history: the attempts on each message told they closed it

lease == <<claimedBy, token, deadline>>
rowVars == <<sent, lease, attempts, read, failed, received>>
queueVars == <<rowVars, held, lapsed, closedBy>>

Nobody == "nobody"
Nothing == <<>>

ASSUME NobodyAssumption == Nobody \notin Agents

QueueInit ==
    /\ sent = {} /\ read = {} /\ failed = {} /\ received = {}
    /\ claimedBy = [m \in Messages |-> Nobody]
    /\ token = [m \in Messages |-> 0] /\ attempts = [m \in Messages |-> 0]
    /\ deadline = [m \in Messages |-> "none"]
    /\ held = [a \in Agents |-> Nothing]
    /\ lapsed = [m \in Messages |-> {}] /\ closedBy = [m \in Messages |-> {}]

Set(f, x, v) == f' = [f EXCEPT ![x] = v]
Cleared(f, rows, v) == f' = [m \in Messages |-> IF m \in rows THEN v ELSE f[m]]

\* inbox_membership_sql and message_state_sql.
InInbox(m) == m \in sent /\ m \notin read
Unclaimed(m) == InInbox(m) /\ claimedBy[m] = Nobody

\* Mutant of TypeOK: dead letters are handed out too.
AnyUnclaimed(m) == Unclaimed(m)

Pending(m) == Unclaimed(m) /\ m \notin failed

\* notify_impl.
Notify(m) ==
    /\ m \notin sent /\ sent' = sent \cup {m}
    /\ UNCHANGED <<lease, attempts, read, failed, received, held, lapsed, closedBy>>

\* claim_message, for a caller that asks for pending rows.
Claim(a, m) ==
    /\ m \in Work /\ held[a] = Nothing /\ Pending(m)
    /\ Set(claimedBy, m, a) /\ Set(deadline, m, "ahead")
    /\ Set(attempts, m, attempts[m] + 1) /\ Set(token, m, attempts[m] + 1)
    /\ Set(held, a, <<m, attempts[m] + 1>>)
    /\ UNCHANGED <<sent, read, failed, received, lapsed, closedBy>>

Works(a, m, k) == held[a] # Nothing /\ held[a] = <<m, k>>

\* Mutant of ImplementsMessageQueue: a fence that does not name the attempt.
FencedByRow(m, k) == token[m] # 0 /\ m \notin read \cup failed

\* lease_fence_predicate.
Fenced(m, k) == token[m] = k /\ m \notin read \cup failed

\* complete_message and fail_message return True.
Complete(a, m, k) ==
    /\ Works(a, m, k) /\ Fenced(m, k)
    /\ read' = read \cup {m} /\ Set(closedBy, m, closedBy[m] \cup {k}) /\ Set(held, a, Nothing)
    /\ UNCHANGED <<sent, lease, attempts, failed, received, lapsed>>

Fail(a, m, k) ==
    /\ Works(a, m, k) /\ Fenced(m, k)
    /\ failed' = failed \cup {m} /\ Set(closedBy, m, closedBy[m] \cup {k}) /\ Set(held, a, Nothing)
    /\ UNCHANGED <<sent, lease, attempts, read, received, lapsed>>

\* complete_message, fail_message or renew_lease return False: the agent stops.
\* A renewal that succeeds leaves the deadline ahead.
LeaseLost(a, m, k) ==
    /\ Works(a, m, k) /\ (~Fenced(m, k) \/ deadline[m] = "past")
    /\ Set(held, a, Nothing) /\ UNCHANGED <<rowVars, lapsed, closedBy>>

\* The agent dies, or forgets what it was doing.
Dies(a) == held[a] # Nothing /\ Set(held, a, Nothing) /\ UNCHANGED <<rowVars, lapsed, closedBy>>

\* Time passes, and a lease was not renewed.
Lapse(m) ==
    /\ deadline[m] = "ahead" /\ m \notin read \cup failed
    /\ Set(deadline, m, "past") /\ Set(lapsed, m, lapsed[m] \cup {token[m]})
    /\ UNCHANGED <<sent, claimedBy, token, attempts, read, failed, received, held, closedBy>>

\* Mutant of OneWorkerUnlessLate: every lease is swept.
AnyLease(s) == {m \in sent \ (read \cup failed) : StoreOf[m] = s /\ deadline[m] # "none"}

\* Mutant of NotStranded: a row that was tried too often is passed over.
NotTooOften(s) == {m \in sent \ (read \cup failed) :
    StoreOf[m] = s /\ deadline[m] = "past" /\ attempts[m] < MaxAttempts}

\* lease_expired_predicate.
Expired(s) == {m \in sent \ (read \cup failed) : StoreOf[m] = s /\ deadline[m] = "past"}

\* Rows that were reclaimed too often.
DeadLetters(s) == {m \in Expired(s) : attempts[m] >= MaxAttempts}

\* sweep_expired_leases, at the start of every poll.
Sweep(s) ==
    /\ Expired(s) # {}
    /\ failed' = failed \cup DeadLetters(s)
    /\ Cleared(claimedBy, Expired(s), Nobody) /\ Cleared(token, Expired(s), 0)
    /\ Cleared(deadline, Expired(s), "none")
    /\ UNCHANGED <<sent, attempts, read, received, held, lapsed, closedBy>>

\* notifications_ack_impl.
Ack(m) ==
    /\ Unclaimed(m) /\ read' = read \cup {m}
    /\ UNCHANGED <<sent, lease, attempts, failed, received, held, lapsed, closedBy>>

\* notifications_ack_all_impl.
AckAll(s) ==
    LET rows == {m \in Messages : Unclaimed(m) /\ StoreOf[m] = s}
    IN /\ rows # {} /\ read' = read \cup rows
       /\ UNCHANGED <<sent, lease, attempts, failed, received, held, lapsed, closedBy>>
=============================================================================
