-------------------------- MODULE EnrichmentGroups --------------------------
(***************************************************************************)
(* The durable state of observation extraction: the enrichment_groups      *)
(* table (bin/enrichment_state.py) and the runs of bin/m3_enrich.py that   *)
(* work through it.  A group is a conversation; its row says whether the   *)
(* conversation was put to the model, and of which content.  A run is an   *)
(* operating system process: the cognitive loop's pass, or the command     *)
(* line; nothing keeps two of them apart but the rows.                     *)
(*                                                                         *)
(* Time is two flags of a row: its claim is older than CLAIM_TIMEOUT_SEC,  *)
(* its next_eligible_at is still ahead.  The content of a conversation is  *)
(* a version number, and its hash is that number.                          *)
(***************************************************************************)
EXTENDS Integers, FiniteSets

CONSTANTS
    Groups,           \* conversations
    Runs,             \* processes that may run m3_enrich
    MaxAttempts,      \* --max-attempts
    Modes,            \* how runs are started: "all", "resume", "dead"
    MaxVersion,       \* bound: contents a conversation goes through
    MaxClaims,        \* bound: claims of one content of a group
    MaxCrashes,       \* bound: processes that die
    RateLimits        \* the provider may answer 429

ASSUME NumbersAssumption ==
    /\ MaxAttempts \in Nat \ {0} /\ MaxVersion \in Nat \ {0}
    /\ MaxClaims \in Nat /\ MaxCrashes \in Nat

ASSUME SwitchesAssumption ==
    /\ RateLimits \in BOOLEAN
    /\ Modes \subseteq {"all", "resume", "dead"}
    /\ "nobody" \notin Runs

VARIABLES
    row,     \* enrichment_groups
    source,  \* the present content of each conversation
    made,    \* contents of each conversation the model has been through
    run,     \* the runs: phase, mode, the contents read, the groups to do
    job,     \* what each run is doing for each group
    crashes,
    backfilled,  \* history: groups whose row an earlier backfill has made
    calm,        \* history: no live worker was late, no conversation drifted in a run
    forced       \* history: a run was started without --resume

history == <<crashes, backfilled, calm, forced>>
vars == <<row, source, made, run, job, history>>

Versions == 1 .. MaxVersion
Placeholder == 0            \* "backfill::...", a hash of no content
NoRun == "nobody"
NoJob == "no job"

Terminal == {"success", "empty", "dead_letter"}
Claimable == {"pending", "failed"}

NewRow(v) == [status |-> "pending", attempts |-> 0, token |-> NoRun,
              hash |-> v, aged |-> FALSE, backoff |-> FALSE]
NoRow == [NewRow(Placeholder) EXCEPT !.status = "absent"]

On(w) == run[w].phase # "off"
Owned(g) == \E w \in Runs : row[g].token = w /\ job[w][g] # NoJob

Init ==
    /\ backfilled \in SUBSET Groups
    /\ \E s \in [backfilled -> Terminal] :
          row = [g \in Groups |-> IF g \in backfilled
                                  THEN [NewRow(Placeholder) EXCEPT !.status = s[g]]
                                  ELSE NoRow]
    /\ source = [g \in Groups |-> 1]
    /\ made = [g \in Groups |-> {}]
    /\ run = [w \in Runs |-> [phase |-> "off", mode |-> "resume",
                              turns |-> source, todo |-> {}]]
    /\ job = [w \in Runs |-> [g \in Groups |-> NoJob]]
    /\ crashes = 0 /\ calm = TRUE /\ forced = FALSE

-----------------------------------------------------------------------------
(* The world around the table. *)

\* A turn is added to the conversation, or one is edited or deleted.
Drift(g) ==
    /\ source[g] < MaxVersion
    /\ source' = [source EXCEPT ![g] = @ + 1]
    /\ calm' = (calm /\ \A w \in Runs : ~On(w))
    /\ UNCHANGED <<row, made, run, job, crashes, backfilled, forced>>

\* CLAIM_TIMEOUT_SEC passes over a claim.
ClaimAges(g) ==
    /\ row[g].status = "in_progress" /\ ~row[g].aged
    /\ row' = [row EXCEPT ![g].aged = TRUE]
    /\ calm' = (calm /\ ~Owned(g))
    /\ UNCHANGED <<source, made, run, job, crashes, backfilled, forced>>

\* next_eligible_at is reached.
BackoffEnds(g) ==
    /\ row[g].backoff
    /\ row' = [row EXCEPT ![g].backoff = FALSE]
    /\ UNCHANGED <<source, made, run, job, history>>

\* The process of a run dies; what it wrote stays.
Crash(w) ==
    /\ On(w) /\ crashes < MaxCrashes
    /\ crashes' = crashes + 1
    /\ run' = [run EXCEPT ![w].phase = "off", ![w].todo = {}]
    /\ job' = [job EXCEPT ![w] = [g \in Groups |-> NoJob]]
    /\ UNCHANGED <<row, source, made, backfilled, calm, forced>>

-----------------------------------------------------------------------------
(* A run prepares: _run_db up to the client. *)

\* _query_eligible_groups: the turns every later step of the run works on.
ReadTurns(w) ==
    /\ ~On(w)
    /\ \E m \in Modes :
          /\ run' = [run EXCEPT ![w] = [phase |-> "read", mode |-> m,
                                        turns |-> source, todo |-> {}]]
          /\ forced' = (forced \/ m = "all")
    /\ UNCHANGED <<row, source, made, job, crashes, backfilled, calm>>

\* Mutant of Recovered: claimed_at is not looked at.
RecoveredAtOnce(r) ==
    IF r.status = "in_progress"
    THEN [r EXCEPT !.status = "pending", !.token = NoRun, !.aged = FALSE] ELSE r

\* Mutant of Recovered: only claims without a claimed_at.
RecoveredIfUndated(r) == r

\* recover_stale_claims: attempts stays as it is.
Recovered(r) ==
    IF r.status = "in_progress" /\ r.aged
    THEN [r EXCEPT !.status = "pending", !.token = NoRun, !.aged = FALSE] ELSE r

RecoverStale(w) ==
    /\ run[w].phase = "read"
    /\ row' = [g \in Groups |-> Recovered(row[g])]
    /\ run' = [run EXCEPT ![w].phase = "recovered"]
    /\ UNCHANGED <<source, made, job, history>>

\* Mutant of Enrolled: a new hash never resets the row.
EnrolledKeeping(r, v) == IF r.status = "absent" THEN NewRow(v) ELSE [r EXCEPT !.hash = v]

\* Mutant of Enrolled: content that was enrolled before is not recognised.
EnrolledAnew(r, v) == NewRow(v)

\* enroll_group, for one group whose turns hash to v: unchanged content stays,
\* the placeholder of a backfill is replaced, anything else starts anew.
Enrolled(r, v) ==
    IF r.status = "absent" \/ r.hash \notin {v, Placeholder}
    THEN NewRow(v) ELSE [r EXCEPT !.hash = v]

\* enroll_groups_bulk, one transaction.
Enroll(w) ==
    /\ run[w].phase = "recovered"
    /\ row' = [g \in Groups |-> Enrolled(row[g], run[w].turns[g])]
    /\ run' = [run EXCEPT ![w].phase = "enrolled"]
    /\ UNCHANGED <<source, made, job, history>>

\* eligible_for_resume, the statuses of the mode.
Listed(m) == IF m = "dead" THEN Claimable \cup {"dead_letter"} ELSE Claimable

\* Mutant of Eligible: no cap on attempts.
EligibleAnyway(g, m) == row[g].status \in Listed(m) /\ ~row[g].backoff

Eligible(g, m) ==
    /\ row[g].status \in Listed(m)
    /\ row[g].attempts < MaxAttempts
    /\ ~row[g].backoff

\* Without --resume every group is tried.
ListGroups(w) ==
    /\ run[w].phase = "enrolled"
    /\ run' = [run EXCEPT ![w].phase = "working",
                          ![w].todo = {g \in Groups : run[w].mode = "all" \/ Eligible(g, run[w].mode)}]
    /\ UNCHANGED <<row, source, made, job, history>>

-----------------------------------------------------------------------------
(* gated: one coroutine per group. *)

\* Mutant of CanClaim: only terminal rows are refused.
CanClaimUnlessDone(g) == row[g].status \notin Terminal

CanClaim(g) == row[g].status \in Claimable

\* claim_group, one UPDATE.  Backoff and attempts were looked at by the list only.
Claim(w, g) ==
    /\ g \in run[w].todo /\ CanClaim(g)
    /\ row[g].attempts < MaxClaims
    /\ row' = [row EXCEPT ![g].status = "in_progress", ![g].token = w,
                          ![g].attempts = @ + 1, ![g].aged = FALSE]
    /\ job' = [job EXCEPT ![w][g] = "asked"]
    /\ run' = [run EXCEPT ![w].todo = @ \ {g}]
    /\ UNCHANGED <<source, made, history>>

\* The claim finds no row to update: the coroutine returns.
SkipGroup(w, g) ==
    /\ g \in run[w].todo /\ ~CanClaim(g)
    /\ run' = [run EXCEPT ![w].todo = @ \ {g}]
    /\ UNCHANGED <<row, source, made, job, history>>

\* abort_reason: the budget is spent, or 429 answers came in a row.
MayStop(w) == run' \in {run, [run EXCEPT ![w].todo = {}]}

Marked(r, status) == [r EXCEPT !.status = status, !.token = NoRun, !.aged = FALSE]

\* mark_success or mark_empty after process_conversation: WHERE id = the group.
MarkDone(w, g) ==
    /\ job[w][g] = "asked"
    /\ \E status \in {"success", "empty"} : row' = [row EXCEPT ![g] = Marked(@, status)]
    /\ made' = [made EXCEPT ![g] = @ \cup {run[w].turns[g]}]
    /\ job' = [job EXCEPT ![w][g] = NoJob]
    /\ MayStop(w)
    /\ UNCHANGED <<source, history>>

\* mark_failed, its decision.
Verdict(r, kind) ==
    IF kind = "deterministic" \/ (kind # "rate_limit" /\ r.attempts >= MaxAttempts)
    THEN "dead_letter" ELSE "failed"

\* mark_failed reads attempts and decides ...
JudgeFailure(w, g) ==
    /\ job[w][g] = "asked"
    /\ \E kind \in {"transient", "deterministic"} \cup (IF RateLimits THEN {"rate_limit"} ELSE {}) :
          job' = [job EXCEPT ![w][g] = Verdict(row[g], kind)]
    /\ MayStop(w)
    /\ UNCHANGED <<row, source, made, history>>

\* ... and writes the verdict.
MarkFailed(w, g) ==
    /\ job[w][g] \in {"failed", "dead_letter"}
    /\ row' = [row EXCEPT ![g] = [Marked(@, job[w][g]) EXCEPT !.backoff = (job[w][g] = "failed")]]
    /\ job' = [job EXCEPT ![w][g] = NoJob]
    /\ UNCHANGED <<source, made, run, history>>

EndRun(w) ==
    /\ run[w].phase = "working" /\ run[w].todo = {}
    /\ \A g \in Groups : job[w][g] = NoJob
    /\ run' = [run EXCEPT ![w].phase = "off"]
    /\ UNCHANGED <<row, source, made, job, history>>

-----------------------------------------------------------------------------
Prepare(w) == ReadTurns(w) \/ RecoverStale(w) \/ Enroll(w) \/ ListGroups(w) \/ EndRun(w)

Work(w, g) == Claim(w, g) \/ SkipGroup(w, g) \/ MarkDone(w, g) \/ JudgeFailure(w, g) \/ MarkFailed(w, g)

Next ==
    \/ \E g \in Groups : Drift(g) \/ ClaimAges(g) \/ BackoffEnds(g)
    \/ \E w \in Runs : Crash(w) \/ Prepare(w)
    \/ \E w \in Runs, g \in Groups : Work(w, g)

Spec == Init /\ [][Next]_vars

(* The cognitive loop starts a pass again and again, the event loop runs   *)
(* every coroutine, a request to the model ends by an answer or by the     *)
(* client's timeout, and the clock passes every point in time.             *)
Fairness ==
    /\ \A w \in Runs : WF_vars(Prepare(w))
    /\ \A w \in Runs, g \in Groups : WF_vars(Work(w, g))
    /\ \A g \in Groups : WF_vars(ClaimAges(g)) /\ WF_vars(BackoffEnds(g))

FairSpec == Spec /\ Fairness

-----------------------------------------------------------------------------
(* Type correctness. *)
Statuses == Terminal \cup Claimable \cup {"in_progress"}

Row == [status : Statuses \cup {"absent"}, attempts : 0 .. MaxClaims, token : Runs \cup {NoRun},
        hash : Versions \cup {Placeholder}, aged : BOOLEAN, backoff : BOOLEAN]

RunState == [phase : {"off", "read", "recovered", "enrolled", "working"},
             mode : {"all", "resume", "dead"},
             turns : [Groups -> Versions], todo : SUBSET Groups]

JobState == {NoJob, "asked", "failed", "dead_letter"}

\* The type of enrichment_groups and of the state of the runs.  A row has a
\* token exactly while it is in progress, and its claim can be old only then.
TypeOK ==
    /\ row \in [Groups -> Row]
    /\ source \in [Groups -> Versions]
    /\ made \in [Groups -> SUBSET Versions]
    /\ run \in [Runs -> RunState]
    /\ job \in [Runs -> [Groups -> JobState]]
    /\ crashes \in 0 .. MaxCrashes
    /\ backfilled \subseteq Groups /\ calm \in BOOLEAN /\ forced \in BOOLEAN
    /\ \A g \in Groups : /\ row[g].status = "in_progress" <=> row[g].token # NoRun
                         /\ row[g].aged => row[g].status = "in_progress"

(* Safety. *)

\* A run that works on a group holds its row: the row is in progress under the
\* claim of this run, so no second run puts the same conversation to the model.
\* claim_group sees to that as long as workers finish within the timeout and
\* conversations stand still while they are worked on.
ClaimHeld ==
    calm => \A w \in Runs, g \in Groups :
                job[w][g] # NoJob => row[g].status = "in_progress" /\ row[g].token = w

\* A group that is done was put to the model with the very content its row
\* names; else that content is never looked at, because enroll_group finds the
\* hash unchanged and the list finds the row terminal.
DoneIsCurrent ==
    calm => \A g \in Groups \ backfilled :
                row[g].status \in {"success", "empty"} => row[g].hash \in made[g]

\* A conversation the model has been through is not put to it again before its
\* content changes, without --resume either: the run then tries every group, but
\* enroll_group leaves an unchanged row done, and claim_group passes done rows by.
AskedOnce ==
    calm => \A w \in Runs, g \in Groups :
                job[w][g] # NoJob => run[w].turns[g] \notin made[g]

\* The cap on attempts is looked at when a run lists its groups, not when it
\* claims one, so --resume runs that overlap may pass it: by one claim each at most.
AttemptsBounded ==
    ~forced => \A g \in Groups : row[g].attempts <= MaxAttempts + Cardinality(Runs) - 1

\* "pending" and "failed" mean that a later --resume picks the group up (once
\* the backoff is over).
NeverStranded ==
    \A g \in Groups : row[g].status \in Claimable => row[g].attempts < MaxAttempts

(* Action property. *)

\* Terminal states are terminal: only new content takes a group out of one.
TerminalStays ==
    [][calm' => \A g \in Groups :
                    row[g].status \in Terminal /\ row'[g].hash = row[g].hash
                       => row'[g].status = row[g].status]_vars

(* Liveness. *)

\* Whatever crashes, comes late, changes or is refused by the provider, work on
\* a group ends: it gets done, given up, or it has used up its attempts.
Settles ==
    \A g \in Groups :
        <>[](row[g].status \in Terminal \/ (row[g].status \in Claimable /\ row[g].attempts >= MaxAttempts))
=============================================================================
