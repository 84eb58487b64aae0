----------------------- MODULE EnrichmentGroupsProofs -----------------------
(* What holds of EnrichmentGroups for any groups, runs and bounds: its       *)
(* types; when workers finish in time and conversations stand still during   *)
(* runs, that claims exclude, done groups are done with their content and no *)
(* content is asked about again; without these assumptions, how far the cap  *)
(* on attempts can be passed; and what may leave a group stranded.           *)
EXTENDS EnrichmentGroups, FiniteSetTheorems, TLAPS

\* A row that is sound by itself: a token while it is in progress, an old
\* claim only then.
SoundRow(r) ==
    /\ r \in Row
    /\ r.status = "in_progress" <=> r.token # NoRun
    /\ r.aged => r.status = "in_progress"

LEMMA RestatedIsSound ==
  ASSUME NEW r \in Row, r.token = NoRun, ~r.aged,
         NEW s \in (Statuses \cup {"absent"}) \ {"in_progress"}
  PROVE  SoundRow([r EXCEPT !.status = s])
BY DEF SoundRow, Row

LEMMA NewRowIsSound ==
  ASSUME NEW v \in Versions \cup {Placeholder}
  PROVE  /\ SoundRow(NewRow(v)) /\ SoundRow(NoRow)
         /\ \A s \in Terminal : SoundRow([NewRow(v) EXCEPT !.status = s])
<1>1. ASSUME NEW x \in Versions \cup {Placeholder}
      PROVE  /\ NewRow(x) \in Row /\ SoundRow(NewRow(x))
             /\ NewRow(x).token = NoRun /\ ~NewRow(x).aged
  BY NumbersAssumption DEF NewRow, SoundRow, Row, Statuses, Terminal, Claimable
<1>2. SoundRow(NoRow)
  BY <1>1, RestatedIsSound DEF NoRow
<1>3. \A s \in Terminal : SoundRow([NewRow(v) EXCEPT !.status = s])
  BY <1>1, RestatedIsSound DEF Statuses, Terminal
<1>4. QED
  BY <1>1, <1>2, <1>3

LEMMA RecoveredIsSound ==
  ASSUME NEW r, SoundRow(r)
  PROVE  SoundRow(Recovered(r))
BY DEF SoundRow, Recovered, Row, Statuses, Terminal, Claimable, NoRun

LEMMA EnrolledIsSound ==
  ASSUME NEW r, SoundRow(r), NEW v \in Versions
  PROVE  SoundRow(Enrolled(r, v))
<1>1. SoundRow([r EXCEPT !.hash = v])
  BY DEF SoundRow, Row
<1>2. QED
  BY <1>1, NewRowIsSound DEF Enrolled

LEMMA MarkedIsSound ==
  ASSUME NEW r, SoundRow(r), NEW s \in Statuses \ {"in_progress"}, NEW b \in BOOLEAN
  PROVE  SoundRow(Marked(r, s)) /\ SoundRow([Marked(r, s) EXCEPT !.backoff = b])
BY DEF SoundRow, Marked, Row, Statuses, Terminal, Claimable, NoRun

LEMMA ClaimedIsSound ==
  ASSUME NEW r, SoundRow(r), r.attempts < MaxClaims, NEW w \in Runs
  PROVE  SoundRow([r EXCEPT !.status = "in_progress", !.token = w,
                            !.attempts = @ + 1, !.aged = FALSE])
<1>1. r.attempts + 1 \in 0 .. MaxClaims
  BY NumbersAssumption DEF SoundRow, Row
<1>2. w # NoRun
  BY SwitchesAssumption DEF NoRun
<1>3. QED
  BY <1>1, <1>2 DEF SoundRow, Row, Statuses

\* The type, with the rows one by one.
SoundRows == row = [g \in Groups |-> row[g]] /\ \A g \in Groups : SoundRow(row[g])

RestOK ==
    /\ source \in [Groups -> Versions]
    /\ made \in [Groups -> SUBSET Versions]
    /\ run \in [Runs -> RunState]
    /\ job \in [Runs -> [Groups -> JobState]]
    /\ crashes \in 0 .. MaxCrashes
    /\ backfilled \subseteq Groups /\ calm \in BOOLEAN /\ forced \in BOOLEAN

LEMMA TypeSplits == TypeOK <=> SoundRows /\ RestOK
<1>1. ASSUME SoundRows PROVE row \in [Groups -> Row]
  <2>1. \A g \in Groups : row[g] \in Row
    BY <1>1 DEF SoundRows, SoundRow
  <2>2. QED
    BY <2>1, <1>1 DEF SoundRows
<1>2. QED
  BY <1>1 DEF TypeOK, SoundRow, SoundRows, RestOK

LEMMA RunUpdates ==
  ASSUME RestOK, NEW w \in Runs, NEW t \in SUBSET Groups,
         NEW p \in {"off", "read", "recovered", "enrolled", "working"}
  PROVE  /\ [run EXCEPT ![w].phase = p] \in [Runs -> RunState]
         /\ [run EXCEPT ![w].todo = t] \in [Runs -> RunState]
         /\ [run EXCEPT ![w].phase = p, ![w].todo = t] \in [Runs -> RunState]
<1>1. /\ [run[w] EXCEPT !.phase = p] \in RunState
      /\ [run[w] EXCEPT !.todo = t] \in RunState
      /\ [[run[w] EXCEPT !.phase = p] EXCEPT !.todo = t] \in RunState
  BY DEF RestOK, RunState
<1>2. QED
  BY <1>1 DEF RestOK

\* Whatever is claimed, marked, recovered or enrolled, the rows and the runs
\* stay within their types, and a row has a token exactly while in progress.
THEOREM TypeCorrect == Spec => []TypeOK
<1>1. Init => TypeOK
  <2> SUFFICES ASSUME Init PROVE TypeOK
    OBVIOUS
  <2>1. source \in [Groups -> Versions] /\ Placeholder \in Versions \cup {Placeholder}
    BY NumbersAssumption DEF Init, Versions
  <2>2. SoundRows
    BY NewRowIsSound, <2>1 DEF Init, SoundRows
  <2>3. crashes \in 0 .. MaxCrashes
    BY NumbersAssumption DEF Init
  <2>4. QED
    BY <2>1, <2>2, <2>3, TypeSplits DEF Init, RestOK, RunState, JobState
<1>2. TypeOK /\ [Next]_vars => TypeOK'
  <2> SUFFICES ASSUME TypeOK, [Next]_vars PROVE TypeOK'
    OBVIOUS
  <2> USE DEF history
  <2>0. SoundRows /\ RestOK /\ \A g \in Groups : SoundRow(row[g])
    BY TypeSplits DEF SoundRows
  <2>a. SoundRows' /\ RestOK' => TypeOK'
    BY TypeSplits, PTL
  <2>b. row' = row => SoundRows'
    BY <2>0 DEF SoundRows
  <2>c. ASSUME NEW g \in Groups, NEW r, SoundRow(r), row' = [row EXCEPT ![g] = r]
        PROVE  SoundRows'
    BY <2>0, <2>c DEF SoundRows
  <2>1. ASSUME NEW g \in Groups, Drift(g) PROVE TypeOK'
    <3>1. source' \in [Groups -> Versions]
      BY <2>1, <2>0, NumbersAssumption DEF Drift, RestOK, Versions
    <3>2. QED
      BY <2>1, <3>1, <2>0, <2>a, <2>b DEF Drift, RestOK
  <2>2. ASSUME NEW g \in Groups, ClaimAges(g) PROVE TypeOK'
    <3>1. SoundRow([row[g] EXCEPT !.aged = TRUE])
      BY <2>2, <2>0 DEF ClaimAges, SoundRow, Row
    <3>2. SoundRows'
      BY <2>2, <3>1, <2>c DEF ClaimAges
    <3>3. QED
      BY <2>2, <3>2, <2>0, <2>a DEF ClaimAges, RestOK
  <2>3. ASSUME NEW g \in Groups, BackoffEnds(g) PROVE TypeOK'
    <3>1. SoundRow([row[g] EXCEPT !.backoff = FALSE])
      BY <2>0 DEF SoundRow, Row
    <3>2. SoundRows'
      BY <2>3, <3>1, <2>c DEF BackoffEnds
    <3>3. QED
      BY <2>3, <3>2, <2>0, <2>a DEF BackoffEnds, RestOK
  <2>4. ASSUME NEW w \in Runs, Crash(w) PROVE TypeOK'
    <3>1. crashes' \in 0 .. MaxCrashes
      BY <2>4, <2>0, NumbersAssumption DEF Crash, RestOK
    <3>2. run' \in [Runs -> RunState]
      BY <2>4, <2>0, RunUpdates DEF Crash
    <3>3. job' \in [Runs -> [Groups -> JobState]]
      BY <2>4, <2>0 DEF Crash, RestOK, JobState
    <3>4. QED
      BY <2>4, <3>1, <3>2, <3>3, <2>0, <2>a, <2>b DEF Crash, RestOK
  <2>5. ASSUME NEW w \in Runs, ReadTurns(w) PROVE TypeOK'
    <3>1. PICK m \in Modes : run' = [run EXCEPT ![w] = [phase |-> "read", mode |-> m,
                                                        turns |-> source, todo |-> {}]]
      BY <2>5 DEF ReadTurns
    <3>2. [phase |-> "read", mode |-> m, turns |-> source, todo |-> {}] \in RunState
      BY <2>0, SwitchesAssumption DEF RunState, RestOK
    <3>3. QED
      BY <2>5, <3>1, <3>2, <2>0, <2>a, <2>b DEF ReadTurns, RestOK
  <2>6. ASSUME NEW w \in Runs, RecoverStale(w) PROVE TypeOK'
    <3>1. SoundRows'
      BY <2>6, <2>0, RecoveredIsSound DEF RecoverStale, SoundRows
    <3>2. run' \in [Runs -> RunState]
      BY <2>6, <2>0, RunUpdates DEF RecoverStale
    <3>3. QED
      BY <2>6, <3>1, <3>2, <2>0, <2>a DEF RecoverStale, RestOK
  <2>7. ASSUME NEW w \in Runs, Enroll(w) PROVE TypeOK'
    <3>1. \A x \in Groups : run[w].turns[x] \in Versions
      BY <2>0 DEF RestOK, RunState
    <3>2. SoundRows'
      BY <2>7, <2>0, <3>1, EnrolledIsSound DEF Enroll, SoundRows
    <3>3. run' \in [Runs -> RunState]
      BY <2>7, <2>0, RunUpdates DEF Enroll
    <3>4. QED
      BY <2>7, <3>2, <3>3, <2>0, <2>a DEF Enroll, RestOK
  <2>8. ASSUME NEW w \in Runs, ListGroups(w) PROVE TypeOK'
    <3>1. run' \in [Runs -> RunState]
      BY <2>8, <2>0, RunUpdates DEF ListGroups
    <3>2. QED
      BY <2>8, <3>1, <2>0, <2>a, <2>b DEF ListGroups, RestOK
  <2>9. ASSUME NEW w \in Runs, EndRun(w) PROVE TypeOK'
    <3>1. run' \in [Runs -> RunState]
      BY <2>9, <2>0, RunUpdates DEF EndRun
    <3>2. QED
      BY <2>9, <3>1, <2>0, <2>a, <2>b DEF EndRun, RestOK
  <2>d. \A w \in Runs, g \in Groups : [run EXCEPT ![w].todo = @ \ {g}] \in [Runs -> RunState]
    <3> SUFFICES ASSUME NEW w \in Runs, NEW g \in Groups
                 PROVE  [run EXCEPT ![w].todo = @ \ {g}] \in [Runs -> RunState]
      OBVIOUS
    <3>1. run[w].todo \ {g} \in SUBSET Groups
      BY <2>0 DEF RestOK, RunState
    <3>2. [run EXCEPT ![w].todo = run[w].todo \ {g}] \in [Runs -> RunState]
      BY <2>0, <3>1, RunUpdates
    <3>3. QED
      BY <3>2, <2>0 DEF RestOK, RunState
  <2>e. \A w \in Runs, g \in Groups, x \in JobState : [job EXCEPT ![w][g] = x] \in [Runs -> [Groups -> JobState]]
    BY <2>0 DEF RestOK
  <2>f. \A w \in Runs : MayStop(w) => run' \in [Runs -> RunState]
    <3> SUFFICES ASSUME NEW w \in Runs, MayStop(w) PROVE run' \in [Runs -> RunState]
      OBVIOUS
    <3>1. [run EXCEPT ![w].todo = {}] \in [Runs -> RunState]
      BY <2>0, RunUpdates
    <3>2. QED
      BY <3>1, <2>0 DEF RestOK, MayStop
  <2>10. ASSUME NEW w \in Runs, NEW g \in Groups, Claim(w, g) PROVE TypeOK'
    <3>1. SoundRows'
      BY <2>10, <2>0, ClaimedIsSound DEF Claim, SoundRows
    <3>2. QED
      BY <2>10, <3>1, <2>0, <2>a, <2>d, <2>e DEF Claim, RestOK, JobState
  <2>11. ASSUME NEW w \in Runs, NEW g \in Groups, SkipGroup(w, g) PROVE TypeOK'
    BY <2>11, <2>0, <2>a, <2>b, <2>d DEF SkipGroup, RestOK
  <2>12. ASSUME NEW w \in Runs, NEW g \in Groups, MarkDone(w, g) PROVE TypeOK'
    <3>1. PICK s \in {"success", "empty"} : row' = [row EXCEPT ![g] = Marked(row[g], s)]
      BY <2>12, <2>0 DEF MarkDone, SoundRows
    <3>2. SoundRow(Marked(row[g], s))
      BY <2>0, MarkedIsSound DEF Statuses, Terminal
    <3>3. SoundRows'
      BY <3>1, <3>2, <2>c
    <3>4. made' \in [Groups -> SUBSET Versions]
      BY <2>12, <2>0 DEF MarkDone, RestOK, RunState
    <3>5. QED
      BY <2>12, <3>3, <3>4, <2>0, <2>a, <2>e, <2>f DEF MarkDone, RestOK, JobState
  <2>13. ASSUME NEW w \in Runs, NEW g \in Groups, JudgeFailure(w, g) PROVE TypeOK'
    <3>1. job' \in [Runs -> [Groups -> JobState]]
      BY <2>13, <2>e DEF JudgeFailure, Verdict, JobState
    <3>2. QED
      BY <2>13, <3>1, <2>0, <2>a, <2>b, <2>f DEF JudgeFailure, RestOK
  <2>14. ASSUME NEW w \in Runs, NEW g \in Groups, MarkFailed(w, g) PROVE TypeOK'
    <3>1. job[w][g] \in Statuses \ {"in_progress"}
      BY <2>14 DEF MarkFailed, Statuses, Terminal, Claimable
    <3>2. SoundRow([Marked(row[g], job[w][g]) EXCEPT !.backoff = (job[w][g] = "failed")])
      BY <3>1, <2>0, MarkedIsSound
    <3>3. SoundRows'
      BY <2>14, <3>2, <2>c, <2>0 DEF MarkFailed, SoundRows
    <3>4. QED
      BY <2>14, <3>3, <2>0, <2>a, <2>e DEF MarkFailed, RestOK, JobState
  <2>15. CASE UNCHANGED vars
    BY <2>15, <2>0, <2>a, <2>b DEF vars, RestOK
  <2>16. QED
    BY <2>1, <2>2, <2>3, <2>4, <2>5, <2>6, <2>7, <2>8, <2>9, <2>10, <2>11, <2>12,
       <2>13, <2>14, <2>15 DEF Next, Prepare, Work
<1>3. QED
  BY <1>1, <1>2, PTL DEF Spec

-----------------------------------------------------------------------------
(* Workers in time, conversations that stand still. *)

\* A run has groups to do, and works on them, only after it has listed them.
Idle ==
    \A w \in Runs : run[w].phase # "working" =>
        run[w].todo = {} /\ \A g \in Groups : job[w][g] = NoJob

\* What a run has read is what the conversations still contain.
TurnsPresent == \A w \in Runs : On(w) => run[w].turns = source

\* Once a run has enrolled, every row names the present content.
RowsPresent ==
    \A w \in Runs, g \in Groups :
        run[w].phase \in {"enrolled", "working"} =>
            row[g].status # "absent" /\ row[g].hash = source[g]

\* A group that is worked on is held under a claim that is not old.
HeldFresh ==
    \A w \in Runs, g \in Groups :
        job[w][g] # NoJob =>
            row[g].status = "in_progress" /\ row[g].token = w /\ ~row[g].aged

\* Only backfilled rows have a hash of no content.
RealHash ==
    \A g \in Groups \ backfilled : row[g].status # "absent" => row[g].hash # Placeholder

\* Done groups were put to the model with the content of their row.
DoneAsNamed ==
    \A g \in Groups \ backfilled :
        row[g].status \in {"success", "empty"} => row[g].hash \in made[g]

InTime == Idle /\ TurnsPresent /\ RowsPresent /\ HeldFresh /\ RealHash /\ DoneAsNamed

\* Recovery keeps the content of a row and the rows that are not old claims.
LEMMA RecoveredKeeps ==
  ASSUME NEW r, SoundRow(r)
  PROVE  /\ Recovered(r).hash = r.hash
         /\ Recovered(r).status = "absent" <=> r.status = "absent"
         /\ ~r.aged => Recovered(r) = r
         /\ Recovered(r).status \in Terminal <=> r.status \in Terminal
         /\ r.status \in Terminal => Recovered(r) = r
BY DEF Recovered, SoundRow, Row, Terminal

\* Enrollment leaves a row with the content it is given, and either leaves its
\* state or starts it anew.
LEMMA EnrolledKeeps ==
  ASSUME NEW r, SoundRow(r), NEW v \in Versions
  PROVE  /\ Enrolled(r, v).status # "absent" /\ Enrolled(r, v).hash = v
         /\ r.status # "absent" /\ r.hash = v => Enrolled(r, v) = r
         /\ r.status # "absent" /\ r.hash \notin {v, Placeholder} => Enrolled(r, v).status = "pending"
         /\ r.status = "absent" => Enrolled(r, v).status = "pending"
<1>1. CASE r.status = "absent" \/ r.hash \notin {v, Placeholder}
  <2>1. Enrolled(r, v) = NewRow(v)
    BY <1>1 DEF Enrolled
  <2>2. NewRow(v).status = "pending" /\ NewRow(v).hash = v
    BY DEF NewRow
  <2>3. QED
    BY <1>1, <2>1, <2>2
<1>2. CASE r.status # "absent" /\ r.hash \in {v, Placeholder}
  <2>1. Enrolled(r, v) = [r EXCEPT !.hash = v]
    BY <1>2 DEF Enrolled
  <2>2. Enrolled(r, v).hash = v /\ Enrolled(r, v).status = r.status
    BY <2>1 DEF SoundRow, Row
  <2>3. r.hash = v => Enrolled(r, v) = r
    BY <2>1 DEF SoundRow, Row
  <2>4. QED
    BY <1>2, <2>2, <2>3
<1>3. QED
  BY <1>1, <1>2

LEMMA InTimeAtFirst == Init => InTime
<1> SUFFICES ASSUME Init PROVE InTime
  OBVIOUS
<1>1. Idle /\ TurnsPresent /\ RowsPresent /\ HeldFresh
  BY DEF Init, Idle, TurnsPresent, On, RowsPresent, HeldFresh
<1>2. \A g \in Groups \ backfilled : row[g].status = "absent"
  BY DEF Init, NoRow, NewRow
<1>3. QED
  BY <1>1, <1>2 DEF InTime, RealHash, DoneAsNamed

\* Once disturbed, a behaviour is never calm again; --resume runs go likewise.
LEMMA HistoryGrows ==
  ASSUME TypeOK, [Next]_vars
  PROVE  (calm' => calm) /\ (forced => forced') /\ backfilled' = backfilled
<1>1. ASSUME NEW g \in Groups, Drift(g) \/ ClaimAges(g)
      PROVE  (calm' => calm) /\ UNCHANGED <<forced, backfilled>>
  BY <1>1 DEF Drift, ClaimAges
<1>2. ASSUME NEW w \in Runs, ReadTurns(w)
      PROVE  (forced => forced') /\ UNCHANGED <<calm, backfilled>>
  BY <1>2 DEF ReadTurns
<1>3. ASSUME \/ \E g \in Groups : BackoffEnds(g)
             \/ \E w \in Runs : Crash(w) \/ RecoverStale(w) \/ Enroll(w) \/ ListGroups(w) \/ EndRun(w)
             \/ \E w \in Runs, g \in Groups : Work(w, g)
             \/ UNCHANGED vars
      PROVE  UNCHANGED <<calm, forced, backfilled>>
  BY <1>3 DEF BackoffEnds, Crash, RecoverStale, Enroll, ListGroups, EndRun, Work, Claim,
              SkipGroup, MarkDone, JudgeFailure, MarkFailed, vars, history
<1>4. QED
  BY <1>1, <1>2, <1>3 DEF Next, Prepare

\* With workers in time and conversations that stand still, every step keeps
\* the six facts together: each needs some of the others.
LEMMA InTimeKept ==
  ASSUME calm', TypeOK, InTime, [Next]_vars
  PROVE  InTime'
<1> USE DEF InTime
<1>z. backfilled' = backfilled /\ calm
  BY HistoryGrows
<1>0. /\ \A g \in Groups : SoundRow(row[g]) /\ row \in [Groups -> Row]
      /\ run \in [Runs -> RunState] /\ \A w \in Runs : run[w] \in RunState
      /\ job \in [Runs -> [Groups -> JobState]] /\ \A w \in Runs : job[w] \in [Groups -> JobState]
      /\ source \in [Groups -> Versions] /\ made \in [Groups -> SUBSET Versions]
  BY TypeSplits DEF SoundRows, TypeOK
<1>1. ASSUME NEW g \in Groups, Drift(g) PROVE InTime'
  <2>1. \A w \in Runs : ~On(w) /\ run[w].phase = "off"
    BY <1>1 DEF Drift, On
  <2>2. Idle' /\ TurnsPresent' /\ RowsPresent' /\ HeldFresh' /\ RealHash' /\ DoneAsNamed'
    BY <1>z, <1>1, <2>1 DEF Drift, On, Idle, TurnsPresent, RowsPresent, HeldFresh, RealHash, DoneAsNamed
  <2>3. QED
    BY <2>2
<1>2. ASSUME NEW g \in Groups, ClaimAges(g) PROVE InTime'
  <2>1. \A w \in Runs : job[w][g] = NoJob
    BY <1>2 DEF ClaimAges, Owned, HeldFresh
  <2>2. \A x \in Groups : row'[x].status = row[x].status /\ row'[x].hash = row[x].hash
                          /\ row'[x].token = row[x].token /\ (x # g => row'[x] = row[x])
    BY <1>2, <1>0 DEF ClaimAges, Row
  <2>3. HeldFresh'
    BY <1>2, <2>1, <2>2 DEF ClaimAges, HeldFresh
  <2>4. QED
    BY <1>z, <1>2, <2>2, <2>3 DEF ClaimAges, On, Idle, TurnsPresent, RowsPresent, RealHash, DoneAsNamed
<1>3. ASSUME NEW g \in Groups, BackoffEnds(g) PROVE InTime'
  <2>1. \A x \in Groups : row'[x].status = row[x].status /\ row'[x].hash = row[x].hash
                          /\ row'[x].token = row[x].token /\ row'[x].aged = row[x].aged
    BY <1>3, <1>0 DEF BackoffEnds, Row
  <2>2. QED
    BY <1>z, <1>3, <2>1 DEF BackoffEnds, On, Idle, TurnsPresent, RowsPresent, HeldFresh, RealHash, DoneAsNamed
<1>4. ASSUME NEW w \in Runs, Crash(w) PROVE InTime'
  <2>1. /\ run'[w].phase = "off" /\ run'[w].todo = {} /\ \A g \in Groups : job'[w][g] = NoJob
        /\ \A v \in Runs \ {w} : run'[v] = run[v] /\ job'[v] = job[v]
    BY <1>4, <1>0 DEF Crash, RunState
  <2>2. Idle'
    BY <2>1 DEF Idle
  <2>3a. TurnsPresent'
    BY <1>4, <2>1 DEF Crash, On, TurnsPresent
  <2>3. RowsPresent'
    BY <1>4, <2>1 DEF Crash, RowsPresent
  <2>4. HeldFresh'
    BY <1>4, <2>1 DEF Crash, HeldFresh
  <2>5. RealHash' /\ DoneAsNamed'
    BY <1>z, <1>4 DEF Crash, RealHash, DoneAsNamed
  <2>6. QED
    BY <2>2, <2>3a, <2>3, <2>4, <2>5
<1>5. ASSUME NEW w \in Runs, ReadTurns(w) PROVE InTime'
  <2>1. /\ run'[w].phase = "read" /\ run'[w].todo = {} /\ run'[w].turns = source
        /\ \A v \in Runs \ {w} : run'[v] = run[v]
        /\ run[w].phase = "off"
    BY <1>5, <1>0 DEF ReadTurns, On
  <2>2. QED
    BY <1>z, <1>5, <2>1 DEF ReadTurns, On, Idle, TurnsPresent, RowsPresent, HeldFresh, RealHash, DoneAsNamed
<1>6. ASSUME NEW w \in Runs, RecoverStale(w) PROVE InTime'
  <2>1. /\ run[w].phase = "read" /\ run'[w].phase = "recovered"
        /\ run'[w].todo = run[w].todo /\ run'[w].turns = run[w].turns
        /\ \A v \in Runs \ {w} : run'[v] = run[v]
    BY <1>6, <1>0 DEF RecoverStale, RunState
  <2>2. \A g \in Groups : /\ row'[g].hash = row[g].hash
                          /\ row'[g].status = "absent" <=> row[g].status = "absent"
                          /\ ~row[g].aged => row'[g] = row[g]
                          /\ row'[g].status \in Terminal <=> row[g].status \in Terminal
                          /\ row[g].status \in Terminal => row'[g] = row[g]
    BY <1>6, <1>0, RecoveredKeeps DEF RecoverStale
  <2>3. Idle' /\ TurnsPresent' /\ HeldFresh'
    BY <1>6, <2>1, <2>2 DEF RecoverStale, On, Idle, TurnsPresent, HeldFresh
  <2>4. RowsPresent' /\ RealHash'
    BY <1>z, <1>6, <2>1, <2>2 DEF RecoverStale, RowsPresent, RealHash
  <2>5. DoneAsNamed'
    BY <1>z, <1>6, <2>2 DEF RecoverStale, DoneAsNamed, Terminal
  <2>6. QED
    BY <2>3, <2>4, <2>5
<1>7. ASSUME NEW w \in Runs, Enroll(w) PROVE InTime'
  <2>1. /\ run[w].phase = "recovered" /\ run'[w].phase = "enrolled"
        /\ run'[w].todo = run[w].todo /\ run'[w].turns = run[w].turns
        /\ \A v \in Runs \ {w} : run'[v] = run[v]
    BY <1>7, <1>0 DEF Enroll, RunState
  <2>2. run[w].turns = source
    BY <2>1 DEF TurnsPresent, On
  <2>3. \A g \in Groups :
           /\ row'[g].status # "absent" /\ row'[g].hash = source[g]
           /\ row[g].status # "absent" /\ row[g].hash = source[g] => row'[g] = row[g]
           /\ row[g].status # "absent" /\ row[g].hash \notin {source[g], Placeholder} => row'[g].status = "pending"
           /\ row[g].status = "absent" => row'[g].status = "pending"
    BY <1>7, <1>0, <2>2, EnrolledKeeps DEF Enroll
  <2>4. Idle' /\ TurnsPresent' /\ RowsPresent'
    BY <1>7, <2>1, <2>2, <2>3 DEF Enroll, On, Idle, TurnsPresent, RowsPresent
  <2>5. HeldFresh'
    <3> SUFFICES ASSUME NEW v \in Runs, NEW g \in Groups, job'[v][g] # NoJob
                 PROVE  row'[g] = row[g] /\ job[v][g] # NoJob
      BY DEF HeldFresh
    <3>1. run[v].phase = "working" /\ job[v][g] # NoJob
      BY <1>7 DEF Enroll, Idle
    <3>2. QED
      BY <3>1, <2>3 DEF RowsPresent
  <2>6. RealHash'
    BY <1>z, <2>3, <1>0 DEF RealHash, Versions, Placeholder
  <2>7. DoneAsNamed'
    BY <1>z, <1>7, <2>3 DEF Enroll, DoneAsNamed, RealHash
  <2>8. QED
    BY <2>4, <2>5, <2>6, <2>7
<1>8. ASSUME NEW w \in Runs, ListGroups(w) PROVE InTime'
  <2>1. /\ run[w].phase = "enrolled" /\ run'[w].phase = "working" /\ run'[w].turns = run[w].turns
        /\ \A v \in Runs \ {w} : run'[v] = run[v]
    BY <1>8, <1>0 DEF ListGroups, RunState
  <2>2. Idle' /\ TurnsPresent'
    BY <1>8, <2>1 DEF ListGroups, On, Idle, TurnsPresent
  <2>3. RowsPresent'
    BY <1>8, <2>1 DEF ListGroups, RowsPresent
  <2>4. HeldFresh' /\ RealHash' /\ DoneAsNamed'
    BY <1>z, <1>8 DEF ListGroups, HeldFresh, RealHash, DoneAsNamed
  <2>5. QED
    BY <2>2, <2>3, <2>4
<1>9. ASSUME NEW w \in Runs, EndRun(w) PROVE InTime'
  <2>1. /\ run'[w].phase = "off" /\ run'[w].todo = {} /\ \A g \in Groups : job[w][g] = NoJob
        /\ \A v \in Runs \ {w} : run'[v] = run[v]
    BY <1>9, <1>0 DEF EndRun, RunState
  <2>2. QED
    BY <1>z, <1>9, <2>1 DEF EndRun, On, Idle, TurnsPresent, RowsPresent, HeldFresh, RealHash, DoneAsNamed
<1>10. ASSUME NEW w \in Runs, NEW g \in Groups, Claim(w, g) PROVE InTime'
  <2>1. /\ run[w].phase = "working" /\ run'[w].phase = "working" /\ run'[w].turns = run[w].turns
        /\ \A v \in Runs \ {w} : run'[v] = run[v]
    BY <1>10, <1>0 DEF Claim, RunState, Idle
  <2>2. /\ \A v \in Runs : job[v][g] = NoJob
        /\ job'[w][g] = "asked"
        /\ \A v \in Runs, x \in Groups : v # w \/ x # g => job'[v][x] = job[v][x]
    BY <1>10, <1>0 DEF Claim, CanClaim, Claimable, HeldFresh
  <2>3. /\ row[g].status \in Claimable
        /\ row'[g].status = "in_progress" /\ row'[g].token = w /\ ~row'[g].aged
        /\ row'[g].hash = row[g].hash
        /\ \A x \in Groups \ {g} : row'[x] = row[x]
    BY <1>10, <1>0 DEF Claim, CanClaim, Row
  <2>4. Idle' /\ TurnsPresent'
    BY <1>10, <2>1, <2>2 DEF Claim, On, Idle, TurnsPresent
  <2>5. RowsPresent'
    BY <1>10, <2>1, <2>3 DEF Claim, RowsPresent
  <2>6. HeldFresh'
    BY <2>2, <2>3 DEF HeldFresh
  <2>7. RealHash' /\ DoneAsNamed'
    BY <1>z, <1>10, <2>3 DEF Claim, RealHash, DoneAsNamed, Claimable
  <2>8. QED
    BY <2>4, <2>5, <2>6, <2>7
<1>11. ASSUME NEW w \in Runs, NEW g \in Groups, SkipGroup(w, g) PROVE InTime'
  <2>1. /\ run[w].phase = "working" /\ run'[w].phase = "working" /\ run'[w].turns = run[w].turns
        /\ \A v \in Runs \ {w} : run'[v] = run[v]
    BY <1>11, <1>0 DEF SkipGroup, RunState, Idle
  <2>2. QED
    BY <1>z, <1>11, <2>1 DEF SkipGroup, On, Idle, TurnsPresent, RowsPresent, HeldFresh, RealHash, DoneAsNamed
<1>a. ASSUME NEW w \in Runs, NEW g \in Groups, job[w][g] # NoJob
      PROVE  /\ run[w].phase = "working" /\ run[w].turns = source /\ row[g].hash = source[g]
             /\ row[g].status = "in_progress" /\ row[g].token = w
             /\ \A v \in Runs \ {w} : job[v][g] = NoJob
  BY <1>a DEF Idle, TurnsPresent, On, RowsPresent, HeldFresh
<1>b. ASSUME NEW w \in Runs, run[w].phase = "working", MayStop(w)
      PROVE  /\ run'[w].phase = "working" /\ run'[w].turns = run[w].turns
             /\ \A v \in Runs \ {w} : run'[v] = run[v]
  BY <1>b, <1>0 DEF MayStop, RunState
<1>12. ASSUME NEW w \in Runs, NEW g \in Groups, MarkDone(w, g) PROVE InTime'
  <2>0. job[w][g] # NoJob /\ MayStop(w)
    BY <1>12 DEF MarkDone, NoJob
  <2>1. PICK s \in {"success", "empty"} : row' = [row EXCEPT ![g] = Marked(row[g], s)]
    BY <1>12, <1>0 DEF MarkDone
  <2>2. row'[g].status = s /\ row'[g].hash = source[g] /\ \A x \in Groups \ {g} : row'[x] = row[x]
    BY <2>0, <2>1, <1>0, <1>a DEF Marked, Row
  <2>3. /\ \A v \in Runs : job'[v][g] = NoJob
        /\ \A v \in Runs, x \in Groups : v # w \/ x # g => job'[v][x] = job[v][x]
    BY <1>12, <1>0, <1>a, <2>0 DEF MarkDone
  <2>4. source[g] \in made'[g] /\ \A x \in Groups : made[x] \subseteq made'[x]
    BY <1>12, <1>0, <1>a, <2>0 DEF MarkDone
  <2>5. Idle' /\ TurnsPresent'
    BY <1>12, <2>0, <2>3, <1>a, <1>b DEF MarkDone, On, Idle, TurnsPresent
  <2>6. RowsPresent'
    BY <1>12, <2>0, <2>2, <1>a, <1>b DEF MarkDone, RowsPresent
  <2>7. HeldFresh'
    BY <2>2, <2>3 DEF HeldFresh
  <2>8. RealHash'
    BY <1>z, <2>2, <1>0 DEF RealHash, Versions, Placeholder
  <2>9. DoneAsNamed'
    BY <1>z, <2>2, <2>4 DEF DoneAsNamed
  <2>10. QED
    BY <2>5, <2>6, <2>7, <2>8, <2>9
<1>13. ASSUME NEW w \in Runs, NEW g \in Groups, JudgeFailure(w, g) PROVE InTime'
  <2>0. job[w][g] # NoJob /\ MayStop(w)
    BY <1>13 DEF JudgeFailure, NoJob
  <2>1. \A v \in Runs, x \in Groups : job'[v][x] # NoJob => job[v][x] # NoJob
    BY <1>13, <2>0, <1>0 DEF JudgeFailure
  <2>2. Idle' /\ TurnsPresent'
    BY <1>13, <2>0, <2>1, <1>a, <1>b DEF JudgeFailure, On, Idle, TurnsPresent
  <2>3. RowsPresent' /\ HeldFresh' /\ RealHash' /\ DoneAsNamed'
    BY <1>z, <1>13, <2>0, <2>1, <1>a, <1>b DEF JudgeFailure, RowsPresent, HeldFresh, RealHash, DoneAsNamed
  <2>4. QED
    BY <2>2, <2>3
<1>14. ASSUME NEW w \in Runs, NEW g \in Groups, MarkFailed(w, g) PROVE InTime'
  <2>0. job[w][g] \in {"failed", "dead_letter"} /\ job[w][g] # NoJob
    BY <1>14 DEF MarkFailed, NoJob
  <2>1. /\ row'[g].status = job[w][g] /\ row'[g].hash = source[g]
        /\ \A x \in Groups \ {g} : row'[x] = row[x]
    BY <1>14, <2>0, <1>0, <1>a DEF MarkFailed, Marked, Row
  <2>2. /\ \A v \in Runs : job'[v][g] = NoJob
        /\ \A v \in Runs, x \in Groups : v # w \/ x # g => job'[v][x] = job[v][x]
    BY <1>14, <1>0, <1>a, <2>0 DEF MarkFailed
  <2>3. Idle' /\ TurnsPresent'
    BY <1>14, <2>0, <2>2, <1>a DEF MarkFailed, On, Idle, TurnsPresent
  <2>4. RowsPresent' /\ HeldFresh'
    BY <1>14, <2>0, <2>1, <2>2, <1>a DEF MarkFailed, RowsPresent, HeldFresh
  <2>5. RealHash' /\ DoneAsNamed'
    BY <1>z, <1>14, <2>0, <2>1, <1>0 DEF MarkFailed, RealHash, DoneAsNamed, Versions, Placeholder
  <2>6. QED
    BY <2>3, <2>4, <2>5
<1>15. CASE UNCHANGED vars
  BY <1>z, <1>15 DEF vars, On, Idle, TurnsPresent, RowsPresent, HeldFresh, RealHash, DoneAsNamed
<1>16. QED
  BY <1>1, <1>2, <1>3, <1>4, <1>5, <1>6, <1>7, <1>8, <1>9, <1>10, <1>11, <1>12,
     <1>13, <1>14, <1>15 DEF Next, Prepare, Work

\* The invariant of the safety theorems.
Orderly == calm => InTime

LEMMA OrderlyKept == TypeOK /\ Orderly /\ [Next]_vars => Orderly'
BY HistoryGrows, InTimeKept DEF Orderly

\* A run that works on a group holds its row, whoever dies and whatever else
\* runs, until a live worker outlives the timeout or a conversation changes
\* during a run.
THEOREM ClaimsExclude == Spec => []ClaimHeld
<1>1. Orderly => ClaimHeld
  BY DEF Orderly, InTime, HeldFresh, ClaimHeld
<1>2. Init => Orderly
  BY InTimeAtFirst DEF Orderly
<1>3. QED
  BY <1>1, <1>2, OrderlyKept, TypeCorrect, PTL DEF Spec

\* A group that is done was put to the model with the content its row names.
THEOREM DoneWithItsContent == Spec => []DoneIsCurrent
<1>1. Orderly => DoneIsCurrent
  BY DEF Orderly, InTime, DoneAsNamed, DoneIsCurrent
<1>2. Init => Orderly
  BY InTimeAtFirst DEF Orderly
<1>3. QED
  BY <1>1, <1>2, OrderlyKept, TypeCorrect, PTL DEF Spec

\* Only new content takes a group out of a terminal state.
THEOREM TerminalKept == Spec => TerminalStays
<1> DEFINE Stays == \A g \in Groups :
               row[g].status \in Terminal /\ row'[g].hash = row[g].hash => row'[g].status = row[g].status
<1>1. Init => Orderly
  BY InTimeAtFirst DEF Orderly
<1>2. TypeOK /\ Orderly /\ [Next]_vars => (calm' => Stays)
  <2> SUFFICES ASSUME TypeOK, Orderly, [Next]_vars, calm', NEW g \in Groups,
                      row[g].status \in Terminal, row'[g].hash = row[g].hash
               PROVE  row'[g].status = row[g].status
    OBVIOUS
  <2>a. InTime
    BY HistoryGrows DEF Orderly
  <2>0. SoundRow(row[g]) /\ row \in [Groups -> Row] /\ row[g].status \notin {"in_progress", "pending", "failed", "absent"}
    BY TypeSplits DEF SoundRows, TypeOK, Terminal
  <2>1. ASSUME NEW x \in Groups, Drift(x) \/ ClaimAges(x) \/ BackoffEnds(x)
        PROVE  row'[g].status = row[g].status
    <3>1. \/ row' = row
          \/ row' = [row EXCEPT ![x].aged = TRUE]
          \/ row' = [row EXCEPT ![x].backoff = FALSE]
      BY <2>1 DEF Drift, ClaimAges, BackoffEnds
    <3>2. QED
      BY <3>1, <2>0 DEF Row
  <2>2. ASSUME NEW w \in Runs, Crash(w) \/ ReadTurns(w) \/ ListGroups(w) \/ EndRun(w)
        PROVE  row'[g].status = row[g].status
    BY <2>2 DEF Crash, ReadTurns, ListGroups, EndRun
  <2>3. ASSUME NEW w \in Runs, RecoverStale(w)
        PROVE  row'[g].status = row[g].status
    BY <2>3, <2>0, RecoveredKeeps DEF RecoverStale
  <2>4. ASSUME NEW w \in Runs, Enroll(w)
        PROVE  row'[g].status = row[g].status
    <3>1. run[w].turns[g] \in Versions
      BY DEF TypeOK, RunState
    <3>2. row'[g] = Enrolled(row[g], run[w].turns[g])
      BY <2>4 DEF Enroll
    <3>3. QED
      BY <3>1, <3>2, <2>0, EnrolledKeeps
  <2>5. ASSUME NEW w \in Runs, NEW x \in Groups, Claim(w, x) \/ SkipGroup(w, x) \/ JudgeFailure(w, x)
        PROVE  row'[g].status = row[g].status
    <3>1. CASE Claim(w, x)
      <4>1. x # g
        BY <3>1, <2>0 DEF Claim, CanClaim, Claimable
      <4>2. QED
        BY <3>1, <4>1, <2>0 DEF Claim
    <3>2. QED
      BY <3>1, <2>5 DEF SkipGroup, JudgeFailure
  <2>6. ASSUME NEW w \in Runs, NEW x \in Groups, MarkDone(w, x) \/ MarkFailed(w, x)
        PROVE  row'[g].status = row[g].status
    <3>1. job[w][x] # NoJob
      BY <2>6 DEF MarkDone, MarkFailed, NoJob
    <3>2. x # g
      BY <3>1, <2>0, <2>a DEF InTime, HeldFresh
    <3>3. QED
      BY <2>6, <3>2, <2>0 DEF MarkDone, MarkFailed
  <2>7. CASE UNCHANGED vars
    BY <2>7 DEF vars
  <2>8. QED
    BY <2>1, <2>2, <2>3, <2>4, <2>5, <2>6, <2>7 DEF Next, Prepare, Work
<1>3. QED
  BY <1>1, <1>2, OrderlyKept, TypeCorrect, PTL DEF Spec, TerminalStays

-----------------------------------------------------------------------------
(* Done once for each content. *)

Done == {"success", "empty"}

\* The model has been through no content newer than that of the row, and
\* through that of the row only if the row is done.  (A row of a backfill names
\* no content: no content was made under it.)
Recorded(g) ==
    /\ row[g].hash <= source[g]
    /\ \A v \in made[g] : v <= row[g].hash
    /\ row[g].hash \in made[g] => row[g].status \in Done
    /\ row[g].status = "absent" => row[g].hash = Placeholder

AllRecorded == \A g \in Groups : Recorded(g)

LEMMA RecordedAtFirst == Init => AllRecorded
<1> SUFFICES ASSUME Init, NEW g \in Groups PROVE Recorded(g)
  BY DEF AllRecorded
<1>1. row[g].hash = Placeholder /\ source[g] = 1 /\ made[g] = {}
  BY DEF Init, NoRow, NewRow
<1>2. QED
  BY <1>1 DEF Recorded, Placeholder

\* What a step may do to a group that nothing is made of.
LEMMA RecordedKept ==
  ASSUME TypeOK, TypeOK', NEW g \in Groups, Recorded(g),
         made'[g] = made[g], source'[g] >= source[g], row'[g].hash = row[g].hash,
         row[g].status \in Done => row'[g].status = row[g].status,
         row'[g].status = "absent" => row[g].status = "absent"
  PROVE  Recorded(g)'
<1>1. row[g].hash \in Int /\ source[g] \in Int /\ source'[g] \in Int
  BY NumbersAssumption DEF TypeOK, Row, Versions, Placeholder
<1>2. QED
  BY <1>1 DEF Recorded

LEMMA AllRecordedKept ==
  ASSUME calm', TypeOK, TypeOK', InTime, AllRecorded, [Next]_vars
  PROVE  AllRecorded'
<1>z. Idle /\ TurnsPresent /\ RowsPresent /\ HeldFresh
  BY DEF InTime
<1>0. /\ \A g \in Groups : SoundRow(row[g]) /\ Recorded(g) /\ source[g] \in Nat
      /\ row \in [Groups -> Row] /\ \A g \in Groups : row[g] \in Row
      /\ run \in [Runs -> RunState]
      /\ source \in [Groups -> Versions] /\ made \in [Groups -> SUBSET Versions]
  BY TypeSplits DEF SoundRows, TypeOK, AllRecorded, Versions
<1>a. ASSUME UNCHANGED <<made, source>>, NEW g \in Groups, row'[g].hash = row[g].hash,
             row[g].status \in Done => row'[g].status = row[g].status,
             row'[g].status = "absent" => row[g].status = "absent"
      PROVE  Recorded(g)'
  <2>1. Recorded(g) /\ made'[g] = made[g] /\ source'[g] >= source[g]
    BY <1>0, <1>a
  <2>2. QED
    BY <1>a, <2>1, RecordedKept
<1>b. UNCHANGED <<made, source, row>> => AllRecorded'
  BY <1>a DEF AllRecorded
<1>c. ASSUME NEW w \in Runs, NEW g \in Groups, job[w][g] # NoJob
      PROVE  row[g].status = "in_progress" /\ row[g].hash = source[g] /\ run[w].turns = source
  BY <1>c, <1>z DEF HeldFresh, Idle, RowsPresent, TurnsPresent, On
<1>1. ASSUME NEW x \in Groups, Drift(x) PROVE AllRecorded'
  <2> SUFFICES ASSUME NEW g \in Groups PROVE Recorded(g)'
    BY DEF AllRecorded
  <2>1. source'[g] >= source[g] /\ UNCHANGED <<row, made>>
    BY <1>1, <1>0 DEF Drift
  <2>2. QED
    BY <1>0, <2>1, RecordedKept
<1>2. ASSUME NEW x \in Groups, ClaimAges(x) \/ BackoffEnds(x) PROVE AllRecorded'
  <2>1. \A g \in Groups : row'[g].hash = row[g].hash /\ row'[g].status = row[g].status
    <3>1. \/ row' = [row EXCEPT ![x].aged = TRUE]
          \/ row' = [row EXCEPT ![x].backoff = FALSE]
      BY <1>2 DEF ClaimAges, BackoffEnds
    <3>2. QED
      BY <3>1, <1>0 DEF Row
  <2>2. UNCHANGED <<made, source>>
    BY <1>2 DEF ClaimAges, BackoffEnds
  <2>3. QED
    BY <2>1, <2>2, <1>a DEF AllRecorded
<1>3. ASSUME NEW w \in Runs, Crash(w) \/ ReadTurns(w) \/ ListGroups(w) \/ EndRun(w) PROVE AllRecorded'
  BY <1>3, <1>b DEF Crash, ReadTurns, ListGroups, EndRun
<1>4. ASSUME NEW w \in Runs, RecoverStale(w) PROVE AllRecorded'
  <2>1. \A g \in Groups : /\ row'[g].hash = row[g].hash
                          /\ row'[g].status = "absent" <=> row[g].status = "absent"
                          /\ row[g].status \in Terminal => row'[g] = row[g]
    BY <1>4, <1>0, RecoveredKeeps DEF RecoverStale
  <2>2. UNCHANGED <<made, source>>
    BY <1>4 DEF RecoverStale
  <2>3. QED
    BY <2>1, <2>2, <1>a DEF AllRecorded, Terminal, Done
<1>5. ASSUME NEW w \in Runs, Enroll(w) PROVE AllRecorded'
  <2> SUFFICES ASSUME NEW g \in Groups PROVE Recorded(g)'
    BY DEF AllRecorded
  <2>1. run[w].turns = source /\ UNCHANGED <<made, source>>
    BY <1>5, <1>z DEF Enroll, TurnsPresent, On
  <2>2. /\ row'[g].status # "absent" /\ row'[g].hash = source[g]
        /\ row[g].status # "absent" /\ row[g].hash = source[g] => row'[g] = row[g]
    BY <1>5, <1>0, <2>1, EnrolledKeeps DEF Enroll
  <2>3. CASE row[g].status # "absent" /\ row[g].hash = source[g]
    BY <2>1, <2>2, <2>3, <1>a
  <2>4. CASE row[g].status = "absent" \/ row[g].hash # source[g]
    <3>1. row[g].hash < source[g] /\ row[g].hash \in Nat
      BY <2>4, <1>0 DEF Recorded, Row, Versions, Placeholder
    <3>2. \A v \in made[g] : v \in Nat /\ v < source[g]
      BY <3>1, <1>0 DEF Recorded, Versions
    <3>3. QED
      BY <2>1, <2>2, <3>2, <1>0 DEF Recorded
  <2>5. QED
    BY <2>3, <2>4
<1>6. ASSUME NEW w \in Runs, NEW x \in Groups, Claim(w, x) PROVE AllRecorded'
  <2>1. /\ row'[x].status = "in_progress" /\ row'[x].hash = row[x].hash
        /\ row[x].status \in Claimable /\ \A g \in Groups \ {x} : row'[g] = row[g]
    BY <1>6, <1>0 DEF Claim, CanClaim, Row
  <2>2. UNCHANGED <<made, source>>
    BY <1>6 DEF Claim
  <2>3. QED
    BY <2>1, <2>2, <1>a DEF AllRecorded, Claimable, Done
<1>7. ASSUME NEW w \in Runs, NEW x \in Groups, SkipGroup(w, x) \/ JudgeFailure(w, x) PROVE AllRecorded'
  BY <1>7, <1>b DEF SkipGroup, JudgeFailure
<1>8. ASSUME NEW w \in Runs, NEW x \in Groups, MarkDone(w, x) PROVE AllRecorded'
  <2>0. job[w][x] # NoJob
    BY <1>8 DEF MarkDone, NoJob
  <2>1. PICK s \in Done : row' = [row EXCEPT ![x] = Marked(row[x], s)]
    BY <1>8 DEF MarkDone, Done
  <2>2. /\ row'[x].status = s /\ row'[x].hash = source[x]
        /\ \A g \in Groups \ {x} : row'[g] = row[g]
    BY <2>0, <2>1, <1>0, <1>c DEF Marked, Row
  <2>3. /\ source' = source /\ made'[x] = made[x] \cup {source[x]}
        /\ \A g \in Groups \ {x} : made'[g] = made[g]
    BY <1>8, <2>0, <1>0, <1>c DEF MarkDone
  <2>4. Recorded(x)'
    <3>1. \A v \in made[x] : v <= source[x]
      BY <2>0, <1>0, <1>c DEF Recorded
    <3>2. QED
      BY <2>2, <2>3, <3>1, <1>0 DEF Recorded, Done
  <2>5. \A g \in Groups \ {x} : Recorded(g)'
    BY <2>2, <2>3, <1>0 DEF Recorded
  <2>6. QED
    BY <2>4, <2>5 DEF AllRecorded
<1>9. ASSUME NEW w \in Runs, NEW x \in Groups, MarkFailed(w, x) PROVE AllRecorded'
  <2>0. job[w][x] # NoJob /\ job[w][x] \in {"failed", "dead_letter"}
    BY <1>9 DEF MarkFailed, NoJob
  <2>1. /\ row'[x].status # "absent" /\ row'[x].hash = row[x].hash /\ row[x].status = "in_progress"
        /\ \A g \in Groups \ {x} : row'[g] = row[g]
    BY <1>9, <2>0, <1>0, <1>c DEF MarkFailed, Marked, Row
  <2>2. UNCHANGED <<made, source>>
    BY <1>9 DEF MarkFailed
  <2>3. QED
    BY <2>1, <2>2, <1>a DEF AllRecorded, Done
<1>10. CASE UNCHANGED vars
  BY <1>10, <1>b DEF vars
<1>11. QED
  BY <1>1, <1>2, <1>3, <1>4, <1>5, <1>6, <1>7, <1>8, <1>9, <1>10 DEF Next, Prepare, Work

\* A conversation the model has been through is never put to it again before
\* its content changes, with or without --resume, whoever dies and whatever
\* runs beside it, until a live worker outlives the timeout or a conversation
\* changes during a run.
THEOREM AskedOncePerContent == Spec => []AskedOnce
<1> DEFINE Kept == calm => AllRecorded
<1>1. Init => Orderly /\ Kept
  BY InTimeAtFirst, RecordedAtFirst DEF Orderly
<1>2. TypeOK /\ TypeOK' /\ Orderly /\ Kept /\ [Next]_vars => Kept'
  BY HistoryGrows, AllRecordedKept DEF Orderly
<1>3. Orderly /\ Kept => AskedOnce
  <2> SUFFICES ASSUME InTime, AllRecorded, NEW w \in Runs, NEW g \in Groups, job[w][g] # NoJob
               PROVE  run[w].turns[g] \notin made[g]
    BY DEF Orderly, AskedOnce
  <2>1. row[g].status = "in_progress" /\ row[g].hash = source[g] /\ run[w].turns = source
    BY DEF InTime, HeldFresh, Idle, RowsPresent, TurnsPresent, On
  <2>2. QED
    BY <2>1 DEF AllRecorded, Recorded, Done
<1>4. QED
  BY <1>1, <1>2, <1>3, OrderlyKept, TypeCorrect, PTL DEF Spec

-----------------------------------------------------------------------------
(* The cap on attempts, with late workers and changes at any time. *)

\* The runs that have listed a group and not tried it yet.
Waiting(g) == {w \in Runs : g \in run[w].todo}

\* Each run that has listed a group may still add one attempt, and a run lists
\* a group only below the cap.
Capped(g) == row[g].attempts + Cardinality(Waiting(g)) <= MaxAttempts + Cardinality(Runs) - 1

AllCapped == (\A g \in Groups : Capped(g)) /\ \A w \in Runs : run[w].mode # "all"

LEMMA WaitingIsFinite ==
  ASSUME IsFiniteSet(Runs), NEW S \in SUBSET Runs
  PROVE  /\ IsFiniteSet(S) /\ Cardinality(S) \in Nat /\ Cardinality(Runs) \in Nat
         /\ Cardinality(S) <= Cardinality(Runs)
         /\ \A T \in SUBSET S : IsFiniteSet(T) /\ Cardinality(T) \in Nat /\ Cardinality(T) <= Cardinality(S)
         /\ \A w \in S : Cardinality(S \ {w}) = Cardinality(S) - 1
<1>1. IsFiniteSet(S) /\ Cardinality(S) <= Cardinality(Runs)
  BY FS_Subset
<1>2. \A T \in SUBSET S : IsFiniteSet(T) /\ Cardinality(T) <= Cardinality(S)
  BY <1>1, FS_Subset
<1>3. QED
  BY <1>1, <1>2, FS_CardinalityType, FS_RemoveElement

\* What a step may do to a group without passing the cap.
LEMMA CappedKept ==
  ASSUME IsFiniteSet(Runs), TypeOK, TypeOK', NEW g \in Groups, Capped(g),
         \/ row'[g].attempts < MaxAttempts
         \/ row'[g].attempts = row[g].attempts /\ Waiting(g)' \subseteq Waiting(g)
  PROVE  Capped(g)'
<1>1. row[g].attempts \in Nat /\ row'[g].attempts \in Nat
  BY NumbersAssumption DEF TypeOK, Row
<1>2. Waiting(g) \in SUBSET Runs /\ Waiting(g)' \in SUBSET Runs
  BY DEF Waiting
<1>3. CASE row'[g].attempts < MaxAttempts
  BY <1>1, <1>2, <1>3, WaitingIsFinite, NumbersAssumption DEF Capped
<1>4. CASE row'[g].attempts = row[g].attempts /\ Waiting(g)' \subseteq Waiting(g)
  <2>1. Cardinality(Waiting(g)') <= Cardinality(Waiting(g)) /\ Cardinality(Waiting(g)') \in Nat
        /\ Cardinality(Waiting(g)) \in Nat /\ Cardinality(Runs) \in Nat
    BY <1>2, <1>4, WaitingIsFinite
  <2>2. QED
    BY <1>1, <1>4, <2>1, NumbersAssumption DEF Capped
<1>5. QED
  BY <1>3, <1>4

LEMMA AllCappedKept ==
  ASSUME ~forced', IsFiniteSet(Runs), TypeOK, TypeOK', AllCapped, [Next]_vars
  PROVE  AllCapped'
<1>0. /\ \A g \in Groups : SoundRow(row[g]) /\ row \in [Groups -> Row]
      /\ run \in [Runs -> RunState] /\ \A w \in Runs : run[w] \in RunState
  BY TypeSplits DEF SoundRows, TypeOK
<1>a. ASSUME NEW g \in Groups,
             \/ row'[g].attempts < MaxAttempts
             \/ row'[g].attempts = row[g].attempts /\ \A v \in Runs : g \in run'[v].todo => g \in run[v].todo
      PROVE  Capped(g)'
  <2>1. Capped(g)
    BY DEF AllCapped
  <2>2. (\A v \in Runs : g \in run'[v].todo => g \in run[v].todo) => Waiting(g)' \subseteq Waiting(g)
    BY DEF Waiting
  <2>3. QED
    BY <1>a, <2>1, <2>2, CappedKept
<1>b. ASSUME UNCHANGED run, \A g \in Groups : row'[g].attempts = row[g].attempts
      PROVE  AllCapped'
  BY <1>a, <1>b DEF AllCapped
<1>1. ASSUME NEW g \in Groups, Drift(g) \/ ClaimAges(g) \/ BackoffEnds(g) PROVE AllCapped'
  <2>1. \A x \in Groups : row'[x].attempts = row[x].attempts
    BY <1>1, <1>0 DEF Drift, ClaimAges, BackoffEnds, Row
  <2>2. QED
    BY <1>1, <1>b, <2>1 DEF Drift, ClaimAges, BackoffEnds
<1>2. ASSUME NEW w \in Runs, Crash(w) PROVE AllCapped'
  <2>1. /\ run'[w].todo = {} /\ run'[w].mode = run[w].mode
        /\ \A v \in Runs \ {w} : run'[v] = run[v]
    BY <1>2, <1>0 DEF Crash, RunState
  <2>2. \A g \in Groups : Capped(g)'
    BY <1>2, <1>a, <2>1 DEF Crash
  <2>3. QED
    BY <2>1, <2>2 DEF AllCapped
<1>3. ASSUME NEW w \in Runs, ReadTurns(w) PROVE AllCapped'
  <2>1. /\ run'[w].todo = {} /\ run'[w].mode # "all"
        /\ \A v \in Runs \ {w} : run'[v] = run[v]
    <3>1. PICK m \in Modes :
             /\ run' = [run EXCEPT ![w] = [phase |-> "read", mode |-> m, turns |-> source, todo |-> {}]]
             /\ forced' = (forced \/ m = "all")
      BY <1>3 DEF ReadTurns
    <3>2. m # "all"
      BY <3>1
    <3>3. QED
      BY <3>1, <3>2, <1>0
  <2>2. \A g \in Groups : Capped(g)'
    BY <1>3, <1>a, <2>1 DEF ReadTurns
  <2>3. QED
    BY <2>1, <2>2 DEF AllCapped
<1>4. ASSUME NEW w \in Runs, RecoverStale(w) PROVE AllCapped'
  <2>1. \A g \in Groups : row'[g].attempts = row[g].attempts
    BY <1>4, <1>0 DEF RecoverStale, Recovered, Row
  <2>2. /\ run'[w].todo = run[w].todo /\ run'[w].mode = run[w].mode
        /\ \A v \in Runs \ {w} : run'[v] = run[v]
    BY <1>4, <1>0 DEF RecoverStale, RunState
  <2>3. \A g \in Groups : Capped(g)'
    BY <1>a, <2>1, <2>2
  <2>4. QED
    BY <2>2, <2>3 DEF AllCapped
<1>5. ASSUME NEW w \in Runs, Enroll(w) PROVE AllCapped'
  <2>1. /\ run'[w].todo = run[w].todo /\ run'[w].mode = run[w].mode
        /\ \A v \in Runs \ {w} : run'[v] = run[v]
    BY <1>5, <1>0 DEF Enroll, RunState
  <2>2. \A g \in Groups : row'[g].attempts \in {0, row[g].attempts}
    <3> SUFFICES ASSUME NEW g \in Groups PROVE row'[g].attempts \in {0, row[g].attempts}
      OBVIOUS
    <3>1. row'[g] \in {NewRow(run[w].turns[g]), [row[g] EXCEPT !.hash = run[w].turns[g]]}
      BY <1>5 DEF Enroll, Enrolled
    <3>2. NewRow(run[w].turns[g]).attempts = 0
      BY DEF NewRow
    <3>3. QED
      BY <3>1, <3>2, <1>0 DEF Row
  <2>3. \A g \in Groups : Capped(g)'
    BY <1>a, <2>1, <2>2, NumbersAssumption
  <2>4. QED
    BY <2>1, <2>3 DEF AllCapped
<1>6. ASSUME NEW w \in Runs, ListGroups(w) PROVE AllCapped'
  <2>1. run[w].mode # "all"
    BY DEF AllCapped
  <2>2. /\ run'[w].mode = run[w].mode
        /\ \A g \in run'[w].todo : row[g].attempts < MaxAttempts
        /\ \A v \in Runs \ {w} : run'[v] = run[v]
    BY <1>6, <1>0, <2>1 DEF ListGroups, Eligible, RunState
  <2>3. row' = row
    BY <1>6 DEF ListGroups
  <2>4. \A g \in Groups : Capped(g)'
    BY <1>a, <2>2, <2>3
  <2>5. QED
    BY <2>2, <2>4 DEF AllCapped
<1>7. ASSUME NEW w \in Runs, EndRun(w) PROVE AllCapped'
  <2>1. /\ run'[w].todo = run[w].todo /\ run'[w].mode = run[w].mode
        /\ \A v \in Runs \ {w} : run'[v] = run[v] /\ row' = row
    BY <1>7, <1>0 DEF EndRun, RunState
  <2>2. \A g \in Groups : Capped(g)'
    BY <1>7, <1>a, <2>1 DEF EndRun
  <2>3. QED
    BY <2>1, <2>2 DEF AllCapped
<1>8. ASSUME NEW w \in Runs, NEW g \in Groups, Claim(w, g) PROVE AllCapped'
  <2>1. /\ run'[w].todo = run[w].todo \ {g} /\ run'[w].mode = run[w].mode
        /\ \A v \in Runs \ {w} : run'[v] = run[v]
        /\ g \in run[w].todo
    BY <1>8, <1>0 DEF Claim, RunState
  <2>2. /\ row'[g].attempts = row[g].attempts + 1
        /\ \A x \in Groups \ {g} : row'[x] = row[x]
    BY <1>8, <1>0 DEF Claim, Row
  <2>3. \A x \in Groups \ {g} : Capped(x)'
    BY <1>a, <2>1, <2>2
  <2>4. Capped(g)'
    <3>1. w \in Waiting(g) /\ Waiting(g)' = Waiting(g) \ {w}
      BY <2>1 DEF Waiting
    <3>2. /\ Cardinality(Waiting(g)') = Cardinality(Waiting(g)) - 1
          /\ Cardinality(Waiting(g)) \in Nat /\ Cardinality(Runs) \in Nat
      BY <3>1, WaitingIsFinite DEF Waiting
    <3>3. row[g].attempts \in Nat
      BY <1>0, NumbersAssumption DEF Row
    <3>4. Capped(g)
      BY DEF AllCapped
    <3>5. QED
      BY <2>2, <3>2, <3>3, <3>4, NumbersAssumption DEF Capped
  <2>5. QED
    BY <2>1, <2>3, <2>4 DEF AllCapped
<1>9. ASSUME NEW w \in Runs, NEW g \in Groups, SkipGroup(w, g) PROVE AllCapped'
  <2>1. /\ run'[w].todo = run[w].todo \ {g} /\ run'[w].mode = run[w].mode
        /\ \A v \in Runs \ {w} : run'[v] = run[v]
        /\ row' = row
    BY <1>9, <1>0 DEF SkipGroup, RunState
  <2>2. \A x \in Groups : Capped(x)'
    BY <1>a, <2>1
  <2>3. QED
    BY <2>1, <2>2 DEF AllCapped
<1>10. ASSUME NEW w \in Runs, NEW g \in Groups, MarkDone(w, g) \/ JudgeFailure(w, g) PROVE AllCapped'
  <2>1. /\ run'[w].todo \in {run[w].todo, {}} /\ run'[w].mode = run[w].mode
        /\ \A v \in Runs \ {w} : run'[v] = run[v]
    BY <1>10, <1>0 DEF MarkDone, JudgeFailure, MayStop, RunState
  <2>2. \A x \in Groups : row'[x].attempts = row[x].attempts
    <3>1. CASE MarkDone(w, g)
      <4>1. PICK status \in {"success", "empty"} : row' = [row EXCEPT ![g] = Marked(row[g], status)]
        BY <3>1 DEF MarkDone
      <4>2. QED
        BY <4>1, <1>0 DEF Marked, Row
    <3>2. CASE JudgeFailure(w, g)
      BY <3>2 DEF JudgeFailure
    <3>3. QED
      BY <1>10, <3>1, <3>2
  <2>3. \A x \in Groups : Capped(x)'
    BY <1>a, <2>1, <2>2
  <2>4. QED
    BY <2>1, <2>3 DEF AllCapped
<1>11. ASSUME NEW w \in Runs, NEW g \in Groups, MarkFailed(w, g) PROVE AllCapped'
  <2>1. \A x \in Groups : row'[x].attempts = row[x].attempts
    BY <1>11, <1>0 DEF MarkFailed, Marked, Row
  <2>2. QED
    BY <1>11, <1>b, <2>1 DEF MarkFailed
<1>12. CASE UNCHANGED vars
  BY <1>12, <1>b DEF vars
<1>13. QED
  BY <1>1, <1>2, <1>3, <1>4, <1>5, <1>6, <1>7, <1>8, <1>9, <1>10, <1>11, <1>12
     DEF Next, Prepare, Work

\* However many --resume runs overlap, and whatever comes late, crashes or
\* changes, each further run adds at most one attempt to the cap.
THEOREM AttemptsCapped ==
  ASSUME IsFiniteSet(Runs)
  PROVE  Spec => []AttemptsBounded
<1> DEFINE Within == ~forced => AllCapped
<1>1. Init => Within
  <2> SUFFICES ASSUME Init PROVE AllCapped
    OBVIOUS
  <2>1. ASSUME NEW g \in Groups PROVE Capped(g)
    <3>1. row[g].attempts = 0
      BY DEF Init, NoRow, NewRow
    <3>2. Waiting(g) = {}
      BY DEF Init, Waiting
    <3>3. QED
      BY <3>1, <3>2, FS_EmptySet, FS_CardinalityType, NumbersAssumption DEF Capped
  <2>2. QED
    BY <2>1 DEF Init, AllCapped
<1>2. TypeOK /\ TypeOK' /\ Within /\ [Next]_vars => Within'
  BY AllCappedKept, HistoryGrows
<1>3. TypeOK /\ Within => AttemptsBounded
  <2> SUFFICES ASSUME TypeOK, AllCapped, NEW g \in Groups
               PROVE  row[g].attempts <= MaxAttempts + Cardinality(Runs) - 1
    BY DEF AttemptsBounded
  <2>1. Capped(g) /\ row[g].attempts \in Nat
    BY NumbersAssumption DEF AllCapped, TypeOK, Row
  <2>2. Cardinality(Waiting(g)) \in Nat /\ Cardinality(Runs) \in Nat
    BY WaitingIsFinite DEF Waiting
  <2>3. QED
    BY <2>1, <2>2, NumbersAssumption DEF Capped
<1>4. QED
  BY <1>1, <1>2, <1>3, TypeCorrect, PTL DEF Spec


-----------------------------------------------------------------------------
(* What strands a group. *)

\* A group that waits may be tried again, a claim has its worker and did not pass
\* the cap, and a verdict of "failed" leaves an attempt.
LeftToDo(g) ==
    /\ row[g].status \in Claimable => row[g].attempts < MaxAttempts
    /\ row[g].status = "in_progress" => row[g].attempts <= MaxAttempts /\ Owned(g)
    /\ \A w \in Runs : job[w][g] = "failed" => row[g].attempts < MaxAttempts

AllLeftToDo == \A g \in Groups : LeftToDo(g)

LEMMA CrashesGrow == TypeOK /\ [Next]_vars => crashes' >= crashes
<1> SUFFICES ASSUME TypeOK, [Next]_vars PROVE crashes' >= crashes
  OBVIOUS
<1>1. crashes \in Nat
  BY NumbersAssumption DEF TypeOK
<1>2. ASSUME NEW w \in Runs, Crash(w) PROVE crashes' = crashes + 1
  BY <1>2 DEF Crash
<1>3. ASSUME \/ \E g \in Groups : Drift(g) \/ ClaimAges(g) \/ BackoffEnds(g)
             \/ \E w \in Runs : Prepare(w)
             \/ UNCHANGED vars
      PROVE  crashes' = crashes
  BY <1>3 DEF Drift, ClaimAges, BackoffEnds, Prepare, ReadTurns, RecoverStale, Enroll, ListGroups, EndRun,
              vars, history
<1>4. ASSUME NEW w \in Runs, NEW g \in Groups, Work(w, g) PROVE crashes' = crashes
  BY <1>4 DEF Work, Claim, SkipGroup, MarkDone, JudgeFailure, MarkFailed, history
<1>5. QED
  BY <1>1, <1>2, <1>3, <1>4 DEF Next

\* What a step may do to a group whose worker it does not take away.
LEMMA LeftToDoKept ==
  ASSUME NEW g \in Groups, LeftToDo(g),
         \A w \in Runs : job'[w][g] = job[w][g],
         row'[g].attempts = row[g].attempts, row'[g].status = row[g].status, row'[g].token = row[g].token
  PROVE  LeftToDo(g)'
BY DEF LeftToDo, Owned

LEMMA AllLeftToDoKept ==
  ASSUME ~RateLimits, calm', crashes' = 0, TypeOK, InTime, AllLeftToDo, [Next]_vars
  PROVE  AllLeftToDo'
<1>z. Idle /\ TurnsPresent /\ RowsPresent /\ HeldFresh
  BY DEF InTime
<1>0. /\ \A g \in Groups : SoundRow(row[g]) /\ LeftToDo(g) /\ row[g].attempts \in Nat
      /\ row \in [Groups -> Row] /\ \A g \in Groups : row[g] \in Row
      /\ run \in [Runs -> RunState] /\ \A w \in Runs : run[w] \in RunState
      /\ job \in [Runs -> [Groups -> JobState]] /\ \A w \in Runs : job[w] \in [Groups -> JobState]
      /\ MaxAttempts \in Nat \ {0}
  BY TypeSplits, NumbersAssumption DEF SoundRows, TypeOK, AllLeftToDo, Row
<1>a. ASSUME UNCHANGED job,
             \A g \in Groups : /\ row'[g].attempts = row[g].attempts
                               /\ row'[g].status = row[g].status /\ row'[g].token = row[g].token
      PROVE  AllLeftToDo'
  BY <1>0, <1>a, LeftToDoKept DEF AllLeftToDo
<1>b. \A w \in Runs, g \in Groups : job[w][g] # NoJob =>
         row[g].status = "in_progress" /\ row[g].token = w /\ \A v \in Runs \ {w} : job[v][g] = NoJob
  BY <1>z DEF HeldFresh
<1>1. ASSUME NEW x \in Groups, Drift(x) \/ ClaimAges(x) \/ BackoffEnds(x) PROVE AllLeftToDo'
  <2>1. \/ row' = row
        \/ row' = [row EXCEPT ![x].aged = TRUE]
        \/ row' = [row EXCEPT ![x].backoff = FALSE]
    BY <1>1 DEF Drift, ClaimAges, BackoffEnds
  <2>2. \A g \in Groups : /\ row'[g].attempts = row[g].attempts
                          /\ row'[g].status = row[g].status /\ row'[g].token = row[g].token
    <3>1. row \in [Groups -> Row]
      BY <1>0
    <3>2. QED
      BY <2>1, <3>1 DEF Row
  <2>3. QED
    BY <1>1, <1>a, <2>2 DEF Drift, ClaimAges, BackoffEnds
<1>2. ASSUME NEW w \in Runs, Crash(w) PROVE FALSE
  <2>1. crashes' = crashes + 1 /\ crashes \in Nat
    BY <1>2, NumbersAssumption DEF Crash, TypeOK
  <2>2. QED
    BY <2>1
<1>3. ASSUME NEW w \in Runs, ReadTurns(w) \/ ListGroups(w) \/ EndRun(w) PROVE AllLeftToDo'
  BY <1>3, <1>a DEF ReadTurns, ListGroups, EndRun
<1>4. ASSUME NEW w \in Runs, RecoverStale(w) PROVE AllLeftToDo'
  <2>1. ASSUME NEW g \in Groups PROVE Recovered(row[g]) = row[g]
    <3>1. CASE row[g].status = "in_progress"
      <4>1. ~row[g].aged
        BY <3>1, <1>0, <1>z DEF LeftToDo, Owned, HeldFresh
      <4>2. QED
        BY <4>1 DEF Recovered
    <3>2. QED
      BY <3>1 DEF Recovered
  <2>2. \A g \in Groups : row'[g] = row[g]
    BY <1>4, <2>1 DEF RecoverStale
  <2>3. QED
    BY <1>4, <1>a, <2>2 DEF RecoverStale
<1>5. ASSUME NEW w \in Runs, Enroll(w) PROVE AllLeftToDo'
  <2> SUFFICES ASSUME NEW g \in Groups PROVE LeftToDo(g)'
    BY DEF AllLeftToDo
  <2>1. run[w].turns[g] = source[g] /\ job' = job
    BY <1>5, <1>z DEF Enroll, TurnsPresent, On
  <2>2. row'[g] = Enrolled(row[g], source[g])
    BY <1>5, <2>1 DEF Enroll
  <2>3. CASE \E v \in Runs : job[v][g] # NoJob
    <3>1. row[g].status # "absent" /\ row[g].hash = source[g]
      BY <2>3, <1>z DEF Idle, RowsPresent
    <3>2. source[g] \in Versions
      BY DEF TypeOK
    <3>3. row'[g] = row[g]
      BY <2>2, <3>1, <3>2, <1>0, EnrolledKeeps
    <3>4. QED
      BY <2>1, <3>3, <1>0, LeftToDoKept
  <2>4. CASE \A v \in Runs : job[v][g] = NoJob
    <3>1. row[g].status # "in_progress"
      BY <2>4, <1>0 DEF LeftToDo, Owned
    <3>2. CASE row'[g] = NewRow(source[g])
      <4>1. row'[g].status = "pending" /\ row'[g].attempts = 0
        BY <3>2 DEF NewRow
      <4>2. \A v \in Runs : job'[v][g] # "failed"
        BY <2>1, <2>4 DEF NoJob
      <4>3. QED
        BY <4>1, <4>2, <1>0 DEF LeftToDo
    <3>3. CASE row'[g] = [row[g] EXCEPT !.hash = source[g]]
      <4>1. /\ row'[g].status = row[g].status /\ row'[g].attempts = row[g].attempts
            /\ row'[g].token = row[g].token
        BY <3>3, <1>0 DEF Row
      <4>2. QED
        BY <2>1, <4>1, <1>0, LeftToDoKept
    <3>4. QED
      BY <2>2, <3>2, <3>3 DEF Enrolled
  <2>5. QED
    BY <2>3, <2>4
<1>6. ASSUME NEW w \in Runs, NEW x \in Groups, Claim(w, x) PROVE AllLeftToDo'
  <2>1. /\ row'[x].status = "in_progress" /\ row'[x].token = w /\ row'[x].attempts = row[x].attempts + 1
        /\ row[x].status \in Claimable /\ \A g \in Groups \ {x} : row'[g] = row[g]
    BY <1>6, <1>0 DEF Claim, CanClaim, Row
  <2>2. /\ job'[w][x] = "asked"
        /\ \A v \in Runs, g \in Groups : v # w \/ g # x => job'[v][g] = job[v][g]
    BY <1>6, <1>0 DEF Claim
  <2>3. \A v \in Runs : job[v][x] = NoJob
    BY <2>1, <1>b DEF Claimable
  <2>4. LeftToDo(x)'
    <3>1. row[x].attempts < MaxAttempts
      BY <2>1, <1>0 DEF LeftToDo
    <3>2. row'[x].attempts <= MaxAttempts
      BY <2>1, <3>1, <1>0
    <3>3. \A v \in Runs : job'[v][x] # "failed"
      BY <2>2, <2>3 DEF NoJob
    <3>4. Owned(x)'
      BY <2>1, <2>2 DEF Owned, NoJob
    <3>5. QED
      BY <2>1, <3>2, <3>3, <3>4 DEF LeftToDo, Claimable
  <2>5. \A g \in Groups \ {x} : LeftToDo(g)'
    BY <2>1, <2>2, <1>0, LeftToDoKept
  <2>6. QED
    BY <2>4, <2>5 DEF AllLeftToDo
<1>7. ASSUME NEW w \in Runs, NEW x \in Groups, SkipGroup(w, x) PROVE AllLeftToDo'
  BY <1>7, <1>a DEF SkipGroup
<1>8. ASSUME NEW w \in Runs, NEW x \in Groups, MarkDone(w, x) PROVE AllLeftToDo'
  <2>0. job[w][x] # NoJob
    BY <1>8 DEF MarkDone, NoJob
  <2>1. PICK s \in {"success", "empty"} : row' = [row EXCEPT ![x] = Marked(row[x], s)]
    BY <1>8 DEF MarkDone
  <2>2. row'[x].status = s /\ \A g \in Groups \ {x} : row'[g] = row[g]
    BY <2>1, <1>0 DEF Marked, Row
  <2>3. /\ \A v \in Runs : job'[v][x] = NoJob
        /\ \A v \in Runs, g \in Groups \ {x} : job'[v][g] = job[v][g]
    BY <1>8, <1>0, <1>b, <2>0 DEF MarkDone
  <2>4. LeftToDo(x)'
    BY <2>2, <2>3 DEF LeftToDo, Claimable, NoJob
  <2>5. \A g \in Groups \ {x} : LeftToDo(g)'
    BY <2>2, <2>3, <1>0, LeftToDoKept
  <2>6. QED
    BY <2>4, <2>5 DEF AllLeftToDo
<1>9. ASSUME NEW w \in Runs, NEW x \in Groups, JudgeFailure(w, x) PROVE AllLeftToDo'
  <2>0. job[w][x] = "asked" /\ row' = row
    BY <1>9 DEF JudgeFailure
  <2>1. PICK kind \in {"transient", "deterministic"} : job' = [job EXCEPT ![w][x] = Verdict(row[x], kind)]
    BY <1>9 DEF JudgeFailure
  <2>2. /\ job'[w][x] = Verdict(row[x], kind)
        /\ \A v \in Runs, g \in Groups : v # w \/ g # x => job'[v][g] = job[v][g]
    BY <2>1, <1>0
  <2>3. /\ job'[w][x] \in {"failed", "dead_letter"}
        /\ job'[w][x] = "failed" => row[x].attempts < MaxAttempts
    BY <2>2, <1>0 DEF Verdict
  <2>4. LeftToDo(x)'
    <3>1. row[x].status = "in_progress" /\ row[x].token = w /\ \A v \in Runs \ {w} : job[v][x] = NoJob
      BY <2>0, <1>b DEF NoJob
    <3>2. LeftToDo(x)
      BY <1>0
    <3>3. Owned(x)'
      BY <2>0, <2>3, <3>1 DEF Owned, NoJob
    <3>4. \A v \in Runs : job'[v][x] = "failed" => row'[x].attempts < MaxAttempts
      BY <2>0, <2>2, <2>3, <3>1 DEF NoJob
    <3>5. QED
      BY <2>0, <3>1, <3>2, <3>3, <3>4 DEF LeftToDo, Claimable
  <2>5. \A g \in Groups \ {x} : LeftToDo(g)'
    BY <2>0, <2>2, <1>0, LeftToDoKept
  <2>6. QED
    BY <2>4, <2>5 DEF AllLeftToDo
<1>10. ASSUME NEW w \in Runs, NEW x \in Groups, MarkFailed(w, x) PROVE AllLeftToDo'
  <2>0. job[w][x] # NoJob /\ job[w][x] \in {"failed", "dead_letter"}
    BY <1>10 DEF MarkFailed, NoJob
  <2>1. /\ row'[x].status = job[w][x] /\ row'[x].attempts = row[x].attempts
        /\ \A g \in Groups \ {x} : row'[g] = row[g]
    BY <1>10, <2>0, <1>0 DEF MarkFailed, Marked, Row
  <2>2. /\ \A v \in Runs : job'[v][x] = NoJob
        /\ \A v \in Runs, g \in Groups \ {x} : job'[v][g] = job[v][g]
    BY <1>10, <1>0, <1>b, <2>0 DEF MarkFailed
  <2>3. LeftToDo(x)'
    <3>1. job[w][x] = "failed" => row[x].attempts < MaxAttempts
      BY <1>0 DEF LeftToDo
    <3>2. QED
      BY <2>0, <2>1, <2>2, <3>1 DEF LeftToDo, Claimable, NoJob
  <2>4. \A g \in Groups \ {x} : LeftToDo(g)'
    BY <2>1, <2>2, <1>0, LeftToDoKept
  <2>5. QED
    BY <2>3, <2>4 DEF AllLeftToDo
<1>11. CASE UNCHANGED vars
  BY <1>11, <1>a DEF vars
<1>12. QED
  BY <1>1, <1>2, <1>3, <1>4, <1>5, <1>6, <1>7, <1>8, <1>9, <1>10, <1>11 DEF Next, Prepare, Work

\* A group is stranded, "pending" or "failed" with its attempts used up, by a 429
\* answer, by the death of a process, by a worker that outlives the timeout or by a
\* change during a run, and by nothing else: not by overlapping runs, with or
\* without --resume, nor by any other failure.
THEOREM StrandedByMishapOnly ==
  ASSUME ~RateLimits
  PROVE  Spec => [](calm /\ crashes = 0 => NeverStranded)
<1> DEFINE Left == calm /\ crashes = 0 => AllLeftToDo
<1>1. Init => Orderly /\ Left
  <2> SUFFICES ASSUME Init, NEW g \in Groups PROVE LeftToDo(g)
    BY InTimeAtFirst DEF Orderly, AllLeftToDo
  <2>1. row[g].status \in Terminal \cup {"absent"} /\ \A w \in Runs : job[w][g] = NoJob
    BY DEF Init, NoRow, NewRow
  <2>2. QED
    BY <2>1 DEF LeftToDo, Terminal, Claimable, NoJob
<1>2. TypeOK /\ Orderly /\ Left /\ [Next]_vars => Left'
  <2> SUFFICES ASSUME TypeOK, Orderly, Left, [Next]_vars, calm', crashes' = 0 PROVE AllLeftToDo'
    OBVIOUS
  <2>1. calm /\ crashes = 0
    BY HistoryGrows, CrashesGrow, NumbersAssumption DEF TypeOK
  <2>2. QED
    BY <2>1, AllLeftToDoKept DEF Orderly
<1>3. Left => (calm /\ crashes = 0 => NeverStranded)
  BY DEF AllLeftToDo, LeftToDo, NeverStranded
<1>4. QED
  BY <1>1, <1>2, <1>3, OrderlyKept, TypeCorrect, PTL DEF Spec
=============================================================================
