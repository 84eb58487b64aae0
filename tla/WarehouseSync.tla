---------------------------- MODULE WarehouseSync ----------------------------
(***************************************************************************)
(* The exchange of one table of bin/pg_sync.py between several devices and  *)
(* one PostgreSQL warehouse: memories, the edges between them, or tasks.  A  *)
(* run of a device pushes what changed since its push watermark and pulls    *)
(* what reached the warehouse since its pull watermark, inside one warehouse *)
(* transaction; the push watermark is written after the warehouse commit.    *)
(* Runs of different devices overlap, local writes go on meanwhile, and a    *)
(* run may fail or die at any point.                                         *)
(*                                                                          *)
(* Every reading of a clock is a new value of "clock": device clocks agree.  *)
(* The content of a row is the time of its last edit, "ver".                 *)
(***************************************************************************)
EXTENDS Naturals, FiniteSets

CONSTANTS
  Devices,     \* machines, each with its own store
  Ids,         \* ids of rows
  AgentOf,     \* AgentOf[i]: the change_agent a memory is written with
  MaxClock,    \* bound on the readings of the clock, hence on writes and runs
  MaxEdits,    \* bound on the edits
  MaxFaults,   \* bound on failed steps, batches, probes and runs
  NoRow        \* "no such row"

ASSUME ConstantsOK ==
  /\ MaxClock \in Nat
  /\ MaxEdits \in Nat
  /\ MaxFaults \in Nat
  /\ AgentOf \in [Ids -> {"auto", "manual", "system"}]

Times == 0..MaxClock

\* ts: updated_at, 0 for NULL.  ver: when the content was written.
Row == [ts : Times, ver : Times]
Rows == Row \union {NoRow}
ASSUME NoRowIsNoRow == NoRow \notin Row

Tables == {"memory_items", "memory_relationships", "tasks"}

VARIABLES
  table,     \* the table that is exchanged
  plain,     \* the rows committed as they are stamped, and stamped by every edit
  clock,     \* the last reading of the clock
  born,      \* born[i]: created_at of row i on every device, 0 before that
  store,     \* store[d][i]: row i of device d
  writing,   \* writing[d]: rows d has stamped but not committed yet
  present,   \* present[d]: the edges both memories of which d holds
  wh,        \* wh[i]: row i of the warehouse, committed
  arrived,   \* arrived[i]: its wh_arrived_at
  sent,      \* sent[d][i]: what d's open warehouse transaction wrote
  sentAt,    \* sentAt[d][i]: its wh_arrived_at
  xstart,    \* xstart[d]: start of d's warehouse transaction, 0 for none
  pc,        \* where d's run is
  now,       \* now[d]: the clock read at the start of the run
  outgoing,  \* outgoing[d]: the rows selected for the push
  queued,    \* queued[d]: d's entry of _PENDING_PUSH_WATERMARKS, 0 for none
  bound,     \* bound[d]: the pull watermark to be, 0 for none
  incoming,  \* incoming[d]: the rows the pull fetched
  pushMark,  \* pushMark[d]: watermark pg_push, 0 for none
  pullMark,  \* pullMark[d]: watermark pg_pull_arrival, 0 for none
  hasty,     \* history: a pull that left edges waiting had no bound
  edits,     \* edits so far
  faults     \* faults so far

local == <<born, store, writing, present>>
warehouse == <<wh, arrived>>
transaction == <<sent, sentAt, xstart>>
run == <<now, outgoing, queued, bound, incoming>>
marks == <<pushMark, pullMark, hasty>>
bounds == <<edits, faults>>
fixed == <<table, plain>>
vars == <<fixed, clock, local, warehouse, transaction, pc, run, marks, bounds>>

PC == {"idle", "select", "push", "probe", "pull", "merge", "mark", "commit", "keep"}

TypeOK ==
  /\ table \in Tables
  /\ plain \subseteq Ids
  /\ clock \in Times
  /\ born \in [Ids -> Times]
  /\ store \in [Devices -> [Ids -> Rows]]
  /\ writing \in [Devices -> SUBSET Ids]
  /\ present \in [Devices -> SUBSET Ids]
  /\ wh \in [Ids -> Rows]
  /\ arrived \in [Ids -> Times]
  /\ sent \in [Devices -> [Ids -> Rows]]
  /\ sentAt \in [Devices -> [Ids -> Times]]
  /\ xstart \in [Devices -> Times]
  /\ pc \in [Devices -> PC]
  /\ now \in [Devices -> Times]
  /\ outgoing \in [Devices -> [Ids -> Rows]]
  /\ queued \in [Devices -> Times]
  /\ bound \in [Devices -> Times]
  /\ incoming \in [Devices -> [Ids -> Rows]]
  /\ pushMark \in [Devices -> Times]
  /\ pullMark \in [Devices -> Times]
  /\ hasty \in BOOLEAN
  /\ edits \in 0..MaxEdits
  /\ faults \in 0..MaxFaults

Nothing == [i \in Ids |-> NoRow]

Init ==
  /\ table \in Tables
  /\ plain \in IF table = "tasks" THEN {Ids} ELSE SUBSET Ids
  /\ clock = 0
  /\ born = [i \in Ids |-> 0]
  /\ store = [d \in Devices |-> Nothing]
  /\ writing = [d \in Devices |-> {}]
  /\ present = [d \in Devices |-> {}]
  /\ wh = Nothing
  /\ arrived = [i \in Ids |-> 0]
  /\ sent = [d \in Devices |-> Nothing]
  /\ sentAt = [d \in Devices |-> [i \in Ids |-> 0]]
  /\ xstart = [d \in Devices |-> 0]
  /\ pc = [d \in Devices |-> "idle"]
  /\ now = [d \in Devices |-> 0]
  /\ outgoing = [d \in Devices |-> Nothing]
  /\ queued = [d \in Devices |-> 0]
  /\ bound = [d \in Devices |-> 0]
  /\ incoming = [d \in Devices |-> Nothing]
  /\ pushMark = [d \in Devices |-> 0]
  /\ pullMark = [d \in Devices |-> 0]
  /\ hasty = FALSE
  /\ edits = 0
  /\ faults = 0

\* datetime.now, NOW(), clock_timestamp()
ReadClock ==
  /\ clock < MaxClock
  /\ clock' = clock + 1

Spend(counter, limit) == counter < limit /\ counter' = counter + 1

Goto(d, from, to) ==
  /\ pc[d] = from
  /\ pc' = [pc EXCEPT ![d] = to]

-----------------------------------------------------------------------------
(* Writers of a device's store *)

\* memory_write, memory_link (which finds both memories) and task_create stamp a
\* row with a fresh UUID.
Stamped(d, i) ==
  /\ ReadClock
  /\ born[i] = 0
  /\ table = "memory_relationships" => i \in present[d]
  /\ born' = [born EXCEPT ![i] = clock']

\* A new row; that of a task has its updated_at, too.
Fresh(time) == [ts |-> IF table = "tasks" THEN time ELSE 0, ver |-> time]

\* The memories of an edge are written here, or pulled before it.
Learn(d, i) ==
  /\ table = "memory_relationships"
  /\ i \notin present[d]
  /\ present' = [present EXCEPT ![d] = @ \union {i}]
  /\ UNCHANGED <<clock, born, store, writing, warehouse, transaction, pc, run, marks, bounds>>

\* The row is committed at the time it is stamped.
Create(d, i) ==
  /\ Stamped(d, i)
  /\ store' = [store EXCEPT ![d][i] = Fresh(clock')]
  /\ UNCHANGED <<writing, present, warehouse, transaction, pc, run, marks, bounds>>

\* memory_write waits for titles and entities from an LLM after the stamp, an edge
\* for the commit of the consolidation it belongs to.
BeginCreate(d, i) ==
  /\ i \notin plain
  /\ Stamped(d, i)
  /\ writing' = [writing EXCEPT ![d] = @ \union {i}]
  /\ UNCHANGED <<store, present, warehouse, transaction, pc, run, marks, bounds>>

EndCreate(d, i) ==
  /\ i \in writing[d]
  /\ store' = [store EXCEPT ![d][i] = Fresh(born[i])]
  /\ writing' = [writing EXCEPT ![d] = @ \ {i}]
  /\ UNCHANGED <<clock, born, present, warehouse, transaction, pc, run, marks, bounds>>

\* memory_update, memory_delete, supersede, task_update: the edit stamps
\* updated_at.  An edge is never edited.
Edit(d, i) ==
  /\ table # "memory_relationships"
  /\ ReadClock
  /\ Spend(edits, MaxEdits)
  /\ store[d][i] # NoRow
  /\ store' = [store EXCEPT ![d][i] = [ts |-> clock', ver |-> clock']]
  /\ UNCHANGED <<born, writing, present, warehouse, transaction, pc, run, marks, faults>>

\* An edit of a synchronized column of a memory that leaves updated_at as it was.
SilentEdit(d, i) ==
  /\ table = "memory_items" /\ i \notin plain
  /\ ReadClock
  /\ Spend(edits, MaxEdits)
  /\ store[d][i] # NoRow
  /\ store' = [store EXCEPT ![d][i] = [ts |-> @.ts, ver |-> clock']]
  /\ UNCHANGED <<born, writing, present, warehouse, transaction, pc, run, marks, faults>>

-----------------------------------------------------------------------------
(* The merge rule and what a transaction sees *)

\* Mutant of Guard: a row that was never edited counts as new.
NullsWin(i, new, old) ==
  table # "memory_relationships" /\ (old.ts = 0 \/ new.ts = 0 \/ new.ts > old.ts)

\* lww_guard, for memories with protect_curation: may the row "new" replace the
\* stored "old"?  For edges, DO NOTHING.
Guard(i, new, old) ==
  /\ table # "memory_relationships"
  /\ old.ts = 0 \/ new.ts > old.ts
  /\ table = "memory_items" => AgentOf[i] \notin {"manual", "system"} \/ AgentOf[i] = "manual"

\* INSERT ... ON CONFLICT (id) DO UPDATE ... WHERE guard.
Accepted(i, new, old) == new # NoRow /\ (old = NoRow \/ Guard(i, new, old))

Seen(d) == [i \in Ids |-> IF sent[d][i] # NoRow THEN sent[d][i] ELSE wh[i]]

\* wh_arrived_at, which the warehouse's trigger sets on each row it writes.
SeenAt(d) == [i \in Ids |-> IF sent[d][i] # NoRow THEN sentAt[d][i] ELSE arrived[i]]

\* updated_at, or created_at while it is NULL: what the push compares.
Stamp(i, row) == IF row.ts = 0 THEN born[i] ELSE row.ts

-----------------------------------------------------------------------------
(* One run of a sync function, and main around it *)

\* The step opens its savepoint, hence the warehouse transaction; then the
\* clock is read for the next push watermark.
StartRun(d) ==
  /\ Goto(d, "idle", "select")
  /\ ReadClock
  /\ xstart' = [xstart EXCEPT ![d] = clock']
  /\ now' = [now EXCEPT ![d] = clock']
  /\ UNCHANGED <<local, warehouse, sent, sentAt, outgoing, queued, bound, incoming, marks, bounds>>

\* The local rows changed since the push watermark, all of them without one.
Select(d) ==
  /\ Goto(d, "select", "push")
  /\ outgoing' = [outgoing EXCEPT ![d] =
       [i \in Ids |-> IF /\ store[d][i] # NoRow
                         /\ pushMark[d] = 0 \/ Stamp(i, store[d][i]) > pushMark[d]
                      THEN store[d][i] ELSE NoRow]]
  /\ UNCHANGED <<clock, local, warehouse, transaction, now, queued, bound, incoming, marks, bounds>>

\* A row another open transaction wrote blocks the upsert until that one ends.
Blocked(d) ==
  \E i \in Ids, e \in Devices \ {d} : outgoing[d][i] # NoRow /\ sent[e][i] # NoRow

\* The upsert; the trigger stamps the rows it writes, and the mark is queued.
Push(d) ==
  /\ Goto(d, "push", "probe")
  /\ ~Blocked(d)
  /\ IF outgoing[d] = Nothing THEN UNCHANGED clock ELSE ReadClock
  /\ LET Takes(i) == Accepted(i, outgoing[d][i], Seen(d)[i])
     IN /\ sent' = [sent EXCEPT ![d] =
             [i \in Ids |-> IF Takes(i) THEN outgoing[d][i] ELSE @[i]]]
        /\ sentAt' = [sentAt EXCEPT ![d] =
             [i \in Ids |-> IF Takes(i) THEN clock' ELSE @[i]]]
  /\ queued' = [queued EXCEPT ![d] = now[d]]
  /\ outgoing' = [outgoing EXCEPT ![d] = Nothing]
  /\ UNCHANGED <<local, warehouse, xstart, now, bound, incoming, marks, bounds>>

\* Mutant of IsOldestStart: the warehouse clock, whatever is still in flight.
IsPresentTime(t) == t = clock

\* arrival_bound: the start of the oldest open warehouse transaction.
IsOldestStart(t) ==
  /\ \E e \in Devices : xstart[e] = t /\ t # 0
  /\ \A e \in Devices : xstart[e] # 0 => t <= xstart[e]

\* None when pg_stat_activity cannot be read.
Probe(d) ==
  /\ Goto(d, "probe", "pull")
  /\ \/ /\ \E t \in Times : IsOldestStart(t) /\ bound' = [bound EXCEPT ![d] = t]
        /\ UNCHANGED faults
     \/ bound' = [bound EXCEPT ![d] = 0] /\ Spend(faults, MaxFaults)
  /\ UNCHANGED <<clock, local, warehouse, transaction, now, outgoing, queued, incoming, marks, edits>>

\* The time of a row that is compared with the pull watermark: that of a task is
\* its writer's.
PullTime(d, i) == IF table = "tasks" THEN Stamp(i, Seen(d)[i]) ELSE SeenAt(d)[i]

\* The rows that arrived since the pull watermark, all of them without one.
Fetched(d) == {i \in Ids : /\ Seen(d)[i] # NoRow
                           /\ pullMark[d] = 0 \/ PullTime(d, i) > pullMark[d]}

\* Edges one of whose memories is not here yet.
Waiting(d) == IF table = "memory_relationships" THEN Fetched(d) \ present[d] ELSE {}

\* Mutant of IsResumePoint: the pull goes on after the edges that wait.
IsBound(d, t) == t = bound[d]

\* _resume_point: the bound, or right before the first row that waits.
IsResumePoint(d, t) ==
  /\ \A i \in Waiting(d) : t < SeenAt(d)[i]
  /\ bound[d] # 0 => t <= bound[d]
  /\ t = bound[d] \/ \E i \in Waiting(d) : t + 1 = SeenAt(d)[i]
  /\ Waiting(d) # {} /\ bound[d] = 0 => t # 0

Pull(d) ==
  /\ Goto(d, "pull", "merge")
  /\ incoming' = [incoming EXCEPT ![d] =
       [i \in Ids |-> IF i \in Fetched(d) \ Waiting(d) THEN Seen(d)[i] ELSE NoRow]]
  /\ \E t \in Times : IsResumePoint(d, t) /\ bound' = [bound EXCEPT ![d] = t]
  /\ hasty' = (hasty \/ (Waiting(d) # {} /\ bound[d] = 0))
  /\ UNCHANGED <<clock, local, warehouse, transaction, now, outgoing, queued, pushMark, pullMark, bounds>>

\* Guarded upsert into the local store, committed batch by batch; edges are one
\* batch.  When a batch fails, the ones before it stay, and no pull watermark
\* will be written.
Merge(d) ==
  \E done \in SUBSET Ids :
    /\ done # Ids => incoming[d] # Nothing
    /\ table = "memory_relationships" => done \in {{}, Ids}
    /\ IF done = Ids THEN Goto(d, "merge", "mark") /\ UNCHANGED <<bound, faults>>
       ELSE /\ Goto(d, "merge", "commit")
            /\ bound' = [bound EXCEPT ![d] = 0]
            /\ Spend(faults, MaxFaults)
    /\ store' = [store EXCEPT ![d] =
         [i \in Ids |-> IF i \in done /\ Accepted(i, incoming[d][i], @[i])
                        THEN incoming[d][i] ELSE @[i]]]
    /\ incoming' = [incoming EXCEPT ![d] = Nothing]
    /\ UNCHANGED <<clock, born, writing, present, warehouse, transaction, now, outgoing, queued, marks, edits>>

BoundOrOld(d) == IF bound[d] # 0 THEN bound[d] ELSE pullMark[d]

\* The mark is written in the open transaction of the store.  That of the memories
\* a batch of a later step may commit; failing that, it is committed with the push
\* mark.  The others are committed here.
KeepPullMark(d) ==
  /\ Goto(d, "mark", "commit")
  /\ \/ pullMark' = [pullMark EXCEPT ![d] = BoundOrOld(d)]
     \/ table = "memory_items" /\ UNCHANGED pullMark
  /\ UNCHANGED <<clock, local, warehouse, transaction, run, pushMark, hasty, bounds>>

\* Mutant of StepFails: the queued push mark outlives the rolled back step.
StepFailsKeepingMark(d) ==
  /\ pc[d] \in {"select", "push", "probe", "pull", "merge"}
  /\ Spend(faults, MaxFaults)
  /\ pc' = [pc EXCEPT ![d] = "commit"]
  /\ sent' = [sent EXCEPT ![d] = Nothing]
  /\ sentAt' = [sentAt EXCEPT ![d] = [i \in Ids |-> 0]]
  /\ bound' = [bound EXCEPT ![d] = 0]
  /\ outgoing' = [outgoing EXCEPT ![d] = Nothing]
  /\ incoming' = [incoming EXCEPT ![d] = Nothing]
  /\ UNCHANGED <<clock, local, warehouse, xstart, now, queued, marks, edits>>

\* _run_step: a failed step is rolled back to its savepoint and loses its mark.
StepFails(d) ==
  /\ pc[d] \in {"select", "push", "probe", "pull", "merge"}
  /\ Spend(faults, MaxFaults)
  /\ pc' = [pc EXCEPT ![d] = "commit"]
  /\ sent' = [sent EXCEPT ![d] = Nothing]
  /\ sentAt' = [sentAt EXCEPT ![d] = [i \in Ids |-> 0]]
  /\ queued' = [queued EXCEPT ![d] = 0]
  /\ bound' = [bound EXCEPT ![d] = 0]
  /\ outgoing' = [outgoing EXCEPT ![d] = Nothing]
  /\ incoming' = [incoming EXCEPT ![d] = Nothing]
  /\ UNCHANGED <<clock, local, warehouse, xstart, now, marks, edits>>

EndTransaction(d) ==
  /\ sent' = [sent EXCEPT ![d] = Nothing]
  /\ sentAt' = [sentAt EXCEPT ![d] = [i \in Ids |-> 0]]
  /\ xstart' = [xstart EXCEPT ![d] = 0]

\* pg_conn.commit()
Commit(d) ==
  /\ Goto(d, "commit", "keep")
  /\ wh' = Seen(d)
  /\ arrived' = SeenAt(d)
  /\ EndTransaction(d)
  /\ UNCHANGED <<clock, local, run, marks, bounds>>

ForgetRun(d) ==
  /\ now' = [now EXCEPT ![d] = 0]
  /\ outgoing' = [outgoing EXCEPT ![d] = Nothing]
  /\ queued' = [queued EXCEPT ![d] = 0]
  /\ bound' = [bound EXCEPT ![d] = 0]
  /\ incoming' = [incoming EXCEPT ![d] = Nothing]

\* _commit_push_watermarks
KeepPushMark(d) ==
  /\ Goto(d, "keep", "idle")
  /\ pushMark' = [pushMark EXCEPT ![d] = IF queued[d] # 0 THEN queued[d] ELSE @]
  /\ pullMark' = [pullMark EXCEPT ![d] = BoundOrOld(d)]
  /\ ForgetRun(d)
  /\ UNCHANGED <<clock, local, warehouse, transaction, hasty, bounds>>

\* The target fails (its warehouse transaction is rolled back and its marks
\* are dropped), or the process dies.
Abort(d) ==
  /\ pc[d] # "idle"
  /\ Spend(faults, MaxFaults)
  /\ pc' = [pc EXCEPT ![d] = "idle"]
  /\ EndTransaction(d)
  /\ ForgetRun(d)
  /\ UNCHANGED <<clock, local, warehouse, marks, edits>>

Step(d) ==
  \/ StartRun(d) \/ Select(d) \/ Push(d) \/ Probe(d) \/ Pull(d) \/ Merge(d)
  \/ KeepPullMark(d) \/ Commit(d) \/ KeepPushMark(d)

Write(d, i) ==
  \/ Learn(d, i) \/ Create(d, i) \/ BeginCreate(d, i) \/ EndCreate(d, i)
  \/ Edit(d, i) \/ SilentEdit(d, i)

Next ==
  /\ UNCHANGED fixed
  /\ \E d \in Devices :
       \/ Step(d) \/ StepFails(d) \/ Abort(d)
       \/ \E i \in Ids : Write(d, i)

Spec == Init /\ [][Next]_vars

-----------------------------------------------------------------------------
(* Properties *)

\* The store or warehouse that holds "by" has nothing to gain from "row"; all
\* versions of an edge are the same.
Covers(by, row) == by # NoRow /\ (table = "memory_relationships" \/ by.ts >= row.ts)

\* A row at or before a device's push watermark, hence never selected again, is in
\* the warehouse, or a newer one is.
Delivered(d, i) ==
  (store[d][i] # NoRow /\ Stamp(i, store[d][i]) <= pushMark[d]) => Covers(wh[i], store[d][i])

\* No row is left behind a watermark that keeps it from being sent, whatever fails
\* or dies, and whatever is written during the run.
NothingUnsent == \A d \in Devices, i \in plain : Delivered(d, i)

\* "At-least-once delivery" (docs/TECHNICAL_DETAILS.md), of any row.
AllDelivered == \A d \in Devices, i \in Ids : Delivered(d, i)

\* Tasks are pulled by the writers' clocks ("skipped until edited again"), and a
\* pull that left edges waiting without a bound may have passed a transaction.
PullsByArrival == table # "tasks" /\ ~hasty

\* A warehouse row that arrived at or before a device's pull watermark has been
\* merged there: the pull never jumps over a transaction still in flight, nor over
\* an edge that waits for its memories.
NothingUnpulled ==
  PullsByArrival => \A d \in Devices, i \in Ids :
    (wh[i] # NoRow /\ arrived[i] <= pullMark[d]) => Covers(store[d][i], wh[i])

\* Both watermarks of every device have passed everything there is.
Settled ==
  \A d \in Devices, i \in Ids :
    /\ pushMark[d] > 0 /\ pullMark[d] > 0
    /\ writing[d] = {}
    /\ store[d][i] # NoRow => Stamp(i, store[d][i]) <= pushMark[d]
    /\ arrived[i] <= pullMark[d]

\* No row of a device or of the warehouse gives way to a version written earlier.
NeverOlder ==
  /\ \A d \in Devices, i \in plain :
       store[d][i] # NoRow => store'[d][i].ver >= store[d][i].ver
  /\ \A i \in plain : wh[i] # NoRow => wh'[i].ver >= wh[i].ver

\* The newer one wins: no run replaces a row of a device or of the warehouse by
\* a version that was written earlier.
NoRegress == [][NeverOlder]_vars

\* The version of a row that promises something; 0 for none.
VersionOf(i, row) == IF i \in plain /\ row # NoRow THEN row.ver ELSE 0

\* The rows on their way to the warehouse or from it.
UnderWay(i) == UNION {{outgoing[d][i], sent[d][i], incoming[d][i]} : d \in Devices}

Held == [d \in Devices |-> [i \in Ids |-> VersionOf(i, store[d][i])]]
Shared == [i \in Ids |-> VersionOf(i, wh[i])]
Moving == [i \in Ids |-> {VersionOf(i, row) : row \in UnderWay(i)} \ {0}]

Register == INSTANCE LastWriterWins WITH Keys <- Ids, Versions <- Times,
              held <- Held, shared <- Shared, moving <- Moving

\* The sync implements a register of which the last writer wins: it makes no
\* version, every one that arrives is newer than the one it replaces, and all that
\* a failure can do is lose copies.
ImplementsRegister == Register!Spec

\* Once no watermark leaves anything to exchange, all stores hold the same version
\* of every row, the newest there is: nobody would ever learn of another.
SettledAgree ==
  PullsByArrival /\ Settled =>
    \A d \in Devices, i \in plain :
      /\ \A e \in Devices : store[d][i] = store[e][i]
      /\ \A v \in Register!Anywhere(i) : v <= Held[d][i]
=============================================================================
