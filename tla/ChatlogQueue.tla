---------------------------- MODULE ChatlogQueue ----------------------------
(***************************************************************************)
(* The write queue of a process that captures chat turns                   *)
(* (bin/chatlog_core.py).  chatlog_write puts a row in a bounded queue;     *)
(* _flush_once takes a batch, inserts it on a thread, one commit for each   *)
(* target store, spills it to the disk when that fails, and queues it again *)
(* when that fails too.  A process ends by cancelling its flush loop, which *)
(* drains the queue, and by a last drain once its event loop is closed.     *)
(*                                                                         *)
(* Between two awaits nothing else of the same process runs.  The order of  *)
(* the queue is left out: a batch is any part of it.                        *)
(***************************************************************************)
EXTENDS Naturals, FiniteSets

CONSTANTS
    Turns,      \* chat turns
    Procs,      \* processes; one that ended is started again
    Targets,    \* the stores turns are captured for (_db_path)
    TargetOf,   \* TargetOf[t]: the store of turn t
    Capacity,   \* Capacity[p]: queue_max_depth in the configuration p read
    FlushRows,  \* FlushRows[p]: queue_flush_rows
    MaxMishaps  \* bound: failed inserts, spills and saves, and deaths, together

ASSUME QueueAssumption ==
    /\ TargetOf \in [Turns -> Targets]
    /\ {Capacity, FlushRows} \subseteq [Procs -> Nat \ {0}] /\ MaxMishaps \in Nat

VARIABLES
    servers,  \* the processes that serve tool calls; the others are hooks
    stage,    \* what each process is: down, up, stopping (its flush loop is
              \* cancelled) or exiting (its event loop is closed)
    queue,    \* _QUEUE of each process
    step,     \* where _flush_once of each process is
    batch,    \* the batch _flush_once took
    stuck,    \* the last pass moved nothing
    thread,   \* a batch whose flush was cancelled while its insert ran
    store,    \* rows in their store
    spill,    \* rows in spill files
    copies,   \* how many rows of a turn were made, each with an id of its own
    refused,  \* history: rows given up when neither store nor disk worked
    unwatched,\* history: rows whose flush was cancelled while their insert ran
    deaths,   \* history: processes that died
    mishaps

memory == <<queue, step, batch, stuck, thread>>
disk == <<store, spill>>
given == <<refused, unwatched>>
queueVars == <<servers, stage, memory, disk, copies, given, deaths, mishaps>>

Stages == {"down", "up", "stopping", "exiting"}

\* A row is a turn with the id that this capture of the turn was given.
Rows == Turns \X (Nat \ {0})
Turn(r) == r[1]
TurnsOf(rows) == {Turn(r) : r \in rows}

Durable == store \cup spill

QueueInit ==
    /\ servers \in SUBSET Procs
    /\ stage = [p \in Procs |-> "down"]
    /\ queue = [p \in Procs |-> {}] /\ batch = [p \in Procs |-> {}] /\ thread = [p \in Procs |-> {}]
    /\ step = [p \in Procs |-> "idle"] /\ stuck = [p \in Procs |-> FALSE]
    /\ store = {} /\ spill = {}
    /\ copies = [t \in Turns |-> 0]
    /\ refused = {} /\ unwatched = {} /\ deaths = 0 /\ mishaps = 0

Mishap == mishaps < MaxMishaps /\ mishaps' = mishaps + 1
Smooth == UNCHANGED mishaps

\* A call fails because of c, or else by mishap.
FailsBy(c) == IF c THEN Smooth ELSE Mishap

Least(a, b) == IF a < b THEN a ELSE b

Set(f, p, x) == f' = [f EXCEPT ![p] = x]

-----------------------------------------------------------------------------
(* chatlog_write_impl and chatlog_write_bulk_impl. *)

NewRow(t) == <<t, copies[t] + 1>>

\* put_nowait(queued).
Queued(p, t) ==
    /\ Cardinality(queue[p]) < Capacity[p]
    /\ Set(queue, p, queue[p] \cup {NewRow(t)}) /\ Smooth /\ UNCHANGED spill

\* The queue is full, and the row is spilled.
Spilled(p, t) ==
    /\ Cardinality(queue[p]) >= Capacity[p]
    /\ spill' = spill \cup {NewRow(t)} /\ Smooth /\ UNCHANGED queue

\* The queue is full, and _spill_batch raises; the row may be on the disk.
Rejected(p, t) ==
    /\ Cardinality(queue[p]) >= Capacity[p] /\ Mishap
    /\ spill' \in {spill, spill \cup {NewRow(t)}} /\ UNCHANGED queue

\* Capturing a turn: the row has an id, whatever becomes of it.
Capture(p, t) ==
    /\ stage[p] = "up" /\ step[p] # "spill"
    /\ copies' = [copies EXCEPT ![t] = @ + 1]
    /\ UNCHANGED <<servers, store, deaths>>

-----------------------------------------------------------------------------
(* _flush_once. *)

\* A batch of at most queue_flush_rows rows leaves the queue.
Take(p) ==
    /\ step[p] = "idle" /\ queue[p] # {}
    /\ \E b \in SUBSET queue[p] :
          /\ Cardinality(b) = Least(Cardinality(queue[p]), FlushRows[p])
          /\ Set(batch, p, b) /\ Set(queue, p, queue[p] \ b)
    /\ Set(step, p, "insert") /\ Set(stuck, p, FALSE)
    /\ UNCHANGED <<servers, stage, thread, disk, copies, given, deaths, mishaps>>

\* _executemany_insert commits the rows of one store after the other; a row that
\* is there already makes the insert of its store fail.  The rows of a hook are
\* all for one store.
Together(p, r, s) == p \notin servers \/ TargetOf[Turn(r)] = TargetOf[Turn(s)]

Committed(p, rows) ==
    {done \in SUBSET rows :
        /\ done \cap store = {}
        /\ \A r \in done, s \in rows : Together(p, r, s) => s \in done}

InsertLands(p) ==
    /\ step[p] = "insert" /\ batch[p] \in Committed(p, batch[p])
    /\ store' = store \cup batch[p]
    /\ Set(batch, p, {}) /\ Set(step, p, "idle")
    /\ UNCHANGED <<servers, stage, queue, stuck, thread, spill, copies, given, deaths, mishaps>>

InsertFails(p) ==
    /\ step[p] = "insert" /\ FailsBy(batch[p] \cap store # {})
    /\ \E done \in Committed(p, batch[p]) \ {batch[p]} : store' = store \cup done
    /\ Set(step, p, "spill")
    /\ UNCHANGED <<servers, stage, queue, batch, stuck, thread, spill, copies, given, deaths>>

SpillLands(p) ==
    /\ step[p] = "spill"
    /\ spill' = spill \cup batch[p]
    /\ Set(batch, p, {}) /\ Set(step, p, "idle")
    /\ UNCHANGED <<servers, stage, queue, stuck, thread, store, copies, given, deaths, mishaps>>

\* What a pass without progress gives up, unless the flush loop tries again.
GivenUp(p) == IF p \in servers /\ stage[p] = "up" THEN batch[p] ELSE batch[p] \cup queue[p]

\* Mutant of ImplementsCapturedTurns: as before a failed batch was queued again.
NotQueuedAgain(p, back) == back = {}

\* The whole batch if there is room, or as much of it as fills the queue.
QueuedAgain(p, back) ==
    LET total == Cardinality(queue[p]) + Cardinality(back) IN
    total = Capacity[p] \/ (total < Capacity[p] /\ back = batch[p])

\* A part of the batch is in the spill file when _spill_batch raises.  The batch
\* is queued again; the rows that find the queue full are lost.
SpillFails(p) ==
    /\ step[p] = "spill" /\ Mishap
    /\ \E part \in SUBSET batch[p] : spill' = spill \cup part
    /\ \E back \in SUBSET batch[p] : QueuedAgain(p, back) /\ Set(queue, p, queue[p] \cup back)
    /\ Set(batch, p, {}) /\ Set(step, p, "idle") /\ Set(stuck, p, TRUE)
    /\ refused' = refused \cup GivenUp(p)
    /\ UNCHANGED <<servers, stage, thread, store, copies, unwatched, deaths>>

FlushEnds(p) == InsertLands(p) \/ InsertFails(p) \/ SpillLands(p) \/ SpillFails(p)

-----------------------------------------------------------------------------
(* The end of a process. *)

\* The flush loop is cancelled.  An insert under way goes on, or never starts,
\* and nobody looks at how it ends: if it fails, its rows are neither spilled nor
\* queued again, though neither was tried.
Cancelled(p) ==
    /\ stage[p] = "up" /\ step[p] # "spill"
    /\ Set(stage, p, "stopping")
    /\ Set(thread, p, batch[p])
    /\ unwatched' = unwatched \cup batch[p] /\ UNCHANGED refused
    /\ Set(batch, p, {}) /\ Set(step, p, "idle") /\ Set(stuck, p, FALSE)

\* _drain_all goes on until the queue is empty or a pass moves nothing.
MoreToDrain(p) == queue[p] # {} /\ ~stuck[p]

DrainAll(p) == stage[p] \in {"stopping", "exiting"} /\ MoreToDrain(p) /\ Take(p)

ThreadEnds(p) ==
    /\ thread[p] # {}
    /\ \E done \in Committed(p, thread[p]) :
          /\ FailsBy(done = thread[p] \/ thread[p] \cap store # {})
          /\ store' = store \cup done
    /\ Set(thread, p, {})
    /\ UNCHANGED <<servers, stage, queue, step, batch, stuck, spill, copies, given, deaths>>

\* The event loop waits for its threads and is closed.
LoopCloses(p) ==
    /\ stage[p] = "stopping" /\ step[p] = "idle" /\ ~MoreToDrain(p) /\ thread[p] = {}
    /\ Set(stage, p, "exiting") /\ Set(stuck, p, FALSE)
    /\ UNCHANGED <<servers, queue, step, batch, thread, disk, copies, given, deaths, mishaps>>

\* _final_drain_sync is over.
Exit(p) ==
    /\ stage[p] = "exiting" /\ step[p] = "idle" /\ ~MoreToDrain(p)
    /\ Set(stage, p, "down") /\ Set(queue, p, {}) /\ Set(stuck, p, FALSE)
    /\ UNCHANGED <<servers, step, batch, thread, disk, copies, given, deaths, mishaps>>

End(p) == DrainAll(p) \/ ThreadEnds(p) \/ LoopCloses(p) \/ Exit(p)

\* The process dies; of an insert under way some stores may have committed.
Killed(p) ==
    /\ stage[p] # "down" /\ Mishap
    /\ deaths' = deaths + 1
    /\ LET spilling == IF step[p] = "spill" THEN batch[p] ELSE {} IN
          /\ \E done \in Committed(p, (batch[p] \cup thread[p]) \ spilling) : store' = store \cup done
          /\ \E part \in SUBSET spilling : spill' = spill \cup part
    /\ Set(stage, p, "down") /\ Set(queue, p, {}) /\ Set(batch, p, {}) /\ Set(thread, p, {})
    /\ Set(step, p, "idle") /\ Set(stuck, p, FALSE)
    /\ UNCHANGED <<servers, copies, given>>

\* chatlog_embed_sweeper drains the spill files.
SpillDrained(r) ==
    /\ r \in spill
    /\ store' = store \cup {r} /\ spill' = spill \ {r}
    /\ UNCHANGED <<servers, stage, memory, copies, given, deaths, mishaps>>

-----------------------------------------------------------------------------
(* A server: tools write turns, the flush loop flushes, and it may end. *)

Starts(p) ==
    /\ stage[p] = "down" /\ Set(stage, p, "up")
    /\ UNCHANGED <<servers, memory, disk, copies, given, deaths, mishaps>>

\* A tool writes a turn once.
Write(p, t) ==
    /\ p \in servers /\ copies[t] = 0
    /\ Capture(p, t) /\ (Queued(p, t) \/ Spilled(p, t) \/ Rejected(p, t))
    /\ UNCHANGED <<stage, step, batch, stuck, thread, given>>

\* Mutant of QueueEmpties: the loop does not look at the age of the last flush.
FlushWhenLong(p) ==
    p \in servers /\ stage[p] = "up" /\ Cardinality(queue[p]) >= FlushRows[p] /\ Take(p)

\* _flush_loop, when the queue is long or its interval has passed.
FlushLoop(p) == p \in servers /\ stage[p] = "up" /\ Take(p)

Stop(p) ==
    /\ p \in servers /\ Cancelled(p)
    /\ UNCHANGED <<servers, queue, disk, copies, deaths, mishaps>>

-----------------------------------------------------------------------------
(* What the queue promises. *)

InMemory(p) == queue[p] \cup batch[p] \cup thread[p]

Captured == INSTANCE CapturedTurns WITH
    pending <- [p \in Procs |-> InMemory(p)],
    durable <- Durable,
    serving <- [p \in Procs |-> p \in servers /\ stage[p] = "up"]
=============================================================================
