---------------------------- MODULE ChatlogIngest ----------------------------
(***************************************************************************)
(* The hooks that capture a session's transcript (bin/chatlog_ingest.py),   *)
(* beside the servers of ChatlogQueue, whose write queue they use.  A hook  *)
(* reads the whole transcript, takes the cursor's lock, drops the turns the *)
(* cursor has, queues the others, drains the queue, and adds to the cursor  *)
(* the turns whose rows left it.  The cursor has no part in the commit of   *)
(* the rows.                                                               *)
(*                                                                         *)
(* One session; every turn has a uuid and something visible to store.      *)
(***************************************************************************)
EXTENDS ChatlogQueue

VARIABLES
    said,       \* the turns of the transcript
    cursor,     \* seen_uuids of the session
    readable,   \* the cursor file holds JSON
    lock,       \* the holder of the cursor's lock
    hook,       \* where each hook is in _ingest
    items,      \* the turns a hook still has to queue
    loaded,     \* the cursor as a hook read it
    rows,       \* the rows a hook queued: row_of
    retold,     \* history: turns a hook left out of the cursor, or the cursor lost
    overlapped  \* history: a live hook's lock was taken over

cursorVars == <<cursor, readable>>
local == <<items, loaded, rows>>
history == <<retold, overlapped>>
ingestVars == <<said, cursorVars, lock, hook, local, history>>
vars == <<queueVars, ingestVars>>

NoHook == "none"

ASSUME HooksAssumption == NoHook \notin Procs

HookSteps == {"idle", "wait", "queue"}

Init ==
    /\ QueueInit
    /\ said = {} /\ cursor = {} /\ readable = TRUE /\ lock = NoHook
    /\ hook = [p \in Procs |-> "idle"]
    /\ items = [p \in Procs |-> {}] /\ loaded = [p \in Procs |-> {}] /\ rows = [p \in Procs |-> {}]
    /\ retold = {} /\ overlapped = FALSE

At(p, s) == hook[p] = s
To(p, s) == Set(hook, p, s)

\* _release_lock_file unlinks the lock's file, whoever made it.
Released == lock' = NoHook

\* A waiter reclaims the file of a dead process, and leaves that of another.
Reclaimed(p) == lock' = IF lock = p THEN NoHook ELSE lock

\* The run is over, its rows of no use to the next one.
Over(p) == To(p, "idle") /\ Set(items, p, {}) /\ Set(loaded, p, {}) /\ Set(rows, p, {})

\* The host says something in the session.
Say(t) ==
    /\ t \notin said /\ copies[t] = 0
    /\ said' = said \cup {t}
    /\ UNCHANGED <<queueVars, cursorVars, lock, hook, local, history>>

-----------------------------------------------------------------------------
(* _ingest and _ingest_locked. *)

\* A hook fires and parses the transcript, before it has the lock.
Fire(p) ==
    /\ p \notin servers /\ Starts(p) /\ At(p, "idle")
    /\ To(p, "wait") /\ Set(items, p, said)
    /\ UNCHANGED <<said, cursorVars, lock, loaded, rows, history>>

\* Mutant of LockTimesOut: the hook goes on without the lock.
GoesOnUnlocked(p) ==
    /\ At(p, "wait") /\ lock # NoHook /\ readable
    /\ Set(loaded, p, cursor) /\ Set(items, p, items[p] \ cursor) /\ To(p, "queue")
    /\ UNCHANGED <<queueVars, said, cursorVars, lock, rows, history>>

\* file_lock times out: the hook fails, having captured nothing.
LockTimesOut(p) ==
    /\ At(p, "wait") /\ lock # NoHook
    /\ Over(p) /\ Set(stage, p, "down")
    /\ UNCHANGED <<servers, memory, disk, copies, given, deaths, mishaps>>
    /\ UNCHANGED <<said, cursorVars, lock, history>>

\* Mutant of StoredOnce: the cursor is not looked at.
All(p) == items[p]

\* _filter_new_items.
New(p) == items[p] \ cursor

\* Under the lock, the turns the cursor has are dropped.
Load(p) ==
    /\ At(p, "wait") /\ lock = NoHook /\ readable
    /\ lock' = p /\ Set(loaded, p, cursor) /\ Set(items, p, New(p)) /\ To(p, "queue")
    /\ UNCHANGED <<queueVars, said, cursorVars, rows, history>>

\* An unreadable cursor is moved aside and the run refused; the next run starts
\* a cursor of its own.  The move may fail.
Refuse(p) ==
    /\ At(p, "wait") /\ lock = NoHook /\ ~readable
    /\ Over(p) /\ Set(stage, p, "down")
    /\ \/ readable' = TRUE /\ cursor' = {} /\ Smooth
       \/ UNCHANGED cursorVars /\ Mishap
    /\ UNCHANGED <<servers, memory, disk, copies, given, deaths>>
    /\ UNCHANGED <<said, lock, history>>

\* chatlog_write_bulk_impl, one turn a call.
Enqueue(p, t) ==
    /\ At(p, "queue") /\ t \in items[p]
    /\ Capture(p, t) /\ (Queued(p, t) \/ Spilled(p, t))
    /\ Set(items, p, items[p] \ {t}) /\ Set(rows, p, rows[p] \cup {NewRow(t)})
    /\ UNCHANGED <<stage, step, batch, stuck, thread, given, said, cursorVars, lock, hook, loaded, history>>

\* The queue is full and the spill fails: the exception ends the run, and what is
\* queued goes to its store in the drain of the exit.
Abort(p, t) ==
    /\ At(p, "queue") /\ t \in items[p]
    /\ Capture(p, t) /\ Rejected(p, t)
    /\ Cancelled(p) /\ Over(p) /\ Released
    /\ retold' = retold \cup TurnsOf(rows[p]) \cup {t}
    /\ UNCHANGED <<said, cursorVars, overlapped>>

\* _drain_queue: the flush task is cancelled, before it ever ran, and the hook
\* flushes the queue itself.
DrainQueue(p) == At(p, "queue") /\ items[p] = {} /\ MoreToDrain(p) /\ Take(p) /\ UNCHANGED ingestVars

Drained(p) == At(p, "queue") /\ items[p] = {} /\ step[p] = "idle" /\ ~MoreToDrain(p)

\* Mutant of CursorIsDurable: what is still queued is not held back.
NoneHeldBack(p) == rows[p]

\* What a drain without progress leaves in the queue is pending, and not put in
\* the cursor, though a part of it may be in the spill file.
Landed(p) == rows[p] \ queue[p]
Told(p) == queue[p] \cap Durable

\* _commit_cursor writes the cursor that was loaded with the turns that landed; it
\* may fail.  The queue is empty when the process exits.
Commit(p) ==
    /\ Drained(p)
    /\ \/ /\ Landed(p) # {} /\ Smooth
          /\ cursor' = loaded[p] \cup TurnsOf(Landed(p)) /\ readable' = TRUE
          /\ retold' = retold \cup TurnsOf(Told(p))
       \/ /\ Landed(p) = {} /\ Smooth
          /\ retold' = retold \cup TurnsOf(Told(p)) /\ UNCHANGED cursorVars
       \/ /\ Landed(p) # {} /\ Mishap
          /\ retold' = retold \cup TurnsOf(rows[p]) /\ UNCHANGED cursorVars
    /\ Over(p) /\ Released /\ Set(stage, p, "down")
    /\ Set(queue, p, {}) /\ Set(stuck, p, FALSE)
    /\ UNCHANGED <<servers, step, batch, thread, disk, copies, given, deaths, said, overlapped>>

\* The hook dies; file_lock finds its holder dead.
Die(p) ==
    /\ Killed(p) /\ Over(p) /\ Reclaimed(p)
    /\ retold' = retold \cup TurnsOf(rows[p])
    /\ UNCHANGED <<said, cursorVars, overlapped>>

\* The lock is taken over from a holder that goes on: what Mutex calls Break.
Displace(p) ==
    /\ lock = p /\ Mishap
    /\ lock' = NoHook /\ overlapped' = TRUE
    /\ UNCHANGED <<servers, stage, memory, disk, copies, given, deaths>>
    /\ UNCHANGED <<said, cursorVars, hook, local, retold>>

\* Something else damages the cursor file.
Damage ==
    /\ readable /\ Mishap
    /\ readable' = FALSE /\ retold' = retold \cup cursor
    /\ UNCHANGED <<servers, stage, memory, disk, copies, given, deaths>>
    /\ UNCHANGED <<said, cursor, lock, hook, local, overlapped>>

Ingest(p) ==
    \/ Fire(p) \/ LockTimesOut(p) \/ Load(p) \/ Refuse(p)
    \/ (\E t \in Turns : Enqueue(p, t) \/ Abort(p, t))
    \/ DrainQueue(p) \/ Commit(p)

Serve(p) ==
    /\ (p \in servers /\ Starts(p)) \/ (\E t \in Turns \ said : Write(p, t)) \/ FlushLoop(p) \/ Stop(p)
    /\ UNCHANGED ingestVars

\* What every process does by itself.
Runs(p) == (FlushEnds(p) \/ End(p)) /\ UNCHANGED ingestVars

Next ==
    \/ \E p \in Procs : Ingest(p) \/ Serve(p) \/ Runs(p) \/ Die(p) \/ Displace(p)
    \/ (\E r \in Durable : SpillDrained(r)) /\ UNCHANGED ingestVars
    \/ Damage \/ \E t \in Turns : Say(t)

Spec == Init /\ [][Next]_vars

\* Hooks fire again and again, flush loops and drains run.
Fairness ==
    \A p \in Procs : WF_vars(Ingest(p)) /\ WF_vars(Runs(p)) /\ WF_vars(FlushLoop(p) /\ UNCHANGED ingestVars)

FairSpec == Spec /\ Fairness

-----------------------------------------------------------------------------
(* What the hooks promise. *)

TypeOK ==
    /\ servers \subseteq Procs /\ stage \in [Procs -> Stages]
    /\ {queue, batch, thread, rows} \subseteq [Procs -> SUBSET Rows]
    /\ step \in [Procs -> {"idle", "insert", "spill"}] /\ stuck \in [Procs -> BOOLEAN]
    /\ store \cup spill \cup refused \cup unwatched \subseteq Rows
    /\ copies \in [Turns -> Nat] /\ deaths \in Nat /\ mishaps \in 0 .. MaxMishaps
    /\ said \cup cursor \cup retold \subseteq Turns
    /\ readable \in BOOLEAN /\ overlapped \in BOOLEAN /\ lock \in Procs \cup {NoHook}
    /\ hook \in [Procs -> HookSteps] /\ {items, loaded} \subseteq [Procs -> SUBSET Turns]

\* CapturedTurns, for servers and hooks together: no row leaves the memory of a
\* process unless it is durable, except by a death, when store and disk both
\* refused it and its process ends or its queue is full, or when its flush was
\* cancelled at its insert by the end of its process.
ImplementsCapturedTurns == Captured!Spec

\* What FileLock promises (Mutex) of the cursor's lock holds of the hooks under it:
\* whoever times out, breaks off or dies, one hook at a time is between its read of
\* the cursor and the end of its commit, until a live hook's lock is taken over.
CursorLock == INSTANCE Mutex WITH holders <- {p \in Procs : At(p, "queue")}, broken <- overlapped

HooksTakeTurns == CursorLock!Spec

\* The cursor runs ahead of no row: a turn no later run will look at again is in
\* its store or in a spill file ("Commit the cursor ONLY for rows that are durable").
CursorIsDurable == cursor \subseteq TurnsOf(Durable)

\* A turn is stored once, however often the transcript is read, unless the run
\* that stored it broke off before the cursor had it, the cursor was damaged, or
\* two hooks were under the lock at once.
StoredOnce ==
    overlapped \/ \A r, s \in Durable : Turn(r) = Turn(s) /\ r # s => Turn(r) \in retold

\* A turn of the transcript is captured in the end, whatever broke off on the way.
CapturedInTheEnd ==
    \A t \in Turns : (t \in said /\ servers # Procs) ~> t \in TurnsOf(Durable)

\* No row stays in the memory of a process for ever.
QueueEmpties == \A p \in Procs : InMemory(p) # {} ~> InMemory(p) = {}
=============================================================================
