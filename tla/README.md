# m3-memory: a verification project

m3-memory is a memory server for coding agents. It has no central process. An MCP
server per agent session, hooks that capture chat turns, a background loop, timers
and command-line tools share SQLite databases and a handful of lock, marker and spill
files on one machine, and a sync job exchanges rows with a PostgreSQL warehouse that
other machines use too. What can go wrong is therefore mostly between processes: two
of them act on the same row or file in an order nobody wrote a test for, one dies
halfway, or one goes on with what it read before another changed it.

The project has eight models, each of one place where this happens, and five abstract
specifications of what such a place promises. TLC checks the models on small
instances, and theorems about them are proved with TLAPS for every value of their
constants. This file says how the models correspond to the code, what the checks and
the proofs show, what they rest on, and what is left out.

Contents: [the system](#the-system) · [the models](#the-models) ·
[runs](#runs) · [fairness](#fairness) · [proofs](#proofs) ·
[disagreements](#disagreements-between-the-code-and-what-is-said-of-it) ·
[not modelled](#not-modelled) · [plan](#plan)

## The system

Paths are below `src/`. "Modelled by" names the module, if there is one.

**Cross-process file lock**: `bin/m3_core/locking.py`, modelled by FileLock.
*State:* a file at the lock's path, its contents (host and PID of the owner), its mtime.
*Operations:* `file_lock` (create with O_CREAT|O_EXCL, stamp, run the body, unlink),
`_reclaim_stale_lock` by those who find the file there, `migration_lock`.
*Used by* migrations, writers of the configuration and of the secrets file, the audit trail,
the chat log's spill and state files, and the ingest cursors. *Hard:* a waiter decides on a stamp and an mtime read in two
system calls, then acts on a name; owners die with the lock in hand. *Correct when*
two live processes never hold it together, only the locks of the dead or very old ones
are deleted, and a dead owner does not wedge those who come after.

**Warehouse sync**: `bin/pg_sync.py`, `bin/pg_fdw_sync.py`; `memory_items`, `memory_relationships` and
`tasks` modelled by WarehouseSync. *State:* the local tables, the warehouse tables with an arrival stamp
per row, a push and a pull watermark per device, a lock row. *Operations:* a run that
pushes and pulls table after table in one warehouse transaction, with a savepoint per
step. *Interacts with* every writer of the local store, which goes on meanwhile, and
with runs of other devices. *Hard:* a watermark is a promise about rows that are being
written while it is computed; two databases commit one after the other. *Correct when*
no row is behind a watermark without having been exchanged, stores end up equal, and
nothing newer is overwritten by something older. Embeddings, secrets (with `version_guard`),
the manifest path and the server-side FDW path follow the same scheme with
guards of their own and are not modelled yet.

**Enrichment groups**: `bin/enrichment_state.py`, `bin/m3_enrich.py`, modelled by
EnrichmentGroups. *State:* a row per conversation in `enrichment_groups`: status,
attempts, claim, content hash, backoff. *Operations:* recover stale claims, enroll, list,
claim, mark done, mark failed. *Interacts with* the chat log (whose turns change), the
model provider (which refuses, fails or answers late) and with itself: the loop's pass
and a command line may run together. *Hard:* nothing but the rows keeps two runs apart,
a claim may time out under a live worker. *Correct when* a conversation is put to the
model by one run at a time, what is marked done is done with the content the row names,
attempts are bounded, and no group is left that is neither terminal nor ever listed.

**Chat log queue and hooks**: `bin/chatlog_core.py`, `bin/chatlog_ingest.py`, modelled by
ChatlogQueue and ChatlogIngest. *State:* per process a bounded `asyncio.Queue` and the batch
taken from it; per session a cursor file with the turns captured so far. *Operations:* write,
the flush loop, `_flush_once`, `_drain_all`, `_final_drain_sync` at exit, a hook's ingest under the
cursor's file lock. *Hard:* a flush is cancelled while its insert runs on a thread, an insert commits
for one store and fails for the next, a hook dies between drain and cursor. *Correct when* an
accepted turn is written, spilled or still queued, the cursor runs ahead of no row, and a turn is
captured once.

**Chat log spill and drain**: `_spill_batch` of `bin/chatlog_core.py`,
`bin/chatlog_embed_sweeper.py`, modelled by SpillDrain. *State:* the day file in the spill
directory, the files claimed from it, `quarantine/` with its reasons, attempt counts in
sidecar files. *Operations:* append a batch; drain: retry the quarantine once a day,
claim, read, write per store, park, rewrite or remove, count, quarantine. *Interacts with*
the chat log queue, the loop, the sweeper, other databases. *Hard:* several processes
drain the same directory and only renames keep them apart; each of a dozen system calls
can fail or be the last one. *Correct when* no spilled turn is dropped and each reaches
its store in the end.

**Agents, tasks and notifications**: `bin/memory/orchestration.py`,
`bin/m3_notification_waiter.py`, `bin/m3_core/doorbell.py`; notifications and their waiter
modelled by Notifications and NotificationWaiter. *State:* notifications with received, read and failed
stamps and a lease (holder, token, deadline, attempts), in the main store and in the dispatch
store; a waiter's baseline and change token; doorbell files; agents with heartbeats, tasks with a
transition table. *Operations:* notify, poll, claim, renew, complete, fail, sweep, ack; the waiter's
receipt sweep, baseline, wait, report. *Hard:* a lease lapses while its holder works; a store cannot
be read in one pass and can in the next; something arrives between two reads. *Correct when* a message is
worked on by one agent at a time, closed once by the attempt that has it, never stranded
by a dead agent, and reported as news once.

**Halt and quiesce**: `bin/m3_halt.py`, with `_quiesce_db_writers` of `m3_memory/setup_wizard.py` and
the pause of `bin/m3_cognitive_loop.py`, modelled by HaltProtocol. *State:* the `HALT_m3` file with its
owner, a registry file per process. *Operations:* raise and lower the halt, register, deregister,
look for writers (registry and command lines), wait for them to leave, void the halt of a dead owner.
*Hard:* writers start, pause and come back while an installer looks at them one after the other, and two
installers share one file. *Correct when* no loop works while an installer relies on the halt, and no loop
stays paused for ever.

**Circuit breaker and failover**: `bin/m3_core/context.py`, `bin/llm_failover.py`.
*State:* per service a count of failures in a row and a time until which calls are
refused. *Hard:* answers that come late, counted against the new state. *Correct when* a
dead service is not hammered and a recovered one is used again.

**Governor and cognitive loop**: `bin/m3_core/governor.py`, `bin/m3_cognitive_loop.py`. *State:*
load thresholds, the time of the last interaction, when each pass ran. *Correct when*
no pass starves and the passes yield to an interactive user.

**Memory write path**: `bin/memory/write.py`, `bin/memory_maintenance.py` (`memory_dedup_impl`),
`bin/embed_backfill.py`, modelled by Supersession. *State:* memories with `is_deleted`, vectors, `supersedes` edges, a
flag in a memory's metadata for a check that is owed. *Operations:* write and check for contradictions, check later
for a memory that got its vector later, replace by new content or by an existing memory, close duplicates, delete, bring
back. *Interacts with* every agent of the machine and, over the sync, of others. *Hard:* each path decides on what it
read and writes in later transactions, with one conditional UPDATE between them; a sweep dies between vector, check and
flag. *Correct when* a memory is superseded once, of two replacements for it one stays, two memories that contradict
each other do not both stay, something stays, and a check that is owed is made some day.

**Entity, fact and access-stamp queues**: `bin/memory/entity.py`, `enrich.py`, `db.py`. *State:* rows to extract
from, buffered stamps. *Correct when* an owed extraction is done some day.

**File memory**: `bin/files_memory/`. *State:* file nodes with versions, chunks,
facts, watch cooldowns. *Correct when* there is one current version per file and nothing
refers to chunks of an older one.

**Secrets**: `bin/auth_utils.py` and the secrets step of the sync. *State:* encrypted
values with a version. *Correct when* a rotation is not undone by a stale copy.

**Search**, **dialects and pools**, **migrations**, and the **tool catalogue, MCP server,
dashboard, doctor, wiki and installers** keep little state of their own: they compute
over, translate for, or render the components above.

Hooks and sessions write turns to the queue; the queue writes the chat log or spills;
the drain brings the spill back. The loop runs the drain, the enrichment, the extraction and the sync
as passes, unless a halt is up. Enrichment reads the chat log and writes memories. Sync reads all of them.
The file lock guards migrations, configuration, spill files and cursors; halt and quiesce stop everybody.

`PROJECT.json` lists, next to the components, the hazards of this code at their lines, each
with the properties that would show it going wrong or the reason why none does yet.

## The models

Each component has a module that is translated from its source, an MC module with the
small instances, and a module with its proofs. Five of them implement an abstract
specification, which says what the component promises and nothing of how:

| component | model | promises | instances | proofs |
| --- | --- | --- | --- | --- |
| file lock | FileLock | Mutex | FileLockMC | FileLockProofs |
| warehouse sync | WarehouseSync | LastWriterWins | WarehouseSyncMC | WarehouseSyncProofs |
| enrichment groups | EnrichmentGroups | | EnrichmentGroupsMC | EnrichmentGroupsProofs |
| chat log queue | ChatlogQueue, under ChatlogIngest | CapturedTurns | ChatlogIngestMC | ChatlogIngestProofs |
| hooks | ChatlogIngest | Mutex, of the cursor's lock | | |
| chat log spill | SpillDrain | SpillShelf | SpillDrainMC | SpillDrainProofs |
| notifications | Notifications, under NotificationWaiter | MessageQueue | NotificationsMC | NotificationProofs |
| waiter | NotificationWaiter | | | |
| halt and quiesce | HaltProtocol | | HaltProtocolMC | HaltProofs |
| memory write path | Supersession | | SupersessionMC | SupersessionProofs |

ChatlogIngest and NotificationWaiter extend the module of the component they use and add their own
variables: their next-state relations interleave the steps of both. The other components are modelled apart; they
share no state but database tables each of them uses in its own way. What one takes from
another is an assumption that the other's model covers:

* SpillDrain takes an append and a claim, which the code makes under a `file_lock`, as exclusive.
* ChatlogIngest takes the cursor's lock as a variable, `lock`, that may be broken (`Displace`). The
  hooks between their read of the cursor and the end of its commit are Mutex's `holders`, and
  `overlapped` is its `broken` (`HooksTakeTurns`): what ChatlogIngest needs of the lock is what FileLock
  is shown to implement.
* ChatlogQueue's `spill` is a set of rows from which any one may move to its store
  (`SpillDrained`); that the files behind it drop nothing is SpillDrain.

Definitions that differ from the code on purpose are marked "Mutant of ..." or stand right before the
definition they vary, and are used by no action: put in the place of that definition, each shows that a
property notices.

### FileLock

One action per system call, since any process may run between two of them.

| code | model |
| --- | --- |
| the file at the lock's path | `lock`, an inode number or `NoFile` |
| its contents, host and PID | `stamped[f]`; `Stamp(f)` is its maker once it is stamped |
| its mtime | the pair of inode and "stamped": both change together |
| `os.open(O_CREAT\|O_EXCL)` succeeds or raises | `Create`, `Exists` |
| `LockTimeout`, or a `PermissionError` for too long | `GiveUp` |
| `os.write` of the stamp, best effort | `WriteStamp` |
| body, `os.close`, `_release_lock_file` | `LeaveBody`, `Unlink` |
| `_reclaim_stale_lock`: read, stat, judge | `ReadStamp`, `Stat` (an error leaves 0.0), `Judge` with `Stale` |
| its read fails: the file is gone, or cannot be read ("don't touch it") | `NoStamp` |
| its `os.replace`, the check of what was renamed, `os.link` | `Rename`, `Verify` with `AsJudged`, `Restore` |

`windows`, chosen in the initial state, is the sharing rules: an open file can be neither renamed nor deleted.
`Crash` takes a process away wherever it is; `Age` makes the present mtime older than the
ten minutes of `_MIGRATION_LOCK_MAX_AGE_S`. `displaced` is a history variable: files
renamed away before their live maker went to unlink them. The initial state
is no lock, or the lock of a process that died holding it, stamped or not. PIDs are not
reused within the time a lock is held.

`ImplementsMutex` maps the live processes between `os.open` and unlink to Mutex's holders, and "a held lock was
renamed away on POSIX" to its `broken`.

### WarehouseSync

A run is `StartRun`, `Select`, `Push`, `Probe`, `Pull`, `Merge`, `KeepPullMark`, `Commit`,
`KeepPushMark`; several devices' runs overlap, and writers of the stores go on between
any two steps. `sync_memory_items`, `sync_memory_relationships` and `sync_tasks` are one scheme
with different guards and clocks: `table`, chosen in the initial state, says which of them a behaviour is about.

| code | model |
| --- | --- |
| the rows of a device, of the warehouse | `store[d][i]`, `wh[i]`: `updated_at` (0 for NULL) and the content, as the time it was written |
| `created_at` | `born[i]` |
| the open warehouse transaction | `xstart[d]`, `sent[d]`, `sentAt[d]`; `Seen(d)` is what it reads |
| `wh_arrived_at`, set by the trigger at `clock_timestamp()` | `arrived[i]`, `sentAt[d][i]` |
| `lww_guard`, for memories with `protect_curation`; `ON CONFLICT DO NOTHING` for edges | `Guard`, with `AgentOf` for `change_agent` |
| the delta queries | `Select` (by `Stamp`), `Fetched` (by arrival; of tasks by `Stamp`) |
| `_present_locally`: are both memories of an edge here? | `present[d]`, which `Learn` adds to |
| edges that wait, `_resume_point` | `Waiting`, `IsResumePoint` |
| `arrival_bound`: the oldest open transaction in `pg_stat_activity` | `Probe`, `IsOldestStart`; without it there is no new pull watermark |
| the merge, batch by batch, each committed; all edges are one batch | `Merge`: any set of rows may be all that got in |
| `_run_step`'s savepoint, rolled back with its mark | `StepFails` |
| `pg_conn.commit()`, then `_commit_push_watermarks` | `Commit`, `KeepPushMark` |
| a target that fails, a process that dies | `Abort` |

`plain`, chosen in the initial state, are the rows that are committed as soon as they are stamped and
stamped by every edit, which is the discipline the sync assumes of writers. The others may be
committed long after their writer read the clock, as `memory_write_impl` and the links of a consolidation do,
and memories may be edited without a new `updated_at`. Tasks are plain: `task_create` and `task_update` stamp and
commit one statement.

Two histories are outside the promises of the pull (`PullsByArrival`). Tasks have no arrival stamp, are pulled by
their writers' clocks and may be "skipped until edited again", as `sync_tasks` says of itself. And a pull whose
probe failed while edges wait has only the edges to set its watermark by (`hasty`). The clocks of the devices
agree, and every reading of a clock is a new value. A row another open
transaction wrote blocks an upsert (`Blocked`), as in PostgreSQL.

`ImplementsRegister` maps the plain rows to LastWriterWins: the versions in the stores (`Held`) and in the
warehouse (`Shared`) to `held` and `shared`, and those a run has selected, sent without a commit or fetched
(`Moving`) to `moving`. A version is the time its content was written.

### EnrichmentGroups

Time is two flags of a row: its claim is older than `CLAIM_TIMEOUT_SEC`, its
`next_eligible_at` is ahead. The content of a conversation is a version, its hash that
version, and `Placeholder` the hash of backfilled rows.

| code | model |
| --- | --- |
| `_query_eligible_groups` (the turns the run goes on to work with) | `ReadTurns` |
| `recover_stale_claims` | `RecoverStale` |
| `enroll_groups_bulk`, `enroll_group` | `Enroll`, `Enrolled` |
| `eligible_for_resume`, and no filter without `--resume` | `ListGroups`, `Eligible` |
| `gated`: `claim_group`, or nothing to claim | `Claim`, `SkipGroup` |
| `mark_success`, `mark_empty` | `MarkDone` |
| `mark_failed`: reads attempts, then writes | `JudgeFailure`, `MarkFailed` |
| `abort_reason` | `MayStop` |

`process_conversation` answers "skipped" only for a conversation without turns (`bin/run_observer.py:532`); the list is made
from rows of turns, so it has no such group, and the branch that leaves the claim as it is (`bin/m3_enrich.py:499`) has no
action. A run's coroutines, one per group, interleave with each other and with those of other
runs; a claim may time out under a live worker, a conversation may change at any time, and
`Crash` ends a process. Four history variables name what the promises depend on: `calm` (no live
worker was late and no conversation changed during a run), `forced` (a run without `--resume` was
started), `backfilled` (groups whose row an earlier backfill made) and `made`, the contents the model
has been through. `RateLimits` lets the provider answer 429, `Modes` is how runs are started.
A row is claimed at most `MaxClaims` times for one content, a bound above `MaxAttempts` in every run.

### ChatlogQueue and ChatlogIngest

A row is a turn with the id one capture of it was given, so two captures of a turn are two rows.

| code | model |
| --- | --- |
| `_QUEUE`, the batch of `_flush_once`, `stuck` of `_drain_all` | `queue[p]`, `batch[p]` with `step[p]`, `stuck[p]` |
| `chatlog_write_bulk_impl`: queue, or spill when full, or raise | `Queued`, `Spilled`, `Rejected`, under `Capture` |
| `_flush_once` takes a batch | `Take` |
| `_executemany_insert`: a commit per target store | `InsertLands`, `InsertFails` with `Committed`, `Together` |
| its spill, and the batch queued again when that raises too | `SpillLands`, `SpillFails` with `QueuedAgain` |
| `_flush_loop` | `FlushLoop` |
| the loop's task is cancelled; its insert goes on in `to_thread` | `Cancelled`, `thread[p]`, `ThreadEnds` |
| `_drain_all`, the closing of the event loop, `_final_drain_sync` | `DrainAll`, `LoopCloses`, `Exit` |
| a crash; the sweeper brings a spilled row to its store | `Killed`, `SpillDrained` |
| a server starts, writes a turn for a tool, ends | `Starts`, `Write`, `Stop` |
| a hook: the transcript is parsed before the lock | `Fire`; `items[p]` is what it read |
| `file_lock` of the cursor: timed out, got, taken over | `LockTimesOut`, `Load`, `Displace` |
| `_release_lock_file`, which unlinks the file whoever made it; a dead hook's lock | `Released`, `Reclaimed` |
| `_load_cursor`, `_filter_new_items` | `Load` with `New`; an unreadable cursor moved aside: `Refuse` |
| the enqueue loop, and its failure | `Enqueue`, `Abort` |
| `_drain_queue`, `_commit_cursor` of what left the queue | `DrainQueue`, `Drained`, `Commit` with `Landed` |
| the hook dies, the cursor file is damaged | `Die`, `Damage` |

Between two awaits nothing else of a process runs, so a step is what lies between two awaits. The
enqueue loop of a hook awaits nothing that suspends it; the flush task it starts has therefore never run when
`_drain_queue` cancels it, and only servers have a flush under way to be cancelled. A cancelled
batch may be lost: the insert's thread ends by itself and nobody looks at how. The disk is not asked: the
branch that spills is for an `Exception`, which a cancellation is not. Such rows are `unwatched`, apart from
those store and disk `refused`. The comment at `bin/chatlog_core.py:390-391` says a dequeued batch never
exits without being written, spilled or queued again; the model follows the code.

`ImplementsCapturedTurns` maps queue, batch and thread of a process to CapturedTurns' `pending`, store
and spill to `durable`. CapturedTurns names the loss of `unwatched` rows as an exception to what it promises, and bounds it:
a process leaves a row unwatched only when it stops serving, and loses no other row without asking the disk.
One session, turns with something visible to store, no redaction; the
order of the queue is left out (a batch is any part of it).

### SpillDrain

A line is the turn it holds, a file the set of its lines, `{}` no file.

| code | model |
| --- | --- |
| the day file and an unfinished last line | `day`, `torn` |
| claimed files, `quarantine/`, `.reason.json`, `.attempts` | `spill`, `quar`, `reason`, `tries` |
| `<file>.bad`, `foreign-<file>` | `parked` |
| a file cut inside a character (not UTF-8) | `garbled` |
| the locals of `drain_spill`, `_drain_one`, `_retry_quarantined` | `drain[d]` |
| `_spill_batch` | `SpillBatch`; `AppendBreaksOff` when it does not return |
| `_retry_quarantined` | `StartPass`, `CheckReturn`, `MoveBack`, `MovedBack`, `StampRetry` |
| `_claim_spill_file`, a file claimed earlier | `Claim`, `TakeOver` |
| `_drain_one`: budget, read, insert per target, park | `Open`, `Insert`, `Park` |
| its rewrite or removal, `_record_attempt` | `Settle`, `Record` |
| `_quarantine_spill` | `Condemn` (the destination), `Quarantine`, `WriteReason` |

Every rename, rewrite and removal is a step, each can fail, and a drain can die after
each. Every outage of a store, failed call, torn append and death takes one of
`MaxMishaps`; a store's recovery is free. Names of claimed files contain a PID and the time, so two files never
have the same one; the model has the names of `Names` and takes one again when no file
and no drain has it any more.

`ImplementsShelf` maps the turns that are on the disk and in neither their store nor the parked lines
to SpillShelf's `waiting`. A turn that is placed may still be in a file, and is written again by a drain that
has not heard of it: that is a step of the files and none of the shelf.

### Notifications and NotificationWaiter

The state of a row is derived from its columns, as `message_state_sql` does (`StateOf`). A lease token is the number
of the attempt it was issued to; the deadline is absent, ahead or past.

| code | model |
| --- | --- |
| `notify_impl` | `Notify` |
| `claim_message`, for a caller that asks for pending rows | `Claim` |
| `complete_message`, `fail_message`, fenced by attempt | `Complete`, `Fail` with `Fenced`; told no: `LeaseLost` |
| `renew_lease` | the lease does not lapse; refused: `LeaseLost` |
| time passes over a lease; its agent stalls, dies or comes back | `Lapse`, `Dies`, and `Complete`/`Fail` at any later time |
| `sweep_leases_opportunistically` of one store | `Sweep` with `Expired`, `DeadLetters` |
| `notifications_ack_impl`, `notifications_ack_all_impl` | `Ack`, `AckAll` |
| `_wait_once`: receipts, baseline, change token | `Stamp`, `EndStamping`, `Read`, `TakeToken` |
| a changed token, a doorbell ring, a PostgreSQL poll | `Wakes` |
| `read_across_notification_stores_checked`, a store skipped, all failed | `Read`, `partial`, `ReadFails` |
| `_advance` | `Advance` with `Gained`, `NextBaseline` |
| report and exit, timeout, crash; `main` under `--supervise` | `Reports`, `TimesOut`, `Crashes` |

Receipts and reads go store by store in any order; the token is read at one moment for all of them.
No agent of this repository calls `claim_message` yet: its own predicate is `claimed_by IS NULL` and
what the caller adds, and the model's caller asks for rows that are pending. The startup baseline
ignores the partial flag, so mail of a store that was skipped then may be reported as news later: `NewsIsNew`
speaks of what this waiter has found.

### HaltProtocol

| code | model |
| --- | --- |
| `HALT_m3` and its owner | `halt`; `Active`, `Stale` by `OwnerLives` (`_pid_is_live_owner`) |
| the registry, dropped with its process | `registry`, the entries that can be read |
| `register_process`: the entry opened, then written or not | `SignsUp`, `Registers` with `Writes` |
| `list_live_processes`, which unlinks what it cannot read | `Dooms`, `Reaps`; called by others than installers: `Lists` |
| `scan_db_writer_processes`, and command lines it cannot read | `Scanned`, `readable` (chosen in the initial state) |
| `list_blocking_db_writers` | `Sees` |
| `main_loop`: register, look, pass | `SignsUp`, `Registers`, `SeesHalt`, `SeesNone`, `OpensStore`, `EndsPass` |
| its pause: checkpoint, deregister, look until lowered, register, look once more | `Pauses`, `SeesLowered`, `SignsUp`, `Registers` |
| `halt_is_active` finds a dead owner's file and unlinks the path | `FindsStale`, `Voids` |
| servers, which register and never look | `SignsUp`, `Registers`, `Ends` |
| `_quiesce_db_writers`: nobody writes, or somebody does | `FindsNobody`, `FindsWriters` |
| `set_halt`, `wait_for_quiesce` | `RaisesHalt`, `Reads`, `Quiesced`, `Polls`, `TimesOut` |
| "wait", "kill", "abort" | `WaitsMore`, `KillsStuck`, `GivesUp` |
| `_lower_halt`, and again on the way out | `Lowers`, `Leaves` |

An installer reads one process after the other, a loop reads the halt and opens its store in two
steps, and a halt found stale is deleted by its name in a step of its own, whoever's it is by then.
An installer that finds nobody writing raises no halt at all (`bare`). `newcomers[i]` is a history
variable: writers that started since `i` raised the halt.

An entry is a plain file that is opened empty and then written. A reader that meets it in between
puts it on its list (`doomed`) and unlinks it by its name later, when it may be complete; a writer whose entry went that
way, or could not be written, is `unlisted` until it registers again. Such a loop is still found by its command
line; one whose command line cannot be read either runs its passes beside an install, and is the exception
`ExclusiveIsQuiet` names. Every other way to a pass beside an install is excluded.

The property is about passes. A loop that starts or resumes while the halt is up registers, sees the halt and, before it
pauses, checkpoints its store (`_checkpoint_wal`, `bin/m3_cognitive_loop.py:2059`): in `pausing` it opens the store beside
the install, and the halt does not prevent it.

### Supersession

A process runs one tool call or one sweep at a time; a step is one transaction, and what it has in hand between two of
them is in `work[p]`.

| code | model |
| --- | --- |
| the rows, in the order of insertion; `is_deleted = 0` | `1 .. made`; `live` |
| rows of `memory_embeddings`; the flag of a deferred check | `vector`; `owed` |
| `supersedes` edges | `edges` |
| `_mark_superseded` with its "AND is_deleted = 0" | `MarkSuperseded`, `Active` |
| `memory_write_impl`: insert, vector in time or not, flag | `Write`, `Embed`, `Flag` |
| a bulk write, a write with `embed=False` or without a check | `Write` of a memory in `OptsOut` |
| `_check_contradictions`: the scan, then a transaction per conflict | `Look` with `Candidates`, `Close`, `GoesOn` |
| an exception in it, logged and swallowed | `CheckFails` |
| `memory_supersede_impl` with content: read, write, close, roll back | `ReadOld`, `Insert`, `Take`, `AfterLoss`, `Undo` |
| `_supersede_into_existing` | `ReadOld` with `ReplacesItself`, `Take` |
| `memory_dedup_impl`: the scan, one transaction for all closes | `Scan`, `Apply` |
| `embed_backfill`: a vector | `Backfill` |
| `owed_contradiction_checks`, `_run_owed_contradiction_checks` | `ListDue` with `Due`, `NextRow` |
| `run_deferred_contradiction_check` | `ReadRow`, the check, `Clear` |
| `memory_delete_impl`; the dashboard's resolve; `memory_update_impl` with metadata | `Delete`; `Restore`; `Relabel` |

The memories have one type and one owner, and are similar enough for every two to be compared: other memories
never meet in these paths. The two looks before a retirement into an existing memory are one step, because the close
looks at the old memory again and nothing looks at the replacement again. The check sees what has a vector, and
`Conflict` is that two contents differ. `meant`, `checked`, `excused`, `restored` and `lost` are history variables: who
was written to replace whom, whose check came to its end, whose failed or was cut off, who was brought back, and that a
memory was deleted or closed in favour of a closed one.

## Runs

All instances have two or three processes: the hazards are those of two actors and a third that
profits, or of one actor and its own crashed predecessor. Every passing run's properties have
a mutant of the code they notice.

| run | instance | shows |
| --- | --- | --- |
| `file_lock_stale` | POSIX or Windows, two waiters on a machine, a dead owner on another, one waiter may die, files may get old, 3 files | with two waiters the lock is exclusive unless a file got old (`ExclusiveUnlessAged`); only stale locks are deleted (`DeletedWasStale`); it implements Mutex, whose promise breaks when a held lock is renamed away and never on Windows (`ImplementsMutex`); a dead owner's lock goes in the end (`DeadLockReclaimed`) |
| `file_lock_shared` | POSIX, three live processes, nothing gets old | `Exclusive` is violated |
| `warehouse_edits` | two devices; a memory, an edge or a task, plain or not, edited twice, 6 clock readings, one fault | `NothingUnpulled` of memories and edges; of plain rows `NothingUnsent`, and that they implement LastWriterWins (`ImplementsRegister`) and end in the newest version everywhere (`SettledAgree`) |
| `warehouse_late` | the same without edits and faults | `AllDelivered` is violated |
| `enrichment_runs` | two runs with and without `--resume`, a group, backfilled or not, that changes once, late workers, 429, a crash | while calm, `ClaimHeld`, `DoneIsCurrent`, `TerminalStays`, and that a content the model has been through is not put to it again (`AskedOnce`); `AttemptsBounded` of `--resume` runs; `Settles` |
| `enrichment_quota` | one run, 429 | `NeverStranded` is violated |
| `chatlog_ingest` | two processes, each a server or a hook, queues of one and of two rows, two turns for two stores, any two mishaps | the queue implements CapturedTurns (`ImplementsCapturedTurns`); the cursor runs ahead of no row (`CursorIsDurable`); a turn is stored once (`StoredOnce`) and in the end (`CapturedInTheEnd`); queues empty (`QueueEmpties`); the hooks under the cursor's lock do what Mutex allows (`HooksTakeTurns`) |
| `spill_drain` | two drains, a turn for the own store and one for a foreign store, two files, two attempts, any one mishap | `NothingDropped`; the files implement SpillShelf (`ImplementsShelf`); `Lands` |
| `spill_drain_torn` | one mishap | `NotMalformed` is violated |
| `notifications` | two messages in two stores, one claimed by two agents, two attempts, a waiter with any two mishaps | the rows implement MessageQueue (`ImplementsMessageQueue`); `OneWorkerUnlessLate`, `NewsIsNew`; no claim strands a message (`NotStranded`); each gets its receipt (`ReceiptInTheEnd`) |
| `halt_protocol` | a loop whose command line may be unreadable and whose entry may get lost, a server, two installers, two starts | a halt that is up keeps the loop out of its passes, unless neither its entry nor its command line can show it (`ExclusiveIsQuiet`); beside an installer only newcomers run (`OnlyNewcomers`); no loop stays paused (`LoopsResume`) |
| `supersession` | three memories, the second in conflict with the others, the third without a check; two processes, one of which sweeps, a row at a time; one mishap, by hand on the first two memories | a memory is superseded once (`ReplacedOnce`); of its replacements one lives (`OneReplacement`); of two checked memories in conflict one is closed (`NoConflictStands`); something stands, and what replaced a memory leads to something that does (`StandsUnlessLost`); no check is lost (`NoCheckLost`), and those owed are made (`OwedIsChecked`) |

`TypeOK` is checked by the runs of FileLock and Notifications; of the other models it is only proved,
and so is `NoRegress` of WarehouseSync, which `ImplementsRegister` includes.

*Why the bounds are enough.* FileLock: two holders take one displaced lock and one created
in its place; three files allow a dead owner's, and two more. WarehouseSync: six readings of the clock are
two overlapping runs of two devices, a creation, and a push or an edit; rows do not influence each
other except by sharing watermarks, which one row feels as well, since it is created
at any time before or after them. A row that is not plain promises only that it is pulled (`NothingUnpulled`), and its sixth
reading ends the behaviour (`LateRowsEndEarly`): a late creation, a push and two runs take four. The tables share nothing but an edge's need of its memories, which is
`present`. Only a pull with edges waiting and no bound takes two edges and three devices to go wrong (below); more rows
and devices are covered by the proofs. EnrichmentGroups: two attempts, then claims
beyond them; two contents, for one change; two runs, for overlap; groups share nothing but the list
they are on. ChatlogIngest: a process may be a server and a hook beside it, or two hooks on one cursor; a
queue of one row is full with the first turn, one of two holds a batch for two stores, which may commit for
one of them; a flush fails by an insert and a spill, which is two mishaps. A drain of several batches
needs more turns than that, and is covered by the proof only. SpillDrain: two turns
for two stores make a file in which one group is written and the other kept; two drains on two names can have the
same file in hand while one of them moves it; a budget of two attempts is a first failure and a last one. One mishap is
enough for the whole way, since a store that goes out of order stays so until it recovers: both attempts, quarantine
and the daily retry may fall into the outage or after it. A death, a failed call or a torn append beside an outage are
covered by the proof of `NothingDropped`. Notifications: two
attempts allow a reclaimed lease and a dead letter, two agents a late holder beside a new one; two stores, each
with a message, make a partial read; two mishaps are a store skipped and a crash. HaltProtocol: a
second installer raises or lowers the file of the first; two starts are a writer that is there before the halt and
one that comes after it, or one that ends and comes back. `Elusive` are the writers whose command line may be unreadable
and whose entry may get lost: the loop, because the property that needs it is about loops. Supersession: two processes are two checks, two
supersedes, or one against a sweep; three memories are the old one and its two replacements, or two sides of a conflict
and one that either is retired into; a sweep of one row a time (`PerSweep`) meets its cap with the second. One
mishap is a death, a swallowed failure, or a memory deleted, brought back or relabelled under a call; those by hand are
kept to the first two memories (`Touched`), because the third differs only in having no check. More of all of them is
covered by the proofs.

*Symmetry* is used in the two sync runs, on devices: no definition tells them apart, and no mapping ranges over
them. The runs with liveness use none.

*Deadlock* is on for FileLock, the enrichment's quota run and the notifications. It is off where the
bound on the clock, the claims, the names, the starts or the memories stops a bounded history, or where, the bounds being
spent, there is nothing left to do.

*The conditions of the properties are needed.* TLC finds a violation when one is lifted:

* Without `calm`, a late `mark_failed` overwrites a finished group, because no
  mark looks at the claim token (`TerminalStays`), and a run marks done a row enrolled meanwhile with
  newer turns (`DoneIsCurrent`).
* With crashes instead of 429 answers in `enrichment_quota` a recovered claim keeps its
  attempt: `NeverStranded` fails too. Without either, and while `calm`, it is a theorem (`StrandedByMishapOnly`).
* For rows that are not plain, an edit that does not raise `updated_at` loses
  against an older one (`NoRegress`), and a late commit stays behind (`AllDelivered`, the run `warehouse_late`).
* Without `PullsByArrival` a task committed before another device's pull and pushed after it is behind that
  device's watermark, and so is an edge in flight during a `hasty` pull of three devices' edges (`NothingUnpulled`).
* With memories written by "system" the guard refuses their rows everywhere while the watermarks pass
  them: `SettledAgree` fails.
* With a third live process in `file_lock_stale`, no file old, `ExclusiveUnlessAged` fails, as
  `file_lock_shared` shows.

## Fairness

Safety properties need no fairness. Nine properties do.

* `DeadLockReclaimed`: weak fairness of each process's steps and of `Age`. `file_lock` polls
  in a loop with a sleep, and the clock goes on while it does. Strong fairness of `ReadStamp`: a lock that is
  there is not unreadable at every poll for ever. Starting, giving up and
  dying are not fair: nobody has to take the lock, and a waiter may time out first, which
  the property allows.
* `Settles`: weak fairness of preparing and ending runs, of each coroutine's work, of
  the ageing of claims and of the end of backoffs. The loop starts enrichment passes again and again,
  the event loop runs every coroutine, and a request ends by an answer or by the client's
  time-out. Crashes, changes of a conversation and the provider's choice of an answer are not fair.
* `CapturedInTheEnd`, `QueueEmpties`: weak fairness of each hook's ingest, of each flush and drain, and of the
  flush loop. The host fires a hook at every prompt and stop of the session, the flush loop has an interval, and an
  insert or append returns. `CapturedInTheEnd` asks that there be a hook at all.
* `Lands`: weak fairness of each drain and of the passing of days. The loop and the sweeper
  start passes periodically. That stores work again is no fairness of the system: it is the
  premise of the property, `<>[](target[x] = "ready")` for every store. A second premise is that from some time on no
  two drains run together: two that always do may take over each other's file before either has opened it, for ever.
* `NotStranded`, `ReceiptInTheEnd`: weak fairness of the sweep of each store (every poll of any agent sweeps), of the
  lapse of a lease nobody works under (time passes), of the waiter's steps, and strong fairness
  of its timeout, which is looked at on every round of its wait and is therefore enabled again and again rather than
  always.
* `LoopsResume`: weak fairness of each loop's steps, of the end of a signalled process and of an installer's steps (an
  install takes finite time), and strong fairness of the deadline of `wait_for_quiesce` and of the answer: asked again
  and again, somebody does not say "wait" for ever, and `--force-quiesce` answers at once.
* `OwedIsChecked`: strong fairness of starting a sweep and weak fairness of each step of a call or sweep and of the
  backfill. The loop and the timer start `embed_backfill` again and again; a process may be busy with a call when they
  do, which is why the start is strongly fair. A write is not fair: nobody has to write.

## Proofs

TLAPS checks every step of the following, for all values of the constants (any number of
processes, devices, groups, turns, messages and faults) that satisfy the modules'
assumptions, which say what kind of value each constant is.

| module | theorem | property | further assumptions |
| --- | --- | --- | --- |
| FileLockProofs | TypeCorrect | `TypeOK` | |
| | OnlyDisplacementShares | `ExclusiveUnlessDisplaced` | |
| | WindowsExcludes | `ExclusiveOnWindows` | |
| | OnlyStaleDeleted | `DeletedWasStale` | |
| | FileLockImplementsMutex | `ImplementsMutex` | |
| | TwoExclude | `ExclusiveUnlessAged` | at most two processes besides the dead predecessor |
| WarehouseSyncProofs | TypeCorrect | `TypeOK` | |
| | PullSkipsNothing | `NothingUnpulled` | no memory is written by "system" |
| | PushLeavesNothing | `NothingUnsent` | the same |
| | NewerWins | `NoRegress` | |
| | SyncImplementsRegister | `ImplementsRegister` | |
| | AgreeWhenSettled | `SettledAgree` | no memory is written by "system" |
| EnrichmentGroupsProofs | TypeCorrect | `TypeOK` | |
| | ClaimsExclude, DoneWithItsContent, TerminalKept | `ClaimHeld`, `DoneIsCurrent`, `TerminalStays` | |
| | AskedOncePerContent | `AskedOnce` | |
| | AttemptsCapped | `AttemptsBounded` | finitely many runs |
| | StrandedByMishapOnly | `NeverStranded` while `calm` and before a crash | no 429 answers |
| ChatlogIngestProofs | TypeCorrect | `TypeOK` | |
| | HooksImplementCapturedTurns | `ImplementsCapturedTurns` | |
| | CursorBehindRows | `CursorIsDurable` | |
| | TurnsStoredOnce | `StoredOnce` | |
| | HooksKeepMutex | `HooksTakeTurns` | |
| SpillDrainProofs | TypeCorrect | `TypeOK` | |
| | NeverDropped | `NothingDropped` | |
| | DrainImplementsShelf | `ImplementsShelf` | |
| | OnlyTornAppendsLose | `NotMalformed` | no append of `_spill_batch` is cut short |
| NotificationProofs | TypeCorrect | `TypeOK` | |
| | RowsImplementMessageQueue | `ImplementsMessageQueue` | |
| | OneWorkerAtATime | `OneWorkerUnlessLate` | |
| | NewsOnlyOnce | `NewsIsNew` | |
| HaltProofs | TypeCorrect | `TypeOK` | |
| | HaltExcludesPasses | `ExclusiveIsQuiet` | |
| | InstallersSeeNobodyOld | `OnlyNewcomers` | |
| SupersessionProofs | TypeCorrect | `TypeOK` | |
| | SupersededOnce, OneReplacementLives | `ReplacedOnce`, `OneReplacement` | |
| | ConflictsAreClosed | `NoConflictStands` | |
| | SomethingStands | `StandsUnlessLost` | |
| | NoCheckIsLost | `NoCheckLost` | |

The arguments:

*FileLock.* `OwnersOwn`: as long as no held lock was displaced, a process past `os.open` is
the maker of the file at the path. Two of them would be makers of the same file. On
Windows the file of such a process is pinned, so nothing is ever displaced while held.
`Judged`: a process that goes on to rename has read the stamp of a dead owner, or got an mtime
that is old or none at all; the dead stay dead and the past stays past. `Verify` carries the
verdict over to the file that was renamed: it has that stamp and that mtime, so it is
that of a dead owner or old. This is where comparing the mtime, and not only the contents, matters.
The refinement adds one lemma per action: it enters, leaves or breaks the mutex, or leaves holders and
`broken` alone; creating a lock enters an empty mutex because of `OwnersOwn`. For two waiters `HeldInReach` says more
than `OwnersOwn`: as long as no live process's file is old, the file of a process that holds the lock is at the path, or
the other waiter has it aside and is about to put it back, because a file that is neither old nor a dead owner's
fails the test of `Verify`. While it is aside nobody is left to create another; a third process would be, which is
what `file_lock_shared` shows.

*WarehouseSync.* All theorems rest on facts about time: every stamp, watermark and start
lies in the past (`PastReadings`, `RowsInThePast`, `BornInThePast`); at most one open transaction holds an
uncommitted version of a row (`OneWriter`), which is at least as new as the committed one
(`SentIsNewer`). The pull is safe because no bound passes the start of an open transaction
(`BoundsBeforeStarts`) and what a transaction wrote arrived after its start (`SentAfterStart`), so
`PulledAll`, which says of every run's state what `NothingUnpulled` says of the watermark, is kept; a resume point
lies before every edge that waits and passes no bound (`PulledBound`).
`SentAll` follows a row through a push, from the selection to the commit
and the watermark written after it. It is false while a row is stamped and not inserted, which is
why it speaks of plain rows, and why `warehouse_late` fails. For `NoRegress`, `AllDated` says of a plain row, wherever it
has got to, that its stamp is the time of its content (the sync makes no rows, it only moves them: `RowsMove`), so
the order of stamps that the guards keep is the order of contents (`NewerContent`). With that each step is one of the
register: a creation or an edit writes a version above all there are, because the clock has passed them; a select, a push
or a fetch carries copies; a merge delivers and a commit publishes what was under way, never for something older; a
failure only loses copies. For `SettledAgree`, what was
pushed and what was pulled make each store's row and the warehouse's cover each other, and of two versions of
a row with the same stamp there is only one; `NewestStored` says that the newest version there is lies in some store,
so what the stores agree on is that one.

*EnrichmentGroups.* `ClaimHeld`, `DoneIsCurrent` and `TerminalStays` are not inductive
alone. `InTime` joins six facts: a run has groups in hand only after it listed them; the turns
a run has read are the present ones; once it has enrolled, every row names the present
content; a group that is worked on is held under a claim that is not old; only backfilled
rows have the placeholder's hash; and `DoneIsCurrent`. It holds while `calm`. `AskedOnce` needs a fact about the past
besides, `Recorded`: the model has been through no content newer than the one the row names, and through that one only
if the row is done. A run without `--resume` tries every group, and what stops it from asking again is that
enrollment resets a row for new content only. For the cap on attempts, `Capped` counts, for
each group, the runs that have it still to claim: a run lists a group only below the cap, so
attempts plus those runs never exceed the cap plus the number of runs less one. `StrandedByMishapOnly` is about
`NeverStranded`, which a run refutes for 429 answers. Leave out these, deaths, late workers and changes during a run, and
it holds of any number of overlapping runs, the ones without `--resume` included: `LeftToDo` says that every claim has its
worker and was made below the cap, and that a verdict of "failed" was reached below it.

*Chat log.* `KnownRows`: no row is anywhere whose id was not given out, so a new row is nowhere yet. `SoundQueue`:
rows in a thread are `unwatched`, and once a drain that nobody will repeat has moved nothing, the rows in
the queue are `refused`; these are the rows CapturedTurns lets a process give up. `SoundHook`: queue and batch of a hook
together fit its capacity, so a batch that failed fits back into the queue, and each row of a hook is in the
queue, in the batch or durable. At the commit there is no batch, so what is not in the queue is durable, and
durable rows stay: `CursorIsDurable`. For `StoredOnce`, no row is in
two memories (`Apart`), and as long as no two hooks overlapped, a turn that was not retold and that the cursor does not
name has rows only of the hook under the lock (`NewToCursor`), and one that hook has still to queue has no row anywhere
(`StillToQueue`). So what is queued is queued for the first time. `UnderLock`, of the same invariant, says that without an
overlap the hook at the queue is the one the lock names: a hook that gets the lock enters an empty Mutex, and whichever way
a hook ends, it leaves.

*SpillDrain.* Two drains may hold the same file's lines while each rewrites, moves or removes it.
`CopiesAgree` says that any two copies of a file (in the spill directory, in quarantine,
in the memory of a drain) agree on the lines that have found no place yet, so one
that replaces another loses nothing; `Careful` that the lines a drain has not placed are
among those it will keep; and `OwnDest` that a new name in quarantine
belongs to one drain, so its move overwrites nothing. For the shelf, a turn is in its store only if its line is a JSON
object for a store of its own, and parked only if it is malformed or foreign (`Sorted`), so it is never both, and a drain
has in hand only lines that are on the disk or placed (`WaitsOnDisk`): an insert stores waiting turns, a park sets them
aside, and no rename, rewrite or removal is a step of the shelf.
`OnlyTornAppendsLose` says what the run `spill_drain_torn` needs: without `AppendBreaksOff` no line is malformed
(`Unbroken`), so by `Sorted` only foreign lines are parked, whatever else fails.

*Notifications.* `SoundLease`: claim, token and deadline of a row come and go together, the token is the number of the
last attempt, and every earlier attempt's lease has lapsed; `SoundRow`: a row to hand out has attempts left. So the
fence lets only the last attempt close a row, and of two agents on one row all but the last are late. For
the waiter `Remembers` says that what it has found and is still unread is in its baseline, and `Compares` that a read
which skipped no store finds all of it again; keeping the old baseline after a partial read is what preserves them.

*HaltProtocol.* The argument is that of flags: a loop registers and then looks at the halt, an
installer raises the halt and then looks at the registry, so one of the two sees the other.
`Signed`: a loop that may get to a pass without looking again has its entry, or is `unlisted`: a reader that unlinks an
entry leaves its writer so. A writer is `Cleared` when this look of the
installer has read it and not found it: `Quiet` says that a cleared loop is in no pass while the halt is that
installer's, unless it is unlisted and unreadable, `New` that a cleared readable writer which runs is a newcomer, and
`Looked` that who installs has cleared everybody. A loop is cleared when it was not seen, so by `Signed` it was in no pass
or is the exception. That a loop, started or resumed, registers before it looks at the halt is what keeps `Signed`.

*Supersession.* `Holding` says what a process has in hand at each step. `Closed`: a superseded memory is not live
unless it was brought back, so the conditional UPDATE adds an edge only to a memory without one: `ReplacedOnce`.
`Rewritten` says of a memory written to replace another that either the edge exists, or its writer is still at the
close or the roll-back, or it is no longer live: two that live share an edge, and `ReplacedOnce` makes them one.
`Heeded`: of two live memories in conflict that were checked, or looked and have closes to make, one still has the
other on its list. It holds because the later of two looks sees the other memory, unless that is closed, and a
memory gets its vector before its own look. `Remains` strengthens "something is live" to a memory that is live
and that no roll-back will take, or in whose favour another was closed, so that taking it counts as lost. `ChainsEndLive`:
whatever replaced a memory is live, or the edges lead from it to a memory that is. A close in favour of a live memory
cuts the chains that ended in the closed one and leads them on to that memory by its own edge; a roll-back takes a
memory that has replaced no other, or one whose loss counts. `Swept`:
a sweep that is about to clear a flag has made the check, or the memory is closed; this and the flag's being set before
a call lets go of its memory give `NoCheckLost`.

*Only model-checked:* the nine liveness properties (`DeadLockReclaimed`, `Settles`, `CapturedInTheEnd`,
`QueueEmpties`, `Lands`, `NotStranded`, `ReceiptInTheEnd`, `LoopsResume`, `OwedIsChecked`), which are out of the prover's
reach. Every other property of a passing run is a theorem. Two of
the runs that expect a violation have a theorem beside them that says the cause they show is, up to the assumptions of the
table, the only one.

## Disagreements between the code and what is said of it

Four runs show the code doing what one of its documents, comments or tests says it does
not. `PROJECT.json` quotes the lines.

* `file_lock_shared`: three processes, no crash, no old file, and two hold the lock. A waiter reads
  an empty stamp (not written yet), its stat fails because the lock was released, the mtime
  stays 0.0, which is old; it renames the next holder's lock away, and a third creates one before it is
  put back. "All fail SAFE" (`bin/m3_core/locking.py:161`) does not hold at line 202.
* `warehouse_late`: a memory is stamped at `bin/memory/write.py:456`, then a model is asked, then the
  row is inserted. A sync in between leaves a push watermark above its stamp, and the row is never
  sent until somebody edits it. `docs/TECHNICAL_DETAILS.md:373` promises at-least-once delivery.
* `enrichment_quota`: `tests/test_enrichment_state.py:299-302` wants groups that failed on 429 to be
  picked up again however many attempts; they count attempts like all others, and the list drops
  them at the cap (`bin/enrichment_state.py:674`).
* `spill_drain_torn`: a batch appended after a torn line loses its first turn to that line; it is parked as malformed
  and never tried again, although `_spill_batch` returned. "The drain picks them up" (`bin/chatlog_core.py:590`).

Others were met while reading and are modelled as the code has them, without a run of their own:

* When the probe for open transactions fails, `_arrival_watermark` says that the pull watermark stays where it was
  (`bin/pg_sync.py:316-320`). With edges waiting it does not: `_resume_point` (line 647) puts it right before the first
  of them, past earlier rows of a transaction that may still be open.
* A batch whose flush is cancelled while its insert runs can be lost, without the disk being asked: "Never let a dequeued
  batch exit without being written, spilled, OR re-enqueued" (`bin/chatlog_core.py:390-391`). Hence `unwatched`.
* One permanently failing store counts a spill file toward quarantine, with the healthy turns for a busy one that it
  holds (`bin/chatlog_embed_sweeper.py:461`); `_record_attempt` says an outage does not park healthy turns. The
  instance of `spill_drain` has one store of its own, so no run shows it.
* `fail_message` (`bin/memory/backends/dialect.py:710`) leaves `claimed_by` set, so a message its agent failed can no
  longer be acked, which `bin/memory/orchestration.py` says of dead letters; `Ack` asks for `Unclaimed`.
* A message committed between a waiter's baseline and its change token is noticed at the next write to the store only
  (`bin/m3_notification_waiter.py:950-952`); the header says "the moment a new notification appears".
* A paused loop that can be found by its command line counts as a writer, so the wait does not end by itself and the loop
  is killed: `Sees` in HaltProtocol. HALT_PROTOCOL.md says that no process is killed in the common path, and
  `wait_for_quiesce` that a paused writer leaves (`bin/m3_halt.py:886-889`).
* An entry that a reader unlinked while it was written, or that could not be written, leaves a live writer out of the registry
  (`bin/m3_halt.py:196`, `228`), and a loop that sees the halt checkpoints its store during an install
  (`bin/m3_cognitive_loop.py:2059`). `wait_for_quiesce` says that "an empty registry therefore means every registered writer has
  released its DB handle" (`bin/m3_halt.py:893-894`). Hence `unlisted`, and "passes" rather than "stores" in
  `ExclusiveIsQuiet`.
* Deleting a stale halt by its path (`bin/m3_halt.py:808`), or lowering without looking whose halt it is
  (`m3_memory/setup_wizard.py:4935`), can take another installer's: hence "its `HALT_m3` is still the file that is
  there" in `ExclusiveIsQuiet`.
* A check of an old memory that was deferred, or made after a younger one was written, closes the younger: `Candidates`
  does not ask which is newer. `docs/API_REFERENCE.md:10` and `docs/ARCHITECTURE.md:316` say the old one is superseded.
* An exception inside `_check_contradictions` is logged and swallowed (`bin/memory/write.py:2189`), and the sweep then
  clears the flag; `bin/embed_backfill.py:655-657` says the flag stays for the next sweep. Hence `excused`.
* Two retirements, each into the memory the other closes, leave neither live (`bin/memory/write.py:1371`, whose comment
  says at 1361 that this is what the look is for), and a roll-back takes a replacement others were retired into
  meanwhile (line 1314). Hence `lost`.
* `memory_update` with metadata overwrites the flag with the rest, and an edited content is never checked again.
* A sweep that read a row as deleted clears its flag even if the dashboard has brought the row back since.
* Embeddings whose memory is not in the warehouse yet are skipped, to be sent "on the next sync after their parent
  lands" (`bin/pg_sync.py:941`), but their watermark passes them, so after a failed memories step they are sent when
  the memory is edited next. This part of the sync has no model.

## Not modelled

In the modelled components: in the sync the lock row (runs overlap in the model whether it works or
not), the manifest path, embeddings and secrets, rows older than the arrival stamps, the type that parts chat from memory
stores, an edge the warehouse refuses because it lacks a memory (a failed step, as any), and two edges with
the same ends and type, of which a store keeps its own; in the enrichment the batch driver
`m3_enrich_batch.py`, `send_to` routing, the budget and cost columns,
`release_orphan_claims`, and the observations written before a mark; in the chat log several sessions and
blank turns, the redaction and the status file; in the drain the embedding of new turns; in the notifications tasks, the agent
registry, addressing, `--ack` and the confirmation by `m3-wait`, and the row limit of the PostgreSQL sweep; in the halt
a `HALT_m3` that cannot be read (the code takes it for active),
elevation and ancestors, the instance locks and `kill_stale_daemons`; in the write path edits of a memory's content, the
reflector (`bin/run_reflector.py`, which closes memories by pairs as the check does), `memory_consolidate`, similarity
thresholds and vector spaces, the limit on candidates, corroboration, related links, and metadata that cannot be read.
SQLite and PostgreSQL transactions are atomic steps; isolation is modelled where the code depends on
it (open warehouse transactions in WarehouseSync).

Left out: ranking and fusion in search (numerical, read-only), SQL translation, the migrations'
SQL, encryption, rendering, installation, the catalogue's dispatch. These make up most of the code's lines. The remaining components of
the inventory are planned.

## Plan

In this order:

1. **EmbeddingSync**: embeddings, which have no guard of their own and whose rows depend on their memories', and
   secrets with `version_guard`, beside WarehouseSync.
2. Edits of the content and the reflector in Supersession, whose closes by pairs meet those of the check.
3. **CircuitBreaker**: late answers against a count.
4. ChatlogIngest composed with SpillDrain, file by file: an accepted turn reaches a store, is parked or
   is in a file.

Every safety property of a passing run is proved. Of the parts above, the sync of embeddings comes with an
abstract specification to add: a row that depends on another is in the warehouse some time after that other.
