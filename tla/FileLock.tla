------------------------------ MODULE FileLock ------------------------------
(***************************************************************************)
(* The cross-process exclusive lock of bin/m3_core/locking.py: file_lock   *)
(* creates a file with O_CREAT|O_EXCL, stamps it with its owner, and        *)
(* unlinks it on release.  A waiter that finds the file there may reclaim   *)
(* it as stale: read the stamp, stat the file, judge the owner gone, rename *)
(* the file aside, check that what it renamed is what it judged, and delete *)
(* it or put it back.  Every system call is a step of its own, because any  *)
(* other process may run between two of them.                               *)
(*                                                                          *)
(* A file is an inode number; its contents are the owner stamp.  Contents   *)
(* and mtime change together when the stamp is written, so the pair         *)
(* <<inode, stamped>> stands for the mtime.                                 *)
(***************************************************************************)
EXTENDS Naturals, FiniteSets

CONSTANTS
  Procs,      \* processes that use the lock
  HostOf,     \* HostOf[p]: the machine p runs on
  MaxFiles,   \* bound: lock files created in one behaviour
  Predecessor,\* a process that died holding the lock before all this, or NoFile
  MayCrash,   \* processes that may die at any point
  MayAge,     \* TRUE: a file may get older than _MIGRATION_LOCK_MAX_AGE_S
  NoFile      \* "no such file", "no stamp", "no mtime"

ASSUME ConstantsOK ==
  /\ MaxFiles \in Nat \ {0}
  /\ Predecessor \in Procs \union {NoFile}
  /\ MayAge \in BOOLEAN
  /\ MayCrash \subseteq Procs
  /\ NoFile \notin Nat
  /\ NoFile \notin Procs
  /\ NoFile \notin Nat \X BOOLEAN
  /\ DOMAIN HostOf = Procs

Files == 1..MaxFiles
Mtimes == Files \X BOOLEAN

VARIABLES
  windows,   \* an open file can be neither renamed nor deleted
  pc,        \* where each process is in file_lock
  lock,      \* the inode at lock_path, or NoFile
  maker,     \* maker[f]: the process whose os.open created f
  stamped,   \* stamped[f]: the owner stamp has been written to f
  made,      \* number of files created so far
  mine,      \* mine[p]: the inode p created and has not tried to unlink yet
  raw,       \* raw[p]: the stamp p read in _reclaim_stale_lock
  mtime,     \* mtime[p]: the mtime p got from stat; NoFile stands for 0.0
  aside,     \* aside[p]: the inode p renamed to its ".stale-" name
  aged,      \* mtimes more than _MIGRATION_LOCK_MAX_AGE_S in the past
  crashed,   \* processes that died
  displaced  \* files renamed away before their live maker went to unlink them

vars == <<windows, pc, lock, maker, stamped, made, mine, raw, mtime, aside,
          aged, crashed, displaced>>

Holding == {"stamp", "body", "release"}
PC == Holding \union
      {"idle", "open", "read", "stat", "judge", "rename", "verify", "restore"}

TypeOK ==
  /\ windows \in BOOLEAN
  /\ pc \in [Procs -> PC]
  /\ lock \in Files \union {NoFile}
  /\ maker \in [Files -> Procs \union {NoFile}]
  /\ stamped \in [Files -> BOOLEAN]
  /\ made \in 0..MaxFiles
  /\ mine \in [Procs -> Files \union {NoFile}]
  /\ raw \in [Procs -> Procs \union {NoFile}]
  /\ mtime \in [Procs -> Mtimes \union {NoFile}]
  /\ aside \in [Procs -> Files \union {NoFile}]
  /\ aged \subseteq Mtimes
  /\ crashed \subseteq Procs
  /\ displaced \subseteq Files

\* No lock, or the one a process left that died in its critical section.
Init ==
  LET left == Predecessor # NoFile
  IN /\ windows \in BOOLEAN
     /\ pc = [p \in Procs |-> IF p = Predecessor THEN "body" ELSE "idle"]
     /\ lock = IF left THEN 1 ELSE NoFile
     /\ maker = [f \in Files |-> IF left /\ f = 1 THEN Predecessor ELSE NoFile]
     /\ \E written \in BOOLEAN :
          stamped = [f \in Files |-> left /\ f = 1 /\ written]
     /\ made = IF left THEN 1 ELSE 0
     /\ mine = [p \in Procs |-> IF p = Predecessor THEN 1 ELSE NoFile]
     /\ raw = [p \in Procs |-> NoFile]
     /\ mtime = [p \in Procs |-> NoFile]
     /\ aside = [p \in Procs |-> NoFile]
     /\ aged = {}
     /\ crashed = IF left THEN {Predecessor} ELSE {}
     /\ displaced = {}

\* Mutant of Stamp: the stamp tells which lock this is, not who owns it.
StampOfFile(f) == IF stamped[f] THEN f ELSE NoFile

Stamp(f) == IF stamped[f] THEN maker[f] ELSE NoFile   \* what reading f returns
Mtime(f) == <<f, stamped[f]>>

\* Some live process has an open descriptor on f: it holds the lock f.
Open(f) == \E p \in Procs \ crashed : pc[p] \in {"stamp", "body"} /\ mine[p] = f
\* Mutant of Pinned: opened so that others may delete the file (FILE_SHARE_DELETE).
Unpinned(f) == f = 0

\* On Windows nobody can rename or delete it then.
Pinned(f) == windows /\ f # NoFile /\ Open(f)

\* p, still alive, moves from one point of file_lock to another.
Goto(p, from, to) ==
  /\ p \notin crashed
  /\ pc[p] = from
  /\ pc' = [pc EXCEPT ![p] = to]

Unseen(p) ==      \* the locals of _reclaim_stale_lock go out of scope
  /\ raw' = [raw EXCEPT ![p] = NoFile]
  /\ mtime' = [mtime EXCEPT ![p] = NoFile]

files == <<maker, stamped, made>>
reclaim == <<raw, mtime, aside>>
ghosts == <<aged, crashed, displaced>>

-----------------------------------------------------------------------------
(* file_lock: acquire, body, release *)

Start(p) ==
  /\ Goto(p, "idle", "open")
  /\ UNCHANGED <<lock, files, mine, reclaim, ghosts>>

\* os.open(O_CREAT | O_EXCL) succeeds: the lock is taken, not yet stamped.
Create(p) ==
  /\ Goto(p, "open", "stamp")
  /\ lock = NoFile
  /\ made < MaxFiles
  /\ made' = made + 1
  /\ lock' = made'
  /\ maker' = [maker EXCEPT ![made'] = p]
  /\ mine' = [mine EXCEPT ![p] = made']
  /\ UNCHANGED <<stamped, reclaim, ghosts>>

\* os.open raises FileExistsError: look whether the lock is stale.
Exists(p) ==
  /\ Goto(p, "open", "read")
  /\ lock # NoFile
  /\ UNCHANGED <<lock, files, mine, reclaim, ghosts>>

\* LockTimeout after 120 s, or PermissionError for longer than _DENIED_RETRY_S.
GiveUp(p) ==
  /\ Goto(p, "open", "idle")
  /\ UNCHANGED <<lock, files, mine, reclaim, ghosts>>

\* os.write of the owner stamp, wherever the inode is now; best effort.
WriteStamp(p) ==
  /\ Goto(p, "stamp", "body")
  /\ \E written \in BOOLEAN : stamped' = [stamped EXCEPT ![mine[p]] = written]
  /\ UNCHANGED <<lock, maker, made, mine, reclaim, ghosts>>

\* The body is over and the descriptor closed.
LeaveBody(p) ==
  /\ Goto(p, "body", "release")
  /\ UNCHANGED <<lock, files, mine, reclaim, ghosts>>

\* _release_lock_file unlinks whatever file bears the lock's name.  On Windows
\* it fails while a holder or a waiter has that file open, and says so.
Unlink(p) ==
  /\ Goto(p, "release", "idle")
  /\ \/ ~Pinned(lock) /\ lock' = NoFile
     \/ windows /\ lock # NoFile /\ UNCHANGED lock
  /\ mine' = [mine EXCEPT ![p] = NoFile]
  /\ UNCHANGED <<files, reclaim, ghosts>>

-----------------------------------------------------------------------------
(* _reclaim_stale_lock *)

\* The stamp is read.
ReadStamp(p) ==
  /\ Goto(p, "read", "stat")
  /\ lock # NoFile
  /\ raw' = [raw EXCEPT ![p] = Stamp(lock)]
  /\ UNCHANGED <<lock, files, mine, mtime, aside, ghosts>>

\* The file has vanished or, whatever it is, cannot be read: back to os.open.
NoStamp(p) ==
  /\ Goto(p, "read", "open")
  /\ UNCHANGED <<lock, files, mine, reclaim, ghosts>>

\* stat of whatever is there now; OSError leaves mtime = 0.0.
Stat(p) ==
  /\ Goto(p, "stat", "judge")
  /\ mtime' = [mtime EXCEPT ![p] = IF lock = NoFile THEN NoFile ELSE Mtime(lock)]
  /\ UNCHANGED <<lock, files, mine, raw, aside, ghosts>>

SameHost(p) == raw[p] # NoFile /\ HostOf[raw[p]] = HostOf[p]

TooOld(p) == mtime[p] = NoFile \/ mtime[p] \in aged

\* Mutant of Stale: only a PID found dead makes a lock stale.
StaleByPid(p) == SameHost(p) /\ raw[p] \in crashed

\* On the same machine the owner's PID decides; otherwise the age of the file.
Stale(p) ==
  \/ SameHost(p) /\ raw[p] \in crashed
  \/ ~SameHost(p) /\ TooOld(p)

Judge(p) ==
  /\ \/ /\ Goto(p, "judge", "rename")
        /\ Stale(p)
        /\ UNCHANGED <<raw, mtime>>
     \/ /\ Goto(p, "judge", "open")
        /\ ~Stale(p)
        /\ Unseen(p)
  /\ UNCHANGED <<lock, files, mine, aside, ghosts>>

\* os.replace takes whatever file bears the lock's name at this moment; it
\* fails when there is none, and on Windows when somebody has it open.
Rename(p) ==
  /\ \/ /\ lock = NoFile \/ windows
        /\ Goto(p, "rename", "open")
        /\ Unseen(p)
        /\ UNCHANGED <<lock, aside, displaced>>
     \/ /\ lock # NoFile
        /\ ~Pinned(lock)
        /\ Goto(p, "rename", "verify")
        /\ aside' = [aside EXCEPT ![p] = lock]
        /\ lock' = NoFile
        /\ displaced' = IF /\ maker[lock] \notin crashed
                           /\ mine[maker[lock]] = lock
                        THEN displaced \union {lock}
                        ELSE displaced
        /\ UNCHANGED <<raw, mtime>>
  /\ UNCHANGED <<files, mine, aged, crashed>>

\* Mutant of AsJudged: whatever was renamed is deleted, as a bare unlink would.
AsFound(p) == aside[p] # NoFile

\* Mutant of AsJudged: only the contents are compared, not the mtime.
AsJudgedByStamp(p) == Stamp(aside[p]) = raw[p]

AsJudged(p) == Stamp(aside[p]) = raw[p] /\ Mtime(aside[p]) = mtime[p]

\* The renamed file is the one judged stale: delete it.  Otherwise put it back.
Verify(p) ==
  /\ \/ /\ Goto(p, "verify", "open")
        /\ AsJudged(p)
        /\ aside' = [aside EXCEPT ![p] = NoFile]
        /\ Unseen(p)
     \/ /\ Goto(p, "verify", "restore")
        /\ ~AsJudged(p)
        /\ UNCHANGED reclaim
  /\ UNCHANGED <<lock, files, mine, ghosts>>

\* os.link refuses when the name exists again; the error is logged and the
\* file stays under its other name.
Restore(p) ==
  /\ Goto(p, "restore", "open")
  /\ lock' = IF lock = NoFile THEN aside[p] ELSE lock
  /\ aside' = [aside EXCEPT ![p] = NoFile]
  /\ Unseen(p)
  /\ UNCHANGED <<files, mine, ghosts>>

-----------------------------------------------------------------------------
(* The environment *)

Crash(p) ==
  /\ p \in MayCrash \ crashed
  /\ pc[p] # "idle"
  /\ crashed' = crashed \union {p}
  /\ UNCHANGED <<pc, lock, files, mine, reclaim, aged, displaced>>

\* Ten minutes pass since the file at lock_path was last written.
Age ==
  /\ MayAge
  /\ lock # NoFile
  /\ Mtime(lock) \notin aged
  /\ aged' = aged \union {Mtime(lock)}
  /\ UNCHANGED <<pc, lock, files, mine, reclaim, crashed, displaced>>

Step(p) ==
  \/ Create(p) \/ Exists(p) \/ WriteStamp(p) \/ LeaveBody(p) \/ Unlink(p)
  \/ ReadStamp(p) \/ NoStamp(p) \/ Stat(p) \/ Judge(p)
  \/ Rename(p) \/ Verify(p) \/ Restore(p)

Next ==
  /\ \/ \E p \in Procs : Start(p) \/ GiveUp(p) \/ Crash(p) \/ Step(p)
     \/ Age
  /\ UNCHANGED windows

Spec == Init /\ [][Next]_vars

\* A running process keeps running: file_lock polls in a loop, and while it
\* waits the clock goes on.  A file that is there is not unreadable for ever.
FairSpec ==
  /\ Spec
  /\ \A p \in Procs : /\ WF_vars(Step(p) /\ UNCHANGED windows)
                      /\ SF_vars(ReadStamp(p) /\ UNCHANGED windows)
  /\ WF_vars(Age /\ UNCHANGED windows)

-----------------------------------------------------------------------------
(* Properties *)

Holders == {p \in Procs \ crashed : pc[p] \in {"stamp", "body"}}

\* No two live processes are past os.open at once: what file_lock is for.  The
\* code does not keep it on POSIX, where a lock that is held can be renamed; on
\* Windows it does.
Exclusive == \A p, q \in Holders : p = q

\* The only way to two holders is the one _reclaim_stale_lock logs as an error:
\* somebody renamed away a lock whose live owner had not released it yet.
ExclusiveUnlessDisplaced == displaced = {} => Exclusive

\* With the sharing rules of Windows nothing breaks it: a held lock is open, and
\* neither a waiter's rename nor a stranger's unlink gets through.
ExclusiveOnWindows == windows => Exclusive

\* Two processes exclude each other, whatever died before or dies now, unless a
\* live process's file went unwritten for _MIGRATION_LOCK_MAX_AGE_S: the rename /
\* verify / restore protocol of _reclaim_stale_lock is right for two waiters.
ExclusiveUnlessAged ==
  Exclusive \/ \E m \in aged : maker[m[1]] \notin crashed

\* _reclaim_stale_lock deletes a lock only when its owner is dead, or when it
\* tells no PID of this machine and is older than the ceiling, although the
\* stamp it read and the mtime it got may be those of two different files.
DeletedWasStale ==
  [][\A p \in Procs :
       (pc[p] = "verify" /\ pc'[p] = "open") =>
         \/ maker[aside[p]] \in crashed
         \/ Mtime(aside[p]) \in aged]_vars

Lock == INSTANCE Mutex WITH holders <- Holders,
                            broken <- ~windows /\ displaced # {}

\* file_lock with its reclaim protocol implements a lock with one holder at a
\* time, on Windows without exception, on POSIX until a live owner's lock is
\* renamed away: every system call enters, leaves, breaks the promise, or stutters.
ImplementsMutex == Lock!Spec

\* The lock file of a process that died does not wedge a waiter that stays: the
\* waiter gets rid of it in the end.  (On Windows the waiters' own reads of the
\* stamp may collide with the rename time and again.)
DeadLockReclaimed ==
  \A p \in Procs :
    (~windows /\ lock # NoFile /\ maker[lock] \in crashed /\ pc[p] = "open")
      ~> (lock = NoFile \/ p \in crashed \/ pc[p] = "idle")
=============================================================================
