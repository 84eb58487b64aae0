--------------------------- MODULE FileLockProofs ---------------------------
(* What holds of FileLock for any set of processes, any hosts and any number *)
(* of files: its types, that two live holders need a displaced lock on POSIX *)
(* and cannot occur on Windows, that it implements Mutex, and that of two    *)
(* waiters one at a time is in, unless a file got old.                       *)
EXTENDS FileLock, TLAPS

\* Whatever the order of creations, renames, restores and crashes, the state of
\* file_lock and _reclaim_stale_lock stays within its types.
THEOREM TypeCorrect == Spec => []TypeOK
<1>1. Init => TypeOK
  BY ConstantsOK DEF Init, TypeOK, PC, Holding, Files, Mtimes
<1>2. TypeOK /\ [Next]_vars => TypeOK'
  <2> SUFFICES ASSUME TypeOK, [Next]_vars PROVE TypeOK'
    OBVIOUS
  <2> USE ConstantsOK DEF TypeOK, Goto, Unseen, files, reclaim, ghosts
  <2>0. windows' = windows
    BY DEF Next, vars
  <2>1. ASSUME NEW p \in Procs, Start(p) PROVE TypeOK'
    BY <2>0, <2>1 DEF Start, PC
  <2>2. ASSUME NEW p \in Procs, Create(p) PROVE TypeOK'
    <3>1. made' \in 0..MaxFiles /\ made' \in Files
      BY <2>0, <2>2 DEF Create, Files
    <3>2. QED
      BY <2>0, <2>2, <3>1 DEF Create, PC, Holding
  <2>3. ASSUME NEW p \in Procs, Exists(p) PROVE TypeOK'
    BY <2>0, <2>3 DEF Exists, PC
  <2>4. ASSUME NEW p \in Procs, GiveUp(p) PROVE TypeOK'
    BY <2>0, <2>4 DEF GiveUp, PC
  <2>5. ASSUME NEW p \in Procs, WriteStamp(p) PROVE TypeOK'
    <3>1. PICK written \in BOOLEAN : stamped' = [stamped EXCEPT ![mine[p]] = written]
      BY <2>0, <2>5 DEF WriteStamp
    <3>2. stamped' \in [Files -> BOOLEAN]
      BY <3>1
    <3>3. QED
      BY <2>0, <2>5, <3>2 DEF WriteStamp, PC, Holding
  <2>6. ASSUME NEW p \in Procs, LeaveBody(p) PROVE TypeOK'
    BY <2>0, <2>6 DEF LeaveBody, PC, Holding
  <2>7. ASSUME NEW p \in Procs, Unlink(p) PROVE TypeOK'
    BY <2>0, <2>7 DEF Unlink, PC
  <2>8. ASSUME NEW p \in Procs, ReadStamp(p) PROVE TypeOK'
    BY <2>0, <2>8 DEF ReadStamp, Stamp, PC
  <2>8a. ASSUME NEW p \in Procs, NoStamp(p) PROVE TypeOK'
    BY <2>0, <2>8a DEF NoStamp, PC
  <2>9. ASSUME NEW p \in Procs, Stat(p) PROVE TypeOK'
    BY <2>0, <2>9 DEF Stat, Mtime, Mtimes, PC
  <2>10. ASSUME NEW p \in Procs, Judge(p) PROVE TypeOK'
    BY <2>0, <2>10 DEF Judge, PC
  <2>11. ASSUME NEW p \in Procs, Rename(p) PROVE TypeOK'
    BY <2>0, <2>11 DEF Rename, PC
  <2>12. ASSUME NEW p \in Procs, Verify(p) PROVE TypeOK'
    BY <2>0, <2>12 DEF Verify, PC
  <2>13. ASSUME NEW p \in Procs, Restore(p) PROVE TypeOK'
    BY <2>0, <2>13 DEF Restore, PC
  <2>14. ASSUME NEW p \in Procs, Crash(p) PROVE TypeOK'
    BY <2>0, <2>14 DEF Crash
  <2>15. CASE Age
    BY <2>0, <2>15 DEF Age, Mtime, Mtimes
  <2>16. CASE UNCHANGED vars
    BY <2>0, <2>16 DEF vars
  <2>17. QED
    BY <2>1, <2>2, <2>3, <2>4, <2>5, <2>6, <2>7, <2>8, <2>8a, <2>9, <2>10, <2>11,
       <2>12, <2>13, <2>14, <2>15, <2>16 DEF Next, Step
<1>3. QED
  BY <1>1, <1>2, PTL DEF Spec

-----------------------------------------------------------------------------
(* The inductive invariant: a live process between os.open and the end of    *)
(* its release owns the file it made; that file is the one at lock_path      *)
(* unless some owner was displaced, and on Windows as long as it is open.    *)

Owns(p) ==
  /\ mine[p] \in 1..made
  /\ maker[mine[p]] = p
  /\ displaced = {} => lock = mine[p]
  /\ (windows /\ pc[p] \in {"stamp", "body"}) => lock = mine[p]

OwnersOwn == \A p \in Procs \ crashed : pc[p] \in Holding => Owns(p)

LEMMA OwnershipKept ==
  ASSUME TypeOK, TypeOK', OwnersOwn, [Next]_vars PROVE OwnersOwn'
<1> USE ConstantsOK DEF TypeOK, Goto, Unseen, files, reclaim, ghosts, Holding, Owns
<1> SUFFICES ASSUME NEW q \in Procs, q \notin crashed', pc'[q] \in Holding
             PROVE  Owns(q)'
  BY DEF OwnersOwn
<1>0. q \notin crashed /\ (pc[q] \in Holding => Owns(q))
  BY DEF OwnersOwn, Next, Step, vars, Crash, Age, Start, Create, Exists, GiveUp,
         WriteStamp, LeaveBody, Unlink, ReadStamp, NoStamp, Stat, Judge, Rename,
         Verify, Restore
<1>00. windows' = windows
  BY DEF Next, vars
<1>1. ASSUME NEW p \in Procs, Start(p) PROVE Owns(q)'
  BY <1>00, <1>0, <1>1 DEF Start
<1>2. ASSUME NEW p \in Procs, Create(p) PROVE Owns(q)'
  <2>1. lock = NoFile /\ lock' = made + 1 /\ made' = made + 1 /\ made + 1 \in Files
    BY <1>00, <1>2 DEF Create, Files
  <2>2. maker' = [maker EXCEPT ![made + 1] = p] /\ mine' = [mine EXCEPT ![p] = made + 1]
        /\ displaced' = displaced /\ pc' = [pc EXCEPT ![p] = "stamp"] /\ pc[p] = "open"
    BY <1>00, <1>2, <2>1 DEF Create
  <2>3. CASE q = p
    BY <2>1, <2>2, <2>3
  <2>4. CASE q # p
    <3>1. Owns(q) /\ mine'[q] = mine[q] /\ pc'[q] = pc[q]
      BY <1>0, <2>2, <2>4
    <3>2. mine[q] # made + 1 /\ mine[q] # NoFile /\ mine[q] \in 1..made' /\ mine[q] \in Files
      BY <3>1, <2>1 DEF Files
    <3>3. maker'[mine[q]] = q
      BY <3>1, <3>2, <2>2
    <3>4. QED
      BY <1>00, <3>1, <3>2, <3>3, <2>1, <2>2
  <2>5. QED
    BY <2>3, <2>4
<1>3. ASSUME NEW p \in Procs, Exists(p) PROVE Owns(q)'
  BY <1>00, <1>0, <1>3 DEF Exists
<1>4. ASSUME NEW p \in Procs, GiveUp(p) PROVE Owns(q)'
  BY <1>00, <1>0, <1>4 DEF GiveUp
<1>5. ASSUME NEW p \in Procs, WriteStamp(p) PROVE Owns(q)'
  BY <1>00, <1>0, <1>5 DEF WriteStamp
<1>6. ASSUME NEW p \in Procs, LeaveBody(p) PROVE Owns(q)'
  BY <1>00, <1>0, <1>6 DEF LeaveBody
<1>7. ASSUME NEW p \in Procs, Unlink(p) PROVE Owns(q)'
  <2>1. q # p /\ pc[q] \in Holding /\ pc'[q] = pc[q] /\ mine'[q] = mine[q] /\ Owns(q)
    BY <1>00, <1>0, <1>7 DEF Unlink
  <2>2. Owns(p) /\ mine[p] # mine[q]
    BY <1>00, <1>7, <2>1 DEF Unlink, OwnersOwn
  <2>3. displaced # {}
    BY <2>1, <2>2
  <2>4. CASE windows /\ pc[q] \in {"stamp", "body"}
    <3>1. Pinned(lock)
      BY <2>1, <2>4, <1>0 DEF Pinned, Open
    <3>2. QED
      BY <1>00, <1>7, <3>1, <2>1, <2>3 DEF Unlink
  <2>5. CASE ~(windows /\ pc[q] \in {"stamp", "body"})
    BY <1>00, <1>7, <2>1, <2>3, <2>5 DEF Unlink
  <2>6. QED
    BY <2>4, <2>5
<1>8. ASSUME NEW p \in Procs, ReadStamp(p) PROVE Owns(q)'
  BY <1>00, <1>0, <1>8 DEF ReadStamp
<1>8a. ASSUME NEW p \in Procs, NoStamp(p) PROVE Owns(q)'
  BY <1>00, <1>0, <1>8a DEF NoStamp
<1>9. ASSUME NEW p \in Procs, Stat(p) PROVE Owns(q)'
  BY <1>00, <1>0, <1>9 DEF Stat
<1>10. ASSUME NEW p \in Procs, Judge(p) PROVE Owns(q)'
  BY <1>00, <1>0, <1>10 DEF Judge
<1>11. ASSUME NEW p \in Procs, Rename(p) PROVE Owns(q)'
  <2>1. pc[q] \in Holding /\ pc'[q] = pc[q] /\ Owns(q) /\ UNCHANGED <<mine, made, maker>>
    BY <1>00, <1>0, <1>11 DEF Rename
  <2>2. CASE lock = mine[q]
    <3>1. CASE lock' = lock
      <4>1. displaced' = displaced
        BY <1>00, <1>11, <3>1 DEF Rename
      <4>2. QED
        BY <1>00, <2>1, <3>1, <4>1
    <3>2. CASE lock' # lock
      <4>1. lock \in displaced'
        BY <1>00, <1>0, <1>11, <2>1, <2>2, <3>2 DEF Rename
      <4>2. ~(windows /\ pc[q] \in {"stamp", "body"})
        BY <1>00, <1>0, <1>11, <2>1, <2>2, <3>2 DEF Rename, Pinned, Open
      <4>3. QED
        BY <1>00, <2>1, <4>1, <4>2
    <3>3. QED
      BY <3>1, <3>2
  <2>3. CASE lock # mine[q]
    BY <1>00, <1>11, <2>1, <2>3 DEF Rename
  <2>4. QED
    BY <2>2, <2>3
<1>12. ASSUME NEW p \in Procs, Verify(p) PROVE Owns(q)'
  BY <1>00, <1>0, <1>12 DEF Verify
<1>13. ASSUME NEW p \in Procs, Restore(p) PROVE Owns(q)'
  <2>1. mine[q] \in Files => mine[q] # NoFile
    BY DEF Files
  <2>2. QED
    BY <1>00, <1>0, <1>13, <2>1 DEF Restore, Files
<1>14. ASSUME NEW p \in Procs, Crash(p) PROVE Owns(q)'
  BY <1>00, <1>0, <1>14 DEF Crash
<1>15. CASE Age
  BY <1>00, <1>0, <1>15 DEF Age
<1>16. CASE UNCHANGED vars
  BY <1>00, <1>0, <1>16 DEF vars
<1>17. QED
  BY <1>00, <1>1, <1>2, <1>3, <1>4, <1>5, <1>6, <1>7, <1>8, <1>8a, <1>9, <1>10, <1>11,
     <1>12, <1>13, <1>14, <1>15, <1>16 DEF Next, Step

LEMMA NobodyOwnsAtFirst == Init => OwnersOwn
<1> SUFFICES ASSUME Init, NEW p \in Procs \ crashed PROVE pc[p] \notin Holding
  BY DEF OwnersOwn
<1>1. p # Predecessor
  BY ConstantsOK DEF Init
<1>2. QED
  BY <1>1 DEF Init, Holding

\* Two live processes are past os.open of file_lock at once only if somebody
\* renamed away the lock of a live owner that had not released it.
THEOREM OnlyDisplacementShares == Spec => []ExclusiveUnlessDisplaced
<1>1. TypeOK /\ OwnersOwn => ExclusiveUnlessDisplaced
  BY DEF OwnersOwn, Owns, ExclusiveUnlessDisplaced, Exclusive, Holders, Holding
<1>2. QED
  BY <1>1, NobodyOwnsAtFirst, TypeCorrect, OwnershipKept, PTL DEF Spec

\* On Windows, where an open file cannot be renamed or deleted, file_lock is
\* exclusive for any number of processes whatever dies and however old a lock gets.
THEOREM WindowsExcludes == Spec => []ExclusiveOnWindows
<1>1. TypeOK /\ OwnersOwn => ExclusiveOnWindows
  BY DEF OwnersOwn, Owns, ExclusiveOnWindows, Exclusive, Holders, Holding, TypeOK
<1>2. QED
  BY <1>1, NobodyOwnsAtFirst, TypeCorrect, OwnershipKept, PTL DEF Spec

-----------------------------------------------------------------------------
(* file_lock implements Mutex: what each step does to the set of holders.    *)

Broken == ~windows /\ displaced # {}

LEMMA CreateEnters ==
  ASSUME TypeOK, OwnersOwn, [Next]_vars, NEW p \in Procs, Create(p)
  PROVE  Lock!Enter(p)
<1>1. /\ pc' = [pc EXCEPT ![p] = "stamp"] /\ pc[p] = "open" /\ p \notin crashed
      /\ UNCHANGED <<windows, displaced, crashed>>
      /\ lock = NoFile
  BY DEF Create, Goto, ghosts, Next, vars
<1>2. p \notin Holders /\ Holders' = Holders \union {p}
  BY <1>1 DEF Holders, TypeOK
<1>3. ASSUME NEW q \in Holders PROVE Broken
  <2>1. Owns(q) /\ pc[q] \in {"stamp", "body"}
    BY DEF OwnersOwn, Holders, Holding
  <2>2. mine[q] # NoFile
    BY <2>1, ConstantsOK DEF Owns, TypeOK
  <2>3. QED
    BY <1>1, <2>1, <2>2 DEF Owns, Broken
<1>4. QED
  BY <1>1, <1>2, <1>3 DEF Lock!Enter, Broken

LEMMA OnlyRenameBreaks ==
  ASSUME TypeOK, [Next]_vars, NEW p \in Procs, Rename(p)
  PROVE  Lock!Break \/ UNCHANGED <<Holders, Broken>>
<1>1. UNCHANGED <<windows, crashed>> /\ displaced \subseteq displaced'
  BY DEF Rename, Next, vars
<1>2. Holders' = Holders
  BY <1>1 DEF Rename, Goto, Holders, TypeOK
<1>3. Broken => Broken'
  BY <1>1 DEF Broken
<1>4. QED
  BY <1>2, <1>3 DEF Lock!Break, Broken

LEMMA StepsOfTheMutex ==
  ASSUME TypeOK, OwnersOwn, [Next]_vars
  PROVE  Lock!Next \/ UNCHANGED <<Holders, Broken>>
<1> USE DEF TypeOK, Goto, ghosts
<1>0. windows' = windows
  BY DEF Next, vars
<1>1. ASSUME NEW p \in Procs, Create(p) PROVE Lock!Next
  BY <1>1, CreateEnters DEF Lock!Next
<1>2. ASSUME NEW p \in Procs, Rename(p) PROVE Lock!Next \/ UNCHANGED <<Holders, Broken>>
  BY <1>2, OnlyRenameBreaks DEF Lock!Next
<1>3. ASSUME NEW p \in Procs, LeaveBody(p) \/ Crash(p)
      PROVE  Lock!Next \/ UNCHANGED <<Holders, Broken>>
  <2>1. UNCHANGED displaced /\ Holders' = Holders \ {p}
    BY <1>3 DEF LeaveBody, Crash, Holders
  <2>2. CASE p \in Holders
    BY <1>0, <2>1, <2>2 DEF Lock!Next, Lock!Leave
  <2>3. CASE p \notin Holders
    BY <1>0, <2>1, <2>3 DEF Broken
  <2>4. QED
    BY <2>2, <2>3
<1>4. ASSUME NEW p \in Procs,
             Start(p) \/ Exists(p) \/ GiveUp(p) \/ WriteStamp(p) \/ Unlink(p)
               \/ ReadStamp(p) \/ NoStamp(p) \/ Stat(p) \/ Judge(p)
               \/ Verify(p) \/ Restore(p)
      PROVE  UNCHANGED <<Holders, Broken>>
  <2>1. UNCHANGED <<displaced, crashed>>
    BY <1>4 DEF Start, Exists, GiveUp, WriteStamp, Unlink, ReadStamp, NoStamp, Stat, Judge,
                Verify, Restore
  <2>2. \A q \in Procs : pc'[q] \in {"stamp", "body"} <=> pc[q] \in {"stamp", "body"}
    BY <1>4 DEF Start, Exists, GiveUp, WriteStamp, Unlink, ReadStamp, NoStamp, Stat, Judge,
                Verify, Restore
  <2>3. QED
    BY <1>0, <2>1, <2>2 DEF Holders, Broken
<1>5. CASE Age \/ UNCHANGED vars
  BY <1>0, <1>5 DEF Age, vars, Holders, Broken
<1>6. QED
  BY <1>1, <1>2, <1>3, <1>4, <1>5 DEF Next, Step

\* Seen from the set of its holders, file_lock does what Mutex allows and nothing
\* else, for any processes and any number of files.
THEOREM FileLockImplementsMutex == Spec => ImplementsMutex
<1>1. Init => Lock!Init
  BY ConstantsOK DEF Init, Lock!Init, Holders
<1>2. TypeOK /\ OwnersOwn /\ [Next]_vars => [Lock!Next]_<<Holders, Broken>>
  BY StepsOfTheMutex
<1>3. QED
  BY <1>1, <1>2, NobodyOwnsAtFirst, TypeCorrect, OwnershipKept, PTL
     DEF Spec, ImplementsMutex, Lock!Spec, Broken

-----------------------------------------------------------------------------
(* Why nothing but a stale lock is deleted: the verdict of Judge is about    *)
(* facts that stay true (a dead owner, an mtime in the past), and the test   *)
(* of Verify carries it over to the file that was renamed.                   *)

Judged ==
  \A p \in Procs :
    pc[p] \in {"rename", "verify"} =>
      /\ raw[p] \in crashed \/ mtime[p] = NoFile \/ mtime[p] \in aged
      /\ pc[p] = "verify" => aside[p] \in Files

LEMMA JudgedKept ==
  ASSUME TypeOK, Judged, [Next]_vars PROVE Judged'
<1> USE DEF TypeOK, Judged, Goto, Unseen, files, reclaim, ghosts
<1> SUFFICES ASSUME NEW q \in Procs, pc'[q] \in {"rename", "verify"}
             PROVE  /\ raw'[q] \in crashed' \/ mtime'[q] = NoFile \/ mtime'[q] \in aged'
                    /\ pc'[q] = "verify" => aside'[q] \in Files
  OBVIOUS
<1>1. ASSUME NEW p \in Procs,
             Start(p) \/ Create(p) \/ Exists(p) \/ GiveUp(p) \/ WriteStamp(p)
               \/ LeaveBody(p) \/ Unlink(p) \/ ReadStamp(p) \/ NoStamp(p) \/ Stat(p)
      PROVE  /\ UNCHANGED <<raw[q], mtime[q], aside[q], aged, crashed>>
             /\ pc[q] = pc'[q]
  BY <1>1 DEF Start, Create, Exists, GiveUp, WriteStamp, LeaveBody, Unlink,
              ReadStamp, NoStamp, Stat
<1>2. ASSUME NEW p \in Procs, Judge(p)
      PROVE  /\ raw'[q] \in crashed' \/ mtime'[q] = NoFile \/ mtime'[q] \in aged'
             /\ pc'[q] = "verify" => aside'[q] \in Files
  <2>1. CASE q = p
    BY <1>2, <2>1 DEF Judge, Stale, TooOld
  <2>2. CASE q # p
    BY <1>2, <2>2 DEF Judge
  <2>3. QED
    BY <2>1, <2>2
<1>3. ASSUME NEW p \in Procs, Rename(p)
      PROVE  /\ UNCHANGED <<raw[q], mtime[q], aged, crashed>>
             /\ pc[q] \in {"rename", "verify"}
             /\ pc'[q] = "verify" => aside'[q] \in Files
  BY <1>3 DEF Rename
<1>4. ASSUME NEW p \in Procs, Verify(p) \/ Restore(p)
      PROVE  /\ UNCHANGED <<raw[q], mtime[q], aside[q], aged, crashed>>
             /\ pc[q] = pc'[q]
  BY <1>4 DEF Verify, Restore
<1>5. ASSUME (\E p \in Procs : Crash(p)) \/ Age \/ UNCHANGED vars
      PROVE  /\ UNCHANGED <<raw, mtime, aside, pc>>
             /\ aged \subseteq aged' /\ crashed \subseteq crashed'
  BY <1>5 DEF Crash, Age, vars
<1>6. QED
  BY <1>1, <1>2, <1>3, <1>4, <1>5 DEF Next, Step

\* A lock is deleted as stale only when its owner is dead, or when it went
\* unwritten for _MIGRATION_LOCK_MAX_AGE_S, whatever other processes did between
\* the read, the stat, the rename and the check of _reclaim_stale_lock.
THEOREM OnlyStaleDeleted == Spec => DeletedWasStale
<1>1. Init => Judged
  BY DEF Init, Judged
<1>2. ASSUME TypeOK, Judged, [Next]_vars, NEW p \in Procs,
             pc[p] = "verify", pc'[p] = "open"
      PROVE  maker[aside[p]] \in crashed \/ Mtime(aside[p]) \in aged
  <2>1. AsJudged(p)
    BY <1>2 DEF TypeOK, Next, Step, vars, Goto, Crash, Age, Start, Create, Exists,
       GiveUp, WriteStamp, LeaveBody, Unlink, ReadStamp, NoStamp, Stat, Judge, Rename,
       Verify, Restore
  <2>2. /\ aside[p] \in Files
        /\ raw[p] \in crashed \/ mtime[p] = NoFile \/ mtime[p] \in aged
    BY <1>2 DEF Judged
  <2>3. CASE raw[p] \in crashed
    BY <1>2, <2>1, <2>3, ConstantsOK DEF AsJudged, Stamp, TypeOK
  <2>4. CASE mtime[p] = NoFile
    <3>1. Mtime(aside[p]) \in Nat \X BOOLEAN
      BY <1>2, <2>2 DEF Mtime, TypeOK, Files
    <3>2. QED
      BY <2>1, <2>4, <3>1, ConstantsOK DEF AsJudged
  <2>5. CASE mtime[p] \in aged
    BY <2>1, <2>5 DEF AsJudged
  <2>6. QED
    BY <2>2, <2>3, <2>4, <2>5
<1>3. TypeOK /\ Judged /\ [Next]_vars =>
        [\A p \in Procs :
           (pc[p] = "verify" /\ pc'[p] = "open") =>
             \/ maker[aside[p]] \in crashed
             \/ Mtime(aside[p]) \in aged]_vars
  BY <1>2
<1>4. QED
  BY <1>1, <1>3, TypeCorrect, JudgedKept, PTL DEF Spec, DeletedWasStale

-----------------------------------------------------------------------------
(* Why two waiters exclude each other on POSIX too: as long as no live       *)
(* process's file got old, what a waiter renames away while the other holds  *)
(* it fails the check of Verify, and the waiter puts it back.                *)

\* Besides the predecessor at most two processes use the lock.
TwoWaiters == \A p, q, r \in Procs \ {Predecessor} : p = q \/ p = r \/ q = r

OldAndLive == \E m \in aged : maker[m[1]] \notin crashed

\* q's file is at lock_path, or p has it aside and is about to put it back.
InReach(p, q) ==
  \/ lock = mine[q]
  \/ lock = NoFile /\ pc[p] \in {"verify", "restore"} /\ aside[p] = mine[q]

HeldInReach ==
  /\ Predecessor # NoFile => Predecessor \in crashed
  /\ \A p, q \in Procs \ crashed :
       p # q /\ pc[q] \in Holding => OldAndLive \/ InReach(p, q)

\* Two live processes are not past os.open together, unless a file got old.
LEMMA OneOfTwo ==
  ASSUME TypeOK, OwnersOwn, HeldInReach, ~OldAndLive,
         NEW p \in Procs \ crashed, NEW q \in Procs \ crashed, p # q,
         pc[q] \in Holding
  PROVE  pc[p] \notin Holding
<1> SUFFICES ASSUME pc[p] \in Holding PROVE FALSE
  OBVIOUS
<1>1. maker[mine[p]] = p /\ maker[mine[q]] = q
  BY DEF OwnersOwn, Owns
<1>2. lock = mine[p] /\ lock = mine[q]
  BY DEF HeldInReach, InReach, Holding
<1>3. QED
  BY <1>1, <1>2

\* What Judge said of the file p holds aside cannot be true of q's file.
LEMMA LiveOwnerSpared ==
  ASSUME TypeOK, OwnersOwn, Judged, ~OldAndLive, NEW p \in Procs,
         NEW q \in Procs \ crashed, pc[q] \in Holding,
         pc[p] = "verify", aside[p] = mine[q]
  PROVE  ~AsJudged(p)
<1> SUFFICES ASSUME AsJudged(p) PROVE FALSE
  OBVIOUS
<1>1. aside[p] \in Files /\ maker[aside[p]] = q
  BY DEF OwnersOwn, Owns, Judged
<1>2. raw[p] \notin crashed
  <2>1. NoFile \notin crashed
    BY ConstantsOK DEF TypeOK
  <2>2. QED
    BY <1>1, <2>1 DEF AsJudged, Stamp
<1>3. mtime[p] # NoFile
  <2>1. Mtime(aside[p]) \in Nat \X BOOLEAN
    BY <1>1 DEF Mtime, TypeOK, Files
  <2>2. QED
    BY <2>1, ConstantsOK DEF AsJudged
<1>4. Mtime(aside[p]) \notin aged
  BY <1>1 DEF OldAndLive, Mtime
<1>5. QED
  BY <1>2, <1>3, <1>4 DEF Judged, AsJudged

\* A file that is old while its maker lives makes OldAndLive true for good.
LEMMA OldAndLiveStays ==
  ASSUME TypeOK, OldAndLive, [Next]_vars, crashed' = crashed PROVE OldAndLive'
<1> USE DEF TypeOK, files, reclaim, ghosts
<1>1. PICK m \in aged : maker[m[1]] \notin crashed
  BY DEF OldAndLive
<1>2. m \in aged'
  BY DEF Next, Step, vars, Age, Start, Create, Exists, GiveUp, WriteStamp, LeaveBody,
         Unlink, ReadStamp, NoStamp, Stat, Judge, Rename, Verify, Restore, Crash
<1>3. maker'[m[1]] \notin crashed
  <2>1. CASE \E p \in Procs : Create(p)
    BY <1>1, <2>1 DEF Create, Goto, Mtimes
  <2>2. CASE ~\E p \in Procs : Create(p)
    BY <1>1, <2>2 DEF Next, Step, vars, Age, Start, Exists, GiveUp, WriteStamp, LeaveBody,
         Unlink, ReadStamp, NoStamp, Stat, Judge, Rename, Verify, Restore, Crash
  <2>3. QED
    BY <2>1, <2>2
<1>4. QED
  BY <1>2, <1>3 DEF OldAndLive

LEMMA ReachKept ==
  ASSUME TwoWaiters, TypeOK, TypeOK', OwnersOwn, Judged, HeldInReach, [Next]_vars
  PROVE  HeldInReach'
<1> USE ConstantsOK DEF TypeOK, Goto, files, reclaim, ghosts
<1>0. crashed \subseteq crashed'
  BY DEF Next, Step, vars, Age, Start, Create, Exists, GiveUp, WriteStamp, LeaveBody,
         Unlink, ReadStamp, NoStamp, Stat, Judge, Rename, Verify, Restore, Crash
<1> SUFFICES ASSUME NEW p \in Procs \ crashed', NEW q \in Procs \ crashed', p # q,
                    pc'[q] \in Holding, ~OldAndLive'
             PROVE  InReach(p, q)'
  BY <1>0 DEF HeldInReach
<1>1. p \notin crashed /\ q \notin crashed /\ p # Predecessor /\ q # Predecessor
  BY <1>0 DEF HeldInReach
<1>2. ASSUME NEW r \in Procs, r \notin crashed PROVE r = p \/ r = q
  BY <1>1, <1>2 DEF TwoWaiters, HeldInReach
<1>3. crashed' = crashed
  <2>1. ASSUME NEW r \in Procs, Crash(r) PROVE FALSE
    BY <1>2, <2>1 DEF Crash
  <2>2. QED
    BY <2>1 DEF Next, Step, vars, Age, Start, Create, Exists, GiveUp, WriteStamp,
         LeaveBody, Unlink, ReadStamp, NoStamp, Stat, Judge, Rename, Verify, Restore
<1>4. ~OldAndLive
  BY <1>3, OldAndLiveStays
<1>5. pc[q] \in Holding => InReach(p, q) /\ pc[p] \notin Holding /\ mine[q] # NoFile
  BY <1>1, <1>4, OneOfTwo DEF HeldInReach, OwnersOwn, Owns
<1>6. ASSUME NEW r \in Procs, Create(r) PROVE InReach(p, q)'
  <2>1. r = p \/ r = q
    BY <1>2, <1>6 DEF Create
  <2>2. CASE r = q
    BY <1>6, <2>2 DEF Create, InReach
  <2>3. CASE r = p
    BY <1>5, <1>6, <2>3 DEF Create, InReach
  <2>4. QED
    BY <2>1, <2>2, <2>3
<1>7. ASSUME NEW r \in Procs,
             Start(r) \/ Exists(r) \/ GiveUp(r) \/ ReadStamp(r) \/ NoStamp(r)
               \/ Stat(r) \/ Judge(r)
      PROVE  InReach(p, q)'
  <2>1. r = p
    BY <1>2, <1>7 DEF Start, Exists, GiveUp, ReadStamp, NoStamp, Stat, Judge, Holding
  <2>2. UNCHANGED <<lock, mine>> /\ pc[q] = pc'[q] /\ pc[p] \notin {"verify", "restore"}
    BY <1>7, <2>1 DEF Start, Exists, GiveUp, ReadStamp, NoStamp, Stat, Judge
  <2>3. QED
    BY <1>5, <2>2 DEF InReach
<1>8. ASSUME NEW r \in Procs, WriteStamp(r) \/ LeaveBody(r) \/ Unlink(r)
      PROVE  InReach(p, q)'
  <2>1. r \notin crashed /\ pc[r] \in Holding
    BY <1>8 DEF WriteStamp, LeaveBody, Unlink, Holding
  <2>2. r # p
    BY <1>5, <1>8, <2>1 DEF WriteStamp, LeaveBody, Unlink
  <2>3. r = q
    BY <1>2, <2>1, <2>2
  <2>4. UNCHANGED <<lock, mine, aside>> /\ pc'[p] = pc[p]
    BY <1>8, <2>3 DEF WriteStamp, LeaveBody, Unlink, Holding
  <2>5. QED
    BY <1>5, <2>1, <2>3, <2>4 DEF InReach
<1>9. ASSUME NEW r \in Procs, Rename(r) PROVE InReach(p, q)'
  <2>1. r = p
    BY <1>2, <1>9 DEF Rename, Holding
  <2>2. UNCHANGED mine /\ pc[q] = pc'[q] /\ pc[p] = "rename"
    BY <1>9, <2>1 DEF Rename
  <2>3. lock = mine[q]
    BY <1>5, <2>2 DEF InReach
  <2>4. QED
    BY <1>9, <2>1, <2>2, <2>3 DEF Rename, InReach
<1>10. ASSUME NEW r \in Procs, Verify(r) PROVE InReach(p, q)'
  <2>1. r = p
    BY <1>2, <1>10 DEF Verify, Holding
  <2>2. UNCHANGED <<lock, mine>> /\ pc[q] = pc'[q] /\ pc[p] = "verify"
    BY <1>10, <2>1 DEF Verify
  <2>3. CASE lock = mine[q]
    BY <2>2, <2>3 DEF InReach
  <2>4. CASE lock # mine[q]
    <3>1. lock = NoFile /\ aside[p] = mine[q]
      BY <1>5, <2>2, <2>4 DEF InReach
    <3>2. ~AsJudged(p)
      BY <1>1, <1>4, <2>2, <3>1, LiveOwnerSpared
    <3>3. pc'[p] = "restore" /\ UNCHANGED aside
      BY <1>10, <2>1, <3>2 DEF Verify
    <3>4. QED
      BY <2>2, <3>1, <3>3 DEF InReach
  <2>5. QED
    BY <2>3, <2>4
<1>11. ASSUME NEW r \in Procs, Restore(r) PROVE InReach(p, q)'
  <2>1. r = p
    BY <1>2, <1>11 DEF Restore, Holding
  <2>2. UNCHANGED mine /\ pc[q] = pc'[q]
    BY <1>11, <2>1 DEF Restore
  <2>3. QED
    BY <1>5, <1>11, <2>1, <2>2 DEF Restore, InReach
<1>12. CASE (\E r \in Procs : Crash(r)) \/ Age \/ UNCHANGED vars
  <2>1. UNCHANGED <<lock, mine, aside, pc>>
    BY <1>12 DEF Crash, Age, vars
  <2>2. QED
    BY <1>5, <2>1 DEF InReach
<1>13. QED
  BY <1>6, <1>7, <1>8, <1>9, <1>10, <1>11, <1>12 DEF Next, Step

\* Two processes that use a lock exclude each other on every system, whatever died
\* before them and wherever either of them dies, as long as no live process leaves
\* its file unwritten for _MIGRATION_LOCK_MAX_AGE_S: what file_lock renames away of
\* a live owner, it puts back before anybody else can create the file.
THEOREM TwoExclude == ASSUME TwoWaiters PROVE Spec => []ExclusiveUnlessAged
<1>1. Init => HeldInReach
  <2> SUFFICES ASSUME Init PROVE HeldInReach
    OBVIOUS
  <2>1. \A q \in Procs \ crashed : pc[q] = "idle"
    BY ConstantsOK DEF Init
  <2>2. QED
    BY <2>1 DEF Init, HeldInReach, Holding
<1>2. Init => Judged
  BY DEF Init, Judged
<1>3. TypeOK /\ OwnersOwn /\ HeldInReach => ExclusiveUnlessAged
  <2> SUFFICES ASSUME TypeOK, OwnersOwn, HeldInReach, ~OldAndLive,
                      NEW p \in Holders, NEW q \in Holders, p # q
               PROVE  FALSE
    BY DEF ExclusiveUnlessAged, Exclusive, OldAndLive
  <2>1. QED
    BY OneOfTwo DEF Holders, Holding
<1>4. TypeOK /\ TypeOK' /\ OwnersOwn /\ Judged /\ HeldInReach /\ [Next]_vars
        => HeldInReach'
  BY ReachKept
<1>5. QED
  BY <1>1, <1>2, <1>3, <1>4, NobodyOwnsAtFirst, TypeCorrect, OwnershipKept, JudgedKept,
     PTL DEF Spec
=============================================================================
