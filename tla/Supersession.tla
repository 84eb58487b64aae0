---------------------------- MODULE Supersession ----------------------------
(***************************************************************************)
(* How memories replace one another (bin/memory/write.py).  A memory is     *)
(* closed, and a "supersedes" edge written to it, by the contradiction      *)
(* check of a write, by the same check made later for a memory whose vector *)
(* was not there in time, by memory_supersede with new content or with an   *)
(* existing memory, and by memory_dedup.  Each of them decides on what it   *)
(* has read and writes in later transactions; the only guard between them   *)
(* is the conditional UPDATE of _mark_superseded.                           *)
(*                                                                         *)
(* The memories are those of one type and one owner, so similar that every  *)
(* two of them are compared.  They are numbered as they are inserted.       *)
(***************************************************************************)
EXTENDS Naturals, FiniteSets

CONSTANTS
    MaxMemories,  \* bound: memories that are ever written
    Texts,        \* contents that differ from each other
    TextOf,       \* TextOf[m]: the content of memory m
    OptsOut,      \* memories whose writer wants no check, or no vector: bulk writes
    Procs,        \* processes; each runs one tool call or one sweep at a time
    Sweepers,     \* the processes that run embed_backfill
    PerSweep,     \* _OWED_CHECKS_PER_SWEEP
    Touched,      \* bound: the memories that are deleted, brought back or relabelled by hand
    MaxMishaps    \* bound: failed checks and roll-backs, deaths, and memories deleted,
                  \* brought back or relabelled by hand, together

Memories == 1 .. MaxMemories
NoMemory == 0

ASSUME SupersessionAssumption ==
    /\ MaxMemories \in Nat /\ MaxMishaps \in Nat /\ PerSweep \in Nat \ {0}
    /\ TextOf \in [Memories -> Texts] /\ OptsOut \subseteq Memories
    /\ Sweepers \subseteq Procs

VARIABLES
    made,      \* how many memories were inserted
    live,      \* memories with is_deleted = 0
    vector,    \* memories with a row in memory_embeddings
    owed,      \* memories whose metadata says that their check is deferred
    edges,     \* <<n, o>>: n supersedes o
    work,      \* what each call and each sweeper is doing
    mishaps,
    meant,     \* history: <<n, o>>, n was written to replace o
    checked,   \* history: memories whose contradiction check ran to its end
    excused,   \* history: memories whose check or roll-back failed or was cut off
    restored,  \* history: memories brought back by the dashboard
    lost       \* history: a memory was deleted, or closed in favour of one that was
               \* closed

store == <<made, live, vector, owed, edges>>
history == <<meant, checked, excused, restored, lost>>
vars == <<store, work, mishaps, history>>

Steps == {"idle", "embed", "flag", "look", "close", "insert", "take", "retire",
          "undo", "apply", "rows", "clear"}
Idle == [at |-> "idle", new |-> NoMemory, old |-> NoMemory, todo |-> {}, sweep |-> FALSE, due |-> {}]

Init ==
    /\ made = 0 /\ live = {} /\ vector = {} /\ owed = {} /\ edges = {}
    /\ work = [p \in Procs |-> Idle]
    /\ mishaps = 0
    /\ meant = {} /\ checked = {} /\ excused = {} /\ restored = {}
    /\ lost = FALSE

Made == 1 .. made
Conflict(a, b) == TextOf[a] # TextOf[b]
At(p, step) == work[p].at = step
Goes(p, step) == work' = [work EXCEPT ![p].at = step]
Rests(p) == work' = [work EXCEPT ![p] = Idle]
Mishap == mishaps < MaxMishaps /\ mishaps' = mishaps + 1

-----------------------------------------------------------------------------
(* What the paths share *)

\* INSERT INTO memory_items
Fresh == made + 1
Inserted == made < MaxMemories /\ made' = Fresh /\ live' = live \cup {Fresh}

Any(o) == o \in Made \* Mutant of Active: the close is unconditional.
\* The UPDATE's "AND is_deleted = 0"
Active(o) == o \in live

\* _mark_superseded closes the old memories in one transaction; one that is
\* closed already gets no edge.
MarkSuperseded(n, old) ==
    LET closing == {o \in old : Active(o)} IN
    /\ live' = live \ closing
    /\ edges' = edges \cup ({n} \X closing)
    /\ lost' = (lost \/ (closing # {} /\ n \notin live))

-----------------------------------------------------------------------------
(* memory_write *)

\* A caller that opts out of the check or of the vector is done with the insert.
Write(p) ==
    /\ At(p, "idle")
    /\ Inserted
    /\ IF Fresh \in OptsOut
       THEN UNCHANGED work
       ELSE work' = [work EXCEPT ![p] = [Idle EXCEPT !.at = "embed", !.new = Fresh]]
    /\ UNCHANGED <<vector, owed, edges, mishaps, history>>

\* The embedder answers in time, or the check must wait for the backfill.
Embed(p) ==
    /\ At(p, "embed")
    /\ \/ vector' = vector \cup {work[p].new} /\ Goes(p, "look")
       \/ UNCHANGED vector /\ Goes(p, "flag")
    /\ UNCHANGED <<made, live, owed, edges, mishaps, history>>

Flag(p) ==
    /\ At(p, "flag")
    /\ owed' = owed \cup {work[p].new}
    /\ Rests(p)
    /\ UNCHANGED <<made, live, vector, edges, mishaps, history>>

-----------------------------------------------------------------------------
(* _check_contradictions, of a write or of a sweep *)

\* Mutant of Candidates: only what was written before is looked at.
OlderCandidates(n) == {m \in live \cap vector : m < n /\ Conflict(m, n)}
Candidates(n) == {m \in live \cap vector : m # n /\ Conflict(m, n)}

\* A sweep clears the flag after the check.
AfterCheck(p) == IF work[p].sweep THEN work' = [work EXCEPT ![p].at = "clear", ![p].todo = {}] ELSE Rests(p)

\* These are still to be closed; after the last of them the check is over.
GoesOn(p, left) ==
    IF left = {}
    THEN AfterCheck(p) /\ checked' = checked \cup {work[p].new}
    ELSE work' = [work EXCEPT ![p].at = "close", ![p].todo = left] /\ UNCHANGED checked

Look(p) ==
    /\ At(p, "look")
    /\ GoesOn(p, Candidates(work[p].new))
    /\ UNCHANGED <<store, mishaps, meant, excused, restored, lost>>

Close(p) ==
    /\ At(p, "close")
    /\ \E o \in work[p].todo :
        /\ MarkSuperseded(work[p].new, {o})
        /\ GoesOn(p, work[p].todo \ {o})
    /\ UNCHANGED <<made, vector, owed, mishaps, meant, excused, restored>>

\* Its scan or one of its closes raises; the rest is given up, and the caller is
\* not told.
CheckFails(p) ==
    /\ At(p, "look") \/ At(p, "close")
    /\ Mishap
    /\ excused' = excused \cup {work[p].new}
    /\ AfterCheck(p)
    /\ UNCHANGED <<store, meant, checked, restored, lost>>

-----------------------------------------------------------------------------
(* memory_supersede *)

Never(n, o) == FALSE \* Mutant of ReplacesItself: the two ids are not compared.
ReplacesItself(n, o) == n = o

\* With new content, or with the id of an existing memory, which is read next: the
\* two reads are one step, since the close looks at the old memory again.
ReadOld(p) ==
    /\ At(p, "idle")
    /\ \E o \in live :
        \/ work' = [work EXCEPT ![p] = [Idle EXCEPT !.at = "insert", !.old = o]]
        \/ \E n \in live :
            /\ ~ReplacesItself(n, o)
            /\ work' = [work EXCEPT ![p] = [Idle EXCEPT !.at = "retire", !.old = o, !.new = n]]
    /\ UNCHANGED <<store, mishaps, history>>

\* The replacement is written without a check; a rejected write ends the call.
Insert(p) ==
    /\ At(p, "insert")
    /\ \/ /\ Inserted
          /\ work' = [work EXCEPT ![p].at = "take", ![p].new = Fresh]
          /\ meant' = meant \cup {<<Fresh, work[p].old>>}
       \/ /\ Rests(p)
          /\ UNCHANGED <<made, live, meant>>
    /\ UNCHANGED <<vector, owed, edges, mishaps, checked, excused, restored, lost>>

LeavesOrphan(p) == Rests(p) \* Mutant of AfterLoss: the replacement stays.
\* Who loses the race for the old memory rolls its replacement back.
AfterLoss(p) == IF At(p, "take") THEN Goes(p, "undo") ELSE Rests(p)

Take(p) ==
    /\ At(p, "take") \/ At(p, "retire")
    /\ MarkSuperseded(work[p].new, {work[p].old})
    /\ IF Active(work[p].old) THEN Rests(p) ELSE AfterLoss(p)
    /\ UNCHANGED <<made, vector, owed, mishaps, meant, checked, excused, restored>>

\* By then others may have closed memories in its favour.
Undo(p) ==
    /\ At(p, "undo")
    /\ \/ /\ live' = live \ {work[p].new}
          /\ lost' = (lost \/ (\E o \in Memories : <<work[p].new, o>> \in edges))
          /\ UNCHANGED <<mishaps, excused>>
       \/ /\ Mishap
          /\ excused' = excused \cup {work[p].new}
          /\ UNCHANGED <<live, lost>>
    /\ Rests(p)
    /\ UNCHANGED <<made, vector, owed, edges, meant, checked, restored>>

-----------------------------------------------------------------------------
(* memory_dedup keeps the newest of a group, and closes the others later *)

Scan(p) ==
    /\ At(p, "idle")
    /\ \E n \in live \cap vector : \E others \in SUBSET {m \in live \cap vector : m < n} :
        /\ others # {}
        /\ work' = [work EXCEPT ![p] = [Idle EXCEPT !.at = "apply", !.new = n, !.todo = others]]
    /\ UNCHANGED <<store, mishaps, history>>

Apply(p) ==
    /\ At(p, "apply")
    /\ MarkSuperseded(work[p].new, work[p].todo)
    /\ Rests(p)
    /\ UNCHANGED <<made, vector, owed, mishaps, meant, checked, excused, restored>>

-----------------------------------------------------------------------------
(* embed_backfill: vectors, and then the checks that are owed *)

\* A vector that comes late: from a sweep, or for a memory that no check waits for
Backfill(m) ==
    /\ m \in live \ vector
    /\ vector' = vector \cup {m}
    /\ UNCHANGED <<made, live, owed, edges, work, mishaps, history>>

NextRow(p, due) ==
    work' = [work EXCEPT ![p] = IF due = {} THEN Idle ELSE [Idle EXCEPT !.at = "rows", !.sweep = TRUE, !.due = due]]

\* Mutant of Due: the rows a sweep fetches to embed them.
DueUnembedded == {m \in live : m \in owed /\ m \notin vector}
Due == {m \in live : m \in owed /\ m \in vector}

ListDue(p) ==
    /\ At(p, "idle")
    /\ \E due \in SUBSET Due :
        /\ due # {} /\ Cardinality(due) <= PerSweep
        /\ due = Due \/ Cardinality(due) = PerSweep
        /\ NextRow(p, due)
    /\ UNCHANGED <<store, mishaps, history>>

\* Mutant of ReadRow: the flag is taken down before the check.
ReadRowAndClear(p) ==
    /\ At(p, "rows")
    /\ \E m \in work[p].due :
        /\ owed' = owed \ {m}
        /\ IF m \in owed /\ m \in live \cap vector
           THEN work' = [work EXCEPT ![p].at = "look", ![p].new = m, ![p].due = @ \ {m}]
           ELSE NextRow(p, work[p].due \ {m})
    /\ UNCHANGED <<made, live, vector, edges, mishaps, history>>

\* A row without the flag or without a vector is left as it is.
ReadRow(p) ==
    /\ At(p, "rows")
    /\ \E m \in work[p].due :
        IF m \in owed /\ (m \in live => m \in vector)
        THEN work' = [work EXCEPT ![p].at = IF m \in live THEN "look" ELSE "clear", ![p].new = m, ![p].due = @ \ {m}]
        ELSE NextRow(p, work[p].due \ {m})
    /\ UNCHANGED <<store, mishaps, history>>

Clear(p) ==
    /\ At(p, "clear")
    /\ owed' = owed \ {work[p].new}
    /\ NextRow(p, work[p].due)
    /\ UNCHANGED <<made, live, vector, edges, mishaps, history>>

-----------------------------------------------------------------------------
(* Other writers of a row, and deaths *)

Delete(m) ==
    /\ m \in live
    /\ live' = live \ {m}
    /\ Mishap
    /\ lost' = TRUE
    /\ UNCHANGED <<made, vector, owed, edges, work, meant, checked, excused, restored>>

\* The dashboard's "resolve" leaves the edges as they are.
Restore(m) ==
    /\ m \in Made \ live
    /\ Mishap
    /\ live' = live \cup {m}
    /\ restored' = restored \cup {m}
    /\ UNCHANGED <<made, vector, owed, edges, work, meant, checked, excused, lost>>

\* memory_update with new metadata overwrites the flag with the rest.
Relabel(m) ==
    /\ m \in owed
    /\ Mishap
    /\ owed' = owed \ {m}
    /\ excused' = excused \cup {m}
    /\ UNCHANGED <<made, live, vector, edges, work, meant, checked, restored, lost>>

\* The steps at which a call still owes its memory a check, a flag or a roll-back
Promised == {"embed", "flag", "look", "close", "take", "undo"}

\* What a sweep had in hand keeps its flag; what a call had in hand does not.  A death
\* at another step is a call that goes no further, and leaves nothing behind.
Die(p) ==
    /\ work[p].at \in Promised
    /\ Mishap
    /\ excused' = IF work[p].sweep THEN excused ELSE excused \cup {work[p].new}
    /\ Rests(p)
    /\ UNCHANGED <<store, meant, checked, restored, lost>>

-----------------------------------------------------------------------------
MemoryWrite(p) == Write(p) \/ Embed(p) \/ Flag(p)
CheckContradictions(p) == Look(p) \/ Close(p)
MemorySupersede(p) == ReadOld(p) \/ Insert(p) \/ Take(p) \/ Undo(p)
MemoryDedup(p) == Scan(p) \/ Apply(p)
RunOwedChecks(p) == ListDue(p) \/ ReadRow(p) \/ Clear(p)

Next ==
    \/ \E p \in Procs : MemoryWrite(p) \/ CheckContradictions(p) \/ MemorySupersede(p) \/ MemoryDedup(p)
    \/ \E p \in Sweepers : RunOwedChecks(p)
    \/ \E p \in Procs : CheckFails(p) \/ Die(p)
    \/ \E m \in Memories : Backfill(m) \/ (m \in Touched /\ (Delete(m) \/ Restore(m) \/ Relabel(m)))

Spec == Init /\ [][Next]_vars

\* A process that is at rest starts sweeps again and again; what it started goes on.
Fairness ==
    /\ \A p \in Sweepers :
        /\ SF_vars(ListDue(p))
        /\ WF_vars(~At(p, "idle") /\ (MemoryWrite(p) \/ CheckContradictions(p) \/ MemorySupersede(p)
                                       \/ MemoryDedup(p) \/ RunOwedChecks(p)))
    /\ \A m \in Memories : WF_vars(Backfill(m))

FairSpec == Spec /\ Fairness

-----------------------------------------------------------------------------
(* Properties *)

\* Every memory and every call is of its type, and only memories that were
\* inserted are live, embedded, flagged, linked or in anybody's hands.
TypeOK ==
    /\ made \in 0 .. MaxMemories
    /\ {live, vector, owed, checked, excused, restored} \subseteq SUBSET Made
    /\ {edges, meant} \subseteq SUBSET (Made \X Made)
    /\ work \in [Procs -> [at : Steps, new : Made \cup {NoMemory}, old : Made \cup {NoMemory},
                            todo : SUBSET Made, sweep : BOOLEAN, due : SUBSET Made]]
    /\ mishaps \in 0 .. MaxMishaps
    /\ lost \in BOOLEAN

\* "The CAS makes exactly one writer win" (_check_contradictions): however many
\* paths decide to replace a memory, it is superseded once, unless it was brought
\* back.
ReplacedOnce ==
    \A o \in Memories \ restored : \A a, b \in Memories : {<<a, o>>, <<b, o>>} \subseteq edges => a = b

\* The call that wrote n as a replacement has come to its end.
Settled(n) == \A p \in Procs : work[p].new = n => work[p].at \notin {"take", "undo"}

\* "Two racing callers can never both replace the same memory"
\* (memory_supersede_impl): of the memories written to replace one, at most one is
\* live once their calls ended, unless one died or could not roll back, or was
\* brought back.
OneReplacement ==
    \A o \in Memories \ restored : \A a, b \in live \ (excused \cup restored) :
        {<<a, o>>, <<b, o>>} \subseteq meant /\ Settled(a) /\ Settled(b) => a = b

\* Contradiction detection: of two memories that contradict each other and were
\* both checked, at whatever times, one has been closed, unless one was brought
\* back.
NoConflictStands ==
    \A a, b \in (checked \cap live) \ restored : ~Conflict(a, b)

\* The supersedes edges, followed from m as far as they go, come to a live memory.
FollowsEdges(S) == \A n, o \in Memories : <<n, o>> \in edges /\ o \in S => n \in S
EndsLive(m) == \A S \in SUBSET Memories : m \in S /\ FollowsEdges(S) => S \cap live # {}

\* "Retiring into a closed memory would leave the fact with no live copy"
\* (_supersede_into_existing): as long as that did not happen, and nobody deleted
\* a memory, something is live, and whatever chain of replacements, roll-backs and
\* checks came after it, a memory that replaced another is live or leads to one.
StandsUnlessLost ==
    ~lost => /\ made > 0 => live # {}
             /\ \A n, o \in Memories : <<n, o>> \in edges => EndsLive(n)

\* "The flag is the record of the promise" (owed_contradiction_checks): the check of
\* a live memory whose writer asked for it ran, or is under way, or is flagged, unless
\* it failed without a word, its flag was overwritten or it was brought back.
Asked == {m \in Made \ OptsOut : \A o \in Memories : <<m, o>> \notin meant}
NoCheckLost ==
    \A m \in (Asked \cap live) \ (checked \cup excused \cup restored) :
        m \in owed \/ \E p \in Procs : work[p].new = m /\ work[p].at \in {"embed", "flag", "look", "close"}

\* And some day it runs, or the memory is closed: again and again no live memory has
\* a check that is still owed.
OwedIsChecked == []<>(live \cap owed \subseteq checked \cup excused \cup restored)
=============================================================================
