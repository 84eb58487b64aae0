----------------------------- MODULE SpillDrain -----------------------------
(***************************************************************************)
(* The spill files of the chat log.  chatlog_core._spill_batch appends     *)
(* turns that could not be written to the day file; the drains of the      *)
(* cognitive loop and of the sweeper (bin/chatlog_embed_sweeper.py) claim  *)
(* the file by renaming it, write its turns to their stores, rewrite or    *)
(* remove it, and set what cannot be written aside in quarantine/, to be   *)
(* tried again once a day.  Nothing keeps two drains apart but renames.    *)
(*                                                                         *)
(* A line is the turn it holds, a file the set of its lines, and {} stands *)
(* for "no such file".  Every rename, rewrite and removal of a file is a    *)
(* step of its own.                                                        *)
(***************************************************************************)
EXTENDS Naturals, FiniteSets

CONSTANTS
    Turns,        \* chat log turns
    Targets,      \* the stores turns were captured for (_db_path)
    TargetOf,     \* TargetOf[t]: the store of turn t
    Foreign,      \* targets a drain refuses: reaped or scratch stores
    Drains,       \* processes that drain
    Names,        \* bound: names of claimed files; a forgotten name is taken again
    MaxAttempts,  \* _spill_max_attempts()
    MaxMishaps    \* bound: outages, failed system calls and deaths, together

Day == "YYYYMMDD.jsonl"

ASSUME NumbersAssumption == MaxAttempts \in Nat \ {0} /\ MaxMishaps \in Nat

ASSUME FilesAssumption ==
    TargetOf \in [Turns -> Targets] /\ Foreign \subseteq Targets /\ Day \notin Names

VARIABLES
    day,      \* the lines of the live day file
    torn,     \* the day file ends in the middle of a line
    glued,    \* turns whose line was appended to such an end: no JSON object
    garbled,  \* files such an end, inside a character, made undecodable
    spilled,  \* turns whose _spill_batch returned
    spill,    \* the claimed ("draining") files
    quar,     \* the files in quarantine/
    reason,   \* the files of quarantine/ with a .reason.json sidecar
    tries,    \* the .attempts sidecars of the claimed files
    qdir,     \* quarantine/ exists
    due,      \* QUARANTINE_RETRY_S have passed since .last_retry
    parked,   \* lines moved to <file>.bad or foreign-<file>
    store,    \* turns in their store
    target,   \* the condition of each store
    drain,    \* what each drain is doing
    mishaps

writers == <<day, torn, glued, garbled, spilled>>
aside == <<quar, reason, qdir, due>>
vars == <<writers, spill, aside, tries, parked, store, target, drain, mishaps>>

Conditions == {"ready", "busy", "broken"}
Steps == {"idle", "retry", "return", "returned", "next", "open", "insert",
          "settle", "record", "quarantine", "reason"}

\* The local variables of drain_spill, _retry_quarantined and _drain_one.
Idle == [pc |-> "idle", todo |-> {}, name |-> Day, dest |-> Day,
         lines |-> {}, left |-> {}, keep |-> {}, counted |-> FALSE]

Init ==
    /\ day = {} /\ torn = FALSE /\ glued = {} /\ garbled = {} /\ spilled = {}
    /\ spill = [f \in Names |-> {}] /\ quar = [f \in Names |-> {}]
    /\ reason = [f \in Names |-> FALSE] /\ tries = [f \in Names |-> 0]
    /\ qdir = FALSE /\ due = TRUE
    /\ parked = {} /\ store = {}
    /\ target = [x \in Targets |-> "ready"]
    /\ drain = [d \in Drains |-> Idle]
    /\ mishaps = 0

Mishap == mishaps < MaxMishaps /\ mishaps' = mishaps + 1
Smooth == UNCHANGED mishaps

\* A call comes to nothing because of c, or else by mishap.
FailsBy(c) == IF c THEN Smooth ELSE Mishap

-----------------------------------------------------------------------------
(* The writers of turns, the stores and the clock. *)

\* _spill_batch, under the spill lock.  The first line of the batch continues
\* the line an earlier append left unfinished.
SpillBatch(batch) ==
    /\ batch # {} /\ batch \cap spilled = {}
    /\ day' = day \cup batch /\ spilled' = spilled \cup batch
    /\ \E first \in batch : glued' = IF torn THEN glued \cup {first} ELSE glued
    /\ torn' = FALSE
    /\ UNCHANGED <<garbled, spill, aside, tries, parked, store, target, drain, mishaps>>

\* The disk is full or the process dies before a line is complete: _spill_batch
\* does not return, so nothing is promised about its turns.  A file cut inside
\* a character cannot be decoded, however it goes on.
AppendBreaksOff ==
    /\ Mishap /\ ~torn
    /\ torn' = TRUE /\ garbled' \in {garbled, garbled \cup {Day}}
    /\ UNCHANGED <<day, glued, spilled, spill, aside, tries, parked, store, target, drain>>

\* A store gets busy (Dialect.is_transient_error), or loses its schema ...
StoreFails(x) ==
    /\ Mishap
    /\ \E c \in Conditions \ {"ready", target[x]} : target' = [target EXCEPT ![x] = c]
    /\ UNCHANGED <<writers, spill, aside, tries, parked, store, drain>>

\* ... and works again.
StoreRecovers(x) ==
    /\ target[x] # "ready" /\ target' = [target EXCEPT ![x] = "ready"]
    /\ UNCHANGED <<writers, spill, aside, tries, parked, store, drain, mishaps>>

DayPasses ==
    /\ ~due /\ due' = TRUE
    /\ UNCHANGED <<writers, spill, quar, reason, qdir, tries, parked, store, target, drain, mishaps>>

-----------------------------------------------------------------------------
(* A pass of a drain: the daily retry, then every spill file there is. *)

At(d, pc) == drain[d].pc = pc
To(d, pc) == drain' = [drain EXCEPT ![d].pc = pc]
Skip(d, f) == drain' = [drain EXCEPT ![d].todo = @ \ {f}]

\* The next file of the pass.
Onward(d, todo) == drain' = [drain EXCEPT ![d] = [Idle EXCEPT !.pc = "next", !.todo = todo]]
NextFile(d) == Onward(d, drain[d].todo)

\* glob(spill_dir/*.jsonl).
Pending == {f \in Names : spill[f] # {}} \cup (IF day # {} \/ torn THEN {Day} ELSE {})

\* A name made of a process id and the time: no file has it, no drain knows it.
Fresh == {f \in Names : /\ spill[f] = {} /\ quar[f] = {}
                        /\ \A d \in Drains : f \notin drain[d].todo \cup {drain[d].name, drain[d].dest}}

\* A renamed file is as undecodable as it was.
Renamed(f, g) == (garbled \ {f, g}) \cup (IF f \in garbled THEN {g} ELSE {})

\* drain_spill begins: _retry_quarantined at most once in QUARANTINE_RETRY_S,
\* for the files with a reason.
StartPass(d) ==
    /\ At(d, "idle")
    /\ IF qdir /\ due
       THEN drain' = [drain EXCEPT ![d].pc = "retry", ![d].todo = {f \in Names : reason[f]}]
       ELSE Onward(d, Pending)
    /\ UNCHANGED <<writers, spill, aside, tries, parked, store, target, mishaps>>

\* os.path.isfile(src), os.path.exists(dest).
CheckReturn(d, f) ==
    /\ At(d, "retry") /\ f \in drain[d].todo
    /\ IF quar[f] # {} /\ spill[f] = {}
       THEN drain' = [drain EXCEPT ![d].pc = "return", ![d].name = f]
       ELSE Skip(d, f)
    /\ UNCHANGED <<writers, spill, aside, tries, parked, store, target, mishaps>>

\* os.replace(src, dest); it raises when the file is gone, and the retry ends.
MoveBack(d) ==
    /\ At(d, "return")
    /\ LET f == drain[d].name IN
          \/ /\ quar[f] # {} /\ Smooth
             /\ spill' = [spill EXCEPT ![f] = quar[f]]
             /\ quar' = [quar EXCEPT ![f] = {}]
             /\ To(d, "returned")
          \/ /\ FailsBy(quar[f] = {})
             /\ Onward(d, Pending) /\ UNCHANGED <<spill, quar>>
    /\ UNCHANGED <<writers, reason, qdir, due, tries, parked, store, target>>

\* Mutant of LastChance: the count of a returned file is as it was.
NoChance == MaxAttempts

LastChance == MaxAttempts - 1

\* The returned file has one attempt left, and its reason goes.
MovedBack(d) ==
    /\ At(d, "returned")
    /\ LET f == drain[d].name IN
          \/ /\ tries' = [tries EXCEPT ![f] = LastChance]
             /\ \/ Smooth /\ reason' = [reason EXCEPT ![f] = FALSE]
                \/ Mishap /\ UNCHANGED reason
             /\ drain' = [drain EXCEPT ![d].pc = "retry", ![d].todo = @ \ {f}, ![d].name = Day]
          \/ Mishap /\ Onward(d, Pending) /\ UNCHANGED <<tries, reason>>
    /\ UNCHANGED <<writers, spill, quar, qdir, due, parked, store, target>>

StampRetry(d) ==
    /\ At(d, "retry") /\ drain[d].todo = {}
    /\ due' = FALSE
    /\ Onward(d, Pending)
    /\ UNCHANGED <<writers, spill, quar, reason, qdir, tries, parked, store, target, mishaps>>

\* _claim_spill_file: the day file gets a name of its own, under the spill lock.
\* The unfinished line of a day file goes to <file>.bad with the pass; a file of
\* nothing else is gone with it.
Claim(d) ==
    /\ At(d, "next") /\ Day \in drain[d].todo
    /\ \/ /\ day # {} /\ Smooth
          /\ \E f \in Fresh :
                /\ spill' = [spill EXCEPT ![f] = day] /\ garbled' = Renamed(Day, f)
                /\ tries' = [tries EXCEPT ![f] = 0] /\ reason' = [reason EXCEPT ![f] = FALSE]
                /\ drain' = [drain EXCEPT ![d].pc = "open", ![d].name = f, ![d].todo = @ \ {Day}]
          /\ day' = {} /\ torn' = FALSE /\ qdir' = (qdir \/ torn)
       \/ /\ day = {} /\ Smooth /\ Skip(d, Day)
          /\ torn' = FALSE /\ garbled' = garbled \ {Day} /\ qdir' = (qdir \/ torn)
          /\ UNCHANGED <<day, spill, tries, reason>>
       \/ /\ Mishap /\ Skip(d, Day)
          /\ UNCHANGED <<day, torn, garbled, qdir, spill, tries, reason>>
    /\ UNCHANGED <<glued, spilled, quar, due, parked, store, target>>

\* A file claimed by an earlier pass, or by another drain, is taken as it is.
TakeOver(d, f) ==
    /\ At(d, "next") /\ f \in drain[d].todo \ {Day}
    /\ drain' = [drain EXCEPT ![d].pc = "open", ![d].name = f, ![d].todo = @ \ {f}]
    /\ UNCHANGED <<writers, spill, aside, tries, parked, store, target, mishaps>>

EndPass(d) ==
    /\ At(d, "next") /\ drain[d].todo = {}
    /\ drain' = [drain EXCEPT ![d] = Idle]
    /\ UNCHANGED <<writers, spill, aside, tries, parked, store, target, mishaps>>

\* _quarantine_spill names the destination, and takes another name when it exists.
Condemn(d) ==
    LET f == drain[d].name IN
    \E g \in (IF quar[f] = {} THEN {f} ELSE Fresh) :
        /\ drain' = [drain EXCEPT ![d].pc = "quarantine", ![d].dest = g]
        /\ reason' = IF g = f THEN reason ELSE [reason EXCEPT ![g] = FALSE]

\* A file whose budget is spent is not opened; one that is gone by now, or cannot
\* be decoded, raises, and that counts as an attempt.
Open(d) ==
    /\ At(d, "open")
    /\ LET f == drain[d].name IN
          \/ /\ tries[f] >= MaxAttempts
             /\ Condemn(d) /\ UNCHANGED tries
          \/ /\ tries[f] < MaxAttempts /\ (spill[f] = {} \/ f \in garbled)
             /\ tries' = [tries EXCEPT ![f] = @ + 1]
             /\ IF tries[f] + 1 >= MaxAttempts THEN Condemn(d) ELSE NextFile(d) /\ UNCHANGED reason
          \/ /\ tries[f] < MaxAttempts /\ spill[f] # {} /\ f \notin garbled
             /\ drain' = [drain EXCEPT ![d].pc = "insert", ![d].lines = spill[f], ![d].left = spill[f]]
             /\ UNCHANGED <<tries, reason>>
    /\ UNCHANGED <<writers, spill, quar, qdir, due, parked, store, target, mishaps>>

\* Mutant of Kept: only what a store refused for good is kept.
KeptIfCounted(d, group, counted) == drain[d].keep \cup (IF counted THEN group ELSE {})

\* keep.extend(raws): lines that found no place this pass.
Kept(d, group, counted) == drain[d].keep \cup group

\* Mutant of Group: a line that is no JSON object is written as well.
MalformedToo(d, x) == {t \in drain[d].left : TargetOf[t] = x}

\* per_db: the lines of a target that are JSON objects.
Group(d, x) == {t \in drain[d].left \ glued : TargetOf[t] = x}

\* _drain_one writes the lines of one target, in one transaction that ignores
\* turns already there.
Insert(d, x) ==
    /\ At(d, "insert") /\ x \notin Foreign
    /\ LET group == Group(d, x)
           broken == target[x] = "broken"
       IN /\ group # {}
          /\ IF target[x] = "ready"
             THEN /\ store' = store \cup group
                  /\ drain' = [drain EXCEPT ![d].left = @ \ group]
             ELSE /\ drain' = [drain EXCEPT ![d].left = @ \ group, ![d].keep = Kept(d, group, broken),
                                            ![d].counted = @ \/ broken]
                  /\ UNCHANGED store
    /\ UNCHANGED <<writers, spill, aside, tries, parked, target, mishaps>>

\* _park_lines, for the malformed lines and for the lines of foreign stores.
Park(d) ==
    /\ At(d, "insert")
    /\ LET left == drain[d].left IN
          /\ \A t \in left : t \in glued \/ TargetOf[t] \in Foreign
          /\ \E moved \in {left, left \cap glued, left \ glued, {}} :
                /\ FailsBy(moved = left)
                /\ parked' = parked \cup moved
                /\ qdir' = (qdir \/ moved # {})
                /\ drain' = [drain EXCEPT ![d].pc = "settle", ![d].left = {},
                                          ![d].keep = Kept(d, left \ moved, TRUE),
                                          ![d].counted = @ \/ left # moved]
    /\ UNCHANGED <<writers, spill, quar, reason, due, tries, store, target>>

\* The file is removed, or rewritten without the lines that found their place,
\* whatever another drain has done to it meanwhile.
Settle(d) ==
    /\ At(d, "settle")
    /\ LET f == drain[d].name
           keep == drain[d].keep
       IN /\ \/ /\ keep # drain[d].lines /\ Smooth
                /\ spill' = [spill EXCEPT ![f] = keep]
             \/ /\ FailsBy(keep = drain[d].lines)
                /\ UNCHANGED spill
          /\ IF keep = {}
             THEN tries' = [tries EXCEPT ![f] = 0] /\ NextFile(d)
             ELSE /\ UNCHANGED tries
                  /\ drain' = [drain EXCEPT ![d].pc = "record", ![d].lines = {}, ![d].keep = {}]
    /\ UNCHANGED <<writers, aside, parked, store, target>>

\* _record_attempt: only failures that are not temporary count toward quarantine.
Record(d) ==
    /\ At(d, "record")
    /\ LET f == drain[d].name
           n == tries[f] + (IF drain[d].counted THEN 1 ELSE 0)
       IN /\ \/ Smooth /\ tries' = [tries EXCEPT ![f] = n]
             \/ Mishap /\ UNCHANGED tries
          /\ IF drain[d].counted /\ n >= MaxAttempts THEN Condemn(d) ELSE NextFile(d) /\ UNCHANGED reason
    /\ UNCHANGED <<writers, spill, quar, qdir, due, parked, store, target>>

\* _quarantine_spill moves the file; os.replace raises when the file is gone.
Quarantine(d) ==
    /\ At(d, "quarantine")
    /\ qdir' = TRUE
    /\ LET f == drain[d].name
           g == drain[d].dest
       IN \/ /\ spill[f] # {} /\ Smooth
             /\ quar' = [quar EXCEPT ![g] = spill[f]]
             /\ spill' = [spill EXCEPT ![f] = {}]
             /\ garbled' = Renamed(f, g)
             /\ To(d, "reason")
          \/ /\ FailsBy(spill[f] = {})
             /\ NextFile(d) /\ UNCHANGED <<spill, quar, garbled>>
    /\ UNCHANGED <<day, torn, glued, spilled, reason, due, tries, parked, store, target>>

\* The .attempts sidecar goes, the reason is written.
WriteReason(d) ==
    /\ At(d, "reason")
    /\ tries' = [tries EXCEPT ![drain[d].name] = 0]
    /\ \/ Smooth /\ reason' = [reason EXCEPT ![drain[d].dest] = TRUE]
       \/ Mishap /\ UNCHANGED reason
    /\ NextFile(d)
    /\ UNCHANGED <<writers, spill, quar, qdir, due, parked, store, target>>

\* The process that drains dies.
Crash(d) ==
    /\ Mishap /\ ~At(d, "idle")
    /\ drain' = [drain EXCEPT ![d] = Idle]
    /\ UNCHANGED <<writers, spill, aside, tries, parked, store, target>>

Retry(d) == (\E f \in Names : CheckReturn(d, f)) \/ MoveBack(d) \/ MovedBack(d) \/ StampRetry(d)
DrainOne(d) == (\E x \in Targets : Insert(d, x)) \/ Park(d) \/ Settle(d) \/ Record(d)
SetAside(d) == Quarantine(d) \/ WriteReason(d)
DrainSpill(d) ==
    \/ StartPass(d) \/ Retry(d)
    \/ Claim(d) \/ (\E f \in Names : TakeOver(d, f)) \/ Open(d)
    \/ DrainOne(d) \/ SetAside(d) \/ EndPass(d)

World ==
    \/ (\E batch \in SUBSET Turns : SpillBatch(batch)) \/ AppendBreaksOff \/ DayPasses
    \/ (\E x \in Targets : StoreFails(x) \/ StoreRecovers(x))

Next == World \/ \E d \in Drains : DrainSpill(d) \/ Crash(d)

Spec == Init /\ [][Next]_vars

\* The loop and the sweeper drain again and again, and days pass.
Fairness == WF_vars(DayPasses) /\ \A d \in Drains : WF_vars(DrainSpill(d))

FairSpec == Spec /\ Fairness

-----------------------------------------------------------------------------
(* What the drain promises. *)

DrainState ==
    [pc : Steps, todo : SUBSET (Names \cup {Day}), name : Names \cup {Day}, dest : Names \cup {Day},
     lines : SUBSET Turns, left : SUBSET Turns, keep : SUBSET Turns, counted : BOOLEAN]

\* A drain past the choice of a file works on a claimed name, what it has read
\* was spilled, and what it keeps or has left to do is a part of what it has read.
SoundDrain(r) ==
    /\ r \in DrainState
    /\ r.pc \in {"return", "returned", "open", "insert", "settle", "record", "quarantine", "reason"}
          => r.name \in Names
    /\ r.pc \in {"quarantine", "reason"} => r.dest \in Names
    /\ r.lines \subseteq spilled /\ r.left \cup r.keep \subseteq r.lines
    /\ r.pc \in {"insert", "settle"} <=> r.lines # {}
    /\ r.pc = "settle" => r.left = {}

\* Types, what a drain at each step knows, and that nothing is in quarantine
\* without a quarantine directory.
TypeOK ==
    /\ day \subseteq spilled /\ garbled \subseteq Names \cup {Day} /\ torn \in BOOLEAN /\ glued \subseteq spilled /\ spilled \subseteq Turns
    /\ spill \in [Names -> SUBSET spilled] /\ quar \in [Names -> SUBSET spilled]
    /\ reason \in [Names -> BOOLEAN] /\ tries \in [Names -> Nat]
    /\ qdir \in BOOLEAN /\ due \in BOOLEAN
    /\ parked \subseteq spilled /\ store \subseteq spilled
    /\ target \in [Targets -> Conditions]
    /\ drain = [d \in Drains |-> drain[d]] /\ \A d \in Drains : SoundDrain(drain[d])
    /\ mishaps \in 0 .. MaxMishaps
    /\ (\E f \in Names : quar[f] # {}) => qdir

Placed == store \cup parked
OnDisk == day \cup UNION {spill[f] \cup quar[f] : f \in Names}

\* "Every line ends in exactly one place" (_drain_one): whatever two drains do to
\* the same file, whoever dies and whatever fails, a spilled turn is in its
\* store, parked, or in a file.
NothingDropped == spilled \subseteq Placed \cup OnDisk

\* "Every line ends in exactly one place": of what is accepted and placed, all the
\* renames, copies, rewrites, failures and deaths show no more than a shelf would. A
\* turn waits in some file until it is stored or parked, and is never both.
Shelf == INSTANCE SpillShelf WITH waiting <- OnDisk \ Placed, stored <- store, parked <- parked
ImplementsShelf == Shelf!Spec

\* _retry_quarantined goes by the reasons: a file without one stays for ever.
Stranded == UNION {IF reason[f] THEN {} ELSE quar[f] : f \in Names}

\* No drain can read these turns.
Undecodable == (IF Day \in garbled THEN day ELSE {}) \cup UNION {spill[f] \cup quar[f] : f \in garbled \ {Day}}

\* Once the stores work again and no two drains run together, every turn gets to its
\* store, by the daily retry if need be; except lines that are parked, files whose
\* drain died on the way to quarantine, and files cut inside a character.
Lands ==
    /\ \A x \in Targets : <>[](target[x] = "ready")
    /\ <>[](\A d, e \in Drains : d = e \/ At(d, "idle") \/ At(e, "idle"))
    => \A t \in Turns : t \in spilled ~> (t \in Placed \/ [](t \in Stranded \cup Undecodable))

\* "The drain picks them up" (_spill_batch): a turn whose append returned is not
\* among the malformed lines, which no drain tries again.
NotMalformed == \A t \in parked : TargetOf[t] \in Foreign
=============================================================================
