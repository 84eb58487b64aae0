---------------------------- MODULE HaltProtocol ----------------------------
(***************************************************************************)
(* The quiesce protocol of bin/m3_halt.py.  An installer that needs the    *)
(* stores for itself raises the HALT_m3 file and waits until it sees no    *)
(* writer (_quiesce_db_writers of m3_memory/setup_wizard.py); a cognitive  *)
(* loop looks at the file before every pass, leaves the registry and       *)
(* pauses while the halt is up (main_loop of bin/m3_cognitive_loop.py); a  *)
(* server (MCP, dashboard) registers and never looks.  The installer reads *)
(* one process after the other, a loop reads the file and opens its store  *)
(* in two steps, and a reader that finds the halt of a dead owner deletes  *)
(* the file by its name in a step of its own.  So does a reader of the     *)
(* registry with an entry it cannot read: one that is just being written,  *)
(* or that its writer removed since the reader listed it.                  *)
(*                                                                         *)
(* A process that starts again has a new pid, so the entry a dead one left *)
(* in the registry never counts: it is dropped when the process ends.      *)
(***************************************************************************)
EXTENDS Naturals

CONSTANTS
  Loops,       \* cognitive loops: they honour the halt
  Servers,     \* MCP servers and dashboards: they do not
  Installers,
  Elusive,     \* bound: writers whose command line may be unreadable and whose
               \* entry in PID/ may get lost
  MaxStarts,   \* bound: starts of loops and servers in one behaviour
  None         \* "no HALT_m3 file"

Writers == Loops \union Servers

ASSUME ConstantsOK ==
  /\ MaxStarts \in Nat /\ Elusive \subseteq Loops \union Servers
  /\ Loops \intersect Servers = {}
  /\ None \notin Installers

VARIABLES
  halt,        \* the installer named in HALT_m3, or None
  registry,    \* the running writers whose entry in PID/ can be read
  doomed,      \* entries some reader could not read and is about to unlink
  unlisted,    \* writers whose entry was unlinked, or whose write failed
  readable,    \* writers whose command line an installer may read
  pc,          \* where each writer is
  voiding,     \* loops about to delete a halt they found stale
  asked,       \* writers an installer has sent a signal to
  step,        \* where each installer is
  left,        \* left[i]: writers i has not read yet in this look
  found,       \* found[i]: writers i has found running in this look
  newcomers,   \* newcomers[i]: writers started since i raised the halt
  starts       \* writers started so far

halting == <<halt, voiding>>
entries == <<registry, doomed, unlisted>>
writing == <<entries, readable, pc, asked, starts>>
looking == <<left, found, newcomers>>
vars == <<halting, writing, step, looking>>

\* Where a loop that runs has registered as a holder of the stores, and where it
\* is sure of its pass.  The checkpoint of "pausing" is no pass, though it opens
\* the store too.
Registered == {"top", "go", "pass", "pausing"}
InPass == {"go", "pass"}
Places == Registered \union
          {"off", "starting", "signing", "paused", "resuming", "serving"}

\* Where an installer has raised the halt and relies on it.
Waiting == {"wait", "stuck"}
Halts(i) == step[i] \in Waiting \union {"install"}
Steps == Waiting \union {"idle", "raise", "install", "bare", "leave", "gone"}

TypeOK ==
  /\ halt \in Installers \union {None}
  /\ registry \union doomed \union unlisted \subseteq {p \in Writers : pc[p] # "off"}
  /\ readable \subseteq Writers
  /\ pc \in [Writers -> Places]
  /\ voiding \subseteq {l \in Loops : pc[l] \in {"top", "paused"}}
  /\ asked \subseteq Writers
  /\ step \in [Installers -> Steps]
  /\ left \in [Installers -> SUBSET Writers]
  /\ found \in [Installers -> SUBSET Writers]
  /\ newcomers \in [Installers -> SUBSET Writers]
  /\ starts \in 0..MaxStarts

Init ==
  /\ halt = None
  /\ registry = {} /\ doomed = {} /\ unlisted = {}
  /\ \E hidden \in SUBSET Elusive : readable = Writers \ hidden
  /\ pc = [p \in Writers |-> "off"]
  /\ voiding = {}
  /\ asked = {}
  /\ step = [i \in Installers |-> "idle"]
  /\ left = [i \in Installers |-> {}]
  /\ found = [i \in Installers |-> {}]
  /\ newcomers = [i \in Installers |-> {}]
  /\ starts = 0

Running(p) == pc[p] # "off"

OwnerAssumed(i) == TRUE
\* _pid_is_live_owner: the process that wrote the file still runs.
OwnerLives(i) == step[i] # "gone"

\* halt_is_active, by what it finds: no file, a live owner, or a dead one.
Down == halt = None
Active == halt # None /\ OwnerLives(halt)
Stale == halt # None /\ ~OwnerLives(halt)

\* list_live_processes, and scan_db_writer_processes, which finds what runs
\* whether it has an entry or not.
Entered(p) == Running(p) /\ p \in registry
Scanned(p) == Running(p) /\ p \in readable

\* list_blocking_db_writers.
Sees(p) == Entered(p) \/ Scanned(p)

GoesTo(p, place) == pc' = [pc EXCEPT ![p] = place]
\* deregister, and the reaping of an entry whose process is gone.
Deregisters(p) == registry' = registry \ {p}

\* A writer has opened its entry and not yet filled it.
HalfWritten(p) == pc[p] = "signing" /\ p \notin unlisted

\* A reader lists half-written entries, and goes on to unlink them.  (So does one
\* whose entry is gone since it was listed; what that one unlinks later, a reader
\* of the next half-written entry may unlink as well.)
Dooms(S) ==
  \E listed \in SUBSET {p \in S \intersect Elusive : HalfWritten(p)} :
    doomed' = doomed \union listed

-----------------------------------------------------------------------------
(* Writers *)

Starts(p) ==
  /\ pc[p] = "off"
  /\ starts < MaxStarts
  /\ GoesTo(p, "starting")
  /\ starts' = starts + 1
  /\ newcomers' = [i \in Installers |->
                     IF Halts(i) THEN newcomers[i] \union {p}
                                  ELSE newcomers[i]]
  /\ UNCHANGED <<halting, entries, readable, asked, step, left, found>>

\* register_process opens the entry: the file is there, and empty.
SignsUp(p) ==
  /\ pc[p] \in {"starting", "resuming"}
  /\ GoesTo(p, "signing")
  /\ UNCHANGED <<halting, entries, readable, asked, starts, step, looking>>

\* The payload is written, if the disk allows, to the file that was opened,
\* whether it still has its name or not; the process goes on in any case.
Writes(p) ==
  \E written \in {TRUE, p \notin Elusive} :
    IF written /\ p \notin unlisted
    THEN registry' = registry \union {p} /\ UNCHANGED unlisted
    ELSE unlisted' = unlisted \union {p} /\ UNCHANGED registry

\* Mutant of Registers: the halt was looked at before, and is not again.
GoesOnAtOnce(p) ==
  /\ pc[p] = "signing"
  /\ Writes(p)
  /\ GoesTo(p, IF p \in Loops THEN "go" ELSE "serving")
  /\ UNCHANGED <<halting, doomed, readable, asked, starts, step, looking>>

\* Once it has registered, a loop that starts or resumes looks at the halt.
Registers(p) ==
  /\ pc[p] = "signing"
  /\ Writes(p)
  /\ GoesTo(p, IF p \in Loops THEN "top" ELSE "serving")
  /\ UNCHANGED <<halting, doomed, readable, asked, starts, step, looking>>

\* A clean stop, a kill or a crash.
Ends(p) ==
  /\ Running(p)
  /\ GoesTo(p, "off")
  /\ Deregisters(p)
  /\ doomed' = doomed \ {p} /\ unlisted' = unlisted \ {p}
  /\ voiding' = voiding \ {p}
  /\ asked' = asked \ {p}
  /\ UNCHANGED <<halt, readable, starts, step, looking>>

\* The halt is looked at before every pass.
SeesHalt(l) ==
  /\ pc[l] = "top"
  /\ l \notin voiding
  /\ Active
  /\ GoesTo(l, "pausing")
  /\ UNCHANGED <<halting, entries, readable, asked, starts, step, looking>>

SeesNone(l) ==
  /\ pc[l] = "top"
  /\ l \notin voiding
  /\ Down
  /\ GoesTo(l, "go")
  /\ UNCHANGED <<halting, entries, readable, asked, starts, step, looking>>

FindsStale(l) ==
  /\ pc[l] \in {"top", "paused"}
  /\ l \notin voiding
  /\ Stale
  /\ voiding' = voiding \union {l}
  /\ UNCHANGED <<halt, writing, step, looking>>

\* _reap unlinks the path, whoever's file is there by now; the caller is told
\* that no halt is active.
Voids(l) ==
  /\ l \in voiding
  /\ halt' = None
  /\ voiding' = voiding \ {l}
  /\ GoesTo(l, IF pc[l] = "top" THEN "go" ELSE "resuming")
  /\ UNCHANGED <<entries, readable, asked, starts, step, looking>>

OpensStore(l) ==
  /\ pc[l] = "go"
  /\ GoesTo(l, "pass")
  /\ UNCHANGED <<halting, entries, readable, asked, starts, step, looking>>

EndsPass(l) ==
  /\ pc[l] = "pass"
  /\ GoesTo(l, "top")
  /\ UNCHANGED <<halting, entries, readable, asked, starts, step, looking>>

\* The checkpoint, then the entry goes.
Pauses(l) ==
  /\ pc[l] = "pausing"
  /\ Deregisters(l) /\ unlisted' = unlisted \ {l}
  /\ GoesTo(l, "paused")
  /\ UNCHANGED <<halting, doomed, readable, asked, starts, step, looking>>

SeesLowered(l) ==
  /\ pc[l] = "paused"
  /\ l \notin voiding
  /\ Down
  /\ GoesTo(l, "resuming")
  /\ UNCHANGED <<halting, entries, readable, asked, starts, step, looking>>

LoopStep(l) ==
  \/ SignsUp(l) \/ Registers(l) \/ SeesHalt(l) \/ SeesNone(l) \/ FindsStale(l)
  \/ Voids(l) \/ OpensStore(l) \/ EndsPass(l) \/ Pauses(l) \/ SeesLowered(l)

-----------------------------------------------------------------------------
(* Readers of the registry *)

\* list_live_processes, called by a doctor, a dashboard or a watchdog.
Lists(p) ==
  /\ Dooms({p})
  /\ UNCHANGED <<halting, registry, unlisted, readable, pc, asked, starts, step, looking>>

\* _reap unlinks the entry by its name, complete or not by now; if it fails, it is
\* as if the reader had not come.
Reaps(p) ==
  /\ p \in doomed
  /\ doomed' = doomed \ {p}
  /\ registry' = registry \ {p}
  /\ unlisted' = IF p \in registry \/ HalfWritten(p) THEN unlisted \union {p} ELSE unlisted
  /\ UNCHANGED <<halting, readable, pc, asked, starts, step, looking>>

-----------------------------------------------------------------------------
(* Installers *)

At(i, s) == step[i] = s
MovesTo(i, s) == step' = [step EXCEPT ![i] = s]

LooksAfresh(i) ==
  /\ left' = [left EXCEPT ![i] = Writers]
  /\ found' = [found EXCEPT ![i] = {}]
  /\ UNCHANGED newcomers

Forgets(i) ==
  /\ left' = [left EXCEPT ![i] = {}]
  /\ found' = [found EXCEPT ![i] = {}]
  /\ newcomers' = [newcomers EXCEPT ![i] = {}]

\* The first look, taken as one step.  Nobody is writing: the install goes on
\* with no halt raised.
FindsNobody(i) ==
  /\ At(i, "idle")
  /\ \A p \in Writers : ~Sees(p)
  /\ MovesTo(i, "bare")
  /\ Dooms(Writers)
  /\ UNCHANGED <<halting, registry, unlisted, readable, pc, asked, starts, looking>>

FindsWriters(i) ==
  /\ At(i, "idle")
  /\ \E p \in Writers : Sees(p)
  /\ MovesTo(i, "raise")
  /\ Dooms(Writers)
  /\ UNCHANGED <<halting, registry, unlisted, readable, pc, asked, starts, looking>>

\* wait_for_quiesce reads one process after the other.
Reads(i, p) ==
  /\ At(i, "wait")
  /\ p \in left[i]
  /\ left' = [left EXCEPT ![i] = @ \ {p}]
  /\ found' = [found EXCEPT ![i] = IF Sees(p) THEN @ \union {p} ELSE @]
  /\ Dooms({p})
  /\ UNCHANGED <<halting, registry, unlisted, readable, pc, asked, starts, step, newcomers>>

\* set_halt replaces whatever file is there; then wait_for_quiesce looks.
RaisesHalt(i) ==
  /\ At(i, "raise")
  /\ halt' = i
  /\ MovesTo(i, "wait")
  /\ LooksAfresh(i)
  /\ UNCHANGED <<voiding, writing>>

Quiesced(i) ==
  /\ At(i, "wait")
  /\ left[i] = {} /\ found[i] = {}
  /\ MovesTo(i, "install")
  /\ UNCHANGED <<halting, writing, looking>>

Polls(i) ==
  /\ At(i, "wait")
  /\ left[i] = {} /\ found[i] # {}
  /\ LooksAfresh(i)
  /\ UNCHANGED <<halting, writing, step>>

TimesOut(i) ==
  /\ At(i, "wait")
  /\ left[i] = {} /\ found[i] # {}
  /\ MovesTo(i, "stuck")
  /\ UNCHANGED <<halting, writing, looking>>

\* "wait": another wait with the same timeout.
WaitsMore(i) ==
  /\ At(i, "stuck")
  /\ MovesTo(i, "wait")
  /\ LooksAfresh(i)
  /\ UNCHANGED <<halting, writing>>

\* "kill", or --force-quiesce: the stuck ones are signalled, and waited for.
KillsStuck(i) ==
  /\ At(i, "stuck")
  /\ asked' = asked \union {p \in found[i] : Running(p)}
  /\ MovesTo(i, "wait")
  /\ LooksAfresh(i)
  /\ UNCHANGED <<halting, entries, readable, pc, starts>>

\* "abort", no --force-quiesce, an ancestor, or a kill that was refused.
GivesUp(i) ==
  /\ At(i, "stuck")
  /\ halt' = None
  /\ MovesTo(i, "leave")
  /\ Forgets(i)
  /\ UNCHANGED <<voiding, writing>>

\* _lower_halt, after the exclusive steps: also when no halt was raised.
Lowers(i) ==
  /\ step[i] \in {"install", "bare"}
  /\ halt' = None
  /\ MovesTo(i, "leave")
  /\ Forgets(i)
  /\ UNCHANGED <<voiding, writing>>

\* The finally of run_setup lowers it again on the way out.
Leaves(i) ==
  /\ At(i, "leave")
  /\ halt' = None
  /\ MovesTo(i, "gone")
  /\ UNCHANGED <<voiding, writing, looking>>

Crashes(i) ==
  /\ step[i] \notin {"idle", "gone"}
  /\ MovesTo(i, "gone")
  /\ Forgets(i)
  /\ UNCHANGED <<halting, writing>>

Answers(i) == KillsStuck(i) \/ GivesUp(i)

InstallerStep(i) ==
  \/ \E p \in Writers : Reads(i, p)
  \/ RaisesHalt(i) \/ Quiesced(i) \/ Lowers(i) \/ Leaves(i)

-----------------------------------------------------------------------------

Next ==
  \/ \E p \in Writers :
       Starts(p) \/ SignsUp(p) \/ Registers(p) \/ Ends(p) \/ Lists(p) \/ Reaps(p)
  \/ \E l \in Loops : LoopStep(l)
  \/ \E i \in Installers :
       \/ FindsNobody(i) \/ FindsWriters(i) \/ InstallerStep(i)
       \/ Polls(i) \/ TimesOut(i) \/ WaitsMore(i) \/ Answers(i) \/ Crashes(i)

Fairness ==
  /\ \A l \in Loops : WF_vars(LoopStep(l))
  /\ \A p \in Writers : WF_vars(p \in asked /\ Ends(p))
  /\ \A i \in Installers :
       /\ WF_vars(InstallerStep(i))
       /\ SF_vars(TimesOut(i))
       /\ SF_vars(Answers(i))

Spec == Init /\ [][Next]_vars
FairSpec == Spec /\ Fairness

-----------------------------------------------------------------------------

\* While an installer that waited for the writers installs and its HALT_m3 is
\* still the file that is there, no loop runs a pass: not one that was paused
\* and read the file before it was raised, and not one that starts now
\* (register first, look at the halt after; wait_for_quiesce, main_loop).  The
\* exception is a loop that neither the registry nor the scan can show: its entry
\* was unlinked under it or never written, and its command line is unreadable.
ExclusiveIsQuiet ==
  \A i \in Installers, l \in Loops :
    At(i, "install") /\ halt = i /\ pc[l] \in InPass => l \in unlisted \ readable

\* An installer that raised the halt goes on only when every writer it could
\* see is gone: what runs beside the install has started since, or had a
\* command line it could not read and was not registered when it looked.
OnlyNewcomers ==
  \A i \in Installers, p \in readable :
    At(i, "install") /\ Running(p) => p \in newcomers[i]

\* No loop is paused for ever: the installer lowers the halt, or gives up, or
\* dies and its halt is voided by the next look of the loop.
LoopsResume == \A l \in Loops : pc[l] = "paused" ~> pc[l] # "paused"
=============================================================================
