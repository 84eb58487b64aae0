------------------------- MODULE ChatlogIngestProofs -------------------------
(* What holds of the hooks and servers of ChatlogIngest for any turns,       *)
(* processes, queue sizes and number of mishaps: the types, that the cursor  *)
(* runs ahead of no row, that no row leaves memory but as CapturedTurns      *)
(* allows, that turns are stored once, and that the hooks are under the      *)
(* cursor's lock as Mutex allows.                                            *)
EXTENDS ChatlogIngest, FiniteSetTheorems, TLAPS

USE DEF given

LEMMA PartsOfFiniteSet ==
  ASSUME NEW S, IsFiniteSet(S), NEW B \in SUBSET S
  PROVE  /\ IsFiniteSet(B) /\ IsFiniteSet(S \ B)
         /\ Cardinality(S) \in Nat /\ Cardinality(B) \in Nat /\ Cardinality(S \ B) \in Nat
         /\ Cardinality(S \ B) + Cardinality(B) = Cardinality(S)
<1>0. S \cap B = B
  OBVIOUS
<1>1. IsFiniteSet(B) /\ S \cap B = B
  BY <1>0, FS_Subset
<1>2. IsFiniteSet(S \ B) /\ Cardinality(S \ B) = Cardinality(S) - Cardinality(S \cap B)
  BY FS_Difference, Zenon
<1>3. Cardinality(S) \in Nat /\ Cardinality(B) \in Nat /\ Cardinality(S \ B) \in Nat
  BY <1>1, <1>2, FS_CardinalityType
<1>4. Cardinality(S \ B) = Cardinality(S) - Cardinality(B)
  BY <1>0, <1>2
<1>5. QED
  BY <1>1, <1>2, <1>3, <1>4

LEMMA UnionOfDisjoint ==
  ASSUME NEW S, IsFiniteSet(S), NEW T, IsFiniteSet(T), S \cap T = {}
  PROVE  /\ IsFiniteSet(S \cup T) /\ Cardinality(S) \in Nat /\ Cardinality(T) \in Nat
         /\ Cardinality(S \cup T) = Cardinality(S) + Cardinality(T)
<1>1. IsFiniteSet(S \cup T) /\ Cardinality(S \cup T) = Cardinality(S) + Cardinality(T) - Cardinality(S \cap T)
  BY FS_Union
<1>2. Cardinality(S) \in Nat /\ Cardinality(T) \in Nat /\ Cardinality(S \cap T) = 0
  BY FS_CardinalityType, FS_EmptySet
<1>3. QED
  BY <1>1, <1>2

LEMMA RowsOfTurns ==
  ASSUME NEW X \in SUBSET Rows
  PROVE  TurnsOf(X) \subseteq Turns
BY DEF TurnsOf, Turn, Rows

LEMMA NewRowIsRow ==
  ASSUME TypeOK, NEW t \in Turns
  PROVE  NewRow(t) \in Rows
BY DEF TypeOK, NewRow, Rows

-----------------------------------------------------------------------------
(* Types. *)

LEMMA MishapsBounded == MaxMishaps \in Nat
BY QueueAssumption

LEMMA TypeInit == Init => TypeOK
<1> SUFFICES ASSUME Init PROVE TypeOK
  OBVIOUS
<1>1. {} \in SUBSET Rows /\ {} \in SUBSET Turns
  OBVIOUS
<1>2. /\ servers \subseteq Procs /\ stage \in [Procs -> Stages]
      /\ step \in [Procs -> {"idle", "insert", "spill"}] /\ stuck \in [Procs -> BOOLEAN]
      /\ hook \in [Procs -> HookSteps]
  BY DEF Init, QueueInit, Stages, HookSteps
<1>3. /\ {queue, batch, thread, rows} \subseteq [Procs -> SUBSET Rows]
      /\ {items, loaded} \subseteq [Procs -> SUBSET Turns]
  BY <1>1 DEF Init, QueueInit
<1>4. /\ store \cup spill \cup refused \cup unwatched \subseteq Rows
      /\ copies \in [Turns -> Nat] /\ deaths \in Nat /\ mishaps \in 0 .. MaxMishaps
  BY MishapsBounded DEF Init, QueueInit
<1>5. /\ said \cup cursor \cup retold \subseteq Turns
      /\ readable \in BOOLEAN /\ overlapped \in BOOLEAN /\ lock \in Procs \cup {NoHook}
  BY DEF Init
<1>6. QED
  BY <1>2, <1>3, <1>4, <1>5 DEF TypeOK

LEMMA TypeFlush ==
  ASSUME TypeOK, NEW p \in Procs, Take(p) \/ FlushEnds(p), UNCHANGED ingestVars
  PROVE  TypeOK'
<1> USE DEF Set, Mishap, Smooth, FailsBy, Committed, ingestVars, cursorVars, local, history, disk
<1>0. GivenUp(p) \subseteq Rows
  BY DEF GivenUp, TypeOK
<1>1. CASE Take(p)
  BY <1>1 DEF TypeOK, Take
<1>2. CASE InsertLands(p)
  BY <1>2 DEF TypeOK, InsertLands
<1>3. CASE InsertFails(p)
  BY <1>3, MishapsBounded DEF TypeOK, InsertFails
<1>4. CASE SpillLands(p)
  BY <1>4 DEF TypeOK, SpillLands
<1>5. CASE SpillFails(p)
  BY <1>5, <1>0, MishapsBounded DEF TypeOK, SpillFails
<1>6. QED
  BY <1>1, <1>2, <1>3, <1>4, <1>5 DEF FlushEnds

LEMMA TypeCapture ==
  ASSUME TypeOK, NEW p \in Procs, NEW t \in Turns, Capture(p, t),
         Queued(p, t) \/ Spilled(p, t) \/ Rejected(p, t)
  PROVE  /\ queue' \in [Procs -> SUBSET Rows] /\ spill' \subseteq Rows /\ copies' \in [Turns -> Nat]
         /\ servers' \subseteq Procs /\ store' \subseteq Rows /\ deaths' \in Nat /\ mishaps' \in 0 .. MaxMishaps
<1> USE DEF Set, Mishap, Smooth
<1>1. NewRow(t) \in Rows
  BY NewRowIsRow
<1>2. queue' \in [Procs -> SUBSET Rows] /\ spill' \subseteq Rows
  BY <1>1 DEF TypeOK, Queued, Spilled, Rejected
<1>3. mishaps' \in 0 .. MaxMishaps
  BY MishapsBounded DEF TypeOK, Queued, Spilled, Rejected
<1>4. QED
  BY <1>2, <1>3 DEF TypeOK, Capture

LEMMA TypeIngest ==
  ASSUME TypeOK, NEW p \in Procs, Ingest(p)
  PROVE  TypeOK'
<1> USE DEF Set, Mishap, Smooth, ingestVars, cursorVars, local, history, disk, memory, To, Over, Released, Reclaimed,
            queueVars, Stages, HookSteps
<1>1. CASE Fire(p)
  BY <1>1 DEF TypeOK, Fire, Starts
<1>2. CASE LockTimesOut(p)
  BY <1>2 DEF TypeOK, LockTimesOut
<1>3. CASE Load(p)
  BY <1>3 DEF TypeOK, Load, New
<1>4. CASE Refuse(p)
  <2>1. readable' \in BOOLEAN
    BY <1>4, Zenon DEF TypeOK, Refuse
  <2>2. cursor' \subseteq Turns /\ mishaps' \in 0 .. MaxMishaps
    BY <1>4, MishapsBounded DEF TypeOK, Refuse
  <2>3. QED
    BY <1>4, <2>1, <2>2 DEF TypeOK, Refuse
<1>5. ASSUME NEW t \in Turns, Enqueue(p, t) PROVE TypeOK'
  <2>1. NewRow(t) \in Rows
    BY NewRowIsRow
  <2>2. QED
    BY <1>5, <2>1, TypeCapture DEF TypeOK, Enqueue
<1>6. ASSUME NEW t \in Turns, Abort(p, t) PROVE TypeOK'
  <2>1. TurnsOf(rows[p]) \subseteq Turns
    BY RowsOfTurns DEF TypeOK
  <2>2. thread' \in [Procs -> SUBSET Rows] /\ batch' \in [Procs -> SUBSET Rows] /\ refused' \cup unwatched' \subseteq Rows
    BY <1>6 DEF TypeOK, Abort, Cancelled
  <2>3. QED
    BY <1>6, <2>1, <2>2, TypeCapture DEF TypeOK, Abort, Cancelled
<1>7. CASE DrainQueue(p)
  BY <1>7, TypeFlush DEF DrainQueue
<1>8. CASE Commit(p)
  <2>1. TurnsOf(rows[p]) \subseteq Turns /\ TurnsOf(Landed(p)) \subseteq Turns /\ TurnsOf(Told(p)) \subseteq Turns
    BY RowsOfTurns DEF TypeOK, Landed, Told
  <2>2. readable' \in BOOLEAN
    BY <1>8, Zenon DEF TypeOK, Commit
  <2>3. mishaps' \in 0 .. MaxMishaps
    BY <1>8, MishapsBounded DEF TypeOK, Commit
  <2>4. cursor' \cup retold' \subseteq Turns
    BY <1>8, <2>1 DEF TypeOK, Commit
  <2>5. QED
    BY <1>8, <2>2, <2>3, <2>4 DEF TypeOK, Commit
<1>9. QED
  BY <1>1, <1>2, <1>3, <1>4, <1>5, <1>6, <1>7, <1>8 DEF Ingest

LEMMA TypeEnd ==
  ASSUME TypeOK, NEW p \in Procs, End(p), UNCHANGED ingestVars
  PROVE  TypeOK'
<1> USE DEF Set, Mishap, Smooth, FailsBy, Committed, ingestVars, cursorVars, local, history, disk, Stages
<1>1. CASE DrainAll(p)
  BY <1>1, TypeFlush DEF DrainAll
<1>2. CASE ThreadEnds(p)
  BY <1>2, MishapsBounded DEF TypeOK, ThreadEnds
<1>3. CASE LoopCloses(p)
  BY <1>3 DEF TypeOK, LoopCloses
<1>4. CASE Exit(p)
  BY <1>4 DEF TypeOK, Exit
<1>5. QED
  BY <1>1, <1>2, <1>3, <1>4 DEF End

LEMMA TypeServe ==
  ASSUME TypeOK, NEW p \in Procs, Serve(p)
  PROVE  TypeOK'
<1> USE DEF Set, Mishap, Smooth, ingestVars, cursorVars, local, history, disk, memory, Stages
<1>1. CASE Starts(p)
  BY <1>1 DEF TypeOK, Serve, Starts
<1>2. ASSUME NEW t \in Turns, Write(p, t) PROVE TypeOK'
  BY <1>2, TypeCapture DEF TypeOK, Serve, Write
<1>3. CASE FlushLoop(p)
  BY <1>3, TypeFlush DEF Serve, FlushLoop
<1>4. CASE Stop(p)
  BY <1>4 DEF TypeOK, Serve, Stop, Cancelled
<1>5. QED
  BY <1>1, <1>2, <1>3, <1>4 DEF Serve

LEMMA TypeOthers ==
  ASSUME TypeOK,
         \/ \E p \in Procs : Die(p) \/ Displace(p)
         \/ (\E r \in Durable : SpillDrained(r)) /\ UNCHANGED ingestVars
         \/ Damage \/ \E t \in Turns : Say(t)
  PROVE  TypeOK'
<1> USE DEF Set, Mishap, Smooth, ingestVars, cursorVars, local, history, disk, memory, To, Over, Released, Reclaimed,
            queueVars, Stages, HookSteps
<1>1. ASSUME NEW p \in Procs, Die(p) PROVE TypeOK'
  <2>1. TurnsOf(rows[p]) \subseteq Turns
    BY RowsOfTurns DEF TypeOK
  <2>2. store' \subseteq Rows /\ spill' \subseteq Rows
    BY <1>1 DEF TypeOK, Die, Killed, Committed
  <2>3. QED
    BY <1>1, <2>1, <2>2, MishapsBounded DEF TypeOK, Die, Killed
<1>2. ASSUME NEW p \in Procs, Displace(p) PROVE TypeOK'
  BY <1>2, MishapsBounded DEF TypeOK, Displace
<1>3. ASSUME NEW r \in Durable, SpillDrained(r), UNCHANGED ingestVars PROVE TypeOK'
  BY <1>3 DEF TypeOK, SpillDrained
<1>4. CASE Damage
  <2>1. readable' \in BOOLEAN
    BY <1>4, Zenon DEF TypeOK, Damage
  <2>2. retold' \subseteq Turns /\ mishaps' \in 0 .. MaxMishaps
    BY <1>4, MishapsBounded DEF TypeOK, Damage
  <2>3. QED
    BY <1>4, <2>1, <2>2 DEF TypeOK, Damage
<1>5. ASSUME NEW t \in Turns, Say(t) PROVE TypeOK'
  BY <1>5 DEF TypeOK, Say
<1>6. QED
  BY <1>1, <1>2, <1>3, <1>4, <1>5

LEMMA TypeStep == TypeOK /\ [Next]_vars => TypeOK'
<1> SUFFICES ASSUME TypeOK, [Next]_vars PROVE TypeOK'
  OBVIOUS
<1>1. CASE UNCHANGED vars
  BY <1>1 DEF TypeOK, vars, queueVars, memory, disk, ingestVars, cursorVars, local, history
<1>2. ASSUME NEW p \in Procs, Runs(p) PROVE TypeOK'
  BY <1>2, TypeFlush, TypeEnd DEF Runs
<1>3. QED
  BY <1>1, <1>2, TypeIngest, TypeServe, TypeOthers DEF Next

\* TypeOK: the types of every state.
THEOREM TypeCorrect == Spec => []TypeOK
BY TypeInit, TypeStep, PTL DEF Spec

-----------------------------------------------------------------------------
(* The inductive invariant. *)

\* An id is given to one row only.
Known(r) == r[2] <= copies[r[1]]
KnownRows ==
    /\ \A r \in Durable \cup refused \cup unwatched : Known(r)
    /\ \A p \in Procs : \A r \in InMemory(p) : Known(r)

\* Who tries its queue again.
Serving(p) == p \in servers /\ stage[p] = "up"

SoundQueue(p) ==
    /\ IsFiniteSet(queue[p]) /\ IsFiniteSet(batch[p]) /\ IsFiniteSet(thread[p])
    /\ queue[p] \cap batch[p] = {}
    /\ step[p] = "idle" => batch[p] = {}
    /\ thread[p] \subseteq unwatched /\ (thread[p] # {} => stage[p] = "stopping")
    /\ stage[p] = "down" => queue[p] = {} /\ step[p] = "idle" /\ ~stuck[p]
    /\ stuck[p] /\ ~Serving(p) => queue[p] \subseteq refused

SoundHook(p) ==
    /\ p \in servers => hook[p] = "idle"
    /\ p \notin servers => (stage[p] = "up" <=> hook[p] # "idle")
    /\ hook[p] = "wait" => queue[p] = {} /\ step[p] = "idle" /\ ~stuck[p]
    /\ hook[p] = "queue" =>
          /\ Cardinality(queue[p]) + Cardinality(batch[p]) <= Capacity[p]
          /\ rows[p] \subseteq queue[p] \cup batch[p] \cup Durable
          /\ items[p] # {} => step[p] = "idle" /\ ~stuck[p]
    /\ hook[p] # "queue" => rows[p] = {}
    /\ loaded[p] \subseteq TurnsOf(Durable)

Sound(p) == SoundQueue(p) /\ SoundHook(p)

IInv == TypeOK /\ KnownRows /\ (\A p \in Procs : Sound(p)) /\ CursorIsDurable

\* A step of p leaves the other processes alone, and takes nothing back.
LeavesOthers(p) ==
    \A q \in Procs \ {p} :
        /\ stage'[q] = stage[q] /\ queue'[q] = queue[q] /\ step'[q] = step[q] /\ batch'[q] = batch[q]
        /\ stuck'[q] = stuck[q] /\ thread'[q] = thread[q]
        /\ hook'[q] = hook[q] /\ items'[q] = items[q] /\ loaded'[q] = loaded[q] /\ rows'[q] = rows[q]

Grows == servers' = servers /\ Durable \subseteq Durable' /\ refused \subseteq refused' /\ unwatched \subseteq unwatched'

LEMMA OthersStaySound ==
  ASSUME NEW p \in Procs, NEW q \in Procs \ {p}, Sound(q), LeavesOthers(p), Grows
  PROVE  Sound(q)'
<1>1. /\ stage'[q] = stage[q] /\ queue'[q] = queue[q] /\ step'[q] = step[q] /\ batch'[q] = batch[q]
      /\ stuck'[q] = stuck[q] /\ thread'[q] = thread[q]
      /\ hook'[q] = hook[q] /\ items'[q] = items[q] /\ loaded'[q] = loaded[q] /\ rows'[q] = rows[q]
  BY DEF LeavesOthers
<1>2. SoundQueue(q)'
  BY <1>1 DEF Sound, SoundQueue, Serving, Grows
<1>3. TurnsOf(Durable) \subseteq TurnsOf(Durable)'
  BY DEF TurnsOf, Grows
<1>4. SoundHook(q)'
  BY <1>1, <1>3 DEF Sound, SoundHook, Grows
<1>5. QED
  BY <1>2, <1>4 DEF Sound

LEMMA FlushLeavesOthers ==
  ASSUME TypeOK, NEW p \in Procs, Take(p) \/ FlushEnds(p), UNCHANGED ingestVars
  PROVE  LeavesOthers(p) /\ Grows
<1> USE DEF LeavesOthers, Grows, Set, ingestVars, local, disk, Durable, TypeOK
<1>1. CASE Take(p)
  BY <1>1 DEF Take
<1>2. CASE InsertLands(p)
  BY <1>2 DEF InsertLands
<1>3. CASE InsertFails(p)
  BY <1>3 DEF InsertFails
<1>4. CASE SpillLands(p)
  BY <1>4 DEF SpillLands
<1>5. CASE SpillFails(p)
  BY <1>5 DEF SpillFails
<1>6. QED
  BY <1>1, <1>2, <1>3, <1>4, <1>5 DEF FlushEnds

LEMMA StepLeavesOthers ==
  ASSUME TypeOK, NEW p \in Procs, Ingest(p) \/ Serve(p) \/ Runs(p) \/ Die(p) \/ Displace(p)
  PROVE  LeavesOthers(p) /\ Grows
<1>0. USE DEF LeavesOthers, Grows, Set, memory, disk, queueVars, ingestVars, local, Durable, TypeOK,
              To, Over, Capture, Queued, Spilled, Rejected
<1>1. CASE Fire(p)
  BY <1>1 DEF Fire, Starts
<1>2. CASE LockTimesOut(p)
  BY <1>2 DEF LockTimesOut
<1>3. CASE Load(p)
  BY <1>3 DEF Load
<1>4. CASE Refuse(p)
  BY <1>4 DEF Refuse
<1>5. ASSUME NEW t \in Turns, Enqueue(p, t) PROVE LeavesOthers(p) /\ Grows
  BY <1>5 DEF Enqueue
<1>6. ASSUME NEW t \in Turns, Abort(p, t) PROVE LeavesOthers(p) /\ Grows
  BY <1>6 DEF Abort, Cancelled
<1>7. CASE Commit(p)
  BY <1>7 DEF Commit
<1>8. CASE Serve(p) /\ Starts(p)
  BY <1>8 DEF Serve, Starts
<1>9. ASSUME NEW t \in Turns, Write(p, t), Serve(p) PROVE LeavesOthers(p) /\ Grows
  BY <1>9 DEF Write, Serve
<1>10. CASE Serve(p) /\ Stop(p)
  BY <1>10 DEF Serve, Stop, Cancelled
<1>11. CASE ThreadEnds(p) /\ UNCHANGED ingestVars
  BY <1>11 DEF ThreadEnds
<1>12. CASE LoopCloses(p) /\ UNCHANGED ingestVars
  BY <1>12 DEF LoopCloses
<1>13. CASE Exit(p) /\ UNCHANGED ingestVars
  BY <1>13 DEF Exit
<1>14. CASE Die(p)
  BY <1>14 DEF Die, Killed
<1>15. CASE Displace(p)
  BY <1>15 DEF Displace
<1>16. CASE (Take(p) \/ FlushEnds(p)) /\ UNCHANGED ingestVars
  BY <1>16, FlushLeavesOthers
<1>17. CASE Ingest(p)
  BY <1>1, <1>2, <1>3, <1>4, <1>5, <1>6, <1>7, <1>16, <1>17 DEF Ingest, DrainQueue
<1>18. CASE Serve(p)
  BY <1>8, <1>9, <1>10, <1>16, <1>18 DEF Serve, FlushLoop
<1>19. CASE Runs(p)
  BY <1>11, <1>12, <1>13, <1>16, <1>19 DEF Runs, End, DrainAll
<1>20. QED
  BY <1>14, <1>15, <1>17, <1>18, <1>19

-----------------------------------------------------------------------------
(* What a process does keeps it sound. *)

LEMMA DurableTurnsGrow ==
  ASSUME Durable \subseteq Durable'
  PROVE  TurnsOf(Durable) \subseteq TurnsOf(Durable)'
BY DEF TurnsOf

LEMMA CapacityIsNat == \A p \in Procs : Capacity[p] \in Nat \ {0}
BY QueueAssumption

LEMMA EmptyIsFinite == IsFiniteSet({}) /\ Cardinality({}) = 0
BY FS_EmptySet

\* Take leaves a hook's queue and batch as large as they were, together.
LEMMA TakeSound ==
  ASSUME TypeOK, NEW p \in Procs, Sound(p), Take(p), UNCHANGED ingestVars,
         items[p] = {} \/ hook[p] # "queue"
  PROVE  Sound(p)'
<1> USE DEF Take, Set, disk
<1>1. /\ IsFiniteSet(queue[p]) /\ step[p] = "idle" /\ queue[p] # {} /\ batch[p] = {} /\ stage[p] # "down"
  BY DEF Sound, SoundQueue
<1>2. PICK b \in SUBSET queue[p] : queue' = [queue EXCEPT ![p] = queue[p] \ b] /\ batch' = [batch EXCEPT ![p] = b]
  OBVIOUS
<1>3. /\ queue'[p] = queue[p] \ b /\ batch'[p] = b /\ step'[p] = "insert" /\ ~stuck'[p]
      /\ thread'[p] = thread[p] /\ stage'[p] = stage[p]
  BY <1>2 DEF TypeOK
<1>4. /\ IsFiniteSet(b) /\ IsFiniteSet(queue[p] \ b)
      /\ Cardinality(queue[p] \ b) + Cardinality(b) = Cardinality(queue[p])
  BY <1>1, PartsOfFiniteSet
<1>5. SoundQueue(p)'
  BY <1>1, <1>3, <1>4 DEF Sound, SoundQueue
<1>6. hook[p] = "queue" => Cardinality(queue'[p]) + Cardinality(batch'[p]) <= Capacity[p]
  <2>1. hook[p] = "queue" => Cardinality(queue[p]) + Cardinality({}) <= Capacity[p]
    BY <1>1 DEF Sound, SoundHook
  <2>2. Cardinality(queue[p]) \in Nat /\ Cardinality({}) = 0
    BY <1>1, EmptyIsFinite, FS_CardinalityType
  <2> HIDE DEF Take, Set, disk
  <2>3. hook[p] = "queue" => Cardinality(queue[p]) <= Capacity[p]
    BY <2>1, <2>2
  <2>4. Cardinality(queue'[p]) + Cardinality(batch'[p]) = Cardinality(queue[p])
    BY <1>3, <1>4
  <2>5. QED
    BY <2>3, <2>4
<1>7. SoundHook(p)'
  BY <1>1, <1>3, <1>6 DEF Sound, SoundHook, ingestVars, local, Durable, TurnsOf
<1>8. QED
  BY <1>5, <1>7 DEF Sound

LEMMA InsertAndSpillSound ==
  ASSUME TypeOK, NEW p \in Procs, Sound(p), InsertLands(p) \/ InsertFails(p) \/ SpillLands(p), UNCHANGED ingestVars
  PROVE  Sound(p)'
<1> USE DEF Set
<1>1. Durable \subseteq Durable' /\ TurnsOf(Durable) \subseteq TurnsOf(Durable)'
  BY FlushLeavesOthers, DurableTurnsGrow DEF FlushEnds, Grows
<1>2. /\ queue'[p] = queue[p] /\ thread'[p] = thread[p] /\ stage'[p] = stage[p] /\ stuck'[p] = stuck[p]
      /\ servers' = servers /\ given' = given /\ step[p] # "idle" /\ step'[p] \in {"idle", "spill"}
      /\ step'[p] = "spill" => batch'[p] = batch[p]
      /\ step'[p] = "idle" => batch'[p] = {} /\ batch[p] \subseteq Durable'
  BY DEF InsertLands, InsertFails, SpillLands, TypeOK, Durable
<1>3. SoundQueue(p)'
  BY <1>2, EmptyIsFinite DEF Sound, SoundQueue, Serving
<1>4. hook[p] = "queue" => Cardinality(queue'[p]) + Cardinality(batch'[p]) <= Capacity[p]
  <2>1. hook[p] = "queue" => Cardinality(queue[p]) + Cardinality(batch[p]) <= Capacity[p]
    BY DEF Sound, SoundHook
  <2>2. Cardinality(queue[p]) \in Nat /\ Cardinality(batch[p]) \in Nat /\ Cardinality({}) = 0 /\ Capacity[p] \in Nat
    BY EmptyIsFinite, FS_CardinalityType, CapacityIsNat DEF Sound, SoundQueue
  <2>3. queue'[p] = queue[p] /\ batch'[p] \in {batch[p], {}}
    BY <1>2
  <2>4. QED
    BY <2>1, <2>2, <2>3
<1>5. SoundHook(p)'
  BY <1>1, <1>2, <1>4 DEF Sound, SoundHook, ingestVars, local
<1>6. QED
  BY <1>3, <1>5 DEF Sound

\* A hook's batch finds room in the queue it came from.
LEMMA SpillFailsSound ==
  ASSUME TypeOK, NEW p \in Procs, Sound(p), SpillFails(p), UNCHANGED ingestVars
  PROVE  Sound(p)'
<1> USE DEF Set
<1>1. Durable \subseteq Durable' /\ TurnsOf(Durable) \subseteq TurnsOf(Durable)'
  BY FlushLeavesOthers, DurableTurnsGrow DEF FlushEnds, Grows
<1>2. PICK back \in SUBSET batch[p] : QueuedAgain(p, back) /\ queue' = [queue EXCEPT ![p] = queue[p] \cup back]
  BY DEF SpillFails
<1>3. /\ queue'[p] = queue[p] \cup back /\ batch'[p] = {} /\ step'[p] = "idle" /\ stuck'[p] /\ step[p] = "spill"
      /\ thread'[p] = thread[p] /\ stage'[p] = stage[p] /\ servers' = servers
      /\ refused' = refused \cup GivenUp(p) /\ unwatched' = unwatched
  BY <1>2 DEF SpillFails, TypeOK
<1>4. /\ IsFiniteSet(queue[p]) /\ IsFiniteSet(batch[p]) /\ queue[p] \cap batch[p] = {} /\ IsFiniteSet(back)
  BY FS_Subset DEF Sound, SoundQueue
<1>5. IsFiniteSet(queue'[p])
  BY <1>3, <1>4, UnionOfDisjoint
<1>6. SoundQueue(p)'
  BY <1>3, <1>4, <1>5, EmptyIsFinite DEF Sound, SoundQueue, Serving, GivenUp
<1>7. ASSUME hook[p] = "queue"
      PROVE  back = batch[p] /\ Cardinality(queue'[p]) <= Capacity[p]
  <2>1. /\ Cardinality(queue[p]) \in Nat /\ Cardinality(batch[p]) \in Nat /\ Cardinality(back) \in Nat
        /\ Capacity[p] \in Nat
    BY <1>4, FS_CardinalityType, CapacityIsNat
  <2>2. Cardinality(queue[p]) + Cardinality(batch[p]) <= Capacity[p]
    BY <1>7 DEF Sound, SoundHook
  <2>3. Cardinality(back) <= Cardinality(batch[p]) /\ (Cardinality(batch[p]) = Cardinality(back) => batch[p] = back)
    BY <1>4, FS_Subset
  <2>4. back = batch[p]
    BY <1>2, <2>1, <2>2, <2>3 DEF QueuedAgain
  <2>5. Cardinality(queue'[p]) = Cardinality(queue[p]) + Cardinality(batch[p])
    BY <1>3, <1>4, <2>4, UnionOfDisjoint
  <2>6. QED
    BY <2>2, <2>4, <2>5
<1>8. SoundHook(p)'
  <2>1. hook[p] = "queue" => Cardinality(queue'[p]) + Cardinality(batch'[p]) <= Capacity[p]
    BY <1>3, <1>5, <1>7, EmptyIsFinite, FS_CardinalityType
  <2>2. hook[p] = "queue" => rows[p] \subseteq queue'[p] \cup batch'[p] \cup Durable'
    BY <1>1, <1>3, <1>7 DEF Sound, SoundHook
  <2>3. QED
    BY <1>1, <1>3, <2>1, <2>2 DEF Sound, SoundHook, ingestVars, local
<1>9. QED
  BY <1>6, <1>8 DEF Sound

\* A turn is captured by a process that has room, or on the disk.
LEMMA CaptureSound ==
  ASSUME TypeOK, NEW p \in Procs, NEW t \in Turns, Sound(p), hook[p] = "queue" => batch[p] = {} /\ items[p] # {},
         NewRow(t) \notin batch[p], ~Serving(p) => ~stuck[p],
         Capture(p, t), Queued(p, t) \/ Spilled(p, t) \/ Rejected(p, t),
         UNCHANGED <<stage, step, batch, stuck, thread, given>>
  PROVE  /\ SoundQueue(p)'
         /\ hook[p] = "queue" => Cardinality(queue'[p]) + Cardinality(batch'[p]) <= Capacity[p]
<1>1. queue'[p] \in {queue[p], queue[p] \cup {NewRow(t)}}
  BY DEF Queued, Spilled, Rejected, Set, TypeOK
<1>2. queue'[p] # queue[p] => Cardinality(queue[p]) < Capacity[p]
  BY DEF Queued, Spilled, Rejected
<1>3. /\ IsFiniteSet(queue[p]) /\ IsFiniteSet(queue'[p]) /\ Cardinality(queue[p]) \in Nat /\ Cardinality(queue'[p]) \in Nat
      /\ Cardinality(queue'[p]) <= Cardinality(queue[p]) + 1
  <2>1. IsFiniteSet(queue[p]) /\ Cardinality(queue[p]) \in Nat
    BY FS_CardinalityType DEF Sound, SoundQueue
  <2>2. /\ IsFiniteSet(queue[p] \cup {NewRow(t)})
        /\ Cardinality(queue[p] \cup {NewRow(t)})
             = IF NewRow(t) \in queue[p] THEN Cardinality(queue[p]) ELSE Cardinality(queue[p]) + 1
    BY <2>1, FS_AddElement, Zenon
  <2>3. CASE queue'[p] = queue[p]
    BY <2>1, <2>3
  <2>4. CASE queue'[p] = queue[p] \cup {NewRow(t)}
    <3>1. IsFiniteSet(queue'[p]) /\ Cardinality(queue'[p]) \in {Cardinality(queue[p]), Cardinality(queue[p]) + 1}
      BY <2>2, <2>4
    <3>2. QED
      BY <2>1, <3>1
  <2>5. QED
    BY <1>1, <2>3, <2>4
<1>4. SoundQueue(p)'
  BY <1>1, <1>3 DEF Sound, SoundQueue, Capture, Serving
<1>5. ASSUME hook[p] = "queue"
      PROVE  Cardinality(queue'[p]) + Cardinality(batch'[p]) <= Capacity[p]
  <2>1. Cardinality(queue[p]) + Cardinality({}) <= Capacity[p] /\ batch'[p] = {}
    BY <1>5 DEF Sound, SoundHook
  <2>2. Cardinality({}) = 0 /\ Capacity[p] \in Nat
    BY EmptyIsFinite, CapacityIsNat
  <2>3. QED
    BY <1>2, <1>3, <2>1, <2>2
<1>6. QED
  BY <1>4, <1>5

\* The new row is none of those there are.
LEMMA NewRowIsNew ==
  ASSUME TypeOK, KnownRows, NEW t \in Turns
  PROVE  /\ NewRow(t) \notin Durable \cup refused \cup unwatched
         /\ \A p \in Procs : NewRow(t) \notin InMemory(p)
<1>1. copies[t] \in Nat
  BY DEF TypeOK
<1>2. NewRow(t)[1] = t /\ NewRow(t)[2] = copies[t] + 1
  BY DEF NewRow
<1>3. ~Known(NewRow(t))
  BY <1>1, <1>2 DEF Known
<1>4. QED
  BY <1>3 DEF KnownRows

LEMMA EndSound ==
  ASSUME TypeOK, NEW p \in Procs, Sound(p), ThreadEnds(p) \/ LoopCloses(p) \/ Exit(p), UNCHANGED ingestVars
  PROVE  Sound(p)'
<1> USE DEF Set
<1>1. Durable \subseteq Durable' /\ TurnsOf(Durable) \subseteq TurnsOf(Durable)'
  <2>1. Durable \subseteq Durable'
    BY DEF ThreadEnds, LoopCloses, Exit, Durable, disk
  <2>2. QED
    BY <2>1, DurableTurnsGrow
<1>2. ASSUME ThreadEnds(p) PROVE Sound(p)'
  <2>1. /\ thread'[p] = {} /\ thread[p] # {}
        /\ UNCHANGED <<servers, stage, queue, step, batch, stuck, given>>
    BY <1>2 DEF ThreadEnds, TypeOK
  <2>2. SoundQueue(p)'
    BY <2>1, EmptyIsFinite DEF Sound, SoundQueue, Serving
  <2>3. SoundHook(p)'
    BY <1>1, <2>1 DEF Sound, SoundHook, ingestVars, local
  <2>4. QED
    BY <2>2, <2>3 DEF Sound
<1>3. ASSUME LoopCloses(p) PROVE Sound(p)'
  <2>1. /\ stage[p] = "stopping" /\ stage'[p] = "exiting" /\ ~stuck'[p] /\ thread[p] = {}
        /\ UNCHANGED <<servers, queue, step, batch, thread, given>>
    BY <1>3 DEF LoopCloses, TypeOK
  <2>2. SoundQueue(p)'
    BY <2>1 DEF Sound, SoundQueue, Serving
  <2>3. hook[p] \notin {"wait", "queue"}
    BY <2>1 DEF Sound, SoundHook, TypeOK, HookSteps
  <2>4. SoundHook(p)'
    BY <1>1, <2>1, <2>3 DEF Sound, SoundHook, ingestVars, local
  <2>5. QED
    BY <2>2, <2>4 DEF Sound
<1>4. ASSUME Exit(p) PROVE Sound(p)'
  <2>1. /\ stage[p] = "exiting" /\ stage'[p] = "down" /\ ~stuck'[p] /\ queue'[p] = {} /\ step[p] = "idle"
        /\ UNCHANGED <<servers, step, batch, thread, given>>
    BY <1>4 DEF Exit, TypeOK
  <2>2. SoundQueue(p)'
    BY <2>1, EmptyIsFinite DEF Sound, SoundQueue, Serving
  <2>3. hook[p] \notin {"wait", "queue"}
    BY <2>1 DEF Sound, SoundHook, TypeOK, HookSteps
  <2>4. SoundHook(p)'
    BY <1>1, <2>1, <2>3 DEF Sound, SoundHook, ingestVars, local
  <2>5. QED
    BY <2>2, <2>4 DEF Sound
<1>5. QED
  BY <1>2, <1>3, <1>4

\* Fire, LockTimesOut, Load and Refuse: the queue of a hook that waits is empty.
LEMMA WaitSound ==
  ASSUME TypeOK, CursorIsDurable, NEW p \in Procs, Sound(p),
         Fire(p) \/ LockTimesOut(p) \/ Load(p) \/ Refuse(p)
  PROVE  Sound(p)'
<1> USE DEF Set, memory, disk, queueVars, To, Over, local
<1>1. Durable' = Durable /\ TurnsOf(Durable)' = TurnsOf(Durable)
  BY DEF Fire, LockTimesOut, Load, Refuse, Starts, Durable, TurnsOf
<1>2. /\ queue' = queue /\ step' = step /\ batch' = batch /\ stuck' = stuck /\ thread' = thread
      /\ servers' = servers /\ given' = given
  BY DEF Fire, LockTimesOut, Load, Refuse, Starts
<1>3. queue[p] = {} /\ step[p] = "idle" /\ ~stuck[p] /\ thread[p] = {} /\ batch[p] = {} /\ p \notin servers
  BY DEF Sound, SoundQueue, SoundHook, Fire, LockTimesOut, Load, Refuse, Starts, At
<1>4. SoundQueue(p)'
  BY <1>2, <1>3, EmptyIsFinite DEF SoundQueue
<1>5. /\ hook'[p] = "idle" => stage'[p] = "down" /\ loaded'[p] = {} /\ rows'[p] = {}
      /\ hook'[p] # "idle" => stage'[p] = "up" /\ rows'[p] = {} /\ loaded'[p] \in {loaded[p], cursor}
  <2>1. CASE Fire(p)
    BY <2>1 DEF Fire, Starts, TypeOK, Sound, SoundHook, At
  <2>2. CASE LockTimesOut(p)
    BY <2>2 DEF LockTimesOut, TypeOK
  <2>3. CASE Load(p)
    BY <1>3, <2>3 DEF Load, TypeOK, Sound, SoundHook, At
  <2>4. CASE Refuse(p)
    BY <2>4 DEF Refuse, TypeOK
  <2>5. QED
    BY <2>1, <2>2, <2>3, <2>4
<1>6. hook'[p] = "queue" => Cardinality(queue'[p]) + Cardinality(batch'[p]) <= Capacity'[p]
  <2>1. Cardinality({}) = 0 /\ Capacity[p] \in Nat
    BY EmptyIsFinite, CapacityIsNat
  <2>2. QED
    BY <1>2, <1>3, <2>1
<1>7. SoundHook(p)'
  BY <1>1, <1>2, <1>3, <1>5, <1>6 DEF SoundHook, Sound, CursorIsDurable
<1>8. QED
  BY <1>4, <1>7 DEF Sound

LEMMA EnqueueSound ==
  ASSUME TypeOK, KnownRows, NEW p \in Procs, Sound(p), NEW t \in Turns, Enqueue(p, t)
  PROVE  Sound(p)'
<1> USE DEF Set, local
<1>1. /\ hook[p] = "queue" /\ items[p] # {} /\ step[p] = "idle" /\ ~stuck[p] /\ batch[p] = {}
  BY DEF Enqueue, At, Sound, SoundQueue, SoundHook
<1>2. Capture(p, t) /\ (Queued(p, t) \/ Spilled(p, t)) /\ UNCHANGED <<stage, step, batch, stuck, thread, given>>
  BY DEF Enqueue
<1>3. /\ SoundQueue(p)' /\ Cardinality(queue'[p]) + Cardinality(batch'[p]) <= Capacity[p]
  BY <1>1, <1>2, CaptureSound
<1>4. Durable \subseteq Durable' /\ TurnsOf(Durable) \subseteq TurnsOf(Durable)'
  <2>1. Durable \subseteq Durable'
    BY <1>2 DEF Capture, Queued, Spilled, Durable
  <2>2. QED
    BY <2>1, DurableTurnsGrow
<1>5. rows'[p] \subseteq queue'[p] \cup batch'[p] \cup Durable'
  <2>1. rows'[p] = rows[p] \cup {NewRow(t)} /\ rows[p] \subseteq queue[p] \cup Durable
    BY <1>1 DEF Enqueue, TypeOK, Sound, SoundHook
  <2>2. CASE Queued(p, t)
    BY <1>4, <2>1, <2>2 DEF Queued, TypeOK
  <2>3. CASE Spilled(p, t)
    BY <1>4, <2>1, <2>3 DEF Spilled, TypeOK, Durable
  <2>4. QED
    BY <1>2, <2>2, <2>3
<1>6. SoundHook(p)'
  BY <1>1, <1>2, <1>3, <1>4, <1>5 DEF Sound, SoundHook, Enqueue, Capture
<1>7. QED
  BY <1>3, <1>6 DEF Sound

LEMMA AbortSound ==
  ASSUME TypeOK, NEW p \in Procs, Sound(p), NEW t \in Turns, Abort(p, t)
  PROVE  Sound(p)'
<1> USE DEF Set, To, Over, local
<1>1. /\ hook[p] = "queue" /\ items[p] # {} /\ batch[p] = {} /\ step[p] = "idle" /\ p \notin servers
  BY DEF Abort, At, Sound, SoundQueue, SoundHook
<1>2. /\ stage'[p] = "stopping" /\ thread'[p] = {} /\ batch'[p] = {} /\ step'[p] = "idle" /\ ~stuck'[p]
      /\ queue' = queue /\ servers' = servers
      /\ hook'[p] = "idle" /\ loaded'[p] = {} /\ rows'[p] = {}
  BY <1>1 DEF Abort, Cancelled, Capture, Rejected, TypeOK
<1>3. SoundQueue(p)'
  BY <1>2, EmptyIsFinite DEF Sound, SoundQueue
<1>4. SoundHook(p)'
  BY <1>1, <1>2 DEF SoundHook
<1>5. QED
  BY <1>3, <1>4 DEF Sound

LEMMA OverSound ==
  ASSUME TypeOK, NEW p \in Procs, Sound(p), Commit(p) \/ Die(p)
  PROVE  Sound(p)'
<1> USE DEF Set, To, Over
<1>1. /\ stage'[p] = "down" /\ queue'[p] = {} /\ step'[p] = "idle" /\ ~stuck'[p] /\ batch'[p] = {} /\ thread'[p] = {}
      /\ servers' = servers /\ hook'[p] = "idle" /\ loaded'[p] = {} /\ rows'[p] = {}
  <2>1. CASE Commit(p)
    BY <2>1 DEF Commit, Drained, At, TypeOK, Sound, SoundQueue, SoundHook
  <2>2. CASE Die(p)
    BY <2>2 DEF Die, Killed, TypeOK
  <2>3. QED
    BY <2>1, <2>2
<1>2. SoundQueue(p)'
  BY <1>1, EmptyIsFinite DEF SoundQueue
<1>3. SoundHook(p)'
  BY <1>1 DEF SoundHook
<1>4. QED
  BY <1>2, <1>3 DEF Sound

LEMMA ServeSound ==
  ASSUME TypeOK, KnownRows, NEW p \in Procs, Sound(p), Serve(p)
  PROVE  Sound(p)'
<1> USE DEF Set, ingestVars, local
<1>0. UNCHANGED <<hook, items, loaded, rows>>
  BY DEF Serve
<1>1. ASSUME p \in servers, Starts(p) PROVE Sound(p)'
  <2>1. /\ stage'[p] = "up" /\ stage[p] = "down"
        /\ UNCHANGED <<servers, queue, step, batch, stuck, thread, given>> /\ Durable' = Durable
    BY <1>1 DEF Starts, memory, disk, TypeOK, Durable
  <2>2. SoundQueue(p)'
    BY <1>1, <2>1 DEF Sound, SoundQueue, Serving
  <2>3. SoundHook(p)'
    BY <1>0, <1>1, <2>1 DEF Sound, SoundHook, TurnsOf
  <2>4. QED
    BY <2>2, <2>3 DEF Sound
<1>2. ASSUME NEW t \in Turns, Write(p, t) PROVE Sound(p)'
  <2>1. p \in servers /\ hook[p] = "idle" /\ stage[p] = "up"
    BY <1>2 DEF Write, Capture, Sound, SoundHook
  <2>2. NewRow(t) \notin batch[p]
    BY NewRowIsNew DEF InMemory
  <2>3. SoundQueue(p)'
    BY <1>2, <2>1, <2>2, CaptureSound DEF Write, Serving
  <2>4. Durable \subseteq Durable' /\ TurnsOf(Durable) \subseteq TurnsOf(Durable)'
    <3>1. Durable \subseteq Durable'
      BY <1>2 DEF Write, Capture, Queued, Spilled, Rejected, Durable
    <3>2. QED
      BY <3>1, DurableTurnsGrow
  <2>5. SoundHook(p)'
    BY <1>0, <1>2, <2>1, <2>4 DEF Sound, SoundHook, Write, Capture
  <2>6. QED
    BY <2>3, <2>5 DEF Sound
<1>3. ASSUME FlushLoop(p) PROVE Sound(p)'
  <2>1. p \in servers /\ Take(p) /\ hook[p] # "queue" /\ UNCHANGED ingestVars
    BY <1>3 DEF FlushLoop, Sound, SoundHook, Serve
  <2>2. QED
    BY <2>1, TakeSound
<1>4. ASSUME Stop(p) PROVE Sound(p)'
  <2>1. /\ p \in servers /\ stage'[p] = "stopping" /\ thread'[p] = batch[p] /\ batch'[p] = {} /\ step'[p] = "idle"
        /\ ~stuck'[p] /\ hook[p] = "idle" /\ Durable' = Durable /\ UNCHANGED <<servers, queue>>
        /\ refused' = refused /\ unwatched' = unwatched \cup batch[p]
    BY <1>4 DEF Stop, Cancelled, TypeOK, Durable, disk, Sound, SoundHook
  <2>2. SoundQueue(p)'
    BY <2>1, EmptyIsFinite DEF Sound, SoundQueue
  <2>3. SoundHook(p)'
    BY <1>0, <2>1 DEF Sound, SoundHook, TurnsOf
  <2>4. QED
    BY <2>2, <2>3 DEF Sound
<1>5. QED
  BY <1>1, <1>2, <1>3, <1>4 DEF Serve

LEMMA StepSound ==
  ASSUME TypeOK, KnownRows, CursorIsDurable, NEW p \in Procs, Sound(p),
         Ingest(p) \/ Serve(p) \/ Runs(p) \/ Die(p) \/ Displace(p)
  PROVE  Sound(p)'
<1>1. CASE Ingest(p)
  <2>1. CASE DrainQueue(p)
    BY <2>1, TakeSound DEF DrainQueue
  <2>2. QED
    BY <1>1, <2>1, WaitSound, EnqueueSound, AbortSound, OverSound DEF Ingest
<1>2. CASE Runs(p)
  <2>1. CASE DrainAll(p)
    <3>1. hook[p] # "queue" /\ Take(p) /\ UNCHANGED ingestVars
      BY <1>2, <2>1 DEF Runs, DrainAll, Sound, SoundHook
    <3>2. QED
      BY <3>1, TakeSound
  <2>2. QED
    BY <1>2, <2>1, InsertAndSpillSound, SpillFailsSound, EndSound DEF Runs, FlushEnds, End
<1>3. CASE Displace(p)
  BY <1>3 DEF Displace, memory, disk, local, Sound, SoundQueue, SoundHook, Serving, Durable, TurnsOf
<1>4. QED
  BY <1>1, <1>2, <1>3, ServeSound, OverSound

-----------------------------------------------------------------------------
(* No id is given twice, and the cursor stays behind the rows. *)

LEMMA OldRowsKnown ==
  ASSUME NEW p \in Procs, KnownRows, LeavesOthers(p), copies' = copies,
         Durable' \cup refused' \cup unwatched' \cup InMemory(p)' \subseteq Durable \cup refused \cup unwatched \cup InMemory(p)
  PROVE  KnownRows'
<1>1. \A r \in Durable' \cup refused' \cup unwatched' \cup InMemory(p)' : Known(r)'
  BY DEF KnownRows, Known
<1>2. ASSUME NEW q \in Procs \ {p} PROVE \A r \in InMemory(q)' : Known(r)'
  BY DEF KnownRows, Known, LeavesOthers, InMemory
<1>3. QED
  BY <1>1, <1>2 DEF KnownRows

LEMMA NewRowKnown ==
  ASSUME TypeOK, NEW p \in Procs, NEW t \in Turns, KnownRows, LeavesOthers(p), copies' = [copies EXCEPT ![t] = @ + 1],
         Durable' \cup refused' \cup unwatched' \cup InMemory(p)' \subseteq Durable \cup refused \cup unwatched \cup InMemory(p) \cup {NewRow(t)},
         Durable \cup refused \cup unwatched \subseteq Rows, InMemory(p) \subseteq Rows, \A q \in Procs : InMemory(q) \subseteq Rows
  PROVE  KnownRows'
<1>1. ASSUME NEW r \in Rows, Known(r) PROVE Known(r)'
  BY <1>1 DEF Known, Rows, TypeOK
<1>2. \A r \in {NewRow(t)} : Known(r)'
  BY DEF Known, NewRow, TypeOK
<1>3. \A r \in Durable' \cup refused' \cup unwatched' \cup InMemory(p)' : Known(r)'
  BY <1>1, <1>2 DEF KnownRows
<1>4. ASSUME NEW q \in Procs \ {p} PROVE \A r \in InMemory(q)' : Known(r)'
  <2>1. InMemory(q)' = InMemory(q)
    BY DEF LeavesOthers, InMemory
  <2>2. QED
    BY <1>1, <2>1 DEF KnownRows
<1>5. QED
  BY <1>3, <1>4 DEF KnownRows

\* What p gives up it had in memory; it cancels a batch only as it ends.
GivesUp(p) ==
    /\ refused' \subseteq refused \cup InMemory(p)
    /\ unwatched' \subseteq unwatched \cup InMemory(p)
    /\ unwatched' # unwatched => ~Serving(p)'

\* What a step of p does to its rows, but for a capture: none is new.
NothingNew(p) ==
    /\ copies' = copies
    /\ InMemory(p)' \subseteq InMemory(p) /\ Durable' \subseteq Durable \cup InMemory(p)
    /\ GivesUp(p)

LEMMA FlushesNothingNew ==
  ASSUME TypeOK, NEW p \in Procs, Take(p) \/ FlushEnds(p)
  PROVE  NothingNew(p)
<1> USE DEF NothingNew, GivesUp, Set, InMemory, Durable, disk, TypeOK
<1>1. CASE Take(p)
  BY <1>1 DEF Take
<1>2. CASE InsertLands(p)
  BY <1>2 DEF InsertLands
<1>3. CASE InsertFails(p)
  BY <1>3 DEF InsertFails, Committed
<1>4. CASE SpillLands(p)
  BY <1>4 DEF SpillLands
<1>5. CASE SpillFails(p)
  BY <1>5 DEF SpillFails, GivenUp
<1>6. QED
  BY <1>1, <1>2, <1>3, <1>4, <1>5 DEF FlushEnds

LEMMA EndsNothingNew ==
  ASSUME TypeOK, NEW p \in Procs, End(p) \/ (Cancelled(p) /\ UNCHANGED <<queue, disk, copies>>) \/ Killed(p)
  PROVE  NothingNew(p)
<1> USE DEF NothingNew, GivesUp, Set, InMemory, Durable, disk, TypeOK
<1>1. CASE DrainAll(p)
  BY <1>1, FlushesNothingNew DEF DrainAll
<1>2. CASE ThreadEnds(p)
  BY <1>2 DEF ThreadEnds, Committed
<1>3. CASE LoopCloses(p)
  BY <1>3 DEF LoopCloses
<1>4. CASE Exit(p)
  BY <1>4 DEF Exit
<1>5. CASE Cancelled(p) /\ UNCHANGED <<queue, disk, copies>>
  BY <1>5 DEF Cancelled, Serving
<1>6. CASE Killed(p)
  <2>1. \A X : \A done \in Committed(p, X) : done \subseteq X
    BY DEF Committed
  <2>2. store' \subseteq store \cup InMemory(p) /\ spill' \subseteq spill \cup InMemory(p)
    BY <1>6, <2>1 DEF Killed
  <2>3. InMemory(p)' = {} /\ given' = given /\ copies' = copies
    BY <1>6 DEF Killed
  <2>4. QED
    BY <2>2, <2>3
<1>7. QED
  BY <1>1, <1>2, <1>3, <1>4, <1>5, <1>6 DEF End

LEMMA KnownStep ==
  ASSUME TypeOK, NEW p \in Procs, KnownRows, Ingest(p) \/ Serve(p) \/ Runs(p) \/ Die(p) \/ Displace(p)
  PROVE  KnownRows'
<1>0. LeavesOthers(p)
  BY StepLeavesOthers
<1>1. ASSUME NEW t \in Turns, Write(p, t) \/ Enqueue(p, t) \/ Abort(p, t) PROVE KnownRows'
  <2>1. Durable \cup refused \cup unwatched \subseteq Rows /\ \A q \in Procs : InMemory(q) \subseteq Rows
    BY DEF TypeOK, Durable, InMemory
  <2>2. /\ copies' = [copies EXCEPT ![t] = @ + 1]
        /\ Durable' \cup refused' \cup unwatched' \cup InMemory(p)' \subseteq Durable \cup refused \cup unwatched \cup InMemory(p) \cup {NewRow(t)}
    BY <1>1 DEF Write, Enqueue, Abort, Capture, Cancelled, Queued, Spilled, Rejected, Set, Durable, InMemory, TypeOK
  <2>3. QED
    BY <1>0, <2>1, <2>2, NewRowKnown
<1>2. ASSUME NothingNew(p) PROVE KnownRows'
  BY <1>0, <1>2, OldRowsKnown DEF NothingNew, GivesUp
<1>3. CASE Runs(p)
  <2>1. FlushEnds(p) \/ End(p)
    BY <1>3 DEF Runs
  <2>2. NothingNew(p)
    BY <2>1, FlushesNothingNew, EndsNothingNew
  <2>3. QED
    BY <1>2, <2>2
<1>4. CASE Serve(p)
  <2>1. CASE Starts(p)
    BY <1>2, <2>1 DEF Starts, NothingNew, GivesUp, memory, disk, Durable, InMemory
  <2>2. CASE Stop(p)
    BY <1>2, <2>2, EndsNothingNew DEF Stop
  <2>3. QED
    BY <1>1, <1>2, <1>4, <2>1, <2>2, FlushesNothingNew DEF Serve, FlushLoop
<1>5. CASE Ingest(p)
  <2>1. CASE Fire(p) \/ LockTimesOut(p) \/ Load(p) \/ Refuse(p)
    BY <1>2, <2>1 DEF Fire, LockTimesOut, Load, Refuse, Starts, NothingNew, GivesUp, memory, disk, queueVars, Durable, InMemory
  <2>2. CASE Commit(p)
    <3>1. InMemory(p)' \subseteq InMemory(p) /\ UNCHANGED <<disk, given, copies>>
      BY <2>2 DEF Commit, Set, InMemory, TypeOK
    <3>2. QED
      BY <1>2, <3>1 DEF NothingNew, GivesUp, disk, Durable
  <2>3. QED
    BY <1>1, <1>2, <1>5, <2>1, <2>2, FlushesNothingNew DEF Ingest, DrainQueue
<1>6. CASE Die(p)
  BY <1>2, <1>6, EndsNothingNew DEF Die
<1>7. CASE Displace(p)
  BY <1>2, <1>7 DEF Displace, NothingNew, GivesUp, memory, disk, Durable, InMemory
<1>8. QED
  BY <1>3, <1>4, <1>5, <1>6, <1>7

\* Only Commit adds to the cursor, and the rows it adds have left queue and batch.
LEMMA CursorStep ==
  ASSUME TypeOK, NEW p \in Procs, Sound(p), CursorIsDurable,
         Ingest(p) \/ Serve(p) \/ Runs(p) \/ Die(p) \/ Displace(p)
  PROVE  CursorIsDurable'
<1>1. TurnsOf(Durable) \subseteq TurnsOf(Durable)'
  BY StepLeavesOthers, DurableTurnsGrow DEF Grows
<1>2. CASE Commit(p)
  <2>1. hook[p] = "queue" /\ batch[p] = {}
    BY <1>2 DEF Commit, Drained, At, Sound, SoundQueue
  <2>2. Landed(p) \subseteq Durable /\ loaded[p] \subseteq TurnsOf(Durable)
    BY <2>1 DEF Landed, Sound, SoundHook
  <2>3. TurnsOf(Landed(p)) \subseteq TurnsOf(Durable)
    BY <2>2 DEF TurnsOf
  <2>4. cursor' \subseteq cursor \cup loaded[p] \cup TurnsOf(Landed(p))
    BY <1>2 DEF Commit, cursorVars
  <2>5. QED
    BY <1>1, <2>2, <2>3, <2>4 DEF CursorIsDurable
<1>3. CASE ~Commit(p)
  <2>1. cursor' \subseteq cursor
    BY <1>3 DEF Ingest, Fire, LockTimesOut, Load, Refuse, Enqueue, Abort, DrainQueue, Serve, Runs, Die, Displace,
                ingestVars, cursorVars
  <2>2. QED
    BY <1>1, <2>1 DEF CursorIsDurable
<1>4. QED
  BY <1>2, <1>3

LEMMA IInvInit == Init => IInv
<1> SUFFICES ASSUME Init PROVE IInv
  OBVIOUS
<1>1. TypeOK
  BY TypeInit
<1>2. KnownRows
  BY DEF Init, QueueInit, KnownRows, Durable, InMemory
<1>3. ASSUME NEW p \in Procs PROVE Sound(p)
  <2>1. SoundQueue(p)
    BY EmptyIsFinite DEF Init, QueueInit, SoundQueue
  <2>2. SoundHook(p)
    BY DEF Init, QueueInit, SoundHook
  <2>3. QED
    BY <2>1, <2>2 DEF Sound
<1>4. CursorIsDurable
  BY DEF Init, CursorIsDurable
<1>5. QED
  BY <1>1, <1>2, <1>3, <1>4 DEF IInv

\* A step of the world: a drain of the spill, damage to the cursor, a new turn.
World ==
    \/ (\E r \in Durable : SpillDrained(r)) /\ UNCHANGED ingestVars
    \/ Damage \/ \E t \in Turns : Say(t)

LEMMA WorldChangesNoRow ==
  ASSUME World
  PROVE  /\ Durable' = Durable /\ UNCHANGED <<servers, stage, memory, copies, given, deaths, cursor, hook, local>>
<1>1. ASSUME NEW r \in Durable, SpillDrained(r), UNCHANGED ingestVars
      PROVE  /\ Durable' = Durable /\ UNCHANGED <<servers, stage, memory, copies, given, deaths, cursor, hook, local>>
  BY <1>1 DEF SpillDrained, Durable, ingestVars, cursorVars, local
<1>2. CASE Damage
  BY <1>2 DEF Damage, Durable, disk
<1>3. ASSUME NEW t \in Turns, Say(t)
      PROVE  /\ Durable' = Durable /\ UNCHANGED <<servers, stage, memory, copies, given, deaths, cursor, hook, local>>
  BY <1>3 DEF Say, Durable, queueVars, disk, cursorVars
<1>4. QED
  BY <1>1, <1>2, <1>3 DEF World

LEMMA IInvStep == IInv /\ [Next]_vars => IInv'
<1> SUFFICES ASSUME IInv, [Next]_vars PROVE IInv'
  OBVIOUS
<1>0. TypeOK'
  BY TypeStep DEF IInv
<1>1. ASSUME NEW p \in Procs, Ingest(p) \/ Serve(p) \/ Runs(p) \/ Die(p) \/ Displace(p) PROVE IInv'
  <2>1. Sound(p)'
    BY <1>1, StepSound DEF IInv
  <2>2. ASSUME NEW q \in Procs \ {p} PROVE Sound(q)'
    BY <1>1, StepLeavesOthers, OthersStaySound DEF IInv
  <2>3. KnownRows' /\ CursorIsDurable'
    BY <1>1, KnownStep, CursorStep DEF IInv
  <2>4. QED
    BY <1>0, <2>1, <2>2, <2>3 DEF IInv
<1>2. ASSUME Durable' = Durable, UNCHANGED <<servers, stage, memory, copies, given, deaths, cursor, hook, local>> PROVE IInv'
  <2>1. KnownRows'
    BY <1>2 DEF IInv, KnownRows, Known, InMemory, memory
  <2>2. ASSUME NEW p \in Procs PROVE Sound(p)'
    <3>1. Sound(p) /\ TurnsOf(Durable)' = TurnsOf(Durable)
      BY <1>2 DEF IInv, TurnsOf
    <3>2. SoundQueue(p)'
      BY <1>2, <3>1 DEF Sound, SoundQueue, Serving, memory
    <3>3. SoundHook(p)'
      BY <1>2, <3>1 DEF Sound, SoundHook, memory, local
    <3>4. QED
      BY <3>2, <3>3 DEF Sound
  <2>3. CursorIsDurable'
    BY <1>2 DEF IInv, CursorIsDurable, TurnsOf
  <2>4. QED
    BY <1>0, <2>1, <2>2, <2>3 DEF IInv
<1>3. CASE World
  BY <1>2, <1>3, WorldChangesNoRow
<1>4. CASE UNCHANGED vars
  BY <1>2, <1>4 DEF vars, queueVars, disk, ingestVars, cursorVars, Durable
<1>5. QED
  BY <1>1, <1>3, <1>4 DEF Next, World

LEMMA Invariance == Spec => []IInv
BY IInvInit, IInvStep, PTL DEF Spec

\* CursorIsDurable: "Commit the cursor ONLY for rows that are durable": no hook
\* puts a turn in the cursor before its row is in its store or in a spill file.
THEOREM CursorBehindRows == Spec => []CursorIsDurable
BY Invariance, PTL DEF IInv

-----------------------------------------------------------------------------
(* Every step is one that CapturedTurns allows. *)

\* Rows that p no longer has, though they are not durable.
Dropped(p) == InMemory(p) \ (InMemory(p)' \cup Durable')

LEMMA OthersKeepRows ==
  ASSUME NEW p \in Procs, LeavesOthers(p), Grows
  PROVE  \A q \in Procs \ {p} : InMemory(q)' = InMemory(q) /\ Serving(q)' = Serving(q)
BY DEF LeavesOthers, Grows, InMemory, Serving

LEMMA SameCardinality ==
  ASSUME NEW S
  PROVE  Captured!Cardinality(S) = Cardinality(S)
BY Zenon DEF Captured!Cardinality, Captured!IsFiniteSet, Cardinality, IsFiniteSet

\* The conditions of CapturedTurns, in terms of the queue.
LEMMA MovesAllowed ==
  ASSUME NEW p \in Procs, LeavesOthers(p), Grows, GivesUp(p),
         ((InMemory(p)' \cup Durable') \ (InMemory(p) \cup Durable)) \cap (refused \cup unwatched) = {}
  PROVE  Captured!Moves(p)
<1> DEFINE pending == [q \in Procs |-> InMemory(q)]
           serving == [q \in Procs |-> q \in servers /\ stage[q] = "up"]
<1>1. pending[p] = InMemory(p) /\ pending'[p] = InMemory(p)'
  OBVIOUS
<1>2. \A q \in Procs \ {p} : pending'[q] = pending[q] /\ serving'[q] = serving[q]
  BY OthersKeepRows DEF Serving
<1>3. unwatched' # unwatched => ~serving'[p]
  BY DEF GivesUp, Serving
<1>4. QED
  BY <1>1, <1>2, <1>3 DEF Captured!Moves, Captured!Accepted, Grows, GivesUp

LEMMA WorkAllowed ==
  ASSUME NEW p \in Procs, LeavesOthers(p), Grows,
         deaths' = deaths, GivesUp(p),
         ((InMemory(p)' \cup Durable') \ (InMemory(p) \cup Durable)) \cap (refused \cup unwatched) = {},
         Dropped(p) \subseteq refused' \cup unwatched',
         Serving(p) /\ Dropped(p) # {} => Cardinality(InMemory(p)') >= Capacity[p]
  PROVE  Captured!Work(p)
<1>1. Captured!Moves(p)
  BY MovesAllowed
<1>2. Captured!Dropped(p) = Dropped(p)
  BY DEF Captured!Dropped, Dropped
<1>3. QED
  BY <1>1, <1>2, SameCardinality DEF Captured!Work, Serving

\* A step that brings in no row, and loses none of p's.
LEMMA KeepingIsWork ==
  ASSUME NEW p \in Procs, LeavesOthers(p), Grows, deaths' = deaths, NothingNew(p), Dropped(p) = {}
  PROVE  Captured!Work(p)
BY WorkAllowed DEF NothingNew, GivesUp

\* Of a flush, only a spill that fails loses rows of the memory: those that find
\* no room in the queue.
LEMMA FlushIsWork ==
  ASSUME TypeOK, NEW p \in Procs, Sound(p), Take(p) \/ FlushEnds(p), UNCHANGED ingestVars
  PROVE  Captured!Work(p)
<1> USE DEF Set
<1>0. LeavesOthers(p) /\ Grows /\ NothingNew(p)
  BY FlushLeavesOthers, FlushesNothingNew
<1>1. CASE Take(p)
  <2>1. Dropped(p) = {} /\ deaths' = deaths
    BY <1>1 DEF Take, Dropped, InMemory, Sound, SoundQueue, TypeOK
  <2>2. QED
    BY <1>0, <2>1, KeepingIsWork
<1>2. CASE InsertLands(p) \/ InsertFails(p) \/ SpillLands(p)
  <2>1. Dropped(p) = {} /\ deaths' = deaths
    BY <1>2 DEF InsertLands, InsertFails, SpillLands, Dropped, InMemory, Durable, TypeOK
  <2>2. QED
    BY <1>0, <2>1, KeepingIsWork
<1>3. CASE SpillFails(p)
  <2>1. PICK back \in SUBSET batch[p] : QueuedAgain(p, back) /\ queue' = [queue EXCEPT ![p] = queue[p] \cup back]
    BY <1>3 DEF SpillFails
  <2>2. /\ InMemory(p)' = queue[p] \cup back \cup thread[p] /\ batch[p] \subseteq refused' /\ deaths' = deaths
    BY <1>3, <2>1 DEF SpillFails, InMemory, TypeOK, GivenUp
  <2>3. Dropped(p) \subseteq batch[p] \ back
    BY <2>2 DEF Dropped, InMemory
  <2>4. ASSUME Serving(p), Dropped(p) # {} PROVE Cardinality(InMemory(p)') >= Capacity[p]
    <3>1. IsFiniteSet(queue[p]) /\ IsFiniteSet(back) /\ queue[p] \cap back = {} /\ thread[p] = {}
      <4>1. IsFiniteSet(batch[p])
        BY DEF Sound, SoundQueue
      <4>2. IsFiniteSet(back)
        BY <4>1, FS_Subset
      <4>3. QED
        BY <2>4, <4>2 DEF Sound, SoundQueue, Serving
    <3>2. Cardinality(queue[p] \cup back) = Cardinality(queue[p]) + Cardinality(back)
      BY <3>1, UnionOfDisjoint
    <3>3. Cardinality(queue[p]) + Cardinality(back) = Capacity[p]
      BY <2>1, <2>3, <2>4 DEF QueuedAgain
    <3>4. InMemory(p)' = queue[p] \cup back
      BY <2>2, <3>1
    <3>5. QED
      BY <3>2, <3>3, <3>4, CapacityIsNat
  <2>5. QED
    BY <1>0, <2>2, <2>3, <2>4, WorkAllowed DEF NothingNew, GivesUp
<1>4. QED
  BY <1>1, <1>2, <1>3 DEF FlushEnds

\* What a process gives up when it ends was refused before.
LEMMA EndIsWork ==
  ASSUME TypeOK, NEW p \in Procs, Sound(p),
         ((ThreadEnds(p) \/ LoopCloses(p) \/ Exit(p)) /\ UNCHANGED ingestVars) \/ Commit(p)
  PROVE  Captured!Work(p)
<1> USE DEF Set
<1>1. LeavesOthers(p) /\ Grows
  BY StepLeavesOthers DEF Ingest, Runs, End
<1>2. ASSUME InMemory(p)' \subseteq InMemory(p), Durable' \subseteq Durable \cup InMemory(p),
             Dropped(p) \subseteq refused \cup unwatched, Serving(p) => Dropped(p) = {}, UNCHANGED <<given, deaths>>
      PROVE  Captured!Work(p)
  BY <1>1, <1>2, WorkAllowed DEF GivesUp
<1>3. CASE ThreadEnds(p)
  <2>1. /\ InMemory(p)' = queue[p] \cup batch[p] /\ Durable' \subseteq Durable \cup InMemory(p)
        /\ UNCHANGED <<given, deaths>>
    BY <1>3 DEF ThreadEnds, Committed, InMemory, Durable, TypeOK
  <2>2. Dropped(p) \subseteq thread[p] /\ thread[p] \subseteq unwatched /\ ~Serving(p)
    BY <1>3, <2>1 DEF Dropped, InMemory, Sound, SoundQueue, ThreadEnds, Serving
  <2>3. QED
    BY <1>2, <2>1, <2>2 DEF InMemory
<1>4. CASE LoopCloses(p)
  <2>1. InMemory(p)' = InMemory(p) /\ Durable' = Durable /\ UNCHANGED <<given, deaths>>
    BY <1>4 DEF LoopCloses, InMemory, Durable, disk
  <2>2. QED
    BY <1>2, <2>1 DEF Dropped
<1>5. CASE Exit(p) \/ Commit(p)
  <2>1. /\ queue'[p] = {} /\ Durable' = Durable /\ UNCHANGED <<batch, thread, given, deaths>>
    BY <1>5 DEF Exit, Commit, Durable, disk, TypeOK
  <2>2. queue[p] = {} \/ (stuck[p] /\ ~Serving(p))
    BY <1>5 DEF Exit, Commit, Drained, MoreToDrain, Serving, Sound, SoundHook, At
  <2>3. queue[p] \subseteq refused /\ (Serving(p) => queue[p] = {})
    BY <2>2 DEF Sound, SoundQueue
  <2>4. QED
    BY <1>2, <2>1, <2>3 DEF Dropped, InMemory
<1>6. QED
  BY <1>3, <1>4, <1>5

\* The one row a capture brings in was never refused before.
LEMMA CaptureIsWork ==
  ASSUME IInv, NEW p \in Procs, NEW t \in Turns,
         Enqueue(p, t) \/ Abort(p, t) \/ (Write(p, t) /\ UNCHANGED ingestVars)
  PROVE  Captured!Work(p)
<1> USE DEF Set
<1>1. LeavesOthers(p) /\ Grows
  <2>1. Enqueue(p, t) \/ Abort(p, t) => Ingest(p)
    BY DEF Ingest
  <2>2. CASE Write(p, t) /\ UNCHANGED ingestVars
    BY <2>2 DEF LeavesOthers, Grows, Write, Capture, Queued, Spilled, Rejected, ingestVars, local, Durable,
                IInv, TypeOK
  <2>3. QED
    BY <2>1, <2>2, StepLeavesOthers DEF IInv
<1>2. NewRow(t) \notin refused \cup unwatched
  BY NewRowIsNew DEF IInv
<1>3. stage[p] = "up" /\ thread[p] = {}
  BY DEF Enqueue, Abort, Write, Capture, IInv, Sound, SoundQueue
<1>4. queue[p] \subseteq queue'[p] /\ queue'[p] \cup Durable' \subseteq queue[p] \cup Durable \cup {NewRow(t)}
      /\ deaths' = deaths
  BY DEF Enqueue, Abort, Write, Capture, Queued, Spilled, Rejected, Durable, IInv, TypeOK
<1>5. batch'[p] \cup thread'[p] = batch[p] /\ GivesUp(p)
  <2>1. CASE Abort(p, t)
    BY <1>3, <2>1 DEF Abort, Cancelled, GivesUp, Serving, InMemory, IInv, TypeOK
  <2>2. CASE Enqueue(p, t) \/ Write(p, t)
    BY <1>3, <2>2 DEF Enqueue, Write, GivesUp
  <2>3. QED
    BY <2>1, <2>2
<1>6. Dropped(p) = {} /\ InMemory(p)' \cup Durable' \subseteq InMemory(p) \cup Durable \cup {NewRow(t)}
  BY <1>3, <1>4, <1>5 DEF Dropped, InMemory
<1>7. QED
  BY <1>1, <1>2, <1>4, <1>5, <1>6, WorkAllowed DEF InMemory

LEMMA DieIsDie ==
  ASSUME IInv, NEW p \in Procs, Die(p)
  PROVE  Captured!Die(p)
<1>1. LeavesOthers(p) /\ Grows /\ NothingNew(p)
  BY StepLeavesOthers, EndsNothingNew DEF Die, IInv
<1>2. InMemory(p)' = {} /\ deaths' = deaths + 1
  BY DEF Die, Killed, Set, InMemory, IInv, TypeOK
<1>3. Captured!Moves(p)
  BY <1>1, MovesAllowed DEF NothingNew, GivesUp
<1>4. QED
  BY <1>2, <1>3 DEF Captured!Die

LEMMA StepOfCapturedTurns ==
  ASSUME IInv, NEW p \in Procs, Ingest(p) \/ Serve(p) \/ Runs(p) \/ Die(p) \/ Displace(p)
  PROVE  Captured!Next
<1> SUFFICES ASSUME ~Die(p) PROVE Captured!Work(p)
  BY DieIsDie DEF Captured!Next
<1>0. TypeOK /\ Sound(p) /\ LeavesOthers(p) /\ Grows
  BY StepLeavesOthers DEF IInv
<1>1. ASSUME UNCHANGED <<memory, disk, given, deaths>> PROVE Captured!Work(p)
  BY <1>0, <1>1, WorkAllowed DEF Dropped, GivesUp, memory, disk, InMemory, Durable
<1>2. CASE Ingest(p)
  <2>1. CASE Fire(p) \/ LockTimesOut(p) \/ Load(p) \/ Refuse(p)
    BY <1>1, <2>1 DEF Fire, LockTimesOut, Load, Refuse, Starts, queueVars
  <2>2. QED
    BY <1>0, <1>2, <2>1, CaptureIsWork, FlushIsWork, EndIsWork DEF Ingest, DrainQueue
<1>3. CASE Serve(p)
  <2>1. CASE Starts(p)
    BY <1>1, <2>1 DEF Starts
  <2>2. CASE Stop(p)
    <3>1. stage[p] = "up" /\ thread[p] = {}
      BY <1>0, <2>2 DEF Stop, Cancelled, Sound, SoundQueue
    <3>2. /\ InMemory(p)' = InMemory(p) /\ Durable' = Durable /\ deaths' = deaths
          /\ refused' = refused /\ unwatched' = unwatched \cup batch[p] /\ ~Serving(p)'
      BY <1>0, <2>2, <3>1 DEF Stop, Cancelled, Set, InMemory, Durable, Serving, disk, TypeOK
    <3>3. QED
      BY <1>0, <3>2, WorkAllowed DEF Dropped, GivesUp, InMemory
  <2>3. QED
    BY <1>0, <1>3, <2>1, <2>2, CaptureIsWork, FlushIsWork DEF Serve, FlushLoop
<1>4. CASE Runs(p)
  BY <1>0, <1>4, FlushIsWork, EndIsWork DEF Runs, End, DrainAll
<1>5. CASE Displace(p)
  BY <1>1, <1>5 DEF Displace
<1>6. QED
  BY <1>2, <1>3, <1>4, <1>5

LEMMA OthersStutter ==
  ASSUME World \/ UNCHANGED vars
  PROVE  UNCHANGED Captured!vars
<1>1. Durable' = Durable /\ UNCHANGED <<servers, stage, memory, given, deaths>>
  <2>1. CASE World
    BY <2>1, WorldChangesNoRow
  <2>2. CASE UNCHANGED vars
    BY <2>2 DEF vars, queueVars, disk, Durable
  <2>3. QED
    BY <2>1, <2>2
<1>2. QED
  BY <1>1 DEF Captured!vars, InMemory, memory

\* ImplementsCapturedTurns: whatever servers and hooks do, however store and disk
\* fail and whoever dies, no row leaves the memory of a process but as
\* CapturedTurns allows.
THEOREM HooksImplementCapturedTurns == Spec => ImplementsCapturedTurns
<1>1. Init => Captured!Init
  BY DEF Init, QueueInit, Captured!Init, InMemory, Durable
<1>2. IInv /\ [Next]_vars => [Captured!Next]_(Captured!vars)
  BY StepOfCapturedTurns, OthersStutter DEF Next, World
<1>3. QED
  BY <1>1, <1>2, Invariance, PTL DEF Spec, ImplementsCapturedTurns, Captured!Spec
-----------------------------------------------------------------------------
(* A turn is stored once.  A hook queues a turn that has no row anywhere: the *)
(* turns before it are in the cursor, or their run broke off (retold).        *)

\* The row is durable, or some process has it in memory.
Around(r) == r \in Durable \/ \E p \in Procs : r \in InMemory(p)

Absent(t) == \A r \in Rows : Around(r) => Turn(r) # t
Single(t) == \A r, s \in Rows : Around(r) /\ Around(s) /\ Turn(r) = t /\ Turn(s) = t => r = s

\* No two processes have the same row in memory.
Apart == \A p, q \in Procs : p # q => InMemory(p) \cap InMemory(q) = {}

LEMMA ApartKept ==
  ASSUME NEW p \in Procs, Apart, NothingNew(p), LeavesOthers(p)
  PROVE  Apart'
<1>1. \A q \in Procs : InMemory(q)' \subseteq InMemory(q)
  BY DEF NothingNew, GivesUp, LeavesOthers, InMemory
<1>2. QED
  BY <1>1 DEF Apart

\* The hook under the lock works with the cursor of the file.
UnderLock ==
    /\ \A p \in Procs : items[p] \subseteq said
    /\ ~readable => cursor \subseteq retold
    /\ ~overlapped => \A p \in Procs : /\ hook[p] = "queue" <=> lock = p
                                       /\ lock = p => loaded[p] = cursor

\* The row was queued by the run under the lock.
OfThisRun(r) == \E p \in Procs : lock = p /\ r \in rows[p]

SingleRows == \A t \in Turns \ retold : Single(t)
NewToCursor ==
    \A t \in said \ (cursor \cup retold), r \in Rows : Around(r) /\ Turn(r) = t => OfThisRun(r)
StillToQueue == \A p \in Procs : \A t \in items[p] \ retold : lock = p => Absent(t)

Once == ~overlapped => SingleRows /\ NewToCursor /\ StillToQueue

NoRowAppears == \A r \in Rows : Around(r)' => Around(r)

LEMMA NothingNewAround ==
  ASSUME NEW p \in Procs, NothingNew(p), LeavesOthers(p)
  PROVE  NoRowAppears
BY DEF NothingNew, GivesUp, LeavesOthers, NoRowAppears, Around, InMemory

LEMMA OneRowAround ==
  ASSUME TypeOK, NEW p \in Procs, NEW t \in Turns, LeavesOthers(p),
         Write(p, t) \/ Enqueue(p, t) \/ Abort(p, t),
         NEW r \in Rows, Around(r)'
  PROVE  Around(r) \/ r = NewRow(t)
<1>1. Durable' \cup InMemory(p)' \subseteq Durable \cup InMemory(p) \cup {NewRow(t)}
  BY DEF Write, Enqueue, Abort, Capture, Cancelled, Queued, Spilled, Rejected, Set, Durable, InMemory, TypeOK
<1>2. \A q \in Procs \ {p} : InMemory(q)' = InMemory(q)
  BY DEF LeavesOthers, InMemory
<1>3. QED
  BY <1>1, <1>2 DEF Around

LEMMA ApartWithOneMore ==
  ASSUME TypeOK, KnownRows, Apart, NEW p \in Procs, NEW t \in Turns, LeavesOthers(p),
         Write(p, t) \/ Enqueue(p, t) \/ Abort(p, t)
  PROVE  Apart'
<1>1. InMemory(p)' \subseteq InMemory(p) \cup {NewRow(t)}
  BY DEF Write, Enqueue, Abort, Capture, Cancelled, Queued, Spilled, Rejected, Set, InMemory, TypeOK
<1>2. \A q \in Procs \ {p} : InMemory(q)' = InMemory(q)
  BY DEF LeavesOthers, InMemory
<1>3. \A q \in Procs : NewRow(t) \notin InMemory(q)
  BY NewRowIsNew
<1>4. QED
  BY <1>1, <1>2, <1>3 DEF Apart

\* A turn of which no row was made is not around.
LEMMA UnwrittenIsAbsent ==
  ASSUME TypeOK, KnownRows, NEW t \in Turns, copies[t] = 0
  PROVE  Absent(t)
<1> SUFFICES ASSUME NEW r \in Rows, Around(r), Turn(r) = t PROVE FALSE
  BY DEF Absent
<1>1. Known(r)
  BY DEF Around, KnownRows
<1>2. QED
  BY <1>1 DEF Known, Turn, Rows

LEMMA SingleKept ==
  ASSUME NoRowAppears, SingleRows, retold \subseteq retold'
  PROVE  SingleRows'
BY DEF NoRowAppears, SingleRows, Single

\* What changes neither cursor nor hook, and makes no row.
LEMMA OnceFrame ==
  ASSUME UnderLock, Once, NoRowAppears, UNCHANGED ingestVars
  PROVE  UnderLock' /\ Once'
<1> USE DEF ingestVars, cursorVars, local, history
<1>1. UnderLock'
  BY DEF UnderLock
<1>2. ASSUME ~overlapped PROVE SingleRows' /\ NewToCursor' /\ StillToQueue'
  <2>1. SingleRows'
    BY <1>2, SingleKept DEF Once
  <2>2. NewToCursor'
    BY <1>2 DEF Once, NewToCursor, OfThisRun, NoRowAppears
  <2>3. StillToQueue'
    BY <1>2 DEF Once, StillToQueue, Absent, NoRowAppears
  <2>4. QED
    BY <2>1, <2>2, <2>3
<1>3. QED
  BY <1>1, <1>2 DEF Once

LEMMA NewRowsTurn == \A t \in Turns : Turn(NewRow(t)) = t
BY DEF Turn, NewRow

\* A server writes a turn of which there is no row.
LEMMA WriteOnce ==
  ASSUME TypeOK, KnownRows, UnderLock, Once, NEW p \in Procs, NEW t \in Turns \ said, LeavesOthers(p),
         Write(p, t), UNCHANGED ingestVars
  PROVE  UnderLock' /\ Once'
<1> USE DEF ingestVars, cursorVars, local, history
<1>0. UnderLock'
  BY DEF UnderLock
<1>1. \A r \in Rows : Around(r)' => Around(r) \/ r = NewRow(t)
  BY OneRowAround
<1>2. Absent(t)
  BY UnwrittenIsAbsent DEF Write
<1>3. ASSUME ~overlapped PROVE SingleRows' /\ NewToCursor' /\ StillToQueue'
  <2>1. SingleRows'
    BY <1>1, <1>2, <1>3, NewRowsTurn DEF Once, SingleRows, Single, Absent
  <2>2. NewToCursor'
    BY <1>1, <1>3, NewRowsTurn DEF Once, NewToCursor, OfThisRun
  <2>3. StillToQueue'
    BY <1>1, <1>3, NewRowsTurn DEF Once, StillToQueue, Absent, UnderLock
  <2>4. QED
    BY <2>1, <2>2, <2>3
<1>4. QED
  BY <1>0, <1>3 DEF Once

\* A hook that does not get to queue anything.
LEMMA WaitOnce ==
  ASSUME TypeOK, UnderLock, Once, NoRowAppears, NEW p \in Procs,
         Fire(p) \/ LockTimesOut(p) \/ Load(p) \/ Refuse(p)
  PROVE  UnderLock' /\ Once'
<1> USE DEF At, To, Over, Set, cursorVars, history, local, TypeOK
<1>1. CASE Fire(p) \/ LockTimesOut(p)
  <2>1. /\ hook[p] # "queue" /\ hook'[p] # "queue" /\ UNCHANGED <<said, cursor, readable, lock, retold, overlapped>>
        /\ items'[p] \subseteq said
        /\ \A q \in Procs \ {p} : hook'[q] = hook[q] /\ items'[q] = items[q] /\ loaded'[q] = loaded[q]
        /\ \A q \in Procs \ {p} : rows'[q] = rows[q]
    BY <1>1 DEF Fire, LockTimesOut
  <2>2. UnderLock'
    BY <2>1 DEF UnderLock
  <2>3. ASSUME ~overlapped PROVE SingleRows' /\ NewToCursor' /\ StillToQueue'
    <3>0. lock # p
      BY <2>1, <2>3 DEF UnderLock
    <3>1. SingleRows'
      BY <2>1, <2>3, SingleKept DEF Once
    <3>2. NewToCursor'
      BY <2>1, <2>3, <3>0 DEF Once, NewToCursor, OfThisRun, NoRowAppears
    <3>3. StillToQueue'
      BY <2>1, <2>3, <3>0 DEF Once, StillToQueue, Absent, NoRowAppears
    <3>4. QED
      BY <3>1, <3>2, <3>3
  <2>4. QED
    BY <2>1, <2>2, <2>3 DEF Once
<1>2. CASE Load(p)
  <2>1. /\ hook[p] # "queue" /\ lock = NoHook /\ lock' = p /\ UNCHANGED <<said, cursor, readable, rows, retold, overlapped>>
        /\ items'[p] = items[p] \ cursor /\ hook'[p] = "queue" /\ loaded'[p] = cursor
        /\ \A q \in Procs \ {p} : hook'[q] = hook[q] /\ items'[q] = items[q] /\ loaded'[q] = loaded[q]
    BY <1>2 DEF Load, New
  <2>2. UnderLock'
    BY <2>1, HooksAssumption DEF UnderLock
  <2>3. ASSUME ~overlapped PROVE SingleRows' /\ NewToCursor' /\ StillToQueue'
    <3>0. \A r \in Rows : ~OfThisRun(r)
      BY <2>1, HooksAssumption DEF OfThisRun
    <3>1. SingleRows'
      BY <2>1, <2>3, SingleKept DEF Once
    <3>2. NewToCursor'
      BY <2>1, <2>3, <3>0 DEF Once, NewToCursor, NoRowAppears
    <3>3. \A t \in items'[p] \ retold : Absent(t)
      BY <2>1, <2>3, <3>0 DEF Once, NewToCursor, Absent, UnderLock
    <3>4. StillToQueue'
      BY <2>1, <3>3 DEF StillToQueue, Absent, NoRowAppears
    <3>5. QED
      BY <3>1, <3>2, <3>4
  <2>4. QED
    BY <2>1, <2>2, <2>3 DEF Once
<1>3. CASE Refuse(p)
  <2>1. /\ hook[p] # "queue" /\ hook'[p] # "queue" /\ lock = NoHook /\ ~readable /\ UNCHANGED <<said, lock, retold, overlapped>>
        /\ items'[p] = {} /\ ((readable' /\ cursor' = {}) \/ UNCHANGED <<cursor, readable>>)
        /\ \A q \in Procs \ {p} : hook'[q] = hook[q] /\ items'[q] = items[q] /\ loaded'[q] = loaded[q]
    BY <1>3 DEF Refuse
  <2>2. UnderLock'
    BY <2>1, HooksAssumption DEF UnderLock
  <2>3. ASSUME ~overlapped PROVE SingleRows' /\ NewToCursor' /\ StillToQueue'
    <3>0. \A r \in Rows : ~OfThisRun(r)
      BY <2>1, HooksAssumption DEF OfThisRun
    <3>1. SingleRows'
      BY <2>1, <2>3, SingleKept DEF Once
    <3>2. cursor \subseteq retold
      BY <2>1 DEF UnderLock
    <3>3. NewToCursor'
      BY <2>1, <2>3, <3>0, <3>2 DEF Once, NewToCursor, NoRowAppears
    <3>4. StillToQueue'
      BY <2>1, HooksAssumption DEF StillToQueue
    <3>5. QED
      BY <3>1, <3>3, <3>4
  <2>4. QED
    BY <2>1, <2>2, <2>3 DEF Once
<1>4. QED
  BY <1>1, <1>2, <1>3

\* A hook queues a turn of which there is no row.
LEMMA EnqueueOnce ==
  ASSUME TypeOK, UnderLock, Once, NEW p \in Procs, NEW t \in Turns, LeavesOthers(p), Enqueue(p, t)
  PROVE  UnderLock' /\ Once'
<1>1. \A r \in Rows : Around(r)' => Around(r) \/ r = NewRow(t)
  BY OneRowAround
<1>2. /\ hook[p] = "queue" /\ t \in items[p]
      /\ UNCHANGED <<said, cursor, readable, lock, hook, loaded, retold, overlapped>>
      /\ items' = [items EXCEPT ![p] = @ \ {t}] /\ rows' = [rows EXCEPT ![p] = @ \cup {NewRow(t)}]
  BY DEF Enqueue, At, Set, cursorVars, history
<1>3. /\ items'[p] = items[p] \ {t} /\ rows'[p] = rows[p] \cup {NewRow(t)}
      /\ \A q \in Procs \ {p} : items'[q] = items[q] /\ rows'[q] = rows[q]
  BY <1>2 DEF TypeOK
<1>4. UnderLock'
  BY <1>2, <1>3 DEF UnderLock
<1>5. ASSUME ~overlapped PROVE SingleRows' /\ NewToCursor' /\ StillToQueue'
  <2>0. lock = p
    BY <1>2, <1>5 DEF UnderLock
  <2>1. t \in retold \/ Absent(t)
    BY <1>2, <1>5, <2>0 DEF Once, StillToQueue
  <2>2. SingleRows'
    BY <1>1, <1>2, <1>5, <2>1, NewRowsTurn DEF Once, SingleRows, Single, Absent
  <2>3. NewToCursor'
    BY <1>1, <1>2, <1>3, <1>5, <2>0 DEF Once, NewToCursor, OfThisRun
  <2>4. \A u \in items'[p] \ retold : Absent(u)'
    BY <1>1, <1>3, <1>5, <2>0, NewRowsTurn DEF Once, StillToQueue, Absent
  <2>5. StillToQueue'
    BY <1>2, <2>0, <2>4 DEF StillToQueue
  <2>6. QED
    BY <2>2, <2>3, <2>5
<1>6. QED
  BY <1>2, <1>4, <1>5 DEF Once

\* The run of p is over and it has left the cursor as it was: what it had queued
\* is told again.
LEMMA BrokenOff ==
  ASSUME TypeOK, UnderLock, Once, NEW p \in Procs, NEW X,
         \A r \in Rows : Around(r)' => Around(r) \/ Turn(r) \in X,
         retold' = retold \cup TurnsOf(rows[p]) \cup X,
         Over(p), ~overlapped => Reclaimed(p), UNCHANGED <<said, cursor, readable, overlapped>>
  PROVE  UnderLock' /\ Once'
<1>1. /\ hook'[p] = "idle" /\ items'[p] = {}
      /\ \A q \in Procs \ {p} : /\ hook'[q] = hook[q] /\ items'[q] = items[q] /\ loaded'[q] = loaded[q]
                                /\ rows'[q] = rows[q]
  BY DEF Over, To, Set, TypeOK
<1>2. ~overlapped => /\ lock = p => lock' = NoHook
                     /\ lock # p => lock' = lock
  BY DEF Reclaimed
<1>3. UnderLock'
  BY <1>1, <1>2, HooksAssumption DEF UnderLock
<1>4. ASSUME ~overlapped PROVE SingleRows' /\ NewToCursor' /\ StillToQueue'
  <2>1. SingleRows'
    BY <1>4 DEF Once, SingleRows, Single
  <2>2. NewToCursor'
    <3> SUFFICES ASSUME NEW t \in said' \ (cursor' \cup retold'), NEW r \in Rows, Around(r)', Turn(r) = t
                 PROVE  OfThisRun(r)'
      BY DEF NewToCursor
    <3>1. PICK q \in Procs : lock = q /\ r \in rows[q]
      BY <1>4 DEF Once, NewToCursor, OfThisRun
    <3>2. q # p
      BY <3>1 DEF TurnsOf
    <3>3. QED
      BY <1>1, <1>2, <1>4, <3>1, <3>2 DEF OfThisRun
  <2>3. StillToQueue'
    <3> SUFFICES ASSUME NEW q \in Procs, NEW t \in items'[q] \ retold', lock' = q PROVE Absent(t)'
      BY DEF StillToQueue
    <3>1. q # p /\ lock = q /\ t \in items[q] \ retold
      BY <1>1, <1>2, <1>4, HooksAssumption
    <3>2. QED
      BY <1>4, <3>1 DEF Once, StillToQueue, Absent
  <2>4. QED
    BY <2>1, <2>2, <2>3
<1>5. QED
  BY <1>3, <1>4 DEF Once

\* The cursor takes the turns that landed; the others are gone, or told again.
LEMMA CommitOnce ==
  ASSUME TypeOK, UnderLock, Once, NEW p \in Procs, Sound(p), LeavesOthers(p), NoRowAppears, Apart, Commit(p)
  PROVE  UnderLock' /\ Once'
<1>0. hook[p] = "queue" /\ step[p] = "idle" /\ batch[p] = {} /\ thread[p] = {}
  BY DEF Commit, Drained, At, Sound, SoundQueue, SoundHook
<1>1. /\ hook'[p] = "idle" /\ items'[p] = {} /\ InMemory(p)' = {} /\ Durable' = Durable
      /\ UNCHANGED <<said, overlapped>> /\ retold \subseteq retold'
      /\ \A q \in Procs \ {p} : /\ hook'[q] = hook[q] /\ items'[q] = items[q] /\ loaded'[q] = loaded[q]
                                /\ rows'[q] = rows[q]
  BY <1>0 DEF Commit, Over, To, Set, InMemory, Durable, disk, TypeOK
<1>2. lock' = NoHook
  BY DEF Commit, Released
<1>3. \/ /\ cursor' = loaded[p] \cup TurnsOf(Landed(p)) /\ readable'
         /\ TurnsOf(Told(p)) \subseteq retold'
      \/ /\ cursor' = cursor /\ readable' = readable /\ Landed(p) = {} /\ TurnsOf(Told(p)) \subseteq retold'
      \/ /\ cursor' = cursor /\ readable' = readable /\ TurnsOf(rows[p]) \subseteq retold'
  BY DEF Commit, cursorVars
<1>4. UnderLock'
  <2>1. ~overlapped => lock = p
    BY <1>0 DEF UnderLock
  <2>2. QED
    BY <1>1, <1>2, <1>3, <2>1, HooksAssumption DEF UnderLock
<1>5. ASSUME ~overlapped PROVE SingleRows' /\ NewToCursor' /\ StillToQueue'
  <2>0. lock = p /\ loaded[p] = cursor /\ lock' = NoHook
    BY <1>0, <1>2, <1>5 DEF UnderLock
  <2>1. SingleRows'
    BY <1>1, <1>5, SingleKept DEF Once
  <2>2. NewToCursor'
    <3> SUFFICES ASSUME NEW t \in said' \ (cursor' \cup retold'), NEW r \in Rows, Around(r)', Turn(r) = t
                 PROVE  FALSE
      BY DEF NewToCursor
    <3>1. r \in rows[p]
      <4>1. cursor \subseteq cursor'
        BY <1>3, <2>0
      <4>2. Around(r) /\ t \in said \ (cursor \cup retold)
        BY <1>1, <4>1 DEF NoRowAppears
      <4>3. QED
        BY <1>5, <2>0, <4>2 DEF Once, NewToCursor, OfThisRun
    <3>2. r \in queue[p] /\ r \notin Durable
      BY <1>3, <3>1 DEF Landed, Told, TurnsOf
    <3>3. PICK q \in Procs \ {p} : r \in InMemory(q)
      BY <1>1, <3>2 DEF Around, LeavesOthers, InMemory
    <3>4. QED
      BY <3>2, <3>3 DEF Apart, InMemory
  <2>3. StillToQueue'
    BY <2>0, HooksAssumption DEF StillToQueue
  <2>4. QED
    BY <2>1, <2>2, <2>3
<1>6. QED
  BY <1>1, <1>4, <1>5 DEF Once

OnceInv == UnderLock /\ Apart /\ Once

\* Neither damage nor a new turn makes a row, nor does a drain of the spill.
LEMMA WorldOnce ==
  ASSUME TypeOK, KnownRows, OnceInv, World
  PROVE  OnceInv'
<1>1. UNCHANGED <<Durable, memory, copies, cursor, hook, local>>
  BY WorldChangesNoRow
<1>2. NoRowAppears /\ Apart'
  BY <1>1 DEF OnceInv, NoRowAppears, Around, InMemory, Apart, memory
<1>3. CASE UNCHANGED ingestVars
  BY <1>2, <1>3, OnceFrame DEF OnceInv
<1>4. CASE Damage
  <2>1. /\ ~readable' /\ retold' = retold \cup cursor /\ UNCHANGED <<said, cursor, lock, hook, local, overlapped>>
    BY <1>4 DEF Damage
  <2>2. UnderLock'
    BY <2>1 DEF OnceInv, UnderLock, local
  <2>3. ASSUME ~overlapped PROVE SingleRows' /\ NewToCursor' /\ StillToQueue'
    <3>1. SingleRows'
      BY <1>2, <2>1, <2>3, SingleKept DEF OnceInv, Once
    <3>2. NewToCursor'
      BY <1>2, <2>1, <2>3 DEF OnceInv, Once, NewToCursor, OfThisRun, NoRowAppears, local
    <3>3. StillToQueue'
      BY <1>2, <2>1, <2>3 DEF OnceInv, Once, StillToQueue, Absent, NoRowAppears, local
    <3>4. QED
      BY <3>1, <3>2, <3>3
  <2>4. QED
    BY <1>2, <2>1, <2>2, <2>3 DEF OnceInv, Once
<1>5. ASSUME NEW t \in Turns, Say(t) PROVE OnceInv'
  <2>1. /\ said' = said \cup {t} /\ copies[t] = 0
        /\ UNCHANGED <<cursor, readable, lock, hook, local, retold, overlapped>>
    BY <1>5 DEF Say, cursorVars, history
  <2>2. UnderLock'
    BY <2>1 DEF OnceInv, UnderLock, local
  <2>3. Absent(t)
    BY <2>1, UnwrittenIsAbsent
  <2>4. ASSUME ~overlapped PROVE SingleRows' /\ NewToCursor' /\ StillToQueue'
    <3>1. SingleRows'
      BY <1>2, <2>1, <2>4, SingleKept DEF OnceInv, Once
    <3>2. NewToCursor'
      BY <1>2, <2>1, <2>3, <2>4 DEF OnceInv, Once, NewToCursor, OfThisRun, NoRowAppears, Absent, local
    <3>3. StillToQueue'
      BY <1>2, <2>1, <2>4 DEF OnceInv, Once, StillToQueue, Absent, NoRowAppears, local
    <3>4. QED
      BY <3>1, <3>2, <3>3
  <2>5. QED
    BY <1>2, <2>1, <2>2, <2>4 DEF OnceInv, Once
<1>6. QED
  BY <1>3, <1>4, <1>5 DEF World

LEMMA StepOnce ==
  ASSUME IInv, OnceInv, NEW p \in Procs, Ingest(p) \/ Serve(p) \/ Runs(p) \/ Die(p) \/ Displace(p)
  PROVE  OnceInv'
<1> USE DEF IInv, OnceInv
<1>0. LeavesOthers(p)
  BY StepLeavesOthers
<1>1. ASSUME NothingNew(p), UNCHANGED ingestVars PROVE OnceInv'
  BY <1>0, <1>1, NothingNewAround, ApartKept, OnceFrame
<1>2. CASE Runs(p)
  BY <1>1, <1>2, FlushesNothingNew, EndsNothingNew DEF Runs
<1>3. CASE Serve(p)
  <2>1. ASSUME NEW t \in Turns \ said, Write(p, t) PROVE OnceInv'
    BY <1>0, <1>3, <2>1, WriteOnce, ApartWithOneMore DEF Serve
  <2>2. CASE Starts(p)
    BY <1>1, <1>3, <2>2 DEF Serve, Starts, NothingNew, GivesUp, memory, disk, Durable, InMemory
  <2>3. CASE Stop(p)
    BY <1>1, <1>3, <2>3, EndsNothingNew DEF Serve, Stop
  <2>4. CASE FlushLoop(p)
    BY <1>1, <1>3, <2>4, FlushesNothingNew DEF Serve, FlushLoop
  <2>5. QED
    BY <1>3, <2>1, <2>2, <2>3, <2>4 DEF Serve
<1>4. CASE Ingest(p)
  <2>1. CASE Fire(p) \/ LockTimesOut(p) \/ Load(p) \/ Refuse(p)
    <3>1. NothingNew(p)
      BY <2>1 DEF Fire, LockTimesOut, Load, Refuse, Starts, NothingNew, GivesUp, memory, disk, queueVars, Durable, InMemory
    <3>2. QED
      BY <1>0, <2>1, <3>1, NothingNewAround, ApartKept, WaitOnce
  <2>2. ASSUME NEW t \in Turns, Enqueue(p, t) PROVE OnceInv'
    BY <1>0, <2>2, EnqueueOnce, ApartWithOneMore
  <2>3. ASSUME NEW t \in Turns, Abort(p, t) PROVE OnceInv'
    <3>1. \A r \in Rows : Around(r)' => Around(r) \/ Turn(r) \in {t}
      BY <1>0, <2>3, OneRowAround, NewRowsTurn
    <3>2. /\ retold' = retold \cup TurnsOf(rows[p]) \cup {t}
          /\ Over(p) /\ (~overlapped => Reclaimed(p)) /\ UNCHANGED <<said, cursor, readable, overlapped>>
      BY <2>3 DEF Abort, cursorVars, UnderLock, At, Released, Reclaimed
    <3>3. UnderLock' /\ Once'
      BY <3>1, <3>2, BrokenOff
    <3>4. QED
      BY <1>0, <2>3, <3>3, ApartWithOneMore
  <2>4. CASE DrainQueue(p)
    BY <1>1, <2>4, FlushesNothingNew DEF DrainQueue
  <2>5. CASE Commit(p)
    <3>1. InMemory(p)' \subseteq InMemory(p) /\ UNCHANGED <<disk, given, copies>>
      BY <2>5 DEF Commit, Set, InMemory, TypeOK
    <3>2. NothingNew(p)
      BY <3>1 DEF NothingNew, GivesUp, disk, Durable
    <3>3. QED
      BY <1>0, <2>5, <3>2, NothingNewAround, ApartKept, CommitOnce
  <2>6. QED
    BY <1>4, <2>1, <2>2, <2>3, <2>4, <2>5 DEF Ingest
<1>5. CASE Die(p)
  <2>1. NothingNew(p)
    BY <1>5, EndsNothingNew DEF Die
  <2>2. NoRowAppears /\ Apart'
    BY <1>0, <2>1, NothingNewAround, ApartKept
  <2>3. UnderLock' /\ Once'
    <3>1. \A r \in Rows : Around(r)' => Around(r) \/ Turn(r) \in {}
      BY <2>2 DEF NoRowAppears
    <3>2. /\ retold' = retold \cup TurnsOf(rows[p]) \cup {}
          /\ Over(p) /\ Reclaimed(p) /\ UNCHANGED <<said, cursor, readable, overlapped>>
      BY <1>5 DEF Die, cursorVars
    <3>3. QED
      BY <3>1, <3>2, BrokenOff
  <2>4. QED
    BY <2>2, <2>3
<1>6. CASE Displace(p)
  <2>1. overlapped' /\ UNCHANGED <<said, items, readable, cursor, retold>>
    BY <1>6 DEF Displace, cursorVars, local
  <2>2. NothingNew(p)
    BY <1>6 DEF Displace, NothingNew, GivesUp, memory, disk, Durable, InMemory
  <2>3. QED
    BY <1>0, <2>1, <2>2, ApartKept DEF UnderLock, Once
<1>7. QED
  BY <1>2, <1>3, <1>4, <1>5, <1>6

LEMMA OnceAlways == Spec => []OnceInv
<1>1. Init => OnceInv
  <2> SUFFICES ASSUME Init PROVE OnceInv
    OBVIOUS
  <2>1. UnderLock
    BY HooksAssumption DEF Init, UnderLock
  <2>2. \A r \in Rows : ~Around(r)
    BY DEF Init, QueueInit, Around, Durable, InMemory
  <2>3. Apart
    BY DEF Init, QueueInit, Apart, InMemory
  <2>4. Once
    BY <2>2 DEF Once, SingleRows, Single, NewToCursor, StillToQueue, Absent
  <2>5. QED
    BY <2>1, <2>3, <2>4 DEF OnceInv
<1>2. IInv /\ OnceInv /\ [Next]_vars => OnceInv'
  <2> SUFFICES ASSUME IInv, OnceInv, [Next]_vars PROVE OnceInv'
    OBVIOUS
  <2>1. CASE UNCHANGED vars
    <3>1. NoRowAppears /\ Apart' /\ UNCHANGED ingestVars
      BY <2>1 DEF vars, queueVars, memory, disk, NoRowAppears, Around, Durable, InMemory, OnceInv, Apart
    <3>2. QED
      BY <3>1, OnceFrame DEF OnceInv
  <2>2. QED
    BY <2>1, StepOnce, WorldOnce DEF Next, World, IInv
<1>3. QED
  BY <1>1, <1>2, Invariance, PTL DEF Spec

\* StoredOnce: a turn has one row, unless a run that had queued it broke off before
\* the cursor had it, the cursor was damaged, or two hooks were under the lock.
THEOREM TurnsStoredOnce == Spec => []StoredOnce
<1>1. IInv /\ OnceInv => StoredOnce
  <2> SUFFICES ASSUME IInv, OnceInv, ~overlapped,
                      NEW r \in Durable, NEW s \in Durable, Turn(r) = Turn(s), Turn(r) \notin retold
               PROVE  r = s
    BY DEF StoredOnce
  <2>1. r \in Rows /\ s \in Rows /\ Turn(r) \in Turns
    BY DEF IInv, TypeOK, Durable, Rows, Turn
  <2>2. QED
    BY <2>1 DEF OnceInv, Once, SingleRows, Single, Around
<1>2. QED
  BY <1>1, Invariance, OnceAlways, PTL

-----------------------------------------------------------------------------
(* The hooks under the cursor's lock, seen as the holders of a Mutex.        *)

InQueue == {p \in Procs : At(p, "queue")}

LEMMA LeavesTheMutex ==
  ASSUME TypeOK, NEW p \in Procs, Over(p), UNCHANGED overlapped
  PROVE  CursorLock!Next \/ UNCHANGED <<InQueue, overlapped>>
<1>1. hook' = [hook EXCEPT ![p] = "idle"] /\ hook \in [Procs -> HookSteps]
  BY DEF Over, To, Set, TypeOK
<1>2. InQueue' = InQueue \ {p}
  BY <1>1 DEF InQueue, At
<1>3. CASE p \in InQueue
  BY <1>2, <1>3 DEF CursorLock!Next, CursorLock!Leave, InQueue
<1>4. CASE p \notin InQueue
  BY <1>2, <1>4
<1>5. QED
  BY <1>3, <1>4

LEMMA StepOfTheMutex ==
  ASSUME TypeOK, UnderLock, NEW p \in Procs, Ingest(p) \/ Serve(p) \/ Runs(p) \/ Die(p) \/ Displace(p)
  PROVE  CursorLock!Next \/ UNCHANGED <<InQueue, overlapped>>
<1>0. hook \in [Procs -> HookSteps]
  BY DEF TypeOK
<1>1. ASSUME UNCHANGED <<hook, overlapped>> PROVE UNCHANGED <<InQueue, overlapped>>
  BY <1>1 DEF InQueue, At
<1>2. CASE Load(p)
  <2>1. hook' = [hook EXCEPT ![p] = "queue"] /\ ~At(p, "queue") /\ lock = NoHook /\ UNCHANGED overlapped
    BY <1>2 DEF Load, To, Set, At, history
  <2>2. InQueue' = InQueue \cup {p} /\ p \notin InQueue
    BY <1>0, <2>1 DEF InQueue, At
  <2>3. overlapped \/ InQueue = {}
    BY <2>1, HooksAssumption DEF UnderLock, InQueue, At
  <2>4. CursorLock!Enter(p)
    BY <2>1, <2>2, <2>3 DEF CursorLock!Enter, InQueue
  <2>5. QED
    BY <2>4 DEF CursorLock!Next
<1>3. CASE Fire(p)
  <2>1. hook' = [hook EXCEPT ![p] = "wait"] /\ hook[p] = "idle" /\ UNCHANGED overlapped
    BY <1>3 DEF Fire, To, Set, At, history
  <2>2. InQueue' = InQueue
    BY <1>0, <2>1 DEF InQueue, At
  <2>3. QED
    BY <2>1, <2>2
<1>4. ASSUME LockTimesOut(p) \/ Refuse(p) \/ (\E t \in Turns : Abort(p, t)) \/ Commit(p) \/ Die(p)
      PROVE  CursorLock!Next \/ UNCHANGED <<InQueue, overlapped>>
  <2>1. Over(p) /\ UNCHANGED overlapped
    BY <1>4 DEF LockTimesOut, Refuse, Abort, Commit, Die, history
  <2>2. QED
    BY <2>1, LeavesTheMutex
<1>5. ASSUME (\E t \in Turns : Enqueue(p, t)) \/ DrainQueue(p) \/ Serve(p) \/ Runs(p)
      PROVE  UNCHANGED <<InQueue, overlapped>>
  <2>1. UNCHANGED <<hook, overlapped>>
    BY <1>5 DEF Enqueue, DrainQueue, Serve, Runs, ingestVars, history
  <2>2. QED
    BY <1>1, <2>1
<1>6. CASE Displace(p)
  <2>1. overlapped' = TRUE /\ UNCHANGED hook
    BY <1>6 DEF Displace
  <2>2. InQueue' = InQueue
    BY <2>1 DEF InQueue, At
  <2>3. QED
    BY <2>1, <2>2 DEF CursorLock!Next, CursorLock!Break, InQueue
<1>7. QED
  BY <1>2, <1>3, <1>4, <1>5, <1>6 DEF Ingest

\* Of the cursor's lock the hooks have what Mutex promises, however many there are,
\* whoever times out, breaks off or dies.
THEOREM HooksKeepMutex == Spec => HooksTakeTurns
<1>1. Init => CursorLock!Init
  BY DEF Init, CursorLock!Init, At
<1>2. TypeOK /\ UnderLock /\ [Next]_vars => [CursorLock!Next]_<<InQueue, overlapped>>
  <2> SUFFICES ASSUME TypeOK, UnderLock, [Next]_vars
               PROVE  CursorLock!Next \/ UNCHANGED <<InQueue, overlapped>>
    OBVIOUS
  <2>1. ASSUME NEW p \in Procs, Ingest(p) \/ Serve(p) \/ Runs(p) \/ Die(p) \/ Displace(p)
        PROVE  CursorLock!Next \/ UNCHANGED <<InQueue, overlapped>>
    BY <2>1, StepOfTheMutex
  <2>2. CASE World \/ UNCHANGED vars
    <3>1. UNCHANGED <<hook, overlapped>>
      BY <2>2 DEF World, Damage, Say, vars, ingestVars, history
    <3>2. QED
      BY <3>1 DEF InQueue, At
  <2>3. QED
    BY <2>1, <2>2 DEF Next, World
<1>3. IInv => TypeOK
  BY DEF IInv
<1>4. OnceInv => UnderLock
  BY DEF OnceInv
<1>5. QED
  BY <1>1, <1>2, <1>3, <1>4, Invariance, OnceAlways, PTL
     DEF Spec, HooksTakeTurns, CursorLock!Spec, InQueue

=============================================================================
