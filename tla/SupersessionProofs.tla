------------------------- MODULE SupersessionProofs -------------------------
(***************************************************************************)
(* What holds of Supersession for any processes, memories and mishaps: a    *)
(* memory is superseded once, one of its replacements stays, conflicts that *)
(* were checked are closed, something stands, what replaced a memory leads  *)
(* to something that does, and no promised check is lost.                   *)
(***************************************************************************)
EXTENDS Supersession, TLAPS

-----------------------------------------------------------------------------
(* Types *)

\* What a process may have in hand when k memories were inserted.
Items(k) == [at : Steps, new : 0 .. k, old : 0 .. k, todo : SUBSET (1 .. k), sweep : BOOLEAN, due : SUBSET (1 .. k)]

\* TypeOK, in a form that is easier on the provers.
Typed ==
    /\ made \in 0 .. MaxMemories
    /\ live \subseteq Made /\ vector \subseteq Made /\ owed \subseteq Made
    /\ checked \subseteq Made /\ excused \subseteq Made /\ restored \subseteq Made
    /\ edges \subseteq Made \X Made /\ meant \subseteq Made \X Made
    /\ work \in [Procs -> Items(made)]
    /\ mishaps \in 0 .. MaxMishaps
    /\ lost \in BOOLEAN

LEMMA TypedIsTypeOK == Typed <=> TypeOK
<1>1. made \in 0 .. MaxMemories => 0 .. made = Made \cup {NoMemory}
  BY SupersessionAssumption DEF Made, NoMemory
<1>2. made \in 0 .. MaxMemories =>
        (work \in [Procs -> Items(made)] <=>
           work \in [Procs -> [at : Steps, new : Made \cup {NoMemory}, old : Made \cup {NoMemory},
                               todo : SUBSET Made, sweep : BOOLEAN, due : SUBSET Made]])
  BY <1>1, Zenon DEF Items, Made
<1>3. QED
  BY <1>2 DEF TypeOK, Typed

\* The steps of a process, and those of the hands that touch a memory.
ProcStep(p) ==
    \/ Write(p) \/ Embed(p) \/ Flag(p) \/ Look(p) \/ Close(p)
    \/ ReadOld(p) \/ Insert(p) \/ Take(p) \/ Undo(p) \/ Scan(p) \/ Apply(p)
    \/ ListDue(p) \/ ReadRow(p) \/ Clear(p) \/ CheckFails(p) \/ Die(p)

HandStep(m) == Backfill(m) \/ Delete(m) \/ Restore(m) \/ Relabel(m)

LEMMA StepCases ==
  ASSUME [Next]_vars
  PROVE  \/ \E p \in Procs : ProcStep(p)
         \/ \E m \in Memories : HandStep(m)
         \/ UNCHANGED vars
<1>1. \A p \in Sweepers : p \in Procs
  BY SupersessionAssumption
<1>2. QED
  BY <1>1, Zenon DEF Next, ProcStep, HandStep, MemoryWrite, CheckContradictions, MemorySupersede,
        MemoryDedup, RunOwedChecks

LEMMA Sizes ==
  ASSUME Typed
  PROVE  /\ made \in Nat /\ made \in 0 .. MaxMemories /\ MaxMemories \in Nat /\ MaxMishaps \in Nat
         /\ Made = 1 .. made /\ \A p \in Procs : work[p] \in Items(made)
         /\ live \subseteq Made /\ Made \subseteq Memories
BY SupersessionAssumption DEF Typed, Made, Memories

LEMMA ItemsGrow == ASSUME NEW k \in Nat, NEW l \in Nat, k <= l PROVE Items(k) \subseteq Items(l)
BY DEF Items

LEMMA Resting == ASSUME NEW k \in Nat PROVE Idle \in Items(k)
BY DEF Idle, Items, Steps, NoMemory

\* What the steps make of what a process has in hand.
LEMMA Edited ==
  ASSUME NEW k \in Nat, NEW w \in Items(k), NEW s \in Steps, NEW n \in 0 .. k, NEW o \in 0 .. k,
         NEW t \in SUBSET (1 .. k), NEW b \in BOOLEAN
  PROVE  /\ [w EXCEPT !.at = s] \in Items(k)
         /\ [w EXCEPT !.at = s, !.todo = t] \in Items(k)
         /\ [w EXCEPT !.at = s, !.new = n] \in Items(k)
         /\ [w EXCEPT !.at = s, !.old = o] \in Items(k)
         /\ [w EXCEPT !.at = s, !.old = o, !.new = n] \in Items(k)
         /\ [w EXCEPT !.at = s, !.new = n, !.todo = t] \in Items(k)
         /\ [w EXCEPT !.at = s, !.new = n, !.due = t] \in Items(k)
         /\ [w EXCEPT !.at = s, !.sweep = b, !.due = t] \in Items(k)
BY DEF Items

\* A step that inserts a memory, and one that inserts none.
LEMMA Moves ==
  ASSUME Typed, NEW p \in Procs, made' \in Nat, made <= made',
         \E r \in Items(made') : work' = [work EXCEPT ![p] = r]
  PROVE  work' \in [Procs -> Items(made')]
<1>1. Items(made) \subseteq Items(made')
  BY Sizes, ItemsGrow
<1>2. QED
  BY <1>1 DEF Typed

LEMMA Stays ==
  ASSUME Typed, NEW p \in Procs, made' = made, \E r \in Items(made) : work' = [work EXCEPT ![p] = r]
  PROVE  work' \in [Procs -> Items(made')]
BY DEF Typed

WithNew == {"embed", "flag", "look", "close", "take", "retire", "undo", "apply", "clear"}

(* What a process has in hand at each step. *)
Held(p) ==
  LET w == work[p] IN
  /\ w.at \in WithNew => w.new \in Made
  /\ w.at \in {"insert", "take", "retire", "undo"} => w.old \in Made
  /\ w.at \in {"take", "retire", "undo"} => w.new # w.old
  /\ w.at \in {"close", "apply"} => w.new \notin w.todo
  /\ w.at \in {"look", "close"} => w.new \in vector
  /\ w.sweep => w.at \in {"rows", "look", "close", "clear"}
Holding == \A p \in Procs : Held(p)

LEMMA TypeWork ==
  ASSUME Typed, NEW p \in Procs, ProcStep(p)
  PROVE  work' \in [Procs -> Items(made')] /\ (made' = made \/ made' = made + 1) /\ made' <= MaxMemories
<1>0. work[p] \in Items(made) /\ made \in Nat /\ Idle \in Items(made) /\ Made = 1 .. made /\
      MaxMemories \in Nat /\ made <= MaxMemories
  BY Sizes, Resting
<1>10. 0 \in 0 .. made /\ (\A m \in Made : m \in 0 .. made) /\
      {"insert", "retire", "embed", "flag", "look", "close", "clear", "take", "undo", "apply", "rows"} \subseteq Steps
  BY <1>0 DEF Steps
<1>1. CASE Write(p)
  <2>1. made' = made + 1 /\ made < MaxMemories
    BY <1>1 DEF Write, Inserted, Fresh
  <2>2. made + 1 \in Nat /\ Fresh \in 0 .. (made + 1) /\ work[p] \in Items(made + 1)
    BY <1>0, ItemsGrow DEF Fresh
  <2>3. [Idle EXCEPT !.at = "embed", !.new = Fresh] \in Items(made + 1)
    BY <1>10, <2>2, Edited, Resting
  <2>4. \E r \in Items(made') : work' = [work EXCEPT ![p] = r]
    BY <1>1, <2>1, <2>2, <2>3 DEF Write, Typed
  <2>5. work' \in [Procs -> Items(made')]
    <3>1. made' \in Nat /\ made <= made'
      BY <1>0, <2>1
    <3>2. QED
      BY <3>1, <2>4, Moves
  <2>6. QED
    BY <1>0, <2>1, <2>5
<1>2. CASE Embed(p) \/ Flag(p)
  <2>1. made' = made
    BY <1>2 DEF Embed, Flag
  <2>2. [work[p] EXCEPT !.at = "look"] \in Items(made) /\ [work[p] EXCEPT !.at = "flag"] \in Items(made)
    BY <1>0, <1>10, Edited
  <2>3. \E r \in Items(made) : work' = [work EXCEPT ![p] = r]
    BY <1>0, <1>2, <2>2 DEF Embed, Flag, Goes, Rests
  <2>4. QED
    BY <1>0, <2>1, <2>3, Stays
<1>3. CASE Look(p) \/ Close(p) \/ CheckFails(p)
  <2>1. made' = made
    BY <1>3 DEF Look, Close, CheckFails, store
  <2>2. [work[p] EXCEPT !.at = "clear", !.todo = {}] \in Items(made)
    BY <1>0, <1>10, Edited
  <2>3. ASSUME NEW left \in SUBSET Made PROVE [work[p] EXCEPT !.at = "close", !.todo = left] \in Items(made)
    BY <1>0, <1>10, Edited
  <2>4. AfterCheck(p) => \E r \in Items(made) : work' = [work EXCEPT ![p] = r]
    BY <1>0, <2>2 DEF AfterCheck, Rests
  <2>5. ASSUME NEW left \in SUBSET Made,
        GoesOn(p, left) PROVE \E r \in Items(made) : work' = [work EXCEPT ![p] = r]
    <3>1. CASE left = {}
      BY <2>4, <2>5, <3>1 DEF GoesOn
    <3>2. CASE left # {}
      <4>1. work' = [work EXCEPT ![p] = [work[p] EXCEPT !.at = "close", !.todo = left]]
        BY <2>5, <3>2 DEF GoesOn, Typed
      <4>2. QED
        BY <2>3, <4>1
    <3>3. QED
      BY <3>1, <3>2
  <2>6. Candidates(work[p].new) \in SUBSET Made /\ \A o : work[p].todo \ {o} \in SUBSET Made
    BY <1>0, Sizes DEF Candidates, Items
  <2>7. Look(p) => GoesOn(p, Candidates(work[p].new))
    BY DEF Look
  <2>8. Close(p) => \E o : GoesOn(p, work[p].todo \ {o})
    BY DEF Close
  <2>9. CheckFails(p) => AfterCheck(p)
    BY DEF CheckFails
  <2>10. \E r \in Items(made) : work' = [work EXCEPT ![p] = r]
    BY <1>3, <2>4, <2>5, <2>6, <2>7, <2>8, <2>9
  <2>11. QED
    BY <1>0, <2>1, <2>10, Stays
<1>4. CASE ReadOld(p)
  <2>1. made' = made
    BY <1>4 DEF ReadOld, store
  <2>2. ASSUME NEW o \in live, NEW n \in live
        PROVE  [Idle EXCEPT !.at = "insert", !.old = o] \in Items(made) /\
              [Idle EXCEPT !.at = "retire", !.old = o, !.new = n] \in Items(made)
    BY <1>0, <1>10, Edited, Sizes
  <2>3. \E r \in Items(made) : work' = [work EXCEPT ![p] = r]
    BY <1>4, <2>2 DEF ReadOld
  <2>4. QED
    BY <1>0, <2>1, <2>3, Stays
<1>5. CASE Insert(p)
  <2>1. CASE Inserted /\ work' = [work EXCEPT ![p].at = "take", ![p].new = Fresh]
    <3>1. made' = made + 1 /\ made < MaxMemories
      BY <2>1 DEF Inserted, Fresh
    <3>2. made + 1 \in Nat /\ Fresh \in 0 .. (made + 1) /\ work[p] \in Items(made + 1)
      BY <1>0, ItemsGrow DEF Fresh
    <3>3. [work[p] EXCEPT !.at = "take", !.new = Fresh] \in Items(made + 1)
      BY <1>10, <3>2, Edited
    <3>4. \E r \in Items(made') : work' = [work EXCEPT ![p] = r]
      BY <2>1, <3>1, <3>3
    <3>5. work' \in [Procs -> Items(made')]
      <4>1. made' \in Nat /\ made <= made'
        BY <1>0, <3>1
      <4>2. QED
        BY <4>1, <3>4, Moves
    <3>6. QED
      BY <1>0, <3>1, <3>5
  <2>2. CASE Rests(p) /\ made' = made
    BY <1>0, <2>2, Stays DEF Rests
  <2>3. QED
    BY <1>5, <2>1, <2>2 DEF Insert
<1>6. CASE Take(p) \/ Undo(p) \/ Apply(p) \/ Die(p)
  <2>1. made' = made
    BY <1>6 DEF Take, Undo, Apply, Die, store
  <2>2. [work[p] EXCEPT !.at = "undo"] \in Items(made)
    BY <1>0, <1>10, Edited
  <2>3. \E r \in Items(made) : work' = [work EXCEPT ![p] = r]
    BY <1>0, <1>6, <2>2 DEF Take, Undo, Apply, Die, AfterLoss, Goes, Rests
  <2>4. QED
    BY <1>0, <2>1, <2>3, Stays
<1>7. CASE Scan(p)
  <2>1. made' = made
    BY <1>7 DEF Scan, store
  <2>2. ASSUME NEW n \in Made, NEW others \in SUBSET Made
        PROVE  [Idle EXCEPT !.at = "apply", !.new = n, !.todo = others] \in Items(made)
    BY <1>0, <1>10, Edited
  <2>3. \E r \in Items(made) : work' = [work EXCEPT ![p] = r]
    BY <1>7, <2>2, Sizes DEF Scan
  <2>4. QED
    BY <1>0, <2>1, <2>3, Stays
<1>8. CASE ListDue(p) \/ ReadRow(p) \/ Clear(p)
  <2>1. made' = made
    BY <1>8 DEF ListDue, ReadRow, Clear, store
  <2>2. ASSUME NEW due \in SUBSET Made PROVE [Idle EXCEPT !.at = "rows", !.sweep = TRUE, !.due = due] \in Items(made)
    BY <1>0, <1>10, Edited
  <2>3. ASSUME NEW due \in SUBSET Made,
        NextRow(p, due) PROVE \E r \in Items(made) : work' = [work EXCEPT ![p] = r]
    BY <1>0, <2>2, <2>3 DEF NextRow
  <2>4. Due \subseteq Made /\ work[p].due \subseteq Made
    BY <1>0, Sizes DEF Due, Items
  <2>6. ListDue(p) => \E due \in SUBSET Due : NextRow(p, due)
    BY DEF ListDue
  <2>7. Clear(p) => NextRow(p, work[p].due)
    BY DEF Clear
  <2>8. ASSUME NEW m \in work[p].due
        PROVE  /\ work[p].due \ {m} \in SUBSET Made
               /\ [work[p] EXCEPT !.at = "look", !.new = m, !.due = @ \ {m}] \in Items(made)
               /\ [work[p] EXCEPT !.at = "clear", !.new = m, !.due = @ \ {m}] \in Items(made)
    <3>1. work[p].due \ {m} \in SUBSET Made /\ m \in 0 .. made
      BY <2>4, <1>10
    <3>2. QED
      BY <1>0, <1>10, <3>1, Edited
  <2>9. ASSUME ReadRow(p) PROVE \E r \in Items(made) : work' = [work EXCEPT ![p] = r]
    <3>1. PICK m \in work[p].due :
             \/ m \in live /\
                   work' = [work EXCEPT ![p] = [work[p] EXCEPT !.at = "look", !.new = m, !.due = @ \ {m}]]
             \/ m \notin live /\
                   work' = [work EXCEPT ![p] = [work[p] EXCEPT !.at = "clear", !.new = m, !.due = @ \ {m}]]
             \/ NextRow(p, work[p].due \ {m})
      BY <2>9 DEF ReadRow, Typed
    <3>2. QED
      BY <3>1, <2>8, <2>3
  <2>10. \E r \in Items(made) : work' = [work EXCEPT ![p] = r]
    BY <1>8, <2>3, <2>4, <2>6, <2>7, <2>9
  <2>11. QED
    BY <1>0, <2>1, <2>10, Stays
<1>9. QED
  BY <1>1, <1>2, <1>3, <1>4, <1>5, <1>6, <1>7, <1>8 DEF ProcStep

LEMMA TypeProc ==
  ASSUME Typed, Holding, NEW p \in Procs, ProcStep(p)
  PROVE  Typed'
<1> USE DEF store, history, Mishap
<1>0. /\ work' \in [Procs -> Items(made')] /\ made' \in 0 .. MaxMemories
      /\ Made \subseteq Made' /\ Made = 1 .. made /\ (made' = made + 1 => Fresh \in Made')
  BY TypeWork, Sizes DEF Made, Fresh
<1>18. work[p].new \in 0 .. made /\ work[p].old \in 0 .. made /\ work[p].todo \subseteq Made /\
      work[p].due \subseteq Made
  BY Sizes DEF Items
<1>20. (work[p].at \in WithNew => work[p].new \in Made) /\
      (work[p].at \in {"insert", "take", "retire"} => work[p].old \in Made)
  BY DEF Holding, Held
<1>19. mishaps < MaxMishaps => mishaps + 1 \in 0 .. MaxMishaps
  BY Sizes DEF Typed
<1>1. CASE Write(p)
  BY <1>0, <1>18, <1>19, <1>20, <1>1 DEF Typed, Write, Inserted, Fresh
<1>2. CASE Embed(p)
  BY <1>0, <1>18, <1>19, <1>20, <1>2 DEF Typed, At, WithNew, Embed
<1>3. CASE Flag(p)
  BY <1>0, <1>18, <1>19, <1>20, <1>3 DEF Typed, At, WithNew, Flag
<1>4. CASE Look(p)
  BY <1>0, <1>18, <1>19, <1>20, <1>4 DEF Typed, At, WithNew, Look, GoesOn
<1>5. CASE Close(p)
  BY <1>0, <1>18, <1>19, <1>20, <1>5 DEF Typed, At, WithNew, Close, GoesOn, MarkSuperseded, Active
<1>6. CASE ReadOld(p)
  BY <1>0, <1>18, <1>19, <1>20, <1>6 DEF Typed, At, WithNew, ReadOld
<1>7. CASE Insert(p)
  BY <1>0, <1>18, <1>19, <1>20, <1>7 DEF Typed, At, WithNew, Insert, Inserted, Fresh
<1>8. CASE Take(p)
  BY <1>0, <1>18, <1>19, <1>20, <1>8 DEF Typed, At, WithNew, Take, MarkSuperseded, Active
<1>9. CASE Undo(p)
  BY <1>0, <1>18, <1>19, <1>20, <1>9 DEF Typed, At, WithNew, Undo
<1>10. CASE Scan(p)
  BY <1>0, <1>18, <1>19, <1>20, <1>10 DEF Typed, At, WithNew, Scan
<1>11. CASE Apply(p)
  BY <1>0, <1>18, <1>19, <1>20, <1>11 DEF Typed, At, WithNew, Apply, MarkSuperseded, Active
<1>12. CASE ListDue(p)
  BY <1>0, <1>18, <1>19, <1>20, <1>12 DEF Typed, At, WithNew, ListDue
<1>13. CASE ReadRow(p)
  BY <1>0, <1>18, <1>19, <1>20, <1>13 DEF Typed, At, WithNew, ReadRow
<1>14. CASE Clear(p)
  BY <1>0, <1>18, <1>19, <1>20, <1>14 DEF Typed, At, WithNew, Clear
<1>15. CASE CheckFails(p)
  BY <1>0, <1>18, <1>19, <1>20, <1>15 DEF Typed, At, WithNew, CheckFails
<1>16. CASE Die(p)
  BY <1>0, <1>18, <1>19, <1>20, <1>16 DEF Typed, At, WithNew, Promised, Die
<1>17. QED
  BY <1>1, <1>2, <1>3, <1>4, <1>5, <1>6, <1>7, <1>8, <1>9, <1>10, <1>11, <1>12, <1>13, <1>14, <1>15,
        <1>16 DEF ProcStep

LEMMA TypeHand ==
  ASSUME Typed, NEW m \in Memories, HandStep(m)
  PROVE  Typed'
<1>1. mishaps < MaxMishaps => mishaps + 1 \in 0 .. MaxMishaps
  BY Sizes DEF Typed
<1>2. made' = made /\ work' = work
  BY DEF HandStep, Backfill, Delete, Restore, Relabel
<1>3. QED
  BY <1>1, <1>2 DEF Typed, HandStep, Backfill, Delete, Restore, Relabel, Mishap, Made, store, history

-----------------------------------------------------------------------------
(* What a step leaves in the hands of its process. *)

Has(p, s, n, o, t, b) ==
  LET w == work'[p] IN w.at = s /\ w.new = n /\ w.old = o /\ w.todo = t /\ w.sweep = b

Same(p, s, t) == Has(p, s, work[p].new, work[p].old, t, work[p].sweep)
Takes(p, s, m) == Has(p, s, m, work[p].old, work[p].todo, work[p].sweep)
HasNothing(p) == Has(p, "idle", NoMemory, NoMemory, {}, FALSE)
HasRows(p) == HasNothing(p) \/ Has(p, "rows", NoMemory, NoMemory, {}, TRUE)
AfterwardsHas(p) == IF work[p].sweep THEN Same(p, "clear", {}) ELSE HasNothing(p)

LEMMA Hands ==
  ASSUME Typed, NEW p \in Procs
  PROVE  /\ Rests(p) => HasNothing(p)
         /\ \A s : Goes(p, s) => Same(p, s, work[p].todo)
         /\ AfterCheck(p) => AfterwardsHas(p)
         /\ \A t : GoesOn(p, t) => IF t = {} THEN AfterwardsHas(p) ELSE Same(p, "close", t)
         /\ \A d : NextRow(p, d) => HasRows(p)
<1>0. work[p] \in Items(made) /\ work \in [Procs -> Items(made)]
  BY DEF Typed
<1>1. Rests(p) => HasNothing(p)
  BY <1>0 DEF Rests, HasNothing, Has, Idle
<1>2. ASSUME NEW s PROVE Goes(p, s) => Same(p, s, work[p].todo)
  BY <1>0 DEF Goes, Same, Has, Items
<1>3. AfterCheck(p) => AfterwardsHas(p)
  BY <1>0, <1>1 DEF AfterCheck, AfterwardsHas, Same, Has, Items
<1>4. ASSUME NEW t PROVE GoesOn(p, t) => IF t = {} THEN AfterwardsHas(p) ELSE Same(p, "close", t)
  BY <1>0, <1>3 DEF GoesOn, Same, Has, Items
<1>5. ASSUME NEW d PROVE NextRow(p, d) => HasRows(p)
  BY <1>0 DEF NextRow, HasRows, HasNothing, Has, Idle
<1>6. QED
  BY <1>1, <1>2, <1>3, <1>4, <1>5

LEMMA Others ==
  ASSUME Typed, NEW p \in Procs, ProcStep(p), NEW q \in Procs, q # p
  PROVE  work'[q] = work[q]
<1>0. work \in [Procs -> Items(made)]
  BY DEF Typed
<1>1. /\ Rests(p) => work'[q] = work[q]
      /\ \A s : Goes(p, s) => work'[q] = work[q]
      /\ AfterCheck(p) => work'[q] = work[q]
      /\ \A t : GoesOn(p, t) => work'[q] = work[q]
      /\ \A d : NextRow(p, d) => work'[q] = work[q]
  BY <1>0 DEF Rests, Goes, AfterCheck, GoesOn, NextRow
<1>2. CASE Write(p) \/ Embed(p) \/ Flag(p)
  BY <1>0, <1>1, <1>2 DEF Write, Embed, Flag
<1>3. CASE Look(p) \/ Close(p) \/ CheckFails(p)
  BY <1>1, <1>3 DEF Look, Close, CheckFails
<1>4. CASE ReadOld(p) \/ Insert(p) \/ Take(p) \/ Undo(p)
  BY <1>0, <1>1, <1>4 DEF ReadOld, Insert, Take, Undo, AfterLoss
<1>5. CASE Scan(p) \/ Apply(p) \/ Die(p)
  BY <1>0, <1>1, <1>5 DEF Scan, Apply, Die
<1>6. CASE ListDue(p) \/ ReadRow(p) \/ Clear(p)
  BY <1>0, <1>1, <1>6 DEF ListDue, ReadRow, Clear
<1>7. QED
  BY <1>2, <1>3, <1>4, <1>5, <1>6 DEF ProcStep

LEMMA WriteHands ==
  ASSUME Typed, NEW p \in Procs, Write(p)
  PROVE  At(p, "idle") /\ (work'[p] = work[p] \/ Has(p, "embed", Fresh, NoMemory, {}, FALSE))
<1>0. work[p] \in Items(made) /\ work \in [Procs -> Items(made)]
  BY DEF Typed
<1>1. QED
  BY <1>0 DEF Write, Has, Idle

LEMMA EmbedHands ==
  ASSUME Typed, NEW p \in Procs, Embed(p)
  PROVE  At(p, "embed") /\ ((vector' = vector \cup {work[p].new} /\ Same(p, "look", work[p].todo)) \/
        Same(p, "flag", work[p].todo))
BY Hands DEF Embed

LEMMA FlagHands ==
  ASSUME Typed, NEW p \in Procs, Flag(p)
  PROVE  At(p, "flag") /\ HasNothing(p)
BY Hands DEF Flag

LEMMA LookHands ==
  ASSUME Typed, NEW p \in Procs, Look(p)
  PROVE  /\ At(p, "look")
         /\ LET t == Candidates(work[p].new) IN
              IF t = {} THEN checked' = checked \cup {work[p].new} /\ AfterwardsHas(p)
                        ELSE checked' = checked /\ Same(p, "close", t)
BY Hands DEF Look, GoesOn

LEMMA CloseHands ==
  ASSUME Typed, NEW p \in Procs, Close(p)
  PROVE  /\ At(p, "close")
         /\ \E o \in work[p].todo :
              /\ MarkSuperseded(work[p].new, {o})
              /\ LET t == work[p].todo \ {o} IN
                   IF t = {} THEN checked' = checked \cup {work[p].new} /\ AfterwardsHas(p)
                             ELSE checked' = checked /\ Same(p, "close", t)
<1>1. PICK o \in work[p].todo : MarkSuperseded(work[p].new, {o}) /\ GoesOn(p, work[p].todo \ {o})
  BY DEF Close
<1>2. QED
  BY <1>1, Hands DEF Close, GoesOn

LEMMA FailHands ==
  ASSUME Typed, NEW p \in Procs, CheckFails(p)
  PROVE  (At(p, "look") \/ At(p, "close")) /\ AfterwardsHas(p)
BY Hands DEF CheckFails

LEMMA ReadHands ==
  ASSUME Typed, NEW p \in Procs, ReadOld(p)
  PROVE  /\ At(p, "idle")
         /\ \E o \in live : \/ Has(p, "insert", NoMemory, o, {}, FALSE)
                            \/ \E n \in live : n # o /\ Has(p, "retire", n, o, {}, FALSE)
<1>0. work \in [Procs -> Items(made)]
  BY DEF Typed
<1>1. PICK o \in live : \/ work' = [work EXCEPT ![p] = [Idle EXCEPT !.at = "insert", !.old = o]]
                        \/ \E n \in live : n # o /\
                              work' = [work EXCEPT ![p] = [Idle EXCEPT !.at = "retire", !.old = o, !.new = n]]
  BY DEF ReadOld, ReplacesItself
<1>2. work' = [work EXCEPT ![p] = [Idle EXCEPT !.at = "insert", !.old = o]] =>
      Has(p, "insert", NoMemory, o, {}, FALSE)
  BY <1>0 DEF Has, Idle
<1>3. ASSUME NEW n,
      work' = [work EXCEPT ![p] = [Idle EXCEPT !.at = "retire", !.old = o, !.new = n]] PROVE Has(p, "retire", n, o, {}, FALSE)
  BY <1>0, <1>3 DEF Has, Idle
<1>4. QED
  BY <1>1, <1>2, <1>3 DEF ReadOld

LEMMA InsertHands ==
  ASSUME Typed, NEW p \in Procs, Insert(p)
  PROVE  /\ At(p, "insert")
         /\ \/ UNCHANGED <<made, live, meant>> /\ HasNothing(p)
            \/ /\ Inserted /\ meant' = meant \cup {<<Fresh, work[p].old>>}
               /\ Has(p, "take", Fresh, work[p].old, work[p].todo, work[p].sweep)
<1>0. work[p] \in Items(made) /\ work \in [Procs -> Items(made)]
  BY DEF Typed
<1>1. QED
  BY <1>0, Hands DEF Insert, Has, Items

LEMMA TakeHands ==
  ASSUME Typed, NEW p \in Procs, Take(p)
  PROVE  /\ At(p, "take") \/ At(p, "retire")
         /\ MarkSuperseded(work[p].new, {work[p].old})
         /\ HasNothing(p) \/ (work[p].old \notin live /\ Same(p, "undo", work[p].todo))
         /\ At(p, "take") /\ work[p].old \notin live => Same(p, "undo", work[p].todo)
         /\ At(p, "retire") => HasNothing(p)
BY Hands DEF Take, AfterLoss, Active, At

LEMMA UndoHands ==
  ASSUME Typed, NEW p \in Procs, Undo(p)
  PROVE  At(p, "undo") /\ HasNothing(p)
BY Hands DEF Undo

LEMMA ScanHands ==
  ASSUME Typed, NEW p \in Procs, Scan(p)
  PROVE  /\ At(p, "idle")
         /\ \E n \in live : \E t \in SUBSET {m \in live : m < n} : Has(p, "apply", n, NoMemory, t, FALSE)
<1>0. work \in [Procs -> Items(made)]
  BY DEF Typed
<1>1. QED
  BY <1>0 DEF Scan, Has, Idle

LEMMA ApplyHands ==
  ASSUME Typed, NEW p \in Procs, Apply(p)
  PROVE  At(p, "apply") /\ HasNothing(p)
BY Hands DEF Apply

LEMMA ListHands ==
  ASSUME Typed, NEW p \in Procs, ListDue(p)
  PROVE  At(p, "idle") /\ HasRows(p)
BY Hands DEF ListDue

LEMMA RowHands ==
  ASSUME Typed, NEW p \in Procs, ReadRow(p)
  PROVE  /\ At(p, "rows")
         /\ \/ HasRows(p)
            \/ \E m \in work[p].due \cap owed :
                 \/ m \in live \cap vector /\ Takes(p, "look", m)
                 \/ m \notin live /\ Takes(p, "clear", m)
<1>0. work[p] \in Items(made) /\ work \in [Procs -> Items(made)]
  BY DEF Typed
<1>1. PICK m \in work[p].due :
         IF m \in owed /\ (m \in live => m \in vector)
         THEN work' = [work EXCEPT ![p].at = IF m \in live THEN "look" ELSE "clear", ![p].new = m, ![p].due = @ \ {m}]
         ELSE NextRow(p, work[p].due \ {m})
  BY DEF ReadRow
<1>2. CASE NextRow(p, work[p].due \ {m})
  BY <1>2, Hands DEF ReadRow
<1>3. CASE m \in owed /\ (m \in live => m \in vector) /\
      work' = [work EXCEPT ![p].at = IF m \in live THEN "look" ELSE "clear", ![p].new = m, ![p].due = @ \ {m}]
  <2>1. Takes(p, IF m \in live THEN "look" ELSE "clear", m)
    BY <1>0, <1>3 DEF Has, Takes, Items
  <2>2. QED
    BY <1>3, <2>1 DEF ReadRow
<1>4. QED
  BY <1>1, <1>2, <1>3

LEMMA ClearHands ==
  ASSUME Typed, NEW p \in Procs, Clear(p)
  PROVE  At(p, "clear") /\ HasRows(p)
BY Hands DEF Clear

LEMMA DieHands ==
  ASSUME Typed, NEW p \in Procs, Die(p)
  PROVE  work[p].at \in Promised /\ HasNothing(p)
BY Hands DEF Die

-----------------------------------------------------------------------------
\* What only grows; a memory gets live by being inserted.
LEMMA Grown ==
  ASSUME Typed, NEW p \in Procs, ProcStep(p)
  PROVE  /\ Made \subseteq Made' /\ vector \subseteq vector'
         /\ edges \subseteq edges' /\ meant \subseteq meant'
         /\ checked \subseteq checked' /\ excused \subseteq excused' /\ restored' = restored
         /\ live' \subseteq live \cup (Made' \ Made)
<1>1. Made \subseteq Made' /\ Made = 1 .. made /\ made \in Nat /\ (made' = made + 1 =>
      Fresh \in Made' \ Made)
  BY TypeWork, Sizes DEF Made, Fresh
<1>2. CASE Write(p) \/ Embed(p) \/ Flag(p)
  BY <1>1, <1>2 DEF Write, Embed, Flag, Inserted, Fresh, history
<1>3. CASE Look(p) \/ Close(p) \/ CheckFails(p)
  BY <1>1, <1>3 DEF Look, Close, CheckFails, GoesOn, MarkSuperseded, store
<1>4. CASE ReadOld(p) \/ Insert(p) \/ Take(p) \/ Undo(p)
  BY <1>1, <1>4 DEF ReadOld, Insert, Inserted, Fresh, Take, Undo, MarkSuperseded, store, history
<1>5. CASE Scan(p) \/ Apply(p) \/ Die(p)
  BY <1>1, <1>5 DEF Scan, Apply, Die, MarkSuperseded, store, history
<1>6. CASE ListDue(p) \/ ReadRow(p) \/ Clear(p)
  BY <1>1, <1>6 DEF ListDue, ReadRow, Clear, store, history
<1>7. QED
  BY <1>2, <1>3, <1>4, <1>5, <1>6 DEF ProcStep

LEMMA HoldingStep ==
  ASSUME Typed, Holding, NEW p \in Procs, ProcStep(p)
  PROVE  Holding'
<1>1. Made \subseteq Made' /\ vector \subseteq vector' /\ live \subseteq Made
  BY Grown, Sizes
<1>2. ASSUME NEW q \in Procs, q # p PROVE Held(q)'
  BY <1>1, <1>2, Others DEF Holding, Held
<1>20. SUFFICES Held(p)'
  BY <1>2 DEF Holding
<1> USE DEF Held, Has, Same, HasNothing, HasRows, AfterwardsHas, At, WithNew
<1>0. Held(p)
  BY DEF Holding
<1>3. CASE Write(p)
  <2>1. made' = made + 1 => Fresh \in Made'
    BY Sizes DEF Made, Fresh
  <2>2. QED
    BY <1>0, <1>1, <1>3, <2>1, WriteHands DEF Write, Inserted, Fresh
<1>4. CASE Embed(p)
  BY <1>0, <1>1, <1>4, EmbedHands
<1>5. CASE Look(p)
  BY <1>0, <1>1, <1>5, LookHands DEF Candidates
<1>6. CASE Close(p)
  BY <1>0, <1>1, <1>6, CloseHands
<1>7. CASE CheckFails(p)
  BY <1>0, <1>1, <1>7, FailHands
<1>8. CASE ReadOld(p)
  BY <1>0, <1>1, <1>8, ReadHands
<1>9. CASE Insert(p)
  <2>1. (made' = made + 1 => Fresh \in Made') /\ Fresh \notin Made
    BY Sizes DEF Made, Fresh
  <2>2. QED
    BY <1>0, <1>1, <1>9, <2>1, InsertHands DEF Inserted, Fresh
<1>10. CASE Take(p)
  BY <1>0, <1>1, <1>10, TakeHands
<1>11. CASE Scan(p)
  <2>1. \A n \in live : n \notin {m \in live : m < n}
    BY Sizes
  <2>2. QED
    BY <1>0, <1>1, <1>11, <2>1, ScanHands
<1>12. CASE ReadRow(p)
  <2>1. work[p].due \subseteq Made
    BY Sizes DEF Items
  <2>2. QED
    BY <1>0, <1>1, <1>12, <2>1, RowHands DEF Takes
<1>13. CASE Flag(p) \/ Undo(p) \/ Apply(p) \/ Die(p)
  BY <1>13, FlagHands, UndoHands, ApplyHands, DieHands
<1>14. CASE ListDue(p) \/ Clear(p)
  BY <1>14, ListHands, ClearHands
<1>16. QED
  BY <1>3, <1>4, <1>5, <1>6, <1>7, <1>8, <1>9, <1>10, <1>11, <1>12, <1>13, <1>14 DEF ProcStep

LEMMA ByHand ==
  ASSUME Typed, NEW m \in Memories, HandStep(m)
  PROVE  /\ work' = work /\ made' = made /\ meant' = meant /\ edges' = edges /\ checked' = checked
         /\ vector \subseteq vector' /\ excused \subseteq excused' /\ restored \subseteq restored'
         /\ live' \ restored' \subseteq live \ restored
<1> USE DEF store, history
<1>1. CASE Backfill(m) \/ Delete(m)
  BY <1>1 DEF Backfill, Delete
<1>2. CASE Restore(m) \/ Relabel(m)
  BY <1>2 DEF Restore, Relabel
<1>3. QED
  BY <1>1, <1>2 DEF HandStep

LEMMA HoldingHand ==
  ASSUME Typed, Holding, NEW m \in Memories, HandStep(m)
  PROVE  Holding'
BY ByHand DEF Holding, Held, Made

-----------------------------------------------------------------------------
(* Superseded once *)

\* What was superseded is closed, unless it was brought back.
Closed == \A a, o \in Memories : <<a, o>> \in edges => o \notin live \/ o \in restored

\* Who adds an edge does so by _mark_superseded, with what it has in hand.
LEMMA Marks ==
  ASSUME Typed, Holding, NEW p \in Procs, ProcStep(p)
  PROVE  \/ edges' = edges
         \/ \E old : MarkSuperseded(work[p].new, old)
<1>1. CASE Close(p) \/ Take(p) \/ Apply(p)
  BY <1>1 DEF Close, Take, Apply
<1>2. CASE Write(p) \/ Embed(p) \/ Flag(p) \/ Look(p) \/ CheckFails(p) \/ Die(p)
  BY <1>2 DEF Write, Embed, Flag, Look, CheckFails, Die, store
<1>3. CASE ReadOld(p) \/ Insert(p) \/ Undo(p) \/ Scan(p) \/ ListDue(p) \/ ReadRow(p) \/ Clear(p)
  BY <1>3 DEF ReadOld, Insert, Undo, Scan, ListDue, ReadRow, Clear, store
<1>4. QED
  BY <1>1, <1>2, <1>3 DEF ProcStep

LEMMA OnceStep ==
  ASSUME Typed, Holding, Closed, ReplacedOnce, NEW p \in Procs, ProcStep(p)
  PROVE  Closed' /\ ReplacedOnce'
<1>1. live' \subseteq live \cup (Made' \ Made) /\ restored' = restored /\ edges \subseteq Made \X Made
  BY Grown DEF Typed
<1>2. CASE edges' = edges
  BY <1>1, <1>2 DEF Closed, ReplacedOnce
<1>3. ASSUME NEW old, MarkSuperseded(work[p].new, old)
      PROVE  Closed' /\ ReplacedOnce'
  BY <1>1, <1>3 DEF MarkSuperseded, Active, Closed, ReplacedOnce
<1>4. QED
  BY <1>2, <1>3, Marks

LEMMA OnceHand ==
  ASSUME Typed, Closed, ReplacedOnce, NEW m \in Memories, HandStep(m)
  PROVE  Closed' /\ ReplacedOnce'
BY ByHand DEF Closed, ReplacedOnce

-----------------------------------------------------------------------------
(* One replacement *)

Rewriting(p) == work[p].at \in {"take", "undo"}

\* A memory is written to replace one other, which it has superseded when its call is
\* over, if it is still there.
Rewritten ==
  /\ \A n, o, q : <<n, o>> \in meant /\ <<n, q>> \in meant => o = q
  /\ \A p \in Procs : Rewriting(p) => <<work[p].new, work[p].old>> \in meant
  /\ \A n, o : <<n, o>> \in meant /\ n \in live \ (excused \cup restored) /\ Settled(n) =>
        <<n, o>> \in edges

LEMMA RewrittenElse ==
  ASSUME Typed, Holding, NEW p \in Procs, ProcStep(p), ~Insert(p), ~Take(p), ~Undo(p), ~Die(p)
  PROVE  ~Rewriting(p) /\ ~Rewriting(p)' /\ meant' = meant
<1> USE DEF Rewriting, At, Has, Same, Takes, HasNothing, HasRows, AfterwardsHas, history
<1>1. CASE Write(p) \/ Embed(p) \/ Flag(p)
  BY <1>1, WriteHands, EmbedHands, FlagHands DEF Write, Embed, Flag
<1>2. CASE Look(p)
  BY <1>2, LookHands DEF Look
<1>3. CASE Close(p)
  BY <1>3, CloseHands DEF Close
<1>4. CASE CheckFails(p)
  BY <1>4, FailHands DEF CheckFails
<1>5. CASE ReadOld(p) \/ Scan(p) \/ Apply(p)
  BY <1>5, ReadHands, ScanHands, ApplyHands DEF ReadOld, Scan, Apply
<1>6. CASE ListDue(p) \/ ReadRow(p) \/ Clear(p)
  BY <1>6, ListHands, RowHands, ClearHands DEF ListDue, ReadRow, Clear
<1>7. QED
  BY <1>1, <1>2, <1>3, <1>4, <1>5, <1>6 DEF ProcStep

LEMMA RewrittenStep ==
  ASSUME Typed, Holding, Rewritten, NEW p \in Procs, ProcStep(p)
  PROVE  Rewritten'
<1>1. /\ live' \subseteq live \cup (Made' \ Made) /\ restored' = restored /\ excused \subseteq excused'
      /\ edges \subseteq edges' /\ meant \subseteq meant' /\ meant \subseteq Made \X Made
  BY Grown DEF Typed
<1>2. \A q \in Procs : q # p => work'[q] = work[q]
  BY Others
<1>3. ASSUME NEW n, ~Rewriting(p) \/ work[p].new # n, Settled(n)' PROVE Settled(n)
  BY <1>2, <1>3 DEF Settled, Rewriting
<1>4. CASE ~Insert(p) /\ ~Take(p) /\ ~Undo(p) /\ ~Die(p)
  <2>1. ~Rewriting(p) /\ ~Rewriting(p)' /\ meant' = meant
    BY <1>4, RewrittenElse
  <2>2. \A q \in Procs : Rewriting(q)' => <<work'[q].new, work'[q].old>> \in meant'
    BY <1>2, <2>1 DEF Rewritten, Rewriting
  <2>3. QED
    BY <1>1, <1>3, <2>1, <2>2 DEF Rewritten
<1>5. CASE Insert(p)
  <2>1. CASE UNCHANGED <<made, live, meant>> /\ HasNothing(p)
    BY <1>1, <1>2, <1>3, <1>5, <2>1 DEF Rewritten, Rewriting, Insert, At, HasNothing, Has
  <2>2. CASE Inserted /\ meant' = meant \cup {<<Fresh, work[p].old>>} /\
        Has(p, "take", Fresh, work[p].old, work[p].todo, work[p].sweep)
    <3>1. Fresh \notin Made
      BY Sizes DEF Fresh
    <3>2. (\A n : n = Fresh => ~Settled(n)') /\ ~Rewriting(p)
      BY <1>5, <2>2 DEF Settled, Has, Insert, At, Rewriting
    <3>3. \A q \in Procs : Rewriting(q)' => <<work'[q].new, work'[q].old>> \in meant'
      BY <1>2, <2>2 DEF Rewritten, Rewriting, Has
    <3>4. \A n, o : <<n, o>> \in meant' /\ n \in live' \ (excused' \cup restored') /\ Settled(n)' =>
          <<n, o>> \in edges'
      BY <1>1, <1>3, <2>2, <3>1, <3>2 DEF Rewritten
    <3>5. \A n, o, q : <<n, o>> \in meant' /\ <<n, q>> \in meant' => o = q
      BY <1>1, <2>2, <3>1 DEF Rewritten
    <3>6. QED
      BY <3>3, <3>4, <3>5 DEF Rewritten
  <2>3. QED
    BY <1>5, <2>1, <2>2, InsertHands
<1>6. CASE Take(p)
  <2>1. meant' = meant
    BY <1>6 DEF Take
  <2>2. \A q \in Procs : Rewriting(q)' => <<work'[q].new, work'[q].old>> \in meant'
    BY <1>2, <1>6, <2>1, TakeHands DEF Rewritten, Rewriting, Has, Same, HasNothing, At
  <2>3. ASSUME NEW n, NEW o, <<n, o>> \in meant, n \in live, n \notin excused \cup restored, Settled(n)'
        PROVE  <<n, o>> \in edges'
    <3>1. CASE ~Rewriting(p) \/ work[p].new # n
      BY <1>1, <1>3, <2>3, <3>1 DEF Rewritten
    <3>2. CASE Rewriting(p) /\ work[p].new = n
      <4>1. At(p, "take") /\ <<n, work[p].old>> \in meant
        BY <1>6, <3>2, TakeHands DEF Rewriting, At, Rewritten
      <4>2. work[p].old \in live
        BY <1>6, <2>3, <3>2, <4>1, TakeHands DEF Settled, Same, Has
      <4>3. <<n, work[p].old>> \in edges'
        BY <1>6, <3>2, <4>2, TakeHands DEF MarkSuperseded, Active
      <4>4. QED
        BY <2>3, <4>1, <4>3 DEF Rewritten
    <3>3. QED
      BY <3>1, <3>2
  <2>4. live' \subseteq live
    BY <1>6 DEF Take, MarkSuperseded
  <2>5. QED
    BY <1>1, <2>1, <2>2, <2>3, <2>4 DEF Rewritten
<1>7. CASE Undo(p) \/ Die(p)
  <2>1. meant' = meant /\ live' \subseteq live
    BY <1>7 DEF Undo, Die, store
  <2>2. ~Rewriting(p)'
    BY <1>7, UndoHands, DieHands DEF Rewriting, HasNothing, Has
  <2>3. Rewriting(p) => work[p].new \notin live' \/ work[p].new \in excused'
    BY <1>7 DEF Undo, Die, Rewriting, Holding, Held
  <2>4. \A q \in Procs : Rewriting(q)' => <<work'[q].new, work'[q].old>> \in meant'
    BY <1>2, <2>1, <2>2 DEF Rewritten, Rewriting
  <2>5. QED
    BY <1>1, <1>3, <2>1, <2>3, <2>4 DEF Rewritten
<1>8. QED
  BY <1>4, <1>5, <1>6, <1>7

LEMMA RewrittenHand ==
  ASSUME Typed, Rewritten, NEW m \in Memories, HandStep(m)
  PROVE  Rewritten'
<1>1. \A n : Settled(n)' = Settled(n)
  BY ByHand DEF Settled
<1>2. QED
  BY <1>1, ByHand DEF Rewritten, Rewriting

LEMMA OnlyOne ==
  ASSUME Typed, Rewritten, ReplacedOnce
  PROVE  OneReplacement
BY Sizes DEF Rewritten, ReplacedOnce, OneReplacement

-----------------------------------------------------------------------------
(* Conflicts are closed *)

\* p has still to close what contradicts n.
Closing(p, n) == At(p, "close") /\ work[p].new = n
InConflict(a, b) == {a, b} \subseteq live \ restored /\ Conflict(a, b)

\* Of two memories in conflict that were both checked, or are, one knows of the other.
Heeded ==
  /\ checked \subseteq vector
  /\ \A a, b \in Memories : InConflict(a, b) =>
       /\ ~({a, b} \subseteq checked)
       /\ \A p \in Procs : Closing(p, a) /\ b \in checked => b \in work[p].todo
       /\ \A p, q \in Procs : Closing(p, a) /\ Closing(q, b) => b \in work[p].todo \/ a \in work[q].todo

LEMMA HeededElse ==
  ASSUME Typed, NEW p \in Procs, ProcStep(p), ~Look(p), ~Close(p)
  PROVE  checked' = checked /\ ~At(p, "close")'
<1> USE DEF At, Has, Same, Takes, HasNothing, HasRows, AfterwardsHas, history, Promised
<1>1. CASE Write(p) \/ Embed(p) \/ Flag(p)
  BY <1>1, WriteHands, EmbedHands, FlagHands DEF Write, Embed, Flag
<1>2. CASE Insert(p) \/ Take(p) \/ Undo(p)
  BY <1>2, InsertHands, TakeHands, UndoHands DEF Insert, Take, Undo
<1>3. CASE CheckFails(p) \/ Die(p)
  BY <1>3, FailHands, DieHands DEF CheckFails, Die
<1>4. CASE ReadOld(p) \/ Scan(p) \/ Apply(p)
  BY <1>4, ReadHands, ScanHands, ApplyHands DEF ReadOld, Scan, Apply
<1>5. CASE ListDue(p) \/ ReadRow(p) \/ Clear(p)
  BY <1>5, ListHands, RowHands, ClearHands DEF ListDue, ReadRow, Clear
<1>6. QED
  BY <1>1, <1>2, <1>3, <1>4, <1>5 DEF ProcStep

LEMMA HeededStep ==
  ASSUME Typed, Holding, Heeded, NEW p \in Procs, ProcStep(p)
  PROVE  Heeded'
<1>1. /\ live' \subseteq live \cup (Made' \ Made) /\ restored' = restored /\ vector \subseteq vector'
      /\ checked \subseteq Made /\ live \subseteq Made
  BY Grown DEF Typed
<1>2. \A q \in Procs : q # p => work'[q] = work[q]
  BY Others
<1>3. \A q \in Procs : \A n : Closing(q, n) => n \in Made /\ n \in vector
  BY DEF Closing, Holding, Held, At, WithNew
<1>4. \A a, b : Conflict(a, b) => Conflict(b, a) /\ a # b
  BY DEF Conflict
<1>5. CASE ~Look(p) /\ ~Close(p)
  <2>1. checked' = checked /\ ~At(p, "close")'
    BY <1>5, HeededElse
  <2>2. \A q \in Procs : \A n : Closing(q, n)' => Closing(q, n) /\ work'[q] = work[q]
    BY <1>2, <2>1 DEF Closing, At
  <2>3. \A a, b \in Memories : InConflict(a, b)' /\ a \in Made /\ b \in Made => InConflict(a, b)
    BY <1>1 DEF InConflict, Conflict
  <2>4. QED
    BY <1>1, <1>3, <2>1, <2>2, <2>3 DEF Heeded
<1>6. CASE Look(p)
  <2>1. live' = live /\ vector' = vector /\ \A a, b \in Memories : InConflict(a, b)' = InConflict(a, b)
    BY <1>6 DEF Look, store, InConflict, Conflict
  <2> DEFINE n == work[p].new
  <2>2. \A m : InConflict(n, m) /\ m \in vector => m \in Candidates(n)
    BY <1>4 DEF InConflict, Candidates
  <2>3. n \in vector /\ \A q \in Procs : \A m : Closing(q, m) => m \in vector
    BY <1>3, <1>6 DEF Look, Holding, Held, At
  <2>4. CASE Candidates(n) = {} /\ checked' = checked \cup {n} /\ AfterwardsHas(p)
    <3>1. \A q \in Procs : \A m : Closing(q, m)' => q # p /\ Closing(q, m) /\ work'[q] = work[q]
      BY <1>2, <2>4 DEF Closing, At, AfterwardsHas, Same, HasNothing, Has
    <3>2. \A m : InConflict(n, m) => m \notin vector
      BY <2>2, <2>4
    <3>3. \A m : InConflict(m, n) => InConflict(n, m)
      BY <1>4 DEF InConflict
    <3>4. QED
      BY <2>1, <2>3, <2>4, <3>1, <3>2, <3>3 DEF Heeded
  <2>5. CASE checked' = checked /\ Same(p, "close", Candidates(n))
    <3>1. \A q \in Procs : \A m : Closing(q, m)' => (q = p /\ m = n) \/ (Closing(q, m) /\
          work'[q] = work[q])
      BY <1>2, <2>5 DEF Closing, At, Same, Has
    <3>2. work'[p].todo = Candidates(n)
      BY <2>5 DEF Same, Has
    <3>3. \A m : InConflict(m, n) => InConflict(n, m)
      BY <1>4 DEF InConflict
    <3>4. \A a, b \in Memories : InConflict(a, b)' => ~({a, b} \subseteq checked')
      BY <2>1, <2>5 DEF Heeded
    <3>5. \A a, b \in Memories : InConflict(a, b)' => \A q \in Procs : Closing(q, a)' /\
          b \in checked' => b \in work'[q].todo
      BY <2>1, <2>2, <2>5, <3>1, <3>2 DEF Heeded
    <3>6. \A a, b \in Memories : InConflict(a, b)' =>
            \A q, r \in Procs : Closing(q, a)' /\ Closing(r, b)' => b \in work'[q].todo \/
                  a \in work'[r].todo
      BY <1>4, <2>1, <2>2, <2>3, <3>1, <3>2, <3>3 DEF Heeded, InConflict
    <3>7. QED
      BY <2>1, <2>5, <3>4, <3>5, <3>6 DEF Heeded
  <2>6. QED
    BY <1>6, <2>4, <2>5, LookHands
<1>7. CASE Close(p)
  <2> DEFINE n == work[p].new
  <2>1. PICK o \in work[p].todo :
          /\ MarkSuperseded(n, {o})
          /\ LET t == work[p].todo \ {o} IN
               IF t = {} THEN checked' = checked \cup {n} /\ AfterwardsHas(p)
                         ELSE checked' = checked /\ Same(p, "close", t)
    BY <1>7, CloseHands
  <2>2. vector' = vector /\ live' \subseteq live /\ o \notin live'
    BY <1>7, <2>1 DEF Close, MarkSuperseded, Active
  <2>3. Closing(p, n) /\ n \in vector
    BY <1>3, <1>7 DEF Close, Closing
  <2>4. \A a, b \in Memories : InConflict(a, b)' => InConflict(a, b) /\ InConflict(b, a) /\ a # o /\
        b # o /\ a # b
    BY <1>1, <1>4, <2>2 DEF InConflict, Conflict
  <2>5. CASE work[p].todo = {o} /\ checked' = checked \cup {n} /\ AfterwardsHas(p)
    <3>1. \A q \in Procs : \A m : Closing(q, m)' => q # p /\ Closing(q, m) /\ work'[q] = work[q]
      BY <1>2, <2>5 DEF Closing, At, AfterwardsHas, Same, HasNothing, Has
    <3>2. \A a, b \in Memories : InConflict(a, b)' => ~({a, b} \subseteq checked')
      BY <2>3, <2>4, <2>5 DEF Heeded
    <3>3. \A a, b \in Memories : InConflict(a, b)' => \A q \in Procs : Closing(q, a)' /\
          b \in checked' => b \in work'[q].todo
      BY <2>3, <2>4, <2>5, <3>1 DEF Heeded
    <3>4. QED
      BY <2>2, <2>3, <2>4, <2>5, <3>1, <3>2, <3>3 DEF Heeded
  <2>6. CASE checked' = checked /\ Same(p, "close", work[p].todo \ {o})
    <3>1. \A q \in Procs : \A m : Closing(q, m)' => Closing(q, m) /\
          work[q].todo \ {o} \subseteq work'[q].todo
      BY <1>2, <2>3, <2>6 DEF Closing, At, Same, Has
    <3>2. QED
      BY <2>2, <2>4, <2>6, <3>1 DEF Heeded
  <2>7. QED
    BY <2>1, <2>5, <2>6
<1>8. QED
  BY <1>5, <1>6, <1>7

LEMMA HeededHand ==
  ASSUME Typed, Heeded, NEW m \in Memories, HandStep(m)
  PROVE  Heeded'
<1>1. \A a, b : InConflict(a, b)' => InConflict(a, b)
  BY ByHand DEF InConflict, Conflict
<1>2. QED
  BY <1>1, ByHand DEF Heeded, Closing, At

LEMMA NoneStands ==
  ASSUME Typed, Heeded
  PROVE  NoConflictStands
BY Sizes DEF Heeded, InConflict, NoConflictStands

-----------------------------------------------------------------------------
(* Something is live *)

\* A live memory that no roll-back in hand deletes unnoticed.
Safe(m) ==
    /\ m \in live
    /\ \A p \in Procs : Rewriting(p) /\ work[p].new = m => \E o \in Memories : <<m, o>> \in edges
Remains == made > 0 /\ ~lost => \E m \in Memories : Safe(m)

\* Who closes memories in favour of a live one leaves that one, with an edge.
LEMMA MarkRemains ==
  ASSUME Typed, Remains, NEW p \in Procs, NEW old \in SUBSET Memories,
        MarkSuperseded(work[p].new, old), work[p].new \notin old,
         made' = made, \A q \in Procs : q # p => work'[q] = work[q],
         Rewriting(p)' => Rewriting(p) /\ work'[p].new = work[p].new
  PROVE  Remains'
<1> DEFINE n == work[p].new
           closing == {o \in old : Active(o)}
<1>1. edges \subseteq edges' /\ \A q \in Procs : Rewriting(q)' => Rewriting(q) /\
      work'[q].new = work[q].new
  BY DEF Rewriting, MarkSuperseded
<1>2. CASE closing = {}
  <2>1. live' = live /\ lost' = lost
    <3>1. live' = live \ closing /\ lost' = (lost \/ (closing # {} /\ n \notin live))
      BY DEF MarkSuperseded
    <3>2. lost \in BOOLEAN
      BY DEF Typed
    <3>3. QED
      BY <1>2, <3>1, <3>2
  <2>2. \A m : Safe(m) => Safe(m)'
    BY <1>1, <2>1 DEF Safe
  <2>3. QED
    BY <2>1, <2>2 DEF Remains
<1>3. CASE closing # {} /\ n \notin live
  BY <1>3 DEF MarkSuperseded, Remains
<1>4. CASE closing # {} /\ n \in live
  <2>1. n \in live' /\ n \in Memories
    BY <1>4, Sizes DEF MarkSuperseded
  <2>2. PICK o \in closing : TRUE
    BY <1>4
  <2>3. <<n, o>> \in edges' /\ o \in Memories
    BY <2>2 DEF MarkSuperseded
  <2>4. \E m \in Memories : Safe(m)'
    BY <2>1, <2>3 DEF Safe
  <2>5. QED
    BY <2>4 DEF Remains
<1>5. QED
  BY <1>2, <1>3, <1>4

LEMMA RemainsStep ==
  ASSUME Typed, Holding, Remains, NEW p \in Procs, ProcStep(p)
  PROVE  Remains'
<1>1. \A q \in Procs : q # p => work'[q] = work[q]
  BY Others
<1>2. edges \subseteq edges' /\ made \in Nat /\ Made \subseteq Memories /\ live \subseteq Made /\
      made' \in Nat
  BY Grown, Sizes, TypeWork
<1>3. CASE Close(p)
  <2>1. PICK o \in work[p].todo : MarkSuperseded(work[p].new, {o})
    BY <1>3 DEF Close
  <2>2. work[p].new # o /\ o \in Memories /\ made' = made
    BY <1>2, <1>3, Sizes DEF Close, Holding, Held, At, Items
  <2>3. ~Rewriting(p)'
    BY <1>3, CloseHands DEF Rewriting, AfterwardsHas, Same, HasNothing, Has
  <2>4. QED
    BY <1>1, <2>1, <2>2, <2>3, MarkRemains
<1>4. CASE Take(p)
  <2>1. MarkSuperseded(work[p].new, {work[p].old}) /\ made' = made /\ work[p].new # work[p].old /\
        work[p].old \in Memories
    BY <1>2, <1>4 DEF Take, Holding, Held, At
  <2>2. Rewriting(p)' => Rewriting(p) /\ work'[p].new = work[p].new
    BY <1>4, TakeHands DEF Rewriting, HasNothing, Same, Has, At
  <2>3. QED
    BY <1>1, <2>1, <2>2, MarkRemains
<1>5. CASE Apply(p)
  <2>1. MarkSuperseded(work[p].new, work[p].todo) /\ made' = made /\
        work[p].new \notin work[p].todo /\ work[p].todo \subseteq Memories
    BY <1>2, <1>5, Sizes DEF Apply, Holding, Held, At, Items
  <2>2. ~Rewriting(p)'
    BY <1>5, ApplyHands DEF Rewriting, HasNothing, Has
  <2>3. QED
    BY <1>1, <2>1, <2>2, MarkRemains
<1>6. CASE Undo(p)
  <2>1. made' = made /\ edges' = edges /\ ~Rewriting(p)' /\ Rewriting(p)
    BY <1>6, UndoHands DEF Undo, Rewriting, HasNothing, Has, At
  <2>2. lost' \/ (~lost /\ \A m \in Memories : Safe(m) => m \in live')
    BY <1>6, <2>1 DEF Undo, Safe
  <2>3. \A m \in Memories : Safe(m) /\ m \in live' => Safe(m)'
    BY <1>1, <2>1 DEF Safe, Rewriting
  <2>4. QED
    BY <2>1, <2>2, <2>3 DEF Remains
<1>7. CASE Write(p) \/ Insert(p)
  <2>1. \A m \in Memories : Safe(m) => Safe(m)'
    <3>1. \A m \in live : m # Fresh
      BY <1>2 DEF Made, Fresh
    <3>2. live \subseteq live' /\ edges' = edges
      BY <1>7 DEF Write, Insert, Inserted
    <3>3. Rewriting(p)' => work'[p].new = Fresh
      BY <1>7, WriteHands, InsertHands DEF Rewriting, Has, HasNothing, At
    <3>4. QED
      BY <1>1, <3>1, <3>2, <3>3 DEF Safe, Rewriting
  <2>2. CASE made > 0
    BY <1>7, <2>1, <2>2 DEF Remains, Write, Insert, history
  <2>3. CASE made = 0 /\ Write(p)
    <3>1. CASE Inserted
      <4>1. made' = 1 /\ Fresh = 1 /\ 1 \in live' /\ 1 \in Memories
        BY <1>2, <2>3, <3>1, SupersessionAssumption DEF Inserted, Fresh, Memories
      <4>2. \A q \in Procs : ~Rewriting(q)
        BY <1>2, <2>3 DEF Holding, Held, Rewriting, WithNew, Made
      <4>3. ~Rewriting(p)'
        BY <2>3, <4>2, WriteHands DEF Rewriting, Has
      <4>4. Safe(1)'
        BY <1>1, <4>1, <4>2, <4>3 DEF Safe, Rewriting
      <4>5. QED
        BY <4>1, <4>4 DEF Remains
    <3>2. QED
      BY <2>3, <3>1 DEF Write
  <2>4. CASE made = 0 /\ Insert(p)
    BY <1>2, <2>4 DEF Holding, Held, Insert, At, Made
  <2>5. QED
    BY <1>2, <1>7, <2>2, <2>3, <2>4
<1>8. CASE ~(Close(p) \/ Take(p) \/ Apply(p) \/ Undo(p) \/ Write(p) \/ Insert(p))
  <2>1. live' = live /\ edges' = edges /\ lost' = lost /\ made' = made
    BY <1>8 DEF ProcStep, Embed, Flag, Look, CheckFails, ReadOld, Scan, ListDue, ReadRow, Clear, Die,
          store, history
  <2>2. ~Rewriting(p)'
    BY <1>8, RewrittenElse, DieHands DEF Rewriting, HasNothing, Has
  <2>3. \A m : Safe(m) => Safe(m)'
    BY <1>1, <2>1, <2>2 DEF Safe, Rewriting
  <2>4. QED
    BY <2>1, <2>3 DEF Remains
<1>9. QED
  BY <1>3, <1>4, <1>5, <1>6, <1>7, <1>8

LEMMA RemainsHand ==
  ASSUME Typed, Remains, NEW m \in Memories, HandStep(m)
  PROVE  Remains'
<1>1. work' = work /\ edges' = edges /\ made' = made
  BY ByHand
<1>2. lost' \/ (lost' = lost /\ live \subseteq live')
  BY DEF HandStep, Backfill, Delete, Restore, Relabel, history
<1>3. live \subseteq live' => \A n : Safe(n) => Safe(n)'
  BY <1>1 DEF Safe, Rewriting
<1>4. QED
  BY <1>1, <1>2, <1>3 DEF Remains

\* Whoever replaced a memory leads to a live one.
ChainsEndLive == ~lost => \A n, o \in Memories : <<n, o>> \in edges => EndsLive(n)

\* A close in favour of a live memory leads the chains that it cuts to that memory.
LEMMA MarkLeads ==
  ASSUME Typed, ChainsEndLive, NEW n, NEW old \in SUBSET Memories, MarkSuperseded(n, old), n \notin old
  PROVE  ChainsEndLive'
<1> SUFFICES ASSUME ~lost', NEW m \in Memories, NEW k \in Memories, <<m, k>> \in edges',
                    NEW S \in SUBSET Memories, m \in S, FollowsEdges(S)'
             PROVE  S \cap live' # {}
  BY DEF ChainsEndLive, EndsLive
<1> DEFINE closing == {o \in old : Active(o)}
<1>1. live' = live \ closing /\ edges' = edges \cup ({n} \X closing) /\ ~lost
      /\ (closing # {} => n \in live)
  BY DEF MarkSuperseded
<1>2. FollowsEdges(S)
  BY <1>1 DEF FollowsEdges
<1>3. CASE n \in S /\ closing # {}
  BY <1>1, <1>3
<1>4. CASE ~(n \in S /\ closing # {})
  <2>1. <<m, k>> \in edges
    BY <1>1, <1>4
  <2>2. PICK l \in S : l \in live
    BY <1>1, <1>2, <2>1 DEF ChainsEndLive, EndsLive
  <2>3. l \notin closing
    <3>1. ASSUME l \in closing PROVE FALSE
      <4>1. <<n, l>> \in edges' /\ n \in Memories /\ l \in Memories
        BY <1>1, <3>1, Sizes
      <4>2. n \in S
        BY <4>1, <2>2 DEF FollowsEdges
      <4>3. QED
        BY <4>2, <1>4, <3>1
    <3>2. QED
      BY <3>1
  <2>4. QED
    BY <1>1, <2>2, <2>3
<1>5. QED
  BY <1>3, <1>4

\* A roll-back that does not lose a memory ends no chain.
LEMMA UndoLeads ==
  ASSUME Typed, ChainsEndLive, NEW p \in Procs, Undo(p)
  PROVE  ChainsEndLive'
<1> SUFFICES ASSUME ~lost', NEW m \in Memories, NEW k \in Memories, <<m, k>> \in edges',
                    NEW S \in SUBSET Memories, m \in S, FollowsEdges(S)'
             PROVE  S \cap live' # {}
  BY DEF ChainsEndLive, EndsLive
<1> DEFINE n == work[p].new
<1>1. edges' = edges
  BY DEF Undo
<1>2. FollowsEdges(S) /\ <<m, k>> \in edges
  BY <1>1 DEF FollowsEdges
<1>3. CASE live' = live /\ lost' = lost
  BY <1>2, <1>3 DEF ChainsEndLive, EndsLive
<1>4. CASE live' = live \ {n} /\ lost' = (lost \/ (\E o \in Memories : <<n, o>> \in edges))
  <2>1. ~lost /\ \A o \in Memories : <<n, o>> \notin edges
    BY <1>4
  <2>2. FollowsEdges(S \ {n}) /\ m \in S \ {n}
    BY <2>1, <1>2 DEF FollowsEdges
  <2>3. (S \ {n}) \cap live # {}
    BY <2>1, <2>2, <1>2 DEF ChainsEndLive, EndsLive
  <2>4. QED
    BY <2>3, <1>4
<1>5. QED
  BY <1>3, <1>4, Zenon DEF Undo

LEMMA ChainsStep ==
  ASSUME Typed, Holding, ChainsEndLive, NEW p \in Procs, ProcStep(p)
  PROVE  ChainsEndLive'
<1>1. Made \subseteq Memories /\ work[p] \in Items(made)
  BY Sizes
<1>2. CASE Close(p)
  <2>1. PICK o \in work[p].todo : MarkSuperseded(work[p].new, {o})
    BY <1>2 DEF Close
  <2>2. work[p].new # o /\ o \in Memories
    BY <1>1, <1>2, Sizes DEF Close, Holding, Held, At, Items
  <2>3. QED
    BY <2>1, <2>2, MarkLeads
<1>3. CASE Take(p)
  <2>1. MarkSuperseded(work[p].new, {work[p].old}) /\ work[p].new # work[p].old /\ work[p].old \in Memories
    BY <1>1, <1>3 DEF Take, Holding, Held, At
  <2>2. QED
    BY <2>1, MarkLeads
<1>4. CASE Apply(p)
  <2>1. MarkSuperseded(work[p].new, work[p].todo) /\ work[p].new \notin work[p].todo
        /\ work[p].todo \subseteq Memories
    BY <1>1, <1>4, Sizes DEF Apply, Holding, Held, At, Items
  <2>2. QED
    BY <2>1, MarkLeads
<1>5. CASE Undo(p)
  BY <1>5, UndoLeads
<1>6. CASE ~(Close(p) \/ Take(p) \/ Apply(p) \/ Undo(p))
  <2>1. live \subseteq live' /\ edges' = edges /\ lost' = lost
    BY <1>6 DEF ProcStep, Write, Embed, Flag, Look, CheckFails, ReadOld, Insert, Inserted, Scan, ListDue,
          ReadRow, Clear, Die, store, history
  <2>2. QED
    BY <2>1 DEF ChainsEndLive, EndsLive, FollowsEdges
<1>7. QED
  BY <1>2, <1>3, <1>4, <1>5, <1>6

LEMMA ChainsHand ==
  ASSUME Typed, ChainsEndLive, NEW m \in Memories, HandStep(m)
  PROVE  ChainsEndLive'
<1>1. edges' = edges
  BY ByHand
<1>2. lost' \/ (lost' = lost /\ live \subseteq live')
  BY DEF HandStep, Backfill, Delete, Restore, Relabel, history
<1>3. QED
  BY <1>1, <1>2 DEF ChainsEndLive, EndsLive, FollowsEdges

LEMMA Stand == ASSUME Remains, ChainsEndLive PROVE StandsUnlessLost
BY DEF Remains, Safe, ChainsEndLive, StandsUnlessLost

-----------------------------------------------------------------------------
(* No check is lost *)

\* Nobody owes m a check any more.
Over(m) == m \notin live \/ m \in checked \cup excused \cup restored
OverNext(m) == m \notin live' \/ m \in checked' \cup excused' \cup restored'

\* A sweep has a memory in hand whose flag is up, until its check is over.
Swept ==
  \A p \in Procs :
    /\ At(p, "clear") => Over(work[p].new)
    /\ work[p].sweep /\ work[p].at \in {"look", "close"} => work[p].new \in owed \/ Over(work[p].new)

\* A check of m is under way.
Checking(p, m) == work[p].new = m /\ work[p].at \in {"embed", "flag", "look", "close"}

LEMMA StaysOver ==
  ASSUME Typed, NEW p \in Procs, ProcStep(p), NEW m \in Made, Over(m)
  PROVE  OverNext(m)
BY Grown DEF Over, OverNext

LEMMA SweptElse ==
  ASSUME Typed, Holding, Swept, NEW p \in Procs, ProcStep(p)
  PROVE  \/ work'[p].at = "clear" /\ OverNext(work'[p].new)
         \/ work'[p].at # "clear" /\ (work'[p].sweep /\ work'[p].at \in {"look", "close"} =>
               work'[p].new \in owed' \/ OverNext(work'[p].new))
<1> USE DEF At, Has, Same, HasNothing, HasRows, AfterwardsHas
<1>0. Held(p) /\ Swept
  BY DEF Holding
<1>1. CASE Write(p) \/ Embed(p) \/ Flag(p)
  BY <1>0, <1>1, WriteHands, EmbedHands, FlagHands DEF Held
<1>2. CASE Insert(p) \/ Take(p) \/ Undo(p) \/ Die(p)
  BY <1>0, <1>2, InsertHands, TakeHands, UndoHands, DieHands DEF Held
<1>3. CASE ReadOld(p) \/ Scan(p) \/ Apply(p)
  BY <1>3, ReadHands, ScanHands, ApplyHands
<1>4. CASE ListDue(p) \/ Clear(p)
  BY <1>4, ListHands, ClearHands
<1>5. CASE ReadRow(p)
  <2>1. live' = live /\ owed' = owed
    BY <1>5 DEF ReadRow, store
  <2>2. QED
    BY <1>5, <2>1, RowHands DEF Takes, OverNext
<1>6. CASE Look(p)
  <2>1. owed' = owed /\ (Over(work[p].new) => OverNext(work[p].new))
    BY <1>0, <1>6, StaysOver DEF Look, store, Held, WithNew
  <2>2. work[p].new \in checked' => OverNext(work[p].new)
    BY DEF OverNext
  <2>3. QED
    BY <1>0, <1>6, <2>1, <2>2, LookHands DEF Swept
<1>7. CASE Close(p)
  <2>1. owed' = owed /\ (Over(work[p].new) => OverNext(work[p].new))
    BY <1>0, <1>7, StaysOver DEF Close, Held, WithNew
  <2>2. work[p].new \in checked' => OverNext(work[p].new)
    BY DEF OverNext
  <2>3. QED
    BY <1>0, <1>7, <2>1, <2>2, CloseHands DEF Swept
<1>8. CASE CheckFails(p)
  <2>1. OverNext(work[p].new)
    BY <1>8 DEF CheckFails, OverNext
  <2>2. QED
    BY <1>8, <2>1, FailHands
<1>9. QED
  BY <1>1, <1>2, <1>3, <1>4, <1>5, <1>6, <1>7, <1>8 DEF ProcStep

LEMMA SweptStep ==
  ASSUME Typed, Holding, Swept, NEW p \in Procs, ProcStep(p)
  PROVE  Swept'
<1>1. ASSUME NEW q \in Procs, q # p
      PROVE  (work'[q].at = "clear" => OverNext(work'[q].new)) /\ (work'[q].sweep /\
            work'[q].at \in {"look", "close"} => work'[q].new \in owed' \/ OverNext(work'[q].new))
  <2>1. work'[q] = work[q]
    BY <1>1, Others
  <2>2. work[q].at \in WithNew => work[q].new \in Made
    BY DEF Holding, Held
  <2>3. work'[q].at = "clear" => OverNext(work'[q].new)
    BY <2>1, <2>2, StaysOver DEF Swept, At, WithNew
  <2>4. ASSUME work[q].sweep, work[q].at \in {"look", "close"}, work[q].new \in owed,
        work[q].new \notin owed'
        PROVE  Over(work[q].new)
    <3>1. Clear(p) /\ work[q].new = work[p].new
      BY <2>4 DEF ProcStep, Write, Embed, Flag, Look, Close, CheckFails, ReadOld, Insert, Take, Undo,
          Scan, Apply, ListDue, ReadRow, Clear, Die, store
    <3>2. QED
      BY <3>1 DEF Clear, Swept
  <2>5. QED
    BY <2>1, <2>2, <2>3, <2>4, StaysOver DEF Swept, WithNew
<1>2. (work'[p].at = "clear" => OverNext(work'[p].new)) /\ (work'[p].sweep /\
      work'[p].at \in {"look", "close"} => work'[p].new \in owed' \/ OverNext(work'[p].new))
  BY SweptElse
<1>3. QED
  BY <1>1, <1>2 DEF Swept, At, Over, OverNext

LEMMA SweptHand ==
  ASSUME Typed, Swept, NEW m \in Memories, HandStep(m)
  PROVE  Swept'
<1>1. \A n : Over(n) => Over(n)'
  BY ByHand DEF Over
<1>2. \A n : n \in owed => n \in owed' \/ Over(n)'
  BY DEF HandStep, Backfill, Delete, Restore, Relabel, Over
<1>3. QED
  BY <1>1, <1>2, ByHand DEF Swept, At

LEMMA CheckStep ==
  ASSUME Typed, Holding, Swept, NoCheckLost, NEW p \in Procs, ProcStep(p)
  PROVE  NoCheckLost'
<1>0. \A q \in Procs : q # p => work'[q] = work[q]
  BY Others
<1>1. SUFFICES ASSUME NEW m \in Asked', m \in live', m \notin checked', m \notin excused',
      m \notin restored'
               PROVE  m \in owed' \/ \E q \in Procs : Checking(q, m)'
  BY DEF NoCheckLost, Checking
<1>2. CASE m \notin Made
  <2>1. live' \subseteq live \cup (Made' \ Made) /\ live \subseteq Made
    BY Grown, Sizes
  <2>2. m \in live' \ live
    BY <1>1, <1>2, <2>1
  <2>3. live' \subseteq live \/ Write(p) \/ Insert(p)
    BY DEF ProcStep, Embed, Flag, Look, Close, CheckFails, ReadOld, Take, Undo, Scan, Apply, ListDue,
          ReadRow, Clear, Die, MarkSuperseded, store
  <2>4. m \notin OptsOut /\ \A o \in Memories : <<m, o>> \notin meant'
    BY DEF Asked
  <2>5. CASE Write(p)
    <3>1. m = Fresh /\ work' = [work EXCEPT ![p] = [Idle EXCEPT !.at = "embed", !.new = Fresh]]
      BY <2>2, <2>4, <2>5 DEF Write, Inserted
    <3>2. work'[p].at = "embed" /\ work'[p].new = m
      BY <3>1 DEF Typed, Idle
    <3>3. QED
      BY <3>2 DEF Checking
  <2>6. CASE Insert(p)
    <3>1. work[p].old \in Memories
      BY <2>6, Sizes DEF Insert, Holding, Held, At
    <3>2. m = Fresh /\ <<Fresh, work[p].old>> \in meant'
      BY <2>2, <2>6 DEF Insert, Inserted
    <3>3. QED
      BY <2>4, <3>1, <3>2
  <2>7. QED
    BY <2>2, <2>3, <2>5, <2>6
<1>3. CASE m \in Made
  <2>1. m \in live /\ m \notin checked /\ m \notin excused /\ m \notin restored /\ m \in Asked
    BY <1>1, <1>3, Grown DEF Asked
  <2>2. CASE m \in owed
    <3>1. ~(Clear(p) /\ work[p].new = m)
      BY <2>1 DEF Clear, Swept, Over
    <3>2. QED
      BY <2>2, <3>1 DEF ProcStep, Write, Embed, Flag, Look, Close, CheckFails, ReadOld, Insert, Take,
            Undo,
          Scan, Apply, ListDue, ReadRow, Clear, Die, store
  <2>3. CASE \E q \in Procs : q # p /\ Checking(q, m)
    BY <1>0, <2>3 DEF Checking
  <2>4. CASE Checking(p, m)
    <3>1. CASE Embed(p)
      BY <2>4, <3>1, EmbedHands DEF Checking, Same, Has
    <3>2. CASE Flag(p)
      BY <2>4, <3>2 DEF Checking, Flag
    <3>3. CASE Look(p)
      BY <1>1, <2>4, <3>3, LookHands DEF Checking, Same, Has
    <3>4. CASE Close(p)
      BY <1>1, <2>4, <3>4, CloseHands DEF Checking, Same, Has
    <3>5. CASE CheckFails(p)
      BY <1>1, <2>4, <3>5 DEF Checking, CheckFails
    <3>6. CASE Die(p)
      <4>1. work[p].sweep
        BY <1>1, <2>4, <3>6 DEF Checking, Die
      <4>2. m \in owed
        BY <2>1, <2>4, <4>1 DEF Checking, Swept, Over, Holding, Held
      <4>3. QED
        BY <3>6, <4>2 DEF Die, store
    <3>7. Embed(p) \/ Flag(p) \/ Look(p) \/ Close(p) \/ CheckFails(p) \/ Die(p)
      BY <2>4 DEF Checking, ProcStep, Write, ReadOld, Insert, Take, Undo, Scan, Apply, ListDue,
            ReadRow, Clear, At
    <3>8. QED
      BY <3>1, <3>2, <3>3, <3>4, <3>5, <3>6, <3>7
  <2>5. QED
    BY <2>1, <2>2, <2>3, <2>4 DEF NoCheckLost, Checking
<1>4. QED
  BY <1>2, <1>3

LEMMA CheckHand ==
  ASSUME Typed, NoCheckLost, NEW m \in Memories, HandStep(m)
  PROVE  NoCheckLost'
<1>1. Asked' = Asked
  BY ByHand DEF Asked, Made
<1>2. \A n : n \in live' /\ n \notin checked' \cup excused' \cup restored' =>
              /\ n \in live /\ n \notin checked \cup excused \cup restored
              /\ n \in owed => n \in owed'
  BY ByHand DEF HandStep, Backfill, Delete, Restore, Relabel
<1>3. QED
  BY <1>1, <1>2, ByHand DEF NoCheckLost

-----------------------------------------------------------------------------
(* The theorems *)

\* The inductive invariant
IInv ==
  /\ Typed /\ Holding
  /\ Closed /\ ReplacedOnce /\ Rewritten
  /\ Heeded /\ Remains /\ ChainsEndLive
  /\ Swept /\ NoCheckLost

LEMMA InitInv == Init => IInv
<1> SUFFICES ASSUME Init PROVE IInv
  OBVIOUS
<1>1. Idle \in Items(0) /\ Made = {}
  BY Resting DEF Init, Made
<1>2. Typed
  <2>1. made = 0 /\ made \in 0 .. MaxMemories /\ mishaps \in 0 .. MaxMishaps
    BY SupersessionAssumption DEF Init
  <2>2. work \in [Procs -> Items(made)]
    BY <1>1, <2>1 DEF Init
  <2>3. QED
    BY <2>1, <2>2 DEF Init, Typed
<1>3. \A p \in Procs : work[p] = Idle
  BY DEF Init
<1>4. Holding /\ Swept
  BY <1>3 DEF Holding, Held, Swept, Idle, WithNew, At
<1>5. Closed /\ ReplacedOnce /\ Rewritten
  BY <1>3 DEF Init, Closed, ReplacedOnce, Rewritten, Rewriting, Idle
<1>6. Heeded /\ Remains /\ ChainsEndLive
  BY DEF Init, Heeded, InConflict, Remains, ChainsEndLive
<1>7. NoCheckLost
  BY DEF Init, NoCheckLost
<1>8. QED
  BY <1>2, <1>4, <1>5, <1>6, <1>7 DEF IInv

LEMMA StepInv == IInv /\ [Next]_vars => IInv'
<1> SUFFICES ASSUME IInv, [Next]_vars PROVE IInv'
  OBVIOUS
<1> USE DEF IInv
<1>1. ASSUME NEW p \in Procs, ProcStep(p) PROVE IInv'
  BY <1>1, TypeProc, HoldingStep, OnceStep, RewrittenStep, HeededStep, RemainsStep, ChainsStep, SweptStep, CheckStep
<1>2. ASSUME NEW m \in Memories, HandStep(m) PROVE IInv'
  BY <1>2, TypeHand, HoldingHand, OnceHand, RewrittenHand, HeededHand, RemainsHand, ChainsHand, SweptHand, CheckHand
<1>3. CASE UNCHANGED vars
  <2>1. /\ UNCHANGED <<made, live, vector, owed, edges, work, mishaps>>
        /\ UNCHANGED <<meant, checked, excused, restored, lost>>
    BY <1>3 DEF vars, store, history
  <2>2. Made' = Made
    BY <2>1 DEF Made
  <2>3. Typed' /\ Holding' /\ Closed' /\ ReplacedOnce'
    BY <2>1, <2>2 DEF Typed, Holding, Held, Closed, ReplacedOnce
  <2>4. Rewritten' /\ Heeded'
    BY <2>1, <2>2 DEF Rewritten, Rewriting, Settled, Heeded, InConflict, Conflict, Closing, At
  <2>5. Remains' /\ Swept' /\ NoCheckLost'
    BY <2>1, <2>2 DEF Remains, Safe, Rewriting, Swept, At, Over, NoCheckLost, Asked
  <2>6. ChainsEndLive'
    BY <2>1 DEF ChainsEndLive, EndsLive, FollowsEdges
  <2>7. QED
    BY <2>3, <2>4, <2>5, <2>6
<1>4. QED
  BY <1>1, <1>2, <1>3, StepCases

LEMMA Invariant == Spec => []IInv
<1>1. Init => IInv
  BY InitInv
<1>2. IInv /\ [Next]_vars => IInv'
  BY StepInv
<1>3. QED
  BY <1>1, <1>2, PTL DEF Spec

\* Every memory and every call is of its type, in every reachable state.
THEOREM TypeCorrect == Spec => []TypeOK
<1>1. IInv => TypeOK
  BY TypedIsTypeOK DEF IInv
<1>2. QED
  BY <1>1, Invariant, PTL

\* However many checks, supersedes and dedups choose the same memory, the conditional
\* UPDATE of _mark_superseded lets one of them have it.
THEOREM SupersededOnce == Spec => []ReplacedOnce
<1>1. IInv => ReplacedOnce
  BY DEF IInv
<1>2. QED
  BY <1>1, Invariant, PTL

\* Of the memories that memory_supersede_impl wrote to replace one, at most one is left
\* when the calls are over.
THEOREM OneReplacementLives == Spec => []OneReplacement
<1>1. IInv => OneReplacement
  BY OnlyOne DEF IInv
<1>2. QED
  BY <1>1, Invariant, PTL

\* Of two contradicting memories that _check_contradictions has been through, now or
\* late, one is closed.
THEOREM ConflictsAreClosed == Spec => []NoConflictStands
<1>1. IInv => NoConflictStands
  BY NoneStands DEF IInv
<1>2. QED
  BY <1>1, Invariant, PTL

\* Unless a memory was deleted, or closed for one that was closed, something is live and
\* the chains of _mark_superseded end in a live memory, however many processes write,
\* check, replace, roll back and deduplicate.
THEOREM SomethingStands == Spec => []StandsUnlessLost
<1>1. IInv => StandsUnlessLost
  BY Stand DEF IInv
<1>2. QED
  BY <1>1, Invariant, PTL

\* The check a writer asked for was made, is under way or is flagged.
THEOREM NoCheckIsLost == Spec => []NoCheckLost
<1>1. IInv => NoCheckLost
  BY DEF IInv
<1>2. QED
  BY <1>1, Invariant, PTL
=============================================================================
