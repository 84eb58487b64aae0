------------------------- MODULE WarehouseSyncProofs -------------------------
(* What holds of WarehouseSync for any devices, memories and bounds: its     *)
(* types, that nothing is left behind a push or a pull watermark, that it    *)
(* implements LastWriterWins, and that settled stores hold the newest.       *)
EXTENDS WarehouseSync, TLAPS

LEMMA RowFacts ==
  /\ Rows = Row \union {NoRow} /\ NoRow \notin Row /\ NoRow \in Rows
  /\ \A x \in Rows : x # NoRow => x \in Row /\ x.ts \in Times /\ x.ver \in Times
  /\ \A t, v \in Times : [ts |-> t, ver |-> v] \in Row
BY NoRowIsNoRow DEF Rows, Row

LEMMA TimesAreNaturals == Times \subseteq Nat /\ 0 \in Times
BY ConstantsOK DEF Times

LEMMA ClockRead ==
  ASSUME TypeOK, ReadClock
  PROVE  clock' \in Times /\ clock' = clock + 1 /\ clock' > 0
BY ConstantsOK DEF TypeOK, ReadClock, Times

LEMMA ForgottenType ==
  /\ Nothing \in [Ids -> Rows]
  /\ [i \in Ids |-> 0] \in [Ids -> Times]
BY RowFacts, TimesAreNaturals DEF Nothing

\* The view of a transaction is a set of rows with arrival times.
LEMMA SeenType ==
  ASSUME TypeOK, NEW d \in Devices
  PROVE  Seen(d) \in [Ids -> Rows] /\ SeenAt(d) \in [Ids -> Times]
BY DEF TypeOK, Seen, SeenAt

\* Whatever runs, fails or dies, the state of the sync stays within its types.
THEOREM TypeCorrect == Spec => []TypeOK
<1>1. Init => TypeOK
  <2> SUFFICES ASSUME Init PROVE TypeOK
    OBVIOUS
  <2>1. table \in Tables /\ plain \subseteq Ids
    BY DEF Init
  <2>2. [d \in Devices |-> "idle"] \in [Devices -> PC] /\ 0 \in 0..MaxEdits /\ 0 \in 0..MaxFaults
    BY ConstantsOK DEF PC
  <2>3. QED
    BY <2>1, <2>2, ForgottenType, TimesAreNaturals DEF Init, TypeOK
<1>2. TypeOK /\ [Next]_vars => TypeOK'
  <2> SUFFICES ASSUME TypeOK, [Next]_vars PROVE TypeOK'
    OBVIOUS
  <2>0. UNCHANGED <<table, plain>>
    BY DEF Next, vars, fixed
  <2> USE <2>0, RowFacts, TimesAreNaturals, ForgottenType
      DEF Goto, local, warehouse, transaction, run, marks, bounds
  <2>1. ASSUME NEW d \in Devices, NEW i \in Ids, Create(d, i) PROVE TypeOK'
    <3>1. clock' \in Times /\ born' = [born EXCEPT ![i] = clock']
      BY <2>1, ClockRead DEF Create, Stamped
    <3>2. store' \in [Devices -> [Ids -> Rows]]
      <4>1. PICK t \in Times : store' = [store EXCEPT ![d][i] = [ts |-> t, ver |-> clock']]
        BY <2>1, <3>1 DEF Create, Fresh
      <4>2. QED
        BY <3>1, <4>1 DEF TypeOK
    <3>3. QED
      BY <2>1, <3>1, <3>2 DEF Create, TypeOK
  <2>2. ASSUME NEW d \in Devices, NEW i \in Ids, BeginCreate(d, i) PROVE TypeOK'
    <3>1. clock' \in Times /\ born' = [born EXCEPT ![i] = clock']
      BY <2>2, ClockRead DEF BeginCreate, Stamped
    <3>2. writing' \in [Devices -> SUBSET Ids]
      BY <2>2 DEF BeginCreate, TypeOK
    <3>3. QED
      BY <2>2, <3>1, <3>2 DEF BeginCreate, TypeOK
  <2>3. ASSUME NEW d \in Devices, NEW i \in Ids, EndCreate(d, i) PROVE TypeOK'
    <3>1. store' \in [Devices -> [Ids -> Rows]]
      BY <2>3 DEF EndCreate, Fresh, TypeOK
    <3>2. writing' \in [Devices -> SUBSET Ids]
      BY <2>3 DEF EndCreate, TypeOK
    <3>3. QED
      BY <2>3, <3>1, <3>2 DEF EndCreate, TypeOK
  <2>4. ASSUME NEW d \in Devices, NEW i \in Ids, Edit(d, i) \/ SilentEdit(d, i)
        PROVE  TypeOK'
    <3>1. clock' \in Times
      BY <2>4, ClockRead DEF Edit, SilentEdit
    <3>2. edits' \in 0..MaxEdits
      BY <2>4, ConstantsOK DEF Edit, SilentEdit, Spend, TypeOK
    <3>3. store[d][i] \in Row
      BY <2>4 DEF Edit, SilentEdit, TypeOK
    <3>4. /\ [ts |-> clock', ver |-> clock'] \in Rows
          /\ [ts |-> store[d][i].ts, ver |-> clock'] \in Rows
      BY <3>1, <3>3
    <3>5. store' \in [Devices -> [Ids -> Rows]]
      <4>1. PICK row \in Rows : store' = [store EXCEPT ![d][i] = row]
        BY <2>4, <3>4 DEF Edit, SilentEdit
      <4>2. QED
        BY <4>1 DEF TypeOK
    <3>6. UNCHANGED <<born, writing, present, warehouse, transaction, pc, run, marks, faults>>
      BY <2>4 DEF Edit, SilentEdit
    <3>7. QED
      BY <3>1, <3>2, <3>5, <3>6 DEF TypeOK
  <2>40. ASSUME NEW d \in Devices, NEW i \in Ids, Learn(d, i) PROVE TypeOK'
    BY <2>40 DEF Learn, TypeOK
  <2>5. ASSUME NEW d \in Devices, StartRun(d) PROVE TypeOK'
    BY <2>5, ClockRead DEF StartRun, TypeOK, PC
  <2>6. ASSUME NEW d \in Devices, Select(d) PROVE TypeOK'
    BY <2>6 DEF Select, TypeOK, PC
  <2>7. ASSUME NEW d \in Devices, Push(d) PROVE TypeOK'
    <3>1. clock' \in Times
      BY <2>7, ClockRead DEF Push, TypeOK
    <3>2. sent' \in [Devices -> [Ids -> Rows]]
      BY <2>7 DEF Push, TypeOK
    <3>3. sentAt' \in [Devices -> [Ids -> Times]]
      BY <2>7, <3>1 DEF Push, TypeOK
    <3>4. QED
      BY <2>7, <3>1, <3>2, <3>3 DEF Push, TypeOK, PC
  <2>8. ASSUME NEW d \in Devices, Probe(d) PROVE TypeOK'
    <3>1. bound' \in [Devices -> Times]
      BY <2>8 DEF Probe, TypeOK
    <3>2. faults' \in 0..MaxFaults
      BY <2>8, ConstantsOK DEF Probe, Spend, TypeOK
    <3>3. QED
      BY <2>8, <3>1, <3>2 DEF Probe, TypeOK, PC
  <2>9. ASSUME NEW d \in Devices, Pull(d) PROVE TypeOK'
    <3>1. incoming' \in [Devices -> [Ids -> Rows]]
      BY <2>9, SeenType DEF Pull, TypeOK
    <3>2. bound' \in [Devices -> Times] /\ hasty' \in BOOLEAN
      BY <2>9 DEF Pull, TypeOK
    <3>3. QED
      BY <2>9, <3>1, <3>2 DEF Pull, TypeOK, PC
  <2>10. ASSUME NEW d \in Devices, Merge(d) PROVE TypeOK'
    <3>1. PICK done \in SUBSET Ids : Merge(d)!(done)
      BY <2>10 DEF Merge
    <3>2. store' \in [Devices -> [Ids -> Rows]]
      <4> DEFINE merged == [i \in Ids |->
                    IF i \in done /\ Accepted(i, incoming[d][i], store[d][i])
                    THEN incoming[d][i] ELSE store[d][i]]
      <4>1. merged \in [Ids -> Rows]
        BY DEF TypeOK
      <4>2. store' = [store EXCEPT ![d] = merged]
        BY <3>1
      <4> HIDE DEF merged
      <4>3. QED
        BY <4>1, <4>2 DEF TypeOK
    <3>3. faults' \in 0..MaxFaults /\ pc' \in [Devices -> PC] /\ bound' \in [Devices -> Times]
      <4>1. \/ faults' = faults /\ pc' = [pc EXCEPT ![d] = "mark"] /\ bound' = bound
            \/ /\ faults < MaxFaults /\ faults' = faults + 1
               /\ pc' = [pc EXCEPT ![d] = "commit"]
               /\ bound' = [bound EXCEPT ![d] = 0]
        BY <3>1 DEF Spend
      <4>2. faults' \in 0..MaxFaults
        BY <4>1, ConstantsOK DEF TypeOK
      <4>3. bound' \in [Devices -> Times]
        BY <4>1 DEF TypeOK
      <4>4. pc' \in [Devices -> PC]
        BY <4>1 DEF TypeOK, PC
      <4>5. QED
        BY <4>2, <4>3, <4>4
    <3>4. /\ incoming' \in [Devices -> [Ids -> Rows]]
          /\ UNCHANGED <<clock, born, writing, present, warehouse, transaction, now,
                         outgoing, queued, marks, edits>>
      BY <3>1 DEF TypeOK
    <3>5. QED
      BY <3>2, <3>3, <3>4 DEF TypeOK
  <2>11. ASSUME NEW d \in Devices, KeepPullMark(d) PROVE TypeOK'
    BY <2>11 DEF KeepPullMark, BoundOrOld, TypeOK, PC
  <2>12. ASSUME NEW d \in Devices, Commit(d) PROVE TypeOK'
    BY <2>12, SeenType DEF Commit, EndTransaction, TypeOK, PC
  <2>13. ASSUME NEW d \in Devices, KeepPushMark(d) PROVE TypeOK'
    BY <2>13 DEF KeepPushMark, ForgetRun, BoundOrOld, TypeOK, PC
  <2>14. ASSUME NEW d \in Devices, StepFails(d) PROVE TypeOK'
    BY <2>14, ConstantsOK DEF StepFails, Spend, TypeOK, PC
  <2>15. ASSUME NEW d \in Devices, Abort(d) PROVE TypeOK'
    BY <2>15, ConstantsOK DEF Abort, EndTransaction, ForgetRun, Spend, TypeOK, PC
  <2>16. CASE UNCHANGED vars
    BY <2>16 DEF vars, TypeOK
  <2>17. QED
    BY <2>1, <2>2, <2>3, <2>4, <2>40, <2>5, <2>6, <2>7, <2>8, <2>9, <2>10, <2>11,
       <2>12, <2>13, <2>14, <2>15, <2>16 DEF Next, Step, Write
<1>3. QED
  BY <1>1, <1>2, PTL DEF Spec
-----------------------------------------------------------------------------
(* Facts of the whole run that both arguments below rest on *)

Pushed == {"probe", "pull", "merge", "mark", "commit"}

\* Every reading of the clock that is kept lies in the past: bounds and pull
\* watermarks, too, unless one was taken from the edges that wait alone.
InThePast(d) ==
  /\ now[d] <= clock /\ queued[d] <= clock /\ pushMark[d] <= clock /\ xstart[d] <= clock
  /\ ~hasty => bound[d] <= clock /\ pullMark[d] <= clock

PastReadings == \A d \in Devices : InThePast(d)

\* Only between the push and the commit does a transaction hold rows, and a
\* transaction is open throughout the step.
Phases ==
  \A d \in Devices :
    /\ pc[d] \notin Pushed => sent[d] = Nothing
    /\ pc[d] \notin {"idle", "keep"} => xstart[d] # 0

\* The upserts of two open transactions never wrote the same row.
OneWriter ==
  \A d, e \in Devices, i \in Ids :
    (sent[d][i] # NoRow /\ sent[e][i] # NoRow) => d = e

LEMMA SameTable == [Next]_vars => table' = table
BY DEF Next, vars, fixed

\* What the writers of a store do to the rest of the state.
LEMMA WriterFrame ==
  ASSUME TypeOK, NEW d \in Devices, NEW i \in Ids, Write(d, i)
  PROVE  /\ clock' \in Times /\ clock <= clock'
         /\ UNCHANGED <<warehouse, transaction, pc, run, marks>>
<1>1. UNCHANGED <<warehouse, transaction, pc, run, marks>>
  BY DEF Write, Learn, Create, BeginCreate, EndCreate, Edit, SilentEdit
<1>2. ReadClock \/ clock' = clock
  BY DEF Write, Learn, Create, BeginCreate, EndCreate, Edit, SilentEdit, Stamped
<1>3. QED
  BY <1>1, <1>2, ClockRead, TimesAreNaturals DEF TypeOK

\* A merge, apart from the rows it lets in.
LEMMA MergedRun ==
  ASSUME TypeOK, NEW d \in Devices, Merge(d)
  PROVE  /\ \A e \in Devices \ {d} :
              /\ store'[e] = store[e] /\ incoming'[e] = incoming[e]
              /\ pc'[e] = pc[e] /\ bound'[e] = bound[e]
         /\ pc[d] = "merge" /\ pc'[d] \in {"mark", "commit"} /\ incoming'[d] = Nothing
         /\ bound'[d] = IF pc'[d] = "mark" THEN bound[d] ELSE 0
         /\ UNCHANGED <<clock, born, warehouse, transaction, now, outgoing,
                        queued, marks>>
<1>1. PICK done \in SUBSET Ids : Merge(d)!(done)
  BY DEF Merge
<1>2. /\ incoming' = [incoming EXCEPT ![d] = Nothing]
      /\ UNCHANGED <<clock, born, warehouse, transaction, now, outgoing,
                     queued, marks>>
  BY <1>1
<1>3. /\ pc[d] = "merge"
      /\ \/ pc' = [pc EXCEPT ![d] = "mark"] /\ bound' = bound
         \/ pc' = [pc EXCEPT ![d] = "commit"] /\ bound' = [bound EXCEPT ![d] = 0]
  BY <1>1 DEF Goto
<1>4. \A e \in Devices \ {d} : store'[e] = store[e]
  BY <1>1 DEF TypeOK
<1>5. QED
  BY <1>2, <1>3, <1>4 DEF TypeOK

\* One row of a store, after a merge.
LEMMA MergedRow ==
  ASSUME TypeOK, NEW d \in Devices, Merge(d), NEW i \in Ids
  PROVE  \/ /\ Accepted(i, incoming[d][i], store[d][i])
            /\ store'[d][i] = incoming[d][i]
         \/ /\ store'[d][i] = store[d][i]
            /\ pc'[d] = "mark" => ~Accepted(i, incoming[d][i], store[d][i])
<1>1. PICK done \in SUBSET Ids : Merge(d)!(done)
  BY DEF Merge
<1>2. pc'[d] = "mark" => done = Ids
  BY <1>1 DEF Goto, TypeOK
<1>3. store' = [store EXCEPT ![d] =
        [j \in Ids |-> IF j \in done /\ Accepted(j, incoming[d][j], store[d][j])
                       THEN incoming[d][j] ELSE store[d][j]]]
  BY <1>1
<1>4. QED
  BY <1>2, <1>3 DEF TypeOK

\* Unless the pull was hasty, it lets the pull watermark-to-be not pass the bound,
\* nor an edge that waits.
LEMMA PulledBound ==
  ASSUME TypeOK, NEW d \in Devices, Pull(d), ~hasty'
  PROVE  /\ ~hasty
         /\ \A e \in Devices : bound'[e] <= bound[e] /\ bound'[e] \in Nat
         /\ \A e \in Devices \ {d} : bound'[e] = bound[e]
         /\ \A i \in Waiting(d) : bound'[d] < SeenAt(d)[i]
<1>1. PICK t \in Times : IsResumePoint(d, t) /\ bound' = [bound EXCEPT ![d] = t]
  BY DEF Pull
<1>2. ~hasty /\ (Waiting(d) = {} \/ bound[d] # 0)
  BY DEF Pull
<1>3. /\ t \in Nat /\ bound'[d] = t /\ \A e \in Devices : bound[e] \in Nat
      /\ \A e \in Devices \ {d} : bound'[e] = bound[e]
  BY <1>1, TimesAreNaturals DEF TypeOK
<1>4. t <= bound[d]
  BY <1>1, <1>2, <1>3 DEF IsResumePoint
<1>5. \A i \in Waiting(d) : t < SeenAt(d)[i]
  BY <1>1 DEF IsResumePoint
<1>6. QED
  BY <1>2, <1>3, <1>4, <1>5

LEMMA PastReadingsKept ==
  ASSUME TypeOK, TypeOK', PastReadings, [Next]_vars PROVE PastReadings'
<1> SUFFICES ASSUME NEW q \in Devices PROVE InThePast(q)'
  BY DEF PastReadings
<1>0. /\ InThePast(q) /\ clock \in Nat /\ clock' \in Nat
      /\ now[q] \in Nat /\ queued[q] \in Nat /\ pushMark[q] \in Nat
      /\ bound[q] \in Nat /\ pullMark[q] \in Nat /\ xstart[q] \in Nat
  BY TimesAreNaturals DEF PastReadings, TypeOK
<1> USE <1>0 DEF TypeOK, InThePast, Goto, local, warehouse, transaction, run, marks
<1>1. ASSUME clock <= clock', UNCHANGED <<xstart, now, queued, bound, marks>>
      PROVE  InThePast(q)'
  BY <1>1
<1>2. ASSUME NEW d \in Devices, NEW i \in Ids, Write(d, i)
      PROVE  InThePast(q)'
  BY <1>1, <1>2, WriterFrame
<1>3. ASSUME NEW d \in Devices, StartRun(d) PROVE InThePast(q)'
  BY <1>3, ClockRead DEF StartRun
<1>4. ASSUME NEW d \in Devices, Push(d) PROVE InThePast(q)'
  <2>1. clock <= clock'
    BY <1>4, ClockRead DEF Push
  <2>2. queued' = [queued EXCEPT ![d] = now[d]] /\ UNCHANGED <<xstart, now, bound, marks>>
    BY <1>4 DEF Push
  <2>3. QED
    BY <2>1, <2>2
<1>5. ASSUME NEW d \in Devices, Probe(d) PROVE InThePast(q)'
  <2>1. PICK t \in Times : bound' = [bound EXCEPT ![d] = t] /\ (t = 0 \/ IsOldestStart(t))
    BY <1>5, TimesAreNaturals DEF Probe
  <2>2. t <= clock
    BY <2>1, TimesAreNaturals DEF IsOldestStart, PastReadings
  <2>3. UNCHANGED <<clock, xstart, now, queued, marks>>
    BY <1>5 DEF Probe
  <2>4. QED
    BY <2>1, <2>2, <2>3
<1>6. ASSUME NEW d \in Devices, Select(d) \/ Merge(d) PROVE InThePast(q)'
  <2>1. /\ UNCHANGED <<clock, xstart, now, queued, marks>>
        /\ bound'[q] \in {0, bound[q]}
    BY <1>6, MergedRun DEF Select
  <2>2. QED
    BY <2>1
<1>60. ASSUME NEW d \in Devices, Pull(d) PROVE InThePast(q)'
  <2>1. UNCHANGED <<clock, xstart, now, queued, pushMark, pullMark>>
    BY <1>60 DEF Pull
  <2>2. ~hasty' => ~hasty /\ bound'[q] <= bound[q] /\ bound'[q] \in Nat
    BY <1>60, PulledBound
  <2>3. QED
    BY <2>1, <2>2
<1>7. ASSUME NEW d \in Devices, KeepPullMark(d) PROVE InThePast(q)'
  <2>1. /\ pullMark'[q] \in {pullMark[q], bound[q]}
        /\ UNCHANGED <<clock, xstart, now, queued, bound, pushMark, hasty>>
    BY <1>7 DEF KeepPullMark, BoundOrOld
  <2>2. QED
    BY <2>1
<1>8. ASSUME NEW d \in Devices, Commit(d) PROVE InThePast(q)'
  BY <1>8 DEF Commit, EndTransaction
<1>9. ASSUME NEW d \in Devices, KeepPushMark(d) PROVE InThePast(q)'
  BY <1>9 DEF KeepPushMark, ForgetRun, BoundOrOld
<1>10. ASSUME NEW d \in Devices, StepFails(d) PROVE InThePast(q)'
  BY <1>10 DEF StepFails
<1>11. ASSUME NEW d \in Devices, Abort(d) PROVE InThePast(q)'
  BY <1>11 DEF Abort, EndTransaction, ForgetRun
<1>12. CASE UNCHANGED vars
  BY <1>12 DEF vars
<1>13. QED
  BY <1>2, <1>3, <1>4, <1>5, <1>6, <1>60, <1>7, <1>8, <1>9, <1>10, <1>11, <1>12
     DEF Next, Step

LEMMA PhasesKept ==
  ASSUME TypeOK, Phases, [Next]_vars PROVE Phases'
<1> USE TimesAreNaturals DEF TypeOK, Phases, Pushed, Goto, local, warehouse,
        transaction, run, marks
<1>1. ASSUME NEW d \in Devices, NEW i \in Ids, Write(d, i)
      PROVE  Phases'
  BY <1>1, WriterFrame
<1>2. ASSUME NEW d \in Devices, StartRun(d) PROVE Phases'
  BY <1>2, ClockRead DEF StartRun
<1>3. ASSUME NEW d \in Devices, Select(d) \/ Pull(d) \/ KeepPullMark(d) PROVE Phases'
  BY <1>3 DEF Select, Pull, KeepPullMark
<1>4. ASSUME NEW d \in Devices, Push(d) PROVE Phases'
  BY <1>4 DEF Push
<1>5. ASSUME NEW d \in Devices, Probe(d) PROVE Phases'
  BY <1>5 DEF Probe
<1>6. ASSUME NEW d \in Devices, Merge(d) PROVE Phases'
  <2>1. /\ UNCHANGED transaction
        /\ pc[d] = "merge" /\ \E l \in {"mark", "commit"} : pc' = [pc EXCEPT ![d] = l]
    BY <1>6 DEF Merge
  <2>2. QED
    BY <2>1
<1>7. ASSUME NEW d \in Devices, Commit(d) PROVE Phases'
  BY <1>7 DEF Commit, EndTransaction
<1>8. ASSUME NEW d \in Devices, KeepPushMark(d) PROVE Phases'
  BY <1>8 DEF KeepPushMark
<1>9. ASSUME NEW d \in Devices, StepFails(d) PROVE Phases'
  BY <1>9 DEF StepFails
<1>10. ASSUME NEW d \in Devices, Abort(d) PROVE Phases'
  BY <1>10 DEF Abort, EndTransaction
<1>11. CASE UNCHANGED vars
  BY <1>11 DEF vars
<1>12. QED
  BY <1>1, <1>2, <1>3, <1>4, <1>5, <1>6, <1>7, <1>8, <1>9, <1>10, <1>11
     DEF Next, Step
\* What a push leaves of one row in the transactions.
LEMMA PushedRow ==
  ASSUME TypeOK, NEW d \in Devices, Push(d), NEW i \in Ids
  PROVE  /\ \A e \in Devices \ {d} : sent'[e] = sent[e] /\ sentAt'[e] = sentAt[e]
         /\ \/ /\ Accepted(i, outgoing[d][i], Seen(d)[i])
               /\ sent'[d][i] = outgoing[d][i] /\ sentAt'[d][i] = clock'
               /\ outgoing[d] # Nothing /\ ReadClock
            \/ /\ ~Accepted(i, outgoing[d][i], Seen(d)[i])
               /\ sent'[d][i] = sent[d][i] /\ sentAt'[d][i] = sentAt[d][i]
<1>1. outgoing[d] = Nothing => ~Accepted(i, outgoing[d][i], Seen(d)[i])
  BY DEF Accepted, Nothing
<1>2. outgoing[d] # Nothing => ReadClock
  BY DEF Push
<1>3. sent' = [sent EXCEPT ![d] =
        [j \in Ids |-> IF Accepted(j, outgoing[d][j], Seen(d)[j])
                       THEN outgoing[d][j] ELSE sent[d][j]]]
  BY DEF Push
<1>4. sentAt' = [sentAt EXCEPT ![d] =
        [j \in Ids |-> IF Accepted(j, outgoing[d][j], Seen(d)[j])
                       THEN clock' ELSE sentAt[d][j]]]
  BY DEF Push
<1>5. QED
  BY <1>1, <1>2, <1>3, <1>4 DEF TypeOK

\* What the end of a transaction, or a rollback to its savepoint, leaves.
LEMMA EndedTransaction ==
  ASSUME TypeOK, NEW d \in Devices, Commit(d) \/ StepFails(d) \/ Abort(d)
  PROVE  /\ sent'[d] = Nothing
         /\ \A i \in Ids : sent'[d][i] = NoRow
         /\ \A e \in Devices \ {d} : sent'[e] = sent[e] /\ sentAt'[e] = sentAt[e]
         /\ \A e \in Devices : xstart'[e] \in {0, xstart[e]}
BY DEF Commit, StepFails, Abort, EndTransaction, TypeOK, Nothing, transaction

\* The steps of a run that leave its transaction alone.
LEMMA SameTransaction ==
  ASSUME NEW d \in Devices,
         \/ Select(d) \/ Probe(d) \/ Pull(d) \/ Merge(d)
         \/ KeepPullMark(d) \/ KeepPushMark(d)
  PROVE  UNCHANGED <<warehouse, transaction, clock, born, writing>>
BY DEF Select, Probe, Pull, Merge, KeepPullMark, KeepPushMark, local

LEMMA OneWriterKept ==
  ASSUME TypeOK, OneWriter, [Next]_vars PROVE OneWriter'
<1> SUFFICES ASSUME NEW p \in Devices, NEW q \in Devices, NEW i \in Ids,
                    sent'[p][i] # NoRow, sent'[q][i] # NoRow
             PROVE  p = q
  BY DEF OneWriter
<1>1. ASSUME NEW d \in Devices, Push(d) PROVE p = q
  <2>1. ASSUME NEW e \in Devices \ {d}, sent'[e][i] # NoRow, sent'[d][i] # NoRow
        PROVE  FALSE
    <3>1. sent[e][i] # NoRow
      BY <1>1, <2>1, PushedRow
    <3>2. outgoing[d][i] = NoRow
      BY <1>1, <2>1, <3>1 DEF Push, Blocked
    <3>3. sent[d][i] # NoRow
      BY <1>1, <2>1, <3>2, PushedRow DEF Accepted
    <3>4. QED
      BY <2>1, <3>1, <3>3 DEF OneWriter
  <2>2. CASE p # d /\ q # d
    BY <1>1, <2>2, PushedRow DEF OneWriter
  <2>3. QED
    BY <2>1, <2>2
<1>2. ASSUME NEW d \in Devices, Commit(d) \/ StepFails(d) \/ Abort(d) PROVE p = q
  BY <1>2, EndedTransaction DEF OneWriter
<1>3. ASSUME UNCHANGED sent PROVE p = q
  BY <1>3 DEF OneWriter
<1>4. ASSUME NEW d \in Devices, NEW j \in Ids, Write(d, j)
      PROVE  p = q
  BY <1>3, <1>4, WriterFrame DEF transaction
<1>5. ASSUME NEW d \in Devices, StartRun(d) PROVE p = q
  BY <1>3, <1>5 DEF StartRun
<1>6. CASE UNCHANGED vars
  BY <1>3, <1>6 DEF vars, transaction
<1>7. QED
  BY <1>1, <1>2, <1>3, <1>4, <1>5, <1>6, SameTransaction DEF Next, Step, transaction
\* A memory under creation is one device's, and stamped.
OneCreator ==
  \A d \in Devices : \A i \in writing[d] :
    /\ i \notin plain
    /\ born[i] # 0
    /\ \A e \in Devices : i \in writing[e] => e = d

NowhereYet(i) ==
  /\ wh[i] = NoRow
  /\ \A d \in Devices :
       /\ store[d][i] = NoRow /\ outgoing[d][i] = NoRow
       /\ sent[d][i] = NoRow /\ incoming[d][i] = NoRow

\* A memory that was not created, or not inserted, has no row anywhere.
Unborn ==
  \A i \in Ids : (born[i] = 0 \/ \E d \in Devices : i \in writing[d]) => NowhereYet(i)

LEMMA OneCreatorKept ==
  ASSUME TypeOK, OneCreator, [Next]_vars PROVE OneCreator'
<1>0. plain' = plain
  BY DEF Next, vars, fixed
<1> USE <1>0 DEF TypeOK, OneCreator, local
<1>1. ASSUME NEW d \in Devices, NEW i \in Ids, Create(d, i) PROVE OneCreator'
  BY <1>1, ClockRead DEF Create, Stamped
<1>2. ASSUME NEW d \in Devices, NEW i \in Ids, BeginCreate(d, i) PROVE OneCreator'
  BY <1>2, ClockRead DEF BeginCreate, Stamped
<1>3. ASSUME NEW d \in Devices, NEW i \in Ids, EndCreate(d, i) PROVE OneCreator'
  BY <1>3 DEF EndCreate
<1>4. ASSUME NEW d \in Devices, NEW i \in Ids, Edit(d, i) \/ SilentEdit(d, i)
      PROVE  OneCreator'
  BY <1>4 DEF Edit, SilentEdit
<1>5. ASSUME NEW d \in Devices,
             \/ StartRun(d) \/ Push(d) \/ Commit(d) \/ StepFails(d) \/ Abort(d)
             \/ \E i \in Ids : Learn(d, i)
      PROVE  OneCreator'
  BY <1>5 DEF StartRun, Push, Commit, StepFails, Abort, Learn
<1>6. CASE UNCHANGED vars
  BY <1>6 DEF vars
<1>7. QED
  BY <1>1, <1>2, <1>3, <1>4, <1>5, <1>6, SameTransaction DEF Next, Step, Write

LEMMA NothingFromNothing ==
  ASSUME TypeOK, NEW i \in Ids, NowhereYet(i), [Next]_vars
  PROVE  NowhereYet(i)' \/ \E d \in Devices : Create(d, i) \/ EndCreate(d, i)
<1> USE DEF TypeOK, NowhereYet, local, warehouse, transaction, run
<1>1. ASSUME NEW d \in Devices, NEW j \in Ids, j # i,
             Create(d, j) \/ EndCreate(d, j) \/ Edit(d, j) \/ SilentEdit(d, j)
      PROVE  NowhereYet(i)'
  <2>1. UNCHANGED <<wh, sent, outgoing, incoming>>
    BY <1>1, WriterFrame DEF Write
  <2>2. ASSUME NEW row, store' = [store EXCEPT ![d][j] = row]
        PROVE  \A e \in Devices : store'[e][i] = store[e][i]
    BY <1>1, <2>2
  <2>3. \E row : store' = [store EXCEPT ![d][j] = row]
    BY <1>1 DEF Create, EndCreate, Edit, SilentEdit
  <2>4. QED
    BY <2>1, <2>2, <2>3
<1>2. ASSUME NEW d \in Devices, NEW j \in Ids, BeginCreate(d, j) \/ Learn(d, j)
      PROVE  NowhereYet(i)'
  BY <1>2 DEF BeginCreate, Learn
<1>3. ASSUME NEW d \in Devices, Edit(d, i) \/ SilentEdit(d, i) PROVE FALSE
  BY <1>3 DEF Edit, SilentEdit
<1>4. ASSUME NEW d \in Devices, StartRun(d) \/ KeepPullMark(d) \/ Probe(d)
      PROVE  NowhereYet(i)'
  BY <1>4 DEF StartRun, KeepPullMark, Probe
<1>5. ASSUME NEW d \in Devices, Select(d) PROVE NowhereYet(i)'
  BY <1>5 DEF Select
<1>6. ASSUME NEW d \in Devices, Push(d) PROVE NowhereYet(i)'
  <2>1. \A e \in Devices : sent'[e][i] = NoRow
    <3>1. \A e \in Devices \ {d} : sent'[e] = sent[e]
      BY <1>6, PushedRow
    <3>2. ~Accepted(i, outgoing[d][i], Seen(d)[i])
      BY DEF Accepted
    <3>3. sent'[d][i] = sent[d][i]
      BY <1>6, <3>2, PushedRow
    <3>4. QED
      BY <3>1, <3>3
  <2>2. \A e \in Devices : outgoing'[e][i] = NoRow
    BY <1>6 DEF Push, Nothing
  <2>3. UNCHANGED <<store, wh, incoming>>
    BY <1>6 DEF Push
  <2>4. QED
    BY <2>1, <2>2, <2>3
<1>7. ASSUME NEW d \in Devices, Pull(d) PROVE NowhereYet(i)'
  BY <1>7 DEF Pull, Seen
<1>8. ASSUME NEW d \in Devices, Merge(d) PROVE NowhereYet(i)'
  <2>1. UNCHANGED <<warehouse, transaction, outgoing>>
    BY <1>8 DEF Merge
  <2>2. \A e \in Devices : incoming'[e][i] = NoRow
    BY <1>8 DEF Merge, Nothing
  <2>3. PICK done \in SUBSET Ids : Merge(d)!(done)
    BY <1>8 DEF Merge
  <2>4. \A e \in Devices : store'[e][i] = NoRow
    BY <2>3
  <2>5. QED
    BY <2>1, <2>2, <2>4
<1>9. ASSUME NEW d \in Devices, Commit(d) PROVE NowhereYet(i)'
  <2>1. wh'[i] = NoRow
    BY <1>9 DEF Commit, Seen
  <2>2. UNCHANGED <<store, outgoing, incoming>>
    BY <1>9 DEF Commit
  <2>3. QED
    BY <1>9, <2>1, <2>2, EndedTransaction
<1>10. ASSUME NEW d \in Devices, KeepPushMark(d) PROVE NowhereYet(i)'
  BY <1>10 DEF KeepPushMark, ForgetRun, Nothing
<1>11. ASSUME NEW d \in Devices, StepFails(d) PROVE NowhereYet(i)'
  BY <1>11 DEF StepFails, Nothing
<1>12. ASSUME NEW d \in Devices, Abort(d) PROVE NowhereYet(i)'
  BY <1>12 DEF Abort, EndTransaction, ForgetRun, Nothing
<1>13. CASE UNCHANGED vars
  BY <1>13 DEF vars
<1>14. QED
  BY <1>1, <1>2, <1>3, <1>4, <1>5, <1>6, <1>7, <1>8, <1>9, <1>10, <1>11, <1>12,
     <1>13 DEF Next, Step, Write

LEMMA UnbornKept ==
  ASSUME TypeOK, OneCreator, Unborn, [Next]_vars PROVE Unborn'
<1> SUFFICES ASSUME NEW i \in Ids,
                    born'[i] = 0 \/ \E d \in Devices : i \in writing'[d]
             PROVE  NowhereYet(i)'
  BY DEF Unborn
<1>1. ASSUME NEW d \in Devices, Create(d, i) \/ EndCreate(d, i) PROVE FALSE
  <2>1. CASE Create(d, i)
    <3>1. born[i] = 0 /\ born'[i] # 0 /\ writing' = writing
      BY <2>1, ClockRead DEF Create, Stamped, TypeOK
    <3>2. QED
      BY <3>1 DEF OneCreator
  <2>2. CASE EndCreate(d, i)
    <3>1. i \in writing[d] /\ born' = born /\ writing' = [writing EXCEPT ![d] = @ \ {i}]
      BY <2>2 DEF EndCreate
    <3>2. PICK e \in Devices : i \in writing'[e]
      BY <3>1 DEF OneCreator
    <3>3. QED
      BY <3>1, <3>2 DEF OneCreator, TypeOK
  <2>3. QED
    BY <1>1, <2>1, <2>2
<1>2. born[i] = 0 \/ \E d \in Devices : i \in writing[d]
  <2>1. ASSUME NEW d \in Devices, NEW j \in Ids, Write(d, j)
        PROVE  born[i] = 0 \/ \E e \in Devices : i \in writing[e]
    <3>1. CASE Learn(d, j) \/ Edit(d, j) \/ SilentEdit(d, j)
      BY <3>1 DEF Learn, Edit, SilentEdit
    <3>2. CASE Create(d, j) \/ BeginCreate(d, j)
      <4>1. /\ born[j] = 0 /\ born' = [born EXCEPT ![j] = clock']
            /\ writing' = writing \/ writing' = [writing EXCEPT ![d] = @ \union {j}]
        BY <3>2 DEF Create, BeginCreate, Stamped
      <4>2. CASE i # j
        <5>1. ASSUME NEW e \in Devices, i \in writing'[e] PROVE i \in writing[e]
          <6>1. writing'[e] \in {writing[e], writing[e] \union {j}}
            BY <4>1 DEF TypeOK
          <6>2. QED
            BY <4>2, <5>1, <6>1
        <5>2. born'[i] = born[i]
          BY <4>1, <4>2 DEF TypeOK
        <5>3. QED
          BY <5>1, <5>2
      <4>3. QED
        BY <4>1, <4>2
    <3>3. CASE EndCreate(d, j)
      BY <3>3 DEF EndCreate, TypeOK
    <3>4. QED
      BY <2>1, <3>1, <3>2, <3>3 DEF Write
  <2>2. ASSUME UNCHANGED <<born, writing>>
        PROVE  born[i] = 0 \/ \E e \in Devices : i \in writing[e]
    BY <2>2
  <2>3. ASSUME NEW d \in Devices,
               StartRun(d) \/ Push(d) \/ Commit(d) \/ StepFails(d) \/ Abort(d)
        PROVE  UNCHANGED <<born, writing>>
    BY <2>3 DEF StartRun, Push, Commit, StepFails, Abort, local
  <2>4. QED
    BY <2>1, <2>2, <2>3, SameTransaction DEF Next, Step, vars, local
<1>3. NowhereYet(i)
  BY <1>2 DEF Unborn
<1>4. QED
  BY <1>1, <1>3, NothingFromNothing
-----------------------------------------------------------------------------
(* The order of versions: guarded upserts never replace a row by an earlier  *)
(* one, in a transaction, in the warehouse or in a store.                    *)

\* What an open transaction wrote is at least as new as the warehouse's row.
SentIsNewer ==
  \A d \in Devices, i \in Ids :
    (sent[d][i] # NoRow /\ wh[i] # NoRow) => Covers(sent[d][i], wh[i])

LEMMA CoversOrder ==
  /\ \A a \in Rows : a # NoRow => Covers(a, a)
  /\ \A a, b, c \in Rows :
       (b # NoRow /\ c # NoRow /\ Covers(a, b) /\ Covers(b, c)) => Covers(a, c)
<1>0. \A a \in Rows : a # NoRow => a.ts \in Nat
  BY RowFacts, TimesAreNaturals
<1>1. ASSUME NEW a \in Rows, a # NoRow PROVE Covers(a, a)
  BY <1>0, <1>1 DEF Covers
<1>2. ASSUME NEW a \in Rows, NEW b \in Rows, NEW c \in Rows,
             b # NoRow, c # NoRow, Covers(a, b), Covers(b, c)
      PROVE  Covers(a, c)
  BY <1>0, <1>2 DEF Covers
<1>3. QED
  BY <1>1, <1>2

\* The guard lets in what is newer, and refuses what is not: the second half
\* fails for memories written by the agent "system".
LEMMA GuardOrder ==
  ASSUME NEW i \in Ids, NEW new \in Rows, NEW old \in Rows
  PROVE  /\ Accepted(i, new, old) => new # NoRow
         /\ (Accepted(i, new, old) /\ old # NoRow) => Covers(new, old)
         /\ (~Accepted(i, new, old) /\ new # NoRow /\ AgentOf[i] # "system")
              => Covers(old, new)
<1>1. /\ new # NoRow => new.ts \in Nat
      /\ old # NoRow => old.ts \in Nat
  BY RowFacts, TimesAreNaturals
<1>2. QED
  BY <1>1 DEF Accepted, Guard, Covers

\* In a transaction's view a row is at least as new as in the warehouse.
LEMMA SeenIsNewer ==
  ASSUME TypeOK, SentIsNewer, NEW d \in Devices, NEW i \in Ids, wh[i] # NoRow
  PROVE  Covers(Seen(d)[i], wh[i])
BY CoversOrder DEF TypeOK, SentIsNewer, Seen

LEMMA SentIsNewerKept ==
  ASSUME TypeOK, SentIsNewer, OneWriter, [Next]_vars PROVE SentIsNewer'
<1> USE DEF TypeOK
<1> SUFFICES ASSUME NEW q \in Devices, NEW i \in Ids, sent'[q][i] # NoRow, wh'[i] # NoRow
             PROVE  Covers(sent'[q][i], wh'[i])
  BY SameTable DEF SentIsNewer, Covers
<1>1. ASSUME NEW d \in Devices, Push(d) PROVE Covers(sent'[q][i], wh'[i])
  <2>1. wh' = wh
    BY <1>1 DEF Push, warehouse
  <2>2. CASE sent'[q][i] = sent[q][i]
    BY <2>1, <2>2 DEF SentIsNewer
  <2>3. CASE sent'[q][i] # sent[q][i]
    <3>1. /\ q = d /\ sent'[d][i] = outgoing[d][i]
          /\ Accepted(i, outgoing[d][i], Seen(d)[i])
      BY <1>1, <2>3, PushedRow
    <3>2. Covers(Seen(d)[i], wh[i])
      BY <2>1, SeenIsNewer
    <3>3. outgoing[d][i] \in Rows /\ Seen(d)[i] \in Rows /\ wh[i] \in Rows
      BY SeenType
    <3>4. Covers(outgoing[d][i], Seen(d)[i])
      BY <3>1, <3>2, <3>3, GuardOrder DEF Covers
    <3>5. QED
      BY <2>1, <3>1, <3>2, <3>3, <3>4, CoversOrder DEF Covers
  <2>4. QED
    BY <2>2, <2>3
<1>2. ASSUME NEW d \in Devices, Commit(d) PROVE Covers(sent'[q][i], wh'[i])
  <2>1. q # d /\ sent'[q][i] = sent[q][i]
    BY <1>2, EndedTransaction
  <2>2. wh'[i] = wh[i]
    BY <1>2, <2>1 DEF Commit, Seen, OneWriter
  <2>3. QED
    BY <2>1, <2>2 DEF SentIsNewer
<1>3. ASSUME NEW d \in Devices, StepFails(d) \/ Abort(d)
      PROVE  Covers(sent'[q][i], wh'[i])
  <2>1. q # d /\ sent'[q][i] = sent[q][i]
    BY <1>3, EndedTransaction
  <2>2. wh' = wh
    BY <1>3 DEF StepFails, Abort, warehouse
  <2>3. QED
    BY <2>1, <2>2 DEF SentIsNewer
<1>4. ASSUME UNCHANGED <<sent, wh>> PROVE Covers(sent'[q][i], wh'[i])
  BY <1>4 DEF SentIsNewer
<1>5. ASSUME NEW d \in Devices, NEW j \in Ids, Write(d, j)
      PROVE  UNCHANGED <<sent, wh>>
  BY <1>5, WriterFrame DEF transaction, warehouse
<1>6. ASSUME NEW d \in Devices, StartRun(d) PROVE UNCHANGED <<sent, wh>>
  BY <1>6 DEF StartRun, warehouse
<1>7. QED
  BY <1>1, <1>2, <1>3, <1>4, <1>5, <1>6, SameTransaction
     DEF Next, Step, vars, transaction, warehouse

\* The warehouse's rows only get newer.
LEMMA WarehouseGrows ==
  ASSUME TypeOK, SentIsNewer, [Next]_vars, NEW i \in Ids, wh[i] # NoRow
  PROVE  Covers(wh'[i], wh[i])
<1>1. ASSUME NEW d \in Devices, Commit(d) PROVE Covers(wh'[i], wh[i])
  BY <1>1, SeenIsNewer DEF Commit
<1>2. ASSUME UNCHANGED wh PROVE Covers(wh'[i], wh[i])
  BY <1>2, CoversOrder DEF TypeOK
<1>3. ASSUME NEW d \in Devices,
             StartRun(d) \/ Push(d) \/ StepFails(d) \/ Abort(d)
      PROVE  UNCHANGED wh
  BY <1>3 DEF StartRun, Push, StepFails, Abort, warehouse
<1>4. QED
  BY <1>1, <1>2, <1>3, SameTransaction, WriterFrame DEF Next, Step, vars, warehouse
-----------------------------------------------------------------------------
(* One row of a store, after a write *)

LEMMA WrittenRow ==
  ASSUME TypeOK, Unborn, OneCreator, NEW d \in Devices, NEW j \in Ids, Write(d, j),
         NEW q \in Devices, NEW i \in Ids
  PROVE  \/ /\ NowhereYet(i)
            /\ store'[q][i] # NoRow =>
                 /\ \/ store'[q][i].ts = 0
                    \/ store'[q][i].ts = clock + 1 /\ clock' = clock + 1
                    \/ store'[q][i].ts = born[i] /\ i \notin plain
                 /\ i \notin plain \/ born'[i] = clock + 1
         \/ store'[q][i] = store[q][i] /\ born'[i] = born[i]
         \/ /\ store[q][i] # NoRow /\ store'[q][i] # NoRow
            /\ store'[q][i].ts = store[q][i].ts \/ store'[q][i].ts = clock + 1
            /\ clock' = clock + 1 /\ born'[i] = born[i]
<1> USE DEF TypeOK
<1>1. CASE Create(d, j)
  <2>1. PICK t \in {0, clock'} :
          /\ born[j] = 0 /\ clock' = clock + 1 /\ born' = [born EXCEPT ![j] = clock']
          /\ store' = [store EXCEPT ![d][j] = [ts |-> t, ver |-> clock']]
    BY <1>1 DEF Create, Stamped, Fresh, ReadClock
  <2>2. CASE i = j
    <3>1. NowhereYet(i)
      BY <2>1, <2>2 DEF Unborn
    <3>2. store'[q][i] \in {store[q][i], [ts |-> t, ver |-> clock']}
      BY <2>1, <2>2
    <3>3. QED
      BY <2>1, <2>2, <3>1, <3>2 DEF NowhereYet
  <2>3. CASE i # j
    BY <2>1, <2>3
  <2>4. QED
    BY <2>2, <2>3
<1>2. CASE BeginCreate(d, j)
  <2>1. /\ born[j] = 0 /\ born' = [born EXCEPT ![j] = clock'] /\ store' = store
    BY <1>2 DEF BeginCreate, Stamped
  <2>2. CASE i = j
    BY <2>1, <2>2 DEF Unborn, NowhereYet
  <2>3. CASE i # j
    BY <2>1, <2>3
  <2>4. QED
    BY <2>2, <2>3
<1>3. CASE EndCreate(d, j)
  <2>1. PICK t \in {0, born[j]} :
          /\ j \in writing[d] /\ born' = born /\ j \notin plain
          /\ store' = [store EXCEPT ![d][j] = [ts |-> t, ver |-> born[j]]]
    BY <1>3 DEF EndCreate, Fresh, OneCreator
  <2>2. CASE i = j
    <3>1. NowhereYet(i)
      BY <2>1, <2>2 DEF Unborn
    <3>2. store'[q][i] \in {store[q][i], [ts |-> t, ver |-> born[j]]}
      BY <2>1, <2>2
    <3>3. QED
      BY <2>1, <2>2, <3>1, <3>2 DEF NowhereYet
  <2>3. CASE i # j
    BY <2>1, <2>3
  <2>4. QED
    BY <2>2, <2>3
<1>4. CASE Edit(d, j) \/ SilentEdit(d, j)
  <2>1. PICK row \in {[ts |-> clock', ver |-> clock'], [ts |-> store[d][j].ts, ver |-> clock']} :
          store' = [store EXCEPT ![d][j] = row]
    BY <1>4 DEF Edit, SilentEdit
  <2>2. store[d][j] # NoRow /\ clock' = clock + 1 /\ born' = born
    BY <1>4 DEF Edit, SilentEdit, ReadClock
  <2>3. row \in Row
    BY <1>4, <2>2, RowFacts, ClockRead DEF Edit, SilentEdit
  <2>4. row # NoRow /\ (row.ts = store[d][j].ts \/ row.ts = clock + 1)
    BY <2>1, <2>2, <2>3, RowFacts
  <2>5. CASE q = d /\ i = j
    BY <2>1, <2>2, <2>4, <2>5
  <2>6. CASE ~(q = d /\ i = j)
    BY <2>1, <2>2, <2>6
  <2>7. QED
    BY <2>5, <2>6
<1>5. CASE Learn(d, j)
  BY <1>5 DEF Learn
<1>6. QED
  BY <1>1, <1>2, <1>3, <1>4, <1>5 DEF Write


\* Where a row of memory, edge or task i is found.
IsRowOf(i, row) ==
  \/ row = NoRow \/ row = wh[i]
  \/ \E d \in Devices :
       row \in {store[d][i], outgoing[d][i], sent[d][i], incoming[d][i]}

\* The sync makes no rows, it only moves them.
LEMMA RowsMove ==
  ASSUME TypeOK, NEW d \in Devices, Step(d) \/ StepFails(d) \/ Abort(d),
         NEW i \in Ids, NEW row, IsRowOf(i, row)'
  PROVE  IsRowOf(i, row)
<1> DEFINE Kept(q) == /\ IsRowOf(i, wh'[i]) /\ IsRowOf(i, store'[q][i])
                      /\ IsRowOf(i, outgoing'[q][i]) /\ IsRowOf(i, sent'[q][i])
                      /\ IsRowOf(i, incoming'[q][i])
<1> USE DEF TypeOK, Goto, local, warehouse, transaction, run
<1>0. \A q \in Devices :
        /\ IsRowOf(i, wh[i]) /\ IsRowOf(i, store[q][i]) /\ IsRowOf(i, outgoing[q][i])
        /\ IsRowOf(i, sent[q][i]) /\ IsRowOf(i, incoming[q][i]) /\ IsRowOf(i, NoRow)
  BY DEF IsRowOf
<1>1. Nothing[i] = NoRow
  BY DEF Nothing
<1>2. \A q \in Devices : Kept(q)
  <2> SUFFICES ASSUME NEW q \in Devices PROVE Kept(q)
    OBVIOUS
  <2> HIDE DEF TypeOK
  <2>1. CASE StartRun(d) \/ Probe(d) \/ KeepPullMark(d)
    BY <2>1, <1>0 DEF StartRun, Probe, KeepPullMark
  <2>2. CASE Select(d)
    <3>1. outgoing'[q][i] \in {outgoing[q][i], store[q][i], NoRow}
      BY <2>2 DEF Select, TypeOK
    <3>2. UNCHANGED <<store, wh, sent, incoming>>
      BY <2>2 DEF Select
    <3>3. QED
      BY <3>1, <3>2, <1>0
  <2>3. CASE Push(d)
    <3>1. sent'[q][i] \in {sent[q][i], outgoing[q][i]}
      BY <2>3, PushedRow
    <3>2. outgoing'[q][i] \in {outgoing[q][i], NoRow}
      BY <2>3, <1>1 DEF Push, TypeOK
    <3>3. UNCHANGED <<store, wh, incoming>>
      BY <2>3 DEF Push
    <3>4. QED
      BY <3>1, <3>2, <3>3, <1>0
  <2>4. CASE Pull(d)
    <3>1. incoming'[q][i] \in {incoming[q][i], sent[q][i], wh[i], NoRow}
      BY <2>4 DEF Pull, Seen, TypeOK
    <3>2. UNCHANGED <<store, wh, sent, outgoing>>
      BY <2>4 DEF Pull
    <3>3. QED
      BY <3>1, <3>2, <1>0
  <2>5. CASE Merge(d)
    <3>1. /\ store'[q][i] \in {store[q][i], incoming[q][i]}
          /\ incoming'[q] \in {incoming[q], Nothing}
          /\ UNCHANGED <<wh, sent, outgoing>>
      BY <2>5, MergedRun, MergedRow
    <3>2. QED
      BY <3>1, <1>0, <1>1
  <2>6. CASE Commit(d)
    <3>1. wh'[i] \in {wh[i], sent[d][i]}
      BY <2>6 DEF Commit, Seen
    <3>2. sent'[q][i] \in {sent[q][i], NoRow}
      BY <2>6, EndedTransaction
    <3>3. UNCHANGED <<store, outgoing, incoming>>
      BY <2>6 DEF Commit
    <3>4. QED
      BY <3>1, <3>2, <3>3, <1>0
  <2>7. CASE KeepPushMark(d) \/ StepFails(d) \/ Abort(d)
    <3>1. sent'[q][i] \in {sent[q][i], NoRow}
      BY <2>7, EndedTransaction, SameTransaction
    <3>2. outgoing'[q][i] \in {outgoing[q][i], NoRow}
      BY <2>7, <1>1 DEF KeepPushMark, StepFails, Abort, ForgetRun, TypeOK
    <3>3. incoming'[q][i] \in {incoming[q][i], NoRow}
      BY <2>7, <1>1 DEF KeepPushMark, StepFails, Abort, ForgetRun, TypeOK
    <3>4. UNCHANGED <<store, wh>>
      BY <2>7 DEF KeepPushMark, StepFails, Abort
    <3>5. QED
      BY <3>1, <3>2, <3>3, <3>4, <1>0
  <2>8. QED
    BY <2>1, <2>2, <2>3, <2>4, <2>5, <2>6, <2>7 DEF Step
<1>3. IsRowOf(i, NoRow)
  BY DEF IsRowOf
<1>4. Kept(d)
  BY <1>2
<1> HIDE DEF TypeOK
<1>5. QED
  <2>1. CASE row = NoRow \/ row = wh'[i]
    BY <1>3, <1>4, <2>1
  <2>2. CASE \E q \in Devices :
               row \in {store'[q][i], outgoing'[q][i], sent'[q][i], incoming'[q][i]}
    BY <1>2, <2>2
  <2>3. QED
    BY <2>1, <2>2 DEF IsRowOf

\* A writer adds a row to its store at most.
LEMMA RowsWritten ==
  ASSUME NEW d \in Devices, NEW j \in Ids, Write(d, j), TypeOK,
         NEW i \in Ids, NEW row, IsRowOf(i, row)'
  PROVE  IsRowOf(i, row) \/ \E q \in Devices : row = store'[q][i]
<1>1. UNCHANGED <<wh, outgoing, sent, incoming>>
  BY WriterFrame DEF warehouse, transaction, run
<1>2. QED
  BY <1>1 DEF IsRowOf

\* No row bears a time that was not read yet, wherever it has got to.
WrittenBy(row, time) == row # NoRow => row.ts <= time

RowsInThePast == \A i \in Ids, row \in Rows : IsRowOf(i, row) => WrittenBy(row, clock)

\* No row was born at a time that was not read yet.
BornInThePast == \A i \in Ids : born[i] <= clock

LEMMA SyncFrame ==
  ASSUME TypeOK, NEW d \in Devices, Step(d) \/ StepFails(d) \/ Abort(d)
  PROVE  born' = born /\ clock' \in Times /\ clock <= clock'
<1>1. born' = born /\ (ReadClock \/ clock' = clock)
  BY SameTransaction DEF Step, StartRun, Push, Commit, StepFails, Abort, local
<1>2. QED
  BY <1>1, ClockRead, TimesAreNaturals DEF TypeOK

LEMMA BornInThePastKept ==
  ASSUME TypeOK, TypeOK', BornInThePast, [Next]_vars PROVE BornInThePast'
<1> SUFFICES ASSUME NEW i \in Ids PROVE born'[i] <= clock'
  BY DEF BornInThePast
<1>0. clock \in Nat /\ clock' \in Nat /\ born[i] \in Nat /\ born[i] <= clock
  BY TimesAreNaturals DEF TypeOK, BornInThePast
<1>1. ASSUME NEW d \in Devices, NEW j \in Ids, Write(d, j) PROVE born'[i] <= clock'
  <2>1. born' = born \/ born' = [born EXCEPT ![j] = clock']
    BY <1>1 DEF Write, Learn, Create, BeginCreate, EndCreate, Edit, SilentEdit, Stamped
  <2>2. born'[i] \in {born[i], clock'}
    BY <2>1 DEF TypeOK
  <2>3. QED
    BY <1>0, <1>1, <2>2, WriterFrame
<1>2. ASSUME NEW d \in Devices, Step(d) \/ StepFails(d) \/ Abort(d) PROVE born'[i] <= clock'
  BY <1>0, <1>2, SyncFrame
<1>3. CASE UNCHANGED vars
  BY <1>0, <1>3 DEF vars, local
<1>4. QED
  BY <1>1, <1>2, <1>3 DEF Next

LEMMA RowsInThePastKept ==
  ASSUME TypeOK, TypeOK', RowsInThePast, Unborn, OneCreator, BornInThePast, [Next]_vars
  PROVE  RowsInThePast'
<1> SUFFICES ASSUME NEW i \in Ids, NEW row \in Rows, IsRowOf(i, row)'
             PROVE  WrittenBy(row, clock')
  BY DEF RowsInThePast, WrittenBy
<1>0. /\ clock \in Nat /\ clock' \in Nat /\ \A r \in Rows : r # NoRow => r.ts \in Nat
      /\ born[i] \in Nat /\ born[i] <= clock
  BY RowFacts, TimesAreNaturals DEF TypeOK, BornInThePast
<1>1. ASSUME IsRowOf(i, row), clock <= clock' PROVE WrittenBy(row, clock')
  BY <1>0, <1>1 DEF RowsInThePast, WrittenBy
<1>2. ASSUME NEW d \in Devices, Step(d) \/ StepFails(d) \/ Abort(d)
      PROVE  WrittenBy(row, clock')
  <2>1. ReadClock \/ clock' = clock
    BY <1>2, SameTransaction, MergedRun
       DEF Step, StartRun, Push, Commit, StepFails, Abort
  <2>2. clock <= clock'
    BY <1>0, <2>1, ClockRead
  <2>3. QED
    BY <1>1, <1>2, <2>2, RowsMove
<1>3. ASSUME NEW d \in Devices, NEW j \in Ids, Write(d, j) PROVE WrittenBy(row, clock')
  <2>1. clock <= clock'
    BY <1>3, WriterFrame
  <2>2. ASSUME NEW q \in Devices, row = store'[q][i] PROVE WrittenBy(row, clock')
    <3>1. \/ row = store[q][i]
          \/ row.ts = 0 \/ row.ts = born[i]
          \/ clock' = clock + 1 /\ row.ts = clock + 1
          \/ clock' = clock + 1 /\ store[q][i] # NoRow /\ row.ts = store[q][i].ts
          \/ row = NoRow
      BY <1>3, <2>2, WrittenRow
    <3>2. store[q][i] \in Rows /\ WrittenBy(store[q][i], clock)
      BY DEF RowsInThePast, IsRowOf, TypeOK
    <3>3. QED
      BY <2>1, <3>1, <3>2, <1>0 DEF WrittenBy
  <2>3. QED
    BY <1>1, <1>3, <2>1, <2>2, RowsWritten
<1>4. ASSUME UNCHANGED vars PROVE WrittenBy(row, clock')
  BY <1>0, <1>1, <1>4 DEF vars, local, warehouse, transaction, run, IsRowOf
<1>5. QED
  BY <1>2, <1>3, <1>4 DEF Next
-----------------------------------------------------------------------------
(* The pull watermark: arrival times of an open transaction lie after its    *)
(* start, and no bound passes the start of an open transaction.              *)

\* What a transaction wrote arrived after the transaction's start.
SentAfterStart ==
  \A d \in Devices, i \in Ids : sent[d][i] # NoRow => sentAt[d][i] > xstart[d]

\* No arrival bound or pull watermark passes the start of an open transaction,
\* unless it was taken from the edges that wait alone.
BoundsBeforeStarts ==
  ~hasty => \A d, e \in Devices :
    xstart[e] # 0 => pullMark[d] <= xstart[e] /\ bound[d] <= xstart[e]

LEMMA SentAfterStartKept ==
  ASSUME TypeOK, PastReadings, Phases, SentAfterStart, [Next]_vars
  PROVE  SentAfterStart'
<1> USE DEF TypeOK, Goto, transaction
<1> SUFFICES ASSUME NEW q \in Devices, NEW i \in Ids, sent'[q][i] # NoRow
             PROVE  sentAt'[q][i] > xstart'[q]
  BY DEF SentAfterStart
<1>1. ASSUME UNCHANGED <<sent, sentAt, xstart>> PROVE sentAt'[q][i] > xstart'[q]
  BY <1>1 DEF SentAfterStart
<1>2. ASSUME NEW d \in Devices, StartRun(d) PROVE sentAt'[q][i] > xstart'[q]
  <2>1. sent' = sent /\ sentAt' = sentAt /\ xstart' = [xstart EXCEPT ![d] = clock']
        /\ pc[d] = "idle"
    BY <1>2 DEF StartRun
  <2>2. q # d
    BY <2>1 DEF Phases, Pushed, Nothing
  <2>3. QED
    BY <2>1, <2>2 DEF SentAfterStart
<1>3. ASSUME NEW d \in Devices, Push(d) PROVE sentAt'[q][i] > xstart'[q]
  <2>1. xstart' = xstart
    BY <1>3 DEF Push
  <2>2. CASE sent'[q][i] = sent[q][i] /\ sentAt'[q][i] = sentAt[q][i]
    BY <2>1, <2>2 DEF SentAfterStart
  <2>3. CASE ~(sent'[q][i] = sent[q][i] /\ sentAt'[q][i] = sentAt[q][i])
    <3>1. sentAt'[q][i] = clock' /\ ReadClock
      BY <1>3, <2>3, PushedRow
    <3>2. xstart[q] <= clock /\ xstart[q] \in Nat /\ clock \in Nat
      BY TimesAreNaturals DEF PastReadings, InThePast
    <3>3. QED
      BY <2>1, <3>1, <3>2 DEF ReadClock
  <2>4. QED
    BY <2>2, <2>3
<1>4. ASSUME NEW d \in Devices, Commit(d) \/ StepFails(d) \/ Abort(d)
      PROVE  sentAt'[q][i] > xstart'[q]
  <2>1. q # d /\ sent'[q] = sent[q] /\ sentAt'[q] = sentAt[q]
    BY <1>4, EndedTransaction
  <2>2. xstart'[q] = xstart[q]
    BY <1>4, <2>1 DEF Commit, StepFails, Abort, EndTransaction
  <2>3. QED
    BY <2>1, <2>2 DEF SentAfterStart
<1>5. ASSUME NEW d \in Devices, NEW j \in Ids, Write(d, j)
      PROVE  UNCHANGED <<sent, sentAt, xstart>>
  BY <1>5, WriterFrame
<1>6. QED
  BY <1>1, <1>2, <1>3, <1>4, <1>5, SameTransaction DEF Next, Step, vars

\* A hasty pull is remembered.
LEMMA StaysHasty == TypeOK /\ [Next]_vars /\ hasty => hasty'
<1> SUFFICES ASSUME TypeOK, [Next]_vars PROVE hasty => hasty'
  OBVIOUS
<1>1. ASSUME NEW d \in Devices, Step(d) \/ StepFails(d) \/ Abort(d) PROVE hasty => hasty'
  <2>1. CASE Merge(d)
    BY <2>1, MergedRun DEF marks
  <2>2. CASE Pull(d)
    BY <2>2 DEF Pull
  <2>3. CASE ~Merge(d) /\ ~Pull(d)
    BY <1>1, <2>3
       DEF Step, StartRun, Select, Push, Probe, KeepPullMark, Commit, KeepPushMark,
           StepFails, Abort, marks
  <2>4. QED
    BY <2>1, <2>2, <2>3
<1>2. ASSUME NEW d \in Devices, NEW i \in Ids, Write(d, i) PROVE hasty => hasty'
  BY <1>2, WriterFrame DEF marks
<1>3. QED
  BY <1>1, <1>2 DEF Next, vars, marks

LEMMA BoundsBeforeStartsKept ==
  ASSUME TypeOK, PastReadings, BoundsBeforeStarts, [Next]_vars
  PROVE  BoundsBeforeStarts'
<1> USE DEF TypeOK, Goto, transaction, run, marks
<1> SUFFICES ASSUME ~hasty', NEW q \in Devices, NEW e \in Devices, xstart'[e] # 0
             PROVE  pullMark'[q] <= xstart'[e] /\ bound'[q] <= xstart'[e]
  BY DEF BoundsBeforeStarts
<1>00. ~hasty
  BY StaysHasty
<1>0. \A d \in Devices : xstart[d] \in Nat /\ bound[d] \in Nat /\ pullMark[d] \in Nat
  BY TimesAreNaturals
<1> USE <1>00
<1>1. ASSUME UNCHANGED <<xstart, bound, pullMark>>
      PROVE  pullMark'[q] <= xstart'[e] /\ bound'[q] <= xstart'[e]
  BY <1>1 DEF BoundsBeforeStarts
<1>2. ASSUME NEW d \in Devices, StartRun(d)
      PROVE  pullMark'[q] <= xstart'[e] /\ bound'[q] <= xstart'[e]
  <2>1. /\ xstart' = [xstart EXCEPT ![d] = clock'] /\ clock' = clock + 1
        /\ UNCHANGED <<bound, pullMark>>
    BY <1>2 DEF StartRun, ReadClock
  <2>2. pullMark[q] <= clock /\ bound[q] <= clock /\ clock \in Nat
    BY TimesAreNaturals DEF PastReadings, InThePast
  <2>3. CASE e = d
    BY <2>1, <2>2, <2>3, <1>0
  <2>4. CASE e # d
    BY <2>1, <2>4 DEF BoundsBeforeStarts
  <2>5. QED
    BY <2>3, <2>4
<1>3. ASSUME NEW d \in Devices, Probe(d)
      PROVE  pullMark'[q] <= xstart'[e] /\ bound'[q] <= xstart'[e]
  <2>1. PICK t \in Times : bound' = [bound EXCEPT ![d] = t] /\ (t = 0 \/ IsOldestStart(t))
    BY <1>3, TimesAreNaturals DEF Probe
  <2>2. UNCHANGED <<xstart, pullMark>>
    BY <1>3 DEF Probe
  <2>3. t <= xstart[e]
    BY <1>0, <2>1, <2>2 DEF IsOldestStart
  <2>4. QED
    BY <2>1, <2>2, <2>3 DEF BoundsBeforeStarts
<1>4. ASSUME NEW d \in Devices, KeepPullMark(d)
      PROVE  pullMark'[q] <= xstart'[e] /\ bound'[q] <= xstart'[e]
  BY <1>4 DEF KeepPullMark, BoundOrOld, BoundsBeforeStarts
<1>5. ASSUME NEW d \in Devices,
             Commit(d) \/ StepFails(d) \/ Abort(d) \/ KeepPushMark(d) \/ Merge(d)
      PROVE  pullMark'[q] <= xstart'[e] /\ bound'[q] <= xstart'[e]
  <2>1. xstart'[e] = xstart[e]
    BY <1>5, EndedTransaction, SameTransaction
  <2>2. bound'[q] \in {0, bound[q]} /\ pullMark'[q] \in {bound[q], pullMark[q]}
    <3>1. CASE Merge(d)
      BY <3>1, MergedRun
    <3>2. CASE ~Merge(d)
      BY <1>5, <3>2 DEF Commit, StepFails, Abort, KeepPushMark, ForgetRun, BoundOrOld
    <3>3. QED
      BY <3>1, <3>2
  <2>3. QED
    BY <1>0, <2>1, <2>2 DEF BoundsBeforeStarts
<1>6. ASSUME NEW d \in Devices, Select(d) \/ Push(d)
      PROVE  UNCHANGED <<xstart, bound, pullMark>>
  BY <1>6 DEF Select, Push
<1>60. ASSUME NEW d \in Devices, Pull(d)
       PROVE  pullMark'[q] <= xstart'[e] /\ bound'[q] <= xstart'[e]
  <2>1. UNCHANGED <<xstart, pullMark>>
    BY <1>60 DEF Pull
  <2>2. bound'[q] <= bound[q] /\ bound'[q] \in Nat
    BY <1>60, PulledBound
  <2>3. QED
    BY <1>0, <2>1, <2>2 DEF BoundsBeforeStarts
<1>7. ASSUME NEW d \in Devices, NEW j \in Ids, Write(d, j)
      PROVE  UNCHANGED <<xstart, bound, pullMark>>
  BY <1>7, WriterFrame
<1>8. QED
  BY <1>1, <1>2, <1>3, <1>4, <1>5, <1>6, <1>60, <1>7 DEF Next, Step, vars

\* A device keeps the rows it has pushed.
SentIsStored ==
  \A d \in Devices, i \in Ids :
    (outgoing[d][i] # NoRow \/ sent[d][i] # NoRow) => store[d][i] # NoRow

LEMMA SentIsStoredKept ==
  ASSUME TypeOK, Unborn, OneCreator, SentIsStored, [Next]_vars
  PROVE  SentIsStored'
<1> USE DEF TypeOK, Goto, local, transaction, run
<1> SUFFICES ASSUME NEW q \in Devices, NEW i \in Ids,
                    outgoing'[q][i] # NoRow \/ sent'[q][i] # NoRow
             PROVE  store'[q][i] # NoRow
  BY DEF SentIsStored
<1>1. ASSUME outgoing[q][i] # NoRow \/ sent[q][i] # NoRow, store'[q][i] = store[q][i]
      PROVE  store'[q][i] # NoRow
  BY <1>1 DEF SentIsStored
<1>2. ASSUME NEW d \in Devices, NEW j \in Ids, Write(d, j) PROVE store'[q][i] # NoRow
  <2>1. outgoing[q][i] # NoRow \/ sent[q][i] # NoRow
    BY <1>2, WriterFrame
  <2>2. QED
    BY <1>1, <1>2, <2>1, WrittenRow DEF NowhereYet
<1>3. ASSUME NEW d \in Devices, Select(d) PROVE store'[q][i] # NoRow
  <2>1. UNCHANGED <<store, sent>>
    BY <1>3 DEF Select
  <2>2. outgoing'[q][i] \in {NoRow, store[q][i], outgoing[q][i]}
    BY <1>3 DEF Select
  <2>3. QED
    BY <2>1, <2>2 DEF SentIsStored
<1>4. ASSUME NEW d \in Devices, Push(d) PROVE store'[q][i] # NoRow
  <2>1. store' = store /\ outgoing'[q][i] \in {NoRow, outgoing[q][i]}
    BY <1>4 DEF Push, Nothing
  <2>2. sent'[q][i] \in {sent[q][i], outgoing[q][i]}
    BY <1>4, PushedRow
  <2>3. QED
    BY <2>1, <2>2 DEF SentIsStored
<1>5. ASSUME NEW d \in Devices, Merge(d) PROVE store'[q][i] # NoRow
  <2>1. /\ UNCHANGED <<sent, outgoing>>
        /\ store'[q][i] = store[q][i] \/ store'[q][i] # NoRow
    BY <1>5, MergedRun, MergedRow DEF Accepted
  <2>2. QED
    BY <2>1 DEF SentIsStored
<1>6. ASSUME NEW d \in Devices, Commit(d) \/ StepFails(d) \/ Abort(d)
      PROVE  store'[q][i] # NoRow
  <2>1. sent'[q][i] \in {NoRow, sent[q][i]}
    BY <1>6, EndedTransaction
  <2>2. store' = store
    BY <1>6 DEF Commit, StepFails, Abort
  <2>3. outgoing'[q][i] \in {NoRow, outgoing[q][i]}
    <3>1. outgoing' = outgoing \/ outgoing' = [outgoing EXCEPT ![d] = Nothing]
      BY <1>6 DEF Commit, StepFails, Abort, ForgetRun
    <3>2. Nothing[i] = NoRow
      BY DEF Nothing
    <3>3. QED
      BY <3>1, <3>2
  <2>4. QED
    BY <2>1, <2>2, <2>3 DEF SentIsStored
<1>7. ASSUME NEW d \in Devices,
             StartRun(d) \/ Probe(d) \/ Pull(d) \/ KeepPullMark(d) \/ KeepPushMark(d)
      PROVE  store'[q][i] # NoRow
  <2>1. /\ UNCHANGED <<store, sent>>
        /\ outgoing'[q][i] \in {NoRow, outgoing[q][i]}
    BY <1>7 DEF StartRun, Probe, Pull, KeepPullMark, KeepPushMark, ForgetRun, Nothing
  <2>2. QED
    BY <2>1 DEF SentIsStored
<1>8. CASE UNCHANGED vars
  BY <1>1, <1>8 DEF vars
<1>9. QED
  BY <1>2, <1>3, <1>4, <1>5, <1>6, <1>7, <1>8 DEF Next, Step

\* What a device knows of the rows it will skip, from the fetch to the watermark.
Pulled(d, i) ==
  LET Passed(time) == wh[i] # NoRow /\ arrived[i] <= time
  IN /\ Passed(pullMark[d]) => Covers(store[d][i], wh[i])
     /\ (pc[d] = "merge" /\ bound[d] # 0 /\ Passed(bound[d]))
          => Covers(store[d][i], wh[i]) \/ Covers(incoming[d][i], wh[i])
     /\ (pc[d] \in {"mark", "commit", "keep"} /\ bound[d] # 0 /\ Passed(bound[d]))
          => Covers(store[d][i], wh[i])

PulledAll == PullsByArrival => \A d \in Devices, i \in Ids : Pulled(d, i)

PullFacts ==
  /\ PastReadings /\ Phases /\ OneWriter /\ OneCreator /\ Unborn /\ SentIsNewer
  /\ RowsInThePast /\ BornInThePast /\ SentAfterStart /\ BoundsBeforeStarts /\ SentIsStored

LEMMA PulledAllKept ==
  ASSUME \A i \in Ids : AgentOf[i] # "system",
         TypeOK, TypeOK', PullFacts, PulledAll, [Next]_vars
  PROVE  PulledAll'
<1> USE DEF TypeOK, Goto, local, warehouse, transaction, run, marks
<1> SUFFICES ASSUME PullsByArrival', NEW q \in Devices, NEW i \in Ids
             PROVE  Pulled(q, i)'
  BY DEF PulledAll
<1>01. PullsByArrival /\ ~hasty /\ table # "tasks" /\ table' = table
  BY SameTable, StaysHasty DEF PullsByArrival
<1> USE <1>01
<1>0. Pulled(q, i)
  BY DEF PulledAll
<1>00. /\ clock \in Nat /\ arrived[i] \in Nat
       /\ \A d \in Devices : pullMark[d] \in Nat /\ bound[d] \in Nat /\ xstart[d] \in Nat
       /\ \A row \in Rows : row # NoRow => row.ts \in Nat
  BY RowFacts, TimesAreNaturals
<1>1. ASSUME UNCHANGED <<store, warehouse, pullMark>>,
             (pc'[q] \in {"merge", "mark", "commit", "keep"} /\ bound'[q] # 0) =>
               pc'[q] = pc[q] /\ bound'[q] = bound[q] /\ incoming'[q] = incoming[q]
      PROVE  Pulled(q, i)'
  BY <1>0, <1>1 DEF Pulled, Covers
<1>2. ASSUME NEW d \in Devices, NEW j \in Ids, Write(d, j)
      PROVE  Pulled(q, i)'
  <2>1. UNCHANGED <<warehouse, pc, bound, incoming, pullMark>>
    BY <1>2, WriterFrame
  <2>2. ASSUME wh[i] # NoRow, Covers(store[q][i], wh[i])
        PROVE  Covers(store'[q][i], wh[i])
    <3>1. CASE store'[q][i] = store[q][i]
      BY <2>2, <3>1
    <3>2. CASE store'[q][i] # store[q][i]
      <4>1. /\ store'[q][i] # NoRow
            /\ store'[q][i].ts = store[q][i].ts \/ store'[q][i].ts = clock + 1
        BY <1>2, <2>2, <3>2, WrittenRow DEF PullFacts, NowhereYet
      <4>2. wh[i].ts \in Nat /\ wh[i].ts <= clock
        BY <2>2, <1>00 DEF PullFacts, RowsInThePast, WrittenBy, IsRowOf
      <4>3. QED
        BY <2>2, <4>1, <4>2, <1>00 DEF Covers
    <3>3. QED
      BY <3>1, <3>2
  <2>3. QED
    BY <1>0, <2>1, <2>2 DEF Pulled, Covers
<1>3. ASSUME NEW d \in Devices, Pull(d) PROVE Pulled(q, i)'
  <2>1. /\ pc' = [pc EXCEPT ![d] = "merge"]
        /\ UNCHANGED <<store, warehouse, pullMark>>
        /\ \A e \in Devices \ {d} : bound'[e] = bound[e] /\ incoming'[e] = incoming[e]
        /\ i \in Fetched(d) \ Waiting(d) => incoming'[d][i] = Seen(d)[i]
    BY <1>3, PulledBound DEF Pull, PullsByArrival
  <2>2. CASE q # d
    BY <1>1, <2>1, <2>2
  <2>3. CASE q = d
    <3>1. ASSUME wh[i] # NoRow, arrived[i] <= bound'[q]
          PROVE  Covers(store[q][i], wh[i]) \/ Covers(incoming'[q][i], wh[i])
      <4>0. Seen(q)[i] # NoRow /\ Covers(Seen(q)[i], wh[i])
        BY <3>1, SeenIsNewer DEF PullFacts, Covers
      <4>1. CASE pullMark[q] = 0 \/ SeenAt(q)[i] > pullMark[q]
        <5>1. i \in Fetched(q)
          BY <4>0, <4>1 DEF Fetched, PullTime
        <5>2. CASE i \notin Waiting(q)
          BY <2>1, <2>3, <4>0, <5>1, <5>2
        <5>3. CASE i \in Waiting(q)
          <6>1. bound'[q] < SeenAt(q)[i] /\ bound'[q] \in Nat
            BY <1>3, <2>3, <5>3, PulledBound DEF PullsByArrival
          <6>2. sent[q][i] # NoRow
            BY <1>00, <3>1, <6>1 DEF SeenAt
          <6>3. table = "memory_relationships"
            BY <5>3 DEF Waiting
          <6>4. QED
            BY <6>2, <6>3 DEF PullFacts, SentIsStored, Covers
        <5>4. QED
          BY <5>2, <5>3
      <4>2. CASE sent[q][i] # NoRow /\ pullMark[q] # 0
        <5>1. sent[q] # Nothing
          BY <4>2 DEF Nothing
        <5>2. xstart[q] # 0
          BY <5>1 DEF PullFacts, Phases, Pushed
        <5>3. sentAt[q][i] > xstart[q] /\ pullMark[q] <= xstart[q] /\ sentAt[q][i] \in Nat
          <6>1. sentAt[q][i] > xstart[q]
            BY <4>2 DEF PullFacts, SentAfterStart
          <6>2. pullMark[q] <= xstart[q]
            BY <5>2 DEF PullFacts, BoundsBeforeStarts
          <6>3. sentAt[q][i] \in Nat
            <7>1. sentAt[q][i] \in Times
              BY DEF TypeOK
            <7>2. QED
              BY <7>1, TimesAreNaturals
          <6>4. QED
            BY <6>1, <6>2, <6>3
        <5>4. SeenAt(q)[i] > pullMark[q]
          BY <4>2, <5>3, <1>00 DEF SeenAt
        <5>5. QED
          BY <4>1, <5>4
      <4>3. CASE sent[q][i] = NoRow /\ ~(pullMark[q] = 0 \/ SeenAt(q)[i] > pullMark[q])
        <5>1. arrived[i] <= pullMark[q]
          BY <4>3, <1>00 DEF SeenAt
        <5>2. QED
          BY <1>0, <3>1, <5>1 DEF Pulled
      <4>4. QED
        BY <4>1, <4>2, <4>3
    <3>2. pc'[q] = "merge"
      BY <2>1, <2>3
    <3>3. QED
      BY <1>0, <2>1, <3>1, <3>2 DEF Pulled, Covers
  <2>4. QED
    BY <2>2, <2>3
<1>4. ASSUME NEW d \in Devices, Merge(d) PROVE Pulled(q, i)'
  <2>1. UNCHANGED <<warehouse, pullMark>> /\ bound'[q] \in {0, bound[q]}
    BY <1>4, MergedRun, MergedRow
  <2>2. CASE q # d
    BY <1>0, <1>4, <2>1, <2>2, MergedRun, MergedRow DEF Pulled, Covers
  <2>3. CASE q = d
    <3>1. ASSUME wh[i] # NoRow, Covers(store[q][i], wh[i])
          PROVE  Covers(store'[q][i], wh[i])
      <4>1. CASE store'[q][i] = store[q][i]
        BY <3>1, <4>1
      <4>2. CASE store'[q][i] # store[q][i]
        <5>1. /\ Accepted(i, incoming[q][i], store[q][i])
              /\ store'[q][i] = incoming[q][i]
          BY <1>4, <2>3, <4>2, MergedRun, MergedRow
        <5>2. store[q][i] # NoRow /\ wh[i] \in Rows /\ store[q][i] \in Rows
              /\ incoming[q][i] \in Rows
          BY <3>1 DEF Covers
        <5>3. QED
          BY <3>1, <5>1, <5>2, GuardOrder, CoversOrder
      <4>3. QED
        BY <4>1, <4>2
    <3>2. ASSUME wh[i] # NoRow, Covers(incoming[q][i], wh[i]), pc'[q] = "mark"
          PROVE  Covers(store'[q][i], wh[i])
      <4>0. wh[i] \in Rows /\ store[q][i] \in Rows /\ incoming[q][i] \in Rows
            /\ incoming[q][i] # NoRow
        BY <3>2 DEF Covers
      <4>1. CASE store'[q][i] = incoming[q][i]
        BY <3>2, <4>1
      <4>2. CASE store'[q][i] # incoming[q][i]
        <5>1. /\ store'[q][i] = store[q][i]
              /\ ~Accepted(i, incoming[q][i], store[q][i])
          BY <1>4, <2>3, <3>2, <4>2, MergedRun, MergedRow
        <5>2. Covers(store[q][i], incoming[q][i])
          BY <4>0, <5>1, GuardOrder
        <5>3. QED
          BY <3>2, <4>0, <5>1, <5>2, CoversOrder
      <4>3. QED
        BY <4>1, <4>2
    <3>3. pc[q] = "merge" /\ pc'[q] \in {"mark", "commit"}
      BY <1>4, <2>3, MergedRun, MergedRow
    <3>4. pc'[q] = "mark" \/ bound'[q] = 0
      BY <1>4, <2>3, MergedRun
    <3>5. QED
      BY <1>0, <2>1, <3>1, <3>2, <3>3, <3>4 DEF Pulled, Covers
  <2>4. QED
    BY <2>2, <2>3
<1>5. ASSUME NEW d \in Devices, KeepPullMark(d) PROVE Pulled(q, i)'
  <2>1. /\ pc[d] = "mark" /\ pc' = [pc EXCEPT ![d] = "commit"]
        /\ UNCHANGED <<store, warehouse, bound, incoming>>
        /\ \/ pullMark' = [pullMark EXCEPT ![d] = IF bound[d] # 0 THEN bound[d] ELSE pullMark[d]]
           \/ pullMark' = pullMark
    BY <1>5 DEF KeepPullMark, BoundOrOld
  <2>2. QED
    BY <1>0, <2>1 DEF Pulled, Covers
<1>50. ASSUME NEW d \in Devices, KeepPushMark(d) PROVE Pulled(q, i)'
  <2>1. /\ pc[d] = "keep" /\ pc'[d] = "idle" /\ UNCHANGED <<store, warehouse>>
        /\ pullMark'[d] = IF bound[d] # 0 THEN bound[d] ELSE pullMark[d]
        /\ q # d => /\ pc'[q] = pc[q] /\ bound'[q] = bound[q]
                    /\ incoming'[q] = incoming[q] /\ pullMark'[q] = pullMark[q]
    BY <1>50 DEF KeepPushMark, ForgetRun, BoundOrOld
  <2>2. QED
    BY <1>0, <2>1 DEF Pulled, Covers
<1>6. ASSUME NEW d \in Devices, Commit(d) PROVE Pulled(q, i)'
  <2>1. /\ UNCHANGED <<store, bound, incoming, pullMark>>
        /\ pc[d] = "commit" /\ pc' = [pc EXCEPT ![d] = "keep"]
        /\ wh'[i] = Seen(d)[i] /\ arrived'[i] = SeenAt(d)[i]
    BY <1>6 DEF Commit
  <2>2. CASE sent[d][i] # NoRow
    <3>1. xstart[d] # 0
      BY <2>1 DEF PullFacts, Phases
    <3>2. arrived'[i] = sentAt[d][i] /\ sentAt[d][i] > xstart[d] /\ sentAt[d][i] \in Nat
      BY <2>1, <2>2, TimesAreNaturals DEF SeenAt, PullFacts, SentAfterStart
    <3>3. pullMark[q] <= xstart[d] /\ bound[q] <= xstart[d]
      BY <3>1 DEF PullFacts, BoundsBeforeStarts
    <3>4. ~(arrived'[i] <= pullMark'[q]) /\ ~(arrived'[i] <= bound'[q])
      BY <2>1, <3>2, <3>3, <1>00
    <3>5. QED
      BY <3>4 DEF Pulled
  <2>3. CASE sent[d][i] = NoRow
    <3>1. wh'[i] = wh[i] /\ arrived'[i] = arrived[i]
      BY <2>1, <2>3 DEF Seen, SeenAt
    <3>2. QED
      BY <1>0, <2>1, <3>1 DEF Pulled, Covers
  <2>4. QED
    BY <2>2, <2>3
<1>7. ASSUME NEW d \in Devices,
             \/ StartRun(d) \/ Select(d) \/ Push(d) \/ Probe(d)
             \/ StepFails(d) \/ Abort(d)
      PROVE  Pulled(q, i)'
  <2>1. UNCHANGED <<store, warehouse, pullMark>>
    BY <1>7 DEF StartRun, Select, Push, Probe, StepFails, Abort
  <2>2. pc'[d] \notin {"merge", "mark", "commit", "keep"} \/ bound'[d] = 0
    BY <1>7 DEF StartRun, Select, Push, Probe, StepFails, Abort
  <2>3. q # d => pc'[q] = pc[q] /\ bound'[q] = bound[q] /\ incoming'[q] = incoming[q]
    BY <1>7 DEF StartRun, Select, Push, Probe, StepFails, Abort, ForgetRun
  <2>4. QED
    BY <1>1, <2>1, <2>2, <2>3
<1>8. CASE UNCHANGED vars
  BY <1>1, <1>8 DEF vars
<1>9. QED
  BY <1>2, <1>3, <1>4, <1>5, <1>50, <1>6, <1>7, <1>8 DEF Next, Step

LEMMA StartFacts == Init => PullFacts /\ PulledAll
<1> SUFFICES ASSUME Init PROVE PullFacts /\ PulledAll
  OBVIOUS
<1> USE TimesAreNaturals DEF Init, Nothing
<1>1. PastReadings /\ Phases /\ OneWriter /\ OneCreator
  BY DEF PastReadings, InThePast, Phases, Pushed, OneWriter, OneCreator
<1>2. Unborn /\ SentIsNewer /\ RowsInThePast /\ SentAfterStart /\ BoundsBeforeStarts
  BY DEF Unborn, NowhereYet, SentIsNewer, RowsInThePast, IsRowOf, WrittenBy,
         SentAfterStart, BoundsBeforeStarts
<1>20. SentIsStored /\ BornInThePast
  BY DEF SentIsStored, BornInThePast
<1>3. PulledAll
  BY DEF PulledAll, Pulled
<1>4. QED
  BY <1>1, <1>2, <1>20, <1>3 DEF PullFacts

LEMMA PullFactsKept ==
  ASSUME TypeOK, TypeOK', PullFacts, [Next]_vars PROVE PullFacts'
BY PastReadingsKept, PhasesKept, OneWriterKept, OneCreatorKept, UnbornKept,
   SentIsNewerKept, RowsInThePastKept, BornInThePastKept, SentAfterStartKept, BoundsBeforeStartsKept,
   SentIsStoredKept DEF PullFacts

\* Whatever transactions overlap, fail or die, and however late memories are
\* inserted: what reached the warehouse before a device's pull watermark was merged
\* there, unless memories are written by "system", which the merge guard refuses.
THEOREM PullSkipsNothing ==
  ASSUME \A i \in Ids : AgentOf[i] # "system"
  PROVE  Spec => []NothingUnpulled
<1>1. PulledAll => NothingUnpulled
  BY DEF PulledAll, Pulled, NothingUnpulled
<1>2. TypeOK /\ TypeOK' /\ PullFacts /\ PulledAll /\ [Next]_vars => (PullFacts /\ PulledAll)'
  BY PullFactsKept, PulledAllKept
<1>3. QED
  BY <1>1, <1>2, StartFacts, TypeCorrect, PTL DEF Spec
-----------------------------------------------------------------------------
(* The push watermark: the time it will be set to is read before the rows    *)
(* are selected, and it is set after the transaction they went into commits. *)

\* What is known of a row that the watermark will pass, from the selection of
\* the rows to the watermark, and of the rows of other devices merged meanwhile.
Sent(d, i) ==
  LET Passed(time) == store[d][i] # NoRow /\ time # 0 /\ Stamp(i, store[d][i]) <= time
  IN /\ Passed(pushMark[d]) => Covers(wh[i], store[d][i])
     /\ (pc[d] = "push" /\ Passed(now[d]))
          => Covers(wh[i], store[d][i]) \/ Covers(outgoing[d][i], store[d][i])
     /\ (pc[d] \in Pushed /\ Passed(queued[d])) => Covers(Seen(d)[i], store[d][i])
     /\ (pc[d] = "keep" /\ Passed(queued[d])) => Covers(wh[i], store[d][i])
     /\ (pc[d] = "push" /\ outgoing[d][i] # NoRow)
          => Stamp(i, outgoing[d][i]) > pushMark[d]
     /\ sent[d][i] # NoRow => Stamp(i, sent[d][i]) > pushMark[d]
     /\ (pc[d] = "merge" /\ incoming[d][i] # NoRow)
          => /\ Covers(Seen(d)[i], incoming[d][i])
             /\ \/ Stamp(i, incoming[d][i]) > pushMark[d]
                \/ Covers(wh[i], incoming[d][i])

SentAll == \A d \in Devices, i \in plain : Sent(d, i)

PushFacts ==
  PastReadings /\ Phases /\ OneWriter /\ OneCreator /\ Unborn /\ SentIsNewer

LEMMA StampType ==
  ASSUME TypeOK, NEW i \in Ids, i \in plain, NEW row \in Rows, row # NoRow
  PROVE  Stamp(i, row) \in Nat
BY RowFacts, TimesAreNaturals DEF TypeOK, Stamp

\* A row of a store has a stamp after time 0.
LEMMA StampPositive ==
  ASSUME TypeOK, Unborn, NEW d \in Devices, NEW i \in Ids, i \in plain, store[d][i] # NoRow
  PROVE  Stamp(i, store[d][i]) > 0
<1>1. born[i] # 0 /\ born[i] \in Nat
  <2>1. ~NowhereYet(i)
    BY DEF NowhereYet
  <2>2. QED
    BY <2>1, TimesAreNaturals DEF TypeOK, Unborn
<1>2. Stamp(i, store[d][i]) \in Nat
  BY StampType DEF TypeOK
<1>3. Stamp(i, store[d][i]) # 0
  BY <1>1 DEF Stamp
<1>4. QED
  BY <1>2, <1>3

\* While others commit, neither the warehouse nor a transaction's view loses a
\* version.
LEMMA ViewGrows ==
  ASSUME TypeOK, TypeOK', SentIsNewer, [Next]_vars, NEW q \in Devices, NEW i \in Ids,
         NEW row \in Rows, row # NoRow
  PROVE  /\ Covers(wh[i], row) => Covers(wh'[i], row)
         /\ (sent'[q][i] = sent[q][i] /\ Covers(Seen(q)[i], row)) => Covers(Seen(q)'[i], row)
<1>1. wh[i] \in Rows /\ wh'[i] \in Rows
  BY DEF TypeOK
<1>2. Covers(wh[i], row) => Covers(wh'[i], row)
  BY <1>1, WarehouseGrows, CoversOrder DEF Covers
<1>3. QED
  BY <1>2 DEF Seen

LEMMA SentFrame ==
  ASSUME TypeOK, SentAll, NEW q \in Devices, NEW i \in Ids, i \in plain,
         UNCHANGED <<table, store[q][i], wh[i], sent[q][i], born[i], pushMark[q], pc[q],
                     now[q], outgoing[q][i], queued[q], incoming[q][i]>>
  PROVE  Sent(q, i)'
BY DEF SentAll, Sent, Stamp, Seen, Covers

LEMMA SentWhileWriting ==
  ASSUME TypeOK, TypeOK', PushFacts, SentAll, table' = table,
         NEW d \in Devices, NEW j \in Ids, Write(d, j),
         NEW q \in Devices, NEW i \in Ids, i \in plain
  PROVE  Sent(q, i)'
<1> USE DEF TypeOK
<1>1. UNCHANGED <<wh, sent, pc, now, outgoing, queued, incoming, pushMark>>
  BY WriterFrame DEF warehouse, transaction, run, marks
<1>2. Seen(q)'[i] = Seen(q)[i]
  BY <1>1 DEF Seen
<1>3. /\ clock \in Nat /\ now[q] <= clock /\ queued[q] <= clock /\ pushMark[q] <= clock
      /\ now[q] \in Nat /\ queued[q] \in Nat /\ pushMark[q] \in Nat
  BY TimesAreNaturals DEF PushFacts, PastReadings, InThePast
<1>4. Sent(q, i)
  BY DEF SentAll
<1>5. CASE NowhereYet(i) /\ (store'[q][i] # NoRow => Stamp(i, store[q][i])' = clock + 1)
  BY <1>1, <1>3, <1>5 DEF Sent, NowhereYet
<1>6. CASE /\ store[q][i] # NoRow /\ store'[q][i] # NoRow /\ born'[i] = born[i]
           /\ store'[q][i].ts = store[q][i].ts
  BY <1>1, <1>2, <1>4, <1>6 DEF Sent, Stamp, Covers
<1>7. CASE store'[q][i] # NoRow /\ born'[i] = born[i] /\ store'[q][i].ts = clock + 1
  <2>1. Stamp(i, store[q][i])' = clock + 1
    BY <1>3, <1>7 DEF Stamp
  <2>2. QED
    BY <1>1, <1>2, <1>3, <1>4, <1>7, <2>1 DEF Sent, Stamp, Covers
<1>8. CASE store'[q][i] = store[q][i] /\ born'[i] = born[i]
  BY <1>1, <1>8, SentFrame
<1>9. QED
  BY <1>5, <1>6, <1>7, <1>8, WrittenRow DEF PushFacts, Stamp

LEMMA SentAtSelect ==
  ASSUME TypeOK, PushFacts, SentAll, table' = table, NEW d \in Devices, Select(d), NEW i \in Ids, i \in plain
  PROVE  Sent(d, i)'
<1>1. /\ pc[d] = "select" /\ pc' = [pc EXCEPT ![d] = "push"]
      /\ outgoing' = [outgoing EXCEPT ![d] =
           [j \in Ids |-> IF /\ store[d][j] # NoRow
                             /\ pushMark[d] = 0 \/ Stamp(j, store[d][j]) > pushMark[d]
                          THEN store[d][j] ELSE NoRow]]
      /\ UNCHANGED <<born, store, wh, sent, now, queued, incoming, pushMark>>
  BY DEF Select, Goto, local, warehouse, transaction, marks
<1>2. pc'[d] = "push"
      /\ outgoing'[d][i] = IF /\ store[d][i] # NoRow
                              /\ pushMark[d] = 0 \/ Stamp(i, store[d][i]) > pushMark[d]
                           THEN store[d][i] ELSE NoRow
  BY <1>1 DEF TypeOK
<1>3. store[d][i] # NoRow =>
        /\ Stamp(i, store[d][i]) > 0 /\ Stamp(i, store[d][i]) \in Nat
        /\ Covers(store[d][i], store[d][i])
  BY StampPositive, StampType, CoversOrder DEF PushFacts, TypeOK
<1>4. pushMark[d] \in Nat
  BY TimesAreNaturals DEF TypeOK
<1>5. Sent(d, i) /\ Stamp(i, store[d][i])' = Stamp(i, store[d][i])
  BY <1>1 DEF SentAll, Stamp
<1>6. outgoing'[d][i] # NoRow => Stamp(i, outgoing[d][i])' > pushMark[d]
  BY <1>1, <1>2, <1>3, <1>4 DEF Stamp
<1>7. (store[d][i] # NoRow /\ outgoing'[d][i] = NoRow) => Covers(wh[i], store[d][i])
  BY <1>2, <1>3, <1>4, <1>5 DEF Sent
<1>8. outgoing'[d][i] # NoRow => outgoing'[d][i] = store[d][i]
  BY <1>2
<1>9. QED
  BY <1>1, <1>2, <1>3, <1>5, <1>6, <1>7, <1>8 DEF Sent, Pushed, Stamp, Covers

LEMMA SentAtPush ==
  ASSUME \A j \in Ids : AgentOf[j] # "system",
         TypeOK, TypeOK', PushFacts, SentAll, table' = table,
         NEW d \in Devices, Push(d), NEW i \in Ids, i \in plain
  PROVE  Sent(d, i)'
<1>1. /\ pc[d] = "push" /\ pc' = [pc EXCEPT ![d] = "probe"]
      /\ queued' = [queued EXCEPT ![d] = now[d]]
      /\ UNCHANGED <<born, store, wh, now, pushMark>>
  BY DEF Push, Goto, local, warehouse, marks
<1>2. pc'[d] = "probe" /\ queued'[d] = now[d]
  BY <1>1 DEF TypeOK
<1>3. Sent(d, i)
  BY DEF SentAll
<1>4. /\ wh[i] \in Rows /\ Seen(d)[i] \in Rows /\ outgoing[d][i] \in Rows
      /\ store[d][i] \in Rows /\ sent'[d][i] \in Rows
  BY SeenType DEF TypeOK
<1>5. wh[i] # NoRow => Covers(Seen(d)[i], wh[i])
  BY SeenIsNewer DEF PushFacts
<1>6. Seen(d)'[i] = IF Accepted(i, outgoing[d][i], Seen(d)[i])
                    THEN outgoing[d][i] ELSE Seen(d)[i]
  BY <1>1, PushedRow, GuardOrder, <1>4 DEF Seen
<1>7. Seen(d)[i] # NoRow => Covers(Seen(d)'[i], Seen(d)[i])
  BY <1>4, <1>6, GuardOrder, CoversOrder
<1>8. outgoing[d][i] # NoRow => Covers(Seen(d)'[i], outgoing[d][i])
  BY <1>4, <1>6, GuardOrder, CoversOrder
<1>9. ASSUME store[d][i] # NoRow,
             Covers(wh[i], store[d][i]) \/ Covers(outgoing[d][i], store[d][i])
      PROVE  Covers(Seen(d)'[i], store[d][i])
  <2>1. Seen(d)'[i] \in Rows
    BY <1>4, <1>6
  <2>2. CASE Covers(wh[i], store[d][i])
    <3>1. wh[i] # NoRow /\ Seen(d)[i] # NoRow
      BY <1>5, <2>2 DEF Covers
    <3>2. Covers(Seen(d)[i], store[d][i])
      BY <1>4, <1>5, <1>9, <2>2, <3>1, CoversOrder
    <3>3. QED
      BY <1>4, <1>7, <1>9, <2>1, <3>1, <3>2, CoversOrder
  <2>3. CASE Covers(outgoing[d][i], store[d][i])
    <3>1. outgoing[d][i] # NoRow
      BY <2>3 DEF Covers
    <3>2. QED
      BY <1>4, <1>8, <1>9, <2>1, <2>3, <3>1, CoversOrder
  <2>4. QED
    BY <1>9, <2>2, <2>3
<1>10. sent'[d][i] # NoRow => Stamp(i, sent[d][i])' > pushMark[d]
  BY <1>1, <1>3, PushedRow, GuardOrder, <1>4 DEF Sent, Stamp
<1>11. QED
  BY <1>1, <1>2, <1>3, <1>9, <1>10 DEF Sent, Stamp, Covers

LEMMA SentAtPull ==
  ASSUME TypeOK, PushFacts, SentAll, table' = table, NEW d \in Devices, Pull(d), NEW i \in Ids, i \in plain
  PROVE  Sent(d, i)'
<1>1. /\ pc[d] = "pull" /\ pc' = [pc EXCEPT ![d] = "merge"]
      /\ incoming' = [incoming EXCEPT ![d] =
           [j \in Ids |-> IF j \in Fetched(d) \ Waiting(d) THEN Seen(d)[j] ELSE NoRow]]
      /\ UNCHANGED <<born, store, wh, sent, now, queued, outgoing, pushMark>>
  BY DEF Pull, Goto, local, warehouse, transaction, marks
<1>2. pc'[d] = "merge" /\ incoming'[d][i] \in {NoRow, Seen(d)[i]}
  BY <1>1 DEF TypeOK
<1>3. Sent(d, i)
  BY DEF SentAll
<1>4. Seen(d)[i] # NoRow =>
        /\ Covers(Seen(d)[i], Seen(d)[i])
        /\ Stamp(i, Seen(d)[i]) > pushMark[d] \/ Covers(wh[i], Seen(d)[i])
  BY <1>3, SeenType, CoversOrder DEF Sent, Seen
<1>5. Seen(d)'[i] = Seen(d)[i]
  BY <1>1 DEF Seen
<1>6. QED
  BY <1>1, <1>2, <1>3, <1>4, <1>5 DEF Sent, Stamp, Pushed, Covers

LEMMA SentAtMerge ==
  ASSUME TypeOK, PushFacts, SentAll, table' = table, NEW d \in Devices, Merge(d), NEW i \in Ids, i \in plain
  PROVE  Sent(d, i)'
<1>1. /\ pc[d] = "merge" /\ pc'[d] \in {"mark", "commit"}
      /\ store'[d][i] \in {store[d][i], incoming[d][i]}
      /\ UNCHANGED <<born, wh, sent, queued, pushMark>>
  BY MergedRun, MergedRow DEF warehouse, transaction, marks
<1>2. Sent(d, i)
  BY DEF SentAll
<1>3. Seen(d)'[i] = Seen(d)[i]
  BY <1>1 DEF Seen
<1>4. /\ pushMark[d] \in Nat
      /\ incoming[d][i] # NoRow => Stamp(i, incoming[d][i]) \in Nat
  <2>1. pushMark \in [Devices -> Times] /\ incoming \in [Devices -> [Ids -> Rows]]
    BY DEF TypeOK
  <2>2. pushMark[d] \in Nat /\ incoming[d][i] \in Rows
    BY <2>1, TimesAreNaturals
  <2>3. QED
    BY <2>2, StampType
<1>5. CASE store'[d][i] = store[d][i]
  BY <1>1, <1>2, <1>3, <1>5 DEF Sent, Stamp, Pushed, Covers
<1>6. CASE store'[d][i] = incoming[d][i]
  BY <1>1, <1>2, <1>3, <1>4, <1>6 DEF Sent, Stamp, Pushed, Covers
<1>7. QED
  BY <1>1, <1>5, <1>6

LEMMA SentAtCommit ==
  ASSUME TypeOK, TypeOK', PushFacts, SentAll, [Next]_vars,
         NEW d \in Devices, Commit(d), NEW q \in Devices, NEW i \in Ids, i \in plain
  PROVE  Sent(q, i)'
<1>1. /\ pc[d] = "commit" /\ pc' = [pc EXCEPT ![d] = "keep"]
      /\ wh'[i] = Seen(d)[i]
      /\ UNCHANGED <<table, born, store, now, queued, outgoing, incoming, pushMark>>
  BY SameTable DEF Commit, Goto, local, run, marks
<1>2. Sent(q, i)
  BY DEF SentAll
<1>3. /\ store[q][i] \in Rows /\ incoming[q][i] \in Rows
      /\ store[q][i] # NoRow /\ Covers(wh[i], store[q][i]) => Covers(wh'[i], store[q][i])
      /\ incoming[q][i] # NoRow /\ Covers(wh[i], incoming[q][i]) => Covers(wh'[i], incoming[q][i])
  BY ViewGrows DEF PushFacts, TypeOK
<1>4. CASE q = d
  <2>1. pc'[q] = "keep" /\ sent'[q][i] = NoRow
    BY <1>1, <1>4, EndedTransaction DEF TypeOK
  <2>2. QED
    BY <1>1, <1>2, <1>3, <1>4, <2>1 DEF Sent, Stamp, Pushed, Covers
<1>5. CASE q # d
  <2>1. sent'[q] = sent[q] /\ pc'[q] = pc[q]
    BY <1>1, <1>5, EndedTransaction
  <2>2. /\ store[q][i] # NoRow /\ Covers(Seen(q)[i], store[q][i])
             => Covers(Seen(q)'[i], store[q][i])
        /\ incoming[q][i] # NoRow /\ Covers(Seen(q)[i], incoming[q][i])
             => Covers(Seen(q)'[i], incoming[q][i])
    BY <1>3, <2>1, ViewGrows DEF PushFacts
  <2>3. QED
    BY <1>1, <1>2, <1>3, <2>1, <2>2 DEF Sent, Stamp, Covers
<1>6. QED
  BY <1>4, <1>5

LEMMA SentAllKept ==
  ASSUME \A j \in Ids : AgentOf[j] # "system",
         TypeOK, TypeOK', PushFacts, SentAll, [Next]_vars
  PROVE  SentAll'
<1> SUFFICES ASSUME NEW q \in Devices, NEW i \in Ids, i \in plain PROVE Sent(q, i)'
  BY DEF SentAll, TypeOK, Next, vars, fixed
<1>00. table' = table
  BY SameTable
<1> USE <1>00 DEF TypeOK, Goto, local, warehouse, transaction, run, marks
<1>0. Sent(q, i)
  BY DEF SentAll
<1>1. ASSUME NEW d \in Devices, NEW j \in Ids, Write(d, j)
      PROVE  Sent(q, i)'
  BY <1>1, SentWhileWriting
<1>2. ASSUME NEW d \in Devices, d # q, Step(d) \/ StepFails(d) \/ Abort(d), ~Commit(d)
      PROVE  Sent(q, i)'
  <2>1. sent'[q] = sent[q]
    BY <1>2, PushedRow, EndedTransaction, SameTransaction DEF Step, StartRun
  <2>2. UNCHANGED <<born, wh>>
    BY <1>2, SameTransaction DEF Step, StartRun, Push, StepFails, Abort
  <2>3. UNCHANGED <<store[q], incoming[q], pc[q]>>
    <3>1. CASE Merge(d)
      BY <1>2, <3>1, MergedRun, MergedRow
    <3>2. CASE ~Merge(d)
      BY <1>2, <3>2
         DEF Step, StartRun, Select, Push, Probe, Pull, KeepPullMark, KeepPushMark,
             StepFails, Abort, ForgetRun
    <3>3. QED
      BY <3>1, <3>2
  <2>4. UNCHANGED <<pushMark[q], now[q], outgoing[q], queued[q]>>
    <3>1. CASE Merge(d)
      BY <3>1, MergedRun
    <3>2. CASE ~Merge(d)
      BY <1>2, <3>2
         DEF Step, StartRun, Select, Push, Probe, Pull, KeepPullMark, KeepPushMark,
             StepFails, Abort, ForgetRun
    <3>3. QED
      BY <3>1, <3>2
  <2>5. QED
    BY <2>1, <2>2, <2>3, <2>4, SentFrame
<1>3. ASSUME StartRun(q) \/ Probe(q) \/ KeepPullMark(q) PROVE Sent(q, i)'
  <2>1. /\ UNCHANGED <<born, store, wh, sent, pushMark, queued>>
        /\ pc'[q] \in {"select", "pull", "commit"}
        /\ pc'[q] \in Pushed => pc[q] \in Pushed
    BY <1>3 DEF StartRun, Probe, KeepPullMark, Pushed
  <2>2. QED
    BY <1>0, <2>1 DEF Sent, Stamp, Seen, Covers
<1>4. ASSUME KeepPushMark(q) PROVE Sent(q, i)'
  <2>1. /\ UNCHANGED <<born, store, wh, sent>> /\ pc[q] = "keep" /\ pc'[q] = "idle"
        /\ pushMark'[q] = IF queued[q] # 0 THEN queued[q] ELSE pushMark[q]
    BY <1>4 DEF KeepPushMark
  <2>2. sent'[q][i] = NoRow
    <3>1. sent[q] = Nothing
      BY <2>1 DEF PushFacts, Phases, Pushed
    <3>2. QED
      BY <2>1, <3>1 DEF Nothing
  <2>3. QED
    BY <1>0, <2>1, <2>2 DEF Sent, Stamp, Pushed, Covers
<1>5. ASSUME StepFails(q) \/ Abort(q) PROVE Sent(q, i)'
  <2>1. /\ UNCHANGED <<born, store, wh, pushMark>> /\ pc'[q] \in {"commit", "idle"}
        /\ queued'[q] = 0
    BY <1>5 DEF StepFails, Abort, ForgetRun
  <2>2. sent'[q][i] = NoRow
    BY <1>5, EndedTransaction
  <2>3. QED
    BY <1>0, <2>1, <2>2 DEF Sent, Stamp, Covers
<1>6. CASE UNCHANGED vars
  BY <1>6, SentFrame DEF vars
<1>7. ASSUME NEW d \in Devices, Step(d) \/ StepFails(d) \/ Abort(d) PROVE Sent(q, i)'
  <2>1. CASE Commit(d)
    BY <2>1, SentAtCommit
  <2>2. CASE d # q /\ ~Commit(d)
    BY <1>2, <1>7, <2>2
  <2>3. CASE d = q /\ ~Commit(d)
    BY <1>3, <1>4, <1>5, <1>7, <2>3, SentAtSelect, SentAtPush, SentAtPull, SentAtMerge
       DEF Step
  <2>4. QED
    BY <2>1, <2>2, <2>3
<1>8. QED
  BY <1>1, <1>6, <1>7 DEF Next

LEMMA PushFactsKept ==
  ASSUME TypeOK, TypeOK', PushFacts, [Next]_vars PROVE PushFacts'
BY PastReadingsKept, PhasesKept, OneWriterKept, OneCreatorKept, UnbornKept,
   SentIsNewerKept DEF PushFacts

\* Every row at or before a device's push watermark has reached the warehouse, or
\* a newer one has, whatever is written during a run and wherever runs fail or
\* die: of the memories that are committed at the time they are stamped, provided
\* none is written by "system".
THEOREM PushLeavesNothing ==
  ASSUME \A j \in Ids : AgentOf[j] # "system"
  PROVE  Spec => []NothingUnsent
<1>1. Init => PushFacts /\ SentAll
  <2> SUFFICES ASSUME Init PROVE PushFacts /\ SentAll
    OBVIOUS
  <2>1. PushFacts
    BY StartFacts DEF PullFacts, PushFacts
  <2>2. SentAll
    BY DEF Init, Nothing, SentAll, Sent
  <2>3. QED
    BY <2>1, <2>2
<1>2. TypeOK /\ TypeOK' /\ PushFacts /\ SentAll /\ [Next]_vars => (PushFacts /\ SentAll)'
  BY PushFactsKept, SentAllKept
<1>3. TypeOK /\ PushFacts /\ SentAll => NothingUnsent
  <2> SUFFICES ASSUME TypeOK, PushFacts, SentAll, NEW d \in Devices, NEW i \in Ids, i \in plain,
                      store[d][i] # NoRow, Stamp(i, store[d][i]) <= pushMark[d]
               PROVE  Covers(wh[i], store[d][i])
    BY DEF NothingUnsent, Delivered, TypeOK
  <2>1. pushMark[d] # 0
    BY StampPositive, StampType DEF PushFacts, TypeOK
  <2>2. QED
    BY <2>1 DEF SentAll, Sent
<1>4. QED
  BY <1>1, <1>2, <1>3, TypeCorrect, PTL DEF Spec
-----------------------------------------------------------------------------
(* The versions: a row that is stamped by every edit carries the time of its *)
(* content, wherever it has got to, so that the guards compare contents.     *)

\* The stamp of the row tells when its content was written.
Dated(i, row) ==
  row # NoRow =>
    /\ row.ver = Stamp(i, row) /\ row.ver >= born[i]
    /\ table = "memory_relationships" => row.ts = 0

AllDated == \A i \in plain, row \in Rows : IsRowOf(i, row) => Dated(i, row)

Versions == RowsInThePast /\ OneCreator /\ Unborn /\ BornInThePast /\ AllDated

\* A row that every edit stamps, after a write.
LEMMA WrittenVersion ==
  ASSUME TypeOK, table' = table, Unborn, OneCreator, BornInThePast,
         NEW d \in Devices, NEW j \in Ids, Write(d, j),
         NEW q \in Devices, NEW i \in Ids, i \in plain
  PROVE  \/ UNCHANGED <<born[i], store[q][i]>>
         \/ store'[q][i] = NoRow
         \/ /\ Dated(i, store[q][i])'
            /\ store'[q][i] # NoRow /\ store'[q][i].ver = clock + 1
<1> USE DEF TypeOK
<1>0. clock \in Nat /\ born[i] \in Nat /\ born[i] <= clock
  BY TimesAreNaturals DEF BornInThePast
<1>1. CASE Create(d, j)
  <2>1. PICK t \in {0, clock'} :
          /\ clock' = clock + 1 /\ born' = [born EXCEPT ![j] = clock']
          /\ store' = [store EXCEPT ![d][j] = [ts |-> t, ver |-> clock']]
          /\ table # "tasks" => t = 0
          /\ born[j] = 0
    BY <1>1 DEF Create, Stamped, Fresh, ReadClock
  <2>2. CASE i # j
    BY <2>1, <2>2
  <2>3. CASE i = j /\ q # d
    BY <2>1, <2>3 DEF Unborn, NowhereYet
  <2>4. CASE i = j /\ q = d
    <3>1. /\ store'[q][i] = [ts |-> t, ver |-> clock + 1] /\ born'[i] = clock + 1
      BY <2>1, <2>4
    <3>2. [ts |-> t, ver |-> clock + 1] # NoRow
      BY <1>1, <2>1, ClockRead, RowFacts, TimesAreNaturals DEF Create, Stamped
    <3>3. QED
      BY <1>0, <2>1, <3>1, <3>2 DEF Dated, Stamp
  <2>5. QED
    BY <2>2, <2>3, <2>4
<1>2. CASE BeginCreate(d, j) \/ EndCreate(d, j) \/ SilentEdit(d, j)
  <2>1. i # j
    BY <1>2 DEF BeginCreate, EndCreate, SilentEdit, OneCreator
  <2>2. QED
    BY <1>2, <2>1 DEF BeginCreate, EndCreate, SilentEdit, Stamped
<1>3. CASE Learn(d, j)
  BY <1>3 DEF Learn
<1>4. CASE Edit(d, j)
  <2>1. /\ clock' = clock + 1 /\ born' = born /\ table # "memory_relationships"
        /\ store' = [store EXCEPT ![d][j] = [ts |-> clock', ver |-> clock']]
    BY <1>4 DEF Edit, ReadClock
  <2>2. CASE ~(i = j /\ q = d)
    BY <2>1, <2>2
  <2>3. CASE i = j /\ q = d
    <3>1. store'[q][i] = [ts |-> clock + 1, ver |-> clock + 1]
      BY <2>1, <2>3
    <3>2. [ts |-> clock + 1, ver |-> clock + 1] # NoRow
      BY <1>4, <2>1, ClockRead, RowFacts DEF Edit
    <3>3. QED
      BY <1>0, <2>1, <3>1, <3>2 DEF Dated, Stamp
  <2>4. QED
    BY <2>2, <2>3
<1>5. QED
  BY <1>1, <1>2, <1>3, <1>4 DEF Write

LEMMA AllDatedKept ==
  ASSUME TypeOK, Versions, [Next]_vars PROVE AllDated'
<1>0. table' = table /\ plain' = plain /\ plain \subseteq Ids
  BY DEF Next, vars, fixed, TypeOK
<1> SUFFICES ASSUME NEW i \in plain, NEW row \in Rows, IsRowOf(i, row)'
             PROVE  Dated(i, row)'
  BY <1>0 DEF AllDated
<1> USE <1>0
<1>1. ASSUME IsRowOf(i, row), born'[i] = born[i] \/ NowhereYet(i) PROVE Dated(i, row)'
  <2>1. CASE NowhereYet(i)
    <3>1. row = NoRow
      BY <1>1, <2>1 DEF IsRowOf, NowhereYet
    <3>2. QED
      BY <3>1 DEF Dated
  <2>2. CASE born'[i] = born[i]
    BY <1>1, <2>2 DEF Versions, AllDated, Dated, Stamp
  <2>3. QED
    BY <1>1, <2>1, <2>2
<1>2. ASSUME NEW d \in Devices, Step(d) \/ StepFails(d) \/ Abort(d) PROVE Dated(i, row)'
  BY <1>1, <1>2, RowsMove, SyncFrame
<1>3. ASSUME NEW d \in Devices, NEW j \in Ids, Write(d, j) PROVE Dated(i, row)'
  <2>1. born'[i] = born[i] \/ NowhereYet(i)
    BY <1>3, WrittenRow DEF Versions
  <2>2. ASSUME NEW q \in Devices, row = store'[q][i] PROVE Dated(i, row)'
    <3>1. CASE row = NoRow
      BY <3>1 DEF Dated
    <3>2. CASE row = store[q][i]
      BY <1>1, <2>1, <3>2 DEF IsRowOf
    <3>3. CASE Dated(i, store[q][i])'
      BY <2>2, <3>3 DEF Dated, Stamp
    <3>4. QED
      BY <1>3, <2>2, <3>1, <3>2, <3>3, WrittenVersion DEF Versions
  <2>3. QED
    BY <1>1, <1>3, <2>1, <2>2, RowsWritten
<1>4. CASE UNCHANGED vars
  BY <1>1, <1>4 DEF vars, local, warehouse, transaction, run, IsRowOf
<1>5. QED
  BY <1>2, <1>3, <1>4 DEF Next

\* The order of the stamps is the order of the contents.
LEMMA NewerContent ==
  ASSUME TypeOK, NEW i \in Ids, NEW a \in Rows, NEW b \in Rows,
         b # NoRow, Dated(i, a), Dated(i, b), Covers(a, b)
  PROVE  a.ver >= b.ver
<1>1. a # NoRow
  BY DEF Covers
<1>2. /\ a.ts \in Nat /\ a.ver \in Nat /\ b.ts \in Nat /\ b.ver \in Nat /\ born[i] \in Nat
  BY <1>1, RowFacts, TimesAreNaturals DEF TypeOK
<1>3. QED
  BY <1>1, <1>2 DEF Dated, Stamp, Covers

LEMMA VersionsKept ==
  ASSUME TypeOK, TypeOK', Versions, [Next]_vars PROVE Versions'
BY RowsInThePastKept, OneCreatorKept, UnbornKept, BornInThePastKept, AllDatedKept
   DEF Versions

LEMMA VersionsAtFirst == Init => Versions
<1> SUFFICES ASSUME Init PROVE Versions
  OBVIOUS
<1>1. RowsInThePast /\ OneCreator /\ Unborn /\ BornInThePast
  BY StartFacts DEF PullFacts
<1>3. AllDated
  BY DEF Init, Nothing, AllDated, IsRowOf, Dated
<1>4. QED
  BY <1>1, <1>3 DEF Versions

LEMMA StepsGoForward ==
  ASSUME TypeOK, TypeOK', Versions, SentIsNewer, [Next]_vars PROVE NeverOlder
<1>0. /\ \A i \in plain : i \in Ids /\ wh[i] \in Rows /\ Dated(i, wh[i])
      /\ \A d \in Devices, i \in plain :
           /\ store[d][i] \in Rows /\ Dated(i, store[d][i])
           /\ incoming[d][i] \in Rows /\ Dated(i, incoming[d][i])
           /\ Seen(d)[i] \in Rows /\ Dated(i, Seen(d)[i])
  <2>0. \A i \in plain : i \in Ids
    BY DEF TypeOK
  <2>1. \A i \in plain, row \in Rows : IsRowOf(i, row) => Dated(i, row)
    BY DEF Versions, AllDated
  <2>2. /\ \A i \in Ids : wh[i] \in Rows /\ IsRowOf(i, wh[i])
        /\ \A d \in Devices, i \in Ids :
             /\ store[d][i] \in Rows /\ IsRowOf(i, store[d][i])
             /\ incoming[d][i] \in Rows /\ IsRowOf(i, incoming[d][i])
             /\ Seen(d)[i] \in Rows /\ IsRowOf(i, Seen(d)[i])
    <3>1. \A d \in Devices, i \in Ids : Seen(d)[i] \in {wh[i], sent[d][i]}
      BY DEF Seen
    <3>2. QED
      BY <3>1 DEF TypeOK, IsRowOf
  <2>3. \A i \in plain : i \in Ids /\ wh[i] \in Rows /\ Dated(i, wh[i])
    BY <2>0, <2>1, <2>2
  <2>4. ASSUME NEW d \in Devices, NEW i \in plain
        PROVE  /\ store[d][i] \in Rows /\ Dated(i, store[d][i])
               /\ incoming[d][i] \in Rows /\ Dated(i, incoming[d][i])
               /\ Seen(d)[i] \in Rows /\ Dated(i, Seen(d)[i])
    BY <2>0, <2>1, <2>2
  <2>5. QED
    BY <2>3, <2>4
<1>1. ASSUME NEW q \in Devices, NEW i \in plain, store[q][i] # NoRow
      PROVE  store'[q][i].ver >= store[q][i].ver
  <2>0. store[q][i].ver \in Nat /\ i \in Ids
    BY <1>0, <1>1, RowFacts, TimesAreNaturals
  <2>1. ASSUME NEW d \in Devices, NEW j \in Ids, Write(d, j)
        PROVE  store'[q][i].ver >= store[q][i].ver
    <3>1. store'[q][i] = store[q][i] \/ store'[q][i].ver = clock + 1
      <4>1. store'[q][i] # NoRow
        BY <1>1, <2>0, <2>1, WrittenRow DEF Versions, NowhereYet
      <4>2. QED
        BY <2>0, <2>1, <4>1, WrittenVersion, SameTable DEF Versions
    <3>2. store[q][i].ver <= clock
      <4>1. Dated(i, store[q][i]) /\ WrittenBy(store[q][i], clock) /\ born[i] <= clock
        BY <1>0, <2>0 DEF Versions, RowsInThePast, IsRowOf, BornInThePast
      <4>2. QED
        BY <1>1, <4>1 DEF Dated, WrittenBy, Stamp
    <3>3. clock \in Nat
      BY TimesAreNaturals DEF TypeOK
    <3>4. QED
      BY <2>0, <3>1, <3>2, <3>3
  <2>2. ASSUME NEW d \in Devices, Merge(d) PROVE store'[q][i].ver >= store[q][i].ver
    <3>1. CASE store'[q][i] = store[q][i]
      BY <2>0, <3>1
    <3>2. CASE store'[q][i] # store[q][i]
      <4>1. q = d /\ store'[q][i] = incoming[q][i] /\ Accepted(i, incoming[q][i], store[q][i])
        BY <2>0, <2>2, <3>2, MergedRun, MergedRow
      <4>2. Covers(incoming[q][i], store[q][i])
        BY <1>0, <1>1, <2>0, <4>1, GuardOrder
      <4>3. QED
        BY <1>0, <1>1, <2>0, <4>1, <4>2, NewerContent
    <3>3. QED
      BY <3>1, <3>2
  <2>3. ASSUME NEW d \in Devices, Step(d) \/ StepFails(d) \/ Abort(d), ~Merge(d)
        PROVE  store' = store
    BY <2>3 DEF Step, StartRun, Select, Push, Probe, Pull, KeepPullMark, Commit,
                KeepPushMark, StepFails, Abort, local
  <2>4. QED
    BY <2>0, <2>1, <2>2, <2>3 DEF Next, vars, local
<1>2. ASSUME NEW i \in plain, wh[i] # NoRow PROVE wh'[i].ver >= wh[i].ver
  <2>0. wh[i].ver \in Nat /\ i \in Ids
    BY <1>0, <1>2, RowFacts, TimesAreNaturals
  <2>1. ASSUME NEW d \in Devices, Commit(d) PROVE wh'[i].ver >= wh[i].ver
    <3>1. wh'[i] = Seen(d)[i]
      BY <2>1 DEF Commit
    <3>2. Covers(Seen(d)[i], wh[i])
      BY <1>2, <2>0, SeenIsNewer
    <3>3. QED
      BY <1>0, <1>2, <2>0, <3>1, <3>2, NewerContent
  <2>2. ASSUME NEW d \in Devices, Step(d) \/ StepFails(d) \/ Abort(d), ~Commit(d)
        PROVE  wh' = wh
    BY <2>2, SameTransaction DEF Step, StartRun, Push, StepFails, Abort, warehouse
  <2>3. ASSUME NEW d \in Devices, NEW j \in Ids, Write(d, j) PROVE wh' = wh
    BY <2>3, WriterFrame DEF warehouse
  <2>4. QED
    BY <2>0, <2>1, <2>2, <2>3 DEF Next, vars, warehouse
<1>3. QED
  BY <1>1, <1>2 DEF NeverOlder

\* The newer version wins, on every device and in the warehouse: of edges, tasks
\* and those memories whose every edit stamps them.
THEOREM NewerWins == Spec => NoRegress
<1>1. Init => PushFacts /\ Versions
  BY StartFacts, VersionsAtFirst DEF PullFacts, PushFacts
<1>2. TypeOK /\ TypeOK' /\ PushFacts /\ Versions /\ [Next]_vars => (PushFacts /\ Versions)'
  BY PushFactsKept, VersionsKept
<1>3. TypeOK /\ TypeOK' /\ PushFacts /\ Versions /\ [Next]_vars => [NeverOlder]_vars
  BY StepsGoForward DEF PushFacts
<1>4. QED
  BY <1>1, <1>2, <1>3, TypeCorrect, PTL DEF Spec, NoRegress

-----------------------------------------------------------------------------
(* WarehouseSync implements LastWriterWins: what each step does to the       *)
(* versions of the plain rows, wherever they are.                            *)

LEMMA VersionFacts ==
  ASSUME TypeOK
  PROVE  /\ \A i \in Ids, row \in Rows : VersionOf(i, row) \in Times
         /\ \A i \in Ids : VersionOf(i, NoRow) = 0
         /\ \A i \in Ids, d \in Devices : Held[d][i] = VersionOf(i, store[d][i])
         /\ \A i \in Ids : Shared[i] = VersionOf(i, wh[i])
         /\ \A i \in Ids : \A v : v \in Moving[i] <=>
              v # 0 /\ \E row \in UnderWay(i) : v = VersionOf(i, row)
BY RowFacts, TimesAreNaturals DEF VersionOf, Held, Shared, Moving

LEMMA VersionKept ==
  ASSUME plain' = plain, NEW i, NEW row PROVE VersionOf(i, row)' = VersionOf(i, row)
BY DEF VersionOf

\* The rows a device is moving are under way.
LEMMA UnderWayFacts ==
  ASSUME NEW i \in Ids, NEW row
  PROVE  row \in UnderWay(i) <=>
           \E d \in Devices : row \in {outgoing[d][i], sent[d][i], incoming[d][i]}
BY DEF UnderWay

\* Every version has its row in a store, in the warehouse or under way.
LEMMA VersionsAnywhere ==
  ASSUME TypeOK, NEW i \in Ids
  PROVE  /\ \A row : IsRowOf(i, row) =>
              VersionOf(i, row) = 0 \/ VersionOf(i, row) \in Register!Anywhere(i)
         /\ \A v \in Register!Anywhere(i) : v # 0 =>
              \E row \in Rows : row # NoRow /\ IsRowOf(i, row) /\ v = VersionOf(i, row)
<1>1. \A v : v \in Register!Anywhere(i) <=>
        \/ \E d \in Devices : v = VersionOf(i, store[d][i])
        \/ v = VersionOf(i, wh[i])
        \/ v # 0 /\ \E row \in UnderWay(i) : v = VersionOf(i, row)
  BY VersionFacts DEF Register!Anywhere
<1>2. VersionOf(i, NoRow) = 0
  BY DEF VersionOf
<1>3. ASSUME NEW row
      PROVE  IsRowOf(i, row) <=>
               \/ row = NoRow \/ row = wh[i] \/ \E d \in Devices : row = store[d][i]
               \/ row \in UnderWay(i)
  <2>1. row \in UnderWay(i) <=>
          \E d \in Devices : row \in {outgoing[d][i], sent[d][i], incoming[d][i]}
    BY UnderWayFacts
  <2>2. (\E d \in Devices :
           row \in {store[d][i], outgoing[d][i], sent[d][i], incoming[d][i]}) <=>
          \/ \E d \in Devices : row = store[d][i]
          \/ \E d \in Devices : row \in {outgoing[d][i], sent[d][i], incoming[d][i]}
    BY Zenon
  <2>3. QED
    BY <2>1, <2>2, Zenon DEF IsRowOf
<1>4. ASSUME NEW row \in UnderWay(i) PROVE row \in Rows
  <2>1. PICK d \in Devices : row \in {outgoing[d][i], sent[d][i], incoming[d][i]}
    BY UnderWayFacts
  <2>2. QED
    BY <2>1 DEF TypeOK
<1>5. wh[i] \in Rows /\ \A d \in Devices : store[d][i] \in Rows
  BY DEF TypeOK
<1>6. ASSUME NEW row, IsRowOf(i, row), VersionOf(i, row) # 0
      PROVE  VersionOf(i, row) \in Register!Anywhere(i)
  <2>1. wh[i] = row \/ (\E d \in Devices : store[d][i] = row) \/ row \in UnderWay(i)
    BY <1>2, <1>3, <1>6
  <2>2. QED
    BY <1>1, <1>6, <2>1
<1>7. ASSUME NEW v \in Register!Anywhere(i), v # 0
      PROVE  \E row \in Rows : row # NoRow /\ IsRowOf(i, row) /\ v = VersionOf(i, row)
  <2>1. PICK row : /\ v = VersionOf(i, row)
                   /\ \/ row = wh[i] \/ \E d \in Devices : row = store[d][i]
                      \/ row \in UnderWay(i)
    BY <1>1, <1>7
  <2>2. row \in Rows /\ IsRowOf(i, row)
    BY <1>3, <1>4, <1>5, <2>1
  <2>3. QED
    BY <1>2, <1>7, <2>1, <2>2
<1>8. QED
  BY <1>6, <1>7

\* No version is newer than the clock.
LEMMA VersionsInThePast ==
  ASSUME TypeOK, Versions, NEW i \in plain, NEW v \in Register!Anywhere(i)
  PROVE  v \in Nat /\ v <= clock
<1>0. i \in Ids /\ clock \in Nat /\ born[i] \in Nat /\ born[i] <= clock
  BY TimesAreNaturals DEF TypeOK, Versions, BornInThePast
<1>1. CASE v = 0
  BY <1>0, <1>1
<1>2. CASE v # 0
  <2>1. PICK row \in Rows : row # NoRow /\ IsRowOf(i, row) /\ v = VersionOf(i, row)
    BY <1>0, <1>2, VersionsAnywhere
  <2>2. v = row.ver /\ row.ts \in Nat /\ row.ver \in Nat
    BY <2>1, RowFacts, TimesAreNaturals DEF VersionOf
  <2>3. Dated(i, row) /\ WrittenBy(row, clock)
    BY <1>0, <2>1 DEF Versions, AllDated, RowsInThePast
  <2>4. QED
    BY <1>0, <2>1, <2>2, <2>3 DEF Dated, WrittenBy, Stamp
<1>3. QED
  BY <1>1, <1>2

\* A write makes a version newer than all there are, or is of a row that promises
\* nothing.
LEMMA WritesMakeVersions ==
  ASSUME TypeOK, TypeOK', Versions, plain' = plain, table' = table,
         NEW d \in Devices, NEW j \in Ids, Write(d, j)
  PROVE  Register!Write(d, j) \/ UNCHANGED <<Held, Shared, Moving>>
<1>1. UNCHANGED <<wh, outgoing, sent, incoming>>
  BY WriterFrame DEF warehouse, transaction, run
<1>2. UNCHANGED <<Shared, Moving>>
  <2>1. \A i \in Ids : UnderWay(i)' = UnderWay(i)
    BY <1>1 DEF UnderWay
  <2>2. QED
    BY <1>1, <2>1 DEF Shared, Moving, VersionOf
<1>3. \A q \in Devices, i \in Ids : ~(q = d /\ i = j) => store'[q][i] = store[q][i]
  BY DEF TypeOK, Write, Learn, Create, BeginCreate, EndCreate, Edit, SilentEdit
<1>4. \A q \in Devices, i \in Ids : ~(q = d /\ i = j) => Held'[q][i] = Held[q][i]
  BY <1>3 DEF Held, VersionOf
<1>5. Held \in [Devices -> [Ids -> Times]] /\ Held' \in [Devices -> [Ids -> Times]]
  BY VersionFacts DEF Held, TypeOK, VersionOf
<1>6. CASE Held'[d][j] = Held[d][j]
  <2>1. Held' = Held
    BY <1>4, <1>5, <1>6
  <2>2. QED
    BY <1>2, <2>1
<1>7. CASE Held'[d][j] # Held[d][j]
  <2>1. j \in plain
    BY <1>7 DEF Held, VersionOf
  <2>2. store'[d][j] # store[d][j]
    BY <1>7 DEF Held, VersionOf
  <2>3. store'[d][j] # NoRow /\ store'[d][j].ver = clock + 1
    <3>1. store'[d][j] # NoRow
      BY <2>2, WrittenRow DEF Versions, NowhereYet
    <3>2. QED
      BY <2>1, <2>2, <3>1, WrittenVersion DEF Versions
  <2>4. Held'[d][j] = clock + 1
    BY <2>1, <2>3 DEF Held, VersionOf
  <2>5. clock + 1 \in Times
    BY <1>5, <2>4
  <2>6. \A u \in Register!Anywhere(j) : clock + 1 > u
    <3>1. clock \in Nat
      BY TimesAreNaturals DEF TypeOK
    <3>2. \A u \in Register!Anywhere(j) : u \in Nat /\ u <= clock
      BY <2>1, VersionsInThePast
    <3>3. QED
      BY <3>1, <3>2
  <2>7. Held' = [Held EXCEPT ![d][j] = clock + 1]
    BY <1>4, <1>5, <2>4
  <2>8. QED
    BY <1>2, <2>5, <2>6, <2>7 DEF Register!Write
<1>8. QED
  BY <1>6, <1>7

\* What a step of the sync takes along is a copy of what there is.
LEMMA StepsCarry ==
  ASSUME TypeOK, TypeOK', plain' = plain,
         NEW d \in Devices, Step(d) \/ StepFails(d) \/ Abort(d)
  PROVE  \A i \in Ids : Moving'[i] \subseteq Register!Anywhere(i)
<1> SUFFICES ASSUME NEW i \in Ids, NEW v \in Moving'[i] PROVE v \in Register!Anywhere(i)
  OBVIOUS
<1>1. PICK row \in UnderWay(i)' : v # 0 /\ v = VersionOf(i, row)
  BY DEF Moving, VersionOf
<1>2. IsRowOf(i, row)'
  <2>1. \E q \in Devices : row \in {outgoing'[q][i], sent'[q][i], incoming'[q][i]}
    BY <1>1 DEF UnderWay
  <2>2. QED
    BY <2>1 DEF IsRowOf
<1>3. IsRowOf(i, row)
  BY <1>2, RowsMove
<1>4. QED
  BY <1>1, <1>3, VersionsAnywhere

\* A row that takes the place of another that it covers is newer, or the same.
LEMMA NewerVersion ==
  ASSUME TypeOK, NEW i \in Ids, NEW a \in Rows, NEW b \in Rows,
         i \in plain => Dated(i, a) /\ Dated(i, b), b # NoRow => Covers(a, b),
         a = b \/ a \in UnderWay(i)
  PROVE  Register!Newer(i, VersionOf(i, b), VersionOf(i, a))
<1>1. VersionOf(i, a) >= VersionOf(i, b)
  <2>1. CASE i \in plain /\ b # NoRow
    <3>1. a # NoRow /\ a.ver >= b.ver
      BY <2>1, NewerContent DEF Covers
    <3>2. QED
      BY <2>1, <3>1 DEF VersionOf
  <2>2. CASE ~(i \in plain /\ b # NoRow)
    <3>1. VersionOf(i, b) = 0
      BY <2>2 DEF VersionOf
    <3>2. VersionOf(i, a) \in Nat
      BY VersionFacts, TimesAreNaturals
    <3>3. QED
      BY <3>1, <3>2
  <2>3. QED
    BY <2>1, <2>2
<1>2. VersionOf(i, a) \in Nat /\ VersionOf(i, b) \in Nat
  BY VersionFacts, TimesAreNaturals
<1>3. CASE VersionOf(i, a) = VersionOf(i, b)
  BY <1>3 DEF Register!Newer
<1>4. CASE VersionOf(i, a) # VersionOf(i, b)
  <2>1. VersionOf(i, a) > VersionOf(i, b) /\ VersionOf(i, a) # 0 /\ a \in UnderWay(i)
    BY <1>1, <1>2, <1>4
  <2>2. VersionOf(i, a) \in Moving[i]
    BY <2>1, VersionFacts
  <2>3. QED
    BY <2>1, <2>2 DEF Register!Newer
<1>5. QED
  BY <1>3, <1>4

LEMMA MergesDeliver ==
  ASSUME TypeOK, TypeOK', Versions, plain' = plain, NEW d \in Devices, Merge(d)
  PROVE  Register!Deliver(d)
<1>1. /\ \A e \in Devices \ {d} : store'[e] = store[e] /\ incoming'[e] = incoming[e]
      /\ incoming'[d] = Nothing /\ UNCHANGED <<wh, sent, outgoing>>
  BY MergedRun DEF warehouse, transaction
<1>2. ASSUME NEW i \in Ids PROVE Register!Newer(i, Held[d][i], Held'[d][i])
  <2>1. /\ store[d][i] \in Rows /\ store'[d][i] \in Rows /\ incoming[d][i] \in Rows
    BY DEF TypeOK
  <2>2. Held[d][i] = VersionOf(i, store[d][i]) /\ Held'[d][i] = VersionOf(i, store'[d][i])
    BY VersionKept DEF Held
  <2>3. i \in plain => Dated(i, store[d][i]) /\ Dated(i, incoming[d][i])
    BY <2>1 DEF Versions, AllDated, IsRowOf
  <2>4. CASE store'[d][i] = store[d][i]
    BY <2>2, <2>4 DEF Register!Newer
  <2>5. CASE store'[d][i] # store[d][i]
    <3>1. store'[d][i] = incoming[d][i] /\ Accepted(i, incoming[d][i], store[d][i])
      BY <2>5, MergedRow
    <3>2. store[d][i] # NoRow => Covers(incoming[d][i], store[d][i])
      BY <2>1, <3>1, GuardOrder
    <3>3. incoming[d][i] \in UnderWay(i)
      BY UnderWayFacts
    <3>4. QED
      BY <2>1, <2>2, <2>3, <3>1, <3>2, <3>3, NewerVersion
  <2>6. QED
    BY <2>4, <2>5
<1>3. ASSUME NEW e \in Devices \ {d} PROVE Held'[e] = Held[e]
  BY <1>1, <1>3 DEF Held, VersionOf
<1>4. ASSUME NEW i \in Ids PROVE Moving'[i] \subseteq Moving[i]
  <2>1. \A row \in UnderWay(i)' : row \in UnderWay(i) \/ row = NoRow
    BY <1>1 DEF UnderWay, Nothing
  <2>2. QED
    BY <2>1 DEF Moving, VersionOf
<1>5. Shared' = Shared
  BY <1>1 DEF Shared, VersionOf
<1>6. QED
  BY <1>2, <1>3, <1>4, <1>5 DEF Register!Deliver, Register!Arrived

LEMMA CommitsPublish ==
  ASSUME TypeOK, TypeOK', Versions, SentIsNewer, plain' = plain,
         NEW d \in Devices, Commit(d)
  PROVE  Register!Publish
<1>1. UNCHANGED <<store, outgoing, incoming>> /\ wh' = Seen(d)
  BY DEF Commit, local, run
<1>2. ASSUME NEW i \in Ids PROVE Register!Newer(i, Shared[i], Shared'[i])
  <2>1. wh[i] \in Rows /\ wh'[i] \in Rows /\ sent[d][i] \in Rows
    BY DEF TypeOK
  <2>2. Shared[i] = VersionOf(i, wh[i]) /\ Shared'[i] = VersionOf(i, wh'[i])
    BY VersionKept DEF Shared
  <2>3. i \in plain => Dated(i, wh[i]) /\ Dated(i, sent[d][i])
    BY <2>1 DEF Versions, AllDated, IsRowOf
  <2>4. wh'[i] = wh[i] \/ wh'[i] = sent[d][i]
    BY <1>1 DEF Seen
  <2>5. wh[i] # NoRow => Covers(wh'[i], wh[i])
    BY <1>1, SeenIsNewer
  <2>6. wh'[i] = wh[i] \/ wh'[i] \in UnderWay(i)
    BY <2>4, UnderWayFacts
  <2>7. QED
    BY <2>1, <2>2, <2>3, <2>4, <2>5, <2>6, NewerVersion
<1>3. ASSUME NEW i \in Ids PROVE Moving'[i] \subseteq Moving[i]
  <2>1. \A q \in Devices : sent'[q][i] \in {sent[q][i], NoRow}
    BY EndedTransaction
  <2>2. \A row \in UnderWay(i)' : row \in UnderWay(i) \/ row = NoRow
    BY <1>1, <2>1 DEF UnderWay
  <2>3. QED
    BY <2>2 DEF Moving, VersionOf
<1>4. Held' = Held
  BY <1>1 DEF Held, VersionOf
<1>5. QED
  BY <1>2, <1>3, <1>4 DEF Register!Publish, Register!Arrived

LEMMA StepsOfTheRegister ==
  ASSUME TypeOK, TypeOK', Versions, SentIsNewer, [Next]_vars
  PROVE  Register!Next \/ UNCHANGED <<Held, Shared, Moving>>
<1>0. plain' = plain /\ table' = table
  BY DEF Next, vars, fixed
<1>1. ASSUME NEW d \in Devices, NEW j \in Ids, Write(d, j)
      PROVE  Register!Next \/ UNCHANGED <<Held, Shared, Moving>>
  BY <1>0, <1>1, WritesMakeVersions DEF Register!Next
<1>2. ASSUME NEW d \in Devices, Merge(d) PROVE Register!Next
  BY <1>0, <1>2, MergesDeliver DEF Register!Next
<1>3. ASSUME NEW d \in Devices, Commit(d) PROVE Register!Next
  BY <1>0, <1>3, CommitsPublish DEF Register!Next
<1>4. ASSUME NEW d \in Devices, Step(d) \/ StepFails(d) \/ Abort(d), ~Merge(d), ~Commit(d)
      PROVE  Register!Next
  <2>1. UNCHANGED <<store, wh>>
    BY <1>4 DEF Step, StartRun, Select, Push, Probe, Pull, KeepPullMark, KeepPushMark,
                StepFails, Abort, local, warehouse
  <2>2. UNCHANGED <<Held, Shared>>
    BY <1>0, <2>1 DEF Held, Shared, VersionOf
  <2>3. Register!Carry
    BY <1>0, <1>4, <2>2, StepsCarry DEF Register!Carry
  <2>4. QED
    BY <2>3 DEF Register!Next
<1>5. CASE UNCHANGED vars
  BY <1>5 DEF vars, fixed, local, warehouse, transaction, run, Held, Shared, Moving,
              UnderWay, VersionOf
<1>6. QED
  BY <1>1, <1>2, <1>3, <1>4, <1>5 DEF Next

\* The exchange of a table between any devices, with runs that overlap, fail and die
\* anywhere, is a register of which the last writer wins: for the rows whose every
\* edit stamps them, only writers make versions, and each store and the warehouse
\* give one up for a newer one only.
THEOREM SyncImplementsRegister == Spec => ImplementsRegister
<1>1. Init => Register!Init
  <2> SUFFICES ASSUME Init PROVE Register!Init
    OBVIOUS
  <2>1. \A i \in Ids : VersionOf(i, NoRow) = 0
    BY DEF VersionOf
  <2>2. /\ \A d \in Devices, i \in Ids : store[d][i] = NoRow
        /\ \A i \in Ids : wh[i] = NoRow
    BY DEF Init, Nothing
  <2>3. \A i \in Ids : \A row \in UnderWay(i) : row = NoRow
    BY DEF Init, Nothing, UnderWay
  <2>4. QED
    BY <2>1, <2>2, <2>3 DEF Register!Init, Held, Shared, Moving
<1>2. Init => PushFacts /\ Versions
  BY StartFacts, VersionsAtFirst DEF PullFacts, PushFacts
<1>3. TypeOK /\ TypeOK' /\ PushFacts /\ Versions /\ [Next]_vars => (PushFacts /\ Versions)'
  BY PushFactsKept, VersionsKept
<1>4. TypeOK /\ TypeOK' /\ PushFacts /\ Versions /\ [Next]_vars
        => [Register!Next]_<<Held, Shared, Moving>>
  BY StepsOfTheRegister DEF PushFacts
<1>5. QED
  BY <1>1, <1>2, <1>3, <1>4, TypeCorrect, PTL
     DEF Spec, ImplementsRegister, Register!Spec, Register!vars

\* Whatever travels or is in the warehouse, some device's store holds a version as new.
NewestStored ==
  \A i \in Ids : \A v \in Register!Anywhere(i) :
    v = 0 \/ \E d \in Devices : v <= Held[d][i]

LEMMA HeldType ==
  ASSUME TypeOK
  PROVE  /\ Held \in [Devices -> [Ids -> Nat]]
         /\ \A i \in Ids : \A v \in Register!Anywhere(i) : v \in Nat
<1>1. \A i \in Ids, row \in Rows : VersionOf(i, row) \in Nat
  BY VersionFacts, TimesAreNaturals
<1>2. Held \in [Devices -> [Ids -> Nat]]
  BY <1>1 DEF Held, TypeOK
<1>3. ASSUME NEW i \in Ids, NEW v \in Register!Anywhere(i) PROVE v \in Nat
  <2>1. CASE v = 0
    BY <2>1
  <2>2. CASE v # 0
    BY <1>1, <2>2, VersionsAnywhere
  <2>3. QED
    BY <2>1, <2>2
<1>4. QED
  BY <1>2, <1>3

\* A register of which the last writer wins keeps the newest version in a store.
LEMMA RegisterKeepsNewest ==
  ASSUME Held \in [Devices -> [Ids -> Nat]], Held' \in [Devices -> [Ids -> Nat]],
         \A i \in Ids : \A v \in Register!Anywhere(i) : v \in Nat,
         NewestStored, Register!Next
  PROVE  NewestStored'
<1> SUFFICES ASSUME NEW i \in Ids, NEW v \in Register!Anywhere(i)'
             PROVE  v = 0 \/ \E d \in Devices : v <= Held'[d][i]
  BY DEF NewestStored
<1>1. \A d \in Devices : Held[d][i] <= Held'[d][i]
  <2> SUFFICES ASSUME NEW d \in Devices PROVE Held[d][i] <= Held'[d][i]
    OBVIOUS
  <2>1. Held[d][i] \in Nat /\ Held'[d][i] \in Nat /\ Held[d][i] \in Register!Anywhere(i)
    BY DEF Register!Anywhere
  <2>2. CASE Register!Carry \/ Register!Publish
    BY <2>1, <2>2 DEF Register!Carry, Register!Publish
  <2>3. ASSUME NEW e \in Devices, Register!Deliver(e) PROVE Held[d][i] <= Held'[d][i]
    <3>1. CASE d = e
      BY <2>1, <2>3, <3>1 DEF Register!Deliver, Register!Newer
    <3>2. CASE d # e
      BY <2>1, <2>3, <3>2 DEF Register!Deliver
    <3>3. QED
      BY <3>1, <3>2
  <2>4. ASSUME NEW e \in Devices, NEW k \in Ids, Register!Write(e, k)
        PROVE  Held[d][i] <= Held'[d][i]
    <3>1. PICK u \in Times : /\ \A x \in Register!Anywhere(k) : u > x
                             /\ Held' = [Held EXCEPT ![e][k] = u]
      BY <2>4 DEF Register!Write
    <3>2. CASE e = d /\ k = i
      BY <2>1, <3>1, <3>2
    <3>3. CASE ~(e = d /\ k = i)
      BY <2>1, <3>1, <3>3
    <3>4. QED
      BY <3>2, <3>3
  <2>5. QED
    BY <2>2, <2>3, <2>4 DEF Register!Next
<1>2. \/ \E d \in Devices : v = Held'[d][i]
      \/ v \in Register!Anywhere(i)
  <2>1. (\E d \in Devices : v = Held'[d][i]) \/ v = Shared'[i] \/ v \in Moving'[i]
    BY DEF Register!Anywhere
  <2>2. ASSUME v \in Moving'[i] PROVE v \in Register!Anywhere(i)
    <3>1. Moving'[i] \subseteq Register!Anywhere(i)
      BY DEF Register!Next, Register!Carry, Register!Publish, Register!Deliver,
             Register!Write, Register!Arrived, Register!Anywhere
    <3>2. QED
      BY <2>2, <3>1
  <2>3. ASSUME v = Shared'[i] PROVE v \in Register!Anywhere(i)
    <3>1. Shared'[i] = Shared[i] \/ Shared'[i] \in Moving[i]
      BY DEF Register!Next, Register!Carry, Register!Publish, Register!Deliver,
             Register!Write, Register!Newer
    <3>2. QED
      BY <2>3, <3>1 DEF Register!Anywhere
  <2>4. QED
    BY <2>1, <2>2, <2>3
<1>3. CASE \E d \in Devices : v = Held'[d][i]
  <2>1. PICK d \in Devices : v = Held'[d][i]
    BY <1>3
  <2>2. v <= Held'[d][i]
    BY <2>1
  <2>3. QED
    BY <2>2
<1>4. CASE v \in Register!Anywhere(i)
  <2>1. v \in Nat /\ (v = 0 \/ \E d \in Devices : v <= Held[d][i])
    BY <1>4 DEF NewestStored
  <2>2. CASE v = 0
    BY <2>2
  <2>3. CASE v # 0
    <3>1. PICK d \in Devices : v <= Held[d][i]
      BY <2>1, <2>3
    <3>2. Held[d][i] \in Nat /\ Held'[d][i] \in Nat /\ Held[d][i] <= Held'[d][i]
      BY <1>1
    <3>3. v <= Held'[d][i]
      BY <2>1, <3>1, <3>2
    <3>4. QED
      BY <3>3
  <2>4. QED
    BY <2>2, <2>3
<1>5. QED
  BY <1>2, <1>3, <1>4

LEMMA NewestIsStored == Spec => []NewestStored
<1>1. ASSUME Init PROVE NewestStored
  <2>1. /\ \A d \in Devices, i \in Ids : store[d][i] = NoRow
        /\ \A i \in Ids : wh[i] = NoRow
    BY <1>1 DEF Init, Nothing
  <2>2. \A i \in Ids : \A row \in UnderWay(i) : row = NoRow
    BY <1>1 DEF Init, Nothing, UnderWay
  <2>3. \A i \in Ids : \A v \in Register!Anywhere(i) : v = 0
    BY <2>1, <2>2 DEF Register!Anywhere, Held, Shared, Moving, VersionOf
  <2>4. QED
    BY <2>3 DEF NewestStored
<1>2. TypeOK /\ TypeOK' /\ NewestStored /\ [Register!Next]_<<Held, Shared, Moving>>
        => NewestStored'
  <2>1. ASSUME TypeOK, TypeOK', NewestStored, Register!Next PROVE NewestStored'
    <3>1. Held' \in [Devices -> [Ids -> Nat]]
      <4>1. ASSUME NEW d \in Devices, NEW i \in Ids
            PROVE  VersionOf(i, store[d][i])' \in Nat
        <5>1. store'[d][i] \in Rows
          BY <2>1 DEF TypeOK
        <5>2. QED
          BY <5>1, RowFacts, TimesAreNaturals DEF VersionOf
      <4>2. QED
        BY <4>1 DEF Held
    <3>2. QED
      BY <2>1, <3>1, HeldType, RegisterKeepsNewest
  <2>2. ASSUME NewestStored, UNCHANGED <<Held, Shared, Moving>> PROVE NewestStored'
    BY <2>2 DEF NewestStored, Register!Anywhere
  <2>3. QED
    BY <2>1, <2>2
<1>3. Spec => [][Register!Next]_<<Held, Shared, Moving>>
  BY SyncImplementsRegister DEF ImplementsRegister, Register!Spec, Register!vars
<1>4. QED
  BY <1>1, <1>2, <1>3, TypeCorrect, PTL DEF Spec

LEMMA SameRow ==
  ASSUME NEW a \in Row, NEW b \in Row, a.ts = b.ts, a.ver = b.ver PROVE a = b
BY DEF Row

\* A device both of whose watermarks have passed everything holds what the
\* warehouse holds.
LEMMA AsInWarehouse ==
  ASSUME TypeOK, Versions, NothingUnsent, NothingUnpulled, PullsByArrival, Settled,
         NEW d \in Devices, NEW i \in plain
  PROVE  store[d][i] = wh[i]
<1>0. /\ i \in Ids /\ store[d][i] \in Rows /\ wh[i] \in Rows
      /\ Dated(i, store[d][i]) /\ Dated(i, wh[i])
  BY DEF TypeOK, Versions, AllDated, IsRowOf
<1>1. store[d][i] # NoRow => Covers(wh[i], store[d][i])
  BY <1>0 DEF Settled, NothingUnsent, Delivered
<1>2. wh[i] # NoRow => Covers(store[d][i], wh[i])
  BY <1>0 DEF Settled, NothingUnpulled
<1>3. CASE store[d][i] = NoRow
  BY <1>2, <1>3 DEF Covers
<1>4. CASE store[d][i] # NoRow
  <2>1. wh[i] # NoRow
    BY <1>1, <1>4 DEF Covers
  <2>2. /\ store[d][i] \in Row /\ wh[i] \in Row
        /\ store[d][i].ts \in Nat /\ wh[i].ts \in Nat
    BY <1>0, <1>4, <2>1, RowFacts, TimesAreNaturals
  <2>3. store[d][i].ts = wh[i].ts
    BY <1>0, <1>1, <1>2, <1>4, <2>1, <2>2 DEF Covers, Dated
  <2>4. store[d][i].ver = wh[i].ver
    BY <1>0, <1>4, <2>1, <2>3 DEF Dated, Stamp
  <2>5. QED
    BY <2>2, <2>3, <2>4, SameRow
<1>5. QED
  BY <1>3, <1>4

\* When nothing is left to exchange, all devices hold the same edges and tasks, and
\* the same versions of the memories whose every edit stamps them, and these are the
\* newest there are, provided none is written by "system".
THEOREM AgreeWhenSettled ==
  ASSUME \A i \in Ids : AgentOf[i] # "system"
  PROVE  Spec => []SettledAgree
<1>1. TypeOK /\ TypeOK' /\ Versions /\ [Next]_vars => Versions'
  BY VersionsKept
<1>2. TypeOK /\ Versions /\ NothingUnsent /\ NothingUnpulled /\ NewestStored
        => SettledAgree
  <2> SUFFICES ASSUME TypeOK, Versions, NothingUnsent, NothingUnpulled, PullsByArrival,
                      Settled, NewestStored, NEW d \in Devices, NEW i \in plain
               PROVE  /\ \A e \in Devices : store[d][i] = store[e][i]
                      /\ \A v \in Register!Anywhere(i) : v <= Held[d][i]
    BY DEF SettledAgree
  <2>1. \A e \in Devices : store[d][i] = store[e][i]
    BY AsInWarehouse
  <2>2. \A e \in Devices : Held[d][i] = Held[e][i] /\ Held[d][i] \in Nat
    <3>1. i \in Ids
      BY DEF TypeOK
    <3>2. \A e \in Devices : Held[e][i] = VersionOf(i, store[e][i])
      BY <3>1, VersionFacts
    <3>3. Held[d][i] \in Nat
      BY <3>1, HeldType
    <3>4. QED
      BY <2>1, <3>2, <3>3
  <2>3. ASSUME NEW v \in Register!Anywhere(i) PROVE v <= Held[d][i]
    <3>1. v \in Nat
      BY VersionsInThePast
    <3>2. v = 0 \/ \E e \in Devices : v <= Held[e][i]
      BY DEF NewestStored, TypeOK
    <3>3. QED
      BY <2>2, <3>1, <3>2
  <2>4. QED
    BY <2>1, <2>3
<1>3. Spec => []NothingUnsent
  BY PushLeavesNothing
<1>4. Spec => []NothingUnpulled
  BY PullSkipsNothing
<1>5. QED
  BY <1>1, <1>2, <1>3, <1>4, NewestIsStored, VersionsAtFirst, TypeCorrect, PTL DEF Spec
=============================================================================
