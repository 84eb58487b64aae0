----------------------------- MODULE HaltProofs -----------------------------
(***************************************************************************)
(* What holds of HaltProtocol for any loops, servers and installers: the   *)
(* types, that a halt that is still up keeps every loop it can see out of  *)
(* its passes once its installer has seen no writer, and that what runs    *)
(* beside such an installer is new.                                        *)
(***************************************************************************)
EXTENDS HaltProtocol, TLAPS

(* A loop that could run a pass has its entry, or lost it to a reader or a  *)
(* full disk: it registers before it looks at the halt, and deregisters     *)
(* only to pause.                                                           *)
Signed ==
  \A l \in Loops : pc[l] \in Registered => l \in registry \union unlisted

(* A writer the installer has read in this look and not found. *)
Cleared(i, p) == Halts(i) /\ p \notin left[i] /\ p \notin found[i]

(* While the halt is up a loop that was cleared does not get to a pass,     *)
(* unless neither the registry nor the scan could show it.                  *)
Quiet ==
  \A i \in Installers, l \in Loops :
    halt = i /\ Cleared(i, l) /\ pc[l] \in InPass => l \in unlisted \ readable

New ==
  \A i \in Installers, p \in readable :
    Cleared(i, p) /\ Running(p) => p \in newcomers[i]

(* An installer that installs has read everybody and found nobody. *)
Looked ==
  \A i \in Installers : At(i, "install") => left[i] = {} /\ found[i] = {}

IInv == TypeOK /\ Signed /\ Quiet /\ New /\ Looked

-----------------------------------------------------------------------------

LEMMA InitInv == Init => IInv
<1> SUFFICES ASSUME Init PROVE IInv
  OBVIOUS
<1>1. TypeOK
  BY ConstantsOK DEF Init, TypeOK, Places, Steps, Waiting
<1>2. \A l \in Loops : pc[l] = "off"
  BY DEF Init, Writers
<1>3. Signed /\ Quiet
  BY <1>2 DEF Signed, Quiet, Registered, InPass
<1>4. New /\ Looked
  BY DEF Init, New, Looked, Cleared, Halts, Waiting, At
<1>5. QED
  BY <1>1, <1>3, <1>4 DEF IInv

\* A step only loops take.
LoopMoves(p) ==
  \/ SeesHalt(p) \/ SeesNone(p)
  \/ FindsStale(p) \/ Voids(p) \/ OpensStore(p) \/ EndsPass(p) \/ Pauses(p)
  \/ SeesLowered(p)

\* A step of any writer, or of a reader with a writer's entry.
AnyMoves(p) ==
  \/ Starts(p) \/ SignsUp(p) \/ Registers(p) \/ Ends(p) \/ Lists(p) \/ Reaps(p)

InstallerMoves(i) ==
  \/ FindsNobody(i) \/ FindsWriters(i) \/ InstallerStep(i) \/ Polls(i)
  \/ TimesOut(i) \/ WaitsMore(i) \/ Answers(i) \/ Crashes(i)

LEMMA StepCases ==
  ASSUME Next
  PROVE  \/ \E p \in Writers : AnyMoves(p)
         \/ \E l \in Loops : LoopMoves(l)
         \/ \E i \in Installers : InstallerMoves(i)
BY DEF Next, LoopStep, AnyMoves, LoopMoves, InstallerMoves, Writers

-----------------------------------------------------------------------------
(* Types. *)

LEMMA TypeWriters ==
  ASSUME TypeOK, NEW p \in Writers,
         AnyMoves(p) \/ (p \in Loops /\ LoopMoves(p))
  PROVE  TypeOK'
<1> USE DEF TypeOK, GoesTo, Deregisters, halting, entries, looking
<1>1. CASE Starts(p)
  <2>1. starts + 1 \in 0..MaxStarts
    BY <1>1, ConstantsOK DEF Starts
  <2>2. pc' \in [Writers -> Places] /\ \A q \in Writers : pc[q] # "off" => pc'[q] # "off"
    BY <1>1 DEF Starts, Places
  <2>3. newcomers' \in [Installers -> SUBSET Writers]
    BY <1>1 DEF Starts
  <2>4. QED
    BY <1>1, <2>1, <2>2, <2>3 DEF Starts
<1>2. CASE SignsUp(p)
  BY <1>2 DEF SignsUp, Places, Registered
<1>3. CASE Ends(p)
  BY <1>3 DEF Ends, Places
<1>4. CASE SeesHalt(p)
  BY <1>4 DEF SeesHalt, Places, Registered
<1>5. CASE SeesNone(p)
  BY <1>5 DEF SeesNone, Places, Registered
<1>6. CASE p \in Loops /\ FindsStale(p)
  BY <1>6 DEF FindsStale, writing
<1>7. CASE Voids(p)
  BY <1>7 DEF Voids, Places, Registered
<1>8. CASE OpensStore(p)
  BY <1>8 DEF OpensStore, Places, Registered
<1>9. CASE EndsPass(p)
  BY <1>9 DEF EndsPass, Places, Registered
<1>10. CASE Pauses(p)
  BY <1>10 DEF Pauses, Places
<1>11. CASE SeesLowered(p)
  BY <1>11 DEF SeesLowered, Places
<1>12. CASE Registers(p)
  <2>1. pc' \in [Writers -> Places] /\ \A q \in Writers : pc[q] # "off" => pc'[q] # "off"
    BY <1>12 DEF Registers, Places, Registered
  <2>2. /\ registry' \subseteq registry \union {p} /\ unlisted' \subseteq unlisted \union {p}
        /\ pc'[p] # "off"
    BY <1>12 DEF Registers, Writes
  <2>3. QED
    BY <1>12, <2>1, <2>2 DEF Registers
<1>13. CASE Lists(p)
  BY <1>13 DEF Lists, Dooms, HalfWritten
<1>14. CASE Reaps(p)
  BY <1>14 DEF Reaps
<1>15. QED
  BY <1>1, <1>2, <1>3, <1>4, <1>5, <1>6, <1>7, <1>8, <1>9, <1>10, <1>11, <1>12,
     <1>13, <1>14 DEF AnyMoves, LoopMoves

LEMMA TypeInstallers ==
  ASSUME TypeOK, NEW i \in Installers, InstallerMoves(i)
  PROVE  TypeOK'
<1> USE DEF TypeOK, MovesTo, LooksAfresh, Forgets, Dooms, HalfWritten, halting, entries,
            writing, looking
<1>1. CASE FindsNobody(i)
  BY <1>1 DEF FindsNobody, Steps
<1>2. CASE FindsWriters(i)
  BY <1>2 DEF FindsWriters, Steps
<1>3. ASSUME NEW p \in Writers, Reads(i, p) PROVE TypeOK'
  BY <1>3 DEF Reads
<1>4. CASE RaisesHalt(i)
  BY <1>4 DEF RaisesHalt, Steps, Waiting
<1>5. CASE Quiesced(i)
  BY <1>5 DEF Quiesced, Steps
<1>6. CASE Lowers(i)
  BY <1>6 DEF Lowers, Steps
<1>7. CASE Leaves(i)
  BY <1>7 DEF Leaves, Steps
<1>8. CASE Polls(i)
  BY <1>8 DEF Polls
<1>9. CASE TimesOut(i)
  BY <1>9 DEF TimesOut, Steps, Waiting
<1>10. CASE WaitsMore(i)
  BY <1>10 DEF WaitsMore, Steps, Waiting
<1>11. CASE KillsStuck(i)
  BY <1>11 DEF KillsStuck, Steps, Waiting
<1>12. CASE GivesUp(i)
  BY <1>12 DEF GivesUp, Steps
<1>13. CASE Crashes(i)
  BY <1>13 DEF Crashes, Steps
<1>14. QED
  BY <1>1, <1>2, <1>3, <1>4, <1>5, <1>6, <1>7, <1>8, <1>9, <1>10, <1>11, <1>12,
     <1>13 DEF InstallerMoves, InstallerStep, Answers

-----------------------------------------------------------------------------
(* Entries. *)

LEMMA SignedStep ==
  ASSUME TypeOK, Signed, [Next]_vars
  PROVE  Signed'
<1> USE DEF TypeOK, Signed, GoesTo, Deregisters, Registered, entries
<1>1. ASSUME NEW p \in Writers, AnyMoves(p) \/ LoopMoves(p)
      PROVE  Signed'
  <2>1. CASE Starts(p)
    BY <2>1 DEF Starts
  <2>2. CASE SignsUp(p)
    BY <2>2 DEF SignsUp
  <2>3. CASE Ends(p)
    BY <2>3 DEF Ends
  <2>4. CASE SeesHalt(p) \/ SeesNone(p) \/ OpensStore(p) \/ EndsPass(p)
    <3>1. /\ pc[p] \in Registered /\ registry' = registry /\ unlisted' = unlisted
          /\ \A q \in Writers : q # p => pc'[q] = pc[q]
      BY <2>4 DEF SeesHalt, SeesNone, OpensStore, EndsPass
    <3>2. QED
      BY <3>1 DEF Writers
  <2>5. CASE FindsStale(p)
    BY <2>5 DEF FindsStale, writing
  <2>6. CASE Voids(p)
    BY <2>6 DEF Voids
  <2>7. CASE Pauses(p)
    BY <2>7 DEF Pauses
  <2>8. CASE SeesLowered(p)
    BY <2>8 DEF SeesLowered
  <2>9. CASE Registers(p)
    <3>1. /\ p \in registry' \union unlisted'
          /\ registry \subseteq registry' /\ unlisted \subseteq unlisted'
      BY <2>9 DEF Registers, Writes
    <3>2. \A q \in Writers : q # p => pc'[q] = pc[q]
      BY <2>9 DEF Registers
    <3>3. QED
      BY <3>1, <3>2 DEF Writers
  <2>10. CASE Lists(p) \/ Reaps(p)
    BY <2>10 DEF Lists, Reaps
  <2>11. QED
    BY <1>1, <2>1, <2>2, <2>3, <2>4, <2>5, <2>6, <2>7, <2>8, <2>9, <2>10
       DEF AnyMoves, LoopMoves
<1>2. ASSUME NEW i \in Installers, InstallerMoves(i) PROVE Signed'
  <2>1. UNCHANGED <<pc, registry, unlisted>>
    BY <1>2 DEF InstallerMoves, InstallerStep, Answers, FindsNobody,
       FindsWriters, Reads, RaisesHalt, Quiesced, Lowers, Leaves, Polls,
       TimesOut, WaitsMore, KillsStuck, GivesUp, Crashes, writing
  <2>2. QED
    BY <2>1
<1>3. CASE UNCHANGED vars
  BY <1>3 DEF vars, writing
<1>4. QED
  BY <1>1, <1>2, <1>3, StepCases DEF Writers

-----------------------------------------------------------------------------
(* The halt. *)

\* A step of a writer: no installer moves, and a writer that starts is new to
\* those that have raised the halt.
WriterEffect(p) ==
  /\ UNCHANGED <<readable, step, left, found>>
  /\ \A q \in Writers : q # p => pc'[q] = pc[q]
  /\ \/ newcomers' = newcomers /\ (pc[p] # "off" \/ pc'[p] = "off")
     \/ \A i \in Installers : newcomers'[i] =
          IF Halts(i) THEN newcomers[i] \union {p} ELSE newcomers[i]
  /\ halt' \in {halt, None}
  /\ \A q \in Writers : q \in unlisted /\ pc'[q] \in InPass => q \in unlisted'
  /\ pc'[p] \in InPass =>
       pc[p] \in InPass \/ halt' = None \/ (pc[p] = "top" /\ halt = None)

LEMMA WriterSteps ==
  ASSUME TypeOK, NEW p \in Writers, AnyMoves(p) \/ LoopMoves(p)
  PROVE  WriterEffect(p)
<1> USE DEF TypeOK, WriterEffect, GoesTo, InPass, looking, halting, entries
<1>1. CASE Starts(p)
  <2>1. UNCHANGED <<readable, step, left, found, halt, unlisted>>
    BY <1>1 DEF Starts
  <2>2. \A i \in Installers :
          newcomers'[i] = IF Halts(i) THEN newcomers[i] \union {p} ELSE newcomers[i]
    BY <1>1 DEF Starts
  <2>3. pc'[p] = "starting" /\ \A q \in Writers : q # p => pc'[q] = pc[q]
    BY <1>1 DEF Starts
  <2>4. QED
    BY <2>1, <2>2, <2>3
<1>2. CASE SignsUp(p)
  <2>1. UNCHANGED <<readable, step, left, found, newcomers, halt, unlisted>>
    BY <1>2 DEF SignsUp
  <2>2. pc[p] \in {"starting", "resuming"} /\ pc'[p] = "signing"
    BY <1>2 DEF SignsUp
  <2>3. \A q \in Writers : q # p => pc'[q] = pc[q]
    BY <1>2 DEF SignsUp
  <2>4. QED
    BY <2>1, <2>2, <2>3
<1>3. CASE Ends(p)
  BY <1>3 DEF Ends
<1>4. CASE SeesHalt(p)
  BY <1>4 DEF SeesHalt
<1>5. CASE SeesNone(p)
  BY <1>5 DEF SeesNone, Down
<1>6. CASE FindsStale(p)
  BY <1>6 DEF FindsStale, writing
<1>7. CASE Voids(p)
  <2>1. halt' = None /\ UNCHANGED <<readable, step, left, found, newcomers, unlisted>>
    BY <1>7 DEF Voids
  <2>2. /\ pc[p] \in {"top", "paused"}
        /\ pc' = [pc EXCEPT ![p] = IF pc[p] = "top" THEN "go" ELSE "resuming"]
    BY <1>7 DEF Voids
  <2>3. QED
    BY <2>1, <2>2
<1>8. CASE OpensStore(p)
  BY <1>8 DEF OpensStore
<1>9. CASE EndsPass(p)
  BY <1>9 DEF EndsPass
<1>10. CASE Pauses(p)
  BY <1>10 DEF Pauses
<1>11. CASE SeesLowered(p)
  BY <1>11 DEF SeesLowered
<1>12. CASE Registers(p)
  <2>1. UNCHANGED <<readable, step, left, found, newcomers, halt>>
    BY <1>12 DEF Registers
  <2>2. unlisted \subseteq unlisted'
    BY <1>12 DEF Registers, Writes
  <2>3. /\ pc[p] = "signing" /\ pc'[p] \in {"top", "serving"}
        /\ \A q \in Writers : q # p => pc'[q] = pc[q]
    BY <1>12 DEF Registers
  <2>4. QED
    BY <2>1, <2>2, <2>3
<1>13. CASE Lists(p) \/ Reaps(p)
  <2>1. UNCHANGED <<readable, step, left, found, newcomers, halt, pc>>
    BY <1>13 DEF Lists, Reaps
  <2>2. unlisted \subseteq unlisted'
    BY <1>13 DEF Lists, Reaps
  <2>3. QED
    BY <2>1, <2>2
<1>14. QED
  BY <1>1, <1>2, <1>3, <1>4, <1>5, <1>6, <1>7, <1>8, <1>9, <1>10, <1>11, <1>12,
     <1>13 DEF AnyMoves, LoopMoves

\* What the installers have cleared stays quiet while writers move: with the
\* halt up a loop gets no further than a look at it.
LEMMA QuietUnderWriters ==
  ASSUME TypeOK, Quiet, New, Looked, NEW p \in Writers, WriterEffect(p)
  PROVE  Quiet' /\ New' /\ Looked'
<1>1. \A i \in Installers, q \in Writers : Cleared(i, q)' <=> Cleared(i, q)
  BY DEF WriterEffect, Cleared, Halts
<1>2. Quiet'
  <2> SUFFICES ASSUME NEW i \in Installers, NEW l \in Loops,
                      halt' = i, Cleared(i, l)', pc'[l] \in InPass
               PROVE  l \in unlisted' \ readable'
    BY DEF Quiet
  <2>1. halt = i /\ i # None
    BY ConstantsOK DEF WriterEffect
  <2>2. Cleared(i, l)
    BY <1>1 DEF Writers
  <2>3. pc[l] \in InPass
    BY <2>1 DEF WriterEffect, Writers
  <2>4. l \in unlisted \ readable
    BY <2>1, <2>2, <2>3 DEF Quiet
  <2>5. QED
    BY <2>4 DEF WriterEffect, Writers
<1>3. New'
  <2> SUFFICES ASSUME NEW i \in Installers, NEW q \in readable,
                      Cleared(i, q)', pc'[q] # "off"
               PROVE  q \in newcomers'[i]
    BY DEF New, Running, WriterEffect
  <2>1. q \in Writers
    BY DEF TypeOK
  <2>2. Cleared(i, q) /\ Halts(i)
    BY <1>1, <2>1 DEF Cleared
  <2>3. CASE pc[q] # "off"
    BY <2>2, <2>3 DEF New, Running, WriterEffect
  <2>4. CASE pc[q] = "off"
    BY <2>1, <2>2, <2>4 DEF WriterEffect
  <2>5. QED
    BY <2>3, <2>4
<1>4. Looked'
  BY DEF Looked, At, WriterEffect
<1>5. QED
  BY <1>2, <1>3, <1>4

\* A step of one installer i: nobody starts, no other installer moves, the
\* halt is i's, gone, or as it was, and what i has newly cleared it has not
\* seen.
InstallerEffect(i) ==
  /\ UNCHANGED <<readable, pc, registry, unlisted>>
  /\ \A j \in Installers : j # i =>
       /\ step'[j] = step[j]
       /\ left'[j] = left[j] /\ found'[j] = found[j]
       /\ newcomers'[j] = newcomers[j]
  /\ halt' = halt \/ halt' = None \/ (halt' = i /\ left'[i] = Writers)
  /\ Halts(i)' => newcomers'[i] = newcomers[i]
  /\ \A p \in Writers : Cleared(i, p)' => Cleared(i, p) \/ ~Sees(p)
  /\ At(i, "install")' => left'[i] = {} /\ found'[i] = {}

LEMMA InstallerSteps ==
  ASSUME TypeOK, Looked, NEW i \in Installers, InstallerMoves(i)
  PROVE  InstallerEffect(i)
<1> DEFINE
      Frame == /\ UNCHANGED <<readable, pc, registry, unlisted>>
               /\ \A j \in Installers : j # i =>
                    /\ step'[j] = step[j]
                    /\ left'[j] = left[j] /\ found'[j] = found[j]
                    /\ newcomers'[j] = newcomers[j]
<1>1. Frame
  <2> USE DEF TypeOK, MovesTo, LooksAfresh, Forgets, entries, writing, looking
  <2>1. CASE FindsNobody(i)
    BY <2>1 DEF FindsNobody
  <2>2. CASE FindsWriters(i)
    BY <2>2 DEF FindsWriters
  <2>3. ASSUME NEW p \in Writers, Reads(i, p) PROVE Frame
    BY <2>3 DEF Reads
  <2>4. CASE RaisesHalt(i)
    BY <2>4 DEF RaisesHalt
  <2>5. CASE Quiesced(i)
    BY <2>5 DEF Quiesced
  <2>6. CASE Lowers(i)
    BY <2>6 DEF Lowers
  <2>7. CASE Leaves(i)
    BY <2>7 DEF Leaves
  <2>8. CASE Polls(i)
    BY <2>8 DEF Polls
  <2>9. CASE TimesOut(i)
    BY <2>9 DEF TimesOut
  <2>10. CASE WaitsMore(i)
    BY <2>10 DEF WaitsMore
  <2>11. CASE KillsStuck(i)
    BY <2>11 DEF KillsStuck
  <2>12. CASE GivesUp(i)
    BY <2>12 DEF GivesUp
  <2>13. CASE Crashes(i)
    BY <2>13 DEF Crashes
  <2>14. QED
    BY <2>1, <2>2, <2>3, <2>4, <2>5, <2>6, <2>7, <2>8, <2>9, <2>10, <2>11, <2>12, <2>13
       DEF InstallerMoves, InstallerStep, Answers
<1> DEFINE
      Own == /\ halt' = halt \/ halt' = None \/ (halt' = i /\ left'[i] = Writers)
             /\ Halts(i)' => newcomers'[i] = newcomers[i]
             /\ \A p \in Writers : Cleared(i, p)' => Cleared(i, p) \/ ~Sees(p)
             /\ At(i, "install")' => left'[i] = {} /\ found'[i] = {}
<1>2. Own
  <2> USE DEF TypeOK, MovesTo, LooksAfresh, Forgets, halting, writing, looking,
              Halts, Waiting, At, Cleared
  <2>1. CASE FindsNobody(i)
    <3>1. step'[i] = "bare"
      BY <2>1 DEF FindsNobody
    <3>2. halt' \in {halt, None}
      BY <2>1 DEF FindsNobody
    <3>3. QED
      BY <3>1, <3>2
  <2>2. CASE FindsWriters(i)
    <3>1. step'[i] = "raise"
      BY <2>2 DEF FindsWriters
    <3>2. halt' \in {halt, None}
      BY <2>2 DEF FindsWriters
    <3>3. QED
      BY <3>1, <3>2
  <2>3. ASSUME NEW p \in Writers, Reads(i, p) PROVE Own
    <3>1. left'[i] = left[i] \ {p} /\ newcomers' = newcomers /\ halt' = halt
      BY <2>3 DEF Reads
    <3>2. found'[i] = IF Sees(p) THEN found[i] \union {p} ELSE found[i]
      BY <2>3 DEF Reads
    <3>3. step'[i] = "wait" /\ step[i] = "wait"
      BY <2>3 DEF Reads
    <3>4. QED
      BY <3>1, <3>2, <3>3
  <2>4. CASE RaisesHalt(i)
    <3>1. step'[i] = "wait" /\ left'[i] = Writers
      BY <2>4 DEF RaisesHalt
    <3>2. newcomers' = newcomers /\ halt' \in {halt, i}
      BY <2>4 DEF RaisesHalt
    <3>3. QED
      BY <3>1, <3>2
  <2>5. CASE Quiesced(i)
    <3>1. step[i] = "wait" /\ step'[i] = "install"
      BY <2>5 DEF Quiesced
    <3>2. UNCHANGED <<newcomers, left, found, halt>>
      BY <2>5 DEF Quiesced
    <3>3. left[i] = {} /\ found[i] = {}
      BY <2>5 DEF Quiesced
    <3>4. QED
      BY <3>1, <3>2, <3>3
  <2>6. CASE Lowers(i)
    <3>1. step'[i] = "leave"
      BY <2>6 DEF Lowers
    <3>2. halt' \in {halt, None}
      BY <2>6 DEF Lowers
    <3>3. QED
      BY <3>1, <3>2
  <2>7. CASE Leaves(i)
    <3>1. step'[i] = "gone"
      BY <2>7 DEF Leaves
    <3>2. halt' \in {halt, None}
      BY <2>7 DEF Leaves
    <3>3. QED
      BY <3>1, <3>2
  <2>8. CASE Polls(i)
    <3>1. step'[i] = "wait" /\ left'[i] = Writers
      BY <2>8 DEF Polls
    <3>2. newcomers' = newcomers /\ halt' = halt
      BY <2>8 DEF Polls
    <3>3. QED
      BY <3>1, <3>2
  <2>9. CASE TimesOut(i)
    <3>1. step[i] = "wait" /\ step'[i] = "stuck"
      BY <2>9 DEF TimesOut
    <3>2. UNCHANGED <<newcomers, left, found, halt>>
      BY <2>9 DEF TimesOut
    <3>3. QED
      BY <3>1, <3>2
  <2>10. CASE WaitsMore(i)
    <3>1. step'[i] = "wait" /\ left'[i] = Writers
      BY <2>10 DEF WaitsMore
    <3>2. newcomers' = newcomers /\ halt' \in {halt, i}
      BY <2>10 DEF WaitsMore
    <3>3. QED
      BY <3>1, <3>2
  <2>11. CASE KillsStuck(i)
    <3>1. step'[i] = "wait" /\ left'[i] = Writers
      BY <2>11 DEF KillsStuck
    <3>2. newcomers' = newcomers /\ halt' \in {halt, i}
      BY <2>11 DEF KillsStuck
    <3>3. QED
      BY <3>1, <3>2
  <2>12. CASE GivesUp(i)
    <3>1. step'[i] = "leave"
      BY <2>12 DEF GivesUp
    <3>2. halt' \in {halt, None}
      BY <2>12 DEF GivesUp
    <3>3. QED
      BY <3>1, <3>2
  <2>13. CASE Crashes(i)
    <3>1. step'[i] = "gone"
      BY <2>13 DEF Crashes
    <3>2. halt' \in {halt, None}
      BY <2>13 DEF Crashes
    <3>3. QED
      BY <3>1, <3>2
  <2>14. QED
    BY <2>1, <2>2, <2>3, <2>4, <2>5, <2>6, <2>7, <2>8, <2>9, <2>10, <2>11, <2>12, <2>13
       DEF InstallerMoves, InstallerStep, Answers
<1>3. QED
  BY <1>1, <1>2 DEF InstallerEffect

\* A loop that is not seen runs no pass, or its entry is lost.
LEMMA QuietUnderInstallers ==
  ASSUME TypeOK, Signed, Quiet, New, Looked, NEW i \in Installers,
         InstallerEffect(i)
  PROVE  Quiet' /\ New' /\ Looked'
<1>1. \A j \in Installers, p \in Writers :
        j # i => (Cleared(j, p)' <=> Cleared(j, p))
  BY DEF InstallerEffect, Cleared, Halts
<1>2. Quiet'
  <2> SUFFICES ASSUME NEW j \in Installers, NEW l \in Loops,
                      halt' = j, Cleared(j, l)', pc[l] \in InPass
               PROVE  l \in unlisted \ readable
    BY DEF Quiet, InstallerEffect
  <2>1. l \in Writers /\ j # None
    BY ConstantsOK DEF Writers
  <2>2. halt = j
    BY <2>1 DEF InstallerEffect, Cleared
  <2>3. CASE Cleared(j, l)
    BY <2>2, <2>3 DEF Quiet
  <2>4. CASE ~Cleared(j, l)
    <3>1. j = i /\ ~Sees(l) /\ Running(l)
      BY <1>1, <2>1, <2>4 DEF InstallerEffect, InPass, Running
    <3>2. l \in registry \union unlisted
      BY DEF Signed, Registered, InPass
    <3>3. QED
      BY <3>1, <3>2 DEF Sees, Entered, Scanned
  <2>5. QED
    BY <2>3, <2>4
<1>3. New'
  <2> SUFFICES ASSUME NEW j \in Installers, NEW p \in readable,
                      Cleared(j, p)', pc[p] # "off"
               PROVE  p \in newcomers'[j]
    BY DEF New, Running, InstallerEffect
  <2>1. p \in Writers /\ Halts(j)' /\ Sees(p)
    BY DEF TypeOK, Cleared, Sees, Scanned, Running
  <2>2. Cleared(j, p)
    BY <1>1, <2>1 DEF InstallerEffect
  <2>3. p \in newcomers[j]
    BY <2>2 DEF New, Running
  <2>4. QED
    BY <2>1, <2>3 DEF InstallerEffect
<1>4. Looked'
  BY DEF Looked, At, InstallerEffect
<1>5. QED
  BY <1>2, <1>3, <1>4

-----------------------------------------------------------------------------

LEMMA StepInv == IInv /\ [Next]_vars => IInv'
<1> SUFFICES ASSUME IInv, [Next]_vars PROVE IInv'
  OBVIOUS
<1> USE DEF IInv
<1>1. Signed'
  BY SignedStep
<1>2. ASSUME NEW p \in Writers,
             AnyMoves(p) \/ (p \in Loops /\ LoopMoves(p))
      PROVE  IInv'
  <2>1. TypeOK'
    BY <1>2, TypeWriters
  <2>2. WriterEffect(p)
    BY <1>2, WriterSteps
  <2>3. QED
    BY <1>1, <2>1, <2>2, QuietUnderWriters
<1>3. ASSUME NEW i \in Installers, InstallerMoves(i) PROVE IInv'
  <2>1. TypeOK'
    BY <1>3, TypeInstallers
  <2>2. InstallerEffect(i)
    BY <1>3, InstallerSteps
  <2>3. QED
    BY <1>1, <2>1, <2>2, QuietUnderInstallers
<1>4. CASE UNCHANGED vars
  BY <1>4 DEF vars, halting, entries, writing, looking, TypeOK, Signed, Quiet, New,
     Looked, Cleared, Halts, At, Running
<1>5. QED
  BY <1>2, <1>3, <1>4, StepCases DEF Writers

LEMMA Invariance == Spec => []IInv
BY InitInv, StepInv, PTL DEF Spec

(* Every reachable state is of the types TypeOK gives, and only processes    *)
(* that run have an entry in PID/ (list_live_processes reaps the others).    *)
THEOREM TypeCorrect == Spec => []TypeOK
<1>1. IInv => TypeOK
  BY DEF IInv
<1>2. QED
  BY <1>1, Invariance, PTL

(* Once an installer has raised HALT_m3 and waited until it saw no writer,   *)
(* no loop runs a pass as long as that file is there (wait_for_quiesce and   *)
(* the top of main_loop), with any number of loops, servers and installers   *)
(* and whatever entries readers of PID/ unlink, except a loop whose command  *)
(* line is unreadable and whose entry is lost (register_process, _reap).     *)
THEOREM HaltExcludesPasses == Spec => []ExclusiveIsQuiet
<1>1. IInv => ExclusiveIsQuiet
  BY DEF IInv, Quiet, Looked, Cleared, Halts, At, ExclusiveIsQuiet
<1>2. QED
  BY <1>1, Invariance, PTL

(* Beside an installer that raised the halt, no writer runs that it could    *)
(* see and that was there when it raised it (list_all_db_writers).           *)
THEOREM InstallersSeeNobodyOld == Spec => []OnlyNewcomers
<1>1. IInv => OnlyNewcomers
  BY DEF IInv, New, Looked, Cleared, Halts, At, OnlyNewcomers
<1>2. QED
  BY <1>1, Invariance, PTL
=============================================================================
