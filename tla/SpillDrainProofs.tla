-------------------------- MODULE SpillDrainProofs --------------------------
(* What holds of SpillDrain for any turns, drains, files and any number of   *)
(* mishaps: its types, that no spilled turn is dropped, that it implements   *)
(* SpillShelf, and that only torn appends make malformed lines.              *)
EXTENDS SpillDrain, TLAPS

LEMMA IdleIsSound ==
  ASSUME NEW todo \in SUBSET (Names \cup {Day})
  PROVE  SoundDrain(Idle) /\ SoundDrain([Idle EXCEPT !.pc = "next", !.todo = todo])
BY FilesAssumption DEF SoundDrain, Idle, DrainState, Steps, Day

\* A step of one drain keeps the drains sound when it leaves its own record so.
LEMMA SoundStep ==
  ASSUME TypeOK, NEW d \in Drains, NEW r, SoundDrain(r),
         drain' = [drain EXCEPT ![d] = r], spilled' = spilled
  PROVE  (drain = [e \in Drains |-> drain[e]] /\ \A e \in Drains : SoundDrain(drain[e]))'
BY DEF TypeOK, SoundDrain

LEMMA PendingAreFiles == Pending \subseteq Names \cup {Day}
BY DEF Pending

LEMMA InitTypeOK == Init => TypeOK
<1> SUFFICES ASSUME Init PROVE TypeOK
  OBVIOUS
<1>1. /\ day \subseteq spilled /\ garbled \subseteq Names \cup {Day} /\ torn \in BOOLEAN /\ glued \subseteq spilled /\ spilled \subseteq Turns
      /\ spill \in [Names -> SUBSET spilled] /\ quar \in [Names -> SUBSET spilled]
      /\ reason \in [Names -> BOOLEAN] /\ tries \in [Names -> Nat]
      /\ qdir \in BOOLEAN /\ due \in BOOLEAN
      /\ parked \subseteq spilled /\ store \subseteq spilled
      /\ target \in [Targets -> Conditions]
  BY DEF Init, Conditions
<1>2. drain = [d \in Drains |-> drain[d]] /\ \A d \in Drains : SoundDrain(drain[d])
  BY IdleIsSound DEF Init
<1>3. mishaps \in 0 .. MaxMishaps /\ ((\E f \in Names : quar[f] # {}) => qdir)
  BY NumbersAssumption DEF Init
<1>4. QED
  BY <1>1, <1>2, <1>3 DEF TypeOK

LEMMA WorldTypeOK == ASSUME TypeOK, World PROVE TypeOK'
<1>1. ASSUME NEW batch \in SUBSET Turns, SpillBatch(batch) PROVE TypeOK'
  BY <1>1 DEF TypeOK, SpillBatch, aside, SoundDrain
<1>2. ASSUME AppendBreaksOff PROVE TypeOK'
  BY <1>2, NumbersAssumption DEF TypeOK, AppendBreaksOff, Mishap, aside, SoundDrain
<1>3. ASSUME DayPasses PROVE TypeOK'
  BY <1>3 DEF TypeOK, DayPasses, writers, SoundDrain
<1>4. ASSUME NEW x \in Targets, StoreFails(x) PROVE TypeOK'
  BY <1>4, NumbersAssumption DEF TypeOK, StoreFails, Mishap, writers, aside, Conditions, SoundDrain
<1>5. ASSUME NEW x \in Targets, StoreRecovers(x) PROVE TypeOK'
  BY <1>5 DEF TypeOK, StoreRecovers, writers, aside, Conditions, SoundDrain
<1>6. QED
  BY <1>1, <1>2, <1>3, <1>4, <1>5 DEF World

\* The facts of TypeOK that a step of a drain can disturb, other than its record.
FilesOK ==
    /\ day \subseteq spilled /\ garbled \subseteq Names \cup {Day} /\ torn \in BOOLEAN /\ glued \subseteq spilled /\ spilled \subseteq Turns
    /\ spill \in [Names -> SUBSET spilled] /\ quar \in [Names -> SUBSET spilled]
    /\ reason \in [Names -> BOOLEAN] /\ tries \in [Names -> Nat]
    /\ qdir \in BOOLEAN /\ due \in BOOLEAN
    /\ parked \subseteq spilled /\ store \subseteq spilled
    /\ target \in [Targets -> Conditions]
    /\ mishaps \in 0 .. MaxMishaps
    /\ (\E f \in Names : quar[f] # {}) => qdir

DrainsOK == drain = [d \in Drains |-> drain[d]] /\ \A d \in Drains : SoundDrain(drain[d])

LEMMA TypeSplits == TypeOK <=> FilesOK /\ DrainsOK
BY DEF TypeOK, FilesOK, DrainsOK

\* What Onward and Condemn leave in the record of the drain.
LEMMA OnwardIsSound ==
  ASSUME TypeOK, NEW d \in Drains, NEW todo \in SUBSET (Names \cup {Day}),
         Onward(d, todo), spilled' = spilled
  PROVE  DrainsOK'
BY IdleIsSound, SoundStep DEF Onward, DrainsOK

LEMMA NextFileIsSound ==
  ASSUME TypeOK, NEW d \in Drains, NextFile(d), spilled' = spilled
  PROVE  DrainsOK'
<1>1. drain[d].todo \in SUBSET (Names \cup {Day})
  BY DEF TypeOK, SoundDrain, DrainState
<1>2. QED
  BY <1>1, OnwardIsSound DEF NextFile

LEMMA CondemnIsSound ==
  ASSUME TypeOK, NEW d \in Drains, drain[d].name \in Names, drain[d].lines = {},
         Condemn(d), spilled' = spilled
  PROVE  DrainsOK' /\ reason' \in [Names -> BOOLEAN]
<1>1. PICK g \in Names : /\ drain' = [drain EXCEPT ![d].pc = "quarantine", ![d].dest = g]
                         /\ reason' = IF g = drain[d].name THEN reason ELSE [reason EXCEPT ![g] = FALSE]
  BY DEF Condemn, Fresh
<1> DEFINE r == [drain[d] EXCEPT !.pc = "quarantine", !.dest = g]
<1>2. SoundDrain(r)
  BY DEF TypeOK, SoundDrain, DrainState, Steps
<1>3. drain' = [drain EXCEPT ![d] = r]
  BY <1>1
<1>4. DrainsOK'
  BY <1>2, <1>3, SoundStep DEF DrainsOK
<1>5. QED
  BY <1>1, <1>4 DEF TypeOK

LEMMA PassTypeOK ==
  ASSUME TypeOK, NEW d \in Drains,
         StartPass(d) \/ EndPass(d) \/ Crash(d) \/ StampRetry(d)
         \/ (\E f \in Names : CheckReturn(d, f) \/ TakeOver(d, f))
  PROVE  TypeOK'
<1> DEFINE retry == [drain[d] EXCEPT !.pc = "retry", !.todo = {f \in Names : reason[f]}]
<1>1. DrainsOK'
  <2> spilled' = spilled
    BY DEF StartPass, EndPass, Crash, StampRetry, CheckReturn, TakeOver, writers
  <2>1. CASE StartPass(d)
    <3>1. SoundDrain(retry)
      BY <2>1 DEF TypeOK, SoundDrain, DrainState, Steps, StartPass, At
    <3>2. CASE qdir /\ due
      <4>1. drain' = [drain EXCEPT ![d] = retry]
        BY <2>1, <3>2 DEF StartPass
      <4>2. QED
        BY <3>1, <4>1, SoundStep DEF DrainsOK
    <3>3. QED
      BY <2>1, <3>2, PendingAreFiles, OnwardIsSound DEF StartPass
  <2>2. CASE EndPass(d) \/ Crash(d)
    BY <2>2, IdleIsSound, SoundStep DEF EndPass, Crash, DrainsOK
  <2>3. CASE StampRetry(d)
    BY <2>3, PendingAreFiles, OnwardIsSound DEF StampRetry
  <2>4. ASSUME NEW f \in Names, CheckReturn(d, f) PROVE DrainsOK'
    <3>1. SoundDrain([drain[d] EXCEPT !.pc = "return", !.name = f])
      BY <2>4 DEF TypeOK, SoundDrain, DrainState, Steps, CheckReturn, At
    <3>2. SoundDrain([drain[d] EXCEPT !.todo = @ \ {f}])
      BY <2>4 DEF TypeOK, SoundDrain, DrainState
    <3>3. \/ drain' = [drain EXCEPT ![d] = [drain[d] EXCEPT !.pc = "return", !.name = f]]
          \/ drain' = [drain EXCEPT ![d] = [drain[d] EXCEPT !.todo = @ \ {f}]]
      BY <2>4 DEF CheckReturn, Skip
    <3>4. QED
      BY <3>1, <3>2, <3>3, SoundStep DEF DrainsOK
  <2>5. ASSUME NEW f \in Names, TakeOver(d, f) PROVE DrainsOK'
    <3> DEFINE opened == [drain[d] EXCEPT !.pc = "open", !.name = f, !.todo = @ \ {f}]
    <3>1. drain[d].pc = "next" /\ drain' = [drain EXCEPT ![d] = opened]
      BY <2>5 DEF TakeOver, At
    <3>2. drain[d].pc = "next" /\ SoundDrain(drain[d])
      BY <3>1 DEF TypeOK
    <3>3. SoundDrain(opened)
      BY <3>2 DEF SoundDrain, DrainState, Steps
    <3>4. QED
      BY <3>1, <3>3, SoundStep DEF DrainsOK
  <2>6. QED
    BY <2>1, <2>2, <2>3, <2>4, <2>5
<1>2. FilesOK'
  <2>1. CASE Crash(d)
    BY <2>1, NumbersAssumption, TypeSplits DEF FilesOK, Crash, Mishap, writers, aside
  <2>2. CASE StampRetry(d)
    BY <2>2, TypeSplits DEF FilesOK, StampRetry, writers
  <2>3. CASE ~Crash(d) /\ ~StampRetry(d)
    <3>1. UNCHANGED <<day, torn, glued, garbled, spilled, spill, quar, reason, tries, qdir, due, parked,
                      store, target, mishaps>>
      BY <2>3 DEF StartPass, EndPass, CheckReturn, TakeOver, writers, aside
    <3>2. QED
      BY <3>1, TypeSplits DEF FilesOK
  <2>4. QED
    BY <2>1, <2>2, <2>3
<1>3. QED
  BY <1>1, <1>2, TypeSplits DEF TypeOK, FilesOK, DrainsOK

\* A step that may fail leaves the number of mishaps within its bound.
LEMMA MishapsBounded ==
  ASSUME TypeOK, Mishap \/ Smooth PROVE mishaps' \in 0 .. MaxMishaps
BY NumbersAssumption DEF TypeOK, Mishap, Smooth

LEMMA RetryTypeOK ==
  ASSUME TypeOK, NEW d \in Drains, MoveBack(d) \/ MovedBack(d)
  PROVE  TypeOK'
<1> DEFINE f == drain[d].name
<1>0. f \in Names /\ drain[d].lines = {} /\ spilled' = spilled
  BY DEF TypeOK, SoundDrain, MoveBack, MovedBack, At, writers
<1>1. DrainsOK'
  <2>1. SoundDrain([drain[d] EXCEPT !.pc = "returned"])
    BY <1>0 DEF TypeOK, SoundDrain, DrainState, Steps
  <2>2. SoundDrain([drain[d] EXCEPT !.pc = "retry", !.todo = @ \ {f}, !.name = Day])
    BY <1>0 DEF TypeOK, SoundDrain, DrainState, Steps
  <2>3. CASE MoveBack(d)
    BY <2>3, <2>1, <1>0, SoundStep, OnwardIsSound, PendingAreFiles DEF MoveBack, To, DrainsOK
  <2>4. CASE MovedBack(d)
    <3>1. \/ drain' = [drain EXCEPT ![d] = [drain[d] EXCEPT !.pc = "retry", !.todo = @ \ {f}, !.name = Day]]
          \/ Onward(d, Pending)
      BY <2>4 DEF MovedBack
    <3>2. QED
      BY <3>1, <2>2, <1>0, SoundStep, OnwardIsSound, PendingAreFiles DEF DrainsOK
  <2>5. QED
    BY <2>3, <2>4
<1>2. mishaps' \in 0 .. MaxMishaps
  BY MishapsBounded DEF MoveBack, MovedBack, FailsBy
<1>3. FilesOK'
  <2>1. CASE MoveBack(d)
    BY <2>1, <1>0, <1>2 DEF TypeOK, FilesOK, MoveBack, writers
  <2>2. CASE MovedBack(d)
    <3>0. LastChance \in Nat
      BY NumbersAssumption DEF LastChance
    <3>1. tries' \in [Names -> Nat] /\ reason' \in [Names -> BOOLEAN]
      <4>1. /\ tries' = [tries EXCEPT ![f] = LastChance] \/ tries' = tries
            /\ reason' = [reason EXCEPT ![f] = FALSE] \/ reason' = reason
        BY <2>2 DEF MovedBack
      <4>2. QED
        BY <4>1, <3>0 DEF TypeOK
    <3>2. UNCHANGED <<day, torn, glued, garbled, spilled, spill, quar, qdir, due, parked, store, target>>
      BY <2>2 DEF MovedBack, writers
    <3>3. QED
      BY <3>1, <3>2, <1>2, TypeSplits DEF FilesOK
  <2>3. QED
    BY <2>1, <2>2
<1>4. QED
  BY <1>1, <1>3, TypeSplits DEF TypeOK, FilesOK, DrainsOK

LEMMA ClaimTypeOK == ASSUME TypeOK, NEW d \in Drains, Claim(d) PROVE TypeOK'
<1>0. drain[d].pc = "next" /\ SoundDrain(drain[d]) /\ spilled' = spilled
  BY DEF TypeOK, Claim, At
<1>1. DrainsOK'
  <2>1. SoundDrain([drain[d] EXCEPT !.todo = @ \ {Day}])
    BY <1>0 DEF SoundDrain, DrainState
  <2>2. ASSUME NEW f \in Names
        PROVE  SoundDrain([drain[d] EXCEPT !.pc = "open", !.name = f, !.todo = @ \ {Day}])
    BY <1>0 DEF SoundDrain, DrainState, Steps
  <2>3. \/ drain' = [drain EXCEPT ![d] = [drain[d] EXCEPT !.todo = @ \ {Day}]]
        \/ \E f \in Names : drain' = [drain EXCEPT ![d] = [drain[d] EXCEPT !.pc = "open", !.name = f, !.todo = @ \ {Day}]]
    <3>1. Fresh \subseteq Names
      BY DEF Fresh
    <3>2. CASE Skip(d, Day)
      BY <3>2 DEF Skip
    <3>3. ASSUME NEW f \in Fresh,
                 drain' = [drain EXCEPT ![d].pc = "open", ![d].name = f, ![d].todo = @ \ {Day}]
          PROVE  drain' = [drain EXCEPT ![d] = [drain[d] EXCEPT !.pc = "open", !.name = f, !.todo = @ \ {Day}]]
      BY <3>3
    <3>4. QED
      BY <3>1, <3>2, <3>3 DEF Claim
  <2>4. QED
    BY <2>1, <2>2, <2>3, <1>0, SoundStep DEF DrainsOK
<1>2. mishaps' \in 0 .. MaxMishaps
  BY MishapsBounded DEF Claim
<1>3. /\ spill' \in [Names -> SUBSET spilled] /\ tries' \in [Names -> Nat] /\ reason' \in [Names -> BOOLEAN]
      /\ day' \subseteq spilled /\ torn' \in BOOLEAN /\ qdir' \in BOOLEAN /\ (qdir => qdir')
  <2>1. ASSUME UNCHANGED <<day, spill, tries, reason>>, torn' \in {torn, FALSE},
               qdir' = qdir \/ qdir' = (qdir \/ torn)
        PROVE  /\ spill' \in [Names -> SUBSET spilled] /\ tries' \in [Names -> Nat]
               /\ reason' \in [Names -> BOOLEAN] /\ day' \subseteq spilled
               /\ torn' \in BOOLEAN /\ qdir' \in BOOLEAN /\ (qdir => qdir')
    <3>1. qdir \in BOOLEAN /\ torn \in BOOLEAN
      BY DEF TypeOK
    <3>2. torn' \in BOOLEAN /\ qdir' \in BOOLEAN /\ (qdir => qdir')
      <4>1. CASE qdir' = qdir
        BY <4>1, <3>1, <2>1
      <4>2. CASE qdir' = (qdir \/ torn)
        BY <4>2, <3>1, <2>1
      <4>3. QED
        BY <4>1, <4>2, <2>1
    <3>3. QED
      BY <2>1, <3>2 DEF TypeOK
  <2>2. ASSUME NEW f \in Fresh, spill' = [spill EXCEPT ![f] = day], day' = {}, torn' = FALSE,
               tries' = [tries EXCEPT ![f] = 0], reason' = [reason EXCEPT ![f] = FALSE], qdir' = (qdir \/ torn)
        PROVE  /\ spill' \in [Names -> SUBSET spilled] /\ tries' \in [Names -> Nat]
               /\ reason' \in [Names -> BOOLEAN] /\ day' \subseteq spilled
               /\ torn' \in BOOLEAN /\ qdir' \in BOOLEAN /\ (qdir => qdir')
    BY <2>2 DEF TypeOK, Fresh
  <2>3. \/ /\ UNCHANGED <<day, spill, tries, reason>> /\ torn' \in {torn, FALSE}
           /\ qdir' = qdir \/ qdir' = (qdir \/ torn)
        \/ /\ day' = {} /\ torn' = FALSE /\ qdir' = (qdir \/ torn)
           /\ \E f \in Fresh : /\ spill' = [spill EXCEPT ![f] = day]
                              /\ tries' = [tries EXCEPT ![f] = 0]
                              /\ reason' = [reason EXCEPT ![f] = FALSE]
    <3>1. CASE UNCHANGED <<day, spill, tries, reason>>
      BY <3>1 DEF Claim
    <3>2. CASE ~UNCHANGED <<day, spill, tries, reason>>
      <4>1. /\ day' = {} /\ torn' = FALSE /\ qdir' = (qdir \/ torn)
            /\ \E f \in Fresh :
                  /\ spill' = [spill EXCEPT ![f] = day]
                  /\ tries' = [tries EXCEPT ![f] = 0] /\ reason' = [reason EXCEPT ![f] = FALSE]
                  /\ drain' = [drain EXCEPT ![d].pc = "open", ![d].name = f, ![d].todo = @ \ {Day}]
        BY <3>2, Zenon DEF Claim
      <4>2. QED
        BY <4>1
    <3>3. QED
      BY <3>1, <3>2
  <2>4. QED
    BY <2>1, <2>2, <2>3
<1>4. FilesOK'
  <2>1. garbled' \subseteq Names \cup {Day}
    BY DEF TypeOK, Claim, Renamed, Fresh
  <2>2. UNCHANGED <<glued, spilled, quar, due, parked, store, target>>
    BY DEF Claim
  <2>3. QED
    BY <2>1, <2>2, <1>2, <1>3, TypeSplits DEF FilesOK
<1>5. QED
  BY <1>1, <1>4, TypeSplits DEF TypeOK, FilesOK, DrainsOK

LEMMA OpenTypeOK == ASSUME TypeOK, NEW d \in Drains, Open(d) PROVE TypeOK'
<1> DEFINE f == drain[d].name
           read == [drain[d] EXCEPT !.pc = "insert", !.lines = spill[f], !.left = spill[f]]
<1>0. /\ drain[d].pc = "open" /\ SoundDrain(drain[d]) /\ spilled' = spilled
      /\ f \in Names /\ drain[d].lines = {} /\ drain[d].keep = {}
  BY DEF TypeOK, SoundDrain, Open, At, writers
<1>1. spill[f] \subseteq spilled /\ spilled \subseteq Turns /\ tries[f] \in Nat
  BY <1>0 DEF TypeOK
<1>2. DrainsOK' /\ reason' \in [Names -> BOOLEAN] /\ tries' \in [Names -> Nat]
  <2>1. CASE Condemn(d)
    <3>1. tries' \in [Names -> Nat]
      BY <1>0, <1>1 DEF Open, TypeOK
    <3>2. QED
      BY <2>1, <3>1, <1>0, CondemnIsSound
  <2>2. CASE NextFile(d) /\ UNCHANGED reason
    <3>1. tries' \in [Names -> Nat]
      BY <1>0, <1>1 DEF Open, TypeOK
    <3>2. QED
      BY <2>2, <3>1, <1>0, NextFileIsSound DEF TypeOK
  <2>3. CASE spill[f] # {} /\ drain' = [drain EXCEPT ![d] = read] /\ UNCHANGED <<tries, reason>>
    <3>1. SoundDrain(read)
      BY <2>3, <1>0, <1>1 DEF SoundDrain, DrainState, Steps
    <3>2. QED
      BY <2>3, <3>1, <1>0, SoundStep DEF DrainsOK, TypeOK
  <2>4. QED
    BY <2>1, <2>2, <2>3 DEF Open
<1>3. FilesOK'
  BY <1>0, <1>2 DEF TypeOK, FilesOK, Open, writers
<1>4. QED
  BY <1>2, <1>3, TypeSplits DEF TypeOK, FilesOK, DrainsOK

LEMMA InsertTypeOK == ASSUME TypeOK, NEW d \in Drains, NEW x \in Targets, Insert(d, x) PROVE TypeOK'
<1> DEFINE group == Group(d, x)
           broken == target[x] = "broken"
           done == [drain[d] EXCEPT !.left = @ \ group]
           kept == [drain[d] EXCEPT !.left = @ \ group, !.keep = Kept(d, group, broken),
                                    !.counted = @ \/ broken]
<1>0. /\ drain[d].pc = "insert" /\ SoundDrain(drain[d]) /\ spilled' = spilled
      /\ group \subseteq drain[d].left /\ group \subseteq spilled
  BY DEF TypeOK, SoundDrain, Insert, At, writers, Group
<1>1. SoundDrain(done)
  BY <1>0 DEF SoundDrain, DrainState
<1>2. SoundDrain(kept)
  BY <1>0 DEF SoundDrain, DrainState, Kept
<1>3. /\ drain' = [drain EXCEPT ![d] = done] \/ drain' = [drain EXCEPT ![d] = kept]
      /\ store' = store \/ store' = store \cup group
  BY DEF Insert
<1>4. DrainsOK'
  BY <1>0, <1>1, <1>2, <1>3, SoundStep DEF DrainsOK
<1>5. FilesOK'
  BY <1>0, <1>3 DEF TypeOK, FilesOK, Insert, writers, aside
<1>6. QED
  BY <1>4, <1>5, TypeSplits DEF TypeOK, FilesOK, DrainsOK

LEMMA ParkTypeOK == ASSUME TypeOK, NEW d \in Drains, Park(d) PROVE TypeOK'
<1> DEFINE left == drain[d].left
<1>0. /\ drain[d].pc = "insert" /\ SoundDrain(drain[d]) /\ spilled' = spilled
  BY DEF TypeOK, Park, At, writers
<1>1. PICK moved \in {left, left \cap glued, left \ glued, {}} :
        /\ parked' = parked \cup moved
        /\ qdir' = (qdir \/ moved # {})
        /\ IF moved = left THEN Smooth ELSE Mishap
        /\ drain' = [drain EXCEPT ![d].pc = "settle", ![d].left = {},
                                  ![d].keep = Kept(d, left \ moved, TRUE),
                                  ![d].counted = @ \/ left # moved]
  BY Zenon DEF Park, FailsBy
<1>2. SoundDrain([drain[d] EXCEPT !.pc = "settle", !.left = {}, !.keep = Kept(d, left \ moved, TRUE),
                                  !.counted = @ \/ left # moved])
  BY <1>0 DEF SoundDrain, DrainState, Steps, Kept
<1>3. DrainsOK'
  BY <1>0, <1>1, <1>2, SoundStep DEF DrainsOK
<1>4. mishaps' \in 0 .. MaxMishaps
  BY <1>1, MishapsBounded
<1>5. moved \subseteq spilled
  BY <1>0, <1>1 DEF SoundDrain
<1>6. FilesOK'
  BY <1>0, <1>1, <1>4, <1>5 DEF TypeOK, FilesOK, Park, writers
<1>7. QED
  BY <1>3, <1>6, TypeSplits DEF TypeOK, FilesOK, DrainsOK

LEMMA SettleTypeOK == ASSUME TypeOK, NEW d \in Drains, Settle(d) PROVE TypeOK'
<1> DEFINE f == drain[d].name
           keep == drain[d].keep
           settled == [drain[d] EXCEPT !.pc = "record", !.lines = {}, !.keep = {}]
<1>0. /\ drain[d].pc = "settle" /\ SoundDrain(drain[d]) /\ spilled' = spilled
      /\ f \in Names /\ keep \subseteq spilled /\ drain[d].left = {}
  BY DEF TypeOK, SoundDrain, Settle, At, writers
<1>1. SoundDrain(settled)
  BY <1>0 DEF SoundDrain, DrainState, Steps
<1>2. /\ NextFile(d) \/ drain' = [drain EXCEPT ![d] = settled]
      /\ tries' = [tries EXCEPT ![f] = 0] \/ tries' = tries
      /\ spill' = [spill EXCEPT ![f] = keep] \/ spill' = spill
      /\ Mishap \/ Smooth
  BY Zenon DEF Settle, FailsBy
<1>3. DrainsOK'
  BY <1>0, <1>1, <1>2, NextFileIsSound, SoundStep DEF DrainsOK
<1>4. FilesOK'
  <2>1. mishaps' \in 0 .. MaxMishaps
    BY <1>2, MishapsBounded
  <2>2. UNCHANGED <<day, torn, glued, garbled, spilled, quar, reason, qdir, due, parked, store, target>>
    BY DEF Settle, writers, aside
  <2>3. spill' \in [Names -> SUBSET spilled] /\ tries' \in [Names -> Nat]
    BY <1>0, <1>2 DEF TypeOK
  <2>4. QED
    BY <2>1, <2>2, <2>3, TypeSplits DEF FilesOK
<1>5. QED
  BY <1>3, <1>4, TypeSplits DEF TypeOK, FilesOK, DrainsOK

LEMMA RecordTypeOK == ASSUME TypeOK, NEW d \in Drains, Record(d) PROVE TypeOK'
<1> DEFINE f == drain[d].name
           n == tries[f] + (IF drain[d].counted THEN 1 ELSE 0)
<1>0. spilled' = spilled /\ f \in Names /\ drain[d].lines = {}
  BY DEF TypeOK, SoundDrain, Record, At, writers
<1>1. n \in Nat
  BY <1>0 DEF TypeOK
<1>2. /\ Condemn(d) \/ (NextFile(d) /\ UNCHANGED reason)
      /\ tries' = [tries EXCEPT ![f] = n] \/ tries' = tries
      /\ Mishap \/ Smooth
  BY Zenon DEF Record
<1>3. DrainsOK' /\ reason' \in [Names -> BOOLEAN]
  <2>1. CASE Condemn(d)
    BY <2>1, <1>0, CondemnIsSound
  <2>2. CASE NextFile(d) /\ UNCHANGED reason
    BY <2>2, <1>0, NextFileIsSound DEF TypeOK
  <2>3. QED
    BY <2>1, <2>2, <1>2
<1>4. FilesOK'
  <2>1. mishaps' \in 0 .. MaxMishaps /\ tries' \in [Names -> Nat]
    BY <1>1, <1>2, MishapsBounded DEF TypeOK
  <2>2. UNCHANGED <<day, torn, glued, garbled, spilled, spill, quar, qdir, due, parked, store, target>>
    BY DEF Record, writers
  <2>3. QED
    BY <2>1, <2>2, <1>3, TypeSplits DEF FilesOK
<1>5. QED
  BY <1>3, <1>4, TypeSplits DEF TypeOK, FilesOK, DrainsOK

LEMMA SetAsideTypeOK == ASSUME TypeOK, NEW d \in Drains, SetAside(d) PROVE TypeOK'
<1> DEFINE f == drain[d].name
           g == drain[d].dest
<1>0. /\ spilled' = spilled /\ f \in Names /\ g \in Names
      /\ SoundDrain(drain[d]) /\ drain[d].pc \in {"quarantine", "reason"}
  BY DEF TypeOK, SoundDrain, SetAside, Quarantine, WriteReason, At, writers
<1>1. SoundDrain([drain[d] EXCEPT !.pc = "reason"])
  BY <1>0 DEF SoundDrain, DrainState, Steps
<1>2. DrainsOK'
  <2>1. To(d, "reason") \/ NextFile(d)
    BY DEF SetAside, Quarantine, WriteReason
  <2>2. QED
    BY <2>1, <1>0, <1>1, NextFileIsSound, SoundStep DEF To, DrainsOK
<1>3. mishaps' \in 0 .. MaxMishaps
  BY MishapsBounded DEF SetAside, Quarantine, WriteReason, FailsBy
<1>4. FilesOK'
  <2>1. CASE Quarantine(d)
    <3>1. /\ qdir' = TRUE
          /\ quar' = [quar EXCEPT ![g] = spill[f]] \/ quar' = quar
          /\ spill' = [spill EXCEPT ![f] = {}] \/ spill' = spill
          /\ garbled' = Renamed(f, g) \/ garbled' = garbled
          /\ UNCHANGED <<day, torn, glued, spilled, reason, due, tries, parked, store, target>>
      BY <2>1 DEF Quarantine
    <3>2. garbled' \subseteq Names \cup {Day}
      BY <3>1, <1>0 DEF Renamed, TypeOK
    <3>3. QED
      BY <3>1, <3>2, <1>0, <1>3, TypeSplits DEF FilesOK
  <2>2. CASE WriteReason(d)
    <3>1. /\ tries' = [tries EXCEPT ![f] = 0]
          /\ reason' = [reason EXCEPT ![g] = TRUE] \/ reason' = reason
          /\ UNCHANGED <<day, torn, glued, garbled, spilled, spill, quar, qdir, due, parked, store, target>>
      BY <2>2 DEF WriteReason, writers
    <3>2. QED
      BY <3>1, <1>0, <1>3, TypeSplits DEF FilesOK
  <2>3. QED
    BY <2>1, <2>2 DEF SetAside
<1>5. QED
  BY <1>2, <1>4, TypeSplits DEF TypeOK, FilesOK, DrainsOK

LEMMA NextTypeOK == TypeOK /\ [Next]_vars => TypeOK'
<1> SUFFICES ASSUME TypeOK, [Next]_vars PROVE TypeOK'
  OBVIOUS
<1>1. CASE World
  BY <1>1, WorldTypeOK
<1>2. ASSUME NEW d \in Drains, DrainSpill(d) \/ Crash(d) PROVE TypeOK'
  BY <1>2, PassTypeOK, RetryTypeOK, ClaimTypeOK, OpenTypeOK, InsertTypeOK, ParkTypeOK, SettleTypeOK,
     RecordTypeOK, SetAsideTypeOK DEF DrainSpill, Retry, DrainOne
<1>3. CASE UNCHANGED vars
  BY <1>3 DEF vars, writers, aside, TypeOK, SoundDrain
<1>4. QED
  BY <1>1, <1>2, <1>3 DEF Next

\* The types of SpillDrain, for the steps of drain_spill and all that disturbs it.
THEOREM TypeCorrect == Spec => []TypeOK
<1>1. QED
  BY InitTypeOK, NextTypeOK, PTL DEF Spec

-----------------------------------------------------------------------------
(* NothingDropped is not inductive: a drain rewrites, removes or moves a file *)
(* that another may have rewritten, removed or moved since it was read.  What *)
(* makes that harmless is that all copies of a file agree on the turns that   *)
(* have no place yet.                                                         *)

\* The lines of a file, as the spill directory, quarantine/ or a drain has them.
IsCopy(f, u) ==
    u # {} /\ (u = spill[f] \/ u = quar[f]
               \/ \E d \in Drains : drain[d].name = f /\ u = drain[d].lines)

\* The copies of a file differ only in lines that have found their place.
CopiesAgree ==
    \A f \in Names : \A u, v \in SUBSET Turns :
        IsCopy(f, u) /\ IsCopy(f, v) => u \ Placed = v \ Placed

\* A drain cares for each turn it has read that has no place.
Careful == \A d \in Drains : drain[d].lines \ Placed \subseteq drain[d].left \cup drain[d].keep

Unused(g) == spill[g] = {} /\ quar[g] = {} /\ ~reason[g]
Unknown(g, d) == g \notin drain[d].todo \cup {drain[d].name, drain[d].dest}

\* A new name for a file on its way to quarantine belongs to one drain alone.
OwnDest ==
    \A d \in Drains : \A g \in Names :
        drain[d].pc = "quarantine" /\ g = drain[d].dest /\ g # drain[d].name =>
            Unused(g) /\ \A e \in Drains \ {d} : Unknown(g, e)

IInv == TypeOK /\ NothingDropped /\ CopiesAgree /\ Careful /\ OwnDest

LEMMA InitIInv == Init => IInv
<1> SUFFICES ASSUME Init PROVE IInv
  OBVIOUS
<1>1. NothingDropped
  BY DEF Init, NothingDropped
<1>2. CopiesAgree /\ Careful /\ OwnDest
  BY DEF Init, CopiesAgree, IsCopy, Careful, OwnDest, Idle
<1>3. QED
  BY <1>1, <1>2, InitTypeOK DEF IInv

\* Copies go on to agree when each comes from one that was there, or is alone.
LEMMA AgreeStep ==
  ASSUME CopiesAgree, Placed \subseteq Placed',
         \A f \in Names :
            \/ \A u \in SUBSET Turns : IsCopy(f, u)' =>
                  \E w \in SUBSET Turns : IsCopy(f, w) /\ u \ Placed' = w \ Placed'
            \/ \E w \in SUBSET Turns : \A u \in SUBSET Turns : IsCopy(f, u)' => u = w
  PROVE  CopiesAgree'
<1> SUFFICES ASSUME NEW f \in Names, NEW u \in SUBSET Turns, NEW v \in SUBSET Turns,
                    IsCopy(f, u)', IsCopy(f, v)'
             PROVE  u \ Placed' = v \ Placed'
  BY DEF CopiesAgree
<1>1. CASE \A x \in SUBSET Turns : IsCopy(f, x)' =>
              \E w \in SUBSET Turns : IsCopy(f, w) /\ x \ Placed' = w \ Placed'
  <2>1. PICK w \in SUBSET Turns : IsCopy(f, w) /\ u \ Placed' = w \ Placed'
    BY <1>1
  <2>2. PICK z \in SUBSET Turns : IsCopy(f, z) /\ v \ Placed' = z \ Placed'
    BY <1>1
  <2>3. w \ Placed = z \ Placed
    BY <2>1, <2>2 DEF CopiesAgree
  <2>4. QED
    BY <2>1, <2>2, <2>3
<1>2. CASE \E w \in SUBSET Turns : \A x \in SUBSET Turns : IsCopy(f, x)' => x = w
  BY <1>2
<1>3. QED
  BY <1>1, <1>2

\* A step that leaves every file and place alone, by a drain that has read none.
LEMMA QuietStep ==
  ASSUME IInv, NEW d \in Drains, UNCHANGED <<day, spilled, spill, quar, store, parked>>,
         \A e \in Drains \ {d} : drain'[e] = drain[e], drain'[d].lines = {}
  PROVE  NothingDropped' /\ CopiesAgree' /\ Careful'
<1>1. NothingDropped'
  BY DEF IInv, NothingDropped, Placed, OnDisk
<1>2. Placed' = Placed
  BY DEF Placed
<1>3. ASSUME NEW f \in Names, NEW u \in SUBSET Turns, IsCopy(f, u)' PROVE IsCopy(f, u)
  BY <1>3 DEF IsCopy
<1>4. CopiesAgree'
  BY <1>2, <1>3, AgreeStep DEF IInv
<1>5. Careful'
  BY <1>2 DEF IInv, Careful
<1>6. QED
  BY <1>1, <1>4, <1>5

\* A new name stays its owner's when no drain but the owner learns of it.
LEMMA OwnStep ==
  ASSUME IInv, NEW d \in Drains, \A e \in Drains \ {d} : drain'[e] = drain[e],
         \A g \in Names \ Fresh : Unused(g) /\ Unknown(g, d) => Unused(g)' /\ Unknown(g, d)',
         \A g \in Names : drain'[d].pc = "quarantine" /\ g = drain'[d].dest /\ g # drain'[d].name =>
                              Unused(g)' /\ \A e \in Drains \ {d} : Unknown(g, e)
  PROVE  OwnDest'
<1> SUFFICES ASSUME NEW e \in Drains, NEW g \in Names, drain'[e].pc = "quarantine",
                    g = drain'[e].dest, g # drain'[e].name
             PROVE  Unused(g)' /\ \A x \in Drains \ {e} : Unknown(g, x)'
  BY DEF OwnDest
<1>1. CASE e = d
  BY <1>1 DEF Unknown
<1>2. CASE e # d
  <2>1. drain'[e] = drain[e]
    BY <1>2
  <2>2. Unused(g) /\ \A x \in Drains \ {e} : Unknown(g, x)
    BY <2>1 DEF IInv, OwnDest
  <2>3. g \notin Fresh
    BY <2>1 DEF Fresh
  <2>4. Unused(g)' /\ Unknown(g, d)'
    BY <2>2, <2>3, <1>2
  <2>5. \A x \in Drains \ {e, d} : Unknown(g, x)'
    BY <2>2 DEF Unknown
  <2>6. QED
    BY <2>4, <2>5
<1>3. QED
  BY <1>1, <1>2

LEMMA OthersStay ==
  ASSUME TypeOK, NEW d \in Drains, DrainSpill(d) \/ Crash(d)
  PROVE  \A e \in Drains \ {d} : drain'[e] = drain[e]
<1> SUFFICES ASSUME NEW e \in Drains \ {d} PROVE drain'[e] = drain[e]
  OBVIOUS
<1>1. CASE StartPass(d) \/ EndPass(d) \/ Crash(d)
  BY <1>1 DEF TypeOK, StartPass, EndPass, Crash, Onward
<1>2. CASE Retry(d)
  BY <1>2 DEF TypeOK, Retry, CheckReturn, MoveBack, MovedBack, StampRetry, Onward, Skip, To
<1>3. CASE Claim(d)
  BY <1>3 DEF TypeOK, Claim, Skip
<1>4. CASE Open(d)
  BY <1>4 DEF TypeOK, Open, Condemn, NextFile, Onward
<1>5. ASSUME NEW f \in Names, TakeOver(d, f) PROVE drain'[e] = drain[e]
  BY <1>5 DEF TypeOK, TakeOver
<1>6. CASE DrainOne(d)
  BY <1>6 DEF TypeOK, DrainOne, Insert, Park, Settle, Record, Condemn, NextFile, Onward
<1>7. CASE SetAside(d)
  BY <1>7 DEF TypeOK, SetAside, Quarantine, WriteReason, NextFile, Onward, To
<1>8. QED
  BY <1>1, <1>2, <1>3, <1>4, <1>5, <1>6, <1>7 DEF DrainSpill

\* Onward and Condemn give no drain a name that is another's.
LEMMA OnwardOwn ==
  ASSUME TypeOK, NEW d \in Drains, NEW todo \in SUBSET (drain[d].todo \cup Pending), Onward(d, todo),
         NEW g \in Names, Unused(g), Unknown(g, d)
  PROVE  Unknown(g, d)' /\ drain'[d].pc # "quarantine"
BY FilesAssumption DEF TypeOK, Onward, Idle, Unknown, Unused, Pending

LEMMA CondemnOwn ==
  ASSUME TypeOK, NEW d \in Drains, Condemn(d), drain[d].name \in Names,
         UNCHANGED <<spill, quar>>
  PROVE  /\ \A g \in Names \ Fresh : Unused(g) /\ Unknown(g, d) => Unused(g)' /\ Unknown(g, d)'
         /\ \A g \in Names : drain'[d].pc = "quarantine" /\ g = drain'[d].dest /\ g # drain'[d].name =>
                                 Unused(g)' /\ \A e \in Drains \ {d} : Unknown(g, e)
<1> DEFINE f == drain[d].name
<1>1. PICK h \in (IF quar[f] = {} THEN {f} ELSE Fresh) :
        /\ drain' = [drain EXCEPT ![d].pc = "quarantine", ![d].dest = h]
        /\ reason' = IF h = f THEN reason ELSE [reason EXCEPT ![h] = FALSE]
  BY DEF Condemn
<1>2. h \in Names /\ (h = f \/ h \in Fresh)
  BY <1>1 DEF Fresh
<1>3. /\ drain'[d].todo = drain[d].todo /\ drain'[d].name = f
      /\ drain'[d].dest = h
  BY <1>1 DEF TypeOK, SoundDrain, DrainState
<1>4. ASSUME NEW g \in Names \ Fresh, Unused(g), Unknown(g, d) PROVE Unused(g)' /\ Unknown(g, d)'
  <2>1. h # g
    BY <1>2, <1>4 DEF Unknown
  <2>2. QED
    BY <2>1, <1>1, <1>2, <1>3, <1>4 DEF Unused, Unknown, TypeOK
<1>5. ASSUME NEW g \in Names, g = h, g # f
      PROVE  Unused(g)' /\ \A e \in Drains \ {d} : Unknown(g, e)
  <2>1. g \in Fresh /\ reason' = [reason EXCEPT ![g] = FALSE]
    BY <1>1, <1>2, <1>5
  <2>2. QED
    BY <2>1 DEF Fresh, Unused, Unknown, TypeOK
<1>6. QED
  BY <1>3, <1>4, <1>5

\* What the record of a drain holds after a step that opens no file.
LEMMA PassKnows ==
  ASSUME TypeOK, NEW d \in Drains,
         StartPass(d) \/ EndPass(d) \/ Crash(d) \/ StampRetry(d) \/ MovedBack(d)
         \/ (\E f \in Names : CheckReturn(d, f) \/ TakeOver(d, f))
  PROVE  /\ drain'[d].pc \in {"idle", "retry", "return", "next", "open"}
         /\ drain'[d].todo \subseteq drain[d].todo \cup Pending \cup {f \in Names : reason[f]}
         /\ drain'[d].name \in drain[d].todo \cup {drain[d].name, Day}
         /\ drain'[d].dest \in {drain[d].dest, Day}
<1> DEFINE Goal == /\ drain'[d].pc \in {"idle", "retry", "return", "next", "open"}
                   /\ drain'[d].todo \subseteq drain[d].todo \cup Pending \cup {f \in Names : reason[f]}
                   /\ drain'[d].name \in drain[d].todo \cup {drain[d].name, Day}
                   /\ drain'[d].dest \in {drain[d].dest, Day}
<1>0. drain = [e \in Drains |-> drain[e]] /\ drain[d] \in DrainState
  BY DEF TypeOK, SoundDrain
<1>1. ASSUME NEW todo \in {drain[d].todo, Pending}, Onward(d, todo) PROVE Goal
  BY <1>0, <1>1 DEF Onward, Idle
<1>2. ASSUME drain' = [drain EXCEPT ![d] = Idle] PROVE Goal
  BY <1>0, <1>2 DEF Idle
<1>3. CASE StartPass(d)
  <2>1. CASE drain' = [drain EXCEPT ![d].pc = "retry", ![d].todo = {f \in Names : reason[f]}]
    BY <1>0, <2>1 DEF DrainState
  <2>2. QED
    BY <1>3, <1>1, <2>1 DEF StartPass
<1>4. CASE EndPass(d) \/ Crash(d)
  BY <1>4, <1>2 DEF EndPass, Crash
<1>5. CASE StampRetry(d)
  BY <1>5, <1>1 DEF StampRetry
<1>6. CASE MovedBack(d)
  <2>1. CASE drain' = [drain EXCEPT ![d].pc = "retry", ![d].todo = @ \ {drain[d].name}, ![d].name = Day]
    BY <1>0, <2>1 DEF DrainState
  <2>2. QED
    BY <1>6, <1>1, <2>1 DEF MovedBack
<1>7. ASSUME NEW f \in Names, CheckReturn(d, f) PROVE Goal
  <2>1. /\ drain[d].pc = "retry" /\ f \in drain[d].todo
        /\ \/ drain' = [drain EXCEPT ![d].pc = "return", ![d].name = f]
           \/ drain' = [drain EXCEPT ![d].todo = @ \ {f}]
    BY <1>7 DEF CheckReturn, Skip, At
  <2>2. QED
    BY <1>0, <2>1 DEF DrainState
<1>8. ASSUME NEW f \in Names, TakeOver(d, f) PROVE Goal
  BY <1>0, <1>8 DEF TakeOver, DrainState
<1>9. QED
  BY <1>3, <1>4, <1>5, <1>6, <1>7, <1>8

LEMMA PassKeeps ==
  ASSUME IInv, TypeOK', NEW d \in Drains,
         StartPass(d) \/ EndPass(d) \/ Crash(d) \/ StampRetry(d) \/ MovedBack(d)
         \/ (\E f \in Names : CheckReturn(d, f) \/ TakeOver(d, f))
  PROVE  IInv'
<1>0. \A e \in Drains \ {d} : drain'[e] = drain[e]
  BY OthersStay DEF IInv, DrainSpill, Retry
<1>1. /\ drain'[d].pc \in {"idle", "retry", "return", "next", "open"}
      /\ drain'[d].todo \subseteq drain[d].todo \cup Pending \cup {f \in Names : reason[f]}
      /\ drain'[d].name \in drain[d].todo \cup {drain[d].name, Day}
      /\ drain'[d].dest \in {drain[d].dest, Day}
  BY PassKnows DEF IInv
<1>2. drain'[d].lines = {}
  BY <1>1 DEF TypeOK, SoundDrain
<1>3. UNCHANGED <<day, spilled, spill, quar, store, parked>>
  BY DEF StartPass, EndPass, Crash, StampRetry, MovedBack, CheckReturn, TakeOver, writers, aside
<1>4. NothingDropped' /\ CopiesAgree' /\ Careful'
  BY <1>0, <1>2, <1>3, QuietStep
<1>5. ASSUME NEW g \in Names, Unused(g), Unknown(g, d) PROVE Unused(g)' /\ Unknown(g, d)'
  <2>1. Unused(g)'
    BY <1>3, <1>5 DEF StartPass, EndPass, Crash, StampRetry, MovedBack, CheckReturn, TakeOver, aside, Unused,
                      IInv, TypeOK
  <2>2. Unknown(g, d)'
    BY <1>1, <1>5, FilesAssumption DEF Unknown, Unused, Pending
  <2>3. QED
    BY <2>1, <2>2
<1>6. OwnDest'
  BY <1>0, <1>1, <1>5, OwnStep
<1>7. QED
  BY <1>4, <1>6 DEF IInv

\* A drain turns a file down, or goes on to the next: Open, Record and WriteReason.
LEMMA JudgedKeeps ==
  ASSUME IInv, TypeOK', NEW d \in Drains, DrainSpill(d), drain[d].name \in Names,
         UNCHANGED <<day, spilled, spill, quar, store, parked>>,
         Condemn(d) \/ (NextFile(d) /\ \A g \in Names : ~reason[g] /\ Unknown(g, d) => ~reason'[g])
  PROVE  IInv'
<1>0. \A e \in Drains \ {d} : drain'[e] = drain[e]
  BY OthersStay DEF IInv
<1>1. drain'[d].pc \in {"quarantine", "next"}
  <2>1. drain = [e \in Drains |-> drain[e]] /\ drain[d] \in DrainState
    BY DEF IInv, TypeOK, SoundDrain
  <2>2. CASE NextFile(d)
    BY <2>1, <2>2 DEF NextFile, Onward, Idle
  <2>3. CASE Condemn(d)
    <3>1. \E g : drain' = [drain EXCEPT ![d].pc = "quarantine", ![d].dest = g]
      BY <2>3 DEF Condemn
    <3>2. QED
      BY <2>1, <3>1 DEF DrainState
  <2>4. QED
    BY <2>2, <2>3
<1>2. drain'[d].lines = {}
  BY <1>1 DEF TypeOK, SoundDrain
<1>3. NothingDropped' /\ CopiesAgree' /\ Careful'
  BY <1>0, <1>2, QuietStep
<1>4. OwnDest'
  <2>1. CASE Condemn(d)
    BY <2>1, <1>0, CondemnOwn, OwnStep DEF IInv
  <2>2. CASE NextFile(d) /\ \A g \in Names : ~reason[g] /\ Unknown(g, d) => ~reason'[g]
    <3>1. ASSUME NEW g \in Names, Unused(g), Unknown(g, d) PROVE Unused(g)' /\ Unknown(g, d)'
      BY <2>2, <3>1, OnwardOwn DEF IInv, NextFile, Unused
    <3>2. drain'[d].pc # "quarantine"
      BY <2>2 DEF IInv, TypeOK, NextFile, Onward, Idle
    <3>3. QED
      BY <1>0, <3>1, <3>2, OwnStep
  <2>3. QED
    BY <2>1, <2>2
<1>5. QED
  BY <1>3, <1>4 DEF IInv

LEMMA RecordKeeps ==
  ASSUME IInv, TypeOK', NEW d \in Drains, Record(d) \/ WriteReason(d)
  PROVE  IInv'
<1>1. /\ drain[d].name \in Names /\ SoundDrain(drain[d]) /\ reason \in [Names -> BOOLEAN]
      /\ UNCHANGED <<day, spilled, spill, quar, store, parked>>
  BY DEF IInv, TypeOK, SoundDrain, Record, WriteReason, At, writers
<1>2. CASE Record(d)
  <2>1. Condemn(d) \/ (NextFile(d) /\ UNCHANGED reason)
    BY <1>2, Zenon DEF Record
  <2>2. QED
    BY <2>1, <1>1, <1>2, JudgedKeeps DEF DrainSpill, DrainOne
<1>3. CASE WriteReason(d)
  <2>1. NextFile(d) /\ (reason' = [reason EXCEPT ![drain[d].dest] = TRUE] \/ UNCHANGED reason)
    BY <1>3 DEF WriteReason
  <2>2. \A g \in Names : ~reason[g] /\ Unknown(g, d) => ~reason'[g]
    BY <2>1, <1>1 DEF Unknown
  <2>3. QED
    BY <2>1, <2>2, <1>1, <1>3, JudgedKeeps DEF DrainSpill, SetAside
<1>4. QED
  BY <1>2, <1>3

LEMMA MoveBackKeeps == ASSUME IInv, TypeOK', NEW d \in Drains, MoveBack(d) PROVE IInv'
<1> DEFINE f == drain[d].name
<1>0. /\ \A e \in Drains \ {d} : drain'[e] = drain[e]
      /\ f \in Names /\ drain[d] \in DrainState /\ drain = [e \in Drains |-> drain[e]]
      /\ UNCHANGED <<day, spilled, reason, store, parked>> /\ Placed' = Placed
  BY OthersStay DEF IInv, DrainSpill, Retry, TypeOK, SoundDrain, MoveBack, At, writers, Placed
<1>1. drain'[d].pc \in {"returned", "next"}
  BY <1>0 DEF MoveBack, To, Onward, Idle, DrainState
<1>2. drain'[d].lines = {}
  BY <1>1 DEF TypeOK, SoundDrain
<1>3. CASE UNCHANGED <<spill, quar>> /\ Onward(d, Pending)
  <2>1. NothingDropped' /\ CopiesAgree' /\ Careful'
    BY <1>0, <1>2, <1>3, QuietStep
  <2>2. ASSUME NEW g \in Names, Unused(g), Unknown(g, d) PROVE Unused(g)' /\ Unknown(g, d)'
    BY <2>2, <1>0, <1>3, OnwardOwn DEF IInv, Unused
  <2>3. QED
    BY <2>1, <2>2, <1>0, <1>1, OwnStep DEF IInv
<1>4. CASE /\ spill' = [spill EXCEPT ![f] = quar[f]] /\ quar' = [quar EXCEPT ![f] = {}]
           /\ quar[f] # {} /\ To(d, "returned")
  <2>1. ASSUME NEW t \in spill[f] \ Placed PROVE t \in quar[f]
    <3>1. IsCopy(f, spill[f]) /\ IsCopy(f, quar[f]) /\ spill[f] \in SUBSET Turns /\ quar[f] \in SUBSET Turns
      BY <2>1, <1>0, <1>4 DEF IsCopy, IInv, TypeOK
    <3>2. spill[f] \ Placed = quar[f] \ Placed
      BY <3>1, <1>0 DEF IInv, CopiesAgree
    <3>3. QED
      BY <2>1, <3>2
  <2>2. NothingDropped'
    BY <2>1, <1>0, <1>4 DEF IInv, TypeOK, NothingDropped, OnDisk
  <2>3. ASSUME NEW g \in Names, NEW u \in SUBSET Turns, IsCopy(g, u)' PROVE IsCopy(g, u)
    BY <2>3, <1>0, <1>2, <1>4 DEF IsCopy, IInv, TypeOK
  <2>4. CopiesAgree'
    BY <2>3, <1>0, AgreeStep DEF IInv
  <2>5. Careful'
    BY <1>0, <1>2 DEF IInv, Careful
  <2>6. ASSUME NEW g \in Names, Unused(g), Unknown(g, d) PROVE Unused(g)' /\ Unknown(g, d)'
    BY <2>6, <1>0, <1>4 DEF Unused, Unknown, To, DrainState, IInv, TypeOK
  <2>7. QED
    BY <2>2, <2>4, <2>5, <2>6, <1>0, <1>1, OwnStep DEF IInv
<1>5. QED
  BY <1>3, <1>4 DEF MoveBack

LEMMA ClaimKeeps == ASSUME IInv, TypeOK', NEW d \in Drains, Claim(d) PROVE IInv'
<1>0. /\ \A e \in Drains \ {d} : drain'[e] = drain[e]
      /\ drain[d] \in DrainState /\ drain = [e \in Drains |-> drain[e]] /\ drain[d].pc = "next"
      /\ UNCHANGED <<spilled, quar, store, parked>> /\ Placed' = Placed
  BY OthersStay DEF IInv, DrainSpill, TypeOK, SoundDrain, Claim, At, Placed
<1>1. CASE Skip(d, Day) /\ UNCHANGED <<day, spill, tries, reason>>
  <2>1. /\ drain'[d].pc = "next" /\ drain'[d].todo \subseteq drain[d].todo
        /\ drain'[d].name = drain[d].name /\ drain'[d].dest = drain[d].dest
    BY <1>0, <1>1 DEF Skip, DrainState
  <2>2. NothingDropped' /\ CopiesAgree' /\ Careful'
    BY <2>1, <1>0, <1>1, QuietStep DEF TypeOK, SoundDrain
  <2>3. ASSUME NEW g \in Names, Unused(g), Unknown(g, d) PROVE Unused(g)' /\ Unknown(g, d)'
    BY <2>1, <2>3, <1>0, <1>1 DEF Unused, Unknown
  <2>4. QED
    BY <2>1, <2>2, <2>3, <1>0, OwnStep DEF IInv
<1>2. ASSUME NEW f \in Fresh, spill' = [spill EXCEPT ![f] = day], day' = {},
             reason' = [reason EXCEPT ![f] = FALSE],
             drain' = [drain EXCEPT ![d].pc = "open", ![d].name = f, ![d].todo = @ \ {Day}]
      PROVE  IInv'
  <2>1. /\ drain'[d].pc = "open" /\ drain'[d].todo \subseteq drain[d].todo
        /\ drain'[d].name = f /\ drain'[d].dest = drain[d].dest
    BY <1>0, <1>2 DEF DrainState
  <2>2. /\ f \in Names /\ spill[f] = {} /\ quar[f] = {} /\ drain'[d].lines = {}
        /\ \A e \in Drains : drain[e].name # f
    BY <2>1, <1>2 DEF Fresh, TypeOK, SoundDrain
  <2>3. NothingDropped'
    BY <2>2, <1>0, <1>2 DEF IInv, TypeOK, NothingDropped, OnDisk
  <2>4. CopiesAgree'
    <3>1. ASSUME NEW u \in SUBSET Turns, IsCopy(f, u)' PROVE u = day
      BY <3>1, <2>2, <1>0, <1>2 DEF IsCopy, IInv, TypeOK
    <3>2. ASSUME NEW g \in Names \ {f}, NEW u \in SUBSET Turns, IsCopy(g, u)' PROVE IsCopy(g, u)
      BY <3>2, <2>2, <1>0, <1>2 DEF IsCopy, IInv, TypeOK
    <3>3. day \in SUBSET Turns
      BY DEF IInv, TypeOK
    <3>4. QED
      BY <3>1, <3>2, <3>3, <1>0, AgreeStep DEF IInv
  <2>5. Careful'
    BY <2>2, <1>0 DEF IInv, Careful
  <2>6. ASSUME NEW g \in Names \ Fresh, Unused(g), Unknown(g, d) PROVE Unused(g)' /\ Unknown(g, d)'
    BY <2>1, <2>6, <1>0, <1>2 DEF Unused, Unknown, IInv, TypeOK
  <2>7. QED
    BY <2>1, <2>3, <2>4, <2>5, <2>6, <1>0, OwnStep DEF IInv
<1>3. CASE UNCHANGED <<day, spill, tries, reason>>
  <2>1. CASE Skip(d, Day)
    BY <2>1, <1>1, <1>3
  <2>2. CASE ~Skip(d, Day)
    BY <2>2, <1>2, Zenon DEF Claim
  <2>3. QED
    BY <2>1, <2>2
<1>4. CASE ~UNCHANGED <<day, spill, tries, reason>>
  <2>1. /\ day' = {}
        /\ \E f \in Fresh :
              /\ spill' = [spill EXCEPT ![f] = day]
              /\ tries' = [tries EXCEPT ![f] = 0] /\ reason' = [reason EXCEPT ![f] = FALSE]
              /\ drain' = [drain EXCEPT ![d].pc = "open", ![d].name = f, ![d].todo = @ \ {Day}]
    BY <1>4, Zenon DEF Claim
  <2>2. QED
    BY <2>1, <1>2
<1>5. QED
  BY <1>3, <1>4

LEMMA OpenKeeps == ASSUME IInv, TypeOK', NEW d \in Drains, Open(d) PROVE IInv'
<1> DEFINE f == drain[d].name
<1>0. /\ \A e \in Drains \ {d} : drain'[e] = drain[e]
      /\ f \in Names /\ drain[d] \in DrainState /\ drain = [e \in Drains |-> drain[e]]
      /\ UNCHANGED <<day, spilled, spill, quar, store, parked>> /\ Placed' = Placed
  BY OthersStay DEF IInv, DrainSpill, TypeOK, SoundDrain, Open, At, writers, Placed
<1>1. CASE Condemn(d) \/ (NextFile(d) /\ UNCHANGED reason)
  BY <1>0, <1>1, JudgedKeeps DEF DrainSpill
<1>2. CASE /\ drain' = [drain EXCEPT ![d].pc = "insert", ![d].lines = spill[f], ![d].left = spill[f]]
           /\ UNCHANGED reason
  <2>1. /\ drain'[d].pc = "insert" /\ drain'[d].todo = drain[d].todo /\ drain'[d].name = f
        /\ drain'[d].dest = drain[d].dest /\ drain'[d].lines = spill[f] /\ drain'[d].left = spill[f]
    BY <1>0, <1>2 DEF DrainState
  <2>2. NothingDropped'
    BY <1>0 DEF IInv, NothingDropped, OnDisk
  <2>3. ASSUME NEW g \in Names, NEW u \in SUBSET Turns, IsCopy(g, u)' PROVE IsCopy(g, u)
    BY <2>1, <2>3, <1>0 DEF IsCopy
  <2>4. CopiesAgree'
    BY <2>3, <1>0, AgreeStep DEF IInv
  <2>5. Careful'
    BY <2>1, <1>0 DEF IInv, Careful
  <2>6. ASSUME NEW g \in Names, Unused(g), Unknown(g, d) PROVE Unused(g)' /\ Unknown(g, d)'
    BY <2>1, <2>6, <1>0, <1>2 DEF Unused, Unknown
  <2>7. QED
    BY <2>1, <2>2, <2>4, <2>5, <2>6, <1>0, OwnStep DEF IInv
<1>3. QED
  BY <1>1, <1>2 DEF Open

\* Writing and parking: lines find their place, the files stay as they are.
LEMMA PlacingKeeps ==
  ASSUME IInv, TypeOK', NEW d \in Drains, DrainSpill(d),
         UNCHANGED <<day, spilled, spill, quar, reason>>,
         store \subseteq store', parked \subseteq parked', drain'[d].pc # "quarantine",
         drain'[d].todo = drain[d].todo, drain'[d].name = drain[d].name,
         drain'[d].dest = drain[d].dest, drain'[d].lines = drain[d].lines,
         drain'[d].lines \ Placed' \subseteq drain'[d].left \cup drain'[d].keep
  PROVE  IInv'
<1>0. (\A e \in Drains \ {d} : drain'[e] = drain[e]) /\ Placed \subseteq Placed'
  BY OthersStay DEF IInv, Placed
<1>1. NothingDropped'
  BY <1>0 DEF IInv, NothingDropped, OnDisk
<1>2. ASSUME NEW g \in Names, NEW u \in SUBSET Turns, IsCopy(g, u)' PROVE IsCopy(g, u)
  BY <1>0, <1>2 DEF IsCopy
<1>3. CopiesAgree'
  BY <1>0, <1>2, AgreeStep DEF IInv
<1>4. Careful'
  BY <1>0 DEF IInv, Careful
<1>5. ASSUME NEW g \in Names, Unused(g), Unknown(g, d) PROVE Unused(g)' /\ Unknown(g, d)'
  BY <1>5 DEF Unused, Unknown
<1>6. QED
  BY <1>0, <1>1, <1>3, <1>4, <1>5, OwnStep DEF IInv

LEMMA InsertKeeps ==
  ASSUME IInv, TypeOK', NEW d \in Drains, NEW x \in Targets, Insert(d, x) PROVE IInv'
<1> DEFINE group == Group(d, x)
           broken == target[x] = "broken"
<1>0. /\ drain[d].pc = "insert" /\ drain[d] \in DrainState /\ drain = [e \in Drains |-> drain[e]]
      /\ drain[d].lines \ Placed \subseteq drain[d].left \cup drain[d].keep
      /\ UNCHANGED <<day, spilled, spill, quar, reason, parked>>
  BY DEF IInv, TypeOK, SoundDrain, Careful, Insert, At, writers, aside
<1>1. CASE store' = store \cup group /\ drain' = [drain EXCEPT ![d].left = @ \ group]
  <2>1. /\ drain'[d].pc = "insert" /\ drain'[d].todo = drain[d].todo /\ drain'[d].name = drain[d].name
        /\ drain'[d].dest = drain[d].dest /\ drain'[d].lines = drain[d].lines
        /\ drain'[d].left = drain[d].left \ group /\ drain'[d].keep = drain[d].keep
    BY <1>0, <1>1 DEF DrainState
  <2>2. QED
    BY <2>1, <1>0, <1>1, PlacingKeeps DEF DrainSpill, DrainOne, Placed
<1>2. CASE /\ UNCHANGED store
           /\ drain' = [drain EXCEPT ![d].left = @ \ group, ![d].keep = Kept(d, group, broken),
                                     ![d].counted = @ \/ broken]
  <2>1. /\ drain'[d].pc = "insert" /\ drain'[d].todo = drain[d].todo /\ drain'[d].name = drain[d].name
        /\ drain'[d].dest = drain[d].dest /\ drain'[d].lines = drain[d].lines
        /\ drain'[d].left = drain[d].left \ group /\ drain'[d].keep = drain[d].keep \cup group
    BY <1>0, <1>2 DEF DrainState, Kept
  <2>2. QED
    BY <2>1, <1>0, <1>2, PlacingKeeps DEF DrainSpill, DrainOne, Placed
<1>3. QED
  BY <1>1, <1>2, Zenon DEF Insert

LEMMA ParkKeeps == ASSUME IInv, TypeOK', NEW d \in Drains, Park(d) PROVE IInv'
<1> DEFINE left == drain[d].left
<1>0. /\ drain[d].pc = "insert" /\ drain[d] \in DrainState /\ drain = [e \in Drains |-> drain[e]]
      /\ drain[d].lines \ Placed \subseteq left \cup drain[d].keep
      /\ UNCHANGED <<day, spilled, spill, quar, reason, store>>
  BY DEF IInv, TypeOK, SoundDrain, Careful, Park, At, writers
<1>1. PICK moved \in {left, left \cap glued, left \ glued, {}} :
        /\ parked' = parked \cup moved
        /\ drain' = [drain EXCEPT ![d].pc = "settle", ![d].left = {},
                                  ![d].keep = Kept(d, left \ moved, TRUE),
                                  ![d].counted = @ \/ left # moved]
  BY Zenon DEF Park
<1>2. /\ drain'[d].pc = "settle" /\ drain'[d].todo = drain[d].todo /\ drain'[d].name = drain[d].name
      /\ drain'[d].dest = drain[d].dest /\ drain'[d].lines = drain[d].lines
      /\ drain'[d].left = {} /\ drain'[d].keep = drain[d].keep \cup (left \ moved)
  BY <1>0, <1>1 DEF DrainState, Kept
<1>3. QED
  BY <1>0, <1>1, <1>2, PlacingKeeps DEF DrainSpill, DrainOne, Placed

LEMMA SettleKeeps == ASSUME IInv, TypeOK', NEW d \in Drains, Settle(d) PROVE IInv'
<1> DEFINE f == drain[d].name
           keep == drain[d].keep
           lines == drain[d].lines
<1>0. /\ \A e \in Drains \ {d} : drain'[e] = drain[e]
      /\ f \in Names /\ drain[d] \in DrainState /\ drain = [e \in Drains |-> drain[e]]
      /\ lines # {} /\ keep \subseteq lines /\ lines \ Placed \subseteq keep
      /\ UNCHANGED <<day, spilled, quar, reason, store, parked>> /\ Placed' = Placed
  <2>1. drain[d].left = {} /\ lines \ Placed \subseteq drain[d].left \cup keep
    BY DEF IInv, TypeOK, SoundDrain, Careful, Settle, At
  <2>2. QED
    BY <2>1, OthersStay DEF IInv, DrainSpill, DrainOne, TypeOK, SoundDrain, Settle, At, writers, aside, Placed
<1>1. NextFile(d) \/ drain' = [drain EXCEPT ![d].pc = "record", ![d].lines = {}, ![d].keep = {}]
  BY Zenon DEF Settle
<1>2. drain'[d].pc \in {"next", "record"}
  <2>1. CASE NextFile(d)
    BY <2>1, <1>0 DEF NextFile, Onward, Idle
  <2>2. CASE drain' = [drain EXCEPT ![d].pc = "record", ![d].lines = {}, ![d].keep = {}]
    BY <2>2, <1>0 DEF DrainState
  <2>3. QED
    BY <2>1, <2>2, <1>1
<1>3. drain'[d].lines = {}
  BY <1>2 DEF TypeOK, SoundDrain
<1>4. ASSUME NEW g \in Names, Unused(g), Unknown(g, d) PROVE Unused(g)' /\ Unknown(g, d)'
  <2>1. CASE NextFile(d)
    <3>1. Unknown(g, d)'
      BY <2>1, <1>4, OnwardOwn DEF IInv, NextFile
    <3>2. QED
      BY <3>1, <1>4, <1>0 DEF Settle, Unused, Unknown, IInv, TypeOK
  <2>2. CASE drain' = [drain EXCEPT ![d].pc = "record", ![d].lines = {}, ![d].keep = {}]
    <3>1. Unknown(g, d)'
      BY <2>2, <1>0, <1>4 DEF Unknown, DrainState
    <3>2. QED
      BY <3>1, <1>4, <1>0 DEF Settle, Unused, Unknown, IInv, TypeOK
  <2>3. QED
    BY <2>1, <2>2, <1>1
<1>5. OwnDest'
  BY <1>0, <1>2, <1>4, OwnStep
<1>6. CASE UNCHANGED spill
  BY <1>0, <1>3, <1>5, <1>6, QuietStep DEF IInv
<1>7. CASE spill' = [spill EXCEPT ![f] = keep]
  <2>1. IsCopy(f, lines) /\ lines \in SUBSET Turns
    BY <1>0 DEF IsCopy, DrainState
  <2>2. ASSUME NEW t \in spill[f] \ Placed PROVE t \in keep
    <3>1. IsCopy(f, spill[f]) /\ spill[f] \in SUBSET Turns
      BY <2>2, <1>0 DEF IsCopy, IInv, TypeOK
    <3>2. spill[f] \ Placed = lines \ Placed
      BY <3>1, <2>1, <1>0 DEF IInv, CopiesAgree
    <3>3. QED
      BY <3>2, <2>2, <1>0
  <2>3. NothingDropped'
    BY <2>2, <1>0, <1>7 DEF IInv, TypeOK, NothingDropped, OnDisk
  <2>4. keep \ Placed = lines \ Placed
    BY <1>0
  <2>5. ASSUME NEW g \in Names, NEW u \in SUBSET Turns, IsCopy(g, u)'
        PROVE  IsCopy(g, u) \/ (g = f /\ u = keep)
    BY <2>5, <1>0, <1>3, <1>7 DEF IsCopy, IInv, TypeOK
  <2>6. CopiesAgree'
    BY <2>1, <2>4, <2>5, <1>0, AgreeStep DEF IInv
  <2>7. Careful'
    BY <1>0, <1>3 DEF IInv, Careful
  <2>8. QED
    BY <2>3, <2>6, <2>7, <1>5 DEF IInv
<1>8. QED
  BY <1>6, <1>7 DEF Settle

LEMMA QuarantineKeeps == ASSUME IInv, TypeOK', NEW d \in Drains, Quarantine(d) PROVE IInv'
<1> DEFINE f == drain[d].name
           g == drain[d].dest
<1>0. /\ \A e \in Drains \ {d} : drain'[e] = drain[e]
      /\ f \in Names /\ g \in Names /\ drain[d].pc = "quarantine"
      /\ drain[d] \in DrainState /\ drain = [e \in Drains |-> drain[e]]
      /\ UNCHANGED <<day, spilled, reason, store, parked>> /\ Placed' = Placed
  BY OthersStay DEF IInv, DrainSpill, SetAside, TypeOK, SoundDrain, Quarantine, At, writers, Placed
<1>1. drain'[d].pc \in {"reason", "next"}
  BY <1>0 DEF Quarantine, To, NextFile, Onward, Idle, DrainState
<1>2. drain'[d].lines = {}
  BY <1>1 DEF TypeOK, SoundDrain
<1>3. CASE UNCHANGED <<spill, quar>> /\ NextFile(d)
  BY <1>0, <1>3, JudgedKeeps DEF DrainSpill, SetAside
<1>4. CASE /\ spill[f] # {} /\ To(d, "reason")
           /\ quar' = [quar EXCEPT ![g] = spill[f]] /\ spill' = [spill EXCEPT ![f] = {}]
  <2>1. /\ drain'[d].todo = drain[d].todo /\ drain'[d].name = f /\ drain'[d].dest = g
    BY <1>0, <1>4 DEF To, DrainState
  <2>2. IsCopy(f, spill[f]) /\ spill[f] \in SUBSET Turns
    BY <1>0, <1>4 DEF IsCopy, IInv, TypeOK
  <2>3. g # f => Unused(g) /\ \A e \in Drains \ {d} : Unknown(g, e)
    BY <1>0 DEF IInv, OwnDest
  <2>4. ASSUME NEW t \in quar[g] \ Placed PROVE t \in spill[f]
    <3>1. g = f
      BY <2>3, <2>4 DEF Unused
    <3>2. IsCopy(f, quar[f]) /\ quar[f] \in SUBSET Turns
      BY <3>1, <2>4, <1>0 DEF IsCopy, IInv, TypeOK
    <3>3. QED
      BY <3>1, <3>2, <2>2, <2>4, <1>0 DEF IInv, CopiesAgree
  <2>5. NothingDropped'
    BY <2>4, <1>0, <1>4 DEF IInv, TypeOK, NothingDropped, OnDisk
  <2>6. CopiesAgree'
    <3>1. ASSUME NEW h \in Names, h # g, NEW u \in SUBSET Turns, IsCopy(h, u)' PROVE IsCopy(h, u)
      BY <3>1, <1>0, <1>2, <1>4 DEF IsCopy, IInv, TypeOK
    <3>2. ASSUME NEW h \in Names, h = g, g # f, NEW u \in SUBSET Turns, IsCopy(h, u)' PROVE u = spill[f]
      <4>1. quar'[g] = spill[f] /\ spill'[g] = {}
        <5>1. spill \in [Names -> SUBSET spilled] /\ quar \in [Names -> SUBSET spilled]
          BY DEF IInv, TypeOK
        <5>2. g # f /\ spill[g] = {}
          BY <3>2, <2>3 DEF Unused
        <5>3. QED
          BY <5>1, <5>2, <1>0, <1>4
      <4>2. \A e \in Drains : drain'[e].name # g \/ e = d
        BY <3>2, <2>3, <1>0 DEF Unknown
      <4>3. QED
        BY <4>1, <4>2, <3>2, <1>2 DEF IsCopy
    <3>3. ASSUME NEW h \in Names, h = g, g = f, NEW u \in SUBSET Turns, IsCopy(h, u)' PROVE IsCopy(h, u)
      <4>1. quar'[f] = spill[f] /\ spill'[f] = {}
        <5>1. spill \in [Names -> SUBSET spilled] /\ quar \in [Names -> SUBSET spilled]
          BY DEF IInv, TypeOK
        <5>2. g = f
          BY <3>3
        <5>3. QED
          BY <5>1, <5>2, <1>0, <1>4
      <4>2. u = spill[f] \/ \E e \in Drains \ {d} : drain[e].name = f /\ u = drain[e].lines
        BY <4>1, <3>3, <1>0, <1>2 DEF IsCopy
      <4>3. QED
        BY <4>2, <3>3 DEF IsCopy
    <3>4. ASSUME NEW h \in Names, NEW u \in SUBSET Turns, IsCopy(h, u)'
          PROVE  IsCopy(h, u) \/ (h = g /\ g # f /\ u = spill[f])
      BY <3>1, <3>2, <3>3, <3>4
    <3>5. ASSUME NEW h \in Names
          PROVE  \/ \A u \in SUBSET Turns : IsCopy(h, u)' =>
                       \E w \in SUBSET Turns : IsCopy(h, w) /\ u \ Placed' = w \ Placed'
                 \/ \E w \in SUBSET Turns : \A u \in SUBSET Turns : IsCopy(h, u)' => u = w
      <4>1. CASE h = g /\ g # f
        BY <4>1, <3>2, <2>2
      <4>2. CASE ~(h = g /\ g # f)
        BY <4>2, <3>4
      <4>3. QED
        BY <4>1, <4>2
    <3>6. QED
      BY <3>5, <1>0, AgreeStep DEF IInv
  <2>7. Careful'
    BY <1>0, <1>2 DEF IInv, Careful
  <2>8. ASSUME NEW h \in Names, Unused(h), Unknown(h, d) PROVE Unused(h)' /\ Unknown(h, d)'
    BY <2>8, <2>1, <1>0, <1>4 DEF Unused, Unknown, IInv, TypeOK
  <2>9. QED
    BY <2>5, <2>6, <2>7, <2>8, <1>0, <1>1, OwnStep DEF IInv
<1>5. QED
  BY <1>3, <1>4 DEF Quarantine

LEMMA WorldKeeps == ASSUME IInv, TypeOK', World PROVE IInv'
<1>0. UNCHANGED <<spill, quar, reason, store, parked, drain>>
  BY DEF World, SpillBatch, AppendBreaksOff, DayPasses, StoreFails, StoreRecovers, writers, aside
<1>1. spilled' \ spilled \subseteq day' /\ day \subseteq day'
  BY DEF World, SpillBatch, AppendBreaksOff, DayPasses, StoreFails, StoreRecovers, writers
<1>2. NothingDropped'
  BY <1>0, <1>1 DEF IInv, NothingDropped, Placed, OnDisk
<1>3. CopiesAgree' /\ Careful' /\ OwnDest'
  BY <1>0 DEF IInv, CopiesAgree, Careful, OwnDest, IsCopy, Placed, Unused, Unknown
<1>4. QED
  BY <1>2, <1>3 DEF IInv

LEMMA NextIInv == IInv /\ [Next]_vars => IInv'
<1> SUFFICES ASSUME IInv, [Next]_vars PROVE IInv'
  OBVIOUS
<1>0. TypeOK'
  BY NextTypeOK DEF IInv
<1>1. CASE World
  BY <1>0, <1>1, WorldKeeps
<1>2. ASSUME NEW d \in Drains, DrainSpill(d) \/ Crash(d) PROVE IInv'
  BY <1>0, <1>2, PassKeeps, RecordKeeps, MoveBackKeeps, ClaimKeeps, OpenKeeps, InsertKeeps, ParkKeeps,
     SettleKeeps, QuarantineKeeps DEF DrainSpill, Retry, DrainOne, SetAside
<1>3. CASE UNCHANGED vars
  <2>1. UNCHANGED <<day, spilled, spill, quar, reason, store, parked, drain>>
    BY <1>3 DEF vars, writers, aside
  <2>2. NothingDropped'
    BY <2>1 DEF IInv, NothingDropped, Placed, OnDisk
  <2>3. Careful' /\ OwnDest'
    BY <2>1 DEF IInv, Careful, OwnDest, Placed, Unused, Unknown
  <2>4. CopiesAgree'
    BY <2>1 DEF IInv, CopiesAgree, IsCopy, Placed
  <2>5. QED
    BY <1>0, <2>2, <2>3, <2>4 DEF IInv
<1>4. QED
  BY <1>1, <1>2, <1>3 DEF Next

\* "Every line ends in exactly one place": for any number of drains, whatever fails
\* and whoever dies, a turn whose _spill_batch returned is in its store, parked,
\* or in a file.
THEOREM NeverDropped == Spec => []NothingDropped
<1>1. IInv => NothingDropped
  BY DEF IInv
<1>2. QED
  BY <1>1, InitIInv, NextIInv, PTL DEF Spec
-----------------------------------------------------------------------------
(* The drain implements SpillShelf. *)

\* What was placed is where it belongs: a line of the own stores that is a JSON
\* object in its store, any other line among the parked ones.
Sorted ==
    /\ \A t \in store : t \notin glued /\ TargetOf[t] \notin Foreign
    /\ \A t \in parked : t \in glued \/ TargetOf[t] \in Foreign

\* The steps that neither accept a turn nor place one.
LEMMA NonPlacing ==
  ASSUME [Next]_vars
  PROVE  \/ UNCHANGED <<glued, spilled, store, parked>>
         \/ \E batch \in SUBSET Turns : SpillBatch(batch)
         \/ \E d \in Drains : Park(d) \/ \E x \in Targets : Insert(d, x)
<1>1. CASE World
  BY <1>1 DEF World, AppendBreaksOff, DayPasses, StoreFails, StoreRecovers, writers
<1>2. ASSUME NEW d \in Drains, StartPass(d) \/ Claim(d) \/ Open(d) \/ Settle(d) \/ Record(d)
             \/ EndPass(d) \/ Crash(d) \/ (\E f \in Names : TakeOver(d, f))
      PROVE  UNCHANGED <<glued, spilled, store, parked>>
  BY <1>2 DEF StartPass, Claim, Open, Settle, Record, EndPass, Crash, TakeOver, writers
<1>3. ASSUME NEW d \in Drains, Retry(d) \/ SetAside(d)
      PROVE  UNCHANGED <<glued, spilled, store, parked>>
  BY <1>3 DEF Retry, SetAside, CheckReturn, MoveBack, MovedBack, StampRetry, Quarantine, WriteReason, writers
<1>4. CASE UNCHANGED vars
  BY <1>4 DEF vars, writers
<1>5. QED
  BY <1>1, <1>2, <1>3, <1>4 DEF Next, DrainSpill, DrainOne

LEMMA NextSorted == ASSUME TypeOK, Sorted, [Next]_vars PROVE Sorted'
<1>1. ASSUME NEW d \in Drains, NEW x \in Targets, Insert(d, x) PROVE Sorted'
  <2>1. \A t \in Group(d, x) : t \notin glued /\ TargetOf[t] \notin Foreign
    BY <1>1 DEF Group, Insert
  <2>2. UNCHANGED <<glued, parked>> /\ (store' = store \/ store' = store \cup Group(d, x))
    BY <1>1 DEF Insert, writers
  <2>3. QED
    BY <2>1, <2>2 DEF Sorted
<1>2. ASSUME NEW d \in Drains, Park(d) PROVE Sorted'
  <2>1. \A t \in drain[d].left : t \in glued \/ TargetOf[t] \in Foreign
    BY <1>2 DEF Park
  <2>2. UNCHANGED <<glued, store>> /\ parked' \subseteq parked \cup drain[d].left
    BY <1>2 DEF Park, writers
  <2>3. QED
    BY <2>1, <2>2 DEF Sorted
<1>3. ASSUME NEW batch \in SUBSET Turns, SpillBatch(batch) PROVE Sorted'
  <2>1. UNCHANGED <<store, parked>> /\ glued \subseteq glued' /\ glued' \subseteq glued \cup batch
    BY <1>3 DEF SpillBatch
  <2>2. store \cap batch = {}
    BY <1>3 DEF SpillBatch, TypeOK
  <2>3. QED
    BY <2>1, <2>2 DEF Sorted
<1>4. CASE UNCHANGED <<glued, spilled, store, parked>>
  BY <1>4 DEF Sorted
<1>5. QED
  BY <1>1, <1>2, <1>3, <1>4, NonPlacing

SInv == IInv /\ Sorted

\* Every spilled turn is on disk until it is placed, and is never both in its
\* store and parked.
WaitsOnDisk == OnDisk \ Placed = spilled \ Placed /\ store \cap parked = {}

LEMMA SortedWaits == SInv => WaitsOnDisk
<1> SUFFICES ASSUME SInv PROVE WaitsOnDisk
  OBVIOUS
<1>1. OnDisk \subseteq spilled
  BY DEF SInv, IInv, TypeOK, OnDisk
<1>2. spilled \subseteq Placed \cup OnDisk
  BY DEF SInv, IInv, NothingDropped
<1>3. QED
  BY <1>1, <1>2 DEF SInv, Sorted, WaitsOnDisk

LEMMA StepOfTheShelf ==
  ASSUME SInv, WaitsOnDisk, WaitsOnDisk', [Next]_vars PROVE Shelf!Next \/ UNCHANGED Shelf!vars
<1> DEFINE wait == OnDisk \ Placed
<1>0. wait = spilled \ Placed /\ wait' = spilled' \ Placed'
  BY DEF WaitsOnDisk
<1>1. CASE UNCHANGED <<glued, spilled, store, parked>>
  BY <1>0, <1>1 DEF Shelf!vars, Placed
<1>2. ASSUME NEW batch \in SUBSET Turns, SpillBatch(batch) PROVE Shelf!Accept
  <2>1. spilled' = spilled \cup batch /\ batch \cap spilled = {} /\ UNCHANGED <<store, parked>>
    BY <1>2 DEF SpillBatch
  <2>2. Placed \subseteq spilled /\ Placed' = Placed
    BY <2>1 DEF SInv, IInv, TypeOK, Placed
  <2>3. wait' = wait \cup batch /\ batch \in SUBSET (Turns \ (wait \cup store \cup parked))
    BY <2>1, <2>2, <1>0 DEF Placed
  <2>4. QED
    BY <2>1, <2>3 DEF Shelf!Accept
<1>3. ASSUME NEW d \in Drains, NEW x \in Targets, Insert(d, x) PROVE Shelf!Next \/ UNCHANGED Shelf!vars
  <2>1. UNCHANGED <<spilled, parked>> /\ (store' = store \/ store' = store \cup Group(d, x))
    BY <1>3 DEF Insert, writers
  <2>2. Group(d, x) \subseteq spilled /\ Group(d, x) \cap parked = {}
    <3>1. Group(d, x) \subseteq drain[d].left /\ drain[d].left \subseteq spilled
      BY DEF SInv, IInv, TypeOK, SoundDrain, Group
    <3>2. \A t \in Group(d, x) : t \notin glued /\ TargetOf[t] \notin Foreign
      BY <1>3 DEF Group, Insert
    <3>3. QED
      BY <3>1, <3>2 DEF SInv, Sorted
  <2>3. CASE store' = store \cup Group(d, x)
    <3> DEFINE group == Group(d, x) \ store
    <3>1. group \in SUBSET wait /\ wait' = wait \ group /\ store' = store \cup group
      BY <2>1, <2>2, <2>3, <1>0 DEF Placed
    <3>2. Shelf!Store(group)
      BY <3>1, <2>1 DEF Shelf!Store
    <3>3. QED
      BY <3>1, <3>2 DEF Shelf!Next
  <2>4. CASE store' = store
    BY <2>1, <2>4, <1>0 DEF Shelf!vars, Placed
  <2>5. QED
    BY <2>1, <2>3, <2>4
<1>4. ASSUME NEW d \in Drains, Park(d) PROVE Shelf!Next \/ UNCHANGED Shelf!vars
  <2>1. PICK moved \in SUBSET drain[d].left : parked' = parked \cup moved
    <3>1. PICK moved \in {drain[d].left, drain[d].left \cap glued, drain[d].left \ glued, {}} :
            parked' = parked \cup moved
      BY <1>4, Zenon DEF Park
    <3>2. QED
      BY <3>1
  <2>2. UNCHANGED <<spilled, store>>
    BY <1>4 DEF Park, writers
  <2>3. moved \subseteq spilled /\ moved \cap store = {}
    <3>1. drain[d].left \subseteq spilled
      BY DEF SInv, IInv, TypeOK, SoundDrain
    <3>2. \A t \in drain[d].left : t \in glued \/ TargetOf[t] \in Foreign
      BY <1>4 DEF Park
    <3>3. QED
      BY <3>1, <3>2 DEF SInv, Sorted
  <2> DEFINE group == moved \ parked
  <2>4. group \in SUBSET wait /\ wait' = wait \ group /\ parked' = parked \cup group
    BY <2>1, <2>2, <2>3, <1>0 DEF Placed
  <2>5. Shelf!SetAside(group)
    BY <2>4, <2>2 DEF Shelf!SetAside
  <2>6. QED
    BY <2>4, <2>5 DEF Shelf!Next
<1>5. QED
  BY <1>1, <1>2, <1>3, <1>4, NonPlacing DEF Shelf!Next

\* "Every line ends in exactly one place": whatever any number of drains do to the
\* files, whoever dies and whatever fails, the chat log sees a shelf on which a turn
\* waits until it is stored or parked, once and for good.
THEOREM DrainImplementsShelf == Spec => ImplementsShelf
<1>1. Init => SInv
  BY InitIInv DEF SInv, Sorted, Init
<1>2. SInv /\ [Next]_vars => SInv'
  BY NextIInv, NextSorted DEF SInv, IInv
<1>3. Init => Shelf!Init
  BY DEF Init, Shelf!Init, OnDisk, Placed
<1>4. SInv /\ WaitsOnDisk /\ WaitsOnDisk' /\ [Next]_vars => [Shelf!Next]_(Shelf!vars)
  BY StepOfTheShelf
<1>5. QED
  BY <1>1, <1>2, <1>3, <1>4, SortedWaits, PTL DEF Spec, ImplementsShelf, Shelf!Spec

-----------------------------------------------------------------------------
(* The cause of malformed lines. *)

\* The program when every append of _spill_batch is whole: no full disk and no
\* death in the middle of a line.  All else may fail as before.
WholeAppends == Init /\ [][Next /\ ~AppendBreaksOff]_vars

Unbroken == ~torn /\ glued = {}

LEMMA NextUnbroken == Unbroken /\ [Next /\ ~AppendBreaksOff]_vars => Unbroken'
<1> SUFFICES ASSUME Unbroken, [Next /\ ~AppendBreaksOff]_vars PROVE Unbroken'
  OBVIOUS
<1>1. CASE UNCHANGED vars
  BY <1>1 DEF Unbroken, vars, writers
<1>2. CASE World /\ ~AppendBreaksOff
  BY <1>2 DEF Unbroken, World, SpillBatch, DayPasses, StoreFails, StoreRecovers, writers
<1>3. ASSUME NEW d \in Drains, DrainSpill(d) \/ Crash(d) PROVE Unbroken'
  <2>1. CASE Claim(d)
    <3>1. UNCHANGED <<torn, glued>> \/ (torn' = FALSE /\ UNCHANGED glued)
      BY <2>1, Zenon DEF Claim
    <3>2. QED
      BY <3>1 DEF Unbroken
  <2>2. CASE StartPass(d) \/ EndPass(d) \/ Crash(d) \/ Open(d) \/ Record(d) \/ Settle(d)
             \/ \E f \in Names : TakeOver(d, f)
    <3>1. UNCHANGED <<torn, glued>>
      BY <2>2 DEF StartPass, EndPass, Crash, Open, Record, Settle, TakeOver, writers
    <3>2. QED
      BY <3>1 DEF Unbroken
  <2>3. CASE Retry(d) \/ SetAside(d)
    <3>1. UNCHANGED <<torn, glued>>
      BY <2>3 DEF Retry, SetAside, CheckReturn, MoveBack, MovedBack, StampRetry, Quarantine, WriteReason, writers
    <3>2. QED
      BY <3>1 DEF Unbroken
  <2>4. CASE Park(d) \/ \E x \in Targets : Insert(d, x)
    <3>1. UNCHANGED <<torn, glued>>
      BY <2>4 DEF Park, Insert, writers
    <3>2. QED
      BY <3>1 DEF Unbroken
  <2>5. QED
    BY <1>3, <2>1, <2>2, <2>3, <2>4 DEF DrainSpill, DrainOne
<1>4. QED
  BY <1>1, <1>2, <1>3 DEF Next

\* "The drain picks them up" (_spill_batch) is broken by nothing but an append cut
\* short: without one, whatever the stores, the renames and the other drains do, only
\* lines of foreign stores are parked.
THEOREM OnlyTornAppendsLose == WholeAppends => []NotMalformed
<1>1. Init => TypeOK /\ Sorted /\ Unbroken
  BY InitTypeOK DEF Init, Sorted, Unbroken
<1>2. TypeOK /\ Sorted /\ Unbroken /\ [Next /\ ~AppendBreaksOff]_vars => (TypeOK /\ Sorted /\ Unbroken)'
  <2>1. [Next /\ ~AppendBreaksOff]_vars => [Next]_vars
    OBVIOUS
  <2>2. QED
    BY <2>1, NextTypeOK, NextSorted, NextUnbroken
<1>3. Sorted /\ Unbroken => NotMalformed
  BY DEF Sorted, Unbroken, NotMalformed
<1>4. QED
  BY <1>1, <1>2, <1>3, PTL DEF WholeAppends
=============================================================================
