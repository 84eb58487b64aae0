-------------------------- MODULE NotificationProofs --------------------------
(* What holds of NotificationWaiter for any messages, agents, stores, cap on  *)
(* attempts and number of mishaps: the types, that two agents work on one     *)
(* message only when one of them is late, that the rows are the message queue *)
(* of MessageQueue, and that news is news.                                    *)
EXTENDS NotificationWaiter, TLAPS

(* A row: its claim, its token and its deadline come and go together; the     *)
(* token is the number of the last attempt, and the lease of every earlier    *)
(* attempt has lapsed; a row to hand out has attempts left.                   *)
SoundLease(m) ==
    /\ claimedBy[m] = Nobody <=> token[m] = 0
    /\ deadline[m] = "none" <=> token[m] = 0
    /\ token[m] \in {0, attempts[m]}
    /\ \A j \in 1 .. attempts[m] : j = token[m] \/ j \in lapsed[m]
    /\ deadline[m] = "past" => token[m] \in lapsed[m]
SoundRow(m) ==
    /\ SoundLease(m)
    /\ m \notin sent => attempts[m] = 0
    /\ Pending(m) => attempts[m] < MaxAttempts
SoundRows == \A m \in Messages : SoundRow(m)

(* Agents: an attempt somebody works on was handed out, to nobody else. *)
KnownAttempts == \A a \in Agents, m \in Messages, k \in 1 .. MaxAttempts :
    held[a] = <<m, k>> => k <= attempts[m]
OwnAttempts == \A a, b \in Agents : held[a] # Nothing /\ held[a] = held[b] => a = b

QInv == SoundRows /\ KnownAttempts /\ OwnAttempts

(* The waiter: what it has found and is still unread, it remembers. *)
Remembers ==
    /\ seen \subseteq sent
    /\ IF baseline = Unknown THEN seen = {} ELSE seen \ read \subseteq baseline
Watches == stage = "armed" => todo = Stores /\ got = {} /\ partial = FALSE
Good == todo # {} \/ got # Unknown
Looks == Good => got \subseteq sent
Compares == stage = "looking" /\ Good =>
    /\ baseline # Unknown => got \cap seen \subseteq baseline
    /\ ~partial => \A m \in seen \ read : StoreOf[m] \in todo \/ m \in got

WInv == Remembers /\ Watches /\ Looks /\ Compares /\ NewsIsNew

IInv == TypeOK /\ QInv /\ WInv

-----------------------------------------------------------------------------
(* Types and rows. *)

LEMMA TypeInit == Init => TypeOK
<1> SUFFICES ASSUME Init PROVE TypeOK
  OBVIOUS
<1>1. /\ token \in [Messages -> 0 .. MaxAttempts] /\ attempts \in [Messages -> 0 .. MaxAttempts]
      /\ mishaps \in 0 .. MaxMishaps
  BY NotificationsAssumption, WaiterAssumption DEF Init, QueueInit
<1>2. /\ claimedBy \in [Messages -> Agents \cup {Nobody}]
      /\ deadline \in [Messages -> {"none", "ahead", "past"}]
      /\ held \in [Agents -> Keys \cup {Nothing}]
      /\ lapsed \in [Messages -> SUBSET (1 .. MaxAttempts)]
      /\ closedBy \in [Messages -> SUBSET (1 .. MaxAttempts)]
  BY DEF Init, QueueInit
<1>3. QED
  BY <1>1, <1>2 DEF Init, QueueInit, TypeOK, Found

LEMMA QInvInit == Init => QInv
<1> SUFFICES ASSUME Init PROVE QInv
  OBVIOUS
<1>1. ASSUME NEW m \in Messages PROVE SoundRow(m)
  BY NotificationsAssumption DEF Init, QueueInit, SoundRow, SoundLease, Pending, Unclaimed, InInbox
<1>2. KnownAttempts /\ OwnAttempts
  BY DEF Init, QueueInit, KnownAttempts, OwnAttempts, Nothing
<1>3. QED
  BY <1>1, <1>2 DEF QInv, SoundRows

\* Rows a step leaves alone stay sound.
RowKept(m) ==
    /\ claimedBy'[m] = claimedBy[m] /\ token'[m] = token[m] /\ deadline'[m] = deadline[m]
    /\ attempts'[m] = attempts[m] /\ lapsed'[m] = lapsed[m]
    /\ m \in sent => m \in sent'
    /\ m \in read => m \in read'
    /\ m \in failed => m \in failed'
    /\ m \in sent' /\ m \notin sent => 0 < MaxAttempts

LEMMA KeptRowSound ==
  ASSUME NEW m \in Messages, TypeOK, SoundRow(m), RowKept(m)
  PROVE  SoundRow(m)'
BY DEF TypeOK, SoundRow, SoundLease, RowKept, Pending, Unclaimed, InInbox

LEMMA KeptAttempts ==
  ASSUME KnownAttempts, OwnAttempts, TypeOK, \A m \in Messages : attempts'[m] = attempts[m],
         \/ held' = held
         \/ \E a \in Agents : held' = [held EXCEPT ![a] = Nothing]
  PROVE  (KnownAttempts /\ OwnAttempts)'
<1>1. ASSUME NEW a \in Agents, held'[a] # Nothing
      PROVE  held'[a] = held[a]
  BY <1>1 DEF TypeOK
<1>2. ASSUME NEW a \in Agents, NEW m \in Messages, NEW k \in 1 .. MaxAttempts, held'[a] = <<m, k>>
      PROVE  k <= attempts'[m]
  BY <1>1, <1>2 DEF KnownAttempts, Nothing
<1>3. ASSUME NEW a \in Agents, NEW b \in Agents, held'[a] # Nothing, held'[a] = held'[b]
      PROVE  a = b
  BY <1>1, <1>3 DEF OwnAttempts
<1>4. QED
  BY <1>2, <1>3 DEF KnownAttempts, OwnAttempts

\* An attempt that is the row's last one has a live claim on a row that is there.
LEMMA FencedRow ==
  ASSUME TypeOK, QInv, NEW a \in Agents, NEW m \in Messages, NEW k \in 1 .. MaxAttempts,
         Works(a, m, k), Fenced(m, k)
  PROVE  /\ m \in sent /\ m \notin read /\ m \notin failed
         /\ token[m] = k /\ attempts[m] = k /\ claimedBy[m] # Nobody
<1>1. SoundRow(m)
  BY DEF QInv, SoundRows
<1>2. QED
  BY <1>1 DEF TypeOK, SoundRow, SoundLease, Fenced

LEMMA AttemptLeft ==
  ASSUME TypeOK, QInv, NEW m \in Messages, Pending(m)
  PROVE  attempts[m] \in Nat /\ attempts[m] + 1 \in 1 .. MaxAttempts /\ m \in sent
BY NotificationsAssumption DEF TypeOK, QInv, SoundRows, SoundRow, Pending, Unclaimed, InInbox

LEMMA TypeWrites ==
  ASSUME TypeOK, QInv, Writes, changed' = TRUE, UNCHANGED <<waiter, mishaps>>
  PROVE  TypeOK'
<1> USE DEF Set, Cleared, lease, waiter, pass
<1>1. ASSUME NEW m \in Messages, Notify(m) PROVE TypeOK'
  BY <1>1 DEF TypeOK, Notify
<1>2. ASSUME NEW m \in Messages, Ack(m) PROVE TypeOK'
  BY <1>2 DEF TypeOK, Ack, Unclaimed, InInbox
<1>3. ASSUME NEW a \in Agents, NEW m \in Messages, Claim(a, m) PROVE TypeOK'
  <2>1. attempts[m] + 1 \in 1 .. MaxAttempts /\ attempts[m] + 1 \in 0 .. MaxAttempts
    BY <1>3, AttemptLeft, NotificationsAssumption DEF Claim
  <2>2. <<m, attempts[m] + 1>> \in Keys
    BY <2>1 DEF Keys
  <2>3. held' \in [Agents -> Keys \cup {Nothing}]
    BY <1>3, <2>2 DEF TypeOK, Claim
  <2>4. /\ token' \in [Messages -> 0 .. MaxAttempts] /\ attempts' \in [Messages -> 0 .. MaxAttempts]
        /\ claimedBy' \in [Messages -> Agents \cup {Nobody}]
        /\ deadline' \in [Messages -> {"none", "ahead", "past"}]
    BY <1>3, <2>1 DEF TypeOK, Claim
  <2>5. QED
    BY <1>3, <2>3, <2>4 DEF TypeOK, Claim
<1>4. ASSUME NEW a \in Agents, NEW m \in Messages, NEW k \in 1 .. MaxAttempts, Complete(a, m, k) \/ Fail(a, m, k)
      PROVE  TypeOK'
  <2>1. m \in sent
    BY <1>4, FencedRow DEF Complete, Fail
  <2>2. /\ held' \in [Agents -> Keys \cup {Nothing}]
        /\ closedBy' \in [Messages -> SUBSET (1 .. MaxAttempts)]
    BY <1>4 DEF TypeOK, Complete, Fail
  <2>3. QED
    BY <1>4, <2>1, <2>2 DEF TypeOK, Complete, Fail
<1>5. ASSUME NEW s \in Stores, Sweep(s) PROVE TypeOK'
  <2>1. /\ token' \in [Messages -> 0 .. MaxAttempts]
        /\ claimedBy' \in [Messages -> Agents \cup {Nobody}]
        /\ deadline' \in [Messages -> {"none", "ahead", "past"}]
    BY <1>5, NotificationsAssumption DEF TypeOK, Sweep
  <2>2. failed' \subseteq sent
    BY <1>5 DEF TypeOK, Sweep, DeadLetters, Expired
  <2>3. QED
    BY <1>5, <2>1, <2>2 DEF TypeOK, Sweep
<1>6. ASSUME NEW s \in Stores, AckAll(s) PROVE TypeOK'
  BY <1>6 DEF TypeOK, AckAll, Unclaimed, InInbox
<1>7. QED
  BY <1>1, <1>2, <1>3, <1>4, <1>5, <1>6 DEF Writes

LEMMA TypeIdles ==
  ASSUME TypeOK, QInv, Idles, UNCHANGED <<changed, waiter, mishaps>>
  PROVE  TypeOK'
<1> USE DEF Set, lease, rowVars, waiter, pass
<1>1. ASSUME NEW a \in Agents, Dies(a) \/ \E m \in Messages, k \in 1 .. MaxAttempts : LeaseLost(a, m, k)
      PROVE  TypeOK'
  BY <1>1 DEF TypeOK, Dies, LeaseLost
<1>2. ASSUME NEW m \in Messages, Lapse(m) PROVE TypeOK'
  <2>1. token[m] \in 1 .. MaxAttempts
    BY <1>2 DEF TypeOK, QInv, SoundRows, SoundRow, SoundLease, Lapse
  <2>2. lapsed' \in [Messages -> SUBSET (1 .. MaxAttempts)]
    BY <1>2, <2>1 DEF TypeOK, Lapse
  <2>3. deadline' \in [Messages -> {"none", "ahead", "past"}]
    BY <1>2 DEF TypeOK, Lapse
  <2>4. QED
    BY <1>2, <2>2, <2>3 DEF TypeOK, Lapse
<1>3. QED
  BY <1>1, <1>2 DEF Idles

LEMMA QInvWrites ==
  ASSUME TypeOK, QInv, Writes
  PROVE  QInv'
<1> USE DEF Set, Cleared, lease
<1>1. CASE \E m \in Messages : Notify(m) \/ Ack(m)
  <2>1. \A n \in Messages : RowKept(n)
    BY <1>1, NotificationsAssumption DEF RowKept, Notify, Ack
  <2>2. held' = held /\ attempts' = attempts
    BY <1>1 DEF Notify, Ack
  <2>3. QED
    BY <2>1, <2>2, KeptRowSound, KeptAttempts DEF QInv, SoundRows
<1>2. ASSUME NEW a \in Agents, NEW m \in Messages, Claim(a, m) PROVE QInv'
  <2> DEFINE k == attempts[m] + 1
  <2>1. k \in 1 .. MaxAttempts /\ attempts[m] \in Nat /\ m \in sent
    BY <1>2, AttemptLeft DEF Claim
  <2>2. /\ held' = [held EXCEPT ![a] = <<m, k>>] /\ attempts' = [attempts EXCEPT ![m] = k]
        /\ held[a] = Nothing
    BY <1>2 DEF Claim
  <2>3. SoundRow(m)'
    <3>1. claimedBy'[m] = a /\ token'[m] = k /\ deadline'[m] = "ahead" /\ attempts'[m] = k /\ lapsed' = lapsed
      BY <1>2 DEF TypeOK, Claim
    <3>2. token[m] = 0 /\ \A j \in 1 .. attempts[m] : j = token[m] \/ j \in lapsed[m]
      BY <1>2 DEF Claim, Pending, Unclaimed, QInv, SoundRows, SoundRow, SoundLease
    <3>3. \A j \in 1 .. k : j = k \/ j \in lapsed[m]
      BY <2>1, <3>2
    <3>4. QED
      BY <1>2, <2>1, <3>1, <3>3, NobodyAssumption DEF SoundRow, SoundLease, Pending, Unclaimed, Claim
  <2>4. ASSUME NEW n \in Messages, n # m PROVE SoundRow(n)'
    <3>1. RowKept(n)
      BY <1>2, <2>4 DEF TypeOK, RowKept, Claim
    <3>2. QED
      BY <3>1, KeptRowSound DEF QInv, SoundRows
  <2>5. ASSUME NEW b \in Agents, NEW n \in Messages, NEW j \in 1 .. MaxAttempts, held'[b] = <<n, j>>
        PROVE  j <= attempts'[n]
    <3>1. CASE b = a
      BY <2>1, <2>2, <2>5, <3>1 DEF TypeOK
    <3>2. CASE b # a
      <4>1. held[b] = <<n, j>> /\ j <= attempts[n] /\ attempts[n] <= attempts'[n]
        BY <2>1, <2>2, <2>5, <3>2 DEF TypeOK, QInv, KnownAttempts
      <4>2. QED
        BY <2>2, <4>1 DEF TypeOK
    <3>3. QED
      BY <3>1, <3>2
  <2>6. ASSUME NEW b \in Agents, b # a PROVE held[b] # <<m, k>>
    BY <2>1, <2>6 DEF QInv, KnownAttempts
  <2>7. OwnAttempts'
    BY <2>2, <2>6 DEF TypeOK, QInv, OwnAttempts
  <2>8. QED
    BY <2>3, <2>4, <2>5, <2>7 DEF QInv, SoundRows, KnownAttempts
<1>3. ASSUME NEW a \in Agents, NEW m \in Messages, NEW k \in 1 .. MaxAttempts, Complete(a, m, k) \/ Fail(a, m, k)
      PROVE  QInv'
  <2>1. \A n \in Messages : RowKept(n)
    BY <1>3 DEF RowKept, Complete, Fail
  <2>2. held' = [held EXCEPT ![a] = Nothing] /\ attempts' = attempts
    BY <1>3 DEF Complete, Fail
  <2>3. QED
    BY <2>1, <2>2, KeptRowSound, KeptAttempts DEF QInv, SoundRows
<1>4. ASSUME NEW s \in Stores, Sweep(s) PROVE QInv'
  <2>1. held' = held /\ attempts' = attempts /\ lapsed' = lapsed /\ sent' = sent /\ read' = read
    BY <1>4 DEF Sweep
  <2>2. ASSUME NEW n \in Messages, n \in Expired(s) PROVE SoundRow(n)'
    <3>1. claimedBy'[n] = Nobody /\ token'[n] = 0 /\ deadline'[n] = "none"
      BY <1>4, <2>2 DEF Sweep
    <3>2. SoundRow(n) /\ deadline[n] = "past" /\ n \in sent
      BY <2>2 DEF QInv, SoundRows, Expired
    <3>3. \A j \in 1 .. attempts[n] : j \in lapsed[n]
      BY <3>2 DEF SoundRow, SoundLease
    <3>4. n \notin failed' => attempts[n] < MaxAttempts
      BY <1>4, <2>2, NotificationsAssumption DEF TypeOK, Sweep, DeadLetters
    <3>5. QED
      BY <2>1, <3>1, <3>2, <3>3, <3>4 DEF SoundRow, SoundLease, Pending
  <2>3. ASSUME NEW n \in Messages, n \notin Expired(s) PROVE SoundRow(n)'
    <3>1. RowKept(n)
      BY <1>4, <2>1, <2>3 DEF Sweep, RowKept
    <3>2. QED
      BY <3>1, KeptRowSound DEF QInv, SoundRows
  <2>4. QED
    BY <2>1, <2>2, <2>3, KeptAttempts DEF QInv, SoundRows
<1>5. ASSUME NEW s \in Stores, AckAll(s) PROVE QInv'
  <2>1. \A n \in Messages : RowKept(n)
    BY <1>5 DEF RowKept, AckAll
  <2>2. held' = held /\ attempts' = attempts
    BY <1>5 DEF AckAll
  <2>3. QED
    BY <2>1, <2>2, KeptRowSound, KeptAttempts DEF QInv, SoundRows
<1>6. QED
  BY <1>1, <1>2, <1>3, <1>4, <1>5 DEF Writes

LEMMA QInvIdles ==
  ASSUME TypeOK, QInv, Idles
  PROVE  QInv'
<1> USE DEF Set, lease, rowVars
<1>1. ASSUME NEW a \in Agents, Dies(a) \/ \E m \in Messages, k \in 1 .. MaxAttempts : LeaseLost(a, m, k)
      PROVE  QInv'
  <2>1. \A n \in Messages : RowKept(n)
    BY <1>1 DEF RowKept, Dies, LeaseLost
  <2>2. held' = [held EXCEPT ![a] = Nothing] /\ attempts' = attempts
    BY <1>1 DEF Dies, LeaseLost
  <2>3. QED
    BY <2>1, <2>2, KeptRowSound, KeptAttempts DEF QInv, SoundRows
<1>2. ASSUME NEW m \in Messages, Lapse(m) PROVE QInv'
  <2>1. held' = held /\ attempts' = attempts
    BY <1>2 DEF Lapse
  <2>2. SoundRow(m)'
    BY <1>2 DEF TypeOK, QInv, SoundRows, SoundRow, SoundLease, Lapse, Pending, Unclaimed, InInbox
  <2>3. ASSUME NEW n \in Messages, n # m PROVE SoundRow(n)'
    <3>1. RowKept(n)
      BY <1>2, <2>3 DEF TypeOK, Lapse, RowKept
    <3>2. QED
      BY <3>1, KeptRowSound DEF QInv, SoundRows
  <2>4. QED
    BY <2>1, <2>2, <2>3, KeptAttempts DEF QInv, SoundRows
<1>3. QED
  BY <1>1, <1>2 DEF Idles

-----------------------------------------------------------------------------
(* The waiter. *)

Watch == Steps \/ Wakes \/ ReadFails \/ TimesOut \/ Crashes

\* Its steps touch no row but for the receipt.
LEMMA WaiterKeepsRows ==
  ASSUME Watch
  PROVE  UNCHANGED <<sent, lease, attempts, read, failed, held, lapsed, closedBy>>
BY DEF Watch, Steps, Stamp, Read, EndStamping, TakeToken, Advance, Reports, Wakes, ReadFails,
       TimesOut, Crashes, queueVars, rowVars

LEMMA TypeWaiter ==
  ASSUME TypeOK, WInv, Watch
  PROVE  TypeOK'
<1> USE DEF Mishap, NewPass, Forgets, Restart, Visits, Found, queueVars, rowVars, lease, pass
<1>1. ASSUME NEW s \in Stores, Stamp(s) PROVE TypeOK'
  <2>1. changed' \in BOOLEAN
    BY <1>1, Zenon DEF TypeOK, Stamp
  <2>2. mishaps' \in 0 .. MaxMishaps /\ received' \subseteq sent
    BY <1>1, WaiterAssumption DEF TypeOK, Stamp, Rows
  <2>3. QED
    BY <1>1, <2>1, <2>2 DEF TypeOK, Stamp
<1>2. ASSUME NEW s \in Stores, Read(s) PROVE TypeOK'
  <2>1. got \subseteq sent
    BY <1>2 DEF WInv, Looks, Good, Read
  <2>2. got' \in Found /\ mishaps' \in 0 .. MaxMishaps
    BY <1>2, <2>1, WaiterAssumption DEF TypeOK, Read, Rows
  <2>3. QED
    BY <1>2, <2>2 DEF TypeOK, Read
<1>3. CASE EndStamping
  BY <1>3 DEF TypeOK, EndStamping
<1>4. CASE TakeToken
  BY <1>4 DEF TypeOK, TakeToken
<1>5. CASE Advance
  <2>1. Gained \subseteq Messages /\ NextBaseline \in Found
    BY DEF TypeOK, Gained, NextBaseline
  <2>2. seen' \subseteq Messages /\ stage' \in {"armed", "reporting"}
    BY <1>5 DEF TypeOK, Advance
  <2>3. QED
    BY <1>5, <2>1, <2>2 DEF TypeOK, Advance
<1>6. CASE Reports \/ TimesOut
  BY <1>6 DEF TypeOK, Reports, TimesOut
<1>7. CASE Wakes
  BY <1>7 DEF TypeOK, Wakes
<1>8. CASE ReadFails \/ Crashes
  <2>1. mishaps' \in 0 .. MaxMishaps
    BY <1>8, WaiterAssumption DEF TypeOK, ReadFails, Crashes
  <2>2. QED
    BY <1>8, <2>1 DEF TypeOK, ReadFails, Crashes
<1>9. QED
  BY <1>1, <1>2, <1>3, <1>4, <1>5, <1>6, <1>7, <1>8 DEF Watch, Steps

\* The rows' steps only add to what is sent and to what is read.
LEMMA WInvQueue ==
  ASSUME TypeOK, WInv, Queue
  PROVE  WInv'
<1>1. sent \subseteq sent' /\ read \subseteq read' /\ UNCHANGED waiter
  BY DEF Queue, Writes, Idles, Touched, Notify, Ack, Claim, Complete, Fail, Sweep, AckAll, LeaseLost, Dies, Lapse,
         rowVars, queueVars
<1>2. QED
  BY <1>1 DEF WInv, Remembers, Watches, Good, Looks, Compares, NewsIsNew, waiter, pass

LEMMA FreshPass ==
  ASSUME NewPass, sent' = sent
  PROVE  Looks' /\ (stage' # "looking" => Compares' /\ Watches')
BY DEF NewPass, Looks, Compares, Watches

LEMMA WInvRestart ==
  ASSUME Restart, UNCHANGED <<sent, read>>
  PROVE  WInv'
<1>1. Looks' /\ Compares' /\ Watches'
  BY FreshPass DEF Restart
<1>2. Remembers' /\ NewsIsNew'
  BY DEF Restart, Forgets, Remembers, NewsIsNew
<1>3. QED
  BY <1>1, <1>2 DEF WInv

LEMMA WInvRead ==
  ASSUME TypeOK, WInv, NEW s \in Stores, Read(s)
  PROVE  WInv'
<1>1. /\ stage \in {"baseline", "looking"} /\ s \in todo /\ todo' = todo \ {s}
      /\ UNCHANGED <<stage, baseline, news, seen, sent, read>>
      /\ got \subseteq sent
  BY DEF Read, Visits, WInv, Looks, Good, queueVars, rowVars
<1>2. Remembers' /\ NewsIsNew' /\ Watches'
  BY <1>1 DEF WInv, Remembers, NewsIsNew, Watches
<1>3. CASE got' = got \cup {m \in Rows(s) : InInbox(m)} /\ partial' = partial
  <2>1. Looks'
    BY <1>1, <1>3 DEF Looks, Rows
  <2>2. ASSUME stage = "looking", baseline # Unknown PROVE got' \cap seen \subseteq baseline
    BY <1>1, <1>3, <2>2 DEF WInv, Compares, Good, Remembers, InInbox
  <2>3. ASSUME stage = "looking", ~partial, NEW m \in seen \ read PROVE StoreOf[m] \in todo' \/ m \in got'
    BY <1>1, <1>3, <2>3 DEF WInv, Compares, Good, Remembers, InInbox, Rows
  <2>4. Compares'
    BY <1>1, <1>3, <2>2, <2>3 DEF Compares
  <2>5. QED
    BY <1>2, <2>1, <2>4 DEF WInv
<1>4. CASE got' = got /\ partial' = TRUE
  BY <1>1, <1>2, <1>4 DEF WInv, Looks, Compares, Good
<1>5. QED
  BY <1>3, <1>4 DEF Read

LEMMA WInvAdvance ==
  ASSUME TypeOK, WInv, Advance
  PROVE  WInv'
<1>1. /\ stage = "looking" /\ todo = {} /\ NewPass /\ stage' # "looking"
      /\ baseline' = NextBaseline /\ news' = Gained /\ UNCHANGED <<sent, read>>
  BY DEF Advance, Done, queueVars, rowVars
<1>2. Looks' /\ Compares' /\ Watches'
  BY <1>1, FreshPass
<1>3. CASE got = Unknown
  <2>1. Gained = {} /\ NextBaseline = baseline /\ seen' = seen /\ stage' = "armed"
    BY <1>3 DEF Gained, NextBaseline, Advance
  <2>2. Remembers' /\ NewsIsNew'
    BY <1>1, <2>1 DEF WInv, Remembers, NewsIsNew
  <2>3. QED
    BY <1>2, <2>2 DEF WInv
<1>4. CASE got # Unknown
  <2>1. got \subseteq sent /\ (baseline # Unknown => got \cap seen \subseteq baseline)
    BY <1>1, <1>4 DEF WInv, Looks, Compares, Good
  <2>2. ~partial => seen \ read \subseteq got
    BY <1>1, <1>4 DEF WInv, Compares, Good
  <2>3. seen \subseteq sent /\ seen \ read \subseteq NextBaseline /\ got \subseteq NextBaseline
    BY <1>4, <2>2 DEF WInv, Remembers, NextBaseline
  <2>4. NewsIsNew'
    BY <1>1, <2>1 DEF NewsIsNew, Gained, Advance
  <2>5. seen' \subseteq seen \cup got /\ (seen' = seen \/ Gained = {})
    BY <1>4 DEF Advance
  <2>6. baseline' = Unknown => seen' = {}
    <3>1. got \in SUBSET Messages /\ (baseline # Unknown => got \cup baseline \in SUBSET Messages)
      BY <1>4 DEF TypeOK, Found
    <3>2. NextBaseline # Unknown
      BY <1>4, <3>1, WaiterAssumption DEF NextBaseline
    <3>3. QED
      BY <1>1, <3>2
  <2>7. QED
    BY <1>1, <1>2, <2>1, <2>3, <2>4, <2>5, <2>6 DEF WInv, Remembers
<1>5. QED
  BY <1>3, <1>4

LEMMA WInvWaiter ==
  ASSUME TypeOK, WInv, Watch
  PROVE  WInv'
<1>0. UNCHANGED <<sent, read>>
  BY WaiterKeepsRows
<1>1. ASSUME NEW s \in Stores, Stamp(s) PROVE WInv'
  <2>1. /\ stage \in {"stamping", "reporting"} /\ todo # {}
        /\ UNCHANGED <<stage, got, partial, baseline, news, seen>>
    BY <1>1 DEF Stamp, Visits
  <2>2. QED
    BY <1>0, <2>1 DEF WInv, Remembers, Watches, Looks, Compares, Good, NewsIsNew
<1>2. ASSUME NEW s \in Stores, Read(s) PROVE WInv'
  BY <1>2, WInvRead
<1>3. CASE EndStamping \/ TakeToken
  <2>1. NewPass /\ stage' \in {"baseline", "armed"}
    BY <1>3 DEF EndStamping, TakeToken
  <2>2. Looks' /\ Compares' /\ Watches' /\ NewsIsNew'
    BY <1>0, <2>1, FreshPass DEF NewsIsNew
  <2>3. CASE EndStamping
    BY <1>0, <2>2, <2>3 DEF EndStamping, WInv, Remembers
  <2>4. CASE TakeToken
    <3>1. baseline' = got /\ (IF got = Unknown THEN seen' = {} ELSE seen' = got)
      BY <2>4 DEF TakeToken
    <3>2. got # Unknown => got \subseteq sent
      BY DEF WInv, Looks, Good
    <3>3. QED
      BY <1>0, <2>2, <3>1, <3>2 DEF WInv, Remembers
  <2>5. QED
    BY <1>3, <2>3, <2>4
<1>4. CASE Advance
  BY <1>4, WInvAdvance
<1>5. CASE Reports \/ TimesOut \/ Crashes
  BY <1>0, <1>5, WInvRestart DEF Reports, TimesOut, Crashes
<1>6. CASE Wakes
  <2>1. /\ stage = "armed" /\ stage' = "looking"
        /\ UNCHANGED <<todo, got, partial, baseline, seen>>
        /\ todo = Stores /\ got = {} /\ partial = FALSE
    BY <1>6 DEF Wakes, WInv, Watches, pass
  <2>2. \A m \in seen : StoreOf[m] \in todo
    BY <2>1, NotificationsAssumption DEF TypeOK
  <2>3. QED
    BY <1>0, <2>1, <2>2 DEF WInv, Remembers, Watches, Looks, Compares, Good, NewsIsNew
<1>7. CASE ReadFails
  <2>1. /\ stage \in {"baseline", "looking"} /\ todo' = {} /\ got' = Unknown
        /\ UNCHANGED <<stage, baseline, seen>>
    BY <1>7 DEF ReadFails
  <2>2. QED
    BY <1>0, <2>1 DEF WInv, Remembers, Watches, Looks, Compares, Good, NewsIsNew
<1>8. QED
  BY <1>1, <1>2, <1>3, <1>4, <1>5, <1>6, <1>7 DEF Watch, Steps

-----------------------------------------------------------------------------
(* The theorems. *)

LEMMA IInvInit == Init => IInv
<1>1. Init => WInv
  BY DEF Init, QueueInit, WInv, Remembers, Watches, Looks, Compares, Good, NewsIsNew
<1>2. QED
  BY <1>1, TypeInit, QInvInit DEF IInv

LEMMA QInvSame ==
  ASSUME QInv, UNCHANGED <<sent, lease, attempts, read, failed, held, lapsed, closedBy>>
  PROVE  QInv'
BY DEF QInv, SoundRows, SoundRow, SoundLease, Pending, Unclaimed, InInbox, KnownAttempts, OwnAttempts, lease

LEMMA IInvStep == IInv /\ [Next]_vars => IInv'
<1> SUFFICES ASSUME IInv, [Next]_vars PROVE IInv'
  OBVIOUS
<1> USE DEF IInv
<1>1. CASE Queue
  <2>1. WInv'
    BY <1>1, WInvQueue
  <2>2. CASE Writes /\ changed' = TRUE /\ UNCHANGED <<waiter, mishaps>>
    BY <2>1, <2>2, TypeWrites, QInvWrites
  <2>3. CASE Idles /\ UNCHANGED <<changed, waiter, mishaps>>
    BY <2>1, <2>3, TypeIdles, QInvIdles
  <2>4. CASE Touched
    <3>1. QInv'
      BY <2>4, QInvSame DEF Touched, queueVars, rowVars
    <3>2. TypeOK'
      BY <2>4 DEF TypeOK, Touched, queueVars, rowVars, lease, waiter, pass
    <3>3. QED
      BY <2>1, <3>1, <3>2
  <2>5. QED
    BY <1>1, <2>2, <2>3, <2>4 DEF Queue
<1>2. CASE Watch
  BY <1>2, TypeWaiter, WInvWaiter, WaiterKeepsRows, QInvSame
<1>3. CASE UNCHANGED vars
  <2>1. QInv'
    BY <1>3, QInvSame DEF vars, queueVars, rowVars
  <2>2. TypeOK' /\ WInv'
    BY <1>3 DEF vars, queueVars, rowVars, lease, waiter, pass, TypeOK, WInv, Remembers, Watches, Looks, Compares, Good,
                NewsIsNew
  <2>3. QED
    BY <2>1, <2>2
<1>4. QED
  BY <1>1, <1>2, <1>3 DEF Next, Watch

LEMMA Invariance == Spec => []IInv
BY IInvInit, IInvStep, PTL DEF Spec

\* Every variable keeps its type: in particular no attempt is numbered above the
\* cap (claim_message), and the waiter's pass visits stores that exist.
THEOREM TypeCorrect == Spec => []TypeOK
BY Invariance, PTL DEF IInv

\* Whoever works on a message beside the holder of its last attempt has let his
\* lease lapse (claim_message, sweep_expired_leases).
THEOREM OneWorkerAtATime == Spec => []OneWorkerUnlessLate
<1>1. IInv => OneWorkerUnlessLate
  <2> SUFFICES ASSUME IInv, NEW a \in Agents, NEW b \in Agents, NEW m \in Messages,
                      NEW j \in 1 .. MaxAttempts, NEW k \in 1 .. MaxAttempts,
                      a # b, held[a] = <<m, j>>, held[b] = <<m, k>>
               PROVE  j # k /\ (j < k => j \in lapsed[m])
    BY DEF OneWorkerUnlessLate
  <2>1. j # k
    <3>1. held[a] # Nothing
      BY DEF Nothing
    <3>2. held[a] # held[b]
      BY <3>1 DEF IInv, QInv, OwnAttempts
    <3>3. QED
      BY <3>2
  <2>2. k <= attempts[m] /\ SoundLease(m)
    BY DEF IInv, QInv, KnownAttempts, SoundRows, SoundRow
  <2>3. QED
    BY <2>1, <2>2, NotificationsAssumption DEF IInv, TypeOK, SoundLease
<1>2. QED
  BY <1>1, Invariance, PTL

\* What a waiter reports, it had not found before (_advance).
THEOREM NewsOnlyOnce == Spec => []NewsIsNew
BY Invariance, PTL DEF IInv, WInv

-----------------------------------------------------------------------------
(* The refinement: each step moves each row as MessageQueue allows. *)

Moves(m) ==
    \/ Queued!HandOut(m) \/ Queued!Lapse(m) \/ Queued!TakeBack(m) \/ Queued!Close(m) \/ Queued!Rest(m)

LEMMA RestingRow ==
  ASSUME NEW m \in Messages, attempts'[m] = attempts[m], lapsed'[m] = lapsed[m], closedBy'[m] = closedBy[m],
         \/ StateOf(m)' = StateOf(m)
         \/ StateOf(m) = "ABSENT" /\ StateOf(m)' = "PENDING"
         \/ StateOf(m) = "PENDING" /\ StateOf(m)' = "COMPLETED"
  PROVE  Moves(m)
BY DEF Moves, Queued!Rest, Queued!Goes, Queued!Keeps

LEMMA UntouchedRow ==
  ASSUME NEW m \in Messages,
         claimedBy'[m] = claimedBy[m], m \in sent' <=> m \in sent, m \in read' <=> m \in read,
         m \in failed' <=> m \in failed
  PROVE  StateOf(m)' = StateOf(m)
BY DEF StateOf

LEMMA PostIsRest ==
  ASSUME TypeOK, QInv, NEW n \in Messages, Notify(n) \/ Ack(n), NEW m \in Messages
  PROVE  Moves(m)
<1> USE DEF lease
<1>1. attempts' = attempts /\ lapsed' = lapsed /\ closedBy' = closedBy /\ claimedBy' = claimedBy
  BY DEF Notify, Ack
<1>2. CASE Notify(n)
  <2>1. sent' = sent \cup {n} /\ n \notin sent /\ read' = read /\ failed' = failed
    BY <1>2 DEF Notify
  <2>2. n \notin read /\ n \notin failed /\ claimedBy[n] = Nobody
    BY <2>1 DEF TypeOK, QInv, SoundRows, SoundRow, SoundLease
  <2>3. m = n => StateOf(m) = "ABSENT" /\ StateOf(m)' = "PENDING"
    BY <1>1, <2>1, <2>2 DEF StateOf
  <2>4. m # n => StateOf(m)' = StateOf(m)
    BY <1>1, <2>1, UntouchedRow
  <2>5. QED
    BY <1>1, <2>3, <2>4, RestingRow
<1>3. CASE Ack(n)
  <2>1. sent' = sent /\ read' = read \cup {n} /\ failed' = failed /\ Unclaimed(n)
    BY <1>3 DEF Ack
  <2>2. m = n => \/ StateOf(m)' = StateOf(m)
                 \/ StateOf(m) = "PENDING" /\ StateOf(m)' = "COMPLETED"
    BY <1>1, <2>1 DEF StateOf, Unclaimed, InInbox
  <2>3. m # n => StateOf(m)' = StateOf(m)
    BY <1>1, <2>1, UntouchedRow
  <2>4. QED
    BY <1>1, <2>2, <2>3, RestingRow
<1>4. QED
  BY <1>2, <1>3

LEMMA AckAllIsRest ==
  ASSUME NEW s \in Stores, AckAll(s), NEW m \in Messages
  PROVE  Moves(m)
<1>1. attempts' = attempts /\ lapsed' = lapsed /\ closedBy' = closedBy /\ claimedBy' = claimedBy
      /\ sent' = sent /\ failed' = failed
  BY DEF AckAll, lease
<1>2. CASE Unclaimed(m) /\ StoreOf[m] = s
  <2>1. m \in read' /\ m \in sent /\ m \notin read
    BY <1>2 DEF AckAll, Unclaimed, InInbox
  <2>2. \/ StateOf(m)' = StateOf(m)
        \/ StateOf(m) = "PENDING" /\ StateOf(m)' = "COMPLETED"
    BY <1>1, <1>2, <2>1 DEF StateOf, Unclaimed
  <2>3. QED
    BY <1>1, <2>2, RestingRow
<1>3. CASE ~(Unclaimed(m) /\ StoreOf[m] = s)
  <2>1. m \in read' <=> m \in read
    BY <1>3 DEF AckAll
  <2>2. QED
    BY <1>1, <2>1, UntouchedRow, RestingRow
<1>4. QED
  BY <1>2, <1>3

LEMMA ClaimIsHandOut ==
  ASSUME TypeOK, QInv, NEW a \in Agents, NEW n \in Messages, Claim(a, n), NEW m \in Messages
  PROVE  Moves(m)
<1> USE DEF Set
<1>1. sent' = sent /\ read' = read /\ failed' = failed /\ lapsed' = lapsed /\ closedBy' = closedBy
  BY DEF Claim
<1>2. CASE m = n
  <2>1. attempts[m] < MaxAttempts /\ claimedBy'[m] = a /\ attempts'[m] = attempts[m] + 1
    BY <1>2 DEF Claim, TypeOK, QInv, SoundRows, SoundRow
  <2>2. StateOf(m) = "PENDING" /\ StateOf(m)' = "CLAIMED"
    BY <1>1, <1>2, <2>1, NobodyAssumption DEF Claim, StateOf, Pending, Unclaimed, InInbox
  <2>3. QED
    BY <1>1, <2>1, <2>2 DEF Moves, Queued!HandOut, Queued!Goes
<1>3. CASE m # n
  <2>1. claimedBy'[m] = claimedBy[m] /\ attempts'[m] = attempts[m]
    BY <1>3 DEF Claim, TypeOK
  <2>2. QED
    BY <1>1, <2>1, UntouchedRow, RestingRow
<1>4. QED
  BY <1>2, <1>3

LEMMA EndIsClose ==
  ASSUME TypeOK, QInv, NEW a \in Agents, NEW n \in Messages, NEW k \in 1 .. MaxAttempts,
         Complete(a, n, k) \/ Fail(a, n, k), NEW m \in Messages
  PROVE  Moves(m)
<1> USE DEF Set, lease
<1>1. sent' = sent /\ claimedBy' = claimedBy /\ attempts' = attempts /\ lapsed' = lapsed
      /\ closedBy' = [closedBy EXCEPT ![n] = closedBy[n] \cup {k}]
  BY DEF Complete, Fail
<1>2. CASE m = n
  <2>1. m \in sent /\ m \notin read /\ m \notin failed /\ attempts[m] = k /\ claimedBy[m] # Nobody
    BY <1>2, FencedRow DEF Complete, Fail
  <2>2. closedBy'[m] = closedBy[m] \cup {attempts[m]}
    BY <1>1, <1>2, <2>1 DEF TypeOK
  <2>3. StateOf(m) = "CLAIMED" /\ (StateOf(m)' = "COMPLETED" \/ StateOf(m)' = "FAILED")
    BY <1>1, <1>2, <2>1 DEF StateOf, Complete, Fail
  <2>4. QED
    BY <1>1, <2>2, <2>3 DEF Moves, Queued!Close, Queued!Goes
<1>3. CASE m # n
  <2>1. closedBy'[m] = closedBy[m] /\ (m \in read' <=> m \in read) /\ (m \in failed' <=> m \in failed)
    BY <1>1, <1>3 DEF TypeOK, Complete, Fail
  <2>2. QED
    BY <1>1, <2>1, UntouchedRow, RestingRow
<1>4. QED
  BY <1>2, <1>3

LEMMA LapseIsLapse ==
  ASSUME TypeOK, QInv, NEW n \in Messages, Lapse(n), NEW m \in Messages
  PROVE  Moves(m)
<1> USE DEF Set
<1>1. UNCHANGED <<sent, claimedBy, attempts, read, failed, closedBy>>
      /\ lapsed' = [lapsed EXCEPT ![n] = lapsed[n] \cup {token[n]}]
  BY DEF Lapse
<1>2. CASE m = n
  <2>1. token[m] = attempts[m] /\ claimedBy[m] # Nobody /\ m \in sent
    BY <1>2 DEF Lapse, TypeOK, QInv, SoundRows, SoundRow, SoundLease
  <2>2. StateOf(m) = "CLAIMED" /\ StateOf(m)' = "CLAIMED"
    BY <1>1, <1>2, <2>1 DEF StateOf, Lapse
  <2>3. lapsed'[m] = lapsed[m] \cup {attempts[m]}
    BY <1>1, <1>2, <2>1 DEF TypeOK
  <2>4. QED
    BY <1>1, <2>2, <2>3 DEF Moves, Queued!Lapse, Queued!Goes
<1>3. CASE m # n
  BY <1>1, <1>3, UntouchedRow, RestingRow DEF TypeOK
<1>4. QED
  BY <1>2, <1>3

LEMMA SweepIsTakeBack ==
  ASSUME TypeOK, QInv, NEW s \in Stores, Sweep(s), NEW m \in Messages
  PROVE  Moves(m)
<1> USE DEF Cleared
<1>1. sent' = sent /\ read' = read /\ attempts' = attempts /\ lapsed' = lapsed /\ closedBy' = closedBy
      /\ failed' = failed \cup DeadLetters(s)
  BY DEF Sweep
<1>2. CASE m \in Expired(s)
  <2>1. m \in sent /\ m \notin read /\ m \notin failed /\ deadline[m] = "past"
    BY <1>2 DEF Expired
  <2>2. claimedBy[m] # Nobody /\ attempts[m] \in lapsed[m]
    BY <2>1 DEF QInv, SoundRows, SoundRow, SoundLease
  <2>3. claimedBy'[m] = Nobody
    BY <1>2 DEF Sweep
  <2>4. m \in failed' <=> attempts[m] >= MaxAttempts
    BY <1>1, <1>2, <2>1 DEF DeadLetters
  <2>5. StateOf(m) = "CLAIMED"
    BY <2>1, <2>2 DEF StateOf
  <2>6. attempts[m] < MaxAttempts <=> ~(attempts[m] >= MaxAttempts)
    BY NotificationsAssumption DEF TypeOK
  <2>7. StateOf(m)' = IF attempts[m] < MaxAttempts THEN "PENDING" ELSE "FAILED"
    BY <1>1, <2>1, <2>3, <2>4, <2>6 DEF StateOf
  <2>8. QED
    BY <1>1, <2>2, <2>5, <2>7 DEF Moves, Queued!TakeBack, Queued!Goes, Queued!Keeps
<1>3. CASE m \notin Expired(s)
  <2>1. claimedBy'[m] = claimedBy[m] /\ (m \in failed' <=> m \in failed)
    BY <1>1, <1>3 DEF Sweep, DeadLetters
  <2>2. QED
    BY <1>1, <2>1, UntouchedRow, RestingRow
<1>4. QED
  BY <1>2, <1>3

LEMMA KeptRowsRest ==
  ASSUME UNCHANGED <<sent, lease, attempts, read, failed, lapsed, closedBy>>, NEW m \in Messages
  PROVE  Moves(m)
BY UntouchedRow, RestingRow DEF lease

LEMMA StepMovesRows ==
  ASSUME IInv, [Next]_vars, NEW m \in Messages
  PROVE  Moves(m)
<1> USE DEF IInv
<1>1. CASE Writes
  BY <1>1, PostIsRest, AckAllIsRest, ClaimIsHandOut, EndIsClose, SweepIsTakeBack DEF Writes
<1>2. CASE Idles
  <2>1. CASE \E n \in Messages : Lapse(n)
    BY <2>1, LapseIsLapse
  <2>2. CASE \E a \in Agents : Dies(a) \/ \E n \in Messages, k \in 1 .. MaxAttempts : LeaseLost(a, n, k)
    BY <2>2, KeptRowsRest DEF Dies, LeaseLost, rowVars
  <2>3. QED
    BY <1>2, <2>1, <2>2 DEF Idles
<1>3. CASE Touched \/ UNCHANGED vars
  BY <1>3, KeptRowsRest DEF Touched, vars, queueVars, rowVars
<1>4. CASE Watch
  BY <1>4, WaiterKeepsRows, KeptRowsRest
<1>5. QED
  BY <1>1, <1>2, <1>3, <1>4 DEF Next, Watch, Queue

\* Whatever agents and sweeps do to the columns of the rows, in whichever order,
\* each row moves as in MessageQueue.
THEOREM RowsImplementMessageQueue == Spec => ImplementsMessageQueue
<1>1. Init => Queued!Init
  BY DEF Init, QueueInit, StateOf, Queued!Init
<1>2. IInv /\ [Next]_vars => [Queued!Next]_(Queued!vars)
  BY StepMovesRows DEF Queued!Next, Moves
<1>3. QED
  BY <1>1, <1>2, Invariance, PTL DEF Spec, ImplementsMessageQueue, Queued!Spec
=============================================================================
