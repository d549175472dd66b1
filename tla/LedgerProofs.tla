---------------------------- MODULE LedgerProofs ----------------------------
(***************************************************************************)
(* What holds of the ledger for every value of its constants: types, that  *)
(* no claim is forgotten inside a week, the two caps, and the breaker.     *)
(*                                                                         *)
(* The caps are not inductive.  They hold because claim_write counts a     *)
(* view that has every claim of the last week in it, and the view has them *)
(* because no action drops one without a mark: HistoryInv says so of the   *)
(* file, of the dict a sleeper will write back, and of what a late release *)
(* may take away.                                                          *)
(***************************************************************************)
EXTENDS Ledger, FiniteSetTheorems, TLAPS

-----------------------------------------------------------------------------
(* Types. *)

\* _prune makes a dict of a dict.
LEMMA PrunedTyped ==
  ASSUME NEW d \in Dict, NEW t \in Nat
  PROVE  Pruned(d, t) \in Dict
<1>1. PrunedLost(d, t) \subseteq Nat
  BY DEF PrunedLost, Dict
<1> HIDE DEF Throttle, Row
<1> QED BY <1>1 DEF Pruned, Dict

\* _read returns a dict, whatever became of the file.
LEMMA ReadTyped ==
  TypeOK => Read \in Dict
BY DEF TypeOK, Read, EmptyDict, Dict

\* record_throttle finds a count, remembered or not.
LEMMA ThrottleCountTyped ==
  ASSUME NEW d \in Dict PROVE ThrottleCount(d) \in Nat
<1>1. Remembered(d) # {} => (CHOOSE h \in Remembered(d) : TRUE) \in Throttle
  BY DEF Remembered, Dict
<1> QED BY <1>1 DEF ThrottleCount, Throttle

\* No cooldown record_throttle computes is longer than its maximum.
LEMMA CooldownTyped ==
  ASSUME NEW n, NEW retry PROVE Cooldown(n, retry) \in 0 .. THROTTLE_MAX_COOLDOWN
<1> DEFINE earned == Max2(THROTTLE_COOLDOWN * 2^Min2(n - 1, 16), retry)
<1>1. Cooldown(n, retry) = IF earned \in 0 .. THROTTLE_MAX_COOLDOWN
                           THEN earned ELSE THROTTLE_MAX_COOLDOWN
  BY DEF Cooldown
<1> HIDE DEF earned
<1> QED BY <1>1, CooldownAssumption

\* wait_for_slot writes back a dict.
LEMMA SlottedTyped ==
  ASSUME NEW d \in Dict, now \in Nat PROVE Slotted(d) \in Dict
<1>1. [d EXCEPT !.slot = {now}] \in Dict
  BY DEF Dict
<1> QED BY <1>1, PrunedTyped DEF Slotted

\* Every method of State, and everything around them, keeps the types.
LEMMA TypeStep == TypeOK /\ [Next]_vars => TypeOK'
<1> SUFFICES ASSUME TypeOK, [Next]_vars PROVE TypeOK'
  OBVIOUS
<1> USE DEF TypeOK
<1>r. Read \in Dict /\ EnforcementView \in Dict
  BY ReadTyped, PrunedTyped DEF EnforcementView
<1>1. ASSUME NEW p \in Procs, NEW k \in Kinds, NEW c \in BOOLEAN, ClaimWrite(p, k, c)
      PROVE TypeOK'
  <2>1. NewRow(k, c) \in Row
    BY DEF NewRow, Row
  <2>2. [EnforcementView EXCEPT !.rows = @ \cup {NewRow(k, c)}] \in Dict
    BY <1>r, <2>1 DEF Dict
  <2> QED BY <1>1, <2>1, <2>2 DEF ClaimWrite, Put
<1>2. ASSUME NEW p \in Procs, CommitClaim(p) PROVE TypeOK'
  BY <1>2 DEF CommitClaim, file, ghost
<1>3. ASSUME NEW p \in Procs, ReleaseClaim(p) PROVE TypeOK'
  <2>1. \A r : [Read EXCEPT !.rows = @ \ {r}] \in Dict
    BY <1>r DEF Dict
  <2> QED BY <1>3, <2>1 DEF ReleaseClaim, Put, file
<1>4. ASSUME NEW p \in Procs, NEW i \in Intervals, TakeSlot(p, i) PROVE TypeOK'
  BY <1>4, <1>r, SlottedTyped DEF TakeSlot, Put, ghost
<1>5. ASSUME NEW p \in Procs, NEW i \in Intervals, StartSleep(p, i) PROVE TypeOK'
  <2>1. \A w \in SleepTimes(Read, i) : w \in Nat
    BY <1>r, CallersAssumption, CooldownAssumption DEF SleepTimes, Gap, Min2, Dict
  <2> QED BY <1>5, <2>1, <1>r DEF StartSleep, file, ghost
<1>6. ASSUME NEW p \in Procs, WakeWithSlot(p) PROVE TypeOK'
  BY <1>6, SlottedTyped DEF WakeWithSlot, Put, ghost
<1>7. ASSUME NEW p \in Procs, Kill(p) PROVE TypeOK'
  BY <1>7 DEF Kill, file, ghost
<1>8. ASSUME NEW retry \in RetryAfters, RecordThrottle(retry) PROVE TypeOK'
  <2> DEFINE until == now + Cooldown(ThrottleCount(Read), retry)
             entry == [at |-> now, until |-> until, count |-> ThrottleCount(Read)]
  <2>1. until \in Nat
    BY CooldownTyped, CooldownAssumption
  <2>2. entry \in Throttle
    BY <2>1, <1>r, ThrottleCountTyped DEF Throttle
  <2>3. [Read EXCEPT !.throttle = {entry}] \in Dict
    BY <1>r, <2>2 DEF Dict
  <2>4. Pruned([Read EXCEPT !.throttle = {entry}], now) \in Dict
    BY <2>3, PrunedTyped
  <2> HIDE DEF until
  <2> QED BY <1>8, <2>1, <2>4 DEF RecordThrottle, Put, Max2, until
<1>9. CASE TripBreaker
  <2>1. [Read EXCEPT !.breaker = {now}] \in Dict
    BY <1>r DEF Dict
  <2> QED BY <1>9, <2>1 DEF TripBreaker, Put, file
<1>10. CASE ClearBreaker
  <2>1. [Read EXCEPT !.breaker = {}] \in Dict
    BY <1>r DEF Dict
  <2> QED BY <1>10, <2>1 DEF ClearBreaker, Put, file
<1>11. CASE CountSessionFailure
  <2>1. FailuresNow \subseteq Stamp
    BY <1>r DEF FailuresNow, Stamp, Dict
  <2>2. \A b \in SUBSET Nat :
          [Read EXCEPT !.failures = FailuresNow, !.breaker = b] \in Dict
    BY <1>r, <2>1 DEF Dict
  <2>3. Read.breaker \subseteq Nat
    BY <1>r DEF Dict
  <2>4. data' \in Dict
    BY <1>11, <2>2, <2>3 DEF CountSessionFailure, Put
  <2> QED BY <1>11, <2>4 DEF CountSessionFailure, Put
<1>12. CASE ClearSessionFailures
  <2>1. [Read EXCEPT !.failures = {}] \in Dict
    BY <1>r DEF Dict
  <2> QED BY <1>12, <2>1 DEF ClearSessionFailures, Put, file, ghost
<1>13. CASE DiskFault
  BY <1>13 DEF DiskFault, ReadsFail, ReadsRecover, ghost
<1>14. CASE MoveAside
  BY <1>14 DEF MoveAside, Put, EmptyDict, Dict
<1>15. CASE Tick
  BY <1>15 DEF Tick, file, ghost
<1>16. CASE UNCHANGED vars
  BY <1>16 DEF vars, file, ghost
<1> QED
  BY <1>1, <1>2, <1>3, <1>4, <1>5, <1>6, <1>7, <1>8, <1>9, <1>10, <1>11, <1>12, <1>13,
     <1>14, <1>15, <1>16 DEF Next, Step, Shared

\* The variables keep their types, and one process at most is asleep with the
\* lock of wait_for_slot.
THEOREM TypeCorrect == Spec => []TypeOK
<1>1. Init => TypeOK
  BY DEF Init, TypeOK, EmptyDict, Dict
<1> QED BY <1>1, TypeStep, PTL DEF Spec

-----------------------------------------------------------------------------
(* No claim is forgotten. *)

\* No booked claim is stamped with a later instant.
NotAhead == \A r \in booked : r.at <= now

\* Unsettled claims are older than the next entry, and no two are the same.
ClaimsDistinct ==
  \A p \in Procs : \A c \in claim[p] :
    /\ c.id < entries /\ c.at <= now
    /\ \A q \in Procs : \A e \in claim[q] : c.id = e.id => p = q /\ c = e

\* A claim the operator discarded with a bad ledger, and whose process has
\* not settled it yet, is older than every claim that counts: giving it back
\* takes none of those away.
DiscardedAreOlder ==
  \A p \in Procs : \A c \in claim[p] :
    c \notin booked => c.at < now /\ \A r \in booked : c.at < r.at

\* The inductive strengthening of HistoryKept.
HistoryInv == TypeOK /\ NotAhead /\ ClaimsDistinct /\ DiscardedAreOlder /\ HistoryKept

\* _read knows of every claim that counts, or of the loss.
LEMMA ReadKept == TypeOK /\ NotAhead /\ HistoryKept => KeptBy(Read)
<1> SUFFICES ASSUME TypeOK, NotAhead, HistoryKept, ~readable PROVE KeptBy(Read)
  BY DEF Read, HistoryKept, TypeOK
<1>1. Read.lost = {now}
  BY DEF Read, EmptyDict
<1> QED BY <1>1 DEF KeptBy, NotAhead

\* _prune drops neither a row nor a mark that a claim of the last week needs.
LEMMA PrunedKept ==
  ASSUME TypeOK, NotAhead, NEW d \in Dict, KeptBy(d)
  PROVE  KeptBy(Pruned(d, now))
<1> SUFFICES ASSUME NEW c \in booked, c.at > now - WEEK
             PROVE c \in Pruned(d, now).rows \/ \E m \in Pruned(d, now).lost : c.at <= m
  BY DEF KeptBy
<1>t. now \in Nat /\ c.at \in Nat /\ c.at <= now /\ d.lost \subseteq Nat /\ WEEK \in Nat
  BY WindowsAssumption DEF TypeOK, NotAhead, Row, Dict
<1>1. Pruned(d, now).rows = {r \in d.rows : r.at >= now - WEEK}
      /\ Pruned(d, now).lost = PrunedLost(d, now)
  BY DEF Pruned, Dict
<1>2. CASE c \in d.rows
  BY <1>1, <1>2, <1>t
<1>3. ASSUME NEW m \in d.lost, c.at <= m PROVE \E n \in PrunedLost(d, now) : c.at <= n
  <2>1. now - m < WEEK
    BY <1>3, <1>t
  <2>2. (IF m > now THEN now ELSE m) \in PrunedLost(d, now)
    BY <2>1 DEF PrunedLost
  <2> QED BY <2>2, <1>3, <1>t
<1> QED BY <1>1, <1>2, <1>3 DEF KeptBy

\* Only the rows and the mark matter to it.
LEMMA SameHistoryKept ==
  ASSUME NEW d, NEW e, e.rows = d.rows, e.lost = d.lost, KeptBy(d)
  PROVE  KeptBy(e)
BY DEF KeptBy

\* Every action keeps the history: a claim is added to a view that has it all,
\* a release takes its own row away or one a mark explains, and a sleeper
\* writes back a dict that nobody has booked past.
LEMMA HistoryStep == HistoryInv /\ [Next]_vars => HistoryInv'
<1> SUFFICES ASSUME HistoryInv, [Next]_vars PROVE HistoryInv'
  OBVIOUS
<1>t. TypeOK /\ TypeOK' /\ NotAhead /\ ClaimsDistinct /\ DiscardedAreOlder /\ HistoryKept
  BY TypeStep DEF HistoryInv
<1>r. Read \in Dict /\ KeptBy(Read) /\ EnforcementView \in Dict /\ KeptBy(EnforcementView)
  BY <1>t, ReadTyped, ReadKept, PrunedTyped, PrunedKept DEF EnforcementView, TypeOK
<1>n. now \in Nat /\ entries \in Nat /\ booked \subseteq Row /\ claim \in [Procs -> SUBSET Row]
      /\ WEEK \in Nat
  BY <1>t, WindowsAssumption DEF TypeOK
\* Whoever holds no new claim and discards nothing disturbs only the file.
<1>q. ASSUME UNCHANGED <<now, claim, entries, booked>>
      PROVE  NotAhead' /\ ClaimsDistinct' /\ DiscardedAreOlder'
  BY <1>q, <1>t DEF NotAhead, ClaimsDistinct, DiscardedAreOlder
<1>f. ASSUME UNCHANGED <<now, claim, entries, booked>>, KeptBy(data'),
             \A s \in sleeping' : KeptBy(s.view)
      PROVE  HistoryInv'
  <2>1. HistoryKept'
    BY <1>f DEF HistoryKept, KeptBy
  <2> QED BY <2>1, <1>q, <1>f, <1>t DEF HistoryInv
<1>s. KeptBy(data) /\ \A s \in sleeping : KeptBy(s.view)
  BY <1>t DEF HistoryKept
<1>l. ASSUME NEW d \in Dict, KeptBy(d) PROVE KeptBy(Slotted(d))
  <2>1. [d EXCEPT !.slot = {now}] \in Dict /\ KeptBy([d EXCEPT !.slot = {now}])
    <3>1. [d EXCEPT !.slot = {now}] \in Dict
      BY <1>n DEF Dict
    <3>2. [d EXCEPT !.slot = {now}].rows = d.rows /\ [d EXCEPT !.slot = {now}].lost = d.lost
      BY DEF Dict
    <3> QED BY <3>1, <3>2, <1>l, SameHistoryKept
  <2> QED BY <2>1, <1>t, PrunedKept DEF Slotted
<1>1. ASSUME NEW p \in Procs, NEW k \in Kinds, NEW c \in BOOLEAN, ClaimWrite(p, k, c)
      PROVE HistoryInv'
  <2> DEFINE row == NewRow(k, c)
  <2>1. row.id = entries /\ row.at = now
    BY DEF NewRow
  <2>2. booked' = booked \cup {row} /\ claim' = [claim EXCEPT ![p] = {row}]
        /\ now' = now /\ entries' = entries + 1 /\ claim[p] = {} /\ sleeping' = sleeping
        /\ sleeping = {}
    BY <1>1 DEF ClaimWrite, LockFree
  <2>3. data'.rows = EnforcementView.rows \cup {row} /\ data'.lost = EnforcementView.lost
    BY <1>1, <1>r DEF ClaimWrite, Put, Dict
  <2> HIDE DEF row
  <2>4. NotAhead'
    BY <2>1, <2>2, <1>t, <1>n DEF NotAhead
  <2>5. ClaimsDistinct'
    BY <2>1, <2>2, <1>t, <1>n DEF ClaimsDistinct, Row
  <2>6. DiscardedAreOlder'
    BY <2>1, <2>2, <1>t, <1>n DEF DiscardedAreOlder, Row
  <2>7. HistoryKept'
    BY <2>2, <2>3, <1>r DEF HistoryKept, KeptBy
  <2> QED BY <2>4, <2>5, <2>6, <2>7, <1>t DEF HistoryInv
<1>2. ASSUME NEW p \in Procs, CommitClaim(p) PROVE HistoryInv'
  <2>1. /\ UNCHANGED <<now, data, sleeping, entries, booked>>
        /\ claim' = [claim EXCEPT ![p] = {}]
    BY <1>2 DEF CommitClaim, file, ghost
  <2>2. NotAhead' /\ HistoryKept'
    BY <2>1, <1>t DEF NotAhead, HistoryKept, KeptBy
  <2>3. ClaimsDistinct' /\ DiscardedAreOlder'
    BY <2>1, <1>t, <1>n DEF ClaimsDistinct, DiscardedAreOlder
  <2> QED BY <2>2, <2>3, <1>t DEF HistoryInv
<1>3. ASSUME NEW p \in Procs, ReleaseClaim(p) PROVE HistoryInv'
  <2>1. PICK c \in claim[p] :
          /\ booked' = booked \ {c}
          /\ IF SameStamp(Read, c) = {}
             THEN UNCHANGED file
             ELSE \E r \in Removable(Read, c) : Put([Read EXCEPT !.rows = @ \ {r}])
    BY <1>3 DEF ReleaseClaim
  <2>2. /\ UNCHANGED <<now, sleeping, entries>> /\ sleeping = {}
        /\ claim' = [claim EXCEPT ![p] = {}]
    BY <1>3 DEF ReleaseClaim, LockFree
  <2>3. NotAhead'
    BY <2>1, <2>2, <1>t DEF NotAhead
  <2>4. ClaimsDistinct'
    BY <2>2, <1>t, <1>n DEF ClaimsDistinct
  <2>5. DiscardedAreOlder'
    <3>1. ASSUME NEW q \in Procs, NEW e \in claim'[q], e \notin booked'
          PROVE  e \notin booked
      <4>1. q # p /\ e \in claim[q]
        BY <2>2, <1>n
      <4>2. e # c
        BY <4>1, <1>t DEF ClaimsDistinct
      <4> QED BY <3>1, <4>2, <2>1
    <3>2. \A q \in Procs : claim'[q] \subseteq claim[q]
      BY <2>2, <1>n
    <3> QED BY <3>1, <3>2, <2>1, <2>2, <1>t DEF DiscardedAreOlder
  <2>6. HistoryKept'
    <3>1. CASE UNCHANGED file
      BY <3>1, <2>1, <2>2, <1>s DEF HistoryKept, KeptBy, file
    <3>2. ASSUME NEW r \in Removable(Read, c), Put([Read EXCEPT !.rows = @ \ {r}])
          PROVE  HistoryKept'
      <4>1. data'.rows = Read.rows \ {r} /\ data'.lost = Read.lost
        BY <3>2, <1>r DEF Put, Dict
      <4>2. r.at = c.at
        BY <3>2 DEF Removable, SameStamp
      \* Another row than c may go only where c itself is not on the file any
      \* more; then what explains c's absence explains that row's too.
      <4>3. ASSUME r # c, r \in booked, r.at > now - WEEK
            PROVE  \E m \in Read.lost : r.at <= m
        <5>1. c \notin Read.rows
          BY <4>3, <3>2 DEF Removable
        <5>2. CASE c \in booked
          BY <5>1, <5>2, <4>2, <4>3, <1>r DEF KeptBy
        <5>3. CASE c \notin booked
          BY <5>3, <4>2, <4>3, <1>t, <1>n DEF DiscardedAreOlder, Row
        <5> QED BY <5>2, <5>3
      <4> QED BY <4>1, <4>3, <2>1, <2>2, <1>r DEF HistoryKept, KeptBy
    <3> QED BY <2>1, <3>1, <3>2
  <2> QED BY <2>3, <2>4, <2>5, <2>6, <1>t DEF HistoryInv
<1>4. ASSUME NEW p \in Procs, NEW i \in Intervals, TakeSlot(p, i) PROVE HistoryInv'
  BY <1>4, <1>r, <1>l, <1>f DEF TakeSlot, LockFree, Put, ghost
<1>5. ASSUME NEW p \in Procs, NEW i \in Intervals, StartSleep(p, i) PROVE HistoryInv'
  BY <1>5, <1>r, <1>s, <1>f DEF StartSleep, file, ghost
<1>6. ASSUME NEW p \in Procs, WakeWithSlot(p) PROVE HistoryInv'
  BY <1>6, <1>s, <1>t, <1>l, <1>f DEF WakeWithSlot, Put, ghost, TypeOK
<1>7. ASSUME NEW p \in Procs, Kill(p) PROVE HistoryInv'
  <2>1. /\ UNCHANGED <<now, data, entries, booked>> /\ sleeping' \subseteq sleeping
        /\ claim' = [claim EXCEPT ![p] = {}]
    BY <1>7 DEF Kill, file, ghost
  <2>2. NotAhead' /\ HistoryKept'
    BY <2>1, <1>t DEF NotAhead, HistoryKept, KeptBy
  <2>3. ClaimsDistinct' /\ DiscardedAreOlder'
    BY <2>1, <1>t, <1>n DEF ClaimsDistinct, DiscardedAreOlder
  <2> QED BY <2>2, <2>3, <1>t DEF HistoryInv
<1>8. ASSUME NEW retry \in RetryAfters, RecordThrottle(retry) PROVE HistoryInv'
  <2>1. PICK entry \in Throttle : data' = Pruned([Read EXCEPT !.throttle = {entry}], now)
    <3> DEFINE until == now + Cooldown(ThrottleCount(Read), retry)
               entry == [at |-> now, until |-> until, count |-> ThrottleCount(Read)]
    <3>1. until \in Nat
      BY <1>n, CooldownTyped, CooldownAssumption
    <3>2. entry \in Throttle
      BY <3>1, <1>n, <1>r, ThrottleCountTyped DEF Throttle
    <3> QED BY <3>2, <1>8 DEF RecordThrottle, Put
  <2>2. [Read EXCEPT !.throttle = {entry}] \in Dict
    BY <1>r DEF Dict
  <2>3. KeptBy([Read EXCEPT !.throttle = {entry}])
    BY <1>r, SameHistoryKept DEF Dict
  <2> QED BY <1>8, <2>1, <2>2, <2>3, <1>t, <1>s, <1>f, PrunedKept DEF RecordThrottle
<1>9. ASSUME UNCHANGED <<now, sleeping, claim, entries, booked>>,
             \/ UNCHANGED data
             \/ data'.rows = Read.rows /\ data'.lost = Read.lost
      PROVE  HistoryInv'
  BY <1>9, <1>r, <1>s, <1>f, SameHistoryKept
<1>10. CASE TripBreaker \/ ClearBreaker \/ ClearSessionFailures \/ DiskFault
  <2>1. \A b : /\ [Read EXCEPT !.breaker = b].rows = Read.rows
               /\ [Read EXCEPT !.breaker = b].lost = Read.lost
               /\ [Read EXCEPT !.failures = b].rows = Read.rows
               /\ [Read EXCEPT !.failures = b].lost = Read.lost
    BY <1>r DEF Dict
  <2> QED BY <1>9, <1>10, <2>1 DEF TripBreaker, ClearBreaker, ClearSessionFailures, DiskFault,
             ReadsFail, ReadsRecover, Put, file, ghost
<1>11. CASE CountSessionFailure
  <2>1. \A f, b : /\ [Read EXCEPT !.failures = f, !.breaker = b].rows = Read.rows
                  /\ [Read EXCEPT !.failures = f, !.breaker = b].lost = Read.lost
    BY <1>r DEF Dict
  <2>2. data'.rows = Read.rows /\ data'.lost = Read.lost
    BY <1>11, <2>1 DEF CountSessionFailure, Put
  <2>3. UNCHANGED <<now, sleeping, claim, booked>> /\ entries' = entries + 1
    BY <1>11 DEF CountSessionFailure
  <2>4. ClaimsDistinct'
    BY <2>3, <1>t, <1>n DEF ClaimsDistinct, Row
  <2>5. NotAhead' /\ DiscardedAreOlder' /\ HistoryKept'
    BY <2>2, <2>3, <1>t, <1>r DEF NotAhead, DiscardedAreOlder, HistoryKept, KeptBy
  <2> QED BY <2>4, <2>5, <1>t DEF HistoryInv
<1>12. CASE MoveAside
  <2>1. /\ UNCHANGED <<now, sleeping, claim, entries>> /\ booked' = {}
        /\ \A p \in Procs : \A c \in claim[p] : c.at < now
    BY <1>12 DEF MoveAside
  <2>2. NotAhead' /\ HistoryKept'
    BY <2>1 DEF NotAhead, HistoryKept, KeptBy
  <2>3. ClaimsDistinct' /\ DiscardedAreOlder'
    BY <2>1, <1>t DEF ClaimsDistinct, DiscardedAreOlder
  <2> QED BY <2>2, <2>3, <1>t DEF HistoryInv
<1>13. CASE Tick
  <2>1. UNCHANGED <<data, claim, entries, booked>> /\ now' = now + 1
    BY <1>13 DEF Tick, file, ghost
  <2>2. NotAhead' /\ ClaimsDistinct' /\ DiscardedAreOlder'
    BY <2>1, <1>t, <1>n DEF NotAhead, ClaimsDistinct, DiscardedAreOlder, Row
  <2>3. \A u \in sleeping' : \E s \in sleeping : u.view = s.view
    BY <1>13, <1>t DEF Tick, TypeOK
  <2>4. HistoryKept'
    BY <2>1, <2>3, <1>n, <1>s DEF HistoryKept, KeptBy, Row
  <2> QED BY <2>2, <2>4, <1>t DEF HistoryInv
<1>14. CASE UNCHANGED vars
  BY <1>14, <1>9 DEF vars, file, ghost
<1> QED
  BY <1>1, <1>2, <1>3, <1>4, <1>5, <1>6, <1>7, <1>8, <1>10, <1>11, <1>12, <1>13, <1>14
  DEF Next, Step, Shared

\* The first run of all starts from an absent file.
LEMMA HistoryInit == Init => HistoryInv
<1>1. Init => TypeOK
  BY DEF Init, TypeOK, EmptyDict, Dict
<1> QED BY <1>1 DEF Init, HistoryInv, NotAhead, ClaimsDistinct, DiscardedAreOlder,
           HistoryKept, KeptBy

\* A claim of the last week that was not given back is on the file and in the
\* dict a sleeper will publish, or they say since when they are incomplete:
\* lost files, late releases, kills and the pacer's write-back never hide one
\* (_read, _prune, claim_write, _release_claim, wait_for_slot).
THEOREM HistorySurvives == Spec => []HistoryKept
<1>1. HistoryInv => HistoryKept
  BY DEF HistoryInv
<1> QED BY <1>1, HistoryInit, HistoryStep, PTL DEF Spec

-----------------------------------------------------------------------------
(* The caps. *)

\* The lists of rows are finite.
Finite ==
  /\ IsFiniteSet(booked) /\ IsFiniteSet(data.rows)
  /\ \A s \in sleeping : IsFiniteSet(s.view.rows)

\* The inductive strengthening of the caps.
CapInv == HistoryInv /\ Finite /\ DailyCapHolds /\ WeeklyCapHolds

\* Fewer rows and a later cutoff count no more.
LEMMA BookedShrinks ==
  ASSUME NEW S \in SUBSET Row, NEW T \in SUBSET S, IsFiniteSet(S), NEW k, NEW c,
         NEW early \in Int, NEW late \in Int, early <= late, NEW limit \in Int,
         Cardinality(Booked(S, k, c, early)) <= limit
  PROVE  Cardinality(Booked(T, k, c, late)) <= limit
<1>1. Booked(T, k, c, late) \subseteq Booked(S, k, c, early)
  BY DEF Booked, Row
<1>2. IsFiniteSet(Booked(S, k, c, early))
  BY FS_Subset DEF Booked
<1>3. /\ Cardinality(Booked(T, k, c, late)) <= Cardinality(Booked(S, k, c, early))
      /\ Cardinality(Booked(T, k, c, late)) \in Nat
      /\ Cardinality(Booked(S, k, c, early)) \in Nat
  BY <1>1, <1>2, FS_Subset, FS_CardinalityType
<1> QED BY <1>3

\* A row may be added when what is counted holds all the rows and is below
\* the limit (_count, _guard_write).
LEMMA BookedGrows ==
  ASSUME NEW S, NEW R, IsFiniteSet(S), IsFiniteSet(R), NEW row, NEW k, NEW c, NEW cut,
         NEW limit \in Int, Booked(S, k, c, cut) \subseteq R,
         Cardinality(Booked(R, k, c, cut)) < limit
  PROVE  Cardinality(Booked(S \cup {row}, k, c, cut)) <= limit
<1> DEFINE B == Booked(S, k, c, cut)
<1>1. B \subseteq Booked(R, k, c, cut) /\ B \subseteq S
  BY DEF Booked
<1>2. IsFiniteSet(B) /\ IsFiniteSet(Booked(R, k, c, cut))
  BY FS_Subset DEF Booked
<1>3. /\ Cardinality(B) <= Cardinality(Booked(R, k, c, cut))
      /\ Cardinality(B) \in Nat /\ Cardinality(Booked(R, k, c, cut)) \in Nat
  BY <1>1, <1>2, FS_Subset, FS_CardinalityType
<1>4. Booked(S \cup {row}, k, c, cut) \in {B, B \cup {row}}
  BY DEF Booked
<1>5. Cardinality(B \cup {row}) \in {Cardinality(B), Cardinality(B) + 1}
  BY <1>2, FS_AddElement
<1> HIDE DEF B
<1> QED BY <1>3, <1>4, <1>5

\* No action makes a list of rows infinite.
LEMMA FiniteStep == TypeOK /\ Finite /\ [Next]_vars => Finite'
<1> SUFFICES ASSUME TypeOK, Finite, [Next]_vars PROVE Finite'
  OBVIOUS
<1>r. Read \in Dict /\ IsFiniteSet(Read.rows)
  BY ReadTyped, FS_EmptySet DEF Read, Finite, EmptyDict
<1>p. ASSUME NEW d \in Dict, IsFiniteSet(d.rows)
      PROVE  IsFiniteSet(Pruned(d, now).rows) /\ IsFiniteSet(Slotted(d).rows)
  <2>1. Pruned(d, now).rows \subseteq d.rows /\ Slotted(d).rows \subseteq d.rows
    BY DEF Slotted, Pruned, Dict
  <2> QED BY <1>p, <2>1, FS_Subset
<1>f. ASSUME booked' = booked, IsFiniteSet(data'.rows),
             \A u \in sleeping' : u \in sleeping \/ IsFiniteSet(u.view.rows)
      PROVE  Finite'
  BY <1>f DEF Finite
<1>1. ASSUME NEW p \in Procs, NEW k \in Kinds, NEW c \in BOOLEAN, ClaimWrite(p, k, c)
      PROVE Finite'
  <2>1. EnforcementView \in Dict /\ IsFiniteSet(EnforcementView.rows)
    BY <1>r, <1>p, PrunedTyped DEF EnforcementView, TypeOK
  <2>2. data'.rows = EnforcementView.rows \cup {NewRow(k, c)}
    BY <1>1, <2>1 DEF ClaimWrite, Put, Dict
  <2>3. IsFiniteSet(data'.rows) /\ IsFiniteSet(booked')
    BY <1>1, <2>1, <2>2, FS_AddElement DEF ClaimWrite, Finite
  <2> QED BY <1>1, <2>3 DEF ClaimWrite, LockFree, Finite
<1>2. ASSUME NEW p \in Procs, ReleaseClaim(p) PROVE Finite'
  <2>1. data'.rows \subseteq Read.rows \/ data' = data
    BY <1>2, <1>r DEF ReleaseClaim, Put, file, Dict
  <2>2. booked' \subseteq booked /\ sleeping' = sleeping
    BY <1>2 DEF ReleaseClaim
  <2> QED BY <2>1, <2>2, <1>r, FS_Subset DEF Finite
<1>3. ASSUME NEW p \in Procs, NEW i \in Intervals, TakeSlot(p, i) PROVE Finite'
  BY <1>3, <1>r, <1>p, <1>f DEF TakeSlot, Put, ghost
<1>4. ASSUME NEW p \in Procs, NEW i \in Intervals, StartSleep(p, i) PROVE Finite'
  BY <1>4, <1>r, <1>f DEF StartSleep, file, ghost, Finite
<1>5. ASSUME NEW p \in Procs, WakeWithSlot(p) PROVE Finite'
  BY <1>5, <1>p, <1>f DEF WakeWithSlot, Put, ghost, TypeOK, Finite
<1>6. ASSUME NEW p \in Procs, CommitClaim(p) \/ Kill(p) PROVE Finite'
  BY <1>6, <1>f DEF CommitClaim, Kill, file, ghost, Finite
<1>7. ASSUME NEW retry \in RetryAfters, RecordThrottle(retry) PROVE Finite'
  <2>1. PICK h : data' = Pruned([Read EXCEPT !.throttle = {h}], now)
    BY <1>7 DEF RecordThrottle, Put
  <2>2. data'.rows \subseteq Read.rows
    BY <2>1, <1>r DEF Pruned, Dict
  <2> QED BY <1>7, <2>2, <1>r, <1>f, FS_Subset DEF RecordThrottle
<1>8. CASE TripBreaker \/ ClearBreaker \/ ClearSessionFailures \/ DiskFault
  <2>1. data'.rows = Read.rows \/ data' = data
    BY <1>8, <1>r DEF TripBreaker, ClearBreaker, ClearSessionFailures, DiskFault, ReadsFail,
       ReadsRecover, Put, file, Dict
  <2>2. UNCHANGED <<sleeping, booked>>
    BY <1>8 DEF TripBreaker, ClearBreaker, ClearSessionFailures, DiskFault, ghost
  <2> QED BY <2>1, <2>2, <1>r, <1>f DEF Finite
<1>9. CASE CountSessionFailure
  BY <1>9, <1>r, <1>f DEF CountSessionFailure, Put, Dict
<1>10. CASE MoveAside
  BY <1>10, FS_EmptySet DEF MoveAside, Put, EmptyDict, Finite
<1>11. CASE Tick
  <2>1. \A u \in sleeping' : \E s \in sleeping : u.view = s.view
    BY <1>11 DEF Tick, TypeOK
  <2> QED BY <1>11, <2>1 DEF Tick, file, ghost, Finite
<1>12. CASE UNCHANGED vars
  BY <1>12, <1>f DEF vars, file, ghost, Finite
<1> QED
  BY <1>1, <1>2, <1>3, <1>4, <1>5, <1>6, <1>7, <1>8, <1>9, <1>10, <1>11, <1>12
  DEF Next, Step, Shared

\* Every action keeps the caps; claim_write is the only one that could not.
LEMMA CapStep == CapInv /\ [Next]_vars => DailyCapHolds' /\ WeeklyCapHolds'
<1> SUFFICES ASSUME CapInv, [Next]_vars PROVE DailyCapHolds' /\ WeeklyCapHolds'
  OBVIOUS
<1>t. TypeOK /\ NotAhead /\ HistoryKept /\ Finite /\ DailyCapHolds /\ WeeklyCapHolds
  BY DEF CapInv, HistoryInv
<1>n. now \in Nat /\ DAY \in Nat /\ WEEK \in Nat /\ DAY < WEEK
  BY <1>t, WindowsAssumption DEF TypeOK
<1>b. booked \subseteq Row /\ IsFiniteSet(booked)
  BY <1>t DEF TypeOK, Finite
<1>c. \A k \in Kinds : DailyCap[k] \in Int /\ DailyCap[k] * WEEKLY_MULTIPLIER \in Int
  BY LimitsAssumption
<1>1. ASSUME booked' \subseteq booked, NEW t \in Nat, now <= t, now' = t
      PROVE  DailyCapHolds' /\ WeeklyCapHolds'
  <2>t. /\ now - DAY \in Int /\ t - DAY \in Int /\ now - DAY <= t - DAY
        /\ now - WEEK + 1 \in Int /\ t - WEEK + 1 \in Int
        /\ now - WEEK + 1 <= t - WEEK + 1
    BY <1>1, <1>n
  <2>1. ASSUME NEW k \in Kinds
        PROVE  Cardinality(Booked(booked', k, FALSE, t - DAY)) <= DailyCap[k]
    <3>1. Cardinality(Booked(booked, k, FALSE, now - DAY)) <= DailyCap[k]
      BY <1>t DEF DailyCapHolds
    <3>2. DailyCap[k] \in Int /\ booked \in SUBSET Row /\ booked' \in SUBSET booked
      BY <1>1, <1>b, <1>c
    <3> QED BY <3>1, <3>2, <2>t, <1>b, BookedShrinks
  <2>2. ASSUME NEW k \in Kinds
        PROVE  Cardinality(Booked(booked', k, FALSE, t - WEEK + 1))
                 <= DailyCap[k] * WEEKLY_MULTIPLIER
    <3> DEFINE limit == DailyCap[k] * WEEKLY_MULTIPLIER
    <3>1. Cardinality(Booked(booked, k, FALSE, now - WEEK + 1)) <= limit
      BY <1>t DEF WeeklyCapHolds
    <3>2. limit \in Int /\ booked \in SUBSET Row /\ booked' \in SUBSET booked
      BY <1>1, <1>b, <1>c
    <3> DEFINE early == now - WEEK + 1
               late  == t - WEEK + 1
    <3>3. early \in Int /\ late \in Int /\ early <= late
      BY <2>t
    <3>4. Cardinality(Booked(booked, k, FALSE, early)) <= limit
      BY <3>1
    <3> HIDE DEF limit, early, late
    <3>5. Cardinality(Booked(booked', k, FALSE, late)) <= limit
      BY <3>2, <3>3, <3>4, <1>b, BookedShrinks
    <3> QED BY <3>5 DEF limit, late
  <2> QED BY <2>1, <2>2, <1>1 DEF DailyCapHolds, WeeklyCapHolds
<1>2. ASSUME NEW p \in Procs, NEW k \in Kinds, NEW c \in BOOLEAN, ClaimWrite(p, k, c)
      PROVE DailyCapHolds' /\ WeeklyCapHolds'
  <2> DEFINE row == NewRow(k, c)
             view == EnforcementView
  <2>1. booked' = booked \cup {row} /\ now' = now /\ row.kind = k /\ row.cleanup = c
    BY <1>2 DEF ClaimWrite, NewRow
  <2>2. CASE c
    <3>1. \A h \in Kinds, cut \in Int : Booked(booked', h, FALSE, cut) = Booked(booked, h, FALSE, cut)
      BY <2>1, <2>2 DEF Booked
    <3>2. now - DAY \in Int /\ now - WEEK + 1 \in Int
      BY <1>n
    <3> QED BY <2>1, <3>1, <3>2, <1>t DEF DailyCapHolds, WeeklyCapHolds
  <2>3. CASE ~c
    <3>1. view \in Dict /\ KeptBy(view) /\ IsFiniteSet(view.rows)
      <4>1. Read \in Dict /\ KeptBy(Read) /\ IsFiniteSet(Read.rows)
        BY <1>t, ReadTyped, ReadKept, FS_EmptySet DEF Read, Finite, EmptyDict
      <4>2. view.rows \subseteq Read.rows
        BY <4>1 DEF EnforcementView, Pruned, Dict
      <4> QED BY <4>1, <4>2, <1>t, PrunedTyped, PrunedKept, FS_Subset
          DEF EnforcementView, TypeOK
    \* A view that knows of no loss holds every claim of the last week.
    <3>2. view.lost = {} /\ WriteAllowed(view, k, now)
      BY <1>2, <2>3 DEF ClaimWrite, ClaimAllowed
    <3>3. \A r \in booked : r.at > now - WEEK => r \in view.rows
      BY <3>1, <3>2 DEF KeptBy
    <3>4. /\ Cardinality(Booked(view.rows, k, FALSE, now - DAY)) < DailyCap[k]
          /\ Cardinality(Booked(view.rows, k, FALSE, now - WEEK)) < DailyCap[k] * WEEKLY_MULTIPLIER
      BY <3>2 DEF WriteAllowed, Count
    <3>5. /\ Booked(booked, k, FALSE, now - DAY) \subseteq view.rows
          /\ Booked(booked, k, FALSE, now - WEEK + 1) \subseteq view.rows
      BY <3>3, <1>n, <1>b DEF Booked, Row
    <3>6. Cardinality(Booked(view.rows, k, FALSE, now - WEEK + 1)) < DailyCap[k] * WEEKLY_MULTIPLIER
      <4>1. Booked(view.rows, k, FALSE, now - WEEK + 1)
              \subseteq Booked(view.rows, k, FALSE, now - WEEK)
        BY <1>n, <3>1 DEF Booked, Row, Dict
      <4>2. IsFiniteSet(Booked(view.rows, k, FALSE, now - WEEK))
        BY <3>1, FS_Subset DEF Booked
      <4> DEFINE wide == Booked(view.rows, k, FALSE, now - WEEK)
                 tight == Booked(view.rows, k, FALSE, now - WEEK + 1)
      <4> HIDE DEF view, wide, tight
      <4>3. /\ Cardinality(tight) <= Cardinality(wide)
            /\ Cardinality(tight) \in Nat /\ Cardinality(wide) \in Nat
        <5>1. tight \subseteq wide /\ IsFiniteSet(wide)
          BY <4>1, <4>2 DEF wide, tight
        <5> QED BY <5>1, FS_Subset, FS_CardinalityType
      <4>4. Cardinality(wide) < DailyCap[k] * WEEKLY_MULTIPLIER
        BY <3>4 DEF wide
      <4>5. Cardinality(tight) < DailyCap[k] * WEEKLY_MULTIPLIER
        BY <4>3, <4>4, <1>c
      <4> QED BY <4>5 DEF tight
    <3>7. Cardinality(Booked(booked', k, FALSE, now' - DAY)) <= DailyCap[k]
      <4> HIDE DEF view, row
      <4> QED BY <2>1, <3>1, <3>4, <3>5, <1>b, <1>c, BookedGrows
    <3>8. Cardinality(Booked(booked', k, FALSE, now' - WEEK + 1)) <= DailyCap[k] * WEEKLY_MULTIPLIER
      <4> HIDE DEF view, row
      <4> QED BY <2>1, <3>1, <3>6, <3>5, <1>b, <1>c, BookedGrows
    <3>9. \A h \in Kinds \ {k}, cut \in Int :
            Booked(booked', h, FALSE, cut) = Booked(booked, h, FALSE, cut)
      BY <2>1 DEF Booked
    <3>10. now' - DAY \in Int /\ now' - WEEK + 1 \in Int
      BY <2>1, <1>n
    <3>11. DailyCapHolds'
      BY <3>7, <3>9, <3>10, <2>1, <1>t DEF DailyCapHolds
    <3>12. WeeklyCapHolds'
      BY <3>8, <3>9, <3>10, <2>1, <1>t DEF WeeklyCapHolds
    <3> QED BY <3>11, <3>12
  <2> QED BY <2>2, <2>3
<1>3. ASSUME NEW p \in Procs, ReleaseClaim(p) PROVE booked' \subseteq booked /\ now' = now
  BY <1>3 DEF ReleaseClaim
<1>4. ASSUME NEW p \in Procs, NEW i \in Intervals, TakeSlot(p, i) \/ StartSleep(p, i)
      PROVE booked' = booked /\ now' = now
  BY <1>4 DEF TakeSlot, StartSleep, ghost
<1>5. ASSUME NEW p \in Procs, WakeWithSlot(p) \/ CommitClaim(p) \/ Kill(p)
      PROVE booked' = booked /\ now' = now
  BY <1>5 DEF WakeWithSlot, CommitClaim, Kill, ghost
<1>6. ASSUME NEW retry \in RetryAfters, RecordThrottle(retry)
      PROVE booked' = booked /\ now' = now
  BY <1>6 DEF RecordThrottle
<1>7. ASSUME \/ TripBreaker \/ ClearBreaker \/ CountSessionFailure \/ ClearSessionFailures
             \/ DiskFault \/ MoveAside \/ UNCHANGED vars
      PROVE booked' \subseteq booked /\ now' = now
  BY <1>7 DEF TripBreaker, ClearBreaker, CountSessionFailure, ClearSessionFailures, DiskFault,
     MoveAside, vars, ghost
<1>8. ASSUME Tick PROVE booked' = booked /\ now' = now + 1
  BY <1>8 DEF Tick, ghost
<1>9. ASSUME booked' \subseteq booked, now' \in {now, now + 1}
      PROVE DailyCapHolds' /\ WeeklyCapHolds'
  <2>1. now + 1 \in Nat /\ now <= now + 1 /\ now <= now
    BY <1>n
  <2> QED BY <1>9, <2>1, <1>1, <1>n
<1> QED
  BY <1>2, <1>3, <1>4, <1>5, <1>6, <1>7, <1>8, <1>9 DEF Next, Step, Shared

\* The strengthened invariant holds throughout.
LEMMA CapInvariant == Spec => []CapInv
<1>1. Init => CapInv
  <2>1. Init => Finite
    BY FS_EmptySet DEF Init, Finite, EmptyDict
  <2>2. Init => DailyCapHolds /\ WeeklyCapHolds
    <3> SUFFICES ASSUME Init PROVE DailyCapHolds /\ WeeklyCapHolds
      OBVIOUS
    <3>1. \A k, cut : Booked(booked, k, FALSE, cut) = {}
      BY DEF Init, Booked
    <3>2. \A a, b \in Nat : 0 <= a * b
      OBVIOUS
    <3>3. \A k \in Kinds : 0 <= DailyCap[k] /\ 0 <= DailyCap[k] * WEEKLY_MULTIPLIER
      BY <3>2, LimitsAssumption
    <3> QED BY <3>1, <3>3, FS_EmptySet DEF DailyCapHolds, WeeklyCapHolds
  <2> QED BY <2>1, <2>2, HistoryInit DEF CapInv
<1>2. CapInv /\ [Next]_vars => CapInv'
  BY CapStep, FiniteStep, HistoryStep DEF CapInv, HistoryInv
<1> QED BY <1>1, <1>2, PTL DEF Spec

\* In any 24h no more ordinary writes of a kind are booked than its daily cap,
\* nor in any week than the weekly multiple (claim_write, _guard_write).
THEOREM CapsHold == Spec => [](DailyCapHolds /\ WeeklyCapHolds)
<1>1. CapInv => DailyCapHolds /\ WeeklyCapHolds
  BY DEF CapInv
<1> QED BY <1>1, CapInvariant, PTL

\* The weekly one by itself, which a loss of the file threatens for longest: a
\* mark must outlive every claim it may have lost (_prune, _enforcement_view).
THEOREM WeeklyCapIsHeld == Spec => []WeeklyCapHolds
<1>1. DailyCapHolds /\ WeeklyCapHolds => WeeklyCapHolds
  OBVIOUS
<1> QED BY <1>1, CapsHold, PTL

-----------------------------------------------------------------------------
(* The breaker. *)

\* A dict still refuses writes for every trip that was not cleared, unless a
\* week has passed.
TripKeptBy(d) ==
  \A b \in tripped : d.breaker # {} \/ (\E m \in d.lost : b <= m) \/ WEEK <= now - b

\* So do the file and the dict a sleeper will publish.
TripKept == TripKeptBy(data) /\ \A s \in sleeping : TripKeptBy(s.view)

\* The inductive invariant behind BreakerOutlastsLoss.
TripInv == TypeOK /\ (\A b \in tripped : b <= now) /\ TripKept

\* _read shows the open breaker, or the loss.
LEMMA ReadTripKept == TripInv => TripKeptBy(Read)
<1> SUFFICES ASSUME TripInv, ~readable PROVE TripKeptBy(Read)
  BY DEF Read, TripInv, TripKept, TypeOK
<1>1. Read.lost = {now}
  BY DEF Read, EmptyDict
<1> QED BY <1>1 DEF TripKeptBy, TripInv

\* _prune keeps the breaker, and the mark for a week.
LEMMA PrunedTripKept ==
  ASSUME TripInv, NEW d \in Dict, TripKeptBy(d) PROVE TripKeptBy(Pruned(d, now))
<1>1. Pruned(d, now).breaker = d.breaker /\ Pruned(d, now).lost = PrunedLost(d, now)
  BY DEF Pruned, Dict
<1>2. ASSUME NEW b \in tripped, NEW m \in d.lost, b <= m
      PROVE  (\E n \in PrunedLost(d, now) : b <= n) \/ WEEK <= now - b
  <2>1. now \in Nat /\ b \in Nat /\ b <= now /\ m \in Nat /\ WEEK \in Nat
    BY WindowsAssumption DEF TripInv, TypeOK, Dict
  <2>2. CASE now - m < WEEK
    <3>1. (IF m > now THEN now ELSE m) \in PrunedLost(d, now)
      BY <2>2 DEF PrunedLost
    <3> QED BY <3>1, <2>1, <1>2
  <2>3. CASE ~(now - m < WEEK)
    BY <2>1, <2>3, <1>2
  <2> QED BY <2>2, <2>3
<1> QED BY <1>1, <1>2 DEF TripKeptBy

\* Every action keeps what refuses writes after a trip.
LEMMA TripStep == TripInv /\ [Next]_vars => TripInv'
<1> SUFFICES ASSUME TripInv, [Next]_vars PROVE TripInv'
  OBVIOUS
<1>t. TypeOK /\ TypeOK' /\ TripKept /\ \A b \in tripped : b <= now
  BY TypeStep DEF TripInv
<1>r. Read \in Dict /\ TripKeptBy(Read)
  BY <1>t, ReadTyped, ReadTripKept
<1>s. TripKeptBy(data) /\ \A s \in sleeping : TripKeptBy(s.view) /\ s.view \in Dict
  BY <1>t DEF TripKept, TypeOK
<1>f. ASSUME UNCHANGED <<now, tripped>>, TripKeptBy(data'),
             \A u \in sleeping' : u \in sleeping \/ TripKeptBy(u.view)
      PROVE  TripInv'
  BY <1>f, <1>t, <1>s DEF TripInv, TripKept, TripKeptBy
<1>p. ASSUME NEW d \in Dict, TripKeptBy(d)
      PROVE  TripKeptBy(Pruned(d, now)) /\ TripKeptBy(Slotted(d))
  <2>1. [d EXCEPT !.slot = {now}] \in Dict
    BY <1>t DEF Dict, TypeOK
  <2>2. TripKeptBy([d EXCEPT !.slot = {now}])
    BY <1>p DEF Dict, TripKeptBy
  <2> QED BY <2>1, <2>2, <1>p, PrunedTripKept DEF Slotted
<1>1. ASSUME NEW p \in Procs, NEW k \in Kinds, NEW c \in BOOLEAN, ClaimWrite(p, k, c)
      PROVE TripInv'
  <2>1. EnforcementView \in Dict /\ TripKeptBy(EnforcementView)
    BY <1>r, <1>p, <1>t, PrunedTyped DEF EnforcementView, TypeOK
  <2>2. data'.breaker = EnforcementView.breaker /\ data'.lost = EnforcementView.lost
    BY <1>1, <2>1 DEF ClaimWrite, Put, Dict
  <2> QED BY <1>1, <2>1, <2>2, <1>f DEF ClaimWrite, TripKeptBy
<1>2. ASSUME NEW p \in Procs, CommitClaim(p) \/ Kill(p) PROVE TripInv'
  BY <1>2, <1>s, <1>f DEF CommitClaim, Kill, file, ghost
<1>3. ASSUME NEW p \in Procs, ReleaseClaim(p) PROVE TripInv'
  <2>1. data' = data \/ (data'.breaker = Read.breaker /\ data'.lost = Read.lost)
    BY <1>3, <1>r DEF ReleaseClaim, Put, file, Dict
  <2> QED BY <1>3, <2>1, <1>r, <1>s, <1>f DEF ReleaseClaim, TripKeptBy
<1>4. ASSUME NEW p \in Procs, NEW i \in Intervals, TakeSlot(p, i) PROVE TripInv'
  BY <1>4, <1>r, <1>p, <1>f DEF TakeSlot, Put, ghost
<1>5. ASSUME NEW p \in Procs, NEW i \in Intervals, StartSleep(p, i) PROVE TripInv'
  BY <1>5, <1>r, <1>s, <1>f DEF StartSleep, file, ghost
<1>6. ASSUME NEW p \in Procs, WakeWithSlot(p) PROVE TripInv'
  BY <1>6, <1>s, <1>p, <1>f DEF WakeWithSlot, Put, ghost
<1>7. ASSUME NEW retry \in RetryAfters, RecordThrottle(retry) PROVE TripInv'
  <2>1. PICK h : data' = Pruned([Read EXCEPT !.throttle = {h}], now)
    BY <1>7 DEF RecordThrottle, Put
  <2>2. data'.breaker = Pruned(Read, now).breaker /\ data'.lost = Pruned(Read, now).lost
    BY <2>1, <1>r DEF Pruned, PrunedLost, Dict
  <2> QED BY <1>7, <2>2, <1>r, <1>p, <1>f DEF RecordThrottle, TripKeptBy
<1>8. CASE TripBreaker
  <2>1. sleeping = {} /\ sleeping' = {} /\ now' = now /\ tripped' = {now}
    BY <1>8 DEF TripBreaker, LockFree
  <2>2. data'.breaker # {}
    <3>1. Read.breaker # {} => data.breaker = Read.breaker
      BY DEF Read, EmptyDict
    <3> QED BY <1>8, <3>1, <1>r DEF TripBreaker, Put, file, Dict
  <2> QED BY <2>1, <2>2, <1>t DEF TripInv, TripKept, TripKeptBy, TypeOK
<1>9. CASE ClearBreaker
  BY <1>9, <1>t DEF ClearBreaker, LockFree, TripInv, TripKept, TripKeptBy
<1>10. CASE CountSessionFailure
  <2> DEFINE arms == Cardinality(FailuresNow) >= FAILURE_LIMIT
  <2>1. /\ data'.lost = Read.lost /\ UNCHANGED <<now, sleeping>> /\ sleeping = {}
        /\ data'.breaker = IF arms /\ Read.breaker = {} THEN {now} ELSE Read.breaker
        /\ tripped' = IF arms THEN {now} ELSE tripped
    BY <1>10, <1>r DEF CountSessionFailure, LockFree, Put, Dict
  <2> HIDE DEF arms
  <2>2. CASE arms
    BY <2>1, <2>2, <1>t DEF TripInv, TripKept, TripKeptBy, TypeOK
  <2>3. CASE ~arms
    BY <2>1, <2>3, <1>r, <1>f DEF TripKeptBy
  <2> QED BY <2>2, <2>3
<1>11. CASE ClearSessionFailures \/ DiskFault
  <2>1. data' = data \/ (data'.breaker = Read.breaker /\ data'.lost = Read.lost)
    BY <1>11, <1>r DEF ClearSessionFailures, DiskFault, ReadsFail, ReadsRecover, Put, file, Dict
  <2>2. UNCHANGED <<now, sleeping, tripped>>
    BY <1>11 DEF ClearSessionFailures, DiskFault, ghost
  <2> QED BY <2>1, <2>2, <1>r, <1>s, <1>f DEF TripKeptBy
<1>12. CASE MoveAside
  BY <1>12, <1>t DEF MoveAside, TripInv, TripKept, TripKeptBy
<1>13. CASE Tick
  <2>1. now' = now + 1 /\ UNCHANGED <<data, tripped>> /\ now \in Nat /\ WEEK \in Nat
    BY <1>13, <1>t, WindowsAssumption DEF Tick, file, ghost, TypeOK
  <2>2. \A u \in sleeping' : \E s \in sleeping : u.view = s.view
    BY <1>13, <1>t DEF Tick, TypeOK
  <2>3. \A b \in tripped : b \in Nat
    BY <1>t DEF TypeOK
  <2>4. TripKept' /\ \A b \in tripped' : b <= now'
    BY <2>1, <2>2, <2>3, <1>s, <1>t DEF TripKept, TripKeptBy
  <2> QED BY <2>4, <1>t DEF TripInv
<1>14. CASE UNCHANGED vars
  BY <1>14, <1>s, <1>f DEF vars, file, ghost
<1> QED
  BY <1>1, <1>2, <1>3, <1>4, <1>5, <1>6, <1>7, <1>8, <1>9, <1>10, <1>11, <1>12, <1>13, <1>14
  DEF Next, Step, Shared

\* Only claim_write books.
LEMMA OnlyClaimsBook ==
  [Next]_vars /\ BooksAWrite => \E p \in Procs, k \in Kinds : ClaimWrite(p, k, FALSE)
<1> SUFFICES ASSUME [Next]_vars, NEW r \in booked' \ booked, ~r.cleanup
             PROVE  \E p \in Procs, k \in Kinds : ClaimWrite(p, k, FALSE)
  BY DEF BooksAWrite
<1>1. ASSUME NEW p \in Procs, NEW k \in Kinds, ClaimWrite(p, k, TRUE) PROVE FALSE
  BY <1>1 DEF ClaimWrite, NewRow
<1>2. ~Tick /\ ~UNCHANGED vars
  BY DEF Tick, vars, ghost
<1>3. ~Shared
  BY DEF Shared, RecordThrottle, TripBreaker, ClearBreaker, CountSessionFailure,
     ClearSessionFailures, DiskFault, MoveAside, ghost
<1>4. ASSUME NEW p \in Procs
      PROVE  /\ ~CommitClaim(p) /\ ~ReleaseClaim(p) /\ ~WakeWithSlot(p) /\ ~Kill(p)
             /\ \A i \in Intervals : ~TakeSlot(p, i) /\ ~StartSleep(p, i)
  BY DEF CommitClaim, ReleaseClaim, WakeWithSlot, Kill, TakeSlot, StartSleep, ghost
<1> QED BY <1>1, <1>2, <1>3, <1>4 DEF Next, Step

\* After the breaker was tripped no ordinary write is booked until it is
\* cleared, or until a week has passed when the file was lost (_guard_write,
\* _guard_readable, trip_breaker, count_session_failure).
THEOREM BreakerHolds == Spec => BreakerOutlastsLoss
<1>1. Init => TripInv
  <2>1. Init => TypeOK
    BY DEF Init, TypeOK, EmptyDict, Dict
  <2> QED BY <2>1 DEF Init, TripInv, TripKept, TripKeptBy
<1>2. TripInv /\ [Next]_vars => [BooksAWrite => \A b \in tripped : WEEK <= now - b]_vars
  <2> SUFFICES ASSUME TripInv, NEW p \in Procs, NEW k \in Kinds, ClaimWrite(p, k, FALSE)
               PROVE  \A b \in tripped : WEEK <= now - b
    BY OnlyClaimsBook
  <2>1. EnforcementView.lost = {} /\ EnforcementView.breaker = {}
    BY DEF ClaimWrite, ClaimAllowed, WriteAllowed
  <2>2. TripKeptBy(EnforcementView)
    BY ReadTyped, ReadTripKept, PrunedTripKept DEF TripInv, EnforcementView
  <2> QED BY <2>1, <2>2 DEF TripKeptBy
<1> QED BY <1>1, <1>2, TripStep, PTL DEF Spec, BreakerOutlastsLoss

-----------------------------------------------------------------------------
(* What is undone behind an open breaker. *)

\* The undos among the claims S that are not a day old at t and came after b.
UndoneAfter(S, k, b, t) == {r \in Booked(S, k, TRUE, t - DAY) : r.at > b}

\* A breaker has one stamp at most, not ahead of the clock, and what was undone
\* after it is bounded.
Bounding(B, S, t) ==
  \A b \in B :
    /\ b <= t /\ \A a \in B : a = b
    /\ \A k \in Kinds : Cardinality(UndoneAfter(S, k, b, t)) <= DailyCap[k]

\* The inductive strengthening of BlockedUndosBounded: a sleeper's dict may
\* bring its breaker back.
UndoInv ==
  /\ HistoryInv /\ Finite
  /\ Bounding(data.breaker, booked, now)
  /\ \A s \in sleeping : Bounding(s.view.breaker, booked, now)

\* Claims that are given back and time that passes leave fewer.
LEMMA BoundingKept ==
  ASSUME NEW S \in SUBSET Row, IsFiniteSet(S), NEW T \in SUBSET S,
         NEW t \in Nat, NEW u \in Nat, t <= u, NEW B \in SUBSET Nat, Bounding(B, S, t)
  PROVE  Bounding(B, T, u)
<1>1. ASSUME NEW b \in B, NEW k \in Kinds
      PROVE  Cardinality(UndoneAfter(T, k, b, u)) <= DailyCap[k]
  <2> DEFINE few  == UndoneAfter(T, k, b, u)
             many == UndoneAfter(S, k, b, t)
  <2>1. few \subseteq many
    BY WindowsAssumption DEF UndoneAfter, Booked, Row
  <2>2. IsFiniteSet(many)
    <3>1. many \subseteq S
      BY DEF UndoneAfter, Booked
    <3> QED BY <3>1, FS_Subset
  <2>3. Cardinality(many) <= DailyCap[k] /\ DailyCap[k] \in Nat
    BY <1>1, LimitsAssumption DEF Bounding
  <2> HIDE DEF few, many
  <2>4. Cardinality(few) <= Cardinality(many) /\ Cardinality(few) \in Nat /\ Cardinality(many) \in Nat
    BY <2>1, <2>2, FS_Subset, FS_CardinalityType
  <2>5. Cardinality(few) <= DailyCap[k]
    BY <2>3, <2>4
  <2> QED BY <2>5 DEF few
<1>2. ASSUME NEW b \in B
      PROVE  b <= u /\ \A a \in B : a = b
  BY <1>2 DEF Bounding
<1> QED BY <1>1, <1>2 DEF Bounding

\* A breaker that opens now has nothing after it.
LEMMA BoundingNow ==
  ASSUME NEW S \in SUBSET Row, NEW t \in Nat, \A r \in S : r.at <= t
  PROVE  Bounding({t}, S, t) /\ Bounding({}, S, t)
<1>1. ASSUME NEW k \in Kinds
      PROVE  Cardinality(UndoneAfter(S, k, t, t)) <= DailyCap[k]
  <2>1. UndoneAfter(S, k, t, t) = {}
    BY DEF UndoneAfter, Booked, Row
  <2>2. 0 <= DailyCap[k]
    BY LimitsAssumption
  <2> QED BY <2>1, <2>2, FS_EmptySet
<1> QED BY <1>1 DEF Bounding

\* claim_write lets an undo through behind a breaker only below a day's cap,
\* counted from the breaker on, or from a day ago if that is later.
LEMMA UndoClaimed ==
  ASSUME UndoInv, NEW p \in Procs, NEW k \in Kinds, NEW c \in BOOLEAN, ClaimWrite(p, k, c)
  PROVE  Bounding(data'.breaker, booked', now)
<1> DEFINE view == EnforcementView
           row  == NewRow(k, c)
<1>t. TypeOK /\ NotAhead /\ HistoryKept /\ Finite
  BY DEF UndoInv, HistoryInv
<1>n. now \in Nat /\ DAY \in Nat /\ WEEK \in Nat /\ DAY < WEEK
      /\ booked \subseteq Row /\ IsFiniteSet(booked)
  BY <1>t, WindowsAssumption DEF TypeOK, Finite
<1>r. Read \in Dict /\ KeptBy(Read) /\ IsFiniteSet(Read.rows)
  BY <1>t, ReadTyped, ReadKept, FS_EmptySet DEF Read, Finite, EmptyDict
<1>1. view \in Dict /\ KeptBy(view) /\ IsFiniteSet(view.rows) /\ view.breaker = Read.breaker
  <2>1. view.rows \subseteq Read.rows /\ view.breaker = Read.breaker
    BY <1>r DEF EnforcementView, Pruned, Dict
  <2> QED BY <1>r, <1>t, <2>1, PrunedTyped, PrunedKept, FS_Subset DEF EnforcementView, TypeOK
<1>2. /\ data'.breaker = view.breaker /\ booked' = booked \cup {row}
      /\ view.lost = {} /\ (c => CleanupAllowed(view, k, now))
  BY <1>1 DEF ClaimWrite, ClaimAllowed, Put, Dict
<1>3. row.kind = k /\ row.cleanup = c /\ row.at = now
  BY DEF NewRow
<1>4. Bounding(view.breaker, booked, now)
  BY <1>1 DEF UndoInv, Read, EmptyDict, Bounding
<1>5. view.breaker \subseteq Nat
  BY <1>1 DEF Dict
<1> HIDE DEF view, row
<1>6. ASSUME NEW b \in view.breaker, NEW h \in Kinds
      PROVE  Cardinality(UndoneAfter(booked', h, b, now)) <= DailyCap[h]
  <2> DEFINE S == UndoneAfter(booked, h, b, now)
             T == UndoneAfter(booked', h, b, now)
  <2>1. Cardinality(S) <= DailyCap[h] /\ DailyCap[h] \in Nat
    BY <1>4, <1>6, LimitsAssumption DEF Bounding
  <2>2. CASE h # k \/ ~c
    <3>1. T = S
      BY <1>2, <1>3, <2>2 DEF UndoneAfter, Booked
    <3> QED BY <2>1, <3>1
  <2>3. CASE h = k /\ c
    <3> DEFINE cut == CleanupCutoff(view, now)
               R   == Booked(view.rows, k, TRUE, cut)
    <3>1. /\ b \in Nat /\ b <= now /\ view.breaker = {b}
      BY <1>4, <1>5, <1>6 DEF Bounding
    <3>2. cut = IF now - DAY < b THEN b ELSE now - DAY
      <4>1. (\E a \in view.breaker : now - DAY < a /\ a <= now) <=> now - DAY < b
        BY <3>1
      <4>2. (CHOOSE a \in view.breaker : TRUE) = b
        BY <3>1
      <4> QED BY <4>1, <4>2 DEF CleanupCutoff
    <3>3. S \subseteq R
      <4>1. ASSUME NEW r \in S
            PROVE  r \in R
        <5>1. r \in booked /\ r.at \in Nat /\ r.kind = k /\ r.cleanup = TRUE /\ r.at >= now - DAY /\ r.at > b
          BY <1>n, <2>3, <4>1 DEF UndoneAfter, Booked, Row
        <5>w. r.at > now - WEEK
          BY <1>n, <5>1
        <5>2. r \in view.rows
          <6>1. r \in view.rows \/ \E m \in view.lost : r.at <= m
            BY <1>1, <5>1, <5>w DEF KeptBy
          <6> QED BY <1>2, <6>1
        <5>3. r.at >= cut
          BY <1>n, <3>1, <3>2, <5>1
        <5> QED BY <5>1, <5>2, <5>3 DEF Booked
      <4> QED BY <4>1
    <3>4. Cardinality(R) < DailyCap[k]
      <4>1. view.breaker # {}
        BY <1>6
      <4>2. CleanupCeiling(k, view.breaker # {}) = DailyCap[k]
        BY <4>1 DEF CleanupCeiling
      <4>3. Count(view, k, TRUE, CleanupCutoff(view, now)) < CleanupCeiling(k, view.breaker # {})
        BY <1>2, <2>3 DEF CleanupAllowed
      <4>4. Count(view, k, TRUE, CleanupCutoff(view, now)) = Cardinality(R)
        BY DEF Count
      <4> QED BY <4>2, <4>3, <4>4
    <3>5. IsFiniteSet(R) /\ IsFiniteSet(S)
      <4>1. R \subseteq view.rows
        BY DEF Booked
      <4> QED BY <1>1, <3>3, <4>1, FS_Subset
    <3>6. T \in {S, S \cup {row}}
      BY <1>2 DEF UndoneAfter, Booked
    <3> HIDE DEF cut, R, S, T
    <3>7. /\ Cardinality(S) <= Cardinality(R) /\ Cardinality(S) \in Nat /\ Cardinality(R) \in Nat
          /\ Cardinality(S \cup {row}) \in {Cardinality(S), Cardinality(S) + 1}
      BY <3>3, <3>5, FS_Subset, FS_CardinalityType, FS_AddElement
    <3>8. Cardinality(T) <= DailyCap[h]
      BY <2>1, <2>3, <3>4, <3>6, <3>7
    <3> QED BY <3>8 DEF T
  <2> QED BY <2>2, <2>3
<1> QED BY <1>2, <1>4, <1>6 DEF Bounding

\* Every action keeps it: a breaker that comes back in a sleeper's dict bounds
\* what its own stamp bounded, as nobody has claimed meanwhile.
LEMMA UndoStep == UndoInv /\ [Next]_vars => UndoInv'
<1> SUFFICES ASSUME UndoInv, [Next]_vars PROVE UndoInv'
  OBVIOUS
<1>t. TypeOK /\ NotAhead /\ Finite /\ Finite' /\ HistoryInv'
  BY HistoryStep, FiniteStep DEF UndoInv, HistoryInv
<1>n. /\ now \in Nat /\ booked \in SUBSET Row /\ IsFiniteSet(booked) /\ data \in Dict
      /\ \A s \in sleeping : s.view \in Dict
  BY <1>t DEF TypeOK, Finite
<1>r. Read \in Dict /\ Read.breaker \in {data.breaker, {}}
  BY <1>t, ReadTyped DEF Read, EmptyDict
<1>b. \A B \in {data.breaker, {}, {now}} \cup {s.view.breaker : s \in sleeping} :
        B \in SUBSET Nat /\ Bounding(B, booked, now)
  BY <1>n, <1>t, BoundingNow DEF UndoInv, NotAhead, Dict
\* A step that books nothing and has its breaker from what there was, or now.
<1>f. ASSUME booked' \subseteq booked, now' \in {now, now + 1},
             data'.breaker \in {data.breaker, {}, {now}} \cup {s.view.breaker : s \in sleeping},
             \A u \in sleeping' : u.view.breaker
                \in {data.breaker, {}} \cup {s.view.breaker : s \in sleeping}
      PROVE  UndoInv'
  <2>1. now' \in Nat /\ now <= now' /\ booked' \in SUBSET booked
    BY <1>f, <1>n
  <2>2. \A B \in {data.breaker, {}, {now}} \cup {s.view.breaker : s \in sleeping} :
          Bounding(B, booked', now')
    BY <1>b, <1>n, <2>1, BoundingKept
  <2>3. Bounding(data'.breaker, booked', now')
    BY <1>f, <2>2
  <2>4. \A u \in sleeping' : Bounding(u.view.breaker, booked', now')
    BY <1>f, <2>2
  <2> QED BY <1>t, <2>3, <2>4 DEF UndoInv
<1>1. ASSUME NEW p \in Procs, NEW k \in Kinds, NEW c \in BOOLEAN, ClaimWrite(p, k, c)
      PROVE UndoInv'
  <2>1. sleeping' = {} /\ now' = now
    BY <1>1 DEF ClaimWrite, LockFree
  <2>2. Bounding(data'.breaker, booked', now')
    BY <1>1, <2>1, UndoClaimed
  <2> QED BY <1>t, <2>1, <2>2 DEF UndoInv
<1>2. ASSUME NEW p \in Procs, CommitClaim(p) \/ Kill(p) PROVE UndoInv'
  BY <1>2, <1>f DEF CommitClaim, Kill, file, ghost
<1>3. ASSUME NEW p \in Procs, ReleaseClaim(p) PROVE UndoInv'
  <2>1. data' = data \/ data'.breaker = Read.breaker
    BY <1>3, <1>r DEF ReleaseClaim, Put, file, Dict
  <2> QED BY <1>3, <2>1, <1>r, <1>f DEF ReleaseClaim
<1>p. \A d \in Dict : Pruned(d, now).breaker = d.breaker /\ Slotted(d).breaker = d.breaker
  BY DEF Slotted, Pruned, Dict
<1>4. ASSUME NEW p \in Procs, NEW i \in Intervals, TakeSlot(p, i) PROVE UndoInv'
  <2>1. data'.breaker = Read.breaker
    BY <1>4, <1>r, <1>p DEF TakeSlot, Put
  <2> QED BY <1>4, <2>1, <1>r, <1>f DEF TakeSlot, ghost
<1>5. ASSUME NEW p \in Procs, NEW i \in Intervals, StartSleep(p, i) PROVE UndoInv'
  BY <1>5, <1>r, <1>f DEF StartSleep, file, ghost
<1>6. ASSUME NEW p \in Procs, WakeWithSlot(p) PROVE UndoInv'
  <2>1. \E s \in sleeping : data'.breaker = s.view.breaker
    BY <1>6, <1>n, <1>p DEF WakeWithSlot, Put
  <2> QED BY <1>6, <2>1, <1>f DEF WakeWithSlot, ghost
<1>7. ASSUME NEW retry \in RetryAfters, RecordThrottle(retry) PROVE UndoInv'
  <2>1. PICK h : data' = Pruned([Read EXCEPT !.throttle = {h}], now)
    BY <1>7 DEF RecordThrottle, Put
  <2>2. data'.breaker = Read.breaker
    BY <2>1, <1>r DEF Pruned, Dict
  <2> QED BY <1>7, <2>2, <1>r, <1>f DEF RecordThrottle
<1>8. CASE TripBreaker \/ ClearBreaker \/ ClearSessionFailures \/ DiskFault
  <2>1. data' = data \/ data'.breaker \in {Read.breaker, {}, {now}}
    BY <1>8, <1>r DEF TripBreaker, ClearBreaker, ClearSessionFailures, DiskFault, ReadsFail,
       ReadsRecover, Put, file, Dict
  <2>2. UNCHANGED <<now, sleeping, booked>>
    BY <1>8 DEF TripBreaker, ClearBreaker, ClearSessionFailures, DiskFault, ghost
  <2> QED BY <2>1, <2>2, <1>r, <1>f
<1>9. CASE CountSessionFailure
  <2>1. data'.breaker \in {Read.breaker, {now}}
    BY <1>9, <1>r DEF CountSessionFailure, Put, Dict
  <2> QED BY <1>9, <2>1, <1>r, <1>f DEF CountSessionFailure
<1>10. CASE MoveAside
  <2>1. data'.breaker = {}
    BY <1>10 DEF MoveAside, Put, EmptyDict
  <2> QED BY <1>10, <2>1, <1>f DEF MoveAside
<1>11. CASE Tick
  <2>1. \A u \in sleeping' : \E s \in sleeping : u.view = s.view
    BY <1>11, <1>t DEF Tick, TypeOK
  <2> QED BY <1>11, <2>1, <1>f DEF Tick, file, ghost
<1>12. CASE UNCHANGED vars
  BY <1>12, <1>f DEF vars, file, ghost
<1> QED
  BY <1>1, <1>2, <1>3, <1>4, <1>5, <1>6, <1>7, <1>8, <1>9, <1>10, <1>11, <1>12
  DEF Next, Step, Shared

\* What is undone after the breaker opened, in any 24h, is at most one day's
\* worth of creates (cleanup_ceiling, _cleanup_cutoff), although the breaker may
\* be lost with its file and come back with it, or out of a sleeper's memory.
THEOREM UndosStayBounded == Spec => []BlockedUndosBounded
<1>1. Init => UndoInv
  <2> SUFFICES ASSUME Init PROVE UndoInv
    OBVIOUS
  <2>1. HistoryInv
    BY HistoryInit
  <2>2. Finite
    BY FS_EmptySet DEF Init, Finite, EmptyDict
  <2>3. data.breaker = {} /\ sleeping = {}
    BY DEF Init, EmptyDict
  <2> QED BY <2>1, <2>2, <2>3 DEF UndoInv, Bounding
<1>2. UndoInv => BlockedUndosBounded
  BY DEF UndoInv, Bounding, UndoneAfter, BlockedUndosBounded
<1> QED BY <1>1, <1>2, UndoStep, PTL DEF Spec
=============================================================================
