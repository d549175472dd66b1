--------------------------- MODULE ThrottleProofs ---------------------------
(***************************************************************************)
(* What holds of the pacing and of the cooldowns of the ledger for every   *)
(* value of its constants: slots are spaced, cooldowns are not shortened,  *)
(* and no write is booked in one.                                          *)
(*                                                                         *)
(* All three must survive wait_for_slot, which sleeps with the lock and    *)
(* then writes back the dict it read before: SlotInv and CoolInv say of    *)
(* that dict what they say of the file, and that nothing but the           *)
(* operator's mv has put another dict in its place meanwhile.              *)
(***************************************************************************)
EXTENDS LedgerProofs

-----------------------------------------------------------------------------
(* Slots. *)

\* A dict has one stamp at most, not ahead of the clock.
OneStamp(d) == \A t \in d.slot : t <= now /\ \A u \in d.slot : t = u

\* When the sleeper wakes, an interval has passed since the stamp it read.
Due(s) == \A t \in s.view.slot : \E i \in Intervals : Gap(s.view, i) <= now + s.left - t

\* The file is what the sleeper read, unless the operator moved it aside.
Behind == \A s \in sleeping : data = s.view \/ data = EmptyDict

\* The inductive invariant of SlotsSpaced.
SlotInv ==
  /\ TypeOK /\ Behind /\ OneStamp(data)
  /\ \A s \in sleeping : OneStamp(s.view) /\ Due(s)

Spaced ==
  readable => \A a \in data.slot, b \in data'.slot : a # b =>
    \E i \in Intervals : Gap(data, i) <= b - a

\* A cooldown that ends shortens the interval.
LEMMA GapShrinks ==
  ASSUME TypeOK, now' \in {now, now + 1}, NEW d \in Dict, NEW i \in Intervals
  PROVE  Gap(d, i)' <= Gap(d, i) /\ Gap(d, i) \in Nat /\ Gap(d, i)' \in Nat
<1>1. now \in Nat /\ i \in Nat /\ THROTTLE_PACE_MULTIPLIER \in Nat /\ 1 <= THROTTLE_PACE_MULTIPLIER
  BY CallersAssumption, CooldownAssumption DEF TypeOK
<1>2. ActiveThrottle(d, now') # {} => ActiveThrottle(d, now) # {}
  <2>1. ASSUME NEW h \in ActiveThrottle(d, now') PROVE h \in ActiveThrottle(d, now)
    BY <1>1, <2>1, CooldownAssumption DEF ActiveThrottle, Min2, Dict, Throttle
  <2> QED BY <2>1
<1>3. i <= i * THROTTLE_PACE_MULTIPLIER /\ i * THROTTLE_PACE_MULTIPLIER \in Nat
  <2>1. \A a, b \in Nat : 1 <= b => a <= a * b /\ a * b \in Nat
    OBVIOUS
  <2> QED BY <1>1, <2>1
<1> QED BY <1>1, <1>2, <1>3 DEF Gap

LEMMA SlotStep == SlotInv /\ [Next]_vars => SlotInv' /\ (Spaced \/ UNCHANGED vars)
<1> SUFFICES ASSUME SlotInv, [Next]_vars PROVE SlotInv' /\ (Spaced \/ UNCHANGED vars)
  OBVIOUS
<1>t. TypeOK /\ TypeOK' /\ Behind /\ OneStamp(data) /\ (\A s \in sleeping : OneStamp(s.view) /\ Due(s))
  BY TypeStep DEF SlotInv
<1>n. /\ now \in Nat /\ data \in Dict /\ data.slot \subseteq Nat
      /\ \A s \in sleeping : s.view \in Dict /\ s.left \in Nat
  BY <1>t DEF TypeOK, Dict
<1>r. Read \in Dict /\ Read.slot \subseteq data.slot /\ (readable => Read = data)
  BY <1>t, ReadTyped DEF Read, EmptyDict
<1>p. \A d \in Dict : Pruned(d, now).slot = d.slot /\ Slotted(d).slot = {now}
  <2>1. \A d \in Dict : Pruned(d, now).slot = d.slot
    BY DEF Pruned, Dict
  <2>2. \A d \in Dict : [d EXCEPT !.slot = {now}] \in Dict /\ [d EXCEPT !.slot = {now}].slot = {now}
    BY <1>n DEF Dict
  <2> QED BY <2>1, <2>2 DEF Slotted
\* A step that stamps nothing and finds nobody asleep.
<1>f. ASSUME sleeping' = {}, now' = now, data'.slot \subseteq data.slot
      PROVE  SlotInv' /\ Spaced
  <2>1. OneStamp(data)' /\ Spaced
    BY <1>f, <1>t DEF OneStamp, Spaced
  <2> QED BY <1>f, <1>t, <2>1 DEF SlotInv, Behind
\* A step that leaves the file to the sleepers there are.
<1>g. ASSUME sleeping' \subseteq sleeping, now' = now, data' \in {data, EmptyDict}
      PROVE  SlotInv' /\ Spaced
  <2>1. OneStamp(data)' /\ Spaced
    BY <1>g, <1>t DEF OneStamp, Spaced, EmptyDict
  <2>2. \A s \in sleeping' : OneStamp(s.view)' /\ Due(s)'
    BY <1>g, <1>t DEF OneStamp, Due, Gap
  <2>3. Behind'
    BY <1>g, <1>t DEF Behind
  <2> QED BY <1>t, <2>1, <2>2, <2>3 DEF SlotInv
<1>1. ASSUME NEW p \in Procs, NEW k \in Kinds, NEW c \in BOOLEAN, ClaimWrite(p, k, c)
      PROVE SlotInv' /\ Spaced
  <2>1. EnforcementView \in Dict /\ EnforcementView.slot = Read.slot
    BY <1>r, <1>p, <1>n, PrunedTyped DEF EnforcementView
  <2>2. data'.slot = Read.slot /\ sleeping' = {} /\ now' = now
    BY <1>1, <2>1 DEF ClaimWrite, LockFree, Put, Dict
  <2> QED BY <1>f, <1>r, <2>2
<1>2. ASSUME NEW p \in Procs, CommitClaim(p) \/ Kill(p) PROVE SlotInv' /\ Spaced
  BY <1>2, <1>g DEF CommitClaim, Kill, file
<1>3. ASSUME NEW p \in Procs, ReleaseClaim(p) PROVE SlotInv' /\ Spaced
  <2>1. sleeping' = {} /\ now' = now /\ (data' = data \/ \E r : data' = [Read EXCEPT !.rows = @ \ {r}])
    BY <1>3 DEF ReleaseClaim, LockFree, Put, file
  <2>2. data' = data \/ data'.slot = Read.slot
    BY <2>1, <1>r DEF Dict
  <2> QED BY <1>f, <1>r, <2>1, <2>2
<1>4. ASSUME NEW p \in Procs, NEW i \in Intervals, TakeSlot(p, i) PROVE SlotInv' /\ Spaced
  <2>1. data'.slot = {now} /\ sleeping' = {} /\ now' = now /\ SleepTimes(Read, i) = {}
    BY <1>4, <1>r, <1>p DEF TakeSlot, LockFree, Put
  <2>2. ASSUME readable, NEW a \in data.slot PROVE Gap(data, i) <= now - a
    <3>1. Gap(data, i) \in Nat
      BY <1>n, CallersAssumption, CooldownAssumption DEF Gap
    <3>2. a \in Nat /\ a <= now
      BY <1>n, <1>t, <2>2 DEF OneStamp
    <3>3. ~(Min2(Gap(data, i) - (now - a), Gap(data, i)) > 0)
      BY <2>1, <2>2, <1>r DEF SleepTimes
    <3> QED BY <3>1, <3>2, <3>3, <1>n DEF Min2
  <2>3. Spaced
    BY <2>1, <2>2 DEF Spaced
  <2>4. OneStamp(data)'
    BY <2>1, <1>n DEF OneStamp
  <2> QED BY <1>t, <2>1, <2>3, <2>4 DEF SlotInv, Behind
<1>5. ASSUME NEW p \in Procs, NEW i \in Intervals, StartSleep(p, i) PROVE SlotInv' /\ Spaced
  <2>1. PICK w \in SleepTimes(Read, i) : sleeping' = {[proc |-> p, left |-> w, view |-> Read]}
    BY <1>5 DEF StartSleep
  <2>2. PICK t \in Read.slot : w = Min2(Gap(Read, i) - (now - t), Gap(Read, i))
    BY <2>1 DEF SleepTimes
  <2>3. readable /\ Read = data
    BY <2>2, <1>r DEF Read, EmptyDict
  <2>4. data' = data /\ now' = now
    BY <1>5 DEF StartSleep, file
  <2>5. Gap(data, i) \in Nat /\ t \in Nat /\ t <= now /\ \A u \in data.slot : u = t
    BY <2>2, <2>3, <1>n, <1>t, CallersAssumption, CooldownAssumption DEF Gap, OneStamp
  <2>6. Gap(data, i) <= now + w - t
    BY <2>2, <2>3, <2>5, <1>n DEF Min2
  <2>7. OneStamp(data)' /\ Spaced
    BY <2>4, <1>t DEF OneStamp, Spaced
  <2>8. ASSUME NEW u \in sleeping' PROVE OneStamp(u.view)' /\ Due(u)' /\ data' = u.view
    <3>1. u.view = data /\ u.left = w
      BY <2>1, <2>3, <2>8
    <3>2. \A a \in u.view.slot : Gap(u.view, i)' <= now' + u.left - a
      BY <3>1, <2>4, <2>5, <2>6 DEF Gap
    <3>3. Due(u)'
      BY <3>2 DEF Due
    <3> QED BY <3>1, <3>3, <2>4, <1>t DEF OneStamp
  <2> QED BY <1>t, <2>7, <2>8 DEF SlotInv, Behind
<1>6. ASSUME NEW p \in Procs, WakeWithSlot(p) PROVE SlotInv' /\ Spaced
  <2>1. PICK s \in sleeping : s.left = 0 /\ data' = Slotted(s.view)
    BY <1>6 DEF WakeWithSlot, Put
  <2>2. data'.slot = {now} /\ sleeping' = {} /\ now' = now
    BY <1>6, <2>1, <1>p, <1>n DEF WakeWithSlot
  <2>3. Spaced
    <3>1. CASE data = EmptyDict
      BY <3>1 DEF Spaced, EmptyDict
    <3>2. CASE data = s.view
      <4>1. \A a \in data.slot : \E i \in Intervals : Gap(data, i) <= now + 0 - a
        BY <2>1, <3>2, <1>t DEF Due
      <4>2. \A a \in data.slot : now + 0 - a = now - a
        BY <1>n
      <4> QED BY <2>2, <4>1, <4>2 DEF Spaced
    <3> QED BY <3>1, <3>2, <1>t DEF Behind
  <2>4. OneStamp(data)'
    BY <2>2, <1>n DEF OneStamp
  <2> QED BY <1>t, <2>2, <2>3, <2>4 DEF SlotInv, Behind
<1>7. ASSUME NEW retry \in RetryAfters, RecordThrottle(retry) PROVE SlotInv' /\ Spaced
  <2>1. PICK h : data' = Pruned([Read EXCEPT !.throttle = {h}], now)
    BY <1>7 DEF RecordThrottle, Put
  <2>2. data'.slot = Read.slot
    BY <2>1, <1>r DEF Pruned, Dict
  <2>3. sleeping' = {} /\ now' = now
    BY <1>7 DEF RecordThrottle, LockFree
  <2> QED BY <1>f, <1>r, <2>2, <2>3
<1>8. CASE TripBreaker \/ ClearBreaker \/ ClearSessionFailures
  <2>1. sleeping' = {} /\ now' = now
    BY <1>8 DEF TripBreaker, ClearBreaker, ClearSessionFailures, LockFree
  <2>2. data' = data \/ data'.slot = Read.slot
    BY <1>8, <1>r DEF TripBreaker, ClearBreaker, ClearSessionFailures, Put, file, Dict
  <2> QED BY <1>f, <1>r, <2>1, <2>2
<1>9. CASE CountSessionFailure
  <2>1. sleeping' = {} /\ now' = now /\ data'.slot = Read.slot
    BY <1>9, <1>r DEF CountSessionFailure, LockFree, Put, Dict
  <2> QED BY <1>f, <1>r, <2>1
<1>10. CASE DiskFault \/ MoveAside
  BY <1>10, <1>g DEF DiskFault, ReadsFail, ReadsRecover, MoveAside, Put
<1>11. CASE Tick
  <2>1. data' = data /\ now' = now + 1
    BY <1>11 DEF Tick, file
  <2>2. ASSUME NEW u \in sleeping'
        PROVE  OneStamp(u.view)' /\ Due(u)' /\ (data' = u.view \/ data' = EmptyDict)
    <3>1. PICK s \in sleeping : u = [s EXCEPT !.left = IF @ = 0 THEN 0 ELSE @ - 1]
      BY <1>11, <2>2 DEF Tick
    <3>2. /\ u.view = s.view /\ u.left \in Nat /\ s.left \in Nat /\ s.left <= u.left + 1
          /\ s.view \in Dict /\ s.view.slot \subseteq Nat
      BY <3>1, <1>t DEF TypeOK, Dict
    <3>3. OneStamp(s.view)'
      BY <2>1, <1>t, <1>n, <3>2 DEF OneStamp
    <3>4. ASSUME NEW t \in u.view.slot
          PROVE  \E i \in Intervals : Gap(u.view, i)' <= now' + u.left - t
      <4>1. PICK i \in Intervals : Gap(s.view, i) <= now + s.left - t
        BY <3>2, <3>4, <1>t DEF Due
      <4>2. Gap(s.view, i)' <= Gap(s.view, i) /\ Gap(s.view, i) \in Nat /\ Gap(s.view, i)' \in Nat
        BY <2>1, <3>2, <1>t, GapShrinks
      <4>3. Gap(s.view, i)' <= now' + u.left - t
        BY <2>1, <3>2, <3>4, <4>1, <4>2, <1>n
      <4>4. Gap(u.view, i)' = Gap(s.view, i)'
        BY <3>2, <2>2 DEF Gap
      <4> QED BY <4>3, <4>4
    <3>5. Due(u)'
      BY <3>4 DEF Due
    <3> QED BY <3>2, <3>3, <3>5, <2>1, <1>t DEF Behind, OneStamp
  <2>3. OneStamp(data)' /\ Spaced
    BY <2>1, <1>t, <1>n DEF OneStamp, Spaced
  <2> QED BY <1>t, <2>2, <2>3 DEF SlotInv, Behind
<1>12. CASE UNCHANGED vars
  BY <1>12, <1>g DEF vars, file
<1> QED
  BY <1>1, <1>2, <1>3, <1>4, <1>5, <1>6, <1>7, <1>8, <1>9, <1>10, <1>11, <1>12
  DEF Next, Step, Shared

\* Two consecutive stamps on a readable file are an interval apart, and the
\* longer one in a cooldown, however many processes pace themselves at once
\* and whoever of them is killed (wait_for_slot).
THEOREM SlotsAreSpaced == Spec => SlotsSpaced
<1>1. Init => SlotInv
  <2>1. Init => TypeOK
    BY DEF Init, TypeOK, EmptyDict, Dict
  <2> QED BY <2>1 DEF Init, SlotInv, OneStamp, Behind, EmptyDict
<1>2. SlotInv /\ [Next]_vars =>
        [readable => \A a \in data.slot, b \in data'.slot : a # b =>
           \E i \in Intervals : Gap(data, i) <= b - a]_vars
  BY SlotStep DEF Spaced
<1>3. SlotInv /\ [Next]_vars => SlotInv'
  BY SlotStep
<1> QED BY <1>1, <1>2, <1>3, PTL DEF Spec, SlotsSpaced

-----------------------------------------------------------------------------
(* Cooldowns, when no caller passes a retry_after, as main does not. *)

\* The powers of record_throttle, and that they grow.
LEMMA Powers ==
  ASSUME NEW n \in 0 .. 15 PROVE 2^n \in Nat /\ 2^(n + 1) = 2 * 2^n
<1> DEFINE doubles(k) == 2^k \in Nat /\ 2^(k + 1) = 2 * 2^k
<1>1. doubles(0) /\ doubles(1) /\ doubles(2) /\ doubles(3) /\ doubles(4) /\ doubles(5)
  OBVIOUS
<1>2. doubles(6) /\ doubles(7) /\ doubles(8) /\ doubles(9) /\ doubles(10)
  OBVIOUS
<1>3. doubles(11) /\ doubles(12) /\ doubles(13) /\ doubles(14) /\ doubles(15)
  OBVIOUS
<1> HIDE DEF doubles
<1>4. \/ n = 0 \/ n = 1 \/ n = 2 \/ n = 3 \/ n = 4 \/ n = 5 \/ n = 6 \/ n = 7 \/ n = 8
      \/ n = 9 \/ n = 10 \/ n = 11 \/ n = 12 \/ n = 13 \/ n = 14 \/ n = 15
  OBVIOUS
<1>5. doubles(n)
  BY <1>1, <1>2, <1>3, <1>4
<1> QED BY <1>5 DEF doubles

\* One throttle more in a row never earns a shorter cooldown.
LEMMA CooldownGrows ==
  ASSUME NEW c \in Nat, 1 <= c PROVE Cooldown(c, 0) <= Cooldown(c + 1, 0)
<1> DEFINE earned(n) == Max2(THROTTLE_COOLDOWN * 2^Min2(n - 1, 16), 0)
           short == earned(c)
           long  == earned(c + 1)
<1>1. /\ Cooldown(c, 0) = IF short \in 0 .. THROTTLE_MAX_COOLDOWN THEN short ELSE THROTTLE_MAX_COOLDOWN
      /\ Cooldown(c + 1, 0) = IF long \in 0 .. THROTTLE_MAX_COOLDOWN THEN long ELSE THROTTLE_MAX_COOLDOWN
  BY DEF Cooldown
<1>2. CASE c >= 17
  <2>1. Min2(c - 1, 16) = 16 /\ Min2((c + 1) - 1, 16) = 16
    BY <1>2 DEF Min2
  <2>2. short = long
    BY <2>1
  <2> HIDE DEF short, long
  <2> QED BY <1>1, <2>2, CooldownAssumption
<1>3. CASE c <= 16
  <2> DEFINE low == 2^(c - 1)
  <2>1. c - 1 \in 0 .. 15 /\ Min2(c - 1, 16) = c - 1 /\ Min2((c + 1) - 1, 16) = (c - 1) + 1
    BY <1>3 DEF Min2
  <2>2. low \in Nat /\ 2^((c - 1) + 1) = 2 * low
    BY <2>1, Powers
  <2>3. short = Max2(THROTTLE_COOLDOWN * low, 0) /\ long = Max2(THROTTLE_COOLDOWN * (2 * low), 0)
    BY <2>1, <2>2
  <2> HIDE DEF short, long, low
  <2>4. \A a, b \in Nat : a * b \in Nat /\ a * (2 * b) = 2 * (a * b)
    OBVIOUS
  <2>5. /\ THROTTLE_COOLDOWN * low \in Nat
        /\ THROTTLE_COOLDOWN * (2 * low) = 2 * (THROTTLE_COOLDOWN * low)
    BY <2>2, <2>4, CooldownAssumption
  <2> DEFINE once == THROTTLE_COOLDOWN * low
  <2>6. short = once /\ long = 2 * once /\ once \in Nat
    BY <2>3, <2>5 DEF Max2
  <2> HIDE DEF once
  <2> QED BY <1>1, <2>6, CooldownAssumption
<1> QED BY <1>2, <1>3

\* A dict remembers one throttle at most, and when its cooldown ends.
OneThrottle(d) ==
  \A h \in d.throttle :
    /\ h.at <= now /\ 1 <= h.count /\ h.until = h.at + Cooldown(h.count, 0)
    /\ \A g \in d.throttle : h = g

\* The longest cooldown still running is on file, or the file says since when
\* it cannot be trusted.
CoolKeptBy(d) ==
  coolUntil > now =>
    \/ \E h \in d.throttle : h.until = coolUntil
    \/ \E m \in d.lost : coolUntil <= m + WEEK

Damped(d) == OneThrottle(d) /\ CoolKeptBy(d)

\* The inductive invariant of CooldownNeverShortened and of CooldownHeard.
CoolInv ==
  /\ TypeOK /\ Behind
  /\ coolUntil <= now + THROTTLE_MAX_COOLDOWN
  /\ Damped(data) /\ \A s \in sleeping : Damped(s.view)

NotShortened ==
  readable => \A h \in data.throttle, g \in data'.throttle : h.until <= g.until

CoolNumbers ==
  /\ now \in Nat /\ coolUntil \in Nat /\ WEEK \in Nat
  /\ THROTTLE_MAX_COOLDOWN \in Nat /\ THROTTLE_MEMORY \in Nat
  /\ THROTTLE_MAX_COOLDOWN < THROTTLE_MEMORY /\ THROTTLE_MEMORY <= WEEK

LEMMA CoolNumbersHold == TypeOK => CoolNumbers
BY CooldownAssumption, WindowsAssumption DEF TypeOK, CoolNumbers

\* An absent file is damped when nobody is cooling, and so is a lost one.
LEMMA ReadDamped == CoolInv => Read \in Dict /\ Damped(Read)
<1> SUFFICES ASSUME CoolInv PROVE Read \in Dict /\ Damped(Read)
  OBVIOUS
<1>1. CASE readable
  BY <1>1, ReadTyped DEF CoolInv, Read
<1>2. CASE ~readable
  <2>1. Read.throttle = {} /\ Read.lost = {now}
    BY <1>2 DEF Read, EmptyDict
  <2>2. coolUntil <= now + WEEK
    BY CoolNumbersHold DEF CoolInv, CoolNumbers
  <2> QED BY <2>1, <2>2, ReadTyped DEF CoolInv, Damped, OneThrottle, CoolKeptBy
<1> QED BY <1>1, <1>2

\* Pruning drops no throttle that still damps.
LEMMA PrunedDamped ==
  ASSUME TypeOK, coolUntil <= now + THROTTLE_MAX_COOLDOWN, NEW d \in Dict, Damped(d)
  PROVE  Damped(Pruned(d, now))
<1>n. CoolNumbers
  BY CoolNumbersHold
<1>1. /\ Pruned(d, now).throttle = {h \in d.throttle : now - h.at < THROTTLE_MEMORY}
      /\ Pruned(d, now).lost = PrunedLost(d, now)
  BY DEF Pruned, Dict
<1>2. OneThrottle(Pruned(d, now))
  BY <1>1 DEF Damped, OneThrottle
<1>3. ASSUME coolUntil > now, NEW h \in d.throttle, h.until = coolUntil
      PROVE  h \in Pruned(d, now).throttle
  <2> DEFINE long == Cooldown(h.count, 0)
  <2>1. h.at \in Nat /\ h.until \in Nat /\ h.until = h.at + long
    BY DEF Damped, OneThrottle, Dict, Throttle
  <2>2. long \in 0 .. THROTTLE_MAX_COOLDOWN
    BY CooldownTyped
  <2> HIDE DEF long
  <2>3. now - h.at < THROTTLE_MEMORY
    BY <1>3, <1>n, <2>1, <2>2 DEF CoolNumbers
  <2> QED BY <1>1, <2>3
<1>4. ASSUME coolUntil > now, NEW m \in d.lost, coolUntil <= m + WEEK
      PROVE  \E n \in Pruned(d, now).lost : coolUntil <= n + WEEK
  <2>1. m \in Nat
    BY DEF Dict
  <2>2. now - m < WEEK
    BY <1>4, <1>n, <2>1 DEF CoolNumbers
  <2>3. (IF m > now THEN now ELSE m) \in PrunedLost(d, now)
    BY <2>2 DEF PrunedLost
  <2>4. coolUntil <= (IF m > now THEN now ELSE m) + WEEK
    BY <1>4, <1>n, <2>1 DEF CoolNumbers
  <2> QED BY <1>1, <2>3, <2>4
<1> QED BY <1>2, <1>3, <1>4 DEF Damped, CoolKeptBy

\* Only the throttle and the mark matter to it.
LEMMA SameDamped ==
  ASSUME NEW d, NEW e, e.throttle = d.throttle, e.lost = d.lost, Damped(d)
  PROVE  Damped(e)
BY DEF Damped, OneThrottle, CoolKeptBy

\* A throttle recorded now ends no earlier than the one on file: it is one more
\* in a row, or the one on file has run out.
LEMMA RecordLengthens ==
  ASSUME TypeOK, NEW d \in Dict, OneThrottle(d), NEW h \in d.throttle
  PROVE  h.until <= now + Cooldown(ThrottleCount(d), 0)
<1>n. CoolNumbers
  BY CoolNumbersHold
<1>1. /\ h.at \in Nat /\ h.at <= now /\ h.count \in Nat /\ 1 <= h.count
      /\ h.until = h.at + Cooldown(h.count, 0)
      /\ \A g \in d.throttle : g = h
  BY DEF OneThrottle, Dict, Throttle
<1>2. Cooldown(h.count, 0) \in 0 .. THROTTLE_MAX_COOLDOWN
  BY CooldownTyped
<1>3. Cooldown(ThrottleCount(d), 0) \in 0 .. THROTTLE_MAX_COOLDOWN
  BY CooldownTyped
<1>4. CASE now - h.at < THROTTLE_MEMORY
  <2>1. Remembered(d) = {h}
    BY <1>1, <1>4, <1>n DEF Remembered, CoolNumbers
  <2>2. ThrottleCount(d) = h.count + 1
    BY <2>1, <1>1 DEF ThrottleCount
  <2>3. Cooldown(h.count, 0) <= Cooldown(ThrottleCount(d), 0)
    BY <2>2, <1>1, CooldownGrows
  <2> QED BY <2>3, <1>1, <1>2, <1>3, <1>n DEF CoolNumbers
<1>5. CASE ~(now - h.at < THROTTLE_MEMORY)
  BY <1>1, <1>2, <1>3, <1>5, <1>n DEF CoolNumbers
<1> QED BY <1>4, <1>5

\* The dict it writes.
LEMMA RecordDamped ==
  ASSUME CoolInv, RecordThrottle(0)
  PROVE  /\ Damped(data)' /\ NotShortened
         /\ coolUntil' <= now + THROTTLE_MAX_COOLDOWN
<1> DEFINE count == ThrottleCount(Read)
           cool  == Cooldown(count, 0)
           entry == [at |-> now, until |-> now + cool, count |-> count]
           base  == [Read EXCEPT !.throttle = {entry}]
<1>t. TypeOK /\ Read \in Dict /\ Damped(Read) /\ coolUntil <= now + THROTTLE_MAX_COOLDOWN
  BY ReadDamped DEF CoolInv
<1>n. CoolNumbers
  BY <1>t, CoolNumbersHold
<1>c. count \in Nat /\ 1 <= count
  <2>1. \A h \in Remembered(Read) : h.count \in Nat
    BY <1>t DEF Remembered, Dict, Throttle
  <2> QED BY <2>1 DEF ThrottleCount
<1>d. cool \in 0 .. THROTTLE_MAX_COOLDOWN
  BY CooldownTyped
<1>l. \A h \in Read.throttle : h.until <= now + cool
  BY <1>t, RecordLengthens DEF Damped
<1>1. /\ data' = Pruned(base, now) /\ coolUntil' = Max2(coolUntil, now + cool) /\ now' = now
  BY DEF RecordThrottle, Put
<1>2. base.throttle = {entry} /\ base.lost = Read.lost
  BY <1>t DEF Dict
<1>3. /\ Pruned(base, now).throttle = {h \in base.throttle : now - h.at < THROTTLE_MEMORY}
      /\ Pruned(base, now).lost = PrunedLost(base, now)
  BY <1>t DEF Pruned, Dict
<1>e. entry.at = now /\ entry.until = now + cool /\ entry.count = count
  OBVIOUS
<1> HIDE DEF base, cool, count, entry
<1>4. data'.throttle = {entry}
  BY <1>1, <1>2, <1>3, <1>e, <1>n DEF CoolNumbers
<1>5. OneThrottle(data)'
  <2>1. entry.at <= now' /\ 1 <= entry.count /\ entry.until = entry.at + Cooldown(entry.count, 0)
    BY <1>1, <1>c, <1>e, <1>n DEF CoolNumbers, cool
  <2> QED BY <1>4, <2>1 DEF OneThrottle
<1>6. coolUntil' = coolUntil \/ (coolUntil' = now + cool)
  BY <1>1 DEF Max2
<1>7. coolUntil' <= now + THROTTLE_MAX_COOLDOWN
  BY <1>6, <1>d, <1>t, <1>n DEF CoolNumbers
<1>8. CoolKeptBy(data)'
  <2>1. CASE coolUntil' = now + cool
    BY <2>1, <1>4, <1>e DEF CoolKeptBy
  <2>2. CASE coolUntil' = coolUntil /\ coolUntil > now /\ coolUntil # now + cool
    <3>1. coolUntil > now + cool
      BY <1>1, <2>2, <1>d, <1>n DEF Max2, CoolNumbers
    <3>2. ~\E h \in Read.throttle : h.until = coolUntil
      <4>1. SUFFICES ASSUME NEW h \in Read.throttle, h.until = coolUntil PROVE FALSE
        OBVIOUS
      <4>2. h.until <= now + cool
        BY <1>l
      <4> QED BY <3>1, <4>1, <4>2, <1>d, <1>n DEF CoolNumbers
    <3>3. PICK m \in Read.lost : coolUntil <= m + WEEK
      BY <2>2, <3>2, <1>t DEF Damped, CoolKeptBy
    <3>4. m \in Nat
      BY <1>t DEF Dict
    <3>5. (IF m > now THEN now ELSE m) \in data'.lost
      <4>1. now - m < WEEK
        BY <2>2, <3>3, <3>4, <1>n DEF CoolNumbers
      <4> QED BY <4>1, <1>1, <1>2, <1>3 DEF PrunedLost
    <3>6. coolUntil <= (IF m > now THEN now ELSE m) + WEEK
      BY <3>3, <3>4, <1>t, <1>n DEF CoolNumbers
    <3> QED BY <2>2, <3>5, <3>6 DEF CoolKeptBy
  <2>3. CASE coolUntil' = coolUntil /\ ~(coolUntil > now)
    BY <2>3, <1>1 DEF CoolKeptBy
  <2> QED BY <1>6, <2>1, <2>2, <2>3
<1>9. NotShortened
  <2> SUFFICES ASSUME readable, NEW h \in data.throttle PROVE h.until <= now + cool
    BY <1>4, <1>e DEF NotShortened
  <2> QED BY <1>l DEF Read
<1> QED BY <1>5, <1>7, <1>8, <1>9 DEF Damped

LEMMA CoolStep ==
  ASSUME RetryAfters \subseteq {0}, CoolInv, [Next]_vars
  PROVE  CoolInv' /\ (NotShortened \/ UNCHANGED vars)
<1>t. /\ TypeOK /\ TypeOK' /\ Behind /\ coolUntil <= now + THROTTLE_MAX_COOLDOWN
      /\ Damped(data) /\ \A s \in sleeping : Damped(s.view)
  BY TypeStep DEF CoolInv
<1>n. CoolNumbers /\ data \in Dict /\ \A s \in sleeping : s.view \in Dict
  BY <1>t, CoolNumbersHold DEF TypeOK
<1>r. Read \in Dict /\ Damped(Read) /\ (readable => Read = data)
  BY ReadDamped DEF CoolInv, Read
<1>p. ASSUME NEW d \in Dict, Damped(d)
      PROVE  Damped(Pruned(d, now)) /\ Damped(Slotted(d))
             /\ Pruned(d, now).throttle \subseteq d.throttle
             /\ Slotted(d).throttle \subseteq d.throttle
  <2>1. /\ [d EXCEPT !.slot = {now}] \in Dict
        /\ [d EXCEPT !.slot = {now}].throttle = d.throttle
        /\ [d EXCEPT !.slot = {now}].lost = d.lost
    BY <1>n, <1>p DEF Dict, CoolNumbers
  <2>2. Damped([d EXCEPT !.slot = {now}])
    BY <1>p, <2>1, SameDamped
  <2>3. Damped(Pruned(d, now)) /\ Damped(Pruned([d EXCEPT !.slot = {now}], now))
    BY <1>p, <1>t, <2>1, <2>2, PrunedDamped
  <2>4. \A e \in Dict : Pruned(e, now).throttle \subseteq e.throttle
    BY DEF Pruned, Dict
  <2> QED BY <1>p, <2>1, <2>3, <2>4 DEF Slotted
\* A step that cools nobody and finds nobody asleep.
<1>f. ASSUME sleeping' = {}, now' = now, coolUntil' = coolUntil, Damped(data'),
             readable => data'.throttle \subseteq data.throttle
      PROVE  CoolInv' /\ NotShortened
  <2>1. Damped(data)' /\ Behind' /\ coolUntil' <= now' + THROTTLE_MAX_COOLDOWN
    BY <1>f, <1>t DEF Damped, OneThrottle, CoolKeptBy, Behind
  <2>2. NotShortened
    BY <1>f, <1>t, <1>n DEF NotShortened, Damped, OneThrottle, Dict, Throttle
  <2> QED BY <1>f, <1>t, <2>1, <2>2 DEF CoolInv
\* A step that leaves the file to the sleepers there are.
<1>g. ASSUME sleeping' \subseteq sleeping, now' = now, data' = data, coolUntil' = coolUntil
      PROVE  CoolInv' /\ NotShortened
  <2>1. Damped(data)' /\ \A s \in sleeping' : Damped(s.view)'
    BY <1>g, <1>t DEF Damped, OneThrottle, CoolKeptBy
  <2>2. NotShortened
    BY <1>g, <1>t, <1>n DEF NotShortened, Damped, OneThrottle, Dict, Throttle
  <2>3. Behind' /\ coolUntil' <= now' + THROTTLE_MAX_COOLDOWN
    BY <1>g, <1>t DEF Behind
  <2> QED BY <1>t, <2>1, <2>2, <2>3 DEF CoolInv
\* A method that keeps the throttle and the mark it read.
<1>k. ASSUME sleeping' = {}, now' = now, coolUntil' = coolUntil,
             data' = data \/ (data'.throttle = Read.throttle /\ data'.lost = Read.lost)
      PROVE  CoolInv' /\ NotShortened
  <2>1. CASE data' = data
    BY <1>k, <2>1, <1>f, <1>t
  <2>2. CASE data'.throttle = Read.throttle /\ data'.lost = Read.lost
    <3>1. Damped(data')
      BY <2>2, <1>r, SameDamped
    <3> QED BY <1>k, <2>2, <3>1, <1>f, <1>r
  <2> QED BY <1>k, <2>1, <2>2
<1>1. ASSUME NEW p \in Procs, NEW k \in Kinds, NEW c \in BOOLEAN, ClaimWrite(p, k, c)
      PROVE CoolInv' /\ NotShortened
  <2>1. /\ EnforcementView \in Dict /\ Damped(EnforcementView)
        /\ EnforcementView.throttle \subseteq Read.throttle
    BY <1>r, <1>p, <1>t, PrunedTyped DEF EnforcementView, TypeOK
  <2>2. /\ data'.throttle = EnforcementView.throttle /\ data'.lost = EnforcementView.lost
        /\ sleeping' = {} /\ now' = now /\ coolUntil' = coolUntil
    BY <1>1, <2>1 DEF ClaimWrite, LockFree, Put, Dict
  <2>3. Damped(data')
    BY <2>1, <2>2, SameDamped
  <2> QED BY <1>f, <1>r, <2>1, <2>2, <2>3
<1>2. ASSUME NEW p \in Procs, CommitClaim(p) \/ Kill(p) PROVE CoolInv' /\ NotShortened
  BY <1>2, <1>g DEF CommitClaim, Kill, file, ghost
<1>3. ASSUME NEW p \in Procs, ReleaseClaim(p) PROVE CoolInv' /\ NotShortened
  <2>1. /\ sleeping' = {} /\ now' = now /\ coolUntil' = coolUntil
        /\ data' = data \/ \E r : data' = [Read EXCEPT !.rows = @ \ {r}]
    BY <1>3 DEF ReleaseClaim, LockFree, Put, file
  <2>2. data' = data \/ (data'.throttle = Read.throttle /\ data'.lost = Read.lost)
    BY <2>1, <1>r DEF Dict
  <2> QED BY <1>k, <2>1, <2>2
<1>4. ASSUME NEW p \in Procs, NEW i \in Intervals, TakeSlot(p, i) PROVE CoolInv' /\ NotShortened
  <2>1. sleeping' = {} /\ now' = now /\ coolUntil' = coolUntil /\ data' = Slotted(Read)
    BY <1>4 DEF TakeSlot, LockFree, Put, ghost
  <2> QED BY <1>f, <1>p, <1>r, <2>1
<1>5. ASSUME NEW p \in Procs, NEW i \in Intervals, StartSleep(p, i) PROVE CoolInv' /\ NotShortened
  <2>1. /\ now' = now /\ data' = data /\ coolUntil' = coolUntil
        /\ \E w \in SleepTimes(Read, i) : sleeping' = {[proc |-> p, left |-> w, view |-> Read]}
    BY <1>5 DEF StartSleep, file, ghost
  <2>2. Read = data
    <3>1. Read.slot # {}
      BY <2>1 DEF SleepTimes
    <3> QED BY <3>1 DEF Read, EmptyDict
  <2>3. \A u \in sleeping' : u.view = data
    BY <2>1, <2>2
  <2>4. NotShortened
    BY <2>1, <1>t, <1>n DEF NotShortened, Damped, OneThrottle, Dict, Throttle
  <2>5. Damped(data)' /\ coolUntil' <= now' + THROTTLE_MAX_COOLDOWN
    BY <2>1, <1>t DEF Damped, OneThrottle, CoolKeptBy
  <2>6. \A u \in sleeping' : u.view = data' /\ Damped(u.view)'
    BY <2>1, <2>3, <2>5
  <2> QED BY <1>t, <2>4, <2>5, <2>6 DEF CoolInv, Behind
<1>6. ASSUME NEW p \in Procs, WakeWithSlot(p) PROVE CoolInv' /\ NotShortened
  <2>1. PICK s \in sleeping : data' = Slotted(s.view)
    BY <1>6 DEF WakeWithSlot, Put
  <2>2. sleeping' = {} /\ now' = now /\ coolUntil' = coolUntil
    BY <1>6 DEF WakeWithSlot, ghost
  <2>3. Damped(data') /\ data'.throttle \subseteq s.view.throttle
    BY <1>p, <1>n, <1>t, <2>1
  <2>4. CASE data = s.view
    BY <1>f, <2>2, <2>3, <2>4
  <2>5. CASE data = EmptyDict
    <3>1. NotShortened
      BY <2>5 DEF NotShortened, EmptyDict
    <3>2. Damped(data)' /\ coolUntil' <= now' + THROTTLE_MAX_COOLDOWN
      BY <2>2, <2>3, <1>t DEF Damped, OneThrottle, CoolKeptBy
    <3> QED BY <3>1, <3>2, <2>2, <1>t DEF CoolInv, Behind
  <2> QED BY <2>4, <2>5, <1>t DEF Behind
<1>7. ASSUME NEW retry \in RetryAfters, RecordThrottle(retry) PROVE CoolInv' /\ NotShortened
  <2>1. RecordThrottle(0)
    BY <1>7
  <2>2. sleeping' = {} /\ now' = now
    BY <1>7 DEF RecordThrottle, LockFree
  <2>3. Damped(data)' /\ NotShortened /\ coolUntil' <= now + THROTTLE_MAX_COOLDOWN
    BY <2>1, RecordDamped
  <2> QED BY <2>2, <2>3, <1>t DEF CoolInv, Behind
<1>8. CASE TripBreaker \/ ClearBreaker \/ ClearSessionFailures
  <2>1. sleeping' = {} /\ now' = now /\ coolUntil' = coolUntil
    BY <1>8 DEF TripBreaker, ClearBreaker, ClearSessionFailures, LockFree, ghost
  <2>2. data' = data \/ (data'.throttle = Read.throttle /\ data'.lost = Read.lost)
    BY <1>8, <1>r DEF TripBreaker, ClearBreaker, ClearSessionFailures, Put, file, Dict
  <2> QED BY <1>k, <2>1, <2>2
<1>9. CASE CountSessionFailure
  <2>1. /\ sleeping' = {} /\ now' = now /\ coolUntil' = coolUntil
        /\ data'.throttle = Read.throttle /\ data'.lost = Read.lost
    BY <1>9, <1>r DEF CountSessionFailure, LockFree, Put, Dict
  <2> QED BY <1>k, <2>1
<1>10. CASE DiskFault
  BY <1>10, <1>g DEF DiskFault, ReadsFail, ReadsRecover, ghost
<1>11. CASE MoveAside
  <2>1. data' = EmptyDict /\ coolUntil' = 0 /\ now' = now /\ sleeping' = sleeping
    BY <1>11 DEF MoveAside, Put
  <2>2. CoolKeptBy(data)' /\ \A s \in sleeping : CoolKeptBy(s.view)'
    BY <2>1, <1>n DEF CoolKeptBy, CoolNumbers
  <2>3. OneThrottle(data)' /\ \A s \in sleeping : OneThrottle(s.view)'
    BY <2>1, <1>t DEF OneThrottle, EmptyDict, Damped
  <2>4. NotShortened
    BY <2>1 DEF NotShortened, EmptyDict
  <2>5. coolUntil' <= now' + THROTTLE_MAX_COOLDOWN
    BY <2>1, <1>n DEF CoolNumbers
  <2> QED BY <2>1, <2>2, <2>3, <2>4, <2>5, <1>t DEF CoolInv, Behind, Damped
<1>12. CASE Tick
  <2>1. data' = data /\ now' = now + 1 /\ coolUntil' = coolUntil
    BY <1>12 DEF Tick, file, ghost
  <2>2. \A u \in sleeping' : \E s \in sleeping : u.view = s.view
    BY <1>12, <1>t DEF Tick, TypeOK
  <2>3. ASSUME NEW d \in Dict, Damped(d)
        PROVE  /\ \A h \in d.throttle :
                    /\ h.at <= now + 1 /\ 1 <= h.count /\ h.until = h.at + Cooldown(h.count, 0)
                    /\ \A g \in d.throttle : h = g
               /\ coolUntil > now + 1 => \/ \E h \in d.throttle : h.until = coolUntil
                                         \/ \E m \in d.lost : coolUntil <= m + WEEK
    <3>1. coolUntil > now + 1 => coolUntil > now
      BY <1>n DEF CoolNumbers
    <3>2. \A h \in d.throttle : h.at <= now => h.at <= now + 1
      BY <1>n DEF CoolNumbers, Dict, Throttle
    <3> QED BY <2>3, <3>1, <3>2 DEF Damped, OneThrottle, CoolKeptBy
  <2>4. Damped(data)' /\ \A s \in sleeping : Damped(s.view)'
    BY <2>1, <2>3, <1>n, <1>t DEF Damped, OneThrottle, CoolKeptBy
  <2>5. Behind' /\ \A u \in sleeping' : Damped(u.view)'
    BY <2>1, <2>2, <2>4, <1>t DEF Behind
  <2>6. NotShortened
    BY <2>1, <1>t, <1>n DEF NotShortened, Damped, OneThrottle, Dict, Throttle
  <2>7. coolUntil' <= now' + THROTTLE_MAX_COOLDOWN
    BY <2>1, <1>t, <1>n DEF CoolNumbers
  <2> QED BY <1>t, <2>4, <2>5, <2>6, <2>7 DEF CoolInv
<1>13. CASE UNCHANGED vars
  BY <1>13, <1>g DEF vars, file, ghost
<1> QED
  BY <1>1, <1>2, <1>3, <1>4, <1>5, <1>6, <1>7, <1>8, <1>9, <1>10, <1>11, <1>12, <1>13
  DEF Next, Step, Shared

LEMMA CoolInit == Init => CoolInv
<1>1. Init => TypeOK
  BY DEF Init, TypeOK, EmptyDict, Dict
<1> QED
  BY <1>1, CooldownAssumption
  DEF Init, CoolInv, Behind, Damped, OneThrottle, CoolKeptBy, EmptyDict

\* A later throttle never ends the damping earlier than an earlier one did
\* (record_throttle: "start (or extend) the cooldown"), for callers that pass
\* no retry_after.
THEOREM CooldownsOnlyExtend ==
  ASSUME RetryAfters \subseteq {0} PROVE Spec => CooldownNeverShortened
<1>1. CoolInv /\ [Next]_vars =>
        [readable => \A h \in data.throttle, g \in data'.throttle : h.until <= g.until]_vars
  BY CoolStep DEF NotShortened
<1>2. CoolInv /\ [Next]_vars => CoolInv'
  BY CoolStep
<1> QED BY <1>1, <1>2, CoolInit, PTL DEF Spec, CooldownNeverShortened

\* No ordinary write is booked before the longest cooldown LinkedIn asked for
\* has run out, although the file that recorded it may be lost and a sleeper
\* may write an older dict back (record_throttle, _guard_readable); again for
\* callers that pass no retry_after.
THEOREM CooldownsAreHeard ==
  ASSUME RetryAfters \subseteq {0} PROVE Spec => CooldownHeard
<1>1. CoolInv /\ [Next]_vars => [BooksAWrite => coolUntil <= now]_vars
  <2> SUFFICES ASSUME CoolInv, NEW p \in Procs, NEW k \in Kinds, ClaimWrite(p, k, FALSE)
               PROVE  coolUntil <= now
    BY OnlyClaimsBook
  <2>n. CoolNumbers
    BY CoolNumbersHold DEF CoolInv
  <2> SUFFICES ASSUME coolUntil > now PROVE FALSE
    BY <2>n DEF CoolNumbers
  <2>1. EnforcementView.lost = {} /\ ActiveThrottle(EnforcementView, now) = {}
    BY DEF ClaimWrite, ClaimAllowed, WriteAllowed
  <2>2. EnforcementView \in Dict /\ Damped(EnforcementView)
    BY ReadDamped, PrunedDamped, PrunedTyped DEF CoolInv, EnforcementView, TypeOK
  <2>3. PICK h \in EnforcementView.throttle : h.until = coolUntil
    BY <2>1, <2>2 DEF Damped, CoolKeptBy
  <2>4. h.at \in Nat /\ h.until = h.at + Cooldown(h.count, 0)
    BY <2>2, <2>3 DEF Damped, OneThrottle, Dict, Throttle
  <2>5. Cooldown(h.count, 0) \in 0 .. THROTTLE_MAX_COOLDOWN
    BY CooldownTyped
  <2>6. now < Min2(h.until, h.at + THROTTLE_MAX_COOLDOWN)
    <3> DEFINE long == Cooldown(h.count, 0)
    <3>1. long \in 0 .. THROTTLE_MAX_COOLDOWN /\ h.until = h.at + long /\ h.until = coolUntil
      BY <2>3, <2>4, <2>5
    <3> HIDE DEF long
    <3> QED BY <3>1, <2>n, <2>4 DEF CoolNumbers, Min2
  <2> QED BY <2>1, <2>3, <2>6 DEF ActiveThrottle
<1>2. CoolInv /\ [Next]_vars => CoolInv'
  BY CoolStep
<1> QED BY <1>1, <1>2, CoolInit, PTL DEF Spec, CooldownHeard
=============================================================================
