------------------------------- MODULE Ledger -------------------------------
(***************************************************************************)
(* The write ledger of linkedin_cli/state.py: state.json, read and         *)
(* rewritten by every invocation under an flock on a sibling file.         *)
(*                                                                         *)
(* A method of State that locks, reads, decides and writes is one action:  *)
(* nobody else runs inside the lock.  wait_for_slot is two, because it     *)
(* sleeps WHILE HOLDING the lock, and what it writes when it wakes is the  *)
(* dict it read before it slept.  Here the callers of State are free to    *)
(* call any method at any time; Invocation.tla restricts them to what one  *)
(* run of the CLI does.                                                    *)
(*                                                                         *)
(* A key of the JSON object that may be missing is a set with at most one  *)
(* element.  The entries of a list of stamps carry an identity, so that    *)
(* a list which holds one stamp twice is a set with two elements.          *)
(***************************************************************************)
EXTENDS Integers, FiniteSets

CONSTANTS
  Procs,              \* the processes that open the ledger
  Kinds,              \* the kinds of write: "message", "post", ...
  DailyCap,           \* DAILY_CAPS, a function on Kinds
  WEEKLY_MULTIPLIER, CLEANUP_CEILING_MULTIPLIER,
  DAY, WEEK,
  THROTTLE_COOLDOWN, THROTTLE_MAX_COOLDOWN, THROTTLE_MEMORY,
  THROTTLE_PACE_MULTIPLIER,
  FAILURE_WINDOW, FAILURE_LIMIT,
  Intervals,          \* the values of min_interval the callers use
  RetryAfters,        \* the retry_after a caller may pass; 0 stands for None
  \* Bounds and switches of a model; the proofs hold for all of them.
  Ops,                \* the groups of methods the callers use
  MaxTime,            \* the clock stops here
  MaxEntries,         \* entries ever appended to a list of the file
  MaxThrottles        \* consecutive throttles

OpGroups == {"writes", "cleanups", "pace", "throttle", "breaker", "session",
             "faults", "mv", "kill"}

ASSUME LimitsAssumption ==
  /\ DailyCap \in [Kinds -> Nat]
  /\ WEEKLY_MULTIPLIER \in Nat /\ CLEANUP_CEILING_MULTIPLIER \in Nat
  /\ FAILURE_LIMIT \in Nat \ {0}

ASSUME WindowsAssumption ==
  /\ DAY \in Nat /\ WEEK \in Nat /\ 0 < DAY /\ DAY < WEEK
  /\ FAILURE_WINDOW \in Nat

ASSUME CooldownAssumption ==
  /\ THROTTLE_COOLDOWN \in Nat /\ THROTTLE_MAX_COOLDOWN \in Nat
  /\ THROTTLE_MEMORY \in Nat /\ THROTTLE_PACE_MULTIPLIER \in Nat
  /\ 1 <= THROTTLE_PACE_MULTIPLIER
  /\ THROTTLE_MAX_COOLDOWN < THROTTLE_MEMORY /\ THROTTLE_MEMORY <= WEEK

ASSUME CallersAssumption ==
  /\ Intervals \subseteq Nat /\ RetryAfters \subseteq Nat
  /\ Ops \subseteq OpGroups
  /\ MaxTime \in Nat /\ MaxEntries \in Nat /\ MaxThrottles \in Nat

-----------------------------------------------------------------------------
VARIABLES
  now,        \* time.time()
  data,       \* the dict the bytes of state.json decode to
  readable,   \* whether they decode: no OSError, valid JSON, an object
  sleeping,   \* the process asleep in wait_for_slot, holding the lock
  claim,      \* claim[p]: the unsettled WriteClaim that p holds
  entries,    \* entries ever appended: the identity of the next one
  \* History variables: what really happened, whatever the file says.
  booked,     \* the claims made and not given back since the operator last
              \* discarded the history on purpose
  coolUntil,  \* when the longest cooldown LinkedIn has asked for ends
  tripped     \* when the breaker was last tripped, unless it was cleared

file  == <<data, readable>>
ghost == <<booked, coolUntil, tripped>>
vars  == <<now, file, sleeping, claim, entries, ghost>>

Min2(a, b) == IF a <= b THEN a ELSE b
Max2(a, b) == IF a >= b THEN a ELSE b

Row       == [id : Nat, kind : Kinds, cleanup : BOOLEAN, at : Nat]
Stamp     == [id : Nat, at : Nat]
Throttle  == [at : Nat, until : Nat, count : Nat]
Dict      == [rows : SUBSET Row, lost : SUBSET Nat, throttle : SUBSET Throttle,
              breaker : SUBSET Nat, failures : SUBSET Stamp, slot : SUBSET Nat]

\* What _read makes of an absent file: no history, and that is the truth.
EmptyDict == [rows |-> {}, lost |-> {}, throttle |-> {}, breaker |-> {},
              failures |-> {}, slot |-> {}]

-----------------------------------------------------------------------------
(* Reading the file, and what every decision is taken on. *)

\* Bug: the unparseable file presents itself as a pristine one.
ReadForgetsTheLoss == IF readable THEN data ELSE EmptyDict

\* _read: a file that does not decode is an empty dict that says so.
Read == IF readable THEN data ELSE [EmptyDict EXCEPT !.lost = {now}]

\* Bug: the marker expires with the daily window.
PrunedLostAfterADay(d, t) ==
  {IF m > t THEN t ELSE m : m \in {n \in d.lost : t - n < DAY}}

\* _prune, at the instant t.
PrunedLost(d, t) ==
  {IF m > t THEN t ELSE m : m \in {n \in d.lost : t - n < WEEK}}

\* Bug: a throttle is dropped with the first cooldown it could have earned.
PrunedThrottleEarly(d, t) ==
  [d EXCEPT !.lost     = PrunedLost(d, t),
            !.throttle = {h \in d.throttle : t - h.at < THROTTLE_COOLDOWN},
            !.rows     = {r \in d.rows : r.at >= t - WEEK}]

Pruned(d, t) ==
  [d EXCEPT !.lost     = PrunedLost(d, t),
            !.throttle = {h \in d.throttle : t - h.at < THROTTLE_MEMORY},
            !.rows     = {r \in d.rows : r.at >= t - WEEK}]

EnforcementView == Pruned(Read, now)

\* _count over the rows of one kind, cleanup or not.
Booked(rows, k, c, cutoff) ==
  {r \in rows : r.kind = k /\ r.cleanup = c /\ r.at >= cutoff}

Count(d, k, c, cutoff) == Cardinality(Booked(d.rows, k, c, cutoff))

\* _active_throttle: the throttle in force, its end clamped to its start.
ActiveThrottle(d, t) ==
  {h \in d.throttle : t < Min2(h.until, h.at + THROTTLE_MAX_COOLDOWN)}

CleanupCeiling(k, blocked) ==
  IF blocked THEN DailyCap[k] ELSE DailyCap[k] * CLEANUP_CEILING_MULTIPLIER

\* Bug: undos are counted from the first instant after the block, so that a
\* block recorded now forgives the ones booked now.
CleanupCutoffAfterNow(d, t) == IF d.breaker = {} THEN t - DAY ELSE t

\* _cleanup_cutoff: from the block while the breaker is open, and never
\* wider than the day nor counted from the future.
CleanupCutoff(d, t) ==
  IF \E b \in d.breaker : t - DAY < b /\ b <= t
  THEN CHOOSE b \in d.breaker : TRUE
  ELSE t - DAY

\* Bug: `>` where the caps are compared with `>=`.
WriteAllowedPastTheCap(d, k, t) ==
  /\ d.breaker = {}
  /\ ActiveThrottle(d, t) = {}
  /\ Count(d, k, FALSE, t - DAY) <= DailyCap[k]
  /\ Count(d, k, FALSE, t - WEEK) < DailyCap[k] * WEEKLY_MULTIPLIER

\* Bug: the breaker is left to cli._guard_breaker, which ran long before.
WriteAllowedWhileOpen(d, k, t) ==
  /\ ActiveThrottle(d, t) = {}
  /\ Count(d, k, FALSE, t - DAY) < DailyCap[k]
  /\ Count(d, k, FALSE, t - WEEK) < DailyCap[k] * WEEKLY_MULTIPLIER

\* _guard_write passes.
WriteAllowed(d, k, t) ==
  /\ d.breaker = {}
  /\ ActiveThrottle(d, t) = {}
  /\ Count(d, k, FALSE, t - DAY) < DailyCap[k]
  /\ Count(d, k, FALSE, t - WEEK) < DailyCap[k] * WEEKLY_MULTIPLIER

\* _guard_cleanup passes.
CleanupAllowed(d, k, t) ==
  Count(d, k, TRUE, CleanupCutoff(d, t)) < CleanupCeiling(k, d.breaker # {})

-----------------------------------------------------------------------------
(* The lock, and publishing a new file (os.replace over whatever is there). *)

\* Bug: the lock is released before the sleep.
LockFreeWhileAsleep == TRUE

LockFree == sleeping = {}

Awake(p) == \A s \in sleeping : s.proc # p

Put(d) == data' = d /\ readable' = TRUE

-----------------------------------------------------------------------------
(* claim_write, and the two ways a WriteClaim is settled. *)

\* The verdict of claim_write on the pruned view.
ClaimAllowed(k, c) ==
  /\ EnforcementView.lost = {}
  /\ IF c THEN CleanupAllowed(EnforcementView, k, now)
          ELSE WriteAllowed(EnforcementView, k, now)

NewRow(k, c) == [id |-> entries, kind |-> k, cleanup |-> c, at |-> now]

ClaimWrite(p, k, c) ==
  /\ LockFree
  /\ claim[p] = {}
  /\ entries < MaxEntries
  /\ ClaimAllowed(k, c)
  /\ Put([EnforcementView EXCEPT !.rows = @ \cup {NewRow(k, c)}])
  /\ claim' = [claim EXCEPT ![p] = {NewRow(k, c)}]
  /\ entries' = entries + 1
  /\ booked' = booked \cup {NewRow(k, c)}
  /\ UNCHANGED <<now, sleeping, coolUntil, tripped>>

\* WriteClaim.commit touches no file.
CommitClaim(p) ==
  /\ Awake(p)
  /\ claim[p] # {}
  /\ claim' = [claim EXCEPT ![p] = {}]
  /\ UNCHANGED <<now, file, sleeping, entries, ghost>>

\* The rows `at in stamps` cannot tell from row c.  stamps.remove takes one
\* of them; equal stamps are interchangeable, so it is c whenever c is there.
SameStamp(d, c) ==
  {r \in d.rows : r.kind = c.kind /\ r.cleanup = c.cleanup /\ r.at = c.at}

Removable(d, c) == IF c \in d.rows THEN {c} ELSE SameStamp(d, c)

ReleaseClaim(p) ==
  /\ LockFree
  /\ \E c \in claim[p] :
       /\ booked' = booked \ {c}
       /\ IF SameStamp(Read, c) = {}
          THEN UNCHANGED file
          ELSE \E r \in Removable(Read, c) :
                 Put([Read EXCEPT !.rows = @ \ {r}])
  /\ claim' = [claim EXCEPT ![p] = {}]
  /\ UNCHANGED <<now, sleeping, entries, coolUntil, tripped>>

-----------------------------------------------------------------------------
(* wait_for_slot. *)

\* The interval in force: a cooldown stretches it.
Gap(d, i) ==
  IF ActiveThrottle(d, now) # {} THEN i * THROTTLE_PACE_MULTIPLIER ELSE i

\* Bug: nothing keeps a slot that is already due from being slept for.
SleepTimesNegative(d, i) ==
  {w \in {Min2(Gap(d, i) - (now - t), Gap(d, i)) : t \in d.slot} : w # 0}

\* How long to sleep, clamped so that a clock which stepped back costs one
\* interval; 0 or less when there is no need to, or no stamp to pace from.
SleepTimes(d, i) ==
  {w \in {Min2(Gap(d, i) - (now - t), Gap(d, i)) : t \in d.slot} : w > 0}

Slotted(d) == Pruned([d EXCEPT !.slot = {now}], now)

\* The slot is already due: stamp it and go.
TakeSlot(p, i) ==
  /\ LockFree
  /\ SleepTimes(Read, i) = {}
  /\ Put(Slotted(Read))
  /\ UNCHANGED <<now, sleeping, claim, entries, ghost>>

\* It is not: sleep with the lock held and the dict in memory.
StartSleep(p, i) ==
  /\ LockFree
  /\ \E w \in SleepTimes(Read, i) :
       sleeping' = {[proc |-> p, left |-> w, view |-> Read]}
  /\ UNCHANGED <<now, file, claim, entries, ghost>>

\* Awake: publish what was read before the sleep, with a fresh stamp.
WakeWithSlot(p) ==
  /\ \E s \in sleeping : s.proc = p /\ s.left = 0 /\ Put(Slotted(s.view))
  /\ sleeping' = {}
  /\ UNCHANGED <<now, claim, entries, ghost>>

-----------------------------------------------------------------------------
(* Throttles. *)

\* Bug: the run of throttles is forgotten with the first cooldown.
RememberedBriefly(d) ==
  {h \in d.throttle : 0 <= now - h.at /\ now - h.at < THROTTLE_COOLDOWN}

\* The previous throttle, while it is remembered.
Remembered(d) ==
  {h \in d.throttle : 0 <= now - h.at /\ now - h.at < THROTTLE_MEMORY}

ThrottleCount(d) ==
  IF Remembered(d) = {} THEN 1 ELSE 1 + (CHOOSE h \in Remembered(d) : TRUE).count

\* 900 * 2 ** min(count - 1, 16), floored by retry_after and capped.
Cooldown(count, retry) ==
  LET earned == Max2(THROTTLE_COOLDOWN * 2^Min2(count - 1, 16), retry)
  IN  IF earned \in 0 .. THROTTLE_MAX_COOLDOWN THEN earned ELSE THROTTLE_MAX_COOLDOWN

RecordThrottle(retry) ==
  /\ LockFree
  /\ ThrottleCount(Read) <= MaxThrottles
  /\ LET until == now + Cooldown(ThrottleCount(Read), retry)
         entry == [at |-> now, until |-> until, count |-> ThrottleCount(Read)]
     IN  /\ Put(Pruned([Read EXCEPT !.throttle = {entry}], now))
         /\ coolUntil' = Max2(coolUntil, until)
  /\ UNCHANGED <<now, sleeping, claim, entries, booked, tripped>>

-----------------------------------------------------------------------------
(* The circuit breaker and the run of dead sessions that arms it. *)

TripBreaker ==
  /\ LockFree
  /\ IF Read.breaker = {} THEN Put([Read EXCEPT !.breaker = {now}])
                          ELSE UNCHANGED file
  /\ tripped' = {now}
  /\ UNCHANGED <<now, sleeping, claim, entries, booked, coolUntil>>

ClearBreaker ==
  /\ LockFree
  /\ IF Read.breaker # {} THEN Put([Read EXCEPT !.breaker = {}])
                          ELSE UNCHANGED file
  /\ tripped' = {}
  /\ UNCHANGED <<now, sleeping, claim, entries, booked, coolUntil>>

\* The failures still inside the window, and this one.
FailuresNow ==
  {s \in Read.failures : now - s.at < FAILURE_WINDOW}
    \cup {[id |-> entries, at |-> now]}

CountSessionFailure ==
  /\ LockFree
  /\ entries < MaxEntries
  /\ entries' = entries + 1
  /\ LET arms == Cardinality(FailuresNow) >= FAILURE_LIMIT IN
       /\ Put([Read EXCEPT !.failures = FailuresNow,
                           !.breaker = IF arms /\ @ = {} THEN {now} ELSE @])
       /\ tripped' = IF arms THEN {now} ELSE tripped
  /\ UNCHANGED <<now, sleeping, claim, booked, coolUntil>>

ClearSessionFailures ==
  /\ LockFree
  /\ IF Read.failures # {} THEN Put([Read EXCEPT !.failures = {}])
                           ELSE UNCHANGED file
  /\ UNCHANGED <<now, sleeping, claim, entries, ghost>>

-----------------------------------------------------------------------------
(* What happens around the methods: time, kills, the disk, the operator. *)

\* A sleeper's time.sleep runs down with real time.
Tick ==
  /\ now < MaxTime
  /\ now' = now + 1
  /\ sleeping' = {[s EXCEPT !.left = IF @ = 0 THEN 0 ELSE @ - 1] : s \in sleeping}
  /\ UNCHANGED <<file, claim, entries, ghost>>

\* Bug: a lock file that outlives its owner in place of an flock.
KillKeepsTheLock(p) ==
  /\ claim' = [claim EXCEPT ![p] = {}]
  /\ UNCHANGED <<now, file, sleeping, entries, ghost>>

\* The process dies: the kernel drops its lock, its claim is never settled.
Kill(p) ==
  /\ sleeping' = {s \in sleeping : s.proc # p}
  /\ claim' = [claim EXCEPT ![p] = {}]
  /\ UNCHANGED <<now, file, entries, ghost>>

\* Bytes that do not decode, or a read that fails; it may be for good, and
\* it may pass: the bytes are still there until somebody replaces them.
ReadsFail  == readable  /\ readable' = FALSE /\ UNCHANGED data
ReadsRecover == ~readable /\ readable' = TRUE /\ UNCHANGED data

DiskFault ==
  /\ ReadsFail \/ ReadsRecover
  /\ UNCHANGED <<now, sleeping, claim, entries, ghost>>

\* The remedy LedgerUnreadable prints: mv state.json state.json.corrupt, run
\* by a person, with no lock, some time after the last claim was taken.
MoveAside ==
  /\ ~readable \/ data.lost # {}
  /\ \A p \in Procs : \A c \in claim[p] : c.at < now
  /\ Put(EmptyDict)
  /\ booked' = {} /\ coolUntil' = 0 /\ tripped' = {}
  /\ UNCHANGED <<now, sleeping, claim, entries>>

-----------------------------------------------------------------------------
Init ==
  /\ now = 0
  /\ data = EmptyDict /\ readable = TRUE
  /\ sleeping = {}
  /\ claim = [p \in Procs |-> {}]
  /\ entries = 0
  /\ booked = {} /\ coolUntil = 0 /\ tripped = {}

Uses(op) == op \in Ops

Step(p) ==
  \/ Uses("writes") /\ \E k \in Kinds : ClaimWrite(p, k, FALSE)
  \/ Uses("cleanups") /\ \E k \in Kinds : ClaimWrite(p, k, TRUE)
  \/ CommitClaim(p)
  \/ ReleaseClaim(p)
  \/ Uses("pace") /\ \E i \in Intervals : TakeSlot(p, i)
  \/ Uses("pace") /\ \E i \in Intervals : StartSleep(p, i)
  \/ WakeWithSlot(p)
  \/ Uses("kill") /\ Kill(p)

Shared ==
  \/ Uses("throttle") /\ \E retry \in RetryAfters : RecordThrottle(retry)
  \/ Uses("breaker") /\ TripBreaker
  \/ Uses("breaker") /\ ClearBreaker
  \/ Uses("session") /\ CountSessionFailure
  \/ Uses("session") /\ ClearSessionFailures
  \/ Uses("faults") /\ DiskFault
  \/ Uses("mv") /\ MoveAside

Next == Tick \/ Shared \/ \E p \in Procs : Step(p)

Spec == Init /\ [][Next]_vars

-----------------------------------------------------------------------------
(* Properties. *)

\* Every variable holds a value of its type; at most one process sleeps.
TypeOK ==
  /\ now \in Nat
  /\ data \in Dict
  /\ readable \in BOOLEAN
  /\ sleeping \subseteq [proc : Procs, left : Nat, view : Dict]
  /\ \A s, u \in sleeping : s = u
  /\ claim \in [Procs -> SUBSET Row]
  /\ entries \in Nat
  /\ booked \subseteq Row
  /\ coolUntil \in Nat
  /\ tripped \subseteq Nat

\* A claim that still counts is on file, or the file says since when it
\* cannot be trusted.  This is what a lost file, a sleeper's old dict written
\* back and a release must not break: the caps rest on it.
KeptBy(d) ==
  \A c \in booked : c.at > now - WEEK => c \in d.rows \/ \E m \in d.lost : c.at <= m

HistoryKept == KeptBy(data) /\ \A s \in sleeping : KeptBy(s.view)

\* No more ordinary writes of a kind are booked in any 24h than its daily cap,
\* although files are lost, recover and are rewritten, claims are given back
\* and their holders die (claim_write, _guard_write, HISTORY_LOST_KEY).
DailyCapHolds ==
  \A k \in Kinds : Cardinality(Booked(booked, k, FALSE, now - DAY)) <= DailyCap[k]

\* Nor more in any 7 days than the weekly multiple.  The window leaves its
\* first instant out: a marker of that instant has just expired.
WeeklyCapHolds ==
  \A k \in Kinds : Cardinality(Booked(booked, k, FALSE, now - WEEK + 1))
                     <= DailyCap[k] * WEEKLY_MULTIPLIER

\* What is undone after the breaker opened, in any 24h, is at most one day's
\* worth of creates (cleanup_ceiling, _cleanup_cutoff).
BlockedUndosBounded ==
  \A k \in Kinds : \A b \in data.breaker :
    Cardinality({r \in Booked(booked, k, TRUE, now - DAY) : r.at > b}) <= DailyCap[k]

BooksAWrite == \E r \in booked' \ booked : ~r.cleanup

\* No ordinary write is booked before the longest cooldown LinkedIn asked for
\* has run out, even when the file that recorded it was lost (record_throttle,
\* _guard_readable).
CooldownHeard == [][BooksAWrite => coolUntil <= now]_vars

\* A later throttle never ends the damping earlier than an earlier one did
\* (record_throttle: "start (or extend) the cooldown").
CooldownNeverShortened ==
  [][readable => \A h \in data.throttle, g \in data'.throttle : h.until <= g.until]_vars

\* No ordinary write is booked after LinkedIn refused this client until the
\* operator clears the breaker or, when the file was lost, a week has passed.
BreakerOutlastsLoss == [][BooksAWrite => \A b \in tripped : WEEK <= now - b]_vars

\* Two consecutive stamps on a readable file are an interval apart, and the
\* longer interval while a cooldown is in force, however many processes pace
\* themselves at once (wait_for_slot).
SlotsSpaced ==
  [][readable => \A a \in data.slot, b \in data'.slot : a # b =>
       \E i \in Intervals : Gap(data, i) <= b - a]_vars

-----------------------------------------------------------------------------
(* What the documentation says and the code does not keep. *)

\* A readable ledger with its history does not turn into one without: the
\* remedy LedgerUnreadable names ends the refusal.
RemedySticks == [][readable /\ data.lost = {} => data'.lost = {}]_vars
=============================================================================
