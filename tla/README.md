# The formal model of linkedin-cli

This directory specifies the parts of linkedin-cli whose correctness depends on the order in which
several processes, a file, a daemon and LinkedIn act: the write ledger (`state.py`), the runs of the
command line over it (`cli.py`, `browser.py`), what each write sends and makes of its answer
(`transport.py`, `surfaces/`), the resident supervisor (`supervisor.py`), the launch of its browser
and the channel to it (`pipe.py`, `cdp.py`), and the capture tool (`tools/capture_payloads.py`). The
modules are checked with TLC on small instances. Every safety property that holds there, action
properties and the refinement of `Rpc` included, is proved with TLAPS for all instances; liveness is
checked with TLC alone.

## The system

linkedin-cli is a command line used by agents and people at once, under one LinkedIn account. Every
invocation is a short-lived process. Two things outlive it: a JSON file with its lock, and a daemon
that owns the browser holding the session.

| Part | State it keeps | Operations | What makes it correct |
| --- | --- | --- | --- |
| Write ledger, `state.py` | `state.json`: stamps of writes and cleanups, pacing stamp, throttle, breaker, dead sessions, lost-history mark; an flock on a sibling | `claim_write`, `WriteClaim.commit/release`, `wait_for_slot`, `record_throttle`, `trip_breaker`, `clear_breaker`, `count_session_failure`, `clear_session_failures` | caps hold over what was really sent, a cooldown is waited out, an open breaker stays open, none of it is forgotten when the file is lost |
| A run, `cli.py` | one `Context`: the claim, whether a write was attempted | guard, lookup, claim, pace, send, settle, record the answer | a slot is kept exactly when something may have been sent; a blocked client stays silent |
| Browser client, `browser.py` | none | one request: pace, ask the supervisor, classify | nothing that may have landed is called a failure |
| Answer taxonomy, `transport.py` | none | `raise_for_status` | each answer is put in the class the run acts on |
| Supervisor, `supervisor.py` | a socket path, a launch lock, one browser, one connection at a time | `request`, `_autostart`, `bind_socket`, `serve`, the repairs of a page, teardown | one supervisor and one browser; a write is issued once; every call returns |
| Launch and CDP channel, `pipe.py`, `cdp.py` | borrowed descriptors; a byte buffer, a call counter | `launch`; `send`, `recv`, `call` | the supervisor's own descriptors come back and none leaks; frames are not lost to timeouts, a reply is given to its call |
| Messages, `surfaces/messaging.py` | none; reads the newest page of a thread | `confirm_reply_target`, `already_sent`, send, mark read | a retried reply is not sent twice when the first is visible; nothing lands in a foreign mailbox |
| Other writes, `surfaces/{posts,social,invitations}.py` | none | one request each, and its postcondition | what is reported done was done, what is reported refused was not |
| Reads, `surfaces/{feed,profile,notifications}.py`, `graph.py`, `restli.py`, `render.py` | none | project an answer | pure functions |
| Capture tool, `tools/capture_payloads.py` | captured requests, whether it is armed | navigate, arm, click, read on, disarm | a paused write never reaches LinkedIn, the run ends |
| Cookie bootstrap, `bootstrap.py`, `ws.py` | none | read a jar once, seed it | one sequential session |
| Leak check, `tools/leakcheck.py` | none | scan text | out of scope |

They interact as follows. `cli.main` asks the ledger twice whether the command may go out, under two
locks. A write handler claims a slot (third lock), and the client takes a pacing slot before every
request (fourth lock), sleeping with the lock in hand. The request goes over a unix socket to the
supervisor, which a caller starts if nobody answers, and from there into a page. The answer comes
back as a status or an error; `_write` settles the claim on a flag set before the request left, and
`main` records a throttle, a block or a dead session in the ledger (fifth lock). Between any two of
these other runs do the same, any process may be killed, the file may stop decoding, and the operator
may move it aside.

## Modules

| Module | Models | Extends |
| --- | --- | --- |
| `Ledger` | the methods of `State` as one action each, called freely | |
| `LedgerProofs` | theorems about `Ledger`: history, caps, breaker | `Ledger` |
| `ThrottleProofs` | theorems about pacing and cooldowns | `LedgerProofs` |
| `Invocation` | runs of the CLI: the same methods in the order a run calls them | `Ledger` |
| `InvocationProofs` | theorems about `Invocation`, and that it implements `Ledger` | `Invocation`, `LedgerProofs` |
| `Supervisor` | `request`, the launch, the daemon and its operations, repairs, teardown | |
| `SupervisorProofs` | theorems about calls and supervisors | `Supervisor` |
| `Launch` | `pipe.launch`: the descriptors a browser is given, step by step | |
| `Rpc` | what a call to the browser promises | |
| `Channel` | the pipe, two sessions on it, and the order `Browser` uses them in; implements `Rpc` | |
| `ChannelProofs` | theorems about the streams, and the refinement | `Channel` |
| `Connection` | `Launch`, then `Channel` on the ends it has kept | `Channel`, with an instance of `Launch` |
| `ConnectionProofs` | theorems about the launch; carries those of `Channel` over | `Connection`, `ChannelProofs` |
| `Capture` | the capture tool, its two flows and the browser that pauses requests | |
| `CaptureProofs` | theorems about what is held | `Capture` |
| `Answers` | what an answer is taken for: `raise_for_status`, `parse`, `_request`, the postconditions | |
| `Writes` | the write commands, callers that run them again, and LinkedIn | `Answers` |
| `WritesProofs` | theorems about verdicts, reruns and replies | `Writes` |
| `MCLedger`, `MCInvocation`, `MCSupervisor`, `MCConnection`, `MCCapture`, `MCWrites` | the values of the constants for TLC | |

`Invocation` and `Writes` are two views of a run that share no variable: the first keeps what a run
does to the ledger and takes LinkedIn's answer as one of a few classes; the second keeps what the
answer says of the write and leaves the ledger out. A run that the ledger refuses is, for `Writes`, a
run that was not started. Likewise `Supervisor` takes a call to the page as one step with
four outcomes, which is what `Rpc` promises and `Channel` shows.

### Ledger

`data` is the dict the bytes of `state.json` decode to and `readable` whether they do. A method that
locks, reads, decides and writes is one action, because nobody else is inside the lock.
`wait_for_slot` is three: `TakeSlot` when no sleep is due, else `StartSleep` and `WakeWithSlot`; the
sleeper keeps in `sleeping` the dict it read, which is what it writes when it wakes. `Read` is
`_read`: a file that does not decode is an empty dict carrying the lost-history mark. `Pruned` is
`_prune`, `EnforcementView` what every claim is decided on. `Put` is `_write`, an atomic replace.
A claim is given back by its stamp (`SameStamp`), so two claims of one instant are
interchangeable, as in the list they live in.

`booked`, `coolUntil` and `tripped` are history variables: what really happened, whatever the file
says. The properties compare them with what the file lets through; without them a ledger that forgot
everything would satisfy every cap.

Around the methods: `Tick` (a sleeper's remaining time runs down with it), `Kill` (the kernel drops
the lock, the claim is never settled), `DiskFault` (the bytes stop decoding, and may decode again
later unless somebody has replaced them), and `MoveAside`, the `mv` that `LedgerUnreadable` prints.
The operator is assumed not to run it in the instant of a claim still being settled; a release by
stamp could otherwise take a later claim of that very instant.

### Invocation

`pc[p]` is where the run of process `p` stands. `Start` is `main` up to the guard; `AskBreaker` and
`AskReadable` are the two readings of `_breaker_verdict`; `Claim`, `BeginPost` and `Settle` are
`_write` and `_WriteWatch`; `Pace`, `Wake` and `Exchange` are `BrowserClient._request`; `Report` is
the tail of `main`. Commands are shapes, which `Dispatch` tells apart: a read, a write, a write after
a lookup, a reply (claim, a confirming GET, perhaps a POST), a send (a lookup, then as a reply), an
undo, a preview, which ends in `_DryRunStop` or as any success, `doctor`. LinkedIn is external and
answers in any class `raise_for_status` can tell apart. A request may also fail before it leaves
(`Undelivered`): `wait_for_slot` raises, or no supervisor can be reached. The guard may find a ledger
it cannot reach (`reached`), and then refuses what would write.

Two sets of history variables judge the runs. `sent`, `unsent` and `excused` say what became of a
slot: its POST reached the wire, or failed after the flag of `_WriteWatch` went up and before it
left, or was never made because the run was killed or the reply was there already. `dead`, `outdated`
and `wiped` keep the order in which LinkedIn answered next to the order in which runs report:
`outdated` are the runs about to end on an answer a later one contradicts, and `wiped` remembers that
one of them, or a preview, cleared the count of newer dead sessions.

A run makes one request per purpose (reads that page, and doctor's several probes, are one), and
`auth status`, which probes like `doctor`, has doctor's shape. A failed write of the ledger file is
not modelled.

### Supervisor

A client is one call of `request`, a daemon one process running `serve`. `op` is what the client asks
for: a read or a write of the page, `seed`, `status` (asked with autostart off) or `shutdown`; only a
fetch has the repairs. `path` is the daemon whose
socket the path names, alive or not; `backlog` is the kernel's queue. `Look`, `Lock`, `Recheck`,
`Spawn`, `Await`, `GiveUp` are `request` and `_autostart`; the launch lock is held exactly by the
client that stands inside `with guard(...)`, so it is no variable. `LockUnavailable` is the `OSError`
of a lock file that cannot be made, which ends the call with nothing spawned. `Probe`, `Unlink`, `Bind` and
`Listen` are the steps of `bind_socket` between which other processes run. `Fetch`, `Renavigate`,
`Relaunch`, `Relaunched` and `BeyondRepair` are `_fetch`: `rung` is the repair to try next. `CloseListener`,
`UnlinkOwn` and `CloseBrowser` are the `finally` of `serve`, `Crash` a SIGKILL.
The kernel is external. A connect fails at once when the path names no listener or its backlog is
full, because a socket with a timeout is non-blocking; the probe of `answers` is not itself counted
as a connection in the backlog. A browser ends with the process that holds its pipe: when
`Browser.launch` fails after the spawn, in its handshake, Chromium is left running until the
supervisor, which then gives up, is gone (`MayRun`). `disturbed`
remembers that a supervisor ended by itself or that a launch was left to two launchers; those are the
situations in which the code cannot keep to one supervisor, and `OneSupervisor` speaks of all others,
supervisors killed outright included.

### Launch and Connection

`Launch` is `pipe.launch` as a list of steps over a descriptor table: park what sits on 3 and 4, open
the two pipes, lift this side's ends, seat the child's, spawn, and the `except` and `finally`, which
`Raise` puts in place of the steps that are left. The kernel hands out the lowest free number, so 3
and 4 themselves may be any of the four ends; every call that makes a descriptor may fail. `Init` is
every set of open descriptors, and any of 3 and 4 inheritable. `_park` takes each failure to copy a
descriptor for one that is not open; when the table was full instead, what sat there is closed by the
`finally` and lost. `unparked` remembers it, and `OthersRestored` is stated for the others.

`Connection` composes: launch, `Connect` (the locals of `launch` go), then every step of `Channel`.
`Channel` takes a dead browser for an end of file on the pipe; `NothingLeaks` is why that is so, since
a copy of the child's ends on this side would keep the pipe open.

### Channel

The state is the stream in both directions, cut where the code may cut it: `outbox` is what
`os.write` still has to move, `inbox` and `pipe` are the kernel's buffers, `buf` is
`PipeConnection._buf`. `Call` and `Write` are `CDPSession.call` up to the end of `send`; `Fill`,
`Take`, `TimeOut` and `EndOfFile` are the loop of `call` over `recv`, and also `_wait_for_load`,
which reads the same connection past the session. `phase` is the script of `Browser`: two control
calls, the page's calls up to `Page.navigate`, the load event, the calls that confirm arrival, then any calls,
and `Browser.close` on the control session. `left` is the deadline in `call`. The clock may run out
just before or just after the look at the buffer, so `TimeOut` and `Take` are both possible then.
`asked` and `said` remember what was sent and not yet taken; `outcome` and `reply` how calls ended.

A reply is matched by its number alone, and both sessions count from 1. `Browser.launch` says that
this is safe because the control session is drained when the page session begins. The model adds the
other end: `Browser.close` is number 3 of the control session and is sent when late replies of the
page may still arrive. It is safe because number 3 of the page must have succeeded before `Browser`
exists, which is what `NAVIGATE_CALL >= 2` states (in the code it is 6); with 1, TLC finds
`ImplementsRpc` violated.

`Rpc` is the promise: a call ends with its own reply after it was executed, or fails, or was never
sent; one that failed may be executed all the same, which is why a write without an answer is
`OutcomeUnknown`. `ImplementsRpc` is the refinement: `Promise == INSTANCE Rpc WITH ...` takes the
outcomes, the replies and what was executed from `Channel`, and forgets the stream, the numbers and
the phases.

### Capture

`todo` is what is left of a flow, with a click as its two calls and the judgement of `main` at the
end. The tool has one thread and reads the pipe only while it waits, for a reply or for a window of
time; `Take` dispatches whatever it reads then. `navigate` waits through `CDPSession`, which drops
events; before arming the driver sleeps between two looks and reads nothing. `find` is `find_any` with
its look, its polling, its deadline and `_absent`; `find?` is `find_optional`, which skips its click
when the control is absent. `Raise` is an exception: `disarm` suppresses it, an armed flow disarms on
its way out. The browser is external: it executes commands in order, pauses what matches while
Fetch.enable holds, and the page issues requests when it likes, the write of the flow once a click has
reached it. Chromium is assumed, as an external part, to continue at Fetch.disable what is still
paused, and to drop it when it dies. `heard` remembers the writes
whose pause was read while the tool was armed.

### Answers and Writes

`Answers` has no state. A response is its status, its place (API, login, checkpoint), the kind of its
payload, and for JSON the set of marks the postconditions look for: errors at either of two places,
data, the urn of what was created, of another entity of its kind, or of something else where data
names its value, the words of a quota and where they stand. A text that is no JSON keeps the quota
words its error will quote. `Request` is
`BrowserClient._request` over `raise_for_status` and `parse`; `Postcondition` is each write's own. A
verdict is the slug of the envelope, whether it says `retryable`, and what it establishes of the
write: done, nothing of it, unknown, or neither. `Misread` names the answers a surface takes for a
success they do not tell: for `mark_all_read` a refusal in the body, which it does not read; for a
message or a post the urn of another entity of the created kind; for a comment or an invitation any
urn where the created one is looked for.

`Writes` puts callers around it. A caller runs one command, and again (`MayRerun`) when the envelope
says so, or for a reply when the outcome is unknown, which is what the error text tells it to do.
`Takes` is what a command can refuse without a request; `Lookup` and `ReadThread` are its reads;
`Send` is the one request and `Answered` its end, `Undelivered` a write that never reaches the page.
LinkedIn is external: a request may land after the
run has ended (`Land`), what landed shows on the page later (`Show`), and others write in between
(`Intrude`) and push it off. Answers are truthful (`Truthful`): an error that LinkedIn itself states
means nothing was applied, the urn of what the write made that it was; the urn of anything else, a
gateway's error, an HTML page or no body say nothing, and the write may land yet. That is an assumption on LinkedIn, and the one the surfaces are
written for. A thread's page may name any mailboxes, and the conversation a caller names may be
another member's; `delivered` is where messages ended up. `excused` remembers that since a run was
started an earlier reply of the same text was out of sight or another was running, which is when the
code does not promise to send once; `misread` holds the runs whose answer was one of `Misread`, and
`OkIsApplied` excuses these and no other.

## What the runs check

| Run | Shows |
| --- | --- |
| `ledger_caps` | the daily and weekly caps bound the claims really made, no claim vanishes from a file that does not say so, a cooldown is waited out by every write and only ever extended, and pacers keep their distance, with lost files, kills, and the operator's `mv` |
| `ledger_breaker` | a tripped or armed breaker outlasts the loss of its file by a week; undos after a block are bounded |
| `runs_writes` | what was sent stays booked; a slot is charged for nothing only for a killed run, a reply that was there already, or a POST that failed between its flag and the page; the daily cap bounds what was sent |
| `runs_verdicts` | a run that starts behind an open breaker sends nothing; dead sessions open the breaker in whatever order runs report them, unless a run cleared the count on an older answer; every run ends, though others sleep or die with the lock |
| `supervisor_calls` | writes and seeds are issued once, answers are truthful, one supervisor at most, every call returns, with each operation of the daemon |
| `connection_calls` | whatever descriptors the supervisor holds and whichever step of a launch fails, its own come back, none leaks, and the browser gets its two ends; then no message is lost or merged however the stream is cut, each call gets its own reply or fails, every wait ends |
| `capture_flows` | a write whose pause was read while the tool was armed never reaches LinkedIn, none does while the tool is armed, every run ends, whatever page and browser do |
| `writes_reported` | what is reported done was done, but for the answers a surface misreads; what is reported refused was not; only reads are reported retryable; no write but a reply lands twice, a reply does only where the first could not be seen, nothing is delivered into a foreign mailbox |
| `ledger_remedy` | violated: a sleeper writes the lost-history mark back over the file the operator replaced |
| `supervisor_backlog` | violated: a busy supervisor with a full backlog is taken for a dead one |
| `supervisor_teardown` | violated: a second browser is launched while the first is still being closed |
| `capture_report` | violated: a write let go by Fetch.disable is reported as captured and aborted |

Every property of a passing run is also checked against a mutated model in which a plausible mistake
was made in the code (the definitions marked "Bug:"); TLC finds the violation each time.

### Bounds

A day is 2 instants and a week 6, so that a week holds several days and the horizon (`MaxTime` 7)
outlives a week. A cap of 1 with a weekly multiple of 2 makes both caps bite inside the horizon;
`MaxEntries` of 3 admits more claims than the caps do. `MaxThrottles` lets the cooldown reach
its maximum. Two processes suffice for the ledger: every action reads and writes the file under one
lock, so that a third adds no interleaving the sleeper and one other do not have. In `Invocation`
three runs over two processes give a run that meets both a live and a finished one; a day of 2
instants and a horizon of 2 let a daily window roll over while the last run is still to come.
`runs_writes` gives answers of class `ok` alone: a slot is settled by the flag, whatever the class,
and the failures that matter to it come from `Undelivered`; its commands are a reply, which after its
confirming GET is a write, and an undo, which can be refused before it asks anything. `runs_verdicts` has the other classes; two
dead sessions are its limit, so that one run more can report a success late. `Supervisor` is checked with two calls
and two daemons, the calls being a write and a read, a seed and a status, or a write and a shutdown:
enough for a supervisor that is replaced, for a race of two starters and for a caller behind a dying launcher; the backlog run has three calls and a backlog of 0, the smallest in which
somebody is served, somebody waits and somebody is turned away. `Channel` has two control calls, three
page calls before the browser is up and two after, the fewest in which a late reply meets another
call and the closing one; two messages may be on their way at once, a late reply or an event before
the reply awaited. `Launch` has the descriptors 3 to 10 with 7 as the first high one (10 in the code):
below it there is room for the four ends of two pipes, of which two may be 3 and 4; above it for two
backups and two lifted ends, and for a table that is too full for them. `Capture` has a read, a write
of the page's own and the write of the flow; waits of one instant and a budget of two, so that a flow can outlive its budget between any two
steps; 20 calls are more than a flow makes before its budget is gone, and `RunEnds` would fail if the
bound cut it short. `Writes` has two callers of two runs each: two replies to the thread, or any other
write alone (verbs that do not reply share nothing); a page of two messages and two messages of
others, so that a reply can stay on it and be pushed off it. A third run of a caller would find the
thread in no state that the second cannot find.

All models stop: the clock, the runs, the daemons are bounded. Deadlock is therefore not checked;
`RunsEnd`, `CallsReturn`, `WaitsEnd` and `RunEnds` say that nobody is left waiting.

### Fairness

`FairSpec` of `Invocation` assumes weak fairness of the passage of time and of each run: the
operating system schedules every process, a sleep ends, an flock is granted, and the supervisor
answers or the client gives up at RESPONSE_TIMEOUT. `Start`, `KillRun` and disk faults that stay
are not forced. Beyond the model's horizon sleeps still run down, or a bounded clock would hold a sleeper
for ever. `FairSpec` of `Supervisor` assumes weak fairness of each client and of each daemon, for the
same reasons: all their waits have timeouts, except the flock. Kills, crashes and new calls are not fair.
`ConnectionSpec` and `FairSpec` of `Channel` assume that the waiting thread is scheduled and that time
passes, and nothing of the browser; `os.write`, which has no deadline, is assumed to find room in the
pipe. `FairSpec` of `Capture` assumes the same of the tool: its one thread takes steps and time
passes, while the browser may hang, stay silent or die. `Writes` states no liveness and needs none.

## What is proved

Every invariant, action property and refinement that a passing run checks is also a theorem, for any
values of the constants that satisfy the named assumptions of the modules (`...Assumption`, which TLC
evaluates on every run) and the hypotheses named below. Each rests on an inductive invariant, whose
proof has one step per action.

| Module | Theorems | State |
| --- | --- | --- |
| `LedgerProofs` | `TypeCorrect` | the type invariant |
| | `HistorySurvives` | every claim younger than a week is on file, or the file says since when it cannot be trusted |
| | `CapsHold`, `WeeklyCapIsHeld` | both caps over `booked` |
| | `BreakerHolds` | no ordinary write is booked after a trip until the breaker is cleared or a week has passed |
| | `UndosStayBounded` | what is undone behind an open breaker is bounded by a day's cap |
| `ThrottleProofs` | `SlotsAreSpaced` | two stamps are an interval apart |
| | `CooldownsOnlyExtend`, `CooldownsAreHeard` | no cooldown is shortened, no write is booked in one |
| `InvocationProofs` | `RunsUseTheLedger` | every behaviour of `Invocation` is one of `Ledger` |
| | `RunsTyped` | types; a run holds a claim only between claiming and settling |
| | `SentStaysBooked`, `SentIsCapped` | what reached the wire is booked, so the daily cap bounds it |
| | `NothingElseIsCharged` | what else is booked was killed, was there already, or failed between its flag and the page |
| | `BlockedRunsAreSilent` | a run that starts behind an open breaker sends nothing |
| | `DeadSessionsOpenTheBreaker` | enough dead sessions open it, in whatever order they are reported |
| `SupervisorProofs` | `SupervisorTypes`, `CallsIssuedAsReported` | types; a write is issued once, and reports are right |
| | `OneSupervisorWithRoom`, `OneSupervisorHolds` | one supervisor at most |
| `WritesProofs` | `VerdictSound` | over every truthful answer, a verdict says of the write what is so, unless the answer is one of `Misread` |
| | `WritesTypes`, `RetryIsSafe`, `OkMeansApplied`, `RefusalIsFinal`, `RepliesStayHome`, `WriteLandsOnce`, `TwiceIsUnseen` | each the invariant of `writes_reported` it names |
| `CaptureProofs` | `CaptureInvHolds`, `CaptureTypes`, `HeardStaysHeld`, `ArmedHolds` | a write that was heard, or paused while armed, is held |
| `ChannelProofs` | `ChannelInvHolds`, `ChannelTypes`, `FramesStayIntact`, `ChannelImplementsRpc` | whole frames; each step is one of `Rpc` or a stutter |
| `ConnectionProofs` | `LaunchInvHolds`, `OthersComeBack`, `LaunchLeaksNothing`, `ChildIsServed` | the descriptors after a launch |
| | `ConnectionIsChannel`, `ConnectionFrames`, `ConnectionImplementsRpc` | what is proved of `Channel` holds of a connection |

### The arguments

**Ledger.** The caps are not inductive: a claim is checked against the file, and the file may have
lost what was booked. The strengthening is `HistoryKept` (for the file and for the dict a sleeper will
write back): where no valid mark stands in the view, all of `booked` inside the window is in the view,
so the count the claim is checked with is at least the count of what was booked. `HistoryInv` adds
what that needs of identities and of claims in flight. `CapInv` then carries the two bounds through
time passing (windows only shrink) and releases; only a claim enlarges `booked`. `BreakerHolds` rests
on `TripInv`: a tripped breaker is in every dict that may come back, or a mark no older than the trip
is. `UndosStayBounded` needs `UndoInv`, which says it of a sleeper's dict too: its breaker may be an
older one than the file's, and returns when it wakes.

**Pacing and cooldowns.** Both speak of a sleeper that writes back what it read. `Behind` says that
nothing but the operator's `mv` can have replaced that dict meanwhile, `Due` that an interval has
passed since its stamp when it wakes; a cooldown that ends in between only shortens the interval
(`GapShrinks`). `CoolInv` keeps the longest cooldown imposed on file, or a mark that outlives it.
`CooldownGrows` is the lemma about the doubling: the next cooldown is no shorter until the maximum is
reached, and the maximum is below the memory of a throttle, so that the count cannot fall back first.

**Runs.** `RunsUseTheLedger` is a simulation with the identity mapping: each step of a run is a step
of the ledger or leaves it alone. `BookInv` and `ChargeInv` follow one claim through its run: the flag
of `_WriteWatch` goes up before the request, and a slot is given back only while it is down;
`HoldsNoClaim` ties the claim to where the run stands. `SilentInv`
is about two readings: the breaker a run met when it started is still in the file when either is
made. `ArmInv` says that, until something was `wiped`, every dead session that counts is in the ledger's
list. What clears the list is a run that reports a success: if it is about to report the latest proper
answer (`Leads`), no dead session counts and those about to be reported are older, hence `outdated`;
if it is not, clearing a list that matters is what `wiped` records.

**Supervisor.** `HeldInv` says that a connection is in one place, the hand or the backlog of one
daemon, and nowhere for a call that never connected. `Worked` bounds what a request has cost so far by
the rung of its repair, which is why `issued` stays within one for a write and three for a read.
`LaunchInv` says what the launch lock keeps apart: unless `disturbed`, one process at most is between
its spawn and its end (`Alone`), and until it listens its launcher holds the lock.

**Writes.** First the answers, in `VerdictSound`, by the kinds of payload and the verbs; this is a
lemma about operators and needs no state. `RunInv` ties a verdict to what was issued and landed.
`TwiceOnlyUnseen` is the hard one: `Watched` says that, as long as nothing is excused, the one reply
that may be out is on the page for whoever is about to read it, and that whoever has read the page
without finding one is alone.

**Capture.** `WellFormed` says what is left of a flow whatever was skipped of it: it ends with one
disarm and the verdict, and a release follows its press. `ArmedInv` says that until the tool tries to
disarm no Fetch.disable is under way, so what is paused stays so; `HeardInv` that an abort is ahead of
any Fetch.disable in the queue.

**Channel.** A message is taken off the stream and off the list of what was said together, which
keeps the frames whole at every length of read. A reply is matched by a number that two sessions share:
`TurnInv` and `LaunchAnswered` say why no two open calls have the same one, `JourneyInv` where a call
is between being asked and being answered. `ImplementsRpc` follows step by step.

**Launch.** The properties speak of the end of a launch; `LaunchInv` says, for each number of steps
that are left, what is on 3 and 4, where the four ends are, what the backups hold, and that a
descriptor is open for a reason only.

### Hypotheses

- `CooldownsOnlyExtend`, `CooldownsAreHeard`: `RetryAfters \subseteq {0}`, because `main` passes no
  `retry_after`, which the runs assume too.
- `BlockedRunsAreSilent`: `~Faulty`, a disk that does not fail. On a file that does not decode, or
  that cannot be reached, the guard cannot see the breaker.
- `DeadSessionsOpenTheBreaker`: `[]readable`. On a file that does not decode no count is kept.
- `OneSupervisorWithRoom`: `[]RoomLeft`, no backlog is full; `OneSupervisorHolds` derives it from
  `Cardinality(Clients) <= BACKLOG`. The run `supervisor_backlog` shows that it cannot be dropped.
- `ArmedHolds`: the patterns cover both places a write can go to, as `PATTERNS` does. TLC's mutant of
  it is a tool whose pattern covers one.
- Constants: `FAILURE_LIMIT` is positive (3 in the code); the descriptor table reaches the first two
  numbers from `HIGH_FD` on; `NAVIGATE_CALL >= 2`; a flow is one of the tool's two.

### Only model-checked

The four liveness properties, `RunsEnd`, `CallsReturn`, `WaitsEnd` and `RunEnds`: the prover has no
rule for ENABLED and so none for fairness. `FairSpec` of `Invocation` also lets sleeps run down beyond
the horizon of its clock; the theorems are about `RunSpec`, without that. What the violated runs
refute is not proved, being false.


## What was found

- `wait_for_slot` (`state.py:457`) writes back a dict read before its sleep. When that read saw the
  mark of a lost history and the operator moves the file aside meanwhile, the mark returns and writes
  are refused again.
- `answers` and `_connect` (`supervisor.py:391`, `:957`) expect a full backlog to show as a timeout. A
  socket with a timeout does not block: the error is EAGAIN or ECONNREFUSED, and the busy supervisor
  is taken for a dead one.
- `serve` (`supervisor.py:549`) gives up its path before its browser has exited; the next call
  launches a browser on the same profile meanwhile.
- `disarm` (`capture_payloads.py:369`) clears its flag and then waits for Fetch.disable. A write the
  page issues before the browser executes it is let go, recorded all the same by `_on_paused`, and
  printed among the writes captured and aborted.

Read in the code and the models while writing them, and not the subject of a run:

- `_breaker_verdict` (`cli.py:1579`) reads the breaker and the readability under two locks. A file
  unreadable at the first and readable at the second passes a write behind an open breaker, as far as
  its lookup; the claim is then refused. `BlockedRunsStaySilent` is therefore checked without disk
  faults.
- `BrowserClient._undeliverable` (`browser.py:154`) calls every error of a POST `OutcomeUnknown`, also
  when no supervisor could be started and nothing left. That is safe, and more cautious than it need be.
- A POST that fails after its flag (`cli.py:1512`) and before it leaves, in the pacer or for want of a
  supervisor, keeps its slot, though a claim is "given back only if nothing was sent" (`cli.py:1048`).
  The run reports an unknown outcome, so the count errs on the safe side; `OnlyTrafficIsCharged` names
  the case (`unsent`).
- `mark_all_read` does not look at its answer (`messaging.py:743`), so that a refusal in a 200 body is
  reported done. Modelled, in `Misread`.
- `posts._created_urns` (`posts.py:327`) takes any urn of a post in the answer for the one it made, and
  the `_created_urn` of `social.py:478` and `invitations.py:628` any urn where data names its value.
  With decorations in the answer it could be another's. Modelled, in `Misread`.
- `_flock` (`supervisor.py:1023`) can raise `OSError` out of `request`, which says that it never raises.
- `record_throttle` (`state.py:727`) sets `until` from the latest throttle alone. After one with a long
  `retry_after`, a second without can end the cooldown earlier. `main` passes none; see the hypothesis
  under What is proved.
- A success reported late clears the count of dead sessions that are newer than it (`cli.py:1460`),
  and so does a preview, for which nobody was asked; "Any successful call proves the session is alive"
  (`state.py:797`) holds of neither. `DeadSessionsArmBreaker` excludes them by `~wiped`; without it
  TLC finds a breaker left closed with three reads.
- `_park` and a full descriptor table: see Launch.

## Not modelled, and the plan

Not modelled: argument parsing beyond what a write refuses, output and its scrubbing, the projections
of answers (`graph.py`, `restli.py`, `render.py`, the reading half of `surfaces/`), the cookie
bootstrap, the identity of the page, the leak check. They keep no state that outlives a step, or are
matters of text, or run once in one process. In `state.py`, the memo of the member urn and the reports
over the ledger; a failed write of its file. A clock that steps back is left out of `Ledger`: it
breaks the meaning of every window. A pipe whose buffer is full is left out of `Channel`: requests are
small, and two calls that fail replace the browser.

Left to prove:

1. That runs inherit the ledger's theorems, stated for `Invocation`: pacing and cooldowns over runs,
   where the hypothesis on `retry_after` follows from what `main` passes.
2. `BlockedRunsAreSilent` on a disk that fails, for a run whose two readings find the file the same.
3. How many dead sessions a late success or a preview can wipe from the count.
4. The arms of `disarm`: which captured writes a report may name that were let go.
