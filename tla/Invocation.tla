---------------------------- MODULE Invocation ----------------------------
(***************************************************************************)
(* Runs of the CLI (linkedin_cli/cli.py) over the shared ledger.           *)
(*                                                                         *)
(* Every run is a process of its own: main asks the ledger whether the     *)
(* command may go out, the handler looks things up, claims a slot, paces   *)
(* itself and sends, the claim is settled, and main records what LinkedIn  *)
(* answered.  Each of those opens the ledger anew, so the runs interleave  *)
(* between any two of them, and any run may be killed anywhere.            *)
(*                                                                         *)
(* The ledger is Ledger.tla, with its methods called in this order only.   *)
(* LinkedIn is external: it answers a request in any of the classes        *)
(* transport.raise_for_status can tell apart.                              *)
(***************************************************************************)
EXTENDS Ledger

CONSTANTS
  Commands,    \* what the runs of a model are asked to do
  Answers,     \* the classes of answer LinkedIn gives in a model
  MaxRuns,     \* runs ever started
  Faulty       \* whether the disk fails in this model

\* The shapes of command main dispatches:
\*   read     one GET                       (feed, profile, notifications)
\*   write    claim, POST                   (react, comment, post create)
\*   lookup   GET, then claim, POST         (invite)
\*   reply    claim, GET, then perhaps POST (messages reply)
\*   send     GET, then as a reply          (messages send --to)
\*   undo     claim as a cleanup, POST      (unreact, post|comment delete)
\*   preview  any of them under --dry-run: no claim and no request
\*   doctor   exempt from the breaker; probes, and may clear the breaker
AllCommands == {"read", "write", "lookup", "reply", "send", "undo", "preview", "doctor"}

IsCleanup(c) == c = "undo"
IsWrite(c)   == c \in {"write", "lookup", "reply", "send", "undo", "preview"}
Exempt(c)    == c = "doctor"

AllAnswers == {"ok", "expired", "throttled", "blocked", "failed"}

ASSUME CommandsAssumption ==
  /\ Commands \subseteq AllCommands
  /\ Answers \subseteq AllAnswers
  /\ MaxRuns \in Nat
  /\ Faulty \in BOOLEAN

\* Runs may call every method of the ledger, and main passes no retry_after.
ASSUME CallsAssumption == Ops = OpGroups /\ 0 \in RetryAfters

VARIABLES
  pc,         \* where the run of p stands
  cmd,        \* what it was asked to do
  seen,       \* the open breaker _breaker_verdict read, under the first lock
  purpose,    \* what the request in hand is for
  attempted,  \* ctx.attempted_write
  outcome,    \* the result or the exception main ends with
  runs,       \* runs started
  \* History variables.
  sent,       \* claims whose POST reached the wire
  unsent,     \* claims whose POST failed between the flag and the page
  excused,    \* claims kept although nothing was posted: killed, deduped
  shut,       \* the breaker was open when the run of p began, and still is
  dead,       \* dead sessions reported since LinkedIn last answered properly
  outdated,   \* runs about to end on an answer that a later one contradicts
  wiped       \* a run ended well on an older answer than a dead session, or
              \* on none, and cleared the count

runVars   == <<pc, cmd, seen, purpose, attempted, outcome, runs>>
slots     == <<sent, unsent, excused>>
sessions  == <<dead, outdated, wiped>>
runGhosts == <<slots, shut, sessions>>
allVars   == <<vars, runVars, runGhosts>>

Points   == {"idle", "guard", "verdict", "clear", "claim", "post", "pace",
             "asleep", "wire", "settle", "report"}
Purposes == {"none", "get", "lookup", "confirm", "post", "probe"}

-----------------------------------------------------------------------------
Goto(p, point) == pc' = [pc EXCEPT ![p] = point]

\* A request is about to be made: it is paced first.
Request(p, why) ==
  /\ Goto(p, "pace")
  /\ purpose' = [purpose EXCEPT ![p] = why]

\* The run ends with this result or exception.
Conclude(p, point, result) ==
  /\ Goto(p, point)
  /\ outcome' = [outcome EXCEPT ![p] = result]

\* main, up to the guard.
Start(p, c) ==
  /\ pc[p] = "idle"
  /\ runs < MaxRuns
  /\ runs' = runs + 1
  /\ Goto(p, IF Exempt(c) THEN "clear" ELSE "guard")
  /\ cmd' = [cmd EXCEPT ![p] = c]
  /\ attempted' = [attempted EXCEPT ![p] = FALSE]
  /\ outcome' = [outcome EXCEPT ![p] = "none"]
  /\ purpose' = [purpose EXCEPT ![p] = "none"]
  /\ shut' = [shut EXCEPT ![p] = data.breaker # {}]
  /\ UNCHANGED <<vars, seen, slots, sessions>>

\* _breaker_verdict asks twice, under two locks: first breaker_state.
AskBreaker(p) ==
  /\ pc[p] = "guard"
  /\ LockFree
  /\ seen' = [seen EXCEPT ![p] = Read.breaker # {}]
  /\ Goto(p, "verdict")
  /\ UNCHANGED <<vars, cmd, purpose, attempted, outcome, runs, runGhosts>>

\* Bug: a breaker that was read is only a reason to refuse a write.
RefusedByGuardWritesOnly(p, reached) ==
  /\ IsWrite(cmd[p])
  /\ \/ ~reached \/ EnforcementView.lost # {}
     \/ ~IsCleanup(cmd[p]) /\ seen[p]

\* _guard_breaker, on the two answers, or on the exception a ledger that
\* cannot be reached raises.
RefusedByGuard(p, reached) ==
  IF reached /\ EnforcementView.lost = {} THEN ~IsCleanup(cmd[p]) /\ seen[p]
                                          ELSE IsWrite(cmd[p])

\* What a command that may go out begins with.
Dispatch(p) ==
  \/ cmd[p] = "read" /\ Request(p, "get") /\ UNCHANGED outcome
  \/ cmd[p] \in {"lookup", "send"} /\ Request(p, "lookup") /\ UNCHANGED outcome
  \/ cmd[p] \in {"write", "reply", "undo"} /\ Goto(p, "claim") /\ UNCHANGED <<purpose, outcome>>
  \/ cmd[p] = "preview" /\ Conclude(p, "report", "ok") /\ UNCHANGED purpose
  \/ cmd[p] = "preview" /\ Conclude(p, "idle", "ok") /\ UNCHANGED purpose  \* _DryRunStop

\* Then ledger_state()["readable"], and the decision.
AskReadable(p) ==
  /\ pc[p] = "verdict"
  /\ LockFree
  /\ \E reached \in BOOLEAN :
       /\ reached \/ Faulty
       /\ IF RefusedByGuard(p, reached)
          THEN Conclude(p, "idle", "refused") /\ UNCHANGED purpose
          ELSE Dispatch(p)
  /\ UNCHANGED <<vars, cmd, seen, attempted, runs, runGhosts>>

\* cmd_doctor: clear the breaker when asked to, then probe.
Doctor(p) ==
  /\ pc[p] = "clear"
  /\ \/ ClearBreaker /\ shut' = [q \in Procs |-> FALSE] /\ dead' = {}
     \/ UNCHANGED <<vars, shut, dead>>
  /\ Request(p, "probe")
  /\ UNCHANGED <<cmd, seen, attempted, outcome, runs, slots, outdated, wiped>>

-----------------------------------------------------------------------------
(* _write: claim, send, settle. *)

\* A refused claim is an exception of the ledger's: main records nothing.
Claim(p) ==
  /\ pc[p] = "claim"
  /\ \/ /\ \E k \in Kinds : ClaimWrite(p, k, IsCleanup(cmd[p]))
        /\ IF cmd[p] \in {"reply", "send"} THEN Request(p, "confirm")
                                           ELSE Goto(p, "post") /\ UNCHANGED purpose
        /\ UNCHANGED outcome
     \/ /\ LockFree
        /\ \E k \in Kinds : ~ClaimAllowed(k, IsCleanup(cmd[p]))
        /\ Conclude(p, "idle", "refused")
        /\ UNCHANGED <<vars, purpose>>
  /\ UNCHANGED <<cmd, seen, attempted, runs, runGhosts>>

\* Bug: the exception leaves _write without its finally.
RejectLocallyUnsettled(p) ==
  /\ pc[p] = "post" /\ cmd[p] \notin {"reply", "send"}
  /\ Conclude(p, "report", "refused")
  /\ UNCHANGED <<vars, cmd, seen, purpose, attempted, runs, runGhosts>>

\* An argument the surface rejects locally, before any request.
RejectLocally(p) ==
  /\ pc[p] = "post" /\ cmd[p] \notin {"reply", "send"}
  /\ Conclude(p, "settle", "refused")
  /\ UNCHANGED <<vars, cmd, seen, purpose, attempted, runs, runGhosts>>

\* Bug: the flag is set when the answer arrives, not when the request begins.
BeginPostUnflagged(p) ==
  /\ pc[p] = "post"
  /\ Request(p, "post")
  /\ UNCHANGED <<vars, cmd, seen, attempted, outcome, runs, runGhosts>>

\* _WriteWatch.post: flag the attempt, then let the client pace and send.
BeginPost(p) ==
  /\ pc[p] = "post"
  /\ attempted' = [attempted EXCEPT ![p] = TRUE]
  /\ Request(p, "post")
  /\ UNCHANGED <<vars, cmd, seen, outcome, runs, runGhosts>>

\* BrowserClient._pace.
Pace(p) ==
  /\ pc[p] = "pace"
  /\ \E i \in Intervals :
       \/ TakeSlot(p, i)   /\ Goto(p, "wire")
       \/ StartSleep(p, i) /\ Goto(p, "asleep")
  /\ UNCHANGED <<cmd, seen, purpose, attempted, outcome, runs, runGhosts>>

Wake(p) ==
  /\ pc[p] = "asleep"
  /\ WakeWithSlot(p)
  /\ Goto(p, "wire")
  /\ UNCHANGED <<cmd, seen, purpose, attempted, outcome, runs, runGhosts>>

\* What the answer to the request in hand makes of the run.
Answered(p, answer) ==
  \/ /\ purpose[p] = "get"
     /\ Conclude(p, "report", answer) /\ UNCHANGED <<attempted, excused>>
  \/ /\ purpose[p] = "probe"            \* cmd_doctor reports, it does not fail
     /\ Conclude(p, "idle", "ok") /\ UNCHANGED <<attempted, excused>>
  \/ /\ purpose[p] = "lookup"
     /\ IF answer = "ok" THEN Conclude(p, "claim", "none")
                         ELSE Conclude(p, "report", answer)
     /\ UNCHANGED <<attempted, excused>>
  \/ /\ purpose[p] = "confirm" /\ answer = "ok"
     /\ Conclude(p, "post", "none") /\ UNCHANGED <<attempted, excused>>
  \/ /\ purpose[p] = "confirm" /\ answer = "ok"      \* already_sent found it
     /\ Conclude(p, "settle", "ok")
     /\ attempted' = [attempted EXCEPT ![p] = TRUE]
     /\ excused' = excused \cup claim[p]
  \/ /\ purpose[p] \in {"confirm", "post"} /\ (purpose[p] = "post" \/ answer # "ok")
     /\ Conclude(p, "settle", answer) /\ UNCHANGED <<attempted, excused>>

\* The runs that are about to end on this.
Ending(answer) == {q \in Procs : pc[q] \in {"settle", "report"} /\ outcome[q] = answer}

\* The order in which LinkedIn gave the answers that end runs: a proper one ends
\* the count of dead sessions, and it and a dead session outdate each other.
Told(p) ==
  LET ends(answer) == pc'[p] \in {"settle", "report"} /\ outcome'[p] = answer IN
  /\ dead' = IF ends("ok") THEN {} ELSE dead
  /\ outdated' = CASE ends("ok")      -> outdated \cup Ending("expired")
                   [] ends("expired") -> outdated \cup Ending("ok")
                   [] OTHER           -> outdated

\* BrowserClient._request: the request leaves, and is answered or given up on.
Exchange(p) ==
  /\ pc[p] = "wire"
  /\ sent' = IF purpose[p] = "post" THEN sent \cup claim[p] ELSE sent
  /\ \E answer \in Answers : Answered(p, answer)
  /\ Told(p)
  /\ UNCHANGED <<vars, cmd, seen, purpose, runs, unsent, shut, wiped>>

\* It never leaves: wait_for_slot raises, or no supervisor can be reached.
Undelivered(p) ==
  /\ pc[p] \in {"pace", "wire"}
  /\ unsent' = IF purpose[p] = "post" THEN unsent \cup claim[p] ELSE unsent
  /\ Answered(p, "failed")
  /\ UNCHANGED <<vars, cmd, seen, purpose, runs, sent, shut, sessions>>

\* Bug: the slot is kept whether or not anything was attempted.
SettleAlwaysCommits(p) ==
  /\ pc[p] = "settle"
  /\ CommitClaim(p)
  /\ Goto(p, "report")
  /\ UNCHANGED <<cmd, seen, purpose, attempted, outcome, runs, runGhosts>>

\* The finally of _write.
Settle(p) ==
  /\ pc[p] = "settle"
  /\ IF attempted[p] THEN CommitClaim(p) ELSE ReleaseClaim(p)
  /\ Goto(p, "report")
  /\ UNCHANGED <<cmd, seen, purpose, attempted, outcome, runs, runGhosts>>

-----------------------------------------------------------------------------
(* The end of main. *)

\* Whether LinkedIn was asked anything in this run.
Asked(p) == purpose[p] # "none"

\* What the run reports of dead sessions, next to what LinkedIn has said since.
Remember(p) ==
  /\ dead' = IF outcome[p] = "expired" /\ p \notin outdated
             THEN dead \cup {[id |-> entries, at |-> now]} ELSE dead
  /\ wiped' = (wiped \/ (outcome[p] = "ok" /\ (p \in outdated \/ ~Asked(p)) /\ dead # {}))
  /\ outdated' = outdated \ {p}

\* Bug: a dead session is reported and not counted.
ReportForgetsToCount(p) ==
  /\ pc[p] = "report"
  /\ CASE outcome[p] = "ok"        -> ClearSessionFailures
       [] outcome[p] = "throttled" -> RecordThrottle(0)
       [] outcome[p] = "blocked"   -> TripBreaker
       [] OTHER                    -> UNCHANGED vars
  /\ Remember(p)
  /\ Goto(p, "idle")
  /\ UNCHANGED <<cmd, seen, purpose, attempted, outcome, runs, slots, shut>>

Report(p) ==
  /\ pc[p] = "report"
  /\ CASE outcome[p] = "ok"        -> ClearSessionFailures
       [] outcome[p] = "expired"   -> CountSessionFailure
       [] outcome[p] = "throttled" -> RecordThrottle(0)
       [] outcome[p] = "blocked"   -> TripBreaker
       [] OTHER                    -> UNCHANGED vars
  /\ Remember(p)
  /\ Goto(p, "idle")
  /\ UNCHANGED <<cmd, seen, purpose, attempted, outcome, runs, slots, shut>>

-----------------------------------------------------------------------------
\* The process is killed: nothing is settled and nothing is recorded.
KillRun(p) ==
  /\ pc[p] # "idle"
  /\ Kill(p)
  /\ Goto(p, "idle")
  /\ excused' = excused \cup claim[p]
  /\ outdated' = outdated \ {p}
  /\ UNCHANGED <<cmd, seen, purpose, attempted, outcome, runs, sent, unsent, shut, dead, wiped>>

Elsewhere ==
  /\ Tick \/ (Faulty /\ DiskFault)
  /\ UNCHANGED <<runVars, runGhosts>>

RunInit ==
  /\ Init
  /\ pc = [p \in Procs |-> "idle"]
  /\ cmd = [p \in Procs |-> "read"]
  /\ seen = [p \in Procs |-> FALSE]
  /\ purpose = [p \in Procs |-> "none"]
  /\ attempted = [p \in Procs |-> FALSE]
  /\ outcome = [p \in Procs |-> "none"]
  /\ runs = 0
  /\ sent = {} /\ unsent = {} /\ excused = {}
  /\ dead = {} /\ outdated = {} /\ wiped = FALSE
  /\ shut = [p \in Procs |-> FALSE]

\* What a run does next by itself.
Run(p) ==
  \/ AskBreaker(p) \/ AskReadable(p) \/ Doctor(p)
  \/ Claim(p) \/ RejectLocally(p) \/ BeginPost(p)
  \/ Pace(p) \/ Wake(p) \/ Exchange(p) \/ Settle(p) \/ Report(p)

RunNext ==
  \/ Elsewhere
  \/ \E p \in Procs : \E c \in Commands : Start(p, c)
  \/ \E p \in Procs : Run(p) \/ Undelivered(p) \/ KillRun(p)

RunSpec == RunInit /\ [][RunNext]_allVars

\* The operating system schedules every process, flock is granted in the end,
\* the supervisor answers or gives up in RESPONSE_TIMEOUT, and a sleep ends.
\* Where the bound MaxTime has stopped the clock, a sleep still runs down.
SleepPastHorizon ==
  /\ now = MaxTime /\ sleeping # {}
  /\ sleeping' = {[s EXCEPT !.left = IF @ = 0 THEN 0 ELSE @ - 1] : s \in sleeping}
  /\ UNCHANGED <<now, file, claim, entries, ghost, runVars, runGhosts>>

Passing == Elsewhere \/ SleepPastHorizon

FairSpec ==
  /\ RunInit /\ [][RunNext \/ SleepPastHorizon]_allVars
  /\ WF_allVars(Passing)
  /\ \A p \in Procs : WF_allVars(Run(p))

-----------------------------------------------------------------------------
(* Properties. *)

\* A run that has claimed and not settled.
Claiming(p) ==
  \/ pc[p] \in {"post", "settle"}
  \/ pc[p] \in {"pace", "asleep", "wire"} /\ purpose[p] \in {"confirm", "post"}

\* Every variable holds a value of its type.
RunsTypeOK ==
  /\ TypeOK
  /\ pc \in [Procs -> Points] /\ cmd \in [Procs -> AllCommands]
  /\ seen \in [Procs -> BOOLEAN] /\ purpose \in [Procs -> Purposes]
  /\ attempted \in [Procs -> BOOLEAN]
  /\ outcome \in [Procs -> AllAnswers \cup {"none", "refused"}]
  /\ runs \in Nat
  /\ sent \subseteq Row /\ unsent \subseteq Row /\ excused \subseteq Row
  /\ shut \in [Procs -> BOOLEAN]
  /\ dead \subseteq Stamp /\ outdated \subseteq Procs /\ wiped \in BOOLEAN

\* Every variable holds a value of its type, and only a run that has claimed
\* and not settled holds a claim: none leaves _write with one.
RunTypeOK ==
  /\ RunsTypeOK
  /\ \A p \in Procs : claim[p] # {} => Claiming(p)

\* A slot whose POST may have left is never given back, wherever the run is
\* refused, answered badly or killed (_write, _WriteWatch.post).
SentIsBooked == sent \subseteq booked

\* So the daily cap bounds what this client really sent, undos aside.
SentWithinCap ==
  \A k \in Kinds : Cardinality(Booked(sent, k, FALSE, now - DAY)) <= DailyCap[k]

\* And nothing else is charged.  A booked slot is in use, or was sent; what was
\* not sent is charged in three cases only: the run was killed, the reply was
\* there already, or the POST failed after it was flagged and before it left,
\* which the run reports as an unknown outcome.  A refusal on the way to the
\* POST costs nothing (_write, WriteClaim.release).
OnlyTrafficIsCharged ==
  booked \subseteq sent \cup unsent \cup excused \cup UNION {claim[p] : p \in Procs}

\* A run that began behind an open breaker asks LinkedIn nothing, whatever
\* the other runs do meanwhile, unless it is an undo or a doctor.
BlockedRunsStaySilent ==
  \A p \in Procs :
    shut[p] /\ cmd[p] \notin {"undo", "doctor"} => pc[p] \notin {"pace", "asleep", "wire"}

\* FAILURE_LIMIT dead sessions reported inside the window, with no proper answer
\* of LinkedIn after them, leave the breaker open (count_session_failure), in
\* whatever order the runs report what they were answered; unless a run has
\* cleared the count on an older answer, or on none at all, as a preview does.
DeadSessionsArmBreaker ==
  ~wiped /\ Cardinality({s \in dead : now - s.at < FAILURE_WINDOW}) >= FAILURE_LIMIT
    => data.breaker # {}

\* Every run ends, though others sleep with the lock in hand or die with it.
RunsEnd == \A p \in Procs : pc[p] # "idle" ~> pc[p] = "idle"
=============================================================================
