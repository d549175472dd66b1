-------------------------- MODULE InvocationProofs --------------------------
(***************************************************************************)
(* What holds of the runs of the CLI for every value of the constants:     *)
(* they use the ledger only through its methods, so that its theorems hold *)
(* of them, and what they sent is booked, so that its caps bound what was  *)
(* really sent.  Nothing else is charged; a run that meets an open breaker *)
(* stays silent; and dead sessions open it.                                *)
(*                                                                         *)
(* BookInv and ChargeInv follow one claim through its run (Owes says where *)
(* it is to be given back).  SilentInv and ArmInv are about several runs   *)
(* and the file between their steps: the breaker a run has met stays in    *)
(* the file, and so does every dead session that still counts, because a   *)
(* run that ends on the latest proper answer finds none of them (Leads).   *)
(***************************************************************************)
EXTENDS Invocation, LedgerProofs

-----------------------------------------------------------------------------
(* Runs and the ledger. *)

\* Every step of a run is a call of one of State's methods, something that
\* happens around them, or leaves the ledger alone.
LEMMA RunStepIsLedgerStep == [RunNext]_allVars => [Next]_vars
<1> SUFFICES ASSUME [RunNext]_allVars PROVE [Next]_vars
  OBVIOUS
<1>u. \A op \in OpGroups : Uses(op)
  BY CallsAssumption DEF Uses
<1>1. CASE Elsewhere
  BY <1>1, <1>u DEF Elsewhere, Next, Shared, OpGroups
<1>2. ASSUME NEW p \in Procs, NEW c \in Commands, Start(p, c) PROVE [Next]_vars
  BY <1>2 DEF Start
<1>3. ASSUME NEW p \in Procs, AskBreaker(p) \/ AskReadable(p) PROVE [Next]_vars
  BY <1>3 DEF AskBreaker, AskReadable
<1>4. ASSUME NEW p \in Procs, Doctor(p) PROVE [Next]_vars
  BY <1>4, <1>u DEF Doctor, Next, Shared, OpGroups
<1>5. ASSUME NEW p \in Procs, Claim(p) PROVE [Next]_vars
  <2>1. ASSUME NEW k \in Kinds, NEW c \in BOOLEAN, ClaimWrite(p, k, c) PROVE Next
    BY <2>1, <1>u DEF Next, Step, OpGroups
  <2>2. IsCleanup(cmd[p]) \in BOOLEAN
    BY DEF IsCleanup
  <2> QED BY <1>5, <2>1, <2>2 DEF Claim
<1>6. ASSUME NEW p \in Procs, RejectLocally(p) \/ BeginPost(p) \/ Exchange(p) \/ Undelivered(p)
      PROVE  [Next]_vars
  BY <1>6 DEF RejectLocally, BeginPost, Exchange, Undelivered
<1>7. ASSUME NEW p \in Procs, Pace(p) PROVE [Next]_vars
  BY <1>7, <1>u DEF Pace, Next, Step, OpGroups
<1>8. ASSUME NEW p \in Procs, Wake(p) PROVE [Next]_vars
  BY <1>8 DEF Wake, Next, Step
<1>9. ASSUME NEW p \in Procs, Settle(p) PROVE [Next]_vars
  BY <1>9 DEF Settle, Next, Step
<1>10. ASSUME NEW p \in Procs, Report(p) PROVE [Next]_vars
  <2>1. \/ ClearSessionFailures \/ CountSessionFailure \/ RecordThrottle(0)
        \/ TripBreaker \/ UNCHANGED vars
    BY <1>10 DEF Report
  <2> QED BY <2>1, <1>u, CallsAssumption DEF Next, Shared, OpGroups
<1>11. ASSUME NEW p \in Procs, KillRun(p) PROVE [Next]_vars
  BY <1>11, <1>u DEF KillRun, Next, Step, OpGroups
<1>12. CASE UNCHANGED allVars
  BY <1>12 DEF allVars
<1> QED
  BY <1>1, <1>2, <1>3, <1>4, <1>5, <1>6, <1>7, <1>8, <1>9, <1>10, <1>11, <1>12
  DEF RunNext, Run

\* The runs implement the ledger, so whatever was proved of it holds of them.
THEOREM RunsUseTheLedger == RunSpec => Spec
<1>1. RunInit => Init
  BY DEF RunInit
<1> QED BY <1>1, RunStepIsLedgerStep, PTL DEF RunSpec, Spec
-----------------------------------------------------------------------------
(* What was sent is booked. *)

\* Between the claim and the settlement a run holds its claim, and nowhere else.
HoldsNoClaim(p) ==
  \/ pc[p] \in {"idle", "guard", "verdict", "clear", "claim", "report"}
  \/ pc[p] \in {"pace", "asleep", "wire"} /\ purpose[p] \notin {"confirm", "post"}

\* The POST is in hand: it was flagged before it was paced.
Posting(p) == pc[p] \in {"pace", "asleep", "wire"} /\ purpose[p] = "post"

RunTypes ==
  /\ pc \in [Procs -> Points] /\ purpose \in [Procs -> Purposes]
  /\ attempted \in [Procs -> BOOLEAN]

\* The inductive strengthening of SentIsBooked.
BookInv ==
  /\ HistoryInv /\ RunTypes
  /\ sent \subseteq booked
  /\ \A r \in booked : r.id < entries
  /\ \A p \in Procs :
       /\ claim[p] \subseteq booked
       /\ HoldsNoClaim(p) => claim[p] = {}
       /\ Posting(p) => attempted[p]
       /\ \A c \in claim[p] : c \in sent => attempted[p]

\* No step of a run leaves a sent slot to be given back: the flag is up before
\* the request begins, and a release needs it down.
LEMMA BookStep == BookInv /\ [RunNext]_allVars => BookInv'
<1> SUFFICES ASSUME BookInv, [RunNext]_allVars PROVE BookInv'
  OBVIOUS
<1>h. HistoryInv'
  BY RunStepIsLedgerStep, HistoryStep DEF BookInv
<1>t. /\ RunTypes /\ sent \subseteq booked /\ entries \in Nat /\ booked \subseteq Row
      /\ claim \in [Procs -> SUBSET Row] /\ ClaimsDistinct
      /\ \A r \in booked : r.id < entries
  BY DEF BookInv, HistoryInv, TypeOK
<1>i. \A p \in Procs : /\ claim[p] \subseteq booked
                       /\ HoldsNoClaim(p) => claim[p] = {}
                       /\ Posting(p) => attempted[p]
                       /\ \A c \in claim[p] : c \in sent => attempted[p]
  BY DEF BookInv
<1> USE DEF Points, Purposes, RunTypes, HoldsNoClaim, Posting
\* A step that leaves the claims, the bookings and the flags alone.
<1>q. ASSUME NEW p \in Procs, UNCHANGED <<claim, booked, sent, attempted>>,
             entries <= entries', entries' \in Nat,
             NEW point \in Points, pc' = [pc EXCEPT ![p] = point],
             NEW why \in Purposes, purpose' = [purpose EXCEPT ![p] = why],
             HoldsNoClaim(p)' => claim[p] = {}, Posting(p)' => attempted[p]
      PROVE  BookInv'
  <2>1. \A r \in booked' : r.id < entries'
    BY <1>q, <1>t DEF Row
  <2> QED BY <1>q, <1>t, <1>i, <1>h, <2>1 DEF BookInv
<1>1. CASE Elsewhere
  BY <1>1, <1>t, <1>i, <1>h DEF Elsewhere, Tick, DiskFault, ghost, runVars, runGhosts, slots, BookInv
<1>2. ASSUME NEW p \in Procs, NEW c \in Commands, Start(p, c) PROVE BookInv'
  <2>1. claim[p] = {}
    BY <1>2, <1>i DEF Start
  <2> QED BY <1>2, <2>1, <1>t, <1>i, <1>h DEF Start, Goto, vars, ghost, slots, BookInv
<1>3. ASSUME NEW p \in Procs, AskBreaker(p) PROVE BookInv'
  BY <1>3, <1>t, <1>i, <1>h DEF AskBreaker, Goto, vars, ghost, runGhosts, slots, BookInv
<1>4. ASSUME NEW p \in Procs, AskReadable(p) PROVE BookInv'
  <2>1. claim[p] = {} /\ UNCHANGED <<claim, booked, sent, attempted, entries>>
    BY <1>4, <1>i DEF AskReadable, vars, ghost, runGhosts, slots
  <2>2. \/ /\ \E point \in Points \ {"pace", "asleep", "wire"} : pc' = [pc EXCEPT ![p] = point]
           /\ purpose' = purpose
        \/ \E why \in {"get", "lookup"} :
             /\ pc' = [pc EXCEPT ![p] = "pace"]
             /\ purpose' = [purpose EXCEPT ![p] = why]
    BY <1>4 DEF AskReadable, Dispatch, Goto, Conclude, Request, Points
  <2> QED BY <2>1, <2>2, <1>t, <1>i, <1>h DEF BookInv
<1>5. ASSUME NEW p \in Procs, Doctor(p) PROVE BookInv'
  <2>1. claim[p] = {} /\ UNCHANGED <<claim, booked, sent, attempted, entries>>
    BY <1>5, <1>i DEF Doctor, ClearBreaker, vars, ghost, slots
  <2>2. pc' = [pc EXCEPT ![p] = "pace"] /\ purpose' = [purpose EXCEPT ![p] = "probe"]
    BY <1>5 DEF Doctor, Request, Goto
  <2> QED BY <2>1, <2>2, <1>t, <1>i, <1>h DEF BookInv
<1>6. ASSUME NEW p \in Procs, Claim(p) PROVE BookInv'
  <2>1. claim[p] = {} /\ UNCHANGED <<attempted, sent>>
    BY <1>6, <1>i DEF Claim, runGhosts, slots
  <2>2. ASSUME NEW k \in Kinds, ClaimWrite(p, k, IsCleanup(cmd[p])),
               IF cmd[p] \in {"reply", "send"} THEN Request(p, "confirm")
                                             ELSE Goto(p, "post") /\ UNCHANGED purpose
        PROVE BookInv'
    <3> DEFINE row == NewRow(k, IsCleanup(cmd[p]))
    <3>1. /\ claim' = [claim EXCEPT ![p] = {row}] /\ booked' = booked \cup {row}
          /\ entries' = entries + 1 /\ row.id = entries
      BY <2>2 DEF ClaimWrite, NewRow
    <3>2. \/ pc' = [pc EXCEPT ![p] = "pace"] /\ purpose' = [purpose EXCEPT ![p] = "confirm"]
          \/ pc' = [pc EXCEPT ![p] = "post"] /\ purpose' = purpose
      BY <2>2 DEF Request, Goto
    <3> HIDE DEF row
    <3>3. row \notin sent
      BY <3>1, <1>t
    <3>4. \A r \in booked' : r.id < entries'
      BY <3>1, <1>t DEF Row
    <3>5. \A q \in Procs : /\ claim'[q] \subseteq booked'
                           /\ \A c \in claim'[q] : c \in sent' => attempted'[q]
      BY <3>1, <3>3, <2>1, <1>t, <1>i
    <3>6. \A q \in Procs : (HoldsNoClaim(q)' => claim'[q] = {}) /\ (Posting(q)' => attempted'[q])
      BY <3>1, <3>2, <2>1, <1>t, <1>i
    <3>7. RunTypes' /\ sent' \subseteq booked'
      BY <3>1, <3>2, <2>1, <1>t
    <3> HIDE DEF HoldsNoClaim, Posting, RunTypes
    <3> QED BY <3>4, <3>5, <3>6, <3>7, <1>h DEF BookInv
  <2>3. ASSUME Conclude(p, "idle", "refused"), UNCHANGED <<vars, purpose>> PROVE BookInv'
    BY <2>1, <2>3, <1>t, <1>i, <1>h DEF Conclude, Goto, vars, ghost, BookInv
  <2> QED BY <1>6, <2>2, <2>3 DEF Claim
<1>7. ASSUME NEW p \in Procs, RejectLocally(p) PROVE BookInv'
  BY <1>7, <1>t, <1>i, <1>h DEF RejectLocally, Conclude, Goto, vars, ghost, runGhosts, slots, BookInv
<1>8. ASSUME NEW p \in Procs, BeginPost(p) PROVE BookInv'
  BY <1>8, <1>t, <1>i, <1>h DEF BeginPost, Request, Goto, vars, ghost, runGhosts, slots, BookInv
<1>9. ASSUME NEW p \in Procs, Pace(p) \/ Wake(p) PROVE BookInv'
  <2>1. /\ UNCHANGED <<claim, booked, entries, purpose, attempted, sent>>
        /\ pc[p] \in {"pace", "asleep"}
        /\ \E point \in {"asleep", "wire"} : pc' = [pc EXCEPT ![p] = point]
    BY <1>9 DEF Pace, Wake, TakeSlot, StartSleep, WakeWithSlot, Goto, ghost, runGhosts, slots
  <2> QED BY <2>1, <1>t, <1>i, <1>h DEF BookInv
<1>10. ASSUME NEW p \in Procs, Exchange(p) \/ Undelivered(p) PROVE BookInv'
  <2>1. /\ pc[p] \in {"pace", "wire"} /\ UNCHANGED <<claim, booked, entries, purpose>>
        /\ sent' \in {sent, IF purpose[p] = "post" THEN sent \cup claim[p] ELSE sent}
    BY <1>10 DEF Exchange, Undelivered, vars, ghost
  <2>2. PICK answer : Answered(p, answer)
    BY <1>10 DEF Exchange, Undelivered
  <2>3. PICK point \in {"report", "idle", "claim", "post", "settle"} :
          /\ pc' = [pc EXCEPT ![p] = point]
          /\ point \in {"report", "idle", "claim"} => purpose[p] \in {"get", "probe", "lookup"}
    BY <2>2 DEF Answered, Conclude, Goto
  <2>8. attempted' \in {attempted, [attempted EXCEPT ![p] = TRUE]}
    BY <2>2 DEF Answered
  <2>4. \A q \in Procs \ {p} : claim[q] \cap claim[p] = {}
    BY <1>t DEF ClaimsDistinct
  <2>5. \A q \in Procs : \A c \in claim'[q] : c \in sent' => attempted'[q]
    BY <2>1, <2>4, <2>8, <1>t, <1>i
  <2>6. \A q \in Procs : (HoldsNoClaim(q)' => claim'[q] = {}) /\ (Posting(q)' => attempted'[q])
    <3>1. \A q \in Procs \ {p} : pc'[q] = pc[q] /\ attempted'[q] = attempted[q]
      BY <2>3, <2>8, <1>t
    <3>2. pc'[p] = point /\ purpose' = purpose /\ claim' = claim
      BY <2>1, <2>3, <1>t
    <3> QED BY <3>1, <3>2, <2>1, <2>3, <1>i
  <2>7. RunTypes' /\ sent' \subseteq booked'
    <3>1. attempted' \in [Procs -> BOOLEAN]
      BY <2>8, <1>t
    <3>2. pc' \in [Procs -> Points] /\ purpose' \in [Procs -> Purposes]
      BY <2>1, <2>3, <1>t
    <3>3. sent' \subseteq booked'
      BY <2>1, <1>t, <1>i
    <3> QED BY <3>1, <3>2, <3>3
  <2> HIDE DEF HoldsNoClaim, Posting, RunTypes
  <2> QED BY <2>1, <2>5, <2>6, <2>7, <1>t, <1>i, <1>h DEF BookInv
<1>11. ASSUME NEW p \in Procs, Settle(p) PROVE BookInv'
  <2>1. /\ pc' = [pc EXCEPT ![p] = "report"] /\ UNCHANGED <<purpose, attempted, sent>>
        /\ claim' = [claim EXCEPT ![p] = {}] /\ entries' = entries
    BY <1>11 DEF Settle, Goto, CommitClaim, ReleaseClaim, runGhosts, slots
  <2>2. /\ booked' \subseteq booked /\ \A c \in booked \ booked' : c \in claim[p] /\ ~attempted[p]
    BY <1>11 DEF Settle, CommitClaim, ReleaseClaim, ghost
  <2>3. sent' \subseteq booked'
    BY <2>1, <2>2, <1>t, <1>i
  <2>4. \A q \in Procs : claim'[q] \subseteq booked'
    BY <2>1, <2>2, <1>t, <1>i DEF ClaimsDistinct
  <2>5. \A q \in Procs : /\ HoldsNoClaim(q)' => claim'[q] = {}
                         /\ Posting(q)' => attempted'[q]
                         /\ \A c \in claim'[q] : c \in sent' => attempted'[q]
    BY <2>1, <1>t, <1>i
  <2> QED BY <2>1, <2>2, <2>3, <2>4, <2>5, <1>t, <1>h DEF BookInv
<1>12. ASSUME NEW p \in Procs, Report(p) PROVE BookInv'
  <2>1. \/ ClearSessionFailures \/ CountSessionFailure \/ RecordThrottle(0)
        \/ TripBreaker \/ UNCHANGED vars
    BY <1>12 DEF Report
  <2>2. UNCHANGED <<claim, booked>> /\ entries' \in {entries, entries + 1}
    BY <2>1 DEF ClearSessionFailures, CountSessionFailure, RecordThrottle, TripBreaker,
       vars, ghost
  <2>3. /\ pc[p] = "report" /\ pc' = [pc EXCEPT ![p] = "idle"]
        /\ UNCHANGED <<purpose, attempted, sent>>
    BY <1>12 DEF Report, Goto, slots
  <2>4. \A r \in booked' : r.id < entries'
    BY <2>2, <1>t DEF Row
  <2> QED BY <2>2, <2>3, <2>4, <1>t, <1>i, <1>h DEF BookInv
<1>13. ASSUME NEW p \in Procs, KillRun(p) PROVE BookInv'
  <2>1. /\ pc' = [pc EXCEPT ![p] = "idle"] /\ claim' = [claim EXCEPT ![p] = {}]
        /\ UNCHANGED <<booked, entries, purpose, attempted, sent>>
    BY <1>13 DEF KillRun, Kill, Goto, ghost
  <2> QED BY <2>1, <1>t, <1>i, <1>h DEF BookInv
<1>14. CASE UNCHANGED allVars
  BY <1>14, <1>t, <1>i, <1>h DEF allVars, vars, ghost, runVars, runGhosts, slots, BookInv
<1> QED
  BY <1>1, <1>2, <1>3, <1>4, <1>5, <1>6, <1>7, <1>8, <1>9, <1>10, <1>11, <1>12, <1>13, <1>14
  DEF RunNext, Run

LEMMA BookInit == RunInit => BookInv
<1>1. RunInit => HistoryInv
  BY HistoryInit DEF RunInit
<1> QED BY <1>1 DEF RunInit, Init, BookInv, RunTypes, Points, Purposes, HoldsNoClaim, Posting

\* A slot whose POST may have left is never given back, wherever the run is
\* refused, answered badly or killed (_write, _WriteWatch.post).
THEOREM SentStaysBooked == RunSpec => []SentIsBooked
<1>1. BookInv => SentIsBooked
  BY DEF BookInv, SentIsBooked
<1> QED BY <1>1, BookInit, BookStep, PTL DEF RunSpec

\* So the daily cap bounds what this client sends in any 24h (DAILY_CAPS).
THEOREM SentIsCapped == RunSpec => []SentWithinCap
<1>1. CapInv /\ SentIsBooked => SentWithinCap
  <2> SUFFICES ASSUME CapInv, SentIsBooked, NEW k \in Kinds
               PROVE  Cardinality(Booked(sent, k, FALSE, now - DAY)) <= DailyCap[k]
    BY DEF SentWithinCap
  <2>1. booked \in SUBSET Row /\ IsFiniteSet(booked) /\ now \in Nat
    BY DEF CapInv, HistoryInv, TypeOK, Finite
  <2>2. sent \in SUBSET booked
    BY DEF SentIsBooked
  <2>3. now - DAY \in Int /\ now - DAY <= now - DAY
    BY <2>1, WindowsAssumption
  <2>4. DailyCap[k] \in Int
    BY LimitsAssumption
  <2>5. Cardinality(Booked(booked, k, FALSE, now - DAY)) <= DailyCap[k]
    BY DEF CapInv, DailyCapHolds
  <2> QED BY <2>1, <2>2, <2>3, <2>4, <2>5, BookedShrinks
<1> QED BY <1>1, RunsUseTheLedger, SentStaysBooked, CapInvariant, PTL

-----------------------------------------------------------------------------
(* Types. *)

RunOutcomes == AllAnswers \cup {"none", "refused"}

\* A run's own variables.
OwnTypes ==
  /\ pc \in [Procs -> Points] /\ cmd \in [Procs -> AllCommands]
  /\ seen \in [Procs -> BOOLEAN] /\ purpose \in [Procs -> Purposes]
  /\ attempted \in [Procs -> BOOLEAN]
  /\ outcome \in [Procs -> RunOutcomes]
  /\ runs \in Nat

\* What one step of the run of p may do to them.
OwnStep(p) ==
  /\ \E point \in Points : pc' = [pc EXCEPT ![p] = point]
  /\ cmd' = cmd \/ \E c \in AllCommands : cmd' = [cmd EXCEPT ![p] = c]
  /\ seen' = seen \/ \E b \in BOOLEAN : seen' = [seen EXCEPT ![p] = b]
  /\ purpose' = purpose \/ \E why \in Purposes : purpose' = [purpose EXCEPT ![p] = why]
  /\ attempted' = attempted \/ \E b \in BOOLEAN : attempted' = [attempted EXCEPT ![p] = b]
  /\ outcome' = outcome \/ \E o \in RunOutcomes : outcome' = [outcome EXCEPT ![p] = o]
  /\ runs' \in {runs, runs + 1}

LEMMA OwnStepTyped ==
  ASSUME OwnTypes, NEW p \in Procs, OwnStep(p) PROVE OwnTypes'
<1>1. seen' \in [Procs -> BOOLEAN]
  BY DEF OwnTypes, OwnStep
<1>2. attempted' \in [Procs -> BOOLEAN]
  BY DEF OwnTypes, OwnStep
<1>3. pc' \in [Procs -> Points] /\ cmd' \in [Procs -> AllCommands]
  BY DEF OwnTypes, OwnStep
<1>4. purpose' \in [Procs -> Purposes] /\ outcome' \in [Procs -> RunOutcomes] /\ runs' \in Nat
  BY DEF OwnTypes, OwnStep
<1> QED BY <1>1, <1>2, <1>3, <1>4 DEF OwnTypes

\* A step of the run of p is that.
LEMMA RunIsOwn ==
  ASSUME NEW p \in Procs,
         (\E c \in Commands : Start(p, c)) \/ Run(p) \/ Undelivered(p) \/ KillRun(p)
  PROVE  OwnStep(p)
<1> USE DEF Points, Purposes, RunOutcomes, AllAnswers, OwnStep, Goto
<1>1. ASSUME NEW c \in Commands, Start(p, c) PROVE OwnStep(p)
  <2>1. cmd' = [cmd EXCEPT ![p] = c] /\ c \in AllCommands
    BY <1>1, CommandsAssumption DEF Start
  <2>2. /\ \E point \in Points : pc' = [pc EXCEPT ![p] = point]
        /\ purpose' = [purpose EXCEPT ![p] = "none"]
        /\ outcome' = [outcome EXCEPT ![p] = "none"]
        /\ runs' = runs + 1 /\ seen' = seen
    BY <1>1 DEF Start
  <2>3. attempted' = [attempted EXCEPT ![p] = FALSE]
    BY <1>1 DEF Start
  <2> QED BY <2>1, <2>2, <2>3
<1>2. ASSUME AskBreaker(p) PROVE OwnStep(p)
  <2> DEFINE open == Read.breaker # {}
  <2>1. open \in BOOLEAN /\ seen' = [seen EXCEPT ![p] = open]
    BY <1>2 DEF AskBreaker
  <2>2. pc' = [pc EXCEPT ![p] = "verdict"] /\ UNCHANGED <<cmd, purpose, attempted, outcome, runs>>
    BY <1>2 DEF AskBreaker
  <2> HIDE DEF open
  <2>3. \E b \in BOOLEAN : seen' = [seen EXCEPT ![p] = b]
    BY <2>1
  <2> QED BY <2>2, <2>3
<1>3. ASSUME AskReadable(p) PROVE OwnStep(p)
  BY <1>3 DEF AskReadable, Dispatch, Conclude, Request
<1>4. ASSUME Doctor(p) PROVE OwnStep(p)
  BY <1>4 DEF Doctor, Request
<1>5. ASSUME Claim(p) PROVE OwnStep(p)
  BY <1>5 DEF Claim, Request, Conclude
<1>6. ASSUME RejectLocally(p) PROVE OwnStep(p)
  BY <1>6 DEF RejectLocally, Conclude
<1>7. ASSUME BeginPost(p) PROVE OwnStep(p)
  BY <1>7 DEF BeginPost, Request
<1>8. ASSUME Pace(p) \/ Wake(p) PROVE OwnStep(p)
  BY <1>8 DEF Pace, Wake
<1>9. ASSUME Exchange(p) \/ Undelivered(p) PROVE OwnStep(p)
  <2>1. UNCHANGED <<cmd, seen, purpose, runs>>
    BY <1>9 DEF Exchange, Undelivered
  <2>2. PICK answer \in AllAnswers : Answered(p, answer)
    BY <1>9, CommandsAssumption DEF Exchange, Undelivered
  <2>3. /\ \E point \in Points : pc' = [pc EXCEPT ![p] = point]
        /\ \E o \in RunOutcomes : outcome' = [outcome EXCEPT ![p] = o]
    BY <2>2 DEF Answered, Conclude
  <2>4. attempted' = attempted \/ attempted' = [attempted EXCEPT ![p] = TRUE]
    BY <2>2 DEF Answered
  <2> QED BY <2>1, <2>3, <2>4
<1>10. ASSUME Settle(p) \/ Report(p) \/ KillRun(p) PROVE OwnStep(p)
  BY <1>10 DEF Settle, Report, KillRun
<1> QED BY <1>1, <1>2, <1>3, <1>4, <1>5, <1>6, <1>7, <1>8, <1>9, <1>10 DEF Run

\* Every step is the world's or one run's.
LEMMA StepsAreOwn ==
  ASSUME [RunNext]_allVars PROVE UNCHANGED runVars \/ \E p \in Procs : OwnStep(p)
BY RunIsOwn DEF RunNext, Elsewhere, allVars

\* The history variables of the runs.
GhostTypes ==
  /\ sent \subseteq Row /\ unsent \subseteq Row /\ excused \subseteq Row
  /\ shut \in [Procs -> BOOLEAN]
  /\ dead \subseteq Stamp /\ outdated \subseteq Procs /\ wiped \in BOOLEAN

LEMMA GhostsTyped ==
  ASSUME TypeOK, RunsTypeOK, [RunNext]_allVars
  PROVE  GhostTypes'
<1>t. /\ sent \subseteq Row /\ unsent \subseteq Row /\ excused \subseteq Row
      /\ dead \subseteq Stamp /\ outdated \subseteq Procs
      /\ claim \in [Procs -> SUBSET Row] /\ now \in Nat /\ entries \in Nat
  BY DEF RunsTypeOK, TypeOK
<1>b. shut \in [Procs -> BOOLEAN] /\ wiped \in BOOLEAN
  BY DEF RunsTypeOK
<1>s. [id |-> entries, at |-> now] \in Stamp
  BY <1>t DEF Stamp
<1> USE DEF runGhosts, slots, sessions, GhostTypes
<1>1. ASSUME UNCHANGED runGhosts PROVE GhostTypes'
  BY <1>1, <1>t, <1>b
<1>2. ASSUME NEW p \in Procs, NEW c \in Commands, Start(p, c) PROVE GhostTypes'
  <2> DEFINE open == data.breaker # {}
  <2>1. open \in BOOLEAN /\ shut' = [shut EXCEPT ![p] = open]
    BY <1>2 DEF Start
  <2> HIDE DEF open
  <2>2. shut' \in [Procs -> BOOLEAN]
    BY <2>1, <1>b
  <2> QED BY <2>2, <1>2, <1>t, <1>b DEF Start
<1>3. ASSUME NEW p \in Procs, AskBreaker(p) \/ AskReadable(p) \/ Claim(p) \/ RejectLocally(p)
               \/ BeginPost(p) \/ Pace(p) \/ Wake(p) \/ Settle(p)
      PROVE  GhostTypes'
  <2>1. UNCHANGED runGhosts
    BY <1>3 DEF AskBreaker, AskReadable, Claim, RejectLocally, BeginPost, Pace, Wake, Settle
  <2> QED BY <1>1, <2>1
<1>4. ASSUME NEW p \in Procs, Doctor(p) PROVE GhostTypes'
  <2>1. /\ UNCHANGED <<slots, outdated, wiped>> /\ dead' \subseteq dead
        /\ shut' = shut \/ shut' = [q \in Procs |-> FALSE]
    BY <1>4 DEF Doctor
  <2>2. shut' \in [Procs -> BOOLEAN]
    BY <2>1, <1>b
  <2> QED BY <2>1, <2>2, <1>t, <1>b
<1>5. ASSUME NEW p \in Procs, Exchange(p) \/ Undelivered(p) PROVE GhostTypes'
  <2>1. /\ sent' \subseteq sent \cup claim[p] /\ unsent' \subseteq unsent \cup claim[p]
        /\ UNCHANGED <<shut, wiped>>
    BY <1>5 DEF Exchange, Undelivered
  <2>2. dead' \in {{}, dead} /\ outdated' \in SUBSET Procs
    BY <1>5, <1>t DEF Exchange, Undelivered, Told, Ending
  <2>3. PICK answer : Answered(p, answer)
    BY <1>5 DEF Exchange, Undelivered
  <2>4. excused' = excused \/ excused' = excused \cup claim[p]
    BY <2>3 DEF Answered
  <2> QED BY <2>1, <2>2, <2>4, <1>t, <1>b
<1>6. ASSUME NEW p \in Procs, Report(p) PROVE GhostTypes'
  <2>1. UNCHANGED <<slots, shut>> /\ Remember(p)
    BY <1>6 DEF Report
  <2>2. /\ dead' \in {dead, dead \cup {[id |-> entries, at |-> now]}}
        /\ outdated' \subseteq outdated
    BY <2>1 DEF Remember
  <2>3. wiped' \in BOOLEAN
    BY <2>1 DEF Remember
  <2> QED BY <2>1, <2>2, <2>3, <1>t, <1>b, <1>s
<1>7. ASSUME NEW p \in Procs, KillRun(p) PROVE GhostTypes'
  <2>1. /\ UNCHANGED <<sent, unsent, shut, dead, wiped>>
        /\ excused' = excused \cup claim[p] /\ outdated' \subseteq outdated
    BY <1>7 DEF KillRun
  <2> QED BY <2>1, <1>t, <1>b
<1>8. CASE Elsewhere \/ UNCHANGED allVars
  <2>1. UNCHANGED runGhosts
    BY <1>8 DEF Elsewhere, allVars
  <2> QED BY <1>1, <2>1
<1> QED
  BY <1>2, <1>3, <1>4, <1>5, <1>6, <1>7, <1>8 DEF RunNext, Run

LEMMA RunTypeStep == RunsTypeOK /\ [RunNext]_allVars => RunsTypeOK'
<1> SUFFICES ASSUME RunsTypeOK, [RunNext]_allVars PROVE RunsTypeOK'
  OBVIOUS
<1>1. TypeOK /\ TypeOK'
  BY RunStepIsLedgerStep, TypeStep DEF RunsTypeOK
<1>2. OwnTypes
  BY DEF RunsTypeOK, OwnTypes, RunOutcomes
<1>3. OwnTypes'
  <2>1. CASE UNCHANGED runVars
    BY <1>2, <2>1 DEF OwnTypes, runVars
  <2> QED BY <1>2, <2>1, StepsAreOwn, OwnStepTyped
<1>4. GhostTypes'
  BY <1>1, GhostsTyped
<1> QED BY <1>1, <1>3, <1>4 DEF RunsTypeOK, OwnTypes, GhostTypes, RunOutcomes

LEMMA RunTypeInit == RunInit => RunsTypeOK
<1>1. Init => TypeOK
  BY DEF Init, TypeOK, EmptyDict, Dict
<1>2. RunInit => OwnTypes /\ GhostTypes
  <2>1. RunInit => wiped \in BOOLEAN
    BY DEF RunInit
  <2>2. RunInit => shut \in [Procs -> BOOLEAN] /\ seen \in [Procs -> BOOLEAN]
                   /\ attempted \in [Procs -> BOOLEAN]
    BY DEF RunInit
  <2>3. RunInit => /\ sent \subseteq Row /\ unsent \subseteq Row /\ excused \subseteq Row
                   /\ dead \subseteq Stamp /\ outdated \subseteq Procs
    BY DEF RunInit
  <2>4. RunInit => /\ pc \in [Procs -> Points] /\ cmd \in [Procs -> AllCommands]
                   /\ purpose \in [Procs -> Purposes] /\ outcome \in [Procs -> RunOutcomes]
                   /\ runs \in Nat
    BY DEF RunInit, RunOutcomes, Points, AllCommands, Purposes
  <2> QED BY <2>1, <2>2, <2>3, <2>4 DEF OwnTypes, GhostTypes
<1> QED BY <1>1, <1>2 DEF RunInit, RunsTypeOK, OwnTypes, GhostTypes, RunOutcomes

\* The variables of the runs keep their types, and so does the ledger they use;
\* and no run is outside _write with a claim in hand.
THEOREM RunsTyped == RunSpec => []RunTypeOK
<1>1. RunsTypeOK /\ BookInv => RunTypeOK
  <2> SUFFICES ASSUME RunsTypeOK, BookInv, NEW p \in Procs, ~Claiming(p) PROVE claim[p] = {}
    BY DEF RunTypeOK
  <2>1. pc[p] \in Points
    BY DEF RunsTypeOK
  <2>2. HoldsNoClaim(p)
    BY <2>1 DEF Claiming, HoldsNoClaim, Points
  <2> QED BY <2>2 DEF BookInv
<1> QED BY <1>1, RunTypeInit, RunTypeStep, BookInit, BookStep, PTL DEF RunSpec

-----------------------------------------------------------------------------
(* Nothing else is charged. *)

\* One claim at a time; the flag goes up with the POST, and a run that comes
\* to settle with the flag up has sent its claim, failed to, or been excused.
Owes(p) ==
  /\ \A c, e \in claim[p] : c = e
  /\ attempted[p] => pc[p] \in {"idle", "settle", "report"} \/ Posting(p)
  /\ pc[p] = "settle" /\ attempted[p] => claim[p] \subseteq sent \cup unsent \cup excused

\* The inductive strengthening of OnlyTrafficIsCharged.
ChargeInv == BookInv /\ OnlyTrafficIsCharged /\ \A p \in Procs : Owes(p)

\* The slot a run gives up is given back, was sent, or is excused.
LEMMA ChargeStep == ChargeInv /\ [RunNext]_allVars => ChargeInv'
<1> SUFFICES ASSUME ChargeInv, [RunNext]_allVars PROVE ChargeInv'
  OBVIOUS
<1>h. BookInv'
  BY BookStep DEF ChargeInv
<1>t. /\ pc \in [Procs -> Points] /\ purpose \in [Procs -> Purposes]
      /\ claim \in [Procs -> SUBSET Row]
  BY DEF ChargeInv, BookInv, RunTypes, HistoryInv, TypeOK
<1>b. attempted \in [Procs -> BOOLEAN]
  BY DEF ChargeInv, BookInv, RunTypes
<1>i. /\ \A r \in booked : r \in sent \cup unsent \cup excused \/ \E p \in Procs : r \in claim[p]
      /\ \A p \in Procs : Owes(p)
  BY DEF ChargeInv, OnlyTrafficIsCharged
<1> USE DEF slots
\* The others owe what they owed, and p answers for what it held.
<1>q. ASSUME NEW p \in Procs,
             \A q \in Procs \ {p} : /\ pc'[q] = pc[q] /\ purpose'[q] = purpose[q]
                                    /\ attempted'[q] = attempted[q] /\ claim'[q] = claim[q],
             sent \subseteq sent', unsent \subseteq unsent', excused \subseteq excused',
             \A r \in booked' : r \in booked \/ r \in claim'[p],
             \A r \in claim[p] : r \in booked' => r \in claim'[p] \cup sent' \cup unsent' \cup excused',
             Owes(p)'
      PROVE  ChargeInv'
  <2>1. ASSUME NEW q \in Procs \ {p} PROVE Owes(q)'
    <3>1. Owes(q)
      BY <1>i
    <3> QED BY <1>q, <2>1, <3>1 DEF Owes, Posting
  <2>2. \A q \in Procs : Owes(q)'
    BY <1>q, <2>1
  <2>3. ASSUME NEW r \in booked'
        PROVE  r \in sent' \cup unsent' \cup excused' \/ \E q \in Procs : r \in claim'[q]
    BY <1>q, <1>i, <2>3
  <2>4. OnlyTrafficIsCharged'
    BY <2>3 DEF OnlyTrafficIsCharged
  <2> QED BY <1>h, <2>2, <2>4 DEF ChargeInv
\* A step between two requests, with the flag down.
<1>d. ASSUME NEW p \in Procs, UNCHANGED <<claim, booked, slots, attempted>>,
             \E point \in Points : pc' = [pc EXCEPT ![p] = point],
             purpose' = purpose \/ \E why \in Purposes : purpose' = [purpose EXCEPT ![p] = why],
             pc[p] \notin {"idle", "settle", "report"}, ~Posting(p)
      PROVE  ChargeInv'
  <2>1. \A q \in Procs \ {p} : pc'[q] = pc[q] /\ purpose'[q] = purpose[q]
    BY <1>d, <1>t
  <2>2. \A c, e \in claim[p] : c = e
    BY <1>i DEF Owes
  <2>3. ~attempted[p]
    BY <1>d, <1>i DEF Owes
  <2>4. Owes(p)'
    BY <1>d, <2>2, <2>3 DEF Owes
  <2> QED BY <1>q, <1>d, <2>1, <2>4
\* A world's step.
<1>1. CASE Elsewhere \/ UNCHANGED allVars
  <2>1. UNCHANGED <<pc, purpose, attempted, claim, booked, slots>>
    BY <1>1 DEF Elsewhere, Tick, DiskFault, ghost, runVars, runGhosts, allVars, vars
  <2>2. \A p \in Procs : Owes(p)'
    BY <2>1, <1>i DEF Owes, Posting
  <2>3. OnlyTrafficIsCharged'
    BY <2>1, <1>i DEF OnlyTrafficIsCharged
  <2> QED BY <1>h, <2>2, <2>3 DEF ChargeInv
<1>2. ASSUME NEW p \in Procs, NEW c \in Commands, Start(p, c) PROVE ChargeInv'
  <2>1. /\ UNCHANGED <<claim, booked, slots>>
        /\ \E point \in Points : pc' = [pc EXCEPT ![p] = point]
        /\ purpose' = [purpose EXCEPT ![p] = "none"]
    BY <1>2 DEF Start, Goto, vars, ghost, Points
  <2>2. attempted' = [attempted EXCEPT ![p] = FALSE]
    BY <1>2 DEF Start
  <2>3. ~attempted'[p] /\ \A q \in Procs \ {p} : attempted'[q] = attempted[q]
    BY <2>2, <1>b
  <2>4. \A q \in Procs \ {p} : pc'[q] = pc[q] /\ purpose'[q] = purpose[q]
    BY <2>1, <1>t
  <2>5. \A a, e \in claim[p] : a = e
    BY <1>i DEF Owes
  <2>6. Owes(p)'
    BY <2>1, <2>3, <2>5 DEF Owes
  <2> QED BY <1>q, <2>1, <2>3, <2>4, <2>6
<1>3. ASSUME NEW p \in Procs, AskBreaker(p) \/ AskReadable(p) \/ Doctor(p) PROVE ChargeInv'
  <2>1. UNCHANGED <<claim, booked, slots, attempted>>
    BY <1>3 DEF AskBreaker, AskReadable, Doctor, ClearBreaker, vars, ghost, runGhosts
  <2>2. /\ pc[p] \in {"guard", "verdict", "clear"}
        /\ \E point \in Points : pc' = [pc EXCEPT ![p] = point]
        /\ purpose' = purpose \/ \E why \in Purposes : purpose' = [purpose EXCEPT ![p] = why]
    BY <1>3 DEF AskBreaker, AskReadable, Dispatch, Doctor, Goto, Conclude, Request, Points, Purposes
  <2> QED BY <1>d, <2>1, <2>2 DEF Posting
<1>4. ASSUME NEW p \in Procs, Claim(p) PROVE ChargeInv'
  <2>1. pc[p] = "claim" /\ UNCHANGED <<attempted, slots>>
    BY <1>4 DEF Claim, runGhosts
  <2>2. /\ \E point \in Points : pc' = [pc EXCEPT ![p] = point]
        /\ purpose' = purpose \/ \E why \in Purposes : purpose' = [purpose EXCEPT ![p] = why]
    BY <1>4 DEF Claim, Goto, Conclude, Request, Points, Purposes
  <2>3. ~attempted[p]
    BY <2>1, <1>i DEF Owes, Posting
  <2>4. \A q \in Procs \ {p} : pc'[q] = pc[q] /\ purpose'[q] = purpose[q]
    BY <2>2, <1>t
  <2>5. CASE UNCHANGED vars
    BY <1>d, <2>1, <2>2, <2>5 DEF vars, ghost, Posting
  <2>6. ASSUME NEW k \in Kinds, ClaimWrite(p, k, IsCleanup(cmd[p])) PROVE ChargeInv'
    <3> DEFINE row == NewRow(k, IsCleanup(cmd[p]))
    <3>1. claim' = [claim EXCEPT ![p] = {row}] /\ booked' = booked \cup {row} /\ claim[p] = {}
      BY <2>6 DEF ClaimWrite
    <3> HIDE DEF row
    <3>2. claim'[p] = {row} /\ \A q \in Procs \ {p} : claim'[q] = claim[q]
      BY <3>1, <1>t
    <3>3. Owes(p)'
      BY <3>2, <2>1, <2>3 DEF Owes
    <3> QED BY <1>q, <2>1, <2>4, <3>1, <3>2, <3>3
  <2> QED BY <1>4, <2>5, <2>6 DEF Claim
<1>5. ASSUME NEW p \in Procs, RejectLocally(p) PROVE ChargeInv'
  <2>1. UNCHANGED <<claim, booked, slots, attempted>>
    BY <1>5 DEF RejectLocally, vars, ghost, runGhosts
  <2>2. /\ pc[p] = "post" /\ purpose' = purpose
        /\ \E point \in Points : pc' = [pc EXCEPT ![p] = point]
    BY <1>5 DEF RejectLocally, Conclude, Goto, Points
  <2> QED BY <1>d, <2>1, <2>2 DEF Posting
<1>6. ASSUME NEW p \in Procs, BeginPost(p) PROVE ChargeInv'
  <2>1. /\ UNCHANGED <<claim, booked, slots>>
        /\ pc' = [pc EXCEPT ![p] = "pace"] /\ purpose' = [purpose EXCEPT ![p] = "post"]
    BY <1>6 DEF BeginPost, Request, Goto, vars, ghost, runGhosts
  <2>2. attempted' = [attempted EXCEPT ![p] = TRUE]
    BY <1>6 DEF BeginPost
  <2>3. \A q \in Procs \ {p} : attempted'[q] = attempted[q]
    BY <2>2, <1>b
  <2>4. /\ pc'[p] = "pace" /\ purpose'[p] = "post"
        /\ \A q \in Procs \ {p} : pc'[q] = pc[q] /\ purpose'[q] = purpose[q]
    BY <2>1, <1>t
  <2>5. \A c, e \in claim[p] : c = e
    BY <1>i DEF Owes
  <2>6. Owes(p)'
    BY <2>1, <2>4, <2>5 DEF Owes, Posting
  <2> QED BY <1>q, <2>1, <2>3, <2>4, <2>6
<1>7. ASSUME NEW p \in Procs, Pace(p) \/ Wake(p) PROVE ChargeInv'
  <2>1. UNCHANGED <<claim, booked, slots, purpose, attempted>>
    BY <1>7 DEF Pace, Wake, TakeSlot, StartSleep, WakeWithSlot, ghost, runGhosts
  <2>2. /\ pc[p] \in {"pace", "asleep"}
        /\ \E point \in {"asleep", "wire"} : pc' = [pc EXCEPT ![p] = point]
    BY <1>7 DEF Pace, Wake, Goto
  <2>3. pc'[p] \in {"asleep", "wire"} /\ \A q \in Procs \ {p} : pc'[q] = pc[q]
    BY <2>2, <1>t
  <2>4. Owes(p)
    BY <1>i
  <2>5. Owes(p)'
    BY <2>1, <2>2, <2>3, <2>4 DEF Owes, Posting
  <2> QED BY <1>q, <2>1, <2>3, <2>5
<1>8. ASSUME NEW p \in Procs, Exchange(p) \/ Undelivered(p) PROVE ChargeInv'
  <2>1. /\ pc[p] \in {"pace", "wire"} /\ UNCHANGED <<claim, booked, purpose>>
        /\ sent \subseteq sent' /\ unsent \subseteq unsent'
        /\ purpose[p] = "post" => claim[p] \subseteq sent' \cup unsent'
    BY <1>8 DEF Exchange, Undelivered, vars, ghost
  <2>2. PICK answer : Answered(p, answer)
    BY <1>8 DEF Exchange, Undelivered
  <2>3. /\ \E point \in Points : pc' = [pc EXCEPT ![p] = point]
        /\ excused' \in {excused, excused \cup claim[p]}
        /\ attempted' \in {attempted, [attempted EXCEPT ![p] = TRUE]}
    BY <2>2 DEF Answered, Conclude, Goto, Points
  <2>4. \A q \in Procs \ {p} : pc'[q] = pc[q] /\ attempted'[q] = attempted[q]
    BY <2>3, <1>t, <1>b
  <2>5. \A c, e \in claim[p] : c = e
    BY <1>i DEF Owes
  <2>6. attempted[p] => purpose[p] = "post"
    BY <2>1, <1>i DEF Owes, Posting
  <2>7. Owes(p)'
    <3>1. CASE purpose[p] = "post"
      <4>1. pc' = [pc EXCEPT ![p] = "settle"] /\ claim[p] \subseteq sent' \cup unsent'
        BY <2>1, <2>2, <3>1 DEF Answered, Conclude, Goto
      <4>2. pc'[p] = "settle"
        BY <4>1, <1>t
      <4> QED BY <2>1, <2>5, <4>1, <4>2 DEF Owes
    <3>2. CASE purpose[p] # "post" /\ attempted' = attempted
      <4>1. ~attempted'[p]
        BY <3>2, <2>6
      <4> QED BY <2>1, <2>5, <4>1 DEF Owes
    <3>3. CASE purpose[p] # "post" /\ attempted' # attempted
      <4>1. pc' = [pc EXCEPT ![p] = "settle"] /\ excused' = excused \cup claim[p]
        BY <2>2, <3>3 DEF Answered, Conclude, Goto
      <4>2. pc'[p] = "settle"
        BY <4>1, <1>t
      <4> QED BY <2>1, <2>5, <4>1, <4>2 DEF Owes
    <3> QED BY <3>1, <3>2, <3>3
  <2>8. sent \subseteq sent' /\ excused \subseteq excused'
    BY <2>1, <2>3
  <2> QED BY <1>q, <2>1, <2>4, <2>7, <2>8
<1>9. ASSUME NEW p \in Procs, Settle(p) PROVE ChargeInv'
  <2>1. /\ pc[p] = "settle" /\ pc' = [pc EXCEPT ![p] = "report"]
        /\ UNCHANGED <<purpose, attempted, slots>>
        /\ claim' = [claim EXCEPT ![p] = {}]
    BY <1>9 DEF Settle, Goto, CommitClaim, ReleaseClaim, runGhosts
  <2>2. /\ pc'[p] = "report" /\ claim'[p] = {}
        /\ \A q \in Procs \ {p} : pc'[q] = pc[q] /\ claim'[q] = claim[q]
    BY <2>1, <1>t
  <2>3. Owes(p)'
    BY <2>2 DEF Owes
  <2>4. Owes(p)
    BY <1>i
  <2>5. CASE attempted[p]
    <3>1. booked' = booked /\ claim[p] \subseteq sent \cup unsent \cup excused
      BY <1>9, <2>1, <2>4, <2>5 DEF Settle, CommitClaim, ghost, Owes
    <3> QED BY <1>q, <2>1, <2>2, <2>3, <3>1
  <2>6. CASE ~attempted[p]
    <3>1. PICK c \in claim[p] : booked' = booked \ {c}
      BY <1>9, <2>6 DEF Settle, ReleaseClaim
    <3>2. \A r \in claim[p] : r \notin booked'
      BY <3>1, <2>4 DEF Owes
    <3> QED BY <1>q, <2>1, <2>2, <2>3, <3>1, <3>2
  <2> QED BY <2>5, <2>6
<1>10. ASSUME NEW p \in Procs, Report(p) PROVE ChargeInv'
  <2>1. \/ ClearSessionFailures \/ CountSessionFailure \/ RecordThrottle(0)
        \/ TripBreaker \/ UNCHANGED vars
    BY <1>10 DEF Report
  <2>2. UNCHANGED <<claim, booked>>
    BY <2>1 DEF ClearSessionFailures, CountSessionFailure, RecordThrottle, TripBreaker,
       vars, ghost
  <2>3. /\ pc' = [pc EXCEPT ![p] = "idle"]
        /\ UNCHANGED <<purpose, attempted, slots>>
    BY <1>10 DEF Report, Goto
  <2>4. pc'[p] = "idle" /\ \A q \in Procs \ {p} : pc'[q] = pc[q]
    BY <2>3, <1>t
  <2>5. \A c, e \in claim[p] : c = e
    BY <1>i DEF Owes
  <2>6. Owes(p)'
    BY <2>2, <2>4, <2>5 DEF Owes
  <2> QED BY <1>q, <2>2, <2>3, <2>4, <2>6
<1>11. ASSUME NEW p \in Procs, KillRun(p) PROVE ChargeInv'
  <2>1. /\ pc' = [pc EXCEPT ![p] = "idle"] /\ claim' = [claim EXCEPT ![p] = {}]
        /\ UNCHANGED <<booked, purpose, attempted, sent, unsent>> /\ excused' = excused \cup claim[p]
    BY <1>11 DEF KillRun, Kill, Goto, ghost
  <2>2. /\ pc'[p] = "idle" /\ claim'[p] = {}
        /\ \A q \in Procs \ {p} : pc'[q] = pc[q] /\ claim'[q] = claim[q]
    BY <2>1, <1>t
  <2>3. Owes(p)'
    BY <2>2 DEF Owes
  <2> QED BY <1>q, <2>1, <2>2, <2>3
<1> QED
  BY <1>1, <1>2, <1>3, <1>4, <1>5, <1>6, <1>7, <1>8, <1>9, <1>10, <1>11 DEF RunNext, Run

\* A slot that is charged is in use, was sent, failed between the flag and the
\* page, or was kept for a killed run or a deduped reply (_write, _WriteWatch,
\* WriteClaim.release, AlreadySent).
THEOREM NothingElseIsCharged == RunSpec => []OnlyTrafficIsCharged
<1>1. RunInit => ChargeInv
  BY BookInit DEF RunInit, Init, ChargeInv, Owes, OnlyTrafficIsCharged
<1>2. ChargeInv => OnlyTrafficIsCharged
  BY DEF ChargeInv
<1> QED BY <1>1, <1>2, ChargeStep, PTL DEF RunSpec

-----------------------------------------------------------------------------
(* While the file can be read. *)

\* No history is missing, and a sleeper holds what the file says.
Healthy == data.lost = {} /\ \A s \in sleeping : s.view = data

\* The methods of State that neither close the breaker nor touch the list of
\* session failures, and what happens around them while the disk holds.
Steady ==
  \/ Tick \/ TripBreaker \/ UNCHANGED vars
  \/ \E retry \in RetryAfters : RecordThrottle(retry)
  \/ \E p \in Procs :
       \/ \E k \in Kinds, c \in BOOLEAN : ClaimWrite(p, k, c)
       \/ CommitClaim(p) \/ ReleaseClaim(p) \/ WakeWithSlot(p) \/ Kill(p)
       \/ \E i \in Intervals : TakeSlot(p, i) \/ StartSleep(p, i)

Plain == DiskFault \/ Steady

\* On a file that stays readable only its own method closes the breaker, and
\* only the two methods of session failures touch their list.
LEMMA HealthyStep ==
  ASSUME TypeOK, Healthy, readable, readable',
         Plain \/ ClearBreaker \/ ClearSessionFailures \/ CountSessionFailure
  PROVE  /\ Healthy'
         /\ Plain => data.breaker \subseteq data'.breaker /\ data'.failures = data.failures
         /\ ClearSessionFailures \/ CountSessionFailure => data.breaker \subseteq data'.breaker
         /\ ClearBreaker => data'.failures = data.failures
<1>r. Read = data /\ data \in Dict /\ data.lost = {} /\ \A s \in sleeping : s.view = data
  BY DEF Read, Healthy, TypeOK
<1>p. \A d \in Dict :
        /\ Pruned(d, now).breaker = d.breaker /\ Pruned(d, now).failures = d.failures
        /\ d.lost = {} => Pruned(d, now).lost = {}
  BY DEF Pruned, PrunedLost, Dict
<1>v. /\ EnforcementView \in Dict /\ EnforcementView.lost = {}
      /\ EnforcementView.breaker = data.breaker /\ EnforcementView.failures = data.failures
  BY <1>r, <1>p, PrunedTyped DEF EnforcementView, TypeOK
<1>s. /\ Slotted(data).breaker = data.breaker /\ Slotted(data).failures = data.failures
      /\ Slotted(data).lost = {}
  <2>1. [data EXCEPT !.slot = {now}] \in Dict
    BY <1>r DEF Dict, TypeOK
  <2>2. /\ [data EXCEPT !.slot = {now}].breaker = data.breaker
        /\ [data EXCEPT !.slot = {now}].failures = data.failures
        /\ [data EXCEPT !.slot = {now}].lost = {}
    BY <1>r DEF Dict
  <2> QED BY <2>1, <2>2, <1>p DEF Slotted
<1>1. ASSUME NEW p \in Procs, NEW k \in Kinds, NEW c \in BOOLEAN, ClaimWrite(p, k, c)
      PROVE  /\ data'.lost = {} /\ data'.breaker = data.breaker /\ data'.failures = data.failures
             /\ sleeping' = {}
  BY <1>1, <1>v DEF ClaimWrite, LockFree, Put, Dict
<1>2. ASSUME NEW p \in Procs, CommitClaim(p) \/ Kill(p)
      PROVE  data' = data /\ sleeping' \subseteq sleeping
  BY <1>2 DEF CommitClaim, Kill, file
<1>3. ASSUME NEW p \in Procs, ReleaseClaim(p)
      PROVE  /\ data'.lost = {} /\ data'.breaker = data.breaker /\ data'.failures = data.failures
             /\ sleeping' = {}
  <2>1. sleeping' = {} /\ (data' = data \/ \E r : data' = [data EXCEPT !.rows = @ \ {r}])
    BY <1>3, <1>r DEF ReleaseClaim, LockFree, Put, file
  <2> QED BY <2>1, <1>r DEF Dict
<1>4. ASSUME NEW p \in Procs, NEW i \in Intervals, TakeSlot(p, i)
      PROVE  data' = Slotted(data) /\ sleeping' = {}
  BY <1>4, <1>r DEF TakeSlot, LockFree, Put
<1>5. ASSUME NEW p \in Procs, NEW i \in Intervals, StartSleep(p, i)
      PROVE  data' = data /\ \A s \in sleeping' : s.view = data
  BY <1>5, <1>r DEF StartSleep, file
<1>6. ASSUME NEW p \in Procs, WakeWithSlot(p)
      PROVE  data' = Slotted(data) /\ sleeping' = {}
  BY <1>6, <1>r DEF WakeWithSlot, Put
<1>7. ASSUME NEW retry \in RetryAfters, RecordThrottle(retry)
      PROVE  /\ data'.lost = {} /\ data'.breaker = data.breaker /\ data'.failures = data.failures
             /\ sleeping' = {}
  <2>1. PICK h : data' = Pruned([data EXCEPT !.throttle = {h}], now)
    BY <1>7, <1>r DEF RecordThrottle, Put
  <2>2. sleeping' = {}
    BY <1>7 DEF RecordThrottle, LockFree
  <2>3. Pruned([data EXCEPT !.throttle = {h}], now).lost = PrunedLost([data EXCEPT !.throttle = {h}], now)
    BY <1>r DEF Pruned, Dict
  <2>4. PrunedLost([data EXCEPT !.throttle = {h}], now) = {}
    BY <1>r DEF PrunedLost, Dict
  <2> QED BY <2>1, <2>2, <2>3, <2>4, <1>r DEF Pruned, Dict
<1>8. ASSUME TripBreaker
      PROVE  /\ data'.lost = {} /\ data.breaker \subseteq data'.breaker
             /\ data'.failures = data.failures /\ sleeping' = {}
  <2>1. sleeping' = {} /\ data' = IF data.breaker = {} THEN [data EXCEPT !.breaker = {now}] ELSE data
    BY <1>8, <1>r DEF TripBreaker, LockFree, Put, file
  <2> QED BY <2>1, <1>r DEF Dict
<1>9. ASSUME ClearBreaker
      PROVE  data'.lost = {} /\ data'.failures = data.failures /\ sleeping' = {}
  <2>1. sleeping' = {} /\ data' = IF data.breaker # {} THEN [data EXCEPT !.breaker = {}] ELSE data
    BY <1>9, <1>r DEF ClearBreaker, LockFree, Put, file
  <2> QED BY <2>1, <1>r DEF Dict
<1>10. ASSUME CountSessionFailure
       PROVE  data'.lost = {} /\ data.breaker \subseteq data'.breaker /\ sleeping' = {}
  <2>1. /\ sleeping' = {}
        /\ \E B : /\ data' = [data EXCEPT !.failures = FailuresNow, !.breaker = B]
                 /\ B = IF Cardinality(FailuresNow) >= FAILURE_LIMIT /\ data.breaker = {}
                        THEN {now} ELSE data.breaker
    BY <1>10, <1>r DEF CountSessionFailure, LockFree, Put, Dict
  <2> QED BY <2>1, <1>r DEF Dict
<1>11. ASSUME ClearSessionFailures
       PROVE  data'.lost = {} /\ data'.breaker = data.breaker /\ sleeping' = {}
  <2>1. sleeping' = {} /\ (data' = data \/ data' = [data EXCEPT !.failures = {}])
    BY <1>11, <1>r DEF ClearSessionFailures, LockFree, Put, file
  <2> QED BY <2>1, <1>r DEF Dict
<1>12. ~DiskFault
  BY DEF DiskFault, ReadsFail, ReadsRecover
<1>13. ASSUME Tick PROVE data' = data /\ \A s \in sleeping' : s.view = data
  <2>1. data' = data /\ \A s \in sleeping' : \E u \in sleeping : s.view = u.view
    BY <1>13 DEF Tick, file, TypeOK
  <2> QED BY <2>1, <1>r
<1>14. ASSUME UNCHANGED vars PROVE data' = data /\ sleeping' = sleeping
  BY <1>14 DEF vars, file
<1>a. ASSUME Plain
      PROVE  /\ data'.lost = {} /\ data.breaker \subseteq data'.breaker
             /\ data'.failures = data.failures /\ \A s \in sleeping' : s.view = data'
  BY <1>a, <1>1, <1>2, <1>3, <1>4, <1>5, <1>6, <1>7, <1>8, <1>12, <1>13, <1>14, <1>r, <1>s DEF Plain, Steady
<1> QED BY <1>a, <1>9, <1>10, <1>11 DEF Healthy

\* What a step of the runs calls.
LEMMA RunCalls ==
  /\ \A p \in Procs : \A c \in Commands : Start(p, c) => Steady
  /\ \A p \in Procs : AskBreaker(p) \/ AskReadable(p) => Steady
  /\ \A p \in Procs : Claim(p) \/ RejectLocally(p) \/ BeginPost(p) => Steady
  /\ \A p \in Procs : Exchange(p) \/ Undelivered(p) => Steady
  /\ \A p \in Procs : Pace(p) \/ Wake(p) \/ Settle(p) \/ KillRun(p) => Steady
  /\ \A p \in Procs : Doctor(p) => Steady \/ ClearBreaker
  /\ \A p \in Procs : Report(p) => Steady \/ ClearSessionFailures \/ CountSessionFailure
  /\ Elsewhere \/ UNCHANGED allVars => Steady \/ (Faulty /\ DiskFault)
<1>0. ASSUME UNCHANGED vars PROVE Steady
  BY <1>0 DEF Steady
<1>1. ASSUME NEW p \in Procs, NEW c \in Commands, Start(p, c) PROVE Steady
  BY <1>1, <1>0 DEF Start
<1>2. ASSUME NEW p \in Procs, AskBreaker(p) \/ AskReadable(p) PROVE Steady
  BY <1>2, <1>0 DEF AskBreaker, AskReadable
<1>3. ASSUME NEW p \in Procs, Claim(p) PROVE Steady
  <2>1. ASSUME NEW k \in Kinds, NEW c \in BOOLEAN, ClaimWrite(p, k, c) PROVE Steady
    BY <2>1 DEF Steady
  <2>2. IsCleanup(cmd[p]) \in BOOLEAN
    BY DEF IsCleanup
  <2> QED BY <1>3, <2>1, <2>2, <1>0 DEF Claim
<1>4. ASSUME NEW p \in Procs, RejectLocally(p) \/ BeginPost(p) \/ Exchange(p) \/ Undelivered(p)
      PROVE  Steady
  BY <1>4, <1>0 DEF RejectLocally, BeginPost, Exchange, Undelivered
<1>5. ASSUME NEW p \in Procs, Pace(p) \/ Wake(p) PROVE Steady
  BY <1>5 DEF Pace, Wake, Steady
<1>6. ASSUME NEW p \in Procs, Settle(p) \/ KillRun(p) PROVE Steady
  BY <1>6 DEF Settle, KillRun, Steady
<1>7. ASSUME NEW p \in Procs, Doctor(p) PROVE Steady \/ ClearBreaker
  BY <1>7, <1>0 DEF Doctor
<1>8. ASSUME NEW p \in Procs, Report(p)
      PROVE  Steady \/ ClearSessionFailures \/ CountSessionFailure
  <2>1. \/ ClearSessionFailures \/ CountSessionFailure \/ RecordThrottle(0)
        \/ TripBreaker \/ UNCHANGED vars
    BY <1>8 DEF Report
  <2> QED BY <2>1, CallsAssumption DEF Steady
<1>9. ASSUME Elsewhere \/ UNCHANGED allVars PROVE Steady \/ (Faulty /\ DiskFault)
  BY <1>9, <1>0 DEF Elsewhere, allVars, Steady
<1> QED BY <1>1, <1>2, <1>3, <1>4, <1>5, <1>6, <1>7, <1>8, <1>9

\* A run that met an open breaker has asked nothing: it is before the guard,
\* or the guard has seen the breaker, or it is over.
Quiet(p) ==
  shut[p] /\ cmd[p] \notin {"undo", "doctor"} =>
    /\ pc[p] \in {"idle", "guard", "verdict"}
    /\ pc[p] = "verdict" => seen[p]

\* The inductive strengthening of BlockedRunsStaySilent.
SilentInv ==
  /\ RunsTypeOK /\ Healthy
  /\ \A p \in Procs : shut[p] => data.breaker # {}
  /\ \A p \in Procs : Quiet(p)

\* The breaker it met stays open under both questions of the guard.
LEMMA SilentStep ==
  ASSUME ~Faulty, SilentInv, readable, readable', [RunNext]_allVars PROVE SilentInv'
<1>t. RunsTypeOK /\ RunsTypeOK' /\ TypeOK
  BY RunTypeStep DEF SilentInv, RunsTypeOK
<1>c. Plain \/ ClearBreaker \/ ClearSessionFailures \/ CountSessionFailure
  BY RunCalls DEF RunNext, Run, Plain
<1>l. /\ Healthy'
      /\ Plain \/ ClearSessionFailures \/ CountSessionFailure => data.breaker \subseteq data'.breaker
  BY <1>t, <1>c, HealthyStep DEF SilentInv
<1>p. pc \in [Procs -> Points] /\ cmd \in [Procs -> AllCommands]
  BY <1>t DEF RunsTypeOK
<1>b. seen \in [Procs -> BOOLEAN] /\ shut \in [Procs -> BOOLEAN]
  BY <1>t DEF RunsTypeOK
<1>i. /\ Read = data /\ \A p \in Procs : shut[p] => data.breaker # {}
      /\ \A p \in Procs : Quiet(p)
  BY DEF SilentInv, Read
<1>v. EnforcementView.lost = {}
  <2>1. Pruned(data, now).lost = PrunedLost(data, now)
    BY <1>t DEF Pruned, TypeOK, Dict
  <2> QED BY <2>1, <1>i DEF SilentInv, Healthy, EnforcementView, PrunedLost
\* Whatever does not close the breaker leaves the other runs quiet.
<1>q. ASSUME data.breaker \subseteq data'.breaker, NEW p \in Procs, UNCHANGED <<cmd, shut>>,
             \A q \in Procs \ {p} : pc'[q] = pc[q] /\ seen'[q] = seen[q], Quiet(p)'
      PROVE  SilentInv'
  <2>1. \A q \in Procs : shut'[q] => data'.breaker # {}
    BY <1>q, <1>i
  <2>2. ASSUME NEW q \in Procs \ {p} PROVE Quiet(q)'
    <3>1. Quiet(q)
      BY <1>i
    <3> QED BY <1>q, <2>2, <3>1 DEF Quiet
  <2> QED BY <1>q, <1>t, <1>l, <2>1, <2>2 DEF SilentInv
<1>1. CASE Elsewhere \/ UNCHANGED allVars
  <2>1. UNCHANGED <<pc, cmd, seen, shut>> /\ data' = data
    BY <1>1 DEF Elsewhere, Tick, DiskFault, ReadsFail, ReadsRecover, file, runVars, runGhosts,
       allVars, vars
  <2>2. \A p \in Procs : Quiet(p)' /\ (shut'[p] => data'.breaker # {})
    BY <2>1, <1>i DEF Quiet
  <2> QED BY <2>2, <1>t, <1>l DEF SilentInv
<1>2. ASSUME NEW p \in Procs, NEW c \in Commands, Start(p, c) PROVE SilentInv'
  <2>1. /\ data' = data /\ cmd' = [cmd EXCEPT ![p] = c] /\ seen' = seen
        /\ pc' = [pc EXCEPT ![p] = IF c = "doctor" THEN "clear" ELSE "guard"]
    BY <1>2 DEF Start, Goto, Exempt, vars, file
  <2>2. shut' = [shut EXCEPT ![p] = data.breaker # {}]
    BY <1>2 DEF Start
  <2>3. \A q \in Procs \ {p} : shut'[q] = shut[q] /\ cmd'[q] = cmd[q] /\ pc'[q] = pc[q]
    BY <2>1, <2>2, <1>p, <1>b
  <2>4. shut'[p] => data.breaker # {}
    <3>1. CASE data.breaker = {}
      <4>1. shut' = [shut EXCEPT ![p] = FALSE]
        BY <2>2, <3>1
      <4> QED BY <4>1, <1>b
    <3> QED BY <3>1
  <2>5. Quiet(p)'
    <3>1. cmd'[p] = c /\ pc'[p] = IF c = "doctor" THEN "clear" ELSE "guard"
      BY <2>1, <1>p
    <3> QED BY <3>1 DEF Quiet
  <2>6. ASSUME NEW q \in Procs \ {p} PROVE Quiet(q)'
    <3>1. Quiet(q)
      BY <1>i
    <3> QED BY <2>1, <2>3, <2>6, <3>1 DEF Quiet
  <2>7. \A q \in Procs : shut'[q] => data'.breaker # {}
    BY <2>1, <2>3, <2>4, <1>i
  <2> QED BY <2>5, <2>6, <2>7, <1>t, <1>l DEF SilentInv
<1>3. ASSUME NEW p \in Procs, AskBreaker(p) PROVE SilentInv'
  <2>1. pc' = [pc EXCEPT ![p] = "verdict"] /\ UNCHANGED <<cmd, shut>> /\ data' = data
    BY <1>3 DEF AskBreaker, Goto, vars, file, runGhosts
  <2>2. seen' = [seen EXCEPT ![p] = data.breaker # {}]
    BY <1>3, <1>i DEF AskBreaker
  <2>3. \A q \in Procs \ {p} : pc'[q] = pc[q] /\ seen'[q] = seen[q]
    BY <2>1, <2>2, <1>p, <1>b
  <2>4. data.breaker # {} => seen'[p]
    <3>1. CASE data.breaker # {}
      <4>1. seen' = [seen EXCEPT ![p] = TRUE]
        BY <2>2, <3>1
      <4> QED BY <4>1, <1>b
    <3> QED BY <3>1
  <2>5. pc'[p] = "verdict"
    BY <2>1, <1>p
  <2>6. Quiet(p)'
    BY <2>1, <2>4, <2>5, <1>i DEF Quiet
  <2> QED BY <1>q, <2>1, <2>3, <2>6
<1>4. ASSUME NEW p \in Procs, AskReadable(p) PROVE SilentInv'
  <2>1. /\ UNCHANGED <<cmd, shut, seen>> /\ data' = data /\ pc[p] = "verdict"
        /\ \E point \in Points : pc' = [pc EXCEPT ![p] = point]
    BY <1>4 DEF AskReadable, Dispatch, Goto, Conclude, Request, Points, runGhosts, vars, file
  <2>2. \A q \in Procs \ {p} : pc'[q] = pc[q]
    BY <2>1, <1>p
  <2>3. CASE ~(shut[p] /\ cmd[p] \notin {"undo", "doctor"})
    <3>1. Quiet(p)'
      BY <2>1, <2>3 DEF Quiet
    <3> QED BY <1>q, <2>1, <2>2, <3>1
  <2>4. CASE shut[p] /\ cmd[p] \notin {"undo", "doctor"}
    <3>1. seen[p]
      BY <2>1, <2>4, <1>i DEF Quiet
    <3>2. RefusedByGuard(p, TRUE)
      BY <2>4, <3>1, <1>v DEF RefusedByGuard, IsCleanup
    <3>3. pc' = [pc EXCEPT ![p] = "idle"]
      BY <1>4, <3>2 DEF AskReadable, Conclude, Goto
    <3>4. pc'[p] = "idle"
      BY <3>3, <1>p
    <3>5. Quiet(p)'
      BY <3>4 DEF Quiet
    <3> QED BY <1>q, <2>1, <2>2, <3>5
  <2> QED BY <2>3, <2>4
<1>5. ASSUME NEW p \in Procs, Doctor(p) PROVE SilentInv'
  <2>1. UNCHANGED <<cmd, seen>> /\ pc[p] = "clear" /\ pc' = [pc EXCEPT ![p] = "pace"]
    BY <1>5 DEF Doctor, Request, Goto
  <2>2. CASE ClearBreaker /\ shut' = [q \in Procs |-> FALSE]
    BY <2>2, <1>t, <1>l DEF SilentInv, Quiet
  <2>3. CASE UNCHANGED <<vars, shut>>
    <3>1. data' = data /\ shut' = shut
      BY <2>3 DEF vars, file
    <3>2. \A q \in Procs \ {p} : pc'[q] = pc[q]
      BY <2>1, <1>p
    <3>3. ~(shut[p] /\ cmd[p] \notin {"undo", "doctor"})
      BY <2>1, <1>i DEF Quiet
    <3>4. Quiet(p)'
      BY <2>1, <3>1, <3>3 DEF Quiet
    <3> QED BY <1>q, <2>1, <3>1, <3>2, <3>4
  <2> QED BY <1>5, <2>2, <2>3 DEF Doctor
<1>6. ASSUME NEW p \in Procs,
             \/ Claim(p) \/ RejectLocally(p) \/ BeginPost(p) \/ Pace(p) \/ Wake(p)
             \/ Exchange(p) \/ Undelivered(p) \/ Settle(p) \/ Report(p) \/ KillRun(p)
      PROVE  SilentInv'
  <2>1. UNCHANGED <<cmd, shut, seen>>
    BY <1>6 DEF Claim, RejectLocally, BeginPost, Pace, Wake, Exchange, Undelivered, Settle,
       Report, KillRun, runGhosts
  <2>2. \E point \in Points : pc' = [pc EXCEPT ![p] = point]
    <3>1. ASSUME Exchange(p) \/ Undelivered(p)
          PROVE  \E point \in Points : pc' = [pc EXCEPT ![p] = point]
      BY <3>1 DEF Exchange, Undelivered, Answered, Conclude, Goto, Points
    <3> QED
      BY <1>6, <3>1 DEF Claim, RejectLocally, BeginPost, Pace, Wake, Settle, Report, KillRun,
         Goto, Conclude, Request, Points
  <2>3. pc[p] \notin {"idle", "guard", "verdict"} \/ pc'[p] = "idle"
    BY <1>6, <1>p DEF Claim, RejectLocally, BeginPost, Pace, Wake, Exchange, Undelivered,
       Settle, Report, KillRun, Goto
  <2>4. \A q \in Procs \ {p} : pc'[q] = pc[q]
    BY <2>2, <1>p
  <2>5. Quiet(p)'
    <3>1. CASE pc'[p] = "idle"
      BY <3>1 DEF Quiet
    <3>2. CASE pc[p] \notin {"idle", "guard", "verdict"}
      <4>1. ~(shut[p] /\ cmd[p] \notin {"undo", "doctor"})
        BY <3>2, <1>i DEF Quiet
      <4> QED BY <2>1, <4>1 DEF Quiet
    <3> QED BY <2>3, <3>1, <3>2
  <2>6. data.breaker \subseteq data'.breaker
    BY <1>6, <1>l, RunCalls DEF Plain
  <2> QED BY <1>q, <2>1, <2>4, <2>5, <2>6
<1> QED BY <1>1, <1>2, <1>3, <1>4, <1>5, <1>6 DEF RunNext, Run

LEMMA HealthyInit == Init => Healthy
BY DEF Init, Healthy, EmptyDict

\* A method of the ledger leaves a file that can be read.
LEMMA SteadyReads ==
  ASSUME Steady \/ ClearBreaker \/ ClearSessionFailures \/ CountSessionFailure, readable
  PROVE  readable'
<1>1. ASSUME NEW p \in Procs, NEW k \in Kinds, NEW c \in BOOLEAN, ClaimWrite(p, k, c) PROVE readable'
  BY <1>1 DEF ClaimWrite, Put
<1>2. ASSUME NEW p \in Procs, CommitClaim(p) \/ ReleaseClaim(p) \/ WakeWithSlot(p) \/ Kill(p)
      PROVE  readable'
  BY <1>2 DEF CommitClaim, ReleaseClaim, WakeWithSlot, Kill, Put, file
<1>3. ASSUME NEW p \in Procs, NEW i \in Intervals, TakeSlot(p, i) \/ StartSleep(p, i)
      PROVE  readable'
  BY <1>3 DEF TakeSlot, StartSleep, Put, file
<1>4. ASSUME NEW retry \in RetryAfters, RecordThrottle(retry) PROVE readable'
  BY <1>4 DEF RecordThrottle, Put
<1>5. Tick \/ TripBreaker \/ ClearBreaker \/ UNCHANGED vars => readable'
  BY DEF Tick, TripBreaker, ClearBreaker, Put, vars, file
<1>6. ClearSessionFailures \/ CountSessionFailure => readable'
  BY DEF ClearSessionFailures, CountSessionFailure, Put, file
<1> QED BY <1>1, <1>2, <1>3, <1>4, <1>5, <1>6 DEF Steady

\* Without disk faults the file stays readable.
LEMMA StaysReadable == ASSUME ~Faulty, readable, [RunNext]_allVars PROVE readable'
<1>1. Steady \/ ClearBreaker \/ ClearSessionFailures \/ CountSessionFailure
  BY RunCalls DEF RunNext, Run
<1> QED BY <1>1, SteadyReads

\* On a disk that does not fail, a run that began behind an open breaker asks
\* LinkedIn nothing, unless it is an undo or a doctor (_guard_breaker).  With a
\* file that cannot be read, or a ledger that cannot be reached, the guard does
\* not see the breaker and lets a read out.
THEOREM BlockedRunsAreSilent == ASSUME ~Faulty PROVE RunSpec => []BlockedRunsStaySilent
<1>1. RunInit => SilentInv /\ readable
  <2>1. RunInit => RunsTypeOK /\ Healthy /\ readable
    BY RunTypeInit, HealthyInit DEF RunInit, Init
  <2> QED BY <2>1 DEF RunInit, SilentInv, Quiet
<1>2. SilentInv => BlockedRunsStaySilent
  BY DEF SilentInv, Quiet, BlockedRunsStaySilent
<1>3. SilentInv /\ readable /\ [RunNext]_allVars => SilentInv' /\ readable'
  BY SilentStep, StaysReadable
<1> QED BY <1>1, <1>2, <1>3, PTL DEF RunSpec

\* The dead sessions that still count.
RecentDead == {s \in dead : now - s.at < FAILURE_WINDOW}

\* A run that begins has asked nothing yet.
Unasked(p) == pc[p] \in {"guard", "verdict", "clear"} => ~Asked(p)

\* The run of p is about to end on a proper answer, and none came later.
Leads(p) == pc[p] \in {"settle", "report"} /\ outcome[p] = "ok" /\ Asked(p) /\ p \notin outdated

\* The inductive strengthening of DeadSessionsArmBreaker: the ledger lists
\* every dead session that counts, and a breaker it opened stays open.  A run
\* that ends on the latest proper answer finds none that counts, and whoever is
\* about to end on an older dead session is marked.
ArmInv ==
  /\ RunsTypeOK /\ Healthy
  /\ IsFiniteSet(data.failures)
  /\ ~wiped => RecentDead \subseteq data.failures
  /\ DeadSessionsArmBreaker
  /\ \A p \in Procs : Unasked(p)
  /\ \A p \in Procs : Leads(p) => dead = {} /\ Ending("expired") \subseteq outdated

\* Time goes by inside no method.
LEMMA PlainTime == Plain => now' \in {now, now + 1}
<1>1. ASSUME NEW p \in Procs, NEW k \in Kinds, NEW c \in BOOLEAN, ClaimWrite(p, k, c) PROVE now' = now
  BY <1>1 DEF ClaimWrite
<1>2. ASSUME NEW p \in Procs, CommitClaim(p) \/ ReleaseClaim(p) \/ WakeWithSlot(p) \/ Kill(p)
      PROVE  now' = now
  BY <1>2 DEF CommitClaim, ReleaseClaim, WakeWithSlot, Kill
<1>3. ASSUME NEW p \in Procs, NEW i \in Intervals, TakeSlot(p, i) \/ StartSleep(p, i)
      PROVE  now' = now
  BY <1>3 DEF TakeSlot, StartSleep
<1>4. ASSUME NEW retry \in RetryAfters, RecordThrottle(retry) PROVE now' = now
  BY <1>4 DEF RecordThrottle
<1>5. DiskFault \/ TripBreaker \/ UNCHANGED vars => now' = now
  BY DEF DiskFault, TripBreaker, vars
<1> QED BY <1>1, <1>2, <1>3, <1>4, <1>5 DEF Plain, Steady, Tick

\* What is known of the runs that are about to end.
Following ==
  /\ \A p \in Procs : Unasked(p)
  /\ \A p \in Procs : Leads(p) => dead = {} /\ Ending("expired") \subseteq outdated

LEMMA FollowingStep ==
  ASSUME RunsTypeOK, Following, [RunNext]_allVars
  PROVE  Following'
<1>p. /\ pc \in [Procs -> Points] /\ purpose \in [Procs -> Purposes]
      /\ outcome \in [Procs -> RunOutcomes] /\ outdated \subseteq Procs
  BY DEF RunsTypeOK, RunOutcomes
<1>i. \A p \in Procs : Unasked(p) /\ (Leads(p) => dead = {} /\ Ending("expired") \subseteq outdated)
  BY DEF Following
<1>1. CASE UNCHANGED runVars /\ UNCHANGED runGhosts
  BY <1>1 DEF runVars, runGhosts, sessions, Following, Unasked, Leads, Ending, Asked
<1>2. ASSUME NEW p \in Procs, OwnStep(p)
      PROVE  \A q \in Procs \ {p} : /\ pc'[q] = pc[q] /\ purpose'[q] = purpose[q]
                                    /\ outcome'[q] = outcome[q]
  BY <1>2, <1>p DEF OwnStep
\* The run of p is not about to end on an answer of either kind, or has asked nothing.
<1>3. ASSUME NEW p \in Procs, OwnStep(p), Unasked(p)', ~Leads(p)',
             pc'[p] \notin {"settle", "report"} \/ outcome'[p] # "expired",
             dead' \subseteq dead, outdated \ {p} \subseteq outdated'
      PROVE  Following'
  <2>1. ASSUME NEW q \in Procs \ {p} PROVE Unasked(q)' /\ (Leads(q)' => Leads(q))
    <3>1. Unasked(q) /\ pc'[q] = pc[q] /\ purpose'[q] = purpose[q] /\ outcome'[q] = outcome[q]
      BY <1>2, <1>3, <1>i
    <3>2. q \in outdated => q \in outdated'
      BY <1>3
    <3> QED BY <3>1, <3>2 DEF Unasked, Leads, Asked
  <2>2. Ending("expired")' \subseteq Ending("expired") \ {p}
    BY <1>2, <1>3 DEF Ending
  <2>3. ASSUME NEW q \in Procs, Leads(q)' PROVE dead' = {} /\ Ending("expired")' \subseteq outdated'
    <3>1. Leads(q)
      BY <1>3, <2>1, <2>3
    <3> QED BY <3>1, <2>2, <1>i, <1>3
  <2>4. \A q \in Procs : Unasked(q)'
    BY <1>3, <2>1
  <2> QED BY <2>3, <2>4 DEF Following
\* So it is where a run starts, or goes on.
<1>4. ASSUME NEW p \in Procs, OwnStep(p), dead' \subseteq dead, outdated \ {p} \subseteq outdated',
             NEW point \in Points \ {"guard", "verdict", "clear", "settle", "report"},
             pc' = [pc EXCEPT ![p] = point]
      PROVE  Following'
  <2>1. pc'[p] = point
    BY <1>4, <1>p
  <2> QED BY <1>3, <1>4, <2>1 DEF Unasked, Leads
<1>5. ASSUME NEW p \in Procs, NEW c \in Commands, Start(p, c) PROVE Following'
  <2>1. /\ pc' = [pc EXCEPT ![p] = IF Exempt(c) THEN "clear" ELSE "guard"]
        /\ purpose' = [purpose EXCEPT ![p] = "none"]
        /\ UNCHANGED <<dead, outdated>> /\ OwnStep(p)
    BY <1>5, RunIsOwn DEF Start, Goto, sessions
  <2>2. pc'[p] \in {"clear", "guard"} /\ purpose'[p] = "none"
    BY <2>1, <1>p
  <2> QED BY <1>3, <2>1, <2>2 DEF Unasked, Leads, Asked
<1>6. ASSUME NEW p \in Procs, AskBreaker(p) PROVE Following'
  <2>1. /\ pc' = [pc EXCEPT ![p] = "verdict"] /\ pc[p] = "guard"
        /\ UNCHANGED <<purpose, dead, outdated>> /\ OwnStep(p)
    BY <1>6, RunIsOwn DEF AskBreaker, Goto, sessions, runGhosts, Run
  <2>2. pc'[p] = "verdict" /\ Unasked(p)
    BY <2>1, <1>p, <1>i
  <2> QED BY <1>3, <2>1, <2>2 DEF Unasked, Leads, Asked
<1>7. ASSUME NEW p \in Procs, AskReadable(p) PROVE Following'
  <2>1. UNCHANGED <<dead, outdated>> /\ OwnStep(p) /\ pc[p] = "verdict"
    BY <1>7, RunIsOwn DEF AskReadable, sessions, runGhosts, Run
  <2>2. \/ \E point \in {"idle", "pace", "claim"} : pc' = [pc EXCEPT ![p] = point]
        \/ pc' = [pc EXCEPT ![p] = "report"] /\ outcome' = [outcome EXCEPT ![p] = "ok"]
           /\ purpose' = purpose
    BY <1>7 DEF AskReadable, Dispatch, Request, Conclude, Goto
  <2>3. CASE \E point \in {"idle", "pace", "claim"} : pc' = [pc EXCEPT ![p] = point]
    BY <1>4, <2>1, <2>3 DEF Points
  <2>4. CASE /\ pc' = [pc EXCEPT ![p] = "report"] /\ outcome' = [outcome EXCEPT ![p] = "ok"]
             /\ purpose' = purpose
    <3>1. pc'[p] = "report" /\ outcome'[p] = "ok" /\ ~Asked(p)'
      BY <2>1, <2>4, <1>p, <1>i DEF Unasked, Asked
    <3> QED BY <1>3, <2>1, <3>1 DEF Unasked, Leads
  <2> QED BY <2>2, <2>3, <2>4
<1>8. ASSUME NEW p \in Procs,
             \/ Doctor(p) \/ Claim(p) \/ BeginPost(p) \/ Pace(p) \/ Wake(p) \/ KillRun(p)
      PROVE  Following'
  <2>1. OwnStep(p)
    BY <1>8, RunIsOwn DEF Run
  <2>2. dead' \subseteq dead /\ outdated \ {p} \subseteq outdated'
    BY <1>8 DEF Doctor, Claim, BeginPost, Pace, Wake, KillRun, runGhosts, sessions
  <2>3. \E point \in {"pace", "idle", "post", "asleep", "wire"} : pc' = [pc EXCEPT ![p] = point]
    BY <1>8 DEF Doctor, Claim, BeginPost, Pace, Wake, KillRun, Request, Conclude, Goto
  <2> QED BY <1>4, <2>1, <2>2, <2>3 DEF Points
<1>9. ASSUME NEW p \in Procs, RejectLocally(p) PROVE Following'
  <2>1. /\ UNCHANGED <<dead, outdated>> /\ OwnStep(p) /\ pc' = [pc EXCEPT ![p] = "settle"]
        /\ outcome' = [outcome EXCEPT ![p] = "refused"]
    BY <1>9, RunIsOwn DEF RejectLocally, Conclude, Goto, sessions, runGhosts, Run
  <2>2. pc'[p] = "settle" /\ outcome'[p] = "refused"
    BY <2>1, <1>p
  <2> QED BY <1>3, <2>1, <2>2 DEF Unasked, Leads
\* Where an answer takes a run.
<1>10. ASSUME NEW p \in Procs, NEW answer \in AllAnswers, Answered(p, answer)
       PROVE  \/ \E point \in {"idle", "claim", "post"} : pc' = [pc EXCEPT ![p] = point]
              \/ /\ \E point \in {"settle", "report"} : pc' = [pc EXCEPT ![p] = point]
                 /\ \E o \in {answer, "ok"} : outcome' = [outcome EXCEPT ![p] = o]
                 /\ answer # "ok" => outcome' = [outcome EXCEPT ![p] = answer]
  BY <1>10 DEF Answered, Conclude, Goto
<1>11. ASSUME NEW p \in Procs, Undelivered(p) PROVE Following'
  <2>1. UNCHANGED <<dead, outdated>> /\ OwnStep(p) /\ Answered(p, "failed")
    BY <1>11, RunIsOwn DEF Undelivered, sessions
  <2>2. CASE \E point \in {"idle", "claim", "post"} : pc' = [pc EXCEPT ![p] = point]
    BY <1>4, <2>1, <2>2 DEF Points
  <2>3. CASE /\ \E point \in {"settle", "report"} : pc' = [pc EXCEPT ![p] = point]
             /\ outcome' = [outcome EXCEPT ![p] = "failed"]
    <3>1. pc'[p] \in {"settle", "report"} /\ outcome'[p] = "failed"
      BY <2>3, <1>p
    <3> QED BY <1>3, <2>1, <3>1 DEF Unasked, Leads
  <2> QED BY <2>1, <2>2, <2>3, <1>10 DEF AllAnswers
<1>12. ASSUME NEW p \in Procs, Exchange(p) PROVE Following'
  <2>1. OwnStep(p) /\ Told(p) /\ pc[p] = "wire" /\ UNCHANGED purpose
    BY <1>12, RunIsOwn DEF Exchange, Run
  <2>2. PICK answer \in AllAnswers : Answered(p, answer)
    BY <1>12, CommandsAssumption DEF Exchange
  <2>3. CASE \E point \in {"idle", "claim", "post"} : pc' = [pc EXCEPT ![p] = point]
    <3>1. pc'[p] \notin {"settle", "report"}
      BY <2>3, <1>p
    <3>2. UNCHANGED <<dead, outdated>>
      BY <2>1, <3>1 DEF Told
    <3> QED BY <1>4, <2>1, <2>3, <3>2 DEF Points
  <2>4. CASE pc'[p] \in {"settle", "report"}
    <3>1. CASE outcome'[p] = "ok"
      <4>1. dead' = {} /\ outdated' = outdated \cup Ending("expired")
        BY <2>1, <2>4, <3>1 DEF Told
      <4>2. Ending("expired")' \subseteq Ending("expired")
        BY <2>1, <3>1, <1>2 DEF Ending
      <4>3. Ending("expired")' \subseteq outdated'
        BY <4>1, <4>2
      <4>4. \A q \in Procs : Unasked(q)'
        BY <2>1, <2>4, <1>2, <1>i DEF Unasked, Asked
      <4> QED BY <4>1, <4>3, <4>4 DEF Following
    <3>2. CASE outcome'[p] = "expired"
      <4>1. outdated' = outdated \cup Ending("ok")
        BY <2>1, <2>4, <3>2 DEF Told
      <4>2. ASSUME NEW q \in Procs PROVE ~Leads(q)'
        <5>1. CASE q = p
          BY <5>1, <3>2 DEF Leads
        <5>2. CASE q # p
          <6>1. pc'[q] = pc[q] /\ outcome'[q] = outcome[q]
            BY <5>2, <2>1, <1>2
          <6> QED BY <6>1, <4>1 DEF Leads, Ending
        <5> QED BY <5>1, <5>2
      <4>4. \A q \in Procs : Unasked(q)'
        BY <2>1, <2>4, <1>2, <1>i DEF Unasked, Asked
      <4> QED BY <4>2, <4>4 DEF Following
    <3>3. CASE outcome'[p] \notin {"ok", "expired"}
      <4>1. UNCHANGED <<dead, outdated>>
        BY <2>1, <3>3 DEF Told
      <4> QED BY <1>3, <2>1, <2>4, <3>3, <4>1 DEF Unasked, Leads
    <3> QED BY <3>1, <3>2, <3>3
  <2>5. pc'[p] \in {"settle", "report"} \/ \E point \in {"idle", "claim", "post"} : pc' = [pc EXCEPT ![p] = point]
    BY <2>2, <1>10, <1>p
  <2> QED BY <2>3, <2>4, <2>5
<1>13. ASSUME NEW p \in Procs, Settle(p) PROVE Following'
  <2>1. /\ pc[p] = "settle" /\ pc' = [pc EXCEPT ![p] = "report"]
        /\ UNCHANGED <<purpose, outcome, dead, outdated>>
    BY <1>13 DEF Settle, Goto, runGhosts, sessions
  <2>2. pc'[p] = "report" /\ \A q \in Procs \ {p} : pc'[q] = pc[q]
    BY <2>1, <1>p
  <2>3. \A q \in Procs : Unasked(q)' /\ (Leads(q)' => Leads(q))
    BY <2>1, <2>2, <1>i DEF Unasked, Leads, Asked
  <2>4. Ending("expired")' \subseteq Ending("expired")
    BY <2>1, <2>2 DEF Ending
  <2> QED BY <2>1, <2>3, <2>4, <1>i DEF Following
<1>14. ASSUME NEW p \in Procs, Report(p) PROVE Following'
  <2>1. /\ pc[p] = "report" /\ pc' = [pc EXCEPT ![p] = "idle"] /\ outcome' = outcome
        /\ Remember(p) /\ OwnStep(p)
    BY <1>14, RunIsOwn DEF Report, Goto, Run
  <2>2. pc'[p] = "idle" /\ outdated' = outdated \ {p}
    BY <2>1, <1>p DEF Remember
  <2>3. CASE dead' = dead
    BY <1>4, <2>1, <2>2, <2>3 DEF Points
  <2>4. CASE dead' # dead
    <3>1. p \in Ending("expired") /\ p \notin outdated
      BY <2>1, <2>4 DEF Remember, Ending
    <3>2. ASSUME NEW q \in Procs PROVE Unasked(q)' /\ ~Leads(q)'
      <4>1. CASE q = p
        BY <4>1, <2>2 DEF Unasked, Leads
      <4>2. CASE q # p
        <5>1. pc'[q] = pc[q] /\ purpose'[q] = purpose[q] /\ outcome'[q] = outcome[q]
          BY <4>2, <2>1, <1>2
        <5>2. ~Leads(q) /\ Unasked(q)
          BY <3>1, <1>i
        <5> QED BY <5>1, <5>2, <4>2, <2>2 DEF Unasked, Leads, Asked
      <4> QED BY <4>1, <4>2
    <3> QED BY <3>2 DEF Following
  <2> QED BY <2>3, <2>4
<1>15. CASE Elsewhere \/ UNCHANGED allVars
  BY <1>15, <1>1 DEF Elsewhere, allVars
<1> QED
  BY <1>5, <1>6, <1>7, <1>8, <1>9, <1>11, <1>12, <1>13, <1>14, <1>15 DEF RunNext, Run

\* A dead session is listed when it is reported, and the last of FAILURE_LIMIT
\* opens the breaker in the same step.
LEMMA ArmStep ==
  ASSUME ArmInv, readable, readable', [RunNext]_allVars
  PROVE  ArmInv'
<1>t. RunsTypeOK /\ RunsTypeOK' /\ TypeOK
  BY RunTypeStep DEF ArmInv, RunsTypeOK
<1>c. Plain \/ ClearBreaker \/ ClearSessionFailures \/ CountSessionFailure
  BY RunCalls DEF RunNext, Run, Plain
<1>l. /\ Healthy'
      /\ Plain => data.breaker \subseteq data'.breaker /\ data'.failures = data.failures
      /\ ClearSessionFailures \/ CountSessionFailure => data.breaker \subseteq data'.breaker
      /\ ClearBreaker => data'.failures = data.failures
  BY <1>t, <1>c, HealthyStep DEF ArmInv
<1>a. Following /\ Following'
  <2>1. Following
    BY DEF ArmInv, Following
  <2> QED BY <2>1, <1>t, FollowingStep
<1>n. now \in Nat /\ dead \subseteq Stamp /\ FAILURE_WINDOW \in Nat
      /\ FAILURE_LIMIT \in Nat /\ FAILURE_LIMIT > 0
  BY <1>t, WindowsAssumption, LimitsAssumption DEF RunsTypeOK, TypeOK
<1>i. /\ Read = data /\ IsFiniteSet(data.failures)
      /\ ~wiped => RecentDead \subseteq data.failures
      /\ DeadSessionsArmBreaker
  BY DEF ArmInv, Read
<1>q. ASSUME IsFiniteSet(data'.failures), ~wiped' => RecentDead' \subseteq data'.failures,
             DeadSessionsArmBreaker'
      PROVE  ArmInv'
  BY <1>q, <1>t, <1>l, <1>a DEF ArmInv, Following
\* Nothing counts any more, or nothing can be said.
<1>z. ASSUME dead' = {} \/ wiped', IsFiniteSet(data'.failures) PROVE ArmInv'
  <2>1. CASE wiped'
    BY <1>q, <1>z, <2>1 DEF DeadSessionsArmBreaker
  <2>2. CASE dead' = {}
    <3>1. RecentDead' = {}
      BY <2>2 DEF RecentDead
    <3>2. Cardinality(RecentDead') = 0
      BY <3>1, FS_EmptySet
    <3>3. DeadSessionsArmBreaker'
      BY <3>2, <1>n DEF DeadSessionsArmBreaker, RecentDead
    <3> QED BY <1>q, <1>z, <3>1, <3>3
  <2> QED BY <1>z, <2>1, <2>2
\* Nothing more is counted, and time may have passed.
<1>s. ASSUME dead' \subseteq dead, wiped' = wiped, Plain PROVE ArmInv'
  <2>0. CASE wiped
    BY <1>z, <1>s, <1>l, <1>i, <2>0
  <2>1. now' \in {now, now + 1} /\ data'.failures = data.failures
        /\ data.breaker \subseteq data'.breaker
    BY <1>s, <1>l, PlainTime
  <2>2. RecentDead' \subseteq RecentDead
    BY <2>1, <1>s, <1>n DEF RecentDead, Stamp
  <2>7. CASE ~wiped
    <3>3. IsFiniteSet(RecentDead)
      BY <2>7, <1>i, FS_Subset
    <3>4. Cardinality(RecentDead') <= Cardinality(RecentDead) /\ Cardinality(RecentDead) \in Nat
          /\ Cardinality(RecentDead') \in Nat
      BY <2>2, <3>3, FS_Subset, FS_CardinalityType
    <3>5. Cardinality(RecentDead) >= FAILURE_LIMIT => data.breaker # {}
      BY <2>7, <1>i DEF DeadSessionsArmBreaker, RecentDead
    <3>6. Cardinality(RecentDead') >= FAILURE_LIMIT => data'.breaker # {}
      BY <2>1, <3>4, <3>5, <1>n
    <3>7. DeadSessionsArmBreaker'
      BY <3>6 DEF DeadSessionsArmBreaker, RecentDead
    <3> QED BY <1>q, <1>i, <1>s, <2>1, <2>2, <2>7, <3>7
  <2> QED BY <2>0, <2>7
<1>1. CASE Elsewhere \/ UNCHANGED allVars
  <2>1. UNCHANGED <<dead, wiped>>
    BY <1>1 DEF Elsewhere, runGhosts, sessions, allVars
  <2>2. Plain
    BY <1>1, RunCalls DEF Plain
  <2> QED BY <1>s, <2>1, <2>2
<1>2. ASSUME NEW p \in Procs,
             \/ \E c \in Commands : Start(p, c)
             \/ AskBreaker(p) \/ AskReadable(p) \/ Claim(p) \/ RejectLocally(p) \/ BeginPost(p)
             \/ Pace(p) \/ Wake(p) \/ Exchange(p) \/ Undelivered(p) \/ Settle(p) \/ KillRun(p)
      PROVE  ArmInv'
  <2>1. dead' \subseteq dead /\ wiped' = wiped
    BY <1>2 DEF Start, AskBreaker, AskReadable, Claim, RejectLocally, BeginPost, Pace, Wake,
       Exchange, Told, Undelivered, Settle, KillRun, runGhosts, sessions
  <2>2. Plain
    BY <1>2, RunCalls DEF Plain
  <2> QED BY <1>s, <2>1, <2>2
<1>3. ASSUME NEW p \in Procs, Doctor(p) PROVE ArmInv'
  <2>1. CASE ClearBreaker /\ dead' = {}
    BY <2>1, <1>z, <1>l, <1>i
  <2>2. CASE UNCHANGED <<vars, shut, dead>>
    <3>1. wiped' = wiped /\ Plain
      BY <1>3, <2>2 DEF Doctor, Plain, Steady
    <3> QED BY <2>2, <3>1, <1>s
  <2> QED BY <1>3, <2>1, <2>2 DEF Doctor
<1>4. ASSUME NEW p \in Procs, Report(p) PROVE ArmInv'
  <2>r. pc[p] = "report" /\ Remember(p)
    BY <1>4 DEF Report
  <2>1. CASE outcome[p] = "ok"
    <3>1. dead' = dead
      BY <2>r, <2>1 DEF Remember
    <3>2. dead' = {} \/ wiped'
      <4>1. CASE Leads(p)
        BY <4>1, <3>1 DEF ArmInv
      <4>2. CASE ~Leads(p)
        BY <4>2, <2>r, <2>1, <3>1 DEF Remember, Leads
      <4> QED BY <4>1, <4>2
    <3>3. ClearSessionFailures
      BY <1>4, <2>1 DEF Report
    <3>4. data'.failures \subseteq data.failures
      BY <3>3, <1>i, <1>t DEF ClearSessionFailures, Put, file, TypeOK, Dict
    <3> QED BY <1>z, <1>i, <3>2, <3>4, FS_Subset
  <2>2. CASE outcome[p] = "expired"
    <3> DEFINE new == [id |-> entries, at |-> now]
               many == FailuresNow
    <3>1. dead' \subseteq dead \cup {new} /\ CountSessionFailure /\ wiped' = wiped
      BY <1>4, <2>r, <2>2, <1>t DEF Report, Remember, RunsTypeOK
    <3>2. /\ now' = now /\ data'.failures = many
          /\ Cardinality(many) >= FAILURE_LIMIT => data'.breaker # {}
      <4>1. /\ now' = now
            /\ data' = [data EXCEPT !.failures = FailuresNow,
                          !.breaker = IF Cardinality(FailuresNow) >= FAILURE_LIMIT /\ @ = {}
                                      THEN {now} ELSE @]
        BY <3>1, <1>i DEF CountSessionFailure, Put
      <4>2. data \in Dict
        BY <1>t DEF TypeOK
      <4> QED BY <4>1, <4>2 DEF Dict
    <3>3. many \subseteq data.failures \cup {new}
      BY <1>i DEF FailuresNow
    <3>4. ~wiped => RecentDead' \subseteq many
      BY <3>1, <3>2, <1>i DEF RecentDead, FailuresNow
    <3> HIDE DEF many, new
    <3>5. IsFiniteSet(many)
      <4>1. IsFiniteSet(data.failures \cup {new})
        BY <1>i, FS_AddElement
      <4> QED BY <3>3, <4>1, FS_Subset
    <3>6. CASE wiped
      BY <1>z, <3>1, <3>2, <3>5, <3>6
    <3>7. CASE ~wiped
      <4>1. Cardinality(RecentDead') <= Cardinality(many) /\ Cardinality(many) \in Nat
            /\ Cardinality(RecentDead') \in Nat
        BY <3>4, <3>5, <3>7, FS_Subset, FS_CardinalityType
      <4>2. Cardinality(RecentDead') >= FAILURE_LIMIT => data'.breaker # {}
        BY <3>2, <4>1, <1>n
      <4>3. DeadSessionsArmBreaker'
        BY <4>2 DEF DeadSessionsArmBreaker, RecentDead
      <4> QED BY <1>q, <3>2, <3>4, <3>5, <3>7, <4>3
    <3> QED BY <3>6, <3>7
  <2>3. CASE outcome[p] \notin {"ok", "expired"}
    <3>1. dead' = dead /\ wiped' = wiped
      BY <2>r, <2>3, <1>t DEF Remember, RunsTypeOK
    <3>2. RecordThrottle(0) \/ TripBreaker \/ UNCHANGED vars
      BY <1>4, <2>3 DEF Report
    <3>3. Plain
      BY <3>2, CallsAssumption DEF Plain, Steady
    <3> QED BY <1>s, <3>1, <3>3
  <2> QED BY <2>1, <2>2, <2>3
<1> QED BY <1>1, <1>2, <1>3, <1>4 DEF RunNext, Run

\* While state.json can be read, FAILURE_LIMIT dead sessions reported inside the
\* window, with no proper answer after them, leave the breaker open, in whatever
\* order the runs report (count_session_failure); until a run clears the count
\* on an older answer, or a preview on none (clear_session_failures).
THEOREM DeadSessionsOpenTheBreaker == RunSpec /\ []readable => []DeadSessionsArmBreaker
<1>1. RunInit => ArmInv
  <2>1. RunInit => RunsTypeOK /\ Healthy
    BY RunTypeInit, HealthyInit DEF RunInit
  <2>2. RunInit => data.failures = {} /\ RecentDead = {}
    BY DEF RunInit, Init, EmptyDict, RecentDead
  <2>3. IsFiniteSet({}) /\ Cardinality({}) = 0 /\ ~(0 >= FAILURE_LIMIT)
    BY FS_EmptySet, LimitsAssumption
  <2>4. RunInit => DeadSessionsArmBreaker
    BY <2>2, <2>3 DEF DeadSessionsArmBreaker, RecentDead
  <2>5. RunInit => \A p \in Procs : Unasked(p) /\ ~Leads(p)
    BY DEF RunInit, Unasked, Leads
  <2> QED BY <2>1, <2>2, <2>3, <2>4, <2>5 DEF ArmInv
<1>2. ArmInv => DeadSessionsArmBreaker
  BY DEF ArmInv
<1>3. ArmInv /\ readable /\ readable' /\ [RunNext]_allVars => ArmInv'
  BY ArmStep
<1> QED BY <1>1, <1>2, <1>3, PTL DEF RunSpec
=============================================================================
