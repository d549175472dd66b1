------------------------------ MODULE Capture -------------------------------
(***************************************************************************)
(* One run of tools/capture_payloads.py: a flow drives a page, with every  *)
(* request paused inside the browser, so that the body of a write can be   *)
(* read and the write aborted before LinkedIn sees it.                     *)
(*                                                                         *)
(* The tool has one thread, which reads the pipe only while it waits for a *)
(* reply or for a window of time to pass.  An event read while it waits    *)
(* for something else is dispatched then and there.                        *)
(*                                                                         *)
(* Chromium is external.  It executes commands in order and may be slow,   *)
(* fail them or die; the page issues requests whenever it likes.           *)
(* Fetch.disable lets the requests go that are still paused.               *)
(***************************************************************************)
EXTENDS Integers, Sequences, SequencesExt

CONSTANTS
  Requests,  \* [method, place, act]: act when a click of the flow causes it
  Flows,     \* the flows to run: sequences of steps
  PATTERNS,  \* the places a pattern of Fetch.enable matches
  TIMEOUT,   \* of a call
  SETTLE,    \* how long to read on after the last click
  BUDGET,    \* CAPTURE_BUDGET, from arming on
  MaxCalls   \* bound: calls in one run

Places == {"voyager", "linkedin", "foreign"}

\* Narrowing what is paused must leave the Voyager writes in.
CheckPatterns(patterns) == "voyager" \in patterns

ASSUME CaptureAssumption ==
  /\ Requests \subseteq [method : {"GET", "POST"}, place : Places, act : BOOLEAN]
  /\ PATTERNS \subseteq Places /\ CheckPatterns(PATTERNS)
  /\ TIMEOUT \in Nat \ {0} /\ SETTLE \in Nat \ {0} /\ BUDGET \in Nat \ {0}
  /\ MaxCalls \in Nat

VARIABLES
  todo,       \* steps of the flow that are left; the head is under way
  waiting,    \* for a reply, for a window of time to pass, or not at all
  left,       \* of that wait
  budget,     \* left of the flow
  lastId,     \* Interceptor._id, of calls
  armed,      \* Interceptor.armed
  captured,   \* Interceptor.captured
  withheld,   \* Interceptor.withheld is not empty
  failed,     \* an exception is on its way to main
  exit,       \* how main ended
  toBrowser,  \* commands under way
  toTool,     \* replies and events under way
  fetchOn,    \* the browser pauses requests
  alive,      \* the browser runs
  clicked,    \* a click reached the page
  status,     \* of each request of the page
  heard       \* history: writes whose pause was read inside the window

tool    == <<todo, waiting, left, budget, lastId, armed, captured, withheld, failed, exit, heard>>
browser == <<fetchOn, alive, clicked, status>>
wires   == <<toBrowser, toTool>>
vars    == <<tool, browser, wires>>

\* The flows, with a click as its two calls, and what main does after them.
PostCreate ==
  <<"navigate", "arm", "find", "press", "release", "type", "find", "press", "release",
    "settle", "disarm", "judge">>
Invite ==
  <<"navigate", "find", "arm", "find", "press", "release", "find?", "press", "release",
    "settle", "disarm", "judge">>

ASSUME FlowsAssumption == Flows \subseteq {PostCreate, Invite}

Finds == {"find", "find?"}
Step  == Head(todo)

IsWrite(r) == r.method # "GET" /\ r.place \in {"voyager", "linkedin"}

\* Bug: the pattern is the one that covers the Voyager API alone.
MatchedByVoyager(r) == r.place = "voyager"

Matched(r) == r.place \in PATTERNS

-----------------------------------------------------------------------------
(* How a step of the flow ends. *)

Advance ==
  /\ todo' = Tail(todo)
  /\ waiting' = "no"
  /\ left' = 0

\* A CaptureError, or the pipe's own error.  find_optional takes the former
\* for "absent", disarm suppresses both; any other leaves through the finally
\* of capture() if it was entered.
Raise(isCaptureError) ==
  /\ waiting' = "no" /\ left' = 0
  /\ \/ /\ Step = "disarm"
        /\ todo' = Tail(todo) /\ UNCHANGED failed
     \/ /\ Step = "find?" /\ isCaptureError
        /\ todo' = SubSeq(todo, 4, Len(todo)) /\ UNCHANGED failed
     \/ /\ Step # "disarm" /\ ~(Step = "find?" /\ isCaptureError)
        /\ failed' = TRUE
        /\ todo' = IF armed THEN <<"disarm", "judge">> ELSE <<"judge">>

\* _absent: one more look, to say what there is.
Diagnose ==
  /\ todo' = <<"diagnose">> \o Tail(todo)
  /\ waiting' = "no" /\ left' = 0
  /\ UNCHANGED failed

\* find_any found nothing: it gives up at its deadline or at the flow's, or it
\* waits and looks again.
PollAgain ==
  \/ (Step = "find?" \/ budget = 0) /\ Raise(TRUE)
  \/ Step = "find" /\ Diagnose
  \/ /\ budget > 0
     /\ waiting' = "window" /\ left' = 1
     /\ UNCHANGED <<todo, failed>>

\* A look that failed: _centre takes it for nothing there, _clickable for a
\* control that can be clicked, the other calls raise.
CallFailed ==
  \/ Raise(TRUE)
  \/ Step \in Finds /\ (PollAgain \/ (Advance /\ UNCHANGED failed))

\* The reply to the call awaited.
Answered(verdict) ==
  \/ verdict = "error" /\ CallFailed
  \/ verdict = "absent" /\ PollAgain
  \/ verdict = "ok" /\ Step = "diagnose" /\ Raise(TRUE)
  \/ verdict = "ok" /\ Step # "diagnose" /\ Advance /\ UNCHANGED failed

-----------------------------------------------------------------------------
(* The driver. *)

Idle == waiting = "no" /\ exit = "running"

\* What click, find_any and navigate check before they call.
Permitted ==
  /\ Step = "press" => armed /\ budget > 0
  /\ Step \in Finds => budget > 0
  /\ Step = "navigate" => ~armed

\* Interceptor.call, up to the wait for its reply.  disarm clears the flag
\* before it calls; capture() starts the budget before it arms.
Call ==
  /\ Idle /\ Step \notin {"settle", "judge"}
  /\ Permitted /\ alive /\ lastId < MaxCalls
  /\ lastId' = lastId + 1
  /\ toBrowser' = Append(toBrowser, <<Step, lastId + 1>>)
  /\ waiting' = "reply" /\ left' = TIMEOUT
  /\ armed' = (armed /\ Step # "disarm")
  /\ budget' = IF Step = "arm" THEN BUDGET ELSE budget
  /\ UNCHANGED <<todo, captured, withheld, failed, exit, heard, toTool, browser>>

\* The check refuses, or there is nobody to write to.
CannotCall ==
  /\ Idle /\ Step \notin {"settle", "judge"}
  /\ ~Permitted \/ ~alive
  /\ Raise(~Permitted)
  /\ armed' = (armed /\ Step # "disarm")
  /\ UNCHANGED <<budget, lastId, captured, withheld, exit, heard, wires, browser>>

\* pump(settle).
Settle ==
  /\ Idle /\ Step = "settle"
  /\ waiting' = "window" /\ left' = SETTLE
  /\ UNCHANGED <<todo, budget, lastId, armed, captured, withheld, failed, exit, heard, wires, browser>>

\* The end of capture() and of main.
Judge ==
  /\ Idle /\ Step = "judge"
  /\ exit' = IF failed \/ captured = {} \/ withheld THEN "failed" ELSE "done"
  /\ UNCHANGED <<todo, waiting, left, budget, lastId, armed, captured, withheld, failed, heard, wires, browser>>

-----------------------------------------------------------------------------
(* Interceptor.call and pump, while they wait. *)

\* Before arming the driver sleeps between two looks and reads nothing.
Reading == waiting = "reply" \/ (waiting = "window" /\ armed)

\* Bug: as in CDPSession.call, an event is dropped while a reply is awaited.
OnPausedBetweenCalls(r) ==
  /\ heard' = IF armed /\ IsWrite(r) THEN heard \cup {r} ELSE heard
  /\ captured' = IF waiting = "window" /\ IsWrite(r) THEN captured \cup {r} ELSE captured
  /\ UNCHANGED <<withheld, toBrowser, todo, waiting, left, failed>>

\* Bug: a write whose body was kept back is noted, and left paused.
OnPausedWithBody(r) ==
  /\ heard' = IF armed /\ IsWrite(r) THEN heard \cup {r} ELSE heard
  /\ captured' = IF IsWrite(r) THEN captured \cup {r} ELSE captured
  /\ \/ withheld' = TRUE /\ UNCHANGED toBrowser
     \/ UNCHANGED withheld /\ toBrowser' = Append(toBrowser, <<"failRequest", r>>)
  /\ UNCHANGED <<todo, waiting, left, failed>>

\* The body may have been kept back.  A dead browser takes no command: the
\* error of the pipe ends the flow.
OnPaused(r) ==
  /\ heard' = IF armed /\ IsWrite(r) THEN heard \cup {r} ELSE heard
  /\ IF IsWrite(r)
     THEN /\ captured' = captured \cup {r}
          /\ withheld' \in {withheld, TRUE}
     ELSE UNCHANGED <<captured, withheld>>
  /\ IF alive
     THEN /\ toBrowser' = Append(toBrowser,
               <<IF IsWrite(r) THEN "failRequest" ELSE "continueRequest", r>>)
          /\ UNCHANGED <<todo, waiting, left, failed>>
     ELSE Raise(FALSE) /\ UNCHANGED toBrowser

\* _dispatch of one message.  The wait of navigate is CDPSession's, which
\* drops every event; arm raises the flag once Fetch.enable was answered.
Take ==
  /\ Reading /\ toTool # <<>>
  /\ toTool' = Tail(toTool)
  /\ LET m == Head(toTool)
         mine == m[1] = "reply" /\ waiting = "reply" /\ m[2] = lastId
     IN
     \/ /\ mine
        /\ Answered(m[3])
        /\ armed' = (armed \/ (Step = "arm" /\ m[3] = "ok"))
        /\ UNCHANGED <<captured, withheld, heard, toBrowser>>
     \/ /\ m[1] = "paused" /\ Step # "navigate"
        /\ OnPaused(m[2])
        /\ UNCHANGED armed
     \/ /\ ~mine /\ ~(m[1] = "paused" /\ Step # "navigate")
        /\ UNCHANGED <<todo, waiting, left, failed, armed, captured, withheld, heard, toBrowser>>
  /\ UNCHANGED <<budget, lastId, exit, browser>>

\* A window that ends, by time or by a pipe that is closed: the search looks
\* again, the settling is over.
WindowEnds ==
  \/ Step = "settle" /\ Advance /\ UNCHANGED failed
  \/ Step \in Finds /\ waiting' = "no" /\ left' = 0 /\ UNCHANGED <<todo, failed>>

\* Bug: a call waits for its reply, however long.
TimeOutOfWindows ==
  /\ waiting = "window" /\ left = 0
  /\ WindowEnds
  /\ UNCHANGED <<budget, lastId, armed, captured, withheld, exit, heard, wires, browser>>

TimeOut ==
  /\ waiting # "no" /\ left = 0
  /\ IF waiting = "reply" THEN CallFailed ELSE WindowEnds
  /\ UNCHANGED <<budget, lastId, armed, captured, withheld, exit, heard, wires, browser>>

EndOfFile ==
  /\ Reading /\ toTool = <<>> /\ ~alive
  /\ IF waiting = "reply" THEN CallFailed ELSE WindowEnds
  /\ UNCHANGED <<budget, lastId, armed, captured, withheld, exit, heard, wires, browser>>

Tick ==
  /\ waiting # "no" /\ left > 0
  /\ left' = left - 1
  /\ budget' = IF budget > 0 THEN budget - 1 ELSE 0
  /\ UNCHANGED <<todo, waiting, lastId, armed, captured, withheld, failed, exit, heard, wires, browser>>

-----------------------------------------------------------------------------
(* The browser and its page. *)

Paused(r) == status[r] = "paused"

Release(some) == [r \in Requests |-> IF r \in some /\ Paused(r) THEN "sent" ELSE status[r]]

\* failRequest and continueRequest are answered too, and nobody reads it.
Resolve ==
  /\ alive /\ toBrowser # <<>>
  /\ LET m == Head(toBrowser) IN
     \/ /\ m[1] = "failRequest"
        /\ status' = [status EXCEPT ![m[2]] = IF Paused(m[2]) THEN "aborted" ELSE @]
     \/ /\ m[1] = "continueRequest"
        /\ status' = Release({m[2]})
  /\ toBrowser' = Tail(toBrowser)
  /\ UNCHANGED <<tool, toTool, fetchOn, alive, clicked>>

Execute ==
  /\ alive /\ toBrowser # <<>>
  /\ LET m == Head(toBrowser) IN
     /\ m[1] \notin {"failRequest", "continueRequest"}
     /\ \E verdict \in {"ok", "error"} \cup (IF m[1] \in Finds THEN {"absent"} ELSE {}) :
          /\ toTool' = Append(toTool, <<"reply", m[2], verdict>>)
          /\ fetchOn' = IF verdict # "ok" THEN fetchOn
                        ELSE (fetchOn \/ m[1] = "arm") /\ m[1] # "disarm"
          /\ clicked' = (clicked \/ (m[1] = "release" /\ verdict = "ok"))
          /\ status' = IF m[1] = "disarm" /\ verdict = "ok" THEN Release(Requests) ELSE status
  /\ toBrowser' = Tail(toBrowser)
  /\ UNCHANGED <<tool, alive>>

\* The page issues a request.
Request ==
  /\ alive
  /\ \E r \in Requests :
       /\ status[r] = "none"
       /\ r.act => clicked
       /\ IF fetchOn /\ Matched(r)
          THEN /\ status' = [status EXCEPT ![r] = "paused"]
               /\ toTool' = Append(toTool, <<"paused", r>>)
          ELSE /\ status' = [status EXCEPT ![r] = "sent"]
               /\ UNCHANGED toTool
  /\ UNCHANGED <<tool, toBrowser, fetchOn, alive, clicked>>

\* It crashes, or main closes it.
Die ==
  /\ alive
  /\ alive' = FALSE
  /\ fetchOn' = FALSE
  /\ status' = [r \in Requests |-> IF Paused(r) THEN "aborted" ELSE status[r]]
  /\ toBrowser' = <<>>
  /\ UNCHANGED <<tool, toTool, clicked>>

-----------------------------------------------------------------------------
Init ==
  /\ todo \in Flows
  /\ waiting = "no" /\ left = 0 /\ budget = BUDGET /\ lastId = 0
  /\ armed = FALSE /\ captured = {} /\ withheld = FALSE
  /\ failed = FALSE /\ exit = "running" /\ heard = {}
  /\ toBrowser = <<>> /\ toTool = <<>>
  /\ fetchOn = FALSE /\ alive = TRUE /\ clicked = FALSE
  /\ status = [r \in Requests |-> "none"]

Tool == Call \/ CannotCall \/ Settle \/ Judge \/ Take \/ TimeOut \/ EndOfFile

Chromium == Resolve \/ Execute \/ Request \/ Die

Next == Tool \/ Tick \/ Chromium

Spec == Init /\ [][Next]_vars

\* The tool is scheduled and time passes; nothing is asked of the browser.
FairSpec == Spec /\ WF_vars(Tool) /\ WF_vars(Tick)

-----------------------------------------------------------------------------
(* Properties. *)

\* The type invariant; a write captured by the tool had been paused.
CaptureTypeOK ==
  /\ Idle => todo # <<>>
  /\ waiting \in {"no", "reply", "window"}
  /\ left \in 0..(TIMEOUT + SETTLE) /\ budget \in 0..BUDGET /\ lastId \in 0..MaxCalls
  /\ exit \in {"running", "done", "failed"}
  /\ captured \subseteq {r \in Requests : IsWrite(r)} /\ heard \subseteq captured
  /\ status \in [Requests -> {"none", "paused", "sent", "aborted"}]
  /\ \A r \in captured : status[r] # "none"

\* A write whose pause the tool read inside the window never reaches LinkedIn,
\* whatever the tool was waiting for when it read it, however the flow went
\* on, and although disarming lets go of what is still paused.
HeardIsHeld == \A r \in heard : status[r] # "sent"

\* While the tool counts itself as armed no write reaches LinkedIn, and none a
\* click of the flow has caused does before the tool disarms.
HeldWhileArmed ==
  [][\A r \in Requests :
       IsWrite(r) /\ status[r] # "sent" /\ status'[r] = "sent" =>
         ~armed /\ (r.act => ToSet(todo) \subseteq {"disarm", "judge"})]_vars

\* A run ends, though a control never renders, the browser hangs or is gone.
RunEnds == <>(exit # "running")

\* What the run reports as captured and aborted has not reached LinkedIn.
\* (It may have: a write that the page issues before the browser executes
\* Fetch.disable is let go by it, and recorded while disarm waits.)
ReportedIsAborted == exit = "done" => \A r \in captured : status[r] # "sent"

=============================================================================
