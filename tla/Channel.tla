------------------------------ MODULE Channel -------------------------------
(***************************************************************************)
(* The supervisor's way to its browser: PipeConnection of                  *)
(* linkedin_cli/pipe.py, CDPSession.call of cdp.py over it, and the order  *)
(* in which Browser of supervisor.py uses the two.                         *)
(*                                                                         *)
(* Two sessions share one connection and each numbers its calls from 1; a  *)
(* reply is matched by its number alone.  The control session makes two    *)
(* calls before the page session exists and one, Browser.close, at the     *)
(* very end.  A message is one unit of text and a terminator, so that any  *)
(* read may stop inside a message or hold several.  A bare terminator,     *)
(* which _take skips, is not sent by this browser.                         *)
(*                                                                         *)
(* Chromium is external: it reads whole requests, answers each once and in *)
(* any order or never, sends events at will, and may die in mid-message.   *)
(* A request is assumed to fit into the kernel's buffer of the pipe.       *)
(***************************************************************************)
EXTENDS Integers, Sequences

CONSTANTS
  NAVIGATE_CALL,  \* the number of the first Page.navigate
  TIMEOUT,        \* of a call and of a wait for the load event
  MaxCalls,       \* bound: calls of the page session
  MaxSaid         \* bound: messages the browser writes ahead of the reader

ASSUME ChannelAssumption ==
  /\ NAVIGATE_CALL \in Nat /\ NAVIGATE_CALL >= 2
  /\ TIMEOUT \in Nat \ {0}
  /\ MaxCalls \in Nat /\ MaxCalls > NAVIGATE_CALL
  /\ MaxSaid \in Nat

VARIABLES
  phase,     \* how far Browser is
  lastId,    \* CDPSession._id of either session
  awaited,   \* the call, or the load event, the one thread waits for
  left,      \* of the deadline of that wait
  outbox,    \* what os.write still has to move
  inbox,     \* written, and not yet read by the browser
  pipe,      \* written by the browser, and not yet read
  buf,       \* PipeConnection._buf
  closed,    \* PipeConnection._closed
  alive,     \* the browser runs
  running,   \* calls the browser has read and not answered
  \* History variables.
  asked,     \* messages sent and not yet read by the browser
  said,      \* messages of the browser not yet taken
  outcome,   \* how each call ended
  reply,     \* and the call whose reply it was given
  executed   \* calls the browser answered, or began to

clientVars  == <<phase, lastId, awaited, left>>
wires       == <<outbox, inbox, pipe, buf>>
browserVars == <<alive, running, executed>>
results     == <<outcome, reply>>
history     == <<asked, said>>
vars == <<clientVars, wires, closed, browserVars, history, results>>

None == <<>>
Load == <<"Page.loadEventFired">>
Note == <<"event">>
End  == <<"FRAME_END">>

ControlCalls == {"control"} \X (1..3)
PageCalls    == {"page"} \X (1..MaxCalls)
Calls        == ControlCalls \cup PageCalls
Events       == {Load, Note}

Outcomes == {"idle", "waiting", "answered", "refused", "failed", "unsent"}

Phases == {"launch", "start", "load", "arrive", "up",
           "closing", "closed", "abandoned"}

Frame(m) == <<m, End>>

\* The bytes of a sequence of messages.
Framed(messages) ==
  [i \in 1..(2 * Len(messages)) |->
     IF i % 2 = 1 THEN messages[(i + 1) \div 2] ELSE End]

Drop(s, n) == SubSeq(s, n + 1, Len(s))

Complete(s) == \E i \in DOMAIN s : s[i] = End

\* Up to the first terminator.
FrameLength(s) == CHOOSE n \in DOMAIN s :
                    s[n] = End /\ \A i \in 1..(n - 1) : s[i] # End

Message(s) == SubSeq(s, 1, FrameLength(s) - 1)

-----------------------------------------------------------------------------
(* Browser.launch, start, reload and close: whose turn it is. *)

\* The session that makes the next call of each phase.
Turn(session) ==
  \/ session = "control" /\ phase = "launch"
  \/ session = "control" /\ phase = "closing"
  \/ session = "page" /\ phase \in {"start", "arrive", "up"} /\ lastId["page"] < MaxCalls

\* What the end of a wait leads to.  A launch that fails is given up; a page
\* in use lets any call fail; close ignores how its call went.
Onward(ok) ==
  \/ phase = "up" /\ UNCHANGED phase
  \/ phase = "closing" /\ phase' = "closed"
  \/ phase \notin {"up", "closing"} /\ ~ok /\ phase' = "abandoned"
  \/ /\ phase = "launch" /\ ok
     /\ phase' = IF lastId["control"] = 2 THEN "start" ELSE "launch"
  \/ /\ phase = "start" /\ ok
     /\ phase' = IF lastId["page"] = NAVIGATE_CALL THEN "load" ELSE "start"
  \/ phase = "load" /\ ok /\ phase' = "arrive"
  \/ phase = "arrive" /\ ok /\ phase' \in {"arrive", "up", "abandoned"}

\* connection.close() follows the call of Browser.close, whatever came of it.
Closes == phase' = "closed"

Settled(how, ok) ==
  /\ outcome' = IF awaited \in Calls THEN [outcome EXCEPT ![awaited] = how] ELSE outcome
  /\ awaited' = None
  /\ left' = 0
  /\ Onward(ok)

\* A wait that ends in an exception, with the connection closed or not.
Failed(broken) ==
  /\ Settled("failed", FALSE)
  /\ closed' = (closed \/ broken \/ Closes)
  /\ UNCHANGED <<lastId, inbox, pipe, buf, browserVars, history, reply>>

-----------------------------------------------------------------------------
(* CDPSession.call and PipeConnection.send. *)

Call(session) ==
  LET call == <<session, lastId[session] + 1>> IN
  /\ awaited = None /\ Turn(session) /\ ~closed
  /\ lastId' = [lastId EXCEPT ![session] = @ + 1]
  /\ awaited' = call
  /\ left' = TIMEOUT
  /\ outbox' = Frame(call)
  /\ asked' = Append(asked, call)
  /\ outcome' = [outcome EXCEPT ![call] = "waiting"]
  /\ UNCHANGED <<phase, inbox, pipe, buf, closed, browserVars, said, reply>>

\* A closed connection takes no call.
CallOnClosed(session) ==
  LET call == <<session, lastId[session] + 1>> IN
  /\ awaited = None /\ Turn(session) /\ closed
  /\ lastId' = [lastId EXCEPT ![session] = @ + 1]
  /\ outcome' = [outcome EXCEPT ![call] = "unsent"]
  /\ Onward(FALSE)
  /\ UNCHANGED <<awaited, left, wires, closed, browserVars, history, reply>>

\* Bug: one os.write is taken to have moved everything.
WriteOnce ==
  /\ outbox # <<>> /\ alive
  /\ \E n \in 1..Len(outbox) : inbox' = inbox \o SubSeq(outbox, 1, n)
  /\ outbox' = <<>>
  /\ UNCHANGED <<clientVars, pipe, buf, closed, browserVars, history, results>>

\* os.write may return having written only part.
Write ==
  /\ outbox # <<>> /\ alive
  /\ \E n \in 1..Len(outbox) :
       /\ inbox' = inbox \o SubSeq(outbox, 1, n)
       /\ outbox' = Drop(outbox, n)
  /\ UNCHANGED <<clientVars, pipe, buf, closed, browserVars, history, results>>

\* Bug: the rest of a message that failed to be written stays behind.
UnwritableKeepsTheRest ==
  /\ outbox # <<>> /\ ~alive
  /\ Failed(TRUE)
  /\ UNCHANGED outbox

\* EPIPE.
Unwritable ==
  /\ outbox # <<>> /\ ~alive
  /\ outbox' = <<>>
  /\ Failed(TRUE)

-----------------------------------------------------------------------------
(* PipeConnection.recv under CDPSession.call and Browser._wait_for_load. *)

\* Browser._wait_for_load, after the reply to Page.navigate.
WaitForLoad ==
  /\ awaited = None /\ ~closed
  /\ phase = "load" \/ (phase = "up" /\ lastId["page"] > NAVIGATE_CALL)
  /\ awaited' = Load
  /\ left' = TIMEOUT
  /\ UNCHANGED <<phase, lastId, wires, closed, browserVars, history, results>>

Reading == awaited # None /\ outbox = <<>>

\* Bug: the first reply is taken for the one awaited.
MatchesAnyReply(text) ==
  IF awaited = Load THEN text = <<Load>>
  ELSE \E c \in Calls : text = <<c>>

\* message.get("id") != message_id; events have no id.
Matches(text) ==
  IF awaited = Load THEN text = <<Load>>
  ELSE \E c \in Calls : text = <<c>> /\ c[2] = awaited[2]

\* Bug: every message taken starts the deadline anew.
TakeRestartsDeadline ==
  /\ Reading /\ Complete(buf)
  /\ buf' = Drop(buf, FrameLength(buf))
  /\ said' = Tail(said)
  /\ LET text == Message(buf) IN
     \/ /\ Matches(text)
        /\ \/ Settled("answered", TRUE)
           \/ awaited # Load /\ Settled("refused", FALSE)
        /\ reply' = IF awaited = Load THEN reply ELSE [reply EXCEPT ![awaited] = text[1]]
        /\ closed' = (closed \/ Closes)
     \/ /\ ~Matches(text)
        /\ left' = TIMEOUT
        /\ UNCHANGED <<phase, awaited, closed, results>>
  /\ UNCHANGED <<lastId, outbox, inbox, pipe, browserVars, asked>>

\* The next message is the one awaited, a result or an error, or is dropped.
Take ==
  /\ Reading /\ Complete(buf)
  /\ buf' = Drop(buf, FrameLength(buf))
  /\ said' = Tail(said)
  /\ LET text == Message(buf) IN
     \/ /\ Matches(text)
        /\ \/ Settled("answered", TRUE)
           \/ awaited # Load /\ Settled("refused", FALSE)
        /\ reply' = IF awaited = Load THEN reply ELSE [reply EXCEPT ![awaited] = text[1]]
        /\ closed' = (closed \/ Closes)
     \/ /\ ~Matches(text)
        /\ UNCHANGED <<phase, awaited, left, closed, results>>
  /\ UNCHANGED <<lastId, outbox, inbox, pipe, browserVars, asked>>

\* One os.read: anything from a part of a message to everything there is.
Fill ==
  /\ Reading /\ ~Complete(buf) /\ left > 0
  /\ \E n \in 1..Len(pipe) :
       /\ buf' = buf \o SubSeq(pipe, 1, n)
       /\ pipe' = Drop(pipe, n)
  /\ UNCHANGED <<clientVars, outbox, inbox, closed, browserVars, history, results>>

\* An empty read: the browser is gone and everything it wrote is read.
EndOfFile ==
  /\ Reading /\ ~Complete(buf) /\ left > 0
  /\ ~alive /\ pipe = <<>>
  /\ Failed(TRUE)
  /\ UNCHANGED outbox

Tick ==
  /\ Reading /\ left > 0
  /\ left' = left - 1
  /\ UNCHANGED <<phase, lastId, awaited, wires, closed, browserVars, history, results>>

\* Bug: a timeout leaves nothing in the buffer.
TimeOutDropsBuffer ==
  /\ Reading /\ left = 0
  /\ Settled("failed", FALSE)
  /\ closed' = (closed \/ Closes)
  /\ buf' = <<>>
  /\ UNCHANGED <<lastId, outbox, inbox, pipe, browserVars, history, reply>>

\* The part of a message that was read stays in the buffer.
TimeOut ==
  /\ Reading /\ left = 0
  /\ Failed(FALSE)
  /\ UNCHANGED outbox

\* Browser.close begins: the daemon ends, or replaces its browser.
Close ==
  /\ phase = "up" /\ awaited = None
  /\ phase' = "closing"
  /\ UNCHANGED <<lastId, awaited, left, wires, closed, browserVars, history, results>>

-----------------------------------------------------------------------------
(* The browser. *)

Accept ==
  /\ alive /\ Complete(inbox)
  /\ inbox' = Drop(inbox, FrameLength(inbox))
  /\ asked' = Tail(asked)
  /\ running' = running \cup {c \in Calls : Message(inbox) = <<c>>}
  /\ UNCHANGED <<clientVars, outbox, pipe, buf, closed, alive, executed, said, results>>

Say(m, bytes) ==
  /\ pipe' = pipe \o bytes
  /\ said' = Append(said, m)

Reply ==
  /\ alive /\ Len(said) < MaxSaid
  /\ \E c \in running :
       /\ Say(c, Frame(c))
       /\ running' = running \ {c}
       /\ executed' = executed \cup {c}
  /\ UNCHANGED <<clientVars, outbox, inbox, buf, closed, alive, asked, results>>

Notify ==
  /\ alive /\ Len(said) < MaxSaid
  /\ \E event \in Events : Say(event, Frame(event))
  /\ UNCHANGED <<clientVars, outbox, inbox, buf, closed, alive, running, executed, asked, results>>

\* With the last answer written, half written or never begun.
Die ==
  /\ alive
  /\ alive' = FALSE
  /\ \/ UNCHANGED <<pipe, said, executed>>
     \/ \E c \in running : Say(c, <<c>>) /\ executed' = executed \cup {c}
  /\ running' = {}
  /\ inbox' = <<>> /\ asked' = <<>>
  /\ UNCHANGED <<clientVars, outbox, buf, closed, results>>

-----------------------------------------------------------------------------
Init ==
  /\ phase = "launch"
  /\ lastId = [session \in {"control", "page"} |-> 0]
  /\ awaited = None /\ left = 0
  /\ outbox = <<>> /\ inbox = <<>> /\ pipe = <<>> /\ buf = <<>>
  /\ closed = FALSE /\ alive = TRUE
  /\ running = {} /\ executed = {}
  /\ asked = <<>> /\ said = <<>>
  /\ outcome = [c \in Calls |-> "idle"]
  /\ reply = [c \in Calls |-> None]

Client ==
  \/ \E session \in {"control", "page"} : Call(session) \/ CallOnClosed(session)
  \/ WaitForLoad \/ Close

\* What the thread does once it waits.
Waiting == Write \/ Unwritable \/ Take \/ Fill \/ EndOfFile \/ TimeOut

Chromium == Accept \/ Reply \/ Notify \/ Die

Next == Client \/ Waiting \/ Tick \/ Chromium

Spec == Init /\ [][Next]_vars

\* The supervisor is scheduled and time passes; nothing is asked of Chromium.
FairSpec == Spec /\ WF_vars(Waiting) /\ WF_vars(Tick)

-----------------------------------------------------------------------------
(* Properties. *)

\* The type invariant; and what is left to write belongs to a call waited for.
ChannelTypeOK ==
  /\ phase \in Phases
  /\ lastId["control"] \in 0..3 /\ lastId["page"] \in 0..MaxCalls
  /\ awaited \in Calls \cup {None, Load}
  /\ left \in 0..TIMEOUT
  /\ outbox # <<>> => awaited \in Calls
  /\ closed \in BOOLEAN /\ alive \in BOOLEAN
  /\ running \subseteq Calls /\ executed \subseteq Calls
  /\ outcome \in [Calls -> Outcomes]
  /\ reply \in [Calls -> Calls \cup {None}]

IsPrefixOf(s, t) == Len(s) <= Len(t) /\ s = SubSeq(t, 1, Len(s))

\* However writes and reads cut the stream, and whichever waits time out in
\* the middle of a message, either side holds exactly what the other has sent
\* and it has not yet taken; only the last message of a browser that died may
\* be torn.
FramesIntact ==
  /\ alive => inbox \o outbox = Framed(asked)
  /\ alive => buf \o pipe = Framed(said)
  /\ IsPrefixOf(buf \o pipe, Framed(said))

\* A wait ends, though the browser may be silent, die, or send events without
\* end: the deadline is one for the whole wait.
WaitsEnd == \A c \in Calls \cup {Load} : (awaited = c) ~> (awaited # c)

\* A caller is given the reply to its own call, after the browser executed it,
\* or a failure: late replies, the two sessions' equal numbers and a shared
\* connection never hand it another's.
Promise == INSTANCE Rpc
  WITH Calls <- Calls, outcome <- outcome, reply <- reply, executed <- executed
ImplementsRpc == Promise!Spec

=============================================================================
