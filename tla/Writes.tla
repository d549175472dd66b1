------------------------------- MODULE Writes -------------------------------
(***************************************************************************)
(* Callers that follow the envelope, the writes they ask for, and what     *)
(* becomes of them at LinkedIn: cmd_messages, _send_into and the other     *)
(* handlers of cli.py over surfaces/*.py.                                  *)
(*                                                                         *)
(* A caller asks for one thing and may run the command again, a process of *)
(* its own each time, when the envelope says retryable or, for a reply,    *)
(* when it says that the outcome is unknown: a rerun looks at the newest   *)
(* page of the thread first.  All replies here are the same text for the   *)
(* same thread.                                                            *)
(*                                                                         *)
(* LinkedIn is external.  A request may land after its run has ended; what *)
(* landed shows on the page later still; other messages push it off again. *)
(***************************************************************************)
EXTENDS Answers, Sequences, FiniteSets

CONSTANTS
  Callers,
  Asked,      \* what the callers may ask for: a verb for each
  PAGE,       \* messages on the newest page
  MaxRuns,    \* bound: runs of a caller
  MaxOthers   \* bound: messages of others

ASSUME WritesAssumption ==
  /\ Asked \subseteq [Callers -> Verbs]
  /\ PAGE \in Nat \ {0} /\ MaxRuns \in Nat \ {0} /\ MaxOthers \in Nat

VARIABLES
  verb,      \* what a caller asks for
  mailbox,   \* the mailbox its conversation urn names
  pc,        \* where its run is
  run,       \* runs so far
  verdict,   \* what its last run said of the write, and whether to retry
  issued,    \* runs whose write left
  landed,    \* runs whose write LinkedIn has applied
  flying,    \* runs whose write may land yet
  thread,    \* the messages of the thread, oldest first
  shown,     \* messages of this account that the page shows
  delivered, \* mailboxes a message was delivered into
  excused,   \* history: a rerun could not see what an earlier run had done
  misread    \* history: runs whose answer was taken for a success it did not tell

caller   == <<verb, mailbox, pc, run, verdict>>
linkedin == <<issued, landed, flying, thread, shown, delivered>>
history  == <<excused, misread>>
vars     == <<caller, linkedin, history>>

Runs == Callers \X (1..MaxRuns)
This(c) == <<c, run[c]>>
Other == <<>>

Replying(c) == verb[c] \in Replies

-----------------------------------------------------------------------------
(* The command line. *)

\* What the argument names.
Arguments == {"nothing", "activity", "share", "url", "comment", "wrapped comment", "member", "name"}

\* Flags; "unlisted" is an audience or a reaction that is none of the list.
Flags == {"text", "yes", "note", "idempotency-key", "unlisted", "conversation"}

ActivityUrn(arg) == arg = "activity"
CommentUrn(arg)  == arg \in {"comment", "wrapped comment"}
ProfileUrn(arg)  == arg = "member"

\* posts.audience, and _reaction likewise.
Listed(flags) == "unlisted" \notin flags

PostTakes(flags) == "text" \in flags /\ "idempotency-key" \notin flags /\ Listed(flags)

DeleteTakes(arg, flags) == ActivityUrn(arg) /\ "yes" \in flags /\ flags \cap {"text", "unlisted"} = {}

\* A destination is named one way.  The thread a reply names is looked at when
\* the thread is read.
MessageTakes(what, arg, flags) ==
  \/ what = "mark" /\ arg = "nothing" /\ "yes" \in flags
  \/ what = "send" /\ arg = "name" /\ "text" \in flags /\ "conversation" \notin flags
  \/ what \in {"reply", "keyed"} /\ "text" \in flags

\* What a command can refuse without asking LinkedIn for anything.
Takes(what, arg, flags) ==
  CASE what = "post"           -> PostTakes(flags)
    [] what = "delete post"    -> DeleteTakes(arg, flags)
    [] what = "react"          -> ActivityUrn(arg) /\ Listed(flags)
    [] what = "unreact"        -> ActivityUrn(arg)
    [] what = "comment"        -> ActivityUrn(arg) /\ "text" \in flags
    [] what = "delete comment" -> CommentUrn(arg) /\ "text" \notin flags
    [] what = "invite"         -> (ProfileUrn(arg) \/ arg = "name") /\ "note" \notin flags
    [] OTHER                   -> MessageTakes(what, arg, flags)

\* A name is resolved first, a thread is read before it is written into.
Opening(what, arg, flags) ==
  CASE ~Takes(what, arg, flags) -> "refused"
    [] Takes(what, arg, flags) /\ what \in {"send", "invite"} /\ arg = "name" -> "lookup"
    [] Takes(what, arg, flags) /\ what \in {"reply", "keyed"} -> "read"
    [] OTHER -> "send"

Openings ==
  {[verb |-> v, step |-> Opening(v, arg, flags)] : v \in Verbs, arg \in Arguments, flags \in SUBSET Flags}

-----------------------------------------------------------------------------
(* The newest page. *)

OnView(m) == m = Other \/ m \in shown

Visible(messages) == {i \in DOMAIN messages : OnView(messages[i])}

\* Fewer than PAGE messages are newer.
Newest(messages) ==
  {i \in Visible(messages) : Cardinality({j \in Visible(messages) : j > i}) < PAGE}

NewestPage(messages) == {messages[i] : i \in Newest(messages)}

\* A reply of this account is there to be found.
OnPage(messages) == NewestPage(messages) \ {Other} # {}

\* Bug: the page is read from the wrong end, and only the first message there.
AlreadySentFirst(messages) ==
  \E i \in Visible(messages) : messages[i] # Other /\ \A j \in Visible(messages) : i <= j

\* already_sent: by text and sender, so any copy will do.
AlreadySent(messages) == NewestPage(messages) \ {Other} # {}

\* Bug: only the mailboxes that LinkedIn's answer names are looked at.
ConfirmsAnswer(c, named) == named = {"own"}

\* confirm_reply_target, of an answer with messages on it.
ConfirmsTarget(c, named) == mailbox[c] = "own" /\ named = {"own"}

-----------------------------------------------------------------------------
(* The runs. *)

\* The slug itself makes no difference to what a caller does next.
Heeded(v) == [says |-> v.says, retryable |-> v.retryable]

EndsWith(c, v) ==
  /\ verdict' = [verdict EXCEPT ![c] = v]
  /\ pc' = [pc EXCEPT ![c] = "ended"]

Goes(c, where) ==
  /\ pc' = [pc EXCEPT ![c] = where]
  /\ UNCHANGED verdict

Running(c) == pc[c] \notin {"idle", "ended"}

\* "Re-running the identical command" after an unknown outcome, or because the
\* envelope says retryable.
MayRerun(c) ==
  \/ verdict[c].retryable
  \/ Replying(c) /\ verdict[c].says = "unknown"

Unseen == {r \in issued : verb[r[1]] \in Replies} \ NewestPage(thread) # {}

\* The command as it is given; what it can refuse locally ends it.
Start(c) ==
  /\ pc[c] = "idle" \/ (pc[c] = "ended" /\ MayRerun(c))
  /\ run[c] < MaxRuns
  /\ run' = [run EXCEPT ![c] = @ + 1]
  /\ excused' = (excused \/ (Replying(c) /\
        (Unseen \/ verb[c] = "keyed" \/ \E d \in Callers \ {c} : Running(d) /\ Replying(d))))
  /\ \E opening \in Openings :
       /\ opening.verb = verb[c]
       /\ IF opening.step = "refused" THEN EndsWith(c, Heeded(Usage)) ELSE Goes(c, opening.step)
  /\ UNCHANGED <<verb, mailbox, linkedin, misread>>

ReadFailures == {Heeded(v) : v \in {Request(r, "GET") : r \in Responses} \ {Done}}

\* profile.resolve_urn and find_conversation_with.
Lookup(c) ==
  /\ pc[c] = "lookup"
  /\ \/ \E v \in ReadFailures : EndsWith(c, v)
     \/ EndsWith(c, Heeded(Usage))
     \/ Goes(c, IF verb[c] = "send" THEN "read" ELSE "send")
  /\ UNCHANGED <<verb, mailbox, run, linkedin, history>>

\* The mailbox of this account is asked for, unless a run before learned it.
\* A foreign argument is refused without another request; an empty page, a page
\* that names no mailbox or another's, and a reply already there end the run.
ReadThread(c) ==
  /\ pc[c] = "read"
  /\ \/ \E v \in ReadFailures : EndsWith(c, v)
     \/ \E named \in SUBSET {"own", "foreign"} :
          IF ~ConfirmsTarget(c, named)
          THEN EndsWith(c, Heeded(NothingSent))
          ELSE IF AlreadySent(thread) /\ verb[c] # "keyed" THEN EndsWith(c, Heeded(Done))
               ELSE Goes(c, "send")
  /\ UNCHANGED <<verb, mailbox, run, linkedin, history>>

\* The one request of the write.
Send(c) ==
  /\ pc[c] = "send"
  /\ Goes(c, "sent")
  /\ issued' = issued \cup {This(c)}
  /\ flying' = flying \cup {This(c)}
  /\ UNCHANGED <<verb, mailbox, run, landed, thread, shown, delivered, history>>

\* The request never reaches the page: the supervisor fails it, or the state
\* file does before it.  A write that fails without a status is never called a
\* failure.
Undelivered(c) ==
  /\ pc[c] = "send"
  /\ \E v \in {Undeliverable(Method(verb[c])), Fault("upstream")} : EndsWith(c, Heeded(v))
  /\ UNCHANGED <<verb, mailbox, run, linkedin, history>>

\* A gateway gives up without knowing, unless it quotes LinkedIn's reason.
Decides(r) ==
  r.via = "answer" /\ (r.status \in {500, 503} => "quota.error" \in r.json)

\* What an answer says of the write it answers: an error, in a status or in
\* the body, that nothing was applied; the urn of what it made, or a body for a
\* write that creates none, that it was.  The urn of anything else, a gateway's
\* error, a page or no body says nothing.  LinkedIn puts a count of the quota
\* beside a success too.
Truthful(v, applied, r) ==
  LET spoke == r.via = "answer" /\ r.place = "api"
      fine  == spoke /\ r.status < 400
                 /\ (r.payload \in {"json", "blank"} \/ (r.payload = "null" /\ r.status = 204))
  IN
  /\ spoke /\ Decides(r) /\ r.status >= 400 => ~applied
  /\ fine /\ ErrorsIn(r.json) => ~applied
  /\ fine /\ ~ErrorsIn(r.json) /\ Made(r.json) => applied
  /\ fine /\ ~ErrorsIn(r.json) /\ v \in {"react", "unreact", "delete post"}
       /\ (DataIn(r.json) \/ IncludedIn(r.json)) => applied
  /\ fine /\ ~ErrorsIn(r.json) /\ v \in {"delete comment", "mark"} => applied
  /\ fine /\ ~Made(r.json) /\ v = "invite" /\ "quota.data" \in r.json => ~applied
  /\ spoke /\ r.payload = "text" /\ "quota.error" \in r.json => ~applied

Reports ==
  {[verb |-> t[1], applied |-> t[2], decided |-> Decides(t[3]), misread |-> Misread(t[1], t[3].json),
    verdict |-> Heeded(WriteVerdict(t[1], t[3]))] :
     t \in {u \in Verbs \X BOOLEAN \X Responses : Truthful(u[1], u[2], u[3])}}

Reported(c, report) ==
  report.verb = verb[c] /\ report.applied = (This(c) \in landed)

\* Bug: the run itself tries again.
AnsweredOrAgain(c) ==
  /\ pc[c] = "sent"
  /\ \E report \in {r \in Reports : Reported(c, r)} :
       IF ~report.decided THEN Goes(c, "send") ELSE EndsWith(c, report.verdict)
  /\ UNCHANGED <<verb, mailbox, run, issued, landed, flying, thread, shown, delivered, history>>

\* A write that was not decided may land yet.
Answered(c) ==
  /\ pc[c] = "sent"
  /\ \E report \in Reports :
       /\ Reported(c, report)
       /\ EndsWith(c, report.verdict)
       /\ flying' = IF report.decided THEN flying \ {This(c)} ELSE flying
       /\ misread' = IF report.misread THEN misread \cup {This(c)} ELSE misread
  /\ UNCHANGED <<verb, mailbox, run, issued, landed, thread, shown, delivered, excused>>

-----------------------------------------------------------------------------
(* LinkedIn, and the other members of the thread. *)

Land(r) ==
  /\ r \in flying
  /\ flying' = flying \ {r}
  /\ landed' = landed \cup {r}
  /\ IF verb[r[1]] \in Replies
     THEN /\ thread' = Append(thread, r)
          /\ delivered' = delivered \cup {mailbox[r[1]]}
     ELSE UNCHANGED <<thread, delivered>>
  /\ UNCHANGED <<caller, issued, shown, history>>

Show(r) ==
  /\ r \in landed \ shown /\ verb[r[1]] \in Replies
  /\ shown' = shown \cup {r}
  /\ UNCHANGED <<caller, issued, landed, flying, thread, delivered, history>>

\* Somebody else writes; the last copy of the reply may leave the page.
Intrude ==
  /\ Len(thread) < MaxOthers + Cardinality(landed)
  /\ thread' = Append(thread, Other)
  /\ excused' = (excused \/ (OnPage(thread) /\ ~OnPage(thread')))
  /\ UNCHANGED <<caller, issued, landed, flying, shown, delivered, misread>>

-----------------------------------------------------------------------------
Init ==
  /\ verb \in Asked
  /\ mailbox \in [Callers -> {"own", "foreign"}]
  /\ \A c \in Callers : verb[c] \notin {"reply", "keyed"} => mailbox[c] = "own"
  /\ pc = [c \in Callers |-> "idle"]
  /\ run = [c \in Callers |-> 0]
  /\ verdict = [c \in Callers |-> [says |-> "neither", retryable |-> FALSE]]
  /\ issued = {} /\ landed = {} /\ flying = {}
  /\ thread = <<>> /\ shown = {} /\ delivered = {}
  /\ excused = FALSE /\ misread = {}

Command(c) ==
  Start(c) \/ Lookup(c) \/ ReadThread(c) \/ Undelivered(c) \/ Send(c) \/ Answered(c)

LinkedIn == Intrude \/ \E r \in Runs : Land(r) \/ Show(r)

Next == LinkedIn \/ \E c \in Callers : Command(c)

Spec == Init /\ [][Next]_vars

-----------------------------------------------------------------------------
(* Properties. *)

\* The type invariant; a write flies or has landed only after it was issued,
\* and a run issues one, once.
WritesTypeOK ==
  /\ verb \in Asked
  /\ pc \in [Callers -> {"idle", "lookup", "read", "send", "sent", "ended"}]
  /\ \A c \in Callers : verdict[c].says \in {"done", "nothing", "unknown", "neither"}
  /\ flying \cup landed \subseteq issued /\ flying \cap landed = {}
  /\ shown \subseteq landed
  /\ \A c \in Callers : pc[c] \in {"lookup", "read", "send"} => This(c) \notin issued

Ended(c) == pc[c] = "ended"

\* Only a throttled read is reported retryable: the write of that run was not
\* even issued, so that a caller who does as it is told repeats nothing.
RetryableIsSafe ==
  \A c \in Callers : Ended(c) /\ verdict[c].retryable => This(c) \notin issued

\* What is reported done was done: by this run, or, for a reply that was
\* already on the page, by an earlier one; or a surface misread the answer, in
\* one of the ways that Misread names and no other.
OkIsApplied ==
  \A c \in Callers : Ended(c) /\ verdict[c].says = "done" =>
    \/ This(c) \in landed
    \/ Replying(c) /\ shown # {}
    \/ This(c) \in misread

\* Where a run says that nothing was applied nothing was, nor will be.
RefusedIsNotApplied ==
  \A c \in Callers : Ended(c) /\ verdict[c].says = "nothing" => This(c) \notin landed \cup flying

\* The same reply lands twice only if, since some run of it was started, an
\* earlier one was on its way or out of sight, or still running, or the
\* operator insisted.
TwiceOnlyUnseen ==
  Cardinality({r \in landed : verb[r[1]] \in Replies}) > 1 => excused

\* Nothing is ever delivered into another member's mailbox, whatever thread a
\* caller names and whichever one LinkedIn answers with.
OwnMailboxOnly == delivered \subseteq {"own"}

\* No other write lands twice for a caller who follows the envelope.
LandsOnce ==
  \A c \in Callers : ~Replying(c) => Cardinality({r \in landed : r[1] = c}) <= 1

=============================================================================
