---------------------------- MODULE WritesProofs ----------------------------
(***************************************************************************)
(* What holds of the writes for any callers, runs and messages of others.  *)
(*                                                                         *)
(* First what a verdict says of the answer it was made of, over every      *)
(* answer LinkedIn may truthfully give (ReportSound); then where the run   *)
(* of a caller stands and what it has out, and last the replies: as long   *)
(* as nothing was excused, the one reply that may be out is on the page    *)
(* that the next run reads before it sends.                                *)
(***************************************************************************)
EXTENDS Writes, FiniteSetTheorems, SequenceTheorems, TLAPS

-----------------------------------------------------------------------------
(* What a verdict says of the answer. *)

\* Only a body that parses, or a text that is quoted, has marks, and only an
\* answer has a body.
LEMMA ResponseShape ==
  ASSUME NEW r \in Responses
  PROVE  /\ r.via \in {"answer", "error", "odd"} /\ r.status \in Nat
         /\ r.place \in {"api", "login", "checkpoint"}
         /\ r.payload \in {"null", "blank", "html", "challenge", "text", "json"}
         /\ r.payload \notin {"json", "text"} \/ r.via # "answer" => r.json = {}
         /\ r.payload \in {"json", "text"} => r.place = "api"
         /\ r.status < 400 => r.status \in {0, 200, 204}
<1> DEFINE Answer(status, place, payload, json) ==
             [via |-> "answer", status |-> status, place |-> place, payload |-> payload, json |-> json]
           statuses == {200, 204, 400, 401, 404, 429, 500, 503, 999}
<1>1. \/ \E v \in {"error", "odd"} : r = [Answer(0, "api", "null", {}) EXCEPT !.via = v]
      \/ \E s \in statuses, p \in {"null", "blank", "html", "challenge"} : r = Answer(s, "api", p, {})
      \/ \E s \in {200, 404}, p \in {"login", "checkpoint"} : r = Answer(s, p, "html", {})
      \/ \E s \in statuses : \E b \in Texts(s) : r = Answer(s, "api", "text", b)
      \/ \E s \in statuses \ {204} : \E b \in Bodies(s) : r = Answer(s, "api", "json", b)
  <2> HIDE DEF statuses, Answer
  <2> QED BY DEF Responses, Answer, statuses
<1>2. CASE \E v \in {"error", "odd"} : r = [Answer(0, "api", "null", {}) EXCEPT !.via = v]
  BY <1>2
<1>3. CASE \E s \in statuses, p \in {"null", "blank", "html", "challenge"} : r = Answer(s, "api", p, {})
  BY <1>3
<1>4. CASE \E s \in {200, 404}, p \in {"login", "checkpoint"} : r = Answer(s, p, "html", {})
  BY <1>4
<1>5. CASE \E s \in statuses : \E b \in Texts(s) : r = Answer(s, "api", "text", b)
  BY <1>5
<1>6. CASE \E s \in statuses \ {204} : \E b \in Bodies(s) : r = Answer(s, "api", "json", b)
  BY <1>6
<1> QED BY <1>1, <1>2, <1>3, <1>4, <1>5, <1>6

\* What is written into a verdict is read out of it.
LEMMA VerdictFields ==
  /\ \A slug, again, says : /\ Verdict(slug, again, says).says = says
                            /\ Verdict(slug, again, says).retryable = again
  /\ \A slug : Fault(slug).says = "neither" /\ Fault(slug).retryable = FALSE
  /\ \A v : Heeded(v).says = v.says /\ Heeded(v).retryable = v.retryable
BY DEF Verdict, Fault, Heeded

\* A status and a body name a failure, or are in order.
LEMMA StatusVerdict ==
  ASSUME NEW r, NEW method, RaiseForStatus(r, method) # Done
  PROVE  /\ RaiseForStatus(r, method).says = "neither"
         /\ RaiseForStatus(r, method).retryable \in {FALSE, ThrottleRetryable(r.status, method)}
<1> DEFINE t == ThrottleRetryable(r.status, method)
           v == RaiseForStatus(r, method)
<1>1. ClassifyUrl(r.place) \in {Fault("blocked"), Fault("session_expired"), Done}
  BY DEF ClassifyUrl
<1> HIDE DEF t, v
<1>2. v \in
        {Fault("blocked"), Fault("session_expired"), Fault("not_found"), Fault("stale_query_id"),
         Fault("upstream"), Verdict("rate_limited", t, "neither")}
  <2> HIDE DEF Done, Fault
  <2> QED BY <1>1 DEF RaiseForStatus, t, v
<1>3. ASSUME NEW slug, v = Fault(slug) PROVE v.says = "neither" /\ v.retryable = FALSE
  BY <1>3, VerdictFields, Zenon
<1>4. ASSUME v = Verdict("rate_limited", t, "neither") PROVE v.says = "neither" /\ v.retryable = t
  BY <1>4 DEF Verdict
<1>5. v.says = "neither" /\ v.retryable \in {FALSE, t}
  <2>1. (\E slug : v = Fault(slug)) \/ v = Verdict("rate_limited", t, "neither")
    BY <1>2
  <2>2. CASE \E slug : v = Fault(slug)
    BY <2>2, <1>3, Zenon
  <2>3. CASE v = Verdict("rate_limited", t, "neither")
    BY <2>3, <1>4, Zenon
  <2> QED BY <2>1, <2>2, <2>3, Zenon
<1> QED BY <1>5, Zenon DEF t, v

LEMMA BodyVerdict ==
  ASSUME NEW r
  PROVE  Parse(r) \in {Fault("blocked"), Fault("session_expired"), Fault("upstream"), Done}
BY DEF Parse

\* A read that failed says nothing of the write.
LEMMA ReadFailureSilent ==
  ASSUME NEW v \in ReadFailures
  PROVE  v.says = "neither" /\ v.retryable \in BOOLEAN
<1>1. PICK r \in Responses : Request(r, "GET") # Done /\ v = Heeded(Request(r, "GET"))
  BY DEF ReadFailures
<1>2. \/ Request(r, "GET") \in {Fault("blocked"), Fault("session_expired"), Fault("upstream")}
      \/ Request(r, "GET") = RaiseForStatus(r, "GET") /\ RaiseForStatus(r, "GET") # Done
  BY <1>1, BodyVerdict DEF Request, Undeliverable
<1>3. ThrottleRetryable(r.status, "GET") \in BOOLEAN
  BY DEF ThrottleRetryable
<1>4. Request(r, "GET").says = "neither" /\ Request(r, "GET").retryable \in BOOLEAN
  <2>1. CASE Request(r, "GET") = RaiseForStatus(r, "GET") /\ RaiseForStatus(r, "GET") # Done
    BY <2>1, <1>3, StatusVerdict, Zenon
  <2>2. ASSUME NEW slug, Request(r, "GET") = Fault(slug)
        PROVE  Request(r, "GET").says = "neither" /\ Request(r, "GET").retryable = FALSE
    BY <2>2, VerdictFields, Zenon
  <2> QED BY <1>2, <2>1, <2>2, Zenon
<1> QED BY <1>1, <1>4, VerdictFields

LEMMA Verdicts ==
  /\ Done.says = "done" /\ Refused.says = "nothing" /\ Unconfirmed.says = "unknown"
  /\ OutcomeUnknown.says = "unknown" /\ InvitationQuotaExceeded.says = "nothing"
  /\ Usage.says = "nothing" /\ NothingSent.says = "nothing"
  /\ \A v \in {Done, Refused, Unconfirmed, OutcomeUnknown, InvitationQuotaExceeded, Usage, NothingSent} :
        v.retryable = FALSE
BY DEF Done, Refused, Unconfirmed, OutcomeUnknown, InvitationQuotaExceeded, Usage, NothingSent, Verdict

\* Where the body of a success ends a write.
LEMMA PostconditionReads ==
  ASSUME NEW what \in Verbs, NEW b
  PROVE  /\ Postcondition(what, b) \in {Done, Refused, Unconfirmed, OutcomeUnknown, InvitationQuotaExceeded}
         /\ Postcondition(what, b) = Done =>
              /\ what # "mark" => ~ErrorsIn(b)
              /\ what \in Replies \cup {"post"} => Kindred(b)
              /\ what \in {"comment", "invite"} => AnyUrn(b)
              /\ what \in {"react", "unreact", "delete post"} => DataIn(b) \/ IncludedIn(b)
         /\ Postcondition(what, b) \in {Refused, InvitationQuotaExceeded} =>
              what # "mark" /\ (ErrorsIn(b) \/ (~Made(b) /\ what = "invite" /\ "quota.data" \in b))
<1> USE Verdicts
<1>1. CASE what \in Replies
  BY <1>1 DEF Postcondition, ConfirmMessage, Replies
<1>2. CASE what = "post"
  BY <1>2 DEF Postcondition, ConfirmPost, Replies
<1>3. CASE what = "delete post"
  BY <1>3 DEF Postcondition, ConfirmRemoved, Replies
<1>4. CASE what \in {"react", "unreact"}
  BY <1>4 DEF Postcondition, Confirm, Replies
<1>5. CASE what = "comment"
  BY <1>5 DEF Postcondition, ConfirmComment, Confirm, Replies
<1>6. CASE what = "delete comment"
  BY <1>6 DEF Postcondition, ConfirmDeleted, Replies
<1>7. CASE what = "invite"
  BY <1>7 DEF Postcondition, ConfirmInvite, Replies, AnyUrn, Kindred
<1>8. CASE what = "mark"
  BY <1>8 DEF Postcondition, ConfirmMarked, Replies
<1> QED BY <1>1, <1>2, <1>3, <1>4, <1>5, <1>6, <1>7, <1>8 DEF Verbs, Removals

\* A failure without a status is no success.
LEMMA UndeliveredVerdict ==
  ASSUME NEW method
  PROVE  /\ Undeliverable(method) # Done
         /\ Undeliverable(method).says \in {"neither", "unknown"}
         /\ Undeliverable(method).retryable = FALSE
BY VerdictFields, Verdicts DEF Undeliverable

\* A success came in order; a failure that quotes a quota was LinkedIn's own,
\* by its status or in a text that is no JSON.
LEMMA RequestReads ==
  ASSUME NEW r \in Responses, NEW method
  PROVE  /\ Request(r, method) = Done =>
              /\ r.via = "answer" /\ r.place = "api" /\ r.status < 400
              /\ r.payload \in {"json", "blank"} \/ (r.payload = "null" /\ r.status = 204)
         /\ Request(r, method) # Done /\ "quota.error" \in r.json =>
              r.via = "answer" /\ r.place = "api" /\ (r.status >= 400 \/ r.payload = "text")
<1>1. /\ ClassifyUrl(r.place) = Done => r.place = "api"
      /\ ClassifyUrl("api") = Done
  BY ResponseShape, VerdictFields, Verdicts DEF ClassifyUrl
<1>f. \A slug : Fault(slug) # Done
  BY VerdictFields, Verdicts
<1>v. \A slug, again : Verdict(slug, again, "neither") # Done
  BY VerdictFields, Verdicts
<1>s. r.status \in Nat
  BY ResponseShape
<1>2. RaiseForStatus(r, method) = Done => r.place = "api" /\ r.status < 400
  BY <1>1, <1>f, <1>v, <1>s DEF RaiseForStatus
<1>3. r.place = "api" /\ r.status < 400 => RaiseForStatus(r, method) = Done
  BY <1>1, <1>s DEF RaiseForStatus
<1>4. Parse(r) = Done <=> r.payload \in {"null", "blank", "json"}
  BY <1>f, ResponseShape DEF Parse
<1>5. /\ r.via = "answer" /\ ~(r.payload = "null" /\ r.status # 204)
         /\ Request(r, method) = IF RaiseForStatus(r, method) # Done THEN RaiseForStatus(r, method) ELSE Parse(r)
      \/ /\ Request(r, method) \in {Undeliverable(method), Fault("upstream")}
         /\ r.json = {}
  BY ResponseShape DEF Request
<1>6. Request(r, method) = Done =>
        /\ r.via = "answer" /\ r.place = "api" /\ r.status < 400
        /\ r.payload \in {"json", "blank"} \/ (r.payload = "null" /\ r.status = 204)
  BY <1>2, <1>4, <1>5, UndeliveredVerdict, <1>f, ZenonT(60)
<1>7. Request(r, method) # Done /\ "quota.error" \in r.json =>
        r.via = "answer" /\ r.place = "api" /\ (r.status >= 400 \/ r.payload = "text")
  BY <1>3, <1>4, <1>5, <1>s, ResponseShape
<1> QED BY <1>6, <1>7

\* What failed does not say what became of a write.
LEMMA FailureOpen ==
  ASSUME NEW r \in Responses, NEW method, Request(r, method) # Done
  PROVE  /\ Request(r, method).says \in {"neither", "unknown"}
         /\ Request(r, method).retryable \in {FALSE, ThrottleRetryable(r.status, method)}
<1> DEFINE v == Request(r, method)
<1>1. CASE v = RaiseForStatus(r, method) /\ RaiseForStatus(r, method) # Done
  BY <1>1, StatusVerdict, Zenon
<1>2. CASE v = Undeliverable(method)
  BY <1>2, UndeliveredVerdict, Zenon
<1>3. ASSUME NEW slug, v = Fault(slug) PROVE v.says = "neither" /\ v.retryable = FALSE
  BY <1>3, VerdictFields, Zenon
<1>4. \/ v = RaiseForStatus(r, method) /\ RaiseForStatus(r, method) # Done
      \/ v = Undeliverable(method)
      \/ \E slug : v = Fault(slug)
  BY BodyVerdict DEF Request
<1> HIDE DEF v
<1> QED BY <1>1, <1>2, <1>3, <1>4, Zenon DEF v

\* Over every answer that is truthful about a write: a verdict says done only
\* of what was applied, or of an answer that the surface misreads, it says nothing was applied only of what was not and is
\* decided, and it never asks for the write to be sent again.
THEOREM VerdictSound ==
  ASSUME NEW what \in Verbs, NEW applied \in BOOLEAN, NEW r \in Responses, Truthful(what, applied, r)
  PROVE  LET v == WriteVerdict(what, r) IN
         /\ v.says \in {"done", "nothing", "unknown", "neither"} /\ v.retryable = FALSE
         /\ v.says = "done" => applied \/ Misread(what, r.json)
         /\ v.says = "nothing" => ~applied /\ Decides(r)
<1> DEFINE v == WriteVerdict(what, r)
           f == Request(r, Method(what))
           p == Postcondition(what, r.json)
<1>1. ThrottleRetryable(r.status, Method(what)) = FALSE
  BY DEF ThrottleRetryable, Method, IDEMPOTENT_METHODS
<1>2. \/ f = Done /\ v = p
      \/ /\ f # Done /\ what = "invite" /\ "quota.error" \in r.json
         /\ v = InvitationQuotaExceeded
      \/ f # Done /\ v = f
  <2> Fault("upstream") # Done
    BY VerdictFields, Verdicts
  <2> QED BY DEF WriteVerdict
<1>3. CASE f = Done /\ v = p
  <2>1. /\ r.via = "answer" /\ r.place = "api" /\ r.status < 400
        /\ r.payload \in {"json", "blank"} \/ (r.payload = "null" /\ r.status = 204)
    BY <1>3, RequestReads
  <2>2. Decides(r)
    BY <2>1, ResponseShape DEF Decides
  <2>3. /\ ErrorsIn(r.json) => ~applied
        /\ ~ErrorsIn(r.json) /\ Made(r.json) => applied
        /\ ~ErrorsIn(r.json) /\ what \in {"react", "unreact", "delete post"}
              /\ (DataIn(r.json) \/ IncludedIn(r.json)) => applied
        /\ ~ErrorsIn(r.json) /\ what \in {"delete comment", "mark"} => applied
        /\ ~Made(r.json) /\ what = "invite" /\ "quota.data" \in r.json => ~applied
    BY <2>1 DEF Truthful
  <2>4. p = Done => applied \/ Misread(what, r.json)
    BY <2>3, PostconditionReads DEF Verbs, Removals, Misread
  <2>5. p \in {Refused, InvitationQuotaExceeded} => ~applied
    BY <2>3, PostconditionReads
  <2>6. p \in {Done, Refused, Unconfirmed, OutcomeUnknown, InvitationQuotaExceeded}
    BY PostconditionReads
  <2> HIDE DEF v, p, f
  <2>7. v.retryable = FALSE
    BY <1>3, <2>6, Verdicts
  <2> QED BY <1>3, <2>2, <2>4, <2>5, <2>6, <2>7, Verdicts DEF v
<1>4. CASE f # Done /\ "quota.error" \in r.json /\ v = InvitationQuotaExceeded
  <2>1. r.via = "answer" /\ r.place = "api" /\ (r.status >= 400 \/ r.payload = "text")
    BY <1>4, RequestReads
  <2>2. Decides(r) /\ ~applied
    BY <1>4, <2>1 DEF Truthful, Decides
  <2> HIDE DEF v
  <2> QED BY <1>4, <2>2, Verdicts DEF v
<1>5. CASE f # Done /\ v = f
  <2>1. f.says \in {"neither", "unknown"} /\ f.retryable \in {FALSE, ThrottleRetryable(r.status, Method(what))}
    BY <1>5, FailureOpen
  <2> HIDE DEF v, f
  <2>2. f.retryable = FALSE
    BY <1>1, <2>1, Zenon
  <2>3. v.says \in {"neither", "unknown"}
    BY <1>5, <2>1
  <2> QED BY <1>5, <2>2, <2>3 DEF v
<1> QED BY <1>2, <1>3, <1>4, <1>5

LEMMA ReportSound ==
  ASSUME NEW report \in Reports
  PROVE  /\ report.verdict.says \in {"done", "nothing", "unknown", "neither"}
         /\ report.verdict.retryable = FALSE
         /\ report.verdict.says = "done" => report.applied \/ report.misread
         /\ report.verdict.says = "nothing" => ~report.applied /\ report.decided
<1>1. PICK t \in {u \in Verbs \X BOOLEAN \X Responses : Truthful(u[1], u[2], u[3])} :
         report = [verb |-> t[1], applied |-> t[2], decided |-> Decides(t[3]),
                   misread |-> Misread(t[1], t[3].json), verdict |-> Heeded(WriteVerdict(t[1], t[3]))]
  BY DEF Reports
<1>2. t[1] \in Verbs /\ t[2] \in BOOLEAN /\ t[3] \in Responses /\ Truthful(t[1], t[2], t[3])
  OBVIOUS
<1> DEFINE v == WriteVerdict(t[1], t[3])
<1>3. /\ v.says \in {"done", "nothing", "unknown", "neither"} /\ v.retryable = FALSE
      /\ v.says = "done" => t[2] \/ Misread(t[1], t[3].json)
      /\ v.says = "nothing" => ~t[2] /\ Decides(t[3])
  BY <1>2, VerdictSound
<1>4. report.verdict.says = v.says /\ report.verdict.retryable = v.retryable
  BY <1>1, VerdictFields
<1>5. /\ (report.applied <=> t[2]) /\ (report.decided <=> Decides(t[3]))
      /\ (report.misread <=> Misread(t[1], t[3].json))
  BY <1>1
<1> HIDE DEF v
<1> QED BY <1>3, <1>4, <1>5

-----------------------------------------------------------------------------
(* Where a run stands. *)

Steps    == {"idle", "lookup", "read", "send", "sent", "ended"}
Heedable == [says : {"done", "nothing", "unknown", "neither"}, retryable : BOOLEAN]

Typed ==
  /\ verb \in Asked /\ mailbox \in [Callers -> {"own", "foreign"}]
  /\ pc \in [Callers -> Steps] /\ run \in [Callers -> 0 .. MaxRuns]
  /\ verdict \in [Callers -> Heedable]
  /\ issued \subseteq Runs /\ thread \in Seq(Runs \cup {Other})

\* What is out was issued by a run that has begun, and before it sends a run
\* has issued nothing.
Out ==
  /\ flying \cup landed \subseteq issued /\ flying \cap landed = {}
  /\ shown \subseteq landed /\ \A r \in shown : verb[r[1]] \in Replies
  /\ \A r \in issued : r[2] <= run[r[1]]
  /\ \A c \in Callers :
       /\ pc[c] # "idle" <=> 0 < run[c]
       /\ pc[c] \in {"lookup", "read", "send"} => This(c) \notin issued
       /\ pc[c] = "sent" => This(c) \in issued
       /\ pc[c] = "lookup" => verb[c] \in {"send", "invite"}
       /\ pc[c] = "read" => Replying(c)

\* What does not reply has one write out at most, that of its last run.
Single ==
  \A c \in Callers : ~Replying(c) => \A r \in issued : r[1] = c => r = This(c)

\* A reply is only sent after the mailbox was confirmed.
Confirmed ==
  /\ \A c \in Callers : Replying(c) /\ pc[c] = "send" => mailbox[c] = "own"
  /\ \A r \in issued : Replying(r[1]) => mailbox[r[1]] = "own"
  /\ delivered \subseteq {"own"}

RunInv ==
  /\ Typed /\ Out /\ Single /\ Confirmed
  /\ RetryableIsSafe /\ OkIsApplied /\ RefusedIsNotApplied

\* A command is refused, or looks somebody up, or reads the thread it replies
\* in, or sends what is no reply.
LEMMA OpeningShape ==
  ASSUME NEW o \in Openings
  PROVE  /\ o.step \in {"refused", "lookup", "read", "send"}
         /\ o.step = "lookup" => o.verb \in {"send", "invite"}
         /\ o.step = "read" => o.verb \in Replies
         /\ o.step = "send" => o.verb \notin Replies
<1>1. PICK v \in Verbs, arg \in Arguments, flags \in SUBSET Flags :
        o = [verb |-> v, step |-> Opening(v, arg, flags)]
  BY DEF Openings
<1>2. v = "send" /\ Takes(v, arg, flags) => arg = "name"
  BY DEF Takes, MessageTakes
<1> QED BY <1>1, <1>2 DEF Opening, Replies

\* The verdict a run ends with, and what it leaves alone.
LEMMA EndsWithTyped ==
  ASSUME Typed, NEW c \in Callers, NEW v \in Heedable, EndsWith(c, v)
  PROVE  /\ verdict' \in [Callers -> Heedable] /\ pc' \in [Callers -> Steps]
         /\ verdict'[c] = v /\ pc'[c] = "ended"
         /\ \A d \in Callers \ {c} : verdict'[d] = verdict[d] /\ pc'[d] = pc[d]
BY DEF Typed, EndsWith, Steps

LEMMA GoesTyped ==
  ASSUME Typed, NEW c \in Callers, NEW where \in Steps, Goes(c, where)
  PROVE  /\ verdict' \in [Callers -> Heedable] /\ pc' \in [Callers -> Steps]
         /\ verdict'[c] = verdict[c] /\ pc'[c] = where
         /\ \A d \in Callers \ {c} : verdict'[d] = verdict[d] /\ pc'[d] = pc[d]
BY DEF Typed, Goes

\* Verdicts that are heeded.
LEMMA HeededTyped ==
  /\ Heeded(Usage) \in Heedable /\ Heeded(Usage).says = "nothing" /\ Heeded(Usage).retryable = FALSE
  /\ Heeded(NothingSent) \in Heedable /\ Heeded(NothingSent).says = "nothing"
  /\ Heeded(NothingSent).retryable = FALSE
  /\ Heeded(Done) \in Heedable /\ Heeded(Done).says = "done" /\ Heeded(Done).retryable = FALSE
BY DEF Heeded, Heedable, Usage, NothingSent, Done, Verdict

LEMMA ReadFailureTyped ==
  ASSUME NEW v \in ReadFailures PROVE v \in Heedable /\ v.says = "neither"
<1>1. PICK w : v = Heeded(w)
  BY DEF ReadFailures
<1>2. v.says = "neither" /\ v.retryable \in BOOLEAN
  BY ReadFailureSilent
<1>3. v = [says |-> v.says, retryable |-> v.retryable]
  BY <1>1, VerdictFields DEF Heeded
<1> QED BY <1>2, <1>3 DEF Heedable

LEMMA ReportTyped ==
  ASSUME NEW report \in Reports PROVE report.verdict \in Heedable
<1>1. PICK w : report.verdict = Heeded(w)
  BY DEF Reports
<1>2. report.verdict.says \in {"done", "nothing", "unknown", "neither"} /\ report.verdict.retryable = FALSE
  BY ReportSound
<1>3. report.verdict = [says |-> report.verdict.says, retryable |-> report.verdict.retryable]
  BY <1>1, VerdictFields DEF Heeded
<1> QED BY <1>2, <1>3 DEF Heedable

\* A command begins.
LEMMA StartStep == ASSUME RunInv, NEW c \in Callers, Start(c) PROVE RunInv'
<1>1. PICK o \in Openings :
        /\ o.verb = verb[c]
        /\ IF o.step = "refused" THEN EndsWith(c, Heeded(Usage)) ELSE Goes(c, o.step)
  BY DEF Start
<1>2. /\ UNCHANGED <<verb, mailbox, issued, landed, flying, thread, shown, delivered>>
      /\ run' = [run EXCEPT ![c] = @ + 1] /\ run[c] < MaxRuns
      /\ pc[c] = "idle" \/ (pc[c] = "ended" /\ MayRerun(c))
  BY DEF Start, linkedin
<1>m. UNCHANGED misread
  BY DEF Start
<1>y. /\ run \in [Callers -> 0 .. MaxRuns] /\ verb[c] \in Verbs /\ MaxRuns \in Nat
      /\ \A r \in issued : r[1] \in Callers /\ r[2] \in 1 .. MaxRuns /\ r = <<r[1], r[2]>>
  BY WritesAssumption DEF RunInv, Typed, Runs
<1>3. /\ run' \in [Callers -> 0 .. MaxRuns] /\ run'[c] = run[c] + 1
      /\ \A d \in Callers \ {c} : run'[d] = run[d]
  BY <1>2, <1>y
<1>4. /\ verdict' \in [Callers -> Heedable] /\ pc' \in [Callers -> Steps]
      /\ \A d \in Callers \ {c} : verdict'[d] = verdict[d] /\ pc'[d] = pc[d]
      /\ \/ pc'[c] = "ended" /\ verdict'[c] = Heeded(Usage)
         \/ pc'[c] = o.step /\ o.step \in {"lookup", "read", "send"}
  BY <1>1, OpeningShape, EndsWithTyped, GoesTyped, HeededTyped DEF RunInv, Steps
<1>5. \A d \in Callers \ {c} : This(d)' = This(d)
  BY <1>3 DEF This
<1>6. This(c)' = <<c, run[c] + 1>> /\ This(c)' \notin issued
  BY <1>3, <1>y DEF This, RunInv, Out
<1>7. Typed'
  BY <1>2, <1>3, <1>4 DEF RunInv, Typed
<1>8. Out'
  <2>1. \A r \in issued : r[2] <= run'[r[1]]
    BY <1>3, <1>y DEF RunInv, Out
  <2>2. \A d \in Callers :
          /\ pc'[d] # "idle" <=> 0 < run'[d]
          /\ pc'[d] \in {"lookup", "read", "send"} => This(d)' \notin issued
          /\ pc'[d] = "sent" => This(d)' \in issued
          /\ pc'[d] = "lookup" => verb[d] \in {"send", "invite"}
          /\ pc'[d] = "read" => verb[d] \in Replies
    BY <1>1, <1>3, <1>4, <1>5, <1>6, <1>y, OpeningShape DEF RunInv, Out, Replying
  <2> QED BY <1>2, <2>1, <2>2 DEF RunInv, Out, Replying
<1>9. Single'
  <2>1. ~Replying(c) => \A r \in issued : r[1] # c
    <3>1. CASE pc[c] = "idle"
      BY <3>1, <1>y DEF RunInv, Out
    <3>2. CASE pc[c] = "ended" /\ MayRerun(c)
      BY <3>2 DEF MayRerun, RunInv, RetryableIsSafe, Single, Ended
    <3> QED BY <1>2, <3>1, <3>2
  <2> QED BY <1>2, <1>5, <2>1 DEF Single, RunInv, Replying
<1>10. Confirmed'
  BY <1>1, <1>2, <1>4, OpeningShape DEF RunInv, Confirmed, Replying
<1>11. RetryableIsSafe' /\ OkIsApplied' /\ RefusedIsNotApplied'
  BY <1>2, <1>m, <1>4, <1>5, <1>6, HeededTyped
     DEF RunInv, RetryableIsSafe, OkIsApplied, RefusedIsNotApplied, Ended, Replying, Out
<1> QED BY <1>7, <1>8, <1>9, <1>10, <1>11 DEF RunInv

\* A run that has sent nothing yet goes on, or ends.
LEMMA BeforeSending ==
  ASSUME RunInv, NEW c \in Callers, pc[c] \in {"lookup", "read", "send"},
         UNCHANGED <<verb, mailbox, run, linkedin, misread>>,
         \/ \E v \in Heedable : /\ EndsWith(c, v)
                                /\ v.says = "done" => Replying(c) /\ shown # {}
         \/ \E where \in {"read", "send"} :
              /\ Goes(c, where)
              /\ where = "read" => Replying(c)
              /\ where = "send" /\ Replying(c) => mailbox[c] = "own"
  PROVE  RunInv'
<1>1. /\ verdict' \in [Callers -> Heedable] /\ pc' \in [Callers -> Steps]
      /\ \A d \in Callers \ {c} : verdict'[d] = verdict[d] /\ pc'[d] = pc[d]
      /\ \/ pc'[c] = "ended" /\ (verdict'[c].says = "done" => Replying(c) /\ shown # {})
         \/ pc'[c] = "read" /\ Replying(c)
         \/ pc'[c] = "send" /\ (Replying(c) => mailbox[c] = "own")
  BY EndsWithTyped, GoesTyped DEF RunInv, Steps
<1>2. UNCHANGED <<verb, mailbox, run, issued, landed, flying, thread, shown, delivered, misread>>
  BY DEF linkedin
<1>3. \A d \in Callers : This(d)' = This(d)
  BY <1>2 DEF This
<1>4. This(c) \notin issued
  BY DEF RunInv, Out
<1>5. Typed'
  BY <1>1, <1>2 DEF RunInv, Typed
<1>6. Out'
  BY <1>1, <1>2, <1>3, <1>4 DEF RunInv, Out, Replying
<1>7. Single' /\ Confirmed'
  BY <1>1, <1>2, <1>3 DEF RunInv, Single, Confirmed, Replying
<1>8. RetryableIsSafe' /\ OkIsApplied' /\ RefusedIsNotApplied'
  BY <1>1, <1>2, <1>3, <1>4 DEF RunInv, RetryableIsSafe, OkIsApplied, RefusedIsNotApplied, Ended, Replying, Out
<1> QED BY <1>5, <1>6, <1>7, <1>8 DEF RunInv

LEMMA LookupStep == ASSUME RunInv, NEW c \in Callers, Lookup(c) PROVE RunInv'
<1>1. verb[c] \in {"send", "invite"} /\ (Replying(c) => mailbox[c] = "own" \/ verb[c] = "send")
  BY DEF Lookup, RunInv, Out, Replying, Replies
<1>2. \/ \E v \in ReadFailures : EndsWith(c, v)
      \/ EndsWith(c, Heeded(Usage))
      \/ Goes(c, IF verb[c] = "send" THEN "read" ELSE "send")
  BY DEF Lookup
<1> QED BY <1>1, <1>2, ReadFailureTyped, HeededTyped, BeforeSending
       DEF Lookup, history, Replying, Replies

\* A reply that is on the page is one that the page shows.
LEMMA SentIsShown == AlreadySent(thread) => shown # {}
BY DEF AlreadySent, NewestPage, Newest, Visible, OnView

LEMMA ReadThreadStep == ASSUME RunInv, NEW c \in Callers, ReadThread(c) PROVE RunInv'
<1>1. Replying(c)
  BY DEF ReadThread, RunInv, Out
<1>2. \/ \E v \in ReadFailures : EndsWith(c, v)
      \/ EndsWith(c, Heeded(NothingSent))
      \/ AlreadySent(thread) /\ EndsWith(c, Heeded(Done))
      \/ mailbox[c] = "own" /\ Goes(c, "send")
  BY DEF ReadThread, ConfirmsTarget
<1> QED BY <1>1, <1>2, SentIsShown, ReadFailureTyped, HeededTyped, BeforeSending DEF ReadThread, history

\* A write that never left ends with what says nothing of it.
LEMMA UndeliveredStep == ASSUME RunInv, NEW c \in Callers, Undelivered(c) PROVE RunInv'
<1>1. PICK v \in {Undeliverable(Method(verb[c])), Fault("upstream")} : EndsWith(c, Heeded(v))
  BY DEF Undelivered
<1>2. v.says \in {"neither", "unknown"} /\ v.retryable = FALSE
  <2>1. CASE v = Undeliverable(Method(verb[c]))
    BY <2>1, UndeliveredVerdict, Zenon
  <2>2. CASE v = Fault("upstream")
    BY <2>2, VerdictFields, Zenon
  <2> QED BY <2>1, <2>2
<1>3. Heeded(v) \in Heedable /\ Heeded(v).says # "done"
  BY <1>2 DEF Heeded, Heedable
<1> QED BY <1>1, <1>3, BeforeSending DEF Undelivered, history

\* The write leaves.
LEMMA SendStep == ASSUME RunInv, NEW c \in Callers, Send(c) PROVE RunInv'
<1>1. /\ UNCHANGED <<verb, mailbox, run, landed, thread, shown, delivered>>
      /\ issued' = issued \cup {This(c)} /\ flying' = flying \cup {This(c)} /\ pc[c] = "send"
  BY DEF Send
<1>m. UNCHANGED misread
  BY DEF Send, history
<1>2. /\ verdict' \in [Callers -> Heedable] /\ pc' \in [Callers -> Steps] /\ pc'[c] = "sent"
      /\ \A d \in Callers \ {c} : verdict'[d] = verdict[d] /\ pc'[d] = pc[d]
  BY GoesTyped DEF Send, RunInv, Steps
<1>3. \A d \in Callers : This(d)' = This(d)
  BY <1>1 DEF This
<1>4. This(c) \in Runs /\ This(c)[1] = c /\ This(c)[2] = run[c] /\ This(c) \notin issued
  BY <1>1 DEF RunInv, Out, Typed, This, Runs
<1>5. \A d \in Callers \ {c} : This(d) # This(c)
  BY DEF This
<1>6. Typed'
  BY <1>1, <1>2, <1>4 DEF RunInv, Typed
<1>7. Out'
  <2>1. /\ flying' \cup landed' \subseteq issued' /\ flying' \cap landed' = {}
        /\ shown' \subseteq landed' /\ \A r \in shown' : verb'[r[1]] \in Replies
    BY <1>1, <1>4 DEF RunInv, Out
  <2>2. \A r \in issued' : r[2] <= run'[r[1]]
    BY <1>1, <1>4 DEF RunInv, Out, Typed
  <2>3. \A d \in Callers :
          /\ pc'[d] # "idle" <=> 0 < run[d]
          /\ pc'[d] \in {"lookup", "read", "send"} => This(d) \notin issued'
          /\ pc'[d] = "sent" => This(d) \in issued'
          /\ pc'[d] = "lookup" => verb[d] \in {"send", "invite"}
          /\ pc'[d] = "read" => Replying(d)
    BY <1>1, <1>2, <1>5 DEF RunInv, Out
  <2> QED BY <1>1, <1>3, <2>1, <2>2, <2>3 DEF Out, Replying
<1>8. Single' /\ Confirmed'
  BY <1>1, <1>2, <1>3, <1>4 DEF RunInv, Single, Confirmed, Replying, Out
<1>9. RetryableIsSafe' /\ OkIsApplied' /\ RefusedIsNotApplied'
  BY <1>1, <1>m, <1>2, <1>3, <1>5 DEF RunInv, RetryableIsSafe, OkIsApplied, RefusedIsNotApplied, Ended, Replying
<1> QED BY <1>6, <1>7, <1>8, <1>9 DEF RunInv

\* The answer, truthful of what has landed, becomes the verdict.
LEMMA AnsweredStep == ASSUME RunInv, NEW c \in Callers, Answered(c) PROVE RunInv'
<1>1. PICK report \in Reports :
        /\ Reported(c, report) /\ EndsWith(c, report.verdict)
        /\ flying' = IF report.decided THEN flying \ {This(c)} ELSE flying
        /\ misread' = IF report.misread THEN misread \cup {This(c)} ELSE misread
  BY DEF Answered
<1>2. UNCHANGED <<verb, mailbox, run, issued, landed, thread, shown, delivered>> /\ pc[c] = "sent"
  BY DEF Answered
<1>3. /\ verdict' \in [Callers -> Heedable] /\ pc' \in [Callers -> Steps] /\ pc'[c] = "ended"
      /\ verdict'[c] = report.verdict
      /\ \A d \in Callers \ {c} : verdict'[d] = verdict[d] /\ pc'[d] = pc[d]
  BY <1>1, ReportTyped, EndsWithTyped DEF RunInv
<1>4. /\ verdict'[c].retryable = FALSE
      /\ verdict'[c].says = "done" => This(c) \in landed \cup misread'
      /\ verdict'[c].says = "nothing" => This(c) \notin landed /\ This(c) \notin flying'
  BY <1>1, <1>3, ReportSound DEF Reported
<1>5. \A d \in Callers : This(d)' = This(d)
  BY <1>2 DEF This
<1>6. Typed'
  BY <1>2, <1>3 DEF RunInv, Typed
<1>7. Out'
  BY <1>1, <1>2, <1>3, <1>5 DEF RunInv, Out, Replying
<1>8. Single' /\ Confirmed'
  BY <1>2, <1>3, <1>5 DEF RunInv, Single, Confirmed, Replying
<1>9. flying' \subseteq flying /\ misread \subseteq misread'
  BY <1>1
<1>10. RetryableIsSafe' /\ OkIsApplied' /\ RefusedIsNotApplied'
  BY <1>2, <1>3, <1>4, <1>5, <1>9 DEF RunInv, RetryableIsSafe, OkIsApplied, RefusedIsNotApplied, Ended, Replying
<1> QED BY <1>6, <1>7, <1>8, <1>10 DEF RunInv

\* LinkedIn applies a write, shows a message, delivers somebody else's.
LEMMA LinkedInStep == ASSUME RunInv, LinkedIn PROVE RunInv'
<1>1. UNCHANGED <<verb, mailbox, pc, run, verdict, issued>> /\ \A c : This(c)' = This(c)
  BY DEF LinkedIn, Intrude, Land, Show, caller, This
<1>m. UNCHANGED misread
  BY DEF LinkedIn, Intrude, Land, Show, history
<1>2. landed' \cup flying' = landed \cup flying /\ flying' \cap landed' = {} /\ landed \subseteq landed'
  BY DEF LinkedIn, Intrude, Land, Show, RunInv, Out
<1>3. /\ shown \subseteq shown' /\ shown' \subseteq landed'
      /\ \A r \in shown' : verb[r[1]] \in Replies
  BY <1>2 DEF LinkedIn, Intrude, Land, Show, RunInv, Out
<1>4. thread' \in Seq(Runs \cup {Other})
  <2>1. CASE thread' = thread
    BY <2>1 DEF RunInv, Typed
  <2>2. ASSUME NEW m \in Runs \cup {Other}, thread' = Append(thread, m)
        PROVE  thread' \in Seq(Runs \cup {Other})
    BY <2>2, AppendProperties DEF RunInv, Typed
  <2>3. thread' = thread \/ \E m \in Runs \cup {Other} : thread' = Append(thread, m)
    BY DEF LinkedIn, Intrude, Land, Show
  <2> QED BY <2>1, <2>2, <2>3
<1>5. delivered' \subseteq {"own"}
  BY DEF LinkedIn, Intrude, Land, Show, RunInv, Confirmed, Out, Replying
<1>6. Typed' /\ Out'
  BY <1>1, <1>2, <1>3, <1>4 DEF RunInv, Typed, Out, Replying
<1>7. Single' /\ Confirmed'
  BY <1>1, <1>5 DEF RunInv, Single, Confirmed, Replying
<1>8. RetryableIsSafe' /\ OkIsApplied' /\ RefusedIsNotApplied'
  BY <1>1, <1>m, <1>2, <1>3 DEF RunInv, RetryableIsSafe, OkIsApplied, RefusedIsNotApplied, Ended, Replying
<1> QED BY <1>6, <1>7, <1>8 DEF RunInv

LEMMA RunStep == RunInv /\ [Next]_vars => RunInv'
<1> SUFFICES ASSUME RunInv, [Next]_vars PROVE RunInv'
  OBVIOUS
<1>1. CASE UNCHANGED vars
  <2>1. UNCHANGED <<verb, mailbox, pc, run, verdict, issued, landed, flying, thread, shown, delivered, misread>>
    BY <1>1 DEF vars, caller, linkedin, history
  <2>2. \A c : This(c)' = This(c)
    BY <2>1 DEF This
  <2>3. Typed' /\ Out' /\ Single' /\ Confirmed'
    BY <2>1, <2>2 DEF RunInv, Typed, Out, Single, Confirmed, Replying
  <2>4. RetryableIsSafe' /\ OkIsApplied' /\ RefusedIsNotApplied'
    BY <2>1, <2>2 DEF RunInv, RetryableIsSafe, OkIsApplied, RefusedIsNotApplied, Ended, Replying
  <2> QED BY <2>3, <2>4 DEF RunInv
<1>2. CASE LinkedIn
  BY <1>2, LinkedInStep
<1>3. ASSUME NEW c \in Callers, Command(c) PROVE RunInv'
  BY <1>3, StartStep, LookupStep, ReadThreadStep, UndeliveredStep, SendStep, AnsweredStep DEF Command
<1> QED BY <1>1, <1>2, <1>3 DEF Next

LEMMA RunInit == Init => RunInv
<1> SUFFICES ASSUME Init PROVE RunInv
  OBVIOUS
<1>1. \A q : q = <<>> => q \in Seq(Runs \cup {Other})
  BY EmptySeq
<1>2. Typed
  BY <1>1, WritesAssumption DEF Init, Typed, Steps, Heedable
<1>3. Out /\ Single /\ Confirmed
  BY DEF Init, Out, Single, Confirmed, This
<1>4. RetryableIsSafe /\ OkIsApplied /\ RefusedIsNotApplied
  BY DEF Init, RetryableIsSafe, OkIsApplied, RefusedIsNotApplied, Ended
<1> QED BY <1>2, <1>3, <1>4 DEF RunInv

LEMMA RunInvariant == Spec => []RunInv
BY RunInit, RunStep, PTL DEF Spec

\* Every reachable state is typed, and a run issues its one write once.
THEOREM WritesTypes == Spec => []WritesTypeOK
<1>1. RunInv => WritesTypeOK
  BY DEF RunInv, Typed, Out, WritesTypeOK, Steps, Heedable
<1> QED BY <1>1, RunInvariant, PTL

\* A caller who runs a command again because it was told to repeats nothing.
THEOREM RetryIsSafe == Spec => []RetryableIsSafe
<1>1. RunInv => RetryableIsSafe
  BY DEF RunInv
<1> QED BY <1>1, RunInvariant, PTL

\* Whatever LinkedIn answers truthfully, a run that reports success did it,
\* save where its surface misreads the answer.
THEOREM OkMeansApplied == Spec => []OkIsApplied
<1>1. RunInv => OkIsApplied
  BY DEF RunInv
<1> QED BY <1>1, RunInvariant, PTL

\* A run that reports that nothing was applied is never contradicted later.
THEOREM RefusalIsFinal == Spec => []RefusedIsNotApplied
<1>1. RunInv => RefusedIsNotApplied
  BY DEF RunInv
<1> QED BY <1>1, RunInvariant, PTL

\* No reply reaches another member's mailbox, whatever thread was named.
THEOREM RepliesStayHome == Spec => []OwnMailboxOnly
<1>1. RunInv => OwnMailboxOnly
  BY DEF RunInv, Confirmed, OwnMailboxOnly
<1> QED BY <1>1, RunInvariant, PTL

\* Two elements of a set that are always the same one.
LEMMA AtMostOne == ASSUME NEW S, \A x, y \in S : x = y PROVE Cardinality(S) <= 1
<1>1. S = {} \/ \E x : S = {x}
  OBVIOUS
<1>2. Cardinality(S) \in {0, 1}
  BY <1>1, FS_EmptySet, FS_Singleton
<1> QED BY <1>2

\* However often a command that is no reply is run again as its envelope
\* allows, its write lands once.
THEOREM WriteLandsOnce == Spec => []LandsOnce
<1>1. RunInv => LandsOnce
  <2> SUFFICES ASSUME RunInv, NEW c \in Callers, ~Replying(c)
               PROVE  Cardinality({r \in landed : r[1] = c}) <= 1
    BY DEF LandsOnce
  <2>1. \A x, y \in {r \in landed : r[1] = c} : x = y
    BY DEF RunInv, Single, Out
  <2> QED BY <2>1, AtMostOne
<1> QED BY <1>1, RunInvariant, PTL

-----------------------------------------------------------------------------
(* Replies. *)

IssuedReplies == {r \in issued : Replying(r[1])}

\* One reply at most is out, and who is about to read the thread will see it
\* there; who read it and saw none is the only one, and none is out.
Watched ==
  /\ \A r, q \in IssuedReplies : r = q
  /\ \A c, d \in Callers : Running(c) /\ Replying(c) /\ Running(d) /\ Replying(d) => c = d
  /\ \A c \in Callers : Running(c) /\ Replying(c) => verb[c] # "keyed"
  /\ \A c \in Callers : Replying(c) /\ pc[c] \in {"lookup", "read"} /\ IssuedReplies # {} => OnPage(thread)
  /\ \A c \in Callers : Replying(c) /\ pc[c] = "send" => IssuedReplies = {}

ReplyInv == ~excused => Watched

LEMMA RunIsNotOther == ASSUME NEW r \in Runs PROVE r # Other
<1>1. PICK a \in Callers, n \in 1 .. MaxRuns : r = <<a, n>>
  BY DEF Runs
<1>2. Len(<<a, n>>) = 2 /\ Len(<<>>) = 0
  OBVIOUS
<1> QED BY <1>1, <1>2 DEF Other

\* A reply that has landed and is not shown yet changes nothing on the page.
LEMMA LandedUnseen ==
  ASSUME Typed, NEW r \in Runs \ shown, thread' = Append(thread, r), UNCHANGED shown
  PROVE  NewestPage(thread)' = NewestPage(thread)
<1> DEFINE n == Len(thread)
<1>1. /\ DOMAIN thread = 1 .. n /\ n \in Nat /\ DOMAIN thread' = 1 .. n + 1
      /\ \A i \in 1 .. n : thread'[i] = thread[i]
      /\ thread'[n + 1] = r
  BY AppendProperties, LenProperties DEF Typed
<1>2. ~OnView(r)'
  BY RunIsNotOther DEF OnView, Other
<1>3. Visible(thread)' = Visible(thread)
  <2>1. \A i : i \in DOMAIN thread' <=> i \in DOMAIN thread \/ i = n + 1
    BY <1>1
  <2>2. \A i \in DOMAIN thread : OnView(thread[i])' <=> OnView(thread[i])
    BY <1>1 DEF OnView, Other
  <2> QED BY <1>1, <1>2, <2>1, <2>2 DEF Visible
<1>4. Newest(thread)' = Newest(thread) /\ Newest(thread) \subseteq 1 .. n
  BY <1>1, <1>3 DEF Newest, Visible
<1> QED BY <1>1, <1>4 DEF NewestPage

\* Who starts a reply with nothing to excuse: nobody else replies, and every
\* reply that is out is on the page.
LEMMA StartsWatched ==
  ASSUME RunInv, Watched, NEW c \in Callers, Start(c), ~excused' PROVE Watched'
<1>1. /\ UNCHANGED <<verb, mailbox, issued, landed, flying, thread, shown, delivered>>
      /\ pc[c] \in {"idle", "ended"}
      /\ Replying(c) => ~Unseen /\ verb[c] # "keyed"
      /\ Replying(c) => \A d \in Callers \ {c} : ~(Running(d) /\ Replying(d))
  BY DEF Start, linkedin
<1>2. PICK o \in Openings :
        /\ o.verb = verb[c]
        /\ IF o.step = "refused" THEN EndsWith(c, Heeded(Usage)) ELSE Goes(c, o.step)
  BY DEF Start
<1>3. /\ \A d \in Callers \ {c} : pc'[d] = pc[d]
      /\ pc'[c] \in {"ended", "lookup", "read", "send"}
      /\ pc'[c] = "send" => ~Replying(c)
  BY <1>2, OpeningShape, EndsWithTyped, GoesTyped, HeededTyped DEF RunInv, Steps, Replying
<1>4. IssuedReplies' = IssuedReplies /\ OnPage(thread)' = OnPage(thread)
  BY <1>1 DEF IssuedReplies, Replying, OnPage, NewestPage, Newest, Visible, OnView
<1>5. Replying(c) /\ IssuedReplies # {} => OnPage(thread)
  <2> SUFFICES ASSUME Replying(c), NEW r \in IssuedReplies PROVE OnPage(thread)
    OBVIOUS
  <2>1. r \in NewestPage(thread)
    BY <1>1 DEF Unseen, IssuedReplies, Replying
  <2>2. r # Other
    BY RunIsNotOther DEF IssuedReplies, RunInv, Typed
  <2> QED BY <2>1, <2>2 DEF OnPage
<1>6. \A d, e \in Callers : Running(d)' /\ Replying(d)' /\ Running(e)' /\ Replying(e)' => d = e
  BY <1>1, <1>3 DEF Watched, Running, Replying
<1>7. \A d \in Callers : Running(d)' /\ Replying(d)' => verb[d] # "keyed"
  BY <1>1, <1>3 DEF Watched, Running, Replying
<1> QED BY <1>1, <1>3, <1>4, <1>5, <1>6, <1>7 DEF Watched, Replying

\* The runs that are under way.
LEMMA CommandsWatched ==
  ASSUME RunInv, Watched, NEW c \in Callers, Lookup(c) \/ ReadThread(c) \/ Undelivered(c) \/ Send(c) \/ Answered(c)
  PROVE  Watched'
<1>1. /\ UNCHANGED <<verb, landed, thread, shown>>
      /\ UNCHANGED issued \/ (Send(c) /\ issued' = issued \cup {This(c)})
  BY DEF Lookup, ReadThread, Undelivered, Send, Answered, linkedin
<1>2. OnPage(thread)' = OnPage(thread)
  BY <1>1 DEF OnPage, NewestPage, Newest, Visible, OnView
<1>3. /\ \A d \in Callers \ {c} : pc'[d] = pc[d]
      /\ Running(c)
      /\ \/ pc[c] = "lookup" /\ pc'[c] \in {"read", "ended"}
         \/ pc[c] = "lookup" /\ pc'[c] = "send" /\ verb[c] # "send"
         \/ pc[c] = "read" /\ pc'[c] = "ended"
         \/ pc[c] = "read" /\ pc'[c] = "send" /\ (~AlreadySent(thread) \/ verb[c] = "keyed")
         \/ pc[c] = "send" /\ pc'[c] = "ended"
         \/ pc[c] = "send" /\ pc'[c] = "sent" /\ Send(c)
         \/ pc[c] = "sent" /\ pc'[c] = "ended"
  BY DEF Lookup, ReadThread, Undelivered, Send, Answered, EndsWith, Goes, RunInv, Typed, Running
<1>4. pc[c] = "lookup" => verb[c] \in {"send", "invite"}
  BY DEF RunInv, Out
<1>5. \A d \in Callers : Running(d)' => Running(d)
  BY <1>3 DEF Running
<1>6. CASE UNCHANGED issued
  <2>1. IssuedReplies' = IssuedReplies
    BY <1>1, <1>6 DEF IssuedReplies, Replying
  <2>2. Replying(c) /\ pc'[c] = "send" => IssuedReplies = {}
    <3> SUFFICES ASSUME Replying(c), pc'[c] = "send" PROVE IssuedReplies = {}
      OBVIOUS
    <3>1. pc[c] = "read" /\ verb[c] # "keyed"
      BY <1>3, <1>4 DEF Watched, Replying, Replies
    <3>2. ~AlreadySent(thread)
      BY <1>3, <3>1
    <3>3. ~OnPage(thread)
      BY <3>2 DEF AlreadySent, OnPage
    <3> QED BY <3>1, <3>3 DEF Watched
  <2> QED BY <1>1, <1>2, <1>3, <1>5, <2>1, <2>2 DEF Watched, Replying
<1>7. CASE Send(c) /\ issued' = issued \cup {This(c)}
  <2>1. pc[c] = "send" /\ pc'[c] = "sent"
    BY <1>7 DEF Send, Goes, RunInv, Typed
  <2>2. CASE Replying(c)
    <3>1. IssuedReplies = {} /\ IssuedReplies' \subseteq {This(c)}
      BY <1>1, <1>7, <2>1, <2>2 DEF Watched, IssuedReplies, Replying
    <3>2. \A d \in Callers \ {c} : Replying(d) => ~Running(d)
      BY <1>3, <2>2 DEF Watched
    <3>3. \A d \in Callers : Replying(d) => pc'[d] \notin {"lookup", "read", "send"}
      BY <1>3, <2>1, <3>2 DEF Running
    <3> QED BY <1>1, <1>5, <3>1, <3>3 DEF Watched, Replying
  <2>3. CASE ~Replying(c)
    <3>1. IssuedReplies' = IssuedReplies
      BY <1>1, <1>7, <2>3 DEF IssuedReplies, Replying, This
    <3> QED BY <1>1, <1>2, <1>3, <1>5, <2>1, <2>3, <3>1 DEF Watched, Replying
  <2> QED BY <2>2, <2>3
<1> QED BY <1>1, <1>6, <1>7

\* The page only loses the reply to other messages, which excuses.
LEMMA LinkedInWatched ==
  ASSUME RunInv, Watched, LinkedIn, ~excused' PROVE Watched'
<1>1. UNCHANGED <<verb, pc, issued>>
  BY DEF LinkedIn, Intrude, Land, Show, caller
<1>2. IssuedReplies' = IssuedReplies
  BY <1>1 DEF IssuedReplies, Replying
<1>3. IssuedReplies # {} /\ OnPage(thread) => OnPage(thread)'
  <2> SUFFICES ASSUME NEW q \in IssuedReplies, OnPage(thread) PROVE OnPage(thread)'
    OBVIOUS
  <2>1. CASE Intrude
    BY <2>1 DEF Intrude, OnPage, NewestPage, Newest, Visible, OnView
  <2>2. ASSUME NEW r \in Runs, Land(r) PROVE OnPage(thread)'
    <3>1. r \notin shown /\ UNCHANGED shown
      BY <2>2 DEF Land, RunInv, Out
    <3>2. CASE thread' = Append(thread, r)
      BY <3>1, <3>2, LandedUnseen DEF OnPage, RunInv
    <3>3. CASE thread' = thread
      BY <3>1, <3>3 DEF OnPage, NewestPage, Newest, Visible, OnView
    <3> QED BY <2>2, <3>2, <3>3 DEF Land
  <2>3. ASSUME NEW r \in Runs, Show(r) PROVE FALSE
    <3>1. PICK m \in NewestPage(thread) : m # Other
      BY DEF OnPage
    <3>2. m \in shown
      BY <3>1 DEF NewestPage, Newest, Visible, OnView
    <3>3. m \in IssuedReplies /\ r \in IssuedReplies /\ r \notin shown
      BY <2>3, <3>2 DEF RunInv, Out, IssuedReplies, Show, Replying
    <3> QED BY <3>2, <3>3 DEF Watched
  <2> QED BY <2>1, <2>2, <2>3 DEF LinkedIn
<1> QED BY <1>1, <1>2, <1>3 DEF Watched, Running, Replying

LEMMA ReplyStep == RunInv /\ ReplyInv /\ [Next]_vars => ReplyInv'
<1> SUFFICES ASSUME RunInv, ReplyInv, [Next]_vars, ~excused' PROVE Watched'
  BY DEF ReplyInv
<1>1. ~excused
  BY DEF Next, LinkedIn, Intrude, Land, Show, Command, Start, Lookup, ReadThread, Undelivered, Send,
         Answered, vars, history
<1>2. Watched
  BY <1>1 DEF ReplyInv
<1>3. CASE UNCHANGED vars
  <2>1. UNCHANGED <<verb, pc, issued, thread, shown>>
    BY <1>3 DEF vars, caller, linkedin
  <2>2. IssuedReplies' = IssuedReplies /\ OnPage(thread)' = OnPage(thread)
    BY <2>1 DEF IssuedReplies, Replying, OnPage, NewestPage, Newest, Visible, OnView
  <2> QED BY <1>2, <2>1, <2>2 DEF Watched, Running, Replying
<1> QED BY <1>2, <1>3, StartsWatched, CommandsWatched, LinkedInWatched DEF Next, Command

\* The same reply lands twice only if a rerun could not have seen the first,
\* or was told not to look: for any number of callers and reruns, any page.
THEOREM TwiceIsUnseen == Spec => []TwiceOnlyUnseen
<1>1. Init => ReplyInv
  BY DEF Init, ReplyInv, Watched, IssuedReplies, Running
<1>2. RunInv /\ ReplyInv => TwiceOnlyUnseen
  <2> SUFFICES ASSUME RunInv, Watched
               PROVE  ~(Cardinality({r \in landed : verb[r[1]] \in Replies}) > 1)
    BY DEF ReplyInv, TwiceOnlyUnseen
  <2> DEFINE S == {r \in landed : verb[r[1]] \in Replies}
  <2>1. \A x, y \in S : x = y
    BY DEF RunInv, Out, Watched, IssuedReplies, Replying
  <2>2. S = {} \/ \E x : S = {x}
    BY <2>1
  <2>3. Cardinality(S) \in {0, 1}
    BY <2>2, FS_EmptySet, FS_Singleton
  <2> QED BY <2>3
<1> QED BY <1>1, <1>2, RunInvariant, ReplyStep, PTL DEF Spec
=============================================================================
