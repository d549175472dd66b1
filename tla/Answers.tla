------------------------------ MODULE Answers -------------------------------
(***************************************************************************)
(* What an answer to a request is taken for: raise_for_status and parse of *)
(* transport.py, BrowserClient._request of browser.py, and the             *)
(* postcondition each write of surfaces/ reads out of a 2xx body.          *)
(*                                                                         *)
(* A JSON body is the set of the marks found in it; {} is a body that says *)
(* nothing, which is also what parse makes of an empty one.                *)
(***************************************************************************)
EXTENDS Integers

Marks ==
  {"errors",        \* a list of errors at the top level
   "data.errors",   \* or under data
   "data",          \* anything else under data
   "data.made",     \* the urn of what the write created, under data
   "data.other",    \* the urn of something of another kind in its place
   "included",      \* entities decorated in, of other kinds
   "included.made", \* the created entity among them
   "included.kin",  \* another entity of the created kind
   "quota.error",   \* words of a quota refusal in the text of an error
   "quota.data",    \* or anywhere else under data
   "queryid"}       \* the word, early in the text

ErrorsIn(b)   == b \cap {"errors", "data.errors"} # {}
DataIn(b)     == b \cap {"data", "data.errors", "data.made", "data.other", "quota.data"} # {}
IncludedIn(b) == b \cap {"included", "included.made", "included.kin"} # {}

\* The urn of what this write created is in the body.
Made(b) == b \cap {"data.made", "included.made"} # {}

\* What the surfaces take for it.  By its kind alone: messaging._sent_urn under
\* data or included, posts._created_urns anywhere.
Kindred(b) == Made(b) \/ "included.kin" \in b

\* _created_urn of social and of invitations: any urn where data names its
\* value, and one of the kind in included.
AnyUrn(b) == Kindred(b) \/ "data.other" \in b

\* Writes by the verb of the command; "send" is a reply to a thread looked up.
Replies == {"reply", "send", "keyed"}
Removals == {"delete post", "delete comment", "unreact"}
Verbs == Replies \cup Removals \cup {"post", "react", "comment", "invite", "mark"}

Methods == {"GET", "HEAD", "OPTIONS", "POST", "DELETE"}
IDEMPOTENT_METHODS == {"GET", "HEAD", "OPTIONS"}

\* _request of the transport is given DELETE by delete_comment alone.
Method(what) == IF what = "delete comment" THEN "DELETE" ELSE "POST"

\* Bodies of a success and of an error status.
Bodies(status) ==
  IF status < 400
  THEN {b \in SUBSET (Marks \ {"queryid"}) : "quota.error" \in b => ErrorsIn(b)}
  ELSE SUBSET {"queryid", "quota.error"}

\* A text that is no JSON is quoted in the error it makes.
Texts(status) == IF status < 400 THEN SUBSET {"quota.error"} ELSE SUBSET {"queryid", "quota.error"}

\* What the supervisor can hand to _request: an error, something that is no
\* result, a response without a body, or one with it.
Responses ==
  LET Answer(status, place, payload, json) ==
        [via |-> "answer", status |-> status, place |-> place, payload |-> payload, json |-> json]
      statuses == {200, 204, 400, 401, 404, 429, 500, 503, 999}
  IN
  {[Answer(0, "api", "null", {}) EXCEPT !.via = v] : v \in {"error", "odd"}}
  \cup {Answer(s, "api", p, {}) : s \in statuses, p \in {"null", "blank", "html", "challenge"}}
  \cup (UNION {{Answer(s, "api", "text", b) : b \in Texts(s)} : s \in statuses})
  \cup {Answer(s, p, "html", {}) : s \in {200, 404}, p \in {"login", "checkpoint"}}
  \cup (UNION {{Answer(s, "api", "json", b) : b \in Bodies(s)} : s \in statuses \ {204}})

-----------------------------------------------------------------------------
(* Verdicts: what a run reports.  "says" is what its message establishes of  *)
(* the write: it was done, nothing of it was, it may have been, or neither.  *)

Verdict(slug, retryable, says) == [slug |-> slug, retryable |-> retryable, says |-> says]

Done       == Verdict("ok", FALSE, "done")
Fault(slug) == Verdict(slug, FALSE, "neither")
Refused    == Verdict("upstream", FALSE, "nothing")
Unconfirmed == Verdict("upstream", FALSE, "unknown")
OutcomeUnknown == Verdict("outcome_unknown", FALSE, "unknown")
InvitationQuotaExceeded == Verdict("invite_quota_exceeded", FALSE, "nothing")
Usage      == Verdict("usage", FALSE, "nothing")
NothingSent == Verdict("not_found", FALSE, "nothing")

\* Bug: the status alone decides.
ThrottleRetryableByStatus(status, method) == status \in {429, 503}

\* _throttle_retryable, for a method that is known.
ThrottleRetryable(status, method) == method \in IDEMPOTENT_METHODS

\* classify_url: a challenge outranks a login shell.
ClassifyUrl(place) ==
  CASE place = "checkpoint" -> Fault("blocked")
    [] place = "login"      -> Fault("session_expired")
    [] OTHER                -> Done

RaiseForStatus(r, method) ==
  IF ClassifyUrl(r.place) # Done THEN ClassifyUrl(r.place) ELSE
  CASE r.status \in {401, 403} -> Fault("session_expired")
    [] r.status = 404          -> Fault("not_found")
    [] r.status = 999          -> Fault("blocked")
    [] r.status \in {429, 503} ->
         Verdict("rate_limited", ThrottleRetryable(r.status, method), "neither")
    [] r.status = 400 /\ "queryid" \in r.json -> Fault("stale_query_id")
    [] r.status >= 400 /\ r.status \notin {401, 403, 404, 429, 503, 999}
         /\ ~(r.status = 400 /\ "queryid" \in r.json) -> Fault("upstream")
    [] OTHER -> Done

\* parse: HTML on a path of the API is the login shell, or a challenge.
Parse(r) ==
  CASE r.payload = "challenge" -> Fault("blocked")
    [] r.payload = "html"      -> Fault("session_expired")
    [] r.payload = "text"      -> Fault("upstream")
    [] OTHER                   -> Done

\* Bug: nothing was answered, so try again.
UndeliverableRetry(method) == Verdict("upstream", TRUE, "neither")

\* A failure without a status: only a read can be called a failure.
Undeliverable(method) == IF method = "GET" THEN Fault("upstream") ELSE OutcomeUnknown

\* BrowserClient._request; Done stands for the body, r.json.
Request(r, method) ==
  CASE r.via = "error" -> Undeliverable(method)
    [] r.via = "odd"   -> Fault("upstream")
    [] r.via = "answer" /\ r.payload = "null" /\ r.status # 204 -> Undeliverable(method)
    [] OTHER -> IF RaiseForStatus(r, method) # Done THEN RaiseForStatus(r, method) ELSE Parse(r)

-----------------------------------------------------------------------------
(* Postconditions. *)

\* messaging._confirm_sent: a refusal outranks a urn.
ConfirmMessage(b) ==
  IF ErrorsIn(b) THEN Refused ELSE IF Kindred(b) THEN Done ELSE Unconfirmed

\* posts.create.
ConfirmPost(b) ==
  IF ErrorsIn(b) THEN Refused ELSE IF Kindred(b) THEN Done ELSE OutcomeUnknown

\* posts._confirm_removed.
ConfirmRemoved(b) ==
  IF ~ErrorsIn(b) /\ (DataIn(b) \/ IncludedIn(b)) THEN Done ELSE Unconfirmed

\* Bug: errors are read at the top level alone.
ConfirmByTopLevel(b) ==
  CASE "errors" \in b -> Refused
    [] "errors" \notin b /\ (DataIn(b) \/ IncludedIn(b)) -> Done
    [] OTHER -> Unconfirmed

\* social._confirm.
Confirm(b) ==
  CASE ErrorsIn(b) -> Refused
    [] ~ErrorsIn(b) /\ (DataIn(b) \/ IncludedIn(b)) -> Done
    [] OTHER -> Unconfirmed

\* social.comment.
ConfirmComment(b) ==
  IF Confirm(b) = Done /\ ~AnyUrn(b) THEN Unconfirmed ELSE Confirm(b)

\* social._confirm_deleted: an empty answer is the success of this route.
ConfirmDeleted(b) == IF ErrorsIn(b) THEN Refused ELSE Done

\* Bug: words of a quota are looked for before the evidence of a success.
ConfirmInviteByWords(b) ==
  CASE b \cap {"quota.error", "quota.data"} # {} -> InvitationQuotaExceeded
    [] AnyUrn(b) /\ ~ErrorsIn(b) -> Done
    [] OTHER -> Unconfirmed

\* invitations._confirm_sent: the evidence beats the words, the words are not
\* looked for in the profile decorated in.
ConfirmInvite(b) ==
  CASE ErrorsIn(b) /\ "quota.error" \in b -> InvitationQuotaExceeded
    [] ErrorsIn(b) /\ "quota.error" \notin b -> Unconfirmed
    [] ~ErrorsIn(b) /\ AnyUrn(b) -> Done
    [] ~ErrorsIn(b) /\ ~AnyUrn(b) /\ "quota.data" \in b -> InvitationQuotaExceeded
    [] OTHER -> Unconfirmed

\* mark_all_read does not look at its answer.
ConfirmMarked(b) == Done

Postcondition(what, b) ==
  CASE what \in Replies               -> ConfirmMessage(b)
    [] what = "post"                  -> ConfirmPost(b)
    [] what = "delete post"           -> ConfirmRemoved(b)
    [] what \in {"react", "unreact"}  -> Confirm(b)
    [] what = "comment"               -> ConfirmComment(b)
    [] what = "delete comment"        -> ConfirmDeleted(b)
    [] what = "invite"                -> ConfirmInvite(b)
    [] what = "mark"                  -> ConfirmMarked(b)

\* A write's verdict on its response; invite reads a quota out of any error.
WriteVerdict(what, r) ==
  LET failure == Request(r, Method(what)) IN
  CASE failure = Done -> Postcondition(what, r.json)
    [] what = "invite" /\ failure = Fault("upstream") /\ "quota.error" \in r.json ->
         InvitationQuotaExceeded
    [] OTHER -> failure

\* Bodies taken for a success that do not speak of one: the refusal of a mark,
\* and the urn of something else where the urn of what was created is looked for.
Misread(what, b) ==
  \/ what = "mark" /\ ErrorsIn(b)
  \/ /\ ~ErrorsIn(b) /\ ~Made(b)
     /\ \/ what \in Replies \cup {"post"} /\ Kindred(b)
        \/ what \in {"comment", "invite"} /\ AnyUrn(b)

=============================================================================
