-------------------------------- MODULE Rpc ---------------------------------
(***************************************************************************)
(* What CDPSession.call of linkedin_cli/cdp.py promises its caller: a call *)
(* ends with the reply of its own, or fails, and one failed for want of a  *)
(* reply may still be executed, before or after its caller has given up.   *)
(* How the reply travels is left to Channel.                               *)
(***************************************************************************)
CONSTANT Calls

VARIABLES
  outcome,   \* how far a call is, for its caller
  reply,     \* the call a caller was given the reply of
  executed   \* calls the browser has executed

vars == <<outcome, reply, executed>>

None == <<>>

Outcomes == {"idle", "waiting", "answered", "refused", "failed", "unsent"}

Becomes(c, how) == outcome' = [outcome EXCEPT ![c] = how]

Init ==
  /\ outcome = [c \in Calls |-> "idle"]
  /\ reply = [c \in Calls |-> None]
  /\ executed = {}

\* One call at a time, on whatever session.
Ask(c) ==
  /\ outcome[c] = "idle"
  /\ \A other \in Calls : outcome[other] # "waiting"
  /\ Becomes(c, "waiting")
  /\ UNCHANGED <<reply, executed>>

\* A connection that is closed takes nothing.
Refuse(c) ==
  /\ outcome[c] = "idle"
  /\ Becomes(c, "unsent")
  /\ UNCHANGED <<reply, executed>>

\* Once, and possibly after the caller gave up.
Execute(c) ==
  /\ outcome[c] \in {"waiting", "failed"} /\ c \notin executed
  /\ executed' = executed \cup {c}
  /\ UNCHANGED <<outcome, reply>>

\* A result or an error, of this call and no other.
Answer(c) ==
  /\ outcome[c] = "waiting" /\ c \in executed
  /\ Becomes(c, "answered") \/ Becomes(c, "refused")
  /\ reply' = [reply EXCEPT ![c] = c]
  /\ UNCHANGED executed

Fail(c) ==
  /\ outcome[c] = "waiting"
  /\ Becomes(c, "failed")
  /\ UNCHANGED <<reply, executed>>

Next ==
  \E c \in Calls : Ask(c) \/ Refuse(c) \/ Execute(c) \/ Answer(c) \/ Fail(c)

Spec == Init /\ [][Next]_vars

=============================================================================
