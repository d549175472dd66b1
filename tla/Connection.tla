----------------------------- MODULE Connection -----------------------------
(***************************************************************************)
(* Browser.launch from the first step of pipe.launch to the last call of   *)
(* the connection it returns: Launch, then Channel on the two ends this    *)
(* side has kept.  Channel takes a dead browser for one whose pipes read   *)
(* as ended; that is so because the launch leaves no copy of the child's   *)
(* ends behind (NothingLeaks).                                             *)
(***************************************************************************)
EXTENDS Channel

CONSTANTS
  Fds,     \* of Launch
  HIGH_FD

VARIABLES
  table, inherits, before, todo, parked, place, child, failed, unparked, \* of Launch
  connected  \* a PipeConnection holds the two ends

L == INSTANCE Launch

ASSUME DescriptorsAssumption == L!LaunchAssumption

launchVars == <<table, inherits, before, todo, parked, place, child, failed, unparked>>
allVars == <<vars, launchVars, connected>>

ConnectionInit == L!Init /\ Init /\ connected = FALSE

Launching == L!Next /\ UNCHANGED <<vars, connected>>

\* launch returns: its locals go, and what else the supervisor has open is not
\* looked at again, which the model writes as a table with the two ends alone.
Connect ==
  /\ ~connected /\ L!Over /\ ~failed
  /\ connected' = TRUE
  /\ place' = [place EXCEPT !["we_write"] = HIGH_FD, !["we_read"] = HIGH_FD + 1]
  /\ table' = [f \in Fds |-> IF f = HIGH_FD THEN table[place["we_write"]]
                             ELSE IF f = HIGH_FD + 1 THEN table[place["we_read"]]
                             ELSE L!Closed]
  /\ inherits' = {HIGH_FD, HIGH_FD + 1}
  /\ before' = [open |-> {}, inherits |-> {}]
  /\ parked' = <<>> /\ unparked' = {}
  /\ UNCHANGED <<todo, child, failed, vars>>

Using == connected /\ Next /\ UNCHANGED <<launchVars, connected>>

ConnectionNext == Launching \/ Connect \/ Using

\* As in Channel: the thread that waits is scheduled, and time passes.
ConnectionSpec ==
  /\ ConnectionInit /\ [][ConnectionNext]_allVars
  /\ WF_vars(Waiting) /\ WF_vars(Tick)

-----------------------------------------------------------------------------
(* Properties. *)

\* pipe.launch leaves the supervisor's listener and lock where they were,
\* whichever of its steps fails.
OthersRestored == L!OthersRestored

\* It leaves nothing else open but this side's ends, of either pipe.
NothingLeaks == L!NothingLeaks

\* The browser reads one pipe on 3 and writes the other on 4.
ChildHasItsEnds == L!ChildHasItsEnds

=============================================================================
