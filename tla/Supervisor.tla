----------------------------- MODULE Supervisor -----------------------------
(***************************************************************************)
(* The resident supervisor of linkedin_cli/supervisor.py: finding it,      *)
(* starting it, asking it, and its end.                                    *)
(*                                                                         *)
(* A client is one call of supervisor.request, made by one CLI process.    *)
(* A daemon is one process running serve.  They meet at one path in the    *)
(* file system, which names the socket of the daemon that bound it last,   *)
(* alive or dead, and at the kernel's backlog of that socket.  A daemon    *)
(* takes one request at a time; a request is one in-page fetch, with two   *)
(* repairs of a page that has stopped answering.                           *)
(*                                                                         *)
(* The kernel and Chromium are external.  A connect succeeds when the path *)
(* names a listening socket whose backlog has room, and fails at once      *)
(* otherwise: with a timeout set the socket does not block, and a full     *)
(* backlog is EAGAIN (Linux) or ECONNREFUSED (darwin), both plain OSErrors.*)
(* A browser dies with the daemon that holds its pipe.                     *)
(***************************************************************************)
EXTENDS Integers, Sequences, FiniteSets

CONSTANTS
  Clients,       \* calls of request
  Asks,          \* what they may ask for: an operation for each
  Daemons,       \* processes that may be spawned
  BACKLOG,       \* the argument of listen
  Disturbances   \* what may go wrong in a model

AllDisturbances ==
  {"crash",      \* a daemon is killed with SIGKILL
   "stop",       \* a daemon ends by itself: idle, a browser that is beyond repair
   "interrupt",  \* a client is killed
   "slow",       \* a daemon needs longer than STARTUP_TIMEOUT to listen
   "refused"}    \* the lock file or Popen fails, a client stalls past REQUEST_TIMEOUT

\* The operations of _dispatch; a fetch is a read or a write.
Fetches    == {"read", "write"}
Operations == Fetches \cup {"seed", "status", "shutdown"}

ASSUME ClientsAssumption ==
  /\ Asks \subseteq [Clients -> Operations]
  /\ BACKLOG \in Nat
  /\ Disturbances \subseteq AllDisturbances

VARIABLES
  path,        \* the daemon whose socket the path names, if it names any
  stage,       \* how far the process of a daemon is
  backlog,     \* connections the kernel has taken and the daemon has not
  conn,        \* the connection a daemon has accepted
  rung,        \* repairs tried for the request in hand
  relaunched,  \* Resident.relaunched
  browser,     \* daemons whose browser is running
  op,          \* what a client asks for
  at,          \* where a client stands in request, or how it ended
  wrote,       \* clients whose message is on its way
  \* History variables.
  issued,      \* how often the request of a client was handed to a page
  disturbed    \* the launch protocol was left to more than one launcher

daemonVars == <<stage, backlog, conn, rung, relaunched, browser>>
clientVars == <<op, at, wrote>>
history    == <<issued, disturbed>>
vars       == <<path, daemonVars, clientVars, history>>

Serving   == {"serving", "reading", "fetching", "repairing", "relaunching",
              "answering", "failing", "parting"}
Listening == {"launching"} \cup Serving
Busy      == Serving \ {"serving"}
Starting  == {"born", "stale", "clear", "bound"}
Stages    == {"unborn", "gone", "stopping", "unlinking", "leaving"}
               \cup Starting \cup Listening

\* Inside `with guard(...)`.
Launching == {"recheck", "spawn", "await"}
Ended     == {"answered", "failed", "unstarted", "stopped", "killed"}
Places    == {"idle", "look", "lock", "send", "wait"} \cup Launching \cup Ended

Elements(q) == {q[i] : i \in DOMAIN q}

May(what) == what \in Disturbances

-----------------------------------------------------------------------------
(* Connecting. *)

\* Whoever a connect to the path would reach now.
Answering == {d \in path : stage[d] \in Listening /\ Len(backlog[d]) <= BACKLOG}

\* Bug: a launch does not wait for the one under way.
LaunchUnlocked == TRUE

LockFree == \A c \in Clients : at[c] \notin Launching

To(c, place) == at' = [at EXCEPT ![c] = place]

\* The kernel puts the connection into the backlog.
Connected(c) ==
  /\ \E d \in Answering : backlog' = [backlog EXCEPT ![d] = Append(@, c)]
  /\ To(c, "send")

-----------------------------------------------------------------------------
(* request, in the client. *)

Ask(c) ==
  /\ at[c] = "idle"
  /\ To(c, "look")
  /\ UNCHANGED <<path, daemonVars, op, wrote, history>>

\* Only status is asked with autostart off.
Autostart(c) == op[c] # "status"

\* The look without the lock.
Look(c) ==
  /\ at[c] = "look"
  /\ \/ Connected(c)
     \/ Answering = {} /\ To(c, IF Autostart(c) THEN "lock" ELSE "unstarted") /\ UNCHANGED backlog
  /\ UNCHANGED <<path, stage, conn, rung, relaunched, browser, op, wrote, history>>

\* _flock.
Lock(c) ==
  /\ at[c] = "lock"
  /\ LockFree
  /\ To(c, "recheck")
  /\ UNCHANGED <<path, daemonVars, op, wrote, history>>

\* _flock's directory or file cannot be made: an OSError that request lets out,
\* with nothing spawned and nothing sent.
LockUnavailable(c) ==
  /\ May("refused")
  /\ at[c] = "lock"
  /\ To(c, "unstarted")
  /\ UNCHANGED <<path, daemonVars, op, wrote, history>>

\* The re-check under the lock.
Recheck(c) ==
  /\ at[c] = "recheck"
  /\ \/ Connected(c)
     \/ Answering = {} /\ To(c, "spawn") /\ UNCHANGED backlog
  /\ UNCHANGED <<path, stage, conn, rung, relaunched, browser, op, wrote, history>>

\* spawn_supervisor; an OSError of Popen ends the call.  A model that has run
\* out of daemons ends it too.
Spawn(c) ==
  /\ at[c] = "spawn"
  /\ \/ \E d \in Daemons :
          /\ stage[d] = "unborn"
          /\ stage' = [stage EXCEPT ![d] = "born"]
          /\ To(c, "await")
     \/ /\ May("refused") \/ \A d \in Daemons : stage[d] # "unborn"
        /\ To(c, "unstarted") /\ UNCHANGED stage
  /\ UNCHANGED <<path, backlog, conn, rung, relaunched, browser, op, wrote, history>>

\* _await, until somebody listens.
Await(c) ==
  /\ at[c] = "await"
  /\ Connected(c)
  /\ UNCHANGED <<path, stage, conn, rung, relaunched, browser, op, wrote, history>>

\* Bug: _await only gives up when the path is gone.
GiveUpOnEmptyPath(c) ==
  /\ at[c] = "await" /\ Answering = {} /\ path = {}
  /\ To(c, "unstarted")
  /\ UNCHANGED <<path, daemonVars, op, wrote, history>>

\* STARTUP_TIMEOUT: nobody is starting, or it is taking too long.
GiveUp(c) ==
  /\ at[c] = "await" /\ Answering = {}
  /\ LET starting == \E d \in Daemons : stage[d] \in Starting IN
       /\ starting => May("slow")
       /\ disturbed' = (disturbed \/ starting)
  /\ To(c, "unstarted")
  /\ UNCHANGED <<path, daemonVars, op, wrote, issued>>

\* The daemon, or its backlog, still has the connection.
Held(c) == \E d \in Daemons : c \in conn[d] \cup Elements(backlog[d])

Send(c) ==
  /\ at[c] = "send"
  /\ IF Held(c) THEN To(c, "wait") /\ wrote' = wrote \cup {c}
                ELSE To(c, "stopped") /\ UNCHANGED wrote
  /\ UNCHANGED <<path, daemonVars, op, history>>

\* Bug: a call that got no answer is made again.
ResendWhenStopped(c) ==
  /\ at[c] = "wait"
  /\ To(c, "look")
  /\ wrote' = wrote \ {c}
  /\ UNCHANGED <<path, daemonVars, op, history>>

\* EOF, a reset, or RESPONSE_TIMEOUT: the request is out and is not repeated.
Abandon(c) ==
  /\ at[c] = "wait"
  /\ To(c, "stopped")
  /\ UNCHANGED <<path, daemonVars, op, wrote, history>>

Interrupt(c) ==
  /\ May("interrupt")
  /\ at[c] \notin {"idle"} \cup Ended
  /\ To(c, "killed")
  /\ disturbed' = (disturbed \/ at[c] \in Launching)
  /\ UNCHANGED <<path, daemonVars, op, wrote, issued>>

-----------------------------------------------------------------------------
(* bind_socket, in the daemon. *)

Enter(d, s) == stage' = [stage EXCEPT ![d] = s]

\* Does the path exist, and does anybody answer on it?
Probe(d) ==
  /\ stage[d] = "born"
  /\ \/ path = {} /\ Enter(d, "clear")
     \/ Answering # {} /\ Enter(d, "gone")          \* "another supervisor ..."
     \/ path # {} /\ Answering = {} /\ Enter(d, "stale")
  /\ UNCHANGED <<path, backlog, conn, rung, relaunched, browser, clientVars, history>>

Unlink(d) ==
  /\ stage[d] = "stale"
  /\ path' = {}
  /\ Enter(d, "clear")
  /\ UNCHANGED <<backlog, conn, rung, relaunched, browser, clientVars, history>>

\* Bound and not yet listening; EADDRINUSE when the path is taken.
Bind(d) ==
  /\ stage[d] = "clear"
  /\ \/ path = {} /\ path' = {d} /\ Enter(d, "bound")
     \/ path # {} /\ UNCHANGED path /\ Enter(d, "gone")
  /\ UNCHANGED <<backlog, conn, rung, relaunched, browser, clientVars, history>>

\* chmod, which needs the path to be there, then listen.
Listen(d) ==
  /\ stage[d] = "bound"
  /\ Enter(d, IF path = {} THEN "gone" ELSE "launching")
  /\ UNCHANGED <<path, backlog, conn, rung, relaunched, browser, clientVars, history>>

\* A launch that failed after the spawn has left its Chromium running.
MayRun(d) == browser' \in {browser, browser \cup {d}}

\* resident.start(); when it fails serve goes straight to its finally.
Launch(d) ==
  /\ stage[d] = "launching"
  /\ \/ browser' = browser \cup {d} /\ Enter(d, "serving") /\ UNCHANGED disturbed
     \/ May("stop") /\ Enter(d, "stopping") /\ disturbed' = TRUE /\ MayRun(d)
  /\ UNCHANGED <<path, backlog, conn, rung, relaunched, clientVars, issued>>

-----------------------------------------------------------------------------
(* _accept_loop and _serve_connection. *)

Accept(d) ==
  /\ stage[d] = "serving" /\ backlog[d] # <<>>
  /\ conn' = [conn EXCEPT ![d] = {Head(backlog[d])}]
  /\ backlog' = [backlog EXCEPT ![d] = Tail(@)]
  /\ rung' = [rung EXCEPT ![d] = 0]
  /\ Enter(d, "reading")
  /\ UNCHANGED <<path, relaunched, browser, clientVars, history>>

\* IDLE_TIMEOUT with nobody in the backlog.
Idle(d) ==
  /\ May("stop")
  /\ stage[d] = "serving" /\ backlog[d] = <<>>
  /\ Enter(d, "stopping")
  /\ disturbed' = TRUE
  /\ UNCHANGED <<path, backlog, conn, rung, relaunched, browser, clientVars, issued>>

\* Bug: a caller that said nothing is left connected.
ReadKeepsConnection(d) ==
  /\ stage[d] = "reading"
  /\ \E c \in conn[d] :
       \/ c \in wrote /\ Enter(d, "fetching")
       \/ c \notin wrote /\ (at[c] = "killed" \/ May("refused")) /\ Enter(d, "serving")
  /\ UNCHANGED <<path, conn, backlog, rung, relaunched, browser, clientVars, history>>

\* One request off the connection, or a caller that died or stalled.
Read(d) ==
  /\ stage[d] = "reading"
  /\ \E c \in conn[d] :
       \/ c \in wrote /\ Enter(d, "fetching") /\ UNCHANGED conn
       \/ /\ c \notin wrote /\ (at[c] = "killed" \/ May("refused"))
          /\ Enter(d, "serving") /\ conn' = [conn EXCEPT ![d] = {}]
  /\ UNCHANGED <<path, backlog, rung, relaunched, browser, clientVars, history>>

Asked(d)  == {op[c] : c \in conn[d]}
Writes(d) == Asked(d) = {"write"}

Issue(d) == issued' = [c \in Clients |-> IF c \in conn[d] THEN issued[c] + 1 ELSE issued[c]]

\* _fetch_once: what the page makes of it.
Fetch(d) ==
  /\ stage[d] = "fetching" /\ Asked(d) \subseteq Fetches
  /\ Issue(d)
  /\ \/ Enter(d, "answering")                    \* an HTTP answer of any kind
     \/ Enter(d, "failing")                      \* an error of the call itself
     \/ Enter(d, "repairing")                    \* _looks_dead
     \/ May("stop") /\ Enter(d, "parting")       \* PipeClosed
  /\ UNCHANGED <<path, backlog, conn, rung, relaunched, browser, clientVars, disturbed>>

\* status and seed, which ask the page too and have no repair, and shutdown.
Dispatch(d) ==
  /\ stage[d] = "fetching"
  /\ \/ /\ Asked(d) \subseteq {"seed", "status"}
        /\ Issue(d)
        /\ \/ \E outcome \in {"answering", "failing"} : Enter(d, outcome)
           \/ May("stop") /\ Enter(d, "parting")    \* PipeClosed
     \/ Asked(d) = {"shutdown"} /\ Enter(d, "parting") /\ UNCHANGED issued
  /\ UNCHANGED <<path, backlog, conn, rung, relaunched, browser, clientVars, disturbed>>

\* Bug: a repaired page is asked again, whatever the method.
RepairedResends(d) == Enter(d, "fetching")

\* After a repair that took, only a read is issued again.
Repaired(d) == Enter(d, IF Writes(d) THEN "failing" ELSE "fetching")

Renavigate(d) ==
  /\ stage[d] = "repairing" /\ rung[d] = 0
  /\ rung' = [rung EXCEPT ![d] = 1]
  /\ Repaired(d) \/ UNCHANGED stage
  /\ UNCHANGED <<path, backlog, conn, relaunched, browser, clientVars, history>>

\* Once per daemon: the old browser is closed before the new one is launched.
Relaunch(d) ==
  /\ stage[d] = "repairing" /\ rung[d] = 1
  /\ rung' = [rung EXCEPT ![d] = 2]
  /\ IF d \in relaunched
     THEN UNCHANGED <<stage, relaunched, browser>>
     ELSE /\ relaunched' = relaunched \cup {d}
          /\ browser' = browser \ {d}
          /\ Enter(d, "relaunching")
  /\ UNCHANGED <<path, backlog, conn, clientVars, history>>

Relaunched(d) ==
  /\ stage[d] = "relaunching"
  /\ \/ Repaired(d) /\ browser' = browser \cup {d}
     \/ Enter(d, "repairing") /\ MayRun(d)
  /\ UNCHANGED <<path, backlog, conn, rung, relaunched, clientVars, history>>

\* Both rungs are used up: answer `closed` and stop.
BeyondRepair(d) ==
  /\ stage[d] = "repairing" /\ rung[d] = 2
  /\ Enter(d, "parting")
  /\ UNCHANGED <<path, backlog, conn, rung, relaunched, browser, clientVars, history>>

\* The answer, if the caller is still there; then the next one, or the end.
Answer(d) ==
  /\ stage[d] \in {"answering", "failing", "parting"}
  /\ LET reply == IF stage[d] = "answering" \/ Asked(d) = {"shutdown"} THEN "answered" ELSE "failed"
     IN at' = [c \in Clients |-> IF c \in conn[d] /\ at[c] = "wait" THEN reply ELSE at[c]]
  /\ conn' = [conn EXCEPT ![d] = {}]
  /\ Enter(d, IF stage[d] = "parting" THEN "stopping" ELSE "serving")
  /\ disturbed' = (disturbed \/ stage[d] = "parting")
  /\ UNCHANGED <<path, backlog, rung, relaunched, browser, op, wrote, issued>>

-----------------------------------------------------------------------------
(* The finally of serve, and SIGKILL. *)

CloseListener(d) ==
  /\ stage[d] = "stopping"
  /\ backlog' = [backlog EXCEPT ![d] = <<>>]
  /\ Enter(d, "unlinking")
  /\ UNCHANGED <<path, conn, rung, relaunched, browser, clientVars, history>>

\* path.unlink(missing_ok=True): whatever the path names by now.
UnlinkOwn(d) ==
  /\ stage[d] = "unlinking"
  /\ path' = {}
  /\ Enter(d, "leaving")
  /\ UNCHANGED <<backlog, conn, rung, relaunched, browser, clientVars, history>>

\* Resident.close, and the end of the process.
CloseBrowser(d) ==
  /\ stage[d] = "leaving"
  /\ browser' = browser \ {d}
  /\ Enter(d, "gone")
  /\ UNCHANGED <<path, backlog, conn, rung, relaunched, clientVars, history>>

Crash(d) ==
  /\ May("crash")
  /\ stage[d] \notin {"unborn", "gone"}
  /\ Enter(d, "gone")
  /\ backlog' = [backlog EXCEPT ![d] = <<>>]
  /\ conn' = [conn EXCEPT ![d] = {}]
  /\ browser' = browser \ {d}
  /\ UNCHANGED <<path, rung, relaunched, clientVars, history>>

-----------------------------------------------------------------------------
Init ==
  /\ path = {} /\ browser = {} /\ relaunched = {}
  /\ stage = [d \in Daemons |-> "unborn"]
  /\ backlog = [d \in Daemons |-> <<>>]
  /\ conn = [d \in Daemons |-> {}]
  /\ rung = [d \in Daemons |-> 0]
  /\ op \in Asks
  /\ at = [c \in Clients |-> "idle"]
  /\ wrote = {}
  /\ issued = [c \in Clients |-> 0]
  /\ disturbed = FALSE

ClientStep(c) ==
  \/ Look(c) \/ Lock(c) \/ Recheck(c) \/ Spawn(c) \/ Await(c) \/ GiveUp(c)
  \/ Send(c) \/ Abandon(c)

DaemonStep(d) ==
  \/ Probe(d) \/ Unlink(d) \/ Bind(d) \/ Listen(d) \/ Launch(d)
  \/ Accept(d) \/ Idle(d) \/ Read(d) \/ Fetch(d) \/ Dispatch(d)
  \/ Renavigate(d) \/ Relaunch(d) \/ Relaunched(d) \/ BeyondRepair(d) \/ Answer(d)
  \/ CloseListener(d) \/ UnlinkOwn(d) \/ CloseBrowser(d)

Next ==
  \/ \E c \in Clients : Ask(c) \/ ClientStep(c) \/ LockUnavailable(c) \/ Interrupt(c)
  \/ \E d \in Daemons : DaemonStep(d) \/ Crash(d)

Spec == Init /\ [][Next]_vars

\* Every process is scheduled, every timeout runs out, Chromium answers or is
\* timed out, and an flock whose holders come and go is granted in the end.
FairSpec ==
  /\ Spec
  /\ \A c \in Clients : WF_vars(ClientStep(c))
  /\ \A d \in Daemons : WF_vars(DaemonStep(d))

-----------------------------------------------------------------------------
(* Properties. *)

\* Every variable holds a value of its type, a daemon has a connection in hand
\* exactly while it works on one, and only a listener has a backlog.
SupervisorTypeOK ==
  /\ path \in SUBSET Daemons /\ \A d, e \in path : d = e
  /\ stage \in [Daemons -> Stages]
  /\ backlog \in [Daemons -> Seq(Clients)]
  /\ \A d \in Daemons : backlog[d] # <<>> => stage[d] \in Listening \cup {"stopping"}
  /\ conn \in [Daemons -> SUBSET Clients]
  /\ \A d \in Daemons : conn[d] # {} <=> stage[d] \in Busy
  /\ rung \in [Daemons -> 0 .. 2]
  /\ relaunched \subseteq Daemons /\ browser \subseteq Daemons
  /\ op \in Asks /\ at \in [Clients -> Places]
  /\ wrote \subseteq Clients
  /\ issued \in [Clients -> Nat]
  /\ disturbed \in BOOLEAN

\* Whatever is no read is handed to a page at most once and a read three times,
\* through lost answers, relaunches and restarts of the supervisor; a call that
\* says no supervisor was there or could be started was never made, and one
\* that reports an answer was, a shutdown apart, which asks no page (request:
\* "Never retried"; _fetch: "Only a read may be issued twice").
IssuedAsReported ==
  \A c \in Clients :
    /\ issued[c] <= IF op[c] = "read" THEN 3 ELSE 1
    /\ at[c] = "unstarted" => issued[c] = 0
    /\ at[c] \in {"answered", "failed"} /\ op[c] # "shutdown" => 1 <= issued[c]

\* Supervisors that listen or hold a browser.
Up == {d \in Daemons : stage[d] \in Listening} \cup browser

\* However many calls arrive at once, and however often a supervisor is killed
\* outright, there is one at most, unless one is ending by itself or a launch
\* was interrupted (_autostart, bind_socket: a starter that is bound and not yet
\* listening looks dead to another, so only the launch lock keeps them apart).
OneSupervisor == ~disturbed => Cardinality(Up) <= 1

\* Every call returns, whatever happens to the supervisor and to the other
\* calls, the one that holds the launch lock included (request: "Never raises";
\* the OSError of a lock file that cannot be made counts as a return here).
CallsReturn == \A c \in Clients : at[c] = "look" ~> at[c] \in Ended

-----------------------------------------------------------------------------
(* What the documentation says and the code does not keep. *)

\* Nobody unlinks the socket of a supervisor that is listening on it: a busy
\* supervisor "counts as someone listening" (answers, bind_socket).
LiveSocketKept ==
  [][\A d \in path : stage[d] \in Listening /\ stage'[d] \in Listening
        => path' = path]_vars

\* Two supervisors never hold a browser at once, both on the one profile.
OneBrowser == Cardinality(browser) <= 1

=============================================================================
