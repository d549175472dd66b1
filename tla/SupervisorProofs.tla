-------------------------- MODULE SupervisorProofs --------------------------
(***************************************************************************)
(* What holds of the supervisors and their callers for any number of them. *)
(*                                                                         *)
(* IssuedAsReported needs to know where a connection is: HeldInv says it is*)
(* in one place, and nowhere for a call that never connected, and Worked   *)
(* bounds what a request has cost by the repairs it has seen.              *)
(*                                                                         *)
(* OneSupervisor needs to know what the launch lock keeps apart: while no  *)
(* launch was left to others, one process at most is between its spawn and *)
(* its end, and until it listens its launcher holds the lock (Alone).      *)
(***************************************************************************)
EXTENDS Supervisor, FiniteSetTheorems, SequenceTheorems, TLAPS

-----------------------------------------------------------------------------
(* Types. *)

\* A client that connects joins the backlog of a listener.
LEMMA ConnectedTyped ==
  ASSUME SupervisorTypeOK, NEW c \in Clients, Connected(c)
  PROVE  /\ backlog' \in [Daemons -> Seq(Clients)]
         /\ \A d \in Daemons : backlog'[d] # <<>> => stage[d] \in Listening \cup {"stopping"}
         /\ at' \in [Clients -> Places]
<1>1. PICK d \in Answering : backlog' = [backlog EXCEPT ![d] = Append(@, c)]
  BY DEF Connected
<1>2. d \in Daemons /\ stage[d] \in Listening
  BY DEF Answering, SupervisorTypeOK
<1>3. at' \in [Clients -> Places]
  BY DEF Connected, To, SupervisorTypeOK, Places
<1> QED BY <1>1, <1>2, <1>3 DEF SupervisorTypeOK

\* Work on the request in hand goes from one stage of it to another.
LEMMA WorkTyped ==
  ASSUME SupervisorTypeOK, NEW d \in Daemons, stage[d] \in Busy,
         UNCHANGED <<conn, backlog>>,
         (\E s \in Busy : Enter(d, s)) \/ UNCHANGED stage
  PROVE  /\ stage' \in [Daemons -> Stages]
         /\ \A e \in Daemons : conn'[e] # {} <=> stage'[e] \in Busy
         /\ \A e \in Daemons : backlog'[e] # <<>> => stage'[e] \in Listening \cup {"stopping"}
<1>1. Busy \subseteq Listening /\ Listening \subseteq Stages
  BY DEF Busy, Serving, Listening, Stages
<1>2. CASE UNCHANGED stage
  BY <1>2 DEF SupervisorTypeOK
<1>3. CASE \E s \in Busy : Enter(d, s)
  BY <1>1, <1>3 DEF SupervisorTypeOK, Enter
<1> QED BY <1>2, <1>3

LEMMA SupervisorTypeStep == SupervisorTypeOK /\ [Next]_vars => SupervisorTypeOK'
<1> SUFFICES ASSUME SupervisorTypeOK, [Next]_vars PROVE SupervisorTypeOK'
  OBVIOUS
<1> USE DEF SupervisorTypeOK
<1>c. ASSUME NEW c \in Clients, Ask(c) \/ ClientStep(c) \/ LockUnavailable(c) \/ Interrupt(c)
      PROVE  SupervisorTypeOK'
  <2> USE DEF To, daemonVars, history, Places, Ended, Launching
  <2>1. CASE Ask(c)
    BY <2>1 DEF Ask
  <2>2. CASE Look(c)
    BY <2>2, ConnectedTyped DEF Look
  <2>3. CASE Lock(c)
    BY <2>3 DEF Lock
  <2>4. CASE Recheck(c)
    BY <2>4, ConnectedTyped DEF Recheck
  <2>5. CASE Spawn(c)
    <3>1. CASE UNCHANGED stage
      BY <2>5, <3>1 DEF Spawn
    <3>2. ASSUME NEW d \in Daemons, stage[d] = "unborn",
                 stage' = [stage EXCEPT ![d] = "born"]
          PROVE  SupervisorTypeOK'
      <4>1. backlog[d] = <<>> /\ conn[d] = {} /\ UNCHANGED <<backlog, conn>>
        BY <2>5, <3>2 DEF Spawn, Listening, Serving, Busy
      <4>2. stage' \in [Daemons -> Stages]
        BY <3>2 DEF Stages, Starting
      <4>3. \A e \in Daemons : conn'[e] # {} <=> stage'[e] \in Busy
        BY <3>2, <4>1 DEF Busy, Serving
      <4>4. \A e \in Daemons : backlog'[e] # <<>> => stage'[e] \in Listening \cup {"stopping"}
        BY <3>2, <4>1
      <4>5. at' \in [Clients -> Places] /\ UNCHANGED <<path, rung, relaunched, browser, op, wrote, history>>
        BY <2>5 DEF Spawn
      <4> QED BY <4>1, <4>2, <4>3, <4>4, <4>5
    <3> QED BY <2>5, <3>1, <3>2 DEF Spawn
  <2>6. CASE Await(c)
    BY <2>6, ConnectedTyped DEF Await
  <2>7. CASE GiveUp(c)
    BY <2>7 DEF GiveUp
  <2>8. CASE Send(c)
    BY <2>8 DEF Send
  <2>9. CASE Abandon(c)
    BY <2>9 DEF Abandon
  <2>10. CASE Interrupt(c)
    BY <2>10 DEF Interrupt
  <2>11. CASE LockUnavailable(c)
    BY <2>11 DEF LockUnavailable
  <2> QED BY <1>c, <2>1, <2>2, <2>3, <2>4, <2>5, <2>6, <2>7, <2>8, <2>9, <2>10, <2>11 DEF ClientStep
<1>d. ASSUME NEW d \in Daemons, DaemonStep(d) \/ Crash(d)
      PROVE  SupervisorTypeOK'
  <2> USE DEF Enter, clientVars, history, Stages, Starting, Listening, Serving, Busy
  <2>1. CASE Probe(d)
    BY <2>1, ZenonT(60) DEF Probe
  <2>2. CASE Unlink(d)
    BY <2>2 DEF Unlink
  <2>3. CASE Bind(d)
    BY <2>3, ZenonT(60) DEF Bind
  <2>4. CASE Listen(d)
    BY <2>4 DEF Listen
  <2>5. CASE Launch(d)
    BY <2>5, ZenonT(60) DEF Launch, MayRun
  <2>6. CASE Accept(d)
    BY <2>6, HeadTailProperties DEF Accept
  <2>7. CASE Idle(d)
    BY <2>7 DEF Idle
  <2>8. CASE Read(d)
    BY <2>8, ZenonT(60) DEF Read
  <2>9. CASE Fetch(d)
    <3>1. stage[d] \in Busy /\ \E s \in Busy : Enter(d, s)
      BY <2>9 DEF Fetch
    <3> HIDE DEF Enter, Busy
    <3> QED BY <2>9, <3>1, WorkTyped DEF Fetch, Issue
  <2>10. CASE Dispatch(d)
    <3>1. stage[d] \in Busy /\ \E s \in Busy : Enter(d, s)
      BY <2>10 DEF Dispatch
    <3> HIDE DEF Enter, Busy
    <3>2. issued' \in [Clients -> Nat]
      BY <2>10 DEF Dispatch, Issue
    <3>3. UNCHANGED <<path, backlog, conn, rung, relaunched, browser, clientVars, disturbed>>
      BY <2>10 DEF Dispatch
    <3> QED BY <3>1, <3>2, <3>3, WorkTyped
  <2>11. CASE Renavigate(d)
    <3>1. stage[d] \in Busy /\ ((\E s \in Busy : Enter(d, s)) \/ UNCHANGED stage)
      BY <2>11 DEF Renavigate, Repaired
    <3> HIDE DEF Enter, Busy
    <3> QED BY <2>11, <3>1, WorkTyped DEF Renavigate
  <2>12. CASE Relaunch(d)
    <3>1. stage[d] \in Busy /\ ((\E s \in Busy : Enter(d, s)) \/ UNCHANGED stage)
      BY <2>12 DEF Relaunch
    <3> HIDE DEF Enter, Busy
    <3> QED BY <2>12, <3>1, WorkTyped DEF Relaunch
  <2>13. CASE Relaunched(d)
    <3>1. stage[d] \in Busy /\ \E s \in Busy : Enter(d, s)
      BY <2>13 DEF Relaunched, Repaired
    <3> HIDE DEF Enter, Busy
    <3> QED BY <2>13, <3>1, WorkTyped DEF Relaunched, MayRun
  <2>14. CASE BeyondRepair(d)
    BY <2>14 DEF BeyondRepair
  <2>15. CASE Answer(d)
    BY <2>15 DEF Answer, Places, Ended
  <2>16. CASE CloseListener(d)
    BY <2>16 DEF CloseListener
  <2>17. CASE UnlinkOwn(d)
    BY <2>17 DEF UnlinkOwn
  <2>18. CASE CloseBrowser(d)
    BY <2>18 DEF CloseBrowser
  <2>19. CASE Crash(d)
    BY <2>19 DEF Crash
  <2> QED BY <1>d, <2>1, <2>2, <2>3, <2>4, <2>5, <2>6, <2>7, <2>8, <2>9, <2>10,
             <2>11, <2>12, <2>13, <2>14, <2>15, <2>16, <2>17, <2>18, <2>19 DEF DaemonStep
<1> QED
  <2>1. CASE UNCHANGED vars
    BY <2>1 DEF vars, daemonVars, clientVars, history
  <2> QED BY <1>c, <1>d, <2>1 DEF Next

LEMMA InitTyped == Init => SupervisorTypeOK
<1> SUFFICES ASSUME Init PROVE SupervisorTypeOK
  OBVIOUS
<1>1. \A q : q = <<>> => q \in Seq(Clients)
  BY EmptySeq
<1>2. backlog \in [Daemons -> Seq(Clients)] /\ \A d \in Daemons : backlog[d] = <<>>
  BY <1>1 DEF Init
<1>3. conn \in [Daemons -> SUBSET Clients] /\ \A d \in Daemons : conn[d] # {} <=> stage[d] \in Busy
  BY DEF Init, Busy, Serving
<1>4. /\ stage \in [Daemons -> Stages] /\ rung \in [Daemons -> 0 .. 2]
      /\ at \in [Clients -> Places] /\ issued \in [Clients -> Nat]
  BY DEF Init, Stages, Places
<1>5. /\ path \in SUBSET Daemons /\ \A d, e \in path : d = e
      /\ relaunched \subseteq Daemons /\ browser \subseteq Daemons /\ wrote \subseteq Clients
      /\ op \in Asks /\ disturbed \in BOOLEAN
  BY DEF Init
<1> QED BY <1>2, <1>3, <1>4, <1>5 DEF SupervisorTypeOK

\* Every reachable state of the supervisors and their callers is typed.
THEOREM SupervisorTypes == Spec => []SupervisorTypeOK
<1> QED BY InitTyped, SupervisorTypeStep, PTL DEF Spec

-----------------------------------------------------------------------------
(* Who holds the connection of a call. *)

\* A call that has not reached a supervisor.
Fresh(c) == at[c] \in {"idle", "look", "lock", "unstarted"} \cup Launching

\* No call waits twice in one backlog.
Distinct(q) == \A i, j \in DOMAIN q : q[i] = q[j] => i = j

Holds(d) == conn[d] \cup Elements(backlog[d])

\* A connection is in one place: the hand or the backlog of one daemon.
HeldInv ==
  /\ \A d \in Daemons : /\ Distinct(backlog[d])
                        /\ conn[d] \cap Elements(backlog[d]) = {}
                        /\ \A b, c \in conn[d] : b = c
  /\ \A d, e \in Daemons : d # e => Holds(d) \cap Holds(e) = {}
  /\ \A c \in Clients : Fresh(c) => ~Held(c)

\* What is held of one daemon, while a request is worked on.
Worked(d) ==
  \A c \in conn[d] :
    LET reads == op[c] = "read" IN
    /\ stage[d] = "reading" => issued[c] = 0
    /\ stage[d] = "fetching" => issued[c] <= IF reads THEN rung[d] ELSE 0
    /\ stage[d] = "repairing" =>
         op[c] \in Fetches /\ 1 <= issued[c] /\ issued[c] <= IF reads THEN rung[d] + 1 ELSE 1
    /\ stage[d] = "relaunching" =>
         /\ rung[d] = 2 /\ op[c] \in Fetches
         /\ 1 <= issued[c] /\ issued[c] <= IF reads THEN 2 ELSE 1
    /\ stage[d] \in {"answering", "failing", "parting"} /\ op[c] # "shutdown" => 1 <= issued[c]

\* Nothing is issued for a call before its connection is taken.
Untouched ==
  /\ \A c \in Clients : Fresh(c) => issued[c] = 0
  /\ \A d \in Daemons : \A c \in Elements(backlog[d]) : issued[c] = 0

IssuedInv ==
  /\ SupervisorTypeOK /\ HeldInv /\ Untouched /\ IssuedAsReported
  /\ \A d \in Daemons : Worked(d)

\* The kernel appends a connection to a backlog.
LEMMA AppendedQueue ==
  ASSUME NEW S, NEW q \in Seq(S), NEW c \in S
  PROVE  /\ Elements(Append(q, c)) = Elements(q) \cup {c}
         /\ c \notin Elements(q) /\ Distinct(q) => Distinct(Append(q, c))
<1>1. Append(q, c) \in Seq(S) /\ Len(Append(q, c)) = Len(q) + 1
      /\ \A i \in 1 .. Len(q) : Append(q, c)[i] = q[i]
      /\ Append(q, c)[Len(q) + 1] = c
  BY AppendProperties
<1>2. DOMAIN q = 1 .. Len(q) /\ DOMAIN Append(q, c) = 1 .. Len(q) + 1 /\ Len(q) \in Nat
  BY <1>1, LenProperties
<1>3. \A i \in DOMAIN Append(q, c) : i \in DOMAIN q \/ i = Len(q) + 1
  BY <1>2
<1>4. \A i \in DOMAIN q : i \in DOMAIN Append(q, c) /\ Append(q, c)[i] = q[i]
  BY <1>1, <1>2
<1>5. Len(q) + 1 \in DOMAIN Append(q, c)
  BY <1>2
<1> QED BY <1>1, <1>3, <1>4, <1>5 DEF Elements, Distinct

\* accept takes the oldest connection off it.
LEMMA TakenQueue ==
  ASSUME NEW S, NEW q \in Seq(S), q # <<>>
  PROVE  /\ Tail(q) \in Seq(S) /\ Head(q) \in Elements(q)
         /\ Elements(Tail(q)) \subseteq Elements(q)
         /\ Distinct(q) => Distinct(Tail(q)) /\ Head(q) \notin Elements(Tail(q))
<1>1. Tail(q) \in Seq(S) /\ Head(q) = q[1] /\ Len(Tail(q)) = Len(q) - 1
      /\ \A i \in 1 .. Len(Tail(q)) : Tail(q)[i] = q[i + 1]
  BY HeadTailProperties
<1>2. DOMAIN q = 1 .. Len(q) /\ DOMAIN Tail(q) = 1 .. Len(q) - 1 /\ Len(q) \in Nat /\ Len(q) > 0
  BY <1>1, LenProperties, EmptySeq
<1>3. \A i \in DOMAIN Tail(q) : i + 1 \in DOMAIN q /\ i + 1 # 1 /\ Tail(q)[i] = q[i + 1] /\ i \in Int
  BY <1>1, <1>2
<1>4. 1 \in DOMAIN q
  BY <1>2
<1> QED BY <1>1, <1>3, <1>4 DEF Elements, Distinct

\* An empty backlog.
LEMMA NobodyQueued == Elements(<<>>) = {} /\ Distinct(<<>>)
BY DEF Elements, Distinct

\* A call that connects is from then on in one backlog, and only there.
LEMMA ConnectedHeld ==
  ASSUME SupervisorTypeOK, HeldInv, NEW c \in Clients, Fresh(c), Connected(c), UNCHANGED conn
  PROVE  /\ HeldInv'
         /\ \A d \in Daemons : Elements(backlog'[d]) \subseteq Elements(backlog[d]) \cup {c}
         /\ \A b \in Clients : Fresh(b)' => Fresh(b)
<1>1. PICK d \in Answering : backlog' = [backlog EXCEPT ![d] = Append(@, c)]
  BY DEF Connected
<1>2. d \in Daemons /\ backlog \in [Daemons -> Seq(Clients)] /\ at \in [Clients -> Places]
  BY DEF Answering, SupervisorTypeOK
<1>3. ~Held(c) /\ \A e \in Daemons : c \notin conn[e] /\ c \notin Elements(backlog[e])
  BY DEF HeldInv, Held
<1>4. Elements(backlog'[d]) = Elements(backlog[d]) \cup {c} /\ Distinct(backlog'[d])
  BY <1>1, <1>2, <1>3, AppendedQueue DEF HeldInv
<1>5. \A e \in Daemons \ {d} : backlog'[e] = backlog[e]
  BY <1>1, <1>2
<1>6. at' = [at EXCEPT ![c] = "send"]
  BY DEF Connected, To
<1>7. \A b \in Clients : Fresh(b)' => b # c /\ Fresh(b)
  BY <1>2, <1>6 DEF Fresh, Launching
<1>8. \A e \in Daemons : Distinct(backlog[e])' /\ conn'[e] \cap Elements(backlog'[e]) = {}
                        /\ \A a, b \in conn'[e] : a = b
  BY <1>3, <1>4, <1>5 DEF HeldInv
<1>9. \A e \in Daemons : Holds(e)' = IF e = d THEN Holds(e) \cup {c} ELSE Holds(e)
  BY <1>4, <1>5 DEF Holds
<1>10. \A e \in Daemons : c \notin Holds(e)
  BY <1>3 DEF Holds
<1>11. \A e, f \in Daemons : e # f => Holds(e)' \cap Holds(f)' = {}
  BY <1>9, <1>10 DEF HeldInv
<1>12. \A b \in Clients : Fresh(b)' => ~Held(b)'
  BY <1>7, <1>9 DEF HeldInv, Held, Holds
<1> QED BY <1>4, <1>5, <1>7, <1>8, <1>11, <1>12 DEF HeldInv

\* A step that takes no new connection, and makes no call fresh again.
LEMMA HandedOn ==
  ASSUME HeldInv,
         \A d \in Daemons : /\ Holds(d)' \subseteq Holds(d)
                            /\ Distinct(backlog'[d])
                            /\ conn'[d] \cap Elements(backlog'[d]) = {}
                            /\ \A b, c \in conn'[d] : b = c,
         \A c \in Clients : Fresh(c)' => Fresh(c)
  PROVE  HeldInv'
BY DEF HeldInv, Held, Holds

LEMMA HeldStep == SupervisorTypeOK /\ HeldInv /\ [Next]_vars => HeldInv'
<1> SUFFICES ASSUME SupervisorTypeOK, HeldInv, [Next]_vars PROVE HeldInv'
  OBVIOUS
<1>1. ASSUME UNCHANGED <<conn, backlog>>, \A c \in Clients : Fresh(c)' => Fresh(c)
      PROVE  HeldInv'
  BY <1>1, HandedOn DEF HeldInv, Holds
<1>c. ASSUME NEW c \in Clients, Ask(c) \/ ClientStep(c) \/ LockUnavailable(c) \/ Interrupt(c)
      PROVE  HeldInv'
  <2>2. CASE UNCHANGED <<conn, backlog>> /\ ~Connected(c)
    <3>1. at \in [Clients -> Places]
      BY DEF SupervisorTypeOK
    <3>2. \A b \in Clients : Fresh(b)' => Fresh(b)
      BY <1>c, <2>2, <3>1 DEF ClientStep, Ask, Look, Lock, Recheck, Spawn, Await, GiveUp, Send,
         Abandon, LockUnavailable, Interrupt, Fresh, Launching, To, clientVars
    <3> QED BY <1>1, <2>2, <3>2
  <2>3. Connected(c) \/ UNCHANGED backlog
    BY <1>c DEF ClientStep, Ask, Look, Lock, Recheck, Spawn, Await, GiveUp, Send, Abandon,
       LockUnavailable, Interrupt, daemonVars
  <2>4. UNCHANGED conn
    BY <1>c DEF ClientStep, Ask, Look, Lock, Recheck, Spawn, Await, GiveUp, Send, Abandon,
       LockUnavailable, Interrupt, daemonVars
  <2>5. CASE Connected(c)
    <3>1. at' = [at EXCEPT ![c] = "send"] /\ at \in [Clients -> Places]
      BY <2>5 DEF Connected, To, SupervisorTypeOK
    <3>2. at'[c] = "send"
      BY <3>1
    <3>3. Fresh(c)
      BY <1>c, <3>1, <3>2 DEF ClientStep, Ask, Look, Lock, Recheck, Spawn, Await, GiveUp,
         Send, Abandon, LockUnavailable, Interrupt, To, Fresh, Launching
    <3> QED BY <2>4, <2>5, <3>3, ConnectedHeld
  <2> QED BY <2>2, <2>3, <2>4, <2>5
<1>d. ASSUME NEW d \in Daemons, DaemonStep(d) \/ Crash(d) PROVE HeldInv'
  <2>1. \A c \in Clients : Fresh(c)' => Fresh(c)
    <3>1. at' = at \/ Answer(d)
      BY <1>d DEF DaemonStep, Crash, Probe, Unlink, Bind, Listen, Launch, Accept, Idle, Read,
         Fetch, Dispatch, Renavigate, Relaunch, Relaunched, BeyondRepair, CloseListener,
         UnlinkOwn, CloseBrowser, clientVars
    <3>2. \A c \in Clients : Answer(d) => at'[c] \in {at[c], "answered", "failed"}
      BY DEF Answer
    <3> QED BY <3>1, <3>2 DEF Fresh, Launching
  <2>2. CASE Accept(d)
    <3> DEFINE c == Head(backlog[d])
    <3>1. /\ backlog \in [Daemons -> Seq(Clients)] /\ conn \in [Daemons -> SUBSET Clients]
          /\ backlog[d] # <<>> /\ conn[d] = {}
      BY <2>2 DEF Accept, SupervisorTypeOK, Busy
    <3>2. /\ \A e \in Daemons : conn'[e] = IF e = d THEN {c} ELSE conn[e]
          /\ \A e \in Daemons : backlog'[e] = IF e = d THEN Tail(backlog[d]) ELSE backlog[e]
      BY <2>2, <3>1 DEF Accept
    <3>3. /\ c \in Elements(backlog[d]) /\ Elements(Tail(backlog[d])) \subseteq Elements(backlog[d])
          /\ Distinct(Tail(backlog[d])) /\ c \notin Elements(Tail(backlog[d]))
      BY <3>1, TakenQueue DEF HeldInv
    <3> HIDE DEF c
    <3> QED BY <2>1, <3>2, <3>3, HandedOn DEF HeldInv, Holds
  <2>3. CASE \A e \in Daemons : /\ conn'[e] = conn[e] \/ conn'[e] = {}
                                /\ backlog'[e] = backlog[e] \/ backlog'[e] = <<>>
    BY <2>1, <2>3, NobodyQueued, HandedOn DEF HeldInv, Holds
  <2>4. ASSUME ~Accept(d)
        PROVE  \A e \in Daemons : /\ conn'[e] = conn[e] \/ conn'[e] = {}
                                  /\ backlog'[e] = backlog[e] \/ backlog'[e] = <<>>
    <3>1. conn' = conn \/ conn' = [conn EXCEPT ![d] = {}]
      BY <1>d, <2>4 DEF DaemonStep, Crash, Probe, Unlink, Bind, Listen, Launch, Idle, Read,
         Fetch, Dispatch, Renavigate, Relaunch, Relaunched, BeyondRepair, Answer,
         CloseListener, UnlinkOwn, CloseBrowser
    <3>2. backlog' = backlog \/ backlog' = [backlog EXCEPT ![d] = <<>>]
      BY <1>d, <2>4 DEF DaemonStep, Crash, Probe, Unlink, Bind, Listen, Launch, Idle, Read,
         Fetch, Dispatch, Renavigate, Relaunch, Relaunched, BeyondRepair, Answer,
         CloseListener, UnlinkOwn, CloseBrowser
    <3> QED BY <3>1, <3>2 DEF SupervisorTypeOK
  <2> QED BY <2>2, <2>3, <2>4
<1>u. CASE UNCHANGED vars
  <2>1. UNCHANGED <<conn, backlog, at>>
    BY <1>u DEF vars, daemonVars, clientVars
  <2> QED BY <2>1, <1>1 DEF Fresh
<1> QED BY <1>c, <1>d, <1>u DEF Next

-----------------------------------------------------------------------------
(* What is handed to a page. *)

\* A step that leaves every request in hand as it is, or drops it.
LEMMA LeftAlone ==
  ASSUME IssuedInv, UNCHANGED <<op, issued>>,
         \A d \in Daemons : \/ conn'[d] = {}
                            \/ /\ conn'[d] = conn[d] /\ stage'[d] = stage[d]
                               /\ rung'[d] = rung[d],
         \A d \in Daemons : \A c \in Elements(backlog'[d]) :
            c \in Clients /\ (c \in Elements(backlog[d]) \/ Fresh(c)),
         \A c \in Clients : Fresh(c)' => Fresh(c),
         \A c \in Clients : at'[c] \in {"answered", "failed"} => at'[c] = at[c]
  PROVE  /\ Untouched' /\ IssuedAsReported'
         /\ \A d \in Daemons : Worked(d)'
<1>1. Untouched'
  BY DEF IssuedInv, Untouched
<1>2. \A d \in Daemons : Worked(d)'
  BY DEF IssuedInv, Worked
<1>3. IssuedAsReported'
  <2>1. \A c \in Clients : at'[c] = "unstarted" => Fresh(c)'
    BY DEF Fresh
  <2> QED BY <2>1, <1>1 DEF IssuedInv, IssuedAsReported, Untouched
<1> QED BY <1>1, <1>2, <1>3

\* A step of one daemon at the request it has in hand.
LEMMA WorkedOn ==
  ASSUME IssuedInv, NEW d \in Daemons, UNCHANGED <<op, at, backlog>>,
         \A e \in Daemons \ {d} : conn'[e] = conn[e] /\ stage'[e] = stage[e] /\ rung'[e] = rung[e],
         \A c \in Clients : c \notin conn[d] => issued'[c] = issued[c],
         \A c \in conn[d] : /\ issued'[c] \in Nat /\ issued[c] <= issued'[c]
                            /\ issued'[c] <= IF op[c] = "read" THEN 3 ELSE 1,
         Worked(d)'
  PROVE  /\ Untouched' /\ IssuedAsReported'
         /\ \A e \in Daemons : Worked(e)'
<1>1. \A e \in Daemons : conn[e] \subseteq Clients /\ Elements(backlog[e]) \subseteq Clients
  BY LenProperties DEF IssuedInv, SupervisorTypeOK, Elements
<1>2. \A c \in Clients : issued[c] \in Nat
  BY DEF IssuedInv, SupervisorTypeOK
<1>3. \A c \in conn[d] : ~Fresh(c) /\ \A e \in Daemons : c \notin Elements(backlog[e])
  BY <1>1 DEF IssuedInv, HeldInv, Held, Holds
<1>4. Untouched'
  BY <1>1, <1>3 DEF IssuedInv, Untouched, Fresh
<1>5. \A e \in Daemons \ {d} : \A c \in conn[e] : c \notin conn[d] /\ issued'[c] = issued[c]
  BY <1>1 DEF IssuedInv, HeldInv, Holds
<1>6. \A e \in Daemons \ {d} : Worked(e)'
  BY <1>5 DEF IssuedInv, Worked
<1>7. IssuedAsReported'
  <2> SUFFICES ASSUME NEW c \in Clients
               PROVE  /\ issued'[c] <= IF op[c] = "read" THEN 3 ELSE 1
                      /\ at[c] = "unstarted" => issued'[c] = 0
                      /\ at[c] \in {"answered", "failed"} /\ op[c] # "shutdown" => 1 <= issued'[c]
    BY DEF IssuedAsReported
  <2>1. CASE c \notin conn[d]
    BY <2>1 DEF IssuedInv, IssuedAsReported
  <2>2. CASE c \in conn[d]
    <3>1. at[c] # "unstarted"
      BY <2>2, <1>3 DEF Fresh
    <3>2. at[c] \in {"answered", "failed"} /\ op[c] # "shutdown" => 1 <= issued[c]
      BY DEF IssuedInv, IssuedAsReported
    <3> QED BY <2>2, <3>1, <3>2, <1>2
  <2> QED BY <2>1, <2>2
<1> QED BY <1>4, <1>6, <1>7

LEMMA IssuedStep == IssuedInv /\ [Next]_vars => IssuedInv'
<1> SUFFICES ASSUME IssuedInv, [Next]_vars PROVE IssuedInv'
  OBVIOUS
<1> DEFINE Goal == Untouched' /\ IssuedAsReported' /\ \A d \in Daemons : Worked(d)'
<1>t. SupervisorTypeOK' /\ HeldInv'
  BY SupervisorTypeStep, HeldStep DEF IssuedInv
<1>q. \A d \in Daemons : Elements(backlog[d]) \subseteq Clients /\ conn[d] \subseteq Clients
  BY LenProperties DEF IssuedInv, SupervisorTypeOK, Elements
<1>y. /\ stage \in [Daemons -> Stages] /\ conn \in [Daemons -> SUBSET Clients]
      /\ rung \in [Daemons -> 0 .. 2] /\ issued \in [Clients -> Nat]
      /\ at \in [Clients -> Places] /\ op \in [Clients -> Operations]
      /\ \A d \in Daemons : conn[d] # {} <=> stage[d] \in Busy
  BY ClientsAssumption DEF IssuedInv, SupervisorTypeOK
<1>c. ASSUME NEW c \in Clients, Ask(c) \/ ClientStep(c) \/ LockUnavailable(c) \/ Interrupt(c) PROVE Goal
  <2>1. UNCHANGED <<op, issued, conn, rung>>
    BY <1>c DEF ClientStep, Ask, Look, Lock, Recheck, Spawn, Await, GiveUp, Send, Abandon,
       LockUnavailable, Interrupt, daemonVars, history
  <2>2. \A d \in Daemons : stage'[d] = stage[d] \/ stage[d] = "unborn"
    BY <1>c, <1>y DEF ClientStep, Ask, Look, Lock, Recheck, Spawn, Await, GiveUp, Send, Abandon,
       LockUnavailable, Interrupt, daemonVars
  <2>3. \A b \in Clients : Fresh(b)' => Fresh(b)
    BY <1>c, <1>y DEF ClientStep, Ask, Look, Lock, Recheck, Spawn, Await, GiveUp, Send, Abandon,
       LockUnavailable, Interrupt, Connected, Fresh, Launching, To
  <2>4. \A b \in Clients : at'[b] \in {"answered", "failed"} => at'[b] = at[b]
    BY <1>c, <1>y DEF ClientStep, Ask, Look, Lock, Recheck, Spawn, Await, GiveUp, Send, Abandon,
       LockUnavailable, Interrupt, Connected, To
  <2>5. (Connected(c) /\ Fresh(c)) \/ UNCHANGED backlog
    BY <1>c DEF ClientStep, Ask, Look, Lock, Recheck, Spawn, Await, GiveUp, Send, Abandon,
       LockUnavailable, Interrupt, daemonVars, Fresh, Launching
  <2>6. \A d \in Daemons : Elements(backlog'[d]) \subseteq Elements(backlog[d]) \cup {b \in Clients : Fresh(b)}
    BY <2>1, <2>5, ConnectedHeld DEF IssuedInv
  <2> QED BY <1>q, <1>y, <2>1, <2>2, <2>3, <2>4, <2>6, LeftAlone DEF Busy, Serving
<1>d. ASSUME NEW d \in Daemons, DaemonStep(d) \/ Crash(d) PROVE Goal
  <2>1. CASE Accept(d)
    <3>1. conn[d] = {} /\ backlog[d] # <<>> /\ backlog[d] \in Seq(Clients)
      BY <2>1, <1>y DEF Accept, Busy, IssuedInv, SupervisorTypeOK
    <3>2. Head(backlog[d]) \in Elements(backlog[d]) /\ Elements(Tail(backlog[d])) \subseteq Elements(backlog[d])
      BY <3>1, TakenQueue
    <3>3. \A e \in Daemons : Elements(backlog'[e]) \subseteq Elements(backlog[e])
      BY <2>1, <3>2 DEF Accept, IssuedInv, SupervisorTypeOK
    <3>4. conn'[d] = {Head(backlog[d])} /\ stage'[d] = "reading"
      BY <2>1, <1>y DEF Accept, Enter
    <3>5. \A e \in Daemons \ {d} : conn'[e] = conn[e] /\ stage'[e] = stage[e] /\ rung'[e] = rung[e]
      BY <2>1, <1>y DEF Accept, Enter
    <3>6. UNCHANGED <<op, issued, at>>
      BY <2>1 DEF Accept, clientVars, history
    <3>7. Worked(d)'
      BY <3>2, <3>4, <3>6 DEF Worked, IssuedInv, Untouched
    <3>8. \A e \in Daemons : Worked(e)'
      BY <3>5, <3>6, <3>7 DEF Worked, IssuedInv
    <3> QED BY <3>3, <3>6, <3>8 DEF IssuedInv, Untouched, IssuedAsReported, Fresh
  <2>2. CASE Answer(d)
    <3>1. /\ \A c \in Clients : at'[c] = at[c] \/ (c \in conn[d] /\ at'[c] \in {"answered", "failed"})
          /\ conn'[d] = {} /\ \A e \in Daemons \ {d} : conn'[e] = conn[e] /\ stage'[e] = stage[e]
          /\ UNCHANGED <<op, issued, backlog, rung>>
          /\ stage[d] \in {"answering", "failing", "parting"}
      BY <2>2, <1>y DEF Answer, Enter
    <3>2. \A c \in conn[d] : op[c] # "shutdown" => 1 <= issued[c]
      BY <3>1 DEF IssuedInv, Worked
    <3>3. \A e \in Daemons : Worked(e)'
      BY <3>1 DEF IssuedInv, Worked
    <3>4. Untouched'
      BY <3>1 DEF IssuedInv, Untouched, Fresh, Launching
    <3> QED BY <3>1, <3>2, <3>3, <3>4 DEF IssuedInv, IssuedAsReported
  <2>3. CASE Fetch(d) \/ Dispatch(d) \/ Renavigate(d) \/ Relaunch(d) \/ Relaunched(d)
             \/ BeyondRepair(d)
    <3>1. \A e \in Daemons \ {d} : conn'[e] = conn[e] /\ stage'[e] = stage[e] /\ rung'[e] = rung[e]
      BY <2>3, <1>y DEF Fetch, Dispatch, Renavigate, Relaunch, Relaunched, BeyondRepair, Enter, Repaired
    <3>2. UNCHANGED <<op, at, backlog, conn>>
      BY <2>3 DEF Fetch, Dispatch, Renavigate, Relaunch, Relaunched, BeyondRepair, clientVars
    <3>3. \A c \in Clients : /\ c \notin conn[d] => issued'[c] = issued[c]
                            /\ issued'[c] \in {issued[c], issued[c] + 1}
      BY <2>3, <1>y DEF Fetch, Dispatch, Renavigate, Relaunch, Relaunched, BeyondRepair, Issue, history
    <3>4. ASSUME NEW c \in conn[d]
          PROVE  /\ issued'[c] <= IF op[c] = "read" THEN 3 ELSE 1
                 /\ \A b \in conn[d] : b = c
                 /\ Worked(d)'
      <4>1. conn[d] = {c} /\ conn'[d] = {c} /\ c \in Clients /\ Asked(d) = {op[c]} /\ op'[c] = op[c]
        BY <3>2, <1>q DEF IssuedInv, HeldInv, Asked
      <4>2. issued[c] \in Nat /\ rung[d] \in 0 .. 2 /\ op[c] \in Operations
        BY <1>y, <4>1
      <4>3. Writes(d) <=> op[c] = "write"
        BY <4>1 DEF Writes
      <4>w. issued[c] <= IF op[c] = "read" THEN 3 ELSE 1
        BY <4>1 DEF IssuedInv, IssuedAsReported
      <4>4. CASE Fetch(d)
        <5>1. issued'[c] = issued[c] + 1 /\ rung'[d] = rung[d] /\ op[c] \in Fetches
              /\ stage'[d] \in {"answering", "failing", "repairing", "parting"}
          BY <4>1, <4>4, <1>y DEF Fetch, Issue, Enter
        <5>2. issued[c] <= IF op[c] = "read" THEN rung[d] ELSE 0
          BY <4>4 DEF Fetch, IssuedInv, Worked
        <5> QED BY <4>1, <4>2, <5>1, <5>2 DEF Worked
      <4>5. CASE Dispatch(d)
        <5>1. /\ stage'[d] \in {"answering", "failing", "parting"}
              /\ \/ issued'[c] = issued[c] + 1 /\ op[c] \in {"seed", "status"}
                 \/ issued'[c] = issued[c] /\ op[c] = "shutdown"
          BY <4>1, <4>5, <1>y DEF Dispatch, Issue, Enter
        <5>2. issued[c] <= IF op[c] = "read" THEN rung[d] ELSE 0
          BY <4>5 DEF Dispatch, IssuedInv, Worked
        <5> QED BY <4>1, <4>2, <5>1, <5>2 DEF Worked
      <4>6. CASE Renavigate(d) \/ Relaunch(d) \/ BeyondRepair(d)
        <5>1. /\ issued'[c] = issued[c] /\ stage[d] = "repairing"
              /\ \/ rung[d] = 0 /\ rung'[d] = 1 /\ stage'[d] \in {"repairing", IF Writes(d) THEN "failing" ELSE "fetching"}
                 \/ rung[d] = 1 /\ rung'[d] = 2 /\ stage'[d] \in {"repairing", "relaunching"}
                 \/ rung'[d] = rung[d] /\ stage'[d] = "parting"
          BY <4>6, <1>y DEF Renavigate, Relaunch, BeyondRepair, Repaired, Enter, history
        <5>2. op[c] \in Fetches /\ 1 <= issued[c] /\ issued[c] <= IF op[c] = "read" THEN rung[d] + 1 ELSE 1
          BY <5>1 DEF IssuedInv, Worked
        <5> QED BY <4>1, <4>2, <4>3, <4>w, <5>1, <5>2 DEF Worked, Fetches
      <4>7. CASE Relaunched(d)
        <5>1. /\ issued'[c] = issued[c] /\ rung'[d] = rung[d] /\ stage[d] = "relaunching"
              /\ stage'[d] \in {"repairing", IF Writes(d) THEN "failing" ELSE "fetching"}
          BY <4>7, <1>y DEF Relaunched, Repaired, Enter, history
        <5>2. /\ rung[d] = 2 /\ op[c] \in Fetches
              /\ 1 <= issued[c] /\ issued[c] <= IF op[c] = "read" THEN 2 ELSE 1
          BY <5>1 DEF IssuedInv, Worked
        <5> QED BY <4>1, <4>2, <4>3, <4>w, <5>1, <5>2 DEF Worked, Fetches
      <4> QED BY <2>3, <4>4, <4>5, <4>6, <4>7
    <3> QED BY <1>q, <1>y, <3>1, <3>2, <3>3, <3>4, WorkedOn DEF Worked
  <2>4. CASE Read(d)
    <3>1. /\ \A e \in Daemons \ {d} : conn'[e] = conn[e] /\ stage'[e] = stage[e]
          /\ UNCHANGED <<op, at, backlog, issued, rung>>
      BY <2>4, <1>y DEF Read, Enter, clientVars, history
    <3>2. \/ conn'[d] = {}
          \/ conn'[d] = conn[d] /\ stage[d] = "reading" /\ stage'[d] = "fetching"
      BY <2>4, <1>y DEF Read, Enter
    <3>3. Worked(d)'
      BY <1>q, <1>y, <3>1, <3>2 DEF Worked, IssuedInv
    <3> QED BY <1>q, <1>y, <3>1, <3>3, WorkedOn DEF IssuedInv, IssuedAsReported
  <2>5. CASE /\ ~Accept(d) /\ ~Answer(d) /\ ~Fetch(d) /\ ~Dispatch(d) /\ ~Renavigate(d)
             /\ ~Relaunch(d) /\ ~Relaunched(d) /\ ~BeyondRepair(d) /\ ~Read(d)
    <3>1. UNCHANGED <<op, issued, at, rung>>
      BY <1>d, <2>5 DEF DaemonStep, Crash, Probe, Unlink, Bind, Listen, Launch, Idle,
         CloseListener, UnlinkOwn, CloseBrowser, clientVars, history
    <3>2. \A e \in Daemons : backlog'[e] \in {backlog[e], <<>>}
      BY <1>d, <2>5 DEF DaemonStep, Crash, Probe, Unlink, Bind, Listen, Launch, Idle,
         CloseListener, UnlinkOwn, CloseBrowser, IssuedInv, SupervisorTypeOK
    <3>3. \A e \in Daemons : conn'[e] = {} \/ (conn'[e] = conn[e] /\ stage'[e] = stage[e])
      BY <1>d, <1>y, <2>5 DEF DaemonStep, Crash, Probe, Unlink, Bind, Listen, Launch, Idle,
         CloseListener, UnlinkOwn, CloseBrowser, Enter, Busy, Serving
    <3> QED BY <1>q, <3>1, <3>2, <3>3, NobodyQueued, LeftAlone DEF Fresh
  <2> QED BY <2>1, <2>2, <2>3, <2>4, <2>5
<1>u. CASE UNCHANGED vars
  <2>1. UNCHANGED <<op, issued, at, conn, stage, rung, backlog>>
    BY <1>u DEF vars, daemonVars, clientVars, history
  <2>2. \A c : Fresh(c)' <=> Fresh(c)
    BY <2>1 DEF Fresh
  <2>3. \A d : Worked(d)' <=> Worked(d)
    BY <2>1 DEF Worked
  <2> QED BY <1>t, <2>1, <2>2, <2>3 DEF IssuedInv, Untouched, IssuedAsReported
<1> QED BY <1>t, <1>c, <1>d, <1>u DEF Next, IssuedInv

LEMMA IssuedInvariant == Spec => []IssuedInv
<1>1. Init => IssuedInv
  <2> SUFFICES ASSUME Init PROVE IssuedInv
    OBVIOUS
  <2>1. SupervisorTypeOK
    BY InitTyped
  <2>2. \A d \in Daemons : conn[d] = {} /\ backlog[d] = <<>>
    BY DEF Init
  <2>3. HeldInv
    BY <2>2, NobodyQueued DEF HeldInv, Held, Holds
  <2>4. Untouched /\ IssuedAsReported
    BY <2>2, NobodyQueued DEF Init, Untouched, IssuedAsReported
  <2> QED BY <2>1, <2>2, <2>3, <2>4 DEF IssuedInv, Worked
<1> QED BY <1>1, IssuedStep, PTL DEF Spec

\* However the daemons and their callers interleave, are killed, relaunch and
\* give up, whatever is no read reaches a page at most once and a read three
\* times; a call that reports nobody was there was never made, and one that
\* reports an answer was.
THEOREM CallsIssuedAsReported == Spec => []IssuedAsReported
<1>1. IssuedInv => IssuedAsReported
  BY DEF IssuedInv
<1> QED BY <1>1, IssuedInvariant, PTL

-----------------------------------------------------------------------------
(* One supervisor. *)

Active == {d \in Daemons : stage[d] \notin {"unborn", "gone"}}

\* One launcher at a time, one process at a time, whose socket the path names
\* from bind on; a launcher stays for as long as its process is starting.
Alone ==
  /\ \A b, c \in Clients : at[b] \in Launching /\ at[c] \in Launching => b = c
  /\ \A d, e \in Active : d = e
  /\ \A d \in Active : stage[d] \in Starting \cup Listening
  /\ \A d \in Daemons : stage[d] \in {"bound"} \cup Listening => d \in path
  /\ \A d \in Daemons : stage[d] \in Starting => \E c \in Clients : at[c] = "await"
  /\ \A c \in Clients : at[c] = "spawn" => Active = {}
  /\ \A d \in browser : stage[d] \in Listening

LaunchInv == ~disturbed => Alone

\* No listener turns a connection away.
RoomLeft == \A d \in Daemons : Len(backlog[d]) <= BACKLOG

\* A launch that went wrong is remembered.
LEMMA DisturbedStays == [Next]_vars /\ disturbed => disturbed'
<1> SUFFICES ASSUME [Next]_vars, disturbed PROVE disturbed'
  OBVIOUS
<1>1. ASSUME NEW c \in Clients, Ask(c) \/ ClientStep(c) \/ LockUnavailable(c) \/ Interrupt(c) PROVE disturbed'
  BY <1>1 DEF ClientStep, Ask, Look, Lock, Recheck, Spawn, Await, GiveUp, Send, Abandon,
     LockUnavailable, Interrupt, history
<1>2. ASSUME NEW d \in Daemons, DaemonStep(d) \/ Crash(d) PROVE disturbed'
  BY <1>2 DEF DaemonStep, Crash, Probe, Unlink, Bind, Listen, Launch, Accept, Idle, Read,
     Fetch, Dispatch, Renavigate, Relaunch, Relaunched, BeyondRepair, Answer,
     CloseListener, UnlinkOwn, CloseBrowser, history
<1>3. CASE UNCHANGED vars
  BY <1>3 DEF vars, history
<1> QED BY <1>1, <1>2, <1>3 DEF Next

\* A client that finds nobody, while nobody is starting, is alone.
LEMMA NobodyThere ==
  ASSUME SupervisorTypeOK, Alone, RoomLeft, Answering = {}, \A c \in Clients : at[c] # "await"
  PROVE  Active = {}
<1>1. \A d \in Active : d \in path /\ stage[d] \in Listening
  BY DEF Alone, Active
<1>2. \A d \in Active : d \in Answering
  BY <1>1 DEF Answering, RoomLeft, Active
<1> QED BY <1>2

\* A process on its way to listen goes one step further, or gives up.
LEMMA OnTheWay ==
  ASSUME SupervisorTypeOK, Alone, NEW d \in Daemons, stage[d] \in Starting,
         NEW s \in Starting \cup {"gone"}, Enter(d, s), s = "bound" => path' = {d},
         UNCHANGED <<at, browser>>
  PROVE  Alone'
<1>1. Active = {d}
  BY DEF Alone, Active, Starting
<1>2. stage \in [Daemons -> Stages] /\ \A e \in Daemons : stage'[e] = IF e = d THEN s ELSE stage[e]
  BY DEF SupervisorTypeOK, Enter
<1>3. \A e \in Daemons : e = d \/ stage[e] \in {"unborn", "gone"}
  BY <1>1 DEF Active
<1>4. Active' \subseteq {d} /\ \A e \in Active' : stage'[e] \in Starting
  BY <1>2, <1>3 DEF Active
<1>5. \A e \in Daemons : stage'[e] \in {"bound"} \cup Listening => e \in path'
  BY <1>2, <1>3 DEF Listening, Serving, Starting
<1>6. \E c \in Clients : at[c] = "await"
  BY DEF Alone
<1>7. browser = {}
  <2> SUFFICES ASSUME NEW e \in browser PROVE FALSE
    OBVIOUS
  <2>1. e \in Daemons /\ stage[e] \in Listening
    BY DEF Alone, SupervisorTypeOK
  <2> QED BY <2>1, <1>3 DEF Listening, Serving, Starting
<1>8. \A c \in Clients : at[c] # "spawn"
  BY <1>1 DEF Alone
<1> QED BY <1>4, <1>5, <1>6, <1>7, <1>8 DEF Alone

LEMMA LaunchStep == SupervisorTypeOK /\ RoomLeft /\ LaunchInv /\ [Next]_vars => LaunchInv'
<1> SUFFICES ASSUME SupervisorTypeOK, RoomLeft, LaunchInv, [Next]_vars, ~disturbed'
             PROVE  Alone'
  BY DEF LaunchInv
<1>a. Alone /\ ~disturbed
  BY DisturbedStays DEF LaunchInv
<1>y. /\ stage \in [Daemons -> Stages] /\ at \in [Clients -> Places]
      /\ browser \subseteq Daemons /\ path \subseteq Daemons /\ \A d, e \in path : d = e
  BY DEF SupervisorTypeOK
<1>c. ASSUME NEW c \in Clients, Ask(c) \/ ClientStep(c) \/ LockUnavailable(c) \/ Interrupt(c) PROVE Alone'
  <2> USE <1>a, <1>y DEF To, Launching
  <2>1. CASE UNCHANGED <<path, stage, browser>> /\ ~Lock(c) /\ ~Recheck(c) /\ ~Await(c) /\ ~GiveUp(c)
    <3>1. \A b \in Clients : at'[b] \in Launching => at'[b] = at[b]
      BY <1>c, <2>1 DEF ClientStep, Ask, Look, Spawn, Send, Abandon, LockUnavailable, Interrupt, Connected
    <3>2. \A b \in Clients : at[b] = "await" => at'[b] = at[b]
      BY <1>c, <2>1 DEF ClientStep, Ask, Look, Spawn, Send, Abandon, LockUnavailable, Interrupt, Connected
    <3> QED BY <2>1, <3>1, <3>2 DEF Alone, Active
  <2>2. CASE Lock(c)
    BY <2>2 DEF Lock, LockFree, Alone, Active, daemonVars
  <2>3. CASE Recheck(c)
    <3>1. \A b \in Clients : at[b] \in Launching => b = c
      BY <2>3 DEF Recheck, Alone
    <3>2. \A b \in Clients : at[b] # "await"
      BY <2>3, <3>1 DEF Recheck
    <3>3. UNCHANGED <<path, stage, browser>> /\ \A e \in Daemons : stage[e] \notin Starting
      BY <2>3, <3>2 DEF Recheck, Alone
    <3>4. \A b \in Clients \ {c} : at'[b] = at[b] /\ at'[c] \in {"send", "spawn"}
      BY <2>3 DEF Recheck, Connected
    <3>5. at'[c] = "spawn" => Answering = {}
      BY <2>3 DEF Recheck, Connected
    <3>6. at'[c] = "spawn" => Active = {}
      BY <3>2, <3>5, NobodyThere
    <3>7. \A b \in Clients : at'[b] \in Launching => b = c
      BY <3>1, <3>4
    <3> QED BY <3>3, <3>6, <3>7 DEF Alone, Active
  <2>4. CASE Await(c)
    <3>1. PICK d \in Answering : TRUE
      BY <2>4 DEF Await, Connected
    <3>2. d \in Active /\ stage[d] \in Listening
      BY <3>1 DEF Answering, Active, Listening, Serving
    <3>3. \A e \in Daemons : stage[e] \notin Starting
      BY <3>2 DEF Alone, Active, Starting, Listening, Serving
    <3>4. UNCHANGED <<path, stage, browser>> /\ \A b \in Clients : at'[b] = IF b = c THEN "send" ELSE at[b]
      BY <2>4 DEF Await, Connected
    <3> QED BY <3>3, <3>4 DEF Alone, Active
  <2>5. CASE GiveUp(c)
    BY <2>5 DEF GiveUp, Alone, Active, daemonVars
  <2>6. CASE Spawn(c)
    <3>1. /\ Active = {} /\ at[c] = "spawn" /\ UNCHANGED <<path, browser>>
          /\ \A b \in Clients : at[b] \in Launching => b = c
      BY <2>6 DEF Spawn, Alone
    <3>2. \A e \in Daemons : stage[e] \in {"unborn", "gone"}
      BY <3>1 DEF Active
    <3>3. browser = {}
      BY <3>2 DEF Alone, Listening, Serving
    <3>4. /\ \A b \in Clients \ {c} : at'[b] = at[b]
          /\ \/ at'[c] = "await" /\ \E d \in Daemons : Enter(d, "born")
             \/ at'[c] = "unstarted" /\ UNCHANGED stage
      BY <2>6 DEF Spawn, Enter
    <3>5. \A b \in Clients : at'[b] \in Launching => b = c /\ at'[b] = "await"
      BY <3>1, <3>4
    <3>6. CASE UNCHANGED stage
      BY <3>1, <3>2, <3>3, <3>5, <3>6 DEF Alone, Active, Starting, Listening, Serving
    <3>7. ASSUME NEW d \in Daemons, Enter(d, "born"), at'[c] = "await" PROVE Alone'
      <4>1. \A e \in Daemons : stage'[e] = IF e = d THEN "born" ELSE stage[e]
        BY <3>7 DEF Enter
      <4>2. Active' = {d} /\ \A e \in Daemons : stage'[e] \notin {"bound"} \cup Listening
        BY <3>2, <4>1 DEF Active, Listening, Serving
      <4> QED BY <3>1, <3>3, <3>5, <3>7, <4>1, <4>2 DEF Alone, Starting
    <3> QED BY <3>4, <3>6, <3>7
  <2>7. UNCHANGED <<path, browser>> /\ (UNCHANGED stage \/ Spawn(c))
    BY <1>c DEF ClientStep, Ask, Look, Lock, Recheck, Spawn, Await, GiveUp, Send, Abandon,
       LockUnavailable, Interrupt, daemonVars
  <2> QED BY <2>1, <2>2, <2>3, <2>4, <2>5, <2>6, <2>7
<1>d. ASSUME NEW d \in Daemons, DaemonStep(d) \/ Crash(d) PROVE Alone'
  <2> USE <1>a, <1>y DEF Enter
  <2>1. CASE Probe(d) \/ Unlink(d) \/ Bind(d)
    <3>1. /\ stage[d] \in Starting /\ UNCHANGED <<at, browser>>
          /\ \E s \in Starting \cup {"gone"} : Enter(d, s) /\ (s = "bound" => path' = {d})
      <4> HIDE DEF Enter
      <4> QED BY <2>1 DEF Probe, Unlink, Bind, Starting, clientVars
    <3> HIDE DEF Enter
    <3> QED BY <3>1, OnTheWay
  <2>2. CASE Listen(d)
    BY <2>2 DEF Listen, Alone, Active, clientVars, Starting, Listening
  <2>3. CASE Crash(d)
    <3>1. d \in Active
      BY <2>3 DEF Crash, Active
    <3>2. \A e \in Daemons : e = d \/ stage[e] \in {"unborn", "gone"}
      BY <3>1 DEF Alone, Active
    <3>3. \A e \in Daemons : stage'[e] \in {"unborn", "gone"}
      BY <2>3, <3>2 DEF Crash
    <3>4. browser' = {} /\ UNCHANGED at
      BY <2>3, <3>2 DEF Crash, Alone, Listening, Serving, clientVars
    <3>5. Active' = {}
      BY <3>3 DEF Active
    <3> QED BY <3>3, <3>4, <3>5 DEF Alone, Starting, Listening, Serving
  <2>6. CASE /\ stage[d] \in Listening /\ UNCHANGED path
             /\ UNCHANGED stage \/ \E s \in Listening : Enter(d, s)
             /\ browser' \subseteq browser \cup {d}
             /\ \A c \in Clients : at'[c] = at[c] \/ (at[c] = "wait" /\ at'[c] \in Ended)
    BY <2>6 DEF Alone, Active, Ended, Launching, Listening, Serving, Starting
  <2>7. stage[d] \notin {"stopping", "unlinking", "leaving"}
    BY DEF Alone, Active, Starting, Listening, Serving
  <2>8. \/ Probe(d) \/ Unlink(d) \/ Bind(d) \/ Listen(d) \/ Crash(d) \/ stage[d] \in Listening
    BY <1>d, <2>7 DEF DaemonStep, Launch, Accept, Idle, Read, Fetch, Dispatch, Renavigate,
       Relaunch, Relaunched, BeyondRepair, Answer, CloseListener, UnlinkOwn, CloseBrowser,
       Listening, Serving
  <2>9. ASSUME stage[d] \in Listening, ~Crash(d) PROVE Alone'
    <3>1. UNCHANGED path /\ browser' \subseteq browser \cup {d}
      BY <1>d, <2>9 DEF DaemonStep, Probe, Unlink, Bind, Listen, Launch, Accept, Idle, Read,
         Fetch, Dispatch, Renavigate, Relaunch, Relaunched, BeyondRepair, Answer, CloseListener,
         UnlinkOwn, CloseBrowser, Listening, Serving, MayRun
    <3>2. UNCHANGED stage \/ \E s \in Listening : Enter(d, s)
      BY <1>a, <1>d, <2>9 DEF DaemonStep, Probe, Unlink, Bind, Listen, Launch, Accept, Idle, Read,
         Fetch, Dispatch, Renavigate, Relaunch, Relaunched, BeyondRepair, Answer, CloseListener,
         UnlinkOwn, CloseBrowser, Listening, Serving, Repaired, Enter
    <3>3. \A c \in Clients : at'[c] = at[c] \/ (at[c] = "wait" /\ at'[c] \in Ended)
      BY <1>d, <2>9 DEF DaemonStep, Probe, Unlink, Bind, Listen, Launch, Accept, Idle, Read,
         Fetch, Dispatch, Renavigate, Relaunch, Relaunched, BeyondRepair, Answer, CloseListener,
         UnlinkOwn, CloseBrowser, clientVars, Ended
    <3> HIDE DEF Enter
    <3> QED BY <2>6, <2>9, <3>1, <3>2, <3>3
  <2> HIDE DEF Enter
  <2> QED BY <2>1, <2>2, <2>3, <2>8, <2>9
<1>u. CASE UNCHANGED vars
  BY <1>a, <1>u DEF vars, daemonVars, clientVars, Alone, Active
<1> QED BY <1>c, <1>d, <1>u DEF Next

\* A backlog that holds each call once is no longer than there are calls.
LEMMA BacklogBounded ==
  ASSUME IsFiniteSet(Clients), Cardinality(Clients) <= BACKLOG, SupervisorTypeOK, HeldInv
  PROVE  RoomLeft
<1> SUFFICES ASSUME NEW d \in Daemons, ~(Len(backlog[d]) <= BACKLOG) PROVE FALSE
  BY DEF RoomLeft
<1> DEFINE q == backlog[d]
           n == Len(q)
<1>1. q \in [1 .. n -> Clients] /\ n \in Nat /\ BACKLOG \in Nat /\ DOMAIN q = 1 .. n
  BY LenProperties, ClientsAssumption DEF SupervisorTypeOK
<1>2. IsFiniteSet(1 .. n) /\ Cardinality(1 .. n) = n
  BY <1>1, FS_Interval
<1>3. Cardinality(Clients) \in Nat
  BY FS_CardinalityType
<1>4. Cardinality(Clients) < Cardinality(1 .. n)
  BY <1>1, <1>2, <1>3
<1>5. \E i, j \in 1 .. n : i # j /\ q[i] = q[j]
  BY <1>1, <1>2, <1>4, FS_PigeonHole
<1>6. Distinct(q)
  BY DEF HeldInv
<1> QED BY <1>1, <1>5, <1>6 DEF Distinct

\* A daemon that listens or has a browser is the only one.
LEMMA AloneIsOne == SupervisorTypeOK /\ LaunchInv => OneSupervisor
<1> SUFFICES ASSUME SupervisorTypeOK, Alone PROVE Cardinality(Up) <= 1
  BY DEF LaunchInv, OneSupervisor
<1>1. \A d \in Up : d \in Active
  BY DEF Up, Alone, Active, Listening, Serving, SupervisorTypeOK
<1>2. \A d, e \in Up : d = e
  BY <1>1 DEF Alone
<1>3. Up = {} \/ \E d : Up = {d}
  BY <1>2
<1>4. Cardinality(Up) \in {0, 1}
  BY <1>3, FS_EmptySet, FS_Singleton
<1> QED BY <1>4

LEMMA InitAlone == Init => LaunchInv
<1> SUFFICES ASSUME Init PROVE Alone
  BY DEF LaunchInv
<1>1. \A d \in Daemons : stage[d] = "unborn"
  BY DEF Init
<1>2. Active = {} /\ browser = {} /\ \A c \in Clients : at[c] = "idle"
  BY <1>1 DEF Init, Active
<1> QED BY <1>1, <1>2 DEF Alone, Launching, Listening, Serving, Starting

\* Two calls that find nobody start one supervisor between them, and no second
\* one is ever started beside a first: for any number of calls and processes,
\* as long as no backlog overflows.
THEOREM OneSupervisorWithRoom == Spec /\ []RoomLeft => []OneSupervisor
<1>1. SupervisorTypeOK /\ RoomLeft /\ LaunchInv /\ [Next]_vars => LaunchInv'
  BY LaunchStep
<1>2. Spec => []SupervisorTypeOK
  BY SupervisorTypes
<1> QED BY <1>1, <1>2, InitAlone, AloneIsOne, PTL DEF Spec

\* It does not, while there are no more calls than the backlog takes; with more
\* it may, and a second supervisor is started (run supervisor_backlog).
THEOREM OneSupervisorHolds ==
  ASSUME IsFiniteSet(Clients), Cardinality(Clients) <= BACKLOG
  PROVE  Spec => []OneSupervisor
<1>1. SupervisorTypeOK /\ HeldInv => RoomLeft
  BY BacklogBounded
<1>2. IssuedInv => SupervisorTypeOK /\ HeldInv
  BY DEF IssuedInv
<1> QED BY <1>1, <1>2, IssuedInvariant, OneSupervisorWithRoom, PTL
=============================================================================
