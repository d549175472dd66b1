--------------------------- MODULE CaptureProofs ----------------------------
(***************************************************************************)
(* What holds of the capture tool for any requests, patterns and times.    *)
(*                                                                         *)
(* That a write is held rests on an order of commands: until the tool      *)
(* tries to disarm no Fetch.disable is under way (ArmedInv), so what is    *)
(* paused stays so, and an abort sent in that time is ahead of the         *)
(* Fetch.disable that may follow (HeardInv).  What makes this inductive is *)
(* where a flow can be: WellFormed says what is left of it ends with one   *)
(* disarm and the verdict, whatever was skipped, and that a release comes  *)
(* after its press, which checks the flag.                                 *)
(***************************************************************************)
EXTENDS Capture, SequenceTheorems, TLAPS

-----------------------------------------------------------------------------
(* The inductive invariant. *)

Steps == {"navigate", "arm", "find", "find?", "press", "release", "type",
          "settle", "disarm", "judge", "diagnose"}

Resolving == {"failRequest", "continueRequest"}
Commands  == (Steps \X Nat) \cup (Resolving \X Requests)
Messages  == ({"reply"} \X Nat \X {"ok", "error", "absent"}) \cup ({"paused"} \X Requests)

\* What is left of a flow, whatever was skipped of it: it disarms, then it
\* judges, and nothing else does; a release follows its press.
WellFormed(s) ==
  /\ s \in Seq(Steps) /\ Len(s) >= 1
  /\ \A i \in 1..Len(s) :
       /\ s[i] = "judge" <=> i = Len(s)
       /\ s[i] = "disarm" <=> i = Len(s) - 1
       /\ s[i] = "release" => i = 1 \/ s[i - 1] = "press"
       /\ s[i] = "find?" => i + 3 <= Len(s) /\ s[i + 3] = "settle"

\* The tool has not tried to disarm.
BeforeDisarm == Len(todo) >= 3 \/ (Len(todo) = 2 /\ waiting = "no")

DriverInv ==
  /\ WellFormed(todo)
  /\ waiting \in {"no", "reply", "window"}
  /\ armed => BeforeDisarm
  /\ waiting # "no" => Step # "judge"
  /\ Step = "press" /\ waiting # "no" => armed
  /\ Step = "release" /\ BeforeDisarm => armed

WiresInv ==
  /\ toBrowser \in Seq(Commands) /\ toTool \in Seq(Messages)
  /\ \A i \in 1..Len(toBrowser) :
       LET m == toBrowser[i] IN
       IF m[1] \in Resolving
       THEN m[1] = "continueRequest" => ~IsWrite(m[2])
       ELSE m[2] <= lastId /\ (waiting = "reply" /\ m[2] = lastId => m[1] = Step)
  /\ \A i \in 1..Len(toTool) :
       LET m == toTool[i] IN
       IF m[1] = "paused"
       THEN status[m[2]] # "none"
       ELSE m[2] <= lastId

\* While nothing was disarmed what is paused stays so: a click is sent only
\* to a browser that pauses, and so is the write that it causes.
ArmedInv ==
  /\ BeforeDisarm =>
       /\ \A i \in 1..Len(toBrowser) : toBrowser[i][1] # "disarm"
       /\ \A i \in 1..Len(toTool) :
            LET m == toTool[i] IN
            m[1] = "paused" /\ IsWrite(m[2]) => status[m[2]] \in {"paused", "aborted"}
       /\ clicked /\ alive => fetchOn
       /\ alive /\ (\E i \in 1..Len(toBrowser) : toBrowser[i][1] = "release") => fetchOn
  /\ armed /\ alive => fetchOn
  /\ \A i \in 1..Len(toTool) :
       LET m == toTool[i] IN
       waiting = "reply" /\ Step = "arm" /\ m[1] = "reply" /\ m[2] = lastId /\ m[3] = "ok" /\ alive
         => fetchOn

\* A write that was heard is aborted, or its abort is under way, ahead of any
\* Fetch.disable.
HeardInv ==
  /\ ~alive => \A r \in Requests : ~Paused(r)
  /\ \A r \in heard :
       \/ status[r] = "aborted"
       \/ /\ Paused(r)
          /\ \E i \in 1..Len(toBrowser) :
               /\ toBrowser[i] = <<"failRequest", r>>
               /\ \A j \in 1..i : toBrowser[j][1] # "disarm"

CaptureInv == CaptureTypeOK /\ DriverInv /\ WiresInv /\ ArmedInv /\ HeardInv

-----------------------------------------------------------------------------
(* What is left of a flow. *)

LEMMA TailWellFormed ==
  ASSUME NEW s, WellFormed(s), Head(s) # "judge"
  PROVE  /\ WellFormed(Tail(s)) /\ Len(Tail(s)) = Len(s) - 1
         /\ Head(Tail(s)) = "release" => Head(s) = "press"
<1> DEFINE t == Tail(s)
<1>1. s \in Seq(Steps) /\ s # <<>> /\ Len(s) \in Nat /\ Head(s) = s[1]
  BY DEF WellFormed
<1>2. Len(s) >= 2
  BY <1>1 DEF WellFormed
<1>3. /\ t \in Seq(Steps) /\ Len(t) = Len(s) - 1
      /\ \A i \in 1..Len(t) : t[i] = s[i + 1]
  BY <1>1, HeadTailProperties DEF t
<1> HIDE DEF t
<1>4. Head(t) = s[2]
  BY <1>2, <1>3
<1>5. ASSUME NEW i \in 1..Len(t)
      PROVE  /\ t[i] = "judge" <=> i = Len(t)
             /\ t[i] = "disarm" <=> i = Len(t) - 1
             /\ t[i] = "release" => i = 1 \/ t[i - 1] = "press"
             /\ t[i] = "find?" => i + 3 <= Len(t) /\ t[i + 3] = "settle"
  <2>1. i + 1 \in 1..Len(s) /\ t[i] = s[i + 1]
    BY <1>1, <1>3
  <2>2. i # 1 => t[i - 1] = s[(i + 1) - 1]
    BY <1>1, <1>3
  <2>3. i + 3 <= Len(t) => t[i + 3] = s[(i + 1) + 3]
    BY <1>1, <1>3
  <2>4. i + 1 = Len(s) <=> i = Len(t)
    BY <1>1, <1>3
  <2>5. /\ s[i + 1] = "judge" <=> i + 1 = Len(s)
        /\ s[i + 1] = "disarm" <=> i + 1 = Len(s) - 1
        /\ s[i + 1] = "release" => i + 1 = 1 \/ s[(i + 1) - 1] = "press"
        /\ s[i + 1] = "find?" => (i + 1) + 3 <= Len(s) /\ s[(i + 1) + 3] = "settle"
    BY <2>1 DEF WellFormed
  <2> QED BY <1>1, <1>3, <2>1, <2>2, <2>3, <2>4, <2>5
<1>6. s[2] = "release" => s[1] = "press"
  BY <1>1, <1>2 DEF WellFormed
<1>7. WellFormed(t)
  BY <1>1, <1>2, <1>3, <1>5 DEF WellFormed
<1> QED BY <1>1, <1>3, <1>4, <1>6, <1>7 DEF t

\* find_optional gave up: its two clicks are skipped.
LEMMA SkipWellFormed ==
  ASSUME NEW s, WellFormed(s), Head(s) = "find?"
  PROVE  /\ WellFormed(SubSeq(s, 4, Len(s))) /\ Len(SubSeq(s, 4, Len(s))) >= 3
         /\ Len(s) >= 3
         /\ Head(SubSeq(s, 4, Len(s))) = "settle"
<1> DEFINE t == SubSeq(s, 4, Len(s))
<1>1. s \in Seq(Steps) /\ s # <<>> /\ Len(s) \in Nat /\ Head(s) = s[1]
  BY DEF WellFormed
<1>2. Len(s) >= 4 /\ s[4] = "settle"
  BY <1>1 DEF WellFormed
<1>3. Len(s) >= 6
  BY <1>1, <1>2 DEF WellFormed
<1>4. /\ t \in Seq(Steps) /\ Len(t) = Len(s) - 3
      /\ \A i \in 1..Len(t) : t[i] = s[i + 3]
  <2>1. \A i \in 4..Len(s) : s[i] \in Steps
    BY <1>1, ElementOfSeq
  <2>2. /\ t \in Seq(Steps) /\ Len(t) = IF 4 <= Len(s) THEN Len(s) - 4 + 1 ELSE 0
        /\ \A i \in 1..(Len(s) - 4 + 1) : t[i] = s[4 + i - 1]
    BY <1>1, <2>1, SubSeqProperties
  <2> QED BY <1>1, <1>2, <2>2
<1> HIDE DEF t
<1>5. Head(t) = t[1] /\ t[1] = "settle"
  BY <1>2, <1>3, <1>4
<1>6. ASSUME NEW i \in 1..Len(t)
      PROVE  /\ t[i] = "judge" <=> i = Len(t)
             /\ t[i] = "disarm" <=> i = Len(t) - 1
             /\ t[i] = "release" => i = 1 \/ t[i - 1] = "press"
             /\ t[i] = "find?" => i + 3 <= Len(t) /\ t[i + 3] = "settle"
  <2>1. i + 3 \in 1..Len(s) /\ t[i] = s[i + 3]
    BY <1>1, <1>4
  <2>2. i # 1 => t[i - 1] = s[(i + 3) - 1]
    BY <1>1, <1>4
  <2>3. i + 3 <= Len(t) => t[i + 3] = s[(i + 3) + 3]
    BY <1>1, <1>4
  <2> QED BY <1>1, <1>4, <2>1, <2>2, <2>3 DEF WellFormed
<1>7. WellFormed(t) /\ Len(t) >= 3
  BY <1>1, <1>3, <1>4, <1>6 DEF WellFormed
<1> QED BY <1>1, <1>3, <1>5, <1>7 DEF t

\* find looks once more.
LEMMA LookWellFormed ==
  ASSUME NEW s, WellFormed(s), Head(s) = "find"
  PROVE  /\ WellFormed(<<"diagnose">> \o Tail(s)) /\ Len(<<"diagnose">> \o Tail(s)) = Len(s)
         /\ Len(s) >= 3
         /\ Head(<<"diagnose">> \o Tail(s)) = "diagnose"
<1> DEFINE t == <<"diagnose">> \o Tail(s)
<1>1. s \in Seq(Steps) /\ s # <<>> /\ Len(s) \in Nat /\ Head(s) = s[1]
  BY DEF WellFormed
<1>2. Len(s) >= 3
  BY <1>1 DEF WellFormed
<1>3. /\ Tail(s) \in Seq(Steps) /\ Len(Tail(s)) = Len(s) - 1
      /\ \A i \in 1..Len(Tail(s)) : Tail(s)[i] = s[i + 1]
  BY <1>1, HeadTailProperties
<1>4. <<"diagnose">> \in Seq(Steps) /\ Len(<<"diagnose">>) = 1 /\ <<"diagnose">>[1] = "diagnose"
  BY DEF Steps
<1>5. /\ t \in Seq(Steps) /\ Len(t) = 1 + (Len(s) - 1)
      /\ \A i \in 1..(1 + (Len(s) - 1)) : t[i] = IF i <= 1 THEN <<"diagnose">>[i] ELSE Tail(s)[i - 1]
  BY <1>3, <1>4, ConcatProperties
<1> HIDE DEF t
<1>6. /\ t \in Seq(Steps) /\ Len(t) = Len(s) /\ t[1] = "diagnose"
      /\ \A i \in 2..Len(s) : t[i] = s[i]
  BY <1>1, <1>2, <1>3, <1>4, <1>5
<1>7. Head(t) = "diagnose"
  BY <1>2, <1>6
<1>8. ASSUME NEW i \in 1..Len(t)
      PROVE  /\ t[i] = "judge" <=> i = Len(t)
             /\ t[i] = "disarm" <=> i = Len(t) - 1
             /\ t[i] = "release" => i = 1 \/ t[i - 1] = "press"
             /\ t[i] = "find?" => i + 3 <= Len(t) /\ t[i + 3] = "settle"
  <2>1. CASE i = 1
    BY <1>2, <1>6, <2>1
  <2>2. CASE i > 1
    <3>1. i \in 1..Len(s) /\ t[i] = s[i]
      BY <1>1, <1>6, <2>2
    <3>2. s[i] = "release" => t[i - 1] = "press"
      BY <1>1, <1>6, <2>2, <3>1 DEF WellFormed
    <3>3. i + 3 <= Len(t) => t[i + 3] = s[i + 3]
      BY <1>1, <1>6, <2>2
    <3> QED BY <1>1, <1>6, <3>1, <3>2, <3>3 DEF WellFormed
  <2> QED BY <1>1, <1>6, <2>1, <2>2
<1>9. WellFormed(t)
  BY <1>1, <1>2, <1>6, <1>8 DEF WellFormed
<1> QED BY <1>2, <1>6, <1>7, <1>9 DEF t

LEMMA LastIsJudge ==
  ASSUME NEW s, WellFormed(s), Len(s) = 1
  PROVE  Head(s) = "judge"
<1>1. s \in Seq(Steps) /\ s # <<>> /\ Head(s) = s[1] /\ 1 \in 1..Len(s)
  BY DEF WellFormed
<1> QED BY <1>1 DEF WellFormed

LEMMA EndsWellFormed ==
  /\ WellFormed(<<"disarm", "judge">>) /\ Len(<<"disarm", "judge">>) = 2
  /\ Head(<<"disarm", "judge">>) = "disarm"
  /\ WellFormed(<<"judge">>) /\ Len(<<"judge">>) = 1
  /\ Head(<<"judge">>) = "judge"
BY DEF WellFormed, Steps

LEMMA FlowsWellFormed ==
  ASSUME NEW flow \in Flows
  PROVE  WellFormed(flow) /\ Len(flow) >= 3 /\ Head(flow) = "navigate"
<1>1. CASE flow = PostCreate
  <2>1. flow \in Seq(Steps) /\ Len(flow) = 12
    BY <1>1 DEF PostCreate, Steps
  <2>2. ASSUME NEW i \in 1..12
        PROVE  /\ flow[i] = "judge" <=> i = 12
               /\ flow[i] = "disarm" <=> i = 11
               /\ flow[i] = "release" => i = 1 \/ flow[i - 1] = "press"
               /\ flow[i] # "find?"
    BY <1>1, <2>2 DEF PostCreate
  <2>3. Head(flow) = "navigate"
    BY <1>1 DEF PostCreate
  <2> QED BY <2>1, <2>2, <2>3 DEF WellFormed
<1>2. CASE flow = Invite
  <2>1. flow \in Seq(Steps) /\ Len(flow) = 12
    BY <1>2 DEF Invite, Steps
  <2>2. ASSUME NEW i \in 1..12
        PROVE  /\ flow[i] = "judge" <=> i = 12
               /\ flow[i] = "disarm" <=> i = 11
               /\ flow[i] = "release" => i = 1 \/ flow[i - 1] = "press"
               /\ flow[i] = "find?" => i = 7
    BY <1>2, <2>2 DEF Invite
  <2>3. flow[10] = "settle" /\ Head(flow) = "navigate"
    BY <1>2 DEF Invite
  <2> QED BY <2>1, <2>2, <2>3 DEF WellFormed
<1> QED BY <1>1, <1>2, FlowsAssumption

-----------------------------------------------------------------------------
(* How a step of the flow ends. *)

Went ==
  /\ WellFormed(todo') /\ waiting' \in {"no", "window"} /\ left' \in {0, 1}
  /\ BeforeDisarm' => BeforeDisarm
  /\ armed /\ Step # "disarm" => BeforeDisarm'
  /\ waiting' = "window" => todo' = todo
  /\ Step' = "release" /\ BeforeDisarm' => armed
  /\ Step' = "press" /\ waiting' # "no" => armed

LEMMA StepHead == Step' = Head(todo')
BY DEF Step

LEMMA RaiseWent ==
  ASSUME DriverInv, Step # "judge", NEW b, Raise(b)
  PROVE  Went /\ waiting' = "no" /\ Step' \notin {"press", "release"}
<1>1. WellFormed(todo) /\ todo # <<>> /\ Len(todo) \in Nat /\ Step = todo[1]
  BY DEF DriverInv, WellFormed, Step
<1>2. waiting' = "no" /\ left' = 0
  BY DEF Raise
<1>3. CASE Step = "disarm" /\ todo' = Tail(todo)
  <2>1. Len(todo) = 2
    <3>1. Len(todo) >= 1 /\ \A i \in 1..Len(todo) : todo[i] = "disarm" <=> i = Len(todo) - 1
      BY <1>1 DEF WellFormed
    <3>2. 1 \in 1..Len(todo)
      BY <1>1, <3>1
    <3>3. todo[1] = "disarm"
      BY <1>1, <1>3
    <3>4. 1 = Len(todo) - 1
      BY <3>1, <3>2, <3>3
    <3> QED BY <1>1, <3>4
  <2>2. WellFormed(todo') /\ Len(todo') = 1
    BY <1>1, <1>3, <2>1, TailWellFormed DEF Step
  <2>3. Step = "disarm" /\ ~BeforeDisarm'
    BY <1>3, <2>2 DEF BeforeDisarm
  <2>4. Step' = "judge"
    BY <2>2, LastIsJudge, StepHead
  <2> QED BY <1>2, <2>2, <2>3, <2>4 DEF Went
<1>4. CASE Step = "find?" /\ todo' = SubSeq(todo, 4, Len(todo))
  BY <1>1, <1>2, <1>4, SkipWellFormed, StepHead DEF Went, BeforeDisarm, Step
<1>5. CASE Step # "disarm" /\ todo' = IF armed THEN <<"disarm", "judge">> ELSE <<"judge">>
  <2>1. CASE armed
    <3>1. WellFormed(todo') /\ Len(todo') = 2 /\ Head(todo') = "disarm"
      BY <1>5, <2>1, EndsWellFormed
    <3> QED BY <1>2, <2>1, <3>1, StepHead DEF Went, BeforeDisarm, DriverInv
  <2>2. CASE ~armed
    <3>1. WellFormed(todo') /\ Len(todo') = 1 /\ Head(todo') = "judge"
      BY <1>5, <2>2, EndsWellFormed
    <3> QED BY <1>2, <2>2, <3>1, StepHead DEF Went, BeforeDisarm
  <2> QED BY <2>1, <2>2
<1> QED BY <1>3, <1>4, <1>5 DEF Raise

\* An armed tool that waits has its Fetch.disable ahead of it.
LEMMA ArmedWaits ==
  ASSUME DriverInv, waiting # "no"
  PROVE  /\ WellFormed(todo) /\ todo # <<>> /\ Len(todo) \in Nat /\ Step = todo[1]
         /\ Step # "judge"
         /\ armed => Len(todo) >= 3 /\ Step # "disarm"
<1>1. WellFormed(todo) /\ todo # <<>> /\ Len(todo) \in Nat /\ Step = todo[1]
  BY DEF DriverInv, WellFormed, Step
<1>2. armed => Len(todo) >= 3
  BY DEF DriverInv, BeforeDisarm
<1>3. Len(todo) >= 3 => Step # "disarm"
  BY <1>1 DEF WellFormed
<1> QED BY <1>1, <1>2, <1>3 DEF DriverInv

LEMMA AdvanceWent ==
  ASSUME DriverInv, waiting # "no", Advance
  PROVE  Went
<1>1. WellFormed(todo') /\ Len(todo') = Len(todo) - 1 /\ (Step' = "release" => Step = "press")
  BY ArmedWaits, TailWellFormed, StepHead DEF Advance, Step
<1>2. waiting' = "no" /\ left' = 0
  BY DEF Advance
<1>3. BeforeDisarm' => Len(todo) >= 3
  BY <1>1, ArmedWaits DEF BeforeDisarm
<1>4. armed => BeforeDisarm'
  BY <1>1, <1>2, ArmedWaits DEF BeforeDisarm
<1>5. Step' = "release" => armed
  BY <1>1 DEF DriverInv
<1> QED BY <1>1, <1>2, <1>3, <1>4, <1>5 DEF Went, BeforeDisarm

LEMMA PollAgainWent ==
  ASSUME DriverInv, waiting # "no", PollAgain
  PROVE  Went
<1>1. CASE Raise(TRUE)
  BY <1>1, RaiseWent, ArmedWaits
<1>2. CASE Step = "find" /\ Diagnose
  BY <1>2, LookWellFormed, ArmedWaits, StepHead DEF Diagnose, Went, BeforeDisarm, Step
<1>3. CASE waiting' = "window" /\ left' = 1 /\ UNCHANGED todo
  <2>1. Step' = Step /\ Len(todo') = Len(todo) /\ (BeforeDisarm' => Len(todo) >= 3)
    BY <1>3, ArmedWaits DEF Step, BeforeDisarm
  <2>2. armed => BeforeDisarm'
    BY <1>3, ArmedWaits DEF BeforeDisarm
  <2>3. Step = "release" /\ BeforeDisarm' => armed
    BY <2>1 DEF DriverInv, BeforeDisarm
  <2>4. Step = "press" => armed
    BY DEF DriverInv
  <2>5. BeforeDisarm' => BeforeDisarm
    BY <2>1 DEF BeforeDisarm
  <2>6. WellFormed(todo')
    BY <1>3, ArmedWaits
  <2> QED BY <1>3, <2>1, <2>2, <2>3, <2>4, <2>5, <2>6 DEF Went
<1> QED BY <1>1, <1>2, <1>3 DEF PollAgain

LEMMA FailureWent ==
  ASSUME DriverInv, waiting # "no", CallFailed
  PROVE  Went
BY RaiseWent, PollAgainWent, AdvanceWent, ArmedWaits DEF CallFailed

LEMMA AnswerWent ==
  ASSUME DriverInv, waiting # "no", NEW verdict, Answered(verdict)
  PROVE  Went
BY RaiseWent, PollAgainWent, AdvanceWent, FailureWent, ArmedWaits DEF Answered

LEMMA WindowWent ==
  ASSUME DriverInv, waiting # "no", WindowEnds
  PROVE  Went
<1>1. CASE Step = "settle" /\ Advance
  BY <1>1, AdvanceWent
<1>2. CASE Step \in Finds /\ waiting' = "no" /\ left' = 0 /\ UNCHANGED todo
  <2>1. Step' = Step /\ Step' # "release" /\ Step' # "press" /\ Step # "disarm"
    BY <1>2 DEF Step, Finds
  <2>2. Len(todo) >= 3
    BY <2>1, ArmedWaits DEF WellFormed
  <2> QED BY <1>2, <2>1, <2>2, ArmedWaits DEF Went, BeforeDisarm
<1> QED BY <1>1, <1>2 DEF WindowEnds

-----------------------------------------------------------------------------
(* The driver's part of the invariant. *)

LEMMA WentDriver ==
  ASSUME DriverInv, Went, Step # "judge", armed' => BeforeDisarm',
         (armed => armed') \/ Step' \notin {"press", "release"}
  PROVE  DriverInv'
<1>1. waiting' # "no" => Step' # "judge"
  BY DEF Went, Step
<1> QED BY <1>1 DEF Went, DriverInv

LEMMA StillArmed ==
  ASSUME DriverInv, waiting # "no", Went, UNCHANGED armed
  PROVE  DriverInv' /\ (BeforeDisarm' => BeforeDisarm) /\ waiting' # "reply"
<1>1. armed' => BeforeDisarm'
  BY ArmedWaits DEF Went
<1> QED BY <1>1, WentDriver, ArmedWaits DEF Went

LEMMA DriverSame ==
  ASSUME DriverInv, UNCHANGED <<todo, waiting, armed>>
  PROVE  DriverInv' /\ (BeforeDisarm' <=> BeforeDisarm) /\ Step' = Step
BY DEF DriverInv, WellFormed, BeforeDisarm, Step

LEMMA CallDriver ==
  ASSUME DriverInv, Call
  PROVE  DriverInv' /\ (BeforeDisarm' => BeforeDisarm /\ Step # "disarm") /\ Step' = Step
<1>1. /\ waiting = "no" /\ Step \notin {"settle", "judge"} /\ Permitted
      /\ waiting' = "reply" /\ UNCHANGED todo /\ armed' = (armed /\ Step # "disarm")
  BY DEF Call, Idle
<1>2. WellFormed(todo) /\ WellFormed(todo') /\ todo # <<>> /\ Len(todo) \in Nat /\ Step = todo[1] /\ Step' = Step
  BY <1>1 DEF DriverInv, WellFormed, Step
<1>3. /\ Len(todo) >= 1
      /\ \A i \in 1..Len(todo) : (todo[i] = "judge" <=> i = Len(todo)) /\ (todo[i] = "disarm" <=> i = Len(todo) - 1)
  BY <1>2 DEF WellFormed
<1>4. Len(todo) # 1 /\ (Step = "disarm" <=> Len(todo) = 2)
  <2>1. 1 \in 1..Len(todo)
    BY <1>2, <1>3
  <2>2. todo[1] # "judge"
    BY <1>1, <1>2
  <2>3. (todo[1] = "judge" <=> 1 = Len(todo)) /\ (todo[1] = "disarm" <=> 1 = Len(todo) - 1)
    BY <1>3, <2>1
  <2> QED BY <1>2, <2>2, <2>3
<1>5. BeforeDisarm' <=> Step # "disarm"
  BY <1>1, <1>2, <1>3, <1>4 DEF BeforeDisarm
<1>6. BeforeDisarm
  BY <1>1, <1>2, <1>3, <1>4 DEF BeforeDisarm
<1>7. Step = "press" => armed
  BY <1>1 DEF Permitted
<1>8. Step = "release" => armed
  BY <1>6 DEF DriverInv
<1> QED BY <1>1, <1>2, <1>5, <1>6, <1>7, <1>8 DEF DriverInv

LEMMA CannotCallDriver ==
  ASSUME DriverInv, CannotCall
  PROVE  DriverInv' /\ (BeforeDisarm' => BeforeDisarm) /\ waiting' = "no" /\ left' = 0
<1>1. /\ Raise(~Permitted) /\ Step # "judge" /\ armed' = (armed /\ Step # "disarm")
  BY DEF CannotCall
<1>2. Went /\ waiting' = "no" /\ Step' \notin {"press", "release"}
  BY <1>1, RaiseWent
<1>3. armed' => BeforeDisarm'
  BY <1>1, <1>2 DEF Went
<1>4. left' = 0
  BY <1>1 DEF Raise
<1> QED BY <1>1, <1>2, <1>3, <1>4, WentDriver DEF Went

LEMMA SettleDriver ==
  ASSUME DriverInv, Settle
  PROVE  DriverInv' /\ (BeforeDisarm' => BeforeDisarm) /\ waiting' = "window"
<1>1. waiting = "no" /\ Step = "settle" /\ waiting' = "window" /\ UNCHANGED <<todo, armed>>
  BY DEF Settle, Idle
<1>2. WellFormed(todo) /\ WellFormed(todo') /\ Len(todo) \in Nat /\ Step = todo[1] /\ Step' = Step
  BY <1>1 DEF DriverInv, WellFormed, Step
<1>3. /\ Len(todo) >= 1
      /\ \A i \in 1..Len(todo) : (todo[i] = "judge" <=> i = Len(todo)) /\ (todo[i] = "disarm" <=> i = Len(todo) - 1)
  BY <1>2 DEF WellFormed
<1>4. Len(todo) # 1 /\ Len(todo) # 2
  <2>1. 1 \in 1..Len(todo)
    BY <1>2, <1>3
  <2>2. (todo[1] = "judge" <=> 1 = Len(todo)) /\ (todo[1] = "disarm" <=> 1 = Len(todo) - 1)
    BY <1>3, <2>1
  <2> QED BY <1>1, <1>2, <2>2
<1>5. BeforeDisarm' /\ BeforeDisarm
  BY <1>1, <1>2, <1>3, <1>4 DEF BeforeDisarm
<1> QED BY <1>1, <1>2, <1>5 DEF DriverInv

LEMMA WaitEndsDriver ==
  ASSUME DriverInv, TimeOut \/ EndOfFile
  PROVE  DriverInv' /\ (BeforeDisarm' => BeforeDisarm) /\ waiting' # "reply" /\ left' \in {0, 1}
<1>1. waiting # "no" /\ (CallFailed \/ WindowEnds) /\ UNCHANGED armed
  BY DEF TimeOut, EndOfFile, Reading
<1>2. Went
  BY <1>1, FailureWent, WindowWent
<1> QED BY <1>1, <1>2, StillArmed DEF Went

-----------------------------------------------------------------------------
(* The wires. *)

\* A command or a message under way, as WiresInv and ArmedInv speak of it.
LEMMA WireTypes ==
  ASSUME WiresInv
  PROVE  /\ Len(toBrowser) \in Nat /\ Len(toTool) \in Nat
         /\ \A i \in 1..Len(toBrowser) : toBrowser[i] \in Commands
         /\ \A i \in 1..Len(toTool) : toTool[i] \in Messages
BY ElementOfSeq DEF WiresInv

LEMMA HeadTailWire ==
  ASSUME NEW S, NEW s \in Seq(S), s # <<>>
  PROVE  /\ Head(s) \in S /\ Head(s) = s[1] /\ 1 \in 1..Len(s)
         /\ Tail(s) \in Seq(S)
         /\ \A i \in 1..Len(Tail(s)) : i + 1 \in 1..Len(s) /\ Tail(s)[i] = s[i + 1]
<1>1. /\ Head(s) \in S /\ Tail(s) \in Seq(S) /\ Len(Tail(s)) = Len(s) - 1
      /\ \A i \in 1..Len(Tail(s)) : Tail(s)[i] = s[i + 1]
  BY HeadTailProperties
<1>2. Len(s) \in Nat /\ Len(s) # 0
  BY EmptySeq
<1>3. Head(s) = s[1]
  OBVIOUS
<1> QED BY <1>1, <1>2, <1>3

\* What the tool reads, or nothing, is all that leaves a wire.
TookAtMostOne == \/ UNCHANGED toTool
                 \/ toTool # <<>> /\ toTool' = Tail(toTool)

\* What is still under way was under way before.
LEMMA StillUnderWay ==
  ASSUME WiresInv, TookAtMostOne
  PROVE  /\ toTool' \in Seq(Messages)
         /\ \A i \in 1..Len(toTool') : \E j \in 1..Len(toTool) : toTool'[i] = toTool[j]
<1>1. CASE UNCHANGED toTool
  BY <1>1 DEF WiresInv
<1>2. CASE toTool # <<>> /\ toTool' = Tail(toTool)
  BY <1>2, HeadTailWire DEF WiresInv
<1> QED BY <1>1, <1>2 DEF TookAtMostOne

\* A step of the tool that sends nothing and does not call.
LEMMA QuietArms ==
  ASSUME WiresInv, ArmedInv, TookAtMostOne,
         UNCHANGED <<toBrowser, lastId, browser>>,
         waiting' = "reply" => waiting = "reply" /\ UNCHANGED todo,
         BeforeDisarm' => BeforeDisarm,
         armed' /\ alive => fetchOn
  PROVE  WiresInv' /\ ArmedInv'
<1>1. UNCHANGED <<fetchOn, alive, clicked, status>>
  BY DEF browser
<1>2. waiting' = "reply" => waiting = "reply" /\ Step' = Step
  BY DEF Step
<1>3. WiresInv'
  <2>1. toBrowser' \in Seq(Commands) /\ toTool' \in Seq(Messages)
    BY StillUnderWay DEF WiresInv
  <2>2. ASSUME NEW i \in 1..Len(toBrowser')
        PROVE  LET m == toBrowser'[i] IN
               IF m[1] \in Resolving
               THEN m[1] = "continueRequest" => ~IsWrite(m[2])
               ELSE m[2] <= lastId' /\ (waiting' = "reply" /\ m[2] = lastId' => m[1] = Step')
    BY <1>2 DEF WiresInv
  <2>3. ASSUME NEW i \in 1..Len(toTool')
        PROVE  LET m == toTool'[i] IN
               IF m[1] = "paused" THEN status'[m[2]] # "none" ELSE m[2] <= lastId'
    <3>1. PICK j \in 1..Len(toTool) : toTool'[i] = toTool[j]
      BY StillUnderWay
    <3> QED BY <1>1, <3>1 DEF WiresInv
  <2> QED BY <2>1, <2>2, <2>3 DEF WiresInv
<1>4. ArmedInv'
  <2>1. BeforeDisarm' =>
          /\ \A i \in 1..Len(toBrowser') : toBrowser'[i][1] # "disarm"
          /\ clicked' /\ alive' => fetchOn'
          /\ alive' /\ (\E i \in 1..Len(toBrowser') : toBrowser'[i][1] = "release") => fetchOn'
    BY <1>1 DEF ArmedInv
  <2>2. ASSUME BeforeDisarm', NEW i \in 1..Len(toTool')
        PROVE  LET m == toTool'[i] IN
               m[1] = "paused" /\ IsWrite(m[2]) => status'[m[2]] \in {"paused", "aborted"}
    <3>1. PICK j \in 1..Len(toTool) : toTool'[i] = toTool[j]
      BY StillUnderWay
    <3> QED BY <1>1, <2>2, <3>1 DEF ArmedInv
  <2>3. ASSUME NEW i \in 1..Len(toTool')
        PROVE  LET m == toTool'[i] IN
               waiting' = "reply" /\ Step' = "arm" /\ m[1] = "reply" /\ m[2] = lastId'
                 /\ m[3] = "ok" /\ alive' => fetchOn'
    <3>1. PICK j \in 1..Len(toTool) : toTool'[i] = toTool[j]
      BY StillUnderWay
    <3> QED BY <1>1, <1>2, <3>1 DEF ArmedInv
  <2> QED BY <1>1, <2>1, <2>2, <2>3 DEF ArmedInv
<1> QED BY <1>3, <1>4

LEMMA QuietWires ==
  ASSUME WiresInv, ArmedInv, HeardInv, TookAtMostOne,
         UNCHANGED <<toBrowser, lastId, heard, browser>>,
         waiting' = "reply" => waiting = "reply" /\ UNCHANGED todo,
         BeforeDisarm' => BeforeDisarm,
         armed' /\ alive => fetchOn
  PROVE  WiresInv' /\ ArmedInv' /\ HeardInv'
<1>1. HeardInv'
  BY DEF HeardInv, Paused, browser
<1> QED BY <1>1, QuietArms

-----------------------------------------------------------------------------
(* The steps of the tool. *)

LEMMA QuietTypes ==
  ASSUME CaptureTypeOK, DriverInv', left' \in 0..(TIMEOUT + SETTLE),
         budget' \in 0..BUDGET, lastId' \in 0..MaxCalls,
         exit' \in {"running", "done", "failed"},
         UNCHANGED <<captured, heard, status>>
  PROVE  CaptureTypeOK'
<1>1. todo' # <<>>
  BY DEF DriverInv, WellFormed
<1> QED BY <1>1 DEF CaptureTypeOK, DriverInv

LEMMA WaitBounds == 0..1 \subseteq 0..(TIMEOUT + SETTLE)
BY CaptureAssumption

LEMMA CannotCallStep ==
  ASSUME CaptureInv, CannotCall
  PROVE  CaptureInv'
<1>1. DriverInv' /\ (BeforeDisarm' => BeforeDisarm) /\ waiting' = "no" /\ left' = 0
  BY CannotCallDriver DEF CaptureInv
<1>2. UNCHANGED <<budget, lastId, captured, exit, heard, toBrowser, toTool, browser, status>>
  BY DEF CannotCall, wires, browser
<1>3. armed' => armed
  BY DEF CannotCall
<1>4. WiresInv' /\ ArmedInv' /\ HeardInv'
  BY <1>1, <1>2, <1>3, QuietWires DEF CaptureInv, TookAtMostOne, ArmedInv
<1>5. CaptureTypeOK'
  BY <1>1, <1>2, QuietTypes, WaitBounds DEF CaptureInv, CaptureTypeOK
<1> QED BY <1>1, <1>4, <1>5 DEF CaptureInv

LEMMA SettleStep ==
  ASSUME CaptureInv, Settle
  PROVE  CaptureInv'
<1>1. DriverInv' /\ (BeforeDisarm' => BeforeDisarm) /\ waiting' = "window"
  BY SettleDriver DEF CaptureInv
<1>2. UNCHANGED <<armed, budget, lastId, captured, exit, heard, toBrowser, toTool, browser, status>>
      /\ left' = SETTLE
  BY DEF Settle, wires, browser
<1>3. WiresInv' /\ ArmedInv' /\ HeardInv'
  BY <1>1, <1>2, QuietWires DEF CaptureInv, TookAtMostOne, ArmedInv
<1>4. CaptureTypeOK'
  BY <1>1, <1>2, QuietTypes, CaptureAssumption DEF CaptureInv, CaptureTypeOK
<1> QED BY <1>1, <1>3, <1>4 DEF CaptureInv

LEMMA WaitEndsStep ==
  ASSUME CaptureInv, TimeOut \/ EndOfFile
  PROVE  CaptureInv'
<1>1. DriverInv' /\ (BeforeDisarm' => BeforeDisarm) /\ waiting' # "reply" /\ left' \in {0, 1}
  BY WaitEndsDriver DEF CaptureInv
<1>2. UNCHANGED <<armed, budget, lastId, captured, exit, heard, toBrowser, toTool, browser, status>>
  BY DEF TimeOut, EndOfFile, wires, browser
<1>3. WiresInv' /\ ArmedInv' /\ HeardInv'
  BY <1>1, <1>2, QuietWires DEF CaptureInv, TookAtMostOne, ArmedInv
<1>4. CaptureTypeOK'
  BY <1>1, <1>2, QuietTypes, WaitBounds DEF CaptureInv, CaptureTypeOK
<1> QED BY <1>1, <1>3, <1>4 DEF CaptureInv

LEMMA StandStill ==
  ASSUME CaptureInv, Judge \/ Tick
  PROVE  CaptureInv'
<1>1. UNCHANGED <<todo, waiting, armed, lastId, captured, heard, toBrowser, toTool, browser, status>>
  BY DEF Judge, Tick, wires, browser
<1>2. DriverInv' /\ (BeforeDisarm' <=> BeforeDisarm)
  BY <1>1, DriverSame DEF CaptureInv
<1>3. WiresInv' /\ ArmedInv' /\ HeardInv'
  BY <1>1, <1>2, QuietWires DEF CaptureInv, TookAtMostOne, ArmedInv
<1>4. /\ left' \in 0..(TIMEOUT + SETTLE) /\ budget' \in 0..BUDGET
      /\ exit' \in {"running", "done", "failed"}
  BY CaptureAssumption DEF Judge, Tick, CaptureInv, CaptureTypeOK
<1>5. CaptureTypeOK'
  BY <1>1, <1>2, <1>4, QuietTypes DEF CaptureInv, CaptureTypeOK
<1> QED BY <1>2, <1>3, <1>5 DEF CaptureInv

\* A command more does not come between a Fetch.disable and an abort.
LEMMA HeardAppend ==
  ASSUME WiresInv, HeardInv, NEW c \in Commands, toBrowser' = Append(toBrowser, c),
         UNCHANGED <<heard, alive, status>>
  PROVE  HeardInv'
<1>1. /\ \A i \in 1..Len(toBrowser) : i \in 1..Len(toBrowser') /\ toBrowser'[i] = toBrowser[i]
  BY AppendProperties DEF WiresInv
<1>2. ASSUME NEW r \in heard', status'[r] # "aborted"
      PROVE  /\ Paused(r)'
             /\ \E i \in 1..Len(toBrowser') :
                  /\ toBrowser'[i] = <<"failRequest", r>>
                  /\ \A j \in 1..i : toBrowser'[j][1] # "disarm"
  <2>1. Paused(r)
    BY <1>2 DEF HeardInv
  <2>2. PICK i \in 1..Len(toBrowser) :
              /\ toBrowser[i] = <<"failRequest", r>>
              /\ \A j \in 1..i : toBrowser[j][1] # "disarm"
    BY <1>2 DEF HeardInv
  <2>3. Len(toBrowser) \in Nat /\ 1..i \subseteq 1..Len(toBrowser)
    BY <2>2 DEF WiresInv
  <2>4. i \in 1..Len(toBrowser') /\ toBrowser'[i] = <<"failRequest", r>>
    BY <1>1, <2>2
  <2>5. \A j \in 1..i : toBrowser'[j][1] # "disarm"
    BY <1>1, <2>2, <2>3
  <2> QED BY <2>1, <2>4, <2>5 DEF Paused
<1> QED BY <1>2 DEF HeardInv, Paused

LEMMA CallStep ==
  ASSUME CaptureInv, Call
  PROVE  CaptureInv'
<1>1. DriverInv' /\ (BeforeDisarm' => BeforeDisarm /\ Step # "disarm") /\ Step' = Step
  BY CallDriver DEF CaptureInv
<1>2. /\ Permitted /\ alive /\ lastId < MaxCalls /\ lastId' = lastId + 1
      /\ toBrowser' = Append(toBrowser, <<Step, lastId + 1>>)
      /\ waiting' = "reply" /\ left' = TIMEOUT /\ (armed' => armed)
      /\ budget' \in {budget, BUDGET}
      /\ UNCHANGED <<captured, exit, heard, toTool, fetchOn, alive, clicked, status>>
  BY DEF Call, browser
<1>3. lastId \in Nat /\ Step \in Steps
  <2>1. todo \in Seq(Steps) /\ todo # <<>>
    BY DEF CaptureInv, DriverInv, WellFormed
  <2> QED BY <2>1, HeadTailProperties, CaptureAssumption DEF CaptureInv, CaptureTypeOK, Step
<1>4. <<Step, lastId + 1>> \in Commands /\ Step \notin Resolving
  BY <1>3 DEF Commands, Steps, Resolving
<1>5. /\ toBrowser' \in Seq(Commands) /\ Len(toBrowser) \in Nat /\ Len(toBrowser') = Len(toBrowser) + 1
      /\ \A i \in 1..Len(toBrowser) : toBrowser'[i] = toBrowser[i]
      /\ toBrowser'[Len(toBrowser) + 1] = <<Step, lastId + 1>>
  BY <1>2, <1>4, AppendProperties DEF CaptureInv, WiresInv
<1>6. CaptureTypeOK'
  BY <1>1, <1>2, <1>3, QuietTypes, CaptureAssumption DEF CaptureInv, CaptureTypeOK
<1>7. WiresInv'
  <2>1. ASSUME NEW i \in 1..Len(toBrowser')
        PROVE  LET m == toBrowser'[i] IN
               IF m[1] \in Resolving
               THEN m[1] = "continueRequest" => ~IsWrite(m[2])
               ELSE m[2] <= lastId' /\ (waiting' = "reply" /\ m[2] = lastId' => m[1] = Step')
    <3>1. CASE i = Len(toBrowser) + 1
      BY <1>1, <1>2, <1>3, <1>4, <1>5, <3>1
    <3>2. CASE i \in 1..Len(toBrowser)
      <4>1. toBrowser'[i] = toBrowser[i] /\ toBrowser[i] \in Commands
        BY <1>5, <3>2, WireTypes DEF CaptureInv
      <4>2. toBrowser[i][1] \notin Resolving => toBrowser[i][2] \in Nat /\ toBrowser[i][2] <= lastId
        BY <3>2, <4>1 DEF CaptureInv, WiresInv, Commands
      <4>3. toBrowser[i][1] = "continueRequest" => ~IsWrite(toBrowser[i][2])
        BY <3>2, <4>1 DEF CaptureInv, WiresInv, Resolving
      <4> QED BY <1>2, <1>3, <4>1, <4>2, <4>3
    <3> QED BY <1>5, <3>1, <3>2
  <2>2. ASSUME NEW i \in 1..Len(toTool')
        PROVE  LET m == toTool'[i] IN
               IF m[1] = "paused" THEN status'[m[2]] # "none" ELSE m[2] <= lastId'
    <3>1. toTool[i] \in Messages /\ toTool'[i] = toTool[i] /\ i \in 1..Len(toTool)
      BY <1>2, WireTypes DEF CaptureInv
    <3>2. toTool[i][1] = "paused" => status[toTool[i][2]] # "none"
      BY <3>1 DEF CaptureInv, WiresInv
    <3>3. toTool[i][1] # "paused" => toTool[i][2] \in Nat /\ toTool[i][2] <= lastId
      BY <3>1 DEF CaptureInv, WiresInv, Messages
    <3> QED BY <1>2, <1>3, <3>1, <3>2, <3>3
  <2> QED BY <1>2, <1>5, <2>1, <2>2 DEF CaptureInv, WiresInv
<1>8. ArmedInv'
  <2>1. BeforeDisarm' => \A i \in 1..Len(toBrowser') : toBrowser'[i][1] # "disarm"
    BY <1>1, <1>5 DEF CaptureInv, ArmedInv
  <2>2. armed' /\ alive' => fetchOn'
    BY <1>2 DEF CaptureInv, ArmedInv
  <2>3. BeforeDisarm' /\ alive' /\ (\E i \in 1..Len(toBrowser') : toBrowser'[i][1] = "release") => fetchOn'
    <3>1. Step = "release" /\ BeforeDisarm => armed
      BY DEF CaptureInv, DriverInv
    <3>2. armed /\ alive => fetchOn
      BY DEF CaptureInv, ArmedInv
    <3>3. BeforeDisarm /\ alive /\ (\E i \in 1..Len(toBrowser) : toBrowser[i][1] = "release") => fetchOn
      BY DEF CaptureInv, ArmedInv
    <3>4. \A i \in 1..Len(toBrowser') : i \in 1..Len(toBrowser) \/ i = Len(toBrowser) + 1
      BY <1>5
    <3> QED BY <1>1, <1>2, <1>5, <3>1, <3>2, <3>3, <3>4
  <2>4. BeforeDisarm' =>
          /\ \A i \in 1..Len(toTool') :
               LET m == toTool'[i] IN
               m[1] = "paused" /\ IsWrite(m[2]) => status'[m[2]] \in {"paused", "aborted"}
          /\ clicked' /\ alive' => fetchOn'
    BY <1>1, <1>2 DEF CaptureInv, ArmedInv
  <2>5. ASSUME NEW i \in 1..Len(toTool'), toTool'[i][1] = "reply"
        PROVE  toTool'[i][2] # lastId'
    <3>1. toTool[i] \in Messages /\ toTool'[i] = toTool[i] /\ i \in 1..Len(toTool)
      BY <1>2, WireTypes DEF CaptureInv
    <3>2. toTool[i][2] \in Nat /\ toTool[i][2] <= lastId
      BY <2>5, <3>1 DEF CaptureInv, WiresInv, Messages
    <3> QED BY <1>2, <1>3, <3>1, <3>2
  <2> QED BY <2>1, <2>2, <2>3, <2>4, <2>5 DEF ArmedInv
<1>9. HeardInv'
  BY <1>2, <1>4, HeardAppend DEF CaptureInv
<1> QED BY <1>1, <1>6, <1>7, <1>8, <1>9 DEF CaptureInv

\* The reply to the call.  That of Fetch.enable, ok, says the browser pauses.
LEMMA TakeReplyStep ==
  ASSUME CaptureInv, Take, waiting = "reply",
         Head(toTool)[1] = "reply", Head(toTool)[2] = lastId, Answered(Head(toTool)[3]),
         armed' = (armed \/ (Step = "arm" /\ Head(toTool)[3] = "ok")),
         UNCHANGED <<captured, heard, toBrowser>>
  PROVE  CaptureInv'
<1>1. Went
  BY AnswerWent DEF CaptureInv
<1>2. /\ toTool # <<>> /\ toTool' = Tail(toTool)
      /\ UNCHANGED <<budget, lastId, exit, browser, alive, fetchOn, status>>
  BY DEF Take, browser
<1>3. CASE Step = "arm" /\ Head(toTool)[3] = "ok"
  <2>1. armed' = TRUE
    BY <1>3
  <2>2. Advance
    BY <1>3 DEF Answered
  <2>3. Len(todo) >= 3
    <3>1. /\ Len(todo) >= 1
          /\ \A i \in 1..Len(todo) : (todo[i] = "judge" <=> i = Len(todo)) /\ (todo[i] = "disarm" <=> i = Len(todo) - 1)
      BY DEF CaptureInv, DriverInv, WellFormed
    <3>2. Len(todo) \in Nat /\ todo[1] = "arm"
      BY <1>3, ArmedWaits DEF CaptureInv
    <3>3. (todo[1] = "judge" <=> 1 = Len(todo)) /\ (todo[1] = "disarm" <=> 1 = Len(todo) - 1)
      BY <3>1, <3>2
    <3> QED BY <3>1, <3>2, <3>3
  <2>4. Len(todo') = Len(todo) - 1 /\ waiting' = "no"
    BY <2>2, TailWellFormed, ArmedWaits DEF CaptureInv, Advance, Step
  <2>5. BeforeDisarm'
    BY <2>3, <2>4 DEF BeforeDisarm
  <2>6. DriverInv'
    BY <1>1, <1>3, <2>1, <2>5, WentDriver DEF CaptureInv
  <2>7. alive => fetchOn
    BY <1>2, <1>3, HeadTailWire DEF CaptureInv, WiresInv, ArmedInv
  <2>8. WiresInv' /\ ArmedInv' /\ HeardInv'
    BY <1>1, <1>2, <2>4, <2>7, QuietWires DEF CaptureInv, TookAtMostOne, Went
  <2>9. CaptureTypeOK'
    BY <1>1, <1>2, <2>6, QuietTypes, WaitBounds DEF CaptureInv, CaptureTypeOK, Went
  <2> QED BY <2>6, <2>8, <2>9 DEF CaptureInv
<1>4. CASE ~(Step = "arm" /\ Head(toTool)[3] = "ok")
  <2>1. armed' <=> armed
    BY <1>4
  <2>2. DriverInv' /\ (BeforeDisarm' => BeforeDisarm) /\ waiting' # "reply"
    <3>1. armed => BeforeDisarm'
      BY <1>1, ArmedWaits DEF CaptureInv, Went
    <3>2. armed' => BeforeDisarm'
      BY <2>1, <3>1
    <3>3. armed => armed'
      BY <2>1
    <3> QED BY <1>1, <3>2, <3>3, WentDriver, ArmedWaits DEF CaptureInv, Went
  <2>3. armed' /\ alive => fetchOn
    BY <2>1 DEF CaptureInv, ArmedInv
  <2>4. WiresInv' /\ ArmedInv' /\ HeardInv'
    BY <1>2, <2>2, <2>3, QuietWires DEF CaptureInv, TookAtMostOne
  <2>5. CaptureTypeOK'
    BY <1>1, <1>2, <2>2, QuietTypes, WaitBounds DEF CaptureInv, CaptureTypeOK, Went
  <2> QED BY <2>2, <2>4, <2>5 DEF CaptureInv
<1> QED BY <1>3, <1>4

LEMMA TakeNothingStep ==
  ASSUME CaptureInv, Take, UNCHANGED <<todo, waiting, left, armed, captured, heard, toBrowser>>
  PROVE  CaptureInv'
<1>1. /\ toTool # <<>> /\ toTool' = Tail(toTool)
      /\ UNCHANGED <<budget, lastId, exit, browser, status>>
  BY DEF Take, browser
<1>2. DriverInv' /\ (BeforeDisarm' <=> BeforeDisarm)
  BY DriverSame DEF CaptureInv
<1>3. WiresInv' /\ ArmedInv' /\ HeardInv'
  BY <1>1, <1>2, QuietWires DEF CaptureInv, TookAtMostOne, ArmedInv
<1>4. CaptureTypeOK'
  BY <1>1, <1>2, QuietTypes DEF CaptureInv, CaptureTypeOK
<1> QED BY <1>2, <1>3, <1>4 DEF CaptureInv

\* What a pause that is read says of its request.
LEMMA PausedRequest ==
  ASSUME CaptureInv, toTool # <<>>, Head(toTool)[1] = "paused"
  PROVE  /\ Head(toTool)[2] \in Requests /\ status[Head(toTool)[2]] # "none"
         /\ armed /\ IsWrite(Head(toTool)[2]) => status[Head(toTool)[2]] \in {"paused", "aborted"}
<1>1. Head(toTool) \in Messages /\ Head(toTool) = toTool[1] /\ 1 \in 1..Len(toTool)
  BY HeadTailWire DEF CaptureInv, WiresInv
<1>2. toTool[1][2] \in Requests
  BY <1>1 DEF Messages
<1>3. status[toTool[1][2]] # "none"
  BY <1>1 DEF CaptureInv, WiresInv
<1>4. armed => BeforeDisarm
  BY DEF CaptureInv, DriverInv
<1>5. BeforeDisarm /\ IsWrite(toTool[1][2]) => status[toTool[1][2]] \in {"paused", "aborted"}
  BY <1>1 DEF CaptureInv, ArmedInv
<1> QED BY <1>1, <1>2, <1>3, <1>4, <1>5

LEMMA OnPausedTypes ==
  ASSUME CaptureInv, NEW r \in Requests, status[r] # "none", OnPaused(r), DriverInv',
         left' \in 0..(TIMEOUT + SETTLE), UNCHANGED <<budget, lastId, exit, status>>
  PROVE  CaptureTypeOK'
<1>1. /\ captured' = IF IsWrite(r) THEN captured \cup {r} ELSE captured
      /\ heard' = IF armed /\ IsWrite(r) THEN heard \cup {r} ELSE heard
  BY DEF OnPaused
<1>2. /\ captured' \subseteq {q \in Requests : IsWrite(q)} /\ heard' \subseteq captured'
      /\ \A q \in captured' : status'[q] # "none"
  BY <1>1 DEF CaptureInv, CaptureTypeOK
<1>3. todo' # <<>>
  BY DEF DriverInv, WellFormed
<1> QED BY <1>2, <1>3 DEF CaptureInv, CaptureTypeOK, DriverInv

\* A pause read with the browser gone: the error of the pipe ends the flow.
LEMMA TakePauseDeadStep ==
  ASSUME CaptureInv, Take, Head(toTool)[1] = "paused", OnPaused(Head(toTool)[2]),
         UNCHANGED armed, ~alive
  PROVE  CaptureInv'
<1> DEFINE r == Head(toTool)[2]
<1>1. /\ toTool # <<>> /\ toTool' = Tail(toTool) /\ waiting # "no"
      /\ UNCHANGED <<budget, lastId, exit, browser, alive, fetchOn, clicked, status>>
  BY DEF Take, browser, Reading
<1>2. /\ r \in Requests /\ status[r] # "none"
      /\ armed /\ IsWrite(r) => status[r] \in {"paused", "aborted"}
  BY <1>1, PausedRequest
<1>3. Raise(FALSE) /\ UNCHANGED toBrowser
  BY DEF OnPaused
<1>4. Went /\ waiting' = "no"
  BY <1>1, <1>3, RaiseWent, ArmedWaits DEF CaptureInv
<1>5. DriverInv' /\ (BeforeDisarm' => BeforeDisarm)
  BY <1>1, <1>4, StillArmed DEF CaptureInv
<1>6. CaptureTypeOK'
  BY <1>1, <1>2, <1>4, <1>5, OnPausedTypes, WaitBounds DEF Went
<1>7. HeardInv'
  <2>1. \A q \in Requests : ~Paused(q)
    BY DEF CaptureInv, HeardInv
  <2>2. heard' = IF armed /\ IsWrite(r) THEN heard \cup {r} ELSE heard
    BY DEF OnPaused
  <2>3. \A q \in heard : status[q] = "aborted"
    BY <2>1 DEF CaptureInv, HeardInv, CaptureTypeOK
  <2>4. armed /\ IsWrite(r) => status[r] = "aborted"
    BY <1>2, <2>1 DEF Paused
  <2>5. \A q \in heard' : status'[q] = "aborted"
    BY <1>1, <2>2, <2>3, <2>4
  <2> QED BY <1>1, <2>1, <2>5 DEF HeardInv, Paused
<1>8. WiresInv' /\ ArmedInv'
  <2>1. TookAtMostOne
    BY <1>1 DEF TookAtMostOne
  <2> QED BY <1>1, <1>3, <1>4, <1>5, <2>1, QuietArms DEF CaptureInv
<1> QED BY <1>5, <1>6, <1>7, <1>8 DEF CaptureInv

\* A pause read: a write is aborted, anything else let go.
LEMMA TakePauseStep ==
  ASSUME CaptureInv, Take, Head(toTool)[1] = "paused", OnPaused(Head(toTool)[2]),
         UNCHANGED armed, alive
  PROVE  CaptureInv'
<1> DEFINE r == Head(toTool)[2]
           c == <<IF IsWrite(r) THEN "failRequest" ELSE "continueRequest", r>>
<1>1. /\ toTool # <<>> /\ toTool' = Tail(toTool)
      /\ UNCHANGED <<budget, lastId, exit, alive, fetchOn, clicked, status>>
  BY DEF Take, browser
<1>2. /\ r \in Requests /\ status[r] # "none"
      /\ armed /\ IsWrite(r) => status[r] \in {"paused", "aborted"}
  BY <1>1, PausedRequest
<1>3. UNCHANGED <<todo, waiting, left>> /\ toBrowser' = Append(toBrowser, c)
  BY DEF OnPaused
<1>4. c \in Commands /\ c[1] \in Resolving /\ c[2] = r
      /\ (c[1] = "continueRequest" => ~IsWrite(r))
  BY <1>2 DEF Commands, Resolving
<1>5. c[1] # "disarm" /\ c[1] # "release"
  OBVIOUS
<1>6. IsWrite(r) => c = <<"failRequest", r>>
  OBVIOUS
<1> HIDE DEF c
<1>7. DriverInv' /\ (BeforeDisarm' <=> BeforeDisarm) /\ Step' = Step
  BY <1>3, DriverSame DEF CaptureInv
<1>8. CaptureTypeOK'
  BY <1>1, <1>2, <1>3, <1>7, OnPausedTypes DEF CaptureInv, CaptureTypeOK
<1>9. /\ toBrowser' \in Seq(Commands) /\ Len(toBrowser) \in Nat /\ Len(toBrowser') = Len(toBrowser) + 1
      /\ \A i \in 1..Len(toBrowser) : toBrowser'[i] = toBrowser[i]
      /\ toBrowser'[Len(toBrowser) + 1] = c
  BY <1>3, <1>4, AppendProperties DEF CaptureInv, WiresInv
<1>10. \A i \in 1..Len(toBrowser') : i \in 1..Len(toBrowser) \/ i = Len(toBrowser) + 1
  BY <1>9
<1>11. TookAtMostOne
  BY <1>1 DEF TookAtMostOne
<1>12. WiresInv'
  <2>1. ASSUME NEW i \in 1..Len(toBrowser')
        PROVE  LET m == toBrowser'[i] IN
               IF m[1] \in Resolving
               THEN m[1] = "continueRequest" => ~IsWrite(m[2])
               ELSE m[2] <= lastId' /\ (waiting' = "reply" /\ m[2] = lastId' => m[1] = Step')
    <3>1. CASE i = Len(toBrowser) + 1
      BY <1>4, <1>9, <3>1
    <3>2. CASE i \in 1..Len(toBrowser)
      BY <1>1, <1>3, <1>7, <1>9, <3>2 DEF CaptureInv, WiresInv
    <3> QED BY <1>10, <3>1, <3>2
  <2>2. ASSUME NEW i \in 1..Len(toTool')
        PROVE  LET m == toTool'[i] IN
               IF m[1] = "paused" THEN status'[m[2]] # "none" ELSE m[2] <= lastId'
    <3>1. PICK j \in 1..Len(toTool) : toTool'[i] = toTool[j]
      BY <1>11, StillUnderWay DEF CaptureInv
    <3> QED BY <1>1, <3>1 DEF CaptureInv, WiresInv
  <2>3. toTool' \in Seq(Messages)
    BY <1>11, StillUnderWay DEF CaptureInv
  <2> QED BY <1>9, <2>1, <2>2, <2>3 DEF WiresInv
<1>13. ArmedInv'
  <2>1. BeforeDisarm' =>
          /\ \A i \in 1..Len(toBrowser') : toBrowser'[i][1] # "disarm"
          /\ clicked' /\ alive' => fetchOn'
    BY <1>1, <1>5, <1>7, <1>9, <1>10 DEF CaptureInv, ArmedInv
  <2>2. BeforeDisarm' /\ alive' /\ (\E i \in 1..Len(toBrowser') : toBrowser'[i][1] = "release") => fetchOn'
    BY <1>1, <1>5, <1>7, <1>9, <1>10 DEF CaptureInv, ArmedInv
  <2>3. armed' /\ alive' => fetchOn'
    BY <1>1 DEF CaptureInv, ArmedInv
  <2>4. ASSUME BeforeDisarm', NEW i \in 1..Len(toTool')
        PROVE  LET m == toTool'[i] IN
               m[1] = "paused" /\ IsWrite(m[2]) => status'[m[2]] \in {"paused", "aborted"}
    <3>1. PICK j \in 1..Len(toTool) : toTool'[i] = toTool[j]
      BY <1>11, StillUnderWay DEF CaptureInv
    <3> QED BY <1>1, <1>7, <2>4, <3>1 DEF CaptureInv, ArmedInv
  <2>5. ASSUME NEW i \in 1..Len(toTool')
        PROVE  LET m == toTool'[i] IN
               waiting' = "reply" /\ Step' = "arm" /\ m[1] = "reply" /\ m[2] = lastId'
                 /\ m[3] = "ok" /\ alive' => fetchOn'
    <3>1. PICK j \in 1..Len(toTool) : toTool'[i] = toTool[j]
      BY <1>11, StillUnderWay DEF CaptureInv
    <3> QED BY <1>1, <1>3, <1>7, <3>1 DEF CaptureInv, ArmedInv
  <2> QED BY <2>1, <2>2, <2>3, <2>4, <2>5 DEF ArmedInv
<1>14. HeardInv'
  <2>1. heard' = IF armed /\ IsWrite(r) THEN heard \cup {r} ELSE heard
    BY DEF OnPaused
  <2>2. ASSUME NEW q \in heard, status[q] # "aborted"
        PROVE  /\ Paused(q)
               /\ \E i \in 1..Len(toBrowser') :
                    /\ toBrowser'[i] = <<"failRequest", q>>
                    /\ \A j \in 1..i : toBrowser'[j][1] # "disarm"
    <3>1. PICK i \in 1..Len(toBrowser) :
              /\ toBrowser[i] = <<"failRequest", q>>
              /\ \A j \in 1..i : toBrowser[j][1] # "disarm"
      BY <2>2 DEF CaptureInv, HeardInv
    <3>2. 1..i \subseteq 1..Len(toBrowser) /\ i \in 1..Len(toBrowser')
      BY <1>9
    <3>3. toBrowser'[i] = <<"failRequest", q>> /\ \A j \in 1..i : toBrowser'[j][1] # "disarm"
      BY <1>9, <3>1, <3>2
    <3> QED BY <2>2, <3>2, <3>3 DEF CaptureInv, HeardInv
  <2>3. ASSUME armed, IsWrite(r), status[r] # "aborted"
        PROVE  /\ Paused(r)
               /\ \E i \in 1..Len(toBrowser') :
                    /\ toBrowser'[i] = <<"failRequest", r>>
                    /\ \A j \in 1..i : toBrowser'[j][1] # "disarm"
    <3>1. BeforeDisarm
      BY <2>3 DEF CaptureInv, DriverInv
    <3>2. \A j \in 1..(Len(toBrowser) + 1) : toBrowser'[j][1] # "disarm"
      BY <1>5, <1>9, <1>10, <3>1 DEF CaptureInv, ArmedInv
    <3>3. Len(toBrowser) + 1 \in 1..Len(toBrowser') /\ toBrowser'[Len(toBrowser) + 1] = <<"failRequest", r>>
      BY <1>6, <1>9, <2>3
    <3> QED BY <1>2, <2>3, <3>2, <3>3 DEF Paused
  <2>4. ~alive' => \A q \in Requests : ~Paused(q)'
    BY <1>1 DEF CaptureInv, HeardInv, Paused
  <2> HIDE DEF r
  <2>5. ASSUME NEW q \in heard', status'[q] # "aborted"
        PROVE  /\ Paused(q)'
               /\ \E i \in 1..Len(toBrowser') :
                    /\ toBrowser'[i] = <<"failRequest", q>>
                    /\ \A j \in 1..i : toBrowser'[j][1] # "disarm"
    <3>1. status[q] # "aborted" /\ (Paused(q)' <=> Paused(q))
      BY <1>1, <2>5 DEF Paused
    <3>2. CASE q \in heard
      BY <2>2, <3>1, <3>2
    <3>3. CASE armed /\ IsWrite(r) /\ q = r
      BY <2>3, <3>1, <3>3
    <3> QED BY <2>1, <3>2, <3>3
  <2> QED BY <2>4, <2>5 DEF HeardInv, Paused
<1> QED BY <1>7, <1>8, <1>12, <1>13, <1>14 DEF CaptureInv

LEMMA TakeStep ==
  ASSUME CaptureInv, Take
  PROVE  CaptureInv'
<1> DEFINE m == Head(toTool)
           mine == m[1] = "reply" /\ waiting = "reply" /\ m[2] = lastId
<1>1. CASE /\ mine /\ Answered(m[3])
           /\ armed' = (armed \/ (Step = "arm" /\ m[3] = "ok"))
           /\ UNCHANGED <<captured, heard, toBrowser>>
  BY <1>1, TakeReplyStep
<1>2. CASE m[1] = "paused" /\ OnPaused(m[2]) /\ UNCHANGED armed
  BY <1>2, TakePauseStep, TakePauseDeadStep
<1>3. CASE UNCHANGED <<todo, waiting, left, armed, captured, heard, toBrowser>>
  BY <1>3, TakeNothingStep
<1> QED BY <1>1, <1>2, <1>3 DEF Take

-----------------------------------------------------------------------------
(* The steps of the browser. *)

\* They leave the tool alone.
LEMMA ToolSame ==
  ASSUME CaptureInv, UNCHANGED tool
  PROVE  /\ DriverInv' /\ (BeforeDisarm' <=> BeforeDisarm) /\ Step' = Step
         /\ UNCHANGED <<todo, waiting, left, budget, lastId, armed, captured, exit, heard>>
<1>1. UNCHANGED <<todo, waiting, left, budget, lastId, armed, captured, exit, heard>>
  BY DEF tool
<1> QED BY <1>1, DriverSame DEF CaptureInv

\* A request leaves a state for a later one.
Onward ==
  /\ status' \in [Requests -> {"none", "paused", "sent", "aborted"}]
  /\ \A r \in Requests : status[r] # "none" => status'[r] # "none"

LEMMA BrowserTypes ==
  ASSUME CaptureInv, UNCHANGED tool, Onward
  PROVE  CaptureTypeOK'
<1>1. UNCHANGED <<todo, waiting, left, budget, lastId, armed, captured, exit, heard>>
  BY ToolSame
<1>2. \A r \in captured' : status'[r] # "none"
  BY <1>1 DEF Onward, CaptureInv, CaptureTypeOK
<1>3. Idle' => todo' # <<>>
  BY <1>1 DEF CaptureInv, CaptureTypeOK, Idle
<1> QED BY <1>1, <1>2, <1>3 DEF CaptureInv, CaptureTypeOK, Onward

\* A command is taken off the wire.
LEMMA CommandTaken ==
  ASSUME CaptureInv, UNCHANGED tool, toBrowser # <<>>, toBrowser' = Tail(toBrowser)
  PROVE  /\ toBrowser' \in Seq(Commands)
         /\ \A i \in 1..Len(toBrowser') : i + 1 \in 1..Len(toBrowser) /\ toBrowser'[i] = toBrowser[i + 1]
         /\ Head(toBrowser) \in Commands /\ Head(toBrowser) = toBrowser[1] /\ 1 \in 1..Len(toBrowser)
         /\ \A i \in 1..Len(toBrowser') :
              LET m == toBrowser'[i] IN
              IF m[1] \in Resolving
              THEN m[1] = "continueRequest" => ~IsWrite(m[2])
              ELSE m[2] <= lastId' /\ (waiting' = "reply" /\ m[2] = lastId' => m[1] = Step')
<1>1. /\ toBrowser' \in Seq(Commands)
      /\ \A i \in 1..Len(toBrowser') : i + 1 \in 1..Len(toBrowser) /\ toBrowser'[i] = toBrowser[i + 1]
      /\ Head(toBrowser) \in Commands /\ Head(toBrowser) = toBrowser[1] /\ 1 \in 1..Len(toBrowser)
  BY HeadTailWire DEF CaptureInv, WiresInv
<1> QED BY <1>1, ToolSame DEF CaptureInv, WiresInv

\* An abort under way is still under way when another command was taken.
LEMMA AbortUnderWay ==
  ASSUME CaptureInv, UNCHANGED tool, toBrowser # <<>>, toBrowser' = Tail(toBrowser),
         NEW r \in heard, Paused(r), Head(toBrowser) # <<"failRequest", r>>
  PROVE  /\ Head(toBrowser)[1] # "disarm"
         /\ \E i \in 1..Len(toBrowser') :
               /\ toBrowser'[i] = <<"failRequest", r>>
               /\ \A j \in 1..i : toBrowser'[j][1] # "disarm"
<1>1. PICK i \in 1..Len(toBrowser) :
              /\ toBrowser[i] = <<"failRequest", r>>
              /\ \A j \in 1..i : toBrowser[j][1] # "disarm"
  BY DEF CaptureInv, HeardInv, Paused
<1>2. /\ Len(toBrowser) \in Nat /\ Len(toBrowser') = Len(toBrowser) - 1
      /\ \A k \in 1..Len(toBrowser') : toBrowser'[k] = toBrowser[k + 1]
  BY HeadTailProperties DEF CaptureInv, WiresInv
<1>3. Head(toBrowser) = toBrowser[1] /\ 1 \in 1..Len(toBrowser)
  BY CommandTaken
<1>4. i # 1
  BY <1>1, <1>3
<1>5. 1 \in 1..i /\ i - 1 \in 1..Len(toBrowser')
  BY <1>2, <1>4
<1>6. toBrowser'[i - 1] = <<"failRequest", r>>
  BY <1>1, <1>2, <1>5
<1>7. ASSUME NEW j \in 1..(i - 1)
      PROVE  toBrowser'[j][1] # "disarm"
  <2>1. j \in 1..Len(toBrowser') /\ j + 1 \in 1..i
    BY <1>2, <1>5
  <2> QED BY <1>1, <1>2, <2>1
<1> QED BY <1>1, <1>3, <1>5, <1>6, <1>7

LEMMA ResolveStep ==
  ASSUME CaptureInv, Resolve
  PROVE  CaptureInv' /\ (\A r \in Requests : IsWrite(r) /\ status[r] # "sent" => status'[r] # "sent")
<1> DEFINE m == Head(toBrowser)
<1>1. /\ alive /\ toBrowser # <<>> /\ toBrowser' = Tail(toBrowser) /\ m[1] \in Resolving
      /\ UNCHANGED <<tool, toTool, fetchOn, alive, clicked>>
  BY DEF Resolve, Resolving
<1>2. m \in Commands /\ m = toBrowser[1] /\ 1 \in 1..Len(toBrowser)
  BY <1>1, CommandTaken
<1>3. m[2] \in Requests /\ m = <<m[1], m[2]>>
  BY <1>1, <1>2 DEF Commands, Resolving, Steps
<1>4. m[1] = "continueRequest" => ~IsWrite(m[2])
  BY <1>1, <1>2 DEF CaptureInv, WiresInv
<1>5. status \in [Requests -> {"none", "paused", "sent", "aborted"}]
  BY DEF CaptureInv, CaptureTypeOK
<1>6. ASSUME NEW r \in Requests
      PROVE  /\ status'[r] \in {"none", "paused", "sent", "aborted"}
             /\ status[r] # "none" => status'[r] # "none"
             /\ ~IsWrite(r) \/ status'[r] = status[r] \/ (Paused(r) /\ status'[r] = "aborted")
             /\ status'[r] = "paused" => status[r] = "paused" /\ m # <<"failRequest", r>>
  <2>1. CASE m[1] = "failRequest" /\ status' = [status EXCEPT ![m[2]] = IF Paused(m[2]) THEN "aborted" ELSE @]
    BY <1>3, <1>5, <2>1 DEF Paused
  <2>2. CASE m[1] = "continueRequest" /\ status' = Release({m[2]})
    BY <1>4, <1>5, <2>2 DEF Paused, Release
  <2> QED BY <2>1, <2>2 DEF Resolve
<1>7. Onward
  <2>1. status' = [r \in Requests |-> status'[r]]
    BY <1>3, <1>5 DEF Resolve, Release
  <2> QED BY <1>6, <2>1 DEF Onward
<1>8. CaptureTypeOK'
  BY <1>1, <1>7, BrowserTypes
<1> HIDE DEF m
<1>9. WiresInv'
  <2>1. ASSUME NEW i \in 1..Len(toTool')
        PROVE  LET n == toTool'[i] IN
               IF n[1] = "paused" THEN status'[n[2]] # "none" ELSE n[2] <= lastId'
    <3>1. toTool[i] \in Messages /\ toTool'[i] = toTool[i] /\ i \in 1..Len(toTool)
      BY <1>1, WireTypes DEF CaptureInv
    <3>2. toTool[i][1] = "paused" => toTool[i][2] \in Requests /\ status[toTool[i][2]] # "none"
      BY <3>1 DEF CaptureInv, WiresInv, Messages
    <3>3. toTool[i][1] # "paused" => toTool[i][2] <= lastId
      BY <3>1 DEF CaptureInv, WiresInv
    <3> QED BY <1>1, <1>6, <3>1, <3>2, <3>3, ToolSame
  <2> QED BY <1>1, <2>1, CommandTaken DEF CaptureInv, WiresInv
<1>10. ArmedInv'
  <2>1. BeforeDisarm' <=> BeforeDisarm
    BY <1>1, ToolSame
  <2>2. \A i \in 1..Len(toBrowser') : \E j \in 1..Len(toBrowser) : toBrowser'[i] = toBrowser[j]
    BY <1>1, CommandTaken
  <2>3. BeforeDisarm' =>
          /\ \A i \in 1..Len(toBrowser') : toBrowser'[i][1] # "disarm"
          /\ clicked' /\ alive' => fetchOn'
          /\ alive' /\ (\E i \in 1..Len(toBrowser') : toBrowser'[i][1] = "release") => fetchOn'
    BY <1>1, <2>1, <2>2 DEF CaptureInv, ArmedInv
  <2>4. ASSUME BeforeDisarm', NEW i \in 1..Len(toTool'),
               toTool'[i][1] = "paused", IsWrite(toTool'[i][2])
        PROVE  status'[toTool'[i][2]] \in {"paused", "aborted"}
    <3>1. toTool[i] \in Messages /\ toTool'[i] = toTool[i] /\ i \in 1..Len(toTool)
      BY <1>1, WireTypes DEF CaptureInv
    <3>2. toTool[i][2] \in Requests
      BY <2>4, <3>1 DEF Messages
    <3>3. status[toTool[i][2]] \in {"paused", "aborted"}
      BY <2>1, <2>4, <3>1 DEF CaptureInv, ArmedInv
    <3> QED BY <1>6, <2>4, <3>1, <3>2, <3>3
  <2>5. armed' /\ alive' => fetchOn'
    BY <1>1, ToolSame DEF CaptureInv, ArmedInv
  <2>6. ASSUME NEW i \in 1..Len(toTool')
        PROVE  LET n == toTool'[i] IN
               waiting' = "reply" /\ Step' = "arm" /\ n[1] = "reply" /\ n[2] = lastId'
                 /\ n[3] = "ok" /\ alive' => fetchOn'
    BY <1>1, ToolSame DEF CaptureInv, ArmedInv
  <2> QED BY <2>3, <2>4, <2>5, <2>6 DEF ArmedInv
<1>11. HeardInv'
  <2>1. ASSUME NEW r \in heard', status'[r] # "aborted"
        PROVE  /\ Paused(r)'
               /\ \E i \in 1..Len(toBrowser') :
                    /\ toBrowser'[i] = <<"failRequest", r>>
                    /\ \A j \in 1..i : toBrowser'[j][1] # "disarm"
    <3>1. r \in heard /\ r \in Requests /\ IsWrite(r)
      BY <1>1, ToolSame DEF CaptureInv, CaptureTypeOK
    <3>2. status'[r] = status[r] /\ Paused(r)
      BY <1>6, <2>1, <3>1 DEF CaptureInv, HeardInv
    <3>3. m # <<"failRequest", r>>
      BY <1>6, <3>1, <3>2 DEF Paused
    <3> QED BY <1>1, <3>1, <3>2, <3>3, AbortUnderWay DEF Paused, m
  <2> QED BY <1>1, <2>1 DEF HeardInv, Paused
<1> QED BY <1>1, <1>6, <1>8, <1>9, <1>10, <1>11, ToolSame DEF CaptureInv, Paused

LEMMA ArmingIsBefore ==
  ASSUME DriverInv, Step = "arm"
  PROVE  BeforeDisarm
<1>1. /\ todo \in Seq(Steps) /\ todo # <<>> /\ Len(todo) \in Nat /\ Len(todo) >= 1
      /\ \A i \in 1..Len(todo) : (todo[i] = "judge" <=> i = Len(todo)) /\ (todo[i] = "disarm" <=> i = Len(todo) - 1)
  BY DEF DriverInv, WellFormed
<1>2. todo[1] = "arm" /\ 1 \in 1..Len(todo)
  BY <1>1 DEF Step
<1>3. (todo[1] = "judge" <=> 1 = Len(todo)) /\ (todo[1] = "disarm" <=> 1 = Len(todo) - 1)
  BY <1>1, <1>2
<1> QED BY <1>1, <1>2, <1>3 DEF BeforeDisarm

LEMMA DisarmedRest ==
  ASSUME DriverInv, ~BeforeDisarm
  PROVE  ToSet(todo) \subseteq {"disarm", "judge"}
<1>1. /\ todo \in Seq(Steps) /\ Len(todo) \in Nat /\ Len(todo) >= 1
      /\ \A i \in 1..Len(todo) : (todo[i] = "judge" <=> i = Len(todo)) /\ (todo[i] = "disarm" <=> i = Len(todo) - 1)
  BY DEF DriverInv, WellFormed
<1>2. ~(Len(todo) >= 3)
  BY DEF BeforeDisarm
<1> DEFINE n == Len(todo)
<1>3. \A i \in 1..n : i = n \/ i = n - 1
  <2>1. n \in Nat /\ ~(n >= 3)
    BY <1>1, <1>2
  <2> HIDE DEF n
  <2> QED BY <2>1
<1>4. \A i \in DOMAIN todo : todo[i] \in {"disarm", "judge"}
  BY <1>1, <1>3
<1> QED BY <1>4 DEF ToSet

\* What a step may do to the writes that have not reached LinkedIn.
HeldStep ==
  \A r \in Requests :
     IsWrite(r) /\ status[r] # "sent" /\ status'[r] = "sent" =>
       ~armed /\ (r.act => ToSet(todo) \subseteq {"disarm", "judge"})

LEMMA ExecuteStep ==
  ASSUME CaptureInv, Execute
  PROVE  CaptureInv' /\ HeldStep
<1> DEFINE m == Head(toBrowser)
<1>1. PICK verdict \in {"ok", "error", "absent"} :
        /\ toTool' = Append(toTool, <<"reply", m[2], verdict>>)
        /\ fetchOn' = IF verdict # "ok" THEN fetchOn
                      ELSE (fetchOn \/ m[1] = "arm") /\ m[1] # "disarm"
        /\ clicked' = (clicked \/ (m[1] = "release" /\ verdict = "ok"))
        /\ status' = IF m[1] = "disarm" /\ verdict = "ok" THEN Release(Requests) ELSE status
  BY DEF Execute
<1>2. /\ alive /\ toBrowser # <<>> /\ toBrowser' = Tail(toBrowser) /\ m[1] \notin Resolving
      /\ UNCHANGED <<tool, alive>>
  BY DEF Execute, Resolving
<1>3. m \in Commands /\ m = toBrowser[1] /\ 1 \in 1..Len(toBrowser)
  BY <1>2, CommandTaken
<1>4. m[2] \in Nat /\ m[2] <= lastId /\ (waiting = "reply" /\ m[2] = lastId => m[1] = Step)
  BY <1>2, <1>3 DEF CaptureInv, WiresInv, Commands
<1>5. BeforeDisarm => m[1] # "disarm"
  BY <1>3 DEF CaptureInv, ArmedInv
<1>6. \A r : m # <<"failRequest", r>>
  BY <1>2 DEF Resolving
<1>7. <<"reply", m[2], verdict>> \in Messages
  BY <1>4 DEF Messages
<1> HIDE DEF m
<1>8. /\ toTool' \in Seq(Messages) /\ Len(toTool) \in Nat /\ Len(toTool') = Len(toTool) + 1
      /\ \A i \in 1..Len(toTool) : toTool'[i] = toTool[i]
      /\ toTool'[Len(toTool) + 1] = <<"reply", m[2], verdict>>
      /\ \A i \in 1..Len(toTool') : i \in 1..Len(toTool) \/ i = Len(toTool) + 1
  <2>1. toTool \in Seq(Messages) /\ Len(toTool) \in Nat
    BY WireTypes DEF CaptureInv, WiresInv
  <2>2. Len(toTool') = Len(toTool) + 1
    BY <1>1, <1>7, <2>1, AppendProperties
  <2> QED BY <1>1, <1>7, <2>1, <2>2, AppendProperties
<1>9. status \in [Requests -> {"none", "paused", "sent", "aborted"}]
  BY DEF CaptureInv, CaptureTypeOK
<1>10. ASSUME NEW r \in Requests
       PROVE  /\ status'[r] \in {"none", "paused", "sent", "aborted"}
              /\ status[r] # "none" => status'[r] # "none"
              /\ status'[r] = status[r] \/ (Paused(r) /\ m[1] = "disarm")
  BY <1>1, <1>9 DEF Paused, Release
<1>11. Onward
  <2>1. status' = [r \in Requests |-> status'[r]]
    BY <1>1, <1>9 DEF Release
  <2> QED BY <1>10, <2>1 DEF Onward
<1>12. CaptureTypeOK'
  BY <1>2, <1>11, BrowserTypes
<1>13. UNCHANGED <<lastId, waiting, heard, armed>> /\ Step' = Step /\ (BeforeDisarm' <=> BeforeDisarm)
  BY <1>2, ToolSame
<1>14. WiresInv'
  <2>1. ASSUME NEW i \in 1..Len(toTool')
        PROVE  LET n == toTool'[i] IN
               IF n[1] = "paused" THEN status'[n[2]] # "none" ELSE n[2] <= lastId'
    <3>1. CASE i = Len(toTool) + 1
      BY <1>4, <1>8, <1>13, <3>1
    <3>2. CASE i \in 1..Len(toTool)
      <4>1. toTool[i] \in Messages /\ toTool'[i] = toTool[i]
        BY <1>8, <3>2, WireTypes DEF CaptureInv
      <4>2. toTool[i][1] = "paused" => toTool[i][2] \in Requests /\ status[toTool[i][2]] # "none"
        BY <3>2, <4>1 DEF CaptureInv, WiresInv, Messages
      <4>3. toTool[i][1] # "paused" => toTool[i][2] <= lastId
        BY <3>2 DEF CaptureInv, WiresInv
      <4> QED BY <1>10, <1>13, <4>1, <4>2, <4>3
    <3> QED BY <1>8, <3>1, <3>2
  <2> QED BY <1>2, <1>8, <2>1, CommandTaken DEF WiresInv
<1>15. ArmedInv'
  <2>1. \A i \in 1..Len(toBrowser') : \E j \in 1..Len(toBrowser) : toBrowser'[i] = toBrowser[j]
    BY <1>2, CommandTaken
  <2>2. BeforeDisarm /\ fetchOn => fetchOn'
    BY <1>1, <1>5
  <2>3. BeforeDisarm' => \A i \in 1..Len(toBrowser') : toBrowser'[i][1] # "disarm"
    BY <1>13, <2>1 DEF CaptureInv, ArmedInv
  <2>4. BeforeDisarm' /\ (\E i \in 1..Len(toBrowser') : toBrowser'[i][1] = "release") => fetchOn'
    BY <1>2, <1>13, <2>1, <2>2 DEF CaptureInv, ArmedInv
  <2>5. BeforeDisarm' /\ clicked' => fetchOn'
    BY <1>1, <1>2, <1>3, <1>13, <2>2 DEF CaptureInv, ArmedInv
  <2>6. armed' => fetchOn'
    BY <1>2, <1>13, <2>2 DEF CaptureInv, ArmedInv, DriverInv
  <2>7. ASSUME BeforeDisarm', NEW i \in 1..Len(toTool'),
               toTool'[i][1] = "paused", IsWrite(toTool'[i][2])
        PROVE  status'[toTool'[i][2]] \in {"paused", "aborted"}
    <3>1. i \in 1..Len(toTool) /\ toTool'[i] = toTool[i]
      BY <1>8, <2>7
    <3>2. status' = status
      BY <1>1, <1>5, <1>13, <2>7
    <3> QED BY <1>13, <2>7, <3>1, <3>2 DEF CaptureInv, ArmedInv
  <2>8. ASSUME NEW i \in 1..Len(toTool'), waiting' = "reply", Step' = "arm",
               toTool'[i][1] = "reply", toTool'[i][2] = lastId', toTool'[i][3] = "ok"
        PROVE  fetchOn'
    <3>1. BeforeDisarm
      BY <1>13, <2>8, ArmingIsBefore DEF CaptureInv
    <3>2. CASE i = Len(toTool) + 1
      <4>1. m[2] = lastId /\ verdict = "ok"
        BY <1>8, <1>13, <2>8, <3>2
      <4>2. m[1] = "arm"
        BY <1>4, <1>13, <2>8, <4>1
      <4> QED BY <1>1, <4>1, <4>2
    <3>3. CASE i \in 1..Len(toTool)
      <4>1. toTool'[i] = toTool[i]
        BY <1>8, <3>3
      <4>2. fetchOn
        BY <1>2, <1>13, <2>8, <3>3, <4>1 DEF CaptureInv, ArmedInv
      <4> QED BY <2>2, <3>1, <4>2
    <3> QED BY <1>8, <3>2, <3>3
  <2> QED BY <2>3, <2>4, <2>5, <2>6, <2>7, <2>8 DEF ArmedInv
<1>16. HeardInv'
  <2>1. ASSUME NEW r \in heard', status'[r] # "aborted"
        PROVE  /\ Paused(r)'
               /\ \E i \in 1..Len(toBrowser') :
                    /\ toBrowser'[i] = <<"failRequest", r>>
                    /\ \A j \in 1..i : toBrowser'[j][1] # "disarm"
    <3>1. r \in heard /\ r \in Requests
      BY <1>13 DEF CaptureInv, CaptureTypeOK
    <3>2. Paused(r)
      BY <1>10, <2>1, <3>1 DEF CaptureInv, HeardInv
    <3>3. m[1] # "disarm" /\ \E i \in 1..Len(toBrowser') :
                    /\ toBrowser'[i] = <<"failRequest", r>>
                    /\ \A j \in 1..i : toBrowser'[j][1] # "disarm"
      BY <1>2, <1>6, <3>1, <3>2, AbortUnderWay DEF m
    <3> QED BY <1>10, <3>1, <3>2, <3>3 DEF Paused
  <2> QED BY <1>2, <2>1 DEF HeardInv, Paused
<1>17. HeldStep
  <2>1. ASSUME NEW r \in Requests, status[r] # "sent", status'[r] = "sent"
        PROVE  ~BeforeDisarm
    BY <1>5, <1>10, <2>1
  <2> QED BY <2>1, DisarmedRest DEF HeldStep, CaptureInv, DriverInv
<1> QED BY <1>2, <1>12, <1>14, <1>15, <1>16, <1>17, ToolSame DEF CaptureInv

LEMMA RequestTypes ==
  ASSUME CaptureInv, NEW r \in Requests, NEW how \in {"paused", "sent"},
         status' = [status EXCEPT ![r] = how]
  PROVE  /\ Onward /\ status'[r] = how
         /\ \A q \in Requests : q # r => status'[q] = status[q]
BY DEF CaptureInv, CaptureTypeOK, Onward

\* A request that is there already is not the one issued.
LEMMA OthersKept ==
  ASSUME CaptureInv, UNCHANGED <<tool, toBrowser, fetchOn, alive, clicked>>,
         NEW r \in Requests, status[r] = "none", Onward,
         status'[r] \in {"paused", "sent"}, alive,
         \A q \in Requests : q # r => status'[q] = status[q]
  PROVE  HeardInv'
<1>1. UNCHANGED heard
  BY DEF tool
<1>2. \A q \in heard : q \in Requests /\ q # r
  BY DEF CaptureInv, CaptureTypeOK
<1>3. \A q \in heard : status'[q] = status[q]
  BY <1>2
<1> QED BY <1>1, <1>3 DEF CaptureInv, HeardInv, Paused

LEMMA RequestStep ==
  ASSUME CaptureInv, Request
  PROVE  /\ CaptureInv'
         /\ {"voyager", "linkedin"} \subseteq PATTERNS => HeldStep
<1>1. PICK r \in Requests :
        /\ status[r] = "none"
        /\ r.act => clicked
        /\ IF fetchOn /\ Matched(r)
           THEN /\ status' = [status EXCEPT ![r] = "paused"]
                /\ toTool' = Append(toTool, <<"paused", r>>)
           ELSE /\ status' = [status EXCEPT ![r] = "sent"]
                /\ UNCHANGED toTool
  BY DEF Request
<1>2. alive /\ UNCHANGED <<tool, toBrowser, fetchOn, alive, clicked>>
  BY DEF Request
<1>3. /\ Onward /\ status'[r] \in {"paused", "sent"}
      /\ \A q \in Requests : q # r => status'[q] = status[q]
  BY <1>1, RequestTypes
<1>4. CaptureTypeOK' /\ HeardInv'
  BY <1>1, <1>2, <1>3, BrowserTypes, OthersKept
<1>5. UNCHANGED <<lastId, waiting, heard, armed>> /\ Step' = Step /\ (BeforeDisarm' <=> BeforeDisarm)
  BY <1>2, ToolSame
<1>6. /\ toTool' \in Seq(Messages)
      /\ \A i \in 1..Len(toTool') :
           \/ i \in 1..Len(toTool) /\ toTool'[i] = toTool[i]
           \/ toTool'[i] = <<"paused", r>> /\ status'[r] = "paused"
  <2>1. CASE fetchOn /\ Matched(r)
    <3>1. <<"paused", r>> \in Messages /\ toTool \in Seq(Messages) /\ Len(toTool) \in Nat
      BY WireTypes DEF Messages, CaptureInv, WiresInv
    <3>2. /\ toTool' \in Seq(Messages) /\ Len(toTool') = Len(toTool) + 1
          /\ \A i \in 1..Len(toTool) : toTool'[i] = toTool[i]
          /\ toTool'[Len(toTool) + 1] = <<"paused", r>>
      <4>1. toTool' = Append(toTool, <<"paused", r>>)
        BY <1>1, <2>1
      <4> QED BY <3>1, <4>1, AppendProperties
    <3>3. \A i \in 1..Len(toTool') : i \in 1..Len(toTool) \/ i = Len(toTool) + 1
      BY <3>1, <3>2
    <3>4. status'[r] = "paused"
      BY <1>1, <2>1 DEF CaptureInv, CaptureTypeOK
    <3> QED BY <3>2, <3>3, <3>4
  <2>2. CASE ~(fetchOn /\ Matched(r))
    BY <1>1, <2>2 DEF CaptureInv, WiresInv
  <2> QED BY <2>1, <2>2
<1>7. ASSUME NEW i \in 1..Len(toTool'), toTool'[i][1] = "paused"
      PROVE  /\ status'[toTool'[i][2]] # "none"
             /\ BeforeDisarm' /\ IsWrite(toTool'[i][2]) => status'[toTool'[i][2]] \in {"paused", "aborted"}
  <2>1. CASE i \in 1..Len(toTool) /\ toTool'[i] = toTool[i]
    <3>1. toTool[i][2] \in Requests /\ status[toTool[i][2]] # "none"
      BY <1>7, <2>1, WireTypes DEF CaptureInv, WiresInv, Messages
    <3>2. status'[toTool[i][2]] = status[toTool[i][2]]
      BY <1>1, <1>3, <3>1
    <3>3. BeforeDisarm /\ IsWrite(toTool[i][2]) => status[toTool[i][2]] \in {"paused", "aborted"}
      BY <1>7, <2>1 DEF CaptureInv, ArmedInv
    <3> QED BY <1>5, <2>1, <3>1, <3>2, <3>3
  <2>2. CASE toTool'[i] = <<"paused", r>> /\ status'[r] = "paused"
    BY <2>2
  <2> QED BY <1>6, <2>1, <2>2
<1>8. ASSUME NEW i \in 1..Len(toTool'), toTool'[i][1] # "paused"
      PROVE  i \in 1..Len(toTool) /\ toTool'[i] = toTool[i]
  BY <1>6, <1>8
<1>9. WiresInv'
  <2>1. ASSUME NEW i \in 1..Len(toTool')
        PROVE  LET n == toTool'[i] IN
               IF n[1] = "paused" THEN status'[n[2]] # "none" ELSE n[2] <= lastId'
    <3>1. toTool'[i][1] # "paused" => toTool'[i][2] <= lastId'
      BY <1>5, <1>8 DEF CaptureInv, WiresInv
    <3> QED BY <1>7, <3>1
  <2> QED BY <1>2, <1>5, <1>6, <2>1 DEF CaptureInv, WiresInv
<1>10. ArmedInv'
  <2>1. /\ BeforeDisarm' => /\ \A i \in 1..Len(toBrowser') : toBrowser'[i][1] # "disarm"
                            /\ clicked' /\ alive' => fetchOn'
                            /\ alive' /\ (\E i \in 1..Len(toBrowser') : toBrowser'[i][1] = "release") => fetchOn'
        /\ armed' /\ alive' => fetchOn'
    BY <1>2, <1>5 DEF CaptureInv, ArmedInv
  <2>2. ASSUME NEW i \in 1..Len(toTool'), waiting' = "reply", Step' = "arm",
               toTool'[i][1] = "reply", toTool'[i][2] = lastId', toTool'[i][3] = "ok"
        PROVE  fetchOn'
    BY <1>2, <1>5, <1>8, <2>2 DEF CaptureInv, ArmedInv
  <2> QED BY <1>7, <2>1, <2>2 DEF ArmedInv
<1>11. ASSUME {"voyager", "linkedin"} \subseteq PATTERNS
       PROVE  HeldStep
  <2>1. ASSUME NEW q \in Requests, IsWrite(q), status[q] # "sent", status'[q] = "sent"
        PROVE  ~armed /\ (q.act => ToSet(todo) \subseteq {"disarm", "judge"})
    <3>1. q = r /\ Matched(r)
      BY <1>3, <1>11, <2>1 DEF IsWrite, Matched
    <3>2. ~fetchOn
      <4>1. CASE fetchOn
        <5>1. status' = [status EXCEPT ![r] = "paused"]
          BY <1>1, <3>1, <4>1
        <5>2. status'[r] = "paused"
          BY <5>1, RequestTypes
        <5> QED BY <2>1, <3>1, <5>2
      <4> QED BY <4>1
    <3>3. ~armed
      BY <1>2, <3>2 DEF CaptureInv, ArmedInv
    <3>4. q.act => ~BeforeDisarm
      BY <1>1, <1>2, <3>1, <3>2 DEF CaptureInv, ArmedInv
    <3> QED BY <3>3, <3>4, DisarmedRest DEF CaptureInv
  <2> QED BY <2>1 DEF HeldStep
<1> QED BY <1>2, <1>4, <1>9, <1>10, <1>11, ToolSame DEF CaptureInv

LEMMA DieStep ==
  ASSUME CaptureInv, Die
  PROVE  CaptureInv' /\ HeldStep
<1>1. /\ ~alive' /\ toBrowser' = <<>> /\ UNCHANGED <<tool, toTool, clicked>>
      /\ status' = [r \in Requests |-> IF Paused(r) THEN "aborted" ELSE status[r]]
  BY DEF Die
<1>2. ASSUME NEW r \in Requests
      PROVE  /\ status'[r] \in {"none", "paused", "sent", "aborted"} \ {"paused"}
             /\ status[r] # "none" => status'[r] # "none"
             /\ status[r] \in {"paused", "aborted"} => status'[r] = "aborted"
             /\ status'[r] = "sent" => status[r] = "sent"
  BY <1>1 DEF CaptureInv, CaptureTypeOK, Paused
<1>3. Onward
  <2>1. status' = [r \in Requests |-> status'[r]]
    BY <1>1
  <2> QED BY <1>2, <2>1 DEF Onward
<1>4. CaptureTypeOK'
  BY <1>1, <1>3, BrowserTypes
<1>5. UNCHANGED <<lastId, waiting, heard, armed>> /\ Step' = Step /\ (BeforeDisarm' <=> BeforeDisarm)
  BY <1>1, ToolSame
<1>6. toBrowser' \in Seq(Commands) /\ Len(toBrowser') = 0 /\ 1..Len(toBrowser') = {}
  BY <1>1
<1>7. ASSUME NEW i \in 1..Len(toTool'), toTool'[i][1] = "paused"
      PROVE  /\ status'[toTool'[i][2]] # "none"
             /\ BeforeDisarm' /\ IsWrite(toTool'[i][2]) => status'[toTool'[i][2]] \in {"paused", "aborted"}
  <2>1. i \in 1..Len(toTool) /\ toTool'[i] = toTool[i]
    BY <1>1
  <2>2. toTool[i][2] \in Requests /\ status[toTool[i][2]] # "none"
    BY <1>7, <2>1, WireTypes DEF CaptureInv, WiresInv, Messages
  <2>3. BeforeDisarm /\ IsWrite(toTool[i][2]) => status[toTool[i][2]] \in {"paused", "aborted"}
    BY <1>7, <2>1 DEF CaptureInv, ArmedInv
  <2> QED BY <1>2, <1>5, <2>1, <2>2, <2>3
<1>8. WiresInv'
  <2>1. ASSUME NEW i \in 1..Len(toTool')
        PROVE  LET n == toTool'[i] IN
               IF n[1] = "paused" THEN status'[n[2]] # "none" ELSE n[2] <= lastId'
    <3>1. toTool'[i][1] # "paused" => toTool'[i][2] <= lastId'
      BY <1>1, <1>5 DEF CaptureInv, WiresInv
    <3> QED BY <1>7, <3>1
  <2> QED BY <1>1, <1>6, <2>1 DEF CaptureInv, WiresInv
<1>9. ArmedInv'
  BY <1>1, <1>6, <1>7 DEF ArmedInv
<1>10. HeardInv'
  <2>1. \A r \in heard' : status'[r] = "aborted"
    <3>1. ASSUME NEW r \in heard
          PROVE  r \in Requests /\ status[r] \in {"paused", "aborted"}
      BY DEF CaptureInv, CaptureTypeOK, HeardInv, Paused
    <3> QED BY <1>2, <1>5, <3>1
  <2> QED BY <1>2, <2>1 DEF HeardInv, Paused
<1>11. HeldStep
  BY <1>2 DEF HeldStep
<1> QED BY <1>1, <1>4, <1>8, <1>9, <1>10, <1>11, ToolSame DEF CaptureInv

-----------------------------------------------------------------------------
(* The theorems. *)

LEMMA InitCapture == Init => CaptureInv
<1> SUFFICES ASSUME Init PROVE CaptureInv
  OBVIOUS
<1>1. todo \in Flows
  BY DEF Init
<1>2. WellFormed(todo) /\ Len(todo) >= 3 /\ Step = "navigate"
  BY <1>1, FlowsWellFormed DEF Step
<1>3. DriverInv
  BY <1>2 DEF Init, DriverInv
<1>4. toBrowser \in Seq(Commands) /\ toTool \in Seq(Messages) /\ 1..Len(toBrowser) = {} /\ 1..Len(toTool) = {}
  BY DEF Init
<1>5. WiresInv /\ ArmedInv
  BY <1>4 DEF Init, WiresInv, ArmedInv
<1>6. HeardInv
  BY DEF Init, HeardInv
<1>7. todo # <<>>
  BY <1>2 DEF WellFormed
<1>8. CaptureTypeOK
  BY <1>7, CaptureAssumption DEF Init, CaptureTypeOK
<1> QED BY <1>3, <1>5, <1>6, <1>8 DEF CaptureInv

LEMMA QuietHolds ==
  ASSUME UNCHANGED status
  PROVE  HeldStep
BY DEF HeldStep

LEMMA NextCapture ==
  ASSUME CaptureInv, Next
  PROVE  CaptureInv' /\ ({"voyager", "linkedin"} \subseteq PATTERNS => HeldStep)
<1>1. CASE Call
  BY <1>1, CallStep, QuietHolds DEF Call, browser
<1>2. CASE CannotCall
  BY <1>2, CannotCallStep, QuietHolds DEF CannotCall, browser
<1>3. CASE Settle
  BY <1>3, SettleStep, QuietHolds DEF Settle, browser
<1>4. CASE Judge \/ Tick
  BY <1>4, StandStill, QuietHolds DEF Judge, Tick, browser
<1>5. CASE Take
  BY <1>5, TakeStep, QuietHolds DEF Take, browser
<1>6. CASE TimeOut \/ EndOfFile
  BY <1>6, WaitEndsStep, QuietHolds DEF TimeOut, EndOfFile, browser
<1>7. CASE Resolve
  BY <1>7, ResolveStep DEF HeldStep
<1>8. CASE Execute
  BY <1>8, ExecuteStep
<1>9. CASE Request
  BY <1>9, RequestStep
<1>10. CASE Die
  BY <1>10, DieStep
<1> QED BY <1>1, <1>2, <1>3, <1>4, <1>5, <1>6, <1>7, <1>8, <1>9, <1>10 DEF Next, Tool, Chromium

LEMMA StutterCapture ==
  ASSUME CaptureInv, UNCHANGED vars
  PROVE  CaptureInv' /\ HeldStep
<1>1. /\ UNCHANGED <<tool, browser, toBrowser, toTool, status, alive, fetchOn, clicked>>
  BY DEF vars, browser, wires
<1>2. /\ DriverInv' /\ (BeforeDisarm' <=> BeforeDisarm) /\ Step' = Step
      /\ UNCHANGED <<todo, waiting, left, budget, lastId, armed, captured, exit, heard>>
  BY <1>1, ToolSame
<1>3. WiresInv' /\ ArmedInv' /\ HeardInv'
  BY <1>1, <1>2, QuietWires DEF CaptureInv, TookAtMostOne, ArmedInv
<1>4. CaptureTypeOK'
  BY <1>1, <1>2 DEF CaptureInv, CaptureTypeOK, Idle
<1> QED BY <1>1, <1>2, <1>3, <1>4, QuietHolds DEF CaptureInv

\* The invariant is inductive.
THEOREM CaptureInvHolds == Spec => []CaptureInv
<1>1. CaptureInv /\ [Next]_vars => CaptureInv'
  BY NextCapture, StutterCapture
<1> QED BY <1>1, InitCapture, PTL DEF Spec

\* The type invariant: what the tool captured had been paused, and a flow that
\* stands idle has a step left.
THEOREM CaptureTypes == Spec => []CaptureTypeOK
<1>1. CaptureInv => CaptureTypeOK
  BY DEF CaptureInv
<1> QED BY <1>1, CaptureInvHolds, PTL

\* Interceptor._on_paused: a write whose pause was read while armed never
\* reaches LinkedIn, whatever the patterns are.
THEOREM HeardStaysHeld == Spec => []HeardIsHeld
<1>1. CaptureInv => HeardIsHeld
  BY DEF CaptureInv, HeardInv, HeardIsHeld, Paused
<1> QED BY <1>1, CaptureInvHolds, PTL

\* Driver.capture: with patterns that cover every place a write can go to (as
\* PATTERNS does), no write reaches LinkedIn while the tool counts itself as
\* armed, and none that a click caused before it disarms.
THEOREM ArmedHolds ==
  ASSUME {"voyager", "linkedin"} \subseteq PATTERNS
  PROVE  Spec => HeldWhileArmed
<1>1. CaptureInv /\ [Next]_vars => [HeldStep]_vars
  BY NextCapture
<1> QED BY <1>1, CaptureInvHolds, PTL DEF Spec, HeldWhileArmed, HeldStep

=============================================================================
