-------------------------- MODULE ConnectionProofs --------------------------
(***************************************************************************)
(* What holds of the launch and of the connection it returns, for any      *)
(* table of descriptors, any number from which the backups go, and any     *)
(* call that fails; and that the connection is used as Channel says.       *)
(*                                                                         *)
(* None of the three properties is inductive: they speak of the end of a   *)
(* launch, or of the child.  LaunchInv says, for each number of steps that *)
(* are left, what is on 3 and 4, where the four ends are and what the      *)
(* backups hold, and that a descriptor is open for a reason only.  That no *)
(* two of them share a number needs no conjunct of its own: what is on a   *)
(* descriptor tells whose it is.  The one case that does is the end of the *)
(* child on 3 while the other end is seated there, place["child_writes"]   *)
(* # 3, which rests on os.pipe's lower number going to the reading end.    *)
(***************************************************************************)
EXTENDS Connection, ChannelProofs, WellFoundedInduction, FiniteSetTheorems, SequenceTheorems, TLAPS

-----------------------------------------------------------------------------
(* The inductive invariant, by the steps that are left.                    *)

Contents == {L!Closed} \cup {L!Own(f) : f \in Fds} \cup {L!End(end) : end \in L!Ends}
Backups  == [fd : L!Seats, backup : Fds, inheritable : BOOLEAN]
Undoing  == <<<<"undo">>, <<"release">>>>

Left == Len(todo)

\* The steps left are an end of the program, or the handler's.
StepInv ==
  /\ failed \in BOOLEAN
  /\ \/ failed /\ todo = Undoing
     \/ \E k \in 0..10 : todo = SubSeq(L!Program, 11 - k, 10) /\ (failed => k <= 1)

LaunchTypes ==
  /\ table \in [Fds -> Contents]
  /\ before.open \subseteq Fds /\ before.inherits \subseteq L!Seats \cap before.open
  /\ place \in [L!Ends -> Fds \cup {-1}]
  /\ parked \in Seq(Backups)

\* The supervisor's descriptors elsewhere than on 3 and 4.
OwnInv == \A f \in before.open \ L!Seats : table[f] = L!Own(f) /\ f \notin inherits

\* What a backup says and holds.
ParkedInv ==
  \A i \in 1..Len(parked) :
    /\ parked[i].fd \in before.open
    /\ parked[i].backup \notin before.open /\ parked[i].backup >= HIGH_FD
    /\ parked[i].inheritable <=> parked[i].fd \in before.inherits
    /\ Left # 0 => table[parked[i].backup] = L!Own(parked[i].fd)

Kept(f) == f \in before.open \ unparked => \E i \in 1..Len(parked) : parked[i].fd = f

\* 3 and 4: the supervisor's until they are parked, the child's in the end.
SeatsInv ==
  /\ ~failed /\ Left >= 9 => \A f \in L!Seats :
        /\ table[f] = IF f \in before.open THEN L!Own(f) ELSE L!Closed
        /\ f \in inherits <=> f \in before.inherits
  /\ Left <= 9 => Kept(3)
  /\ Left <= 8 => Kept(4)
  /\ ~failed /\ Left \in 3..6 => place["child_writes"] # 3
  /\ ~failed /\ Left \in 2..3 => table[3] = L!End("child_reads") /\ 3 \in inherits
  /\ ~failed /\ Left = 2 => table[4] = L!End("child_writes") /\ 4 \in inherits

\* Where the four ends are; -1 once the child's own number has them.
EndsInv ==
  /\ Left >= 1 /\ ~(failed /\ Left = 1) =>
       \A end \in L!Ends : place[end] # -1 => table[place[end]] = L!End(end)
  /\ ~failed /\ Left >= 8 => \A end \in L!Ends : place[end] = -1
  /\ ~failed /\ Left = 7 =>
       /\ place["child_reads"] # -1 /\ place["we_write"] # -1
       /\ place["we_read"] = -1 /\ place["child_writes"] = -1
  /\ ~failed /\ Left <= 6 => place["we_write"] # -1 /\ place["we_read"] # -1
  /\ ~failed /\ Left \in 4..6 => place["child_reads"] # -1
  /\ ~failed /\ Left \in 3..6 => place["child_writes"] # -1
  /\ ~failed /\ Left <= 3 => place["child_reads"] = -1
  /\ ~failed /\ Left <= 2 => place["child_writes"] = -1
  /\ ~failed /\ Left <= 5 => place["we_write"] >= HIGH_FD
  /\ ~failed /\ Left <= 4 => place["we_read"] >= HIGH_FD

\* Nothing is open without a reason.
OpenInv ==
  Left >= 1 =>
    \A f \in Fds : table[f] # L!Closed =>
      \/ f \in before.open
      \/ \E i \in 1..Len(parked) : parked[i].backup = f
      \/ f \in L!Seats /\ Left <= 3
      \/ ~(failed /\ Left = 1) /\ \E end \in L!Ends : place[end] = f

LaunchInv ==
  /\ StepInv /\ LaunchTypes /\ OwnInv /\ ParkedInv /\ SeatsInv /\ EndsInv /\ OpenInv
  /\ OthersRestored /\ NothingLeaks /\ ChildHasItsEnds
  /\ connected => todo = <<>>

-----------------------------------------------------------------------------
(* Lowest descriptors. *)

LEMMA LeastExists ==
  ASSUME NEW T, T \subseteq Nat, T # {}
  PROVE  \E x \in T : \A y \in T : x <= y
<1>1. PICK x \in T : \A y \in T : ~(<<y, x>> \in OpToRel(<, Nat))
  BY NatLessThanWellFounded, WFMin, Zenon
<1>2. \A y \in T : ~(<<y, x>> \in Nat \X Nat /\ y < x)
  BY <1>1, Zenon DEF OpToRel
<1>3. ASSUME NEW y \in T
      PROVE  x <= y
  <2>1. x \in Nat /\ y \in Nat
    OBVIOUS
  <2>2. ~(y < x)
    BY <1>2, <2>1
  <2> QED BY <2>1, <2>2
<1> QED BY <1>3

LEMMA MinIsLeast ==
  ASSUME NEW T, T \subseteq Nat, T # {}
  PROVE  L!Min(T) \in T /\ \A y \in T : L!Min(T) <= y
BY LeastExists DEF L!Min

LEMMA Numbers ==
  /\ Fds \subseteq Nat /\ \A f \in Fds : f >= 3 /\ f <= 1024
  /\ L!Seats = {3, 4} /\ 3 \in Fds /\ 4 \in Fds
  /\ HIGH_FD \in Nat /\ HIGH_FD > 4
  /\ HIGH_FD \in Fds /\ HIGH_FD + 1 \in Fds
BY DescriptorsAssumption
   DEF L!LaunchAssumption, L!Seats, L!CHILD_READ_FD, L!CHILD_WRITE_FD

LEMMA FreeLowest ==
  ASSUME NEW floor, L!Free(floor) # {}
  PROVE  /\ L!Lowest(floor) \in Fds /\ L!Lowest(floor) >= floor
         /\ table[L!Lowest(floor)] = L!Closed
         /\ \A f \in L!Free(floor) : L!Lowest(floor) <= f
<1>1. L!Free(floor) \subseteq Nat
  BY Numbers, ZenonT(60) DEF L!Free
<1>2. L!Lowest(floor) \in L!Free(floor) /\ \A f \in L!Free(floor) : L!Lowest(floor) <= f
  BY <1>1, MinIsLeast DEF L!Lowest
<1> QED BY <1>2 DEF L!Free

LEMMA SameCardinality == \A S : L!Cardinality(S) = Cardinality(S)
BY DEF L!Cardinality, Cardinality

\* os.pipe finds two free numbers, the lower one first.
LEMMA FreePair ==
  ASSUME L!Cardinality(L!Free(0)) >= 2
  PROVE  /\ L!Lowest(0) \in Fds /\ table[L!Lowest(0)] = L!Closed
         /\ L!Min(L!Free(0) \ {L!Lowest(0)}) \in Fds
         /\ table[L!Min(L!Free(0) \ {L!Lowest(0)})] = L!Closed
         /\ L!Lowest(0) # L!Min(L!Free(0) \ {L!Lowest(0)})
         /\ L!Min(L!Free(0) \ {L!Lowest(0)}) # 3
<1> DEFINE S == L!Free(0)
           r == L!Lowest(0)
           w == L!Min(S \ {r})
<1>1. S \subseteq Fds /\ S \subseteq Nat /\ \A f \in S : table[f] = L!Closed /\ f >= 3
  BY Numbers, ZenonT(60) DEF L!Free
<1>2. IsFiniteSet(S)
  <2>1. S \in SUBSET Nat /\ 1024 \in Nat /\ \A f \in S : f <= 1024
    BY <1>1, Numbers
  <2> HIDE DEF S
  <2> QED BY <2>1, FS_BoundedSetOfNaturals
<1>3. Cardinality(S) >= 2 /\ S # {}
  BY SameCardinality, FS_EmptySet
<1>4. r \in S /\ \A f \in S : r <= f
  BY <1>1, <1>3, MinIsLeast DEF L!Lowest
<1>5. S \ {r} # {}
  <2>1. Cardinality(S \ {r}) = Cardinality(S) - 1 /\ Cardinality(S) \in Nat
    BY <1>2, <1>4, FS_RemoveElement, FS_CardinalityType
  <2>2. Cardinality({}) = 0
    BY FS_EmptySet
  <2> QED BY <1>3, <2>1, <2>2
<1>6. w \in S \ {r}
  BY <1>1, <1>5, MinIsLeast
<1>7. table[3] = L!Closed => r = 3
  BY <1>1, <1>4, Numbers DEF L!Free
<1>8. w # 3
  BY <1>1, <1>4, <1>6, <1>7
<1> QED BY <1>1, <1>4, <1>6, <1>7, <1>8

-----------------------------------------------------------------------------
(* The steps of a launch. *)

Steps == {<<"park", 3>>, <<"park", 4>>,
          <<"open", "child_reads", "we_write">>, <<"open", "we_read", "child_writes">>,
          <<"lift", "we_write">>, <<"lift", "we_read">>,
          <<"seat", "child_reads", 3>>, <<"seat", "child_writes", 4>>,
          <<"spawn">>, <<"release">>, <<"undo">>}

LEMMA ProgramSteps ==
  /\ L!Program \in Seq(Steps) /\ Len(L!Program) = 10
  /\ L!Program[1] = <<"park", 3>> /\ L!Program[2] = <<"park", 4>>
  /\ L!Program[3] = <<"open", "child_reads", "we_write">>
  /\ L!Program[4] = <<"open", "we_read", "child_writes">>
  /\ L!Program[5] = <<"lift", "we_write">> /\ L!Program[6] = <<"lift", "we_read">>
  /\ L!Program[7] = <<"seat", "child_reads", 3>> /\ L!Program[8] = <<"seat", "child_writes", 4>>
  /\ L!Program[9] = <<"spawn">> /\ L!Program[10] = <<"release">>
BY DEF L!Program, Steps, L!CHILD_READ_FD, L!CHILD_WRITE_FD

LEMMA ProgramTyped == \A i \in 1..10 : L!Program[i] \in Steps
BY ProgramSteps, ElementOfSeq

LEMMA UndoingSteps ==
  /\ Undoing \in Seq(Steps) /\ Len(Undoing) = 2 /\ Head(Undoing) = <<"undo">>
  /\ Tail(Undoing) = SubSeq(L!Program, 10, 10)
<1>1. Undoing \in Seq(Steps) /\ Len(Undoing) = 2 /\ Head(Undoing) = <<"undo">>
  BY DEF Undoing, Steps
<1>2. Tail(Undoing) = <<<<"release">>>>
  BY DEF Undoing
<1>3. /\ SubSeq(L!Program, 10, 10) \in Seq(Steps)
      /\ Len(SubSeq(L!Program, 10, 10)) = 1 /\ SubSeq(L!Program, 10, 10)[1] = <<"release">>
  <2>1. \A i \in 10..10 : L!Program[i] \in Steps
    BY ProgramTyped
  <2> QED BY <2>1, ProgramSteps, SubSeqProperties
<1>4. <<<<"release">>>> \in Seq(Steps) /\ Len(<<<<"release">>>>) = 1 /\ <<<<"release">>>>[1] = <<"release">>
  BY DEF Steps
<1>5. \A i \in 1..1 : SubSeq(L!Program, 10, 10)[i] = <<<<"release">>>>[i]
  BY <1>3, <1>4
<1> QED BY <1>1, <1>2, <1>3, <1>4, <1>5, SeqEqual

\* What is left of the program with k steps to go.
LEMMA Rest ==
  ASSUME NEW k \in 0..10
  PROVE  /\ Len(SubSeq(L!Program, 11 - k, 10)) = k
         /\ k # 0 => /\ Head(SubSeq(L!Program, 11 - k, 10)) = L!Program[11 - k]
                     /\ Tail(SubSeq(L!Program, 11 - k, 10)) = SubSeq(L!Program, 11 - (k - 1), 10)
<1>1. Len(SubSeq(L!Program, 11 - k, 10)) = k
  <2>1. \A i \in (11 - k)..10 : L!Program[i] \in Steps
    BY ProgramTyped
  <2> QED BY <2>1, SubSeqProperties
<1>2. ASSUME k # 0
      PROVE  /\ Head(SubSeq(L!Program, 11 - k, 10)) = L!Program[11 - k]
             /\ Tail(SubSeq(L!Program, 11 - k, 10)) = SubSeq(L!Program, (11 - k) + 1, 10)
  <2>1. 11 - k \in 1..Len(L!Program) /\ 10 \in (11 - k)..Len(L!Program)
    BY <1>2, ProgramSteps
  <2> QED BY <2>1, ProgramSteps, HeadTailOfSubSeq
<1>3. (11 - k) + 1 = 11 - (k - 1)
  OBVIOUS
<1> QED BY <1>1, <1>2, <1>3

LEMMA StepsLeft ==
  ASSUME StepInv
  PROVE  /\ Left \in 0..10 /\ (failed => Left <= 2)
         /\ todo = <<>> <=> Left = 0
         /\ todo # <<>> => \/ failed /\ Left = 2 /\ Head(todo) = <<"undo">>
                           \/ /\ Head(todo) = L!Program[11 - Left]
                              /\ failed => Left <= 1
<1>1. CASE failed /\ todo = Undoing
  BY <1>1, UndoingSteps DEF Left, Undoing
<1>2. ASSUME NEW k \in 0..10, todo = SubSeq(L!Program, 11 - k, 10), failed => k <= 1
      PROVE  /\ Left \in 0..10 /\ (failed => Left <= 2)
             /\ todo = <<>> <=> Left = 0
             /\ todo # <<>> => Head(todo) = L!Program[11 - Left] /\ (failed => Left <= 1)
  <2>1. Left = k
    BY <1>2, Rest DEF Left
  <2>2. todo \in Seq(Steps)
    <3>1. \A i \in (11 - k)..10 : L!Program[i] \in Steps
      BY ProgramTyped
    <3> QED BY <1>2, <3>1, SubSeqProperties
  <2>3. todo = <<>> <=> Left = 0
    BY <2>2, EmptySeq DEF Left
  <2> QED BY <1>2, <2>1, <2>3, Rest
<1> QED BY <1>1, <1>2 DEF StepInv

\* Where in the program an action is.
LEMMA Where ==
  ASSUME StepInv, NEW step, L!Doing(step)
  PROVE  /\ step = <<"park", 3>> => ~failed /\ Left = 10
         /\ step = <<"park", 4>> => ~failed /\ Left = 9
         /\ step = <<"open", "child_reads", "we_write">> => ~failed /\ Left = 8
         /\ step = <<"open", "we_read", "child_writes">> => ~failed /\ Left = 7
         /\ step = <<"lift", "we_write">> => ~failed /\ Left = 6
         /\ step = <<"lift", "we_read">> => ~failed /\ Left = 5
         /\ step = <<"seat", "child_reads", 3>> => ~failed /\ Left = 4
         /\ step = <<"seat", "child_writes", 4>> => ~failed /\ Left = 3
         /\ step = <<"spawn">> => ~failed /\ Left = 2
         /\ step = <<"release">> => Left = 1
         /\ step = <<"undo">> => failed /\ Left = 2
<1>1. todo # <<>> /\ Head(todo) = step
  BY DEF L!Doing
<1>2. CASE failed /\ Left = 2 /\ step = <<"undo">>
  BY <1>2
<1>3. CASE step = L!Program[11 - Left] /\ (failed => Left <= 1)
  <2>1. Left \in {1, 2, 3, 4, 5, 6, 7, 8, 9, 10}
    BY <1>1, StepsLeft
  <2> QED BY <1>3, <2>1, ProgramSteps
<1> QED BY <1>1, <1>2, <1>3, StepsLeft

LEMMA ProceedSteps ==
  ASSUME StepInv, todo # <<>>, L!Proceed
  PROVE  StepInv' /\ Left' = Left - 1 /\ UNCHANGED failed
<1>1. todo' = Tail(todo) /\ UNCHANGED failed
  BY DEF L!Proceed
<1>2. CASE failed /\ todo = Undoing
  <2> DEFINE k == 1
  <2>1. Left = 2
    BY <1>2, UndoingSteps DEF Left
  <2>2. todo' = SubSeq(L!Program, 11 - k, 10)
    BY <1>1, <1>2, UndoingSteps
  <2>3. k \in 0..10 /\ k = 1 /\ failed' \in BOOLEAN /\ (failed' => k <= 1)
    BY <1>1 DEF StepInv
  <2> HIDE DEF k
  <2>4. Left' = 1
    BY <2>2, <2>3, Rest DEF Left
  <2>5. StepInv'
    BY <2>2, <2>3 DEF StepInv
  <2> QED BY <1>1, <2>1, <2>4, <2>5
<1>3. ASSUME NEW k \in 0..10, todo = SubSeq(L!Program, 11 - k, 10), failed => k <= 1
      PROVE  StepInv' /\ Left' = Left - 1
  <2>1. Left = k
    BY <1>3, Rest DEF Left
  <2>2. k # 0
    BY <2>1, StepsLeft
  <2>3. k - 1 \in 0..10 /\ todo' = SubSeq(L!Program, 11 - (k - 1), 10)
    BY <1>1, <1>3, <2>2, Rest
  <2>4. Left' = k - 1
    BY <2>3, Rest DEF Left
  <2>5. failed' => k - 1 <= 1
    BY <1>1, <1>3
  <2> QED BY <1>1, <2>1, <2>3, <2>4, <2>5 DEF StepInv
<1> QED BY <1>1, <1>2, <1>3 DEF StepInv

LEMMA RaiseSteps ==
  ASSUME L!Raise
  PROVE  StepInv' /\ Left' = 2 /\ failed'
BY UndoingSteps DEF L!Raise, StepInv, Left, Undoing

-----------------------------------------------------------------------------
(* Each step keeps the invariant. *)

LEMMA ContentsDiffer ==
  /\ \A f : L!Own(f) # L!Closed
  /\ \A end : L!End(end) # L!Closed
  /\ \A f, end : L!Own(f) # L!End(end)
  /\ \A f, g : L!Own(f) = L!Own(g) => f = g
  /\ \A e, end : L!End(e) = L!End(end) => e = end
BY DEF L!Own, L!End, L!Closed

LEMMA FourEnds == L!Ends = {"child_reads", "we_write", "we_read", "child_writes"}
BY DEF L!Ends

LEMMA Doing ==
  ASSUME NEW step, L!Doing(step)
  PROVE  todo # <<>>
BY DEF L!Doing

\* Most steps are not the last.
LEMMA NotOver ==
  ASSUME Left' # 0
  PROVE  todo' # <<>> /\ OthersRestored' /\ NothingLeaks'
<1>1. todo' # <<>>
  BY DEF Left
<1> QED BY <1>1 DEF OthersRestored, NothingLeaks, L!OthersRestored, L!NothingLeaks, L!Over

LEMMA NotConnected ==
  ASSUME LaunchInv, todo # <<>>, UNCHANGED connected
  PROVE  ~connected'
BY DEF LaunchInv

\* A backup is taken: what was parked before stays.
LEMMA OneMore ==
  ASSUME LaunchTypes, NEW p \in Backups, parked' = Append(parked, p)
  PROVE  /\ parked' \in Seq(Backups) /\ Len(parked) \in Nat /\ Len(parked') = Len(parked) + 1
         /\ \A i \in 1..Len(parked) : i \in 1..Len(parked') /\ parked'[i] = parked[i]
         /\ Len(parked) + 1 \in 1..Len(parked') /\ parked'[Len(parked) + 1] = p
         /\ \A i \in 1..Len(parked') : i \in 1..Len(parked) \/ i = Len(parked) + 1
<1>1. parked \in Seq(Backups) /\ Len(parked) \in Nat
  BY DEF LaunchTypes
<1>2. /\ parked' \in Seq(Backups) /\ Len(parked') = Len(parked) + 1
      /\ \A i \in 1..Len(parked) : parked'[i] = parked[i]
      /\ parked'[Len(parked) + 1] = p
  BY <1>1, AppendProperties
<1> QED BY <1>1, <1>2

LEMMA BackupFacts ==
  ASSUME LaunchInv, NEW i \in 1..Len(parked)
  PROVE  /\ parked[i].fd \in L!Seats /\ parked[i].backup \in Fds
         /\ parked[i].fd \in before.open
         /\ parked[i].backup \notin before.open /\ parked[i].backup >= HIGH_FD
         /\ parked[i].inheritable <=> parked[i].fd \in before.inherits
         /\ Left # 0 => table[parked[i].backup] = L!Own(parked[i].fd)
<1>1. parked[i] \in Backups
  BY ElementOfSeq DEF LaunchInv, LaunchTypes
<1> QED BY <1>1 DEF Backups, LaunchInv, ParkedInv

\* The handler runs: nothing has changed but what is left to do.
LEMMA RaiseKeeps ==
  ASSUME LaunchInv, ~failed, Left \in 2..8, L!Raise,
         UNCHANGED <<table, inherits, before, parked, place, child, unparked, connected>>
  PROVE  LaunchInv'
<1>1. StepInv' /\ Left' = 2 /\ failed'
  BY RaiseSteps
<1>2. LaunchTypes' /\ OwnInv'
  BY DEF LaunchInv, LaunchTypes, OwnInv
<1>3. ParkedInv'
  BY <1>1 DEF LaunchInv, ParkedInv
<1>4. Kept(3)' /\ Kept(4)'
  BY DEF LaunchInv, SeatsInv, Kept
<1>5. SeatsInv'
  BY <1>1, <1>4 DEF SeatsInv
<1>6. EndsInv'
  BY <1>1 DEF LaunchInv, EndsInv
<1>7. OpenInv'
  <2>1. ASSUME NEW f \in Fds, table[f] # L!Closed
        PROVE  \/ f \in before.open
               \/ \E i \in 1..Len(parked) : parked[i].backup = f
               \/ f \in L!Seats /\ Left <= 3
               \/ \E end \in L!Ends : place[end] = f
    BY <2>1 DEF LaunchInv, OpenInv
  <2> QED BY <1>1, <2>1 DEF OpenInv
<1>8. ChildHasItsEnds'
  BY DEF LaunchInv, ChildHasItsEnds, L!ChildHasItsEnds
<1>9. todo # <<>>
  BY DEF Left
<1> QED BY <1>1, <1>2, <1>3, <1>5, <1>6, <1>7, <1>8, <1>9, NotOver, NotConnected DEF LaunchInv

LEMMA ParkStep ==
  ASSUME LaunchInv, NEW f \in L!Seats, L!Park(f), UNCHANGED connected
  PROVE  LaunchInv'
<1>1. L!Doing(<<"park", f>>) /\ todo # <<>>
  BY Doing DEF L!Park
<1>2. f \in {3, 4} /\ ~failed /\ Left = IF f = 3 THEN 10 ELSE 9
  BY <1>1, Numbers, Where DEF LaunchInv
<1>3. StepInv' /\ Left' = Left - 1 /\ ~failed' /\ UNCHANGED failed
  BY <1>1, <1>2, ProceedSteps DEF L!Park, LaunchInv
<1>4. UNCHANGED <<before, place, child>>
  BY DEF L!Park
<1>5. \A g \in L!Seats :
        /\ table[g] = IF g \in before.open THEN L!Own(g) ELSE L!Closed
        /\ g \in inherits <=> g \in before.inherits
  <2>1. ~failed /\ Left >= 9
    BY <1>2
  <2> QED BY <2>1, Zenon DEF LaunchInv, SeatsInv
<1>6. EndsInv' /\ \A end \in L!Ends : place[end] = -1
  <2>1. \A end \in L!Ends : place[end] = -1
    BY <1>2 DEF LaunchInv, EndsInv
  <2> QED BY <1>2, <1>3, <1>4, <2>1 DEF EndsInv
<1>7. ChildHasItsEnds'
  BY <1>4 DEF LaunchInv, ChildHasItsEnds, L!ChildHasItsEnds
<1>8. Left' # 0
  BY <1>2, <1>3
<1>9. CASE /\ table[f] # L!Closed /\ L!Free(HIGH_FD) # {}
           /\ LET backup == L!Lowest(HIGH_FD) IN
              /\ table' = [table EXCEPT ![backup] = table[f]]
              /\ inherits' = inherits \cup {backup}
              /\ parked' = Append(parked, [fd |-> f, backup |-> backup, inheritable |-> f \in inherits])
           /\ UNCHANGED unparked
  <2> DEFINE b == L!Lowest(HIGH_FD)
             p == [fd |-> f, backup |-> b, inheritable |-> f \in inherits]
  <2>1. b \in Fds /\ b >= HIGH_FD /\ table[b] = L!Closed
    BY <1>9, FreeLowest
  <2>2. b \notin L!Seats /\ b # 3 /\ b # 4
    BY <2>1, Numbers
  <2> HIDE DEF b
  <2>3. f \in before.open /\ table[f] = L!Own(f)
    BY <1>5, <1>9
  <2>4. b \notin before.open
    BY <2>1, <2>2, ContentsDiffer DEF LaunchInv, OwnInv
  <2>5. table' = [table EXCEPT ![b] = L!Own(f)] /\ inherits' = inherits \cup {b} /\ parked' = Append(parked, p)
    BY <1>9, <2>3 DEF b
  <2>6. p \in Backups
    BY <2>1 DEF Backups
  <2>7. p.fd = f /\ p.backup = b /\ (p.inheritable <=> f \in inherits)
    OBVIOUS
  <2> HIDE DEF p
  <2>8. /\ table'[b] = L!Own(f) /\ \A g \in Fds : g # b => table'[g] = table[g]
        /\ table' \in [Fds -> Contents]
    <3>1. table \in [Fds -> Contents]
      BY DEF LaunchInv, LaunchTypes
    <3>2. L!Own(f) \in Contents
      BY Numbers DEF Contents
    <3> QED BY <2>1, <2>5, <3>1, <3>2
  <2>9. LaunchTypes'
    BY <1>4, <2>5, <2>6, <2>8, OneMore DEF LaunchInv, LaunchTypes
  <2>10. OwnInv'
    BY <1>4, <2>4, <2>5, <2>8 DEF LaunchInv, LaunchTypes, OwnInv
  <2>11. /\ Len(parked) \in Nat /\ Len(parked') = Len(parked) + 1
         /\ \A i \in 1..Len(parked) : i \in 1..Len(parked') /\ parked'[i] = parked[i]
         /\ Len(parked) + 1 \in 1..Len(parked') /\ parked'[Len(parked) + 1] = p
         /\ \A i \in 1..Len(parked') : i \in 1..Len(parked) \/ i = Len(parked) + 1
    BY <2>5, <2>6, OneMore DEF LaunchInv
  <2>12. ASSUME NEW i \in 1..Len(parked')
         PROVE  /\ parked'[i].fd \in before.open
                /\ parked'[i].backup \notin before.open /\ parked'[i].backup >= HIGH_FD
                /\ parked'[i].inheritable <=> parked'[i].fd \in before.inherits
                /\ table'[parked'[i].backup] = L!Own(parked'[i].fd)
    <3>1. CASE i \in 1..Len(parked)
      <4>1. parked'[i] = parked[i]
        BY <2>11, <3>1
      <4>2. table[parked[i].backup] = L!Own(parked[i].fd) /\ parked[i].backup \in Fds
        BY <1>2, <3>1, BackupFacts
      <4>3. parked[i].backup # b
        BY <2>1, <4>2, ContentsDiffer
      <4> QED BY <2>8, <3>1, <4>1, <4>2, <4>3, BackupFacts
    <3>2. CASE i = Len(parked) + 1
      BY <1>5, <2>1, <2>3, <2>4, <2>7, <2>8, <2>11, <3>2
    <3> QED BY <2>11, <3>1, <3>2
  <2>13. ParkedInv'
    BY <1>4, <2>12 DEF ParkedInv
  <2>14. SeatsInv'
    <3>1. \A g \in L!Seats :
        /\ table'[g] = IF g \in before.open THEN L!Own(g) ELSE L!Closed
        /\ g \in inherits' <=> g \in before.inherits
      BY <1>5, <2>2, <2>5, <2>8, Numbers
    <3>2. Kept(f)'
      BY <1>4, <2>7, <2>11 DEF Kept
    <3>3. f = 4 => Kept(3)'
      BY <1>2, <1>4, <1>9, <2>11 DEF LaunchInv, SeatsInv, Kept
    <3> QED BY <1>2, <1>3, <1>4, <3>1, <3>2, <3>3 DEF SeatsInv
  <2>15. OpenInv'
    <3>1. ASSUME NEW g \in Fds, table'[g] # L!Closed
          PROVE  g \in before.open \/ \E i \in 1..Len(parked') : parked'[i].backup = g
      <4>1. CASE g = b
        BY <2>7, <2>11, <4>1
      <4>2. CASE g # b
        <5>1. table[g] # L!Closed
          BY <2>8, <3>1, <4>2
        <5>2. g \in before.open \/ \E i \in 1..Len(parked) : parked[i].backup = g
          BY <1>2, <1>6, <5>1, Numbers DEF LaunchInv, OpenInv
        <5> QED BY <2>11, <5>2
      <4> QED BY <4>1, <4>2
    <3> QED BY <1>4, <3>1 DEF OpenInv
  <2> QED BY <1>1, <1>3, <1>6, <1>7, <1>8, <2>9, <2>10, <2>13, <2>14, <2>15, NotOver, NotConnected DEF LaunchInv
<1>10. CASE /\ unparked' = IF table[f] # L!Closed THEN unparked \cup {f} ELSE unparked
            /\ UNCHANGED <<table, inherits, parked>>
  <2>1. LaunchTypes' /\ OwnInv'
    BY <1>4, <1>10 DEF LaunchInv, LaunchTypes, OwnInv
  <2>2. ParkedInv'
    BY <1>2, <1>4, <1>10 DEF LaunchInv, ParkedInv
  <2>3. SeatsInv'
    <3>1. Kept(f)'
      BY <1>4, <1>5, <1>10, ContentsDiffer DEF Kept
    <3>2. f = 4 => Kept(3)'
      BY <1>2, <1>4, <1>10 DEF LaunchInv, SeatsInv, Kept
    <3>3. \A g \in L!Seats :
        /\ table'[g] = IF g \in before'.open THEN L!Own(g) ELSE L!Closed
        /\ g \in inherits' <=> g \in before'.inherits
      BY <1>4, <1>5, <1>10
    <3> QED BY <1>2, <1>3, <3>1, <3>2, <3>3 DEF SeatsInv
  <2>4. OpenInv'
    BY <1>2, <1>3, <1>4, <1>10 DEF LaunchInv, OpenInv
  <2> QED BY <1>1, <1>3, <1>6, <1>7, <1>8, <2>1, <2>2, <2>3, <2>4, NotOver, NotConnected DEF LaunchInv
<1> QED BY <1>9, <1>10 DEF L!Park

\* From the first open to the handler's last step nothing is parked, and what
\* was the supervisor's is left alone.
LEMMA MiddleStep ==
  ASSUME LaunchInv, todo # <<>>, L!Proceed, Left \in 2..8,
         UNCHANGED <<before, parked, unparked, connected>>,
         table' \in [Fds -> Contents], place' \in [L!Ends -> Fds \cup {-1}],
         \A f \in before.open \ L!Seats : table'[f] = table[f] /\ f \notin inherits',
         \A i \in 1..Len(parked) : table'[parked[i].backup] = table[parked[i].backup]
  PROVE  /\ StepInv' /\ Left' = Left - 1 /\ UNCHANGED failed
         /\ LaunchTypes' /\ OwnInv' /\ ParkedInv' /\ Kept(3)' /\ Kept(4)'
         /\ OthersRestored' /\ NothingLeaks' /\ ~connected'
<1>1. StepInv' /\ Left' = Left - 1 /\ UNCHANGED failed
  BY ProceedSteps DEF LaunchInv
<1>2. LaunchTypes'
  BY DEF LaunchInv, LaunchTypes
<1>3. OwnInv'
  BY DEF LaunchInv, OwnInv
<1>4. ParkedInv'
  <2>1. Left # 0
    OBVIOUS
  <2> QED BY <2>1 DEF LaunchInv, ParkedInv
<1>5. Kept(3)' /\ Kept(4)'
  BY DEF LaunchInv, SeatsInv, Kept
<1>6. OthersRestored' /\ NothingLeaks'
  BY <1>1, NotOver
<1>7. ~connected'
  BY NotConnected
<1> QED BY <1>1, <1>2, <1>3, <1>4, <1>5, <1>6, <1>7

\* Where an end is, nothing else is.
LEMMA EndsApart ==
  ASSUME LaunchInv, Left >= 2
  PROVE  /\ \A end \in L!Ends : place[end] # -1 =>
              /\ place[end] \in Fds /\ table[place[end]] = L!End(end)
              /\ place[end] \notin before.open \ L!Seats
              /\ \A i \in 1..Len(parked) : parked[i].backup # place[end]
         /\ \A e, end \in L!Ends : e # end /\ place[e] # -1 => place[e] # place[end]
         /\ \A f \in Fds : f # -1
<1>1. place \in [L!Ends -> Fds \cup {-1}] /\ \A f \in Fds : f # -1
  BY Numbers DEF LaunchInv, LaunchTypes
<1>2. ASSUME NEW end \in L!Ends, place[end] # -1
      PROVE  place[end] \in Fds /\ table[place[end]] = L!End(end)
  <2>1. Left >= 1 /\ Left # 1
    BY StepsLeft DEF LaunchInv
  <2> QED BY <1>1, <1>2, <2>1 DEF LaunchInv, EndsInv
<1>3. ASSUME NEW end \in L!Ends, place[end] # -1
      PROVE  place[end] \notin before.open \ L!Seats
  BY <1>2, <1>3, ContentsDiffer DEF LaunchInv, OwnInv
<1>4. ASSUME NEW end \in L!Ends, place[end] # -1, NEW i \in 1..Len(parked)
      PROVE  parked[i].backup # place[end]
  <2>1. table[parked[i].backup] = L!Own(parked[i].fd)
    BY BackupFacts
  <2> QED BY <1>2, <1>4, <2>1, ContentsDiffer
<1>5. ASSUME NEW e \in L!Ends, NEW end \in L!Ends, e # end, place[e] # -1
      PROVE  place[e] # place[end]
  <2>1. CASE place[end] = -1
    BY <1>5, <2>1
  <2>2. CASE place[end] # -1
    <3>1. L!End(e) # L!End(end)
      BY <1>5, ContentsDiffer
    <3> QED BY <1>2, <1>5, <2>2, <3>1
  <2> QED BY <2>1, <2>2
<1> QED BY <1>1, <1>2, <1>3, <1>4, <1>5

LEMMA OpenStep ==
  ASSUME LaunchInv, NEW reading, NEW writing, L!OpenPipe(reading, writing), UNCHANGED connected,
         \/ reading = "child_reads" /\ writing = "we_write"
         \/ reading = "we_read" /\ writing = "child_writes"
  PROVE  LaunchInv'
<1>1. L!Doing(<<"open", reading, writing>>) /\ todo # <<>>
  BY Doing DEF L!OpenPipe
<1>2. /\ reading \in L!Ends /\ writing \in L!Ends /\ reading # writing
      /\ ~failed /\ Left = IF reading = "child_reads" THEN 8 ELSE 7
  BY <1>1, FourEnds, Where DEF LaunchInv
<1>3. UNCHANGED <<inherits, before, parked, child, unparked>>
  BY DEF L!OpenPipe
<1>4. CASE L!Raise /\ UNCHANGED <<table, place>>
  BY <1>2, <1>3, <1>4, RaiseKeeps
<1>5. CASE /\ L!Cardinality(L!Free(0)) >= 2
           /\ LET r == L!Lowest(0)
                  w == L!Min(L!Free(0) \ {r})
              IN /\ table' = [table EXCEPT ![r] = L!End(reading), ![w] = L!End(writing)]
                 /\ place' = [place EXCEPT ![reading] = r, ![writing] = w]
           /\ L!Proceed
  <2> DEFINE r == L!Lowest(0)
             w == L!Min(L!Free(0) \ {r})
  <2>1. /\ r \in Fds /\ w \in Fds /\ r # w /\ w # 3
        /\ table[r] = L!Closed /\ table[w] = L!Closed
    BY <1>5, FreePair
  <2>2. /\ table' = [table EXCEPT ![r] = L!End(reading), ![w] = L!End(writing)]
        /\ place' = [place EXCEPT ![reading] = r, ![writing] = w]
    BY <1>5
  <2> HIDE DEF r, w
  <2>3. table \in [Fds -> Contents] /\ place \in [L!Ends -> Fds \cup {-1}]
    BY DEF LaunchInv, LaunchTypes
  <2>4. L!End(reading) \in Contents /\ L!End(writing) \in Contents
    BY <1>2 DEF Contents
  <2>5. /\ table' \in [Fds -> Contents] /\ table'[r] = L!End(reading) /\ table'[w] = L!End(writing)
        /\ \A f \in Fds : f # r /\ f # w => table'[f] = table[f]
    BY <2>1, <2>2, <2>3, <2>4
  <2>6. /\ place' \in [L!Ends -> Fds \cup {-1}] /\ place'[reading] = r /\ place'[writing] = w
        /\ \A e \in L!Ends : e # reading /\ e # writing => place'[e] = place[e]
    BY <1>2, <2>1, <2>2, <2>3
  <2>7. \A f \in before.open \ L!Seats : table'[f] = table[f] /\ f \notin inherits'
    <3>1. \A f \in before.open \ L!Seats : f \in Fds /\ f # r /\ f # w
      BY <2>1, ContentsDiffer DEF LaunchInv, LaunchTypes, OwnInv
    <3> QED BY <1>3, <2>5, <3>1 DEF LaunchInv, OwnInv
  <2>8. \A i \in 1..Len(parked) : table'[parked[i].backup] = table[parked[i].backup]
    <3>1. ASSUME NEW i \in 1..Len(parked)
          PROVE  table'[parked[i].backup] = table[parked[i].backup]
      <4>1. parked[i].backup \in Fds /\ table[parked[i].backup] # L!Closed
        BY <1>2, BackupFacts, ContentsDiffer
      <4> QED BY <2>1, <2>5, <4>1
    <3> QED BY <3>1
  <2>9. /\ StepInv' /\ Left' = Left - 1 /\ UNCHANGED failed
        /\ LaunchTypes' /\ OwnInv' /\ ParkedInv' /\ Kept(3)' /\ Kept(4)'
        /\ OthersRestored' /\ NothingLeaks' /\ ~connected'
    <3>1. L!Proceed /\ Left \in 2..8 /\ UNCHANGED <<before, parked, unparked, connected>>
      BY <1>2, <1>3, <1>5
    <3> QED BY <1>1, <2>5, <2>6, <2>7, <2>8, <3>1, MiddleStep
  <2>10. SeatsInv'
    <3>1. Left' = 6 => place'["child_writes"] # 3
      BY <1>2, <2>1, <2>6, <2>9
    <3> QED BY <1>2, <2>9, <3>1 DEF SeatsInv
  <2>11. \A e \in L!Ends : e # reading /\ e # writing /\ place[e] # -1 => place[e] \in Fds /\ place[e] # r /\ place[e] # w /\ table[place[e]] = L!End(e)
    BY <1>2, <2>1, ContentsDiffer, EndsApart
  <2>12. EndsInv'
    <3>1. ASSUME NEW e \in L!Ends, place'[e] # -1
          PROVE  table'[place'[e]] = L!End(e)
      <4>1. CASE e # reading /\ e # writing
        BY <2>5, <2>6, <2>11, <3>1, <4>1
      <4> QED BY <2>5, <2>6, <4>1
    <3>2. r # -1 /\ w # -1
      BY <2>1, Numbers
    <3>3. CASE reading = "child_reads" /\ writing = "we_write"
      <4>1. \A e \in L!Ends : place[e] = -1
        BY <1>2, <3>3 DEF LaunchInv, EndsInv
      <4>2. /\ place'["child_reads"] # -1 /\ place'["we_write"] # -1
            /\ place'["we_read"] = -1 /\ place'["child_writes"] = -1
        BY <2>6, <3>2, <3>3, <4>1, FourEnds
      <4>3. Left' = 7
        BY <1>2, <2>9, <3>3
      <4> QED BY <3>1, <4>2, <4>3 DEF EndsInv
    <3>4. CASE reading = "we_read" /\ writing = "child_writes"
      <4>1. place["child_reads"] # -1 /\ place["we_write"] # -1
        BY <1>2, <3>4 DEF LaunchInv, EndsInv
      <4>2. \A e \in L!Ends : place'[e] # -1
        BY <2>6, <3>2, <3>4, <4>1, FourEnds
      <4>3. Left' = 6
        BY <1>2, <2>9, <3>4
      <4> QED BY <3>1, <4>2, <4>3, FourEnds DEF EndsInv
    <3> QED BY <3>3, <3>4
  <2>13. OpenInv'
    <3>1. ASSUME NEW f \in Fds, table'[f] # L!Closed
          PROVE  \/ f \in before.open
                 \/ \E i \in 1..Len(parked) : parked[i].backup = f
                 \/ \E e \in L!Ends : place'[e] = f
      <4>1. CASE f = r \/ f = w
        BY <1>2, <2>6, <4>1
      <4>2. CASE f # r /\ f # w
        <5>1. table[f] # L!Closed
          BY <2>5, <3>1, <4>2
        <5>2. \/ f \in before.open
              \/ \E i \in 1..Len(parked) : parked[i].backup = f
              \/ \E e \in L!Ends : place[e] = f
          BY <1>2, <5>1 DEF LaunchInv, OpenInv
        <5>3. place[reading] = -1 /\ place[writing] = -1
          BY <1>2, FourEnds DEF LaunchInv, EndsInv
        <5> QED BY <2>6, <5>2, <5>3, Numbers
      <4> QED BY <4>1, <4>2
    <3> QED BY <1>2, <1>3, <2>9, <3>1 DEF OpenInv
  <2>14. ChildHasItsEnds'
    BY <1>3 DEF LaunchInv, ChildHasItsEnds, L!ChildHasItsEnds
  <2> QED BY <2>9, <2>10, <2>12, <2>13, <2>14 DEF LaunchInv
<1> QED BY <1>4, <1>5 DEF L!OpenPipe

LEMMA LiftStep ==
  ASSUME LaunchInv, NEW end \in {"we_write", "we_read"}, L!Lift(end), UNCHANGED connected
  PROVE  LaunchInv'
<1>1. L!Doing(<<"lift", end>>) /\ todo # <<>>
  BY Doing DEF L!Lift
<1>2. end \in L!Ends /\ ~failed /\ Left = IF end = "we_write" THEN 6 ELSE 5
  BY <1>1, FourEnds, Where DEF LaunchInv
<1>3. UNCHANGED <<before, parked, child, unparked>>
  BY DEF L!Lift
<1>4. CASE L!Raise /\ UNCHANGED <<table, inherits, place>>
  BY <1>2, <1>3, <1>4, RaiseKeeps
<1>5. CASE /\ L!Free(HIGH_FD) # {}
           /\ LET high == L!Lowest(HIGH_FD) IN
              /\ table' = [table EXCEPT ![high] = table[place[end]], ![place[end]] = L!Closed]
              /\ inherits' = (inherits \cup {high}) \ {place[end]}
              /\ place' = [place EXCEPT ![end] = high]
           /\ L!Proceed
  <2> DEFINE h == L!Lowest(HIGH_FD)
             q == place[end]
  <2>1. h \in Fds /\ h >= HIGH_FD /\ table[h] = L!Closed
    BY <1>5, FreeLowest
  <2>2. /\ table' = [table EXCEPT ![h] = table[q], ![q] = L!Closed]
        /\ inherits' = (inherits \cup {h}) \ {q}
        /\ place' = [place EXCEPT ![end] = h]
    BY <1>5
  <2>3. q # -1
    BY <1>2 DEF LaunchInv, EndsInv
  <2>4. /\ q \in Fds /\ table[q] = L!End(end) /\ q # h
        /\ q \notin before.open \ L!Seats /\ \A i \in 1..Len(parked) : parked[i].backup # q
        /\ \A e \in L!Ends : e # end => place[e] # q
    BY <1>2, <2>1, <2>3, EndsApart, ContentsDiffer
  <2>5. \A e \in L!Ends : place[e] # -1 => place[e] \in Fds /\ table[place[e]] = L!End(e) /\ place[e] # h
    BY <1>2, <2>1, EndsApart, ContentsDiffer
  <2> HIDE DEF h, q
  <2>6. table \in [Fds -> Contents] /\ place \in [L!Ends -> Fds \cup {-1}]
    BY DEF LaunchInv, LaunchTypes
  <2>7. L!End(end) \in Contents /\ L!Closed \in Contents
    BY <1>2 DEF Contents
  <2>8. /\ table' \in [Fds -> Contents] /\ table'[h] = L!End(end) /\ table'[q] = L!Closed
        /\ \A f \in Fds : f # h /\ f # q => table'[f] = table[f]
    BY <2>1, <2>2, <2>4, <2>6, <2>7
  <2>9. /\ place' \in [L!Ends -> Fds \cup {-1}] /\ place'[end] = h
        /\ \A e \in L!Ends : e # end => place'[e] = place[e]
    BY <1>2, <2>1, <2>2, <2>6
  <2>10. \A f \in before.open \ L!Seats : table'[f] = table[f] /\ f \notin inherits'
    <3>1. \A f \in before.open \ L!Seats : f \in Fds /\ f # h /\ f # q /\ f \notin inherits
      BY <2>1, <2>4, ContentsDiffer DEF LaunchInv, LaunchTypes, OwnInv
    <3> QED BY <2>2, <2>8, <3>1
  <2>11. \A i \in 1..Len(parked) : table'[parked[i].backup] = table[parked[i].backup]
    <3>1. ASSUME NEW i \in 1..Len(parked)
          PROVE  table'[parked[i].backup] = table[parked[i].backup]
      <4>1. parked[i].backup \in Fds /\ table[parked[i].backup] # L!Closed
        BY <1>2, BackupFacts, ContentsDiffer
      <4> QED BY <2>1, <2>4, <2>8, <4>1
    <3> QED BY <3>1
  <2>12. /\ StepInv' /\ Left' = Left - 1 /\ UNCHANGED failed
         /\ LaunchTypes' /\ OwnInv' /\ ParkedInv' /\ Kept(3)' /\ Kept(4)'
         /\ OthersRestored' /\ NothingLeaks' /\ ~connected'
    <3>1. L!Proceed /\ Left \in 2..8 /\ UNCHANGED <<before, parked, unparked, connected>>
      BY <1>2, <1>3, <1>5
    <3> QED BY <1>1, <2>8, <2>9, <2>10, <2>11, <3>1, MiddleStep
  <2>13. SeatsInv'
    <3>1. place'["child_writes"] # 3
      BY <1>2, <2>9, FourEnds DEF LaunchInv, SeatsInv
    <3>2. Left' \in 4..5
      BY <1>2, <2>12
    <3> QED BY <2>12, <3>1, <3>2 DEF SeatsInv
  <2>14. EndsInv'
    <3>1. ASSUME NEW e \in L!Ends, place'[e] # -1
          PROVE  table'[place'[e]] = L!End(e)
      <4>1. CASE e # end
        BY <2>4, <2>5, <2>8, <2>9, <3>1, <4>1
      <4> QED BY <2>8, <2>9, <4>1
    <3>2. h # -1 /\ h >= HIGH_FD
      BY <2>1, Numbers
    <3>3. /\ place["child_reads"] # -1 /\ place["child_writes"] # -1
          /\ place["we_write"] # -1 /\ place["we_read"] # -1
          /\ Left = 5 => place["we_write"] >= HIGH_FD
      BY <1>2 DEF LaunchInv, EndsInv
    <3>4. /\ place'["child_reads"] # -1 /\ place'["child_writes"] # -1
          /\ place'["we_write"] # -1 /\ place'["we_read"] # -1
          /\ end = "we_write" => place'["we_write"] >= HIGH_FD
          /\ end = "we_read" => place'["we_write"] >= HIGH_FD /\ place'["we_read"] >= HIGH_FD
      BY <1>2, <2>9, <3>2, <3>3, FourEnds
    <3>5. Left' = IF end = "we_write" THEN 5 ELSE 4
      BY <1>2, <2>12
    <3> QED BY <3>1, <3>4, <3>5 DEF EndsInv
  <2>15. OpenInv'
    <3>1. ASSUME NEW f \in Fds, table'[f] # L!Closed
          PROVE  \/ f \in before.open
                 \/ \E i \in 1..Len(parked) : parked[i].backup = f
                 \/ \E e \in L!Ends : place'[e] = f
      <4>1. CASE f = h
        BY <1>2, <2>9, <4>1
      <4>2. CASE f # h
        <5>1. f # q /\ table[f] # L!Closed
          BY <2>8, <3>1, <4>2
        <5>2. \/ f \in before.open
              \/ \E i \in 1..Len(parked) : parked[i].backup = f
              \/ \E e \in L!Ends : place[e] = f
          BY <1>2, <5>1 DEF LaunchInv, OpenInv
        <5> QED BY <2>9, <5>1, <5>2 DEF q
      <4> QED BY <4>1, <4>2
    <3> QED BY <1>2, <1>3, <2>12, <3>1 DEF OpenInv
  <2>16. ChildHasItsEnds'
    BY <1>3 DEF LaunchInv, ChildHasItsEnds, L!ChildHasItsEnds
  <2> QED BY <2>12, <2>13, <2>14, <2>15, <2>16 DEF LaunchInv
<1> QED BY <1>4, <1>5 DEF L!Lift

LEMMA SeatStep ==
  ASSUME LaunchInv, NEW end, NEW seat, L!Seat(end, seat), UNCHANGED connected,
         \/ end = "child_reads" /\ seat = 3
         \/ end = "child_writes" /\ seat = 4
  PROVE  LaunchInv'
<1> DEFINE q == place[end]
<1>1. L!Doing(<<"seat", end, seat>>) /\ todo # <<>> /\ L!Proceed
  BY Doing DEF L!Seat
<1>2. /\ end \in L!Ends /\ seat \in L!Seats /\ seat \in Fds /\ seat \in {3, 4}
      /\ ~failed /\ Left = IF seat = 3 THEN 4 ELSE 3
  BY <1>1, FourEnds, Numbers, Where DEF LaunchInv
<1>3. /\ table' = [g \in Fds |-> IF g = seat THEN table[q] ELSE IF g = q THEN L!Closed ELSE table[g]]
      /\ inherits' = (inherits \ {q}) \cup {seat}
      /\ place' = [place EXCEPT ![end] = -1]
      /\ UNCHANGED <<before, parked, child, unparked>>
  BY DEF L!Seat
<1>4. q # -1
  BY <1>2 DEF LaunchInv, EndsInv
<1>5. /\ q \in Fds /\ table[q] = L!End(end)
      /\ q \notin before.open \ L!Seats /\ \A i \in 1..Len(parked) : parked[i].backup # q
      /\ \A e \in L!Ends : e # end => place[e] # q
  BY <1>2, <1>4, EndsApart
<1>6. \A e \in L!Ends : place[e] # -1 => place[e] \in Fds /\ table[place[e]] = L!End(e)
  BY <1>2, EndsApart
<1> HIDE DEF q
<1>7. table \in [Fds -> Contents] /\ place \in [L!Ends -> Fds \cup {-1}]
  BY DEF LaunchInv, LaunchTypes
<1>8. L!End(end) \in Contents /\ L!Closed \in Contents
  BY <1>2 DEF Contents
<1>9. /\ table' \in [Fds -> Contents] /\ table'[seat] = L!End(end)
      /\ q # seat => table'[q] = L!Closed
      /\ \A g \in Fds : g # seat /\ g # q => table'[g] = table[g]
  BY <1>2, <1>3, <1>5, <1>7, <1>8
<1>10. /\ place' \in [L!Ends -> Fds \cup {-1}] /\ place'[end] = -1
       /\ \A e \in L!Ends : e # end => place'[e] = place[e]
  BY <1>2, <1>3, <1>7
<1>11. \A g \in before.open \ L!Seats : table'[g] = table[g] /\ g \notin inherits'
  <2>1. \A g \in before.open \ L!Seats : g \in Fds /\ g # seat /\ g # q /\ g \notin inherits
    BY <1>2, <1>5 DEF LaunchInv, LaunchTypes, OwnInv
  <2> QED BY <1>3, <1>9, <2>1
<1>12. \A i \in 1..Len(parked) : table'[parked[i].backup] = table[parked[i].backup]
  <2>1. ASSUME NEW i \in 1..Len(parked)
        PROVE  table'[parked[i].backup] = table[parked[i].backup]
    <3>1. parked[i].backup \in Fds /\ parked[i].backup # seat
      BY <1>2, BackupFacts, Numbers
    <3> QED BY <1>5, <1>9, <3>1
  <2> QED BY <2>1
<1>13. /\ StepInv' /\ Left' = Left - 1 /\ UNCHANGED failed
       /\ LaunchTypes' /\ OwnInv' /\ ParkedInv' /\ Kept(3)' /\ Kept(4)'
       /\ OthersRestored' /\ NothingLeaks' /\ ~connected'
  <2>1. L!Proceed /\ Left \in 2..8 /\ UNCHANGED <<before, parked, unparked, connected>>
    BY <1>1, <1>2, <1>3
  <2> QED BY <1>1, <1>9, <1>10, <1>11, <1>12, <2>1, MiddleStep
<1>14. SeatsInv'
  <2>1. seat \in inherits'
    BY <1>3
  <2>2. CASE end = "child_reads" /\ seat = 3
    <3>1. Left' = 3
      BY <1>2, <1>13, <2>2
    <3>2. place'["child_writes"] # 3
      BY <1>2, <1>10, <2>2, FourEnds DEF LaunchInv, SeatsInv
    <3> QED BY <1>9, <1>13, <2>1, <2>2, <3>1, <3>2 DEF SeatsInv
  <2>3. CASE end = "child_writes" /\ seat = 4
    <3>1. Left' = 2
      BY <1>2, <1>13, <2>3
    <3>2. q # 3 /\ table[3] = L!End("child_reads") /\ 3 \in inherits
      BY <1>2, <2>3 DEF LaunchInv, SeatsInv, q
    <3>3. table'[3] = L!End("child_reads") /\ 3 \in inherits'
      BY <1>3, <1>9, <2>3, <3>2, Numbers
    <3> QED BY <1>9, <1>13, <2>1, <2>3, <3>1, <3>3 DEF SeatsInv
  <2> QED BY <2>2, <2>3
<1>15. EndsInv'
  <2>1. /\ place["we_write"] # -1 /\ place["we_read"] # -1
        /\ place["we_write"] >= HIGH_FD /\ place["we_read"] >= HIGH_FD
        /\ seat = 3 => place["child_writes"] # -1 /\ place["child_writes"] # 3
        /\ seat = 4 => place["child_reads"] = -1
    BY <1>2 DEF LaunchInv, EndsInv, SeatsInv
  <2>2. ASSUME NEW e \in L!Ends, place'[e] # -1
        PROVE  table'[place'[e]] = L!End(e)
    <3>1. e # end /\ place'[e] = place[e] /\ place[e] # -1 /\ place[e] # q
      BY <1>5, <1>10, <2>2
    <3>2. place[e] # seat
      BY <1>2, <2>1, <3>1, FourEnds, Numbers
    <3> QED BY <1>6, <1>9, <3>1, <3>2
  <2>3. /\ place'["we_write"] # -1 /\ place'["we_read"] # -1
        /\ place'["we_write"] >= HIGH_FD /\ place'["we_read"] >= HIGH_FD
        /\ seat = 3 => place'["child_writes"] # -1 /\ place'["child_reads"] = -1
        /\ seat = 4 => place'["child_writes"] = -1 /\ place'["child_reads"] = -1
    BY <1>2, <1>10, <2>1, FourEnds
  <2>4. Left' = IF seat = 3 THEN 3 ELSE 2
    BY <1>2, <1>13
  <2> QED BY <1>2, <2>2, <2>3, <2>4 DEF EndsInv
<1>16. OpenInv'
  <2>1. ASSUME NEW g \in Fds, table'[g] # L!Closed
        PROVE  \/ g \in before.open
               \/ \E i \in 1..Len(parked) : parked[i].backup = g
               \/ g \in L!Seats
               \/ \E e \in L!Ends : place'[e] = g
    <3>1. CASE g = seat
      BY <1>2, <3>1
    <3>2. CASE g # seat
      <4>1. g # q /\ table[g] # L!Closed
        BY <1>9, <2>1, <3>2
      <4>2. \/ g \in before.open
            \/ \E i \in 1..Len(parked) : parked[i].backup = g
            \/ g \in L!Seats
            \/ \E e \in L!Ends : place[e] = g
        <5>1. Left >= 1
          BY <1>2
        <5> QED BY <4>1, <5>1 DEF LaunchInv, OpenInv
      <4> QED BY <1>10, <4>1, <4>2 DEF q
    <3> QED BY <3>1, <3>2
  <2>2. Left' <= 3 /\ ~failed'
    BY <1>2, <1>13
  <2> QED BY <1>3, <2>1, <2>2 DEF OpenInv
<1>17. ChildHasItsEnds'
  BY <1>3 DEF LaunchInv, ChildHasItsEnds, L!ChildHasItsEnds
<1> QED BY <1>13, <1>14, <1>15, <1>16, <1>17 DEF LaunchInv

LEMMA SpawnStep ==
  ASSUME LaunchInv, L!Spawn, UNCHANGED connected
  PROVE  LaunchInv'
<1>1. L!Doing(<<"spawn">>) /\ todo # <<>>
  BY Doing DEF L!Spawn
<1>2. ~failed /\ Left = 2
  BY <1>1, Where DEF LaunchInv
<1>3. UNCHANGED <<table, inherits, before, parked, place, unparked>>
  BY DEF L!Spawn
<1>4. CASE L!Raise /\ UNCHANGED child
  BY <1>2, <1>3, <1>4, RaiseKeeps
<1>5. CASE child' = [f \in L!Seats \cap inherits |-> table[f]] /\ L!Proceed
  <2>1. /\ StepInv' /\ Left' = Left - 1 /\ UNCHANGED failed
        /\ LaunchTypes' /\ OwnInv' /\ ParkedInv' /\ Kept(3)' /\ Kept(4)'
        /\ OthersRestored' /\ NothingLeaks' /\ ~connected'
    <3>1. L!Proceed /\ Left \in 2..8 /\ UNCHANGED <<before, parked, unparked, connected>>
      BY <1>2, <1>3, <1>5
    <3>2. table' \in [Fds -> Contents] /\ place' \in [L!Ends -> Fds \cup {-1}]
      BY <1>3 DEF LaunchInv, LaunchTypes
    <3>3. \A f \in before.open \ L!Seats : table'[f] = table[f] /\ f \notin inherits'
      BY <1>3 DEF LaunchInv, OwnInv
    <3>4. \A i \in 1..Len(parked) : table'[parked[i].backup] = table[parked[i].backup]
      BY <1>3
    <3> QED BY <1>1, <3>1, <3>2, <3>3, <3>4, MiddleStep
  <2>2. SeatsInv'
    BY <1>2, <2>1 DEF SeatsInv
  <2>3. EndsInv'
    BY <1>2, <1>3, <2>1 DEF LaunchInv, EndsInv
  <2>4. OpenInv'
    <3>1. ASSUME NEW f \in Fds, table[f] # L!Closed
          PROVE  \/ f \in before.open
                 \/ \E i \in 1..Len(parked) : parked[i].backup = f
                 \/ f \in L!Seats
                 \/ \E end \in L!Ends : place[end] = f
      BY <1>2, <3>1 DEF LaunchInv, OpenInv
    <3> QED BY <1>2, <1>3, <2>1, <3>1 DEF OpenInv
  <2>5. ChildHasItsEnds'
    <3>1. /\ table[3] = L!End("child_reads") /\ 3 \in inherits
          /\ table[4] = L!End("child_writes") /\ 4 \in inherits
      BY <1>2 DEF LaunchInv, SeatsInv
    <3>2. L!Seats \cap inherits = {3, 4}
      BY <3>1, Numbers
    <3>3. child' = [f \in L!Seats |-> L!End(IF f = 3 THEN "child_reads" ELSE "child_writes")]
      BY <1>5, <3>1, <3>2, Numbers
    <3> QED BY <3>3 DEF ChildHasItsEnds, L!ChildHasItsEnds, L!CHILD_READ_FD
  <2> QED BY <2>1, <2>2, <2>3, <2>4, <2>5 DEF LaunchInv
<1> QED BY <1>4, <1>5 DEF L!Spawn

LEMMA UndoStep ==
  ASSUME LaunchInv, L!Undo, UNCHANGED connected
  PROVE  LaunchInv'
<1> DEFINE dropped == {place[end] : end \in L!Ends}
<1>1. L!Doing(<<"undo">>) /\ todo # <<>> /\ L!Proceed
  BY Doing DEF L!Undo
<1>2. failed /\ Left = 2
  BY <1>1, Where DEF LaunchInv
<1>3. /\ table' = [f \in Fds |-> IF f \in dropped THEN L!Closed ELSE table[f]]
      /\ inherits' = inherits \ dropped
      /\ UNCHANGED <<before, parked, place, child, unparked>>
  BY DEF L!Undo
<1>4. \A end \in L!Ends : place[end] \in dropped
  OBVIOUS
<1>5. \A f \in dropped : f # -1 =>
        f \notin before.open \ L!Seats /\ \A i \in 1..Len(parked) : parked[i].backup # f
  BY <1>2, EndsApart
<1> HIDE DEF dropped
<1>6. table \in [Fds -> Contents] /\ L!Closed \in Contents
  BY DEF LaunchInv, LaunchTypes, Contents
<1>7. /\ table' \in [Fds -> Contents]
      /\ \A f \in Fds : table'[f] = IF f \in dropped THEN L!Closed ELSE table[f]
  BY <1>3, <1>6
<1>8. /\ StepInv' /\ Left' = Left - 1 /\ UNCHANGED failed
      /\ LaunchTypes' /\ OwnInv' /\ ParkedInv' /\ Kept(3)' /\ Kept(4)'
      /\ OthersRestored' /\ NothingLeaks' /\ ~connected'
  <2>1. L!Proceed /\ Left \in 2..8 /\ UNCHANGED <<before, parked, unparked, connected>>
    BY <1>1, <1>2, <1>3
  <2>2. place' \in [L!Ends -> Fds \cup {-1}]
    BY <1>3 DEF LaunchInv, LaunchTypes
  <2>3. \A f \in before.open \ L!Seats : table'[f] = table[f] /\ f \notin inherits'
    <3>1. \A f \in before.open \ L!Seats : f \in Fds /\ f # -1 /\ f \notin inherits
      BY Numbers DEF LaunchInv, LaunchTypes, OwnInv
    <3> QED BY <1>3, <1>5, <1>7, <3>1
  <2>4. ASSUME NEW i \in 1..Len(parked)
        PROVE  table'[parked[i].backup] = table[parked[i].backup]
    <3>1. parked[i].backup \in Fds /\ parked[i].backup # -1
      BY BackupFacts, Numbers
    <3> QED BY <1>5, <1>7, <3>1
  <2> QED BY <1>1, <1>7, <2>1, <2>2, <2>3, <2>4, MiddleStep
<1>9. SeatsInv'
  BY <1>2, <1>8 DEF SeatsInv
<1>10. EndsInv'
  BY <1>2, <1>8 DEF EndsInv
<1>11. OpenInv'
  <2>1. ASSUME NEW f \in Fds, table'[f] # L!Closed
        PROVE  \/ f \in before.open
               \/ \E i \in 1..Len(parked) : parked[i].backup = f
               \/ f \in L!Seats
    <3>1. f \notin dropped /\ table[f] # L!Closed
      BY <1>7, <2>1
    <3> QED BY <1>2, <1>4, <3>1 DEF LaunchInv, OpenInv
  <2> QED BY <1>2, <1>3, <1>8, <2>1 DEF OpenInv
<1>12. ChildHasItsEnds'
  BY <1>3 DEF LaunchInv, ChildHasItsEnds, L!ChildHasItsEnds
<1> QED BY <1>8, <1>9, <1>10, <1>11, <1>12 DEF LaunchInv

LEMMA ReleaseStep ==
  ASSUME LaunchInv, L!Release, UNCHANGED connected
  PROVE  LaunchInv'
<1> DEFINE backups == {parked[i].backup : i \in DOMAIN parked}
           back(f) == CHOOSE p \in L!BackupOf(f) : TRUE
<1>1. L!Doing(<<"release">>) /\ todo # <<>> /\ L!Proceed
  BY Doing DEF L!Release
<1>2. Left = 1
  BY <1>1, Where DEF LaunchInv
<1>3. StepInv' /\ Left' = 0 /\ UNCHANGED failed
  BY <1>1, <1>2, ProceedSteps DEF LaunchInv
<1>4. /\ table' = [f \in Fds |->
           CASE f \in L!Seats -> IF L!BackupOf(f) = {} THEN L!Closed ELSE table[back(f).backup]
             [] f \in backups \ L!Seats -> L!Closed
             [] OTHER -> table[f]]
      /\ inherits' = (inherits \ (L!Seats \cup backups))
           \cup {p.fd : p \in {q \in UNION {L!BackupOf(f) : f \in L!Seats} : q.inheritable}}
      /\ UNCHANGED <<before, parked, place, child, unparked>>
  BY DEF L!Release
<1>5. DOMAIN parked = 1..Len(parked)
  BY DEF LaunchInv, LaunchTypes
<1>6. \A f, p : p \in L!BackupOf(f) <=> \E i \in 1..Len(parked) : p = parked[i] /\ p.fd = f
  BY <1>5 DEF L!BackupOf
<1>7. ASSUME NEW f, NEW p \in L!BackupOf(f)
      PROVE  /\ p.fd = f /\ f \in L!Seats /\ f \in before.open
             /\ p.inheritable <=> f \in before.inherits
             /\ table[p.backup] = L!Own(f)
  <2>1. PICK i \in 1..Len(parked) : p = parked[i] /\ p.fd = f
    BY <1>6
  <2> QED BY <1>2, <2>1, BackupFacts
<1>8. ASSUME NEW f, L!BackupOf(f) # {}
      PROVE  /\ f \in L!Seats /\ f \in before.open /\ table[back(f).backup] = L!Own(f)
             /\ \E p \in L!BackupOf(f) : p.inheritable <=> f \in before.inherits
  <2>1. back(f) \in L!BackupOf(f)
    BY <1>8
  <2> HIDE DEF back
  <2> QED BY <1>7, <2>1
<1>9. \A f : f \in backups <=> \E i \in 1..Len(parked) : parked[i].backup = f
  BY <1>5
<1>10. \A f \in backups : f \in Fds /\ f \notin before.open /\ f >= HIGH_FD /\ f \notin L!Seats
  BY <1>9, BackupFacts, Numbers
<1> HIDE DEF backups, back
<1>11. table \in [Fds -> Contents] /\ L!Closed \in Contents
  BY DEF LaunchInv, LaunchTypes, Contents
<1>12. \A f \in Fds : table'[f] =
         CASE f \in L!Seats -> IF L!BackupOf(f) = {} THEN L!Closed ELSE table[back(f).backup]
           [] f \in backups \ L!Seats -> L!Closed
           [] OTHER -> table[f]
  BY <1>4
<1>13. /\ \A f \in L!Seats : table'[f] = IF L!BackupOf(f) = {} THEN L!Closed ELSE L!Own(f)
       /\ \A f \in backups : table'[f] = L!Closed
       /\ \A f \in Fds : f \notin L!Seats /\ f \notin backups => table'[f] = table[f]
  <2>1. L!Seats \subseteq Fds
    BY Numbers
  <2>2. ASSUME NEW f \in L!Seats
        PROVE  table'[f] = IF L!BackupOf(f) = {} THEN L!Closed ELSE L!Own(f)
    BY <1>8, <1>12, <2>1
  <2>3. \A f \in backups : table'[f] = L!Closed
    BY <1>10, <1>12
  <2>4. \A f \in Fds : f \notin L!Seats /\ f \notin backups => table'[f] = table[f]
    BY <1>12
  <2> QED BY <2>2, <2>3, <2>4
<1>14. table' \in [Fds -> Contents]
  <2>1. ASSUME NEW f \in Fds
        PROVE  table'[f] \in Contents
    <3>1. L!Own(f) \in Contents /\ table[f] \in Contents
      BY <1>11 DEF Contents
    <3> QED BY <1>11, <1>13, <3>1
  <2>2. table' = [f \in Fds |-> table'[f]]
    BY <1>4
  <2> QED BY <2>1, <2>2
<1>15. LaunchTypes'
  BY <1>4, <1>14 DEF LaunchInv, LaunchTypes
<1>16. \A f : f \in {p.fd : p \in {q \in UNION {L!BackupOf(g) : g \in L!Seats} : q.inheritable}}
              <=> \E p \in L!BackupOf(f) : p.inheritable
  <2>1. ASSUME NEW f, NEW p \in L!BackupOf(f), p.inheritable
        PROVE  f \in {r.fd : r \in {q \in UNION {L!BackupOf(g) : g \in L!Seats} : q.inheritable}}
    BY <1>7, <2>1
  <2>2. ASSUME NEW f, f \in {r.fd : r \in {q \in UNION {L!BackupOf(g) : g \in L!Seats} : q.inheritable}}
        PROVE  \E p \in L!BackupOf(f) : p.inheritable
    BY <1>7, <2>2
  <2> QED BY <2>1, <2>2
<1>17. /\ \A f \in L!Seats : f \in inherits' <=> \E p \in L!BackupOf(f) : p.inheritable
       /\ \A f : f \notin L!Seats /\ f \in inherits' => f \in inherits
  <2>1. \A f : f \in inherits' <=> \/ f \in inherits /\ f \notin L!Seats /\ f \notin backups
                                   \/ \E p \in L!BackupOf(f) : p.inheritable
    BY <1>4, <1>16
  <2>2. \A f : (\E p \in L!BackupOf(f) : p.inheritable) => f \in L!Seats
    BY <1>7
  <2> QED BY <2>1, <2>2
<1>18. OwnInv'
  <2>1. \A f \in before.open \ L!Seats :
          f \in Fds /\ f \notin backups /\ table[f] = L!Own(f) /\ f \notin inherits
    BY <1>10 DEF LaunchInv, LaunchTypes, OwnInv
  <2> QED BY <1>4, <1>13, <1>17, <2>1 DEF OwnInv
<1>19. ParkedInv'
  BY <1>3, <1>4 DEF LaunchInv, ParkedInv
<1>20. Kept(3) /\ Kept(4)
  BY <1>2 DEF LaunchInv, SeatsInv
<1>21. SeatsInv'
  <2>1. Kept(3)' /\ Kept(4)'
    BY <1>4, <1>20 DEF Kept
  <2> QED BY <1>3, <2>1 DEF SeatsInv
<1>22. EndsInv'
  BY <1>2, <1>3, <1>4 DEF LaunchInv, EndsInv
<1>23. OpenInv'
  BY <1>3 DEF OpenInv
<1>24. OthersRestored'
  <2>1. ASSUME NEW f \in before.open \ unparked
        PROVE  table'[f] = L!Own(f) /\ (f \in before.inherits <=> f \in inherits')
    <3>1. CASE f \in L!Seats
      <4>1. L!BackupOf(f) # {}
        <5>1. Kept(f)
          BY <1>20, <3>1, Numbers
        <5> QED BY <1>6, <2>1, <5>1 DEF Kept
      <4>2. table'[f] = L!Own(f)
        BY <1>13, <3>1, <4>1
      <4>3. (\E p \in L!BackupOf(f) : p.inheritable) <=> f \in before.inherits
        BY <1>7, <4>1, Zenon
      <4> QED BY <1>17, <3>1, <4>2, <4>3
    <3>2. CASE f \notin L!Seats
      BY <1>4, <1>18, <2>1, <3>2 DEF LaunchInv, LaunchTypes, OwnInv
    <3> QED BY <3>1, <3>2
  <2> QED BY <1>4, <2>1 DEF OthersRestored, L!OthersRestored
<1>25. NothingLeaks'
  <2> DEFINE ours == IF failed THEN {} ELSE {place["we_write"], place["we_read"]}
  <2>1. ASSUME NEW f \in Fds, table'[f] # L!Closed
        PROVE  f \in before.open \cup ours
    <3>1. CASE f \in L!Seats
      BY <1>8, <1>13, <2>1, <3>1
    <3>2. CASE f \notin L!Seats
      <4>1. f \notin backups /\ table[f] # L!Closed
        BY <1>13, <2>1, <3>2
      <4>2. \/ f \in before.open
            \/ ~failed /\ \E end \in L!Ends : place[end] = f
        BY <1>2, <1>9, <3>2, <4>1 DEF LaunchInv, OpenInv
      <4>3. ~failed => place["child_reads"] = -1 /\ place["child_writes"] = -1
        BY <1>2 DEF LaunchInv, EndsInv
      <4> QED BY <4>2, <4>3, FourEnds, Numbers
    <3> QED BY <3>1, <3>2
  <2>2. ASSUME ~failed
        PROVE  /\ table'[place["we_write"]] = L!End("we_write")
               /\ table'[place["we_read"]] = L!End("we_read")
               /\ place["we_write"] >= HIGH_FD /\ place["we_read"] >= HIGH_FD
    <3>1. ASSUME NEW end \in {"we_write", "we_read"}
          PROVE  table'[place[end]] = L!End(end) /\ place[end] >= HIGH_FD
      <4>1. end \in L!Ends /\ place[end] # -1 /\ place[end] >= HIGH_FD
        BY <1>2, <2>2, FourEnds DEF LaunchInv, EndsInv
      <4>2. place[end] \in Fds /\ table[place[end]] = L!End(end)
        <5>1. Left >= 1 /\ ~(failed /\ Left = 1)
          BY <1>2, <2>2
        <5> QED BY <4>1, <5>1 DEF LaunchInv, LaunchTypes, EndsInv
      <4>3. place[end] \notin L!Seats
        BY <4>1, <4>2, Numbers
      <4>4. place[end] \notin backups
        <5>1. \A f \in backups : \E g : table[f] = L!Own(g)
          BY <1>2, <1>9, BackupFacts
        <5> QED BY <4>2, <5>1, ContentsDiffer
      <4> QED BY <1>13, <4>1, <4>2, <4>3, <4>4
    <3> QED BY <3>1
  <2> QED BY <1>3, <1>4, <2>1, <2>2 DEF NothingLeaks, L!NothingLeaks
<1>26. ChildHasItsEnds'
  BY <1>4 DEF LaunchInv, ChildHasItsEnds, L!ChildHasItsEnds
<1>27. ~connected'
  BY <1>1, NotConnected
<1> QED BY <1>3, <1>15, <1>18, <1>19, <1>21, <1>22, <1>23, <1>24, <1>25, <1>26, <1>27 DEF LaunchInv

\* What Connect keeps is described anew: the two ends on numbers of their own.
LEMMA ConnectStep ==
  ASSUME LaunchInv, Connect
  PROVE  LaunchInv'
<1>1. /\ todo = <<>> /\ ~failed
      /\ place' = [place EXCEPT !["we_write"] = HIGH_FD, !["we_read"] = HIGH_FD + 1]
      /\ table' = [f \in Fds |-> IF f = HIGH_FD THEN table[place["we_write"]]
                                 ELSE IF f = HIGH_FD + 1 THEN table[place["we_read"]]
                                 ELSE L!Closed]
      /\ before' = [open |-> {}, inherits |-> {}]
      /\ parked' = <<>> /\ unparked' = {}
      /\ UNCHANGED <<todo, child, failed>>
  BY DEF Connect, L!Over
<1>2. StepInv' /\ Left' = 0 /\ Left = 0 /\ UNCHANGED failed /\ ~failed'
  BY <1>1, StepsLeft DEF LaunchInv, StepInv, Left
<1>3. table[place["we_write"]] = L!End("we_write") /\ table[place["we_read"]] = L!End("we_read")
  BY <1>1 DEF LaunchInv, NothingLeaks, L!NothingLeaks, L!Over
<1>4. before'.open = {} /\ before'.inherits = {}
  BY <1>1
<1>5. /\ HIGH_FD \in Fds /\ HIGH_FD + 1 \in Fds /\ HIGH_FD # HIGH_FD + 1
      /\ HIGH_FD + 1 >= HIGH_FD /\ HIGH_FD >= HIGH_FD /\ HIGH_FD # -1 /\ HIGH_FD + 1 # -1
  BY Numbers
<1>6. /\ table'[HIGH_FD] = L!End("we_write") /\ table'[HIGH_FD + 1] = L!End("we_read")
      /\ \A f \in Fds : f # HIGH_FD /\ f # HIGH_FD + 1 => table'[f] = L!Closed
  BY <1>1, <1>3, <1>5
<1>7. table' \in [Fds -> Contents]
  <2>1. L!End("we_write") \in Contents /\ L!End("we_read") \in Contents /\ L!Closed \in Contents
    BY FourEnds DEF Contents
  <2>2. \A f \in Fds : table'[f] \in Contents
    BY <1>6, <2>1
  <2>3. table' = [f \in Fds |-> table'[f]]
    BY <1>1
  <2> QED BY <2>2, <2>3
<1>8. /\ place' \in [L!Ends -> Fds \cup {-1}]
      /\ place'["we_write"] = HIGH_FD /\ place'["we_read"] = HIGH_FD + 1
      /\ place'["child_reads"] = place["child_reads"] /\ place'["child_writes"] = place["child_writes"]
  BY <1>1, <1>5, FourEnds DEF LaunchInv, LaunchTypes
<1>9. LaunchTypes'
  <2>1. parked' \in Seq(Backups)
    BY <1>1
  <2>2. before'.open \subseteq Fds /\ before'.inherits \subseteq L!Seats \cap before'.open
    BY <1>4
  <2> QED BY <1>7, <1>8, <2>1, <2>2 DEF LaunchTypes
<1>10. OwnInv'
  BY <1>4 DEF OwnInv
<1>11. ParkedInv'
  <2>1. Len(parked') = 0
    BY <1>1
  <2> QED BY <2>1 DEF ParkedInv
<1>12. SeatsInv'
  BY <1>2, <1>4 DEF SeatsInv, Kept
<1>13. EndsInv'
  <2>1. place["child_reads"] = -1 /\ place["child_writes"] = -1
    BY <1>1, <1>2 DEF LaunchInv, EndsInv
  <2> QED BY <1>2, <1>5, <1>8, <2>1 DEF EndsInv
<1>14. OpenInv'
  BY <1>2 DEF OpenInv
<1>15. OthersRestored'
  BY <1>4 DEF OthersRestored, L!OthersRestored
<1>16. NothingLeaks'
  BY <1>1, <1>2, <1>4, <1>5, <1>6, <1>8, ZenonT(60) DEF NothingLeaks, L!NothingLeaks
<1>17. ChildHasItsEnds'
  BY <1>1 DEF LaunchInv, ChildHasItsEnds, L!ChildHasItsEnds
<1> QED BY <1>1, <1>2, <1>9, <1>10, <1>11, <1>12, <1>13, <1>14, <1>15, <1>16, <1>17 DEF LaunchInv

LEMMA LaunchStarts == ConnectionInit => LaunchInv
<1> SUFFICES ASSUME ConnectionInit
             PROVE  LaunchInv
  OBVIOUS
<1>1. PICK open \in SUBSET Fds, kept \in SUBSET L!Seats :
        kept \subseteq open /\ before = [open |-> open, inherits |-> kept]
  BY DEF ConnectionInit, L!Init
<1>2. before.open = open /\ before.inherits = kept
  BY <1>1
<1>3. /\ table = [f \in Fds |-> IF f \in before.open THEN L!Own(f) ELSE L!Closed]
      /\ inherits = before.inherits /\ todo = L!Program /\ parked = <<>>
      /\ place = [end \in L!Ends |-> -1] /\ child = L!NoChild
      /\ ~failed /\ failed \in BOOLEAN /\ unparked = {} /\ ~connected
  BY DEF ConnectionInit, L!Init
<1>4. StepInv /\ Left = 10
  <2> DEFINE k == 10
  <2>1. k \in 0..10 /\ 11 - k = 1
    OBVIOUS
  <2>2. SubSeq(L!Program, 1, 10) = L!Program
    BY ProgramSteps, SubSeqFull
  <2> HIDE DEF k
  <2>3. todo = SubSeq(L!Program, 11 - k, 10)
    BY <1>3, <2>1, <2>2
  <2>4. Left = 10
    BY <1>3, ProgramSteps DEF Left
  <2> QED BY <1>3, <2>1, <2>3, <2>4 DEF StepInv
<1>5. LaunchTypes
  <2>1. table \in [Fds -> Contents]
    BY <1>3 DEF Contents
  <2> QED BY <1>1, <1>2, <1>3, <2>1 DEF LaunchTypes
<1>6. OwnInv
  BY <1>1, <1>2, <1>3 DEF OwnInv
<1>7. Len(parked) = 0
  BY <1>3
<1>8. ParkedInv
  BY <1>7 DEF ParkedInv
<1>9. SeatsInv
  <2>1. \A f \in L!Seats :
          /\ table[f] = IF f \in before.open THEN L!Own(f) ELSE L!Closed
          /\ f \in inherits <=> f \in before.inherits
    BY <1>3, Numbers
  <2> QED BY <1>4, <2>1 DEF SeatsInv
<1>10. EndsInv
  <2>1. \A end \in L!Ends : place[end] = -1
    BY <1>3
  <2> QED BY <1>4, <2>1 DEF EndsInv
<1>11. OpenInv
  BY <1>3, ContentsDiffer DEF OpenInv
<1>12. todo # <<>>
  BY <1>4 DEF Left
<1> QED BY <1>3, <1>4, <1>5, <1>6, <1>8, <1>9, <1>10, <1>11, <1>12
        DEF LaunchInv, OthersRestored, NothingLeaks, ChildHasItsEnds,
            L!OthersRestored, L!NothingLeaks, L!ChildHasItsEnds, L!Over

LEMMA LaunchKeeps == LaunchInv /\ [ConnectionNext]_allVars => LaunchInv'
<1> SUFFICES ASSUME LaunchInv, [ConnectionNext]_allVars
             PROVE  LaunchInv'
  OBVIOUS
<1>1. CASE Launching
  <2>1. UNCHANGED connected /\ L!Next
    BY <1>1 DEF Launching
  <2>2. ASSUME NEW f \in L!Seats, L!Park(f)
        PROVE  LaunchInv'
    BY <2>1, <2>2, ParkStep
  <2>3. CASE L!OpenPipe("child_reads", "we_write")
    BY <2>1, <2>3, OpenStep
  <2>4. CASE L!OpenPipe("we_read", "child_writes")
    BY <2>1, <2>4, OpenStep
  <2>5. ASSUME NEW end \in {"we_write", "we_read"}, L!Lift(end)
        PROVE  LaunchInv'
    BY <2>1, <2>5, LiftStep
  <2>6. CASE L!Seat("child_reads", L!CHILD_READ_FD)
    BY <2>1, <2>6, SeatStep DEF L!CHILD_READ_FD
  <2>7. CASE L!Seat("child_writes", L!CHILD_WRITE_FD)
    BY <2>1, <2>7, SeatStep DEF L!CHILD_WRITE_FD
  <2>8. CASE L!Spawn
    BY <2>1, <2>8, SpawnStep
  <2>9. CASE L!Undo
    BY <2>1, <2>9, UndoStep
  <2>10. CASE L!Release
    BY <2>1, <2>10, ReleaseStep
  <2> QED BY <2>1, <2>2, <2>3, <2>4, <2>5, <2>6, <2>7, <2>8, <2>9, <2>10 DEF L!Next
<1>2. CASE Connect
  BY <1>2, ConnectStep
<1>3. CASE Using \/ UNCHANGED allVars
  <2>1. UNCHANGED <<table, inherits, before, todo, parked, place, child, failed, unparked, connected>>
    BY <1>3 DEF Using, launchVars, allVars
  <2> QED BY <2>1, SMTT(30) DEF LaunchInv, StepInv, LaunchTypes, OwnInv, ParkedInv, SeatsInv, Kept, EndsInv, OpenInv,
                      Left, OthersRestored, NothingLeaks, ChildHasItsEnds,
                      L!OthersRestored, L!NothingLeaks, L!ChildHasItsEnds, L!Over
<1> QED BY <1>1, <1>2, <1>3 DEF ConnectionNext

-----------------------------------------------------------------------------
\* The inductive invariant, of every launch and of the connection after it.
THEOREM LaunchInvHolds == ConnectionSpec => []LaunchInv
BY LaunchStarts, LaunchKeeps, PTL DEF ConnectionSpec

\* pipe.launch gives the supervisor's listener and lock back where they were,
\* as inheritable as they were, at whichever step it stops and whichever of
\* its calls fail; a descriptor that _park could not copy is the exception.
THEOREM OthersComeBack == ConnectionSpec => []OthersRestored
<1>1. LaunchInv => OthersRestored
  BY DEF LaunchInv
<1> QED BY <1>1, LaunchInvHolds, PTL

\* A launch leaves nothing open but this side's two ends, above the numbers
\* the next launch needs; one that fails leaves nothing.
THEOREM LaunchLeaksNothing == ConnectionSpec => []NothingLeaks
<1>1. LaunchInv => NothingLeaks
  BY DEF LaunchInv
<1> QED BY <1>1, LaunchInvHolds, PTL

\* Wherever the kernel puts the four ends, the browser reads one pipe on 3
\* and writes the other on 4.
THEOREM ChildIsServed == ConnectionSpec => []ChildHasItsEnds
<1>1. LaunchInv => ChildHasItsEnds
  BY DEF LaunchInv
<1> QED BY <1>1, LaunchInvHolds, PTL


-----------------------------------------------------------------------------
(* The channel inside: a launch leaves it alone until it hands it over.    *)

\* Once launch has returned, the two ends are used as Channel says, and before
\* that not at all: what is proved of Channel holds of the connection.
THEOREM ConnectionIsChannel == ConnectionSpec => Spec
<1>1. ConnectionInit => Init
  BY DEF ConnectionInit
<1>2. [ConnectionNext]_allVars => [Next]_vars
  BY DEF ConnectionNext, Launching, Connect, Using, allVars
<1> QED BY <1>1, <1>2, PTL DEF ConnectionSpec, Spec

\* From the first descriptor pipe.launch parks to the last call, the reader
\* holds whole messages: FramesIntact over the composed system.
THEOREM ConnectionFrames == ConnectionSpec => [](ChannelTypeOK /\ FramesIntact)
BY ConnectionIsChannel, ChannelTypes, FramesStayIntact, PTL

\* And every caller of CDPSession.call gets the reply to its own call or a
\* failure: the launch and the channel together implement Rpc.
THEOREM ConnectionImplementsRpc == ConnectionSpec => ImplementsRpc
BY ConnectionIsChannel, ChannelImplementsRpc

=============================================================================
