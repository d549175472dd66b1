------------------------------- MODULE Launch -------------------------------
(***************************************************************************)
(* pipe.launch: the browser is given its two pipes on descriptors 3 and 4, *)
(* where the supervisor may have its listener or a lock.  They are parked, *)
(* taken for the time of the launch, and given back, whichever step fails. *)
(*                                                                         *)
(* Descriptors 0, 1 and 2 are open, and the caller's other threads leave   *)
(* the table alone.  The kernel is external: a call that makes a           *)
(* descriptor may fail, and takes the lowest free number otherwise.        *)
(***************************************************************************)
EXTENDS Integers, Sequences, FiniteSetsExt

CONSTANTS
  Fds,     \* the numbers a descriptor can have
  HIGH_FD  \* where this side's ends and the backups go

CHILD_READ_FD  == 3
CHILD_WRITE_FD == 4
Seats == {CHILD_READ_FD, CHILD_WRITE_FD}

\* What is assumed of the constants; Connection, which instantiates this
\* module, assumes it.
LaunchAssumption ==
  /\ Fds \subseteq 3..1024 /\ Seats \subseteq Fds
  /\ HIGH_FD \in Nat /\ HIGH_FD > CHILD_WRITE_FD
  /\ {HIGH_FD, HIGH_FD + 1} \subseteq Fds

Closed == <<>>
NoChild == [f \in {} |-> Closed]
Own(f) == <<"own", f>>  \* what the supervisor had on f
End(end) == <<"end", end>>

\* The four ends: of the pipe the child reads, and of the one it writes.
Ends == {"child_reads", "we_write", "we_read", "child_writes"}

VARIABLES
  table,    \* what each descriptor refers to
  inherits, \* the descriptors that survive an exec
  before,   \* history: what was open at the start, and what of it inherits
  todo,     \* the steps that are left
  parked,   \* the backups, of _park
  place,    \* the locals child_reads, we_write, ...: descriptor or -1
  child,    \* what the browser got on 3 and 4
  failed,   \* the launch raises
  unparked  \* history: descriptors whose backup could not be made

vars == <<table, inherits, before, todo, parked, place, child, failed, unparked>>

\* Bug: what is saved is what the first pipe has put there.
ProgramParksLate ==
  << <<"open", "child_reads", "we_write">>, <<"open", "we_read", "child_writes">>,
     <<"park", CHILD_READ_FD>>, <<"park", CHILD_WRITE_FD>>,
     <<"lift", "we_write">>, <<"lift", "we_read">>,
     <<"seat", "child_reads", CHILD_READ_FD>>, <<"seat", "child_writes", CHILD_WRITE_FD>>,
     <<"spawn">>, <<"release">> >>

\* Bug: this side's ends stay where the kernel has put them.
ProgramWithoutLift ==
  << <<"park", CHILD_READ_FD>>, <<"park", CHILD_WRITE_FD>>,
     <<"open", "child_reads", "we_write">>, <<"open", "we_read", "child_writes">>,
     <<"seat", "child_reads", CHILD_READ_FD>>, <<"seat", "child_writes", CHILD_WRITE_FD>>,
     <<"spawn">>, <<"release">> >>

Program ==
  << <<"park", CHILD_READ_FD>>, <<"park", CHILD_WRITE_FD>>,
     <<"open", "child_reads", "we_write">>, <<"open", "we_read", "child_writes">>,
     <<"lift", "we_write">>, <<"lift", "we_read">>,
     <<"seat", "child_reads", CHILD_READ_FD>>, <<"seat", "child_writes", CHILD_WRITE_FD>>,
     <<"spawn">>, <<"release">> >>

Doing(step) == todo # <<>> /\ Head(todo) = step

Proceed == todo' = Tail(todo) /\ UNCHANGED failed

\* An exception: the handler, then the finally.
Raise == todo' = <<<<"undo">>, <<"release">>>> /\ failed' = TRUE

Free(floor) == {f \in Fds : f >= floor /\ table[f] = Closed}
Lowest(floor) == Min(Free(floor))

-----------------------------------------------------------------------------
\* _park of one descriptor.  It takes any failure to copy one for a descriptor
\* that is not open.
Park(f) ==
  /\ Doing(<<"park", f>>)
  /\ Proceed
  /\ \/ /\ table[f] # Closed /\ Free(HIGH_FD) # {}
        /\ LET backup == Lowest(HIGH_FD) IN
           /\ table' = [table EXCEPT ![backup] = table[f]]
           /\ inherits' = inherits \cup {backup}
           /\ parked' = Append(parked, [fd |-> f, backup |-> backup, inheritable |-> f \in inherits])
        /\ UNCHANGED unparked
     \/ /\ unparked' = IF table[f] # Closed THEN unparked \cup {f} ELSE unparked
        /\ UNCHANGED <<table, inherits, parked>>
  /\ UNCHANGED <<before, place, child>>

\* os.pipe: the reading end gets the lower number; neither is inherited.
OpenPipe(reading, writing) ==
  /\ Doing(<<"open", reading, writing>>)
  /\ \/ /\ Cardinality(Free(0)) >= 2
        /\ LET r == Lowest(0)
               w == Min(Free(0) \ {r})
           IN /\ table' = [table EXCEPT ![r] = End(reading), ![w] = End(writing)]
              /\ place' = [place EXCEPT ![reading] = r, ![writing] = w]
        /\ Proceed
     \/ Raise /\ UNCHANGED <<table, place>>
  /\ UNCHANGED <<inherits, before, parked, child, unparked>>

Lift(end) ==
  /\ Doing(<<"lift", end>>)
  /\ \/ /\ Free(HIGH_FD) # {}
        /\ LET high == Lowest(HIGH_FD) IN
           /\ table' = [table EXCEPT ![high] = table[place[end]], ![place[end]] = Closed]
           /\ inherits' = (inherits \cup {high}) \ {place[end]}
           /\ place' = [place EXCEPT ![end] = high]
        /\ Proceed
     \/ Raise /\ UNCHANGED <<table, inherits, place>>
  /\ UNCHANGED <<before, parked, child, unparked>>

\* Bug: dup2 is trusted to make the seat inheritable, which it does not do for
\* an end that is there already.
SeatByDup2(end, seat) ==
  /\ Doing(<<"seat", end, seat>>)
  /\ LET f == place[end] IN
     /\ table' = [g \in Fds |-> IF g = seat THEN table[f] ELSE IF g = f THEN Closed ELSE table[g]]
     /\ inherits' = IF f = seat THEN inherits ELSE (inherits \ {f}) \cup {seat}
  /\ place' = [place EXCEPT ![end] = -1]
  /\ Proceed
  /\ UNCHANGED <<before, parked, child, unparked>>

\* dup2 onto the seat, and the old descriptor closed unless it is the seat;
\* set_inheritable.
Seat(end, seat) ==
  /\ Doing(<<"seat", end, seat>>)
  /\ LET f == place[end] IN
     /\ table' = [g \in Fds |-> IF g = seat THEN table[f] ELSE IF g = f THEN Closed ELSE table[g]]
     /\ inherits' = (inherits \ {f}) \cup {seat}
  /\ place' = [place EXCEPT ![end] = -1]
  /\ Proceed
  /\ UNCHANGED <<before, parked, child, unparked>>

\* The child gets what pass_fds names and inherits.
Spawn ==
  /\ Doing(<<"spawn">>)
  /\ \/ child' = [f \in Seats \cap inherits |-> table[f]] /\ Proceed
     \/ Raise /\ UNCHANGED child
  /\ UNCHANGED <<table, inherits, before, parked, place, unparked>>

\* Bug: the handler leaves the ends of a launch that failed open.
UndoNothing ==
  /\ Doing(<<"undo">>)
  /\ Proceed
  /\ UNCHANGED <<table, inherits, before, parked, place, child, unparked>>

\* except: whichever ends the locals name.
Undo ==
  /\ Doing(<<"undo">>)
  /\ LET dropped == {place[end] : end \in Ends} IN
     /\ table' = [f \in Fds |-> IF f \in dropped THEN Closed ELSE table[f]]
     /\ inherits' = inherits \ dropped
  /\ Proceed
  /\ UNCHANGED <<before, parked, place, child, unparked>>

BackupOf(f) == {p \in {parked[i] : i \in DOMAIN parked} : p.fd = f}

\* finally: 3 and 4 are closed, and what was parked comes back.
Release ==
  /\ Doing(<<"release">>)
  /\ LET backups == {parked[i].backup : i \in DOMAIN parked} IN
     /\ table' = [f \in Fds |->
          CASE f \in Seats -> IF BackupOf(f) = {} THEN Closed
                              ELSE table[(CHOOSE p \in BackupOf(f) : TRUE).backup]
            [] f \in backups \ Seats -> Closed
            [] OTHER -> table[f]]
     /\ inherits' = (inherits \ (Seats \cup backups))
                      \cup {p.fd : p \in {q \in UNION {BackupOf(f) : f \in Seats} : q.inheritable}}
  /\ Proceed
  /\ UNCHANGED <<before, parked, place, child, unparked>>

-----------------------------------------------------------------------------
Init ==
  /\ \E open \in SUBSET Fds, kept \in SUBSET Seats :
       /\ kept \subseteq open
       /\ before = [open |-> open, inherits |-> kept]
  /\ table = [f \in Fds |-> IF f \in before.open THEN Own(f) ELSE Closed]
  /\ inherits = before.inherits
  /\ todo = Program
  /\ parked = <<>>
  /\ place = [end \in Ends |-> -1]
  /\ child = NoChild
  /\ failed = FALSE /\ unparked = {}

Next ==
  \/ \E f \in Seats : Park(f)
  \/ OpenPipe("child_reads", "we_write")
  \/ OpenPipe("we_read", "child_writes")
  \/ \E end \in {"we_write", "we_read"} : Lift(end)
  \/ Seat("child_reads", CHILD_READ_FD)
  \/ Seat("child_writes", CHILD_WRITE_FD)
  \/ Spawn
  \/ Undo
  \/ Release

-----------------------------------------------------------------------------
(* Properties. *)

Over == todo = <<>>

\* Whether the launch worked or any step of it failed, the supervisor's own
\* descriptors are what they were, and inherit as they did; one that could not
\* be parked is the exception.
OthersRestored ==
  Over => \A f \in before.open \ unparked :
    table[f] = Own(f) /\ (f \in before.inherits <=> f \in inherits)

\* Nothing else stays open but this side's two ends, out of the way of the
\* next launch: no copy of the child's, which would hide that it died.
NothingLeaks ==
  Over => LET ours == IF failed THEN {} ELSE {place["we_write"], place["we_read"]} IN
    /\ {f \in Fds : table[f] # Closed} \subseteq before.open \cup ours
    /\ ~failed => /\ table[place["we_write"]] = End("we_write")
                  /\ table[place["we_read"]] = End("we_read")
                  /\ \A f \in ours : f >= HIGH_FD

\* A browser that is spawned reads one pipe on 3 and writes the other on 4,
\* wherever the kernel has put the four ends.
ChildHasItsEnds ==
  child # NoChild =>
    child = [f \in Seats |-> End(IF f = CHILD_READ_FD THEN "child_reads" ELSE "child_writes")]

=============================================================================
