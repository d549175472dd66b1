------------------------------ MODULE MCLedger ------------------------------
(***************************************************************************)
(* Small instances of Ledger.  A day is 2 instants and a week 6, so that a *)
(* week holds several days and the clock outlives one; a cap of 1 with a   *)
(* weekly multiple of 2 lets both caps bite inside the horizon.            *)
(***************************************************************************)
EXTENDS Ledger, TLC

CONSTANTS p1, p2, message

MCProcs == {p1, p2}
MCKinds == {message}
CapOfOne == [k \in MCKinds |-> 1]

\* What a run lets the callers do.
CapOps      == {"writes", "throttle", "pace", "faults", "mv", "kill"}
BreakerOps  == {"writes", "cleanups", "breaker", "session", "faults"}
RemedyOps   == {"pace", "faults", "mv"}

Symmetry == Permutations(MCProcs)
=============================================================================
