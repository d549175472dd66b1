---------------------------- MODULE MCInvocation ----------------------------
(***************************************************************************)
(* Small instances of Invocation: two processes, one kind with a cap of 1, *)
(* a day of 2 instants.  Ops does not restrict Invocation, whose callers   *)
(* are runs; it is given a value because Ledger declares it.               *)
(***************************************************************************)
EXTENDS Invocation, TLC

CONSTANTS p1, p2, message

MCProcs == {p1, p2}
MCKinds == {message}
CapOfOne == [k \in MCKinds |-> 1]

Symmetry == Permutations(MCProcs)
=============================================================================
