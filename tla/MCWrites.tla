------------------------------ MODULE MCWrites ------------------------------
(* Writes with two callers: both reply in the thread, or one does something  *)
(* else beside a mark.  Verbs that do not reply share nothing.               *)
EXTENDS Writes, TLC

CONSTANTS c1, c2

MCCallers == {c1, c2}
Symmetry == Permutations(Callers)

MCAsked ==
  {asked \in [MCCallers -> Verbs] :
     \/ \A c \in MCCallers : asked[c] \in Replies
     \/ \E c \in MCCallers : asked[c] \notin Replies /\ \A d \in MCCallers \ {c} : asked[d] = "mark"}
=============================================================================
