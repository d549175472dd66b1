---------------------------- MODULE MCSupervisor ----------------------------
(* Supervisor with a few calls at once, and as many processes as can be      *)
(* spawned for them.                                                         *)
EXTENDS Supervisor, TLC

CONSTANTS c1, c2, c3, d1, d2

WriteAndRead == {c1 :> "write" @@ c2 :> "read"}
WriteAndTwoReads == {c1 :> "write" @@ c2 :> "read" @@ c3 :> "read"}
Pairs == WriteAndRead
  \cup {c1 :> "seed" @@ c2 :> "status", c1 :> "write" @@ c2 :> "shutdown"}
=============================================================================
