---------------------------- MODULE MCConnection ----------------------------
(* Descriptors below and above HIGH_FD, of which any may be open at first. *)
EXTENDS Connection
MCFds == 3..10
=============================================================================
