----------------------------- MODULE MCCapture ------------------------------
(* Capture with a read, a poll of the page's own and the write of the flow. *)
EXTENDS Capture

read == [method |-> "GET", place |-> "voyager", act |-> FALSE]
poll == [method |-> "POST", place |-> "voyager", act |-> FALSE]
sent == [method |-> "POST", place |-> "linkedin", act |-> TRUE]

MCRequests == {read, poll, sent}
MCFlows == {PostCreate, Invite}
Everything == Places
=============================================================================
