------------------------------ MODULE MCServer ------------------------------
(* One session, whose callers submit while it is stopped. *)
EXTENDS Server

TargetFirst == [c \in Callers |-> "a"]
=============================================================================
