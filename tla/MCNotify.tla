------------------------------ MODULE MCNotify ------------------------------
(* An instance of Notify for TLC. *)
EXTENDS Notify

MCPlans == {{"exit", "error"}, {"listen", "unlisten", "exit"}, {"cancel"}}
=============================================================================
