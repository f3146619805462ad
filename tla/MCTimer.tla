------------------------------- MODULE MCTimer -------------------------------
(* One timer, called by any thread and by its own handler. *)
EXTENDS Timer
=============================================================================
