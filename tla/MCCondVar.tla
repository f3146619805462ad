------------------------------ MODULE MCCondVar ------------------------------
(* One wait at a time, for durations that a setting of the clock can double. *)
EXTENDS CondVar
=============================================================================
