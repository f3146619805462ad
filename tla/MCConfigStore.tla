--------------------------- MODULE MCConfigStore ---------------------------
(***************************************************************************)
(* The groups of tables share no column and no variable, so that what is   *)
(* true of each is true of all: an instance uses one group, with restarts  *)
(* at any time, and the groups need not be multiplied with each other.     *)
(***************************************************************************)
EXTENDS ConfigStore

VARIABLE used  \* the operations that this behaviour calls

MCInit == Init /\ used \in {"seed", "accounts", "checks"}

MCNext ==
    \/ used = "seed" /\ GetSeed /\ UNCHANGED used
    \/ used = "accounts" /\ NextAccount /\ UNCHANGED used
    \/ used = "checks" /\ NextCheck /\ UNCHANGED used
    \/ Restart /\ UNCHANGED used

MCSpec == MCInit /\ [][MCNext]_<<vars, used>> /\ Fairness
=============================================================================
