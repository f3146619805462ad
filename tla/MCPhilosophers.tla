--------------------------- MODULE MCPhilosophers ---------------------------
(* The four threads of test_philosopher_feast_think(). *)
EXTENDS Philosophers
=============================================================================
