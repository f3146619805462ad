-------------------------------- MODULE Feast --------------------------------
(***************************************************************************)
(* What a table of philosophers promises: whoever eats has both chopsticks *)
(* to itself.  How they are taken, and in which order, is left open.       *)
(***************************************************************************)
CONSTANTS Philosophers,  \* the threads
          Sticks         \* the two chopsticks each of them eats with

VARIABLE eating  \* the philosophers that eat

Neighbours(p, q) == p # q /\ Sticks[p] \intersect Sticks[q] # {}

Init == eating = {}

Begin(p) == /\ p \notin eating
            /\ \A q \in eating : ~Neighbours(p, q)
            /\ eating' = eating \union {p}

End(p) == /\ p \in eating
          /\ eating' = eating \ {p}

Next == \E p \in Philosophers : Begin(p) \/ End(p)

Spec == Init /\ [][Next]_eating
=============================================================================
