---------------------------- MODULE MCActivation ----------------------------
(* Three activations that share functions and keys.  In the first, a group has  *)
(* two functions; in the second, the second group is as long as its number; in  *)
(* the third it is shorter.  The results that may come for each of them: one as *)
(* the second plan has it, one that is shorter than its groups and has a key    *)
(* that failed, and one that deactivates a function with a key no plan gives it. *)
EXTENDS Activation

CONSTANTS a1, a2, a3, f1, f2, f3, k1, k2

Func(id, ks) == [funcID |-> id, keys |-> ks]

MCPlan == (a1 :> << <<Func(f1, <<k1>>), Func(f2, <<k2>>)>> >>)
       @@ (a2 :> << <<Func(f2, <<k1, k2>>)>>, <<Func(f1, <<k1>>), Func(f3, <<k2>>)>> >>)
       @@ (a3 :> << <<Func(f3, <<k2>>)>>, <<Func(f1, <<k1>>)>> >>)

Done(id, action, ks) == [funcID |-> id, state |-> "activated", action |-> action, keys |-> ks]
Ok(k) == [key |-> k, ok |-> TRUE]
Failed(k) == [key |-> k, ok |-> FALSE]

MCResults ==
    { << <<Done(f2, "activate", <<Ok(k1), Ok(k2)>>)>>,
         <<Done(f1, "activate", <<Ok(k1)>>), Done(f3, "activate", <<Ok(k2)>>)>> >>,
      << <<Done(f1, "activate", <<Failed(k1), Ok(k2)>>)>>,
         <<Done(f2, "deactivate", <<Ok(k1)>>)>> >>,
      << <<Done(f3, "deactivate", <<Ok(k2), Ok(k1)>>)>> >> }
=============================================================================
