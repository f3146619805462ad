---------------------------- MODULE Philosophers ----------------------------
(***************************************************************************)
(* The dining philosophers of tests/philosopher_feast_think.h, N threads   *)
(* and N chopsticks: feast_think() with spin locks made of                 *)
(* std::atomic_flag, taken one after the other, and feast_think1() with    *)
(* mutexes, taken by std::lock().                                          *)
(*                                                                         *)
(* A test_and_set() that finds the flag set leaves it set: a thread that   *)
(* spins takes no step.  std::lock(), as libstdc++ had it before GCC 11,   *)
(* locks its first argument, tries the second, and if that fails unlocks   *)
(* the first and begins again.  The mutex of the output is left out.       *)
(***************************************************************************)
EXTENDS Integers

CONSTANT N  \* the philosophers, and the chopsticks

ASSUME NAssumption == N \in Nat \ {0, 1}

VARIABLES locking,  \* which of the two programs runs
          flag,     \* of each chopstick: the atomic_flag, or whether the mutex is locked
          pc        \* where each thread is in its loop

vars == <<locking, flag, pc>>

Philosophers == 1..N
Chopsticks == 1..N

\* Mutant: the last philosopher gets its chopsticks in the order of the others.
InACircle(p) == <<p, (p % N) + 1>>

\* The arguments a and b that the threads t1 to t4 pass.
Seat(p) == IF p < N THEN <<p, p + 1>> ELSE <<1, N>>

A(p) == Seat(p)[1]
B(p) == Seat(p)[2]
Sticks == [p \in Philosophers |-> {A(p), B(p)}]

TypeOK ==
    /\ locking \in {"in order", "std::lock"}
    /\ flag \in [Chopsticks -> BOOLEAN]
    /\ pc \in [Philosophers -> {"thinking", "hungry", "holding", "eating", "putting"}]

\* The flags are declared without ATOMIC_FLAG_INIT: before C++20 their state is
\* unspecified.  Mutexes are unlocked.
Init == /\ locking \in {"in order", "std::lock"}
        /\ flag \in [Chopsticks -> BOOLEAN]
        /\ locking = "std::lock" => flag = [c \in Chopsticks |-> FALSE]
        /\ pc = [p \in Philosophers |-> "thinking"]

-----------------------------------------------------------------------------
(* One turn of the loop; unique_lock lets go of b before a, as feast_think() does. *)

GetHungry(p) ==
    /\ pc[p] = "thinking"
    /\ pc' = [pc EXCEPT ![p] = "hungry"]
    /\ UNCHANGED <<locking, flag>>

\* Mutant: the flag is set without a look at what it was.
TakeAUnchecked(p) ==
    /\ pc[p] = "hungry"
    /\ flag' = [flag EXCEPT ![A(p)] = TRUE]
    /\ pc' = [pc EXCEPT ![p] = "holding"]
    /\ UNCHANGED locking

TakeA(p) ==
    /\ pc[p] = "hungry"
    /\ ~flag[A(p)]
    /\ flag' = [flag EXCEPT ![A(p)] = TRUE]
    /\ pc' = [pc EXCEPT ![p] = "holding"]
    /\ UNCHANGED locking

TakeB(p) ==
    /\ pc[p] = "holding"
    /\ ~flag[B(p)]
    /\ flag' = [flag EXCEPT ![B(p)] = TRUE]
    /\ pc' = [pc EXCEPT ![p] = "eating"]
    /\ UNCHANGED locking

\* std::lock() finds b locked: a is unlocked, and taken again later.
BackOff(p) ==
    /\ locking = "std::lock"
    /\ pc[p] = "holding"
    /\ flag[B(p)]
    /\ flag' = [flag EXCEPT ![A(p)] = FALSE]
    /\ pc' = [pc EXCEPT ![p] = "hungry"]
    /\ UNCHANGED locking

\* Mutant: a is put down in the place of b.
PutAFirst(p) ==
    /\ pc[p] = "eating"
    /\ flag' = [flag EXCEPT ![A(p)] = FALSE]
    /\ pc' = [pc EXCEPT ![p] = "putting"]
    /\ UNCHANGED locking

PutB(p) ==
    /\ pc[p] = "eating"
    /\ flag' = [flag EXCEPT ![B(p)] = FALSE]
    /\ pc' = [pc EXCEPT ![p] = "putting"]
    /\ UNCHANGED locking

\* Mutant: a is kept.
KeepA(p) ==
    /\ pc[p] = "putting"
    /\ pc' = [pc EXCEPT ![p] = "thinking"]
    /\ UNCHANGED <<locking, flag>>

PutA(p) ==
    /\ pc[p] = "putting"
    /\ flag' = [flag EXCEPT ![A(p)] = FALSE]
    /\ pc' = [pc EXCEPT ![p] = "thinking"]
    /\ UNCHANGED locking

-----------------------------------------------------------------------------
Step(p) == GetHungry(p) \/ TakeA(p) \/ TakeB(p) \/ BackOff(p) \/ PutB(p) \/ PutA(p)

Next == \E p \in Philosophers : Step(p)

\* A thread that can go on does.  Neither kind of lock is fair: a thread that waits for
\* one that is given back again and again may never be the one that gets it.
Spec == Init /\ [][Next]_vars /\ \A p \in Philosophers : WF_vars(Step(p))

-----------------------------------------------------------------------------
(* What must hold. *)

Holds(p) == CASE pc[p] \in {"holding", "putting"} -> {A(p)}
              [] pc[p] = "eating" -> Sticks[p]
              [] OTHER -> {}

\* A chopstick is in the hands of one philosopher at most, and its flag is set then.
OneHolderEach ==
    \A p \in Philosophers : \A c \in Holds(p) :
        flag[c] /\ \A q \in Philosophers : c \in Holds(q) => p = q

\* No flag is set that nobody set: all were clear when the threads started.
Owned == \A c \in Chopsticks : flag[c] => \E p \in Philosophers : c \in Holds(p)

Blocked(p) == \/ pc[p] = "hungry" /\ flag[A(p)]
              \/ pc[p] = "holding" /\ flag[B(p)] /\ locking = "in order"

\* The philosophers never all wait for each other: in feast_think() because of the order
\* of the arguments, in feast_think1() because nobody waits with a chopstick in hand.
SomebodyCanMove == Owned => \E p \in Philosophers : ~Blocked(p)

\* With flags that are clear at first somebody eats again and again (not everybody).
FeastGoesOn == Owned => []<>(\E p \in Philosophers : pc[p] = "eating")

\* Whoever eats has both chopsticks to itself, as Feast demands.
Table == INSTANCE Feast WITH eating <- {p \in Philosophers : pc[p] = "eating"}

FeastSpec == Table!Spec
=============================================================================
