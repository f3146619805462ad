-------------------------- MODULE PhilosophersProof --------------------------
(***************************************************************************)
(* Proofs about Philosophers for a table of any size: chopsticks are not   *)
(* shared, the philosophers never all wait for each other, and what they   *)
(* do is a Feast.                                                          *)
(***************************************************************************)
EXTENDS Philosophers, TLAPS, WellFoundedInduction

IInv == TypeOK /\ OneHolderEach

\* Each philosopher takes the chopstick with the lower number first.
LEMMA SeatOrder ==
    ASSUME NEW p \in Philosophers
    PROVE  /\ A(p) \in Chopsticks /\ B(p) \in Chopsticks /\ A(p) < B(p) /\ A(p) # B(p)
           /\ Sticks[p] = {A(p), B(p)}
BY NAssumption DEF Philosophers, Chopsticks, Seat, A, B, Sticks

\* What a philosopher holds, by where it is in feast_think().
LEMMA HoldsValue ==
    ASSUME NEW p \in Philosophers
    PROVE  /\ pc[p] \in {"holding", "putting"} => Holds(p) = {A(p)}
           /\ pc[p] = "eating" => Holds(p) = {A(p), B(p)}
           /\ pc[p] \notin {"holding", "putting", "eating"} => Holds(p) = {}
BY SeatOrder DEF Holds

\* Nothing is held at first, whatever the flags are.
LEMMA InitIInv == Init => IInv
BY HoldsValue DEF Init, IInv, TypeOK, OneHolderEach

\* A step of p leaves what the others hold as it is.
LEMMA OthersKeep ==
    ASSUME TypeOK, NEW p \in Philosophers, NEW label, pc' = [pc EXCEPT ![p] = label],
           NEW q \in Philosophers, q # p
    PROVE  Holds(q)' = Holds(q)
BY DEF TypeOK, Holds

\* What a step of p does to a chopstick: nothing, or p takes it and sets its flag,
\* which was clear, or p gives it up and clears its flag.
LEMMA StepEffect ==
    ASSUME TypeOK, NEW p \in Philosophers, Step(p), NEW c \in Chopsticks
    PROVE  \/ flag'[c] = flag[c] /\ (c \in Holds(p)' <=> c \in Holds(p))
           \/ ~flag[c] /\ flag'[c] /\ c \in Holds(p)'
           \/ c \in Holds(p) /\ c \notin Holds(p)' /\ ~flag'[c]
<1> USE SeatOrder, HoldsValue
<1>1. /\ pc'[p] \in {"holding", "putting"} => Holds(p)' = {A(p)}
      /\ pc'[p] = "eating" => Holds(p)' = {A(p), B(p)}
      /\ pc'[p] \notin {"holding", "putting", "eating"} => Holds(p)' = {}
  BY DEF Holds
<1>2. CASE GetHungry(p)
  BY <1>1, <1>2 DEF GetHungry, TypeOK
<1>3. CASE TakeA(p)
  BY <1>1, <1>3 DEF TakeA, TypeOK
<1>4. CASE TakeB(p)
  BY <1>1, <1>4 DEF TakeB, TypeOK
<1>5. CASE PutB(p)
  BY <1>1, <1>5 DEF PutB, TypeOK
<1>6. CASE PutA(p)
  BY <1>1, <1>6 DEF PutA, TypeOK
<1>7. CASE BackOff(p)
  BY <1>1, <1>7 DEF BackOff, TypeOK
<1> QED
  BY <1>2, <1>3, <1>4, <1>5, <1>6, <1>7 DEF Step

\* A step of p leaves what the others hold as it is.
LEMMA StepOthers ==
    ASSUME TypeOK, NEW p \in Philosophers, Step(p), NEW q \in Philosophers, q # p
    PROVE  Holds(q)' = Holds(q)
BY OthersKeep DEF Step, GetHungry, TakeA, TakeB, BackOff, PutB, PutA

\* Every step preserves the invariant.
LEMMA StepIInv == ASSUME IInv, NEW p \in Philosophers, Step(p) PROVE IInv'
<1> USE DEF IInv
<1>1. TypeOK'
  BY SeatOrder DEF TypeOK, Step, GetHungry, TakeA, TakeB, BackOff, PutB, PutA
<1>2. OneHolderEach'
  <2> SUFFICES ASSUME NEW q \in Philosophers, NEW c \in Holds(q)'
               PROVE  flag'[c] /\ \A r \in Philosophers : c \in Holds(r)' => q = r
    BY DEF OneHolderEach
  <2>1. c \in Chopsticks
    BY SeatOrder DEF Holds
  <2>2. \A r \in Philosophers : \A d \in Holds(r) :
            flag[d] /\ \A s \in Philosophers : d \in Holds(s) => r = s
    BY DEF OneHolderEach
  <2> QED
    BY <2>1, <2>2, StepEffect, StepOthers
<1> QED
  BY <1>1, <1>2

\* The inductive invariant holds in every reachable state.
THEOREM Invariance == Spec => []IInv
<1>1. IInv /\ [Next]_vars => IInv'
  <2>1. CASE UNCHANGED vars
    BY <2>1 DEF vars, IInv, TypeOK, OneHolderEach, Holds
  <2> QED
    BY <2>1, StepIInv DEF Next
<1> QED
  BY <1>1, InitIInv, PTL DEF Spec

\* A chopstick is in the hands of one philosopher at most, and its flag is set then.
THEOREM ChopsticksAreNotShared == Spec => []OneHolderEach
<1>1. IInv => OneHolderEach
  BY DEF IInv
<1> QED
  BY <1>1, Invariance, PTL

-----------------------------------------------------------------------------
(* Nobody waits in a circle. *)

\* A nonempty set of chopsticks has one with the highest number.
LEMMA HighestChopstick ==
    ASSUME NEW S \in SUBSET Chopsticks, S # {}
    PROVE  \E c \in S : \A d \in S : d <= c
<1> DEFINE T == {N - c : c \in S}
<1>1. T \subseteq Nat /\ T # {}
  <2>1. \A c \in S : c \in Int /\ c <= N
    BY NAssumption DEF Chopsticks
  <2>2. \A c \in S : N - c \in Nat
    BY <2>1, NAssumption
  <2> QED
    BY <2>2
<1>2. PICK x \in T : \A y \in T : ~(<<y, x>> \in OpToRel(<, Nat))
  <2> HIDE DEF T
  <2> QED
    BY <1>1, WFMin, NatLessThanWellFounded
<1>3. \A y \in T : ~(y < x)
  BY <1>1, <1>2 DEF OpToRel
<1>4. PICK c \in S : x = N - c
  BY <1>2
<1>5. ASSUME NEW d \in S PROVE d <= c
  <2>1. ~(N - d < N - c)
    BY <1>3, <1>4
  <2> QED
    BY <2>1, NAssumption DEF Chopsticks
<1> QED
  BY <1>5

\* If everybody waited, each would wait for a chopstick that somebody holds who waits
\* for one with a higher number: there would be no highest one.
LEMMA NoCircle == TypeOK => SomebodyCanMove
<1> SUFFICES ASSUME TypeOK, Owned, \A p \in Philosophers : Blocked(p) PROVE FALSE
  BY DEF SomebodyCanMove
<1> DEFINE S == {c \in Chopsticks : flag[c]}
<1>1. 1 \in Philosophers
  BY NAssumption DEF Philosophers
<1>2. S # {}
  BY <1>1, SeatOrder DEF Blocked
<1>3. PICK c \in S : \A d \in S : d <= c
  BY <1>2, HighestChopstick
<1>4. PICK p \in Philosophers : c \in Holds(p)
  BY <1>3 DEF Owned
<1>5. pc[p] = "holding" /\ c = A(p) /\ flag[B(p)]
  BY <1>4, HoldsValue DEF Blocked
<1>6. B(p) \in S /\ c < B(p)
  BY <1>5, SeatOrder
<1>7. B(p) <= c
  BY <1>3, <1>6
<1> QED
  BY <1>6, <1>7, SeatOrder DEF Chopsticks

\* The philosophers never all wait for each other.
THEOREM NobodyWaitsInACircle == Spec => []SomebodyCanMove
<1>1. IInv => SomebodyCanMove
  BY NoCircle DEF IInv
<1> QED
  BY <1>1, Invariance, PTL

\* If all flags are clear at first, none is ever set that nobody holds, and somebody
\* can always go on.
THEOREM FeastNeverStops ==
    Spec /\ Owned => [](Owned /\ \E p \in Philosophers : ~Blocked(p))
<1>1. IInv /\ Owned /\ [Next]_vars => Owned'
  <2> SUFFICES ASSUME IInv, Owned, [Next]_vars PROVE Owned'
    OBVIOUS
  <2>1. ASSUME NEW p \in Philosophers, Step(p), NEW c \in Chopsticks, flag'[c]
        PROVE  \E q \in Philosophers : c \in Holds(q)'
    BY <2>1, StepEffect, StepOthers DEF IInv, Owned
  <2>2. CASE UNCHANGED vars
    BY <2>2 DEF vars, Owned, Holds
  <2> QED
    BY <2>1, <2>2 DEF Next, Owned
<1>2. IInv /\ Owned => \E p \in Philosophers : ~Blocked(p)
  BY NoCircle DEF IInv, SomebodyCanMove
<1> QED
  BY <1>1, <1>2, Invariance, PTL DEF Spec

-----------------------------------------------------------------------------
(* The table implements Feast. *)

\* Whoever eats has both chopsticks to itself.
THEOREM TableImplementsFeast == Spec => FeastSpec
<1> DEFINE Eaters == {p \in Philosophers : pc[p] = "eating"}
<1>1. Init => Table!Init
  BY DEF Init, Table!Init
<1>2. IInv /\ [Next]_vars => [Table!Next]_Eaters
  <2> SUFFICES ASSUME IInv, [Next]_vars PROVE [Table!Next]_Eaters
    OBVIOUS
  <2>1. ASSUME NEW p \in Philosophers, GetHungry(p) \/ TakeA(p) \/ BackOff(p) \/ PutA(p)
        PROVE  Eaters' = Eaters
    BY <2>1 DEF IInv, TypeOK, GetHungry, TakeA, BackOff, PutA
  <2>2. ASSUME NEW p \in Philosophers, TakeB(p) PROVE Table!Begin(p)
    <3>1. p \notin Eaters /\ Eaters' = Eaters \union {p}
      BY <2>2 DEF IInv, TypeOK, TakeB
    <3>2. ASSUME NEW q \in Eaters, q # p PROVE Sticks[p] \intersect Sticks[q] = {}
      <4>1. A(p) \in Holds(p) /\ Holds(q) = Sticks[q] /\ ~flag[B(p)]
        BY <2>2, <3>2, HoldsValue, SeatOrder DEF TakeB
      <4>2. A(p) \notin Sticks[q] /\ B(p) \notin Sticks[q]
        BY <4>1, <3>2 DEF IInv, OneHolderEach
      <4> QED
        BY <4>2, SeatOrder
    <3> QED
      BY <3>1, <3>2 DEF Table!Begin, Table!Neighbours
  <2>3. ASSUME NEW p \in Philosophers, PutB(p) PROVE Table!End(p)
    BY <2>3 DEF IInv, TypeOK, PutB, Table!End
  <2>4. CASE UNCHANGED vars
    BY <2>4 DEF vars
  <2> QED
    BY <2>1, <2>2, <2>3, <2>4 DEF Next, Step, Table!Next
<1> QED
  BY <1>1, <1>2, Invariance, PTL DEF Spec, FeastSpec, Table!Spec
=============================================================================
