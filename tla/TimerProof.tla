----------------------------- MODULE TimerProof -----------------------------
(***************************************************************************)
(* Proofs about Timer, for every bound: type correctness, the safety of    *)
(* its sleep and of its destructor, and how often it fires.                *)
(*                                                                         *)
(* All but the last theorem are of any set of timers.  The last is of one, *)
(* because the count of run() is shared: with two timers it is false.      *)
(***************************************************************************)
EXTENDS Timer, TLAPS

\* The destructor announces itself by exit_requested_.
ExitAnnounced == \A x \in Timers : exit[x] <=> dtor[x] # "alive"

\* While the handler is called the timer is expired, or was set anew.
ExpiredInHandler ==
    \A x \in Timers : pc[x] \in {"handler", "counting", "comparing"}
                          => timer[x].left <= MaxDuration

\* Once the destructor stopped the timer, only a thread on its way to the test of
\* exit_requested_ can still find it running.
StaysStopped ==
    \A x \in Timers : dtor[x] \in {"stopped", "joining", "gone"} =>
        /\ pc[x] # "checked"
        /\ pc[x] \in {"starting", "blocked", "woken"} => ~timer[x].running
        /\ dtor[x] # "stopped" => pc[x] # "blocked"

IInv == TypeOK /\ ExitAnnounced /\ ExpiredInHandler /\ SleepsToExpiry /\ StaysStopped

-----------------------------------------------------------------------------
(* The invariant holds initially and every step preserves it. *)

\* The invariant holds for timers that were just constructed: no thread sleeps.
LEMMA InitIInv == Init => IInv
BY TimerAssumption DEF Init, IInv, TypeOK, Fields, Times, Durations, ExitAnnounced,
   ExpiredInHandler, SleepsToExpiry, StaysStopped

\* The fields that the four start_*() calls leave, and those that change left alone.
LEMMA Started ==
    ASSUME NEW r \in Fields, NEW d \in Durations, NEW n \in 0..MaxCount
    PROVE  LET once == [r EXCEPT !.mode = "kOneshot", !.left = d, !.running = TRUE]
               immediate == [r EXCEPT !.mode = "kPeriodic", !.left = 0, !.period = d,
                                      !.running = TRUE]
               delayed == [r EXCEPT !.mode = "kPeriodic", !.left = d, !.period = d,
                                    !.running = TRUE]
               limited == [r EXCEPT !.mode = "kCountPeriodic", !.left = 0, !.period = d,
                                     !.running = TRUE, !.max_count = n]
           IN  \A q \in {once, immediate, delayed, limited} :
                   q \in Fields /\ q.left <= MaxDuration
<1>1. d \in Times /\ d <= MaxDuration /\ 0 \in Times /\ 0 <= MaxDuration
  BY TimerAssumption DEF Durations, Times
<1>2. ASSUME NEW q \in {[r EXCEPT !.mode = "kOneshot", !.left = d, !.running = TRUE]}
      PROVE  q \in Fields /\ q.left <= MaxDuration
  BY <1>1 DEF Fields
<1>3. ASSUME NEW q \in {[r EXCEPT !.mode = "kPeriodic", !.left = 0, !.period = d,
                                  !.running = TRUE]}
      PROVE  q \in Fields /\ q.left <= MaxDuration
  BY <1>1 DEF Fields
<1>4. ASSUME NEW q \in {[r EXCEPT !.mode = "kPeriodic", !.left = d, !.period = d,
                                  !.running = TRUE]}
      PROVE  q \in Fields /\ q.left <= MaxDuration
  BY <1>1 DEF Fields
<1>5. ASSUME NEW q \in {[r EXCEPT !.mode = "kCountPeriodic", !.left = 0, !.period = d,
                                  !.running = TRUE, !.max_count = n]}
      PROVE  q \in Fields /\ q.left <= MaxDuration
  BY <1>1 DEF Fields
<1> QED
  BY <1>2, <1>3, <1>4, <1>5

\* Time that passes, and a period that is added to a time not later than
\* MaxDuration, give a time again.
LEMMA Retimed ==
    ASSUME NEW r \in Fields
    PROVE  /\ [r EXCEPT !.left = Earlier(@)] \in Fields
           /\ r.left <= MaxDuration => [r EXCEPT !.left = @ + r.period] \in Fields
           /\ [r EXCEPT !.running = FALSE] \in Fields
<1>1. r.left \in Times /\ r.period \in Durations
  BY DEF Fields
<1>2. Earlier(r.left) \in Times
  BY <1>1, TimerAssumption DEF Earlier, Times
<1>3. r.left <= MaxDuration => r.left + r.period \in Times
  BY <1>1, TimerAssumption DEF Durations, Times
<1> QED
  BY <1>2, <1>3 DEF Fields

\* Start preserves the invariant.
LEMMA StartStep ==
    ASSUME IInv, NEW x \in Timers, NEW fields \in Fields, fields.left <= MaxDuration,
           Start(x, fields)
    PROVE  IInv'
<1> USE TimerAssumption DEF Start, MayCall, MutexFree, NotifyAll
<1>1. TypeOK'
  BY DEF IInv, TypeOK, Fields, Times, Durations
<1>2. ExitAnnounced'
  BY DEF IInv, TypeOK, ExitAnnounced
<1>3. ExpiredInHandler'
  BY DEF IInv, TypeOK, Fields, Times, Durations, ExpiredInHandler
<1>4. SleepsToExpiry'
  BY DEF IInv, TypeOK, Fields, Times, SleepsToExpiry
<1>5. StaysStopped'
  BY DEF IInv, TypeOK, Fields, ExitAnnounced, StaysStopped
<1> QED
  BY <1>1, <1>2, <1>3, <1>4, <1>5 DEF IInv

\* Stop preserves the invariant.
LEMMA StopStep ==
    ASSUME IInv, NEW x \in Timers, Stop(x)
    PROVE  IInv'
<1> USE TimerAssumption DEF Stop, MayCall, MutexFree
<1>1. TypeOK'
  BY DEF IInv, TypeOK, Fields, Times, Durations
<1>2. ExitAnnounced'
  BY DEF IInv, TypeOK, ExitAnnounced
<1>3. ExpiredInHandler'
  BY DEF IInv, TypeOK, Fields, Times, Durations, ExpiredInHandler
<1>4. SleepsToExpiry'
  BY DEF IInv, TypeOK, Fields, Times, SleepsToExpiry
<1>5. StaysStopped'
  BY DEF IInv, TypeOK, Fields, ExitAnnounced, StaysStopped
<1> QED
  BY <1>1, <1>2, <1>3, <1>4, <1>5 DEF IInv

\* RequestExit preserves the invariant.
LEMMA RequestExitStep ==
    ASSUME IInv, NEW x \in Timers, RequestExit(x)
    PROVE  IInv'
<1> USE TimerAssumption DEF RequestExit
<1>1. TypeOK'
  BY DEF IInv, TypeOK, Fields, Times, Durations
<1>2. ExitAnnounced'
  BY DEF IInv, TypeOK, ExitAnnounced
<1>3. ExpiredInHandler'
  BY DEF IInv, TypeOK, Fields, Times, Durations, ExpiredInHandler
<1>4. SleepsToExpiry'
  BY DEF IInv, TypeOK, Fields, Times, SleepsToExpiry
<1>5. StaysStopped'
  BY DEF IInv, TypeOK, Fields, ExitAnnounced, StaysStopped
<1> QED
  BY <1>1, <1>2, <1>3, <1>4, <1>5 DEF IInv

\* StopInDestructor preserves the invariant.
LEMMA StopInDestructorStep ==
    ASSUME IInv, NEW x \in Timers, StopInDestructor(x)
    PROVE  IInv'
<1> USE TimerAssumption DEF StopInDestructor, MutexFree
<1>1. TypeOK'
  BY DEF IInv, TypeOK, Fields, Times, Durations
<1>2. ExitAnnounced'
  BY DEF IInv, TypeOK, ExitAnnounced
<1>3. ExpiredInHandler'
  BY DEF IInv, TypeOK, Fields, Times, Durations, ExpiredInHandler
<1>4. SleepsToExpiry'
  BY DEF IInv, TypeOK, Fields, Times, SleepsToExpiry
<1>5. StaysStopped'
  BY DEF IInv, TypeOK, Fields, ExitAnnounced, StaysStopped
<1> QED
  BY <1>1, <1>2, <1>3, <1>4, <1>5 DEF IInv

\* LiftThread preserves the invariant.
LEMMA LiftThreadStep ==
    ASSUME IInv, NEW x \in Timers, LiftThread(x)
    PROVE  IInv'
<1> USE TimerAssumption DEF LiftThread, NotifyAll
<1>1. TypeOK'
  BY DEF IInv, TypeOK, Fields, Times, Durations
<1>2. ExitAnnounced'
  BY DEF IInv, TypeOK, ExitAnnounced
<1>3. ExpiredInHandler'
  BY DEF IInv, TypeOK, Fields, Times, Durations, ExpiredInHandler
<1>4. SleepsToExpiry'
  BY DEF IInv, TypeOK, Fields, Times, SleepsToExpiry
<1>5. StaysStopped'
  BY DEF IInv, TypeOK, Fields, ExitAnnounced, StaysStopped
<1> QED
  BY <1>1, <1>2, <1>3, <1>4, <1>5 DEF IInv

\* Join preserves the invariant.
LEMMA JoinStep ==
    ASSUME IInv, NEW x \in Timers, Join(x)
    PROVE  IInv'
<1> USE TimerAssumption DEF Join
<1>1. TypeOK'
  BY DEF IInv, TypeOK, Fields, Times, Durations
<1>2. ExitAnnounced'
  BY DEF IInv, TypeOK, ExitAnnounced
<1>3. ExpiredInHandler'
  BY DEF IInv, TypeOK, Fields, Times, Durations, ExpiredInHandler
<1>4. SleepsToExpiry'
  BY DEF IInv, TypeOK, Fields, Times, SleepsToExpiry
<1>5. StaysStopped'
  BY DEF IInv, TypeOK, Fields, ExitAnnounced, StaysStopped
<1> QED
  BY <1>1, <1>2, <1>3, <1>4, <1>5 DEF IInv

\* Lock preserves the invariant.
LEMMA LockStep ==
    ASSUME IInv, NEW x \in Timers, Lock(x)
    PROVE  IInv'
<1> USE TimerAssumption DEF Lock, Goto
<1>1. TypeOK'
  BY DEF IInv, TypeOK, Fields, Times, Durations
<1>2. ExitAnnounced'
  BY DEF IInv, TypeOK, ExitAnnounced
<1>3. ExpiredInHandler'
  BY DEF IInv, TypeOK, Fields, Times, Durations, ExpiredInHandler
<1>4. SleepsToExpiry'
  BY DEF IInv, TypeOK, Fields, Times, SleepsToExpiry
<1>5. StaysStopped'
  BY DEF IInv, TypeOK, Fields, ExitAnnounced, StaysStopped
<1> QED
  BY <1>1, <1>2, <1>3, <1>4, <1>5 DEF IInv

\* TestExit preserves the invariant.
LEMMA TestExitStep ==
    ASSUME IInv, NEW x \in Timers, TestExit(x)
    PROVE  IInv'
<1> USE TimerAssumption DEF TestExit, Goto
<1>1. TypeOK'
  BY DEF IInv, TypeOK, Fields, Times, Durations
<1>2. ExitAnnounced'
  BY DEF IInv, TypeOK, ExitAnnounced
<1>3. ExpiredInHandler'
  BY DEF IInv, TypeOK, Fields, Times, Durations, ExpiredInHandler
<1>4. SleepsToExpiry'
  BY DEF IInv, TypeOK, Fields, Times, SleepsToExpiry
<1>5. StaysStopped'
  BY DEF IInv, TypeOK, Fields, ExitAnnounced, StaysStopped
<1> QED
  BY <1>1, <1>2, <1>3, <1>4, <1>5 DEF IInv

\* Block preserves the invariant.
LEMMA BlockStep ==
    ASSUME IInv, NEW x \in Timers, Block(x)
    PROVE  IInv'
<1> USE TimerAssumption DEF Block, Goto
<1>1. TypeOK'
  BY DEF IInv, TypeOK, Fields, Times, Durations
<1>2. ExitAnnounced'
  BY DEF IInv, TypeOK, ExitAnnounced
<1>3. ExpiredInHandler'
  BY DEF IInv, TypeOK, Fields, Times, Durations, ExpiredInHandler
<1>4. SleepsToExpiry'
  BY DEF IInv, TypeOK, Fields, Times, SleepsToExpiry
<1>5. StaysStopped'
  BY DEF IInv, TypeOK, Fields, ExitAnnounced, StaysStopped
<1> QED
  BY <1>1, <1>2, <1>3, <1>4, <1>5 DEF IInv

\* Timeout preserves the invariant.
LEMMA TimeoutStep ==
    ASSUME IInv, NEW x \in Timers, Timeout(x)
    PROVE  IInv'
<1> USE TimerAssumption DEF Timeout, Goto
<1>1. TypeOK'
  BY DEF IInv, TypeOK, Fields, Times, Durations
<1>2. ExitAnnounced'
  BY DEF IInv, TypeOK, ExitAnnounced
<1>3. ExpiredInHandler'
  BY DEF IInv, TypeOK, Fields, Times, Durations, ExpiredInHandler
<1>4. SleepsToExpiry'
  BY DEF IInv, TypeOK, Fields, Times, SleepsToExpiry
<1>5. StaysStopped'
  BY DEF IInv, TypeOK, Fields, ExitAnnounced, StaysStopped
<1> QED
  BY <1>1, <1>2, <1>3, <1>4, <1>5 DEF IInv

\* SpuriousWakeup preserves the invariant.
LEMMA SpuriousWakeupStep ==
    ASSUME IInv, NEW x \in Timers, SpuriousWakeup(x)
    PROVE  IInv'
<1> USE TimerAssumption DEF SpuriousWakeup, Goto
<1>1. TypeOK'
  BY DEF IInv, TypeOK, Fields, Times, Durations
<1>2. ExitAnnounced'
  BY DEF IInv, TypeOK, ExitAnnounced
<1>3. ExpiredInHandler'
  BY DEF IInv, TypeOK, Fields, Times, Durations, ExpiredInHandler
<1>4. SleepsToExpiry'
  BY DEF IInv, TypeOK, Fields, Times, SleepsToExpiry
<1>5. StaysStopped'
  BY DEF IInv, TypeOK, Fields, ExitAnnounced, StaysStopped
<1> QED
  BY <1>1, <1>2, <1>3, <1>4, <1>5 DEF IInv

\* Wake preserves the invariant.
LEMMA WakeStep ==
    ASSUME IInv, NEW x \in Timers, Wake(x)
    PROVE  IInv'
<1> USE TimerAssumption DEF Wake, Goto
<1>1. TypeOK'
  BY DEF IInv, TypeOK, Fields, Times, Durations
<1>2. ExitAnnounced'
  BY DEF IInv, TypeOK, ExitAnnounced
<1>3. ExpiredInHandler'
  BY DEF IInv, TypeOK, Fields, Times, Durations, ExpiredInHandler
<1>4. SleepsToExpiry'
  BY DEF IInv, TypeOK, Fields, Times, SleepsToExpiry
<1>5. StaysStopped'
  BY DEF IInv, TypeOK, Fields, ExitAnnounced, StaysStopped
<1> QED
  BY <1>1, <1>2, <1>3, <1>4, <1>5 DEF IInv

\* Rearm preserves the invariant.
LEMMA RearmStep ==
    ASSUME IInv, NEW x \in Timers, Rearm(x)
    PROVE  IInv'
<1> USE TimerAssumption DEF Rearm, Goto
<1>1. TypeOK'
  <2>1. timer[x] \in Fields /\ timer[x].left <= MaxDuration
    BY DEF IInv, TypeOK, ExpiredInHandler
  <2>2. timer' \in [Timers -> Fields]
    BY <2>1, Retimed DEF IInv, TypeOK
  <2> QED
    BY <2>2 DEF IInv, TypeOK
<1>2. ExitAnnounced'
  BY DEF IInv, TypeOK, ExitAnnounced
<1>3. ExpiredInHandler'
  BY DEF IInv, TypeOK, Fields, Times, Durations, ExpiredInHandler
<1>4. SleepsToExpiry'
  BY DEF IInv, TypeOK, Fields, Times, SleepsToExpiry
<1>5. StaysStopped'
  BY DEF IInv, TypeOK, Fields, ExitAnnounced, StaysStopped
<1> QED
  BY <1>1, <1>2, <1>3, <1>4, <1>5 DEF IInv

\* StoreCount preserves the invariant.
LEMMA StoreCountStep ==
    ASSUME IInv, NEW x \in Timers, StoreCount(x)
    PROVE  IInv'
<1> USE TimerAssumption DEF StoreCount, Goto
<1>1. TypeOK'
  BY DEF IInv, TypeOK, Fields, Times, Durations
<1>2. ExitAnnounced'
  BY DEF IInv, TypeOK, ExitAnnounced
<1>3. ExpiredInHandler'
  BY DEF IInv, TypeOK, Fields, Times, Durations, ExpiredInHandler
<1>4. SleepsToExpiry'
  BY DEF IInv, TypeOK, Fields, Times, SleepsToExpiry
<1>5. StaysStopped'
  BY DEF IInv, TypeOK, Fields, ExitAnnounced, StaysStopped
<1> QED
  BY <1>1, <1>2, <1>3, <1>4, <1>5 DEF IInv

\* Compare preserves the invariant.
LEMMA CompareStep ==
    ASSUME IInv, NEW x \in Timers, Compare(x)
    PROVE  IInv'
<1> USE TimerAssumption DEF Compare, Goto
<1>1. TypeOK'
  <2>1. timer[x] \in Fields /\ timer[x].left <= MaxDuration
    BY DEF IInv, TypeOK, ExpiredInHandler
  <2>2. timer' \in [Timers -> Fields]
    BY <2>1, Retimed DEF IInv, TypeOK
  <2> QED
    BY <2>2 DEF IInv, TypeOK
<1>2. ExitAnnounced'
  BY DEF IInv, TypeOK, ExitAnnounced
<1>3. ExpiredInHandler'
  BY DEF IInv, TypeOK, Fields, Times, Durations, ExpiredInHandler
<1>4. SleepsToExpiry'
  BY DEF IInv, TypeOK, Fields, Times, SleepsToExpiry
<1>5. StaysStopped'
  BY DEF IInv, TypeOK, Fields, ExitAnnounced, StaysStopped
<1> QED
  BY <1>1, <1>2, <1>3, <1>4, <1>5 DEF IInv

\* Tick preserves the invariant.
LEMMA TickStep ==
    ASSUME IInv, Tick
    PROVE  IInv'
<1> USE TimerAssumption DEF Tick, Earlier
<1>1. TypeOK'
  <2>1. \A x \in Timers : [timer[x] EXCEPT !.left = Earlier(@)] \in Fields
    BY Retimed DEF IInv, TypeOK
  <2>2. timer' \in [Timers -> Fields]
    BY <2>1
  <2>3. deadline' \in [Timers -> Times \union {None}]
    BY DEF IInv, TypeOK, Times
  <2> QED
    BY <2>2, <2>3 DEF IInv, TypeOK
<1>2. ExitAnnounced'
  BY DEF IInv, TypeOK, ExitAnnounced
<1>3. ExpiredInHandler'
  BY DEF IInv, TypeOK, Fields, Times, Durations, ExpiredInHandler
<1>4. SleepsToExpiry'
  BY DEF IInv, TypeOK, Fields, Times, SleepsToExpiry, Durations
<1>5. StaysStopped'
  BY DEF IInv, TypeOK, Fields, ExitAnnounced, StaysStopped
<1> QED
  BY <1>1, <1>2, <1>3, <1>4, <1>5 DEF IInv

\* Every step preserves the invariant: one lemma for each action.
LEMMA NextIInv == IInv /\ [Next]_vars => IInv'
<1> SUFFICES ASSUME IInv, [Next]_vars PROVE IInv'
  OBVIOUS
<1>1. ASSUME NEW x \in Timers, Call(x) PROVE IInv'
  <2>1. timer[x] \in Fields /\ 0 \in 0..MaxCount
    BY TimerAssumption DEF IInv, TypeOK
  <2>2. ASSUME NEW d \in Durations, StartOnce(x, d) PROVE IInv'
    BY <2>1, <2>2, Started, StartStep DEF StartOnce
  <2>3. ASSUME NEW d \in Durations, StartPeriodicImmediate(x, d) PROVE IInv'
    BY <2>1, <2>3, Started, StartStep DEF StartPeriodicImmediate
  <2>4. ASSUME NEW d \in Durations, StartPeriodicDelayed(x, d) PROVE IInv'
    BY <2>1, <2>4, Started, StartStep DEF StartPeriodicDelayed
  <2>5. ASSUME NEW d \in Durations, NEW n \in 0..MaxCount,
               StartCountPeriodicImmediate(x, d, n)
        PROVE  IInv'
    BY <2>1, <2>5, Started, StartStep DEF StartCountPeriodicImmediate
  <2> QED
    BY <1>1, <2>2, <2>3, <2>4, <2>5, StopStep DEF Call
<1>2. ASSUME NEW x \in Timers, RequestExit(x) \/ Destructor(x) PROVE IInv'
  BY <1>2, RequestExitStep, StopInDestructorStep, LiftThreadStep, JoinStep DEF Destructor
<1>3. ASSUME NEW x \in Timers, Thread(x) \/ SpuriousWakeup(x) PROVE IInv'
  BY <1>3, LockStep, TestExitStep, BlockStep, TimeoutStep, SpuriousWakeupStep, WakeStep,
     RearmStep, StoreCountStep, CompareStep DEF Thread
<1>4. CASE Tick
  BY <1>4, TickStep
<1>5. CASE UNCHANGED vars
  BY <1>5 DEF vars, IInv, TypeOK, ExitAnnounced, ExpiredInHandler, SleepsToExpiry, StaysStopped
<1> QED
  BY <1>1, <1>2, <1>3, <1>4, <1>5 DEF Next

\* The inductive invariant holds in every reachable state.
THEOREM Invariance == Spec => []IInv
BY InitIInv, NextIInv, PTL DEF Spec

-----------------------------------------------------------------------------
(* The properties. *)

\* Every field of every timer keeps its type; in particular the time to the next
\* expiry is never more than twice the longest duration.
THEOREM TypeCorrect == Spec => []TypeOK
<1>1. IInv => TypeOK
  BY DEF IInv
<1> QED
  BY <1>1, Invariance, PTL

\* A thread that sleeps while its timer runs sleeps to the next expiry point.
THEOREM NeverOversleeps == Spec => []SleepsToExpiry
<1>1. IInv => SleepsToExpiry
  BY DEF IInv
<1> QED
  BY <1>1, Invariance, PTL

\* The destructor never joins a thread that nobody will wake up.
THEOREM DestructorJoinsNoSleeper == Spec => []NeverJoinsASleeper
<1>1. IInv => NeverJoinsASleeper
  BY DEF IInv, StaysStopped, NeverJoinsASleeper
<1> QED
  BY <1>1, Invariance, PTL

\* No call of the handler begins once the destructor stopped the timer.
THEOREM NoHandlerCallOnceStopped == Spec => NoFireOnceStopped
<1> DEFINE Quiet == \A x \in Timers :
               dtor[x] \in {"stopped", "joining", "gone"} /\ pc'[x] = "handler"
                   => pc[x] = "handler"
<1>1. IInv /\ [Next]_vars => [Quiet]_vars
  <2> SUFFICES ASSUME IInv, Next, NEW x \in Timers,
                      dtor[x] \in {"stopped", "joining", "gone"},
                      pc'[x] = "handler", pc[x] # "handler"
               PROVE  FALSE
    OBVIOUS
  <2>1. pc \in [Timers -> {"starting", "head", "checked", "blocked", "woken",
                           "handler", "counting", "comparing", "ended"}]
    BY DEF IInv, TypeOK
  <2>2. ASSUME NEW y \in Timers, Call(y) PROVE FALSE
    BY <2>1, <2>2 DEF Call, StartOnce, StartPeriodicImmediate, StartPeriodicDelayed,
       StartCountPeriodicImmediate, Start, Stop, NotifyAll
  <2>3. ASSUME NEW y \in Timers, RequestExit(y) \/ Destructor(y) PROVE FALSE
    BY <2>1, <2>3 DEF RequestExit, Destructor, StopInDestructor, LiftThread, Join, NotifyAll
  <2>4. ASSUME NEW y \in Timers, Wake(y) PROVE FALSE
    BY <2>1, <2>4 DEF Wake, Goto, IInv, StaysStopped
  <2>5. ASSUME NEW y \in Timers,
               \/ Lock(y) \/ TestExit(y) \/ Block(y) \/ Timeout(y) \/ SpuriousWakeup(y)
               \/ Rearm(y) \/ StoreCount(y) \/ Compare(y)
        PROVE  FALSE
    BY <2>1, <2>5 DEF Lock, TestExit, Block, Timeout, SpuriousWakeup, Rearm, StoreCount,
       Compare, Goto
  <2>6. CASE Tick
    BY <2>6 DEF Tick
  <2> QED
    BY <2>2, <2>3, <2>4, <2>5, <2>6 DEF Next, Thread
<1> QED
  BY <1>1, Invariance, PTL DEF Spec, NoFireOnceStopped

-----------------------------------------------------------------------------
(* The destructor's way to its end. *)

\* How many steps the thread of x is from its end when it is told to end.
StepsToGo(x) == CASE pc[x] = "ended" -> 0
                  [] pc[x] = "head" -> 1
                  [] pc[x] \in {"starting", "woken", "comparing"} -> 2
                  [] pc[x] = "counting" -> 3
                  [] pc[x] = "handler" -> 4
                  [] OTHER -> 5

\* A thread that is joined comes nearer to its end with each of its steps, and nobody, not
\* even its own handler, sends it back.
JoinComesNearer ==
    [][\A x \in Timers : dtor[x] = "joining" =>
          /\ StepsToGo(x) < 5
          /\ StepsToGo(x)' <= StepsToGo(x)
          /\ Thread(x) => StepsToGo(x)' < StepsToGo(x)]_vars

\* The half of DestructorReturns that needs no fairness: the join is over after four
\* steps of the thread, whatever else happens.
THEOREM DestructorWaitsForFourSteps == Spec => JoinComesNearer
<1> DEFINE Nearer == \A x \in Timers : dtor[x] = "joining" =>
               /\ StepsToGo(x) < 5
               /\ StepsToGo(x)' <= StepsToGo(x)
               /\ Thread(x) => StepsToGo(x)' < StepsToGo(x)
<1>1. ASSUME IInv, Next, NEW x \in Timers, dtor[x] = "joining"
      PROVE  /\ StepsToGo(x) < 5
             /\ pc'[x] = pc[x] \/ StepsToGo(x)' < StepsToGo(x)
             /\ Thread(x) => StepsToGo(x)' < StepsToGo(x)
  <2>1. /\ pc \in [Timers -> {"starting", "head", "checked", "blocked", "woken",
                              "handler", "counting", "comparing", "ended"}]
        /\ exit[x] /\ pc[x] \notin {"checked", "blocked"}
        /\ pc[x] \in {"starting", "woken"} => ~timer[x].running
    BY <1>1 DEF IInv, TypeOK, ExitAnnounced, StaysStopped
  <2>2. StepsToGo(x) < 5
    BY <2>1 DEF StepsToGo
  <2>3. ASSUME Thread(x) PROVE StepsToGo(x)' < StepsToGo(x)
    <3>1. CASE Lock(x)
      BY <2>1, <3>1 DEF Lock, Goto, StepsToGo
    <3>2. CASE TestExit(x)
      BY <2>1, <3>2 DEF TestExit, Goto, StepsToGo
    <3>3. CASE Block(x) \/ Timeout(x)
      BY <2>1, <3>3 DEF Block, Timeout
    <3>4. CASE Wake(x)
      BY <2>1, <3>4 DEF Wake, Goto, StepsToGo
    <3>5. CASE Rearm(x)
      BY <2>1, <3>5 DEF Rearm, Goto, StepsToGo
    <3>6. CASE StoreCount(x)
      BY <2>1, <3>6 DEF StoreCount, Goto, StepsToGo
    <3>7. CASE Compare(x)
      BY <2>1, <3>7 DEF Compare, Goto, StepsToGo
    <3> QED
      BY <2>3, <3>1, <3>2, <3>3, <3>4, <3>5, <3>6, <3>7 DEF Thread
  <2>4. pc'[x] = pc[x] \/ Thread(x)
    <3>1. ASSUME NEW y \in Timers, Call(y) PROVE pc'[x] = pc[x]
      BY <2>1, <3>1 DEF Call, StartOnce, StartPeriodicImmediate, StartPeriodicDelayed,
         StartCountPeriodicImmediate, Start, Stop, NotifyAll
    <3>2. ASSUME NEW y \in Timers, RequestExit(y) \/ Destructor(y) PROVE pc'[x] = pc[x]
      BY <2>1, <3>2 DEF RequestExit, Destructor, StopInDestructor, LiftThread, Join, NotifyAll
    <3>3. ASSUME NEW y \in Timers, Thread(y) \/ SpuriousWakeup(y), y # x
          PROVE  pc'[x] = pc[x]
      BY <2>1, <3>3 DEF Thread, Lock, TestExit, Block, Timeout, Wake, Rearm, StoreCount,
         Compare, SpuriousWakeup, Goto
    <3>4. ~SpuriousWakeup(x)
      BY <2>1 DEF SpuriousWakeup
    <3>5. CASE Tick
      BY <3>5 DEF Tick
    <3> QED
      BY <1>1, <3>1, <3>2, <3>3, <3>4, <3>5 DEF Next
  <2> QED
    BY <2>2, <2>3, <2>4
<1>2. IInv /\ [Next]_vars => [Nearer]_vars
  <2> SUFFICES ASSUME IInv, Next PROVE Nearer
    OBVIOUS
  <2> SUFFICES ASSUME NEW x \in Timers, dtor[x] = "joining"
               PROVE  /\ StepsToGo(x) < 5
                      /\ StepsToGo(x)' <= StepsToGo(x)
                      /\ Thread(x) => StepsToGo(x)' < StepsToGo(x)
    OBVIOUS
  <2>1. StepsToGo(x) \in 0..5
    BY DEF StepsToGo
  <2>2. pc'[x] = pc[x] => StepsToGo(x)' = StepsToGo(x)
    BY DEF StepsToGo
  <2>3. StepsToGo(x)' \in 0..5
    BY DEF StepsToGo
  <2> QED
    BY <1>1, <2>1, <2>2, <2>3
<1> QED
  BY <1>2, Invariance, PTL DEF Spec, JoinComesNearer

-----------------------------------------------------------------------------
(* How often a timer fires. *)

\* A one-shot timer that runs has not fired, unless it is firing now.
OneShotCounted ==
    \A x \in Timers : timer[x].mode = "kOneshot" =>
        /\ fires[x] <= 1
        /\ timer[x].running /\ pc[x] # "handler" => fires[x] = 0

LEMMA OneShotStep == ASSUME TypeOK, OneShotCounted, [Next]_vars PROVE OneShotCounted'
<1>1. /\ timer \in [Timers -> Fields] /\ fires \in [Timers -> 0..MaxCount + 1]
      /\ DOMAIN pc = Timers /\ pc = [x \in Timers |-> pc[x]]
  BY DEF TypeOK
<1>2. ASSUME NEW x \in Timers, NEW fields \in Fields, Start(x, fields) PROVE OneShotCounted'
  BY <1>1, <1>2 DEF Start, NotifyAll, OneShotCounted
<1>3. ASSUME NEW x \in Timers, Call(x) PROVE OneShotCounted'
  <2>1. timer[x] \in Fields /\ 0 \in 0..MaxCount
    BY <1>1, TimerAssumption
  <2>2. CASE Stop(x)
    BY <1>1, <2>2 DEF Stop, OneShotCounted, Fields
  <2> QED
    BY <1>2, <1>3, <2>1, <2>2, Started
       DEF Call, StartOnce, StartPeriodicImmediate, StartPeriodicDelayed,
           StartCountPeriodicImmediate
<1>4. ASSUME NEW x \in Timers, RequestExit(x) \/ Destructor(x) PROVE OneShotCounted'
  BY <1>1, <1>4 DEF RequestExit, Destructor, StopInDestructor, LiftThread, Join, NotifyAll,
     OneShotCounted, Fields
<1>5. ASSUME NEW x \in Timers,
             \/ Lock(x) \/ TestExit(x) \/ Block(x) \/ Timeout(x) \/ SpuriousWakeup(x)
             \/ StoreCount(x)
      PROVE  OneShotCounted'
  BY <1>1, <1>5 DEF Lock, TestExit, Block, Timeout, SpuriousWakeup, StoreCount, Goto,
     OneShotCounted
<1>6. ASSUME NEW x \in Timers, Wake(x) PROVE OneShotCounted'
  BY <1>1, <1>6 DEF Wake, Goto, OneShotCounted
<1>7. ASSUME NEW x \in Timers, Rearm(x) PROVE OneShotCounted'
  BY <1>1, <1>7 DEF Rearm, Goto, OneShotCounted, Fields
<1>8. ASSUME NEW x \in Timers, Compare(x) PROVE OneShotCounted'
  BY <1>1, <1>8 DEF Compare, Goto, OneShotCounted, Fields
<1>9. CASE Tick
  BY <1>1, <1>9 DEF Tick, OneShotCounted, Fields
<1>10. CASE UNCHANGED vars
  BY <1>10 DEF vars, OneShotCounted
<1> QED
  BY <1>3, <1>4, <1>5, <1>6, <1>7, <1>8, <1>9, <1>10 DEF Next, Thread

\* start_once() calls its handler once at most, however many timers there are.
THEOREM OneShotFiresOnce ==
    Spec => [](\A x \in Timers : timer[x].mode = "kOneshot" => fires[x] <= 1)
<1>1. Init => OneShotCounted
  BY DEF Init, OneShotCounted
<1>2. OneShotCounted => \A x \in Timers : timer[x].mode = "kOneshot" => fires[x] <= 1
  BY DEF OneShotCounted
<1> QED
  BY <1>1, <1>2, OneShotStep, TypeCorrect, PTL DEF Spec

\* The static count belongs to a single timer.
OnlyOne == \A x, y \in Timers : x = y

CountIsKept ==
    \A x \in Timers :
        /\ pc[x] \in {"counting", "comparing"} => timer[x].mode = "kCountPeriodic"
        /\ pc[x] = "counting" => counted[x] = count + 1
        /\ pc[x] = "comparing" => counted[x] = count

\* A periodic timer with a count has fired no more often than it counted, once more
\* while it has not counted yet; and when it runs on, the count is not reached.  A timer
\* that was started during its call may find an older count, and fires less often then.
FiringsAreCounted ==
    \A x \in Timers : timer[x].mode = "kCountPeriodic" /\ fires[x] > 0 =>
        /\ fires[x] = 1 \/ fires[x] <= timer[x].max_count
        /\ pc[x] \in {"handler", "counting"} => fires[x] <= count + 1
        /\ pc[x] = "comparing" => fires[x] <= count
        /\ timer[x].running /\ pc[x] \notin {"handler", "counting", "comparing"}
              => fires[x] <= count /\ count < timer[x].max_count

CountOK == CountIsKept /\ FiringsAreCounted

LEMMA CountStep == ASSUME OnlyOne, TypeOK, CountOK, [Next]_vars PROVE CountOK'
<1>1. /\ timer \in [Timers -> Fields] /\ fires \in [Timers -> 0..MaxCount + 1]
      /\ DOMAIN pc = Timers /\ pc = [x \in Timers |-> pc[x]]
      /\ count \in Nat /\ counted \in [Timers -> Nat]
  BY DEF TypeOK
<1> USE <1>1 DEF CountOK, CountIsKept, FiringsAreCounted
<1>2. ASSUME NEW x \in Timers, NEW fields \in Fields, Start(x, fields) PROVE CountOK'
  BY <1>2 DEF Start, MayCall, MutexFree, NotifyAll
<1>3. ASSUME NEW x \in Timers, Call(x) PROVE CountOK'
  <2>1. timer[x] \in Fields /\ 0 \in 0..MaxCount
    BY TimerAssumption
  <2>2. CASE Stop(x)
    BY <2>2 DEF Stop, MayCall, MutexFree, Fields
  <2> QED
    BY <1>2, <1>3, <2>1, <2>2, Started
       DEF Call, StartOnce, StartPeriodicImmediate, StartPeriodicDelayed,
           StartCountPeriodicImmediate
<1>4. ASSUME NEW x \in Timers, RequestExit(x) \/ Destructor(x) PROVE CountOK'
  BY <1>4 DEF RequestExit, Destructor, StopInDestructor, LiftThread, Join, NotifyAll, Fields
<1>5. ASSUME NEW x \in Timers,
             Lock(x) \/ TestExit(x) \/ Block(x) \/ Timeout(x) \/ SpuriousWakeup(x)
      PROVE  CountOK'
  BY <1>5 DEF Lock, TestExit, Block, Timeout, SpuriousWakeup, Goto
<1>6. ASSUME NEW x \in Timers, Wake(x) PROVE CountOK'
  <2>1. /\ timer' = timer /\ count' = count /\ counted' = counted
        /\ pc[x] = "woken" /\ pc'[x] \in {"head", "handler"}
        /\ \A y \in Timers : y # x => pc'[y] = pc[y] /\ fires'[y] = fires[y]
    BY <1>6 DEF Wake, Goto
  <2>2. \/ pc'[x] = "head" /\ fires'[x] = fires[x]
        \/ timer[x].running /\ timer[x].mode = "kPeriodic"
        \/ timer[x].running /\ pc'[x] = "handler" /\ fires'[x] \in {fires[x], fires[x] + 1}
    BY <1>6 DEF Wake, Goto
  <2>3. CountIsKept'
    BY <2>1
  <2>4. timer[x].max_count \in Nat /\ \A y \in Timers : fires[y] \in Nat
    BY DEF Fields
  <2>5. FiringsAreCounted'
    BY <2>1, <2>2, <2>4
  <2> QED
    BY <2>3, <2>5
<1>7. ASSUME NEW x \in Timers, Rearm(x) PROVE CountOK'
  BY <1>7 DEF Rearm, Goto, OnlyOne, Fields
<1>8. ASSUME NEW x \in Timers, StoreCount(x) PROVE CountOK'
  BY <1>8 DEF StoreCount, Goto, OnlyOne
<1>9. ASSUME NEW x \in Timers, Compare(x) PROVE CountOK'
  BY <1>9 DEF Compare, Goto, OnlyOne, Fields
<1>10. CASE Tick
  BY <1>10 DEF Tick, Fields
<1>11. CASE UNCHANGED vars
  BY <1>11 DEF vars
<1> QED
  BY <1>3, <1>4, <1>5, <1>6, <1>7, <1>8, <1>9, <1>10, <1>11 DEF Next, Thread

\* A program with one timer is called back no more often than it asked for, whatever the
\* handler and the other threads do to the timer, and whichever value of count the build
\* compares.  With a second timer this is false, because both write the same count.
THEOREM LoneTimerFiresAtMost == ASSUME OnlyOne PROVE Spec => []FiresAtMost
<1>1. Init => CountOK
  BY DEF Init, CountOK, CountIsKept, FiringsAreCounted
<1>2. TypeOK /\ OneShotCounted /\ CountOK => FiresAtMost
  BY DEF TypeOK, Fields, OneShotCounted, CountOK, FiringsAreCounted, FiresAtMost
<1>3. Init => OneShotCounted
  BY DEF Init, OneShotCounted
<1>4. TypeOK /\ CountOK /\ [Next]_vars => CountOK'
  BY CountStep
<1> QED
  BY <1>1, <1>2, <1>3, <1>4, OneShotStep, TypeCorrect, PTL DEF Spec
=============================================================================
