---------------------------- MODULE CondVarProof ----------------------------
(***************************************************************************)
(* The safety of wait_for() against two clocks, for durations and settings *)
(* of the clock of any size.                                               *)
(***************************************************************************)
EXTENDS CondVar, TLAPS

\* The duration computed from the steady clock has only become too long by what
\* passed since it was read.
DeltaIsRecent == pc = "entry" => delta <= left + gap

\* Only setting the system clock back makes the system deadline later.
DeadlineIsCapped == sysleft <= MaxDuration + back

\* wait_for() begins without a timeout.
FreshStart == pc = "idle" => status = "no_timeout"

\* The thread holds the mutex from its look at the predicate until it sleeps.
LockedSinceTest == pc = "entry" => ~ready

\* The inductive invariant.
IInv == /\ TypeOK
        /\ DeltaIsRecent
        /\ DeadlineIsCapped
        /\ FreshStart
        /\ LockedSinceTest
        /\ OversleepIsBounded
        /\ NoEarlyTimeout
        /\ NeverSleepsWhenReady

USE CondVarAssumption

-----------------------------------------------------------------------------
\* The invariant holds before the first call of wait_for().
LEMMA InitInvariant == Init => IInv
<1> SUFFICES ASSUME Init PROVE IInv
  OBVIOUS
<1>1. ready \in BOOLEAN /\ result \in BOOLEAN
  BY Zenon DEF Init
<1>2. 0 \in Times /\ 0 \in SystemTimes /\ 0 \in 0..MaxGap /\ 0 \in 0..MaxBack
  BY DEF Times, SystemTimes, Floor
<1>3. TypeOK
  BY <1>1, <1>2 DEF Init, TypeOK
<1> QED
  BY <1>3 DEF Init, IInv, DeltaIsRecent, DeadlineIsCapped, FreshStart, LockedSinceTest,
         OversleepIsBounded, NoEarlyTimeout, NeverSleepsWhenReady

\* What the thread does inside wait_for() keeps the invariant.
LEMMA ThreadKeepsInvariant == IInv /\ (Thread \/ SpuriousWakeup) => IInv'
<1> USE DEF IInv, TypeOK, DeltaIsRecent, DeadlineIsCapped, FreshStart, LockedSinceTest,
            OversleepIsBounded, NoEarlyTimeout, NeverSleepsWhenReady, Times, SystemTimes,
            Floor
<1> SUFFICES ASSUME IInv, Thread \/ SpuriousWakeup PROVE IInv'
  OBVIOUS
<1>1. CASE EnterWait
  BY <1>1 DEF EnterWait
<1>2. CASE Return
  BY <1>2 DEF Return
<1>3. CASE Convert
  BY <1>3 DEF Convert
<1>4. CASE Block
  BY <1>4 DEF Block, Goto
<1>5. CASE Timeout \/ SpuriousWakeup
  BY <1>5 DEF Timeout, SpuriousWakeup, Goto
<1>6. CASE Relock
  BY <1>6 DEF Relock, Goto
<1>7. CASE TestSystemClock
  BY <1>7 DEF TestSystemClock, Goto
<1>8. CASE TestSteadyClock
  BY <1>8 DEF TestSteadyClock
<1> QED
  BY <1>1, <1>2, <1>3, <1>4, <1>5, <1>6, <1>7, <1>8 DEF Thread

\* So do the calls, the other threads and the two clocks.
LEMMA OthersKeepInvariant ==
    ASSUME IInv,
           \/ \E rtime \in 0..MaxDuration : WaitFor(rtime)
           \/ Leave \/ Notify \/ Retract \/ Tick
           \/ \E d \in 1..MaxAhead : SetForward(d)
           \/ \E d \in 1..MaxBack : SetBack(d)
    PROVE  IInv'
<1> USE DEF IInv, TypeOK, DeltaIsRecent, DeadlineIsCapped, FreshStart, LockedSinceTest,
            OversleepIsBounded, NoEarlyTimeout, NeverSleepsWhenReady, Times, SystemTimes,
            Floor
<1>1. CASE \E rtime \in 0..MaxDuration : WaitFor(rtime)
  <2> PICK rtime \in 0..MaxDuration : WaitFor(rtime)
    BY <1>1
  <2> QED
    BY DEF WaitFor
<1>2. CASE Leave
  <2>1. ready' \in BOOLEAN /\ result' \in BOOLEAN
    BY <1>2, Zenon DEF Leave
  <2>2. TypeOK'
    BY <1>2, <2>1 DEF Leave
  <2> QED
    BY <1>2, <2>2 DEF Leave
<1>3. CASE Notify
  BY <1>3 DEF Notify
<1>4. CASE Retract
  BY <1>4 DEF Retract
<1>5. CASE Tick
  BY <1>5 DEF Tick, NotBelowFloor, Waiting
<1>6. CASE \E d \in 1..MaxAhead : SetForward(d)
  <2> PICK d \in 1..MaxAhead : SetForward(d)
    BY <1>6
  <2> QED
    BY DEF SetForward, NotBelowFloor, Waiting
<1>7. CASE \E d \in 1..MaxBack : SetBack(d)
  <2> PICK d \in 1..MaxBack : SetBack(d)
    BY <1>7
  <2> QED
    BY DEF SetBack, Waiting
<1> QED
  BY <1>1, <1>2, <1>3, <1>4, <1>5, <1>6, <1>7

\* The inductive invariant holds in every reachable state.
THEOREM Invariance == Spec => []IInv
<1>1. IInv /\ UNCHANGED vars => IInv'
  BY DEF vars, IInv, TypeOK, DeltaIsRecent, DeadlineIsCapped, FreshStart, LockedSinceTest,
         OversleepIsBounded, NoEarlyTimeout, NeverSleepsWhenReady, Times, SystemTimes, Floor
<1>2. IInv /\ Next => IInv'
  BY ThreadKeepsInvariant, OthersKeepInvariant DEF Next
<1> QED
  BY InitInvariant, <1>1, <1>2, PTL DEF Spec

-----------------------------------------------------------------------------
\* The times stay in the ranges that the bounds give them.
THEOREM TypeCorrect == Spec => []TypeOK
BY Invariance, PTL DEF IInv

\* However often the deadline is converted, a sleeping thread oversleeps at most what
\* the system clock was set back meanwhile and what passed between the two readings.
THEOREM OversleepsWithinBounds == Spec => []OversleepIsBounded
BY Invariance, PTL DEF IInv

\* wait_for() never reports a timeout before the caller's deadline.
THEOREM TimeoutIsNeverEarly == Spec => []NoEarlyTimeout
BY Invariance, PTL DEF IInv

\* A thread never sleeps while its predicate holds.
THEOREM NoSleepWhenReady == Spec => []NeverSleepsWhenReady
BY Invariance, PTL DEF IInv
=============================================================================
