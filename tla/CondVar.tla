------------------------------- MODULE CondVar -------------------------------
(***************************************************************************)
(* A thread in mega::condition_variable::wait_for() with a predicate, of   *)
(* advance/mega_condition_variable.h.  The caller's deadline is a point of *)
(* the steady clock; pthread_cond_timedwait() only knows the system clock, *)
(* which anybody may set while the thread sleeps.                          *)
(*                                                                         *)
(* Time is relative: left is __atime - steady_clock::now(), and sysleft is *)
(* __s_atime - system_clock::now().  Tick lets one unit pass on both       *)
(* clocks; below Floor times are not told apart.  The thread holds the     *)
(* mutex except while it is "blocked" and until it has it again ("woken"). *)
(***************************************************************************)
EXTENDS Integers

CONSTANTS MaxDuration,  \* bound: the longest duration waited for
          MaxGap,       \* bound: the time between the readings of the two clocks
          MaxAhead,     \* bound: how far the system clock is set forward at once
          MaxBack       \* bound: how far it is set back while the thread waits

ASSUME CondVarAssumption == /\ MaxDuration \in Nat /\ MaxGap \in Nat
                            /\ MaxAhead \in Nat /\ MaxBack \in Nat

VARIABLES pc,       \* where the thread is in wait_for() and wait_until()
          left,     \* the time to __atime
          delta,    \* __delta
          sysleft,  \* the time to __s_atime
          ready,    \* what the predicate says
          status,   \* what the wait returned last
          result,   \* what wait_for() returned
          gap,      \* history: the time between the readings of the two clocks
          back      \* history: how far the system clock was set back since then

vars == <<pc, left, delta, sysleft, ready, status, result, gap, back>>

Floor == -MaxGap - MaxBack
Times == Floor..MaxDuration
SystemTimes == Floor..MaxDuration + MaxBack

TypeOK ==
    /\ pc \in {"idle", "predicate", "entry", "armed", "blocked", "woken", "system",
               "steady", "returned"}
    /\ left \in Times
    /\ delta \in Times
    /\ sysleft \in SystemTimes
    /\ ready \in BOOLEAN
    /\ status \in {"no_timeout", "timeout"}
    /\ result \in BOOLEAN
    /\ gap \in 0..MaxGap
    /\ back \in 0..MaxBack

Init ==
    /\ pc = "idle"
    /\ left = 0
    /\ delta = 0
    /\ sysleft = 0
    /\ ready = FALSE
    /\ status = "no_timeout"
    /\ result = FALSE
    /\ gap = 0
    /\ back = 0

-----------------------------------------------------------------------------
(* The thread. *)

\* wait_for(): __rtime is turned into a point of the steady clock.
WaitFor(rtime) ==
    /\ pc = "idle"
    /\ pc' = "predicate"
    /\ left' = rtime
    /\ UNCHANGED <<delta, sysleft, ready, status, result, gap, back>>

\* Mutant: every turn waits for the whole duration again.
WaitAnew ==
    /\ pc = "predicate"
    /\ ~ready /\ status = "no_timeout"
    /\ pc' = "entry"
    /\ left' = MaxDuration
    /\ delta' = MaxDuration
    /\ gap' = 0
    /\ UNCHANGED <<sysleft, ready, status, result, back>>

\* Mutant: the duration is not computed again after a turn.
WaitAsBefore ==
    /\ pc = "predicate"
    /\ ~ready /\ status = "no_timeout"
    /\ pc' = "entry"
    /\ delta' = IF delta > 0 THEN delta ELSE left
    /\ gap' = 0
    /\ UNCHANGED <<left, sysleft, ready, status, result, back>>

\* Mutant: the thread waits before it looks at the predicate.
WaitUnchecked ==
    /\ pc = "predicate"
    /\ status = "no_timeout"
    /\ pc' = "entry"
    /\ delta' = left
    /\ gap' = 0
    /\ UNCHANGED <<left, sysleft, ready, status, result, back>>

\* The loop goes on while the predicate does not hold and the wait did not time out:
\* __c_entry is read.
EnterWait ==
    /\ pc = "predicate"
    /\ ~ready /\ status = "no_timeout"
    /\ pc' = "entry"
    /\ delta' = left
    /\ gap' = 0
    /\ UNCHANGED <<left, sysleft, ready, status, result, back>>

Return ==
    /\ pc = "predicate"
    /\ ready \/ status = "timeout"
    /\ pc' = "returned"
    /\ result' = ready
    /\ UNCHANGED <<left, delta, sysleft, ready, status, gap, back>>

\* Mutant: the deadline of the last turn is extended.
Extend ==
    /\ pc = "entry"
    /\ pc' = "armed"
    /\ sysleft' = IF sysleft > 0 THEN sysleft + delta ELSE delta
    /\ back' = 0
    /\ UNCHANGED <<left, delta, ready, status, result, gap>>

\* __s_entry is read.
Convert ==
    /\ pc = "entry"
    /\ pc' = "armed"
    /\ sysleft' = delta
    /\ back' = 0
    /\ UNCHANGED <<left, delta, ready, status, result, gap>>

Goto(label) == pc' = label /\ UNCHANGED <<left, delta, sysleft, ready, status, result, gap, back>>

Block == pc = "armed" /\ Goto("blocked")

\* pthread_cond_timedwait() returns at its time, or earlier for no reason.
Timeout == pc = "blocked" /\ sysleft <= 0 /\ Goto("woken")
SpuriousWakeup == pc = "blocked" /\ Goto("woken")
Relock == pc = "woken" /\ Goto("system")

\* __wait_until_impl() looks at the system clock again.
TestSystemClock ==
    pc = "system" /\ Goto(IF sysleft > 0 THEN "predicate" ELSE "steady")

\* Mutant: the system clock is taken at its word.
TrustSystemClock ==
    /\ pc = "steady"
    /\ pc' = "predicate"
    /\ status' = "timeout"
    /\ UNCHANGED <<left, delta, sysleft, ready, result, gap, back>>

\* A timeout by the system clock is one for the caller if its own clock agrees.
TestSteadyClock ==
    /\ pc = "steady"
    /\ pc' = "predicate"
    /\ status' = IF left > 0 THEN "no_timeout" ELSE "timeout"
    /\ UNCHANGED <<left, delta, sysleft, ready, result, gap, back>>

\* The caller forgets the result, and may call again.
Leave ==
    /\ pc = "returned"
    /\ pc' = "idle"
    /\ left' = 0 /\ delta' = 0 /\ sysleft' = 0 /\ gap' = 0 /\ back' = 0
    /\ status' = "no_timeout"
    /\ result' = FALSE
    /\ UNCHANGED ready

-----------------------------------------------------------------------------
(* The others. *)

\* Another thread makes the predicate true, under the mutex, and notifies.
Notify ==
    /\ pc \in {"idle", "blocked", "woken"}
    /\ ready' = TRUE
    /\ pc' = IF pc = "blocked" THEN "woken" ELSE pc
    /\ UNCHANGED <<left, delta, sysleft, status, result, gap, back>>

\* Another thread makes the predicate false again, under the mutex.
Retract ==
    /\ pc \in {"idle", "blocked", "woken"}
    /\ ready' = FALSE
    /\ UNCHANGED <<pc, left, delta, sysleft, status, result, gap, back>>

Waiting == pc \notin {"idle", "returned"}

NotBelowFloor(t) == IF t < Floor THEN Floor ELSE t

Tick ==
    /\ Waiting
    /\ pc = "entry" => gap < MaxGap
    /\ left' = NotBelowFloor(left - 1)
    /\ sysleft' = NotBelowFloor(sysleft - 1)
    /\ gap' = IF pc = "entry" THEN gap + 1 ELSE gap
    /\ UNCHANGED <<pc, delta, ready, status, result, back>>

\* The system clock is set forward or back.
SetForward(d) ==
    /\ Waiting
    /\ sysleft' = NotBelowFloor(sysleft - d)
    /\ UNCHANGED <<pc, left, delta, ready, status, result, gap, back>>

SetBack(d) ==
    /\ Waiting
    /\ back + d <= MaxBack
    /\ sysleft' = sysleft + d
    /\ back' = back + d
    /\ UNCHANGED <<pc, left, delta, ready, status, result, gap>>

-----------------------------------------------------------------------------
Thread == \/ EnterWait \/ Return \/ Convert \/ Block \/ Timeout \/ Relock
          \/ TestSystemClock \/ TestSteadyClock

Next == \/ \E rtime \in 0..MaxDuration : WaitFor(rtime)
        \/ Thread \/ SpuriousWakeup \/ Leave \/ Notify \/ Retract \/ Tick
        \/ \E d \in 1..MaxAhead : SetForward(d)
        \/ \E d \in 1..MaxBack : SetBack(d)

\* A thread that can go on does, and time goes on.
Fairness == WF_vars(Thread) /\ SF_vars(Tick)

Spec == Init /\ [][Next]_vars /\ Fairness

-----------------------------------------------------------------------------
(* What must hold. *)

\* A thread never oversleeps by more than what the system clock was set back while it
\* slept and what passed between the readings of the two clocks, however often it
\* was woken and converted its deadline again.
OversleepIsBounded ==
    pc \in {"armed", "blocked"} => sysleft <= left + gap + back

\* A timeout is never reported before the caller's deadline, wherever the system
\* clock was set to.
NoEarlyTimeout == status = "timeout" => left <= 0

\* A thread never sleeps while its predicate holds.
NeverSleepsWhenReady == pc \in {"armed", "blocked"} => ~ready

\* wait_for() returns, with however many wake-ups for nothing, notifications that come
\* too late and settings of the clock.
WaitReturns == (pc = "predicate") ~> (pc = "returned")
=============================================================================
