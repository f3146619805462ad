-------------------------------- MODULE Timer --------------------------------
(***************************************************************************)
(* class Timer of 3d/include/timer.h and 3d/src/timer.cpp: an object whose *)
(* fields are guarded by a mutex, and a thread that sleeps on a condition  *)
(* variable until the next expiry point and calls the handler then.        *)
(*                                                                         *)
(* Time is relative: left is next_expiry_point_ - Clock::now(), and Tick   *)
(* lets one unit pass.  A call of the interface is one action: it holds    *)
(* the mutex from its first line to its last.  run() is cut wherever       *)
(* another thread can come in between.                                     *)
(***************************************************************************)
EXTENDS Integers, FiniteSets

CONSTANTS Timers,       \* the objects of class Timer
          MaxDuration,  \* bound: the longest timeout or period asked for
          MaxCount,     \* bound: the largest count asked for
          MaxLag,       \* bound: how late a thread may be served
          None          \* no deadline

ASSUME TimerAssumption ==
    /\ MaxDuration \in Nat
    /\ MaxCount \in Nat \ {0}
    /\ MaxLag \in Nat
    /\ None \notin Int

VARIABLES timer,     \* the fields guarded by mutex_, of each object
          exit,      \* exit_requested_
          pc,        \* where the thread of each timer is in run()
          deadline,  \* the time left of the wait_until() it sleeps in
          count,     \* the static of run(): one for all the timers
          counted,   \* ++count as the thread of each timer computed it
          dtor,      \* how far the destructor got
          fires      \* history: calls of the handler since the last start_*()

vars == <<timer, exit, pc, deadline, count, counted, dtor, fires>>

Durations == 0..MaxDuration
Times == -MaxLag..2 * MaxDuration

Fields == [mode : {"kOneshot", "kPeriodic", "kCountPeriodic"},
           running : BOOLEAN,
           left : Times,
           period : Durations,
           max_count : 0..MaxCount]

TypeOK ==
    /\ timer \in [Timers -> Fields]
    /\ exit \in [Timers -> BOOLEAN]
    /\ pc \in [Timers -> {"starting", "head", "checked", "blocked", "woken",
                          "handler", "counting", "comparing", "ended"}]
    /\ deadline \in [Timers -> Times \union {None}]
    /\ count \in Nat
    /\ counted \in [Timers -> Nat]
    /\ dtor \in [Timers -> {"alive", "exiting", "stopped", "joining", "gone"}]
    /\ fires \in [Timers -> 0..MaxCount + 1]

Init ==
    /\ timer = [x \in Timers |-> [mode |-> "kOneshot", running |-> FALSE, left |-> 0,
                                  period |-> 0, max_count |-> 0]]
    /\ exit = [x \in Timers |-> FALSE]
    /\ pc = [x \in Timers |-> "starting"]
    /\ deadline = [x \in Timers |-> None]
    /\ count = 0
    /\ counted = [x \in Timers |-> 0]
    /\ dtor = [x \in Timers |-> "alive"]
    /\ fires = [x \in Timers |-> 0]

MutexFree(x) == pc[x] \notin {"head", "checked", "counting", "comparing"}

\* condition_variable_.notify_all(): the thread of x is the only one that waits.
NotifyAll(x) == pc' = [pc EXCEPT ![x] = IF @ = "blocked" THEN "woken" ELSE @]

-----------------------------------------------------------------------------
(* The interface: called by any thread while the object lives, and by the  *)
(* handler for as long as it runs.                                         *)

MayCall(x) == MutexFree(x) /\ (dtor[x] = "alive" \/ pc[x] = "handler")

\* Mutant: the thread is not told of the new expiry point.
StartSilently(x, fields) ==
    /\ MayCall(x)
    /\ timer' = [timer EXCEPT ![x] = fields]
    /\ fires' = [fires EXCEPT ![x] = 0]
    /\ UNCHANGED <<exit, pc, deadline, count, counted, dtor>>

Start(x, fields) ==
    /\ MayCall(x)
    /\ timer' = [timer EXCEPT ![x] = fields]
    /\ NotifyAll(x)
    /\ fires' = [fires EXCEPT ![x] = 0]
    /\ UNCHANGED <<exit, deadline, count, counted, dtor>>

StartOnce(x, timeout) ==
    Start(x, [timer[x] EXCEPT !.mode = "kOneshot", !.left = timeout, !.running = TRUE])

StartPeriodicImmediate(x, period) ==
    Start(x, [timer[x] EXCEPT !.mode = "kPeriodic", !.left = 0, !.period = period,
                              !.running = TRUE])

StartCountPeriodicImmediate(x, period, n) ==
    Start(x, [timer[x] EXCEPT !.mode = "kCountPeriodic", !.left = 0, !.period = period,
                              !.running = TRUE, !.max_count = n])

StartPeriodicDelayed(x, period) ==
    Start(x, [timer[x] EXCEPT !.mode = "kPeriodic", !.left = period, !.period = period,
                              !.running = TRUE])

\* stop() does not notify: the thread finds out when it wakes up by itself.
Stop(x) ==
    /\ MayCall(x)
    /\ timer' = [timer EXCEPT ![x].running = FALSE]
    /\ UNCHANGED <<exit, pc, deadline, count, counted, dtor, fires>>

-----------------------------------------------------------------------------
(* The destructor: it writes exit_requested_ without the mutex. *)

RequestExit(x) ==
    /\ dtor[x] = "alive"
    /\ dtor' = [dtor EXCEPT ![x] = "exiting"]
    /\ exit' = [exit EXCEPT ![x] = TRUE]
    /\ UNCHANGED <<timer, pc, deadline, count, counted, fires>>

\* Mutant: running_ is written without the mutex, like exit_requested_.
StopUnlocked(x) ==
    /\ dtor[x] = "exiting"
    /\ timer' = [timer EXCEPT ![x].running = FALSE]
    /\ dtor' = [dtor EXCEPT ![x] = "stopped"]
    /\ UNCHANGED <<exit, pc, deadline, count, counted, fires>>

\* Mutant: the destructor does not stop the timer.
LockOnly(x) ==
    /\ dtor[x] = "exiting"
    /\ MutexFree(x)
    /\ dtor' = [dtor EXCEPT ![x] = "stopped"]
    /\ UNCHANGED <<timer, exit, pc, deadline, count, counted, fires>>

StopInDestructor(x) ==
    /\ dtor[x] = "exiting"
    /\ MutexFree(x)
    /\ timer' = [timer EXCEPT ![x].running = FALSE]
    /\ dtor' = [dtor EXCEPT ![x] = "stopped"]
    /\ UNCHANGED <<exit, pc, deadline, count, counted, fires>>

\* Mutant: the thread is not lifted out of its waiting state.
NoLift(x) ==
    /\ dtor[x] = "stopped"
    /\ dtor' = [dtor EXCEPT ![x] = "joining"]
    /\ UNCHANGED <<timer, exit, pc, deadline, count, counted, fires>>

LiftThread(x) ==
    /\ dtor[x] = "stopped"
    /\ dtor' = [dtor EXCEPT ![x] = "joining"]
    /\ NotifyAll(x)
    /\ UNCHANGED <<timer, exit, deadline, count, counted, fires>>

Join(x) ==
    /\ dtor[x] = "joining"
    /\ pc[x] = "ended"
    /\ dtor' = [dtor EXCEPT ![x] = "gone"]
    /\ UNCHANGED <<timer, exit, pc, deadline, count, counted, fires>>

-----------------------------------------------------------------------------
(* run(): the thread holds the mutex while it is in head, checked, counting *)
(* or comparing.                                                            *)

Goto(x, label) == pc' = [pc EXCEPT ![x] = label]

Lock(x) ==
    /\ pc[x] = "starting"
    /\ Goto(x, "head")
    /\ UNCHANGED <<timer, exit, deadline, count, counted, dtor, fires>>

TestExit(x) ==
    /\ pc[x] = "head"
    /\ Goto(x, IF exit[x] THEN "ended" ELSE "checked")
    /\ UNCHANGED <<timer, exit, deadline, count, counted, dtor, fires>>

Block(x) ==
    /\ pc[x] = "checked"
    /\ Goto(x, "blocked")
    /\ deadline' = [deadline EXCEPT ![x] = IF timer[x].running THEN timer[x].left ELSE None]
    /\ UNCHANGED <<timer, exit, count, counted, dtor, fires>>

Timeout(x) ==
    /\ pc[x] = "blocked"
    /\ deadline[x] # None
    /\ deadline[x] <= 0
    /\ Goto(x, "woken")
    /\ UNCHANGED <<timer, exit, deadline, count, counted, dtor, fires>>

SpuriousWakeup(x) ==
    /\ pc[x] = "blocked"
    /\ Goto(x, "woken")
    /\ UNCHANGED <<timer, exit, deadline, count, counted, dtor, fires>>

\* Mutant: the thread takes every wake-up for the expiry.
WakeEarly(x) ==
    /\ pc[x] = "woken"
    /\ deadline' = [deadline EXCEPT ![x] = None]
    /\ IF timer[x].running
       THEN /\ Goto(x, "handler")
            /\ fires' = [fires EXCEPT ![x] =
                  IF timer[x].mode = "kPeriodic" \/ @ > MaxCount THEN @ ELSE @ + 1]
       ELSE Goto(x, "head") /\ UNCHANGED fires
    /\ UNCHANGED <<timer, exit, count, counted, dtor>>

\* The wait returns with the mutex; it is given up again to call the handler.
Wake(x) ==
    /\ pc[x] = "woken"
    /\ deadline' = [deadline EXCEPT ![x] = None]
    /\ IF timer[x].running /\ timer[x].left <= 0
       THEN /\ Goto(x, "handler")
            /\ fires' = [fires EXCEPT ![x] =
                  IF timer[x].mode = "kPeriodic" \/ @ > MaxCount THEN @ ELSE @ + 1]
       ELSE Goto(x, "head") /\ UNCHANGED fires
    /\ UNCHANGED <<timer, exit, count, counted, dtor>>

\* The handler returned: the timer is set again, as its fields say now.
Rearm(x) ==
    /\ pc[x] = "handler"
    /\ \/ /\ timer[x].mode = "kOneshot"
          /\ timer' = [timer EXCEPT ![x].running = FALSE]
          /\ Goto(x, "head")
          /\ UNCHANGED counted
       \/ /\ timer[x].mode = "kPeriodic"
          /\ timer' = [timer EXCEPT ![x].left = @ + timer[x].period]
          /\ Goto(x, "head")
          /\ UNCHANGED counted
       \/ /\ timer[x].mode = "kCountPeriodic"
          /\ counted' = [counted EXCEPT ![x] = count + 1]
          /\ Goto(x, "counting")
          /\ UNCHANGED timer
    /\ UNCHANGED <<exit, deadline, count, dtor, fires>>

\* count belongs to no mutex: the threads of other timers may load or store it
\* between the load, the store and the comparison of this one.
StoreCount(x) ==
    /\ pc[x] = "counting"
    /\ Goto(x, "comparing")
    /\ count' = counted[x]
    /\ UNCHANGED <<timer, exit, deadline, counted, dtor, fires>>

\* Mutant: one call too many.
CompareOffByOne(x) ==
    /\ pc[x] = "comparing"
    /\ Goto(x, "head")
    /\ IF count <= timer[x].max_count
       THEN /\ timer' = [timer EXCEPT ![x].left = @ + timer[x].period]
            /\ UNCHANGED count
       ELSE /\ timer' = [timer EXCEPT ![x].running = FALSE]
            /\ count' = 0
    /\ counted' = [counted EXCEPT ![x] = 0]
    /\ UNCHANGED <<exit, deadline, dtor, fires>>

\* The build may compare what it stored or load count again.
Compare(x) ==
    /\ pc[x] = "comparing"
    /\ Goto(x, "head")
    /\ \E n \in {counted[x], count} :
          IF n < timer[x].max_count
          THEN /\ timer' = [timer EXCEPT ![x].left = @ + timer[x].period]
               /\ UNCHANGED count
          ELSE /\ timer' = [timer EXCEPT ![x].running = FALSE]
               /\ count' = 0
    /\ counted' = [counted EXCEPT ![x] = 0]
    /\ UNCHANGED <<exit, deadline, dtor, fires>>

-----------------------------------------------------------------------------
Earlier(t) == IF t > -MaxLag THEN t - 1 ELSE t

\* One unit of time passes, as long as no thread is later than MaxLag.
Tick ==
    /\ \A x \in Timers : timer[x].running /\ pc[x] # "ended" => timer[x].left > -MaxLag
    /\ timer' = [x \in Timers |-> [timer[x] EXCEPT !.left = Earlier(@)]]
    /\ deadline' = [x \in Timers |-> IF deadline[x] = None THEN None
                                     ELSE Earlier(deadline[x])]
    /\ UNCHANGED <<exit, pc, count, counted, dtor, fires>>

Call(x) == \/ \E d \in Durations : \/ StartOnce(x, d)
                                   \/ StartPeriodicImmediate(x, d)
                                   \/ StartPeriodicDelayed(x, d)
                                   \/ \E n \in 0..MaxCount :
                                          StartCountPeriodicImmediate(x, d, n)
           \/ Stop(x)

Destructor(x) == StopInDestructor(x) \/ LiftThread(x) \/ Join(x)

Thread(x) == \/ Lock(x) \/ TestExit(x) \/ Block(x) \/ Timeout(x) \/ Wake(x)
             \/ Rearm(x) \/ StoreCount(x) \/ Compare(x)

Next == \/ \E x \in Timers : \/ Call(x) \/ RequestExit(x) \/ Destructor(x)
                             \/ Thread(x) \/ SpuriousWakeup(x)
        \/ Tick

\* The thread runs on when it can and the handler returns; a destructor that was
\* called goes on.  Nobody has to call the interface, and the clock may be slow.
Fairness == \A x \in Timers : WF_vars(Thread(x)) /\ WF_vars(Destructor(x))

Spec == Init /\ [][Next]_vars /\ Fairness

-----------------------------------------------------------------------------
(* What must hold. *)

\* A sleeping thread never oversleeps: while the timer runs, the deadline it sleeps
\* to is the next expiry point, however often start_*() and stop() were called.
SleepsToExpiry ==
    \A x \in Timers : pc[x] = "blocked" /\ timer[x].running
                          => deadline[x] = timer[x].left

\* exit_requested_ is written without the mutex, yet the destructor never joins a
\* thread that sleeps or that goes to sleep: stop() waits for the mutex in between.
NeverJoinsASleeper ==
    \A x \in Timers :
        /\ dtor[x] \in {"stopped", "joining"} => pc[x] # "checked"
        /\ dtor[x] = "joining" => pc[x] # "blocked"

\* "Destructor that implicitly stops the timer": once it has done so no call of the
\* handler begins, even if the handler starts the timer again at that moment.
NoFireOnceStopped ==
    [][\A x \in Timers : dtor[x] \in {"stopped", "joining", "gone"} /\ pc'[x] = "handler"
                             => pc[x] = "handler"]_vars

\* A timer started by start_once() or start_count_periodic_immediate() calls its
\* handler no more than once, respectively max_count_ times (at least once).
FiresAtMost ==
    \A x \in Timers :
        timer[x].mode # "kPeriodic" =>
            fires[x] <= IF timer[x].mode = "kOneshot" \/ timer[x].max_count = 0
                        THEN 1 ELSE timer[x].max_count

\* An expired timer calls its handler, unless it is stopped, set to a later time or
\* destroyed: a wake-up that comes too early, too late or twice does not matter.
ExpiryIsServed ==
    \A x \in Timers : (timer[x].running /\ timer[x].left <= 0) ~>
        (pc[x] = "handler" \/ ~timer[x].running \/ timer[x].left > 0 \/ exit[x])

\* The destructor returns, wherever the thread and its handler are.
DestructorReturns == \A x \in Timers : (dtor[x] = "exiting") ~> (dtor[x] = "gone")

\* "Start a timer with the specified delay that stops itself after it fires": the
\* thread does not stop a timer whose handler was not called since it was started.
StopsItselfAfterItFires ==
    [][\A x \in Timers : pc[x] = "handler" /\ timer[x].running /\ ~timer'[x].running
                             /\ timer[x].mode = "kOneshot" /\ pc'[x] = "head"
                             => fires[x] > 0]_vars
=============================================================================
