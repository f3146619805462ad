------------------------------ MODULE WaitFor ------------------------------
(***************************************************************************)
(* test_wait_for(): handle_test() waits without a predicate for ten        *)
(* seconds at most, in a thread of std::async, for a notification that     *)
(* test_wait_for() sends when it has waited five seconds for that thread.  *)
(* Either thread may be late, so that the times do not order their steps.  *)
(***************************************************************************)

VARIABLES handler,  \* where handle_test() is
          test      \* where test_wait_for() is

vars == <<handler, test>>

TypeOK ==
    /\ handler \in {"start", "blocked", "woken", "done"}
    /\ test \in {"waits", "notifies", "sleeps", "ends", "done"}

Init == handler = "start" /\ test = "waits"

-----------------------------------------------------------------------------
(* handle_test(): nobody else takes the mutex. *)

Wait == handler = "start" /\ handler' = "blocked" /\ UNCHANGED test

\* The ten seconds are over, or the thread wakes up for nothing: there is no predicate
\* that would send it back.
WakeUp == handler = "blocked" /\ handler' = "woken" /\ UNCHANGED test

Return == handler = "woken" /\ handler' = "done" /\ UNCHANGED test

-----------------------------------------------------------------------------
(* test_wait_for() *)

\* The future is ready, or five seconds are over; the program goes on alike.
FutureWaited == test = "waits" /\ test' = "notifies" /\ UNCHANGED handler

\* A notification that meets nobody is lost.
Notify ==
    /\ test = "notifies"
    /\ test' = "sleeps"
    /\ handler' = IF handler = "blocked" THEN "woken" ELSE handler

SleepEnds == test = "sleeps" /\ test' = "ends" /\ UNCHANGED handler

\* The destructor of a future of std::async waits for its thread.
DestroyFuture == test = "ends" /\ handler = "done" /\ test' = "done" /\ UNCHANGED handler

-----------------------------------------------------------------------------
Handler == Wait \/ WakeUp \/ Return

Test == FutureWaited \/ Notify \/ SleepEnds \/ DestroyFuture

Next == Handler \/ Test

\* Both threads go on when they can, a sleeping one in ten seconds at the latest.
Spec == Init /\ [][Next]_vars /\ WF_vars(Handler) /\ WF_vars(Test)

-----------------------------------------------------------------------------
\* test_wait_for() returns, also when its notification comes before the wait.
TestReturns == <>(test = "done")
=============================================================================
