----------------------------- MODULE TaskService -----------------------------
(***************************************************************************)
(* What the thread pool of 3d/include/thread_pool.h promises to the code   *)
(* that uses it, with no threads, no queue and no condition variable: only *)
(* the futures that queue() hands out and the calls that manage the pool.  *)
(***************************************************************************)
CONSTANT Tasks

VARIABLES future,   \* what the future returned by queue() would say of a task
          running,  \* the tasks a thread of the pool is executing
          phase,    \* "open", "finishing" while finish() blocks, "closed"
          staffed,  \* a thread was started since the last finish()
          drain     \* the tasks that finish() promised to settle

svars == <<future, running, phase, staffed, drain>>

Pending == {t \in Tasks : future[t] = "pending"}

\* The tasks of S are destroyed unrun: their futures report broken_promise.
Break(S) == [t \in Tasks |-> IF t \in S THEN "broken" ELSE future[t]]

Init == /\ future = [t \in Tasks |-> "none"]
        /\ running = {}
        /\ phase = "open"
        /\ staffed = FALSE
        /\ drain = {}

Submit(t) == /\ phase # "closed"
             /\ future[t] = "none"
             /\ future' = [future EXCEPT ![t] = "pending"]
             /\ UNCHANGED <<running, phase, staffed, drain>>

\* A task is begun by a thread of the pool, and by one only.
Begin(t) == /\ staffed
            /\ t \in Pending \ running
            /\ running' = running \union {t}
            /\ UNCHANGED <<future, phase, staffed, drain>>

Complete(t) == /\ t \in running
               /\ running' = running \ {t}
               /\ future' = [future EXCEPT ![t] = "ready"]
               /\ UNCHANGED <<phase, staffed, drain>>

\* Cancelling never touches a task that has been started.
Cancel == /\ phase # "closed"
          /\ future' = Break(Pending \ running)
          /\ UNCHANGED <<running, phase, staffed, drain>>

Staff == /\ phase = "open"
         /\ staffed' = TRUE
         /\ UNCHANGED <<future, running, phase, drain>>

FinishCall == /\ phase = "open"
              /\ phase' = "finishing"
              /\ drain' = IF staffed THEN Pending ELSE {}
              /\ UNCHANGED <<future, running, staffed>>

\* finish() returns: no task is running any more and everything that was queued
\* before the call has been settled.  Called by the destructor, it is followed
\* by the destruction of the queue, which settles what was queued too late.
FinishReturn == /\ phase = "finishing"
                /\ running = {}
                /\ drain \intersect Pending = {}
                /\ \/ phase' = "open" /\ UNCHANGED future
                   \/ phase' = "closed" /\ future' = Break(Pending)
                /\ staffed' = FALSE
                /\ drain' = {}
                /\ UNCHANGED running

Next == \/ \E t \in Tasks : Submit(t) \/ Begin(t) \/ Complete(t)
        \/ Cancel \/ Staff \/ FinishCall \/ FinishReturn

Spec == Init /\ [][Next]_svars
=============================================================================
