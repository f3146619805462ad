----------------------------- MODULE ThreadPool -----------------------------
(***************************************************************************)
(* struct tasks of 3d/include/thread_pool.h: a deque of packaged tasks     *)
(* guarded by the mutex m, the condition variable v its threads wait on,   *)
(* and the vector of futures by which finish() joins those threads.        *)
(*                                                                         *)
(* A critical section of m is one action: work is touched nowhere else.    *)
(* What the code does after it unlocks m (a notification, the test of f,   *)
(* the call of f) is an action of its own.                                 *)
(***************************************************************************)
EXTENDS Naturals, Sequences, FiniteSets

CONSTANTS Workers,       \* threads that start() can launch
          Clients,       \* other threads that call queue()
          Tasks,         \* the functions passed to queue(), each passed once
          Stop,          \* the invalid packaged_task that finish() enqueues
          None,          \* no task
          ForeignCancel  \* may cancel_pending() be called while finish() blocks?

ASSUME ThreadPoolAssumption ==
    /\ IsFiniteSet(Workers)
    /\ Clients \intersect Workers = {}
    /\ Stop \notin Tasks
    /\ None \notin Tasks \union {Stop}
    /\ ForeignCancel \in BOOLEAN

VARIABLES work,      \* the deque
          finished,  \* the threads whose std::async future is in the vector
          worker,    \* where each thread is in thread_task()
          f,         \* the packaged_task each thread holds
          notify,    \* callers of queue() that unlocked m and did not notify yet
          owner,     \* where the owner is in finish(), abort() or ~tasks()
          dying,     \* the destructor was called
          future,    \* the state of the future queue() returned for each task
          drain      \* history: what was pending when finish() enqueued Stop

vars == <<work, finished, worker, f, notify, owner, dying, future, drain>>

Running == {f[w] : w \in Workers} \intersect Tasks
Live == {w \in finished : worker[w] # "exited"}
Waiting == {w \in Workers : worker[w] = "waiting"}
Queued == {work[i] : i \in DOMAIN work} \intersect Tasks
Pending == {t \in Tasks : future[t] = "pending"}

TypeOK ==
    /\ work \in Seq(Tasks \union {Stop})
    /\ finished \in SUBSET Workers
    /\ worker \in [Workers -> {"none", "ready", "waiting", "holding", "exited"}]
    /\ f \in [Workers -> Tasks \union {Stop, None}]
    /\ notify \in SUBSET (Clients \union Workers)
    /\ owner \in {"idle", "aborting", "notifying", "joining", "destroyed"}
    /\ dying \in BOOLEAN
    /\ future \in [Tasks -> {"none", "pending", "ready", "broken"}]
    /\ drain \in SUBSET Tasks

Init ==
    /\ work = <<>>
    /\ finished = {}
    /\ worker = [w \in Workers |-> "none"]
    /\ f = [w \in Workers |-> None]
    /\ notify = {}
    /\ owner = "idle"
    /\ dying = FALSE
    /\ future = [t \in Tasks |-> "none"]
    /\ drain = {}

-----------------------------------------------------------------------------
(* queue(): called by a client, or by a task from the thread that runs it. *)

MayQueue(c) == /\ c \notin notify
               /\ \/ c \in Clients /\ ~dying
                  \/ c \in Workers /\ f[c] \in Tasks

\* Mutant: p is moved from before it is stored.
QueueMovedFrom(c, t) ==
    /\ MayQueue(c)
    /\ future[t] = "none"
    /\ future' = [future EXCEPT ![t] = "pending"]
    /\ work' = Append(work, None)
    /\ notify' = notify \union {c}
    /\ UNCHANGED <<finished, worker, f, owner, dying, drain>>

\* Mutant: the notification is forgotten.
QueueSilently(c, t) ==
    /\ MayQueue(c)
    /\ future[t] = "none"
    /\ future' = [future EXCEPT ![t] = "pending"]
    /\ work' = Append(work, t)
    /\ UNCHANGED <<finished, worker, f, notify, owner, dying, drain>>

Queue(c, t) ==
    /\ MayQueue(c)
    /\ future[t] = "none"
    /\ future' = [future EXCEPT ![t] = "pending"]
    /\ work' = Append(work, t)
    /\ notify' = notify \union {c}
    /\ UNCHANGED <<finished, worker, f, owner, dying, drain>>

NotifyOne(c) ==
    /\ c \in notify
    /\ notify' = notify \ {c}
    /\ \/ \E w \in Waiting : worker' = [worker EXCEPT ![w] = "ready"]
       \/ Waiting = {} /\ UNCHANGED worker
    /\ UNCHANGED <<work, finished, f, owner, dying, future, drain>>

-----------------------------------------------------------------------------
(* thread_task(): the loop of a worker. *)

\* Mutant: the thread waits without looking at the deque first.
WaitUnchecked(w) ==
    /\ worker[w] = "ready"
    /\ worker' = [worker EXCEPT ![w] = "waiting"]
    /\ UNCHANGED <<work, finished, f, notify, owner, dying, future, drain>>

Wait(w) ==
    /\ worker[w] = "ready"
    /\ work = <<>>
    /\ worker' = [worker EXCEPT ![w] = "waiting"]
    /\ UNCHANGED <<work, finished, f, notify, owner, dying, future, drain>>

SpuriousWakeup(w) ==
    /\ worker[w] = "waiting"
    /\ worker' = [worker EXCEPT ![w] = "ready"]
    /\ UNCHANGED <<work, finished, f, notify, owner, dying, future, drain>>

\* Mutant: the task is copied, and pop_front() is left to a later lock.
PopTwice(w) ==
    /\ worker[w] = "ready"
    /\ work # <<>>
    /\ f' = [f EXCEPT ![w] = Head(work)]
    /\ worker' = [worker EXCEPT ![w] = "holding"]
    /\ \/ work' = Tail(work)
       \/ UNCHANGED work
    /\ UNCHANGED <<finished, notify, owner, dying, future, drain>>

Pop(w) ==
    /\ worker[w] = "ready"
    /\ work # <<>>
    /\ f' = [f EXCEPT ![w] = Head(work)]
    /\ work' = Tail(work)
    /\ worker' = [worker EXCEPT ![w] = "holding"]
    /\ UNCHANGED <<finished, notify, owner, dying, future, drain>>

\* f() returns or throws: either way the future is made ready.
Run(w) ==
    /\ f[w] \in Tasks
    /\ w \notin notify
    /\ future' = [future EXCEPT ![f[w]] = "ready"]
    /\ f' = [f EXCEPT ![w] = None]
    /\ worker' = [worker EXCEPT ![w] = "ready"]
    /\ UNCHANGED <<work, finished, notify, owner, dying, drain>>

Exit(w) ==
    /\ f[w] = Stop
    /\ f' = [f EXCEPT ![w] = None]
    /\ worker' = [worker EXCEPT ![w] = "exited"]
    /\ UNCHANGED <<work, finished, notify, owner, dying, future, drain>>

-----------------------------------------------------------------------------
(* The owner: start(), cancel_pending(), finish(), abort() and ~tasks(). *)

\* One turn of the loop of start().  The owner may leave the loop after any
\* turn: N is its choice, and std::async may throw.
Start(w) ==
    /\ owner = "idle"
    /\ w \notin finished
    /\ finished' = finished \union {w}
    /\ worker' = [worker EXCEPT ![w] = "ready"]
    /\ UNCHANGED <<work, f, notify, owner, dying, future, drain>>

\* The tasks of S are destroyed unrun: their futures report broken_promise.
Break(S) == [t \in Tasks |-> IF t \in S THEN "broken" ELSE future[t]]

ClearWork == /\ work' = <<>>
             /\ future' = Break(Queued)

\* cancel_pending() is public and takes m: any thread may call it.
CancelPending ==
    /\ owner # "destroyed"
    /\ owner \in {"idle", "aborting"} \/ ForeignCancel
    /\ ClearWork
    /\ UNCHANGED <<finished, worker, f, notify, owner, dying, drain>>

Abort ==
    /\ owner = "idle"
    /\ owner' = "aborting"
    /\ ClearWork
    /\ UNCHANGED <<finished, worker, f, notify, dying, drain>>

\* Mutant: one stop message is forgotten.
OneStopShort == [i \in 1..Cardinality(finished) - 1 |-> Stop]

StopMessages == [i \in 1..Cardinality(finished) |-> Stop]

\* Mutant: the stop messages jump the queue.
PushStopsFirst ==
    /\ work' = StopMessages \o work
    /\ drain' = IF finished = {} THEN {} ELSE Pending
    /\ owner' = "notifying"
    /\ UNCHANGED <<finished, worker, f, notify, future>>

PushStops ==
    /\ work' = work \o StopMessages
    /\ drain' = IF finished = {} THEN {} ELSE Pending
    /\ owner' = "notifying"
    /\ UNCHANGED <<finished, worker, f, notify, future>>

\* finish(), called on its own, at the end of abort() or by the destructor.
Finish == owner \in {"idle", "aborting"} /\ PushStops /\ UNCHANGED dying

\* No client may be inside queue() when the pool is destroyed.
Destroy == /\ owner = "idle"
           /\ notify \intersect Clients = {}
           /\ PushStops
           /\ dying' = TRUE

\* Mutant: only one thread is woken.
NotifyJustOne ==
    /\ owner = "notifying"
    /\ owner' = "joining"
    /\ \/ \E w \in Waiting : worker' = [worker EXCEPT ![w] = "ready"]
       \/ Waiting = {} /\ UNCHANGED worker
    /\ UNCHANGED <<work, finished, f, notify, dying, future, drain>>

NotifyAll ==
    /\ owner = "notifying"
    /\ owner' = "joining"
    /\ worker' = [w \in Workers |-> IF w \in Waiting THEN "ready" ELSE worker[w]]
    /\ UNCHANGED <<work, finished, f, notify, dying, future, drain>>

\* Mutant: the vector is cleared without waiting for the threads.
JoinNobody ==
    /\ owner = "joining"
    /\ finished' = {}
    /\ drain' = {}
    /\ IF dying THEN owner' = "destroyed" /\ ClearWork
                ELSE owner' = "idle" /\ UNCHANGED <<work, future>>
    /\ UNCHANGED <<worker, f, notify, dying>>

\* finished.clear() blocks until every thread has returned; in the destructor
\* the deque is destroyed next, with the tasks that came after the stop messages.
Join ==
    /\ owner = "joining"
    /\ Live = {}
    /\ finished' = {}
    /\ drain' = {}
    /\ IF dying THEN owner' = "destroyed" /\ ClearWork
                ELSE owner' = "idle" /\ UNCHANGED <<work, future>>
    /\ UNCHANGED <<worker, f, notify, dying>>

Destroyed == owner = "destroyed" /\ UNCHANGED vars

-----------------------------------------------------------------------------
WorkerStep(w) == Pop(w) \/ Run(w) \/ Exit(w)

OwnerStep == (owner = "aborting" /\ Finish) \/ NotifyAll \/ Join

Next == \/ \E c \in Clients \union Workers :
              NotifyOne(c) \/ \E t \in Tasks : Queue(c, t)
        \/ \E w \in Workers : WorkerStep(w) \/ Wait(w) \/ SpuriousWakeup(w) \/ Start(w)
        \/ CancelPending \/ Abort \/ Finish \/ Destroy \/ NotifyAll \/ Join \/ Destroyed

\* A thread that can go on does, a task returns, a call of finish() goes on.
\* Nobody has to call queue(), start() or finish(), nor to wake up spuriously.
Fairness == /\ \A c \in Clients \union Workers : WF_vars(NotifyOne(c))
            /\ \A w \in Workers : WF_vars(WorkerStep(w))
            /\ WF_vars(OwnerStep)

Spec == Init /\ [][Next]_vars /\ Fairness

-----------------------------------------------------------------------------
(* What must hold. *)

\* A task whose future is pending is in exactly one place: at one position of
\* the deque or in the hands of one thread.  Hence no task is lost and none is
\* run twice, whatever the interleaving of queue(), the threads and abort().
TaskLedger ==
    /\ Pending = Queued \union Running
    /\ Queued \intersect Running = {}
    /\ \A i, j \in DOMAIN work : work[i] = work[j] /\ work[i] \in Tasks => i = j
    /\ \A v, w \in Workers : f[v] = f[w] /\ f[v] \in Tasks => v = w

Stops(s) == {i \in DOMAIN s : s[i] = Stop}
Stopping == {w \in Workers : f[w] = Stop}

\* "finish enques a 'stop the thread' message for every thread, then waits for
\* them": as long as it waits, every thread that still runs has a stop message of
\* its own in the deque or in its hands, and otherwise there are none.
StopForEveryThread ==
    Cardinality(Stops(work)) + Cardinality(Stopping) =
        IF owner \in {"notifying", "joining"} THEN Cardinality(Live) ELSE 0

\* No wake-up is lost: threads never all sleep over a non-empty deque unless a
\* notification that will wake one is on its way.
NoLostWakeup ==
    (work # <<>> /\ Live # {} /\ Live \subseteq Waiting)
        => (notify # {} \/ owner = "notifying")

\* Tasks that were pending when finish() was called come before its stop
\* messages, and when a thread has taken one of these they have all been started.
DrainBeforeStop ==
    /\ \A i, j \in DOMAIN work : i < j /\ work[i] = Stop => work[j] \notin drain
    /\ (\E w \in finished : f[w] = Stop \/ worker[w] = "exited")
           => drain \intersect Queued = {}

\* finish() returns, however queue() calls and tasks are interleaved with it.
FinishReturns == (owner = "joining") ~> (owner \in {"idle", "destroyed"})

\* A queued task is settled as long as a thread is left to run it.
QueuedTaskSettles ==
    \A t \in Tasks : (future[t] = "pending" /\ Live # {})
                         ~> (future[t] # "pending" \/ Live = {})

\* The pool implements what TaskService promises.
Service == INSTANCE TaskService WITH
    running <- Running,
    staffed <- finished # {},
    phase <- CASE owner \in {"notifying", "joining"} -> "finishing"
               [] owner = "destroyed" -> "closed"
               [] OTHER -> "open"

ServiceSpec == Service!Spec
=============================================================================
