----------------------------- MODULE TestHandler -----------------------------
(***************************************************************************)
(* class TestHandler of main.cpp: produce() pushes strings and notifies    *)
(* under the mutex, then sets an atomic flag and notifies without it;      *)
(* consume() waits for either with a timeout of ten seconds.               *)
(*                                                                         *)
(* The strings are all alike, and the wait may time out at any moment.     *)
(***************************************************************************)
EXTENDS Integers

CONSTANT MaxCount  \* how many strings produce() pushes

ASSUME MaxCountAssumption == MaxCount \in Nat

VARIABLES consumer,         \* where consume() is
          producer,         \* where produce() is
          queue_,           \* how many strings are queued
          count,            \* how many were pushed
          exit_requested_,
          expired           \* the wait timed out

vars == <<consumer, producer, queue_, count, exit_requested_, expired>>

TypeOK ==
    /\ consumer \in {"unlocked", "test", "armed", "blocked", "woken", "consume",
                     "timed out", "done"}
    /\ producer \in {"loop", "pushed", "notified", "exiting", "done"}
    /\ queue_ \in 0..MaxCount
    /\ count \in 0..MaxCount
    /\ exit_requested_ \in BOOLEAN
    /\ expired \in BOOLEAN

Init ==
    /\ consumer = "unlocked"
    /\ producer = "loop"
    /\ queue_ = 0
    /\ count = 0
    /\ exit_requested_ = FALSE
    /\ expired = FALSE

ConsumerLocks == consumer \in {"test", "armed", "consume", "timed out"}
ProducerLocks == producer \in {"pushed", "notified"}

\* notify_one(): a consumer that sleeps wakes up, otherwise nobody does.
NotifyOne == consumer' = IF consumer = "blocked" THEN "woken" ELSE consumer

-----------------------------------------------------------------------------
(* consume() *)

\* The mutex is locked and a new wait of ten seconds begins.
Lock ==
    /\ consumer = "unlocked"
    /\ ~ProducerLocks
    /\ consumer' = "test"
    /\ expired' = FALSE
    /\ UNCHANGED <<producer, queue_, count, exit_requested_>>

\* wait_for() looks at the predicate, and waits if it may still.
Test ==
    /\ consumer = "test"
    /\ consumer' = IF queue_ > 0 \/ exit_requested_ THEN "consume"
                   ELSE IF expired THEN "timed out" ELSE "armed"
    /\ UNCHANGED <<producer, queue_, count, exit_requested_, expired>>

Block ==
    /\ consumer = "armed"
    /\ consumer' = "blocked"
    /\ UNCHANGED <<producer, queue_, count, exit_requested_, expired>>

\* Mutant: the wait has no timeout.
NoTimeout == consumer = "blocked" /\ FALSE /\ UNCHANGED vars

Timeout ==
    /\ consumer = "blocked"
    /\ consumer' = "woken"
    /\ expired' = TRUE
    /\ UNCHANGED <<producer, queue_, count, exit_requested_>>

SpuriousWakeup ==
    /\ consumer = "blocked"
    /\ consumer' = "woken"
    /\ UNCHANGED <<producer, queue_, count, exit_requested_, expired>>

\* Mutant: the predicate is not looked at again.
RelockUntested ==
    /\ consumer = "woken"
    /\ ~ProducerLocks
    /\ consumer' = IF expired THEN "timed out" ELSE "consume"
    /\ UNCHANGED <<producer, queue_, count, exit_requested_, expired>>

Relock ==
    /\ consumer = "woken"
    /\ ~ProducerLocks
    /\ consumer' = "test"
    /\ UNCHANGED <<producer, queue_, count, exit_requested_, expired>>
\* The first string is taken unless the program is to end.
Consume ==
    /\ consumer = "consume"
    /\ IF exit_requested_
         THEN consumer' = "done" /\ UNCHANGED queue_
         ELSE consumer' = "unlocked" /\ queue_' = queue_ - 1
    /\ UNCHANGED <<producer, count, exit_requested_, expired>>

TimedOut ==
    /\ consumer = "timed out"
    /\ consumer' = IF exit_requested_ THEN "done" ELSE "unlocked"
    /\ UNCHANGED <<producer, queue_, count, exit_requested_, expired>>

-----------------------------------------------------------------------------
(* produce() *)

\* Mutant: the queue is not guarded by the mutex.
PushUnlocked ==
    /\ producer = "loop"
    /\ count < MaxCount
    /\ producer' = "pushed"
    /\ count' = count + 1
    /\ queue_' = queue_ + 1
    /\ UNCHANGED <<consumer, exit_requested_, expired>>

Push ==
    /\ producer = "loop"
    /\ count < MaxCount
    /\ ~ConsumerLocks
    /\ producer' = "pushed"
    /\ count' = count + 1
    /\ queue_' = queue_ + 1
    /\ UNCHANGED <<consumer, exit_requested_, expired>>

Notify ==
    /\ producer = "pushed"
    /\ producer' = "notified"
    /\ NotifyOne
    /\ UNCHANGED <<queue_, count, exit_requested_, expired>>

\* The mutex is unlocked, and the thread sleeps a second.
Unlock ==
    /\ producer = "notified"
    /\ producer' = "loop"
    /\ UNCHANGED <<consumer, queue_, count, exit_requested_, expired>>

\* The flag is set without the mutex ...
RequestExit ==
    /\ producer = "loop"
    /\ count = MaxCount
    /\ producer' = "exiting"
    /\ exit_requested_' = TRUE
    /\ UNCHANGED <<consumer, queue_, count, expired>>

\* ... and the notification may come before the consumer sleeps.
NotifyExit ==
    /\ producer = "exiting"
    /\ producer' = "done"
    /\ NotifyOne
    /\ UNCHANGED <<queue_, count, exit_requested_, expired>>

-----------------------------------------------------------------------------
Consumer == Lock \/ Test \/ Block \/ Timeout \/ Relock \/ Consume \/ TimedOut

Producer == Push \/ Notify \/ Unlock \/ RequestExit \/ NotifyExit

Next == Consumer \/ SpuriousWakeup \/ Producer

\* Both threads go on when they can, a sleeping consumer in ten seconds at the latest;
\* the producer, which asks for the mutex once a second, gets it in the end.
Spec == Init /\ [][Next]_vars /\ WF_vars(Consumer) /\ SF_vars(Producer)

-----------------------------------------------------------------------------
(* What must hold. *)

\* The consumer only sleeps over a string while the producer is about to notify it.
SleepsOnlyOnEmpty == consumer = "blocked" /\ queue_ > 0 => producer = "pushed"

\* front() and pop() never meet an empty queue, although the flag that the predicate
\* and the test after it read changes without the mutex.
NeverPopsEmpty == consumer = "consume" /\ ~exit_requested_ => queue_ > 0

\* start() returns: both threads end, also when the last notification is lost.
StartReturns == <>(consumer = "done" /\ producer = "done")
=============================================================================
