--------------------------- MODULE ProduceConsume ---------------------------
(***************************************************************************)
(* produce_consume.h: consume() waits on a bare condition variable,        *)
(* without a predicate, once more often than test_produce_consume()        *)
(* notifies it; the test then joins the consumer.                          *)
(***************************************************************************)
EXTENDS Integers

CONSTANTS Count,        \* the 10 of both loops
          MaxAccidents  \* bound: spurious wake-ups

VARIABLES consumer,   \* where consume() is
          i,          \* how many waits are over
          producer,   \* where test_produce_consume() is
          notified,   \* how often it notified
          accidents   \* history: how many wake-ups nobody sent

vars == <<consumer, i, producer, notified, accidents>>

TypeOK ==
    /\ consumer \in {"loop", "blocked", "woken", "asleep", "done"}
    /\ i \in 0..(Count + 1)
    /\ producer \in {"loop", "locked", "done"}
    /\ notified \in 0..Count
    /\ accidents \in 0..MaxAccidents

Init ==
    /\ consumer = "loop"
    /\ i = 0
    /\ producer = "loop"
    /\ notified = 0
    /\ accidents = 0

MutexFree == producer # "locked"

-----------------------------------------------------------------------------
(* consume(): it holds the mutex only on its way into the wait and out of it. *)

Wait ==
    /\ consumer = "loop"
    /\ MutexFree
    /\ consumer' = "blocked"
    /\ UNCHANGED <<i, producer, notified, accidents>>

SpuriousWakeup ==
    /\ consumer = "blocked"
    /\ accidents < MaxAccidents
    /\ consumer' = "woken"
    /\ accidents' = accidents + 1
    /\ UNCHANGED <<i, producer, notified>>

\* Mutant: the loop ends one wait earlier.
RelockOnceLess ==
    /\ consumer = "woken"
    /\ MutexFree
    /\ i' = i + 1
    /\ consumer' = IF i' >= Count THEN "done" ELSE "asleep"
    /\ UNCHANGED <<producer, notified, accidents>>

\* The wait is over; the loop ends, or sleeps for half a second.
Relock ==
    /\ consumer = "woken"
    /\ MutexFree
    /\ i' = i + 1
    /\ consumer' = IF i' > Count THEN "done" ELSE "asleep"
    /\ UNCHANGED <<producer, notified, accidents>>

SleepEnds ==
    /\ consumer = "asleep"
    /\ consumer' = "loop"
    /\ UNCHANGED <<i, producer, notified, accidents>>

-----------------------------------------------------------------------------
(* test_produce_consume() *)

\* A notification that meets nobody is lost.
Notify ==
    /\ producer = "loop"
    /\ notified < Count
    /\ producer' = "locked"
    /\ notified' = notified + 1
    /\ consumer' = IF consumer = "blocked" THEN "woken" ELSE consumer
    /\ UNCHANGED <<i, accidents>>

\* A tenth of a second later.
Unlock ==
    /\ producer = "locked"
    /\ producer' = "loop"
    /\ UNCHANGED <<consumer, i, notified, accidents>>

Join ==
    /\ producer = "loop"
    /\ notified = Count
    /\ consumer = "done"
    /\ producer' = "done"
    /\ UNCHANGED <<consumer, i, notified, accidents>>

-----------------------------------------------------------------------------
Next ==
    \/ Wait \/ SpuriousWakeup \/ Relock \/ SleepEnds
    \/ Notify \/ Unlock \/ Join

Spec == Init /\ [][Next]_vars

-----------------------------------------------------------------------------
(* What must hold. *)

\* The test only ever returns because a wait ended that nobody notified, or else it waits
\* for its consumer for ever: every notification ends one wait at most, and there is one
\* wait more than notifications.
EndsByAccidentOnly == producer = "done" => accidents > 0
=============================================================================
