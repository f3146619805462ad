-------------------------- MODULE TestHandlerProof --------------------------
(* The safety of TestHandler for any number of strings. *)
EXTENDS TestHandler, TLAPS

\* One thread at a time is inside the mutex.
MutualExclusion == ~(ConsumerLocks /\ ProducerLocks)

\* A consumer that is about to sleep saw an empty queue, and still holds the mutex.
ArmedOnEmpty == consumer = "armed" => queue_ = 0

\* No string comes from nowhere.
QueuedWerePushed == queue_ <= count

\* The inductive invariant.
IInv == /\ TypeOK
        /\ MutualExclusion
        /\ ArmedOnEmpty
        /\ QueuedWerePushed
        /\ SleepsOnlyOnEmpty
        /\ NeverPopsEmpty

USE MaxCountAssumption

-----------------------------------------------------------------------------
\* The invariant holds when start() has made the threads.
LEMMA InitInvariant == Init => IInv
<1> SUFFICES ASSUME Init PROVE IInv
  OBVIOUS
<1>1. exit_requested_ \in BOOLEAN /\ expired \in BOOLEAN
  BY Zenon DEF Init
<1>2. TypeOK
  BY <1>1 DEF Init, TypeOK
<1> QED
  BY <1>2 DEF Init, IInv, MutualExclusion, ConsumerLocks, ProducerLocks, ArmedOnEmpty,
     QueuedWerePushed, SleepsOnlyOnEmpty, NeverPopsEmpty

\* The consumer, and wake-ups for nothing, keep the invariant.
LEMMA ConsumerKeepsInvariant ==
    ASSUME IInv, Consumer \/ SpuriousWakeup
    PROVE  IInv'
<1> USE DEF IInv, TypeOK, MutualExclusion, ConsumerLocks, ProducerLocks, ArmedOnEmpty,
            QueuedWerePushed, SleepsOnlyOnEmpty, NeverPopsEmpty
<1>1. CASE Lock
  <2>1. expired' \in BOOLEAN
    BY <1>1, Zenon DEF Lock
  <2> QED
    BY <1>1, <2>1 DEF Lock
<1>2. CASE Test
  <2>1. consumer' \in {"consume", "timed out", "armed"}
    BY <1>2, Zenon DEF Test
  <2>2. consumer' = "armed" => queue_ = 0
    BY <1>2 DEF Test
  <2>3. consumer' = "consume" => queue_ > 0 \/ exit_requested_
    BY <1>2 DEF Test
  <2>4. /\ consumer = "test"
        /\ UNCHANGED <<producer, queue_, count, exit_requested_, expired>>
    BY <1>2 DEF Test
  <2> QED
    BY <2>1, <2>2, <2>3, <2>4
<1>3. CASE Block
  BY <1>3 DEF Block
<1>4. CASE Timeout
  <2>1. expired' \in BOOLEAN
    BY <1>4, Zenon DEF Timeout
  <2> QED
    BY <1>4, <2>1 DEF Timeout
<1>5. CASE SpuriousWakeup
  BY <1>5 DEF SpuriousWakeup
<1>6. CASE Relock
  BY <1>6 DEF Relock
<1>7. CASE Consume
  <2>1. CASE exit_requested_
    BY <1>7, <2>1 DEF Consume
  <2>2. CASE ~exit_requested_
    <3>1. queue_ > 0 /\ queue_' = queue_ - 1
      BY <1>7, <2>2 DEF Consume
    <3>2. queue_' \in 0..MaxCount /\ QueuedWerePushed'
      BY <1>7, <2>2, <3>1 DEF Consume
    <3> QED
      BY <1>7, <2>2, <3>2 DEF Consume
  <2> QED
    BY <2>1, <2>2
<1>8. CASE TimedOut
  BY <1>8 DEF TimedOut
<1> QED
  BY <1>1, <1>2, <1>3, <1>4, <1>5, <1>6, <1>7, <1>8 DEF Consumer

\* The producer keeps the invariant.
LEMMA ProducerKeepsInvariant ==
    ASSUME IInv, Producer
    PROVE  IInv'
<1> USE DEF IInv, TypeOK, MutualExclusion, ConsumerLocks, ProducerLocks, ArmedOnEmpty,
            QueuedWerePushed, SleepsOnlyOnEmpty, NeverPopsEmpty
<1>1. CASE Push
  <2>1. /\ count \in 0..MaxCount /\ queue_ \in 0..MaxCount /\ queue_ <= count
        /\ count < MaxCount /\ count' = count + 1 /\ queue_' = queue_ + 1
    BY <1>1 DEF Push
  <2>2. count' \in 0..MaxCount /\ queue_' \in 0..MaxCount /\ queue_' <= count'
    BY ONLY <2>1, MaxCountAssumption
  <2> QED
    BY <1>1, <2>1, <2>2 DEF Push
<1>2. CASE Notify
  BY <1>2 DEF Notify, NotifyOne
<1>3. CASE Unlock
  BY <1>3 DEF Unlock
<1>4. CASE RequestExit
  <2>1. exit_requested_'
    BY <1>4 DEF RequestExit
  <2>2. exit_requested_' \in BOOLEAN
    BY <1>4, Zenon DEF RequestExit
  <2> QED
    BY <1>4, <2>1, <2>2 DEF RequestExit
<1>5. CASE NotifyExit
  BY <1>5 DEF NotifyExit, NotifyOne
<1> QED
  BY <1>1, <1>2, <1>3, <1>4, <1>5 DEF Producer

\* The inductive invariant holds in every reachable state.
THEOREM Invariance == Spec => []IInv
<1>1. ASSUME IInv, UNCHANGED vars PROVE IInv'
  BY <1>1 DEF vars, IInv, TypeOK, MutualExclusion, ConsumerLocks, ProducerLocks, ArmedOnEmpty,
     QueuedWerePushed, SleepsOnlyOnEmpty, NeverPopsEmpty
<1>2. IInv /\ Next => IInv'
  BY ConsumerKeepsInvariant, ProducerKeepsInvariant DEF Next
<1> QED
  BY InitInvariant, <1>1, <1>2, PTL DEF Spec

\* The consumer never sleeps over a string without a notification to come.
THEOREM NoSleepOverStrings == Spec => []SleepsOnlyOnEmpty
BY Invariance, PTL DEF IInv

\* front() and pop() are never called on an empty queue.
THEOREM NoPopFromEmpty == Spec => []NeverPopsEmpty
BY Invariance, PTL DEF IInv
=============================================================================
