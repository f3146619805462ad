--------------------------- MODULE ThreadPoolProof ---------------------------
(***************************************************************************)
(* Proofs about ThreadPool: its safety properties and its implementation   *)
(* of TaskService, for every finite set of threads and every set of tasks. *)
(***************************************************************************)
EXTENDS ThreadPool, FiniteSetTheorems, FunctionTheorems, SequenceTheorems, TLAPS

Finishing == owner \in {"notifying", "joining"}

\* A thread holds a packaged_task exactly between its two critical sections, and
\* is joined by the next finish().
Holders ==
    \A w \in Workers :
        /\ f[w] # None <=> worker[w] = "holding"
        /\ worker[w] \in {"ready", "waiting", "holding"} => w \in finished
        /\ w \in finished => worker[w] # "none"
        /\ worker[w] = "exited" /\ w \in finished => Finishing

\* Nothing is left of a pool once it is destroyed.
Closed == owner = "destroyed" => dying /\ finished = {}

\* The stop messages: never more than threads; one each unless somebody calls
\* cancel_pending() while finish() blocks.
StopBalance ==
    LET sent == Cardinality(Stops(work)) + Cardinality(Stopping)
        due == IF Finishing THEN Cardinality(Live) ELSE 0
    IN  sent <= due /\ (~ForeignCancel => sent = due)

\* drain speaks of tasks that were queued, while finish() has threads to join.
DrainBound ==
    /\ \A t \in drain : future[t] # "none"
    /\ ~Finishing \/ finished = {} => drain = {}

\* A waiting thread that has work has somebody else to do it or to wake it; stop
\* messages never lie in the deque beside a waiting thread once all were notified.
WakeUps ==
    /\ Waiting # {} /\ work # <<>> =>
           \/ notify # {}
           \/ owner = "notifying"
           \/ \E w \in Workers : worker[w] = "ready" \/ f[w] \in Tasks
    /\ Waiting # {} /\ owner # "notifying" => Stops(work) = {}

IInv == /\ TypeOK
        /\ Holders
        /\ Closed
        /\ TaskLedger
        /\ StopBalance
        /\ DrainBound
        /\ DrainBeforeStop
        /\ WakeUps

-----------------------------------------------------------------------------
(* Sequences and the stop messages in them. *)

Messages == Tasks \union {Stop}

\* The positions of the stop messages of a deque are finitely many.
LEMMA StopsFinite ==
    ASSUME NEW s \in Seq(Messages)
    PROVE  /\ IsFiniteSet(Stops(s))
           /\ Cardinality(Stops(s)) \in Nat
           /\ Stops(s) \subseteq 1..Len(s)
<1>1. Stops(s) \subseteq 1..Len(s)
  BY DEF Stops
<1>2. IsFiniteSet(1..Len(s))
  BY FS_Interval
<1> QED
  BY <1>1, <1>2, FS_Subset, FS_CardinalityType

\* Queueing a task adds no stop message.
LEMMA StopsAppend ==
    ASSUME NEW s \in Seq(Messages), NEW t \in Tasks
    PROVE  Stops(Append(s, t)) = Stops(s)
<1>1. /\ DOMAIN Append(s, t) = 1..(Len(s) + 1)
      /\ DOMAIN s = 1..Len(s)
      /\ Len(s) \in Nat
      /\ Append(s, t)[Len(s) + 1] = t
      /\ \A i \in 1..Len(s) : Append(s, t)[i] = s[i]
  BY DEF Messages
<1>2. t # Stop
  BY ThreadPoolAssumption
<1> QED
  BY <1>1, <1>2 DEF Stops

\* Taking the first message takes one stop message or none.
LEMMA StopsTail ==
    ASSUME NEW s \in Seq(Messages), s # <<>>
    PROVE  /\ Head(s) = Stop =>
                  Cardinality(Stops(s)) = Cardinality(Stops(Tail(s))) + 1
           /\ Head(s) # Stop =>
                  Cardinality(Stops(s)) = Cardinality(Stops(Tail(s)))
<1> DEFINE Later == Stops(s) \ {1}
           Shift == [i \in Later |-> i - 1]
<1>1. /\ Len(s) \in Nat \ {0}
      /\ DOMAIN s = 1..Len(s)
      /\ Tail(s) \in Seq(Messages)
      /\ DOMAIN Tail(s) = 1..(Len(s) - 1)
      /\ \A i \in 1..(Len(s) - 1) : Tail(s)[i] = s[i + 1]
      /\ Head(s) = s[1]
  BY HeadTailProperties, EmptySeq, LenProperties
<1>2. IsFiniteSet(Stops(s)) /\ IsFiniteSet(Later) /\ IsFiniteSet(Stops(Tail(s)))
  BY <1>1, StopsFinite, FS_Subset
<1>3. Shift \in Bijection(Later, Stops(Tail(s)))
  <2>1. Shift \in [Later -> Stops(Tail(s))]
    BY <1>1 DEF Stops
  <2>2. \A i, j \in Later : Shift[i] = Shift[j] => i = j
    BY <1>1 DEF Stops
  <2>3. \A k \in Stops(Tail(s)) : \E i \in Later : Shift[i] = k
    <3> TAKE k \in Stops(Tail(s))
    <3>1. k + 1 \in Later /\ Shift[k + 1] = k
      BY <1>1 DEF Stops
    <3> QED
      BY <3>1
  <2> HIDE DEF Later, Shift
  <2> QED
    BY <2>1, <2>2, <2>3, Fun_IsBij
<1>4. Cardinality(Later) = Cardinality(Stops(Tail(s)))
  <2> HIDE DEF Later, Shift
  <2> QED
    BY <1>2, <1>3, FS_Bijection DEF ExistsBijection
<1>5. CASE Head(s) = Stop
  <2>1. 1 \in Stops(s)
    BY <1>1, <1>5 DEF Stops
  <2> QED
    BY <1>2, <1>4, <1>5, <2>1, FS_RemoveElement, FS_CardinalityType
<1>6. CASE Head(s) # Stop
  <2>1. 1 \notin Stops(s)
    BY <1>1, <1>6 DEF Stops
  <2>2. Later = Stops(s)
    BY <2>1
  <2> QED
    BY <1>4, <1>6, <2>2
<1> QED
  BY <1>5, <1>6

\* finish() enqueues as many stop messages as there are threads.
LEMMA StopsPushed ==
    ASSUME NEW s \in Seq(Messages), Stops(s) = {}, IsFiniteSet(finished)
    PROVE  /\ s \o StopMessages \in Seq(Messages)
           /\ Stops(s \o StopMessages) = Len(s) + 1 .. Len(s) + Cardinality(finished)
           /\ Cardinality(Stops(s \o StopMessages)) = Cardinality(finished)
<1> DEFINE n == Cardinality(finished)
           p == s \o StopMessages
<1>1. n \in Nat /\ Len(s) \in Nat
  BY FS_CardinalityType, LenProperties
<1>2. /\ StopMessages \in Seq(Messages)
      /\ Len(StopMessages) = n
      /\ \A i \in 1..n : StopMessages[i] = Stop
  BY <1>1 DEF StopMessages, Messages
<1>3. /\ p \in Seq(Messages)
      /\ Len(p) = Len(s) + n
      /\ \A i \in 1..Len(p) :
             p[i] = IF i <= Len(s) THEN s[i] ELSE StopMessages[i - Len(s)]
  BY <1>1, <1>2, ConcatProperties
<1>4. Stops(p) = Len(s) + 1 .. Len(s) + n
  BY <1>1, <1>2, <1>3 DEF Stops
<1>5. Cardinality(Len(s) + 1 .. Len(s) + n) = n
  BY <1>1, FS_Interval
<1> QED
  BY <1>3, <1>4, <1>5

-----------------------------------------------------------------------------
(* Facts that hold in every state that satisfies the invariant. *)

\* The sets that StopBalance counts are finite.
LEMMA Counts ==
    ASSUME IInv
    PROVE  /\ IsFiniteSet(Stops(work)) /\ Cardinality(Stops(work)) \in Nat
           /\ IsFiniteSet(Stopping) /\ Cardinality(Stopping) \in Nat
           /\ IsFiniteSet(finished) /\ Cardinality(finished) \in Nat
           /\ IsFiniteSet(Live) /\ Cardinality(Live) \in Nat
<1>1. work \in Seq(Messages) /\ finished \subseteq Workers
  BY DEF IInv, TypeOK, Messages
<1>2. Stopping \subseteq Workers /\ Live \subseteq finished
  BY DEF Stopping, Live
<1>3. IsFiniteSet(Workers)
  BY ThreadPoolAssumption
<1>4. IsFiniteSet(Stopping) /\ IsFiniteSet(finished) /\ IsFiniteSet(Live)
  BY <1>1, <1>2, <1>3, FS_Subset
<1> QED
  BY <1>1, <1>4, StopsFinite, FS_CardinalityType

\* While finish() does not block there is no stop message, held or queued.
LEMMA NoStopOutsideFinish ==
    ASSUME IInv, ~Finishing
    PROVE  Stops(work) = {} /\ Stopping = {}
<1>1. Cardinality(Stops(work)) = 0 /\ Cardinality(Stopping) = 0
  BY Counts DEF IInv, StopBalance
<1> QED
  BY <1>1, Counts, FS_EmptySet

\* Outside finish() every thread of the vector lives.
LEMMA AllLive ==
    ASSUME IInv, ~Finishing
    PROVE  Live = finished
BY DEF IInv, Holders, TypeOK, Live

-----------------------------------------------------------------------------
(* The invariant holds initially and every step preserves it. *)

\* The invariant holds in the initial states: nothing is started, queued or held.
LEMMA InitIInv == Init => IInv
<1> SUFFICES ASSUME Init PROVE IInv
  OBVIOUS
<1>1. TypeOK
  BY EmptySeq DEF Init, TypeOK
<1>2. Holders /\ Closed /\ DrainBound
  BY DEF Init, Holders, Closed, DrainBound, Finishing
<1>3. TaskLedger
  BY ThreadPoolAssumption DEF Init, TaskLedger, Pending, Queued, Running
<1>4. StopBalance
  <2>1. Stops(work) = {} /\ Stopping = {}
    BY ThreadPoolAssumption DEF Init, Stops, Stopping
  <2>2. Cardinality(Stops(work)) = 0 /\ Cardinality(Stopping) = 0
    BY <2>1, FS_EmptySet
  <2>3. ~Finishing
    BY DEF Init, Finishing
  <2> QED
    BY <2>2, <2>3 DEF StopBalance
<1>5. DrainBeforeStop
  BY DEF Init, DrainBeforeStop
<1>6. WakeUps
  BY DEF Init, WakeUps, Waiting
<1> QED
  BY <1>1, <1>2, <1>3, <1>4, <1>5, <1>6 DEF IInv

\* Queue preserves the invariant.
LEMMA QueueStep ==
    ASSUME IInv, NEW c \in Clients \union Workers, NEW t \in Tasks, Queue(c, t)
    PROVE  IInv'
<1>1. /\ work \in Seq(Messages)
      /\ work' = Append(work, t)
      /\ Len(work) \in Nat
      /\ DOMAIN work = 1..Len(work)
      /\ DOMAIN work' = 1..(Len(work) + 1)
      /\ work'[Len(work) + 1] = t
      /\ \A i \in 1..Len(work) : work'[i] = work[i]
      /\ t # Stop
      /\ future[t] = "none"
      /\ future' = [future EXCEPT ![t] = "pending"]
      /\ future \in [Tasks -> {"none", "pending", "ready", "broken"}]
      /\ UNCHANGED <<finished, worker, f, owner, dying, drain>>
  BY ThreadPoolAssumption DEF IInv, TypeOK, Queue, Messages
<1>2. TypeOK'
  BY <1>1 DEF IInv, TypeOK, Queue, Messages
<1>3. Holders' /\ Closed' /\ DrainBound'
  BY <1>1 DEF IInv, Holders, Closed, DrainBound, Finishing, TypeOK
<1>4. TaskLedger'
  <2>1. t \notin Queued /\ t \notin Running
    BY <1>1 DEF IInv, TaskLedger, Pending
  <2>2. Pending' = Pending \union {t}
    BY <1>1 DEF Pending
  <2>3. Queued' = Queued \union {t}
    BY <1>1 DEF Queued
  <2>4. Running' = Running
    BY <1>1 DEF Running
  <2>5. \A i, j \in DOMAIN work' : work'[i] = work'[j] /\ work'[i] \in Tasks => i = j
    BY <1>1, <2>1 DEF IInv, TaskLedger, Queued
  <2> QED
    BY <1>1, <2>1, <2>2, <2>3, <2>4, <2>5 DEF IInv, TaskLedger
<1>5. Stops(work') = Stops(work)
  BY <1>1, StopsAppend
<1>6. StopBalance'
  BY <1>1, <1>5 DEF IInv, StopBalance, Stopping, Live, Finishing
<1>7. DrainBeforeStop'
  <2>1. t \notin drain
    BY <1>1 DEF IInv, DrainBound
  <2> QED
    BY <1>1, <2>1 DEF IInv, DrainBeforeStop, Queued
<1>8. WakeUps'
  BY <1>1, <1>5 DEF IInv, WakeUps, Waiting, Queue
<1> QED
  BY <1>2, <1>3, <1>4, <1>6, <1>7, <1>8 DEF IInv

\* NotifyOne preserves the invariant.
LEMMA NotifyOneStep ==
    ASSUME IInv, NEW c \in Clients \union Workers, NotifyOne(c)
    PROVE  IInv'
<1>1. /\ worker \in [Workers -> {"none", "ready", "waiting", "holding", "exited"}]
      /\ UNCHANGED <<work, finished, f, owner, dying, future, drain>>
      /\ \/ \E w \in Waiting : worker' = [worker EXCEPT ![w] = "ready"]
         \/ Waiting = {} /\ UNCHANGED worker
  BY DEF IInv, TypeOK, NotifyOne
<1>2. TypeOK'
  BY <1>1 DEF IInv, TypeOK, NotifyOne, Waiting
<1>3. Holders' /\ Closed' /\ DrainBound'
  BY <1>1 DEF IInv, Holders, Closed, DrainBound, Finishing, Waiting
<1>4. TaskLedger'
  BY <1>1 DEF IInv, TaskLedger, Pending, Queued, Running
<1>5. /\ finished \subseteq Workers
      /\ \A w \in Workers : worker'[w] = "exited" <=> worker[w] = "exited"
  BY <1>1 DEF IInv, TypeOK, Waiting
<1>6. StopBalance'
  <2>1. Live' = Live
    BY <1>1, <1>5 DEF Live
  <2> QED
    BY <1>1, <2>1 DEF IInv, StopBalance, Stopping, Stops, Finishing
<1>7. DrainBeforeStop'
  BY <1>1, <1>5 DEF IInv, DrainBeforeStop, Queued
<1>8. WakeUps'
  <2>1. Waiting' \subseteq Waiting
    BY <1>1 DEF Waiting
  <2>2. Waiting # {} => \E w \in Workers : worker'[w] = "ready"
    BY <1>1 DEF Waiting
  <2> QED
    BY <1>1, <2>1, <2>2 DEF IInv, WakeUps, Stops
<1> QED
  BY <1>2, <1>3, <1>4, <1>6, <1>7, <1>8 DEF IInv

\* Wait preserves the invariant.
LEMMA WaitStep ==
    ASSUME IInv, NEW w \in Workers, Wait(w)
    PROVE  IInv'
<1>1. /\ worker \in [Workers -> {"none", "ready", "waiting", "holding", "exited"}]
      /\ worker[w] = "ready"
      /\ work = <<>>
      /\ worker' = [worker EXCEPT ![w] = "waiting"]
      /\ UNCHANGED <<work, finished, f, notify, owner, dying, future, drain>>
  BY DEF IInv, TypeOK, Wait
<1>2. TypeOK'
  BY <1>1 DEF IInv, TypeOK
<1>3. Holders' /\ Closed' /\ DrainBound'
  BY <1>1 DEF IInv, Holders, Closed, DrainBound, Finishing
<1>4. TaskLedger'
  BY <1>1 DEF IInv, TaskLedger, Pending, Queued, Running
<1>5. Live' = Live
  BY <1>1 DEF Live
<1>6. StopBalance'
  BY <1>1, <1>5 DEF IInv, StopBalance, Stopping, Stops, Finishing
<1>7. DrainBeforeStop'
  BY <1>1 DEF IInv, DrainBeforeStop, Queued
<1>8. WakeUps'
  BY <1>1 DEF IInv, WakeUps, Stops
<1> QED
  BY <1>2, <1>3, <1>4, <1>6, <1>7, <1>8 DEF IInv

\* SpuriousWakeup preserves the invariant.
LEMMA SpuriousWakeupStep ==
    ASSUME IInv, NEW w \in Workers, SpuriousWakeup(w)
    PROVE  IInv'
<1>1. /\ worker \in [Workers -> {"none", "ready", "waiting", "holding", "exited"}]
      /\ worker[w] = "waiting"
      /\ worker' = [worker EXCEPT ![w] = "ready"]
      /\ UNCHANGED <<work, finished, f, notify, owner, dying, future, drain>>
  BY DEF IInv, TypeOK, SpuriousWakeup
<1>2. TypeOK'
  BY <1>1 DEF IInv, TypeOK
<1>3. Holders' /\ Closed' /\ DrainBound'
  BY <1>1 DEF IInv, Holders, Closed, DrainBound, Finishing
<1>4. TaskLedger'
  BY <1>1 DEF IInv, TaskLedger, Pending, Queued, Running
<1>5. Live' = Live
  BY <1>1 DEF Live
<1>6. StopBalance'
  BY <1>1, <1>5 DEF IInv, StopBalance, Stopping, Stops, Finishing
<1>7. DrainBeforeStop'
  BY <1>1 DEF IInv, DrainBeforeStop, Queued
<1>8. WakeUps'
  <2>1. Waiting' \subseteq Waiting /\ worker'[w] = "ready"
    BY <1>1 DEF Waiting
  <2> QED
    BY <1>1, <2>1 DEF IInv, WakeUps, Stops
<1> QED
  BY <1>2, <1>3, <1>4, <1>6, <1>7, <1>8 DEF IInv

\* Pop preserves the invariant.
LEMMA PopStep ==
    ASSUME IInv, NEW w \in Workers, Pop(w)
    PROVE  IInv'
<1>1. /\ work \in Seq(Messages)
      /\ work # <<>>
      /\ Len(work) \in Nat \ {0}
      /\ DOMAIN work = 1..Len(work)
      /\ work' = Tail(work)
      /\ work' \in Seq(Messages)
      /\ DOMAIN work' = 1..(Len(work) - 1)
      /\ \A i \in 1..(Len(work) - 1) : work'[i] = work[i + 1]
      /\ Head(work) = work[1]
      /\ Head(work) \in Messages
  BY HeadTailProperties, EmptySeq, LenProperties DEF IInv, TypeOK, Pop, Messages
<1>2. /\ worker \in [Workers -> {"none", "ready", "waiting", "holding", "exited"}]
      /\ worker[w] = "ready" /\ w \in finished
      /\ worker' = [worker EXCEPT ![w] = "holding"]
      /\ f \in [Workers -> Tasks \union {Stop, None}]
      /\ f[w] = None
      /\ f' = [f EXCEPT ![w] = work[1]]
      /\ Stop \notin Tasks /\ None \notin Messages
      /\ UNCHANGED <<finished, notify, owner, dying, future, drain>>
  BY <1>1, ThreadPoolAssumption DEF IInv, TypeOK, Holders, Pop, Messages
<1>3. TypeOK'
  BY <1>1, <1>2 DEF IInv, TypeOK, Messages
<1>4. Holders' /\ Closed' /\ DrainBound'
  BY <1>1, <1>2 DEF IInv, Holders, Closed, DrainBound, Finishing
<1>5. TaskLedger'
  <2>1. Queued = Queued' \union ({work[1]} \intersect Tasks)
    <3>1. \A i \in 1..Len(work) : i # 1 =>
              i - 1 \in DOMAIN work' /\ work'[i - 1] = work[i]
      BY <1>1
    <3>2. \A i \in DOMAIN work' : i + 1 \in DOMAIN work /\ work[i + 1] = work'[i]
      BY <1>1
    <3>3. ASSUME NEW t \in Queued, t # work[1] PROVE t \in Queued'
      <4>1. PICK i \in DOMAIN work : work[i] = t
        BY DEF Queued
      <4>2. i - 1 \in DOMAIN work' /\ work'[i - 1] = t
        BY <1>1, <3>1, <3>3, <4>1
      <4> QED
        BY <4>2 DEF Queued
    <3>4. Queued' \subseteq Queued /\ {work[1]} \intersect Tasks \subseteq Queued
      BY <1>1, <3>2 DEF Queued
    <3>5. Queued \subseteq Tasks
      BY DEF Queued
    <3> QED
      BY <3>3, <3>4, <3>5
  <2>2. Running' = Running \union ({work[1]} \intersect Tasks)
    BY <1>2, ThreadPoolAssumption DEF Running
  <2>3. work[1] \notin Queued'
    BY <1>1 DEF IInv, TaskLedger, Queued
  <2>4. Pending' = Queued' \union Running' /\ Queued' \intersect Running' = {}
    BY <1>2, <2>1, <2>2, <2>3 DEF IInv, TaskLedger, Pending
  <2>5. \A i, j \in DOMAIN work' : work'[i] = work'[j] /\ work'[i] \in Tasks => i = j
    BY <1>1 DEF IInv, TaskLedger
  <2>6. work[1] \in Tasks => work[1] \in Queued
    BY <1>1 DEF Queued
  <2>7. \A u, v \in Workers : f'[u] = f'[v] /\ f'[u] \in Tasks => u = v
    BY <1>2, <2>6 DEF IInv, TaskLedger, Running
  <2> QED
    BY <2>4, <2>5, <2>7 DEF TaskLedger
<1>6. Live' = Live
  BY <1>2 DEF Live
<1>7. StopBalance'
  <2>1. Cardinality(Stops(work)) = Cardinality(Stops(work'))
            + (IF work[1] = Stop THEN 1 ELSE 0)
    BY <1>1, StopsTail, StopsFinite
  <2>2. Cardinality(Stopping') = Cardinality(Stopping)
            + (IF work[1] = Stop THEN 1 ELSE 0)
    <3>1. w \notin Stopping
      BY <1>2, ThreadPoolAssumption DEF Stopping
    <3>2. CASE work[1] = Stop
      <4>1. Stopping' = Stopping \union {w}
        BY <1>2, <3>2 DEF Stopping
      <4> QED
        BY <3>1, <3>2, <4>1, Counts, FS_AddElement
    <3>3. CASE work[1] # Stop
      <4>1. Stopping' = Stopping
        BY <1>2, <3>1, <3>3 DEF Stopping
      <4> QED
        BY <3>3, <4>1, Counts
    <3> QED
      BY <3>2, <3>3
  <2>3. Cardinality(Stops(work')) \in Nat
    BY <1>1, StopsFinite
  <2>4. Cardinality(Stops(work')) + Cardinality(Stopping')
            = Cardinality(Stops(work)) + Cardinality(Stopping)
    BY <2>1, <2>2, <2>3, Counts
  <2> QED
    BY <1>2, <1>6, <2>4 DEF IInv, StopBalance, Stops, Finishing
<1>8. DrainBeforeStop'
  <2>1. \A i, j \in DOMAIN work' : i < j /\ work'[i] = Stop => work'[j] \notin drain
    BY <1>1 DEF IInv, DrainBeforeStop
  <2>2. Queued' \subseteq Queued
    BY <1>1 DEF Queued
  <2>3. ASSUME work[1] = Stop PROVE drain \intersect Queued' = {}
    BY <1>1, <2>3 DEF IInv, DrainBeforeStop, Queued
  <2> QED
    BY <1>2, <2>1, <2>2, <2>3 DEF IInv, DrainBeforeStop
<1>9. WakeUps'
  <2>1. Waiting' = Waiting
    BY <1>2 DEF Waiting
  <2>2. work[1] = Stop => 1 \in Stops(work)
    BY <1>1 DEF Stops
  <2>3. Stops(work) = {} => Stops(work') = {}
    BY <1>1 DEF Stops
  <2>4. work[1] # Stop => f'[w] \in Tasks
    BY <1>1, <1>2 DEF Messages
  <2> QED
    BY <1>1, <1>2, <2>1, <2>2, <2>3, <2>4 DEF IInv, WakeUps, Stops
<1> QED
  BY <1>3, <1>4, <1>5, <1>7, <1>8, <1>9 DEF IInv

\* Run preserves the invariant.
LEMMA RunStep ==
    ASSUME IInv, NEW w \in Workers, Run(w)
    PROVE  IInv'
<1>1. /\ worker \in [Workers -> {"none", "ready", "waiting", "holding", "exited"}]
      /\ worker[w] = "holding" /\ w \in finished
      /\ worker' = [worker EXCEPT ![w] = "ready"]
      /\ f \in [Workers -> Tasks \union {Stop, None}]
      /\ f[w] \in Tasks
      /\ f' = [f EXCEPT ![w] = None]
      /\ future \in [Tasks -> {"none", "pending", "ready", "broken"}]
      /\ future' = [future EXCEPT ![f[w]] = "ready"]
      /\ Stop \notin Tasks /\ None \notin Tasks \union {Stop}
      /\ UNCHANGED <<work, finished, notify, owner, dying, drain>>
  BY ThreadPoolAssumption DEF IInv, TypeOK, Holders, Run
<1>2. TypeOK'
  BY <1>1 DEF IInv, TypeOK
<1>3. Holders' /\ Closed' /\ DrainBound'
  BY <1>1 DEF IInv, Holders, Closed, DrainBound, Finishing
<1>4. TaskLedger'
  <2>1. f[w] \in Running /\ f[w] \notin Queued
    BY <1>1 DEF IInv, TaskLedger, Running
  <2>2. Queued' = Queued
    BY <1>1 DEF Queued
  <2>3. Running' = Running \ {f[w]}
    BY <1>1 DEF IInv, TaskLedger, Running
  <2>4. Pending' = Pending \ {f[w]}
    BY <1>1 DEF Pending
  <2> QED
    BY <1>1, <2>1, <2>2, <2>3, <2>4 DEF IInv, TaskLedger
<1>5. Live' = Live /\ Stopping' = Stopping
  BY <1>1 DEF Live, Stopping
<1>6. StopBalance'
  BY <1>1, <1>5 DEF IInv, StopBalance, Stops, Finishing
<1>7. DrainBeforeStop'
  BY <1>1 DEF IInv, DrainBeforeStop, Queued
<1>8. WakeUps'
  <2>1. Waiting' = Waiting /\ worker'[w] = "ready"
    BY <1>1 DEF Waiting
  <2> QED
    BY <1>1, <2>1 DEF IInv, WakeUps, Stops
<1> QED
  BY <1>2, <1>3, <1>4, <1>6, <1>7, <1>8 DEF IInv

\* Exit preserves the invariant.
LEMMA ExitStep ==
    ASSUME IInv, NEW w \in Workers, Exit(w)
    PROVE  IInv'
<1>1. /\ worker \in [Workers -> {"none", "ready", "waiting", "holding", "exited"}]
      /\ worker[w] = "holding" /\ w \in finished
      /\ worker' = [worker EXCEPT ![w] = "exited"]
      /\ f \in [Workers -> Tasks \union {Stop, None}]
      /\ f[w] = Stop
      /\ f' = [f EXCEPT ![w] = None]
      /\ Stop \notin Tasks /\ None \notin Tasks \union {Stop}
      /\ UNCHANGED <<work, finished, notify, owner, dying, future, drain>>
  BY ThreadPoolAssumption DEF IInv, TypeOK, Holders, Exit
<1>2. Finishing
  <2>1. w \in Stopping
    BY <1>1 DEF Stopping
  <2> QED
    BY <2>1, NoStopOutsideFinish
<1>3. TypeOK'
  BY <1>1 DEF IInv, TypeOK
<1>4. Holders' /\ Closed' /\ DrainBound'
  BY <1>1, <1>2 DEF IInv, Holders, Closed, DrainBound, Finishing
<1>5. TaskLedger'
  BY <1>1 DEF IInv, TaskLedger, Pending, Queued, Running
<1>6. StopBalance'
  <2>1. Stopping' = Stopping \ {w} /\ w \in Stopping
    BY <1>1 DEF Stopping
  <2>2. Live' = Live \ {w} /\ w \in Live
    BY <1>1 DEF Live
  <2>3. /\ Cardinality(Stopping') = Cardinality(Stopping) - 1
        /\ Cardinality(Live') = Cardinality(Live) - 1
    BY <2>1, <2>2, Counts, FS_RemoveElement
  <2>4. Stops(work)' = Stops(work) /\ Finishing' = Finishing
    BY <1>1 DEF Stops, Finishing
  <2> QED
    BY <1>2, <2>3, <2>4, Counts DEF IInv, StopBalance
<1>7. DrainBeforeStop'
  BY <1>1 DEF IInv, DrainBeforeStop, Queued
<1>8. WakeUps'
  <2>1. Waiting' = Waiting
    BY <1>1 DEF Waiting
  <2>2. \A v \in Workers : worker[v] = "ready" \/ f[v] \in Tasks
                           => worker'[v] = "ready" \/ f'[v] \in Tasks
    BY <1>1
  <2> QED
    BY <1>1, <2>1, <2>2 DEF IInv, WakeUps, Stops
<1> QED
  BY <1>3, <1>4, <1>5, <1>6, <1>7, <1>8 DEF IInv

\* Start preserves the invariant.
LEMMA StartStep ==
    ASSUME IInv, NEW w \in Workers, Start(w)
    PROVE  IInv'
<1>1. /\ worker \in [Workers -> {"none", "ready", "waiting", "holding", "exited"}]
      /\ owner = "idle"
      /\ w \notin finished /\ f[w] = None
      /\ finished' = finished \union {w}
      /\ worker' = [worker EXCEPT ![w] = "ready"]
      /\ None \notin Tasks \union {Stop}
      /\ UNCHANGED <<work, f, notify, owner, dying, future, drain>>
  BY ThreadPoolAssumption DEF IInv, TypeOK, Holders, Start
<1>2. ~Finishing /\ ~Finishing'
  BY <1>1 DEF Finishing
<1>3. TypeOK'
  BY <1>1 DEF IInv, TypeOK
<1>4. Holders' /\ Closed' /\ DrainBound'
  BY <1>1 DEF IInv, Holders, Closed, DrainBound, Finishing
<1>5. TaskLedger'
  BY <1>1 DEF IInv, TaskLedger, Pending, Queued, Running
<1>6. StopBalance'
  BY <1>1, <1>2 DEF IInv, StopBalance, Stopping, Stops
<1>7. DrainBeforeStop'
  BY <1>1 DEF IInv, DrainBeforeStop, Queued, Holders
<1>8. WakeUps'
  <2>1. Waiting' \subseteq Waiting /\ worker'[w] = "ready"
    BY <1>1 DEF Waiting
  <2> QED
    BY <1>1, <2>1 DEF IInv, WakeUps, Stops
<1> QED
  BY <1>3, <1>4, <1>5, <1>6, <1>7, <1>8 DEF IInv

\* What clearing the deque preserves, whatever the owner does at the same time.
LEMMA Cleared ==
    ASSUME IInv, ClearWork, UNCHANGED <<worker, f, drain>>
    PROVE  /\ work' \in Seq(Messages)
           /\ future' \in [Tasks -> {"none", "pending", "ready", "broken"}]
           /\ \A t \in Tasks : future[t] # "none" => future'[t] # "none"
           /\ Stops(work') = {} /\ Cardinality(Stops(work')) = 0
           /\ Queued' = {}
           /\ TaskLedger'
<1>1. /\ work' = <<>>
      /\ future \in [Tasks -> {"none", "pending", "ready", "broken"}]
      /\ future' = [t \in Tasks |-> IF t \in Queued THEN "broken" ELSE future[t]]
      /\ UNCHANGED <<worker, f>>
  BY DEF IInv, TypeOK, ClearWork, Break
<1>2. work' \in Seq(Messages)
  BY <1>1, EmptySeq
<1>3. Stops(work') = {} /\ Queued' = {}
  BY <1>1 DEF Stops, Queued
<1>4. Cardinality(Stops(work')) = 0
  BY <1>3, FS_EmptySet
<1>5. TaskLedger'
  <2>1. Running' = Running
    BY <1>1 DEF Running
  <2>2. Pending' = Pending \ Queued
    BY <1>1 DEF Pending
  <2> QED
    BY <1>1, <1>3, <2>1, <2>2 DEF IInv, TaskLedger
<1> QED
  BY <1>1, <1>2, <1>3, <1>4, <1>5

\* cancel_pending(), also the one of abort(), preserves the invariant.
LEMMA ClearStep ==
    ASSUME IInv, CancelPending \/ Abort
    PROVE  IInv'
<1>1. /\ ClearWork
      /\ UNCHANGED <<finished, worker, f, notify, dying, drain>>
      /\ \/ UNCHANGED owner /\ (Finishing => ForeignCancel)
         \/ owner = "idle" /\ owner' = "aborting"
  BY DEF CancelPending, Abort, Finishing, IInv, TypeOK
<1>2. work' = <<>>
  BY <1>1 DEF ClearWork
<1>3. TypeOK'
  BY <1>1, Cleared DEF IInv, TypeOK, Messages
<1>4. Holders' /\ Closed' /\ DrainBound'
  BY <1>1, Cleared DEF IInv, TypeOK, Holders, Closed, DrainBound, Finishing
<1>5. TaskLedger'
  BY <1>1, Cleared
<1>6. StopBalance'
  <2>1. Stopping' = Stopping /\ Live' = Live /\ Finishing' = Finishing
    BY <1>1 DEF Stopping, Live, Finishing
  <2>2. Stops(work)' = Stops(work')
    BY DEF Stops
  <2>3. Cardinality(Stopping) <= IF Finishing THEN Cardinality(Live) ELSE 0
    BY Counts DEF IInv, StopBalance
  <2>4. ~Finishing => Cardinality(Stopping) = 0
    BY <2>3, Counts
  <2>5. Cardinality(Stops(work)') = 0
    BY <1>1, <2>2, Cleared
  <2>6. ~ForeignCancel => ~Finishing
    BY <1>1 DEF Finishing
  <2> QED
    BY <2>1, <2>3, <2>4, <2>5, <2>6, Counts DEF StopBalance
<1>7. DrainBeforeStop'
  BY <1>1, <1>2, Cleared DEF DrainBeforeStop
<1>8. WakeUps'
  BY <1>1, <1>2, Cleared DEF WakeUps, Stops
<1> QED
  BY <1>3, <1>4, <1>5, <1>6, <1>7, <1>8 DEF IInv

\* finish(), up to the release of m: called alone, by abort() or by ~tasks().
LEMMA PushStopsStep ==
    ASSUME IInv, owner \in {"idle", "aborting"}, PushStops,
           dying' \in BOOLEAN, dying => dying'
    PROVE  IInv'
<1>1. /\ work \in Seq(Messages)
      /\ work' = work \o StopMessages
      /\ drain' = IF finished = {} THEN {} ELSE Pending
      /\ owner' = "notifying"
      /\ Stop \notin Tasks
      /\ future \in [Tasks -> {"none", "pending", "ready", "broken"}]
      /\ UNCHANGED <<finished, worker, f, notify, future>>
  BY ThreadPoolAssumption DEF IInv, TypeOK, PushStops, Messages
<1>2. ~Finishing /\ Finishing'
  BY <1>1 DEF Finishing
<1>3. Stops(work) = {} /\ Stopping = {} /\ Live = finished
  BY <1>2, NoStopOutsideFinish, AllLive
<1>4. /\ work' \in Seq(Messages)
      /\ Stops(work') = Len(work) + 1 .. Len(work) + Cardinality(finished)
      /\ Cardinality(Stops(work')) = Cardinality(finished)
  BY <1>1, <1>3, Counts, StopsPushed
<1>5. /\ Len(work) \in Nat /\ Cardinality(finished) \in Nat
      /\ DOMAIN work = 1..Len(work)
      /\ DOMAIN work' = 1..(Len(work) + Cardinality(finished))
      /\ \A i \in DOMAIN work' : work'[i] = IF i <= Len(work) THEN work[i] ELSE Stop
  <2>1. Len(work) \in Nat /\ Cardinality(finished) \in Nat
    BY <1>1, Counts, LenProperties
  <2>2. /\ StopMessages \in Seq(Messages)
        /\ Len(StopMessages) = Cardinality(finished)
        /\ \A i \in 1..Cardinality(finished) : StopMessages[i] = Stop
    BY <2>1 DEF StopMessages, Messages
  <2>3. /\ Len(work') = Len(work) + Len(StopMessages)
        /\ \A i \in 1..(Len(work) + Len(StopMessages)) :
              work'[i] = IF i <= Len(work) THEN work[i] ELSE StopMessages[i - Len(work)]
    BY <1>1, <2>2, ConcatProperties, Zenon
  <2>4. DOMAIN work = 1..Len(work) /\ DOMAIN work' = 1..Len(work')
    BY <1>1, <1>4, LenProperties
  <2> QED
    BY <2>1, <2>2, <2>3, <2>4
<1>6. TypeOK'
  BY <1>1, <1>4 DEF IInv, TypeOK, Messages, Pending
<1>7. Holders' /\ Closed' /\ DrainBound'
  BY <1>1, <1>2 DEF IInv, Holders, Closed, DrainBound, Finishing, Pending
<1>8. TaskLedger'
  <2>1. Queued' = Queued
    <3>1. Queued' \subseteq Queued
      BY <1>1, <1>5 DEF Queued
    <3>2. Queued \subseteq Queued'
      <4>1. \A i \in DOMAIN work : i \in DOMAIN work' /\ work'[i] = work[i]
        BY <1>5
      <4> QED
        BY <4>1 DEF Queued
    <3> QED
      BY <3>1, <3>2
  <2>2. \A i, j \in DOMAIN work' : work'[i] = work'[j] /\ work'[i] \in Tasks => i = j
    BY <1>1, <1>5 DEF IInv, TaskLedger
  <2>3. Running' = Running /\ Pending' = Pending
    BY <1>1 DEF Running, Pending
  <2> QED
    BY <1>1, <2>1, <2>2, <2>3 DEF IInv, TaskLedger
<1>9. StopBalance'
  <2>1. Stopping' = {} /\ Live' = finished /\ Stops(work)' = Stops(work')
    BY <1>1, <1>3 DEF Stopping, Live, Stops
  <2>2. Cardinality(Stopping') = 0
    BY <2>1, FS_EmptySet
  <2> QED
    BY <1>2, <1>4, <1>5, <2>1, <2>2 DEF StopBalance
<1>10. DrainBeforeStop'
  <2>1. \A i \in DOMAIN work' : work'[i] = Stop => i > Len(work)
    BY <1>3, <1>5 DEF Stops
  <2>2. \A i, j \in DOMAIN work' : i < j /\ work'[i] = Stop => work'[j] \notin drain'
    BY <1>1, <1>5, <2>1 DEF Pending
  <2>3. \A w \in finished : f'[w] # Stop /\ worker'[w] # "exited"
    BY <1>1, <1>3 DEF Stopping, Live, IInv, TypeOK
  <2> QED
    BY <1>1, <2>2, <2>3 DEF DrainBeforeStop
<1>11. WakeUps'
  BY <1>1 DEF WakeUps
<1> QED
  BY <1>6, <1>7, <1>8, <1>9, <1>10, <1>11 DEF IInv

\* NotifyAll preserves the invariant.
LEMMA NotifyAllStep ==
    ASSUME IInv, NotifyAll
    PROVE  IInv'
<1>1. /\ worker \in [Workers -> {"none", "ready", "waiting", "holding", "exited"}]
      /\ owner = "notifying" /\ owner' = "joining"
      /\ worker' = [w \in Workers |-> IF w \in Waiting THEN "ready" ELSE worker[w]]
      /\ finished \subseteq Workers
      /\ UNCHANGED <<work, finished, f, notify, dying, future, drain>>
  BY DEF IInv, TypeOK, NotifyAll
<1>2. /\ \A w \in Workers : worker'[w] = IF worker[w] = "waiting" THEN "ready" ELSE worker[w]
      /\ worker' \in [Workers -> {"none", "ready", "waiting", "holding", "exited"}]
  BY <1>1 DEF Waiting
<1>3. TypeOK'
  BY <1>1, <1>2 DEF IInv, TypeOK
<1>4. Holders' /\ Closed' /\ DrainBound'
  BY <1>1, <1>2 DEF IInv, Holders, Closed, DrainBound, Finishing
<1>5. TaskLedger'
  BY <1>1 DEF IInv, TaskLedger, Pending, Queued, Running
<1>6. StopBalance'
  <2>1. Live' = Live /\ Finishing /\ Finishing'
    BY <1>1, <1>2 DEF Live, Finishing
  <2> QED
    BY <1>1, <2>1 DEF IInv, StopBalance, Stopping, Stops
<1>7. DrainBeforeStop'
  BY <1>1, <1>2 DEF IInv, DrainBeforeStop, Queued
<1>8. WakeUps'
  <2>1. Waiting' = {}
    BY <1>2 DEF Waiting
  <2> QED
    BY <2>1 DEF WakeUps
<1> QED
  BY <1>3, <1>4, <1>5, <1>6, <1>7, <1>8 DEF IInv

\* When finish() has joined its threads, no thread is left anywhere in the loop.
LEMMA Joined ==
    ASSUME IInv, Live = {}
    PROVE  \A w \in Workers : worker[w] \in {"none", "exited"} /\ f[w] = None
BY DEF IInv, TypeOK, Holders, Live

\* Join preserves the invariant.
LEMMA JoinStep ==
    ASSUME IInv, Join
    PROVE  IInv'
<1>1. /\ owner = "joining" /\ Live = {} /\ finished' = {} /\ drain' = {}
      /\ UNCHANGED <<worker, f, notify, dying>>
      /\ \/ dying /\ owner' = "destroyed" /\ ClearWork
         \/ ~dying /\ owner' = "idle" /\ UNCHANGED <<work, future>>
  BY DEF Join
<1>2. ~Finishing' /\ Finishing
  BY <1>1 DEF Finishing
<1>3. \A w \in Workers : worker[w] \in {"none", "exited"} /\ f[w] = None
  BY <1>1, Joined
<1>4. /\ TaskLedger'
      /\ work' = work \/ work' = <<>>
      /\ work' \in Seq(Messages)
      /\ future' \in [Tasks -> {"none", "pending", "ready", "broken"}]
  <2>1. CASE UNCHANGED <<work, future>>
    <3>1. Queued' = Queued /\ Running' = Running /\ Pending' = Pending
      BY <1>1, <2>1 DEF Queued, Running, Pending
    <3>2. TaskLedger'
      BY <1>1, <2>1, <3>1 DEF IInv, TaskLedger
    <3> QED
      BY <2>1, <3>2 DEF IInv, TypeOK, Messages
  <2>2. CASE ClearWork
    <3>1. future' \in [Tasks -> {"none", "pending", "ready", "broken"}]
      BY <2>2 DEF IInv, TypeOK, ClearWork, Break
    <3>2. work' = <<>> /\ work' \in Seq(Messages)
      BY <2>2, EmptySeq DEF ClearWork
    <3>3. Queued' = {} /\ Running' = {} /\ Running = {}
      BY <1>1, <1>3, <3>2, ThreadPoolAssumption DEF Queued, Running
    <3>4. Pending' = Pending \ Queued
      BY <2>2 DEF IInv, TypeOK, ClearWork, Break, Pending, Queued
    <3> QED
      BY <1>1, <3>1, <3>2, <3>3, <3>4 DEF IInv, TaskLedger
  <2> QED
    BY <1>1, <2>1, <2>2
<1>5. TypeOK'
  BY <1>1, <1>4 DEF IInv, TypeOK, Messages
<1>6. Holders' /\ Closed' /\ DrainBound'
  BY <1>1, <1>2, <1>3, <1>4 DEF IInv, Holders, Closed, DrainBound, Finishing
<1>7. StopBalance'
  <2>1. Cardinality(Live) = 0
    BY <1>1, FS_EmptySet
  <2>2. Cardinality(Stops(work)) = 0 /\ Cardinality(Stopping) = 0
    BY <1>2, <2>1, Counts DEF IInv, StopBalance
  <2>3. Stops(work) = {} /\ Stopping = {}
    BY <2>2, Counts, FS_EmptySet
  <2>4. Stops(work)' = {} /\ Stopping' = {}
    BY <1>1, <1>4, <2>3 DEF Stops, Stopping
  <2>5. Cardinality(Stops(work)') = 0 /\ Cardinality(Stopping') = 0
    BY <2>4, FS_EmptySet
  <2> QED
    BY <1>2, <2>5 DEF StopBalance
<1>8. DrainBeforeStop'
  BY <1>1 DEF DrainBeforeStop
<1>9. WakeUps'
  <2>1. Waiting' = {}
    BY <1>1, <1>3 DEF Waiting
  <2> QED
    BY <2>1 DEF WakeUps
<1> QED
  BY <1>4, <1>5, <1>6, <1>7, <1>8, <1>9 DEF IInv

\* Every step preserves the invariant: one lemma for each action.
LEMMA NextIInv == IInv /\ [Next]_vars => IInv'
<1> SUFFICES ASSUME IInv, [Next]_vars PROVE IInv'
  OBVIOUS
<1>1. ASSUME NEW c \in Clients \union Workers, NotifyOne(c) PROVE IInv'
  BY <1>1, NotifyOneStep
<1>2. ASSUME NEW c \in Clients \union Workers, NEW t \in Tasks, Queue(c, t) PROVE IInv'
  BY <1>2, QueueStep
<1>3. ASSUME NEW w \in Workers, WorkerStep(w) PROVE IInv'
  BY <1>3, PopStep, RunStep, ExitStep DEF WorkerStep
<1>4. ASSUME NEW w \in Workers, Wait(w) PROVE IInv'
  BY <1>4, WaitStep
<1>5. ASSUME NEW w \in Workers, SpuriousWakeup(w) PROVE IInv'
  BY <1>5, SpuriousWakeupStep
<1>6. ASSUME NEW w \in Workers, Start(w) PROVE IInv'
  BY <1>6, StartStep
<1>7. CASE CancelPending \/ Abort
  BY <1>7, ClearStep
<1>8. CASE Finish
  BY <1>8, PushStopsStep DEF Finish, IInv, TypeOK
<1>9. CASE Destroy
  BY <1>9, PushStopsStep DEF Destroy
<1>10. CASE NotifyAll
  BY <1>10, NotifyAllStep
<1>11. CASE Join
  BY <1>11, JoinStep
<1>12. CASE UNCHANGED vars
  BY <1>12 DEF vars, IInv, TypeOK, Holders, Closed, TaskLedger, StopBalance, DrainBound,
       DrainBeforeStop, WakeUps, Finishing, Pending, Queued, Running, Stops, Stopping,
       Live, Waiting
<1> QED
  BY <1>1, <1>2, <1>3, <1>4, <1>5, <1>6, <1>7, <1>8, <1>9, <1>10, <1>11, <1>12
     DEF Next, Destroyed

\* The inductive invariant holds in every reachable state.
THEOREM Invariance == Spec => []IInv
BY InitIInv, NextIInv, PTL DEF Spec

-----------------------------------------------------------------------------
(* The safety properties. *)

\* Every variable of the pool keeps its type.
THEOREM TypeCorrect == Spec => []TypeOK
<1>1. IInv => TypeOK
  BY DEF IInv
<1> QED
  BY <1>1, Invariance, PTL

\* No task is lost and none is run twice, however queue(), the threads, abort()
\* and cancel_pending() interleave.
THEOREM TasksAreNeitherLostNorRepeated == Spec => []TaskLedger
<1>1. IInv => TaskLedger
  BY DEF IInv
<1> QED
  BY <1>1, Invariance, PTL

\* finish() has a stop message for every thread that still runs, as long as no
\* call of cancel_pending() removes one while it waits.
THEOREM EveryThreadIsStopped ==
    ASSUME ~ForeignCancel
    PROVE  Spec => []StopForEveryThread
<1>1. IInv => StopForEveryThread
  BY DEF IInv, StopBalance, StopForEveryThread, Finishing
<1> QED
  BY <1>1, Invariance, PTL

\* Threads never all sleep over a deque that nobody will tell them about, even if
\* cancel_pending() is called at any time.
THEOREM WakeUpsAreNotLost == Spec => []NoLostWakeup
<1>1. IInv => NoLostWakeup
  <2> SUFFICES ASSUME IInv, work # <<>>, NEW w \in Live, Live \subseteq Waiting
               PROVE  notify # {} \/ owner = "notifying"
    BY DEF NoLostWakeup
  <2>1. Waiting # {}
    OBVIOUS
  <2>2. ASSUME NEW v \in Workers, worker[v] = "ready" \/ f[v] \in Tasks
        PROVE  FALSE
    <3>1. worker[v] \in {"ready", "holding"}
      BY <2>2, ThreadPoolAssumption DEF IInv, Holders
    <3>2. v \in Live
      BY <3>1 DEF IInv, Holders, Live
    <3> QED
      BY <3>1, <3>2 DEF Waiting
  <2> QED
    BY <2>1, <2>2 DEF IInv, WakeUps
<1> QED
  BY <1>1, Invariance, PTL

\* finish() lets no thread go before everything it promised to drain was begun.
THEOREM QueueIsDrainedBeforeTheStop == Spec => []DrainBeforeStop
<1>1. IInv => DrainBeforeStop
  BY DEF IInv
<1> QED
  BY <1>1, Invariance, PTL

-----------------------------------------------------------------------------
(* The implementation of TaskService. *)

\* A pool just constructed maps to a service that is open and was given nothing.
LEMMA InitService == Init => Service!Init
BY ThreadPoolAssumption DEF Init, Service!Init, Running

Phase == CASE owner \in {"notifying", "joining"} -> "finishing"
           [] owner = "destroyed" -> "closed"
           [] OTHER -> "open"

\* The phase of the service, as the code of finish() stands for it.
LEMMA PhaseValue ==
    /\ Phase = "finishing" <=> Finishing
    /\ Phase = "closed" <=> owner = "destroyed"
    /\ Phase = "open" <=> ~Finishing /\ owner # "destroyed"
BY DEF Phase, Finishing

\* Clearing the deque cancels what is pending and not running.
LEMMA ClearCancels ==
    ASSUME IInv, ClearWork
    PROVE  future' = Service!Break(Service!Pending \ Running)
<1>1. Service!Pending \ Running = Queued
  BY DEF IInv, TaskLedger, Pending, Service!Pending
<1> QED
  BY <1>1 DEF ClearWork, Break, Service!Break

\* Every step of the pool is a step of the service or none.
LEMMA ServiceStep == IInv /\ IInv' /\ [Next]_vars => [Service!Next]_Service!svars
<1> SUFFICES ASSUME IInv, IInv', [Next]_vars PROVE [Service!Next]_Service!svars
  OBVIOUS
<1> USE DEF Service!svars
<1>1. ASSUME NEW c \in Clients \union Workers, NotifyOne(c)
      PROVE  UNCHANGED Service!svars
  BY <1>1 DEF NotifyOne, Running
<1>2. ASSUME NEW c \in Clients \union Workers, NEW t \in Tasks, Queue(c, t)
      PROVE  Service!Submit(t)
  <2>1. owner # "destroyed"
    BY <1>2, ThreadPoolAssumption DEF Queue, MayQueue, IInv, Closed, Holders, TypeOK
  <2> QED
    BY <1>2, <2>1 DEF Queue, Running, Service!Submit
<1>3. ASSUME NEW w \in Workers, Pop(w)
      PROVE  UNCHANGED Service!svars \/ \E t \in Tasks : Service!Begin(t)
  <2>1. /\ work \in Seq(Messages) /\ work # <<>>
        /\ Head(work) = work[1] /\ Head(work) \in Messages
        /\ DOMAIN work = 1..Len(work) /\ 1 \in DOMAIN work
    BY <1>3, HeadTailProperties, EmptySeq, LenProperties DEF IInv, TypeOK, Pop, Messages
  <2>2. Running' = Running \union ({Head(work)} \intersect Tasks)
    BY <1>3, ThreadPoolAssumption DEF Pop, IInv, TypeOK, Holders, Running
  <2>3. CASE Head(work) = Stop
    <3>1. Running' = Running
      BY <2>2, <2>3, ThreadPoolAssumption
    <3> QED
      BY <1>3, <3>1 DEF Pop
  <2>4. CASE Head(work) \in Tasks
    <3>1. Head(work) \in Queued
      BY <2>1, <2>4 DEF Queued
    <3>2. Head(work) \in Service!Pending \ Running
      BY <3>1 DEF IInv, TaskLedger, Pending, Service!Pending
    <3>3. finished # {}
      BY <1>3 DEF Pop, IInv, Holders
    <3> QED
      BY <1>3, <2>2, <2>4, <3>2, <3>3 DEF Pop, Service!Begin
  <2> QED
    BY <2>1, <2>3, <2>4 DEF Messages
<1>4. ASSUME NEW w \in Workers, Run(w)
      PROVE  \E t \in Tasks : Service!Complete(t)
  <2>1. f[w] \in Tasks /\ f[w] \in Running
    BY <1>4 DEF Run, Running
  <2>2. Running' = Running \ {f[w]}
    BY <1>4, ThreadPoolAssumption DEF Run, IInv, TypeOK, TaskLedger, Running
  <2> QED
    BY <1>4, <2>1, <2>2 DEF Run, Service!Complete
<1>5. ASSUME NEW w \in Workers, Exit(w)
      PROVE  UNCHANGED Service!svars
  <2>1. Running' = Running
    BY <1>5, ThreadPoolAssumption DEF Exit, IInv, TypeOK, Running
  <2> QED
    BY <1>5, <2>1 DEF Exit
<1>6. ASSUME NEW w \in Workers, Wait(w) \/ SpuriousWakeup(w)
      PROVE  UNCHANGED Service!svars
  BY <1>6 DEF Wait, SpuriousWakeup, Running
<1>7. ASSUME NEW w \in Workers, Start(w)
      PROVE  Service!Staff
  BY <1>7 DEF Start, Running, Service!Staff
<1>8. CASE CancelPending \/ Abort
  <2>1. /\ ClearWork /\ UNCHANGED <<f, finished, drain>>
        /\ owner # "destroyed"
        /\ (owner' = owner) \/ (owner = "idle" /\ owner' = "aborting")
    <3>1. CASE CancelPending
      BY <3>1 DEF CancelPending
    <3>2. CASE Abort
      BY <3>2 DEF Abort
    <3> QED
      BY <1>8, <3>1, <3>2
  <2>2. Phase' = Phase /\ Phase # "closed"
    BY <2>1 DEF Phase
  <2> QED
    BY <2>1, <2>2, ClearCancels DEF Phase, Running, Service!Next, Service!Cancel
<1>9. CASE Finish \/ Destroy
  <2>1. owner \in {"idle", "aborting"} /\ PushStops
    BY <1>9 DEF Finish, Destroy
  <2> QED
    BY <2>1 DEF PushStops, Running, Pending, Service!Pending,
       Service!Next, Service!FinishCall
<1>10. CASE NotifyAll
  BY <1>10 DEF NotifyAll, Running
<1>11. CASE Join
  <2>1. /\ owner = "joining" /\ finished' = {} /\ drain' = {} /\ UNCHANGED f
        /\ \/ owner' = "destroyed" /\ ClearWork
           \/ owner' = "idle" /\ UNCHANGED future
    BY <1>11 DEF Join
  <2>2. Running = {} /\ Running' = {}
    BY <1>11, <2>1, Joined, ThreadPoolAssumption DEF Join, Running
  <2>3. drain \intersect Service!Pending = {}
    <3>1. Service!Pending = Queued
      BY <2>2 DEF IInv, TaskLedger, Pending, Service!Pending
    <3>2. CASE finished = {}
      BY <3>2 DEF IInv, DrainBound
    <3>3. ASSUME NEW w \in finished PROVE drain \intersect Queued = {}
      <4>1. worker[w] = "exited"
        BY <1>11 DEF Join, Live
      <4> QED
        BY <4>1 DEF IInv, DrainBeforeStop
    <3> QED
      BY <3>1, <3>2, <3>3
  <2>4. ClearWork => future' = Service!Break(Service!Pending)
    BY <2>2, ClearCancels
  <2> QED
    BY <2>1, <2>2, <2>3, <2>4 DEF Service!Next, Service!FinishReturn
<1>12. CASE UNCHANGED vars
  BY <1>12 DEF vars, Running
<1> QED
  BY <1>1, <1>2, <1>3, <1>4, <1>5, <1>6, <1>7, <1>8, <1>9, <1>10, <1>11, <1>12
     DEF Next, WorkerStep, Destroyed, Service!Next

\* The pool implements TaskService: to its callers it is a set of futures, of which
\* some are running, that finish() and the destructor settle.
THEOREM PoolImplementsService == Spec => ServiceSpec
<1>1. Spec => []IInv /\ [][Next]_vars /\ Init
  BY Invariance, PTL DEF Spec
<1> QED
  BY <1>1, InitService, ServiceStep, PTL DEF ServiceSpec, Service!Spec

-----------------------------------------------------------------------------
(* What the invariant says beyond the properties of the runs. *)

\* While finish() joins, no thread sleeps: each that is left can take a message from the
\* deque, run the task it took, or return.
EveryThreadGoesOn ==
    owner = "joining" =>
        \A w \in Live : \/ worker[w] = "ready" /\ work # <<>>
                        \/ worker[w] = "holding" /\ f[w] \in Tasks \union {Stop}

\* The half of the return of finish() that needs no fairness: it waits for no thread
\* that waits, so that it is enough that threads go on and tasks return.
THEOREM FinishWaitsForNoSleeper ==
    ASSUME ~ForeignCancel
    PROVE  Spec => []EveryThreadGoesOn
<1>1. ASSUME IInv, owner = "joining", NEW w \in Live, f[w] # Stop PROVE Stops(work) # {}
  <2>1. IsFiniteSet(Live) /\ Stopping \subseteq Live
    <3>1. Live \subseteq Workers
      BY <1>1 DEF IInv, TypeOK, Live
    <3>2. \A v \in Stopping : v \in Workers /\ f[v] # None
      BY ThreadPoolAssumption DEF Stopping
    <3>3. Stopping \subseteq Live
      BY <1>1, <3>2 DEF IInv, Holders, Live
    <3> QED
      BY <3>1, <3>3, FS_Subset, ThreadPoolAssumption
  <2>2. Cardinality(Stops(work)) + Cardinality(Stopping) = Cardinality(Live)
    BY <1>1 DEF IInv, StopBalance, Finishing
  <2>3. w \in Live \ Stopping
    BY <1>1 DEF Stopping
  <2>4. /\ Cardinality(Stopping) <= Cardinality(Live)
        /\ Cardinality(Stopping) # Cardinality(Live)
    BY <2>1, <2>3, FS_Subset
  <2>5. Cardinality(Live) \in Nat /\ Cardinality(Stopping) \in Nat
    BY <2>1, FS_Subset, FS_CardinalityType
  <2>6. Cardinality(Stops(work)) # 0
    BY <2>2, <2>4, <2>5
  <2> QED
    BY <2>6, FS_EmptySet
<1>2. IInv => EveryThreadGoesOn
  <2> SUFFICES ASSUME IInv, owner = "joining", NEW w \in Live
               PROVE  \/ worker[w] = "ready" /\ work # <<>>
                      \/ worker[w] = "holding" /\ f[w] \in Tasks \union {Stop}
    BY DEF EveryThreadGoesOn
  <2>1. /\ w \in Workers /\ worker[w] # "exited" /\ f[w] \in Tasks \union {Stop, None}
        /\ worker[w] \in {"none", "ready", "waiting", "holding", "exited"}
        /\ worker[w] # "none" /\ (f[w] # None <=> worker[w] = "holding")
    BY DEF IInv, TypeOK, Holders, Live
  <2>2. CASE worker[w] = "holding"
    BY <2>1, <2>2
  <2>3. CASE worker[w] \in {"ready", "waiting"}
    <3>1. f[w] # Stop
      BY <2>1, <2>3, ThreadPoolAssumption
    <3>2. Stops(work) # {}
      BY <1>1, <3>1
    <3>3. work # <<>>
      BY <3>2 DEF Stops
    <3>4. Waiting = {}
      BY <3>2 DEF IInv, WakeUps
    <3> QED
      BY <2>1, <2>3, <3>3, <3>4 DEF Waiting
  <2> QED
    BY <2>1, <2>2, <2>3
<1> QED
  BY <1>2, Invariance, PTL

\* What queue() gave out is settled once: a future leaves the pending state once and for
\* good, and only a task that no thread has begun is broken.
SettledOnce ==
    [][\A t \in Tasks :
          /\ future[t] \in {"ready", "broken"} => future'[t] = future[t]
          /\ future[t] = "pending" /\ t \in Running => future'[t] # "broken"]_vars

\* packaged_task would throw if it was called twice, or a promise if it was set again:
\* neither happens, however the threads, abort() and cancel_pending() interleave.
THEOREM FuturesAreSettledOnce == Spec => SettledOnce
<1> DEFINE Once == \A t \in Tasks :
          /\ future[t] \in {"ready", "broken"} => future'[t] = future[t]
          /\ future[t] = "pending" /\ t \in Running => future'[t] # "broken"
<1>1. IInv /\ [Next]_vars => [Once]_vars
  <2> SUFFICES ASSUME IInv, Next PROVE Once
    OBVIOUS
  <2>1. /\ future \in [Tasks -> {"none", "pending", "ready", "broken"}]
        /\ Pending = Queued \union Running /\ Queued \intersect Running = {}
    BY DEF IInv, TypeOK, TaskLedger
  <2>2. ASSUME UNCHANGED future PROVE Once
    BY <2>2
  <2>3. ASSUME ClearWork PROVE Once
    BY <2>1, <2>3 DEF ClearWork, Break, Pending
  <2>4. ASSUME NEW c \in Clients \union Workers, NEW t \in Tasks, Queue(c, t) PROVE Once
    BY <2>1, <2>4 DEF Queue
  <2>5. ASSUME NEW w \in Workers, Run(w) PROVE Once
    <3>1. f[w] \in Tasks /\ f[w] \in Running
      BY <2>5 DEF Run, Running
    <3> QED
      BY <2>1, <2>5, <3>1 DEF Run, Pending
  <2> QED
    BY <2>2, <2>3, <2>4, <2>5
       DEF Next, WorkerStep, NotifyOne, Pop, Exit, Wait, SpuriousWakeup, Start,
           CancelPending, Abort, Finish, Destroy, PushStops, NotifyAll, Join, Destroyed, vars
<1> QED
  BY <1>1, Invariance, PTL DEF Spec, SettledOnce
=============================================================================
