# Verification of daily_test

TLA+ models of the concurrent and the stateful parts of this repository, the TLC
configurations that check them, and TLAPS proofs about them. The reference is the source
under `src/`; every definition that models code is listed with its lines in
`PROJECT.json` (`map`).

```
cd tla
tlc -workers 2 -config MCThreadPool.cfg MCThreadPool.tla     # a run: <cfg> <module>
tlapm ThreadPoolProof.tla                                    # the proofs of a module
```

## 1. Inventory

The repository is a collection of small programs that `main.cpp` calls one after the other,
most of them commented out at any time. The parts share no state with each other, except
that `ConfigurationManage` sits on the SQLite binding; each of them is a system of its own.

| component | state | operations | who interacts with it |
|---|---|---|---|
| **thread pool** `struct tasks`, `3d/include/thread_pool.h` | the deque `work`, mutex `m`, condition variable `v`, futures `finished` of its threads | `queue`, `start`, `abort`, `cancel_pending`, `finish`, `~tasks`; the loop `thread_task` | an owner, other threads that queue, and tasks that queue from inside the pool |
| **timer** `class Timer`, `3d/{include/timer.h,src/timer.cpp}` | mode, running flag, next expiry point, period, max count; `exit_requested_` (atomic); a static count shared by all timers | `start_once`, `start_periodic_immediate`, `start_count_periodic_immediate`, `start_periodic_delayed`, `stop`, `~Timer`; the loop `run` | any thread, and the handler on the timer's own thread |
| **configuration store** `ConfigurationManage`, `tests/configurationmanage.{h,cpp}` | a SQLite file with some fifteen tables; `error_code_` | activation flow; seed; strategy and platform sync; accounts and preferences; parameter version; checks and conditions | one caller thread; the file survives the process |
| **condition variable** `mega::condition_variable`, `advance/` | a `pthread_cond_t` | `wait`, `wait_until`, `wait_for`, `notify_one`, `notify_all` | waiting and notifying threads; two clocks, of which one can be set |
| **dining philosophers**, `tests/philosopher_feast_think.h` | four `atomic_flag` (or four mutexes in the second variant) | `feast_think`, `feast_think1` | four threads |
| **TestHandler**, `main.cpp` 22-78 | a queue, a mutex, a condition variable, an atomic exit flag | `produce`, `consume`, `start` | two threads |
| **producer and consumer**, `tests/produce_consume.h` | a bare condition variable and a count | `consume`, `test_produce_consume` | two threads |
| **test_wait_for**, `grammar/` | a bare condition variable, a future | `handle_test`, `test_wait_for` | two threads and two timeouts |
| **UDS codec** `activate/uds.h`, **SOA comparison** `activate/soa.h` | none: pure functions on bytes and JSON trees | bit insertion and extraction, conversion, comparison | called with literals |
| demos, vendored headers | none, or not this project's | | |

What is hard in them, and what makes each correct:

- *Thread pool.* Every operation interleaves with every thread; `queue` and `finish` notify
  after they unlock; stop messages share the deque with tasks; the destructor races tasks
  that queue more. Correct means: a task runs exactly once or its future breaks; `finish`
  stops exactly its threads, after everything queued before it, and returns; no thread sleeps
  over work.
- *Timer.* The handler runs with the mutex unlocked, so every field may change under it; the
  exit flag is set outside the mutex; a sleeping thread has read an expiry point that moves.
  Correct means: a running timer that expired calls its handler, never more often than asked;
  the destructor returns and no call of the handler begins after it stopped the timer.
- *Activation flow.* There is no transaction: a call is a sequence of statements that each
  commit, and may end after any of them. Correct means: rows stay unique, links resolve,
  counts and states agree, and an interrupted call can be repeated.
- *Condition variable.* The deadline is one of the steady clock, converted for each wait to
  one of a clock that can be set while the thread sleeps. Correct means: no early timeout, a
  bounded oversleep, a return.
- *Philosophers.* Two locks taken one after the other; only the order of the arguments of the
  fourth thread keeps them from waiting in a circle.
- *TestHandler.* The exit flag is set and notified without the mutex, so that this
  notification can be lost; the timeout of ten seconds repairs that.
- *Producer and consumer, test_wait_for.* They wait without a predicate: a notification that
  comes too early is lost, and one nobody sent counts. The first has a wait too many and no
  timeout, the second a timeout.
- *Other tables of the store.* Each operation is one statement, so that nothing is left half
  done, but the sequence of calls matters: names that change, lists that are delivered again,
  results ordered by a time in seconds, a restart that resets the seed. Correct means: what was
  stored is what is read back, and check lists are worked off.
- *UDS codec.* Fields cross bytes, the value is shifted away while it is written, the size of
  the record is compared with an index. Correct means: the marked bits and no others change.

`PROJECT.json` lists the hazards at the lines where they bite, each with the properties that
would catch it or a note why none does yet.

## 2. Modules

| module | what it is |
|---|---|
| `TaskService` | what a thread pool promises: futures, running tasks, the calls that manage it; no threads, no queue |
| `ThreadPool` | `struct tasks`; implements `TaskService` |
| `ThreadPoolProof` | its proofs |
| `Timer`, `TimerProof` | `class Timer` |
| `Activation`, `ActivationProof` | `update_activations_info`, `save_activations_result`, `set_func_info` |
| `ConfigStore`, `ConfigStoreProof` | seed, accounts, preferences and check lists of `ConfigurationManage`, with restarts |
| `Feast` | what a dinner promises: whoever eats has its sticks to itself |
| `Philosophers`, `PhilosophersProof` | `feast_think` and `feast_think1`; implements `Feast` |
| `CondVar`, `CondVarProof` | `wait_for` with a predicate, on two clocks |
| `TestHandler`, `TestHandlerProof` | `class TestHandler` |
| `ProduceConsume` | `produce_consume.h` |
| `WaitFor` | `test_wait_for.h` |
| `Uds` | `fill_did_data_bits` and the two functions it calls |
| `MCSamples`, `SamplesProof` | the four small programs above, of which one runs at a time; the proofs of all but `TestHandler` |
| `MC...` | an instance for TLC: constants that a `.cfg` cannot write; `MCConfigStore` also has each behaviour use one group of tables, since the groups share nothing |

Operators whose comment begins with "Mutant:" are plausible mistakes in the definition that
follows them. No specification uses them; `PROJECT.json` names for each property the one that
violates it.

### How state and actions correspond to the code

**ThreadPool.** A critical section of `m` is one action, because `work` is touched nowhere
else. `queue` is `Queue` (the section) then `NotifyOne`; `thread_task` is `Wait`,
`SpuriousWakeup`, `Pop` (the section), and `Run` or `Exit`; `start` is `Start`, once per thread;
`finish` is `PushStops` (one stop message per future, in one section), `NotifyAll` and `Join`
(`finished.clear()` blocks in the destructors of the `std::async` futures); `abort` is
`CancelPending` followed by the same; `~tasks` is `finish` and the end of the object. `future`
is what the future returned by `queue` would report, which makes "lost" and "twice" statements
about what a caller sees. `drain` is history: what was pending when `finish` pushed its messages.
The caller is assumed to do what the type needs: one owner manages the pool, nobody but tasks
calls `queue` once the destructor runs, and tasks return. Whether another thread may call
`cancel_pending` while `finish` blocks is the constant `ForeignCancel`.

**Timer.** A call of the interface holds the mutex throughout and is one action. `run` is cut
where others can come in: `Lock`, `TestExit`, `Block`, `Timeout`, `SpuriousWakeup`, `Wake` (which
ends in the unlock before the handler), `Rearm` (the lock after it), and `StoreCount`/`Compare`
for the static counter, which two timers read and write under different mutexes. `TestExit`
apart from `Block` is the window of the unguarded exit flag. The destructor is `RequestExit`,
`StopInDestructor`, `LiftThread`, `Join`. Time is relative to now, and `Tick` passes a unit.

**Activation.** A call puts its statements in `todo`; each statement is an action that commits;
`Interrupt` drops the rest, as an exception or the death of the process does. The plan of an
activation (groups of functions, with keys) is a constant. `Results` are the `manyGroups` that the
car may report for any activation: groups of their own, with a state and an action for each
function and with keys that are "ok" or not. Nothing obliges a result to follow the plan, and the
code does not compare them: `Recorded` walks the plan, `Updated` the result. `Visited` is what both
loops take from their groups, `funcs[i]` for every `j`. Plans and results have the structure that
the code expects; a malformed one ends the call by an exception, which is `Interrupt`, or has no
functions. A statement that reads past the end of a vector is
`Undefined`: nothing is said about what comes after it. Rows are sequences or sets with only
the columns that the properties tell apart; expiry dates and JSON texts are left out.

`SetFuncInfo` is `set_func_info`, called between the other calls.

**ConfigStore.** `account` is the table in the order of its ids, which is the order an unordered
`SELECT` finds the rows in; a loop that overwrites its variable keeps the last. `preference` and
`checks` have a unique index on the column that they are functions of. `person`, `issued`, `last`
and `calls` are history: what the callers were told or told the store, against which the
properties hold what the queries return. A caller adds a person under the tinyID the store knows
and never gives two persons one name; nothing in the code checks that. `Restart` loses what the
process had in memory and resets the seed. `GetCheckList` returns any of the newest lists, as SQLite may for
equal times. Both updates of `reported` and `response` change no table, as their bodies do.

**Philosophers.** `locking` says which of the two programs runs. `flag` is the `test_and_set`
state of each chopstick, or whether its mutex is locked. `std::lock` is modelled from libstdc++
before GCC 11 (lock the first, try the second, back off), as `TakeA`, `TakeB` and `BackOff`. A
`test_and_set` that finds the flag set changes nothing, so that spinning is not an action. The flags are declared without
`ATOMIC_FLAG_INIT`, which before C++20 leaves them in any state, and the project compiles as
C++14: `Init` has them all. `Owned` says that no flag is set that nobody set; it holds for ever
if it holds at first (`FeastNeverStops`), and the properties about progress assume it.

**CondVar.** `left` is the time to the caller's deadline on the steady clock, `sysleft` the time
to its conversion on the system clock. `EnterWait` and `Convert` read the two clocks one after
the other and a `Tick` can fall between. The thread holds the mutex except while it is blocked
and until it has it again; others change the predicate only then.

**TestHandler.** `Lock`, `Test`, `Block`, `Timeout`, `Relock`, `Consume`, `TimedOut` are `consume`;
`Push`, `Notify`, `Unlock` are the loop of `produce`, `RequestExit` and `NotifyExit` its end.
The timeout may come at any moment, which covers ten seconds of any machine.

**ProduceConsume.** `Wait` takes the mutex and gives it up in one step, since nothing happens
between; `Relock` ends a wait and counts it. `Notify` locks and notifies, `Unlock` follows a tenth
of a second later. `accidents` counts the wake-ups nobody sent.

**WaitFor.** `WakeUp` is the timeout or a spurious wake-up, which the program does not tell apart
but in what it prints. Either thread may be late, so that ten and five seconds order nothing.

**Uds.** A byte and a value are functions from bit numbers to bits; `& 1`, `>> 1` and the two
masks are what they do to them. Each turn of the two loops is an action. A byte behind the record
may hold anything, and the model ends there (`BeyondRecord`).

## 3. Runs

| run | question and answer | states |
|---|---|---|
| `thread_pool` | Two workers, a client, three tasks: is a task ever lost, run twice, left behind a sleeping thread; does `finish` stop exactly its threads and return; does the pool implement `TaskService`? All hold. | 42,529 |
| `thread_pool_foreign_cancel` | The same if `cancel_pending` may come during `finish`: it clears the stop messages too, and `StopForEveryThread` fails. | violation |
| `timer` | One timer, called at any moment by anybody and its own handler, with spurious and late wake-ups. All hold. | 44,550 |
| `timer_rearm` | Does a one-shot timer stop itself only after it fired? A `start_once` during the handler is undone. | violation |
| `timer_shared_count` | Do two count timers fire no more than `max_count_` times? They share one static count, and one with a `max_count_` of 1 fires twice. | violation |
| `activation` | Three activations that share functions and keys, in any order, each with any of three results, with interruptions after any statement. All hold. | 1,174,751 |
| `activation_funcs` | Is every function of a saved activation recorded? Not if a group has more than one. | violation |
| `philosophers` | Four philosophers, flags in any state at first: no shared chopstick, no circle, and the feast goes on; the same with mutexes and `std::lock`. | 1,484 |
| `condvar` | One wait at a time, with clocks set forward and back, wake-ups for nothing and predicates that come and go. | 18,563 |
| `samples` | Four small programs: nothing is popped from an empty queue, and lost notifications are survived where there is a timeout; `test_produce_consume` returns by accident only; the bit codec writes what it is told and reads at most one byte too far. | 56,977 |
| `config_store` | Numbers, accounts and check lists with restarts: no number comes twice in a round, preferences are found under every name, the last result is the one returned, every list is answered. | 53,655 |
| `config_store_reported` | Is a list that was answered, reported and acknowledged off the lists to fix? It never is. | violation |

Bounds, and why they are enough:

- `thread_pool`: two workers are the fewest that can compete for a task, for a notification and
  for a stop message; three tasks let one run, one wait and one come late, from the client or
  from another task. Nothing else is bounded. The proofs lift the sizes.
- `timer`: durations up to 2 tell "now", "soon" and "later" apart; counts up to 3 pass below, at
  and above a `max_count_` of 1 or 2, and 0 is included; `MaxLag` = 2 lets a thread be late by a
  whole period. The state of two timers only meets in the static count, so that one timer is
  enough except in `timer_shared_count`.
- `activation`: the plans share functions and keys: a key of two functions of one activation, a
  function of two activations; a group with two functions, and a group shorter than its number.
  The first two plans can be recorded to their end, so that both are counted; the third cannot. Of
  the results one follows the second plan, one is shorter than its groups and has a key that
  failed, and one deactivates a function with a key that no plan gives it. `MaxRef` = 1 stops saving when a key is counted more than once, which leaves
  counts up to a few.
- `condvar`: `MaxBack` = `MaxDuration` lets a setting double a wait, `MaxAhead` skips over most of
  one, `MaxGap` = 1 separates the two readings.
- `philosophers` has the size of the program, and so have three of the `samples`. The codec runs
  on the seven bytes of the code, with values of four bits instead of 32, so that fields are
  narrower and wider than the value, and 15 marks: inside a byte, at its ends, across two and
  three bytes, in the last byte, one behind it and far off.
- `config_store`: 10 numbers instead of 1000 (the modulus); two persons with three names of each
  kind, so that one can be renamed to a name given up by the other; three lists, delivered four
  times within four seconds, so that one comes again and several share a second.

Deadlock is checked except in `philosophers` (a flag that starts set may block everybody) and
`samples` (a sample ends, or its consumer waits for ever).

### Fairness

- `ThreadPool`: each thread goes on when it can, tasks return, and a caller that has unlocked
  notifies and joins. Nothing obliges anybody to call `queue`, `start` or `finish`, and no
  liveness rests on spurious wake-ups.
- `Timer`: the thread runs on, the handler returns, a destructor that was called goes on. The
  clock is not fair: expiry is only promised for timers that did expire.
- `Philosophers`: weak fairness per thread. A spin lock is not fair, and one philosopher may
  starve while its neighbours eat; the property says that somebody eats again and again.
- `CondVar`: the thread runs on, and time passes (strong fairness of `Tick`, which is disabled
  for a moment by the bound on the gap only). Spurious wake-ups, notifications and settings of
  the clock may come without end and need not come.
- `TestHandler`: weak fairness of the consumer, whose wait ends in ten seconds at the latest, and
  strong fairness of the producer: it asks for a mutex that the consumer lets go again and again.
- `WaitFor`: weak fairness of both threads; the wait ends in ten seconds at the latest.
- `ConfigStore`: the car asks for check lists while there are any (weak fairness of
  `GetCheckList`) and is not killed every time between the question and the result (strong
  fairness of `SaveCheckListResult`, which a restart disables). Deliveries, and with them the
  reasons to wait, are bounded: if newer lists came without end, an old one would never be asked.

## 4. Proofs

TLAPS proves for every value of the constants what TLC checks on the instances. The only
assumptions are the `ASSUME`s of the models, which TLC evaluates in the runs, and two hypotheses
that theorems state: that nobody cancels while `finish` blocks, and that there is one timer. Without
either the property is false, and a run shows it. Each proof has an inductive invariant (`IInv`,
or one for each group of variables that share nothing), which TLC has checked too, one lemma or
step per action, and takes the properties from it.

- **ThreadPoolProof** (any finite set of workers, any clients and tasks): `TypeOK`, `TaskLedger`,
  `StopForEveryThread`, `NoLostWakeup`, `DrainBeforeStop` and `ServiceSpec`, the refinement.
  `TaskLedger` needs `Holders` (a thread holds a task exactly between its two sections).
  `StopForEveryThread` is the equality part of `StopBalance`, which also holds as an inequality
  with foreign cancels: stop messages in the deque and in hands never exceed the threads left,
  counted with the cardinality theorems of the library. `NoLostWakeup` is not inductive: a
  thread that is *ready* may pop the work of a notification that hit another. `WakeUps`
  strengthens it to "a waiting thread that has work has somebody else to do it or to wake it".
  The refinement maps `Pop` of a task to `Begin`, `PushStops` to `FinishCall`, `Join` to
  `FinishReturn`, and what only concerns threads to stuttering; `Join` needs that every task
  pending at the call was settled, which is `DrainBeforeStop` with `DrainBound`.
  Two theorems go beyond the runs. `FinishWaitsForNoSleeper`: while `finish` joins, every thread
  that is left has something to take, to run or to return with; if one slept, there would be no
  stop message in the deque (`WakeUps`), and one fewer in hands than threads. So `finish`
  returns if threads go on and tasks return, which is all that `FinishReturns` takes from
  fairness. `FuturesAreSettledOnce`: no future is set twice, and no task that was begun is broken.
- **TimerProof** (any bounds): for any set of timers `TypeOK`, `SleepsToExpiry`,
  `NeverJoinsASleeper` and `NoFireOnceStopped`. The last two rest on `StaysStopped`: after `stop` in
  the destructor only a thread on its way to the test of the exit flag can find the timer running
  (its handler may have restarted it), and that test sends it out of the loop. How often a timer
  fires has invariants of its own. `OneShotCounted` says that a one-shot timer that runs has not
  fired unless it is firing now, and holds for any set of timers (`OneShotFiresOnce`).
  `FiringsAreCounted` compares the firings with the static `count`: one more while a call is not
  counted yet, no more afterwards, and below `max_count_` as long as the timer runs on. That needs
  a count that nobody else writes (`CountIsKept`), so that `FiresAtMost` is proved for one timer;
  a count left over from before a restart within the handler only makes it fire less often.
  Beyond the runs, `DestructorWaitsForFourSteps`: a thread that is joined is at most four of its
  own steps from its end, and neither its handler nor another timer sends it back, so that
  `DestructorReturns` takes no more from fairness than that threads go on.
- **PhilosophersProof** (any number of philosophers of at least two): `OneHolderEach`,
  `SomebodyCanMove`, `Owned` as an invariant if it holds at first, and `FeastSpec`. That nobody
  waits in a circle follows from the order of the arguments: of all the held chopsticks take
  the highest; its holder can go on.
- **CondVarProof** (any bounds): `TypeOK`, `OversleepIsBounded`, `NoEarlyTimeout`,
  `NeverSleepsWhenReady`. `DeltaIsRecent` carries the reading of the steady clock to the
  conversion; `DeadlineIsCapped` keeps the deadline in range.
- **TestHandlerProof** (any number of strings): `SleepsOnlyOnEmpty`, `NeverPopsEmpty`, from
  `MutualExclusion` and `ArmedOnEmpty`.
- **SamplesProof** (any number of notifications, any size of the record and of the value, any
  marks). `PartsRunAlone`: a behaviour of `MCSamples` is one of each part, since a step of one
  leaves the others alone; the parts are then proved from their own steps. `EndsByAccidentOnly`
  follows from `WaitsAreWakeUps`: the waits that are over or about to be never exceed the
  notifications and the accidents. For the codec, `LoopsOK` says what is left of the value at each
  turn of the two loops, `FilledSoFar` that the bits below `index` are written and the others as
  before; each bit has one byte and one place in it (`PositionsAreBits`, by division by eight),
  so that writing one changes no other (`OneBitIsWritten`). Behind the last bit this is
  `FillsTheMarkedBits`. `OneByteBeyondAtMost` follows from the check of the marks, which the
  loops keep.
- **ConfigStoreProof** (any persons, names, data, modulus, lists, deliveries and restarts) has an
  invariant for each group of tables. `SeedsOK`: the numbers issued are those before `seed`, going
  back from it and around, one by one; as no more are kept than there are, they differ.
  `AccountsOK`: every row is that of a person and every person has a row, which says what the
  person last told the store; no two rows or persons share a name. `RowIsFound` and `NoRowIsFound`
  take from it what the queries find, `RowIsRewritten` and `RowIsAdded` keep it for all the
  operations, which differ only in the column they write. It is needed as a whole: that
  `add_account` finds the right row rests on the names of the others.
  `ResultsOK`: a result saved now is the newest only if no row is of a time to come,
  `NotFromTheFuture`, which rests on a clock that is not set back.
- **ActivationProof** (any plans, keys, functions and results): all six invariants of
  `Activation`. Those about links and results are not inductive, since a state says nothing of
  what the statements still in `todo` will do: `LinksToCome`, `ResultsToCome` and `CountsToCome` say
  of each link, result and count to come that what it needs is there or is written before it. The
  steps keep them by one lemma, `StatementIsDone`. That `Save` establishes them is a fact about the
  sequence it builds, a concatenation of concatenations: the lemmas on `FlattenSeq`
  (`FlattenUnfolds`, `FlattenIn`, `FlattenHas`) show by way of a least counterexample that it has
  what its parts have, and `RecordedIsOrdered`, `PairsGetALink` and `UpdatedAreUpdates` apply them.
  The least element is the library's `WFMin`, since induction over an operator is not available
  here. `SubmittedIsLinked` is `PairsAreLinked` in the proof, a statement about each pair of a
  function and a key that the loops over the plan come to; of the result it needs nothing but
  that it writes no links.

Only model-checked: all liveness (`FinishReturns`, `QueuedTaskSettles`, `ExpiryIsServed`,
`DestructorReturns`, `FeastGoesOn`, `WaitReturns`, `LostNotificationsAreSurvived`,
`ListIsAnswered`), which is out of this prover's reach together with `ENABLED`. Every invariant,
action property and refinement of the passing runs is proved.

## 5. Where the code disagrees with its words

Five runs end in a violation, on purpose; `PROJECT.json` quotes both sides.

1. `thread_pool.h:61`: `cancel_pending` removes stop messages as well as "non-started tasks"
   when it comes while `finish` blocks, and `finish` never returns.
2. `timer.cpp:121`: a one-shot timer that is started again while its handler runs is stopped
   "after it fires" without having fired.
3. `timer.cpp:123`: the count of calls is one static for all timers; with two of them, one whose
   `max_count_` is 1 fires a second time, because the other resets the count before it compares.
4. `configurationmanage.cpp:825` (and 119): the loops over the functions of a group take `funcs[i]`
   instead of `funcs[j]`; functions are not recorded, and a short group is read past its end.
5. `configurationmanage.cpp:454`: the bodies of `update_check_reported` and
   `update_check_response` are commented out; a check list never leaves the lists to fix.

Two more were met and are no question of states: `get_key_info` (962) selects a column `did_value`
that table `keys` does not have, and `update_conditions_value` (411) updates a row that nothing
inserts. `check_did_bits_mark` (`uds.h:49`) lets the last byte be one past the end of the record;
`OneByteBeyondAtMost` says how far that goes.

What the properties do not say, since no text of the repository does:

- A counted key need not have a link. A key row that an interrupted call left without its link is
  counted by any result that names it, and the result need not follow the plan (`SubmittedIsLinked`
  is about the keys of the plan).
- A redelivered activation may be counted again (`configurationmanage.cpp:64`); `Deliver` takes it
  out of `counted`, and `PendingIsNotCounted` is about interrupted saves.
- Numbers come again after a restart (`configurationmanage.cpp:774`); `Restart` empties `issued`, and
  `SeedsDoNotRepeat` is about one run of the program.
- A chopstick whose flag starts set is never free, and its neighbours spin for ever
  (`philosopher_feast_think.h:62`); `OneHolderEach` holds all the same, and `FeastGoesOn` is about flags
  that start clear.

## 6. Not modelled

- Results and exceptions of tasks, texts, logging, the signal mask: data the properties do not
  tell apart. `user_data_` of the timer and its four getters change nothing.
- The tables of one row in `ConfigurationManage` (strategy, platform sync, parameter version,
  conditions) and the version of an account: one statement writes, one reads, and a property
  would be that statement again. Its readers change nothing; those that a property needs are
  operators (`PreferenceOf`, `Newest`, `ToFix`).
- `convert_key_action_value` of the codec and the SOA comparison: pure functions on texts and
  JSON trees without a specification in the repository to hold them against; a reference
  definition would be their own loops again.
- The output mutex `mo` of `feast_think1`, which is held for a line of text and never together
  with a wait for a chopstick.
- `wait` without a deadline, the overload of `wait_until` for the system clock and
  `notify_all_at_thread_exit`; the rounding of durations. `gthr-default.h`, the SQLite binding, the
  JSON, span and variant headers are vendored. What `ConfigurationManage` relies on in the binding
  (a statement commits by itself, a missing row throws) is part of `Activation`.
- The demos (`std_forward.h`, `none_del_copy_ass.h`, `jsons.h`, `timer_test.h`, the singleton) keep no
  state.

## 7. Plan

Done, in this order: the thread pool with its refinement and proofs (the most concurrent part and
the only one with an owner, clients and workers); the timer, then the activation flow, with their proofs;
the philosophers, the condition variable and TestHandler with their proofs; the other tables of
the store, the producer and consumer, `test_wait_for`, the bit codec and `std::lock`.

Then the proofs of the accounts, the serial numbers, the firings of a timer and the bit codec,
after which no safety property is left to TLC alone.

Next:

1. the safety halves of the other liveness properties, as `FinishWaitsForNoSleeper` is for
   `FinishReturns` and `DestructorWaitsForFourSteps` for `DestructorReturns`: whoever waits in
   `TestHandler` has a timeout to come; an unanswered list can be asked for and answered;
2. `Uds`: that a second call with other marks keeps the bits of the first;
3. `Activation`: a redelivered result (`configurationmanage.cpp:64`), if a text of the repository
   comes to say what it should do.
