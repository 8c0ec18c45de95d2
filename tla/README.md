# TLA+ models of Verum's concurrent core

Verum is a language platform: a compiler, an interpreter and their tools in Rust
under `crates/`, and a standard library written in Verum under `core/`. This
directory holds TLA+ models of the parts of it that concurrent programs stand on
and that tests reach least, with the model-checking runs and the machine-checked
proofs about them:

- the blocking synchronisation primitives of `core/sync`, which every concurrent
  Verum program uses (the repository's audit notes say themselves that live
  concurrent tests of these files are missing, `core-tests/sync/*/audit.md`);
- the two concurrent services of the bytecode interpreter, its worker pool and
  its I/O reactor (`crates/verum_vbc/src/interpreter`);
- the operations of the Workbench, which run compiler, program and proof
  processes and keep their receipts across restarts
  (`crates/verum_workbench/src`).

## 1. The system

### Components, their state and operations

| Component (source) | State | Operations | Hard behaviour |
|---|---|---|---|
| Futex interface (`sys/linux/thread.vr`) | threads parked on an address | `futex_wait`, `futex_wake` | compare-and-park is atomic; returns may be woken, EAGAIN, EINTR, ETIMEDOUT; a wake chooses any sleeper |
| `FutexLock` (`sync/atomic.vr`) | a word: unlocked, locked, contended | `try_lock`, `lock`, `unlock` | three exchanges give the lock away; the contended mark decides who is woken |
| `Mutex` (`sync/mutex.vr`) | a `FutexLock`, data, poison flag | `lock`, `try_lock`, guard drop, `poison`, `clear_poison` | the flag must reach the next owner on every path |
| `AtomicU16` (`sync/atomic.vr`) | half of an aligned 32-bit word | `load`, `store`, `swap`, `compare_exchange`, `fetch_*` | loops exchange the whole word, the other half belongs to somebody else |
| `RwLock` (`sync/rwlock.vr`) | reader count or -1, number of queued writers | `read`, `write`, `try_*`, guard drops | two words read one after the other, one wait queue for readers and writers |
| `Semaphore` (`sync/semaphore.vr`) | permits, capacity, waiters | `acquire*`, `try_acquire*`, `release*`, `add_permits`, `forget_permit` | a releaser wakes only if it sees a waiter; amounts differ |
| `Condvar` (`sync/condvar.vr`) | sequence number, waiters | `wait`, `wait_timeout`, `wait_while`, `notify_one`, `notify_all` | notifications between unlocking and parking |
| `Barrier` (`sync/barrier.vr`) | count and generation under a mutex | `wait` | rounds that overlap, spurious wakeups |
| `CountDownLatch` (same file) | atomic count | `count_down`, `wait_for_zero`, `wait_for_zero_timeout` | the count changes without the mutex |
| `Phaser` (same file) | parties, arrived, phase, terminated bit in one integer | `register`, `arrive_and_await`, `arrive_and_deregister`, `terminate` | fields of one word changed by different protocols |
| `Once`, `OnceLock` (`sync/once.vr`) | a word with four values; a value | `call_once`, `try_call_once`, `call_once_force`; `get_or_init`, `get_or_try_init`, `set`, `get`, `take` | functions that fail or panic while others spin |
| `WorkerPool` (`worker_pool.rs`) | a deque per worker, round-robin counter, shutdown flag, idle count | `submit`, `submit_to`, `wait_idle`, `shutdown`, the worker loop | stealing, notifications without the mutex, a quiescence test made of several loads, closures that panic |
| `Reactor` (`reactor.rs`) | slots with a free list, a map from descriptor and kind to a slot, the kernel's interests | `wait_readable`, `wait_writable`, the background loop | a deadline against a late event, reuse of slots, one-shot interests kept by descriptor |
| `Jobs` (`jobs.rs`, `agent_runtime.rs`) | a bounded list of jobs, receipts in memory and on disk, child processes, an agent scope | `start`, `start_owned`, `cancel`, `changes`, the task of a job, `persist`, `restore` | four events race in one `select`; crash and restart; failed writes; eviction from a full list |

The primitives interact by calls and shared words only: `Mutex` calls
`FutexLock`; `Condvar` releases and retakes the `Mutex` of its caller;
`Barrier`, `CountDownLatch` and `Phaser` own a `Mutex` and a `Condvar`;
`OnceLock` drives the word of a `Once`, partly through `call_once` and partly by
itself; everything that blocks parks in the futex. `Channel` and `Broadcast` in
`core/async`, the executor and the recovery code in `core/runtime` are built on
top. The Rust components use the primitives of Rust's own library; `WorkerPool`
and `Reactor` are called by interpreter threads, `Jobs` by the Workbench server,
whose lock on the list serialises the requests but not the tasks of the jobs.

What makes each of them correct: exclusion and exact counts for the locks;
conservation for the semaphore; no lost wakeup and no premature return for
everything that waits; for `Once`, one run at a time and a result that is final;
for the pool, that accepted work runs once and before shutdown returns; for the
reactor, that an event reaches the call it belongs to and no other; for the
Workbench, that a receipt says what happened and that nothing a client has read
is lost by a restart.

### Outside the models

`WaitGroup` is a handle passed to intrinsics. The rest of `core/` and the crates
of the compiler are listed in `PROJECT.json` with the reason they are not
modelled. In short: the asynchronous library, the executor's task queue, the
circuit breakers and the supervisor, and memory reclamation are concurrent and
are next in the plan; the compiler, checker, protocol clients, data formats and
tools are sequential transformations of unbounded data, or input and output.

## 2. The modules

All models take one step per atomic instruction, system call or abstract lock
operation, so that every other thread may run between any two of them. A
variable has the name of the field it stands for; `pc` (and `cv` for the part of
a thread inside a `Condvar` call) is the place in the code; variables marked
*history* in their declaration do not exist in the program and only record what
happened for a property.

| Module | Stands for |
|---|---|
| `Futex` | the two system calls, as operators on a set of parked threads |
| `MutexSpec` | what a mutex promises: an owner, `Acquire`, `Release` |
| `FutexLock` | `lock`, `lock_slow`, `try_lock`, `unlock`; instantiates `MutexSpec` for the refinement |
| `Mutex` | extends `FutexLock` with data, poison flag and guards |
| `AtomicU16` | two halves of one word next to two ideal registers; the bitwise operations are constants |
| `RwLockSpec` | what a reader-writer lock promises: sets of readers and writers, and four steps |
| `RwLock` | both acquisition loops, the `try_` forms, both releases; instantiates `RwLockSpec` for the refinement |
| `Semaphore` | all operations with an amount; `acquire` and `release` are the amount 1 |
| `Condvar` | a condition variable and its mutex (the one of `MutexSpec`), to be extended |
| `ProducerConsumer` | `Condvar` with the client that `condvar.vr` documents |
| `Barrier`, `CountDownLatch`, `Phaser` | extend `Condvar` with the three types of `barrier.vr` |
| `Once` | the word, the guard and the three operations, with failing and panicking functions |
| `OnceLock` | extends `Once` with the value and its five operations |
| `WorkerPool` | the pool, its workers and the threads that call it |
| `Reactor` | `wait`, the background thread and what epoll does |
| `Jobs` | the list, the tasks and processes of the jobs, the disk, one client, stops of the host |
| `FutexLockProofs` | the theorems about `FutexLock` and `Mutex` |
| `WorkerPoolProofs`, `ReactorProofs`, `JobsProofs` | the theorems about the module of that name |
| `CountedLocksProofs`, `BarriersProofs`, `ProgressProofs`, `PackedWordsProofs` | the theorems about the components of `MCCountedLocks`, `MCBarriers`, `MCProgress` and `PackedWords`, which they extend |
| `MCCountedLocks` | `RwLock` and `Semaphore` side by side, with the symmetry of threads |
| `PackedWords` | extends `Phaser` and puts `AtomicU16` beside it |
| `MCPackedWords` | `PackedWords` with the bitwise operations of the library, which the run gives to the constants |
| `MCBarriers` | `CountDownLatch` and `Barrier` side by side |
| `MCProgress` | `Once`, `OnceLock` and `ProducerConsumer` side by side |
| `MCReactor` | the descriptors of the instance and the symmetry of threads |

A module that puts components side by side adds no behaviour: a variable
`client`, fixed in the initial state, names the component whose actions may
happen, the others rest in their initial states, and a property about one of
them is that component's own. It saves a run, not a state: its state space is the
sum of those of its parts. Where a property conjoins a component's `TypeOK` (`NobodyLeavesEarly`,
`ItemsCovered`, `AdvanceNeedsAll`), it is because the type invariant has no run of
its own.

`PROJECT.json` maps each definition to its lines. Some correspondences that are
not obvious:

- A `futex_wait` that returns EAGAIN is a thread that goes to its `asleep` label
  without being in `parked`; EINTR removes a thread from `parked` at any time.
- `Semaphore`: the sum of the amounts held is written as the number of pairs of a
  thread and one unit it holds (`Total`), for which the theorems on cardinalities
  can be used.
- `Semaphore`: the second load of an acquirer that finds enough permits goes to
  `asleep` unparked as well, because the code then runs the same deregistration.
- `Phaser`: the two advance loops are the same text; the labels with a `d` are
  those of `arrive_and_deregister`, which holds the mutex meanwhile. Bit
  operations on the packed integer are written with `\div`, `%` and `+`, which
  is what they do on fields that do not overflow. Callers are parties when they
  arrive and not when they register, as the type's documentation has it.
- `ProducerConsumer`: a consumer may use `wait` or `wait_timeout` for each of its
  waits, and may give up when it is told `timed_out` and still finds nothing.
- `Phaser`: `changed` remembers whether a party came or went in the current phase.
- `Once`: `RunF` lets the function return, fail or panic. After publishing or
  giving back the word, the code disarms its guard in a separate statement;
  with `LatePanics` a panic may fall between the two, which is the case the
  comment at `once.vr:98` is about. `overruns` counts the two events that take a
  claim from a running thread: `call_once_force` exchanging RUNNING for RUNNING,
  and a late guard that finds somebody else's RUNNING.
- `OnceLock`: a value is the pair of the thread and call that supplied it, so
  that two values are equal only if they are the same one. `abandoned` records
  that a function panicked inside `get_or_try_init`, which has no guard.
- `Mutex`: `Write`, `Poison` and `ClearPoison` are the caller's. They follow the
  comment at `mutex.vr:111-122`: data left inconsistent is poisoned before the
  guard is dropped, and the flag is cleared only over repaired data.

- `WorkerPool`: `seen` is the queue that `pending()` looks at next. A notification
  moves a `parked` worker on and does nothing otherwise, because the notifier does
  not take the mutex; the wait of `wait_idle` is a return to its loop at any time,
  which is what its notifications and its deadline allow. A panic counts as the
  end of the item and kills the worker, as `work()` is not guarded.
- `Reactor`: all descriptors fall into one shard. `interest` is epoll's table: a
  kind, `off` after a one-shot report, or `absent`. `EPOLL_CTL_ADD` may fail for a
  descriptor that is there or cannot be polled. `hit`, `alone` and `reported`
  record who was fired at, who has a descriptor to itself, and what the kernel has
  reported. There is a slot per thread because a call holds one at a time.
- Two places where the code has more steps than the model. `Reactor.AllocateSlot`
  takes from the free list or grows the arena in one step, the code in two lock
  regions (`reactor.rs:310-322`): a slot freed in between makes the arena one
  larger and nothing else. `WorkerPool.WakeAll` notifies all workers in one step,
  the code one after the other (`worker_pool.rs:274-276`): a worker that is notified
  later could as well have come back from its timed wait.
- `Jobs`: a job is its number, so that the order in the list and on disk is that of
  starting. `child` is what the process is or how it ended, for a proof worker
  that ended well what its report says. `Stop` may happen between any two steps;
  the write of a receipt is one step because `persist` renames a complete file.
  The client follows one job, chosen at the start. `restore` re-validates retained
  proofs with the checker of the build that runs now: which of them it rejects is
  a choice at each restart. A start may fail after it has made room in the list
  (`StartFails`): the evicted job is gone and there is no new one. A running child's
  output raises the version (`Capture`; of a proof worker it is stderr), and a child
  ends for its job once `execute` reads its output (`ChildEnds`).

Assumptions common to all models: memory is sequentially consistent (atomic
instructions interleave; see *not modelled*); a mutex that another component
uses is the abstract one; `Int` counters do not reach 2^63; nobody releases what
it does not hold.

## 3. The runs

Passing runs. Sizes are distinct states.

| Run | Instance | States | What it shows |
|---|---|---|---|
| `mutex_lock` | 4 threads | 52 359 | one owner, refinement of `MutexSpec`, `Ok(guard)` only over consistent data, no deadlock |
| `counted_locks` | `RwLock`: 3 threads. `Semaphore`: 3 threads, 2 permits, amounts 1 and 2, one `add_permits`, one `forget_permit` | 1.2 million | refinement of `RwLockSpec`, exact words, each reader overtakes a waiting writer at most once, writers do not strand one another while nobody is inside `read()`; permits conserved and waiters exact in the full interface; before a `forget_permit` nobody sleeps beside enough permits for all and no assertion is false |
| `packed_words` | `AtomicU16`: 2 threads, halves of 2 bits, 2 calls each. `Phaser`: 3 threads, 2 calls each, all operations | 2.1 million | the halves are two independent atomic registers, with every operation and plain stores; parties, phase and terminated bit survive the races, an undisturbed phase needs all its parties |
| `barriers` | `Barrier`: 3 threads, barrier of 3, 2 rounds. `CountDownLatch`: 2 threads, count 1, 2 `count_down` | 32 653 | rounds do not overlap, one leader each, no thread sleeps through the end of its round; results of all three kinds of wait are true, a timed wait returns |
| `progress` | `Once`: 3 threads, one call each, late panics. `OnceLock`: 3 threads, 2 calls each, `take`. Queue: 2 producers, 2 consumers, 2 items, one `wait_timeout` | 376 415 | one run at a time and a final result until a claim is overrun, RUNNING never without a runner; one final value on which all agree; calls end; no lost wakeup, a timeout does not swallow a notification, items are taken |
| `worker_pool` | 2 workers, one submitter, one manager, 2 calls each, one panic | 295 082 | work is neither lost nor doubled, drained at shutdown, run although notifications are missed; `wait_idle` waits for what was running; `shutdown` returns |
| `reactor_waits` | 2 threads, 2 descriptors, 3 keys, 3 calls | 598 879 | slots are owned once, an event is not turned into a timeout, a lone waiter is covered |
| `jobs_receipts` | 3 jobs (a run, a proof, an owned run), list of 2, 1 restored, two stops, one failed write | 7.0 million | results survive restarts, verdicts are honest, two children at most, the client is told of every change but the two that `restore` makes |

Runs that refute a statement of the repository; the quotation is in the
property's comment and in `PROJECT.json`.

| Run | Statement | What the code does |
|---|---|---|
| `futexlock_stranded` | `lock()` "Blocks until lock is available" (`mutex.vr:59`) | a woken thread takes the lock without the contended mark; a second sleeper is not woken |
| `latch_lost_wakeup` | at zero "all waiting threads are released" (`barrier.vr:529`) | `count_down` notifies between a waiter's test and its snapshot |
| `worker_pool_idle` | `wait_idle` blocks "until every worker is idle AND every queue is empty" (`worker_pool.rs:229`) | a notified worker leaves its wait between the load of the idle count and the look at its queue; `true` is returned with the caller's item not run |
| `reactor_ready` | `Ready`: "The kernel reported the fd is ready for the requested op" (`reactor.rs:105`) | the flag of a slot is raised after the slot was released and armed again: another call answers `Ready` with nothing reported |

Every property of a passing run comes with a mutant, an operator that stands
before the definition it changes and is marked *Mutant*: an exchange that became
a store, a guard that was dropped, a missing reset. With the mutant in place the
run finds the property violated.

### Bounds

Three threads are the smallest number at which a wake can go to the wrong
sleeper, a third party can disturb a pair between a load and an exchange, and
one reader can overtake another. `Mutex` has four so that two threads may
sleep while two more trade the lock. `MaxCalls`, `MaxRounds`, `MaxDowns`,
`MaxAdds`, `MaxForgets`, `MaxTimeouts` and `MaxItems` bound what would otherwise be endless; two calls a
thread let a fast thread meet the leavings of its own first call (`Once` has one
call a thread, and the three threads meet each other's), and `MaxDowns`
above `Initial` drives the latch below zero. `HalfSize = 4` with the arguments 1
and 3 makes additions carry and subtractions borrow; `PhaseSize = 4` lets a
lone party wrap the phase, `FieldSize = 4` holds three parties without the overflow that the
assertion of `Phaser.new` and 16 bits exclude in practice. Two workers are enough
for an owner and a thief to meet at one deque and for `wait_idle` to look at two
queues in turn; a third call of `wait` reuses a slot that two others have used,
and of the three keys two share a descriptor. In `Jobs`, `Limit = 2` and `Keep = 1`
stand for 128 and 126: the third job meets a full list, a restart forgets one
receipt; the version counter is bounded by `MaxOutputs`; after two stops the client
may know what one build said of a retained proof and see what the next one says. `RwLock`,
`FutexLock` and `Mutex` have no bound but the threads.

Deadlock is checked for `Mutex`. The other runs end where
callers have used up their calls, or where everyone has chosen to wait for
something that nobody is obliged to do (a `count_down`, a `release`); whether a
sleeper is left behind wrongly is what their properties say.

### Fairness

Liveness is checked in `progress` (`ItemsTaken`, `OnceCallsEnd`), `barriers`
(`TimedWaitReturns`) and `worker_pool` (`AcceptedWorkRuns`,
`ShutdownReturns`). `OnceCallsEnd` is stated for one of three interchangeable threads. Assumed is weak fairness of
the steps of a thread inside a call, because the operating system keeps
scheduling it, and of the clock where a deadline is concerned; strong fairness of
taking the mutex, that is, that `lock()` eventually returns to a thread that
finds the mutex free again and again. No thread is assumed to call anything.
The 50 ms wait of a worker is assumed to end, and a
work item to return or panic. The functions given to `Once` are assumed to end
(by returning, failing or panicking). The assumption on the mutex is one that
`futexlock_stranded` shows `FutexLock` itself not to meet in every schedule: the
liveness results of the types above are results about their own protocols. It
matters most for `Barrier`, whose three threads meet at one mutex (section 5): there is
no liveness property of it, only that no wakeup of the condition variable is lost.

## 4. The proofs

TLAPS checks the following for every value of the constants. Each theorem has the
shape `Init => IInv`, `IInv /\ [Next]_vars => IInv'`, `IInv => property`; the
inductive invariants were checked with TLC on the instances of section 3 before
they were proved. "Any number of calls" means any value of the bounds of section 3.
A theorem about a component that a composition instantiates (`Semaphore`, `Barrier`,
`OnceLock`, the queue) is one of the composition's specification (`LocksSpec`,
`BothSpec`, `AllSpec`) and so of the very formula its run checks: a lemma says that
each step of the composition is a step of the component or leaves it alone.

**`FutexLockProofs`** (any set of threads). `TypeOK`, `MutualExclusion`,
`WordTracksOwner` and the refinement `Spec => ImplementsMutex`. The three
invariants are inductive together: whoever passes an exchange has seen the word
unlocked, by `WordTracksOwner` nobody then holds the lock, and after it the word
is not unlocked; only the holder unlocks. In the refinement each action is a
step of `MutexSpec` under the mapping `owner <- Owner` or leaves `Owner` alone.
The mapping uses `CHOOSE`, which mutual exclusion makes the one holder.
For `Mutex`, `OkMeansConsistent`: every step of a `Mutex` is one of its `FutexLock` or
leaves it alone, so exclusion carries over; a guard is held with the lock, and data
for which there is no guard is consistent or marked (`GuardIInv`). The thread that
builds its guard is the only one at the lock, so nobody else has one.

**`CountedLocksProofs`**, `RwLock` (any finite set of threads). `Exclusion`, `StateCounts`,
`WaitingExact` and the refinement `Spec => ImplementsRwLock`. The inductive invariant adds to the three the types and
`PassedGate`: a reader at its exchange carries a value that is not negative,
because the gate looked. This is what makes the exchange safe however stale the
value: if the state is still (or again) that value, then by `StateCounts` there
is no writer and the number of readers is exact. The proof reduces the steps of
the code to a few effects on the sets of readers, writers and registered threads
and counts each effect once with the theorems on finite cardinalities. The same
effects are the steps of `RwLockSpec` under the mapping to the sets of guards: by
`StateCounts` and `Exclusion` a successful exchange finds in the word what the
abstract lock asks of the guards, and every other step leaves both sets alone.
`Exclusion` follows from the refinement too, which is why the run checks that one.
On top of it, `WritersServed` and `ReadersYield`. `WritersServed` counts as somebody
who serves a sleeping writer only holders, releasers about to wake and writers awake,
and asks that no thread be inside `read()`, where a wake can be lost (section 5). It
needs `Carried`: while the word is 0 and a writer sleeps, some thread, if only one
inside `read()`, is on a path that will look at the word or wake a sleeper, and `WritersSawHolder`: a writer parks only on a word that
was not 0, so that the thread that changed it to 0 is such a thread. The second
needs that a reader admitted past a waiting writer is at neither exchange again
(`Yielding`), because the gate in front of both looks at `writers_waiting`, which
by `WaitingExact` is not 0.

`Semaphore` (any finite set of threads, any amounts, any number of calls). `PermitsConserved`, `ReleaseAssertHolds` and `SleepersServed`. The
first is inductive with the types and exact waiters. For the assertion, as long as
nothing is forgotten, what a releaser saw plus what it returns is at most the
capacity, because its own permits were missing from the count. The third is the
hard one. Wakes and permits are different currencies: a releaser of `n` permits
sends at most `n` wakes, an acquirer may need several permits. `Covered` balances
them: unless a releaser is about to wake every sleeper, there is an acquirer,
asleep or awake, whose amount exceeds the permits minus the wakes still owed and
the acquirers awake. If every acquirer's amount were there, nobody awake and no wake
owed, that acquirer could not exist. A caller that panicked before its wake covers
nobody; `AssertHolds` says that before a `forget_permit` there is none.

**`ProgressProofs`**, `Once` (any set of threads, any number of calls of the three
operations, late panics). `OneRunner`, `CompleteIsFinal`, `ReturnsInitialised`
and `RunningHasRunner`. The inductive invariant says, as long as no claim has been
overrun, that a thread with a claim is alone and has the word at RUNNING, that
COMPLETE and a success go together, and that a thread past its publishing store
has it published; and always that only `try_call_once` surrenders and that
`call_once_force` never carries COMPLETE to its exchange. The condition is needed
and as narrow as the code allows: see *known limits*. `RunningHasRunner` does without
it: a claim is given up only by a step that leaves another word than RUNNING, so
those that spin never spin on an orphan, overruns or not.
For `OnceLock`, `AnswersAgree` and `ValueIsFinal`, without any such condition: its
operations never force the word, so a claim is exclusive (`LockClaimHeld`), a value
exists before COMPLETE only between a claimant's store and its publication
(`Stored`), and a call that has not stored is not the one the value is named after
(`Named`), which is what a `set()` that lost relies on.
For the documented use of `Condvar` (any finite sets of producers and consumers, any
number of items, spurious returns and timeouts), `ItemsCovered`. The hard step is the
consumer that parks: it no longer counts as awake. The invariant `Fresh` says why it
may: if its snapshot of the sequence number is still current, then everything pushed
since it found the queue empty belongs to producers that have not notified yet
(`Unannounced`), because the snapshot was taken under the mutex and a notification
changes the number. A wake exchanges one notification for one consumer awake, a pop
one item for one consumer.

**`BarriersProofs`**. `Barrier` (any set of threads, any size, any number of
rounds): `NobodyLeavesEarly` and `OneLeader`. State is touched only under the mutex
(`Guarded`); a thread takes part in a generation once and is past it when it leaves
(`InStep`), however often it is woken for nothing; when the barrier is made for all
the threads, the count is the number that have arrived at this generation
(`AllOnBoard`); a generation that is over has its leader (`Led`). `SleepersWoken`: a thread that
sleeps in the condition variable although its generation is over has a `notify_all()`
coming. `Noted` says why. A thread takes its snapshot of
the sequence number under the mutex and in its own generation, and the generation
changes under the mutex, which the last arrival keeps until it has changed the
number as well; so a snapshot that is still current is of a generation that is not
over or about to be announced. The `CountDownLatch` has no such step, hence
`latch_lost_wakeup`.
`CountDownLatch` (any threads, any count): `AnswersTrue`, because a waiter answers
from the last value it loaded and the count does not rise.

**`PackedWordsProofs`**, `Phaser` (any finite set of threads that fits the field, any
widths). For any number of calls: `PartiesExact`, and that a terminated phaser stays
so. The word is taken apart with `\div` and `%`; the arithmetic lemmas say that a
party more or less, an arrival and an advance leave the other fields as they are.
The result includes arrivals that overflow their field, which disturb the phase above
and never the parties below.
`AdvanceNeedsAll`, under the hypothesis `NoWrap` of that theorem: there are fewer calls
than phases, of which the code has 2^30. The hypothesis is needed: otherwise an
arrival that stalls before its exchange, while everybody else runs through all the
phases, finds a word that looks the same. The invariant therefore keeps
accounts (`PhasesPaid`): the phase is at most the number of calls that can advance
nothing any more, so it never wraps, and the value an advancing thread carries to its
exchange is of the phase the thread arrived in. `Undisturbed` says that as long as no
party comes or goes the packed arrivals are the threads that are here, who all wait,
and that whoever may advance this phase has them all. The instance of the run, whose
phases do wrap, lies beyond the hypothesis; the invariant was checked with TLC on
instances within it.

`AtomicU16` (any width, any set of threads, any arguments and number of calls):
`HalvesIndependent`. A half that is written leaves the other as it was (`HalfWritten`),
and an operation computes a half again (`NewHalfInHalf`): a sum or difference because
it is reduced, a bitwise one by assumption. `BitOr` and `BitAnd` are constant operators
of which only that closure is assumed, since the library defines them by recursion,
which the prover cannot work with; the run gives them their definition and TLC
evaluates the assumption for it. An exchange that succeeds has loaded what is still
there, so the registers, which perform the operation in the same step, hold the halves
it computed from.

**`WorkerPoolProofs`** (any number of workers from one on, any set of clients, any
number of calls and panics). `WorkConserved`, `DrainedAtReturn`, `RunningSeen`, and that
at no time an early item lies in the deque of a worker that has left its loop
(`PoolStrandsNothing`, the safety half of `AcceptedWorkRuns`). An item is
named by its submitter and call, so what a push adds is nowhere yet (`OnlyIssued`);
pops and steals move it. A worker leaves its loop only with the flag on and its
deque empty of what was there before (`LeavesNothing`), and a panic leaves the deque
behind, which is the exception the property names. For `wait_idle`, `idle_count` is
exactly the number of idle workers (`IdleExact`), an idle worker has empty hands, so
once the count has been full everything that was in hand at the call is done
(`WaitsFor`).

**`ReactorProofs`** (any finite set of threads, any keys, any number of calls).
`SlotsOwned`, `DeliveredIsReady` and `LoneWaiterCovered`. Ownership is inductive
with the types and `EmptyHanded`: a thread that has not been served has no slot.
`allocate_slot` takes a slot nobody has, because the free list holds none twice and,
when it is empty, the held slots map onto the arena, which is therefore smaller than
the number of threads. The second property rests on the first: a slot that was fired
for a call stays fired until that call lets go of it (`HitFired`), because only
its owner resets it, and a call that has decided for a timeout has an idle slot
(`LateIdle`), because the exchange in `Slot::idle` demands an armed one. The third
adds that a slot in use is armed, or fired with the flag up or about to be raised
(`FlagFollows`), so a fire that finds it not armed loses nothing; that a lone
waiter shares its descriptor with no call (`AloneOnFd`); and that from the
installation on, before the registration as well, the map leads to its slot or the
event has been taken out for it (`Filed`). It also covers the late flag of
`reactor_ready`: a waiter whose flag is up is not asleep.

**`JobsProofs`** (any number of jobs, stops, failed writes and pieces of output, any
length of the list). `ResultSurvives`, `VerdictHonest`, `TwoChildren` and
`ChangesTold`. A task belongs to a listed job that counts as running
(`TaskListed`), and the start refuses a third one (`FewRun`); eviction takes the
oldest job that is not running. What the `select` has chosen agrees with the
process, which no longer changes (`ChoiceHonest`), and so does the receipt on disk
(`DiskHonest`). A result that is listed or known to the client is one that
`restore` may read from the disk (`DiskTells`, `KnownTells`): that is the relation
`Restored`, which is why a retained proof may be succeeded under one build,
inconclusive under the next and succeeded again, and nothing else may change. The
attempt to prove the property in its first form, which let only the newer reading
be inconclusive, showed that it needs a single stop; the run has two since.
`ChangesTold` compares a version and a status that the client may have read in an
earlier life of the host with what is listed now. A failed write followed by a stop
brings an older receipt back, so versions do go down. `DiskVersion` and `KnownDisk` say
why the client is not misled: a version on disk stands for one status and what
`restore` makes of it, in memory and with the client, and a job that the client knew
before the stop is what `restore` made of the disk.

Each of these properties is also checked by TLC on the instance of its run (`Exclusion`
as a part of `ImplementsRwLock`, that a phaser stays terminated as a part of
`AdvanceNeedsAll`), but for `WordTracksOwner`, a part of the first inductive invariant, and
`PoolStrandsNothing`, the safety half of a liveness property.
Assumptions on constants are the named `ASSUME`s of the modules; those on the
constants of an instantiated component are assumed by the module that puts it beside
others (`LocksAssumption`, `BarriersAssumption`, `LockAssumption`, `QueueAssumption`,
`AtomAssumption`). TLC evaluates all of them on each run.

**Only model-checked.** Liveness under fairness, which is out of the prover's reach:
`OnceCallsEnd`, `ItemsTaken`, `TimedWaitReturns`, `AcceptedWorkRuns`
and `ShutdownReturns`. `AdvanceNeedsAll` where the phases wrap, that is, without `NoWrap`:
there it is not an invariant of the code for every number of calls, and the run shows
it for the two calls a thread of its instance. That the bitwise operations compute
what their names say: the proof needs only that they stay within a half.

## 5. Known limits of the code

Besides the four refuted statements, the models contain the following schedules.
The properties are stated so that they hold in spite of them; each is short enough
to replay by hand on the model.

- `RwLock.read` (`rwlock.vr:126`): a reader loads the state, sees a queued writer;
  the writer acquires, releases and wakes before the reader parks; the state is
  the loaded value again, and the reader parks on a free lock.
- `RwLock.release_read` (`rwlock.vr:243`): the one wake may go to a reader, which
  finds the writer still queued and parks again. The writer then sleeps on a free
  lock, against "Last reader - wake writers" (line 242). Hence the condition of
  `WritersServed` that no thread is inside `read()`.
- `Semaphore.release` (`semaphore.vr:164`) compares its old value with a maximum it
  loads later; an acquire and a `forget_permit` in between make the assertion fail
  in a caller that returned what it had, before it has woken anybody: a thread that
  sleeps for the permit sleeps on, against "until available" (line 77). Hence
  `forgets = 0` in `ReleaseAssertHolds` and `SleepersServed`.
- `Semaphore.release` (`semaphore.vr:167`) wakes as many threads as it returns
  permits; a woken thread that needs more parks again while a smaller request
  sleeps on. Hence `SleepersServed` asks that there be enough permits for the
  largest call that waits.
- `Barrier.wait` (`barrier.vr:163`) inherits the stranding of `futexlock_stranded`: the
  leader notifies with the mutex held, both woken threads park on the contended word,
  the leader's unlock wakes one, which takes the lock without the contended mark
  (`atomic.vr:1360`), and its unlock wakes nobody. The other never leaves `wait()`.
  `Barrier` is modelled over the abstract mutex, and says nothing about this.
- `Condvar.wait_timeout` (`condvar.vr:177`) reports EAGAIN and EINTR as `timed_out`,
  against the sentence at `condvar.vr:159`. A caller has to look at its condition
  again before it gives up, as `GiveUp` does.
- `Phaser.arrive_and_deregister` (`barrier.vr:413`): the departed arrival stays
  counted, so of three parties one deregisters (arrived 1, parties 2) and the next
  arrival ends the phase without the third. Hence `~changed` in
  `AdvanceNeedsAll`.
- `Phaser.arrive_and_await` (`barrier.vr:380`): the last arrival advances and notifies
  without the mutex, possibly between a waiter's test (line 386) and its
  snapshot, as in `latch_lost_wakeup`.
- `Once.call_once_force` (`once.vr:301`, "Accept any state except RUNNING"): having
  loaded RUNNING it exchanges RUNNING for RUNNING, and two threads run the
  function. A late guard after the error branch of `try_call_once` finds the word
  given back (`once.vr:255` stands before 256) and possibly claimed by another
  thread, whose claim it then poisons, against "guard panic-poisons only the slot it
  owns" (lines 109-110). These two are the overruns. Hence `overruns = 0` in
  `OneRunner`, `CompleteIsFinal` and `ReturnsInitialised`.
- `OnceLock.take` (`once.vr:431`) leaves COMPLETE behind: the next `get_or_init`
  panics in its `expect` (line 393).
- `OnceLock.get_or_try_init` (`once.vr:489`) has no guard: a panic leaves RUNNING and
  later callers spin. Hence `abandoned` in `OnceCallsEnd`.
- `WorkerPool.submit` (`worker_pool.rs:205`) tests the flag before it pushes: with a
  shutdown in between it answers `Ok` for an item that nobody will run. Hence
  `early` in `DrainedAtReturn` and `AcceptedWorkRuns`. A closure that panics takes
  its worker with it (line 306); with all workers gone, work is accepted and never
  run, hence `Gone`.
- `Reactor.wait` on one descriptor from two threads (`reactor.rs:459`, `:776`): the
  kernel keeps one interest per descriptor, so a call for the other kind, or the
  timeout of another call, silences a call that is still parked; it sleeps until
  its own deadline. Hence `alone` in `LoneWaiterCovered`. `register` may also fail
  with an error when two calls race from `EPOLL_CTL_MOD` to `EPOLL_CTL_ADD`.
- `Jobs.restore` (`jobs.rs:88`) turns a running job into an inconclusive one and
  keeps its version: a client that had read version 0 before the restart is not
  sent the change (line 252); nor is it when the checker of another build reads a
  retained proof differently (line 103). These are the two exceptions that
  `ChangesTold` names. A host that is killed
  leaves its child processes running.

## 6. Not modelled, and why

- *Weak memory.* The code orders its accesses with Acquire, Release and Relaxed.
  The models are sequentially consistent, so they decide whether the protocols
  are right when every instruction takes effect in order. The registration in
  `Semaphore.acquire` (comment at `semaphore.vr:81-89`) is a store followed by a
  load of another word against the reverse in `release`, where this matters; it
  is listed as a hazard without a property.
- *Overflow* of 64-bit counters, of the 16-bit fields of a phaser by more
  than 65 535 parties, and of the phaser's arrivals by a thread that is not a party.
- *A timeout of zero* given to `Condvar.wait_timeout`, which the futex takes for
  no timeout (listed as a hazard).
- *The kqueue backend* of the reactor, its zero-timeout probe (which changes no
  state) and its multi-descriptor poll; *trees of agent scopes* and the editor
  protocol of the Workbench.
- *The bulk of the repository.* The compiler, the type checker, the proof kernel,
  the code generators and the instruction dispatch are 1.6 million lines of
  sequential transformations of unbounded terms: their correctness is about every
  program and not about states and interleavings, which a finite instance cannot
  say anything useful about.
- *Getters, formatting, defaults*, and the operations that need exclusive access
  (`get_mut`, `into_inner`).
- *The poison flag of `RwLock`*, which is handled like that of `Mutex`.

## 7. Plan

1. Core (done): the primitives above, bottom up, since everything else is built
   on them.
2. Extension (done so far): the worker pool and the reactor of the interpreter, the
   operations of the Workbench with crash and restart. Still open, in this order:
   `Channel` (the bounded `Channel`, `Sender`/`Receiver` with wakers, closing and
   dropping at both ends; abstract specification: a bounded queue that loses
   nothing before it is closed), then `Broadcast`; the circuit breakers of
   `runtime/recovery.vr` and `crates/verum_error/src/recovery.rs`; the asynchronous
   `semaphore.vr`; `TaskQueue` (`runtime/task_queue.vr`) with the task states of
   `async/task.vr`; cancellation and nurseries; `hazard.vr` and `epoch.vr`; the poison
   flag in `RwLock`; `Semaphore` with store buffers.
3. Proofs (done): every safety property of the runs: the locks, the packed words,
   the barriers, the once types, the queue over `Condvar`, the pool, the reactor and
   the Workbench, as in section 4. Still open: the channel as a refinement of its queue.
