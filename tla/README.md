# Qc in TLA+

A verification project for Qc, a C++ library with a coroutine scheduler, a
lock-free queue, threads, loggers and configuration variables. TLA+ modules
model the components that have behaviour worth checking, TLC checks them on
small instances, and TLAPS proves the main invariants of the scheduler, the
coroutines, the threads, the loggers and the configuration for all instances. Paths below are
relative to the repository.

## 1. The system

| Component | Source | State | Operations | Interacts with |
|---|---|---|---|---|
| Scheduler | `src/scheduler/scheduler.cpp`, `include/qc/scheduler/scheduler.h` | `m_stopped`, a task queue per worker, a global queue, a pool of coroutines, the threads | `start`, `stop`, `execute`/`schedule`, `run`, `pickTask`, `getIdleCoroutine` | coroutines, queues, threads, the condition variable |
| Coroutine | `src/coroutine/coroutine.cpp` | status, callable, context; per thread the current coroutine, the main context and a count | constructor, `resume`, `yield`, `reset`, `setMain`, `trampoline`, destructor | the scheduler, and jobs that call `getThis()->yield()` |
| Lock-free queue | `include/qc/thread/lockfreequeue.h` | linked nodes, atomic `head` and `tail` | `enqueue`, `dequeue`, `empty` | every thread of the scheduler |
| Thread, Semaphore | `src/thread/thread.cpp`, `semaphore.cpp` | `m_state`, a POSIX thread, a semaphore | constructor, `run`, `join`, `detach`, destructor | the scheduler owns its threads |
| Condition variable | `src/thread/conditionvariable.cpp` | a POSIX condition variable | `wait`, timed wait, notify | the idle workers |
| Logger, Manager, Warp | `src/log/` | loggers by name, each with validity, level, layout, appenders | `getLogger`, `log`, the setters, the logging macros | every component logs; clients and the log configuration set loggers up |
| Log configuration | `src/config/log_config.cpp`, `include/qc/config/log_config.h` | the variable `logs` | its listener, `setupLogger`, its conversions | runs inside `Config::LoadFromYaml` |
| Config variables | `src/config/config.cpp`, `include/qc/config/config.h` | registered variables, their values and listeners | `Create`, `setListener`, `removeListener`, `fromString`, `LoadFromYaml`, `GetConfig`, `Visit` | listeners |
| Layout | `src/log/layout.cpp` | the items of a pattern | `init` (parser), `layout` | appenders |
| Appenders, Event, mutex wrappers, utilities | | | wrappers of I/O, text and POSIX calls | |

What is hard:

- *Scheduler.* Workers steal from one another and share a pool, so a coroutine
  yields on one thread and is resumed on another. `execute` tests `m_stopped`
  and enqueues later. A wake-up between `pickTask` and the wait is lost.
  `stop` races with both, and `start` may fail half-way. Correct means: no
  coroutine in two hands, no job run twice, nothing that was queued before
  `stop` lost, `stop` returns.
- *Coroutine.* A thread has one main context, which whoever resumes overwrites;
  coroutines nest and change threads. Correct means: a yield goes back to whoever
  resumed, and no stack is reset or freed while a thread is on it.
- *Queue.* Threads read nodes that others have deleted, and addresses recur.
  Correct means: a FIFO queue for every interleaving, no access to freed
  memory, no leak, no endless retry.
- *Thread.* `m_state` is written by two threads without a lock, and decides
  whether the POSIX thread is joined or detached. Correct means: joined or
  detached exactly once, and an object that was not detached is never touched
  after destruction.
- *Logging.* A logger is rebuilt in many separately locked steps while threads
  print through it and clients change it, and an exception may cut the load
  short. Correct means: a logger that is valid, so that messages print through
  it, is as one configuration says; what a logger refuses the root logger prints.
- *Config.* Two kinds of locks, one of them taken twice by a thread; listeners
  that throw in the middle of a load; one name created in several places.
  Correct means: loads are atomic for readers, a reading can be loaded again,
  listeners know the value, nobody waits for ever.
- *Layout.* A hand-written parser with two indices and look-ahead.

`PROJECT.json` lists the hazards at the line where each bites.

## 2. The modules

| Module | What it is |
|---|---|
| `Scheduler` | scheduler, coroutines as it uses them, clients, owner |
| `SchedulerProofs` | the theorems about `Scheduler`: where tasks are; which tasks run, and what `stop` leaves |
| `Coroutine`, `CoroutineProofs` | coroutines that nest, change threads and are destroyed; the theorems |
| `FifoQueue` | what a concurrent queue promises: each call takes effect at one moment |
| `LockFreeQueue` | the linked list, one atomic access per action, and the refinement of `FifoQueue` |
| `QueueProofs` | the theorems about `LockFreeQueue`, the refinement included |
| `Thread`, `ThreadProofs` | `Thread` with its semaphore, an owner and the POSIX threads; the theorems |
| `Logging`, `LoggingProofs` | loggers, the loading of `logs`, a client, threads that log; the theorems |
| `Settings` | what the configuration promises to those who load it and read it as a whole |
| `Yaml` | nodes, the conversions `YAML::convert<T>`, `TraversalYaml` |
| `Config`, `ConfigProofs` | variables, locks and listeners, and the refinement of `Settings`; the theorems |
| `Layout`, `LayoutProofs` | the pattern parser; the theorems |
| `Induction` | least elements and induction over the naturals, stated for sets |
| `MC*` | values for the constants of TLC's runs |

**Scheduler.** An action is one access to memory that threads share. `pc[w]`
is where worker `w` is: `test` (reads `m_stopped`), `peek` (`empty()` of the
next queue of `pickTask`), `take` (`dequeue()`), `wait`, `idle`/`reuse`
(`getIdleCoroutine`, two steps because another worker may come in between),
`resume`, `run`, `back` (the coroutine goes to the pool or to the worker's own
queue). `draining` distinguishes the two loops of `run`. A job is opaque: when
it runs it may call `execute`, yield, or end in one of `Outcomes`: return,
throw a `std::exception`, throw something else. `call` holds an `execute`
between its test, its enqueue and its `notifyAll`. The owner calls `start` and
`stop` in turn. In `start` the constructor of any thread may throw: the workers
made before it run on, and `stop` joins them up to the null pointer behind the
last. Such a failure is one of `pthread_create`: that the constructor throws
while its thread runs (`Thread!SemWaitFails`), and leaves a worker that nobody
joins, is in `Thread` only. Queues are sequences here; `LockFreeQueue` says when that is justified. A
timed wait may end at any moment: `ConditionVariable` passes its relative
timeout as an absolute time, so in fact it always times out.

**Coroutine.** An action is one call with the switch of contexts it ends in.
`runs[t]` is whose code thread `t` runs, `main_ctx[t]` who goes on in
`*t_main_ctx`. `resumer` is history: who has resumed a coroutine. Calls that
trip an assertion, or that dereference the null current coroutine, end the
process (`crashed`). The moment between the mark in `m_status` and the switch is
not split: a coroutine is only passed on when its `resume()` has returned
(`scheduler.cpp:124-129`), and the modelled clients do the same.

**LockFreeQueue.** Each load, each compare-and-exchange and the `delete` is an
action. Deleted memory keeps its contents until it is reused; with `Reuse`
the allocator may return it at once. Such accesses are recorded in `faults` and
go on with what the memory holds. With `Spurious`, `compare_exchange_weak` may
fail for no reason. Memory is sequentially consistent. `IsFifo` is the
refinement: `Items` (the data behind the dummy) is the abstract queue, and
each operation has one linearization step: the successful exchange of `next`
(enqueue), of `head` (dequeue), or the load that finds the queue empty.

**Thread.** The owner creates, joins, detaches and destroys objects in any
order; the child performs the steps of `run`. `handle` is what POSIX knows.
`faults` records joins and detaches that POSIX leaves undefined, and accesses
to an object that is not there. The constructor has two ways to throw, after
which there is no object (`THROWN`) and no destructor runs: `pthread_create`
fails, or `sem_wait` does when the thread is already there (`SemWaitFails`);
that thread goes on with the object, and nobody can join it. `sem_init` and
`sem_post` do not fail: their semaphore is valid and its value is at most one.

**Logging.** One action per call that `setupLogger` makes of a logger, each of
which takes the logger's lock once: an appender is made with the level of the
logger, given its layout and added in three steps. `Throw` is an exception of
`std::filesystem::exists`, which `ConfigVar::fromNode` catches. A client makes
the calls of `Script`, in their order, at any moments, and may do to the root
logger whatever the interface lets it do. A thread fetches a logger,
tests its level, logs, and, if the logger is not valid, goes through `~Warp` to
the root logger. `m_level` of a new logger is uninitialised: it is any element
of `Garbage`. History: `behind`, the names an aborted load left changed;
`byHand`, those the client has changed since; and, in each logger, `skipped`, the
appenders that the last load left out (an unknown type, a file or directory that
could not be made), so that `MadeOf` can say which are there and which may be
missing. `RootSpoiled` reads off the calls made so far whether the client has
invalidated or emptied the root logger.

**Yaml.** A key is the sequence of the words between its dots, a scalar its
text; a decoder answers a value or throws. The level of a `LogConfig` that a
file leaves out is a parameter, `garbage`. `TraversalYaml` is the code's walk,
with its list of named nodes, as one recursive function.

**Config.** `Create` runs before `main`, in any order. `LoadFromYaml` holds the
write lock of Config and, for one variable after the other, the variable's
write lock, under which the listener is told (`tell`) before the value is
assigned (`assign`); either may be cut short by an exception. `fromString` takes
only the variable's lock. `GetConfig` takes the read lock, `Visit` takes it
again, and `toNode` waits for each variable. `getValue` takes no lock
(`config.h:230-232`); listeners do not call it, nor do they set variables. `IsSettings` maps the settings
to the values when nobody holds Config's write lock, and to those from before
the load while somebody does.

**Layout.** One action per turn of the parser's loop. Look-ahead past the end
of the string (`"%d{"`) is a free choice.

## 3. The runs

| Run | Module | Shows | Bounds |
|---|---|---|---|
| `SchedulerSafety` | `MCScheduler` | `TypeOK`, `OnePlace`, `CurrentIsHeld`, `DrainComplete`, `PoolFinished`, `StopEndsCoroutines`, `NoRerun` | 2 workers that may fail to start, 1 client, 3 jobs, 3 coroutines, 1 yield each, 2 starts |
| `SchedulerLive` | `MCScheduler` | `EnqueuedJobEnds`, `StopReturns` | 2 workers, 2 jobs with or without a fixed thread that return or throw, 1 start, fairness |
| `SchedulerNull` | `MCScheduler` | `NoNullCoroutine` fails | 3 jobs |
| `SchedulerUnknown` | `MCScheduler` | `ResumeStatusOK` fails | 2 jobs |
| `CoroutineSwitch` | `MCCoroutine` | `TypeOK`, `BackToResumer`, `AtRest`, `CountsAddUp` | 2 threads, 4 coroutines, counts modulo 4 |
| `QueueSpsc` | `MCLockFreeQueue` | `TypeOK`, `NoUseAfterFree`, `NoLeak`, `IsFifo` | 1 producer, 1 consumer, 4 puts, 5 gets, 3 addresses, reused |
| `QueueMpmc` | `MCLockFreeQueue` | `NoWildPointer`, `TailNearEnd`, `IsFifo`, `EveryCallReturns` | 2 threads, each 1 put and 2 gets, 3 addresses, not reused, spurious failures |
| `QueueFreed` | `MCLockFreeQueue` | `NoUseAfterFree` fails | 1 producer, 2 consumers |
| `ThreadCalls` | `MCThread` | `TypeOK`, `OnlyAbandonedFail`, `Started`, `NoThreadLeak`, `JoinedHasEnded`, `CallsReturn` | 2 objects, whose constructors may throw at either call |
| `LoggingLoad` | `MCLogging` | `TypeOK`, `ValidIsWhole`, `LoadedWhenIdle`, `CanPrint`, `MessageEnds` | 1 logging thread, a client with 6 calls, the last of which empties root, 2 loggers and root, 3 values of `logs`, 2 levels of garbage |
| `ConfigLoad` | `MCConfig` | `TypeOK`, `ToldIsValue`, `OneVariable`, `SomeoneMoves`, `IsSettings`, `ReloadIsQuiet` | 2 threads, 3 calls, 6 calls of `Create` for 4 names, 2 files, 3 texts, 1 `setListener` |
| `LayoutParse` | `MCLayout` | `TypeOK`, `RoundTrip` | all patterns up to 6 characters over 5 |

Why these bounds suffice:

- *Scheduler.* Every race is between two parties over one item, and has a
  third party at most (owner or client). Two workers steal from each other;
  two jobs keep both busy; a third job is what it takes for one worker to empty
  the pool under another; one yield moves a coroutine; a second `start` meets
  what the first `stop` left. `MaxCoro` is the number of jobs: there is a
  coroutine for every job at most. The theorems of section 5 hold without
  these bounds.
- *Coroutine.* Four coroutines nest three deep on one thread while the other
  takes one over, and make the count wrap at 4.
- *Queue.* With three addresses the dummy, one item and one recycled node
  exist at the same time; a fourth put makes an address return to the place it
  was at. Two threads that both put and get give every pair of operations, and
  a thread between its steps stands for any number of others that interfere
  there.
- *Thread.* Objects do not share state; two show that a fault of one is not
  charged to the other.
- *Logging.* Threads that log change nothing but the registry, so one stands
  for all. Two names allow one to appear, change and go while the other does
  something else; the configurations differ in every field. The client sets up
  a name that the loads set up too, as `test/log_test.cpp` does; then it changes
  the root logger and empties it, at the end, so that everything before runs with
  a root logger that is whole.
- *Config.* Three calls are a load, another that overlaps with it, and a third
  that reads or reloads what they left. The names are those of the library
  (`logs`, `coroutine.stack_size`), one below `logs`, and a list; one name is
  created three times, once with another type. `OddFile` has every kind of
  entry a load can refuse.
- *Layout.* Six characters are a text, a directive with an argument, and one
  more directive or brace.

Symmetry is used for jobs, clients, threads and coroutines in runs that check
invariants, the action property `NoRerun` or the safety property `IsFifo`, which
treat them alike; never for liveness. Deadlock is checked everywhere but in
`LayoutParse`, which ends with its pattern.

What the runs that fail show (`findings` in `PROJECT.json`):

- `getIdleCoroutine` asks the pool whether it is empty, then dequeues: another
  worker takes the coroutine in between and `reset()` is called on null.
- A job that throws something other than a `std::exception` leaves its coroutine
  in `RUNN`; it is queued as if it had yielded and the next `resume` asserts.
- A second consumer of the queue reads a node the first has deleted. The
  scheduler uses the queue with many producers and consumers, so the sequences
  of `Scheduler` are an idealisation there: `QueueMpmc` shows that the queue is
  a FIFO queue as long as deleted memory is not reused while someone holds its
  address. With one producer and one consumer (`QueueSpsc`) it needs no such
  assumption, but it needs strong exchanges: `enqueue` does not retry its last
  one (`lockfreequeue.h:57-60`), so a spurious failure lets `tail` lag.

Met on the way, and visible in the properties as what they have to except:

- `run` overwrites `DETACHED` with `TERMINATED`, so `join` passes a detached
  thread to `pthread_join` (`OnlyAbandonedFail`). A destructor that detaches a
  running thread leaves it to write `m_state` of an object that is gone.
- When `sem_wait` fails, by a signal say, `Thread`'s constructor throws and
  leaves a running thread which nobody can join, and which uses the object that
  is gone (`SemWaitFails`; `OnlyAbandonedFail` excepts it by name, and
  `NoThreadLeak` speaks of objects whose destructor has run).
- A coroutine that resumes another one takes the thread's place in its main
  context, and dies at its own next yield or end (`OnlyNestingLosesThis`).
- After a `start()` that failed there may be no worker, and jobs wait for ever
  (`EnqueuedJobEnds`); `stop()` then meets a null thread (`JoinNull`).
- An empty container is written as a null node, which loads skip and
  `LogConfig` refuses: what `GetConfig` answers then does not restore
  (`HasEmpty`). The entries of a map variable may bear the name of another
  variable (`Shadowed`).
- A listener that throws after it acted is not undone, and the variable keeps
  its old value (`torn`). So after an aborted load of `logs`, loading the *old*
  configuration again does nothing (`behind`).
- `getLogger` leaves `m_level` to chance, and so does `LogConfig` when a file
  names no level: two loads of one file may differ (`Definite`).
- An appender without a layout that is added to a logger without one keeps a
  null layout, which `Appender::log` dereferences: `CanPrint` rests on
  `LayoutAssumption`, that clients set the layout first. A client that
  changes a logger during a load leaves a mixture of both (`byHand`).
- A thread tests the level of a logger and takes its lock again to print: a
  whole load may finish in between, and the message then passed the level of
  one configuration and is printed by the appenders of another. `ValidIsWhole`
  is about the logger, and denies nothing of this.
- A client may invalidate or empty the root logger: then refused messages are
  lost, and with an invalid root logger `~Warp` calls itself for ever
  (`RootSpoiled`).
- Jobs with a fixed thread index are stolen like others (`scheduler.cpp:91-103`).
  When node memory is reused, `dequeue` may answer null on a queue that was
  never empty.
- An empty argument `%d{}` is closed by the next brace, if any; the table of
  letters in the comment above `Layout::init` is not the map's.

## 4. Fairness

`Scheduler!FairSpec`: weak fairness of each worker, of calls of `execute` under
way and of the owner's calls under way: the operating system runs every thread,
and callables end or yield. Nothing obliges anyone to call `execute`, `start` or
`stop`. Weak fairness suffices since nothing there blocks on a lock that others keep
retaking: the wait times out by itself.

`LockFreeQueue!FairSpec`: weak fairness of each thread, and strong fairness of
its successful exchanges: `compare_exchange_weak` does not fail for no reason
for ever. With a bounded number of calls, interference by others ends, so every
call returns although the algorithm alone is lock-free, not wait-free.

`Thread!FairSpec`: threads run, callables end, the owner completes a call it
has begun. `Logging!FairSpec`: threads run and a load under way goes on; nobody
has to load, to log or to set a logger up.

`Coroutine` and `Config` state no fairness: their runs check safety. Instead of
"every call returns", which would need fair locks, `Config` has
`SomeoneMoves`: there is never a circle of calls that wait for one another.

## 5. The proofs

The theorems hold for all values of the constants, under the assumptions that
the modules name (`ASSUME`): at least one worker, distinct kinds of values,
indices in range, finitely many threads and coroutines (`Coroutine`), a client
of the loggers that asks for a logger before it changes it (`ClientAssumption`)
and, if it adds an appender that has no layout, has given the logger one
(`LayoutAssumption`). Those about the queue name what else they need in their `ASSUME`.

| Module | Theorem | States |
|---|---|---|
| `SchedulerProofs` | `TypeCorrect` | `Spec => []TypeOK` |
| | `TasksInOnePlace` | `[]OnePlace`: no item in two positions or two hands |
| | `CurrentCoroutineIsHeld` | `[]CurrentIsHeld`: the thread-local current coroutine is the one that `run` resumed |
| | `PooledHaveFinished` | `[]PoolFinished`: `reset` never meets a coroutine that has not ended |
| | `StopDrains` | `[]DrainComplete`: after `stop` only what overlapped with it is queued |
| | `StopLeavesNoCoroutine` | `[]StopEndsCoroutines`: after `stop` no coroutine is suspended |
| | `NoJobRunsAgain` | `NoRerun`: no step runs a job that has ended |
| `CoroutineProofs` | `TypeCorrect`, `ControlReturns`, `StacksAtRest` | `[]TypeOK`, `[]BackToResumer`, `[]AtRest` |
| | `CountsAreRight` | `[]CountsAddUp`: over all threads the counts give the number of coroutines, though each wraps |
| `QueueProofs` | `TypeCorrect` | `[]TypeOK` |
| | `NoPointerGoesWild`, `TailStaysNearEnd`, `NoNodeIsLost` | `[]NoWildPointer`, `[]TailNearEnd`, `[]NoLeak`, for any threads while memory is not reused |
| | `ManyFifo` | `IsFifo`, the refinement of `FifoQueue`, under the same assumption |
| | `PairTouchesLiveNodes` | `[]NoUseAfterFree` for one producer, one consumer and strong exchanges, though memory is reused |
| | `PairKeepsTheList`, `PairFifo` | the other four properties, `IsFifo` among them, for that pair |
| `ThreadProofs` | `TypeCorrect`, `OnlyAbandonedAreMisused`, `StartedWhenConstructed`, `NoThreadLeaks`, `JoinedThreadsEnded` | `[]TypeOK`, `[]OnlyAbandonedFail`, `[]Started`, `[]NoThreadLeak`, `[]JoinedHasEnded` |
| `LoggingProofs` | `TypeCorrect` | `[]TypeOK` |
| | `MessagesCanBePrinted` | `[]CanPrint`: appenders have layouts, and the root logger takes what others refuse unless the client spoiled it |
| | `ValidLoggersAreWhole` | `[]ValidIsWhole`: a valid logger not set up by hand is as one configuration says |
| | `LoggersAreAsLoaded` | `[]LoadedWhenIdle`: between loads loggers are as `logs` says |
| `LayoutProofs` | `TypeCorrect`, `ItemsSpellThePattern` | `[]TypeOK`, `[]RoundTrip`, for patterns of any length |
| `ConfigProofs` | `TypeCorrect`, `NamesShareVariables`, `ListenersKnow`, `NoDeadlock` | `[]TypeOK`, `[]OneVariable`, `[]ToldIsValue`, `[]SomeoneMoves` |

TLC checked the properties, and the less obvious inductive invariants, before they were
proved.

*Scheduler, places.* All four theorems follow from one inductive invariant,
`Inv`. `OnePlace` is not inductive: that a job is enqueued only once depends on
the calls of `execute` under way (`CalledNowhere`, `PlacedSubmitted`); that a new
coroutine is nowhere yet depends on its number (`Numbered`, `PlacedCreated`);
that a worker which starts or ends holds nothing depends on where the owner is
(`ThreadsExist`) and on what `pc` says of `held` (`HeldTyped`). The steps never
look inside a sequence: `EnqueueLemma` and `DequeueLemma` say what `Append` and
`Tail` do to the relation "item `x` is in queue `q`", and each action is one or
both of them.

*Scheduler, draining.* A worker gives up when `pickTask` finds nothing, though
another may put a suspended coroutine back behind it. `DInv` says why nothing is
forgotten: whatever was queued in time is `Covered` by a worker that `WillLook`
at its queue, or by one that holds a task and hence will look everywhere again;
the worker that puts a task into its own queue covers it itself
(`LooksEverywhere`, `CoveredByWorkers`). When `stop` has returned no worker
exists, so nothing is covered, so nothing is queued. `NotLost` adds that a
coroutine that has not ended is in a queue or in a hand, and `JInv` that the job
of a coroutine is `Active` in one coroutine at most and waits in no queue then.

*Coroutine.* `Inv` says that a coroutine in `RUNN` has one thread (`OneThread`:
it runs there, or that thread will go back to it) and that a thread which runs a
coroutine has called `setMain` (`ContextSet`). One lemma treats `resume`, one
the two ways to leave a coroutine. For the counts, `SumFunction` is shown to be
the sum that takes the threads one by one (`FoldIsSum`), so a step changes it by
what it changes at its own thread (`SumChanges`); the rest is arithmetic of
remainders (`ModSucc`, `ModPred`).

*Queue.* What the variables show is not inductive, for a thread may hold nodes
that left the list long ago. `Good(c, pos, n)` supplies the past: `c` lists the
nodes linked so far, deleted ones included, `pos` gives a node's place among them.
`Chain` says that `next` leads from each to the one behind; `Ends` that `tail`
is at the last or the last but one, and `head` not behind it; `Memory` and
`Distinct` who accounts for a live node; `Local` what each thread knows of what
it has read, by place: a successor that it saw is the successor for ever, since
no step changes a `next` that is not null. While memory is not reused, every
address in the chain has been handed out for good (`Placed`), so a new node is
none of them and an exchange that succeeds compares what it seems to
(`ManyInv`). With one producer and one consumer (`PairInv`) the nodes before
`head` are forgotten at each step (`Drop`), so that their addresses may come
back: the `head` the consumer has read and the `tail` the producer has read
are the present ones (`Paired`), and the rest of the chain is live. `Paired` needs
strong exchanges: the producer's last one must not fail, or `tail` lags
for good. With reuse and a second consumer `NoUseAfterFree` fails (`QueueFreed`),
so the hypotheses cannot be dropped. For the refinement
`Items` is the part of the chain behind `head`; the steps that take effect
are `Link`, `MoveHead`, and the tests that find the queue empty, and `seen`
remembers for an answer that the queue was as it says at a moment of the call.

*Thread.* `Inv` describes the `Life` of each object: how far its construction
is and who holds the callable (`Construction`, `Callable`), what `m_state` tells
of the thread and of POSIX's handle (`StateTells`, `HandleTells`). A
thread that touches an object which is not there is detached, or is the `Orphan` of
a constructor that threw. `Frame` lets steps for one object leave the others
alone.

*Logging.* A load never has the root logger at hand (`LoadOK`), and the client
keeps it `TakesAll`, valid with an appender of level `UNKNOW`, unless it calls what
`RootSpoiled` names. `SetKeeps` and `GetLoggerKeeps` are the two ways in which
loggers change. `PrintOK` says that every appender, the one in the making
included, has a layout or will get one: a logger that a load adds to has a layout,
and the client gave it one before (`LayoutAssumption`).
`ValidIsWhole` needs to know what a logger is like before it is valid: `WInv` says
that the one a load has at hand is what its steps so far have made of it
(`HalfDone`: invalid, then with each field set in turn, its appenders being what
became of a prefix of those due), that every valid one is as some configuration
says or set by hand (`Whole`), and that outside of a load those that are neither
`behind` nor `byHand` are as the value says (`Settled`). `MadeOf` describes the
appenders as an increasing choice of positions in the configuration, as the loop of
`setupLogger` takes them, that leaves out the `skipped` ones and no other; the same
appender may be listed twice.

*Layout.* `Spelled` says which part of the pattern the items stand for in each
state, one "%" less while a directive is being made; `Clean` what texts and
arguments do not contain, which `Find` ensures. That one more item adds one piece
(`PiecesAppend`) is shown from the recursive function that defines `FlattenSeq`.

*Config.* `LockHeld` and `VarHeld` say who holds which lock at which point of a
call; with them `NoDeadlock` is short: who holds a variable waits for nobody,
so no one waits for a variable, so the load that holds Config does not wait, so
neither does anyone else. `Told` says what a listener knows while its variable is
being set: the value that is about to be assigned. What decoders answer does
not matter.

*Induction.* The induction theorems of the library take an operator as a
parameter, which the provers cannot instantiate. `Induction` states the principle
for a set of numbers instead, and proves it from the well-foundedness of
strict inclusion among finite sets. With it the proofs above treat recursive
functions: the nodes of the list, the sum of the counts, `FlattenSeq`.

Out of the prover's reach, and left to TLC: liveness under fairness and
`ENABLED` (`EnqueuedJobEnds`, `StopReturns`, `EveryCallReturns`, `CallsReturn`,
`MessageEnds`). Only model-checked so far: `IsSettings` and `ReloadIsQuiet`, which
rest on what `Yaml` decodes and traverses. No module declares a `RECURSIVE`
operator.

## 6. What is not modelled

- Weak memory: the queue gives its accesses explicit orders (relaxed, acquire,
  release; `lockfreequeue.h:34-106`), and is modelled as if all were sequentially
  consistent, so reorderings that these orders allow are not covered. Plain
  accesses that race (`m_state`) are modelled as single accesses.
- Tasks that a client builds from a coroutine of its own; concurrent `start` and
  `stop`; a task that calls `stop`, whose worker would join itself and make
  `Thread::join` throw.
- The destructor of the queue, which runs when no one else uses it.
- What a layout prints of an event, and `Event` itself: formatting.
- The setters without effect: `m_pattern` of a logger is never read, and
  `delAppender` takes a `unique_ptr`, which equals none in the list. Getters.
- `Mutex`, `SpinLock` and the Null variants as such: a lock that is held is one
  action, except in `Config`, where `RWMutex` is modelled.
- Conversions of YAML scalars by yaml-cpp itself (text is an integer or not),
  and files: a file is its tree.
- A listener that reads or sets variables; a client that calls the public
  `setValue` itself, which takes no lock (`config.h:233`: the model has it
  as `fromString` and `fromNode` call it, under the variable's lock); `Create`
  after `main` has begun.
- `Scheduler` with a `Thread` whose constructor throws after its thread has begun.
- Utilities (system calls, backtraces), macros other than those for logging, the
  build.

## 7. Plan

Done: all components with state of their own; the refinements of `FifoQueue` and
of `Settings`; the proofs of section 5. Left, in order:

1. `Config`: the refinement of `Settings` step by step, and `ReloadIsQuiet`.
2. Tasks that clients build from coroutines, composed with `Coroutine`.
