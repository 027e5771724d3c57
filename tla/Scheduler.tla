------------------------------ MODULE Scheduler ------------------------------
(***************************************************************************)
(* qc::scheduler::Scheduler: worker threads that run scheduled tasks as    *)
(* coroutines.  A task is a callable (a job) or a suspended coroutine.     *)
(* Each worker looks for a task in its own queue, then in the global one,  *)
(* then in the queues of the other workers; runs it in a coroutine taken   *)
(* from a shared pool or newly created; and gives the coroutine back to    *)
(* the pool when its callable has ended, or to its own queue when the      *)
(* callable yielded.  stop() makes every worker drain the queues and exit. *)
(*                                                                         *)
(* One action is one access to memory that threads share.  The queues are  *)
(* sequences here: that LockFreeQueue implements them, and when it does    *)
(* not, is the matter of module LockFreeQueue.                             *)
(***************************************************************************)
EXTENDS Integers, Sequences

CONSTANTS
  ThreadCount,  \* m_threads_count
  Client,       \* threads outside the scheduler that call execute()
  Job,          \* the callables that may be scheduled, each at most once
  MaxCoro,      \* bound: number of coroutines ever created; |Job| is enough
  Global,       \* the queue m_global_tasks
  Pool,         \* the queue m_coro_pool
  None,         \* no item: a null pointer
  MaxYields,    \* bound: how often one job may yield
  MaxStarts,    \* bound: how often start() is called
  Index,        \* the values of thread_idx that callers pass
  Outcomes      \* how a job's callable may end: "return", "std", "unknown"

Worker == 0 .. ThreadCount - 1
Queue  == Worker \cup {Global, Pool}
Thread == Worker \cup Client
Coro   == 1 .. MaxCoro
Item   == Job \cup Coro

ASSUME ThreadCountAssumption == ThreadCount \in Nat \ {0}
ASSUME BoundsAssumption == MaxCoro \in Nat /\ MaxYields \in Nat /\ MaxStarts \in Nat
ASSUME OutcomesAssumption == Outcomes \subseteq {"return", "std", "unknown"}
ASSUME IndexAssumption == Index \subseteq -1 .. ThreadCount
ASSUME DistinctAssumption ==
  /\ Global # Pool
  /\ {Global, Pool} \cap Worker = {}
  /\ Client \cap Worker = {}
  /\ Job \cap Coro = {}
  /\ None \notin Item

VARIABLES
  m_stopped,    \* atomic flag of the scheduler
  queue,        \* contents of every LockFreeQueue of the scheduler
  coro_id,      \* number of coroutines created so far; the last one's id
  status,       \* m_status of a coroutine, "NONE" before it is created
  m_cb,         \* the job a coroutine was created or reset for
  t_cur_coro,   \* thread-local current coroutine of a worker
  pc,           \* where a worker is
  draining,     \* the worker has left the loop that tests m_stopped
  scan,         \* how far pickTask has looked
  held,         \* the task or coroutine in the worker's local variables
  call,         \* the execute() call a thread is in
  thread_idx,   \* Task::thread_idx given with a job
  ctl,          \* where the thread that owns the scheduler is
  cursor,       \* loop index of start() and of stop()
  starts,       \* number of start() calls so far (bounded by MaxStarts)
  yields,       \* number of times a job has yielded (bounded by MaxYields)
  submitted,    \* history: jobs given to execute()
  late,         \* history: jobs enqueued while m_stopped was set
  done,         \* history: jobs whose callable has ended
  crashed       \* why the process died, or None

workerVars  == <<pc, draining, scan, held, t_cur_coro>>
coroVars    == <<coro_id, status, m_cb, yields, done>>
executeVars == <<call, thread_idx, submitted, late>>
ownerVars   == <<m_stopped, ctl, cursor, starts>>
vars == <<queue, workerVars, coroVars, executeVars, ownerVars, crashed>>

-----------------------------------------------------------------------------
NoCall == [at |-> "idle", job |-> None]

PC == {"none", "test", "peek", "take", "wait", "idle", "reuse",
       "resume", "run", "back", "exit"}
Status == {"NONE", "RADY", "RUNN", "SUSP", "DEAD", "ECPT"}
Crash  == {"null coroutine", "bad reset", "bad resume", "null thread"}
Finished == {"DEAD", "ECPT"}

TypeOK ==
  /\ m_stopped \in BOOLEAN
  /\ queue \in [Queue -> Seq(Item)]
  /\ coro_id \in 0 .. MaxCoro
  /\ status \in [Coro -> Status]
  /\ m_cb \in [Coro -> Job \cup {None}]
  /\ t_cur_coro \in [Worker -> Coro \cup {None}]
  /\ pc \in [Worker -> PC]
  /\ draining \in [Worker -> BOOLEAN]
  /\ scan \in [Worker -> 0 .. ThreadCount]
  /\ held \in [Worker -> Item \cup {None}]
  /\ call \in [Thread -> [at : {"idle", "enqueue", "notify"}, job : Job \cup {None}]]
  /\ thread_idx \in [Job -> -1 .. ThreadCount]
  /\ ctl \in {"stopped", "starting", "started", "notify", "joining"}
  /\ cursor \in Worker
  /\ starts \in 0 .. MaxStarts
  /\ yields \in [Job -> 0 .. MaxYields]
  /\ submitted \subseteq Job /\ late \subseteq Job /\ done \subseteq Job
  /\ crashed \in Crash \cup {None}

Init ==
  /\ m_stopped = TRUE
  /\ queue = [q \in Queue |-> <<>>]
  /\ coro_id = 0
  /\ status = [c \in Coro |-> "NONE"]
  /\ m_cb = [c \in Coro |-> None]
  /\ t_cur_coro = [w \in Worker |-> None]
  /\ pc = [w \in Worker |-> "none"]
  /\ draining = [w \in Worker |-> FALSE]
  /\ scan = [w \in Worker |-> 0]
  /\ held = [w \in Worker |-> None]
  /\ call = [t \in Thread |-> NoCall]
  /\ thread_idx = [j \in Job |-> -1]
  /\ ctl = "stopped"
  /\ cursor = 0
  /\ starts = 0
  /\ yields = [j \in Job |-> 0]
  /\ submitted = {} /\ late = {} /\ done = {}
  /\ crashed = None

-----------------------------------------------------------------------------
(* Operations on the queues.                                               *)

Enqueue(q, x) == queue' = [queue EXCEPT ![q] = Append(@, x)]
DequeueKeeps(q) == UNCHANGED queue  \* mutant of Dequeue: the item stays
Dequeue(q)    == queue' = [queue EXCEPT ![q] = Tail(@)]
IsEmpty(q)    == queue[q] = <<>>

Goto(w, label) == pc' = [pc EXCEPT ![w] = label]

-----------------------------------------------------------------------------
(* The condition variable m_cv.  Every wait is timed, and wait_for hands   *)
(* pthread_cond_timedwait the timeout as an absolute time, one that lies   *)
(* long in the past: a waiter may always go on (WaitTimeout).              *)

NotifyAll ==
  pc' = [w \in Worker |-> IF pc[w] = "wait" THEN "test" ELSE pc[w]]

WaitTimeout(w) ==
  /\ pc[w] = "wait"
  /\ Goto(w, "test")
  /\ UNCHANGED <<queue, draining, scan, held, t_cur_coro, coroVars,
                 executeVars, ownerVars, crashed>>

-----------------------------------------------------------------------------
(* execute(), called by a client or by a job that runs on a worker.        *)

Target(idx) == IF idx \in Worker THEN idx ELSE Global

MayCall(t) ==
  /\ call[t].at = "idle"
  /\ t \in Worker => pc[t] = "run"

ExecuteRejected(t, j) ==
  /\ MayCall(t)
  /\ j \notin submitted
  /\ m_stopped
  /\ submitted' = submitted \cup {j}
  /\ UNCHANGED <<queue, workerVars, coroVars, call, thread_idx, late,
                 ownerVars, crashed>>

ExecuteAccepted(t, j, idx) ==
  /\ MayCall(t)
  /\ j \notin submitted
  /\ ~ m_stopped
  /\ submitted' = submitted \cup {j}
  /\ thread_idx' = [thread_idx EXCEPT ![j] = idx]
  /\ call' = [call EXCEPT ![t] = [at |-> "enqueue", job |-> j]]
  /\ UNCHANGED <<queue, workerVars, coroVars, late, ownerVars, crashed>>

\* m_stopped is not read again: stop() may have come in between.
ExecuteEnqueue(t) ==
  /\ call[t].at = "enqueue"
  /\ LET j == call[t].job IN
       /\ Enqueue(Target(thread_idx[j]), j)
       /\ late' = IF m_stopped THEN late \cup {j} ELSE late
  /\ call' = [call EXCEPT ![t] = [at |-> "notify", job |-> None]]
  /\ UNCHANGED <<workerVars, coroVars, thread_idx, submitted, ownerVars, crashed>>

ExecuteNotify(t) ==
  /\ call[t].at = "notify"
  /\ NotifyAll
  /\ call' = [call EXCEPT ![t] = NoCall]
  /\ UNCHANGED <<queue, draining, scan, held, t_cur_coro, coroVars,
                 thread_idx, submitted, late, ownerVars, crashed>>

-----------------------------------------------------------------------------
(* pickTask(): the own queue, the global one, then the others in turn.     *)
(* Each queue is asked whether it is empty and only then dequeued from.    *)

Victim(w, i) == IF w + i < ThreadCount THEN w + i ELSE w + i - ThreadCount

SourceNoGlobal(w) == Victim(w, scan[w])  \* mutant of Source: workers' queues only
Source(w) ==
  IF scan[w] = 0 THEN w
  ELSE IF scan[w] = 1 THEN Global
  ELSE Victim(w, scan[w] - 1)

LastSourceLate(w) == scan[w] > ThreadCount  \* mutant of LastSource: off by one
LastSource(w) == scan[w] = ThreadCount

\* run(): the test of the first loop; once it fails the worker drains.
TestStopped(w) ==
  /\ pc[w] = "test"
  /\ draining' = [draining EXCEPT ![w] = m_stopped]
  /\ scan' = [scan EXCEPT ![w] = 0]
  /\ Goto(w, "peek")
  /\ UNCHANGED <<queue, held, t_cur_coro, coroVars, executeVars, ownerVars, crashed>>

\* Where run() goes when pickTask returned null.
NoTaskWaits(w) == Goto(w, "wait")  \* mutant of NoTask: the drain never ends
NoTask(w) == Goto(w, IF draining[w] THEN "exit" ELSE "wait")

PeekEmpty(w) ==
  /\ pc[w] = "peek"
  /\ IsEmpty(Source(w))
  /\ IF LastSource(w)
       THEN NoTask(w) /\ UNCHANGED scan
       ELSE scan' = [scan EXCEPT ![w] = @ + 1] /\ UNCHANGED pc
  /\ UNCHANGED <<queue, draining, held, t_cur_coro, coroVars, executeVars,
                 ownerVars, crashed>>

PeekNonEmpty(w) ==
  /\ pc[w] = "peek"
  /\ ~ IsEmpty(Source(w))
  /\ Goto(w, "take")
  /\ UNCHANGED <<queue, draining, scan, held, t_cur_coro, coroVars, executeVars,
                 ownerVars, crashed>>

\* The queue may have been emptied since: then pickTask returns null at once.
TakeNothing(w) ==
  /\ pc[w] = "take"
  /\ IsEmpty(Source(w))
  /\ NoTask(w)
  /\ UNCHANGED <<queue, draining, scan, held, t_cur_coro, coroVars, executeVars,
                 ownerVars, crashed>>

TakeTask(w) ==
  /\ pc[w] = "take"
  /\ ~ IsEmpty(Source(w))
  /\ LET x == Head(queue[Source(w)]) IN
       /\ held' = [held EXCEPT ![w] = x]
       /\ Goto(w, IF x \in Job THEN "idle" ELSE "resume")
  /\ Dequeue(Source(w))
  /\ UNCHANGED <<draining, scan, t_cur_coro, coroVars, executeVars, ownerVars, crashed>>

-----------------------------------------------------------------------------
(* getIdleCoroutine(): a pooled coroutine, reset for the job, or a new one.*)

\* The constructor leaves the new coroutine in RADY.
CreateCoroutine(w) ==
  /\ pc[w] = "idle"
  /\ IsEmpty(Pool)
  /\ coro_id < MaxCoro
  /\ coro_id' = coro_id + 1
  /\ status' = [status EXCEPT ![coro_id + 1] = "RADY"]
  /\ m_cb' = [m_cb EXCEPT ![coro_id + 1] = held[w]]
  /\ held' = [held EXCEPT ![w] = coro_id + 1]
  /\ Goto(w, "resume")
  /\ UNCHANGED <<queue, draining, scan, t_cur_coro, yields, done, executeVars,
                 ownerVars, crashed>>

PoolNonEmpty(w) ==
  /\ pc[w] = "idle"
  /\ ~ IsEmpty(Pool)
  /\ Goto(w, "reuse")
  /\ UNCHANGED <<queue, draining, scan, held, t_cur_coro, coroVars, executeVars,
                 ownerVars, crashed>>

\* The pool may have been emptied since: reset() is called on a null pointer.
ReuseNothing(w) ==
  /\ pc[w] = "reuse"
  /\ IsEmpty(Pool)
  /\ crashed' = "null coroutine"
  /\ UNCHANGED <<queue, workerVars, coroVars, executeVars, ownerVars>>

\* mutant of ReuseFor: reset() keeps the old callable
ReuseKeepingJob(w, c) ==
  /\ status' = [status EXCEPT ![c] = "RADY"]
  /\ held' = [held EXCEPT ![w] = c]
  /\ UNCHANGED m_cb

ReuseFor(w, c) ==
  /\ status' = [status EXCEPT ![c] = "RADY"]
  /\ m_cb' = [m_cb EXCEPT ![c] = held[w]]
  /\ held' = [held EXCEPT ![w] = c]

\* Coroutine::reset, which asserts that the coroutine is not in RUNN.
ReuseCoroutine(w) ==
  /\ pc[w] = "reuse"
  /\ ~ IsEmpty(Pool)
  /\ LET c == Head(queue[Pool]) IN
       IF status[c] = "RUNN"
         THEN /\ crashed' = "bad reset"
              /\ UNCHANGED <<status, m_cb, held, pc>>
         ELSE ReuseFor(w, c) /\ Goto(w, "resume") /\ UNCHANGED crashed
  /\ Dequeue(Pool)
  /\ UNCHANGED <<draining, scan, t_cur_coro, coro_id, yields, done, executeVars,
                 ownerVars>>

-----------------------------------------------------------------------------
(* Running a coroutine.                                                    *)

Resume(w) ==
  /\ pc[w] = "resume"
  /\ LET c == held[w] IN
       IF status[c] \in {"RADY", "SUSP"}
         THEN /\ status' = [status EXCEPT ![c] = "RUNN"]
              /\ t_cur_coro' = [t_cur_coro EXCEPT ![w] = c]
              /\ Goto(w, "run")
              /\ UNCHANGED crashed
         ELSE /\ crashed' = "bad resume"
              /\ UNCHANGED <<status, t_cur_coro, pc>>
  /\ UNCHANGED <<queue, draining, scan, held, coro_id, m_cb, yields, done,
                 executeVars, ownerVars>>

\* mutant of SwitchBack: without setThis(nullptr)
SwitchBackStale(w, s) ==
  /\ pc[w] = "run"
  /\ call[w].at = "idle"
  /\ status' = [status EXCEPT ![t_cur_coro[w]] = s]
  /\ Goto(w, "back")
  /\ UNCHANGED <<queue, draining, scan, held, t_cur_coro, coro_id, m_cb,
                 executeVars, ownerVars, crashed>>

\* Control passes from the current coroutine back to run().
SwitchBack(w, s) ==
  /\ pc[w] = "run"
  /\ call[w].at = "idle"
  /\ status' = [status EXCEPT ![t_cur_coro[w]] = s]
  /\ t_cur_coro' = [t_cur_coro EXCEPT ![w] = None]
  /\ Goto(w, "back")
  /\ UNCHANGED <<queue, draining, scan, held, coro_id, m_cb, executeVars,
                 ownerVars, crashed>>

Yield(w) ==
  LET j == m_cb[t_cur_coro[w]] IN
    /\ SwitchBack(w, "SUSP")
    /\ yields[j] < MaxYields
    /\ yields' = [yields EXCEPT ![j] = @ + 1]
    /\ UNCHANGED done

\* trampoline(): the status left behind by each way the callable can end;
\* what is not a std::exception is caught without a change of status.
EndStatus(outcome) ==
  CASE outcome = "return"  -> "DEAD"
    [] outcome = "std"     -> "ECPT"
    [] outcome = "unknown" -> "RUNN"

EndJob(w) ==
  /\ \E outcome \in Outcomes : SwitchBack(w, EndStatus(outcome))
  /\ done' = done \cup {m_cb[t_cur_coro[w]]}
  /\ UNCHANGED yields

HomeIsPool(w, c) == Pool  \* mutant of Home: the status is not tested
Home(w, c) == IF status[c] \in Finished THEN Pool ELSE w

DrainsOne(w) == Goto(w, IF draining[w] THEN "exit" ELSE "test")  \* mutant of NextRound
NextRound(w) == Goto(w, IF draining[w] THEN "peek" ELSE "test")

\* run() after resume(): an ended coroutine is pooled, another one queued.
PutBack(w) ==
  /\ pc[w] = "back"
  /\ Enqueue(Home(w, held[w]), held[w])
  /\ held' = [held EXCEPT ![w] = None]
  /\ scan' = [scan EXCEPT ![w] = 0]
  /\ NextRound(w)
  /\ UNCHANGED <<draining, t_cur_coro, coroVars, executeVars, ownerVars, crashed>>

-----------------------------------------------------------------------------
(* start() and stop(), called by the thread that owns the scheduler.       *)

OwnerStep(from, to) == ctl = from /\ ctl' = to

\* cursor runs over the workers; after the last one ctl moves on.
NextWorker(to) ==
  IF cursor = ThreadCount - 1
    THEN cursor' = 0 /\ ctl' = to
    ELSE cursor' = cursor + 1 /\ UNCHANGED ctl

Start ==
  /\ OwnerStep("stopped", "starting")
  /\ starts < MaxStarts
  /\ m_stopped' = FALSE
  /\ starts' = starts + 1
  /\ UNCHANGED <<queue, workerVars, coroVars, executeVars, cursor, crashed>>

\* The Thread constructor returns when the new thread has begun.
StartThread ==
  /\ ctl = "starting"
  /\ Goto(cursor, "test")
  /\ NextWorker("started")
  /\ UNCHANGED <<queue, draining, scan, held, t_cur_coro, coroVars, executeVars,
                 m_stopped, starts, crashed>>

\* The constructor of a Thread throws, when pthread_create fails, and start()
\* with it: the pointers not yet assigned stay null, m_stopped stays clear.
StartFails ==
  /\ OwnerStep("starting", "started")
  /\ cursor' = 0
  /\ UNCHANGED <<queue, workerVars, coroVars, executeVars, m_stopped, starts, crashed>>

Stop ==
  /\ OwnerStep("started", "notify")
  /\ m_stopped' = TRUE
  /\ UNCHANGED <<queue, workerVars, coroVars, executeVars, cursor, starts, crashed>>

StopNotify ==
  /\ OwnerStep("notify", "joining")
  /\ NotifyAll
  /\ UNCHANGED <<queue, draining, scan, held, t_cur_coro, coroVars, executeVars,
                 m_stopped, cursor, starts, crashed>>

\* After the last join m_threads is cleared.
JoinThread ==
  /\ ctl = "joining"
  /\ pc[cursor] = "exit"
  /\ Goto(cursor, "none")
  /\ NextWorker("stopped")
  /\ UNCHANGED <<queue, draining, scan, held, t_cur_coro, coroVars, executeVars,
                 m_stopped, starts, crashed>>

\* join() is called on the null pointer that a failed start() left.
JoinNull ==
  /\ ctl = "joining"
  /\ pc[cursor] = "none"
  /\ crashed' = "null thread"
  /\ UNCHANGED <<queue, workerVars, coroVars, executeVars, ownerVars>>

-----------------------------------------------------------------------------
ExecuteBegin(t) ==
  \E j \in Job : \/ ExecuteRejected(t, j)
                 \/ \E idx \in Index : ExecuteAccepted(t, j, idx)

ExecuteEnd(t) == ExecuteEnqueue(t) \/ ExecuteNotify(t)

WorkerStep(w) ==
  \/ TestStopped(w) \/ WaitTimeout(w)
  \/ PeekEmpty(w) \/ PeekNonEmpty(w) \/ TakeNothing(w) \/ TakeTask(w)
  \/ CreateCoroutine(w) \/ PoolNonEmpty(w) \/ ReuseNothing(w) \/ ReuseCoroutine(w)
  \/ Resume(w) \/ Yield(w) \/ EndJob(w) \/ PutBack(w)

Owner ==
  \/ Start \/ StartThread \/ StartFails
  \/ Stop \/ StopNotify \/ JoinThread \/ JoinNull

Running ==
  /\ crashed = None
  /\ \/ \E w \in Worker : WorkerStep(w)
     \/ \E t \in Thread : ExecuteBegin(t) \/ ExecuteEnd(t)
     \/ Owner

\* The owner has stopped the scheduler for good, or the process is dead.
Over ==
  /\ crashed # None \/ (ctl = "stopped" /\ starts = MaxStarts)
  /\ UNCHANGED vars

Next == Running \/ Over

Spec == Init /\ [][Next]_vars

(* Each thread gets to run, and a callable that runs ends or yields: the   *)
(* operating system schedules every thread.  Nobody has to call execute(), *)
(* start() or stop().                                                      *)
Fairness ==
  /\ \A w \in Worker : WF_vars(crashed = None /\ WorkerStep(w))
  /\ \A t \in Thread : WF_vars(crashed = None /\ ExecuteEnd(t))
  /\ WF_vars(crashed = None /\ (StartThread \/ StopNotify \/ JoinThread \/ JoinNull))

FairSpec == Spec /\ Fairness

-----------------------------------------------------------------------------
TaskQueue == Worker \cup {Global}

Queued(x, q) == \E i \in 1 .. Len(queue[q]) : queue[q][i] = x

(* An item is in at most one place: one position of one queue, or in the   *)
(* hands of one worker.  Hence no coroutine is resumed by two workers, and *)
(* no job starts twice, however tasks are stolen (scheduler.cpp:78-139).   *)
OnePlace ==
  /\ \A q1, q2 \in Queue : \A i \in 1 .. Len(queue[q1]), k \in 1 .. Len(queue[q2]) :
       queue[q1][i] = queue[q2][k] => q1 = q2 /\ i = k
  /\ \A w \in Worker, q \in Queue : held[w] # None => ~ Queued(held[w], q)
  /\ \A v, w \in Worker : held[v] = held[w] /\ held[v] # None => v = w

(* A callable that has ended is never entered again: a pooled coroutine    *)
(* runs the job it was reset for, however often it is passed around        *)
(* (scheduler.cpp:69-76, coroutine.cpp:81-96).                             *)
NoRerun ==
  [][\A w \in Worker :
       pc[w] = "resume" /\ pc'[w] = "run" => m_cb[held[w]] \notin done]_vars

(* The assertion in Coroutine::reset (coroutine.cpp:82) never fires: what  *)
(* the pool holds has ended, even while jobs end in every possible way.    *)
PoolFinished == \A c \in Coro : Queued(c, Pool) => status[c] \in Finished

(* Two workers never run one coroutine at a time, and the thread-local     *)
(* current coroutine, which getThis()->yield() acts on, is the one that    *)
(* run() resumed and will put back (coroutine.cpp:59-79).                  *)
CurrentIsHeld ==
  \A w \in Worker :
    IF pc[w] = "run" THEN t_cur_coro[w] = held[w] /\ status[held[w]] = "RUNN"
                     ELSE t_cur_coro[w] = None

(* When stop() has returned, what is still queued was enqueued by a call   *)
(* of execute() that overlapped with stop(): the drain loop of each worker *)
(* (scheduler.cpp:141-159), which gives up as soon as one dequeue fails,   *)
(* leaves no other task behind.                                            *)
DrainComplete ==
  ctl = "stopped" /\ crashed = None =>
    \A q \in TaskQueue : \A i \in 1 .. Len(queue[q]) : queue[q][i] \in late

(* When stop() has returned every coroutine has ended, so destroying the   *)
(* scheduler with its queues does not trip the assertion of ~Coroutine     *)
(* (coroutine.cpp:32).                                                     *)
StopEndsCoroutines ==
  ctl = "stopped" /\ crashed = None =>
    \A c \in Coro : status[c] \in Finished \cup {"NONE"}

(* What is enqueued before stop() is run to its end, whatever wake-up is   *)
(* lost between pickTask and the wait (scheduler.cpp:115-119), and whatever*)
(* threads start() failed to create (scheduler.cpp:38), if there is one:   *)
(* a task meant for a missing thread is stolen by another.                 *)
NoWorker == ctl = "started" /\ \A w \in Worker : pc[w] = "none"

EnqueuedJobEnds ==
  \A j \in Job :
    (\E q \in TaskQueue : Queued(j, q))
      ~> (j \in done \cup late \/ crashed # None \/ NoWorker)

(* stop() returns: every worker leaves the drain loop (scheduler.cpp:43).  *)
StopReturns == (ctl = "notify") ~> (ctl = "stopped" \/ crashed # None)

(* No worker calls a member of the null coroutine (scheduler.cpp:70-72).   *)
NoNullCoroutine == crashed # "null coroutine"

(* The assertion at the head of Coroutine::resume (coroutine.cpp:60).      *)
ResumeStatusOK == crashed # "bad resume"
=============================================================================
