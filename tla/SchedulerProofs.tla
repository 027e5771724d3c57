--------------------------- MODULE SchedulerProofs ---------------------------
(***************************************************************************)
(* Theorems about Scheduler, for any number of workers, clients and jobs:  *)
(* where tasks are; and what becomes of them: stop() leaves none behind,   *)
(* no coroutine is lost, and no job is run twice.                          *)
(*                                                                         *)
(* Inv is the inductive invariant.  OnePlace alone is not inductive: that  *)
(* a job enters a queue only once needs to know of the calls under way,    *)
(* that a new coroutine is nowhere yet needs its number, and that a thread *)
(* holds nothing where it is started or joined needs the owner's position. *)
(***************************************************************************)
EXTENDS Scheduler, TLAPS

-----------------------------------------------------------------------------
(* The queues as a set of places.  Steps reason about In only; what        *)
(* Append and Tail do to it is in EnqueueLemma and DequeueLemma.           *)

In(x, q, Q) == \E i \in 1 .. Len(Q[q]) : Q[q][i] = x

Apart(Q) ==
  \A q1, q2 \in Queue : \A i \in 1 .. Len(Q[q1]), k \in 1 .. Len(Q[q2]) :
    Q[q1][i] = Q[q2][k] => q1 = q2 /\ i = k

HasJob(label)  == label \in {"idle", "reuse"}
HasCoro(label) == label \in {"resume", "run", "back"}

-----------------------------------------------------------------------------
(* The conjuncts of the inductive invariant.                               *)

\* What a worker holds follows from where it is.
HeldTyped ==
  \A w \in Worker :
    /\ HasJob(pc[w]) => held[w] \in Job
    /\ HasCoro(pc[w]) => held[w] \in Coro
    /\ ~ HasJob(pc[w]) /\ ~ HasCoro(pc[w]) => held[w] = None

\* Where start() and stop() are tells which threads exist.
ThreadsExist ==
  /\ ctl \notin {"starting", "joining"} => cursor = 0
  /\ ctl = "stopped" => \A w \in Worker : pc[w] = "none"
  /\ ctl = "starting" => \A w \in Worker : w >= cursor => pc[w] = "none"
  /\ ctl = "joining" => \A w \in Worker : w < cursor => pc[w] = "none"

HeldNotQueued ==
  \A w \in Worker, q \in Queue : held[w] # None => ~ In(held[w], q, queue)

HeldOnce == \A v, w \in Worker : held[v] = held[w] /\ held[v] # None => v = w

\* A job that execute() is about to enqueue is nowhere else.
CalledNowhere ==
  \A t \in Thread : call[t].at = "enqueue" =>
    /\ call[t].job \in submitted
    /\ \A q \in Queue : ~ In(call[t].job, q, queue)
    /\ \A w \in Worker : held[w] # call[t].job
    /\ \A u \in Thread : call[u].at = "enqueue" /\ call[u].job = call[t].job => u = t

PlacedSubmitted ==
  \A j \in Job :
    /\ \A q \in Queue : In(j, q, queue) => j \in submitted
    /\ \A w \in Worker : held[w] = j => j \in submitted

\* Coroutines are numbered in the order of their creation.
Numbered == \A c \in Coro : c > coro_id <=> status[c] = "NONE"

PlacedCreated ==
  \A c \in Coro :
    /\ \A q \in Queue : In(c, q, queue) => status[c] # "NONE"
    /\ \A w \in Worker : held[w] = c => status[c] # "NONE"

HasCallback == \A c \in Coro : status[c] # "NONE" => m_cb[c] \in Job

PoolEnded ==
  \A x \in Item : In(x, Pool, queue) => x \in Coro /\ status[x] \in Finished

Places == Apart(queue) /\ HeldNotQueued /\ HeldOnce /\ CalledNowhere /\ PlacedSubmitted
Coros  == Numbered /\ PlacedCreated /\ HasCallback /\ PoolEnded
Inv == TypeOK /\ HeldTyped /\ ThreadsExist /\ CurrentIsHeld /\ Places /\ Coros

-----------------------------------------------------------------------------
(* Enqueueing an item that is nowhere adds it to one queue; the queues     *)
(* stay apart (LockFreeQueue::enqueue as modelled by Enqueue).             *)
LEMMA EnqueueLemma ==
  ASSUME queue \in [Queue -> Seq(Item)], Apart(queue),
         NEW x \in Item, \A p \in Queue : ~ In(x, p, queue),
         NEW q \in Queue, Enqueue(q, x)
  PROVE  /\ queue' \in [Queue -> Seq(Item)]
         /\ Apart(queue')
         /\ \A y : \A p \in Queue :
              In(y, p, queue') <=> In(y, p, queue) \/ (y = x /\ p = q)
  <1> USE DEF Enqueue
  <1>1. queue' \in [Queue -> Seq(Item)]
    OBVIOUS
  <1>2. Len(queue'[q]) = Len(queue[q]) + 1 /\ Len(queue[q]) \in Nat
    OBVIOUS
  <1>3. /\ \A i \in 1 .. Len(queue[q]) : queue'[q][i] = queue[q][i]
        /\ queue'[q][Len(queue[q]) + 1] = x
    OBVIOUS
  <1>4. \A p \in Queue : p # q => queue'[p] = queue[p]
    OBVIOUS
  <1>5. \A y : \A p \in Queue : In(y, p, queue') <=> In(y, p, queue) \/ (y = x /\ p = q)
    <2> SUFFICES ASSUME NEW y, NEW p \in Queue
                 PROVE  In(y, p, queue') <=> In(y, p, queue) \/ (y = x /\ p = q)
      OBVIOUS
    <2>1. CASE p # q
      BY <1>4, <2>1 DEF In
    <2>2. CASE p = q
      BY <1>2, <1>3, <2>2 DEF In
    <2> QED BY <2>1, <2>2
  <1>6. Apart(queue')
    <2> SUFFICES ASSUME NEW q1 \in Queue, NEW q2 \in Queue,
                        NEW i \in 1 .. Len(queue'[q1]), NEW k \in 1 .. Len(queue'[q2]),
                        queue'[q1][i] = queue'[q2][k]
                 PROVE  q1 = q2 /\ i = k
      BY DEF Apart
    <2>1. CASE queue'[q1][i] = x
      <3>1. q1 = q /\ i = Len(queue[q]) + 1
        BY <1>2, <1>3, <1>4, <2>1 DEF In
      <3>2. q2 = q /\ k = Len(queue[q]) + 1
        BY <1>2, <1>3, <1>4, <2>1 DEF In
      <3> QED BY <3>1, <3>2
    <2>2. CASE queue'[q1][i] # x
      <3>1. i \in 1 .. Len(queue[q1]) /\ queue'[q1][i] = queue[q1][i]
        BY <1>2, <1>3, <1>4, <2>2
      <3>2. k \in 1 .. Len(queue[q2]) /\ queue'[q2][k] = queue[q2][k]
        BY <1>2, <1>3, <1>4, <2>2
      <3> QED BY <3>1, <3>2 DEF Apart
    <2> QED BY <2>1, <2>2
  <1> QED BY <1>1, <1>5, <1>6

(* Dequeueing takes the first item of a queue, which then is nowhere; the  *)
(* queues stay apart (LockFreeQueue::dequeue as modelled by Dequeue).      *)
LEMMA DequeueLemma ==
  ASSUME queue \in [Queue -> Seq(Item)], Apart(queue),
         NEW q \in Queue, ~ IsEmpty(q), Dequeue(q)
  PROVE  /\ queue' \in [Queue -> Seq(Item)]
         /\ Apart(queue')
         /\ Head(queue[q]) \in Item
         /\ In(Head(queue[q]), q, queue)
         /\ \A y : \A p \in Queue :
              In(y, p, queue') <=> In(y, p, queue) /\ y # Head(queue[q])
  <1> USE DEF Dequeue, IsEmpty
  <1> DEFINE x == Head(queue[q])
  <1>1. queue' \in [Queue -> Seq(Item)]
    OBVIOUS
  <1>2. Len(queue[q]) \in Nat \ {0} /\ Len(queue'[q]) = Len(queue[q]) - 1
    OBVIOUS
  <1>3. \A i \in 1 .. Len(queue'[q]) : queue'[q][i] = queue[q][i + 1]
    OBVIOUS
  <1>4. \A p \in Queue : p # q => queue'[p] = queue[p]
    OBVIOUS
  <1>5. x = queue[q][1] /\ x \in Item /\ In(x, q, queue)
    BY <1>2 DEF In
  <1>6. \A y : \A p \in Queue : In(y, p, queue') <=> In(y, p, queue) /\ y # x
    <2> SUFFICES ASSUME NEW y, NEW p \in Queue
                 PROVE  In(y, p, queue') <=> In(y, p, queue) /\ y # x
      OBVIOUS
    <2>1. ASSUME p # q PROVE In(y, p, queue') <=> In(y, p, queue) /\ y # x
      <3>1. queue'[p] = queue[p]
        BY <1>4, <2>1
      <3>2. ~ In(x, p, queue)
        BY <1>2, <1>5, <2>1 DEF In, Apart
      <3> HIDE DEF x
      <3> QED BY <3>1, <3>2 DEF In
    <2>2. ASSUME p = q, In(y, q, queue') PROVE In(y, q, queue) /\ y # x
      <3>1. PICK i \in 1 .. Len(queue'[q]) : queue'[q][i] = y
        BY <2>2 DEF In
      <3>2. queue[q][i + 1] = y /\ i + 1 \in 1 .. Len(queue[q]) /\ i + 1 # 1 /\ 1 \in 1 .. Len(queue[q])
        BY <1>2, <1>3, <3>1
      <3> HIDE DEF x
      <3> QED BY <1>5, <3>2 DEF In, Apart
    <2>3. ASSUME p = q, In(y, q, queue), y # x PROVE In(y, q, queue')
      <3>1. PICK i \in 1 .. Len(queue[q]) : queue[q][i] = y
        BY <2>3 DEF In
      <3>2. i # 1
        BY <1>5, <2>3, <3>1
      <3>3. i - 1 \in 1 .. Len(queue'[q]) /\ queue'[q][i - 1] = y
        BY <1>2, <1>3, <3>1, <3>2
      <3> QED BY <3>3 DEF In
    <2> QED BY <2>1, <2>2, <2>3
  <1>7. Apart(queue')
    <2> SUFFICES ASSUME NEW q1 \in Queue, NEW q2 \in Queue,
                        NEW i \in 1 .. Len(queue'[q1]), NEW k \in 1 .. Len(queue'[q2]),
                        queue'[q1][i] = queue'[q2][k]
                 PROVE  q1 = q2 /\ i = k
      BY DEF Apart
    <2> DEFINE off(p) == IF p = q THEN 1 ELSE 0
    <2>1. i + off(q1) \in 1 .. Len(queue[q1]) /\ queue'[q1][i] = queue[q1][i + off(q1)]
      BY <1>2, <1>3, <1>4
    <2>2. k + off(q2) \in 1 .. Len(queue[q2]) /\ queue'[q2][k] = queue[q2][k + off(q2)]
      BY <1>2, <1>3, <1>4
    <2>3. q1 = q2 /\ i + off(q1) = k + off(q2)
      BY <2>1, <2>2 DEF Apart
    <2> QED BY <2>3
  <1> QED BY <1>1, <1>5, <1>6, <1>7

-----------------------------------------------------------------------------
(* The scheduler as constructed, with empty queues and no worker, satisfies*)
(* the inductive invariant (scheduler.cpp:8-19).                           *)
THEOREM InitInv == Init => Inv
  BY ThreadCountAssumption, BoundsAssumption, DistinctAssumption
  DEF Init, Inv, TypeOK, HeldTyped, ThreadsExist, CurrentIsHeld, Places, Coros,
      Apart, In, HeldNotQueued, HeldOnce, CalledNowhere, PlacedSubmitted, Numbered,
      PlacedCreated, HasCallback, PoolEnded, HasJob, HasCoro, PC, Status, NoCall,
      Worker, Queue, Item, Coro, Crash

-----------------------------------------------------------------------------
(* pickTask only looks into queues that exist: the own one, the global one *)
(* and those of the other workers (scheduler.cpp:80-101).                  *)
LEMMA SourceIsQueue ==
  ASSUME TypeOK, NEW w \in Worker PROVE Source(w) \in Queue
  BY ThreadCountAssumption, SMTT(60) DEF TypeOK, Source, Victim, Queue, Worker

(* Type correctness of a step.  HeldTyped gives the type of what a worker  *)
(* puts into a queue or runs.                                              *)
LEMMA TypeStep ==
  ASSUME Inv, Next PROVE TypeOK'
  <1> USE DEF vars, workerVars, coroVars, executeVars, ownerVars, NoCall, PC, Status,
              Crash, Goto, HasJob, HasCoro
  <1>a. TypeOK
    BY DEF Inv
  <1>b. HeldTyped /\ CurrentIsHeld /\ HasCallback /\ CalledNowhere
    BY DEF Inv, Coros, Places
  <1>c. /\ coro_id \in 0 .. MaxCoro /\ starts \in 0 .. MaxStarts
        /\ scan \in [Worker -> 0 .. ThreadCount]
        /\ yields \in [Job -> 0 .. MaxYields]
    BY <1>a DEF TypeOK
  <1>d. cursor \in Worker
    BY <1>a DEF TypeOK
  <1>e. queue \in [Queue -> Seq(Item)]
    BY <1>a DEF TypeOK
  <1>1. CASE UNCHANGED vars
    BY <1>a, <1>1 DEF TypeOK
  <1>2. ASSUME NEW w \in Worker, WorkerStep(w) PROVE TypeOK'
    <2>1. CASE TestStopped(w)
      <3>1. scan' \in [Worker -> 0 .. ThreadCount]
        BY <1>c, <2>1, ThreadCountAssumption DEF TestStopped
      <3> QED BY <1>a, <2>1, <3>1 DEF TypeOK, TestStopped
    <2>2. CASE WaitTimeout(w)
      BY <1>a, <2>2 DEF TypeOK, WaitTimeout
    <2>3. CASE PeekEmpty(w)
      <3>1. scan' \in [Worker -> 0 .. ThreadCount]
        BY <1>c, <2>3, ThreadCountAssumption DEF PeekEmpty, LastSource
      <3> QED BY <1>a, <2>3, <3>1 DEF TypeOK, PeekEmpty, NoTask
    <2>4. CASE PeekNonEmpty(w)
      BY <1>a, <2>4 DEF TypeOK, PeekNonEmpty
    <2>5. CASE TakeNothing(w)
      BY <1>a, <2>5 DEF TypeOK, TakeNothing, NoTask
    <2>6. CASE TakeTask(w)
      <3>1. Source(w) \in Queue
        BY <1>a, SourceIsQueue
      <3>2. /\ Head(queue[Source(w)]) \in Item
            /\ Tail(queue[Source(w)]) \in Seq(Item)
        BY <1>e, <2>6, <3>1 DEF TakeTask, IsEmpty
      <3>3. queue' \in [Queue -> Seq(Item)]
        BY <1>e, <2>6, <3>2 DEF TakeTask, Dequeue
      <3> QED BY <1>a, <2>6, <3>2, <3>3 DEF TypeOK, TakeTask
    <2>7. CASE CreateCoroutine(w)
      <3>1. coro_id + 1 \in Coro /\ coro_id' \in 0 .. MaxCoro
        BY <1>c, <2>7, BoundsAssumption DEF CreateCoroutine, Coro
      <3>2. held[w] \in Job
        BY <1>b, <2>7 DEF HeldTyped, CreateCoroutine
      <3> QED BY <1>a, <2>7, <3>1, <3>2 DEF TypeOK, CreateCoroutine, Item
    <2>8. CASE PoolNonEmpty(w)
      BY <1>a, <2>8 DEF TypeOK, PoolNonEmpty
    <2>9. CASE ReuseNothing(w)
      BY <1>a, <2>9 DEF TypeOK, ReuseNothing
    <2>10. CASE ReuseCoroutine(w)
      <3>1. /\ Head(queue[Pool]) \in Item
            /\ Tail(queue[Pool]) \in Seq(Item)
        <4>1. Pool \in Queue /\ queue[Pool] # <<>>
          BY <2>10 DEF ReuseCoroutine, IsEmpty, Queue
        <4> QED BY <1>e, <4>1
      <3>2. queue' \in [Queue -> Seq(Item)]
        BY <1>e, <2>10, <3>1 DEF ReuseCoroutine, Dequeue
      <3>3. held[w] \in Job
        BY <1>b, <2>10 DEF HeldTyped, ReuseCoroutine
      <3>4. CASE status[Head(queue[Pool])] = "RUNN"
        BY <1>a, <2>10, <3>2, <3>4 DEF TypeOK, ReuseCoroutine
      <3>5. CASE status[Head(queue[Pool])] # "RUNN"
        <4>1. ReuseFor(w, Head(queue[Pool])) /\ Goto(w, "resume") /\ UNCHANGED crashed
          BY <2>10, <3>5 DEF ReuseCoroutine
        <4>2. /\ status' \in [Coro -> Status] /\ m_cb' \in [Coro -> Job \cup {None}]
              /\ held' \in [Worker -> Item \cup {None}] /\ pc' \in [Worker -> PC]
          BY <1>a, <3>1, <3>3, <4>1 DEF TypeOK, ReuseFor
        <4> QED BY <1>a, <2>10, <3>2, <4>1, <4>2 DEF TypeOK, ReuseCoroutine
      <3> QED BY <3>4, <3>5
    <2>11. CASE Resume(w)
      BY <1>a, <1>b, <2>11 DEF TypeOK, Resume, HeldTyped
    <2>12. CASE Yield(w)
      <3>1. t_cur_coro[w] \in Coro /\ m_cb[t_cur_coro[w]] \in Job
        BY <1>b, <2>12 DEF Yield, SwitchBack, CurrentIsHeld, HeldTyped, HasCallback
      <3>2. yields' \in [Job -> 0 .. MaxYields]
        BY <1>c, <2>12, <3>1, BoundsAssumption DEF Yield
      <3> QED BY <1>a, <2>12, <3>2 DEF TypeOK, Yield, SwitchBack
    <2>13. CASE EndJob(w)
      <3>1. t_cur_coro[w] \in Coro /\ m_cb[t_cur_coro[w]] \in Job
        BY <1>b, <2>13 DEF EndJob, SwitchBack, CurrentIsHeld, HeldTyped, HasCallback
      <3>2. \A outcome \in Outcomes : EndStatus(outcome) \in Status
        BY OutcomesAssumption DEF EndStatus
      <3>3. PICK outcome \in Outcomes : SwitchBack(w, EndStatus(outcome))
        BY <2>13 DEF EndJob
      <3>4. status' \in [Coro -> Status]
        BY <1>a, <3>1, <3>2, <3>3 DEF TypeOK, SwitchBack
      <3>5. done' \subseteq Job
        BY <1>a, <2>13, <3>1 DEF TypeOK, EndJob
      <3>6. UNCHANGED yields
        BY <2>13 DEF EndJob
      <3> QED BY <1>a, <3>3, <3>4, <3>5, <3>6 DEF TypeOK, SwitchBack
    <2>14. CASE PutBack(w)
      <3>1. held[w] \in Coro
        BY <1>b, <2>14 DEF PutBack, HeldTyped
      <3>2. queue' \in [Queue -> Seq(Item)]
        BY <1>e, <2>14, <3>1 DEF PutBack, Enqueue, Home, Queue, Item
      <3>3. scan' \in [Worker -> 0 .. ThreadCount]
        BY <1>c, <2>14, ThreadCountAssumption DEF PutBack
      <3> QED BY <1>a, <2>14, <3>2, <3>3 DEF TypeOK, PutBack, NextRound
    <2> QED BY <1>2, <2>1, <2>2, <2>3, <2>4, <2>5, <2>6, <2>7, <2>8, <2>9, <2>10,
               <2>11, <2>12, <2>13, <2>14 DEF WorkerStep
  <1>3. ASSUME NEW t \in Thread, ExecuteBegin(t) \/ ExecuteEnd(t) PROVE TypeOK'
    <2>1. ASSUME NEW j \in Job, ExecuteRejected(t, j) PROVE TypeOK'
      BY <1>a, <2>1 DEF TypeOK, ExecuteRejected
    <2>2. ASSUME NEW j \in Job, NEW idx \in Index, ExecuteAccepted(t, j, idx)
          PROVE  TypeOK'
      BY <1>a, <2>2, IndexAssumption DEF TypeOK, ExecuteAccepted
    <2>3. CASE ExecuteEnqueue(t)
      <3> DEFINE j == call[t].job
      <3>1. j \in Job
        BY <1>a, <1>b, <2>3 DEF ExecuteEnqueue, CalledNowhere, TypeOK
      <3>2. queue' \in [Queue -> Seq(Item)]
        BY <1>e, <2>3, <3>1 DEF ExecuteEnqueue, Enqueue, Target, Queue, Item
      <3> QED BY <1>a, <2>3, <3>1, <3>2 DEF TypeOK, ExecuteEnqueue
    <2>4. CASE ExecuteNotify(t)
      BY <1>a, <2>4 DEF TypeOK, ExecuteNotify, NotifyAll
    <2> QED BY <1>3, <2>1, <2>2, <2>3, <2>4 DEF ExecuteBegin, ExecuteEnd
  <1>4. CASE Owner
    <2>1. CASE Start
      <3>1. starts' \in 0 .. MaxStarts
        BY <1>c, <2>1, BoundsAssumption DEF Start
      <3> QED BY <1>a, <2>1, <3>1 DEF TypeOK, Start, OwnerStep
    <2>2. CASE StartThread
      <3>1. cursor' \in Worker
        BY <1>d, <2>2, ThreadCountAssumption DEF StartThread, NextWorker, Worker
      <3> QED BY <1>a, <2>2, <3>1 DEF TypeOK, StartThread, NextWorker
    <2>3. CASE Stop
      BY <1>a, <2>3 DEF TypeOK, Stop, OwnerStep
    <2>4. CASE StopNotify
      BY <1>a, <2>4 DEF TypeOK, StopNotify, OwnerStep, NotifyAll
    <2>5. CASE JoinThread
      <3>1. cursor' \in Worker
        BY <1>d, <2>5, ThreadCountAssumption DEF JoinThread, NextWorker, Worker
      <3> QED BY <1>a, <2>5, <3>1 DEF TypeOK, JoinThread, NextWorker
    <2>6. CASE StartFails
      <3>1. cursor' \in Worker
        BY <2>6, ThreadCountAssumption DEF StartFails, Worker
      <3> QED BY <1>a, <2>6, <3>1 DEF TypeOK, StartFails, OwnerStep
    <2>7. CASE JoinNull
      BY <1>a, <2>7 DEF TypeOK, JoinNull, Crash
    <2> QED BY <1>4, <2>1, <2>2, <2>3, <2>4, <2>5, <2>6, <2>7 DEF Owner
  <1> QED BY <1>1, <1>2, <1>3, <1>4 DEF Next, Running, Over

-----------------------------------------------------------------------------
(* What workers hold and run.  The last conjunct of CurrentIsHeld, that a  *)
(* coroutine which runs stays in RUNN, is where HeldOnce is needed: no     *)
(* other worker resumes it, and where Numbered is: no new one is it.       *)
LEMMA ThreadStep ==
  ASSUME Inv, Next PROVE HeldTyped' /\ ThreadsExist' /\ CurrentIsHeld'
  <1> USE DEF HasJob, HasCoro, Goto, workerVars, coroVars, executeVars, ownerVars
  <1>q. TypeOK /\ queue \in [Queue -> Seq(Item)]
    BY DEF Inv, TypeOK
  <1>a. /\ pc \in [Worker -> PC]
        /\ held \in [Worker -> Item \cup {None}]
        /\ status \in [Coro -> Status]
        /\ t_cur_coro \in [Worker -> Coro \cup {None}]
        /\ cursor \in Worker
        /\ coro_id \in 0 .. MaxCoro
    BY DEF Inv, TypeOK
  <1>b. /\ HeldTyped /\ ThreadsExist /\ CurrentIsHeld /\ HeldOnce
        /\ Numbered /\ PoolEnded
    BY DEF Inv, Places, Coros
  <1>c. None \notin Job /\ None \notin Coro /\ Job \cap Coro = {}
    BY DistinctAssumption DEF Item
  <1>1. CASE UNCHANGED vars
    BY <1>1, <1>b DEF vars, HeldTyped, ThreadsExist, CurrentIsHeld
  <1>2. ASSUME NEW w \in Worker, WorkerStep(w)
        PROVE  HeldTyped' /\ ThreadsExist' /\ CurrentIsHeld'
    <2>0. pc[w] # "none" => ctl # "stopped"
      BY <1>b DEF ThreadsExist
    <2>1. CASE TestStopped(w)
      BY <1>a, <1>b, <2>1 DEF TestStopped, HeldTyped, ThreadsExist, CurrentIsHeld
    <2>2. CASE WaitTimeout(w)
      BY <1>a, <1>b, <2>2 DEF WaitTimeout, HeldTyped, ThreadsExist, CurrentIsHeld
    <2>3. CASE PeekEmpty(w)
      BY <1>a, <1>b, <2>3 DEF PeekEmpty, NoTask, HeldTyped, ThreadsExist, CurrentIsHeld
    <2>4. CASE PeekNonEmpty(w)
      BY <1>a, <1>b, <2>4 DEF PeekNonEmpty, HeldTyped, ThreadsExist, CurrentIsHeld
    <2>5. CASE TakeNothing(w)
      BY <1>a, <1>b, <2>5 DEF TakeNothing, NoTask, HeldTyped, ThreadsExist, CurrentIsHeld
    <2>6. CASE TakeTask(w)
      <3>1. Head(queue[Source(w)]) \in Job \cup Coro
        BY <1>q, <2>6, SourceIsQueue DEF TakeTask, IsEmpty, Item
      <3>2. HeldTyped'
        BY <1>a, <1>b, <2>6, <3>1 DEF TakeTask, HeldTyped
      <3>3. ThreadsExist'
        BY <1>a, <1>b, <2>6 DEF TakeTask, ThreadsExist
      <3>4. CurrentIsHeld'
        BY <1>a, <1>b, <2>6 DEF TakeTask, CurrentIsHeld
      <3> QED BY <3>2, <3>3, <3>4
    <2>7. CASE CreateCoroutine(w)
      <3>1. coro_id + 1 \in Coro /\ status[coro_id + 1] = "NONE"
        BY <1>a, <1>b, <2>7, BoundsAssumption DEF CreateCoroutine, Coro, Numbered
      <3>2. HeldTyped'
        BY <1>a, <1>b, <2>7, <3>1 DEF CreateCoroutine, HeldTyped
      <3>3. ThreadsExist'
        BY <1>a, <1>b, <2>7 DEF CreateCoroutine, ThreadsExist
      <3>4. CurrentIsHeld'
        BY <1>a, <1>b, <2>7, <3>1 DEF CreateCoroutine, CurrentIsHeld
      <3> QED BY <3>2, <3>3, <3>4
    <2>8. CASE PoolNonEmpty(w)
      BY <1>a, <1>b, <2>8 DEF PoolNonEmpty, HeldTyped, ThreadsExist, CurrentIsHeld
    <2>9. CASE ReuseNothing(w)
      BY <1>b, <2>9 DEF ReuseNothing, HeldTyped, ThreadsExist, CurrentIsHeld
    <2>10. CASE ReuseCoroutine(w)
      <3> DEFINE c == Head(queue[Pool])
      <3>1. c \in Coro /\ status[c] \in Finished
        <4>1. Pool \in Queue /\ queue[Pool] # <<>>
          BY <2>10 DEF ReuseCoroutine, IsEmpty, Queue
        <4>2. c \in Item /\ In(c, Pool, queue)
          BY <1>q, <4>1 DEF In
        <4> QED BY <1>b, <4>2 DEF PoolEnded
      <3>2. ReuseFor(w, c) /\ pc' = [pc EXCEPT ![w] = "resume"]
        BY <2>10, <3>1 DEF ReuseCoroutine, Finished
      <3> HIDE DEF c
      <3>3. HeldTyped'
        BY <1>a, <1>b, <3>1, <3>2 DEF ReuseFor, HeldTyped
      <3>4. ThreadsExist'
        BY <1>a, <1>b, <2>10, <3>2 DEF ReuseCoroutine, ThreadsExist
      <3>5. CurrentIsHeld'
        BY <1>a, <1>b, <2>10, <3>1, <3>2 DEF ReuseCoroutine, ReuseFor, CurrentIsHeld, Finished
      <3> QED BY <3>3, <3>4, <3>5
    <2>11. CASE Resume(w)
      <3>1. HeldTyped'
        BY <1>a, <1>b, <2>11 DEF Resume, HeldTyped
      <3>2. ThreadsExist'
        BY <1>a, <1>b, <2>11 DEF Resume, ThreadsExist
      <3>3. held[w] \in Coro /\ \A v \in Worker : held[v] = held[w] => v = w
        BY <1>b, <1>c, <2>11 DEF Resume, HeldTyped, HeldOnce
      <3>4. CurrentIsHeld'
        <4>1. CASE status[held[w]] \in {"RADY", "SUSP"}
          <5>1. /\ status' = [status EXCEPT ![held[w]] = "RUNN"]
                /\ t_cur_coro' = [t_cur_coro EXCEPT ![w] = held[w]]
                /\ pc' = [pc EXCEPT ![w] = "run"]
                /\ UNCHANGED held
            BY <2>11, <4>1 DEF Resume
          <5>2. \A v \in Worker : v # w /\ pc[v] = "run" => held[v] # held[w]
            BY <3>3
          <5> QED BY <1>a, <1>b, <3>3, <5>1, <5>2 DEF CurrentIsHeld
        <4>2. CASE status[held[w]] \notin {"RADY", "SUSP"}
          BY <1>b, <2>11, <4>2 DEF Resume, CurrentIsHeld
        <4> QED BY <4>1, <4>2
      <3> QED BY <3>1, <3>2, <3>4
    <2>12. CASE Yield(w)
      BY <1>a, <1>b, <1>c, <2>12
      DEF Yield, SwitchBack, HeldTyped, ThreadsExist, CurrentIsHeld, HeldOnce
    <2>13. CASE EndJob(w)
      BY <1>a, <1>b, <1>c, <2>13
      DEF EndJob, SwitchBack, HeldTyped, ThreadsExist, CurrentIsHeld, HeldOnce
    <2>14. CASE PutBack(w)
      BY <1>a, <1>b, <2>14 DEF PutBack, NextRound, HeldTyped, ThreadsExist, CurrentIsHeld
    <2> QED BY <1>2, <2>1, <2>2, <2>3, <2>4, <2>5, <2>6, <2>7, <2>8, <2>9, <2>10,
               <2>11, <2>12, <2>13, <2>14 DEF WorkerStep
  <1>3. ASSUME NEW t \in Thread, ExecuteBegin(t) \/ ExecuteEnd(t)
        PROVE  HeldTyped' /\ ThreadsExist' /\ CurrentIsHeld'
    <2>1. CASE ExecuteNotify(t)
      BY <1>a, <1>b, <2>1 DEF ExecuteNotify, NotifyAll, HeldTyped, ThreadsExist, CurrentIsHeld
    <2>2. CASE ~ ExecuteNotify(t)
      <3>1. UNCHANGED <<workerVars, coroVars, ownerVars>>
        BY <1>3, <2>2 DEF ExecuteBegin, ExecuteEnd, ExecuteRejected, ExecuteAccepted,
                          ExecuteEnqueue
      <3> QED BY <1>b, <3>1 DEF HeldTyped, ThreadsExist, CurrentIsHeld
    <2> QED BY <2>1, <2>2
  <1>4. CASE Owner
    <2>1. CASE Start
      BY <1>a, <1>b, <2>1 DEF Start, OwnerStep, HeldTyped, ThreadsExist, CurrentIsHeld
    <2>2. CASE StartThread
      BY <1>a, <1>b, <2>2, ThreadCountAssumption
      DEF StartThread, NextWorker, HeldTyped, ThreadsExist, CurrentIsHeld, Worker
    <2>3. CASE Stop
      BY <1>b, <2>3 DEF Stop, OwnerStep, HeldTyped, ThreadsExist, CurrentIsHeld
    <2>4. CASE StopNotify
      BY <1>a, <1>b, <2>4, ThreadCountAssumption
      DEF StopNotify, OwnerStep, NotifyAll, HeldTyped, ThreadsExist, CurrentIsHeld, Worker
    <2>5. CASE JoinThread
      BY <1>a, <1>b, <2>5, ThreadCountAssumption
      DEF JoinThread, NextWorker, HeldTyped, ThreadsExist, CurrentIsHeld, Worker
    <2>6. CASE StartFails
      BY <1>a, <1>b, <2>6, ThreadCountAssumption
      DEF StartFails, OwnerStep, HeldTyped, ThreadsExist, CurrentIsHeld, Worker
    <2>7. CASE JoinNull
      BY <1>b, <2>7 DEF JoinNull, HeldTyped, ThreadsExist, CurrentIsHeld
    <2> QED BY <1>4, <2>1, <2>2, <2>3, <2>4, <2>5, <2>6, <2>7 DEF Owner
  <1> QED BY <1>1, <1>2, <1>3, <1>4 DEF Next, Running, Over

-----------------------------------------------------------------------------
(* An item stays in one place.  Only the actions below move items or jobs  *)
(* from one place to another.                                              *)
LEMMA PlacesStep ==
  ASSUME Inv, Next PROVE Places'
  <1> USE DEF workerVars, coroVars, executeVars, ownerVars
  <1>a. /\ queue \in [Queue -> Seq(Item)]
        /\ held \in [Worker -> Item \cup {None}]
        /\ call \in [Thread -> [at : {"idle", "enqueue", "notify"}, job : Job \cup {None}]]
        /\ submitted \subseteq Job
    BY DEF Inv, TypeOK
  <1>b. Apart(queue) /\ HeldNotQueued /\ HeldOnce /\ CalledNowhere /\ PlacedSubmitted
    BY DEF Inv, Places
  <1>c. HeldTyped /\ PoolEnded /\ Numbered /\ PlacedCreated
    BY DEF Inv, Coros
  <1>d. None \notin Item /\ Job \cap Coro = {} /\ Item = Job \cup Coro
    BY DistinctAssumption DEF Item
  <1>q. queue \in [Queue -> Seq(Item)] /\ Apart(queue)
    BY <1>a, <1>b
  <1>e. \A t \in Thread : call[t].at = "enqueue" => call[t].job \in Job
    BY <1>a, <1>b DEF CalledNowhere
  <1>1. CASE UNCHANGED <<queue, held, call, submitted>>
    BY <1>1, <1>b DEF Places, HeldNotQueued, HeldOnce, CalledNowhere, PlacedSubmitted
  <1>2. ASSUME NEW w \in Worker, TakeTask(w) PROVE Places'
    <2> DEFINE q == Source(w)  x == Head(queue[q])
    <2>1. q \in Queue
      BY SourceIsQueue DEF Inv
    <2>2. ~ IsEmpty(q) /\ Dequeue(q)
      BY <1>2 DEF TakeTask
    <2>3. /\ Apart(queue') /\ x \in Item /\ In(x, q, queue)
          /\ \A y : \A p \in Queue : In(y, p, queue') <=> In(y, p, queue) /\ y # x
      BY <1>q, <2>1, <2>2, DequeueLemma
    <2>4. held' = [held EXCEPT ![w] = x] /\ UNCHANGED <<call, submitted>>
      BY <1>2 DEF TakeTask
    <2> HIDE DEF q, x
    <2>5. HeldNotQueued' /\ HeldOnce'
      BY <1>a, <1>b, <1>d, <2>1, <2>3, <2>4 DEF HeldNotQueued, HeldOnce
    <2>6. CalledNowhere'
      BY <1>a, <1>b, <2>1, <2>3, <2>4 DEF CalledNowhere
    <2>7. PlacedSubmitted'
      BY <1>a, <1>b, <2>1, <2>3, <2>4 DEF PlacedSubmitted
    <2> QED BY <2>3, <2>5, <2>6, <2>7 DEF Places
  <1>3. ASSUME NEW w \in Worker, CreateCoroutine(w) PROVE Places'
    <2> DEFINE c == coro_id + 1
    <2>1. c \in Coro /\ status[c] = "NONE"
      BY <1>3, <1>c, BoundsAssumption DEF Inv, TypeOK, CreateCoroutine, Coro, Numbered
    <2>2. /\ \A q \in Queue : ~ In(c, q, queue)
          /\ \A v \in Worker : held[v] # c
      BY <1>c, <2>1 DEF PlacedCreated
    <2>3. held' = [held EXCEPT ![w] = c] /\ UNCHANGED <<queue, call, submitted>>
      BY <1>3 DEF CreateCoroutine
    <2> HIDE DEF c
    <2>4. HeldNotQueued' /\ HeldOnce'
      BY <1>a, <1>b, <2>2, <2>3 DEF HeldNotQueued, HeldOnce
    <2>5. CalledNowhere'
      BY <1>a, <1>b, <1>d, <1>e, <2>1, <2>3 DEF CalledNowhere
    <2>6. PlacedSubmitted'
      BY <1>a, <1>b, <1>d, <2>1, <2>3 DEF PlacedSubmitted
    <2> QED BY <1>b, <2>3, <2>4, <2>5, <2>6 DEF Places
  <1>4. ASSUME NEW w \in Worker, ReuseCoroutine(w) PROVE Places'
    <2> DEFINE c == Head(queue[Pool])
    <2>1. Pool \in Queue
      BY DEF Queue
    <2>2. ~ IsEmpty(Pool) /\ Dequeue(Pool)
      BY <1>4 DEF ReuseCoroutine
    <2>3. /\ Apart(queue') /\ c \in Item /\ In(c, Pool, queue)
          /\ \A y : \A p \in Queue : In(y, p, queue') <=> In(y, p, queue) /\ y # c
      BY <1>q, <2>1, <2>2, DequeueLemma
    <2>4. c \in Coro
      BY <1>c, <2>3 DEF PoolEnded
    <2>5. /\ held' = held \/ held' = [held EXCEPT ![w] = c]
          /\ UNCHANGED <<call, submitted>>
      BY <1>4 DEF ReuseCoroutine, ReuseFor
    <2> HIDE DEF c
    <2>6. HeldNotQueued' /\ HeldOnce'
      <3>1. \A v \in Worker : held[v] # c
        BY <1>b, <1>d, <2>1, <2>3 DEF HeldNotQueued
      <3>2. CASE held' = held
        BY <1>b, <2>3, <3>2 DEF HeldNotQueued, HeldOnce
      <3>3. CASE held' = [held EXCEPT ![w] = c]
        BY <1>a, <1>b, <2>3, <3>1, <3>3 DEF HeldNotQueued, HeldOnce
      <3> QED BY <2>5, <3>2, <3>3
    <2>7. CalledNowhere'
      BY <1>a, <1>b, <1>d, <1>e, <2>1, <2>3, <2>4, <2>5 DEF CalledNowhere
    <2>8. PlacedSubmitted'
      BY <1>a, <1>b, <1>d, <2>1, <2>3, <2>4, <2>5 DEF PlacedSubmitted
    <2> QED BY <2>3, <2>6, <2>7, <2>8 DEF Places
  <1>5. ASSUME NEW w \in Worker, PutBack(w) PROVE Places'
    <2> DEFINE c == held[w]  q == Home(w, c)
    <2>1. c \in Coro /\ q \in Queue
      BY <1>5, <1>c DEF PutBack, HeldTyped, HasCoro, Home, Queue
    <2>2. \A p \in Queue : ~ In(c, p, queue)
      BY <1>b, <1>d, <2>1 DEF HeldNotQueued
    <2>3. Enqueue(q, c)
      BY <1>5 DEF PutBack
    <2>4. /\ Apart(queue')
          /\ \A y : \A p \in Queue : In(y, p, queue') <=> In(y, p, queue) \/ (y = c /\ p = q)
      BY <1>d, <1>q, <2>1, <2>2, <2>3, EnqueueLemma
    <2>5. held' = [held EXCEPT ![w] = None] /\ UNCHANGED <<call, submitted>>
      BY <1>5 DEF PutBack
    <2>6. \A v \in Worker : v # w => held[v] # c
      BY <1>b, <1>d, <2>1 DEF HeldOnce
    <2> HIDE DEF c, q
    <2>7. HeldNotQueued' /\ HeldOnce'
      BY <1>a, <1>b, <2>1, <2>4, <2>5, <2>6 DEF HeldNotQueued, HeldOnce
    <2>8. CalledNowhere'
      BY <1>a, <1>b, <1>d, <1>e, <2>1, <2>4, <2>5 DEF CalledNowhere
    <2>9. PlacedSubmitted'
      BY <1>a, <1>b, <1>d, <2>1, <2>4, <2>5 DEF PlacedSubmitted
    <2> QED BY <2>4, <2>7, <2>8, <2>9 DEF Places
  <1>6. ASSUME NEW t \in Thread, NEW j \in Job, ExecuteRejected(t, j) PROVE Places'
    <2>1. submitted' = submitted \cup {j} /\ UNCHANGED <<queue, held, call>>
      BY <1>6 DEF ExecuteRejected
    <2> QED BY <1>b, <2>1 DEF Places, HeldNotQueued, HeldOnce, CalledNowhere, PlacedSubmitted
  <1>7. ASSUME NEW t \in Thread, NEW j \in Job, NEW idx \in Index,
               ExecuteAccepted(t, j, idx)
        PROVE  Places'
    <2>1. /\ j \notin submitted /\ submitted' = submitted \cup {j}
          /\ call' = [call EXCEPT ![t] = [at |-> "enqueue", job |-> j]]
          /\ UNCHANGED <<queue, held>>
      BY <1>7 DEF ExecuteAccepted
    <2>2. CalledNowhere'
      BY <1>a, <1>b, <2>1 DEF CalledNowhere, PlacedSubmitted
    <2> QED BY <1>b, <2>1, <2>2 DEF Places, HeldNotQueued, HeldOnce, PlacedSubmitted
  <1>8. ASSUME NEW t \in Thread, ExecuteEnqueue(t) PROVE Places'
    <2> DEFINE j == call[t].job  q == Target(thread_idx[j])
    <2>1. /\ call[t].at = "enqueue" /\ j \in Job
          /\ Enqueue(q, j)
          /\ call' = [call EXCEPT ![t] = [at |-> "notify", job |-> None]]
          /\ UNCHANGED <<held, submitted>>
      BY <1>8, <1>e DEF ExecuteEnqueue
    <2>2. q \in Queue
      BY DEF Target, Queue
    <2>3. /\ \A p \in Queue : ~ In(j, p, queue)
          /\ \A w \in Worker : held[w] # j
          /\ \A u \in Thread : call[u].at = "enqueue" /\ u # t => call[u].job # j
          /\ j \in submitted
      BY <1>b, <2>1 DEF CalledNowhere
    <2>4. /\ Apart(queue')
          /\ \A y : \A p \in Queue : In(y, p, queue') <=> In(y, p, queue) \/ (y = j /\ p = q)
      BY <1>d, <1>q, <2>1, <2>2, <2>3, EnqueueLemma
    <2> HIDE DEF j, q
    <2>5. HeldNotQueued' /\ HeldOnce'
      BY <1>b, <2>1, <2>3, <2>4 DEF HeldNotQueued, HeldOnce
    <2>6. CalledNowhere'
      BY <1>a, <1>b, <2>1, <2>3, <2>4 DEF CalledNowhere
    <2>7. PlacedSubmitted'
      BY <1>b, <2>1, <2>3, <2>4 DEF PlacedSubmitted
    <2> QED BY <2>4, <2>5, <2>6, <2>7 DEF Places
  <1>9. ASSUME NEW t \in Thread, ExecuteNotify(t) PROVE Places'
    <2>1. call' = [call EXCEPT ![t] = NoCall] /\ UNCHANGED <<queue, held, submitted>>
      BY <1>9 DEF ExecuteNotify
    <2>2. CalledNowhere'
      BY <1>a, <1>b, <2>1 DEF CalledNowhere, NoCall
    <2> QED BY <1>b, <2>1, <2>2 DEF Places, HeldNotQueued, HeldOnce, PlacedSubmitted
  <1>10. ASSUME Owner PROVE UNCHANGED <<queue, held, call, submitted>>
    BY <1>10 DEF Owner, Start, StartThread, StartFails, Stop, StopNotify, JoinThread, JoinNull
  <1>11. ASSUME NEW w \in Worker, WorkerStep(w)
         PROVE  \/ UNCHANGED <<queue, held, call, submitted>>
                \/ TakeTask(w) \/ CreateCoroutine(w) \/ ReuseCoroutine(w) \/ PutBack(w)
    BY <1>11 DEF WorkerStep, TestStopped, WaitTimeout, PeekEmpty, PeekNonEmpty, TakeNothing,
      PoolNonEmpty, ReuseNothing, Resume, Yield, EndJob, SwitchBack
  <1>12. CASE UNCHANGED vars
    BY <1>1, <1>12 DEF vars
  <1> QED BY <1>1, <1>2, <1>3, <1>4, <1>5, <1>6, <1>7, <1>8, <1>9, <1>10, <1>11, <1>12
          DEF Next, Running, Over, ExecuteBegin, ExecuteEnd

-----------------------------------------------------------------------------
(* Coroutines: what is queued or held has been created, and what is pooled *)
(* has ended.  A status changes only while a worker holds the coroutine,   *)
(* so by HeldNotQueued never while it is in the pool.                      *)
LEMMA CorosStep ==
  ASSUME Inv, Next PROVE Coros'
  <1> USE DEF workerVars, coroVars, executeVars, ownerVars, HasJob, HasCoro
  <1>a. /\ queue \in [Queue -> Seq(Item)]
        /\ held \in [Worker -> Item \cup {None}]
        /\ status \in [Coro -> Status]
        /\ m_cb \in [Coro -> Job \cup {None}]
        /\ coro_id \in 0 .. MaxCoro
    BY DEF Inv, TypeOK
  <1>b. Numbered /\ PlacedCreated /\ HasCallback /\ PoolEnded
    BY DEF Inv, Coros
  <1>c. HeldTyped /\ Apart(queue) /\ HeldNotQueued /\ CalledNowhere /\ CurrentIsHeld
    BY DEF Inv, Places
  <1>d. None \notin Item /\ Job \cap Coro = {} /\ Item = Job \cup Coro
    BY DistinctAssumption DEF Item
  <1>e. Pool \in Queue
    BY DEF Queue
  <1>1. CASE UNCHANGED <<queue, held, status, m_cb, coro_id>>
    BY <1>1, <1>b DEF Coros, Numbered, PlacedCreated, HasCallback, PoolEnded
  <1>2. ASSUME NEW w \in Worker, TakeTask(w) PROVE Coros'
    <2> DEFINE q == Source(w)  x == Head(queue[q])
    <2>1. q \in Queue
      BY SourceIsQueue DEF Inv
    <2>2. ~ IsEmpty(q) /\ Dequeue(q)
      BY <1>2 DEF TakeTask
    <2>3. /\ In(x, q, queue)
          /\ \A y : \A p \in Queue : In(y, p, queue') <=> In(y, p, queue) /\ y # x
      BY <1>a, <1>c, <2>1, <2>2, DequeueLemma
    <2>4. held' = [held EXCEPT ![w] = x] /\ UNCHANGED <<status, m_cb, coro_id>>
      BY <1>2 DEF TakeTask
    <2> HIDE DEF q, x
    <2>5. PlacedCreated'
      BY <1>a, <1>b, <2>1, <2>3, <2>4 DEF PlacedCreated
    <2> QED BY <1>b, <1>e, <2>3, <2>4, <2>5 DEF Coros, Numbered, HasCallback, PoolEnded
  <1>3. ASSUME NEW w \in Worker, CreateCoroutine(w) PROVE Coros'
    <2> DEFINE c == coro_id + 1
    <2>1. /\ coro_id' = c /\ status' = [status EXCEPT ![c] = "RADY"]
          /\ m_cb' = [m_cb EXCEPT ![c] = held[w]]
          /\ held' = [held EXCEPT ![w] = c]
          /\ UNCHANGED queue
      BY <1>3 DEF CreateCoroutine
    <2>2. c \in Coro /\ status[c] = "NONE" /\ held[w] \in Job
      BY <1>3, <1>a, <1>b, <1>c, BoundsAssumption DEF CreateCoroutine, Coro, Numbered, HeldTyped
    <2>3. Numbered'
      BY <1>a, <1>b, <2>1, <2>2, BoundsAssumption DEF Numbered, Coro
    <2> HIDE DEF c
    <2>4. PlacedCreated' /\ HasCallback'
      BY <1>a, <1>b, <2>1, <2>2 DEF PlacedCreated, HasCallback
    <2>5. PoolEnded'
      BY <1>a, <1>b, <2>1, <2>2 DEF PoolEnded, Finished
    <2> QED BY <2>3, <2>4, <2>5 DEF Coros
  <1>4. ASSUME NEW w \in Worker, ReuseCoroutine(w) PROVE Coros'
    <2> DEFINE c == Head(queue[Pool])
    <2>1. ~ IsEmpty(Pool) /\ Dequeue(Pool) /\ UNCHANGED coro_id /\ held[w] \in Job
      BY <1>4, <1>c DEF ReuseCoroutine, HeldTyped
    <2>2. /\ c \in Item /\ In(c, Pool, queue)
          /\ \A y : \A p \in Queue : In(y, p, queue') <=> In(y, p, queue) /\ y # c
      BY <1>a, <1>c, <1>e, <2>1, DequeueLemma
    <2>3. c \in Coro /\ status[c] \in Finished
      BY <1>b, <2>2 DEF PoolEnded
    <2>4. ReuseFor(w, c)
      BY <1>4, <2>3 DEF ReuseCoroutine, Finished
    <2> HIDE DEF c
    <2>5. Numbered' /\ HasCallback'
      BY <1>a, <1>b, <2>1, <2>3, <2>4 DEF ReuseFor, Numbered, HasCallback, Finished
    <2>6. PlacedCreated'
      BY <1>a, <1>b, <2>2, <2>3, <2>4 DEF ReuseFor, PlacedCreated
    <2>7. PoolEnded'
      BY <1>a, <1>b, <1>e, <2>2, <2>4 DEF ReuseFor, PoolEnded
    <2> QED BY <2>5, <2>6, <2>7 DEF Coros
  <1>5. ASSUME NEW w \in Worker, PutBack(w) PROVE Coros'
    <2> DEFINE c == held[w]  q == Home(w, c)
    <2>1. c \in Coro /\ q \in Queue /\ (q = Pool => status[c] \in Finished)
      BY <1>5, <1>c, DistinctAssumption DEF PutBack, HeldTyped, Home, Queue
    <2>2. \A p \in Queue : ~ In(c, p, queue)
      BY <1>c, <1>d, <2>1 DEF HeldNotQueued
    <2>3. Enqueue(q, c) /\ held' = [held EXCEPT ![w] = None]
          /\ UNCHANGED <<status, m_cb, coro_id>>
      BY <1>5 DEF PutBack
    <2>4. \A y : \A p \in Queue : In(y, p, queue') <=> In(y, p, queue) \/ (y = c /\ p = q)
      BY <1>a, <1>c, <1>d, <2>1, <2>2, <2>3, EnqueueLemma
    <2>5. status[c] # "NONE"
      BY <1>b, <2>1 DEF PlacedCreated
    <2> HIDE DEF c, q
    <2>6. PlacedCreated'
      BY <1>a, <1>b, <1>d, <2>1, <2>3, <2>4, <2>5 DEF PlacedCreated
    <2>7. PoolEnded'
      BY <1>b, <1>e, <2>1, <2>3, <2>4 DEF PoolEnded
    <2> QED BY <1>b, <2>3, <2>6, <2>7 DEF Coros, Numbered, HasCallback
  <1>6. ASSUME NEW t \in Thread, ExecuteEnqueue(t) PROVE Coros'
    <2> DEFINE j == call[t].job  q == Target(thread_idx[j])
    <2>1. /\ j \in Job /\ \A p \in Queue : ~ In(j, p, queue)
      BY <1>6, <1>c DEF ExecuteEnqueue, CalledNowhere, Inv, TypeOK
    <2>2. q \in Queue /\ q # Pool
      BY DistinctAssumption DEF Target, Queue
    <2>3. Enqueue(q, j) /\ UNCHANGED <<held, status, m_cb, coro_id>>
      BY <1>6 DEF ExecuteEnqueue
    <2>4. \A y : \A p \in Queue : In(y, p, queue') <=> In(y, p, queue) \/ (y = j /\ p = q)
      BY <1>a, <1>c, <1>d, <2>1, <2>2, <2>3, EnqueueLemma
    <2> HIDE DEF j, q
    <2>5. PlacedCreated'
      BY <1>b, <1>d, <2>1, <2>3, <2>4 DEF PlacedCreated
    <2> QED BY <1>b, <1>e, <2>2, <2>3, <2>4, <2>5 DEF Coros, Numbered, HasCallback, PoolEnded
  <1>7. ASSUME NEW w \in Worker, Resume(w) \/ Yield(w) \/ EndJob(w) PROVE Coros'
    <2> DEFINE c == held[w]
    <2>1. c \in Coro /\ (pc[w] = "run" => t_cur_coro[w] = c)
      BY <1>7, <1>c DEF Resume, Yield, EndJob, SwitchBack, HeldTyped, CurrentIsHeld
    <2>2. status[c] # "NONE" /\ ~ In(c, Pool, queue)
      BY <1>c, <1>b, <1>d, <1>e, <2>1 DEF HeldNotQueued, PlacedCreated
    <2>3. /\ \/ status' = status
             \/ \E s \in Status \ {"NONE"} : status' = [status EXCEPT ![c] = s]
          /\ UNCHANGED <<queue, held, m_cb, coro_id>>
      <3>1. CASE Resume(w)
        BY <3>1 DEF Resume, Status
      <3>2. CASE Yield(w)
        BY <2>1, <3>2 DEF Yield, SwitchBack, Status
      <3>3. CASE EndJob(w)
        <4>1. PICK outcome \in Outcomes : SwitchBack(w, EndStatus(outcome))
          BY <3>3 DEF EndJob
        <4>2. EndStatus(outcome) \in Status \ {"NONE"}
          BY OutcomesAssumption DEF EndStatus, Status
        <4> QED BY <2>1, <4>1, <4>2 DEF SwitchBack
      <3> QED BY <1>7, <3>1, <3>2, <3>3
    <2> HIDE DEF c
    <2>4. CASE status' = status
      BY <1>1, <2>3, <2>4
    <2>5. ASSUME NEW s \in Status \ {"NONE"}, status' = [status EXCEPT ![c] = s]
          PROVE  Coros'
      BY <1>a, <1>b, <2>1, <2>2, <2>3, <2>5
      DEF Coros, Numbered, PlacedCreated, HasCallback, PoolEnded
    <2> QED BY <2>3, <2>4, <2>5
  <1>8. ASSUME NEW w \in Worker, WorkerStep(w)
        PROVE  \/ UNCHANGED <<queue, held, status, m_cb, coro_id>>
               \/ TakeTask(w) \/ CreateCoroutine(w) \/ ReuseCoroutine(w) \/ PutBack(w)
               \/ Resume(w) \/ Yield(w) \/ EndJob(w)
    BY <1>8 DEF WorkerStep, TestStopped, WaitTimeout, PeekEmpty, PeekNonEmpty, TakeNothing,
      PoolNonEmpty, ReuseNothing
  <1>9. ASSUME NEW t \in Thread, ExecuteBegin(t) \/ ExecuteEnd(t)
        PROVE  UNCHANGED <<queue, held, status, m_cb, coro_id>> \/ ExecuteEnqueue(t)
    BY <1>9 DEF ExecuteBegin, ExecuteEnd, ExecuteRejected, ExecuteAccepted, ExecuteNotify
  <1>10. ASSUME Owner PROVE UNCHANGED <<queue, held, status, m_cb, coro_id>>
    BY <1>10 DEF Owner, Start, StartThread, StartFails, Stop, StopNotify, JoinThread, JoinNull
  <1>11. CASE UNCHANGED vars
    BY <1>1, <1>11 DEF vars
  <1> QED BY <1>1, <1>2, <1>3, <1>4, <1>5, <1>6, <1>7, <1>8, <1>9, <1>10, <1>11
          DEF Next, Running, Over

-----------------------------------------------------------------------------
(* Every step of a worker, a client or the owner keeps the inductive       *)
(* invariant (scheduler.cpp:29-159).                                       *)
THEOREM NextInv == ASSUME Inv, [Next]_vars PROVE Inv'
  <1>1. CASE Next
    BY <1>1, TypeStep, ThreadStep, PlacesStep, CorosStep DEF Inv
  <1>2. CASE UNCHANGED vars
    BY <1>2 DEF vars, workerVars, coroVars, executeVars, ownerVars, Inv, TypeOK, HeldTyped,
      ThreadsExist, CurrentIsHeld, Places, Coros, HeldNotQueued, HeldOnce, CalledNowhere,
      PlacedSubmitted, Numbered, PlacedCreated, HasCallback, PoolEnded
  <1> QED BY <1>1, <1>2

(* The inductive invariant holds in every reachable state of the scheduler.*)
THEOREM SpecInv == Spec => []Inv
  BY InitInv, NextInv, PTL DEF Spec

(* Every variable has its type, in every reachable state.                  *)
THEOREM TypeCorrect == Spec => []TypeOK
  <1>1. Inv => TypeOK
    BY DEF Inv
  <1> QED BY <1>1, SpecInv, PTL

(* No task is lost in two places: however execute(), stealing, yielding and *)
(* pooling interleave, a job or a coroutine is in one position of one      *)
(* queue or in the hands of one worker (scheduler.cpp:56-159).             *)
THEOREM TasksInOnePlace == Spec => []OnePlace
  <1>1. Inv => OnePlace
    BY DEF Inv, Places, OnePlace, Apart, HeldNotQueued, HeldOnce, In, Queued
  <1> QED BY <1>1, SpecInv, PTL

(* What run() resumed is the thread's current coroutine until it switches  *)
(* back, and no second worker runs it (coroutine.cpp:59-79).               *)
THEOREM CurrentCoroutineIsHeld == Spec => []CurrentIsHeld
  <1>1. Inv => CurrentIsHeld
    BY DEF Inv
  <1> QED BY <1>1, SpecInv, PTL

(* reset() is only called on a coroutine that has ended (coroutine.cpp:82).*)
THEOREM PooledHaveFinished == Spec => []PoolFinished
  <1>1. Inv => PoolFinished
    BY DEF Inv, Coros, PoolEnded, PoolFinished, In, Queued, Item
  <1> QED BY <1>1, SpecInv, PTL

-----------------------------------------------------------------------------
(* Draining.  While the flag is set there is, for every queue that holds   *)
(* more than what came too late, a worker that will still look at it, or   *)
(* a thread that start() failed to create, on which stop() will die.       *)

\* Where pickTask looks k-th.
SourceAt(w, k) ==
  IF k = 0 THEN w ELSE IF k = 1 THEN Global ELSE Victim(w, k - 1)

\* Worker w will look at q before it exits.
WillLook(w, q) ==
  /\ pc[w] \notin {"none", "exit"}
  /\ draining[w] /\ pc[w] = "peek" =>
       \E k \in 0 .. ThreadCount : scan[w] <= k /\ SourceAt(w, k) = q
  /\ draining[w] /\ pc[w] = "take" => queue[Source(w)] # <<>>

\* The thread of worker w does not exist, and stop() has yet to join it.
Missing(w) == pc[w] = "none" /\ (ctl = "notify" \/ (ctl = "joining" /\ cursor <= w))

Covered(q) == \E w \in Worker : WillLook(w, q) \/ Missing(w)

\* Where stop() is tells m_stopped; workers only drain while it is set.
StopKnown ==
  /\ m_stopped <=> ctl \in {"stopped", "notify", "joining"}
  /\ \A w \in Worker :
       /\ pc[w] = "exit" => m_stopped
       /\ draining[w] /\ pc[w] \notin {"none", "test", "wait"} => m_stopped

NothingForgotten ==
  m_stopped => \A q \in TaskQueue, x \in Item : In(x, q, queue) /\ x \notin late => Covered(q)

-----------------------------------------------------------------------------
(* Coroutines and jobs.                                                    *)

\* A coroutine that has not ended is queued or held.
NotLost ==
  \A c \in Coro : status[c] \notin Finished \cup {"NONE"} =>
    (\E q \in TaskQueue : In(c, q, queue)) \/ (\E w \in Worker : held[w] = c)

Active(c) == status[c] \in {"RADY", "RUNN", "SUSP"}
Runs(c)   == \E w \in Worker : pc[w] = "run" /\ held[w] = c

\* A job that no coroutine was made for yet.
Waits(j) ==
  \/ j \notin submitted
  \/ \E q \in Queue : In(j, q, queue)
  \/ \E w \in Worker : held[w] = j
  \/ \E t \in Thread : call[t].at = "enqueue" /\ call[t].job = j

OneCoroutine == \A c, d \in Coro : Active(c) /\ Active(d) /\ m_cb[c] = m_cb[d] => c = d

NotDone ==
  \A c \in Coro : status[c] \in {"RADY", "SUSP"} \/ Runs(c) => m_cb[c] \notin done

WaitingIsFresh ==
  \A j \in Job : Waits(j) => j \notin done /\ \A c \in Coro : Active(c) => m_cb[c] # j

DInv == StopKnown /\ NothingForgotten /\ late \subseteq Job
JInv == OneCoroutine /\ NotDone /\ WaitingIsFresh

-----------------------------------------------------------------------------
(* pickTask looks into every queue of tasks before it gives up             *)
(* (scheduler.cpp:80-101).                                                 *)
LEMMA LooksEverywhere ==
  ASSUME NEW w \in Worker, NEW q \in TaskQueue
  PROVE  \E k \in 0 .. ThreadCount : SourceAt(w, k) = q
  <1> USE ThreadCountAssumption DEF Worker
  <1>1. CASE q = w
    <2>1. SourceAt(w, 0) = q
      BY <1>1 DEF SourceAt
    <2> QED BY <2>1
  <1>2. CASE q = Global
    <2>1. SourceAt(w, 1) = q
      BY <1>2 DEF SourceAt
    <2> QED BY <2>1
  <1>3. CASE q \in Worker /\ w < q
    <2>1. q - w + 1 \in 2 .. ThreadCount /\ Victim(w, q - w) = q
      BY <1>3 DEF Victim
    <2>2. SourceAt(w, q - w + 1) = Victim(w, q - w)
      BY <1>3, <2>1 DEF SourceAt
    <2> QED BY <2>1, <2>2
  <1>4. CASE q \in Worker /\ q < w
    <2> DEFINE i == ThreadCount - w + q
    <2>1. i + 1 \in 2 .. ThreadCount /\ Victim(w, i) = q
      BY <1>4 DEF Victim
    <2>2. SourceAt(w, i + 1) = Victim(w, i)
      BY <1>4, <2>1 DEF SourceAt
    <2> QED BY <2>1, <2>2
  <1> QED BY <1>1, <1>2, <1>3, <1>4 DEF TaskQueue

\* Where the flag is set, and how far drain loops may get while it is not.
LEMMA StopKnownStep ==
  ASSUME Inv, DInv, Next PROVE StopKnown'
  <1> USE DEF workerVars, coroVars, executeVars, ownerVars, Goto, StopKnown
  <1>a. /\ pc \in [Worker -> PC] /\ draining \in [Worker -> BOOLEAN] /\ m_stopped \in BOOLEAN
        /\ cursor \in Worker
    BY DEF Inv, TypeOK
  <1>b. StopKnown /\ ThreadsExist
    BY DEF Inv, DInv
  <1>1. CASE UNCHANGED vars
    BY <1>1, <1>b DEF vars
  <1>2. ASSUME NEW w \in Worker, WorkerStep(w) PROVE StopKnown'
    <2>1. CASE TestStopped(w)
      BY <1>a, <1>b, <2>1 DEF TestStopped
    <2>2. CASE WaitTimeout(w)
      BY <1>a, <1>b, <2>2 DEF WaitTimeout
    <2>3. CASE PeekEmpty(w)
      BY <1>a, <1>b, <2>3 DEF PeekEmpty, NoTask
    <2>4. CASE PeekNonEmpty(w)
      BY <1>a, <1>b, <2>4 DEF PeekNonEmpty
    <2>5. CASE TakeNothing(w)
      BY <1>a, <1>b, <2>5 DEF TakeNothing, NoTask
    <2>6. CASE TakeTask(w)
      <3> DEFINE x == Head(queue[Source(w)])
      <3>1. /\ pc' = [pc EXCEPT ![w] = IF x \in Job THEN "idle" ELSE "resume"]
            /\ pc[w] = "take"
        BY <2>6 DEF TakeTask
      <3>2. UNCHANGED <<draining, ownerVars>>
        BY <2>6 DEF TakeTask
      <3> HIDE DEF x
      <3>3. /\ pc'[w] = "idle" \/ pc'[w] = "resume"
            /\ \A v \in Worker : v # w => pc'[v] = pc[v]
        BY <1>a, <3>1
      <3> QED BY <1>a, <1>b, <3>1, <3>2, <3>3
    <2>7. CASE CreateCoroutine(w) \/ PoolNonEmpty(w) \/ ReuseNothing(w) \/ ReuseCoroutine(w)
      <3>1. UNCHANGED <<draining, ownerVars>>
        BY <2>7 DEF CreateCoroutine, PoolNonEmpty, ReuseNothing, ReuseCoroutine
      <3>2. /\ pc[w] \in {"idle", "reuse"}
            /\ pc' = pc \/ \E label \in {"reuse", "resume"} : pc' = [pc EXCEPT ![w] = label]
        BY <2>7 DEF CreateCoroutine, PoolNonEmpty, ReuseNothing, ReuseCoroutine
      <3> QED BY <1>a, <1>b, <3>1, <3>2
    <2>8. CASE Resume(w)
      BY <1>a, <1>b, <2>8 DEF Resume
    <2>9. CASE Yield(w) \/ EndJob(w)
      BY <1>a, <1>b, <2>9 DEF Yield, EndJob, SwitchBack
    <2>10. CASE PutBack(w)
      BY <1>a, <1>b, <2>10 DEF PutBack, NextRound
    <2> QED BY <1>2, <2>1, <2>2, <2>3, <2>4, <2>5, <2>6, <2>7, <2>8, <2>9, <2>10
            DEF WorkerStep
  <1>3. ASSUME NEW t \in Thread, ExecuteBegin(t) \/ ExecuteEnd(t) PROVE StopKnown'
    <2>1. CASE ExecuteNotify(t)
      BY <1>a, <1>b, <2>1 DEF ExecuteNotify, NotifyAll
    <2>2. CASE ~ ExecuteNotify(t)
      <3>1. UNCHANGED <<workerVars, ownerVars>>
        BY <1>3, <2>2 DEF ExecuteBegin, ExecuteEnd, ExecuteRejected, ExecuteAccepted,
                          ExecuteEnqueue
      <3> QED BY <1>b, <3>1
    <2> QED BY <2>1, <2>2
  <1>4. CASE Owner
    <2>1. CASE Start
      BY <1>a, <1>b, <2>1 DEF Start, OwnerStep, ThreadsExist
    <2>2. CASE StartThread
      BY <1>a, <1>b, <2>2 DEF StartThread, NextWorker
    <2>3. CASE Stop \/ StartFails
      BY <1>a, <1>b, <2>3 DEF Stop, StartFails, OwnerStep
    <2>4. CASE StopNotify
      BY <1>a, <1>b, <2>4 DEF StopNotify, OwnerStep, NotifyAll
    <2>5. CASE JoinThread
      BY <1>a, <1>b, <2>5 DEF JoinThread, NextWorker
    <2>6. CASE JoinNull
      BY <1>b, <2>6 DEF JoinNull
    <2> QED BY <1>4, <2>1, <2>2, <2>3, <2>4, <2>5, <2>6 DEF Owner
  <1> QED BY <1>1, <1>2, <1>3, <1>4 DEF Next, Running, Over

(* A worker's step never leaves a queue with tasks uncovered.  One that    *)
(* gives up at a queue which another has just emptied leaves the rest to   *)
(* that other, which will look everywhere again (scheduler.cpp:141-159).   *)
LEMMA CoveredByWorkers ==
  ASSUME Inv, NEW w \in Worker, WorkerStep(w), NEW q \in TaskQueue,
         PeekEmpty(w) \/ TakeNothing(w) => ~ IsEmpty(q) /\ Covered(q)
  PROVE  Covered(q)'
  <1> USE DEF workerVars, coroVars, executeVars, ownerVars, Goto
  <1>a. /\ pc \in [Worker -> PC] /\ draining \in [Worker -> BOOLEAN]
        /\ scan \in [Worker -> 0 .. ThreadCount] /\ ThreadCount \in Nat
    BY ThreadCountAssumption DEF Inv, TypeOK
  <1>b. PICK k \in 0 .. ThreadCount : SourceAt(w, k) = q
    BY LooksEverywhere
  <1>c. SourceAt(w, k)' = q
    BY <1>b DEF SourceAt, Victim
  <1>d. ASSUME WillLook(w, q)' PROVE Covered(q)'
    BY <1>d DEF Covered
  <1>1. CASE TestStopped(w)
    <2>1. pc'[w] = "peek" /\ scan'[w] = 0
      BY <1>a, <1>1 DEF TestStopped
    <2>2. scan'[w] <= k
      BY <2>1
    <2> QED BY <1>c, <1>d, <2>1, <2>2 DEF WillLook
  <1>2. CASE WaitTimeout(w)
    BY <1>a, <1>2, <1>d DEF WaitTimeout, WillLook
  <1>3. CASE PeekEmpty(w)
    <2>1. PICK u \in Worker : WillLook(u, q) \/ Missing(u)
      BY <1>3 DEF Covered
    <2>2. CASE Missing(u)
      <3>1. u # w /\ pc'[u] = pc[u] /\ UNCHANGED <<ctl, cursor>>
        BY <1>a, <1>3, <2>2 DEF PeekEmpty, Missing, NoTask
      <3> QED BY <2>2, <3>1 DEF Covered, Missing
    <2>3. CASE u # w /\ WillLook(u, q)
      <3>1. /\ pc'[u] = pc[u] /\ scan'[u] = scan[u] /\ UNCHANGED <<draining, queue>>
        BY <1>a, <1>3, <2>3 DEF PeekEmpty, NoTask
      <3>2. WillLook(u, q)'
        BY <2>3, <3>1 DEF WillLook, Source, SourceAt, Victim
      <3> QED BY <3>2 DEF Covered
    <2>4. CASE u = w /\ ~ draining[w]
      BY <1>a, <1>3, <1>d, <2>4 DEF PeekEmpty, NoTask, WillLook
    <2>5. CASE u = w /\ draining[w] /\ WillLook(w, q)
      <3>1. PICK m \in 0 .. ThreadCount : scan[w] <= m /\ SourceAt(w, m) = q
        BY <1>3, <2>5 DEF WillLook, PeekEmpty
      <3>2. m # scan[w]
        BY <1>3, <3>1 DEF PeekEmpty, Source, SourceAt
      <3>3. scan[w] + 1 <= m /\ scan[w] # ThreadCount
        BY <1>a, <3>1, <3>2
      <3>4. pc'[w] = "peek" /\ scan'[w] = scan[w] + 1
        BY <1>a, <1>3, <3>3 DEF PeekEmpty, LastSource
      <3>5. SourceAt(w, m)' = q
        BY <3>1 DEF SourceAt, Victim
      <3>6. WillLook(w, q)'
        BY <3>3, <3>4, <3>5 DEF WillLook
      <3> QED BY <1>d, <3>6
    <2> QED BY <2>1, <2>2, <2>3, <2>4, <2>5
  <1>4. CASE PeekNonEmpty(w)
    <2>1. pc'[w] = "take" /\ queue'[Source(w)'] # <<>>
      BY <1>a, <1>4 DEF PeekNonEmpty, IsEmpty, Source, Victim
    <2> QED BY <1>d, <2>1 DEF WillLook
  <1>5. CASE TakeNothing(w)
    <2>1. PICK u \in Worker : WillLook(u, q) \/ Missing(u)
      BY <1>5 DEF Covered
    <2>2. CASE Missing(u)
      <3>1. u # w /\ pc'[u] = pc[u] /\ UNCHANGED <<ctl, cursor>>
        BY <1>a, <1>5, <2>2 DEF TakeNothing, Missing, NoTask
      <3> QED BY <2>2, <3>1 DEF Covered, Missing
    <2>3. CASE u # w /\ WillLook(u, q)
      <3>1. /\ pc'[u] = pc[u] /\ UNCHANGED <<scan, draining, queue>>
        BY <1>a, <1>5, <2>3 DEF TakeNothing, NoTask
      <3>2. WillLook(u, q)'
        BY <2>3, <3>1 DEF WillLook, Source, SourceAt, Victim
      <3> QED BY <3>2 DEF Covered
    <2>4. CASE u = w /\ WillLook(w, q)
      <3>1. ~ draining[w]
        BY <1>5, <2>4 DEF TakeNothing, WillLook, IsEmpty
      <3> QED BY <1>a, <1>5, <1>d, <3>1 DEF TakeNothing, NoTask, WillLook
    <2> QED BY <2>1, <2>2, <2>3, <2>4
  <1>6. CASE TakeTask(w)
    BY <1>a, <1>6, <1>d DEF TakeTask, WillLook
  <1>7. CASE CreateCoroutine(w) \/ PoolNonEmpty(w) \/ ReuseNothing(w) \/ ReuseCoroutine(w)
    BY <1>a, <1>7, <1>d DEF CreateCoroutine, PoolNonEmpty, ReuseNothing, ReuseCoroutine, WillLook
  <1>8. CASE Resume(w)
    BY <1>a, <1>8, <1>d DEF Resume, WillLook
  <1>9. CASE Yield(w) \/ EndJob(w)
    BY <1>a, <1>9, <1>d DEF Yield, EndJob, SwitchBack, WillLook
  <1>10. CASE PutBack(w)
    <2>1. pc'[w] \in {"peek", "test"} /\ scan'[w] = 0
      BY <1>a, <1>10 DEF PutBack, NextRound
    <2>2. scan'[w] <= k
      BY <2>1
    <2> QED BY <1>c, <1>d, <2>1, <2>2 DEF WillLook
  <1> QED BY <1>1, <1>2, <1>3, <1>4, <1>5, <1>6, <1>7, <1>8, <1>9, <1>10 DEF WorkerStep

(* What is queued while the flag is set and came in time is covered.       *)
LEMMA NothingForgottenStep ==
  ASSUME Inv, DInv, Next PROVE NothingForgotten' /\ (late \subseteq Job)'
  <1> USE DEF workerVars, coroVars, executeVars, ownerVars, Goto
  <1>a. /\ pc \in [Worker -> PC] /\ draining \in [Worker -> BOOLEAN] /\ m_stopped \in BOOLEAN
        /\ cursor \in Worker /\ queue \in [Queue -> Seq(Item)]
        /\ scan \in [Worker -> 0 .. ThreadCount] /\ ThreadCount \in Nat \ {0}
    BY ThreadCountAssumption DEF Inv, TypeOK
  <1>b. StopKnown /\ ThreadsExist /\ NothingForgotten /\ late \subseteq Job
    BY DEF Inv, DInv
  <1>c. TaskQueue \subseteq Queue
    BY DEF TaskQueue, Queue
  <1>d. \A q \in TaskQueue : \A x : In(x, q, queue) => ~ IsEmpty(q)
    BY DEF In, IsEmpty
  <1>1. CASE UNCHANGED vars
    BY <1>1, <1>b DEF vars, NothingForgotten, Covered, WillLook, Missing, Source, SourceAt, Victim
  <1>2. ASSUME NEW w \in Worker, WorkerStep(w)
        PROVE  NothingForgotten' /\ (late \subseteq Job)'
    <2>1. UNCHANGED <<m_stopped, late, ctl, cursor>>
      BY <1>2 DEF WorkerStep, TestStopped, WaitTimeout, PeekEmpty, PeekNonEmpty, TakeNothing,
        TakeTask, CreateCoroutine, PoolNonEmpty, ReuseNothing, ReuseCoroutine, Resume, Yield,
        EndJob, SwitchBack, PutBack
    <2>2. ASSUME m_stopped', NEW q \in TaskQueue, NEW x \in Item, In(x, q, queue'), x \notin late'
          PROVE  Covered(q)'
      <3>1. PeekEmpty(w) \/ TakeNothing(w) => ~ IsEmpty(q) /\ Covered(q)
        <4>1. PeekEmpty(w) \/ TakeNothing(w) => queue' = queue
          BY DEF PeekEmpty, TakeNothing
        <4> QED BY <1>b, <1>d, <2>1, <2>2, <4>1 DEF NothingForgotten
      <3> QED BY <1>2, <3>1, CoveredByWorkers
    <2> QED BY <1>b, <2>1, <2>2 DEF NothingForgotten
  <1>3. ASSUME NEW t \in Thread, ExecuteBegin(t)
        PROVE  NothingForgotten' /\ (late \subseteq Job)'
    <2>1. UNCHANGED <<queue, workerVars, ownerVars, late>>
      BY <1>3 DEF ExecuteBegin, ExecuteRejected, ExecuteAccepted
    <2> QED BY <1>b, <2>1 DEF NothingForgotten, Covered, WillLook, Missing, Source, SourceAt, Victim
  <1>4. ASSUME NEW t \in Thread, ExecuteEnqueue(t)
        PROVE  NothingForgotten' /\ (late \subseteq Job)'
    <2> DEFINE j == call[t].job  p == Target(thread_idx[j])
    <2>1. /\ j \in Job /\ \A r \in Queue : ~ In(j, r, queue)
      BY <1>4 DEF ExecuteEnqueue, CalledNowhere, Inv, Places, TypeOK
    <2>2. p \in Queue
      BY DEF Target, Queue
    <2>3. Enqueue(p, j) /\ UNCHANGED <<workerVars, ownerVars>>
      BY <1>4 DEF ExecuteEnqueue
    <2>4. late' = IF m_stopped THEN late \cup {j} ELSE late
      BY <1>4 DEF ExecuteEnqueue
    <2>5. \A y : \A r \in Queue : In(y, r, queue') <=> In(y, r, queue) \/ (y = j /\ r = p)
      BY <2>1, <2>2, <2>3, EnqueueLemma DEF Inv, TypeOK, Places, Item
    <2>6. \A r \in Queue : queue[r] # <<>> => queue'[r] # <<>>
      <3> SUFFICES ASSUME NEW r \in Queue, queue[r] # <<>> PROVE queue'[r] # <<>>
        OBVIOUS
      <3>1. queue[r] \in Seq(Item)
        BY <1>a
      <3>2. In(queue[r][1], r, queue)
        BY <3>1 DEF In
      <3>3. In(queue[r][1], r, queue')
        BY <2>5, <3>2
      <3> QED BY <3>3 DEF In
    <2>7. ASSUME m_stopped', NEW q \in TaskQueue, NEW x \in Item, In(x, q, queue'), x \notin late'
          PROVE  Covered(q)'
      <3>1. In(x, q, queue) /\ x \notin late
        BY <1>c, <2>3, <2>4, <2>5, <2>7
      <3>2. Covered(q)
        BY <1>b, <2>3, <2>7, <3>1 DEF NothingForgotten
      <3>3. ASSUME NEW u \in Worker, WillLook(u, q) PROVE WillLook(u, q)'
        <4>1. Source(u) \in Queue /\ Source(u)' = Source(u)
          BY <2>3, SourceIsQueue DEF Inv, Source, Victim
        <4> QED BY <2>3, <2>6, <3>3, <4>1 DEF WillLook, SourceAt, Victim
      <3>4. ASSUME NEW u \in Worker, Missing(u) PROVE Missing(u)'
        BY <2>3, <3>4 DEF Missing
      <3> QED BY <3>2, <3>3, <3>4 DEF Covered
    <2>8. late' \subseteq Job
      BY <1>b, <2>1, <2>4
    <2> QED BY <2>7, <2>8 DEF NothingForgotten
  <1>5. ASSUME NotifyAll, UNCHANGED <<queue, draining, scan, late, cursor>>,
               NEW q \in TaskQueue, NEW u \in Worker, WillLook(u, q)
        PROVE  WillLook(u, q)'
    BY <1>a, <1>5 DEF NotifyAll, WillLook, Source, SourceAt, Victim
  <1>6. ASSUME NEW t \in Thread, ExecuteNotify(t)
        PROVE  NothingForgotten' /\ (late \subseteq Job)'
    <2>1. NotifyAll /\ UNCHANGED <<queue, draining, scan, late, ownerVars>>
      BY <1>6 DEF ExecuteNotify
    <2>2. ASSUME NEW u \in Worker, Missing(u) PROVE Missing(u)'
      BY <1>a, <2>1, <2>2 DEF Missing, NotifyAll
    <2> QED BY <1>5, <1>b, <2>1, <2>2 DEF NothingForgotten, Covered
  <1>7. CASE Start \/ StartThread \/ StartFails
    <2>1. ~ m_stopped' /\ UNCHANGED late
      BY <1>7, <1>b DEF Start, StartThread, StartFails, OwnerStep, StopKnown
    <2> QED BY <1>b, <2>1 DEF NothingForgotten
  <1>8. CASE Stop
    <2>1. ASSUME NEW q \in TaskQueue PROVE Covered(q)'
      <3>1. 0 \in Worker
        BY <1>a DEF Worker
      <3>2. /\ ~ m_stopped /\ ctl' = "notify"
            /\ UNCHANGED <<queue, workerVars>>
        BY <1>8, <1>b DEF Stop, OwnerStep, StopKnown
      <3>3. CASE pc[0] = "none"
        BY <3>1, <3>2, <3>3 DEF Covered, Missing
      <3>4. CASE pc[0] # "none"
        <4>1. pc[0] # "exit" /\ (draining[0] => pc[0] \in {"test", "wait"})
          BY <1>b, <3>1, <3>2, <3>4 DEF StopKnown
        <4>2. WillLook(0, q)'
          BY <3>2, <3>4, <4>1 DEF WillLook
        <4> QED BY <3>1, <4>2 DEF Covered
      <3> QED BY <3>3, <3>4
    <2>2. UNCHANGED late
      BY <1>8 DEF Stop
    <2> QED BY <1>b, <2>1, <2>2 DEF NothingForgotten
  <1>9. CASE StopNotify
    <2>1. /\ NotifyAll /\ UNCHANGED <<queue, draining, scan, late, cursor, m_stopped>>
          /\ ctl = "notify" /\ ctl' = "joining"
      BY <1>9 DEF StopNotify, OwnerStep
    <2>2. ASSUME NEW u \in Worker, Missing(u) PROVE Missing(u)'
      BY <1>a, <1>b, <2>1, <2>2 DEF Missing, NotifyAll, ThreadsExist, Worker
    <2> QED BY <1>5, <1>b, <2>1, <2>2 DEF NothingForgotten, Covered
  <1>10. CASE JoinThread
    <2>1. /\ ctl = "joining" /\ pc[cursor] = "exit" /\ pc' = [pc EXCEPT ![cursor] = "none"]
          /\ UNCHANGED <<queue, draining, scan, late, m_stopped>>
          /\ NextWorker("stopped")
      BY <1>10 DEF JoinThread
    <2>2. ASSUME NEW q \in TaskQueue, NEW u \in Worker, WillLook(u, q) PROVE WillLook(u, q)'
      <3>1. u # cursor /\ pc'[u] = pc[u]
        BY <1>a, <2>1, <2>2 DEF WillLook
      <3> QED BY <2>1, <2>2, <3>1 DEF WillLook, Source, SourceAt, Victim
    <2>3. ASSUME NEW u \in Worker, Missing(u) PROVE Missing(u)'
      <3>1. cursor < u /\ cursor # ThreadCount - 1
        BY <1>a, <2>1, <2>3 DEF Missing, Worker
      <3>2. cursor' = cursor + 1 /\ ctl' = ctl
        BY <2>1, <3>1 DEF NextWorker
      <3>3. pc'[u] = pc[u]
        BY <1>a, <2>1, <3>1 DEF Worker
      <3> QED BY <1>a, <2>1, <2>3, <3>1, <3>2, <3>3 DEF Missing, Worker
    <2> QED BY <1>b, <2>1, <2>2, <2>3 DEF NothingForgotten, Covered
  <1>11. CASE JoinNull
    <2>1. UNCHANGED <<queue, workerVars, ownerVars, late>>
      BY <1>11 DEF JoinNull
    <2> QED BY <1>b, <2>1 DEF NothingForgotten, Covered, WillLook, Missing, Source, SourceAt, Victim
  <1> QED BY <1>1, <1>2, <1>3, <1>4, <1>6, <1>7, <1>8, <1>9, <1>10, <1>11
          DEF Next, Running, Over, ExecuteEnd, Owner

\* The invariant about draining holds in every reachable state.
LEMMA DrainInvariant == Spec => []DInv
  <1>1. Init => DInv
    BY DistinctAssumption DEF Init, DInv, StopKnown, NothingForgotten, In, TaskQueue, Queue
  <1>2. Inv /\ DInv /\ [Next]_vars => DInv'
    <2>1. ASSUME Inv, DInv, Next PROVE DInv'
      BY <2>1, StopKnownStep, NothingForgottenStep DEF DInv
    <2>2. ASSUME DInv, UNCHANGED vars PROVE DInv'
      BY <2>2 DEF vars, workerVars, coroVars, executeVars, ownerVars, DInv, StopKnown,
        NothingForgotten, Covered, WillLook, Missing, Source, SourceAt, Victim
    <2> QED BY <2>1, <2>2
  <1> QED BY <1>1, <1>2, SpecInv, PTL DEF Spec

(* When stop() has returned, all that is left in the queues of tasks was   *)
(* enqueued by calls that overlapped with it, for any number of workers,   *)
(* whichever of them gave up first (scheduler.cpp:141-159).                *)
THEOREM StopDrains == Spec => []DrainComplete
  <1>1. Inv /\ DInv => DrainComplete
    <2> SUFFICES ASSUME Inv, DInv, ctl = "stopped", NEW q \in TaskQueue,
                        NEW i \in 1 .. Len(queue[q])
                 PROVE  queue[q][i] \in late
      BY DEF DrainComplete
    <2>1. queue[q] \in Seq(Item)
      BY DEF Inv, TypeOK, TaskQueue, Queue
    <2>2. queue[q][i] \in Item /\ In(queue[q][i], q, queue)
      BY <2>1 DEF In
    <2>3. ~ Covered(q)
      BY DEF Inv, ThreadsExist, Covered, WillLook, Missing
    <2> QED BY <2>2, <2>3 DEF DInv, StopKnown, NothingForgotten
  <1> QED BY <1>1, SpecInv, DrainInvariant, PTL

-----------------------------------------------------------------------------
(* No coroutine is lost: it is put into a worker's hands when it is taken  *)
(* from a queue, made or reset, and into a queue of tasks by the worker    *)
(* that ran it, unless it has ended (scheduler.cpp:103-159).               *)
LEMMA NotLostStep ==
  ASSUME Inv, NotLost, Next PROVE NotLost'
  <1> USE DEF workerVars, coroVars, executeVars, ownerVars, HasJob, HasCoro
  <1>a. /\ queue \in [Queue -> Seq(Item)]
        /\ held \in [Worker -> Item \cup {None}]
        /\ status \in [Coro -> Status]
        /\ coro_id \in 0 .. MaxCoro
    BY DEF Inv, TypeOK
  <1>b. HeldTyped /\ Apart(queue) /\ HeldNotQueued /\ CalledNowhere /\ CurrentIsHeld /\ PoolEnded
    BY DEF Inv, Places, Coros
  <1>c. /\ None \notin Item /\ Job \cap Coro = {} /\ Item = Job \cup Coro
        /\ TaskQueue \subseteq Queue /\ Pool \in Queue /\ Worker \subseteq TaskQueue
    BY DistinctAssumption DEF Item, TaskQueue, Queue
  <1>1. CASE UNCHANGED <<queue, held, status>>
    BY <1>1 DEF NotLost, In
  <1>2. ASSUME NEW w \in Worker, TakeTask(w) PROVE NotLost'
    <2> DEFINE q == Source(w)  x == Head(queue[q])
    <2>1. q \in Queue
      BY SourceIsQueue DEF Inv
    <2>2. ~ IsEmpty(q) /\ Dequeue(q)
      BY <1>2 DEF TakeTask
    <2>3. \A y : \A p \in Queue : In(y, p, queue') <=> In(y, p, queue) /\ y # x
      BY <1>a, <1>b, <2>1, <2>2, DequeueLemma
    <2>4. held' = [held EXCEPT ![w] = x] /\ UNCHANGED status
      BY <1>2 DEF TakeTask
    <2>5. held[w] = None
      BY <1>2, <1>b DEF TakeTask, HeldTyped
    <2> HIDE DEF q, x
    <2> QED BY <1>a, <1>c, <2>3, <2>4, <2>5 DEF NotLost
  <1>3. ASSUME NEW w \in Worker, CreateCoroutine(w) PROVE NotLost'
    <2> DEFINE d == coro_id + 1
    <2>1. /\ status' = [status EXCEPT ![d] = "RADY"] /\ held' = [held EXCEPT ![w] = d]
          /\ UNCHANGED queue
      BY <1>3 DEF CreateCoroutine
    <2>2. held[w] \in Job
      BY <1>3, <1>b DEF CreateCoroutine, HeldTyped
    <2> HIDE DEF d
    <2>3. /\ \A c \in Coro : c # d => status'[c] = status[c]
          /\ \A v \in Worker, c \in Coro : held[v] = c => held'[v] = c
          /\ held'[w] = d
      BY <1>a, <1>c, <2>1, <2>2
    <2> QED BY <2>1, <2>3 DEF NotLost, In
  <1>4. ASSUME NEW w \in Worker, ReuseCoroutine(w) PROVE NotLost'
    <2> DEFINE d == Head(queue[Pool])
    <2>1. ~ IsEmpty(Pool) /\ Dequeue(Pool) /\ held[w] \in Job
      BY <1>4, <1>b DEF ReuseCoroutine, HeldTyped
    <2>2. /\ d \in Item /\ In(d, Pool, queue)
          /\ \A y : \A p \in Queue : In(y, p, queue') <=> In(y, p, queue) /\ y # d
      BY <1>a, <1>b, <1>c, <2>1, DequeueLemma
    <2>3. status[d] \in Finished
      BY <1>b, <2>2 DEF PoolEnded
    <2>4. ReuseFor(w, d)
      BY <1>4, <2>3 DEF ReuseCoroutine, Finished
    <2> HIDE DEF d
    <2>5. /\ \A c \in Coro : c # d => status'[c] = status[c]
          /\ \A v \in Worker, c \in Coro : held[v] = c => held'[v] = c
          /\ held'[w] = d
      BY <1>a, <1>c, <2>1, <2>4 DEF ReuseFor
    <2> QED BY <1>c, <2>2, <2>5 DEF NotLost
  <1>5. ASSUME NEW w \in Worker, PutBack(w) PROVE NotLost'
    <2> DEFINE d == held[w]  q == Home(w, d)
    <2>1. d \in Coro /\ q \in Queue /\ (status[d] \notin Finished => q \in TaskQueue)
      BY <1>5, <1>b, <1>c DEF PutBack, HeldTyped, Home
    <2>2. \A p \in Queue : ~ In(d, p, queue)
      BY <1>b, <1>c, <2>1 DEF HeldNotQueued
    <2>3. Enqueue(q, d) /\ held' = [held EXCEPT ![w] = None] /\ UNCHANGED status
      BY <1>5 DEF PutBack
    <2>4. \A y : \A p \in Queue : In(y, p, queue') <=> In(y, p, queue) \/ (y = d /\ p = q)
      BY <1>a, <1>b, <1>c, <2>1, <2>2, <2>3, EnqueueLemma
    <2> HIDE DEF q
    <2> QED BY <1>a, <1>c, <2>1, <2>3, <2>4 DEF NotLost
  <1>6. ASSUME NEW t \in Thread, ExecuteEnqueue(t) PROVE NotLost'
    <2> DEFINE j == call[t].job  q == Target(thread_idx[j])
    <2>1. /\ j \in Job /\ \A p \in Queue : ~ In(j, p, queue)
      BY <1>6, <1>b DEF ExecuteEnqueue, CalledNowhere, Inv, TypeOK
    <2>2. q \in Queue
      BY DEF Target, Queue
    <2>3. Enqueue(q, j) /\ UNCHANGED <<held, status>>
      BY <1>6 DEF ExecuteEnqueue
    <2>4. \A y : \A p \in Queue : In(y, p, queue') <=> In(y, p, queue) \/ (y = j /\ p = q)
      BY <1>a, <1>b, <1>c, <2>1, <2>2, <2>3, EnqueueLemma
    <2> HIDE DEF j, q
    <2> QED BY <1>c, <2>3, <2>4 DEF NotLost
  <1>7. ASSUME NEW w \in Worker, Resume(w) \/ Yield(w) \/ EndJob(w) PROVE NotLost'
    <2> DEFINE d == held[w]
    <2>1. d \in Coro /\ (pc[w] = "run" => t_cur_coro[w] = d)
      BY <1>7, <1>b DEF Resume, Yield, EndJob, SwitchBack, HeldTyped, CurrentIsHeld
    <2>2. /\ status' = status \/ \E s : status' = [status EXCEPT ![d] = s]
          /\ UNCHANGED <<queue, held>>
      <3>1. CASE Resume(w)
        BY <3>1 DEF Resume
      <3>2. CASE Yield(w)
        BY <2>1, <3>2 DEF Yield, SwitchBack
      <3>3. CASE EndJob(w)
        BY <2>1, <3>3 DEF EndJob, SwitchBack
      <3> QED BY <1>7, <3>1, <3>2, <3>3
    <2>3. \A c \in Coro : c # d => status'[c] = status[c]
      BY <1>a, <2>2
    <2> QED BY <2>2, <2>3 DEF NotLost, In
  <1>8. ASSUME NEW w \in Worker, WorkerStep(w)
        PROVE  \/ UNCHANGED <<queue, held, status>>
               \/ TakeTask(w) \/ CreateCoroutine(w) \/ ReuseCoroutine(w) \/ PutBack(w)
               \/ Resume(w) \/ Yield(w) \/ EndJob(w)
    BY <1>8 DEF WorkerStep, TestStopped, WaitTimeout, PeekEmpty, PeekNonEmpty, TakeNothing,
      PoolNonEmpty, ReuseNothing
  <1>9. ASSUME NEW t \in Thread, ExecuteBegin(t) \/ ExecuteEnd(t)
        PROVE  UNCHANGED <<queue, held, status>> \/ ExecuteEnqueue(t)
    BY <1>9 DEF ExecuteBegin, ExecuteEnd, ExecuteRejected, ExecuteAccepted, ExecuteNotify
  <1>10. ASSUME Owner PROVE UNCHANGED <<queue, held, status>>
    BY <1>10 DEF Owner, Start, StartThread, StartFails, Stop, StopNotify, JoinThread, JoinNull
  <1>11. CASE UNCHANGED vars
    BY <1>1, <1>11 DEF vars
  <1> QED BY <1>1, <1>2, <1>3, <1>4, <1>5, <1>6, <1>7, <1>8, <1>9, <1>10, <1>11
          DEF Next, Running, Over

\* No coroutine is lost in any reachable state.
LEMMA NotLostInvariant == Spec => []NotLost
  <1>1. Init => NotLost
    BY DEF Init, NotLost
  <1>2. Inv /\ NotLost /\ [Next]_vars => NotLost'
    <2>1. ASSUME NotLost, UNCHANGED vars PROVE NotLost'
      BY <2>1 DEF vars, workerVars, coroVars, NotLost, In
    <2> QED BY <2>1, NotLostStep
  <1> QED BY <1>1, <1>2, SpecInv, PTL DEF Spec

(* When stop() has returned no coroutine is suspended or waits to be run,  *)
(* so that destroying the scheduler does not trip the assertion of         *)
(* ~Coroutine: a worker that puts a coroutine back looks again, and stop() *)
(* waits for it (coroutine.cpp:32, scheduler.cpp:141-159).                 *)
THEOREM StopLeavesNoCoroutine == Spec => []StopEndsCoroutines
  <1>1. Inv /\ DInv /\ NotLost => StopEndsCoroutines
    <2> SUFFICES ASSUME Inv, DInv, NotLost, ctl = "stopped", NEW c \in Coro,
                        status[c] \notin Finished \cup {"NONE"}
                 PROVE  FALSE
      BY DEF StopEndsCoroutines
    <2>1. c \in Item /\ c \notin late /\ c # None
      BY DistinctAssumption DEF DInv, Item
    <2>2. \A w \in Worker : held[w] = None /\ pc[w] = "none"
      BY DEF Inv, ThreadsExist, HeldTyped, HasJob, HasCoro
    <2>3. PICK q \in TaskQueue : In(c, q, queue)
      BY <2>1, <2>2 DEF NotLost
    <2>4. ~ Covered(q)
      BY <2>2 DEF Covered, WillLook, Missing
    <2> QED BY <2>1, <2>3, <2>4 DEF DInv, StopKnown, NothingForgotten
  <1> QED BY <1>1, SpecInv, DrainInvariant, NotLostInvariant, PTL

-----------------------------------------------------------------------------
(* What every step keeps that makes no coroutine for a job, ends none and  *)
(* resumes none.                                                           *)
LEMMA JobsKept ==
  ASSUME JInv, UNCHANGED <<status, m_cb, done>>,
         \A j \in Job : Waits(j)' => Waits(j),
         \A c \in Coro : Runs(c)' => Runs(c)
  PROVE  JInv'
  <1>1. OneCoroutine' /\ NotDone'
    BY DEF JInv, OneCoroutine, NotDone, Active
  <1>2. WaitingIsFresh'
    BY DEF JInv, WaitingIsFresh, Active
  <1> QED BY <1>1, <1>2 DEF JInv

(* A job gets its one coroutine when a worker holds it, and nobody else    *)
(* has it then (scheduler.cpp:56-76, 103-139).                             *)
LEMMA JobsStep ==
  ASSUME Inv, JInv, Next PROVE JInv'
  <1> USE DEF workerVars, coroVars, executeVars, ownerVars, HasJob, HasCoro, Goto
  <1>a. /\ queue \in [Queue -> Seq(Item)]
        /\ held \in [Worker -> Item \cup {None}]
        /\ pc \in [Worker -> PC]
        /\ status \in [Coro -> Status]
        /\ m_cb \in [Coro -> Job \cup {None}]
        /\ coro_id \in 0 .. MaxCoro
        /\ call \in [Thread -> [at : {"idle", "enqueue", "notify"}, job : Job \cup {None}]]
    BY DEF Inv, TypeOK
  <1>b. /\ HeldTyped /\ Apart(queue) /\ HeldNotQueued /\ HeldOnce /\ CalledNowhere
        /\ PlacedSubmitted /\ CurrentIsHeld /\ PoolEnded /\ Numbered
    BY DEF Inv, Places, Coros
  <1>c. None \notin Item /\ Job \cap Coro = {} /\ Item = Job \cup Coro /\ Pool \in Queue
    BY DistinctAssumption DEF Item, Queue
  <1>d. OneCoroutine /\ NotDone /\ WaitingIsFresh
    BY DEF JInv
  <1>1. ASSUME UNCHANGED <<queue, held, call, submitted, status, m_cb, done>>,
               \A w \in Worker : pc'[w] = "run" => pc[w] = "run"
        PROVE  JInv'
    <2>1. \A j \in Job : Waits(j)' => Waits(j)
      BY <1>1 DEF Waits, In
    <2>2. \A c \in Coro : Runs(c)' => Runs(c)
      BY <1>1 DEF Runs
    <2> QED BY <1>1, <2>1, <2>2, JobsKept
  <1>2. ASSUME NEW w \in Worker, TakeTask(w) PROVE JInv'
    <2> DEFINE q == Source(w)  x == Head(queue[q])
    <2>1. q \in Queue
      BY SourceIsQueue DEF Inv
    <2>2. ~ IsEmpty(q) /\ Dequeue(q)
      BY <1>2 DEF TakeTask
    <2>3. /\ In(x, q, queue)
          /\ \A y : \A p \in Queue : In(y, p, queue') <=> In(y, p, queue) /\ y # x
      BY <1>a, <1>b, <2>1, <2>2, DequeueLemma
    <2>4. /\ held' = [held EXCEPT ![w] = x]
          /\ pc' = [pc EXCEPT ![w] = IF x \in Job THEN "idle" ELSE "resume"]
          /\ UNCHANGED <<status, m_cb, done, call, submitted>>
      BY <1>2 DEF TakeTask
    <2> HIDE DEF q, x
    <2>5. \A j \in Job : Waits(j)' => Waits(j)
      BY <1>a, <2>1, <2>3, <2>4 DEF Waits
    <2>6. \A c \in Coro : Runs(c)' => Runs(c)
      BY <1>a, <2>4 DEF Runs
    <2> QED BY <2>4, <2>5, <2>6, JobsKept
  <1>3. ASSUME NEW w \in Worker, PutBack(w) PROVE JInv'
    <2> DEFINE d == held[w]  q == Home(w, d)
    <2>1. d \in Coro /\ q \in Queue
      BY <1>3, <1>b DEF PutBack, HeldTyped, Home, Queue
    <2>2. \A p \in Queue : ~ In(d, p, queue)
      BY <1>b, <1>c, <2>1 DEF HeldNotQueued
    <2>3. /\ Enqueue(q, d) /\ held' = [held EXCEPT ![w] = None]
          /\ \E label \in {"peek", "test"} : pc' = [pc EXCEPT ![w] = label]
          /\ UNCHANGED <<status, m_cb, done, call, submitted>>
      BY <1>3 DEF PutBack, NextRound
    <2>4. \A y : \A p \in Queue : In(y, p, queue') <=> In(y, p, queue) \/ (y = d /\ p = q)
      BY <1>a, <1>b, <1>c, <2>1, <2>2, <2>3, EnqueueLemma
    <2> HIDE DEF q, d
    <2>5. \A j \in Job : Waits(j)' => Waits(j)
      BY <1>a, <1>c, <2>1, <2>3, <2>4 DEF Waits
    <2>6. \A c \in Coro : Runs(c)' => Runs(c)
      BY <1>a, <2>3 DEF Runs
    <2> QED BY <2>3, <2>5, <2>6, JobsKept
  <1>4. ASSUME NEW t \in Thread, ExecuteEnqueue(t) PROVE JInv'
    <2> DEFINE j == call[t].job  q == Target(thread_idx[j])
    <2>1. /\ j \in Job /\ \A p \in Queue : ~ In(j, p, queue)
      BY <1>4, <1>b DEF ExecuteEnqueue, CalledNowhere, Inv, TypeOK
    <2>2. q \in Queue
      BY DEF Target, Queue
    <2>3. /\ Enqueue(q, j) /\ call[t].at = "enqueue"
          /\ call' = [call EXCEPT ![t] = [at |-> "notify", job |-> None]]
          /\ UNCHANGED <<held, pc, status, m_cb, done, submitted>>
      BY <1>4 DEF ExecuteEnqueue
    <2>4. \A y : \A p \in Queue : In(y, p, queue') <=> In(y, p, queue) \/ (y = j /\ p = q)
      BY <1>a, <1>b, <1>c, <2>1, <2>2, <2>3, EnqueueLemma
    <2>5. Waits(j)
      BY <2>3 DEF Waits
    <2> HIDE DEF j, q
    <2>6. \A k \in Job : Waits(k)' => Waits(k)
      BY <1>a, <2>3, <2>4, <2>5 DEF Waits
    <2>7. \A c \in Coro : Runs(c)' => Runs(c)
      BY <2>3 DEF Runs
    <2> QED BY <2>3, <2>6, <2>7, JobsKept
  <1>5. ASSUME NEW t \in Thread, ExecuteBegin(t) PROVE JInv'
    <2>1. UNCHANGED <<queue, held, pc, status, m_cb, done>>
      BY <1>5 DEF ExecuteBegin, ExecuteRejected, ExecuteAccepted
    <2>2. PICK j \in Job : /\ j \notin submitted /\ submitted' = submitted \cup {j}
                           /\ \/ UNCHANGED call
                              \/ call' = [call EXCEPT ![t] = [at |-> "enqueue", job |-> j]]
      BY <1>5 DEF ExecuteBegin, ExecuteRejected, ExecuteAccepted
    <2>3. \A u \in Thread : call'[u] = call[u] \/ call'[u].job = j
      BY <1>a, <2>2
    <2>4. Waits(j)
      BY <2>2 DEF Waits
    <2>5. \A k \in Job : Waits(k)' => Waits(k)
      BY <2>1, <2>2, <2>3, <2>4 DEF Waits, In
    <2>6. \A c \in Coro : Runs(c)' => Runs(c)
      BY <2>1 DEF Runs
    <2> QED BY <2>1, <2>5, <2>6, JobsKept
  <1>6. ASSUME NEW t \in Thread, ExecuteNotify(t) PROVE JInv'
    <2>1. /\ UNCHANGED <<queue, held, status, m_cb, done, submitted>>
          /\ call' = [call EXCEPT ![t] = NoCall] /\ NotifyAll
      BY <1>6 DEF ExecuteNotify
    <2>2. \A k \in Job : Waits(k)' => Waits(k)
      BY <1>a, <2>1 DEF Waits, In, NoCall
    <2>3. \A c \in Coro : Runs(c)' => Runs(c)
      BY <1>a, <2>1 DEF Runs, NotifyAll
    <2> QED BY <2>1, <2>2, <2>3, JobsKept
  <1>7. ASSUME NEW w \in Worker, NEW d \in Coro, held[w] \in Job, pc[w] \in {"idle", "reuse"},
               ~ Active(d), \A v \in Worker : held[v] # d,
               status' = [status EXCEPT ![d] = "RADY"], m_cb' = [m_cb EXCEPT ![d] = held[w]],
               held' = [held EXCEPT ![w] = d], pc' = [pc EXCEPT ![w] = "resume"],
               \A y \in Job : \A p \in Queue : In(y, p, queue') => In(y, p, queue),
               UNCHANGED <<call, submitted, done>>
        PROVE  JInv'
    <2> DEFINE j == held[w]
    <2>1. /\ j \in submitted /\ \A p \in Queue : ~ In(j, p, queue)
          /\ \A v \in Worker : v # w => held[v] # j
          /\ \A t \in Thread : call[t].at = "enqueue" => call[t].job # j
      BY <1>7, <1>b, <1>c DEF PlacedSubmitted, HeldNotQueued, HeldOnce, CalledNowhere
    <2>2. j \notin done /\ \A c \in Coro : Active(c) => m_cb[c] # j
      BY <1>7, <1>d DEF Waits, WaitingIsFresh
    <2>3. /\ \A c \in Coro : c # d => status'[c] = status[c] /\ m_cb'[c] = m_cb[c]
          /\ status'[d] = "RADY" /\ m_cb'[d] = j
      BY <1>7, <1>a
    <2>4. \A c \in Coro : Runs(c)' => Runs(c) /\ c # d
      BY <1>7, <1>a DEF Runs
    <2>5. \A k \in Job : Waits(k)' => Waits(k) /\ k # j
      BY <1>7, <1>a, <1>c, <2>1 DEF Waits
    <2> HIDE DEF j
    <2>6. OneCoroutine'
      BY <1>d, <2>2, <2>3 DEF OneCoroutine, Active
    <2>7. NotDone'
      BY <1>d, <1>7, <2>2, <2>3, <2>4 DEF NotDone
    <2>8. WaitingIsFresh'
      BY <1>d, <1>7, <2>3, <2>5 DEF WaitingIsFresh, Active
    <2> QED BY <2>6, <2>7, <2>8 DEF JInv
  <1>8. ASSUME NEW w \in Worker, CreateCoroutine(w) PROVE JInv'
    <2> DEFINE d == coro_id + 1
    <2>1. /\ held[w] \in Job /\ d \in Coro /\ status[d] = "NONE"
      BY <1>8, <1>a, <1>b, BoundsAssumption DEF CreateCoroutine, HeldTyped, Numbered, Coro
    <2>2. \A v \in Worker : held[v] # d
      BY <2>1 DEF Inv, Coros, PlacedCreated
    <2>3. ~ Active(d)
      BY <2>1 DEF Active
    <2>4. /\ pc[w] = "idle" /\ status' = [status EXCEPT ![d] = "RADY"]
          /\ m_cb' = [m_cb EXCEPT ![d] = held[w]] /\ held' = [held EXCEPT ![w] = d]
          /\ pc' = [pc EXCEPT ![w] = "resume"] /\ UNCHANGED <<queue, call, submitted, done>>
      BY <1>8 DEF CreateCoroutine
    <2> HIDE DEF d
    <2>5. \A y \in Job : \A p \in Queue : In(y, p, queue') => In(y, p, queue)
      BY <2>4 DEF In
    <2> QED BY <1>7, <2>1, <2>2, <2>3, <2>4, <2>5
  <1>9. ASSUME NEW w \in Worker, ReuseCoroutine(w) PROVE JInv'
    <2> DEFINE d == Head(queue[Pool])
    <2>1. ~ IsEmpty(Pool) /\ Dequeue(Pool) /\ held[w] \in Job
      BY <1>9, <1>b DEF ReuseCoroutine, HeldTyped
    <2>2. /\ In(d, Pool, queue)
          /\ \A y : \A p \in Queue : In(y, p, queue') <=> In(y, p, queue) /\ y # d
      BY <1>a, <1>b, <1>c, <2>1, DequeueLemma
    <2>3. d \in Coro /\ status[d] \in Finished
      BY <1>a, <1>b, <1>c, <2>1, <2>2, DequeueLemma DEF PoolEnded
    <2>4. \A v \in Worker : held[v] # d
      BY <1>b, <1>c, <2>2, <2>3 DEF HeldNotQueued
    <2>5. ~ Active(d)
      BY <2>3 DEF Active, Finished
    <2>6. ReuseFor(w, d) /\ pc[w] = "reuse" /\ pc' = [pc EXCEPT ![w] = "resume"]
          /\ UNCHANGED <<call, submitted, done>>
      BY <1>9, <2>3 DEF ReuseCoroutine, Finished
    <2> HIDE DEF d
    <2> QED BY <1>7, <2>1, <2>2, <2>3, <2>4, <2>5, <2>6 DEF ReuseFor
  <1>10. ASSUME NEW w \in Worker, Resume(w) PROVE JInv'
    <2> DEFINE d == held[w]
    <2>1. d \in Coro
      BY <1>10, <1>b DEF Resume, HeldTyped
    <2>2. UNCHANGED <<queue, held, call, submitted, m_cb, done>>
      BY <1>10 DEF Resume
    <2>3. CASE status[d] \in {"RADY", "SUSP"}
      <3>1. status' = [status EXCEPT ![d] = "RUNN"] /\ pc' = [pc EXCEPT ![w] = "run"]
        BY <1>10, <2>3 DEF Resume
      <3>2. \A c \in Coro : c # d => status'[c] = status[c]
        BY <1>a, <3>1
      <3>3. \A c \in Coro : Active(c)' <=> Active(c)
        BY <1>a, <2>1, <2>3, <3>1, <3>2 DEF Active
      <3>4. \A c \in Coro : Runs(c)' => Runs(c) \/ c = d
        BY <1>a, <2>2, <3>1 DEF Runs
      <3>5. \A j \in Job : Waits(j)' => Waits(j)
        BY <2>2 DEF Waits, In
      <3>6. status'[d] = "RUNN"
        BY <1>a, <2>1, <3>1
      <3> HIDE DEF d
      <3>7. NotDone'
        BY <1>d, <2>2, <2>3, <3>2, <3>4, <3>6 DEF NotDone
      <3> QED BY <1>d, <2>2, <3>3, <3>5, <3>7 DEF JInv, OneCoroutine, WaitingIsFresh
    <2>4. CASE status[d] \notin {"RADY", "SUSP"}
      BY <1>10, <1>1, <2>2, <2>4 DEF Resume
    <2> QED BY <2>3, <2>4
  <1>11. ASSUME NEW w \in Worker, Yield(w) \/ EndJob(w) PROVE JInv'
    <2> DEFINE d == held[w]
    <2>1. pc[w] = "run" /\ d \in Coro /\ t_cur_coro[w] = d /\ status[d] = "RUNN"
      BY <1>11, <1>b DEF Yield, EndJob, SwitchBack, HeldTyped, CurrentIsHeld
    <2>2. /\ UNCHANGED <<queue, held, call, submitted, m_cb>>
          /\ pc' = [pc EXCEPT ![w] = "back"]
          /\ \/ status' = [status EXCEPT ![d] = "SUSP"] /\ UNCHANGED done
             \/ /\ \E s \in Finished \cup {"RUNN"} : status' = [status EXCEPT ![d] = s]
                /\ done' = done \cup {m_cb[d]}
      <3>1. CASE Yield(w)
        BY <2>1, <3>1 DEF Yield, SwitchBack
      <3>2. CASE EndJob(w)
        <4>1. PICK outcome \in Outcomes : SwitchBack(w, EndStatus(outcome))
          BY <3>2 DEF EndJob
        <4>2. EndStatus(outcome) \in Finished \cup {"RUNN"}
          BY OutcomesAssumption DEF EndStatus, Finished
        <4>3. done' = done \cup {m_cb[d]}
          BY <2>1, <3>2 DEF EndJob
        <4> QED BY <2>1, <4>1, <4>2, <4>3 DEF SwitchBack
      <3> QED BY <1>11, <3>1, <3>2
    <2>3. Runs(d) /\ Active(d)
      BY <2>1 DEF Runs, Active
    <2> HIDE DEF d
    <2>4. \A c \in Coro : c # d => status'[c] = status[c]
      BY <1>a, <2>2
    <2>5. \A c \in Coro : Active(c)' => Active(c)
      BY <2>3, <2>4 DEF Active
    <2>6. \A c \in Coro : Runs(c)' => Runs(c) /\ c # d
      <3>1. \A v \in Worker : pc'[v] = "run" => v # w /\ pc[v] = "run"
        BY <1>a, <2>2
      <3>2. \A v \in Worker : held[v] = held[w] /\ held[v] # None => v = w
        BY <1>b DEF HeldOnce
      <3>3. d = held[w] /\ d # None
        BY <1>c, <2>1 DEF d
      <3> QED BY <2>2, <3>1, <3>2, <3>3 DEF Runs
    <2>7. \A c \in Coro : Runs(c) => Active(c)
      BY <1>b DEF Runs, Active, CurrentIsHeld
    <2>8. \A j \in Job : Waits(j)' => Waits(j)
      BY <2>2 DEF Waits, In
    <2>9. OneCoroutine'
      BY <1>d, <2>2, <2>5 DEF OneCoroutine
    <2>10. CASE status' = [status EXCEPT ![d] = "SUSP"] /\ UNCHANGED done
      <3>1. NotDone'
        BY <1>d, <2>2, <2>3, <2>4, <2>6, <2>10 DEF NotDone
      <3>2. WaitingIsFresh'
        BY <1>d, <2>2, <2>5, <2>8, <2>10 DEF WaitingIsFresh
      <3> QED BY <2>9, <3>1, <3>2 DEF JInv
    <2>11. CASE /\ \E s \in Finished \cup {"RUNN"} : status' = [status EXCEPT ![d] = s]
                /\ done' = done \cup {m_cb[d]}
      <3>1. status'[d] \notin {"RADY", "SUSP"}
        BY <1>a, <2>1, <2>11 DEF Finished
      <3>2. \A c \in Coro : status[c] \in {"RADY", "SUSP"} => Active(c)
        BY DEF Active
      <3>3. \A c \in Coro : c # d /\ Active(c) => m_cb[c] # m_cb[d]
        BY <1>d, <2>1, <2>3 DEF OneCoroutine
      <3>4. NotDone'
        BY <1>d, <2>2, <2>4, <2>6, <2>7, <2>11, <3>1, <3>2, <3>3 DEF NotDone
      <3>5. WaitingIsFresh'
        BY <1>d, <2>1, <2>2, <2>3, <2>5, <2>8, <2>11 DEF WaitingIsFresh
      <3> QED BY <2>9, <3>4, <3>5 DEF JInv
    <2> QED BY <2>2, <2>10, <2>11
  <1>12. ASSUME NEW w \in Worker, WorkerStep(w)
         PROVE  \/ UNCHANGED <<queue, held, call, submitted, status, m_cb, done>>
                   /\ \A v \in Worker : pc'[v] = "run" => pc[v] = "run"
                \/ TakeTask(w) \/ CreateCoroutine(w) \/ ReuseCoroutine(w) \/ PutBack(w)
                \/ Resume(w) \/ Yield(w) \/ EndJob(w)
    BY <1>12, <1>a DEF WorkerStep, TestStopped, WaitTimeout, PeekEmpty, PeekNonEmpty,
      TakeNothing, NoTask, PoolNonEmpty, ReuseNothing
  <1>13. ASSUME Owner
         PROVE  /\ UNCHANGED <<queue, held, call, submitted, status, m_cb, done>>
                /\ \A v \in Worker : pc'[v] = "run" => pc[v] = "run"
    BY <1>13, <1>a DEF Owner, Start, StartThread, StartFails, Stop, StopNotify, NotifyAll,
      JoinThread, JoinNull
  <1>14. CASE UNCHANGED vars
    BY <1>1, <1>14 DEF vars
  <1> QED BY <1>1, <1>2, <1>3, <1>4, <1>5, <1>6, <1>8, <1>9, <1>10, <1>11, <1>12, <1>13, <1>14
          DEF Next, Running, Over, ExecuteEnd

\* The invariant about jobs holds in every reachable state.
LEMMA JobsInvariant == Spec => []JInv
  <1>1. Init => JInv
    BY DistinctAssumption DEF Init, JInv, OneCoroutine, NotDone, WaitingIsFresh, Active, Runs
  <1>2. Inv /\ JInv /\ [Next]_vars => JInv'
    <2>1. ASSUME JInv, UNCHANGED vars PROVE JInv'
      BY <2>1 DEF vars, workerVars, coroVars, executeVars, JInv, OneCoroutine, NotDone,
        WaitingIsFresh, Active, Runs, Waits, In
    <2> QED BY <2>1, JobsStep
  <1> QED BY <1>1, <1>2, SpecInv, PTL DEF Spec

(* A callable that has ended is never entered again, however its coroutine *)
(* is pooled, reset and stolen (scheduler.cpp:69-76, coroutine.cpp:81-96). *)
THEOREM NoJobRunsAgain == Spec => NoRerun
  <1>1. Inv /\ JInv /\ [Next]_vars =>
          [\A w \in Worker :
             pc[w] = "resume" /\ pc'[w] = "run" => m_cb[held[w]] \notin done]_vars
    <2> SUFFICES ASSUME Inv, JInv, Next, NEW w \in Worker, pc[w] = "resume", pc'[w] = "run"
                 PROVE  m_cb[held[w]] \notin done
      OBVIOUS
    <2>1. held[w] \in Coro
      BY DEF Inv, HeldTyped, HasCoro
    <2>2. pc \in [Worker -> PC]
      BY DEF Inv, TypeOK
    <2>3. CASE \E v \in Worker : WorkerStep(v)
      <3>1. PICK v \in Worker : WorkerStep(v)
        BY <2>3
      <3>2. pc' = pc \/ \E label : pc' = [pc EXCEPT ![v] = label]
        BY <3>1 DEF WorkerStep, TestStopped, WaitTimeout, PeekEmpty, PeekNonEmpty, TakeNothing,
          NoTask, TakeTask, CreateCoroutine, PoolNonEmpty, ReuseNothing, ReuseCoroutine, Resume,
          Yield, EndJob, SwitchBack, PutBack, NextRound, Goto, workerVars
      <3>3. v = w
        BY <2>2, <3>2
      <3>4. Resume(w)
        BY <2>2, <3>1, <3>3 DEF WorkerStep, TestStopped, WaitTimeout, PeekEmpty, PeekNonEmpty,
          TakeNothing, NoTask, TakeTask, CreateCoroutine, PoolNonEmpty, ReuseNothing,
          ReuseCoroutine, Yield, EndJob, SwitchBack, PutBack, NextRound, Goto, workerVars
      <3> QED BY <2>1, <3>4 DEF Resume, JInv, NotDone
    <2>4. CASE ~ \E v \in Worker : WorkerStep(v)
      <3>1. \/ pc' = pc \/ NotifyAll
            \/ \E label \in {"test", "none"} : pc' = [pc EXCEPT ![cursor] = label]
        BY <2>4 DEF Next, Running, Over, vars, ExecuteBegin, ExecuteEnd, ExecuteRejected,
          ExecuteAccepted, ExecuteEnqueue, ExecuteNotify, Owner, Start, StartThread, StartFails,
          Stop, StopNotify, JoinThread, JoinNull, Goto, workerVars
      <3> QED BY <2>2, <3>1 DEF NotifyAll
    <2> QED BY <2>3, <2>4
  <1> QED BY <1>1, SpecInv, JobsInvariant, PTL DEF Spec, NoRerun
=============================================================================
