----------------------------- MODULE ThreadProofs -----------------------------
(***************************************************************************)
(* Theorems about module Thread, for any number of Thread objects.         *)
(***************************************************************************)
EXTENDS Thread, TLAPS

\* The call the owner is in for o.
Call(o) == IF owner.obj = o THEN owner.at ELSE "idle"

\* The constructor: the thread signals once, while the constructor waits.
Construction(o) ==
  /\ m_state[o] = "UNBORN" => handle[o] = "none" /\ Call(o) = "idle"
  /\ Call(o) # "idle" => Alive(o)
  /\ handle[o] = "none" <=> child[o] = "none"
  /\ Alive(o) /\ handle[o] = "none" <=> Call(o) = "create"
  /\ child[o] \in {"begin", "swap", "notify"} => Call(o) = "wait" \/ m_state[o] = "THROWN"
  /\ m_sem[o] = 1 <=> /\ Call(o) = "wait" \/ m_state[o] = "THROWN"
                      /\ child[o] \in {"call", "finish", "exit"}
  /\ Call(o) = "wait" => handle[o] = "joinable"
  /\ Call(o) = "create" => m_state[o] = "RUNNING"

\* Where the callable is, by where the thread is.
Callable(o) ==
  /\ child[o] \in {"none", "begin", "swap"} => m_cb[o] = "object"
  /\ child[o] \in {"notify", "call"} => m_cb[o] = "thread"
  /\ child[o] \in {"finish", "exit"} => m_cb[o] = "ended"

\* What m_state tells, though both sides write it.
StateTells(o) ==
  /\ m_state[o] = "RUNNING"    => child[o] # "exit"
  /\ m_state[o] = "TERMINATED" => child[o] = "exit"
  /\ m_state[o] = "JOINED"     => child[o] = "exit" /\ handle[o] \in {"joined", "detached"}
  /\ m_state[o] = "DETACHED"   => handle[o] = "detached"
  /\ m_state[o] = "GONE"       => handle[o] # "joinable"
  /\ m_state[o] = "THROWN"     => handle[o] \in {"none", "joinable"}
  /\ m_state[o] # "INIT"

\* What has become of the POSIX thread, by what the owner has done.
HandleTells(o) ==
  /\ handle[o] = "joined" => /\ child[o] = "exit"
                             /\ m_state[o] \in {"JOINED", "GONE"} \/ Call(o) = "join_end"
  /\ handle[o] = "detached" /\ m_state[o] = "RUNNING" => Call(o) = "detach_end"
  /\ Call(o) = "join_wait" =>
       \/ handle[o] = "joinable" /\ m_state[o] \in {"RUNNING", "TERMINATED"}
       \/ handle[o] = "detached" /\ m_state[o] = "TERMINATED"
  /\ Call(o) = "join_end" =>
       handle[o] \in {"joined", "detached"} /\ m_state[o] = "TERMINATED"
  /\ Call(o) = "detach_do" => handle[o] = "joinable"
  /\ Call(o) \in {"detach_do", "detach_end"} => m_state[o] \in {"RUNNING", "TERMINATED"}
  /\ Call(o) = "detach_end" => handle[o] = "detached"

Life(o) == Construction(o) /\ Callable(o) /\ StateTells(o) /\ HandleTells(o)

OwnerIdle == owner.at = "idle" <=> owner.obj = None

Inv == TypeOK /\ OwnerIdle /\ (\A o \in Obj : Life(o)) /\ OnlyAbandonedFail

-----------------------------------------------------------------------------
\* What Life(p) depends on.
Local(p) == <<m_state[p], m_sem[p], m_cb[p], child[p], handle[p], Call(p)>>

\* What is said of an object depends on its own variables only.
LEMMA Frame ==
  ASSUME NEW p \in Obj, Life(p), Local(p)' = Local(p)
  PROVE  Life(p)'
  BY DEF Local, Life, Construction, Callable, StateTells, HandleTells, Alive

\* No object exists at first.
LEMMA InvInit == Init => Inv
  <1> SUFFICES ASSUME Init PROVE Inv
    OBVIOUS
  <1>1. TypeOK
    BY DEF Init, SemCount, TypeOK, State, Child, Handle, Idle, Owner, Error
  <1>2. OwnerIdle /\ OnlyAbandonedFail
    BY DEF Init, OwnerIdle, OnlyAbandonedFail, Idle
  <1>3. ASSUME NEW o \in Obj PROVE Life(o)
    BY NoneAssumption
    DEF Init, SemCount, Idle, Life, Construction, Callable, StateTells, HandleTells, Call, Alive
  <1> QED BY <1>1, <1>2, <1>3 DEF Inv

\* The thread of an object that never was, which nobody can join.
Orphan(o) == m_state[o] = "THROWN" /\ handle[o] = "joinable"

\* A fault, once noted, stays that of an abandoned thread.
LEMMA FaultsStep ==
  ASSUME Inv,
         \A o \in Obj : handle[o] = "detached" => handle'[o] = "detached",
         \A o \in Obj : Orphan(o) => Orphan(o)',
         \A f \in faults' : \/ f \in faults
                            \/ handle'[f[1]] = "detached"
                            \/ Orphan(f[1])' /\ f[2] = "memory"
  PROVE  OnlyAbandonedFail'
  BY DEF Inv, TypeOK, OnlyAbandonedFail, Fault, Orphan

-----------------------------------------------------------------------------
(* The steps of a thread.                                                  *)

\* A step of the thread of o keeps what is said of every object.
LEMMA ThreadStepKeeps ==
  ASSUME Inv, NEW o \in Obj, ThreadStep(o)
  PROVE  Inv'
  <1>a. TypeOK /\ OwnerIdle /\ Life(o) /\ OnlyAbandonedFail
    BY DEF Inv
  <1>1. UNCHANGED <<handle, owner, error>>
    BY DEF ThreadStep, ChildBegin, ChildSwap, ChildNotify, ChildCall, ChildFinish, ChildStep
  <1>2. ASSUME NEW p \in Obj, p # o PROVE Life(p)'
    <2>1. Local(p)' = Local(p)
      BY <1>a, <1>1, <1>2
      DEF ThreadStep, ChildBegin, ChildSwap, ChildNotify, ChildCall, ChildFinish, ChildStep,
          SetState, Local, Call, TypeOK
    <2> QED BY <2>1, Frame DEF Inv
  <1>3. TypeOK' /\ Life(o)'
    <2>1. CASE ChildBegin(o)
      BY <1>a, <1>1, <2>1
      DEF ChildBegin, ChildStep, Touch, TypeOK, Child, Fault, Life, Construction, Callable,
          StateTells, HandleTells, Call, Alive
    <2>2. CASE ChildSwap(o)
      BY <1>a, <1>1, <2>2
      DEF ChildSwap, ChildStep, Touch, TypeOK, Child, Fault, Life, Construction, Callable,
          StateTells, HandleTells, Call, Alive
    <2>3. CASE ChildNotify(o)
      <3>1. m_sem[o] = 0
        BY <1>a, <2>3 DEF ChildNotify, ChildStep, TypeOK, Life, Construction
      <3> QED BY <1>a, <1>1, <2>3, <3>1
        DEF ChildNotify, ChildStep, Touch, TypeOK, Child, Fault, Life, Construction,
            Callable, StateTells, HandleTells, Call, Alive
    <2>4. CASE ChildCall(o)
      BY <1>a, <1>1, <2>4
      DEF ChildCall, ChildStep, TypeOK, Child, Life, Construction, Callable, StateTells,
          HandleTells, Call, Alive
    <2>5. CASE ChildFinish(o)
      BY <1>a, <1>1, <2>5
      DEF ChildFinish, ChildStep, Touch, SetState, TypeOK, Child, State, Fault, Life,
          Construction, Callable, StateTells, HandleTells, Call, Alive
    <2> QED BY <2>1, <2>2, <2>3, <2>4, <2>5 DEF ThreadStep
  <1>4. OnlyAbandonedFail'
    <2>1. ASSUME ~ Alive(o), child[o] \notin {"none", "exit"}
          PROVE  handle[o] = "detached" \/ Orphan(o)
      BY <1>a, <2>1
      DEF TypeOK, Handle, Life, Construction, StateTells, HandleTells, Alive, Orphan
    <2>2. \/ faults' = faults
          \/ /\ faults' = faults \cup {<<o, "memory">>}
             /\ ~ Alive(o) /\ child[o] \notin {"none", "exit"}
      BY DEF ThreadStep, ChildBegin, ChildSwap, ChildNotify, ChildCall, ChildFinish, ChildStep,
             Touch
    <2>3. \A p \in Obj : m_state[p] = "THROWN" => m_state'[p] = "THROWN"
      BY <1>a
      DEF ThreadStep, ChildBegin, ChildSwap, ChildNotify, ChildCall, ChildFinish, ChildStep,
          SetState, Alive, TypeOK
    <2>4. \A p \in Obj : Orphan(p) => Orphan(p)'
      BY <1>1, <2>3 DEF Orphan
    <2>5. \A f \in faults' :
            \/ f \in faults
            \/ f = <<o, "memory">> /\ (handle'[o] = "detached" \/ Orphan(o)')
      BY <1>1, <2>1, <2>2, <2>4
    <2>6. ASSUME NEW f \in faults', f \notin faults
          PROVE  handle'[f[1]] = "detached" \/ (Orphan(f[1])' /\ f[2] = "memory")
      <3>1. f[1] = o /\ f[2] = "memory"
        BY <2>5, <2>6
      <3> QED BY <2>5, <2>6, <3>1 DEF Orphan
    <2> QED BY <1>1, <2>4, <2>6, FaultsStep
  <1> QED BY <1>a, <1>1, <1>2, <1>3, <1>4 DEF Inv, OwnerIdle

-----------------------------------------------------------------------------
(* The steps of the owner.                                                 *)

Owns(o) == OwnerBegin(o) \/ OwnerStep(o) \/ OwnerFails(o)

\* Which call the owner is in, before and after a step of it for o.
LEMMA Calls ==
  ASSUME NEW o \in Obj
  PROVE  /\ \A l \in Owner : At(l, o) => Call(o) = l
         /\ \A l \in Owner : Goto(l, o) => Call(o)' = l
         /\ \A e \in Error : Return(e) => Call(o)' = "idle" /\ error' = e
         /\ owner = Idle => Call(o) = "idle"
  BY NoneAssumption DEF At, Goto, Return, Idle, Call

\* A call on o changes nothing that is said of another object.
LEMMA OwnerOthers ==
  ASSUME Inv, NEW o \in Obj, Owns(o), NEW p \in Obj, p # o
  PROVE  Life(p)'
  <1>1. Call(p) = "idle" /\ Call(p)' = "idle"
    BY NoneAssumption
    DEF Owns, OwnerBegin, OwnerStep, OwnerFails, Create, Join, Detach, Destroy, Begin,
        PthreadCreate, PthreadCreateFails, SemWait, SemWaitFails, JoinTest, JoinWait,
        JoinEnd, DetachTest, DetachDo, DetachEnd, DestroyEnd, At, Goto, Return, AndThen,
        Idle, Call
  <1>2. UNCHANGED <<m_state[p], m_sem[p], m_cb[p], child[p], handle[p]>>
    BY DEF Owns, OwnerBegin, OwnerStep, OwnerFails, Create, Join, Detach, Destroy, Begin,
        PthreadCreate, PthreadCreateFails, SemWait, SemWaitFails, JoinTest, JoinWait,
        JoinEnd, DetachTest, DetachDo, DetachEnd, DestroyEnd, SetState, PthreadJoin,
        PthreadDetach, Inv, TypeOK
  <1> QED BY <1>1, <1>2, Frame DEF Local, Inv

\* A call keeps the types.
LEMMA OwnerTypes ==
  ASSUME Inv, NEW o \in Obj, Owns(o)
  PROVE  TypeOK' /\ OwnerIdle'
  <1>1. OwnerIdle'
    BY NoneAssumption
    DEF Owns, OwnerBegin, OwnerStep, OwnerFails, Create, Join, Detach, Destroy, Begin,
        PthreadCreate, PthreadCreateFails, SemWait, SemWaitFails, JoinTest, JoinWait,
        JoinEnd, DetachTest, DetachDo, DetachEnd, DestroyEnd, Goto, Return, AndThen, Idle,
        OwnerIdle
  <1>2. owner' \in [at : Owner, obj : Obj \cup {None}] /\ error' \in Error
    BY DEF Owns, OwnerBegin, OwnerStep, OwnerFails, Create, Join, Detach, Destroy, Begin,
        PthreadCreate, PthreadCreateFails, SemWait, SemWaitFails, JoinTest, JoinWait,
        JoinEnd, DetachTest, DetachDo, DetachEnd, DestroyEnd, Goto, Return, AndThen, Idle,
        Owner, Error, Inv, TypeOK
  <1>3. m_state' \in [Obj -> State] /\ m_cb' \in [Obj -> {"object", "thread", "ended"}]
    BY DEF Owns, OwnerBegin, OwnerStep, OwnerFails, Create, Join, Detach, Destroy, Begin,
        PthreadCreate, PthreadCreateFails, SemWait, SemWaitFails, JoinTest, JoinWait,
        JoinEnd, DetachTest, DetachDo, DetachEnd, DestroyEnd, SetState, State, Inv, TypeOK
  <1>4. m_sem' \in [Obj -> 0 .. 1] /\ child' \in [Obj -> Child]
    BY DEF Owns, OwnerBegin, OwnerStep, OwnerFails, Create, Join, Detach, Destroy, Begin,
        PthreadCreate, PthreadCreateFails, SemWait, SemWaitFails, JoinTest, JoinWait,
        JoinEnd, DetachTest, DetachDo, DetachEnd, DestroyEnd, Child, Inv, TypeOK
  <1>5. handle' \in [Obj -> Handle] /\ faults' \subseteq Fault
    BY DEF Owns, OwnerBegin, OwnerStep, OwnerFails, Create, Join, Detach, Destroy, Begin,
        PthreadCreate, PthreadCreateFails, SemWait, SemWaitFails, JoinTest, JoinWait,
        JoinEnd, DetachTest, DetachDo, DetachEnd, DestroyEnd, PthreadJoin, PthreadDetach,
        Handle, Fault, Inv, TypeOK
  <1> QED BY <1>1, <1>2, <1>3, <1>4, <1>5 DEF TypeOK

\* A call begins with the object as the calls before left it.
LEMMA OwnerBeginLife ==
  ASSUME Inv, NEW o \in Obj, OwnerBegin(o)
  PROVE  Life(o)'
  <1>a. TypeOK /\ Life(o) /\ Call(o) = "idle"
    BY NoneAssumption
    DEF Inv, OwnerBegin, Create, Join, Detach, Destroy, Begin, Idle, Call
  <1>1. CASE Create(o)
    BY <1>a, <1>1
    DEF Create, Begin, Goto, SetState, TypeOK, Life, Construction, Callable, StateTells,
        HandleTells, Call, Alive
  <1>2. CASE Join(o) \/ Detach(o) \/ Destroy(o)
    BY <1>a, <1>2
    DEF Join, Detach, Destroy, Begin, Goto, TypeOK, Life, Construction, Callable,
        StateTells, HandleTells, Call, Alive
  <1> QED BY <1>1, <1>2 DEF OwnerBegin

\* Each step of a call keeps what is said of its object.
LEMMA OwnerStepLife ==
  ASSUME Inv, NEW o \in Obj, OwnerStep(o) \/ OwnerFails(o)
  PROVE  Life(o)'
  <1> USE DEF Life, Construction, Callable, StateTells, HandleTells, Alive, Owner, Error
  <1>a. TypeOK /\ Life(o)
    BY DEF Inv
  <1>1. CASE PthreadCreate(o)
    BY <1>a, <1>1, Calls DEF PthreadCreate, TypeOK
  <1>2. CASE PthreadCreateFails(o)
    BY <1>a, <1>2, Calls DEF PthreadCreateFails, SetState, TypeOK
  <1>3. CASE SemWait(o)
    <2>1. m_sem[o] = 1
      BY <1>a, <1>3 DEF SemWait, TypeOK
    <2> QED BY <1>a, <1>3, <2>1, Calls DEF SemWait, TypeOK
  <1>4. CASE JoinTest(o)
    BY <1>a, <1>4, Calls DEF JoinTest, TypeOK, State, Handle
  <1>5. CASE JoinWait(o)
    <2>1. Call(o) = "join_wait"
      BY <1>5, Calls DEF JoinWait
    <2>2. Call(o)' = "join_end" \/ (Call(o)' = "idle" /\ Misused(o))
      BY <1>5, Calls DEF JoinWait, AndThen
    <2>3. UNCHANGED <<m_state, m_sem, m_cb, child>>
      BY <1>5 DEF JoinWait
    <2>4. CASE Misused(o)
      <3>1. UNCHANGED handle
        BY <1>5, <2>4 DEF JoinWait, PthreadJoin
      <3> QED BY <1>a, <2>1, <2>2, <2>3, <2>4, <3>1 DEF Misused, TypeOK
    <2>5. CASE ~ Misused(o)
      <3>1. handle' = [handle EXCEPT ![o] = "joined"] /\ child[o] = "exit"
        BY <1>5, <2>5 DEF JoinWait, PthreadJoin
      <3> QED BY <1>a, <2>1, <2>2, <2>3, <2>5, <3>1 DEF Misused, TypeOK
    <2> QED BY <2>4, <2>5
  <1>6. CASE JoinEnd(o)
    BY <1>a, <1>6, Calls DEF JoinEnd, SetState, TypeOK
  <1>7. CASE DetachTest(o)
    BY <1>a, <1>7, Calls DEF DetachTest, TypeOK, State, Handle
  <1>8. CASE DetachDo(o)
    <2>1. Call(o) = "detach_do"
      BY <1>8, Calls DEF DetachDo
    <2>2. Call(o)' = "detach_end" \/ (Call(o)' = "idle" /\ Misused(o))
      BY <1>8, Calls DEF DetachDo, AndThen
    <2>3. UNCHANGED <<m_state, m_sem, m_cb, child>>
      BY <1>8 DEF DetachDo
    <2>4. CASE Misused(o)
      <3>1. UNCHANGED handle
        BY <1>8, <2>4 DEF DetachDo, PthreadDetach
      <3> QED BY <1>a, <2>1, <2>2, <2>3, <2>4, <3>1 DEF Misused, TypeOK
    <2>5. CASE ~ Misused(o)
      <3>1. handle' = [handle EXCEPT ![o] = "detached"]
        BY <1>8, <2>5 DEF DetachDo, PthreadDetach
      <3> QED BY <1>a, <2>1, <2>2, <2>3, <2>5, <3>1 DEF Misused, TypeOK
    <2> QED BY <2>4, <2>5
  <1>9. CASE DetachEnd(o)
    BY <1>a, <1>9, Calls DEF DetachEnd, SetState, TypeOK
  <1>10. CASE DestroyEnd(o)
    <2>1. Call(o) = "destroy" /\ Call(o)' = "idle"
      BY <1>10, Calls DEF DestroyEnd
    <2>2. m_state' = [m_state EXCEPT ![o] = "GONE"] /\ UNCHANGED <<m_sem, m_cb, child>>
      BY <1>10 DEF DestroyEnd, SetState
    <2>3. \/ handle' = [handle EXCEPT ![o] = "detached"] /\ handle[o] = "joinable"
          \/ /\ handle' = [handle EXCEPT ![o] = "joined"] /\ handle[o] = "joinable"
             /\ child[o] = "exit"
          \/ UNCHANGED handle /\ handle[o] # "joinable"
      BY <1>a, <1>10, <2>1
      DEF DestroyEnd, PthreadJoin, PthreadDetach, Misused, TypeOK, State
    <2> QED BY <1>a, <2>1, <2>2, <2>3 DEF TypeOK
  <1>11. CASE SemWaitFails(o)
    BY <1>a, <1>11, Calls DEF SemWaitFails, SetState, TypeOK
  <1> QED BY <1>1, <1>2, <1>3, <1>4, <1>5, <1>6, <1>7, <1>8, <1>9, <1>10, <1>11
      DEF OwnerStep, OwnerFails

\* What the owner does wrong it does to a thread that is detached.
LEMMA OwnerFaults ==
  ASSUME Inv, NEW o \in Obj, Owns(o)
  PROVE  OnlyAbandonedFail'
  <1>1. ASSUME handle[o] = "detached" PROVE ~ PthreadCreate(o)
    BY <1>1 DEF Inv, Life, Construction, PthreadCreate, At, Call
  <1>o. ASSUME NEW p \in Obj, Orphan(p) PROVE Orphan(p)'
    <2>1. Call(p) = "idle" /\ ~ Alive(p) /\ m_state[p] # "UNBORN"
      BY <1>o DEF Inv, Life, Construction, Orphan, Alive
    <2>2. \A l : At(l, p) => l = "idle"
      BY <2>1 DEF At, Call
    <2>3. o # p
      BY <2>1, <2>2
      DEF Owns, OwnerBegin, OwnerStep, OwnerFails, Create, Join, Detach, Destroy,
          PthreadCreate, PthreadCreateFails, SemWait, SemWaitFails, JoinTest, JoinWait,
          JoinEnd, DetachTest, DetachDo, DetachEnd, DestroyEnd
    <2>4. UNCHANGED <<m_state[p], handle[p]>>
      BY <2>3
      DEF Owns, OwnerBegin, OwnerStep, OwnerFails, Create, Join, Detach, Destroy, Begin,
          PthreadCreate, PthreadCreateFails, SemWait, SemWaitFails, JoinTest, JoinWait, JoinEnd,
          DetachTest, DetachDo, DetachEnd, DestroyEnd, SetState, PthreadJoin, PthreadDetach, Inv,
          TypeOK
    <2> QED BY <1>o, <2>4 DEF Orphan
  <1>2. \A p \in Obj : handle[p] = "detached" => handle'[p] = "detached"
    BY <1>1
    DEF Owns, OwnerBegin, OwnerStep, OwnerFails, Create, Join, Detach, Destroy, Begin,
        PthreadCreate, PthreadCreateFails, SemWait, SemWaitFails, JoinTest, JoinWait, JoinEnd,
        DetachTest, DetachDo, DetachEnd, DestroyEnd, PthreadJoin, PthreadDetach, Misused, Inv, TypeOK
  <1>3. CASE JoinWait(o) \/ DetachDo(o) \/ DestroyEnd(o)
    <2>3. Life(o) /\ handle[o] \in Handle
      BY DEF Inv, TypeOK
    <2>4. ASSUME JoinWait(o) \/ DetachDo(o) PROVE handle[o] \in {"joinable", "detached"}
      <3>1. Call(o) \in {"join_wait", "detach_do"}
        BY <2>4, Calls DEF JoinWait, DetachDo, Owner
      <3> QED BY <2>3, <3>1 DEF Life, HandleTells
    <2>5. ASSUME DestroyEnd(o), m_state[o] \in {"RUNNING", "TERMINATED"}
          PROVE  handle[o] \in {"joinable", "detached"}
      <3>1. Call(o) = "destroy"
        BY <2>5, Calls DEF DestroyEnd, Owner
      <3> QED BY <2>3, <2>5, <3>1
        DEF DestroyEnd, Handle, Life, Construction, HandleTells, Alive
    <2>1. \/ handle[o] \in {"joinable", "detached"}
          \/ DestroyEnd(o) /\ m_state[o] \notin {"RUNNING", "TERMINATED"}
      BY <1>3, <2>4, <2>5
    <2>2. \A f \in faults' : f \in faults \/ handle'[f[1]] = "detached"
      BY <1>3, <2>1
      DEF JoinWait, DetachDo, DestroyEnd, PthreadJoin, PthreadDetach, Misused, Inv, TypeOK
    <2> QED BY <1>2, <1>o, <2>2, FaultsStep
  <1>4. CASE ~ (JoinWait(o) \/ DetachDo(o) \/ DestroyEnd(o))
    <2>1. UNCHANGED faults
      BY <1>4
      DEF Owns, OwnerBegin, OwnerStep, OwnerFails, Create, Join, Detach, Destroy, Begin,
          PthreadCreate, PthreadCreateFails, SemWait, SemWaitFails, JoinTest, JoinEnd,
          DetachTest, DetachEnd
    <2> QED BY <1>2, <1>o, <2>1, FaultsStep
  <1> QED BY <1>3, <1>4

\* Each step of an owner or a thread keeps the invariant.
LEMMA InvStep == Inv /\ [Next]_vars => Inv'
  <1> SUFFICES ASSUME Inv, [Next]_vars PROVE Inv'
    OBVIOUS
  <1>1. ASSUME NEW o \in Obj, Owns(o) PROVE Inv'
    <2>1. Life(o)'
      BY <1>1, OwnerBeginLife, OwnerStepLife DEF Owns
    <2>2. \A p \in Obj : Life(p)'
      BY <1>1, <2>1, OwnerOthers
    <2> QED BY <1>1, <2>2, OwnerTypes, OwnerFaults DEF Inv
  <1>2. ASSUME NEW o \in Obj, ThreadStep(o) PROVE Inv'
    BY <1>2, ThreadStepKeeps
  <1>3. CASE UNCHANGED vars
    <2>1. \A o \in Obj : Life(o)'
      BY <1>3, Frame DEF vars, Inv, Local, Call
    <2> QED BY <1>3, <2>1 DEF vars, Inv, TypeOK, OwnerIdle, OnlyAbandonedFail
  <1> QED BY <1>1, <1>2, <1>3 DEF Next, Over, Owns

-----------------------------------------------------------------------------
(* The invariant that the theorems below are parts of.                     *)
THEOREM Invariance == Spec => []Inv
  BY InvInit, InvStep, PTL DEF Spec

(* Every variable keeps its type: the semaphore is posted once and waited  *)
(* for once.                                                               *)
THEOREM TypeCorrect == Spec => []TypeOK
  BY Invariance, PTL DEF Inv

(* Whatever the owner does and whichever POSIX calls fail, nothing is      *)
(* misused but by a thread that was detached, or whose constructor threw   *)
(* after the thread was made (semaphore.cpp:19-21, thread.cpp:51).         *)
THEOREM OnlyAbandonedAreMisused == Spec => []OnlyAbandonedFail
  BY Invariance, PTL DEF Inv

(* When the constructor has returned the thread has taken its callable.    *)
THEOREM StartedWhenConstructed == Spec => []Started
  <1>1. Inv => Started
    BY DEF Inv, TypeOK, Child, Started, Life, Construction, Callable, Call, Alive
  <1> QED BY <1>1, Invariance, PTL

(* No thread is left joinable when the destructor of its object has run.   *)
THEOREM NoThreadLeaks == Spec => []NoThreadLeak
  <1>1. Inv => NoThreadLeak
    BY DEF Inv, NoThreadLeak, Life, StateTells
  <1> QED BY <1>1, Invariance, PTL

(* What is JOINED has run its callable to the end.                         *)
THEOREM JoinedThreadsEnded == Spec => []JoinedHasEnded
  <1>1. Inv => JoinedHasEnded
    BY DEF Inv, JoinedHasEnded, Life, Callable, StateTells
  <1> QED BY <1>1, Invariance, PTL

=============================================================================
