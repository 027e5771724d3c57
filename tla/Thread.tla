-------------------------------- MODULE Thread --------------------------------
(***************************************************************************)
(* qc::thread::Thread: an object that owns a POSIX thread, and the         *)
(* semaphore by which its constructor waits until the thread has taken     *)
(* what it needs from the object.  m_state is a plain variable, written    *)
(* both by the owner and, when the callable has ended, by the thread.      *)
(*                                                                         *)
(* One owner creates, joins, detaches and destroys the objects in any      *)
(* order.  One action is one access to what owner and thread share.        *)
(***************************************************************************)
EXTENDS Naturals

CONSTANTS
  Obj,   \* the Thread objects
  None

ASSUME NoneAssumption == None \notin Obj

VARIABLES
  m_state,  \* m_state; "GONE": the object is destroyed, "THROWN": its constructor threw
  m_sem,    \* value of the semaphore m_sem
  m_cb,     \* where the callable is: "object", "thread", "ended"
  child,    \* where the POSIX thread is
  handle,   \* what the POSIX library knows of the thread
  owner,    \* what the owner is doing, and to which object
  error,    \* the exception an owner's call has thrown last, or None
  faults    \* history: <<object, misuse of POSIX threads or of memory>>

vars == <<m_state, m_sem, m_cb, child, handle, owner, error, faults>>

State  == {"UNBORN", "INIT", "RUNNING", "JOINED", "DETACHED", "TERMINATED", "GONE", "THROWN"}
Child  == {"none", "begin", "swap", "notify", "call", "finish", "exit"}
Handle == {"none", "joinable", "detached", "joined"}
Idle   == [at |-> "idle", obj |-> None]
Owner  == {"idle", "create", "wait", "join", "join_wait", "join_end",
           "detach", "detach_do", "detach_end", "destroy"}
Fault  == Obj \X {"join", "detach", "memory"}
\* The exceptions thrown by join() and detach(), and the POSIX calls that failed.
Error  == {None, "join_detached", "detach_joined", "detach_terminated",
           "pthread_create", "sem_wait", "pthread_join", "pthread_detach"}

TypeOK ==
  /\ m_state \in [Obj -> State]
  /\ m_sem \in [Obj -> 0 .. 1]
  /\ m_cb \in [Obj -> {"object", "thread", "ended"}]
  /\ child \in [Obj -> Child]
  /\ handle \in [Obj -> Handle]
  /\ owner \in [at : Owner, obj : Obj \cup {None}]
  /\ error \in Error
  /\ faults \subseteq Fault

SemCountOne == 1  \* mutant of SemCount: the semaphore is posted from the start
SemCount == 0

Init ==
  /\ m_state = [o \in Obj |-> "UNBORN"]
  /\ m_sem = [o \in Obj |-> SemCount]
  /\ m_cb = [o \in Obj |-> "object"]
  /\ child = [o \in Obj |-> "none"]
  /\ handle = [o \in Obj |-> "none"]
  /\ owner = Idle
  /\ error = None
  /\ faults = {}

-----------------------------------------------------------------------------
At(label, o)   == owner = [at |-> label, obj |-> o]
Goto(label, o) == owner' = [at |-> label, obj |-> o]
SetState(o, s) == m_state' = [m_state EXCEPT ![o] = s]
Alive(o)       == m_state[o] \notin {"UNBORN", "GONE", "THROWN"}

\* The call returns, normally or by throwing what.
Return(what) == owner' = Idle /\ error' = what

\* The owner begins a call when no other is under way.
Begin(o, label) ==
  /\ owner = Idle
  /\ Goto(label, o)
  /\ error' = None
  /\ UNCHANGED <<m_sem, m_cb, child, handle, faults>>

-----------------------------------------------------------------------------
(* The constructor.                                                        *)

Create(o) ==
  /\ m_state[o] = "UNBORN"
  /\ Begin(o, "create")
  /\ SetState(o, "RUNNING")

PthreadCreate(o) ==
  /\ At("create", o)
  /\ handle' = [handle EXCEPT ![o] = "joinable"]
  /\ child' = [child EXCEPT ![o] = "begin"]
  /\ Goto("wait", o)
  /\ UNCHANGED <<m_state, m_sem, m_cb, error, faults>>

\* The constructor throws: there is no object, and no destructor runs.
PthreadCreateFails(o) ==
  /\ At("create", o)
  /\ SetState(o, "THROWN")
  /\ Return("pthread_create")
  /\ UNCHANGED <<m_sem, m_cb, child, handle, faults>>

\* Mutant: the constructor does not wait.
SemWaitSkips(o) ==
  /\ At("wait", o)
  /\ Return(None)
  /\ UNCHANGED <<m_state, m_sem, m_cb, child, handle, faults>>

SemWait(o) ==
  /\ At("wait", o)
  /\ m_sem[o] > 0
  /\ m_sem' = [m_sem EXCEPT ![o] = @ - 1]
  /\ Return(None)
  /\ UNCHANGED <<m_state, m_cb, child, handle, faults>>

\* sem_wait() is interrupted by a signal, say: the constructor throws though
\* the POSIX thread is there, and goes on with an object that is not.
SemWaitFails(o) ==
  /\ At("wait", o)
  /\ SetState(o, "THROWN")
  /\ Return("sem_wait")
  /\ UNCHANGED <<m_sem, m_cb, child, handle, faults>>

-----------------------------------------------------------------------------
(* run(), on the thread of o.  Reading or writing an object that is not    *)
(* there is a fault; the thread goes on, as far as it can, all the same.   *)

Touch(o) == faults' = IF Alive(o) THEN faults ELSE faults \cup {<<o, "memory">>}

ChildStep(o, from, to) ==
  /\ child[o] = from
  /\ child' = [child EXCEPT ![o] = to]
  /\ UNCHANGED <<handle, owner, error>>

\* m_name, m_tid
ChildBegin(o) ==
  /\ ChildStep(o, "begin", "swap")
  /\ Touch(o)
  /\ UNCHANGED <<m_state, m_sem, m_cb>>

ChildSwap(o) ==
  /\ ChildStep(o, "swap", "notify")
  /\ Touch(o)
  /\ m_cb' = [m_cb EXCEPT ![o] = "thread"]
  /\ UNCHANGED <<m_state, m_sem>>

\* Mutant: notify() is forgotten.
ChildNotifyForgets(o) ==
  /\ ChildStep(o, "notify", "call")
  /\ Touch(o)
  /\ UNCHANGED <<m_state, m_sem, m_cb>>

ChildNotify(o) ==
  /\ ChildStep(o, "notify", "call")
  /\ Touch(o)
  /\ m_sem' = [m_sem EXCEPT ![o] = @ + 1]
  /\ UNCHANGED <<m_state, m_cb>>

\* cb(); an exception would end the process.
ChildCall(o) ==
  /\ ChildStep(o, "call", "finish")
  /\ m_cb' = [m_cb EXCEPT ![o] = "ended"]
  /\ UNCHANGED <<m_state, m_sem, faults>>

ChildFinish(o) ==
  /\ ChildStep(o, "finish", "exit")
  /\ Touch(o)
  /\ IF Alive(o) THEN SetState(o, "TERMINATED") ELSE UNCHANGED m_state
  /\ UNCHANGED <<m_sem, m_cb>>

-----------------------------------------------------------------------------
(* POSIX calls.  Joining or detaching a thread that is already joined or   *)
(* detached is undefined: a fault, after which the call returns an error   *)
(* or zero.                                                                *)

Misused(o) == handle[o] # "joinable"

PthreadJoin(o) ==
  IF Misused(o)
    THEN UNCHANGED handle /\ faults' = faults \cup {<<o, "join">>}
    ELSE /\ child[o] = "exit"
         /\ handle' = [handle EXCEPT ![o] = "joined"]
         /\ UNCHANGED faults

PthreadDetach(o) ==
  IF Misused(o)
    THEN UNCHANGED handle /\ faults' = faults \cup {<<o, "detach">>}
    ELSE handle' = [handle EXCEPT ![o] = "detached"] /\ UNCHANGED faults

\* What the caller makes of the result: on to label, or an exception.
AndThen(label, what, o) ==
  \/ Goto(label, o) /\ UNCHANGED error
  \/ Misused(o) /\ Return(what)

-----------------------------------------------------------------------------
(* join()                                                                  *)

Join(o) ==
  /\ Alive(o)
  /\ Begin(o, "join")
  /\ UNCHANGED m_state

\* Mutant: join() takes a thread that has TERMINATED for one that is joined.
JoinTestSkips(o) ==
  /\ At("join", o)
  /\ CASE m_state[o] = "TERMINATED" -> SetState(o, "JOINED") /\ Return(None)
       [] m_state[o] = "JOINED"     -> Return(None) /\ UNCHANGED m_state
       [] m_state[o] = "DETACHED"   -> /\ Return("join_detached")
                                       /\ UNCHANGED m_state
       [] OTHER                     -> Goto("join_wait", o) /\ UNCHANGED <<error, m_state>>
  /\ UNCHANGED <<m_sem, m_cb, child, handle, faults>>

\* Mutant: join() notes JOINED before it waits.
JoinTestEarly(o) ==
  /\ At("join", o)
  /\ IF m_state[o] = "JOINED" THEN Return(None) ELSE Goto("join_wait", o) /\ UNCHANGED error
  /\ SetState(o, "JOINED")
  /\ UNCHANGED <<m_sem, m_cb, child, handle, faults>>

JoinTest(o) ==
  /\ At("join", o)
  /\ \/ m_state[o] = "JOINED" /\ Return(None)
     \/ m_state[o] = "DETACHED" /\ Return("join_detached")
     \/ m_state[o] \notin {"JOINED", "DETACHED"} /\ Goto("join_wait", o) /\ UNCHANGED error
  /\ UNCHANGED <<m_state, m_sem, m_cb, child, handle, faults>>

JoinWait(o) ==
  /\ At("join_wait", o)
  /\ PthreadJoin(o)
  /\ AndThen("join_end", "pthread_join", o)
  /\ UNCHANGED <<m_state, m_sem, m_cb, child>>

\* Mutant: join() does not remember that it joined.
JoinEndForgets(o) ==
  /\ At("join_end", o)
  /\ Return(None)
  /\ UNCHANGED <<m_state, m_sem, m_cb, child, handle, faults>>

JoinEnd(o) ==
  /\ At("join_end", o)
  /\ SetState(o, "JOINED")
  /\ Return(None)
  /\ UNCHANGED <<m_sem, m_cb, child, handle, faults>>

-----------------------------------------------------------------------------
(* detach()                                                                *)

Detach(o) ==
  /\ Alive(o)
  /\ Begin(o, "detach")
  /\ UNCHANGED m_state

DetachTest(o) ==
  /\ At("detach", o)
  /\ \/ m_state[o] = "DETACHED" /\ Return(None)
     \/ m_state[o] = "JOINED" /\ Return("detach_joined")
     \/ m_state[o] = "TERMINATED" /\ Return("detach_terminated")
     \/ /\ m_state[o] \notin {"DETACHED", "JOINED", "TERMINATED"}
        /\ Goto("detach_do", o) /\ UNCHANGED error
  /\ UNCHANGED <<m_state, m_sem, m_cb, child, handle, faults>>

DetachDo(o) ==
  /\ At("detach_do", o)
  /\ PthreadDetach(o)
  /\ AndThen("detach_end", "pthread_detach", o)
  /\ UNCHANGED <<m_state, m_sem, m_cb, child>>

DetachEnd(o) ==
  /\ At("detach_end", o)
  /\ SetState(o, "DETACHED")
  /\ Return(None)
  /\ UNCHANGED <<m_sem, m_cb, child, handle, faults>>

-----------------------------------------------------------------------------
(* The destructor.                                                         *)

Destroy(o) ==
  /\ Alive(o)
  /\ Begin(o, "destroy")
  /\ UNCHANGED m_state

DestroyEnd(o) ==
  /\ At("destroy", o)
  /\ \/ m_state[o] = "RUNNING" /\ PthreadDetach(o)
     \/ m_state[o] = "TERMINATED" /\ PthreadJoin(o)
     \/ m_state[o] \notin {"RUNNING", "TERMINATED"} /\ UNCHANGED <<handle, faults>>
  /\ SetState(o, "GONE")
  /\ Return(None)
  /\ UNCHANGED <<m_sem, m_cb, child>>

-----------------------------------------------------------------------------
OwnerBegin(o) == Create(o) \/ Join(o) \/ Detach(o) \/ Destroy(o)

OwnerStep(o) ==
  \/ PthreadCreate(o) \/ SemWait(o)
  \/ JoinTest(o) \/ JoinWait(o) \/ JoinEnd(o)
  \/ DetachTest(o) \/ DetachDo(o) \/ DetachEnd(o)
  \/ DestroyEnd(o)

OwnerFails(o) == PthreadCreateFails(o) \/ SemWaitFails(o)

ThreadStep(o) ==
  \/ ChildBegin(o) \/ ChildSwap(o) \/ ChildNotify(o) \/ ChildCall(o) \/ ChildFinish(o)

\* No object is left and all threads have ended.
Over ==
  /\ owner = Idle
  /\ \A o \in Obj : m_state[o] \in {"GONE", "THROWN"} /\ child[o] \in {"none", "exit"}
  /\ UNCHANGED vars

Next == (\E o \in Obj : OwnerBegin(o) \/ OwnerStep(o) \/ OwnerFails(o) \/ ThreadStep(o)) \/ Over

Spec == Init /\ [][Next]_vars

\* Threads are scheduled and callables end; the owner finishes what it began.
\* That POSIX calls fail is not what it finishes by.
FairSpec ==
  /\ Spec
  /\ \A o \in Obj : WF_vars(ThreadStep(o)) /\ WF_vars(OwnerStep(o))

-----------------------------------------------------------------------------
(* No thread is joined or detached twice but one that was detached before: *)
(* run() overwrites DETACHED.  None touches an object that is not there,   *)
(* but one that was detached, by detach() or by a destructor that does not *)
(* wait, and one whose constructor threw while it waited for the thread.   *)
(* An owner that joins before it destroys, as Scheduler does               *)
(* (scheduler.cpp:50-53), is safe whatever the order of the writes of      *)
(* m_state, once it has the object.                                        *)
OnlyAbandonedFail ==
  \A f \in faults :
    \/ handle[f[1]] = "detached"
    \/ m_state[f[1]] = "THROWN" /\ handle[f[1]] = "joinable" /\ f[2] = "memory"

(* Once the constructor has returned, the thread has its callable and its  *)
(* id is known: getTid() may be called at once (scheduler.cpp:38-39).      *)
Started ==
  \A o \in Obj :
    Alive(o) /\ owner.obj # o => m_cb[o] # "object" /\ child[o] \notin {"begin", "swap"}

(* When the destructor of an object has run its thread has been joined or  *)
(* detached, so the system gets its resources back (thread.cpp:54-72).     *)
(* Where the constructor threw no destructor runs: that it may leave a     *)
(* thread which nobody joins is in the model (SemWaitFails), and not       *)
(* denied here.                                                            *)
NoThreadLeak == \A o \in Obj : m_state[o] = "GONE" => handle[o] # "joinable"

(* A thread is JOINED only when its callable has ended, so what follows    *)
(* join() sees all its effects (thread.cpp:93-105).                        *)
JoinedHasEnded == \A o \in Obj : m_state[o] = "JOINED" => m_cb[o] = "ended"

(* Each call of the owner returns: the constructor's handshake is always   *)
(* completed, join() waits for a callable that ends.                       *)
CallsReturn == \A o \in Obj : owner.obj = o ~> owner.obj # o

=============================================================================
