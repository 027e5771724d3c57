---------------------------- MODULE LockFreeQueue ----------------------------
(***************************************************************************)
(* qc::thread::LockFreeQueue: a linked list of nodes with atomic head and  *)
(* tail pointers, the first node a dummy (the queue of Michael and Scott). *)
(* One action is one access to memory that threads share.                  *)
(*                                                                         *)
(* dequeue() deletes the old dummy at once, though other threads may still *)
(* hold its address.  What they then read is what the memory holds: the    *)
(* old node as long as nobody has reused it or, with Reuse, the node that  *)
(* a later `new Node` has put there.  faults records such accesses.        *)
(* Atomics are sequentially consistent here.                               *)
(***************************************************************************)
EXTENDS Integers, Sequences, FiniteSets, Functions

CONSTANTS
  Producer,   \* threads that call enqueue()
  Consumer,   \* threads that call empty() and dequeue()
  MaxNodes,   \* bound: number of different addresses of nodes
  Null, None, \* the null node pointer; the null item
  MaxPuts,    \* bound: calls of enqueue() per producer
  MaxGets,    \* bound: calls of empty() and dequeue() per consumer
  Reuse,      \* TRUE: memory that was freed may be allocated again
  Spurious    \* TRUE: compare_exchange_weak may fail for no reason

Addr == 1 .. MaxNodes
Ptr  == Addr \cup {Null}

ASSUME NullAssumption == Null \notin Addr
ASSUME BoundsAssumption == {MaxPuts, MaxGets} \subseteq Nat /\ MaxNodes \in Nat \ {0}
ASSUME SwitchAssumption == Reuse \in BOOLEAN /\ Spurious \in BOOLEAN

VARIABLES
  head, tail, next, data,   \* the queue and its nodes
  live,                     \* addresses of nodes that are not deleted
  used,                     \* addresses that were ever allocated: 1 .. used
  pc,                       \* where a thread is in its operation
  curHead, curTail, lnext,  \* its local variables; lnext is `next`
  newNode, ret,
  puts, gets,               \* calls made so far (bounded by MaxPuts, MaxGets)
  seen,                     \* history: how the queue was since the call
  faults                    \* history: accesses to memory that is not live

nodeVars  == <<head, tail, next, data, live, used>>
localVars == <<curHead, curTail, lnext, newNode, ret>>
vars == <<nodeVars, pc, localVars, puts, gets, seen, faults>>

Thread == Producer \cup Consumer
Value == Producer \X (1 .. MaxPuts)
EnqueueAt == {"e_tail", "e_next", "e_check", "e_link", "e_help"}
DequeueAt == {"d_head", "d_tail", "d_next", "d_check", "d_help", "d_data", "d_move"}
EmptyAt   == {"i_head", "i_tail", "i_next"}
DoneAt    == {"e_swing", "e_done", "d_delete", "d_done", "i_done"}

TypeOK ==
  /\ head \in Addr /\ tail \in Addr
  /\ next \in [Addr -> Ptr]
  /\ data \in [Addr -> Value \cup {None}]
  /\ live \subseteq Addr /\ used \in Addr
  /\ pc \in [Thread -> {"idle"} \cup EnqueueAt \cup DequeueAt \cup EmptyAt \cup DoneAt]
  /\ {curHead, curTail, lnext, newNode} \subseteq [Thread -> Ptr]
  /\ ret \in [Thread -> Value \cup {None, <<"empty">>, <<"nonempty">>}]
  /\ puts \in [Producer -> 0 .. MaxPuts] /\ gets \in [Consumer -> 0 .. MaxGets]
  /\ seen \in [Thread -> SUBSET {"empty", "nonempty"}]
  /\ faults \subseteq {"freed", "twice", "null"}

Init ==
  /\ head = 1 /\ tail = 1
  /\ live = {1} /\ used = 1
  /\ next = [a \in Addr |-> Null]
  /\ data = [a \in Addr |-> None]
  /\ pc = [t \in Thread |-> "idle"]
  /\ curHead = [t \in Thread |-> Null] /\ curTail = curHead
  /\ lnext = curHead /\ newNode = curHead
  /\ ret = [t \in Thread |-> None]
  /\ puts = [t \in Producer |-> 0] /\ gets = [t \in Consumer |-> 0]
  /\ seen = [t \in Thread |-> {}]
  /\ faults = {}

-----------------------------------------------------------------------------
(* The contents of the queue: the items of the nodes behind the dummy.     *)

Follow(a) == IF a = Null THEN Null ELSE next[a]

\* The node k steps behind the dummy, or null behind the last node.
Node[k \in 0 .. MaxNodes] == IF k = 0 THEN head ELSE Follow(Node[k - 1])

\* The nodes from the dummy on, as long as there are any.
Linked ==
  LET length == Cardinality({k \in 0 .. MaxNodes - 1 : Node[k] # Null})
  IN  [k \in 1 .. length |-> Node[k - 1]]

Items ==
  LET nodes == Linked IN [k \in 1 .. Len(nodes) - 1 |-> data[nodes[k + 1]]]

Kind == IF next[head] = Null THEN "empty" ELSE "nonempty"
Pending(t) == pc[t] \in EnqueueAt \cup DequeueAt \cup EmptyAt

Goto(t, label) == pc' = [pc EXCEPT ![t] = label]

\* Each operation under way sees what the queue has become.
Observe ==
  seen' = [t \in Thread |->
             IF Pending(t)' THEN seen[t] \cup {Kind'} ELSE {}]

\* Memory at a that is not live is accessed.
Touch(a) == faults' = IF a \in live THEN faults ELSE faults \cup {"freed"}

Load(var, t, val) == var' = [var EXCEPT ![t] = val]

-----------------------------------------------------------------------------
(* Calls.  The values that a thread enqueues are numbered.                 *)

\* Addresses not used yet are alike: the next one stands for all of them.
Unused ==
  (IF Reuse THEN 1 .. used \ live ELSE {}) \cup ({used + 1} \cap Addr)

CallEnqueue(t) ==
  /\ pc[t] = "idle" /\ puts[t] < MaxPuts
  /\ puts' = [puts EXCEPT ![t] = @ + 1]
  /\ \E a \in Unused :
       /\ live' = live \cup {a}
       /\ used' = IF a > used THEN a ELSE used
       /\ data' = [data EXCEPT ![a] = <<t, puts'[t]>>]
       /\ next' = [next EXCEPT ![a] = Null]
       /\ Load(newNode, t, a)
  /\ Goto(t, "e_tail")
  /\ UNCHANGED <<head, tail, curHead, curTail, lnext, ret, gets, faults>>

BeginGet(t) ==
  /\ pc[t] = "idle" /\ gets[t] < MaxGets
  /\ gets' = [gets EXCEPT ![t] = @ + 1]

CallDequeue(t) ==
  /\ BeginGet(t)
  /\ Goto(t, "d_head")
  /\ UNCHANGED <<nodeVars, localVars, puts, faults>>

CallEmpty(t) ==
  /\ BeginGet(t)
  /\ Goto(t, "i_head")
  /\ UNCHANGED <<nodeVars, localVars, puts, faults>>

\* The local variables go out of scope.
Return(t) ==
  /\ pc[t] \in {"e_done", "d_done", "i_done"}
  /\ Goto(t, "idle")
  /\ Load(curHead, t, Null) /\ Load(curTail, t, Null) /\ Load(lnext, t, Null)
  /\ Load(newNode, t, Null) /\ Load(ret, t, None)
  /\ UNCHANGED <<nodeVars, puts, gets, faults>>

-----------------------------------------------------------------------------
(* Loads of head, tail and next, the same in every operation.              *)

LoadHead(t, from, to) ==
  /\ pc[t] = from /\ Goto(t, to)
  /\ Load(curHead, t, head)
  /\ UNCHANGED <<nodeVars, curTail, lnext, newNode, ret, puts, gets, faults>>

LoadTail(t, from, to) ==
  /\ pc[t] = from /\ Goto(t, to)
  /\ Load(curTail, t, tail)
  /\ UNCHANGED <<nodeVars, curHead, lnext, newNode, ret, puts, gets, faults>>

LoadNext(t, from, a, to) ==
  /\ pc[t] = from /\ Goto(t, to)
  /\ Touch(a)
  /\ Load(lnext, t, next[a])
  /\ UNCHANGED <<nodeVars, curHead, curTail, newNode, ret, puts, gets>>

\* A weak compare-and-exchange of tail; whatever happens, on to label.
SwingTail(t, from, to, label) ==
  /\ \/ tail = from /\ tail' = to
     \/ (tail # from \/ Spurious) /\ UNCHANGED tail
  /\ Goto(t, label)
  /\ UNCHANGED <<head, next, data, live, used, localVars, puts, gets, faults>>

-----------------------------------------------------------------------------
(* enqueue()                                                               *)

AfterCheckTail(t) ==
  IF curTail[t] # tail THEN "e_tail"
  ELSE IF lnext[t] = Null THEN "e_link" ELSE "e_help"

\* mutants of CheckTail: next is not compared with null; tail is not read again
CheckTailOnly(t) ==
  /\ pc[t] = "e_check"
  /\ Goto(t, IF curTail[t] # tail THEN "e_tail" ELSE "e_help")
  /\ UNCHANGED <<nodeVars, localVars, puts, gets, faults>>
CheckTailOnce(t) ==
  /\ pc[t] = "e_check"
  /\ Goto(t, IF curTail[t] # tail THEN "e_next" ELSE AfterCheckTail(t))
  /\ UNCHANGED <<nodeVars, localVars, puts, gets, faults>>

CheckTail(t) ==
  /\ pc[t] = "e_check"
  /\ Goto(t, AfterCheckTail(t))
  /\ UNCHANGED <<nodeVars, localVars, puts, gets, faults>>

HelpEnqueue(t) ==
  /\ pc[t] = "e_help"
  /\ SwingTail(t, curTail[t], lnext[t], "e_tail")

Link(t) ==
  /\ pc[t] = "e_link"
  /\ next[curTail[t]] = Null
  /\ next' = [next EXCEPT ![curTail[t]] = newNode[t]]
  /\ Touch(curTail[t])
  /\ Goto(t, "e_swing")
  /\ UNCHANGED <<head, tail, data, live, used, localVars, puts, gets>>

LinkFails(t) ==
  /\ pc[t] = "e_link"
  /\ next[curTail[t]] # Null \/ Spurious
  /\ Touch(curTail[t])
  /\ Goto(t, "e_tail")
  /\ UNCHANGED <<nodeVars, localVars, puts, gets>>

Swing(t) ==
  /\ pc[t] = "e_swing"
  /\ SwingTail(t, curTail[t], newNode[t], "e_done")

EnqueueStep(t) ==
  \/ LoadTail(t, "e_tail", "e_next")
  \/ LoadNext(t, "e_next", curTail[t], "e_check")
  \/ CheckTail(t) \/ HelpEnqueue(t) \/ Link(t) \/ LinkFails(t) \/ Swing(t)

-----------------------------------------------------------------------------
(* dequeue()                                                               *)

\* mutants of AfterCheckHead: tail is not helped on; a tail that lags
\* behind is taken for the end
HeadNeverHelps(t) ==
  IF curHead[t] # head THEN "d_head"
  ELSE IF lnext[t] = Null THEN "d_done" ELSE "d_data"
HeadIsTail(t) ==
  IF curHead[t] # head THEN "d_head"
  ELSE IF curHead[t] # curTail[t] THEN "d_data" ELSE "d_done"

AfterCheckHead(t) ==
  IF curHead[t] # head THEN "d_head"
  ELSE IF curHead[t] # curTail[t] THEN "d_data"
  ELSE IF lnext[t] = Null THEN "d_done" ELSE "d_help"

CheckHead(t) ==
  /\ pc[t] = "d_check"
  /\ Goto(t, AfterCheckHead(t))
  /\ UNCHANGED <<nodeVars, localVars, puts, gets, faults>>

HelpDequeue(t) ==
  /\ pc[t] = "d_help"
  /\ SwingTail(t, curTail[t], lnext[t], "d_head")

NodeOfHead(t) == curHead[t]  \* mutant of NodeToTake: the dummy's own item
NodeToTake(t) == lnext[t]

CopyData(t) ==
  /\ pc[t] = "d_data"
  /\ IF NodeToTake(t) = Null
       THEN faults' = faults \cup {"null"} /\ UNCHANGED <<pc, ret>>
       ELSE /\ Touch(NodeToTake(t))
            /\ Load(ret, t, data[NodeToTake(t)])
            /\ Goto(t, "d_move")
  /\ UNCHANGED <<nodeVars, curHead, curTail, lnext, newNode, puts, gets>>

\* mutant of MoveHead: a store instead of the compare-and-exchange
StoreHead(t) ==
  /\ pc[t] = "d_move"
  /\ head' = lnext[t]
  /\ Goto(t, "d_delete")
  /\ UNCHANGED <<tail, next, data, live, used, localVars, puts, gets, faults>>

MoveHead(t) ==
  /\ pc[t] = "d_move"
  /\ head = curHead[t]
  /\ head' = lnext[t]
  /\ Goto(t, "d_delete")
  /\ UNCHANGED <<tail, next, data, live, used, localVars, puts, gets, faults>>

\* ret keeps its value, but a later answer of null is a null of its own.
MoveHeadFails(t) ==
  /\ pc[t] = "d_move"
  /\ head # curHead[t] \/ Spurious
  /\ Goto(t, "d_head")
  /\ Load(ret, t, None)
  /\ UNCHANGED <<nodeVars, curHead, curTail, lnext, newNode, puts, gets, faults>>

\* mutants of Free: no node is deleted; the new dummy is
Keep(t)     == UNCHANGED live
FreeNext(t) == live' = live \ {lnext[t]}
Free(t) == live' = live \ {curHead[t]}

Delete(t) ==
  /\ pc[t] = "d_delete"
  /\ Free(t)
  /\ faults' = IF curHead[t] \in live THEN faults ELSE faults \cup {"twice"}
  /\ Goto(t, "d_done")
  /\ UNCHANGED <<head, tail, next, data, used, localVars, puts, gets>>

DequeueStep(t) ==
  \/ LoadHead(t, "d_head", "d_tail")
  \/ LoadTail(t, "d_tail", "d_next")
  \/ LoadNext(t, "d_next", curHead[t], "d_check")
  \/ CheckHead(t) \/ HelpDequeue(t)
  \/ CopyData(t) \/ MoveHead(t) \/ MoveHeadFails(t) \/ Delete(t)

-----------------------------------------------------------------------------
(* empty()                                                                 *)

AnswerEmpty(t) ==
  /\ pc[t] = "i_next" /\ Goto(t, "i_done")
  /\ Touch(curHead[t])
  /\ Load(ret, t, IF curHead[t] = curTail[t] /\ next[curHead[t]] = Null
                    THEN <<"empty">> ELSE <<"nonempty">>)
  /\ UNCHANGED <<nodeVars, curHead, curTail, lnext, newNode, puts, gets>>

EmptyStep(t) ==
  \/ LoadHead(t, "i_head", "i_tail")
  \/ LoadTail(t, "i_tail", "i_next")
  \/ AnswerEmpty(t)

-----------------------------------------------------------------------------
CallStep ==
  \/ \E t \in Producer : CallEnqueue(t)
  \/ \E t \in Consumer : CallDequeue(t) \/ CallEmpty(t)
Step(t) == EnqueueStep(t) \/ DequeueStep(t) \/ EmptyStep(t) \/ Return(t)

Running ==
  /\ "null" \notin faults
  /\ CallStep \/ \E t \in Thread : Step(t)
  /\ Observe

\* Every thread has made its calls (or all memory is used), or one has died.
Over ==
  /\ \/ "null" \in faults
     \/ \A t \in Thread : pc[t] = "idle"
  /\ UNCHANGED vars

Next == Running \/ Over

Spec == Init /\ [][Next]_vars

\* t changes the list; of its steps only a compare-and-exchange does.
Exchange(t) == Step(t) /\ <<head, tail, next>>' # <<head, tail, next>>

(* The operating system schedules every thread, and compare_exchange_weak  *)
(* does not fail for no reason every time it is tried.                     *)
FairSpec ==
  /\ Spec
  /\ \A t \in Thread : /\ WF_vars("null" \notin faults /\ Step(t) /\ Observe)
                       /\ SF_vars("null" \notin faults /\ Exchange(t) /\ Observe)

-----------------------------------------------------------------------------
(* Threads only touch nodes that are not deleted (lockfreequeue.h:98, "the *)
(* old head node is deleted safely").                                      *)
NoUseAfterFree == "freed" \notin faults

(* No node is deleted twice and no null node is read: head never passes    *)
(* tail, and one dequeue alone owns the node it moved head away from       *)
(* (lockfreequeue.h:70-99).                                                *)
NoWildPointer == faults \subseteq {"freed"}

(* Nodes are deleted or in the queue or not linked yet; none is lost.      *)
NoLeak ==
  \A a \in live : a \in Range(Linked) \/
    \E t \in Thread : \/ newNode[t] = a /\ pc[t] \in EnqueueAt
                      \/ curHead[t] = a /\ pc[t] = "d_delete"

(* tail is never more than one node behind: at most one enqueue is between *)
(* its two steps, and nobody appends before tail has been helped on        *)
(* (lockfreequeue.h:37-60).                                                *)
TailNearEnd == tail \in Range(Linked) /\ (next[tail] # Null => next[next[tail]] = Null)

(* Lock-freedom, for a bounded number of calls: no thread retries forever. *)
EveryCallReturns == \A t \in Thread : pc[t] # "idle" ~> pc[t] = "idle" \/ "null" \in faults

-----------------------------------------------------------------------------
(* Each operation takes effect at one step: enqueue when it links its node,*)
(* dequeue when it moves head or finds head and tail alike, empty when it  *)
(* reads next.                                                             *)

Op(t) ==
  CASE pc[t] = "idle" -> "none"
    [] pc[t] \in EnqueueAt \cup {"e_swing", "e_done"} -> "enqueue"
    [] pc[t] \in DequeueAt \cup {"d_delete", "d_done"} -> "dequeue"
    [] pc[t] \in EmptyAt \cup {"i_done"} -> "empty"

AbstractCall ==
  [t \in Thread |->
     [op |-> Op(t), pending |-> Pending(t),
      arg |-> IF Op(t) = "enqueue" THEN <<t, puts[t]>> ELSE None]]

AbstractAnswer == [t \in Thread |-> IF Pending(t) THEN None ELSE ret[t]]

Fifo == INSTANCE FifoQueue WITH
  items <- Items, call <- AbstractCall, answer <- AbstractAnswer

(* LockFreeQueue implements FifoQueue.                                     *)
IsFifo == Fifo!Spec
=============================================================================
