---------------------------- MODULE QueueProofs -----------------------------
(***************************************************************************)
(* Theorems about LockFreeQueue: types for all constants; and no wild      *)
(* pointer, a tail near the end and no leak, for any number of threads     *)
(* while memory is not reused, and for one producer and one consumer, who  *)
(* touch no freed node either, though it is; in both cases it implements   *)
(* FifoQueue. They rest on Good, which follows the list from its first     *)
(* node on, deleted nodes included.                                        *)
(***************************************************************************)
EXTENDS LockFreeQueue, Induction, TLAPS

USE DEF Load, Goto

-----------------------------------------------------------------------------
(* Types.                                                                  *)

(* The labels at which a thread holds its new node, a tail and a head that *)
(* it has read.                                                            *)
HasNew  == EnqueueAt
HasTail == {"e_next", "e_check", "e_link", "e_help",
            "d_next", "d_check", "d_help", "d_data", "d_move", "i_next"}
HasHead == {"d_tail", "d_next", "d_check", "d_help", "d_data", "d_move", "i_tail", "i_next"}

(* What a thread holds at each label; null pointers are only where the     *)
(* code does not follow them, and only producers enqueue.                  *)
Held(t) ==
  /\ pc[t] \in EnqueueAt \cup {"e_swing"} => newNode[t] \in Addr
  /\ pc[t] \in HasTail \cup {"e_swing"} => curTail[t] \in Addr
  /\ pc[t] \in HasHead \cup {"d_delete"} => curHead[t] \in Addr
  /\ pc[t] \in {"e_help", "d_help", "d_move"} => lnext[t] \in Addr
  /\ pc[t] \in EnqueueAt \cup {"e_swing", "e_done"} => t \in Producer /\ puts[t] \in 1 .. MaxPuts
  /\ pc[t] \notin EnqueueAt \cup {"e_swing", "e_done", "idle"} => t \in Consumer

(* The type invariant, with what each thread holds: inductive.             *)
TypeInv == TypeOK /\ \A t \in Thread : Held(t)

(* A step of another thread leaves the locals of u alone.                  *)
Same(u) ==
  /\ pc'[u] = pc[u] /\ curHead'[u] = curHead[u] /\ curTail'[u] = curTail[u]
  /\ lnext'[u] = lnext[u] /\ newNode'[u] = newNode[u] /\ ret'[u] = ret[u]
  /\ u \in Producer => puts'[u] = puts[u]

(* The calls of t.                                                         *)
Call(t) ==
  \/ t \in Producer /\ CallEnqueue(t)
  \/ t \in Consumer /\ (CallDequeue(t) \/ CallEmpty(t))

(* A step of t leaves the locals of all other threads alone.               *)
LEMMA SameStep ==
  ASSUME TypeOK, NEW t \in Thread, Call(t) \/ Step(t), NEW u \in Thread \ {t}
  PROVE  Same(u)
<1>1. CASE Call(t)
  BY <1>1 DEF Call, CallEnqueue, CallDequeue, CallEmpty, BeginGet, nodeVars, localVars, TypeOK,
     Same, Thread
<1>2. CASE EnqueueStep(t)
  BY <1>2 DEF EnqueueStep, LoadTail, LoadNext, CheckTail, HelpEnqueue, Link, LinkFails,
     Swing, SwingTail, nodeVars, localVars, TypeOK, Same, Thread
<1>3. CASE DequeueStep(t)
  BY <1>3 DEF DequeueStep, LoadHead, LoadTail, LoadNext, CheckHead, HelpDequeue, CopyData,
     MoveHead, MoveHeadFails, Delete, SwingTail, nodeVars, localVars, TypeOK, Same, Thread
<1>4. CASE EmptyStep(t)
  BY <1>4 DEF EmptyStep, LoadHead, LoadTail, AnswerEmpty, nodeVars, localVars, TypeOK, Same, Thread
<1>5. CASE Return(t)
  BY <1>5 DEF Return, nodeVars, localVars, TypeOK, Same, Thread
<1> QED
  BY <1>1, <1>2, <1>3, <1>4, <1>5 DEF Step

(* Calls keep the types.                                                   *)
LEMMA TypeCall ==
  ASSUME TypeInv, NEW t \in Thread, Call(t), Observe
  PROVE  TypeOK'
<1> USE NullAssumption, BoundsAssumption DEF Call, TypeInv, TypeOK, Ptr, nodeVars, localVars, Observe, Kind
<1>1. CASE t \in Producer /\ CallEnqueue(t)
  <2>1. PICK a \in Addr :
          /\ live' = live \cup {a} /\ used' \in Addr
          /\ data' = [data EXCEPT ![a] = <<t, puts'[t]>>]
          /\ next' = [next EXCEPT ![a] = Null]
          /\ newNode' = [newNode EXCEPT ![t] = a]
    <3>1. PICK a \in Unused :
            /\ live' = live \cup {a} /\ used' = IF a > used THEN a ELSE used
            /\ data' = [data EXCEPT ![a] = <<t, puts'[t]>>]
            /\ next' = [next EXCEPT ![a] = Null]
            /\ newNode' = [newNode EXCEPT ![t] = a]
      BY <1>1 DEF CallEnqueue
    <3>2. a \in Addr
      BY <3>1, SwitchAssumption DEF Unused, Addr
    <3> QED
      BY <3>1, <3>2
  <2>2. puts'[t] \in 1 .. MaxPuts /\ puts' \in [Producer -> 0 .. MaxPuts]
    BY <1>1 DEF CallEnqueue
  <2>3. <<t, puts'[t]>> \in Value
    BY <1>1, <2>2 DEF Value
  <2>4. data' \in [Addr -> Value \cup {None}]
    BY <2>1, <2>3
  <2>5. pc' \in [Thread -> {"idle"} \cup EnqueueAt \cup DequeueAt \cup EmptyAt \cup DoneAt]
    BY <1>1 DEF CallEnqueue, EnqueueAt
  <2> QED
    BY <1>1, <2>1, <2>2, <2>4, <2>5 DEF CallEnqueue
<1>2. CASE t \in Consumer /\ (CallDequeue(t) \/ CallEmpty(t))
  <2>1. gets' \in [Consumer -> 0 .. MaxGets]
    BY <1>2 DEF CallDequeue, CallEmpty, BeginGet
  <2>2. pc' \in [Thread -> {"idle"} \cup EnqueueAt \cup DequeueAt \cup EmptyAt \cup DoneAt]
    BY <1>2 DEF CallDequeue, CallEmpty, DequeueAt, EmptyAt
  <2>3. UNCHANGED <<nodeVars, localVars, puts, faults>>
    BY <1>2 DEF CallDequeue, CallEmpty
  <2> QED
    BY <2>1, <2>2, <2>3
<1> QED
  BY <1>1, <1>2

(* The steps of an operation, and its return, keep the types.              *)
LEMMA TypeStep ==
  ASSUME TypeInv, NEW t \in Thread, Step(t), Observe
  PROVE  TypeOK'
<1> USE NullAssumption DEF TypeInv, TypeOK, Ptr, nodeVars, localVars, Observe, Kind
<1>1. CASE EnqueueStep(t)
  BY <1>1 DEF EnqueueStep, LoadTail, LoadNext, CheckTail, AfterCheckTail, HelpEnqueue, Link,
     LinkFails,
     Swing, SwingTail, Touch, Held, EnqueueAt, DequeueAt, EmptyAt, DoneAt, HasTail
<1>2. CASE DequeueStep(t)
  BY <1>2, SMTT(60) DEF DequeueStep, LoadHead, LoadTail, LoadNext, CheckHead, AfterCheckHead, HelpDequeue,
     CopyData, NodeToTake,
     MoveHead, MoveHeadFails, Delete, Free, SwingTail, Touch, Held, EnqueueAt, DequeueAt,
     EmptyAt, DoneAt, HasHead
<1>3. CASE EmptyStep(t)
  <2>1. CASE AnswerEmpty(t)
    <3>1. ret' \in [Thread -> Value \cup {None, <<"empty">>, <<"nonempty">>}]
      BY <2>1 DEF AnswerEmpty
    <3> QED
      BY <2>1, <3>1 DEF AnswerEmpty, Touch, EnqueueAt, DequeueAt, EmptyAt, DoneAt
  <2>2. CASE LoadHead(t, "i_head", "i_tail")
    BY <2>2 DEF LoadHead, EnqueueAt, DequeueAt, EmptyAt, DoneAt
  <2>3. CASE LoadTail(t, "i_tail", "i_next")
    BY <2>3 DEF LoadTail, EnqueueAt, DequeueAt, EmptyAt, DoneAt
  <2> QED
    BY <1>3, <2>1, <2>2, <2>3 DEF EmptyStep
<1>4. CASE Return(t)
  BY <1>4 DEF Return
<1> QED
  BY <1>1, <1>2, <1>3, <1>4 DEF Step

(* No step leaves a thread at a label without what it holds there.         *)
LEMMA HeldStep ==
  ASSUME TypeInv, TypeOK', NEW t \in Thread, Call(t) \/ Step(t), NEW u \in Thread
  PROVE  Held(u)'
<1> USE NullAssumption DEF TypeInv, TypeOK, Held
<1>1. CASE u # t
  BY <1>1, SameStep DEF Same
<1>2. CASE u = t
  <2>1. CASE t \in Producer /\ CallEnqueue(t)
    <3>1. newNode'[t] \in Addr /\ puts'[t] \in 1 .. MaxPuts
      <4>1. PICK a \in Unused : newNode' = [newNode EXCEPT ![t] = a]
        BY <2>1 DEF CallEnqueue
      <4>2. a \in Addr
        BY <4>1, SwitchAssumption, BoundsAssumption DEF Unused, Addr
      <4>3. puts'[t] = puts[t] + 1 /\ puts[t] < MaxPuts
        BY <2>1 DEF CallEnqueue
      <4> QED
        BY <2>1, <4>1, <4>2, <4>3, BoundsAssumption
    <3>2. pc'[t] = "e_tail"
      BY <2>1 DEF CallEnqueue
    <3> QED
      BY <2>1, <1>2, <3>1, <3>2 DEF EnqueueAt, HasTail, HasHead
  <2>2. CASE t \in Consumer /\ (CallDequeue(t) \/ CallEmpty(t))
    <3>1. pc'[t] \in {"d_head", "i_head"}
      BY <2>2 DEF CallDequeue, CallEmpty
    <3> QED
      BY <2>2, <1>2, <3>1 DEF EnqueueAt, HasTail, HasHead
  <2>3. CASE EnqueueStep(t)
    BY <1>2, <2>3 DEF EnqueueStep, LoadTail, LoadNext, CheckTail, AfterCheckTail, HelpEnqueue,
       Link, LinkFails, Swing, SwingTail, nodeVars, localVars, Ptr, EnqueueAt, HasTail, HasHead
  <2>4. CASE DequeueStep(t)
    BY <1>2, <2>4 DEF DequeueStep, LoadHead, LoadTail, LoadNext, CheckHead, AfterCheckHead,
       HelpDequeue, CopyData, NodeToTake, MoveHead, MoveHeadFails, Delete, SwingTail,
       nodeVars, localVars, Ptr, EnqueueAt, HasTail, HasHead
  <2>5. CASE EmptyStep(t)
    BY <1>2, <2>5 DEF EmptyStep, LoadHead, LoadTail, AnswerEmpty, nodeVars, localVars,
       EnqueueAt, HasTail, HasHead
  <2>6. CASE Return(t)
    BY <1>2, <2>6 DEF Return, EnqueueAt, HasTail, HasHead
  <2> QED
    BY <2>1, <2>2, <2>3, <2>4, <2>5, <2>6 DEF Call, Step
<1> QED
  BY <1>1, <1>2

(* The type invariant holds at the start.                                  *)
LEMMA TypeInit == Init => TypeInv
<1> SUFFICES ASSUME Init PROVE TypeInv
  OBVIOUS
<1>1. 1 \in Addr
  BY BoundsAssumption DEF Addr
<1>2. TypeOK
  BY <1>1, BoundsAssumption DEF Init, TypeOK, Ptr
<1> QED
  BY <1>2 DEF Init, TypeInv, Held, EnqueueAt, HasTail, HasHead

(* A step of the system is one of one thread, or changes nothing.          *)
LEMMA Steps ==
  ASSUME Next
  PROVE  \/ UNCHANGED vars
         \/ Observe /\ "null" \notin faults /\ \E t \in Thread : Call(t) \/ Step(t)
BY DEF Next, Running, Over, CallStep, Call, Thread

(* Every step keeps the type invariant.                                    *)
LEMMA TypeNext == TypeInv /\ [Next]_vars => TypeInv'
<1> SUFFICES ASSUME TypeInv, [Next]_vars PROVE TypeInv'
  OBVIOUS
<1>1. CASE UNCHANGED vars
  BY <1>1 DEF vars, nodeVars, localVars, TypeInv, TypeOK, Held
<1>2. ASSUME NEW t \in Thread, Call(t) \/ Step(t), Observe PROVE TypeInv'
  <2>1. TypeOK'
    BY <1>2, TypeCall, TypeStep
  <2>2. \A u \in Thread : Held(u)'
    BY <1>2, <2>1, HeldStep
  <2> QED
    BY <2>1, <2>2 DEF TypeInv
<1> QED
  BY <1>1, <1>2, Steps

(* TypeOK always holds, for all constants (the fields and locals of        *)
(* LockFreeQueue, lockfreequeue.h).                                        *)
THEOREM TypeCorrect == Spec => []TypeOK
<1>1. Spec => []TypeInv
  BY TypeInit, TypeNext, PTL DEF Spec
<1>2. TypeInv => TypeOK
  BY DEF TypeInv
<1> QED
  BY <1>1, <1>2, PTL

-----------------------------------------------------------------------------
(* The invariant.                                                          *)

(* The labels at which a thread holds both a head and a tail, and at which *)
(* it knows the node that was next to that head.                           *)
HasBoth == {"d_next", "d_check", "d_help", "d_data", "d_move", "i_next"}
HasNext == {"d_check", "d_help", "d_data", "d_move"}
(* The labels of an operation that has not taken effect.                   *)
IsPending == EnqueueAt \cup DequeueAt \cup EmptyAt

(* History of the list: c[1 .. n] are the nodes linked so far, in order,   *)
(* those that were deleted in front; next leads from each to the one       *)
(* behind. pos is the inverse of c, and 0 for a node that was not linked   *)
(* (or has been reused).                                                   *)
Chain(c, pos, n) ==
  /\ n \in 1 .. MaxNodes /\ c \in [1 .. n -> Addr] /\ pos \in [Addr -> 0 .. n]
  /\ \A i \in 1 .. n : pos[c[i]] = i
  /\ \A a \in Addr : pos[a] # 0 => c[pos[a]] = a
  /\ \A i \in 1 .. n - 1 : next[c[i]] = c[i + 1]
  /\ next[c[n]] = Null

(* head is not behind tail, and tail at the last node or the one before    *)
(* it.                                                                     *)
Ends(pos, n) ==
  1 <= pos[head] /\ pos[head] <= pos[tail] /\ n <= pos[tail] + 1

(* The new node of an enqueue under way is live, private and filled in.    *)
NewNode(t, pos) ==
  pc[t] \in HasNew =>
    /\ newNode[t] \in live /\ pos[newNode[t]] = 0
    /\ next[newNode[t]] = Null /\ data[newNode[t]] = <<t, puts[t]>>

(* The tail that t has read is in the chain and tail has not moved back;   *)
(* what t has read next to it, if not null, is still there, for next is    *)
(* never changed again.                                                    *)
TailRead(t, pos) ==
  /\ pc[t] \in HasTail =>
       1 <= pos[curTail[t]] /\ pos[curTail[t]] <= pos[tail]
  /\ pc[t] \in {"e_check", "e_help"} /\ lnext[t] # Null => lnext[t] = next[curTail[t]]

(* After its link the new node of t is behind the tail it has read, unless *)
(* that node has been deleted and forgotten, and then t is the only        *)
(* producer.                                                               *)
Swinging(t, pos) ==
  pc[t] = "e_swing" =>
    IF pos[curTail[t]] = 0 THEN Producer = {t}
    ELSE newNode[t] = next[curTail[t]] /\ pos[curTail[t]] <= pos[tail]

(* The same of the head that t has read, which is not behind its tail; and *)
(* if that node has a successor, t has been in the call when the queue had *)
(* an item.                                                                *)
HeadRead(t, pos) ==
  /\ pc[t] \in HasHead =>
       /\ 1 <= pos[curHead[t]] /\ pos[curHead[t]] <= pos[head]
       /\ next[curHead[t]] # Null => "nonempty" \in seen[t]
  /\ pc[t] \in HasBoth => pos[curHead[t]] <= pos[curTail[t]]

(* If t has found no next node, then head and tail were alike and the      *)
(* queue was empty during the call; otherwise it is the node behind.       *)
NextRead(t) ==
  /\ pc[t] \in HasNext =>
       IF lnext[t] = Null THEN curHead[t] = curTail[t] /\ "empty" \in seen[t]
       ELSE lnext[t] = next[curHead[t]]
  /\ pc[t] = "d_help" => curHead[t] = curTail[t]
  /\ pc[t] \in {"d_data", "d_move"} => curHead[t] # curTail[t]

(* The item that t copied is that of the node behind its head; before its  *)
(* effect an operation has no answer.                                      *)
Answers(t) ==
  /\ pc[t] = "d_move" => ret[t] = data[lnext[t]]
  /\ pc[t] \in {"idle", "e_swing", "e_done"} \cup (IsPending \ {"d_move"}) => ret[t] = None

(* The dummy that t took out of the list is live until t deletes it.       *)
Deleting(t, pos) ==
  pc[t] = "d_delete" => curHead[t] \in live /\ pos[curHead[t]] < pos[head]

(* A pending call has seen how the queue is now.                           *)
Sees(t) ==
  IF pc[t] \in IsPending THEN Kind \in seen[t] ELSE seen[t] = {}

(* No two threads hold one new node, or delete one node, or both.          *)
Distinct ==
  \A t, u \in Thread : t # u =>
    /\ pc[t] \in HasNew /\ pc[u] \in HasNew => newNode[t] # newNode[u]
    /\ pc[t] = "d_delete" /\ pc[u] = "d_delete" => curHead[t] # curHead[u]
    /\ pc[t] \in HasNew /\ pc[u] = "d_delete" => newNode[t] # curHead[u]

(* The nodes outside the list that a thread still accounts for.            *)
Holds(t, a) ==
  \/ newNode[t] = a /\ pc[t] \in HasNew
  \/ curHead[t] = a /\ pc[t] = "d_delete"

(* Live memory has been allocated; the nodes from head on are live; a live *)
(* node is one of them, or a thread holds it.                              *)
Memory(pos) ==
  /\ live \subseteq 1 .. used
  /\ \A a \in Addr : pos[a] >= pos[head] => a \in live
  /\ \A a \in live : pos[a] >= pos[head] \/ \E t \in Thread : Holds(t, a)

(* All of it for one thread.                                               *)
Local(t, pos) ==
  /\ NewNode(t, pos) /\ TailRead(t, pos) /\ Swinging(t, pos) /\ HeadRead(t, pos)
  /\ NextRead(t) /\ Answers(t) /\ Deleting(t, pos) /\ Sees(t)

(* The invariant, for the history <<c, pos, n>> of the list. Only memory   *)
(* that was freed may have been touched; everything else that faults       *)
(* records does not happen.                                                *)
Good(c, pos, n) ==
  /\ Chain(c, pos, n) /\ Ends(pos, n) /\ Memory(pos) /\ Distinct
  /\ \A t \in Thread : Local(t, pos)
  /\ faults \subseteq {"freed"}

-----------------------------------------------------------------------------
(* What the other threads know stays true.                                 *)

(* Along the chain: the last node has no next node, each other one the     *)
(* node that follows.                                                      *)
LEMMA Along ==
  ASSUME TypeInv, NEW n, NEW c, NEW pos, Chain(c, pos, n), NEW a \in Addr, pos[a] # 0
  PROVE  /\ pos[a] \in 1 .. n
         /\ next[a] = Null <=> pos[a] = n
         /\ next[a] # Null => next[a] \in Addr /\ pos[next[a]] = pos[a] + 1
<1> USE NullAssumption, BoundsAssumption DEF Chain, TypeInv, TypeOK
<1>1. pos[a] \in 1 .. n /\ n \in Nat
  OBVIOUS
<1>2. c[pos[a]] = a
  OBVIOUS
<1>3. CASE pos[a] = n
  BY <1>1, <1>2, <1>3
<1>4. CASE pos[a] # n
  <2>1. pos[a] \in 1 .. n - 1 /\ pos[a] + 1 \in 1 .. n
    BY <1>1, <1>4
  <2>2. next[a] = c[pos[a] + 1] /\ c[pos[a] + 1] \in Addr
    BY <1>2, <2>1
  <2>3. pos[next[a]] = pos[a] + 1
    BY <2>1, <2>2
  <2> QED
    BY <1>1, <1>4, <2>2, <2>3
<1> QED
  BY <1>3, <1>4

(* What a step of t may do to the shared memory, as the other threads need *)
(* it: next of a linked node is set once, head and tail only move on, and  *)
(* nobody touches what another thread holds.                               *)
Evolves(t, pos, q) ==
  /\ \A a \in Addr : pos[a] # 0 =>
       /\ q[a] = pos[a] /\ data'[a] = data[a]
       /\ next'[a] # next[a] => next[a] = Null /\ Kind' = "nonempty"
  /\ pos[head] <= q[head'] /\ pos[tail] <= q[tail']
  /\ \A u \in Thread \ {t} :
       /\ pc[u] \in HasNew =>
            /\ newNode[u] \in live' /\ q[newNode[u]] = 0
            /\ next'[newNode[u]] = next[newNode[u]] /\ data'[newNode[u]] = data[newNode[u]]
       /\ pc[u] = "d_delete" =>
            curHead[u] \in live' /\ q[curHead[u]] = pos[curHead[u]]
       /\ pc[u] = "e_swing" => q[curTail[u]] = pos[curTail[u]]

(* Under such a step what another thread knows stays true.                 *)
LEMMA LocalKept ==
  ASSUME TypeInv, TypeInv', NEW t \in Thread, NEW u \in Thread \ {t}, Same(u), Observe,
         NEW n, NEW c, NEW pos, Good(c, pos, n),
         NEW m \in Nat, NEW q \in [Addr -> 0 .. m], Evolves(t, pos, q)
  PROVE  Local(u, q)'
<1> USE NullAssumption, BoundsAssumption
<1>0. /\ n \in Nat /\ pos \in [Addr -> 0 .. n] /\ u \in Thread
      /\ TypeOK /\ Held(u) /\ Local(u, pos)
      /\ TypeOK' /\ Held(u)'
  BY DEF Good, Chain, TypeInv
<1>a. \A a \in Addr : pos[a] # 0 /\ next[a] # Null => next[a] \in Addr /\ pos[next[a]] # 0
  BY <1>0, Along DEF Good
<1>b. seen'[u] = IF pc[u] \in IsPending THEN seen[u] \cup {Kind'} ELSE {}
  BY <1>0 DEF Observe, Pending, Same, IsPending
<1>c. Kind \in {"empty", "nonempty"} /\ Kind' \in {"empty", "nonempty"}
  BY DEF Kind
<1>d. curTail[u] \in Ptr /\ curHead[u] \in Ptr /\ lnext[u] \in Ptr /\ newNode[u] \in Ptr
  BY <1>0 DEF TypeOK
<1>1. NewNode(u, q)'
  BY <1>0 DEF NewNode, Local, Same, Evolves, Held, HasNew, EnqueueAt
<1>2. TailRead(u, q)'
  BY <1>0 DEF TailRead, Local, Same, Evolves, Held, HasTail, TypeOK
<1>3. Swinging(u, q)'
  <2> SUFFICES ASSUME pc[u] = "e_swing" PROVE Swinging(u, q)'
    BY DEF Swinging, Same
  <2>1. curTail[u] \in Addr /\ newNode[u] \in Addr /\ q[curTail[u]] = pos[curTail[u]]
    BY <1>0 DEF Held, Evolves
  <2>2. IF pos[curTail[u]] = 0 THEN Producer = {u}
        ELSE newNode[u] = next[curTail[u]] /\ pos[curTail[u]] <= pos[tail]
    BY <1>0 DEF Swinging, Local
  <2>3. pos[curTail[u]] # 0 => next'[curTail[u]] = newNode[u]
    BY <2>1, <2>2 DEF Evolves
  <2>4. pos[tail] \in Nat /\ q[tail'] \in Nat /\ pos[curTail[u]] \in Nat /\ pos[tail] <= q[tail']
    BY <1>0, <2>1 DEF Evolves, TypeOK
  <2> QED
    BY <2>1, <2>2, <2>3, <2>4 DEF Swinging, Same
<1>4. HeadRead(u, q)'
  BY <1>0, <1>b, <1>c, <1>d DEF HeadRead, Local, Same, Evolves, Held, HasHead, HasBoth, HasTail,
     TypeOK, IsPending, DequeueAt, EmptyAt
<1>5. NextRead(u)'
  BY <1>0, <1>b DEF NextRead, HeadRead, Local, Same, Evolves, Held, HasHead, HasNext, IsPending,
     DequeueAt
<1>6. Answers(u)'
  BY <1>0, <1>a DEF Answers, NextRead, HeadRead, Local, Same, Evolves, Held, HasHead, HasNext
<1>7. Deleting(u, q)'
  <2> SUFFICES ASSUME pc[u] = "d_delete" PROVE Deleting(u, q)'
    BY DEF Deleting, Same
  <2>1. curHead[u] \in live' /\ q[curHead[u]] = pos[curHead[u]] /\ curHead[u] \in Addr
    BY <1>0 DEF Evolves, Held
  <2>2. pos[curHead[u]] < pos[head] /\ pos[head] <= q[head']
    BY <1>0 DEF Evolves, Deleting, Local
  <2>3. pos[head] \in Nat /\ q[head'] \in Nat /\ pos[curHead[u]] \in Nat
    BY <1>0, <2>1 DEF TypeOK
  <2> QED
    BY <2>1, <2>2, <2>3 DEF Deleting, Same
<1>8. Sees(u)'
  BY <1>0, <1>b DEF Sees, Local, Same
<1> QED
  BY <1>1, <1>2, <1>3, <1>4, <1>5, <1>6, <1>7, <1>8 DEF Local

-----------------------------------------------------------------------------
(* Steps that leave the shared memory alone.                               *)

(* A step that changes neither the memory nor who holds what keeps Good,   *)
(* if the thread itself knows what its new label asks for.                 *)
LEMMA QuietStep ==
  ASSUME TypeInv, TypeInv', NEW t \in Thread, Call(t) \/ Step(t), Observe,
         NEW n, NEW c, NEW pos, Good(c, pos, n),
         UNCHANGED nodeVars, Local(t, pos)', faults' \subseteq {"freed"},
         pc'[t] \in HasNew <=> pc[t] \in HasNew,
         pc[t] \in HasNew => newNode'[t] = newNode[t],
         pc[t] # "d_delete", pc'[t] # "d_delete"
  PROVE  Good(c, pos, n)'
<1> USE DEF nodeVars
<1>0. \A u \in Thread \ {t} : Same(u)
  BY SameStep DEF TypeInv
<1>1. Chain(c, pos, n)' /\ Ends(pos, n)'
  BY DEF Good, Chain, Ends
<1>2. \A u \in Thread, a \in Addr : Holds(u, a)' <=> Holds(u, a)
  BY <1>0 DEF Holds, Same
<1>3. Memory(pos)'
  BY <1>2 DEF Good, Memory, TypeInv, TypeOK
<1>4. Distinct'
  BY <1>0 DEF Good, Distinct, Same
<1>5. Evolves(t, pos, pos)
  BY BoundsAssumption DEF Good, Local, NewNode, Deleting, Evolves, Chain, TypeInv, TypeOK
<1>6. n \in Nat /\ pos \in [Addr -> 0 .. n]
  BY BoundsAssumption DEF Good, Chain
<1>7. \A u \in Thread \ {t} : Local(u, pos)'
  BY <1>0, <1>5, <1>6, LocalKept
<1> QED
  BY <1>1, <1>3, <1>4, <1>7 DEF Good

(* What a step adds to seen.                                               *)
LEMMA SeenStep ==
  ASSUME TypeInv, TypeInv', NEW t \in Thread, Observe
  PROVE  /\ seen'[t] = IF pc'[t] \in IsPending THEN seen[t] \cup {Kind'} ELSE {}
         /\ Kind' = IF next'[head'] = Null THEN "empty" ELSE "nonempty"
         /\ Sees(t)'
BY DEF Observe, Pending, IsPending, Kind, Sees

(* The types of the functions, for citation.                               *)
LEMMA TypeVars ==
  ASSUME TypeInv
  PROVE  /\ pc \in [Thread -> {"idle"} \cup EnqueueAt \cup DequeueAt \cup EmptyAt \cup DoneAt]
         /\ curHead \in [Thread -> Ptr] /\ curTail \in [Thread -> Ptr]
         /\ lnext \in [Thread -> Ptr] /\ newNode \in [Thread -> Ptr]
         /\ ret \in [Thread -> Value \cup {None, <<"empty">>, <<"nonempty">>}]
         /\ head \in Addr /\ tail \in Addr
         /\ next \in [Addr -> Ptr] /\ data \in [Addr -> Value \cup {None}]
BY DEF TypeInv, TypeOK

(* Reading head keeps Good (lockfreequeue.h:72, 108).                      *)
LEMMA LoadHeadGood ==
  ASSUME TypeInv, TypeInv', NEW t \in Thread, Step(t), Observe,
         NEW n, NEW c, NEW pos, Good(c, pos, n),
         LoadHead(t, "d_head", "d_tail") \/ LoadHead(t, "i_head", "i_tail")
  PROVE  Good(c, pos, n)'
<1>1. /\ pc[t] \in {"d_head", "i_head"} /\ pc'[t] \in {"d_tail", "i_tail"}
      /\ curHead'[t] = head /\ ret'[t] = ret[t]
      /\ UNCHANGED nodeVars /\ faults' = faults
  BY TypeVars DEF LoadHead, nodeVars
<1>2. Ends(pos, n) /\ ret[t] = None
  BY <1>1 DEF Good, Local, Answers, IsPending, DequeueAt, EmptyAt
<1>3. 1 <= pos[head] /\ pos[head] <= pos[head]
  BY <1>2, BoundsAssumption DEF Ends, Good, Chain, TypeInv, TypeOK
<1>4. HeadRead(t, pos)'
  BY <1>1, <1>3, SeenStep DEF HeadRead, HasBoth, nodeVars, IsPending, DequeueAt, EmptyAt
<1>5. Local(t, pos)'
  BY <1>1, <1>2, <1>4, SeenStep DEF Local, NewNode, TailRead, Swinging, NextRead, Answers, Deleting,
     HasNew, HasTail, HasNext, EnqueueAt
<1> QED
  BY <1>1, <1>5, QuietStep DEF HasNew, EnqueueAt, Good

(* One node, one place.                                                    *)
LEMMA OnePlace ==
  ASSUME NEW n, NEW c, NEW pos, Chain(c, pos, n),
         NEW a \in Addr, NEW b \in Addr, pos[a] = pos[b], pos[a] # 0
  PROVE  a = b
BY DEF Chain

(* Reading tail keeps Good: tail is not before a head read earlier.        *)
LEMMA LoadTailGood ==
  ASSUME TypeInv, TypeInv', NEW t \in Thread, Step(t), Observe,
         NEW n, NEW c, NEW pos, Good(c, pos, n),
         NEW from, NEW to, LoadTail(t, from, to),
         <<from, to>> \in {<<"e_tail", "e_next">>, <<"d_tail", "d_next">>, <<"i_tail", "i_next">>}
  PROVE  Good(c, pos, n)'
<1>1. /\ pc[t] = from /\ pc'[t] = to
      /\ curHead'[t] = curHead[t] /\ curTail'[t] = tail /\ newNode'[t] = newNode[t]
      /\ ret'[t] = ret[t]
      /\ UNCHANGED nodeVars /\ faults' = faults /\ puts' = puts
  BY TypeVars DEF LoadTail, nodeVars
<1>2. \/ pc[t] = "e_tail" /\ pc'[t] = "e_next"
      \/ pc[t] = "d_tail" /\ pc'[t] = "d_next"
      \/ pc[t] = "i_tail" /\ pc'[t] = "i_next"
  BY <1>1
<1> HIDE <1>1
<1>3. Local(t, pos) /\ Ends(pos, n)
  BY DEF Good
<1>4. NewNode(t, pos)'
  BY <1>1, <1>2, <1>3 DEF Local, NewNode, HasNew, EnqueueAt, nodeVars
<1>5. TailRead(t, pos)'
  <2>1. 1 <= pos[tail] /\ pos[tail] <= pos[tail]
    BY <1>3, TypeVars, BoundsAssumption DEF Ends, Good, Chain
  <2> QED
    BY <1>1, <1>2, <2>1 DEF TailRead, nodeVars
<1>6. HeadRead(t, pos)'
  <2> SUFFICES ASSUME pc[t] # "e_tail" PROVE HeadRead(t, pos)'
    BY <1>1, <1>2 DEF HeadRead, HasHead, HasBoth
  <2>1. /\ 1 <= pos[curHead[t]] /\ pos[curHead[t]] <= pos[head]
        /\ next[curHead[t]] # Null => "nonempty" \in seen[t]
    BY <1>2, <1>3 DEF Local, HeadRead, HasHead
  <2>2. curHead[t] \in Addr
    BY <1>2 DEF TypeInv, Held, HasHead
  <2>3. pos[curHead[t]] <= pos[tail]
    BY <1>3, <2>1, <2>2, TypeVars, BoundsAssumption DEF Ends, Good, Chain
  <2>4. seen[t] \subseteq seen'[t]
    BY <1>2, SeenStep DEF IsPending, DequeueAt, EmptyAt
  <2> QED
    BY <1>1, <2>1, <2>3, <2>4 DEF HeadRead, nodeVars
<1>7. Answers(t)'
  BY <1>1, <1>2, <1>3 DEF Local, Answers, IsPending, EnqueueAt, DequeueAt, EmptyAt
<1>8. Local(t, pos)'
  BY <1>2, <1>4, <1>5, <1>6, <1>7, SeenStep DEF Local, Swinging, NextRead, Deleting, HasNext
<1> QED
  BY <1>1, <1>2, <1>8, QuietStep DEF HasNew, EnqueueAt, Good

(* Reading next of the tail keeps Good (lockfreequeue.h:43).               *)
LEMMA LoadNextOfTailGood ==
  ASSUME TypeInv, TypeInv', NEW t \in Thread, Step(t), Observe,
         NEW n, NEW c, NEW pos, Good(c, pos, n),
         LoadNext(t, "e_next", curTail[t], "e_check")
  PROVE  Good(c, pos, n)'
<1>1. /\ pc[t] = "e_next" /\ pc'[t] = "e_check"
      /\ curTail'[t] = curTail[t] /\ newNode'[t] = newNode[t]
      /\ lnext'[t] = next[curTail[t]] /\ ret'[t] = ret[t]
      /\ UNCHANGED nodeVars /\ faults' \subseteq faults \cup {"freed"} /\ puts' = puts
  BY TypeVars DEF LoadNext, nodeVars, Touch
<1>2. Local(t, pos)
  BY DEF Good
<1>3. NewNode(t, pos)'
  BY <1>1, <1>2 DEF Local, NewNode, HasNew, EnqueueAt, nodeVars
<1>4. TailRead(t, pos)'
  BY <1>1, <1>2 DEF Local, TailRead, HasTail, nodeVars
<1>5. Answers(t)'
  BY <1>1, <1>2 DEF Local, Answers, IsPending, EnqueueAt
<1>6. Local(t, pos)'
  BY <1>1, <1>3, <1>4, <1>5, SeenStep DEF Local, Swinging, NextRead, HeadRead, Deleting, HasNext,
     HasHead, HasBoth
<1> QED
  BY <1>1, <1>6, QuietStep DEF HasNew, EnqueueAt, Good

(* Reading next of the head keeps Good: a head without a next node is the  *)
(* last node, hence the head and the tail of this moment, and the queue is *)
(* empty.                                                                  *)
LEMMA LoadNextOfHeadGood ==
  ASSUME TypeInv, TypeInv', NEW t \in Thread, Step(t), Observe,
         NEW n, NEW c, NEW pos, Good(c, pos, n),
         LoadNext(t, "d_next", curHead[t], "d_check")
  PROVE  Good(c, pos, n)'
<1>1. /\ pc[t] = "d_next" /\ pc'[t] = "d_check"
      /\ curTail'[t] = curTail[t] /\ curHead'[t] = curHead[t]
      /\ lnext'[t] = next[curHead[t]] /\ ret'[t] = ret[t]
      /\ UNCHANGED nodeVars /\ faults' \subseteq faults \cup {"freed"}
  BY TypeVars DEF LoadNext, nodeVars, Touch
<1>2. Local(t, pos) /\ Chain(c, pos, n) /\ Ends(pos, n)
  BY DEF Good
<1>3. curHead[t] \in Addr /\ curTail[t] \in Addr
  BY <1>1 DEF TypeInv, Held, HasHead, HasTail
<1>4. /\ 1 <= pos[curHead[t]] /\ pos[curHead[t]] <= pos[head]
      /\ pos[curHead[t]] <= pos[curTail[t]] /\ pos[curTail[t]] <= pos[tail]
      /\ next[curHead[t]] # Null => "nonempty" \in seen[t]
      /\ 1 <= pos[curTail[t]]
  BY <1>1, <1>2 DEF Local, HeadRead, TailRead, HasHead, HasBoth, HasTail
<1>5. seen'[t] = seen[t] \cup {Kind'}
  BY <1>1, SeenStep DEF IsPending, DequeueAt
<1>6. TailRead(t, pos)' /\ HeadRead(t, pos)'
  BY <1>1, <1>4, <1>5 DEF TailRead, HeadRead, nodeVars
<1>7. ASSUME next[curHead[t]] = Null
      PROVE  curHead[t] = curTail[t] /\ "empty" \in seen'[t]
  <2>0. /\ pos[curHead[t]] \in 0 .. n /\ pos[curTail[t]] \in 0 .. n
        /\ pos[head] \in 0 .. n /\ n \in Nat /\ head \in Addr
    BY <1>2, <1>3, TypeVars, BoundsAssumption DEF Chain
  <2>1. pos[curHead[t]] = n
    BY <1>2, <1>3, <1>4, <1>7, Along
  <2>2. pos[curTail[t]] = n /\ pos[head] = n
    BY <1>4, <2>0, <2>1
  <2>3. curTail[t] = curHead[t] /\ head = curHead[t]
    BY <1>2, <1>3, <1>4, <2>0, <2>1, <2>2, OnePlace
  <2> QED
    BY <1>1, <1>5, <1>7, <2>3, SeenStep DEF nodeVars
<1>8. NextRead(t)'
  BY <1>1, <1>7 DEF NextRead, nodeVars
<1>9. Answers(t)'
  BY <1>1, <1>2 DEF Local, Answers, IsPending, DequeueAt
<1>10. Local(t, pos)'
  BY <1>1, <1>6, <1>8, <1>9, SeenStep DEF Local, NewNode, Swinging, Deleting, HasNew, EnqueueAt
<1> QED
  BY <1>1, <1>10, QuietStep DEF HasNew, EnqueueAt, Good

(* The test of tail and a failed link keep Good.                           *)
LEMMA CheckTailGood ==
  ASSUME TypeInv, TypeInv', NEW t \in Thread, Step(t), Observe,
         NEW n, NEW c, NEW pos, Good(c, pos, n), CheckTail(t) \/ LinkFails(t)
  PROVE  Good(c, pos, n)'
<1>1. /\ pc[t] \in {"e_check", "e_link"}
      /\ pc[t] = "e_link" => pc'[t] = "e_tail"
      /\ pc'[t] \in {"e_tail", "e_link", "e_help"}
      /\ UNCHANGED <<localVars, puts>>
      /\ UNCHANGED nodeVars /\ faults' \subseteq faults \cup {"freed"}
  BY TypeVars DEF CheckTail, AfterCheckTail, LinkFails, nodeVars, localVars, Touch
<1>2. Local(t, pos)
  BY DEF Good
<1>3. NewNode(t, pos)'
  BY <1>1, <1>2 DEF Local, NewNode, HasNew, EnqueueAt, nodeVars, localVars
<1>4. TailRead(t, pos)'
  BY <1>1, <1>2 DEF Local, TailRead, HasTail, nodeVars, localVars
<1>5. Answers(t)'
  BY <1>1, <1>2 DEF Local, Answers, IsPending, EnqueueAt, localVars
<1>6. Local(t, pos)'
  BY <1>1, <1>3, <1>4, <1>5, SeenStep DEF Local, Swinging, NextRead, HeadRead, Deleting, HasNext,
     HasHead, HasBoth
<1> QED
  BY <1>1, <1>6, QuietStep DEF HasNew, EnqueueAt, Good, localVars

(* The test of head keeps Good.                                            *)
LEMMA CheckHeadGood ==
  ASSUME TypeInv, TypeInv', NEW t \in Thread, Step(t), Observe,
         NEW n, NEW c, NEW pos, Good(c, pos, n), CheckHead(t)
  PROVE  Good(c, pos, n)'
<1>1. /\ pc[t] = "d_check" /\ UNCHANGED nodeVars /\ UNCHANGED localVars /\ faults' = faults
      /\ \/ pc'[t] = "d_head"
         \/ pc'[t] = "d_data" /\ curHead[t] # curTail[t]
         \/ pc'[t] = "d_help" /\ curHead[t] = curTail[t]
         \/ pc'[t] = "d_done"
  BY TypeVars DEF CheckHead, AfterCheckHead, nodeVars, localVars
<1>2. Local(t, pos)
  BY DEF Good
<1>3. pc'[t] # "d_done" => seen'[t] = seen[t] \cup {Kind'}
  BY <1>1, SeenStep DEF IsPending, DequeueAt
<1>4. TailRead(t, pos)'
  BY <1>1, <1>2 DEF Local, TailRead, HasTail, nodeVars, localVars
<1>5. HeadRead(t, pos)'
  BY <1>1, <1>2, <1>3 DEF Local, HeadRead, HasHead, HasBoth, nodeVars, localVars
<1>6. NextRead(t)'
  BY <1>1, <1>2, <1>3 DEF Local, NextRead, HasNext, nodeVars, localVars
<1>7. Answers(t)'
  BY <1>1, <1>2 DEF Local, Answers, IsPending, EnqueueAt, DequeueAt, EmptyAt, localVars
<1>8. Local(t, pos)'
  BY <1>1, <1>4, <1>5, <1>6, <1>7, SeenStep DEF Local, NewNode, Swinging, Deleting, HasNew,
     EnqueueAt
<1> QED
  BY <1>1, <1>8, QuietStep DEF HasNew, EnqueueAt, Good

(* Copying the item keeps Good: the node next to head is there.            *)
LEMMA CopyDataGood ==
  ASSUME TypeInv, TypeInv', NEW t \in Thread, Step(t), Observe,
         NEW n, NEW c, NEW pos, Good(c, pos, n), CopyData(t)
  PROVE  Good(c, pos, n)'
<1>1. pc[t] = "d_data" /\ Local(t, pos)
  BY DEF CopyData, Good
<1>2. curHead[t] # curTail[t] /\ lnext[t] # Null
  BY <1>1 DEF Local, NextRead, HasNext
<1>3. /\ pc'[t] = "d_move" /\ UNCHANGED nodeVars
      /\ UNCHANGED <<curHead, curTail, lnext, newNode>>
      /\ ret'[t] = data[lnext[t]] /\ faults' \subseteq faults \cup {"freed"}
  BY <1>2, TypeVars DEF CopyData, NodeToTake, Touch, nodeVars
<1>4. seen'[t] = seen[t] \cup {Kind'}
  BY <1>3, SeenStep DEF IsPending, DequeueAt
<1>5. TailRead(t, pos)'
  BY <1>1, <1>3 DEF Local, TailRead, HasTail, nodeVars
<1>6. HeadRead(t, pos)'
  BY <1>1, <1>3, <1>4 DEF Local, HeadRead, HasHead, HasBoth, nodeVars
<1>7. NextRead(t)'
  BY <1>1, <1>2, <1>3 DEF Local, NextRead, HasNext, nodeVars
<1>8. Answers(t)'
  BY <1>3 DEF Answers, IsPending, EnqueueAt, DequeueAt, EmptyAt, nodeVars
<1>9. Local(t, pos)'
  BY <1>3, <1>5, <1>6, <1>7, <1>8, SeenStep DEF Local, NewNode, Swinging, Deleting, HasNew,
     EnqueueAt
<1> QED
  BY <1>1, <1>3, <1>9, QuietStep DEF HasNew, EnqueueAt, Good

(* A step that leaves the memory alone and after which its thread relies   *)
(* on nothing that it has read before keeps Good.                          *)
LEMMA FreshGood ==
  ASSUME TypeInv, TypeInv', NEW t \in Thread, Call(t) \/ Step(t), Observe,
         NEW n, NEW c, NEW pos, Good(c, pos, n), UNCHANGED nodeVars,
         pc[t] \notin HasNew \cup {"d_delete"},
         pc'[t] \in {"idle", "d_head", "i_head", "d_done", "i_done", "e_done"},
         pc'[t] \in {"d_done", "i_done"} \/ ret'[t] = None,
         faults' \subseteq faults \cup {"freed"}
  PROVE  Good(c, pos, n)'
<1>1. Answers(t)'
  BY DEF Answers, IsPending, EnqueueAt, DequeueAt, EmptyAt
<1>2. Local(t, pos)'
  BY <1>1, SeenStep DEF Local, NewNode, TailRead, Swinging, HeadRead, NextRead, Deleting,
     HasNew, HasTail, HasHead, HasBoth, HasNext, EnqueueAt
<1> QED
  BY <1>2, QuietStep DEF HasNew, EnqueueAt, Good

(* Among them: the calls of dequeue() and empty(), a failed move of head,  *)
(* the answer of empty(), and the return.                                  *)
LEMMA FreshStepGood ==
  ASSUME TypeInv, TypeInv', NEW t \in Thread, Observe, NEW n, NEW c, NEW pos, Good(c, pos, n),
         \/ t \in Consumer /\ (CallDequeue(t) \/ CallEmpty(t))
         \/ MoveHeadFails(t) \/ AnswerEmpty(t) \/ Return(t)
  PROVE  Good(c, pos, n)'
<1>1. Local(t, pos)
  BY DEF Good
<1>2. CASE t \in Consumer /\ (CallDequeue(t) \/ CallEmpty(t))
  <2>1. /\ pc[t] = "idle" /\ pc'[t] \in {"d_head", "i_head"} /\ ret' = ret
        /\ UNCHANGED nodeVars /\ faults' = faults
    BY <1>2, TypeVars DEF CallDequeue, CallEmpty, BeginGet, localVars
  <2>2. ret[t] = None
    BY <1>1, <2>1 DEF Local, Answers
  <2> QED
    BY <1>2, <2>1, <2>2, FreshGood DEF Call, HasNew, EnqueueAt
<1>3. CASE MoveHeadFails(t)
  <2>1. /\ pc[t] = "d_move" /\ pc'[t] = "d_head" /\ ret'[t] = None
        /\ UNCHANGED nodeVars /\ faults' = faults
    BY <1>3, TypeVars DEF MoveHeadFails
  <2> QED
    BY <1>3, <2>1, FreshGood DEF Step, DequeueStep, HasNew, EnqueueAt
<1>4. CASE AnswerEmpty(t)
  <2>1. /\ pc[t] = "i_next" /\ pc'[t] = "i_done"
        /\ UNCHANGED nodeVars /\ faults' \subseteq faults \cup {"freed"}
    BY <1>4, TypeVars DEF AnswerEmpty, Touch
  <2> QED
    BY <1>4, <2>1, FreshGood DEF Step, EmptyStep, HasNew, EnqueueAt
<1>5. CASE Return(t)
  <2>1. /\ pc[t] \in {"e_done", "d_done", "i_done"} /\ pc'[t] = "idle" /\ ret'[t] = None
        /\ UNCHANGED nodeVars /\ faults' = faults
    BY <1>5, TypeVars DEF Return
  <2> QED
    BY <1>5, <2>1, FreshGood DEF Step, HasNew, EnqueueAt
<1> QED
  BY <1>2, <1>3, <1>4, <1>5

(* A step that moves tail to the next node, or does not, keeps Good.       *)
LEMMA TailGood ==
  ASSUME TypeInv, TypeInv', NEW t \in Thread, Step(t), Observe,
         NEW n, NEW c, NEW pos, Good(c, pos, n),
         UNCHANGED <<head, next, data, live, used, localVars, puts, faults>>,
         tail' = tail \/ tail' = next[tail],
         \/ pc[t] = "e_help" /\ pc'[t] = "e_tail"
         \/ pc[t] = "e_swing" /\ pc'[t] = "e_done"
         \/ pc[t] = "d_help" /\ pc'[t] = "d_head"
  PROVE  Good(c, pos, n)'
<1>0. Chain(c, pos, n) /\ Ends(pos, n) /\ Memory(pos) /\ Distinct /\ Local(t, pos)
  BY DEF Good
<1>1. \A u \in Thread \ {t} : Same(u)
  BY SameStep DEF TypeInv
<1>2. pos[tail] <= pos[tail'] /\ n \in Nat /\ pos \in [Addr -> 0 .. n]
  <2>1. tail' \in Addr /\ tail \in Addr /\ n \in Nat /\ pos \in [Addr -> 0 .. n]
    BY <1>0, TypeVars, BoundsAssumption DEF TypeInv, TypeOK, Chain
  <2>2. pos[tail] # 0
    BY <1>0, <2>1, TypeVars DEF Ends
  <2>3. tail' = next[tail] => pos[tail'] = pos[tail] + 1
    BY <1>0, <2>1, <2>2, Along, NullAssumption
  <2> QED
    BY <2>1, <2>3
<1>3. Chain(c, pos, n)' /\ Ends(pos, n)'
  <2>1. Chain(c, pos, n)'
    BY <1>0 DEF Chain
  <2>2. Ends(pos, n)'
    BY <1>0, <1>2, TypeVars DEF Ends, TypeInv, TypeOK
  <2> QED
    BY <2>1, <2>2
<1>4. \A u \in Thread, a \in Addr : Holds(u, a)' <=> Holds(u, a)
  <2>1. \A u \in Thread, a \in Addr : u # t => (Holds(u, a)' <=> Holds(u, a))
    BY <1>1 DEF Holds, Same
  <2> QED
    BY <2>1 DEF Holds, localVars, HasNew, EnqueueAt
<1>5. Memory(pos)'
  BY <1>0, <1>4 DEF Memory, TypeInv, TypeOK
<1>6. Distinct'
  BY <1>0, <1>1 DEF Distinct, Same, HasNew, EnqueueAt, localVars
<1>7. Evolves(t, pos, pos)
  BY <1>0, <1>2, TypeVars DEF Good, Local, NewNode, Deleting, Evolves
<1>8. \A u \in Thread \ {t} : Local(u, pos)'
  BY <1>1, <1>2, <1>7, LocalKept
<1>9. Local(t, pos)'
  <2>1. Answers(t)'
    BY <1>0 DEF Local, Answers, localVars, IsPending, EnqueueAt, DequeueAt, EmptyAt
  <2>2. NewNode(t, pos)'
    BY <1>0 DEF Local, NewNode, localVars, HasNew, EnqueueAt
  <2> QED
    BY <2>1, <2>2, SeenStep DEF Local, TailRead, Swinging, HeadRead, NextRead, Deleting,
       HasTail, HasHead, HasBoth, HasNext
<1> QED
  BY <1>3, <1>5, <1>6, <1>8, <1>9 DEF Good

(* The three compare-and-exchanges of tail are such steps: where they      *)
(* succeed, the new value is the next node of the old one.                 *)
LEMMA SwingTailGood ==
  ASSUME TypeInv, TypeInv', NEW t \in Thread, Observe,
         NEW n, NEW c, NEW pos, Good(c, pos, n),
         HelpEnqueue(t) \/ Swing(t) \/ HelpDequeue(t)
  PROVE  Good(c, pos, n)'
<1>0. Local(t, pos) /\ Ends(pos, n) /\ Chain(c, pos, n)
  BY DEF Good
<1>a. Step(t)
  BY DEF Step, EnqueueStep, DequeueStep
<1>b. pos[tail] # 0
  BY <1>0, TypeVars, BoundsAssumption DEF Ends, Chain
<1>1. CASE HelpEnqueue(t)
  <2>1. pc[t] = "e_help" /\ lnext[t] = next[curTail[t]]
    BY <1>0, <1>1, NullAssumption DEF HelpEnqueue, Local, TailRead, TypeInv, Held
  <2>2. /\ UNCHANGED <<head, next, data, live, used, localVars, puts, faults>>
        /\ tail' = tail \/ tail' = next[tail]
    BY <1>1, <2>1 DEF HelpEnqueue, SwingTail
  <2>3. pc'[t] = "e_tail"
    BY <1>1, TypeVars DEF HelpEnqueue, SwingTail
  <2> QED
    BY <1>a, <2>1, <2>2, <2>3, TailGood
<1>2. CASE Swing(t)
  <2>1. pc[t] = "e_swing" /\ (tail = curTail[t] => newNode[t] = next[tail])
    BY <1>0, <1>b, <1>2 DEF Swing, Local, Swinging
  <2>2. /\ UNCHANGED <<head, next, data, live, used, localVars, puts, faults>>
        /\ tail' = tail \/ tail' = next[tail]
    BY <1>2, <2>1 DEF Swing, SwingTail
  <2>3. pc'[t] = "e_done"
    BY <1>2, TypeVars DEF Swing, SwingTail
  <2> QED
    BY <1>a, <2>1, <2>2, <2>3, TailGood
<1>3. CASE HelpDequeue(t)
  <2>1. pc[t] = "d_help" /\ lnext[t] = next[curTail[t]]
    BY <1>0, <1>3, NullAssumption DEF HelpDequeue, Local, NextRead, HasNext, TypeInv, Held
  <2>2. /\ UNCHANGED <<head, next, data, live, used, localVars, puts, faults>>
        /\ tail' = tail \/ tail' = next[tail]
    BY <1>3, <2>1 DEF HelpDequeue, SwingTail
  <2>3. pc'[t] = "d_head"
    BY <1>3, TypeVars DEF HelpDequeue, SwingTail
  <2> QED
    BY <1>a, <2>1, <2>2, <2>3, TailGood
<1> QED
  BY <1>1, <1>2, <1>3

-----------------------------------------------------------------------------
(* A node is linked; head moves; a node is deleted or allocated.           *)

(* An address that is not in the chain leaves room for one more node.      *)
LEMMA Room ==
  ASSUME NEW n, NEW c, NEW pos, Chain(c, pos, n), NEW a \in Addr, pos[a] = 0
  PROVE  n + 1 \in 1 .. MaxNodes
<1>0. n \in Nat /\ MaxNodes \in Nat /\ n <= MaxNodes
  BY BoundsAssumption DEF Chain
<1>1. SUFFICES ASSUME n = MaxNodes PROVE FALSE
  BY <1>0
<1>2. IsFiniteSet(Addr) /\ Cardinality(Addr) = n /\ IsFiniteSet(1 .. n) /\ Cardinality(1 .. n) = n
  BY <1>0, <1>1, FS_Interval DEF Addr
<1>3. IsFiniteSet(Addr \ {a}) /\ Cardinality(Addr \ {a}) = n - 1
  BY <1>2, FS_RemoveElement
<1>4. c \in [1 .. n -> Addr \ {a}]
  BY <1>0 DEF Chain
<1>5. \A i, j \in 1 .. n : c[i] = c[j] => i = j
  BY DEF Chain
<1>6. c \in Injection(1 .. n, Addr \ {a})
  BY <1>4, <1>5 DEF Injection, IsInjective
<1>7. Cardinality(1 .. n) <= Cardinality(Addr \ {a})
  BY <1>2, <1>3, <1>6, FS_Injection
<1> QED
  BY <1>0, <1>2, <1>3, <1>7

(* The history of the list once a is linked.                               *)
LinkChain(c, n, a) == [i \in 1 .. n + 1 |-> IF i = n + 1 THEN a ELSE c[i]]
LinkPos(pos, n, a) == [pos EXCEPT ![a] = n + 1]

(* Linking a node makes it the last of the chain and keeps Good.           *)
LEMMA LinkGood ==
  ASSUME TypeInv, TypeInv', NEW t \in Thread, Observe,
         NEW n, NEW c, NEW pos, Good(c, pos, n), Link(t), NEW a, a = newNode[t]
  PROVE  Good(LinkChain(c, n, a), LinkPos(pos, n, a), n + 1)'
<1> DEFINE b == curTail[t]
<1>0. Chain(c, pos, n) /\ Ends(pos, n) /\ Memory(pos) /\ Distinct /\ Local(t, pos)
  BY DEF Good
<1>1. /\ pc[t] = "e_link" /\ pc'[t] = "e_swing"
      /\ next[b] = Null /\ next' = [next EXCEPT ![b] = a]
      /\ UNCHANGED <<head, tail, data, live, used, localVars, puts>>
      /\ faults' \subseteq faults \cup {"freed"}
  BY TypeVars DEF Link, Touch
<1>2. a \in Addr /\ b \in Addr /\ t \in Producer
  BY <1>1 DEF TypeInv, Held, EnqueueAt, HasTail
<1>3. pos[a] = 0 /\ next[a] = Null /\ data[a] = <<t, puts[t]>> /\ a \in live
  BY <1>0, <1>1 DEF Local, NewNode, HasNew, EnqueueAt
<1>4. /\ n \in Nat /\ n >= 1 /\ pos \in [Addr -> 0 .. n] /\ c \in [1 .. n -> Addr] /\ n + 1 \in 1 .. MaxNodes
      /\ \A i \in 1 .. n : pos[c[i]] = i
      /\ \A x \in Addr : pos[x] # 0 => c[pos[x]] = x
  <2>1. n + 1 \in 1 .. MaxNodes
    BY <1>0, <1>2, <1>3, Room
  <2>2. n \in Nat /\ n >= 1
    BY <1>0, BoundsAssumption DEF Chain
  <2> QED
    BY <1>0, <2>1, <2>2 DEF Chain
<1>5. pos[b] = n /\ c[n] = b /\ pos[tail] = n /\ a # b
  <2>1. 1 <= pos[b] /\ pos[b] <= pos[tail]
    BY <1>0, <1>1 DEF Local, TailRead, HasTail
  <2>2. pos[b] \in 0 .. n /\ pos[tail] \in 0 .. n
    BY <1>2, <1>4, TypeVars
  <2>3. pos[b] = n
    BY <1>0, <1>1, <1>2, <2>1, <2>2, Along
  <2> QED
    BY <1>2, <1>3, <1>4, <2>1, <2>2, <2>3
<1>6. next'[b] = a /\ \A x \in Addr : x # b => next'[x] = next[x]
  BY <1>1, <1>2, TypeVars
<1> DEFINE q == LinkPos(pos, n, a)
           d == LinkChain(c, n, a)
<1>7. /\ q \in [Addr -> 0 .. n + 1] /\ q[a] = n + 1 /\ \A x \in Addr : x # a => q[x] = pos[x]
      /\ d \in [1 .. n + 1 -> Addr] /\ d[n + 1] = a /\ \A i \in 1 .. n : d[i] = c[i]
  BY <1>2, <1>4 DEF LinkPos, LinkChain
<1>8. tail # a /\ head # a /\ head \in Addr /\ tail \in Addr /\ pos[head] >= 1
  BY <1>0, <1>3, <1>4, <1>5, TypeVars DEF Ends
<1>b. \A u \in Thread \ {t} : Same(u)
  BY SameStep DEF TypeInv, Step, EnqueueStep
<1> HIDE DEF b, q, d
<1>9. ASSUME NEW r, r = q, NEW e, e = d PROVE Good(e, r, n + 1)'
  <2> USE <1>9
  <2>1. Chain(e, r, n + 1)'
    <3>1. \A i \in 1 .. n + 1 : r[e[i]] = i
      BY <1>3, <1>4, <1>7, SMTT(60)
    <3>2. \A x \in Addr : r[x] # 0 => e[r[x]] = x
      BY <1>2, <1>3, <1>4, <1>7, SMTT(60)
    <3>3. \A i \in 1 .. n : next'[e[i]] = e[i + 1]
      <4> SUFFICES ASSUME NEW i \in 1 .. n PROVE next'[e[i]] = e[i + 1]
        OBVIOUS
      <4>1. CASE i = n
        BY <1>4, <1>5, <1>6, <1>7, <4>1
      <4>2. CASE i # n
        <5>1. i \in 1 .. n - 1 /\ i + 1 \in 1 .. n /\ c[i] # b /\ c[i] \in Addr
          BY <1>4, <1>5, <4>2
        <5>2. next[c[i]] = c[i + 1]
          BY <1>0, <5>1 DEF Chain
        <5> QED
          BY <1>4, <1>6, <1>7, <5>1, <5>2
      <4> QED
        BY <4>1, <4>2
    <3>4. next'[e[n + 1]] = Null
      BY <1>2, <1>3, <1>5, <1>6, <1>7
    <3> QED
      BY <1>4, <1>7, <3>1, <3>2, <3>3, <3>4 DEF Chain
  <2>2. Ends(r, n + 1)'
    BY <1>0, <1>1, <1>4, <1>5, <1>7, <1>8 DEF Ends
  <2>3. Kind' = "nonempty"
    <3>1. next'[head] # Null
      BY <1>0, <1>2, <1>4, <1>5, <1>6, <1>8, NullAssumption, SMTT(60) DEF Chain, Ends
    <3> QED
      BY <1>1, <3>1 DEF Kind
  <2>4. Memory(r)'
    <3>1. \A x \in Addr : r[x] >= r[head'] => x \in live'
      BY <1>0, <1>1, <1>3, <1>4, <1>7, <1>8 DEF Memory
    <3>2. ASSUME NEW x \in live' PROVE r[x] >= r[head'] \/ \E u \in Thread : Holds(u, x)'
      <4>0. x \in live /\ x \in Addr
        BY <1>1 DEF TypeInv, TypeOK
      <4>1. CASE x = a
        BY <1>1, <1>4, <1>7, <1>8, <4>1
      <4>2. CASE x # a /\ pos[x] >= pos[head]
        BY <1>1, <1>7, <1>8, <4>0, <4>2
      <4>3. CASE x # a /\ \E u \in Thread : Holds(u, x)
        <5>1. PICK u \in Thread : Holds(u, x)
          BY <4>3
        <5>2. u # t
          BY <1>1, <4>3, <5>1 DEF Holds, HasNew, EnqueueAt
        <5> QED
          BY <1>b, <5>1, <5>2 DEF Same, Holds
      <4> QED
        BY <1>0, <4>0, <4>1, <4>2, <4>3 DEF Memory
    <3> QED
      BY <1>0, <1>1, <3>1, <3>2 DEF Memory
  <2>5. Distinct'
    BY <1>0, <1>1, <1>b DEF Distinct, Same, HasNew, EnqueueAt
  <2>6. Evolves(t, pos, r)
    <3>1. ASSUME NEW x \in Addr, pos[x] # 0
          PROVE  /\ r[x] = pos[x] /\ data'[x] = data[x]
                 /\ next'[x] # next[x] => next[x] = Null /\ Kind' = "nonempty"
      BY <1>1, <1>3, <1>6, <1>7, <2>3, <3>1
    <3>2. pos[head] <= r[head'] /\ pos[tail] <= r[tail']
      BY <1>1, <1>4, <1>7, <1>8
    <3>3. ASSUME NEW u \in Thread \ {t}, pc[u] \in HasNew
          PROVE  /\ newNode[u] \in live' /\ r[newNode[u]] = 0
                 /\ next'[newNode[u]] = next[newNode[u]] /\ data'[newNode[u]] = data[newNode[u]]
      <4>1. newNode[u] # a
        BY <1>0, <1>1, <3>3 DEF Distinct, HasNew, EnqueueAt
      <4>2. newNode[u] \in live /\ pos[newNode[u]] = 0 /\ newNode[u] \in Addr
        BY <3>3 DEF Good, Local, NewNode, TypeInv, TypeOK
      <4> QED
        BY <1>1, <1>4, <1>5, <1>6, <1>7, <4>1, <4>2
    <3>4. ASSUME NEW u \in Thread \ {t}, pc[u] = "d_delete"
          PROVE  curHead[u] \in live' /\ r[curHead[u]] = pos[curHead[u]]
      <4>1. curHead[u] # a
        BY <1>0, <1>1, <3>4 DEF Distinct, HasNew, EnqueueAt
      <4>2. curHead[u] \in live /\ curHead[u] \in Addr
        BY <3>4 DEF Good, Local, Deleting, TypeInv, TypeOK
      <4> QED
        BY <1>1, <1>7, <4>1, <4>2
    <3>5. ASSUME NEW u \in Thread \ {t}, pc[u] = "e_swing"
          PROVE  r[curTail[u]] = pos[curTail[u]]
      <4>1. Swinging(u, pos) /\ curTail[u] \in Addr
        BY <3>5 DEF Good, Local, TypeInv, Held
      <4>2. curTail[u] # a
        BY <1>2, <1>3, <3>5, <4>1 DEF Swinging
      <4> QED
        BY <1>7, <4>1, <4>2
    <3> QED
      BY <3>1, <3>2, <3>3, <3>4, <3>5 DEF Evolves
  <2>7. \A u \in Thread \ {t} : Local(u, r)'
    BY <1>4, <1>7, <1>b, <2>6, LocalKept
  <2>8. Local(t, r)'
    <3>1. Swinging(t, r)'
      BY <1>1, <1>2, <1>4, <1>5, <1>6, <1>7, <1>8 DEF Swinging, localVars, b
    <3>2. Answers(t)'
      BY <1>0, <1>1 DEF Local, Answers, localVars, IsPending, EnqueueAt
    <3> QED
      BY <1>1, <3>1, <3>2, SeenStep DEF Local, NewNode, TailRead, HeadRead, NextRead, Deleting,
         HasNew, HasTail, HasHead, HasBoth, HasNext, EnqueueAt
  <2> QED
    BY <1>1, <2>1, <2>2, <2>4, <2>5, <2>7, <2>8 DEF Good
<1> QED
  BY <1>9 DEF q, d

(* Moving head gives the old dummy to the thread that moved it, keeps Good *)
(* and takes head one place on.                                            *)
LEMMA MoveHeadGood ==
  ASSUME TypeInv, TypeInv', NEW t \in Thread, Observe,
         NEW n, NEW c, NEW pos, Good(c, pos, n), MoveHead(t)
  PROVE  Good(c, pos, n)' /\ pos[head'] = pos[head] + 1
<1>0. Chain(c, pos, n) /\ Ends(pos, n) /\ Memory(pos) /\ Distinct /\ Local(t, pos)
  BY DEF Good
<1>1. /\ pc[t] = "d_move" /\ pc'[t] = "d_delete"
      /\ head = curHead[t] /\ head' = lnext[t]
      /\ UNCHANGED <<tail, next, data, live, used, localVars, puts, faults>>
  BY TypeVars DEF MoveHead
<1>2. /\ n \in Nat /\ pos \in [Addr -> 0 .. n] /\ head \in Addr /\ head' \in Addr /\ tail \in Addr
      /\ curTail[t] \in Addr
  BY <1>0, <1>1, BoundsAssumption, TypeVars DEF Chain, TypeInv, TypeOK, Held, HasTail
<1>3. lnext[t] = next[head] /\ head # curTail[t] /\ next[head] # Null
  BY <1>0, <1>1 DEF Local, NextRead, HasNext
<1>4. pos[head'] = pos[head] + 1 /\ 1 <= pos[head]
  BY <1>0, <1>1, <1>2, <1>3, Along DEF Ends
<1>5. pos[head'] <= pos[tail]
  <2>1. pos[head] <= pos[curTail[t]] /\ pos[curTail[t]] <= pos[tail]
    BY <1>0, <1>1 DEF Local, HeadRead, TailRead, HasBoth, HasTail
  <2>2. pos[head] # pos[curTail[t]]
    BY <1>0, <1>2, <1>3, <1>4, OnePlace
  <2> QED
    BY <1>2, <1>4, <2>1, <2>2
<1>b. \A u \in Thread \ {t} : Same(u)
  BY SameStep DEF TypeInv, Step, DequeueStep
<1>6. Chain(c, pos, n)' /\ Ends(pos, n)'
  <2>1. Chain(c, pos, n)'
    BY <1>0, <1>1 DEF Chain
  <2>2. 1 <= pos[head']
    BY <1>2, <1>4
  <2> QED
    BY <1>0, <1>1, <1>5, <2>1, <2>2 DEF Ends
<1>7. Memory(pos)'
  <2>1. \A x \in Addr : pos[x] >= pos[head'] => x \in live'
    BY <1>0, <1>1, <1>2, <1>4 DEF Memory
  <2>2. ASSUME NEW x \in live' PROVE pos[x] >= pos[head'] \/ \E u \in Thread : Holds(u, x)'
    <3>0. x \in live /\ x \in Addr
      BY <1>1 DEF TypeInv, TypeOK
    <3>1. CASE pos[x] > pos[head]
      BY <1>2, <1>4, <3>0, <3>1
    <3>2. CASE pos[x] = pos[head]
      <4>1. x = curHead'[t]
        BY <1>0, <1>1, <1>2, <1>4, <3>0, <3>2, OnePlace DEF localVars
      <4> QED
        BY <1>1, <4>1 DEF Holds
    <3>3. CASE \E u \in Thread : Holds(u, x)
      <4>1. PICK u \in Thread : Holds(u, x)
        BY <3>3
      <4>2. u # t
        BY <1>1, <4>1 DEF Holds, HasNew, EnqueueAt
      <4> QED
        BY <1>b, <4>1, <4>2 DEF Same, Holds
    <3> QED
      BY <1>0, <1>2, <3>0, <3>1, <3>2, <3>3 DEF Memory
  <2> QED
    BY <1>0, <1>1, <2>1, <2>2 DEF Memory
<1>8. Distinct'
  <2>1. ASSUME NEW u \in Thread \ {t}, pc[u] = "d_delete" PROVE curHead[u] # head
    <3>1. pos[curHead[u]] < pos[head]
      BY <2>1 DEF Good, Local, Deleting
    <3> QED
      BY <1>2, <3>1
  <2>2. ASSUME NEW u \in Thread \ {t}, pc[u] \in HasNew PROVE newNode[u] # head
    <3>1. pos[newNode[u]] = 0
      BY <2>2 DEF Good, Local, NewNode
    <3> QED
      BY <1>4, <3>1
  <2> QED
    BY <1>0, <1>1, <1>b, <2>1, <2>2 DEF Distinct, Same, HasNew, EnqueueAt, localVars
<1>9. Evolves(t, pos, pos)
  BY <1>1, <1>2, <1>4, TypeVars DEF Good, Local, NewNode, Deleting, Evolves
<1>10. \A u \in Thread \ {t} : Local(u, pos)'
  BY <1>2, <1>9, <1>b, LocalKept
<1>11. Local(t, pos)'
  <2>1. Deleting(t, pos)'
    BY <1>0, <1>1, <1>2, <1>4 DEF Deleting, Memory, localVars
  <2> QED
    BY <1>1, <2>1, SeenStep DEF Local, NewNode, TailRead, Swinging, HeadRead, NextRead, Answers,
       HasNew, HasTail, HasHead, HasBoth, HasNext, IsPending, EnqueueAt, DequeueAt, EmptyAt
<1> QED
  BY <1>1, <1>4, <1>6, <1>7, <1>8, <1>10, <1>11 DEF Good

(* Deleting the old dummy keeps Good: nobody else deletes or owns it.      *)
LEMMA DeleteGood ==
  ASSUME TypeInv, TypeInv', NEW t \in Thread, Observe,
         NEW n, NEW c, NEW pos, Good(c, pos, n), Delete(t)
  PROVE  Good(c, pos, n)'
<1>0. Chain(c, pos, n) /\ Ends(pos, n) /\ Memory(pos) /\ Distinct /\ Local(t, pos)
  BY DEF Good
<1>1. /\ pc[t] = "d_delete" /\ pc'[t] = "d_done"
      /\ live' = live \ {curHead[t]}
      /\ UNCHANGED <<head, tail, next, data, used, localVars, puts>>
  BY TypeVars DEF Delete, Free
<1>2. curHead[t] \in live /\ curHead[t] \in Addr /\ pos[curHead[t]] < pos[head]
  BY <1>0, <1>1 DEF Local, Deleting, TypeInv, TypeOK
<1>3. faults' = faults
  BY <1>2 DEF Delete
<1>4. n \in Nat /\ pos \in [Addr -> 0 .. n] /\ head \in Addr /\ tail \in Addr
  BY <1>0, BoundsAssumption, TypeVars DEF Chain
<1>b. \A u \in Thread \ {t} : Same(u)
  BY SameStep DEF TypeInv, Step, DequeueStep
<1>5. Chain(c, pos, n)' /\ Ends(pos, n)'
  BY <1>0, <1>1 DEF Chain, Ends
<1>6. Memory(pos)'
  <2>1. \A x \in Addr : pos[x] >= pos[head'] => x \in live'
    BY <1>0, <1>1, <1>2, <1>4 DEF Memory
  <2>2. ASSUME NEW x \in live' PROVE pos[x] >= pos[head'] \/ \E u \in Thread : Holds(u, x)'
    <3>1. CASE pos[x] >= pos[head]
      BY <1>1, <3>1
    <3>2. CASE \E u \in Thread : Holds(u, x)
      <4>1. PICK u \in Thread : Holds(u, x)
        BY <3>2
      <4>2. u # t
        BY <1>1, <2>2, <4>1 DEF Holds, HasNew, EnqueueAt
      <4> QED
        BY <1>b, <4>1, <4>2 DEF Same, Holds
    <3> QED
      BY <1>0, <1>1, <2>2, <3>1, <3>2 DEF Memory
  <2> QED
    BY <1>0, <1>1, <2>1, <2>2 DEF Memory
<1>7. Distinct'
  BY <1>0, <1>1, <1>b DEF Distinct, Same, HasNew, EnqueueAt
<1>8. Evolves(t, pos, pos)
  <2>1. ASSUME NEW u \in Thread \ {t}, pc[u] \in HasNew
        PROVE  newNode[u] \in live' /\ pos[newNode[u]] = 0
    BY <1>0, <1>1, <2>1 DEF Good, Local, NewNode, Distinct
  <2>2. ASSUME NEW u \in Thread \ {t}, pc[u] = "d_delete"
        PROVE  curHead[u] \in live'
    BY <1>0, <1>1, <2>2 DEF Good, Local, Deleting, Distinct
  <2> QED
    BY <1>1, <1>4, <2>1, <2>2 DEF Evolves
<1>9. \A u \in Thread \ {t} : Local(u, pos)'
  BY <1>4, <1>8, <1>b, LocalKept
<1>10. Local(t, pos)'
  BY <1>1, SeenStep DEF Local, NewNode, TailRead, Swinging, HeadRead, NextRead, Answers, Deleting,
     HasNew, HasTail, HasHead, HasBoth, HasNext, IsPending, EnqueueAt, DequeueAt, EmptyAt
<1> QED
  BY <1>3, <1>5, <1>6, <1>7, <1>9, <1>10 DEF Good

(* enqueue() allocates a node that is not in the chain: Good is kept.      *)
LEMMA CallEnqueueGood ==
  ASSUME TypeInv, TypeInv', NEW t \in Producer, Observe,
         NEW n, NEW c, NEW pos, Good(c, pos, n), CallEnqueue(t),
         \A a \in Unused : pos[a] = 0
  PROVE  Good(c, pos, n)'
<1>0. Chain(c, pos, n) /\ Ends(pos, n) /\ Memory(pos) /\ Distinct /\ Local(t, pos) /\ t \in Thread
  BY DEF Good, Thread
<1>1. PICK a \in Unused :
        /\ live' = live \cup {a} /\ used' = IF a > used THEN a ELSE used
        /\ data' = [data EXCEPT ![a] = <<t, puts'[t]>>]
        /\ next' = [next EXCEPT ![a] = Null]
        /\ newNode' = [newNode EXCEPT ![t] = a]
  BY DEF CallEnqueue
<1>2. /\ pc[t] = "idle" /\ pc'[t] = "e_tail"
      /\ UNCHANGED <<head, tail, curHead, curTail, lnext, ret, faults>>
  BY <1>0, TypeVars DEF CallEnqueue
<1>3. a \in Addr /\ a \notin live /\ pos[a] = 0 /\ live' \subseteq 1 .. used'
  <2>1. used \in Nat /\ live \subseteq 1 .. used
    BY <1>0, BoundsAssumption DEF Memory, TypeInv, TypeOK, Addr
  <2>2. a \in Addr /\ a \notin live
    BY <1>1, <2>1, SwitchAssumption, BoundsAssumption DEF Unused, TypeInv, TypeOK, Addr
  <2> QED
    BY <1>1, <2>1, <2>2, BoundsAssumption DEF Addr
<1>4. n \in Nat /\ pos \in [Addr -> 0 .. n] /\ head \in Addr /\ tail \in Addr /\ c \in [1 .. n -> Addr]
  BY <1>0, BoundsAssumption, TypeVars DEF Chain
<1>5. /\ \A x \in Addr : x # a => next'[x] = next[x] /\ data'[x] = data[x]
      /\ next'[a] = Null /\ data'[a] = <<t, puts'[t]>> /\ newNode'[t] = a
  BY <1>0, <1>1, <1>3, TypeVars
<1>b. \A u \in Thread \ {t} : Same(u)
  BY <1>0, SameStep DEF TypeInv, Call
<1>6. Chain(c, pos, n)' /\ Ends(pos, n)'
  <2>1. \A i \in 1 .. n : c[i] # a
    BY <1>0, <1>3 DEF Chain
  <2>2. n \in 1 .. n /\ \A i \in 1 .. n - 1 : i \in 1 .. n
    BY <1>0, <1>4, BoundsAssumption DEF Chain
  <2>3. next'[c[n]] = Null /\ \A i \in 1 .. n - 1 : next'[c[i]] = c[i + 1]
    BY <1>0, <1>4, <1>5, <2>1, <2>2 DEF Chain
  <2> QED
    BY <1>0, <1>2, <2>3 DEF Chain, Ends
<1>7. Memory(pos)'
  <2>1. \A x \in Addr : pos[x] >= pos[head'] => x \in live'
    BY <1>0, <1>1, <1>2 DEF Memory
  <2>2. ASSUME NEW x \in live' PROVE pos[x] >= pos[head'] \/ \E u \in Thread : Holds(u, x)'
    <3>1. CASE x = a
      BY <1>0, <1>2, <1>5, <3>1 DEF Holds, HasNew, EnqueueAt
    <3>2. CASE pos[x] >= pos[head]
      BY <1>2, <3>2
    <3>3. CASE \E u \in Thread : Holds(u, x)
      <4>1. PICK u \in Thread : Holds(u, x)
        BY <3>3
      <4>2. u # t
        BY <1>2, <4>1 DEF Holds, HasNew, EnqueueAt
      <4> QED
        BY <1>b, <4>1, <4>2 DEF Same, Holds
    <3> QED
      BY <1>0, <1>1, <2>2, <3>1, <3>2, <3>3 DEF Memory
  <2> QED
    BY <1>3, <2>1, <2>2 DEF Memory
<1>8. Distinct'
  <2>1. ASSUME NEW u \in Thread \ {t} PROVE /\ pc[u] \in HasNew => newNode[u] # a
                                            /\ pc[u] = "d_delete" => curHead[u] # a
    BY <1>3, <2>1 DEF Good, Local, NewNode, Deleting
  <2> QED
    BY <1>0, <1>2, <1>5, <1>b, <2>1 DEF Distinct, Same
<1>9. Evolves(t, pos, pos)
  <2>1. ASSUME NEW u \in Thread \ {t}, pc[u] \in HasNew
        PROVE  /\ newNode[u] \in live /\ pos[newNode[u]] = 0 /\ newNode[u] # a
               /\ newNode[u] \in Addr
    <3>1. newNode[u] \in live /\ pos[newNode[u]] = 0
      BY <2>1 DEF Good, Local, NewNode
    <3>2. Held(u)
      BY DEF TypeInv
    <3>3. newNode[u] \in Addr
      BY <2>1, <3>2 DEF Held, HasNew
    <3> QED
      BY <1>3, <3>1, <3>3
  <2>2. ASSUME NEW u \in Thread \ {t}, pc[u] = "d_delete" PROVE curHead[u] \in live
    BY <2>2 DEF Good, Local, Deleting
  <2> QED
    BY <1>1, <1>2, <1>3, <1>4, <1>5, <2>1, <2>2 DEF Evolves
<1>10. \A u \in Thread \ {t} : Local(u, pos)'
  BY <1>0, <1>4, <1>9, <1>b, LocalKept
<1>11. Local(t, pos)'
  <2>1. NewNode(t, pos)'
    BY <1>1, <1>3, <1>5 DEF NewNode
  <2>2. Answers(t)'
    BY <1>0, <1>2 DEF Local, Answers
  <2> QED
    BY <1>0, <1>2, <2>1, <2>2, SeenStep DEF Local, TailRead, Swinging, HeadRead, NextRead, Deleting,
       HasTail, HasHead, HasBoth, HasNext
<1> QED
  BY <1>2, <1>6, <1>7, <1>8, <1>10, <1>11 DEF Good

-----------------------------------------------------------------------------
(* The list, from its history.                                             *)

(* The nodes from head on are the chain from the place of head on. By      *)
(* induction along the list.                                               *)
LEMMA LinkedIs ==
  ASSUME TypeInv, NEW n, NEW c, NEW pos, Chain(c, pos, n), Ends(pos, n),
         NEW h, h = pos[head]
  PROVE  Linked = [k \in 1 .. n - h + 1 |-> c[h + k - 1]]
<1> DEFINE f == [k \in 0 .. MaxNodes |-> IF h + k <= n THEN c[h + k] ELSE Null]
           IsNode(g) == g = [k \in 0 .. MaxNodes |-> IF k = 0 THEN head ELSE Follow(g[k - 1])]
<1>1. /\ n \in Nat /\ MaxNodes \in Nat /\ n <= MaxNodes /\ c \in [1 .. n -> Addr]
      /\ h \in 1 .. n /\ c[h] = head
  BY TypeVars, BoundsAssumption DEF Chain, Ends
<1>2. IsNode(f)
  <2> SUFFICES ASSUME NEW k \in 0 .. MaxNodes
               PROVE  f[k] = IF k = 0 THEN head ELSE Follow(f[k - 1])
    OBVIOUS
  <2>0. CASE k = 0
    BY <1>1, <2>0
  <2> SUFFICES ASSUME k # 0 PROVE f[k] = Follow(f[k - 1])
    BY <2>0
  <2>1. PICK j \in Nat : j = h + k - 1
    BY <1>1
  <2>2. j >= 1 /\ k - 1 \in 0 .. MaxNodes /\ h + (k - 1) = j /\ h + k = j + 1
    BY <1>1, <2>1
  <2>3. f[k] = IF j + 1 <= n THEN c[j + 1] ELSE Null
    BY <2>2
  <2>4. f[k - 1] = IF j <= n THEN c[j] ELSE Null
    BY <2>2
  <2> HIDE DEF f
  <2>5. CASE j < n
    <3>1. j \in 1 .. n - 1 /\ j \in 1 .. n
      BY <1>1, <2>2, <2>5
    <3>2. next[c[j]] = c[j + 1] /\ c[j] \in Addr
      BY <1>1, <3>1 DEF Chain
    <3> QED
      BY <1>1, <2>3, <2>4, <2>5, <3>2, NullAssumption DEF Follow
  <2>6. CASE j = n
    <3>1. next[c[n]] = Null /\ c[n] \in Addr
      BY <1>1 DEF Chain
    <3> QED
      BY <1>1, <2>3, <2>4, <2>6, <3>1, NullAssumption DEF Follow
  <2>7. CASE j > n
    BY <1>1, <2>3, <2>4, <2>7 DEF Follow
  <2> QED
    BY <1>1, <2>5, <2>6, <2>7
<1>3. IsNode(Node)
  <2>1. Node = CHOOSE g : IsNode(g)
    BY DEF Node
  <2>2. \E g : IsNode(g)
    BY <1>2
  <2> HIDE DEF IsNode
  <2> QED
    BY <2>1, <2>2
<1>4. \A k \in 0 .. MaxNodes : Node[k] = f[k]
  <2> DEFINE S == {k \in Nat : k <= MaxNodes => Node[k] = f[k]}
  <2>1. 0 \in S
    BY <1>1, <1>2, <1>3
  <2>2. ASSUME NEW k \in Nat, k \in S PROVE k + 1 \in S
    <3> SUFFICES ASSUME k + 1 <= MaxNodes PROVE Node[k + 1] = f[k + 1]
      OBVIOUS
    <3>1. Node[k] = f[k] /\ k + 1 \in 0 .. MaxNodes /\ k + 1 # 0 /\ (k + 1) - 1 = k
      BY <1>1, <2>2
    <3>2. Node[k + 1] = Follow(Node[k])
      BY <1>3, <3>1
    <3>3. f[k + 1] = Follow(f[k])
      <4> HIDE DEF f
      <4> QED
        BY <1>2, <3>1
    <3> QED
      BY <3>1, <3>2, <3>3
  <2> HIDE DEF S
  <2>3. Nat \subseteq S
    BY <2>1, <2>2, SetInduction
  <2> QED
    <3> HIDE DEF f
    <3> QED
      BY <1>1, <2>3 DEF S
<1>5. {k \in 0 .. MaxNodes - 1 : Node[k] # Null} = 0 .. n - h
  <2>1. \A k \in 0 .. MaxNodes - 1 : Node[k] # Null <=> h + k <= n
    BY <1>1, <1>4, NullAssumption, SMTT(60)
  <2> QED
    BY <1>1, <2>1
<1>6. Cardinality(0 .. n - h) = n - h + 1
  <2>1. 0 \in Int /\ n - h \in Int /\ ~ 0 > n - h
    BY <1>1
  <2> QED
    BY <2>1, FS_Interval
<1>7. \A k \in 1 .. n - h + 1 : Node[k - 1] = c[h + k - 1]
  <2> SUFFICES ASSUME NEW k \in 1 .. n - h + 1 PROVE Node[k - 1] = c[h + k - 1]
    OBVIOUS
  <2>1. k - 1 \in 0 .. MaxNodes /\ h + (k - 1) <= n /\ h + (k - 1) = h + k - 1
    BY <1>1
  <2>2. f[k - 1] = c[h + (k - 1)]
    BY <2>1
  <2> QED
    BY <1>4, <2>1, <2>2
<1> QED
  BY <1>5, <1>6, <1>7 DEF Linked

-----------------------------------------------------------------------------
(* Any number of threads, while memory is not reused.                      *)

(* Good holds at the start, for a chain that is the dummy.                 *)
LEMMA GoodInit ==
  ASSUME Init
  PROVE  Good([i \in 1 .. 1 |-> 1], [a \in Addr |-> IF a = 1 THEN 1 ELSE 0], 1)
<1> DEFINE c == [i \in 1 .. 1 |-> 1]
           pos == [a \in Addr |-> IF a = 1 THEN 1 ELSE 0]
<1>1. 1 \in Addr /\ 1 \in 1 .. MaxNodes
  BY BoundsAssumption DEF Addr
<1>2. c \in [1 .. 1 -> Addr] /\ pos \in [Addr -> 0 .. 1] /\ c[1] = 1 /\ pos[1] = 1
      /\ \A a \in Addr : pos[a] # 0 <=> a = 1
  BY <1>1
<1> HIDE DEF c, pos
<1>3. Chain(c, pos, 1)
  <2>1. \A i \in 1 .. 1 : i = 1
    OBVIOUS
  <2>2. 1 .. 1 - 1 = {}
    OBVIOUS
  <2> QED
    BY <1>1, <1>2, <2>1, <2>2 DEF Chain, Init
<1>4. Ends(pos, 1)
  BY <1>1, <1>2 DEF Init, Ends
<1>5. Memory(pos)
  <2>1. \A a \in Addr : pos[a] >= 1 => a = 1
    BY <1>2
  <2> QED
    BY <1>1, <1>2, <2>1 DEF Init, Memory
<1>6. Distinct
  BY DEF Init, Distinct, HasNew, EnqueueAt
<1>7. \A t \in Thread : Local(t, pos)
  BY DEF Init, Local, NewNode, TailRead, Swinging, HeadRead, NextRead, Answers, Deleting, Sees,
     HasNew, HasTail, HasHead, HasBoth, HasNext, IsPending, EnqueueAt, DequeueAt, EmptyAt
<1>8. faults \subseteq {"freed"}
  BY DEF Init
<1> QED
  BY <1>3, <1>4, <1>5, <1>6, <1>7, <1>8 DEF Good, c, pos

(* All steps but a link keep Good with the same history, provided that no  *)
(* address in the history is handed out.                                   *)
LEMMA GoodStep ==
  ASSUME TypeInv, TypeInv', NEW t \in Thread, Call(t) \/ Step(t), Observe,
         NEW n, NEW c, NEW pos, Good(c, pos, n), \A a \in Unused : pos[a] = 0, ~ Link(t)
  PROVE  Good(c, pos, n)'
<1>1. CASE Call(t)
  BY <1>1, CallEnqueueGood, FreshStepGood DEF Call
<1>2. CASE EnqueueStep(t)
  BY <1>2, LoadTailGood, LoadNextOfTailGood, CheckTailGood, SwingTailGood DEF EnqueueStep, Step
<1>3. CASE DequeueStep(t)
  <2>1. CASE LoadHead(t, "d_head", "d_tail") \/ LoadTail(t, "d_tail", "d_next")
             \/ LoadNext(t, "d_next", curHead[t], "d_check")
    BY <1>3, <2>1, LoadHeadGood, LoadTailGood, LoadNextOfHeadGood DEF Step
  <2>2. CASE CheckHead(t) \/ HelpDequeue(t) \/ CopyData(t)
    BY <1>3, <2>2, CheckHeadGood, SwingTailGood, CopyDataGood DEF Step
  <2>3. CASE MoveHead(t) \/ MoveHeadFails(t) \/ Delete(t)
    BY <1>3, <2>3, MoveHeadGood, FreshStepGood, DeleteGood
  <2> QED
    BY <1>3, <2>1, <2>2, <2>3 DEF DequeueStep
<1>4. CASE EmptyStep(t)
  BY <1>4, LoadHeadGood, LoadTailGood, FreshStepGood DEF EmptyStep, Step
<1>5. CASE Return(t)
  BY <1>5, FreshStepGood
<1> QED
  BY <1>1, <1>2, <1>3, <1>4, <1>5 DEF Step

(* When memory is not handed out again, all that was ever linked is below  *)
(* used, and a new node is none of it.                                     *)
Placed(pos) == \A a \in Addr : pos[a] # 0 => a <= used

(* The invariant for any number of threads, when memory is not reused.     *)
ManyInv ==
  TypeInv /\ \E n, c, pos : Good(c, pos, n) /\ Placed(pos)

(* used only grows.                                                        *)
LEMMA UsedGrows ==
  ASSUME TypeInv, TypeInv', NEW t \in Thread, Call(t) \/ Step(t)
  PROVE  used <= used'
<1>1. used \in Int /\ used' \in Int
  BY BoundsAssumption DEF TypeInv, TypeOK, Addr
<1>2. CASE Call(t)
  <2>1. ASSUME CallEnqueue(t) PROVE used <= used'
    <3>1. PICK a \in Unused : used' = IF a > used THEN a ELSE used
      BY <2>1 DEF CallEnqueue
    <3> QED
      BY <1>1, <3>1
  <2> QED
    BY <1>1, <1>2, <2>1 DEF Call, CallDequeue, CallEmpty, nodeVars
<1>3. CASE Step(t)
  <2>1. used' = used
    BY <1>3 DEF Step, EnqueueStep, DequeueStep, EmptyStep, LoadHead, LoadTail, LoadNext, CheckTail,
       HelpEnqueue, Link, LinkFails, Swing, SwingTail, CheckHead, HelpDequeue, CopyData, MoveHead,
       MoveHeadFails, Delete, AnswerEmpty, Return, nodeVars
  <2> QED
    BY <1>1, <2>1
<1> QED
  BY <1>2, <1>3

(* The places after a link.                                                *)
LEMMA LinkPosOf ==
  ASSUME NEW n \in Nat, NEW pos \in [Addr -> 0 .. n], NEW a \in Addr
  PROVE  /\ LinkPos(pos, n, a)[a] = n + 1
         /\ \A x \in Addr : x # a => LinkPos(pos, n, a)[x] = pos[x]
BY DEF LinkPos

(* Without reuse no address in the history is handed out.                  *)
LEMMA UnusedMany ==
  ASSUME TypeInv, Reuse = FALSE, NEW n, NEW c, NEW pos, Good(c, pos, n), Placed(pos)
  PROVE  \A a \in Unused : pos[a] = 0
BY BoundsAssumption DEF Unused, Placed, Addr, TypeInv, TypeOK, Good, Chain

(* Every step keeps the invariant of many threads.                         *)
LEMMA ManyStep ==
  ASSUME Reuse = FALSE, ManyInv, TypeInv', NEW t \in Thread, Call(t) \/ Step(t), Observe
  PROVE  ManyInv'
<1>0. TypeInv
  BY DEF ManyInv
<1>1. PICK n, c, pos : Good(c, pos, n) /\ Placed(pos)
  BY DEF ManyInv
<1>2. n \in Nat /\ pos \in [Addr -> 0 .. n] /\ used \in Int /\ used' \in Int /\ used <= used'
  <2>1. n \in Nat /\ pos \in [Addr -> 0 .. n]
    BY <1>1, BoundsAssumption DEF Good, Chain
  <2>2. used \in Int /\ used' \in Int
    BY <1>0, BoundsAssumption DEF TypeInv, TypeOK, Addr
  <2> QED
    BY <1>0, <2>1, <2>2, UsedGrows
<1>3. CASE ~ Link(t)
  <2>1. \A a \in Unused : pos[a] = 0
    BY <1>0, <1>1, UnusedMany
  <2>2. Good(c, pos, n)'
    BY <1>0, <1>1, <1>3, <2>1, GoodStep
  <2>3. Placed(pos)'
    BY <1>1, <1>2, BoundsAssumption DEF Placed, Addr
  <2> QED
    BY <2>2, <2>3 DEF ManyInv
<1>4. CASE Link(t)
  <2>1. PICK a : a = newNode[t]
    OBVIOUS
  <2>2. Good(LinkChain(c, n, a), LinkPos(pos, n, a), n + 1)'
    BY <1>0, <1>1, <1>4, <2>1, LinkGood
  <2>3. a \in Addr /\ a <= used
    BY <1>0, <1>1, <1>2, <1>4, <2>1, BoundsAssumption
       DEF Link, TypeInv, Held, Good, Local, NewNode, Memory, HasNew, EnqueueAt, Addr
  <2>4. Placed(LinkPos(pos, n, a))'
    <3> SUFFICES ASSUME NEW x \in Addr, LinkPos(pos, n, a)[x] # 0 PROVE x <= used'
      BY DEF Placed
    <3>1. x \in Int /\ a \in Int
      BY <2>3, BoundsAssumption DEF Addr
    <3>2. x <= used
      BY <1>1, <1>2, <2>3, LinkPosOf DEF Placed
    <3> QED
      BY <1>2, <3>1, <3>2
  <2> QED
    BY <2>2, <2>4 DEF ManyInv
<1> QED
  BY <1>3, <1>4

(* A stuttering step keeps Good.                                           *)
LEMMA GoodStill ==
  ASSUME UNCHANGED vars, NEW n, NEW c, NEW pos, Good(c, pos, n)
  PROVE  Good(c, pos, n)'
<1>1. UNCHANGED <<nodeVars, pc, localVars, puts, seen, faults>>
  BY DEF vars
<1>2. Chain(c, pos, n)' /\ Ends(pos, n)' /\ Memory(pos)' /\ Distinct'
  BY <1>1 DEF Good, nodeVars, localVars, Chain, Ends, Memory, Distinct, Holds
<1>3. \A t \in Thread : Local(t, pos)'
  BY <1>1 DEF Good, nodeVars, localVars, Local, NewNode, TailRead, Swinging, HeadRead, NextRead,
     Answers, Deleting, Sees, Kind
<1> QED
  BY <1>1, <1>2, <1>3 DEF Good

(* The invariant of many threads always holds.                             *)
LEMMA ManyInductive ==
  ASSUME Reuse = FALSE
  PROVE  Spec => []ManyInv
<1>1. Init => ManyInv
  <2> SUFFICES ASSUME Init PROVE ManyInv
    OBVIOUS
  <2>1. Placed([a \in Addr |-> IF a = 1 THEN 1 ELSE 0])
    BY DEF Placed, Init
  <2> QED
    BY <2>1, TypeInit, GoodInit DEF ManyInv
<1>2. ManyInv /\ [Next]_vars => ManyInv'
  <2> SUFFICES ASSUME ManyInv, [Next]_vars PROVE ManyInv'
    OBVIOUS
  <2>1. TypeInv /\ TypeInv'
    BY TypeNext DEF ManyInv
  <2>2. CASE UNCHANGED vars
    <3>1. PICK n, c, pos : Good(c, pos, n) /\ Placed(pos)
      BY DEF ManyInv
    <3>2. Good(c, pos, n)'
      BY <2>2, <3>1, GoodStill
    <3>3. Placed(pos)'
      BY <2>2, <3>1 DEF vars, nodeVars, Placed
    <3> QED
      BY <2>1, <3>2, <3>3 DEF ManyInv
  <2> QED
    BY <2>1, <2>2, Steps, ManyStep
<1> QED
  BY <1>1, <1>2, PTL DEF Spec

(* Good implies the safety invariants.                                     *)
LEMMA GoodMeans ==
  ASSUME TypeInv, NEW n, NEW c, NEW pos, Good(c, pos, n)
  PROVE  NoWildPointer /\ TailNearEnd /\ NoLeak
<1>0. Chain(c, pos, n) /\ Ends(pos, n) /\ Memory(pos)
  BY DEF Good
<1>1. /\ n \in Nat /\ pos \in [Addr -> 0 .. n] /\ c \in [1 .. n -> Addr] /\ head \in Addr /\ tail \in Addr
      /\ pos[head] \in 1 .. n /\ pos[head] <= pos[tail] /\ pos[tail] \in 1 .. n
      /\ \A a \in Addr : pos[a] # 0 => c[pos[a]] = a
  BY <1>0, TypeVars, BoundsAssumption DEF Chain, Ends
<1>2. \A a \in Addr : pos[a] >= pos[head] => a \in Range(Linked)
  <2> SUFFICES ASSUME NEW a \in Addr, pos[a] >= pos[head] PROVE a \in Range(Linked)
    OBVIOUS
  <2> DEFINE k == pos[a] - pos[head] + 1
  <2>1. k \in 1 .. n - pos[head] + 1 /\ pos[head] + k - 1 = pos[a] /\ pos[a] # 0
    BY <1>1
  <2> HIDE DEF k
  <2>2. Linked = [j \in 1 .. n - pos[head] + 1 |-> c[pos[head] + j - 1]]
    BY <1>0, LinkedIs
  <2>3. Linked[k] = a /\ k \in DOMAIN Linked
    BY <1>1, <2>1, <2>2
  <2> QED
    BY <2>3 DEF Range
<1>3. NoWildPointer
  BY DEF Good, NoWildPointer
<1>4. TailNearEnd
  <2>1. ASSUME next[tail] # Null PROVE next[next[tail]] = Null
    <3>1. next[tail] \in Addr /\ pos[next[tail]] = pos[tail] + 1
      BY <1>0, <1>1, <2>1, Along
    <3>2. pos[next[tail]] = n
      BY <1>0, <1>1, <3>1 DEF Ends
    <3> QED
      BY <1>0, <1>1, <3>1, <3>2, Along
  <2> QED
    BY <1>1, <1>2, <2>1 DEF TailNearEnd
<1>5. NoLeak
  <2> SUFFICES ASSUME NEW a \in live
               PROVE  \/ a \in Range(Linked)
                      \/ \E t \in Thread : \/ newNode[t] = a /\ pc[t] \in EnqueueAt
                                           \/ curHead[t] = a /\ pc[t] = "d_delete"
    BY DEF NoLeak
  <2>1. a \in Addr
    BY DEF TypeInv, TypeOK
  <2> QED
    BY <1>0, <1>2, <2>1 DEF Memory, Holds, HasNew
<1> QED
  BY <1>3, <1>4, <1>5

(* Whatever the number of producers and consumers, and with spurious       *)
(* failures: as long as memory is not reused, no node is deleted twice and *)
(* no null node is read (lockfreequeue.h:70-99).                           *)
THEOREM NoPointerGoesWild ==
  ASSUME Reuse = FALSE
  PROVE  Spec => []NoWildPointer
<1>1. ManyInv => NoWildPointer
  BY GoodMeans DEF ManyInv
<1> QED
  BY <1>1, ManyInductive, PTL

(* Under the same assumption tail is at most one node behind, so that      *)
(* helping it once is enough (lockfreequeue.h:37-60).                      *)
THEOREM TailStaysNearEnd ==
  ASSUME Reuse = FALSE
  PROVE  Spec => []TailNearEnd
<1>1. ManyInv => TailNearEnd
  BY GoodMeans DEF ManyInv
<1> QED
  BY <1>1, ManyInductive, PTL

(* Under the same assumption every live node is in the list or with the    *)
(* thread that links or deletes it (lockfreequeue.h:29, 99).               *)
THEOREM NoNodeIsLost ==
  ASSUME Reuse = FALSE
  PROVE  Spec => []NoLeak
<1>1. ManyInv => NoLeak
  BY GoodMeans DEF ManyInv
<1> QED
  BY <1>1, ManyInductive, PTL

-----------------------------------------------------------------------------
(* One producer and one consumer, with memory that is reused.              *)

(* The invariant for one producer p and one consumer q. Only the producer  *)
(* links nodes, and only the consumer moves head: tail is at the end       *)
(* unless p has linked a node and not moved it yet; the tail that p and    *)
(* the head that q have read are the present ones.                         *)
Paired(p, q, pos, n) ==
  /\ pc[p] # "e_swing" => pos[tail] = n
  /\ pc[p] \in {"e_next", "e_check", "e_link", "e_help"} => curTail[p] = tail
  /\ pc[p] = "e_swing" => pos[tail] = n \/ curTail[p] = tail
  /\ pc[q] \in HasHead => curHead[q] = head

(* The history of the list from head on: what was deleted is forgotten, so *)
(* that its addresses may come back.                                       *)
DropChain(c, n, k) == [i \in 1 .. n - k |-> c[i + k]]
DropPos(pos, k) == [a \in Addr |-> IF pos[a] > k THEN pos[a] - k ELSE 0]

(* Forgetting the nodes before head keeps the invariant of one producer    *)
(* and one consumer, and leaves only live nodes in the history.            *)
LEMMA Drop ==
  ASSUME TypeInv, NEW p, NEW q, Producer = {p}, Consumer = {q},
         NEW n, NEW c, NEW pos, Good(c, pos, n), Paired(p, q, pos, n),
         NEW k, k = pos[head] - 1
  PROVE  /\ Good(DropChain(c, n, k), DropPos(pos, k), n - k)
         /\ Paired(p, q, DropPos(pos, k), n - k)
         /\ \A a \in Addr : DropPos(pos, k)[a] # 0 => a \in live
<1>0. Chain(c, pos, n) /\ Ends(pos, n) /\ Memory(pos) /\ Distinct /\ \A t \in Thread : Local(t, pos)
  BY DEF Good
<1>1. /\ n \in Nat /\ n <= MaxNodes /\ MaxNodes \in Nat
      /\ c \in [1 .. n -> Addr] /\ pos \in [Addr -> 0 .. n] /\ head \in Addr /\ tail \in Addr
      /\ k \in 0 .. n - 1 /\ pos[head] = k + 1 /\ pos[head] <= pos[tail] /\ n <= pos[tail] + 1
  BY <1>0, TypeVars, BoundsAssumption DEF Chain, Ends
<1> DEFINE d == DropChain(c, n, k)
           r == DropPos(pos, k)
<1>2. /\ d \in [1 .. n - k -> Addr] /\ \A i \in 1 .. n - k : d[i] = c[i + k]
      /\ r \in [Addr -> 0 .. n - k]
      /\ \A a \in Addr : r[a] = IF pos[a] > k THEN pos[a] - k ELSE 0
  <2>1. \A i \in 1 .. n - k : i + k \in 1 .. n
    BY <1>1, SMTT(60)
  <2>2. \A a \in Addr : pos[a] \in 0 .. n /\ pos[a] > k => pos[a] - k \in 0 .. n - k
    BY <1>1, SMTT(60)
  <2>3. 0 \in 0 .. n - k
    BY <1>1
  <2> QED
    BY <1>1, <2>1, <2>2, <2>3 DEF DropChain, DropPos
<1>a. /\ n \in Nat /\ k \in Nat /\ k < n /\ n - k \in Nat
      /\ \A a \in Addr : pos[a] \in Nat /\ pos[a] <= n
      /\ pos[head] = k + 1 /\ k + 1 <= pos[tail] /\ n <= pos[tail] + 1
      /\ head \in Addr /\ tail \in Addr
  BY <1>1
<1>b. /\ \A a \in Addr : pos[a] > k => r[a] = pos[a] - k /\ r[a] > 0 /\ r[a] <= n - k
      /\ \A a \in Addr : ~ pos[a] > k => r[a] = 0
      /\ \A a \in Addr : r[a] \in Nat
  <2>1. \A a \in Addr : r[a] = IF pos[a] > k THEN pos[a] - k ELSE 0
    BY <1>2
  <2> HIDE DEF r
  <2> QED
    BY <1>a, <2>1
<1>c. r[head] = 1 /\ r[tail] = pos[tail] - k /\ r[tail] >= 1 /\ pos[tail] > k
  <2>1. pos[head] > k /\ pos[tail] > k /\ pos[head] - k = 1 /\ pos[tail] - k >= 1
    BY <1>a
  <2> HIDE DEF r
  <2> QED
    BY <1>a, <1>b, <2>1
<1> HIDE DEF d, r
<1>3. Chain(d, r, n - k)
  <2>1. n - k \in 1 .. MaxNodes
    BY <1>1
  <2>2. ASSUME NEW i \in 1 .. n - k PROVE r[d[i]] = i
    <3>1. i + k \in 1 .. n
      BY <1>a
    <3>a. d[i] = c[i + k]
      BY <1>2
    <3>2. pos[c[i + k]] = i + k /\ c[i + k] \in Addr
      BY <1>0, <1>1, <3>1 DEF Chain
    <3>3. r[c[i + k]] = (i + k) - k
      BY <1>a, <1>b, <3>2
    <3> QED
      BY <1>a, <3>a, <3>3
  <2>3. ASSUME NEW a \in Addr, r[a] # 0 PROVE d[r[a]] = a
    <3>1. r[a] \in 1 .. n - k /\ r[a] + k = pos[a] /\ pos[a] # 0
      BY <1>a, <1>b, <2>3
    <3>2. d[r[a]] = c[r[a] + k]
      BY <1>2, <3>1
    <3> QED
      BY <1>0, <3>1, <3>2 DEF Chain
  <2>4. ASSUME NEW i \in 1 .. (n - k) - 1 PROVE next[d[i]] = d[i + 1]
    <3>1. PICK j \in Nat : j = i + k
      BY <1>a
    <3>2. j \in 1 .. n - 1 /\ i \in 1 .. n - k /\ i + 1 \in 1 .. n - k /\ (i + 1) + k = j + 1
      BY <1>a, <3>1
    <3>3. d[i] = c[j] /\ d[i + 1] = c[j + 1]
      BY <1>2, <3>1, <3>2
    <3> QED
      BY <1>0, <3>2, <3>3 DEF Chain
  <2>5. next[d[n - k]] = Null
    <3>1. n - k \in 1 .. n - k /\ (n - k) + k = n
      BY <1>a
    <3>2. d[n - k] = c[n]
      BY <1>2, <3>1
    <3> QED
      BY <1>0, <3>2 DEF Chain
  <2> QED
    BY <1>2, <2>1, <2>2, <2>3, <2>4, <2>5 DEF Chain
<1>4. Ends(r, n - k)
  BY <1>a, <1>c DEF Ends
<1>5. Memory(r)
  <2>1. \A a \in Addr : r[a] >= r[head] <=> pos[a] >= pos[head]
    BY <1>a, <1>b, <1>c
  <2> QED
    BY <1>0, <2>1 DEF Memory, TypeInv, TypeOK
<1>6. ASSUME NEW t \in Thread PROVE Local(t, r)
  <2>0. Local(t, pos) /\ Held(t) /\ TypeOK
    BY <1>0 DEF TypeInv
  <2>1. NewNode(t, r)
    BY <1>a, <1>b, <2>0 DEF NewNode, Local, Held, HasNew
  <2>2. pc[t] \in HasTail => pos[curTail[t]] > k /\ curTail[t] \in Addr
    <3>0. pc[t] \in HasTail => curTail[t] \in Addr /\ pos[curTail[t]] \in 0 .. n
      BY <1>1, <2>0 DEF Held
    <3>1. CASE pc[t] \in {"e_next", "e_check", "e_link", "e_help"}
      <4>1. t = p
        BY <2>0, <3>1 DEF Held, EnqueueAt
      <4> QED
        BY <1>1, <3>1, <4>1 DEF Paired
    <3>2. CASE pc[t] \in HasBoth
      <4>1. t = q
        BY <2>0, <3>2 DEF Held, HasBoth, EnqueueAt
      <4>2. curHead[t] = head
        BY <3>2, <4>1 DEF Paired, HasBoth, HasHead
      <4> QED
        BY <1>1, <2>0, <3>0, <3>2, <4>2 DEF Local, HeadRead
    <3> QED
      BY <3>1, <3>2 DEF HasTail, HasBoth
  <2>3. TailRead(t, r)
    <3>4. ASSUME pc[t] \in HasTail PROVE 1 <= r[curTail[t]] /\ r[curTail[t]] <= r[tail]
      <4>1. pos[curTail[t]] <= pos[tail] /\ pos[curTail[t]] > k /\ curTail[t] \in Addr
        BY <2>0, <2>2, <3>4 DEF Local, TailRead
      <4> QED
        BY <1>a, <1>b, <1>c, <4>1
    <3> QED
      BY <2>0, <3>4 DEF TailRead, Local
  <2>4. Swinging(t, r)
    <3> SUFFICES ASSUME pc[t] = "e_swing", r[curTail[t]] # 0
                 PROVE  newNode[t] = next[curTail[t]] /\ r[curTail[t]] <= r[tail]
      BY <2>0 DEF Swinging, Held
    <3>1. curTail[t] \in Addr
      BY <2>0 DEF Held
    <3>2. pos[curTail[t]] # 0 /\ r[curTail[t]] = pos[curTail[t]] - k /\ r[tail] = pos[tail] - k
      BY <1>a, <1>b, <1>c, <3>1
    <3>3. newNode[t] = next[curTail[t]] /\ pos[curTail[t]] <= pos[tail]
      BY <2>0, <3>2 DEF Local, Swinging
    <3> QED
      BY <1>a, <3>1, <3>2, <3>3
  <2>5. HeadRead(t, r)
    <3> SUFFICES ASSUME pc[t] \in HasHead PROVE HeadRead(t, r)
      BY DEF HeadRead, HasHead, HasBoth
    <3>1. t = q
      BY <2>0 DEF Held, HasHead, EnqueueAt
    <3>2. curHead[t] = head /\ r[head] = 1
      BY <1>c, <3>1 DEF Paired
    <3>3. pc[t] \in HasBoth => 1 <= r[curTail[t]]
      <4>1. pc[t] \in HasBoth => pc[t] \in HasTail
        BY DEF HasBoth, HasTail
      <4> QED
        BY <1>a, <1>b, <2>2, <4>1
    <3> QED
      BY <2>0, <3>2, <3>3 DEF HeadRead, Local
  <2>6. Deleting(t, r)
    <3> SUFFICES ASSUME pc[t] = "d_delete" PROVE curHead[t] \in live /\ r[curHead[t]] < r[head]
      BY DEF Deleting
    <3>1. curHead[t] \in live /\ pos[curHead[t]] < pos[head] /\ curHead[t] \in Addr
      BY <2>0 DEF Local, Deleting, Held
    <3> QED
      BY <1>a, <1>b, <1>c, <3>1
  <2> QED
    BY <2>0, <2>1, <2>3, <2>4, <2>5, <2>6 DEF Local
<1>7. Good(d, r, n - k)
  BY <1>0, <1>3, <1>4, <1>5, <1>6 DEF Good
<1>8. Paired(p, q, r, n - k)
  <2>1. pos[tail] = n => r[tail] = n - k
    BY <1>c
  <2> QED
    BY <2>1 DEF Paired
<1>9. \A a \in Addr : r[a] # 0 => a \in live
  BY <1>0, <1>1, <1>2 DEF Memory
<1> QED
  BY <1>7, <1>8, <1>9 DEF d, r

(* The labels at which a producer relies on the tail that it has read.     *)
AtTail == {"e_next", "e_check", "e_link", "e_help"}

(* What a step of t does to head and tail, and to what t has read of them. *)
LEMMA Effects ==
  ASSUME TypeInv, NEW t \in Thread, Call(t) \/ Step(t)
  PROVE  /\ tail' = tail \/ HelpEnqueue(t) \/ Swing(t) \/ HelpDequeue(t)
         /\ head' = head \/ MoveHead(t)
         /\ pc'[t] = "e_swing" => Link(t)
         /\ pc[t] = "e_swing" => Swing(t)
         /\ pc'[t] \in HasHead =>
              \/ pc[t] \in HasHead /\ curHead'[t] = curHead[t]
              \/ curHead'[t] = head
         /\ pc'[t] \in AtTail =>
              \/ pc[t] \in AtTail /\ curTail'[t] = curTail[t]
              \/ curTail'[t] = tail
<1>1. CASE Call(t)
  <2>1. pc[t] = "idle" /\ pc'[t] \in {"e_tail", "d_head", "i_head"} /\ tail' = tail /\ head' = head
    BY <1>1, TypeVars DEF Call, CallEnqueue, CallDequeue, CallEmpty, BeginGet, nodeVars
  <2> QED
    BY <2>1 DEF HasHead, AtTail
<1>2. CASE EnqueueStep(t)
  BY <1>2, TypeVars DEF EnqueueStep, LoadTail, LoadNext, CheckTail, AfterCheckTail, HelpEnqueue,
     Link,
     LinkFails, Swing, SwingTail, nodeVars, localVars, HasHead, AtTail
<1>3. CASE DequeueStep(t)
  BY <1>3, TypeVars DEF DequeueStep, LoadHead, LoadTail, LoadNext, CheckHead, AfterCheckHead,
     HelpDequeue, CopyData, MoveHead, MoveHeadFails, Delete, SwingTail,
     nodeVars, localVars, HasHead, AtTail
<1>4. CASE EmptyStep(t)
  BY <1>4, TypeVars DEF EmptyStep, LoadHead, LoadTail, AnswerEmpty, nodeVars, HasHead, AtTail
<1>5. CASE Return(t)
  BY <1>5, TypeVars DEF Return, nodeVars, HasHead, AtTail
<1> QED
  BY <1>1, <1>2, <1>3, <1>4, <1>5 DEF Step

(* What the producer and the consumer hold is live, and tail lags only     *)
(* while the producer is about to move it: it never needs to help.         *)
LEMMA PairHolds ==
  ASSUME TypeInv, NEW p, NEW q, Producer = {p}, Consumer = {q},
         NEW n, NEW c, NEW pos, Good(c, pos, n), Paired(p, q, pos, n),
         NEW t \in Thread
  PROVE  /\ head \in live /\ tail \in live
         /\ pc[t] \in AtTail => t = p /\ curTail[t] = tail /\ next[tail] = Null
         /\ pc[t] \in HasHead => t = q /\ curHead[t] = head
         /\ pc[t] \in {"d_data", "d_move"} => lnext[t] \in live
         /\ pc[t] # "e_help"
<1>0. Chain(c, pos, n) /\ Ends(pos, n) /\ Memory(pos) /\ Local(t, pos) /\ Held(t)
  BY DEF Good, TypeInv
<1>1. /\ n \in Nat /\ pos \in [Addr -> 0 .. n] /\ head \in Addr /\ tail \in Addr
      /\ pos[head] >= 1 /\ pos[tail] >= pos[head]
  BY <1>0, TypeVars, BoundsAssumption DEF Chain, Ends
<1>2. head \in live /\ tail \in live
  BY <1>0, <1>1 DEF Memory
<1>3. ASSUME pc[t] \in AtTail PROVE t = p /\ curTail[t] = tail /\ next[tail] = Null
  <2>1. t = p
    BY <1>0, <1>3 DEF Held, AtTail, EnqueueAt
  <2>2. curTail[t] = tail /\ pos[tail] = n
    BY <1>3, <2>1 DEF Paired, AtTail
  <2> QED
    BY <1>0, <1>1, <2>1, <2>2, Along
<1>4. ASSUME pc[t] \in HasHead PROVE t = q /\ curHead[t] = head
  BY <1>0, <1>4 DEF Held, Paired, HasHead, EnqueueAt
<1>5. ASSUME pc[t] \in {"d_data", "d_move"} PROVE lnext[t] \in live
  <2>1. curHead[t] = head
    BY <1>4, <1>5 DEF HasHead
  <2>2. curHead[t] # curTail[t]
    BY <1>0, <1>5 DEF Local, NextRead
  <2>3. lnext[t] = next[head] /\ lnext[t] # Null
    BY <1>0, <1>5, <2>1, <2>2 DEF Local, NextRead, HasNext
  <2>4. lnext[t] \in Addr /\ pos[lnext[t]] = pos[head] + 1
    BY <1>0, <1>1, <2>3, Along
  <2> QED
    BY <1>0, <1>1, <2>4 DEF Memory
<1>6. ASSUME pc[t] = "e_help" PROVE FALSE
  <2>1. lnext[t] \in Addr /\ lnext[t] = next[tail]
    BY <1>0, <1>3, <1>6, NullAssumption DEF Held, Local, TailRead, AtTail
  <2> QED
    BY <1>3, <1>6, <2>1, NullAssumption DEF AtTail
<1> QED
  BY <1>2, <1>3, <1>4, <1>5, <1>6

(* So no step touches a freed node.                                        *)
LEMMA PairTouches ==
  ASSUME TypeInv, NEW p, NEW q, Producer = {p}, Consumer = {q},
         NEW n, NEW c, NEW pos, Good(c, pos, n), Paired(p, q, pos, n),
         NEW t \in Thread, Call(t) \/ Step(t), "freed" \notin faults
  PROVE  "freed" \notin faults'
<1>1. CASE Call(t)
  BY <1>1 DEF Call, CallEnqueue, CallDequeue, CallEmpty
<1>2. CASE EnqueueStep(t)
  <2>1. CASE LoadNext(t, "e_next", curTail[t], "e_check") \/ Link(t) \/ LinkFails(t)
    BY <2>1, PairHolds DEF LoadNext, Link, LinkFails, Touch, AtTail
  <2> QED
    BY <1>2, <2>1 DEF EnqueueStep, LoadTail, CheckTail, HelpEnqueue, Swing, SwingTail
<1>3. CASE DequeueStep(t)
  <2>1. CASE LoadNext(t, "d_next", curHead[t], "d_check")
    BY <2>1, PairHolds DEF LoadNext, Touch, HasHead
  <2>2. CASE CopyData(t)
    BY <2>2, PairHolds DEF CopyData, NodeToTake, Touch
  <2> QED
    BY <1>3, <2>1, <2>2 DEF DequeueStep, LoadHead, LoadTail, CheckHead, HelpDequeue, MoveHead,
       MoveHeadFails, Delete, SwingTail
<1>4. CASE EmptyStep(t)
  <2>1. CASE AnswerEmpty(t)
    BY <2>1, PairHolds DEF AnswerEmpty, Touch, HasHead
  <2> QED
    BY <1>4, <2>1 DEF EmptyStep, LoadHead, LoadTail
<1>5. CASE Return(t)
  BY <1>5 DEF Return
<1> QED
  BY <1>1, <1>2, <1>3, <1>4, <1>5 DEF Step

(* Every step but a link keeps Paired: an exchange of tail that may not    *)
(* fail for no reason takes it to the end.                                 *)
LEMMA PairMoves ==
  ASSUME TypeInv, TypeInv', NEW p, NEW q, Producer = {p}, Consumer = {q}, Spurious = FALSE,
         NEW n, NEW c, NEW pos, Good(c, pos, n), Paired(p, q, pos, n),
         NEW t \in Thread, Call(t) \/ Step(t), ~ Link(t)
  PROVE  Paired(p, q, pos, n)'
<1>0. Chain(c, pos, n) /\ Ends(pos, n) /\ Local(t, pos) /\ Held(t)
  BY DEF Good, TypeInv
<1>1. p \in Thread /\ q \in Thread /\ \A u \in Thread \ {t} : Same(u)
  BY SameStep DEF TypeInv, Thread
<1>2. /\ n \in Nat /\ pos \in [Addr -> 0 .. n] /\ head \in Addr /\ tail \in Addr
      /\ pos[tail] # 0 /\ n <= pos[tail] + 1 /\ tail' \in Addr
  BY <1>0, TypeVars, BoundsAssumption, SMTT(60) DEF Chain, Ends, TypeInv, TypeOK
<1>3. next[tail] # Null => pos[next[tail]] = n
  BY <1>0, <1>2, Along
<1>4. \/ tail' = tail
      \/ tail' = next[tail] /\ next[tail] # Null
  <2>1. ~ HelpEnqueue(t)
    BY PairHolds DEF HelpEnqueue
  <2>2. CASE Swing(t)
    <3>1. pc[t] = "e_swing" /\ newNode[t] \in Addr
      BY <1>0, <2>2 DEF Swing, Held
    <3>2. tail = curTail[t] => newNode[t] = next[tail]
      BY <1>0, <1>2, <3>1 DEF Local, Swinging
    <3> QED
      BY <2>2, <3>1, <3>2, NullAssumption DEF Swing, SwingTail
  <2>3. CASE HelpDequeue(t)
    <3>1. pc[t] = "d_help" /\ curHead[t] = curTail[t] /\ lnext[t] = next[curHead[t]] /\ lnext[t] \in Addr
      BY <1>0, <2>3, NullAssumption DEF HelpDequeue, Local, NextRead, Held, HasNext
    <3> QED
      BY <2>3, <3>1, NullAssumption DEF HelpDequeue, SwingTail
  <2> QED
    BY <2>1, <2>2, <2>3, Effects
<1>5. pos[tail] = n => pos[tail'] = n /\ tail' = tail
  BY <1>0, <1>2, <1>4, Along
<1>6. pos[tail'] = n \/ tail' = tail
  BY <1>3, <1>4
<1>7. pc'[t] # "e_swing"
  BY Effects
<1>8. pc'[p] # "e_swing" => pos[tail'] = n
  <2>1. CASE pc[p] # "e_swing"
    BY <1>5, <2>1 DEF Paired
  <2>2. CASE pc[p] = "e_swing" /\ p # t
    BY <1>1, <2>2 DEF Same
  <2>3. CASE pc[p] = "e_swing" /\ p = t
    <3>1. Swing(t) /\ newNode[t] \in Addr
      BY <1>0, <2>3, Effects DEF Held
    <3>2. CASE tail = curTail[t]
      <4>1. newNode[t] = next[tail] /\ next[tail] # Null
        BY <1>0, <1>2, <2>3, <3>1, <3>2, NullAssumption DEF Local, Swinging
      <4>2. tail' = newNode[t]
        BY <3>1, <3>2 DEF Swing, SwingTail
      <4> QED
        BY <1>3, <4>1, <4>2
    <3>3. CASE tail # curTail[t]
      BY <1>5, <2>3, <3>3 DEF Paired
    <3> QED
      BY <3>2, <3>3
  <2> QED
    BY <2>1, <2>2, <2>3
<1>9. pc'[p] \in AtTail => curTail'[p] = tail'
  <2> SUFFICES ASSUME pc'[p] \in AtTail PROVE curTail'[p] = tail'
    OBVIOUS
  <2>1. CASE p # t
    <3>1. pc[p] \in AtTail /\ curTail'[p] = curTail[p]
      BY <1>1, <2>1 DEF Same
    <3> QED
      BY <1>5, <3>1 DEF Paired, AtTail
  <2>2. CASE p = t
    <3>1. pc[p] # "e_swing"
      <4> SUFFICES ASSUME Swing(t), pc'[t] \in AtTail PROVE FALSE
        BY <2>2, Effects
      <4>1. pc'[t] = "e_done"
        BY TypeVars DEF Swing, SwingTail
      <4> QED
        BY <4>1 DEF AtTail
    <3>2. tail' = tail
      BY <1>5, <3>1 DEF Paired
    <3> QED
      BY <2>2, <3>2, Effects DEF Paired, AtTail
  <2> QED
    BY <2>1, <2>2
<1>10. pc'[p] = "e_swing" => pos[tail'] = n \/ curTail'[p] = tail'
  <2> SUFFICES ASSUME pc'[p] = "e_swing" PROVE pos[tail'] = n \/ curTail'[p] = tail'
    OBVIOUS
  <2>1. pc[p] = "e_swing" /\ curTail'[p] = curTail[p]
    BY <1>1, <1>7 DEF Same
  <2> QED
    BY <1>5, <1>6, <2>1 DEF Paired
<1>11. pc'[q] \in HasHead => curHead'[q] = head'
  <2> SUFFICES ASSUME pc'[q] \in HasHead PROVE curHead'[q] = head'
    OBVIOUS
  <2>1. head' = head
    <3> SUFFICES ASSUME MoveHead(t) PROVE FALSE
      BY Effects
    <3>1. pc[t] = "d_move" /\ pc'[t] = "d_delete"
      BY TypeVars DEF MoveHead
    <3>2. t = q
      BY <3>1, PairHolds DEF HasHead
    <3> QED
      BY <3>1, <3>2 DEF HasHead
  <2>2. CASE q # t
    BY <1>1, <2>1, <2>2 DEF Same, Paired
  <2>3. CASE q = t
    BY <2>1, <2>3, Effects DEF Paired
  <2> QED
    BY <2>2, <2>3
<1> QED
  BY <1>8, <1>9, <1>10, <1>11 DEF Paired, AtTail

(* A link keeps Paired, with the history that it makes.                    *)
LEMMA PairLinks ==
  ASSUME TypeInv, TypeInv', NEW p, NEW q, Producer = {p}, Consumer = {q},
         NEW n, NEW c, NEW pos, Good(c, pos, n), Paired(p, q, pos, n),
         NEW t \in Thread, Link(t), NEW a, a = newNode[t]
  PROVE  Paired(p, q, LinkPos(pos, n, a), n + 1)'
<1>1. /\ pc[t] = "e_link" /\ pc'[t] = "e_swing" /\ UNCHANGED <<head, tail, localVars>>
  BY TypeVars DEF Link
<1>2. t = p /\ curTail[p] = tail
  BY <1>1, PairHolds DEF AtTail
<1>3. pc'[q] \in HasHead => pc[q] \in HasHead
  BY <1>1, TypeVars DEF Link, HasHead, Thread
<1> QED
  BY <1>1, <1>2, <1>3 DEF Paired, localVars
-----------------------------------------------------------------------------
(* Nor is one when all of the history is live.                             *)
LEMMA UnusedPair ==
  ASSUME TypeInv, NEW n, NEW c, NEW pos, Good(c, pos, n), \A a \in Addr : pos[a] # 0 => a \in live
  PROVE  \A a \in Unused : pos[a] = 0
<1>1. \A a \in Unused : a \in Addr /\ a \notin live
  <2>1. used \in Addr /\ live \subseteq 1 .. used
    BY DEF Good, Memory, TypeInv, TypeOK
  <2> QED
    BY <2>1, SwitchAssumption, BoundsAssumption DEF Unused, Addr
<1> QED
  BY <1>1

(* The invariant for one producer p and one consumer q, whatever memory is *)
(* reused: nobody has touched a freed node.                                *)
PairInv(p, q) ==
  /\ TypeInv /\ "freed" \notin faults
  /\ \E n, c, pos : Good(c, pos, n) /\ Paired(p, q, pos, n)

(* Every step keeps the invariant of one producer and one consumer: what   *)
(* was deleted is forgotten first, so that no address in the history is    *)
(* handed out.                                                             *)
LEMMA PairStep ==
  ASSUME NEW p, NEW q, Producer = {p}, Consumer = {q}, Spurious = FALSE,
         PairInv(p, q), TypeInv', NEW t \in Thread, Call(t) \/ Step(t), Observe
  PROVE  PairInv(p, q)'
<1>0. TypeInv /\ "freed" \notin faults
  BY DEF PairInv
<1>1. PICK n, c, pos : /\ Good(c, pos, n) /\ Paired(p, q, pos, n)
                       /\ \A a \in Addr : pos[a] # 0 => a \in live
  BY <1>0, Drop DEF PairInv
<1>2. "freed" \notin faults'
  BY <1>0, <1>1, PairTouches
<1>3. CASE ~ Link(t)
  <2>1. \A a \in Unused : pos[a] = 0
    BY <1>0, <1>1, UnusedPair
  <2>2. Good(c, pos, n)' /\ Paired(p, q, pos, n)'
    BY <1>0, <1>1, <1>3, <2>1, GoodStep, PairMoves
  <2> QED
    BY <1>2, <2>2 DEF PairInv
<1>4. CASE Link(t)
  <2>1. PICK a : a = newNode[t]
    OBVIOUS
  <2>2. Good(LinkChain(c, n, a), LinkPos(pos, n, a), n + 1)'
    BY <1>0, <1>1, <1>4, <2>1, LinkGood
  <2>3. Paired(p, q, LinkPos(pos, n, a), n + 1)'
    BY <1>0, <1>1, <1>4, <2>1, PairLinks
  <2> QED
    BY <1>2, <2>2, <2>3 DEF PairInv
<1> QED
  BY <1>3, <1>4

(* The invariant of one producer and one consumer always holds.            *)
LEMMA PairInductive ==
  ASSUME NEW p, NEW q, Producer = {p}, Consumer = {q}, Spurious = FALSE
  PROVE  Spec => []PairInv(p, q)
<1>1. Init => PairInv(p, q)
  <2> SUFFICES ASSUME Init PROVE PairInv(p, q)
    OBVIOUS
  <2>1. p \in Thread /\ q \in Thread /\ TypeInv
    BY TypeInit DEF Thread
  <2>2. Paired(p, q, [a \in Addr |-> IF a = 1 THEN 1 ELSE 0], 1)
    BY <2>1, BoundsAssumption DEF Paired, Init, HasHead, Addr
  <2>3. "freed" \notin faults
    BY DEF Init
  <2> QED
    BY <2>1, <2>2, <2>3, GoodInit DEF PairInv
<1>2. PairInv(p, q) /\ [Next]_vars => PairInv(p, q)'
  <2> SUFFICES ASSUME PairInv(p, q), [Next]_vars PROVE PairInv(p, q)'
    OBVIOUS
  <2>1. TypeInv /\ TypeInv'
    BY TypeNext DEF PairInv
  <2>2. CASE UNCHANGED vars
    <3>1. PICK n, c, pos : Good(c, pos, n) /\ Paired(p, q, pos, n)
      BY DEF PairInv
    <3>2. Good(c, pos, n)'
      BY <2>2, <3>1, GoodStill
    <3>3. Paired(p, q, pos, n)' /\ "freed" \notin faults'
      BY <2>2, <3>1 DEF vars, nodeVars, localVars, Paired, PairInv
    <3> QED
      BY <2>1, <3>2, <3>3 DEF PairInv
  <2> QED
    BY <2>1, <2>2, Steps, PairStep
<1> QED
  BY <1>1, <1>2, PTL DEF Spec

(* With one producer and one consumer, and exchanges that do not fail for  *)
(* no reason, nobody touches a node that is deleted, although its memory   *)
(* may be reused (lockfreequeue.h:98-99).                                  *)
THEOREM PairTouchesLiveNodes ==
  ASSUME NEW p, NEW q, Producer = {p}, Consumer = {q}, Spurious = FALSE
  PROVE  Spec => []NoUseAfterFree
<1>1. PairInv(p, q) => NoUseAfterFree
  BY DEF PairInv, NoUseAfterFree
<1> QED
  BY <1>1, PairInductive, PTL

(* Nor is a node deleted twice or lost then, and tail is at most one node  *)
(* behind (lockfreequeue.h:37-99).                                         *)
THEOREM PairKeepsTheList ==
  ASSUME NEW p, NEW q, Producer = {p}, Consumer = {q}, Spurious = FALSE
  PROVE  Spec => [](NoWildPointer /\ TailNearEnd /\ NoLeak)
<1>1. PairInv(p, q) => NoWildPointer /\ TailNearEnd /\ NoLeak
  BY GoodMeans DEF PairInv
<1> QED
  BY <1>1, PairInductive, PTL

-----------------------------------------------------------------------------
(* The state of FifoQueue.                                                 *)

(* The items behind the dummy, from the history of the list.               *)
ItemsOf(c, n, h) == [k \in 1 .. n - h |-> data[c[h + k]]]

(* The operation by label.                                                 *)
LEMMA OpIs ==
  ASSUME NEW t
  PROVE  /\ pc[t] = "idle" => Op(t) = "none"
         /\ pc[t] \in EnqueueAt \cup {"e_swing", "e_done"} => Op(t) = "enqueue"
         /\ pc[t] \in DequeueAt \cup {"d_delete", "d_done"} => Op(t) = "dequeue"
         /\ pc[t] \in EmptyAt \cup {"i_done"} => Op(t) = "empty"
<1> DEFINE l == pc[t]
           op == CASE l = "idle" -> "none"
    [] l \in EnqueueAt \cup {"e_swing", "e_done"} -> "enqueue"
    [] l \in DequeueAt \cup {"d_delete", "d_done"} -> "dequeue"
    [] l \in EmptyAt \cup {"i_done"} -> "empty"
<1>1. Op(t) = op BY DEF Op
<1> HIDE DEF l
<1>2. l = "idle" => op = "none" BY DEF EnqueueAt, DequeueAt, EmptyAt
<1>3. l \in EnqueueAt \cup {"e_swing", "e_done"} => op = "enqueue" BY DEF EnqueueAt, DequeueAt, EmptyAt
<1>4. l \in DequeueAt \cup {"d_delete", "d_done"} => op = "dequeue" BY DEF EnqueueAt, DequeueAt, EmptyAt
<1>5. l \in EmptyAt \cup {"i_done"} => op = "empty" BY DEF EnqueueAt, DequeueAt, EmptyAt
<1> HIDE DEF op
<1> QED BY <1>1, <1>2, <1>3, <1>4, <1>5 DEF l

(* The items, from the history.                                            *)
LEMMA ItemsAre ==
  ASSUME TypeInv, NEW n, NEW c, NEW pos, Chain(c, pos, n), Ends(pos, n),
         NEW h, h = pos[head]
  PROVE  Items = ItemsOf(c, n, h)
<1>1. Linked = [k \in 1 .. n - h + 1 |-> c[h + k - 1]]
  BY LinkedIs
<1>2. n \in Nat /\ h \in 1 .. n /\ c \in [1 .. n -> Addr]
  BY TypeVars, BoundsAssumption DEF Chain, Ends
<1>3. Len(Linked) = n - h + 1
  <2>1. \A k \in 1 .. n - h + 1 : h + k - 1 \in 1 .. n
    BY <1>2
  <2>2. \A k \in 1 .. n - h + 1 : c[h + k - 1] \in Addr
    BY <1>2, <2>1
  <2>3. Linked \in Seq(Addr) /\ DOMAIN Linked = 1 .. n - h + 1
    BY <1>1, <1>2, <2>2
  <2> QED
    BY <1>2, <2>3
<1>4. ASSUME NEW k \in 1 .. n - h PROVE Linked[k + 1] = c[h + k]
  <2>1. k + 1 \in 1 .. n - h + 1 /\ h + (k + 1) - 1 = h + k
    BY <1>2
  <2> QED
    BY <1>1, <2>1
<1>5. Len(Linked) - 1 = n - h
  BY <1>2, <1>3
<1> QED
  BY <1>4, <1>5 DEF Items, ItemsOf

(* The items of the model are those of the history.                        *)
ItemsHere == \A n, c, pos : Chain(c, pos, n) /\ Ends(pos, n) => Items = ItemsOf(c, n, pos[head])

(* The same as a formula of the state.                                     *)
LEMMA ItemsNow == TypeInv => ItemsHere
BY ItemsAre DEF ItemsHere

(* The same of the next state.                                             *)
LEMMA ItemsNext == TypeInv' => ItemsHere'
<1>1. TypeInv => ItemsHere
  BY ItemsNow
<1> QED
  BY <1>1, PTL

(* What FifoQueue knows of the call of t and its answer, by the label of   *)
(* t.                                                                      *)
CallIs(t) ==
  /\ pc[t] = "idle" => AbstractCall[t] = Fifo!NoCall
  /\ pc[t] \in EnqueueAt =>
       AbstractCall[t] = [op |-> "enqueue", arg |-> <<t, puts[t]>>, pending |-> TRUE]
  /\ pc[t] \in {"e_swing", "e_done"} =>
       AbstractCall[t] = [op |-> "enqueue", arg |-> <<t, puts[t]>>, pending |-> FALSE]
  /\ pc[t] \in DequeueAt =>
       AbstractCall[t] = [op |-> "dequeue", arg |-> None, pending |-> TRUE]
  /\ pc[t] \in {"d_delete", "d_done"} =>
       AbstractCall[t] = [op |-> "dequeue", arg |-> None, pending |-> FALSE]
  /\ pc[t] \in EmptyAt =>
       AbstractCall[t] = [op |-> "empty", arg |-> None, pending |-> TRUE]
  /\ pc[t] = "i_done" =>
       AbstractCall[t] = [op |-> "empty", arg |-> None, pending |-> FALSE]
  /\ AbstractAnswer[t] = IF pc[t] \in IsPending THEN None ELSE ret[t]

CallsHere == \A t \in Thread : CallIs(t)

(* CallsHere follows from the types.                                       *)
LEMMA CallsNow == TypeInv => CallsHere
<1> SUFFICES ASSUME TypeInv, NEW t \in Thread PROVE CallIs(t)
  BY DEF CallsHere
<1>1. AbstractCall[t] = [op |-> Op(t), arg |-> IF Op(t) = "enqueue" THEN <<t, puts[t]>> ELSE None,
                         pending |-> Pending(t)]
  BY DEF AbstractCall
<1>2. AbstractAnswer[t] = IF Pending(t) THEN None ELSE ret[t]
  BY DEF AbstractAnswer
<1>3. /\ pc[t] \in EnqueueAt \cup DequeueAt \cup EmptyAt => Pending(t) = TRUE
      /\ pc[t] \in {"idle", "e_swing", "e_done", "d_delete", "d_done", "i_done"} => Pending(t) = FALSE
  BY DEF Pending, EnqueueAt, DequeueAt, EmptyAt
<1>4. Pending(t) <=> pc[t] \in IsPending
  BY DEF Pending, IsPending
<1> QED
  BY <1>1, <1>2, <1>3, <1>4, OpIs DEF CallIs, Fifo!NoCall

(* The same of the next state.                                             *)
LEMMA CallsNext == TypeInv' => CallsHere'
BY CallsNow, PTL

(* The initial states are initial states of FifoQueue.                     *)
LEMMA FifoInit == ASSUME TypeInv, Init PROVE Fifo!Init
<1>1. PICK n, c, pos : Good(c, pos, n) /\ n = 1 /\ pos[head] = 1
  <2>1. Good([i \in 1 .. 1 |-> 1], [a \in Addr |-> IF a = 1 THEN 1 ELSE 0], 1)
    BY GoodInit
  <2>2. [a \in Addr |-> IF a = 1 THEN 1 ELSE 0][head] = 1
    BY BoundsAssumption DEF Init, Addr
  <2> QED
    BY <2>1, <2>2
<1>2. Items = ItemsOf(c, n, 1)
  BY <1>1, ItemsAre DEF Good
<1>3. Items = <<>>
  BY <1>1, <1>2 DEF ItemsOf
<1>4. \A t \in Thread : AbstractCall[t] = Fifo!NoCall /\ AbstractAnswer[t] = None
  BY CallsNow DEF Init, CallsHere, CallIs, IsPending
<1>5. AbstractCall = [t \in Thread |-> Fifo!NoCall]
  BY <1>4 DEF AbstractCall
<1>6. AbstractAnswer = [t \in Thread |-> None]
  BY <1>4 DEF AbstractAnswer
<1> QED
  BY <1>3, <1>5, <1>6 DEF Fifo!Init, Init

(* Whether the queue is empty, for the model and for FifoQueue.            *)
KindHere == \A n, c, pos : Good(c, pos, n) => Kind = Fifo!Kind(Items)

(* FifoQueue and the model agree on whether the queue is empty: the dummy  *)
(* has a next node as long as there is an item.                            *)
LEMMA KindNow == TypeInv => KindHere
<1> SUFFICES ASSUME TypeInv, NEW n, NEW c, NEW pos, Good(c, pos, n)
             PROVE  Kind = Fifo!Kind(Items)
  BY DEF KindHere
<1>0. Chain(c, pos, n) /\ Ends(pos, n)
  BY DEF Good
<1>1. n \in Nat /\ pos[head] \in 1 .. n /\ head \in Addr
  BY <1>0, TypeVars, BoundsAssumption DEF Chain, Ends
<1>2. next[head] = Null <=> pos[head] = n
  BY <1>0, <1>1, Along
<1>3. Items = ItemsOf(c, n, pos[head])
  BY <1>0, ItemsAre
<1>4. CASE pos[head] = n
  <2>1. Items = <<>>
    BY <1>1, <1>3, <1>4 DEF ItemsOf
  <2> QED
    BY <1>2, <1>4, <2>1 DEF Kind, Fifo!Kind
<1>5. CASE pos[head] # n
  <2>1. 1 \in DOMAIN Items
    BY <1>1, <1>3, <1>5 DEF ItemsOf
  <2>2. DOMAIN <<>> = {}
    OBVIOUS
  <2>3. Items # <<>>
    BY <2>1, <2>2
  <2> QED
    BY <1>2, <1>5, <2>3 DEF Kind, Fifo!Kind
<1> QED
  BY <1>4, <1>5

(* The same of the next state.                                             *)
LEMMA KindNext == TypeInv' => KindHere'
BY KindNow, PTL

(* What FifoQueue sees of a step of t: what t does, and who has seen what. *)
LEMMA FifoEffects ==
  ASSUME TypeInv, TypeInv', NEW t \in Thread, Call(t) \/ Step(t), Observe,
         NEW n, NEW c, NEW pos, Good(c, pos, n),
         NEW m, NEW d, NEW r, Good(d, r, m)'
  PROVE  /\ AbstractCall' = [AbstractCall EXCEPT ![t] = AbstractCall'[t]]
         /\ AbstractAnswer' = [AbstractAnswer EXCEPT ![t] = AbstractAnswer'[t]]
         /\ Fifo!Observe
         /\ (Kind' = Kind /\ (pc'[t] \in IsPending <=> pc[t] \in IsPending)) => seen' = seen
<1>1. \A u \in Thread \ {t} : Same(u)
  BY SameStep DEF TypeInv
<1>2. CallsHere /\ CallsHere'
  BY CallsNow, CallsNext
<1>3. ASSUME NEW u \in Thread \ {t}
      PROVE  AbstractCall'[u] = AbstractCall[u] /\ AbstractAnswer'[u] = AbstractAnswer[u]
  <2>1. AbstractCall'[u] = AbstractCall[u]
    <3>1. pc'[u] = pc[u] /\ (u \in Producer => puts'[u] = puts[u])
      BY <1>1 DEF Same
    <3>2. Op(u)' = Op(u) /\ Pending(u)' = Pending(u)
      BY <3>1 DEF Op, Pending
    <3>3. Op(u) = "enqueue" => u \in Producer
      <4>1. pc[u] \in {"idle"} \cup EnqueueAt \cup DequeueAt \cup EmptyAt \cup DoneAt
        BY TypeVars
      <4>2. u \in Producer \/ pc[u] \notin EnqueueAt \cup {"e_swing", "e_done"}
        BY DEF TypeInv, Held
      <4>3. Op(u) = "enqueue" => pc[u] \in EnqueueAt \cup {"e_swing", "e_done"}
        BY <4>1, OpIs DEF DoneAt
      <4> QED
        BY <4>2, <4>3
    <3> QED
      BY <3>1, <3>2, <3>3 DEF AbstractCall
  <2>2. AbstractAnswer'[u] = AbstractAnswer[u]
    BY <1>1, <1>2 DEF Same, CallsHere, CallIs
  <2> QED
    BY <2>1, <2>2
<1>4. AbstractCall' = [AbstractCall EXCEPT ![t] = AbstractCall'[t]]
  <2> DEFINE f == AbstractCall  g == AbstractCall'
  <2>1. DOMAIN f = Thread /\ f = [u \in Thread |-> f[u]] /\ g = [u \in Thread |-> g[u]]
    BY DEF AbstractCall
  <2>2. \A u \in Thread \ {t} : g[u] = f[u]
    BY <1>3
  <2> HIDE DEF f, g
  <2>3. g = [f EXCEPT ![t] = g[t]]
    BY <2>1, <2>2
  <2> QED
    BY <2>3 DEF f, g
<1>5. AbstractAnswer' = [AbstractAnswer EXCEPT ![t] = AbstractAnswer'[t]]
  <2> DEFINE f == AbstractAnswer  g == AbstractAnswer'
  <2>1. DOMAIN f = Thread /\ f = [u \in Thread |-> f[u]] /\ g = [u \in Thread |-> g[u]]
    BY DEF AbstractAnswer
  <2>2. \A u \in Thread \ {t} : g[u] = f[u]
    BY <1>3
  <2> HIDE DEF f, g
  <2>3. g = [f EXCEPT ![t] = g[t]]
    BY <2>1, <2>2
  <2> QED
    BY <2>3 DEF f, g
<1>6. Fifo!Observe
  <2>1. Kind' = Fifo!Kind(Items')
    BY KindNext DEF KindHere, Fifo!Kind
  <2>2. \A u \in Thread : AbstractCall'[u].pending = Pending(u)'
    BY DEF AbstractCall
  <2> QED
    BY <2>1, <2>2 DEF Fifo!Observe, Observe
<1>7. ASSUME Kind' = Kind, pc'[t] \in IsPending <=> pc[t] \in IsPending
      PROVE  seen' = seen
  <2>1. \A u \in Thread : pc'[u] \in IsPending <=> pc[u] \in IsPending
    BY <1>1, <1>7 DEF Same
  <2>2. \A u \in Thread : seen'[u] = seen[u]
    BY <1>7, <2>1 DEF Observe, Pending, IsPending, Good, Local, Sees
  <2> QED
    BY <2>2 DEF TypeInv, TypeOK
<1> QED
  BY <1>4, <1>5, <1>6, <1>7

(* A step between two labels of one phase of an operation that leaves the  *)
(* items alone is a stutter of FifoQueue.                                  *)
LEMMA FifoStutters ==
  ASSUME TypeInv, TypeInv', NEW t \in Thread, Call(t) \/ Step(t), Observe,
         NEW n, NEW c, NEW pos, Good(c, pos, n), Good(c, pos, n)',
         Items' = Items, Kind' = Kind,
         \/ pc[t] \in EnqueueAt /\ pc'[t] \in EnqueueAt
         \/ pc[t] \in DequeueAt /\ pc'[t] \in DequeueAt
         \/ pc[t] \in EmptyAt /\ pc'[t] \in EmptyAt
         \/ pc[t] = "e_swing" /\ pc'[t] = "e_done" /\ ret' = ret
         \/ pc[t] = "d_delete" /\ pc'[t] = "d_done" /\ ret' = ret,
         pc[t] \in EnqueueAt \cup {"e_swing"} => puts' = puts
  PROVE  UNCHANGED Fifo!vars
<1>1. CallsHere /\ CallsHere'
  BY CallsNow, CallsNext
<1>2. pc'[t] \in IsPending <=> pc[t] \in IsPending
  BY DEF IsPending, EnqueueAt, DequeueAt, EmptyAt
<1>3. seen' = seen
  BY <1>2, FifoEffects
<1>4. AbstractCall'[t] = AbstractCall[t]
  BY <1>1 DEF CallsHere, CallIs
<1>5. AbstractAnswer'[t] = AbstractAnswer[t]
  BY <1>1, <1>2 DEF CallsHere, CallIs, IsPending
<1>6. AbstractCall' = AbstractCall
  <2>1. AbstractCall = [u \in Thread |-> AbstractCall[u]]
    BY DEF AbstractCall
  <2> QED
    BY <1>4, <2>1, FifoEffects
<1>7. AbstractAnswer' = AbstractAnswer
  <2>1. AbstractAnswer = [u \in Thread |-> AbstractAnswer[u]]
    BY DEF AbstractAnswer
  <2> QED
    BY <1>5, <2>1, FifoEffects
<1> QED
  BY <1>3, <1>6, <1>7 DEF Fifo!vars

-----------------------------------------------------------------------------
(* One operation of FifoQueue per step of a thread, or none.               *)

(* The items stay the same when head and the data of the chain do.         *)
LEMMA ItemsKept ==
  ASSUME TypeInv, TypeInv', NEW n, NEW c, NEW pos, Good(c, pos, n), Good(c, pos, n)',
         head' = head, \A a \in Addr : pos[a] # 0 => data'[a] = data[a]
  PROVE  Items' = Items /\ Kind' = Kind
<1>1. /\ n \in Nat /\ pos[head] \in 1 .. n /\ c \in [1 .. n -> Addr]
      /\ \A i \in 1 .. n : pos[c[i]] = i
  BY TypeVars, BoundsAssumption DEF Good, Chain, Ends
<1>2. PICK h \in 1 .. n : h = pos[head]
  BY <1>1
<1>3. Items = [k \in 1 .. n - h |-> data[c[h + k]]]
  BY <1>2, ItemsNow DEF ItemsHere, Good, ItemsOf
<1>4. Items' = [k \in 1 .. n - h |-> data'[c[h + k]]]
  <2>1. pos[head'] = h
    BY <1>2
  <2> QED
    BY <2>1, ItemsNext DEF ItemsHere, Good, ItemsOf
<1>5. ASSUME NEW k \in 1 .. n - h PROVE data'[c[h + k]] = data[c[h + k]]
  <2>1. h + k \in 1 .. n
    BY <1>1, <1>2
  <2> QED
    BY <1>1, <2>1
<1>6. Items' = Items
  BY <1>3, <1>4, <1>5
<1>7. Kind = Fifo!Kind(Items) /\ Kind' = Fifo!Kind(Items')
  BY KindNow, KindNext DEF KindHere, Fifo!Kind
<1> QED
  BY <1>6, <1>7

(* A call is a Begin of FifoQueue.                                         *)
LEMMA BeginIs ==
  ASSUME TypeInv, TypeInv', NEW t \in Thread, Call(t), Observe,
         NEW n, NEW c, NEW pos, Good(c, pos, n), Good(c, pos, n)', \A a \in Unused : pos[a] = 0
  PROVE  Fifo!Next
<1>1. CallsHere /\ CallsHere'
  BY CallsNow, CallsNext
<1>2. pc[t] = "idle" /\ ret' = ret /\ head' = head
  BY TypeVars DEF Call, CallEnqueue, CallDequeue, CallEmpty, BeginGet, localVars, nodeVars
<1>3. \A a \in Addr : pos[a] # 0 => data'[a] = data[a]
  BY TypeVars DEF Call, CallEnqueue, CallDequeue, CallEmpty, nodeVars
<1>4. Items' = Items /\ ret[t] = None
  BY <1>2, <1>3, ItemsKept DEF Good, Local, Answers
<1>5. AbstractCall[t] = Fifo!NoCall /\ AbstractAnswer[t] = None
  BY <1>1, <1>2, <1>4 DEF CallsHere, CallIs
<1>6. CASE t \in Producer /\ CallEnqueue(t)
  <2>1. pc'[t] = "e_tail" /\ puts'[t] = puts[t] + 1 /\ puts'[t] \in 1 .. MaxPuts
    <3>1. pc'[t] = "e_tail"
      BY <1>6, TypeVars DEF CallEnqueue
    <3> QED
      BY <1>6, <3>1, BoundsAssumption DEF CallEnqueue, TypeInv, TypeOK, Held, EnqueueAt
  <2>2. <<t, puts'[t]>> \in Value
    BY <1>6, <2>1 DEF Value
  <2>3. AbstractCall'[t] = [op |-> "enqueue", arg |-> <<t, puts'[t]>>, pending |-> TRUE]
    BY <1>1, <2>1 DEF CallsHere, CallIs, EnqueueAt
  <2>4. AbstractAnswer'[t] = None
    BY <1>1, <2>1 DEF CallsHere, CallIs, IsPending, EnqueueAt
  <2> HIDE <1>6
  <2>5. AbstractAnswer' = AbstractAnswer
    <3>1. AbstractAnswer = [u \in Thread |-> AbstractAnswer[u]]
      BY DEF AbstractAnswer
    <3> QED
      BY <1>5, <2>4, <3>1, FifoEffects
  <2>6. Fifo!Begin(t, "enqueue", <<t, puts'[t]>>)
    BY <1>4, <1>5, <2>3, <2>5, FifoEffects DEF Fifo!Begin
  <2>7. AbstractCall'[t] # AbstractCall[t]
    BY <1>5, <2>3 DEF Fifo!NoCall
  <2> QED
    BY <2>2, <2>6, <2>7 DEF Fifo!Next, Fifo!Operation
<1>7. CASE t \in Consumer /\ (CallDequeue(t) \/ CallEmpty(t))
  <2>1. pc'[t] = "d_head" \/ pc'[t] = "i_head"
    BY <1>7, TypeVars DEF CallDequeue, CallEmpty, BeginGet
  <2>2. \/ AbstractCall'[t] = [op |-> "dequeue", arg |-> None, pending |-> TRUE]
        \/ AbstractCall'[t] = [op |-> "empty", arg |-> None, pending |-> TRUE]
    BY <1>1, <2>1 DEF CallsHere, CallIs, DequeueAt, EmptyAt
  <2>3. AbstractAnswer'[t] = None
    BY <1>1, <2>1 DEF CallsHere, CallIs, IsPending, DequeueAt, EmptyAt
  <2>4. AbstractAnswer' = AbstractAnswer
    <3>1. AbstractAnswer = [u \in Thread |-> AbstractAnswer[u]]
      BY DEF AbstractAnswer
    <3> QED
      BY <1>5, <2>3, <3>1, FifoEffects
  <2>5. Fifo!Begin(t, "dequeue", None) \/ Fifo!Begin(t, "empty", None)
    BY <1>4, <1>5, <2>2, <2>4, FifoEffects DEF Fifo!Begin
  <2>6. AbstractCall'[t] # AbstractCall[t]
    BY <1>5, <2>2 DEF Fifo!NoCall
  <2> QED
    BY <2>5, <2>6 DEF Fifo!Next, Fifo!Operation
<1> QED
  BY <1>6, <1>7 DEF Call

(* A return is a Return of FifoQueue.                                      *)
LEMMA ReturnIs ==
  ASSUME TypeInv, TypeInv', NEW t \in Thread, Return(t), Observe,
         NEW n, NEW c, NEW pos, Good(c, pos, n), Good(c, pos, n)'
  PROVE  Fifo!Next
<1>1. CallsHere /\ CallsHere'
  BY CallsNow, CallsNext
<1>2. /\ pc[t] \in {"e_done", "d_done", "i_done"} /\ pc'[t] = "idle" /\ ret'[t] = None
      /\ head' = head /\ data' = data
  BY TypeVars DEF Return, nodeVars
<1>3. Items' = Items
  BY <1>2, ItemsKept
<1>4. AbstractCall[t].op # "none" /\ ~ AbstractCall[t].pending
  <2>1. \/ AbstractCall[t] = [op |-> "enqueue", arg |-> <<t, puts[t]>>, pending |-> FALSE]
        \/ AbstractCall[t] = [op |-> "dequeue", arg |-> None, pending |-> FALSE]
        \/ AbstractCall[t] = [op |-> "empty", arg |-> None, pending |-> FALSE]
    BY <1>1, <1>2 DEF CallsHere, CallIs
  <2> QED
    BY <2>1
<1>5. AbstractCall'[t] = Fifo!NoCall /\ AbstractAnswer'[t] = None
  BY <1>1, <1>2 DEF CallsHere, CallIs
<1>6. Fifo!Return(t)
  BY <1>3, <1>4, <1>5, FifoEffects DEF Fifo!Return, Step
<1>7. AbstractCall'[t] # AbstractCall[t]
  BY <1>4, <1>5 DEF Fifo!NoCall
<1> QED
  BY <1>6, <1>7 DEF Fifo!Next, Fifo!Operation

(* The step at which the operation of t takes effect.                      *)
LEMMA EffectIs ==
  ASSUME TypeInv, TypeInv', NEW t \in Thread, Call(t) \/ Step(t), Observe,
         NEW n, NEW c, NEW pos, Good(c, pos, n),
         NEW m, NEW d, NEW r, Good(d, r, m)',
         \/ pc[t] \in EnqueueAt /\ pc'[t] = "e_swing"
         \/ pc[t] \in DequeueAt /\ pc'[t] \in {"d_delete", "d_done"}
         \/ pc[t] \in EmptyAt /\ pc'[t] = "i_done",
         pc[t] \in EnqueueAt => puts' = puts
  PROVE  /\ AbstractCall[t].pending
         /\ pc[t] \in EnqueueAt => AbstractCall[t].op = "enqueue" /\ AbstractCall[t].arg = <<t, puts[t]>>
         /\ pc[t] \in DequeueAt => AbstractCall[t].op = "dequeue"
         /\ pc[t] \in EmptyAt => AbstractCall[t].op = "empty"
         /\ AbstractCall'[t] # AbstractCall[t]
         /\ Fifo!Effect(t, ret'[t])
<1>1. CallsHere /\ CallsHere'
  BY CallsNow, CallsNext
<1>2. AbstractAnswer'[t] = ret'[t]
  BY <1>1 DEF CallsHere, CallIs, IsPending, EnqueueAt, DequeueAt, EmptyAt
<1>3. CASE pc[t] \in EnqueueAt /\ pc'[t] = "e_swing"
  <2>1. AbstractCall[t] = [op |-> "enqueue", arg |-> <<t, puts[t]>>, pending |-> TRUE]
    BY <1>1, <1>3 DEF CallsHere, CallIs
  <2>2. AbstractCall'[t] = [op |-> "enqueue", arg |-> <<t, puts[t]>>, pending |-> FALSE]
    BY <1>1, <1>3 DEF CallsHere, CallIs
  <2>3. AbstractCall' = [AbstractCall EXCEPT ![t].pending = FALSE]
    BY <2>1, <2>2, FifoEffects
  <2>4. pc[t] \notin DequeueAt \cup EmptyAt
    BY <1>3 DEF EnqueueAt, DequeueAt, EmptyAt
  <2> QED
    BY <1>2, <2>1, <2>2, <2>3, <2>4, FifoEffects DEF Fifo!Effect
<1>4. CASE pc[t] \in DequeueAt /\ pc'[t] \in {"d_delete", "d_done"}
  <2>1. AbstractCall[t] = [op |-> "dequeue", arg |-> None, pending |-> TRUE]
    BY <1>1, <1>4 DEF CallsHere, CallIs
  <2>2. AbstractCall'[t] = [op |-> "dequeue", arg |-> None, pending |-> FALSE]
    BY <1>1, <1>4 DEF CallsHere, CallIs
  <2>3. AbstractCall' = [AbstractCall EXCEPT ![t].pending = FALSE]
    BY <2>1, <2>2, FifoEffects
  <2>4. pc[t] \notin EnqueueAt \cup EmptyAt
    BY <1>4 DEF EnqueueAt, DequeueAt, EmptyAt
  <2> QED
    BY <1>2, <2>1, <2>2, <2>3, <2>4, FifoEffects DEF Fifo!Effect
<1>5. CASE pc[t] \in EmptyAt /\ pc'[t] = "i_done"
  <2>1. AbstractCall[t] = [op |-> "empty", arg |-> None, pending |-> TRUE]
    BY <1>1, <1>5 DEF CallsHere, CallIs
  <2>2. AbstractCall'[t] = [op |-> "empty", arg |-> None, pending |-> FALSE]
    BY <1>1, <1>5 DEF CallsHere, CallIs
  <2>3. AbstractCall' = [AbstractCall EXCEPT ![t].pending = FALSE]
    BY <2>1, <2>2, FifoEffects
  <2>4. pc[t] \notin EnqueueAt \cup DequeueAt
    BY <1>5 DEF EnqueueAt, DequeueAt, EmptyAt
  <2> QED
    BY <1>2, <2>1, <2>2, <2>3, <2>4, FifoEffects DEF Fifo!Effect
<1> QED
  BY <1>3, <1>4, <1>5

(* A sequence is the function of its elements.                             *)
LEMMA SeqIs ==
  ASSUME NEW S, NEW s \in Seq(S), NEW l, l = Len(s)
  PROVE  s = [k \in 1 .. l |-> s[k]]
OBVIOUS

(* A link is an Enqueue of FifoQueue: it appends the item of the new node. *)
LEMMA EnqueueIs ==
  ASSUME TypeInv, TypeInv', NEW t \in Thread, Link(t), Observe,
         NEW n, NEW c, NEW pos, Good(c, pos, n), NEW a, a = newNode[t],
         Good(LinkChain(c, n, a), LinkPos(pos, n, a), n + 1)'
  PROVE  Fifo!Next
<1>0. Step(t)
  BY DEF Step, EnqueueStep
<1>1. /\ pc[t] = "e_link" /\ pc'[t] = "e_swing"
      /\ UNCHANGED <<head, data, puts, ret>>
  BY TypeVars DEF Link, localVars
<1>2. /\ n \in Nat /\ pos[head] \in 1 .. n /\ c \in [1 .. n -> Addr] /\ pos \in [Addr -> 0 .. n]
      /\ head \in Addr
  <2>1. Chain(c, pos, n) /\ Ends(pos, n)
    BY DEF Good
  <2> QED
    BY <2>1, TypeVars, BoundsAssumption DEF Chain, Ends
<1>3. a \in Addr /\ pos[a] = 0 /\ data[a] = <<t, puts[t]>> /\ ret[t] = None
  BY <1>1 DEF Good, Local, NewNode, Answers, HasNew, IsPending, EnqueueAt, TypeInv, Held
<1>4. PICK h \in 1 .. n : h = pos[head]
  BY <1>2
<1>5. LinkPos(pos, n, a)[head'] = h
  BY <1>1, <1>2, <1>3, <1>4 DEF LinkPos
<1>6. Items = [k \in 1 .. n - h |-> data[c[h + k]]]
  BY <1>4, ItemsNow DEF ItemsHere, Good, ItemsOf
<1>7. Items' = [k \in 1 .. (n + 1) - h |-> data[LinkChain(c, n, a)[h + k]]]
  <2>1. Items' = ItemsOf(LinkChain(c, n, a), n + 1, h)'
    BY <1>5, ItemsNext DEF ItemsHere, Good
  <2> QED
    BY <1>1, <2>1 DEF ItemsOf
<1>8. \A k \in 1 .. n - h : LinkChain(c, n, a)[h + k] = c[h + k]
  BY <1>2, <1>4 DEF LinkChain
<1>9. LinkChain(c, n, a)[h + ((n + 1) - h)] = a
  BY <1>2, <1>4 DEF LinkChain
<1>10. Items' = Append(Items, <<t, puts[t]>>)
  <2>1. PICK l \in Nat : l = n - h
    BY <1>2, <1>4
  <2>2. n + 1 - h = l + 1
    BY <1>2, <1>4, <2>1
  <2>3. Items = [k \in 1 .. l |-> data[c[h + k]]] /\ \A k \in 1 .. l : data[c[h + k]] \in Value \cup {None}
    <3>1. \A k \in 1 .. l : h + k \in 1 .. n
      BY <1>2, <1>4, <2>1
    <3> QED
      BY <1>2, <1>6, <2>1, <3>1, TypeVars
  <2>4. Items' = [k \in 1 .. l + 1 |-> IF k = l + 1 THEN <<t, puts[t]>> ELSE data[c[h + k]]]
    <3>1. ASSUME NEW k \in 1 .. l + 1
          PROVE  data[LinkChain(c, n, a)[h + k]] = IF k = l + 1 THEN <<t, puts[t]>> ELSE data[c[h + k]]
      <4>1. k # l + 1 => k \in 1 .. n - h
        BY <2>1
      <4>2. k = l + 1 => h + k = h + ((n + 1) - h)
        BY <1>2, <1>4, <2>2
      <4> QED
        BY <1>3, <1>8, <1>9, <4>1, <4>2
    <3>2. Items' = [k \in 1 .. l + 1 |-> data[LinkChain(c, n, a)[h + k]]]
      BY <1>2, <1>4, <1>7, <2>1, <2>2
    <3> QED
      BY <3>1, <3>2
  <2>5. Items \in Seq(Value \cup {None}) /\ Len(Items) = l
    BY <2>3
  <2> QED
    BY <2>3, <2>4, <2>5
<1>11. /\ AbstractCall[t].pending /\ AbstractCall[t].op = "enqueue"
       /\ AbstractCall[t].arg = <<t, puts[t]>> /\ AbstractCall'[t] # AbstractCall[t]
       /\ Fifo!Effect(t, None)
  <2>1. ret'[t] = None /\ pc[t] \in EnqueueAt
    BY <1>1, <1>3 DEF EnqueueAt
  <2> QED
    BY <1>0, <1>1, <2>1, EffectIs
<1>12. Fifo!Enqueue(t)
  BY <1>10, <1>11 DEF Fifo!Enqueue, Fifo!Pending
<1> QED
  BY <1>11, <1>12 DEF Fifo!Next, Fifo!Operation

(* Moving head is a Dequeue of FifoQueue: the item copied before is the    *)
(* first one of the queue.                                                 *)
LEMMA DequeueIs ==
  ASSUME TypeInv, TypeInv', NEW t \in Thread, MoveHead(t), Observe,
         NEW n, NEW c, NEW pos, Good(c, pos, n), Good(c, pos, n)', pos[head'] = pos[head] + 1
  PROVE  Fifo!Next
<1>0. Step(t)
  BY DEF Step, DequeueStep
<1>1. /\ pc[t] = "d_move" /\ pc'[t] = "d_delete" /\ head = curHead[t] /\ head' = lnext[t]
      /\ UNCHANGED <<data, ret>>
  BY TypeVars DEF MoveHead, localVars
<1>2. /\ n \in Nat /\ pos[head] \in 1 .. n /\ pos[head'] \in 1 .. n /\ c \in [1 .. n -> Addr]
      /\ head \in Addr /\ head' \in Addr /\ c[pos[head']] = head'
  BY TypeVars, BoundsAssumption DEF Good, Chain, Ends, TypeInv, TypeOK
<1>3. ret'[t] = data[head']
  BY <1>1 DEF Good, Local, Answers
<1>4. PICK h \in 1 .. n : h = pos[head]
  BY <1>2
<1>5. PICK l \in Nat : l = n - (h + 1)
  BY <1>2, <1>4
<1>6. Items = [k \in 1 .. l + 1 |-> data[c[h + k]]]
  <2>1. n - h = l + 1
    BY <1>2, <1>4, <1>5
  <2> QED
    BY <1>4, <2>1, ItemsNow DEF ItemsHere, Good, ItemsOf
<1>7. Items' = [k \in 1 .. l |-> data[c[(h + 1) + k]]]
  <2>1. pos[head'] = h + 1
    BY <1>4
  <2>2. Items' = ItemsOf(c, n, h + 1)'
    BY <2>1, ItemsNext DEF ItemsHere, Good
  <2> QED
    BY <1>1, <1>5, <2>2 DEF ItemsOf
<1>8. Items \in Seq(Value \cup {None}) /\ Len(Items) = l + 1 /\ Items[1] = ret'[t]
  <2>1. \A k \in 1 .. l + 1 : h + k \in 1 .. n
    BY <1>2, <1>4, <1>5, SMTT(60)
  <2>2. \A k \in 1 .. l + 1 : data[c[h + k]] \in Value \cup {None}
    BY <1>2, <2>1, TypeVars
  <2>3. Items[1] = data[c[h + 1]]
    BY <1>5, <1>6
  <2>4. c[h + 1] = head'
    BY <1>2, <1>4
  <2>5. Items \in Seq(Value \cup {None}) /\ Len(Items) = l + 1
    BY <1>5, <1>6, <2>2
  <2> QED
    BY <1>3, <2>3, <2>4, <2>5
<1>9. Items' = Tail(Items) /\ Head(Items) = ret'[t] /\ Items # <<>>
  <2>1. Head(Items) = ret'[t] /\ Items # <<>>
    BY <1>5, <1>8
  <2>2. Tail(Items) = [k \in 1 .. l |-> Items[k + 1]]
    <3>1. Tail(Items) \in Seq(Value \cup {None}) /\ Len(Tail(Items)) = l
      BY <1>5, <1>8, <2>1
    <3>2. \A k \in 1 .. l : Tail(Items)[k] = Items[k + 1]
      BY <1>5, <1>8, <2>1, <3>1
    <3>3. Tail(Items) = [k \in 1 .. l |-> Tail(Items)[k]]
      BY <3>1, SeqIs
    <3> QED
      BY <3>2, <3>3
  <2>3. \A k \in 1 .. l : Items[k + 1] = data[c[(h + 1) + k]]
    <3> SUFFICES ASSUME NEW k \in 1 .. l PROVE Items[k + 1] = data[c[(h + 1) + k]]
      OBVIOUS
    <3>1. k \in Nat /\ k <= l /\ k >= 1 /\ h \in Nat
      BY <1>2, <1>4, <1>5
    <3>2. k + 1 \in 1 .. l + 1 /\ h + (k + 1) = (h + 1) + k
      BY <1>5, <3>1
    <3> QED
      BY <1>6, <3>2
  <2> QED
    BY <1>7, <2>1, <2>2, <2>3
<1>10. /\ AbstractCall[t].pending /\ AbstractCall[t].op = "dequeue"
       /\ AbstractCall'[t] # AbstractCall[t] /\ Fifo!Effect(t, Head(Items))
  <2>1. pc[t] \in DequeueAt /\ pc[t] \notin EnqueueAt
    BY <1>1 DEF EnqueueAt, DequeueAt
  <2> QED
    BY <1>0, <1>1, <1>9, <2>1, EffectIs
<1>11. Fifo!Dequeue(t)
  BY <1>9, <1>10 DEF Fifo!Dequeue, Fifo!Pending
<1> QED
  BY <1>10, <1>11 DEF Fifo!Next, Fifo!Operation

(* A dequeue that finds head and tail alike is a DequeueNothing: the queue *)
(* was empty when next of the head was read.                               *)
LEMMA NothingIs ==
  ASSUME TypeInv, TypeInv', NEW t \in Thread, CheckHead(t), pc'[t] = "d_done", Observe,
         NEW n, NEW c, NEW pos, Good(c, pos, n), Good(c, pos, n)'
  PROVE  Fifo!Next
<1>0. Step(t)
  BY DEF Step, DequeueStep
<1>1. pc[t] = "d_check" /\ curHead[t] = curTail[t] /\ lnext[t] = Null /\ UNCHANGED <<head, data, ret>>
  BY TypeVars DEF CheckHead, AfterCheckHead, nodeVars, localVars
<1>2. ret[t] = None /\ "empty" \in seen[t]
  BY <1>1 DEF Good, Local, Answers, NextRead, HasNext, IsPending, DequeueAt
<1>3. Items' = Items
  BY <1>1, ItemsKept
<1>4. /\ AbstractCall[t].pending /\ AbstractCall[t].op = "dequeue"
      /\ AbstractCall'[t] # AbstractCall[t] /\ Fifo!Effect(t, None)
  <2>1. pc[t] \in DequeueAt /\ pc[t] \notin EnqueueAt /\ ret'[t] = None
    BY <1>1, <1>2 DEF EnqueueAt, DequeueAt
  <2> QED
    BY <1>0, <2>1, EffectIs
<1>5. Fifo!DequeueNothing(t)
  BY <1>2, <1>3, <1>4 DEF Fifo!DequeueNothing, Fifo!Pending
<1> QED
  BY <1>4, <1>5 DEF Fifo!Next, Fifo!Operation

(* The answer of empty() is an IsEmpty: the queue was so during the call,  *)
(* though perhaps not at this step.                                        *)
LEMMA EmptyIs ==
  ASSUME TypeInv, TypeInv', NEW t \in Thread, AnswerEmpty(t), Observe,
         NEW n, NEW c, NEW pos, Good(c, pos, n), Good(c, pos, n)'
  PROVE  Fifo!Next
<1>0. Step(t) /\ Chain(c, pos, n) /\ Ends(pos, n) /\ Local(t, pos)
  BY DEF Step, EmptyStep, Good
<1>1. /\ pc[t] = "i_next" /\ pc'[t] = "i_done" /\ UNCHANGED <<head, data>>
      /\ ret'[t] = IF curHead[t] = curTail[t] /\ next[curHead[t]] = Null
                     THEN <<"empty">> ELSE <<"nonempty">>
  BY TypeVars DEF AnswerEmpty, nodeVars
<1>2. Items' = Items
  BY <1>1, ItemsKept
<1>3. /\ next[curHead[t]] # Null => "nonempty" \in seen[t]
      /\ Kind \in seen[t]
      /\ 1 <= pos[curHead[t]] /\ pos[curHead[t]] <= pos[head]
      /\ pos[curHead[t]] <= pos[curTail[t]]
      /\ curHead[t] \in Addr /\ curTail[t] \in Addr
  BY <1>0, <1>1 DEF Local, HeadRead, Sees, HasHead, HasBoth, HasTail, IsPending, EmptyAt,
     TypeInv, Held
<1>4. ASSUME next[curHead[t]] = Null PROVE curHead[t] = head /\ curHead[t] = curTail[t]
  <2>0. /\ pos[curHead[t]] \in 0 .. n /\ pos[curTail[t]] \in 0 .. n
        /\ pos[head] \in 0 .. n /\ n \in Nat /\ head \in Addr
    BY <1>0, <1>3, TypeVars, BoundsAssumption DEF Chain
  <2>1. pos[curHead[t]] = n
    BY <1>0, <1>3, <1>4, <2>0, Along
  <2>2. pos[curTail[t]] = n /\ pos[head] = n
    BY <1>3, <2>0, <2>1
  <2> QED
    BY <1>0, <1>3, <2>0, <2>1, <2>2, OnePlace
<1>5. PICK kind \in seen[t] : ret'[t] = <<kind>>
  BY <1>1, <1>3, <1>4 DEF Kind
<1>6. /\ AbstractCall[t].pending /\ AbstractCall[t].op = "empty"
      /\ AbstractCall'[t] # AbstractCall[t] /\ Fifo!Effect(t, <<kind>>)
  <2>1. pc[t] \in EmptyAt /\ pc[t] \notin EnqueueAt
    BY <1>1 DEF EnqueueAt, EmptyAt
  <2> QED
    BY <1>0, <1>1, <1>5, <2>1, EffectIs
<1>7. Fifo!IsEmpty(t)
  BY <1>2, <1>6 DEF Fifo!IsEmpty, Fifo!Pending
<1> QED
  BY <1>6, <1>7 DEF Fifo!Next, Fifo!Operation

(* Every step of a thread is a step of FifoQueue or a stutter.             *)
LEMMA FifoStep ==
  ASSUME TypeInv, TypeInv', NEW t \in Thread, Call(t) \/ Step(t), Observe,
         NEW n, NEW c, NEW pos, Good(c, pos, n), \A a \in Unused : pos[a] = 0
  PROVE  Fifo!Next \/ UNCHANGED Fifo!vars
<1>1. CASE Link(t)
  <2>1. PICK a : a = newNode[t]
    OBVIOUS
  <2>2. Good(LinkChain(c, n, a), LinkPos(pos, n, a), n + 1)'
    BY <1>1, <2>1, LinkGood
  <2> QED
    BY <1>1, <2>1, <2>2, EnqueueIs
<1> SUFFICES ASSUME ~ Link(t) PROVE Fifo!Next \/ UNCHANGED Fifo!vars
  BY <1>1
<1>2. Good(c, pos, n)'
  BY GoodStep
<1>3. ASSUME data' = data, head' = head,
             \/ pc[t] \in EnqueueAt /\ pc'[t] \in EnqueueAt
             \/ pc[t] \in DequeueAt /\ pc'[t] \in DequeueAt
             \/ pc[t] \in EmptyAt /\ pc'[t] \in EmptyAt
             \/ pc[t] = "e_swing" /\ pc'[t] = "e_done" /\ ret' = ret
             \/ pc[t] = "d_delete" /\ pc'[t] = "d_done" /\ ret' = ret,
             puts' = puts
      PROVE  UNCHANGED Fifo!vars
  <2>1. Items' = Items /\ Kind' = Kind
    BY <1>2, <1>3, ItemsKept
  <2> QED
    BY <1>2, <1>3, <2>1, FifoStutters
<1>4. CASE Call(t)
  BY <1>2, <1>4, BeginIs
<1>5. CASE EnqueueStep(t)
  <2>1. CASE Swing(t)
    <3>1. /\ pc[t] = "e_swing" /\ pc'[t] = "e_done"
          /\ data' = data /\ head' = head /\ puts' = puts /\ ret' = ret
      BY <2>1, TypeVars DEF Swing, SwingTail, localVars
    <3> QED
      BY <1>3, <3>1
  <2>2. CASE ~ Swing(t)
    <3>1. /\ pc[t] \in EnqueueAt /\ pc'[t] \in EnqueueAt
          /\ data' = data /\ head' = head /\ puts' = puts
      BY <1>5, <2>2, TypeVars DEF EnqueueStep, LoadTail, LoadNext, CheckTail, AfterCheckTail,
         HelpEnqueue, LinkFails, SwingTail, nodeVars, EnqueueAt
    <3> QED
      BY <1>3, <3>1
  <2> QED
    BY <2>1, <2>2
<1>6. CASE DequeueStep(t)
  <2>1. CASE MoveHead(t)
    BY <2>1, MoveHeadGood, DequeueIs
  <2>2. CASE CheckHead(t) /\ pc'[t] = "d_done"
    BY <1>2, <2>2, NothingIs
  <2>3. CASE Delete(t)
    <3>1. /\ pc[t] = "d_delete" /\ pc'[t] = "d_done"
          /\ data' = data /\ head' = head /\ puts' = puts /\ ret' = ret
      BY <2>3, TypeVars DEF Delete, localVars
    <3> QED
      BY <1>3, <3>1
  <2>4. CASE CopyData(t)
    <3>1. lnext[t] # Null
      BY <2>4 DEF CopyData, Good, Local, NextRead, HasNext
    <3>2. /\ pc[t] \in DequeueAt /\ pc'[t] \in DequeueAt
          /\ data' = data /\ head' = head /\ puts' = puts
      BY <2>4, <3>1, TypeVars DEF CopyData, NodeToTake, nodeVars, DequeueAt
    <3> QED
      BY <1>3, <3>2
  <2>5. CASE ~ MoveHead(t) /\ ~ Delete(t) /\ ~ CopyData(t) /\ ~ (CheckHead(t) /\ pc'[t] = "d_done")
    <3>1. /\ pc[t] \in DequeueAt /\ pc'[t] \in DequeueAt
          /\ data' = data /\ head' = head /\ puts' = puts
      BY <1>6, <2>5, TypeVars DEF DequeueStep, LoadHead, LoadTail, LoadNext, CheckHead,
         AfterCheckHead,
         HelpDequeue, MoveHeadFails, SwingTail, nodeVars, DequeueAt
    <3> QED
      BY <1>3, <3>1
  <2> QED
    BY <2>1, <2>2, <2>3, <2>4, <2>5
<1>7. CASE EmptyStep(t)
  <2>1. CASE AnswerEmpty(t)
    BY <1>2, <2>1, EmptyIs
  <2>2. CASE ~ AnswerEmpty(t)
    <3>1. /\ pc[t] \in EmptyAt /\ pc'[t] \in EmptyAt
          /\ data' = data /\ head' = head /\ puts' = puts
      BY <1>7, <2>2, TypeVars DEF EmptyStep, LoadHead, LoadTail, nodeVars, EmptyAt
    <3> QED
      BY <1>3, <3>1
  <2> QED
    BY <2>1, <2>2
<1>8. CASE Return(t)
  BY <1>2, <1>8, ReturnIs
<1> QED
  BY <1>4, <1>5, <1>6, <1>7, <1>8 DEF Step

(* A stuttering step is one for FifoQueue, too.                            *)
LEMMA FifoStill == ASSUME UNCHANGED vars PROVE UNCHANGED Fifo!vars
<1>1. Node' = Node
  BY DEF vars, nodeVars, Node, Follow
<1>2. Items' = Items
  BY <1>1 DEF vars, nodeVars, Items, Linked
<1>3. AbstractCall' = AbstractCall /\ AbstractAnswer' = AbstractAnswer
  BY DEF vars, localVars, AbstractCall, AbstractAnswer, Op, Pending
<1> QED
  BY <1>2, <1>3 DEF vars, Fifo!vars

(* The queue implements FifoQueue for any number of producers and          *)
(* consumers and with spurious failures, as long as memory is not reused:  *)
(* each enqueue, dequeue and empty takes effect at one moment of its call, *)
(* in the order of a FIFO queue (lockfreequeue.h:34-117).                  *)
THEOREM ManyFifo ==
  ASSUME Reuse = FALSE
  PROVE  Spec => IsFifo
<1>1. Init => Fifo!Init
  BY TypeInit, FifoInit
<1>2. ManyInv /\ [Next]_vars => [Fifo!Next]_(Fifo!vars)
  <2> SUFFICES ASSUME ManyInv, [Next]_vars PROVE Fifo!Next \/ UNCHANGED Fifo!vars
    OBVIOUS
  <2>1. TypeInv /\ TypeInv'
    BY TypeNext DEF ManyInv
  <2>2. PICK n, c, pos : Good(c, pos, n) /\ Placed(pos)
    BY DEF ManyInv
  <2>3. \A a \in Unused : pos[a] = 0
    BY <2>1, <2>2, UnusedMany
  <2> QED
    BY <2>1, <2>2, <2>3, Steps, FifoStep, FifoStill
<1> QED
  BY <1>1, <1>2, ManyInductive, PTL DEF Spec, IsFifo, Fifo!Spec

(* With one producer and one consumer, and exchanges that do not fail for  *)
(* no reason, the queue implements FifoQueue though memory is reused.      *)
THEOREM PairFifo ==
  ASSUME NEW p, NEW q, Producer = {p}, Consumer = {q}, Spurious = FALSE
  PROVE  Spec => IsFifo
<1>1. Init => Fifo!Init
  BY TypeInit, FifoInit
<1>2. PairInv(p, q) /\ [Next]_vars => [Fifo!Next]_(Fifo!vars)
  <2> SUFFICES ASSUME PairInv(p, q), [Next]_vars PROVE Fifo!Next \/ UNCHANGED Fifo!vars
    OBVIOUS
  <2>1. TypeInv /\ TypeInv'
    BY TypeNext DEF PairInv
  <2>2. PICK n, c, pos : Good(c, pos, n) /\ \A a \in Addr : pos[a] # 0 => a \in live
    BY <2>1, Drop DEF PairInv
  <2>3. \A a \in Unused : pos[a] = 0
    BY <2>1, <2>2, UnusedPair
  <2> QED
    BY <2>1, <2>2, <2>3, Steps, FifoStep, FifoStill
<1> QED
  BY <1>1, <1>2, PairInductive, PTL DEF Spec, IsFifo, Fifo!Spec
=============================================================================
