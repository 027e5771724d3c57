------------------------------ MODULE FifoQueue ------------------------------
(***************************************************************************)
(* What the users of qc::thread::LockFreeQueue count on: every operation   *)
(* takes effect at one moment between its call and its return, and the     *)
(* queue hands out its items in the order they were put in.                *)
(*                                                                         *)
(* An answer about emptiness (null from dequeue, or the result of empty)   *)
(* is right when the queue was so at some moment since the call.           *)
(***************************************************************************)
EXTENDS Sequences

CONSTANTS
  Thread,  \* the threads that use the queue
  Value,   \* what may be enqueued
  None     \* the null pointer, and the answer of an operation without one

VARIABLES
  items,   \* the contents of the queue
  call,    \* the operation a thread is in
  answer,  \* its answer, once it has taken effect
  seen     \* how the queue has been since the call: "empty", "nonempty"

vars == <<items, call, answer, seen>>

Kind(s)  == IF s = <<>> THEN "empty" ELSE "nonempty"
NoCall   == [op |-> "none", arg |-> None, pending |-> FALSE]
Call     == [op : {"none", "enqueue", "dequeue", "empty"},
             arg : Value \cup {None}, pending : BOOLEAN]
Answer   == Value \cup {None, <<"empty">>, <<"nonempty">>}

TypeOK ==
  /\ items \in Seq(Value)
  /\ call \in [Thread -> Call]
  /\ answer \in [Thread -> Answer]
  /\ seen \in [Thread -> SUBSET {"empty", "nonempty"}]

Init ==
  /\ items = <<>>
  /\ call = [t \in Thread |-> NoCall]
  /\ answer = [t \in Thread |-> None]
  /\ seen = [t \in Thread |-> {}]

\* Every operation under way sees what the queue has become.
Observe ==
  seen' = [t \in Thread |->
             IF call'[t].pending THEN seen[t] \cup {Kind(items')} ELSE {}]

\* The operation of t takes effect with this answer.
Effect(t, a) ==
  /\ call' = [call EXCEPT ![t].pending = FALSE]
  /\ answer' = [answer EXCEPT ![t] = a]
  /\ Observe

Pending(t, op) == call[t].pending /\ call[t].op = op

Begin(t, op, v) ==
  /\ call[t] = NoCall
  /\ call' = [call EXCEPT ![t] = [op |-> op, arg |-> v, pending |-> TRUE]]
  /\ UNCHANGED <<items, answer>>
  /\ Observe

Enqueue(t) ==
  /\ Pending(t, "enqueue")
  /\ items' = Append(items, call[t].arg)
  /\ Effect(t, None)

Dequeue(t) ==
  /\ Pending(t, "dequeue")
  /\ items # <<>>
  /\ items' = Tail(items)
  /\ Effect(t, Head(items))

DequeueNothing(t) ==
  /\ Pending(t, "dequeue")
  /\ "empty" \in seen[t]
  /\ UNCHANGED items
  /\ Effect(t, None)

IsEmpty(t) ==
  /\ Pending(t, "empty")
  /\ UNCHANGED items
  /\ \E kind \in seen[t] : Effect(t, <<kind>>)

Return(t) ==
  /\ call[t].op # "none" /\ ~ call[t].pending
  /\ call' = [call EXCEPT ![t] = NoCall]
  /\ answer' = [answer EXCEPT ![t] = None]
  /\ UNCHANGED items
  /\ Observe

Operation(t) ==
  \/ \E v \in Value : Begin(t, "enqueue", v)
  \/ Begin(t, "dequeue", None) \/ Begin(t, "empty", None)
  \/ Enqueue(t) \/ Dequeue(t) \/ DequeueNothing(t) \/ IsEmpty(t) \/ Return(t)

\* The first conjunct follows from the second; it spares TLC the second.
Next == \E t \in Thread : call'[t] # call[t] /\ Operation(t)

Spec == Init /\ [][Next]_vars
=============================================================================
