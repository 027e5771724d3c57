-------------------------- MODULE MCLockFreeQueue --------------------------
(* Model-checking instances of LockFreeQueue.                              *)
EXTENDS LockFreeQueue, TLC

\* Threads of one kind are interchangeable.
Symmetry ==
  Permutations(Producer \ Consumer) \cup Permutations(Consumer \ Producer)
=============================================================================
