---------------------------- MODULE MCCoroutine ----------------------------
(* Model-checking instance of Coroutine.                                   *)
EXTENDS Coroutine, TLC

\* Threads and coroutines are interchangeable; no order is on either.
Symmetry == Permutations(Thread) \cup Permutations(Coro)
=============================================================================
