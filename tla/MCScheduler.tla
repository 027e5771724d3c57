---------------------------- MODULE MCScheduler ----------------------------
(* Model-checking instances of Scheduler.                                  *)
EXTENDS Scheduler, TLC

\* Jobs and clients are interchangeable (threads are not: they
\* are scanned in order).  Used for invariants only.
Symmetry == Permutations(Job) \cup Permutations(Client)

\* Values for Index: no fixed thread; one fixed thread or none.
NoIndex  == {-1}
OneIndex == {-1, 1}
=============================================================================
