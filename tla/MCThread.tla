------------------------------ MODULE MCThread ------------------------------
(* Model-checking instances of Thread.                                     *)
EXTENDS Thread
=============================================================================
