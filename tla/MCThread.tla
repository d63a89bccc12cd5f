------------------------------ MODULE MCThread ------------------------------
(* Thread with two runnables and two threads of execution.                 *)
EXTENDS Thread
=============================================================================
