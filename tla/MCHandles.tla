------------------------------ MODULE MCHandles ------------------------------
(* A task that calls task.deadline, its function, and a task that has      *)
(* failed before.                                                          *)
EXTENDS Handles, TLC

CONSTANTS t1, t2, t3

Callers == (t1 :> t1) @@ (t2 :> t1) @@ (t3 :> t3)
=============================================================================
