------------------------------ MODULE MCIoPool ------------------------------
(***************************************************************************)
(* Instances of IoPool for TLC: operations that are closed or give back,   *)
(* one of them of a task that is cancelled, in a system that may refuse    *)
(* threads; operations that run out there; and three of those in a pool of *)
(* one thread, in a system that does not.                                  *)
(***************************************************************************)
EXTENDS IoPool

MCRefusing == {
    [ops |-> {1, 2}, flagged |-> {}, leaves |-> {"RunsOut"}, max |-> 2, spawnFails |-> TRUE] }

MCPools == MCRefusing \cup {
    [ops |-> {1, 2}, flagged |-> {1}, leaves |-> {"Closes", "Both"}, max |-> 2,
     spawnFails |-> TRUE],
    [ops |-> {1, 2, 3}, flagged |-> {}, leaves |-> {"RunsOut"}, max |-> 1,
     spawnFails |-> FALSE] }
=============================================================================
