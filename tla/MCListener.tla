----------------------------- MODULE MCListener -----------------------------
(* Listener with two tasks that use it at a time.                          *)
EXTENDS Listener

CONSTANTS a1, a2, s1, s2, c1, c2

MCPrograms ==
    { [calls |-> {a1, a2}, line |-> <<c1, c2>>, fails |-> 1],
      [calls |-> {a1, s1}, line |-> <<c1, c2>>, fails |-> 0],
      [calls |-> {a1, s1}, line |-> <<c1>>, fails |-> 1],
      [calls |-> {s1, s2}, line |-> <<c1>>, fails |-> 1] }
=============================================================================
