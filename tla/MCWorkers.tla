----------------------------- MODULE MCWorkers -----------------------------
(***************************************************************************)
(* Workers, for TLC: two workers and three tasks that may run for ever;    *)
(* a worker and two threads that arm deadlines; the same two, and a thread *)
(* that waits, where there is no worker; and a worker beside a thread that *)
(* waits.                                                                  *)
(***************************************************************************)
EXTENDS Workers

CONSTANTS w1, w2, o1, o2, t1

MCSystems ==
    [workers : {{w1, w2}}, others : {{o1}}, waiters : {{}}, tasks : {Tasks}, times : {{}},
     cores : BOOLEAN, goOn : {2}, watched : {t1}] \cup
    [workers : {{w1}}, others : {{o1, o2}}, waiters : {{}}, tasks : {{t1}}, times : {Times},
     cores : {TRUE}, goOn : {1}, watched : {t1}] \cup
    [workers : {{}}, others : {{o1, o2}}, waiters : {Waiters}, tasks : {{}}, times : {Times},
     cores : {TRUE}, goOn : {1}, watched : {t1}] \cup
    [workers : {{w1}}, others : {{o1}}, waiters : {Waiters}, tasks : {{}}, times : {Times},
     cores : {TRUE}, goOn : {1}, watched : {t1}]
=============================================================================
