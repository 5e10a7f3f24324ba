-------------------------------- MODULE Fifo --------------------------------
(***************************************************************************)
(* What a channel promises the tasks that use it.  A task has the outcome  *)
(* of its latest operation; a channel has the values that were sent on it  *)
(* and not received yet.  At most one value goes in and one comes out at a *)
(* time, in the order of the sends; the channel holds no more than its     *)
(* capacity, so without one a value goes from hand to hand.                *)
(***************************************************************************)
EXTENDS Integers, Sequences, FiniteSets

CONSTANTS Tasks, Chans, Cap

VARIABLES
    out,     \* the outcome of a task's latest operation
    q,       \* the values on a channel
    closed   \* whether it is closed

fifoVars == <<out, q, closed>>

\* The tasks that learn, in this step, that their operation on c ended so.
Learn(c, how) ==
    {t \in Tasks : out'[t] # out[t] /\ out'[t].how = how /\ out'[t].chan = c}

\* What the one task of a set of them has sent or received.
ValueOf(ts) == IF ts = {} THEN <<>> ELSE <<out'[CHOOSE t \in ts : TRUE].val>>

Step(c) ==
    /\ Cardinality(Learn(c, "Sent")) <= 1
    /\ Cardinality(Learn(c, "Received")) <= 1
    /\ q[c] \o ValueOf(Learn(c, "Sent")) = ValueOf(Learn(c, "Received")) \o q'[c]
    /\ Len(q'[c]) <= Cap[c]
    /\ closed[c] => closed'[c] /\ Learn(c, "Sent") = {}

FifoInit == \A c \in Chans : q[c] = <<>> /\ ~closed[c]

FifoSpec == FifoInit /\ [][\A c \in Chans : Step(c)]_fifoVars
=============================================================================
