----------------------------- MODULE MCChannels -----------------------------
(* Channels with three tasks: two that send, receive and select, one that  *)
(* also feeds a channel when it is asked to.                               *)
EXTENDS Channels

CONSTANTS ca, cb, cell, t1, t2, t3

Recv(c) == [op |-> "recv", on |-> c]
Send(c) == [op |-> "send", on |-> c]
Demands(c) == [op |-> "demand", on |-> c]
Joins(c) == [op |-> "cell", on |-> c]

MCCap == ca :> 1 @@ cb :> 0
MCAhead == ca :> 0 @@ cb :> 0
MCWaits ==
    t1 :> {<<Send(ca)>>, <<Demands(ca)>>}
    @@ t2 :> {<<Recv(ca), Recv(cb)>>, <<Recv(cb), Joins(cell)>>}
    @@ t3 :> {<<Send(cb)>>, <<Send(ca), Recv(cb)>>}
MCMaxOps == t1 :> 2 @@ t2 :> 2 @@ t3 :> 1

\* A select that would send on the channel that it would receive from.
FeederWaits == t1 :> {<<Demands(cb)>>} @@ t2 :> {<<Recv(cb), Send(cb)>>}
FeederOps == t1 :> 1 @@ t2 :> 1
=============================================================================
