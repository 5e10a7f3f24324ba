---------------------------- MODULE MCHttpServer ----------------------------
(***************************************************************************)
(* One connection with a body that its client announces, before or after   *)
(* another request, read slowly; and two that meet at the bounds of        *)
(* handlers and of bodies.                                                 *)
(***************************************************************************)
EXTENDS HttpServer, TLC

CONSTANTS k1, k2, k3

Plain == [for |-> "handler", body |-> 0, waits |-> FALSE, close |-> FALSE]
Body == [Plain EXCEPT !.body = 1]
Waits == [Body EXCEPT !.waits = TRUE]
Refused == [Plain EXCEPT !.for = "Refused"]
Other == [Body EXCEPT !.for = "Answered", !.close = TRUE]

MCConns == {k1, k2, k3}
MCSlow == {k1}
MCPrograms == {
    k1 :> <<Waits, Plain>>,
    k1 :> <<Plain, Waits>>,
    k1 :> <<Refused>>,
    k2 :> <<Other>> @@ k3 :> <<Waits>> }
=============================================================================
