----------------------------- MODULE HttpServer -----------------------------
(***************************************************************************)
(* The connections of an http.serve (builtins/http.rs): the task of each   *)
(* (Conn), the operation of the I/O pool that reads or writes for it, what *)
(* they share (Server), and the end of the server (Drop for Serve).  How   *)
(* the server comes to its connections is in module Listener.              *)
(*                                                                         *)
(* A client sends the head and the body of its requests one after the      *)
(* other, and what the server writes is a list of interim responses and    *)
(* answers.  The bytes and the parsing (http_wire.rs) are left out, but a  *)
(* client that reads slowly lets the system take a part of what is         *)
(* written, or nothing.  A deadline may pass whenever a wait has one.      *)
(***************************************************************************)
EXTENDS Integers, FiniteSets, Sequences

CONSTANTS
    Conns,         \* connections
    Programs,      \* which of them there are and what their clients send:
                   \* functions to sequences of requests
    Slow,          \* those whose client reads slowly
    HANDLERS_MAX, BODIES_MAX,
    TURN           \* Conn::TURN

\* A request: whether the handler, the server itself ("Answered") or a
\* refusal answers it, the bytes of its body, whether its client waits for
\* the interim response, and whether it asks to close the connection.
Request == [for : {"handler", "Answered", "Refused"}, body : 0..BODIES_MAX,
            waits : BOOLEAN, close : BOOLEAN]

ASSUME Requests ==
    \A p \in Programs : /\ DOMAIN p \subseteq Conns /\ IsFiniteSet(DOMAIN p)
                        /\ \A c \in DOMAIN p : p[c] \in Seq(Request)
ASSUME Bounds ==
    /\ Slow \subseteq Conns /\ TURN \in Nat \ {0}
    /\ HANDLERS_MAX \in Nat \ {0} /\ BODIES_MAX \in Nat

VARIABLES
    asks,       \* the program: what the clients send
    conn,       \* the connections, with their tasks
    handlers,   \* Server::handlers
    bodies,     \* Server::bodies
    conns,      \* Server::conns: those whose task is in the map ...
    open,       \* ... which is there until the server ends
    ending      \* the tasks that Drop for Serve has still to cancel

shared == <<handlers, bodies, conns, open, ending>>
vars == <<asks, conn, shared>>

Fresh == [
    \* The task: its state, its cancel flag, Conn::served, the request that
    \* it is at, and the response that it sends.
    at |-> "Next", cancelled |-> FALSE, served |-> 0, req |-> 1, inBody |-> FALSE,
    then |-> "Next", out |-> <<>>,
    \* Its operation: where its thread stands, what a read gave, and what
    \* was counted for the body (Conn::pending, then the Held of the Got).
    op |-> "none", got |-> "none", announced |-> FALSE, held |-> 0,
    \* The connection: shut down, its writes ended, what stands on it.
    closed |-> FALSE, writesEnded |-> FALSE, wire |-> <<>>,
    \* The client: how much it has sent (two for each request), and whether
    \* it sends no more; whether the system did not take all of something,
    \* though it could have; and the requests that the handler was called for.
    sent |-> 0, gone |-> FALSE, deaf |-> FALSE, called |-> {} ]

Init ==
    /\ asks \in Programs
    /\ conn = [c \in DOMAIN asks |-> Fresh]
    /\ handlers = 0 /\ bodies = 0
    /\ conns = DOMAIN asks /\ open = TRUE /\ ending = {}

\* The request that a connection is at, and what of it is there.
Exists(c) == conn[c].req <= Len(asks[c])
Req(c) == asks[c][conn[c].req]
HeadIsThere(c) == Exists(c) /\ conn[c].sent >= 2 * conn[c].req - 1
IsThere(c) == Exists(c) /\ conn[c].sent >= 2 * conn[c].req

-----------------------------------------------------------------------------
(* Writes.                                                                 *)

\* The interim response, and an answer to the request a connection is at.
Interim(r) == [what |-> "100", req |-> r.req, close |-> FALSE, whole |-> TRUE]
Answer(r, close) == [what |-> "answer", req |-> r.req, close |-> close, whole |-> TRUE]

\* write_at_once: what the system takes of bytes that are written.
Takes(c, r) ==
    IF r.closed \/ r.writesEnded THEN {"nothing"}
    ELSE IF c \in Slow THEN {"all", "part", "nothing"} ELSE {"all"}

Written(r, e, taken) ==
    [r EXCEPT !.wire = IF taken = "nothing" THEN @
                       ELSE Append(@, [e EXCEPT !.whole = (taken = "all")]),
              !.deaf = @ \/ (taken # "all" /\ ~r.closed /\ ~r.writesEnded)]

\* Drop for Conn.  (An operation in flight is given up: it finds the
\* connection shut down.)
Dropped(r) == [r EXCEPT !.at = "Ended", !.closed = TRUE,
                        !.served = 0, !.inBody = FALSE, !.then = "Next", !.out = <<>>]

\* Conn::sent.
Sent(r, then) ==
    CASE then = "Next" -> [r EXCEPT !.at = "Next", !.req = @ + 1]
      [] then = "Close" -> Dropped(r)
      [] then = "Drain" -> [r EXCEPT !.at = "Draining", !.op = "ends"]

\* Conn::send: what comes of it.
Send(c, r, e, then) ==
    { IF t = "all" THEN Sent(Written(r, e, t), then)
      ELSE IF r.cancelled THEN Dropped(Written(r, e, t))
      ELSE [Written(r, e, t) EXCEPT !.at = "Sending", !.op = "writes",
                                    !.then = then, !.out = <<e, t>>]
      : t \in Takes(c, r) }

Then(close) == IF close THEN "Close" ELSE "Next"

\* A task goes on as one of the records; one that has ended is no longer in
\* the map.
GoesOn(c, records) ==
    \E r \in records :
        /\ conn' = [conn EXCEPT ![c] = r]
        /\ conns' = IF r.at = "Ended" THEN conns \ {c} ELSE conns

-----------------------------------------------------------------------------
(* The task of a connection (Conn::go).                                    *)

\* Conn::serve.  What was counted for the body is given up with the Got.
Serve(c, got) ==
    LET r == [conn[c] EXCEPT !.served = @ + 1, !.got = "none", !.held = 0, !.op = "none",
                             !.inBody = FALSE, !.announced = FALSE]
        close == Req(c).close
    IN /\ bodies' = bodies - conn[c].held
       /\ CASE got = "End" -> GoesOn(c, {Dropped(r)}) /\ UNCHANGED handlers
            [] got = "Refused" ->
                 GoesOn(c, Send(c, r, Answer(r, TRUE), "Drain")) /\ UNCHANGED handlers
            [] got = "Answered" \/ (got = "handler" /\ handlers >= HANDLERS_MAX) ->
                 GoesOn(c, Send(c, r, Answer(r, close), Then(close))) /\ UNCHANGED handlers
            [] OTHER ->
                 /\ handlers' = handlers + 1
                 /\ GoesOn(c, {[r EXCEPT !.at = "Calling", !.called = @ \cup {r.req}]})

\* The next request is at hand (Conn::at_hand): all of it, or a head that is
\* refused, or the end of what the client sends.
AtHand(c) ==
    CASE HeadIsThere(c) /\ Req(c).for = "Refused" -> {"Refused"}
      [] IsThere(c) /\ Req(c).for # "Refused" -> {Req(c).for}
      [] ~HeadIsThere(c) /\ conn[c].gone -> {"End"}
      [] OTHER -> {}

\* A part of the request may have been read with the one before it; behind
\* it is the end of what the client sends.
AfterAPart(c) == conn[c].req > 1 /\ HeadIsThere(c) /\ conn[c].gone

Look(c) ==
    /\ conn[c].at = "Next"
    /\ IF conn[c].cancelled
       THEN GoesOn(c, {Dropped(conn[c])}) /\ UNCHANGED <<handlers, bodies>>
       ELSE IF conn[c].served >= TURN
       THEN GoesOn(c, {[conn[c] EXCEPT !.served = 0]}) /\ UNCHANGED <<handlers, bodies>>
       ELSE IF AtHand(c) # {}
       THEN \E got \in AtHand(c) : Serve(c, got)
       ELSE \/ /\ GoesOn(c, {[conn[c] EXCEPT !.at = "Reading", !.served = 0, !.op = "head"]})
               /\ UNCHANGED <<handlers, bodies>>
            \/ AfterAPart(c) /\ Serve(c, "End")
    /\ UNCHANGED <<asks, open, ending>>

\* The body follows: the task waits for it with a new deadline.
BodyFollows(c) ==
    /\ conn[c].at = "Reading" /\ conn[c].announced /\ ~conn[c].inBody
    /\ conn' = [conn EXCEPT ![c].inBody = TRUE]
    /\ UNCHANGED <<asks, shared>>

ReadDone(c) ==
    /\ conn[c].at = "Reading" /\ conn[c].op = "done"
    /\ Serve(c, conn[c].got)
    /\ UNCHANGED <<asks, open, ending>>

\* What the Got of a read that is given up had counted, once its thread has
\* made it.  (A read in flight gives it up itself: Finish.)
GivenUp(c) == IF conn[c].op = "done" THEN conn[c].held ELSE 0
WithoutGot(r) == IF r.op = "done" THEN [r EXCEPT !.got = "none", !.held = 0] ELSE r

\* Slip: a last word that does not end the writes.
LastWordPasses(r) == r

\* write_last_in_turn ends the writes in the turn of the last word.
LastWord(r) == [r EXCEPT !.writesEnded = TRUE]

\* The request did not come in time.  (Reader::begun is of the last read: it
\* may be behind what has come, and until the thread has begun it may still
\* be that of the request before.)
ReadTimeout(c) ==
    /\ conn[c].at = "Reading"
    /\ LET r == WithoutGot(conn[c])
       IN \/ /\ ~r.inBody /\ ~r.announced
             /\ GoesOn(c, {Dropped(r)})
          \/ GoesOn(c, { LastWord([Written(r, Answer(r, TRUE), t) EXCEPT !.at = "Draining"])
                         : t \in Takes(c, r) })
    /\ bodies' = bodies - GivenUp(c)
    /\ UNCHANGED <<asks, handlers, open, ending>>

\* The rest of a response has been written, or was not taken.
SendDone(c) ==
    /\ conn[c].at = "Sending" /\ conn[c].op \in {"wrote", "failed"}
    /\ LET r == [conn[c] EXCEPT !.op = "none", !.out = <<>>]
       IN GoesOn(c, {IF conn[c].op = "wrote" THEN Sent(r, r.then) ELSE Dropped(r)})
    /\ UNCHANGED <<asks, handlers, bodies, open, ending>>

\* The client did not take the response in time; or, after the last word, it
\* has stopped sending, or its time is over.
GivesUp(c) ==
    /\ \/ conn[c].at = "Sending"
       \/ conn[c].at = "Draining"
    /\ GoesOn(c, {Dropped(conn[c])})
    /\ UNCHANGED <<asks, handlers, bodies, open, ending>>

HandlerReturns(c) ==
    /\ conn[c].at = "Calling"
    /\ handlers' = handlers - 1
    /\ LET close == Req(c).close
       IN GoesOn(c, Send(c, conn[c], Answer(conn[c], close), Then(close)))
    /\ UNCHANGED <<asks, bodies, open, ending>>

\* The handler fails, and its task with it: Conn::abandon finds that the task
\* was not cancelled ...
HandlerFails(c) ==
    /\ conn[c].at = "Calling" /\ ~conn[c].cancelled
    /\ handlers' = handlers - 1
    /\ conn' = [conn EXCEPT ![c].at = "Failed"]
    /\ UNCHANGED <<asks, bodies, conns, open, ending>>

\* Slip: the connection is handed on though the server has ended.
HandOnAnyway(c) ==
    /\ conn[c].at = "Failed"
    /\ conn' = [conn EXCEPT ![c].at = "Answering", ![c].cancelled = FALSE, ![c].served = 0]
    /\ UNCHANGED <<asks, shared>>

\* Slip: without a new task nobody answers.
HandOnSilently(c) ==
    /\ conn[c].at = "Failed"
    /\ GoesOn(c, {[conn[c] EXCEPT !.at = IF open THEN "Answering" ELSE "Abandoned",
                                   !.cancelled = @ /\ ~open, !.served = 0]})
    /\ UNCHANGED <<asks, handlers, bodies, open, ending>>

\* ... and hands the connection on to a new task, which answers 500 and goes
\* on (go_on_in_a_new_task).  When the server has ended there is none, and
\* this is the last word.
HandOn(c) ==
    /\ conn[c].at = "Failed"
    /\ LET r == conn[c]
       IN GoesOn(c, IF open
                    THEN {[r EXCEPT !.at = "Answering", !.cancelled = FALSE, !.served = 0]}
                    ELSE { [Written(r, Answer(r, TRUE), t) EXCEPT !.at = "Abandoned"]
                           : t \in Takes(c, r) })
    /\ UNCHANGED <<asks, handlers, bodies, open, ending>>

\* The new task runs.
AnswerFailed(c) ==
    /\ conn[c].at = "Answering"
    /\ LET close == Req(c).close
       IN GoesOn(c, Send(c, conn[c], Answer(conn[c], close), Then(close)))
    /\ UNCHANGED <<asks, handlers, bodies, open, ending>>

\* The task is stopped with the server, or a new one could not be started:
\* Conn::abandon answers the request in flight with what the system takes at
\* once.  (Whether the cancel ended the task's wait or something else had, so
\* that the task goes on, is left open.)
Abandon(c) ==
    LET r == conn[c]
        close == IF r.at = "Answering" THEN Req(c).close ELSE TRUE
    IN /\ \/ r.at \in {"Reading", "Calling", "Sending", "Draining"} /\ r.cancelled
          \/ r.at = "Answering"
       /\ handlers' = IF r.at = "Calling" THEN handlers - 1 ELSE handlers
       /\ GoesOn(c, IF r.at \in {"Calling", "Answering"} \/ (r.at = "Reading" /\ r.inBody)
                    THEN { [Written(r, Answer(r, close), t) EXCEPT !.at = "Abandoned"]
                           : t \in Takes(c, r) }
                    ELSE {[r EXCEPT !.at = "Abandoned"]})
       /\ UNCHANGED <<asks, bodies, open, ending>>

\* ... and the frame is dropped.
Drop(c) ==
    /\ conn[c].at = "Abandoned"
    /\ GoesOn(c, {Dropped(WithoutGot(conn[c]))})
    /\ bodies' = bodies - GivenUp(c)
    /\ UNCHANGED <<asks, handlers, open, ending>>

-----------------------------------------------------------------------------
(* The operation of a connection, on a thread of the I/O pool.             *)

\* Slip: what was counted for a body is kept whatever the read gave.
FinishKeeps(c, r, got) ==
    /\ conn' = [conn EXCEPT ![c] = [r EXCEPT !.op = "done",
                                             !.got = IF r.at = "Reading" THEN got ELSE "none"]]
    /\ bodies' = bodies

\* The end of a read.  What was counted for a body stays counted with a
\* request for the handler that the task still waits for (Got::of, Held).
Finish(c, r, got) ==
    LET kept == IF got = "handler" /\ r.at \in {"Reading", "Abandoned"} THEN r.held ELSE 0
    IN /\ conn' = [conn EXCEPT ![c] =
                     [r EXCEPT !.op = "done", !.held = kept,
                               !.got = IF r.at \in {"Reading", "Abandoned"} THEN got ELSE "none"]]
       /\ bodies' = bodies - (r.held - kept)

\* Nothing (more) of the request comes.
ReadEnds(c) ==
    /\ \/ conn[c].op = "head" /\ (conn[c].closed \/ (conn[c].gone /\ ~HeadIsThere(c)))
       \/ conn[c].op = "body" /\ (conn[c].closed \/ (conn[c].gone /\ ~IsThere(c)))
    /\ Finish(c, conn[c], "End")
    /\ UNCHANGED <<asks, handlers, conns, open, ending>>

\* The head is there (Reader::request): a body has room or is refused, and is
\* announced before it is read.
ReadHead(c) ==
    /\ conn[c].op = "head" /\ HeadIsThere(c)
    /\ IF Req(c).for = "Refused" \/ bodies + Req(c).body > BODIES_MAX
       THEN Finish(c, conn[c], "Refused")
       ELSE IF Req(c).body = 0
       THEN Finish(c, conn[c], Req(c).for)
       ELSE /\ bodies' = bodies + Req(c).body
            /\ conn' = [conn EXCEPT
                   ![c].held = Req(c).body, ![c].announced = TRUE,
                   ![c].op = IF Req(c).waits /\ ~IsThere(c) THEN "interim" ELSE "body"]
    /\ UNCHANGED <<asks, handlers, conns, open, ending>>

\* The interim response, whole or not at all (write_whole_in_turn).
WriteInterim(c) ==
    /\ conn[c].op = "interim"
    /\ \E t \in Takes(c, conn[c]) :
          LET r == Written(conn[c], Interim(conn[c]), t)
          IN IF t = "part" THEN Finish(c, [r EXCEPT !.closed = TRUE], "End")
             ELSE /\ conn' = [conn EXCEPT ![c] = [r EXCEPT !.op = "body"]]
                  /\ UNCHANGED bodies
    /\ UNCHANGED <<asks, handlers, conns, open, ending>>

ReadBody(c) ==
    /\ conn[c].op = "body" /\ IsThere(c)
    /\ Finish(c, conn[c], Req(c).for)
    /\ UNCHANGED <<asks, handlers, conns, open, ending>>

\* The rest of a response is taken: a part of it, or all.
WriteRest(c) ==
    /\ conn[c].op = "writes" /\ ~conn[c].closed
    /\ LET r == conn[c]
           e == r.out[1]
           behind == IF r.out[2] = "part" THEN SubSeq(r.wire, 1, Len(r.wire) - 1) ELSE r.wire
       IN \/ conn' = [conn EXCEPT ![c].op = "wrote", ![c].wire = Append(behind, e)]
          \/ /\ r.out[2] = "nothing"
             /\ conn' = [conn EXCEPT ![c].out = <<e, "part">>,
                                     ![c].wire = Append(@, [e EXCEPT !.whole = FALSE])]
    /\ UNCHANGED <<asks, shared>>

WriteFails(c) ==
    /\ conn[c].op = "writes" /\ (conn[c].closed \/ conn[c].gone)
    /\ conn' = [conn EXCEPT ![c].op = "failed"]
    /\ UNCHANGED <<asks, shared>>

\* The operation of Conn::drain: it ends the writes, and reads on until the
\* client stops.
DrainOp(c) ==
    /\ \/ /\ conn[c].op = "ends"
          /\ conn' = [conn EXCEPT ![c].op = "drops", ![c].writesEnded = TRUE]
       \/ /\ conn[c].op = "drops" /\ (conn[c].closed \/ conn[c].gone)
          /\ conn' = [conn EXCEPT ![c].op = "done"]
    /\ UNCHANGED <<asks, shared>>

-----------------------------------------------------------------------------
(* The end of the server, and the clients.                                 *)

\* Drop for Serve: the map is taken ...
ServerEnds ==
    /\ open
    /\ open' = FALSE /\ ending' = conns /\ conns' = {}
    /\ UNCHANGED <<asks, conn, handlers, bodies>>

\* ... and each task in it is cancelled.
CancelConn(c) ==
    /\ c \in ending
    /\ ending' = ending \ {c}
    /\ conn' = [conn EXCEPT ![c].cancelled = TRUE]
    /\ UNCHANGED <<asks, handlers, bodies, conns, open>>

\* The head of the next request, with its body where it has none; or the
\* body, or both.
ClientSends(c) ==
    /\ ~conn[c].gone /\ ~conn[c].closed
    /\ \E n \in {1, 2} :
          LET sent == conn[c].sent + n
              next == asks[c][(sent + 1) \div 2]
          IN /\ sent <= 2 * Len(asks[c])
             /\ next.body = 0 => sent % 2 = 0
             /\ n = 2 => sent % 2 = 0
             /\ conn' = [conn EXCEPT ![c].sent = sent]
    /\ UNCHANGED <<asks, shared>>

ClientStops(c) ==
    /\ ~conn[c].gone /\ ~conn[c].closed
    /\ conn' = [conn EXCEPT ![c].gone = TRUE]
    /\ UNCHANGED <<asks, shared>>

-----------------------------------------------------------------------------
\* What a task and its operation do without waiting for a client, a handler
\* or a deadline.
Proceeds ==
    \E c \in DOMAIN conn :
        \/ Look(c) \/ BodyFollows(c) \/ ReadDone(c) \/ SendDone(c)
        \/ HandOn(c) \/ AnswerFailed(c) \/ Abandon(c) \/ Drop(c)
        \/ ReadEnds(c) \/ ReadHead(c) \/ WriteInterim(c) \/ ReadBody(c)
        \/ WriteFails(c) \/ DrainOp(c) \/ CancelConn(c)

Next ==
    \/ Proceeds
    \/ \E c \in DOMAIN conn :
        \/ ReadTimeout(c) \/ GivesUp(c) \/ HandlerReturns(c) \/ HandlerFails(c)
        \/ WriteRest(c) \/ ClientSends(c) \/ ClientStops(c)
    \/ ServerEnds

Spec == Init /\ [][Next]_vars

\* Workers and the threads of the pool go on with what they can do.  Nothing
\* is assumed of clients and handlers, and no deadline has to pass.
FairSpec == Spec /\ WF_vars(Proceeds)

-----------------------------------------------------------------------------
(* Properties.                                                             *)

\* The requests that the first k responses on a wire answer.
Answered(wire, k) == {wire[j].req : j \in {i \in 1..k : wire[i].what = "answer"}}

\* What stands on a connection reads as one response after the other, though
\* the task, the task after it, the reader's thread and the end of the server
\* write there: the answers are to the first requests, each once and in
\* order, nothing stands behind a part of a response or behind the last word,
\* and an interim response stands before its answer.  (An interim response
\* may come behind the 503 of a task that is stopped with the server: that
\* word does not end the writes, and the shutdown follows it only.)
WireReads ==
    \A c \in DOMAIN conn :
        LET wire == conn[c].wire
        IN /\ \A k \in DOMAIN wire : wire[k].what = "answer" =>
                 Answered(wire, k - 1) = 1..(wire[k].req - 1)
           /\ \A k \in 2..Len(wire) :
                 \/ /\ wire[k-1].whole /\ ~wire[k-1].close
                    /\ wire[k].req = IF wire[k-1].what = "100" THEN wire[k-1].req
                                     ELSE wire[k-1].req + 1
                    /\ ~(wire[k-1].what = "100" /\ wire[k].what = "100")
                 \/ conn[c].cancelled /\ wire[k].what = "100"

\* A request that the handler was called for is answered before its
\* connection is closed, also when the handler fails or the server ends at
\* any moment of that; only a system that does not take the bytes at once may
\* leave it without (Conn::abandon).
CalledAreAnswered ==
    \A c \in DOMAIN conn :
        conn[c].at = "Ended" /\ ~conn[c].deaf =>
            conn[c].called \subseteq Answered(conn[c].wire, Len(conn[c].wire))

\* The bytes of bodies that are held.
BodyBytes == {u \in (DOMAIN conn) \X (1..BODIES_MAX) : u[2] <= conn[u[1]].held}

\* The bounds of the server count what is there: the handlers that are called,
\* and the bytes of bodies that a read in flight has announced or that wait
\* for their handler.  A request that is refused, given up or answered by the
\* server, and a read whose task has left, take nothing of them for good.
CountsAreExact ==
    /\ handlers = Cardinality({c \in DOMAIN conn : conn[c].at = "Calling"})
    /\ handlers <= HANDLERS_MAX
    /\ bodies = Cardinality(BodyBytes)
    /\ bodies <= BODIES_MAX
    /\ \A c \in DOMAIN conn : conn[c].at # "Reading" /\ conn[c].op \in {"none", "done"} =>
                             conn[c].held = 0 \/ conn[c].at = "Abandoned"

\* No connection goes on when its server has ended, whatever its clients and
\* handlers do and without a deadline: its task ends, and so does the
\* operation that a thread of the pool has for it.
NoneOutlivesTheServer ==
    <>[](~open => \A c \in DOMAIN conn :
            conn[c].at = "Ended" /\ conn[c].op \in {"none", "done", "wrote", "failed"})
=============================================================================
