------------------------------ MODULE Listener ------------------------------
(***************************************************************************)
(* A TCP listener and those that accept on it: TcpListenerHandle           *)
(* (runtime/handle.rs), the operation of an accept with what becomes of it *)
(* when its waiter goes (accept_op of builtins/tcp.rs, Drop for IoOp), the *)
(* builtins tcp.accept and http.serve, and the frame of a server (Serve of *)
(* builtins/http.rs).                                                      *)
(*                                                                         *)
(* An accept runs on a thread of the I/O pool.  In the call of the system  *)
(* it hears nothing: whoever wants it back connects to the listener, and   *)
(* the accept knows that connection by its address.  Here the address is   *)
(* the mark WAKE.  One step is one critical section of the listener's      *)
(* lock, one call of the system, or one step of the task.  The counts of   *)
(* the pool are in module IoPool.                                          *)
(***************************************************************************)
EXTENDS Integers, FiniteSets, Sequences, Functions

CONSTANTS
    Accepts,   \* the tasks that call tcp.accept, once each
    Servers,   \* the tasks that call http.serve, once each
    Clients,   \* the connections of clients
    Programs,  \* what may happen: which tasks call, which clients come, and in
               \* which order, and how often the system fails
    AT_ONCE,   \* keep_the_ready: how many connections at a time
    NONE, WAKE

Tasks == Accepts \cup Servers

ASSUME Sets == IsFiniteSet(Tasks) /\ Accepts \cap Servers = {} /\ AT_ONCE \in Nat \ {0}
ASSUME Cases == \A p \in Programs :
    p.calls \subseteq Tasks /\ p.line \in Seq(Clients) /\ IsInjective(p.line) /\ p.fails \in Nat
ASSUME Marks ==
    /\ NONE \notin Tasks \cup Clients /\ WAKE \notin Clients \cup {NONE}
    /\ {"Served", "GivenUp", "Error"} \cap (Clients \cup {NONE}) = {}

VARIABLES
    backlog,    \* the connections the system has for the listener
    kept,       \* Accepting::kept
    current,    \* Accepting::current: the task whose accept it is
    served,     \* TcpListenerHandle::served: the task that serves
    at,         \* where a task stands
    flag,       \* what is set for it while it lives: "cancelled", "over"
    op,         \* its accept on the I/O pool
    taken,      \* the clients that reached a task
    come,       \* the clients that have connected
    line,       \* those that are still to come
    fails,      \* how often the system may still fail
    unwoken     \* a connection to wake an accept could not be made

listener == <<backlog, kept, current, served>>
vars == <<listener, at, flag, op, taken, come, line, fails, unwoken>>

\* An accept: where its thread stands, what the system gave it, the flag
\* Current::stopped, OpState::claim, its value, whether its waiter left it
\* before it was finished, and how many keep_the_ready has taken.
NoAccept == [at |-> "none", hand |-> NONE, stopped |-> FALSE, claim |-> "WAITING",
             value |-> NONE, left |-> FALSE, ready |-> 0]

Init ==
    /\ backlog = <<>> /\ kept = <<>> /\ current = NONE /\ served = NONE
    /\ \E p \in Programs :
          /\ at = [t \in Tasks |-> IF t \in p.calls THEN "idle" ELSE "ended"]
          /\ line = p.line
          /\ fails = p.fails
    /\ flag = [t \in Tasks |-> {}]
    /\ op = [t \in Tasks |-> NoAccept]
    /\ taken = {} /\ come = {} /\ unwoken = FALSE

-----------------------------------------------------------------------------
(* What an accept asks before it takes a connection.                       *)

\* is_served: a server whose task was cancelled counts no longer.
IsServed == served # NONE /\ "cancelled" \notin flag[served]

Foreign(t) == t \in Accepts /\ IsServed

\* Vm::takes_nothing_new.
TakesNothingNew(t) == flag[t] # {}

GivenUp(t) == op[t].stopped \/ op[t].claim = "GONE" \/ TakesNothingNew(t)

\* Wanted::claim succeeds (an accept claims once).
Claims(t) == op[t].claim = "WAITING" /\ ~TakesNothingNew(t)

\* Condvar::notify_all on `turn`: those that wait their turn look again.
Notified(ops) == [t \in Tasks |-> IF ops[t].at = "turn" THEN [ops[t] EXCEPT !.at = "look"]
                                                        ELSE ops[t]]

\* wake_the_call: the connection is made, or it cannot be.
WakeTheCall ==
    \/ backlog' = Append(backlog, WAKE) /\ UNCHANGED <<unwoken, fails>>
    \/ /\ fails > 0
       /\ fails' = fails - 1
       /\ unwoken' = TRUE
       /\ UNCHANGED backlog

NoWake == UNCHANGED <<backlog, unwoken, fails>>

-----------------------------------------------------------------------------
(* TcpListenerHandle::accept, on the thread of the operation.              *)

Running(t) == op[t].at \in {"look", "turn", "call", "hand", "ready", "leave"}

\* The loop before the call, with the lock held.
Look(t) ==
    /\ op[t].at \in {"queued", "look"}
    /\ LET ends(v) == /\ op' = [op EXCEPT ![t].at = "finishing", ![t].value = v]
                      /\ UNCHANGED <<kept, current>>
       IN CASE Foreign(t) -> ends("Served")
            [] ~Foreign(t) /\ GivenUp(t) -> ends("GivenUp")
            [] ~Foreign(t) /\ ~GivenUp(t) /\ kept # <<>> ->
                 /\ op' = [op EXCEPT ![t].at = "finishing", ![t].value = Head(kept),
                                     ![t].claim = "TOOK"]
                 /\ kept' = Tail(kept)
                 /\ UNCHANGED current
            [] ~Foreign(t) /\ ~GivenUp(t) /\ kept = <<>> /\ current # NONE ->
                 op' = [op EXCEPT ![t].at = "turn"] /\ UNCHANGED <<kept, current>>
            [] OTHER ->
                 /\ current' = t
                 /\ op' = [op EXCEPT ![t].at = "call"]
                 /\ UNCHANGED kept
    /\ UNCHANGED <<backlog, served, at, flag, taken, come, line, fails, unwoken>>

\* The call of the system returns with a connection ...
CallReturns(t) ==
    /\ op[t].at = "call" /\ backlog # <<>>
    /\ op' = [op EXCEPT ![t].at = "hand", ![t].hand = Head(backlog)]
    /\ backlog' = Tail(backlog)
    /\ UNCHANGED <<kept, current, served, at, flag, taken, come, line, fails, unwoken>>

\* ... or with an error.
CallFails(t) ==
    /\ op[t].at = "call" /\ fails > 0
    /\ fails' = fails - 1
    /\ op' = [op EXCEPT ![t].at = "leave", ![t].value = "Error"]
    /\ UNCHANGED <<listener, at, flag, taken, come, line, unwoken>>

\* What follows an accept that has its connection: a server's takes what
\* else is ready.
HasIt(t, c) ==
    op' = [op EXCEPT ![t].at = IF t \in Servers THEN "ready" ELSE "leave", ![t].hand = NONE,
                     ![t].value = c, ![t].claim = "TOOK"]

HasNone(t) == op' = [op EXCEPT ![t].at = "leave", ![t].hand = NONE, ![t].value = "GivenUp"]

\* Slip: a connection that an accept is not to have is dropped.
HandleDropped(t) ==
    /\ op[t].at = "hand" /\ op[t].hand \in Clients
    /\ IF GivenUp(t) \/ Foreign(t)
       THEN HasNone(t) /\ UNCHANGED kept
       ELSE HasIt(t, op[t].hand) /\ UNCHANGED kept
    /\ UNCHANGED <<backlog, current, served, at, flag, taken, come, line, fails, unwoken>>

\* Slip: an accept that has its connection does not ask who serves.
HandleForeign(t) ==
    /\ op[t].at = "hand" /\ op[t].hand \in Clients
    /\ IF op[t].claim = "GONE" \/ TakesNothingNew(t)
       THEN HasNone(t) /\ kept' = Append(kept, op[t].hand)
       ELSE HasIt(t, op[t].hand) /\ UNCHANGED kept
    /\ UNCHANGED <<backlog, current, served, at, flag, taken, come, line, fails, unwoken>>

\* A client's connection: one that this accept is not to have is kept.
Handle(t) ==
    /\ op[t].at = "hand" /\ op[t].hand \in Clients
    /\ IF GivenUp(t) \/ Foreign(t) \/ ~Claims(t)
       THEN HasNone(t) /\ kept' = Append(kept, op[t].hand)
       ELSE HasIt(t, op[t].hand) /\ UNCHANGED kept
    /\ UNCHANGED <<backlog, current, served, at, flag, taken, come, line, fails, unwoken>>

\* A connection made to wake an accept: this one, or one before it.
HandleWake(t) ==
    /\ op[t].at = "hand" /\ op[t].hand = WAKE
    /\ CASE GivenUp(t) -> HasNone(t) /\ UNCHANGED kept
         [] ~GivenUp(t) /\ kept # <<>> -> HasIt(t, Head(kept)) /\ kept' = Tail(kept)
         [] OTHER -> op' = [op EXCEPT ![t].at = "call", ![t].hand = NONE] /\ UNCHANGED kept
    /\ UNCHANGED <<backlog, current, served, at, flag, taken, come, line, fails, unwoken>>

\* keep_the_ready, for one connection.
KeepReady(t) ==
    /\ op[t].at = "ready" /\ op[t].ready < AT_ONCE /\ backlog # <<>>
    /\ IF Head(backlog) = WAKE
       THEN UNCHANGED <<kept, op>>
       ELSE /\ kept' = Append(kept, Head(backlog))
            /\ op' = [op EXCEPT ![t].ready = @ + 1]
    /\ backlog' = Tail(backlog)
    /\ UNCHANGED <<current, served, at, flag, taken, come, line, fails, unwoken>>

\* It ends when nothing more is ready, it has as many as it takes, or the
\* system fails.
KeepReadyEnds(t) ==
    /\ op[t].at = "ready"
    /\ \/ (op[t].ready = AT_ONCE \/ backlog = <<>>) /\ UNCHANGED fails
       \/ fails > 0 /\ fails' = fails - 1
    /\ op' = [op EXCEPT ![t].at = "leave"]
    /\ UNCHANGED <<listener, at, flag, taken, come, line, unwoken>>

\* The end of accept: the turn is the next one's.
LeaveCall(t) ==
    /\ op[t].at = "leave"
    /\ current' = NONE
    /\ op' = Notified([op EXCEPT ![t].at = "finishing",
                ![t].value = IF @ = "GivenUp" /\ Foreign(t) THEN "Served" ELSE @])
    /\ UNCHANGED <<backlog, kept, served, at, flag, taken, come, line, fails, unwoken>>

-----------------------------------------------------------------------------
(* The value of an operation that its waiter did not take: a connection    *)
(* goes to the listener (the give_back of accept_op).                      *)

\* TcpListenerHandle::keep, its first half ...
Keep(c, ops) == kept' = Append(kept, c) /\ op' = Notified(ops)

\* Slip: the accept in the call is not woken.
KeepWakesNobody == NoWake

\* ... and its second, which wakes the accept in the call.
KeepWakes == IF current # NONE THEN WakeTheCall ELSE NoWake

\* The thread is done with the operation, whose value is there: it gives
\* back what its waiter has left.
Finish(t) ==
    /\ op[t].at = "finishing"
    /\ \/ ~op[t].left /\ op' = [op EXCEPT ![t].at = "finished"] /\ UNCHANGED kept
       \/ /\ op[t].left /\ op[t].value \notin Clients
          /\ op' = [op EXCEPT ![t] = NoAccept]
          /\ UNCHANGED kept
       \/ /\ op[t].left /\ op[t].value \in Clients
          /\ Keep(op[t].value, [op EXCEPT ![t] = [NoAccept EXCEPT !.at = "wakes"]])
    /\ UNCHANGED <<backlog, current, served, at, flag, taken, come, line, fails, unwoken>>

ThreadWakes(t) ==
    /\ op[t].at = "wakes"
    /\ KeepWakes
    /\ op' = [op EXCEPT ![t] = NoAccept]
    /\ UNCHANGED <<kept, current, served, at, flag, taken, come, line>>

-----------------------------------------------------------------------------
(* The tasks.                                                              *)

Goes(t, place) == at' = [at EXCEPT ![t] = place]

\* Vm::io_op: an accept that a task begins which takes nothing new is
\* withheld, and the wait for it ends the task.
Begin(t) ==
    IF TakesNothingNew(t)
    THEN Goes(t, "ends") /\ op' = [op EXCEPT ![t] = NoAccept]
    ELSE Goes(t, "waits") /\ op' = [op EXCEPT ![t] = [NoAccept EXCEPT !.at = "queued"]]

\* Drop for IoOp: no claim from now on, and what is left to do depends on
\* where the operation stands.  (Module IoPool has the steps in between.)
Drop(t) ==
    LET gone == [op EXCEPT ![t].left = TRUE,
                           ![t].claim = IF @ = "WAITING" THEN "GONE" ELSE @]
        over == [op EXCEPT ![t] = NoAccept]
    IN \/ op[t].at = "queued" /\ op' = over /\ UNCHANGED kept /\ Goes(t, "ends")
       \/ Running(t) /\ op' = gone /\ UNCHANGED kept /\ Goes(t, "stops")
       \/ op[t].at = "finishing" /\ op' = gone /\ UNCHANGED kept /\ Goes(t, "ends")
       \/ /\ op[t].at = "finished" /\ op[t].value \in Clients
          /\ Keep(op[t].value, over)
          /\ Goes(t, "wakes")
       \/ /\ op[t].at = "finished" /\ op[t].value \notin Clients
          /\ op' = over
          /\ UNCHANGED kept
          /\ Goes(t, "ends")

\* tcp.accept.
Accept(t) ==
    /\ t \in Accepts /\ at[t] = "idle"
    /\ IF IsServed
       THEN Goes(t, "ends") /\ UNCHANGED op
       ELSE Begin(t)
    /\ UNCHANGED <<listener, flag, taken, come, line, fails, unwoken>>

\* It goes on with the value that ended its wait.
AcceptReturns(t) ==
    /\ t \in Accepts /\ at[t] = "waits"
    /\ op[t].at \in {"finishing", "finished"}
    /\ taken' = taken \cup ({op[t].value} \cap Clients)
    /\ op' = [op EXCEPT ![t] = NoAccept]
    /\ Goes(t, "ends")
    /\ UNCHANGED <<listener, flag, come, line, fails, unwoken>>

\* http.serve, and the first half of TcpListenerHandle::serve.
Serve(s) ==
    /\ s \in Servers /\ at[s] = "idle"
    /\ IF IsServed
       THEN Goes(s, "ends") /\ UNCHANGED served
       ELSE Goes(s, "serves") /\ served' = s
    /\ UNCHANGED <<backlog, kept, current, flag, op, taken, come, line, fails, unwoken>>

\* Its second half: the accepts that wait give way.
ServeWakes(s) ==
    /\ at[s] = "serves"
    /\ IF current # NONE
       THEN WakeTheCall /\ op' = Notified([op EXCEPT ![current].stopped = TRUE])
       ELSE NoWake /\ op' = Notified(op)
    /\ Goes(s, "starts")
    /\ UNCHANGED <<kept, current, served, flag, taken, come, line>>

\* Serve::resume begins an accept.
ServeAccepts(s) ==
    /\ at[s] = "starts"
    /\ Begin(s)
    /\ UNCHANGED <<listener, flag, taken, come, line, fails, unwoken>>

\* It goes on when the accept has returned.  One that takes nothing new
\* leaves the operation, and ends in the wait that it begins.
ServeResumes(s) ==
    /\ s \in Servers /\ at[s] = "waits"
    /\ op[s].at \in {"finishing", "finished"}
    /\ IF TakesNothingNew(s)
       THEN Drop(s) /\ UNCHANGED taken
       ELSE /\ op' = [op EXCEPT ![s] = NoAccept]
            /\ UNCHANGED kept
            /\ taken' = taken \cup ({op[s].value} \cap Clients)
            /\ Goes(s, IF op[s].value \in Clients THEN "takes" ELSE "starts")
    /\ UNCHANGED <<backlog, current, served, flag, come, line, fails, unwoken>>

\* take_kept: what else the accept took.
ServeTakes(s) ==
    /\ at[s] = "takes"
    /\ IF kept # <<>>
       THEN /\ taken' = taken \cup {Head(kept)}
            /\ kept' = Tail(kept)
            /\ UNCHANGED at
       ELSE Goes(s, "starts") /\ UNCHANGED <<kept, taken>>
    /\ UNCHANGED <<backlog, current, served, flag, op, come, line, fails, unwoken>>

\* A wait ends without the value: the task is cancelled or late, or the
\* time of a tcp.accept passes (SILT_IO_TIMEOUT).
WaitEnds(t) ==
    /\ at[t] = "waits"
    /\ TakesNothingNew(t) \/ t \in Accepts
    /\ Drop(t)
    /\ UNCHANGED <<backlog, current, served, flag, taken, come, line, fails, unwoken>>

\* Slip: an accept that waits its turn is not told.
StopInTheCall(t) ==
    /\ at[t] = "stops"
    /\ IF op[t].claim # "TOOK" /\ current = t THEN WakeTheCall ELSE NoWake
    /\ Goes(t, "ends")
    /\ UNCHANGED <<kept, current, served, flag, op, taken, come, line>>

\* The interrupt of accept_op, and TcpListenerHandle::stop.
Stop(t) ==
    /\ at[t] = "stops"
    /\ CASE op[t].claim = "TOOK" -> NoWake /\ UNCHANGED op
         [] op[t].claim # "TOOK" /\ current = t -> WakeTheCall /\ UNCHANGED op
         [] OTHER -> NoWake /\ op' = Notified(op)
    /\ Goes(t, "ends")
    /\ UNCHANGED <<kept, current, served, flag, taken, come, line>>

WaiterWakes(t) ==
    /\ at[t] = "wakes"
    /\ KeepWakes
    /\ Goes(t, "ends")
    /\ UNCHANGED <<kept, current, served, flag, op, taken, come, line>>

\* The task is through; a server's listener is nobody's again
\* (served_no_more).
End(t) ==
    /\ at[t] = "ends"
    /\ served' = IF served = t THEN NONE ELSE served
    /\ Goes(t, "ended")
    /\ flag' = [flag EXCEPT ![t] = {}]
    /\ UNCHANGED <<backlog, kept, current, op, taken, come, line, fails, unwoken>>

-----------------------------------------------------------------------------
\* A client connects.
Connect ==
    /\ line # <<>>
    /\ backlog' = Append(backlog, Head(line))
    /\ come' = come \cup {Head(line)}
    /\ line' = Tail(line)
    /\ UNCHANGED <<kept, current, served, at, flag, op, taken, fails, unwoken>>

\* A task is cancelled, or its time is over: for all but is_served, which
\* asks of servers, that is the same.
Flag(t, f) ==
    /\ at[t] \in {"serves", "starts", "waits", "takes"} /\ flag[t] = {}
    /\ f = "cancelled" => t \in Servers
    /\ flag' = [flag EXCEPT ![t] = {f}]
    /\ UNCHANGED <<listener, at, op, taken, come, line, fails, unwoken>>

Thread(t) ==
    \/ Look(t) \/ CallReturns(t) \/ Handle(t) \/ HandleWake(t)
    \/ KeepReady(t) \/ KeepReadyEnds(t) \/ LeaveCall(t) \/ Finish(t)
    \/ ThreadWakes(t)

Task(t) ==
    \/ AcceptReturns(t)
    \/ ServeWakes(t) \/ ServeAccepts(t) \/ ServeResumes(t) \/ ServeTakes(t)
    \/ Stop(t) \/ WaiterWakes(t)
    \/ End(t)

Next ==
    \/ \E t \in Tasks : \/ Thread(t) \/ Task(t) \/ CallFails(t) \/ WaitEnds(t)
                        \/ Accept(t) \/ Serve(t)
                        \/ \E f \in {"cancelled", "over"} : Flag(t, f)
    \/ Connect

Spec == Init /\ [][Next]_vars

\* The system runs the threads, and the scheduler the tasks.  A call of the
\* system returns when a connection is there.  The wait of a task that is
\* cancelled or late ends (module Parking).  Nothing is assumed of clients,
\* of calls of the program, or of SILT_IO_TIMEOUT.  One condition for all of
\* these steps says as much as one for each: a program with as many calls
\* and clients as here takes finitely many of them.
Proceeds(t) == Thread(t) \/ Task(t) \/ (TakesNothingNew(t) /\ WaitEnds(t))

FairSpec == Spec /\ WF_vars(\E t \in Tasks : Proceeds(t))

-----------------------------------------------------------------------------
(* Properties.                                                             *)

\* Where a connection is.
Places(c) ==
    {<<"backlog", i>> : i \in {j \in DOMAIN backlog : backlog[j] = c}}
    \cup {<<"kept", i>> : i \in {j \in DOMAIN kept : kept[j] = c}}
    \cup {<<"hand", t>> : t \in {u \in Tasks : op[u].hand = c}}
    \cup {<<"value", t>> : t \in {u \in Tasks : op[u].value = c}}
    \cup {<<"taken", d>> : d \in taken \cap {c}}

\* A client's connection is in one place, and in one that somebody still
\* looks at: the value of an accept is one that its waiter may take, or that
\* its thread or its waiter will give back.  "A client's connection is never
\* lost to an accept that was given up, or that a server has taken the
\* listener from."
NoClientIsLost ==
    \A c \in come :
        /\ Cardinality(Places(c)) = 1
        /\ \A t \in Tasks : op[t].value = c /\ op[t].at = "finished" =>
              at[t] = "waits"

\* The server has the listener: its call of serve has returned, and its
\* task is not cancelled.
Has(s) == served = s /\ "cancelled" \notin flag[s] /\ at[s] \in {"starts", "waits", "takes"}

\* While a server has the listener no other accept takes a connection,
\* wherever it stood when the server came: in the call, woken with another's
\* connection, or waiting its turn.
ServerHasItAlone ==
    [][\A t \in Tasks : op[t].value \notin Clients /\ op'[t].value \in Clients =>
          ~\E s \in Servers \ {t} : Has(s)]_vars

\* An accept waits: in the call, or for its turn.
Waits(t) == op[t].at \in {"call", "turn"}

\* An accept whose waiter has gone, or whose listener a server has, comes
\* back, although the system's call hears nothing: some connection reaches
\* it that was made to wake it, or its turn comes.  (What the calls and the
\* clients of a program lead to comes to rest: the properties say how.)
AcceptGivesWay ==
    <>[](unwoken \/ \A t \in Tasks : Waits(t) => at[t] # "ended" /\ ~Foreign(t))

\* No accept goes on waiting while a client waits: not for a connection that
\* is given back while the accept is in the call, nor for one that was kept
\* by an accept before it.
NobodyWaitsInVain ==
    <>[](unwoken \/ \A t \in Tasks : Waits(t) => /\ kept = <<>>
                                                /\ Range(backlog) \cap Clients = {})
=============================================================================
