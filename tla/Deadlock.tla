------------------------------ MODULE Deadlock ------------------------------
(***************************************************************************)
(* When the program's own thread is told that its tasks can do nothing     *)
(* more (scheduler.rs): the counters of a Group, Inner::check with its     *)
(* look without a lock and its look with the registry held, the verdict of *)
(* a deadlock, Scheduler::settle and Scheduler::stop_tasks.                *)
(*                                                                         *)
(* What the code of a task does is left open: it runs, spawns, starts I/O, *)
(* ends waits of others, waits and ends, in any order.  A wait is on the   *)
(* doing of others ("peer"), has a deadline or a channel that the timer    *)
(* closes ("timed"), or is for an I/O operation.  How a wait is parked and *)
(* woken is module Parking; here its token ends in one step ("fired"), the *)
(* wake takes the entry out in a second ("woken"), and Inner::ready counts *)
(* it in a third.  One owner: every task counts for the program's thread.  *)
(***************************************************************************)
EXTENDS Integers, FiniteSets

CONSTANTS
    Tasks,     \* the spawned tasks, numbered as they are spawned
    Main,      \* the program's own thread
    Ops,       \* the I/O operations, each counted by an External
    Streams,   \* those of them that may hand over to a thread of their own
    TimerThread,  \* the thread that fires the timer
    Nobody,    \* none of these
    Checkers,  \* bound: how many threads are in Inner::check at a time
    MaxBlocks  \* bound: how many waits the program's thread begins

ASSUME Numbered == Tasks \subseteq Nat
ASSUME Sets ==
    /\ Streams \subseteq Ops
    /\ Main \notin Tasks \cup Ops
    /\ Ops \cap Tasks = {}
    /\ IsFiniteSet(Tasks) /\ IsFiniteSet(Ops)
ASSUME Checks == IsFiniteSet(Checkers) /\ Checkers # {} /\ MaxBlocks \in Nat

\* A thread that serves a stream runs and waits as a task does.
Actors == Tasks \cup {Main} \cup Streams

VARIABLES
    at,         \* where an actor stands
    on,         \* what it waits on
    by,         \* who ended its wait and has still to wake it
    result,     \* what the program's thread finds when it wakes
    op,         \* where an operation stands
    held,       \* whether its External exists
    owner,      \* who started it
    live, parking, external, stopped,   \* Group
    main,       \* Inner::main
    deadlock,   \* Inner::deadlock: the waits of the program a verdict is for
    blocks,     \* next_thread_wait: how many waits the program has begun
    phase,      \* what the program's thread does after its code
    told,       \* ThreadPark::resumed of the wait it is in after its code
    todo,       \* the tasks stop_tasks has still to cancel
    timer,      \* what the thread that fires the timer does
    check       \* where each checker stands in Inner::check

groupVars == <<live, parking, external, stopped>>
waitVars == <<at, on, by, result>>
opVars == <<op, held, owner>>
mainVars == <<main, deadlock, blocks, phase, told, todo>>
vars == <<waitVars, opVars, groupVars, mainVars, timer, check>>

Idle == [pc |-> "idle", who |-> Nobody, seen |-> 0, waits |-> "None", id |-> 0]
NoMain == [waits |-> "None", id |-> 0]

Init ==
    /\ at = [a \in Actors |-> IF a = Main THEN "run" ELSE "none"]
    /\ on = [a \in Actors |-> "peer"]
    /\ by = [a \in Actors |-> Nobody]
    /\ result = "Fired"
    /\ op = [o \in Ops |-> "none"]
    /\ held = [o \in Ops |-> FALSE]
    /\ owner = [o \in Ops |-> Nobody]
    /\ live = 1 /\ parking = 0 /\ external = 0 /\ stopped = FALSE
    /\ main = NoMain
    /\ deadlock = {}
    /\ blocks = 0
    /\ phase = "code"
    /\ told = FALSE
    /\ todo = {}
    /\ timer = "idle"
    /\ check = [c \in Checkers |-> Idle]

-----------------------------------------------------------------------------
(* Helpers.                                                                *)

\* The entries of the registry that are committed: a wait that has ended
\* stays there until its wake takes it out.
Committed == {a \in Actors : at[a] \in {"wait", "fired"}}

\* Somebody holds every lock of the registry (Parking::inspect).
Inspecting == \E c \in Checkers : check[c].pc = "external2"

\* What x still has to do before it goes on: a wake, a check.
Busy(x) ==
    \/ \E a \in Actors : by[a] = x
    \/ \E c \in Checkers : check[c].who = x

\* A stream's thread gives up its External before anything else.
\* (Bound: what a task does once stop_tasks has returned is not followed.)
Runs(a) ==
    /\ at[a] = "run" /\ ~Busy(a)
    /\ a \in Streams => op[a] = "serves"
    /\ phase # "over"

\* A task that was stopped gives up what its frames hold, and ends.
Ending(a) == at[a] = "ending" /\ ~Busy(a)

\* An operation is given up with the frame that started it.
HoldsOp(a) == \E o \in Ops : owner[o] = a /\ held[o] /\ op[o] \in {"flying", "done"}

\* A thread enters Inner::check, for `who`, which goes on when it is through.
BeginCheck(who) ==
    /\ \E c \in Checkers : check[c] = Idle
    /\ LET c == CHOOSE k \in Checkers : check[k] = Idle
       IN check' = [check EXCEPT ![c] = [Idle EXCEPT !.pc = "parking", !.who = who]]

\* The wait of a is ended by x, which then wakes it.
Ended(a, x) ==
    /\ at' = [at EXCEPT ![a] = "fired"]
    /\ by' = [by EXCEPT ![a] = x]

-----------------------------------------------------------------------------
(* Tasks and threads.                                                      *)

\* Scheduler::submit.
Spawn(a, t) ==
    /\ Runs(a)
    /\ at[t] = "none" /\ \A u \in Tasks : u < t => at[u] # "none"
    /\ live' = live + 1
    /\ at' = [at EXCEPT ![t] = "run"]
    /\ UNCHANGED <<on, by, result, opVars, parking, external, stopped, mainVars, timer,
                   check>>

\* A task that is stopped with its owner's is refused the wait.
Enters(a) == IF stopped /\ a \in Tasks THEN "refused" ELSE "enter"

\* It runs no further either: run_once ends it, or ready.
GoesOn(a) ==
    CASE a = Main -> "resumed"
      [] a \in Tasks /\ stopped -> "ending"
      [] OTHER -> "run"

\* run_once, block_thread: on its way into a wait.
ParkBegin(a) ==
    /\ Runs(a)
    /\ a = Main => blocks < MaxBlocks
    /\ parking' = parking + 1
    /\ at' = [at EXCEPT ![a] = Enters(a)]
    /\ IF a = Main
       THEN /\ blocks' = blocks + 1
            /\ main' = [waits |-> "Blocked", id |-> blocks + 1]
       ELSE UNCHANGED <<blocks, main>>
    /\ UNCHANGED <<on, by, result, opVars, live, external, stopped, deadlock, phase, told,
                   todo, timer, check>>

\* The wait is over at once, is refused, or ends before it is committed.
ParkOver(a) ==
    /\ at[a] \in {"enter", "refused"} /\ ~Busy(a)
    /\ parking' = parking - 1
    /\ at' = [at EXCEPT ![a] = GoesOn(a)]
    /\ result' = IF a = Main THEN "Fired" ELSE result
    /\ UNCHANGED <<on, by, opVars, live, external, stopped, mainVars, timer, check>>

\* The wait is committed, and a check follows: the worker's own doing, but
\* for the program's thread, which waits when it is through with it.
ParkCommit(a, k) ==
    /\ at[a] = "enter" /\ ~Busy(a) /\ ~Inspecting
    /\ k \in Ops => op[k] = "flying" /\ owner[k] = a
    /\ at' = [at EXCEPT ![a] = "wait"]
    /\ on' = [on EXCEPT ![a] = k]
    /\ BeginCheck(IF a = Main THEN Main ELSE Nobody)
    /\ UNCHANGED <<by, result, opVars, groupVars, mainVars, timer>>

\* A task or a thread that runs ends the wait of another one: it sends,
\* receives, closes, completes a join or cancels.
EndWaitOf(a, b) ==
    /\ Runs(a) \/ (at[a] = "enter" /\ ~Busy(a))
    /\ at[b] = "wait"
    /\ Ended(b, a)
    /\ result' = IF b = Main THEN "Fired" ELSE result
    /\ UNCHANGED <<on, opVars, groupVars, mainVars, timer, check>>

\* Parking::wake takes the entry out ...
Wake(a) ==
    /\ at[a] = "fired" /\ ~Inspecting
    /\ at' = [at EXCEPT ![a] = "woken"]
    /\ UNCHANGED <<on, by, result, opVars, groupVars, mainVars, timer, check>>

\* ... and Inner::ready counts it; whoever woke it goes on.
Ready(a) ==
    /\ at[a] = "woken"
    /\ parking' = parking - 1
    /\ at' = [at EXCEPT ![a] = GoesOn(a)]
    /\ by' = [by EXCEPT ![a] = Nobody]
    /\ on' = [on EXCEPT ![a] = "peer"]
    /\ UNCHANGED <<result, opVars, live, external, stopped, mainVars, timer, check>>

\* Slip: no check follows the end of a task.
EndSilently(a) ==
    /\ a # Main
    /\ Runs(a) \/ Ending(a)
    /\ ~HoldsOp(a)
    /\ at' = [at EXCEPT ![a] = "gone"]
    /\ live' = live - 1
    /\ UNCHANGED <<on, by, result, opVars, parking, external, stopped, mainVars, timer,
                   check>>

\* end_task, and the drop of a Running: it counts no longer, and a check
\* follows.
End(a) ==
    /\ a # Main
    /\ Runs(a) \/ Ending(a)
    /\ ~HoldsOp(a)
    /\ at' = [at EXCEPT ![a] = "gone"]
    /\ live' = live - 1
    /\ BeginCheck(Nobody)
    /\ UNCHANGED <<on, by, result, opVars, parking, external, stopped, mainVars, timer>>

-----------------------------------------------------------------------------
(* I/O operations and the timer.                                           *)

\* Scheduler::external, taken where the operation is submitted; one that
\* hands over is "starting" until its thread has begun.
StartOp(a, o) ==
    /\ Runs(a)
    /\ op[o] = "none"
    /\ \/ op' = [op EXCEPT ![o] = "flying"]
       \/ o \in Streams /\ op' = [op EXCEPT ![o] = "starting"]
    /\ held' = [held EXCEPT ![o] = TRUE]
    /\ owner' = [owner EXCEPT ![o] = a]
    /\ external' = external + 1
    /\ UNCHANGED <<waitVars, live, parking, stopped, mainVars, timer, check>>

\* The operation has its value: whoever waits for it is woken ...
CompleteOp(o) ==
    /\ op[o] = "flying"
    /\ op' = [op EXCEPT ![o] = "done"]
    /\ LET waits == {a \in Actors : at[a] = "wait" /\ on[a] = o}
       IN IF waits = {}
          THEN UNCHANGED <<at, by, result>>
          ELSE \E a \in waits :
                  /\ Ended(a, o)
                  /\ result' = IF a = Main THEN "Fired" ELSE result
    /\ UNCHANGED <<on, held, owner, groupVars, mainVars, timer, check>>

\* Slip: the operation is in flight no longer before its waiter is woken.
ReleaseOpEarly(o) ==
    /\ op[o] = "done"
    /\ op' = [op EXCEPT ![o] = "over"]
    /\ owner' = [owner EXCEPT ![o] = Nobody]
    /\ IF held[o]
       THEN /\ external' = external - 1
            /\ held' = [held EXCEPT ![o] = FALSE]
            /\ BeginCheck(Nobody)
       ELSE UNCHANGED <<external, held, check>>
    /\ UNCHANGED <<waitVars, live, parking, stopped, mainVars, timer>>

\* ... and then it is in flight no longer (Drop for External).
ReleaseOp(o) ==
    /\ op[o] = "done" /\ ~Busy(o)
    /\ op' = [op EXCEPT ![o] = "over"]
    /\ owner' = [owner EXCEPT ![o] = Nobody]
    /\ IF held[o]
       THEN /\ external' = external - 1
            /\ held' = [held EXCEPT ![o] = FALSE]
            /\ BeginCheck(Nobody)
       ELSE UNCHANGED <<external, held, check>>
    /\ UNCHANGED <<waitVars, live, parking, stopped, mainVars, timer>>

\* The waiter of the operation goes (Drop for IoOp).
LeaveOp(a, o) ==
    /\ Runs(a) \/ Ending(a)
    /\ op[o] \in {"flying", "done"}
    /\ owner[o] = a /\ held[o]
    /\ op' = [op EXCEPT ![o] = IF @ = "flying" THEN "over" ELSE @]
    /\ held' = [held EXCEPT ![o] = FALSE]
    /\ owner' = [owner EXCEPT ![o] = Nobody]
    /\ external' = external - 1
    /\ BeginCheck(a)
    /\ UNCHANGED <<waitVars, live, parking, stopped, mainVars, timer>>

\* The thread of a stream begins: Scheduler::enter ...
StreamEnters(s) ==
    /\ op[s] = "starting"
    /\ live' = live + 1
    /\ at' = [at EXCEPT ![s] = "run"]
    /\ op' = [op EXCEPT ![s] = "started"]
    /\ UNCHANGED <<on, by, result, held, owner, parking, external, stopped, mainVars,
                   timer, check>>

\* ... and then the External that stood in for it is dropped.
StreamReleases(s) ==
    /\ op[s] = "started"
    /\ op' = [op EXCEPT ![s] = "serves"]
    /\ held' = [held EXCEPT ![s] = FALSE]
    /\ owner' = [owner EXCEPT ![s] = Nobody]
    /\ external' = external - 1
    /\ BeginCheck(s)
    /\ UNCHANGED <<waitVars, live, parking, stopped, mainVars, timer>>

\* Timer::fire_due ends a wait whose time has come, or closes its channel ...
TimerFires(a) ==
    /\ timer = "idle"
    /\ at[a] = "wait" /\ on[a] = "timed"
    /\ Ended(a, TimerThread)
    /\ result' = IF a = Main THEN "Fired" ELSE result
    /\ timer' = "fires"
    /\ UNCHANGED <<on, opVars, groupVars, mainVars, check>>

\* ... and then check_all.
TimerChecks ==
    /\ timer = "fires" /\ ~Busy(TimerThread)
    /\ timer' = "idle"
    /\ BeginCheck(Nobody)
    /\ UNCHANGED <<waitVars, opVars, groupVars, mainVars>>

-----------------------------------------------------------------------------
(* The program's own thread.                                               *)

\* The end of block_thread: what it waits for is dropped, and the verdict
\* taken; a wait that was cancelled fails with it.
MainTakes ==
    /\ at[Main] = "resumed" /\ ~Busy(Main)
    /\ main' = NoMain
    /\ deadlock' = {}
    /\ at' = [at EXCEPT ![Main] = IF result = "Fired" THEN "run" ELSE "failed"]
    /\ UNCHANGED <<on, by, result, opVars, groupVars, blocks, phase, told, todo, timer,
                   check>>

\* Its code returns, or has failed: it counts no longer (Drop for Running).
MainReturns ==
    /\ Runs(Main) \/ at[Main] = "failed"
    /\ ~HoldsOp(Main)
    /\ phase' = IF at[Main] = "run" THEN "settle" ELSE "stop"
    /\ at' = [at EXCEPT ![Main] = "gone"]
    /\ live' = live - 1
    /\ BeginCheck(Main)
    /\ UNCHANGED <<on, by, result, opVars, parking, external, stopped, main, deadlock,
                   blocks, told, todo, timer>>

\* wait_for: what it waits for is set, a check follows, and it sleeps.
WaitsFor(waits, next) ==
    /\ main' = [waits |-> waits, id |-> 0]
    /\ told' = FALSE
    /\ phase' = next
    /\ BeginCheck(Main)

\* Scheduler::settle.
Settle ==
    /\ phase = "settle" /\ ~Busy(Main)
    /\ WaitsFor("Settling", "settling")
    /\ UNCHANGED <<waitVars, opVars, groupVars, deadlock, blocks, todo, timer>>

\* It was told that its tasks have come to a stop.
Settled ==
    /\ phase = "settling" /\ ~Busy(Main) /\ told
    /\ main' = NoMain
    /\ phase' = "stop"
    /\ UNCHANGED <<waitVars, opVars, groupVars, deadlock, blocks, told, todo, timer, check>>

\* Scheduler::stop_tasks: the flag first ...
StopFlag ==
    /\ phase = "stop" /\ ~Busy(Main)
    /\ stopped' = TRUE
    /\ phase' = "drop"
    /\ UNCHANGED <<waitVars, opVars, live, parking, external, main, deadlock, blocks, told,
                   todo, timer, check>>

\* ... then the tasks that wait, as inspect shows them ...
StopInspect ==
    /\ phase = "drop" /\ ~Inspecting
    /\ todo' = Committed
    /\ phase' = "cancel"
    /\ UNCHANGED <<waitVars, opVars, groupVars, main, deadlock, blocks, told, timer, check>>

\* ... are cancelled ...
StopCancel(a) ==
    /\ phase = "cancel" /\ ~Busy(Main)
    /\ a \in todo
    /\ todo' = todo \ {a}
    /\ IF at[a] = "wait" THEN Ended(a, Main) ELSE UNCHANGED <<at, by>>
    /\ UNCHANGED <<on, result, opVars, groupVars, main, deadlock, blocks, phase, told,
                   timer, check>>

\* ... and it waits until all have ended.
StopWait ==
    /\ phase = "cancel" /\ ~Busy(Main) /\ todo = {}
    /\ WaitsFor("Stopping", "stopping")
    /\ UNCHANGED <<waitVars, opVars, groupVars, deadlock, blocks, todo, timer>>

Stopped ==
    /\ phase = "stopping" /\ ~Busy(Main) /\ told
    /\ main' = NoMain
    /\ stopped' = FALSE
    /\ phase' = "over"
    /\ UNCHANGED <<waitVars, opVars, live, parking, external, deadlock, blocks, told, todo,
                   timer, check>>

-----------------------------------------------------------------------------
(* Inner::check, one step for each thing it reads.                         *)

To(c, pc) == check' = [check EXCEPT ![c].pc = pc]
Return(c) == check' = [check EXCEPT ![c] = Idle]

\* The first look without a lock: the two counters, one after the other.
CheckParking(c) ==
    /\ check[c].pc = "parking"
    /\ check' = [check EXCEPT ![c].pc = "live", ![c].seen = parking]
    /\ UNCHANGED <<waitVars, opVars, groupVars, mainVars, timer>>

CheckLive(c) ==
    /\ check[c].pc = "live"
    /\ IF check[c].seen < live
       THEN Return(c)
       ELSE check' = [check EXCEPT ![c].pc = "main", ![c].seen = 0]
    /\ UNCHANGED <<waitVars, opVars, groupVars, mainVars, timer>>

\* What the program's thread waits for.
CheckMain(c) ==
    /\ check[c].pc = "main"
    /\ IF main = NoMain
       THEN Return(c)
       ELSE check' = [check EXCEPT ![c].pc = IF main.waits = "Stopping" THEN "tell"
                                             ELSE "external",
                                   ![c].waits = main.waits, ![c].id = main.id]
    /\ UNCHANGED <<waitVars, opVars, groupVars, mainVars, timer>>

CheckExternal(c) ==
    /\ check[c].pc = "external"
    /\ IF external > 0 THEN Return(c) ELSE To(c, "inspect")
    /\ UNCHANGED <<waitVars, opVars, groupVars, mainVars, timer>>

\* Slip: a wait that the timer will end is not told from the others.
CheckInspectUntimed(c) ==
    /\ check[c].pc = "inspect" /\ ~Inspecting
    /\ IF Cardinality(Committed) = live THEN To(c, "external2") ELSE Return(c)
    /\ UNCHANGED <<waitVars, opVars, groupVars, mainVars, timer>>

\* The exact look, with the registry held: who waits, against `live` ...
CheckInspect(c) ==
    /\ check[c].pc = "inspect" /\ ~Inspecting
    /\ IF Cardinality(Committed) = live /\ \A a \in Committed : on[a] # "timed"
       THEN To(c, "external2")
       ELSE Return(c)
    /\ UNCHANGED <<waitVars, opVars, groupVars, mainVars, timer>>

\* ... and then `external`.  There is a verdict if the wait that the check
\* knows of is among those that are parked.
CheckStopped(c) ==
    /\ check[c].pc = "external2"
    /\ IF external > 0
       THEN Return(c)
       ELSE CASE check[c].waits = "Settling" -> To(c, "tell")
              [] check[c].waits = "Blocked" ->
                   IF Main \in Committed /\ blocks = check[c].id
                   THEN To(c, "store")
                   ELSE Return(c)
    /\ UNCHANGED <<waitVars, opVars, groupVars, mainVars, timer>>

\* Slip: tasks that are stopped are not waited for.
CheckTellBlindly(c) ==
    /\ check[c].pc = "tell"
    /\ Return(c)
    /\ told' = (told \/ main.waits = check[c].waits)
    /\ UNCHANGED <<waitVars, opVars, groupVars, main, deadlock, blocks, phase, todo, timer>>

\* The thread that settles or stops is told.  The ThreadPark is that of the
\* wait the check has read: if that is over, nobody hears it.
CheckTell(c) ==
    /\ check[c].pc = "tell"
    /\ Return(c)
    /\ told' = (told \/ ( /\ main.waits = check[c].waits
                          /\ check[c].waits = "Stopping" => live = 0 ))
    /\ UNCHANGED <<waitVars, opVars, groupVars, main, deadlock, blocks, phase, todo, timer>>

\* The verdict is stored ...
CheckStore(c) ==
    /\ check[c].pc = "store"
    /\ deadlock' = {check[c].id}
    /\ To(c, "cancel")
    /\ UNCHANGED <<waitVars, opVars, groupVars, main, blocks, phase, told, todo, timer>>

\* ... and the wait it is for is cancelled.
CheckCancel(c) ==
    /\ check[c].pc = "cancel" /\ ~Inspecting
    /\ IF at[Main] = "wait" /\ blocks = check[c].id
       THEN Ended(Main, c) /\ result' = "Cancelled"
       ELSE UNCHANGED <<at, by, result>>
    /\ To(c, "return")
    /\ UNCHANGED <<on, opVars, groupVars, mainVars, timer>>

CheckReturns(c) ==
    /\ check[c].pc = "return" /\ ~Busy(c)
    /\ Return(c)
    /\ UNCHANGED <<waitVars, opVars, groupVars, mainVars, timer>>

-----------------------------------------------------------------------------
Acts(a) ==
    \/ \E t \in Tasks : Spawn(a, t)
    \/ ParkBegin(a)
    \/ \E b \in Actors : EndWaitOf(a, b)
    \/ End(a)
    \/ \E o \in Ops : StartOp(a, o) \/ LeaveOp(a, o)

\* Whoever is in park comes out of it.
Parks(a) == ParkOver(a) \/ \E k \in {"peer", "timed"} \cup Ops : ParkCommit(a, k)

Wakes(a) == Wake(a) \/ Ready(a)

Operation(o) ==
    \/ CompleteOp(o)
    \/ ReleaseOp(o)
    \/ StreamEnters(o)
    \/ StreamReleases(o)

MainGoesOn ==
    \/ MainTakes
    \/ Settle \/ Settled
    \/ StopFlag \/ StopInspect \/ (\E a \in Actors : StopCancel(a)) \/ StopWait \/ Stopped

Check(c) ==
    \/ CheckParking(c) \/ CheckLive(c) \/ CheckMain(c) \/ CheckExternal(c)
    \/ CheckInspect(c) \/ CheckStopped(c) \/ CheckTell(c)
    \/ CheckStore(c) \/ CheckCancel(c) \/ CheckReturns(c)

Next ==
    \/ \E a \in Actors : Acts(a) \/ Parks(a) \/ Wakes(a) \/ TimerFires(a)
    \/ \E o \in Ops : Operation(o)
    \/ TimerChecks
    \/ MainReturns \/ MainGoesOn
    \/ \E c \in Checkers : Check(c)

Spec == Init /\ [][Next]_vars

-----------------------------------------------------------------------------
(* Properties.                                                             *)

Streaming == \E s \in Streams : op[s] \in {"starting", "started", "serves"}

\* Nothing can happen to a any more: it has ended, or waits on the doing of
\* others.
Rests(a) == at[a] \in {"none", "gone"} \/ (at[a] = "wait" /\ on[a] = "peer")

\* The tasks, but for those in `others`, have come to a stop, and nothing
\* outside them can end a wait.
Stuck(others) ==
    /\ \A a \in Actors \ others : Rests(a)
    /\ \A o \in Ops : ~held[o]

\* The program's thread is told of a deadlock.
Raises == at[Main] = "failed" \/ (at[Main] \in {"fired", "woken", "resumed"}
                                     /\ result = "Cancelled")

\* postgres.rs: "the program is neither ended nor deadlocked while a row may
\* still come".  A wait of the program fails as a deadlock only if every
\* task has ended or waits on the others, and no I/O, deadline or thread of a
\* stream is there to end a wait.
DeadlockIsReal == Raises => Stuck({Main})

\* The same of a program without streams: no interleaving of parks, wakes,
\* ends and I/O with the steps of Inner::check makes it give a verdict that
\* is not so.
VerdictIsTrue == ~Streaming /\ Raises => Stuck({Main})

\* Scheduler::settle returns only when none of the tasks can go on: what is
\* dropped then could never be woken.
SettledIsTrue ==
    ~Streaming /\ told /\ main.waits = "Settling" => Stuck({Main})

\* Scheduler::stop_tasks: "Returns when all have ended."
StopMeansEnded ==
    ~Streaming /\ told /\ main.waits = "Stopping" =>
        \A t \in Tasks : at[t] \in {"none", "gone"}

\* Inner::check: "The stop stays once it is there, so the last of those
\* events sees it."  While a program whose tasks have come to a stop has not
\* been told, some thread is still in the check that will tell it.
StuckIsSeen ==
    /\ Stuck({})
    /\ at[Main] = "wait" \/ (main.waits = "Settling" /\ ~told)
    => \E c \in Checkers : check[c].pc # "idle"
=============================================================================
