------------------------------- MODULE IoPool -------------------------------
(***************************************************************************)
(* The elastic thread pool for blocking operations (vm/io_op.rs): the      *)
(* threads' loop (PoolShared::run), IoPool::submit and stop, and the       *)
(* waiter's side of an operation, which it may leave at any moment         *)
(* (IoOp::take, IoOp::detach, Drop for IoOp).                              *)
(*                                                                         *)
(* One step is one critical section of the pool's lock, or one operation   *)
(* on an atomic.  What an operation does is left out, except that it may   *)
(* claim what it cannot put back (Wanted::claim).  A value is there or     *)
(* not: an error of the module is a value.                                 *)
(***************************************************************************)
EXTENDS Integers, Sequences, FiniteSets

CONSTANTS
    Ops,         \* operations, numbered as they are submitted
    Threads,     \* names for the pool's threads: at least one per operation
    UnheardMax,  \* IO_POOL_UNHEARD_MAX
    Pools        \* the pools and programs that are looked at

LeaveKinds == {"RunsOut", "Closes", "Interrupt", "GiveBack", "Both"}

\* One of them: the program's operations, those whose task may be cancelled or
\* run out of time, and their kinds (what becomes of one that is left);
\* PoolShared::max, and whether the system may refuse to start a thread.
Pool == [ops : SUBSET Ops, flagged : SUBSET Ops, leaves : SUBSET LeaveKinds,
         max : Nat \ {0}, spawnFails : BOOLEAN]

ASSUME Finite == IsFiniteSet(Ops) /\ IsFiniteSet(Threads)
ASSUME Bounds == UnheardMax \in Nat \ {0}
ASSUME Kinds == \A p \in Pools : p \in Pool
ASSUME Numbers == Ops \subseteq Nat
ASSUME Names == Cardinality(Threads) >= Cardinality(Ops)

\* Leave::Returns with an interrupt, and with a give_back.
Interrupts(kind) == kind \in {"Interrupt", "Both"}
GivesBack(kind) == kind \in {"GiveBack", "Both"}

VARIABLES
    pool,       \* which of the pools and programs this is
    \* The waiter of an operation.
    waiter,     \* where it stands
    kind,       \* the Leave the operation was submitted with
    flag,       \* the task that waits takes nothing new
    \* What the waiter and the thread share.
    phase,      \* OpState::phase, "None" before the operation is submitted
    cell,       \* whether the value is there
    inFlight,   \* IoOp::in_flight: it counts as external for the scheduler
    taken,      \* OpState::taken
    told,       \* OpState::stopped
    claim,      \* OpState::claim
    giveBack,   \* OpState::unheard still holds the give_back
    \* What was done to the operation.
    gaveBack,   \* how often its give_back was called
    closed,     \* whether its close was called
    \* The pool.
    queue, threads, busy, unheard, started, unavailable, stopped,
    \* The threads.
    at,         \* where a thread stands, "none" when it does not exist
    job,        \* the operations it works on: one, or none
    left        \* PoolShared::run's `left`

opVars == <<waiter, kind, flag, phase, cell, inFlight, taken, told, claim,
            giveBack, gaveBack, closed>>
counts == <<threads, busy, unheard>>
modes == <<started, unavailable, stopped>>
threadVars == <<at, job, left>>
vars == <<pool, opVars, queue, counts, modes, threadVars>>

Init ==
    /\ waiter = [o \in Ops |-> "idle"]
    /\ pool \in Pools
    /\ kind \in [Ops -> LeaveKinds]
    /\ \A o \in Ops : kind[o] \in IF o \in pool.ops THEN pool.leaves ELSE {"RunsOut"}
    /\ flag = [o \in Ops |-> FALSE]
    /\ phase = [o \in Ops |-> "None"]
    /\ cell = [o \in Ops |-> FALSE]
    /\ inFlight = [o \in Ops |-> FALSE]
    /\ taken = [o \in Ops |-> FALSE]
    /\ told = [o \in Ops |-> FALSE]
    /\ claim = [o \in Ops |-> "WAITING"]
    /\ giveBack = [o \in Ops |-> GivesBack(kind[o])]
    /\ gaveBack = [o \in Ops |-> 0]
    /\ closed = [o \in Ops |-> FALSE]
    /\ queue = <<>>
    /\ threads = 0 /\ busy = 0 /\ unheard = 0
    /\ started = FALSE /\ unavailable = FALSE /\ stopped = FALSE
    /\ at = [th \in Threads |-> "none"]
    /\ job = [th \in Threads |-> {}]
    /\ left = [th \in Threads |-> FALSE]

-----------------------------------------------------------------------------
(* IoPool::submit.                                                         *)

\* The operation is the next that the program begins.
Begins(o) ==
    /\ o \in pool.ops /\ waiter[o] = "idle"
    /\ \A p \in pool.ops : p < o => waiter[p] # "idle"

\* The operation waits in the queue for a thread, and is in flight.
Enqueued(o) ==
    /\ waiter' = [waiter EXCEPT ![o] = "waits"]
    /\ phase' = [phase EXCEPT ![o] = "Queued"]
    /\ inFlight' = [inFlight EXCEPT ![o] = TRUE]
    /\ queue' = Append(queue, o)
    /\ UNCHANGED <<kind, flag, cell, taken, told, claim, giveBack, gaveBack, closed>>

\* The operation is over when submit returns: its value is there.
OverAtOnce(o) ==
    /\ waiter' = [waiter EXCEPT ![o] = "waits"]
    /\ phase' = [phase EXCEPT ![o] = "Finished"]
    /\ cell' = [cell EXCEPT ![o] = TRUE]
    /\ UNCHANGED <<kind, flag, inFlight, taken, told, giveBack, gaveBack, closed, queue>>

\* `refuse`: the value is the module's error.
Refused(o) == OverAtOnce(o) /\ UNCHANGED claim

\* The thread that submits does the work.
Inline(o) ==
    /\ OverAtOnce(o)
    /\ \/ UNCHANGED claim
       \/ ~flag[o] /\ claim' = [claim EXCEPT ![o] = "TOOK"]

\* Condvar::notify_one.
NotifyOne ==
    LET asleep == {th \in Threads : at[th] = "asleep"}
    IN IF asleep = {}
       THEN UNCHANGED threadVars
       ELSE /\ \E th \in asleep : at' = [at EXCEPT ![th] = "look"]
            /\ UNCHANGED <<job, left>>

\* Slip: submit does not look at the operations nobody waits for.
TakesUnheard(o) == Begins(o) /\ ~stopped /\ ~unavailable

\* The checks of submit that come before it looks for a thread.
Takes(o) ==
    /\ Begins(o)
    /\ ~stopped
    /\ ~unavailable
    /\ unheard < UnheardMax

HasIdle == Len(queue) < threads - busy

SubmitRefused(o) ==
    /\ Begins(o)
    /\ \/ stopped
       \/ ~unavailable /\ unheard >= UnheardMax
       \/ ~unavailable /\ ~HasIdle /\ threads >= pool.max
    /\ Refused(o)
    /\ UNCHANGED <<counts, modes, threadVars>>

SubmitInline(o) ==
    /\ Begins(o)
    /\ ~stopped
    /\ unavailable
    /\ Inline(o)
    /\ UNCHANGED <<counts, modes, threadVars>>

\* Slip: the thread that waits for work is not notified.
SubmitToIdleSilently(o) ==
    /\ Takes(o)
    /\ HasIdle
    /\ Enqueued(o)
    /\ UNCHANGED <<counts, modes, threadVars>>

\* A thread that waits for work, or is about to look for some, takes it.
SubmitToIdle(o) ==
    /\ Takes(o)
    /\ HasIdle
    /\ Enqueued(o)
    /\ NotifyOne
    /\ UNCHANGED <<counts, modes>>

\* A new thread is started for it.
SubmitStarts(o) ==
    /\ Takes(o)
    /\ ~HasIdle
    /\ threads < pool.max
    /\ Enqueued(o)
    /\ threads' = threads + 1
    /\ started' = TRUE
    /\ LET new == CHOOSE th \in Threads : at[th] = "none"
       IN at' = [at EXCEPT ![new] = "look"]
    /\ UNCHANGED <<busy, unheard, unavailable, stopped, job, left>>

\* No thread could be started: the operation stays queued if the pool has
\* threads, fails if it had one before, and is run here if it never had.
SubmitSpawnFails(o) ==
    /\ pool.spawnFails
    /\ Takes(o)
    /\ ~HasIdle
    /\ threads < pool.max
    /\ \/ threads > 0 /\ Enqueued(o) /\ UNCHANGED unavailable
       \/ threads = 0 /\ started /\ Refused(o) /\ UNCHANGED unavailable
       \/ threads = 0 /\ ~started /\ Inline(o) /\ unavailable' = TRUE
    /\ UNCHANGED <<counts, started, stopped, threadVars>>

\* IoPool::stop.
Stop ==
    /\ ~stopped
    /\ stopped' = TRUE
    /\ queue' = <<>>
    /\ at' = [th \in Threads |-> IF at[th] = "asleep" THEN "look" ELSE at[th]]
    /\ UNCHANGED <<opVars, counts, started, unavailable, job, left>>

-----------------------------------------------------------------------------
(* PoolShared::run.                                                        *)

ThreadEnds(th) ==
    /\ at' = [at EXCEPT ![th] = "none"]
    /\ threads' = threads - 1
    /\ UNCHANGED <<opVars, queue, busy, unheard, job, left>>

Pop(th) ==
    LET o == Head(queue)
    IN /\ queue' = Tail(queue)
       /\ phase' = [phase EXCEPT ![o] = "Running"]
       /\ busy' = busy + 1
       /\ job' = [job EXCEPT ![th] = {o}]
       /\ at' = [at EXCEPT ![th] = "run"]
       /\ UNCHANGED <<waiter, kind, flag, cell, inFlight, taken, told, claim, giveBack,
                      gaveBack, closed, threads, unheard, left>>

\* Slip: a thread whose sleep timed out does not look at the queue again.
LookNotAgain(th) ==
    /\ at[th] \in {"look", "timedout"}
    /\ IF stopped \/ at[th] = "timedout"
       THEN ThreadEnds(th)
       ELSE IF queue # <<>>
       THEN Pop(th)
       ELSE /\ at' = [at EXCEPT ![th] = "asleep"]
            /\ UNCHANGED <<opVars, queue, counts, job, left>>
    /\ UNCHANGED modes

\* The top of the loop, with the lock held: the thread ends, takes an
\* operation, or goes to sleep.  One whose sleep timed out ends if there is
\* still no operation.
Look(th) ==
    /\ at[th] \in {"look", "timedout"}
    /\ IF stopped \/ (at[th] = "timedout" /\ queue = <<>>)
       THEN ThreadEnds(th)
       ELSE IF queue # <<>>
       THEN Pop(th)
       ELSE /\ at' = [at EXCEPT ![th] = "asleep"]
            /\ UNCHANGED <<opVars, queue, counts, job, left>>
    /\ UNCHANGED modes

\* The sleep of IO_POOL_IDLE is over; the lock is not held yet.
TimesOut(th) ==
    /\ at[th] = "asleep"
    /\ at' = [at EXCEPT ![th] = "timedout"]
    /\ UNCHANGED <<opVars, queue, counts, modes, job, left>>

\* Wanted::claim: the flags of the task are read ...
ClaimLook(th, o) ==
    /\ at[th] = "run" /\ o \in job[th]
    /\ GivesBack(kind[o]) /\ claim[o] = "WAITING"
    /\ ~flag[o]
    /\ at' = [at EXCEPT ![th] = "claim"]
    /\ UNCHANGED <<opVars, queue, counts, modes, job, left>>

\* ... and the claim is made, unless the waiter went first.
ClaimDecide(th, o) ==
    /\ at[th] = "claim" /\ o \in job[th]
    /\ claim' = [claim EXCEPT ![o] = IF @ = "WAITING" THEN "TOOK" ELSE @]
    /\ at' = [at EXCEPT ![th] = "run"]
    /\ UNCHANGED <<waiter, kind, flag, phase, cell, inFlight, taken, told, giveBack,
                   gaveBack, closed, queue, counts, modes, job, left>>

\* The operation returns, and the thread says so under the lock.
Returns(th, o) ==
    /\ at[th] = "run" /\ o \in job[th]
    /\ left' = [left EXCEPT ![th] = (phase[o] = "Left")]
    /\ phase' = [phase EXCEPT ![o] = "Finishing"]
    /\ busy' = IF phase[o] # "Left" THEN busy - 1 ELSE busy
    /\ unheard' = IF phase[o] = "Left" /\ ~told[o] THEN unheard - 1 ELSE unheard
    /\ at' = [at EXCEPT ![th] = "complete"]
    /\ UNCHANGED <<waiter, kind, flag, cell, inFlight, taken, told, claim, giveBack,
                   gaveBack, closed, queue, threads, modes, job>>

\* `finish`: the value is handed to the waiter ...
Complete(th, o) ==
    /\ at[th] = "complete" /\ o \in job[th]
    /\ cell' = [cell EXCEPT ![o] = TRUE]
    /\ at' = [at EXCEPT ![th] = "release"]
    /\ UNCHANGED <<waiter, kind, flag, phase, inFlight, taken, told, claim, giveBack,
                   gaveBack, closed, queue, counts, modes, job, left>>

\* ... and then the operation is in flight no longer.
Release(th, o) ==
    /\ at[th] = "release" /\ o \in job[th]
    /\ inFlight' = [inFlight EXCEPT ![o] = FALSE]
    /\ at' = [at EXCEPT ![th] = "finished"]
    /\ UNCHANGED <<waiter, kind, flag, phase, cell, taken, told, claim, giveBack,
                   gaveBack, closed, queue, counts, modes, job, left>>

\* Slip: a waiter that went while the value was handed over is not seen.
FinishesBlindly(th, o) ==
    /\ at[th] = "finished" /\ o \in job[th]
    /\ phase' = [phase EXCEPT ![o] = "Finished"]
    /\ IF left[th]
       THEN at' = [at EXCEPT ![th] = "unheard"] /\ UNCHANGED job
       ELSE at' = [at EXCEPT ![th] = "look"] /\ job' = [job EXCEPT ![th] = {}]
    /\ UNCHANGED <<waiter, kind, flag, cell, inFlight, taken, told, claim, giveBack,
                   gaveBack, closed, queue, counts, modes, left>>

\* The operation is finished.  If its waiter went before, the value is for
\* the thread to give back.
Finishes(th, o) ==
    /\ at[th] = "finished" /\ o \in job[th]
    /\ phase' = [phase EXCEPT ![o] = "Finished"]
    /\ IF left[th] \/ phase[o] = "Gone"
       THEN at' = [at EXCEPT ![th] = "unheard"] /\ UNCHANGED job
       ELSE at' = [at EXCEPT ![th] = "look"] /\ job' = [job EXCEPT ![th] = {}]
    /\ UNCHANGED <<waiter, kind, flag, cell, inFlight, taken, told, claim, giveBack,
                   gaveBack, closed, queue, counts, modes, left>>

\* OpState::unheard: a value that the waiter did not take is given back.
Unheard(o) ==
    /\ giveBack' = [giveBack EXCEPT ![o] = FALSE]
    /\ gaveBack' = IF giveBack[o] /\ ~taken[o] THEN [gaveBack EXCEPT ![o] = @ + 1]
                                               ELSE gaveBack

\* The thread calls it, and ends if it has not counted since it was left.
ThreadUnheard(th, o) ==
    /\ at[th] = "unheard" /\ o \in job[th]
    /\ Unheard(o)
    /\ job' = [job EXCEPT ![th] = {}]
    /\ at' = [at EXCEPT ![th] = IF left[th] THEN "none" ELSE "look"]
    /\ UNCHANGED <<waiter, kind, flag, phase, cell, inFlight, taken, told, claim, closed,
                   queue, counts, modes, left>>

-----------------------------------------------------------------------------
(* The waiter.                                                             *)

\* The task is cancelled, or its time is over.
TakesNothingNew(o) ==
    /\ o \in pool.flagged /\ ~flag[o]
    /\ waiter[o] \in {"idle", "waits"}
    /\ flag' = [flag EXCEPT ![o] = TRUE]
    /\ UNCHANGED <<waiter, kind, phase, cell, inFlight, taken, told, claim, giveBack,
                   gaveBack, closed, queue, counts, modes, threadVars>>

\* IoPool::withheld: an operation of a task that takes nothing new is not
\* handed to the pool (Vm::io_op).
Withhold(o) ==
    /\ Begins(o)
    /\ flag[o]
    /\ waiter' = [waiter EXCEPT ![o] = "withheld"]
    /\ UNCHANGED <<kind, flag, phase, cell, inFlight, taken, told, claim, giveBack,
                   gaveBack, closed, queue, counts, modes, threadVars>>

\* Slip: nothing was started, so nothing is closed.
WithheldLeavesOpen(o) ==
    /\ waiter[o] = "withheld"
    /\ waiter' = [waiter EXCEPT ![o] = "gone"]
    /\ UNCHANGED <<kind, flag, phase, cell, inFlight, taken, told, claim, giveBack,
                   gaveBack, closed, queue, counts, modes, threadVars>>

\* Its waiter goes: a connection it would have worked on is closed.
WithheldLeaves(o) ==
    /\ waiter[o] = "withheld"
    /\ waiter' = [waiter EXCEPT ![o] = "gone"]
    /\ closed' = [closed EXCEPT ![o] = (kind[o] = "Closes")]
    /\ UNCHANGED <<kind, flag, phase, cell, inFlight, taken, told, claim, giveBack,
                   gaveBack, queue, counts, modes, threadVars>>

\* IoOp::take, when the wait has ended with the value.
Take(o) ==
    /\ waiter[o] = "waits"
    /\ cell[o]
    /\ taken' = [taken EXCEPT ![o] = TRUE]
    /\ waiter' = [waiter EXCEPT ![o] = "has"]
    /\ UNCHANGED <<kind, flag, phase, cell, inFlight, told, claim, giveBack, gaveBack,
                   closed, queue, counts, modes, threadVars>>

\* IoOp::detach: the end of a transaction, and work beside the program.
Detach(o) ==
    /\ waiter[o] = "waits"
    /\ kind[o] = "RunsOut"
    /\ waiter' = [waiter EXCEPT ![o] = "detached"]
    /\ inFlight' = [inFlight EXCEPT ![o] = FALSE]
    /\ UNCHANGED <<kind, flag, phase, cell, taken, told, claim, giveBack, gaveBack,
                   closed, queue, counts, modes, threadVars>>

\* Drop for IoOp, whatever ended the wait, until it takes the pool's lock:
\* in flight no longer, no claim from now on, and the close is called.
DropBegins(o) ==
    /\ waiter[o] \in {"waits", "has"}
    /\ waiter' = [waiter EXCEPT ![o] = "leaving"]
    /\ inFlight' = [inFlight EXCEPT ![o] = FALSE]
    /\ claim' = [claim EXCEPT ![o] = IF @ = "WAITING" THEN "GONE" ELSE @]
    /\ closed' = [closed EXCEPT ![o] = (kind[o] = "Closes" /\ ~taken[o])]
    /\ UNCHANGED <<kind, flag, phase, cell, taken, told, giveBack, gaveBack, queue,
                   counts, modes, threadVars>>

\* VecDeque::retain, for an operation that is on the queue once.
Without(s, o) ==
    IF \E i \in DOMAIN s : s[i] = o
    THEN LET at_o == CHOOSE i \in DOMAIN s : s[i] = o
         IN [j \in 1..(Len(s) - 1) |-> IF j < at_o THEN s[j] ELSE s[j + 1]]
    ELSE s

\* Slip: a running operation is left, and its thread still counts.
DropKeepsThread(o) ==
    /\ waiter[o] = "leaving"
    /\ waiter' = [waiter EXCEPT ![o] = IF phase[o] = "Finished" THEN "unheard" ELSE "gone"]
    /\ phase' = [phase EXCEPT ![o] = IF @ = "Finished" THEN @
                                     ELSE IF @ = "Finishing" THEN "Gone" ELSE "Left"]
    /\ queue' = Without(queue, o)
    /\ busy' = IF phase[o] = "Running" THEN busy - 1 ELSE busy
    /\ told' = [told EXCEPT ![o] = phase[o] = "Running"]
    /\ UNCHANGED <<kind, flag, cell, inFlight, taken, claim, giveBack, gaveBack, closed,
                   threads, unheard, modes, threadVars>>

\* Drop for IoOp, with the pool's lock held.  A close may have reached
\* nothing: its operation then runs on like one that cannot be interrupted.
DropDecides(o) ==
    /\ waiter[o] = "leaving"
    /\ waiter' = [waiter EXCEPT ![o] = IF phase[o] = "Finished" THEN "unheard" ELSE "gone"]
    /\ \/ /\ phase[o] = "Queued"
          /\ phase' = [phase EXCEPT ![o] = "Left"]
          /\ queue' = Without(queue, o)
          /\ UNCHANGED <<told, counts>>
       \/ /\ phase[o] = "Running"
          /\ phase' = [phase EXCEPT ![o] = "Left"]
          /\ threads' = threads - 1
          /\ busy' = busy - 1
          /\ \/ /\ Interrupts(kind[o]) \/ closed[o]
                /\ told' = [told EXCEPT ![o] = TRUE]
                /\ UNCHANGED unheard
             \/ /\ ~Interrupts(kind[o])
                /\ unheard' = unheard + 1
                /\ UNCHANGED told
          /\ UNCHANGED queue
       \/ /\ phase[o] = "Finishing"
          /\ phase' = [phase EXCEPT ![o] = "Gone"]
          /\ UNCHANGED <<told, queue, counts>>
       \/ /\ phase[o] = "Finished"
          /\ UNCHANGED <<phase, told, queue, counts>>
    /\ UNCHANGED <<kind, flag, cell, inFlight, taken, claim, giveBack, gaveBack, closed,
                   modes, threadVars>>

\* The value was there when the waiter went: the waiter gives it back.
DropUnheard(o) ==
    /\ waiter[o] = "unheard"
    /\ Unheard(o)
    /\ waiter' = [waiter EXCEPT ![o] = "gone"]
    /\ UNCHANGED <<kind, flag, phase, cell, inFlight, taken, told, claim, closed, queue,
                   counts, modes, threadVars>>

-----------------------------------------------------------------------------
Submit(o) ==
    \/ SubmitRefused(o)
    \/ SubmitInline(o)
    \/ SubmitToIdle(o)
    \/ SubmitStarts(o)
    \/ SubmitSpawnFails(o)

\* What a thread does by itself; an operation may run for ever.
ThreadGoesOn(th) ==
    \/ Look(th)
    \/ \E o \in Ops : \/ Complete(th, o)
                     \/ Release(th, o)
                     \/ Finishes(th, o)
                     \/ ThreadUnheard(th, o)

Operation(th, o) == ClaimLook(th, o) \/ ClaimDecide(th, o) \/ Returns(th, o)

Waiter(o) ==
    \/ TakesNothingNew(o)
    \/ Withhold(o)
    \/ WithheldLeaves(o)
    \/ Take(o)
    \/ Detach(o)
    \/ DropBegins(o)
    \/ DropDecides(o)
    \/ DropUnheard(o)

Next ==
    /\ \/ \E o \in Ops : Submit(o) \/ Waiter(o)
       \/ \E th \in Threads : ThreadGoesOn(th) \/ TimesOut(th)
       \/ \E th \in Threads, o \in Ops : Operation(th, o)
       \/ Stop
    /\ UNCHANGED pool

Spec == Init /\ [][Next]_vars

\* The system runs the pool's threads.  Nothing is assumed of the
\* operations, which may block for ever, or of the waiters.  (A program has
\* finitely many steps: that one of the threads goes on as long as one can is
\* that each does.)
FairSpec == Spec /\ WF_vars((\E th \in Threads : ThreadGoesOn(th)) /\ UNCHANGED pool)

-----------------------------------------------------------------------------
(* Properties.                                                             *)

\* The threads that work on an operation, and those that have worked on one
\* and are not done with it.
Runs(th) == at[th] \in {"run", "claim"}
HasRun(th) == at[th] \in {"complete", "release", "finished", "unheard"}
JobIn(th, phases) == \E o \in job[th] : phase[o] \in phases

\* The threads that run an operation somebody waits for or look for one,
\* those of them that run one, and those that run one that was left and
\* cannot be told to stop.
Counted == {th \in Threads : /\ at[th] # "none"
                             /\ ~(Runs(th) /\ JobIn(th, {"Left"}))
                             /\ ~(left[th] /\ HasRun(th))}
Busy == {th \in Threads : Runs(th) /\ JobIn(th, {"Running"})}
RunsUnheard == {th \in Threads : Runs(th) /\ \E o \in job[th] : phase[o] = "Left" /\ ~told[o]}

\* The three counters are what their comments say, whoever of the waiter
\* and the thread changed them last.
CountsAreExact ==
    /\ threads = Cardinality(Counted)
    /\ busy = Cardinality(Busy)
    /\ unheard = Cardinality(RunsUnheard)

\* However operations are left, the pool's threads and those that are stuck
\* in an operation nobody waits for stay within a bound: submit refuses at
\* IO_POOL_UNHEARD_MAX, and at most the threads that run then can still be
\* left.
ThreadsAreBounded ==
    /\ threads <= pool.max
    /\ threads + unheard < pool.max + UnheardMax

\* The value of an operation with a give_back is given back once if its
\* waiter went without it, and never if the waiter took it: whichever of
\* the thread's finish and the waiter's drop comes first.
ValueReachesOne ==
    \A o \in Ops :
        /\ gaveBack[o] <= 1
        /\ taken[o] => gaveBack[o] = 0
        /\ ( /\ GivesBack(kind[o])
             /\ phase[o] = "Finished"
             /\ waiter[o] = "gone"
             /\ \A th \in Threads : o \notin job[th]
             /\ ~taken[o] ) => gaveBack[o] = 1

\* What a waiter leaves of a connection does not depend on where its
\* operation stood (withheld, queued, running, finished, refused): it is
\* ended unless the waiter took the value.
ClosedUnlessTaken ==
    \A o \in Ops :
        kind[o] = "Closes" /\ waiter[o] = "gone" => closed[o] = ~taken[o]

\* The threads that are awake and will look for work.
WillLook == {th \in Threads : \/ at[th] \in {"look", "timedout"}
                              \/ ~left[th] /\ HasRun(th)}

\* Where threads can be started, every queued operation has a thread that is
\* awake and will look for work: a notify is not lost between a thread that
\* goes to sleep, one whose sleep times out, and a submit that counts on
\* either.
QueuedHasThread == ~pool.spawnFails => Len(queue) <= Cardinality(WillLook)

\* ... and is begun, or its waiter leaves, or the pool is stopped, although
\* every other operation may block for ever.  (In the end, of finitely many
\* steps, nothing is queued.)
QueuedRuns == <>[](pool.spawnFails \/ stopped \/ queue = <<>>)

\* The comment in submit where no thread could be started and there are
\* others: "The threads there are take it when they are free."
ThreadsThereAreTakeIt == queue # <<>> => threads > 0
=============================================================================
