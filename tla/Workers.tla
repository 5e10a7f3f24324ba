------------------------------ MODULE Workers ------------------------------
(***************************************************************************)
(* The threads that run tasks and fire the timer (scheduler.rs): the run   *)
(* queue with its workers, which look on for a moment before they sleep    *)
(* (enqueue, next_task, pop, run_slice), the thread that fires the timer   *)
(* or, where none can be started, the workers without work and the thread  *)
(* that waits (timer_armed, fire_timers, sleep_thread), and the end of it  *)
(* all (shutdown, fail, exit).                                             *)
(*                                                                         *)
(* A task is a name that is somewhere: on the queue, with a worker, or     *)
(* away (not spawned yet, parked, ended).  What is under the queue's lock  *)
(* is split where it reads an atomic that others change without the lock.  *)
(* The code has `queue` as a parking_lot Mutex and Condvar: no spurious    *)
(* wakes.  The build without threads (has_workers never set) is left out.  *)
(***************************************************************************)
EXTENDS Integers, Sequences, FiniteSets, FiniteSetsExt

CONSTANTS
    WorkerSet, \* the workers
    Others,    \* the threads that spawn and wake tasks, and end the runtime
    Waiters,   \* the threads that wait: the program's own, and others
    Tasks,
    Times,     \* the moments that deadlines are armed for
    Systems,   \* the systems and programs that are looked at
    LOOKING,   \* next_task: how many workers look on at a time
    TimerLoop, \* the thread that fires the timer
    Nobody

\* One of them: what there is of these (there is no worker before the first
\* task is submitted), more_than_one_core, how often in a row a task goes on
\* (run_slice, GO_ON), and a task that is looked at.
System == [workers : SUBSET WorkerSet, others : SUBSET Others, waiters : SUBSET Waiters,
           tasks : SUBSET Tasks, times : SUBSET Times, cores : BOOLEAN, goOn : Nat \ {0},
           watched : Tasks]

ASSUME Bounds ==
    /\ LOOKING \in Nat /\ \A s \in Systems : s \in System
    /\ Times \subseteq Nat \ {0} /\ IsFiniteSet(Times) /\ IsFiniteSet(WorkerSet)
    /\ WorkerSet \cap Others = {} /\ Nobody \notin WorkerSet \cup Others
    /\ Waiters \cap WorkerSet = {} /\ TimerLoop \notin WorkerSet \cup Waiters

Threads == WorkerSet \cup Others

VARIABLES
    queue, queued,  \* RunQueue::tasks and the atomic that shows its length
    sleepers,       \* RunQueue::sleepers
    spinning,       \* how many workers look on
    lock,           \* who holds the lock of the queue
    waiting,        \* the workers in `work.wait` whom nobody has notified
    system,         \* which of the systems this is
    pc,             \* where a thread stands
    has,            \* the task it has in hand
    slices,         \* run_slice: the slices since its task left the queue
    shutdown, broken, exited,
    armed,          \* the deadlines in the timer
    timerThread,    \* TimerThread
    timerAt,        \* where the thread that fires the timer stands
    watch,          \* until when a thread that sleeps does so
    waiterAt,       \* where a thread stands in sleep_thread
    poked, resumed  \* ThreadPark

queueVars == <<queue, queued, sleepers, spinning, lock, waiting>>
threadVars == <<pc, has, slices>>
timerVars == <<armed, timerThread, timerAt>>
waiterVars == <<waiterAt, poked, resumed>>
endVars == <<shutdown, broken, exited>>
vars == <<queueVars, threadVars, timerVars, waiterVars, endVars, watch, system>>

\* Who sleeps with a deadline in mind.
Sleepers == WorkerSet \cup Waiters \cup {TimerLoop}

Forever == 1 + (IF Times = {} THEN 0 ELSE Max(Times))

Init ==
    /\ queue = <<>> /\ queued = 0
    /\ sleepers = 0 /\ spinning = 0
    /\ lock = Nobody
    /\ waiting = {}
    /\ system \in Systems
    /\ pc = [x \in Threads |-> CASE x \in system.workers -> "look"
                          [] x \in system.others -> "idle"
                          [] OTHER -> "gone"]
    /\ has = [x \in Threads |-> Nobody]
    /\ slices = [w \in WorkerSet |-> 0]
    /\ shutdown = FALSE /\ broken = FALSE /\ exited = FALSE
    /\ armed = {}
    /\ timerThread = "Idle"
    /\ timerAt = "none"
    /\ watch = [x \in Sleepers |-> Forever]
    /\ waiterAt = [m \in Waiters |-> "out"]
    /\ poked = [m \in Waiters |-> FALSE] /\ resumed = [m \in Waiters |-> FALSE]

-----------------------------------------------------------------------------
(* Helpers.                                                                *)

Ending == shutdown \/ broken

To(x, where) == pc' = [pc EXCEPT ![x] = where]

Away(t) == t \notin Range(queue) /\ \A x \in Threads : has[x] # t

\* Condvar::notify_one on `work`.
NotifyOne ==
    IF waiting = {}
    THEN waiting' = waiting
    ELSE \E w \in waiting : waiting' = waiting \ {w}

\* Timer::real_wait: until the next deadline.
NextDeadline == IF armed = {} THEN Forever ELSE Min(armed)

\* How long a thread that fires the timer where no other does may sleep.
StandIn == IF timerThread = "Unavailable" THEN NextDeadline ELSE Forever

\* Timer::fire_due, when the clock reads `now`.  What it wakes is queued by
\* the Others.
FireDue == \E now \in {0} \cup system.times : armed' = {t \in armed : t > now}

\* poke_threads: the threads that wait are told to look again.
PokeThreads == poked' = [m \in Waiters |-> poked[m] \/ waiterAt[m] # "out"]

-----------------------------------------------------------------------------
(* The run queue.                                                          *)

\* Inner::enqueue, with the lock: a task that comes after the shutdown never
\* runs.
Push(x, t) ==
    /\ lock = Nobody
    /\ IF shutdown
       THEN /\ To(x, IF x \in WorkerSet THEN "look" ELSE "idle")
            /\ UNCHANGED <<queue, queued, lock>>
       ELSE /\ queue' = Append(queue, t)
            /\ queued' = Len(queue')
            /\ lock' = x
            /\ To(x, "notify")
    /\ has' = [has EXCEPT ![x] = Nobody]
    /\ UNCHANGED <<sleepers, spinning, waiting, slices, timerVars, waiterVars, endVars, watch,
                   system>>

\* A worker that looks on finds the task; otherwise one that sleeps is woken.
PushNotifies(x) ==
    /\ pc[x] = "notify"
    /\ IF sleepers > 0 /\ spinning = 0 THEN NotifyOne ELSE UNCHANGED waiting
    /\ lock' = Nobody
    /\ To(x, IF x \in WorkerSet THEN "look" ELSE "idle")
    /\ UNCHANGED <<queue, queued, sleepers, spinning, has, slices, timerVars, waiterVars,
                   endVars, watch, system>>

\* Scheduler::submit, and Inner::ready of a task that was woken.  Tasks that
\* are away differ in nothing.
Enqueue(o) ==
    /\ pc[o] = "idle"
    /\ \E t \in system.tasks : Away(t)
    /\ Push(o, CHOOSE t \in system.tasks : Away(t))

\* Inner::pop, with the lock.
Pop(w) ==
    /\ has' = [has EXCEPT ![w] = Head(queue)]
    /\ queue' = Tail(queue)
    /\ queued' = Len(queue')
    /\ lock' = w
    /\ slices' = [slices EXCEPT ![w] = 0]
    /\ To(w, "popped")

\* If more are left and nobody is on the way to them, a worker is woken.
PopNotifies(w) ==
    /\ pc[w] = "popped"
    /\ IF queue # <<>> /\ sleepers > 0 /\ spinning = 0 THEN NotifyOne ELSE UNCHANGED waiting
    /\ lock' = Nobody
    /\ To(w, "run")
    /\ UNCHANGED <<queue, queued, sleepers, spinning, has, slices, timerVars, waiterVars,
                   endVars, watch, system>>

\* next_task: the first look.
Look(w) ==
    /\ pc[w] = "look" /\ lock = Nobody
    /\ \/ /\ Ending
          /\ To(w, "gone")
          /\ UNCHANGED <<queueVars, has, slices>>
       \/ /\ ~Ending /\ queue # <<>>
          /\ Pop(w)
          /\ UNCHANGED <<sleepers, spinning, waiting>>
       \/ /\ ~Ending /\ queue = <<>>
          /\ To(w, IF system.cores THEN "count" ELSE "again")
          /\ UNCHANGED <<queueVars, has, slices>>
    /\ UNCHANGED <<timerVars, waiterVars, endVars, watch, system>>

\* It counts itself as looking, and looks on if not too many do.
Count(w) ==
    /\ pc[w] = "count"
    /\ spinning' = spinning + 1
    /\ To(w, IF spinning < LOOKING THEN "spin" ELSE "uncount")
    /\ UNCHANGED <<queue, queued, sleepers, lock, waiting, has, slices, timerVars, waiterVars,
                   endVars, watch, system>>

\* It sees a task, or the end, or its time is over.
Spin(w) ==
    /\ pc[w] = "spin"
    /\ \/ (queued > 0 \/ Ending) /\ To(w, "found")
       \/ To(w, "uncount")
    /\ UNCHANGED <<queueVars, has, slices, timerVars, waiterVars, endVars, watch, system>>

Uncount(w) ==
    /\ pc[w] \in {"found", "uncount"}
    /\ spinning' = spinning - 1
    /\ To(w, IF pc[w] = "found" THEN "look" ELSE "again")
    /\ UNCHANGED <<queue, queued, sleepers, lock, waiting, has, slices, timerVars, waiterVars,
                   endVars, watch, system>>

\* Slip: it does not look at the queue again.
AgainBlindly(w) ==
    /\ pc[w] = "again" /\ lock = Nobody
    /\ lock' = w
    /\ watch' = [watch EXCEPT ![w] = StandIn]
    /\ To(w, "doze")
    /\ UNCHANGED <<queue, queued, sleepers, spinning, waiting, has, slices, timerVars,
                   waiterVars, endVars, system>>

\* With the lock again: "who queued it saw this worker looking and woke
\* nobody."  Without a task it finds out how long to sleep: as a stand-in for
\* the timer, until the next deadline ...
Again(w) ==
    /\ pc[w] = "again" /\ lock = Nobody
    /\ \/ /\ Ending
          /\ To(w, "gone")
          /\ UNCHANGED <<queueVars, has, slices, watch>>
       \/ /\ ~Ending /\ queue # <<>>
          /\ Pop(w)
          /\ UNCHANGED <<sleepers, spinning, waiting, watch>>
       \/ /\ ~Ending /\ queue = <<>>
          /\ lock' = w
          /\ watch' = [watch EXCEPT ![w] = StandIn]
          /\ To(w, "doze")
          /\ UNCHANGED <<queue, queued, sleepers, spinning, waiting, has, slices>>
    /\ UNCHANGED <<timerVars, waiterVars, endVars, system>>

\* ... and sleeps; the wait gives up the lock.
Sleeps(w) ==
    /\ pc[w] = "doze"
    /\ sleepers' = sleepers + 1
    /\ waiting' = waiting \cup {w}
    /\ lock' = Nobody
    /\ To(w, "sleep")
    /\ UNCHANGED <<queue, queued, spinning, has, slices, timerVars, waiterVars, endVars,
                   watch, system>>

\* It was notified, or its time is over.
WakesUp(w) ==
    /\ pc[w] = "sleep" /\ lock = Nobody
    /\ w \notin waiting \/ watch[w] # Forever
    /\ sleepers' = sleepers - 1
    /\ waiting' = waiting \ {w}
    /\ watch' = [watch EXCEPT ![w] = Forever]
    /\ To(w, IF watch[w] # Forever THEN "fire" ELSE "look")
    /\ UNCHANGED <<queue, queued, spinning, lock, has, slices, timerVars, waiterVars, endVars,
                   system>>

Fires(w) ==
    /\ pc[w] = "fire"
    /\ FireDue
    /\ To(w, "look")
    /\ UNCHANGED <<queueVars, has, slices, timerThread, timerAt, waiterVars, endVars, watch,
                   system>>

-----------------------------------------------------------------------------
(* run_slice: a task with a worker.                                        *)

\* The task ends or is parked.
SliceEnds(w) ==
    /\ pc[w] = "run"
    /\ has' = [has EXCEPT ![w] = Nobody]
    /\ To(w, "look")
    /\ UNCHANGED <<queueVars, slices, timerVars, waiterVars, endVars, watch, system>>

\* Its wait was over at once.
SliceGoesOn(w) ==
    /\ pc[w] = "run"
    /\ To(w, "over")
    /\ UNCHANGED <<queueVars, has, slices, timerVars, waiterVars, endVars, watch, system>>

\* keeps_on: whether the task goes on where it is.
KeepsOn(w, yes, no) ==
    /\ To(w, IF Ending \/ queued # 0 THEN no ELSE yes)
    /\ IF timerThread = "Unavailable" /\ ~Ending THEN FireDue ELSE armed' = armed

\* Its slice ran out.
SliceYields(w) ==
    /\ pc[w] = "run"
    /\ KeepsOn(w, "over", "enqueue")
    /\ UNCHANGED <<queueVars, has, slices, timerThread, timerAt, waiterVars, endVars, watch,
                   system>>

\* Slip: a task whose waits are over at once goes on for ever.
SliceOverAlways(w) ==
    /\ pc[w] = "over"
    /\ To(w, "run")
    /\ UNCHANGED <<queueVars, has, slices, timerVars, waiterVars, endVars, watch, system>>

\* One slice more, unless it is the GO_ON-th and others wait.
SliceOver(w) ==
    /\ pc[w] = "over"
    /\ IF slices[w] + 1 < system.goOn
       THEN /\ slices' = [slices EXCEPT ![w] = @ + 1]
            /\ To(w, "run")
            /\ UNCHANGED armed
       ELSE /\ KeepsOn(w, "run", "enqueue")
            /\ UNCHANGED slices
    /\ UNCHANGED <<queueVars, has, timerThread, timerAt, waiterVars, endVars, watch, system>>

GivesBack(w) == pc[w] = "enqueue" /\ Push(w, has[w])

\* A panic escapes the slice (Inner::fail): the worker ends.
Panics(w) ==
    /\ pc[w] = "run"
    /\ broken' = TRUE
    /\ has' = [has EXCEPT ![w] = Nobody]
    /\ To(w, IF broken THEN "gone" ELSE "poke")
    /\ UNCHANGED <<queueVars, slices, timerVars, waiterVars, shutdown, exited, watch, system>>

\* poke_threads, after Inner::fail or Scheduler::exit.
Poke(x) ==
    /\ pc[x] = "poke"
    /\ PokeThreads
    /\ To(x, IF x \in WorkerSet THEN "gone" ELSE "idle")
    /\ UNCHANGED <<queueVars, has, slices, timerVars, waiterAt, resumed, endVars, watch, system>>

-----------------------------------------------------------------------------
(* The timer.                                                              *)

\* A wait with a deadline is parked ...
Arm(o, t) ==
    /\ pc[o] = "idle"
    /\ t \notin armed
    /\ armed' = armed \cup {t}
    /\ To(o, "arm")
    /\ UNCHANGED <<queueVars, has, slices, timerThread, timerAt, waiterVars, endVars, watch,
                   system>>

NotifyTimer == timerAt' = IF timerAt = "sleep" THEN "notified" ELSE timerAt

\* ... and timer_armed starts the thread that fires the timer, or tells it to
\* look again ...
TimerArmed(o) ==
    /\ pc[o] = "arm"
    /\ \/ /\ timerThread = "Idle"
          /\ timerThread' = "Running" /\ timerAt' = "look" /\ To(o, "idle")
       \/ /\ timerThread = "Idle"
          /\ timerThread' = "Unavailable" /\ To(o, "armPoke")
          /\ UNCHANGED timerAt
       \/ /\ timerThread = "Running"
          /\ NotifyTimer /\ To(o, "idle")
          /\ UNCHANGED timerThread
       \/ /\ timerThread = "Unavailable"
          /\ To(o, "armPoke")
          /\ UNCHANGED <<timerThread, timerAt>>
    /\ UNCHANGED <<queueVars, has, slices, armed, waiterVars, endVars, watch, system>>

\* ... or tells all who stand in for it: the threads that wait,
ArmPokes(o) ==
    /\ pc[o] = "armPoke"
    /\ PokeThreads
    /\ To(o, "armLock")
    /\ UNCHANGED <<queueVars, has, slices, timerVars, waiterAt, resumed, endVars, watch, system>>

\* Slip: a worker on its way to sleep is not waited for.
ArmLocksNot(o) ==
    /\ pc[o] = "armLock"
    /\ To(o, "armAll")
    /\ UNCHANGED <<queueVars, has, slices, timerVars, waiterVars, endVars, watch, system>>

\* and the workers, once none of them is on its way to sleep.
ArmLocks(o) ==
    /\ pc[o] = "armLock" /\ lock = Nobody
    /\ To(o, "armAll")
    /\ UNCHANGED <<queueVars, has, slices, timerVars, waiterVars, endVars, watch, system>>

\* Slip: one worker is told.
NotifyAllOne(o) ==
    /\ pc[o] \in {"armAll", "endAll"}
    /\ NotifyOne
    /\ To(o, IF pc[o] = "armAll" THEN "idle" ELSE "endParked")
    /\ UNCHANGED <<queue, queued, sleepers, spinning, lock, has, slices, timerVars,
                   waiterVars, endVars, watch, system>>

\* Every worker that sleeps is told.
NotifyAll(o) ==
    /\ pc[o] \in {"armAll", "endAll"}
    /\ waiting' = {}
    /\ To(o, IF pc[o] = "armAll" THEN "idle" ELSE "endParked")
    /\ UNCHANGED <<queue, queued, sleepers, spinning, lock, has, slices, timerVars, waiterVars,
                   endVars, watch, system>>

\* A wait ends before its deadline.
Disarm(t) ==
    /\ t \in armed
    /\ armed' = armed \ {t}
    /\ UNCHANGED <<queueVars, threadVars, timerThread, timerAt, waiterVars, endVars, watch, system>>

\* fire_timers, with the timer's lock.
TimerLooks ==
    /\ timerAt = "look"
    /\ \/ Ending /\ timerAt' = "gone" /\ UNCHANGED watch
       \/ ~Ending /\ armed # {} /\ timerAt' = "fire" /\ UNCHANGED watch
       \/ /\ ~Ending
          /\ timerAt' = "sleep"
          /\ watch' = [watch EXCEPT ![TimerLoop] = NextDeadline]
    /\ UNCHANGED <<queueVars, threadVars, armed, timerThread, waiterVars, endVars, system>>

TimerWakes ==
    /\ timerAt = "notified" \/ (timerAt = "sleep" /\ watch[TimerLoop] # Forever)
    /\ timerAt' = "fire"
    /\ watch' = [watch EXCEPT ![TimerLoop] = Forever]
    /\ UNCHANGED <<queueVars, threadVars, armed, timerThread, waiterVars, endVars, system>>

TimerFires ==
    /\ timerAt = "fire"
    /\ IF Ending
       THEN timerAt' = "gone" /\ UNCHANGED armed
       ELSE timerAt' = "look" /\ FireDue
    /\ UNCHANGED <<queueVars, threadVars, timerThread, waiterVars, endVars, watch, system>>

-----------------------------------------------------------------------------
(* A thread that waits: sleep_thread.                                      *)

\* It is among the threads that are told.
WaitBegins(m) ==
    /\ m \in system.waiters /\ waiterAt[m] = "out"
    /\ waiterAt' = [waiterAt EXCEPT ![m] = "look"]
    /\ UNCHANGED <<queueVars, threadVars, timerVars, poked, resumed, endVars, watch, system>>

\* Its wait is over.
WaitOver(m) ==
    /\ waiterAt' = [waiterAt EXCEPT ![m] = "out"]
    /\ poked' = [poked EXCEPT ![m] = FALSE]
    /\ resumed' = [resumed EXCEPT ![m] = FALSE]
    /\ watch' = [watch EXCEPT ![m] = Forever]

\* What there is to do for it; the timer, where no other thread fires it.
WaitLooks(m) ==
    /\ waiterAt[m] = "look"
    /\ \/ (broken \/ exited) /\ WaitOver(m)
       \/ /\ ~broken /\ ~exited
          /\ waiterAt' = [waiterAt EXCEPT ![m] = "doze"]
          /\ watch' = [watch EXCEPT ![m] = StandIn]
          /\ UNCHANGED <<poked, resumed>>
    /\ UNCHANGED <<queueVars, threadVars, timerVars, endVars, system>>

\* A deadline is due: it is fired at once.
WaitFiresDue(m) ==
    /\ waiterAt[m] = "look" /\ ~broken /\ ~exited
    /\ timerThread = "Unavailable" /\ armed # {}
    /\ FireDue /\ armed' # armed
    /\ IF resumed[m] THEN WaitOver(m) ELSE UNCHANGED <<waiterVars, watch>>
    /\ UNCHANGED <<queueVars, threadVars, timerThread, timerAt, endVars, system>>

\* Slip: it sleeps although it was told since it looked.
WaitSleepsAnyway(m) ==
    /\ waiterAt[m] = "doze" /\ ~resumed[m]
    /\ waiterAt' = [waiterAt EXCEPT ![m] = "sleep"]
    /\ poked' = [poked EXCEPT ![m] = FALSE]
    /\ UNCHANGED <<queueVars, threadVars, timerVars, resumed, endVars, watch, system>>

\* With the lock of its ThreadPark: it sleeps, unless it was told since.
WaitSleeps(m) ==
    /\ waiterAt[m] = "doze" /\ ~resumed[m] /\ ~poked[m]
    /\ waiterAt' = [waiterAt EXCEPT ![m] = "sleep"]
    /\ UNCHANGED <<queueVars, threadVars, timerVars, poked, resumed, endVars, watch, system>>

WaitWakes(m) ==
    /\ \/ waiterAt[m] \in {"doze", "sleep"} /\ (resumed[m] \/ poked[m])
       \/ waiterAt[m] = "sleep" /\ watch[m] # Forever
    /\ IF resumed[m]
       THEN WaitOver(m)
       ELSE /\ waiterAt' = [waiterAt EXCEPT ![m] = IF watch[m] # Forever THEN "fire" ELSE "look"]
            /\ poked' = [poked EXCEPT ![m] = FALSE]
            /\ watch' = [watch EXCEPT ![m] = Forever]
            /\ UNCHANGED resumed
    /\ UNCHANGED <<queueVars, threadVars, timerVars, endVars, system>>

WaitFires(m) ==
    /\ waiterAt[m] = "fire"
    /\ FireDue
    /\ waiterAt' = [waiterAt EXCEPT ![m] = "look"]
    /\ UNCHANGED <<queueVars, threadVars, timerThread, timerAt, poked, resumed, endVars,
                   watch, system>>

\* Inner::ready of a thread, whoever ended its wait.
Resume(m) ==
    /\ waiterAt[m] # "out" /\ ~resumed[m]
    /\ resumed' = [resumed EXCEPT ![m] = TRUE]
    /\ UNCHANGED <<queueVars, threadVars, timerVars, waiterAt, poked, endVars, watch, system>>

-----------------------------------------------------------------------------
(* The end.                                                                *)

\* Scheduler::exit: the code first, then the threads that wait are told.
Exit(o) ==
    /\ pc[o] = "idle" /\ ~exited
    /\ exited' = TRUE
    /\ To(o, "poke")
    /\ UNCHANGED <<queueVars, has, slices, timerVars, waiterVars, shutdown, broken, watch, system>>

\* Scheduler::shutdown: the flag, the timer's thread,
Shutdown(o) ==
    /\ pc[o] = "idle" /\ ~shutdown
    /\ shutdown' = TRUE
    /\ To(o, "endTimer")
    /\ UNCHANGED <<queueVars, has, slices, timerVars, waiterVars, broken, exited, watch, system>>

EndTimer(o) ==
    /\ pc[o] = "endTimer"
    /\ NotifyTimer
    /\ To(o, "endQueue")
    /\ UNCHANGED <<queueVars, has, slices, armed, timerThread, waiterVars, endVars, watch, system>>

\* the tasks on the queue,
EndQueue(o) ==
    /\ pc[o] = "endQueue" /\ lock = Nobody
    /\ queue' = <<>>
    /\ To(o, "endQueued")
    /\ UNCHANGED <<queued, sleepers, spinning, lock, waiting, has, slices, timerVars,
                   waiterVars, endVars, watch, system>>

EndQueued(o) ==
    /\ pc[o] = "endQueued"
    /\ queued' = 0
    /\ To(o, "endAll")
    /\ UNCHANGED <<queue, sleepers, spinning, lock, waiting, has, slices, timerVars,
                   waiterVars, endVars, watch, system>>

\* the workers (NotifyAll), and those that are parked.
EndParked(o) ==
    /\ pc[o] = "endParked"
    /\ resumed' = [m \in Waiters |-> waiterAt[m] # "out"]
    /\ To(o, "idle")
    /\ UNCHANGED <<queueVars, has, slices, timerVars, waiterAt, poked, endVars, watch, system>>

-----------------------------------------------------------------------------
Worker(w) ==
    \/ Look(w) \/ Count(w) \/ Spin(w) \/ Uncount(w) \/ Again(w)
    \/ Sleeps(w) \/ WakesUp(w) \/ Fires(w)
    \/ PushNotifies(w) \/ PopNotifies(w) \/ Poke(w)
    \/ SliceEnds(w) \/ SliceGoesOn(w) \/ SliceYields(w) \/ SliceOver(w) \/ GivesBack(w)

\* A thread goes on with what it has begun.
Continues(o) ==
    \/ PushNotifies(o) \/ Poke(o)
    \/ TimerArmed(o) \/ ArmPokes(o) \/ ArmLocks(o) \/ NotifyAll(o)
    \/ EndTimer(o) \/ EndQueue(o) \/ EndQueued(o) \/ EndParked(o)

Begins(o) ==
    \/ Enqueue(o)
    \/ \E t \in system.times : Arm(o, t)
    \/ Exit(o)
    \/ Shutdown(o)

TimerGoesOn == TimerLooks \/ TimerWakes \/ TimerFires

Waits(m) ==
    \/ WaitLooks(m) \/ WaitFiresDue(m) \/ WaitSleeps(m) \/ WaitWakes(m) \/ WaitFires(m)

Next ==
    \/ \E w \in WorkerSet : Worker(w) \/ Panics(w)
    \/ \E o \in Others : Begins(o) \/ Continues(o)
    \/ \E t \in system.times : Disarm(t)
    \/ TimerGoesOn
    \/ \E m \in Waiters : WaitBegins(m) \/ Waits(m) \/ Resume(m)

Spec == Init /\ [][Next]_vars

\* The system runs every thread that can go on, a slice is bounded in steps,
\* and no thread keeps a lock.
FairSpec ==
    /\ Spec
    /\ \A w \in WorkerSet : WF_vars(Worker(w))
    /\ \A o \in Others : WF_vars(Continues(o))
    /\ WF_vars(TimerGoesOn)
    /\ \A m \in Waiters : WF_vars(Waits(m))

-----------------------------------------------------------------------------
(* Properties.                                                             *)

\* A worker that is going to look at the queue with its lock.
OnItsWay(w) ==
    \/ pc[w] \in {"look", "count", "spin", "found", "uncount", "again", "fire", "popped"}
    \/ pc[w] = "sleep" /\ w \notin waiting

\* Inner::enqueue, Inner::pop: nobody is woken where a worker looks on.
\* Still no task is left on the queue beside a worker that sleeps, with
\* nobody on the way to it.
QueuedIsSeen ==
    queue # <<>> /\ waiting # {} /\ ~Ending =>
        \/ \E w \in WorkerSet : OnItsWay(w)
        \/ \E x \in Threads : pc[x] = "notify"

\* timer_armed: whoever fires the timer and sleeps was told of every deadline,
\* or is about to be: it does not sleep past the next one, whether the timer
\* has a thread of its own or the workers and the thread that waits stand in.
DeadlineIsWatched ==
    \/ \E o \in Others : pc[o] \in {"arm", "armPoke", "armLock", "armAll"}
    \/ Ending
    \/ CASE timerThread = "Idle" -> armed = {}
         [] timerThread = "Running" ->
              timerAt = "sleep" => watch[TimerLoop] <= NextDeadline
         [] timerThread = "Unavailable" ->
              /\ \A w \in waiting : watch[w] <= NextDeadline
              /\ \A m \in Waiters :
                    waiterAt[m] = "sleep" /\ ~poked[m] /\ ~resumed[m] =>
                        watch[m] <= NextDeadline

\* Inner::fail, Scheduler::exit: no thread that waits sleeps through the end
\* of the program, whenever it went to sleep.
EndIsHeard ==
    \A m \in Waiters :
        (broken \/ exited) /\ waiterAt[m] = "sleep" =>
            poked[m] \/ resumed[m] \/ \E x \in Threads : pc[x] = "poke"

\* A task on the queue is run, although tasks that never end keep their
\* workers as long as no other is queued.
QueuedRuns ==
    LET t == system.watched IN t \in Range(queue) ~> (t \notin Range(queue) \/ Ending)

\* Scheduler::shutdown: every worker ends when its slice returns.
WorkersEnd == shutdown ~> \A w \in WorkerSet : pc[w] = "gone"
=============================================================================
