------------------------------- MODULE Parking -------------------------------
(***************************************************************************)
(* Who holds a task while it waits: the token of a wait                    *)
(* (runtime/sync/token.rs), the registry of the parked tasks               *)
(* (runtime/sync/parking.rs) and the drop of a Parked (wait.rs), with the  *)
(* parties that meet at a wait: the worker that parks the task, peers and  *)
(* the timer that end its wait, cancellers (task.cancel, stop_tasks,       *)
(* process.exit) and the shutdown of the runtime.                          *)
(*                                                                         *)
(* Every lock of the code is one atomic step here; whatever the code does  *)
(* with a lock given up in between is two steps.  What a wait waits for    *)
(* is left to module Channels: here a peer is anyone who finds a token on  *)
(* a queue.  Each task has a shard of its own.                             *)
(***************************************************************************)
EXTENDS Integers, FiniteSets

CONSTANTS
    Tasks,       \* the tasks of the program
    Peers,       \* threads that end waits: senders, receivers, the timer
    Cancellers,  \* threads that cancel a task, stop the tasks, or exit
    MaxWaits     \* bound: how many waits a task begins

ASSUME FiniteTasks == IsFiniteSet(Tasks)
ASSUME MaxWaitsIsNat == MaxWaits \in Nat

Waits == 1..MaxWaits

\* State of token.rs; "Unborn": the wait has not begun.
TokenStates ==
    {"Unborn", "Armed", "Parked", "Fired", "Cancelled", "Expired", "Taken"}

IsWaiting(state) == state \in {"Armed", "Parked"}

VARIABLES
    pc,        \* where the thread is that runs the task, or "away"
    wait,      \* how many waits of the task have been on the queues
    token,     \* the state of every token
    entry,     \* the registry: no entry, one not committed, a committed one
    waiting,   \* Parking::waiting
    ready,     \* how often the task is on the run queue
    ended,     \* how often the task was ended or dropped
    wakes,     \* wakes on their way to the task
    flag,      \* the cancel flag of the task
    refusing,  \* `refused`: the tasks are stopped, or the program exited
    look,      \* the token that a peer has begun to claim
    step,      \* where a canceller is
    todo,      \* the tasks a canceller has still to cancel
    hold,      \* the token a canceller has cloned out of the registry
    shutDown,  \* Parking::shut_down
    drained,   \* the shards that the shutdown has emptied
    taken      \* the entries it has taken and not yet dropped

vars == <<pc, wait, token, entry, waiting, ready, ended, wakes, flag, refusing,
          look, step, todo, hold, shutDown, drained, taken>>

workerVars == <<pc, wait>>
taskVars == <<ready, ended>>
cancelVars == <<flag, refusing, step, todo, hold>>
shutVars == <<shutDown, drained, taken>>

Init ==
    /\ pc = [t \in Tasks |-> "away"]
    /\ wait = [t \in Tasks |-> 0]
    /\ token = [t \in Tasks |-> [n \in Waits |-> "Unborn"]]
    /\ entry = [t \in Tasks |-> "none"]
    /\ waiting = 0
    /\ ready = [t \in Tasks |-> 1]
    /\ ended = [t \in Tasks |-> 0]
    /\ wakes = [t \in Tasks |-> 0]
    /\ flag = [t \in Tasks |-> FALSE]
    /\ refusing = FALSE
    /\ look = [p \in Peers |-> {}]
    /\ step = [c \in Cancellers |-> "idle"]
    /\ todo = [c \in Cancellers |-> {}]
    /\ hold = [c \in Cancellers |-> {}]
    /\ shutDown = FALSE
    /\ drained = {}
    /\ taken = {}

-----------------------------------------------------------------------------
(* Token operations, on the state of one token.                            *)

\* Slip: a cancel that does not look whether the wait has ended.
CancelAnyway(state) == "Cancelled"
Cancel(state) == IF IsWaiting(state) THEN "Cancelled" ELSE state
Abandon(state) == IF IsWaiting(state) THEN "Cancelled" ELSE state
Commits(state) == IsWaiting(state)
Take(state) == IF state = "Fired" THEN "Taken" ELSE state

\* Ending the wait of a committed token sends its task a wake.
WakeIfParked(t, state) ==
    wakes' = IF state = "Parked" THEN [wakes EXCEPT ![t] = @ + 1] ELSE wakes

Current(t) == token[t][wait[t]]

SetToken(t, n, state) == token' = [token EXCEPT ![t][n] = state]

\* What `Inner::ready` and `run_once` do with a task that is handed back,
\* its token in `state`: one whose wait fired goes on, any other is ended.
\* (What the run queue does with it is in module Workers.)
HandBack(t, state) ==
    IF state = "Fired"
    THEN ready' = [ready EXCEPT ![t] = @ + 1] /\ UNCHANGED ended
    ELSE ended' = [ended EXCEPT ![t] = @ + 1] /\ UNCHANGED ready

-----------------------------------------------------------------------------
(* The worker.                                                             *)

\* A worker takes the task off the run queue: `run_once` ends one that is
\* stopped, or that was cancelled before it ever ran, and runs the others.
Dispatch(t) ==
    /\ pc[t] = "away" /\ ready[t] > 0
    /\ ready' = [ready EXCEPT ![t] = @ - 1]
    /\ IF refusing \/ (flag[t] /\ wait[t] = 0)
       THEN ended' = [ended EXCEPT ![t] = @ + 1] /\ UNCHANGED pc
       ELSE pc' = [pc EXCEPT ![t] = "running"] /\ UNCHANGED ended
    /\ UNCHANGED <<wait, token, entry, waiting, wakes, look, cancelVars, shutVars>>

\* The task completes or fails.
EndTask(t) ==
    /\ pc[t] = "running"
    /\ pc' = [pc EXCEPT ![t] = "away"]
    /\ ended' = [ended EXCEPT ![t] = @ + 1]
    /\ UNCHANGED <<wait, token, entry, waiting, ready, wakes, look, cancelVars, shutVars>>

\* Parking::park begins: a task that is refused waits for nothing.
ParkBegin(t) ==
    /\ pc[t] = "running"
    /\ IF refusing
       THEN /\ pc' = [pc EXCEPT ![t] = "away"]
            /\ ended' = [ended EXCEPT ![t] = @ + 1]
       ELSE pc' = [pc EXCEPT ![t] = "entering"] /\ UNCHANGED ended
    /\ UNCHANGED <<wait, token, entry, waiting, ready, wakes, look, cancelVars, shutVars>>

\* sync::park finds an arm ready: the task goes on.
ParkReady(t) ==
    /\ pc[t] = "entering"
    /\ pc' = [pc EXCEPT ![t] = "running"]
    /\ UNCHANGED <<wait, token, entry, waiting, taskVars, wakes, look, cancelVars,
                   shutVars>>

\* sync::park finds no arm ready and the cancel flag set, or the task's
\* own time over: Park::Cancelled, Park::Expired.
ParkEnds(t) ==
    /\ pc[t] = "entering"
    /\ pc' = [pc EXCEPT ![t] = "away"]
    /\ ended' = [ended EXCEPT ![t] = @ + 1]
    /\ UNCHANGED <<wait, token, entry, waiting, ready, wakes, look, cancelVars, shutVars>>

\* sync::park finds no arm ready and puts a new token on the queues.
ParkQueues(t) ==
    /\ pc[t] = "entering"
    /\ ~flag[t]
    /\ wait[t] < MaxWaits
    /\ wait' = [wait EXCEPT ![t] = @ + 1]
    /\ SetToken(t, wait[t] + 1, "Armed")
    /\ pc' = [pc EXCEPT ![t] = "queued"]
    /\ UNCHANGED <<entry, waiting, taskVars, wakes, look, cancelVars, shutVars>>

\* Under the shard's lock: the entry goes in, unless the runtime is ending.
ParkInsert(t) ==
    /\ pc[t] = "queued"
    /\ IF shutDown
       THEN /\ SetToken(t, wait[t], Abandon(Current(t)))
            /\ pc' = [pc EXCEPT ![t] = "away"]
            /\ ended' = [ended EXCEPT ![t] = @ + 1]
            /\ UNCHANGED entry
       ELSE /\ entry' = [entry EXCEPT ![t] = "open"]
            /\ pc' = [pc EXCEPT ![t] = "inserted"]
            /\ UNCHANGED <<token, ended>>
    /\ UNCHANGED <<wait, waiting, ready, wakes, look, cancelVars, shutVars>>

\* Slip: the flags are not read again once the entry is there.
ParkNoRecheck(t) ==
    /\ pc[t] = "inserted"
    /\ pc' = [pc EXCEPT ![t] = "checked"]
    /\ UNCHANGED <<wait, token, entry, waiting, taskVars, wakes, look, cancelVars, shutVars>>

\* `refused() || token.is_cancelled()`, and the cancel it leads to.
ParkRecheck(t) ==
    /\ pc[t] = "inserted"
    /\ IF refusing \/ flag[t]
       THEN /\ SetToken(t, wait[t], Cancel(Current(t)))
            /\ WakeIfParked(t, Current(t))
       ELSE UNCHANGED <<token, wakes>>
    /\ pc' = [pc EXCEPT ![t] = "checked"]
    /\ UNCHANGED <<wait, entry, waiting, taskVars, look, cancelVars, shutVars>>

\* Under the shard's lock: the wait is committed and the registry keeps the
\* task.  The shutdown may have taken the entry.
ParkCommit(t) ==
    /\ pc[t] = "checked"
    /\ Commits(Current(t))
    /\ SetToken(t, wait[t], "Parked")
    /\ IF entry[t] = "none"
       THEN UNCHANGED <<entry, waiting>>
       ELSE entry' = [entry EXCEPT ![t] = "committed"] /\ waiting' = waiting + 1
    /\ pc' = [pc EXCEPT ![t] = "away"]
    /\ UNCHANGED <<wait, taskVars, wakes, look, cancelVars, shutVars>>

\* Under the shard's lock: the wait has ended meanwhile, the worker takes
\* the task out again and goes on with it, or ends it.
ParkTakeBack(t) ==
    /\ pc[t] = "checked"
    /\ ~Commits(Current(t))
    /\ IF entry[t] = "none"
       THEN pc' = [pc EXCEPT ![t] = "away"] /\ UNCHANGED <<token, ended>>
       ELSE /\ SetToken(t, wait[t], Take(Current(t)))
            /\ IF Current(t) = "Fired"
               THEN pc' = [pc EXCEPT ![t] = "running"] /\ UNCHANGED ended
               ELSE /\ pc' = [pc EXCEPT ![t] = "away"]
                    /\ ended' = [ended EXCEPT ![t] = @ + 1]
    /\ entry' = [entry EXCEPT ![t] = "none"]
    /\ UNCHANGED <<wait, waiting, ready, wakes, look, cancelVars, shutVars>>

-----------------------------------------------------------------------------
(* Peers and wakes.                                                        *)

\* Token::claim, its first half: the cancel flag is read with no lock of
\* the token held.  (A token that has ended is passed over.)
ClaimLook(p, t, n) ==
    /\ look[p] = {}
    /\ IsWaiting(token[t][n])
    /\ ~flag[t]
    /\ look' = [look EXCEPT ![p] = {<<t, n>>}]
    /\ UNCHANGED <<workerVars, token, entry, waiting, taskVars, wakes, cancelVars,
                   shutVars>>

\* Token::claim, its second half, with Claim::fire or Claim::expire: the
\* token's lock is held over both.
ClaimEnd(p, t, n, how) ==
    /\ <<t, n>> \in look[p]
    /\ look' = [look EXCEPT ![p] = {}]
    /\ IF IsWaiting(token[t][n])
       THEN /\ SetToken(t, n, how)
            /\ WakeIfParked(t, token[t][n])
       ELSE UNCHANGED <<token, wakes>>
    /\ UNCHANGED <<workerVars, entry, waiting, taskVars, cancelVars, shutVars>>

\* Slip: the wake reads the entry and leaves it in the registry.
WakeKeepsEntry(t) ==
    /\ wakes[t] > 0
    /\ wakes' = [wakes EXCEPT ![t] = @ - 1]
    /\ IF entry[t] = "none"
       THEN UNCHANGED <<token, waiting, taskVars>>
       ELSE /\ waiting' = waiting - 1
            /\ SetToken(t, wait[t], Take(Current(t)))
            /\ HandBack(t, Current(t))
    /\ UNCHANGED <<workerVars, entry, look, cancelVars, shutVars>>

\* Parking::wake: the entry comes out, and its task is handed back.
Wake(t) ==
    /\ wakes[t] > 0
    /\ wakes' = [wakes EXCEPT ![t] = @ - 1]
    /\ IF entry[t] = "none"
       THEN UNCHANGED <<token, entry, waiting, taskVars>>
       ELSE /\ entry' = [entry EXCEPT ![t] = "none"]
            /\ waiting' = waiting - 1
            /\ SetToken(t, wait[t], Take(Current(t)))
            /\ HandBack(t, Current(t))
    /\ UNCHANGED <<workerVars, look, cancelVars, shutVars>>

-----------------------------------------------------------------------------
(* Cancellers: Scheduler::cancel, Scheduler::stop_tasks, Scheduler::exit.  *)

\* Scheduler::cancel: the flag first.
CancelFlag(c, t) ==
    /\ step[c] = "idle"
    /\ flag' = [flag EXCEPT ![t] = TRUE]
    /\ todo' = [todo EXCEPT ![c] = {t}]
    /\ step' = [step EXCEPT ![c] = "each"]
    /\ UNCHANGED <<workerVars, token, entry, waiting, taskVars, wakes, refusing,
                   look, hold, shutVars>>

\* stop_tasks and exit: the flag first.
StopFlag(c) ==
    /\ step[c] = "idle"
    /\ ~refusing
    /\ refusing' = TRUE
    /\ step' = [step EXCEPT ![c] = "inspect"]
    /\ UNCHANGED <<workerVars, token, entry, waiting, taskVars, wakes, flag,
                   look, todo, hold, shutVars>>

\* Parking::inspect: every lock of the registry held, the committed entries.
StopInspect(c) ==
    /\ step[c] = "inspect"
    /\ todo' = [todo EXCEPT ![c] = {t \in Tasks : entry[t] = "committed"}]
    /\ step' = [step EXCEPT ![c] = "each"]
    /\ UNCHANGED <<workerVars, token, entry, waiting, taskVars, wakes, flag,
                   refusing, look, hold, shutVars>>

\* Slip: the cancel finds committed entries only, as `inspect` does.
CancelLookupCommitted(c, t) ==
    /\ step[c] = "each"
    /\ t \in todo[c]
    /\ todo' = [todo EXCEPT ![c] = @ \ {t}]
    /\ IF entry[t] # "committed"
       THEN UNCHANGED <<hold, step>>
       ELSE /\ hold' = [hold EXCEPT ![c] = {<<t, wait[t]>>}]
            /\ step' = [step EXCEPT ![c] = "token"]
    /\ UNCHANGED <<workerVars, token, entry, waiting, taskVars, wakes, flag,
                   refusing, look, shutVars>>

\* Parking::cancel: the token is cloned under the shard's lock.
CancelLookup(c, t) ==
    /\ step[c] = "each"
    /\ t \in todo[c]
    /\ todo' = [todo EXCEPT ![c] = @ \ {t}]
    /\ IF entry[t] = "none"
       THEN UNCHANGED <<hold, step>>
       ELSE /\ hold' = [hold EXCEPT ![c] = {<<t, wait[t]>>}]
            /\ step' = [step EXCEPT ![c] = "token"]
    /\ UNCHANGED <<workerVars, token, entry, waiting, taskVars, wakes, flag,
                   refusing, look, shutVars>>

\* Slip: the cancel of a committed wait forgets the wake.
CancelTokenSilently(c, t, n) ==
    /\ step[c] = "token"
    /\ <<t, n>> \in hold[c]
    /\ SetToken(t, n, Cancel(token[t][n]))
    /\ hold' = [hold EXCEPT ![c] = {}]
    /\ step' = [step EXCEPT ![c] = "each"]
    /\ UNCHANGED <<workerVars, entry, waiting, taskVars, wakes, flag, refusing, look,
                   todo, shutVars>>

\* Token::cancel, the shard's lock given up.
CancelToken(c, t, n) ==
    /\ step[c] = "token"
    /\ <<t, n>> \in hold[c]
    /\ SetToken(t, n, Cancel(token[t][n]))
    /\ WakeIfParked(t, token[t][n])
    /\ hold' = [hold EXCEPT ![c] = {}]
    /\ step' = [step EXCEPT ![c] = "each"]
    /\ UNCHANGED <<workerVars, entry, waiting, taskVars, flag, refusing, look,
                   todo, shutVars>>

CancelReturns(c) ==
    /\ step[c] = "each"
    /\ todo[c] = {}
    /\ step' = [step EXCEPT ![c] = "idle"]
    /\ UNCHANGED <<workerVars, token, entry, waiting, taskVars, wakes, flag,
                   refusing, look, todo, hold, shutVars>>

-----------------------------------------------------------------------------
(* Parking::shutdown.                                                      *)

ShutdownFlag ==
    /\ ~shutDown
    /\ shutDown' = TRUE
    /\ UNCHANGED <<workerVars, token, entry, waiting, taskVars, wakes, look,
                   cancelVars, drained, taken>>

\* Under the shard's lock: its entries are taken, committed or not.
ShutdownDrain(t) ==
    /\ shutDown
    /\ t \notin drained
    /\ drained' = drained \cup {t}
    /\ waiting' = IF entry[t] = "committed" THEN waiting - 1 ELSE waiting
    /\ taken' = IF entry[t] = "none" THEN taken ELSE taken \cup {t}
    /\ entry' = [entry EXCEPT ![t] = "none"]
    /\ UNCHANGED <<workerVars, token, taskVars, wakes, look, cancelVars, shutDown>>

\* Every shard is empty: the Parked is dropped, which abandons its token,
\* and Scheduler::shutdown ends the task.
ShutdownDrop(t) ==
    /\ drained = Tasks
    /\ t \in taken
    /\ taken' = taken \ {t}
    /\ SetToken(t, wait[t], Abandon(Current(t)))
    /\ ended' = [ended EXCEPT ![t] = @ + 1]
    /\ UNCHANGED <<workerVars, entry, waiting, ready, wakes, look, cancelVars,
                   shutDown, drained>>

-----------------------------------------------------------------------------
Worker(t) ==
    \/ Dispatch(t) \/ EndTask(t)
    \/ ParkBegin(t) \/ ParkReady(t) \/ ParkEnds(t) \/ ParkQueues(t)
    \/ ParkInsert(t) \/ ParkRecheck(t) \/ ParkCommit(t) \/ ParkTakeBack(t)

Peer(p) ==
    \E t \in Tasks, n \in Waits :
        \/ ClaimLook(p, t, n)
        \/ \E how \in {"Fired", "Expired"} : ClaimEnd(p, t, n, how)

\* What a canceller does once it has begun.
CancelGoesOn(c) ==
    \/ StopInspect(c)
    \/ \E t \in Tasks : CancelLookup(c, t)
    \/ \E t \in Tasks, n \in Waits : CancelToken(c, t, n)
    \/ CancelReturns(c)

Canceller(c) ==
    \/ \E t \in Tasks : CancelFlag(c, t)
    \/ StopFlag(c)
    \/ CancelGoesOn(c)

Shutdown ==
    \/ ShutdownFlag
    \/ \E t \in Tasks : ShutdownDrain(t) \/ ShutdownDrop(t)

Next ==
    \/ \E t \in Tasks : Worker(t) \/ Wake(t)
    \/ \E p \in Peers : Peer(p)
    \/ \E c \in Cancellers : Canceller(c)
    \/ Shutdown

Spec == Init /\ [][Next]_vars

\* A thread that is inside park, a wake or a cancel goes on: the code has no
\* wait in any of them but for short locks.  Nothing makes a peer claim, a
\* task run or end, or anyone cancel.
Fairness ==
    /\ \A t \in Tasks : WF_vars(ParkInsert(t) \/ ParkRecheck(t) \/ ParkCommit(t)
                                  \/ ParkTakeBack(t))
    /\ \A t \in Tasks : WF_vars(Wake(t))
    /\ \A c \in Cancellers : WF_vars(CancelGoesOn(c))

FairSpec == Spec /\ Fairness
-----------------------------------------------------------------------------
(* Properties.                                                             *)

TaskTypes ==
    /\ pc \in [Tasks -> {"away", "running", "entering", "queued", "inserted", "checked"}]
    /\ wait \in [Tasks -> 0..MaxWaits]
    /\ ready \in [Tasks -> Nat]
    /\ ended \in [Tasks -> Nat]
    /\ flag \in [Tasks -> BOOLEAN]

RegistryTypes ==
    /\ token \in [Tasks -> [Waits -> TokenStates]]
    /\ entry \in [Tasks -> {"none", "open", "committed"}]
    /\ waiting \in Int
    /\ wakes \in [Tasks -> Nat]

ActorTypes ==
    /\ look \in [Peers -> SUBSET (Tasks \X (0..MaxWaits))]
    /\ step \in [Cancellers -> {"idle", "inspect", "each", "token"}]
    /\ todo \in [Cancellers -> SUBSET Tasks]
    /\ hold \in [Cancellers -> SUBSET (Tasks \X (0..MaxWaits))]

ShutTypes ==
    /\ refusing \in BOOLEAN
    /\ shutDown \in BOOLEAN
    /\ drained \in SUBSET Tasks
    /\ taken \in SUBSET Tasks

\* Every variable keeps its type.
TypeOK == TaskTypes /\ RegistryTypes /\ ActorTypes /\ ShutTypes

One(condition) == IF condition THEN 1 ELSE 0

Places(t) ==
    One(pc[t] \in {"running", "entering", "queued"}) + One(entry[t] # "none")
      + One(t \in taken) + ready[t] + ended[t]

\* A task is in one place at a time: in the hands of one worker, in the
\* registry, on the run queue once, taken by the shutdown, or ended once.
\* No interleaving of wakes, cancels and the shutdown runs it twice, ends it
\* twice or loses it (parking.rs: "A task leaves in one of three ways").
OnePlace == \A t \in Tasks : Places(t) = 1

\* Parking::waiting counts the committed entries, at every moment at which
\* all shards can be locked (the deadlock check reads it then).
WaitingIsExact == waiting = Cardinality({t \in Tasks : entry[t] = "committed"})

\* A committed wait that has ended has exactly one wake on its way, and one
\* that is open has none: no wake is lost, none comes twice, and Parking::wake
\* never takes back a task whose wait is open (the `unreachable!` of
\* parking.rs finish, and that of Token::take).
WakeIsComing ==
    \A t \in Tasks : entry[t] = "committed" =>
        \/ Current(t) = "Parked" /\ wakes[t] = 0
        \/ Current(t) \in {"Fired", "Cancelled", "Expired"} /\ wakes[t] = 1

\* A wake that finds no entry finds none because the shutdown took it
\* (comment in Parking::wake); one that finds an entry finds it committed.
StrayWakeIsShutdown ==
    \A t \in Tasks : wakes[t] > 0 => entry[t] = "committed" \/ t \in drained

\* A wait that is open belongs to a task that is waiting: once a task goes on
\* or has ended, no token of it is left that a peer could still give a value.
OpenOnlyWhileWaiting ==
    \A t \in Tasks, n \in Waits : IsWaiting(token[t][n]) =>
        /\ n = wait[t]
        /\ \/ pc[t] \in {"queued", "inserted", "checked"}
           \/ entry[t] = "committed"
           \/ t \in taken

\* Somebody is still going to cancel the task's present wait.
CancelPending(t) ==
    \E c \in Cancellers : t \in todo[c] \/ <<t, wait[t]>> \in hold[c]

\* parking.rs park: "with that order a cancel is never lost between the two".
\* When the cancellers of a task are through, the task is not left in a wait
\* that is open.
CancelNotLost ==
    \A t \in Tasks :
        flag[t] /\ entry[t] = "committed" /\ ~CancelPending(t) => Current(t) # "Parked"

\* scheduler.rs stop_tasks: "One that waits is dropped; one that runs ends
\* with the slice it is in; none starts a wait or another slice."  When the
\* one who stops the tasks has cancelled those it found, no task is left in a
\* wait that is open.
StopNotLost ==
    refusing /\ (\A c \in Cancellers : step[c] # "inspect") =>
        \A t \in Tasks :
            entry[t] = "committed" /\ ~CancelPending(t) => Current(t) # "Parked"

\* Parking::shutdown: "A task that parks from now on is handed back at once":
\* a shard that the shutdown has emptied stays empty.
DrainedStaysEmpty == \A t \in drained : entry[t] = "none"

EndStays(old, new) ==
    /\ old \in {"Cancelled", "Expired", "Taken"} => new = old
    /\ old = "Fired" => new \in {"Fired", "Taken"}

\* How a wait ended never changes: what was completed for a task is not
\* undone by a cancel, and what was cancelled is completed by nobody.
TokenEndsOnce ==
    [][\A t \in Tasks, n \in Waits : EndStays(token[t][n], token'[t][n])]_vars

\* A task that is cancelled while it waits comes out of the registry.
CancelEndsWait == \A t \in Tasks : flag[t] ~> entry[t] = "none"
=============================================================================
