# Silt's concurrent runtime in TLA+

Silt is a language with tasks, typed channels, `channel.select`, deadlines,
cancellation, streams and an HTTP server. Its programs run on a runtime of
worker threads, a thread for the timer, and a pool of threads for blocking I/O
(`src/src/scheduler.rs`, `src/src/runtime/`, `src/src/vm/io_op.rs`). That
runtime, and what is built on it (`src/src/builtins/`), is what these modules
specify: it is the part of the repository where a mistake needs several threads
in an unlucky order, and where a test seldom gets them.

## The parts of the system

| Part | Source | Module |
|---|---|---|
| tokens of waits, registry of parked tasks, cancel, shutdown of the registry | `runtime/sync/token.rs`, `parking.rs`, `scheduler.rs` | `Parking` |
| channels, cells, the arms of a wait | `runtime/sync/channel.rs`, `cell.rs`, `wait.rs` | `Channels`, implements `Fifo` |
| run queue, workers, timer thread, waiting threads, shutdown | `scheduler.rs`, `runtime/sync/timer.rs` | `Workers` |
| deadlock check, `settle`, `stop_tasks` | `scheduler.rs`, `builtins/postgres.rs` | `Deadlock` |
| I/O pool | `vm/io_op.rs` | `IoPool` |
| results of tasks, join, cancel, deadlines, the record of failures | `runtime/handle.rs`, `scheduler.rs`, `builtins/concurrency.rs` | `Handles` |
| stages and sinks of streams | `builtins/stream.rs` | `StreamLogic` (what each does), `Streams` (how they run), `StreamPromise` (what they mean) |
| TCP listener, accept, serve | `runtime/handle.rs`, `builtins/tcp.rs`, `http.rs` | `Listener` |
| connections of an HTTP server | `builtins/http.rs`, `runtime/handle.rs` | `HttpServer` |
| front end, VM, formatter, language server, packages, command line | the rest | not modelled |

How they interact. A task runs in slices on a worker (`Workers`). An operation
that cannot be done at once becomes a wait: `park` puts a token on the queue of
every arm of the wait (`Channels`), and the scheduler puts the task in the
registry and commits (`Parking`). Whoever ends the wait (a peer under a
channel's lock, the timer, a canceller) changes the token and, if the task was
committed, sends one wake, which takes the task out of the registry and puts it
on the run queue. Blocking I/O is done by a thread of the pool (`IoPool`), whose
result is a cell that the task waits for. Whenever a task parks or ends, or an
operation stops counting as external, a check decides whether the program can
still go on (`Deadlock`). When a task ends, its handle tells whoever joins it,
and a failure nobody joined is reported at the end (`Handles`). A stage of a
stream is a task between two channels (`Streams`); an accept is an operation of
the pool on a listener that several tasks use (`Listener`), and a connection of
a server is a task that reads and writes through the pool (`HttpServer`).

The modules meet at these interfaces, and each leaves the other side open: in
`Parking` a peer may end any wait that is on a queue, in `Deadlock` the code of
a task may do anything, in `Channels` a token is open or has its outcome, in
`Handles` a wait begins in one step and ends in another, in `Listener` and
`HttpServer` a thread of the pool is there when it is needed. `Listener` hands
over connections and `HttpServer` begins with them; they are checked apart.

In all modules a step is what the code does under one lock, or one atomic
operation; where the code gives a lock up and takes it again, there are two
steps. Values are names: a value sent on a channel is the pair of the task and
the number of its operation, a request is what the server has to know of it.
Memory ordering is not modelled: the atomics are taken as sequentially
consistent, and the code uses `SeqCst` where two of them are read together.

## Modules

**Parking.** `token` is `State` of `token.rs` for each wait of each task;
`entry` the registry, `waiting` its counter, `wakes` the wakes under way,
`flag`/`refusing` the cancel flag and the stop. `ParkBegin` ... `ParkTakeBack` are the
steps of `Parking::park`, `Wake` is `Parking::wake`, `ClaimLook`/`ClaimEnd` are
`Token::claim` (the flag is read before the lock is taken), `Cancel*` are
`Scheduler::cancel`, `exit` and `drop_waiting`, `Shutdown*` empties one
shard after the other.

**Channels.** `ch` is `State` of `channel.rs` with its three queues, `arms` and
`out` the wait of a task and how it ended, `cellq` and `done` the cells. The
operators `SendOn`, `ReceiveOn`, `Demand`, `CloseOn` are the methods of `State`.
`Park` is `park`: it tries the arms in rotation and then queues the task on all
of them, in one step, since all the channels are locked together; the cells
follow in `Enqueue`. `Resume` and `Leave` are the drop of a `Parked`, one
channel at a time, with the lazy removal of `Channel::forget` (`SHORT` is a
constant). **Fifo** is the promise: at most one value enters and one leaves a
channel in a step, in order, and a task is told so in that very step.

**Workers.** `queue`, `queued`, `sleepers`, `spinning`, `lock` are the fields of
the run queue; `pc` follows `next_task`, `enqueue`, `pop`, `run_slice`,
`timer_armed` and `shutdown`. `waiting` is the set of threads asleep on the
condition variable; a notify that finds it empty is lost, as in the code.
`Others` are threads that enqueue, arm deadlines, fail, exit or shut down;
`Waiters` those in `wait_thread`. `system` says which of these there are, so
that one run looks at several small systems. There is no worker before the
first task is submitted.

**Deadlock.** `live`, `parking`, `external` are the atomics of a group,
changed at the moments at which the code changes them; `check[c]` is a thread
inside `Inner::check`, which reads them one at a time. `phase` follows the
program's thread through its code, `settle` and `stop_tasks`.

**IoPool.** `phase`, `claim` and `waiter` are the two sides of an operation
(the thread's and the waiter's), `threads`, `busy`, `unheard` the counters of
the pool. `kind` is what leaving an operation does to it (`Leave` in the code).

**Handles.** `handle` is a `TaskHandle` (its cell, its mark `unjoined`, its
deadline, who counts its late steps), `run` where the task is, `record` and
`report` are `FailedTasks` and the report at the program's end. A `fail` looks,
marks and completes in three steps, a cancel flags, completes, joins and ends
the wait in four, and the others come between any two. `handled` is not in the
code: the failures that a join received or a cancel dismissed.

**Streams.** A pipeline (`shape`) is a sequence of pipes, the last of which is
the sink; `pipe` is the frame of a stage with the memory of its closure, `ch`
the channel it feeds, `task` its handle. `StreamLogic` has the closure of each
function of the module; `Streams` takes, emits, calls, reads, drains, closes,
fails and abandons around it; `StreamPromise` gives for each pipeline the lists
that it stands for, computed without steps.

**Listener.** `backlog` is what the system has, `kept` and `current` are
`Accepting`, `served` who serves. `op[t]` is the accept of task t on the pool.
The connection an accept is woken with is the mark `WAKE`: the code knows it by
its address in a list. The wait before a retry is part of the state "starts".
That `set_nonblocking(false)` fails is left out. Two things the code does here
are not promised otherwise and hold no property: a server that is cancelled
inside `take_kept` may still take what is kept, and a connection that is given
back by `keep` goes behind those that were kept later.

**HttpServer.** `conn[c]` is the task of a connection, its operation on the
pool, what stands on the connection, and its client; `handlers`, `bodies`,
`conns` are `Server`. Left out: chunked bodies, which take room chunk by chunk,
an operation that is withheld, a submit that fails in `Serve::connection`, and
TLS. Whether a reader has begun when its deadline passes is open.

Operators whose comment begins with "Slip:" are small mistakes in the code's
place. Each property is checked against one: with the slip it must fail.

## Runs

| Run | Instance | States | Shows |
|---|---|---|---|
| `parking` | 1 task, 2 waits, 2 peers, 2 cancellers | 32k | `OnePlace`, `WakeIsComing`, `CancelNotLost`, `TokenEndsOnce`, `CancelEndsWait` |
| `channels` | 3 tasks, a channel of capacity 1 and one of 0, a cell | 332k | `KeepsThePromise` (refines `Fifo`), `NobodyWaitsInVain`, `EveryArmIsQueued` |
| `workers` | 2 workers, 3 tasks, 1 other thread; three systems with deadlines, with and without a worker | 341k | `QueuedIsSeen`, `DeadlineIsWatched`, `EndIsHeard`, `QueuedRuns`, `WorkersEnd` |
| `deadlock` | 1 task, the program's thread, 1 operation, 2 checks | 961k | `VerdictIsTrue`, `SettledIsTrue`, `StopMeansEnded`, `StuckIsSeen` |
| `io_pool` | 2 operations of every kind on 2 threads; 3 on 3 threads of which 1 is counted | 301k | `ValueReachesOne`, `ClosedUnlessTaken`, `CountsAreExact`, `ThreadsAreBounded`, `QueuedHasThread`, `QueuedRuns` |
| `handles` | a task with a deadline, its function, a failed task, room for 1 failure | 115k | `NoFailureIsUntold`, `ValueInTimeIsGiven`, `ShowsNoHandledFailure`, `LateTasksEnd` |
| `streams` | 14 pipelines of every source, stage and sink | 122k | `SinkEndsAsToldBy`, `TakesWhatIsAsked`, `NoFailureIsLeft`, `ConnectionFollowsItsSource`, `EveryPipeEnds` |
| `listener` | 2 accepts, or an accept and a server, or 2 servers; 2 clients | 196k | `NoClientIsLost`, `ServerHasItAlone`, `AcceptGivesWay`, `NobodyWaitsInVain` |
| `http` | 1 slow connection with 2 requests; 2 connections at the bounds | 256k | `WireReads`, `CalledAreAnswered`, `CountsAreExact`, `NoneOutlivesTheServer` |
| `parking_stop`, `deadlock_stream`, `channels_feeder` | | | the code against its own comments, below |

Bounds. Two waits per task are needed for a late wake or a stale token to meet
the next wait, and two cancellers and peers for two of them to race; a third
brings no new pair. Three tasks on two workers are the fewest with which a
queued task can starve (`QueuedRuns` is about one of them, `watched`: they are
alike). A buffer of one place is full and empty in turn, and an
unbuffered channel hands values over; two arms are the fewest with which a wait
can end elsewhere. `SHORT = 1` makes queues of two waiters long, so both ways of
leaving a queue occur. Two checks at a time are needed for the one to overtake
the other. Two operations on two threads let each leave while the other is
anywhere; three on one counted thread let the pool reach its limit. A record of
one failure is full and has room in turn; a deadline of 1 passes before, in and
after the function's. `AHEAD = 2` and lists of up to four elements let a stage
be ahead, full and empty; `MaxInt = 5` lets a range reach the last number. Two
tasks on a listener at a time make every pair of an accept and a server, and
one failure of the system is enough to be met at every call. One handler and
one byte of bodies at a time are bounds that two connections meet. In
`Channels` the cancel, the close and the drain are limited to one task and one
channel (`MayCancel`, `MayClose`, `MayDrain`). Deadlock checking is off: every
model may come to rest when its bounded operations are used up, and what must
not rest is stated as a property.

Fairness. Each is what the threads of a running system give: code without a
wait goes on. `Parking`: a worker inside `park`, a wake that was sent and a
canceller that has begun go on; peers, tasks and new cancels need not.
`IoPool`: a thread of the pool goes on while it is in the pool's own code; the
operation it runs may block for ever. `Workers`: every thread goes on, a slice
is bounded in steps, and the locks are held for a few instructions; nothing is
assumed about new tasks. `Handles`: a worker runs a task that is ready, the
timer fires, a cancel that has begun goes on, and time passes; nothing joins
or cancels by itself. `Streams`: some stage that can go on does, functions of
the program return and operations end; the program closes the channels it said
it would, and cancels nothing. `Listener` and `HttpServer`: threads and tasks
go on, and a call of the system returns when something is there for it; nothing
is assumed of clients, handlers or deadlines. Where a model has one condition
for all its threads, every behaviour of it has finitely many of their steps, so
that one condition says as much as one for each.

## Where the code and its comments differ

- `parking_stop`: `stop_tasks` and `exit` look for committed entries only. A
  task that has read that nobody stops it, and has not committed yet, is missed,
  and stays parked (`StopNotLost`; comment at `scheduler.rs:751`).
- `deadlock_stream`: the exact look of `check` reads `live` and then
  `external`; the thread of a `postgres.stream` enters the first and gives up
  the second in between, and a running program is told of a deadlock
  (`DeadlockIsReal`; comments at `scheduler.rs:2185`, `postgres.rs:1248`).
- `channels_feeder`: a select that receives from and sends on the same channel
  takes back its own request, and waits beside the feeder that waits to be
  asked (`ReaderIsHeard`; comments at `channel.rs:108-112`).

Two more are stated in the modules and were looked at with TLC, without a run
of their own:

- An operation left queued "for the threads there are" may have no thread left:
  threads can no longer be started, an operation is queued beside the only
  thread, the waiter of what that thread runs goes, and the thread ends without
  looking (`ThreadsThereAreTakeIt` of `IoPool`; comment at `vm/io_op.rs:627`).
- A failure that was counted because the record was full stays counted when a
  join or a cancel handles it later (`CountedWereNeverHandled` of `Handles`;
  `docs/concurrency.md:575-579` and `docs/stdlib/channel-task.md:358-362` say
  that a cancel dismisses it).

One is an exception inside a property: an interim response may follow the 503
of a task that is stopped with its server while it reads a body (`WireReads`).

## What is proved

All theorems are for any sets of tasks, threads, operations and so on, and any
bounds, under the named assumptions of their module. Every invariant that is
proved was first checked with TLC on the instance of its run.

**Parking** (`ParkingProofs`; assumptions `FiniteTasks`, `MaxWaitsIsNat`):
`TypeOK`, `OnePlace`, `WakeIsComing` with `StrayWakeIsShutdown`,
`CancelNotLost`, `OpenOnlyWhileWaiting`, `DrainedStaysEmpty`, `WaitingIsExact`,
and the action property `TokenEndsOnce`. None of the invariants is inductive alone: that a
wake comes exactly once rests on the token of a committed entry being `Parked`
or ended, which rests on who may change a token at which point of `park`, and
on the tokens of earlier waits having ended. `Inv` is the conjunction of
`EntryInv` (where the worker is while its entry is in the registry),
`ShutInv`, `PastInv` (earlier tokens have ended, later ones do not exist),
`PresentInv` (what the present token may be), `WakeInv`, `ActorInv` (peers and
cancellers hold only tokens that exist), `CancelInv` (`CancelNotLost` from the
second look at the flag on) and `OnePlace`. The parts about types, places,
peers and cancellers are proved action by action, those about tokens, wakes and
cancels from a table of what a step may do to one task (`TaskStep`).

**IoPool** (`IoPoolProofs`; assumptions `Finite`, `Bounds`, `Kinds`, `Numbers`,
`Names`): `ValueReachesOne`, `ClosedUnlessTaken`,
`ThreadsAreBounded`, `CountsAreExact`, `QueuedHasThread`. `Inv` says which
operation a thread has (`JobInv`), that an operation is queued once and
unclaimed (`QueueInv`), what the phase of an operation tells of its thread
(`PhaseInv`) and of its waiter (`WaiterInv`), when a value is given back
(`GiveBackInv`), and when a connection is closed (`ClosedInv`). The race
of a thread that completes an operation with a waiter that leaves it is decided
by `claim`; the invariant is needed to say that each side then knows what the
other has done. The counters follow from `SizeChange`: a step moves one thread,
and each counter changes by what that thread adds to its set. For
`QueuedHasThread` the sum of these is compared before and after each step
(`CountsStep`). That a thread can be named when the bounds allow one
(`HasNames`) is itself proved from the counters (`NamesInv`, `FreeName`).

**Handles** (`HandlesProofs`; assumption `Settings`): `NoFailureIsUntold`,
`ValueInTimeIsGiven`, and the action property `ShowsNoHandledFailure`. `Inv`
has `ResultInv` (where a task is when its result is a failure), `MarkInv` (a
failure is marked as nobody's from before it is known until somebody handles
it), `KeptInv` (what is in the record has failed), `FunctionInv` (what a
caller has got or will get of its function) and `UntoldInv` (the failures of
ended tasks that are not in the record are no more than are counted). `MarkInv`
is what makes the three steps of `fail` safe against the four of `cancel`:
without it a failure could be stored after the cancel had looked for the mark.
The proof has a lemma for each kind of step (one that moves a task, one that
completes a cell, one that handles a failure, one that does neither), and each
action is shown to be of one kind.

**Deadlock** (`DeadlockInvariant`, `DeadlockProofs`; assumption `Sets`: the
tasks, the operations and the program's thread are distinct, the first two
finite): `VerdictIsTrue`, `SettledIsTrue`, `StopMeansEnded`, `StuckIsSeen`, for
any number of threads in `Inner::check` at a time and any number of waits. The
first three are for programs without a stream, as the properties say: with one
the verdict can be wrong (`DeadlockIsReal`). A check reads one thing after the
other, so the invariant says what is still so at each of its steps. `Basics`
has what an operation tells of its External, its waiter and its thread
(`HeldInv`, `WaitInv`, `ThreadInv`), what the program's thread waits for
(`MainInv`), what a check has read of it (`KnownInv`), that `live`, `parking`
and `external` are the sizes of the sets they count (`CountsInv`), and that
whoever has ended a wait and not yet woken its task is still where it was
(`CauseInv`): the running task still runs, the operation still has its
External, the timer's wait still has its deadline. `CauseInv` is what makes the
exact look right: a wait that has ended but is still in the registry looks like
one that goes on, and only its cause, which the check would see, tells them
apart. `HoldInv` says that nobody runs while the registry is held after that
look, `ParkedStuck` that the tasks have then come to a stop, and `StuckStable`
that a stop stays, so that it still holds when the check tells, stores and
cancels (`TellInv`, `CancelInv`, `RaiseInv`, `StopInv`; the number of the wait
keeps an old verdict from a new wait). `SeenInv` is the other direction: a step
that completes a stop begins a check (`StuckBefore`), and a check that sees the
stop goes on to see it at each of its reads (`SeesStep`). Each step of the
system is described once, by what it may do to one actor, one operation, one
check and the program's thread (`MoveFacts`, `OpFacts`, `CheckFacts`,
`MainFacts`); the parts of the invariant are proved from these tables.

**Workers** (`WorkersProofs`; assumption `Bounds`: the workers are finitely
many and apart from the other threads, the times finitely many numbers):
`QueuedIsSeen`, `DeadlineIsWatched`, `EndIsHeard`, for any number of workers,
of those that may look on, of threads that wait and of deadlines. `QueueInv` is
for the first: a thread has the lock of the queue exactly at the places where
the code holds it (`LockInv`), `sleepers` and `spinning` count the workers that
sleep and look on (`CountInv`), and a worker that goes to sleep has seen the
queue empty under the lock it still has (`DozeInv`). A worker that stops
looking on hands the duty to see the queue to its last look, which the count
alone does not tell: this is why `enqueue` may notify nobody. `WatchInv` says
of each that sleeps, and of each that is about to, that its deadline is not
after the next one or that somebody who armed one stands before the step that
tells it: which steps these are is different for the timer's thread
(`TimerInv`), for the workers (`WorkersWatch`), who are told under the lock, and
for the threads that wait (`WaitersWatch`), who are poked. `HeardInv` extends
`EndIsHeard` to a thread that has looked and does not yet sleep.

**Listener** (`ListenerProofs`; assumptions `Sets`, `Cases`: a client comes
once, and `Marks`: what stands for no client, for a wake or for how an accept
ended is not a client):
`NoClientIsLost`, and the action property `ServerHasItAlone`, for any number of
accepts, servers and clients and any length of the backlog. `OpInv` ties the
operation of an accept to the place of its task. `Sited` is stronger than
`NoClientIsLost`: a client that has come is in exactly one of the backlog, what
is kept, the hands of one accept, the result of one accept and what was taken,
and one that has not come is in none; the sequences hold no client twice
(`BacklogInv`, `KeptInv`, `ComeInv`). Each action is shown to move one client
from one site to another. For `ServerHasItAlone` the accept in the call has the
turn (`CallInv`), a server that goes on has the listener unless it is cancelled
(`ServedInv`), and once a server has it the accept in the call has been told
(`StopInv`); an accept that comes to the call later has looked at who serves.

**HttpServer** (`HttpServerProofs`; assumptions `Requests`, `Bounds`):
`WireReads`, `CalledAreAnswered`, `CountsAreExact`, for any number of
connections, any requests on them and any bounds. `ConnInv` says of the record
of each connection where its task and its operation can stand together and
what is then held of the bodies (`OpFits`), when nothing more can be written
(`EndFits`), that a request the handler was called for has been answered or is
the one in hand (`CallsFit`), and what stands on the wire (`WireFits`):
everything on it is in order, and at each place of the task the answer, or the
interim response, that may come next is the one that fits (`Clean`, `Ready`,
`Begun`). The last part is why `WireReads` is not inductive: four parties write
there, and each relies on where the others left the wire. `Counts` is the sum
over the connections; a step changes one connection (`Goes`), and the counts by
what that connection adds (`HandlersCounted`, `BodiesCounted`).

## What is only model-checked

Liveness (`CancelEndsWait`, `QueuedRuns` of both modules, `WorkersEnd`,
`LateTasksEnd`, `EveryPipeEnds`, `AcceptGivesWay`, `NobodyWaitsInVain` of
`Listener`, `NoneOutlivesTheServer`): it needs fairness and ENABLED, which the
prover does not have. `Streams`, `StreamPromise` and `Channels` are only
checked: what an arm, a wait or a stage does with the sequences it works on is
defined by folds and filters over them (`FoldLeft`, `SelectSeq`, `FlattenSeq`),
and a fact about these for every length needs an induction over data. So
`SinkEndsAsToldBy`, `TakesWhatIsAsked`, `NoFailureIsLeft`,
`ConnectionFollowsItsSource`, `KeepsThePromise`, `NobodyWaitsInVain` and
`EveryArmIsQueued` of `Channels`, and that `Channels` implements `Fifo`, are
checked on the instances above.

## What is not modelled

The front end, the interpreter, the formatter, the language server, the package
tools and the command line are sequential, and are about text and syntax trees:
a model of small instances says little about them. Of the Postgres driver only
the thread of a stream is there, in `Deadlock`. `PROJECT.json` lists every part
with the reason.
