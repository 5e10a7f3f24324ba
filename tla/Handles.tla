------------------------------- MODULE Handles -------------------------------
(***************************************************************************)
(* How a task ends, and who learns of it: its handle (runtime/handle.rs),  *)
(* the slices a worker gives it (Scheduler::run_once), task.cancel, .join  *)
(* and .deadline (builtins/concurrency.rs), and the record of the failures *)
(* that nobody joined with the report at the program's end (scheduler.rs). *)
(*                                                                         *)
(* Some tasks are spawned by main, which keeps their handles, or are the   *)
(* function of a task.deadline that main called; any other is the function *)
(* of a task.deadline that its caller may call once.                       *)
(* A step of a late task is one step here, as it is counted; a slice of    *)
(* any other is one step too.  The parts of a fail and of a cancel are     *)
(* steps of their own, for nothing holds them together.  What a wait does  *)
(* is in module Parking; here it is one step to begin it and one to end    *)
(* it.  A program that has exited (process.exit) reports nothing and is    *)
(* left out.                                                               *)
(***************************************************************************)
EXTENDS Integers, FiniteSets

CONSTANTS
    Tasks,
    Failed,      \* the tasks that have failed already
    Caller,      \* the task whose task.deadline t is the function of, or t
    Durations,   \* of the deadlines
    MaxTime,     \* the clock stops there
    LATE_STEPS,  \* the steps a task has past its time or after a cancel
    MAX_RECORDED_FAILURES

Spawned == {t \in Tasks : Caller[t] = t}
Never == 2 * MaxTime + 1

ASSUME Settings ==
    /\ IsFiniteSet(Tasks) /\ MaxTime \in Nat
    /\ Failed \subseteq Spawned /\ Cardinality(Failed) <= MAX_RECORDED_FAILURES
    /\ Caller \in [Tasks -> Tasks] /\ LATE_STEPS \in Nat \ {0} /\ MAX_RECORDED_FAILURES \in Nat
    /\ Durations \subseteq 0..MaxTime
    /\ \A t, u \in Tasks \ Spawned : Caller[t] = Caller[u] => t = u

VARIABLES
    now,         \* the clock
    handle,      \* TaskHandle
    late,        \* the counts of late steps, by the task that began the count
    run,         \* where a task is, what its task.deadline gave it, and a beat
                 \* that a late step of it changes
    cancelling,  \* how far the cancel of a task has come
    record,      \* FailedTasks: the kept handles (a task fails once, and the order
                 \* of the report is left out), and how many were not kept
    report,      \* the report: what is still to be looked at, what it shows,
                 \* and how many it says were not kept
    handled      \* the tasks whose failure a join has received or a cancel
                 \* has dismissed

vars == <<now, handle, late, run, cancelling, record, report, handled>>

Ended == {"ok", "failed", "cancelled", "expired"}

Init ==
    /\ now = 0
    /\ \E d \in [Tasks -> Durations \cup {Never}] :
          /\ \A t \in (Tasks \ Spawned) \cup Failed : d[t] = Never
          /\ handle = [t \in Tasks |->
                         [result |-> IF t \in Failed THEN "failed" ELSE "none",
                          cancelled |-> FALSE, unjoined |-> t \in Failed,
                          deadline |-> d[t], over |-> FALSE, counts |-> t]]
    /\ late = [t \in Tasks |-> 0]
    /\ run = [t \in Tasks |->
                [at |-> IF t \in Failed THEN "gone" ELSE IF t \in Spawned THEN "new" ELSE "none",
                 got |-> "none", beat |-> FALSE]]
    /\ cancelling = [t \in Tasks |-> "no"]
    /\ record = [kept |-> Failed, not_recorded |-> 0]
    /\ report = [at |-> "no", left |-> {}, shown |-> {}, not_kept |-> 0]
    /\ handled = {}

Function(t) == {u \in Tasks \ Spawned : Caller[u] = t}
Goes(t, at) == run' = [run EXCEPT ![t].at = at]

\* Cell::complete: the first result stands, and ends the wait of the caller's
\* frame.  r is run after it, from run with t at "at".
Completes(t, result, at) ==
    LET first == handle[t].result = "none"
        c == Caller[t]
        moved == [run EXCEPT ![t].at = at]
    IN /\ handle' = [handle EXCEPT ![t].result = IF first THEN result ELSE @]
       /\ run' = IF first /\ c # t /\ run[c].at = "awaits" THEN [moved EXCEPT ![c].at = "answered"]
                 ELSE moved

-----------------------------------------------------------------------------
(* A worker has the task in hand: run_once.                                *)

Passed(t) == now >= handle[t].deadline

\* The slice is late: the task was cancelled, or its time is over, which is
\* found out here (over).
IsLate(t) == handle[t].cancelled \/ handle[t].over \/ Passed(t)
LearnsItIsOver(t) == handle[t].over \/ Passed(t)

\* Slip: the steps of a cancelled task are not counted.
CountedPastTime(t) ==
    IF LearnsItIsOver(t) THEN [late EXCEPT ![handle[t].counts] = @ + 1] ELSE late

\* TaskHandle::count_late.
Counted(t) ==
    IF IsLate(t) THEN [late EXCEPT ![handle[t].counts] = @ + 1] ELSE late
IsSpent(t) == IsLate(t) /\ Counted(t)[handle[t].counts] >= LATE_STEPS

\* The task is ended: its frames are dropped first; one that was cancelled has
\* its result, any other expires.
EndsAt(t) == IF handle[t].cancelled THEN "dropping" ELSE "expiring"

InHand(t) == run[t].at = "queued" \/ (run[t].at = "new" /\ ~handle[t].cancelled)
Keeps(t) ==
    /\ InHand(t)
    /\ late' = Counted(t)
    /\ UNCHANGED <<now, cancelling, record, report, handled>>
Learned(t) == [handle EXCEPT ![t].over = LearnsItIsOver(t)]

\* A task that was cancelled before its first slice does not run.
EndBeforeItRan(t) ==
    /\ run[t].at = "new" /\ handle[t].cancelled
    /\ Goes(t, "dropping")
    /\ UNCHANGED <<now, handle, late, cancelling, record, report, handled>>

\* It computes on.
Yield(t) ==
    /\ Keeps(t)
    /\ handle' = Learned(t)
    /\ run' = [run EXCEPT ![t].at = IF IsSpent(t) THEN EndsAt(t) ELSE "queued",
                          ![t].beat = IF IsLate(t) /\ ~IsSpent(t) THEN ~@ ELSE FALSE]

\* It begins a wait, which is refused a late task.
Block(t) ==
    /\ Keeps(t)
    /\ handle' = Learned(t)
    /\ Goes(t, IF IsLate(t) THEN EndsAt(t) ELSE "parked")

Complete(t) ==
    /\ Keeps(t)
    /\ Completes(t, "ok", "dropping")

\* It fails: TaskHandle::fail looks for a result first.
Fail(t) ==
    /\ Keeps(t)
    /\ UNCHANGED handle
    /\ Goes(t, IF handle[t].result # "none" THEN "dropping" ELSE "failing")

\* A function that has the caller's time goes on with the caller's count.
CountOf(t, f, until) == IF until >= handle[t].deadline THEN handle[t].counts ELSE f

\* task.deadline: a late task is ended here; any other starts the function,
\* whose time is no later than its own.
Deadline(t) ==
    \E f \in Function(t), d \in Durations :
        LET own == handle[t].deadline
            until == IF now + d < own THEN now + d ELSE own
        IN /\ run[f].at = "none"
           /\ Keeps(t)
           /\ handle' = IF IsLate(t) THEN Learned(t)
                        ELSE [handle EXCEPT ![f].deadline = until, ![f].counts = CountOf(t, f, until)]
           /\ run' = IF IsLate(t) THEN [run EXCEPT ![t].at = EndsAt(t)]
                     ELSE [run EXCEPT ![t].at = "awaits", ![f].at = "new"]

\* Deadline::resume: the function has ended.
Answer(t) ==
    \E f \in Function(t) :
        LET result == handle[f].result
            inherited == result = "expired" /\ handle[f].deadline >= handle[t].deadline
            at == IF result = "failed" THEN IF handle[t].result # "none" THEN "dropping" ELSE "failing"
                  ELSE IF inherited \/ IsSpent(t) THEN EndsAt(t)
                  ELSE "queued"
        IN /\ run[t].at = "answered"
           /\ late' = Counted(t)
           /\ run' = [run EXCEPT ![t].at = at, ![t].got = result]
           /\ handle' = [Learned(t) EXCEPT ![f].unjoined = @ /\ result = "expired"]
           /\ handled' = IF result = "failed" THEN handled \cup {f} ELSE handled
           /\ UNCHANGED <<now, cancelling, record, report>>

\* TaskHandle::fail: the failure counts as nobody's before it is known.
FailMarks(t) ==
    /\ run[t].at = "failing"
    /\ handle' = [handle EXCEPT ![t].unjoined = TRUE]
    /\ Goes(t, "marked")
    /\ UNCHANGED <<now, late, cancelling, record, report, handled>>

\* Slip: a failure is recorded though the task was cancelled.
FailCompletesAlways(t) ==
    /\ run[t].at = "marked"
    /\ Completes(t, "failed", "failed")
    /\ UNCHANGED <<now, late, cancelling, record, report, handled>>

FailCompletes(t) ==
    /\ run[t].at = "marked"
    /\ Completes(t, "failed", IF handle[t].result = "none" THEN "failed" ELSE "dropping")
    /\ UNCHANGED <<now, late, cancelling, record, report, handled>>

\* Slip: the record keeps what has been handled, and drops the others.
RecordedWrongly(t) ==
    LET room == {u \in record.kept : ~handle[u].unjoined}
        kept == IF Cardinality(record.kept) >= MAX_RECORDED_FAILURES THEN room ELSE record.kept
    IN IF Cardinality(kept) >= MAX_RECORDED_FAILURES
       THEN [kept |-> kept, not_recorded |-> record.not_recorded + 1]
       ELSE [kept |-> kept \cup {t}, not_recorded |-> record.not_recorded]

\* FailedTasks::record: a full record lets go what has been handled since.
Recorded(t) ==
    LET room == {u \in record.kept : handle[u].unjoined}
        kept == IF Cardinality(record.kept) >= MAX_RECORDED_FAILURES THEN room ELSE record.kept
    IN IF Cardinality(kept) >= MAX_RECORDED_FAILURES
       THEN [kept |-> kept, not_recorded |-> record.not_recorded + 1]
       ELSE [kept |-> kept \cup {t}, not_recorded |-> record.not_recorded]

Record(t) ==
    /\ run[t].at = "failed"
    /\ record' = Recorded(t)
    /\ Goes(t, "dropping")
    /\ UNCHANGED <<now, handle, late, cancelling, report, handled>>

\* The task's frames are dropped (end_task, expire_task): a task.deadline of
\* its own cancels the function, and waits for nobody.
Drop(t) ==
    /\ run[t].at \in {"dropping", "expiring"}
    /\ \A f \in Function(t) : run[f].at = "none" \/ run[t].got # "none" \/ cancelling[f] = "done"
    /\ IF run[t].at = "expiring" THEN Completes(t, "expired", "gone")
       ELSE Goes(t, "gone") /\ UNCHANGED handle
    /\ UNCHANGED <<now, late, cancelling, record, report, handled>>

-----------------------------------------------------------------------------
(* What ends a wait, and time.                                             *)

Unpark(t) ==
    /\ run[t].at = "parked" /\ Goes(t, "queued")
    /\ UNCHANGED <<now, handle, late, cancelling, record, report, handled>>

\* Slip: the wait for the function is ended by the caller's own time.
TimeUpInAnyWait(t) ==
    /\ run[t].at \in {"parked", "awaits"} /\ Passed(t) /\ Goes(t, "expiring")
    /\ UNCHANGED <<now, handle, late, cancelling, record, report, handled>>

\* The wait is ended by the task's deadline; the wait of task.deadline for its
\* function is not (unbounded).
TimeUp(t) ==
    /\ run[t].at = "parked" /\ Passed(t) /\ Goes(t, "expiring")
    /\ UNCHANGED <<now, handle, late, cancelling, record, report, handled>>

Tick ==
    /\ now < MaxTime /\ now' = now + 1
    /\ UNCHANGED <<handle, late, run, cancelling, record, report, handled>>

-----------------------------------------------------------------------------
(* Scheduler::cancel, by main or by the drop of the caller's frame.        *)

MainIsFree == report.at = "no" /\ \A t \in Spawned : cancelling[t] \in {"no", "done"}

CancelBegins(t) ==
    /\ cancelling[t] = "no"
    /\ IF t \in Spawned THEN MainIsFree
       ELSE run[t].at # "none" /\ run[Caller[t]].at \in {"dropping", "expiring"}
            /\ run[Caller[t]].got = "none"
    /\ handle' = [handle EXCEPT ![t].cancelled = TRUE]
    /\ cancelling' = [cancelling EXCEPT ![t] = "flagged"]
    /\ UNCHANGED <<now, late, run, record, report, handled>>

CancelCompletes(t) ==
    /\ cancelling[t] = "flagged"
    /\ Completes(t, "cancelled", run[t].at)
    /\ cancelling' = [cancelling EXCEPT ![t] = "completed"]
    /\ UNCHANGED <<now, late, record, report, handled>>

CancelJoins(t) ==
    /\ cancelling[t] = "completed"
    /\ handle' = [handle EXCEPT ![t].unjoined = FALSE]
    /\ handled' = handled \cup {t}
    /\ cancelling' = [cancelling EXCEPT ![t] = "joined"]
    /\ UNCHANGED <<now, late, run, record, report>>

\* Parking::cancel: a wait that is open ends, and the task with it.
CancelEndsWait(t) ==
    /\ cancelling[t] = "joined"
    /\ cancelling' = [cancelling EXCEPT ![t] = "done"]
    /\ IF run[t].at \in {"parked", "awaits"} THEN Goes(t, "dropping") ELSE UNCHANGED run
    /\ UNCHANGED <<now, handle, late, record, report, handled>>

\* task.join, or the end of a task.deadline, in main.
Join(t) ==
    /\ t \in Spawned /\ MainIsFree /\ handle[t].result # "none"
    /\ handle' = [handle EXCEPT ![t].unjoined = FALSE]
    /\ handled' = IF handle[t].result = "failed" THEN handled \cup {t} ELSE handled
    /\ UNCHANGED <<now, late, run, cancelling, record, report>>

-----------------------------------------------------------------------------
(* take_unjoined_failures, report_unjoined_failures.                       *)

\* The program has ended: its tasks have (Vm::settle), or main has failed.
ReportBegins ==
    /\ MainIsFree
    /\ report' = [report EXCEPT !.at = "shows", !.left = record.kept, !.not_kept = record.not_recorded]
    /\ record' = [kept |-> {}, not_recorded |-> 0]
    /\ UNCHANGED <<now, handle, late, run, cancelling, handled>>

ReportShows ==
    /\ report.at = "shows"
    /\ \E t \in report.left :
          /\ report' = [report EXCEPT !.left = @ \ {t},
                          !.shown = IF handle[t].unjoined /\ handle[t].result # "none"
                                    THEN @ \cup {t} ELSE @]
          /\ handle' = [handle EXCEPT ![t].unjoined = FALSE]
    /\ UNCHANGED <<now, late, run, cancelling, record, handled>>

ReportEnds ==
    /\ report.at = "shows" /\ report.left = {}
    /\ report' = [report EXCEPT !.at = "done"]
    /\ UNCHANGED <<now, handle, late, run, cancelling, record, handled>>

-----------------------------------------------------------------------------
Runs(t) ==
    \/ EndBeforeItRan(t) \/ Yield(t) \/ Block(t) \/ Complete(t) \/ Fail(t) \/ Deadline(t)
    \/ Answer(t) \/ FailMarks(t) \/ FailCompletes(t) \/ Record(t) \/ Drop(t)
Cancels(t) == CancelBegins(t) \/ CancelCompletes(t) \/ CancelJoins(t) \/ CancelEndsWait(t)

Next ==
    \/ \E t \in Tasks : Runs(t) \/ Cancels(t) \/ Unpark(t) \/ TimeUp(t) \/ Join(t)
    \/ Tick \/ ReportBegins \/ ReportShows \/ ReportEnds

Spec == Init /\ [][Next]_vars

\* A worker runs a task that is ready (module Workers) and the timer ends the
\* waits whose time has come (module Parking); a cancel that has begun goes on,
\* and the frame that is dropped cancels its function; time passes.
FairSpec ==
    /\ Spec /\ WF_vars(Tick)
    /\ \A t \in Tasks \ Failed :
         /\ WF_vars(Runs(t)) /\ WF_vars(TimeUp(t))
         /\ WF_vars((cancelling[t] # "no" \/ t \notin Spawned) /\ Cancels(t))

-----------------------------------------------------------------------------
\* A failure that a join has received or a cancel has dismissed is not shown,
\* and a task that was cancelled before it failed is not: whatever part of a
\* fail a cancel meets (TaskHandle::fail, ::cancel).
ShowsNoHandledFailure ==
    [][\A t \in report'.shown \ report.shown : handle[t].result = "failed" /\ t \notin handled]_vars

\* Until the report begins, a failure of a task that has ended, and that nobody
\* has handled, is in the record and will be shown, or is one of those that are
\* counted because the record was full (FailedTasks::record).
NoFailureIsUntold ==
    LET unhandled == {t \in Tasks : handle[t].result = "failed" /\ t \notin handled /\ run[t].at = "gone"}
    IN report.at = "no"
       => /\ \A t \in unhandled : handle[t].unjoined
          /\ Cardinality(unhandled \ record.kept) <= record.not_recorded

\* What the function of a task.deadline gave in time reaches its caller, also
\* when the caller's own time has passed by then (Deadline::resume).
ValueInTimeIsGiven ==
    \A t \in Tasks : \A f \in Function(t) :
        run[t].at = "gone" /\ handle[t].result = "expired" /\ handle[f].result \in {"ok", "failed"}
        => run[t].got = handle[f].result

\* A task that was cancelled or whose time is over ends, though it never waits.
LateTasksEnd ==
    \A t \in Tasks \ Failed : (run[t].at # "none" /\ IsLate(t)) ~> (run[t].at = "gone")

\* A failure that is counted as one that nobody joined is one that nobody has
\* joined or cancelled ("more task(s) failed and were never joined").
CountedWereNeverHandled ==
    report.at = "done"
    => report.not_kept <= Cardinality({t \in Tasks : handle[t].result = "failed" /\ t \notin handled})
=============================================================================
