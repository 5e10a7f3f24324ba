---------------------------- MODULE HandlesProofs ----------------------------
(***************************************************************************)
(* The safety properties of module Handles, for any tasks, any nesting of  *)
(* task.deadline, any durations and any size of the record.                *)
(***************************************************************************)
EXTENDS Handles, FiniteSetTheorems, TLAPS

Results == Ended \cup {"none"}
Places == {"none", "new", "queued", "parked", "awaits", "answered", "failing", "marked",
           "failed", "dropping", "expiring", "gone"}

HandleType == [result : Results, cancelled : BOOLEAN, unjoined : BOOLEAN,
               deadline : Int, over : BOOLEAN, counts : Tasks]
RunType == [at : Places, got : Results, beat : BOOLEAN]
HandleTypes == handle \in [Tasks -> HandleType]
RunTypes == run \in [Tasks -> RunType]
RecordTypes ==
    /\ now \in Int
    /\ cancelling \in [Tasks -> {"no", "flagged", "completed", "joined", "done"}]
    /\ record \in [kept : SUBSET Tasks, not_recorded : Nat]
    /\ report \in [at : {"no", "shows", "done"}, left : SUBSET Tasks, shown : SUBSET Tasks, not_kept : Nat]
    /\ handled \subseteq Tasks
TypeOK == HandleTypes /\ RunTypes /\ RecordTypes

-----------------------------------------------------------------------------
\* What the result of a task says of where it is.
ResultInv ==
    \A t \in Tasks :
        /\ handle[t].result = "failed" => run[t].at \in {"failed", "dropping", "gone"}
        /\ run[t].at = "failed" => handle[t].result = "failed"
        /\ handle[t].result = "expired" => run[t].at = "gone"
        /\ run[t].at = "none" => handle[t].result = "none" /\ cancelling[t] = "no" /\ t \notin Spawned
        /\ cancelling[t] \in {"completed", "joined", "done"} => handle[t].result # "none"
        /\ t \in handled => handle[t].result # "none"

\* What is kept, or is still to be shown, has failed.
KeptInv == \A t \in record.kept \cup report.left : handle[t].result = "failed"

\* The mark of a failure that nobody has handled.
MarkInv ==
    \A t \in Tasks :
        /\ t \in handled /\ handle[t].result = "failed" => ~handle[t].unjoined
        /\ run[t].at = "marked" /\ handle[t].result = "none" => handle[t].unjoined
        /\ report.at = "no" /\ handle[t].result = "failed" /\ t \notin handled => handle[t].unjoined

\* A task and the function of its task.deadline.
Gets(t, f) ==
    /\ run[t].at = "answered" => handle[f].result # "none"
    /\ run[t].got # "none" => run[t].got = handle[f].result
    /\ run[t].at \in {"none", "new", "queued", "parked", "expiring"} \/ handle[t].result = "expired"
       => run[f].at = "none" \/ run[t].got # "none"
FunctionInv == \A t \in Tasks : \A f \in Function(t) : Gets(t, f)

Untold ==
    {t \in Tasks : handle[t].result = "failed" /\ t \notin handled /\ run[t].at \in {"dropping", "gone"}}
             \ record.kept
UntoldInv == report.at = "no" => Cardinality(Untold) <= record.not_recorded

Inv == ResultInv /\ KeptInv /\ MarkInv /\ FunctionInv /\ UntoldInv

-----------------------------------------------------------------------------
\* Only the result of t changes, and only where t and its caller are
\* (Cell::complete).
LEMMA CompletesFacts ==
    ASSUME TypeOK, NEW t \in Tasks, NEW r \in Ended, NEW a \in Places, Completes(t, r, a)
    PROVE  /\ HandleTypes' /\ RunTypes'
           /\ \A u \in Tasks : u # t => handle'[u] = handle[u]
           /\ \A u \in Tasks : handle'[u].unjoined <=> handle[u].unjoined
           /\ \A u \in Tasks : run'[u].got = run[u].got
           /\ handle[t].result = "none" => handle'[t].result = r
           /\ handle[t].result # "none" => handle'[t].result = handle[t].result
           /\ run'[t].at = a
           /\ \A u \in Tasks : u # t /\ run'[u].at # run[u].at
                 => u = Caller[t] /\ run[u].at = "awaits" /\ run'[u].at = "answered"
                    /\ handle[t].result = "none"
<1> USE DEF TypeOK, HandleTypes, RunTypes
<1>1. Caller[t] \in Tasks /\ r \in Results /\ {"answered"} \subseteq Places
  BY Settings DEF Settings, Results, Places
<1>2. HandleTypes'
  BY <1>1 DEF Completes, HandleType
<1>3. /\ \A u \in Tasks : u # t => handle'[u] = handle[u]
      /\ \A u \in Tasks : handle'[u].unjoined <=> handle[u].unjoined
      /\ handle[t].result = "none" => handle'[t].result = r
      /\ handle[t].result # "none" => handle'[t].result = handle[t].result
  BY <1>1 DEF Completes, HandleType
<1>4. RunTypes'
  BY <1>1 DEF Completes, RunType
<1>5. /\ \A u \in Tasks : run'[u].got = run[u].got
      /\ run'[t].at = a
      /\ \A u \in Tasks : u # t /\ run'[u].at # run[u].at
                 => u = Caller[t] /\ run[u].at = "awaits" /\ run'[u].at = "answered"
                    /\ handle[t].result = "none"
  BY <1>1 DEF Completes, RunType
<1> QED
  BY <1>2, <1>3, <1>4, <1>5

-----------------------------------------------------------------------------
\* Every step keeps the types.
LEMMA TypeStep == TypeOK /\ [Next]_vars => TypeOK'
<1> SUFFICES ASSUME TypeOK, [Next]_vars PROVE TypeOK'
  OBVIOUS
<1>a. /\ "new" \in Places /\ "queued" \in Places /\ "parked" \in Places /\ "awaits" \in Places
      /\ "failing" \in Places /\ "marked" \in Places /\ "failed" \in Places /\ "dropping" \in Places
      /\ "expiring" \in Places /\ "gone" \in Places
  BY DEF Places
<1>b. "ok" \in Ended /\ "failed" \in Ended /\ "cancelled" \in Ended /\ "expired" \in Ended
  BY DEF Ended
<1>c. /\ Durations \subseteq Int /\ \A t \in Tasks : EndsAt(t) \in Places
      /\ \A t \in Tasks : Function(t) \subseteq Tasks
  BY <1>a, Settings DEF Settings, EndsAt, Function
<1> USE DEF HandleTypes, RunTypes
<1>d. ASSUME NEW t \in Tasks PROVE Learned(t) \in [Tasks -> HandleType]
  <2>1. LearnsItIsOver(t) \in BOOLEAN
    BY DEF LearnsItIsOver
  <2> QED
    BY <2>1 DEF TypeOK, Learned, HandleType
<1>e. ASSUME NEW t \in Tasks, NEW a \in Places, Goes(t, a) PROVE RunTypes'
  BY <1>e DEF TypeOK, Goes, RunType
<1>1. ASSUME NEW t \in Tasks, Runs(t) PROVE TypeOK'
  <2>1. CASE EndBeforeItRan(t)
    BY <2>1, <1>a, <1>e DEF EndBeforeItRan, TypeOK, RecordTypes
  <2>2. CASE Yield(t)
    <3>1. PICK a \in Places, b \in BOOLEAN : run' = [run EXCEPT ![t].at = a, ![t].beat = b]
      <4> DEFINE a == IF IsSpent(t) THEN EndsAt(t) ELSE "queued"
                 b == IF IsLate(t) /\ ~IsSpent(t) THEN ~run[t].beat ELSE FALSE
      <4>1. a \in Places /\ b \in BOOLEAN
        BY <1>a, <1>c
      <4>2. run' = [run EXCEPT ![t].at = a, ![t].beat = b]
        BY <2>2 DEF Yield
      <4> QED
        BY <4>1, <4>2
    <3>2. RunTypes'
      BY <3>1 DEF TypeOK, RunType
    <3> QED
      BY <3>2, <2>2, <1>d DEF Yield, Keeps, TypeOK, RecordTypes
  <2>3. CASE Block(t)
    BY <2>3, <1>a, <1>c, <1>d, <1>e DEF Block, Keeps, TypeOK, RecordTypes
  <2>4. CASE Complete(t)
    BY <2>4, <1>a, <1>b, CompletesFacts DEF Complete, Keeps, TypeOK, RecordTypes
  <2>5. CASE Fail(t)
    BY <2>5, <1>a, <1>e DEF Fail, Keeps, TypeOK, RecordTypes
  <2>6. CASE Deadline(t)
    <3>1. PICK f \in Function(t), d \in Durations :
             LET own == handle[t].deadline
                 until == IF now + d < own THEN now + d ELSE own
             IN /\ Keeps(t)
                /\ handle' = IF IsLate(t) THEN Learned(t)
                             ELSE [handle EXCEPT ![f].deadline = until, ![f].counts = CountOf(t, f, until)]
                /\ run' = IF IsLate(t) THEN [run EXCEPT ![t].at = EndsAt(t)]
                          ELSE [run EXCEPT ![t].at = "awaits", ![f].at = "new"]
      BY <2>6 DEF Deadline
    <3>2. f \in Tasks /\ d \in Int
      BY <1>c
    <3>3. RunTypes'
      <4>1. \/ run' = [run EXCEPT ![t].at = EndsAt(t)]
            \/ run' = [run EXCEPT ![t].at = "awaits", ![f].at = "new"]
        BY <3>1
      <4> QED
        BY <4>1, <3>2, <1>a, <1>c DEF TypeOK, RunType
    <3>4. HandleTypes'
      <4> DEFINE own == handle[t].deadline
                 until == IF now + d < own THEN now + d ELSE own
      <4>1. until \in Int /\ CountOf(t, f, until) \in Tasks
        BY <3>2 DEF TypeOK, RecordTypes, CountOf, HandleType
      <4> HIDE DEF until
      <4>2. [handle EXCEPT ![f].deadline = until, ![f].counts = CountOf(t, f, until)] \in [Tasks -> HandleType]
        BY <4>1, <3>2 DEF TypeOK, HandleType
      <4> QED
        BY <4>2, <3>1, <1>d DEF until
    <3> QED
      BY <3>1, <3>3, <3>4 DEF Keeps, TypeOK, RecordTypes
  <2>7. CASE Answer(t)
    <3>1. PICK f \in Function(t), at \in Places :
                /\ run' = [run EXCEPT ![t].at = at, ![t].got = handle[f].result]
                /\ handle' = [Learned(t) EXCEPT ![f].unjoined = @ /\ handle[f].result = "expired"]
                /\ handled' = IF handle[f].result = "failed" THEN handled \cup {f} ELSE handled
                /\ UNCHANGED <<now, cancelling, record, report>>
      BY <2>7, <1>a, <1>c DEF Answer
    <3>2. f \in Tasks /\ handle[f].result \in Results
      BY <1>c DEF TypeOK, HandleType
    <3>3. RunTypes'
      BY <3>1, <3>2 DEF TypeOK, RunType
    <3>4. HandleTypes'
      <4> DEFINE own == Learned(t)
                 unjoined == own[f].unjoined /\ handle[f].result = "expired"
      <4>1. own \in [Tasks -> HandleType] /\ unjoined \in BOOLEAN
        BY <1>d
      <4>2. handle' = [own EXCEPT ![f].unjoined = unjoined]
        BY <3>1
      <4> HIDE DEF own, unjoined
      <4> QED
        BY <3>2, <4>1, <4>2 DEF HandleType
    <3> QED
      BY <3>1, <3>2, <3>3, <3>4 DEF TypeOK, RecordTypes
  <2>8. CASE FailMarks(t)
    <3>1. HandleTypes'
      BY <2>8 DEF FailMarks, TypeOK, HandleType
    <3> QED
      BY <3>1, <2>8, <1>a, <1>e DEF FailMarks, TypeOK, RecordTypes
  <2>9. CASE FailCompletes(t)
    BY <2>9, <1>a, <1>b, CompletesFacts DEF FailCompletes, TypeOK, RecordTypes
  <2>10. CASE Record(t)
    <3>1. Recorded(t) \in [kept : SUBSET Tasks, not_recorded : Nat]
      BY DEF Recorded, TypeOK, RecordTypes
    <3> QED
      BY <3>1, <2>10, <1>a, <1>e DEF Record, TypeOK, RecordTypes
  <2>11. CASE Drop(t)
    <3>1. CASE run[t].at = "expiring"
      BY <3>1, <2>11, <1>a, <1>b, CompletesFacts DEF Drop, TypeOK, RecordTypes
    <3>2. CASE run[t].at # "expiring"
      BY <3>2, <2>11, <1>a, <1>e DEF Drop, TypeOK, RecordTypes
    <3> QED
      BY <3>1, <3>2
  <2> QED
    BY <1>1, <2>1, <2>2, <2>3, <2>4, <2>5, <2>6, <2>7, <2>8, <2>9, <2>10, <2>11 DEF Runs
<1>2. ASSUME NEW t \in Tasks, Cancels(t) PROVE TypeOK'
  <2>1. CASE CancelBegins(t)
    <3>1. HandleTypes'
      BY <2>1 DEF CancelBegins, TypeOK, HandleType
    <3> QED
      BY <3>1, <2>1 DEF CancelBegins, TypeOK, RecordTypes
  <2>2. CASE CancelCompletes(t)
    <3>1. run[t].at \in Places
      BY DEF TypeOK, RunType
    <3> QED
      BY <3>1, <2>2, <1>b, CompletesFacts DEF CancelCompletes, TypeOK, RecordTypes
  <2>3. CASE CancelJoins(t)
    <3>1. HandleTypes'
      BY <2>3 DEF CancelJoins, TypeOK, HandleType
    <3> QED
      BY <3>1, <2>3 DEF CancelJoins, TypeOK, RecordTypes
  <2>4. CASE CancelEndsWait(t)
    BY <2>4, <1>a, <1>e DEF CancelEndsWait, TypeOK, RecordTypes
  <2> QED
    BY <1>2, <2>1, <2>2, <2>3, <2>4 DEF Cancels
<1>3. ASSUME NEW t \in Tasks, Unpark(t) \/ TimeUp(t) PROVE TypeOK'
  BY <1>3, <1>a, <1>e DEF Unpark, TimeUp, TypeOK, RecordTypes
<1>4. ASSUME NEW t \in Tasks, Join(t) PROVE TypeOK'
  <2>1. HandleTypes'
    BY <1>4 DEF Join, TypeOK, HandleType
  <2> QED
    BY <2>1, <1>4 DEF Join, TypeOK, RecordTypes
<1>5. CASE Tick \/ ReportBegins \/ ReportEnds
  <2>1. CASE Tick
    BY <2>1 DEF Tick, TypeOK, RecordTypes
  <2>2. CASE ReportBegins
    BY <2>2 DEF ReportBegins, TypeOK, RecordTypes
  <2>3. CASE ReportEnds
    BY <2>3 DEF ReportEnds, TypeOK, RecordTypes
  <2> QED
    BY <1>5, <2>1, <2>2, <2>3
<1>6. CASE ReportShows
  <2>1. PICK t \in report.left :
          /\ report' = [report EXCEPT !.left = @ \ {t},
                          !.shown = IF handle[t].unjoined /\ handle[t].result # "none"
                                    THEN @ \cup {t} ELSE @]
          /\ handle' = [handle EXCEPT ![t].unjoined = FALSE]
          /\ UNCHANGED <<now, late, run, cancelling, record, handled>>
    BY <1>6 DEF ReportShows
  <2>2. t \in Tasks
    BY DEF TypeOK, RecordTypes
  <2>3. HandleTypes'
    BY <2>1, <2>2 DEF TypeOK, HandleType
  <2>4. report' \in [at : {"no", "shows", "done"}, left : SUBSET Tasks, shown : SUBSET Tasks, not_kept : Nat]
    BY <2>1, <2>2 DEF TypeOK, RecordTypes
  <2> QED
    BY <2>1, <2>3, <2>4 DEF TypeOK, RecordTypes
<1>7. CASE UNCHANGED vars
  BY <1>7 DEF vars, TypeOK, RecordTypes
<1> QED
  BY <1>1, <1>2, <1>3, <1>4, <1>5, <1>6, <1>7 DEF Next

-----------------------------------------------------------------------------
(* What a step does to one task at a time.                                 *)

\* The result, the mark and what was received are those of before.
Same(u) ==
    /\ handle'[u].result = handle[u].result
    /\ handle'[u].unjoined <=> handle[u].unjoined
    /\ run'[u].got = run[u].got

\* A cancel goes on, and a task that was not cancelled is not.
CancelsGoOn ==
    \A u \in Tasks :
        /\ cancelling[u] = "no" => cancelling'[u] = "no"
        /\ cancelling'[u] \in {"completed", "joined", "done"} =>
              cancelling[u] \in {"completed", "joined", "done"}

\* A task that goes on leaves the others where they are.
LEMMA GoesFacts ==
    ASSUME TypeOK, NEW t \in Tasks, NEW a, Goes(t, a)
    PROVE  /\ run'[t].at = a
           /\ \A u \in Tasks : run'[u].got = run[u].got
           /\ \A u \in Tasks : u # t => run'[u].at = run[u].at
  BY DEF Goes, TypeOK, RunTypes, RunType

\* What a task learns of its time changes neither a result nor a mark.
LEMMA LearnedFacts ==
    ASSUME TypeOK, NEW t \in Tasks
    PROVE  \A u \in Tasks : /\ Learned(t)[u].result = handle[u].result
                            /\ Learned(t)[u].unjoined <=> handle[u].unjoined
  BY DEF Learned, TypeOK, HandleTypes, HandleType

\* The function of a task is the only one, and another than the task.
LEMMA FunctionFacts ==
    ASSUME NEW t \in Tasks, NEW f \in Function(t)
    PROVE  /\ f \in Tasks /\ f # t /\ f \notin Spawned /\ Caller[f] = t
           /\ \A g \in Function(t) : g = f
           /\ \A u \in Tasks : f \in Function(u) => u = t
  BY Settings DEF Settings, Function, Spawned

\* The failures that are not in the record become no more.
LEMMA UntoldShrinks ==
    ASSUME UntoldInv, TypeOK, report'.at = "no" => report.at = "no" /\ Untold' \subseteq Untold,
           record'.not_recorded = record.not_recorded
    PROVE  UntoldInv'
<1>1. IsFiniteSet(Untold)
  <2>1. Untold \subseteq Tasks
    BY DEF Untold
  <2> QED
    BY <2>1, Settings, FS_Subset DEF Settings
<1>2. Untold' \subseteq Untold => /\ Cardinality(Untold') <= Cardinality(Untold)
                                  /\ Cardinality(Untold') \in Nat
  BY <1>1, FS_Subset, FS_CardinalityType
<1>3. Cardinality(Untold) \in Nat
  BY <1>1, FS_CardinalityType
<1>4. record.not_recorded \in Nat
  BY DEF TypeOK, RecordTypes
<1> QED
  BY <1>2, <1>3, <1>4 DEF UntoldInv

\* A step that only moves a task that has not ended keeps the invariant.
LEMMA MovesKeep ==
    ASSUME TypeOK, Inv, NEW t \in Tasks,
           \/ /\ run[t].at \in {"new", "queued", "parked"}
              /\ run'[t].at \in {"queued", "parked", "failing", "dropping", "expiring"}
           \/ run[t].at = "awaits" /\ run'[t].at = "dropping",
           \A u \in Tasks : Same(u),
           \A u \in Tasks : u # t => run'[u].at = run[u].at,
           CancelsGoOn, UNCHANGED <<record, report, handled>>
    PROVE  Inv'
<1>1. ResultInv'
  BY DEF Inv, ResultInv, Same, CancelsGoOn
<1>2. KeptInv'
  BY DEF Inv, KeptInv, Same, TypeOK, RecordTypes
<1>3. MarkInv'
  BY DEF Inv, MarkInv, Same
<1>4. FunctionInv'
  <2> SUFFICES ASSUME NEW u \in Tasks, NEW f \in Function(u)
               PROVE  Gets(u, f)'
    BY DEF FunctionInv, Function
  <2>1. f \in Tasks
    BY FunctionFacts
  <2> QED
    BY <2>1 DEF Inv, FunctionInv, Gets, Same
<1>5. Untold' \subseteq Untold
  BY DEF Untold, Inv, ResultInv, Same
<1>6. UntoldInv'
  BY <1>5, UntoldShrinks DEF Inv
<1> QED
  BY <1>1, <1>2, <1>3, <1>4, <1>6 DEF Inv

\* A step that completes the cell of a task keeps the invariant: the failure
\* is marked before it is known, and the time is over where the task ends.
LEMMA CompletesKeep ==
    ASSUME TypeOK, Inv, NEW t \in Tasks, NEW r \in Ended, NEW a \in Places, Completes(t, r, a),
           \/ r = "cancelled" /\ a = run[t].at /\ run[t].at # "none"
           \/ r = "ok" /\ run[t].at \in {"new", "queued"} /\ a = "dropping"
           \/ r = "expired" /\ run[t].at = "expiring" /\ a = "gone"
           \/ /\ r = "failed" /\ run[t].at = "marked"
              /\ a = IF handle[t].result = "none" THEN "failed" ELSE "dropping",
           \A u \in Tasks : u # t => cancelling'[u] = cancelling[u],
           cancelling[t] = "no" => cancelling'[t] = "no",
           UNCHANGED <<record, report, handled>>
    PROVE  Inv'
<1>a. /\ \A u \in Tasks : u # t => handle'[u].result = handle[u].result
      /\ \A u \in Tasks : handle'[u].unjoined <=> handle[u].unjoined
      /\ \A u \in Tasks : run'[u].got = run[u].got
  BY CompletesFacts
<1>b. /\ handle[t].result = "none" => handle'[t].result = r
      /\ handle[t].result # "none" => handle'[t].result = handle[t].result
      /\ r # "none" /\ run'[t].at = a
  BY CompletesFacts DEF Ended
<1>c. \A u \in Tasks : u # t /\ run'[u].at # run[u].at
         => u = Caller[t] /\ run[u].at = "awaits" /\ run'[u].at = "answered"
            /\ handle[t].result = "none"
  BY CompletesFacts
<1>d. \A u \in Tasks : handle[u].result # "none" => handle'[u].result = handle[u].result
  BY <1>a, <1>b
<1>1. ResultInv'
  <2> SUFFICES ASSUME NEW u \in Tasks
               PROVE  /\ handle'[u].result = "failed" => run'[u].at \in {"failed", "dropping", "gone"}
                      /\ run'[u].at = "failed" => handle'[u].result = "failed"
                      /\ handle'[u].result = "expired" => run'[u].at = "gone"
                      /\ run'[u].at = "none" => /\ handle'[u].result = "none" /\ cancelling'[u] = "no"
                                                /\ u \notin Spawned
                      /\ cancelling'[u] \in {"completed", "joined", "done"} => handle'[u].result # "none"
                      /\ u \in handled => handle'[u].result # "none"
    BY DEF ResultInv, Spawned
  <2>1. CASE u # t
    BY <2>1, <1>a, <1>c DEF Inv, ResultInv
  <2>2. CASE u = t
    BY <2>2, <1>b DEF Inv, ResultInv
  <2> QED
    BY <2>1, <2>2
<1>2. KeptInv'
  BY <1>d DEF Inv, KeptInv, TypeOK, RecordTypes
<1>3. MarkInv'
  <2> SUFFICES ASSUME NEW u \in Tasks
               PROVE  /\ u \in handled /\ handle'[u].result = "failed" => ~handle'[u].unjoined
                      /\ run'[u].at = "marked" /\ handle'[u].result = "none" => handle'[u].unjoined
                      /\ report.at = "no" /\ handle'[u].result = "failed" /\ u \notin handled
                         => handle'[u].unjoined
    BY DEF MarkInv
  <2>1. CASE u # t
    BY <2>1, <1>a, <1>c DEF Inv, MarkInv
  <2>2. CASE u = t
    BY <2>2, <1>a, <1>b DEF Inv, MarkInv, ResultInv
  <2> QED
    BY <2>1, <2>2
<1>4. FunctionInv'
  <2> SUFFICES ASSUME NEW u \in Tasks, NEW f \in Function(u)
               PROVE  Gets(u, f)'
    BY DEF FunctionInv, Function
  <2>1. f \in Tasks /\ Caller[f] = u /\ f # u
    BY FunctionFacts
  <2>2. run'[u].at = "answered" => handle'[f].result # "none"
    <3>1. CASE run[u].at = "answered"
      BY <2>1, <3>1, <1>d DEF Inv, FunctionInv, Gets
    <3>2. CASE run[u].at # "answered" /\ run'[u].at = "answered"
      <4>1. u # t
        BY <3>2, <1>b
      <4>2. u = Caller[t]
        BY <3>2, <4>1, <1>c
      <4>3. t \in Function(u)
        BY <4>1, <4>2 DEF Function, Spawned
      <4>4. f = t
        BY <4>3, FunctionFacts
      <4> QED
        BY <4>4, <1>b
    <3> QED
      BY <3>1, <3>2
  <2>3. run'[u].got # "none" => run'[u].got = handle'[f].result
    BY <2>1, <1>a, <1>d DEF Inv, FunctionInv, Gets
  <2>4. run[f].at = "none" => run'[f].at = "none"
    BY <2>1, <1>b, <1>c
  <2>5. run'[u].at \in {"none", "new", "queued", "parked", "expiring"} \/ handle'[u].result = "expired"
        => run[f].at = "none" \/ run[u].got # "none"
    <3>1. CASE u # t
      BY <3>1, <1>a, <1>c DEF Inv, FunctionInv, Gets
    <3>2. CASE u = t
      BY <3>2, <1>b DEF Inv, FunctionInv, Gets
    <3> QED
      BY <3>1, <3>2
  <2> QED
    BY <2>2, <2>3, <2>4, <2>5, <1>a DEF Gets
<1>5. Untold' \subseteq Untold
  <2> SUFFICES ASSUME NEW u \in Tasks, handle'[u].result = "failed", u \notin handled,
                      run'[u].at \in {"dropping", "gone"}, u \notin record.kept
               PROVE  handle[u].result = "failed" /\ run[u].at \in {"dropping", "gone"}
    BY DEF Untold
  <2>1. CASE u # t
    BY <2>1, <1>a, <1>c
  <2>2. CASE u = t
    BY <2>2, <1>b DEF Inv, ResultInv
  <2> QED
    BY <2>1, <2>2
<1>6. UntoldInv'
  BY <1>5, UntoldShrinks DEF Inv
<1> QED
  BY <1>1, <1>2, <1>3, <1>4, <1>6 DEF Inv

-----------------------------------------------------------------------------
\* What a worker does with a task.
LEMMA RunsKeep ==
    ASSUME TypeOK, Inv, NEW t \in Tasks, Runs(t)
    PROVE  Inv'
<1>a. \A u \in Tasks : EndsAt(u) \in {"dropping", "expiring"}
  BY DEF EndsAt
<1>b. CancelsGoOn \/ cancelling' # cancelling
  BY DEF CancelsGoOn
<1>c. "ok" \in Ended /\ "failed" \in Ended /\ "expired" \in Ended
  BY DEF Ended
<1>d. "dropping" \in Places /\ "failed" \in Places /\ "gone" \in Places
  BY DEF Places
<1>1. CASE EndBeforeItRan(t)
  <2>1. \A u \in Tasks : Same(u)
    BY <1>1, GoesFacts DEF EndBeforeItRan, Same
  <2> QED
    BY <1>1, <1>b, <2>1, GoesFacts, MovesKeep DEF EndBeforeItRan
<1>2. CASE Yield(t)
  <2>1. \A u \in Tasks : Same(u)
    BY <1>2, LearnedFacts DEF Yield, Same, TypeOK, RunTypes, RunType
  <2>2. /\ run'[t].at \in {"queued", "dropping", "expiring"}
        /\ \A u \in Tasks : u # t => run'[u].at = run[u].at
    BY <1>2, <1>a DEF Yield, TypeOK, RunTypes, RunType
  <2>3. run[t].at \in {"new", "queued"} /\ UNCHANGED <<cancelling, record, report, handled>>
    BY <1>2 DEF Yield, Keeps, InHand
  <2> QED
    BY <1>b, <2>1, <2>2, <2>3, MovesKeep
<1>3. CASE Block(t)
  <2> DEFINE a == IF IsLate(t) THEN EndsAt(t) ELSE "parked"
  <2>1. a \in {"parked", "dropping", "expiring"}
    BY <1>a
  <2>2. Goes(t, a)
    BY <1>3 DEF Block
  <2> HIDE DEF a
  <2>3. \A u \in Tasks : Same(u)
    BY <1>3, <2>2, LearnedFacts, GoesFacts DEF Block, Same
  <2>4. run[t].at \in {"new", "queued"} /\ UNCHANGED <<cancelling, record, report, handled>>
    BY <1>3 DEF Block, Keeps, InHand
  <2> QED
    BY <1>b, <2>1, <2>2, <2>3, <2>4, GoesFacts, MovesKeep
<1>4. CASE Complete(t)
  <2>1. run[t].at \in {"new", "queued"} /\ UNCHANGED <<cancelling, record, report, handled>>
    BY <1>4 DEF Complete, Keeps, InHand
  <2>2. Completes(t, "ok", "dropping")
    BY <1>4 DEF Complete
  <2> QED
    BY <1>c, <1>d, <2>1, <2>2, CompletesKeep
<1>5. CASE Fail(t)
  <2> DEFINE a == IF handle[t].result # "none" THEN "dropping" ELSE "failing"
  <2>1. a \in {"dropping", "failing"}
    OBVIOUS
  <2>2. Goes(t, a)
    BY <1>5 DEF Fail
  <2> HIDE DEF a
  <2>3. \A u \in Tasks : Same(u)
    BY <1>5, <2>2, GoesFacts DEF Fail, Same
  <2>4. run[t].at \in {"new", "queued"} /\ UNCHANGED <<cancelling, record, report, handled>>
    BY <1>5 DEF Fail, Keeps, InHand
  <2> QED
    BY <1>b, <2>1, <2>2, <2>3, <2>4, GoesFacts, MovesKeep
<1>6. CASE Deadline(t)
  <2>1. PICK f \in Function(t), d \in Durations :
             LET own == handle[t].deadline
                 until == IF now + d < own THEN now + d ELSE own
             IN /\ run[f].at = "none" /\ Keeps(t)
                /\ handle' = IF IsLate(t) THEN Learned(t)
                             ELSE [handle EXCEPT ![f].deadline = until, ![f].counts = CountOf(t, f, until)]
                /\ run' = IF IsLate(t) THEN [run EXCEPT ![t].at = EndsAt(t)]
                          ELSE [run EXCEPT ![t].at = "awaits", ![f].at = "new"]
    BY <1>6 DEF Deadline
  <2>2. /\ run[t].at \in {"new", "queued"} /\ run[f].at = "none"
        /\ UNCHANGED <<cancelling, record, report, handled>>
    BY <2>1 DEF Keeps, InHand
  <2>3. CASE IsLate(t)
    <3>1. Goes(t, EndsAt(t))
      BY <2>1, <2>3 DEF Goes
    <3>2. \A u \in Tasks : Same(u)
      BY <2>1, <2>3, <3>1, LearnedFacts, GoesFacts DEF Same
    <3> QED
      BY <1>a, <1>b, <2>2, <3>1, <3>2, GoesFacts, MovesKeep
  <2>4. CASE ~IsLate(t)
    <3>0. f \in Tasks /\ f # t /\ f \notin Spawned /\ Caller[f] = t
      BY FunctionFacts
    <3>1. \A u \in Tasks : /\ handle'[u].result = handle[u].result
                           /\ handle'[u].unjoined <=> handle[u].unjoined
      <4> DEFINE own == handle[t].deadline
                 until == IF now + d < own THEN now + d ELSE own
                 c == CountOf(t, f, until)
      <4>1. handle' = [handle EXCEPT ![f].deadline = until, ![f].counts = c]
        BY <2>1, <2>4
      <4> HIDE DEF until, c
      <4> QED
        BY <4>1 DEF TypeOK, HandleTypes, HandleType
    <3>2. /\ \A u \in Tasks : run'[u].got = run[u].got
          /\ \A u \in Tasks : u # t /\ u # f => run'[u].at = run[u].at
          /\ run'[t].at = "awaits" /\ run'[f].at = "new"
      <4>1. run' = [run EXCEPT ![t].at = "awaits", ![f].at = "new"]
        BY <2>1, <2>4
      <4> QED
        BY <3>0, <4>1 DEF TypeOK, RunTypes, RunType
    <3>3. ResultInv'
      BY <2>2, <3>0, <3>1, <3>2 DEF Inv, ResultInv
    <3>4. KeptInv'
      BY <2>2, <3>1 DEF Inv, KeptInv, TypeOK, RecordTypes
    <3>5. MarkInv'
      BY <2>2, <3>1, <3>2 DEF Inv, MarkInv
    <3>6. FunctionInv'
      <4> SUFFICES ASSUME NEW u \in Tasks, NEW g \in Function(u)
                   PROVE  Gets(u, g)'
        BY DEF FunctionInv, Function
      <4>1. g \in Tasks /\ Caller[g] = u /\ g # u
        BY FunctionFacts
      <4>2. g = f <=> u = t
        BY <4>1, <3>0, FunctionFacts
      <4>3. handle[t].result # "expired"
        BY <2>2 DEF Inv, ResultInv
      <4> QED
        BY <2>2, <3>0, <3>1, <3>2, <4>1, <4>2, <4>3 DEF Inv, FunctionInv, Gets
    <3>7. Untold' \subseteq Untold
      BY <2>2, <3>1, <3>2 DEF Untold
    <3>8. UntoldInv'
      BY <2>2, <3>7, UntoldShrinks DEF Inv
    <3> QED
      BY <3>3, <3>4, <3>5, <3>6, <3>8 DEF Inv
  <2> QED
    BY <2>3, <2>4
<1>7. CASE Answer(t)
  <2>1. PICK f \in Function(t), a \in {"dropping", "failing", "expiring", "queued"} :
           /\ run[t].at = "answered"
           /\ run' = [run EXCEPT ![t].at = a, ![t].got = handle[f].result]
           /\ handle' = [Learned(t) EXCEPT ![f].unjoined = @ /\ handle[f].result = "expired"]
           /\ handled' = IF handle[f].result = "failed" THEN handled \cup {f} ELSE handled
           /\ UNCHANGED <<cancelling, record, report>>
    BY <1>7, <1>a DEF Answer
  <2>0. f \in Tasks /\ f # t /\ f \notin Spawned /\ Caller[f] = t /\ handle[f].result # "none"
    BY <2>1, FunctionFacts DEF Inv, FunctionInv, Gets
  <2>2. \A u \in Tasks : /\ handle'[u].result = handle[u].result
                         /\ u # f => (handle'[u].unjoined <=> handle[u].unjoined)
    <3>1. Learned(t) \in [Tasks -> HandleType]
      <4>1. LearnsItIsOver(t) \in BOOLEAN
        BY DEF LearnsItIsOver
      <4> QED
        BY <4>1 DEF TypeOK, HandleTypes, Learned, HandleType
    <3> QED
      BY <2>0, <2>1, <3>1, LearnedFacts DEF HandleType
  <2>3. handle[f].result = "failed" => ~handle'[f].unjoined
    <3>1. Learned(t) \in [Tasks -> HandleType]
      <4>1. LearnsItIsOver(t) \in BOOLEAN
        BY DEF LearnsItIsOver
      <4> QED
        BY <4>1 DEF TypeOK, HandleTypes, Learned, HandleType
    <3> QED
      BY <2>0, <2>1, <3>1 DEF HandleType
  <2>4. /\ run'[t].at = a /\ run'[t].got = handle[f].result
        /\ \A u \in Tasks : u # t => run'[u].at = run[u].at /\ run'[u].got = run[u].got
    BY <2>1 DEF TypeOK, RunTypes, RunType
  <2>a. /\ run[t].at = "answered" /\ a \in {"dropping", "failing", "expiring", "queued"}
        /\ \A u \in Tasks : u \in handled' <=> u \in handled \/ (u = f /\ handle[f].result = "failed")
        /\ UNCHANGED <<cancelling, record, report>>
    BY <2>1
  <2>5. ResultInv'
    BY <2>0, <2>a, <2>2, <2>4 DEF Inv, ResultInv
  <2>6. KeptInv'
    BY <2>a, <2>2 DEF Inv, KeptInv, TypeOK, RecordTypes
  <2>7. MarkInv'
    <3> SUFFICES ASSUME NEW u \in Tasks
                 PROVE  /\ u \in handled' /\ handle'[u].result = "failed" => ~handle'[u].unjoined
                        /\ run'[u].at = "marked" /\ handle'[u].result = "none" => handle'[u].unjoined
                        /\ report.at = "no" /\ handle'[u].result = "failed" /\ u \notin handled'
                           => handle'[u].unjoined
      BY <2>a DEF MarkInv
    <3>1. CASE u = f
      BY <3>1, <2>0, <2>a, <2>2, <2>3
    <3>2. CASE u # f
      BY <3>2, <2>a, <2>2, <2>4 DEF Inv, MarkInv
    <3> QED
      BY <3>1, <3>2
  <2>8. FunctionInv'
    <3> SUFFICES ASSUME NEW u \in Tasks, NEW g \in Function(u)
                 PROVE  Gets(u, g)'
      BY DEF FunctionInv, Function
    <3>1. g \in Tasks /\ g # u
      BY FunctionFacts
    <3>2. CASE u = t
      <4>1. g = f
        BY <3>2, FunctionFacts
      <4> QED
        BY <2>0, <2>a, <2>2, <2>4, <3>2, <4>1 DEF Gets
    <3>3. CASE u # t
      BY <2>0, <2>a, <2>2, <2>4, <3>1, <3>3 DEF Inv, FunctionInv, Gets
    <3> QED
      BY <3>2, <3>3
  <2>9. Untold' \subseteq Untold
    <3>1. run[t].at = "answered" => handle[t].result # "failed"
      BY DEF Inv, ResultInv
    <3> QED
      BY <2>a, <2>2, <2>4, <3>1 DEF Untold
  <2>10. UntoldInv'
    BY <2>a, <2>9, UntoldShrinks DEF Inv
  <2> QED
    BY <2>5, <2>6, <2>7, <2>8, <2>10 DEF Inv
<1>8. CASE FailMarks(t)
  <2>1. /\ run[t].at = "failing" /\ run'[t].at = "marked"
        /\ \A u \in Tasks : u # t => run'[u].at = run[u].at
        /\ \A u \in Tasks : run'[u].got = run[u].got
        /\ UNCHANGED <<cancelling, record, report, handled>>
    BY <1>8, GoesFacts DEF FailMarks
  <2>2. /\ \A u \in Tasks : handle'[u].result = handle[u].result
        /\ \A u \in Tasks : u # t => (handle'[u].unjoined <=> handle[u].unjoined)
        /\ handle'[t].unjoined
    BY <1>8 DEF FailMarks, TypeOK, HandleTypes, HandleType
  <2>3. handle[t].result \notin {"failed", "expired"}
    BY <2>1 DEF Inv, ResultInv
  <2>4. ResultInv'
    <3> DEFINE R(u) ==
           /\ handle[u].result = "failed" => run[u].at \in {"failed", "dropping", "gone"}
           /\ run[u].at = "failed" => handle[u].result = "failed"
           /\ handle[u].result = "expired" => run[u].at = "gone"
           /\ run[u].at = "none" => handle[u].result = "none" /\ cancelling[u] = "no" /\ u \notin Spawned
           /\ cancelling[u] \in {"completed", "joined", "done"} => handle[u].result # "none"
           /\ u \in handled => handle[u].result # "none"
    <3> SUFFICES ASSUME NEW u \in Tasks PROVE R(u)'
      BY DEF ResultInv
    <3>1. R(u)
      BY DEF Inv, ResultInv
    <3>2. /\ handle'[u].result = handle[u].result /\ cancelling' = cancelling /\ handled' = handled
          /\ u # t => run'[u].at = run[u].at
      BY <2>1, <2>2
    <3>3. CASE u = t
      BY <2>1, <2>3, <3>1, <3>2, <3>3
    <3>4. CASE u # t
      BY <3>1, <3>2, <3>4
    <3> QED
      BY <3>3, <3>4
  <2>5. KeptInv'
    BY <2>1, <2>2 DEF Inv, KeptInv, TypeOK, RecordTypes
  <2>6. MarkInv'
    BY <2>1, <2>2, <2>3 DEF Inv, MarkInv
  <2>7. FunctionInv'
    <3> SUFFICES ASSUME NEW u \in Tasks, NEW g \in Function(u)
                 PROVE  Gets(u, g)'
      BY DEF FunctionInv, Function
    <3>1. g \in Tasks
      BY FunctionFacts
    <3> QED
      BY <2>1, <2>2, <2>3, <3>1 DEF Inv, FunctionInv, Gets
  <2>8. Untold' \subseteq Untold
    BY <2>1, <2>2, <2>3 DEF Untold
  <2>9. UntoldInv'
    BY <2>1, <2>8, UntoldShrinks DEF Inv
  <2> QED
    BY <2>4, <2>5, <2>6, <2>7, <2>9 DEF Inv
<1>9. CASE FailCompletes(t)
  <2> DEFINE a == IF handle[t].result = "none" THEN "failed" ELSE "dropping"
  <2>1. a \in Places /\ Completes(t, "failed", a)
    BY <1>9, <1>d DEF FailCompletes
  <2>2. run[t].at = "marked" /\ UNCHANGED <<cancelling, record, report, handled>>
    BY <1>9 DEF FailCompletes
  <2>3. a = IF handle[t].result = "none" THEN "failed" ELSE "dropping"
    OBVIOUS
  <2> HIDE DEF a
  <2> QED
    BY <1>c, <2>1, <2>2, <2>3, CompletesKeep
<1>10. CASE Record(t)
  <2>1. /\ run[t].at = "failed" /\ run'[t].at = "dropping"
        /\ \A u \in Tasks : u # t => run'[u].at = run[u].at
        /\ \A u \in Tasks : run'[u].got = run[u].got
        /\ UNCHANGED <<handle, cancelling, report, handled>>
    BY <1>10, GoesFacts DEF Record
  <2>2. handle[t].result = "failed"
    BY <2>1 DEF Inv, ResultInv
  <2>3. record.kept \subseteq Tasks /\ record.not_recorded \in Nat
    BY DEF TypeOK, RecordTypes
  <2>4. /\ record'.kept \subseteq record.kept \cup {t}
        /\ \A u \in record.kept : handle[u].unjoined => u \in record'.kept
        /\ \/ t \in record'.kept /\ record'.not_recorded = record.not_recorded
           \/ record'.not_recorded = record.not_recorded + 1
    BY <1>10, <2>3 DEF Record, Recorded
  <2>5. ResultInv'
    BY <2>1, <2>2 DEF Inv, ResultInv
  <2>6. KeptInv'
    BY <2>1, <2>2, <2>4 DEF Inv, KeptInv
  <2>7. MarkInv'
    BY <2>1 DEF Inv, MarkInv
  <2>8. FunctionInv'
    <3> SUFFICES ASSUME NEW u \in Tasks, NEW g \in Function(u)
                 PROVE  Gets(u, g)'
      BY DEF FunctionInv, Function
    <3>1. g \in Tasks
      BY FunctionFacts
    <3> QED
      BY <2>1, <2>2, <3>1 DEF Inv, FunctionInv, Gets
  <2>9. UntoldInv'
    <3> SUFFICES ASSUME report.at = "no"
                 PROVE  Cardinality(Untold') <= record'.not_recorded
      BY <2>1 DEF UntoldInv
    <3>1. IsFiniteSet(Untold) /\ t \notin Untold
      <4>1. Untold \subseteq Tasks
        BY DEF Untold
      <4> QED
        BY <4>1, <2>1, Settings, FS_Subset DEF Settings, Untold
    <3>2. Cardinality(Untold) <= record.not_recorded /\ Cardinality(Untold) \in Nat
      BY <3>1, FS_CardinalityType DEF Inv, UntoldInv
    <3>3. Untold' \subseteq Untold \cup {t}
      <4> SUFFICES ASSUME NEW u \in Tasks, u # t, handle[u].result = "failed", u \notin handled,
                          run[u].at \in {"dropping", "gone"}, u \notin record'.kept
                   PROVE  u \notin record.kept
        BY <2>1 DEF Untold
      <4>1. handle[u].unjoined
        BY DEF Inv, MarkInv
      <4> QED
        BY <2>4, <4>1
    <3>4. IsFiniteSet(Untold \cup {t}) /\ Cardinality(Untold \cup {t}) = Cardinality(Untold) + 1
      BY <3>1, FS_AddElement
    <3>5. CASE t \in record'.kept /\ record'.not_recorded = record.not_recorded
      <4>1. Untold' \subseteq Untold
        BY <3>3, <3>5 DEF Untold
      <4>2. Cardinality(Untold') <= Cardinality(Untold) /\ Cardinality(Untold') \in Nat
        BY <3>1, <4>1, FS_Subset, FS_CardinalityType
      <4> QED
        BY <2>3, <3>2, <3>5, <4>2
    <3>6. CASE record'.not_recorded = record.not_recorded + 1
      <4>1. Cardinality(Untold') <= Cardinality(Untold \cup {t}) /\ Cardinality(Untold') \in Nat
        BY <3>3, <3>4, FS_Subset, FS_CardinalityType
      <4> QED
        BY <2>3, <3>2, <3>4, <3>6, <4>1
    <3> QED
      BY <2>4, <3>5, <3>6
  <2> QED
    BY <2>5, <2>6, <2>7, <2>8, <2>9 DEF Inv
<1>11. CASE Drop(t)
  <2>1. CASE run[t].at = "expiring"
    <3>1. Completes(t, "expired", "gone") /\ UNCHANGED <<cancelling, record, report, handled>>
      BY <1>11, <2>1 DEF Drop
    <3> QED
      BY <1>c, <1>d, <2>1, <3>1, CompletesKeep
  <2>2. CASE run[t].at # "expiring"
    <3>1. /\ run[t].at = "dropping" /\ run'[t].at = "gone"
          /\ \A u \in Tasks : u # t => run'[u].at = run[u].at
          /\ \A u \in Tasks : run'[u].got = run[u].got
          /\ UNCHANGED <<handle, cancelling, record, report, handled>>
      BY <1>11, <2>2, GoesFacts DEF Drop
    <3>2. ResultInv'
      BY <3>1 DEF Inv, ResultInv
    <3>3. KeptInv' /\ MarkInv'
      BY <3>1 DEF Inv, KeptInv, MarkInv
    <3>4. FunctionInv'
      <4> SUFFICES ASSUME NEW u \in Tasks, NEW g \in Function(u)
                   PROVE  Gets(u, g)'
        BY <3>1 DEF FunctionInv, Function
      <4>1. g \in Tasks /\ handle[t].result # "expired"
        BY <3>1, FunctionFacts DEF Inv, ResultInv
      <4> QED
        BY <3>1, <4>1 DEF Inv, FunctionInv, Gets
    <3>5. Untold' \subseteq Untold
      BY <3>1 DEF Untold
    <3>6. UntoldInv'
      BY <3>1, <3>5, UntoldShrinks DEF Inv
    <3> QED
      BY <3>2, <3>3, <3>4, <3>6 DEF Inv
  <2> QED
    BY <2>1, <2>2
<1> QED
  BY <1>1, <1>2, <1>3, <1>4, <1>5, <1>6, <1>7, <1>8, <1>9, <1>10, <1>11 DEF Runs

-----------------------------------------------------------------------------
\* Whoever receives or dismisses the failure of a task that has ended takes
\* the mark with it.
LEMMA HandlingKeeps ==
    ASSUME TypeOK, Inv, NEW t \in Tasks, handle[t].result # "none",
           \A u \in Tasks : u # t => Same(u),
           handle'[t].result = handle[t].result, ~handle'[t].unjoined,
           handled' \subseteq handled \cup {t}, handled \subseteq handled',
           handle[t].result = "failed" => t \in handled' \/ report'.at # "no",
           CancelsGoOn, UNCHANGED <<run, record>>,
           report' = report \/ (report'.at # "no" /\ report'.left \subseteq report.left)
    PROVE  Inv'
<1>a. \A u \in Tasks : handle'[u].result = handle[u].result
  BY DEF Same
<1>1. ResultInv'
  BY <1>a DEF Inv, ResultInv, CancelsGoOn
<1>2. KeptInv'
  BY <1>a DEF Inv, KeptInv, TypeOK, RecordTypes
<1>3. MarkInv'
  BY DEF Inv, MarkInv, Same
<1>4. FunctionInv'
  <2> SUFFICES ASSUME NEW u \in Tasks, NEW f \in Function(u) PROVE Gets(u, f)'
    BY DEF FunctionInv, Function
  <2>1. f \in Tasks
    BY FunctionFacts
  <2> QED
    BY <2>1, <1>a DEF Inv, FunctionInv, Gets
<1>5. Untold' \subseteq Untold
  BY <1>a DEF Untold
<1>6. UntoldInv'
  BY <1>5, UntoldShrinks DEF Inv
<1> QED
  BY <1>1, <1>2, <1>3, <1>4, <1>6 DEF Inv

\* A step that leaves the results, the marks and the places.
LEMMA OthersKeep ==
    ASSUME TypeOK, Inv, \A u \in Tasks : Same(u) /\ run'[u].at = run[u].at,
           \/ CancelsGoOn
           \/ \E t \in Tasks : /\ run[t].at # "none" /\ cancelling'[t] = "flagged"
                               /\ \A u \in Tasks : u # t => cancelling'[u] = cancelling[u],
           UNCHANGED handled,
           \/ UNCHANGED <<record, report>>
           \/ /\ report'.at # "no" /\ record'.kept \subseteq record.kept
              /\ report'.left \subseteq report.left \cup record.kept
    PROVE  Inv'
<1>1. ResultInv'
  BY DEF Inv, ResultInv, CancelsGoOn, Same
<1>2. KeptInv'
  BY DEF Inv, KeptInv, Same, TypeOK, RecordTypes
<1>3. MarkInv'
  BY DEF Inv, MarkInv, Same
<1>4. FunctionInv'
  <2> SUFFICES ASSUME NEW u \in Tasks, NEW f \in Function(u) PROVE Gets(u, f)'
    BY DEF FunctionInv, Function
  <2>1. f \in Tasks
    BY FunctionFacts
  <2> QED
    BY <2>1 DEF Inv, FunctionInv, Gets, Same
<1>5. UNCHANGED <<record, report>> => Untold' \subseteq Untold
  BY DEF Untold, Same
<1>6. UntoldInv'
  BY <1>5, UntoldShrinks DEF Inv, UntoldInv
<1> QED
  BY <1>1, <1>2, <1>3, <1>4, <1>6 DEF Inv

\* Every step keeps the invariant.
LEMMA InvStep == TypeOK /\ Inv /\ [Next]_vars => Inv'
<1> SUFFICES ASSUME TypeOK, Inv, [Next]_vars PROVE Inv'
  OBVIOUS
<1>b. CancelsGoOn \/ cancelling' # cancelling
  BY DEF CancelsGoOn
<1>1. ASSUME NEW t \in Tasks, CancelBegins(t) PROVE Inv'
  <2>1. \A u \in Tasks : Same(u) /\ run'[u].at = run[u].at
    BY <1>1 DEF CancelBegins, Same, TypeOK, HandleTypes, HandleType
  <2>2. run[t].at # "none" /\ UNCHANGED <<record, report, handled>>
    BY <1>1 DEF CancelBegins, Inv, ResultInv
  <2>3. cancelling'[t] = "flagged" /\ \A u \in Tasks : u # t => cancelling'[u] = cancelling[u]
    BY <1>1 DEF CancelBegins, TypeOK, RecordTypes
  <2> QED
    BY <2>1, <2>2, <2>3, OthersKeep
<1>2. ASSUME NEW t \in Tasks, CancelCompletes(t) PROVE Inv'
  <2>1. /\ cancelling[t] = "flagged" /\ Completes(t, "cancelled", run[t].at)
        /\ UNCHANGED <<record, report, handled>>
        /\ \A u \in Tasks : u # t => cancelling'[u] = cancelling[u]
    BY <1>2 DEF CancelCompletes, TypeOK, RecordTypes
  <2>2. run[t].at \in Places /\ "cancelled" \in Ended /\ run[t].at # "none"
    BY <2>1 DEF TypeOK, RunTypes, RunType, Ended, Inv, ResultInv
  <2> QED
    BY <2>1, <2>2, CompletesKeep
<1>3. ASSUME NEW t \in Tasks, CancelJoins(t) PROVE Inv'
  <2>1. /\ \A u \in Tasks : u # t => Same(u)
        /\ handle'[t].result = handle[t].result /\ ~handle'[t].unjoined
    BY <1>3 DEF CancelJoins, Same, TypeOK, HandleTypes, HandleType
  <2>2. handle[t].result # "none" /\ CancelsGoOn
    BY <1>3 DEF CancelJoins, Inv, ResultInv, CancelsGoOn, TypeOK, RecordTypes
  <2>3. handled' = handled \cup {t} /\ UNCHANGED <<run, record, report>>
    BY <1>3 DEF CancelJoins
  <2> QED
    BY <2>1, <2>2, <2>3, HandlingKeeps
<1>4. ASSUME NEW t \in Tasks, CancelEndsWait(t) PROVE Inv'
  <2>1. CancelsGoOn /\ UNCHANGED <<handle, record, report, handled>>
    BY <1>4 DEF CancelEndsWait, CancelsGoOn, TypeOK, RecordTypes
  <2>2. CASE run[t].at \in {"parked", "awaits"}
    <3>1. Goes(t, "dropping")
      BY <1>4, <2>2 DEF CancelEndsWait
    <3>2. \A u \in Tasks : Same(u)
      BY <2>1, <3>1, GoesFacts DEF Same
    <3> QED
      BY <2>1, <2>2, <3>1, <3>2, GoesFacts, MovesKeep
  <2>3. CASE run[t].at \notin {"parked", "awaits"}
    <3>1. \A u \in Tasks : Same(u) /\ run'[u].at = run[u].at
      BY <1>4, <2>1, <2>3 DEF CancelEndsWait, Same
    <3> QED
      BY <2>1, <3>1, OthersKeep
  <2> QED
    BY <2>2, <2>3
<1>5. ASSUME NEW t \in Tasks, Unpark(t) \/ TimeUp(t) PROVE Inv'
  <2>1. PICK a \in {"queued", "expiring"} : Goes(t, a)
    BY <1>5 DEF Unpark, TimeUp
  <2>2. run[t].at = "parked" /\ UNCHANGED <<handle, cancelling, record, report, handled>>
    BY <1>5 DEF Unpark, TimeUp
  <2>3. \A u \in Tasks : Same(u)
    BY <2>1, <2>2, GoesFacts DEF Same
  <2> QED
    BY <1>b, <2>1, <2>2, <2>3, GoesFacts, MovesKeep
<1>6. ASSUME NEW t \in Tasks, Join(t) PROVE Inv'
  <2>1. /\ \A u \in Tasks : u # t => Same(u)
        /\ handle'[t].result = handle[t].result /\ ~handle'[t].unjoined
    BY <1>6 DEF Join, Same, TypeOK, HandleTypes, HandleType
  <2>2. handle[t].result # "none" /\ UNCHANGED <<run, cancelling, record, report>>
    BY <1>6 DEF Join
  <2>3. /\ handled' \subseteq handled \cup {t} /\ handled \subseteq handled'
        /\ handle[t].result = "failed" => t \in handled'
    BY <1>6 DEF Join
  <2> QED
    BY <1>b, <2>1, <2>2, <2>3, HandlingKeeps
<1>7. CASE ReportShows
  <2>1. PICK t \in report.left :
          /\ report' = [report EXCEPT !.left = @ \ {t},
                          !.shown = IF handle[t].unjoined /\ handle[t].result # "none"
                                    THEN @ \cup {t} ELSE @]
          /\ handle' = [handle EXCEPT ![t].unjoined = FALSE]
    BY <1>7 DEF ReportShows
  <2>2. t \in Tasks /\ handle[t].result = "failed"
    BY DEF TypeOK, RecordTypes, Inv, KeptInv
  <2>3. /\ \A u \in Tasks : u # t => Same(u)
        /\ handle'[t].result = handle[t].result /\ ~handle'[t].unjoined
    BY <1>7, <2>1, <2>2 DEF ReportShows, Same, TypeOK, HandleTypes, HandleType
  <2>4. report'.at # "no" /\ report'.left \subseteq report.left
    BY <1>7, <2>1 DEF ReportShows, TypeOK, RecordTypes
  <2>5. UNCHANGED <<run, cancelling, record, handled>>
    BY <1>7 DEF ReportShows
  <2> QED
    BY <1>b, <2>2, <2>3, <2>4, <2>5, HandlingKeeps
<1>8. CASE Tick \/ ReportBegins \/ ReportEnds \/ UNCHANGED vars
  <2>1. UNCHANGED <<handle, run, cancelling, handled>>
    BY <1>8 DEF Tick, ReportBegins, ReportEnds, vars
  <2>2. \/ UNCHANGED <<record, report>>
        \/ /\ report'.at # "no" /\ record'.kept \subseteq record.kept
           /\ report'.left \subseteq report.left \cup record.kept
    <3>1. CASE ReportBegins
      BY <3>1 DEF ReportBegins, TypeOK, RecordTypes
    <3>2. CASE ReportEnds
      BY <3>2 DEF ReportEnds, TypeOK, RecordTypes
    <3> QED
      BY <1>8, <3>1, <3>2 DEF Tick, vars
  <2>3. \A u \in Tasks : Same(u) /\ run'[u].at = run[u].at
    BY <2>1 DEF Same
  <2> QED
    BY <1>b, <2>1, <2>2, <2>3, OthersKeep
<1> QED
  BY <1>1, <1>2, <1>3, <1>4, <1>5, <1>6, <1>7, <1>8, RunsKeep DEF Next, Cancels

-----------------------------------------------------------------------------
\* Every reachable state satisfies the invariant, whatever the tasks, who
\* calls task.deadline, and in which order cancels, joins, failures and the
\* report come.
THEOREM HandlesInvariant == Spec => [](TypeOK /\ Inv)
<1>1. Init => TypeOK /\ Inv
  <2> SUFFICES ASSUME Init PROVE TypeOK /\ Inv
    OBVIOUS
  <2>1. PICK d \in [Tasks -> Durations \cup {Never}] :
          handle = [t \in Tasks |->
                         [result |-> IF t \in Failed THEN "failed" ELSE "none",
                          cancelled |-> FALSE, unjoined |-> t \in Failed,
                          deadline |-> d[t], over |-> FALSE, counts |-> t]]
    BY DEF Init
  <2>2. d \in [Tasks -> Int] /\ Failed \subseteq Tasks /\ Failed \subseteq Spawned
    <3>1. Durations \cup {Never} \subseteq Int
      BY Settings DEF Settings, Never
    <3> QED
      BY <3>1, Settings DEF Settings, Spawned
  <2>3. \A t \in Tasks : /\ handle[t].result = IF t \in Failed THEN "failed" ELSE "none"
                         /\ handle[t].unjoined <=> t \in Failed
    BY <2>1
  <2>4. run = [t \in Tasks |->
                [at |-> IF t \in Failed THEN "gone" ELSE IF t \in Spawned THEN "new" ELSE "none",
                 got |-> "none", beat |-> FALSE]]
    BY DEF Init
  <2>5. \A t \in Tasks :
           /\ run[t].at = IF t \in Failed THEN "gone" ELSE IF t \in Spawned THEN "new" ELSE "none"
           /\ run[t].got = "none"
    BY <2>4
  <2>6. /\ cancelling = [t \in Tasks |-> "no"] /\ handled = {} /\ now = 0
        /\ record = [kept |-> Failed, not_recorded |-> 0]
        /\ report = [at |-> "no", left |-> {}, shown |-> {}, not_kept |-> 0]
    BY DEF Init
  <2>7. HandleTypes
    <3>1. /\ \A t \in Tasks : (t \in Failed) \in BOOLEAN
          /\ "failed" \in Results /\ "none" \in Results
      BY DEF Results, Ended
    <3> QED
      BY <2>1, <2>2, <3>1 DEF HandleTypes, HandleType
  <2>8. RunTypes
    BY <2>4 DEF RunTypes, RunType, Places, Results, Ended
  <2>9. RecordTypes
    BY <2>2, <2>6 DEF RecordTypes
  <2>10. ResultInv
    BY <2>2, <2>3, <2>5, <2>6 DEF ResultInv
  <2>11. KeptInv /\ MarkInv
    BY <2>2, <2>3, <2>5, <2>6 DEF KeptInv, MarkInv
  <2>12. FunctionInv
    <3> SUFFICES ASSUME NEW t \in Tasks, NEW f \in Function(t) PROVE Gets(t, f)
      BY DEF FunctionInv
    <3>1. f \in Tasks /\ f \notin Failed /\ f \notin Spawned
      BY <2>2, FunctionFacts
    <3> QED
      BY <2>3, <2>5, <3>1 DEF Gets
  <2>13. UntoldInv
    <3>1. Untold = {}
      BY <2>3, <2>6 DEF Untold
    <3> QED
      BY <2>6, <3>1, FS_EmptySet DEF UntoldInv
  <2> QED
    BY <2>7, <2>8, <2>9, <2>10, <2>11, <2>12, <2>13 DEF TypeOK, Inv
<1>2. TypeOK /\ Inv /\ [Next]_vars => (TypeOK /\ Inv)'
  BY TypeStep, InvStep
<1> QED
  BY <1>1, <1>2, PTL DEF Spec

\* Until the report begins, FailedTasks::record has every failure that nobody
\* has handled, or counts it: fail, cancel, join and the clearing of a full
\* record never lose one between them.
THEOREM NoFailureIsUntoldAlways == Spec => []NoFailureIsUntold
<1>1. TypeOK /\ Inv => NoFailureIsUntold
  <2> SUFFICES ASSUME TypeOK, Inv, report.at = "no" PROVE NoFailureIsUntold
    BY DEF NoFailureIsUntold
  <2> DEFINE unhandled == {t \in Tasks : /\ handle[t].result = "failed" /\ t \notin handled
                                         /\ run[t].at = "gone"}
  <2>1. \A t \in unhandled : handle[t].unjoined
    BY DEF Inv, MarkInv
  <2>2. unhandled \ record.kept \subseteq Untold /\ Untold \subseteq Tasks
    BY DEF Untold
  <2>3. IsFiniteSet(Untold) /\ record.not_recorded \in Nat
    BY <2>2, Settings, FS_Subset DEF Settings, TypeOK, RecordTypes
  <2>4. /\ Cardinality(unhandled \ record.kept) <= Cardinality(Untold)
        /\ Cardinality(unhandled \ record.kept) \in Nat /\ Cardinality(Untold) \in Nat
    BY <2>2, <2>3, FS_Subset, FS_CardinalityType
  <2>5. Cardinality(unhandled \ record.kept) <= record.not_recorded
    BY <2>3, <2>4 DEF Inv, UntoldInv
  <2> QED
    BY <2>1, <2>5 DEF NoFailureIsUntold
<1> QED
  BY <1>1, HandlesInvariant, PTL

\* Deadline::resume gives the caller what its function gave in time, also to
\* one whose own time has passed since.
THEOREM ValueInTimeIsGivenAlways == Spec => []ValueInTimeIsGiven
<1>1. TypeOK /\ Inv => ValueInTimeIsGiven
  <2> SUFFICES ASSUME Inv, NEW t \in Tasks, NEW f \in Function(t), run[t].at = "gone",
                      handle[t].result = "expired", handle[f].result \in {"ok", "failed"}
               PROVE  run[t].got = handle[f].result
    BY DEF ValueInTimeIsGiven
  <2>1. f \in Tasks
    BY FunctionFacts
  <2> QED
    BY <2>1 DEF Inv, FunctionInv, Gets, ResultInv
<1> QED
  BY <1>1, HandlesInvariant, PTL

\* report_unjoined_failures shows a failure that nobody has received or
\* dismissed, whichever step of a fail or of a join the report meets.
THEOREM ShowsNoHandledFailureAlways == Spec => ShowsNoHandledFailure
<1> DEFINE shows == \A t \in report'.shown \ report.shown :
                       handle[t].result = "failed" /\ t \notin handled
<1>1. TypeOK /\ Inv /\ [Next]_vars => [shows]_vars
  <2> SUFFICES ASSUME TypeOK, Inv, Next PROVE shows
    OBVIOUS
  <2>1. CASE ReportShows
    <3>1. PICK t \in report.left :
            report' = [report EXCEPT !.left = @ \ {t},
                          !.shown = IF handle[t].unjoined /\ handle[t].result # "none"
                                    THEN @ \cup {t} ELSE @]
      BY <2>1 DEF ReportShows
    <3>2. t \in Tasks /\ handle[t].result = "failed" /\ (t \in handled => ~handle[t].unjoined)
      BY DEF TypeOK, RecordTypes, Inv, KeptInv, MarkInv
    <3> QED
      BY <3>1, <3>2 DEF TypeOK, RecordTypes
  <2>2. CASE ReportBegins
    BY <2>2 DEF ReportBegins, TypeOK, RecordTypes
  <2>3. CASE ReportEnds
    BY <2>3 DEF ReportEnds, TypeOK, RecordTypes
  <2>4. CASE UNCHANGED report
    BY <2>4
  <2>5. ASSUME NEW t \in Tasks, Runs(t) PROVE UNCHANGED report
    BY <2>5 DEF Runs, EndBeforeItRan, Yield, Block, Complete, Fail, Deadline, Keeps, Answer,
                FailMarks, FailCompletes, Record, Drop
  <2>6. ASSUME NEW t \in Tasks, Cancels(t) \/ Unpark(t) \/ TimeUp(t) \/ Join(t) PROVE UNCHANGED report
    BY <2>6 DEF Cancels, CancelBegins, CancelCompletes, CancelJoins, CancelEndsWait, Unpark,
                TimeUp, Join
  <2> QED
    BY <2>1, <2>2, <2>3, <2>4, <2>5, <2>6 DEF Next, Tick
<1> QED
  BY <1>1, HandlesInvariant, PTL DEF Spec, ShowsNoHandledFailure
=============================================================================
