------------------------- MODULE DeadlockInvariant --------------------------
(***************************************************************************)
(* The inductive invariant behind the verdicts of Inner::check (module     *)
(* Deadlock), for any tasks, any I/O, any number of threads in a check at  *)
(* a time and any number of waits: what a step may do to an actor, an      *)
(* operation, a check and the program's thread, and that the basic facts   *)
(* about each of them are kept.                                            *)
(***************************************************************************)
EXTENDS Deadlock, FiniteSetTheorems, TLAPS

Places == {"none", "run", "enter", "refused", "wait", "fired", "woken", "ending", "gone",
           "resumed", "failed"}
InPark == {"enter", "refused", "wait", "fired", "woken"}
OpPlaces == {"none", "flying", "done", "over", "starting", "started", "serves"}
Phases == {"code", "settle", "settling", "stop", "drop", "cancel", "stopping", "over"}
Waits == {"None", "Blocked", "Settling", "Stopping"}
Pcs == {"idle", "parking", "live", "main", "external", "inspect", "external2", "tell",
        "store", "cancel", "return"}
Causes == Actors \cup Ops \cup Checkers \cup {TimerThread, Nobody}
CheckType == [pc : Pcs, who : Actors \cup Ops \cup {Nobody}, seen : Int, waits : Waits, id : Int]

WaitTypes ==
    /\ at \in [Actors -> Places]
    /\ on \in [Actors -> {"peer", "timed"} \cup Ops]
    /\ by \in [Actors -> Causes]
    /\ result \in {"Fired", "Cancelled"}
OpTypes ==
    /\ op \in [Ops -> OpPlaces]
    /\ held \in [Ops -> BOOLEAN]
    /\ owner \in [Ops -> Actors \cup {Nobody}]
CountTypes == live \in Int /\ parking \in Int /\ external \in Int
MainTypes ==
    /\ main \in [waits : Waits, id : Int]
    /\ blocks \in Int
    /\ phase \in Phases
    /\ told \in BOOLEAN
    /\ todo \subseteq Actors
CheckTypes == check \in [Checkers -> CheckType]
TypeOK == WaitTypes /\ OpTypes /\ CountTypes /\ MainTypes /\ CheckTypes

-----------------------------------------------------------------------------
\* When the External of an operation exists.
HeldInv ==
    \A o \in Ops :
        /\ op[o] \in {"none", "over", "serves"} => ~held[o]
        /\ op[o] \in {"flying", "starting", "started"} => held[o]
        /\ op[o] \in {"starting", "started", "serves"} => o \in Streams

\* A stream's thread is there once it has begun.
ThreadInv == \A s \in Streams : at[s] # "none" => op[s] \in {"started", "serves"}

\* Who waits for an operation has started it and has not given it up.
WaitInv ==
    \A a \in Actors :
        at[a] = "wait" /\ on[a] \in Ops => op[on[a]] = "flying" /\ owner[on[a]] = a

\* Where the program's thread is, and what it waits for.
MainInv ==
    /\ at[Main] \notin {"none", "refused", "ending"}
    /\ phase = "code" <=> at[Main] # "gone"
    /\ at[Main] \in {"enter", "wait", "fired", "woken", "resumed"} =>
          main.waits = "Blocked" /\ main.id = blocks
    /\ main.waits = "Blocked" => at[Main] \in {"enter", "wait", "fired", "woken", "resumed"}
    /\ main.waits = "Settling" <=> phase = "settling"
    /\ main.waits = "Stopping" => phase = "stopping"
    /\ main.waits = "None" => main = NoMain

\* What a check knows of the wait it has read.
KnownInv ==
    \A c \in Checkers :
        /\ check[c].pc \in {"external", "inspect", "external2"} =>
              check[c].waits \in {"Settling", "Blocked"}
        /\ check[c].pc = "tell" => check[c].waits \in {"Settling", "Stopping"}
        /\ check[c].pc \in {"store", "cancel"} => check[c].waits = "Blocked"
        /\ check[c].waits = "Blocked" => check[c].id <= blocks
        /\ check[c].waits = "Settling" => phase \notin {"code", "settle"}

\* Whoever has ended a wait and not yet woken its task stays where it is.
CauseOf(a, x) ==
    \/ x \in Tasks \cup {Main} /\ at[x] \in {"run", "enter"}
    \/ x = Main /\ phase = "cancel"
    \/ x \in Ops /\ op[x] = "done" /\ owner[x] = a /\ held[x]
    \/ x = TimerThread /\ on[a] = "timed"
    \/ x \in Checkers /\ a = Main /\ result = "Cancelled"
    \/ Streaming
CauseInv == \A a \in Actors : at[a] \in {"fired", "woken"} => CauseOf(a, by[a])

\* The counters of a Group.
Alive == {a \in Actors : at[a] \notin {"none", "gone"}}
Parked == {a \in Actors : at[a] \in InPark}
Held == {o \in Ops : held[o]}
CountsInv ==
    /\ live = Cardinality(Alive)
    /\ parking = Cardinality(Parked)
    /\ external = Cardinality(Held)

\* While the registry is held after the exact look, nobody runs.
AllParked ==
    \A a \in Actors : at[a] \in {"none", "gone"} \/ (at[a] \in {"wait", "fired"} /\ on[a] # "timed")
HoldInv == Inspecting => AllParked \/ Streaming

\* What a check is about to tell the program is so.
TellInv ==
    /\ \A c \in Checkers : check[c].pc = "tell" /\ check[c].waits = "Settling" /\ phase = "settling"
          => Stuck({Main}) \/ Streaming
    /\ told /\ phase = "settling" => Stuck({Main}) \/ Streaming
CancelInv ==
    \A c \in Checkers : check[c].pc \in {"store", "cancel"} /\ check[c].id = blocks =>
        /\ at[Main] # "enter"
        /\ at[Main] = "wait" => Stuck({Main}) \/ Streaming
RaiseInv == Raises => Stuck({Main}) \/ Streaming
StopInv ==
    told /\ main.waits = "Stopping" => Streaming \/ \A t \in Tasks : at[t] \in {"none", "gone"}

\* The check that will see the stop.
Sees(c) ==
    \/ check[c].pc \in {"parking", "main"}
    \/ check[c].pc = "live" /\ check[c].seen >= live
    \/ /\ check[c].pc \in {"external", "inspect", "external2"}
       /\ check[c].waits = main.waits /\ check[c].id = main.id
    \/ check[c].pc = "tell" /\ check[c].waits = main.waits
    \/ check[c].pc \in {"store", "cancel"} /\ at[Main] = "wait" /\ check[c].id = blocks
Unheard == at[Main] = "wait" \/ (main.waits = "Settling" /\ ~told)
SeenInv == Stuck({}) /\ Unheard => \E c \in Checkers : Sees(c)

Basics == HeldInv /\ ThreadInv /\ WaitInv /\ MainInv /\ KnownInv /\ CauseInv /\ CountsInv
Inv == Basics /\ HoldInv /\ TellInv /\ CancelInv /\ RaiseInv /\ StopInv /\ SeenInv

-----------------------------------------------------------------------------
\* A thread that enters Inner::check takes a place where nobody is.
LEMMA BeginFacts ==
    ASSUME CheckTypes, NEW who \in Actors \cup Ops \cup {Nobody}, BeginCheck(who)
    PROVE  /\ CheckTypes'
           /\ \E c \in Checkers :
                 /\ check[c].pc = "idle"
                 /\ check'[c].pc = "parking" /\ check'[c].waits = "None" /\ check'[c].id = 0
                 /\ \A d \in Checkers : d # c => check'[d] = check[d]
<1> DEFINE k == CHOOSE j \in Checkers : check[j] = Idle
           r == [Idle EXCEPT !.pc = "parking", !.who = who]
<1>1. k \in Checkers /\ check[k] = Idle
  BY DEF BeginCheck
<1>2. check' = [check EXCEPT ![k] = r]
  BY DEF BeginCheck
<1>3. r \in CheckType /\ r.pc = "parking" /\ r.waits = "None" /\ r.id = 0
  <2>1. Idle \in CheckType /\ Idle.waits = "None" /\ Idle.id = 0
    BY DEF Idle, CheckType, Pcs, Waits
  <2>. QED
    BY <2>1 DEF CheckType, Pcs
<1>4. check[k].pc = "idle"
  BY <1>1 DEF Idle
<1> HIDE DEF k, r
<1>5. CheckTypes'
  BY <1>1, <1>2, <1>3 DEF CheckTypes
<1>6. check'[k] = r /\ \A d \in Checkers : d # k => check'[d] = check[d]
  BY <1>1, <1>2 DEF CheckTypes
<1>. QED
  BY <1>1, <1>3, <1>4, <1>5, <1>6

\* Where a task goes on is a place.
LEMMA GoesOnFacts ==
    ASSUME NEW a \in Actors
    PROVE  /\ GoesOn(a) \in {"run", "ending", "resumed"}
           /\ GoesOn(a) = "resumed" <=> a = Main
           /\ GoesOn(a) = "ending" => a \in Tasks
  BY Sets DEF GoesOn, Sets, Actors

-----------------------------------------------------------------------------
(* Which steps change what.                                                *)

\* The steps that move a task or a thread.
ActorSteps(a) ==
    \/ \E t \in Tasks : Spawn(a, t)
    \/ ParkBegin(a) \/ ParkOver(a)
    \/ \E k \in {"peer", "timed"} \cup Ops : ParkCommit(a, k)
    \/ \E b \in Actors : EndWaitOf(a, b)
    \/ Wake(a) \/ Ready(a) \/ End(a) \/ TimerFires(a) \/ StopCancel(a)
WaitSteps ==
    \/ \E a \in Actors : ActorSteps(a)
    \/ \E o \in Ops : CompleteOp(o) \/ StreamEnters(o)
    \/ MainTakes \/ MainReturns
    \/ \E c \in Checkers : CheckCancel(c)

\* Those that start, end or hand over an operation.
OpSteps ==
    \/ \E a \in Actors, o \in Ops : StartOp(a, o) \/ LeaveOp(a, o)
    \/ \E o \in Ops : Operation(o)

\* Those of the program's thread, or that tell it.
MainSteps ==
    \/ ParkBegin(Main) \/ MainReturns \/ MainGoesOn
    \/ \E c \in Checkers : CheckTell(c)

\* Those of Inner::check.
CheckSteps ==
    \/ \E who \in Actors \cup Ops \cup {Nobody} : BeginCheck(who)
    \/ \E c \in Checkers : Check(c)

Changes ==
    /\ WaitSteps \/ UNCHANGED <<waitVars, live, parking>>
    /\ OpSteps \/ UNCHANGED <<opVars, external>>
    /\ MainSteps \/ UNCHANGED <<main, blocks, phase, told, todo>>
    /\ CheckSteps \/ UNCHANGED check

\* Each step changes what these lists say.
LEMMA StepChanges == [Next]_vars => Changes
<1> SUFFICES ASSUME [Next]_vars PROVE Changes
  OBVIOUS
<1> USE DEF Changes, waitVars, opVars, groupVars, mainVars
<1>0. Main \in Actors /\ Streams \subseteq Actors
  BY DEF Actors
<1>1. ASSUME NEW a \in Actors, Acts(a) PROVE Changes
  <2>1. ASSUME NEW t \in Tasks, Spawn(a, t) PROVE Changes
    BY <2>1 DEF Spawn, WaitSteps, ActorSteps
  <2>2. CASE ParkBegin(a)
    BY <2>2 DEF ParkBegin, WaitSteps, ActorSteps, MainSteps
  <2>3. ASSUME NEW b \in Actors, EndWaitOf(a, b) PROVE Changes
    BY <2>3 DEF EndWaitOf, WaitSteps, ActorSteps
  <2>4. CASE End(a)
    BY <2>4 DEF End, WaitSteps, ActorSteps, CheckSteps
  <2>5. ASSUME NEW o \in Ops, StartOp(a, o) PROVE Changes
    BY <2>5 DEF StartOp, OpSteps
  <2>6. ASSUME NEW o \in Ops, LeaveOp(a, o) PROVE Changes
    BY <2>6, <1>0 DEF LeaveOp, OpSteps, CheckSteps
  <2>. QED
    BY <1>1, <2>1, <2>2, <2>3, <2>4, <2>5, <2>6 DEF Acts
<1>2. ASSUME NEW a \in Actors, Parks(a) PROVE Changes
  <2>1. CASE ParkOver(a)
    BY <2>1 DEF ParkOver, WaitSteps, ActorSteps
  <2>2. ASSUME NEW k \in {"peer", "timed"} \cup Ops, ParkCommit(a, k) PROVE Changes
    BY <2>2, <1>0 DEF ParkCommit, WaitSteps, ActorSteps, CheckSteps
  <2>. QED
    BY <1>2, <2>1, <2>2 DEF Parks
<1>3. ASSUME NEW a \in Actors, Wakes(a) \/ TimerFires(a) PROVE Changes
  <2>1. CASE Wake(a)
    BY <2>1 DEF Wake, WaitSteps, ActorSteps
  <2>2. CASE Ready(a)
    BY <2>2 DEF Ready, WaitSteps, ActorSteps
  <2>3. CASE TimerFires(a)
    BY <2>3 DEF TimerFires, WaitSteps, ActorSteps
  <2>. QED
    BY <1>3, <2>1, <2>2, <2>3 DEF Wakes
<1>4. ASSUME NEW o \in Ops, Operation(o) PROVE Changes
  <2>1. CASE CompleteOp(o)
    BY <2>1, <1>4 DEF CompleteOp, WaitSteps, OpSteps
  <2>2. CASE ReleaseOp(o)
    BY <2>2, <1>4 DEF ReleaseOp, OpSteps, CheckSteps
  <2>3. CASE StreamEnters(o)
    BY <2>3, <1>4 DEF StreamEnters, WaitSteps, OpSteps
  <2>4. CASE StreamReleases(o)
    BY <2>4, <1>4 DEF StreamReleases, OpSteps, CheckSteps
  <2>. QED
    BY <1>4, <2>1, <2>2, <2>3, <2>4 DEF Operation
<1>5. CASE TimerChecks
  BY <1>5 DEF TimerChecks, CheckSteps
<1>6. CASE MainReturns
  BY <1>6, <1>0 DEF MainReturns, WaitSteps, MainSteps, CheckSteps
<1>7. CASE MainGoesOn
  <2>1. CASE MainTakes
    BY <2>1, <1>7 DEF MainTakes, WaitSteps, MainSteps
  <2>2. CASE Settle
    BY <2>2, <1>0, <1>7 DEF Settle, WaitsFor, MainSteps, CheckSteps
  <2>3. CASE Settled \/ StopFlag \/ StopInspect \/ Stopped
    BY <2>3, <1>7 DEF Settled, StopFlag, StopInspect, Stopped, MainSteps
  <2>4. ASSUME NEW a \in Actors, StopCancel(a) PROVE Changes
    BY <2>4, <1>7 DEF StopCancel, WaitSteps, ActorSteps, MainSteps
  <2>5. CASE StopWait
    BY <2>5, <1>0, <1>7 DEF StopWait, WaitsFor, MainSteps, CheckSteps
  <2>. QED
    BY <1>7, <2>1, <2>2, <2>3, <2>4, <2>5 DEF MainGoesOn
<1>8. ASSUME NEW c \in Checkers, Check(c) PROVE Changes
  <2>1. CASE CheckParking(c) \/ CheckLive(c) \/ CheckMain(c) \/ CheckExternal(c)
    BY <2>1, <1>8 DEF CheckParking, CheckLive, CheckMain, CheckExternal, CheckSteps
  <2>2. CASE CheckInspect(c) \/ CheckStopped(c) \/ CheckReturns(c)
    BY <2>2, <1>8 DEF CheckInspect, CheckStopped, CheckReturns, CheckSteps
  <2>3. CASE CheckTell(c)
    BY <2>3, <1>8 DEF CheckTell, MainSteps, CheckSteps
  <2>4. CASE CheckStore(c)
    BY <2>4, <1>8 DEF CheckStore, CheckSteps
  <2>5. CASE CheckCancel(c)
    BY <2>5, <1>8 DEF CheckCancel, WaitSteps, CheckSteps
  <2>. QED
    BY <1>8, <2>1, <2>2, <2>3, <2>4, <2>5 DEF Check
<1>9. CASE UNCHANGED vars
  BY <1>9 DEF vars
<1>. QED
  BY <1>1, <1>2, <1>3, <1>4, <1>5, <1>6, <1>7, <1>8, <1>9 DEF Next

\* Every variable keeps its type.
LEMMA TypeStep == TypeOK /\ KnownInv /\ [Next]_vars => TypeOK'
<1> SUFFICES ASSUME TypeOK, KnownInv, [Next]_vars PROVE TypeOK'
  OBVIOUS
<1>0. Main \in Actors /\ Tasks \subseteq Actors /\ Streams \subseteq Actors
  BY DEF Actors
<1>c. Changes
  BY StepChanges
<1>t. WaitTypes /\ OpTypes /\ CountTypes /\ MainTypes /\ CheckTypes
  BY DEF TypeOK
<1>1. WaitTypes' /\ live' \in Int /\ parking' \in Int
  <2> USE <1>0, <1>t DEF WaitTypes, CountTypes
  <2> DEFINE G == WaitTypes' /\ live' \in Int /\ parking' \in Int
  <2>1. ASSUME NEW a \in Actors, ActorSteps(a) PROVE G
    <3>1. ASSUME NEW t \in Tasks, Spawn(a, t) PROVE G
      BY <3>1 DEF Spawn, Places
    <3>2. CASE ParkBegin(a)
      BY <3>2 DEF ParkBegin, Enters, Places
    <3>3. CASE ParkOver(a)
      BY <3>3, GoesOnFacts DEF ParkOver, Places
    <3>4. ASSUME NEW k \in {"peer", "timed"} \cup Ops, ParkCommit(a, k) PROVE G
      BY <3>4 DEF ParkCommit, Places, groupVars
    <3>5. ASSUME NEW b \in Actors, EndWaitOf(a, b) PROVE G
      BY <3>5 DEF EndWaitOf, Ended, Places, Causes, groupVars
    <3>6. CASE Wake(a)
      BY <3>6 DEF Wake, Places, groupVars
    <3>7. CASE Ready(a)
      BY <3>7, GoesOnFacts DEF Ready, Places, Causes
    <3>8. CASE End(a)
      BY <3>8 DEF End, Places
    <3>9. CASE TimerFires(a)
      BY <3>9 DEF TimerFires, Ended, Places, Causes, groupVars
    <3>10. CASE StopCancel(a)
      BY <3>10 DEF StopCancel, Ended, Places, Causes, groupVars
    <3>. QED
      BY <2>1, <3>1, <3>2, <3>3, <3>4, <3>5, <3>6, <3>7, <3>8, <3>9, <3>10 DEF ActorSteps
  <2>2. ASSUME NEW o \in Ops, CompleteOp(o) PROVE G
    <3>1. live' = live /\ parking' = parking /\ on' = on
      BY <2>2 DEF CompleteOp, groupVars
    <3>2. CASE UNCHANGED <<at, by, result>>
      BY <3>1, <3>2
    <3>3. ASSUME NEW a \in Actors, Ended(a, o), result' \in {"Fired", result} PROVE G
      BY <3>1, <3>3 DEF Ended, Places, Causes
    <3>. QED
      BY <2>2, <3>2, <3>3 DEF CompleteOp
  <2>3. ASSUME NEW o \in Ops, StreamEnters(o) PROVE G
    <3>1. /\ at' = [at EXCEPT ![o] = "run"] /\ live' = live + 1
          /\ UNCHANGED <<on, by, result, parking>>
      BY <2>3 DEF StreamEnters
    <3>2. at' \in [Actors -> Places]
      BY <3>1 DEF Places
    <3>. QED
      BY <3>1, <3>2
  <2>4. CASE MainTakes
    BY <2>4 DEF MainTakes, Places, groupVars
  <2>5. CASE MainReturns
    BY <2>5 DEF MainReturns, Places
  <2>6. ASSUME NEW c \in Checkers, CheckCancel(c) PROVE G
    BY <2>6 DEF CheckCancel, Ended, Places, Causes, groupVars
  <2>7. CASE UNCHANGED <<waitVars, live, parking>>
    BY <2>7 DEF waitVars
  <2>. QED
    BY <1>c, <2>1, <2>2, <2>3, <2>4, <2>5, <2>6, <2>7 DEF Changes, WaitSteps
<1>2. OpTypes' /\ external' \in Int
  <2> USE <1>0, <1>t DEF OpTypes, CountTypes
  <2> DEFINE G == OpTypes' /\ external' \in Int
  <2>1. ASSUME NEW a \in Actors, NEW o \in Ops, StartOp(a, o) PROVE G
    BY <2>1 DEF StartOp, OpPlaces
  <2>2. ASSUME NEW a \in Actors, NEW o \in Ops, LeaveOp(a, o) PROVE G
    BY <2>2 DEF LeaveOp, OpPlaces
  <2>3. ASSUME NEW o \in Ops, CompleteOp(o) PROVE G
    BY <2>3 DEF CompleteOp, OpPlaces, groupVars
  <2>4. ASSUME NEW o \in Ops, ReleaseOp(o) PROVE G
    <3>1. op' \in [Ops -> OpPlaces] /\ owner' \in [Ops -> Actors \cup {Nobody}]
      BY <2>4 DEF ReleaseOp, OpPlaces
    <3>2. CASE held[o]
      <4>1. external' = external - 1 /\ held' = [held EXCEPT ![o] = FALSE]
        BY <2>4, <3>2 DEF ReleaseOp
      <4>. QED
        BY <3>1, <4>1
    <3>3. CASE ~held[o]
      <4>1. external' = external /\ held' = held
        BY <2>4, <3>3 DEF ReleaseOp
      <4>. QED
        BY <3>1, <4>1
    <3>. QED
      BY <3>1, <3>2, <3>3
  <2>5. ASSUME NEW o \in Ops, StreamEnters(o) PROVE G
    BY <2>5 DEF StreamEnters, OpPlaces
  <2>6. ASSUME NEW o \in Ops, StreamReleases(o) PROVE G
    BY <2>6 DEF StreamReleases, OpPlaces
  <2>7. CASE UNCHANGED <<opVars, external>>
    BY <2>7 DEF opVars
  <2>. QED
    BY <1>c, <2>1, <2>2, <2>3, <2>4, <2>5, <2>6, <2>7 DEF Changes, OpSteps, Operation
<1>3. MainTypes'
  <2> USE <1>0, <1>t DEF MainTypes
  <2>1. CASE ParkBegin(Main)
    BY <2>1 DEF ParkBegin, Waits
  <2>2. CASE MainReturns
    BY <2>2 DEF MainReturns, Phases
  <2>3. CASE MainTakes \/ Settled \/ StopFlag \/ Stopped
    BY <2>3 DEF MainTakes, Settled, StopFlag, Stopped, NoMain, Waits, Phases
  <2>4. CASE StopInspect
    BY <2>4 DEF StopInspect, Committed, Phases
  <2>5. ASSUME NEW a \in Actors, StopCancel(a) PROVE MainTypes'
    BY <2>5 DEF StopCancel
  <2>6. CASE Settle \/ StopWait
    <3>1. /\ main' \in {[waits |-> "Settling", id |-> 0], [waits |-> "Stopping", id |-> 0]}
          /\ told' = FALSE /\ phase' \in {"settling", "stopping"} /\ UNCHANGED <<blocks, todo>>
      BY <2>6 DEF Settle, StopWait, WaitsFor
    <3>2. main' \in [waits : Waits, id : Int]
      BY <3>1 DEF Waits
    <3>3. phase' \in Phases
      BY <3>1 DEF Phases
    <3>. QED
      BY <3>1, <3>2, <3>3
  <2>7. ASSUME NEW c \in Checkers, CheckTell(c) PROVE MainTypes'
    BY <2>7 DEF CheckTell
  <2>8. CASE UNCHANGED <<main, blocks, phase, told, todo>>
    BY <2>8
  <2>. QED
    BY <1>c, <2>1, <2>2, <2>3, <2>4, <2>5, <2>6, <2>7, <2>8 DEF Changes, MainSteps, MainGoesOn
<1>4. CheckTypes'
  <2>1. ASSUME NEW who \in Actors \cup Ops \cup {Nobody}, BeginCheck(who) PROVE CheckTypes'
    BY <1>t, <2>1, BeginFacts
  <2>2. ASSUME NEW c \in Checkers, Check(c) PROVE CheckTypes'
    <3> USE <1>t DEF CheckTypes, CheckType, CountTypes, MainTypes
    <3>1. Idle \in CheckType
      BY DEF Idle, Pcs, Waits
    <3>2. ASSUME NEW pc \in Pcs, To(c, pc) PROVE CheckTypes'
      BY <3>2 DEF To
    <3>3. CASE Return(c)
      BY <3>1, <3>3 DEF Return
    <3>4. CASE CheckParking(c)
      <4> DEFINE r == [check[c] EXCEPT !.pc = "live", !.seen = parking]
      <4>1. r \in CheckType
        BY DEF Pcs
      <4>2. check' = [check EXCEPT ![c] = r]
        BY <3>4 DEF CheckParking
      <4>. QED
        BY <4>1, <4>2
    <3>5. CASE CheckLive(c)
      BY <3>5, <3>3 DEF CheckLive, Pcs
    <3>6. CASE CheckMain(c)
      BY <3>6, <3>3 DEF CheckMain, Pcs
    <3>7. CASE CheckExternal(c) \/ CheckInspect(c) \/ CheckStore(c) \/ CheckCancel(c)
      BY <3>7, <3>2, <3>3 DEF CheckExternal, CheckInspect, CheckStore, CheckCancel, Pcs
    <3>8. CASE CheckTell(c) \/ CheckReturns(c)
      BY <3>8, <3>3 DEF CheckTell, CheckReturns
    <3>9. CASE CheckStopped(c)
      BY <3>9, <3>2, <3>3 DEF CheckStopped, KnownInv, Pcs
    <3>. QED
      BY <2>2, <3>4, <3>5, <3>6, <3>7, <3>8, <3>9 DEF Check
  <2>3. CASE UNCHANGED check
    BY <1>t, <2>3 DEF CheckTypes
  <2>. QED
    BY <1>c, <2>1, <2>2, <2>3 DEF Changes, CheckSteps
<1>. QED
  BY <1>1, <1>2, <1>3, <1>4 DEF TypeOK, CountTypes

-----------------------------------------------------------------------------
(* What a step may do to one actor, one operation, one check and to the    *)
(* program's thread.                                                       *)

\* Who may end the wait of a, and in which state.
Ends(a, x) ==
    \/ /\ x \in Actors /\ (Runs(x) \/ at[x] = "enter") /\ at'[x] = at[x]
       /\ a = Main => result' = "Fired"
    \/ /\ x \in Ops /\ op[x] = "flying" /\ on[a] = x /\ op'[x] = "done"
       /\ a = Main => result' = "Fired"
    \/ x = TimerThread /\ on[a] = "timed" /\ (a = Main => result' = "Fired")
    \/ x = Main /\ phase = "cancel" /\ phase' = phase
    \/ x \in Checkers /\ a = Main /\ check[x].pc = "cancel" /\ check[x].id = blocks
                      /\ result' = "Cancelled"

Moved(a) ==
    \/ /\ at[a] = "none" /\ at'[a] = "run"
       /\ \/ a \in Tasks /\ \E b \in Actors : Runs(b)
          \/ a \in Streams /\ op[a] = "starting" /\ op'[a] = "started"
    \/ /\ Runs(a) /\ at'[a] \in {"enter", "refused"}
       /\ a = Main => /\ at'[a] = "enter" /\ blocks' = blocks + 1
                      /\ main'.waits = "Blocked" /\ main'.id = blocks + 1 /\ phase' = phase
    \/ at[a] \in {"enter", "refused"} /\ ~Busy(a) /\ at'[a] = GoesOn(a)
                                      /\ (a = Main => result' = "Fired")
    \/ /\ at[a] = "enter" /\ at'[a] = "wait" /\ ~Busy(a) /\ ~Inspecting
       /\ on'[a] \in Ops => op'[on'[a]] = "flying" /\ owner'[on'[a]] = a
    \/ at[a] = "wait" /\ at'[a] = "fired" /\ Ends(a, by'[a])
    \/ at[a] = "fired" /\ at'[a] = "woken" /\ ~Inspecting
    \/ at[a] = "woken" /\ at'[a] = GoesOn(a)
    \/ a # Main /\ (Runs(a) \/ Ending(a)) /\ at'[a] = "gone"
    \/ /\ a = Main /\ at[a] = "resumed" /\ ~Busy(a)
       /\ at'[a] = IF result = "Fired" THEN "run" ELSE "failed"
       /\ main' = NoMain /\ blocks' = blocks /\ phase' = phase
    \/ /\ a = Main /\ (Runs(a) \/ at[a] = "failed") /\ at'[a] = "gone"
       /\ main' = main /\ blocks' = blocks /\ phase' \in {"settle", "stop"}

\* A wait changes only as its task moves.
Stays(a) == at'[a] = at[a] /\ on'[a] = on[a] /\ by'[a] = by[a]
Kept(a) ==
    /\ at[a] \notin {"enter", "woken"} => on'[a] = on[a]
    /\ at[a] \notin {"wait", "woken"} => by'[a] = by[a]

\* What a step may do to an actor.
LEMMA MoveFacts ==
    ASSUME TypeOK, HeldInv, ThreadInv, [Next]_vars
    PROVE  \A a \in Actors : Stays(a) \/ (Moved(a) /\ Kept(a))
<1> DEFINE G == \A b \in Actors : Stays(b) \/ (Moved(b) /\ Kept(b))
<1>0. Main \in Actors /\ Tasks \subseteq Actors /\ Streams \subseteq Actors
  BY DEF Actors
<1>c. Changes
  BY StepChanges
<1>t. WaitTypes
  BY DEF TypeOK
<1> USE <1>0, <1>t DEF WaitTypes, Stays, Kept
<1>f. ASSUME NEW b \in Actors, NEW x, at[b] = "wait", Ended(b, x), on' = on, Ends(b, x)
      PROVE  G
  <2>1. at'[b] = "fired" /\ by'[b] = x
    BY <1>f DEF Ended
  <2>2. \A d \in Actors : d # b => Stays(d)
    BY <1>f DEF Ended
  <2>3. Moved(b) /\ Kept(b)
    BY <1>f, <2>1 DEF Moved
  <2>. QED
    BY <2>2, <2>3
<1>1. ASSUME NEW a \in Actors, ActorSteps(a) PROVE G
  <2>1. ASSUME NEW t \in Tasks, Spawn(a, t) PROVE G
    BY <2>1 DEF Spawn, Moved
  <2>2. CASE ParkBegin(a)
    <3>1. at' = [at EXCEPT ![a] = Enters(a)] /\ Runs(a) /\ on' = on /\ by' = by
      BY <2>2 DEF ParkBegin
    <3>2. Enters(a) \in {"enter", "refused"} /\ (a = Main => Enters(a) = "enter")
      BY Sets DEF Enters, Sets
    <3>3. a = Main => /\ blocks' = blocks + 1 /\ main'.waits = "Blocked"
                      /\ main'.id = blocks + 1 /\ phase' = phase
      BY <2>2 DEF ParkBegin
    <3>. QED
      BY <3>1, <3>2, <3>3 DEF Moved
  <2>3. CASE ParkOver(a)
    BY <2>3 DEF ParkOver, Moved
  <2>4. ASSUME NEW k \in {"peer", "timed"} \cup Ops, ParkCommit(a, k) PROVE G
    BY <2>4 DEF ParkCommit, Moved, opVars
  <2>5. ASSUME NEW b \in Actors, EndWaitOf(a, b) PROVE G
    <3>1. /\ at[b] = "wait" /\ Ended(b, a) /\ on' = on /\ (b = Main => result' = "Fired")
          /\ Runs(a) \/ at[a] = "enter"
      BY <2>5 DEF EndWaitOf
    <3>2. at[a] # "wait"
      BY <3>1 DEF Runs
    <3>3. at'[a] = at[a]
      BY <3>1, <3>2 DEF Ended
    <3>4. Ends(b, a)
      BY <3>1, <3>3 DEF Ends
    <3>. QED
      BY <1>f, <3>1, <3>4
  <2>6. CASE Wake(a)
    BY <2>6 DEF Wake, Moved
  <2>7. CASE Ready(a)
    BY <2>7 DEF Ready, Moved
  <2>8. CASE End(a)
    BY <2>8 DEF End, Moved
  <2>9. CASE TimerFires(a)
    <3>1. /\ at[a] = "wait" /\ on[a] = "timed" /\ Ended(a, TimerThread) /\ on' = on
          /\ a = Main => result' = "Fired"
      BY <2>9 DEF TimerFires
    <3>2. Ends(a, TimerThread)
      BY <3>1 DEF Ends
    <3>. QED
      BY <1>f, <3>1, <3>2
  <2>10. CASE StopCancel(a)
    <3>1. phase = "cancel" /\ phase' = phase /\ on' = on
      BY <2>10 DEF StopCancel
    <3>2. CASE at[a] = "wait"
      <4>1. Ended(a, Main)
        BY <2>10, <3>2 DEF StopCancel
      <4>2. Ends(a, Main)
        BY <3>1 DEF Ends
      <4>. QED
        BY <1>f, <3>1, <3>2, <4>1, <4>2
    <3>3. CASE at[a] # "wait"
      BY <2>10, <3>1, <3>3 DEF StopCancel
    <3>. QED
      BY <3>2, <3>3
  <2>. QED
    BY <1>1, <2>1, <2>2, <2>3, <2>4, <2>5, <2>6, <2>7, <2>8, <2>9, <2>10 DEF ActorSteps
<1>2. ASSUME NEW o \in Ops, CompleteOp(o) PROVE G
  <2>1. on' = on /\ op[o] = "flying" /\ op'[o] = "done"
    BY <1>2 DEF CompleteOp, TypeOK, OpTypes
  <2>2. CASE UNCHANGED <<at, by, result>>
    BY <2>1, <2>2
  <2>3. ASSUME NEW a \in Actors, at[a] = "wait", on[a] = o, Ended(a, o),
               result' = IF a = Main THEN "Fired" ELSE result
        PROVE  G
    <3>1. Ends(a, o)
      BY <2>1, <2>3 DEF Ends
    <3>. QED
      BY <1>f, <2>1, <2>3, <3>1
  <2>. QED
    BY <1>2, <2>2, <2>3 DEF CompleteOp
<1>3. ASSUME NEW o \in Ops, StreamEnters(o) PROVE G
  <2>1. op[o] = "starting" /\ op'[o] = "started" /\ at' = [at EXCEPT ![o] = "run"]
        /\ on' = on /\ by' = by
    BY <1>3 DEF StreamEnters, TypeOK, OpTypes
  <2>2. o \in Streams /\ at[o] = "none"
    BY <2>1 DEF HeldInv, ThreadInv
  <2>. QED
    BY <2>1, <2>2 DEF Moved
<1>4. CASE MainTakes
  BY <1>4 DEF MainTakes, Moved
<1>5. CASE MainReturns
  BY <1>5 DEF MainReturns, Moved
<1>6. ASSUME NEW c \in Checkers, CheckCancel(c) PROVE G
  <2>1. check[c].pc = "cancel" /\ on' = on
    BY <1>6 DEF CheckCancel
  <2>2. CASE at[Main] = "wait" /\ blocks = check[c].id
    <3>1. Ended(Main, c) /\ result' = "Cancelled"
      BY <1>6, <2>2 DEF CheckCancel
    <3>2. Ends(Main, c)
      BY <2>1, <2>2, <3>1 DEF Ends
    <3>. QED
      BY <1>f, <2>1, <2>2, <3>1, <3>2
  <2>3. CASE ~(at[Main] = "wait" /\ blocks = check[c].id)
    BY <1>6, <2>1, <2>3 DEF CheckCancel
  <2>. QED
    BY <2>2, <2>3
<1>7. CASE UNCHANGED <<waitVars, live, parking>>
  BY <1>7 DEF waitVars
<1>. QED
  BY <1>c, <1>1, <1>2, <1>3, <1>4, <1>5, <1>6, <1>7 DEF Changes, WaitSteps

OpStays(o) == op'[o] = op[o] /\ held'[o] = held[o] /\ owner'[o] = owner[o]
OpMoved(o) ==
    \/ op[o] = "none" /\ op'[o] \in {"flying", "starting"} /\ held'[o]
       /\ (op'[o] = "starting" => o \in Streams) /\ \E b \in Actors : Runs(b)
    \/ /\ op[o] = "flying" /\ op'[o] = "done" /\ held'[o] = held[o] /\ owner'[o] = owner[o]
       /\ \/ \A a \in Actors : at[a] = "wait" => on[a] # o
          \/ \E a \in Actors : at[a] = "wait" /\ on[a] = o /\ at'[a] = "fired"
    \/ op[o] = "done" /\ op'[o] = "over" /\ ~Busy(o) /\ ~held'[o]
    \/ /\ op[o] \in {"flying", "done"} /\ ~held'[o] /\ op'[o] = IF op[o] = "flying" THEN "over" ELSE op[o]
       /\ \E a \in Actors : (Runs(a) \/ Ending(a)) /\ owner[o] = a
    \/ op[o] = "starting" /\ op'[o] = "started" /\ held'[o] = held[o]
    \/ op[o] = "started" /\ op'[o] = "serves" /\ ~held'[o]

\* What a step may do to an operation.
LEMMA OpFacts ==
    ASSUME TypeOK, HeldInv, [Next]_vars
    PROVE  \A o \in Ops : OpStays(o) \/ OpMoved(o)
<1> DEFINE G == \A p \in Ops : OpStays(p) \/ OpMoved(p)
<1>c. Changes
  BY StepChanges
<1>t. OpTypes /\ WaitTypes
  BY DEF TypeOK
<1> USE <1>t DEF OpTypes, OpStays
<1>1. ASSUME NEW a \in Actors, NEW o \in Ops, StartOp(a, o) PROVE G
  BY <1>1 DEF StartOp, OpMoved
<1>2. ASSUME NEW a \in Actors, NEW o \in Ops, LeaveOp(a, o) PROVE G
  BY <1>2 DEF LeaveOp, OpMoved
<1>3. ASSUME NEW o \in Ops, CompleteOp(o) PROVE G
  <2>1. op[o] = "flying" /\ op' = [op EXCEPT ![o] = "done"] /\ held' = held /\ owner' = owner
    BY <1>3 DEF CompleteOp
  <2>2. \/ \A a \in Actors : at[a] = "wait" => on[a] # o
        \/ \E a \in Actors : at[a] = "wait" /\ on[a] = o /\ at'[a] = "fired"
    BY <1>3 DEF CompleteOp, Ended, WaitTypes
  <2>. QED
    BY <2>1, <2>2 DEF OpMoved
<1>4. ASSUME NEW o \in Ops, ReleaseOp(o) PROVE G
  <2>1. op[o] = "done" /\ ~Busy(o) /\ op' = [op EXCEPT ![o] = "over"]
        /\ owner' = [owner EXCEPT ![o] = Nobody]
    BY <1>4 DEF ReleaseOp
  <2>2. ~held'[o] /\ \A p \in Ops : p # o => held'[p] = held[p]
    BY <1>4 DEF ReleaseOp
  <2>. QED
    BY <2>1, <2>2 DEF OpMoved
<1>5. ASSUME NEW o \in Ops, StreamEnters(o) PROVE G
  BY <1>5 DEF StreamEnters, OpMoved
<1>6. ASSUME NEW o \in Ops, StreamReleases(o) PROVE G
  BY <1>6 DEF StreamReleases, OpMoved
<1>7. CASE UNCHANGED <<opVars, external>>
  BY <1>7 DEF opVars
<1>. QED
  BY <1>c, <1>1, <1>2, <1>3, <1>4, <1>5, <1>6, <1>7 DEF Changes, OpSteps, Operation

\* Where a check goes: what it has seen, and what it has read before.
CheckMoved(c) ==
    \/ check[c].pc = "idle" /\ check'[c].pc = "parking" /\ check'[c].waits = "None"
    \/ check'[c] = Idle /\ check[c].pc \notin {"parking", "idle"}
       /\ (check[c].pc = "live" => check[c].seen < live)
       /\ (check[c].pc = "main" => main = NoMain)
       /\ (check[c].pc \in {"external", "external2"} /\ check[c].waits = "Settling" => external > 0)
       /\ (check[c].pc = "external" => external > 0)
       /\ (check[c].pc = "external2" /\ check[c].waits = "Blocked" =>
             external > 0 \/ Main \notin Committed \/ blocks # check[c].id)
       /\ (check[c].pc = "inspect" => Cardinality(Committed) # live
                                      \/ \E a \in Committed : on[a] = "timed")
       /\ (check[c].pc = "tell" => told' \/ main.waits # check[c].waits
                                   \/ check[c].waits = "Stopping")
       /\ check[c].pc \notin {"store", "cancel"}
    \/ /\ check[c].pc = "parking" /\ check'[c].pc = "live" /\ check'[c].seen = parking
       /\ check'[c].waits = check[c].waits /\ check'[c].id = check[c].id
    \/ /\ check[c].pc = "live" /\ check'[c].pc = "main"
       /\ check'[c].waits = check[c].waits /\ check'[c].id = check[c].id
    \/ /\ check[c].pc = "main" /\ main # NoMain
       /\ check'[c].pc = IF main.waits = "Stopping" THEN "tell" ELSE "external"
       /\ check'[c].waits = main.waits /\ check'[c].id = main.id
    \/ /\ check'[c].waits = check[c].waits /\ check'[c].id = check[c].id
       /\ \/ check[c].pc = "external" /\ check'[c].pc = "inspect"
          \/ /\ check[c].pc = "inspect" /\ check'[c].pc = "external2"
             /\ Cardinality(Committed) = live /\ \A a \in Committed : on[a] # "timed"
             /\ at' = at /\ on' = on
          \/ /\ check[c].pc = "external2" /\ check'[c].pc = "tell"
             /\ check[c].waits = "Settling" /\ external <= 0
          \/ /\ check[c].pc = "external2" /\ check'[c].pc = "store" /\ external <= 0
             /\ check[c].waits = "Blocked" /\ Main \in Committed /\ blocks = check[c].id
          \/ check[c].pc = "store" /\ check'[c].pc = "cancel"
          \/ /\ check[c].pc = "cancel" /\ check'[c].pc = "return"
             /\ at[Main] = "wait" /\ blocks = check[c].id => at'[Main] = "fired"

\* What a step may do to a check.  It changes nothing else but by telling
\* the program and by ending its wait.
LEMMA CheckFacts ==
    ASSUME TypeOK, KnownInv, [Next]_vars
    PROVE  \A c \in Checkers : check'[c] = check[c] \/ CheckMoved(c)
<1> DEFINE G == \A d \in Checkers : check'[d] = check[d] \/ CheckMoved(d)
<1>c. Changes
  BY StepChanges
<1>t. CheckTypes /\ CountTypes /\ MainTypes /\ WaitTypes
  BY DEF TypeOK
<1>m. Main \in Actors
  BY DEF Actors
<1>1. ASSUME NEW who \in Actors \cup Ops \cup {Nobody}, BeginCheck(who) PROVE G
  <2>1. PICK c \in Checkers : /\ check[c].pc = "idle"
                              /\ check'[c].pc = "parking" /\ check'[c].waits = "None" /\ check'[c].id = 0
                              /\ \A d \in Checkers : d # c => check'[d] = check[d]
    BY <1>t, <1>1, BeginFacts
  <2>. QED
    BY <2>1 DEF CheckMoved
<1>2. ASSUME NEW c \in Checkers, Check(c) PROVE G
  <2> DEFINE Others == \A d \in Checkers : d # c => check'[d] = check[d]
             Keeps == check'[c].waits = check[c].waits /\ check'[c].id = check[c].id
  <2>1. ASSUME NEW pc, To(c, pc) PROVE Others /\ Keeps /\ check'[c].pc = pc
    BY <1>t, <2>1 DEF To, CheckTypes, CheckType
  <2>3. Return(c) => Others /\ check'[c] = Idle
    BY <1>t DEF Return, CheckTypes
  <2>4. CASE CheckParking(c)
    <3>1. Others /\ Keeps /\ check[c].pc = "parking" /\ check'[c].pc = "live" /\ check'[c].seen = parking
      BY <1>t, <2>4 DEF CheckParking, CheckTypes, CheckType
    <3>. QED
      BY <3>1 DEF CheckMoved
  <2>5. CASE CheckLive(c)
    <3>1. check[c].pc = "live"
      BY <2>5 DEF CheckLive
    <3>2. CASE check[c].seen < live
      BY <2>3, <2>5, <3>1, <3>2 DEF CheckLive, CheckMoved
    <3>3. CASE ~(check[c].seen < live)
      <4>1. Others /\ Keeps /\ check'[c].pc = "main"
        BY <1>t, <2>5, <3>3 DEF CheckLive, CheckTypes, CheckType
      <4>. QED
        BY <3>1, <4>1 DEF CheckMoved
    <3>. QED
      BY <3>2, <3>3
  <2>6. CASE CheckMain(c)
    <3>1. check[c].pc = "main"
      BY <2>6 DEF CheckMain
    <3>2. CASE main = NoMain
      BY <2>3, <2>6, <3>1, <3>2 DEF CheckMain, CheckMoved
    <3>3. CASE main # NoMain
      <4>1. /\ Others /\ check'[c].waits = main.waits /\ check'[c].id = main.id
            /\ check'[c].pc = IF main.waits = "Stopping" THEN "tell" ELSE "external"
        BY <1>t, <2>6, <3>3 DEF CheckMain, CheckTypes, CheckType
      <4>. QED
        BY <3>1, <3>3, <4>1 DEF CheckMoved
    <3>. QED
      BY <3>2, <3>3
  <2>7. CASE CheckExternal(c)
    <3>1. check[c].pc = "external"
      BY <2>7 DEF CheckExternal
    <3>2. CASE external > 0
      <4>1. Others /\ check'[c] = Idle
        BY <2>3, <2>7, <3>2 DEF CheckExternal
      <4>. QED
        BY <3>1, <3>2, <4>1 DEF CheckMoved
    <3>3. CASE ~(external > 0)
      <4>1. Others /\ Keeps /\ check'[c].pc = "inspect"
        BY <2>1, <2>7, <3>3 DEF CheckExternal
      <4>. QED
        BY <3>1, <4>1 DEF CheckMoved
    <3>. QED
      BY <3>2, <3>3
  <2>8. CASE CheckInspect(c)
    <3> DEFINE AllWait == Cardinality(Committed) = live /\ \A a \in Committed : on[a] # "timed"
    <3>1. check[c].pc = "inspect" /\ at' = at /\ on' = on
      BY <2>8 DEF CheckInspect, waitVars
    <3>2. CASE AllWait
      <4>1. Others /\ Keeps /\ check'[c].pc = "external2"
        BY <2>1, <2>8, <3>2 DEF CheckInspect
      <4>. QED
        BY <3>1, <3>2, <4>1 DEF CheckMoved
    <3>3. CASE ~AllWait
      <4>1. Others /\ check'[c] = Idle
        BY <2>3, <2>8, <3>3 DEF CheckInspect
      <4>. QED
        BY <3>1, <3>3, <4>1 DEF CheckMoved
    <3>. QED
      BY <3>2, <3>3
  <2>9. CASE CheckStopped(c)
    <3>1. check[c].pc = "external2" /\ check[c].waits \in {"Settling", "Blocked"}
      BY <2>9 DEF CheckStopped, KnownInv
    <3>2. CASE Return(c)
      <4>1. Others /\ check'[c] = Idle
        BY <2>3, <3>2
      <4>2. \/ external > 0
            \/ check[c].waits = "Settling" /\ To(c, "tell")
            \/ check[c].waits = "Blocked" /\ (Main \notin Committed \/ blocks # check[c].id)
            \/ check[c].waits = "Blocked" /\ To(c, "store")
        BY <2>9, <3>1 DEF CheckStopped
      <4>3. ~To(c, "tell") /\ ~To(c, "store")
        <5>0. Idle.pc = "idle"
          BY DEF Idle
        <5>1. check'[c].pc = "idle"
          BY <4>1, <5>0
        <5>. QED
          BY <2>1, <5>1
      <4>4. CheckMoved(c)
        BY <4>1, <4>2, <4>3, <3>1 DEF CheckMoved
      <4>. QED
        BY <4>1, <4>4
    <3>3. CASE To(c, "tell") /\ ~(external > 0) /\ check[c].waits = "Settling"
      <4>1. Others /\ Keeps /\ check'[c].pc = "tell"
        BY <2>1, <3>3
      <4>2. external <= 0
        <5>1. ~(external > 0)
          BY <3>3
        <5>2. external \in Int
          BY <1>t DEF CountTypes
        <5>. QED
          BY <5>1, <5>2
      <4>. QED
        BY <3>1, <3>3, <4>1, <4>2 DEF CheckMoved
    <3>4. CASE To(c, "store") /\ ~(external > 0) /\ check[c].waits = "Blocked"
               /\ Main \in Committed /\ blocks = check[c].id
      <4>1. Others /\ Keeps /\ check'[c].pc = "store"
        BY <2>1, <3>4
      <4>2. external <= 0
        <5>1. ~(external > 0)
          BY <3>4
        <5>2. external \in Int
          BY <1>t DEF CountTypes
        <5>. QED
          BY <5>1, <5>2
      <4>. QED
        BY <3>1, <3>4, <4>1, <4>2 DEF CheckMoved
    <3>. QED
      BY <2>9, <3>1, <3>2, <3>3, <3>4 DEF CheckStopped
  <2>10. CASE CheckTell(c)
    BY <2>3, <2>10 DEF CheckTell, CheckMoved
  <2>11. CASE CheckStore(c)
    BY <2>1, <2>11 DEF CheckStore, CheckMoved
  <2>12. CASE CheckCancel(c)
    <3>1. check[c].pc = "cancel" /\ Others /\ Keeps /\ check'[c].pc = "return"
      BY <2>1, <2>12 DEF CheckCancel
    <3>2. at[Main] = "wait" /\ blocks = check[c].id => at'[Main] = "fired"
      BY <1>t, <1>m, <2>12 DEF CheckCancel, Ended, WaitTypes
    <3>. QED
      BY <3>1, <3>2 DEF CheckMoved
  <2>13. CASE CheckReturns(c)
    BY <2>3, <2>13 DEF CheckReturns, CheckMoved
  <2>. QED
    BY <1>2, <2>4, <2>5, <2>6, <2>7, <2>8, <2>9, <2>10, <2>11, <2>12, <2>13 DEF Check
<1>3. CASE UNCHANGED check
  BY <1>3
<1>. QED
  BY <1>c, <1>1, <1>2, <1>3 DEF Changes, CheckSteps

\* What the program's thread does after its code.
PhaseMoved ==
    /\ at'[Main] = at[Main] /\ blocks' = blocks
    /\ \/ phase = "settle" /\ phase' = "settling" /\ main'.waits = "Settling" /\ ~told'
       \/ phase = "settling" /\ phase' = "stop" /\ main' = NoMain
       \/ phase = "stop" /\ phase' = "drop" /\ main' = main
       \/ phase = "drop" /\ phase' = "cancel" /\ main' = main
       \/ phase = "cancel" /\ phase' = "stopping" /\ main'.waits = "Stopping" /\ ~told' /\ ~Busy(Main)
       \/ phase = "stopping" /\ phase' = "over" /\ main' = NoMain
MainMoved ==
    \/ /\ Runs(Main) /\ at'[Main] = "enter" /\ blocks' = blocks + 1
       /\ main'.waits = "Blocked" /\ main'.id = blocks + 1 /\ phase' = phase
    \/ /\ at[Main] = "resumed" /\ at'[Main] \in {"run", "failed"}
       /\ main' = NoMain /\ blocks' = blocks /\ phase' = phase
    \/ /\ at[Main] \in {"run", "failed"} /\ at'[Main] = "gone"
       /\ main' = main /\ blocks' = blocks /\ phase' \in {"settle", "stop"}
    \/ PhaseMoved

\* What a step may do to the program's thread, and when it is told.
LEMMA MainFacts ==
    ASSUME TypeOK, [Next]_vars
    PROVE  /\ (main' = main /\ blocks' = blocks /\ phase' = phase) \/ MainMoved
           /\ ~told /\ told' => /\ main' = main /\ phase' = phase
                                /\ \E c \in Checkers :
                                      /\ check[c].pc = "tell" /\ main.waits = check[c].waits
                                      /\ check[c].waits = "Stopping" => live = 0
<1> DEFINE Told == ~told /\ told' =>
                      /\ main' = main /\ phase' = phase
                      /\ \E c \in Checkers :
                            /\ check[c].pc = "tell" /\ main.waits = check[c].waits
                            /\ check[c].waits = "Stopping" => live = 0
           G == ((main' = main /\ blocks' = blocks /\ phase' = phase) \/ MainMoved) /\ Told
<1>c. Changes
  BY StepChanges
<1>t. Main \in Actors /\ at \in [Actors -> Places] /\ told \in BOOLEAN
  BY DEF TypeOK, WaitTypes, MainTypes, Actors
<1>1. CASE ParkBegin(Main)
  <2>1. Enters(Main) = "enter"
    BY Sets DEF Sets, Enters
  <2>2. /\ Runs(Main) /\ at' = [at EXCEPT ![Main] = "enter"] /\ blocks' = blocks + 1
        /\ main' = [waits |-> "Blocked", id |-> blocks + 1] /\ phase' = phase /\ told' = told
    BY <1>1, <2>1 DEF ParkBegin
  <2>3. at'[Main] = "enter"
    BY <1>t, <2>2
  <2>4. main'.waits = "Blocked" /\ main'.id = blocks + 1
    BY <2>2
  <2>. QED
    BY <2>2, <2>3, <2>4 DEF MainMoved
<1>2. CASE MainReturns
  BY <1>2, <1>t DEF MainReturns, MainMoved, Runs
<1>3. CASE MainTakes
  BY <1>3, <1>t DEF MainTakes, MainMoved
<1>4. CASE Settled \/ StopFlag \/ StopInspect \/ Stopped
  <2>1. at' = at /\ blocks' = blocks /\ told' = told
    BY <1>4 DEF Settled, StopFlag, StopInspect, Stopped, waitVars
  <2>2. PhaseMoved
    BY <1>4, <2>1 DEF Settled, StopFlag, StopInspect, Stopped, PhaseMoved
  <2>. QED
    BY <2>1, <2>2 DEF MainMoved
<1>5. CASE Settle \/ StopWait
  <2>1. at' = at /\ blocks' = blocks /\ told' = FALSE
    BY <1>5 DEF Settle, StopWait, WaitsFor, waitVars
  <2>2. \/ phase = "settle" /\ phase' = "settling" /\ main'.waits = "Settling"
        \/ phase = "cancel" /\ phase' = "stopping" /\ main'.waits = "Stopping" /\ ~Busy(Main)
    BY <1>5 DEF Settle, StopWait, WaitsFor
  <2>3. PhaseMoved
    BY <2>1, <2>2 DEF PhaseMoved
  <2>. QED
    BY <2>1, <2>3 DEF MainMoved
<1>6. ASSUME NEW a \in Actors, StopCancel(a) PROVE G
  BY <1>6 DEF StopCancel
<1>7. ASSUME NEW c \in Checkers, CheckTell(c) PROVE G
  BY <1>7, <1>t DEF CheckTell
<1>8. CASE UNCHANGED <<main, blocks, phase, told, todo>>
  BY <1>8
<1>. QED
  BY <1>c, <1>1, <1>2, <1>3, <1>4, <1>5, <1>6, <1>7, <1>8 DEF Changes, MainSteps, MainGoesOn

\* How the wait of the program ended does not change until it waits again.
LEMMA ResultFacts ==
    ASSUME TypeOK, [Next]_vars, at[Main] \notin {"enter", "refused", "wait"}
    PROVE  result' = result
<1>c. Changes
  BY StepChanges
<1>1. ASSUME NEW a \in Actors, ActorSteps(a) PROVE result' = result
  <2>1. ASSUME NEW t \in Tasks, Spawn(a, t) PROVE result' = result
    BY <2>1 DEF Spawn
  <2>2. CASE ParkBegin(a) \/ ParkOver(a)
    BY <2>2 DEF ParkBegin, ParkOver
  <2>3. ASSUME NEW k, ParkCommit(a, k) PROVE result' = result
    BY <2>3 DEF ParkCommit
  <2>4. ASSUME NEW b \in Actors, EndWaitOf(a, b) PROVE result' = result
    BY <2>4 DEF EndWaitOf
  <2>5. CASE Wake(a) \/ Ready(a) \/ End(a)
    BY <2>5 DEF Wake, Ready, End
  <2>6. CASE TimerFires(a) \/ StopCancel(a)
    BY <2>6 DEF TimerFires, StopCancel
  <2>. QED
    BY <1>1, <2>1, <2>2, <2>3, <2>4, <2>5, <2>6 DEF ActorSteps
<1>2. ASSUME NEW o \in Ops, CompleteOp(o) \/ StreamEnters(o) PROVE result' = result
  BY <1>2 DEF CompleteOp, StreamEnters
<1>3. CASE MainTakes \/ MainReturns
  BY <1>3 DEF MainTakes, MainReturns
<1>4. ASSUME NEW c \in Checkers, CheckCancel(c) PROVE result' = result
  BY <1>4 DEF CheckCancel
<1>5. CASE UNCHANGED <<waitVars, live, parking>>
  BY <1>5 DEF waitVars
<1>. QED
  BY <1>c, <1>1, <1>2, <1>3, <1>4, <1>5 DEF Changes, WaitSteps

-----------------------------------------------------------------------------
(* The basic facts are kept.                                               *)

\* Whoever runs has nothing else to do.
LEMMA RunsFacts ==
    ASSUME NEW a
    PROVE  /\ Runs(a) => at[a] = "run" /\ ~Busy(a)
           /\ Ending(a) => at[a] = "ending" /\ ~Busy(a)
  BY DEF Runs, Ending

\* The External of an operation follows it.
LEMMA HeldStep ==
    ASSUME TypeOK, HeldInv, [Next]_vars
    PROVE  HeldInv'
<1> SUFFICES ASSUME NEW o \in Ops
             PROVE  /\ op'[o] \in {"none", "over", "serves"} => ~held'[o]
                    /\ op'[o] \in {"flying", "starting", "started"} => held'[o]
                    /\ op'[o] \in {"starting", "started", "serves"} => o \in Streams
  BY DEF HeldInv
<1>1. OpStays(o) \/ OpMoved(o)
  BY OpFacts
<1>2. /\ op[o] \in {"none", "over", "serves"} => ~held[o]
      /\ op[o] \in {"flying", "starting", "started"} => held[o]
      /\ op[o] \in {"starting", "started", "serves"} => o \in Streams
  BY DEF HeldInv
<1>3. op[o] \in OpPlaces
  BY DEF TypeOK, OpTypes
<1>. QED
  BY <1>1, <1>2, <1>3 DEF OpStays, OpMoved, OpPlaces

\* A stream that has begun goes on to be one.
LEMMA StreamStep ==
    ASSUME TypeOK, HeldInv, [Next]_vars, NEW s \in Streams,
           op[s] \in {"starting", "started", "serves"}
    PROVE  /\ op'[s] \in {"starting", "started", "serves"}
           /\ op[s] # "starting" => op'[s] # "starting"
<1>1. s \in Ops
  BY Sets DEF Sets
<1>2. OpStays(s) \/ OpMoved(s)
  BY <1>1, OpFacts
<1>. QED
  BY <1>2 DEF OpStays, OpMoved

\* So there is a stream for ever once there is one.
LEMMA StreamingStep ==
    ASSUME TypeOK, HeldInv, [Next]_vars, Streaming
    PROVE  Streaming'
<1>1. PICK s \in Streams : op[s] \in {"starting", "started", "serves"}
  BY DEF Streaming
<1>2. op'[s] \in {"starting", "started", "serves"}
  BY <1>1, StreamStep
<1>. QED
  BY <1>2 DEF Streaming

\* Where an actor may go from where it is.
Goes(p, q) ==
    \/ p = "none" /\ q = "run"
    \/ p = "run" /\ q \in {"enter", "refused", "gone"}
    \/ p \in {"enter", "refused"} /\ q \in {"run", "ending", "resumed"}
    \/ p = "enter" /\ q = "wait"
    \/ p = "wait" /\ q = "fired"
    \/ p = "fired" /\ q = "woken"
    \/ p = "woken" /\ q \in {"run", "ending", "resumed"}
    \/ p = "ending" /\ q = "gone"
    \/ p = "resumed" /\ q \in {"run", "failed"}
    \/ p = "failed" /\ q = "gone"

\* A move leads from one place to another.
LEMMA GoesFacts ==
    ASSUME NEW a \in Actors, Moved(a)
    PROVE  Goes(at[a], at'[a])
<1>1. GoesOn(a) \in {"run", "ending", "resumed"}
  BY GoesOnFacts
<1>. QED
  BY <1>1, RunsFacts DEF Moved, Goes

\* A stream's thread begins when its operation says so.
LEMMA ThreadStep ==
    ASSUME TypeOK, HeldInv, ThreadInv, [Next]_vars
    PROVE  ThreadInv'
<1> SUFFICES ASSUME NEW s \in Streams, at'[s] # "none"
             PROVE  op'[s] \in {"started", "serves"}
  BY DEF ThreadInv
<1>1. s \in Actors /\ s \notin Tasks
  BY Sets DEF Sets, Actors
<1>2. Stays(s) \/ Moved(s)
  BY <1>1, MoveFacts
<1>3. CASE at[s] = "none"
  <2>1. Moved(s)
    BY <1>2, <1>3 DEF Stays
  <2>. QED
    BY <1>1, <1>3, <2>1, RunsFacts DEF Moved, Ending
<1>4. CASE at[s] # "none"
  <2>1. op[s] \in {"started", "serves"}
    BY <1>4 DEF ThreadInv
  <2>. QED
    BY <2>1, StreamStep
<1>. QED
  BY <1>3, <1>4

\* An operation that somebody waits for is given up by nobody else.
LEMMA WaitStep ==
    ASSUME TypeOK, HeldInv, ThreadInv, WaitInv, [Next]_vars
    PROVE  WaitInv'
<1> SUFFICES ASSUME NEW a \in Actors, at'[a] = "wait", on'[a] \in Ops
             PROVE  op'[on'[a]] = "flying" /\ owner'[on'[a]] = a
  BY DEF WaitInv
<1>1. Stays(a) \/ (Moved(a) /\ Goes(at[a], at'[a]))
  BY MoveFacts, GoesFacts
<1>2. CASE Stays(a)
  <2> DEFINE o == on[a]
  <2>1. at[a] = "wait" /\ on[a] = o /\ on'[a] = o /\ o \in Ops
    BY <1>2 DEF Stays
  <2>2. op[o] = "flying" /\ owner[o] = a
    BY <2>1 DEF WaitInv
  <2>3. OpStays(o) \/ OpMoved(o)
    BY <2>1, OpFacts
  <2>4. ASSUME NEW b \in Actors, at[b] = "wait", on[b] = o PROVE b = a
    BY <2>1, <2>2, <2>4 DEF WaitInv
  <2> HIDE DEF o
  <2>5. ASSUME NEW b \in Actors, Runs(b) \/ Ending(b) PROVE b # a
    BY <2>1, <2>5, RunsFacts
  <2>6. CASE OpMoved(o)
    <3>1. \/ \A b \in Actors : at[b] = "wait" => on[b] # o
          \/ \E b \in Actors : at[b] = "wait" /\ on[b] = o /\ at'[b] = "fired"
          \/ \E b \in Actors : (Runs(b) \/ Ending(b)) /\ owner[o] = b
      BY <2>2, <2>6 DEF OpMoved
    <3>. QED
      BY <2>1, <2>2, <2>4, <2>5, <3>1
  <2>. QED
    BY <2>1, <2>2, <2>3, <2>6 DEF OpStays
<1>3. CASE Moved(a) /\ Goes(at[a], at'[a])
  <2>1. at[a] = "enter"
    BY <1>3 DEF Goes
  <2>2. GoesOn(a) \in {"run", "ending", "resumed"}
    BY GoesOnFacts
  <2>. QED
    BY <1>3, <2>1, <2>2, RunsFacts DEF Moved
<1>. QED
  BY <1>1, <1>2, <1>3

\* What the program's thread waits for follows where it is.
LEMMA MainStep ==
    ASSUME TypeOK, HeldInv, ThreadInv, MainInv, [Next]_vars
    PROVE  MainInv'
<1>0. Main \in Actors /\ at[Main] \in Places
  BY DEF Actors, TypeOK, WaitTypes
<1>1. Stays(Main) \/ (Moved(Main) /\ Goes(at[Main], at'[Main]))
  BY <1>0, MoveFacts, GoesFacts
<1>2. (main' = main /\ blocks' = blocks /\ phase' = phase) \/ MainMoved
  BY MainFacts
<1>3. GoesOn(Main) = "resumed"
  BY <1>0, GoesOnFacts
<1>4. NoMain.waits = "None"
  BY DEF NoMain
<1>5. CASE Stays(Main)
  <2>1. (main' = main /\ blocks' = blocks /\ phase' = phase) \/ PhaseMoved
    BY <1>2, <1>5, RunsFacts DEF MainMoved, Stays
  <2>2. CASE PhaseMoved
    BY <1>4, <1>5, <2>2 DEF PhaseMoved, Stays, MainInv
  <2>. QED
    BY <1>5, <2>1, <2>2 DEF Stays, MainInv
<1>6. CASE Moved(Main) /\ at[Main] \in {"enter", "wait", "fired", "woken"}
  <2>1. main' = main /\ blocks' = blocks /\ phase' = phase
    <3>1. at'[Main] # at[Main]
      BY <1>0, <1>6, GoesFacts DEF Goes
    <3>. QED
      BY <1>2, <1>6, <3>1, RunsFacts DEF MainMoved, PhaseMoved
  <2>2. at'[Main] \in {"wait", "fired", "woken", "resumed"}
    BY <1>3, <1>6, RunsFacts DEF Moved
  <2>. QED
    BY <1>6, <2>1, <2>2 DEF MainInv
<1>7. CASE Moved(Main) /\ at[Main] = "run"
  <2>1. \/ /\ at'[Main] = "enter" /\ blocks' = blocks + 1
           /\ main'.waits = "Blocked" /\ main'.id = blocks + 1 /\ phase' = phase
        \/ at'[Main] = "gone" /\ main' = main /\ phase' \in {"settle", "stop"}
    BY <1>7 DEF Moved, Ending
  <2>. QED
    BY <1>7, <2>1 DEF MainInv
<1>8. CASE Moved(Main) /\ at[Main] \in {"resumed", "failed"}
  <2>1. \/ at'[Main] \in {"run", "failed"} /\ main' = NoMain /\ phase' = phase
        \/ /\ at[Main] = "failed"
           /\ at'[Main] = "gone" /\ main' = main /\ phase' \in {"settle", "stop"}
    BY <1>8, RunsFacts DEF Moved
  <2>. QED
    BY <1>4, <1>8, <2>1 DEF MainInv
<1>9. at[Main] \notin {"none", "refused", "ending"}
  BY DEF MainInv
<1>10. Moved(Main) => at[Main] # "gone"
  BY <1>0, GoesFacts DEF Goes
<1>. QED
  BY <1>0, <1>1, <1>5, <1>6, <1>7, <1>8, <1>9, <1>10 DEF Places

\* The waits of the program are numbered as they begin, and what it does
\* after its code it does in order.
LEMMA OrderStep ==
    ASSUME TypeOK, MainInv, [Next]_vars
    PROVE  /\ blocks' >= blocks
           /\ phase \notin {"code", "settle"} => phase' \notin {"code", "settle"}
<1>1. (main' = main /\ blocks' = blocks /\ phase' = phase) \/ MainMoved
  BY MainFacts
<1>2. blocks \in Int
  BY DEF TypeOK, MainTypes
<1>3. at[Main] \in {"run", "failed"} => phase = "code"
  BY DEF MainInv
<1>4. blocks' = blocks \/ blocks' = blocks + 1
  BY <1>1 DEF MainMoved, PhaseMoved
<1>5. blocks' >= blocks
  BY <1>2, <1>4
<1>6. phase \notin {"code", "settle"} => phase' \notin {"code", "settle"}
  BY <1>1, <1>3, RunsFacts DEF MainMoved, PhaseMoved
<1>. QED
  BY <1>5, <1>6

\* A check knows what it has read.
LEMMA KnownStep ==
    ASSUME TypeOK, MainInv, KnownInv, [Next]_vars
    PROVE  KnownInv'
<1> DEFINE K(c) ==
       /\ check[c].pc \in {"external", "inspect", "external2"} =>
             check[c].waits \in {"Settling", "Blocked"}
       /\ check[c].pc = "tell" => check[c].waits \in {"Settling", "Stopping"}
       /\ check[c].pc \in {"store", "cancel"} => check[c].waits = "Blocked"
       /\ check[c].waits = "Blocked" => check[c].id <= blocks
       /\ check[c].waits = "Settling" => phase \notin {"code", "settle"}
<1> SUFFICES ASSUME NEW c \in Checkers PROVE K(c)'
  BY DEF KnownInv
<1>1. K(c)
  BY DEF KnownInv
<1>2. check'[c] = check[c] \/ CheckMoved(c)
  BY CheckFacts
<1>3. /\ blocks' >= blocks
      /\ phase \notin {"code", "settle"} => phase' \notin {"code", "settle"}
  BY OrderStep
<1>4. blocks \in Int /\ blocks' \in Int /\ check[c].id \in Int /\ main.id \in Int
      /\ main.waits \in Waits
  BY TypeStep DEF TypeOK, MainTypes, CheckTypes, CheckType
<1>5. main # NoMain => /\ main.waits # "None"
                       /\ main.waits = "Blocked" => main.id = blocks
                       /\ main.waits = "Settling" => phase \notin {"code", "settle"}
  BY DEF MainInv
<1>6. Idle.pc = "idle" /\ Idle.waits = "None"
  BY DEF Idle
<1>7. CASE check'[c].waits = check[c].waits /\ check'[c].id = check[c].id
  <2>1. /\ check[c].waits = "Blocked" => check[c].id <= blocks'
        /\ check[c].waits = "Settling" => phase' \notin {"code", "settle"}
    BY <1>1, <1>3, <1>4
  <2>2. CASE check'[c] = check[c]
    BY <1>1, <2>1, <2>2
  <2>3. CASE CheckMoved(c)
    <3>1. check[c].pc = "main" /\ main # NoMain => main.waits \in {"Blocked", "Settling", "Stopping"}
      BY <1>4, <1>5 DEF Waits
    <3>2. /\ check'[c].pc \in {"external", "inspect", "external2"} =>
                check[c].waits \in {"Settling", "Blocked"}
          /\ check'[c].pc = "tell" => check[c].waits \in {"Settling", "Stopping"}
          /\ check'[c].pc \in {"store", "cancel"} => check[c].waits = "Blocked"
      BY <1>1, <1>6, <1>7, <2>3, <3>1 DEF CheckMoved
    <3>. QED
      BY <1>7, <2>1, <3>2
  <2>. QED
    BY <1>2, <2>2, <2>3
<1>8. CASE check'[c].waits = "None" /\ check'[c].pc \in {"idle", "parking"}
  BY <1>8
<1>9. CASE /\ check'[c].pc = IF main.waits = "Stopping" THEN "tell" ELSE "external"
           /\ check'[c].waits = main.waits /\ check'[c].id = main.id /\ main # NoMain
  BY <1>3, <1>4, <1>5, <1>9 DEF Waits
<1>. QED
  BY <1>2, <1>6, <1>7, <1>8, <1>9 DEF CheckMoved
=============================================================================
