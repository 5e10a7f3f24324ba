--------------------------- MODULE WorkersProofs ---------------------------
(***************************************************************************)
(* Proofs about module Workers, for every number of workers, threads and   *)
(* deadlines: no queued task is left beside a worker that sleeps           *)
(* (QueuedIsSeen), nobody who fires the timer sleeps past a deadline       *)
(* (DeadlineIsWatched), and no thread that waits sleeps through the end    *)
(* (EndIsHeard).                                                           *)
(***************************************************************************)
EXTENDS Workers, FiniteSetTheorems, WellFoundedInduction, TLAPS

-----------------------------------------------------------------------------
(* The inductive invariant.                                                *)

\* Where a worker may stand, and where one of the others.
WorkerPlaces == {"look", "count", "spin", "found", "uncount", "again", "doze", "sleep", "fire",
                 "popped", "run", "over", "enqueue", "notify", "poke", "gone"}
OtherPlaces == {"idle", "notify", "poke", "arm", "armPoke", "armLock", "armAll", "endTimer",
                "endQueue", "endQueued", "endAll", "endParked", "gone"}

PlaceType ==
    /\ pc \in [Threads -> WorkerPlaces \cup OtherPlaces]
    /\ \A w \in WorkerSet : pc[w] \in WorkerPlaces
    /\ \A o \in Others : pc[o] \in OtherPlaces

QueueType ==
    /\ queue \in Seq(Tasks \cup {Nobody})
    /\ has \in [Threads -> Tasks \cup {Nobody}]
    /\ lock \in Threads \cup {Nobody}

TimerType ==
    /\ system \in System
    /\ armed \subseteq Times
    /\ timerThread \in {"Idle", "Running", "Unavailable"}
    /\ timerAt \in {"none", "look", "fire", "sleep", "notified", "gone"}
    /\ shutdown \in BOOLEAN /\ broken \in BOOLEAN /\ exited \in BOOLEAN

WaitType ==
    /\ watch \in [Sleepers -> Nat]
    /\ waiterAt \in [Waiters -> {"out", "look", "doze", "sleep", "fire"}]
    /\ poked \in [Waiters -> BOOLEAN] /\ resumed \in [Waiters -> BOOLEAN]

TypeInv == PlaceType /\ QueueType /\ TimerType /\ WaitType

\* The places under the queue's lock, and those that count as looking on.
Locked == {"notify", "popped", "doze"}
Counted == {"spin", "found", "uncount"}

Looking == {w \in WorkerSet : pc[w] \in Counted}
Asleep == {w \in WorkerSet : pc[w] = "sleep"}

\* The lock is held where the code holds it.
LockInv == \A x \in Threads : pc[x] \in Locked <=> lock = x

\* RunQueue::sleepers and spinning count the workers that sleep and look on,
\* and a worker whom nobody has notified is asleep.
CountInv ==
    /\ sleepers = Cardinality(Asleep) /\ spinning = Cardinality(Looking)
    /\ waiting \subseteq Asleep

\* A worker that goes to sleep has seen the queue empty, and has the lock.
DozeInv == \A w \in WorkerSet : pc[w] = "doze" => queue = <<>>

QueueInv == LockInv /\ CountInv /\ DozeInv /\ QueuedIsSeen

\* One of the others stands at one of the places.
SomeAt(places) == \E o \in Others : pc[o] \in places

\* Whoever sleeps, or is going to, does not sleep past the next deadline,
\* unless somebody who armed one has still to come by.
TimerInv ==
    /\ timerThread = "Idle" => armed = {} \/ SomeAt({"arm"})
    /\ timerThread = "Running" /\ timerAt = "sleep" =>
          watch[TimerLoop] <= NextDeadline \/ SomeAt({"arm"})

WorkersWatch ==
    timerThread = "Unavailable" =>
        /\ \A w \in WorkerSet : pc[w] = "doze" =>
              watch[w] <= NextDeadline \/ SomeAt({"arm", "armPoke", "armLock"})
        /\ \A w \in waiting :
              watch[w] <= NextDeadline \/ SomeAt({"arm", "armPoke", "armLock", "armAll"})

WaitersWatch ==
    timerThread = "Unavailable" =>
        \A m \in Waiters : waiterAt[m] \in {"doze", "sleep"} /\ ~poked[m] /\ ~resumed[m] =>
            watch[m] <= NextDeadline \/ SomeAt({"arm", "armPoke"})

\* The end is heard by those that are going to sleep as by those that do.
HeardInv ==
    \A m \in Waiters :
        (broken \/ exited) /\ waiterAt[m] \in {"doze", "sleep"} =>
            poked[m] \/ resumed[m] \/ \E x \in Threads : pc[x] = "poke"

WatchInv == TimerInv /\ WorkersWatch /\ WaitersWatch

-----------------------------------------------------------------------------
(* Numbers.                                                                *)

\* A set of numbers that is not empty has a least one.
LEMMA LeastNatural ==
    ASSUME NEW S, S \subseteq Nat, S # {}
    PROVE  \E x \in S : \A y \in S : x <= y
<1>1. IsWellFoundedOn(OpToRel(<, Nat), Nat)
  BY NatLessThanWellFounded, Zenon
<1>2. PICK x \in S : \A y \in S : ~ (<<y, x>> \in OpToRel(<, Nat))
  BY <1>1, WFMin, Zenon
<1>3. \A y \in S : ~(y < x)
  BY <1>2, Zenon DEF OpToRel
<1> QED BY <1>3

\* A finite one has a greatest: otherwise take a part of it that has none,
\* with as few numbers as possible, and leave out one of them.
LEMMA GreatestNatural ==
    ASSUME NEW T, T \subseteq Nat, IsFiniteSet(T), T # {}
    PROVE  \E x \in T : \A y \in T : x >= y
<1> DEFINE HasNone(S) == S # {} /\ ~\E x \in S : \A y \in S : x >= y
           Sizes == {Cardinality(S) : S \in {R \in SUBSET T : HasNone(R)}}
<1>1. \A S \in SUBSET T : IsFiniteSet(S) /\ Cardinality(S) \in Nat
  BY FS_Subset, FS_CardinalityType, Zenon
<1>2. SUFFICES ASSUME HasNone(T) PROVE FALSE
  OBVIOUS
<1>3. Sizes \subseteq Nat /\ Sizes # {}
  BY <1>1, <1>2
<1>4. PICK k \in Sizes : \A j \in Sizes : k <= j
  BY <1>3, LeastNatural, Zenon
<1>5. PICK S \in SUBSET T : HasNone(S) /\ Cardinality(S) = k
  BY <1>4
<1>6. PICK e \in S : TRUE
  BY <1>5
<1>7. IsFiniteSet(S) /\ Cardinality(S \ {e}) = k - 1 /\ k \in Nat
  BY <1>1, <1>5, <1>6, FS_RemoveElement, Zenon
<1>8. ~HasNone(S \ {e})
  <2>1. SUFFICES ASSUME HasNone(S \ {e}) PROVE FALSE
    OBVIOUS
  <2>2. k - 1 \in Sizes
    BY <2>1, <1>7
  <2> QED BY <2>2, <1>4, <1>7
<1>9. CASE S \ {e} = {}
  <2>1. \A y \in S : e >= y
    BY <1>6, <1>9
  <2> QED BY <1>5, <1>6, <2>1
<1>10. CASE S \ {e} # {}
  <2>1. PICK x \in S \ {e} : \A y \in S \ {e} : x >= y
    BY <1>8, <1>10
  <2>2. e \in Nat /\ x \in Nat /\ S \subseteq Nat
    BY <1>6, <2>1
  <2>3. \E z \in {e, x} : \A y \in S : z >= y
    BY <2>1, <2>2
  <2> QED BY <1>5, <1>6, <2>1, <2>3
<1> QED BY <1>9, <1>10

\* Every deadline comes before Forever.
LEMMA ForeverIsLast == Forever \in Nat /\ \A t \in Times : t < Forever
<1>1. Times \subseteq Nat /\ IsFiniteSet(Times)
  BY Bounds
<1>2. CASE Times = {}
  BY <1>2 DEF Forever
<1>3. CASE Times # {}
  <2>1. Max(Times) \in Times /\ \A t \in Times : Max(Times) >= t
    BY <1>1, <1>3, GreatestNatural, Zenon DEF Max
  <2>2. Forever = 1 + Max(Times)
    BY <1>3 DEF Forever
  <2>3. Max(Times) \in Nat
    BY <1>1, <2>1, Zenon
  <2>4. \A t \in Times : t \in Nat /\ t < 1 + Max(Times)
    BY <1>1, <2>1, <2>3
  <2> QED BY <2>2, <2>3, <2>4
<1> QED BY <1>2, <1>3

\* The next of a set of deadlines; NextDeadline is that of the armed ones.
NextOf(S) == IF S = {} THEN Forever ELSE Min(S)

\* The next deadline is a function of those that are armed.
LEMMA NextOfArmed == NextDeadline = NextOf(armed) /\ NextDeadline' = NextOf(armed')
BY DEF NextDeadline, NextOf

\* With fewer deadlines the next one is not earlier.
LEMMA FewerIsLater ==
    ASSUME NEW S, NEW T, S \subseteq T, T \subseteq Times
    PROVE  NextOf(S) \in Nat /\ NextOf(T) \in Nat /\ NextOf(T) <= NextOf(S)
<1>1. Times \subseteq Nat
  BY Bounds
<1>2. ASSUME NEW R, R \subseteq Times, R # {}
      PROVE  Min(R) \in R /\ Min(R) \in Nat /\ \A t \in R : Min(R) <= t
  BY <1>1, <1>2, LeastNatural, Zenon DEF Min
<1>3. CASE T = {}
  BY <1>3, ForeverIsLast DEF NextOf
<1>4. CASE T # {} /\ S = {}
  BY <1>2, <1>4, ForeverIsLast DEF NextOf
<1>5. CASE S # {}
  <2>1. T # {} /\ S \subseteq Times
    BY <1>5
  <2>2. Min(S) \in S /\ Min(S) \in Nat
    BY <1>2, <1>5, <2>1
  <2>3. Min(T) \in Nat /\ Min(T) <= Min(S)
    BY <1>2, <2>1, <2>2
  <2> QED BY <1>5, <2>1, <2>2, <2>3 DEF NextOf
<1> QED BY <1>3, <1>4, <1>5

-----------------------------------------------------------------------------
(* Types.                                                                  *)

\* At the start everything has its type.
LEMMA TypeInit == Init => TypeInv
<1>1. SUFFICES ASSUME Init PROVE TypeInv
  OBVIOUS
<1>2. system \in System
  BY <1>1, Bounds DEF Init
<1>3. \A x \in Threads : pc[x] \in {"look", "idle", "gone"}
  BY <1>1 DEF Init
<1>4. \A w \in WorkerSet : pc[w] \in WorkerPlaces
  <2> SUFFICES ASSUME NEW w \in WorkerSet PROVE pc[w] \in WorkerPlaces
    OBVIOUS
  <2>1. w \notin system.others
    BY <1>2, Bounds DEF System
  <2> QED BY <1>1, <2>1 DEF Init, Threads, WorkerPlaces
<1>5. \A o \in Others : pc[o] \in OtherPlaces
  <2> SUFFICES ASSUME NEW o \in Others PROVE pc[o] \in OtherPlaces
    OBVIOUS
  <2>1. o \notin system.workers
    BY <1>2, Bounds DEF System
  <2> QED BY <1>1, <2>1 DEF Init, Threads, OtherPlaces
<1>6. pc \in [Threads -> WorkerPlaces \cup OtherPlaces]
  BY <1>1, <1>3 DEF Init, WorkerPlaces, OtherPlaces
<1>7. watch \in [Sleepers -> Nat]
  BY <1>1, ForeverIsLast DEF Init
<1>8. queue \in Seq(Tasks \cup {Nobody}) /\ has \in [Threads -> Tasks \cup {Nobody}]
  BY <1>1 DEF Init
<1>9. /\ waiterAt \in [Waiters -> {"out", "look", "doze", "sleep", "fire"}]
      /\ poked \in [Waiters -> BOOLEAN] /\ resumed \in [Waiters -> BOOLEAN]
  BY <1>1 DEF Init
<1>10. /\ lock \in Threads \cup {Nobody}
       /\ shutdown \in BOOLEAN /\ broken \in BOOLEAN /\ exited \in BOOLEAN
       /\ armed \subseteq Times
       /\ timerThread \in {"Idle", "Running", "Unavailable"}
       /\ timerAt \in {"none", "look", "fire", "sleep", "notified", "gone"}
  BY <1>1, Zenon DEF Init
<1> QED
  BY <1>2, <1>4, <1>5, <1>6, <1>7, <1>8, <1>9, <1>10
  DEF TypeInv, PlaceType, QueueType, TimerType, WaitType

\* A step moves one thread at most, to a place of its own kind.
Walks ==
    \/ pc' = pc
    \/ \E w \in WorkerSet : \E p \in WorkerPlaces : To(w, p)
    \/ \E o \in Others : \E p \in OtherPlaces : To(o, p)

\* Every step of every thread is one of these.
LEMMA StepWalks == [Next]_vars => Walks
<1> SUFFICES ASSUME [Next]_vars PROVE Walks
  OBVIOUS
<1>1. CASE UNCHANGED vars
  BY <1>1 DEF vars, threadVars, Walks
<1>2. ASSUME NEW w \in WorkerSet, Worker(w) \/ Panics(w) PROVE Walks
  <2>1. CASE Look(w)
    BY <2>1 DEF Look, Pop, Walks, WorkerPlaces
  <2>2. CASE Count(w)
    BY <2>2 DEF Count, Walks, WorkerPlaces
  <2>3. CASE Spin(w)
    BY <2>3 DEF Spin, Walks, WorkerPlaces
  <2>4. CASE Uncount(w)
    BY <2>4 DEF Uncount, Walks, WorkerPlaces
  <2>5. CASE Again(w)
    BY <2>5 DEF Again, Pop, Walks, WorkerPlaces
  <2>6. CASE Sleeps(w)
    BY <2>6 DEF Sleeps, Walks, WorkerPlaces
  <2>7. CASE WakesUp(w)
    BY <2>7 DEF WakesUp, Walks, WorkerPlaces
  <2>8. CASE Fires(w)
    BY <2>8 DEF Fires, Walks, WorkerPlaces
  <2>9. CASE PushNotifies(w)
    BY <2>9 DEF PushNotifies, Walks, WorkerPlaces
  <2>10. CASE PopNotifies(w)
    BY <2>10 DEF PopNotifies, Walks, WorkerPlaces
  <2>11. CASE Poke(w)
    BY <2>11 DEF Poke, Walks, WorkerPlaces
  <2>12. CASE SliceEnds(w)
    BY <2>12 DEF SliceEnds, Walks, WorkerPlaces
  <2>13. CASE SliceGoesOn(w)
    BY <2>13 DEF SliceGoesOn, Walks, WorkerPlaces
  <2>14. CASE SliceYields(w)
    BY <2>14 DEF SliceYields, KeepsOn, Walks, WorkerPlaces
  <2>15. CASE SliceOver(w)
    BY <2>15 DEF SliceOver, KeepsOn, Walks, WorkerPlaces
  <2>16. CASE GivesBack(w)
    BY <2>16 DEF GivesBack, Push, Walks, WorkerPlaces
  <2>17. CASE Panics(w)
    BY <2>17 DEF Panics, Walks, WorkerPlaces
  <2> QED BY <1>2, <2>1, <2>2, <2>3, <2>4, <2>5, <2>6, <2>7, <2>8, <2>9, <2>10, <2>11, <2>12,
    <2>13, <2>14, <2>15, <2>16, <2>17 DEF Worker
<1>3. ASSUME NEW o \in Others, Begins(o) \/ Continues(o) PROVE Walks
  <2>1. CASE Enqueue(o)
    BY <2>1, Bounds DEF Enqueue, Push, Walks, OtherPlaces
  <2>2. ASSUME NEW t \in system.times, Arm(o, t) PROVE Walks
    BY <2>2 DEF Arm, Walks, OtherPlaces
  <2>3. CASE Exit(o)
    BY <2>3 DEF Exit, Walks, OtherPlaces
  <2>4. CASE Shutdown(o)
    BY <2>4 DEF Shutdown, Walks, OtherPlaces
  <2>5. CASE PushNotifies(o)
    BY <2>5, Bounds DEF PushNotifies, Walks, OtherPlaces
  <2>6. CASE Poke(o)
    BY <2>6, Bounds DEF Poke, Walks, OtherPlaces
  <2>7. CASE TimerArmed(o)
    BY <2>7 DEF TimerArmed, Walks, OtherPlaces
  <2>8. CASE ArmPokes(o)
    BY <2>8 DEF ArmPokes, Walks, OtherPlaces
  <2>9. CASE ArmLocks(o)
    BY <2>9 DEF ArmLocks, Walks, OtherPlaces
  <2>10. CASE NotifyAll(o)
    BY <2>10 DEF NotifyAll, Walks, OtherPlaces
  <2>11. CASE EndTimer(o)
    BY <2>11 DEF EndTimer, Walks, OtherPlaces
  <2>12. CASE EndQueue(o)
    BY <2>12 DEF EndQueue, Walks, OtherPlaces
  <2>13. CASE EndQueued(o)
    BY <2>13 DEF EndQueued, Walks, OtherPlaces
  <2>14. CASE EndParked(o)
    BY <2>14 DEF EndParked, Walks, OtherPlaces
  <2> QED BY <1>3, <2>1, <2>2, <2>3, <2>4, <2>5, <2>6, <2>7, <2>8, <2>9, <2>10, <2>11, <2>12,
    <2>13, <2>14 DEF Begins, Continues
<1>4. ASSUME NEW t \in system.times, Disarm(t) PROVE Walks
  BY <1>4 DEF Disarm, Walks, threadVars
<1>5. CASE TimerGoesOn
  <2>1. CASE TimerLooks
    BY <2>1 DEF TimerLooks, Walks, threadVars
  <2>2. CASE TimerWakes
    BY <2>2 DEF TimerWakes, Walks, threadVars
  <2>3. CASE TimerFires
    BY <2>3 DEF TimerFires, Walks, threadVars
  <2> QED BY <1>5, <2>1, <2>2, <2>3 DEF TimerGoesOn
<1>6. ASSUME NEW m \in Waiters, WaitBegins(m) \/ Waits(m) \/ Resume(m) PROVE Walks
  <2>1. CASE WaitBegins(m)
    BY <2>1 DEF WaitBegins, Walks, threadVars
  <2>2. CASE WaitLooks(m)
    BY <2>2 DEF WaitLooks, Walks, threadVars
  <2>3. CASE WaitFiresDue(m)
    BY <2>3 DEF WaitFiresDue, Walks, threadVars
  <2>4. CASE WaitSleeps(m)
    BY <2>4 DEF WaitSleeps, Walks, threadVars
  <2>5. CASE WaitWakes(m)
    BY <2>5 DEF WaitWakes, Walks, threadVars
  <2>6. CASE WaitFires(m)
    BY <2>6 DEF WaitFires, Walks, threadVars
  <2>7. CASE Resume(m)
    BY <2>7 DEF Resume, Walks, threadVars
  <2> QED BY <1>6, <2>1, <2>2, <2>3, <2>4, <2>5, <2>6, <2>7 DEF Waits
<1> QED BY <1>1, <1>2, <1>3, <1>4, <1>5, <1>6 DEF Next

\* Along them a thread stays at its places.
LEMMA PlaceStep == PlaceType /\ Walks => PlaceType'
<1> SUFFICES ASSUME PlaceType, Walks PROVE PlaceType'
  OBVIOUS
<1>1. CASE pc' = pc
  BY <1>1 DEF PlaceType
<1>2. ASSUME NEW w \in WorkerSet, NEW p \in WorkerPlaces, To(w, p) PROVE PlaceType'
  <2>1. w \in Threads /\ w \notin Others
    BY Bounds DEF Threads
  <2> QED BY <1>2, <2>1 DEF PlaceType, To, Threads
<1>3. ASSUME NEW o \in Others, NEW p \in OtherPlaces, To(o, p) PROVE PlaceType'
  <2>1. o \in Threads /\ o \notin WorkerSet
    BY Bounds DEF Threads
  <2> QED BY <1>3, <2>1 DEF PlaceType, To, Threads
<1> QED BY <1>1, <1>2, <1>3 DEF Walks

\* What is fired was armed.
LEMMA FewerAreArmed == FireDue => armed' \subseteq armed
BY DEF FireDue

\* The queue, and what a thread has in hand.
LEMMA PopTypes ==
    ASSUME QueueType, NEW w \in WorkerSet, queue # <<>>, Pop(w) PROVE QueueType'
<1>1. Head(queue) \in Tasks \cup {Nobody} /\ Tail(queue) \in Seq(Tasks \cup {Nobody})
  BY DEF QueueType
<1> QED BY <1>1 DEF Pop, QueueType, Threads

\* What a push does to the types of the queue and the threads.
LEMMA PushTypes ==
    ASSUME QueueType, NEW x \in Threads, NEW t \in Tasks \cup {Nobody}, Push(x, t)
    PROVE  QueueType'
BY DEF Push, QueueType

\* Every step keeps the types of the queue.
LEMMA QueueTypeStep == TypeInv /\ [Next]_vars => QueueType'
<1> SUFFICES ASSUME QueueType, TimerType, [Next]_vars PROVE QueueType'
  BY DEF TypeInv
<1>1. CASE UNCHANGED vars
  BY <1>1 DEF vars, queueVars, threadVars, QueueType
<1>2. ASSUME NEW w \in WorkerSet, Worker(w) \/ Panics(w) PROVE QueueType'
  <2>1. CASE Look(w)
    <3>1. CASE queue # <<>> /\ Pop(w)
      BY <3>1, PopTypes
    <3>2. CASE UNCHANGED <<queue, has>> /\ (UNCHANGED lock \/ lock' = w)
      BY <3>2 DEF QueueType, Threads
    <3> QED BY <2>1, <3>1, <3>2 DEF Look, queueVars
  <2>2. CASE Count(w)
    BY <2>2 DEF Count, QueueType, queueVars, threadVars
  <2>3. CASE Spin(w)
    BY <2>3 DEF Spin, QueueType, queueVars, threadVars
  <2>4. CASE Uncount(w)
    BY <2>4 DEF Uncount, QueueType, queueVars, threadVars
  <2>5. CASE Again(w)
    <3>1. CASE queue # <<>> /\ Pop(w)
      BY <3>1, PopTypes
    <3>2. CASE UNCHANGED <<queue, has>> /\ (UNCHANGED lock \/ lock' = w)
      BY <3>2 DEF QueueType, Threads
    <3> QED BY <2>5, <3>1, <3>2 DEF Again, queueVars
  <2>6. CASE Sleeps(w)
    BY <2>6 DEF Sleeps, QueueType, queueVars, threadVars
  <2>7. CASE WakesUp(w)
    BY <2>7 DEF WakesUp, QueueType, queueVars, threadVars
  <2>8. CASE Fires(w)
    BY <2>8 DEF Fires, QueueType, queueVars, threadVars
  <2>9. CASE PushNotifies(w)
    BY <2>9 DEF PushNotifies, QueueType, queueVars, threadVars
  <2>10. CASE PopNotifies(w)
    BY <2>10 DEF PopNotifies, QueueType, queueVars, threadVars
  <2>11. CASE Poke(w)
    BY <2>11 DEF Poke, QueueType, queueVars, threadVars
  <2>12. CASE SliceEnds(w)
    BY <2>12, Zenon DEF SliceEnds, QueueType, queueVars
  <2>13. CASE SliceGoesOn(w)
    BY <2>13 DEF SliceGoesOn, QueueType, queueVars, threadVars
  <2>14. CASE SliceYields(w)
    BY <2>14 DEF SliceYields, QueueType, queueVars, threadVars
  <2>15. CASE SliceOver(w)
    BY <2>15 DEF SliceOver, QueueType, queueVars, threadVars
  <2>16. CASE GivesBack(w)
    <3>1. w \in Threads /\ has[w] \in Tasks \cup {Nobody}
      BY DEF QueueType, Threads
    <3> QED BY <2>16, <3>1, PushTypes DEF GivesBack
  <2>17. CASE Panics(w)
    BY <2>17, Zenon DEF Panics, QueueType, queueVars
  <2> QED BY <1>2, <2>1, <2>2, <2>3, <2>4, <2>5, <2>6, <2>7, <2>8, <2>9, <2>10, <2>11, <2>12,
    <2>13, <2>14, <2>15, <2>16, <2>17 DEF Worker
<1>3. ASSUME NEW o \in Others, Begins(o) \/ Continues(o) PROVE QueueType'
  <2>1. CASE Enqueue(o)
    <3>1. o \in Threads /\ (CHOOSE t \in system.tasks : Away(t)) \in Tasks
      BY <2>1 DEF Enqueue, TimerType, System, Threads
    <3> QED BY <2>1, <3>1, PushTypes DEF Enqueue
  <2>2. ASSUME NEW t \in system.times, Arm(o, t) PROVE QueueType'
    BY <2>2 DEF Arm, QueueType, queueVars, threadVars
  <2>3. CASE Exit(o)
    BY <2>3 DEF Exit, QueueType, queueVars, threadVars
  <2>4. CASE Shutdown(o)
    BY <2>4 DEF Shutdown, QueueType, queueVars, threadVars
  <2>5. CASE PushNotifies(o)
    BY <2>5 DEF PushNotifies, QueueType, queueVars, threadVars
  <2>6. CASE Poke(o)
    BY <2>6 DEF Poke, QueueType, queueVars, threadVars
  <2>7. CASE TimerArmed(o)
    BY <2>7 DEF TimerArmed, QueueType, queueVars, threadVars
  <2>8. CASE ArmPokes(o)
    BY <2>8 DEF ArmPokes, QueueType, queueVars, threadVars
  <2>9. CASE ArmLocks(o)
    BY <2>9 DEF ArmLocks, QueueType, queueVars, threadVars
  <2>10. CASE NotifyAll(o)
    BY <2>10 DEF NotifyAll, QueueType, queueVars, threadVars
  <2>11. CASE EndTimer(o)
    BY <2>11 DEF EndTimer, QueueType, queueVars, threadVars
  <2>12. CASE EndQueue(o)
    BY <2>12 DEF EndQueue, QueueType, queueVars, threadVars
  <2>13. CASE EndQueued(o)
    BY <2>13 DEF EndQueued, QueueType, queueVars, threadVars
  <2>14. CASE EndParked(o)
    BY <2>14 DEF EndParked, QueueType, queueVars, threadVars
  <2> QED BY <1>3, <2>1, <2>2, <2>3, <2>4, <2>5, <2>6, <2>7, <2>8, <2>9, <2>10, <2>11, <2>12,
    <2>13, <2>14 DEF Begins, Continues
<1>4. ASSUME NEW t \in system.times, Disarm(t) PROVE QueueType'
  BY <1>4 DEF Disarm, QueueType, queueVars, threadVars
<1>5. CASE TimerGoesOn
  <2>1. CASE TimerLooks
    BY <2>1 DEF TimerLooks, QueueType, queueVars, threadVars
  <2>2. CASE TimerWakes
    BY <2>2 DEF TimerWakes, QueueType, queueVars, threadVars
  <2>3. CASE TimerFires
    BY <2>3 DEF TimerFires, QueueType, queueVars, threadVars
  <2> QED BY <1>5, <2>1, <2>2, <2>3 DEF TimerGoesOn
<1>6. ASSUME NEW m \in Waiters, WaitBegins(m) \/ Waits(m) \/ Resume(m) PROVE QueueType'
  <2>1. CASE WaitBegins(m)
    BY <2>1 DEF WaitBegins, QueueType, queueVars, threadVars
  <2>2. CASE WaitLooks(m)
    BY <2>2 DEF WaitLooks, QueueType, queueVars, threadVars
  <2>3. CASE WaitFiresDue(m)
    BY <2>3 DEF WaitFiresDue, QueueType, queueVars, threadVars
  <2>4. CASE WaitSleeps(m)
    BY <2>4 DEF WaitSleeps, QueueType, queueVars, threadVars
  <2>5. CASE WaitWakes(m)
    BY <2>5 DEF WaitWakes, QueueType, queueVars, threadVars
  <2>6. CASE WaitFires(m)
    BY <2>6 DEF WaitFires, QueueType, queueVars, threadVars
  <2>7. CASE Resume(m)
    BY <2>7 DEF Resume, QueueType, queueVars, threadVars
  <2> QED BY <1>6, <2>1, <2>2, <2>3, <2>4, <2>5, <2>6, <2>7 DEF Waits
<1> QED BY <1>1, <1>2, <1>3, <1>4, <1>5, <1>6 DEF Next

\* Nothing is armed but by one of the others, who goes on to timer_armed.
LEMMA TimerTypeStep ==
    TypeInv /\ [Next]_vars =>
        TimerType' /\ (armed' \subseteq armed \/ \E o \in Others : pc'[o] = "arm")
<1> SUFFICES ASSUME PlaceType, TimerType, [Next]_vars
             PROVE  TimerType' /\ (armed' \subseteq armed \/ \E o \in Others : pc'[o] = "arm")
  BY DEF TypeInv
<1> DEFINE Goal == TimerType' /\ (armed' \subseteq armed \/ \E o \in Others : pc'[o] = "arm")
<1>1. CASE UNCHANGED vars
  BY <1>1 DEF vars, timerVars, endVars, TimerType
<1>2. ASSUME NEW w \in WorkerSet, Worker(w) \/ Panics(w) PROVE Goal
  <2>1. CASE Look(w)
    BY <2>1 DEF Look, TimerType, timerVars, endVars
  <2>2. CASE Count(w)
    BY <2>2 DEF Count, TimerType, timerVars, endVars
  <2>3. CASE Spin(w)
    BY <2>3 DEF Spin, TimerType, timerVars, endVars
  <2>4. CASE Uncount(w)
    BY <2>4 DEF Uncount, TimerType, timerVars, endVars
  <2>5. CASE Again(w)
    BY <2>5 DEF Again, TimerType, timerVars, endVars
  <2>6. CASE Sleeps(w)
    BY <2>6 DEF Sleeps, TimerType, timerVars, endVars
  <2>7. CASE WakesUp(w)
    BY <2>7 DEF WakesUp, TimerType, timerVars, endVars
  <2>8. CASE Fires(w)
    BY <2>8, FewerAreArmed DEF Fires, TimerType, timerVars, endVars
  <2>9. CASE PushNotifies(w)
    BY <2>9 DEF PushNotifies, TimerType, timerVars, endVars
  <2>10. CASE PopNotifies(w)
    BY <2>10 DEF PopNotifies, TimerType, timerVars, endVars
  <2>11. CASE Poke(w)
    BY <2>11 DEF Poke, TimerType, timerVars, endVars
  <2>12. CASE SliceEnds(w)
    BY <2>12 DEF SliceEnds, TimerType, timerVars, endVars
  <2>13. CASE SliceGoesOn(w)
    BY <2>13 DEF SliceGoesOn, TimerType, timerVars, endVars
  <2>14. CASE SliceYields(w)
    BY <2>14, FewerAreArmed DEF SliceYields, KeepsOn, TimerType, timerVars, endVars
  <2>15. CASE SliceOver(w)
    BY <2>15, FewerAreArmed DEF SliceOver, KeepsOn, TimerType, timerVars, endVars
  <2>16. CASE GivesBack(w)
    BY <2>16 DEF GivesBack, Push, TimerType, timerVars, endVars
  <2>17. CASE Panics(w)
    BY <2>17 DEF Panics, TimerType, timerVars, endVars
  <2> QED BY <1>2, <2>1, <2>2, <2>3, <2>4, <2>5, <2>6, <2>7, <2>8, <2>9, <2>10, <2>11, <2>12,
    <2>13, <2>14, <2>15, <2>16, <2>17 DEF Worker
<1>3. ASSUME NEW o \in Others, Begins(o) \/ Continues(o) PROVE Goal
  <2>1. CASE Enqueue(o)
    BY <2>1 DEF Enqueue, Push, TimerType, timerVars, endVars
  <2>2. ASSUME NEW t \in system.times, Arm(o, t) PROVE Goal
    <3>1. t \in Times /\ o \in Threads
      BY DEF TimerType, System, Threads
    <3> QED BY <2>2, <3>1 DEF Arm, To, PlaceType, TimerType, endVars
  <2>3. CASE Exit(o)
    BY <2>3 DEF Exit, TimerType, timerVars, endVars
  <2>4. CASE Shutdown(o)
    BY <2>4 DEF Shutdown, TimerType, timerVars, endVars
  <2>5. CASE PushNotifies(o)
    BY <2>5 DEF PushNotifies, TimerType, timerVars, endVars
  <2>6. CASE Poke(o)
    BY <2>6 DEF Poke, TimerType, timerVars, endVars
  <2>7. CASE TimerArmed(o)
    BY <2>7 DEF TimerArmed, NotifyTimer, TimerType, timerVars, endVars
  <2>8. CASE ArmPokes(o)
    BY <2>8 DEF ArmPokes, TimerType, timerVars, endVars
  <2>9. CASE ArmLocks(o)
    BY <2>9 DEF ArmLocks, TimerType, timerVars, endVars
  <2>10. CASE NotifyAll(o)
    BY <2>10 DEF NotifyAll, TimerType, timerVars, endVars
  <2>11. CASE EndTimer(o)
    BY <2>11 DEF EndTimer, NotifyTimer, TimerType, timerVars, endVars
  <2>12. CASE EndQueue(o)
    BY <2>12 DEF EndQueue, TimerType, timerVars, endVars
  <2>13. CASE EndQueued(o)
    BY <2>13 DEF EndQueued, TimerType, timerVars, endVars
  <2>14. CASE EndParked(o)
    BY <2>14 DEF EndParked, TimerType, timerVars, endVars
  <2> QED BY Zenon, <1>3, <2>1, <2>2, <2>3, <2>4, <2>5, <2>6, <2>7, <2>8, <2>9, <2>10, <2>11, <2>12,
    <2>13, <2>14 DEF Begins, Continues
<1>4. ASSUME NEW t \in system.times, Disarm(t) PROVE Goal
  BY <1>4 DEF Disarm, TimerType, endVars
<1>5. CASE TimerGoesOn
  <2>1. CASE TimerLooks
    BY <2>1 DEF TimerLooks, TimerType, timerVars, endVars
  <2>2. CASE TimerWakes
    BY <2>2 DEF TimerWakes, TimerType, timerVars, endVars
  <2>3. CASE TimerFires
    BY <2>3, FewerAreArmed DEF TimerFires, TimerType, timerVars, endVars
  <2> QED BY <1>5, <2>1, <2>2, <2>3 DEF TimerGoesOn
<1>6. ASSUME NEW m \in Waiters, WaitBegins(m) \/ Waits(m) \/ Resume(m) PROVE Goal
  <2>1. CASE WaitBegins(m)
    BY <2>1 DEF WaitBegins, TimerType, timerVars, endVars
  <2>2. CASE WaitLooks(m)
    BY <2>2 DEF WaitLooks, TimerType, timerVars, endVars
  <2>3. CASE WaitFiresDue(m)
    BY <2>3, FewerAreArmed DEF WaitFiresDue, TimerType, timerVars, endVars
  <2>4. CASE WaitSleeps(m)
    BY <2>4 DEF WaitSleeps, TimerType, timerVars, endVars
  <2>5. CASE WaitWakes(m)
    BY <2>5 DEF WaitWakes, TimerType, timerVars, endVars
  <2>6. CASE WaitFires(m)
    BY <2>6, FewerAreArmed DEF WaitFires, TimerType, timerVars, endVars
  <2>7. CASE Resume(m)
    BY <2>7 DEF Resume, TimerType, timerVars, endVars
  <2> QED BY <1>6, <2>1, <2>2, <2>3, <2>4, <2>5, <2>6, <2>7 DEF Waits
<1> QED BY <1>1, <1>2, <1>3, <1>4, <1>5, <1>6 DEF Next

\* The end of a wait keeps the types of the threads that wait.
LEMMA WaitOverTypes ==
    ASSUME WaitType, NEW m \in Waiters, WaitOver(m) PROVE WaitType'
BY ForeverIsLast DEF WaitType, WaitOver, Sleepers

\* Every step keeps the types of those that sleep and wait.
LEMMA WaitTypeStep == TypeInv /\ [Next]_vars => WaitType'
<1> SUFFICES ASSUME TimerType, WaitType, [Next]_vars PROVE WaitType'
  BY DEF TypeInv
<1>0. Forever \in Nat /\ NextDeadline \in Nat /\ StandIn \in Nat
  <2>1. Forever \in Nat /\ NextDeadline \in Nat
    BY ForeverIsLast, NextOfArmed, FewerIsLater DEF TimerType
  <2> QED BY <2>1 DEF StandIn
<1>1. CASE UNCHANGED vars
  BY <1>1 DEF vars, waiterVars, WaitType
<1>2. ASSUME NEW w \in WorkerSet, Worker(w) \/ Panics(w) PROVE WaitType'
  <2>1. CASE Look(w)
    BY <2>1 DEF Look, WaitType, waiterVars
  <2>2. CASE Count(w)
    BY <2>2 DEF Count, WaitType, waiterVars
  <2>3. CASE Spin(w)
    BY <2>3 DEF Spin, WaitType, waiterVars
  <2>4. CASE Uncount(w)
    BY <2>4 DEF Uncount, WaitType, waiterVars
  <2>5. CASE Again(w)
    BY <1>0, <2>5 DEF Again, WaitType, Sleepers, waiterVars
  <2>6. CASE Sleeps(w)
    BY <2>6 DEF Sleeps, WaitType, waiterVars
  <2>7. CASE WakesUp(w)
    BY <1>0, <2>7 DEF WakesUp, WaitType, Sleepers, waiterVars
  <2>8. CASE Fires(w)
    BY <2>8 DEF Fires, WaitType, waiterVars
  <2>9. CASE PushNotifies(w)
    BY <2>9 DEF PushNotifies, WaitType, waiterVars
  <2>10. CASE PopNotifies(w)
    BY <2>10 DEF PopNotifies, WaitType, waiterVars
  <2>11. CASE Poke(w)
    BY <2>11 DEF Poke, PokeThreads, WaitType, waiterVars
  <2>12. CASE SliceEnds(w)
    BY <2>12 DEF SliceEnds, WaitType, waiterVars
  <2>13. CASE SliceGoesOn(w)
    BY <2>13 DEF SliceGoesOn, WaitType, waiterVars
  <2>14. CASE SliceYields(w)
    BY <2>14 DEF SliceYields, WaitType, waiterVars
  <2>15. CASE SliceOver(w)
    BY <2>15 DEF SliceOver, WaitType, waiterVars
  <2>16. CASE GivesBack(w)
    BY <2>16 DEF GivesBack, Push, WaitType, waiterVars
  <2>17. CASE Panics(w)
    BY <2>17 DEF Panics, WaitType, waiterVars
  <2> QED BY <1>2, <2>1, <2>2, <2>3, <2>4, <2>5, <2>6, <2>7, <2>8, <2>9, <2>10, <2>11, <2>12,
    <2>13, <2>14, <2>15, <2>16, <2>17 DEF Worker
<1>3. ASSUME NEW o \in Others, Begins(o) \/ Continues(o) PROVE WaitType'
  <2>1. CASE Enqueue(o)
    BY <2>1 DEF Enqueue, Push, WaitType, waiterVars
  <2>2. ASSUME NEW t \in system.times, Arm(o, t) PROVE WaitType'
    BY <2>2 DEF Arm, WaitType, waiterVars
  <2>3. CASE Exit(o)
    BY <2>3 DEF Exit, WaitType, waiterVars
  <2>4. CASE Shutdown(o)
    BY <2>4 DEF Shutdown, WaitType, waiterVars
  <2>5. CASE PushNotifies(o)
    BY <2>5 DEF PushNotifies, WaitType, waiterVars
  <2>6. CASE Poke(o)
    BY <2>6 DEF Poke, PokeThreads, WaitType, waiterVars
  <2>7. CASE TimerArmed(o)
    BY <2>7 DEF TimerArmed, WaitType, waiterVars
  <2>8. CASE ArmPokes(o)
    BY <2>8 DEF ArmPokes, PokeThreads, WaitType, waiterVars
  <2>9. CASE ArmLocks(o)
    BY <2>9 DEF ArmLocks, WaitType, waiterVars
  <2>10. CASE NotifyAll(o)
    BY <2>10 DEF NotifyAll, WaitType, waiterVars
  <2>11. CASE EndTimer(o)
    BY <2>11 DEF EndTimer, WaitType, waiterVars
  <2>12. CASE EndQueue(o)
    BY <2>12 DEF EndQueue, WaitType, waiterVars
  <2>13. CASE EndQueued(o)
    BY <2>13 DEF EndQueued, WaitType, waiterVars
  <2>14. CASE EndParked(o)
    BY <2>14 DEF EndParked, WaitType, waiterVars
  <2> QED BY <1>3, <2>1, <2>2, <2>3, <2>4, <2>5, <2>6, <2>7, <2>8, <2>9, <2>10, <2>11, <2>12,
    <2>13, <2>14 DEF Begins, Continues
<1>4. ASSUME NEW t \in system.times, Disarm(t) PROVE WaitType'
  BY <1>4 DEF Disarm, WaitType, waiterVars
<1>5. CASE TimerGoesOn
  <2>1. CASE TimerLooks
    BY <1>0, <2>1 DEF TimerLooks, WaitType, Sleepers, waiterVars
  <2>2. CASE TimerWakes
    BY <1>0, <2>2 DEF TimerWakes, WaitType, Sleepers, waiterVars
  <2>3. CASE TimerFires
    BY <2>3 DEF TimerFires, WaitType, waiterVars
  <2> QED BY <1>5, <2>1, <2>2, <2>3 DEF TimerGoesOn
<1>6. ASSUME NEW m \in Waiters, WaitBegins(m) \/ Waits(m) \/ Resume(m) PROVE WaitType'
  <2>1. CASE WaitBegins(m)
    BY <2>1 DEF WaitBegins, WaitType, waiterVars
  <2>2. CASE WaitLooks(m)
    <3>1. CASE WaitOver(m)
      BY <3>1, WaitOverTypes
    <3>2. CASE ~WaitOver(m)
      BY <1>0, <2>2, <3>2 DEF WaitLooks, WaitType, Sleepers
    <3> QED BY <3>1, <3>2
  <2>3. CASE WaitFiresDue(m)
    <3>1. CASE WaitOver(m)
      BY <3>1, WaitOverTypes
    <3>2. CASE ~WaitOver(m)
      BY <2>3, <3>2 DEF WaitFiresDue, WaitType, waiterVars
    <3> QED BY <3>1, <3>2
  <2>4. CASE WaitSleeps(m)
    BY <2>4 DEF WaitSleeps, WaitType, waiterVars
  <2>5. CASE WaitWakes(m)
    <3>1. CASE WaitOver(m)
      BY <3>1, WaitOverTypes
    <3>2. CASE ~WaitOver(m)
      BY <1>0, <2>5, <3>2, Zenon DEF WaitWakes, WaitType, Sleepers
    <3> QED BY <3>1, <3>2
  <2>6. CASE WaitFires(m)
    BY <2>6 DEF WaitFires, WaitType, waiterVars
  <2>7. CASE Resume(m)
    BY <2>7 DEF Resume, WaitType, waiterVars
  <2> QED BY <1>6, <2>1, <2>2, <2>3, <2>4, <2>5, <2>6, <2>7 DEF Waits
<1> QED BY <1>1, <1>2, <1>3, <1>4, <1>5, <1>6 DEF Next

\* Every step keeps the types.
LEMMA TypeStep == TypeInv /\ [Next]_vars => TypeInv'
BY StepWalks, PlaceStep, QueueTypeStep, TimerTypeStep, WaitTypeStep DEF TypeInv

-----------------------------------------------------------------------------
(* The run queue.                                                          *)

\* The counts are numbers, and are zero where nobody is counted.
LEMMA Counts ==
    /\ IsFiniteSet(Looking) /\ Cardinality(Looking) \in Nat
    /\ IsFiniteSet(Asleep) /\ Cardinality(Asleep) \in Nat
    /\ Cardinality(Looking) = 0 <=> Looking = {}
    /\ Cardinality(Asleep) = 0 <=> Asleep = {}
<1>1. IsFiniteSet(WorkerSet) /\ Looking \subseteq WorkerSet /\ Asleep \subseteq WorkerSet
  BY Bounds DEF Looking, Asleep
<1>2. IsFiniteSet(Looking) /\ IsFiniteSet(Asleep)
  BY <1>1, FS_Subset
<1> QED BY <1>2, FS_CardinalityType, FS_EmptySet

\* Thread x goes to place p, and the others stay.
Steps(x, p) == pc'[x] = p /\ \A y \in Threads \ {x} : pc'[y] = pc[y]

\* A thread that goes to a place is there, and the others stay.
LEMMA ToSteps ==
    ASSUME PlaceType, NEW x \in Threads, NEW p, To(x, p) PROVE Steps(x, p)
BY DEF PlaceType, To, Steps

\* The places of a worker that is going to look at the queue with its lock.
OnWay == {"look", "count", "spin", "found", "uncount", "again", "fire", "popped"}

\* A step of a thread that changes nothing for the queue: it neither takes nor
\* gives up the lock, is not counted otherwise than before, and a worker turns
\* away from the queue only when it is empty or at the end.
Quiet(x, p) ==
    /\ Steps(x, p)
    /\ pc[x] \notin Locked \cup {"sleep"} /\ p \notin Locked \cup {"sleep"}
    /\ pc[x] \in Counted <=> p \in Counted
    /\ pc[x] \in OnWay => p \in OnWay \/ Ending' \/ queue = <<>>
    /\ UNCHANGED <<queue, sleepers, spinning, lock, waiting>>
    /\ Ending => Ending'

\* A quiet step keeps the invariant of the queue.
LEMMA QuietStep ==
    ASSUME QueueInv, NEW x \in Threads, NEW p, Quiet(x, p) PROVE QueueInv'
<1>1. LockInv'
  BY DEF QueueInv, LockInv, Quiet, Steps
<1>2. \A w \in WorkerSet : /\ pc'[w] \in Counted <=> pc[w] \in Counted
                           /\ pc'[w] = "sleep" <=> pc[w] = "sleep"
                           /\ pc'[w] = "doze" <=> pc[w] = "doze"
  BY DEF Quiet, Steps, Threads, Locked
<1>3. Looking' = Looking /\ Asleep' = Asleep
  BY <1>2 DEF Looking, Asleep
<1>4. CountInv'
  BY <1>3 DEF QueueInv, CountInv, Quiet
<1>5. DozeInv'
  BY <1>2 DEF QueueInv, DozeInv, Quiet
<1>6. QueuedIsSeen'
  <2>1. SUFFICES ASSUME queue # <<>>, waiting # {}, ~Ending'
                 PROVE  \/ \E w \in WorkerSet : OnItsWay(w)'
                        \/ \E y \in Threads : pc'[y] = "notify"
    BY DEF QueuedIsSeen, Quiet
  <2>2. CASE \E w \in WorkerSet : OnItsWay(w)
    <3>1. PICK w \in WorkerSet : OnItsWay(w)
      BY <2>2
    <3>2. OnItsWay(w)'
      BY <2>1, <3>1 DEF OnItsWay, OnWay, Quiet, Steps, Threads
    <3> QED BY <3>2
  <2>3. CASE \E y \in Threads : pc[y] = "notify"
    <3>1. PICK y \in Threads : pc[y] = "notify"
      BY <2>3
    <3>2. pc'[y] = "notify"
      BY <3>1 DEF Quiet, Steps, Locked
    <3> QED BY <3>2
  <2>4. ~Ending
    BY <2>1 DEF Quiet
  <2> QED BY <2>1, <2>2, <2>3, <2>4 DEF QueueInv, QueuedIsSeen
<1> QED BY <1>1, <1>4, <1>5, <1>6 DEF QueueInv

\* A step of none of the threads.
Still ==
    /\ pc' = pc
    /\ UNCHANGED <<queue, sleepers, spinning, lock, waiting, shutdown, broken>>

\* So does one that leaves queue and threads alone.
LEMMA StillStep == QueueInv /\ Still => QueueInv'
BY DEF Still, QueueInv, LockInv, CountInv, DozeInv, QueuedIsSeen, Looking, Asleep, OnItsWay, Ending

\* Whoever notifies, with somebody asleep to be notified, sends one on its way.
LEMMA Notified ==
    ASSUME QueueInv, NEW x \in Threads, NEW p, Steps(x, p), pc[x] # "sleep", pc[x] \notin Counted,
           waiting' # {}, UNCHANGED <<sleepers, spinning>>,
           IF sleepers > 0 /\ spinning = 0 THEN NotifyOne ELSE UNCHANGED waiting
    PROVE  \E w \in WorkerSet : OnItsWay(w)'
<1>1. waiting # {} /\ waiting \subseteq Asleep
  BY DEF QueueInv, CountInv, NotifyOne
<1>2. sleepers > 0
  BY <1>1, Counts DEF QueueInv, CountInv
<1>3. CASE spinning = 0
  <2>1. PICK w \in waiting : waiting' = waiting \ {w}
    BY <1>1, <1>2, <1>3 DEF NotifyOne
  <2>2. w \in WorkerSet /\ pc[w] = "sleep"
    BY <1>1, <2>1 DEF Asleep
  <2>3. OnItsWay(w)'
    BY <2>1, <2>2 DEF OnItsWay, Steps, Threads
  <2> QED BY <2>2, <2>3
<1>4. CASE spinning # 0
  <2>1. PICK w \in Looking : TRUE
    BY <1>4, Counts DEF QueueInv, CountInv
  <2>2. w \in WorkerSet /\ pc[w] \in Counted
    BY <2>1 DEF Looking
  <2>3. OnItsWay(w)'
    BY <2>2 DEF OnItsWay, Steps, Threads, Counted
  <2> QED BY <2>2, <2>3
<1> QED BY <1>3, <1>4

\* The lock is taken by a thread that goes to a place under it ...
LEMMA LockTaken ==
    ASSUME LockInv, NEW x \in Threads, NEW p \in Locked, Steps(x, p), lock = Nobody, lock' = x
    PROVE  LockInv'
<1>1. \A y \in Threads : pc[y] \notin Locked
  BY Bounds DEF LockInv, Threads
<1> QED BY <1>1 DEF LockInv, Steps

\* ... and given up where it leaves one.
LEMMA LockGivenUp ==
    ASSUME LockInv, NEW x \in Threads, NEW p, p \notin Locked, Steps(x, p), pc[x] \in Locked,
           lock' = Nobody
    PROVE  LockInv'
<1>1. \A y \in Threads \ {x} : pc[y] \notin Locked
  BY DEF LockInv
<1> QED BY <1>1, Bounds DEF LockInv, Steps, Threads

\* A step that is counted as before.
LEMMA CountedAsBefore ==
    ASSUME CountInv, NEW x \in Threads, NEW p, Steps(x, p),
           pc[x] \in Counted <=> p \in Counted, pc[x] # "sleep", p # "sleep",
           waiting' \subseteq waiting, UNCHANGED <<sleepers, spinning>>
    PROVE  CountInv'
<1>1. \A w \in WorkerSet : /\ pc'[w] \in Counted <=> pc[w] \in Counted
                           /\ pc'[w] = "sleep" <=> pc[w] = "sleep"
  BY DEF Steps, Threads
<1>2. Looking' = Looking /\ Asleep' = Asleep
  BY <1>1 DEF Looking, Asleep
<1> QED BY <1>2 DEF CountInv

\* Nobody is about to sleep while the lock is free or another's.
LEMMA NoneDozes ==
    ASSUME LockInv, NEW x, lock = x, NEW w \in WorkerSet, w # x PROVE pc[w] # "doze"
BY DEF LockInv, Threads, Locked

\* enqueue: a task is pushed, by who then holds the lock.
LEMMA PushStep ==
    ASSUME QueueInv, PlaceType, QueueType, TimerType, NEW x \in Threads,
           NEW t \in Tasks \cup {Nobody}, Push(x, t), pc[x] \in {"idle", "enqueue"}
    PROVE  QueueInv'
<1>1. CASE shutdown
  <2>1. PICK p \in {"look", "idle"} : To(x, p)
    BY <1>1 DEF Push
  <2>2. Steps(x, p)
    BY <2>1, ToSteps
  <2>3. Quiet(x, p)
    BY <1>1, <2>2 DEF Push, Quiet, Locked, Counted, OnWay, Ending, endVars
  <2> QED BY <2>3, QuietStep
<1>2. CASE ~shutdown
  <2>1. Steps(x, "notify")
    BY <1>2, ToSteps DEF Push
  <2>2. lock = Nobody /\ lock' = x /\ UNCHANGED <<sleepers, spinning, waiting>>
    BY <1>2 DEF Push
  <2>3. LockInv'
    BY <2>1, <2>2, LockTaken DEF QueueInv, Locked
  <2>4. CountInv'
    BY <2>1, <2>2, CountedAsBefore DEF QueueInv, Counted
  <2>5. DozeInv'
    BY <2>1, <2>2, NoneDozes, Bounds DEF QueueInv, DozeInv, Steps, Threads
  <2>6. QueuedIsSeen'
    BY <2>1 DEF QueuedIsSeen, Steps
  <2> QED BY <2>3, <2>4, <2>5, <2>6 DEF QueueInv
<1> QED BY <1>1, <1>2

\* enqueue: who is on the way, or is notified, sees the task.
LEMMA PushNotifiesStep ==
    ASSUME QueueInv, PlaceType, NEW x \in Threads, PushNotifies(x) PROVE QueueInv'
<1>1. PICK p \in {"look", "idle"} : Steps(x, p)
  BY ToSteps DEF PushNotifies
<1>2. /\ pc[x] = "notify" /\ lock' = Nobody /\ UNCHANGED <<queue, sleepers, spinning>>
      /\ IF sleepers > 0 /\ spinning = 0 THEN NotifyOne ELSE UNCHANGED waiting
  BY DEF PushNotifies
<1>3. LockInv'
  BY <1>1, <1>2, LockGivenUp DEF QueueInv, Locked
<1>4. waiting' \subseteq waiting
  BY <1>2 DEF NotifyOne
<1>5. CountInv'
  BY <1>1, <1>2, <1>4, CountedAsBefore DEF QueueInv, Counted
<1>6. DozeInv'
  BY <1>1, <1>2 DEF QueueInv, DozeInv, Steps, Threads
<1>7. QueuedIsSeen'
  <2>1. CASE waiting' = {}
    BY <2>1 DEF QueuedIsSeen
  <2>2. CASE waiting' # {}
    <3>1. \E w \in WorkerSet : OnItsWay(w)'
      BY <1>1, <1>2, <2>2, Notified DEF Counted
    <3> QED BY <3>1 DEF QueuedIsSeen
  <2> QED BY <2>1, <2>2
<1> QED BY <1>3, <1>5, <1>6, <1>7 DEF QueueInv

\* pop: a worker takes the first task.
LEMMA PopStep ==
    ASSUME QueueInv, PlaceType, NEW w \in WorkerSet, Pop(w), pc[w] \in {"look", "again"},
           lock = Nobody, UNCHANGED <<sleepers, spinning, waiting>>
    PROVE  QueueInv'
<1>1. w \in Threads /\ Steps(w, "popped") /\ lock' = w
  BY ToSteps DEF Pop, Threads
<1>2. LockInv'
  BY <1>1, LockTaken DEF QueueInv, Locked
<1>3. CountInv'
  BY <1>1, CountedAsBefore DEF QueueInv, Counted
<1>4. DozeInv'
  BY <1>1, NoneDozes, Bounds DEF QueueInv, DozeInv, Steps, Threads
<1>5. QueuedIsSeen'
  BY <1>1 DEF QueuedIsSeen, OnItsWay, Steps
<1> QED BY <1>2, <1>3, <1>4, <1>5 DEF QueueInv

\* pop: if more tasks are left, somebody is on the way or notified.
LEMMA PopNotifiesStep ==
    ASSUME QueueInv, PlaceType, NEW w \in WorkerSet, PopNotifies(w) PROVE QueueInv'
<1>1. w \in Threads /\ Steps(w, "run")
  BY ToSteps DEF PopNotifies, Threads
<1>2. /\ pc[w] = "popped" /\ lock' = Nobody /\ UNCHANGED <<queue, sleepers, spinning>>
      /\ IF queue # <<>> /\ sleepers > 0 /\ spinning = 0 THEN NotifyOne ELSE UNCHANGED waiting
  BY DEF PopNotifies
<1>3. LockInv'
  BY <1>1, <1>2, LockGivenUp DEF QueueInv, Locked
<1>4. waiting' \subseteq waiting
  BY <1>2 DEF NotifyOne
<1>5. CountInv'
  BY <1>1, <1>2, <1>4, CountedAsBefore DEF QueueInv, Counted
<1>6. DozeInv'
  BY <1>1, <1>2 DEF QueueInv, DozeInv, Steps, Threads
<1>7. QueuedIsSeen'
  <2>1. CASE waiting' = {} \/ queue = <<>>
    BY <1>2, <2>1 DEF QueuedIsSeen
  <2>2. CASE waiting' # {} /\ queue # <<>>
    <3>1. \E v \in WorkerSet : OnItsWay(v)'
      BY <1>1, <1>2, <2>2, Notified DEF Counted
    <3> QED BY <3>1 DEF QueuedIsSeen
  <2> QED BY <2>1, <2>2
<1> QED BY <1>3, <1>5, <1>6, <1>7 DEF QueueInv

\* A worker that goes from one place without the lock to another, on its way
\* to the queue there.
LEMMA OnItsWayStep ==
    ASSUME QueueInv, NEW w \in WorkerSet, NEW p \in OnWay \ Locked, Steps(w, p),
           pc[w] \notin Locked, UNCHANGED <<queue, lock>>
    PROVE  LockInv' /\ DozeInv' /\ QueuedIsSeen'
<1>1. w \in Threads
  BY DEF Threads
<1>2. LockInv'
  BY <1>1 DEF QueueInv, LockInv, Steps
<1>3. DozeInv'
  BY <1>1 DEF QueueInv, DozeInv, Steps, Threads, OnWay
<1>4. OnItsWay(w)'
  BY DEF OnItsWay, Steps, OnWay
<1> QED BY <1>2, <1>3, <1>4 DEF QueuedIsSeen

\* next_task: a worker begins to look on.
LEMMA CountStep ==
    ASSUME QueueInv, PlaceType, NEW w \in WorkerSet, Count(w) PROVE QueueInv'
<1>1. PICK p \in {"spin", "uncount"} : To(w, p)
  BY DEF Count
<1>2. w \in Threads /\ Steps(w, p)
  BY <1>1, ToSteps DEF Threads
<1>3. pc[w] = "count" /\ spinning' = spinning + 1 /\ UNCHANGED <<queue, lock, sleepers, waiting>>
  BY DEF Count
<1>4. LockInv' /\ DozeInv' /\ QueuedIsSeen'
  BY <1>2, <1>3, OnItsWayStep DEF OnWay, Locked
<1>5. Looking' = Looking \cup {w} /\ Asleep' = Asleep /\ w \notin Looking
  BY <1>2, <1>3 DEF Looking, Asleep, Steps, Counted, Threads
<1>6. Cardinality(Looking') = Cardinality(Looking) + 1
  BY <1>5, Counts, FS_AddElement, Zenon
<1>7. CountInv'
  BY <1>3, <1>5, <1>6 DEF QueueInv, CountInv
<1> QED BY <1>4, <1>7 DEF QueueInv

\* next_task: it looks on no longer, and is still on its way.
LEMMA UncountStep ==
    ASSUME QueueInv, PlaceType, NEW w \in WorkerSet, Uncount(w) PROVE QueueInv'
<1>1. PICK p \in {"look", "again"} : To(w, p)
  BY DEF Uncount
<1>2. w \in Threads /\ Steps(w, p)
  BY <1>1, ToSteps DEF Threads
<1>3. /\ pc[w] \in {"found", "uncount"} /\ spinning' = spinning - 1
      /\ UNCHANGED <<queue, lock, sleepers, waiting>>
  BY DEF Uncount
<1>4. LockInv' /\ DozeInv' /\ QueuedIsSeen'
  BY <1>2, <1>3, OnItsWayStep DEF OnWay, Locked
<1>5. Looking' = Looking \ {w} /\ Asleep' = Asleep /\ w \in Looking
  BY <1>2, <1>3 DEF Looking, Asleep, Steps, Counted, Threads
<1>6. Cardinality(Looking') = Cardinality(Looking) - 1
  BY <1>5, Counts, FS_RemoveElement, Zenon
<1>7. CountInv'
  BY <1>3, <1>5, <1>6 DEF QueueInv, CountInv
<1> QED BY <1>4, <1>7 DEF QueueInv

\* next_task: the second look, with the lock.
LEMMA AgainStep ==
    ASSUME QueueInv, PlaceType, NEW w \in WorkerSet, Again(w) PROVE QueueInv'
<1>0. w \in Threads /\ pc[w] = "again" /\ lock = Nobody /\ UNCHANGED <<shutdown, broken>>
  BY DEF Again, Threads, endVars
<1>1. CASE Ending /\ To(w, "gone") /\ UNCHANGED queueVars
  <2>1. Quiet(w, "gone")
    BY <1>0, <1>1, ToSteps DEF Quiet, Locked, Counted, OnWay, Ending, queueVars
  <2> QED BY <1>0, <2>1, QuietStep
<1>2. CASE Pop(w) /\ UNCHANGED <<sleepers, spinning, waiting>>
  BY <1>0, <1>2, PopStep
<1>3. CASE /\ queue = <<>> /\ lock' = w /\ To(w, "doze")
           /\ UNCHANGED <<queue, sleepers, spinning, waiting>>
  <2>1. Steps(w, "doze")
    BY <1>0, <1>3, ToSteps
  <2>2. LockInv'
    BY <1>0, <1>3, <2>1, LockTaken DEF QueueInv, Locked
  <2>3. CountInv'
    BY <1>0, <1>3, <2>1, CountedAsBefore DEF QueueInv, Counted
  <2> QED BY <1>3, <2>2, <2>3 DEF QueueInv, DozeInv, QueuedIsSeen
<1> QED BY <1>1, <1>2, <1>3 DEF Again

\* next_task: who goes to sleep has seen an empty queue.
LEMMA SleepsStep ==
    ASSUME QueueInv, PlaceType, NEW w \in WorkerSet, Sleeps(w) PROVE QueueInv'
<1>1. w \in Threads /\ Steps(w, "sleep")
  BY ToSteps DEF Sleeps, Threads
<1>2. /\ pc[w] = "doze" /\ sleepers' = sleepers + 1 /\ waiting' = waiting \cup {w}
      /\ lock' = Nobody /\ UNCHANGED <<queue, spinning>>
  BY DEF Sleeps
<1>3. LockInv'
  BY <1>1, <1>2, LockGivenUp DEF QueueInv, Locked
<1>4. Looking' = Looking /\ Asleep' = Asleep \cup {w} /\ w \notin Asleep
  BY <1>1, <1>2 DEF Looking, Asleep, Steps, Counted, Threads
<1>5. Cardinality(Asleep') = Cardinality(Asleep) + 1
  BY <1>4, Counts, FS_AddElement, Zenon
<1>6. CountInv'
  BY <1>2, <1>4, <1>5 DEF QueueInv, CountInv
<1>7. queue = <<>>
  BY <1>2 DEF QueueInv, DozeInv
<1> QED BY <1>2, <1>3, <1>6, <1>7 DEF QueueInv, DozeInv, QueuedIsSeen

\* next_task: a worker wakes and is on its way.
LEMMA WakesUpStep ==
    ASSUME QueueInv, PlaceType, NEW w \in WorkerSet, WakesUp(w) PROVE QueueInv'
<1>1. PICK p \in {"fire", "look"} : To(w, p)
  BY DEF WakesUp
<1>2. w \in Threads /\ Steps(w, p)
  BY <1>1, ToSteps DEF Threads
<1>3. /\ pc[w] = "sleep" /\ sleepers' = sleepers - 1 /\ waiting' = waiting \ {w}
      /\ UNCHANGED <<queue, lock, spinning>>
  BY DEF WakesUp
<1>4. LockInv' /\ DozeInv' /\ QueuedIsSeen'
  BY <1>2, <1>3, OnItsWayStep DEF OnWay, Locked
<1>5. Looking' = Looking /\ Asleep' = Asleep \ {w} /\ w \in Asleep
  BY <1>2, <1>3 DEF Looking, Asleep, Steps, Counted, Threads
<1>6. Cardinality(Asleep') = Cardinality(Asleep) - 1
  BY <1>5, Counts, FS_RemoveElement, Zenon
<1>7. CountInv'
  BY <1>3, <1>5, <1>6 DEF QueueInv, CountInv
<1> QED BY <1>4, <1>7 DEF QueueInv

\* timer_armed, shutdown: all workers that sleep are on their way.
LEMMA NotifyAllStep ==
    ASSUME QueueInv, PlaceType, NEW o \in Others, NotifyAll(o) PROVE QueueInv'
<1>1. PICK p \in {"idle", "endParked"} : To(o, p)
  BY DEF NotifyAll
<1>2. o \in Threads /\ Steps(o, p)
  BY <1>1, ToSteps DEF Threads
<1>3. /\ pc[o] \in {"armAll", "endAll"} /\ waiting' = {}
      /\ UNCHANGED <<queue, lock, sleepers, spinning>>
  BY DEF NotifyAll
<1>4. LockInv'
  BY <1>2, <1>3 DEF QueueInv, LockInv, Steps, Locked
<1>5. CountInv'
  BY <1>2, <1>3, CountedAsBefore DEF QueueInv, Counted
<1>6. DozeInv'
  BY <1>2, <1>3, Bounds DEF QueueInv, DozeInv, Steps, Threads
<1> QED BY <1>3, <1>4, <1>5, <1>6 DEF QueueInv, QueuedIsSeen

\* shutdown: the queue is emptied.
LEMMA EndQueueStep ==
    ASSUME QueueInv, PlaceType, NEW o \in Others, EndQueue(o) PROVE QueueInv'
<1>1. o \in Threads /\ Steps(o, "endQueued")
  BY ToSteps DEF EndQueue, Threads
<1>2. /\ pc[o] = "endQueue" /\ queue' = <<>>
      /\ UNCHANGED <<lock, sleepers, spinning, waiting>>
  BY DEF EndQueue
<1>3. LockInv'
  BY <1>1, <1>2 DEF QueueInv, LockInv, Steps, Locked
<1>4. CountInv'
  BY <1>1, <1>2, CountedAsBefore DEF QueueInv, Counted
<1> QED BY <1>2, <1>3, <1>4 DEF QueueInv, DozeInv, QueuedIsSeen

\* Every step keeps the invariant of the queue.
LEMMA QueueStep == QueueInv /\ TypeInv /\ [Next]_vars => QueueInv'
<1> SUFFICES ASSUME QueueInv, PlaceType, QueueType, TimerType, [Next]_vars PROVE QueueInv'
  BY DEF TypeInv
<1>1. CASE UNCHANGED vars
  BY <1>1, StillStep DEF vars, Still, queueVars, threadVars, endVars
<1>2. ASSUME NEW w \in WorkerSet, Worker(w) \/ Panics(w) PROVE QueueInv'
  <2>0. w \in Threads
    BY DEF Threads
  <2>1. CASE Look(w)
    <3>1. CASE Ending /\ To(w, "gone") /\ UNCHANGED queueVars
      <4>1. Quiet(w, "gone")
        BY <2>0, <2>1, <3>1, ToSteps
        DEF Look, Quiet, Locked, Counted, OnWay, Ending, queueVars, endVars
      <4> QED BY <2>0, <4>1, QuietStep
    <3>2. CASE Pop(w) /\ UNCHANGED <<sleepers, spinning, waiting>>
      BY <2>1, <3>2, PopStep DEF Look
    <3>3. ASSUME NEW p \in {"count", "again"}, To(w, p), queue = <<>>, UNCHANGED queueVars PROVE
      QueueInv'
      <4>1. Quiet(w, p)
        BY <2>0, <2>1, <3>3, ToSteps
        DEF Look, Quiet, Locked, Counted, OnWay, Ending, queueVars, endVars
      <4> QED BY <2>0, <4>1, QuietStep
    <3> QED BY <2>1, <3>1, <3>2, <3>3 DEF Look
  <2>2. CASE Count(w)
    BY <2>2, CountStep
  <2>3. CASE Spin(w)
    <3>1. PICK p \in {"found", "uncount"} : To(w, p)
      BY <2>3 DEF Spin
    <3>2. Quiet(w, p)
      BY <2>0, <2>3, <3>1, ToSteps
      DEF Spin, Quiet, Locked, Counted, OnWay, Ending, queueVars, endVars
    <3> QED BY <2>0, <3>2, QuietStep
  <2>4. CASE Uncount(w)
    BY <2>4, UncountStep
  <2>5. CASE Again(w)
    BY <2>5, AgainStep
  <2>6. CASE Sleeps(w)
    BY <2>6, SleepsStep
  <2>7. CASE WakesUp(w)
    BY <2>7, WakesUpStep
  <2>8. CASE Fires(w)
    <3>1. PICK p \in {"look"} : To(w, p)
      BY <2>8 DEF Fires
    <3>2. Quiet(w, p)
      BY <2>0, <2>8, <3>1, ToSteps
      DEF Fires, Quiet, Locked, Counted, OnWay, Ending, queueVars, endVars
    <3> QED BY <2>0, <3>2, QuietStep
  <2>9. CASE PushNotifies(w)
    BY <2>9, <2>0, PushNotifiesStep
  <2>10. CASE PopNotifies(w)
    BY <2>10, PopNotifiesStep
  <2>11. CASE Poke(w)
    <3>1. PICK p \in {"gone"} : To(w, p)
      BY <2>11 DEF Poke
    <3>2. Quiet(w, p)
      BY <2>0, <2>11, <3>1, ToSteps
      DEF Poke, Quiet, Locked, Counted, OnWay, Ending, queueVars, endVars
    <3> QED BY <2>0, <3>2, QuietStep
  <2>12. CASE SliceEnds(w)
    <3>1. PICK p \in {"look"} : To(w, p)
      BY <2>12 DEF SliceEnds
    <3>2. Quiet(w, p)
      BY <2>0, <2>12, <3>1, ToSteps
      DEF SliceEnds, Quiet, Locked, Counted, OnWay, Ending, queueVars, endVars
    <3> QED BY <2>0, <3>2, QuietStep
  <2>13. CASE SliceGoesOn(w)
    <3>1. PICK p \in {"over"} : To(w, p)
      BY <2>13 DEF SliceGoesOn
    <3>2. Quiet(w, p)
      BY <2>0, <2>13, <3>1, ToSteps
      DEF SliceGoesOn, Quiet, Locked, Counted, OnWay, Ending, queueVars, endVars
    <3> QED BY <2>0, <3>2, QuietStep
  <2>14. CASE SliceYields(w)
    <3>1. PICK p \in {"over", "enqueue"} : To(w, p)
      BY <2>14 DEF SliceYields, KeepsOn
    <3>2. Quiet(w, p)
      BY <2>0, <2>14, <3>1, ToSteps
      DEF SliceYields, Quiet, Locked, Counted, OnWay, Ending, queueVars, endVars
    <3> QED BY <2>0, <3>2, QuietStep
  <2>15. CASE SliceOver(w)
    <3>1. PICK p \in {"run", "enqueue"} : To(w, p)
      BY <2>15 DEF SliceOver, KeepsOn
    <3>2. Quiet(w, p)
      BY <2>0, <2>15, <3>1, ToSteps
      DEF SliceOver, Quiet, Locked, Counted, OnWay, Ending, queueVars, endVars
    <3> QED BY <2>0, <3>2, QuietStep
  <2>16. CASE GivesBack(w)
    <3>1. has[w] \in Tasks \cup {Nobody}
      BY <2>0 DEF QueueType
    <3> QED BY <2>0, <2>16, <3>1, PushStep DEF GivesBack
  <2>17. CASE Panics(w)
    <3>1. PICK p \in {"gone", "poke"} : To(w, p)
      BY <2>17 DEF Panics
    <3>2. Quiet(w, p)
      BY <2>0, <2>17, <3>1, ToSteps
      DEF Panics, Quiet, Locked, Counted, OnWay, Ending, queueVars, endVars
    <3> QED BY <2>0, <3>2, QuietStep
  <2> QED BY <1>2, <2>1, <2>2, <2>3, <2>4, <2>5, <2>6, <2>7, <2>8, <2>9, <2>10, <2>11, <2>12,
    <2>13, <2>14, <2>15, <2>16, <2>17 DEF Worker
<1>3. ASSUME NEW o \in Others, Begins(o) \/ Continues(o) PROVE QueueInv'
  <2>0. o \in Threads
    BY DEF Threads
  <2>1. CASE Enqueue(o)
    <3>1. (CHOOSE t \in system.tasks : Away(t)) \in Tasks
      BY <2>1 DEF Enqueue, TimerType, System
    <3> QED BY <2>0, <2>1, <3>1, PushStep DEF Enqueue
  <2>2. ASSUME NEW t \in system.times, Arm(o, t) PROVE QueueInv'
    <3>1. PICK p \in {"arm"} : To(o, p)
      BY <2>2 DEF Arm
    <3>2. Quiet(o, p)
      BY Zenon, <2>0, <2>2, <3>1, ToSteps
      DEF Arm, Quiet, Locked, Counted, OnWay, Ending, queueVars, endVars
    <3> QED BY <2>0, <3>2, QuietStep
  <2>3. CASE Exit(o)
    <3>1. PICK p \in {"poke"} : To(o, p)
      BY <2>3 DEF Exit
    <3>2. Quiet(o, p)
      BY <2>0, <2>3, <3>1, ToSteps
      DEF Exit, Quiet, Locked, Counted, OnWay, Ending, queueVars, endVars
    <3> QED BY <2>0, <3>2, QuietStep
  <2>4. CASE Shutdown(o)
    <3>1. PICK p \in {"endTimer"} : To(o, p)
      BY <2>4 DEF Shutdown
    <3>2. Quiet(o, p)
      BY <2>0, <2>4, <3>1, ToSteps
      DEF Shutdown, Quiet, Locked, Counted, OnWay, Ending, queueVars, endVars
    <3> QED BY <2>0, <3>2, QuietStep
  <2>5. CASE PushNotifies(o)
    BY <2>5, <2>0, PushNotifiesStep
  <2>6. CASE Poke(o)
    <3>1. PICK p \in {"gone", "idle"} : To(o, p)
      BY <2>6 DEF Poke
    <3>2. Quiet(o, p)
      BY <2>0, <2>6, <3>1, ToSteps
      DEF Poke, Quiet, Locked, Counted, OnWay, Ending, queueVars, endVars
    <3> QED BY <2>0, <3>2, QuietStep
  <2>7. CASE TimerArmed(o)
    <3>1. PICK p \in {"idle", "armPoke"} : To(o, p)
      BY <2>7 DEF TimerArmed
    <3>2. Quiet(o, p)
      BY <2>0, <2>7, <3>1, ToSteps
      DEF TimerArmed, Quiet, Locked, Counted, OnWay, Ending, queueVars, endVars
    <3> QED BY <2>0, <3>2, QuietStep
  <2>8. CASE ArmPokes(o)
    <3>1. PICK p \in {"armLock"} : To(o, p)
      BY <2>8 DEF ArmPokes
    <3>2. Quiet(o, p)
      BY <2>0, <2>8, <3>1, ToSteps
      DEF ArmPokes, Quiet, Locked, Counted, OnWay, Ending, queueVars, endVars
    <3> QED BY <2>0, <3>2, QuietStep
  <2>9. CASE ArmLocks(o)
    <3>1. PICK p \in {"armAll"} : To(o, p)
      BY <2>9 DEF ArmLocks
    <3>2. Quiet(o, p)
      BY <2>0, <2>9, <3>1, ToSteps
      DEF ArmLocks, Quiet, Locked, Counted, OnWay, Ending, queueVars, endVars
    <3> QED BY <2>0, <3>2, QuietStep
  <2>10. CASE NotifyAll(o)
    BY <2>10, NotifyAllStep
  <2>11. CASE EndTimer(o)
    <3>1. PICK p \in {"endQueue"} : To(o, p)
      BY <2>11 DEF EndTimer
    <3>2. Quiet(o, p)
      BY <2>0, <2>11, <3>1, ToSteps
      DEF EndTimer, Quiet, Locked, Counted, OnWay, Ending, queueVars, endVars
    <3> QED BY <2>0, <3>2, QuietStep
  <2>12. CASE EndQueue(o)
    BY <2>12, EndQueueStep
  <2>13. CASE EndQueued(o)
    <3>1. PICK p \in {"endAll"} : To(o, p)
      BY <2>13 DEF EndQueued
    <3>2. Quiet(o, p)
      BY <2>0, <2>13, <3>1, ToSteps
      DEF EndQueued, Quiet, Locked, Counted, OnWay, Ending, queueVars, endVars
    <3> QED BY <2>0, <3>2, QuietStep
  <2>14. CASE EndParked(o)
    <3>1. PICK p \in {"idle"} : To(o, p)
      BY <2>14 DEF EndParked
    <3>2. Quiet(o, p)
      BY <2>0, <2>14, <3>1, ToSteps
      DEF EndParked, Quiet, Locked, Counted, OnWay, Ending, queueVars, endVars
    <3> QED BY <2>0, <3>2, QuietStep
  <2> QED BY Zenon, <1>3, <2>1, <2>2, <2>3, <2>4, <2>5, <2>6, <2>7, <2>8, <2>9, <2>10, <2>11, <2>12,
    <2>13, <2>14 DEF Begins, Continues
<1>4. ASSUME NEW t \in system.times, Disarm(t) PROVE QueueInv'
  BY <1>4, StillStep DEF Disarm, Still, queueVars, threadVars, endVars
<1>5. CASE TimerGoesOn
  <2>1. CASE TimerLooks
    BY <2>1, StillStep DEF TimerLooks, Still, queueVars, threadVars, endVars
  <2>2. CASE TimerWakes
    BY <2>2, StillStep DEF TimerWakes, Still, queueVars, threadVars, endVars
  <2>3. CASE TimerFires
    BY <2>3, StillStep DEF TimerFires, Still, queueVars, threadVars, endVars
  <2> QED BY <1>5, <2>1, <2>2, <2>3 DEF TimerGoesOn
<1>6. ASSUME NEW m \in Waiters, WaitBegins(m) \/ Waits(m) \/ Resume(m) PROVE QueueInv'
  <2>1. CASE WaitBegins(m)
    BY <2>1, StillStep DEF WaitBegins, Still, queueVars, threadVars, endVars
  <2>2. CASE WaitLooks(m)
    BY <2>2, StillStep DEF WaitLooks, Still, queueVars, threadVars, endVars
  <2>3. CASE WaitFiresDue(m)
    BY <2>3, StillStep DEF WaitFiresDue, Still, queueVars, threadVars, endVars
  <2>4. CASE WaitSleeps(m)
    BY <2>4, StillStep DEF WaitSleeps, Still, queueVars, threadVars, endVars
  <2>5. CASE WaitWakes(m)
    BY <2>5, StillStep DEF WaitWakes, Still, queueVars, threadVars, endVars
  <2>6. CASE WaitFires(m)
    BY <2>6, StillStep DEF WaitFires, Still, queueVars, threadVars, endVars
  <2>7. CASE Resume(m)
    BY <2>7, StillStep DEF Resume, Still, queueVars, threadVars, endVars
  <2> QED BY <1>6, <2>1, <2>2, <2>3, <2>4, <2>5, <2>6, <2>7 DEF Waits
<1> QED BY <1>1, <1>2, <1>3, <1>4, <1>5, <1>6 DEF Next

\* It holds at the start.
LEMMA QueueInit == Init => QueueInv
<1> SUFFICES ASSUME Init PROVE QueueInv
  OBVIOUS
<1>1. \A x \in Threads : pc[x] \in {"look", "idle", "gone"}
  BY DEF Init
<1>2. LockInv
  BY <1>1, Bounds DEF Init, LockInv, Locked, Threads
<1>3. Looking = {} /\ Asleep = {}
  BY <1>1 DEF Looking, Asleep, Counted, Threads
<1>4. CountInv
  BY <1>3, FS_EmptySet DEF Init, CountInv
<1>5. DozeInv /\ QueuedIsSeen
  BY DEF Init, DozeInv, QueuedIsSeen
<1> QED BY <1>2, <1>4, <1>5 DEF QueueInv

-----------------------------------------------------------------------------
(* Deadlines, and the end.                                                 *)

Dozes == {"doze", "sleep"}

\* None of the others leaves the places.
Keep(places) == \A o \in Others : pc[o] \in places => pc'[o] \in places

\* The next deadline is no earlier than before.
Later ==
    /\ armed' \subseteq armed
    /\ NextDeadline \in Nat /\ NextDeadline' \in Nat /\ NextDeadline <= NextDeadline'

\* With fewer deadlines armed the next one is no earlier.
LEMMA FewerAreLater == ASSUME TimerType, armed' \subseteq armed PROVE Later
<1>1. armed \subseteq Times
  BY DEF TimerType
<1> QED BY <1>1, NextOfArmed, FewerIsLater DEF Later

\* The thread that fires the timer does not fall asleep.
TimerStays ==
    timerAt' = "sleep" => timerAt = "sleep" /\ watch'[TimerLoop] = watch[TimerLoop]

\* Nor does a worker, nor a thread that waits, and none forgets what it was
\* told.
WorkersStay ==
    \A w \in WorkerSet :
        /\ pc'[w] = "doze" => pc[w] = "doze" /\ watch'[w] = watch[w]
        /\ w \in waiting' => w \in waiting /\ watch'[w] = watch[w]

WaitersStay ==
    \A m \in Waiters : waiterAt'[m] \in Dozes =>
        /\ waiterAt[m] \in Dozes /\ watch'[m] = watch[m]
        /\ poked[m] => poked'[m]
        /\ resumed[m] => resumed'[m]

\* What keeps the timer's thread on the watch ...
LEMMA TimerKept ==
    ASSUME TimerInv, WaitType, Later, Keep({"arm"}), timerThread' = timerThread, TimerStays
    PROVE  TimerInv'
<1>1. SomeAt({"arm"}) => SomeAt({"arm"})'
  BY DEF SomeAt, Keep
<1>2. timerThread' = "Idle" => armed' = {} \/ SomeAt({"arm"})'
  BY <1>1 DEF TimerInv, Later
<1>3. watch[TimerLoop] \in Nat
  BY DEF WaitType, Sleepers
<1>4. timerThread' = "Running" /\ timerAt' = "sleep" =>
         watch'[TimerLoop] <= NextDeadline' \/ SomeAt({"arm"})'
  BY <1>1, <1>3 DEF TimerInv, Later, TimerStays
<1> QED BY <1>2, <1>4 DEF TimerInv

\* ... the workers that stand in for it ...
LEMMA WorkersKept ==
    ASSUME WorkersWatch, WaitType, CountInv, Later, timerThread' = timerThread, WorkersStay,
           waiting' \subseteq WorkerSet,
           Keep({"arm", "armPoke", "armLock"}), Keep({"arm", "armPoke", "armLock", "armAll"})
    PROVE  WorkersWatch'
<1>1. /\ SomeAt({"arm", "armPoke", "armLock"}) => SomeAt({"arm", "armPoke", "armLock"})'
      /\ SomeAt({"arm", "armPoke", "armLock", "armAll"}) =>
            SomeAt({"arm", "armPoke", "armLock", "armAll"})'
  BY DEF SomeAt, Keep
<1>2. ASSUME NEW w \in WorkerSet, watch[w] <= NextDeadline, watch'[w] = watch[w]
      PROVE  watch'[w] <= NextDeadline'
  <2>1. watch[w] \in Nat
    BY DEF WaitType, Sleepers
  <2> QED BY <1>2, <2>1 DEF Later
<1>3. SUFFICES ASSUME timerThread = "Unavailable", NEW w \in WorkerSet
               PROVE  /\ pc'[w] = "doze" =>
                            \/ watch'[w] <= NextDeadline'
                            \/ SomeAt({"arm", "armPoke", "armLock"})'
                      /\ w \in waiting' =>
                            \/ watch'[w] <= NextDeadline'
                            \/ SomeAt({"arm", "armPoke", "armLock", "armAll"})'
  BY DEF WorkersWatch
<1> QED BY <1>1, <1>2, <1>3 DEF WorkersWatch, WorkersStay

\* ... and the threads that wait.
LEMMA WaitersKept ==
    ASSUME WaitersWatch, WaitType, Later, timerThread' = timerThread, WaitersStay,
           Keep({"arm", "armPoke"})
    PROVE  WaitersWatch'
<1>1. SomeAt({"arm", "armPoke"}) => SomeAt({"arm", "armPoke"})'
  BY DEF SomeAt, Keep
<1>2. SUFFICES ASSUME timerThread = "Unavailable", NEW m \in Waiters,
                      waiterAt'[m] \in Dozes, ~poked'[m], ~resumed'[m]
               PROVE  watch'[m] <= NextDeadline' \/ SomeAt({"arm", "armPoke"})'
  BY DEF WaitersWatch, Dozes
<1>3. waiterAt[m] \in Dozes /\ watch'[m] = watch[m] /\ ~poked[m] /\ ~resumed[m]
  BY <1>2 DEF WaitersStay
<1>4. watch[m] <= NextDeadline \/ SomeAt({"arm", "armPoke"})
  BY <1>2, <1>3 DEF WaitersWatch, Dozes
<1>5. watch[m] \in Nat
  BY DEF WaitType, Sleepers
<1> QED BY <1>1, <1>3, <1>4, <1>5 DEF Later

\* What keeps the end of the program heard.
LEMMA HeardKept ==
    ASSUME HeardInv, WaitersStay, broken' \/ exited' => broken \/ exited,
           \A x \in Threads : pc[x] = "poke" => pc'[x] = "poke"
    PROVE  HeardInv'
BY DEF HeardInv, WaitersStay, Dozes

EndInv == WatchInv /\ HeardInv

\* A step in which nobody is armed, told or put to sleep.
Calm ==
    /\ Keep({"arm"}) /\ Keep({"arm", "armPoke"}) /\ Keep({"arm", "armPoke", "armLock"})
    /\ Keep({"arm", "armPoke", "armLock", "armAll"})
    /\ \A x \in Threads : pc[x] = "poke" => pc'[x] = "poke"
    /\ timerThread' = timerThread /\ TimerStays /\ WorkersStay /\ WaitersStay
    /\ waiting' \subseteq WorkerSet
    /\ broken' \/ exited' => broken \/ exited

\* A calm step keeps all of it.
LEMMA CalmStep == ASSUME EndInv, WaitType, CountInv, Later, Calm PROVE EndInv'
BY TimerKept, WorkersKept, WaitersKept, HeardKept DEF EndInv, WatchInv, Calm

\* A worker's step is calm unless it is going to sleep, or ends the program.
LEMMA WorkerCalm ==
    ASSUME CountInv, NEW w \in WorkerSet, NEW p, Steps(w, p), p # "doze", pc[w] # "poke",
           waiting' \subseteq waiting,
           \A y \in Sleepers \ {w} : watch'[y] = watch[y],
           watch'[w] = watch[w] \/ w \notin waiting',
           UNCHANGED <<timerThread, timerAt, waiterVars>>,
           broken' \/ exited' => broken \/ exited
    PROVE  Calm
<1>1. w \in Threads /\ w \notin Others /\ w \notin Waiters /\ w # TimerLoop
  BY Bounds DEF Threads
<1>2. \A o \in Others : pc'[o] = pc[o]
  BY <1>1 DEF Steps, Threads
<1>3. \A x \in Threads : pc[x] = "poke" => pc'[x] = "poke"
  BY DEF Steps
<1>4. TimerStays
  BY <1>1 DEF TimerStays, Sleepers
<1>5. WorkersStay
  BY <1>1 DEF WorkersStay, Steps, Threads, Sleepers
<1>6. WaitersStay
  BY <1>1 DEF WaitersStay, Sleepers, waiterVars
<1>7. waiting' \subseteq WorkerSet
  BY DEF CountInv, Asleep
<1> QED BY <1>2, <1>3, <1>4, <1>5, <1>6, <1>7 DEF Calm, Keep

ArmPlaces == {"arm", "armPoke", "armLock", "armAll"}

\* So is a step of one of the others, unless it arms, tells or ends.
LEMMA OtherCalm ==
    ASSUME CountInv, PlaceType, NEW o \in Others, NEW p, Steps(o, p), p # "doze",
           pc[o] \notin ArmPlaces \cup {"poke"}, waiting' \subseteq waiting,
           timerAt' = "sleep" => timerAt = "sleep",
           WaitersStay, UNCHANGED <<timerThread, watch, broken, exited>>
    PROVE  Calm
<1>1. o \in Threads /\ o \notin WorkerSet
  BY Bounds DEF Threads
<1>2. \A q \in Others : pc[q] \in ArmPlaces => pc'[q] = pc[q]
  BY <1>1 DEF Steps, Threads
<1>3. \A x \in Threads : pc[x] = "poke" => pc'[x] = "poke"
  BY DEF Steps
<1>4. TimerStays
  BY DEF TimerStays
<1>5. WorkersStay
  BY <1>1 DEF WorkersStay, Steps, Threads
<1>6. waiting' \subseteq WorkerSet
  BY DEF CountInv, Asleep
<1> QED BY <1>2, <1>3, <1>4, <1>5, <1>6 DEF Calm, Keep, ArmPlaces

\* And so is one of none of the threads.
LEMMA StillCalm ==
    ASSUME CountInv, pc' = pc, waiting' = waiting, TimerStays, WaitersStay,
           UNCHANGED <<timerThread, broken, exited>>,
           \A w \in WorkerSet : watch'[w] = watch[w]
    PROVE  Calm
BY DEF Calm, Keep, WorkersStay, CountInv, Asleep

\* poke_threads: every thread that waits has been told.
LEMMA PokeEnds ==
    ASSUME EndInv, WaitType, CountInv, PlaceType, Later, NEW x \in Threads, Poke(x)
    PROVE  EndInv'
<1>1. PICK p \in {"gone", "idle"} : To(x, p)
  BY DEF Poke
<1>2. Steps(x, p) /\ pc[x] = "poke"
  BY <1>1, ToSteps DEF Poke
<1>3. \A o \in Others : pc[o] # "poke" => pc'[o] = pc[o]
  BY <1>2 DEF Steps, Threads
<1>4. /\ Keep({"arm"}) /\ Keep({"arm", "armPoke"}) /\ Keep({"arm", "armPoke", "armLock"})
      /\ Keep({"arm", "armPoke", "armLock", "armAll"})
  BY <1>3 DEF Keep
<1>5. WaitersStay
  BY DEF Poke, PokeThreads, WaitersStay, WaitType
<1>6. WorkersStay
  BY <1>2 DEF Poke, WorkersStay, Steps, Threads, queueVars
<1>7. waiting' \subseteq WorkerSet /\ TimerStays /\ timerThread' = timerThread
  BY DEF Poke, CountInv, Asleep, queueVars, timerVars, TimerStays
<1>8. WatchInv'
  BY <1>4, <1>5, <1>6, <1>7, TimerKept, WorkersKept, WaitersKept DEF EndInv, WatchInv
<1>9. \A m \in Waiters : waiterAt'[m] \in Dozes => poked'[m]
  BY Zenon DEF Poke, PokeThreads, WaitType, Dozes
<1>10. HeardInv'
  BY <1>9 DEF HeardInv, Dozes
<1> QED BY <1>8, <1>10 DEF EndInv

\* A step of one of the others in timer_armed: who arms, and who goes on to
\* tell those that stand in.
LEMMA ArmEnds ==
    ASSUME EndInv, PlaceType, NEW o \in Others, NEW t, Arm(o, t) PROVE EndInv'
<1>1. o \in Threads /\ Steps(o, "arm") /\ pc[o] = "idle"
  BY ToSteps DEF Arm, Threads
<1>2. /\ SomeAt({"arm"})' /\ SomeAt({"arm", "armPoke"})' /\ SomeAt({"arm", "armPoke", "armLock"})'
      /\ SomeAt({"arm", "armPoke", "armLock", "armAll"})'
  BY <1>1 DEF SomeAt, Steps
<1>3. WatchInv'
  BY <1>2 DEF WatchInv, TimerInv, WorkersWatch, WaitersWatch
<1>4. HeardInv'
  BY <1>1 DEF EndInv, HeardInv, Arm, Steps, waiterVars, endVars
<1> QED BY <1>3, <1>4 DEF EndInv

\* timer_armed: the timer's thread is told, or those that stand in will be.
LEMMA TimerArmedEnds ==
    ASSUME EndInv, WaitType, CountInv, PlaceType, TimerType, NEW o \in Others, TimerArmed(o)
    PROVE  EndInv'
<1>1. PICK p \in {"idle", "armPoke"} : To(o, p)
  BY DEF TimerArmed
<1>2. o \in Threads /\ Steps(o, p) /\ pc[o] = "arm"
  BY <1>1, ToSteps DEF TimerArmed, Threads
<1>3. WaitersStay
  BY DEF TimerArmed, WaitersStay, waiterVars
<1>4. HeardInv'
  BY <1>2, <1>3, HeardKept DEF EndInv, Steps, TimerArmed, endVars
<1>5. CASE timerThread' # "Unavailable"
  <2>1. timerThread' = "Running" /\ timerAt' # "sleep"
    BY <1>5 DEF TimerArmed, NotifyTimer, TimerType
  <2> QED BY <1>4, <1>5, <2>1 DEF EndInv, WatchInv, TimerInv, WorkersWatch, WaitersWatch
<1>6. CASE timerThread' = "Unavailable"
  <2>1. pc'[o] = "armPoke"
    BY <1>2, <1>6 DEF TimerArmed, To, PlaceType
  <2>2. /\ SomeAt({"arm", "armPoke"})' /\ SomeAt({"arm", "armPoke", "armLock"})'
        /\ SomeAt({"arm", "armPoke", "armLock", "armAll"})'
    BY <2>1 DEF SomeAt
  <2> QED BY <1>4, <1>6, <2>2, Zenon DEF EndInv, WatchInv, TimerInv, WorkersWatch, WaitersWatch
<1> QED BY <1>5, <1>6

\* The threads that wait are told.
LEMMA ArmPokesEnds ==
    ASSUME EndInv, WaitType, PlaceType, Later, NEW o \in Others, ArmPokes(o) PROVE EndInv'
<1>1. o \in Threads /\ Steps(o, "armLock") /\ pc[o] = "armPoke"
  BY ToSteps DEF ArmPokes, Threads
<1>2. WaitersStay /\ \A m \in Waiters : waiterAt'[m] \in Dozes => poked'[m]
  BY Zenon DEF ArmPokes, PokeThreads, WaitersStay, WaitType, Dozes
<1>3. HeardInv'
  BY <1>1, <1>2, HeardKept, Zenon DEF EndInv, Steps, ArmPokes, endVars
<1>4. Keep({"arm"})
  BY <1>1 DEF Keep, Steps, Threads
<1>5. TimerInv'
  BY <1>4, TimerKept DEF EndInv, WatchInv, ArmPokes, TimerStays, timerVars
<1>6. SomeAt({"arm", "armPoke", "armLock"})' /\ SomeAt({"arm", "armPoke", "armLock", "armAll"})'
  BY <1>1 DEF SomeAt, Steps
<1>7. WorkersWatch'
  BY <1>6 DEF WorkersWatch
<1>8. WaitersWatch'
  BY <1>2, Zenon DEF WaitersWatch, Dozes
<1> QED BY <1>3, <1>5, <1>7, <1>8 DEF EndInv, WatchInv

\* With the lock no worker is on its way to sleep.
LEMMA ArmLocksEnds ==
    ASSUME EndInv, WaitType, PlaceType, LockInv, Later, NEW o \in Others, ArmLocks(o)
    PROVE  EndInv'
<1>1. o \in Threads /\ Steps(o, "armAll") /\ pc[o] = "armLock" /\ o \notin WorkerSet
  BY ToSteps, Bounds DEF ArmLocks, Threads
<1>2. WaitersStay
  BY Zenon DEF ArmLocks, WaitersStay, waiterVars
<1>3. HeardInv'
  BY <1>1, <1>2, HeardKept, Zenon DEF EndInv, Steps, ArmLocks, endVars
<1>4. Keep({"arm"}) /\ Keep({"arm", "armPoke"})
  BY <1>1 DEF Keep, Steps, Threads
<1>5. TimerInv' /\ WaitersWatch'
  BY <1>2, <1>4, TimerKept, WaitersKept DEF EndInv, WatchInv, ArmLocks, TimerStays, timerVars
<1>6. \A w \in WorkerSet : pc'[w] # "doze"
  <2>1. lock = Nobody
    BY DEF ArmLocks
  <2>2. \A w \in WorkerSet : pc[w] # "doze"
    BY <2>1, NoneDozes, Bounds
  <2> QED BY <1>1, <2>2, Zenon DEF Steps, Threads
<1>7. SomeAt({"arm", "armPoke", "armLock", "armAll"})'
  BY <1>1 DEF SomeAt, Steps
<1>8. WorkersWatch'
  BY <1>6, <1>7 DEF WorkersWatch
<1> QED BY <1>3, <1>5, <1>8 DEF EndInv, WatchInv

\* The workers are told.
LEMMA NotifyAllEnds ==
    ASSUME EndInv, WaitType, PlaceType, Later, NEW o \in Others, NotifyAll(o) PROVE EndInv'
<1>1. PICK p \in {"idle", "endParked"} : To(o, p)
  BY DEF NotifyAll
<1>2. o \in Threads /\ Steps(o, p) /\ pc[o] \in {"armAll", "endAll"} /\ o \notin WorkerSet
  BY <1>1, ToSteps, Bounds DEF NotifyAll, Threads
<1>3. WaitersStay
  BY DEF NotifyAll, WaitersStay, waiterVars
<1>4. HeardInv'
  BY <1>2, <1>3, HeardKept DEF EndInv, Steps, NotifyAll, endVars
<1>5. Keep({"arm"}) /\ Keep({"arm", "armPoke"}) /\ Keep({"arm", "armPoke", "armLock"})
  BY <1>2 DEF Keep, Steps, Threads
<1>6. TimerInv' /\ WaitersWatch'
  BY <1>3, <1>5, TimerKept, WaitersKept DEF EndInv, WatchInv, NotifyAll, TimerStays, timerVars
<1>7. \A w \in WorkerSet : pc'[w] = pc[w] /\ watch'[w] = watch[w] /\ watch[w] \in Nat
  BY <1>2, Zenon DEF Steps, Threads, NotifyAll, WaitType, Sleepers
<1>8. SomeAt({"arm", "armPoke", "armLock"}) => SomeAt({"arm", "armPoke", "armLock"})'
  BY <1>5 DEF SomeAt, Keep
<1>9. waiting' = {} /\ timerThread' = timerThread
  BY DEF NotifyAll, timerVars
<1>10. ASSUME timerThread = "Unavailable", NEW w \in WorkerSet, pc'[w] = "doze",
              ~SomeAt({"arm", "armPoke", "armLock"})'
       PROVE  watch'[w] <= NextDeadline'
  <2>1. watch[w] <= NextDeadline
    BY <1>7, <1>8, <1>10 DEF EndInv, WatchInv, WorkersWatch
  <2>2. watch[w] \in Nat /\ watch'[w] = watch[w]
    BY <1>7
  <2>3. watch[w] <= NextDeadline'
    BY <2>1, <2>2 DEF Later
  <2> QED BY <2>2, <2>3, Zenon
<1>11. WorkersWatch'
  BY <1>9, <1>10 DEF WorkersWatch
<1> QED BY <1>4, <1>6, <1>11 DEF EndInv, WatchInv

\* Who goes to sleep has looked at the next deadline.
LEMMA AgainEnds ==
    ASSUME EndInv, WaitType, CountInv, PlaceType, Later, NEW w \in WorkerSet, Again(w)
    PROVE  EndInv'
<1>0. w \in Threads /\ pc[w] = "again"
  BY DEF Again, Threads
<1>1. CASE ~To(w, "doze")
  <2>1. PICK p \in {"gone", "popped"} : To(w, p)
    BY <1>1 DEF Again, Pop
  <2>2. Steps(w, p)
    BY <1>0, <2>1, ToSteps
  <2>3. waiting' \subseteq waiting /\ UNCHANGED <<watch, timerThread, timerAt, waiterVars,
    broken, exited>>
    BY <1>1 DEF Again, Pop, queueVars, timerVars, endVars
  <2>4. Calm
    BY <1>0, <2>2, <2>3, WorkerCalm
  <2> QED BY <2>4, CalmStep
<1>2. CASE To(w, "doze")
  <2>1. Steps(w, "doze")
    BY <1>0, <1>2, ToSteps
  <2>2. /\ watch' = [watch EXCEPT ![w] = StandIn] /\ waiting' = waiting
        /\ UNCHANGED <<armed, timerThread, timerAt, waiterVars, broken, exited>>
    <3>1. ~To(w, "gone") /\ ~To(w, "popped")
      BY <1>0, <1>2 DEF To, PlaceType
    <3> QED BY <3>1 DEF Again, Pop, timerVars, endVars
  <2>3. w \in Sleepers /\ w \notin Others /\ w \notin Waiters /\ w # TimerLoop
    BY Bounds DEF Sleepers
  <2>4. \A o \in Others : pc'[o] = pc[o]
    BY <2>1, <2>3 DEF Steps, Threads
  <2>5. /\ Keep({"arm"}) /\ Keep({"arm", "armPoke"})
        /\ SomeAt({"arm", "armPoke", "armLock"}) => SomeAt({"arm", "armPoke", "armLock"})'
        /\ SomeAt({"arm", "armPoke", "armLock", "armAll"}) =>
              SomeAt({"arm", "armPoke", "armLock", "armAll"})'
    BY <2>4 DEF Keep, SomeAt
  <2>6. TimerStays /\ WaitersStay
    BY <2>2, <2>3 DEF TimerStays, WaitersStay, waiterVars, WaitType, Sleepers
  <2>7. TimerInv' /\ WaitersWatch'
    BY <2>2, <2>5, <2>6, TimerKept, WaitersKept DEF EndInv, WatchInv
  <2>8. HeardInv'
    BY <1>0, <2>1, <2>2, <2>6, HeardKept, Zenon DEF EndInv, Steps
  <2>9. NextDeadline' = NextDeadline /\ NextDeadline \in Nat
    BY <2>2 DEF NextDeadline, Later
  <2>10. \A v \in WorkerSet \ {w} : pc'[v] = pc[v] /\ watch'[v] = watch[v]
    BY <2>1, <2>2 DEF Steps, Threads, WaitType, Sleepers
  <2>11. w \notin waiting
    BY <1>0 DEF CountInv, Asleep
  <2>12. timerThread = "Unavailable" => watch'[w] = NextDeadline
    BY <2>2, <2>3 DEF WaitType, StandIn
  <2>13. WorkersWatch'
    <3>1. SUFFICES ASSUME timerThread = "Unavailable", NEW v \in WorkerSet
                   PROVE  /\ pc'[v] = "doze" =>
                                \/ watch'[v] <= NextDeadline'
                                \/ SomeAt({"arm", "armPoke", "armLock"})'
                          /\ v \in waiting' =>
                                \/ watch'[v] <= NextDeadline'
                                \/ SomeAt({"arm", "armPoke", "armLock", "armAll"})'
      BY <2>2 DEF WorkersWatch, CountInv, Asleep
    <3>2. CASE v = w
      BY <2>2, <2>9, <2>11, <2>12, <3>1, <3>2
    <3>3. CASE v # w
      BY <2>2, <2>5, <2>9, <2>10, <3>1, <3>3 DEF EndInv, WatchInv, WorkersWatch
    <3> QED BY <3>2, <3>3
  <2> QED BY <2>7, <2>8, <2>13 DEF EndInv, WatchInv
<1> QED BY <1>1, <1>2

\* It sleeps with the deadline it looked at.
LEMMA SleepsEnds ==
    ASSUME EndInv, WaitType, CountInv, PlaceType, Later, NEW w \in WorkerSet, Sleeps(w)
    PROVE  EndInv'
<1>1. w \in Threads /\ Steps(w, "sleep") /\ pc[w] = "doze" /\ waiting' = waiting \cup {w}
  BY ToSteps DEF Sleeps, Threads
<1>2. UNCHANGED <<watch, armed, timerThread, timerAt, waiterVars, broken, exited>>
  BY DEF Sleeps, timerVars, endVars
<1>3. \A o \in Others : pc'[o] = pc[o]
  BY <1>1, Bounds DEF Steps, Threads
<1>4. /\ Keep({"arm"}) /\ Keep({"arm", "armPoke"})
      /\ SomeAt({"arm", "armPoke", "armLock"}) => SomeAt({"arm", "armPoke", "armLock"})'
      /\ SomeAt({"arm", "armPoke", "armLock"}) => SomeAt({"arm", "armPoke", "armLock", "armAll"})'
      /\ SomeAt({"arm", "armPoke", "armLock", "armAll"}) =>
            SomeAt({"arm", "armPoke", "armLock", "armAll"})'
  BY <1>3 DEF Keep, SomeAt
<1>5. TimerStays /\ WaitersStay
  BY <1>2 DEF TimerStays, WaitersStay, waiterVars
<1>6. TimerInv' /\ WaitersWatch'
  BY <1>2, <1>4, <1>5, TimerKept, WaitersKept DEF EndInv, WatchInv
<1>7. HeardInv'
  BY <1>1, <1>2, <1>5, HeardKept DEF EndInv, Steps
<1>8. NextDeadline' = NextDeadline
  BY <1>2 DEF NextDeadline
<1>9. WorkersWatch'
  BY <1>1, <1>2, <1>4, <1>8 DEF EndInv, WatchInv, WorkersWatch, Steps, Threads
<1> QED BY <1>6, <1>7, <1>9 DEF EndInv, WatchInv

\* fire_timers: the timer's thread sleeps until the next deadline.
LEMMA TimerLooksEnds ==
    ASSUME EndInv, WaitType, CountInv, Later, TimerLooks PROVE EndInv'
<1>1. CASE timerAt' # "sleep"
  <2>1. watch' = watch
    BY <1>1 DEF TimerLooks
  <2>2. Calm
    BY Zenon, <1>1, <2>1, StillCalm
    DEF TimerLooks, TimerStays, WaitersStay, queueVars, threadVars, waiterVars, endVars
  <2> QED BY <2>2, CalmStep
<1>2. CASE timerAt' = "sleep"
  <2>1. watch' = [watch EXCEPT ![TimerLoop] = NextDeadline]
    BY <1>2 DEF TimerLooks
  <2>2. /\ pc' = pc /\ waiting' = waiting
        /\ UNCHANGED <<armed, timerThread, waiterVars, broken, exited>>
    BY DEF TimerLooks, queueVars, threadVars, endVars
  <2>3. /\ \A w \in WorkerSet : watch'[w] = watch[w]
        /\ \A m \in Waiters : watch'[m] = watch[m]
        /\ watch'[TimerLoop] = NextDeadline
    BY <2>1, Bounds DEF WaitType, Sleepers
  <2>4. WaitersStay /\ WorkersStay
    BY <2>2, <2>3 DEF WaitersStay, WorkersStay, CountInv, Asleep, waiterVars
  <2>5. /\ Keep({"arm", "armPoke"}) /\ Keep({"arm", "armPoke", "armLock"})
        /\ Keep({"arm", "armPoke", "armLock", "armAll"})
    BY <2>2 DEF Keep
  <2>6. WorkersWatch' /\ WaitersWatch'
    BY <2>2, <2>4, <2>5, WorkersKept, WaitersKept DEF EndInv, WatchInv, CountInv, Asleep
  <2>7. HeardInv'
    BY <2>2, <2>4, HeardKept DEF EndInv
  <2>8. NextDeadline' = NextDeadline /\ NextDeadline \in Nat
    BY <2>2 DEF NextDeadline, Later
  <2>9. TimerInv'
    BY <2>2, <2>3, <2>8 DEF EndInv, WatchInv, TimerInv, SomeAt
  <2> QED BY <2>6, <2>7, <2>9 DEF EndInv, WatchInv
<1> QED BY <1>1, <1>2

\* The end of a wait is calm.
LEMMA WaitOverCalm ==
    ASSUME CountInv, WaitType, NEW m \in Waiters, WaitOver(m), pc' = pc, waiting' = waiting,
           UNCHANGED <<timerThread, timerAt, broken, exited>>
    PROVE  Calm
<1>1. /\ \A w \in WorkerSet : watch'[w] = watch[w]
      /\ watch'[TimerLoop] = watch[TimerLoop]
      /\ \A k \in Waiters \ {m} : watch'[k] = watch[k]
  BY Bounds DEF WaitType, WaitOver, Sleepers
<1>2. WaitersStay
  BY <1>1 DEF WaitType, WaitOver, WaitersStay, Dozes
<1> QED BY <1>1, <1>2, StillCalm DEF TimerStays

\* sleep_thread: a thread that waits looks at the next deadline.
LEMMA WaitLooksEnds ==
    ASSUME EndInv, WaitType, CountInv, Later, NEW m \in Waiters, WaitLooks(m) PROVE EndInv'
<1>1. CASE WaitOver(m)
  <2>1. Calm
    BY <1>1, WaitOverCalm DEF WaitLooks, queueVars, threadVars, timerVars, endVars
  <2> QED BY <2>1, CalmStep
<1>2. CASE ~WaitOver(m)
  <2>1. /\ waiterAt' = [waiterAt EXCEPT ![m] = "doze"] /\ watch' = [watch EXCEPT ![m] = StandIn]
        /\ ~broken /\ ~exited /\ UNCHANGED <<poked, resumed>>
    BY <1>2 DEF WaitLooks
  <2>2. /\ pc' = pc /\ waiting' = waiting
        /\ UNCHANGED <<armed, timerThread, timerAt, broken, exited>>
    BY DEF WaitLooks, queueVars, threadVars, timerVars, endVars
  <2>3. /\ \A w \in WorkerSet : watch'[w] = watch[w]
        /\ watch'[TimerLoop] = watch[TimerLoop]
        /\ \A k \in Waiters \ {m} : watch'[k] = watch[k] /\ waiterAt'[k] = waiterAt[k]
        /\ watch'[m] = StandIn
    BY <2>1, Bounds DEF WaitType, Sleepers
  <2>4. TimerStays /\ WorkersStay
    BY <2>2, <2>3 DEF TimerStays, WorkersStay
  <2>5. /\ Keep({"arm"}) /\ Keep({"arm", "armPoke", "armLock"})
        /\ Keep({"arm", "armPoke", "armLock", "armAll"})
    BY <2>2 DEF Keep
  <2>6. TimerInv' /\ WorkersWatch'
    BY <2>2, <2>4, <2>5, TimerKept, WorkersKept DEF EndInv, WatchInv, CountInv, Asleep
  <2>7. HeardInv'
    BY <2>1, <2>2 DEF HeardInv
  <2>8. NextDeadline' = NextDeadline /\ NextDeadline \in Nat
    BY <2>2 DEF NextDeadline, Later
  <2>9. timerThread = "Unavailable" => watch'[m] = NextDeadline
    BY <2>3 DEF StandIn
  <2>10. WaitersWatch'
    <3>1. SUFFICES ASSUME timerThread = "Unavailable", NEW k \in Waiters,
                          waiterAt'[k] \in Dozes, ~poked'[k], ~resumed'[k]
                   PROVE  watch'[k] <= NextDeadline' \/ SomeAt({"arm", "armPoke"})'
      BY <2>2 DEF WaitersWatch, Dozes
    <3>2. CASE k = m
      BY <2>8, <2>9, <3>1, <3>2
    <3>3. CASE k # m
      BY <2>1, <2>2, <2>3, <2>8, <3>1, <3>3 DEF EndInv, WatchInv, WaitersWatch, SomeAt, Dozes
    <3> QED BY <3>2, <3>3
  <2> QED BY <2>6, <2>7, <2>10 DEF EndInv, WatchInv
<1> QED BY <1>1, <1>2

\* A panic or an exit is followed by a poke.
LEMMA EndsProgram ==
    ASSUME EndInv, WaitType, CountInv, PlaceType, Later, NEW x \in Threads,
           Panics(x) \/ Exit(x)
    PROVE  EndInv'
<1>1. PICK p \in {"gone", "poke"} : To(x, p) /\ (p = "gone" => broken)
  BY DEF Panics, Exit
<1>2. Steps(x, p) /\ pc[x] \in {"run", "idle"}
  BY <1>1, ToSteps DEF Panics, Exit
<1>3. UNCHANGED <<timerThread, timerAt, waiterVars, watch, waiting>>
  BY DEF Panics, Exit, queueVars, timerVars
<1>4. /\ Keep({"arm"}) /\ Keep({"arm", "armPoke"}) /\ Keep({"arm", "armPoke", "armLock"})
      /\ Keep({"arm", "armPoke", "armLock", "armAll"})
  <2>1. \A o \in Others : pc[o] \notin {"run", "idle"} => pc'[o] = pc[o]
    BY <1>2 DEF Steps, Threads
  <2> QED BY <2>1 DEF Keep
<1>5. TimerStays /\ WaitersStay
  BY <1>3 DEF TimerStays, WaitersStay, waiterVars
<1>6. WorkersStay /\ waiting' \subseteq WorkerSet
  BY <1>2, <1>3 DEF WorkersStay, Steps, Threads, CountInv, Asleep
<1>7. WatchInv'
  BY <1>3, <1>4, <1>5, <1>6, TimerKept, WorkersKept, WaitersKept DEF EndInv, WatchInv
<1>8. CASE p = "poke"
  <2>1. HeardInv'
    BY <1>2, <1>8 DEF HeardInv, Steps
  <2> QED BY <1>7, <2>1 DEF EndInv
<1>9. CASE p = "gone"
  <2>1. HeardInv'
    BY <1>1, <1>2, <1>5, <1>9, HeardKept DEF EndInv, Steps
  <2> QED BY <1>7, <2>1 DEF EndInv
<1> QED BY <1>1, <1>8, <1>9

\* Every step keeps what is said of deadlines and of the end.
LEMMA EndStep == EndInv /\ QueueInv /\ TypeInv /\ [Next]_vars => EndInv'
<1> SUFFICES ASSUME EndInv, LockInv, CountInv, PlaceType, TimerType, WaitType, [Next]_vars
             PROVE  EndInv'
  BY DEF TypeInv, QueueInv
<1>1. CASE UNCHANGED vars
  <2>1. Later
    BY <1>1, FewerAreLater DEF vars, timerVars
  <2>2. Calm
    BY <1>1, StillCalm
    DEF vars, TimerStays, WaitersStay, queueVars, threadVars, timerVars, waiterVars, endVars
  <2> QED BY <2>1, <2>2, CalmStep
<1>2. ASSUME NEW w \in WorkerSet, Worker(w) \/ Panics(w) PROVE EndInv'
  <2>0. w \in Threads
    BY DEF Threads
  <2>1. CASE Look(w)
    <3>1. Later
      BY <2>1, FewerAreLater DEF Look, timerVars
    <3>2. PICK p \in {"gone", "popped", "count", "again"} : To(w, p)
      BY <2>1 DEF Look, Pop
    <3>3. Steps(w, p) /\ pc[w] # "poke" /\ p # "doze"
      BY <2>0, <2>1, <3>2, ToSteps DEF Look
    <3>4. waiting' \subseteq waiting /\ UNCHANGED <<timerThread, timerAt, waiterVars, broken,
      exited>>
      BY <2>1 DEF Look, queueVars, timerVars, endVars
    <3>5. watch' = watch
      BY <2>1 DEF Look
    <3>6. Calm
      BY <3>3, <3>4, <3>5, WorkerCalm
    <3> QED BY <3>1, <3>6, CalmStep
  <2>2. CASE Count(w)
    <3>1. Later
      BY <2>2, FewerAreLater DEF Count, timerVars
    <3>2. PICK p \in {"spin", "uncount"} : To(w, p)
      BY <2>2 DEF Count
    <3>3. Steps(w, p) /\ pc[w] # "poke" /\ p # "doze"
      BY <2>0, <2>2, <3>2, ToSteps DEF Count
    <3>4. waiting' \subseteq waiting /\ UNCHANGED <<timerThread, timerAt, waiterVars, broken,
      exited>>
      BY <2>2 DEF Count, queueVars, timerVars, endVars
    <3>5. watch' = watch
      BY <2>2 DEF Count
    <3>6. Calm
      BY <3>3, <3>4, <3>5, WorkerCalm
    <3> QED BY <3>1, <3>6, CalmStep
  <2>3. CASE Spin(w)
    <3>1. Later
      BY <2>3, FewerAreLater DEF Spin, timerVars
    <3>2. PICK p \in {"found", "uncount"} : To(w, p)
      BY <2>3 DEF Spin
    <3>3. Steps(w, p) /\ pc[w] # "poke" /\ p # "doze"
      BY <2>0, <2>3, <3>2, ToSteps DEF Spin
    <3>4. waiting' \subseteq waiting /\ UNCHANGED <<timerThread, timerAt, waiterVars, broken,
      exited>>
      BY <2>3 DEF Spin, queueVars, timerVars, endVars
    <3>5. watch' = watch
      BY <2>3 DEF Spin
    <3>6. Calm
      BY <3>3, <3>4, <3>5, WorkerCalm
    <3> QED BY <3>1, <3>6, CalmStep
  <2>4. CASE Uncount(w)
    <3>1. Later
      BY <2>4, FewerAreLater DEF Uncount, timerVars
    <3>2. PICK p \in {"look", "again"} : To(w, p)
      BY <2>4 DEF Uncount
    <3>3. Steps(w, p) /\ pc[w] # "poke" /\ p # "doze"
      BY <2>0, <2>4, <3>2, ToSteps DEF Uncount
    <3>4. waiting' \subseteq waiting /\ UNCHANGED <<timerThread, timerAt, waiterVars, broken,
      exited>>
      BY <2>4 DEF Uncount, queueVars, timerVars, endVars
    <3>5. watch' = watch
      BY <2>4 DEF Uncount
    <3>6. Calm
      BY <3>3, <3>4, <3>5, WorkerCalm
    <3> QED BY <3>1, <3>6, CalmStep
  <2>5. CASE Again(w)
    <3>1. Later
      BY <2>5, FewerAreLater DEF Again, timerVars
    <3> QED BY <2>5, <3>1, AgainEnds
  <2>6. CASE Sleeps(w)
    <3>1. Later
      BY <2>6, FewerAreLater DEF Sleeps, timerVars
    <3> QED BY <2>6, <3>1, SleepsEnds
  <2>7. CASE WakesUp(w)
    <3>1. Later
      BY <2>7, FewerAreLater DEF WakesUp, timerVars
    <3>2. PICK p \in {"fire", "look"} : To(w, p)
      BY <2>7 DEF WakesUp
    <3>3. Steps(w, p) /\ pc[w] # "poke" /\ p # "doze"
      BY <2>0, <2>7, <3>2, ToSteps, Zenon DEF WakesUp
    <3>4. waiting' \subseteq waiting /\ UNCHANGED <<timerThread, timerAt, waiterVars, broken,
      exited>>
      BY <2>7 DEF WakesUp, queueVars, timerVars, endVars
    <3>5. w \notin waiting' /\ \A y \in Sleepers \ {w} : watch'[y] = watch[y]
      BY <2>7 DEF WakesUp, WaitType
    <3>6. Calm
      BY <3>3, <3>4, <3>5, WorkerCalm, Zenon
    <3> QED BY <3>1, <3>6, CalmStep
  <2>8. CASE Fires(w)
    <3>1. Later
      BY <2>8, FewerAreArmed, FewerAreLater DEF Fires, timerVars
    <3>2. PICK p \in {"look"} : To(w, p)
      BY <2>8 DEF Fires
    <3>3. Steps(w, p) /\ pc[w] # "poke" /\ p # "doze"
      BY <2>0, <2>8, <3>2, ToSteps DEF Fires
    <3>4. waiting' \subseteq waiting /\ UNCHANGED <<timerThread, timerAt, waiterVars, broken,
      exited>>
      BY <2>8 DEF Fires, queueVars, timerVars, endVars
    <3>5. watch' = watch
      BY <2>8 DEF Fires
    <3>6. Calm
      BY <3>3, <3>4, <3>5, WorkerCalm
    <3> QED BY <3>1, <3>6, CalmStep
  <2>9. CASE PushNotifies(w)
    <3>1. Later
      BY <2>9, FewerAreLater DEF PushNotifies, timerVars
    <3>2. PICK p \in {"look"} : To(w, p)
      BY <2>9 DEF PushNotifies
    <3>3. Steps(w, p) /\ pc[w] # "poke" /\ p # "doze"
      BY <2>0, <2>9, <3>2, ToSteps DEF PushNotifies
    <3>4. waiting' \subseteq waiting /\ UNCHANGED <<timerThread, timerAt, waiterVars, broken,
      exited>>
      BY <2>9 DEF PushNotifies, NotifyOne, queueVars, timerVars, endVars
    <3>5. watch' = watch
      BY <2>9 DEF PushNotifies, NotifyOne
    <3>6. Calm
      BY <3>3, <3>4, <3>5, WorkerCalm
    <3> QED BY <3>1, <3>6, CalmStep
  <2>10. CASE PopNotifies(w)
    <3>1. Later
      BY <2>10, FewerAreLater DEF PopNotifies, timerVars
    <3>2. PICK p \in {"run"} : To(w, p)
      BY <2>10 DEF PopNotifies
    <3>3. Steps(w, p) /\ pc[w] # "poke" /\ p # "doze"
      BY <2>0, <2>10, <3>2, ToSteps DEF PopNotifies
    <3>4. waiting' \subseteq waiting /\ UNCHANGED <<timerThread, timerAt, waiterVars, broken,
      exited>>
      BY <2>10 DEF PopNotifies, NotifyOne, queueVars, timerVars, endVars
    <3>5. watch' = watch
      BY <2>10 DEF PopNotifies, NotifyOne
    <3>6. Calm
      BY <3>3, <3>4, <3>5, WorkerCalm
    <3> QED BY <3>1, <3>6, CalmStep
  <2>11. CASE Poke(w)
    <3>1. Later
      BY <2>11, FewerAreLater DEF Poke, timerVars
    <3> QED BY <2>0, <2>11, <3>1, PokeEnds
  <2>12. CASE SliceEnds(w)
    <3>1. Later
      BY <2>12, FewerAreLater DEF SliceEnds, timerVars
    <3>2. PICK p \in {"look"} : To(w, p)
      BY <2>12 DEF SliceEnds
    <3>3. Steps(w, p) /\ pc[w] # "poke" /\ p # "doze"
      BY <2>0, <2>12, <3>2, ToSteps DEF SliceEnds
    <3>4. waiting' \subseteq waiting /\ UNCHANGED <<timerThread, timerAt, waiterVars, broken,
      exited>>
      BY <2>12 DEF SliceEnds, queueVars, timerVars, endVars
    <3>5. watch' = watch
      BY <2>12 DEF SliceEnds
    <3>6. Calm
      BY <3>3, <3>4, <3>5, WorkerCalm
    <3> QED BY <3>1, <3>6, CalmStep
  <2>13. CASE SliceGoesOn(w)
    <3>1. Later
      BY <2>13, FewerAreLater DEF SliceGoesOn, timerVars
    <3>2. PICK p \in {"over"} : To(w, p)
      BY <2>13 DEF SliceGoesOn
    <3>3. Steps(w, p) /\ pc[w] # "poke" /\ p # "doze"
      BY <2>0, <2>13, <3>2, ToSteps DEF SliceGoesOn
    <3>4. waiting' \subseteq waiting /\ UNCHANGED <<timerThread, timerAt, waiterVars, broken,
      exited>>
      BY <2>13 DEF SliceGoesOn, queueVars, timerVars, endVars
    <3>5. watch' = watch
      BY <2>13 DEF SliceGoesOn
    <3>6. Calm
      BY <3>3, <3>4, <3>5, WorkerCalm
    <3> QED BY <3>1, <3>6, CalmStep
  <2>14. CASE SliceYields(w)
    <3>1. Later
      BY <2>14, FewerAreArmed, FewerAreLater DEF SliceYields, KeepsOn, timerVars
    <3>2. PICK p \in {"over", "enqueue"} : To(w, p)
      BY <2>14 DEF SliceYields, KeepsOn
    <3>3. Steps(w, p) /\ pc[w] # "poke" /\ p # "doze"
      BY <2>0, <2>14, <3>2, ToSteps DEF SliceYields
    <3>4. waiting' \subseteq waiting /\ UNCHANGED <<timerThread, timerAt, waiterVars, broken,
      exited>>
      BY <2>14 DEF SliceYields, queueVars, timerVars, endVars
    <3>5. watch' = watch
      BY <2>14 DEF SliceYields
    <3>6. Calm
      BY <3>3, <3>4, <3>5, WorkerCalm
    <3> QED BY <3>1, <3>6, CalmStep
  <2>15. CASE SliceOver(w)
    <3>1. Later
      BY <2>15, FewerAreArmed, FewerAreLater DEF SliceOver, KeepsOn, timerVars
    <3>2. PICK p \in {"run", "enqueue"} : To(w, p)
      BY <2>15 DEF SliceOver, KeepsOn
    <3>3. Steps(w, p) /\ pc[w] # "poke" /\ p # "doze"
      BY <2>0, <2>15, <3>2, ToSteps DEF SliceOver
    <3>4. waiting' \subseteq waiting /\ UNCHANGED <<timerThread, timerAt, waiterVars, broken,
      exited>>
      BY <2>15 DEF SliceOver, queueVars, timerVars, endVars
    <3>5. watch' = watch
      BY <2>15 DEF SliceOver
    <3>6. Calm
      BY <3>3, <3>4, <3>5, WorkerCalm
    <3> QED BY <3>1, <3>6, CalmStep
  <2>16. CASE GivesBack(w)
    <3>1. Later
      BY <2>16, FewerAreLater DEF GivesBack, Push, timerVars
    <3>2. PICK p \in {"look", "notify"} : To(w, p)
      BY <2>16 DEF GivesBack, Push
    <3>3. Steps(w, p) /\ pc[w] # "poke" /\ p # "doze"
      BY <2>0, <2>16, <3>2, ToSteps DEF GivesBack
    <3>4. waiting' \subseteq waiting /\ UNCHANGED <<timerThread, timerAt, waiterVars, broken,
      exited>>
      BY <2>16 DEF GivesBack, Push, queueVars, timerVars, endVars
    <3>5. watch' = watch
      BY <2>16 DEF GivesBack, Push
    <3>6. Calm
      BY <3>3, <3>4, <3>5, WorkerCalm
    <3> QED BY <3>1, <3>6, CalmStep
  <2>17. CASE Panics(w)
    <3>1. Later
      BY <2>17, FewerAreLater DEF Panics, timerVars
    <3> QED BY <2>0, <2>17, <3>1, EndsProgram
  <2> QED BY <1>2, <2>1, <2>2, <2>3, <2>4, <2>5, <2>6, <2>7, <2>8, <2>9, <2>10, <2>11, <2>12,
    <2>13, <2>14, <2>15, <2>16, <2>17 DEF Worker
<1>3. ASSUME NEW o \in Others, Begins(o) \/ Continues(o) PROVE EndInv'
  <2>0. o \in Threads /\ o \notin WorkerSet
    BY Bounds DEF Threads
  <2>1. CASE Enqueue(o)
    <3>1. Later
      BY <2>1, FewerAreLater DEF Enqueue, Push, timerVars
    <3>2. PICK p \in {"idle", "notify"} : To(o, p)
      BY <2>0, <2>1, Zenon DEF Enqueue, Push
    <3>3. Steps(o, p) /\ pc[o] \notin ArmPlaces \cup {"poke"} /\ p # "doze"
      BY <2>0, <2>1, <3>2, ToSteps DEF Enqueue, ArmPlaces
    <3>4. /\ waiting' \subseteq waiting /\ UNCHANGED <<timerThread, watch, broken, exited>>
          /\ timerAt' = "sleep" => timerAt = "sleep"
      BY <2>1 DEF Enqueue, Push, queueVars, timerVars, endVars
    <3>5. WaitersStay
      BY <2>1 DEF Enqueue, Push, WaitersStay, waiterVars, Dozes
    <3>6. Calm
      BY <3>3, <3>4, <3>5, OtherCalm
    <3> QED BY <3>1, <3>6, CalmStep
  <2>2. ASSUME NEW t \in system.times, Arm(o, t) PROVE EndInv'
    BY <2>0, <2>2, ArmEnds
  <2>3. CASE Exit(o)
    <3>1. Later
      BY <2>3, FewerAreLater DEF Exit, timerVars
    <3> QED BY <2>0, <2>3, <3>1, EndsProgram
  <2>4. CASE Shutdown(o)
    <3>1. Later
      BY <2>4, FewerAreLater DEF Shutdown, timerVars
    <3>2. PICK p \in {"endTimer"} : To(o, p)
      BY <2>0, <2>4 DEF Shutdown
    <3>3. Steps(o, p) /\ pc[o] \notin ArmPlaces \cup {"poke"} /\ p # "doze"
      BY <2>0, <2>4, <3>2, ToSteps DEF Shutdown, ArmPlaces
    <3>4. /\ waiting' \subseteq waiting /\ UNCHANGED <<timerThread, watch, broken, exited>>
          /\ timerAt' = "sleep" => timerAt = "sleep"
      BY <2>4 DEF Shutdown, queueVars, timerVars, endVars
    <3>5. WaitersStay
      BY <2>4 DEF Shutdown, WaitersStay, waiterVars, Dozes
    <3>6. Calm
      BY <3>3, <3>4, <3>5, OtherCalm
    <3> QED BY <3>1, <3>6, CalmStep
  <2>5. CASE PushNotifies(o)
    <3>1. Later
      BY <2>5, FewerAreLater DEF PushNotifies, timerVars
    <3>2. PICK p \in {"idle"} : To(o, p)
      BY <2>0, <2>5 DEF PushNotifies
    <3>3. Steps(o, p) /\ pc[o] \notin ArmPlaces \cup {"poke"} /\ p # "doze"
      BY <2>0, <2>5, <3>2, ToSteps DEF PushNotifies, ArmPlaces
    <3>4. /\ waiting' \subseteq waiting /\ UNCHANGED <<timerThread, watch, broken, exited>>
          /\ timerAt' = "sleep" => timerAt = "sleep"
      BY <2>5 DEF PushNotifies, NotifyOne, queueVars, timerVars, endVars
    <3>5. WaitersStay
      BY <2>5, Zenon DEF PushNotifies, WaitersStay, waiterVars, Dozes
    <3>6. Calm
      BY <3>3, <3>4, <3>5, OtherCalm
    <3> QED BY <3>1, <3>6, CalmStep
  <2>6. CASE Poke(o)
    <3>1. Later
      BY <2>6, FewerAreLater DEF Poke, timerVars
    <3> QED BY <2>0, <2>6, <3>1, PokeEnds
  <2>7. CASE TimerArmed(o)
    BY <2>7, TimerArmedEnds
  <2>8. CASE ArmPokes(o)
    <3>1. Later
      BY <2>8, FewerAreLater DEF ArmPokes, timerVars
    <3> QED BY <2>8, <3>1, ArmPokesEnds
  <2>9. CASE ArmLocks(o)
    <3>1. Later
      BY <2>9, FewerAreLater DEF ArmLocks, timerVars
    <3> QED BY <2>9, <3>1, ArmLocksEnds
  <2>10. CASE NotifyAll(o)
    <3>1. Later
      BY <2>10, FewerAreLater DEF NotifyAll, timerVars
    <3> QED BY <2>10, <3>1, NotifyAllEnds
  <2>11. CASE EndTimer(o)
    <3>1. Later
      BY <2>11, FewerAreLater DEF EndTimer, timerVars
    <3>2. PICK p \in {"endQueue"} : To(o, p)
      BY <2>0, <2>11 DEF EndTimer
    <3>3. Steps(o, p) /\ pc[o] \notin ArmPlaces \cup {"poke"} /\ p # "doze"
      BY <2>0, <2>11, <3>2, ToSteps DEF EndTimer, ArmPlaces
    <3>4. /\ waiting' \subseteq waiting /\ UNCHANGED <<timerThread, watch, broken, exited>>
          /\ timerAt' = "sleep" => timerAt = "sleep"
      BY <2>11 DEF EndTimer, NotifyTimer, queueVars, timerVars, endVars
    <3>5. WaitersStay
      BY <2>11 DEF EndTimer, WaitersStay, waiterVars, Dozes
    <3>6. Calm
      BY <3>3, <3>4, <3>5, OtherCalm
    <3> QED BY <3>1, <3>6, CalmStep
  <2>12. CASE EndQueue(o)
    <3>1. Later
      BY <2>12, FewerAreLater DEF EndQueue, timerVars
    <3>2. PICK p \in {"endQueued"} : To(o, p)
      BY <2>0, <2>12 DEF EndQueue
    <3>3. Steps(o, p) /\ pc[o] \notin ArmPlaces \cup {"poke"} /\ p # "doze"
      BY <2>0, <2>12, <3>2, ToSteps DEF EndQueue, ArmPlaces
    <3>4. /\ waiting' \subseteq waiting /\ UNCHANGED <<timerThread, watch, broken, exited>>
          /\ timerAt' = "sleep" => timerAt = "sleep"
      BY <2>12 DEF EndQueue, queueVars, timerVars, endVars
    <3>5. WaitersStay
      BY <2>12 DEF EndQueue, WaitersStay, waiterVars, Dozes
    <3>6. Calm
      BY <3>3, <3>4, <3>5, OtherCalm
    <3> QED BY <3>1, <3>6, CalmStep
  <2>13. CASE EndQueued(o)
    <3>1. Later
      BY <2>13, FewerAreLater DEF EndQueued, timerVars
    <3>2. PICK p \in {"endAll"} : To(o, p)
      BY <2>0, <2>13 DEF EndQueued
    <3>3. Steps(o, p) /\ pc[o] \notin ArmPlaces \cup {"poke"} /\ p # "doze"
      BY <2>0, <2>13, <3>2, ToSteps DEF EndQueued, ArmPlaces
    <3>4. /\ waiting' \subseteq waiting /\ UNCHANGED <<timerThread, watch, broken, exited>>
          /\ timerAt' = "sleep" => timerAt = "sleep"
      BY <2>13 DEF EndQueued, queueVars, timerVars, endVars
    <3>5. WaitersStay
      BY <2>13 DEF EndQueued, WaitersStay, waiterVars, Dozes
    <3>6. Calm
      BY <3>3, <3>4, <3>5, OtherCalm
    <3> QED BY <3>1, <3>6, CalmStep
  <2>14. CASE EndParked(o)
    <3>1. Later
      BY <2>14, FewerAreLater DEF EndParked, timerVars
    <3>2. PICK p \in {"idle"} : To(o, p)
      BY <2>0, <2>14 DEF EndParked
    <3>3. Steps(o, p) /\ pc[o] \notin ArmPlaces \cup {"poke"} /\ p # "doze"
      BY <2>0, <2>14, <3>2, ToSteps DEF EndParked, ArmPlaces
    <3>4. /\ waiting' \subseteq waiting /\ UNCHANGED <<timerThread, watch, broken, exited>>
          /\ timerAt' = "sleep" => timerAt = "sleep"
      BY <2>14 DEF EndParked, queueVars, timerVars, endVars
    <3>5. WaitersStay
      BY <2>14, Zenon DEF EndParked, WaitersStay, waiterVars, Dozes
    <3>6. Calm
      BY <3>3, <3>4, <3>5, OtherCalm
    <3> QED BY <3>1, <3>6, CalmStep
  <2> QED BY Zenon, <1>3, <2>1, <2>2, <2>3, <2>4, <2>5, <2>6, <2>7, <2>8, <2>9, <2>10, <2>11, <2>12,
    <2>13, <2>14 DEF Begins, Continues
<1>4. ASSUME NEW t \in system.times, Disarm(t) PROVE EndInv'
  <2>1. Later
    BY <1>4, FewerAreLater DEF Disarm
  <2>2. Calm
    BY <1>4, StillCalm
    DEF Disarm, TimerStays, WaitersStay, queueVars, threadVars, waiterVars, endVars
  <2> QED BY <2>1, <2>2, CalmStep
<1>5. CASE TimerGoesOn
  <2>1. CASE TimerLooks
    <3>1. Later
      BY <2>1, FewerAreLater DEF TimerLooks, timerVars
    <3> QED BY <2>1, <3>1, TimerLooksEnds
  <2>2. CASE TimerWakes
    <3>1. Later
      BY <2>2, FewerAreLater DEF TimerWakes, timerVars
    <3>2. \A y \in WorkerSet \cup Waiters : watch'[y] = watch[y]
      BY <2>2, Bounds DEF TimerWakes, WaitType, Sleepers
    <3>3. Calm
      BY <2>2, <3>2, StillCalm
      DEF TimerWakes, TimerStays, WaitersStay, queueVars, threadVars, waiterVars, endVars
    <3> QED BY <3>1, <3>3, CalmStep
  <2>3. CASE TimerFires
    <3>1. Later
      BY <2>3, FewerAreArmed, FewerAreLater DEF TimerFires, timerVars
    <3>2. TimerStays /\ WaitersStay
      BY <2>3, Zenon DEF TimerFires, TimerStays, WaitersStay, waiterVars, timerVars
    <3>3. Calm
      BY <2>3, <3>2, StillCalm DEF TimerFires, queueVars, threadVars, timerVars, endVars
    <3> QED BY <3>1, <3>3, CalmStep
  <2> QED BY <1>5, <2>1, <2>2, <2>3 DEF TimerGoesOn
<1>6. ASSUME NEW m \in Waiters, WaitBegins(m) \/ Waits(m) \/ Resume(m) PROVE EndInv'
  <2>1. CASE WaitBegins(m)
    <3>1. Later
      BY <2>1, FewerAreLater DEF WaitBegins, timerVars
    <3>2. TimerStays /\ WaitersStay
      BY <2>1 DEF WaitBegins, TimerStays, WaitersStay, waiterVars, timerVars, WaitType, Dozes
    <3>3. Calm
      BY <2>1, <3>2, StillCalm DEF WaitBegins, queueVars, threadVars, timerVars, endVars
    <3> QED BY <3>1, <3>3, CalmStep
  <2>2. CASE WaitLooks(m)
    <3>1. Later
      BY <2>2, FewerAreLater DEF WaitLooks, timerVars
    <3> QED BY <2>2, <3>1, WaitLooksEnds
  <2>3. CASE WaitFiresDue(m)
    <3>1. Later
      BY <2>3, FewerAreArmed, FewerAreLater DEF WaitFiresDue, timerVars
    <3>2. CASE resumed[m]
      <4>1. Calm
        BY <2>3, <3>2, WaitOverCalm, ZenonT(20) DEF WaitFiresDue, queueVars, threadVars, endVars
      <4> QED BY <3>1, <4>1, CalmStep
    <3>3. CASE ~resumed[m]
      <4>1. Calm
        BY Zenon, <2>3, <3>3, StillCalm
        DEF WaitFiresDue, TimerStays, WaitersStay, queueVars, threadVars, waiterVars, endVars
      <4> QED BY <3>1, <4>1, CalmStep
    <3> QED BY <3>2, <3>3
  <2>4. CASE WaitSleeps(m)
    <3>1. Later
      BY <2>4, FewerAreLater DEF WaitSleeps, timerVars
    <3>2. TimerStays /\ WaitersStay
      BY <2>4 DEF WaitSleeps, TimerStays, WaitersStay, waiterVars, timerVars, WaitType, Dozes
    <3>3. Calm
      BY <2>4, <3>2, StillCalm DEF WaitSleeps, queueVars, threadVars, timerVars, endVars
    <3> QED BY <3>1, <3>3, CalmStep
  <2>5. CASE WaitWakes(m)
    <3>1. Later
      BY <2>5, FewerAreLater DEF WaitWakes, timerVars
    <3>2. CASE resumed[m]
      <4>1. Calm
        BY <2>5, <3>2, WaitOverCalm DEF WaitWakes, queueVars, threadVars, timerVars, endVars
      <4> QED BY <3>1, <4>1, CalmStep
    <3>3. CASE ~resumed[m]
      <4>1. /\ \A w \in WorkerSet : watch'[w] = watch[w]
            /\ watch'[TimerLoop] = watch[TimerLoop]
            /\ \A k \in Waiters \ {m} : watch'[k] = watch[k]
        BY <2>5, <3>3, Bounds DEF WaitWakes, WaitType, Sleepers
      <4>2. WaitersStay
        BY <2>5, <3>3, <4>1 DEF WaitWakes, WaitersStay, WaitType, Dozes
      <4>3. Calm
        BY Zenon, <2>5, <4>1, <4>2, StillCalm
        DEF WaitWakes, TimerStays, queueVars, threadVars, timerVars, endVars
      <4> QED BY <3>1, <4>3, CalmStep
    <3> QED BY <3>2, <3>3
  <2>6. CASE WaitFires(m)
    <3>1. Later
      BY <2>6, FewerAreArmed, FewerAreLater DEF WaitFires, timerVars
    <3>2. TimerStays /\ WaitersStay
      BY <2>6 DEF WaitFires, TimerStays, WaitersStay, waiterVars, timerVars, WaitType, Dozes
    <3>3. Calm
      BY <2>6, <3>2, StillCalm DEF WaitFires, queueVars, threadVars, timerVars, endVars
    <3> QED BY <3>1, <3>3, CalmStep
  <2>7. CASE Resume(m)
    <3>1. Later
      BY <2>7, FewerAreLater DEF Resume, timerVars
    <3>2. TimerStays /\ WaitersStay
      BY <2>7 DEF Resume, TimerStays, WaitersStay, waiterVars, timerVars, WaitType, Dozes
    <3>3. Calm
      BY <2>7, <3>2, StillCalm DEF Resume, queueVars, threadVars, timerVars, endVars
    <3> QED BY <3>1, <3>3, CalmStep
  <2> QED BY <1>6, <2>1, <2>2, <2>3, <2>4, <2>5, <2>6, <2>7 DEF Waits
<1> QED BY <1>1, <1>2, <1>3, <1>4, <1>5, <1>6, Zenon DEF Next

\* They hold at the start.
LEMMA EndInit == Init => EndInv
BY DEF Init, EndInv, WatchInv, HeardInv, TimerInv, WorkersWatch, WaitersWatch

-----------------------------------------------------------------------------
(* The theorems.                                                           *)

WorkersInv == TypeInv /\ QueueInv /\ EndInv

\* The invariant is inductive: it holds at the start, and every step of a
\* worker, of the others, of the timer and of a thread that waits keeps it.
THEOREM WorkersInvHolds == Spec => []WorkersInv
<1>1. Init => WorkersInv
  BY TypeInit, QueueInit, EndInit DEF WorkersInv
<1>2. WorkersInv /\ [Next]_vars => WorkersInv'
  BY TypeStep, QueueStep, EndStep DEF WorkersInv
<1> QED BY <1>1, <1>2, PTL DEF Spec

\* Inner::enqueue, Inner::pop, next_task: however many workers there are and
\* however many may look on, no task is left on the queue beside a worker
\* that sleeps, with nobody on the way to it.
THEOREM QueuedTaskIsSeen == Spec => []QueuedIsSeen
<1>1. WorkersInv => QueuedIsSeen
  BY DEF WorkersInv, QueueInv
<1> QED BY <1>1, WorkersInvHolds, PTL

\* timer_armed, fire_timers, sleep_thread: whoever fires the timer does not
\* sleep past the next deadline, or is about to be told of it.
THEOREM EveryDeadlineIsWatched == Spec => []DeadlineIsWatched
<1>1. ASSUME WorkersInv PROVE DeadlineIsWatched
  <2>1. /\ SomeAt({"arm"}) => SomeAt(ArmPlaces)
        /\ SomeAt({"arm", "armPoke"}) => SomeAt(ArmPlaces)
    BY DEF SomeAt, ArmPlaces
  <2>2. TimerInv /\ WorkersWatch /\ WaitersWatch /\ waiting \subseteq WorkerSet
    BY <1>1 DEF WorkersInv, EndInv, WatchInv, QueueInv, CountInv, Asleep
  <2>3. timerThread \in {"Idle", "Running", "Unavailable"}
    BY <1>1 DEF WorkersInv, TypeInv, TimerType
  <2>4. CASE SomeAt(ArmPlaces)
    BY <2>4, Zenon DEF DeadlineIsWatched, SomeAt, ArmPlaces
  <2>5. CASE ~SomeAt(ArmPlaces)
    <3>1. CASE timerThread = "Idle"
      BY <2>1, <2>2, <2>5, <3>1 DEF DeadlineIsWatched, TimerInv
    <3>2. CASE timerThread = "Running"
      BY <2>1, <2>2, <2>5, <3>2 DEF DeadlineIsWatched, TimerInv
    <3>3. CASE timerThread = "Unavailable"
      BY <2>1, <2>2, <2>5, <3>3 DEF DeadlineIsWatched, WorkersWatch, WaitersWatch, ArmPlaces
    <3> QED BY <2>3, <3>1, <3>2, <3>3
  <2> QED BY <2>4, <2>5
<1> QED BY <1>1, WorkersInvHolds, PTL

\* Inner::fail, Scheduler::exit: no thread that waits sleeps through the end
\* of the program, however its sleep and the poke are interleaved.
THEOREM TheEndIsHeard == Spec => []EndIsHeard
<1>1. WorkersInv => EndIsHeard
  BY DEF WorkersInv, EndInv, HeardInv, EndIsHeard
<1> QED BY <1>1, WorkersInvHolds, PTL

=============================================================================
