---------------------------- MODULE ParkingProofs -----------------------------
(***************************************************************************)
(* The properties of module Parking, proved for any finite set of tasks,   *)
(* any peers and cancellers, and any number of waits: the inductive        *)
(* invariant, what a step may do to the tokens, the wakes and the cancels, *)
(* and the theorems.                                                       *)
(***************************************************************************)
EXTENDS Parking, FiniteSetTheorems, TLAPS

-----------------------------------------------------------------------------
(* The inductive invariant: types, places of the tasks, peers, cancellers. *)

Ended(state) == state \in {"Fired", "Cancelled", "Expired", "Taken"}

\* Between putting its token on the queues and giving the task up.
Parks(t) == pc[t] \in {"queued", "inserted", "checked"}

\* An entry that is not committed has its worker still inside park, and such
\* a worker finds its entry unless the shutdown took it.
EntryInv ==
    \A t \in Tasks :
        /\ entry[t] = "open" => pc[t] \in {"inserted", "checked"}
        /\ entry[t] = "committed" => pc[t] = "away"
        /\ pc[t] \in {"inserted", "checked"} => entry[t] = "open" \/ t \in drained

ShutInv ==
    /\ ~shutDown => drained = {}
    /\ taken \subseteq drained
    /\ DrainedStaysEmpty

\* The tokens of earlier waits have ended, those of later ones do not exist.
PastInv ==
    \A t \in Tasks, n \in Waits :
        /\ n < wait[t] => Ended(token[t][n])
        /\ n > wait[t] => token[t][n] = "Unborn"

\* The token of the present wait is open only while the task waits, and it
\* is committed only when the task's worker has given the task up.
PresentInv ==
    \A t \in Tasks :
        /\ entry[t] # "none" \/ Parks(t) \/ t \in taken => wait[t] > 0
        /\ wait[t] > 0 => IsWaiting(Current(t)) \/ Ended(Current(t))
        /\ wait[t] > 0 /\ IsWaiting(Current(t)) =>
             pc[t] = "queued" \/ entry[t] # "none" \/ t \in taken
        /\ Parks(t) => Current(t) \in {"Armed", "Fired", "Cancelled", "Expired"}
        /\ entry[t] = "committed" => Current(t) # "Armed" /\ Current(t) # "Taken"

\* A wake is on its way to a committed entry once its wait has ended.
WakeInv == WakeIsComing /\ StrayWakeIsShutdown

\* Peers and cancellers have tokens that exist; a canceller has tasks to
\* cancel only while it goes through them, and a token only in between.
ActorInv ==
    /\ \A p \in Peers, t \in Tasks, n \in Waits : <<t, n>> \in look[p] => n <= wait[t]
    /\ \A c \in Cancellers :
        /\ \A t \in Tasks, n \in Waits : <<t, n>> \in hold[c] => n <= wait[t]
        /\ step[c] \in {"idle", "inspect"} => todo[c] = {}
        /\ step[c] # "token" => hold[c] = {}
        /\ \A x, y \in hold[c] : x = y

\* CancelNotLost, from the moment at which the worker has read the flag.
CancelInv ==
    \A t \in Tasks :
        flag[t] /\ entry[t] # "none" /\ pc[t] \in {"checked", "away"} /\ ~CancelPending(t)
          => ~IsWaiting(Current(t))

Inv == EntryInv /\ ShutInv /\ PastInv /\ PresentInv /\ WakeInv /\ ActorInv
         /\ CancelInv /\ OnePlace

-----------------------------------------------------------------------------
\* What a step does to the tokens: token n of task t gets this state.
TokenBecomes(t, n, state) ==
    /\ \A u \in Tasks : u # t => token'[u] = token[u]
    /\ \A k \in Waits : token'[t][k] = IF k = n THEN state ELSE token[t][k]

\* SetToken changes the one token it names, and nothing else.
LEMMA SetTokenFacts ==
    ASSUME NEW t \in Tasks, NEW n, NEW state, n \in Waits => state \in TokenStates,
           token \in [Tasks -> [Waits -> TokenStates]], SetToken(t, n, state)
    PROVE  /\ token' \in [Tasks -> [Waits -> TokenStates]]
           /\ TokenBecomes(t, n, state)
  BY Zenon DEF SetToken, TokenBecomes

\* The present token of a task is changed by a step that changes the token
\* of its present wait, and by no other.
LEMMA CurrentFacts ==
    ASSUME TypeOK, NEW t \in Tasks, NEW n \in Waits, n <= wait[t], NEW state,
           TokenBecomes(t, n, state), wait' = wait
    PROVE  /\ \A u \in Tasks : u # t => Current(u)' = Current(u)
           /\ n = wait[t] => Current(t)' = state
           /\ n # wait[t] => Current(t)' = Current(t)
  BY DEF TokenBecomes, Current, TypeOK, TaskTypes, Waits

\* A wait that is not the task's present one has ended.
LEMMA EarlierWaitEnded ==
    ASSUME TypeOK, Inv, NEW t \in Tasks, NEW n \in Waits, n <= wait[t]
    PROVE  /\ n = wait[t] => token[t][n] = Current(t)
           /\ n # wait[t] => Ended(token[t][n])
<1>1. wait[t] \in Nat /\ n \in Nat
  BY MaxWaitsIsNat DEF TypeOK, TaskTypes, Waits
<1>2. n < wait[t] => Ended(token[t][n])
  BY DEF Inv, PastInv
<1>. QED
  BY <1>1, <1>2 DEF Current

\* The tasks' variables keep their types.
LEMMA TaskTypesStep == TypeOK /\ [Next]_vars => TaskTypes'
<1>. SUFFICES ASSUME TypeOK, [Next]_vars PROVE TaskTypes'
  OBVIOUS
<1>. USE MaxWaitsIsNat DEF TypeOK, TaskTypes, workerVars, taskVars, cancelVars, shutVars
<1>0. ASSUME UNCHANGED <<pc, wait, ready, ended, flag>> PROVE TaskTypes'
  BY <1>0
<1>1. ASSUME NEW t \in Tasks, Dispatch(t) PROVE TaskTypes'
  BY <1>1 DEF Dispatch
<1>2. ASSUME NEW t \in Tasks, EndTask(t) PROVE TaskTypes'
  BY <1>2 DEF EndTask
<1>3. ASSUME NEW t \in Tasks, ParkBegin(t) PROVE TaskTypes'
  BY <1>3 DEF ParkBegin
<1>4. ASSUME NEW t \in Tasks, ParkReady(t) PROVE TaskTypes'
  BY <1>4 DEF ParkReady
<1>5. ASSUME NEW t \in Tasks, ParkEnds(t) PROVE TaskTypes'
  BY <1>5 DEF ParkEnds
<1>6. ASSUME NEW t \in Tasks, ParkQueues(t) PROVE TaskTypes'
  BY <1>6 DEF ParkQueues
<1>7. ASSUME NEW t \in Tasks, ParkInsert(t) PROVE TaskTypes'
  BY <1>7 DEF ParkInsert
<1>8. ASSUME NEW t \in Tasks, ParkRecheck(t) PROVE TaskTypes'
  BY <1>8 DEF ParkRecheck, WakeIfParked
<1>9. ASSUME NEW t \in Tasks, ParkCommit(t) PROVE TaskTypes'
  BY <1>9 DEF ParkCommit, Commits
<1>10. ASSUME NEW t \in Tasks, ParkTakeBack(t) PROVE TaskTypes'
  BY <1>10 DEF ParkTakeBack, Commits
<1>11. ASSUME NEW t \in Tasks, Wake(t) PROVE TaskTypes'
  BY <1>11 DEF Wake, HandBack
<1>12. ASSUME NEW c \in Cancellers, NEW t \in Tasks, CancelFlag(c, t) PROVE TaskTypes'
  BY <1>12 DEF CancelFlag
<1>13. ASSUME NEW t \in Tasks, ShutdownDrop(t) PROVE TaskTypes'
  BY <1>13 DEF ShutdownDrop
<1>. HIDE DEF TypeOK, TaskTypes
<1>. QED
  BY Zenon, <1>0, <1>1, <1>2, <1>3, <1>4, <1>5, <1>6, <1>7, <1>8, <1>9, <1>10, <1>11, <1>12,
     <1>13
     DEF Next, Worker, Peer, Canceller, CancelGoesOn, Shutdown, ClaimLook, ClaimEnd,
         StopFlag, StopInspect, CancelLookup, CancelToken, CancelReturns, ShutdownFlag,
         ShutdownDrain, vars, workerVars, taskVars, cancelVars, shutVars

\* So do those of the registry.
LEMMA RegistryTypesStep == TypeOK /\ [Next]_vars => RegistryTypes'
<1>. SUFFICES ASSUME TypeOK, [Next]_vars PROVE RegistryTypes'
  OBVIOUS
<1>. USE DEF TypeOK, RegistryTypes, workerVars, taskVars, cancelVars, shutVars
<1>0. ASSUME UNCHANGED <<token, entry, waiting, wakes>> PROVE RegistryTypes'
  BY <1>0
<1>1. ASSUME NEW t \in Tasks, ParkQueues(t) PROVE RegistryTypes'
  <2>1. wait[t] + 1 \in Waits => "Armed" \in TokenStates
    BY TypeOK DEF TokenStates
  <2>2. token' \in [Tasks -> [Waits -> TokenStates]]
    BY <1>1, <2>1, SetTokenFacts DEF ParkQueues
  <2>3. /\ entry' \in [Tasks -> {"none", "open", "committed"}]
        /\ waiting' \in Int
        /\ wakes' \in [Tasks -> Nat]
    BY <1>1 DEF ParkQueues
  <2>. QED
    BY <2>2, <2>3
<1>2. ASSUME NEW t \in Tasks, ParkInsert(t) PROVE RegistryTypes'
  <2>1. wait[t] \in Waits => Abandon(Current(t)) \in TokenStates
    BY TypeOK DEF TokenStates, Abandon, Current, IsWaiting
  <2>2. token' \in [Tasks -> [Waits -> TokenStates]]
    BY <1>2, <2>1, SetTokenFacts DEF ParkInsert
  <2>3. /\ entry' \in [Tasks -> {"none", "open", "committed"}]
        /\ waiting' \in Int
        /\ wakes' \in [Tasks -> Nat]
    BY <1>2 DEF ParkInsert
  <2>. QED
    BY <2>2, <2>3
<1>3. ASSUME NEW t \in Tasks, ParkRecheck(t) PROVE RegistryTypes'
  <2>1. wait[t] \in Waits => Cancel(Current(t)) \in TokenStates
    BY TypeOK DEF TokenStates, Cancel, Current, IsWaiting
  <2>2. token' \in [Tasks -> [Waits -> TokenStates]]
    BY <1>3, <2>1, SetTokenFacts DEF ParkRecheck
  <2>3. /\ entry' \in [Tasks -> {"none", "open", "committed"}]
        /\ waiting' \in Int
        /\ wakes' \in [Tasks -> Nat]
    BY <1>3 DEF ParkRecheck, WakeIfParked
  <2>. QED
    BY <2>2, <2>3
<1>4. ASSUME NEW t \in Tasks, ParkCommit(t) PROVE RegistryTypes'
  <2>1. wait[t] \in Waits => "Parked" \in TokenStates
    BY TypeOK DEF TokenStates
  <2>2. token' \in [Tasks -> [Waits -> TokenStates]]
    BY <1>4, <2>1, SetTokenFacts DEF ParkCommit
  <2>3. /\ entry' \in [Tasks -> {"none", "open", "committed"}]
        /\ waiting' \in Int
        /\ wakes' \in [Tasks -> Nat]
    BY <1>4 DEF ParkCommit, Commits
  <2>. QED
    BY <2>2, <2>3
<1>5. ASSUME NEW t \in Tasks, ParkTakeBack(t) PROVE RegistryTypes'
  <2>1. wait[t] \in Waits => Take(Current(t)) \in TokenStates
    BY TypeOK DEF TokenStates, Take, Current, IsWaiting
  <2>2. token' \in [Tasks -> [Waits -> TokenStates]]
    BY <1>5, <2>1, SetTokenFacts DEF ParkTakeBack
  <2>3. /\ entry' \in [Tasks -> {"none", "open", "committed"}]
        /\ waiting' \in Int
        /\ wakes' \in [Tasks -> Nat]
    BY <1>5 DEF ParkTakeBack, Commits
  <2>. QED
    BY <2>2, <2>3
<1>6. ASSUME NEW t \in Tasks, Wake(t) PROVE RegistryTypes'
  <2>1. wait[t] \in Waits => Take(Current(t)) \in TokenStates
    BY TypeOK DEF TokenStates, Take, Current, IsWaiting
  <2>2. token' \in [Tasks -> [Waits -> TokenStates]]
    BY <1>6, <2>1, SetTokenFacts DEF Wake
  <2>3. /\ entry' \in [Tasks -> {"none", "open", "committed"}]
        /\ waiting' \in Int
        /\ wakes' \in [Tasks -> Nat]
    BY <1>6 DEF Wake, HandBack
  <2>. QED
    BY <2>2, <2>3
<1>7. ASSUME NEW p \in Peers, NEW t \in Tasks, NEW n \in Waits,
             NEW how \in {"Fired", "Expired"}, ClaimEnd(p, t, n, how)
      PROVE  RegistryTypes'
  <2>1. n \in Waits => how \in TokenStates
    BY TypeOK DEF TokenStates
  <2>2. token' \in [Tasks -> [Waits -> TokenStates]]
    BY <1>7, <2>1, SetTokenFacts DEF ClaimEnd
  <2>w. wakes' = wakes \/ wakes' = [wakes EXCEPT ![t] = @ + 1]
    BY <1>7 DEF ClaimEnd, WakeIfParked
  <2>3. /\ entry' \in [Tasks -> {"none", "open", "committed"}]
        /\ waiting' \in Int
        /\ wakes' \in [Tasks -> Nat]
    BY <1>7, <2>w DEF ClaimEnd
  <2>. QED
    BY <2>2, <2>3
<1>8. ASSUME NEW c \in Cancellers, NEW t \in Tasks,
               NEW n \in Waits, CancelToken(c, t, n)
      PROVE  RegistryTypes'
  <2>1. n \in Waits => Cancel(token[t][n]) \in TokenStates
    BY TypeOK DEF TokenStates, Cancel, Current, IsWaiting
  <2>2. token' \in [Tasks -> [Waits -> TokenStates]]
    BY <1>8, <2>1, SetTokenFacts DEF CancelToken
  <2>3. /\ entry' \in [Tasks -> {"none", "open", "committed"}]
        /\ waiting' \in Int
        /\ wakes' \in [Tasks -> Nat]
    BY <1>8 DEF CancelToken, WakeIfParked
  <2>. QED
    BY <2>2, <2>3
<1>9. ASSUME NEW t \in Tasks, ShutdownDrain(t) PROVE RegistryTypes'
  BY <1>9 DEF ShutdownDrain
<1>10. ASSUME NEW t \in Tasks, ShutdownDrop(t) PROVE RegistryTypes'
  <2>1. wait[t] \in Waits => Abandon(Current(t)) \in TokenStates
    BY TypeOK DEF TokenStates, Abandon, Current, IsWaiting
  <2>2. token' \in [Tasks -> [Waits -> TokenStates]]
    BY <1>10, <2>1, SetTokenFacts DEF ShutdownDrop
  <2>3. /\ entry' \in [Tasks -> {"none", "open", "committed"}]
        /\ waiting' \in Int
        /\ wakes' \in [Tasks -> Nat]
    BY <1>10 DEF ShutdownDrop
  <2>. QED
    BY <2>2, <2>3
<1>. HIDE DEF TypeOK, RegistryTypes
<1>. QED
  BY <1>0, <1>1, <1>2, <1>3, <1>4, <1>5, <1>6, <1>7, <1>8, <1>9, <1>10
     DEF Next, Worker, Peer, Canceller, CancelGoesOn, Shutdown, Dispatch, EndTask,
         ParkBegin, ParkReady, ParkEnds, ClaimLook, CancelFlag, StopFlag, StopInspect,
         CancelLookup, CancelReturns, ShutdownFlag, vars, workerVars, taskVars,
         cancelVars, shutVars

\* So do those of the peers and the cancellers.
LEMMA ActorTypesStep == TypeOK /\ [Next]_vars => ActorTypes'
<1>. SUFFICES ASSUME TypeOK, [Next]_vars PROVE ActorTypes'
  OBVIOUS
<1>. USE MaxWaitsIsNat DEF TypeOK, TaskTypes, ActorTypes, workerVars, taskVars,
             cancelVars, shutVars
<1>0. ASSUME UNCHANGED <<look, step, todo, hold>> PROVE ActorTypes'
  BY <1>0
<1>1. ASSUME NEW p \in Peers, NEW t \in Tasks, NEW n \in Waits, ClaimLook(p, t, n)
      PROVE  ActorTypes'
  <2>1. {<<t, n>>} \in SUBSET (Tasks \X (0..MaxWaits))
    BY DEF Waits
  <2>2. UNCHANGED <<step, todo, hold>> /\ look' = [look EXCEPT ![p] = {<<t, n>>}]
    BY <1>1 DEF ClaimLook
  <2>. QED
    BY <2>1, <2>2
<1>2. ASSUME NEW p \in Peers, NEW t \in Tasks, NEW n \in Waits,
             NEW how \in {"Fired", "Expired"}, ClaimEnd(p, t, n, how)
      PROVE  ActorTypes'
  BY <1>2 DEF ClaimEnd, WakeIfParked
<1>3. ASSUME NEW c \in Cancellers, NEW t \in Tasks, CancelFlag(c, t) PROVE ActorTypes'
  BY <1>3 DEF CancelFlag
<1>4. ASSUME NEW c \in Cancellers, StopFlag(c) PROVE ActorTypes'
  BY <1>4 DEF StopFlag
<1>5. ASSUME NEW c \in Cancellers, StopInspect(c) PROVE ActorTypes'
  BY <1>5 DEF StopInspect
<1>6. ASSUME NEW c \in Cancellers, NEW t \in Tasks, CancelLookup(c, t)
      PROVE  ActorTypes'
  BY <1>6 DEF CancelLookup
<1>7. ASSUME NEW c \in Cancellers, NEW t \in Tasks,
               NEW n \in Waits, CancelToken(c, t, n)
      PROVE  ActorTypes'
  BY <1>7 DEF CancelToken, WakeIfParked
<1>8. ASSUME NEW c \in Cancellers, CancelReturns(c) PROVE ActorTypes'
  BY <1>8 DEF CancelReturns
<1>. HIDE DEF TypeOK, TaskTypes, ActorTypes
<1>. QED
  BY Zenon, <1>0, <1>1, <1>2, <1>3, <1>4, <1>5, <1>6, <1>7, <1>8
     DEF Next, Worker, Peer, Canceller, CancelGoesOn, Shutdown, Dispatch, EndTask,
         ParkBegin, ParkReady, ParkEnds, ParkQueues, ParkInsert, ParkRecheck,
         ParkCommit, ParkTakeBack, Wake, ShutdownFlag, ShutdownDrain, ShutdownDrop,
         vars, workerVars, taskVars, cancelVars, shutVars

\* So do those of the stop and the shutdown.
LEMMA ShutTypesStep == TypeOK /\ [Next]_vars => ShutTypes'
<1>. SUFFICES ASSUME TypeOK, [Next]_vars PROVE ShutTypes'
  OBVIOUS
<1>. USE DEF TypeOK, ShutTypes, workerVars, taskVars, cancelVars, shutVars
<1>0. ASSUME UNCHANGED <<refusing, shutDown, drained, taken>> PROVE ShutTypes'
  BY <1>0
<1>1. ASSUME NEW c \in Cancellers, StopFlag(c) PROVE ShutTypes'
  BY <1>1 DEF StopFlag
<1>2. ASSUME ShutdownFlag PROVE ShutTypes'
  BY <1>2 DEF ShutdownFlag
<1>3. ASSUME NEW t \in Tasks, ShutdownDrain(t) PROVE ShutTypes'
  BY <1>3 DEF ShutdownDrain
<1>4. ASSUME NEW t \in Tasks, ShutdownDrop(t) PROVE ShutTypes'
  BY <1>4 DEF ShutdownDrop
<1>. HIDE DEF TypeOK, ShutTypes
<1>. QED
  BY ZenonT(20), <1>0, <1>1, <1>2, <1>3, <1>4
     DEF Next, Worker, Peer, Canceller, CancelGoesOn, Shutdown, Dispatch, EndTask,
         ParkBegin, ParkReady, ParkEnds, ParkQueues, ParkInsert, ParkRecheck,
         ParkCommit, ParkTakeBack, Wake, ClaimLook, ClaimEnd, CancelFlag, StopInspect,
         CancelLookup, CancelToken, CancelReturns, vars, workerVars, taskVars,
         cancelVars, shutVars

\* The entry of a task and the place of its worker go together.
LEMMA EntryInvStep == TypeOK /\ TypeOK' /\ Inv /\ [Next]_vars => EntryInv'
<1>. SUFFICES ASSUME TypeOK, TypeOK', Inv, [Next]_vars PROVE EntryInv'
  OBVIOUS
<1>. USE DEF Inv, EntryInv, ShutInv, DrainedStaysEmpty, WakeInv, StrayWakeIsShutdown,
             OnePlace, Places, One, TypeOK, TaskTypes, RegistryTypes, ShutTypes,
             workerVars, taskVars, cancelVars, shutVars
<1>0. ASSUME UNCHANGED <<pc, entry, drained>> PROVE EntryInv'
  BY <1>0
<1>1. ASSUME NEW t \in Tasks, Dispatch(t) PROVE EntryInv'
  BY <1>1 DEF Dispatch
<1>2. ASSUME NEW t \in Tasks, EndTask(t) PROVE EntryInv'
  BY <1>2 DEF EndTask
<1>3. ASSUME NEW t \in Tasks, ParkBegin(t) PROVE EntryInv'
  BY <1>3 DEF ParkBegin
<1>4. ASSUME NEW t \in Tasks, ParkReady(t) PROVE EntryInv'
  BY <1>4 DEF ParkReady
<1>5. ASSUME NEW t \in Tasks, ParkEnds(t) PROVE EntryInv'
  BY <1>5 DEF ParkEnds
<1>6. ASSUME NEW t \in Tasks, ParkQueues(t) PROVE EntryInv'
  BY <1>6 DEF ParkQueues
<1>7. ASSUME NEW t \in Tasks, ParkInsert(t) PROVE EntryInv'
  BY <1>7 DEF ParkInsert
<1>8. ASSUME NEW t \in Tasks, ParkRecheck(t) PROVE EntryInv'
  BY <1>8 DEF ParkRecheck, WakeIfParked
<1>9. ASSUME NEW t \in Tasks, ParkCommit(t) PROVE EntryInv'
  BY <1>9 DEF ParkCommit, Commits
<1>10. ASSUME NEW t \in Tasks, ParkTakeBack(t) PROVE EntryInv'
  BY <1>10 DEF ParkTakeBack, Commits
<1>11. ASSUME NEW t \in Tasks, Wake(t) PROVE EntryInv'
  BY <1>11 DEF Wake, HandBack
<1>12. ASSUME NEW t \in Tasks, ShutdownDrain(t) PROVE EntryInv'
  BY <1>12 DEF ShutdownDrain
<1>. HIDE DEF Inv, EntryInv, ShutInv, DrainedStaysEmpty, WakeInv, StrayWakeIsShutdown,
              OnePlace, Places, One, TypeOK, TaskTypes, RegistryTypes, ShutTypes
<1>. QED
  BY Zenon, <1>0, <1>1, <1>2, <1>3, <1>4, <1>5, <1>6, <1>7, <1>8, <1>9, <1>10, <1>11, <1>12
     DEF Next, Worker, Peer, Canceller, CancelGoesOn, Shutdown, ClaimLook, ClaimEnd,
         CancelFlag, StopFlag, StopInspect, CancelLookup, CancelToken, CancelReturns,
         ShutdownFlag, ShutdownDrop, vars, workerVars, taskVars, cancelVars, shutVars

\* What the shutdown has emptied stays empty.
LEMMA ShutInvStep == TypeOK /\ TypeOK' /\ Inv /\ [Next]_vars => ShutInv'
<1>. SUFFICES ASSUME TypeOK, TypeOK', Inv, [Next]_vars PROVE ShutInv'
  OBVIOUS
<1>. USE DEF Inv, ShutInv, DrainedStaysEmpty, EntryInv, TypeOK, RegistryTypes,
             ShutTypes, workerVars, taskVars, cancelVars, shutVars
<1>0. ASSUME UNCHANGED <<entry, shutDown, drained, taken>> PROVE ShutInv'
  BY <1>0
<1>1. ASSUME NEW t \in Tasks, ParkInsert(t) PROVE ShutInv'
  BY <1>1 DEF ParkInsert
<1>2. ASSUME NEW t \in Tasks, ParkCommit(t) PROVE ShutInv'
  BY <1>2 DEF ParkCommit, Commits
<1>3. ASSUME NEW t \in Tasks, ParkTakeBack(t) PROVE ShutInv'
  BY <1>3 DEF ParkTakeBack, Commits
<1>4. ASSUME NEW t \in Tasks, Wake(t) PROVE ShutInv'
  BY <1>4 DEF Wake, HandBack
<1>5. ASSUME ShutdownFlag PROVE ShutInv'
  BY <1>5 DEF ShutdownFlag
<1>6. ASSUME NEW t \in Tasks, ShutdownDrain(t) PROVE ShutInv'
  BY <1>6 DEF ShutdownDrain
<1>7. ASSUME NEW t \in Tasks, ShutdownDrop(t) PROVE ShutInv'
  BY <1>7 DEF ShutdownDrop
<1>. HIDE DEF Inv, ShutInv, DrainedStaysEmpty, EntryInv, TypeOK, RegistryTypes,
              ShutTypes
<1>. QED
  <2>1. ASSUME NEW t \in Tasks, Worker(t) PROVE ShutInv'
    <3>1. CASE Dispatch(t) \/ EndTask(t) \/ ParkBegin(t) \/ ParkReady(t) \/ ParkEnds(t)
                 \/ ParkQueues(t) \/ ParkRecheck(t)
      BY <1>0, <3>1
         DEF Dispatch, EndTask, ParkBegin, ParkReady, ParkEnds, ParkQueues, ParkRecheck
    <3>. QED
      BY <1>1, <1>2, <1>3, <2>1, <3>1 DEF Worker
  <2>2. ASSUME NEW p \in Peers, Peer(p) PROVE ShutInv'
    BY <1>0, <2>2, Zenon DEF Peer, ClaimLook, ClaimEnd
  <2>3. ASSUME NEW c \in Cancellers, Canceller(c) PROVE ShutInv'
    BY Zenon, <1>0, <2>3
       DEF Canceller, CancelGoesOn, CancelFlag, StopFlag, StopInspect, CancelLookup,
           CancelToken, CancelReturns
  <2>4. CASE UNCHANGED vars
    BY <1>0, <2>4 DEF vars
  <2>. QED
    BY <1>4, <1>5, <1>6, <1>7, <2>1, <2>2, <2>3, <2>4 DEF Next, Shutdown

\* A step moves a task from one place to one other.
LEMMA OnePlaceStep == TypeOK /\ TypeOK' /\ Inv /\ [Next]_vars => OnePlace'
<1>. SUFFICES ASSUME TypeOK, TypeOK', Inv, [Next]_vars PROVE OnePlace'
  OBVIOUS
<1>. USE DEF Inv, OnePlace, Places, One, EntryInv, ShutInv, DrainedStaysEmpty, TypeOK,
             TaskTypes, RegistryTypes, ShutTypes, workerVars, taskVars, cancelVars,
             shutVars
<1>0. ASSUME UNCHANGED <<pc, entry, taken, ready, ended>> PROVE OnePlace'
  BY <1>0
<1>1. ASSUME NEW t \in Tasks, Dispatch(t) PROVE OnePlace'
  <2>1. \A u \in Tasks : u # t => Places(u)' = Places(u)
    BY <1>1 DEF Dispatch
  <2>2. Places(t)' = Places(t)
    BY <1>1 DEF Dispatch
  <2>. QED
    BY <2>1, <2>2
<1>2. ASSUME NEW t \in Tasks, EndTask(t) PROVE OnePlace'
  <2>1. \A u \in Tasks : u # t => Places(u)' = Places(u)
    BY <1>2 DEF EndTask
  <2>2. Places(t)' = Places(t)
    BY <1>2 DEF EndTask
  <2>. QED
    BY <2>1, <2>2
<1>3. ASSUME NEW t \in Tasks, ParkBegin(t) PROVE OnePlace'
  <2>1. \A u \in Tasks : u # t => Places(u)' = Places(u)
    BY <1>3 DEF ParkBegin
  <2>2. Places(t)' = Places(t)
    BY <1>3 DEF ParkBegin
  <2>. QED
    BY <2>1, <2>2
<1>4. ASSUME NEW t \in Tasks, ParkReady(t) PROVE OnePlace'
  BY <1>4 DEF ParkReady
<1>5. ASSUME NEW t \in Tasks, ParkEnds(t) PROVE OnePlace'
  <2>1. \A u \in Tasks : u # t => Places(u)' = Places(u)
    BY <1>5 DEF ParkEnds
  <2>2. Places(t)' = Places(t)
    BY <1>5 DEF ParkEnds
  <2>. QED
    BY <2>1, <2>2
<1>6. ASSUME NEW t \in Tasks, ParkQueues(t) PROVE OnePlace'
  BY <1>6 DEF ParkQueues
<1>7. ASSUME NEW t \in Tasks, ParkInsert(t) PROVE OnePlace'
  <2>1. \A u \in Tasks : u # t => Places(u)' = Places(u)
    BY <1>7 DEF ParkInsert
  <2>2. Places(t)' = Places(t)
    BY <1>7 DEF ParkInsert
  <2>. QED
    BY <2>1, <2>2
<1>8. ASSUME NEW t \in Tasks, ParkRecheck(t) PROVE OnePlace'
  BY <1>8 DEF ParkRecheck, WakeIfParked
<1>9. ASSUME NEW t \in Tasks, ParkCommit(t) PROVE OnePlace'
  <2>1. \A u \in Tasks : u # t => Places(u)' = Places(u)
    BY <1>9 DEF ParkCommit, Commits
  <2>2. Places(t)' = Places(t)
    BY <1>9 DEF ParkCommit, Commits
  <2>. QED
    BY <2>1, <2>2
<1>10. ASSUME NEW t \in Tasks, ParkTakeBack(t) PROVE OnePlace'
  <2>1. \A u \in Tasks : u # t => Places(u)' = Places(u)
    BY <1>10 DEF ParkTakeBack, Commits
  <2>2. Places(t)' = Places(t)
    BY <1>10 DEF ParkTakeBack, Commits
  <2>. QED
    BY <2>1, <2>2
<1>11. ASSUME NEW t \in Tasks, Wake(t) PROVE OnePlace'
  <2>1. \A u \in Tasks : u # t => Places(u)' = Places(u)
    BY <1>11 DEF Wake, HandBack
  <2>2. Places(t)' = Places(t)
    BY <1>11 DEF Wake, HandBack
  <2>. QED
    BY <2>1, <2>2
<1>12. ASSUME NEW t \in Tasks, ShutdownDrain(t) PROVE OnePlace'
  BY <1>12 DEF ShutdownDrain
<1>13. ASSUME NEW t \in Tasks, ShutdownDrop(t) PROVE OnePlace'
  BY <1>13 DEF ShutdownDrop
<1>. HIDE DEF Inv, OnePlace, Places, One, EntryInv, ShutInv, DrainedStaysEmpty, TypeOK,
              TaskTypes, RegistryTypes, ShutTypes
<1>. QED
  BY ZenonT(20), <1>0, <1>1, <1>2, <1>3, <1>4, <1>5, <1>6, <1>7, <1>8, <1>9, <1>10, <1>11, <1>12,
     <1>13
     DEF Next, Worker, Peer, Canceller, CancelGoesOn, Shutdown, ClaimLook, ClaimEnd,
         CancelFlag, StopFlag, StopInspect, CancelLookup, CancelToken, CancelReturns,
         ShutdownFlag, vars, workerVars, taskVars, cancelVars, shutVars

\* Peers and cancellers hold tokens of waits that have begun.
LEMMA ActorInvStep == TypeOK /\ TypeOK' /\ Inv /\ [Next]_vars => ActorInv'
<1>. SUFFICES ASSUME TypeOK, TypeOK', Inv, [Next]_vars PROVE ActorInv'
  OBVIOUS
<1>. USE DEF Inv, ActorInv, TypeOK, TaskTypes, ActorTypes, workerVars, taskVars,
             cancelVars, shutVars
<1>0. ASSUME UNCHANGED <<look, hold, step, todo, wait>> PROVE ActorInv'
  BY <1>0
<1>1. ASSUME NEW t \in Tasks, ParkQueues(t) PROVE ActorInv'
  BY <1>1 DEF ParkQueues
<1>2. ASSUME NEW p \in Peers, NEW t \in Tasks, NEW n \in Waits, ClaimLook(p, t, n)
      PROVE  ActorInv'
  <2>1. UNCHANGED <<hold, step, todo, wait>>
    BY <1>2 DEF ClaimLook
  <2>2. \A q \in Peers : look'[q] \subseteq look[q] \cup {<<t, n>>}
    BY <1>2 DEF ClaimLook
  <2>3. n <= wait[t]
    BY <1>2, MaxWaitsIsNat DEF ClaimLook, IsWaiting, PastInv, Waits
  <2>. QED
    BY <2>1, <2>2, <2>3
<1>3. ASSUME NEW p \in Peers, NEW t \in Tasks, NEW n \in Waits,
             NEW how \in {"Fired", "Expired"}, ClaimEnd(p, t, n, how)
      PROVE  ActorInv'
  <2>1. UNCHANGED <<hold, step, todo, wait>>
    BY <1>3 DEF ClaimEnd
  <2>2. \A q \in Peers : look'[q] \subseteq look[q]
    BY <1>3 DEF ClaimEnd
  <2>. QED
    BY <2>1, <2>2
<1>4. ASSUME NEW c \in Cancellers, NEW t \in Tasks, CancelFlag(c, t) PROVE ActorInv'
  BY <1>4 DEF CancelFlag
<1>5. ASSUME NEW c \in Cancellers, StopFlag(c) PROVE ActorInv'
  BY <1>5 DEF StopFlag
<1>6. ASSUME NEW c \in Cancellers, StopInspect(c) PROVE ActorInv'
  BY <1>6 DEF StopInspect
<1>7. ASSUME NEW c \in Cancellers, NEW t \in Tasks, CancelLookup(c, t) PROVE ActorInv'
  BY <1>7 DEF CancelLookup
<1>8. ASSUME NEW c \in Cancellers, NEW t \in Tasks,
               NEW n \in Waits, CancelToken(c, t, n)
      PROVE  ActorInv'
  <2>1. UNCHANGED <<look, todo, wait>>
    BY <1>8 DEF CancelToken
  <2>2. /\ hold'[c] = {} /\ step'[c] = "each"
        /\ \A d \in Cancellers : d # c => hold'[d] = hold[d] /\ step'[d] = step[d]
    BY <1>8 DEF CancelToken
  <2>. QED
    BY <2>1, <2>2
<1>9. ASSUME NEW c \in Cancellers, CancelReturns(c) PROVE ActorInv'
  BY <1>9 DEF CancelReturns
<1>. HIDE DEF Inv, ActorInv, TypeOK, TaskTypes, ActorTypes
<1>. QED
  BY Zenon, <1>0, <1>1, <1>2, <1>3, <1>4, <1>5, <1>6, <1>7, <1>8, <1>9
     DEF Next, Worker, Peer, Canceller, CancelGoesOn, Shutdown, Dispatch, EndTask,
         ParkBegin, ParkReady, ParkEnds, ParkInsert, ParkRecheck, ParkCommit,
         ParkTakeBack, Wake, ShutdownFlag, ShutdownDrain, ShutdownDrop, vars,
         workerVars, taskVars, cancelVars, shutVars

-----------------------------------------------------------------------------
(* What a step may do to a task, and to the tokens of its waits.           *)

\* What OnePlace says of a task that a worker has in its hands, or that is
\* on the run queue: it is in no other place.
LEMMA PlaceFacts ==
    TypeOK /\ Inv => \A t \in Tasks :
        pc[t] \in {"running", "entering", "queued"} \/ ready[t] > 0
          => entry[t] = "none" /\ t \notin taken
  BY DEF TypeOK, TaskTypes, Inv, OnePlace, Places, One

-----------------------------------------------------------------------------
(* What the actions do to the tokens of the present waits.                 *)

\* The present token of t gets this state, those of the other tasks stay.
PresentBecomes(t, state) ==
    /\ \A u \in Tasks : u # t => Current(u)' = Current(u)
    /\ Current(t)' = state

\* A task that is being parked, that is parked, or that was taken by the
\* shutdown has begun a wait, and its token has a state.
LEMMA WaitBegun ==
    ASSUME TypeOK, Inv, NEW t \in Tasks, entry[t] # "none" \/ Parks(t) \/ t \in taken
    PROVE  wait[t] \in Waits /\ Current(t) \in TokenStates
<1>1. wait[t] > 0
  BY DEF Inv, PresentInv
<1>2. wait[t] \in Waits
  BY <1>1, MaxWaitsIsNat DEF TypeOK, TaskTypes, Waits
<1>. QED
  BY <1>2 DEF TypeOK, RegistryTypes, Current

\* Setting a token that exists changes the present one if it is that.
LEMMA TokenSet ==
    ASSUME TypeOK, NEW t \in Tasks, NEW n \in Waits, n <= wait[t],
           NEW state \in TokenStates, SetToken(t, n, state), wait' = wait
    PROVE  PresentBecomes(t, IF n = wait[t] THEN state ELSE Current(t))
<1>1. TokenBecomes(t, n, state)
  BY SetTokenFacts DEF TypeOK, RegistryTypes
<1>. QED
  BY <1>1, CurrentFacts DEF PresentBecomes

\* Setting the token of the latest wait sets the task's present token.
LEMMA PresentSet ==
    ASSUME TypeOK, NEW t \in Tasks, wait[t] \in Waits,
           NEW state \in TokenStates, SetToken(t, wait[t], state), wait' = wait
    PROVE  PresentBecomes(t, state)
<1>1. wait[t] <= wait[t]
  BY MaxWaitsIsNat DEF Waits
<1>2. PresentBecomes(t, IF wait[t] = wait[t] THEN state ELSE Current(t))
  BY <1>1, TokenSet
<1>. QED
  BY <1>2

\* No token is touched.
LEMMA TokensStay ==
    ASSUME NEW t \in Tasks, UNCHANGED <<token, wait>>
    PROVE  PresentBecomes(t, Current(t))
  BY DEF PresentBecomes, Current

\* A new wait begins, its token armed.
LEMMA ParkQueuesToken ==
    ASSUME TypeOK, NEW t \in Tasks, ParkQueues(t)
    PROVE  PresentBecomes(t, "Armed")
<1>1. wait[t] + 1 \in Waits
  BY MaxWaitsIsNat DEF ParkQueues, TypeOK, TaskTypes, Waits
<1>2. TokenBecomes(t, wait[t] + 1, "Armed")
  BY SetTokenFacts DEF TypeOK, RegistryTypes, TokenStates, ParkQueues
<1>3. /\ wait'[t] = wait[t] + 1
      /\ \A u \in Tasks : u # t => wait'[u] = wait[u]
  BY DEF ParkQueues, TypeOK, TaskTypes
<1>. QED
  BY <1>1, <1>2, <1>3 DEF PresentBecomes, TokenBecomes, Current

\* A wait that the shutdown refuses is abandoned.
LEMMA ParkInsertToken ==
    ASSUME TypeOK, Inv, NEW t \in Tasks, ParkInsert(t)
    PROVE  PresentBecomes(t, IF shutDown THEN Abandon(Current(t)) ELSE Current(t))
<1>1. wait' = wait
  BY DEF ParkInsert, workerVars
<1>2. CASE shutDown
  <2>1. wait[t] \in Waits /\ Current(t) \in TokenStates
    BY <1>2, WaitBegun DEF ParkInsert, Parks
  <2>2. Abandon(Current(t)) \in TokenStates
    BY <2>1 DEF Abandon, TokenStates
  <2>3. SetToken(t, wait[t], Abandon(Current(t)))
    BY <1>2 DEF ParkInsert
  <2>. QED
    BY <1>1, <1>2, <2>1, <2>2, <2>3, PresentSet
<1>3. CASE ~(shutDown)
  BY <1>1, <1>3, TokensStay DEF ParkInsert
<1>. QED
  BY <1>2, <1>3

\* A wait whose task is found cancelled or stopped is cancelled.
LEMMA ParkRecheckToken ==
    ASSUME TypeOK, Inv, NEW t \in Tasks, ParkRecheck(t)
    PROVE  PresentBecomes(t, IF refusing \/ flag[t] THEN Cancel(Current(t)) ELSE Current(t))
<1>1. wait' = wait
  BY DEF ParkRecheck, workerVars
<1>2. CASE refusing \/ flag[t]
  <2>1. wait[t] \in Waits /\ Current(t) \in TokenStates
    BY <1>2, WaitBegun DEF ParkRecheck, Parks
  <2>2. Cancel(Current(t)) \in TokenStates
    BY <2>1 DEF Cancel, TokenStates
  <2>3. SetToken(t, wait[t], Cancel(Current(t)))
    BY <1>2 DEF ParkRecheck
  <2>. QED
    BY <1>1, <1>2, <2>1, <2>2, <2>3, PresentSet
<1>3. CASE ~(refusing \/ flag[t])
  BY <1>1, <1>3, TokensStay DEF ParkRecheck
<1>. QED
  BY <1>2, <1>3

\* An open wait is committed.
LEMMA ParkCommitToken ==
    ASSUME TypeOK, Inv, NEW t \in Tasks, ParkCommit(t)
    PROVE  PresentBecomes(t, "Parked")
<1>1. wait' = wait
  BY DEF ParkCommit, workerVars
<1>2. wait[t] \in Waits /\ Current(t) \in TokenStates
  BY WaitBegun DEF ParkCommit, Parks
<1>3. "Parked" \in TokenStates
  BY <1>2 DEF TokenStates
<1>. QED
  BY <1>1, <1>2, <1>3, PresentSet DEF ParkCommit

\* The result of a wait that ended is taken with the entry.
LEMMA ParkTakeBackToken ==
    ASSUME TypeOK, Inv, NEW t \in Tasks, ParkTakeBack(t)
    PROVE  PresentBecomes(t, IF entry[t] # "none" THEN Take(Current(t)) ELSE Current(t))
<1>1. wait' = wait
  BY DEF ParkTakeBack, workerVars
<1>2. CASE entry[t] # "none"
  <2>1. wait[t] \in Waits /\ Current(t) \in TokenStates
    BY <1>2, WaitBegun DEF ParkTakeBack, Parks
  <2>2. Take(Current(t)) \in TokenStates
    BY <2>1 DEF Take, TokenStates
  <2>3. SetToken(t, wait[t], Take(Current(t)))
    BY <1>2 DEF ParkTakeBack
  <2>. QED
    BY <1>1, <1>2, <2>1, <2>2, <2>3, PresentSet
<1>3. CASE ~(entry[t] # "none")
  BY <1>1, <1>3, TokensStay DEF ParkTakeBack
<1>. QED
  BY <1>2, <1>3

\* So it is by a wake.
LEMMA WakeToken ==
    ASSUME TypeOK, Inv, NEW t \in Tasks, Wake(t)
    PROVE  PresentBecomes(t, IF entry[t] # "none" THEN Take(Current(t)) ELSE Current(t))
<1>1. wait' = wait
  BY DEF Wake, workerVars
<1>2. CASE entry[t] # "none"
  <2>1. wait[t] \in Waits /\ Current(t) \in TokenStates
    BY <1>2, WaitBegun DEF Wake
  <2>2. Take(Current(t)) \in TokenStates
    BY <2>1 DEF Take, TokenStates
  <2>3. SetToken(t, wait[t], Take(Current(t)))
    BY <1>2 DEF Wake
  <2>. QED
    BY <1>1, <1>2, <2>1, <2>2, <2>3, PresentSet
<1>3. CASE ~(entry[t] # "none")
  BY <1>1, <1>3, TokensStay DEF Wake
<1>. QED
  BY <1>2, <1>3

\* A task that the shutdown took drops its wait.
LEMMA ShutdownDropToken ==
    ASSUME TypeOK, Inv, NEW t \in Tasks, ShutdownDrop(t)
    PROVE  PresentBecomes(t, Abandon(Current(t)))
<1>1. wait' = wait
  BY DEF ShutdownDrop, workerVars
<1>2. wait[t] \in Waits /\ Current(t) \in TokenStates
  BY WaitBegun DEF ShutdownDrop
<1>3. Abandon(Current(t)) \in TokenStates
  BY <1>2 DEF Abandon, TokenStates
<1>. QED
  BY <1>1, <1>2, <1>3, PresentSet DEF ShutdownDrop

\* A peer ends the wait if it is open still.
LEMMA ClaimEndToken ==
    ASSUME TypeOK, Inv, NEW p \in Peers, NEW t \in Tasks, NEW n \in Waits,
           NEW how \in {"Fired", "Expired"}, ClaimEnd(p, t, n, how)
    PROVE  /\ n <= wait[t]
           /\ PresentBecomes(t, IF n = wait[t] /\ IsWaiting(Current(t)) THEN how
                                ELSE Current(t))
<1>1. n <= wait[t] /\ wait' = wait
  BY Zenon DEF Inv, ActorInv, ClaimEnd, workerVars
<1>2. n = wait[t] => token[t][n] = Current(t)
  BY DEF Current
<1>3. CASE IsWaiting(token[t][n])
  <2>1. SetToken(t, n, how)
    BY <1>3 DEF ClaimEnd
  <2>2. PresentBecomes(t, IF n = wait[t] THEN how ELSE Current(t))
    BY <1>1, <2>1, TokenSet DEF TokenStates
  <2>. QED
    BY <1>1, <1>2, <1>3, <2>2
<1>4. CASE ~IsWaiting(token[t][n])
  <2>1. PresentBecomes(t, Current(t))
    BY <1>1, <1>4, TokensStay DEF ClaimEnd
  <2>. QED
    BY <1>1, <1>2, <1>4, <2>1
<1>. QED
  BY <1>3, <1>4

\* So does a cancel.
LEMMA CancelTokenToken ==
    ASSUME TypeOK, Inv, NEW c \in Cancellers, NEW t \in Tasks, NEW n \in Waits,
           CancelToken(c, t, n)
    PROVE  /\ n <= wait[t]
           /\ PresentBecomes(t, IF n = wait[t] /\ IsWaiting(Current(t)) THEN "Cancelled"
                                ELSE Current(t))
<1>1. n <= wait[t] /\ wait' = wait
  BY DEF Inv, ActorInv, CancelToken, workerVars
<1>2. n = wait[t] => token[t][n] = Current(t)
  BY DEF Current
<1>3. Cancel(token[t][n]) \in TokenStates
  BY DEF TypeOK, RegistryTypes, TokenStates, Cancel
<1>4. PresentBecomes(t, IF n = wait[t] THEN Cancel(token[t][n]) ELSE Current(t))
  BY <1>1, <1>3, TokenSet DEF CancelToken
<1>. QED
  BY <1>1, <1>2, <1>4 DEF Cancel

-----------------------------------------------------------------------------
(* What a step may do to a task: to the place of its worker, its entry, its *)
(* wakes, the state of its present token, and what the shutdown has of it.  *)

Settled(t) == /\ entry'[t] = entry[t] /\ wakes'[t] = wakes[t] /\ wait'[t] = wait[t]
              /\ t \in drained' <=> t \in drained
              /\ t \in taken' <=> t \in taken

Unmoved(t) == Settled(t) /\ pc'[t] = pc[t] /\ Current(t)' = Current(t)

\* The task runs, enters a wait that does not begin, ends, or is taken off
\* the run queue.
Goes(t) ==
    /\ Settled(t) /\ Current(t)' = Current(t)
    /\ {pc[t], pc'[t]} \subseteq {"away", "running", "entering"}
    /\ entry[t] = "none" /\ t \notin taken

BeginsWait(t) ==
    /\ pc[t] = "entering" /\ pc'[t] = "queued"
    /\ wait'[t] = wait[t] + 1 /\ Current(t)' = "Armed"
    /\ entry[t] = "none" /\ entry'[t] = "none" /\ wakes'[t] = wakes[t]
    /\ t \in drained' <=> t \in drained
    /\ t \notin taken /\ t \notin taken'

Enrolled(t) ==
    /\ pc[t] = "queued" /\ pc'[t] = "inserted"
    /\ entry[t] = "none" /\ entry'[t] = "open"
    /\ wakes'[t] = wakes[t] /\ wait'[t] = wait[t] /\ Current(t)' = Current(t)
    /\ t \notin drained /\ t \notin drained'
    /\ t \in taken' <=> t \in taken

Refused(t) ==
    /\ Settled(t)
    /\ pc[t] = "queued" /\ pc'[t] = "away"
    /\ entry[t] = "none"
    /\ Current(t)' = Abandon(Current(t))

Rechecked(t) ==
    /\ Settled(t)
    /\ pc[t] = "inserted" /\ pc'[t] = "checked"
    /\ Current(t)' = IF refusing \/ flag[t] THEN Cancel(Current(t)) ELSE Current(t)

Committing(t) ==
    /\ pc[t] = "checked" /\ pc'[t] = "away"
    /\ IsWaiting(Current(t)) /\ Current(t)' = "Parked"
    /\ entry'[t] = IF entry[t] = "none" THEN "none" ELSE "committed"
    /\ wakes'[t] = wakes[t] /\ wait'[t] = wait[t]
    /\ t \in drained' <=> t \in drained
    /\ t \in taken' <=> t \in taken

TakenBack(t) ==
    /\ pc[t] = "checked" /\ pc'[t] \in {"away", "running"}
    /\ ~IsWaiting(Current(t))
    /\ Current(t)' = IF entry[t] # "none" THEN Take(Current(t)) ELSE Current(t)
    /\ entry'[t] = "none" /\ wakes'[t] = wakes[t] /\ wait'[t] = wait[t]
    /\ t \in drained' <=> t \in drained
    /\ t \in taken' <=> t \in taken

Woken(t) ==
    /\ wakes[t] > 0 /\ wakes'[t] = wakes[t] - 1
    /\ pc'[t] = pc[t] /\ wait'[t] = wait[t] /\ entry'[t] = "none"
    /\ Current(t)' = IF entry[t] # "none" THEN Take(Current(t)) ELSE Current(t)
    /\ t \in drained' <=> t \in drained
    /\ t \in taken' <=> t \in taken

WaitEnds(t) ==
    /\ wait[t] > 0 /\ IsWaiting(Current(t))
    /\ Current(t)' \in {"Fired", "Expired", "Cancelled"}
    /\ wakes'[t] = IF Current(t) = "Parked" THEN wakes[t] + 1 ELSE wakes[t]
    /\ pc'[t] = pc[t] /\ wait'[t] = wait[t] /\ entry'[t] = entry[t]
    /\ t \in drained' <=> t \in drained
    /\ t \in taken' <=> t \in taken

Emptied(t) ==
    /\ t \notin drained /\ t \in drained'
    /\ t \in taken' <=> t \in taken \/ entry[t] # "none"
    /\ entry'[t] = "none" /\ wakes'[t] = wakes[t]
    /\ pc'[t] = pc[t] /\ wait'[t] = wait[t] /\ Current(t)' = Current(t)

Dropped(t) ==
    /\ t \in taken /\ t \notin taken'
    /\ Current(t)' = Abandon(Current(t))
    /\ pc'[t] = pc[t] /\ wait'[t] = wait[t] /\ entry'[t] = entry[t]
    /\ wakes'[t] = wakes[t]
    /\ t \in drained' <=> t \in drained

Moved(t) ==
    \/ Goes(t) \/ BeginsWait(t) \/ Enrolled(t) \/ Refused(t) \/ Rechecked(t)
    \/ Committing(t) \/ TakenBack(t) \/ Woken(t) \/ WaitEnds(t) \/ Emptied(t)
    \/ Dropped(t)

\* A step moves one task at most.
Moves(t) == /\ Unmoved(t) \/ Moved(t)
            /\ \A u \in Tasks : u # t => Unmoved(u)

\* A worker moves its task and no other.
LEMMA WorkerMoves ==
    ASSUME TypeOK, Inv, NEW t \in Tasks, Worker(t)
    PROVE  Moves(t)
<1>. USE DEF shutVars
<1>1. CASE Dispatch(t) \/ EndTask(t) \/ ParkBegin(t) \/ ParkReady(t) \/ ParkEnds(t)
  <2>1. UNCHANGED <<entry, wakes, wait, token, drained, taken>>
    BY <1>1 DEF Dispatch, EndTask, ParkBegin, ParkReady, ParkEnds
  <2>2. \A u \in Tasks : Settled(u) /\ Current(u)' = Current(u)
    BY <2>1 DEF Settled, Current
  <2>3. \A u \in Tasks : u # t => pc'[u] = pc[u]
    BY <1>1 DEF Dispatch, EndTask, ParkBegin, ParkReady, ParkEnds, TypeOK, TaskTypes
  <2>4. {pc[t], pc'[t]} \subseteq {"away", "running", "entering"}
    BY <1>1 DEF Dispatch, EndTask, ParkBegin, ParkReady, ParkEnds, TypeOK, TaskTypes
  <2>5. entry[t] = "none" /\ t \notin taken
    BY <1>1, PlaceFacts, Zenon DEF Dispatch, EndTask, ParkBegin, ParkReady, ParkEnds
  <2>6. Moved(t)
    BY <2>2, <2>4, <2>5, Zenon DEF Moved, Goes
  <2>. QED
    BY <2>2, <2>3, <2>6 DEF Moves, Unmoved
<1>2. CASE ParkQueues(t)
  <2>1. PresentBecomes(t, "Armed")
    BY <1>2, ParkQueuesToken
  <2>2. UNCHANGED <<entry, wakes, drained, taken>>
    BY <1>2 DEF ParkQueues
  <2>3. pc[t] = "entering" /\ pc'[t] = "queued" /\ wait'[t] = wait[t] + 1
    BY <1>2 DEF ParkQueues, TypeOK, TaskTypes
  <2>4. \A u \in Tasks : u # t => pc'[u] = pc[u] /\ wait'[u] = wait[u]
    BY <1>2 DEF ParkQueues, TypeOK, TaskTypes
  <2>5. entry[t] = "none" /\ t \notin taken
    BY <2>3, PlaceFacts
  <2>6. Moved(t)
    BY <2>1, <2>2, <2>3, <2>5, Zenon DEF Moved, BeginsWait, PresentBecomes
  <2>. QED
    BY <2>1, <2>2, <2>4, <2>6, Zenon DEF Moves, Unmoved, Settled, PresentBecomes
<1>3. CASE ParkInsert(t)
  <2>1. PresentBecomes(t, IF shutDown THEN Abandon(Current(t)) ELSE Current(t))
    BY <1>3, ParkInsertToken
  <2>2. UNCHANGED <<wakes, wait, drained, taken>>
    BY <1>3 DEF ParkInsert
  <2>3. \A u \in Tasks : u # t => pc'[u] = pc[u] /\ entry'[u] = entry[u]
    BY <1>3 DEF ParkInsert, TypeOK, TaskTypes, RegistryTypes
  <2>4. pc[t] = "queued" /\ entry[t] = "none"
    BY <1>3, PlaceFacts, Zenon DEF ParkInsert
  <2>5. Moved(t)
    <3>1. CASE shutDown
      <4>1. pc'[t] = "away" /\ entry' = entry
        BY <1>3, <3>1 DEF ParkInsert, TypeOK, TaskTypes
      <4>. QED
        BY <2>1, <2>2, <2>4, <3>1, <4>1, Zenon DEF Moved, Refused, Settled, PresentBecomes
    <3>2. CASE ~shutDown
      <4>1. pc'[t] = "inserted" /\ entry'[t] = "open"
        BY <1>3, <3>2 DEF ParkInsert, TypeOK, TaskTypes, RegistryTypes
      <4>2. drained = {}
        BY <3>2 DEF Inv, ShutInv
      <4>. QED
        BY <2>1, <2>2, <2>4, <3>2, <4>1, <4>2, Zenon DEF Moved, Enrolled, PresentBecomes
    <3>. QED
      BY <3>1, <3>2
  <2>. QED
    BY <2>1, <2>2, <2>3, <2>5, Zenon DEF Moves, Unmoved, Settled, PresentBecomes
<1>4. CASE ParkRecheck(t)
  <2>1. PresentBecomes(t, IF refusing \/ flag[t] THEN Cancel(Current(t)) ELSE Current(t))
    BY <1>4, ParkRecheckToken
  <2>2. UNCHANGED <<entry, wait, drained, taken>>
    BY <1>4, Zenon DEF ParkRecheck
  <2>3. pc[t] = "inserted" /\ pc'[t] = "checked"
    BY <1>4 DEF ParkRecheck, TypeOK, TaskTypes
  <2>4. \A u \in Tasks : u # t => pc'[u] = pc[u]
    BY <1>4 DEF ParkRecheck, TypeOK, TaskTypes
  <2>5. Current(t) # "Parked"
    BY <2>3 DEF Inv, PresentInv, Parks
  <2>6. wakes' = wakes
    BY <1>4, <2>5 DEF ParkRecheck, WakeIfParked
  <2>7. Moved(t)
    BY <2>1, <2>2, <2>3, <2>6, Zenon DEF Moved, Rechecked, Settled, PresentBecomes
  <2>. QED
    BY <2>1, <2>2, <2>4, <2>6, <2>7, Zenon DEF Moves, Unmoved, Settled, PresentBecomes
<1>5. CASE ParkCommit(t)
  <2>1. PresentBecomes(t, "Parked")
    BY <1>5, ParkCommitToken
  <2>2. UNCHANGED <<wakes, wait, drained, taken>>
    BY <1>5 DEF ParkCommit
  <2>3. pc[t] = "checked" /\ pc'[t] = "away" /\ IsWaiting(Current(t))
    BY <1>5 DEF ParkCommit, Commits, TypeOK, TaskTypes
  <2>4. entry'[t] = IF entry[t] = "none" THEN "none" ELSE "committed"
    BY <1>5 DEF ParkCommit, TypeOK, RegistryTypes
  <2>5. \A u \in Tasks : u # t => pc'[u] = pc[u] /\ entry'[u] = entry[u]
    BY <1>5 DEF ParkCommit, TypeOK, TaskTypes, RegistryTypes
  <2>6. Moved(t)
    BY <2>1, <2>2, <2>3, <2>4, Zenon DEF Moved, Committing, PresentBecomes
  <2>. QED
    BY <2>1, <2>2, <2>5, <2>6, Zenon DEF Moves, Unmoved, Settled, PresentBecomes
<1>6. CASE ParkTakeBack(t)
  <2>1. PresentBecomes(t, IF entry[t] # "none" THEN Take(Current(t)) ELSE Current(t))
    BY <1>6, ParkTakeBackToken
  <2>2. UNCHANGED <<wakes, wait, drained, taken>>
    BY <1>6 DEF ParkTakeBack
  <2>3. pc[t] = "checked" /\ ~IsWaiting(Current(t))
    BY <1>6 DEF ParkTakeBack, Commits
  <2>4. pc'[t] \in {"away", "running"} /\ entry'[t] = "none"
    BY <1>6 DEF ParkTakeBack, TypeOK, TaskTypes, RegistryTypes
  <2>5. \A u \in Tasks : u # t => pc'[u] = pc[u] /\ entry'[u] = entry[u]
    BY <1>6 DEF ParkTakeBack, TypeOK, TaskTypes, RegistryTypes
  <2>6. Moved(t)
    BY <2>1, <2>2, <2>3, <2>4, Zenon DEF Moved, TakenBack, PresentBecomes
  <2>. QED
    BY <2>1, <2>2, <2>5, <2>6, Zenon DEF Moves, Unmoved, Settled, PresentBecomes
<1>. QED
  BY <1>1, <1>2, <1>3, <1>4, <1>5, <1>6 DEF Worker

\* A wake moves the task it is for.
LEMMA WakeMoves ==
    ASSUME TypeOK, Inv, NEW t \in Tasks, Wake(t)
    PROVE  Moves(t)
<1>1. PresentBecomes(t, IF entry[t] # "none" THEN Take(Current(t)) ELSE Current(t))
  BY WakeToken
<1>2. UNCHANGED <<pc, wait, drained, taken>>
  BY DEF Wake, workerVars, shutVars
<1>3. wakes[t] > 0 /\ wakes'[t] = wakes[t] - 1 /\ entry'[t] = "none"
  BY DEF Wake, TypeOK, RegistryTypes
<1>4. \A u \in Tasks : u # t => wakes'[u] = wakes[u] /\ entry'[u] = entry[u]
  BY DEF Wake, TypeOK, RegistryTypes
<1>5. Moved(t)
  BY <1>1, <1>2, <1>3, Zenon DEF Moved, Woken, PresentBecomes
<1>. QED
  BY <1>1, <1>2, <1>4, <1>5, Zenon DEF Moves, Unmoved, Settled, PresentBecomes

\* Whoever changes the token of a wait, with the wake that goes with it, ends
\* the task's present wait or nothing.
LEMMA TokenMoves ==
    ASSUME TypeOK, Inv, NEW t \in Tasks, NEW n \in Waits, n <= wait[t],
           NEW how \in {"Fired", "Expired", "Cancelled"},
           PresentBecomes(t, IF n = wait[t] /\ IsWaiting(Current(t)) THEN how
                             ELSE Current(t)),
           IF IsWaiting(token[t][n]) THEN WakeIfParked(t, token[t][n])
           ELSE UNCHANGED wakes,
           UNCHANGED <<pc, entry, wait, drained, taken>>
    PROVE  Moves(t)
<1>1. /\ n = wait[t] => token[t][n] = Current(t)
      /\ n # wait[t] => ~IsWaiting(token[t][n])
  BY EarlierWaitEnded, Zenon DEF Ended, IsWaiting
<1>2. \A u \in Tasks : u # t => wakes'[u] = wakes[u]
  BY DEF WakeIfParked, TypeOK, RegistryTypes
<1>3. \A u \in Tasks : u # t => Unmoved(u)
  BY <1>2, Zenon DEF Unmoved, Settled, PresentBecomes
<1>4. CASE n = wait[t] /\ IsWaiting(Current(t))
  <2>1. wakes'[t] = IF Current(t) = "Parked" THEN wakes[t] + 1 ELSE wakes[t]
    BY <1>1, <1>4 DEF WakeIfParked, TypeOK, RegistryTypes
  <2>2. Current(t)' = how
    BY <1>4, Zenon DEF PresentBecomes
  <2>3. wait[t] > 0
    BY <1>4, MaxWaitsIsNat DEF Waits
  <2>4. WaitEnds(t)
    BY <1>4, <2>1, <2>2, <2>3, Zenon DEF WaitEnds
  <2>. QED
    BY <1>3, <2>4, Zenon DEF Moves, Moved
<1>5. CASE ~(n = wait[t] /\ IsWaiting(Current(t)))
  <2>1. wakes' = wakes
    BY <1>1, <1>5
  <2>2. Current(t)' = Current(t)
    BY <1>5, Zenon DEF PresentBecomes
  <2>3. Unmoved(t)
    BY <2>1, <2>2 DEF Unmoved, Settled
  <2>. QED
    BY <1>3, <2>3, Zenon DEF Moves
<1>. QED
  BY <1>4, <1>5, Zenon

\* The shutdown moves the task whose entry it takes or drops.
LEMMA ShutdownMoves ==
    ASSUME TypeOK, Inv, NEW t \in Tasks, ShutdownDrain(t) \/ ShutdownDrop(t)
    PROVE  Moves(t)
<1>1. CASE ShutdownDrain(t)
  <2>1. UNCHANGED <<pc, wait, wakes, token>>
    BY <1>1 DEF ShutdownDrain, workerVars
  <2>2. \A u \in Tasks : Current(u)' = Current(u)
    BY <2>1 DEF Current
  <2>3. \A u \in Tasks : u # t =>
          /\ entry'[u] = entry[u]
          /\ u \in drained' <=> u \in drained
          /\ u \in taken' <=> u \in taken
    BY <1>1 DEF ShutdownDrain, TypeOK, RegistryTypes
  <2>4. /\ entry'[t] = "none" /\ t \notin drained /\ t \in drained'
        /\ t \in taken' <=> t \in taken \/ entry[t] # "none"
    BY <1>1 DEF ShutdownDrain, TypeOK, RegistryTypes
  <2>5. Moved(t)
    BY <2>1, <2>2, <2>4, Zenon DEF Moved, Emptied
  <2>. QED
    BY <2>1, <2>2, <2>3, <2>5, Zenon DEF Moves, Unmoved, Settled
<1>2. CASE ShutdownDrop(t)
  <2>1. UNCHANGED <<pc, wait, wakes, entry, drained>>
    BY <1>2 DEF ShutdownDrop, workerVars
  <2>2. PresentBecomes(t, Abandon(Current(t)))
    BY <1>2, ShutdownDropToken
  <2>3. t \in taken /\ taken' = taken \ {t}
    BY <1>2 DEF ShutdownDrop
  <2>4. Moved(t)
    BY <2>1, <2>2, <2>3, Zenon DEF Moved, Dropped, PresentBecomes
  <2>. QED
    BY <2>1, <2>2, <2>3, <2>4, Zenon DEF Moves, Unmoved, Settled, PresentBecomes
<1>. QED
  BY <1>1, <1>2

\* Every task is left alone by a step, or moves as the table says.
LEMMA TaskStep ==
    ASSUME TypeOK, Inv, [Next]_vars
    PROVE  \A t \in Tasks : Unmoved(t) \/ Moved(t)
<1>0. ASSUME UNCHANGED <<pc, entry, wakes, wait, token, drained, taken>>
      PROVE  \A t \in Tasks : Unmoved(t)
  BY <1>0 DEF Unmoved, Settled, Current
<1>1. ASSUME NEW t \in Tasks, Moves(t) PROVE \A u \in Tasks : Unmoved(u) \/ Moved(u)
  BY <1>1 DEF Moves
<1>2. ASSUME NEW t \in Tasks, Worker(t) \/ Wake(t)
      PROVE  \A u \in Tasks : Unmoved(u) \/ Moved(u)
  BY <1>1, <1>2, WorkerMoves, WakeMoves
<1>3. ASSUME NEW p \in Peers, NEW t \in Tasks, NEW n \in Waits, ClaimLook(p, t, n)
      PROVE  \A u \in Tasks : Unmoved(u) \/ Moved(u)
  BY <1>0, <1>3, Zenon DEF ClaimLook, workerVars, shutVars
<1>4. ASSUME NEW p \in Peers, NEW t \in Tasks, NEW n \in Waits,
             NEW how \in {"Fired", "Expired"}, ClaimEnd(p, t, n, how)
      PROVE  \A u \in Tasks : Unmoved(u) \/ Moved(u)
  <2>1. /\ n <= wait[t]
        /\ PresentBecomes(t, IF n = wait[t] /\ IsWaiting(Current(t)) THEN how
                             ELSE Current(t))
    BY <1>4, ClaimEndToken
  <2>2. /\ IF IsWaiting(token[t][n]) THEN WakeIfParked(t, token[t][n])
           ELSE UNCHANGED wakes
        /\ UNCHANGED <<pc, entry, wait, drained, taken>>
    BY <1>4 DEF ClaimEnd, workerVars, shutVars
  <2>3. how \in {"Fired", "Expired", "Cancelled"}
    OBVIOUS
  <2>4. Moves(t)
    BY <2>1, <2>2, <2>3, TokenMoves, Zenon
  <2>. QED
    BY <1>1, <2>4
<1>5. ASSUME NEW c \in Cancellers, NEW t \in Tasks, NEW n \in Waits, CancelToken(c, t, n)
      PROVE  \A u \in Tasks : Unmoved(u) \/ Moved(u)
  <2>1. /\ n <= wait[t]
        /\ PresentBecomes(t, IF n = wait[t] /\ IsWaiting(Current(t)) THEN "Cancelled"
                             ELSE Current(t))
    BY <1>5, CancelTokenToken
  <2>2. UNCHANGED <<pc, entry, wait, drained, taken>>
    BY <1>5 DEF CancelToken, workerVars, shutVars
  <2>3. WakeIfParked(t, token[t][n])
    BY <1>5 DEF CancelToken
  <2>4. IF IsWaiting(token[t][n]) THEN WakeIfParked(t, token[t][n]) ELSE UNCHANGED wakes
    BY <2>3 DEF WakeIfParked, IsWaiting
  <2>5. Moves(t)
    BY <2>1, <2>2, <2>4, TokenMoves, Zenon
  <2>. QED
    BY <1>1, <2>5
<1>6. ASSUME NEW c \in Cancellers, Canceller(c),
             ~\E t \in Tasks, n \in Waits : CancelToken(c, t, n)
      PROVE  \A u \in Tasks : Unmoved(u) \/ Moved(u)
  <2>1. UNCHANGED <<pc, entry, wakes, wait, token, drained, taken>>
    BY Zenon, <1>6
       DEF Canceller, CancelGoesOn, CancelFlag, StopFlag, StopInspect, CancelLookup,
           CancelReturns, workerVars, shutVars
  <2>. QED
    BY <1>0, <2>1
<1>7. ASSUME Shutdown PROVE \A u \in Tasks : Unmoved(u) \/ Moved(u)
  <2>1. CASE ShutdownFlag
    BY <1>0, <2>1 DEF ShutdownFlag, workerVars
  <2>2. ASSUME NEW t \in Tasks, ShutdownDrain(t) \/ ShutdownDrop(t)
        PROVE  \A u \in Tasks : Unmoved(u) \/ Moved(u)
    BY <1>1, <2>2, ShutdownMoves
  <2>. QED
    BY <1>7, <2>1, <2>2 DEF Shutdown
<1>8. CASE UNCHANGED vars
  BY <1>0, <1>8 DEF vars, workerVars, shutVars
<1>. QED
  BY <1>2, <1>3, <1>4, <1>5, <1>6, <1>7, <1>8 DEF Next, Peer

-----------------------------------------------------------------------------
(* What a step preserves.                                                  *)

\* No step changes the token of another wait than the latest.
LEMMA TokensKept ==
    ASSUME TypeOK, Inv, [Next]_vars
    PROVE  \A t \in Tasks, n \in Waits : n # wait'[t] => token'[t][n] = token[t][n]
<1>. DEFINE Kept == \A t \in Tasks, n \in Waits : n # wait'[t] => token'[t][n] = token[t][n]
<1>0. ASSUME UNCHANGED token PROVE Kept
  BY <1>0
<1>1. ASSUME NEW t \in Tasks, NEW n, NEW state, SetToken(t, n, state),
             n = wait'[t] \/ token[t][n] = state
      PROVE  Kept
  BY <1>1 DEF SetToken, TypeOK, RegistryTypes
<1>2. ASSUME NEW t \in Tasks, Worker(t) PROVE Kept
  <2>1. CASE ParkQueues(t)
    <3>1. wait'[t] = wait[t] + 1
      BY <2>1 DEF ParkQueues, TypeOK, TaskTypes
    <3>. QED
      BY <1>1, <2>1, <3>1, Zenon DEF ParkQueues
  <2>2. CASE ParkInsert(t)
    BY <1>0, <1>1, <2>2, Zenon DEF ParkInsert
  <2>3. CASE ParkRecheck(t)
    BY <1>0, <1>1, <2>3, Zenon DEF ParkRecheck
  <2>4. CASE ParkCommit(t)
    BY <1>1, <2>4 DEF ParkCommit
  <2>5. CASE ParkTakeBack(t)
    BY <1>0, <1>1, <2>5, ZenonT(20) DEF ParkTakeBack
  <2>6. CASE Dispatch(t) \/ EndTask(t) \/ ParkBegin(t) \/ ParkReady(t) \/ ParkEnds(t)
    BY <1>0, <2>6, Zenon DEF Dispatch, EndTask, ParkBegin, ParkReady, ParkEnds
  <2>. QED
    BY <1>2, <2>1, <2>2, <2>3, <2>4, <2>5, <2>6, ZenonT(20) DEF Worker
<1>3. ASSUME NEW t \in Tasks, Wake(t) PROVE Kept
  BY <1>0, <1>1, <1>3, Zenon DEF Wake, workerVars
<1>4. ASSUME NEW p \in Peers, Peer(p) PROVE Kept
  <2>1. ASSUME NEW t \in Tasks, NEW n \in Waits, ClaimLook(p, t, n) PROVE Kept
    BY <1>0, <2>1, Zenon DEF ClaimLook
  <2>2. ASSUME NEW t \in Tasks, NEW n \in Waits, NEW how \in {"Fired", "Expired"},
               ClaimEnd(p, t, n, how)
        PROVE  Kept
    <3>1. n <= wait[t] /\ wait' = wait
      BY <2>2, ClaimEndToken, Zenon DEF ClaimEnd, workerVars
    <3>2. n # wait[t] => ~IsWaiting(token[t][n])
      BY <3>1, EarlierWaitEnded DEF Ended, IsWaiting
    <3>. QED
      BY <1>0, <1>1, <2>2, <3>1, <3>2, ZenonT(20) DEF ClaimEnd
  <2>. QED
    BY <1>4, <2>1, <2>2, Zenon DEF Peer
<1>5. ASSUME NEW c \in Cancellers, Canceller(c) PROVE Kept
  <2>1. ASSUME NEW t \in Tasks, NEW n \in Waits, CancelToken(c, t, n) PROVE Kept
    <3>1. n <= wait[t] /\ wait' = wait
      BY <2>1, CancelTokenToken, Zenon DEF CancelToken, workerVars
    <3>2. n # wait[t] => Cancel(token[t][n]) = token[t][n]
      BY <3>1, EarlierWaitEnded DEF Ended, IsWaiting, Cancel
    <3>3. SetToken(t, n, Cancel(token[t][n]))
      BY <2>1 DEF CancelToken
    <3>. QED
      BY <1>1, <3>1, <3>2, <3>3
  <2>2. CASE ~\E t \in Tasks, n \in Waits : CancelToken(c, t, n)
    BY Zenon, <1>0, <1>5, <2>2
       DEF Canceller, CancelGoesOn, CancelFlag, StopFlag, StopInspect, CancelLookup,
           CancelReturns
  <2>. QED
    BY <2>1, <2>2, Zenon
<1>6. CASE Shutdown
  <2>1. ASSUME NEW t \in Tasks, ShutdownDrop(t) PROVE Kept
    BY <1>1, <2>1, Zenon DEF ShutdownDrop, workerVars
  <2>2. CASE ~\E t \in Tasks : ShutdownDrop(t)
    BY <1>0, <1>6, <2>2, Zenon DEF Shutdown, ShutdownFlag, ShutdownDrain
  <2>. QED
    BY <2>1, <2>2
<1>7. CASE UNCHANGED vars
  BY <1>0, <1>7 DEF vars
<1>. QED
  BY <1>2, <1>3, <1>4, <1>5, <1>6, <1>7, Zenon DEF Next

\* Nothing touches the token of another wait than the present one.
LEMMA PastInvStep == TypeOK /\ TypeOK' /\ Inv /\ [Next]_vars => PastInv'
<1>. SUFFICES ASSUME TypeOK, Inv, [Next]_vars, NEW t \in Tasks, NEW n \in Waits
              PROVE  /\ n < wait'[t] => Ended(token'[t][n])
                     /\ n > wait'[t] => token'[t][n] = "Unborn"
  BY DEF PastInv
<1>1. n # wait'[t] => token'[t][n] = token[t][n]
  BY TokensKept
<1>2. n \in Nat /\ n > 0 /\ wait[t] \in Nat
  BY MaxWaitsIsNat DEF TypeOK, TaskTypes, Waits
<1>3. /\ n < wait[t] => Ended(token[t][n])
      /\ n > wait[t] => token[t][n] = "Unborn"
  BY DEF Inv, PastInv
<1>4. CASE wait'[t] = wait[t]
  BY <1>1, <1>2, <1>3, <1>4
<1>5. CASE BeginsWait(t)
  <2>1. wait'[t] = wait[t] + 1 /\ pc[t] = "entering" /\ entry[t] = "none" /\ t \notin taken
    BY <1>5 DEF BeginsWait
  <2>2. wait[t] > 0 => Ended(Current(t))
    BY <2>1 DEF Inv, PresentInv
  <2>3. n = wait[t] => Ended(token[t][n])
    BY <1>2, <2>2 DEF Current
  <2>. QED
    BY <1>1, <1>2, <1>3, <2>1, <2>3
<1>6. wait'[t] = wait[t] \/ BeginsWait(t)
  BY Zenon, TaskStep
     DEF Unmoved, Settled, Moved, Goes, Enrolled, Refused, Rechecked, Committing, TakenBack,
         Woken, WaitEnds, Emptied, Dropped
<1>. QED
  BY <1>4, <1>5, <1>6

\* What the invariant says of the registry's side of one task.
TaskAt(t) ==
    /\ entry[t] \in {"none", "open", "committed"}
    /\ wakes[t] \in Nat /\ wait[t] \in Nat
    /\ entry[t] = "open" => pc[t] \in {"inserted", "checked"}
    /\ entry[t] = "committed" => pc[t] = "away"
    /\ pc[t] \in {"inserted", "checked"} => entry[t] = "open" \/ t \in drained
    /\ t \in taken => t \in drained
    /\ t \in drained => entry[t] = "none"
    /\ entry[t] = "committed" =>
         \/ Current(t) = "Parked" /\ wakes[t] = 0
         \/ Current(t) \in {"Fired", "Cancelled", "Expired"} /\ wakes[t] = 1
    /\ wakes[t] > 0 => entry[t] = "committed" \/ t \in drained

\* It follows for each task.
LEMMA TaskFacts == ASSUME TypeOK, Inv, NEW t \in Tasks PROVE TaskAt(t)
<1>1. entry[t] \in {"none", "open", "committed"} /\ wakes[t] \in Nat /\ wait[t] \in Nat
  BY MaxWaitsIsNat DEF TypeOK, TaskTypes, RegistryTypes
<1>2. /\ entry[t] = "open" => pc[t] \in {"inserted", "checked"}
      /\ entry[t] = "committed" => pc[t] = "away"
      /\ pc[t] \in {"inserted", "checked"} => entry[t] = "open" \/ t \in drained
  BY Zenon DEF Inv, EntryInv
<1>3. t \in taken => t \in drained
  BY DEF Inv, ShutInv
<1>4. t \in drained => entry[t] = "none"
  BY DEF Inv, ShutInv, DrainedStaysEmpty
<1>5. entry[t] = "committed" =>
        \/ Current(t) = "Parked" /\ wakes[t] = 0
        \/ Current(t) \in {"Fired", "Cancelled", "Expired"} /\ wakes[t] = 1
  BY Zenon DEF Inv, WakeInv, WakeIsComing
<1>6. wakes[t] > 0 => entry[t] = "committed" \/ t \in drained
  BY Zenon DEF Inv, WakeInv, StrayWakeIsShutdown
<1>. QED
  BY <1>1, <1>2, <1>3, <1>4, <1>5, <1>6, Zenon DEF TaskAt

\* What PresentInv says of one task.
PresentAt(t) ==
    /\ entry[t] # "none" \/ Parks(t) \/ t \in taken => wait[t] > 0
    /\ wait[t] > 0 => IsWaiting(Current(t)) \/ Ended(Current(t))
    /\ wait[t] > 0 /\ IsWaiting(Current(t)) =>
         pc[t] = "queued" \/ entry[t] # "none" \/ t \in taken
    /\ Parks(t) => Current(t) \in {"Armed", "Fired", "Cancelled", "Expired"}
    /\ entry[t] = "committed" => Current(t) # "Armed" /\ Current(t) # "Taken"

\* The present token goes with the place of the task.
LEMMA PresentInvStep == TypeOK /\ TypeOK' /\ Inv /\ [Next]_vars => PresentInv'
<1>. SUFFICES ASSUME TypeOK, TypeOK', Inv, [Next]_vars, NEW t \in Tasks
              PROVE  PresentAt(t)'
  BY Zenon DEF PresentInv, PresentAt
<1>0. PresentAt(t)
  BY Zenon DEF Inv, PresentInv, PresentAt
<1>a. TaskAt(t)
  BY TaskFacts
<1>b. wait[t] + 1 > 0
  BY MaxWaitsIsNat DEF TypeOK, TaskTypes
<1>c. Woken(t) /\ entry[t] # "none" => Current(t) \in {"Fired", "Cancelled", "Expired"}
  <2>1. Woken(t) => wakes[t] # 0
    BY DEF Woken, TypeOK, RegistryTypes
  <2>2. Woken(t) /\ entry[t] # "none" => entry[t] = "committed"
    BY <1>a DEF Woken, TaskAt
  <2>. QED
    BY <1>a, <2>1, <2>2 DEF TaskAt
<1>. USE <1>0, <1>a DEF PresentAt, TaskAt, Parks, IsWaiting, Ended
<1>1. CASE Unmoved(t)
  BY <1>1, Zenon DEF Unmoved, Settled
<1>2. CASE Goes(t)
  BY <1>2, Zenon DEF Goes, Settled
<1>3. CASE BeginsWait(t)
  <2>1. /\ pc'[t] = "queued" /\ Current(t)' = "Armed" /\ entry'[t] = "none"
        /\ t \notin taken' /\ wait'[t] = wait[t] + 1
    BY <1>3, Zenon DEF BeginsWait
  <2>2. wait'[t] > 0
    BY <1>b, <2>1
  <2>. QED
    BY <2>1, <2>2, Zenon
<1>4. CASE Enrolled(t)
  BY <1>4 DEF Enrolled
<1>5. CASE Refused(t)
  BY <1>5, Zenon DEF Refused, Settled, Abandon
<1>6. CASE Rechecked(t)
  BY <1>6, Zenon DEF Rechecked, Settled, Cancel
<1>7. CASE Committing(t)
  BY <1>7, Zenon DEF Committing
<1>8. CASE TakenBack(t)
  BY <1>8, Zenon DEF TakenBack, Take
<1>9. CASE Woken(t)
  <2>2. /\ pc'[t] = pc[t] /\ wait'[t] = wait[t] /\ entry'[t] = "none"
        /\ Current(t)' = IF entry[t] # "none" THEN Take(Current(t)) ELSE Current(t)
        /\ t \in taken' <=> t \in taken
    BY <1>9, Zenon DEF Woken
  <2>3. CASE entry[t] = "none"
    BY <2>2, <2>3, Zenon
  <2>4. CASE entry[t] # "none"
    <3>1. Current(t)' \in {"Taken", "Cancelled", "Expired"}
      BY <1>9, <1>c, <2>2, <2>4, ZenonT(20) DEF Take
    <3>2. pc[t] = "away" /\ t \notin taken
      BY <1>9, <2>4, Zenon DEF Woken
    <3>. QED
      BY <2>2, <2>4, <3>1, <3>2, ZenonT(20)
  <2>. QED
    BY <2>3, <2>4, Zenon
<1>10. CASE WaitEnds(t)
  BY <1>10, Zenon DEF WaitEnds
<1>11. CASE Emptied(t)
  BY <1>11, Zenon DEF Emptied
<1>12. CASE Dropped(t)
  BY <1>12 DEF Dropped, Abandon
<1>. QED
  BY Zenon, <1>1, <1>2, <1>3, <1>4, <1>5, <1>6, <1>7, <1>8, <1>9, <1>10, <1>11, <1>12, TaskStep
     DEF Moved

\* What WakeInv says of one task.
WakeAt(t) ==
    /\ entry[t] = "committed" =>
        \/ Current(t) = "Parked" /\ wakes[t] = 0
        \/ Current(t) \in {"Fired", "Cancelled", "Expired"} /\ wakes[t] = 1
    /\ wakes[t] > 0 => entry[t] = "committed" \/ t \in drained

\* Ending a committed wait sends the wake, and the wake is used once.
LEMMA WakeInvStep == TypeOK /\ TypeOK' /\ Inv /\ [Next]_vars => WakeInv'
<1>. SUFFICES ASSUME TypeOK, TypeOK', Inv, [Next]_vars, NEW t \in Tasks
              PROVE  WakeAt(t)'
  BY DEF WakeInv, WakeIsComing, StrayWakeIsShutdown, WakeAt
<1>a. TaskAt(t)
  BY TaskFacts
<1>b. /\ wakes[t] > 0 \/ wakes[t] = 0
      /\ ~(wakes[t] > 0 /\ wakes[t] = 0)
      /\ wakes[t] = 0 => wakes[t] + 1 = 1
      /\ wakes[t] = 1 => wakes[t] - 1 = 0
      /\ wakes'[t] = 0 => ~(wakes'[t] > 0)
  BY DEF TypeOK, RegistryTypes
<1>1. CASE Unmoved(t)
  BY <1>1, <1>a DEF Unmoved, Settled, WakeAt, TaskAt
<1>2. CASE Goes(t)
  BY <1>2, <1>a DEF Goes, Settled, WakeAt, TaskAt
<1>3. CASE BeginsWait(t)
  BY <1>3, <1>a DEF BeginsWait, WakeAt, TaskAt
<1>4. CASE Enrolled(t)
  BY <1>4, <1>a DEF Enrolled, WakeAt, TaskAt
<1>5. CASE Refused(t)
  BY <1>5, <1>a DEF Refused, Settled, WakeAt, TaskAt
<1>6. CASE Rechecked(t)
  BY <1>6, <1>a DEF Rechecked, Settled, WakeAt, TaskAt
<1>7. CASE Committing(t)
  <2>1. wakes[t] = 0 \/ t \in drained
    BY <1>7, <1>a, <1>b DEF Committing, TaskAt
  <2>2. t \in drained => entry'[t] = "none"
    BY <1>7, <1>a, Zenon DEF Committing, TaskAt
  <2>. QED
    BY <1>7, <1>b, <2>1, <2>2, Zenon DEF Committing, WakeAt
<1>8. CASE TakenBack(t)
  BY <1>8, <1>a DEF TakenBack, WakeAt, TaskAt
<1>9. CASE Woken(t)
  <2>1. entry[t] = "committed" \/ t \in drained
    BY <1>9, <1>a, Zenon DEF Woken, TaskAt
  <2>2. entry[t] = "committed" => wakes[t] = 1
    BY <1>9, <1>a, <1>b DEF Woken, TaskAt
  <2>3. entry[t] = "committed" => wakes'[t] = 0
    BY <1>9, <1>b, <2>2 DEF Woken
  <2>. QED
    BY <1>9, <1>b, <2>1, <2>3, Zenon DEF Woken, WakeAt
<1>10. CASE WaitEnds(t)
  <2>1. entry[t] = "committed" => Current(t) = "Parked" /\ wakes[t] = 0
    BY <1>10, <1>a DEF WaitEnds, IsWaiting, TaskAt
  <2>2. Current(t) = "Parked" => entry[t] = "committed" \/ t \in drained
    <3>1. Current(t) = "Parked" => pc[t] \notin {"queued", "inserted", "checked"}
      BY DEF Inv, PresentInv, Parks
    <3>2. pc[t] = "queued" \/ entry[t] # "none" \/ t \in taken
      BY <1>10, Zenon DEF WaitEnds, Inv, PresentInv
    <3>. QED
      BY <1>a, <3>1, <3>2 DEF TaskAt
  <2>3. entry[t] = "committed" => wakes'[t] = 1
    BY <1>10, <1>b, <2>1 DEF WaitEnds
  <2>4. Current(t) # "Parked" => wakes'[t] = wakes[t]
    BY <1>10 DEF WaitEnds
  <2>5. wakes[t] > 0 => entry[t] = "committed" \/ t \in drained
    BY <1>a DEF TaskAt
  <2>. QED
    BY <1>10, <2>2, <2>3, <2>4, <2>5 DEF WaitEnds, WakeAt
<1>11. CASE Emptied(t)
  BY <1>11, <1>a DEF Emptied, WakeAt, TaskAt
<1>12. CASE Dropped(t)
  BY <1>12, <1>a DEF Dropped, WakeAt, TaskAt
<1>. QED
  BY <1>1, <1>2, <1>3, <1>4, <1>5, <1>6, <1>7, <1>8, <1>9, <1>10, <1>11, <1>12, TaskStep
     DEF Moved

\* Only a canceller changes what the cancellers have.
LEMMA CancellersStep ==
    ASSUME [Next]_vars
    PROVE  UNCHANGED cancelVars \/ \E c \in Cancellers : Canceller(c)
<1>1. ASSUME NEW t \in Tasks, Worker(t) PROVE UNCHANGED cancelVars
  BY Zenon, <1>1
     DEF Worker, Dispatch, EndTask, ParkBegin, ParkReady, ParkEnds, ParkQueues, ParkInsert,
         ParkRecheck, ParkCommit, ParkTakeBack
<1>2. ASSUME NEW t \in Tasks, Wake(t) PROVE UNCHANGED cancelVars
  BY <1>2, Zenon DEF Wake
<1>3. ASSUME NEW p \in Peers, Peer(p) PROVE UNCHANGED cancelVars
  BY <1>3, Zenon DEF Peer, ClaimLook, ClaimEnd
<1>4. CASE Shutdown
  BY <1>4, Zenon DEF Shutdown, ShutdownFlag, ShutdownDrain, ShutdownDrop
<1>5. CASE UNCHANGED vars
  BY <1>5 DEF vars, cancelVars
<1>. QED
  BY <1>1, <1>2, <1>3, <1>4, <1>5 DEF Next

\* A flag is set by one who then goes on to cancel the wait.
LEMMA FlagFacts ==
    ASSUME TypeOK, Inv, [Next]_vars, NEW t \in Tasks, flag'[t]
    PROVE  flag[t] \/ CancelPending(t)'
<1>0. CASE UNCHANGED flag
  BY <1>0
<1>1. ASSUME NEW c \in Cancellers, NEW u \in Tasks, CancelFlag(c, u)
      PROVE  flag[t] \/ CancelPending(t)'
  <2>1. u # t => flag'[t] = flag[t]
    BY <1>1, Zenon DEF CancelFlag, TypeOK, TaskTypes
  <2>2. u \in todo'[c]
    BY <1>1 DEF CancelFlag, TypeOK, ActorTypes
  <2>. QED
    BY <2>1, <2>2, Zenon DEF CancelPending
<1>2. CASE UNCHANGED cancelVars
  BY <1>0, <1>2 DEF cancelVars
<1>3. ASSUME NEW c \in Cancellers, Canceller(c) PROVE flag[t] \/ CancelPending(t)'
  <2>1. UNCHANGED flag \/ \E u \in Tasks : CancelFlag(c, u)
    BY Zenon, <1>3
       DEF Canceller, CancelGoesOn, StopFlag, StopInspect, CancelLookup, CancelToken,
           CancelReturns
  <2>. QED
    BY <1>0, <1>1, <2>1
<1>. QED
  BY <1>2, <1>3, CancellersStep, Zenon

\* A cancel that is under way stays so until the wait it is for has ended, or
\* until it finds no entry.
LEMMA PendingFacts ==
    ASSUME TypeOK, Inv, [Next]_vars, NEW t \in Tasks, entry[t] # "none", CancelPending(t)
    PROVE  CancelPending(t)' \/ ~IsWaiting(Current(t)')
<1>w. wait'[t] = wait[t]
  BY Zenon, TaskStep
     DEF Unmoved, Settled, Moved, Goes, BeginsWait, Enrolled, Refused, Rechecked, Committing,
         TakenBack, Woken, WaitEnds, Emptied, Dropped
<1>0. CASE UNCHANGED <<todo, hold>>
  BY <1>0, <1>w, Zenon DEF CancelPending
<1>1. PICK d \in Cancellers : t \in todo[d] \/ <<t, wait[t]>> \in hold[d]
  BY DEF CancelPending
<1>2. ASSUME NEW c \in Cancellers, c = d => t \in todo'[c] \/ <<t, wait[t]>> \in hold'[c],
             c # d => todo'[d] = todo[d] /\ hold'[d] = hold[d]
      PROVE  CancelPending(t)'
  BY <1>1, <1>2, <1>w, ZenonT(20) DEF CancelPending
<1>3. ASSUME NEW c \in Cancellers, NEW u \in Tasks, CancelFlag(c, u)
      PROVE  CancelPending(t)'
  <2>1. c # d
    BY <1>1, <1>3, Zenon DEF CancelFlag, Inv, ActorInv
  <2>2. todo'[d] = todo[d] /\ hold' = hold
    BY <1>3, <2>1 DEF CancelFlag, TypeOK, ActorTypes
  <2>. QED
    BY <1>2, <2>1, <2>2, ZenonT(20)
<1>4. ASSUME NEW c \in Cancellers, StopInspect(c) PROVE CancelPending(t)'
  <2>1. c # d
    BY <1>1, <1>4, Zenon DEF StopInspect, Inv, ActorInv
  <2>2. todo'[d] = todo[d] /\ hold' = hold
    BY <1>4, <2>1 DEF StopInspect, TypeOK, ActorTypes
  <2>. QED
    BY <1>2, <2>1, <2>2
<1>5. ASSUME NEW c \in Cancellers, NEW u \in Tasks, CancelLookup(c, u)
      PROVE  CancelPending(t)'
  <2>1. c # d => todo'[d] = todo[d] /\ hold'[d] = hold[d]
    BY <1>5 DEF CancelLookup, TypeOK, ActorTypes
  <2>2. CASE c = d
    <3>1. t \in todo[c]
      BY <1>1, <1>5, <2>2 DEF CancelLookup, Inv, ActorInv
    <3>2. u # t => t \in todo'[c]
      BY <1>5, <3>1 DEF CancelLookup, TypeOK, ActorTypes
    <3>3. u = t => <<t, wait[t]>> \in hold'[c]
      <4>1. u = t => hold' = [hold EXCEPT ![c] = {<<t, wait[t]>>}]
        BY <1>5 DEF CancelLookup
      <4>2. hold \in [Cancellers -> SUBSET (Tasks \X (0..MaxWaits))]
        BY DEF TypeOK, ActorTypes
      <4>. QED
        BY <4>1, <4>2
    <3>. QED
      BY <1>2, <2>2, <3>2, <3>3, ZenonT(20)
  <2>. QED
    BY <1>2, <2>1, <2>2
<1>6. ASSUME NEW c \in Cancellers, NEW u \in Tasks, NEW n \in Waits, CancelToken(c, u, n)
      PROVE  CancelPending(t)' \/ ~IsWaiting(Current(t)')
  <2>1. todo' = todo /\ \A e \in Cancellers : e # c => hold'[e] = hold[e]
    BY <1>6 DEF CancelToken, TypeOK, ActorTypes
  <2>2. CASE c # d \/ t \in todo[d]
    BY <1>2, <2>1, <2>2, ZenonT(20)
  <2>3. CASE c = d /\ t \notin todo[d]
    <3>1. <<u, n>> = <<t, wait[t]>>
      BY <1>1, <1>6, <2>3, Zenon DEF CancelToken, Inv, ActorInv
    <3>2. u = t /\ n = wait[t]
      BY <3>1
    <3>3. PresentBecomes(u, IF n = wait[u] /\ IsWaiting(Current(u)) THEN "Cancelled"
                            ELSE Current(u))
      BY <1>6, CancelTokenToken, Zenon
    <3>. QED
      BY <3>2, <3>3, Zenon DEF PresentBecomes, IsWaiting
  <2>. QED
    BY <2>2, <2>3, Zenon
<1>7. ASSUME NEW c \in Cancellers, Canceller(c)
      PROVE  CancelPending(t)' \/ ~IsWaiting(Current(t)')
  <2>1. CASE StopFlag(c) \/ CancelReturns(c)
    BY <1>0, <2>1 DEF StopFlag, CancelReturns
  <2>. QED
    BY <1>3, <1>4, <1>5, <1>6, <1>7, <2>1 DEF Canceller, CancelGoesOn
<1>8. CASE UNCHANGED cancelVars
  BY <1>0, <1>8 DEF cancelVars
<1>. QED
  BY <1>7, <1>8, CancellersStep

\* A cancel finds the entry, or the worker finds the flag.
LEMMA CancelInvStep == TypeOK /\ TypeOK' /\ Inv /\ [Next]_vars => CancelInv'
<1>. SUFFICES ASSUME TypeOK, TypeOK', Inv, [Next]_vars, NEW t \in Tasks, flag'[t],
                     entry'[t] # "none", pc'[t] \in {"checked", "away"}, ~CancelPending(t)',
                     IsWaiting(Current(t)')
              PROVE  FALSE
  BY DEF CancelInv
<1>1. flag[t]
  BY FlagFacts
<1>2. entry[t] # "none"
  BY Zenon, TaskStep
     DEF Unmoved, Settled, Moved, Goes, BeginsWait, Enrolled, Refused, Rechecked, Committing,
         TakenBack, Woken, WaitEnds, Emptied, Dropped
<1>3. ~CancelPending(t)
  BY <1>2, PendingFacts, Zenon
<1>4. pc[t] \in {"checked", "away"} => ~IsWaiting(Current(t))
  BY <1>1, <1>2, <1>3 DEF Inv, CancelInv
<1>5. CASE Unmoved(t)
  BY <1>4, <1>5 DEF Unmoved
<1>6. CASE Goes(t) \/ BeginsWait(t) \/ Enrolled(t) \/ Refused(t)
  BY <1>2, <1>6, Zenon DEF Goes, BeginsWait, Enrolled, Refused
<1>7. CASE Rechecked(t)
  BY <1>1, <1>7 DEF Rechecked, Cancel, IsWaiting
<1>8. CASE Committing(t)
  BY <1>4, <1>8 DEF Committing
<1>9. CASE TakenBack(t) \/ Woken(t) \/ Emptied(t)
  BY <1>9, Zenon DEF TakenBack, Woken, Emptied
<1>10. CASE WaitEnds(t)
  BY <1>10 DEF WaitEnds, IsWaiting
<1>11. CASE Dropped(t)
  BY <1>11 DEF Dropped, Abandon, IsWaiting
<1>. QED
  BY <1>5, <1>6, <1>7, <1>8, <1>9, <1>10, <1>11, TaskStep, Zenon DEF Moved

-----------------------------------------------------------------------------
(* The counts, and the theorems.                                           *)

Committed == {t \in Tasks : entry[t] = "committed"}

\* The count of the committed entries: every step that makes or removes a
\* committed entry counts it.
LEMMA WaitingStep ==
    TypeOK /\ Inv /\ WaitingIsExact /\ [Next]_vars => WaitingIsExact'
<1>. SUFFICES ASSUME TypeOK, Inv, WaitingIsExact, [Next]_vars PROVE WaitingIsExact'
  OBVIOUS
<1>. USE DEF workerVars, taskVars, cancelVars, shutVars
<1>f. IsFiniteSet(Committed)
  BY FiniteTasks, FS_Subset DEF Committed
<1>w. waiting = Cardinality(Committed) /\ Cardinality(Committed) \in Nat
  BY <1>f, FS_CardinalityType DEF WaitingIsExact, Committed
<1>0. ASSUME Committed' = Committed, waiting' = waiting PROVE WaitingIsExact'
  BY <1>0, <1>w DEF WaitingIsExact, Committed
<1>1. ASSUME NEW t \in Tasks, t \in Committed, Committed' = Committed \ {t},
             waiting' = waiting - 1
      PROVE  WaitingIsExact'
  <2>1. Cardinality(Committed \ {t}) = Cardinality(Committed) - 1
    BY <1>1, <1>f, FS_RemoveElement
  <2>. QED
    BY <1>1, <1>w, <2>1 DEF WaitingIsExact, Committed
<1>2. ASSUME NEW t \in Tasks, Dispatch(t) \/ EndTask(t) \/ ParkBegin(t) \/ ParkReady(t)
               \/ ParkEnds(t) \/ ParkQueues(t) \/ ParkRecheck(t)
      PROVE  WaitingIsExact'
  <2>1. UNCHANGED <<entry, waiting>>
    BY Zenon, <1>2
       DEF Dispatch, EndTask, ParkBegin, ParkReady, ParkEnds, ParkQueues, ParkRecheck
  <2>. QED
    BY <1>0, <2>1 DEF Committed
<1>3. ASSUME NEW t \in Tasks, ParkInsert(t) PROVE WaitingIsExact'
  <2>1. entry[t] = "none" /\ waiting' = waiting
    BY <1>3, PlaceFacts, Zenon DEF ParkInsert
  <2>2. Committed' = Committed
    BY <1>3, <2>1 DEF ParkInsert, Committed, TypeOK, RegistryTypes
  <2>. QED
    BY <1>0, <2>1, <2>2
<1>4. ASSUME NEW t \in Tasks, ParkCommit(t) PROVE WaitingIsExact'
  <2>1. CASE entry[t] = "none"
    BY <1>0, <1>4, <2>1, Zenon DEF ParkCommit, Committed
  <2>2. CASE entry[t] # "none"
    <3>1. t \notin Committed
      BY <1>4, Zenon DEF ParkCommit, Committed, Inv, EntryInv
    <3>2. Committed' = Committed \cup {t} /\ waiting' = waiting + 1
      BY <1>4, <2>2 DEF ParkCommit, Committed, TypeOK, RegistryTypes
    <3>3. Cardinality(Committed \cup {t}) = Cardinality(Committed) + 1
      BY <1>f, <3>1, FS_AddElement
    <3>. QED
      BY <1>w, <3>2, <3>3, Zenon DEF WaitingIsExact, Committed
  <2>. QED
    BY <2>1, <2>2
<1>5. ASSUME NEW t \in Tasks, ParkTakeBack(t) PROVE WaitingIsExact'
  <2>1. entry[t] # "committed" /\ waiting' = waiting
    BY <1>5, Zenon DEF ParkTakeBack, Inv, EntryInv
  <2>2. Committed' = Committed
    BY <1>5, <2>1 DEF ParkTakeBack, Committed, TypeOK, RegistryTypes
  <2>. QED
    BY <1>0, <2>1, <2>2
<1>6. ASSUME NEW t \in Tasks, Wake(t) PROVE WaitingIsExact'
  <2>1. CASE entry[t] = "none"
    BY <1>0, <1>6, <2>1, Zenon DEF Wake, Committed
  <2>2. CASE entry[t] # "none"
    <3>1. t \in Committed
      BY Zenon, <1>6, <2>2
         DEF Wake, Committed, Inv, WakeInv, StrayWakeIsShutdown, ShutInv,
             DrainedStaysEmpty
    <3>2. Committed' = Committed \ {t} /\ waiting' = waiting - 1
      BY <1>6, <2>2 DEF Wake, Committed, TypeOK, RegistryTypes
    <3>. QED
      BY <1>1, <3>1, <3>2
  <2>. QED
    BY <2>1, <2>2
<1>7. ASSUME NEW p \in Peers, Peer(p) PROVE WaitingIsExact'
  <2>1. UNCHANGED <<entry, waiting>>
    BY <1>7, ZenonT(20) DEF Peer, ClaimLook, ClaimEnd
  <2>. QED
    BY <1>0, <2>1 DEF Committed
<1>8. ASSUME NEW c \in Cancellers, Canceller(c) PROVE WaitingIsExact'
  <2>1. UNCHANGED <<entry, waiting>>
    BY Zenon, <1>8
       DEF Canceller, CancelGoesOn, CancelFlag, StopFlag, StopInspect, CancelLookup,
           CancelToken, CancelReturns
  <2>. QED
    BY <1>0, <2>1 DEF Committed
<1>9. ASSUME ShutdownFlag PROVE WaitingIsExact'
  BY <1>0, <1>9 DEF ShutdownFlag, Committed
<1>10. ASSUME NEW t \in Tasks, ShutdownDrain(t) PROVE WaitingIsExact'
  <2>1. CASE entry[t] = "committed"
    <3>1. t \in Committed
      BY <2>1 DEF Committed
    <3>2. Committed' = Committed \ {t} /\ waiting' = waiting - 1
      BY <1>10, <2>1 DEF ShutdownDrain, Committed, TypeOK, RegistryTypes
    <3>. QED
      BY <1>1, <3>1, <3>2
  <2>2. CASE entry[t] # "committed"
    <3>1. Committed' = Committed /\ waiting' = waiting
      BY <1>10, <2>2 DEF ShutdownDrain, Committed, TypeOK, RegistryTypes
    <3>. QED
      BY <1>0, <3>1
  <2>. QED
    BY <2>1, <2>2
<1>11. ASSUME NEW t \in Tasks, ShutdownDrop(t) PROVE WaitingIsExact'
  BY <1>0, <1>11, Zenon DEF ShutdownDrop, Committed
<1>12. CASE UNCHANGED vars
  BY <1>0, <1>12 DEF vars, Committed
<1>. QED
  BY <1>2, <1>3, <1>4, <1>5, <1>6, <1>7, <1>8, <1>9, <1>10, <1>11, <1>12
     DEF Next, Worker, Shutdown

-----------------------------------------------------------------------------
\* Each variable of the parking protocol keeps its type.
THEOREM TypeCorrect == Spec => []TypeOK
<1>1. Init => TypeOK
  <2>1. Init => TaskTypes
    BY MaxWaitsIsNat DEF Init, TaskTypes
  <2>2. Init => RegistryTypes
    BY DEF Init, RegistryTypes, TokenStates
  <2>3. Init => ActorTypes
    BY DEF Init, ActorTypes
  <2>4. Init => ShutTypes
    BY Zenon DEF Init, ShutTypes
  <2>. QED
    BY <2>1, <2>2, <2>3, <2>4 DEF TypeOK
<1>2. TypeOK /\ [Next]_vars => TypeOK'
  BY TaskTypesStep, RegistryTypesStep, ActorTypesStep, ShutTypesStep DEF TypeOK
<1>. QED
  BY <1>1, <1>2, PTL DEF Spec

\* The inductive invariant of the parking protocol, from which the properties
\* below follow.
THEOREM Invariance == Spec => [](TypeOK /\ Inv)
<1>1. Init => Inv
  <2>1. Init => EntryInv /\ ShutInv
    BY DEF Init, EntryInv, ShutInv, DrainedStaysEmpty
  <2>2. Init => PastInv /\ PresentInv
    BY DEF Init, PastInv, PresentInv, Parks, Waits
  <2>3. Init => WakeInv /\ CancelInv
    BY DEF Init, WakeInv, WakeIsComing, StrayWakeIsShutdown, CancelInv
  <2>4. Init => ActorInv
    BY DEF Init, ActorInv
  <2>5. Init => OnePlace
    BY DEF Init, OnePlace, Places, One
  <2>. QED
    BY <2>1, <2>2, <2>3, <2>4, <2>5 DEF Inv
<1>2. TypeOK /\ TypeOK' /\ Inv /\ [Next]_vars => Inv'
  BY EntryInvStep, ShutInvStep, PastInvStep, PresentInvStep, WakeInvStep, ActorInvStep,
     CancelInvStep, OnePlaceStep
     DEF Inv
<1>. QED
  BY <1>1, <1>2, TypeCorrect, PTL DEF Spec

\* No interleaving of wakes, cancels, stops and the shutdown has a task in two
\* places or in none: it is run by one worker, ended once, and never lost.
THEOREM TaskInOnePlace == Spec => []OnePlace
<1>1. Inv => OnePlace
  BY DEF Inv
<1>. QED
  BY <1>1, Invariance, PTL

\* A committed wait that ended has exactly one wake on its way; one that is
\* open has none.  So Parking::wake never meets an open wait (finish is never
\* `unreachable!`), and no task is left behind.
THEOREM WakeComesOnce == Spec => [](WakeIsComing /\ StrayWakeIsShutdown)
<1>1. Inv => WakeIsComing /\ StrayWakeIsShutdown
  BY DEF Inv, WakeInv
<1>. QED
  BY <1>1, Invariance, PTL

\* The cancel of a task is never lost, at whatever moment of the task's way
\* into its wait it comes (Parking::park, Scheduler::cancel).
THEOREM CancelReachesTheWait == Spec => []CancelNotLost
<1>1. Inv => CancelNotLost
  BY DEF Inv, CancelInv, EntryInv, CancelNotLost, IsWaiting
<1>. QED
  BY <1>1, Invariance, PTL

\* No token of a task that runs on, or has ended, is open on a queue.
THEOREM RunningTaskHasNoOpenWait == Spec => []OpenOnlyWhileWaiting
<1>1. TypeOK /\ Inv => OpenOnlyWhileWaiting
  <2>. SUFFICES ASSUME TypeOK, Inv, NEW t \in Tasks, NEW n \in Waits, IsWaiting(token[t][n])
                PROVE  /\ n = wait[t]
                       /\ \/ Parks(t)
                          \/ entry[t] = "committed"
                          \/ t \in taken
    BY Zenon DEF OpenOnlyWhileWaiting, Parks
  <2>1. n = wait[t]
    BY MaxWaitsIsNat DEF Inv, PastInv, IsWaiting, Ended, TypeOK, TaskTypes, Waits
  <2>w. wait[t] > 0 /\ IsWaiting(Current(t))
    BY <2>1, MaxWaitsIsNat DEF Current, Waits
  <2>2. pc[t] = "queued" \/ entry[t] # "none" \/ t \in taken
    BY <2>w, Zenon DEF Inv, PresentInv
  <2>. QED
    BY <2>1, <2>2, Zenon DEF Inv, EntryInv, Parks, TypeOK, RegistryTypes
<1>. QED
  BY <1>1, Invariance, PTL

\* A shard that the shutdown has emptied stays empty.
THEOREM ShutdownIsFinal == Spec => []DrainedStaysEmpty
<1>1. Inv => DrainedStaysEmpty
  BY DEF Inv, ShutInv
<1>. QED
  BY <1>1, Invariance, PTL

\* Parking::waiting is the number of the committed entries, which the deadlock
\* check relies on.
THEOREM WaitingCount == Spec => []WaitingIsExact
<1>1. Init => WaitingIsExact
  <2>1. Init => {t \in Tasks : entry[t] = "committed"} = {}
    BY DEF Init
  <2>. QED
    BY <2>1, FS_EmptySet, Zenon DEF Init, WaitingIsExact
<1>. QED
  BY <1>1, WaitingStep, Invariance, PTL DEF Spec

\* How a wait ended stays: a cancel undoes nothing that was completed, and
\* nobody completes what was cancelled.
THEOREM EndIsFinal == Spec => TokenEndsOnce
<1>. DEFINE Stays == \A t \in Tasks, n \in Waits : EndStays(token[t][n], token'[t][n])
<1>1. TypeOK /\ Inv /\ [Next]_vars => [Stays]_vars
  <2>. SUFFICES ASSUME TypeOK, Inv, Next PROVE Stays
    BY Zenon
  <2>0. ASSUME UNCHANGED token PROVE Stays
    BY <2>0 DEF EndStays
  <2>1. ASSUME NEW t \in Tasks, NEW n \in 0..MaxWaits + 1, NEW state, SetToken(t, n, state),
               n \in Waits => state \in TokenStates /\ EndStays(token[t][n], state)
        PROVE  Stays
    <3>1. TokenBecomes(t, n, state)
      BY <2>1, SetTokenFacts DEF TypeOK, RegistryTypes
    <3>. QED
      BY <2>1, <3>1, Zenon DEF TokenBecomes, EndStays
  <2>. HIDE DEF Stays
  <2>a. ASSUME NEW old \in TokenStates
        PROVE  /\ Cancel(old) \in TokenStates /\ EndStays(old, Cancel(old))
               /\ Abandon(old) \in TokenStates /\ EndStays(old, Abandon(old))
               /\ Take(old) \in TokenStates /\ EndStays(old, Take(old))
               /\ IsWaiting(old) => \A new \in TokenStates : EndStays(old, new)
    BY DEF Cancel, Abandon, Take, IsWaiting, EndStays, TokenStates
  <2>b. \A t \in Tasks, n \in Waits : token[t][n] \in TokenStates
    BY DEF TypeOK, RegistryTypes
  <2>c. /\ \A t \in Tasks : wait[t] \in 0..MaxWaits + 1 /\ wait[t] + 1 \in 0..MaxWaits + 1
        /\ \A n \in Waits : n \in 0..MaxWaits + 1
    BY MaxWaitsIsNat DEF TypeOK, TaskTypes, Waits
  <2>2. ASSUME NEW t \in Tasks, ParkQueues(t) PROVE Stays
    <3>1. wait[t] + 1 \in Waits => token[t][wait[t] + 1] = "Unborn"
      BY DEF Inv, PastInv, TypeOK, TaskTypes, Waits
    <3>2. EndStays("Unborn", "Armed") /\ "Armed" \in TokenStates
      BY DEF EndStays, TokenStates
    <3>. QED
      BY <2>1, <2>2, <2>c, <3>1, <3>2 DEF ParkQueues
  <2>3. ASSUME NEW t \in Tasks, ParkInsert(t) PROVE Stays
    BY <2>0, <2>1, <2>3, <2>a, <2>b, <2>c, ZenonT(20) DEF ParkInsert, Current
  <2>4. ASSUME NEW t \in Tasks, ParkRecheck(t) PROVE Stays
    BY <2>0, <2>1, <2>4, <2>a, <2>b, <2>c, ZenonT(20) DEF ParkRecheck, Current
  <2>5. ASSUME NEW t \in Tasks, ParkCommit(t) PROVE Stays
    <3>1. "Parked" \in TokenStates
      BY DEF TokenStates
    <3>. QED
      BY <2>1, <2>5, <2>a, <2>b, <2>c, <3>1, Zenon DEF ParkCommit, Commits, Current
  <2>6. ASSUME NEW t \in Tasks, ParkTakeBack(t) \/ Wake(t) PROVE Stays
    BY <2>0, <2>1, <2>6, <2>a, <2>b, <2>c, ZenonT(20) DEF ParkTakeBack, Wake, Current
  <2>7. ASSUME NEW p \in Peers, NEW t \in Tasks, NEW n \in Waits,
               NEW how \in {"Fired", "Expired"}, ClaimEnd(p, t, n, how)
        PROVE  Stays
    <3>1. how \in TokenStates
      BY DEF TokenStates
    <3>. QED
      BY <2>0, <2>1, <2>7, <2>a, <2>b, <2>c, <3>1, Zenon DEF ClaimEnd
  <2>8. ASSUME NEW c \in Cancellers, NEW t \in Tasks,
               NEW n \in Waits, CancelToken(c, t, n)
        PROVE  Stays
    BY <2>1, <2>8, <2>a, <2>b, <2>c, ZenonT(20) DEF CancelToken
  <2>9. ASSUME NEW t \in Tasks, ShutdownDrop(t) PROVE Stays
    BY <2>1, <2>9, <2>a, <2>b, <2>c, ZenonT(20) DEF ShutdownDrop, Current
  <2>10. ASSUME NEW t \in Tasks, Dispatch(t) \/ EndTask(t) \/ ParkBegin(t) \/ ParkReady(t)
                  \/ ParkEnds(t) \/ ShutdownDrain(t)
         PROVE  Stays
    BY ZenonT(20), <2>0, <2>10
       DEF Dispatch, EndTask, ParkBegin, ParkReady, ParkEnds, ShutdownDrain
  <2>11. ASSUME NEW p \in Peers, NEW t \in Tasks, NEW n \in Waits, ClaimLook(p, t, n)
         PROVE  Stays
    BY <2>0, <2>11, Zenon DEF ClaimLook
  <2>12. ASSUME NEW c \in Cancellers, StopFlag(c) \/ StopInspect(c) \/ CancelReturns(c)
         PROVE  Stays
    BY <2>0, <2>12 DEF StopFlag, StopInspect, CancelReturns
  <2>13. ASSUME NEW c \in Cancellers, NEW t \in Tasks,
               CancelFlag(c, t) \/ CancelLookup(c, t)
         PROVE  Stays
    BY <2>0, <2>13 DEF CancelFlag, CancelLookup
  <2>14. ASSUME ShutdownFlag PROVE Stays
    BY <2>0, <2>14 DEF ShutdownFlag
  <2>. QED
    BY <2>2, <2>3, <2>4, <2>5, <2>6, <2>7, <2>8, <2>9, <2>10, <2>11, <2>12, <2>13, <2>14
       DEF Next, Worker, Peer, Canceller, CancelGoesOn, Shutdown
<1>. QED
  BY <1>1, Invariance, PTL DEF Spec, TokenEndsOnce
=============================================================================
