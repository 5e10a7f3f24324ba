----------------------------- MODULE IoPoolProofs -----------------------------
(***************************************************************************)
(* The properties of module IoPool, for any number of operations and       *)
(* threads and for every bound: the inductive invariant with the types,    *)
(* the queue, which thread works on which operation, and what a thread and *)
(* a waiter know that leave an operation in either order; then what the    *)
(* counters count, that the threads are bounded, that a queued operation   *)
(* has a thread, and that a value reaches one of the thread and the waiter.*)
(***************************************************************************)
EXTENDS IoPool, FiniteSetTheorems, TLAPS

-----------------------------------------------------------------------------
(* The inductive invariant.                                                *)

\* Where a thread stands that has no operation, that has handed over, ...
Free == {"none", "look", "asleep", "timedout"}
Over == {"complete", "release", "finished"}

WaiterAt == {"idle", "waits", "withheld", "has", "detached", "leaving", "unheard", "gone"}
Phases == {"None", "Queued", "Running", "Left", "Finishing", "Gone", "Finished"}

OpTypes ==
    /\ waiter \in [Ops -> WaiterAt]
    /\ kind \in [Ops -> LeaveKinds]
    /\ flag \in [Ops -> BOOLEAN]
    /\ phase \in [Ops -> Phases]
    /\ cell \in [Ops -> BOOLEAN]
    /\ inFlight \in [Ops -> BOOLEAN]
    /\ taken \in [Ops -> BOOLEAN]
    /\ told \in [Ops -> BOOLEAN]
    /\ claim \in [Ops -> {"WAITING", "TOOK", "GONE"}]
    /\ giveBack \in [Ops -> BOOLEAN]
    /\ gaveBack \in [Ops -> Nat]
    /\ closed \in [Ops -> BOOLEAN]

PoolTypes ==
    /\ pool \in Pool
    /\ queue \in Seq(Ops)
    /\ threads \in Int /\ busy \in Int /\ unheard \in Int

ThreadTypes ==
    /\ at \in [Threads -> Free \cup {"run", "claim", "unheard"} \cup Over]
    /\ job \in [Threads -> SUBSET Ops]
    /\ left \in [Threads -> BOOLEAN]

TypeOK == OpTypes /\ PoolTypes /\ ThreadTypes

-----------------------------------------------------------------------------
\* A thread that works has one operation, and no other thread has it.
JobInv ==
    /\ \A th \in Threads : at[th] \in Free <=> job[th] = {}
    /\ \A th \in Threads : \A o, p \in job[th] : o = p
    /\ \A th, u \in Threads : \A o \in job[th] : o \in job[u] => th = u

\* An operation is on the queue once, and waits there for its thread.
QueueInv ==
    /\ \A i \in DOMAIN queue : phase[queue[i]] = "Queued"
    /\ \A i, j \in DOMAIN queue : queue[i] = queue[j] => i = j
    /\ stopped => queue = <<>>

\* What the phase of an operation says where its thread stands; who comes
\* second of the thread and the waiter knows of the first.
ThreadAgrees(where, went, ph, w) ==
    /\ where \in {"run", "claim"} => ph \in {"Running", "Left"}
    /\ where \in Over => /\ ph \in {"Finishing", "Gone"}
                         /\ ph = "Finishing" => (went <=> w = "gone")
                         /\ ph = "Gone" => ~went
    /\ where = "unheard" => ph = "Finished" /\ w = "gone"
PhaseInv ==
    \A th \in Threads : \A o \in job[th] :
        ThreadAgrees(at[th], left[th], phase[o], waiter[o])

\* A running operation has its thread.
RunInv == \A o \in Ops : phase[o] = "Running" => \E th \in Threads : Runs(th) /\ o \in job[th]

\* What the phase of an operation says where its waiter stands.
WaiterAgrees(w, ph, took, tells) ==
    /\ w \in {"idle", "withheld"} => ph = "None" /\ ~took
    /\ w \in {"waits", "has", "detached", "leaving"} =>
          ph \in {"Queued", "Running", "Finishing", "Finished"}
    /\ w = "unheard" => ph = "Finished"
    /\ w = "gone" => ph \notin {"Queued", "Running"}
    /\ ph \in {"Left", "Gone"} => w = "gone"
    /\ tells => w = "gone"
WaiterInv == \A o \in Ops : WaiterAgrees(waiter[o], phase[o], taken[o], told[o])

\* A value is given back once its waiter has gone, and only once.
GivenBack(gives, given, k, w, took) ==
    /\ gives => GivesBack(k)
    /\ gives \/ ~GivesBack(k) => given = 0
    /\ GivesBack(k) /\ ~gives => w = "gone" /\ given = IF took THEN 0 ELSE 1
GiveBackInv ==
    \A o \in Ops :
        /\ GivenBack(giveBack[o], gaveBack[o], kind[o], waiter[o], taken[o])
        /\ giveBack[o] /\ waiter[o] = "gone" /\ phase[o] = "Finished" =>
              \E th \in Threads : o \in job[th]

ClosedInv ==
    \A o \in Ops : kind[o] = "Closes" /\ waiter[o] \in {"leaving", "unheard", "gone"} =>
                      closed[o] = ~taken[o]

Inv ==
    /\ JobInv /\ QueueInv /\ PhaseInv /\ RunInv
    /\ WaiterInv /\ GiveBackInv /\ ClosedInv

\* submit finds a name for the thread that it starts (NamesInv of IoPoolProofs).
HasNames == \A o \in Ops : waiter[o] = "idle" => \E th \in Threads : at[th] = "none"

-----------------------------------------------------------------------------
(* Facts about the queue.                                                  *)

\* Without takes the one place of an operation out of the queue.
LEMMA WithoutFacts ==
    ASSUME NEW s \in Seq(Ops), NEW o, \A i, j \in DOMAIN s : s[i] = s[j] => i = j
    PROVE  /\ Without(s, o) \in Seq(Ops)
           /\ Len(Without(s, o)) <= Len(s)
           /\ \A i \in DOMAIN Without(s, o) :
                 Without(s, o)[i] # o /\ \E j \in DOMAIN s : Without(s, o)[i] = s[j]
           /\ \A i, j \in DOMAIN Without(s, o) :
                 Without(s, o)[i] = Without(s, o)[j] => i = j
<1>l. Len(s) \in Nat /\ DOMAIN s = 1..Len(s) /\ \A i \in 1..Len(s) : s[i] \in Ops
  OBVIOUS
<1>1. CASE \E i \in DOMAIN s : s[i] = o
  <2>. DEFINE k == CHOOSE i \in DOMAIN s : s[i] = o
              w == [j \in 1..(Len(s) - 1) |-> IF j < k THEN s[j] ELSE s[j + 1]]
  <2>1. k \in 1..Len(s) /\ s[k] = o
    BY <1>1, <1>l
  <2>2. Without(s, o) = w
    BY <1>1 DEF Without
  <2>. HIDE DEF k
  <2>3. \A j \in 1..(Len(s) - 1) : w[j] \in Ops
    BY <1>l, <2>1
  <2>4. w \in Seq(Ops) /\ Len(w) = Len(s) - 1 /\ DOMAIN w = 1..(Len(s) - 1)
    <3>1. Len(s) - 1 \in Nat
      BY <1>l, <2>1
    <3>2. w \in Seq(Ops)
      BY <3>1, <2>3
    <3>. QED
      BY <3>1, <3>2
  <2>5. \A i \in 1..(Len(s) - 1) :
            w[i] # o /\ \E j \in DOMAIN s : w[i] = s[j]
    BY <1>l, <2>1
  <2>6. \A i, j \in 1..(Len(s) - 1) : w[i] = w[j] => i = j
    BY <1>l, <2>1
  <2>. HIDE DEF w
  <2>. QED
    BY <1>l, <2>2, <2>4, <2>5, <2>6
<1>2. CASE ~\E i \in DOMAIN s : s[i] = o
  BY <1>2, <1>l DEF Without
<1>. QED
  BY <1>1, <1>2

\* What the two ends of the queue are.
LEMMA QueueEnds ==
    ASSUME NEW s \in Seq(Ops)
    PROVE  /\ Len(s) \in Nat /\ DOMAIN s = 1..Len(s)
           /\ \A i \in 1..Len(s) : s[i] \in Ops
           /\ \A o \in Ops : /\ Append(s, o) \in Seq(Ops)
                             /\ Len(Append(s, o)) = Len(s) + 1
                             /\ DOMAIN Append(s, o) = 1..(Len(s) + 1)
                             /\ \A i \in 1..Len(s) : Append(s, o)[i] = s[i]
                             /\ Append(s, o)[Len(s) + 1] = o
           /\ s # <<>> => /\ Len(s) > 0
                          /\ Head(s) \in Ops /\ Head(s) = s[1]
                          /\ Tail(s) \in Seq(Ops) /\ Len(Tail(s)) = Len(s) - 1
                          /\ DOMAIN Tail(s) = 1..(Len(s) - 1)
                          /\ \A i \in 1..(Len(s) - 1) : Tail(s)[i] = s[i + 1]
<1>1. Len(s) \in Nat /\ DOMAIN s = 1..Len(s) /\ \A i \in 1..Len(s) : s[i] \in Ops
  OBVIOUS
<1>2. ASSUME NEW o \in Ops
      PROVE  /\ Append(s, o) \in Seq(Ops)
             /\ Len(Append(s, o)) = Len(s) + 1
             /\ DOMAIN Append(s, o) = 1..(Len(s) + 1)
             /\ \A i \in 1..Len(s) : Append(s, o)[i] = s[i]
             /\ Append(s, o)[Len(s) + 1] = o
  OBVIOUS
<1>3. ASSUME s # <<>>
      PROVE  /\ Len(s) > 0
             /\ Head(s) \in Ops /\ Head(s) = s[1]
             /\ Tail(s) \in Seq(Ops) /\ Len(Tail(s)) = Len(s) - 1
             /\ DOMAIN Tail(s) = 1..(Len(s) - 1)
             /\ \A i \in 1..(Len(s) - 1) : Tail(s)[i] = s[i + 1]
  BY <1>3
<1>. QED
  BY <1>1, <1>2, <1>3

-----------------------------------------------------------------------------
(* Every step keeps the types.                                             *)

\* Every operation of the pool, its threads and the waiters leaves the state
\* of the shape that the declarations of io_op.rs give it.
LEMMA TypeStep ==
    ASSUME TypeOK, QueueInv, Next
    PROVE  TypeOK'
<1>. USE DEF TypeOK, WaiterAt, Phases
<1>p. UNCHANGED pool
  BY DEF Next
<1>a. ASSUME NEW o \in Ops
      PROVE  Append(queue, o) \in Seq(Ops) /\ Without(queue, o) \in Seq(Ops)
  BY QueueEnds, WithoutFacts DEF PoolTypes, QueueInv
<1>t. queue # <<>> => Head(queue) \in Ops /\ Tail(queue) \in Seq(Ops)
  BY QueueEnds DEF PoolTypes
<1>o. ASSUME NEW o \in Ops, Refused(o) \/ Inline(o)
      PROVE  OpTypes' /\ queue' \in Seq(Ops)
  <2>1. OverAtOnce(o)
        /\ (UNCHANGED claim \/ claim' = [claim EXCEPT ![o] = "TOOK"])
    BY <1>o DEF Refused, Inline
  <2>. QED
    BY <2>1 DEF OverAtOnce, OpTypes, PoolTypes
<1>e. ASSUME NEW o \in Ops, Enqueued(o)
      PROVE  OpTypes' /\ queue' \in Seq(Ops)
  <2>1. OpTypes'
    BY <1>e DEF Enqueued, OpTypes
  <2>. QED
    BY <2>1, <1>e, <1>a DEF Enqueued
<1>1. ASSUME NEW o \in Ops, SubmitRefused(o) \/ SubmitInline(o)
      PROVE  TypeOK'
  <2>1. OpTypes' /\ queue' \in Seq(Ops)
    BY <1>1, <1>o DEF SubmitRefused, SubmitInline
  <2>2. UNCHANGED counts /\ UNCHANGED threadVars
    BY <1>1 DEF SubmitRefused, SubmitInline
  <2>. QED
    BY <2>1, <2>2, <1>p DEF PoolTypes, ThreadTypes, counts, threadVars
<1>2. ASSUME NEW o \in Ops, SubmitToIdle(o)
      PROVE  TypeOK'
  <2>1. OpTypes' /\ queue' \in Seq(Ops)
    BY <1>2, <1>e DEF SubmitToIdle
  <2>2. UNCHANGED counts
    BY <1>2 DEF SubmitToIdle
  <2>3. ThreadTypes'
    BY <1>2 DEF SubmitToIdle, NotifyOne, ThreadTypes, Free, threadVars
  <2>. QED
    BY <2>1, <2>2, <2>3, <1>p DEF PoolTypes, counts
<1>3. ASSUME NEW o \in Ops, SubmitStarts(o)
      PROVE  TypeOK'
  <2>1. OpTypes' /\ queue' \in Seq(Ops)
    BY <1>3, <1>e DEF SubmitStarts
  <2>2. threads' = threads + 1 /\ UNCHANGED <<busy, unheard>>
    BY <1>3 DEF SubmitStarts
  <2>3. ThreadTypes'
    BY <1>3, Zenon DEF SubmitStarts, ThreadTypes, Free
  <2>. QED
    BY <2>1, <2>2, <2>3, <1>p DEF PoolTypes
<1>4. ASSUME NEW o \in Ops, SubmitSpawnFails(o)
      PROVE  TypeOK'
  <2>1. OpTypes' /\ queue' \in Seq(Ops)
    BY <1>4, <1>e, <1>o DEF SubmitSpawnFails
  <2>2. UNCHANGED counts /\ UNCHANGED threadVars
    BY <1>4 DEF SubmitSpawnFails
  <2>. QED
    BY <2>1, <2>2, <1>p DEF PoolTypes, ThreadTypes, counts, threadVars
<1>5. ASSUME Stop
      PROVE  TypeOK'
  <2>1. queue' \in Seq(Ops)
    BY <1>5 DEF Stop
  <2>2. OpTypes' /\ ThreadTypes'
    BY <1>5 DEF Stop, OpTypes, ThreadTypes, Free, opVars
  <2>3. UNCHANGED counts
    BY <1>5 DEF Stop
  <2>. QED
    BY <2>1, <2>2, <2>3, <1>p DEF PoolTypes, counts
<1>6. ASSUME NEW th \in Threads, Look(th)
      PROVE  TypeOK'
  <2>1. CASE ThreadEnds(th)
    BY <2>1, <1>p DEF ThreadEnds, OpTypes, PoolTypes, ThreadTypes, Free, opVars
  <2>2. CASE Pop(th) /\ queue # <<>>
    <3>1. OpTypes' /\ ThreadTypes'
      BY <2>2, <1>t DEF Pop, OpTypes, ThreadTypes
    <3>2. queue' \in Seq(Ops) /\ busy' = busy + 1 /\ UNCHANGED <<threads, unheard>>
      BY <2>2, <1>t DEF Pop
    <3>. QED
      BY <3>1, <3>2, <1>p DEF PoolTypes
  <2>3. CASE at' = [at EXCEPT ![th] = "asleep"] /\ UNCHANGED <<opVars, queue, counts, job, left>>
    BY <2>3, <1>p DEF OpTypes, PoolTypes, ThreadTypes, Free, opVars, counts
  <2>. QED
    BY <1>6, <2>1, <2>2, <2>3 DEF Look
<1>7. ASSUME NEW th \in Threads, TimesOut(th)
      PROVE  TypeOK'
  BY <1>7, <1>p DEF TimesOut, OpTypes, PoolTypes, ThreadTypes, Free, opVars, counts
<1>8. ASSUME NEW th \in Threads, NEW o \in Ops, Operation(th, o)
      PROVE  TypeOK'
  <2>1. OpTypes'
    BY <1>8 DEF Operation, ClaimLook, ClaimDecide, Returns, OpTypes, opVars
  <2>2. PoolTypes'
    <3>1. CASE Returns(th, o)
      BY <3>1, <1>p DEF Returns, PoolTypes
    <3>2. CASE UNCHANGED <<queue, counts>>
      BY <3>2, <1>p DEF PoolTypes, counts
    <3>. QED
      BY <1>8, <3>1, <3>2 DEF Operation, ClaimLook, ClaimDecide
  <2>3. ThreadTypes'
    BY <1>8, Zenon DEF Operation, ClaimLook, ClaimDecide, Returns, ThreadTypes, Over
  <2>. QED
    BY <2>1, <2>2, <2>3
<1>g. ASSUME NEW o \in Ops, Unheard(o)
      PROVE  giveBack' \in [Ops -> BOOLEAN] /\ gaveBack' \in [Ops -> Nat]
  BY <1>g DEF Unheard, OpTypes
<1>9. ASSUME NEW th \in Threads, NEW o \in Ops,
             Complete(th, o) \/ Release(th, o) \/ Finishes(th, o) \/ ThreadUnheard(th, o)
      PROVE  TypeOK'
  <2>1. OpTypes'
    <3>1. CASE Complete(th, o)
      BY <3>1 DEF Complete, OpTypes
    <3>2. CASE Release(th, o)
      BY <3>2 DEF Release, OpTypes
    <3>3. CASE Finishes(th, o)
      BY <3>3 DEF Finishes, OpTypes
    <3>4. CASE ThreadUnheard(th, o)
      BY <3>4, <1>g DEF ThreadUnheard, OpTypes
    <3>. QED
      BY <1>9, <3>1, <3>2, <3>3, <3>4
  <2>2. PoolTypes'
    BY <1>9, <1>p DEF Complete, Release, Finishes, ThreadUnheard, PoolTypes, counts
  <2>3. ThreadTypes'
    BY <1>9 DEF Complete, Release, Finishes, ThreadUnheard, ThreadTypes, Over, Free
  <2>. QED
    BY <2>1, <2>2, <2>3
<1>10. ASSUME NEW o \in Ops, Waiter(o)
       PROVE  TypeOK'
  <2>1. CASE DropDecides(o)
    <3>w. waiter' \in [Ops -> WaiterAt]
      BY <2>1 DEF DropDecides, OpTypes, WaiterAt
    <3>s. phase' \in [Ops -> Phases] /\ told' \in [Ops -> BOOLEAN]
      BY <2>1, Zenon DEF DropDecides, OpTypes, Phases
    <3>1. OpTypes' /\ ThreadTypes'
      BY <2>1, <3>w, <3>s DEF DropDecides, OpTypes, ThreadTypes, threadVars
    <3>2. queue' \in Seq(Ops)
      BY <2>1, <1>a DEF DropDecides, OpTypes, PoolTypes
    <3>3. threads' \in Int /\ busy' \in Int /\ unheard' \in Int
      BY <2>1 DEF DropDecides, PoolTypes, counts
    <3>. QED
      BY <3>1, <3>2, <3>3, <1>p DEF PoolTypes
  <2>2. CASE DropUnheard(o)
    BY <2>2, <1>g, <1>p DEF DropUnheard, OpTypes, PoolTypes, ThreadTypes, counts, threadVars
  <2>3. CASE DropBegins(o)
    BY <2>3, <1>p DEF DropBegins, OpTypes, PoolTypes, ThreadTypes, counts, threadVars
  <2>4. CASE TakesNothingNew(o) \/ Withhold(o) \/ WithheldLeaves(o) \/ Take(o) \/ Detach(o)
    <3>1. OpTypes'
      <4>0. CASE TakesNothingNew(o)
        BY <4>0 DEF TakesNothingNew, OpTypes
      <4>1. CASE Withhold(o)
        BY <4>1 DEF Withhold, OpTypes
      <4>2. CASE WithheldLeaves(o)
        BY <4>2 DEF WithheldLeaves, OpTypes
      <4>3. CASE Take(o)
        BY <4>3 DEF Take, OpTypes
      <4>4. CASE Detach(o)
        BY <4>4 DEF Detach, OpTypes
      <4>. QED
        BY <2>4, <4>0, <4>1, <4>2, <4>3, <4>4
    <3>2. UNCHANGED <<queue, counts, threadVars>>
      BY <2>4 DEF TakesNothingNew, Withhold, WithheldLeaves, Take, Detach
    <3>. QED
      BY <3>1, <3>2, <1>p DEF PoolTypes, ThreadTypes, counts, threadVars
  <2>. QED
    BY <1>10, <2>1, <2>2, <2>3, <2>4 DEF Waiter
<1>. QED
  BY <1>1, <1>2, <1>3, <1>4, <1>5, <1>6, <1>7, <1>8, <1>9, <1>10
  DEF Next, Submit, ThreadGoesOn

-----------------------------------------------------------------------------
(* What submit does, whichever way it ends.                                *)

\* An operation that is submitted is new to the queue and to the threads; it
\* is queued, or it is finished, and at most one thread is woken or started.
LEMMA SubmitFacts ==
    ASSUME TypeOK, Inv, HasNames, NEW o \in Ops, Submit(o)
    PROVE  /\ waiter[o] = "idle" /\ waiter'[o] = "waits"
           /\ phase[o] = "None" /\ ~taken[o] /\ ~told[o] /\ (giveBack[o] <=> GivesBack(kind[o]))
           /\ \A p \in Ops : p # o => waiter'[p] = waiter[p] /\ phase'[p] = phase[p]
           /\ \A th \in Threads : o \notin job[th]
           /\ \A i \in DOMAIN queue : queue[i] # o
           /\ \/ phase'[o] = "Queued" /\ queue' = Append(queue, o) /\ ~stopped
              \/ phase'[o] = "Finished" /\ queue' = queue
           /\ \A th \in Threads : \/ at'[th] = at[th]
                                  \/ at[th] \in {"none", "asleep"} /\ at'[th] = "look"
           /\ UNCHANGED <<kind, taken, told, giveBack, gaveBack, closed, job, left, stopped>>
<1>. USE DEF TypeOK
<1>1. waiter[o] = "idle"
  BY DEF Submit, SubmitRefused, SubmitInline, SubmitToIdle, SubmitStarts, SubmitSpawnFails,
         Takes, Begins
<1>2. phase[o] = "None" /\ ~taken[o] /\ ~told[o]
  BY <1>1 DEF Inv, WaiterInv, WaiterAgrees
<1>3. giveBack[o] <=> GivesBack(kind[o])
  BY <1>1 DEF Inv, GiveBackInv, GivenBack
<1>4. \A th \in Threads : o \notin job[th]
  BY <1>2 DEF Inv, JobInv, PhaseInv, ThreadAgrees, ThreadTypes, Free, Over
<1>5. \A i \in DOMAIN queue : queue[i] # o
  BY <1>2 DEF Inv, QueueInv
<1>6. \E th \in Threads : at[th] = "none"
  BY <1>1 DEF HasNames
<1>7. ASSUME NEW th \in Threads
      PROVE  \/ at'[th] = at[th]
             \/ at[th] \in {"none", "asleep"} /\ at'[th] = "look"
  <2>1. CASE SubmitStarts(o)
    BY <2>1, <1>6 DEF SubmitStarts, ThreadTypes
  <2>2. CASE SubmitToIdle(o)
    BY <2>2 DEF SubmitToIdle, NotifyOne, threadVars, ThreadTypes
  <2>. QED
    BY <2>1, <2>2 DEF Submit, SubmitRefused, SubmitInline, SubmitSpawnFails, threadVars
<1>8. UNCHANGED <<job, left, stopped>>
  BY DEF Submit, SubmitRefused, SubmitInline, SubmitToIdle, SubmitStarts, SubmitSpawnFails,
         NotifyOne, threadVars, modes
<1>9. Refused(o) \/ Inline(o) \/ (Enqueued(o) /\ ~stopped)
  BY DEF Submit, SubmitRefused, SubmitInline, SubmitToIdle, SubmitStarts, SubmitSpawnFails,
         Takes
<1>10. /\ waiter'[o] = "waits"
       /\ \A p \in Ops : p # o => waiter'[p] = waiter[p] /\ phase'[p] = phase[p]
       /\ \/ phase'[o] = "Queued" /\ queue' = Append(queue, o) /\ ~stopped
          \/ phase'[o] = "Finished" /\ queue' = queue
       /\ UNCHANGED <<kind, taken, told, giveBack, gaveBack, closed>>
  <2>1. CASE Enqueued(o) /\ ~stopped
    BY <2>1 DEF Enqueued, OpTypes
  <2>2. CASE OverAtOnce(o)
    BY <2>2 DEF OverAtOnce, OpTypes
  <2>. QED
    BY <1>9, <2>1, <2>2 DEF Refused, Inline
<1>. QED
  BY <1>1, <1>2, <1>3, <1>4, <1>5, <1>7, <1>8, <1>10

-----------------------------------------------------------------------------
(* Every step preserves the invariant.                                     *)

\* Threads and operations stay paired: no operation is worked on twice.
LEMMA JobStep ==
    ASSUME TypeOK, Inv, HasNames, Next
    PROVE  JobInv'
<1>1. ASSUME NEW o \in Ops, Submit(o)
      PROVE  JobInv'
  <2>1. /\ UNCHANGED job
        /\ \A th \in Threads : at'[th] = at[th] \/ (at[th] \in Free /\ at'[th] \in Free)
    BY <1>1, SubmitFacts DEF Free
  <2>. QED
    BY <2>1 DEF Inv, JobInv
<1>. USE DEF TypeOK, ThreadTypes, Free, Over
<1>2. ASSUME NEW th \in Threads, Look(th) \/ TimesOut(th)
      PROVE  JobInv'
  <2>1. CASE Pop(th) /\ queue # <<>> /\ at[th] \in Free
    <3>1. PICK o \in Ops : o = Head(queue) /\ o = queue[1] /\ 1 \in DOMAIN queue
      BY <2>1, QueueEnds DEF PoolTypes
    <3>2. \A u \in Threads : o \notin job[u]
      BY <3>1 DEF Inv, QueueInv, JobInv, PhaseInv, ThreadAgrees
    <3>3. job' = [job EXCEPT ![th] = {o}] /\ at' = [at EXCEPT ![th] = "run"]
      BY <2>1, <3>1 DEF Pop
    <3>. QED
      BY <3>2, <3>3 DEF Inv, JobInv
  <2>2. CASE UNCHANGED job /\ \E a \in Free : at[th] \in Free /\ at' = [at EXCEPT ![th] = a]
    BY <2>2 DEF Inv, JobInv
  <2>. QED
    BY <1>2, <2>1, <2>2 DEF Look, ThreadEnds, TimesOut
<1>3. ASSUME NEW th \in Threads, NEW o \in Ops,
             Operation(th, o) \/ Complete(th, o) \/ Release(th, o)
      PROVE  JobInv'
  <2>1. /\ UNCHANGED job /\ at[th] \notin Free
        /\ \E a \in {"run", "claim", "complete", "release", "finished"} :
              at' = [at EXCEPT ![th] = a]
    BY <1>3 DEF Operation, ClaimLook, ClaimDecide, Returns, Complete, Release
  <2>2. \A u \in Threads : at'[u] \in Free <=> at[u] \in Free
    BY <2>1
  <2>. QED
    BY <2>1, <2>2 DEF Inv, JobInv
<1>4. ASSUME NEW th \in Threads, NEW o \in Ops, Finishes(th, o) \/ ThreadUnheard(th, o)
      PROVE  JobInv'
  BY <1>4 DEF Finishes, ThreadUnheard, Inv, JobInv
<1>5. ASSUME NEW o \in Ops, Waiter(o)
      PROVE  JobInv'
  <2>1. UNCHANGED <<at, job>>
    BY <1>5, Zenon DEF Waiter, TakesNothingNew, Withhold, WithheldLeaves, Take, Detach, DropBegins,
                DropDecides, DropUnheard, threadVars
  <2>. QED
    BY <2>1 DEF Inv, JobInv
<1>6. ASSUME Stop
      PROVE  JobInv'
  BY <1>6 DEF Stop, Inv, JobInv
<1>. QED
  BY <1>1, <1>2, <1>3, <1>4, <1>5, <1>6 DEF Next, ThreadGoesOn

\* The queue holds each operation that waits for a thread at most once.
LEMMA QueueStep ==
    ASSUME TypeOK, Inv, HasNames, Next
    PROVE  QueueInv'
<1>y. queue \in Seq(Ops) /\ phase \in [Ops -> Phases]
  BY DEF TypeOK, OpTypes, PoolTypes
<1>d. Len(queue) \in Nat /\ DOMAIN queue = 1..Len(queue) /\ \A i \in DOMAIN queue : queue[i] \in Ops
  BY <1>y, QueueEnds
<1>i. /\ \A i \in 1..Len(queue) : phase[queue[i]] = "Queued"
      /\ \A i, j \in 1..Len(queue) : queue[i] = queue[j] => i = j
  BY <1>d DEF Inv, QueueInv
<1>0. ASSUME UNCHANGED <<queue, stopped>>,
             \A i \in DOMAIN queue : phase'[queue[i]] = phase[queue[i]]
      PROVE  QueueInv'
  BY <1>0 DEF Inv, QueueInv
<1>1. ASSUME NEW o \in Ops, Submit(o)
      PROVE  QueueInv'
  <2>1. CASE queue' = queue
    <3>1. UNCHANGED stopped /\ \A i \in DOMAIN queue : queue[i] # o
      BY <1>1, SubmitFacts
    <3>2. \A p \in Ops : p # o => phase'[p] = phase[p]
      BY <1>1, SubmitFacts
    <3>. QED
      BY <2>1, <3>1, <3>2, <1>0, <1>d
  <2>2. CASE queue' = Append(queue, o) /\ phase'[o] = "Queued" /\ ~stopped
    <3>1. /\ DOMAIN queue' = 1..(Len(queue) + 1)
          /\ \A i \in 1..Len(queue) : queue'[i] = queue[i]
          /\ queue'[Len(queue) + 1] = o
      BY <2>2, <1>y, QueueEnds
    <3>2. \A i \in 1..Len(queue) : queue[i] # o
      BY <1>1, <1>d, SubmitFacts
    <3>3. UNCHANGED stopped
      BY <1>1, SubmitFacts
    <3>4. \A i \in DOMAIN queue' : phase'[queue'[i]] = "Queued"
      <4>. SUFFICES ASSUME NEW i \in 1..(Len(queue) + 1) PROVE phase'[queue'[i]] = "Queued"
        BY <3>1
      <4>1. i \in 1..Len(queue) \/ i = Len(queue) + 1
        BY <1>d
      <4>2. \A p \in Ops : phase'[p] = IF p = o THEN "Queued" ELSE phase[p]
        BY <2>2, <1>1, SubmitFacts
      <4>. QED
        BY <1>d, <1>i, <3>1, <3>2, <4>1, <4>2
    <3>5. \A i, j \in DOMAIN queue' : queue'[i] = queue'[j] => i = j
      <4>. SUFFICES ASSUME NEW i \in 1..(Len(queue) + 1), NEW j \in 1..(Len(queue) + 1),
                           queue'[i] = queue'[j]
                    PROVE  i = j
        BY <3>1
      <4>1. (i \in 1..Len(queue) \/ i = Len(queue) + 1)
            /\ (j \in 1..Len(queue) \/ j = Len(queue) + 1)
        BY <1>d
      <4>. QED
        BY <1>i, <3>1, <3>2, <4>1
    <3>. QED
      BY <2>2, <3>3, <3>4, <3>5 DEF QueueInv
  <2>. QED
    BY <1>1, <2>1, <2>2, SubmitFacts
<1>2. ASSUME NEW th \in Threads, Look(th) \/ TimesOut(th)
      PROVE  QueueInv'
  <2>1. CASE Pop(th) /\ queue # <<>> /\ UNCHANGED stopped
    <3>1. /\ Len(queue) > 0 /\ Head(queue) = queue[1]
          /\ DOMAIN queue' = 1..(Len(queue) - 1)
          /\ \A i \in 1..(Len(queue) - 1) : queue'[i] = queue[i + 1]
      BY <2>1, <1>y, QueueEnds DEF Pop
    <3>2. phase' = [phase EXCEPT ![queue[1]] = "Running"]
      BY <2>1, <3>1 DEF Pop
    <3>a. \A i \in 1..(Len(queue) - 1) :
              i + 1 \in 1..Len(queue) /\ i + 1 # 1 /\ 1 \in 1..Len(queue)
      BY <1>d
    <3>b. \A i \in 1..(Len(queue) - 1) : queue[i + 1] \in Ops /\ queue[i + 1] # queue[1]
      BY <1>d, <1>i, <3>a
    <3>3. \A i \in DOMAIN queue' : phase'[queue'[i]] = "Queued"
      <4>1. \A p \in Ops : p # queue[1] => phase'[p] = phase[p]
        BY <3>2, <1>y
      <4>. QED
        BY <1>i, <3>1, <3>a, <3>b, <4>1
    <3>4. \A i, j \in DOMAIN queue' : queue'[i] = queue'[j] => i = j
      <4>. SUFFICES ASSUME NEW i \in 1..(Len(queue) - 1), NEW j \in 1..(Len(queue) - 1),
                           queue[i + 1] = queue[j + 1]
                    PROVE  i = j
        BY <3>1
      <4>1. i + 1 = j + 1
        BY <1>i, <3>a
      <4>. QED
        BY <4>1
    <3>5. ~stopped
      BY <2>1 DEF Inv, QueueInv
    <3>. QED
      BY <2>1, <3>3, <3>4, <3>5 DEF QueueInv
  <2>2. CASE UNCHANGED <<queue, phase, stopped>>
    BY <2>2, <1>0
  <2>. QED
    BY <1>2, <2>1, <2>2 DEF Look, ThreadEnds, TimesOut, modes, opVars
<1>3. ASSUME NEW th \in Threads, NEW o \in Ops,
             \/ Operation(th, o)
             \/ Complete(th, o) \/ Release(th, o) \/ Finishes(th, o) \/ ThreadUnheard(th, o)
      PROVE  QueueInv'
  <2>1. phase'= phase
        \/ (phase[o] # "Queued" /\ \E p \in Phases : phase' = [phase EXCEPT ![o] = p])
    BY <1>3, Zenon DEF Operation, ClaimLook, ClaimDecide, Returns, Complete, Release, Finishes,
                ThreadUnheard, opVars, Inv, PhaseInv, ThreadAgrees, Over, Phases
  <2>2. UNCHANGED <<queue, stopped>>
    BY <1>3, Zenon DEF Operation, ClaimLook, ClaimDecide, Returns, Complete, Release, Finishes,
                ThreadUnheard, modes
  <2>3. \A i \in DOMAIN queue : phase'[queue[i]] = phase[queue[i]]
    BY <2>1, <1>d, <1>y DEF Inv, QueueInv
  <2>. QED
    BY <2>2, <2>3, <1>0
<1>4. ASSUME NEW o \in Ops, Waiter(o)
      PROVE  QueueInv'
  <2>1. CASE DropDecides(o) /\ queue' = Without(queue, o)
    <3>1. /\ \A i \in DOMAIN queue' : queue'[i] # o /\ \E j \in DOMAIN queue : queue'[i] = queue[j]
          /\ \A i, j \in DOMAIN queue' : queue'[i] = queue'[j] => i = j
      BY <2>1, <1>y, WithoutFacts DEF Inv, QueueInv
    <3>2. \A p \in Ops : p # o => phase'[p] = phase[p]
      BY <2>1, <1>y DEF DropDecides
    <3>3. \A i \in DOMAIN queue' : phase'[queue'[i]] = "Queued"
      BY <3>1, <3>2, <1>d DEF Inv, QueueInv
    <3>4. UNCHANGED stopped
      BY <2>1 DEF DropDecides, modes
    <3>5. stopped => queue' = <<>>
      <4>1. Without(<<>>, o) = <<>>
        BY DEF Without
      <4>. QED
        BY <2>1, <4>1 DEF Inv, QueueInv
    <3>. QED
      BY <3>1, <3>3, <3>4, <3>5 DEF QueueInv
  <2>2. CASE DropDecides(o) /\ queue' = queue /\ phase[o] # "Queued"
    <3>1. \A p \in Ops : p # o => phase'[p] = phase[p]
      BY <2>2, <1>y DEF DropDecides
    <3>2. UNCHANGED stopped
      BY <2>2 DEF DropDecides, modes
    <3>3. \A i \in DOMAIN queue : phase'[queue[i]] = phase[queue[i]]
      BY <2>2, <3>1, <1>d DEF Inv, QueueInv
    <3>. QED
      BY <2>2, <3>2, <3>3, <1>0
  <2>3. CASE UNCHANGED <<queue, phase, stopped>>
    BY <2>3, <1>0
  <2>4. DropDecides(o) => \/ queue' = Without(queue, o)
                          \/ queue' = queue /\ phase[o] # "Queued"
    BY DEF DropDecides
  <2>. QED
    BY Zenon, <1>4, <2>1, <2>2, <2>3, <2>4
       DEF Waiter, TakesNothingNew, Withhold, WithheldLeaves, Take, Detach, DropBegins,
           DropUnheard, modes
<1>5. ASSUME Stop
      PROVE  QueueInv'
  BY <1>5 DEF Stop, QueueInv
<1>. QED
  BY <1>1, <1>2, <1>3, <1>4, <1>5 DEF Next, ThreadGoesOn

\* An operation that runs has a thread that runs it.
LEMMA RunStep ==
    ASSUME TypeOK, Inv, HasNames, Next
    PROVE  RunInv'
<1>. USE DEF TypeOK, OpTypes, ThreadTypes, Runs
<1>1. ASSUME NEW o \in Ops, Submit(o)
      PROVE  RunInv'
  <2>1. UNCHANGED job /\ \A p \in Ops : phase'[p] = "Running" => phase[p] = "Running"
    BY <1>1, SubmitFacts, Zenon
  <2>2. \A th \in Threads : Runs(th) => at'[th] = at[th]
    BY <1>1, SubmitFacts, Zenon
  <2>. QED
    BY <2>1, <2>2 DEF Inv, RunInv
<1>2. ASSUME NEW th \in Threads, Look(th) \/ TimesOut(th)
      PROVE  RunInv'
  <2>1. CASE Pop(th) /\ queue # <<>> /\ at[th] \in Free
    <3>1. PICK o \in Ops : o = Head(queue)
      BY <2>1, QueueEnds DEF PoolTypes
    <3>2. /\ job' = [job EXCEPT ![th] = {o}] /\ at' = [at EXCEPT ![th] = "run"]
          /\ phase' = [phase EXCEPT ![o] = "Running"]
      BY <2>1, <3>1 DEF Pop
    <3>3. ~Runs(th)
      BY <2>1 DEF Free
    <3>. QED
      BY <3>2, <3>3 DEF Inv, RunInv
  <2>2. CASE /\ UNCHANGED <<job, phase>> /\ at[th] \in Free
             /\ \E a \in Free : at' = [at EXCEPT ![th] = a]
    BY <2>2 DEF Inv, RunInv, Free
  <2>. QED
    BY <1>2, <2>1, <2>2 DEF Look, ThreadEnds, TimesOut, opVars, Free
<1>3. ASSUME NEW th \in Threads, NEW o \in Ops, Operation(th, o)
      PROVE  RunInv'
  <2>1. CASE ClaimLook(th, o) \/ ClaimDecide(th, o)
    BY <2>1 DEF ClaimLook, ClaimDecide, opVars, Inv, RunInv
  <2>2. CASE Returns(th, o)
    <3>1. \A p \in job[th] : p = o
      BY <2>2 DEF Returns, Inv, JobInv
    <3>2. UNCHANGED job /\ \A u \in Threads : u # th => at'[u] = at[u]
      BY <2>2 DEF Returns
    <3>3. \A p \in Ops : phase'[p] = "Running" => p # o /\ phase[p] = "Running"
      BY <2>2 DEF Returns
    <3>. QED
      BY <3>1, <3>2, <3>3 DEF Inv, RunInv
  <2>. QED
    BY <1>3, <2>1, <2>2 DEF Operation
<1>4. ASSUME NEW th \in Threads, NEW o \in Ops,
             Complete(th, o) \/ Release(th, o) \/ Finishes(th, o) \/ ThreadUnheard(th, o)
      PROVE  RunInv'
  <2>1. ~Runs(th) /\ \A u \in Threads : u # th => at'[u] = at[u] /\ job'[u] = job[u]
    BY <1>4 DEF Complete, Release, Finishes, ThreadUnheard
  <2>2. \A p \in Ops : phase'[p] = "Running" => phase[p] = "Running"
    BY <1>4 DEF Complete, Release, Finishes, ThreadUnheard
  <2>. QED
    BY <2>1, <2>2 DEF Inv, RunInv
<1>5. ASSUME NEW o \in Ops, Waiter(o)
      PROVE  RunInv'
  <2>1. UNCHANGED <<at, job>>
    BY <1>5, Zenon DEF Waiter, TakesNothingNew, Withhold, WithheldLeaves, Take, Detach, DropBegins,
                DropDecides, DropUnheard, threadVars
  <2>2. \A p \in Ops : phase'[p] = "Running" => phase[p] = "Running"
    BY <1>5, Zenon DEF Waiter, TakesNothingNew, Withhold, WithheldLeaves, Take, Detach, DropBegins,
                DropDecides, DropUnheard
  <2>. QED
    BY <2>1, <2>2 DEF Inv, RunInv
<1>6. ASSUME Stop
      PROVE  RunInv'
  BY <1>6, Zenon DEF Stop, opVars, Inv, RunInv
<1>. QED
  BY <1>1, <1>2, <1>3, <1>4, <1>5, <1>6 DEF Next, ThreadGoesOn

\* What was left of a connection was closed when its waiter began to go.
LEMMA ClosedStep ==
    ASSUME TypeOK, Inv, HasNames, Next
    PROVE  ClosedInv'
<1>s. ASSUME NEW o \in Ops, Submit(o)
      PROVE  /\ UNCHANGED <<kind, taken, closed>> /\ waiter'[o] = "waits"
             /\ \A p \in Ops : p # o => waiter'[p] = waiter[p]
  <2>1. UNCHANGED <<kind, taken, closed>>
    BY <1>s, SubmitFacts, Zenon
  <2>2. waiter'[o] = "waits"
    BY <1>s, SubmitFacts
  <2>3. \A p \in Ops : p # o => waiter'[p] = waiter[p]
    BY <1>s, SubmitFacts
  <2>. QED
    BY <2>1, <2>2, <2>3
<1>. USE DEF TypeOK, OpTypes
<1>0. ASSUME UNCHANGED <<kind, taken, closed>>,
             \A o \in Ops : waiter'[o] \in {"leaving", "unheard", "gone"} =>
                              waiter[o] \in {"leaving", "unheard", "gone"}
      PROVE  ClosedInv'
  BY <1>0 DEF Inv, ClosedInv
<1>1. ASSUME NEW o \in Ops, Submit(o)
      PROVE  ClosedInv'
  BY <1>0, <1>1, <1>s
<1>2. ASSUME NEW th \in Threads, Look(th) \/ TimesOut(th)
      PROVE  ClosedInv'
  BY <1>2, <1>0 DEF Look, ThreadEnds, Pop, TimesOut, opVars
<1>3. ASSUME NEW th \in Threads, NEW o \in Ops,
             \/ Operation(th, o)
             \/ Complete(th, o) \/ Release(th, o) \/ Finishes(th, o) \/ ThreadUnheard(th, o)
      PROVE  ClosedInv'
  BY <1>3, <1>0, Zenon DEF Operation, ClaimLook, ClaimDecide, Returns, Complete, Release, Finishes,
                    ThreadUnheard, opVars
<1>4. ASSUME NEW o \in Ops, Waiter(o)
      PROVE  ClosedInv'
  <2>1. CASE DropBegins(o)
    BY <2>1 DEF DropBegins, Inv, ClosedInv
  <2>2. CASE WithheldLeaves(o)
    <3>1. ~taken[o]
      BY <2>2 DEF WithheldLeaves, Inv, WaiterInv, WaiterAgrees
    <3>. QED
      BY <2>2, <3>1 DEF WithheldLeaves, Inv, ClosedInv
  <2>3. CASE Take(o)
    BY <2>3 DEF Take, Inv, ClosedInv
  <2>4. CASE TakesNothingNew(o) \/ Withhold(o) \/ Detach(o) \/ DropDecides(o) \/ DropUnheard(o)
    BY <2>4, <1>0, Zenon DEF TakesNothingNew, Withhold, Detach, DropDecides, DropUnheard
  <2>. QED
    BY <1>4, <2>1, <2>2, <2>3, <2>4 DEF Waiter
<1>5. ASSUME Stop
      PROVE  ClosedInv'
  BY <1>5, <1>0 DEF Stop, opVars
<1>. QED
  BY <1>1, <1>2, <1>3, <1>4, <1>5 DEF Next, ThreadGoesOn

\* The thread that finishes an operation and the waiter that leaves it agree
\* on who went first.
LEMMA PhaseStep ==
    ASSUME TypeOK, Inv, HasNames, Next
    PROVE  PhaseInv'
<1>y. \A u \in Threads : job[u] \subseteq Ops
  BY DEF TypeOK, ThreadTypes
<1>i. \A u \in Threads : \A p \in job[u] : ThreadAgrees(at[u], left[u], phase[p], waiter[p])
  BY Zenon DEF Inv, PhaseInv
<1>j. /\ \A u \in Threads : at[u] \in Free <=> job[u] = {}
      /\ \A u \in Threads : \A o, p \in job[u] : o = p
      /\ \A th, u \in Threads : \A o \in job[th] : o \in job[u] => th = u
  BY Zenon DEF Inv, JobInv
<1>t. /\ at \in [Threads -> Free \cup {"run", "claim", "unheard"} \cup Over]
      /\ job \in [Threads -> SUBSET Ops] /\ left \in [Threads -> BOOLEAN]
      /\ waiter \in [Ops -> WaiterAt] /\ phase \in [Ops -> Phases]
  BY DEF TypeOK, OpTypes, ThreadTypes
<1>0. ASSUME UNCHANGED <<phase, waiter, left>>, NEW th \in Threads,
             \A u \in Threads : u # th => at'[u] = at[u] /\ job'[u] = job[u],
             \/ job'[th] = {}
             \/ job'[th] = job[th] /\ at[th] \in {"run", "claim"} /\ at'[th] \in {"run", "claim"}
             \/ job'[th] = job[th] /\ at[th] \in Over /\ at'[th] \in Over
      PROVE  PhaseInv'
  <2>1. ASSUME NEW p \in job'[th]
        PROVE  ThreadAgrees(at'[th], left[th], phase[p], waiter[p])
    <3>1. p \in job[th] /\ ThreadAgrees(at[th], left[th], phase[p], waiter[p])
      BY <1>0, <1>i, <2>1
    <3>. QED
      BY <3>1, <2>1, <1>0, Zenon DEF ThreadAgrees, Over
  <2>. QED
    BY <1>0, <1>i, <2>1, Zenon DEF PhaseInv
<1>1. ASSUME NEW o \in Ops, Submit(o)
      PROVE  PhaseInv'
  <2>1. UNCHANGED <<job, left>> /\ \A th \in Threads : o \notin job[th]
    BY <1>1, SubmitFacts, Zenon
  <2>2. \A p \in Ops : p # o => waiter'[p] = waiter[p] /\ phase'[p] = phase[p]
    BY <1>1, SubmitFacts
  <2>3. \A th \in Threads : at'[th] = at[th] \/ at[th] \in Free
    BY <1>1, SubmitFacts DEF Free
  <2>4. ASSUME NEW u \in Threads, NEW p \in job[u]
        PROVE  at'[u] = at[u] /\ waiter'[p] = waiter[p] /\ phase'[p] = phase[p]
    BY <1>y, <1>j, <2>1, <2>2, <2>3, <2>4
  <2>. QED
    BY <1>i, <2>1, <2>4 DEF PhaseInv
<1>2. ASSUME NEW th \in Threads, Look(th) \/ TimesOut(th)
      PROVE  PhaseInv'
  <2>1. CASE Pop(th) /\ queue # <<>> /\ at[th] \in Free
    <3>1. PICK o \in Ops : o = Head(queue) /\ phase[o] = "Queued"
      BY <2>1, QueueEnds DEF TypeOK, PoolTypes, Inv, QueueInv
    <3>2. ASSUME NEW u \in Threads PROVE o \notin job[u]
      <4>1. at[u] \notin Free => at[u] \in {"run", "claim", "unheard"} \cup Over
        BY <1>t
      <4>. QED
        BY <3>1, <4>1, <1>i, <1>j, Zenon DEF ThreadAgrees
    <3>3. /\ job' = [job EXCEPT ![th] = {o}] /\ at' = [at EXCEPT ![th] = "run"]
          /\ phase' = [phase EXCEPT ![o] = "Running"] /\ UNCHANGED <<waiter, left>>
      BY <2>1, <3>1 DEF Pop
    <3>4. /\ job'[th] = {o} /\ at'[th] = "run" /\ phase'[o] = "Running"
          /\ \A u \in Threads : u # th => job'[u] = job[u] /\ at'[u] = at[u]
          /\ \A p \in Ops : p # o => phase'[p] = phase[p]
      BY <3>3, <1>t
    <3>5. ThreadAgrees("run", left[th], "Running", waiter[o])
      BY DEF ThreadAgrees, Over
    <3>6. ASSUME NEW u \in Threads, u # th, NEW p \in job[u]
          PROVE  phase'[p] = phase[p]
      BY <3>2, <3>4, <3>6, <1>y
    <3>7. ASSUME NEW u \in Threads, NEW p \in job'[u]
          PROVE  ThreadAgrees(at'[u], left'[u], phase'[p], waiter'[p])
      <4>1. CASE u = th
        BY <3>3, <3>4, <3>5, <3>7, <4>1
      <4>2. CASE u # th
        BY <3>3, <3>4, <3>6, <3>7, <4>2, <1>i
      <4>. QED
        BY <4>1, <4>2
    <3>. QED
      BY <3>7 DEF PhaseInv
  <2>2. CASE /\ UNCHANGED <<job, waiter, phase, left>> /\ at[th] \in Free
             /\ \E a \in Free : at' = [at EXCEPT ![th] = a]
    <3>1. job'[th] = {} /\ \A u \in Threads : u # th => at'[u] = at[u] /\ job'[u] = job[u]
      BY <2>2, <1>j, <1>t
    <3>. QED
      BY <1>0, <2>2, <3>1
  <2>. QED
    BY <1>2, <2>1, <2>2 DEF Look, ThreadEnds, TimesOut, opVars, Free
<1>3. ASSUME NEW th \in Threads, NEW o \in Ops, Operation(th, o)
      PROVE  PhaseInv'
  <2>1. CASE ClaimLook(th, o) \/ ClaimDecide(th, o)
    <3>1. /\ UNCHANGED <<phase, waiter, left, job>> /\ at[th] \in {"run", "claim"}
          /\ \E a \in {"run", "claim"} : at' = [at EXCEPT ![th] = a]
      BY <2>1 DEF ClaimLook, ClaimDecide, opVars
    <3>2. at'[th] \in {"run", "claim"} /\ \A u \in Threads : u # th => at'[u] = at[u]
      BY <3>1, <1>t
    <3>. QED
      BY <1>0, <3>1, <3>2
  <2>2. CASE Returns(th, o)
    <3>1. phase[o] \in {"Running", "Left"} /\ (phase[o] = "Left" <=> waiter[o] = "gone")
      <4>1. at[th] = "run" /\ o \in job[th]
        BY <2>2, Zenon DEF Returns
      <4>2. phase[o] \in {"Running", "Left"}
        BY <4>1, <1>i DEF ThreadAgrees
      <4>3. WaiterAgrees(waiter[o], phase[o], taken[o], told[o])
        BY Zenon DEF Inv, WaiterInv
      <4>. QED
        BY <4>2, <4>3 DEF WaiterAgrees
    <3>2. /\ \A u \in Threads : o \in job[u] => u = th
          /\ \A p \in job[th] : p = o
      BY <2>2, <1>j DEF Returns
    <3>3. at'[th] = "complete" /\ phase'[o] = "Finishing" /\ (left'[th] <=> waiter[o] = "gone")
      BY <2>2, <3>1, <1>t, Zenon DEF Returns
    <3>4. /\ \A u \in Threads : u # th => at'[u] = at[u] /\ left'[u] = left[u]
          /\ \A p \in Ops : p # o => phase'[p] = phase[p]
          /\ UNCHANGED <<job, waiter>>
      BY <2>2, <1>t DEF Returns
    <3>5. ASSUME NEW u \in Threads, u # th, NEW p \in job[u]
          PROVE  phase'[p] = phase[p] /\ at'[u] = at[u] /\ left'[u] = left[u]
      BY <3>2, <3>4, <3>5, <1>y
    <3>6. ThreadAgrees(at'[th], left'[th], phase'[o], waiter[o])
      BY <3>3 DEF ThreadAgrees, Over
    <3>. QED
      BY <3>2, <3>4, <3>5, <3>6, <1>i, Zenon DEF PhaseInv
  <2>. QED
    BY <1>3, <2>1, <2>2 DEF Operation
<1>4. ASSUME NEW th \in Threads, NEW o \in Ops, Complete(th, o) \/ Release(th, o)
      PROVE  PhaseInv'
  <2>1. /\ UNCHANGED <<phase, waiter, left, job>> /\ at[th] \in Over
        /\ \E a \in Over : at' = [at EXCEPT ![th] = a]
    BY <1>4 DEF Complete, Release, Over
  <2>2. at'[th] \in Over /\ \A u \in Threads : u # th => at'[u] = at[u]
    BY <2>1, <1>t
  <2>. QED
    BY <1>0, <2>1, <2>2
<1>5. ASSUME NEW th \in Threads, NEW o \in Ops, Finishes(th, o)
      PROVE  PhaseInv'
  <2>1. /\ \A u \in Threads : o \in job[u] => u = th
        /\ \A p \in job[th] : p = o
        /\ at[th] \in Over /\ o \in job[th]
    BY <1>5, <1>j DEF Finishes, Over
  <2>2. left[th] \/ phase[o] = "Gone" => waiter[o] = "gone"
    <3>1. WaiterAgrees(waiter[o], phase[o], taken[o], told[o])
      BY DEF Inv, WaiterInv
    <3>2. ThreadAgrees(at[th], left[th], phase[o], waiter[o])
      BY <2>1, <1>i
    <3>. QED
      BY <2>1, <3>1, <3>2 DEF WaiterAgrees, ThreadAgrees
  <2>3. /\ phase'[o] = "Finished" /\ UNCHANGED <<waiter, left>>
        /\ \/ job'[th] = {}
           \/ at'[th] = "unheard" /\ job'[th] = job[th] /\ (left[th] \/ phase[o] = "Gone")
    BY <1>5, <1>t DEF Finishes
  <2>4. /\ \A u \in Threads : u # th => at'[u] = at[u] /\ job'[u] = job[u]
        /\ \A p \in Ops : p # o => phase'[p] = phase[p]
    BY <1>5, <1>t DEF Finishes
  <2>5. ASSUME NEW u \in Threads, u # th, NEW p \in job[u]
        PROVE  phase'[p] = phase[p]
    BY <2>1, <2>4, <2>5, <1>y
  <2>6. ASSUME NEW p \in job'[th]
        PROVE  ThreadAgrees(at'[th], left[th], phase'[p], waiter[p])
    <3>1. p = o /\ at'[th] = "unheard" /\ waiter[o] = "gone"
      BY <2>1, <2>2, <2>3, <2>6
    <3>. QED
      BY <3>1, <2>3 DEF ThreadAgrees, Over
  <2>. QED
    BY <2>3, <2>4, <2>5, <2>6, <1>i, Zenon DEF PhaseInv
<1>6. ASSUME NEW th \in Threads, NEW o \in Ops, ThreadUnheard(th, o)
      PROVE  PhaseInv'
  <2>1. /\ UNCHANGED <<phase, waiter, left>> /\ job'[th] = {}
        /\ \A u \in Threads : u # th => at'[u] = at[u] /\ job'[u] = job[u]
    BY <1>6, <1>t DEF ThreadUnheard
  <2>. QED
    BY <1>0, <2>1
<1>7. ASSUME NEW o \in Ops, Waiter(o)
      PROVE  PhaseInv'
  <2>1. UNCHANGED <<at, job, left>>
    BY <1>7, Zenon DEF Waiter, TakesNothingNew, Withhold, WithheldLeaves, Take, Detach, DropBegins,
                DropDecides, DropUnheard, threadVars
  <2>2. \A p \in Ops : p # o => waiter'[p] = waiter[p] /\ phase'[p] = phase[p]
    BY <1>7, <1>t, Zenon DEF Waiter, TakesNothingNew, Withhold, WithheldLeaves, Take, Detach,
            DropBegins,
                      DropDecides, DropUnheard
  <2>3. \/ /\ waiter[o] # "gone"
           /\ \/ phase[o] \in {"Queued", "Running"} /\ phase'[o] = "Left"
              \/ phase[o] = "Finishing" /\ phase'[o] = "Gone"
              \/ phase[o] = "Finished" /\ phase'[o] = "Finished"
        \/ phase[o] \in {"Finished", "None"} /\ waiter[o] # "gone" /\ phase'[o] = phase[o]
        \/ phase'[o] = phase[o] /\ waiter[o] # "gone" /\ waiter'[o] # "gone"
    <3>1. CASE DropDecides(o)
      BY <3>1, <1>t, Zenon DEF DropDecides
    <3>2. CASE DropUnheard(o) \/ WithheldLeaves(o)
      <4>1. waiter[o] \in {"unheard", "withheld"} /\ UNCHANGED phase
        BY <3>2, Zenon DEF DropUnheard, WithheldLeaves
      <4>2. WaiterAgrees(waiter[o], phase[o], taken[o], told[o])
        BY DEF Inv, WaiterInv
      <4>. QED
        BY <4>1, <4>2, Zenon DEF WaiterAgrees
    <3>3. CASE TakesNothingNew(o) \/ Withhold(o) \/ Take(o) \/ Detach(o) \/ DropBegins(o)
      BY <3>3, <1>t, Zenon DEF TakesNothingNew, Withhold, Take, Detach, DropBegins, Begins
    <3>. QED
      BY <1>7, <3>1, <3>2, <3>3, Zenon DEF Waiter
  <2>4. ASSUME NEW u \in Threads, NEW p \in job[u]
        PROVE  ThreadAgrees(at[u], left[u], phase'[p], waiter'[p])
    <3>1. CASE p = o
      <4>1. ThreadAgrees(at[u], left[u], phase[o], waiter[o])
        BY <1>i, <2>4, <3>1
      <4>. QED
        BY <2>3, <3>1, <4>1 DEF ThreadAgrees, Over
    <3>2. CASE p # o
      BY <1>i, <1>y, <2>2, <2>4, <3>2
    <3>. QED
      BY <3>1, <3>2, Zenon
  <2>. QED
    BY <2>1, <2>4 DEF PhaseInv
<1>8. ASSUME Stop
      PROVE  PhaseInv'
  <2>1. /\ UNCHANGED <<phase, waiter, left, job>>
        /\ \A u \in Threads : at'[u] = at[u] \/ at[u] \in Free
    BY <1>8, <1>t DEF Stop, opVars, Free
  <2>. QED
    BY <2>1, <1>i, <1>j DEF PhaseInv
<1>. QED
  BY <1>1, <1>2, <1>3, <1>4, <1>5, <1>6, <1>7, <1>8 DEF Next, ThreadGoesOn

\* Where a waiter stands and how far its operation is go together.
LEMMA WaiterStep ==
    ASSUME TypeOK, Inv, HasNames, Next
    PROVE  WaiterInv'
<1>t. waiter \in [Ops -> WaiterAt] /\ phase \in [Ops -> Phases]
      /\ taken \in [Ops -> BOOLEAN] /\ told \in [Ops -> BOOLEAN]
  BY DEF TypeOK, OpTypes
<1>i. \A o \in Ops : WaiterAgrees(waiter[o], phase[o], taken[o], told[o])
  BY DEF Inv, WaiterInv
<1>0. ASSUME NEW o \in Ops, WaiterAgrees(waiter'[o], phase'[o], taken'[o], told'[o]),
             \A p \in Ops : p # o => /\ waiter'[p] = waiter[p] /\ phase'[p] = phase[p]
                                    /\ taken'[p] = taken[p] /\ told'[p] = told[p]
      PROVE  WaiterInv'
  BY <1>0, <1>i DEF WaiterInv
<1>1. ASSUME NEW o \in Ops, Submit(o)
      PROVE  WaiterInv'
  <2>1. /\ waiter'[o] = "waits" /\ phase'[o] \in {"Queued", "Finished"} /\ ~told[o]
        /\ \A p \in Ops : p # o => waiter'[p] = waiter[p] /\ phase'[p] = phase[p]
        /\ UNCHANGED <<taken, told>>
    BY <1>1, SubmitFacts
  <2>2. WaiterAgrees(waiter'[o], phase'[o], taken[o], told[o])
    BY <2>1 DEF WaiterAgrees
  <2>. QED
    BY <2>1, <2>2, <1>0
<1>2. ASSUME NEW th \in Threads, Look(th) \/ TimesOut(th)
      PROVE  WaiterInv'
  <2>1. CASE Pop(th) /\ queue # <<>>
    <3>1. PICK o \in Ops : o = Head(queue) /\ phase[o] = "Queued"
      BY <2>1, QueueEnds DEF TypeOK, PoolTypes, Inv, QueueInv
    <3>2. phase' = [phase EXCEPT ![o] = "Running"] /\ UNCHANGED <<waiter, taken, told>>
      BY <2>1, <3>1 DEF Pop
    <3>3. phase'[o] = "Running" /\ \A p \in Ops : p # o => phase'[p] = phase[p]
      BY <3>2, <1>t
    <3>4. WaiterAgrees(waiter[o], phase[o], taken[o], told[o])
      BY <1>i
    <3>5. WaiterAgrees(waiter[o], phase'[o], taken[o], told[o])
      BY <3>1, <3>3, <3>4 DEF WaiterAgrees
    <3>. QED
      BY <3>2, <3>3, <3>5, <1>0, Zenon
  <2>2. CASE UNCHANGED <<waiter, phase, taken, told>>
    BY <2>2, <1>i DEF WaiterInv
  <2>. QED
    BY <1>2, <2>1, <2>2 DEF Look, ThreadEnds, TimesOut, opVars
<1>3. ASSUME NEW th \in Threads, NEW o \in Ops,
             \/ Operation(th, o)
             \/ Complete(th, o) \/ Release(th, o) \/ Finishes(th, o) \/ ThreadUnheard(th, o)
      PROVE  WaiterInv'
  <2>1. UNCHANGED <<waiter, taken, told>>
    BY <1>3, Zenon DEF Operation, ClaimLook, ClaimDecide, Returns, Complete, Release, Finishes,
                ThreadUnheard, opVars
  <2>2. \/ UNCHANGED phase
        \/ /\ Returns(th, o) /\ at[th] = "run" /\ o \in job[th]
           /\ phase' = [phase EXCEPT ![o] = "Finishing"]
        \/ /\ Finishes(th, o) /\ at[th] = "finished" /\ o \in job[th]
           /\ phase' = [phase EXCEPT ![o] = "Finished"]
    BY <1>3, Zenon DEF Operation, ClaimLook, ClaimDecide, Returns, Complete, Release, Finishes,
                ThreadUnheard, opVars
  <2>3. CASE ~UNCHANGED phase
    <3>1. phase'[o] \in {"Finishing", "Finished"} /\ \A p \in Ops : p # o => phase'[p] = phase[p]
      BY <2>2, <2>3, <1>t, Zenon
    <3>2. /\ at[th] \in {"run", "finished"}
          /\ ThreadAgrees(at[th], left[th], phase[o], waiter[o])
      BY <2>2, <2>3, Zenon DEF Inv, PhaseInv
    <3>3. /\ phase[o] \in {"Running", "Left", "Finishing", "Gone"}
          /\ (phase'[o] = "Finishing" => at[th] = "run")
      BY <2>2, <2>3, <3>2, <1>t DEF ThreadAgrees, Over
    <3>4. WaiterAgrees(waiter[o], phase[o], taken[o], told[o])
      BY <1>i
    <3>5. WaiterAgrees(waiter[o], phase'[o], taken[o], told[o])
      BY <3>1, <3>3, <3>4 DEF WaiterAgrees
    <3>. QED
      BY <2>1, <3>1, <3>5, <1>0, Zenon
  <2>4. CASE UNCHANGED phase
    BY <2>1, <2>4, <1>i DEF WaiterInv
  <2>. QED
    BY <2>3, <2>4
<1>4. ASSUME NEW o \in Ops, Waiter(o)
      PROVE  WaiterInv'
  <2>1. \A p \in Ops : p # o => /\ waiter'[p] = waiter[p] /\ phase'[p] = phase[p]
                               /\ taken'[p] = taken[p] /\ told'[p] = told[p]
    <3>1. CASE DropDecides(o)
      BY <3>1, <1>t DEF DropDecides
    <3>2. CASE ~DropDecides(o)
      BY <1>4, <3>2, <1>t, Zenon DEF Waiter, TakesNothingNew, Withhold, WithheldLeaves, Take,
              Detach,
                              DropBegins, DropUnheard
    <3>. QED
      BY <3>1, <3>2
  <2>2. WaiterAgrees(waiter[o], phase[o], taken[o], told[o])
    BY <1>i
  <2>3. CASE DropDecides(o)
    <3>1. /\ waiter[o] = "leaving"
          /\ waiter'[o] = IF phase[o] = "Finished" THEN "unheard" ELSE "gone"
          /\ phase'[o] = IF phase[o] = "Finished" THEN "Finished"
                         ELSE IF phase[o] = "Finishing" THEN "Gone" ELSE "Left"
          /\ phase[o] = "Finished" => told'[o] = told[o]
      BY <2>3, <1>t DEF DropDecides
    <3>2. WaiterAgrees(waiter'[o], phase'[o], taken'[o], told'[o])
      BY <3>1, <2>2 DEF WaiterAgrees
    <3>. QED
      BY <2>1, <3>2, <1>0, Zenon
  <2>4. CASE DropUnheard(o) \/ WithheldLeaves(o)
    <3>1. /\ waiter[o] \in {"unheard", "withheld"} /\ waiter'[o] = "gone"
          /\ UNCHANGED <<phase, taken, told>>
      BY <2>4, <1>t DEF DropUnheard, WithheldLeaves
    <3>2. WaiterAgrees(waiter'[o], phase[o], taken[o], told[o])
      BY <3>1, <2>2 DEF WaiterAgrees
    <3>. QED
      BY <2>1, <3>1, <3>2, <1>0, Zenon
  <2>5. CASE TakesNothingNew(o) \/ Withhold(o) \/ Take(o) \/ Detach(o) \/ DropBegins(o)
    <3>1. /\ UNCHANGED <<phase, told>>
          /\ \/ waiter'[o] = waiter[o] /\ taken'[o] = taken[o]
             \/ waiter[o] = "idle" /\ waiter'[o] = "withheld" /\ taken'[o] = taken[o]
             \/ waiter[o] \in {"waits", "has"} /\ waiter'[o] \in {"has", "detached", "leaving"}
      BY <2>5, <1>t DEF TakesNothingNew, Withhold, Take, Detach, DropBegins, Begins
    <3>2. WaiterAgrees(waiter'[o], phase[o], taken'[o], told[o])
      BY <3>1, <2>2 DEF WaiterAgrees
    <3>. QED
      BY <2>1, <3>1, <3>2, <1>0
  <2>. QED
    BY <1>4, <2>3, <2>4, <2>5 DEF Waiter
<1>5. ASSUME Stop
      PROVE  WaiterInv'
  BY <1>5, <1>i, Zenon DEF Stop, opVars, WaiterInv
<1>. QED
  BY <1>1, <1>2, <1>3, <1>4, <1>5 DEF Next, ThreadGoesOn

\* The thread and the waiter do not both give a value back, nor does neither.
LEMMA GiveBackStep ==
    ASSUME TypeOK, Inv, HasNames, Next
    PROVE  GiveBackInv'
<1>t. /\ waiter \in [Ops -> WaiterAt] /\ phase \in [Ops -> Phases]
      /\ taken \in [Ops -> BOOLEAN] /\ giveBack \in [Ops -> BOOLEAN] /\ gaveBack \in [Ops -> Nat]
      /\ job \in [Threads -> SUBSET Ops]
  BY DEF TypeOK, OpTypes, ThreadTypes
<1>i. \A o \in Ops : GivenBack(giveBack[o], gaveBack[o], kind[o], waiter[o], taken[o])
  BY Zenon DEF Inv, GiveBackInv
<1>k. \A o \in Ops : giveBack[o] /\ waiter[o] = "gone" /\ phase[o] = "Finished" =>
                        \E th \in Threads : o \in job[th]
  BY DEF Inv, GiveBackInv
<1>w. \A o \in Ops : WaiterAgrees(waiter[o], phase[o], taken[o], told[o])
  BY DEF Inv, WaiterInv
<1>0. ASSUME UNCHANGED <<kind, giveBack, gaveBack>>, NEW o \in Ops,
             \A p \in Ops : p # o => /\ waiter'[p] = waiter[p] /\ taken'[p] = taken[p]
                                    /\ phase'[p] = phase[p]
                                    /\ \A th \in Threads : p \in job[th] => p \in job'[th],
             GivenBack(giveBack[o], gaveBack[o], kind[o], waiter'[o], taken'[o]),
             giveBack[o] /\ waiter'[o] = "gone" /\ phase'[o] = "Finished" =>
                \E th \in Threads : o \in job'[th]
      PROVE  GiveBackInv'
  <2>. SUFFICES ASSUME NEW p \in Ops
                PROVE  /\ GivenBack(giveBack[p], gaveBack[p], kind[p], waiter'[p], taken'[p])
                       /\ giveBack[p] /\ waiter'[p] = "gone" /\ phase'[p] = "Finished" =>
                            \E th \in Threads : p \in job'[th]
    BY <1>0, Zenon DEF GiveBackInv
  <2>1. CASE p = o
    BY <1>0, <2>1
  <2>2. CASE p # o
    <3>1. /\ waiter'[p] = waiter[p] /\ taken'[p] = taken[p] /\ phase'[p] = phase[p]
          /\ \A th \in Threads : p \in job[th] => p \in job'[th]
      BY <1>0, <2>2, Zenon
    <3>. QED
      BY <3>1, <1>i, <1>k
  <2>. QED
    BY <2>1, <2>2
<1>u. ASSUME NEW o \in Ops, Unheard(o), waiter'[o] = "gone", UNCHANGED <<kind, taken, phase>>,
             \A p \in Ops : p # o => /\ waiter'[p] = waiter[p]
                                    /\ \A th \in Threads : p \in job[th] => p \in job'[th]
      PROVE  GiveBackInv'
  <2>1. giveBack'[o] = FALSE /\ \A p \in Ops : p # o => giveBack'[p] = giveBack[p]
    BY <1>u, <1>t DEF Unheard
  <2>2. /\ giveBack[o] /\ ~taken[o] => gaveBack'[o] = gaveBack[o] + 1
        /\ ~(giveBack[o] /\ ~taken[o]) => gaveBack'[o] = gaveBack[o]
        /\ \A p \in Ops : p # o => gaveBack'[p] = gaveBack[p]
    BY <1>u, <1>t DEF Unheard
  <2>3. GivenBack(giveBack[o], gaveBack[o], kind[o], waiter[o], taken[o])
    BY <1>i
  <2>4. GivenBack(FALSE, gaveBack'[o], kind[o], "gone", taken[o])
    <3>1. CASE giveBack[o] /\ ~taken[o]
      <4>1. gaveBack[o] = 0 /\ GivesBack(kind[o])
        BY <2>3, <3>1 DEF GivenBack
      <4>2. gaveBack'[o] = 1
        BY <2>2, <3>1, <4>1
      <4>. QED
        BY <3>1, <4>1, <4>2 DEF GivenBack
    <3>2. CASE ~giveBack[o]
      BY <2>2, <2>3, <3>2 DEF GivenBack
    <3>3. CASE giveBack[o] /\ taken[o]
      BY <2>2, <2>3, <3>3 DEF GivenBack
    <3>. QED
      BY <3>1, <3>2, <3>3, Zenon
  <2>. SUFFICES ASSUME NEW p \in Ops
                PROVE  /\ GivenBack(giveBack'[p], gaveBack'[p], kind[p], waiter'[p], taken[p])
                       /\ giveBack'[p] /\ waiter'[p] = "gone" /\ phase[p] = "Finished" =>
                            \E th \in Threads : p \in job'[th]
    BY <1>u DEF GiveBackInv
  <2>5. CASE p = o
    BY <1>u, <2>1, <2>4, <2>5, Zenon
  <2>6. CASE p # o
    <3>1. /\ waiter'[p] = waiter[p] /\ giveBack'[p] = giveBack[p] /\ gaveBack'[p] = gaveBack[p]
          /\ \A th \in Threads : p \in job[th] => p \in job'[th]
      BY <1>u, <2>1, <2>2, <2>6
    <3>. QED
      BY <3>1, <1>i, <1>k
  <2>. QED
    BY <2>5, <2>6
<1>1. ASSUME NEW o \in Ops, Submit(o)
      PROVE  GiveBackInv'
  <2>1. /\ waiter'[o] = "waits" /\ (giveBack[o] <=> GivesBack(kind[o]))
        /\ \A p \in Ops : p # o => waiter'[p] = waiter[p] /\ phase'[p] = phase[p]
        /\ UNCHANGED <<kind, taken, giveBack, gaveBack, job>>
    BY <1>1, SubmitFacts
  <2>2. GivenBack(giveBack[o], gaveBack[o], kind[o], waiter'[o], taken[o])
    BY <2>1, <1>i DEF GivenBack
  <2>. QED
    BY <2>1, <2>2, <1>0
<1>2. ASSUME NEW th \in Threads, Look(th) \/ TimesOut(th)
      PROVE  GiveBackInv'
  <2>1. CASE Pop(th) /\ queue # <<>> /\ at[th] \in Free
    <3>1. PICK o \in Ops : o = Head(queue)
      BY <2>1, QueueEnds DEF TypeOK, PoolTypes
    <3>2. /\ job' = [job EXCEPT ![th] = {o}] /\ phase' = [phase EXCEPT ![o] = "Running"]
          /\ UNCHANGED <<waiter, kind, taken, giveBack, gaveBack>>
      BY <2>1, <3>1 DEF Pop
    <3>3. job[th] = {}
      BY <2>1 DEF Inv, JobInv
    <3>4. /\ phase'[o] = "Running" /\ \A p \in Ops : p # o => phase'[p] = phase[p]
          /\ \A u \in Threads : job[u] \subseteq job'[u]
      BY <3>2, <3>3, <1>t
    <3>. QED
      BY <3>2, <3>4, <1>0, <1>i, Zenon
  <2>2. CASE UNCHANGED <<job, waiter, kind, taken, phase, giveBack, gaveBack>>
    BY <2>2, <1>i, <1>k, Zenon DEF GiveBackInv
  <2>. QED
    BY <1>2, <2>1, <2>2 DEF Look, ThreadEnds, TimesOut, opVars, Free
<1>3. ASSUME NEW th \in Threads, NEW o \in Ops,
             Operation(th, o) \/ Complete(th, o) \/ Release(th, o)
      PROVE  GiveBackInv'
  <2>1. phase' = phase \/ phase' = [phase EXCEPT ![o] = "Finishing"]
    BY <1>3, Zenon DEF Operation, ClaimLook, ClaimDecide, Returns, Complete, Release, opVars
  <2>2. UNCHANGED <<job, waiter, kind, taken, giveBack, gaveBack>>
    BY <1>3, Zenon DEF Operation, ClaimLook, ClaimDecide, Returns, Complete, Release, opVars
  <2>3. /\ phase'[o] = phase[o] \/ phase'[o] = "Finishing"
        /\ \A p \in Ops : p # o => phase'[p] = phase[p]
    BY <2>1, <1>t
  <2>. QED
    BY <2>2, <2>3, <1>0, <1>i, <1>k, Zenon
<1>4. ASSUME NEW th \in Threads, NEW o \in Ops, Finishes(th, o)
      PROVE  GiveBackInv'
  <2>1. o \in job[th] /\ at[th] \in Over /\ \A p \in job[th] : p = o
    BY <1>4, Zenon DEF Finishes, Inv, JobInv, Over
  <2>2. waiter[o] # "gone" \/ job'[th] = job[th]
    <3>1. ThreadAgrees(at[th], left[th], phase[o], waiter[o])
      BY <2>1 DEF Inv, PhaseInv
    <3>2. left[th] \/ phase[o] = "Gone" => job' = job
      BY <1>4 DEF Finishes
    <3>. QED
      BY <2>1, <3>1, <3>2 DEF ThreadAgrees
  <2>3. /\ \A p \in Ops : p # o => phase'[p] = phase[p]
        /\ \A u \in Threads : u # th => job'[u] = job[u]
        /\ UNCHANGED <<waiter, kind, taken, giveBack, gaveBack>>
    BY <1>4, <1>t DEF Finishes
  <2>. QED
    BY <2>1, <2>2, <2>3, <1>0, <1>i, Zenon
<1>5. ASSUME NEW th \in Threads, NEW o \in Ops, ThreadUnheard(th, o)
      PROVE  GiveBackInv'
  <2>1. o \in job[th] /\ at[th] = "unheard" /\ \A p \in job[th] : p = o
    BY <1>5 DEF ThreadUnheard, Inv, JobInv
  <2>2. waiter[o] = "gone" /\ UNCHANGED <<waiter, kind, taken, phase>>
    <3>1. ThreadAgrees(at[th], left[th], phase[o], waiter[o])
      BY <2>1 DEF Inv, PhaseInv
    <3>. QED
      BY <1>5, <2>1, <3>1 DEF ThreadUnheard, ThreadAgrees
  <2>3. Unheard(o) /\ \A u \in Threads : u # th => job'[u] = job[u]
    BY <1>5, <1>t DEF ThreadUnheard
  <2>. QED
    BY <1>u, <2>1, <2>2, <2>3
<1>6. ASSUME NEW o \in Ops, Waiter(o)
      PROVE  GiveBackInv'
  <2>0. UNCHANGED <<job, kind>>
    BY <1>6, Zenon DEF Waiter, TakesNothingNew, Withhold, WithheldLeaves, Take, Detach, DropBegins,
                DropDecides, DropUnheard, threadVars
  <2>1. CASE DropDecides(o)
    <3>1. /\ waiter[o] = "leaving" /\ (waiter'[o] = "gone" => phase'[o] # "Finished")
          /\ \A p \in Ops : p # o => waiter'[p] = waiter[p] /\ phase'[p] = phase[p]
          /\ UNCHANGED <<taken, giveBack, gaveBack>>
      BY <2>1, <1>t, Zenon DEF DropDecides
    <3>2. GivenBack(giveBack[o], gaveBack[o], kind[o], waiter'[o], taken[o])
      BY <3>1, <1>i, Zenon DEF GivenBack
    <3>. QED
      BY <2>0, <3>1, <3>2, <1>0, Zenon
  <2>2. CASE DropUnheard(o)
    <3>1. /\ Unheard(o) /\ waiter'[o] = "gone" /\ UNCHANGED <<taken, phase>>
          /\ \A p \in Ops : p # o => waiter'[p] = waiter[p]
      BY <2>2, <1>t DEF DropUnheard
    <3>. QED
      BY <1>u, <2>0, <3>1
  <2>3. CASE WithheldLeaves(o)
    <3>1. phase[o] = "None" /\ waiter[o] = "withheld"
      BY <2>3, <1>w DEF WithheldLeaves, WaiterAgrees
    <3>2. /\ \A p \in Ops : p # o => waiter'[p] = waiter[p]
          /\ UNCHANGED <<phase, taken, giveBack, gaveBack>>
      BY <2>3, <1>t DEF WithheldLeaves
    <3>3. GivenBack(giveBack[o], gaveBack[o], kind[o], waiter'[o], taken[o])
      BY <3>1, <1>i, Zenon DEF GivenBack
    <3>. QED
      BY <2>0, <3>1, <3>2, <3>3, <1>0, Zenon
  <2>4. CASE TakesNothingNew(o) \/ Withhold(o) \/ Take(o) \/ Detach(o) \/ DropBegins(o)
    <3>1. /\ waiter[o] # "gone" /\ waiter'[o] # "gone"
          /\ \A p \in Ops : p # o => waiter'[p] = waiter[p] /\ taken'[p] = taken[p]
          /\ UNCHANGED <<phase, giveBack, gaveBack>>
      BY <2>4, <1>t, Zenon DEF TakesNothingNew, Withhold, Take, Detach, DropBegins, Begins
    <3>2. GivenBack(giveBack[o], gaveBack[o], kind[o], waiter'[o], taken'[o])
      BY <3>1, <1>i, Zenon DEF GivenBack
    <3>. QED
      BY <2>0, <3>1, <3>2, <1>0, Zenon
  <2>. QED
    BY <1>6, <2>1, <2>2, <2>3, <2>4 DEF Waiter
<1>7. ASSUME Stop
      PROVE  GiveBackInv'
  BY <1>7, <1>i, <1>k, Zenon DEF Stop, opVars, GiveBackInv
<1>. QED
  BY <1>1, <1>2, <1>3, <1>4, <1>5, <1>6, <1>7 DEF Next, ThreadGoesOn

-----------------------------------------------------------------------------
(* The counts, and the theorems.                                           *)

\* A thread was started by an operation of its own, so that the next one finds
\* a name for its thread.
Alive == {th \in Threads : at[th] # "none"}
Begun == {o \in Ops : waiter[o] # "idle"}
NamesInv == Cardinality(Alive) <= Cardinality(Begun)

-----------------------------------------------------------------------------
(* The names of threads.                                                   *)

\* submit finds a thread that does not exist yet, when it is to start one.
LEMMA FreeName == NamesInv => HasNames
<1>. SUFFICES ASSUME NamesInv, NEW o \in Ops, waiter[o] = "idle", Alive = Threads PROVE FALSE
  BY DEF Alive, HasNames
<1>1. Begun \in SUBSET (Ops \ {o})
  BY DEF Begun
<1>2. IsFiniteSet(Ops \ {o}) /\ Cardinality(Ops \ {o}) = Cardinality(Ops) - 1
  BY Finite, FS_RemoveElement
<1>3. Cardinality(Begun) <= Cardinality(Ops \ {o})
  BY <1>1, <1>2, FS_Subset
<1>4. Cardinality(Ops) \in Nat /\ Cardinality(Threads) \in Nat /\ Cardinality(Begun) \in Nat
  BY <1>1, <1>2, Finite, FS_CardinalityType, FS_Subset
<1>. QED
  BY <1>2, <1>3, <1>4, Names DEF NamesInv

\* A step starts a thread only together with an operation.
LEMMA NamesStep ==
    ASSUME TypeOK, NamesInv, JobInv, Next
    PROVE  NamesInv'
<1>. USE DEF TypeOK, OpTypes, ThreadTypes
<1>f. IsFiniteSet(Alive) /\ IsFiniteSet(Begun)
  <2>1. Alive \in SUBSET Threads /\ Begun \in SUBSET Ops
    BY DEF Alive, Begun
  <2>. QED
    BY <2>1, Finite, FS_Subset
<1>g. IsFiniteSet(Begun') /\ Cardinality(Alive) \in Nat /\ Cardinality(Begun) \in Nat
  <2>1. Begun' \in SUBSET Ops
    BY DEF Begun
  <2>. QED
    BY <1>f, <2>1, Finite, FS_Subset, FS_CardinalityType
<1>1. ASSUME Alive' \subseteq Alive, Begun \subseteq Begun'
      PROVE  NamesInv'
  <2>1. Cardinality(Alive') <= Cardinality(Alive) /\ Cardinality(Begun) <= Cardinality(Begun')
        /\ Cardinality(Alive') \in Nat /\ Cardinality(Begun') \in Nat
    BY <1>1, <1>f, <1>g, FS_Subset, FS_CardinalityType
  <2>. QED
    BY <2>1, <1>g DEF NamesInv
<1>2. ASSUME NEW o \in Ops, SubmitStarts(o)
      PROVE  NamesInv'
  <2>1. waiter[o] = "idle"
    BY <1>2, Zenon DEF SubmitStarts, Takes, Begins
  <2>2. PICK th \in Threads : at[th] = "none" /\ at' = [at EXCEPT ![th] = "look"]
    <3>1. \E th \in Threads : at[th] = "none"
      BY <2>1, FreeName DEF HasNames
    <3>. QED
      BY <1>2, <3>1, Zenon DEF SubmitStarts
  <2>3. Alive' = Alive \cup {th} /\ th \notin Alive
    BY <2>2 DEF Alive
  <2>4. Begun' = Begun \cup {o} /\ o \notin Begun
    BY <1>2, <2>1 DEF SubmitStarts, Enqueued, Begun
  <2>5. Cardinality(Alive') = Cardinality(Alive) + 1 /\ Cardinality(Begun') = Cardinality(Begun) + 1
    BY <1>f, <2>3, <2>4, FS_AddElement, Zenon
  <2>. QED
    BY <1>g, <2>5 DEF NamesInv
<1>3. ASSUME NEW o \in Ops,
             SubmitRefused(o) \/ SubmitInline(o) \/ SubmitToIdle(o) \/ SubmitSpawnFails(o)
      PROVE  NamesInv'
  <2>1. Begun \subseteq Begun'
    <3>1. waiter' = [waiter EXCEPT ![o] = "waits"]
      BY <1>3, Zenon DEF SubmitRefused, SubmitInline, SubmitToIdle, SubmitSpawnFails, Refused,
              Inline,
                  OverAtOnce, Enqueued
    <3>. QED
      BY <3>1 DEF Begun
  <2>2. Alive' \subseteq Alive
    BY <1>3 DEF SubmitRefused, SubmitInline, SubmitToIdle, SubmitSpawnFails, NotifyOne,
                threadVars, Alive
  <2>. QED
    BY <1>1, <2>1, <2>2
<1>4. ASSUME NEW th \in Threads, Look(th) \/ TimesOut(th)
      PROVE  NamesInv'
  <2>1. UNCHANGED waiter
    BY <1>4 DEF Look, ThreadEnds, Pop, TimesOut, opVars
  <2>2. at[th] # "none" /\ \E a : at' = [at EXCEPT ![th] = a]
    BY <1>4 DEF Look, ThreadEnds, Pop, TimesOut
  <2>. QED
    BY <1>1, <2>1, <2>2 DEF Alive, Begun
<1>5. ASSUME NEW th \in Threads, NEW o \in Ops,
             \/ Operation(th, o)
             \/ Complete(th, o) \/ Release(th, o) \/ Finishes(th, o) \/ ThreadUnheard(th, o)
      PROVE  NamesInv'
  <2>1. UNCHANGED waiter
    BY <1>5, Zenon DEF Operation, ClaimLook, ClaimDecide, Returns, Complete, Release, Finishes,
                ThreadUnheard, opVars
  <2>2. at[th] # "none" /\ \E a : at' = [at EXCEPT ![th] = a]
    BY <1>5, Zenon DEF Operation, ClaimLook, ClaimDecide, Returns, Complete, Release, Finishes,
                ThreadUnheard
  <2>. QED
    BY <1>1, <2>1, <2>2 DEF Alive, Begun
<1>6. ASSUME NEW o \in Ops, Waiter(o)
      PROVE  NamesInv'
  <2>1. UNCHANGED at
    BY <1>6, Zenon DEF Waiter, TakesNothingNew, Withhold, WithheldLeaves, Take, Detach, DropBegins,
                DropDecides, DropUnheard, threadVars
  <2>2. Begun \subseteq Begun'
    <3>1. UNCHANGED waiter \/ \E w \in WaiterAt \ {"idle"} : waiter' = [waiter EXCEPT ![o] = w]
      <4>1. CASE DropDecides(o)
        <5>1. (IF phase[o] = "Finished" THEN "unheard" ELSE "gone") \in WaiterAt \ {"idle"}
          BY DEF WaiterAt
        <5>. QED
          BY <4>1, <5>1, Zenon DEF DropDecides
      <4>2. CASE ~DropDecides(o)
        BY <1>6, <4>2, Zenon DEF Waiter, TakesNothingNew, Withhold, WithheldLeaves, Take, Detach,
                          DropBegins, DropUnheard, WaiterAt
      <4>. QED
        BY <4>1, <4>2
    <3>. QED
      BY <3>1 DEF Begun
  <2>. QED
    BY <1>1, <2>1, <2>2 DEF Alive
<1>7. ASSUME Stop
      PROVE  NamesInv'
  BY <1>1, <1>7 DEF Stop, opVars, Alive, Begun
<1>. QED
  BY <1>2, <1>3, <1>4, <1>5, <1>6, <1>7 DEF Next, Submit, ThreadGoesOn

-----------------------------------------------------------------------------
\* Every reachable state of the pool, whatever its bounds, the operations and
\* the order in which waiters, threads and stop come, satisfies the invariant.
THEOREM PoolInvariant == Spec => [](TypeOK /\ Inv /\ NamesInv)
<1>1. Init => TypeOK /\ Inv /\ NamesInv
  <2>. SUFFICES ASSUME Init PROVE TypeOK /\ Inv /\ NamesInv
    OBVIOUS
  <2>1. /\ at = [th \in Threads |-> "none"] /\ job = [th \in Threads |-> {}]
        /\ left = [th \in Threads |-> FALSE] /\ queue = <<>>
        /\ threads = 0 /\ busy = 0 /\ unheard = 0
    BY Zenon DEF Init
  <2>2. /\ waiter = [o \in Ops |-> "idle"] /\ phase = [o \in Ops |-> "None"]
        /\ taken = [o \in Ops |-> FALSE] /\ told = [o \in Ops |-> FALSE]
    BY Zenon DEF Init
  <2>3. giveBack = [o \in Ops |-> GivesBack(kind[o])] /\ gaveBack = [o \in Ops |-> 0]
    BY DEF Init
  <2>4. TypeOK
    <3>1. PoolTypes
      BY <2>1, Kinds DEF Init, PoolTypes
    <3>2. ThreadTypes
      BY <2>1 DEF ThreadTypes, Free
    <3>3. giveBack \in [Ops -> BOOLEAN]
      BY <2>3 DEF GivesBack
    <3>4. OpTypes
      BY <3>3 DEF Init, OpTypes, WaiterAt, Phases
    <3>. QED
      BY <3>1, <3>2, <3>4 DEF TypeOK
  <2>5. NamesInv
    <3>1. Alive = {} /\ Begun = {}
      BY <2>1, <2>2 DEF Alive, Begun
    <3>. QED
      BY <3>1, FS_EmptySet DEF NamesInv
  <2>6. JobInv /\ PhaseInv
    BY <2>1 DEF JobInv, PhaseInv, Free
  <2>7. QueueInv
    BY <2>1 DEF QueueInv
  <2>8. RunInv /\ WaiterInv /\ ClosedInv
    BY <2>2 DEF RunInv, WaiterInv, WaiterAgrees, ClosedInv
  <2>9. GiveBackInv
    BY <2>2, <2>3 DEF GiveBackInv, GivenBack
  <2>. QED
    BY <2>4, <2>5, <2>6, <2>7, <2>8, <2>9 DEF Inv
<1>2. TypeOK /\ Inv /\ NamesInv /\ [Next]_vars => (TypeOK /\ Inv /\ NamesInv)'
  <2>. SUFFICES ASSUME TypeOK, Inv, NamesInv, [Next]_vars PROVE (TypeOK /\ Inv /\ NamesInv)'
    OBVIOUS
  <2>1. CASE Next
    BY <2>1, FreeName, TypeStep, NamesStep, JobStep, QueueStep, PhaseStep, RunStep, WaiterStep,
       GiveBackStep, ClosedStep DEF Inv
  <2>2. CASE UNCHANGED vars
    <3>1. TypeOK'
      BY <2>2 DEF vars, opVars, counts, modes, threadVars, TypeOK, OpTypes, PoolTypes, ThreadTypes
    <3>2. NamesInv' /\ JobInv' /\ QueueInv'
      BY <2>2, Zenon DEF vars, opVars, counts, modes, threadVars, Inv, NamesInv, Alive, Begun,
              JobInv, QueueInv
    <3>3. PhaseInv' /\ RunInv'
      BY <2>2, Zenon DEF vars, opVars, threadVars, Inv, PhaseInv, RunInv, Runs
    <3>4. WaiterInv'
      BY <2>2, Zenon DEF vars, opVars, Inv, WaiterInv
    <3>5. GiveBackInv' /\ ClosedInv'
      BY <2>2, Zenon DEF vars, opVars, threadVars, Inv, GiveBackInv, ClosedInv
    <3>. QED
      BY <3>1, <3>2, <3>3, <3>4, <3>5 DEF Inv
  <2>. QED
    BY <2>1, <2>2
<1>. QED
  BY <1>1, <1>2, PTL DEF Spec

\* A value is given back once if its waiter went without it, whichever of
\* PoolShared::run and Drop for IoOp comes first.
THEOREM ValueReachesOneAlways == Spec => []ValueReachesOne
<1>1. TypeOK /\ Inv => ValueReachesOne
  <2>. SUFFICES ASSUME TypeOK, Inv, NEW o \in Ops
                PROVE  /\ gaveBack[o] <= 1
                       /\ taken[o] => gaveBack[o] = 0
                       /\ ( /\ GivesBack(kind[o])
                            /\ phase[o] = "Finished"
                            /\ waiter[o] = "gone"
                            /\ \A th \in Threads : o \notin job[th]
                            /\ ~taken[o] ) => gaveBack[o] = 1
    BY Zenon DEF ValueReachesOne
  <2>1. /\ GivenBack(giveBack[o], gaveBack[o], kind[o], waiter[o], taken[o])
        /\ giveBack[o] /\ waiter[o] = "gone" /\ phase[o] = "Finished" =>
              \E th \in Threads : o \in job[th]
    BY DEF Inv, GiveBackInv
  <2>2. gaveBack[o] \in Nat /\ taken[o] \in BOOLEAN /\ giveBack[o] \in BOOLEAN
    BY DEF TypeOK, OpTypes
  <2>3. CASE giveBack[o] \/ ~GivesBack(kind[o])
    <3>1. gaveBack[o] = 0
      BY <2>1, <2>3 DEF GivenBack
    <3>2. ~ ( /\ GivesBack(kind[o])
              /\ phase[o] = "Finished"
              /\ waiter[o] = "gone"
              /\ \A th \in Threads : o \notin job[th] )
      BY <2>1, <2>3, Zenon
    <3>3. gaveBack[o] <= 1
      BY <3>1
    <3>. QED BY <3>1, <3>2, <3>3, Zenon
  <2>4. CASE ~(giveBack[o] \/ ~GivesBack(kind[o]))
    <3>1. gaveBack[o] = IF taken[o] THEN 0 ELSE 1
      BY <2>1, <2>4 DEF GivenBack
    <3>. QED BY <2>2, <3>1
  <2>. QED BY <2>3, <2>4, Zenon
<1>. QED
  BY <1>1, PoolInvariant, PTL

\* Drop for IoOp closes what it leaves of a connection, and closes nothing
\* whose value was taken.
THEOREM ClosedUnlessTakenAlways == Spec => []ClosedUnlessTaken
<1>1. TypeOK /\ Inv => ClosedUnlessTaken
  BY DEF Inv, ClosedInv, ClosedUnlessTaken, TypeOK, OpTypes
<1>. QED
  BY <1>1, PoolInvariant, PTL

\* submit starts a thread only below both bounds, and a thread that is left
\* leaves the pool as it becomes one that nobody hears.
THEOREM ThreadsAreBoundedAlways == Spec => []ThreadsAreBounded
<1>1. Init => ThreadsAreBounded
  <2>. SUFFICES ASSUME Init PROVE ThreadsAreBounded
    OBVIOUS
  <2>1. pool.max \in Nat \ {0}
    BY Kinds DEF Init, Pool
  <2>2. threads = 0 /\ unheard = 0
    BY DEF Init
  <2>. QED
    BY <2>1, <2>2, Bounds DEF ThreadsAreBounded
<1>2. TypeOK /\ ThreadsAreBounded /\ [Next]_vars => ThreadsAreBounded'
  <2>. SUFFICES ASSUME TypeOK, ThreadsAreBounded, [Next]_vars PROVE ThreadsAreBounded'
    OBVIOUS
  <2>t. /\ threads \in Int /\ unheard \in Int /\ pool.max \in Nat
        /\ UnheardMax \in Nat
    BY Bounds DEF TypeOK, PoolTypes, Pool
  <2>p. pool' = pool
    BY DEF Next, vars
  <2>1. \/ threads' = threads /\ unheard' = unheard
        \/ threads' = threads - 1 /\ unheard' \in {unheard, unheard + 1}
        \/ threads' = threads /\ unheard' = unheard - 1
        \/ threads < pool.max /\ unheard < UnheardMax /\ threads' = threads + 1
           /\ unheard' = unheard
    <3>1. ASSUME NEW o \in Ops, Submit(o)
          PROVE  \/ threads' = threads /\ unheard' = unheard
                 \/ threads < pool.max /\ unheard < UnheardMax /\ threads' = threads + 1
                    /\ unheard' = unheard
      BY <3>1 DEF Submit, SubmitRefused, SubmitInline, SubmitToIdle, SubmitStarts,
                  SubmitSpawnFails, Takes, counts
    <3>2. ASSUME NEW th \in Threads, Look(th) \/ TimesOut(th)
          PROVE  threads' \in {threads, threads - 1} /\ unheard' = unheard
      BY <3>2 DEF Look, ThreadEnds, Pop, TimesOut, counts
    <3>3. ASSUME NEW th \in Threads, NEW o \in Ops,
                 \/ Operation(th, o)
                 \/ Complete(th, o) \/ Release(th, o) \/ Finishes(th, o) \/ ThreadUnheard(th, o)
          PROVE  threads' = threads /\ unheard' \in {unheard, unheard - 1}
      BY <3>3, Zenon DEF Operation, ClaimLook, ClaimDecide, Returns, Complete, Release, Finishes,
                  ThreadUnheard, counts
    <3>4. ASSUME NEW o \in Ops, Waiter(o)
          PROVE  \/ threads' = threads /\ unheard' = unheard
                 \/ threads' = threads - 1 /\ unheard' \in {unheard, unheard + 1}
      BY <3>4, Zenon DEF Waiter, TakesNothingNew, Withhold, WithheldLeaves, Take, Detach,
              DropBegins,
                  DropDecides, DropUnheard, counts
    <3>5. ASSUME Stop \/ UNCHANGED vars
          PROVE  threads' = threads /\ unheard' = unheard
      BY <3>5 DEF Stop, vars, counts
    <3>. QED
      BY <3>1, <3>2, <3>3, <3>4, <3>5 DEF Next, ThreadGoesOn
  <2>. QED
    BY <2>t, <2>p, <2>1 DEF ThreadsAreBounded
<1>. QED
  BY <1>1, <1>2, PoolInvariant, PTL DEF Spec

-----------------------------------------------------------------------------
(* What the counters count.                                                *)

One(b) == IF b THEN 1 ELSE 0

\* What a change of one member does to the size of a set.
LEMMA SizeChange ==
    ASSUME NEW S, NEW T, NEW x, IsFiniteSet(S), \A u : u # x => (u \in S <=> u \in T)
    PROVE  Cardinality(T) = Cardinality(S) + One(x \in T) - One(x \in S)
<1>0. Cardinality(S) \in Nat
  BY FS_CardinalityType
<1>1. CASE x \in T
  <2>1. T = S \cup {x}
    BY <1>1
  <2>. QED
    BY <1>0, <1>1, <2>1, FS_AddElement DEF One
<1>2. CASE x \notin T
  <2>1. T = S \ {x}
    BY <1>2
  <2>. QED
    BY <1>0, <1>2, <2>1, FS_RemoveElement DEF One
<1>. QED
  BY <1>1, <1>2

\* Neither the step nor its operation is about this thread.
Apart(u) ==
    /\ at'[u] = at[u] /\ left'[u] = left[u] /\ job'[u] = job[u]
    /\ \A p \in job[u] : phase'[p] = phase[p] /\ told'[p] = told[p]

\* A step that is about one thread changes each of the sets by that one.
LEMMA OneThread ==
    ASSUME NEW th, \A u \in Threads : u # th => Apart(u)
    PROVE  /\ Cardinality(Counted') = Cardinality(Counted)
                + One(th \in Counted') - One(th \in Counted)
           /\ Cardinality(Busy') = Cardinality(Busy) + One(th \in Busy') - One(th \in Busy)
           /\ Cardinality(RunsUnheard') = Cardinality(RunsUnheard)
                + One(th \in RunsUnheard') - One(th \in RunsUnheard)
           /\ Cardinality(WillLook') = Cardinality(WillLook)
                + One(th \in WillLook') - One(th \in WillLook)
<1>0. /\ IsFiniteSet(Counted) /\ IsFiniteSet(Busy)
      /\ IsFiniteSet(RunsUnheard) /\ IsFiniteSet(WillLook)
  <2>1. /\ Counted \in SUBSET Threads /\ Busy \in SUBSET Threads
        /\ RunsUnheard \in SUBSET Threads /\ WillLook \in SUBSET Threads
    BY Zenon DEF Counted, Busy, RunsUnheard, WillLook
  <2>. QED
    BY <2>1, Finite, FS_Subset
<1>1. \A u : u # th => (u \in Counted <=> u \in Counted')
  BY Zenon DEF Apart, Counted, Runs, HasRun, JobIn
<1>2. \A u : u # th => (u \in Busy <=> u \in Busy')
  BY DEF Apart, Busy, Runs, JobIn
<1>3. \A u : u # th => (u \in RunsUnheard <=> u \in RunsUnheard')
  BY DEF Apart, RunsUnheard, Runs
<1>4. \A u : u # th => (u \in WillLook <=> u \in WillLook')
  BY DEF Apart, WillLook, HasRun
<1>. QED
  BY <1>0, <1>1, <1>2, <1>3, <1>4, SizeChange

\* The threads that submit takes for idle are those that will look for work
\* and those that sleep.
LEMMA IdleThreads ==
    ASSUME TypeOK, Inv, \A th \in Threads : at[th] # "asleep"
    PROVE  Cardinality(Counted) - Cardinality(Busy) = Cardinality(WillLook)
<1>1. Counted \in SUBSET Threads /\ IsFiniteSet(Counted)
  <2>1. Counted \in SUBSET Threads
    BY DEF Counted
  <2>. QED
    BY <2>1, Finite, FS_Subset
<1>2. ASSUME NEW th \in Threads
      PROVE  (th \in Counted /\ th \notin Busy) <=> th \in WillLook
  <2>1. CASE at[th] \in Free
    BY <2>1 DEF Counted, Busy, WillLook, Runs, HasRun, Free
  <2>2. CASE HasRun(th)
    BY <2>2 DEF Counted, Busy, WillLook, Runs, HasRun
  <2>3. CASE Runs(th)
    <3>1. PICK o : o \in job[th]
      BY <2>3 DEF Inv, JobInv, Runs, Free
    <3>2. phase[o] \in {"Running", "Left"}
      BY <2>3, <3>1 DEF Inv, PhaseInv, ThreadAgrees, Runs
    <3>. QED
      BY <2>3, <3>1, <3>2 DEF Counted, Busy, WillLook, Runs, HasRun, JobIn
  <2>. QED
    BY <2>1, <2>2, <2>3 DEF TypeOK, ThreadTypes, Free, Over, Runs, HasRun
<1>3. Busy \subseteq Counted
  <2>. SUFFICES ASSUME NEW th \in Threads, Runs(th), JobIn(th, {"Running"})
                PROVE  th \in Counted
    BY DEF Busy
  <2>1. ~JobIn(th, {"Left"})
    BY Zenon DEF Inv, JobInv, JobIn
  <2>. QED
    BY <2>1 DEF Counted, Runs, HasRun
<1>4. Counted \ Busy = WillLook
  BY <1>2 DEF Counted, WillLook
<1>5. Counted \cap Busy = Busy
  BY <1>3
<1>6. Cardinality(Counted \ Busy) = Cardinality(Counted) - Cardinality(Counted \cap Busy)
  BY <1>1, FS_Difference, Zenon
<1>. QED
  BY <1>4, <1>5, <1>6

\* Every step keeps the counters exact and a thread for every queued
\* operation.
LEMMA CountsStep ==
    ASSUME TypeOK, Inv, HasNames, CountsAreExact, QueuedHasThread, Next
    PROVE  CountsAreExact' /\ QueuedHasThread'
<1>p. pool' = pool
  BY DEF Next
<1>q. Len(queue) \in Nat /\ queue \in Seq(Ops)
  BY QueueEnds DEF TypeOK, PoolTypes
<1>c. /\ Cardinality(Counted) \in Nat /\ Cardinality(Busy) \in Nat
      /\ Cardinality(RunsUnheard) \in Nat /\ Cardinality(WillLook) \in Nat
  <2>1. /\ Counted \in SUBSET Threads /\ Busy \in SUBSET Threads
        /\ RunsUnheard \in SUBSET Threads /\ WillLook \in SUBSET Threads
    BY DEF Counted, Busy, RunsUnheard, WillLook
  <2>. QED
    BY <2>1, Finite, FS_Subset, FS_CardinalityType
<1>n. ASSUME \A u \in Threads : Apart(u), UNCHANGED counts,
             pool.spawnFails \/ (Len(queue') \in Nat /\ Len(queue') <= Cardinality(WillLook))
      PROVE  CountsAreExact' /\ QueuedHasThread'
  <2>1. Counted' = Counted /\ Busy' = Busy
    BY <1>n DEF Apart, Counted, Busy, Runs, HasRun, JobIn
  <2>2. RunsUnheard' = RunsUnheard /\ WillLook' = WillLook
    BY <1>n DEF Apart, RunsUnheard, WillLook, Runs, HasRun
  <2>. QED
    BY <1>n, <1>p, <2>1, <2>2 DEF CountsAreExact, QueuedHasThread, counts
<1>t. ASSUME NEW th \in Threads, \A u \in Threads : u # th => Apart(u),
             threads' = threads + One(th \in Counted') - One(th \in Counted),
             busy' = busy + One(th \in Busy') - One(th \in Busy),
             unheard' = unheard + One(th \in RunsUnheard') - One(th \in RunsUnheard),
             \/ Len(queue') = 0
             \/ Len(queue') = Len(queue) + One(th \in WillLook') - One(th \in WillLook)
             \/ Len(queue') = Len(queue) /\ (th \in WillLook => th \in WillLook')
      PROVE  CountsAreExact' /\ QueuedHasThread'
  <2>1. CountsAreExact'
    BY <1>t, OneThread DEF CountsAreExact
  <2>2. Cardinality(WillLook') = Cardinality(WillLook)
           + One(th \in WillLook') - One(th \in WillLook)
    BY <1>t, OneThread
  <2>3. Cardinality(WillLook') \in Nat
    <3>1. WillLook' \in SUBSET Threads
      BY DEF WillLook
    <3>. QED
      BY <3>1, Finite, FS_Subset, FS_CardinalityType
  <2>4. ~pool.spawnFails => Len(queue) <= Cardinality(WillLook)
    BY DEF QueuedHasThread
  <2>5. ~pool.spawnFails => Len(queue') <= Cardinality(WillLook')
    <3>1. CASE Len(queue') = 0
      BY <2>3, <3>1
    <3>2. CASE Len(queue') = Len(queue) + One(th \in WillLook') - One(th \in WillLook)
      <4>1. One(th \in WillLook') \in Int /\ One(th \in WillLook) \in Int
        BY DEF One
      <4>. QED
        BY <1>q, <1>c, <2>2, <2>4, <3>2, <4>1
    <3>3. CASE Len(queue') = Len(queue) /\ (th \in WillLook => th \in WillLook')
      BY <1>q, <1>c, <2>2, <2>4, <3>3 DEF One
    <3>. QED
      BY <1>t, <3>1, <3>2, <3>3
  <2>6. QueuedHasThread'
    BY <1>p, <2>5 DEF QueuedHasThread
  <2>. QED
    BY <2>1, <2>6
<1>1. ASSUME NEW o \in Ops, Submit(o)
      PROVE  CountsAreExact' /\ QueuedHasThread'
  <2>1. UNCHANGED <<job, left, told>> /\ (\A th \in Threads : o \notin job[th])
        /\ \A p \in Ops : p # o => phase'[p] = phase[p]
    BY <1>1, SubmitFacts
  <2>2. ASSUME NEW u \in Threads, at'[u] = at[u]
        PROVE  Apart(u)
    BY <2>1, <2>2, Zenon DEF Apart, TypeOK, ThreadTypes
  <2>3. ASSUME NEW th \in Threads, at[th] \in {"none", "asleep"}, at' = [at EXCEPT ![th] = "look"],
               threads' = threads + One(at[th] = "none"), UNCHANGED <<busy, unheard>>,
               queue' = Append(queue, o)
        PROVE  CountsAreExact' /\ QueuedHasThread'
    <3>1. \A u \in Threads : u # th => Apart(u)
      BY <2>2, <2>3 DEF TypeOK, ThreadTypes
    <3>2. job[th] = {} /\ job'[th] = {} /\ at'[th] = "look"
      BY <2>1, <2>3 DEF Inv, JobInv, Free, TypeOK, ThreadTypes
    <3>3. th \in Counted' /\ (th \in Counted <=> at[th] # "none")
      BY <2>3, <3>2, Zenon DEF Counted, Runs, HasRun
    <3>4. th \notin Busy /\ th \notin Busy' /\ th \notin RunsUnheard /\ th \notin RunsUnheard'
      BY <2>3, <3>2 DEF Busy, RunsUnheard, Runs
    <3>5. th \in WillLook' /\ th \notin WillLook
      BY <2>3, <3>2 DEF WillLook, HasRun
    <3>6. Len(queue') = Len(queue) + 1
      BY <1>q, <2>3, QueueEnds
    <3>7. threads \in Int /\ busy \in Int /\ unheard \in Int
      BY DEF TypeOK, PoolTypes
    <3>8. /\ threads' = threads + One(th \in Counted') - One(th \in Counted)
          /\ busy' = busy + One(th \in Busy') - One(th \in Busy)
          /\ unheard' = unheard + One(th \in RunsUnheard') - One(th \in RunsUnheard)
          /\ Len(queue') = Len(queue) + One(th \in WillLook') - One(th \in WillLook)
      <4>1. threads' = threads + One(th \in Counted') - One(th \in Counted)
        BY <1>q, <2>3, <3>3, <3>4, <3>5, <3>6, <3>7 DEF One
      <4>2. busy' = busy + One(th \in Busy') - One(th \in Busy)
        BY <1>q, <2>3, <3>3, <3>4, <3>5, <3>6, <3>7 DEF One
      <4>3. unheard' = unheard + One(th \in RunsUnheard') - One(th \in RunsUnheard)
        BY <1>q, <2>3, <3>3, <3>4, <3>5, <3>6, <3>7 DEF One
      <4>4. Len(queue') = Len(queue) + One(th \in WillLook') - One(th \in WillLook)
        BY <1>q, <2>3, <3>3, <3>4, <3>5, <3>6, <3>7 DEF One
      <4>. QED
        BY <4>1, <4>2, <4>3, <4>4
    <3>. QED
      BY <1>t, <3>1, <3>8
  <2>4. CASE SubmitRefused(o) \/ SubmitInline(o) \/ SubmitSpawnFails(o)
    <3>1. UNCHANGED <<at, counts>> /\ (pool.spawnFails \/ UNCHANGED queue)
      BY <2>4, Zenon DEF SubmitRefused, SubmitInline, SubmitSpawnFails, Refused, Inline, OverAtOnce,
                  threadVars
    <3>2. \A u \in Threads : Apart(u)
      BY <2>2, <3>1
    <3>. QED
      BY <1>n, <1>q, <3>1, <3>2 DEF QueuedHasThread
  <2>5. CASE SubmitToIdle(o)
    <3>1. queue' = Append(queue, o) /\ UNCHANGED counts /\ HasIdle
      BY <2>5 DEF SubmitToIdle, Enqueued
    <3>2. CASE \A th \in Threads : at[th] # "asleep"
      <4>1. UNCHANGED at
        BY <2>5, <3>2 DEF SubmitToIdle, NotifyOne, threadVars
      <4>2. Len(queue') = Len(queue) + 1
        BY <1>q, <3>1, QueueEnds
      <4>3. Len(queue) < Cardinality(WillLook)
        BY <3>1, <3>2, IdleThreads DEF HasIdle, CountsAreExact
      <4>4. Len(queue') \in Nat /\ Len(queue') <= Cardinality(WillLook)
        BY <1>c, <1>q, <4>2, <4>3
      <4>. QED
        BY <1>n, <2>2, <3>1, <4>1, <4>4
    <3>3. CASE \E th \in Threads : at[th] = "asleep"
      <4>1. PICK th \in Threads : at[th] = "asleep" /\ at' = [at EXCEPT ![th] = "look"]
        BY <2>5, <3>3 DEF SubmitToIdle, NotifyOne
      <4>2. threads' = threads + One(at[th] = "none") /\ UNCHANGED <<busy, unheard>>
        BY <3>1, <4>1 DEF One, counts, TypeOK, PoolTypes
      <4>. QED
        BY <2>3, <3>1, <4>1, <4>2, Zenon
    <3>. QED
      BY <3>2, <3>3
  <2>6. CASE SubmitStarts(o)
    <3>1. \E th \in Threads : at[th] = "none"
      BY <1>1, SubmitFacts, Zenon DEF HasNames
    <3>2. PICK th \in Threads : at[th] = "none" /\ at' = [at EXCEPT ![th] = "look"]
      BY <2>6, <3>1, Zenon DEF SubmitStarts
    <3>3. threads' = threads + One(at[th] = "none") /\ UNCHANGED <<busy, unheard>>
          /\ queue' = Append(queue, o)
      BY <2>6, <3>2 DEF SubmitStarts, Enqueued, One
    <3>. QED
      BY <2>3, <3>2, <3>3, Zenon
  <2>. QED
    BY <1>1, <2>4, <2>5, <2>6 DEF Submit
<1>i. threads \in Int /\ busy \in Int /\ unheard \in Int
  BY DEF TypeOK, PoolTypes
<1>f. ASSUME NEW th \in Threads, at[th] \in Free, at[th] # "none"
      PROVE  /\ job[th] = {}
             /\ th \in Counted /\ th \notin Busy /\ th \notin RunsUnheard
             /\ th \in WillLook <=> at[th] \in {"look", "timedout"}
  <2>1. job[th] = {}
    BY <1>f DEF Inv, JobInv
  <2>2. ~Runs(th) /\ ~HasRun(th)
    BY <1>f DEF Runs, HasRun, Free
  <2>. QED
    BY <1>f, <2>1, <2>2, Zenon DEF Counted, Busy, RunsUnheard, WillLook
<1>2. ASSUME NEW th \in Threads, Look(th)
      PROVE  CountsAreExact' /\ QueuedHasThread'
  <2>0. at[th] \in {"look", "timedout"} /\ at[th] \in Free /\ at[th] # "none"
    BY <1>2 DEF Look, Free
  <2>f. /\ job[th] = {} /\ th \in Counted /\ th \notin Busy /\ th \notin RunsUnheard
        /\ th \in WillLook
    BY <1>f, <2>0
  <2>1. CASE ThreadEnds(th) /\ queue = <<>>
    <3>1. at'[th] = "none" /\ \A u \in Threads : u # th => Apart(u)
      BY <2>1, Zenon DEF ThreadEnds, Apart, opVars, TypeOK, ThreadTypes
    <3>2. th \notin Counted' /\ th \notin Busy' /\ th \notin RunsUnheard'
      BY <3>1, Zenon DEF Counted, Busy, RunsUnheard, Runs
    <3>3. threads' = threads - 1 /\ UNCHANGED <<busy, unheard>> /\ Len(queue') = 0
      BY <2>1 DEF ThreadEnds
    <3>4. /\ threads' = threads + One(th \in Counted') - One(th \in Counted)
          /\ busy' = busy + One(th \in Busy') - One(th \in Busy)
          /\ unheard' = unheard + One(th \in RunsUnheard') - One(th \in RunsUnheard)
      <4>1. threads' = threads + One(th \in Counted') - One(th \in Counted)
        BY <1>i, <2>f, <3>2, <3>3 DEF One
      <4>2. busy' = busy + One(th \in Busy') - One(th \in Busy)
        BY <1>i, <2>f, <3>2, <3>3 DEF One
      <4>3. unheard' = unheard + One(th \in RunsUnheard') - One(th \in RunsUnheard)
        BY <1>i, <2>f, <3>2, <3>3 DEF One
      <4>. QED
        BY <4>1, <4>2, <4>3
    <3>. QED
      BY <1>t, <3>1, <3>3, <3>4
  <2>2. CASE Pop(th) /\ queue # <<>>
    <3>1. PICK o \in Ops : o = Head(queue) /\ phase[o] = "Queued"
      BY <2>2, <1>q, QueueEnds DEF Inv, QueueInv
    <3>2. \A u \in Threads : o \notin job[u]
      BY <3>1, Zenon DEF Inv, JobInv, PhaseInv, ThreadAgrees, TypeOK, ThreadTypes, Free, Over, Runs
    <3>3. /\ at'[th] = "run" /\ job'[th] = {o} /\ phase'[o] = "Running"
          /\ UNCHANGED <<left, told>>
          /\ \A u \in Threads : u # th => at'[u] = at[u] /\ job'[u] = job[u]
          /\ \A p \in Ops : p # o => phase'[p] = phase[p]
      BY <2>2, <3>1 DEF Pop, TypeOK, OpTypes, ThreadTypes
    <3>4. \A u \in Threads : u # th => Apart(u)
      BY <3>2, <3>3, Zenon DEF Apart, TypeOK, ThreadTypes
    <3>5. th \in Counted' /\ th \in Busy' /\ th \notin RunsUnheard' /\ th \notin WillLook'
      <4>0. at'[th] = "run" /\ job'[th] = {o} /\ phase'[o] = "Running"
        BY <3>3, Zenon
      <4>1. th \in Counted' /\ th \in Busy'
        BY <4>0, Zenon DEF Counted, Busy, Runs, HasRun, JobIn
      <4>2. th \notin RunsUnheard' /\ th \notin WillLook'
        BY <3>3, Zenon DEF RunsUnheard, WillLook, Runs, HasRun
      <4>. QED
        BY <4>1, <4>2
    <3>6. Len(queue') = Len(queue) - 1
      BY <2>2, <1>q, QueueEnds DEF Pop
    <3>7. busy' = busy + 1 /\ UNCHANGED <<threads, unheard>>
      BY <2>2 DEF Pop
    <3>8. /\ threads' = threads + One(th \in Counted') - One(th \in Counted)
          /\ busy' = busy + One(th \in Busy') - One(th \in Busy)
          /\ unheard' = unheard + One(th \in RunsUnheard') - One(th \in RunsUnheard)
          /\ Len(queue') = Len(queue) + One(th \in WillLook') - One(th \in WillLook)
      <4>1. threads' = threads + One(th \in Counted') - One(th \in Counted)
        BY <1>i, <1>q, <2>f, <3>5, <3>6, <3>7 DEF One
      <4>2. busy' = busy + One(th \in Busy') - One(th \in Busy)
        BY <1>i, <1>q, <2>f, <3>5, <3>6, <3>7 DEF One
      <4>3. unheard' = unheard + One(th \in RunsUnheard') - One(th \in RunsUnheard)
        BY <1>i, <1>q, <2>f, <3>5, <3>6, <3>7 DEF One
      <4>4. Len(queue') = Len(queue) + One(th \in WillLook') - One(th \in WillLook)
        BY <1>i, <1>q, <2>f, <3>5, <3>6, <3>7 DEF One
      <4>. QED
        BY <4>1, <4>2, <4>3, <4>4
    <3>. QED
      BY <1>t, <3>4, <3>8
  <2>3. CASE /\ at' = [at EXCEPT ![th] = "asleep"] /\ queue = <<>>
             /\ UNCHANGED <<opVars, queue, counts, job, left>>
    <3>1. at'[th] = "asleep" /\ \A u \in Threads : u # th => Apart(u)
      BY <2>3, Zenon DEF Apart, opVars, TypeOK, ThreadTypes
    <3>2. th \in Counted' /\ th \notin Busy' /\ th \notin RunsUnheard'
      BY <3>1, Zenon DEF Counted, Busy, RunsUnheard, Runs, HasRun
    <3>3. UNCHANGED <<threads, busy, unheard>> /\ Len(queue') = 0
      BY <2>3 DEF counts
    <3>4. /\ threads' = threads + One(th \in Counted') - One(th \in Counted)
          /\ busy' = busy + One(th \in Busy') - One(th \in Busy)
          /\ unheard' = unheard + One(th \in RunsUnheard') - One(th \in RunsUnheard)
      <4>1. threads' = threads + One(th \in Counted') - One(th \in Counted)
        BY <1>i, <2>f, <3>2, <3>3 DEF One
      <4>2. busy' = busy + One(th \in Busy') - One(th \in Busy)
        BY <1>i, <2>f, <3>2, <3>3 DEF One
      <4>3. unheard' = unheard + One(th \in RunsUnheard') - One(th \in RunsUnheard)
        BY <1>i, <2>f, <3>2, <3>3 DEF One
      <4>. QED
        BY <4>1, <4>2, <4>3
    <3>. QED
      BY <1>t, <3>1, <3>3, <3>4
  <2>4. stopped => queue = <<>>
    BY DEF Inv, QueueInv
  <2>. QED
    BY <1>2, <2>1, <2>2, <2>3, <2>4 DEF Look
<1>3. ASSUME NEW th \in Threads, TimesOut(th)
      PROVE  CountsAreExact' /\ QueuedHasThread'
  <2>0. at[th] = "asleep" /\ at[th] \in Free /\ at[th] # "none"
    BY <1>3 DEF TimesOut, Free
  <2>1. at'[th] = "timedout" /\ \A u \in Threads : u # th => Apart(u)
    BY <1>3, Zenon DEF TimesOut, Apart, opVars, TypeOK, ThreadTypes
  <2>2. th \in Counted' /\ th \notin Busy' /\ th \notin RunsUnheard' /\ th \in WillLook'
    BY <2>1, Zenon DEF Counted, Busy, RunsUnheard, WillLook, Runs, HasRun
  <2>3. UNCHANGED <<threads, busy, unheard, queue>>
    BY <1>3 DEF TimesOut, counts
  <2>4. th \in Counted /\ th \notin Busy /\ th \notin RunsUnheard
    BY <1>f, <2>0
  <2>5. /\ threads' = threads + One(th \in Counted') - One(th \in Counted)
        /\ busy' = busy + One(th \in Busy') - One(th \in Busy)
        /\ unheard' = unheard + One(th \in RunsUnheard') - One(th \in RunsUnheard)
        /\ Len(queue') = Len(queue)
    <3>1. threads' = threads + One(th \in Counted') - One(th \in Counted)
      BY <1>i, <2>2, <2>3, <2>4 DEF One
    <3>2. busy' = busy + One(th \in Busy') - One(th \in Busy)
      BY <1>i, <2>2, <2>3, <2>4 DEF One
    <3>3. unheard' = unheard + One(th \in RunsUnheard') - One(th \in RunsUnheard)
      BY <1>i, <2>2, <2>3, <2>4 DEF One
    <3>4. Len(queue') = Len(queue)
      BY <1>i, <2>2, <2>3, <2>4 DEF One
    <3>. QED
      BY <3>1, <3>2, <3>3, <3>4
  <2>. QED
    BY <1>t, <2>1, <2>2, <2>5
<1>o. ASSUME NEW th \in Threads, NEW o \in job[th]
      PROVE  job[th] = {o} /\ \A u \in Threads : u # th => o \notin job[u]
  BY DEF Inv, JobInv
<1>4. ASSUME NEW th \in Threads, NEW o \in Ops, Operation(th, o)
      PROVE  CountsAreExact' /\ QueuedHasThread'
  <2>0. o \in job[th] /\ Runs(th)
    BY <1>4, Zenon DEF Operation, ClaimLook, ClaimDecide, Returns, Runs
  <2>o. job[th] = {o} /\ \A u \in Threads : u # th => o \notin job[u]
    BY <1>o, <2>0
  <2>1. CASE ClaimLook(th, o) \/ ClaimDecide(th, o)
    <3>1. /\ at'[th] \in {"run", "claim"} /\ UNCHANGED <<job, left, phase, told, queue, counts>>
          /\ \A u \in Threads : u # th => at'[u] = at[u]
      BY <2>1, Zenon DEF ClaimLook, ClaimDecide, opVars, TypeOK, ThreadTypes
    <3>2. \A u \in Threads : u # th => Apart(u)
      BY <3>1 DEF Apart
    <3>3. (th \in Counted <=> th \in Counted') /\ (th \in Busy <=> th \in Busy')
          /\ (th \in RunsUnheard <=> th \in RunsUnheard')
          /\ (th \notin WillLook)
      BY <2>0, <3>1, Zenon DEF Counted, Busy, RunsUnheard, WillLook, Runs, HasRun, JobIn
    <3>4. /\ threads' = threads + One(th \in Counted') - One(th \in Counted)
          /\ busy' = busy + One(th \in Busy') - One(th \in Busy)
          /\ unheard' = unheard + One(th \in RunsUnheard') - One(th \in RunsUnheard)
          /\ Len(queue') = Len(queue)
      <4>1. threads' = threads + One(th \in Counted') - One(th \in Counted)
        BY <1>i, <3>1, <3>3 DEF One, counts
      <4>2. busy' = busy + One(th \in Busy') - One(th \in Busy)
        BY <1>i, <3>1, <3>3 DEF One, counts
      <4>3. unheard' = unheard + One(th \in RunsUnheard') - One(th \in RunsUnheard)
        BY <1>i, <3>1, <3>3 DEF One, counts
      <4>4. Len(queue') = Len(queue)
        BY <1>i, <3>1, <3>3 DEF One, counts
      <4>. QED
        BY <4>1, <4>2, <4>3, <4>4
    <3>. QED
      BY <1>t, <3>2, <3>3, <3>4
  <2>2. CASE Returns(th, o)
    <3>1. /\ at'[th] = "complete" /\ UNCHANGED <<job, told, queue, threads>>
          /\ left'[th] <=> phase[o] = "Left"
          /\ \A u \in Threads : u # th => at'[u] = at[u] /\ left'[u] = left[u]
          /\ \A p \in Ops : p # o => phase'[p] = phase[p]
      BY <2>2, Zenon DEF Returns, TypeOK, ThreadTypes, OpTypes
    <3>2. \A u \in Threads : u # th => Apart(u)
      BY <2>o, <3>1, Zenon DEF Apart, TypeOK, ThreadTypes
    <3>3. phase[o] \in {"Running", "Left"}
      BY <2>0 DEF Inv, PhaseInv, ThreadAgrees, Runs
    <3>4. /\ th \in Counted <=> phase[o] # "Left"
          /\ th \in Busy <=> phase[o] # "Left"
          /\ th \in RunsUnheard <=> phase[o] = "Left" /\ ~told[o]
          /\ th \notin WillLook
      BY <2>0, <2>o, <3>3 DEF Counted, Busy, RunsUnheard, WillLook, Runs, HasRun, JobIn
    <3>5. /\ th \in Counted' <=> phase[o] # "Left"
          /\ th \notin Busy' /\ th \notin RunsUnheard'
      BY <3>1, Zenon DEF Counted, Busy, RunsUnheard, Runs, HasRun
    <3>6. /\ busy' = IF phase[o] # "Left" THEN busy - 1 ELSE busy
          /\ unheard' = IF phase[o] = "Left" /\ ~told[o] THEN unheard - 1 ELSE unheard
      BY <2>2 DEF Returns
    <3>7. /\ threads' = threads + One(th \in Counted') - One(th \in Counted)
          /\ busy' = busy + One(th \in Busy') - One(th \in Busy)
          /\ unheard' = unheard + One(th \in RunsUnheard') - One(th \in RunsUnheard)
          /\ Len(queue') = Len(queue)
      <4>1. Len(queue') = Len(queue) /\ threads' = threads
        BY <3>1
      <4>2. CASE phase[o] # "Left"
        BY <1>i, <3>4, <3>5, <3>6, <4>1, <4>2 DEF One
      <4>3. CASE phase[o] = "Left"
        BY <1>i, <3>4, <3>5, <3>6, <4>1, <4>3 DEF One
      <4>. QED
        BY <4>2, <4>3
    <3>. QED
      BY <1>t, <3>2, <3>4, <3>7, Zenon
  <2>. QED
    BY <1>4, <2>1, <2>2 DEF Operation
<1>5. ASSUME NEW th \in Threads, NEW o \in Ops,
             Complete(th, o) \/ Release(th, o) \/ Finishes(th, o) \/ ThreadUnheard(th, o)
      PROVE  CountsAreExact' /\ QueuedHasThread'
  <2>0. o \in job[th] /\ HasRun(th)
    BY <1>5, Zenon DEF Complete, Release, Finishes, ThreadUnheard, HasRun
  <2>o. job[th] = {o} /\ \A u \in Threads : u # th => o \notin job[u]
    BY <1>o, <2>0
  <2>1. /\ UNCHANGED <<left, told, queue, counts>>
        /\ \A u \in Threads : u # th => at'[u] = at[u] /\ job'[u] = job[u]
        /\ \A p \in Ops : p # o => phase'[p] = phase[p]
    BY <1>5, Zenon DEF Complete, Release, Finishes, ThreadUnheard, TypeOK, ThreadTypes, OpTypes
  <2>2. \A u \in Threads : u # th => Apart(u)
    BY <2>o, <2>1 DEF Apart, TypeOK, ThreadTypes
  <2>3. /\ at'[th] \in {"complete", "release", "finished", "unheard", "look", "none"}
        /\ at'[th] = "look" => ~left[th]
        /\ at'[th] = "none" => left[th]
    BY <1>5, Zenon DEF Complete, Release, Finishes, ThreadUnheard, TypeOK, ThreadTypes
  <2>4. /\ th \in Counted <=> ~left[th]
        /\ th \in WillLook <=> ~left[th]
        /\ th \notin Busy /\ th \notin RunsUnheard
    BY <2>0, Zenon DEF Counted, Busy, RunsUnheard, WillLook, Runs, HasRun
  <2>5. /\ th \in Counted' <=> ~left[th]
        /\ th \in WillLook' <=> ~left[th]
        /\ th \notin Busy' /\ th \notin RunsUnheard'
    BY <2>1, <2>3, Zenon DEF Counted, Busy, RunsUnheard, WillLook, Runs, HasRun
  <2>6. /\ threads' = threads + One(th \in Counted') - One(th \in Counted)
        /\ busy' = busy + One(th \in Busy') - One(th \in Busy)
        /\ unheard' = unheard + One(th \in RunsUnheard') - One(th \in RunsUnheard)
        /\ Len(queue') = Len(queue)
    <3>0. threads' = threads /\ busy' = busy /\ unheard' = unheard
      BY <2>1 DEF counts
    <3>1. threads' = threads + One(th \in Counted') - One(th \in Counted)
      BY <1>i, <3>0, <2>4, <2>5 DEF One
    <3>2. busy' = busy + One(th \in Busy') - One(th \in Busy)
      BY <1>i, <3>0, <2>4, <2>5 DEF One
    <3>3. unheard' = unheard + One(th \in RunsUnheard') - One(th \in RunsUnheard)
      BY <1>i, <3>0, <2>4, <2>5 DEF One
    <3>4. Len(queue') = Len(queue)
      BY <1>i, <2>1, <2>4, <2>5 DEF One, counts
    <3>. QED
      BY <3>1, <3>2, <3>3, <3>4
  <2>. QED
    BY <1>t, <2>2, <2>4, <2>5, <2>6
<1>6. ASSUME NEW o \in Ops, Waiter(o)
      PROVE  CountsAreExact' /\ QueuedHasThread'
  <2>0. UNCHANGED <<at, job, left>>
    BY <1>6, Zenon DEF Waiter, TakesNothingNew, Withhold, WithheldLeaves, Take, Detach, DropBegins,
                DropDecides, DropUnheard, threadVars
  <2>1. CASE DropDecides(o)
    <3>1. \A p \in Ops : p # o => phase'[p] = phase[p] /\ told'[p] = told[p]
      BY <2>1 DEF DropDecides, TypeOK, OpTypes
    <3>2. CASE phase[o] = "Running"
      <4>1. PICK th \in Threads : Runs(th) /\ o \in job[th]
        BY <3>2 DEF Inv, RunInv
      <4>o. job[th] = {o} /\ \A u \in Threads : u # th => o \notin job[u]
        BY <1>o, <4>1, Zenon
      <4>2. \A u \in Threads : u # th => Apart(u)
        BY <2>0, <3>1, <4>o, Zenon DEF Apart, TypeOK, ThreadTypes
      <4>3. phase'[o] = "Left" /\ threads' = threads - 1 /\ busy' = busy - 1 /\ queue' = queue
        BY <2>1, <3>2, Zenon DEF DropDecides, TypeOK, OpTypes
      <4>4. unheard' = IF told'[o] THEN unheard ELSE unheard + 1
        <5>1. ~told[o]
          BY <2>1, Zenon DEF DropDecides, Inv, WaiterInv, WaiterAgrees
        <5>2. \/ told' = [told EXCEPT ![o] = TRUE] /\ unheard' = unheard
              \/ unheard' = unheard + 1 /\ told' = told
          BY <2>1, <3>2, Zenon DEF DropDecides
        <5>. QED
          BY <5>1, <5>2 DEF TypeOK, OpTypes
      <4>5. th \in Counted /\ th \in Busy /\ th \notin RunsUnheard /\ th \notin WillLook
        BY <3>2, <4>1, <4>o DEF Counted, Busy, RunsUnheard, WillLook, Runs, HasRun, JobIn
      <4>6. /\ th \notin Counted' /\ th \notin Busy'
            /\ th \in RunsUnheard' <=> ~told'[o]
        BY <2>0, <4>1, <4>3, <4>o DEF Counted, Busy, RunsUnheard, Runs, HasRun, JobIn
      <4>7. /\ threads' = threads + One(th \in Counted') - One(th \in Counted)
            /\ busy' = busy + One(th \in Busy') - One(th \in Busy)
            /\ unheard' = unheard + One(th \in RunsUnheard') - One(th \in RunsUnheard)
            /\ Len(queue') = Len(queue)
        <5>1. threads' = threads + One(th \in Counted') - One(th \in Counted)
          BY <1>i, <4>3, <4>4, <4>5, <4>6 DEF One
        <5>2. busy' = busy + One(th \in Busy') - One(th \in Busy)
          BY <1>i, <4>3, <4>4, <4>5, <4>6 DEF One
        <5>3. unheard' = unheard + One(th \in RunsUnheard') - One(th \in RunsUnheard)
          BY <1>i, <4>3, <4>4, <4>5, <4>6 DEF One
        <5>4. Len(queue') = Len(queue)
          BY <1>i, <4>3, <4>4, <4>5, <4>6 DEF One
        <5>. QED
          BY <5>1, <5>2, <5>3, <5>4
      <4>. QED
        BY <1>t, <4>2, <4>5, <4>7
    <3>3. CASE phase[o] # "Running"
      <4>1. UNCHANGED counts
        BY <2>1, <3>3, Zenon DEF DropDecides
      <4>2. Len(queue') \in Nat /\ Len(queue') <= Len(queue)
        <5>1. queue' = queue \/ queue' = Without(queue, o)
          BY <2>1, <3>3, Zenon DEF DropDecides
        <5>2. \A i, j \in DOMAIN queue : queue[i] = queue[j] => i = j
          BY DEF Inv, QueueInv
        <5>3. Len(Without(queue, o)) <= Len(queue) /\ Without(queue, o) \in Seq(Ops)
          BY <1>q, <5>2, WithoutFacts, Zenon
        <5>. QED
          BY <1>q, <5>1, <5>3
      <4>3. UNCHANGED told
        BY <2>1, <3>3, Zenon DEF DropDecides
      <4>4. CASE \A u \in Threads : o \notin job[u]
        <5>1. \A u \in Threads : Apart(u)
          BY <2>0, <3>1, <4>4 DEF Apart, TypeOK, ThreadTypes
        <5>. QED
          BY <1>n, <1>q, <1>c, <4>1, <4>2, <5>1 DEF QueuedHasThread
      <4>5. ASSUME NEW th \in Threads, o \in job[th]
            PROVE  CountsAreExact' /\ QueuedHasThread'
        <5>o. job[th] = {o} /\ \A u \in Threads : u # th => o \notin job[u]
          BY <1>o, <4>5, Zenon
        <5>1. \A u \in Threads : u # th => Apart(u)
          BY <2>0, <3>1, <5>o DEF Apart, TypeOK, ThreadTypes
        <5>2. waiter[o] = "leaving" /\ phase[o] \notin {"Left", "Queued"}
          BY <2>1, <4>5, Zenon DEF DropDecides, Inv, WaiterInv, WaiterAgrees, PhaseInv,
                  ThreadAgrees, JobInv, TypeOK, ThreadTypes,
                            Free, Over, Runs
        <5>3. ~Runs(th)
          BY <3>3, <4>5, <5>2, Zenon DEF Inv, PhaseInv, ThreadAgrees, Runs
        <5>4. (th \in Counted <=> th \in Counted') /\ (th \in WillLook <=> th \in WillLook')
              /\ th \notin Busy /\ th \notin Busy'
              /\ th \notin RunsUnheard /\ th \notin RunsUnheard'
          BY <2>0, <5>3, Zenon DEF Counted, Busy, RunsUnheard, WillLook, Runs, HasRun
        <5>5. UNCHANGED queue
          BY <2>1, <5>2, Zenon DEF DropDecides
        <5>6. /\ threads' = threads + One(th \in Counted') - One(th \in Counted)
              /\ busy' = busy + One(th \in Busy') - One(th \in Busy)
              /\ unheard' = unheard + One(th \in RunsUnheard') - One(th \in RunsUnheard)
              /\ Len(queue') = Len(queue)
          <6>1. threads' = threads + One(th \in Counted') - One(th \in Counted)
            BY <1>i, <4>1, <5>4, <5>5 DEF One, counts
          <6>2. busy' = busy + One(th \in Busy') - One(th \in Busy)
            BY <1>i, <4>1, <5>4, <5>5 DEF One, counts
          <6>3. unheard' = unheard + One(th \in RunsUnheard') - One(th \in RunsUnheard)
            BY <1>i, <4>1, <5>4, <5>5 DEF One, counts
          <6>4. Len(queue') = Len(queue)
            BY <1>i, <4>1, <5>4, <5>5 DEF One, counts
          <6>. QED
            BY <6>1, <6>2, <6>3, <6>4
        <5>. QED
          BY <1>t, <5>1, <5>4, <5>6, Zenon
      <4>. QED
        BY <4>4, <4>5
    <3>. QED
      BY <3>2, <3>3
  <2>2. CASE \/ TakesNothingNew(o) \/ Withhold(o) \/ WithheldLeaves(o) \/ Take(o) \/ Detach(o)
             \/ DropBegins(o) \/ DropUnheard(o)
    <3>1. UNCHANGED <<phase, told, queue, counts>>
      BY <2>2, Zenon DEF TakesNothingNew, Withhold, WithheldLeaves, Take, Detach, DropBegins,
                  DropUnheard
    <3>2. \A u \in Threads : Apart(u)
      BY <2>0, <3>1 DEF Apart
    <3>. QED
      BY <1>n, <1>q, <3>1, <3>2 DEF QueuedHasThread
  <2>. QED
    BY <1>6, <2>1, <2>2 DEF Waiter
<1>7. ASSUME Stop
      PROVE  CountsAreExact' /\ QueuedHasThread'
  <2>1. /\ UNCHANGED <<phase, told, job, left, counts>> /\ queue' = <<>>
        /\ \A u \in Threads : at'[u] = at[u] \/ (at[u] = "asleep" /\ at'[u] = "look")
    BY <1>7 DEF Stop, opVars
  <2>2. Counted' = Counted /\ Busy' = Busy
    BY <2>1, Zenon DEF Counted, Busy, Runs, HasRun, JobIn
  <2>3. RunsUnheard' = RunsUnheard
    BY <2>1 DEF RunsUnheard, Runs
  <2>4. Cardinality(WillLook') \in Nat
    <3>1. WillLook' \in SUBSET Threads
      BY DEF WillLook
    <3>. QED
      BY <3>1, Finite, FS_Subset, FS_CardinalityType
  <2>5. Len(queue') = 0
    BY <2>1
  <2>6. CountsAreExact'
    BY <2>1, <2>2, <2>3 DEF CountsAreExact, counts
  <2>7. QueuedHasThread'
    BY <2>4, <2>5 DEF QueuedHasThread
  <2>. QED
    BY <2>6, <2>7
<1>. QED
  BY <1>1, <1>2, <1>3, <1>4, <1>5, <1>6, <1>7 DEF Next, ThreadGoesOn

-----------------------------------------------------------------------------
\* PoolInner's three counters are exact, although the thread that runs an
\* operation and the waiter that leaves it each change them.  (submit relies on
\* them to count the threads that are idle: the two are proved together.)
THEOREM CountsAreExactAlways == Spec => [](CountsAreExact /\ QueuedHasThread)
<1>1. Init => CountsAreExact /\ QueuedHasThread
  <2>. SUFFICES ASSUME Init PROVE CountsAreExact /\ QueuedHasThread
    OBVIOUS
  <2>1. Counted = {} /\ Busy = {} /\ RunsUnheard = {} /\ WillLook = {}
    BY Zenon DEF Init, Counted, Busy, RunsUnheard, WillLook, Runs, HasRun
  <2>2. Len(queue) = 0
    BY DEF Init
  <2>3. Cardinality(Counted) = 0 /\ Cardinality(Busy) = 0 /\ Cardinality(RunsUnheard) = 0
        /\ Cardinality(WillLook) = 0
    BY <2>1, FS_EmptySet
  <2>4. threads = 0 /\ busy = 0 /\ unheard = 0
    BY DEF Init
  <2>. QED
    BY <2>2, <2>3, <2>4 DEF CountsAreExact, QueuedHasThread
<1>2. TypeOK /\ Inv /\ NamesInv /\ CountsAreExact /\ QueuedHasThread /\ [Next]_vars
        => (CountsAreExact /\ QueuedHasThread)'
  <2>. SUFFICES ASSUME TypeOK, Inv, CountsAreExact, QueuedHasThread, UNCHANGED vars
                PROVE  CountsAreExact' /\ QueuedHasThread'
    BY FreeName, CountsStep
  <2>1. UNCHANGED <<at, job, left, phase, told, queue, threads, busy, unheard, pool>>
    BY DEF vars, opVars, counts, threadVars
  <2>2. /\ Counted' = Counted /\ Busy' = Busy
        /\ RunsUnheard' = RunsUnheard /\ WillLook' = WillLook
    BY <2>1, Zenon DEF Counted, Busy, RunsUnheard, WillLook, Runs, HasRun, JobIn
  <2>. QED
    BY <2>1, <2>2 DEF CountsAreExact, QueuedHasThread
<1>. QED
  BY <1>1, <1>2, PoolInvariant, PTL DEF Spec

\* Where threads can be started, an operation that IoPool::submit queues has
\* a thread that is awake, and no notify is lost.
THEOREM QueuedHasThreadAlways == Spec => []QueuedHasThread
  BY CountsAreExactAlways, PTL
=============================================================================
