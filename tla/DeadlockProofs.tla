--------------------------- MODULE DeadlockProofs ---------------------------
(***************************************************************************)
(* The verdicts of Inner::check (module Deadlock) are true, and the stop   *)
(* of the tasks is seen: what stops the tasks and what is told of it, the  *)
(* counters of a Group, the check that will see the stop.                  *)
(***************************************************************************)
EXTENDS DeadlockInvariant

\* Whoever has ended a wait stays where it is until the wake.
LEMMA CauseStep ==
    ASSUME TypeOK, HeldInv, ThreadInv, WaitInv, MainInv, CauseInv, [Next]_vars
    PROVE  CauseInv'
<1> SUFFICES ASSUME NEW a \in Actors, at'[a] \in {"fired", "woken"}
             PROVE  CauseOf(a, by[a])'
  BY DEF CauseInv
<1>0. Main \in Actors /\ Tasks \subseteq Actors /\ Streams \subseteq Actors
      /\ Streams \subseteq Ops
  BY Sets DEF Sets, Actors
<1>1. Stays(a) \/ (Moved(a) /\ Kept(a) /\ Goes(at[a], at'[a]))
  BY MoveFacts, GoesFacts
<1>2. CASE at[a] = "wait"
  <2> DEFINE x == by'[a]
  <2>1. Moved(a) /\ Kept(a)
    BY <1>1, <1>2 DEF Stays
  <2>2. Ends(a, x)
    BY <1>2, <2>1, RunsFacts DEF Moved
  <2>3. on'[a] = on[a]
    BY <1>2, <2>1 DEF Kept
  <2> HIDE DEF x
  <2>4. CASE x \in Actors /\ (Runs(x) \/ at[x] = "enter") /\ at'[x] = at[x]
    <3>1. at[x] \in {"run", "enter"}
      BY <2>4, RunsFacts
    <3>2. CASE x \in Streams
      <4>1. op[x] \in {"started", "serves"}
        BY <3>1, <3>2 DEF ThreadInv
      <4>2. op'[x] \in {"starting", "started", "serves"}
        BY <3>2, <4>1, StreamStep
      <4>. QED
        BY <3>2, <4>2 DEF CauseOf, Streaming
    <3>3. CASE x \in Tasks \cup {Main}
      BY <2>4, <3>1, <3>3 DEF CauseOf, x
    <3>. QED
      BY <2>4, <3>2, <3>3 DEF Actors
  <2>5. CASE x \in Ops /\ op[x] = "flying" /\ on[a] = x /\ op'[x] = "done"
    <3>1. owner[x] = a /\ held[x]
      BY <1>2, <2>5 DEF WaitInv, HeldInv
    <3>2. OpStays(x) \/ OpMoved(x)
      BY <2>5, OpFacts
    <3>3. owner'[x] = a /\ held'[x]
      BY <2>5, <3>1, <3>2 DEF OpStays, OpMoved
    <3>. QED
      BY <2>5, <3>3 DEF CauseOf, x
  <2>6. CASE x = TimerThread /\ on[a] = "timed"
    BY <2>3, <2>6 DEF CauseOf, x
  <2>7. CASE x = Main /\ phase = "cancel" /\ phase' = phase
    BY <2>7 DEF CauseOf, x
  <2>8. CASE x \in Checkers /\ a = Main /\ result' = "Cancelled"
    BY <2>8 DEF CauseOf, x
  <2>. QED
    BY <2>2, <2>4, <2>5, <2>6, <2>7, <2>8 DEF Ends
<1>3. CASE at[a] # "wait"
  <2> DEFINE x == by[a]
  <2>1. at[a] \in {"fired", "woken"} /\ by'[a] = x /\ on'[a] = on[a]
    BY <1>1, <1>3 DEF Stays, Kept, Goes
  <2>2. CauseOf(a, x)
    BY <2>1 DEF CauseInv
  <2>3. Busy(x)
    BY DEF Busy
  <2> HIDE DEF x
  <2>4. CASE x \in Tasks \cup {Main} /\ at[x] \in {"run", "enter"}
    <3>1. Stays(x) \/ Moved(x)
      BY <1>0, <2>4, MoveFacts
    <3>2. ~Moved(x)
      BY <2>3, <2>4, RunsFacts DEF Moved
    <3>. QED
      BY <2>1, <2>4, <3>1, <3>2 DEF Stays, CauseOf
  <2>5. CASE x = Main /\ phase = "cancel"
    <3>1. at[Main] = "gone"
      BY <2>5 DEF MainInv
    <3>2. phase' = phase \/ MainMoved
      BY MainFacts
    <3>3. phase' = phase
      BY <2>3, <2>5, <3>1, <3>2, RunsFacts DEF MainMoved, PhaseMoved
    <3>. QED
      BY <2>1, <2>5, <3>3 DEF CauseOf
  <2>6. CASE x \in Ops /\ op[x] = "done" /\ owner[x] = a /\ held[x]
    <3>1. OpStays(x) \/ OpMoved(x)
      BY <2>6, OpFacts
    <3>2. ~OpMoved(x)
      BY <2>1, <2>3, <2>6, RunsFacts DEF OpMoved
    <3>. QED
      BY <2>1, <2>6, <3>1, <3>2 DEF OpStays, CauseOf
  <2>7. CASE x = TimerThread /\ on[a] = "timed"
    BY <2>1, <2>7 DEF CauseOf
  <2>8. CASE x \in Checkers /\ a = Main /\ result = "Cancelled"
    BY <2>1, <2>8, ResultFacts DEF CauseOf
  <2>9. CASE Streaming
    BY <2>9, StreamingStep DEF CauseOf
  <2>. QED
    BY <2>2, <2>4, <2>5, <2>6, <2>7, <2>8, <2>9 DEF CauseOf
<1>. QED
  BY <1>2, <1>3

-----------------------------------------------------------------------------
(* What stops the tasks, and what is told of it.                           *)

\* Tasks that have come to a stop stay so, while the program's thread does
\* nothing to them.
LEMMA StuckStable ==
    ASSUME TypeOK, HeldInv, ThreadInv, Stuck({Main}), at[Main] \notin {"run", "enter"},
           phase # "cancel", [Next]_vars
    PROVE  Stuck({Main})' \/ Streaming'
<1> SUFFICES ASSUME ~Streaming' PROVE Stuck({Main})'
  OBVIOUS
<1>0. Main \in Actors
  BY DEF Actors
<1>1. \A b \in Actors : at[b] \notin {"run", "enter"}
  BY DEF Stuck, Rests
<1>2. \A b \in Actors : ~Runs(b)
  BY <1>1, RunsFacts
<1>3. \A o \in Ops : ~held[o] /\ op[o] # "flying"
  BY DEF Stuck, HeldInv
<1>4. ASSUME NEW a \in Actors \ {Main} PROVE Rests(a)'
  <2>1. Stays(a) \/ (Moved(a) /\ Kept(a))
    BY MoveFacts
  <2>2. at[a] \in {"none", "gone"} \/ (at[a] = "wait" /\ on[a] = "peer")
    BY DEF Stuck, Rests
  <2>3. CASE Moved(a) /\ at[a] = "none"
    <3>1. a \in Streams /\ op'[a] = "started"
      BY <1>2, <2>3, RunsFacts DEF Moved, Ending
    <3>. QED
      BY <3>1 DEF Streaming
  <2>4. CASE Moved(a) /\ at[a] = "gone"
    BY <2>4, GoesFacts DEF Goes
  <2>5. CASE Moved(a) /\ at[a] = "wait"
    <3>1. Ends(a, by'[a])
      BY <2>5, RunsFacts DEF Moved
    <3>. QED
      BY <1>1, <1>2, <1>3, <2>2, <2>5, <3>1 DEF Ends
  <2>. QED
    BY <2>1, <2>2, <2>3, <2>4, <2>5 DEF Stays, Rests
<1>5. ASSUME NEW o \in Ops PROVE ~held'[o]
  <2>1. OpStays(o) \/ OpMoved(o)
    BY OpFacts
  <2>2. ~held[o]
    BY <1>3
  <2>. QED
    BY <1>2, <2>1, <2>2 DEF OpStays, OpMoved
<1>. QED
  BY <1>4, <1>5 DEF Stuck

\* No External is there when none is counted.
LEMMA NoneHeld ==
    ASSUME CountsInv, external <= 0
    PROVE  \A o \in Ops : ~held[o]
<1>1. Held \in SUBSET Ops /\ IsFiniteSet(Ops)
  BY Sets DEF Held, Sets
<1>2. IsFiniteSet(Held)
  BY <1>1, FS_Subset
<1>3. Cardinality(Held) \in Nat
  BY <1>2, FS_CardinalityType
<1>4. Cardinality(Held) = 0
  BY <1>3 DEF CountsInv
<1>5. Held = {}
  BY <1>2, <1>4, FS_EmptySet
<1>. QED
  BY <1>5 DEF Held

\* The exact look: when all wait, and no I/O or timer is there to end a
\* wait, they have come to a stop.
LEMMA ParkedStuck ==
    ASSUME TypeOK, HeldInv, WaitInv, CauseInv, CountsInv, AllParked, external <= 0,
           phase # "cancel"
    PROVE  Stuck({Main}) \/ Streaming
<1> SUFFICES ASSUME ~Streaming PROVE Stuck({Main})
  OBVIOUS
<1>0. Main \in Actors /\ Tasks \subseteq Actors
  BY DEF Actors
<1>1. \A o \in Ops : ~held[o] /\ op[o] # "flying"
  BY NoneHeld DEF HeldInv
<1>2. ASSUME NEW a \in Actors \ {Main} PROVE Rests(a)
  <2>1. at[a] \in {"none", "gone"} \/ (at[a] \in {"wait", "fired"} /\ on[a] # "timed")
    BY DEF AllParked
  <2>2. CASE at[a] = "wait" /\ on[a] # "timed"
    <3>1. on[a] \in {"peer", "timed"} \cup Ops
      BY DEF TypeOK, WaitTypes
    <3>2. on[a] \notin Ops
      BY <1>1, <2>2 DEF WaitInv
    <3>. QED
      BY <2>2, <3>1, <3>2 DEF Rests
  <2>3. CASE at[a] = "fired" /\ on[a] # "timed"
    <3>1. CauseOf(a, by[a])
      BY <2>3 DEF CauseInv
    <3>2. by[a] \in Tasks \cup {Main} => at[by[a]] \notin {"run", "enter"}
      BY <1>0 DEF AllParked
    <3>. QED
      BY <1>1, <2>3, <3>1, <3>2 DEF CauseOf
  <2>. QED
    BY <2>1, <2>2, <2>3 DEF Rests
<1>. QED
  BY <1>1, <1>2 DEF Stuck

\* The sets behind the counters are finite.
LEMMA FiniteAlive ==
    /\ IsFiniteSet(Actors)
    /\ IsFiniteSet(Alive) /\ IsFiniteSet(Parked) /\ IsFiniteSet(Committed) /\ IsFiniteSet(Held)
<1>1. IsFiniteSet(Tasks) /\ IsFiniteSet(Ops) /\ Streams \in SUBSET Ops
  BY Sets DEF Sets
<1>2. IsFiniteSet(Streams) /\ IsFiniteSet(Tasks \cup {Main})
  BY <1>1, FS_Subset, FS_AddElement
<1>3. IsFiniteSet(Actors)
  BY <1>2, FS_Union DEF Actors
<1>4. Alive \in SUBSET Actors /\ Parked \in SUBSET Actors /\ Committed \in SUBSET Actors
      /\ Held \in SUBSET Ops
  BY DEF Alive, Parked, Committed, Held
<1>. QED
  BY <1>1, <1>3, <1>4, FS_Subset

\* While the registry is held nobody who waits goes on, and nobody else is
\* there to run.
LEMMA HoldStep ==
    ASSUME TypeOK, HeldInv, ThreadInv, KnownInv, CountsInv, HoldInv, [Next]_vars
    PROVE  HoldInv'
<1> SUFFICES ASSUME Inspecting', ~Streaming' PROVE AllParked'
  BY DEF HoldInv
<1>0. ~Streaming
  BY StreamingStep
<1>1. PICK c \in Checkers : check'[c].pc = "external2"
  BY DEF Inspecting
<1>2. check'[c] = check[c] \/ CheckMoved(c)
  BY CheckFacts
<1>3. CASE check'[c] = check[c]
  <2>1. Inspecting
    BY <1>1, <1>3 DEF Inspecting
  <2>2. AllParked
    BY <1>0, <2>1 DEF HoldInv
  <2>3. \A b \in Actors : ~Runs(b)
    BY <2>2, RunsFacts DEF AllParked
  <2>4. ASSUME NEW a \in Actors
        PROVE  \/ at'[a] \in {"none", "gone"}
               \/ at'[a] \in {"wait", "fired"} /\ on'[a] # "timed"
    <3>1. Stays(a) \/ (Moved(a) /\ Kept(a) /\ Goes(at[a], at'[a]))
      BY MoveFacts, GoesFacts
    <3>2. at[a] \in {"none", "gone"} \/ (at[a] \in {"wait", "fired"} /\ on[a] # "timed")
      BY <2>2 DEF AllParked
    <3>3. CASE Moved(a) /\ at[a] = "none"
      <4>1. a \in Streams /\ op'[a] = "started"
        BY <2>3, <3>3, RunsFacts DEF Moved, Ending
      <4>. QED
        BY <4>1 DEF Streaming
    <3>4. CASE Moved(a) /\ at[a] = "fired"
      BY <2>1, <3>4, RunsFacts DEF Moved
    <3>5. CASE Moved(a) /\ Kept(a) /\ Goes(at[a], at'[a]) /\ at[a] \in {"gone", "wait"}
      BY <3>2, <3>5 DEF Goes, Kept
    <3>. QED
      BY <3>1, <3>2, <3>3, <3>4, <3>5 DEF Stays
  <2>. QED
    BY <2>4 DEF AllParked
<1>4. CASE CheckMoved(c) /\ check'[c] # check[c]
  <2>1. /\ Cardinality(Committed) = live /\ \A a \in Committed : on[a] # "timed"
        /\ at' = at /\ on' = on
    <3>1. Idle.pc = "idle"
      BY DEF Idle
    <3>. QED
      BY <1>1, <1>4, <3>1 DEF CheckMoved
  <2>2. Committed \in SUBSET Alive
    BY DEF Committed, Alive
  <2>3. Cardinality(Alive) = Cardinality(Committed)
    BY <2>1 DEF CountsInv
  <2>4. Alive = Committed
    BY <2>2, <2>3, FiniteAlive, FS_Subset
  <2>5. AllParked
    BY <2>1, <2>4 DEF AllParked, Alive, Committed
  <2>. QED
    BY <2>1, <2>5 DEF AllParked
<1>. QED
  BY <1>2, <1>3, <1>4

\* A thread that has its verdict with the registry held is right.
LEMMA VerdictFacts ==
    ASSUME TypeOK, Basics, HoldInv, Inspecting, external <= 0, phase # "cancel"
    PROVE  Stuck({Main}) \/ Streaming
<1>1. AllParked \/ Streaming
  BY DEF HoldInv
<1>. QED
  BY <1>1, ParkedStuck DEF Basics

\* The program's thread settles only when it has been told the truth.
LEMMA TellStep ==
    ASSUME TypeOK, Basics, HoldInv, TellInv, [Next]_vars
    PROVE  TellInv'
<1>b. HeldInv /\ ThreadInv /\ MainInv /\ KnownInv
  BY DEF Basics
<1>1. phase' = "settling" => phase = "settling" \/ (phase = "settle" /\ ~told')
  <2>1. phase' = phase \/ MainMoved
    BY MainFacts
  <2>2. at[Main] \in {"run", "failed"} => phase = "code"
    BY <1>b DEF MainInv
  <2>. QED
    BY <1>b, <2>1, <2>2, RunsFacts DEF MainMoved, PhaseMoved, MainInv
<1>2. phase = "settling" => at[Main] = "gone" /\ main.waits = "Settling"
  BY <1>b DEF MainInv
<1>3. phase = "settling" /\ (Stuck({Main}) \/ Streaming) => Stuck({Main})' \/ Streaming'
  BY <1>b, <1>2, StuckStable, StreamingStep
<1>4. ASSUME NEW c \in Checkers, check'[c].pc = "tell", check'[c].waits = "Settling",
             phase' = "settling"
      PROVE  Stuck({Main})' \/ Streaming'
  <2>1. check'[c] = check[c] \/ CheckMoved(c)
    BY <1>b, CheckFacts
  <2>2. Idle.pc = "idle"
    BY DEF Idle
  <2>3. \/ check'[c] = check[c]
        \/ check[c].pc = "external2" /\ check[c].waits = "Settling" /\ external <= 0
    BY <1>4, <2>1, <2>2 DEF CheckMoved
  <2>4. check[c].waits = "Settling"
    BY <1>4, <2>3
  <2>5. phase = "settling"
    BY <1>1, <1>4, <1>b, <2>4 DEF KnownInv
  <2>6. CASE check'[c] = check[c]
    BY <1>3, <1>4, <2>5, <2>6 DEF TellInv
  <2>7. CASE check[c].pc = "external2" /\ external <= 0
    <3>1. Inspecting
      BY <2>7 DEF Inspecting
    <3>2. Stuck({Main}) \/ Streaming
      BY <2>5, <2>7, <3>1, VerdictFacts
    <3>. QED
      BY <1>3, <2>5, <3>2
  <2>. QED
    BY <2>3, <2>6, <2>7
<1>5. ASSUME told', phase' = "settling" PROVE Stuck({Main})' \/ Streaming'
  <2>1. phase = "settling"
    BY <1>1, <1>5
  <2>2. CASE told
    BY <1>3, <2>1, <2>2 DEF TellInv
  <2>3. CASE ~told
    <3>1. PICK c \in Checkers : check[c].pc = "tell" /\ main.waits = check[c].waits
      BY <1>5, <2>3, MainFacts
    <3>. QED
      BY <1>2, <1>3, <2>1, <3>1 DEF TellInv
  <2>. QED
    BY <2>2, <2>3
<1>. QED
  BY <1>4, <1>5 DEF TellInv

\* A wait of the program that a verdict is for is still the one that a check
\* has read, and its verdict still holds.
LEMMA CancelStep ==
    ASSUME TypeOK, Basics, HoldInv, CancelInv, [Next]_vars
    PROVE  CancelInv'
<1>b. HeldInv /\ ThreadInv /\ MainInv /\ KnownInv
  BY DEF Basics
<1>m. Main \in Actors
  BY DEF Actors
<1> SUFFICES ASSUME NEW c \in Checkers, check'[c].pc \in {"store", "cancel"},
                    check'[c].id = blocks'
             PROVE  /\ at'[Main] # "enter"
                    /\ at'[Main] = "wait" => Stuck({Main})' \/ Streaming'
  BY DEF CancelInv
<1>1. \/ check[c].pc \in {"store", "cancel"} /\ check'[c].id = check[c].id
      \/ /\ check[c].pc = "external2" /\ external <= 0 /\ check[c].waits = "Blocked"
         /\ Main \in Committed /\ blocks = check[c].id /\ check'[c].id = check[c].id
  <2>1. check'[c] = check[c] \/ CheckMoved(c)
    BY <1>b, CheckFacts
  <2>2. Idle.pc = "idle"
    BY DEF Idle
  <2>. QED
    BY <2>1, <2>2 DEF CheckMoved
<1>2. blocks' = blocks /\ check[c].id = blocks
  <2>1. check[c].id <= blocks
    BY <1>1, <1>b DEF KnownInv
  <2>2. blocks' >= blocks
    BY <1>b, OrderStep
  <2>3. blocks \in Int /\ blocks' \in Int /\ check[c].id \in Int
    BY <1>b, TypeStep DEF TypeOK, MainTypes, CheckTypes, CheckType
  <2>. QED
    BY <1>1, <2>1, <2>2, <2>3
<1>3. /\ at[Main] # "enter"
      /\ at[Main] = "wait" => Stuck({Main}) \/ Streaming
  <2>1. CASE check[c].pc \in {"store", "cancel"}
    BY <1>2, <2>1 DEF CancelInv
  <2>2. CASE check[c].pc = "external2" /\ external <= 0 /\ Main \in Committed
    <3>1. Inspecting
      BY <2>2 DEF Inspecting
    <3>2. at[Main] \in {"wait", "fired"} /\ phase = "code"
      BY <1>b, <2>2 DEF Committed, MainInv
    <3>. QED
      BY <2>2, <3>1, <3>2, VerdictFacts
  <2>. QED
    BY <1>1, <2>1, <2>2
<1>4. Stays(Main) \/ (Moved(Main) /\ Goes(at[Main], at'[Main]))
  BY <1>b, <1>m, MoveFacts, GoesFacts
<1>5. at'[Main] # "enter"
  <2>1. blocks \in Int
    BY DEF TypeOK, MainTypes
  <2>2. at'[Main] = "enter" => Stays(Main) \/ Runs(Main)
    <3>1. GoesOn(Main) = "resumed"
      BY <1>m, GoesOnFacts
    <3>. QED
      BY <1>4, <3>1 DEF Moved
  <2>3. Stays(Main) => at'[Main] # "enter"
    BY <1>3 DEF Stays
  <2>4. Moved(Main) /\ Runs(Main) => at'[Main] # "enter"
    <3>1. Moved(Main) /\ Runs(Main) /\ at'[Main] = "enter" => blocks' = blocks + 1
      BY RunsFacts DEF Moved
    <3>2. blocks' # blocks + 1
      BY <1>2, <2>1
    <3>. QED
      BY <3>1, <3>2
  <2>. QED
    BY <1>4, <2>2, <2>3, <2>4
<1>6. ASSUME at'[Main] = "wait" PROVE Stuck({Main})' \/ Streaming'
  <2>1. at[Main] = "wait"
    BY <1>3, <1>4, <1>6 DEF Stays, Goes
  <2>2. phase = "code"
    BY <1>b, <2>1 DEF MainInv
  <2>. QED
    BY <1>3, <1>b, <2>1, <2>2, StuckStable, StreamingStep
<1>. QED
  BY <1>5, <1>6

\* A wait of the program fails as a deadlock only if it is one.
LEMMA RaiseStep ==
    ASSUME TypeOK, Basics, CancelInv, RaiseInv, [Next]_vars
    PROVE  RaiseInv'
<1>b. HeldInv /\ ThreadInv /\ MainInv /\ KnownInv
  BY DEF Basics
<1>m. Main \in Actors
  BY DEF Actors
<1> SUFFICES ASSUME Raises' PROVE Stuck({Main})' \/ Streaming'
  BY DEF RaiseInv
<1>1. \/ at'[Main] = "failed"
      \/ at'[Main] \in {"fired", "woken", "resumed"} /\ result' = "Cancelled"
  BY DEF Raises
<1>2. Stays(Main) \/ (Moved(Main) /\ Goes(at[Main], at'[Main]))
  BY <1>b, <1>m, MoveFacts, GoesFacts
<1>3. at[Main] \in {"failed", "fired", "woken", "resumed", "enter", "wait"}
  <2>1. at[Main] # "refused"
    BY <1>b DEF MainInv
  <2>. QED
    BY <1>1, <1>2, <2>1 DEF Stays, Goes
<1>4. phase = "code" /\ result \in {"Fired", "Cancelled"}
  BY <1>3, <1>b DEF MainInv, TypeOK, WaitTypes
<1>5. CASE at[Main] = "enter"
  <2>1. Moved(Main)
    BY <1>1, <1>2, <1>5 DEF Stays
  <2>2. result' = "Fired"
    BY <1>1, <1>5, <2>1, RunsFacts DEF Moved
  <2>3. at'[Main] # "failed"
    BY <1>2, <1>5 DEF Stays, Goes
  <2>. QED
    BY <1>1, <2>2, <2>3
<1>6. CASE at[Main] = "wait"
  <2>1. Moved(Main)
    BY <1>1, <1>2, <1>6 DEF Stays
  <2>2. Ends(Main, by'[Main]) /\ at'[Main] = "fired"
    BY <1>6, <2>1, RunsFacts DEF Moved
  <2>3. result' = "Cancelled"
    BY <1>1, <2>2
  <2>4. \E c \in Checkers : check[c].pc = "cancel" /\ check[c].id = blocks
    BY <1>4, <2>2, <2>3 DEF Ends
  <2>5. Stuck({Main}) \/ Streaming
    BY <1>6, <2>4 DEF CancelInv
  <2>. QED
    BY <1>4, <1>6, <1>b, <2>5, StuckStable, StreamingStep
<1>7. CASE at[Main] \in {"failed", "fired", "woken", "resumed"}
  <2>1. result' = result
    BY <1>7, ResultFacts
  <2>2. Raises
    <3>1. at'[Main] = "failed" => at[Main] = "failed" \/ (at[Main] = "resumed" /\ result # "Fired")
      <4>1. at'[Main] = "failed" => at[Main] \in {"failed", "resumed"}
        BY <1>2, <1>7 DEF Stays, Goes
      <4>2. at[Main] = "resumed" /\ at'[Main] = "failed" => Moved(Main)
        BY <1>2 DEF Stays
      <4>3. at[Main] = "resumed" /\ at'[Main] = "failed" => result # "Fired"
        BY <4>2, RunsFacts DEF Moved
      <4>. QED
        BY <4>1, <4>3
    <3>. QED
      BY <1>1, <1>4, <1>7, <2>1, <3>1 DEF Raises
  <2>3. Stuck({Main}) \/ Streaming
    BY <2>2 DEF RaiseInv
  <2>. QED
    BY <1>4, <1>7, <1>b, <2>3, StuckStable, StreamingStep
<1>. QED
  BY <1>3, <1>5, <1>6, <1>7

\* The program's thread stops waiting for its tasks when all have ended.
LEMMA StopStep ==
    ASSUME TypeOK, Basics, StopInv, [Next]_vars
    PROVE  StopInv'
<1>b. HeldInv /\ ThreadInv /\ MainInv /\ KnownInv /\ CountsInv
  BY DEF Basics
<1> SUFFICES ASSUME told', main'.waits = "Stopping", ~Streaming', NEW t \in Tasks
             PROVE  at'[t] \in {"none", "gone"}
  BY DEF StopInv
<1>0. ~Streaming
  BY <1>b, StreamingStep
<1>1. main' = main
  <2>1. main' = main \/ MainMoved
    BY MainFacts
  <2>2. NoMain.waits = "None"
    BY DEF NoMain
  <2>. QED
    BY <2>1, <2>2 DEF MainMoved, PhaseMoved
<1>2. main.waits = "Stopping" /\ at[Main] = "gone"
  BY <1>1, <1>b DEF MainInv
<1>3. \A u \in Tasks : at[u] \in {"none", "gone"}
  <2>1. CASE told
    BY <1>0, <1>2, <2>1 DEF StopInv
  <2>2. CASE ~told
    <3>1. live = 0
      BY <1>2, <2>2, MainFacts
    <3>2. Alive = {}
      BY <1>b, <3>1, FiniteAlive, FS_EmptySet DEF CountsInv
    <3>. QED
      BY <3>2 DEF Alive, Actors
  <2>. QED
    BY <2>1, <2>2
<1>4. ASSUME NEW b \in Actors PROVE ~Runs(b)
  <2>1. b \in Streams => at[b] = "none"
    BY <1>0, <1>b DEF ThreadInv, Streaming
  <2>. QED
    BY <1>2, <1>3, <2>1, RunsFacts DEF Actors
<1>5. t \in Actors /\ t \notin Streams
  BY Sets DEF Sets, Actors
<1>6. Stays(t) \/ (Moved(t) /\ Goes(at[t], at'[t]))
  BY <1>5, <1>b, MoveFacts, GoesFacts
<1>7. at[t] \in {"none", "gone"}
  BY <1>3
<1>8. Moved(t) => at[t] # "none"
  BY <1>4, <1>5, RunsFacts DEF Moved, Ending
<1>. QED
  BY <1>6, <1>7, <1>8 DEF Stays, Goes

-----------------------------------------------------------------------------
(* The counters.                                                           *)

One(b) == IF b THEN 1 ELSE 0

\* A set that changes by one element at most.
LEMMA SizeChange ==
    ASSUME NEW S, NEW T, NEW x, IsFiniteSet(S), \A u : u # x => (u \in S <=> u \in T)
    PROVE  Cardinality(T) = Cardinality(S) + One(x \in T) - One(x \in S)
<1>0. Cardinality(S) \in Nat
  BY FS_CardinalityType
<1>1. CASE x \in T
  <2>1. T = S \cup {x}
    BY <1>1
  <2>. QED
    BY <1>0, <1>1, <2>1, FS_AddElement DEF One
<1>2. CASE x \notin T
  <2>1. T = S \ {x}
    BY <1>2
  <2>. QED
    BY <1>0, <1>2, <2>1, FS_RemoveElement DEF One
<1>. QED
  BY <1>1, <1>2

\* Whether one that stands at p counts in `live`, and in `parking`.
Lives(p) == p \notin {"none", "gone"}
InWait(p) == p \in InPark

\* A step moves one actor at most, and counts it.
CountMoved(x) ==
    /\ \A y \in Actors : y # x => at'[y] = at[y]
    /\ live' = live + One(Lives(at'[x])) - One(Lives(at[x]))
    /\ parking' = parking + One(InWait(at'[x])) - One(InWait(at[x]))

Counted == \E x \in Actors : CountMoved(x)

\* The counters follow every move.
LEMMA CountFacts ==
    ASSUME TypeOK, HeldInv, ThreadInv, [Next]_vars
    PROVE  Counted
<1>0. Main \in Actors /\ Tasks \subseteq Actors /\ Streams \subseteq Actors
  BY DEF Actors
<1>c. Changes
  BY StepChanges
<1>t. at \in [Actors -> Places] /\ live \in Int /\ parking \in Int
  BY DEF TypeOK, WaitTypes, CountTypes
\* One that moves without being counted anew.
<1>s. ASSUME NEW x \in Actors, NEW q, at' = [at EXCEPT ![x] = q],
             live' = live, parking' = parking,
             Lives(q) <=> Lives(at[x]), InWait(q) <=> InWait(at[x])
      PROVE  Counted
  <2>1. at'[x] = q /\ \A y \in Actors : y # x => at'[y] = at[y]
    BY <1>s, <1>t
  <2>2. One(Lives(q)) = One(Lives(at[x])) /\ One(InWait(q)) = One(InWait(at[x]))
    BY <1>s DEF One
  <2>3. One(Lives(q)) \in Int /\ One(InWait(q)) \in Int
    BY DEF One
  <2>4. live' = live + One(Lives(q)) - One(Lives(at[x]))
        /\ parking' = parking + One(InWait(q)) - One(InWait(at[x]))
    BY <1>s, <1>t, <2>2, <2>3
  <2>. QED
    BY <2>1, <2>4 DEF CountMoved, Counted
<1>u. ASSUME at' = at, live' = live, parking' = parking PROVE Counted
  <2>1. at' = [at EXCEPT ![Main] = at[Main]]
    BY <1>u, <1>t
  <2>. QED
    BY <1>0, <1>s, <1>u, <2>1 DEF Lives, InWait, InPark
\* One that is counted anew.
<1>w. ASSUME NEW x \in Actors, NEW q, at' = [at EXCEPT ![x] = q],
             live' = live + One(Lives(q)) - One(Lives(at[x])),
             parking' = parking + One(InWait(q)) - One(InWait(at[x]))
      PROVE  Counted
  <2>1. at'[x] = q /\ \A y \in Actors : y # x => at'[y] = at[y]
    BY <1>w, <1>t
  <2>. QED
    BY <1>w, <2>1 DEF CountMoved, Counted
<1>1. ASSUME NEW a \in Actors, ActorSteps(a) PROVE Counted
  <2>g. GoesOn(a) \in {"run", "ending", "resumed"}
    BY GoesOnFacts
  <2>1. ASSUME NEW t \in Tasks, Spawn(a, t) PROVE Counted
    <3>1. at[t] = "none" /\ at' = [at EXCEPT ![t] = "run"]
          /\ live' = live + 1 /\ parking' = parking + 0
      BY <1>t, <2>1 DEF Spawn
    <3>2. /\ live' = live + One(Lives("run")) - One(Lives(at[t]))
          /\ parking' = parking + One(InWait("run")) - One(InWait(at[t]))
      BY <1>t, <3>1 DEF One, Lives, InWait, InPark
    <3>. QED
      BY <1>0, <1>w, <3>1, <3>2
  <2>2. CASE ParkBegin(a)
    <3>1. at[a] = "run" /\ at' = [at EXCEPT ![a] = Enters(a)]
          /\ live' = live + 0 /\ parking' = parking + 1
      BY <1>t, <2>2 DEF ParkBegin, Runs
    <3>2. Enters(a) \in {"enter", "refused"}
      BY DEF Enters
    <3>3. /\ live' = live + One(Lives(Enters(a))) - One(Lives(at[a]))
          /\ parking' = parking + One(InWait(Enters(a))) - One(InWait(at[a]))
      BY <1>t, <3>1, <3>2 DEF One, Lives, InWait, InPark
    <3>. QED
      BY <1>w, <3>1, <3>3
  <2>3. CASE ParkOver(a)
    <3>1. at[a] \in {"enter", "refused"} /\ at' = [at EXCEPT ![a] = GoesOn(a)]
          /\ live' = live + 0 /\ parking' = parking + (-1)
      BY <1>t, <2>3 DEF ParkOver
    <3>2. /\ live' = live + One(Lives(GoesOn(a))) - One(Lives(at[a]))
          /\ parking' = parking + One(InWait(GoesOn(a))) - One(InWait(at[a]))
      BY <1>t, <2>g, <3>1 DEF One, Lives, InWait, InPark
    <3>. QED
      BY <1>w, <3>1, <3>2
  <2>4. ASSUME NEW k \in {"peer", "timed"} \cup Ops, ParkCommit(a, k) PROVE Counted
    <3>1. at[a] = "enter" /\ at' = [at EXCEPT ![a] = "wait"] /\ live' = live /\ parking' = parking
      BY <2>4 DEF ParkCommit, groupVars
    <3>. QED
      BY <1>s, <3>1 DEF Lives, InWait, InPark
  <2>5. ASSUME NEW b \in Actors, EndWaitOf(a, b) PROVE Counted
    <3>1. at[b] = "wait" /\ at' = [at EXCEPT ![b] = "fired"] /\ live' = live /\ parking' = parking
      BY <2>5 DEF EndWaitOf, Ended, groupVars
    <3>. QED
      BY <1>s, <3>1 DEF Lives, InWait, InPark
  <2>6. CASE Wake(a)
    <3>1. at[a] = "fired" /\ at' = [at EXCEPT ![a] = "woken"] /\ live' = live /\ parking' = parking
      BY <2>6 DEF Wake, groupVars
    <3>. QED
      BY <1>s, <3>1 DEF Lives, InWait, InPark
  <2>7. CASE Ready(a)
    <3>1. at[a] = "woken" /\ at' = [at EXCEPT ![a] = GoesOn(a)]
          /\ live' = live + 0 /\ parking' = parking + (-1)
      BY <1>t, <2>7 DEF Ready
    <3>2. /\ live' = live + One(Lives(GoesOn(a))) - One(Lives(at[a]))
          /\ parking' = parking + One(InWait(GoesOn(a))) - One(InWait(at[a]))
      BY <1>t, <2>g, <3>1 DEF One, Lives, InWait, InPark
    <3>. QED
      BY <1>w, <3>1, <3>2
  <2>8. CASE End(a)
    <3>1. at[a] \in {"run", "ending"} /\ at' = [at EXCEPT ![a] = "gone"]
          /\ live' = live + (-1) /\ parking' = parking + 0
      BY <1>t, <2>8 DEF End, Runs, Ending
    <3>2. /\ live' = live + One(Lives("gone")) - One(Lives(at[a]))
          /\ parking' = parking + One(InWait("gone")) - One(InWait(at[a]))
      BY <1>t, <3>1 DEF One, Lives, InWait, InPark
    <3>. QED
      BY <1>w, <3>1, <3>2
  <2>9. CASE TimerFires(a)
    <3>1. at[a] = "wait" /\ at' = [at EXCEPT ![a] = "fired"] /\ live' = live /\ parking' = parking
      BY <2>9 DEF TimerFires, Ended, groupVars
    <3>. QED
      BY <1>s, <3>1 DEF Lives, InWait, InPark
  <2>10. CASE StopCancel(a)
    <3>1. live' = live /\ parking' = parking
          /\ at' = IF at[a] = "wait" THEN [at EXCEPT ![a] = "fired"] ELSE at
      BY <2>10 DEF StopCancel, Ended, groupVars
    <3>. QED
      BY <1>s, <1>u, <3>1 DEF Lives, InWait, InPark
  <2>. QED
    BY <1>1, <2>1, <2>2, <2>3, <2>4, <2>5, <2>6, <2>7, <2>8, <2>9, <2>10 DEF ActorSteps
<1>2. ASSUME NEW o \in Ops, CompleteOp(o) PROVE Counted
  <2>1. live' = live /\ parking' = parking
        /\ \/ at' = at
           \/ \E a \in Actors : at[a] = "wait" /\ at' = [at EXCEPT ![a] = "fired"]
    BY <1>2 DEF CompleteOp, Ended, groupVars
  <2>. QED
    BY <1>s, <1>u, <2>1 DEF Lives, InWait, InPark
<1>3. ASSUME NEW o \in Ops, StreamEnters(o) PROVE Counted
  <2>1. op[o] = "starting" /\ at' = [at EXCEPT ![o] = "run"]
        /\ live' = live + 1 /\ parking' = parking + 0
    BY <1>3, <1>t DEF StreamEnters
  <2>2. o \in Streams /\ at[o] = "none"
    BY <2>1 DEF HeldInv, ThreadInv
  <2>3. /\ live' = live + One(Lives("run")) - One(Lives(at[o]))
        /\ parking' = parking + One(InWait("run")) - One(InWait(at[o]))
    BY <1>t, <2>1, <2>2 DEF One, Lives, InWait, InPark
  <2>. QED
    BY <1>0, <1>w, <2>1, <2>2, <2>3
<1>4. CASE MainTakes
  <2>1. at[Main] = "resumed" /\ live' = live /\ parking' = parking
        /\ at' = [at EXCEPT ![Main] = IF result = "Fired" THEN "run" ELSE "failed"]
    BY <1>4 DEF MainTakes, groupVars
  <2>. QED
    BY <1>0, <1>s, <2>1 DEF Lives, InWait, InPark
<1>5. CASE MainReturns
  <2>0. at[Main] \in {"run", "failed"} /\ at' = [at EXCEPT ![Main] = "gone"]
        /\ live' = live - 1 /\ parking' = parking
    BY <1>5 DEF MainReturns, Runs
  <2>1. live' = live + (-1) /\ parking' = parking + 0
    BY <1>t, <2>0
  <2>2. /\ live' = live + One(Lives("gone")) - One(Lives(at[Main]))
        /\ parking' = parking + One(InWait("gone")) - One(InWait(at[Main]))
    BY <1>t, <2>0, <2>1 DEF One, Lives, InWait, InPark
  <2>. QED
    BY <1>0, <1>w, <2>0, <2>2
<1>6. ASSUME NEW c \in Checkers, CheckCancel(c) PROVE Counted
  <2>1. live' = live /\ parking' = parking
        /\ at' = IF at[Main] = "wait" /\ blocks = check[c].id THEN [at EXCEPT ![Main] = "fired"]
                 ELSE at
    BY <1>6 DEF CheckCancel, Ended, groupVars
  <2>. QED
    BY <1>0, <1>s, <1>u, <2>1 DEF Lives, InWait, InPark
<1>7. CASE UNCHANGED <<waitVars, live, parking>>
  BY <1>7, <1>u DEF waitVars
<1>. QED
  BY <1>1, <1>2, <1>3, <1>4, <1>5, <1>6, <1>7, <1>c DEF Changes, WaitSteps

\* The same of an operation's External.
ExternalMoved(o) ==
    /\ \A p \in Ops : p # o => held'[p] = held[p]
    /\ external' = external + One(held'[o]) - One(held[o])
ExternalCounted == (external' = external /\ held' = held) \/ \E o \in Ops : ExternalMoved(o)

\* `external` follows every External that is made or dropped.
LEMMA ExternalFacts ==
    ASSUME TypeOK, HeldInv, [Next]_vars
    PROVE  ExternalCounted
<1>c. Changes
  BY StepChanges
<1>t. held \in [Ops -> BOOLEAN] /\ external \in Int
  BY DEF TypeOK, OpTypes, CountTypes
<1>a. ASSUME NEW o \in Ops, held' = [held EXCEPT ![o] = TRUE], ~held[o], external' = external + 1
      PROVE  ExternalCounted
  <2>1. held'[o] /\ \A p \in Ops : p # o => held'[p] = held[p]
    BY <1>a, <1>t
  <2>2. One(held'[o]) = 1 /\ One(held[o]) = 0
    BY <1>a, <2>1 DEF One
  <2>3. external' = external + One(held'[o]) - One(held[o])
    <3>1. external' = external + 1 - 0
      BY <1>a, <1>t
    <3>. QED
      BY <2>2, <3>1, Zenon
  <2>. QED
    BY <2>1, <2>3 DEF ExternalMoved, ExternalCounted
<1>d. ASSUME NEW o \in Ops, held' = [held EXCEPT ![o] = FALSE], held[o], external' = external - 1
      PROVE  ExternalCounted
  <2>1. ~held'[o] /\ \A p \in Ops : p # o => held'[p] = held[p]
    BY <1>d, <1>t
  <2>2. One(held'[o]) = 0 /\ One(held[o]) = 1
    BY <1>d, <2>1 DEF One
  <2>3. external' = external + One(held'[o]) - One(held[o])
    <3>1. external' = external + 0 - 1
      BY <1>d, <1>t
    <3>. QED
      BY <2>2, <3>1, Zenon
  <2>. QED
    BY <2>1, <2>3 DEF ExternalMoved, ExternalCounted
<1>1. ASSUME NEW a \in Actors, NEW o \in Ops, StartOp(a, o) PROVE ExternalCounted
  <2>1. held' = [held EXCEPT ![o] = TRUE] /\ op[o] = "none" /\ external' = external + 1
    BY <1>1 DEF StartOp
  <2>. QED
    BY <1>a, <2>1 DEF HeldInv
<1>2. ASSUME NEW a \in Actors, NEW o \in Ops, LeaveOp(a, o) PROVE ExternalCounted
  <2>1. held' = [held EXCEPT ![o] = FALSE] /\ held[o] /\ external' = external - 1
    BY <1>2 DEF LeaveOp
  <2>. QED
    BY <1>d, <2>1
<1>3. ASSUME NEW o \in Ops, CompleteOp(o) \/ StreamEnters(o) PROVE ExternalCounted
  BY <1>3 DEF CompleteOp, StreamEnters, groupVars, ExternalCounted
<1>4. ASSUME NEW o \in Ops, ReleaseOp(o) PROVE ExternalCounted
  <2>1. CASE held[o]
    <3>1. held' = [held EXCEPT ![o] = FALSE] /\ external' = external - 1
      BY <1>4, <2>1 DEF ReleaseOp
    <3>. QED
      BY <1>d, <2>1, <3>1
  <2>2. CASE ~held[o]
    BY <1>4, <2>2 DEF ReleaseOp, ExternalCounted
  <2>. QED
    BY <2>1, <2>2
<1>5. ASSUME NEW o \in Ops, StreamReleases(o) PROVE ExternalCounted
  <2>1. held' = [held EXCEPT ![o] = FALSE] /\ op[o] = "started" /\ external' = external - 1
    BY <1>5 DEF StreamReleases
  <2>2. held[o]
    BY <2>1 DEF HeldInv
  <2>. QED
    BY <1>d, <2>1, <2>2
<1>6. CASE UNCHANGED <<opVars, external>>
  BY <1>6 DEF opVars, ExternalCounted
<1>. QED
  BY <1>1, <1>2, <1>3, <1>4, <1>5, <1>6, <1>c DEF Changes, OpSteps, Operation

\* The counters count.
LEMMA CountsStep ==
    ASSUME TypeOK, HeldInv, ThreadInv, CountsInv, [Next]_vars
    PROVE  CountsInv'
<1>f. IsFiniteSet(Alive) /\ IsFiniteSet(Parked) /\ IsFiniteSet(Held)
  BY FiniteAlive
<1>1. PICK x \in Actors : CountMoved(x)
  BY CountFacts DEF Counted
<1>2. /\ \A u : u # x => (u \in Alive <=> u \in Alive')
      /\ \A u : u # x => (u \in Parked <=> u \in Parked')
  BY <1>1 DEF CountMoved, Alive, Parked
<1>3. /\ (x \in Alive <=> Lives(at[x])) /\ (x \in Alive' <=> Lives(at'[x]))
      /\ (x \in Parked <=> InWait(at[x])) /\ (x \in Parked' <=> InWait(at'[x]))
  BY DEF Alive, Parked, Lives, InWait
<1>4. /\ One(x \in Alive) = One(Lives(at[x])) /\ One(x \in Alive') = One(Lives(at'[x]))
      /\ One(x \in Parked) = One(InWait(at[x])) /\ One(x \in Parked') = One(InWait(at'[x]))
  BY <1>3 DEF One
<1>5. Cardinality(Alive') = Cardinality(Alive) + One(x \in Alive') - One(x \in Alive)
  BY <1>2, <1>f, SizeChange
<1>6. Cardinality(Parked') = Cardinality(Parked) + One(x \in Parked') - One(x \in Parked)
  BY <1>2, <1>f, SizeChange
<1>7. live' = Cardinality(Alive') /\ parking' = Cardinality(Parked')
  BY <1>1, <1>4, <1>5, <1>6 DEF CountMoved, CountsInv
<1>8. external' = Cardinality(Held')
  <2>1. CASE external' = external /\ held' = held
    BY <2>1 DEF CountsInv, Held
  <2>2. ASSUME NEW o \in Ops, ExternalMoved(o)
        PROVE  external' = Cardinality(Held')
    <3>1. \A u : u # o => (u \in Held <=> u \in Held')
      BY <2>2 DEF Held, ExternalMoved
    <3>2. Cardinality(Held') = Cardinality(Held) + One(o \in Held') - One(o \in Held)
      BY <1>f, <3>1, SizeChange
    <3>3. One(o \in Held') = One(held'[o]) /\ One(o \in Held) = One(held[o])
      BY DEF One, Held
    <3>. QED
      BY <2>2, <3>2, <3>3 DEF CountsInv, ExternalMoved
  <2>. QED
    BY <2>1, <2>2, ExternalFacts DEF ExternalCounted
<1>. QED
  BY <1>7, <1>8 DEF CountsInv

-----------------------------------------------------------------------------
(* The last of the events that stop the tasks sees the stop.               *)

\* Nothing but a check has happened.
Quiet ==
    /\ at' = at /\ on' = on /\ held' = held
    /\ main' = main /\ blocks' = blocks /\ live' = live
    /\ told => told'

\* A step after which the tasks have come to a stop begins a check, or they
\* had come to it before.
LEMMA StuckBefore ==
    ASSUME TypeOK, HeldInv, ThreadInv, MainInv, [Next]_vars, Stuck({})', Unheard'
    PROVE  Quiet \/ \E who \in Actors \cup Ops \cup {Nobody} : BeginCheck(who)
<1> DEFINE B == \E who \in Actors \cup Ops \cup {Nobody} : BeginCheck(who)
<1>0. Main \in Actors /\ Tasks \subseteq Actors /\ Streams \subseteq Actors
  BY DEF Actors
<1>t. at \in [Actors -> Places] /\ held \in [Ops -> BOOLEAN] /\ told \in BOOLEAN
  BY DEF TypeOK, WaitTypes, OpTypes, MainTypes
<1>s. /\ \A a \in Actors : at'[a] \in {"none", "gone", "wait"}
      /\ \A o \in Ops : ~held'[o]
  BY DEF Stuck, Rests
<1>1. ASSUME NEW a \in Actors, Acts(a) PROVE Quiet \/ B
  <2>1. ASSUME NEW t \in Tasks, Spawn(a, t) PROVE FALSE
    <3>1. at'[t] \in {"run"}
      BY <1>0, <1>t, <2>1 DEF Spawn
    <3>. QED
      BY <1>0, <1>s, <3>1
  <2>2. CASE ParkBegin(a)
    <3>1. at'[a] \in {"enter", "refused"}
      BY <1>0, <1>t, <2>2 DEF ParkBegin, Enters
    <3>. QED
      BY <1>0, <1>s, <3>1
  <2>3. ASSUME NEW b \in Actors, EndWaitOf(a, b) PROVE FALSE
    <3>1. at'[b] \in {"fired"}
      BY <1>0, <1>t, <2>3 DEF EndWaitOf, Ended
    <3>. QED
      BY <1>0, <1>s, <3>1
  <2>4. CASE End(a)
    BY <2>4 DEF End
  <2>5. ASSUME NEW o \in Ops, StartOp(a, o) PROVE FALSE
    BY <1>s, <1>t, <2>5 DEF StartOp
  <2>6. ASSUME NEW o \in Ops, LeaveOp(a, o) PROVE B
    BY <2>6 DEF LeaveOp
  <2>. QED
    BY <1>1, <2>1, <2>2, <2>3, <2>4, <2>5, <2>6 DEF Acts
<1>2. ASSUME NEW a \in Actors, Parks(a) PROVE Quiet \/ B
  <2>1. CASE ParkOver(a)
    <3>1. at'[a] \in {"run", "ending", "resumed"}
      BY <1>0, <1>t, <2>1, GoesOnFacts DEF ParkOver
    <3>. QED
      BY <1>0, <1>s, <3>1
  <2>2. ASSUME NEW k \in {"peer", "timed"} \cup Ops, ParkCommit(a, k) PROVE B
    BY <1>0, <2>2 DEF ParkCommit
  <2>. QED
    BY <1>2, <2>1, <2>2 DEF Parks
<1>3. ASSUME NEW a \in Actors, Wakes(a) \/ TimerFires(a) PROVE FALSE
  <2>1. CASE Wake(a)
    <3>1. at'[a] \in {"woken"}
      BY <1>0, <1>t, <2>1 DEF Wake
    <3>. QED
      BY <1>0, <1>s, <3>1
  <2>2. CASE Ready(a)
    <3>1. at'[a] \in {"run", "ending", "resumed"}
      BY <1>0, <1>t, <2>2, GoesOnFacts DEF Ready
    <3>. QED
      BY <1>0, <1>s, <3>1
  <2>3. CASE TimerFires(a)
    <3>1. at'[a] \in {"fired"}
      BY <1>0, <1>t, <2>3 DEF TimerFires, Ended
    <3>. QED
      BY <1>0, <1>s, <3>1
  <2>. QED
    BY <1>3, <2>1, <2>2, <2>3 DEF Wakes
<1>4. ASSUME NEW o \in Ops, Operation(o) PROVE Quiet \/ B
  <2>1. CASE CompleteOp(o)
    <3>1. op[o] = "flying" /\ held' = held
      BY <2>1 DEF CompleteOp
    <3>. QED
      BY <1>s, <3>1 DEF HeldInv
  <2>2. CASE ReleaseOp(o)
    BY <2>2 DEF ReleaseOp, Quiet, waitVars, mainVars
  <2>3. CASE StreamEnters(o)
    <3>1. o \in Streams /\ at' = [at EXCEPT ![o] = "run"]
      BY <2>3 DEF StreamEnters, HeldInv
    <3>2. at'[o] = "run"
      BY <1>0, <1>t, <3>1
    <3>. QED
      BY <1>0, <1>s, <3>1, <3>2
  <2>4. CASE StreamReleases(o)
    BY <2>4 DEF StreamReleases
  <2>. QED
    BY <1>4, <2>1, <2>2, <2>3, <2>4 DEF Operation
<1>5. CASE TimerChecks
  BY <1>5 DEF TimerChecks
<1>6. CASE MainReturns
  BY <1>0, <1>6 DEF MainReturns
<1>7. CASE MainGoesOn
  <2>u. at'[Main] = "wait" \/ main'.waits = "Settling"
    BY DEF Unheard
  <2>n. NoMain.waits = "None"
    BY DEF NoMain
  <2>1. CASE MainTakes
    <3>1. at'[Main] \in {"run", "failed"}
      BY <1>0, <1>t, <2>1 DEF MainTakes
    <3>. QED
      BY <1>0, <1>s, <3>1
  <2>2. CASE Settle \/ StopWait
    BY <1>0, <2>2 DEF Settle, StopWait, WaitsFor
  <2>3. CASE Settled \/ Stopped
    <3>1. at' = at /\ main' = NoMain /\ phase \in {"settling", "stopping"}
      BY <2>3 DEF Settled, Stopped, waitVars
    <3>. QED
      BY <2>n, <2>u, <3>1 DEF MainInv
  <2>4. CASE StopFlag \/ StopInspect
    <3>1. at' = at /\ main' = main /\ phase \in {"stop", "drop"}
      BY <2>4 DEF StopFlag, StopInspect, waitVars
    <3>. QED
      BY <2>u, <3>1 DEF MainInv
  <2>5. ASSUME NEW a \in Actors, StopCancel(a) PROVE FALSE
    <3>1. main' = main /\ phase = "cancel" /\ (at' = at \/ at' = [at EXCEPT ![a] = "fired"])
      BY <2>5 DEF StopCancel, Ended
    <3>2. at' = at
      BY <1>s, <1>t, <3>1
    <3>. QED
      BY <2>u, <3>1, <3>2 DEF MainInv
  <2>. QED
    BY <1>7, <2>1, <2>2, <2>3, <2>4, <2>5 DEF MainGoesOn
<1>8. ASSUME NEW c \in Checkers, Check(c) PROVE Quiet
  <2>1. CASE CheckCancel(c)
    <3>1. /\ at' = at \/ at' = [at EXCEPT ![Main] = "fired"]
          /\ on' = on /\ held' = held /\ main' = main /\ blocks' = blocks /\ live' = live
          /\ told' = told
      BY <2>1 DEF CheckCancel, Ended, opVars, groupVars, mainVars
    <3>2. at' = at
      BY <1>0, <1>s, <1>t, <3>1
    <3>. QED
      BY <3>1, <3>2 DEF Quiet
  <2>2. CASE CheckTell(c)
    BY <2>2 DEF CheckTell, Quiet, waitVars, opVars, groupVars
  <2>3. CASE CheckStore(c)
    BY <2>3 DEF CheckStore, Quiet, waitVars, opVars, groupVars
  <2>4. CASE UNCHANGED <<waitVars, opVars, groupVars, mainVars>>
    BY <2>4 DEF Quiet, waitVars, opVars, groupVars, mainVars
  <2>5. CASE CheckParking(c) \/ CheckLive(c) \/ CheckMain(c)
    BY <2>4, <2>5 DEF CheckParking, CheckLive, CheckMain
  <2>6. CASE CheckExternal(c) \/ CheckInspect(c)
    BY <2>4, <2>6 DEF CheckExternal, CheckInspect
  <2>7. CASE CheckStopped(c) \/ CheckReturns(c)
    BY <2>4, <2>7 DEF CheckStopped, CheckReturns
  <2>. QED
    BY <1>8, <2>1, <2>2, <2>3, <2>5, <2>6, <2>7 DEF Check
<1>9. CASE UNCHANGED vars
  BY <1>9 DEF vars, waitVars, opVars, groupVars, mainVars, Quiet
<1>. QED
  BY <1>1, <1>2, <1>3, <1>4, <1>5, <1>6, <1>7, <1>8, <1>9 DEF Next

\* When the tasks have come to a stop, all that are alive wait.
LEMMA StuckCounts ==
    ASSUME TypeOK, CountsInv, Stuck({})
    PROVE  /\ parking = live /\ external = 0
           /\ Cardinality(Committed) = live /\ \A a \in Committed : on[a] # "timed"
<1>1. \A a \in Actors : at[a] \in {"none", "gone"} \/ (at[a] = "wait" /\ on[a] = "peer")
  BY DEF Stuck, Rests
<1>2. Alive = Parked /\ Alive = Committed
  BY <1>1 DEF Alive, Parked, Committed, InPark
<1>3. Held = {}
  BY DEF Stuck, Held
<1>4. Cardinality(Held) = 0
  BY <1>3, FS_EmptySet
<1>5. \A a \in Committed : on[a] # "timed"
  BY <1>1 DEF Committed
<1>. QED
  BY <1>2, <1>4, <1>5 DEF CountsInv

\* A check that will see the stop goes on to see it.
LEMMA SeesStep ==
    ASSUME TypeOK, Basics, [Next]_vars, Stuck({}), Unheard, Unheard', Quiet,
           NEW c \in Checkers, Sees(c)
    PROVE  Sees(c)'
<1>b. MainInv /\ KnownInv /\ CountsInv
  BY DEF Basics
<1>t. live \in Int /\ parking \in Int /\ external \in Int /\ check[c].seen \in Int
  BY DEF TypeOK, CountTypes, CheckTypes, CheckType
<1>1. check'[c] = check[c] \/ CheckMoved(c)
  BY <1>b, CheckFacts
<1>2. /\ parking = live /\ external = 0
      /\ Cardinality(Committed) = live /\ \A a \in Committed : on[a] # "timed"
  BY <1>b, StuckCounts
<1>3. /\ at' = at /\ main' = main /\ blocks' = blocks /\ live' = live
  BY DEF Quiet
<1>4. /\ main # NoMain
      /\ main.waits = "Blocked" => at[Main] = "wait" /\ main.id = blocks
      /\ at[Main] = "wait" => main.waits = "Blocked"
      /\ main.waits \in {"Blocked", "Settling"}
      /\ main.waits = "Settling" => ~told'
  <2>1. NoMain.waits = "None"
    BY DEF NoMain
  <2>2. at[Main] = "wait" \/ (main.waits = "Settling" /\ ~told /\ ~told')
    BY <1>3, <1>b DEF Unheard, MainInv
  <2>3. at[Main] = "wait" => main.waits = "Blocked" /\ main.id = blocks
    BY <1>b DEF MainInv
  <2>. QED
    BY <1>3, <2>1, <2>2, <2>3, <1>b DEF MainInv, Unheard
<1>5. CASE check'[c] = check[c]
  BY <1>3, <1>5 DEF Sees
<1>6. CASE check'[c] = Idle /\ CheckMoved(c)
  <2>1. Idle.pc = "idle"
    BY DEF Idle
  <2>2. check[c].pc # "live"
    <3>1. check[c].pc = "live" => check[c].seen >= live
      BY DEF Sees
    <3>2. check[c].pc = "live" => check[c].seen < live
      BY <1>6, <2>1 DEF CheckMoved
    <3>. QED
      BY <1>t, <3>1, <3>2
  <2>3. check[c].pc \notin {"main", "parking", "external", "inspect"}
    <3>1. ~(external > 0)
      BY <1>2
    <3>. QED
      BY <1>2, <1>4, <1>6, <2>1, <3>1 DEF CheckMoved
  <2>4. check[c].pc # "external2"
    <3>1. ~(external > 0)
      BY <1>2
    <3>2. Main \in Actors
      BY DEF Actors
    <3>3. main.waits = "Blocked" => Main \in Committed /\ blocks = main.id
      BY <1>4, <3>2 DEF Committed
    <3>4. check[c].pc = "external2" => check[c].waits = main.waits /\ check[c].id = main.id
      BY DEF Sees
    <3>. QED
      BY <1>4, <1>6, <2>1, <3>1, <3>3, <3>4 DEF CheckMoved
  <2>5. check[c].pc # "tell"
    <3>1. check[c].pc = "tell" => check[c].waits = main.waits /\ check[c].waits \in {"Settling", "Stopping"}
      BY <1>b DEF Sees, KnownInv
    <3>. QED
      BY <1>4, <1>6, <2>1, <3>1 DEF CheckMoved
  <2>6. check[c].pc \notin {"store", "cancel"}
    BY <1>6, <2>1 DEF CheckMoved
  <2>. QED
    BY <2>2, <2>3, <2>4, <2>5, <2>6 DEF Sees
<1>7. CASE check[c].pc = "parking" /\ check'[c].pc = "live" /\ check'[c].seen = parking
  <2>1. check'[c].seen = live' /\ live' \in Int
    BY <1>2, <1>3, <1>7, <1>t
  <2>2. check'[c].seen >= live'
    <3>1. live' >= live'
      BY <2>1
    <3>. QED
      BY <2>1, <3>1, Zenon
  <2>. QED
    BY <1>7, <2>2 DEF Sees
<1>8. CASE check'[c].pc \in {"parking", "main"}
  BY <1>8 DEF Sees
<1>9. CASE /\ check[c].pc = "main"
           /\ check'[c].pc = IF main.waits = "Stopping" THEN "tell" ELSE "external"
           /\ check'[c].waits = main.waits /\ check'[c].id = main.id
  BY <1>3, <1>9 DEF Sees
<1>10. CASE /\ check'[c].waits = check[c].waits /\ check'[c].id = check[c].id
            /\ check[c].pc \in {"external", "inspect", "external2", "store", "cancel"}
            /\ check'[c].pc # "idle" /\ CheckMoved(c)
  <2>1. Idle.pc = "idle"
    BY DEF Idle
  <2>2. CASE check[c].pc \in {"external", "inspect"}
    <3>1. check'[c].pc \in {"inspect", "external2"}
      BY <1>10, <2>1, <2>2 DEF CheckMoved
    <3>. QED
      BY <1>3, <1>10, <2>2, <3>1 DEF Sees
  <2>3. CASE check[c].pc = "external2"
    <3>1. /\ check'[c].pc \in {"tell", "store"}
          /\ check'[c].pc = "store" => check[c].waits = "Blocked" /\ blocks = check[c].id
      BY <1>10, <2>1, <2>3 DEF CheckMoved
    <3>2. check[c].waits = main.waits
      BY <2>3 DEF Sees
    <3>. QED
      BY <1>3, <1>4, <1>10, <3>1, <3>2 DEF Sees
  <2>4. CASE check[c].pc = "store"
    <3>1. check'[c].pc = "cancel"
      BY <1>10, <2>1, <2>4 DEF CheckMoved
    <3>. QED
      BY <1>3, <1>10, <2>4, <3>1 DEF Sees
  <2>5. CASE check[c].pc = "cancel"
    <3>1. at[Main] = "wait" /\ blocks = check[c].id
      BY <2>5 DEF Sees
    <3>2. at'[Main] = "fired"
      BY <1>10, <2>1, <2>5, <3>1 DEF CheckMoved
    <3>. QED
      BY <1>3, <3>1, <3>2
  <2>. QED
    BY <1>10, <2>2, <2>3, <2>4, <2>5
<1>11. Idle.pc = "idle" /\ check[c].pc # "idle"
  BY DEF Idle, Sees
<1>. QED
  BY <1>1, <1>5, <1>6, <1>7, <1>8, <1>9, <1>10, <1>11 DEF CheckMoved

\* The stop is not missed.
LEMMA SeenStep ==
    ASSUME TypeOK, Basics, SeenInv, [Next]_vars
    PROVE  SeenInv'
<1>b. HeldInv /\ ThreadInv /\ MainInv
  BY DEF Basics
<1> SUFFICES ASSUME Stuck({})', Unheard' PROVE \E c \in Checkers : Sees(c)'
  BY DEF SeenInv
<1>1. CASE \E who \in Actors \cup Ops \cup {Nobody} : BeginCheck(who)
  <2>1. CheckTypes
    BY DEF TypeOK
  <2>2. \E c \in Checkers : check'[c].pc = "parking"
    BY <1>1, <2>1, BeginFacts
  <2>. QED
    BY <2>2 DEF Sees
<1>2. CASE Quiet
  <2>1. Stuck({})
    BY <1>2 DEF Quiet, Stuck, Rests
  <2>2. told \in BOOLEAN /\ told' \in BOOLEAN
    BY TypeStep DEF TypeOK, MainTypes, Basics
  <2>3. Unheard
    BY <1>2, <2>2 DEF Quiet, Unheard
  <2>4. PICK c \in Checkers : Sees(c)
    BY <2>1, <2>3 DEF SeenInv
  <2>5. Sees(c)'
    BY <1>2, <2>1, <2>3, <2>4, SeesStep
  <2>. QED
    BY <2>5
<1>. QED
  BY <1>1, <1>2, <1>b, StuckBefore

-----------------------------------------------------------------------------
(* The theorems.                                                           *)

\* It holds at the start.
LEMMA InvInit == Init => TypeOK /\ Inv
<1> SUFFICES ASSUME Init PROVE TypeOK /\ Inv
  OBVIOUS
<1>0. Main \in Actors /\ Main \notin Streams
  BY Sets DEF Sets, Actors
<1>1. WaitTypes
  BY DEF Init, WaitTypes, Places, Causes
<1>2. OpTypes
  BY DEF Init, OpTypes, OpPlaces
<1>3. CountTypes
  BY DEF Init, CountTypes
<1>4. MainTypes
  <2>1. /\ main = NoMain /\ blocks = 0 /\ phase = "code" /\ told = FALSE /\ todo = {}
    BY DEF Init
  <2>2. NoMain \in [waits : Waits, id : Int]
    BY DEF NoMain, Waits
  <2>3. main \in [waits : Waits, id : Int]
    BY <2>1, <2>2
  <2>4. blocks \in Int /\ phase \in Phases
    BY <2>1 DEF Phases
  <2>5. told \in BOOLEAN /\ todo \subseteq Actors
    BY <2>1
  <2>. QED
    BY <2>3, <2>4, <2>5 DEF MainTypes
<1>5. CheckTypes
  <2>1. Idle \in CheckType
    BY DEF Idle, CheckType, Pcs, Waits
  <2>. QED
    BY <2>1 DEF Init, CheckTypes
<1>6. \A c \in Checkers : check[c].pc = "idle" /\ check[c].waits = "None"
  BY DEF Init, Idle
<1>7. \A a \in Actors : at[a] = IF a = Main THEN "run" ELSE "none"
  BY DEF Init
<1>8. main.waits = "None" /\ main = NoMain /\ phase = "code" /\ ~told
  BY DEF Init, NoMain
<1>9. HeldInv /\ ThreadInv /\ WaitInv
  <2>1. \A o \in Ops : op[o] = "none" /\ ~held[o]
    BY DEF Init
  <2>2. \A s \in Streams : at[s] = "none"
    BY <1>0, <1>7 DEF Actors
  <2>. QED
    BY <1>7, <2>1, <2>2 DEF HeldInv, ThreadInv, WaitInv
<1>10. MainInv
  BY <1>0, <1>7, <1>8 DEF MainInv
<1>11. KnownInv /\ CauseInv
  BY <1>6, <1>7 DEF KnownInv, CauseInv
<1>12. CountsInv
  <2>1. Alive = {Main} /\ Parked = {} /\ Held = {}
    BY <1>0, <1>7 DEF Init, Alive, Parked, Held, InPark
  <2>2. Cardinality(Alive) = 1 /\ Cardinality(Parked) = 0 /\ Cardinality(Held) = 0
    BY <2>1, FS_Singleton, FS_EmptySet
  <2>. QED
    BY <2>2 DEF Init, CountsInv
<1>13. HoldInv /\ TellInv /\ CancelInv
  BY <1>6, <1>8 DEF HoldInv, Inspecting, TellInv, CancelInv
<1>14. RaiseInv /\ StopInv /\ SeenInv
  BY <1>0, <1>7, <1>8 DEF RaiseInv, Raises, StopInv, SeenInv, Unheard
<1>. QED
  BY <1>1, <1>2, <1>3, <1>4, <1>5, <1>9, <1>10, <1>11, <1>12, <1>13, <1>14
     DEF TypeOK, Inv, Basics

\* Every step keeps it.
LEMMA InvStep == TypeOK /\ Inv /\ [Next]_vars => TypeOK' /\ Inv'
<1> SUFFICES ASSUME TypeOK, Inv, [Next]_vars PROVE TypeOK' /\ Inv'
  OBVIOUS
<1>0. /\ Basics /\ HoldInv /\ TellInv /\ CancelInv /\ RaiseInv /\ StopInv /\ SeenInv
      /\ HeldInv /\ ThreadInv /\ WaitInv /\ MainInv /\ KnownInv /\ CauseInv /\ CountsInv
  BY DEF Inv, Basics
<1>1. TypeOK'
  BY <1>0, TypeStep
<1>2. Basics'
  <2>1. HeldInv' /\ ThreadInv' /\ WaitInv' /\ MainInv' /\ KnownInv'
    BY <1>0, HeldStep, ThreadStep, WaitStep, MainStep, KnownStep
  <2>2. CauseInv' /\ CountsInv'
    BY <1>0, CauseStep, CountsStep
  <2>. QED
    BY <2>1, <2>2 DEF Basics
<1>3. HoldInv' /\ TellInv' /\ CancelInv'
  BY <1>0, HoldStep, TellStep, CancelStep
<1>4. RaiseInv' /\ StopInv' /\ SeenInv'
  BY <1>0, RaiseStep, StopStep, SeenStep
<1>. QED
  BY <1>1, <1>2, <1>3, <1>4 DEF Inv

\* The inductive invariant: the counters of a Group count, whoever has ended
\* a wait is still there, and what a check has seen stays so until it is
\* told, for any number of tasks, operations, checks and waits.
THEOREM GroupInvariant == Spec => [](TypeOK /\ Inv)
<1>1. Init => TypeOK /\ Inv
  BY InvInit
<1>2. TypeOK /\ Inv /\ [Next]_vars => (TypeOK /\ Inv)'
  BY InvStep
<1>. QED
  BY <1>1, <1>2, PTL DEF Spec

\* A wait of the program fails as a deadlock only if every task has ended or
\* waits on the others, and no I/O or deadline is there to end a wait.
THEOREM VerdictIsTrueAlways == Spec => []VerdictIsTrue
<1>1. Inv => VerdictIsTrue
  BY DEF Inv, RaiseInv, VerdictIsTrue
<1>. QED
  BY <1>1, GroupInvariant, PTL

\* Scheduler::settle returns only when none of the tasks can go on.
THEOREM SettledIsTrueAlways == Spec => []SettledIsTrue
<1>1. Inv => SettledIsTrue
  BY DEF Inv, Basics, MainInv, TellInv, SettledIsTrue
<1>. QED
  BY <1>1, GroupInvariant, PTL

\* Scheduler::stop_tasks returns only when all have ended.
THEOREM StopMeansEndedAlways == Spec => []StopMeansEnded
<1>1. Inv => StopMeansEnded
  BY DEF Inv, StopInv, StopMeansEnded
<1>. QED
  BY <1>1, GroupInvariant, PTL

\* While the program has not been told of a stop, some thread is still in the
\* check that will tell it.
THEOREM StuckIsSeenAlways == Spec => []StuckIsSeen
<1>1. Inv => StuckIsSeen
  <2> SUFFICES ASSUME Inv, Stuck({}), Unheard PROVE \E c \in Checkers : check[c].pc # "idle"
    BY DEF StuckIsSeen, Unheard
  <2>1. PICK c \in Checkers : Sees(c)
    BY DEF Inv, SeenInv
  <2>. QED
    BY <2>1 DEF Sees
<1>. QED
  BY <1>1, GroupInvariant, PTL
=============================================================================
