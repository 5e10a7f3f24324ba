------------------------------ MODULE Channels ------------------------------
(***************************************************************************)
(* Channels, cells and the waits on them (runtime/sync): channel.rs, whose *)
(* State is a buffer and three queues of parked waiters, cell.rs, and park *)
(* and Parked of wait.rs.  Whoever makes an operation possible completes   *)
(* it, under the channel's lock, for the task that waits for it; all the   *)
(* channels of a wait are locked together, so what park does with them is  *)
(* one step.  A cell has a lock of its own.                                *)
(*                                                                         *)
(* An operation that does not wait (try_send, try_receive) is a wait whose *)
(* deadline has passed: both look at the arms and put nothing on a queue.  *)
(* try_receive looks at the cancel flag before it takes the lock.  A flag  *)
(* that is set in between changes nothing for a task that is on no queue,  *)
(* so the look and the take are one step here.                             *)
(* How the token of a wait is claimed, parked and woken is module Parking: *)
(* here a token is open, or has its outcome.  A task whose time is over    *)
(* begins a wait as a cancelled one does, and is left out.                 *)
(***************************************************************************)
EXTENDS Integers, Sequences, FiniteSets, SequencesExt

CONSTANTS
    Tasks, Chans, Cells,
    Cap,      \* the capacity of a channel
    Ahead,    \* how many values its feeder may hold there unasked
    Waits,    \* the arms of the waits that a task may begin
    MaxOps,   \* bound: how many operations a task begins
    MayCancel, MayClose, MayDrain,  \* bound: the tasks and channels it is done to
    SHORT,    \* Channel::forget: up to this many waiters a queue is searched
    None

ASSUME Sizes ==
    /\ MayCancel \subseteq Tasks /\ MayClose \subseteq Chans /\ MayDrain \subseteq Chans
    /\ Cap \in [Chans -> Nat] /\ Ahead \in [Chans -> Nat]
    /\ MaxOps \in [Tasks -> Nat] /\ SHORT \in Nat

VARIABLES
    ch,       \* State of a channel
    out,      \* the outcome of a task's latest operation; "open" while it waits
    pc,       \* where a task stands
    n,        \* how many operations it has begun
    arms,     \* the arms of its wait
    left,     \* Drop for Parked: the arms whose queue it has still to leave
    flagged,  \* its cancel flag
    done,     \* the cells that have their value
    cellq     \* Cell::waiters; <<>> for good once the cell is complete

vars == <<ch, out, pc, n, arms, left, flagged, done, cellq>>

NoOutcome == [how |-> "none", n |-> 0, arm |-> 0, chan |-> None, val |-> None]

Init ==
    /\ ch = [c \in Chans |->
               [buf |-> <<>>, closed |-> FALSE, recvq |-> <<>>, sendq |-> <<>>,
                demandq |-> <<>>, asked |-> FALSE, draining |-> FALSE, stale |-> 0]]
    /\ out = [t \in Tasks |-> NoOutcome]
    /\ pc = [t \in Tasks |-> "run"]
    /\ n = [t \in Tasks |-> 0]
    /\ arms = [t \in Tasks |-> <<>>]
    /\ left = [t \in Tasks |-> {}]
    /\ flagged = [t \in Tasks |-> FALSE]
    /\ done = {}
    /\ cellq = [k \in Cells |-> <<>>]

-----------------------------------------------------------------------------
(* The operations of State, on a pair w of the channels and the outcomes.  *)
(* Each gives the pair after it and how it ended.                          *)

World == [ch |-> ch, out |-> out]

\* Token::is_waiting, Token::claim: once the flag is set nobody completes an
\* arm for the task.
IsWaiting(o, x) == o[x.task].how = "open" /\ o[x.task].n = x.n
Claimable(o, x) == IsWaiting(o, x) /\ ~flagged[x.task]

\* Where the first waiter of a queue is whose wait can be ended, or 0.
FirstClaim(o, queue) ==
    LET open == {i \in DOMAIN queue : Claimable(o, queue[i])}
    IN IF open = {} THEN 0 ELSE CHOOSE i \in open : \A j \in open : i <= j

Outcome(x, how, c, v) == [how |-> how, n |-> x.n, arm |-> x.arm, chan |-> c, val |-> v]

\* Claim::fire for every waiter of a queue that can be claimed, at its first
\* place in it.
FireAll(o, queue, how, c) ==
    [t \in Tasks |->
        LET own == SelectSeq(queue, LAMBDA x : x.task = t /\ Claimable(o, x))
        IN IF own = <<>> THEN o[t] ELSE Outcome(Head(own), how, c, None)]

\* State::demand.
Demand(s, c) ==
    CASE s.closed -> "Closed"
      [] ~s.closed /\ (s.asked \/ Len(s.buf) < (IF s.draining THEN Cap[c] ELSE Ahead[c])) ->
            "Asked"
      [] OTHER -> "None"

\* State::wake_feeders.
WakeFeeders(w, c) ==
    [w EXCEPT !.out = FireAll(@, w.ch[c].demandq, "Asked", c), !.ch[c].demandq = <<>>]

\* State::send.
SendOn(w, c, v) ==
    LET s == w.ch[c]
        i == FirstClaim(w.out, s.recvq)
    IN CASE s.closed -> [w |-> w, how |-> "Closed"]
         [] ~s.closed /\ i > 0 ->
              [w |-> [w EXCEPT !.out[s.recvq[i].task] = Outcome(s.recvq[i], "Received", c, v),
                               !.ch[c].recvq = SubSeq(@, i + 1, Len(@)),
                               !.ch[c].asked = i < Len(s.recvq)],
               how |-> "Sent"]
         [] ~s.closed /\ i = 0 /\ Len(s.buf) < Cap[c] ->
              [w |-> [w EXCEPT !.ch[c].recvq = <<>>, !.ch[c].asked = FALSE,
                               !.ch[c].buf = Append(@, v)],
               how |-> "Sent"]
         [] OTHER ->
              [w |-> [w EXCEPT !.ch[c].recvq = <<>>, !.ch[c].asked = FALSE],
               how |-> "None"]

\* State::take_from_sender: the values it gives, one or none.
TakeFromSender(w, c) ==
    LET queue == w.ch[c].sendq
        i == FirstClaim(w.out, queue)
    IN IF i = 0
       THEN [w |-> [w EXCEPT !.ch[c].sendq = <<>>], vals |-> <<>>]
       ELSE [w |-> [w EXCEPT !.out[queue[i].task] = Outcome(queue[i], "Sent", c, queue[i].val),
                             !.ch[c].sendq = SubSeq(@, i + 1, Len(@))],
             vals |-> <<queue[i].val>>]

\* Slip: the value of a parked sender goes out before the buffer.
ReceiveOnOvertakes(w, c) ==
    LET s == w.ch[c]
        taken == TakeFromSender(w, c)
    IN CASE taken.vals # <<>> ->
              [w |-> taken.w, how |-> "Received", val |-> Head(taken.vals)]
         [] taken.vals = <<>> /\ s.buf # <<>> ->
              [w |-> [taken.w EXCEPT !.ch[c].buf = Tail(@)],
               how |-> "Received", val |-> Head(s.buf)]
         [] taken.vals = <<>> /\ s.buf = <<>> /\ s.closed ->
              [w |-> taken.w, how |-> "Closed", val |-> None]
         [] OTHER ->
              [w |-> WakeFeeders([taken.w EXCEPT !.ch[c].asked = TRUE], c),
               how |-> "None", val |-> None]

\* State::receive.
ReceiveOn(w, c) ==
    LET s == w.ch[c]
        taken == TakeFromSender(w, c)
        room == [taken.w EXCEPT !.ch[c].buf = Tail(@) \o taken.vals]
    IN CASE s.buf # <<>> ->
              [w |-> IF taken.vals = <<>> /\ Demand(room.ch[c], c) # "None"
                     THEN WakeFeeders(room, c) ELSE room,
               how |-> "Received", val |-> Head(s.buf)]
         [] s.buf = <<>> /\ taken.vals # <<>> ->
              [w |-> taken.w, how |-> "Received", val |-> Head(taken.vals)]
         [] s.buf = <<>> /\ taken.vals = <<>> /\ s.closed ->
              [w |-> taken.w, how |-> "Closed", val |-> None]
         [] OTHER ->
              [w |-> WakeFeeders([taken.w EXCEPT !.ch[c].asked = TRUE], c),
               how |-> "None", val |-> None]

\* State::close.
CloseOn(w, c) ==
    LET s == w.ch[c]
    IN IF s.closed
       THEN w
       ELSE [w EXCEPT !.out = FireAll(@, s.sendq \o s.recvq \o s.demandq, "Closed", c),
                      !.ch[c].sendq = <<>>, !.ch[c].recvq = <<>>, !.ch[c].demandq = <<>>,
                      !.ch[c].closed = TRUE]

-----------------------------------------------------------------------------
(* park, park_one: the wait of a task begins.                              *)

\* An arm, tried at once.  A task that is cancelled takes nothing new.
TryArm(w, t, a) ==
    CASE a.op \in {"recv", "demand"} /\ flagged[t] -> [w |-> w, how |-> "None", val |-> None]
      [] a.op = "recv" /\ ~flagged[t] -> ReceiveOn(w, a.on)
      [] a.op = "demand" /\ ~flagged[t] -> [w |-> w, how |-> Demand(w.ch[a.on], a.on), val |-> None]
      [] a.op = "send" ->
            LET r == SendOn(w, a.on, <<t, n[t] + 1>>)
            IN [w |-> r.w, how |-> r.how, val |-> <<t, n[t] + 1>>]
      [] a.op = "cell" ->
            [w |-> w, how |-> IF a.on \in done THEN "Done" ELSE "None", val |-> None]

\* The arms in their order, from first on, until one is done.
TryArms(t, as, first) ==
    LET rotated == [i \in 1..Len(as) |-> ((first + i - 2) % Len(as)) + 1]
        Try(r, i) ==
            IF r.how # "None" THEN r
            ELSE LET x == TryArm(r.w, t, as[i])
                 IN [w |-> x.w, how |-> x.how, val |-> x.val, arm |-> i]
    IN FoldLeft(Try, [w |-> World, how |-> "None", val |-> None, arm |-> 0], rotated)

QueueOf(op) == CASE op = "recv" -> "recvq" [] op = "send" -> "sendq" [] op = "demand" -> "demandq"

\* The waiters of the arms on their channels' queues, in the arms' order.
Queued(c, s, t, as) ==
    LET Put(r, i) ==
            IF as[i].op = "cell" \/ as[i].on # c THEN r
            ELSE [r EXCEPT ![QueueOf(as[i].op)] =
                     Append(@, [task |-> t, n |-> n[t] + 1, arm |-> i,
                                val |-> IF as[i].op = "send" THEN <<t, n[t] + 1>> ELSE None])]
    IN FoldLeft(Put, s, [i \in 1..Len(as) |-> i])

\* The operation is over: the task goes on.
ParkReady(t, as, r) ==
    /\ r.how # "None"
    /\ ch' = r.w.ch
    /\ out' = [r.w.out EXCEPT ![t] =
                 [how |-> r.how, n |-> n[t] + 1, arm |-> r.arm,
                  chan |-> as[r.arm].on, val |-> r.val]]
    /\ UNCHANGED <<pc, arms>>

\* It is cancelled: the task ends.
ParkCancelled(t, r) ==
    /\ r.how = "None" /\ flagged[t]
    /\ ch' = r.w.ch
    /\ out' = [r.w.out EXCEPT ![t] = [NoOutcome EXCEPT !.how = "Cancelled", !.n = n[t] + 1]]
    /\ pc' = [pc EXCEPT ![t] = "gone"]
    /\ UNCHANGED arms

\* Nothing to be done at once, and no wait: its deadline has passed, or the
\* operation was a try; try_send does not look at the flag.
ParkExpired(t, as, r) ==
    /\ r.how = "None"
    /\ flagged[t] => Len(as) = 1 /\ as[1].op = "send"
    /\ ch' = r.w.ch
    /\ out' = [r.w.out EXCEPT ![t] = [NoOutcome EXCEPT !.how = "Deadline", !.n = n[t] + 1]]
    /\ UNCHANGED <<pc, arms>>

\* It waits: on every channel's queue at once, on a cell's queue next.
ParkQueues(t, as, r) ==
    /\ r.how = "None" /\ ~flagged[t]
    /\ ch' = [c \in Chans |-> Queued(c, r.w.ch[c], t, as)]
    /\ out' = [r.w.out EXCEPT ![t] = [NoOutcome EXCEPT !.how = "open", !.n = n[t] + 1]]
    /\ pc' = [pc EXCEPT ![t] =
                IF \E i \in DOMAIN as : as[i].op = "cell" THEN "cells" ELSE "wait"]
    /\ arms' = [arms EXCEPT ![t] = as]

\* channel.select looks, before it takes the locks, for a send arm whose
\* channel is closed: an error, whatever the other arms could do.  A channel
\* may also be closed after that look.
SelectRefused(t, as) ==
    /\ Len(as) > 1
    /\ \E i \in DOMAIN as :
          /\ as[i].op = "send" /\ ch[as[i].on].closed
          /\ out' = [out EXCEPT ![t] =
                       [how |-> "Closed", n |-> n[t] + 1, arm |-> i,
                        chan |-> as[i].on, val |-> None]]
    /\ UNCHANGED <<ch, pc, arms>>

Park(t) ==
    /\ pc[t] = "run" /\ n[t] < MaxOps[t]
    /\ \E as \in Waits[t] : \E first \in DOMAIN as :
          LET r == TryArms(t, as, first)
          IN \/ SelectRefused(t, as)
             \/ ParkReady(t, as, r)
             \/ ParkCancelled(t, r)
             \/ ParkExpired(t, as, r)
             \/ ParkQueues(t, as, r)
    /\ n' = [n EXCEPT ![t] = @ + 1]
    /\ UNCHANGED <<left, flagged, done, cellq>>

\* Cell::enqueue, once the channels' locks are dropped: a cell that is
\* complete by now ends the wait.
Enqueue(t) ==
    /\ pc[t] = "cells"
    /\ LET i == CHOOSE j \in DOMAIN arms[t] : arms[t][j].op = "cell"
           k == arms[t][i].on
           x == [task |-> t, n |-> n[t], arm |-> i, val |-> None]
       IN IF k \in done
          THEN /\ out' = FireAll(out, <<x>>, "Done", k)
               /\ UNCHANGED cellq
          ELSE /\ cellq' = [cellq EXCEPT ![k] = Append(@, x)]
               /\ UNCHANGED out
    /\ pc' = [pc EXCEPT ![t] = "wait"]
    /\ UNCHANGED <<ch, n, arms, left, flagged, done>>

\* The timer ends an open wait.
Deadline(t) ==
    /\ pc[t] = "wait" /\ out[t].how = "open" /\ ~flagged[t]
    /\ out' = [out EXCEPT ![t].how = "Deadline"]
    /\ UNCHANGED <<ch, pc, n, arms, left, flagged, done, cellq>>

\* A cancel sets the flag, then ends the wait that is open.
CancelFlag(t) ==
    /\ ~flagged[t] /\ pc[t] # "gone"
    /\ flagged' = [flagged EXCEPT ![t] = TRUE]
    /\ UNCHANGED <<ch, out, pc, n, arms, left, done, cellq>>

CancelWait(t) ==
    /\ flagged[t] /\ pc[t] = "wait" /\ out[t].how = "open"
    /\ out' = [out EXCEPT ![t].how = "Cancelled"]
    /\ UNCHANGED <<ch, pc, n, arms, left, flagged, done, cellq>>

-----------------------------------------------------------------------------
(* Drop for Parked: the task has come back and leaves its queues, but the  *)
(* one of the arm that ended the wait.                                     *)

GoesOn(t) == IF out[t].how = "Cancelled" THEN "gone" ELSE "run"

Resume(t) ==
    /\ pc[t] = "wait" /\ out[t].how # "open"
    /\ LET rest == DOMAIN arms[t] \ {out[t].arm}
       IN /\ left' = [left EXCEPT ![t] = rest]
          /\ pc' = [pc EXCEPT ![t] = IF rest = {} THEN GoesOn(t) ELSE "leave"]
          /\ arms' = [arms EXCEPT ![t] = IF rest = {} THEN <<>> ELSE @]
    /\ UNCHANGED <<ch, out, n, flagged, done, cellq>>

Without(queue, t) == SelectSeq(queue, LAMBDA x : ~(x.task = t /\ x.n = n[t]))
StillWaiting(queue) == SelectSeq(queue, LAMBDA x : IsWaiting(out, x))

\* Slip: a sweep clears the queues.
ForgetAll(s, t) ==
    LET queued == Len(s.recvq) + Len(s.sendq) + Len(s.demandq)
    IN IF queued <= SHORT
       THEN [s EXCEPT !.recvq = Without(@, t), !.sendq = Without(@, t),
                      !.demandq = Without(@, t)]
       ELSE [s EXCEPT !.recvq = <<>>, !.sendq = <<>>, !.demandq = <<>>, !.stale = 0]

\* Channel::forget.
Forget(s, t) ==
    LET queued == Len(s.recvq) + Len(s.sendq) + Len(s.demandq)
    IN CASE queued <= SHORT ->
              [s EXCEPT !.recvq = Without(@, t), !.sendq = Without(@, t),
                        !.demandq = Without(@, t)]
         [] queued > SHORT /\ (s.stale + 1) * 2 >= queued ->
              [s EXCEPT !.recvq = StillWaiting(@), !.sendq = StillWaiting(@),
                        !.demandq = StillWaiting(@), !.stale = 0]
         [] OTHER -> [s EXCEPT !.stale = @ + 1]

Leave(t) ==
    /\ pc[t] = "leave"
    /\ LET i == CHOOSE j \in left[t] : \A k \in left[t] : j <= k
           a == arms[t][i]
       IN /\ IF a.op = "cell"
             THEN /\ cellq' = [cellq EXCEPT ![a.on] = Without(@, t)]
                  /\ UNCHANGED ch
             ELSE /\ ch' = [ch EXCEPT ![a.on] = Forget(@, t)]
                  /\ UNCHANGED cellq
          /\ left' = [left EXCEPT ![t] = @ \ {i}]
          /\ pc' = [pc EXCEPT ![t] = IF left[t] = {i} THEN GoesOn(t) ELSE "leave"]
          /\ arms' = [arms EXCEPT ![t] = IF left[t] = {i} THEN <<>> ELSE @]
    /\ UNCHANGED <<out, n, flagged, done>>

-----------------------------------------------------------------------------
(* What comes from outside the waits.                                      *)

\* Channel::close; Channel::abandon is it, for a feeder's output.
Close(c) ==
    /\ ~ch[c].closed
    /\ ch' = CloseOn(World, c).ch /\ out' = CloseOn(World, c).out
    /\ UNCHANGED <<pc, n, arms, left, flagged, done, cellq>>

\* Slip: the feeder that waits is not told.
DrainSilently(c) ==
    /\ ~ch[c].draining
    /\ ch' = [ch EXCEPT ![c].draining = TRUE]
    /\ UNCHANGED <<out, pc, n, arms, left, flagged, done, cellq>>

\* Channel::drain.
Drain(c) ==
    /\ ~ch[c].draining
    /\ LET w == [World EXCEPT !.ch[c].draining = TRUE]
           woken == IF Demand(w.ch[c], c) # "None" THEN WakeFeeders(w, c) ELSE w
       IN ch' = woken.ch /\ out' = woken.out
    /\ UNCHANGED <<pc, n, arms, left, flagged, done, cellq>>

\* Cell::complete sets the value, then takes the queue and ends the waits.
Complete(k) ==
    /\ k \notin done
    /\ done' = done \cup {k}
    /\ UNCHANGED <<ch, out, pc, n, arms, left, flagged, cellq>>

CompleteWakes(k) ==
    /\ k \in done /\ cellq[k] # <<>>
    /\ out' = FireAll(out, cellq[k], "Done", k)
    /\ cellq' = [cellq EXCEPT ![k] = <<>>]
    /\ UNCHANGED <<ch, pc, n, arms, left, flagged, done>>

Next ==
    \/ \E t \in Tasks :
          \/ Park(t) \/ Enqueue(t) \/ Deadline(t) \/ CancelWait(t)
          \/ Resume(t) \/ Leave(t)
    \/ \E t \in MayCancel : CancelFlag(t)
    \/ \E c \in MayClose : Close(c)
    \/ \E c \in MayDrain : Drain(c)
    \/ \E k \in Cells : Complete(k) \/ CompleteWakes(k)

Spec == Init /\ [][Next]_vars

-----------------------------------------------------------------------------
Values == {None} \cup (Tasks \X Nat)
Waiters == [task : Tasks, n : Nat, arm : Nat, val : Values]

\* What a channel promises (module Fifo): a task that is told its value was
\* sent, or that it received one, is told so in the step in which the value
\* enters or leaves the channel, in the order of the sends, one at a time,
\* and nothing is sent on a closed channel.
Promise == INSTANCE Fifo WITH q <- [c \in Chans |-> ch[c].buf],
                              closed <- [c \in Chans |-> ch[c].closed]

\* Channels, with parked senders, receivers and selects that other arms,
\* deadlines and cancels take away, keep that promise: no value is lost,
\* doubled or overtaken (State::send, State::receive).
KeepsThePromise == Promise!FifoSpec

Parked(t, op, on) ==
    /\ pc[t] = "wait" /\ out[t].how = "open" /\ ~flagged[t]
    /\ \E i \in DOMAIN arms[t] : arms[t][i] = [op |-> op, on |-> on]

\* No task waits for what is there (the comments on the queues in State; Cell).
\* A receiver waits only while the channel is open, empty, and no other task
\* waits to send on it; a sender only while it is open and full; a feeder only
\* while nothing is asked of it; for a complete cell only while its completion
\* is on its way through the queue.
NobodyWaitsInVain ==
    \A t \in Tasks :
        /\ \A c \in Chans :
              /\ Parked(t, "recv", c) =>
                    /\ ~ch[c].closed /\ ch[c].buf = <<>>
                    /\ \A u \in Tasks \ {t} : ~Parked(u, "send", c)
              /\ Parked(t, "send", c) => ~ch[c].closed /\ Len(ch[c].buf) = Cap[c]
              /\ Parked(t, "demand", c) => Demand(ch[c], c) = "None"
        /\ \A k \in Cells : Parked(t, "cell", k) /\ k \in done => cellq[k] # <<>>

\* A task that waits on a queue is on it: every arm of an open wait has its
\* waiter where a peer looks for it, whatever was popped, passed over, swept
\* or forgotten in the meantime (Channel::forget, State::send).
EveryArmIsQueued ==
    \A t \in Tasks : pc[t] = "wait" /\ out[t].how = "open" /\ ~flagged[t] =>
        \A i \in DOMAIN arms[t] :
            LET a == arms[t][i]
                queue == IF a.op = "cell" THEN cellq[a.on] ELSE ch[a.on][QueueOf(a.op)]
            IN \E j \in DOMAIN queue :
                  queue[j].task = t /\ queue[j].n = n[t] /\ queue[j].arm = i

\* A feeder does not wait while a reader is parked: the comments on demandq
\* and on asked in State.
ReaderIsHeard ==
    \A c \in Chans, t, u \in Tasks : t # u => ~(Parked(t, "demand", c) /\ Parked(u, "recv", c))
=============================================================================
