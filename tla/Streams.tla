------------------------------- MODULE Streams -------------------------------
(***************************************************************************)
(* The pipes of builtins/stream.rs: the frame that does the waiting around *)
(* the Logic of a stage or of a sink (module StreamLogic), over the        *)
(* channels between them (sync/channel.rs), and how a pipeline ends: a     *)
(* stage closes its output when its input is closed, with its failure when *)
(* it fails, and stops the stage that feeds it when it reads no further.   *)
(*                                                                         *)
(* A pipeline is a sequence of pipes.  Pipe p feeds channel p and reads    *)
(* the channels p.ins; the last pipe is the sink, in the task of its       *)
(* caller.  A pipe of kind "channel" is a channel that the program made    *)
(* and filled: no stage feeds it.  Every channel has one reader here, so   *)
(* its queues hold one waiter at most: the pipe whose state says that it   *)
(* waits.  A try (try_receive, try_send, is_asked) and the wait that       *)
(* follows it look at the same thing twice; what comes between the two     *)
(* only lets the second look succeed, so they are one step, as is the      *)
(* drain of a pipeline, channel by channel.  A task whose time is over     *)
(* takes nothing new, as a cancelled one, and is left out; so is the yield *)
(* after BURST steps, and stream.take(s, 0), which starts no stage.  The   *)
(* fail and the cancel of a task's handle are one step each (module        *)
(* Handles has theirs).                                                    *)
(***************************************************************************)
EXTENDS StreamPromise

CONSTANTS
    AHEAD,   \* how many values a stage holds ahead of a reader that drains it
    Shapes,  \* the pipelines
    Stopped  \* the pipelines whose caller may be cancelled

ASSUME Pipelines ==
    /\ AHEAD \in Nat \ {0} /\ Stopped \subseteq Shapes
    /\ \A s \in Shapes : \A p \in DOMAIN s :
          /\ \A i \in DOMAIN s[p].ins : s[p].ins[i] \in 1..(p - 1)
          /\ s[p].kind = "take" => s[p].n > 0

VARIABLES
    shape,  \* the pipeline
    ch,     \* channel::State
    pipe,   \* Pipe: its state, what it does next, what it got, what its logic
            \* remembers, the inputs that have not ended, and what it has still
            \* to tell the pipes that feed it; how it ended
    task    \* the cancel flag and the result of its task, and whether a failure
            \* is still nobody's

vars == <<shape, ch, pipe, task>>

Pipes == {p \in DOMAIN shape : shape[p].kind # "channel"}
Sink == Len(shape)
IsStage(p) == shape[p].kind \notin Sinks \cup {"channel"}
ReaderOf(c) == CHOOSE p \in DOMAIN shape : \E i \in DOMAIN shape[p].ins : shape[p].ins[i] = c
InputAt(p, c) == CHOOSE i \in DOMAIN shape[p].ins : shape[p].ins[i] = c

\* SOURCE, DRAINS, STOPS and the Output of stream.buffered.
Capacity(k) == IF k.kind = "buffered" /\ k.n > AHEAD THEN k.n ELSE AHEAD
Ahead(k) ==
    IF k.kind \in Sources THEN AHEAD ELSE IF k.kind = "buffered" THEN k.n ELSE 0
DrainsInputs(k) == k.kind \notin {"take", "take_while", "zip"}
ReadsToTheEnd(k) == k.kind \in Sinks \ {"first"}

Nothing == Got("Start", 0, <<>>)

Init ==
    /\ shape \in Shapes
    /\ ch = [c \in DOMAIN shape |->
               [buf |-> IF shape[c].kind = "channel" THEN shape[c].list ELSE <<>>,
                closed |-> "no", asked |-> FALSE, draining |-> FALSE]]
    /\ pipe = [p \in DOMAIN shape |->
                 [st |-> IF shape[p].kind = "channel" THEN "over" ELSE "new",
                  next |-> Take(1), got |-> Nothing,
                  mem |-> Memory(shape[p]), open |-> DOMAIN shape[p].ins,
                  todo |-> <<>>, turn |-> 0, drains |-> ReadsToTheEnd(shape[p]),
                  armed |-> shape[p].kind = "reading", stop |-> FALSE, shut |-> FALSE, how |-> "none"]]
    /\ task = [p \in DOMAIN shape |->
                 [flagged |-> FALSE, result |-> "none", unjoined |-> FALSE]]

World == [ch |-> ch, pipe |-> pipe, task |-> task]
Becomes(w) == ch' = w.ch /\ pipe' = w.pipe /\ task' = w.task /\ UNCHANGED shape

-----------------------------------------------------------------------------
(* The channels: State::send, receive, demand, close, and Channel::drain.  *)

Woken(w, p, got) == [w EXCEPT !.pipe[p].st = "woken", !.pipe[p].got = got]

Demand(w, c) ==
    LET s == w.ch[c]
        room == IF s.draining THEN Capacity(shape[c]) ELSE Ahead(shape[c])
    IN IF s.closed # "no" THEN "Closed"
       ELSE IF s.asked \/ Len(s.buf) < room THEN "Asked" ELSE "None"

WakeFeeder(w, c) ==
    IF w.pipe[c].st = "asking" /\ Demand(w, c) # "None"
    THEN Woken(w, c, Got(Demand(w, c), 0, <<>>)) ELSE w

\* The reader of c is parked there: on this input, or on all that are open.
Parked(w, c) ==
    LET r == ReaderOf(c)
    IN /\ w.pipe[r].st = "taking"
       /\ w.pipe[r].next.do = "TakeAny" \/ w.pipe[r].next.at = InputAt(r, c)

Send(w, c, v) ==
    LET asleep == [w EXCEPT !.ch[c].asked = FALSE]
    IN CASE w.ch[c].closed # "no" -> [w |-> w, how |-> "Closed"]
         [] w.ch[c].closed = "no" /\ Parked(w, c) ->
              [w |-> Woken(asleep, ReaderOf(c), Got("Value", InputAt(ReaderOf(c), c), v)),
               how |-> "Sent"]
         [] w.ch[c].closed = "no" /\ ~Parked(w, c) /\ Len(w.ch[c].buf) < Capacity(shape[c]) ->
              [w |-> [asleep EXCEPT !.ch[c].buf = Append(@, v)], how |-> "Sent"]
         [] OTHER -> [w |-> asleep, how |-> "Full"]

Receive(w, c) ==
    LET buf == w.ch[c].buf
        popped == [w EXCEPT !.ch[c].buf = Tail(@)]
        sent == [popped EXCEPT !.ch[c].buf = Append(@, w.pipe[c].next.val)]
    IN CASE buf # <<>> /\ w.pipe[c].st = "emitting" ->
              [w |-> Woken(sent, c, Got("Emitted", 0, <<>>)), how |-> "Value", val |-> Head(buf)]
         [] buf # <<>> /\ w.pipe[c].st # "emitting" ->
              [w |-> WakeFeeder(popped, c), how |-> "Value", val |-> Head(buf)]
         [] buf = <<>> /\ w.ch[c].closed # "no" ->
              [w |-> w, how |-> "End", val |-> w.ch[c].closed]
         [] OTHER ->
              [w |-> WakeFeeder([w EXCEPT !.ch[c].asked = TRUE], c), how |-> "Empty", val |-> <<>>]

Close(w, c, how) ==
    LET closed == [w EXCEPT !.ch[c].closed = how]
        r == ReaderOf(c)
        told == IF Parked(w, c) THEN Woken(closed, r, Got("End", InputAt(r, c), how)) ELSE closed
    IN IF w.ch[c].closed # "no" THEN w
       ELSE IF w.pipe[c].st \in {"emitting", "asking"}
            THEN Woken(told, c, Got("Closed", 0, <<>>)) ELSE told

\* The channels that a drain of c drains: c, and what the stage reads that
\* feeds it, unless c is drained already.
Drain(w, c) ==
    LET Drained[d \in DOMAIN shape] ==
            IF w.ch[d].draining THEN {}
            ELSE {d} \cup (IF DrainsInputs(shape[d])
                           THEN UNION {Drained[shape[d].ins[i]] : i \in DOMAIN shape[d].ins}
                           ELSE {})
        all == [w EXCEPT !.ch = [d \in DOMAIN shape |->
                   [@[d] EXCEPT !.draining = @ \/ d \in Drained[c]]]]
        asked == {d \in Drained[c] : all.pipe[d].st = "asking" /\ Demand(all, d) # "None"}
    IN [all EXCEPT !.pipe = [d \in DOMAIN shape |->
           IF d \in asked
           THEN [@[d] EXCEPT !.st = "woken", !.got = Got(Demand(all, d), 0, <<>>)] ELSE @[d]]]

-----------------------------------------------------------------------------
(* The end of a pipe.                                                      *)

\* Armed::fire, and the stop that the first operation on a connection set.
Shut(w, p) ==
    [w EXCEPT !.pipe[p].shut = @ \/ w.pipe[p].armed \/ w.pipe[p].stop,
              !.pipe[p].armed = FALSE, !.pipe[p].stop = FALSE]

\* TaskHandle::cancel, and the end of the wait that is open.
Cancel(w, p) ==
    [w EXCEPT !.task[p] = [flagged |-> TRUE, unjoined |-> FALSE,
                           result |-> IF @.result = "none" THEN "cancelled" ELSE @.result],
              !.pipe[p].st = IF @ \in {"taking", "asking", "emitting", "io"}
                             THEN "ended" ELSE @]

\* What a stage remembers is gone with its frame.
Gone(w, p) ==
    IF IsStage(p) THEN [w EXCEPT !.pipe[p].mem = Memory(shape[p]), !.pipe[p].open = {},
                                 !.pipe[p].next = Take(1), !.pipe[p].got = Nothing]
    ELSE w

\* Slip: the inputs that are left are not given up.
FinishQuietly(w, p, failure, how) ==
    LET closed == IF IsStage(p) THEN Close(w, p, failure) ELSE w
    IN [Gone(closed, p) EXCEPT !.pipe[p].st = "finish", !.pipe[p].how = how]

\* Pipe::finish: the output closes.  Every input that is open and that a stage
\* feeds is to be closed next, and that stage to be stopped.
Finish(w, p, failure, how) ==
    LET closed == IF IsStage(p) THEN Close(w, p, failure) ELSE w
        fed == SelectSeq([i \in DOMAIN shape[p].ins |-> i],
                         LAMBDA i : i \in w.pipe[p].open /\ IsStage(shape[p].ins[i]))
        steps == [j \in 1..(2 * Len(fed)) |->
                    [at |-> shape[p].ins[fed[(j + 1) \div 2]],
                     do |-> IF j % 2 = 1 THEN "close" ELSE "stop"]]
    IN [Gone(closed, p) EXCEPT !.pipe[p].st = "finish", !.pipe[p].how = how, !.pipe[p].todo = steps]

\* Pipe::cut_short.
CutShort(w, p) == Finish(Shut(w, p), p, "plain", "cut")

\* Channel::abandon of an input: the channel is closed, and then the stage is
\* stopped (stop_feeder_with): its connection first, then its task.
GiveUp(p) ==
    /\ pipe[p].st = "finish" /\ pipe[p].todo # <<>>
    /\ LET step == Head(pipe[p].todo)
           w == [World EXCEPT !.pipe[p].todo = Tail(@)]
           fired == [w EXCEPT !.pipe[step.at].shut = @ \/ w.pipe[step.at].armed,
                              !.pipe[step.at].armed = FALSE]
       IN Becomes(IF step.do = "close" THEN Close(w, step.at, "plain") ELSE Cancel(fired, step.at))

\* The frame is gone: the task has completed, unless it has its result.
End(p) ==
    /\ pipe[p].st = "finish" /\ pipe[p].todo = <<>>
    /\ Becomes([World EXCEPT !.pipe[p].st = "over",
                             !.task[p].result = IF @ = "none" THEN "ok" ELSE @])

\* The task has failed (TaskHandle::fail).
Fail(p) ==
    /\ pipe[p].st = "failed"
    /\ Becomes([World EXCEPT !.pipe[p].st = "ended",
                             !.task[p] = IF @.result = "none"
                                         THEN [@ EXCEPT !.result = "failed", !.unjoined = IsStage(p)]
                                         ELSE @])

\* Slip: a stage that failed closes its output plainly.
AbandonPlainly(p) ==
    /\ \/ pipe[p].st = "ended"
       \/ task[p].flagged /\ pipe[p].st \in {"new", "calling"}
    /\ Becomes(Finish(Shut(World, p), p, "plain", "abandoned"))

\* Pipe::abandon: the task has failed, was cancelled in a wait or before it
\* ran, or has used up the steps that it may do after a cancel (in a function
\* of the program).
Abandon(p) ==
    /\ \/ pipe[p].st = "ended"
       \/ task[p].flagged /\ pipe[p].st \in {"new", "calling"}
    /\ Becomes(Finish(Shut(World, p), p,
                      IF task[p].result = "failed" /\ ~task[p].flagged THEN "failed" ELSE "plain",
                      "abandoned"))

-----------------------------------------------------------------------------
(* The steps of a pipe: Pipe::run and Pipe::resume.                        *)

\* The logic is told what happened, and says what comes next.
Tell(w, p, got) ==
    LET r == Logic(shape[p], w.pipe[p].mem, got)
    IN [w EXCEPT !.pipe[p].mem = r.m, !.pipe[p].next = r.next, !.pipe[p].got = Nothing,
                 !.pipe[p].st = IF r.next.do = "Raise" THEN "failed" ELSE "next"]

\* Slip: the failure of the stage before is read and stays unread.
EndedUnjoined(w, p, i, how) ==
    LET shorter == [w EXCEPT !.pipe[p].open = @ \ {i}]
    IN IF how = "failed" THEN [shorter EXCEPT !.pipe[p].st = "failed"]
       ELSE Tell(shorter, p, Got("End", i, <<>>))

\* Pipe::ended, Close::raise.
Ended(w, p, i, how) ==
    LET shorter == [w EXCEPT !.pipe[p].open = @ \ {i}]
    IN IF how = "failed"
       THEN [shorter EXCEPT !.task[shape[p].ins[i]].unjoined = FALSE, !.pipe[p].st = "failed"]
       ELSE Tell(shorter, p, Got("End", i, <<>>))

Start(p) ==
    /\ pipe[p].st = "new" /\ ~task[p].flagged
    /\ Becomes(Tell(World, p, Nothing))

IsTake(next) == next.do \in {"Take", "TakeAny"}

\* Slip: a stage takes without being asked.
LookUnasked(p) ==
    /\ pipe[p].st = "next" /\ IsTake(pipe[p].next)
    /\ Becomes(
         CASE task[p].flagged -> CutShort(World, p)
           [] ~task[p].flagged /\ pipe[p].drains ->
                Drain([World EXCEPT !.pipe[p].drains = FALSE], shape[p].ins[pipe[p].next.at])
           [] OTHER -> [World EXCEPT !.pipe[p].st = "take"])

\* Before a take: a task that was cancelled takes nothing new, a sink that
\* reads to the end says so, a stage waits to be asked.
Look(p) ==
    /\ pipe[p].st = "next" /\ IsTake(pipe[p].next)
    /\ Becomes(
         CASE task[p].flagged -> CutShort(World, p)
           [] ~task[p].flagged /\ pipe[p].drains ->
                Drain([World EXCEPT !.pipe[p].drains = FALSE], shape[p].ins[pipe[p].next.at])
           [] ~task[p].flagged /\ ~pipe[p].drains /\ IsStage(p) /\ Demand(World, p) = "None" ->
                [World EXCEPT !.pipe[p].st = "asking"]
           [] ~task[p].flagged /\ ~pipe[p].drains /\ IsStage(p) /\ Demand(World, p) = "Closed" ->
                CutShort(World, p)
           [] OTHER -> [World EXCEPT !.pipe[p].st = "take"])

TakeOne(p) ==
    /\ pipe[p].st = "take" /\ pipe[p].next.do = "Take"
    /\ LET i == pipe[p].next.at
           r == Receive(World, shape[p].ins[i])
       IN Becomes(CASE r.how = "Value" -> Tell(r.w, p, Got("Value", i, r.val))
                    [] r.how = "End" -> Ended(r.w, p, i, r.val)
                    [] r.how = "Empty" ->
                         [r.w EXCEPT !.pipe[p].st = IF task[p].flagged THEN "ended" ELSE "taking"])

\* The wait for any input: the inputs that are open, from another one each
\* time.  One that has nothing is asked.
TakeFromAny(p) ==
    /\ pipe[p].st = "take" /\ pipe[p].next.do = "TakeAny"
    /\ LET all == SelectSeq([i \in DOMAIN shape[p].ins |-> i], LAMBDA i : i \in pipe[p].open)
           In(j) == all[((pipe[p].turn + j - 1) % Len(all)) + 1]
           w == [World EXCEPT !.pipe[p].turn = (@ + 1) % Len(shape[p].ins)]
           Try[j \in 0..Len(all)] ==
               IF j = 0 THEN [w |-> w, how |-> "Empty", val |-> <<>>, at |-> 0]
               ELSE IF Try[j - 1].how # "Empty" THEN Try[j - 1]
               ELSE LET r == Receive(Try[j - 1].w, shape[p].ins[In(j)])
                    IN [w |-> r.w, how |-> r.how, val |-> r.val, at |-> In(j)]
           r == Try[Len(all)]
       IN Becomes(CASE task[p].flagged -> [w EXCEPT !.pipe[p].st = "ended"]
                    [] ~task[p].flagged /\ r.how = "Value" -> Tell(r.w, p, Got("Value", r.at, r.val))
                    [] ~task[p].flagged /\ r.how = "End" -> Ended(r.w, p, r.at, r.val)
                    [] OTHER -> [r.w EXCEPT !.pipe[p].st = "taking"])

EmitOne(p) ==
    /\ pipe[p].st = "next" /\ pipe[p].next.do = "Emit"
    /\ LET r == Send(World, p, pipe[p].next.val)
       IN Becomes(CASE r.how = "Sent" -> Tell(r.w, p, Got("Emitted", 0, <<>>))
                    [] r.how = "Closed" -> CutShort(r.w, p)
                    [] r.how = "Full" ->
                         [r.w EXCEPT !.pipe[p].st = IF task[p].flagged THEN "ended" ELSE "emitting"])

\* A function of the program is called: it returns, or raises an error.
CallIt(p) ==
    /\ pipe[p].st = "next" /\ pipe[p].next.do = "Call"
    /\ Becomes([World EXCEPT !.pipe[p].st = "calling"])

Return(p) ==
    /\ pipe[p].st = "calling"
    /\ LET v == pipe[p].next.val
       IN Becomes(IF v \in Raises THEN [World EXCEPT !.pipe[p].st = "failed"]
                  ELSE Tell(World, p, Got("Returned", 0, Returned(shape[p], pipe[p].mem, v))))

\* An operation of the I/O pool, which a cancelled task does not start.
DoIo(p) ==
    /\ pipe[p].st = "next" /\ pipe[p].next.do = "Io"
    /\ Becomes([World EXCEPT !.pipe[p].stop = TRUE,
                             !.pipe[p].st = IF task[p].flagged THEN "ended" ELSE "io"])

IoDone(p) ==
    /\ pipe[p].st = "io"
    /\ LET k == shape[p]
           read == IF k.kind = "reading" /\ pipe[p].mem.n <= Len(k.list)
                   THEN k.list[pipe[p].mem.n] ELSE <<>>
       IN Becomes(Tell(World, p, Got("Io", 0, read)))

\* It cannot be run, or is over SILT_IO_TIMEOUT: a source has an error as its
\* last item, a sink as its value.  The operation ends with the connection.
IoFails(p) ==
    /\ pipe[p].st = "io"
    /\ Becomes(Tell([World EXCEPT !.pipe[p].shut = TRUE], p,
                    Got("Io", 0, IF shape[p].kind = "reading" THEN <<ERR>> ELSE ERR)))

\* Slip: a source that ended by itself stays armed.
FinishedArmed(p) ==
    /\ pipe[p].st = "next" /\ pipe[p].next.do = "Done"
    /\ Becomes(Finish(World, p, "plain", "done"))

\* It is finished: a source that ended by itself leaves its connection.
Finished(p) ==
    /\ pipe[p].st = "next" /\ pipe[p].next.do = "Done"
    /\ Becomes(Finish([World EXCEPT !.pipe[p].armed = FALSE], p, "plain", "done"))

\* Pipe::resume after a wait.
Resume(p) ==
    /\ pipe[p].st = "woken"
    /\ LET got == pipe[p].got
       IN Becomes(CASE got.is \in {"Value", "Emitted"} -> Tell(World, p, got)
                    [] got.is = "End" -> Ended(World, p, got.at, got.val)
                    [] got.is = "Asked" -> [World EXCEPT !.pipe[p].st = "next"]
                    [] got.is = "Closed" -> CutShort(World, p))

Step(p) ==
    \/ Start(p) \/ Look(p) \/ TakeOne(p) \/ TakeFromAny(p) \/ EmitOne(p)
    \/ CallIt(p) \/ Return(p) \/ DoIo(p) \/ IoDone(p) \/ Finished(p) \/ Resume(p)
    \/ Fail(p) \/ Abandon(p) \/ GiveUp(p) \/ End(p)

-----------------------------------------------------------------------------
(* What the program does.                                                  *)

\* The task that called the sink is cancelled.
CancelCaller ==
    /\ shape \in Stopped /\ ~task[Sink].flagged /\ pipe[Sink].st \notin {"finish", "over"}
    /\ Becomes(Cancel(World, Sink))

\* The program closes a channel that it made.
CloseChannel(c) ==
    /\ shape[c].kind = "channel" /\ shape[c].n > 0 /\ ch[c].closed = "no"
    /\ Becomes(Close(World, c, "plain"))

Next ==
    \/ \E p \in Pipes : Step(p) \/ IoFails(p)
    \/ CancelCaller
    \/ \E c \in DOMAIN shape : CloseChannel(c)

Spec == Init /\ [][Next]_vars

\* Some task that can go on is run (module Workers), a function of the program
\* returns, an operation of the pool ends; the program closes the channels it
\* said it would.  A pipeline has no cycle of steps, so that no task can be
\* kept from its own.
FairSpec ==
    Spec /\ WF_vars((\E p \in Pipes : Step(p)) \/ \E c \in DOMAIN shape : CloseChannel(c))

-----------------------------------------------------------------------------
(* What a pipeline promises.                                               *)

Over(p) == pipe[p].st = "over"
ToldOf == [s \in Shapes |-> Outcomes(s, 0, 0)]
Told == ToldOf[shape]

SinkEnd ==
    LET sink == pipe[Sink]
    IN CASE sink.how # "done" -> Fails
         [] sink.how = "done" /\ shape[Sink].kind # "writing" -> Value(sink.next.val)
         [] OTHER -> IF sink.next.val = ERR THEN Error ELSE Value(sink.mem.acc)

\* Whatever the stages do when, a sink that was not cancelled ends as the
\* pipeline says: with the value of the lists (stream.rs, the Logics), in their
\* order, and with nothing lost or twice, or by the failure of a stage.  It
\* does not end with a part of the stream because a stage failed.
SinkEndsAsToldBy == Over(Sink) /\ ~task[Sink].flagged => SinkEnd \in Told

\* What of the program's channel c the pipeline s may take: so much as
\* determines how the sink ends, what a stream.buffered holds, and one value
\* that a merge asked for while it took another.  All, when the sink reads it
\* to the end through stages that do.
MayTake(s, c) ==
    LET Reader(d) == CHOOSE p \in DOMAIN s : \E i \in DOMAIN s[p].ins : s[p].ins[i] = d
        After[d \in DOMAIN s] ==
            IF s[d].kind \in Sinks THEN {d} ELSE {d} \cup After[Reader(d)]
        readers == After[c] \ {c}
        all == Len(s[c].list)
        Enough(j) == j = all \/ (Outcomes(s, c, j) = ToldOf[s] /\ Waits \notin ToldOf[s])
        needed == Min({n \in 0..all : Enough(n)})
    IN IF ReadsToTheEnd(s[Len(s)]) /\ \A r \in readers : DrainsInputs(s[r]) THEN all
       ELSE needed + Cardinality({r \in readers : s[r].kind = "merge"})
            + MapThenSumSet(LAMBDA r : s[r].n, {r \in readers : s[r].kind = "buffered"})
MayTakeOf == [s \in Shapes |-> [c \in {d \in DOMAIN s : s[d].kind = "channel"} |-> MayTake(s, c)]]

\* A pipeline that may stop before the end takes from a channel of the program
\* what its sink needs, and leaves the rest to the channel's other readers
\* (stream.rs: "A stage takes a value only when its reader asks for one").
TakesWhatIsAsked ==
    \A c \in DOMAIN shape \ Pipes : Len(shape[c].list) - Len(ch[c].buf) <= MayTakeOf[shape][c]

\* A failure of a stage is read by the one that reads its output, or dismissed
\* by a reader that stopped reading: when all have ended, none is left that the
\* program's end would report.
NoFailureIsLeft == (\A p \in Pipes : Over(p)) => \A p \in Pipes : ~task[p].unjoined

\* A source on a connection that is stopped before its end has shut the
\* connection down, whenever it is stopped and by whom; one that ended by itself
\* leaves the connection to the program, and no reader that stops later shuts it.
ConnectionFollowsItsSource ==
    [][\A p \in Pipes :
          shape[p].kind = "reading"
          => /\ pipe[p].how = "done" => pipe'[p].shut = pipe[p].shut
             /\ pipe'[p].how \in {"cut", "abandoned"} => pipe'[p].shut]_vars

\* A pipeline whose sink has what it needs comes to its end, and every stage
\* of it with it: nobody waits for a reader that is gone.
EveryPipeEnds == <>(Waits \in Told \/ \A p \in Pipes : Over(p))
=============================================================================
