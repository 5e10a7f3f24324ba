----------------------------- MODULE StreamLogic -----------------------------
(***************************************************************************)
(* What the stages and the sinks of builtins/stream.rs do: for each        *)
(* function of the module its Logic, which is told what happened (Got) and *)
(* says what comes next (enum Next, here Then).                            *)
(*                                                                         *)
(* An element is a sequence of numbers: what a zip or a chunk puts         *)
(* together is the concatenation.  The element ERR stands for an Err(_)    *)
(* item of a source that reads.  m is what the closure of a Logic          *)
(* remembers: a number, a sequence and a flag, each used as the function   *)
(* says.  k is the stage: its kind, its argument n and the list it was     *)
(* given.                                                                  *)
(***************************************************************************)
EXTENDS Integers, Sequences

CONSTANTS
    Raises,  \* the elements on which the program's function raises an error
    MaxInt   \* i64::MAX

ERR == <<0>>

\* What the functions of the program return.
Fn(v) == [i \in DOMAIN v |-> v[i] + 10]
Pred(v) == v[1] % 2 = 1
Many(v) == <<v, v>>
UnfoldTo == 3

Sources == {"from_list", "from_range", "repeat", "unfold", "reading"}
Sinks == {"collect", "fold", "count", "first", "last", "writing"}

-----------------------------------------------------------------------------
Got(is, at, val) == [is |-> is, at |-> at, val |-> val]
Then(do, at, val) == [do |-> do, at |-> at, val |-> val]

Take(i) == Then("Take", i, <<>>)
TakeAny == Then("TakeAny", 0, <<>>)
Emit(v) == Then("Emit", 0, v)
Call(v) == Then("Call", 0, v)
Io == Then("Io", 0, <<>>)
Done(v) == Then("Done", 0, v)
Raise == Then("Raise", 0, <<>>)

Memory(k) ==
    [n |-> IF k.kind \in {"concat", "unfold"} THEN 1
           ELSE IF k.kind = "merge" THEN Len(k.ins)
           ELSE IF k.kind \in {"from_range", "take", "drop"} THEN k.n ELSE 0,
     acc |-> IF k.kind = "from_list" THEN k.list ELSE <<>>,
     on |-> k.kind \in {"drop_while", "from_range"}]

Go(m, next) == [m |-> m, next |-> next]
Ready(g) == g.is \in {"Start", "Emitted"}

FromList(k, m, g) ==
    IF m.acc = <<>> THEN Go(m, Done(<<>>))
    ELSE Go([m EXCEPT !.acc = Tail(@)], Emit(Head(m.acc)))

\* From n to what k.list says.  After MaxInt there is no number: m.on is then
\* FALSE.
FromRange(k, m, g) ==
    IF ~m.on \/ m.n > Head(k.list) THEN Go(m, Done(<<>>))
    ELSE Go([m EXCEPT !.n = IF @ < MaxInt THEN @ + 1 ELSE @, !.on = m.n < MaxInt],
            Emit(<<m.n>>))

Repeat(k, m, g) == Go(m, Emit(Head(k.list)))

Unfold(k, m, g) ==
    CASE Ready(g) -> Go(m, Call(<<m.n>>))
      [] g.is = "Returned" /\ g.val < UnfoldTo -> Go([m EXCEPT !.n = @ + 1], Emit(<<g.val>>))
      [] OTHER -> Go(m, Done(<<>>))

\* A read gives the items it brought, none at the end; an error is the last
\* item.  k.list holds what each read brings.
Reading(k, m, g) ==
    LET EmitItem(items) ==
            Go([m EXCEPT !.acc = Tail(items), !.on = Head(items) = ERR], Emit(Head(items)))
    IN CASE Ready(g) /\ ~m.on /\ m.acc # <<>> -> EmitItem(m.acc)
         [] Ready(g) /\ ~m.on /\ m.acc = <<>> -> Go([m EXCEPT !.n = @ + 1], Io)
         [] g.is = "Io" /\ m.acc \o g.val # <<>> -> EmitItem(m.acc \o g.val)
         [] OTHER -> Go(m, Done(<<>>))

Map(k, m, g) ==
    CASE Ready(g) -> Go(m, Take(1))
      [] g.is = "Value" -> Go(m, Call(g.val))
      [] g.is = "Returned" -> Go(m, Emit(g.val))
      [] g.is = "End" -> Go(m, Done(<<>>))

Filter(k, m, g) ==
    CASE Ready(g) -> Go(m, Take(1))
      [] g.is = "Value" -> Go([m EXCEPT !.acc = g.val], Call(g.val))
      [] g.is = "Returned" -> Go(m, IF g.val THEN Emit(m.acc) ELSE Take(1))
      [] g.is = "End" -> Go(m, Done(<<>>))

FlatMap(k, m, g) ==
    LET Rest(items) ==
            IF items = <<>> THEN Go(m, Take(1))
            ELSE Go([m EXCEPT !.acc = Tail(items)], Emit(Head(items)))
    IN CASE g.is = "Value" -> Go(m, Call(g.val))
         [] g.is = "Returned" -> Rest(g.val)
         [] g.is = "End" -> Go(m, Done(<<>>))
         [] Ready(g) -> Rest(m.acc)

TakeN(k, m, g) ==
    CASE g.is = "Start" -> Go(m, Take(1))
      [] g.is = "Value" -> Go([m EXCEPT !.n = @ - 1], Emit(g.val))
      [] g.is = "Emitted" /\ m.n > 0 -> Go(m, Take(1))
      [] OTHER -> Go(m, Done(<<>>))

DropN(k, m, g) ==
    CASE Ready(g) -> Go(m, Take(1))
      [] g.is = "Value" /\ m.n > 0 -> Go([m EXCEPT !.n = @ - 1], Take(1))
      [] g.is = "Value" /\ m.n = 0 -> Go(m, Emit(g.val))
      [] g.is = "End" -> Go(m, Done(<<>>))

TakeWhile(k, m, g) ==
    CASE Ready(g) -> Go(m, Take(1))
      [] g.is = "Value" -> Go([m EXCEPT !.acc = g.val], Call(g.val))
      [] g.is = "Returned" -> Go(m, IF g.val THEN Emit(m.acc) ELSE Done(<<>>))
      [] g.is = "End" -> Go(m, Done(<<>>))

DropWhile(k, m, g) ==
    CASE Ready(g) -> Go(m, Take(1))
      [] g.is = "Value" /\ m.on -> Go([m EXCEPT !.acc = g.val], Call(g.val))
      [] g.is = "Value" /\ ~m.on -> Go(m, Emit(g.val))
      [] g.is = "Returned" -> IF g.val THEN Go(m, Take(1))
                              ELSE Go([m EXCEPT !.on = FALSE], Emit(m.acc))
      [] g.is = "End" -> Go(m, Done(<<>>))

\* The elements here have one number each, so a chunk's length counts them.
Chunks(k, m, g) ==
    CASE g.is = "Start" -> Go(m, Take(1))
      [] g.is = "Emitted" -> Go(m, IF m.on THEN Done(<<>>) ELSE Take(1))
      [] g.is = "Value" ->
            LET chunk == m.acc \o g.val
            IN IF Len(chunk) < k.n THEN Go([m EXCEPT !.acc = chunk], Take(1))
               ELSE Go([m EXCEPT !.acc = <<>>], Emit(chunk))
      [] g.is = "End" -> IF m.acc = <<>> THEN Go(m, Done(<<>>))
                         ELSE Go([m EXCEPT !.acc = <<>>, !.on = TRUE], Emit(m.acc))

Scan(k, m, g) ==
    CASE Ready(g) -> Go(m, Take(1))
      [] g.is = "Value" -> Go(m, Call(g.val))
      [] g.is = "Returned" -> Go([m EXCEPT !.acc = g.val], Emit(g.val))
      [] g.is = "End" -> Go(m, Done(<<>>))

\* An element that holds a function cannot be compared: an error.
Dedup(k, m, g) ==
    CASE Ready(g) -> Go(m, Take(1))
      [] g.is = "Value" /\ g.val \in Raises -> Go(m, Raise)
      [] g.is = "Value" /\ g.val \notin Raises /\ g.val = m.acc -> Go(m, Take(1))
      [] g.is = "Value" /\ g.val \notin Raises /\ g.val # m.acc ->
            Go([m EXCEPT !.acc = g.val], Emit(g.val))
      [] g.is = "End" -> Go(m, Done(<<>>))

\* forward: stream.buffered.
Forward(k, m, g) ==
    CASE Ready(g) -> Go(m, Take(1))
      [] g.is = "Value" -> Go(m, Emit(g.val))
      [] g.is = "End" -> Go(m, Done(<<>>))

Merge(k, m, g) ==
    LET open == IF g.is = "End" THEN m.n - 1 ELSE m.n
    IN IF g.is = "Value" THEN Go(m, Emit(g.val))
       ELSE Go([m EXCEPT !.n = open], IF open = 0 THEN Done(<<>>) ELSE TakeAny)

ZipTwo(k, m, g) ==
    CASE Ready(g) -> Go(m, Take(1))
      [] g.is = "Value" /\ g.at = 1 -> Go([m EXCEPT !.acc = g.val], Take(2))
      [] g.is = "Value" /\ g.at = 2 -> Go(m, Emit(m.acc \o g.val))
      [] g.is = "End" -> Go(m, Done(<<>>))

Concat(k, m, g) ==
    LET current == IF g.is = "End" THEN m.n + 1 ELSE m.n
    IN IF g.is = "Value" THEN Go(m, Emit(g.val))
       ELSE Go([m EXCEPT !.n = current],
               IF current <= Len(k.ins) THEN Take(current) ELSE Done(<<>>))

Collect(k, m, g) ==
    CASE g.is = "Start" -> Go(m, Take(1))
      [] g.is = "Value" -> Go([m EXCEPT !.acc = Append(@, g.val)], Take(1))
      [] g.is = "End" -> Go(m, Done(m.acc))

FoldSink(k, m, g) ==
    CASE g.is = "Start" -> Go(m, Take(1))
      [] g.is = "Value" -> Go(m, Call(g.val))
      [] g.is = "Returned" -> Go([m EXCEPT !.acc = g.val], Take(1))
      [] g.is = "End" -> Go(m, Done(m.acc))

Count(k, m, g) ==
    CASE g.is = "Start" -> Go(m, Take(1))
      [] g.is = "Value" -> Go([m EXCEPT !.n = @ + 1], Take(1))
      [] g.is = "End" -> Go(m, Done(<<m.n>>))

First(k, m, g) ==
    CASE g.is = "Start" -> Go(m, Take(1))
      [] g.is = "Value" -> Go(m, Done(g.val))
      [] g.is = "End" -> Go(m, Done(<<>>))

LastSink(k, m, g) ==
    CASE g.is = "Start" -> Go(m, Take(1))
      [] g.is = "Value" -> Go([m EXCEPT !.acc = g.val], Take(1))
      [] g.is = "End" -> Go(m, Done(m.acc))

\* The first write opens what is written to, the last flushes it.  The value
\* is Ok(()), <<>> here, or the first error: of a write, or an item.  m.acc
\* is what has been written.
Writing(k, m, g) ==
    CASE g.is = "Start" -> Go(m, Io)
      [] g.is = "Value" /\ g.val # ERR -> Go([m EXCEPT !.acc = Append(@, g.val)], Io)
      [] g.is = "Value" /\ g.val = ERR -> Go(m, Done(ERR))
      [] g.is = "End" -> Go([m EXCEPT !.on = TRUE], Io)
      [] g.is = "Io" -> Go(m, IF m.on \/ g.val = ERR THEN Done(g.val) ELSE Take(1))

Logic(k, m, g) ==
    CASE k.kind = "from_list" -> FromList(k, m, g)
      [] k.kind = "from_range" -> FromRange(k, m, g)
      [] k.kind = "repeat" -> Repeat(k, m, g)
      [] k.kind = "unfold" -> Unfold(k, m, g)
      [] k.kind = "reading" -> Reading(k, m, g)
      [] k.kind = "map" -> Map(k, m, g)
      [] k.kind = "filter" -> Filter(k, m, g)
      [] k.kind = "flat_map" -> FlatMap(k, m, g)
      [] k.kind = "take" -> TakeN(k, m, g)
      [] k.kind = "drop" -> DropN(k, m, g)
      [] k.kind = "take_while" -> TakeWhile(k, m, g)
      [] k.kind = "drop_while" -> DropWhile(k, m, g)
      [] k.kind = "chunks" -> Chunks(k, m, g)
      [] k.kind = "scan" -> Scan(k, m, g)
      [] k.kind = "dedup" -> Dedup(k, m, g)
      [] k.kind = "buffered" -> Forward(k, m, g)
      [] k.kind = "merge" -> Merge(k, m, g)
      [] k.kind = "zip" -> ZipTwo(k, m, g)
      [] k.kind = "concat" -> Concat(k, m, g)
      [] k.kind = "collect" -> Collect(k, m, g)
      [] k.kind = "fold" -> FoldSink(k, m, g)
      [] k.kind = "count" -> Count(k, m, g)
      [] k.kind = "first" -> First(k, m, g)
      [] k.kind = "last" -> LastSink(k, m, g)
      [] k.kind = "writing" -> Writing(k, m, g)

\* What the call of the program's function with v returns.
Returned(k, m, v) ==
    CASE k.kind \in {"filter", "take_while", "drop_while"} -> Pred(v)
      [] k.kind = "map" -> Fn(v)
      [] k.kind = "flat_map" -> Many(v)
      [] k.kind \in {"scan", "fold"} -> m.acc \o v
      [] k.kind = "unfold" -> v[1]
=============================================================================
