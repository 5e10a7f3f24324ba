---------------------------- MODULE StreamPromise ----------------------------
(***************************************************************************)
(* What a pipeline of streams means, whatever its tasks do when: every     *)
(* stage turns lists into a list.  A list here says how it ends: "end",    *)
(* with a failure ("fail"), or not ("more": a channel that nobody closes,  *)
(* a source without end).  A stage has a set of them, for a merge may take *)
(* its inputs in any order and a read may fail.                            *)
(***************************************************************************)
EXTENDS StreamLogic, SequencesExt

CONSTANT Long   \* how much of a source without end is looked at

List(vals, end) == [vals |-> vals, end |-> end]
Mapped(L, Op(_)) == List([i \in DOMAIN L.vals |-> Op(L.vals[i])], L.end)

\* The first i with P, or the place after the last.
FirstAt(s, P(_)) ==
    CHOOSE i \in 1..(Len(s) + 1) :
        /\ i <= Len(s) => P(s[i])
        /\ \A j \in 1..(i - 1) : ~P(s[j])
CutAt(L, i, end) == IF i > Len(L.vals) THEN L ELSE List(SubSeq(L.vals, 1, i - 1), end)

\* The program's function fails at the first element that it raises on.
Called(L) == CutAt(L, FirstAt(L.vals, LAMBDA v : v \in Raises), "fail")

\* Up to where the predicate is false, or fails.
Holds(L) ==
    LET i == FirstAt(L.vals, LAMBDA v : v \in Raises \/ ~Pred(v))
    IN CutAt(L, i, IF i <= Len(L.vals) /\ L.vals[i] \in Raises THEN "fail" ELSE "end")

Chunked(L, n) ==
    LET full == Len(L.vals) \div n
        rest == SubSeq(L.vals, full * n + 1, Len(L.vals))
        chunk == [i \in 1..full |-> FlattenSeq(SubSeq(L.vals, (i - 1) * n + 1, i * n))]
    IN List(IF rest # <<>> /\ L.end = "end" THEN Append(chunk, FlattenSeq(rest)) ELSE chunk,
                L.end)

Zipped(A, B) ==
    LET m == IF Len(A.vals) < Len(B.vals) THEN Len(A.vals) ELSE Len(B.vals)
    IN List([i \in 1..m |-> A.vals[i] \o B.vals[i]], IF Len(A.vals) = m THEN A.end ELSE B.end)

\* The interleavings of a and b.
Interleaved(a, b) ==
    {[i \in 1..(Len(a) + Len(b)) |->
        LET before == Cardinality({j \in S : j < i})
        IN IF i \in S THEN a[before + 1] ELSE b[i - before]]
     : S \in {T \in SUBSET (1..(Len(a) + Len(b))) : Cardinality(T) = Len(a)}}

\* A merge ends with both, and fails with the first failure it comes to.
Merged(A, B) ==
    LET Until(X, Y) == IF X.end # "fail" THEN {}
                       ELSE UNION {Interleaved(X.vals, SubSeq(Y.vals, 1, n)) : n \in 0..Len(Y.vals)}
    IN {List(s, "fail") : s \in Until(A, B) \cup Until(B, A)}
       \cup (IF "fail" \in {A.end, B.end} THEN {}
             ELSE {List(s, IF "more" \in {A.end, B.end} THEN "more" ELSE "end")
                   : s \in Interleaved(A.vals, B.vals)})

\* A source that reads: an item that is an error is its last, and every read
\* may be one.
Read(list) ==
    LET Reads(n) == FlattenSeq(SubSeq(list, 1, n))
        all == Reads(Len(list))
        err == FirstAt(all, LAMBDA v : v = ERR)
        Good(n) == \A i \in DOMAIN Reads(n) : Reads(n)[i] # ERR
    IN {List(IF err > Len(all) THEN all ELSE SubSeq(all, 1, err), "end")}
       \cup {List(Append(Reads(n), ERR), "end") : n \in {j \in 0..Len(list) : Good(j)}}

\* The lists that pipe p of the pipeline s may give, if of the program's
\* channel c only the first n elements are there.
Lists(s, p, c, n) ==
    LET Of[q \in 1..p] ==
          LET k == s[q]
              In(i) == Of[k.ins[i]]
              Each(Op(_)) == {Op(L) : L \in In(1)}
          IN CASE k.kind = "channel" /\ q = c -> {List(SubSeq(k.list, 1, n), "more")}
               [] k.kind = "channel" /\ q # c -> {List(k.list, IF k.n > 0 THEN "end" ELSE "more")}
               [] k.kind = "from_list" -> {List(k.list, "end")}
               [] k.kind = "from_range" ->
                    {List([i \in 1..(Head(k.list) - k.n + 1) |-> <<k.n + i - 1>>], "end")}
               [] k.kind = "repeat" -> {List([i \in 1..Long |-> Head(k.list)], "more")}
               [] k.kind = "unfold" -> {Called(List([i \in 1..(UnfoldTo - 1) |-> <<i>>], "end"))}
               [] k.kind = "reading" -> Read(k.list)
               [] k.kind = "map" -> Each(LAMBDA L : Mapped(Called(L), Fn))
               [] k.kind = "filter" ->
                    Each(LAMBDA L : List(SelectSeq(Called(L).vals, Pred), Called(L).end))
               [] k.kind = "flat_map" ->
                    Each(LAMBDA L : List(FlattenSeq(Mapped(Called(L), Many).vals), Called(L).end))
               [] k.kind = "take" -> Each(LAMBDA L :
                    IF Len(L.vals) < k.n THEN L ELSE List(SubSeq(L.vals, 1, k.n), "end"))
               [] k.kind = "drop" ->
                    Each(LAMBDA L : List(SubSeq(L.vals, k.n + 1, Len(L.vals)), L.end))
               [] k.kind = "take_while" -> Each(LAMBDA L : Holds(L))
               [] k.kind = "drop_while" -> Each(LAMBDA L :
                    IF Len(Holds(L).vals) = Len(L.vals) \/ Holds(L).end = "fail"
                    THEN List(<<>>, Holds(L).end)
                    ELSE List(SubSeq(L.vals, Len(Holds(L).vals) + 1, Len(L.vals)), L.end))
               [] k.kind = "chunks" -> Each(LAMBDA L : Chunked(L, k.n))
               [] k.kind = "scan" -> Each(LAMBDA L : List(
                    [i \in DOMAIN Called(L).vals |-> FlattenSeq(SubSeq(L.vals, 1, i))], Called(L).end))
               [] k.kind = "dedup" -> Each(LAMBDA L :
                    LET R == Called(L)
                        kept == SelectSeq([i \in DOMAIN R.vals |-> i],
                                          LAMBDA i : i = 1 \/ R.vals[i] # R.vals[i - 1])
                    IN List([i \in DOMAIN kept |-> R.vals[kept[i]]], R.end))
               [] k.kind = "buffered" -> In(1)
               [] k.kind = "merge" -> UNION {Merged(A, B) : A \in In(1), B \in In(2)}
               [] k.kind = "zip" -> {Zipped(A, B) : A \in In(1), B \in In(2)}
               [] k.kind = "concat" -> {IF A.end # "end" THEN A ELSE List(A.vals \o B.vals, B.end)
                                        : A \in In(1), B \in In(2)}
    IN Of[p]

\* How the sink may end: with a value (of one that writes: what it wrote, or an
\* error), by a failure, or not at all.
Value(v) == [how |-> "done", val |-> v]
Fails == [how |-> "fail", val |-> <<>>]
Waits == [how |-> "waits", val |-> <<>>]
Error == [how |-> "error", val |-> <<>>]
EndsWith(L, v) ==
    IF L.end = "end" THEN Value(v) ELSE IF L.end = "fail" THEN Fails ELSE Waits

Outcomes(s, c, n) ==
    LET k == s[Len(s)]
    IN {CASE k.kind = "collect" -> EndsWith(L, L.vals)
          [] k.kind = "fold" -> EndsWith(Called(L), FlattenSeq(L.vals))
          [] k.kind = "count" -> EndsWith(L, <<Len(L.vals)>>)
          [] k.kind = "first" -> IF L.vals # <<>> THEN Value(Head(L.vals)) ELSE EndsWith(L, <<>>)
          [] k.kind = "last" -> EndsWith(L, IF L.vals = <<>> THEN <<>> ELSE Last(L.vals))
          [] k.kind = "writing" ->
                IF \E i \in DOMAIN L.vals : L.vals[i] = ERR THEN Error
                ELSE EndsWith(L, L.vals)
        : L \in Lists(s, k.ins[1], c, n)}
       \cup (IF k.kind = "writing" THEN {Error} ELSE {})
=============================================================================
