-------------------------- MODULE HttpServerProofs --------------------------
(***************************************************************************)
(* Proofs about module HttpServer, for any connections, requests and       *)
(* bounds: what stands on a connection reads as responses in order         *)
(* (WireReads), a request that the handler was called for is answered      *)
(* (CalledAreAnswered), and the server counts what is there                *)
(* (CountsAreExact).                                                       *)
(***************************************************************************)
EXTENDS HttpServer, FiniteSetTheorems, TLAPS

-----------------------------------------------------------------------------
(* The inductive invariant: what holds of the record of a connection.      *)

Fields == {"at", "cancelled", "served", "req", "inBody", "then", "out", "op", "got", "announced",
           "held", "closed", "writesEnded", "wire", "sent", "gone", "deaf", "called"}

TaskPlaces == {"Next", "Reading", "Sending", "Draining", "Calling", "Failed", "Answering",
               "Abandoned", "Ended"}
OpPlaces == {"none", "head", "interim", "body", "done", "writes", "wrote", "failed", "ends",
             "drops"}
Gots == {"End", "Refused", "Answered", "handler"}

\* Where a thread of the pool reads, and where it writes.
Reads == {"head", "interim", "body"}
Writes == {"writes", "wrote", "failed"}

\* Where the handler is called, or has failed.
Calls == {"Calling", "Failed", "Answering"}

\* Where the task and its operation stand, and what is counted.
OpFits(r) ==
    /\ r.at \in TaskPlaces /\ r.op \in OpPlaces
    /\ r.at \in Calls \cup {"Next"} => r.op = "none"
    /\ r.at = "Sending" => r.op \in Writes
    /\ r.at = "Reading" => r.op \in Reads \cup {"done"}
    /\ r.at = "Reading" /\ r.op = "done" => r.got \in Gots
    /\ r.op \in {"ends", "drops"} => r.at \in {"Draining", "Abandoned", "Ended"}
    /\ r.held \in 0..BODIES_MAX
    /\ r.held # 0 => \/ r.op \in {"interim", "body"}
                     \/ r.op = "done" /\ r.at \in {"Reading", "Abandoned"}

\* When nothing more can be written, and that the system did not take
\* everything before.
EndFits(r) ==
    /\ r.cancelled \in BOOLEAN /\ r.closed \in BOOLEAN
    /\ r.writesEnded \in BOOLEAN /\ r.deaf \in BOOLEAN
    /\ r.at = "Ended" => r.closed
    /\ r.closed => r.at = "Ended" \/ r.deaf
    /\ r.writesEnded => r.at \in {"Draining", "Abandoned", "Ended"}
    /\ r.op \in Writes => r.deaf

\* A request that the handler was called for is answered, or will be.
AllAnswered(r) == Answered(r.wire, Len(r.wire))

CallsFit(r) ==
    ~r.deaf => \A i \in r.called : i \in AllAnswered(r) \/ (i = r.req /\ r.at \in Calls)

\* What the system takes on the wire.
Entry == [what : {"100", "answer"}, req : Nat, close : BOOLEAN, whole : BOOLEAN]

\* A response stands behind another.
Follows(d, e) ==
    /\ d.whole /\ ~d.close
    /\ e.req = IF d.what = "100" THEN d.req ELSE d.req + 1
    /\ ~(d.what = "100" /\ e.what = "100")

\* The answer to request n may follow ...
Ready(w, n) ==
    /\ Answered(w, Len(w)) = 1..(n - 1)
    /\ w # <<>> => /\ w[Len(w)].whole /\ ~w[Len(w)].close
                   /\ w[Len(w)].req = IF w[Len(w)].what = "100" THEN n ELSE n - 1

\* ... and the interim response before it.
Clean(w, n) == Ready(w, n) /\ (w # <<>> => w[Len(w)].what = "answer")

\* A part of the answer to request n stands there.
Begun(w, n) == w # <<>> /\ Ready(SubSeq(w, 1, Len(w) - 1), n)

\* The responses are in order, but for the exception of WireReads.
Ordered(w, exempt) ==
    /\ \A k \in DOMAIN w : w[k].what = "answer" => Answered(w, k - 1) = 1..(w[k].req - 1)
    /\ \A k \in 2..Len(w) : Follows(w[k - 1], w[k]) \/ (exempt /\ w[k].what = "100")

Exempt(r) == r.cancelled /\ r.at \in {"Abandoned", "Ended"}

\* The response that is sent.
OutFits(r) ==
    /\ r.out \in Entry \X {"part", "nothing"}
    /\ r.out[1].what = "answer" /\ r.out[1].req = r.req /\ r.out[1].whole
    /\ r.then \in {"Next", "Close", "Drain"}
    /\ r.then = "Next" => ~r.out[1].close

\* What stands on a connection that is open.
LineFits(r) ==
    /\ r.at = "Next" => Clean(r.wire, r.req)
    /\ r.at = "Reading" /\ r.op \in {"head", "interim"} => Clean(r.wire, r.req)
    /\ r.at \in Calls \cup {"Reading"} => Ready(r.wire, r.req)
    /\ r.op = "writes" => IF r.out[2] = "part" THEN Begun(r.wire, r.req)
                                               ELSE Ready(r.wire, r.req)
    /\ r.op = "wrote" /\ r.then = "Next" => Clean(r.wire, r.req + 1)

WireFits(r) ==
    /\ r.wire \in Seq(Entry) /\ r.req \in Nat \ {0}
    /\ Ordered(r.wire, Exempt(r))
    /\ r.at = "Abandoned" /\ r.op \in Reads => r.cancelled
    /\ r.at = "Draining" /\ r.op \in Reads => r.writesEnded
    /\ r.at # "Ended" /\ r.op \in {"writes", "wrote"} => OutFits(r)
    /\ ~r.closed => LineFits(r)

\* There is a request to call the handler for.
AskFits(r, n) ==
    /\ r.at \in Calls => r.req <= n
    /\ r.at = "Reading" /\ r.op = "done" /\ r.got \in {"Answered", "handler"} => r.req <= n

ConnFits(r, n) ==
    /\ DOMAIN r = Fields
    /\ OpFits(r) /\ EndFits(r) /\ CallsFit(r) /\ WireFits(r) /\ AskFits(r, n)

ConnInv ==
    /\ asks \in Programs /\ DOMAIN conn = DOMAIN asks
    /\ \A c \in DOMAIN asks : ConnFits(conn[c], Len(asks[c]))

-----------------------------------------------------------------------------
(* What stands on a wire.                                                  *)

\* What a wire that goes on answers.
LEMMA AnsweredOfAppend ==
  ASSUME NEW w \in Seq(Entry), NEW e \in Entry
  PROVE  /\ \A k \in 0..Len(w) : Answered(Append(w, e), k) = Answered(w, k)
         /\ Answered(Append(w, e), Len(Append(w, e))) =
              IF e.what = "answer" THEN Answered(w, Len(w)) \cup {e.req} ELSE Answered(w, Len(w))
<1> DEFINE v == Append(w, e)
<1>1. /\ Len(v) = Len(w) + 1 /\ Len(w) \in Nat
      /\ \A i \in 1..Len(w) : v[i] = w[i]
      /\ v[Len(w) + 1] = e
  OBVIOUS
<1> HIDE DEF v
<1>2. \A k \in 0..Len(w) : Answered(v, k) = Answered(w, k)
  <2>1. ASSUME NEW k \in 0..Len(w)
        PROVE  {i \in 1..k : v[i].what = "answer"} = {i \in 1..k : w[i].what = "answer"}
    BY <1>1
  <2>2. ASSUME NEW k \in 0..Len(w)
        PROVE  Answered(v, k) = {w[j].req : j \in {i \in 1..k : v[i].what = "answer"}}
    BY <1>1 DEF Answered
  <2> QED
    BY <2>1, <2>2, Zenon DEF Answered
<1>3. CASE e.what = "answer"
  <2>1. {i \in 1..Len(v) : v[i].what = "answer"} =
          {i \in 1..Len(w) : v[i].what = "answer"} \cup {Len(w) + 1}
    BY <1>1, <1>3
  <2>2. Answered(v, Len(v)) = Answered(v, Len(w)) \cup {e.req}
    BY <2>1, <1>1 DEF Answered
  <2> QED
    BY <2>2, <1>1, <1>2, <1>3 DEF v
<1>4. CASE e.what # "answer"
  <2>1. {i \in 1..Len(v) : v[i].what = "answer"} = {i \in 1..Len(w) : v[i].what = "answer"}
    BY <1>1, <1>4
  <2>2. Answered(v, Len(v)) = Answered(v, Len(w))
    BY <2>1 DEF Answered
  <2> QED
    BY <2>2, <1>1, <1>2, <1>4 DEF v
<1> QED
  BY <1>2, <1>3, <1>4 DEF v

\* A response that may follow keeps the order.
LEMMA OrderedAppend ==
  ASSUME NEW w \in Seq(Entry), NEW e \in Entry, NEW x \in BOOLEAN, Ordered(w, x),
         e.what = "answer" => Answered(w, Len(w)) = 1..(e.req - 1),
         w # <<>> => Follows(w[Len(w)], e) \/ (x /\ e.what = "100")
  PROVE  Append(w, e) \in Seq(Entry) /\ Ordered(Append(w, e), x)
<1> DEFINE v == Append(w, e)
<1>1. /\ Len(v) = Len(w) + 1 /\ Len(w) \in Nat /\ v \in Seq(Entry)
      /\ \A i \in 1..Len(w) : v[i] = w[i]
      /\ v[Len(w) + 1] = e
      /\ DOMAIN v = 1..(Len(w) + 1) /\ DOMAIN w = 1..Len(w)
      /\ Len(w) # 0 => w # <<>>
  OBVIOUS
<1>2. \A k \in 0..Len(w) : Answered(v, k) = Answered(w, k)
  BY AnsweredOfAppend, Zenon
<1> HIDE DEF v
<1>3. ASSUME NEW k \in DOMAIN v, v[k].what = "answer"
      PROVE  Answered(v, k - 1) = 1..(v[k].req - 1)
  <2>1. CASE k \in 1..Len(w)
    <3>1. Answered(w, k - 1) = 1..(w[k].req - 1)
      BY <1>1, <1>3, <2>1 DEF Ordered
    <3> QED
      BY <3>1, <1>1, <1>2, <2>1
  <2>2. CASE k = Len(w) + 1
    <3>1. Answered(v, Len(w)) = Answered(w, Len(w))
      BY <1>1, <1>2
    <3> QED
      BY <3>1, <1>1, <1>3, <2>2
  <2> QED
    BY <2>1, <2>2, <1>1
<1>4. ASSUME NEW k \in 2..Len(v)
      PROVE  Follows(v[k - 1], v[k]) \/ (x /\ v[k].what = "100")
  <2>1. CASE k \in 2..Len(w)
    <3>1. v[k] = w[k] /\ v[k - 1] = w[k - 1]
      BY <1>1, <2>1
    <3> QED
      BY <3>1, <2>1 DEF Ordered
  <2>2. CASE k = Len(w) + 1
    BY <1>1, <2>2
  <2> QED
    BY <2>1, <2>2, <1>1
<1> QED
  BY <1>1, <1>3, <1>4 DEF Ordered, v

\* The responses before the last one.
LEMMA OrderedFront ==
  ASSUME NEW w \in Seq(Entry), w # <<>>, NEW x \in BOOLEAN, Ordered(w, x)
  PROVE  SubSeq(w, 1, Len(w) - 1) \in Seq(Entry) /\ Ordered(SubSeq(w, 1, Len(w) - 1), x)
<1> DEFINE v == SubSeq(w, 1, Len(w) - 1)
<1>0. Len(w) \in Nat /\ Len(w) # 0 /\ DOMAIN w = 1..Len(w)
  OBVIOUS
<1>1. /\ v \in Seq(Entry) /\ Len(v) = Len(w) - 1 /\ DOMAIN v = 1..Len(v)
      /\ \A i \in 1..Len(v) : v[i] = w[i]
  BY <1>0
<1> HIDE DEF v
<1>2. ASSUME NEW k \in 0..Len(v)
      PROVE  Answered(v, k) = Answered(w, k)
  <2>1. {i \in 1..k : v[i].what = "answer"} = {i \in 1..k : w[i].what = "answer"}
    BY <1>0, <1>1
  <2>2. Answered(v, k) = {w[j].req : j \in {i \in 1..k : v[i].what = "answer"}}
    BY <1>0, <1>1 DEF Answered
  <2> QED
    BY <2>1, <2>2, Zenon DEF Answered
<1>3. ASSUME NEW k \in DOMAIN v, v[k].what = "answer"
      PROVE  Answered(v, k - 1) = 1..(v[k].req - 1)
  <2>1. Answered(w, k - 1) = 1..(w[k].req - 1)
    BY <1>0, <1>1, <1>3 DEF Ordered
  <2>2. Answered(v, k - 1) = Answered(w, k - 1)
    BY <1>0, <1>1, <1>2
  <2> QED
    BY <2>1, <2>2, <1>1
<1>4. ASSUME NEW k \in 2..Len(v)
      PROVE  Follows(v[k - 1], v[k]) \/ (x /\ v[k].what = "100")
  <2>1. v[k] = w[k] /\ v[k - 1] = w[k - 1] /\ k \in 2..Len(w)
    BY <1>0, <1>1
  <2> QED
    BY <2>1 DEF Ordered
<1> QED
  BY <1>0, <1>1, <1>3, <1>4 DEF Ordered, v

\* The exception may be granted at any time.
LEMMA OrderedWeaker ==
  ASSUME NEW w, NEW x \in BOOLEAN, NEW y \in BOOLEAN, Ordered(w, x), x => y
  PROVE  Ordered(w, y)
BY DEF Ordered

\* The answer to request n, or a part of it, follows what is ready for it.
LEMMA AnswerFollows ==
  ASSUME NEW w \in Seq(Entry), NEW n \in Nat \ {0}, NEW x \in BOOLEAN, Ordered(w, x),
         Ready(w, n), NEW e \in Entry, e.what = "answer", e.req = n
  PROVE  /\ Append(w, e) \in Seq(Entry) /\ Ordered(Append(w, e), x)
         /\ Append(w, e) # <<>>
         /\ SubSeq(Append(w, e), 1, Len(Append(w, e)) - 1) = w
         /\ Answered(Append(w, e), Len(Append(w, e))) = 1..n
         /\ e.whole /\ ~e.close => Clean(Append(w, e), n + 1)
<1>1. w # <<>> => Follows(w[Len(w)], e)
  BY DEF Ready, Follows, Entry
<1>2. Append(w, e) \in Seq(Entry) /\ Ordered(Append(w, e), x)
  BY <1>1, OrderedAppend DEF Ready
<1>3. /\ Append(w, e) # <<>>
      /\ Append(w, e)[Len(Append(w, e))] = e
      /\ SubSeq(Append(w, e), 1, Len(Append(w, e)) - 1) = w
  OBVIOUS
<1>4. Answered(Append(w, e), Len(Append(w, e))) = (1..(n - 1)) \cup {n}
  BY AnsweredOfAppend, Zenon DEF Ready
<1>5. (1..(n - 1)) \cup {n} = 1..n
  OBVIOUS
<1> QED
  BY <1>2, <1>3, <1>4, <1>5 DEF Clean, Ready

\* The interim response follows a whole answer, or one of a task that is
\* stopped.
LEMMA InterimFollows ==
  ASSUME NEW w \in Seq(Entry), NEW n \in Nat \ {0}, NEW x \in BOOLEAN, Ordered(w, x),
         Clean(w, n) \/ x, NEW e \in Entry, e.what = "100", e.req = n
  PROVE  /\ Append(w, e) \in Seq(Entry) /\ Ordered(Append(w, e), x)
         /\ Answered(Append(w, e), Len(Append(w, e))) = Answered(w, Len(w))
         /\ Clean(w, n) /\ e.whole /\ ~e.close => Ready(Append(w, e), n)
<1>1. w # <<>> /\ Clean(w, n) => Follows(w[Len(w)], e)
  BY DEF Clean, Ready, Follows, Entry
<1>2. Append(w, e) \in Seq(Entry) /\ Ordered(Append(w, e), x)
  BY <1>1, OrderedAppend
<1>3. Append(w, e)[Len(Append(w, e))] = e
  OBVIOUS
<1>4. Answered(Append(w, e), Len(Append(w, e))) = Answered(w, Len(w))
  BY AnsweredOfAppend, Zenon
<1> QED
  BY <1>2, <1>3, <1>4 DEF Clean, Ready

-----------------------------------------------------------------------------
(* What is written, and what a connection comes to.                        *)

\* An answer may be written for a connection: its task is not yet at the end,
\* and what stands there is ready for it.
Speaks(r) ==
    /\ DOMAIN r = Fields /\ r.at \in Calls \cup {"Next", "Reading"} /\ EndFits(r)
    /\ r.wire \in Seq(Entry) /\ r.req \in Nat \ {0} /\ Ordered(r.wire, FALSE)
    /\ ~r.closed => Ready(r.wire, r.req)
    /\ ~r.deaf => \A i \in r.called : i \in AllAnswered(r) \/ i = r.req

\* A connection may be dropped: nothing is counted for it but by a read in
\* flight, and who was called for is answered.
CanEnd(r) ==
    /\ DOMAIN r = Fields /\ r.op \in OpPlaces
    /\ r.held \in 0..BODIES_MAX /\ (r.held # 0 => r.op \in {"interim", "body"})
    /\ r.cancelled \in BOOLEAN /\ r.closed \in BOOLEAN
    /\ r.writesEnded \in BOOLEAN /\ r.deaf \in BOOLEAN
    /\ r.op \in Writes => r.deaf
    /\ r.wire \in Seq(Entry) /\ r.req \in Nat \ {0} /\ Ordered(r.wire, Exempt(r))
    /\ ~r.deaf => r.called \subseteq AllAnswered(r)

\* Written changes what stands there and whether the system was deaf ...
LEMMA WrittenFields ==
  ASSUME NEW r, NEW e, NEW t, DOMAIN r = Fields
  PROVE  LET w == Written(r, e, t)
         IN /\ w.wire = IF t = "nothing" THEN r.wire
                        ELSE Append(r.wire, [e EXCEPT !.whole = (t = "all")])
            /\ w.deaf = (r.deaf \/ (t # "all" /\ ~r.closed /\ ~r.writesEnded))
BY DEF Written, Fields

\* ... and nothing else.
LEMMA WrittenKeeps ==
  ASSUME NEW r, NEW e, NEW t, DOMAIN r = Fields
  PROVE  LET w == Written(r, e, t)
         IN /\ DOMAIN w = Fields
            /\ w.at = r.at /\ w.op = r.op /\ w.got = r.got /\ w.held = r.held
            /\ w.cancelled = r.cancelled /\ w.closed = r.closed
            /\ w.writesEnded = r.writesEnded /\ w.called = r.called /\ w.req = r.req
BY DEF Written, Fields

\* What comes of writing an answer.
LEMMA AnswerWritten ==
  ASSUME NEW c, NEW r, Speaks(r), NEW close \in BOOLEAN, NEW t \in Takes(c, r)
  PROVE  LET w == Written(r, Answer(r, close), t)
         IN /\ t \in {"all", "part", "nothing"}
            /\ w.wire \in Seq(Entry) /\ Ordered(w.wire, FALSE)
            /\ w.deaf \in BOOLEAN /\ (r.deaf => w.deaf) /\ (t # "all" => w.deaf)
            /\ ~w.deaf => w.called \subseteq AllAnswered(w)
            /\ t = "all" => ~r.closed /\ (~close => Clean(w.wire, r.req + 1))
            /\ t = "part" => ~r.closed /\ Begun(w.wire, r.req)
            /\ t = "nothing" => w.wire = r.wire
<1> DEFINE w == Written(r, Answer(r, close), t)
           e == [Answer(r, close) EXCEPT !.whole = (t = "all")]
<1>1. /\ e \in Entry /\ e.what = "answer" /\ e.req = r.req /\ e.close = close
      /\ e.whole = (t = "all")
  BY Zenon DEF Answer, Entry, Speaks
<1>2. /\ w.wire = IF t = "nothing" THEN r.wire ELSE Append(r.wire, e)
      /\ w.deaf = (r.deaf \/ (t # "all" /\ ~r.closed /\ ~r.writesEnded))
      /\ w.called = r.called
  BY WrittenFields, WrittenKeeps DEF Speaks
<1>3. /\ t \in {"all", "part", "nothing"}
      /\ t # "nothing" => ~r.closed
  BY DEF Takes
<1>4. ~r.writesEnded /\ (r.closed => r.deaf) /\ r.deaf \in BOOLEAN /\ r.closed \in BOOLEAN
  BY DEF Speaks, EndFits, Calls
<1>5. w.deaf \in BOOLEAN /\ (r.deaf => w.deaf) /\ (t # "all" => w.deaf)
  BY <1>2, <1>4, Zenon
<1> HIDE DEF w, e
<1>6. CASE t = "nothing"
  BY <1>2, <1>3, <1>5, <1>6, Zenon DEF Speaks, w
<1>7. CASE t # "nothing"
  <2>1. Ready(r.wire, r.req) /\ r.wire \in Seq(Entry) /\ r.req \in Nat \ {0}
    BY <1>3, <1>7 DEF Speaks
  <2>2. /\ w.wire \in Seq(Entry) /\ Ordered(w.wire, FALSE) /\ w.wire # <<>>
        /\ SubSeq(w.wire, 1, Len(w.wire) - 1) = r.wire
        /\ Answered(w.wire, Len(w.wire)) = 1..r.req
        /\ e.whole /\ ~e.close => Clean(w.wire, r.req + 1)
    <3>1. w.wire = Append(r.wire, e)
      BY <1>2, <1>7
    <3>2. Ordered(r.wire, FALSE) /\ FALSE \in BOOLEAN
      BY Zenon DEF Speaks
    <3>3. /\ Append(r.wire, e) \in Seq(Entry) /\ Ordered(Append(r.wire, e), FALSE)
          /\ Append(r.wire, e) # <<>>
          /\ SubSeq(Append(r.wire, e), 1, Len(Append(r.wire, e)) - 1) = r.wire
          /\ Answered(Append(r.wire, e), Len(Append(r.wire, e))) = 1..r.req
          /\ e.whole /\ ~e.close => Clean(Append(r.wire, e), r.req + 1)
      BY <3>2, <2>1, <1>1, AnswerFollows, Zenon
    <3> QED
      BY <3>1, <3>3, Zenon
  <2>3. AllAnswered(r) = 1..(r.req - 1)
    BY <2>1 DEF Ready, AllAnswered
  <2>4. ~w.deaf => w.called \subseteq AllAnswered(w)
    <3>1. ASSUME ~w.deaf, NEW i \in r.called
          PROVE  i \in 1..r.req
      <4>1. ~r.deaf
        BY <3>1, <1>5
      <4>2. i \in AllAnswered(r) \/ i = r.req
        BY <4>1 DEF Speaks
      <4> QED
        BY <4>2, <2>3, <2>1
    <3> QED
      BY <3>1, <2>2, <1>2 DEF AllAnswered
  <2>5. t = "part" => Begun(w.wire, r.req)
    BY <2>1, <2>2, Zenon DEF Begun
  <2> QED
    BY <2>2, <2>4, <2>5, <1>1, <1>3, <1>5, <1>7, Zenon DEF w
<1> QED
  BY <1>6, <1>7, Zenon

\* What Drop for Conn leaves.
LEMMA DroppedFits ==
  ASSUME NEW r, CanEnd(r), NEW n
  PROVE  /\ ConnFits(Dropped(r), n)
         /\ Dropped(r).held = r.held /\ Dropped(r).at = "Ended"
<1> DEFINE d == Dropped(r)
<1>1. /\ DOMAIN d = Fields
      /\ d.at = "Ended" /\ d.closed = TRUE /\ d.op = r.op /\ d.held = r.held
      /\ d.cancelled = r.cancelled /\ d.writesEnded = r.writesEnded /\ d.deaf = r.deaf
      /\ d.called = r.called /\ d.req = r.req /\ d.wire = r.wire
  BY DEF Dropped, Fields, CanEnd
<1> HIDE DEF d
<1>2. Ordered(d.wire, Exempt(d))
  <2>1. Exempt(r) \in BOOLEAN /\ Exempt(d) \in BOOLEAN /\ (Exempt(r) => Exempt(d))
    BY <1>1 DEF Exempt, CanEnd
  <2> QED
    BY <2>1, <1>1, OrderedWeaker DEF CanEnd
<1>3. OpFits(d)
  BY <1>1 DEF OpFits, CanEnd, TaskPlaces, Calls
<1>4. EndFits(d)
  BY <1>1, Zenon DEF EndFits, CanEnd
<1>5. CallsFit(d)
  BY <1>1 DEF CallsFit, CanEnd, AllAnswered
<1>6. WireFits(d) /\ AskFits(d, n)
  BY <1>1, <1>2 DEF WireFits, AskFits, CanEnd, Calls
<1> QED
  BY <1>1, <1>3, <1>4, <1>5, <1>6 DEF ConnFits, d

\* A response has been taken as a whole, or was given up.
IsSent(r, then) ==
    /\ DOMAIN r = Fields /\ r.op = "none" /\ r.held = 0 /\ ~r.writesEnded
    /\ r.cancelled \in BOOLEAN /\ r.closed \in BOOLEAN
    /\ r.writesEnded \in BOOLEAN /\ r.deaf \in BOOLEAN
    /\ r.closed => r.deaf
    /\ r.wire \in Seq(Entry) /\ r.req \in Nat \ {0} /\ Ordered(r.wire, FALSE)
    /\ ~r.deaf => r.called \subseteq AllAnswered(r)
    /\ then = "Next" /\ ~r.closed => Clean(r.wire, r.req + 1)

\* A connection for which all is sent may be dropped.
LEMMA SentCanEnd ==
  ASSUME NEW r, NEW then, IsSent(r, then)
  PROVE  CanEnd(r)
<1>1. Exempt(r) \in BOOLEAN
  BY DEF Exempt
<1>2. Ordered(r.wire, Exempt(r))
  BY <1>1, OrderedWeaker, Zenon DEF IsSent
<1> QED
  BY <1>2, Bounds DEF CanEnd, IsSent, OpPlaces, Writes

\* What Conn::sent comes to.
LEMMA SentFits ==
  ASSUME NEW r, NEW then \in {"Next", "Close", "Drain"}, IsSent(r, then), NEW n
  PROVE  LET s == Sent(r, then)
         IN ConnFits(s, n) /\ s.held = 0 /\ s.at # "Calling"
<1> DEFINE s == Sent(r, then)
<1>1. CASE then = "Close"
  BY <1>1, SentCanEnd, DroppedFits, Zenon DEF Sent, IsSent
<1>2. CASE then \in {"Next", "Drain"}
  <2>1. /\ DOMAIN s = Fields
        /\ s.at = (IF then = "Next" THEN "Next" ELSE "Draining")
        /\ s.op = (IF then = "Next" THEN "none" ELSE "ends")
        /\ s.req = (IF then = "Next" THEN r.req + 1 ELSE r.req)
        /\ s.held = 0 /\ s.cancelled = r.cancelled /\ s.closed = r.closed
        /\ s.writesEnded = r.writesEnded /\ s.deaf = r.deaf
        /\ s.called = r.called /\ s.wire = r.wire
    BY <1>2 DEF Sent, Fields, IsSent
  <2> HIDE DEF s
  <2>2. OpFits(s)
    BY <2>1, <1>2, Bounds DEF OpFits, IsSent, TaskPlaces, OpPlaces, Calls
  <2>3. EndFits(s)
    BY <2>1, <1>2 DEF EndFits, IsSent, Writes
  <2>4. CallsFit(s)
    BY <2>1 DEF CallsFit, IsSent, AllAnswered
  <2>5. WireFits(s)
    <3>1. Ordered(s.wire, Exempt(s))
      <4>1. Exempt(s) = FALSE
        BY <2>1, <1>2 DEF Exempt
      <4> QED
        BY <4>1, <2>1, Zenon DEF IsSent
    <3>2. ~s.closed => LineFits(s)
      BY <2>1, <1>2 DEF LineFits, IsSent, Calls
    <3> QED
      BY <3>1, <3>2, <2>1, <1>2 DEF WireFits, IsSent, Reads
  <2>6. AskFits(s, n)
    BY <2>1, <1>2 DEF AskFits, Calls
  <2> QED
    BY <2>1, <2>2, <2>3, <2>4, <2>5, <2>6, <1>2 DEF ConnFits, s
<1> QED
  BY <1>1, <1>2

\* What Conn::send comes to: all is taken, or the task waits for the rest, or
\* it is stopped.
LEMMA SendFits ==
  ASSUME NEW c, NEW r, Speaks(r), r.op = "none", r.held = 0, NEW close \in BOOLEAN,
         NEW then \in {"Next", "Close", "Drain"}, then = "Next" => ~close, NEW n,
         NEW s \in Send(c, r, Answer(r, close), then)
  PROVE  ConnFits(s, n) /\ s.held = 0 /\ s.at # "Calling"
<1> DEFINE e == Answer(r, close)
<1>0. DOMAIN r = Fields
  BY DEF Speaks
<1>1. PICK t \in Takes(c, r) :
        s = IF t = "all" THEN Sent(Written(r, e, t), then)
            ELSE IF r.cancelled THEN Dropped(Written(r, e, t))
            ELSE [Written(r, e, t) EXCEPT !.at = "Sending", !.op = "writes",
                                          !.then = then, !.out = <<e, t>>]
  BY Zenon DEF Send
<1> DEFINE v == Written(r, Answer(r, close), t)
<1>2. /\ DOMAIN v = Fields
      /\ v.at = r.at /\ v.op = r.op /\ v.held = r.held
      /\ v.cancelled = r.cancelled /\ v.closed = r.closed
      /\ v.writesEnded = r.writesEnded /\ v.called = r.called /\ v.req = r.req
  BY <1>0, WrittenKeeps
<1>3. /\ t \in {"all", "part", "nothing"}
      /\ v.wire \in Seq(Entry) /\ Ordered(v.wire, FALSE)
      /\ v.deaf \in BOOLEAN /\ (r.deaf => v.deaf) /\ (t # "all" => v.deaf)
      /\ ~v.deaf => v.called \subseteq AllAnswered(v)
      /\ t = "all" => ~r.closed /\ (~close => Clean(v.wire, r.req + 1))
      /\ t = "part" => ~r.closed /\ Begun(v.wire, r.req)
      /\ t = "nothing" => v.wire = r.wire
  <2>1. t \in Takes(c, r)
    BY <1>1
  <2>2. /\ t \in {"all", "part", "nothing"}
        /\ v.wire \in Seq(Entry) /\ Ordered(v.wire, FALSE)
        /\ v.deaf \in BOOLEAN /\ (r.deaf => v.deaf) /\ (t # "all" => v.deaf)
        /\ ~v.deaf => v.called \subseteq AllAnswered(v)
    BY <2>1, AnswerWritten, Zenon
  <2>3. t = "all" => ~r.closed /\ (~close => Clean(v.wire, r.req + 1))
    BY <2>1, AnswerWritten, Zenon
  <2>4. t = "part" => ~r.closed /\ Begun(v.wire, r.req)
    BY <2>1, AnswerWritten, Zenon
  <2>5. t = "nothing" => v.wire = r.wire
    BY <1>0 DEF Written, Fields
  <2> QED
    BY <2>2, <2>3, <2>4, <2>5, Zenon
<1>4. /\ ~r.writesEnded /\ (r.closed => r.deaf) /\ r.cancelled \in BOOLEAN
      /\ r.closed \in BOOLEAN /\ r.writesEnded \in BOOLEAN
      /\ r.req \in Nat \ {0} /\ (~r.closed => Ready(r.wire, r.req))
  BY DEF Speaks, EndFits, Calls
<1>5. e \in Entry /\ e.what = "answer" /\ e.req = r.req /\ e.whole /\ e.close = close
  BY <1>4 DEF Answer, Entry
<1>6. s = IF t = "all" THEN Sent(v, then)
          ELSE IF r.cancelled THEN Dropped(v)
          ELSE [v EXCEPT !.at = "Sending", !.op = "writes", !.then = then, !.out = <<e, t>>]
  BY <1>1
<1> HIDE DEF v, e
<1>7. CASE t = "all"
  <2>1. IsSent(v, then)
    BY <1>2, <1>3, <1>4, <1>7, Zenon DEF IsSent
  <2> QED
    BY <2>1, <1>6, <1>7, SentFits
<1>8. CASE t # "all" /\ r.cancelled
  <2>1. IsSent(v, "Close")
    BY <1>2, <1>3, <1>4, Zenon DEF IsSent
  <2> QED
    BY <2>1, <1>2, <1>6, <1>8, SentCanEnd, DroppedFits
<1>9. CASE t # "all" /\ ~r.cancelled
  <2>1. /\ DOMAIN s = Fields /\ s.at = "Sending" /\ s.op = "writes" /\ s.then = then
        /\ s.out = <<e, t>> /\ s.held = 0 /\ s.cancelled = r.cancelled /\ s.closed = r.closed
        /\ s.writesEnded = r.writesEnded /\ s.deaf = v.deaf /\ s.called = r.called
        /\ s.req = r.req /\ s.wire = v.wire
    BY <1>2, <1>6, <1>9 DEF Fields
  <2>2. OpFits(s)
    BY <2>1, Bounds DEF OpFits, TaskPlaces, OpPlaces, Calls, Writes
  <2>3. EndFits(s)
    BY <2>1, <1>3, <1>4, <1>9 DEF EndFits
  <2>4. CallsFit(s)
    BY <2>1, <1>3, <1>9 DEF CallsFit
  <2>5. OutFits(s)
    <3>1. s.out \in Entry \X {"part", "nothing"} /\ s.out[1] = e
      BY <2>1, <1>3, <1>5, <1>9
    <3> QED
      BY <3>1, <2>1, <1>5 DEF OutFits
  <2>6. WireFits(s)
    <3>1. Ordered(s.wire, Exempt(s))
      <4>1. Exempt(s) = FALSE
        BY <2>1 DEF Exempt
      <4> QED
        BY <4>1, <2>1, <1>3, Zenon
    <3>2. ~s.closed => LineFits(s)
      BY <2>1, <1>3, <1>4, <1>9 DEF LineFits, Calls
    <3> QED
      BY <3>1, <3>2, <2>1, <2>5, <1>3, <1>4 DEF WireFits
  <2>7. AskFits(s, n)
    BY <2>1 DEF AskFits, Calls
  <2> QED
    BY <2>1, <2>2, <2>3, <2>4, <2>6, <2>7 DEF ConnFits
<1> QED
  BY <1>7, <1>8, <1>9, <1>4

\* The word of Conn::abandon: an answer that is not waited for.
LEMMA AbandonedFits ==
  ASSUME NEW c, NEW r, Speaks(r), OpFits(r), r.at # "Next", r.op \in Reads => r.cancelled,
         NEW close \in BOOLEAN, NEW t \in Takes(c, r), NEW n
  PROVE  LET s == [Written(r, Answer(r, close), t) EXCEPT !.at = "Abandoned"]
         IN ConnFits(s, n) /\ s.held = r.held /\ s.at = "Abandoned"
<1> DEFINE w == Written(r, Answer(r, close), t)
           s == [w EXCEPT !.at = "Abandoned"]
<1>0. DOMAIN r = Fields
  BY DEF Speaks
<1>1. /\ DOMAIN w = Fields
      /\ w.at = r.at /\ w.op = r.op /\ w.held = r.held
      /\ w.cancelled = r.cancelled /\ w.closed = r.closed
      /\ w.writesEnded = r.writesEnded /\ w.called = r.called /\ w.req = r.req
  BY <1>0, WrittenKeeps
<1>2. /\ w.wire \in Seq(Entry) /\ Ordered(w.wire, FALSE)
      /\ w.deaf \in BOOLEAN /\ (r.deaf => w.deaf)
      /\ ~w.deaf => w.called \subseteq AllAnswered(w)
  BY AnswerWritten, Zenon
<1> HIDE DEF w
<1>3. /\ DOMAIN s = Fields
      /\ s.at = "Abandoned" /\ s.op = r.op /\ s.held = r.held
      /\ s.cancelled = r.cancelled /\ s.closed = r.closed
      /\ s.writesEnded = r.writesEnded /\ s.called = r.called /\ s.req = r.req
      /\ s.wire = w.wire /\ s.deaf = w.deaf
  BY <1>1 DEF Fields
<1> HIDE DEF s
<1>4. r.op \in Reads \cup {"done", "none"} /\ EndFits(r) /\ r.at \in Calls \cup {"Reading"}
  BY DEF Speaks, OpFits
<1>5. OpFits(s)
  BY <1>3, <1>4 DEF OpFits, Reads, Calls, TaskPlaces
<1>6. EndFits(s)
  BY <1>2, <1>3, <1>4 DEF EndFits, Reads, Calls, Writes
<1>7. CallsFit(s)
  BY <1>2, <1>3, <1>1 DEF CallsFit, AllAnswered
<1>8. WireFits(s)
  <2>1. Ordered(s.wire, Exempt(s))
    <3>1. Exempt(s) \in BOOLEAN
      BY <1>3, <1>4 DEF Exempt, EndFits
    <3> QED
      BY <3>1, <1>2, <1>3, OrderedWeaker, Zenon
  <2>2. LineFits(s)
    BY <1>3, <1>4 DEF LineFits, Calls, Reads
  <2> QED
    BY <2>1, <2>2, <1>2, <1>3, <1>4 DEF WireFits, Speaks, Reads
<1>9. AskFits(s, n)
  BY <1>3 DEF AskFits, Calls
<1> QED
  BY <1>3, <1>5, <1>6, <1>7, <1>8, <1>9 DEF ConnFits, s, w

\* The last word that ends the writes (write_last_in_turn), with a read in
\* flight or none.
LEMMA LastWordFits ==
  ASSUME NEW c, NEW r, Speaks(r), r.op \in Reads \cup {"done"}, r.held \in 0..BODIES_MAX,
         r.held # 0 => r.op \in {"interim", "body"}, NEW t \in Takes(c, r), NEW n
  PROVE  LET s == LastWord([Written(r, Answer(r, TRUE), t) EXCEPT !.at = "Draining"])
         IN ConnFits(s, n) /\ s.held = r.held /\ s.at = "Draining"
<1> DEFINE e == Answer(r, TRUE)
           w == Written(r, e, t)
           s == LastWord([w EXCEPT !.at = "Draining"])
<1>0. DOMAIN r = Fields
  BY DEF Speaks
<1> HIDE DEF e
<1>1. /\ DOMAIN w = Fields
      /\ w.at = r.at /\ w.op = r.op /\ w.held = r.held
      /\ w.cancelled = r.cancelled /\ w.closed = r.closed
      /\ w.called = r.called /\ w.req = r.req
  BY <1>0, WrittenKeeps
<1>2. /\ w.wire \in Seq(Entry) /\ Ordered(w.wire, FALSE)
      /\ w.deaf \in BOOLEAN /\ (r.deaf => w.deaf)
      /\ ~w.deaf => w.called \subseteq AllAnswered(w)
  BY AnswerWritten, Zenon DEF e
<1> HIDE DEF w
<1>3. /\ DOMAIN s = Fields
      /\ s.at = "Draining" /\ s.op = r.op /\ s.held = r.held
      /\ s.cancelled = r.cancelled /\ s.closed = r.closed
      /\ s.writesEnded = TRUE /\ s.called = r.called /\ s.req = r.req
      /\ s.wire = w.wire /\ s.deaf = w.deaf
  BY <1>1 DEF Fields, LastWord
<1> HIDE DEF s
<1>4. r.op \in Reads \cup {"done"} /\ EndFits(r) /\ r.at # "Ended"
  BY DEF Speaks, Calls
<1>5. OpFits(s)
  BY <1>3, <1>4 DEF OpFits, Reads, Calls, TaskPlaces, OpPlaces
<1>6. EndFits(s)
  BY <1>2, <1>3, <1>4, Zenon DEF EndFits, Reads, Writes
<1>7. CallsFit(s)
  BY <1>2, <1>3, <1>1 DEF CallsFit, AllAnswered
<1>8. WireFits(s)
  <2>1. Ordered(s.wire, Exempt(s))
    <3>1. Exempt(s) = FALSE
      BY <1>3 DEF Exempt
    <3> QED
      BY <3>1, <1>2, <1>3, Zenon
  <2>2. LineFits(s)
    BY <1>3, <1>4 DEF LineFits, Calls, Reads
  <2> QED
    BY <2>1, <2>2, <1>2, <1>3, <1>4 DEF WireFits, Speaks, Reads
<1>9. AskFits(s, n)
  BY <1>3 DEF AskFits, Calls
<1> QED
  BY <1>3, <1>5, <1>6, <1>7, <1>8, <1>9 DEF ConnFits, s, w, e

\* The end of a read.
Finished(r, got) ==
    [r EXCEPT !.op = "done",
              !.held = IF got = "handler" /\ r.at \in {"Reading", "Abandoned"} THEN r.held ELSE 0,
              !.got = IF r.at \in {"Reading", "Abandoned"} THEN got ELSE "none"]

\* A read that ends leaves what was counted for a body to the task that waits
\* for it, or to nobody.
LEMMA FinishedFits ==
  ASSUME NEW r, NEW n, ConnFits(r, n), r.op \in Reads, NEW got \in Gots,
         r.at = "Reading" /\ got \in {"Answered", "handler"} => r.req <= n
  PROVE  LET s == Finished(r, got)
         IN /\ ConnFits(s, n) /\ s.at = r.at
            /\ s.held \in {0, r.held}
<1> DEFINE s == Finished(r, got)
<1>1. /\ DOMAIN s = Fields
      /\ s.at = r.at /\ s.op = "done"
      /\ s.held = IF got = "handler" /\ r.at \in {"Reading", "Abandoned"} THEN r.held ELSE 0
      /\ s.got = IF r.at \in {"Reading", "Abandoned"} THEN got ELSE "none"
      /\ s.cancelled = r.cancelled /\ s.closed = r.closed
      /\ s.writesEnded = r.writesEnded /\ s.called = r.called /\ s.req = r.req
      /\ s.wire = r.wire /\ s.deaf = r.deaf
  BY DEF Finished, Fields, ConnFits
<1> HIDE DEF s
<1>2. OpFits(r) /\ EndFits(r) /\ CallsFit(r) /\ WireFits(r)
  BY DEF ConnFits
<1>3. OpFits(s)
  BY <1>1, <1>2, Bounds DEF OpFits, Reads, Writes, OpPlaces
<1>4. EndFits(s)
  BY <1>1, <1>2 DEF EndFits, Writes
<1>5. CallsFit(s)
  BY <1>1, <1>2 DEF CallsFit, AllAnswered
<1>6. WireFits(s)
  <2>1. Exempt(s) = Exempt(r)
    BY <1>1 DEF Exempt
  <2>2. ~s.closed => LineFits(s)
    BY <1>1, <1>2 DEF LineFits, WireFits, OpFits, Calls, Reads
  <2> QED
    BY <2>1, <2>2, <1>1, <1>2 DEF WireFits, Reads
<1>7. AskFits(s, n)
  BY <1>1, <1>2 DEF AskFits, OpFits, Calls, Reads
<1> QED
  BY <1>1, <1>3, <1>4, <1>5, <1>6, <1>7 DEF ConnFits, s

-----------------------------------------------------------------------------
(* Counting.                                                               *)

One(b) == IF b THEN 1 ELSE 0

Counts ==
    /\ handlers = Cardinality({c \in DOMAIN conn : conn[c].at = "Calling"})
    /\ handlers <= HANDLERS_MAX
    /\ bodies = Cardinality(BodyBytes)
    /\ bodies <= BODIES_MAX

\* The inductive invariant.
HttpInv == ConnInv /\ Counts

\* A connection goes on as record r, and what is counted for it with it.
Goes(c, r) ==
    /\ asks' = asks /\ conn' = [conn EXCEPT ![c] = r]
    /\ ConnFits(r, Len(asks[c]))
    /\ handlers' = handlers + One(r.at = "Calling") - One(conn[c].at = "Calling")
    /\ bodies' = bodies + r.held - conn[c].held
    /\ conn[c].at # "Calling" /\ r.at = "Calling" => handlers' <= HANDLERS_MAX
    /\ r.held > conn[c].held => bodies' <= BODIES_MAX

\* There are finitely many connections.
LEMMA FiniteConns ==
  ASSUME ConnInv
  PROVE  IsFiniteSet(DOMAIN conn) /\ IsFiniteSet(BodyBytes)
<1>1. IsFiniteSet(DOMAIN conn)
  BY Requests DEF ConnInv
<1>2. IsFiniteSet(1..BODIES_MAX)
  BY FS_Interval, Bounds
<1>3. IsFiniteSet((DOMAIN conn) \X (1..BODIES_MAX))
  BY <1>1, <1>2, FS_Product, Zenon
<1>4. BodyBytes \in SUBSET ((DOMAIN conn) \X (1..BODIES_MAX))
  BY DEF BodyBytes
<1> QED
  BY <1>1, <1>3, <1>4, FS_Subset

\* The handlers that are called are counted.
LEMMA HandlersCounted ==
  ASSUME HttpInv, NEW c \in DOMAIN conn, NEW r, Goes(c, r)
  PROVE  /\ handlers' = Cardinality({d \in DOMAIN conn' : conn'[d].at = "Calling"})
         /\ handlers' <= HANDLERS_MAX
<1> DEFINE H == {d \in DOMAIN conn : conn[d].at = "Calling"}
           G == {d \in DOMAIN conn' : conn'[d].at = "Calling"}
<1>1. IsFiniteSet(H)
  <2>1. H \in SUBSET (DOMAIN conn)
    OBVIOUS
  <2> QED
    BY <2>1, FiniteConns, FS_Subset DEF HttpInv
<1>2. handlers = Cardinality(H) /\ handlers \in Nat
  BY <1>1, FS_CardinalityType DEF HttpInv, Counts
<1>3. DOMAIN conn' = DOMAIN conn /\ conn'[c] = r /\ \A d \in DOMAIN conn \ {c} : conn'[d] = conn[d]
  BY DEF Goes
<1>4. c \in H <=> conn[c].at = "Calling"
  OBVIOUS
<1>5. CASE r.at = "Calling"
  <2>1. G = H \cup {c}
    BY <1>3, <1>5
  <2>2. Cardinality(G) = IF c \in H THEN Cardinality(H) ELSE Cardinality(H) + 1
    BY <2>1, <1>1, FS_AddElement, Zenon
  <2> HIDE DEF G, H
  <2> QED
    BY <2>2, <1>2, <1>4, <1>5, Bounds DEF Goes, One, HttpInv, Counts, G
<1>6. CASE r.at # "Calling"
  <2>1. G = H \ {c}
    BY <1>3, <1>6
  <2>2. Cardinality(G) = IF c \in H THEN Cardinality(H) - 1 ELSE Cardinality(H)
    BY <2>1, <1>1, FS_RemoveElement
  <2> HIDE DEF G, H
  <2> QED
    BY <2>2, <1>2, <1>4, <1>6, Bounds DEF Goes, One, HttpInv, Counts, G
<1> QED
  BY <1>5, <1>6

\* The bytes that one connection holds, besides the others.
LEMMA BytesOfOne ==
  ASSUME NEW c, NEW h \in 0..BODIES_MAX, NEW R, IsFiniteSet(R), \A u \in R : u[1] # c
  PROVE  Cardinality(R \cup ({c} \X (1..h))) = Cardinality(R) + h
<1> DEFINE M == {c} \X (1..h)
<1>1. IsFiniteSet(1..h) /\ Cardinality(1..h) = h
  BY FS_Interval, Bounds
<1>2. IsFiniteSet({c}) /\ Cardinality({c}) = 1
  BY FS_Singleton, Zenon
<1>3. IsFiniteSet(M) /\ Cardinality(M) = Cardinality({c}) * Cardinality(1..h)
  BY <1>1, <1>2, FS_Product, Zenon
<1>4. Cardinality(M) = h
  BY <1>1, <1>2, <1>3
<1>5. R \cap M = {}
  OBVIOUS
<1> HIDE DEF M
<1>6. Cardinality(R \cup M) = Cardinality(R) + Cardinality(M) - Cardinality(R \cap M)
  BY <1>3, FS_Union, Zenon
<1>7. Cardinality(R \cap M) = 0
  BY <1>5, FS_EmptySet
<1>8. Cardinality(R) \in Nat
  BY FS_CardinalityType
<1> QED
  BY <1>4, <1>6, <1>7, <1>8 DEF M

\* The bytes of bodies are counted.
LEMMA BodiesCounted ==
  ASSUME HttpInv, NEW c \in DOMAIN conn, NEW r, Goes(c, r)
  PROVE  bodies' = Cardinality(BodyBytes') /\ bodies' <= BODIES_MAX
<1> DEFINE R == {u \in (DOMAIN conn) \X (1..BODIES_MAX) : u[1] # c /\ u[2] <= conn[u[1]].held}
<1>1. /\ DOMAIN conn' = DOMAIN conn /\ conn'[c] = r
      /\ \A d \in DOMAIN conn \ {c} : conn'[d] = conn[d]
  BY DEF Goes
<1>2. conn[c].held \in 0..BODIES_MAX /\ r.held \in 0..BODIES_MAX
  BY DEF Goes, HttpInv, ConnInv, ConnFits, OpFits
<1>3. BodyBytes = R \cup ({c} \X (1..conn[c].held))
  BY <1>2, Bounds DEF BodyBytes
<1>4. BodyBytes' = R \cup ({c} \X (1..r.held))
  BY <1>1, <1>2, Bounds DEF BodyBytes
<1>5. IsFiniteSet(R)
  <2>1. R \in SUBSET BodyBytes
    BY DEF BodyBytes
  <2> QED
    BY <2>1, FiniteConns, FS_Subset DEF HttpInv
<1>6. \A u \in R : u[1] # c
  OBVIOUS
<1> HIDE DEF R
<1>7. /\ Cardinality(BodyBytes) = Cardinality(R) + conn[c].held
      /\ Cardinality(BodyBytes') = Cardinality(R) + r.held
  BY <1>2, <1>3, <1>4, <1>5, <1>6, BytesOfOne, Zenon
<1>8. Cardinality(R) \in Nat
  BY <1>5, FS_CardinalityType
<1> QED
  BY <1>2, <1>7, <1>8, Bounds DEF Goes, HttpInv, Counts

\* A step of one connection keeps the invariant.
LEMMA GoesKeeps ==
  ASSUME HttpInv, NEW c \in DOMAIN conn, NEW r, Goes(c, r)
  PROVE  HttpInv'
<1>1. /\ asks' = asks /\ DOMAIN conn' = DOMAIN conn /\ conn'[c] = r
      /\ \A d \in DOMAIN conn \ {c} : conn'[d] = conn[d]
      /\ ConnFits(r, Len(asks[c]))
  BY DEF Goes
<1>2. ConnInv'
  BY <1>1 DEF HttpInv, ConnInv
<1>3. Counts'
  BY HandlersCounted, BodiesCounted DEF Counts
<1> QED
  BY <1>2, <1>3 DEF HttpInv

-----------------------------------------------------------------------------
(* The steps of one connection.                                            *)

\* What the invariant says of one connection.
LEMMA Here ==
  ASSUME HttpInv, NEW c \in DOMAIN conn
  PROVE  /\ ConnFits(conn[c], Len(asks[c])) /\ conn[c].held \in Nat
         /\ handlers \in Nat /\ bodies \in Nat /\ Len(asks[c]) \in Nat
         /\ Exists(c) => Req(c) \in Request
<1>1. ConnFits(conn[c], Len(asks[c])) /\ asks[c] \in Seq(Request)
  BY Requests DEF HttpInv, ConnInv
<1>2. conn[c].held \in Nat /\ conn[c].req \in Nat \ {0}
  <2>1. conn[c].held \in 0..BODIES_MAX
    BY <1>1 DEF ConnFits, OpFits
  <2>2. conn[c].req \in Nat \ {0}
    BY <1>1 DEF ConnFits, WireFits
  <2> QED
    BY <2>1, <2>2, Bounds
<1>3. handlers \in Nat
  <2>1. {d \in DOMAIN conn : conn[d].at = "Calling"} \in SUBSET (DOMAIN conn)
    OBVIOUS
  <2>2. IsFiniteSet({d \in DOMAIN conn : conn[d].at = "Calling"})
    BY <2>1, FiniteConns, FS_Subset DEF HttpInv
  <2> QED
    BY <2>2, FS_CardinalityType DEF HttpInv, Counts
<1>4. bodies \in Nat
  BY FiniteConns, FS_CardinalityType DEF HttpInv, Counts
<1>5. Len(asks[c]) \in Nat /\ (Exists(c) => Req(c) \in Request)
  BY <1>1, <1>2 DEF Exists, Req
<1> QED
  BY <1>1, <1>2, <1>3, <1>4, <1>5

\* A step that counts nothing.
LEMMA GoesQuietly ==
  ASSUME HttpInv, NEW c \in DOMAIN conn, NEW r, asks' = asks, conn' = [conn EXCEPT ![c] = r],
         ConnFits(r, Len(asks[c])), r.at = "Calling" <=> conn[c].at = "Calling",
         r.held = conn[c].held, handlers' = handlers, bodies' = bodies
  PROVE  \E s : Goes(c, s)
<1>1. Goes(c, r)
  BY Here DEF Goes, One
<1> QED
  BY <1>1

\* Where a connection may be answered ...
LEMMA SpeaksHere ==
  ASSUME NEW q, NEW n, ConnFits(q, n), q.at \in Calls \cup {"Next", "Reading"}
  PROVE  Speaks(q)
<1>1. Exempt(q) = FALSE
  BY DEF Exempt, Calls
<1>2. Ordered(q.wire, FALSE)
  BY <1>1, Zenon DEF ConnFits, WireFits
<1>3. ~q.closed => Ready(q.wire, q.req)
  BY DEF ConnFits, WireFits, LineFits, Clean
<1> QED
  BY <1>2, <1>3, Zenon DEF Speaks, ConnFits, WireFits, CallsFit

\* ... and where it may be dropped.
LEMMA CanEndHere ==
  ASSUME NEW q, NEW n, ConnFits(q, n), q.at \notin Calls,
         q.held # 0 => q.op \in {"interim", "body"}
  PROVE  CanEnd(q)
BY DEF CanEnd, ConnFits, OpFits, EndFits, WireFits, CallsFit

\* A step that changes nothing of what the invariant is about, or cancels the
\* task.
LEMMA AlikeFits ==
  ASSUME NEW q, NEW n, ConnFits(q, n), NEW s, DOMAIN s = Fields,
         s.at = q.at, s.op = q.op, s.got = q.got, s.held = q.held, s.closed = q.closed,
         s.writesEnded = q.writesEnded, s.deaf = q.deaf, s.called = q.called, s.req = q.req,
         s.wire = q.wire, s.out = q.out, s.then = q.then,
         s.cancelled \in BOOLEAN, q.cancelled => s.cancelled
  PROVE  ConnFits(s, n)
<1>0. OpFits(q) /\ EndFits(q) /\ CallsFit(q) /\ WireFits(q) /\ AskFits(q, n)
  BY DEF ConnFits
<1>1. Ordered(s.wire, Exempt(s))
  <2>1. Exempt(q) \in BOOLEAN /\ Exempt(s) \in BOOLEAN /\ (Exempt(q) => Exempt(s))
    BY DEF Exempt
  <2> QED
    BY <2>1, <1>0, OrderedWeaker DEF WireFits
<1>2. OpFits(s) /\ EndFits(s)
  BY <1>0 DEF OpFits, EndFits
<1>3. CallsFit(s) /\ AskFits(s, n)
  BY <1>0 DEF CallsFit, AskFits, AllAnswered
<1>4. LineFits(q) => LineFits(s)
  BY DEF LineFits
<1>5. OutFits(q) => OutFits(s)
  BY DEF OutFits
<1>6. WireFits(s)
  BY <1>0, <1>1, <1>4, <1>5 DEF WireFits
<1> QED
  BY <1>2, <1>3, <1>6 DEF ConnFits

\* A call that fails, and the task after it.
LEMMA CallGoesOn ==
  ASSUME NEW q, NEW n, ConnFits(q, n), q.at \in Calls, NEW s, DOMAIN s = Fields,
         s.at \in Calls, s.op = q.op, s.held = q.held, s.closed = q.closed,
         s.writesEnded = q.writesEnded, s.deaf = q.deaf, s.called = q.called, s.req = q.req,
         s.wire = q.wire, s.cancelled \in BOOLEAN
  PROVE  ConnFits(s, n)
<1>0. OpFits(q) /\ EndFits(q) /\ CallsFit(q) /\ WireFits(q) /\ AskFits(q, n) /\ q.op = "none"
  BY DEF ConnFits, OpFits
<1>1. Ordered(s.wire, Exempt(s))
  <2>1. Exempt(q) = FALSE /\ Exempt(s) = FALSE
    BY DEF Exempt, Calls
  <2> QED
    BY <2>1, <1>0, Zenon DEF WireFits
<1>2. OpFits(s) /\ EndFits(s)
  BY <1>0 DEF OpFits, EndFits, Calls, TaskPlaces, Writes
<1>3. CallsFit(s) /\ AskFits(s, n)
  BY <1>0 DEF CallsFit, AskFits, AllAnswered, Calls
<1>4. LineFits(q) => LineFits(s)
  BY <1>0 DEF LineFits, Calls
<1>6. WireFits(s)
  BY <1>0, <1>1, <1>4 DEF WireFits, Calls
<1> QED
  BY <1>2, <1>3, <1>6 DEF ConnFits

\* A task that is stopped where nothing is to be answered.
LEMMA StoppedFits ==
  ASSUME NEW q, NEW n, ConnFits(q, n), q.at \in {"Reading", "Sending", "Draining"}, q.cancelled
  PROVE  LET s == [q EXCEPT !.at = "Abandoned"]
         IN ConnFits(s, n) /\ s.held = q.held /\ s.at = "Abandoned"
<1> DEFINE s == [q EXCEPT !.at = "Abandoned"]
<1>1. /\ DOMAIN s = Fields /\ s.at = "Abandoned"
      /\ s.op = q.op /\ s.got = q.got /\ s.held = q.held /\ s.closed = q.closed
      /\ s.writesEnded = q.writesEnded /\ s.deaf = q.deaf /\ s.called = q.called
      /\ s.req = q.req /\ s.wire = q.wire /\ s.out = q.out /\ s.then = q.then
      /\ s.cancelled = q.cancelled
  BY Zenon DEF ConnFits, Fields
<1> HIDE DEF s
<1>0. OpFits(q) /\ EndFits(q) /\ CallsFit(q) /\ WireFits(q)
  BY DEF ConnFits
<1>2. Ordered(s.wire, Exempt(s))
  <2>1. Exempt(q) \in BOOLEAN /\ Exempt(s) \in BOOLEAN /\ (Exempt(q) => Exempt(s))
    BY <1>1 DEF Exempt
  <2> QED
    BY <2>1, <1>0, <1>1, OrderedWeaker DEF WireFits
<1>3. OpFits(s) /\ EndFits(s)
  BY <1>0, <1>1 DEF OpFits, EndFits, Calls, TaskPlaces, Writes, Reads
<1>4. CallsFit(s) /\ AskFits(s, n)
  BY <1>0, <1>1 DEF CallsFit, AskFits, AllAnswered, Calls
<1>5. LineFits(q) => LineFits(s)
  BY <1>1 DEF LineFits, Calls
<1>6. OutFits(q) => OutFits(s)
  BY <1>1 DEF OutFits
<1>7. WireFits(s)
  BY <1>0, <1>1, <1>2, <1>5, <1>6 DEF WireFits
<1> QED
  BY <1>1, <1>3, <1>4, <1>7 DEF ConnFits, s

\* Conn::serve, for a request that is at hand or that a read gave.
LEMMA ServeGoes ==
  ASSUME HttpInv, NEW c \in DOMAIN conn, NEW got \in Gots,
         conn[c].at = "Next" \/ (conn[c].at = "Reading" /\ conn[c].op = "done"),
         got \in {"Answered", "handler"} => Exists(c), Serve(c, got), asks' = asks
  PROVE  \E s : Goes(c, s)
<1> DEFINE n == Len(asks[c])
           q == conn[c]
           r == [q EXCEPT !.served = @ + 1, !.got = "none", !.held = 0, !.op = "none",
                          !.inBody = FALSE, !.announced = FALSE]
<1>1. /\ ConnFits(q, n) /\ q.held \in Nat /\ handlers \in Nat /\ bodies \in Nat
      /\ Exists(c) => Req(c) \in Request
  BY Here
<1>2. /\ DOMAIN r = Fields /\ r.at = q.at /\ r.op = "none" /\ r.held = 0
      /\ r.closed = q.closed /\ r.writesEnded = q.writesEnded /\ r.deaf = q.deaf
      /\ r.called = q.called /\ r.req = q.req /\ r.wire = q.wire /\ r.cancelled = q.cancelled
  BY <1>1 DEF ConnFits, Fields
<1>3. Speaks(q)
  BY <1>1, SpeaksHere
<1>4. Speaks(r)
  <2>1. EndFits(r)
    BY <1>2, <1>3 DEF Speaks, EndFits, Writes
  <2> QED
    BY <2>1, <1>2, <1>3, Zenon DEF Speaks, AllAnswered
<1>5. ~r.deaf => r.called \subseteq AllAnswered(r)
  BY <1>1, <1>2 DEF ConnFits, CallsFit, AllAnswered, Calls
<1>6. /\ bodies' = bodies - q.held
      /\ CASE got = "End" -> GoesOn(c, {Dropped(r)}) /\ UNCHANGED handlers
           [] got = "Refused" ->
                GoesOn(c, Send(c, r, Answer(r, TRUE), "Drain")) /\ UNCHANGED handlers
           [] got = "Answered" \/ (got = "handler" /\ handlers >= HANDLERS_MAX) ->
                GoesOn(c, Send(c, r, Answer(r, Req(c).close), Then(Req(c).close)))
                /\ UNCHANGED handlers
           [] OTHER ->
                /\ handlers' = handlers + 1
                /\ GoesOn(c, {[r EXCEPT !.at = "Calling", !.called = @ \cup {r.req}]})
  BY Zenon DEF Serve
<1> HIDE DEF r, n
<1>7. ASSUME NEW s, ConnFits(s, n), s.held = 0, s.at # "Calling",
             conn' = [conn EXCEPT ![c] = s], handlers' = handlers
      PROVE  Goes(c, s)
  BY <1>1, <1>6, <1>7 DEF Goes, One, n
<1>8. CASE got = "End"
  <2>1. CanEnd(r)
    <3>1. Exempt(r) = FALSE
      BY <1>4 DEF Exempt, Speaks, Calls
    <3>2. Ordered(r.wire, Exempt(r))
      BY <3>1, <1>4, Zenon DEF Speaks
    <3>3. EndFits(r) /\ DOMAIN r = Fields /\ r.wire \in Seq(Entry) /\ r.req \in Nat \ {0}
      BY <1>4 DEF Speaks
    <3> QED
      BY <3>2, <3>3, <1>2, <1>5, Bounds DEF CanEnd, EndFits, OpPlaces, Writes
  <2>2. ConnFits(Dropped(r), n) /\ Dropped(r).held = 0 /\ Dropped(r).at # "Calling"
    BY <2>1, <1>2, DroppedFits
  <2>3. conn' = [conn EXCEPT ![c] = Dropped(r)] /\ handlers' = handlers
    BY <1>6, <1>8 DEF GoesOn
  <2> QED
    BY <2>2, <2>3, <1>7, Zenon
<1>9. CASE got = "Refused"
  <2> DEFINE close == TRUE
  <2>0. close \in BOOLEAN
    OBVIOUS
  <2>1. PICK s \in Send(c, r, Answer(r, close), "Drain") : conn' = [conn EXCEPT ![c] = s]
    BY <1>6, <1>9, Zenon DEF GoesOn
  <2> HIDE DEF close
  <2>2. ConnFits(s, n) /\ s.held = 0 /\ s.at # "Calling"
    BY <2>0, <2>1, <1>2, <1>4, SendFits
  <2>3. handlers' = handlers
    BY <1>6, <1>9
  <2> QED
    BY <2>1, <2>2, <2>3, <1>7, Zenon
<1>10. CASE got = "Answered" \/ (got = "handler" /\ handlers >= HANDLERS_MAX)
  <2> DEFINE close == Req(c).close
  <2>1. close \in BOOLEAN
    BY <1>1, <1>10 DEF Request
  <2>2. PICK s \in Send(c, r, Answer(r, close), Then(close)) : conn' = [conn EXCEPT ![c] = s]
    BY <1>6, <1>10 DEF GoesOn
  <2>3. Then(close) \in {"Next", "Close", "Drain"} /\ (Then(close) = "Next" => ~close)
    BY <2>1 DEF Then
  <2> HIDE DEF close
  <2>4. ConnFits(s, n) /\ s.held = 0 /\ s.at # "Calling"
    BY <2>1, <2>2, <2>3, <1>2, <1>4, SendFits
  <2>5. handlers' = handlers
    BY <1>6, <1>10
  <2> QED
    BY <2>2, <2>4, <2>5, <1>7, Zenon
<1>11. CASE got = "handler" /\ ~(handlers >= HANDLERS_MAX)
  <2> DEFINE s == [r EXCEPT !.at = "Calling", !.called = @ \cup {r.req}]
  <2>1. conn' = [conn EXCEPT ![c] = s] /\ handlers' = handlers + 1
    BY <1>6, <1>11 DEF GoesOn
  <2>2. /\ DOMAIN s = Fields /\ s.at = "Calling" /\ s.op = "none" /\ s.held = 0
        /\ s.closed = q.closed /\ s.writesEnded = q.writesEnded /\ s.deaf = q.deaf
        /\ s.called = q.called \cup {q.req} /\ s.req = q.req /\ s.wire = q.wire
        /\ s.cancelled = q.cancelled
    BY <1>2 DEF Fields
  <2> HIDE DEF s
  <2>3. OpFits(s)
    BY <2>2, Bounds DEF OpFits, TaskPlaces, OpPlaces, Calls
  <2>4. EndFits(s)
    BY <2>2, <1>3 DEF EndFits, Speaks, Writes, Calls
  <2>5. CallsFit(s)
    BY <2>2, <1>2, <1>5 DEF CallsFit, AllAnswered, Calls
  <2>6. Exempt(s) = FALSE
    BY <2>2 DEF Exempt
  <2>7. ~s.closed => LineFits(s)
    BY <2>2, <1>3 DEF LineFits, Speaks
  <2>8. WireFits(s)
    BY <2>2, <2>6, <2>7, <1>3, Zenon DEF WireFits, Speaks
  <2>9. AskFits(s, n)
    BY <2>2, <1>11 DEF AskFits, Exists, n
  <2>10. Goes(c, s)
    <3>1. handlers' <= HANDLERS_MAX
      BY <2>1, <1>1, <1>11, Bounds
    <3>2. q.at # "Calling"
      OBVIOUS
    <3> QED
      BY <3>1, <3>2, <2>1, <2>2, <2>3, <2>4, <2>5, <2>8, <2>9, <1>1, <1>6
      DEF Goes, One, ConnFits, n
  <2> QED
    BY <2>10
<1> QED
  BY <1>8, <1>9, <1>10, <1>11 DEF Gots

\* A task that looks for its next request.
LEMMA LookGoes ==
  ASSUME HttpInv, NEW c \in DOMAIN conn, Look(c)
  PROVE  \E s : Goes(c, s)
<1> DEFINE n == Len(asks[c])
           q == conn[c]
<1>1. /\ ConnFits(q, n) /\ q.at = "Next" /\ q.op = "none" /\ q.held = 0
      /\ Exists(c) => Req(c) \in Request
  BY Here DEF Look, ConnFits, OpFits
<1>2. asks' = asks
  BY DEF Look
<1>3. CASE q.cancelled
  <2>1. conn' = [conn EXCEPT ![c] = Dropped(q)] /\ handlers' = handlers /\ bodies' = bodies
    BY <1>3 DEF Look, GoesOn
  <2>2. CanEnd(q)
    BY <1>1, CanEndHere DEF Calls
  <2>3. ConnFits(Dropped(q), n) /\ Dropped(q).held = q.held /\ Dropped(q).at # "Calling"
    BY <2>2, DroppedFits
  <2> QED
    BY <2>1, <2>3, <1>1, <1>2, GoesQuietly, Zenon
<1>4. CASE ~q.cancelled /\ q.served >= TURN
  <2> DEFINE s == [q EXCEPT !.served = 0]
  <2>1. conn' = [conn EXCEPT ![c] = s] /\ handlers' = handlers /\ bodies' = bodies
    BY <1>4 DEF Look, GoesOn
  <2>2. /\ DOMAIN s = Fields
        /\ s.at = q.at /\ s.op = q.op /\ s.got = q.got /\ s.held = q.held /\ s.closed = q.closed
        /\ s.writesEnded = q.writesEnded /\ s.deaf = q.deaf /\ s.called = q.called
        /\ s.req = q.req /\ s.wire = q.wire /\ s.out = q.out /\ s.then = q.then
        /\ s.cancelled = q.cancelled
    BY <1>1 DEF ConnFits, Fields
  <2> HIDE DEF s
  <2>3. q.cancelled \in BOOLEAN
    BY <1>1 DEF ConnFits, EndFits
  <2>4. ConnFits(s, n)
    BY <2>2, <2>3, <1>1, AlikeFits
  <2> QED
    BY <2>1, <2>2, <2>4, <1>2, GoesQuietly, Zenon
<1>5. CASE ~q.cancelled /\ ~(q.served >= TURN) /\ AtHand(c) # {}
  <2>1. PICK got \in AtHand(c) : Serve(c, got)
    BY <1>5 DEF Look
  <2>2. got \in Gots /\ (got \in {"Answered", "handler"} => Exists(c))
    BY <2>1, <1>1 DEF AtHand, Gots, HeadIsThere, IsThere, Request
  <2> QED
    BY <2>1, <2>2, <1>1, <1>2, ServeGoes
<1>6. CASE ~q.cancelled /\ ~(q.served >= TURN) /\ AtHand(c) = {}
  <2>1. CASE Serve(c, "End")
    BY <2>1, <1>1, <1>2, ServeGoes DEF Gots
  <2> DEFINE s == [q EXCEPT !.at = "Reading", !.served = 0, !.op = "head"]
  <2>2. CASE conn' = [conn EXCEPT ![c] = s] /\ handlers' = handlers /\ bodies' = bodies
    <3>1. /\ DOMAIN s = Fields
          /\ s.at = "Reading" /\ s.op = "head" /\ s.held = q.held /\ s.closed = q.closed
          /\ s.writesEnded = q.writesEnded /\ s.deaf = q.deaf /\ s.called = q.called
          /\ s.req = q.req /\ s.wire = q.wire /\ s.cancelled = q.cancelled
      BY <1>1 DEF ConnFits, Fields
    <3> HIDE DEF s
    <3>2. OpFits(q) /\ EndFits(q) /\ CallsFit(q) /\ WireFits(q)
      BY <1>1 DEF ConnFits
    <3>3. OpFits(s) /\ EndFits(s)
      BY <3>1, <3>2, <1>1 DEF OpFits, EndFits, Calls, TaskPlaces, OpPlaces, Reads, Writes
    <3>4. CallsFit(s) /\ AskFits(s, n)
      BY <3>1, <3>2, <1>1 DEF CallsFit, AskFits, AllAnswered, Calls
    <3>5. Exempt(s) = FALSE /\ Exempt(q) = FALSE
      BY <3>1, <1>1 DEF Exempt
    <3>6. ~s.closed => LineFits(s)
      BY <3>1, <3>2, <1>1, ZenonT(20) DEF LineFits, WireFits, Clean, Calls
    <3>7. WireFits(s)
      BY <3>1, <3>2, <3>5, <3>6, Zenon DEF WireFits
    <3>8. ConnFits(s, n)
      BY <3>1, <3>3, <3>4, <3>7 DEF ConnFits
    <3> QED
      BY <3>1, <3>8, <2>2, <1>1, <1>2, GoesQuietly, Zenon
  <2> QED
    BY <2>1, <2>2, <1>6 DEF Look, GoesOn
<1> QED
  BY <1>3, <1>4, <1>5, <1>6

\* What is left of a read that is given up.
LEMMA WithoutGotKeeps ==
  ASSUME NEW q, NEW n, ConnFits(q, n)
  PROVE  LET r == WithoutGot(q)
         IN /\ DOMAIN r = Fields /\ r.at = q.at /\ r.op = q.op
            /\ r.held = (IF q.op = "done" THEN 0 ELSE q.held)
            /\ r.closed = q.closed /\ r.writesEnded = q.writesEnded /\ r.deaf = q.deaf
            /\ r.called = q.called /\ r.req = q.req /\ r.wire = q.wire
            /\ r.cancelled = q.cancelled
BY DEF WithoutGot, ConnFits, Fields

\* A read is given up, with what its Got had counted.
LEMMA GoesWithoutGot ==
  ASSUME HttpInv, NEW c \in DOMAIN conn, conn[c].at # "Calling", NEW s, asks' = asks,
         conn' = [conn EXCEPT ![c] = s], ConnFits(s, Len(asks[c])), s.at # "Calling",
         s.held = WithoutGot(conn[c]).held, handlers' = handlers, bodies' = bodies - GivenUp(c)
  PROVE  \E r : Goes(c, r)
<1>1. /\ ConnFits(conn[c], Len(asks[c])) /\ conn[c].held \in Nat
      /\ handlers \in Nat /\ bodies \in Nat
  BY Here
<1>2. s.held = IF conn[c].op = "done" THEN 0 ELSE conn[c].held
  BY <1>1, WithoutGotKeeps
<1>3. GivenUp(c) = conn[c].held - s.held /\ s.held \in Nat /\ ~(s.held > conn[c].held)
  BY <1>1, <1>2 DEF GivenUp
<1>4. Goes(c, s)
  BY <1>1, <1>3 DEF Goes, One
<1> QED
  BY <1>4

\* The request did not come in time.
LEMMA ReadTimeoutGoes ==
  ASSUME HttpInv, NEW c \in DOMAIN conn, ReadTimeout(c)
  PROVE  \E s : Goes(c, s)
<1> DEFINE n == Len(asks[c])
           q == conn[c]
           r == WithoutGot(q)
<1>1. ConnFits(q, n) /\ q.at = "Reading" /\ OpFits(q)
  BY Here DEF ReadTimeout, ConnFits
<1>2. asks' = asks /\ handlers' = handlers /\ bodies' = bodies - GivenUp(c)
  BY DEF ReadTimeout
<1>3. /\ DOMAIN r = Fields /\ r.at = q.at /\ r.op = q.op
      /\ r.held = (IF q.op = "done" THEN 0 ELSE q.held)
      /\ r.closed = q.closed /\ r.writesEnded = q.writesEnded /\ r.deaf = q.deaf
      /\ r.called = q.called /\ r.req = q.req /\ r.wire = q.wire
      /\ r.cancelled = q.cancelled
  BY <1>1, WithoutGotKeeps
<1>4. \/ GoesOn(c, {Dropped(r)})
      \/ GoesOn(c, { LastWord([Written(r, Answer(r, TRUE), t) EXCEPT !.at = "Draining"])
                     : t \in Takes(c, r) })
  BY DEF ReadTimeout
<1> HIDE DEF r
<1>5. Speaks(q)
  BY <1>1, SpeaksHere
<1>6. Speaks(r)
  <2>1. EndFits(r)
    BY <1>3, <1>5 DEF Speaks, EndFits
  <2> QED
    BY <2>1, <1>3, <1>5, Zenon DEF Speaks, AllAnswered
<1>7. /\ r.op \in Reads \cup {"done"} /\ r.held \in 0..BODIES_MAX
      /\ r.held # 0 => r.op \in {"interim", "body"}
  BY <1>1, <1>3, Bounds DEF OpFits
<1>8. CASE GoesOn(c, {Dropped(r)})
  <2>1. conn' = [conn EXCEPT ![c] = Dropped(r)]
    BY <1>8 DEF GoesOn
  <2>2. Exempt(r) = FALSE
    BY <1>1, <1>3 DEF Exempt
  <2>3. Ordered(r.wire, Exempt(r)) /\ EndFits(r)
    BY <2>2, <1>6, Zenon DEF Speaks
  <2>4. ~r.deaf => r.called \subseteq AllAnswered(r)
    BY <1>1, <1>3 DEF ConnFits, CallsFit, AllAnswered, Calls
  <2>5. CanEnd(r)
    BY <2>3, <2>4, <1>3, <1>6, <1>7 DEF CanEnd, EndFits, Speaks, OpPlaces, Reads, Writes
  <2>6. ConnFits(Dropped(r), n) /\ Dropped(r).held = r.held /\ Dropped(r).at # "Calling"
    BY <2>5, DroppedFits
  <2> QED
    BY <2>1, <2>6, <1>1, <1>2, GoesWithoutGot, Zenon DEF r
<1>9. CASE GoesOn(c, { LastWord([Written(r, Answer(r, TRUE), t) EXCEPT !.at = "Draining"])
                       : t \in Takes(c, r) })
  <2>1. PICK t \in Takes(c, r) :
          conn' = [conn EXCEPT ![c] =
                     LastWord([Written(r, Answer(r, TRUE), t) EXCEPT !.at = "Draining"])]
    BY <1>9, Zenon DEF GoesOn
  <2> DEFINE s == LastWord([Written(r, Answer(r, TRUE), t) EXCEPT !.at = "Draining"])
  <2>2. ConnFits(s, n) /\ s.held = r.held /\ s.at = "Draining"
    BY <2>1, <1>6, <1>7, LastWordFits, Zenon
  <2>3. conn' = [conn EXCEPT ![c] = s]
    BY <2>1
  <2> HIDE DEF s
  <2> QED
    BY <2>2, <2>3, <1>1, <1>2, GoesWithoutGot, Zenon DEF r
<1> QED
  BY <1>4, <1>8, <1>9

\* The frame of a task that was stopped is dropped.
LEMMA DropGoes ==
  ASSUME HttpInv, NEW c \in DOMAIN conn, Drop(c)
  PROVE  \E s : Goes(c, s)
<1> DEFINE n == Len(asks[c])
           q == conn[c]
           r == WithoutGot(q)
<1>1. ConnFits(q, n) /\ q.at = "Abandoned"
  BY Here DEF Drop
<1>2. /\ asks' = asks /\ handlers' = handlers /\ bodies' = bodies - GivenUp(c)
      /\ conn' = [conn EXCEPT ![c] = Dropped(r)]
  BY DEF Drop, GoesOn
<1>3. /\ DOMAIN r = Fields /\ r.at = q.at /\ r.op = q.op
      /\ r.held = (IF q.op = "done" THEN 0 ELSE q.held)
      /\ r.closed = q.closed /\ r.writesEnded = q.writesEnded /\ r.deaf = q.deaf
      /\ r.called = q.called /\ r.req = q.req /\ r.wire = q.wire
      /\ r.cancelled = q.cancelled
  BY <1>1, WithoutGotKeeps
<1> HIDE DEF r
<1>4. OpFits(q) /\ EndFits(q) /\ CallsFit(q) /\ WireFits(q)
  BY <1>1 DEF ConnFits
<1>5. Exempt(r) = Exempt(q)
  BY <1>3 DEF Exempt
<1>6. ~r.deaf => r.called \subseteq AllAnswered(r)
  BY <1>1, <1>3, <1>4 DEF CallsFit, AllAnswered, Calls
<1>7. /\ r.op \in OpPlaces /\ r.held \in 0..BODIES_MAX
      /\ r.held # 0 => r.op \in {"interim", "body"}
  <2>1. /\ q.op \in OpPlaces /\ q.held \in 0..BODIES_MAX
        /\ q.held # 0 => q.op \in {"interim", "body", "done"}
    BY <1>4 DEF OpFits
  <2> QED
    BY <2>1, <1>3, Bounds
<1>8. CanEnd(r)
  BY <1>3, <1>4, <1>5, <1>6, <1>7, Zenon DEF CanEnd, EndFits, WireFits
<1>9. ConnFits(Dropped(r), n) /\ Dropped(r).held = r.held /\ Dropped(r).at # "Calling"
  BY <1>8, DroppedFits
<1> QED
  BY <1>1, <1>2, <1>9, GoesWithoutGot, Zenon DEF r

\* A response was sent, or given up.
LEMMA SendDoneGoes ==
  ASSUME HttpInv, NEW c \in DOMAIN conn, SendDone(c) \/ GivesUp(c)
  PROVE  \E s : Goes(c, s)
<1> DEFINE n == Len(asks[c])
           q == conn[c]
<1>1. ConnFits(q, n) /\ OpFits(q) /\ EndFits(q) /\ WireFits(q)
  BY Here DEF ConnFits
<1>2. asks' = asks /\ handlers' = handlers /\ bodies' = bodies
  BY DEF SendDone, GivesUp
<1>3. CASE GivesUp(c)
  <2>1. conn' = [conn EXCEPT ![c] = Dropped(q)] /\ q.at \in {"Sending", "Draining"}
    BY <1>3 DEF GivesUp, GoesOn
  <2>2. q.at \notin Calls /\ (q.held # 0 => q.op \in {"interim", "body"})
    BY <2>1, <1>1 DEF OpFits, Calls, Writes
  <2>3. CanEnd(q)
    BY <2>2, <1>1, CanEndHere
  <2>4. ConnFits(Dropped(q), n) /\ Dropped(q).held = q.held /\ Dropped(q).at # "Calling"
    BY <2>3, DroppedFits
  <2> QED
    BY <2>1, <2>4, <1>2, GoesQuietly, Zenon
<1>4. CASE SendDone(c)
  <2> DEFINE r == [q EXCEPT !.op = "none", !.out = <<>>]
             s == IF q.op = "wrote" THEN Sent(r, r.then) ELSE Dropped(r)
  <2>1. /\ q.at = "Sending" /\ q.op \in {"wrote", "failed"}
        /\ conn' = [conn EXCEPT ![c] = s]
    BY <1>4, Zenon DEF SendDone, GoesOn
  <2>2. q.held = 0
    BY <2>1, <1>1 DEF OpFits
  <2>3. /\ DOMAIN r = Fields /\ r.at = q.at /\ r.op = "none" /\ r.held = q.held
        /\ r.closed = q.closed /\ r.writesEnded = q.writesEnded /\ r.deaf = q.deaf
        /\ r.called = q.called /\ r.req = q.req /\ r.wire = q.wire
        /\ r.cancelled = q.cancelled /\ r.then = q.then
    BY <1>1 DEF ConnFits, Fields
  <2> HIDE DEF r
  <2>4. r.deaf /\ ~r.writesEnded
    BY <2>1, <2>3, <1>1 DEF EndFits, Writes
  <2>5. Ordered(r.wire, FALSE)
    <3>1. Exempt(q) = FALSE
      BY <2>1 DEF Exempt
    <3> QED
      BY <3>1, <2>3, <1>1, Zenon DEF WireFits
  <2>6. CASE q.op = "wrote"
    <3>1. q.then \in {"Next", "Close", "Drain"}
      BY <2>1, <2>6, <1>1 DEF WireFits, OutFits
    <3>2. q.then = "Next" /\ ~q.closed => Clean(q.wire, q.req + 1)
      BY <2>6, <1>1, ZenonT(20) DEF WireFits, LineFits
    <3>3. IsSent(r, r.then)
      BY <3>2, <2>2, <2>3, <2>4, <2>5, <1>1, Zenon DEF IsSent, EndFits, WireFits
    <3>4. ConnFits(s, n) /\ s.held = 0 /\ s.at # "Calling"
      BY <3>1, <3>3, <2>3, <2>6, SentFits
    <3> HIDE DEF s
    <3> QED
      BY <3>4, <2>1, <2>2, <1>2, GoesQuietly, ZenonT(20)
  <2>7. CASE q.op = "failed"
    <3>1. IsSent(r, "Close")
      BY <2>2, <2>3, <2>4, <2>5, <1>1, ZenonT(20) DEF IsSent, EndFits, WireFits
    <3>2. ConnFits(s, n) /\ s.held = 0 /\ s.at # "Calling"
      BY <3>1, <2>2, <2>3, <2>7, SentCanEnd, DroppedFits, Zenon
    <3> HIDE DEF s
    <3> QED
      BY <3>2, <2>1, <2>2, <1>2, GoesQuietly, Zenon
  <2> QED
    BY <2>1, <2>6, <2>7
<1> QED
  BY <1>3, <1>4

\* A call ends: with an answer ...
LEMMA AnswerGoes ==
  ASSUME HttpInv, NEW c \in DOMAIN conn, HandlerReturns(c) \/ AnswerFailed(c)
  PROVE  \E s : Goes(c, s)
<1> DEFINE n == Len(asks[c])
           q == conn[c]
           close == Req(c).close
<1>1. /\ ConnFits(q, n) /\ handlers \in Nat /\ bodies \in Nat
      /\ Exists(c) => Req(c) \in Request
  BY Here
<1>2. /\ asks' = asks /\ bodies' = bodies /\ q.at \in {"Calling", "Answering"}
      /\ handlers' = handlers - One(q.at = "Calling")
  <2>1. CASE HandlerReturns(c)
    BY <2>1 DEF HandlerReturns, One
  <2>2. CASE AnswerFailed(c)
    <3>1. asks' = asks /\ bodies' = bodies /\ handlers' = handlers /\ q.at = "Answering"
      BY <2>2 DEF AnswerFailed
    <3> HIDE DEF q
    <3> QED
      BY <3>1, <1>1 DEF One
  <2> QED
    BY <2>1, <2>2
<1>3. q.op = "none" /\ q.held = 0 /\ Exists(c) /\ q.at \in Calls
  BY <1>1, <1>2 DEF ConnFits, OpFits, AskFits, Exists, Calls
<1>4. close \in BOOLEAN
  BY <1>1, <1>3 DEF Request
<1>5. PICK s \in Send(c, q, Answer(q, close), Then(close)) : conn' = [conn EXCEPT ![c] = s]
  BY DEF HandlerReturns, AnswerFailed, GoesOn
<1>6. Then(close) \in {"Next", "Close", "Drain"} /\ (Then(close) = "Next" => ~close)
  BY <1>4 DEF Then
<1> HIDE DEF close
<1>7. Speaks(q)
  BY <1>1, <1>3, SpeaksHere
<1>8. ConnFits(s, n) /\ s.held = 0 /\ s.at # "Calling"
  BY <1>3, <1>4, <1>5, <1>6, <1>7, SendFits
<1>9. Goes(c, s)
  BY <1>1, <1>2, <1>3, <1>5, <1>8 DEF Goes, One
<1> QED
  BY <1>9

\* ... or it fails.
LEMMA HandlerFailsGoes ==
  ASSUME HttpInv, NEW c \in DOMAIN conn, HandlerFails(c)
  PROVE  \E s : Goes(c, s)
<1> DEFINE n == Len(asks[c])
           q == conn[c]
           s == [q EXCEPT !.at = "Failed"]
<1>1. ConnFits(q, n) /\ handlers \in Nat /\ bodies \in Nat /\ q.held \in Nat /\ q.at = "Calling"
  BY Here DEF HandlerFails
<1>2. /\ asks' = asks /\ bodies' = bodies /\ handlers' = handlers - 1
      /\ conn' = [conn EXCEPT ![c] = s]
  BY DEF HandlerFails
<1>3. /\ DOMAIN s = Fields /\ s.at = "Failed" /\ s.op = q.op /\ s.held = q.held
      /\ s.closed = q.closed /\ s.writesEnded = q.writesEnded /\ s.deaf = q.deaf
      /\ s.called = q.called /\ s.req = q.req /\ s.wire = q.wire /\ s.cancelled = q.cancelled
  BY <1>1 DEF ConnFits, Fields
<1> HIDE DEF s
<1>4. ConnFits(s, n)
  <2>1. q.cancelled \in BOOLEAN
    BY <1>1 DEF ConnFits, EndFits
  <2> QED
    BY <2>1, <1>1, <1>3, CallGoesOn DEF Calls
<1>5. Goes(c, s)
  BY <1>1, <1>2, <1>3, <1>4 DEF Goes, One
<1> QED
  BY <1>5

\* The connection of a call that failed is handed on to a new task, or this
\* is the last word.
LEMMA HandOnGoes ==
  ASSUME HttpInv, NEW c \in DOMAIN conn, HandOn(c)
  PROVE  \E s : Goes(c, s)
<1> DEFINE n == Len(asks[c])
           q == conn[c]
<1>1. ConnFits(q, n) /\ q.at = "Failed" /\ q.op = "none" /\ OpFits(q)
  BY Here DEF HandOn, ConnFits, OpFits, Calls
<1>2. asks' = asks /\ bodies' = bodies /\ handlers' = handlers
  BY DEF HandOn
<1>3. CASE open
  <2> DEFINE s == [q EXCEPT !.at = "Answering", !.cancelled = FALSE, !.served = 0]
  <2>1. conn' = [conn EXCEPT ![c] = s]
    BY <1>3, Zenon DEF HandOn, GoesOn
  <2>2. /\ DOMAIN s = Fields /\ s.at = "Answering" /\ s.op = q.op /\ s.held = q.held
        /\ s.closed = q.closed /\ s.writesEnded = q.writesEnded /\ s.deaf = q.deaf
        /\ s.called = q.called /\ s.req = q.req /\ s.wire = q.wire /\ s.cancelled = FALSE
    BY <1>1 DEF ConnFits, Fields
  <2> HIDE DEF s
  <2>3. ConnFits(s, n)
    BY <2>2, <1>1, CallGoesOn, Zenon DEF Calls
  <2> QED
    BY <2>1, <2>2, <2>3, <1>1, <1>2, GoesQuietly, Zenon
<1>4. CASE ~open
  <2>1. PICK t \in Takes(c, q) :
          conn' = [conn EXCEPT ![c] = [Written(q, Answer(q, TRUE), t) EXCEPT !.at = "Abandoned"]]
    BY <1>4, Zenon DEF HandOn, GoesOn
  <2> DEFINE close == TRUE
             s == [Written(q, Answer(q, close), t) EXCEPT !.at = "Abandoned"]
  <2>2. conn' = [conn EXCEPT ![c] = s] /\ close \in BOOLEAN
    BY <2>1
  <2>3. Speaks(q) /\ q.at # "Next" /\ (q.op \in Reads => q.cancelled)
    BY <1>1, SpeaksHere DEF Calls, Reads
  <2> HIDE DEF close
  <2>4. ConnFits(s, n) /\ s.held = q.held /\ s.at = "Abandoned"
    BY <2>1, <2>2, <2>3, <1>1, AbandonedFits
  <2> HIDE DEF s
  <2> QED
    BY <2>2, <2>4, <1>1, <1>2, GoesQuietly, Zenon
<1> QED
  BY <1>3, <1>4

\* A task that is stopped.
LEMMA AbandonGoes ==
  ASSUME HttpInv, NEW c \in DOMAIN conn, Abandon(c)
  PROVE  \E s : Goes(c, s)
<1> DEFINE n == Len(asks[c])
           q == conn[c]
           close == IF q.at = "Answering" THEN Req(c).close ELSE TRUE
<1>1. /\ ConnFits(q, n) /\ handlers \in Nat /\ bodies \in Nat /\ q.held \in Nat
      /\ Exists(c) => Req(c) \in Request
  BY Here
<1>2. /\ asks' = asks /\ bodies' = bodies /\ handlers' = handlers - One(q.at = "Calling")
      /\ \/ q.at \in {"Reading", "Calling", "Sending", "Draining"} /\ q.cancelled
         \/ q.at = "Answering"
  BY <1>1 DEF Abandon, One
<1>3. ASSUME NEW s, conn' = [conn EXCEPT ![c] = s], ConnFits(s, n), s.held = q.held,
             s.at = "Abandoned"
      PROVE  Goes(c, s)
  BY <1>1, <1>2, <1>3 DEF Goes, One
<1>4. CASE q.at \in {"Calling", "Answering"} \/ (q.at = "Reading" /\ q.inBody)
  <2>1. PICK t \in Takes(c, q) :
          conn' = [conn EXCEPT ![c] = [Written(q, Answer(q, close), t) EXCEPT !.at = "Abandoned"]]
    BY <1>4, Zenon DEF Abandon, GoesOn
  <2>2. close \in BOOLEAN
    <3>1. q.at = "Answering" => Exists(c)
      BY <1>1 DEF ConnFits, AskFits, Exists, Calls
    <3> QED
      BY <3>1, <1>1, Zenon DEF Request
  <2> HIDE DEF close
  <2>3. /\ Speaks(q) /\ q.at # "Next" /\ OpFits(q)
        /\ (q.op \in Reads => q.cancelled)
    <3>1. q.at \in Calls \cup {"Reading"} /\ OpFits(q)
      BY <1>1, <1>4 DEF Calls, ConnFits
    <3>2. Speaks(q)
      BY <3>1, <1>1, SpeaksHere
    <3>3. q.op \in Reads => q.cancelled
      BY <3>1, <1>2 DEF OpFits, Calls, Reads
    <3> QED
      BY <3>1, <3>2, <3>3 DEF Calls
  <2> DEFINE s == [Written(q, Answer(q, close), t) EXCEPT !.at = "Abandoned"]
  <2>4. ConnFits(s, n) /\ s.held = q.held /\ s.at = "Abandoned"
    BY <2>1, <2>2, <2>3, AbandonedFits
  <2>5. conn' = [conn EXCEPT ![c] = s]
    BY <2>1
  <2> HIDE DEF s
  <2> QED
    BY <2>4, <2>5, <1>3, Zenon
<1>5. CASE ~(q.at \in {"Calling", "Answering"} \/ (q.at = "Reading" /\ q.inBody))
  <2> DEFINE s == [q EXCEPT !.at = "Abandoned"]
  <2>1. conn' = [conn EXCEPT ![c] = s]
    BY <1>5, Zenon DEF Abandon, GoesOn
  <2>2. ConnFits(s, n) /\ s.held = q.held /\ s.at = "Abandoned"
    BY <1>1, <1>2, <1>5, StoppedFits
  <2> HIDE DEF s
  <2> QED
    BY <2>1, <2>2, <1>3, Zenon
<1> QED
  BY <1>4, <1>5

\* A read ends.
LEMMA FinishGoes ==
  ASSUME HttpInv, NEW c \in DOMAIN conn, NEW r, ConnFits(r, Len(asks[c])), r.op \in Reads,
         r.at = conn[c].at, r.held = conn[c].held, NEW got \in Gots,
         r.at = "Reading" /\ got \in {"Answered", "handler"} => r.req <= Len(asks[c]),
         Finish(c, r, got), asks' = asks, handlers' = handlers
  PROVE  \E s : Goes(c, s)
<1> DEFINE n == Len(asks[c])
           s == Finished(r, got)
<1>1. handlers \in Nat /\ bodies \in Nat /\ conn[c].held \in Nat /\ DOMAIN r = Fields
  BY Here DEF ConnFits
<1>2. ConnFits(s, n) /\ s.at = r.at /\ s.held \in {0, r.held}
  BY FinishedFits
<1>3. conn' = [conn EXCEPT ![c] = s]
  BY DEF Finish, Finished
<1>4. s.held = IF got = "handler" /\ r.at \in {"Reading", "Abandoned"} THEN r.held ELSE 0
  BY <1>1 DEF Finished, Fields
<1> HIDE DEF s
<1>5. bodies' = bodies - (r.held - s.held)
  BY <1>4 DEF Finish
<1>6. Goes(c, s)
  BY <1>1, <1>2, <1>3, <1>5 DEF Goes, One
<1> QED
  BY <1>6

\* Nothing more of the request comes, or the body is there.
LEMMA ReadEndsGoes ==
  ASSUME HttpInv, NEW c \in DOMAIN conn, ReadEnds(c) \/ ReadBody(c)
  PROVE  \E s : Goes(c, s)
<1>1. ConnFits(conn[c], Len(asks[c])) /\ (Exists(c) => Req(c) \in Request)
  BY Here
<1>2. asks' = asks /\ handlers' = handlers /\ conn[c].op \in Reads
  BY DEF ReadEnds, ReadBody, Reads
<1>3. CASE ReadEnds(c)
  <2>1. Finish(c, conn[c], "End") /\ "End" \in Gots
    BY <1>3 DEF ReadEnds, Gots
  <2> QED
    BY <2>1, <1>1, <1>2, FinishGoes
<1>4. CASE ReadBody(c)
  <2>1. Finish(c, conn[c], Req(c).for) /\ Exists(c)
    BY <1>4 DEF ReadBody, IsThere
  <2>2. Req(c).for \in Gots /\ conn[c].req <= Len(asks[c])
    BY <2>1, <1>1 DEF Gots, Request, Exists
  <2> QED
    BY <2>1, <2>2, <1>1, <1>2, FinishGoes
<1> QED
  BY <1>3, <1>4

\* The head is there.
LEMMA ReadHeadGoes ==
  ASSUME HttpInv, NEW c \in DOMAIN conn, ReadHead(c)
  PROVE  \E s : Goes(c, s)
<1> DEFINE n == Len(asks[c])
           q == conn[c]
<1>1. /\ ConnFits(q, n) /\ handlers \in Nat /\ bodies \in Nat /\ q.held \in Nat
      /\ Req(c) \in Request /\ q.op = "head" /\ q.req <= n
  BY Here DEF ReadHead, HeadIsThere, Exists
<1>2. asks' = asks /\ handlers' = handlers /\ q.op \in Reads
  BY <1>1 DEF ReadHead, Reads
<1>3. CASE Finish(c, q, "Refused")
  BY <1>1, <1>2, <1>3, FinishGoes DEF Gots
<1>4. CASE Finish(c, q, Req(c).for)
  <2>1. Req(c).for \in Gots
    BY <1>1 DEF Request, Gots
  <2> QED
    BY <2>1, <1>1, <1>2, <1>4, FinishGoes
<1> DEFINE place == IF Req(c).waits /\ ~IsThere(c) THEN "interim" ELSE "body"
           s == [q EXCEPT !.held = Req(c).body, !.announced = TRUE, !.op = place]
<1>5. CASE /\ bodies' = bodies + Req(c).body /\ ~(bodies + Req(c).body > BODIES_MAX)
           /\ conn' = [conn EXCEPT ![c].held = Req(c).body, ![c].announced = TRUE,
                                   ![c].op = place]
  <2>1. Req(c).body \in 0..BODIES_MAX /\ place \in {"interim", "body"}
    BY <1>1 DEF Request
  <2> HIDE DEF place
  <2>2. conn' = [conn EXCEPT ![c] = s]
    BY <1>5, Zenon
  <2>3. OpFits(q) /\ EndFits(q) /\ CallsFit(q) /\ WireFits(q)
    BY <1>1 DEF ConnFits
  <2>4. q.held = 0
    BY <2>3, <1>1 DEF OpFits
  <2>5. /\ DOMAIN s = Fields
        /\ s.at = q.at /\ s.op = place /\ s.held = Req(c).body /\ s.closed = q.closed
        /\ s.writesEnded = q.writesEnded /\ s.deaf = q.deaf /\ s.called = q.called
        /\ s.req = q.req /\ s.wire = q.wire /\ s.cancelled = q.cancelled
    BY <1>1 DEF ConnFits, Fields
  <2> HIDE DEF s
  <2>6. OpFits(s) /\ EndFits(s)
    BY <2>1, <2>3, <2>5, <1>1, ZenonT(20) DEF OpFits, EndFits, OpPlaces, Reads, Writes
  <2>7. CallsFit(s) /\ AskFits(s, n)
    BY <2>1, <2>3, <2>5, <1>1 DEF CallsFit, AskFits, AllAnswered
  <2>8. WireFits(s)
    <3>1. Exempt(s) = Exempt(q)
      BY <2>5 DEF Exempt
    <3>2. ~s.closed => LineFits(s)
      BY <2>1, <2>3, <2>5, <1>1, Zenon DEF LineFits, WireFits, OpFits, Calls
    <3> QED
      BY <3>1, <3>2, <2>1, <2>3, <2>5, <1>1, ZenonT(20) DEF WireFits, Reads
  <2>9. Goes(c, s)
    BY <2>1, <2>2, <2>4, <2>5, <2>6, <2>7, <2>8, <1>1, <1>2, <1>5, Bounds
    DEF Goes, One, ConnFits
  <2> QED
    BY <2>9
<1> QED
  BY <1>3, <1>4, <1>5 DEF ReadHead

\* What the interim response leaves.
LEMMA InterimFits ==
  ASSUME NEW c, NEW q, NEW n, ConnFits(q, n), q.op = "interim", NEW t \in Takes(c, q),
         NEW s, DOMAIN s = Fields, s.at = q.at, s.held = q.held,
         s.op = (IF t = "part" THEN "interim" ELSE "body"),
         s.closed = (t = "part" \/ q.closed), s.cancelled = q.cancelled,
         s.writesEnded = q.writesEnded, s.called = q.called, s.req = q.req,
         s.wire = (IF t = "nothing" THEN q.wire
                   ELSE Append(q.wire, [Interim(q) EXCEPT !.whole = (t = "all")])),
         s.deaf = (q.deaf \/ (t # "all" /\ ~q.closed /\ ~q.writesEnded))
  PROVE  ConnFits(s, n)
<1> DEFINE e == [Interim(q) EXCEPT !.whole = (t = "all")]
<1>1. OpFits(q) /\ EndFits(q) /\ CallsFit(q) /\ WireFits(q)
  BY DEF ConnFits
<1>2. e \in Entry /\ e.what = "100" /\ e.req = q.req /\ ~e.close /\ e.whole = (t = "all")
  BY <1>1, Zenon DEF Interim, Entry, WireFits
<1>3. /\ t \in {"all", "part", "nothing"}
      /\ t # "nothing" => ~q.closed /\ ~q.writesEnded
  BY DEF Takes
<1>4. q.at \in {"Reading", "Draining", "Abandoned", "Ended"}
  BY <1>1 DEF OpFits, TaskPlaces, Calls, Writes
<1>5. Exempt(s) = Exempt(q) /\ Exempt(q) \in BOOLEAN
  BY <1>1 DEF Exempt, EndFits
<1> HIDE DEF e
<1>6. t # "nothing" =>
        /\ s.wire \in Seq(Entry) /\ Ordered(s.wire, Exempt(q))
        /\ AllAnswered(s) = AllAnswered(q)
        /\ q.at = "Reading" /\ t = "all" => Ready(s.wire, q.req)
  <2> SUFFICES ASSUME t # "nothing"
               PROVE  /\ s.wire \in Seq(Entry) /\ Ordered(s.wire, Exempt(q))
                      /\ AllAnswered(s) = AllAnswered(q)
                      /\ q.at = "Reading" /\ t = "all" => Ready(s.wire, q.req)
    OBVIOUS
  <2>1. s.wire = Append(q.wire, e)
    BY DEF e
  <2>2. q.wire \in Seq(Entry) /\ q.req \in Nat \ {0} /\ Ordered(q.wire, Exempt(q))
    BY <1>1 DEF WireFits
  <2>3. q.at = "Reading" => Clean(q.wire, q.req)
    BY <1>1, <1>3, ZenonT(20) DEF WireFits, LineFits
  <2>4. q.at # "Reading" => Exempt(q)
    BY <1>1, <1>3, <1>4, Zenon DEF WireFits, EndFits, Exempt, Reads
  <2>5. /\ Append(q.wire, e) \in Seq(Entry) /\ Ordered(Append(q.wire, e), Exempt(q))
        /\ Answered(Append(q.wire, e), Len(Append(q.wire, e))) = Answered(q.wire, Len(q.wire))
        /\ Clean(q.wire, q.req) /\ e.whole /\ ~e.close => Ready(Append(q.wire, e), q.req)
    BY <2>2, <2>3, <2>4, <1>2, <1>5, InterimFollows
  <2> QED
    BY <2>1, <2>3, <2>5, <1>2, Zenon DEF AllAnswered
<1>7. t = "nothing" =>
        /\ s.wire \in Seq(Entry) /\ Ordered(s.wire, Exempt(q))
        /\ AllAnswered(s) = AllAnswered(q)
  BY <1>1 DEF WireFits, AllAnswered
<1>8. OpFits(s)
  BY <1>1, <1>4 DEF OpFits, OpPlaces, Calls, Reads, Writes
<1>9. EndFits(s)
  <2>1. s.deaf \in BOOLEAN /\ s.closed \in BOOLEAN /\ (q.deaf => s.deaf) /\ (t = "part" => s.deaf)
    BY <1>1, <1>3, Zenon DEF EndFits
  <2> QED
    BY <2>1, <1>1, <1>3 DEF EndFits, Writes
<1>10. CallsFit(s)
  <2>1. AllAnswered(s) = AllAnswered(q) /\ (q.deaf => s.deaf)
    BY <1>6, <1>7, Zenon
  <2> QED
    BY <2>1, <1>1 DEF CallsFit
<1>11. WireFits(s)
  <2>1. ~s.closed => LineFits(s)
    <3> SUFFICES ASSUME ~s.closed
                 PROVE  LineFits(s)
      OBVIOUS
    <3>1. t # "part" /\ ~q.closed /\ s.op = "body"
      BY Zenon
    <3>2. q.at = "Reading" => Ready(s.wire, s.req)
      BY <3>1, <1>1, <1>3, <1>6, Zenon DEF WireFits, LineFits
    <3> QED
      BY <3>1, <3>2, <1>4 DEF LineFits, Calls
  <2> QED
    BY <2>1, <1>1, <1>5, <1>6, <1>7 DEF WireFits, Reads
<1>12. AskFits(s, n)
  BY <1>4 DEF AskFits, Calls
<1> QED
  BY <1>8, <1>9, <1>10, <1>11, <1>12 DEF ConnFits

\* The interim response is written.
LEMMA WriteInterimGoes ==
  ASSUME HttpInv, NEW c \in DOMAIN conn, WriteInterim(c)
  PROVE  \E s : Goes(c, s)
<1> DEFINE n == Len(asks[c])
           q == conn[c]
<1>1. ConnFits(q, n) /\ q.op = "interim" /\ DOMAIN q = Fields
  BY Here DEF WriteInterim, ConnFits
<1>2. asks' = asks /\ handlers' = handlers
  BY DEF WriteInterim
<1>3. PICK t \in Takes(c, q) :
        LET r == Written(q, Interim(q), t)
        IN IF t = "part" THEN Finish(c, [r EXCEPT !.closed = TRUE], "End")
           ELSE /\ conn' = [conn EXCEPT ![c] = [r EXCEPT !.op = "body"]]
                /\ UNCHANGED bodies
  BY Zenon DEF WriteInterim
<1> DEFINE i == Interim(q)
           r == Written(q, i, t)
           s == IF t = "part" THEN [r EXCEPT !.closed = TRUE] ELSE [r EXCEPT !.op = "body"]
<1>4. IF t = "part" THEN Finish(c, s, "End")
      ELSE conn' = [conn EXCEPT ![c] = s] /\ bodies' = bodies
  BY <1>3
<1> HIDE DEF i
<1>5. /\ DOMAIN r = Fields
      /\ r.at = q.at /\ r.op = q.op /\ r.held = q.held
      /\ r.cancelled = q.cancelled /\ r.closed = q.closed
      /\ r.writesEnded = q.writesEnded /\ r.called = q.called /\ r.req = q.req
  BY <1>1 DEF Written, Fields
<1>6. /\ r.wire = IF t = "nothing" THEN q.wire
                  ELSE Append(q.wire, [i EXCEPT !.whole = (t = "all")])
      /\ r.deaf = (q.deaf \/ (t # "all" /\ ~q.closed /\ ~q.writesEnded))
  BY <1>1, WrittenFields
<1> HIDE DEF r
<1>7. /\ DOMAIN s = Fields /\ s.at = q.at /\ s.held = q.held
      /\ s.op = (IF t = "part" THEN "interim" ELSE "body")
      /\ s.closed = (t = "part" \/ q.closed) /\ s.cancelled = q.cancelled
      /\ s.writesEnded = q.writesEnded /\ s.called = q.called /\ s.req = q.req
      /\ s.wire = r.wire /\ s.deaf = r.deaf
  <2>1. q.closed \in BOOLEAN
    BY <1>1, Zenon DEF ConnFits, EndFits
  <2> QED
    BY <2>1, <1>1, <1>5, Zenon DEF Fields
<1> HIDE DEF s
<1>8. ConnFits(s, n)
  BY <1>1, <1>3, <1>6, <1>7, InterimFits DEF i
<1>9. q.at # "Calling"
  BY <1>1 DEF ConnFits, OpFits, Calls
<1>10. CASE t = "part"
  BY <1>2, <1>4, <1>7, <1>8, <1>10, FinishGoes DEF Reads, Gots
<1>11. CASE t # "part"
  BY <1>2, <1>4, <1>7, <1>8, <1>11, GoesQuietly
<1> QED
  BY <1>10, <1>11

\* The rest of a response is taken.
LEMMA WriteRestGoes ==
  ASSUME HttpInv, NEW c \in DOMAIN conn, WriteRest(c)
  PROVE  \E s : Goes(c, s)
<1> DEFINE n == Len(asks[c])
           q == conn[c]
           e == q.out[1]
           behind == IF q.out[2] = "part" THEN SubSeq(q.wire, 1, Len(q.wire) - 1) ELSE q.wire
<1>1. ConnFits(q, n) /\ q.op = "writes" /\ ~q.closed
  BY Here DEF WriteRest
<1>2. OpFits(q) /\ EndFits(q) /\ CallsFit(q) /\ WireFits(q)
  BY <1>1 DEF ConnFits
<1>3. asks' = asks /\ handlers' = handlers /\ bodies' = bodies
  BY DEF WriteRest, shared
<1>4. OutFits(q) /\ LineFits(q) /\ q.deaf
  BY <1>1, <1>2, Zenon DEF WireFits, EndFits, Writes
<1>5. q.at \in {"Sending", "Draining", "Abandoned"}
  BY <1>1, <1>2 DEF OpFits, EndFits, TaskPlaces, Calls, Reads
<1>6. /\ e \in Entry /\ e.what = "answer" /\ e.req = q.req /\ e.whole
      /\ q.out[2] \in {"part", "nothing"}
  BY <1>4 DEF OutFits
<1>7. /\ q.wire \in Seq(Entry) /\ q.req \in Nat \ {0} /\ Ordered(q.wire, Exempt(q))
      /\ Exempt(q) \in BOOLEAN
  BY <1>2, Zenon DEF WireFits, Exempt, EndFits
<1>8. behind \in Seq(Entry) /\ Ordered(behind, Exempt(q)) /\ Ready(behind, q.req)
  <2>1. CASE q.out[2] = "part"
    <3>1. Begun(q.wire, q.req)
      BY <2>1, <1>1, <1>4, ZenonT(20) DEF LineFits
    <3> QED
      BY <3>1, <2>1, <1>7, OrderedFront DEF Begun
  <2>2. CASE q.out[2] = "nothing"
    BY <2>2, <1>1, <1>4, <1>7, Zenon DEF LineFits
  <2> QED
    BY <2>1, <2>2, <1>6
<1>9. ASSUME NEW s, DOMAIN s = Fields, s.at = q.at, s.op \in {"writes", "wrote"},
             s.held = q.held, s.closed = q.closed, s.cancelled = q.cancelled,
             s.writesEnded = q.writesEnded, s.deaf = q.deaf, s.called = q.called,
             s.req = q.req, s.wire \in Seq(Entry), Ordered(s.wire, Exempt(q)),
             OutFits(s), s.op = "wrote" /\ s.then = "Next" => Clean(s.wire, q.req + 1),
             s.op = "writes" => s.out[2] = "part" /\ Begun(s.wire, q.req),
             conn' = [conn EXCEPT ![c] = s]
      PROVE  \E r : Goes(c, r)
  <2>1. OpFits(s) /\ EndFits(s)
    BY <1>1, <1>2, <1>5, <1>9 DEF OpFits, EndFits, OpPlaces, Calls, Writes, TaskPlaces
  <2>2. CallsFit(s) /\ AskFits(s, n)
    BY <1>4, <1>5, <1>9 DEF CallsFit, AskFits, Calls
  <2>3. LineFits(s)
    BY <1>5, <1>9 DEF LineFits, Calls
  <2>4. Exempt(s) = Exempt(q)
    BY <1>9 DEF Exempt
  <2>5. WireFits(s)
    BY <2>3, <2>4, <1>7, <1>9 DEF WireFits, Reads
  <2>6. ConnFits(s, n)
    BY <2>1, <2>2, <2>5, <1>9 DEF ConnFits
  <2> QED
    BY <2>6, <1>3, <1>9, GoesQuietly, Zenon
<1> HIDE DEF e, behind
<1>10. CASE conn' = [conn EXCEPT ![c].op = "wrote", ![c].wire = Append(behind, e)]
  <2> DEFINE s == [q EXCEPT !.op = "wrote", !.wire = Append(behind, e)]
  <2>1. conn' = [conn EXCEPT ![c] = s]
    BY <1>10, Zenon
  <2>2. /\ DOMAIN s = Fields /\ s.at = q.at /\ s.op = "wrote"
        /\ s.held = q.held /\ s.closed = q.closed /\ s.cancelled = q.cancelled
        /\ s.writesEnded = q.writesEnded /\ s.deaf = q.deaf /\ s.called = q.called
        /\ s.req = q.req /\ s.wire = Append(behind, e) /\ s.out = q.out /\ s.then = q.then
    BY <1>1 DEF ConnFits, Fields
  <2> HIDE DEF s
  <2>3. /\ Append(behind, e) \in Seq(Entry) /\ Ordered(Append(behind, e), Exempt(q))
        /\ e.whole /\ ~e.close => Clean(Append(behind, e), q.req + 1)
    <3>1. /\ behind \in Seq(Entry) /\ q.req \in Nat \ {0} /\ Exempt(q) \in BOOLEAN
          /\ Ordered(behind, Exempt(q)) /\ Ready(behind, q.req)
          /\ e \in Entry /\ e.what = "answer" /\ e.req = q.req
      BY <1>6, <1>7, <1>8
    <3> QED
      BY <3>1, AnswerFollows, Zenon
  <2>4. OutFits(s)
    BY <2>2, <1>4 DEF OutFits
  <2>5. s.then = "Next" => ~e.close
    BY <2>2, <1>4 DEF OutFits, e
  <2>6. s.then = "Next" => Clean(s.wire, q.req + 1)
    BY <2>2, <2>3, <2>5, <1>6
  <2> QED
    BY <2>1, <2>2, <2>3, <2>4, <2>6, <1>9, Zenon
<1>11. CASE /\ q.out[2] = "nothing"
            /\ conn' = [conn EXCEPT ![c].out = <<e, "part">>,
                                    ![c].wire = Append(@, [e EXCEPT !.whole = FALSE])]
  <2> DEFINE d == [e EXCEPT !.whole = FALSE]
             s == [q EXCEPT !.out = <<e, "part">>, !.wire = Append(@, d)]
  <2>1. conn' = [conn EXCEPT ![c] = s]
    BY <1>11, Zenon
  <2>2. /\ DOMAIN s = Fields /\ s.at = q.at /\ s.op = q.op
        /\ s.held = q.held /\ s.closed = q.closed /\ s.cancelled = q.cancelled
        /\ s.writesEnded = q.writesEnded /\ s.deaf = q.deaf /\ s.called = q.called
        /\ s.req = q.req /\ s.wire = Append(q.wire, d) /\ s.out = <<e, "part">>
        /\ s.then = q.then
    BY <1>1 DEF ConnFits, Fields
  <2>3. d \in Entry /\ d.what = "answer" /\ d.req = q.req
    BY <1>6, Zenon DEF Entry
  <2> HIDE DEF s, d
  <2>4. behind = q.wire
    BY <1>11 DEF behind
  <2>5. /\ Append(q.wire, d) \in Seq(Entry) /\ Ordered(Append(q.wire, d), Exempt(q))
        /\ Append(q.wire, d) # <<>>
        /\ SubSeq(Append(q.wire, d), 1, Len(Append(q.wire, d)) - 1) = q.wire
    <3>1. /\ q.wire \in Seq(Entry) /\ q.req \in Nat \ {0} /\ Exempt(q) \in BOOLEAN
          /\ Ordered(q.wire, Exempt(q)) /\ Ready(q.wire, q.req)
      BY <2>4, <1>7, <1>8
    <3> QED
      BY <3>1, <2>3, AnswerFollows, Zenon
  <2>6. Begun(s.wire, q.req)
    BY <2>2, <2>4, <2>5, <1>8, Zenon DEF Begun
  <2>7. OutFits(s)
    <3>1. s.out \in Entry \X {"part", "nothing"} /\ s.out[1] = e /\ s.out[2] = "part"
      BY <2>2, <1>6
    <3>2. s.then \in {"Next", "Close", "Drain"} /\ (s.then = "Next" => ~e.close)
      BY <2>2, <1>4 DEF OutFits, e
    <3> QED
      BY <3>1, <3>2, <2>2, <1>6 DEF OutFits
  <2>8. s.op = "writes" /\ s.out[2] = "part"
    BY <2>2, <1>1
  <2>9. s.wire \in Seq(Entry) /\ Ordered(s.wire, Exempt(q))
    BY <2>2, <2>5
  <2> QED
    BY <2>1, <2>2, <2>6, <2>7, <2>8, <2>9, <1>9, Zenon
<1> QED
  BY <1>10, <1>11 DEF WriteRest, e, behind

\* A write is not taken; the writes end, and what is read is dropped.
LEMMA OpEndsGoes ==
  ASSUME HttpInv, NEW c \in DOMAIN conn, WriteFails(c) \/ DrainOp(c)
  PROVE  \E s : Goes(c, s)
<1> DEFINE n == Len(asks[c])
           q == conn[c]
<1>1. ConnFits(q, n) /\ OpFits(q) /\ EndFits(q) /\ CallsFit(q) /\ WireFits(q) /\ DOMAIN q = Fields
  BY Here DEF ConnFits
<1>2. asks' = asks /\ handlers' = handlers /\ bodies' = bodies
  BY DEF WriteFails, DrainOp, shared
<1>3. ASSUME NEW s, DOMAIN s = Fields, s.at = q.at, s.op \in {"failed", "drops", "done"},
             q.op \in {"writes", "ends", "drops"}, s.op = "failed" <=> q.op = "writes",
             s.held = q.held, s.closed = q.closed, s.cancelled = q.cancelled,
             s.writesEnded \in BOOLEAN,
             s.writesEnded => q.op \in {"ends", "drops"} \/ q.writesEnded, s.deaf = q.deaf,
             s.called = q.called, s.req = q.req, s.wire = q.wire,
             conn' = [conn EXCEPT ![c] = s]
      PROVE  \E r : Goes(c, r)
  <2>1. OpFits(s) /\ EndFits(s)
    BY <1>1, <1>3 DEF OpFits, EndFits, OpPlaces, Calls, Writes, Reads
  <2>2. CallsFit(s) /\ AskFits(s, n)
    BY <1>1, <1>3 DEF CallsFit, AskFits, AllAnswered, OpFits, Calls, Reads
  <2>3. LineFits(q) => LineFits(s)
    BY <1>1, <1>3 DEF LineFits, OpFits, Calls, Reads
  <2>4. Exempt(s) = Exempt(q)
    BY <1>3 DEF Exempt
  <2>5. WireFits(s)
    BY <2>3, <2>4, <1>1, <1>3 DEF WireFits, Reads
  <2>6. ConnFits(s, n)
    BY <2>1, <2>2, <2>5, <1>3 DEF ConnFits
  <2> QED
    BY <2>6, <1>2, <1>3, GoesQuietly, Zenon
<1>4. CASE WriteFails(c)
  <2> DEFINE s == [q EXCEPT !.op = "failed"]
  <2>1. conn' = [conn EXCEPT ![c] = s] /\ q.op = "writes"
    BY <1>4 DEF WriteFails
  <2>2. /\ DOMAIN s = Fields /\ s.at = q.at /\ s.op = "failed"
        /\ s.held = q.held /\ s.closed = q.closed /\ s.cancelled = q.cancelled
        /\ s.writesEnded = q.writesEnded /\ s.deaf = q.deaf /\ s.called = q.called
        /\ s.req = q.req /\ s.wire = q.wire
    BY <1>1 DEF Fields
  <2> HIDE DEF s
  <2>3. q.writesEnded \in BOOLEAN
    BY <1>1, Zenon DEF EndFits
  <2> QED
    BY <2>1, <2>2, <2>3, <1>3, Zenon
<1>5. CASE q.op = "ends" /\ conn' = [conn EXCEPT ![c].op = "drops", ![c].writesEnded = TRUE]
  <2> DEFINE s == [q EXCEPT !.op = "drops", !.writesEnded = TRUE]
  <2>1. conn' = [conn EXCEPT ![c] = s]
    BY <1>5, Zenon
  <2>2. /\ DOMAIN s = Fields /\ s.at = q.at /\ s.op = "drops"
        /\ s.held = q.held /\ s.closed = q.closed /\ s.cancelled = q.cancelled
        /\ s.writesEnded = TRUE /\ s.deaf = q.deaf /\ s.called = q.called
        /\ s.req = q.req /\ s.wire = q.wire
    BY <1>1 DEF Fields
  <2> HIDE DEF s
  <2> QED
    BY <2>1, <2>2, <1>3, <1>5, Zenon
<1>6. CASE q.op = "drops" /\ conn' = [conn EXCEPT ![c].op = "done"]
  <2> DEFINE s == [q EXCEPT !.op = "done"]
  <2>1. conn' = [conn EXCEPT ![c] = s]
    BY <1>6
  <2>2. /\ DOMAIN s = Fields /\ s.at = q.at /\ s.op = "done"
        /\ s.held = q.held /\ s.closed = q.closed /\ s.cancelled = q.cancelled
        /\ s.writesEnded = q.writesEnded /\ s.deaf = q.deaf /\ s.called = q.called
        /\ s.req = q.req /\ s.wire = q.wire
    BY <1>1 DEF Fields
  <2> HIDE DEF s
  <2>3. q.writesEnded \in BOOLEAN
    BY <1>1 DEF EndFits
  <2> QED
    BY <2>1, <2>2, <2>3, <1>3, <1>6, Zenon
<1> QED
  BY <1>4, <1>5, <1>6 DEF DrainOp

\* What the task, its cancellation and its client do besides.
LEMMA AlikeGoes ==
  ASSUME HttpInv, NEW c \in DOMAIN conn,
         BodyFollows(c) \/ CancelConn(c) \/ ClientSends(c) \/ ClientStops(c)
  PROVE  \E s : Goes(c, s)
<1> DEFINE n == Len(asks[c])
           q == conn[c]
<1>1. ConnFits(q, n) /\ DOMAIN q = Fields /\ q.cancelled \in BOOLEAN
  BY Here, Zenon DEF ConnFits, EndFits
<1>2. asks' = asks /\ handlers' = handlers /\ bodies' = bodies
  BY DEF BodyFollows, CancelConn, ClientSends, ClientStops, shared
<1>3. ASSUME NEW f \in {"inBody", "sent", "gone", "cancelled"}, NEW x, f = "cancelled" => x = TRUE,
             conn' = [conn EXCEPT ![c] = [q EXCEPT ![f] = x]]
      PROVE  \E s : Goes(c, s)
  <2> DEFINE s == [q EXCEPT ![f] = x]
  <2>1. /\ DOMAIN s = Fields
        /\ s.at = q.at /\ s.op = q.op /\ s.got = q.got /\ s.held = q.held /\ s.closed = q.closed
        /\ s.writesEnded = q.writesEnded /\ s.deaf = q.deaf /\ s.called = q.called
        /\ s.req = q.req /\ s.wire = q.wire /\ s.out = q.out /\ s.then = q.then
        /\ s.cancelled = IF f = "cancelled" THEN TRUE ELSE q.cancelled
    BY <1>1, <1>3, ZenonT(20) DEF Fields
  <2>2. conn' = [conn EXCEPT ![c] = s]
    BY <1>3
  <2> HIDE DEF s
  <2>3. s.cancelled \in BOOLEAN /\ (q.cancelled => s.cancelled)
    BY <2>1, <1>1, Zenon
  <2>4. ConnFits(s, n)
    BY <2>1, <2>3, <1>1, AlikeFits, Zenon
  <2> QED
    BY <2>1, <2>2, <2>4, <1>2, GoesQuietly, Zenon
<1>4. CASE BodyFollows(c)
  <2>1. conn' = [conn EXCEPT ![c] = [q EXCEPT !["inBody"] = TRUE]]
    BY <1>4, Zenon DEF BodyFollows
  <2> QED
    BY <2>1, <1>3, Zenon
<1>5. CASE CancelConn(c)
  <2>1. conn' = [conn EXCEPT ![c] = [q EXCEPT !["cancelled"] = TRUE]]
    BY <1>5, Zenon DEF CancelConn
  <2> QED
    BY <2>1, <1>3, Zenon
<1>6. CASE ClientSends(c)
  <2>1. PICK k \in {1, 2} : conn' = [conn EXCEPT ![c] = [q EXCEPT !["sent"] = q.sent + k]]
    BY <1>6, Zenon DEF ClientSends
  <2> QED
    BY <2>1, <1>3, Zenon
<1>7. CASE ClientStops(c)
  <2>1. conn' = [conn EXCEPT ![c] = [q EXCEPT !["gone"] = TRUE]]
    BY <1>7, Zenon DEF ClientStops
  <2> QED
    BY <2>1, <1>3, Zenon
<1> QED
  BY <1>4, <1>5, <1>6, <1>7

\* The task goes on with what its read gave.
LEMMA ReadDoneGoes ==
  ASSUME HttpInv, NEW c \in DOMAIN conn, ReadDone(c)
  PROVE  \E s : Goes(c, s)
<1>1. ConnFits(conn[c], Len(asks[c]))
  BY Here
<1>2. /\ conn[c].at = "Reading" /\ conn[c].op = "done"
      /\ Serve(c, conn[c].got) /\ asks' = asks
  BY DEF ReadDone
<1>3. conn[c].got \in Gots /\ (conn[c].got \in {"Answered", "handler"} => Exists(c))
  BY <1>1, <1>2, Zenon DEF ConnFits, OpFits, AskFits, Exists
<1> QED
  BY <1>2, <1>3, ServeGoes

-----------------------------------------------------------------------------
(* The theorems.                                                           *)

\* A connection that is new.
LEMMA FreshFits ==
  ASSUME NEW n
  PROVE  ConnFits(Fresh, n) /\ Fresh.at = "Next" /\ Fresh.held = 0
<1>1. /\ DOMAIN Fresh = Fields
      /\ Fresh.at = "Next" /\ Fresh.op = "none" /\ Fresh.held = 0 /\ Fresh.closed = FALSE
      /\ Fresh.writesEnded = FALSE /\ Fresh.deaf = FALSE /\ Fresh.called = {}
      /\ Fresh.req = 1 /\ Fresh.wire = <<>> /\ Fresh.cancelled = FALSE
  BY Zenon DEF Fresh, Fields
<1>2. OpFits(Fresh)
  BY <1>1, Bounds DEF OpFits, TaskPlaces, OpPlaces
<1>3. EndFits(Fresh)
  BY <1>1, Zenon DEF EndFits, Writes
<1>4. CallsFit(Fresh) /\ AskFits(Fresh, n)
  BY <1>1 DEF CallsFit, AskFits, Calls
<1>5. Answered(<<>>, Len(<<>>)) = 1..(1 - 1)
  BY DEF Answered
<1>6. Clean(<<>>, 1)
  BY <1>5 DEF Clean, Ready
<1>7. \A x : Ordered(<<>>, x)
  BY DEF Ordered
<1>8. WireFits(Fresh)
  BY <1>1, <1>6, <1>7 DEF WireFits, LineFits, Calls, Reads
<1> QED
  BY <1>1, <1>2, <1>3, <1>4, <1>8 DEF ConnFits

\* The invariant holds at the beginning.
LEMMA HttpInvInit == Init => HttpInv
<1> SUFFICES ASSUME Init
             PROVE  HttpInv
  OBVIOUS
<1>1. ConnInv
  BY FreshFits DEF Init, ConnInv
<1>2. \A c \in DOMAIN conn : conn[c].at = "Next" /\ conn[c].held = 0
  BY FreshFits DEF Init
<1>3. {c \in DOMAIN conn : conn[c].at = "Calling"} = {}
  BY <1>2
<1>4. BodyBytes = {}
  BY <1>2, Bounds DEF BodyBytes
<1>5. /\ Cardinality({c \in DOMAIN conn : conn[c].at = "Calling"}) = 0
      /\ Cardinality(BodyBytes) = 0
  BY <1>3, <1>4, FS_EmptySet, Zenon
<1>6. Counts
  BY <1>5, Bounds DEF Counts, Init
<1> QED
  BY <1>1, <1>6 DEF HttpInv

\* Every step keeps the invariant.
LEMMA HttpInvNext == HttpInv /\ [Next]_vars => HttpInv'
<1> SUFFICES ASSUME HttpInv, [Next]_vars
             PROVE  HttpInv'
  OBVIOUS
<1>1. CASE \E c \in DOMAIN conn : \E s : Goes(c, s)
  BY <1>1, GoesKeeps
<1>2. CASE ServerEnds \/ UNCHANGED vars
  BY <1>2, Zenon DEF ServerEnds, vars, shared, HttpInv, ConnInv, Counts, BodyBytes
<1>3. CASE Proceeds
  <2>1. PICK c \in DOMAIN conn :
          \/ Look(c) \/ BodyFollows(c) \/ ReadDone(c) \/ SendDone(c)
          \/ HandOn(c) \/ AnswerFailed(c) \/ Abandon(c) \/ Drop(c)
          \/ ReadEnds(c) \/ ReadHead(c) \/ WriteInterim(c) \/ ReadBody(c)
          \/ WriteFails(c) \/ DrainOp(c) \/ CancelConn(c)
    BY <1>3 DEF Proceeds
  <2>2. \E s : Goes(c, s)
    BY <2>1, LookGoes, AlikeGoes, ReadDoneGoes, SendDoneGoes, HandOnGoes, AnswerGoes, AbandonGoes,
       DropGoes, ReadEndsGoes, ReadHeadGoes, WriteInterimGoes, OpEndsGoes
  <2> QED
    BY <2>2, <1>1
<1>4. CASE \E c \in DOMAIN conn :
             \/ ReadTimeout(c) \/ GivesUp(c) \/ HandlerReturns(c) \/ HandlerFails(c)
             \/ WriteRest(c) \/ ClientSends(c) \/ ClientStops(c)
  <2>1. PICK c \in DOMAIN conn :
          \/ ReadTimeout(c) \/ GivesUp(c) \/ HandlerReturns(c) \/ HandlerFails(c)
          \/ WriteRest(c) \/ ClientSends(c) \/ ClientStops(c)
    BY <1>4
  <2>2. \E s : Goes(c, s)
    BY <2>1, ReadTimeoutGoes, SendDoneGoes, AnswerGoes, HandlerFailsGoes, WriteRestGoes, AlikeGoes
  <2> QED
    BY <2>2, <1>1
<1> QED
  BY <1>2, <1>3, <1>4 DEF Next

\* The inductive invariant holds, whatever the clients, the handlers, the
\* deadlines and the end of the server do.
THEOREM HttpInvHolds == Spec => []HttpInv
<1>1. Init => HttpInv
  BY HttpInvInit
<1>2. HttpInv /\ [Next]_vars => HttpInv'
  BY HttpInvNext
<1> QED
  BY <1>1, <1>2, PTL DEF Spec

\* The counts of handlers and of the bytes of bodies are exact, and within
\* their bounds: nothing is counted for good (Server, Held, Got::of).
THEOREM ServerCountsExactly == Spec => []CountsAreExact
<1>1. HttpInv => CountsAreExact
  <2> SUFFICES ASSUME HttpInv
               PROVE  CountsAreExact
    OBVIOUS
  <2>1. ASSUME NEW c \in DOMAIN conn, conn[c].at # "Reading", conn[c].op \in {"none", "done"}
        PROVE  conn[c].held = 0 \/ conn[c].at = "Abandoned"
    BY <2>1, Here DEF ConnFits, OpFits
  <2> QED
    BY <2>1 DEF HttpInv, Counts, CountsAreExact
<1> QED
  BY <1>1, HttpInvHolds, PTL

\* A request that the handler was called for is answered before its
\* connection is closed, unless the system did not take all that was written
\* (Conn::abandon, go_on_in_a_new_task).
THEOREM HandlersAreAnsweredFor == Spec => []CalledAreAnswered
<1>1. HttpInv => CalledAreAnswered
  <2> SUFFICES ASSUME HttpInv, NEW c \in DOMAIN conn, conn[c].at = "Ended", ~conn[c].deaf
               PROVE  conn[c].called \subseteq Answered(conn[c].wire, Len(conn[c].wire))
    BY DEF CalledAreAnswered
  <2> QED
    BY Here DEF ConnFits, CallsFit, AllAnswered, Calls
<1> QED
  BY <1>1, HttpInvHolds, PTL

\* What stands on a connection reads as one response after the other, though
\* its task, the task after it, a thread of the pool and the end of the
\* server write there.
THEOREM ResponsesReadInOrder == Spec => []WireReads
<1>1. HttpInv => WireReads
  <2> SUFFICES ASSUME HttpInv, NEW c \in DOMAIN conn
               PROVE  LET wire == conn[c].wire
                      IN /\ \A k \in DOMAIN wire : wire[k].what = "answer" =>
                               Answered(wire, k - 1) = 1..(wire[k].req - 1)
                         /\ \A k \in 2..Len(wire) :
                               \/ /\ wire[k-1].whole /\ ~wire[k-1].close
                                  /\ wire[k].req = IF wire[k-1].what = "100" THEN wire[k-1].req
                                                   ELSE wire[k-1].req + 1
                                  /\ ~(wire[k-1].what = "100" /\ wire[k].what = "100")
                               \/ conn[c].cancelled /\ wire[k].what = "100"
    BY DEF WireReads
  <2>1. Ordered(conn[c].wire, Exempt(conn[c]))
    BY Here, Zenon DEF ConnFits, WireFits
  <2> QED
    BY <2>1 DEF Ordered, Follows, Exempt
<1> QED
  BY <1>1, HttpInvHolds, PTL

=============================================================================
