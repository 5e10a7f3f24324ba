--------------------------- MODULE ListenerProofs ---------------------------
(***************************************************************************)
(* Proofs about module Listener, for any tasks, clients and programs: a    *)
(* client's connection is in one place and is not lost (NoClientIsLost),   *)
(* and a server that has the listener has it alone (ServerHasItAlone).     *)
(***************************************************************************)
EXTENDS Listener, FiniteSetTheorems, TLAPS

-----------------------------------------------------------------------------
(* The inductive invariant.                                                *)

OpPlaces == {"none", "queued", "look", "turn", "call", "hand", "ready", "leave", "finishing",
             "finished", "wakes"}
TaskPlaces == {"idle", "serves", "starts", "waits", "takes", "stops", "wakes", "ends", "ended"}
Results == {"Served", "GivenUp", "Error"}

Op == [at : OpPlaces, hand : Clients \cup {NONE, WAKE}, stopped : BOOLEAN,
       claim : {"WAITING", "TOOK", "GONE"}, value : Clients \cup {NONE} \cup Results,
       left : BOOLEAN, ready : Nat]

\* An accept has something in its hand only there, and a value from the
\* moment on that it has one; it claims when it takes a connection, and not
\* once its waiter has left.
Shape(r) ==
    /\ r \in Op
    /\ r.hand # NONE <=> r.at = "hand"
    /\ r.value # NONE <=> r.at \in {"ready", "leave", "finishing", "finished"}
    /\ r.at \in {"queued", "look", "turn", "call", "hand"} => r.claim # "TOOK"
    /\ r.left => r.claim # "WAITING" /\ r.at # "finished"

\* A task that is elsewhere has no accept; one whose waiter has not left has
\* its task waiting.
Bond(r, place) ==
    /\ place \in TaskPlaces
    /\ place \in {"idle", "serves", "starts", "takes"} => r.at = "none"
    /\ ~r.left /\ r.at \notin {"none", "wakes"} => place = "waits"

OpInv ==
    /\ op = [t \in Tasks |-> op[t]] /\ at = [t \in Tasks |-> at[t]]
    /\ current \in Tasks \cup {NONE}
    /\ \A t \in Tasks : Shape(op[t]) /\ Bond(op[t], at[t])

InBacklog(c) == \E i \in DOMAIN backlog : backlog[i] = c
InKept(c) == \E i \in DOMAIN kept : kept[i] = c

\* No client is in it twice.
Once(s) == \A i, j \in DOMAIN s : s[i] = s[j] /\ s[i] \in Clients => i = j

BacklogInv == backlog \in Seq(Clients \cup {WAKE}) /\ Once(backlog)
KeptInv == kept \in Seq(Clients) /\ Once(kept)

\* Those that are still to come have not come.
ComeInv ==
    /\ line \in Seq(Clients) /\ Once(line)
    /\ come \subseteq Clients /\ taken \subseteq Clients
    /\ \A i \in DOMAIN line : line[i] \notin come

\* The client is there and nowhere else.
OnlyAt(c, site, t) ==
    /\ InBacklog(c) <=> site = "backlog"
    /\ InKept(c) <=> site = "kept"
    /\ c \in taken <=> site = "taken"
    /\ \A u \in Tasks : op[u].hand = c <=> site = "hand" /\ u = t
    /\ \A u \in Tasks : op[u].value = c <=> site = "value" /\ u = t

\* What was kept apart from the tasks, and what a task has.
Somewhere(c) ==
    \/ \E site \in {"backlog", "kept", "taken"} : OnlyAt(c, site, NONE)
    \/ \E site \in {"hand", "value"}, t \in Tasks : OnlyAt(c, site, t)

\* A client that has come is in one place, one that has not in none.
Sited ==
    \A c \in Clients : IF c \in come THEN Somewhere(c) ELSE OnlyAt(c, "nowhere", NONE)

PlaceInv == BacklogInv /\ KeptInv /\ ComeInv /\ Sited

-----------------------------------------------------------------------------
(* Sequences.                                                              *)

\* What comes at the end of a sequence, and what goes at its head.
LEMMA AppendOnce ==
    ASSUME NEW S, NEW s \in Seq(S), NEW e \in S PROVE
    /\ Append(s, e) \in Seq(S)
    /\ \A c : (\E i \in DOMAIN Append(s, e) : Append(s, e)[i] = c)
                 <=> (\E i \in DOMAIN s : s[i] = c) \/ c = e
    /\ Once(s) /\ (e \in Clients => ~\E i \in DOMAIN s : s[i] = e) => Once(Append(s, e))
<1> DEFINE a == Append(s, e)
<1>1. /\ a \in Seq(S) /\ Len(s) \in Nat /\ Len(a) = Len(s) + 1
      /\ DOMAIN s = 1 .. Len(s) /\ DOMAIN a = 1 .. Len(a)
  OBVIOUS
<1>2. \A i \in 1 .. Len(s) : a[i] = s[i]
  OBVIOUS
<1>3. a[Len(s) + 1] = e
  OBVIOUS
<1> HIDE DEF a
<1>4. \A c : (\E i \in DOMAIN a : a[i] = c) <=> (\E i \in DOMAIN s : s[i] = c) \/ c = e
  BY <1>1, <1>2, <1>3
<1>5. ASSUME Once(s), e \in Clients => ~\E i \in DOMAIN s : s[i] = e,
             NEW i \in DOMAIN a, NEW j \in DOMAIN a, a[i] = a[j], a[i] \in Clients
      PROVE  i = j
  BY <1>1, <1>2, <1>3, <1>5 DEF Once
<1>6. Once(s) /\ (e \in Clients => ~\E i \in DOMAIN s : s[i] = e) => Once(a)
  BY <1>5 DEF Once
<1> QED BY <1>1, <1>4, <1>6, Zenon DEF a

\* What is left when the head has gone, and that the head was there once.
LEMMA TailOnce ==
    ASSUME NEW S, NEW s \in Seq(S), s # <<>> PROVE
    /\ Head(s) \in S /\ Tail(s) \in Seq(S)
    /\ \A c : (\E i \in DOMAIN s : s[i] = c)
                 <=> c = Head(s) \/ \E i \in DOMAIN Tail(s) : Tail(s)[i] = c
    /\ Once(s) => /\ Once(Tail(s))
                  /\ Head(s) \in Clients => ~\E i \in DOMAIN Tail(s) : Tail(s)[i] = Head(s)
<1> DEFINE a == Tail(s)
<1>1. /\ a \in Seq(S) /\ Len(s) \in Nat \ {0} /\ Len(a) = Len(s) - 1 /\ Head(s) = s[1]
      /\ DOMAIN s = 1 .. Len(s) /\ DOMAIN a = 1 .. Len(a)
  OBVIOUS
<1>2. \A i \in 1 .. Len(a) : a[i] = s[i + 1]
  OBVIOUS
<1> HIDE DEF a
<1>3. \A j \in DOMAIN s : j = 1 \/ (j - 1 \in DOMAIN a /\ a[j - 1] = s[j])
  BY <1>1, <1>2
<1>4. \A i \in DOMAIN a : i + 1 \in DOMAIN s /\ a[i] = s[i + 1]
  BY <1>1, <1>2
<1>5. \A c : (\E i \in DOMAIN s : s[i] = c) <=> c = Head(s) \/ \E i \in DOMAIN a : a[i] = c
  <2> TAKE c
  <2>1. (\E i \in DOMAIN s : s[i] = c) => c = Head(s) \/ \E i \in DOMAIN a : a[i] = c
    BY <1>1, <1>3
  <2>2. c = Head(s) => \E i \in DOMAIN s : s[i] = c
    BY <1>1
  <2>3. (\E i \in DOMAIN a : a[i] = c) => \E i \in DOMAIN s : s[i] = c
    BY <1>4
  <2> QED BY <2>1, <2>2, <2>3
<1>6. Once(s) => Once(a)
  <2>1. ASSUME Once(s), NEW i \in DOMAIN a, NEW j \in DOMAIN a, a[i] = a[j], a[i] \in Clients
        PROVE  i = j
    <3>1. i + 1 = j + 1
      BY <1>4, <2>1 DEF Once
    <3> QED BY <1>1, <3>1
  <2> QED BY <2>1 DEF Once
<1>7. Once(s) /\ Head(s) \in Clients => ~\E i \in DOMAIN a : a[i] = Head(s)
  <2>1. ASSUME Once(s), Head(s) \in Clients, NEW i \in DOMAIN a, a[i] = Head(s) PROVE FALSE
    <3>1. i + 1 = 1
      BY <1>1, <1>4, <2>1 DEF Once
    <3> QED BY <1>1, <3>1
  <2> QED BY <2>1
<1>8. Head(s) \in S
  BY <1>1
<1> QED BY <1>1, <1>5, <1>6, <1>7, <1>8 DEF a

\* A connection is kept, or taken from those that are kept.
LEMMA KeptGrows ==
    ASSUME KeptInv, NEW d \in Clients, ~InKept(d), kept' = Append(kept, d)
    PROVE  KeptInv' /\ \A c : InKept(c)' <=> InKept(c) \/ c = d
BY AppendOnce DEF KeptInv, InKept

\* The first of those that are kept is taken.
LEMMA KeptShrinks ==
    ASSUME KeptInv, kept # <<>>, kept' = Tail(kept), NEW d, d = Head(kept)
    PROVE  KeptInv' /\ d \in Clients /\ InKept(d) /\ \A c : InKept(c)' <=> InKept(c) /\ c # d
<1>1. kept \in Seq(Clients) /\ Once(kept)
  BY DEF KeptInv
<1>2. /\ d \in Clients /\ Tail(kept) \in Seq(Clients) /\ Once(Tail(kept))
      /\ ~\E i \in DOMAIN Tail(kept) : Tail(kept)[i] = d
  BY <1>1, TailOnce
<1>3. \A c : InKept(c) <=> c = d \/ \E i \in DOMAIN Tail(kept) : Tail(kept)[i] = c
  <2>1. \A c : (\E i \in DOMAIN kept : kept[i] = c)
                  <=> c = Head(kept) \/ \E i \in DOMAIN Tail(kept) : Tail(kept)[i] = c
    BY <1>1, TailOnce
  <2> QED BY <2>1 DEF InKept
<1>4. \A c : InKept(c)' <=> \E i \in DOMAIN Tail(kept) : Tail(kept)[i] = c
  BY DEF InKept
<1>5. KeptInv'
  BY <1>2 DEF KeptInv
<1> QED BY <1>2, <1>3, <1>4, <1>5

\* The system has one connection more, or one less.
LEMMA BacklogGrows ==
    ASSUME BacklogInv, NEW d \in Clients \cup {WAKE}, d \in Clients => ~InBacklog(d),
           backlog' = Append(backlog, d)
    PROVE  BacklogInv' /\ \A c : InBacklog(c)' <=> InBacklog(c) \/ c = d
BY AppendOnce DEF BacklogInv, InBacklog

\* The first of the backlog is taken.
LEMMA BacklogShrinks ==
    ASSUME BacklogInv, backlog # <<>>, backlog' = Tail(backlog), NEW d, d = Head(backlog)
    PROVE  /\ BacklogInv' /\ d \in Clients \cup {WAKE} /\ InBacklog(d)
           /\ \A c \in Clients : InBacklog(c)' <=> InBacklog(c) /\ c # d
<1>1. backlog \in Seq(Clients \cup {WAKE}) /\ Once(backlog)
  BY DEF BacklogInv
<1>2. /\ d \in Clients \cup {WAKE} /\ Tail(backlog) \in Seq(Clients \cup {WAKE})
      /\ Once(Tail(backlog))
      /\ d \in Clients => ~\E i \in DOMAIN Tail(backlog) : Tail(backlog)[i] = d
  BY <1>1, TailOnce
<1>3. \A c : InBacklog(c) <=> c = d \/ \E i \in DOMAIN Tail(backlog) : Tail(backlog)[i] = c
  <2>1. \A c : (\E i \in DOMAIN backlog : backlog[i] = c)
                  <=> c = Head(backlog) \/ \E i \in DOMAIN Tail(backlog) : Tail(backlog)[i] = c
    BY <1>1, TailOnce, Zenon
  <2> QED BY <2>1 DEF InBacklog
<1>4. \A c : InBacklog(c)' <=> \E i \in DOMAIN Tail(backlog) : Tail(backlog)[i] = c
  BY DEF InBacklog
<1>5. BacklogInv'
  BY <1>2 DEF BacklogInv
<1>6. InBacklog(d)
  BY <1>3
<1>7. ASSUME NEW c \in Clients PROVE InBacklog(c)' <=> InBacklog(c) /\ c # d
  BY <1>2, <1>3, <1>4
<1> QED BY <1>2, <1>5, <1>6, <1>7

-----------------------------------------------------------------------------
(* Where the connections are.                                              *)

Untouched(c) ==
    /\ InBacklog(c)' <=> InBacklog(c)
    /\ InKept(c)' <=> InKept(c)
    /\ c \in taken' <=> c \in taken
    /\ \A u \in Tasks : op'[u].hand = c <=> op[u].hand = c
    /\ \A u \in Tasks : op'[u].value = c <=> op[u].value = c

\* A client that is untouched stays where it is.
LEMMA StaysThere ==
    ASSUME NEW c, Untouched(c), NEW site, NEW t, OnlyAt(c, site, t) PROVE OnlyAt(c, site, t)'
BY DEF Untouched, OnlyAt

\* None is moved ...
LEMMA NoneMoves ==
    ASSUME Sited, come' = come, \A c \in Clients : Untouched(c) PROVE Sited'
<1> SUFFICES ASSUME NEW c \in Clients
             PROVE  IF c \in come' THEN Somewhere(c)' ELSE OnlyAt(c, "nowhere", NONE)'
  BY DEF Sited
<1>1. CASE c \in come
  BY <1>1, StaysThere DEF Sited, Somewhere
<1>2. CASE c \notin come
  BY <1>2, StaysThere DEF Sited
<1> QED BY <1>1, <1>2

\* ... or one is, to where it is then found.
LEMMA OneMoves ==
    ASSUME Sited, NEW d \in Clients, d \in come', come' \subseteq come \cup {d},
           come \subseteq come', Somewhere(d)', \A c \in Clients \ {d} : Untouched(c)
    PROVE  Sited'
<1> SUFFICES ASSUME NEW c \in Clients
             PROVE  IF c \in come' THEN Somewhere(c)' ELSE OnlyAt(c, "nowhere", NONE)'
  BY DEF Sited
<1>1. CASE c = d
  BY <1>1
<1>2. CASE c # d /\ c \in come
  BY <1>2, StaysThere DEF Sited, Somewhere
<1>3. CASE c # d /\ c \notin come
  BY <1>3, StaysThere DEF Sited
<1> QED BY <1>1, <1>2, <1>3

\* One that is found in one place is in no other.
LEMMA FoundIn ==
    ASSUME Sited, NEW d \in Clients PROVE
    /\ InBacklog(d) => /\ d \in come /\ ~InKept(d) /\ d \notin taken
                       /\ \A u \in Tasks : op[u].hand # d /\ op[u].value # d
    /\ InKept(d) => /\ d \in come /\ ~InBacklog(d) /\ d \notin taken
                    /\ \A u \in Tasks : op[u].hand # d /\ op[u].value # d
    /\ \A t \in Tasks : op[t].hand = d =>
          /\ d \in come /\ ~InBacklog(d) /\ ~InKept(d) /\ d \notin taken
          /\ \A u \in Tasks : op[u].value # d /\ (op[u].hand = d => u = t)
    /\ \A t \in Tasks : op[t].value = d =>
          /\ d \in come /\ ~InBacklog(d) /\ ~InKept(d) /\ d \notin taken
          /\ \A u \in Tasks : op[u].hand # d /\ (op[u].value = d => u = t)
<1>1. CASE d \notin come
  BY <1>1 DEF Sited, OnlyAt
<1>2. CASE d \in come
  <2>1. Somewhere(d)
    BY <1>2 DEF Sited
  <2>2. ASSUME NEW site \in {"backlog", "kept", "taken"}, OnlyAt(d, site, NONE)
        PROVE  /\ InBacklog(d) => site = "backlog"
               /\ InKept(d) => site = "kept"
               /\ d \in taken => site = "taken"
               /\ InBacklog(d) \/ InKept(d) \/ d \in taken
               /\ \A u \in Tasks : op[u].hand # d /\ op[u].value # d
    BY <2>2 DEF OnlyAt
  <2>3. ASSUME NEW site \in {"hand", "value"}, NEW t \in Tasks, OnlyAt(d, site, t)
        PROVE  /\ ~InBacklog(d) /\ ~InKept(d) /\ d \notin taken
               /\ \A u \in Tasks : op[u].hand = d <=> site = "hand" /\ u = t
               /\ \A u \in Tasks : op[u].value = d <=> site = "value" /\ u = t
    BY <2>3 DEF OnlyAt
  <2>4. CASE \E site \in {"backlog", "kept", "taken"} : OnlyAt(d, site, NONE)
    BY <1>2, <2>2, <2>4
  <2>5. CASE \E site \in {"hand", "value"}, t \in Tasks : OnlyAt(d, site, t)
    BY <1>2, <2>3, <2>5
  <2> QED BY <2>1, <2>4, <2>5 DEF Somewhere
<1> QED BY <1>1, <1>2

\* What else is the same, with the hands and values that hold a client.
Alike(x, y) == x = y \/ (x \notin Clients /\ y \notin Clients)

SameOps == \A u \in Tasks : Alike(op'[u].hand, op[u].hand) /\ Alike(op'[u].value, op[u].value)

\* When everything stays where it was, a client stays where it was.
LEMMA SameSites ==
    ASSUME Sited, SameOps, UNCHANGED <<come, taken>>,
           \A c \in Clients : (InBacklog(c)' <=> InBacklog(c)) /\ (InKept(c)' <=> InKept(c))
    PROVE  Sited'
<1>1. \A c \in Clients : Untouched(c)
  BY DEF Untouched, SameOps, Alike
<1> QED BY <1>1, NoneMoves

\* A step that changes neither the sequences nor the clients anybody has.
LEMMA StillSites ==
    ASSUME PlaceInv, SameOps, UNCHANGED <<backlog, kept, come, taken, line>>
    PROVE  PlaceInv'
<1>1. \A c \in Clients : (InBacklog(c)' <=> InBacklog(c)) /\ (InKept(c)' <=> InKept(c))
  BY DEF InBacklog, InKept
<1>2. BacklogInv' /\ KeptInv' /\ ComeInv'
  BY DEF PlaceInv, BacklogInv, KeptInv, ComeInv
<1> QED BY <1>1, <1>2, SameSites DEF PlaceInv

\* wake_the_call: a connection that is no client's.
LEMMA WakesSites ==
    ASSUME PlaceInv, SameOps, UNCHANGED <<kept, come, taken, line>>, WakeTheCall \/ NoWake
    PROVE  PlaceInv'
<1>1. CASE backlog' = backlog
  BY <1>1, StillSites
<1>2. CASE backlog' = Append(backlog, WAKE)
  <2>1. WAKE \notin Clients
    BY Marks
  <2>2. BacklogInv' /\ \A c \in Clients : InBacklog(c)' <=> InBacklog(c)
    BY <1>2, <2>1, BacklogGrows DEF PlaceInv
  <2>3. \A c \in Clients : InKept(c)' <=> InKept(c)
    BY DEF InKept
  <2>4. KeptInv' /\ ComeInv'
    BY DEF PlaceInv, KeptInv, ComeInv
  <2> QED BY <2>2, <2>3, <2>4, SameSites DEF PlaceInv
<1> QED BY <1>1, <1>2 DEF WakeTheCall, NoWake

\* A task's hands and values may change, those of the others do not.
OnlyOp(t) ==
    \A u \in Tasks \ {t} : op'[u].hand = op[u].hand /\ op'[u].value = op[u].value

\* One of those that are kept is had by an accept ...
LEMMA KeptIsHad ==
    ASSUME PlaceInv, NEW t \in Tasks, OnlyOp(t), kept # <<>>, kept' = Tail(kept),
           op'[t].value = Head(kept), op'[t].hand \notin Clients,
           op[t].value \notin Clients, op[t].hand \notin Clients,
           UNCHANGED <<backlog, come, taken, line>>
    PROVE  PlaceInv'
<1> DEFINE d == Head(kept)
<1>1. /\ KeptInv' /\ d \in Clients /\ InKept(d)
      /\ \A c : InKept(c)' <=> InKept(c) /\ c # d
  BY KeptShrinks DEF PlaceInv
<1>2. \A c : InBacklog(c)' <=> InBacklog(c)
  BY DEF InBacklog
<1>3. /\ d \in come /\ ~InBacklog(d) /\ d \notin taken
      /\ \A u \in Tasks : op[u].hand # d /\ op[u].value # d
  BY <1>1, FoundIn DEF PlaceInv
<1> HIDE DEF d
<1>4. op'[t].value = d
  BY DEF d
<1>5. PICK e : e = d
  OBVIOUS
<1>6. OnlyAt(e, "value", t)'
  BY <1>1, <1>2, <1>3, <1>4, <1>5 DEF OnlyAt, OnlyOp
<1>7. Somewhere(e)'
  BY <1>6 DEF Somewhere
<1>8. \A c \in Clients \ {e} : Untouched(c)
  BY <1>1, <1>2, <1>4, <1>5 DEF Untouched, OnlyOp
<1>9. Sited'
  BY <1>1, <1>3, <1>5, <1>7, <1>8, OneMoves DEF PlaceInv
<1>10. BacklogInv' /\ ComeInv'
  BY DEF PlaceInv, BacklogInv, ComeInv
<1> QED BY <1>1, <1>9, <1>10 DEF PlaceInv

\* ... or goes to a server (take_kept).
LEMMA KeptIsTaken ==
    ASSUME PlaceInv, kept # <<>>, kept' = Tail(kept), taken' = taken \cup {Head(kept)},
           UNCHANGED <<backlog, come, op, line>>
    PROVE  PlaceInv'
<1>1. PICK d : d = Head(kept)
  OBVIOUS
<1>2. /\ KeptInv' /\ d \in Clients /\ InKept(d)
      /\ \A c : InKept(c)' <=> InKept(c) /\ c # d
  BY <1>1, KeptShrinks DEF PlaceInv
<1>3. \A c : InBacklog(c)' <=> InBacklog(c)
  BY DEF InBacklog
<1>4. /\ d \in come /\ ~InBacklog(d) /\ d \notin taken
      /\ \A u \in Tasks : op[u].hand # d /\ op[u].value # d
  BY <1>2, FoundIn DEF PlaceInv
<1>5. OnlyAt(d, "taken", NONE)'
  BY <1>1, <1>2, <1>3, <1>4 DEF OnlyAt
<1>6. Somewhere(d)'
  BY <1>5 DEF Somewhere
<1>7. \A c \in Clients \ {d} : Untouched(c)
  BY <1>1, <1>2, <1>3 DEF Untouched
<1>8. Sited'
  BY <1>2, <1>4, <1>6, <1>7, OneMoves DEF PlaceInv
<1>9. BacklogInv' /\ ComeInv'
  BY <1>1, <1>2 DEF PlaceInv, BacklogInv, ComeInv
<1> QED BY <1>2, <1>8, <1>9 DEF PlaceInv

\* What an accept has in its hand, or as its value, is kept again.
LEMMA KeptAgain ==
    ASSUME PlaceInv, NEW t \in Tasks, OnlyOp(t), NEW d \in Clients,
           op[t].hand = d \/ op[t].value = d, kept' = Append(kept, d),
           op'[t].value \notin Clients, op'[t].hand \notin Clients,
           op[t].value \in Clients => op[t].hand \notin Clients,
           UNCHANGED <<backlog, come, taken, line>>
    PROVE  PlaceInv'
<1>1. /\ d \in come /\ ~InBacklog(d) /\ ~InKept(d) /\ d \notin taken
      /\ \A u \in Tasks : u # t => op[u].hand # d /\ op[u].value # d
  BY FoundIn DEF PlaceInv
<1>2. KeptInv' /\ \A c : InKept(c)' <=> InKept(c) \/ c = d
  BY <1>1, KeptGrows DEF PlaceInv
<1>3. \A c : InBacklog(c)' <=> InBacklog(c)
  BY DEF InBacklog
<1>4. OnlyAt(d, "kept", NONE)'
  BY <1>1, <1>2, <1>3 DEF OnlyAt, OnlyOp
<1>5. Somewhere(d)'
  BY <1>4 DEF Somewhere
<1>6. \A c \in Clients \ {d} : Untouched(c)
  BY <1>1, <1>2, <1>3 DEF Untouched, OnlyOp
<1>7. Sited'
  BY <1>1, <1>5, <1>6, OneMoves DEF PlaceInv
<1>8. BacklogInv' /\ ComeInv'
  BY DEF PlaceInv, BacklogInv, ComeInv
<1> QED BY <1>2, <1>7, <1>8 DEF PlaceInv

\* A task goes on with the value of its accept.
LEMMA ValueIsTaken ==
    ASSUME PlaceInv, NEW t \in Tasks, OnlyOp(t), taken' = taken \cup ({op[t].value} \cap Clients),
           op'[t].value \notin Clients, op'[t].hand \notin Clients, op[t].hand \notin Clients,
           UNCHANGED <<backlog, kept, come, line>>
    PROVE  PlaceInv'
<1>1. CASE op[t].value \notin Clients
  <2>1. SameOps /\ taken' = taken
    BY <1>1 DEF SameOps, Alike, OnlyOp
  <2> QED BY <2>1, StillSites
<1>2. CASE op[t].value \in Clients
  <2>1. PICK d \in Clients : d = op[t].value
    BY <1>2
  <2>2. /\ d \in come /\ ~InBacklog(d) /\ ~InKept(d) /\ d \notin taken
        /\ \A u \in Tasks : u # t => op[u].hand # d /\ op[u].value # d
    BY <2>1, FoundIn DEF PlaceInv
  <2>3. \A c : (InBacklog(c)' <=> InBacklog(c)) /\ (InKept(c)' <=> InKept(c))
    BY DEF InBacklog, InKept
  <2>4. OnlyAt(d, "taken", NONE)'
    BY <2>1, <2>2, <2>3 DEF OnlyAt, OnlyOp
  <2>5. Somewhere(d)'
    BY <2>4 DEF Somewhere
  <2>6. \A c \in Clients \ {d} : Untouched(c)
    BY <2>1, <2>3 DEF Untouched, OnlyOp
  <2>7. Sited'
    BY <2>2, <2>5, <2>6, OneMoves DEF PlaceInv
  <2>8. BacklogInv' /\ KeptInv' /\ ComeInv'
    BY DEF PlaceInv, BacklogInv, KeptInv, ComeInv
  <2> QED BY <2>7, <2>8 DEF PlaceInv
<1> QED BY <1>1, <1>2

\* An accept has it as its value that it had in its hand.
LEMMA HandIsHad ==
    ASSUME PlaceInv, NEW t \in Tasks, OnlyOp(t), op[t].hand \in Clients,
           op'[t].value = op[t].hand, op'[t].hand \notin Clients, op[t].value \notin Clients,
           UNCHANGED <<backlog, kept, come, taken, line>>
    PROVE  PlaceInv'
<1>1. PICK d \in Clients : d = op[t].hand
  OBVIOUS
<1>2. /\ d \in come /\ ~InBacklog(d) /\ ~InKept(d) /\ d \notin taken
      /\ \A u \in Tasks : u # t => op[u].hand # d /\ op[u].value # d
  BY <1>1, FoundIn DEF PlaceInv
<1>3. \A c : (InBacklog(c)' <=> InBacklog(c)) /\ (InKept(c)' <=> InKept(c))
  BY DEF InBacklog, InKept
<1>4. OnlyAt(d, "value", t)'
  BY <1>1, <1>2, <1>3 DEF OnlyAt, OnlyOp
<1>5. Somewhere(d)'
  BY <1>4 DEF Somewhere
<1>6. \A c \in Clients \ {d} : Untouched(c)
  BY <1>1, <1>3 DEF Untouched, OnlyOp
<1>7. Sited'
  BY <1>2, <1>5, <1>6, OneMoves DEF PlaceInv
<1>8. BacklogInv' /\ KeptInv' /\ ComeInv'
  BY DEF PlaceInv, BacklogInv, KeptInv, ComeInv
<1> QED BY <1>7, <1>8 DEF PlaceInv

\* The system gives a connection to an accept ...
LEMMA BacklogInHand ==
    ASSUME PlaceInv, NEW t \in Tasks, OnlyOp(t), backlog # <<>>, backlog' = Tail(backlog),
           op'[t].hand = Head(backlog), op[t].hand \notin Clients,
           op'[t].value = op[t].value, op[t].value \notin Clients,
           UNCHANGED <<kept, come, taken, line>>
    PROVE  PlaceInv'
<1>1. PICK d : d = Head(backlog)
  OBVIOUS
<1>2. /\ BacklogInv' /\ d \in Clients \cup {WAKE} /\ InBacklog(d)
      /\ \A c \in Clients : InBacklog(c)' <=> InBacklog(c) /\ c # d
  BY <1>1, BacklogShrinks DEF PlaceInv
<1>3. \A c : InKept(c)' <=> InKept(c)
  BY DEF InKept
<1>4. KeptInv' /\ ComeInv'
  BY DEF PlaceInv, KeptInv, ComeInv
<1>5. CASE d \notin Clients
  <2>1. SameOps
    BY <1>1, <1>5 DEF SameOps, Alike, OnlyOp
  <2>2. Sited'
    BY <1>2, <1>3, <1>5, <2>1, SameSites DEF PlaceInv
  <2> QED BY <1>2, <1>4, <2>2 DEF PlaceInv
<1>6. CASE d \in Clients
  <2>1. /\ d \in come /\ ~InKept(d) /\ d \notin taken
        /\ \A u \in Tasks : op[u].hand # d /\ op[u].value # d
    BY <1>2, <1>6, FoundIn DEF PlaceInv
  <2>2. OnlyAt(d, "hand", t)'
    BY <1>1, <1>2, <1>3, <1>6, <2>1 DEF OnlyAt, OnlyOp
  <2>3. Somewhere(d)'
    BY <2>2 DEF Somewhere
  <2>4. \A c \in Clients \ {d} : Untouched(c)
    BY <1>1, <1>2, <1>3 DEF Untouched, OnlyOp
  <2>5. Sited'
    BY <1>6, <2>1, <2>3, <2>4, OneMoves DEF PlaceInv
  <2> QED BY <1>2, <1>4, <2>5 DEF PlaceInv
<1> QED BY <1>5, <1>6

\* ... or to the listener (keep_the_ready), which leaves those that were made
\* to wake.
LEMMA BacklogIsKept ==
    ASSUME PlaceInv, SameOps, backlog # <<>>, backlog' = Tail(backlog),
           IF Head(backlog) = WAKE THEN kept' = kept ELSE kept' = Append(kept, Head(backlog)),
           UNCHANGED <<come, taken, line>>
    PROVE  PlaceInv'
<1>1. PICK d : d = Head(backlog)
  OBVIOUS
<1>2. /\ BacklogInv' /\ d \in Clients \cup {WAKE} /\ InBacklog(d)
      /\ \A c \in Clients : InBacklog(c)' <=> InBacklog(c) /\ c # d
  BY <1>1, BacklogShrinks DEF PlaceInv
<1>3. ComeInv' /\ WAKE \notin Clients
  BY Marks DEF PlaceInv, ComeInv
<1>4. CASE d = WAKE
  <2>1. KeptInv' /\ \A c : InKept(c)' <=> InKept(c)
    BY <1>1, <1>4 DEF InKept, PlaceInv, KeptInv
  <2>2. Sited'
    BY <1>2, <1>3, <1>4, <2>1, SameSites DEF PlaceInv
  <2> QED BY <1>2, <1>3, <2>1, <2>2 DEF PlaceInv
<1>5. CASE d # WAKE
  <2>1. /\ d \in Clients /\ d \in come /\ ~InKept(d) /\ d \notin taken
        /\ \A u \in Tasks : op[u].hand # d /\ op[u].value # d
    BY <1>2, <1>5, FoundIn DEF PlaceInv
  <2>2. KeptInv' /\ \A c : InKept(c)' <=> InKept(c) \/ c = d
    BY <1>1, <1>5, <2>1, KeptGrows DEF PlaceInv
  <2>3. \A u \in Tasks : op'[u].hand # d /\ op'[u].value # d
    BY <2>1 DEF SameOps, Alike
  <2>4. OnlyAt(d, "kept", NONE)'
    BY <1>2, <2>1, <2>2, <2>3 DEF OnlyAt
  <2>5. Somewhere(d)'
    BY <2>4 DEF Somewhere
  <2>6. \A c \in Clients \ {d} : Untouched(c)
    BY <1>2, <2>2 DEF Untouched, SameOps, Alike
  <2>7. Sited'
    BY <2>1, <2>5, <2>6, OneMoves DEF PlaceInv
  <2> QED BY <1>2, <1>3, <2>2, <2>7 DEF PlaceInv
<1> QED BY <1>4, <1>5

\* A client connects that had not come.
LEMMA ConnectSites == ASSUME PlaceInv, Connect PROVE PlaceInv'
<1>1. PICK d : d = Head(line)
  OBVIOUS
<1>2. line \in Seq(Clients) /\ line # <<>> /\ Once(line) /\ line' = Tail(line)
  BY DEF Connect, PlaceInv, ComeInv
<1>3. /\ d \in Clients /\ line' \in Seq(Clients) /\ Once(line')
      /\ ~\E i \in DOMAIN line' : line'[i] = d
  BY <1>1, <1>2, TailOnce
<1>4. \A c : (\E i \in DOMAIN line : line[i] = c) <=> c = d \/ \E i \in DOMAIN line' : line'[i] = c
  BY <1>1, <1>2, TailOnce
<1>5. d \notin come /\ come' = come \cup {d} /\ come \subseteq Clients /\ taken \subseteq Clients
  BY <1>1, <1>4 DEF Connect, PlaceInv, ComeInv
<1>6. \A i \in DOMAIN line' : line'[i] \notin come'
  BY <1>3, <1>4, <1>5, Zenon DEF PlaceInv, ComeInv
<1>7. ComeInv'
  BY <1>3, <1>5, <1>6 DEF ComeInv, Connect
<1>8. OnlyAt(d, "nowhere", NONE)
  BY <1>3, <1>5 DEF PlaceInv, Sited
<1>9. BacklogInv' /\ \A c : InBacklog(c)' <=> InBacklog(c) \/ c = d
  BY <1>1, <1>3, <1>8, BacklogGrows DEF Connect, PlaceInv, OnlyAt
<1>10. KeptInv' /\ \A c : InKept(c)' <=> InKept(c)
  BY DEF Connect, PlaceInv, KeptInv, InKept
<1>11. OnlyAt(d, "backlog", NONE)'
  BY <1>8, <1>9, <1>10 DEF OnlyAt, Connect
<1>12. Somewhere(d)'
  BY <1>11 DEF Somewhere
<1>13. \A c \in Clients \ {d} : Untouched(c)
  BY <1>9, <1>10 DEF Untouched, Connect
<1>14. Sited'
  BY <1>3, <1>5, <1>12, <1>13, OneMoves DEF PlaceInv
<1> QED BY <1>7, <1>9, <1>10, <1>14 DEF PlaceInv

-----------------------------------------------------------------------------
(* The accepts and their tasks.                                            *)

\* What another's step may do to an accept: it ends its waiting for its turn,
\* and tells it to stop.
Kin(r, q) ==
    /\ q \in Op
    /\ q.hand = r.hand /\ q.value = r.value /\ q.claim = r.claim /\ q.left = r.left
    /\ q.at = r.at \/ (r.at = "turn" /\ q.at = "look")
    /\ r.stopped => q.stopped

\* What holds of an accept holds of its kin.
LEMMA KinKeeps ==
    ASSUME NEW r, NEW q, NEW place, Shape(r), Bond(r, place), Kin(r, q)
    PROVE  Shape(q) /\ Bond(q, place)
BY DEF Shape, Bond, Kin

\* A step of a task, or of the thread of its accept.
Frame(t) ==
    /\ op' = [u \in Tasks |-> op'[u]] /\ at' = [u \in Tasks |-> at'[u]]
    /\ current' \in Tasks \cup {NONE}
    /\ \A u \in Tasks \ {t} : at'[u] = at[u] /\ Kin(op[u], op'[u])

\* In such a step it suffices to look at the accept that moves.
LEMMA OpMoves ==
    ASSUME OpInv, NEW t \in Tasks, Frame(t), Shape(op'[t]), Bond(op'[t], at'[t])
    PROVE  OpInv'
<1>1. \A u \in Tasks : Shape(op'[u]) /\ Bond(op'[u], at'[u])
  BY KinKeeps DEF Frame, OpInv
<1>2. \A u \in Tasks : Shape(op[u])' /\ Bond(op[u], at[u])'
  BY <1>1 DEF Shape, Bond
<1> QED BY <1>2 DEF OpInv, Frame

\* An accept that nobody touches, and one whose waiting for its turn ends.
LEMMA SelfKin == ASSUME NEW r \in Op PROVE Kin(r, r)
BY DEF Kin

\* An accept that waits its turn, and looks again.
LEMMA TurnedKin ==
    ASSUME NEW r \in Op, r.at = "turn" PROVE Kin(r, [r EXCEPT !.at = "look"])
<1> DEFINE q == [r EXCEPT !.at = "look"]
<1>1. q \in Op
  BY DEF Op, OpPlaces
<1>2. /\ q.at = "look" /\ q.hand = r.hand /\ q.value = r.value /\ q.claim = r.claim
      /\ q.left = r.left /\ q.stopped = r.stopped
  BY DEF Op
<1> QED BY <1>1, <1>2 DEF Kin

\* What the notification does, and what it leaves.
LEMMA NotifiedKin ==
    ASSUME NEW ops, \A u \in Tasks : ops[u] \in Op
    PROVE  /\ Notified(ops) = [u \in Tasks |-> Notified(ops)[u]]
           /\ \A u \in Tasks : Kin(ops[u], Notified(ops)[u])
<1>1. \A u \in Tasks : Notified(ops)[u] = IF ops[u].at = "turn" THEN [ops[u] EXCEPT !.at = "look"]
                                                               ELSE ops[u]
  BY DEF Notified
<1>2. ASSUME NEW u \in Tasks PROVE Kin(ops[u], Notified(ops)[u])
  BY <1>1, SelfKin, TurnedKin, Zenon
<1>3. Notified(ops) = [u \in Tasks |-> Notified(ops)[u]]
  BY DEF Notified
<1> QED BY <1>2, <1>3

\* A step that changes one accept.
LEMMA ExceptFrame ==
    ASSUME OpInv, NEW t \in Tasks, NEW r, op' = [op EXCEPT ![t] = r],
           at' = at \/ \E place : Goes(t, place), current' \in Tasks \cup {NONE}
    PROVE  /\ Frame(t) /\ op'[t] = r
           /\ \A u \in Tasks \ {t} : op'[u] = op[u] /\ at'[u] = at[u]
<1>1. \A u \in Tasks : op[u] \in Op
  BY DEF OpInv, Shape
<1>2. op' = [u \in Tasks |-> op'[u]] /\ op'[t] = r /\ \A u \in Tasks \ {t} : op'[u] = op[u]
  BY DEF OpInv
<1>3. at' = [u \in Tasks |-> at'[u]] /\ \A u \in Tasks \ {t} : at'[u] = at[u]
  BY DEF OpInv, Goes
<1> QED BY <1>1, <1>2, <1>3, SelfKin DEF Frame

\* One that changes one, and notifies.
LEMMA NotifiedFrame ==
    ASSUME OpInv, NEW t \in Tasks, NEW r \in Op, r.at # "turn",
           op' = Notified([op EXCEPT ![t] = r]),
           at' = at \/ \E place : Goes(t, place), current' \in Tasks \cup {NONE}
    PROVE  /\ Frame(t) /\ op'[t] = r
           /\ \A u \in Tasks \ {t} : at'[u] = at[u]
<1> DEFINE ops == [op EXCEPT ![t] = r]
<1>1. /\ \A u \in Tasks : ops[u] \in Op
      /\ ops[t] = r /\ \A u \in Tasks \ {t} : ops[u] = op[u]
  BY DEF OpInv, Shape
<1>2. op' = Notified(ops)
  OBVIOUS
<1> HIDE DEF ops
<1>3. op' = [u \in Tasks |-> op'[u]] /\ \A u \in Tasks : Kin(ops[u], op'[u])
  BY <1>1, <1>2, NotifiedKin, Zenon
<1>4. op'[t] = r
  BY <1>1, <1>2 DEF Notified
<1>5. at' = [u \in Tasks |-> at'[u]] /\ \A u \in Tasks \ {t} : at'[u] = at[u]
  BY DEF OpInv, Goes
<1> QED BY <1>1, <1>3, <1>4, <1>5, Zenon DEF Frame

\* One that changes none.
LEMMA GoesFrame ==
    ASSUME OpInv, NEW t \in Tasks, op' = op, at' = at \/ \E place : Goes(t, place),
           current' \in Tasks \cup {NONE}
    PROVE  Frame(t) /\ \A u \in Tasks \ {t} : at'[u] = at[u]
<1>1. op' = [op EXCEPT ![t] = op[t]]
  BY DEF OpInv
<1> QED BY <1>1, ExceptFrame, Zenon

\* The others' hands and values are theirs.
LEMMA FrameOps ==
    ASSUME NEW t \in Tasks, Frame(t) PROVE OnlyOp(t)
BY DEF Frame, Kin, OnlyOp

\* One whose own hand and value hold no client either has moved none.
LEMMA FrameSame ==
    ASSUME NEW t \in Tasks, Frame(t), Alike(op'[t].hand, op[t].hand),
           Alike(op'[t].value, op[t].value)
    PROVE  SameOps
BY DEF Frame, Kin, SameOps, Alike

\* What there is to know of NoAccept, and of the results that are no clients.
LEMMA NoAcceptFacts ==
    /\ NoAccept \in Op /\ NoAccept.at = "none" /\ NoAccept.hand = NONE /\ NoAccept.value = NONE
    /\ ~NoAccept.left /\ NoAccept.claim = "WAITING" /\ ~NoAccept.stopped
    /\ NONE \notin Clients /\ WAKE \notin Clients /\ NONE # WAKE
    /\ \A v \in Results : v \notin Clients /\ v # NONE
BY Marks DEF NoAccept, Op, OpPlaces, Results

ClientInv == OpInv /\ PlaceInv

\* An accept that goes on stays bound to its task as it was.
LEMMA BondStays ==
    ASSUME NEW r, NEW q, NEW place, Bond(r, place), q.left = r.left, r.at \notin {"none", "wakes"}
    PROVE  Bond(q, place)
BY DEF Bond

\* TcpListenerHandle::accept, before the call.
LEMMA LookKeeps == ASSUME ClientInv, NEW t \in Tasks, Look(t) PROVE ClientInv'
<1>0. /\ Shape(op[t]) /\ Bond(op[t], at[t]) /\ op[t] \in Op /\ PlaceInv
      /\ op = [u \in Tasks |-> op[u]] /\ at = [u \in Tasks |-> at[u]]
      /\ current \in Tasks \cup {NONE}
  BY DEF ClientInv, OpInv, Shape
<1>1. CASE Foreign(t)
  <2> DEFINE r == [op[t] EXCEPT !.at = "finishing", !.value = "Served"]
  <2>1. /\ op' = [op EXCEPT ![t] = r] /\ at' = at
        /\ current' \in Tasks \cup {NONE}
    BY <1>0, <1>1 DEF Look, Op
  <2>2. /\ r \in Op /\ r.at = "finishing" /\ r.hand = op[t].hand /\ r.value = "Served"
        /\ r.claim = op[t].claim /\ r.left = op[t].left /\ r.stopped = op[t].stopped
    BY <1>0, <1>1, NoAcceptFacts, Zenon DEF Op, OpPlaces, Results, NoAccept
  <2> HIDE DEF r
  <2>3. Frame(t) /\ op'[t] = r
    BY <2>1, ExceptFrame, Zenon DEF ClientInv
  <2>4. Shape(r)
    BY <1>0, <1>1, <2>2, NoAcceptFacts DEF Shape, Look, Results
  <2>5. Bond(r, at'[t])
    BY <1>0, <2>1, <2>2, BondStays DEF Look
  <2>6. OpInv'
    BY <2>3, <2>4, <2>5, OpMoves DEF ClientInv
  <2>7. PlaceInv'
    <3>1. SameOps
      BY <1>0, <1>1, <2>2, <2>3, FrameSame, NoAcceptFacts, Zenon DEF Alike, Shape, Look, Results
    <3>2. UNCHANGED <<backlog, kept, come, taken, line>>
      BY <1>1 DEF Look
    <3> QED BY <1>0, <3>1, <3>2, StillSites
  <2> QED BY <2>6, <2>7 DEF ClientInv
<1>2. CASE ~Foreign(t) /\ GivenUp(t)
  <2> DEFINE r == [op[t] EXCEPT !.at = "finishing", !.value = "GivenUp"]
  <2>1. /\ op' = [op EXCEPT ![t] = r] /\ at' = at
        /\ current' \in Tasks \cup {NONE}
    BY <1>0, <1>2 DEF Look, Op
  <2>2. /\ r \in Op /\ r.at = "finishing" /\ r.hand = op[t].hand /\ r.value = "GivenUp"
        /\ r.claim = op[t].claim /\ r.left = op[t].left /\ r.stopped = op[t].stopped
    BY <1>0, <1>2, NoAcceptFacts, Zenon DEF Op, OpPlaces, Results, NoAccept
  <2> HIDE DEF r
  <2>3. Frame(t) /\ op'[t] = r
    BY <2>1, ExceptFrame, Zenon DEF ClientInv
  <2>4. Shape(r)
    BY <1>0, <1>2, <2>2, NoAcceptFacts DEF Shape, Look, Results
  <2>5. Bond(r, at'[t])
    BY <1>0, <2>1, <2>2, BondStays DEF Look
  <2>6. OpInv'
    BY <2>3, <2>4, <2>5, OpMoves DEF ClientInv
  <2>7. PlaceInv'
    <3>1. SameOps
      BY <1>0, <1>2, <2>2, <2>3, FrameSame, NoAcceptFacts, Zenon DEF Alike, Shape, Look, Results
    <3>2. UNCHANGED <<backlog, kept, come, taken, line>>
      BY <1>2 DEF Look
    <3> QED BY <1>0, <3>1, <3>2, StillSites
  <2> QED BY <2>6, <2>7 DEF ClientInv
<1>3. CASE ~Foreign(t) /\ ~GivenUp(t) /\ kept # <<>>
  <2> DEFINE r == [op[t] EXCEPT !.at = "finishing", !.value = Head(kept), !.claim = "TOOK"]
  <2>p. Head(kept) \in Clients
    BY <1>0, <1>3, TailOnce DEF PlaceInv, KeptInv
  <2>1. /\ op' = [op EXCEPT ![t] = r] /\ at' = at
        /\ current' \in Tasks \cup {NONE}
    BY <1>0, <1>3, <2>p DEF Look, Op
  <2>2. /\ r \in Op /\ r.at = "finishing" /\ r.hand = op[t].hand /\ r.value = Head(kept)
        /\ r.claim = "TOOK" /\ r.left = op[t].left /\ r.stopped = op[t].stopped
    BY <1>0, <1>3, <2>p, NoAcceptFacts, Zenon DEF Op, OpPlaces, Results, NoAccept
  <2> HIDE DEF r
  <2>3. Frame(t) /\ op'[t] = r
    BY <2>1, ExceptFrame, Zenon DEF ClientInv
  <2>4. Shape(r)
    BY <1>0, <1>3, <2>2, <2>p, NoAcceptFacts DEF Shape, Look, Results
  <2>5. Bond(r, at'[t])
    BY <1>0, <2>1, <2>2, BondStays DEF Look
  <2>6. OpInv'
    BY <2>3, <2>4, <2>5, OpMoves DEF ClientInv
  <2>7. PlaceInv'
    <3>1. OnlyOp(t)
      BY <2>3, FrameOps
    <3>2. /\ op[t].value \notin Clients /\ op[t].hand \notin Clients
          /\ r.hand \notin Clients /\ r.value = Head(kept)
      BY <1>0, <1>3, <2>2, NoAcceptFacts DEF Shape, Look
    <3>3. kept' = Tail(kept) /\ UNCHANGED <<backlog, come, taken, line>>
      BY <1>3 DEF Look
    <3> QED BY <1>0, <1>3, <2>3, <3>1, <3>2, <3>3, KeptIsHad
  <2> QED BY <2>6, <2>7 DEF ClientInv
<1>4. CASE ~Foreign(t) /\ ~GivenUp(t) /\ kept = <<>> /\ current # NONE
  <2> DEFINE r == [op[t] EXCEPT !.at = "turn"]
  <2>1. /\ op' = [op EXCEPT ![t] = r] /\ at' = at
        /\ current' \in Tasks \cup {NONE}
    BY <1>0, <1>4 DEF Look, Op
  <2>2. /\ r \in Op /\ r.at = "turn" /\ r.hand = op[t].hand /\ r.value = op[t].value
        /\ r.claim = op[t].claim /\ r.left = op[t].left /\ r.stopped = op[t].stopped
    BY <1>0, <1>4, NoAcceptFacts DEF Op, OpPlaces, Results, NoAccept
  <2> HIDE DEF r
  <2>3. Frame(t) /\ op'[t] = r
    BY <2>1, ExceptFrame, Zenon DEF ClientInv
  <2>4. Shape(r)
    BY <1>0, <1>4, <2>2, NoAcceptFacts DEF Shape, Look, Results
  <2>5. Bond(r, at'[t])
    BY <1>0, <2>1, <2>2, BondStays DEF Look
  <2>6. OpInv'
    BY <2>3, <2>4, <2>5, OpMoves DEF ClientInv
  <2>7. PlaceInv'
    <3>1. SameOps
      BY <1>0, <1>4, <2>2, <2>3, FrameSame, NoAcceptFacts DEF Alike, Shape, Look, Results
    <3>2. UNCHANGED <<backlog, kept, come, taken, line>>
      BY <1>4 DEF Look
    <3> QED BY <1>0, <3>1, <3>2, StillSites
  <2> QED BY <2>6, <2>7 DEF ClientInv
<1>5. CASE ~Foreign(t) /\ ~GivenUp(t) /\ kept = <<>> /\ current = NONE
  <2> DEFINE r == [op[t] EXCEPT !.at = "call"]
  <2>1. /\ op' = [op EXCEPT ![t] = r] /\ at' = at
        /\ current' \in Tasks \cup {NONE}
    BY <1>0, <1>5 DEF Look, Op
  <2>2. /\ r \in Op /\ r.at = "call" /\ r.hand = op[t].hand /\ r.value = op[t].value
        /\ r.claim = op[t].claim /\ r.left = op[t].left /\ r.stopped = op[t].stopped
    BY <1>0, <1>5, NoAcceptFacts DEF Op, OpPlaces, Results, NoAccept
  <2> HIDE DEF r
  <2>3. Frame(t) /\ op'[t] = r
    BY <2>1, ExceptFrame, Zenon DEF ClientInv
  <2>4. Shape(r)
    BY <1>0, <1>5, <2>2, NoAcceptFacts DEF Shape, Look, Results
  <2>5. Bond(r, at'[t])
    BY <1>0, <2>1, <2>2, BondStays DEF Look
  <2>6. OpInv'
    BY <2>3, <2>4, <2>5, OpMoves DEF ClientInv
  <2>7. PlaceInv'
    <3>1. SameOps
      BY <1>0, <1>5, <2>2, <2>3, FrameSame, NoAcceptFacts DEF Alike, Shape, Look, Results
    <3>2. UNCHANGED <<backlog, kept, come, taken, line>>
      BY <1>5 DEF Look
    <3> QED BY <1>0, <3>1, <3>2, StillSites
  <2> QED BY <2>6, <2>7 DEF ClientInv
<1> QED BY <1>1, <1>2, <1>3, <1>4, <1>5 DEF Look

\* The call returns, with a client or with a connection made to wake.
LEMMA CallReturnsKeeps == ASSUME ClientInv, NEW t \in Tasks, CallReturns(t) PROVE ClientInv'
<1>0. /\ Shape(op[t]) /\ Bond(op[t], at[t]) /\ op[t] \in Op /\ PlaceInv
      /\ op = [u \in Tasks |-> op[u]] /\ at = [u \in Tasks |-> at[u]]
      /\ current \in Tasks \cup {NONE}
  BY DEF ClientInv, OpInv, Shape
<1> DEFINE r == [op[t] EXCEPT !.at = "hand", !.hand = Head(backlog)]
<1>p. Head(backlog) \in Clients \cup {WAKE}
  BY <1>0, TailOnce DEF CallReturns, PlaceInv, BacklogInv
<1>1. /\ op' = [op EXCEPT ![t] = r] /\ at' = at
      /\ current' \in Tasks \cup {NONE}
  BY <1>0, <1>p, Zenon DEF CallReturns, Op
<1>2. /\ r \in Op /\ r.at = "hand" /\ r.hand = Head(backlog) /\ r.value = op[t].value
      /\ r.claim = op[t].claim /\ r.left = op[t].left /\ r.stopped = op[t].stopped
  BY <1>0, <1>p, NoAcceptFacts, Zenon DEF Op, OpPlaces, Results, NoAccept
<1> HIDE DEF r
<1>3. Frame(t) /\ op'[t] = r
  BY <1>1, ExceptFrame, Zenon DEF ClientInv
<1>4. Shape(r)
  BY <1>0, <1>2, <1>p, NoAcceptFacts DEF Shape, CallReturns, Results
<1>5. Bond(r, at'[t])
  BY <1>0, <1>1, <1>2, BondStays DEF CallReturns
<1>6. OpInv'
  BY <1>3, <1>4, <1>5, OpMoves DEF ClientInv
<1>7. PlaceInv'
  <2>1. OnlyOp(t)
    BY <1>3, FrameOps
  <2>2. /\ op[t].value \notin Clients /\ op[t].hand \notin Clients
        /\ r.hand = Head(backlog) /\ r.value = op[t].value
    BY <1>0, <1>2, NoAcceptFacts DEF Shape, CallReturns
  <2>3. backlog # <<>> /\ backlog' = Tail(backlog) /\ UNCHANGED <<kept, come, taken, line>>
    BY DEF CallReturns
  <2> QED BY <1>0, <1>3, <2>1, <2>2, <2>3, BacklogInHand
<1> QED BY <1>6, <1>7 DEF ClientInv

\* The call fails.
LEMMA CallFailsKeeps == ASSUME ClientInv, NEW t \in Tasks, CallFails(t) PROVE ClientInv'
<1>0. /\ Shape(op[t]) /\ Bond(op[t], at[t]) /\ op[t] \in Op /\ PlaceInv
      /\ op = [u \in Tasks |-> op[u]] /\ at = [u \in Tasks |-> at[u]]
      /\ current \in Tasks \cup {NONE}
  BY DEF ClientInv, OpInv, Shape
<1> DEFINE r == [op[t] EXCEPT !.at = "leave", !.value = "Error"]
<1>1. /\ op' = [op EXCEPT ![t] = r] /\ at' = at
      /\ current' \in Tasks \cup {NONE}
  BY <1>0, Zenon DEF CallFails, listener, Op
<1>2. /\ r \in Op /\ r.at = "leave" /\ r.hand = op[t].hand /\ r.value = "Error"
      /\ r.claim = op[t].claim /\ r.left = op[t].left /\ r.stopped = op[t].stopped
  BY <1>0, NoAcceptFacts, Zenon DEF Op, OpPlaces, Results, NoAccept
<1> HIDE DEF r
<1>3. Frame(t) /\ op'[t] = r
  BY <1>1, ExceptFrame, Zenon DEF ClientInv
<1>4. Shape(r)
  BY <1>0, <1>2, NoAcceptFacts DEF Shape, CallFails, Results
<1>5. Bond(r, at'[t])
  BY <1>0, <1>1, <1>2, BondStays DEF CallFails
<1>6. OpInv'
  BY <1>3, <1>4, <1>5, OpMoves DEF ClientInv
<1>7. PlaceInv'
  <2>1. SameOps
    BY <1>0, <1>2, <1>3, FrameSame, NoAcceptFacts, Zenon DEF Alike, Shape, CallFails, Results
  <2>2. UNCHANGED <<backlog, kept, come, taken, line>>
    BY DEF CallFails, listener
  <2> QED BY <1>0, <2>1, <2>2, StillSites
<1> QED BY <1>6, <1>7 DEF ClientInv

\* The accept has the client, or it is kept.
LEMMA HandleKeeps == ASSUME ClientInv, NEW t \in Tasks, Handle(t) PROVE ClientInv'
<1>0. /\ Shape(op[t]) /\ Bond(op[t], at[t]) /\ op[t] \in Op /\ PlaceInv
      /\ op = [u \in Tasks |-> op[u]] /\ at = [u \in Tasks |-> at[u]]
      /\ current \in Tasks \cup {NONE}
  BY DEF ClientInv, OpInv, Shape
<1>1. CASE GivenUp(t) \/ Foreign(t) \/ ~Claims(t)
  <2> DEFINE r == [op[t] EXCEPT !.at = "leave", !.hand = NONE, !.value = "GivenUp"]
  <2>1. /\ op' = [op EXCEPT ![t] = r] /\ at' = at
        /\ current' \in Tasks \cup {NONE}
    BY <1>0, <1>1 DEF Handle, HasNone, Op
  <2>2. /\ r \in Op /\ r.at = "leave" /\ r.hand = NONE /\ r.value = "GivenUp"
        /\ r.claim = op[t].claim /\ r.left = op[t].left /\ r.stopped = op[t].stopped
    BY <1>0, <1>1, NoAcceptFacts, Zenon DEF Op, OpPlaces, Results, NoAccept
  <2> HIDE DEF r
  <2>3. Frame(t) /\ op'[t] = r
    BY <2>1, ExceptFrame, Zenon DEF ClientInv
  <2>4. Shape(r)
    BY <1>0, <1>1, <2>2, NoAcceptFacts DEF Shape, Handle, Results
  <2>5. Bond(r, at'[t])
    BY <1>0, <2>1, <2>2, BondStays DEF Handle
  <2>6. OpInv'
    BY <2>3, <2>4, <2>5, OpMoves DEF ClientInv
  <2>7. PlaceInv'
    <3>1. OnlyOp(t)
      BY <2>3, FrameOps
    <3>2. /\ op[t].value \notin Clients /\ op[t].hand \in Clients
          /\ r.hand \notin Clients /\ r.value \notin Clients
      BY <1>0, <2>2, NoAcceptFacts DEF Shape, Handle, Results
    <3>3. kept' = Append(kept, op[t].hand) /\ UNCHANGED <<backlog, come, taken, line>>
      BY <1>1 DEF Handle
    <3> QED BY <1>0, <2>3, <3>1, <3>2, <3>3, KeptAgain
  <2> QED BY <2>6, <2>7 DEF ClientInv
<1>2. CASE ~(GivenUp(t) \/ Foreign(t) \/ ~Claims(t))
  <2> DEFINE r == [op[t] EXCEPT !.at = IF t \in Servers THEN "ready" ELSE "leave", !.hand = NONE,
    !.value = op[t].hand, !.claim = "TOOK"]
  <2>p. op[t].hand \in Clients
    BY DEF Handle
  <2>1. /\ op' = [op EXCEPT ![t] = r] /\ at' = at
        /\ current' \in Tasks \cup {NONE}
    BY <1>0, <1>2, <2>p DEF Handle, HasIt, Op
  <2>2. /\ r \in Op /\ r.at = (IF t \in Servers THEN "ready" ELSE "leave")
        /\ r.hand = NONE /\ r.value = op[t].hand /\ r.claim = "TOOK"
        /\ r.left = op[t].left /\ r.stopped = op[t].stopped
    BY <1>0, <1>2, <2>p, NoAcceptFacts, Zenon DEF Op, OpPlaces, Results, NoAccept
  <2> HIDE DEF r
  <2>3. Frame(t) /\ op'[t] = r
    BY <2>1, ExceptFrame, Zenon DEF ClientInv
  <2>4. Shape(r)
    BY <1>0, <1>2, <2>2, <2>p, NoAcceptFacts DEF Shape, Handle, Results
  <2>5. Bond(r, at'[t])
    BY <1>0, <2>1, <2>2, BondStays DEF Handle
  <2>6. OpInv'
    BY <2>3, <2>4, <2>5, OpMoves DEF ClientInv
  <2>7. PlaceInv'
    <3>1. OnlyOp(t)
      BY <2>3, FrameOps
    <3>2. /\ op[t].value \notin Clients /\ op[t].hand \in Clients
          /\ r.hand \notin Clients /\ r.value = op[t].hand
      BY <1>0, <2>2, NoAcceptFacts DEF Shape, Handle
    <3>3. UNCHANGED <<backlog, kept, come, taken, line>>
      BY <1>2 DEF Handle
    <3> QED BY <1>0, <2>3, <3>1, <3>2, <3>3, HandIsHad
  <2> QED BY <2>6, <2>7 DEF ClientInv
<1> QED BY <1>1, <1>2 DEF Handle

\* It was woken: it gives up, has one that is kept, or calls again.
LEMMA HandleWakeKeeps == ASSUME ClientInv, NEW t \in Tasks, HandleWake(t) PROVE ClientInv'
<1>0. /\ Shape(op[t]) /\ Bond(op[t], at[t]) /\ op[t] \in Op /\ PlaceInv
      /\ op = [u \in Tasks |-> op[u]] /\ at = [u \in Tasks |-> at[u]]
      /\ current \in Tasks \cup {NONE}
  BY DEF ClientInv, OpInv, Shape
<1>1. CASE GivenUp(t)
  <2> DEFINE r == [op[t] EXCEPT !.at = "leave", !.hand = NONE, !.value = "GivenUp"]
  <2>1. /\ op' = [op EXCEPT ![t] = r] /\ at' = at
        /\ current' \in Tasks \cup {NONE}
    BY <1>0, <1>1 DEF HandleWake, HasNone, Op
  <2>2. /\ r \in Op /\ r.at = "leave" /\ r.hand = NONE /\ r.value = "GivenUp"
        /\ r.claim = op[t].claim /\ r.left = op[t].left /\ r.stopped = op[t].stopped
    BY <1>0, <1>1, NoAcceptFacts, Zenon DEF Op, OpPlaces, Results, NoAccept
  <2> HIDE DEF r
  <2>3. Frame(t) /\ op'[t] = r
    BY <2>1, ExceptFrame, Zenon DEF ClientInv
  <2>4. Shape(r)
    BY <1>0, <1>1, <2>2, NoAcceptFacts DEF Shape, HandleWake, Results
  <2>5. Bond(r, at'[t])
    BY <1>0, <2>1, <2>2, BondStays DEF HandleWake
  <2>6. OpInv'
    BY <2>3, <2>4, <2>5, OpMoves DEF ClientInv
  <2>7. PlaceInv'
    <3>1. SameOps
      BY <1>0, <1>1, <2>2, <2>3, FrameSame, NoAcceptFacts DEF Alike, Shape, HandleWake, Results
    <3>2. UNCHANGED <<backlog, kept, come, taken, line>>
      BY <1>1 DEF HandleWake
    <3> QED BY <1>0, <3>1, <3>2, StillSites
  <2> QED BY <2>6, <2>7 DEF ClientInv
<1>2. CASE ~GivenUp(t) /\ kept # <<>>
  <2> DEFINE r == [op[t] EXCEPT !.at = IF t \in Servers THEN "ready" ELSE "leave", !.hand = NONE,
    !.value = Head(kept), !.claim = "TOOK"]
  <2>p. Head(kept) \in Clients
    BY <1>0, <1>2, TailOnce DEF PlaceInv, KeptInv
  <2>1. /\ op' = [op EXCEPT ![t] = r] /\ at' = at
        /\ current' \in Tasks \cup {NONE}
    BY <1>0, <1>2, <2>p DEF HandleWake, HasIt, Op
  <2>2. /\ r \in Op /\ r.at = (IF t \in Servers THEN "ready" ELSE "leave")
        /\ r.hand = NONE /\ r.value = Head(kept) /\ r.claim = "TOOK"
        /\ r.left = op[t].left /\ r.stopped = op[t].stopped
    BY <1>0, <1>2, <2>p, NoAcceptFacts, Zenon DEF Op, OpPlaces, Results, NoAccept
  <2> HIDE DEF r
  <2>3. Frame(t) /\ op'[t] = r
    BY <2>1, ExceptFrame, Zenon DEF ClientInv
  <2>4. Shape(r)
    BY <1>0, <1>2, <2>2, <2>p, NoAcceptFacts DEF Shape, HandleWake, Results
  <2>5. Bond(r, at'[t])
    BY <1>0, <2>1, <2>2, BondStays DEF HandleWake
  <2>6. OpInv'
    BY <2>3, <2>4, <2>5, OpMoves DEF ClientInv
  <2>7. PlaceInv'
    <3>1. OnlyOp(t)
      BY <2>3, FrameOps
    <3>2. /\ op[t].value \notin Clients /\ op[t].hand \notin Clients
          /\ r.hand \notin Clients /\ r.value = Head(kept)
      BY <1>0, <1>2, <2>2, NoAcceptFacts DEF Shape, HandleWake
    <3>3. kept' = Tail(kept) /\ UNCHANGED <<backlog, come, taken, line>>
      BY <1>2 DEF HandleWake
    <3> QED BY <1>0, <1>2, <2>3, <3>1, <3>2, <3>3, KeptIsHad
  <2> QED BY <2>6, <2>7 DEF ClientInv
<1>3. CASE ~GivenUp(t) /\ kept = <<>>
  <2> DEFINE r == [op[t] EXCEPT !.at = "call", !.hand = NONE]
  <2>1. /\ op' = [op EXCEPT ![t] = r] /\ at' = at
        /\ current' \in Tasks \cup {NONE}
    BY <1>0, <1>3 DEF HandleWake, Op
  <2>2. /\ r \in Op /\ r.at = "call" /\ r.hand = NONE /\ r.value = op[t].value
        /\ r.claim = op[t].claim /\ r.left = op[t].left /\ r.stopped = op[t].stopped
    BY <1>0, <1>3, NoAcceptFacts, Zenon DEF Op, OpPlaces, Results, NoAccept
  <2> HIDE DEF r
  <2>3. Frame(t) /\ op'[t] = r
    BY <2>1, ExceptFrame, Zenon DEF ClientInv
  <2>4. Shape(r)
    BY <1>0, <1>3, <2>2, NoAcceptFacts DEF Shape, HandleWake, Results
  <2>5. Bond(r, at'[t])
    BY <1>0, <2>1, <2>2, BondStays DEF HandleWake
  <2>6. OpInv'
    BY <2>3, <2>4, <2>5, OpMoves DEF ClientInv
  <2>7. PlaceInv'
    <3>1. SameOps
      BY <1>0, <1>3, <2>2, <2>3, FrameSame, NoAcceptFacts, Zenon DEF Alike, Shape, HandleWake,
              Results
    <3>2. UNCHANGED <<backlog, kept, come, taken, line>>
      BY <1>3 DEF HandleWake
    <3> QED BY <1>0, <3>1, <3>2, StillSites
  <2> QED BY <2>6, <2>7 DEF ClientInv
<1> QED BY <1>1, <1>2, <1>3 DEF HandleWake

\* keep_the_ready: one more is kept, unless it was made to wake.
LEMMA KeepReadyKeeps == ASSUME ClientInv, NEW t \in Tasks, KeepReady(t) PROVE ClientInv'
<1>0. /\ Shape(op[t]) /\ Bond(op[t], at[t]) /\ op[t] \in Op /\ PlaceInv
      /\ op = [u \in Tasks |-> op[u]] /\ at = [u \in Tasks |-> at[u]]
      /\ current \in Tasks \cup {NONE}
  BY DEF ClientInv, OpInv, Shape
<1>1. CASE Head(backlog) = WAKE
  <2> DEFINE r == [op[t] EXCEPT !.at = op[t].at]
  <2>1. /\ op' = [op EXCEPT ![t] = r] /\ at' = at
        /\ current' \in Tasks \cup {NONE}
    BY <1>0, <1>1 DEF KeepReady, Op
  <2>2. /\ r \in Op /\ r.at = op[t].at /\ r.hand = op[t].hand /\ r.value = op[t].value
        /\ r.claim = op[t].claim /\ r.left = op[t].left /\ r.stopped = op[t].stopped
    BY <1>0, <1>1, NoAcceptFacts DEF Op, OpPlaces, Results, NoAccept
  <2> HIDE DEF r
  <2>3. Frame(t) /\ op'[t] = r
    BY <2>1, ExceptFrame, Zenon DEF ClientInv
  <2>4. Shape(r)
    BY <1>0, <1>1, <2>2, NoAcceptFacts DEF Shape, KeepReady, Results
  <2>5. Bond(r, at'[t])
    BY <1>0, <2>1, <2>2, BondStays DEF KeepReady
  <2>6. OpInv'
    BY <2>3, <2>4, <2>5, OpMoves DEF ClientInv
  <2>7. PlaceInv'
    <3>1. SameOps
      BY <2>2, <2>3, FrameSame DEF Alike
    <3>2. /\ backlog # <<>> /\ backlog' = Tail(backlog) /\ UNCHANGED <<come, taken, line>>
          /\ IF Head(backlog) = WAKE THEN kept' = kept ELSE kept' = Append(kept, Head(backlog))
      BY <1>1 DEF KeepReady
    <3> QED BY <1>0, <3>1, <3>2, BacklogIsKept
  <2> QED BY <2>6, <2>7 DEF ClientInv
<1>2. CASE Head(backlog) # WAKE
  <2> DEFINE r == [op[t] EXCEPT !.ready = op[t].ready + 1]
  <2>1. /\ op' = [op EXCEPT ![t] = r] /\ at' = at
        /\ current' \in Tasks \cup {NONE}
    BY <1>0, <1>2 DEF KeepReady, Op
  <2>2. /\ r \in Op /\ r.at = op[t].at /\ r.hand = op[t].hand /\ r.value = op[t].value
        /\ r.claim = op[t].claim /\ r.left = op[t].left /\ r.stopped = op[t].stopped
    BY <1>0, <1>2, NoAcceptFacts DEF Op, OpPlaces, Results, NoAccept
  <2> HIDE DEF r
  <2>3. Frame(t) /\ op'[t] = r
    BY <2>1, ExceptFrame, Zenon DEF ClientInv
  <2>4. Shape(r)
    BY <1>0, <1>2, <2>2, NoAcceptFacts DEF Shape, KeepReady, Results
  <2>5. Bond(r, at'[t])
    BY <1>0, <2>1, <2>2, BondStays DEF KeepReady
  <2>6. OpInv'
    BY <2>3, <2>4, <2>5, OpMoves DEF ClientInv
  <2>7. PlaceInv'
    <3>1. SameOps
      BY <2>2, <2>3, FrameSame DEF Alike
    <3>2. /\ backlog # <<>> /\ backlog' = Tail(backlog) /\ UNCHANGED <<come, taken, line>>
          /\ IF Head(backlog) = WAKE THEN kept' = kept ELSE kept' = Append(kept, Head(backlog))
      BY <1>2 DEF KeepReady
    <3> QED BY <1>0, <3>1, <3>2, BacklogIsKept
  <2> QED BY <2>6, <2>7 DEF ClientInv
<1> QED BY <1>1, <1>2 DEF KeepReady

\* It takes no more.
LEMMA KeepReadyEndsKeeps == ASSUME ClientInv, NEW t \in Tasks, KeepReadyEnds(t) PROVE ClientInv'
<1>0. /\ Shape(op[t]) /\ Bond(op[t], at[t]) /\ op[t] \in Op /\ PlaceInv
      /\ op = [u \in Tasks |-> op[u]] /\ at = [u \in Tasks |-> at[u]]
      /\ current \in Tasks \cup {NONE}
  BY DEF ClientInv, OpInv, Shape
<1> DEFINE r == [op[t] EXCEPT !.at = "leave"]
<1>1. /\ op' = [op EXCEPT ![t] = r] /\ at' = at
      /\ current' \in Tasks \cup {NONE}
  BY <1>0 DEF KeepReadyEnds, listener, Op
<1>2. /\ r \in Op /\ r.at = "leave" /\ r.hand = op[t].hand /\ r.value = op[t].value
      /\ r.claim = op[t].claim /\ r.left = op[t].left /\ r.stopped = op[t].stopped
  BY <1>0, NoAcceptFacts DEF Op, OpPlaces, Results, NoAccept
<1> HIDE DEF r
<1>3. Frame(t) /\ op'[t] = r
  BY <1>1, ExceptFrame, Zenon DEF ClientInv
<1>4. Shape(r)
  BY <1>0, <1>2, NoAcceptFacts DEF Shape, KeepReadyEnds, Results
<1>5. Bond(r, at'[t])
  BY <1>0, <1>1, <1>2, BondStays DEF KeepReadyEnds
<1>6. OpInv'
  BY <1>3, <1>4, <1>5, OpMoves DEF ClientInv
<1>7. PlaceInv'
  <2>1. SameOps
    BY <1>0, <1>2, <1>3, FrameSame, NoAcceptFacts DEF Alike, Shape, KeepReadyEnds, Results
  <2>2. UNCHANGED <<backlog, kept, come, taken, line>>
    BY DEF KeepReadyEnds, listener
  <2> QED BY <1>0, <2>1, <2>2, StillSites
<1> QED BY <1>6, <1>7 DEF ClientInv

\* The accept leaves the call, and those that wait their turn look again.
LEMMA LeaveCallKeeps == ASSUME ClientInv, NEW t \in Tasks, LeaveCall(t) PROVE ClientInv'
<1>0. /\ Shape(op[t]) /\ Bond(op[t], at[t]) /\ op[t] \in Op /\ PlaceInv
      /\ op = [u \in Tasks |-> op[u]] /\ at = [u \in Tasks |-> at[u]]
      /\ current \in Tasks \cup {NONE}
  BY DEF ClientInv, OpInv, Shape
<1> DEFINE v == IF op[t].value = "GivenUp" /\ Foreign(t) THEN "Served" ELSE op[t].value
<1> DEFINE r == [op[t] EXCEPT !.at = "finishing", !.value = v]
<1>p. v \in Clients \cup {NONE} \cup Results /\ v # NONE /\ Alike(v, op[t].value)
  BY <1>0, NoAcceptFacts DEF Op, Shape, Results, LeaveCall, Alike
<1>1. /\ op' = Notified([op EXCEPT ![t] = r]) /\ at' = at
      /\ current' \in Tasks \cup {NONE}
  BY <1>0, <1>p, Zenon DEF LeaveCall, Op
<1> HIDE DEF v
<1>2. /\ r \in Op /\ r.at = "finishing" /\ r.hand = op[t].hand /\ r.value = v
      /\ r.claim = op[t].claim /\ r.left = op[t].left /\ r.stopped = op[t].stopped
  BY <1>0, <1>p, NoAcceptFacts, Zenon DEF Op, OpPlaces, Results, NoAccept
<1> HIDE DEF r
<1>3. Frame(t) /\ op'[t] = r
  BY <1>1, <1>2, NotifiedFrame, Zenon DEF ClientInv
<1>4. Shape(r)
  BY <1>0, <1>2, <1>p, NoAcceptFacts DEF Shape, LeaveCall, Results
<1>5. Bond(r, at'[t])
  BY <1>0, <1>1, <1>2, BondStays DEF LeaveCall
<1>6. OpInv'
  BY <1>3, <1>4, <1>5, OpMoves DEF ClientInv
<1>7. PlaceInv'
  <2>1. SameOps
    BY <1>0, <1>2, <1>3, <1>p, FrameSame, NoAcceptFacts DEF Alike, Shape, LeaveCall, Results
  <2>2. UNCHANGED <<backlog, kept, come, taken, line>>
    BY DEF LeaveCall
  <2> QED BY <1>0, <2>1, <2>2, StillSites
<1> QED BY <1>6, <1>7 DEF ClientInv

\* The value is the waiter's, or the thread gives it back.
LEMMA FinishKeeps == ASSUME ClientInv, NEW t \in Tasks, Finish(t) PROVE ClientInv'
<1>0. /\ Shape(op[t]) /\ Bond(op[t], at[t]) /\ op[t] \in Op /\ PlaceInv
      /\ op = [u \in Tasks |-> op[u]] /\ at = [u \in Tasks |-> at[u]]
      /\ current \in Tasks \cup {NONE}
  BY DEF ClientInv, OpInv, Shape
<1>1. CASE ~op[t].left
  <2> DEFINE r == [op[t] EXCEPT !.at = "finished"]
  <2>1. /\ op' = [op EXCEPT ![t] = r] /\ at' = at
        /\ current' \in Tasks \cup {NONE}
    BY <1>0, <1>1 DEF Finish, Op
  <2>2. /\ r \in Op /\ r.at = "finished" /\ r.hand = op[t].hand /\ r.value = op[t].value
        /\ r.claim = op[t].claim /\ r.left = op[t].left /\ r.stopped = op[t].stopped
    BY <1>0, <1>1, NoAcceptFacts DEF Op, OpPlaces, Results, NoAccept
  <2> HIDE DEF r
  <2>3. Frame(t) /\ op'[t] = r
    BY <2>1, ExceptFrame, Zenon DEF ClientInv
  <2>4. Shape(r)
    BY <1>0, <1>1, <2>2, NoAcceptFacts DEF Shape, Finish, Results
  <2>5. Bond(r, at'[t])
    BY <1>0, <2>1, <2>2, BondStays DEF Finish
  <2>6. OpInv'
    BY <2>3, <2>4, <2>5, OpMoves DEF ClientInv
  <2>7. PlaceInv'
    <3>1. SameOps
      BY <1>0, <1>1, <2>2, <2>3, FrameSame, NoAcceptFacts DEF Alike, Shape, Finish, Results
    <3>2. UNCHANGED <<backlog, kept, come, taken, line>>
      BY <1>1 DEF Finish, Keep
    <3> QED BY <1>0, <3>1, <3>2, StillSites
  <2> QED BY <2>6, <2>7 DEF ClientInv
<1>2. CASE op[t].left /\ op[t].value \notin Clients
  <2> DEFINE r == NoAccept
  <2>1. /\ op' = [op EXCEPT ![t] = r] /\ at' = at
        /\ current' \in Tasks \cup {NONE}
    BY <1>0, <1>2 DEF Finish, Op
  <2>2. /\ r \in Op /\ r.at = "none" /\ r.hand = NONE /\ r.value = NONE
        /\ r.claim = "WAITING" /\ r.left = FALSE /\ r.stopped = FALSE
    BY <1>0, <1>2, NoAcceptFacts DEF Op, OpPlaces, Results, NoAccept
  <2> HIDE DEF r
  <2>3. Frame(t) /\ op'[t] = r
    BY <2>1, ExceptFrame, Zenon DEF ClientInv
  <2>4. Shape(r)
    BY <1>0, <1>2, <2>2, NoAcceptFacts DEF Shape, Finish, Results
  <2>5. Bond(r, at'[t])
    BY <1>0, <1>2, <2>1, <2>2 DEF Bond, Finish
  <2>6. OpInv'
    BY <2>3, <2>4, <2>5, OpMoves DEF ClientInv
  <2>7. PlaceInv'
    <3>1. SameOps
      BY <1>0, <1>2, <2>2, <2>3, FrameSame, NoAcceptFacts DEF Alike, Shape, Finish, Results
    <3>2. UNCHANGED <<backlog, kept, come, taken, line>>
      BY <1>2 DEF Finish
    <3> QED BY <1>0, <3>1, <3>2, StillSites
  <2> QED BY <2>6, <2>7 DEF ClientInv
<1>3. CASE op[t].left /\ op[t].value \in Clients
  <2> DEFINE r == [NoAccept EXCEPT !.at = "wakes"]
  <2>1. /\ op' = Notified([op EXCEPT ![t] = r]) /\ at' = at
        /\ current' \in Tasks \cup {NONE}
    BY <1>0, <1>3 DEF Finish, Keep, Op
  <2>2. /\ r \in Op /\ r.at = "wakes" /\ r.hand = NONE /\ r.value = NONE
        /\ r.claim = "WAITING" /\ r.left = FALSE /\ r.stopped = FALSE
    BY <1>0, <1>3, NoAcceptFacts, Zenon DEF Op, OpPlaces, Results, NoAccept
  <2> HIDE DEF r
  <2>3. Frame(t) /\ op'[t] = r
    BY <2>1, <2>2, NotifiedFrame, Zenon DEF ClientInv
  <2>4. Shape(r)
    BY <1>0, <1>3, <2>2, NoAcceptFacts DEF Shape, Finish, Results
  <2>5. Bond(r, at'[t])
    BY <1>0, <1>3, <2>1, <2>2 DEF Bond, Finish
  <2>6. OpInv'
    BY <2>3, <2>4, <2>5, OpMoves DEF ClientInv
  <2>7. PlaceInv'
    <3>1. OnlyOp(t)
      BY <2>3, FrameOps
    <3>2. /\ op[t].value \in Clients /\ op[t].hand \notin Clients
          /\ r.hand \notin Clients /\ r.value \notin Clients
      BY <1>0, <1>3, <2>2, NoAcceptFacts DEF Shape, Finish
    <3>3. kept' = Append(kept, op[t].value) /\ UNCHANGED <<backlog, come, taken, line>>
      BY <1>3 DEF Finish, Keep
    <3> QED BY <1>0, <2>3, <3>1, <3>2, <3>3, KeptAgain
  <2> QED BY <2>6, <2>7 DEF ClientInv
<1> QED BY <1>1, <1>2, <1>3 DEF Finish

\* The thread that gave back wakes the accept in the call.
LEMMA ThreadWakesKeeps == ASSUME ClientInv, NEW t \in Tasks, ThreadWakes(t) PROVE ClientInv'
<1>0. /\ Shape(op[t]) /\ Bond(op[t], at[t]) /\ op[t] \in Op /\ PlaceInv
      /\ op = [u \in Tasks |-> op[u]] /\ at = [u \in Tasks |-> at[u]]
      /\ current \in Tasks \cup {NONE}
  BY DEF ClientInv, OpInv, Shape
<1> DEFINE r == NoAccept
<1>1. /\ op' = [op EXCEPT ![t] = r] /\ at' = at
      /\ current' \in Tasks \cup {NONE}
  BY <1>0 DEF ThreadWakes, Op
<1>2. /\ r \in Op /\ r.at = "none" /\ r.hand = NONE /\ r.value = NONE
      /\ r.claim = "WAITING" /\ r.left = FALSE /\ r.stopped = FALSE
  BY <1>0, NoAcceptFacts DEF Op, OpPlaces, Results, NoAccept
<1> HIDE DEF r
<1>3. Frame(t) /\ op'[t] = r
  BY <1>1, ExceptFrame, Zenon DEF ClientInv
<1>4. Shape(r)
  BY <1>0, <1>2, NoAcceptFacts DEF Shape, ThreadWakes, Results
<1>5. Bond(r, at'[t])
  BY <1>0, <1>1, <1>2 DEF Bond, ThreadWakes
<1>6. OpInv'
  BY <1>3, <1>4, <1>5, OpMoves DEF ClientInv
<1>7. PlaceInv'
  <2>1. SameOps
    BY <1>0, <1>2, <1>3, FrameSame, NoAcceptFacts DEF Alike, Shape, ThreadWakes, Results
  <2>2. UNCHANGED <<kept, come, taken, line>> /\ (WakeTheCall \/ NoWake)
    BY DEF ThreadWakes, KeepWakes
  <2> QED BY <1>0, <2>1, <2>2, WakesSites
<1> QED BY <1>6, <1>7 DEF ClientInv

-----------------------------------------------------------------------------
(* The tasks' steps.                                                       *)

\* tcp.accept.
LEMMA AcceptKeeps == ASSUME ClientInv, NEW t \in Tasks, Accept(t) PROVE ClientInv'
<1>0. /\ Shape(op[t]) /\ Bond(op[t], at[t]) /\ op[t] \in Op /\ PlaceInv
      /\ op = [u \in Tasks |-> op[u]] /\ at = [u \in Tasks |-> at[u]]
      /\ current \in Tasks \cup {NONE}
  BY DEF ClientInv, OpInv, Shape
<1>1. CASE IsServed
  <2> DEFINE r == op[t]
  <2>1. /\ op' = [op EXCEPT ![t] = r] /\ Goes(t, "ends")
        /\ current' \in Tasks \cup {NONE}
    BY <1>0, <1>1 DEF Accept, listener, Op
  <2>2. /\ r \in Op /\ r.at = op[t].at /\ r.hand = op[t].hand /\ r.value = op[t].value
        /\ r.claim = op[t].claim /\ r.left = op[t].left /\ r.stopped = op[t].stopped
    BY <1>0, <1>1, NoAcceptFacts DEF Op, OpPlaces, Results, NoAccept
  <2> HIDE DEF r
  <2>3. Frame(t) /\ op'[t] = r
    BY <2>1, ExceptFrame, Zenon DEF ClientInv, Goes
  <2>4. Shape(r)
    BY <1>0, <1>1, <2>2, NoAcceptFacts DEF Shape, Accept, Results
  <2>5. Bond(r, at'[t])
    BY <1>0, <1>1, <2>1, <2>2 DEF Bond, Goes, TaskPlaces, Accept
  <2>6. OpInv'
    BY <2>3, <2>4, <2>5, OpMoves DEF ClientInv
  <2>7. PlaceInv'
    <3>1. SameOps
      BY <1>0, <1>1, <2>2, <2>3, FrameSame, NoAcceptFacts DEF Alike, Shape, Bond, Accept, Results
    <3>2. UNCHANGED <<backlog, kept, come, taken, line>>
      BY <1>1 DEF Accept, listener
    <3> QED BY <1>0, <3>1, <3>2, StillSites
  <2> QED BY <2>6, <2>7 DEF ClientInv
<1>2. CASE ~IsServed /\ TakesNothingNew(t)
  <2> DEFINE r == NoAccept
  <2>1. /\ op' = [op EXCEPT ![t] = r] /\ Goes(t, "ends")
        /\ current' \in Tasks \cup {NONE}
    BY <1>0, <1>2 DEF Accept, Begin, listener, Op
  <2>2. /\ r \in Op /\ r.at = "none" /\ r.hand = NONE /\ r.value = NONE
        /\ r.claim = "WAITING" /\ r.left = FALSE /\ r.stopped = FALSE
    BY <1>0, <1>2, NoAcceptFacts DEF Op, OpPlaces, Results, NoAccept
  <2> HIDE DEF r
  <2>3. Frame(t) /\ op'[t] = r
    BY <2>1, ExceptFrame, Zenon DEF ClientInv, Goes
  <2>4. Shape(r)
    BY <1>0, <1>2, <2>2, NoAcceptFacts DEF Shape, Accept, Results
  <2>5. Bond(r, at'[t])
    BY <1>0, <1>2, <2>1, <2>2 DEF Bond, Goes, TaskPlaces, Accept
  <2>6. OpInv'
    BY <2>3, <2>4, <2>5, OpMoves DEF ClientInv
  <2>7. PlaceInv'
    <3>1. SameOps
      BY <1>0, <1>2, <2>2, <2>3, FrameSame, NoAcceptFacts DEF Alike, Shape, Bond, Accept, Results
    <3>2. UNCHANGED <<backlog, kept, come, taken, line>>
      BY <1>2 DEF Accept, listener
    <3> QED BY <1>0, <3>1, <3>2, StillSites
  <2> QED BY <2>6, <2>7 DEF ClientInv
<1>3. CASE ~IsServed /\ ~TakesNothingNew(t)
  <2> DEFINE r == [NoAccept EXCEPT !.at = "queued"]
  <2>1. /\ op' = [op EXCEPT ![t] = r] /\ Goes(t, "waits")
        /\ current' \in Tasks \cup {NONE}
    BY <1>0, <1>3 DEF Accept, Begin, listener, Op
  <2>2. /\ r \in Op /\ r.at = "queued" /\ r.hand = NONE /\ r.value = NONE
        /\ r.claim = "WAITING" /\ r.left = FALSE /\ r.stopped = FALSE
    BY <1>0, <1>3, NoAcceptFacts, Zenon DEF Op, OpPlaces, Results, NoAccept
  <2> HIDE DEF r
  <2>3. Frame(t) /\ op'[t] = r
    BY <2>1, ExceptFrame, Zenon DEF ClientInv, Goes
  <2>4. Shape(r)
    BY <1>0, <1>3, <2>2, NoAcceptFacts DEF Shape, Accept, Results
  <2>5. Bond(r, at'[t])
    BY <1>0, <1>3, <2>1, <2>2 DEF Bond, Goes, TaskPlaces, Accept
  <2>6. OpInv'
    BY <2>3, <2>4, <2>5, OpMoves DEF ClientInv
  <2>7. PlaceInv'
    <3>1. SameOps
      BY <1>0, <1>3, <2>2, <2>3, FrameSame, NoAcceptFacts DEF Alike, Shape, Bond, Accept, Results
    <3>2. UNCHANGED <<backlog, kept, come, taken, line>>
      BY <1>3 DEF Accept, listener
    <3> QED BY <1>0, <3>1, <3>2, StillSites
  <2> QED BY <2>6, <2>7 DEF ClientInv
<1> QED BY <1>1, <1>2, <1>3 DEF Accept

\* It goes on with its value.
LEMMA AcceptReturnsKeeps == ASSUME ClientInv, NEW t \in Tasks, AcceptReturns(t) PROVE ClientInv'
<1>0. /\ Shape(op[t]) /\ Bond(op[t], at[t]) /\ op[t] \in Op /\ PlaceInv
      /\ op = [u \in Tasks |-> op[u]] /\ at = [u \in Tasks |-> at[u]]
      /\ current \in Tasks \cup {NONE}
  BY DEF ClientInv, OpInv, Shape
<1> DEFINE r == NoAccept
<1>1. /\ op' = [op EXCEPT ![t] = r] /\ Goes(t, "ends")
      /\ current' \in Tasks \cup {NONE}
  BY <1>0 DEF AcceptReturns, listener, Op
<1>2. /\ r \in Op /\ r.at = "none" /\ r.hand = NONE /\ r.value = NONE
      /\ r.claim = "WAITING" /\ r.left = FALSE /\ r.stopped = FALSE
  BY <1>0, NoAcceptFacts DEF Op, OpPlaces, Results, NoAccept
<1> HIDE DEF r
<1>3. Frame(t) /\ op'[t] = r
  BY <1>1, ExceptFrame, Zenon DEF ClientInv, Goes
<1>4. Shape(r)
  BY <1>0, <1>2, NoAcceptFacts DEF Shape, AcceptReturns, Results
<1>5. Bond(r, at'[t])
  BY <1>0, <1>1, <1>2 DEF Bond, Goes, TaskPlaces, AcceptReturns
<1>6. OpInv'
  BY <1>3, <1>4, <1>5, OpMoves DEF ClientInv
<1>7. PlaceInv'
  <2>1. OnlyOp(t)
    BY <1>3, FrameOps
  <2>2. op[t].hand \notin Clients /\ r.hand \notin Clients /\ r.value \notin Clients
    BY <1>0, <1>2, NoAcceptFacts DEF Shape, AcceptReturns
  <2>3. /\ taken' = taken \cup ({op[t].value} \cap Clients)
        /\ UNCHANGED <<backlog, kept, come, line>>
    BY DEF AcceptReturns, listener
  <2> QED BY <1>0, <1>3, <2>1, <2>2, <2>3, ValueIsTaken
<1> QED BY <1>6, <1>7 DEF ClientInv

\* http.serve.
LEMMA ServeKeeps == ASSUME ClientInv, NEW t \in Tasks, Serve(t) PROVE ClientInv'
<1>0. /\ Shape(op[t]) /\ Bond(op[t], at[t]) /\ op[t] \in Op /\ PlaceInv
      /\ op = [u \in Tasks |-> op[u]] /\ at = [u \in Tasks |-> at[u]]
      /\ current \in Tasks \cup {NONE}
  BY DEF ClientInv, OpInv, Shape
<1>1. CASE IsServed
  <2> DEFINE r == op[t]
  <2>1. /\ op' = [op EXCEPT ![t] = r] /\ Goes(t, "ends")
        /\ current' \in Tasks \cup {NONE}
    BY <1>0, <1>1 DEF Serve, Op
  <2>2. /\ r \in Op /\ r.at = op[t].at /\ r.hand = op[t].hand /\ r.value = op[t].value
        /\ r.claim = op[t].claim /\ r.left = op[t].left /\ r.stopped = op[t].stopped
    BY <1>0, <1>1, NoAcceptFacts DEF Op, OpPlaces, Results, NoAccept
  <2> HIDE DEF r
  <2>3. Frame(t) /\ op'[t] = r
    BY <2>1, ExceptFrame, Zenon DEF ClientInv, Goes
  <2>4. Shape(r)
    BY <1>0, <1>1, <2>2, NoAcceptFacts DEF Shape, Serve, Results
  <2>5. Bond(r, at'[t])
    BY <1>0, <1>1, <2>1, <2>2, Zenon DEF Bond, Goes, TaskPlaces, Serve
  <2>6. OpInv'
    BY <2>3, <2>4, <2>5, OpMoves DEF ClientInv
  <2>7. PlaceInv'
    <3>1. SameOps
      BY <1>0, <1>1, <2>2, <2>3, FrameSame, NoAcceptFacts DEF Alike, Shape, Serve, Results
    <3>2. UNCHANGED <<backlog, kept, come, taken, line>>
      BY <1>1 DEF Serve
    <3> QED BY <1>0, <3>1, <3>2, StillSites
  <2> QED BY <2>6, <2>7 DEF ClientInv
<1>2. CASE ~IsServed
  <2> DEFINE r == op[t]
  <2>1. /\ op' = [op EXCEPT ![t] = r] /\ Goes(t, "serves")
        /\ current' \in Tasks \cup {NONE}
    BY <1>0, <1>2 DEF Serve, Op
  <2>2. /\ r \in Op /\ r.at = op[t].at /\ r.hand = op[t].hand /\ r.value = op[t].value
        /\ r.claim = op[t].claim /\ r.left = op[t].left /\ r.stopped = op[t].stopped
    BY <1>0, <1>2, NoAcceptFacts DEF Op, OpPlaces, Results, NoAccept
  <2> HIDE DEF r
  <2>3. Frame(t) /\ op'[t] = r
    BY <2>1, ExceptFrame, Zenon DEF ClientInv, Goes
  <2>4. Shape(r)
    BY <1>0, <1>2, <2>2, NoAcceptFacts DEF Shape, Serve, Results
  <2>5. Bond(r, at'[t])
    BY <1>0, <1>2, <2>1, <2>2, Zenon DEF Bond, Goes, TaskPlaces, Serve
  <2>6. OpInv'
    BY <2>3, <2>4, <2>5, OpMoves DEF ClientInv
  <2>7. PlaceInv'
    <3>1. SameOps
      BY <1>0, <1>2, <2>2, <2>3, FrameSame, NoAcceptFacts DEF Alike, Shape, Serve, Results
    <3>2. UNCHANGED <<backlog, kept, come, taken, line>>
      BY <1>2 DEF Serve
    <3> QED BY <1>0, <3>1, <3>2, StillSites
  <2> QED BY <2>6, <2>7 DEF ClientInv
<1> QED BY <1>1, <1>2 DEF Serve

\* A server begins an accept.
LEMMA ServeAcceptsKeeps == ASSUME ClientInv, NEW t \in Tasks, ServeAccepts(t) PROVE ClientInv'
<1>0. /\ Shape(op[t]) /\ Bond(op[t], at[t]) /\ op[t] \in Op /\ PlaceInv
      /\ op = [u \in Tasks |-> op[u]] /\ at = [u \in Tasks |-> at[u]]
      /\ current \in Tasks \cup {NONE}
  BY DEF ClientInv, OpInv, Shape
<1>1. CASE TakesNothingNew(t)
  <2> DEFINE r == NoAccept
  <2>1. /\ op' = [op EXCEPT ![t] = r] /\ Goes(t, "ends")
        /\ current' \in Tasks \cup {NONE}
    BY <1>0, <1>1 DEF ServeAccepts, Begin, listener, Op
  <2>2. /\ r \in Op /\ r.at = "none" /\ r.hand = NONE /\ r.value = NONE
        /\ r.claim = "WAITING" /\ r.left = FALSE /\ r.stopped = FALSE
    BY <1>0, <1>1, NoAcceptFacts DEF Op, OpPlaces, Results, NoAccept
  <2> HIDE DEF r
  <2>3. Frame(t) /\ op'[t] = r
    BY <2>1, ExceptFrame, Zenon DEF ClientInv, Goes
  <2>4. Shape(r)
    BY <1>0, <1>1, <2>2, NoAcceptFacts DEF Shape, ServeAccepts, Results
  <2>5. Bond(r, at'[t])
    BY <1>0, <1>1, <2>1, <2>2 DEF Bond, Goes, TaskPlaces, ServeAccepts
  <2>6. OpInv'
    BY <2>3, <2>4, <2>5, OpMoves DEF ClientInv
  <2>7. PlaceInv'
    <3>1. SameOps
      BY <1>0, <1>1, <2>2, <2>3, FrameSame, NoAcceptFacts DEF Alike, Shape, Bond, ServeAccepts,
        Results
    <3>2. UNCHANGED <<backlog, kept, come, taken, line>>
      BY <1>1 DEF ServeAccepts, listener
    <3> QED BY <1>0, <3>1, <3>2, StillSites
  <2> QED BY <2>6, <2>7 DEF ClientInv
<1>2. CASE ~TakesNothingNew(t)
  <2> DEFINE r == [NoAccept EXCEPT !.at = "queued"]
  <2>1. /\ op' = [op EXCEPT ![t] = r] /\ Goes(t, "waits")
        /\ current' \in Tasks \cup {NONE}
    BY <1>0, <1>2 DEF ServeAccepts, Begin, listener, Op
  <2>2. /\ r \in Op /\ r.at = "queued" /\ r.hand = NONE /\ r.value = NONE
        /\ r.claim = "WAITING" /\ r.left = FALSE /\ r.stopped = FALSE
    BY <1>0, <1>2, NoAcceptFacts, Zenon DEF Op, OpPlaces, Results, NoAccept
  <2> HIDE DEF r
  <2>3. Frame(t) /\ op'[t] = r
    BY <2>1, ExceptFrame, Zenon DEF ClientInv, Goes
  <2>4. Shape(r)
    BY <1>0, <1>2, <2>2, NoAcceptFacts DEF Shape, ServeAccepts, Results
  <2>5. Bond(r, at'[t])
    BY <1>0, <1>2, <2>1, <2>2 DEF Bond, Goes, TaskPlaces, ServeAccepts
  <2>6. OpInv'
    BY <2>3, <2>4, <2>5, OpMoves DEF ClientInv
  <2>7. PlaceInv'
    <3>1. SameOps
      BY <1>0, <1>2, <2>2, <2>3, FrameSame, NoAcceptFacts DEF Alike, Shape, Bond, ServeAccepts,
        Results
    <3>2. UNCHANGED <<backlog, kept, come, taken, line>>
      BY <1>2 DEF ServeAccepts, listener
    <3> QED BY <1>0, <3>1, <3>2, StillSites
  <2> QED BY <2>6, <2>7 DEF ClientInv
<1> QED BY <1>1, <1>2 DEF ServeAccepts

\* Drop for IoOp: the connection of an accept that is through is kept.
LEMMA DropKeeps ==
    ASSUME ClientInv, NEW t \in Tasks, Drop(t), UNCHANGED <<backlog, current, come, taken, line>>
    PROVE  ClientInv'
<1>0. /\ Shape(op[t]) /\ Bond(op[t], at[t]) /\ op[t] \in Op /\ PlaceInv
      /\ op = [u \in Tasks |-> op[u]] /\ at = [u \in Tasks |-> at[u]]
      /\ current \in Tasks \cup {NONE}
  BY DEF ClientInv, OpInv, Shape
<1>1. CASE op[t].at = "queued"
  <2> DEFINE r == NoAccept
  <2>1. /\ op' = [op EXCEPT ![t] = r] /\ Goes(t, "ends")
        /\ current' \in Tasks \cup {NONE}
    BY <1>0, <1>1 DEF Drop, Running, Op
  <2>2. /\ r \in Op /\ r.at = "none" /\ r.hand = NONE /\ r.value = NONE
        /\ r.claim = "WAITING" /\ r.left = FALSE /\ r.stopped = FALSE
    BY <1>0, <1>1, NoAcceptFacts DEF Op, OpPlaces, Results, NoAccept
  <2> HIDE DEF r
  <2>3. Frame(t) /\ op'[t] = r
    BY <2>1, ExceptFrame, Zenon DEF ClientInv, Goes
  <2>4. Shape(r)
    BY <1>0, <1>1, <2>2, NoAcceptFacts DEF Shape, Drop, Results
  <2>5. Bond(r, at'[t])
    BY <1>0, <1>1, <2>1, <2>2 DEF Bond, Goes, TaskPlaces, Drop
  <2>6. OpInv'
    BY <2>3, <2>4, <2>5, OpMoves DEF ClientInv
  <2>7. PlaceInv'
    <3>1. SameOps
      BY <1>0, <1>1, <2>2, <2>3, FrameSame, NoAcceptFacts DEF Alike, Shape, Drop, Results
    <3>2. UNCHANGED <<backlog, kept, come, taken, line>>
      BY <1>1 DEF Drop, Running, Keep
    <3> QED BY <1>0, <3>1, <3>2, StillSites
  <2> QED BY <2>6, <2>7 DEF ClientInv
<1>2. CASE Running(t)
  <2> DEFINE v == IF op[t].claim = "WAITING" THEN "GONE" ELSE op[t].claim
  <2> DEFINE r == [op[t] EXCEPT !.left = TRUE, !.claim = v]
  <2>p. v \in {"GONE", "TOOK"} /\ (op[t].claim # "TOOK" => v # "TOOK")
    BY <1>0 DEF Op
  <2>1. /\ op' = [op EXCEPT ![t] = r] /\ Goes(t, "stops")
        /\ current' \in Tasks \cup {NONE}
    BY <1>0, <1>2, <2>p DEF Drop, Running, Op
  <2> HIDE DEF v
  <2>2. /\ r \in Op /\ r.at = op[t].at /\ r.hand = op[t].hand /\ r.value = op[t].value
        /\ r.claim = v /\ r.left = TRUE /\ r.stopped = op[t].stopped
    BY <1>0, <1>2, <2>p, NoAcceptFacts, Zenon DEF Op, OpPlaces, Results, NoAccept
  <2> HIDE DEF r
  <2>3. Frame(t) /\ op'[t] = r
    BY <2>1, ExceptFrame, Zenon DEF ClientInv, Goes
  <2>4. Shape(r)
    BY <1>0, <1>2, <2>2, <2>p, NoAcceptFacts DEF Shape, Drop, Results, Running
  <2>5. Bond(r, at'[t])
    BY <1>0, <1>2, <2>1, <2>2 DEF Bond, Goes, TaskPlaces, Drop
  <2>6. OpInv'
    BY <2>3, <2>4, <2>5, OpMoves DEF ClientInv
  <2>7. PlaceInv'
    <3>1. SameOps
      BY <1>0, <1>2, <2>2, <2>3, <2>p, FrameSame, NoAcceptFacts DEF Alike, Shape, Drop, Results
    <3>2. UNCHANGED <<backlog, kept, come, taken, line>>
      BY <1>2 DEF Drop, Running, Keep
    <3> QED BY <1>0, <3>1, <3>2, StillSites
  <2> QED BY <2>6, <2>7 DEF ClientInv
<1>3. CASE op[t].at = "finishing"
  <2> DEFINE v == IF op[t].claim = "WAITING" THEN "GONE" ELSE op[t].claim
  <2> DEFINE r == [op[t] EXCEPT !.left = TRUE, !.claim = v]
  <2>p. v \in {"GONE", "TOOK"} /\ (op[t].claim # "TOOK" => v # "TOOK")
    BY <1>0 DEF Op
  <2>1. /\ op' = [op EXCEPT ![t] = r] /\ Goes(t, "ends")
        /\ current' \in Tasks \cup {NONE}
    BY <1>0, <1>3, <2>p DEF Drop, Running, Op
  <2> HIDE DEF v
  <2>2. /\ r \in Op /\ r.at = op[t].at /\ r.hand = op[t].hand /\ r.value = op[t].value
        /\ r.claim = v /\ r.left = TRUE /\ r.stopped = op[t].stopped
    BY <1>0, <1>3, <2>p, NoAcceptFacts, Zenon DEF Op, OpPlaces, Results, NoAccept
  <2> HIDE DEF r
  <2>3. Frame(t) /\ op'[t] = r
    BY <2>1, ExceptFrame, Zenon DEF ClientInv, Goes
  <2>4. Shape(r)
    BY <1>0, <1>3, <2>2, <2>p, NoAcceptFacts DEF Shape, Drop, Results
  <2>5. Bond(r, at'[t])
    BY <1>0, <1>3, <2>1, <2>2 DEF Bond, Goes, TaskPlaces, Drop
  <2>6. OpInv'
    BY <2>3, <2>4, <2>5, OpMoves DEF ClientInv
  <2>7. PlaceInv'
    <3>1. SameOps
      BY <1>0, <1>3, <2>2, <2>3, <2>p, FrameSame, NoAcceptFacts DEF Alike, Shape, Drop, Results
    <3>2. UNCHANGED <<backlog, kept, come, taken, line>>
      BY <1>3 DEF Drop, Running, Keep
    <3> QED BY <1>0, <3>1, <3>2, StillSites
  <2> QED BY <2>6, <2>7 DEF ClientInv
<1>4. CASE op[t].at = "finished" /\ op[t].value \in Clients
  <2> DEFINE r == NoAccept
  <2>1. /\ op' = Notified([op EXCEPT ![t] = r]) /\ Goes(t, "wakes")
        /\ current' \in Tasks \cup {NONE}
    BY <1>0, <1>4 DEF Drop, Running, Keep, Op
  <2>2. /\ r \in Op /\ r.at = "none" /\ r.hand = NONE /\ r.value = NONE
        /\ r.claim = "WAITING" /\ r.left = FALSE /\ r.stopped = FALSE
    BY <1>0, <1>4, NoAcceptFacts DEF Op, OpPlaces, Results, NoAccept
  <2> HIDE DEF r
  <2>3. Frame(t) /\ op'[t] = r
    BY <2>1, <2>2, NotifiedFrame, Zenon DEF ClientInv, Goes
  <2>4. Shape(r)
    BY <1>0, <1>4, <2>2, NoAcceptFacts DEF Shape, Drop, Results
  <2>5. Bond(r, at'[t])
    BY <1>0, <1>4, <2>1, <2>2 DEF Bond, Goes, TaskPlaces, Drop
  <2>6. OpInv'
    BY <2>3, <2>4, <2>5, OpMoves DEF ClientInv
  <2>7. PlaceInv'
    <3>1. OnlyOp(t)
      BY <2>3, FrameOps
    <3>2. /\ op[t].value \in Clients /\ op[t].hand \notin Clients
          /\ r.hand \notin Clients /\ r.value \notin Clients
      BY <1>0, <1>4, <2>2, NoAcceptFacts DEF Shape, Drop
    <3>3. kept' = Append(kept, op[t].value) /\ UNCHANGED <<backlog, come, taken, line>>
      BY <1>4 DEF Drop, Keep, Running
    <3> QED BY <1>0, <2>3, <3>1, <3>2, <3>3, KeptAgain
  <2> QED BY <2>6, <2>7 DEF ClientInv
<1>5. CASE op[t].at = "finished" /\ op[t].value \notin Clients
  <2> DEFINE r == NoAccept
  <2>1. /\ op' = [op EXCEPT ![t] = r] /\ Goes(t, "ends")
        /\ current' \in Tasks \cup {NONE}
    BY <1>0, <1>5 DEF Drop, Running, Op
  <2>2. /\ r \in Op /\ r.at = "none" /\ r.hand = NONE /\ r.value = NONE
        /\ r.claim = "WAITING" /\ r.left = FALSE /\ r.stopped = FALSE
    BY <1>0, <1>5, NoAcceptFacts DEF Op, OpPlaces, Results, NoAccept
  <2> HIDE DEF r
  <2>3. Frame(t) /\ op'[t] = r
    BY <2>1, ExceptFrame, Zenon DEF ClientInv, Goes
  <2>4. Shape(r)
    BY <1>0, <1>5, <2>2, NoAcceptFacts DEF Shape, Drop, Results
  <2>5. Bond(r, at'[t])
    BY <1>0, <1>5, <2>1, <2>2 DEF Bond, Goes, TaskPlaces, Drop
  <2>6. OpInv'
    BY <2>3, <2>4, <2>5, OpMoves DEF ClientInv
  <2>7. PlaceInv'
    <3>1. SameOps
      BY <1>0, <1>5, <2>2, <2>3, FrameSame, NoAcceptFacts DEF Alike, Shape, Drop, Results
    <3>2. UNCHANGED <<backlog, kept, come, taken, line>>
      BY <1>5 DEF Drop, Running, Keep
    <3> QED BY <1>0, <3>1, <3>2, StillSites
  <2> QED BY <2>6, <2>7 DEF ClientInv
<1> QED BY <1>1, <1>2, <1>3, <1>4, <1>5 DEF Drop

\* A wait ends without the value.
LEMMA WaitEndsKeeps == ASSUME ClientInv, NEW t \in Tasks, WaitEnds(t) PROVE ClientInv'
BY DropKeeps DEF WaitEnds

\* Serve::resume: a server goes on with the value, or leaves the operation.
LEMMA ServeResumesKeeps == ASSUME ClientInv, NEW t \in Tasks, ServeResumes(t) PROVE ClientInv'
<1>0. /\ Shape(op[t]) /\ Bond(op[t], at[t]) /\ op[t] \in Op /\ PlaceInv
      /\ op = [u \in Tasks |-> op[u]] /\ at = [u \in Tasks |-> at[u]]
      /\ current \in Tasks \cup {NONE}
  BY DEF ClientInv, OpInv, Shape
<1>1. CASE TakesNothingNew(t)
  BY <1>1, DropKeeps DEF ServeResumes
<1>2. CASE ~TakesNothingNew(t) /\ op[t].value \in Clients
  <2> DEFINE r == NoAccept
  <2>1. /\ op' = [op EXCEPT ![t] = r] /\ Goes(t, "takes")
        /\ current' \in Tasks \cup {NONE}
    BY <1>0, <1>2 DEF ServeResumes, Op
  <2>2. /\ r \in Op /\ r.at = "none" /\ r.hand = NONE /\ r.value = NONE
        /\ r.claim = "WAITING" /\ r.left = FALSE /\ r.stopped = FALSE
    BY <1>0, <1>2, NoAcceptFacts DEF Op, OpPlaces, Results, NoAccept
  <2> HIDE DEF r
  <2>3. Frame(t) /\ op'[t] = r
    BY <2>1, ExceptFrame, Zenon DEF ClientInv, Goes
  <2>4. Shape(r)
    BY <1>0, <1>2, <2>2, NoAcceptFacts DEF Shape, ServeResumes, Results
  <2>5. Bond(r, at'[t])
    BY <1>0, <1>2, <2>1, <2>2 DEF Bond, Goes, TaskPlaces, ServeResumes
  <2>6. OpInv'
    BY <2>3, <2>4, <2>5, OpMoves DEF ClientInv
  <2>7. PlaceInv'
    <3>1. OnlyOp(t)
      BY <2>3, FrameOps
    <3>2. op[t].hand \notin Clients /\ r.hand \notin Clients /\ r.value \notin Clients
      BY <1>0, <2>2, NoAcceptFacts DEF Shape, ServeResumes
    <3>3. /\ taken' = taken \cup ({op[t].value} \cap Clients)
          /\ UNCHANGED <<backlog, kept, come, line>>
      BY <1>2 DEF ServeResumes, listener
    <3> QED BY <1>0, <2>3, <3>1, <3>2, <3>3, ValueIsTaken
  <2> QED BY <2>6, <2>7 DEF ClientInv
<1>3. CASE ~TakesNothingNew(t) /\ op[t].value \notin Clients
  <2> DEFINE r == NoAccept
  <2>1. /\ op' = [op EXCEPT ![t] = r] /\ Goes(t, "starts")
        /\ current' \in Tasks \cup {NONE}
    BY <1>0, <1>3 DEF ServeResumes, Op
  <2>2. /\ r \in Op /\ r.at = "none" /\ r.hand = NONE /\ r.value = NONE
        /\ r.claim = "WAITING" /\ r.left = FALSE /\ r.stopped = FALSE
    BY <1>0, <1>3, NoAcceptFacts DEF Op, OpPlaces, Results, NoAccept
  <2> HIDE DEF r
  <2>3. Frame(t) /\ op'[t] = r
    BY <2>1, ExceptFrame, Zenon DEF ClientInv, Goes
  <2>4. Shape(r)
    BY <1>0, <1>3, <2>2, NoAcceptFacts DEF Shape, ServeResumes, Results
  <2>5. Bond(r, at'[t])
    BY <1>0, <1>3, <2>1, <2>2 DEF Bond, Goes, TaskPlaces, ServeResumes
  <2>6. OpInv'
    BY <2>3, <2>4, <2>5, OpMoves DEF ClientInv
  <2>7. PlaceInv'
    <3>1. OnlyOp(t)
      BY <2>3, FrameOps
    <3>2. op[t].hand \notin Clients /\ r.hand \notin Clients /\ r.value \notin Clients
      BY <1>0, <2>2, NoAcceptFacts DEF Shape, ServeResumes
    <3>3. /\ taken' = taken \cup ({op[t].value} \cap Clients)
          /\ UNCHANGED <<backlog, kept, come, line>>
      BY <1>3 DEF ServeResumes, listener
    <3> QED BY <1>0, <2>3, <3>1, <3>2, <3>3, ValueIsTaken
  <2> QED BY <2>6, <2>7 DEF ClientInv
<1> QED BY <1>1, <1>2, <1>3 DEF ServeResumes

\* take_kept: what else is kept goes to the server.
LEMMA ServeTakesKeeps == ASSUME ClientInv, NEW t \in Tasks, ServeTakes(t) PROVE ClientInv'
<1>0. /\ Shape(op[t]) /\ Bond(op[t], at[t]) /\ op[t] \in Op /\ PlaceInv
      /\ op = [u \in Tasks |-> op[u]] /\ at = [u \in Tasks |-> at[u]]
      /\ current \in Tasks \cup {NONE}
  BY DEF ClientInv, OpInv, Shape
<1>1. CASE kept # <<>>
  <2> DEFINE r == op[t]
  <2>1. /\ op' = [op EXCEPT ![t] = r] /\ at' = at
        /\ current' \in Tasks \cup {NONE}
    BY <1>0, <1>1 DEF ServeTakes, Op
  <2>2. /\ r \in Op /\ r.at = op[t].at /\ r.hand = op[t].hand /\ r.value = op[t].value
        /\ r.claim = op[t].claim /\ r.left = op[t].left /\ r.stopped = op[t].stopped
    BY <1>0, <1>1, NoAcceptFacts DEF Op, OpPlaces, Results, NoAccept
  <2> HIDE DEF r
  <2>3. Frame(t) /\ op'[t] = r
    BY <2>1, ExceptFrame, Zenon DEF ClientInv
  <2>4. Shape(r)
    BY <1>0, <1>1, <2>2, NoAcceptFacts DEF Shape, ServeTakes, Results
  <2>5. Bond(r, at'[t])
    BY <1>0, <1>1, <2>1, <2>2, Zenon DEF Bond, Goes, TaskPlaces, ServeTakes
  <2>6. OpInv'
    BY <2>3, <2>4, <2>5, OpMoves DEF ClientInv
  <2>7. PlaceInv'
    <3>1. /\ op' = op /\ kept' = Tail(kept) /\ taken' = taken \cup {Head(kept)}
          /\ UNCHANGED <<backlog, come, line>>
      BY <1>1 DEF ServeTakes
    <3> QED BY <1>0, <1>1, <3>1, KeptIsTaken
  <2> QED BY <2>6, <2>7 DEF ClientInv
<1>2. CASE kept = <<>>
  <2> DEFINE r == op[t]
  <2>1. /\ op' = [op EXCEPT ![t] = r] /\ Goes(t, "starts")
        /\ current' \in Tasks \cup {NONE}
    BY <1>0, <1>2 DEF ServeTakes, Op
  <2>2. /\ r \in Op /\ r.at = op[t].at /\ r.hand = op[t].hand /\ r.value = op[t].value
        /\ r.claim = op[t].claim /\ r.left = op[t].left /\ r.stopped = op[t].stopped
    BY <1>0, <1>2, NoAcceptFacts DEF Op, OpPlaces, Results, NoAccept
  <2> HIDE DEF r
  <2>3. Frame(t) /\ op'[t] = r
    BY <2>1, ExceptFrame, Zenon DEF ClientInv, Goes
  <2>4. Shape(r)
    BY <1>0, <1>2, <2>2, NoAcceptFacts DEF Shape, ServeTakes, Results
  <2>5. Bond(r, at'[t])
    BY <1>0, <1>2, <2>1, <2>2, Zenon DEF Bond, Goes, TaskPlaces, ServeTakes
  <2>6. OpInv'
    BY <2>3, <2>4, <2>5, OpMoves DEF ClientInv
  <2>7. PlaceInv'
    <3>1. SameOps
      BY <1>0, <1>2, <2>2, <2>3, FrameSame, NoAcceptFacts DEF Alike, Shape, ServeTakes, Results
    <3>2. UNCHANGED <<backlog, kept, come, taken, line>>
      BY <1>2 DEF ServeTakes
    <3> QED BY <1>0, <3>1, <3>2, StillSites
  <2> QED BY <2>6, <2>7 DEF ClientInv
<1> QED BY <1>1, <1>2 DEF ServeTakes

\* TcpListenerHandle::stop: the accept in the call is woken, the others look again.
LEMMA StopKeeps == ASSUME ClientInv, NEW t \in Tasks, Stop(t) PROVE ClientInv'
<1>0. /\ Shape(op[t]) /\ Bond(op[t], at[t]) /\ op[t] \in Op /\ PlaceInv
      /\ op = [u \in Tasks |-> op[u]] /\ at = [u \in Tasks |-> at[u]]
      /\ current \in Tasks \cup {NONE}
  BY DEF ClientInv, OpInv, Shape
<1>1. CASE op[t].claim = "TOOK" \/ current = t
  <2> DEFINE r == op[t]
  <2>1. /\ op' = [op EXCEPT ![t] = r] /\ Goes(t, "ends")
        /\ current' \in Tasks \cup {NONE}
    BY <1>0, <1>1 DEF Stop, Op
  <2>2. /\ r \in Op /\ r.at = op[t].at /\ r.hand = op[t].hand /\ r.value = op[t].value
        /\ r.claim = op[t].claim /\ r.left = op[t].left /\ r.stopped = op[t].stopped
    BY <1>0, <1>1, NoAcceptFacts DEF Op, OpPlaces, Results, NoAccept
  <2> HIDE DEF r
  <2>3. Frame(t) /\ op'[t] = r
    BY <2>1, ExceptFrame, Zenon DEF ClientInv, Goes
  <2>4. Shape(r)
    BY <1>0, <1>1, <2>2, NoAcceptFacts DEF Shape, Stop, Results
  <2>5. Bond(r, at'[t])
    BY <1>0, <1>1, <2>1, <2>2 DEF Bond, Goes, TaskPlaces, Stop
  <2>6. OpInv'
    BY <2>3, <2>4, <2>5, OpMoves DEF ClientInv
  <2>7. PlaceInv'
    <3>1. SameOps
      BY <1>0, <1>1, <2>2, <2>3, FrameSame, NoAcceptFacts DEF Alike, Shape, Stop, Results
    <3>2. UNCHANGED <<kept, come, taken, line>> /\ (WakeTheCall \/ NoWake)
      BY <1>1 DEF Stop
    <3> QED BY <1>0, <3>1, <3>2, WakesSites
  <2> QED BY <2>6, <2>7 DEF ClientInv
<1>2. CASE ~(op[t].claim = "TOOK" \/ current = t)
  <2>1. op' = Notified(op) /\ Goes(t, "ends") /\ current' = current
    BY <1>2 DEF Stop
  <2>2. \A u \in Tasks : op[u] \in Op
    BY DEF ClientInv, OpInv, Shape
  <2>3. op' = [u \in Tasks |-> op'[u]] /\ \A u \in Tasks : Kin(op[u], op'[u])
    BY <2>1, <2>2, NotifiedKin
  <2>4. Frame(t)
    BY <1>0, <2>1, <2>3 DEF Frame, Goes
  <2>5. Shape(op'[t]) /\ Bond(op'[t], at[t])
    BY <1>0, <2>3, KinKeeps
  <2>6. Bond(op'[t], at'[t])
    BY <1>0, <2>1, <2>3, <2>5 DEF Bond, Goes, TaskPlaces, Stop, Kin
  <2>7. OpInv'
    BY <2>4, <2>5, <2>6, OpMoves DEF ClientInv
  <2>8. SameOps
    BY <2>3 DEF SameOps, Alike, Kin
  <2>9. UNCHANGED <<kept, come, taken, line>> /\ NoWake
    BY <1>2 DEF Stop
  <2>10. PlaceInv'
    BY <1>0, <2>8, <2>9, WakesSites
  <2> QED BY <2>7, <2>10 DEF ClientInv
<1> QED BY <1>1, <1>2 DEF Stop

\* The waiter that gave back wakes the accept in the call.
LEMMA WaiterWakesKeeps == ASSUME ClientInv, NEW t \in Tasks, WaiterWakes(t) PROVE ClientInv'
<1>0. /\ Shape(op[t]) /\ Bond(op[t], at[t]) /\ op[t] \in Op /\ PlaceInv
      /\ op = [u \in Tasks |-> op[u]] /\ at = [u \in Tasks |-> at[u]]
      /\ current \in Tasks \cup {NONE}
  BY DEF ClientInv, OpInv, Shape
<1> DEFINE r == op[t]
<1>1. /\ op' = [op EXCEPT ![t] = r] /\ Goes(t, "ends")
      /\ current' \in Tasks \cup {NONE}
  BY <1>0 DEF WaiterWakes, Op
<1>2. /\ r \in Op /\ r.at = op[t].at /\ r.hand = op[t].hand /\ r.value = op[t].value
      /\ r.claim = op[t].claim /\ r.left = op[t].left /\ r.stopped = op[t].stopped
  BY <1>0, NoAcceptFacts DEF Op, OpPlaces, Results, NoAccept
<1> HIDE DEF r
<1>3. Frame(t) /\ op'[t] = r
  BY <1>1, ExceptFrame, Zenon DEF ClientInv, Goes
<1>4. Shape(r)
  BY <1>0, <1>2, NoAcceptFacts DEF Shape, WaiterWakes, Results
<1>5. Bond(r, at'[t])
  BY <1>0, <1>1, <1>2, Zenon DEF Bond, Goes, TaskPlaces, WaiterWakes
<1>6. OpInv'
  BY <1>3, <1>4, <1>5, OpMoves DEF ClientInv
<1>7. PlaceInv'
  <2>1. SameOps
    BY <1>0, <1>2, <1>3, FrameSame, NoAcceptFacts DEF Alike, Shape, WaiterWakes, Results
  <2>2. UNCHANGED <<kept, come, taken, line>> /\ (WakeTheCall \/ NoWake)
    BY DEF WaiterWakes, KeepWakes
  <2> QED BY <1>0, <2>1, <2>2, WakesSites
<1> QED BY <1>6, <1>7 DEF ClientInv

\* The task is through.
LEMMA EndKeeps == ASSUME ClientInv, NEW t \in Tasks, End(t) PROVE ClientInv'
<1>0. /\ Shape(op[t]) /\ Bond(op[t], at[t]) /\ op[t] \in Op /\ PlaceInv
      /\ op = [u \in Tasks |-> op[u]] /\ at = [u \in Tasks |-> at[u]]
      /\ current \in Tasks \cup {NONE}
  BY DEF ClientInv, OpInv, Shape
<1> DEFINE r == op[t]
<1>1. /\ op' = [op EXCEPT ![t] = r] /\ Goes(t, "ended")
      /\ current' \in Tasks \cup {NONE}
  BY <1>0 DEF End, Op
<1>2. /\ r \in Op /\ r.at = op[t].at /\ r.hand = op[t].hand /\ r.value = op[t].value
      /\ r.claim = op[t].claim /\ r.left = op[t].left /\ r.stopped = op[t].stopped
  BY <1>0, NoAcceptFacts DEF Op, OpPlaces, Results, NoAccept
<1> HIDE DEF r
<1>3. Frame(t) /\ op'[t] = r
  BY <1>1, ExceptFrame, Zenon DEF ClientInv, Goes
<1>4. Shape(r)
  BY <1>0, <1>2, NoAcceptFacts DEF Shape, End, Results
<1>5. Bond(r, at'[t])
  BY <1>0, <1>1, <1>2, Zenon DEF Bond, Goes, TaskPlaces, End
<1>6. OpInv'
  BY <1>3, <1>4, <1>5, OpMoves DEF ClientInv
<1>7. PlaceInv'
  <2>1. SameOps
    BY <1>0, <1>2, <1>3, FrameSame, NoAcceptFacts DEF Alike, Shape, End, Results
  <2>2. UNCHANGED <<backlog, kept, come, taken, line>>
    BY DEF End
  <2> QED BY <1>0, <2>1, <2>2, StillSites
<1> QED BY <1>6, <1>7 DEF ClientInv

\* An accept that is told to stop.
LEMMA ToldKin ==
    ASSUME NEW r \in Op
    PROVE  Kin(r, [r EXCEPT !.stopped = TRUE]) /\ [r EXCEPT !.stopped = TRUE].at = r.at
<1> DEFINE q == [r EXCEPT !.stopped = TRUE]
<1>1. q \in Op
  BY Zenon DEF Op
<1>2. /\ q.at = r.at /\ q.hand = r.hand /\ q.value = r.value /\ q.claim = r.claim
      /\ q.left = r.left /\ q.stopped = TRUE
  BY DEF Op
<1> QED BY <1>1, <1>2 DEF Kin

\* TcpListenerHandle::serve: the accept in the call is told to stop and woken.
LEMMA ServeWakesKeeps == ASSUME ClientInv, NEW t \in Tasks, ServeWakes(t) PROVE ClientInv'
<1>0. /\ Shape(op[t]) /\ Bond(op[t], at[t]) /\ op[t] \in Op /\ PlaceInv
      /\ op = [u \in Tasks |-> op[u]] /\ at = [u \in Tasks |-> at[u]]
      /\ current \in Tasks \cup {NONE}
  BY DEF ClientInv, OpInv, Shape
<1> DEFINE ops == IF current # NONE THEN [op EXCEPT ![current].stopped = TRUE] ELSE op
<1>1. op' = Notified(ops) /\ Goes(t, "starts") /\ current' = current
  BY DEF ServeWakes
<1>2. \A u \in Tasks : op[u] \in Op
  BY DEF ClientInv, OpInv, Shape
<1>3. \A u \in Tasks : Kin(op[u], ops[u]) /\ ops[u].at = op[u].at
  <2>1. ASSUME NEW u \in Tasks PROVE Kin(op[u], ops[u]) /\ ops[u].at = op[u].at
    <3>1. ops[u] = op[u] \/ ops[u] = [op[u] EXCEPT !.stopped = TRUE]
      BY <1>0, Zenon
    <3>2. CASE ops[u] = op[u]
      BY <1>2, <3>2, SelfKin
    <3>3. CASE ops[u] = [op[u] EXCEPT !.stopped = TRUE]
      BY <1>2, <3>3, ToldKin
    <3> QED BY <3>1, <3>2, <3>3
  <2> QED BY <2>1, Zenon
<1> HIDE DEF ops
<1>4. \A u \in Tasks : ops[u] \in Op
  BY <1>3 DEF Kin
<1>5. op' = [u \in Tasks |-> op'[u]] /\ \A u \in Tasks : Kin(ops[u], op'[u])
  BY <1>1, <1>4, NotifiedKin
<1>6. \A u \in Tasks : Kin(op[u], op'[u])
  BY <1>3, <1>5 DEF Kin
<1>7. Frame(t)
  BY <1>0, <1>1, <1>5, <1>6 DEF Frame, Goes
<1>8. Shape(op'[t]) /\ Bond(op'[t], at[t])
  BY <1>0, <1>6, KinKeeps
<1>9. Bond(op'[t], at'[t])
  BY <1>0, <1>1, <1>8 DEF Bond, Goes, TaskPlaces, ServeWakes
<1>10. OpInv'
  BY <1>7, <1>8, <1>9, OpMoves DEF ClientInv
<1>11. SameOps
  BY <1>6 DEF SameOps, Alike, Kin
<1>12. UNCHANGED <<kept, come, taken, line>> /\ (WakeTheCall \/ NoWake)
  BY DEF ServeWakes
<1>13. PlaceInv'
  BY <1>0, <1>11, <1>12, WakesSites
<1> QED BY <1>10, <1>13 DEF ClientInv

\* A step that leaves the accepts, the tasks and the connections alone.
LEMMA SameKeeps ==
    ASSUME ClientInv, UNCHANGED <<backlog, kept, current, at, op, taken, come, line>>
    PROVE  ClientInv'
<1>1. OpInv'
  BY DEF ClientInv, OpInv, Shape, Bond
<1>2. SameOps
  BY DEF SameOps, Alike
<1>3. PlaceInv'
  BY <1>2, StillSites DEF ClientInv
<1> QED BY <1>1, <1>3 DEF ClientInv

\* A client comes.
LEMMA ConnectKeeps == ASSUME ClientInv, Connect PROVE ClientInv'
<1>1. OpInv'
  BY DEF ClientInv, OpInv, Shape, Bond, Connect
<1> QED BY <1>1, ConnectSites DEF ClientInv

\* Every step keeps what is said of the accepts and of the connections.
LEMMA ClientStep == ClientInv /\ [Next]_vars => ClientInv'
<1> SUFFICES ASSUME ClientInv, [Next]_vars PROVE ClientInv'
  OBVIOUS
<1>1. CASE UNCHANGED vars
  BY <1>1, SameKeeps DEF vars, listener
<1>2. CASE Connect
  BY <1>2, ConnectKeeps
<1>3. ASSUME NEW t \in Tasks, Thread(t) PROVE ClientInv'
  BY <1>3, LookKeeps, CallReturnsKeeps, HandleKeeps, HandleWakeKeeps, KeepReadyKeeps,
    KeepReadyEndsKeeps, LeaveCallKeeps, FinishKeeps, ThreadWakesKeeps DEF Thread
<1>4. ASSUME NEW t \in Tasks, Task(t) PROVE ClientInv'
  BY <1>4, AcceptReturnsKeeps, ServeWakesKeeps, ServeAcceptsKeeps, ServeResumesKeeps,
    ServeTakesKeeps, StopKeeps, WaiterWakesKeeps, EndKeeps DEF Task
<1>5. ASSUME NEW t \in Tasks, CallFails(t) \/ WaitEnds(t) \/ Accept(t) \/ Serve(t)
      PROVE  ClientInv'
  BY <1>5, CallFailsKeeps, WaitEndsKeeps, AcceptKeeps, ServeKeeps
<1>6. ASSUME NEW t \in Tasks, NEW f \in {"cancelled", "over"}, Flag(t, f) PROVE ClientInv'
  BY <1>6, SameKeeps DEF Flag, listener
<1> QED BY <1>1, <1>2, <1>3, <1>4, <1>5, <1>6 DEF Next

\* At the start nobody has come.
LEMMA ClientInit == Init => ClientInv
<1> SUFFICES ASSUME Init PROVE ClientInv
  OBVIOUS
<1>1. PICK p \in Programs : /\ at = [t \in Tasks |-> IF t \in p.calls THEN "idle" ELSE "ended"]
                            /\ line = p.line
  BY DEF Init
<1>2. op = [t \in Tasks |-> NoAccept] /\ current = NONE
  BY DEF Init
<1>3. OpInv
  BY <1>1, <1>2, NoAcceptFacts DEF OpInv, Shape, Bond, TaskPlaces
<1>4. line \in Seq(Clients) /\ Once(line)
  BY <1>1, Cases DEF Once, IsInjective
<1>5. BacklogInv /\ KeptInv /\ ComeInv
  BY <1>4 DEF Init, BacklogInv, KeptInv, ComeInv, Once
<1>6. \A c \in Clients : ~InBacklog(c) /\ ~InKept(c)
  BY DEF Init, InBacklog, InKept
<1>7. \A c \in Clients : c # NONE
  BY NoAcceptFacts
<1>8. Sited
  BY <1>2, <1>6, <1>7, NoAcceptFacts DEF Init, Sited, OnlyAt
<1> QED BY <1>3, <1>5, <1>8 DEF ClientInv, PlaceInv

-----------------------------------------------------------------------------
(* Where a connection is.                                                  *)

\* What is somewhere only is in one place.
LEMMA OnePlace ==
    ASSUME BacklogInv, KeptInv, NEW c \in Clients, Somewhere(c) PROVE Cardinality(Places(c)) = 1
<1> DEFINE B == {j \in DOMAIN backlog : backlog[j] = c}
           K == {j \in DOMAIN kept : kept[j] = c}
           H == {u \in Tasks : op[u].hand = c}
           V == {u \in Tasks : op[u].value = c}
           T == taken \cap {c}
<1>1. Places(c) = {<<"backlog", i>> : i \in B} \cup {<<"kept", i>> : i \in K}
                  \cup {<<"hand", t>> : t \in H} \cup {<<"value", t>> : t \in V}
                  \cup {<<"taken", d>> : d \in T}
  BY DEF Places
<1>2. \A x : Places(c) = {x} => Cardinality(Places(c)) = 1
  BY FS_Singleton, Zenon
<1>3. Cardinality(Places(c)) = 1
  <2>1. CASE OnlyAt(c, "backlog", NONE)
    <3>1. PICK i \in DOMAIN backlog : backlog[i] = c
      BY <2>1 DEF OnlyAt, InBacklog
    <3>2. B = {i}
      BY <3>1 DEF BacklogInv, Once
    <3>3. K = {} /\ H = {} /\ V = {} /\ T = {}
      BY <2>1 DEF OnlyAt, InKept
    <3> HIDE DEF B, K, H, V, T
    <3>4. Places(c) = {<<"backlog", i>>}
      BY <1>1, <3>2, <3>3
    <3> QED BY <1>2, <3>4, Zenon
  <2>2. CASE OnlyAt(c, "kept", NONE)
    <3>1. PICK i \in DOMAIN kept : kept[i] = c
      BY <2>2 DEF OnlyAt, InKept
    <3>2. K = {i}
      BY <3>1 DEF KeptInv, Once
    <3>3. B = {} /\ H = {} /\ V = {} /\ T = {}
      BY <2>2 DEF OnlyAt, InBacklog
    <3> HIDE DEF B, K, H, V, T
    <3>4. Places(c) = {<<"kept", i>>}
      BY <1>1, <3>2, <3>3
    <3> QED BY <1>2, <3>4, Zenon
  <2>3. CASE OnlyAt(c, "taken", NONE)
    <3>1. B = {} /\ K = {} /\ H = {} /\ V = {} /\ T = {c}
      BY <2>3 DEF OnlyAt, InBacklog, InKept
    <3> HIDE DEF B, K, H, V, T
    <3>2. Places(c) = {<<"taken", c>>}
      BY <1>1, <3>1
    <3> QED BY <1>2, <3>2, Zenon
  <2>4. ASSUME NEW t \in Tasks, OnlyAt(c, "hand", t) PROVE Cardinality(Places(c)) = 1
    <3>1. B = {} /\ K = {} /\ H = {t} /\ V = {} /\ T = {}
      BY <2>4 DEF OnlyAt, InBacklog, InKept
    <3> HIDE DEF B, K, H, V, T
    <3>2. Places(c) = {<<"hand", t>>}
      BY <1>1, <3>1
    <3> QED BY <1>2, <3>2, Zenon
  <2>5. ASSUME NEW t \in Tasks, OnlyAt(c, "value", t) PROVE Cardinality(Places(c)) = 1
    <3>1. B = {} /\ K = {} /\ H = {} /\ V = {t} /\ T = {}
      BY <2>5 DEF OnlyAt, InBacklog, InKept
    <3> HIDE DEF B, K, H, V, T
    <3>2. Places(c) = {<<"value", t>>}
      BY <1>1, <3>1
    <3> QED BY <1>2, <3>2, Zenon
  <2> QED BY <2>1, <2>2, <2>3, <2>4, <2>5 DEF Somewhere
<1> QED BY <1>3

\* The invariant says that no client is lost.
LEMMA SitedIsNotLost == ClientInv => NoClientIsLost
<1> SUFFICES ASSUME ClientInv, NEW c \in come
             PROVE  /\ Cardinality(Places(c)) = 1
                    /\ \A t \in Tasks : op[t].value = c /\ op[t].at = "finished" => at[t] = "waits"
  BY DEF NoClientIsLost
<1>1. c \in Clients
  BY DEF ClientInv, PlaceInv, ComeInv
<1>2. Somewhere(c)
  <2>1. Sited
    BY DEF ClientInv, PlaceInv
  <2> QED BY <1>1, <2>1 DEF Sited
<1>3. Cardinality(Places(c)) = 1
  BY <1>1, <1>2, OnePlace DEF ClientInv, PlaceInv
<1>4. \A t \in Tasks : op[t].at = "finished" => at[t] = "waits"
  BY DEF ClientInv, OpInv, Shape, Bond
<1> QED BY <1>3, <1>4

\* What is said of the accepts and of the connections holds always.
LEMMA ClientsHold == Spec => []ClientInv
<1> QED BY ClientInit, ClientStep, PTL DEF Spec

\* No client's connection is lost, nor is it in two places: not while accepts
\* are given up (Drop for IoOp, TcpListenerHandle::stop), while a server takes
\* the listener from those that accept (TcpListenerHandle::serve), while an
\* accept keeps what it is not to have (TcpListenerHandle::keep), nor with a
\* server that takes what is kept.
THEOREM NoConnectionIsLost == Spec => []NoClientIsLost
<1> QED BY ClientsHold, SitedIsNotLost, PTL

-----------------------------------------------------------------------------
(* A server has the listener alone.                                        *)

InCall == {"call", "hand", "ready", "leave"}
Live == {"serves", "starts", "waits", "takes"}
Holds == {"starts", "waits", "takes"}

\* The turn is that of the accept in the call.
CallInv == \A t \in Tasks : op[t].at \in InCall => current = t

\* The listener is that of a server that goes on, unless it is cancelled.
ServedInv ==
    /\ flag = [t \in Tasks |-> flag[t]]
    /\ served \in Servers \cup {NONE}
    /\ \A s \in Servers : at[s] \in Live => served = s \/ "cancelled" \in flag[s]

\* Has a server the listener, then the accept in the call has been told.
StopInv ==
    \A s \in Servers, t \in Accepts :
        Has(s) /\ op[t].at \in {"call", "hand"} => op[t].stopped

AloneInv == CallInv /\ ServedInv /\ StopInv

\* An accept does not come to the call, nor forget that it was told.
Within(r, q) ==
    /\ q.at \in InCall => r.at \in InCall
    /\ q.at \in {"call", "hand"} => r.at \in {"call", "hand"} /\ (r.stopped => q.stopped)

\* Nor does it get a connection.
Mild(r, q) == Within(r, q) /\ (q.value \in Clients => r.value \in Clients)

Tame == \A u \in Tasks : Within(op[u], op'[u])
NoNew == \A u \in Tasks : op'[u].value \in Clients => op[u].value \in Clients

\* No server comes to have the listener.
HasKept == \A s \in Servers : Has(s)' => Has(s)

\* Servers are not accepts, nor is anybody nobody.
LEMMA WhoIsWho ==
    /\ \A t \in Tasks : t # NONE
    /\ \A s \in Servers : s \in Tasks /\ s \notin Accepts
    /\ \A t \in Accepts : t \in Tasks /\ t \notin Servers
    /\ \A t \in Tasks : t \in Accepts \/ t \in Servers
BY Sets, Marks DEF Tasks

\* One accept changes so, and the others not ...
LEMMA MildExcept ==
    ASSUME OpInv, NEW t \in Tasks, NEW r, op' = [op EXCEPT ![t] = r], Mild(op[t], r)
    PROVE  Tame /\ NoNew
<1>1. op'[t] = r /\ \A u \in Tasks \ {t} : op'[u] = op[u]
  BY DEF OpInv
<1>2. ASSUME NEW u \in Tasks
      PROVE  Within(op[u], op'[u]) /\ (op'[u].value \in Clients => op[u].value \in Clients)
  BY <1>1 DEF Mild, Within
<1> QED BY <1>2 DEF Tame, NoNew

\* ... or those that wait their turn look again, too.
LEMMA MildNotified ==
    ASSUME OpInv, NEW ops, \A u \in Tasks : ops[u] \in Op /\ Mild(op[u], ops[u]),
           op' = Notified(ops)
    PROVE  Tame /\ NoNew
<1>1. \A u \in Tasks : Kin(ops[u], op'[u])
  BY NotifiedKin
<1>2. ASSUME NEW u \in Tasks
      PROVE  Within(op[u], op'[u]) /\ (op'[u].value \in Clients => op[u].value \in Clients)
  BY <1>1 DEF Mild, Within, Kin, InCall
<1> QED BY <1>2 DEF Tame, NoNew

\* An accept that is not there, or that is as it was.
LEMMA MildRecords ==
    /\ \A r : Mild(r, r)
    /\ \A r : Mild(r, NoAccept)
    /\ \A r : Mild(r, [NoAccept EXCEPT !.at = "queued"])
    /\ \A r : Mild(r, [NoAccept EXCEPT !.at = "wakes"])
    /\ [NoAccept EXCEPT !.at = "queued"] \in Op /\ [NoAccept EXCEPT !.at = "wakes"] \in Op
<1>1. NONE \notin Clients
  BY NoAcceptFacts
<1>2. \A r : Mild(r, r) /\ Mild(r, NoAccept)
  BY <1>1 DEF Mild, Within, InCall, NoAccept
<1>3. \A r : Mild(r, [NoAccept EXCEPT !.at = "queued"]) /\ Mild(r, [NoAccept EXCEPT !.at = "wakes"])
  BY <1>1 DEF Mild, Within, InCall, NoAccept
<1>4. ASSUME NEW p \in OpPlaces PROVE [NoAccept EXCEPT !.at = p] \in Op
  BY NoAcceptFacts DEF Op
<1>5. "queued" \in OpPlaces /\ "wakes" \in OpPlaces
  BY DEF OpPlaces
<1> QED BY <1>2, <1>3, <1>4, <1>5

\* An accept is given up, and its connection is kept.
LEMMA MildKeep ==
    ASSUME OpInv, NEW t \in Tasks, NEW r \in Op, Mild(op[t], r),
           op' = Notified([op EXCEPT ![t] = r])
    PROVE  Tame /\ NoNew
<1> DEFINE ops == [op EXCEPT ![t] = r]
<1>1. ASSUME NEW u \in Tasks PROVE ops[u] \in Op /\ Mild(op[u], ops[u])
  <2>1. ops[u] = op[u] \/ (u = t /\ ops[u] = r)
    BY DEF OpInv
  <2>2. op[u] \in Op
    BY DEF OpInv, Shape
  <2> HIDE DEF ops
  <2> QED BY <2>1, <2>2, MildRecords
<1> HIDE DEF ops
<1>2. op' = Notified(ops)
  BY DEF ops
<1>3. \A u \in Tasks : ops[u] \in Op /\ Mild(op[u], ops[u])
  BY <1>1
<1> QED BY <1>2, <1>3, MildNotified, Zenon

\* What a step of a thread does, but for those that look and those that have
\* a connection in their hand.
LEMMA MildThread ==
    ASSUME ClientInv, NEW t \in Tasks,
           \/ CallReturns(t) \/ CallFails(t) \/ KeepReady(t) \/ KeepReadyEnds(t)
           \/ Finish(t) \/ ThreadWakes(t)
    PROVE  Tame /\ NoNew /\ current' = current
<1>0. OpInv /\ op[t] \in Op /\ op[t].value \in Clients \cup {NONE} \cup Results
  BY DEF ClientInv, OpInv, Shape, Op
<1>1. CASE CallReturns(t)
  <2> DEFINE r == [op[t] EXCEPT !.at = "hand", !.hand = Head(backlog)]
  <2>1. op' = [op EXCEPT ![t] = r] /\ Mild(op[t], r) /\ current' = current
    BY <1>0, <1>1, Zenon DEF CallReturns, Mild, Within, InCall, Op
  <2> QED BY <1>0, <2>1, MildExcept, Zenon
<1>2. CASE CallFails(t)
  <2> DEFINE r == [op[t] EXCEPT !.at = "leave", !.value = "Error"]
  <2>1. op' = [op EXCEPT ![t] = r] /\ current' = current /\ op[t].at = "call"
    BY <1>0, <1>2, Zenon DEF CallFails, Op, listener
  <2>2. r.at = "leave" /\ r.value = "Error" /\ "Error" \notin Clients
    BY <1>0, NoAcceptFacts DEF Op, Results
  <2> HIDE DEF r
  <2>3. Mild(op[t], r)
    BY <2>1, <2>2 DEF Mild, Within, InCall
  <2> QED BY <1>0, <2>1, <2>3, MildExcept, Zenon
<1>3. CASE KeepReady(t)
  <2> DEFINE r == [op[t] EXCEPT !.ready = @ + 1]
  <2>1. CASE Head(backlog) = WAKE
    <3>1. op' = op /\ current' = current
      BY <1>3, <2>1 DEF KeepReady
    <3> QED BY <3>1 DEF Tame, NoNew, Within
  <2>2. CASE Head(backlog) # WAKE
    <3>1. op' = [op EXCEPT ![t] = r] /\ Mild(op[t], r) /\ current' = current
      BY <1>0, <1>3, <2>2 DEF KeepReady, Mild, Within, InCall, Op
    <3> QED BY <1>0, <3>1, MildExcept, Zenon
  <2> QED BY <2>1, <2>2
<1>4. CASE KeepReadyEnds(t)
  <2> DEFINE r == [op[t] EXCEPT !.at = "leave"]
  <2>1. op' = [op EXCEPT ![t] = r] /\ Mild(op[t], r) /\ current' = current
    BY <1>0, <1>4 DEF KeepReadyEnds, Mild, Within, InCall, Op, listener
  <2> QED BY <1>0, <2>1, MildExcept, Zenon
<1>5. CASE Finish(t)
  <2> DEFINE r == [op[t] EXCEPT !.at = "finished"]
  <2>1. CASE op' = [op EXCEPT ![t].at = "finished"]
    <3>1. op' = [op EXCEPT ![t] = r] /\ Mild(op[t], r)
      BY <1>0, <2>1 DEF Mild, Within, InCall, Op
    <3> QED BY <1>0, <1>5, <3>1, MildExcept, Zenon DEF Finish
  <2>2. CASE op' = [op EXCEPT ![t] = NoAccept]
    BY <1>0, <1>5, <2>2, MildExcept, MildRecords, Zenon DEF Finish
  <2>3. CASE op' = Notified([op EXCEPT ![t] = [NoAccept EXCEPT !.at = "wakes"]])
    BY <1>0, <1>5, <2>3, MildKeep, MildRecords DEF Finish
  <2> QED BY <1>5, <2>1, <2>2, <2>3 DEF Finish, Keep
<1>6. CASE ThreadWakes(t)
  BY <1>0, <1>6, MildExcept, MildRecords, Zenon DEF ThreadWakes
<1> QED BY <1>1, <1>2, <1>3, <1>4, <1>5, <1>6

\* What it does when an accept is given up.
LEMMA MildDrop == ASSUME ClientInv, NEW t \in Tasks, Drop(t) PROVE Tame /\ NoNew
<1> DEFINE v == IF op[t].claim = "WAITING" THEN "GONE" ELSE op[t].claim
           r == [op[t] EXCEPT !.left = TRUE, !.claim = v]
<1>0. OpInv /\ op[t] \in Op
  BY DEF ClientInv, OpInv, Shape
<1>1. CASE op' = [op EXCEPT ![t].left = TRUE, ![t].claim = IF @ = "WAITING" THEN "GONE" ELSE @]
  <2>1. op' = [op EXCEPT ![t] = r]
    BY <1>0, <1>1, Zenon DEF Op
  <2> HIDE DEF v
  <2>2. Mild(op[t], r)
    BY <1>0 DEF Mild, Within, InCall, Op
  <2> QED BY <1>0, <2>1, <2>2, MildExcept, Zenon
<1>2. CASE op' = [op EXCEPT ![t] = NoAccept]
  BY <1>0, <1>2, MildExcept, MildRecords, Zenon
<1>3. CASE op' = Notified([op EXCEPT ![t] = NoAccept])
  BY <1>0, <1>3, MildKeep, MildRecords, NoAcceptFacts
<1> QED BY <1>1, <1>2, <1>3, Zenon DEF Drop, Keep

\* What a step of a task does.
LEMMA MildTask ==
    ASSUME ClientInv, NEW t \in Tasks, Task(t) \/ WaitEnds(t) \/ Accept(t) \/ Serve(t)
    PROVE  Tame /\ NoNew /\ current' = current
<1>0. OpInv /\ \A u \in Tasks : op[u] \in Op
  BY DEF ClientInv, OpInv, Shape
<1>1. ASSUME op' = op PROVE Tame /\ NoNew
  BY <1>1 DEF Tame, NoNew, Within
<1>2. ASSUME op' = [op EXCEPT ![t] = NoAccept] PROVE Tame /\ NoNew
  BY <1>0, <1>2, MildExcept, MildRecords, Zenon
<1>3. ASSUME op' = [op EXCEPT ![t] = [NoAccept EXCEPT !.at = "queued"]] PROVE Tame /\ NoNew
  BY <1>0, <1>3, MildExcept, MildRecords, Zenon
<1>4. ASSUME op' = Notified(op) PROVE Tame /\ NoNew
  BY <1>0, <1>4, MildNotified, MildRecords
<1>5. CASE Accept(t)
  BY <1>1, <1>2, <1>3, <1>5 DEF Accept, Begin, listener
<1>6. CASE ServeAccepts(t)
  BY <1>2, <1>3, <1>6 DEF ServeAccepts, Begin, listener
<1>7. CASE AcceptReturns(t)
  BY <1>2, <1>7 DEF AcceptReturns, listener
<1>8. CASE Serve(t) \/ ServeTakes(t) \/ WaiterWakes(t) \/ End(t)
  BY <1>1, <1>8 DEF Serve, ServeTakes, WaiterWakes, End
<1>9. CASE ServeResumes(t)
  BY <1>2, <1>9, MildDrop DEF ServeResumes
<1>10. CASE WaitEnds(t)
  BY <1>10, MildDrop DEF WaitEnds
<1>11. CASE Stop(t)
  BY <1>1, <1>4, <1>11 DEF Stop
<1>12. CASE ServeWakes(t)
  <2>1. CASE current = NONE
    BY <1>4, <1>12, <2>1 DEF ServeWakes
  <2>2. CASE current # NONE
    <3> DEFINE ops == [op EXCEPT ![current].stopped = TRUE]
    <3>1. ASSUME NEW u \in Tasks PROVE ops[u] \in Op /\ Mild(op[u], ops[u])
      <4>1. ops[u] = op[u] \/ ops[u] = [op[u] EXCEPT !.stopped = TRUE]
        BY <1>0, Zenon DEF OpInv
      <4>2. [op[u] EXCEPT !.stopped = TRUE] \in Op /\ Mild(op[u], [op[u] EXCEPT !.stopped = TRUE])
        BY <1>0, Zenon DEF Op, Mild, Within
      <4> HIDE DEF ops
      <4> QED BY <1>0, <4>1, <4>2, MildRecords
    <3>2. op' = Notified(ops) /\ current' = current
      BY <1>12, <2>2 DEF ServeWakes
    <3> HIDE DEF ops
    <3>3. \A u \in Tasks : ops[u] \in Op /\ Mild(op[u], ops[u])
      BY <3>1
    <3> QED BY <1>0, <3>2, <3>3, MildNotified
  <2> QED BY <2>1, <2>2
<1> QED BY <1>5, <1>6, <1>7, <1>8, <1>9, <1>10, <1>11, <1>12 DEF Task

\* Who has the listener, when the tasks stay where they are ...
LEMMA ServedStays ==
    ASSUME ServedInv, UNCHANGED <<served, flag, at>> PROVE ServedInv' /\ HasKept
BY DEF ServedInv, HasKept, Has

\* ... and when one goes on that had it, or goes where nobody has it.
LEMMA ServedGoes ==
    ASSUME ServedInv, OpInv, NEW t \in Tasks, NEW p, Goes(t, p), UNCHANGED <<served, flag>>,
           t \in Accepts \/ p \notin Live \/ at[t] \in Live,
           t \in Accepts \/ p \notin Holds \/ at[t] \in Holds
    PROVE  ServedInv' /\ HasKept
<1>1. at'[t] = p /\ \A u \in Tasks : u # t => at'[u] = at[u]
  BY DEF Goes, OpInv
<1>2. ASSUME NEW s \in Servers
      PROVE  /\ at'[s] \in Live => at[s] \in Live
             /\ at'[s] \in Holds => at[s] \in Holds
  BY <1>1, WhoIsWho
<1>3. ServedInv'
  BY <1>2 DEF ServedInv
<1>4. HasKept
  BY <1>2 DEF HasKept, Has, Holds
<1> QED BY <1>3, <1>4

\* When an accept is given up.
LEMMA ServedDrop ==
    ASSUME ServedInv, OpInv, NEW t \in Tasks, Drop(t), UNCHANGED <<served, flag>>
    PROVE  ServedInv' /\ HasKept
<1>1. PICK p \in {"ends", "stops", "wakes"} : Goes(t, p)
  BY DEF Drop
<1> QED BY <1>1, ServedGoes DEF Live, Holds

\* With every step a server that goes on has the listener unless it is
\* cancelled, and only the second half of TcpListenerHandle::serve makes one
\* have it.
LEMMA ServedStep ==
    ASSUME ServedInv, OpInv, [Next]_vars
    PROVE  ServedInv' /\ (HasKept \/ \E t \in Tasks : ServeWakes(t))
<1>1. CASE UNCHANGED vars
  BY <1>1, ServedStays DEF vars, listener
<1>2. CASE Connect
  BY <1>2, ServedStays DEF Connect
<1>3. ASSUME NEW t \in Tasks, Thread(t) \/ CallFails(t) PROVE ServedInv' /\ HasKept
  BY <1>3, ServedStays DEF Thread, Look, CallReturns, Handle, HandleWake, KeepReady, KeepReadyEnds,
     LeaveCall, Finish, ThreadWakes, CallFails, listener
<1>4. ASSUME NEW t \in Tasks, Accept(t) PROVE ServedInv' /\ HasKept
  <2>1. PICK p \in {"ends", "waits"} : Goes(t, p)
    BY <1>4 DEF Accept, Begin
  <2> QED BY <1>4, <2>1, ServedGoes DEF Accept, listener
<1>5. ASSUME NEW t \in Tasks, AcceptReturns(t) PROVE ServedInv' /\ HasKept
  BY <1>5, ServedGoes DEF AcceptReturns, Live, Holds, listener
<1>6. ASSUME NEW t \in Tasks, ServeAccepts(t) PROVE ServedInv' /\ HasKept
  <2>1. PICK p \in {"ends", "waits"} : Goes(t, p)
    BY <1>6 DEF ServeAccepts, Begin
  <2> QED BY <1>6, <2>1, ServedGoes DEF ServeAccepts, listener, Live, Holds
<1>7. ASSUME NEW t \in Tasks, ServeResumes(t) PROVE ServedInv' /\ HasKept
  <2>1. CASE TakesNothingNew(t)
    BY <1>7, <2>1, ServedDrop DEF ServeResumes
  <2>2. CASE ~TakesNothingNew(t)
    <3>1. PICK p \in {"takes", "starts"} : Goes(t, p)
      BY <1>7, <2>2 DEF ServeResumes
    <3> QED BY <1>7, <3>1, ServedGoes DEF ServeResumes, Live, Holds
  <2> QED BY <2>1, <2>2
<1>8. ASSUME NEW t \in Tasks, ServeTakes(t) PROVE ServedInv' /\ HasKept
  <2>1. CASE kept # <<>>
    BY <1>8, <2>1, ServedStays DEF ServeTakes
  <2>2. CASE kept = <<>>
    BY <1>8, <2>2, ServedGoes DEF ServeTakes, Live, Holds
  <2> QED BY <2>1, <2>2
<1>9. ASSUME NEW t \in Tasks, Stop(t) \/ WaiterWakes(t) PROVE ServedInv' /\ HasKept
  BY <1>9, ServedGoes DEF Stop, WaiterWakes, Live, Holds
<1>10. ASSUME NEW t \in Tasks, WaitEnds(t) PROVE ServedInv' /\ HasKept
  BY <1>10, ServedDrop DEF WaitEnds
<1>11. ASSUME NEW t \in Tasks, ServeWakes(t) PROVE ServedInv'
  <2>1. /\ at[t] = "serves" /\ UNCHANGED <<served, flag>>
        /\ at'[t] = "starts" /\ \A u \in Tasks : u # t => at'[u] = at[u]
    BY <1>11 DEF ServeWakes, Goes, OpInv
  <2> QED BY <2>1, WhoIsWho DEF ServedInv, Live
<1>12. ASSUME NEW t \in Tasks, End(t) PROVE ServedInv' /\ HasKept
  <2>1. /\ at'[t] = "ended" /\ \A u \in Tasks : u # t => at'[u] = at[u] /\ flag'[u] = flag[u]
        /\ flag' = [u \in Tasks |-> flag'[u]]
    BY <1>12 DEF End, Goes, OpInv, ServedInv
  <2>2. IF served = t THEN served' = NONE ELSE served' = served
    BY <1>12 DEF End
  <2>3. ServedInv'
    BY <2>1, <2>2, WhoIsWho DEF ServedInv, Live
  <2>4. HasKept
    BY <2>1, <2>2, WhoIsWho DEF HasKept, Has
  <2> QED BY <2>3, <2>4
<1>13. ASSUME NEW t \in Tasks, Serve(t) PROVE ServedInv' /\ HasKept
  <2>1. CASE IsServed
    BY <1>13, <2>1, ServedGoes DEF Serve, Live, Holds
  <2>2. CASE ~IsServed
    <3>1. /\ t \in Servers /\ served' = t /\ flag' = flag /\ at'[t] = "serves"
          /\ \A u \in Tasks : u # t => at'[u] = at[u]
      BY <1>13, <2>2 DEF Serve, Goes, OpInv
    <3>2. served = NONE \/ "cancelled" \in flag[served]
      BY <2>2 DEF IsServed
    <3>3. ServedInv'
      BY <3>1, <3>2, WhoIsWho DEF ServedInv
    <3>4. HasKept
      BY <3>1, WhoIsWho DEF HasKept, Has
    <3> QED BY <3>3, <3>4
  <2> QED BY <2>1, <2>2
<1>14. ASSUME NEW t \in Tasks, NEW f \in {"cancelled", "over"}, Flag(t, f)
       PROVE  ServedInv' /\ HasKept
  <2>1. /\ flag[t] = {} /\ flag' = [flag EXCEPT ![t] = {f}] /\ UNCHANGED <<at, served>>
    BY <1>14 DEF Flag, listener
  <2>2. /\ flag' = [u \in Tasks |-> flag'[u]]
        /\ \A u \in Tasks : "cancelled" \in flag[u] => "cancelled" \in flag'[u]
    BY <2>1 DEF ServedInv
  <2> QED BY <2>1, <2>2, WhoIsWho DEF ServedInv, HasKept, Has
<1> QED BY <1>1, <1>2, <1>3, <1>4, <1>5, <1>6, <1>7, <1>8, <1>9, <1>10, <1>11, <1>12, <1>13, <1>14
        DEF Next, Task

\* Nobody comes to the call, and no server comes to have the listener.
LEMMA AloneStays ==
    ASSUME CallInv, StopInv, Tame, current' = current PROVE CallInv' /\ (HasKept => StopInv')
<1>1. CallInv'
  BY DEF CallInv, Tame, Within
<1>2. ASSUME HasKept, NEW s \in Servers, NEW t \in Accepts, Has(s)', op'[t].at \in {"call", "hand"}
      PROVE  op'[t].stopped
  BY <1>2, WhoIsWho DEF StopInv, Tame, Within, HasKept
<1> QED BY <1>1, <1>2 DEF StopInv

\* An accept looks: it comes to the call when nobody is there, and then no
\* server has the listener, or it is a server's.
LEMMA LookAlone ==
    ASSUME ClientInv, CallInv, StopInv, HasKept, NEW t \in Tasks, Look(t)
    PROVE  CallInv' /\ StopInv'
<1>0. /\ OpInv /\ op[t] \in Op /\ op[t].at \in {"queued", "look"}
      /\ \A u \in Tasks \ {t} : op'[u] = op[u]
  <2>1. OpInv /\ op[t] \in Op /\ op[t].at \in {"queued", "look"}
    BY DEF ClientInv, OpInv, Shape, Look
  <2>2. \A u \in Tasks \ {t} : op'[u] = op[u]
    BY <2>1 DEF Look, OpInv
  <2> QED BY <2>1, <2>2
<1>1. CASE current' = current /\ op'[t].at \in {"finishing", "turn"}
  <2>1. Tame
    BY <1>0, <1>1 DEF Tame, Within, InCall
  <2> QED BY <1>1, <2>1, AloneStays
<1>2. CASE ~Foreign(t) /\ current = NONE /\ current' = t
  <2>1. CallInv'
    BY <1>0, <1>2, WhoIsWho DEF CallInv, InCall
  <2>2. ASSUME NEW s \in Servers, NEW u \in Accepts, Has(s)', op'[u].at \in {"call", "hand"}
        PROVE  op'[u].stopped
    <3>1. Has(s) /\ s # NONE
      BY <2>2, WhoIsWho DEF HasKept
    <3>2. u # t
      BY <1>2, <3>1 DEF Has, Foreign, IsServed
    <3> QED BY <1>0, <2>2, <3>1, <3>2, WhoIsWho DEF StopInv
  <2> QED BY <2>1, <2>2 DEF StopInv
<1>3. \/ current' = current /\ op'[t].at \in {"finishing", "turn"}
      \/ ~Foreign(t) /\ current = NONE /\ current' = t
  <2>1. CASE Foreign(t) \/ GivenUp(t) \/ kept # <<>>
    BY <1>0, <2>1 DEF Look, OpInv, Op
  <2>2. CASE ~Foreign(t) /\ ~GivenUp(t) /\ kept = <<>>
    BY <1>0, <2>2 DEF Look, OpInv, Op
  <2> QED BY <2>1, <2>2
<1> QED BY <1>1, <1>2, <1>3

\* An accept with a connection in its hand: it stays at the call, or goes.
LEMMA HandleAlone ==
    ASSUME ClientInv, CallInv, StopInv, HasKept, NEW t \in Tasks, Handle(t) \/ HandleWake(t)
    PROVE  CallInv' /\ StopInv'
<1>0. OpInv /\ op[t] \in Op /\ op[t].at = "hand" /\ current' = current
  BY DEF ClientInv, OpInv, Shape, Handle, HandleWake
<1>1. \A u \in Tasks \ {t} : op'[u] = op[u]
  BY <1>0 DEF Handle, HandleWake, HasIt, HasNone, OpInv
<1>2. op'[t].stopped = op[t].stopped
  BY <1>0 DEF Handle, HandleWake, HasIt, HasNone, OpInv, Op
<1>3. Tame
  BY <1>0, <1>1, <1>2 DEF Tame, Within, InCall
<1> QED BY <1>0, <1>3, AloneStays

\* The turn is given on.
LEMMA LeaveAlone ==
    ASSUME ClientInv, CallInv, StopInv, HasKept, NEW t \in Tasks, LeaveCall(t)
    PROVE  CallInv' /\ StopInv' /\ NoNew
<1> DEFINE v == IF op[t].value = "GivenUp" /\ Foreign(t) THEN "Served" ELSE op[t].value
           r == [op[t] EXCEPT !.at = "finishing", !.value = v]
<1>0. OpInv /\ op[t] \in Op /\ op[t].at = "leave"
  BY DEF ClientInv, OpInv, Shape, LeaveCall
<1>1. op' = Notified([op EXCEPT ![t] = r])
  BY <1>0, Zenon DEF LeaveCall, Op
<1>2. v \in Clients \cup {NONE} \cup Results /\ (v \in Clients => op[t].value \in Clients)
  BY <1>0, NoAcceptFacts DEF Op, Results
<1> HIDE DEF v
<1>3. r \in Op /\ r.at = "finishing" /\ r.value = v
  BY <1>0, <1>2, Zenon DEF Op, OpPlaces
<1> HIDE DEF r
<1>4. Mild(op[t], r)
  BY <1>2, <1>3 DEF Mild, Within, InCall
<1>5. Tame /\ NoNew
  BY <1>0, <1>1, <1>3, <1>4, MildKeep
<1>6. op'[t].at \notin InCall
  <2> DEFINE ops == [op EXCEPT ![t] = r]
  <2>1. ops[t] = r
    BY <1>0 DEF OpInv
  <2>2. op'[t] = r
    BY <1>1, <1>3, <2>1 DEF Notified
  <2> QED BY <1>3, <2>2 DEF InCall
<1>7. CallInv'
  <2>1. ASSUME NEW u \in Tasks, op'[u].at \in InCall PROVE FALSE
    <3>1. op[u].at \in InCall /\ u # t
      BY <1>5, <1>6, <2>1 DEF Tame, Within
    <3> QED BY <1>0, <3>1 DEF CallInv, InCall
  <2> QED BY <2>1 DEF CallInv
<1>8. StopInv'
  <2>1. ASSUME NEW s \in Servers, NEW u \in Accepts, Has(s)', op'[u].at \in {"call", "hand"}
        PROVE  op'[u].stopped
    BY <1>5, <2>1, WhoIsWho DEF StopInv, Tame, Within, HasKept
  <2> QED BY <2>1 DEF StopInv
<1> QED BY <1>5, <1>7, <1>8

\* The second half of TcpListenerHandle::serve: the accept in the call is told.
LEMMA ServeWakesAlone ==
    ASSUME ClientInv, CallInv, StopInv, NEW t \in Tasks, ServeWakes(t) PROVE CallInv' /\ StopInv'
<1>1. Tame /\ current' = current
  BY MildTask DEF Task
<1>2. CallInv'
  BY <1>1, AloneStays
<1>3. ASSUME NEW u \in Accepts, op'[u].at \in {"call", "hand"} PROVE op'[u].stopped
  <2>1. u \in Tasks /\ u # NONE /\ op[u].at \in {"call", "hand"} /\ current = u
    BY <1>1, <1>3, WhoIsWho DEF Tame, Within, CallInv, InCall
  <2> DEFINE ops == [op EXCEPT ![current].stopped = TRUE]
  <2>2. op' = Notified(ops)
    BY <2>1 DEF ServeWakes
  <2>3. OpInv /\ op[u] \in Op
    BY <2>1 DEF ClientInv, OpInv, Shape
  <2>4. ops[u] = [op[u] EXCEPT !.stopped = TRUE]
    BY <2>1, <2>3 DEF OpInv
  <2>5. ops[u].stopped /\ ops[u].at = op[u].at
    BY <2>3, <2>4 DEF Op
  <2> HIDE DEF ops
  <2>6. op'[u] = ops[u]
    BY <2>1, <2>2, <2>5 DEF Notified
  <2> QED BY <2>5, <2>6
<1> QED BY <1>2, <1>3 DEF StopInv

\* At the start nobody is in the call, and nobody serves.
LEMMA AloneInit == Init => AloneInv
<1> SUFFICES ASSUME Init PROVE AloneInv
  OBVIOUS
<1>1. PICK p \in Programs : at = [t \in Tasks |-> IF t \in p.calls THEN "idle" ELSE "ended"]
  BY DEF Init
<1>2. \A t \in Tasks : op[t].at = "none" /\ at[t] \notin Live
  BY <1>1, NoAcceptFacts DEF Init, Live
<1>3. CallInv
  BY <1>2 DEF CallInv, InCall
<1>4. ServedInv
  BY <1>2, WhoIsWho DEF ServedInv, Init
<1>5. StopInv
  BY <1>2, WhoIsWho DEF StopInv
<1> QED BY <1>3, <1>4, <1>5 DEF AloneInv

\* Every step keeps it.
LEMMA AloneStep == ClientInv /\ AloneInv /\ [Next]_vars => AloneInv'
<1> SUFFICES ASSUME ClientInv, AloneInv, [Next]_vars PROVE AloneInv'
  OBVIOUS
<1>0. OpInv /\ CallInv /\ ServedInv /\ StopInv
  BY DEF ClientInv, AloneInv
<1>1. ServedInv' /\ (HasKept \/ \E t \in Tasks : ServeWakes(t))
  BY <1>0, ServedStep
<1>2. ASSUME NEW t \in Tasks, ServeWakes(t) PROVE CallInv' /\ StopInv'
  BY <1>0, <1>2, ServeWakesAlone
<1>3. ASSUME HasKept PROVE CallInv' /\ StopInv'
  <2>1. ASSUME Tame, current' = current PROVE CallInv' /\ StopInv'
    BY <1>0, <1>3, <2>1, AloneStays
  <2>2. CASE UNCHANGED <<op, current>>
    BY <2>1, <2>2 DEF Tame, Within
  <2>3. ASSUME NEW t \in Tasks, Thread(t) \/ CallFails(t) PROVE CallInv' /\ StopInv'
    BY <1>0, <1>3, <2>1, <2>3, MildThread, LookAlone, HandleAlone, LeaveAlone DEF Thread
  <2>4. ASSUME NEW t \in Tasks, Task(t) \/ WaitEnds(t) \/ Accept(t) \/ Serve(t)
        PROVE  CallInv' /\ StopInv'
    BY <2>1, <2>4, MildTask
  <2>5. ASSUME NEW t \in Tasks, NEW f, Flag(t, f) PROVE CallInv' /\ StopInv'
    BY <2>2, <2>5 DEF Flag, listener
  <2>6. CASE UNCHANGED vars
    BY <2>2, <2>6 DEF vars, listener
  <2>7. CASE Connect
    BY <2>2, <2>7 DEF Connect
  <2> QED BY <2>3, <2>4, <2>5, <2>6, <2>7 DEF Next
<1> QED BY <1>1, <1>2, <1>3 DEF AloneInv

\* An accept that has not been given up does not take a connection from the
\* server that has the listener.
LEMMA NobodyElse ==
    ASSUME ClientInv, AloneInv, NEW t \in Tasks, NEW s \in Servers \ {t}, Has(s),
           op[t].at \in {"queued", "look", "hand"}, ~GivenUp(t),
           Foreign(t) => op[t].at = "hand"
    PROVE  FALSE
<1>1. IsServed /\ s \in Tasks /\ served = s
  BY WhoIsWho DEF Has, IsServed
<1>2. CASE t \in Accepts
  <2>1. op[t].at = "hand"
    BY <1>1, <1>2 DEF Foreign
  <2>2. op[t].stopped
    BY <1>2, <2>1 DEF AloneInv, StopInv
  <2> QED BY <2>2 DEF GivenUp
<1>3. CASE t \in Servers
  <2>1. op[t].claim = "WAITING"
    BY DEF ClientInv, OpInv, Shape, Op, GivenUp
  <2>2. at[t] = "waits"
    BY <2>1 DEF ClientInv, OpInv, Shape, Bond, Op
  <2>3. flag[t] = {}
    BY DEF GivenUp, TakesNothingNew
  <2>4. served = t
    BY <1>3, <2>2, <2>3 DEF AloneInv, ServedInv, Live
  <2> QED BY <1>1, <2>4
<1> QED BY <1>2, <1>3, WhoIsWho

\* Only those get a connection that may.
LEMMA AloneTakes ==
    ASSUME ClientInv, AloneInv, [Next]_vars, NEW t \in Tasks, NEW s \in Servers \ {t}, Has(s),
           op[t].value \notin Clients, op'[t].value \in Clients
    PROVE  FALSE
<1>0. OpInv /\ CallInv /\ ServedInv /\ StopInv /\ \A u \in Tasks : op[u] \in Op
  BY DEF ClientInv, AloneInv, OpInv, Shape
<1>1. CASE NoNew
  BY <1>1 DEF NoNew
<1>2. ASSUME NEW u \in Tasks, Look(u) PROVE FALSE
  <2>1. u = t
    BY <1>0, <1>2 DEF Look, OpInv
  <2>2. ~Foreign(t) /\ ~GivenUp(t)
    <3>1. ASSUME Foreign(t) \/ GivenUp(t) PROVE op'[t].value \in Results
      BY <1>0, <1>2, <2>1, <3>1 DEF Look, OpInv, Op, Results
    <3> QED BY <3>1, NoAcceptFacts
  <2> QED BY <1>2, <2>1, <2>2, NobodyElse DEF Look
<1>3. ASSUME NEW u \in Tasks, Handle(u) PROVE FALSE
  <2>1. u = t
    BY <1>0, <1>3 DEF Handle, HasIt, HasNone, OpInv
  <2>2. ~Foreign(t) /\ ~GivenUp(t)
    <3>1. ASSUME Foreign(t) \/ GivenUp(t) PROVE op'[t].value \in Results
      BY <1>0, <1>3, <2>1, <3>1 DEF Handle, HasNone, OpInv, Op, Results
    <3> QED BY <3>1, NoAcceptFacts
  <2> QED BY <1>3, <2>1, <2>2, NobodyElse DEF Handle
<1>4. ASSUME NEW u \in Tasks, HandleWake(u) PROVE FALSE
  <2>1. u = t
    BY <1>0, <1>4 DEF HandleWake, HasIt, HasNone, OpInv
  <2>2. ~GivenUp(t)
    <3>1. ASSUME GivenUp(t) PROVE op'[t].value \in Results
      BY <1>0, <1>4, <2>1, <3>1 DEF HandleWake, HasNone, OpInv, Op, Results
    <3> QED BY <3>1, NoAcceptFacts
  <2> QED BY <1>4, <2>1, <2>2, NobodyElse DEF HandleWake
<1>5. ASSUME NEW u \in Tasks, LeaveCall(u) PROVE NoNew
  <2>1. HasKept
    BY <1>5, ServedStays, <1>0 DEF LeaveCall
  <2> QED BY <1>0, <1>5, <2>1, LeaveAlone
<1>6. ASSUME NEW u \in Tasks, Thread(u) \/ CallFails(u) PROVE FALSE
  BY <1>1, <1>2, <1>3, <1>4, <1>5, <1>6, MildThread, Zenon DEF Thread
<1>7. ASSUME NEW u \in Tasks, Task(u) \/ WaitEnds(u) \/ Accept(u) \/ Serve(u) PROVE FALSE
  BY <1>1, <1>7, MildTask
<1>8. CASE op' = op
  BY <1>8
<1> QED BY <1>6, <1>7, <1>8 DEF Next, Flag, Connect, vars

\* What is said of the accepts, the servers and the connections holds always.
THEOREM ListenerInvHolds == Spec => [](ClientInv /\ AloneInv)
<1>1. Init => ClientInv /\ AloneInv
  BY ClientInit, AloneInit
<1>2. (ClientInv /\ AloneInv) /\ [Next]_vars => (ClientInv /\ AloneInv)'
  BY ClientStep, AloneStep
<1> QED BY <1>1, <1>2, PTL DEF Spec

\* While a server has the listener no other accept takes a connection: one
\* that was in the call when TcpListenerHandle::serve took the listener has
\* been told, one that looks afterwards asks who serves, and a server that is
\* cancelled, or that another has followed, takes nothing more.
THEOREM ServerIsAlone == Spec => ServerHasItAlone
<1> DEFINE Alone == \A t \in Tasks : op[t].value \notin Clients /\ op'[t].value \in Clients =>
                       ~\E s \in Servers \ {t} : Has(s)
<1>1. ClientInv /\ AloneInv /\ [Next]_vars => [Alone]_vars
  BY AloneTakes
<1>2. Spec => [][Next]_vars
  BY PTL DEF Spec
<1>3. Spec => [][Alone]_vars
  BY <1>1, <1>2, ListenerInvHolds, PTL
<1> QED BY <1>3 DEF ServerHasItAlone
=============================================================================
