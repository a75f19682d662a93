-------------------------- MODULE SimulatorProofs --------------------------
(***************************************************************************)
(* Theorems about Simulator, for any configurations, books and agents:     *)
(* although the fill log is trimmed while it is read by index from two     *)
(* sides, every execution of the run is published once and in order; the   *)
(* view of an agent that stays quiet only lags; and position and cash are  *)
(* those of the run's fills.                                               *)
(*                                                                         *)
(* And, in the second half, about Driver, which works inside it.           *)
(***************************************************************************)
EXTENDS Driver, SequenceTheorems, FiniteSetTheorems, WellFoundedInduction, TLAPS

\* A nonempty set of naturals has a least element.
LEMMA LeastExists ==
  ASSUME NEW S \in SUBSET Nat, S # {}
  PROVE  \E n \in S : \A m \in S : n <= m
<1>1. PICK n \in S : \A m \in S : ~(<<m, n>> \in OpToRel(<, Nat))
  BY WFMin, NatLessThanWellFounded
<1> SUFFICES ASSUME NEW m \in S PROVE n <= m
  BY <1>1
<1>2. <<m, n>> \notin OpToRel(<, Nat)
  BY <1>1
<1>3. ~(m < n)
  BY <1>2 DEF OpToRel
<1> QED
  BY <1>3

\* A nonempty set of naturals with an upper bound has a greatest element.
LEMMA GreatestExists ==
  ASSUME NEW n \in Nat, NEW S \in SUBSET (0 .. n - 1), S # {}
  PROVE  \E x \in S : \A y \in S : y <= x
<1> DEFINE T == {k \in Nat : n - k \in S}
<1>1. T # {}
  <2>1. PICK x \in S : TRUE
    OBVIOUS
  <2>2. n - x \in Nat /\ n - (n - x) = x
    OBVIOUS
  <2> QED
    BY <2>1, <2>2
<1>2. PICK k \in T : \A j \in T : k <= j
  BY <1>1, LeastExists
<1>3. \A y \in S : n - y \in T
  OBVIOUS
<1> QED
  BY <1>2, <1>3

\* s is a sequence, of whatever.
IsList(s) == s \in Seq({s[i] : i \in DOMAIN s})

\* A sequence is a list.
LEMMA SequencesAreLists ==
  ASSUME NEW X, NEW s \in Seq(X)
  PROVE  IsList(s)
<1> DEFINE Y == {s[i] : i \in DOMAIN s}
<1>1. Len(s) \in Nat /\ DOMAIN s = 1 .. Len(s) /\ s = [i \in 1 .. Len(s) |-> s[i]]
  OBVIOUS
<1>2. \A i \in 1 .. Len(s) : s[i] \in Y
  BY <1>1
<1> HIDE DEF Y
<1>3. s \in [1 .. Len(s) -> Y]
  BY <1>1, <1>2
<1>4. s \in Seq(Y)
  BY <1>1, <1>3, SeqDef
<1> QED
  BY <1>4 DEF IsList, Y

\* Two lists are sequences over one set.
LEMMA ListsShareASet ==
  ASSUME NEW s, NEW t, IsList(s), IsList(t)
  PROVE  \E X : s \in Seq(X) /\ t \in Seq(X)
<1> DEFINE Y == {s[i] : i \in DOMAIN s}
           Z == {t[i] : i \in DOMAIN t}
<1>1. s \in Seq(Y) /\ t \in Seq(Z)
  BY DEF IsList
<1> HIDE DEF Y, Z
<1>2. s \in Seq(Y \cup Z) /\ t \in Seq(Y \cup Z)
  BY <1>1, SeqMonotonic
<1> QED
  BY <1>2

\* What concatenation does to lists.
LEMMA ListsJoined ==
  ASSUME NEW s, NEW t, IsList(s), IsList(t)
  PROVE  /\ Len(s) \in Nat /\ Len(t) \in Nat
         /\ IsList(s \o t) /\ Len(s \o t) = Len(s) + Len(t)
         /\ \A i \in 1 .. Len(s) : (s \o t)[i] = s[i]
         /\ \A i \in 1 .. Len(t) : (s \o t)[Len(s) + i] = t[i]
<1>1. PICK X : s \in Seq(X) /\ t \in Seq(X)
  BY ListsShareASet
<1>2. s \o t \in Seq(X)
  BY <1>1, ConcatProperties
<1>3. IsList(s \o t)
  BY <1>2, SequencesAreLists
<1> QED
  BY <1>1, <1>3, ConcatProperties

\* A list with one more item is a list.
LEMMA ListAppended ==
  ASSUME NEW s, IsList(s), NEW x
  PROVE  IsList(Append(s, x))
<1>1. PICK X : s \in Seq(X)
  BY DEF IsList
<1>2. s \in Seq(X \cup {x})
  BY <1>1, SeqMonotonic
<1>3. Append(s, x) \in Seq(X \cup {x})
  BY <1>2, AppendProperties
<1> QED
  BY <1>3, SequencesAreLists

\* The empty list.
LEMMA NothingIsAList == IsList(<<>>)
<1>1. <<>> \in Seq({})
  BY EmptySeq
<1> QED
  BY <1>1, SequencesAreLists

\* A list is a function on its indices, and a part of it is a list.
LEMMA ListParts ==
  ASSUME NEW s, IsList(s)
  PROVE  /\ Len(s) \in Nat /\ DOMAIN s = 1 .. Len(s)
         /\ \A m \in Nat \ {0}, n \in Int : n <= Len(s) =>
              LET u == SubSeq(s, m, n)
              IN /\ IsList(u) /\ Len(u) = IF m <= n THEN n - m + 1 ELSE 0
                 /\ \A i \in 1 .. Len(u) : u[i] = s[m + i - 1]
<1>1. PICK X : s \in Seq(X)
  BY DEF IsList
<1>2. Len(s) \in Nat /\ DOMAIN s = 1 .. Len(s)
  BY <1>1
<1>3. ASSUME NEW m \in Nat \ {0}, NEW n \in Int, n <= Len(s)
      PROVE  LET u == SubSeq(s, m, n)
             IN /\ IsList(u) /\ Len(u) = IF m <= n THEN n - m + 1 ELSE 0
                /\ \A i \in 1 .. Len(u) : u[i] = s[m + i - 1]
  <2> DEFINE u == SubSeq(s, m, n)
  <2>1. u \in Seq(X) /\ Len(u) = IF m <= n THEN n - m + 1 ELSE 0
    BY <1>1, <1>3, SubSeqProperties
  <2>2. \A i \in 1 .. Len(u) : u[i] = s[m + i - 1]
    BY <1>1, <1>3, <2>1, SubSeqProperties
  <2>3. IsList(u)
    BY <2>1, SequencesAreLists
  <2> QED
    BY <2>1, <2>2, <2>3
<1> QED
  BY <1>2, <1>3

\* The part of a list from m on.
LEMMA ListEnds ==
  ASSUME NEW s, IsList(s), NEW m \in Nat \ {0}, m <= Len(s) + 1
  PROVE  LET u == SubSeq(s, m, Len(s))
         IN /\ IsList(u) /\ Len(u) = Len(s) - m + 1
            /\ \A k \in 1 .. Len(u) : u[k] = s[m + k - 1]
<1> DEFINE u == SubSeq(s, m, Len(s))
<1>1. Len(s) \in Nat /\ Len(s) \in Int /\ Len(s) <= Len(s)
  BY ListParts
<1>2. /\ IsList(u) /\ Len(u) = IF m <= Len(s) THEN Len(s) - m + 1 ELSE 0
      /\ \A i \in 1 .. Len(u) : u[i] = s[m + i - 1]
  BY <1>1, ListParts
<1>3. Len(u) = Len(s) - m + 1
  <2> HIDE DEF u
  <2> QED
    BY <1>1, <1>2
<1> QED
  BY <1>2, <1>3

-----------------------------------------------------------------------------
(***************************************************************************)
(* The fills of a submission are a list: cross() makes them one at a time. *)
(***************************************************************************)
\* A matching in progress, with the fills it has made.
IsMatching(m) == m = Matched(m.book, m.left, m.fills) /\ IsList(m.fills)

\* A turn of the loop leaves a matching.
LEMMA CrossStepMatches ==
  ASSUME NEW m, IsMatching(m), NEW smp, NEW id, NEW sd, NEW limit, NEW mine
  PROVE  IsMatching(CrossStep(m, smp, id, sd, limit, mine))
<1>1. ASSUME NEW b PROVE IsMatching([m EXCEPT !.book = b])
  <2>1. [Matched(m.book, m.left, m.fills) EXCEPT !.book = b] = Matched(b, m.left, m.fills)
    BY DEF Matched
  <2>2. [m EXCEPT !.book = b] = Matched(b, m.left, m.fills)
    BY <2>1, Zenon DEF IsMatching
  <2>3. IsMatching(Matched(b, m.left, m.fills))
    BY DEF IsMatching, Matched
  <2> QED
    BY <2>2, <2>3
<1>2. ASSUME NEW front, NEW price PROVE IsMatching(TradeWith(m, front, price, id, sd, mine))
  <2>1. \A x : IsList(Append(m.fills, x))
    BY ListAppended DEF IsMatching
  <2>2. \A b, n, x : IsMatching(Matched(b, n, Append(m.fills, x)))
    BY <2>1 DEF IsMatching, Matched
  <2> QED
    BY <2>2 DEF TradeWith
<1>3. \/ CrossStep(m, smp, id, sd, limit, mine) = m
      \/ \E b : CrossStep(m, smp, id, sd, limit, mine) = [m EXCEPT !.book = b]
      \/ \E front, price : CrossStep(m, smp, id, sd, limit, mine)
                             = TradeWith(m, front, price, id, sd, mine)
  BY Zenon DEF CrossStep
<1> QED
  BY <1>1, <1>2, <1>3

\* g is the matching after each turn of the loop.
TurnsOf(g, b, smp, id, sd, limit, qty, mine) ==
  /\ g[0] = Matched(b, qty, <<>>)
  /\ \A k \in 1 .. MaxOrders : g[k] = CrossStep(g[k - 1], smp, id, sd, limit, mine)

\* The loop: a recursion whose function exists, up to each turn.
LEMMA CrossTurns ==
  ASSUME NEW b, NEW smp, NEW id, NEW sd, NEW limit, NEW qty, NEW mine
  PROVE  \E g : /\ TurnsOf(g, b, smp, id, sd, limit, qty, mine)
               /\ Cross(b, smp, id, sd, limit, qty, mine) = g[MaxOrders]
<1> DEFINE Turn(m) == CrossStep(m, smp, id, sd, limit, mine)
           start == Matched(b, qty, <<>>)
           Walks(f) == f = [n \in 0 .. MaxOrders |-> IF n = 0 THEN start ELSE Turn(f[n - 1])]
           after == CHOOSE f : Walks(f)
<1>1. Cross(b, smp, id, sd, limit, qty, mine) = after[MaxOrders]
  BY DEF Cross
<1> HIDE DEF Turn, start
<1> USE MaxOrdersAssumption
<1> DEFINE UpTo(f, k) == /\ f = [n \in 0 .. MaxOrders |-> f[n]] /\ f[0] = start
                         /\ \A n \in 1 .. k : f[n] = Turn(f[n - 1])
           Bad == {k \in 0 .. MaxOrders : ~\E f : UpTo(f, k)}
<1> HIDE DEF UpTo
<1>2. Bad = {}
  <2> SUFFICES ASSUME Bad # {} PROVE FALSE
    OBVIOUS
  <2>1. PICK k \in Bad : \A j \in Bad : k <= j
    <3>1. Bad \in SUBSET Nat
      OBVIOUS
    <3> QED
      BY <3>1, LeastExists
  <2>2. k # 0
    <3> DEFINE f == [n \in 0 .. MaxOrders |-> start]
    <3>1. f = [n \in 0 .. MaxOrders |-> f[n]] /\ f[0] = start
      OBVIOUS
    <3> HIDE DEF f
    <3>2. UpTo(f, 0)
      BY <3>1 DEF UpTo
    <3> QED
      BY <2>1, <3>2
  <2>3. k \in 1 .. MaxOrders /\ k - 1 \in 0 .. MaxOrders /\ k - 1 \notin Bad
    BY <2>1, <2>2
  <2>4. PICK f : UpTo(f, k - 1)
    BY <2>3
  <2> DEFINE g == [n \in 0 .. MaxOrders |-> IF n = k THEN Turn(f[k - 1]) ELSE f[n]]
  <2>5. UpTo(g, k)
    <3>1. f[0] = start /\ \A n \in 1 .. k - 1 : f[n] = Turn(f[n - 1])
      BY <2>4 DEF UpTo
    <3>2. g[k] = Turn(f[k - 1]) /\ \A n \in 0 .. k - 1 : g[n] = f[n]
      BY <2>3
    <3>3. g = [n \in 0 .. MaxOrders |-> g[n]]
      OBVIOUS
    <3> HIDE DEF g
    <3>4. \A n \in 1 .. k : g[n] = Turn(g[n - 1])
      <4> SUFFICES ASSUME NEW n \in 1 .. k PROVE g[n] = Turn(g[n - 1])
        OBVIOUS
      <4>1. n - 1 \in 0 .. k - 1 /\ (n = k \/ n \in 1 .. k - 1)
        BY <2>3
      <4> QED
        BY <2>3, <3>1, <3>2, <4>1
    <3>5. g[0] = start
      BY <2>3, <3>1, <3>2
    <3> QED
      BY <3>3, <3>4, <3>5 DEF UpTo
  <2> QED
    BY <2>1, <2>5
<1>3. \E f : Walks(f)
  <2>1. PICK f : UpTo(f, MaxOrders)
    BY <1>2
  <2>2. f = [n \in 0 .. MaxOrders |-> f[n]]
    BY <2>1, Zenon DEF UpTo
  <2> DEFINE x(n) == IF n = 0 THEN start ELSE Turn(f[n - 1])
  <2>4. \A n \in 0 .. MaxOrders : f[n] = x(n)
    <3> SUFFICES ASSUME NEW n \in 0 .. MaxOrders PROVE f[n] = x(n)
      OBVIOUS
    <3>1. f[0] = start /\ (n # 0 => n \in 1 .. MaxOrders)
      BY <2>1 DEF UpTo
    <3>2. n # 0 => f[n] = Turn(f[n - 1])
      BY <2>1, <3>1, Zenon DEF UpTo
    <3> QED
      BY <3>1, <3>2
  <2> DEFINE w == [n \in 0 .. MaxOrders |-> IF n = 0 THEN start ELSE Turn(f[n - 1])]
  <2>3. Walks(f)
    <3>1. w = [n \in 0 .. MaxOrders |-> w[n]] /\ \A n \in 0 .. MaxOrders : w[n] = f[n]
      BY <2>4
    <3> HIDE DEF w
    <3>2. w = f
      BY <2>2, <3>1
    <3> QED
      BY <3>2 DEF w
  <2> QED
    BY <2>3
<1>4. Walks(after)
  BY <1>3, Zenon
<1> HIDE DEF after
<1>5. after[0] = start /\ \A k \in 1 .. MaxOrders : after[k] = Turn(after[k - 1])
  BY <1>4
<1> QED
  BY <1>1, <1>5 DEF TurnsOf, Turn, start

\* The loop makes a matching.
LEMMA CrossMatches ==
  ASSUME NEW b, NEW smp, NEW id, NEW sd, NEW limit, NEW qty, NEW mine
  PROVE  IsMatching(Cross(b, smp, id, sd, limit, qty, mine))
<1>1. PICK g : /\ TurnsOf(g, b, smp, id, sd, limit, qty, mine)
               /\ Cross(b, smp, id, sd, limit, qty, mine) = g[MaxOrders]
  BY CrossTurns
<1>2. IsMatching(g[0])
  BY <1>1, NothingIsAList DEF TurnsOf, IsMatching, Matched
<1> USE MaxOrdersAssumption
<1> DEFINE Odd == {k \in 0 .. MaxOrders : ~IsMatching(g[k])}
<1>3. Odd = {}
  <2> SUFFICES ASSUME Odd # {} PROVE FALSE
    OBVIOUS
  <2>1. PICK k \in Odd : \A j \in Odd : k <= j
    <3>1. Odd \in SUBSET Nat
      OBVIOUS
    <3> QED
      BY <3>1, LeastExists
  <2>2. k # 0
    BY <1>2, <2>1
  <2>3. k - 1 \in 0 .. MaxOrders /\ k - 1 \notin Odd /\ k \in 1 .. MaxOrders
    BY <2>1, <2>2
  <2>4. g[k] = CrossStep(g[k - 1], smp, id, sd, limit, mine)
    BY <1>1, <2>3 DEF TurnsOf
  <2>5. IsMatching(g[k])
    BY <2>3, <2>4, CrossStepMatches
  <2> QED
    BY <2>1, <2>5
<1> QED
  BY <1>1, <1>3

\* What the engine returns for any submission names a list of fills.
LEMMA SubmissionsMakeLists ==
  ASSUME NEW b, NEW smp, NEW id, NEW sd, NEW price, NEW qty, NEW mine
  PROVE  /\ IsList(SubmitLimit(b, smp, id, sd, price, qty, mine).fills)
         /\ IsList(SubmitMarket(b, smp, id, sd, qty, mine).fills)
<1>1. \A limit : IsList(Cross(b, smp, id, sd, limit, qty, mine).fills)
  BY CrossMatches DEF IsMatching
<1>2. \A x, n, r, e : Submitted(b, <<>>, n, r, e).fills = <<>>
                      /\ \A c : Submitted(c, x, n, r, e).fills = x
  BY DEF Submitted
<1> QED
  BY <1>1, <1>2, NothingIsAList DEF SubmitLimit, SubmitMarket, Refused

-----------------------------------------------------------------------------
(***************************************************************************)
(* The folds of the model, each a walk along a list: what a list of fills, *)
(* events or messages makes of the counters, a book or the exchange.       *)
(***************************************************************************)
\* One step of the fold of a kind, from s by item x.
Onward(kind, s, x) ==
  CASE kind = "fill" -> BookFill(s, x)
    [] kind = "event" -> Apply(s, x).book
    [] kind = "message" -> ApplyAction(s, x)
    [] kind = "number" -> s + x
    [] kind = "countdown" -> CountDown(s, x)

\* p is what s becomes along the list e.
IsWalk(kind, s, e, p) ==
  p[0] = s /\ \A k \in 1 .. Len(e) : p[k] = Onward(kind, p[k - 1], e[k])

\* The list e leads from s to x.
Leads(kind, s, e, x) == \E p : IsWalk(kind, s, e, p) /\ p[Len(e)] = x

\* A list leads to one place only.
LEMMA WalksAgree ==
  ASSUME NEW kind, NEW s, NEW e, IsList(e), NEW x, NEW y,
         Leads(kind, s, e, x), Leads(kind, s, e, y)
  PROVE  x = y
<1>a. PICK p : IsWalk(kind, s, e, p) /\ p[Len(e)] = x
  BY DEF Leads
<1>b. PICK q : IsWalk(kind, s, e, q) /\ q[Len(e)] = y
  BY DEF Leads
<1> DEFINE n == Len(e)
           Odd == {k \in 0 .. n : p[k] # q[k]}
<1>1. n \in Nat
  BY ListParts
<1> HIDE DEF n
<1>2. Odd = {}
  <2> SUFFICES ASSUME Odd # {} PROVE FALSE
    OBVIOUS
  <2>1. PICK k \in Odd : \A j \in Odd : k <= j
    <3>1. Odd \in SUBSET Nat
      BY <1>1
    <3> QED
      BY <3>1, LeastExists
  <2>2. k # 0
    BY <1>a, <1>b, <2>1 DEF IsWalk
  <2>3. k \in 1 .. n /\ k - 1 \in 0 .. n /\ k - 1 \notin Odd
    BY <1>1, <2>1, <2>2
  <2>4. p[k] = Onward(kind, p[k - 1], e[k]) /\ q[k] = Onward(kind, q[k - 1], e[k])
    BY <1>a, <1>b, <2>3 DEF IsWalk, n
  <2> QED
    BY <2>1, <2>3, <2>4
<1> QED
  BY <1>a, <1>b, <1>1, <1>2 DEF n

\* A list and then another lead where the two joined lead.
LEMMA WalksJoin ==
  ASSUME NEW kind, NEW s, NEW e, NEW d, IsList(e), IsList(d), NEW m, NEW x,
         Leads(kind, s, e, m), Leads(kind, m, d, x)
  PROVE  Leads(kind, s, e \o d, x)
<1>a. PICK p : IsWalk(kind, s, e, p) /\ p[Len(e)] = m
  BY DEF Leads
<1>b. PICK q : IsWalk(kind, m, d, q) /\ q[Len(d)] = x
  BY DEF Leads
<1> DEFINE n == Len(e)
           l == Len(d)
           r == [k \in 0 .. n + l |-> IF k <= n THEN p[k] ELSE q[k - n]]
           c == e \o d
<1>1. /\ n \in Nat /\ l \in Nat /\ Len(c) = n + l
      /\ \A i \in 1 .. n : c[i] = e[i]
      /\ \A i \in 1 .. l : c[n + i] = d[i]
  BY ListsJoined
<1>2. /\ p[0] = s /\ \A k \in 1 .. n : p[k] = Onward(kind, p[k - 1], e[k])
      /\ q[0] = p[n] /\ \A k \in 1 .. l : q[k] = Onward(kind, q[k - 1], d[k])
  BY <1>a, <1>b DEF IsWalk
<1> HIDE DEF n, l, c
<1>3. /\ \A k \in 0 .. n : r[k] = p[k]
      /\ \A k \in 0 .. l : r[n + k] = q[k]
  <2>1. ASSUME NEW k \in 0 .. n PROVE r[k] = p[k]
    BY <1>1
  <2>2. ASSUME NEW k \in 0 .. l PROVE r[n + k] = q[k]
    <3>1. n + k \in 0 .. n + l /\ n + k - n = k
      BY <1>1
    <3>2. CASE k = 0
      BY <1>1, <1>2, <3>1, <3>2
    <3>3. CASE k # 0
      <4>1. ~(n + k <= n)
        BY <1>1, <3>3
      <4> QED
        BY <1>1, <3>1, <4>1
    <3> QED
      BY <3>2, <3>3
  <2> QED
    BY <2>1, <2>2
<1> HIDE DEF r
<1>4. ASSUME NEW k \in 1 .. n + l PROVE r[k] = Onward(kind, r[k - 1], c[k])
  <2>1. CASE k \in 1 .. n
    <3>1. k \in 0 .. n /\ k - 1 \in 0 .. n
      BY <1>1, <2>1
    <3> QED
      BY <1>1, <1>2, <1>3, <2>1, <3>1
  <2>2. CASE k \notin 1 .. n
    <3> DEFINE i == k - n
    <3>1. /\ i \in 1 .. l /\ i \in 0 .. l /\ i - 1 \in 0 .. l
          /\ n + i = k /\ n + (i - 1) = k - 1
      BY <1>1, <2>2
    <3> HIDE DEF i
    <3>2. r[n + i] = q[i] /\ r[n + (i - 1)] = q[i - 1] /\ c[n + i] = d[i]
      BY <1>1, <1>3, <3>1
    <3>3. q[i] = Onward(kind, q[i - 1], d[i])
      BY <1>2, <3>1
    <3> QED
      BY <3>1, <3>2, <3>3
  <2> QED
    BY <2>1, <2>2
<1>5. r[0] = s /\ r[n + l] = q[l]
  BY <1>1, <1>2, <1>3
<1> QED
  BY <1>b, <1>1, <1>4, <1>5 DEF Leads, IsWalk, n, l, c

Highest(S) == SX!Max(S)

\* The highest of some indices up to n.
LEMMA HighestIndex ==
  ASSUME NEW n \in Nat, NEW s \in SUBSET (1 .. n), s # {}
  PROVE  /\ Highest(s) \in s /\ \A y \in s : y <= Highest(s)
         /\ n \in s => Highest(s) = n
<1>1. s \in SUBSET (0 .. (n + 1) - 1) /\ n + 1 \in Nat
  OBVIOUS
<1> DEFINE Top(x) == \A y \in s : x >= y
<1>2. \E x \in s : Top(x)
  BY <1>1, GreatestExists
<1>3. Highest(s) = CHOOSE x \in s : Top(x)
  BY DEF Highest, SX!Max
<1> HIDE DEF Top
<1>4. Highest(s) \in s /\ Top(Highest(s))
  BY <1>2, <1>3
<1>5. \A y \in s : y \in 1 .. n
  OBVIOUS
<1>6. Highest(s) \in 1 .. n /\ \A y \in s : y <= Highest(s)
  BY <1>4, <1>5 DEF Top
<1> QED
  BY <1>4, <1>6

\* g is the fold over every set of indices up to k.
FoldedTo(kind, e, s, n, g, k) ==
  /\ g = [r \in SUBSET (1 .. n) |-> g[r]]
  /\ \A r \in SUBSET (1 .. k) :
       g[r] = IF r = {} THEN s ELSE Onward(kind, g[r \ {Highest(r)}], e[Highest(r)])

\* Such a fold exists: if not, take the least k up to which it does not.
LEMMA FoldExists ==
  ASSUME NEW kind, NEW e, NEW b, NEW n \in Nat
  PROVE  \E g : FoldedTo(kind, e, b, n, g, n)
<1> DEFINE Bad == {k \in 0 .. n : ~\E g : FoldedTo(kind, e, b, n, g, k)}
<1> SUFFICES ASSUME Bad # {} PROVE FALSE
  OBVIOUS
<1>1. PICK m \in Bad : \A k \in Bad : m <= k
  <2>1. Bad \in SUBSET Nat
    OBVIOUS
  <2> QED
    BY <2>1, LeastExists
<1>2. m # 0
  <2> DEFINE g == [r \in SUBSET (1 .. n) |-> b]
  <2>1. \A r \in SUBSET (1 .. 0) : r = {} /\ r \in SUBSET (1 .. n)
    OBVIOUS
  <2>2. g = [r \in SUBSET (1 .. n) |-> g[r]] /\ g[{}] = b
    OBVIOUS
  <2> HIDE DEF g
  <2>3. FoldedTo(kind, e, b, n, g, 0)
    BY <2>1, <2>2 DEF FoldedTo
  <2> QED
    BY <1>1, <2>3
<1>3. m \in 1 .. n /\ m - 1 \in 0 .. n /\ m - 1 \notin Bad
  BY <1>1, <1>2
<1>4. PICK g : FoldedTo(kind, e, b, n, g, m - 1)
  BY <1>3
<1> DEFINE h == [r \in SUBSET (1 .. n) |->
                   IF m \in r THEN Onward(kind, g[r \ {m}], e[m]) ELSE g[r]]
<1>5. ASSUME NEW r \in SUBSET (1 .. m)
      PROVE  h[r] = IF r = {} THEN b ELSE Onward(kind, h[r \ {Highest(r)}], e[Highest(r)])
  <2>1. r \in SUBSET (1 .. n) /\ r \ {Highest(r)} \in SUBSET (1 .. n) /\ m \in Nat
    <3>1. \A y \in 1 .. m : y \in 1 .. n
      BY <1>3
    <3>2. m \in Nat
      BY <1>3
    <3> QED
      BY <3>1, <3>2
  <2>2. CASE m \in r
    <3>1. Highest(r) = m /\ m \notin r \ {m}
      BY <2>1, <2>2, HighestIndex
    <3> QED
      BY <2>1, <2>2, <3>1
  <2>3. CASE m \notin r
    <3>1. r \in SUBSET (1 .. m - 1)
      BY <1>3, <2>3
    <3>2. h[r] = g[r] /\ h[r \ {Highest(r)}] = g[r \ {Highest(r)}]
      BY <2>1, <2>3
    <3> HIDE DEF h
    <3> QED
      BY <1>4, <3>1, <3>2 DEF FoldedTo
  <2> QED
    BY <2>2, <2>3
<1>6. FoldedTo(kind, e, b, n, h, m)
  <2>1. h = [r \in SUBSET (1 .. n) |-> h[r]]
    OBVIOUS
  <2> HIDE DEF h
  <2> QED
    BY <1>5, <2>1 DEF FoldedTo
<1> QED
  BY <1>1, <1>6

\* f is the fold of s along the list e, over every set of its indices.
IsFold(kind, s, e, f) ==
  \A r \in SUBSET (1 .. Len(e)) :
    f[r] = IF r = {} THEN s ELSE Onward(kind, f[r \ {Highest(r)}], e[Highest(r)])

\* The fold over the indices up to each is a walk.
LEMMA FoldIsWalk ==
  ASSUME NEW kind, NEW s, NEW e, IsList(e), NEW f, IsFold(kind, s, e, f)
  PROVE  Leads(kind, s, e, f[1 .. Len(e)])
<1> DEFINE n == Len(e)
           p == [k \in 0 .. n |-> f[1 .. k]]
<1>1. n \in Nat
  BY ListParts
<1> HIDE DEF n
<1>2. ASSUME NEW k \in 1 .. n PROVE p[k] = Onward(kind, p[k - 1], e[k])
  <2> DEFINE r == 1 .. k
  <2>1. /\ r # {} /\ r \in SUBSET (1 .. n) /\ r \in SUBSET (1 .. k) /\ k \in r /\ k \in Nat
        /\ r \ {k} = 1 .. (k - 1)
    BY <1>1
  <2>2. p[k] = f[r] /\ p[k - 1] = f[1 .. (k - 1)]
    BY <1>1
  <2> HIDE DEF r, p
  <2>3. Highest(r) = k
    BY <2>1, HighestIndex
  <2>4. f[r] = Onward(kind, f[r \ {k}], e[k])
    BY <2>1, <2>3 DEF n, IsFold
  <2> QED
    BY <2>1, <2>2, <2>4
<1>3. p[0] = s
  <2>1. 1 .. 0 = {} /\ {} \in SUBSET (1 .. n)
    OBVIOUS
  <2>2. p[0] = f[{}]
    BY <1>1, <2>1
  <2> HIDE DEF p
  <2> QED
    BY <2>1, <2>2 DEF n, IsFold
<1>4. p[n] = f[1 .. n]
  BY <1>1
<1> HIDE DEF p
<1>5. IsWalk(kind, s, e, p)
  BY <1>2, <1>3 DEF IsWalk, n
<1> QED
  BY <1>4, <1>5 DEF n, Leads

\* Booking fills.
LEMMA BookFillsWalks ==
  ASSUME NEW s, NEW e, IsList(e)
  PROVE  Leads("fill", s, e, BookFills(s, e))
<1> DEFINE n == Len(e)
           Folds(g) == g = [r \in SUBSET (1 .. n) |->
                 IF r = {} THEN s ELSE BookFill(g[r \ {Highest(r)}], e[Highest(r)])]
           f == CHOOSE g : Folds(g)
<1>1. n \in Nat /\ DOMAIN e = 1 .. n
  BY ListParts
<1>2. BookFills(s, e) = f[1 .. n]
  BY <1>1, Zenon DEF BookFills, SX!FoldLeft, SX!MapThenFoldSet, Highest
<1> HIDE DEF n
<1>3. \A x, y : BookFill(x, y) = Onward("fill", x, y)
  BY DEF Onward
<1>4. \E g : Folds(g)
  <2>1. PICK g : FoldedTo("fill", e, s, n, g, n)
    BY <1>1, FoldExists
  <2>2. \A r \in SUBSET (1 .. n) : g[r] = IF r = {} THEN s ELSE BookFill(g[r \ {Highest(r)}], e[Highest(r)])
    BY <1>3, <2>1 DEF FoldedTo
  <2>3. g = [r \in SUBSET (1 .. n) |-> g[r]]
    BY <2>1, Zenon DEF FoldedTo
  <2>4. Folds(g)
    BY <2>2, <2>3
  <2> QED
    BY <2>4
<1>5. Folds(f)
  BY <1>4, Zenon
<1> HIDE DEF f
<1>6. IsFold("fill", s, e, f)
  BY <1>3, <1>5 DEF IsFold, n
<1> QED
  BY <1>2, <1>6, FoldIsWalk DEF n

\* Replaying events.
LEMMA ReplayWalks ==
  ASSUME NEW s, NEW e, IsList(e)
  PROVE  Leads("event", s, e, Replay(s, e))
<1> DEFINE n == Len(e)
           Folds(g) == g = [r \in SUBSET (1 .. n) |->
                 IF r = {} THEN s ELSE Apply(g[r \ {Highest(r)}], e[Highest(r)]).book]
           f == CHOOSE g : Folds(g)
<1>1. n \in Nat /\ DOMAIN e = 1 .. n
  BY ListParts
<1>2. Replay(s, e) = f[1 .. n]
  BY <1>1, Zenon DEF Replay, SX!FoldLeft, SX!MapThenFoldSet, Highest
<1> HIDE DEF n
<1>3. \A x, y : Apply(x, y).book = Onward("event", x, y)
  BY DEF Onward
<1>4. \E g : Folds(g)
  <2>1. PICK g : FoldedTo("event", e, s, n, g, n)
    BY <1>1, FoldExists
  <2>2. \A r \in SUBSET (1 .. n) : g[r] = IF r = {} THEN s ELSE Apply(g[r \ {Highest(r)}], e[Highest(r)]).book
    BY <1>3, <2>1 DEF FoldedTo
  <2>3. g = [r \in SUBSET (1 .. n) |-> g[r]]
    BY <2>1, Zenon DEF FoldedTo
  <2>4. Folds(g)
    BY <2>2, <2>3
  <2> QED
    BY <2>4
<1>5. Folds(f)
  BY <1>4, Zenon
<1> HIDE DEF f
<1>6. IsFold("event", s, e, f)
  BY <1>3, <1>5 DEF IsFold, n
<1> QED
  BY <1>2, <1>6, FoldIsWalk DEF n

\* Applying messages.
LEMMA MessagesWalk ==
  ASSUME NEW s, NEW e, IsList(e)
  PROVE  Leads("message", s, e, SX!FoldLeft(ApplyAction, s, e))
<1> DEFINE n == Len(e)
           Folds(g) == g = [r \in SUBSET (1 .. n) |->
                 IF r = {} THEN s ELSE ApplyAction(g[r \ {Highest(r)}], e[Highest(r)])]
           f == CHOOSE g : Folds(g)
<1>1. n \in Nat /\ DOMAIN e = 1 .. n
  BY ListParts
<1>2. SX!FoldLeft(ApplyAction, s, e) = f[1 .. n]
  BY <1>1, Zenon DEF SX!FoldLeft, SX!MapThenFoldSet, Highest
<1> HIDE DEF n
<1>3. \A x, y : ApplyAction(x, y) = Onward("message", x, y)
  BY DEF Onward
<1>4. \E g : Folds(g)
  <2>1. PICK g : FoldedTo("message", e, s, n, g, n)
    BY <1>1, FoldExists
  <2>2. \A r \in SUBSET (1 .. n) : g[r] = IF r = {} THEN s ELSE ApplyAction(g[r \ {Highest(r)}], e[Highest(r)])
    BY <1>3, <2>1 DEF FoldedTo
  <2>3. g = [r \in SUBSET (1 .. n) |-> g[r]]
    BY <2>1, Zenon DEF FoldedTo
  <2>4. Folds(g)
    BY <2>2, <2>3
  <2> QED
    BY <2>4
<1>5. Folds(f)
  BY <1>4, Zenon
<1> HIDE DEF f
<1>6. IsFold("message", s, e, f)
  BY <1>3, <1>5 DEF IsFold, n
<1> QED
  BY <1>2, <1>6, FoldIsWalk DEF n

-----------------------------------------------------------------------------
(***************************************************************************)
(* Booking fills does not touch the count of messages sent.                *)
(***************************************************************************)
\* The counters s are a record with messages sent in it, n of them.
HasSent(s, n) == "sent" \in DOMAIN s /\ s.sent = n

\* One fill booked.
LEMMA BookFillKeepsSent ==
  ASSUME NEW s, NEW n, HasSent(s, n), NEW f
  PROVE  HasSent(BookFill(s, f), n)
<1>1. CASE ~IsOurs(f)
  BY <1>1 DEF BookFill
<1>2. CASE IsOurs(f)
  <2>1. DOMAIN BookFill(s, f) = DOMAIN s
    BY <1>2, Zenon DEF BookFill
  <2>2. BookFill(s, f).sent = s.sent
    BY <1>2, SMT DEF BookFill, HasSent
  <2> QED
    BY <2>1, <2>2 DEF HasSent
<1> QED
  BY <1>1, <1>2

\* Any number of fills booked.
LEMMA BookFillsKeepsSent ==
  ASSUME NEW s, NEW sent, HasSent(s, sent), NEW e, IsList(e)
  PROVE  HasSent(BookFills(s, e), sent)
<1> DEFINE n == Len(e)
<1>1. PICK p : IsWalk("fill", s, e, p) /\ p[n] = BookFills(s, e)
  BY BookFillsWalks DEF Leads
<1>2. n \in Nat
  BY ListParts
<1>3. p[0] = s /\ \A k \in 1 .. n : p[k] = BookFill(p[k - 1], e[k])
  BY <1>1 DEF IsWalk, Onward
<1> HIDE DEF n
<1> DEFINE Odd == {k \in 0 .. n : ~HasSent(p[k], sent)}
<1>4. Odd = {}
  <2> SUFFICES ASSUME Odd # {} PROVE FALSE
    OBVIOUS
  <2>1. PICK m \in Odd : \A k \in Odd : m <= k
    <3>1. Odd \in SUBSET Nat
      BY <1>2
    <3> QED
      BY <3>1, LeastExists
  <2>2. m # 0
    BY <1>3, <2>1
  <2>3. m \in 1 .. n /\ m - 1 \in 0 .. n /\ m - 1 \notin Odd
    BY <1>2, <2>1, <2>2
  <2> QED
    BY <1>3, <2>1, <2>3, BookFillKeepsSent
<1> QED
  BY <1>1, <1>2, <1>4

-----------------------------------------------------------------------------
(***************************************************************************)
(* Messages applied to the exchange.                                       *)
(***************************************************************************)
\* A fold over one item is one application.
LEMMA FoldOfOne ==
  ASSUME NEW x, NEW a
  PROVE  SX!FoldLeft(ApplyAction, x, <<a>>) = ApplyAction(x, a)
<1>1. IsList(<<a>>)
  <2>1. <<a>> \in Seq({a})
    OBVIOUS
  <2> QED
    BY <2>1, SequencesAreLists
<1>2. PICK p : IsWalk("message", x, <<a>>, p) /\ p[Len(<<a>>)] = SX!FoldLeft(ApplyAction, x, <<a>>)
  BY <1>1, MessagesWalk DEF Leads
<1>3. Len(<<a>>) = 1 /\ <<a>>[1] = a
  OBVIOUS
<1>4. p[0] = x /\ p[1] = Onward("message", p[0], a)
  BY <1>2, <1>3 DEF IsWalk
<1> QED
  BY <1>2, <1>3, <1>4 DEF Onward

\* x is an exchange as the model writes one.
IsExchange(x) == x = [truth |-> x.truth, log |-> x.log, tape |-> x.tape, stats |-> x.stats]

\* An exchange with other counters.
LEMMA CountersReplaced ==
  ASSUME NEW x, IsExchange(x), NEW d
  PROVE  LET y == [x EXCEPT !.stats = d]
         IN /\ IsExchange(y) /\ y.stats = d
            /\ y.truth = x.truth /\ y.log = x.log /\ y.tape = x.tape
<1> DEFINE y == [x EXCEPT !.stats = d]
           fields == {"truth", "log", "tape", "stats"}
<1>1. DOMAIN x = fields
  BY DEF IsExchange
<1>2. y = [k \in DOMAIN x |-> IF k = "stats" THEN d ELSE x[k]]
  OBVIOUS
<1>3. /\ y = [k \in fields |-> y[k]] /\ y.stats = d
      /\ y.truth = x.truth /\ y.log = x.log /\ y.tape = x.tape
  BY <1>1, <1>2
<1> HIDE DEF y
<1>4. IsExchange(y)
  BY <1>3, Zenon DEF IsExchange
<1> QED
  BY <1>3, <1>4 DEF y

\* From exchange x to exchange y: the same fills enter the log and the tape,
\* and no message is counted as sent.
Executes(x, y) ==
  /\ \E fills : IsList(fills) /\ y.log = PushFills(x.log, fills) /\ y.tape = x.tape \o fills
  /\ \A n : HasSent(x.stats, n) => HasSent(y.stats, n)

\* A submission executed.
LEMMA ExecutedExecutes ==
  ASSUME NEW x, NEW r, IsList(r.fills)
  PROVE  Executes(x, Executed(x, r))
<1> DEFINE y == Executed(x, r)
<1>1. /\ y.log = PushFills(x.log, r.fills) /\ y.tape = x.tape \o r.fills
      /\ y.stats = BookFills(x.stats, r.fills)
  BY DEF Executed
<1> HIDE DEF y
<1>2. \A n : HasSent(x.stats, n) => HasSent(y.stats, n)
  BY <1>1, BookFillsKeepsSent
<1> QED
  BY <1>1, <1>2 DEF Executes, y

MessageTypes == {"Limit", "Market", "Cancel"}

\* One message applied.
LEMMA MessageExecutes ==
  ASSUME NEW x, IsExchange(x), NEW a, a.type \in MessageTypes
  PROVE  Executes(x, ApplyAction(x, a))
<1> DEFINE r == ResultOf(x.truth, a)
<1>1. IsList(r.fills)
  <2>1. CASE a.type = "Limit"
    BY <2>1, SubmissionsMakeLists DEF ResultOf
  <2>2. CASE a.type = "Market"
    BY <2>2, SubmissionsMakeLists DEF ResultOf
  <2>3. CASE a.type = "Cancel"
    <3>1. \A b, n, k, e : Submitted(b, <<>>, n, k, e).fills = <<>>
      BY DEF Submitted
    <3>2. r.fills = <<>>
      BY <2>3, <3>1 DEF ResultOf
    <3> QED
      BY <3>2, NothingIsAList
  <2> QED
    BY <2>1, <2>2, <2>3 DEF MessageTypes
<1>2. ASSUME NEW p, NEW q
      PROVE  LET z == [x EXCEPT !.stats.applied = p, !.stats.lateCancels = q]
             IN /\ z.log = x.log /\ z.tape = x.tape
                /\ \A n : HasSent(x.stats, n) => HasSent(z.stats, n)
  <2> DEFINE s == [x.stats EXCEPT !.applied = p]
             y == [x EXCEPT !.stats = s]
             u == [y.stats EXCEPT !.lateCancels = q]
             z == [y EXCEPT !.stats = u]
  <2>1. \A d, n, v : HasSent(d, n) => /\ HasSent([d EXCEPT !.applied = v], n)
                                     /\ HasSent([d EXCEPT !.lateCancels = v], n)
    BY DEF HasSent
  <2>2. \A n : HasSent(x.stats, n) => HasSent(s, n)
    BY <2>1
  <2>3. IsExchange(y) /\ y.stats = s /\ y.log = x.log /\ y.tape = x.tape
    <3> HIDE DEF s
    <3> QED
      BY CountersReplaced
  <2>4. \A n : HasSent(y.stats, n) => HasSent(u, n)
    <3> HIDE DEF y
    <3> QED
      BY <2>1
  <2>5. IsExchange(z) /\ z.stats = u /\ z.log = y.log /\ z.tape = y.tape
    <3> HIDE DEF u, y
    <3> QED
      BY <2>3, CountersReplaced
  <2>6. /\ z.log = x.log /\ z.tape = x.tape
        /\ \A n : HasSent(x.stats, n) => HasSent(z.stats, n)
    <3> HIDE DEF s, y, u, z
    <3> QED
      BY <2>2, <2>3, <2>4, <2>5
  <2> QED
    BY ONLY <2>6
<1>3. PICK p, q : ApplyAction(x, a)
                    = Executed([x EXCEPT !.stats.applied = p, !.stats.lateCancels = q], r)
  BY Zenon DEF ApplyAction
<1> DEFINE z == [x EXCEPT !.stats.applied = p, !.stats.lateCancels = q]
<1>4. Executes(z, Executed(z, r))
  BY <1>1, ExecutedExecutes
<1>5. ApplyAction(x, a) = Executed(z, r)
  BY <1>3
<1>6. /\ z.log = x.log /\ z.tape = x.tape
      /\ \A n : HasSent(x.stats, n) => HasSent(z.stats, n)
  BY <1>2
<1> HIDE DEF z, r
<1> QED
  BY <1>4, <1>5, <1>6 DEF Executes

-----------------------------------------------------------------------------
(***************************************************************************)
(* The fill log tells the tape: its window is the tape's last part.        *)
(***************************************************************************)
Tells(w, t) ==
  /\ w = [base |-> w.base, fills |-> w.fills] /\ w.base \in Nat
  /\ IsList(w.fills) /\ IsList(t) /\ w.base + Len(w.fills) = Len(t)
  /\ \A i \in 1 .. Len(w.fills) : w.fills[i] = t[w.base + i]

\* New fills enter both.
LEMMA PushTells ==
  ASSUME NEW w, NEW t, Tells(w, t), NEW f, IsList(f)
  PROVE  LET v == PushFills(w, f)
             u == t \o f
         IN /\ Tells(v, u) /\ v.base = w.base /\ Len(t) <= Len(u)
            /\ \A i \in 1 .. Len(t) : u[i] = t[i]
<1> DEFINE v == PushFills(w, f)
           u == t \o f
           g == w.fills \o f
<1>1. v = [base |-> w.base, fills |-> g]
  <2>1. \A b, h, x : [[base |-> b, fills |-> h] EXCEPT !.fills = x] = [base |-> b, fills |-> x]
    BY SMT
  <2>2. w = [base |-> w.base, fills |-> w.fills]
    BY DEF Tells
  <2>3. v = [w EXCEPT !.fills = g]
    BY DEF PushFills
  <2> HIDE DEF v, g
  <2>4. [[base |-> w.base, fills |-> w.fills] EXCEPT !.fills = g] = [base |-> w.base, fills |-> g]
    BY <2>1
  <2> QED
    BY ONLY <2>2, <2>3, <2>4, Zenon
<1>2. /\ Len(w.fills) \in Nat /\ Len(t) \in Nat /\ Len(f) \in Nat /\ w.base \in Nat
      /\ IsList(w.fills) /\ IsList(t) /\ w.base + Len(w.fills) = Len(t)
  BY ListsJoined DEF Tells
<1>3. /\ IsList(g) /\ Len(g) = Len(w.fills) + Len(f)
      /\ \A i \in 1 .. Len(w.fills) : g[i] = w.fills[i]
      /\ \A i \in 1 .. Len(f) : g[Len(w.fills) + i] = f[i]
  BY <1>2, ListsJoined
<1>4. /\ IsList(u) /\ Len(u) = Len(t) + Len(f)
      /\ \A i \in 1 .. Len(t) : u[i] = t[i]
      /\ \A i \in 1 .. Len(f) : u[Len(t) + i] = f[i]
  BY <1>2, ListsJoined
<1> HIDE DEF u, g
<1>5. ASSUME NEW i \in 1 .. Len(g) PROVE g[i] = u[w.base + i]
  <2>1. CASE i \in 1 .. Len(w.fills)
    <3>1. w.base + i \in 1 .. Len(t)
      BY <1>2, <2>1
    <3>2. w.fills[i] = t[w.base + i]
      BY <2>1 DEF Tells
    <3> QED
      BY <1>3, <1>4, <2>1, <3>1, <3>2
  <2>2. CASE i \notin 1 .. Len(w.fills)
    <3>1. i - Len(w.fills) \in 1 .. Len(f)
      BY <1>2, <1>3, <2>2
    <3>2. /\ Len(w.fills) + (i - Len(w.fills)) = i
          /\ Len(t) + (i - Len(w.fills)) = w.base + i
      <4>1. \A a \in Nat, b \in Nat, j \in Int : a + (j - a) = j /\ b + a + (j - a) = b + j
        OBVIOUS
      <4>2. i \in Int /\ Len(t) = w.base + Len(w.fills)
        BY <1>2, <1>3
      <4> QED
        BY <1>2, <4>1, <4>2
    <3>3. g[Len(w.fills) + (i - Len(w.fills))] = u[Len(t) + (i - Len(w.fills))]
      BY <1>3, <1>4, <3>1
    <3> QED
      BY <3>2, <3>3
  <2> QED
    BY <2>1, <2>2
<1>6. Tells(v, u)
  <2>1. v.base = w.base /\ v.fills = g /\ v = [base |-> v.base, fills |-> v.fills]
    BY <1>1
  <2> HIDE DEF v
  <2> QED
    BY <1>2, <1>3, <1>4, <1>5, <2>1 DEF Tells
<1>7. v.base = w.base /\ Len(t) <= Len(u)
  BY <1>1, <1>2, <1>4
<1> QED
  BY <1>4, <1>6, <1>7 DEF u

\* Trimming drops the front of the window, and nothing from index i on.
LEMMA ConsumeTells ==
  ASSUME NEW w, NEW t, Tells(w, t), NEW i \in Nat, i <= Len(t)
  PROVE  LET v == ConsumeThrough(w, i)
         IN Tells(v, t) /\ (v.base = w.base \/ v.base <= i)
<1>1. CASE i <= w.base
  BY <1>1 DEF ConsumeThrough
<1>2. CASE ~(i <= w.base)
  <2> DEFINE n == i - w.base
             g == SubSeq(w.fills, n + 1, Len(w.fills))
             v == [base |-> w.base + n, fills |-> g]
  <2>1. /\ Len(w.fills) \in Nat /\ Len(t) \in Nat /\ w.base \in Nat
        /\ IsList(w.fills) /\ IsList(t) /\ w.base + Len(w.fills) = Len(t)
    BY ListParts DEF Tells
  <2>2. n \in Nat /\ n <= Len(w.fills) /\ w.base + n = i
    BY <1>2, <2>1
  <2>3. ConsumeThrough(w, i) = v
    BY <1>2, <2>2 DEF ConsumeThrough, DropCount
  <2> HIDE DEF n
  <2>4. /\ IsList(g) /\ Len(g) = Len(w.fills) - n
        /\ \A k \in 1 .. Len(g) : g[k] = w.fills[n + k]
    <3>1. n + 1 \in Nat \ {0} /\ n + 1 <= Len(w.fills) + 1
      BY <2>1, <2>2
    <3>2. /\ IsList(g) /\ Len(g) = Len(w.fills) - (n + 1) + 1
          /\ \A k \in 1 .. Len(g) : g[k] = w.fills[n + 1 + k - 1]
      BY ONLY <2>1, <3>1, ListEnds
    <3>3. Len(g) = Len(w.fills) - n
      BY <2>1, <2>2, <3>2
    <3>4. ASSUME NEW k \in 1 .. Len(g) PROVE g[k] = w.fills[n + k]
      <4>1. n + 1 + k - 1 = n + k
        BY <2>2
      <4> QED
        BY <3>2, <4>1
    <3> QED
      BY <3>2, <3>3, <3>4
  <2> HIDE DEF g
  <2>5. ASSUME NEW k \in 1 .. Len(g) PROVE g[k] = t[w.base + n + k]
    <3>1. n + k \in 1 .. Len(w.fills) /\ w.base + (n + k) = w.base + n + k
      BY <2>1, <2>2, <2>4
    <3>2. w.fills[n + k] = t[w.base + (n + k)]
      BY <3>1 DEF Tells
    <3> QED
      BY <2>4, <3>1, <3>2
  <2>6. Tells(v, t)
    <3>1. v.base = w.base + n /\ v.fills = g /\ v = [base |-> v.base, fills |-> v.fills]
      OBVIOUS
    <3>2. w.base + n \in Nat /\ w.base + n + Len(g) = Len(t)
      BY <2>1, <2>2, <2>4, SMTT(30)
    <3> HIDE DEF v
    <3> QED
      BY <2>1, <2>4, <2>5, <3>1, <3>2 DEF Tells
  <2> QED
    BY <2>2, <2>3, <2>6
<1> QED
  BY <1>1, <1>2

\* What is read from index i on is the tape from there.
LEMMA FillsFromTell ==
  ASSUME NEW w, NEW t, Tells(w, t), NEW i \in Nat, w.base <= i, i <= Len(t)
  PROVE  LET u == FillsFrom(w, i)
         IN /\ IsList(u) /\ Len(u) = Len(t) - i
            /\ \A k \in 1 .. Len(u) : u[k] = t[i + k]
<1> DEFINE m == i - w.base + 1
           u == SubSeq(w.fills, m, Len(w.fills))
<1>1. /\ Len(w.fills) \in Nat /\ Len(t) \in Nat /\ w.base \in Nat
      /\ IsList(w.fills) /\ IsList(t) /\ w.base + Len(w.fills) = Len(t)
  BY ListParts DEF Tells
<1>2. m \in Nat \ {0} /\ m <= Len(w.fills) + 1 /\ w.base + m = i + 1
  BY <1>1, SMTT(30)
<1> HIDE DEF m
<1>3. /\ IsList(u) /\ Len(u) = Len(w.fills) - m + 1
      /\ \A k \in 1 .. Len(u) : u[k] = w.fills[m + k - 1]
  BY ONLY <1>1, <1>2, ListEnds
<1> HIDE DEF u
<1>4. Len(u) = Len(t) - i
  <2>1. \A a, b, c, d, e \in Int : b + a = c /\ b + d = e + 1 => a - d + 1 = c - e
    OBVIOUS
  <2>2. /\ Len(w.fills) \in Int /\ w.base \in Int /\ Len(t) \in Int /\ m \in Int /\ i \in Int
        /\ w.base + Len(w.fills) = Len(t) /\ w.base + m = i + 1
    BY <1>1, <1>2
  <2>3. Len(w.fills) - m + 1 = Len(t) - i
    BY ONLY <2>1, <2>2
  <2> QED
    BY <1>3, <2>3
<1>5. ASSUME NEW k \in 1 .. Len(u) PROVE u[k] = t[i + k]
  <2>1. m + k - 1 \in 1 .. Len(w.fills) /\ w.base + (m + k - 1) = i + k
    BY <1>1, <1>2, <1>4, SMTT(30)
  <2>2. w.fills[m + k - 1] = t[w.base + (m + k - 1)]
    BY <2>1 DEF Tells
  <2> QED
    BY <1>3, <2>1, <2>2
<1> QED
  BY <1>3, <1>4, <1>5 DEF u, m, FillsFrom

-----------------------------------------------------------------------------
(***************************************************************************)
(* The inductive invariant.  The window ends where the tape ends and is    *)
(* never trimmed past what was published; what was published is the tape   *)
(* up to the mark; and the mark is at the end when the agent acts, until a *)
(* message of its own is applied at once.                                  *)
(***************************************************************************)
LogTellsTape == Tells(log, tape)

MarksAreInside ==
  /\ fillsSeen \in Nat /\ agentRead \in Nat
  /\ log.base <= fillsSeen /\ fillsSeen <= Len(tape)

PublishedTellsTape ==
  /\ IsList(published) /\ Len(published) = fillsSeen
  /\ \A i \in 1 .. fillsSeen : published[i] = tape[i]

SentIsCounted == stats.sent \in Nat /\ HasSent(stats, stats.sent)

MessagesAreTyped == \A a \in inflight : a.type \in MessageTypes

NoneIsMissing ==
  pc = "agent" /\ (config.latency \/ stats.sent = 0) => fillsSeen = Len(tape)

PublicationInv ==
  /\ LogTellsTape /\ MarksAreInside /\ PublishedTellsTape
  /\ SentIsCounted /\ MessagesAreTyped /\ NoneIsMissing

\* At the start nothing has happened.
LEMMA PublicationInvInit == Init => PublicationInv
<1> SUFFICES ASSUME Init PROVE PublicationInv
  OBVIOUS
<1>1. IsList(<<>>) /\ Len(<<>>) = 0
  BY NothingIsAList
<1>2. log = [base |-> 0, fills |-> <<>>] /\ tape = <<>> /\ published = <<>>
      /\ fillsSeen = 0 /\ agentRead = 0 /\ stats = NoStats /\ inflight = {} /\ pc = "draw"
  BY DEF Init, EmptyLog
<1>3. LogTellsTape
  BY <1>1, <1>2 DEF LogTellsTape, Tells
<1>4. MarksAreInside /\ PublishedTellsTape
  BY <1>1, <1>2 DEF MarksAreInside, PublishedTellsTape
<1>5. SentIsCounted
  BY <1>2 DEF SentIsCounted, HasSent, NoStats
<1>6. MessagesAreTyped /\ NoneIsMissing
  BY <1>2 DEF MessagesAreTyped, NoneIsMissing
<1> QED
  BY <1>3, <1>4, <1>5, <1>6 DEF PublicationInv

\* What the exchange executes enters the log and the tape, after everything
\* published.
LEMMA ExecutionKeeps ==
  ASSUME LogTellsTape, MarksAreInside, PublishedTellsTape, NEW x, NEW y,
         x.log = log, x.tape = tape, Executes(x, y), ExchangeBecomes(y),
         UNCHANGED <<fillsSeen, agentRead, published>>
  PROVE  /\ LogTellsTape' /\ MarksAreInside' /\ PublishedTellsTape'
         /\ \A n : HasSent(x.stats, n) => HasSent(stats', n)
<1>1. PICK f : IsList(f) /\ y.log = PushFills(log, f) /\ y.tape = tape \o f
  BY DEF Executes
<1>2. log' = PushFills(log, f) /\ tape' = tape \o f /\ stats' = y.stats
  BY <1>1 DEF ExchangeBecomes
<1>3. /\ Tells(log', tape') /\ log'.base = log.base /\ Len(tape) <= Len(tape')
      /\ \A i \in 1 .. Len(tape) : tape'[i] = tape[i]
  BY <1>1, <1>2, PushTells DEF LogTellsTape
<1>4. log.base \in Nat /\ Len(tape) \in Nat /\ Len(tape') \in Nat
  BY <1>3, ListParts DEF LogTellsTape, Tells
<1>5. MarksAreInside'
  BY <1>3, <1>4 DEF MarksAreInside
<1>6. PublishedTellsTape'
  <2>1. \A i \in 1 .. fillsSeen : i \in 1 .. Len(tape)
    BY <1>4 DEF MarksAreInside
  <2> QED
    BY <1>3, <2>1 DEF PublishedTellsTape
<1>7. \A n : HasSent(x.stats, n) => HasSent(stats', n)
  BY <1>2 DEF Executes
<1> QED
  BY <1>3, <1>5, <1>6, <1>7 DEF LogTellsTape

\* The exchange as it stands.
LEMMA ExchangeStands ==
  /\ IsExchange(Exchange) /\ Exchange.log = log /\ Exchange.tape = tape
  /\ Exchange.stats = stats
BY DEF IsExchange, Exchange

\* Trimming the log: no further than what was published.
LEMMA DrawKeeps ==
  ASSUME PublicationInv, Draw
  PROVE  PublicationInv'
<1> USE DEF PublicationInv
<1>1. /\ log' = ConsumeThrough(log, ReadByBoth) /\ pc' = "orders"
      /\ UNCHANGED <<config, inflight, fillsSeen, agentRead, stats, tape, published>>
  BY DEF Draw
<1>2. log.base \in Nat /\ Len(tape) \in Nat
  BY ListParts DEF LogTellsTape, Tells
<1>3. ReadByBoth \in Nat /\ ReadByBoth <= fillsSeen /\ ReadByBoth <= Len(tape)
  BY <1>2 DEF MarksAreInside, ReadByBoth, Lesser
<1>4. Tells(log', tape) /\ (log'.base = log.base \/ log'.base <= ReadByBoth)
  BY <1>1, <1>3, ConsumeTells DEF LogTellsTape
<1>5. LogTellsTape'
  BY <1>1, <1>4 DEF LogTellsTape
<1>6. MarksAreInside'
  <2>1. log'.base \in Nat
    BY <1>4 DEF Tells
  <2> QED
    BY <1>1, <1>2, <1>3, <1>4, <2>1 DEF MarksAreInside
<1>7. PublishedTellsTape' /\ SentIsCounted' /\ MessagesAreTyped' /\ NoneIsMissing'
  BY <1>1 DEF PublishedTellsTape, SentIsCounted, MessagesAreTyped, NoneIsMissing
<1> QED
  BY <1>5, <1>6, <1>7

\* A message lands.
LEMMA OrderLandsKeeps ==
  ASSUME PublicationInv, OrderLands
  PROVE  PublicationInv' /\ stats'.sent = stats.sent
<1> USE DEF PublicationInv
<1>1. PICK a \in inflight : /\ inflight' = inflight \ {a}
                           /\ ExchangeBecomes(ApplyAction(Exchange, a))
  BY DEF OrderLands
<1>2. pc # "agent" /\ UNCHANGED <<config, pc, fillsSeen, agentRead, published>>
  BY DEF OrderLands
<1>3. Executes(Exchange, ApplyAction(Exchange, a))
  BY <1>1, ExchangeStands, MessageExecutes DEF MessagesAreTyped
<1>4. /\ LogTellsTape' /\ MarksAreInside' /\ PublishedTellsTape'
      /\ \A n : HasSent(stats, n) => HasSent(stats', n)
  BY <1>1, <1>2, <1>3, ExecutionKeeps, ExchangeStands
<1>5. SentIsCounted' /\ stats'.sent = stats.sent
  <2>1. HasSent(stats', stats.sent)
    BY <1>4 DEF SentIsCounted
  <2> QED
    BY <2>1 DEF SentIsCounted, HasSent
<1>6. MessagesAreTyped' /\ NoneIsMissing'
  BY <1>1, <1>2 DEF MessagesAreTyped, NoneIsMissing
<1> QED
  BY <1>4, <1>5, <1>6

\* The exchange handles an event.
LEMMA EventHandledKeeps ==
  ASSUME PublicationInv, EventHandled
  PROVE  PublicationInv' /\ stats'.sent = stats.sent
<1> USE DEF PublicationInv
<1> DEFINE r == IF event.type = "Aggress"
                  THEN SubmitMarket(truth, Rule, event.id, event.side, event.qty, FALSE)
                  ELSE Submitted(Apply(truth, event).book, <<>>, 0, 0, "Ok")
<1>1. ExchangeBecomes(Executed(Exchange, r))
  BY DEF EventHandled, Handle
<1>2. pc' = "publish" /\ UNCHANGED <<config, inflight, fillsSeen, agentRead, published>>
  BY DEF EventHandled
<1>3. IsList(r.fills)
  <2>1. \A b : Submitted(b, <<>>, 0, 0, "Ok").fills = <<>>
    BY DEF Submitted
  <2>2. CASE event.type = "Aggress"
    BY <2>2, SubmissionsMakeLists
  <2>3. CASE event.type # "Aggress"
    BY <2>1, <2>3, NothingIsAList
  <2> QED
    BY <2>2, <2>3
<1> HIDE DEF r
<1>4. /\ LogTellsTape' /\ MarksAreInside' /\ PublishedTellsTape'
      /\ \A n : HasSent(stats, n) => HasSent(stats', n)
  BY <1>1, <1>2, <1>3, ExecutedExecutes, ExecutionKeeps, ExchangeStands
<1>5. SentIsCounted' /\ stats'.sent = stats.sent
  <2>1. HasSent(stats', stats.sent)
    BY <1>4 DEF SentIsCounted
  <2> QED
    BY <2>1 DEF SentIsCounted, HasSent
<1>6. MessagesAreTyped' /\ NoneIsMissing'
  BY <1>2 DEF MessagesAreTyped, NoneIsMissing
<1> QED
  BY <1>4, <1>5, <1>6

\* Publication: everything from the mark to the end.
LEMMA PublishKeeps ==
  ASSUME PublicationInv, Publish
  PROVE  PublicationInv'
<1> USE DEF PublicationInv
<1> DEFINE u == FillsFrom(log, fillsSeen)
<1>1. /\ published' = published \o u /\ fillsSeen' = FillsEnd(log)
      /\ UNCHANGED <<config, inflight, log, agentRead, stats, tape>>
  BY DEF Publish, Unpublished
<1>2. /\ log.base \in Nat /\ Len(tape) \in Nat /\ FillsEnd(log) = Len(tape)
      /\ Len(log.fills) \in Nat
  BY ListParts DEF LogTellsTape, Tells, FillsEnd
<1>3. /\ IsList(u) /\ Len(u) = Len(tape) - fillsSeen
      /\ \A k \in 1 .. Len(u) : u[k] = tape[fillsSeen + k]
  BY FillsFromTell DEF LogTellsTape, MarksAreInside
<1> HIDE DEF u
<1>4. LogTellsTape'
  BY <1>1 DEF LogTellsTape
<1>5. MarksAreInside'
  BY <1>1, <1>2 DEF MarksAreInside
<1>6. PublishedTellsTape'
  <2>1. /\ IsList(published') /\ Len(published') = fillsSeen + Len(u)
        /\ \A i \in 1 .. fillsSeen : published'[i] = published[i]
        /\ \A i \in 1 .. Len(u) : published'[fillsSeen + i] = u[i]
    <3>1. IsList(published) /\ Len(published) = fillsSeen /\ IsList(u)
      BY <1>3 DEF PublishedTellsTape
    <3>2. /\ IsList(published \o u) /\ Len(published \o u) = Len(published) + Len(u)
          /\ \A i \in 1 .. Len(published) : (published \o u)[i] = published[i]
          /\ \A i \in 1 .. Len(u) : (published \o u)[Len(published) + i] = u[i]
      BY ONLY <3>1, ListsJoined
    <3>3. published' = published \o u
      BY <1>1
    <3> QED
      BY ONLY <3>1, <3>2, <3>3
  <2>2. Len(published') = fillsSeen'
    BY <1>1, <1>2, <1>3, <2>1 DEF MarksAreInside
  <2>3. ASSUME NEW i \in 1 .. fillsSeen' PROVE published'[i] = tape[i]
    <3>1. CASE i \in 1 .. fillsSeen
      BY <2>1, <3>1 DEF PublishedTellsTape
    <3>2. CASE i \notin 1 .. fillsSeen
      <4>1. i - fillsSeen \in 1 .. Len(u) /\ fillsSeen + (i - fillsSeen) = i
        BY <1>1, <1>2, <1>3, <3>2 DEF MarksAreInside
      <4>2. /\ published'[fillsSeen + (i - fillsSeen)] = u[i - fillsSeen]
            /\ u[i - fillsSeen] = tape[fillsSeen + (i - fillsSeen)]
        BY <1>3, <2>1, <4>1
      <4> QED
        BY <4>1, <4>2
    <3> QED
      BY <3>1, <3>2
  <2> QED
    BY <1>1, <2>1, <2>2, <2>3 DEF PublishedTellsTape
<1>7. SentIsCounted' /\ MessagesAreTyped' /\ NoneIsMissing'
  BY <1>1, <1>2 DEF SentIsCounted, MessagesAreTyped, NoneIsMissing
<1> QED
  BY <1>4, <1>5, <1>6, <1>7

\* The agent sends a message: with latency it is only on its way, without it
\* is applied now, and what it executes is published next turn.
LEMMA SendKeeps ==
  ASSUME PublicationInv, NEW a, a.type \in MessageTypes, Send(a)
  PROVE  PublicationInv' /\ stats'.sent # 0
<1> USE DEF PublicationInv
<1> DEFINE x == [Exchange EXCEPT !.stats.sent = @ + Len(<<a>>)]
           d == [stats EXCEPT !.sent = @ + Len(<<a>>)]
<1>1. UNCHANGED <<config, pc, fillsSeen, agentRead, published>>
  BY DEF Send
<1>2. HasSent(d, stats.sent + 1) /\ stats.sent + 1 \in Nat /\ stats.sent + 1 # 0
  BY DEF SentIsCounted, HasSent
<1>3. IsExchange(x) /\ x.log = log /\ x.tape = tape /\ x.stats = d
  <2>1. x = [Exchange EXCEPT !.stats = d]
    BY ExchangeStands
  <2> HIDE DEF d, x
  <2> QED
    BY <2>1, CountersReplaced, ExchangeStands
<1>4. IF config.latency
        THEN ExchangeBecomes(x) /\ inflight' = inflight \cup SX!ToSet(<<a>>)
        ELSE /\ ExchangeBecomes(SX!FoldLeft(ApplyAction, x, <<a>>))
             /\ UNCHANGED inflight
  BY Zenon DEF Send, QueueActions
<1> HIDE DEF x, d
<1>5. CASE config.latency
  <2>1. log' = log /\ tape' = tape /\ stats' = d /\ inflight' = inflight \cup SX!ToSet(<<a>>)
    BY <1>3, <1>4, <1>5 DEF ExchangeBecomes
  <2>2. \A b \in SX!ToSet(<<a>>) : b = a
    BY DEF SX!ToSet
  <2>3. LogTellsTape' /\ MarksAreInside' /\ PublishedTellsTape'
    BY <1>1, <2>1 DEF LogTellsTape, MarksAreInside, PublishedTellsTape
  <2>4. SentIsCounted' /\ stats'.sent # 0
    BY <1>2, <2>1 DEF SentIsCounted, HasSent
  <2>5. MessagesAreTyped'
    BY <2>1, <2>2 DEF MessagesAreTyped
  <2>6. NoneIsMissing'
    <3>1. pc = "agent"
      BY DEF Send
    <3> QED
      BY <1>1, <1>5, <2>1, <3>1 DEF NoneIsMissing
  <2> QED
    BY <2>3, <2>4, <2>5, <2>6
<1>6. CASE ~config.latency
  <2>1. ExchangeBecomes(ApplyAction(x, a)) /\ UNCHANGED inflight
    BY <1>4, <1>6, FoldOfOne
  <2>2. Executes(x, ApplyAction(x, a))
    BY <1>3, MessageExecutes
  <2>3. /\ LogTellsTape' /\ MarksAreInside' /\ PublishedTellsTape'
        /\ \A n : HasSent(d, n) => HasSent(stats', n)
    BY <1>1, <1>3, <2>1, <2>2, ExecutionKeeps
  <2>4. stats'.sent = stats.sent + 1 /\ HasSent(stats', stats'.sent)
    BY <1>2, <2>3 DEF HasSent
  <2>5. SentIsCounted' /\ stats'.sent # 0
    BY <1>2, <2>4 DEF SentIsCounted
  <2>6. MessagesAreTyped'
    BY <2>1 DEF MessagesAreTyped
  <2>7. NoneIsMissing'
    BY <1>1, <1>2, <1>6, <2>4 DEF NoneIsMissing
  <2> QED
    BY <2>3, <2>5, <2>6, <2>7
<1> QED
  BY <1>5, <1>6

\* Every step keeps the invariant.
LEMMA PublicationInvNext == PublicationInv /\ [Next]_vars => PublicationInv'
<1> SUFFICES ASSUME PublicationInv, [Next]_vars PROVE PublicationInv'
  OBVIOUS
<1> DEFINE Same == UNCHANGED <<config, log, tape, fillsSeen, agentRead, stats, published, inflight>>
<1>1. ASSUME Same, pc' # "agent" \/ pc' = pc PROVE PublicationInv'
  <2>1. LogTellsTape' /\ MarksAreInside' /\ PublishedTellsTape'
    BY <1>1 DEF PublicationInv, LogTellsTape, MarksAreInside, PublishedTellsTape
  <2>2. SentIsCounted' /\ MessagesAreTyped' /\ NoneIsMissing'
    BY <1>1 DEF PublicationInv, SentIsCounted, MessagesAreTyped, NoneIsMissing
  <2> QED
    BY <2>1, <2>2 DEF PublicationInv
<1>2. CASE Draw
  BY <1>2, DrawKeeps
<1>3. CASE OrderLands
  BY <1>3, OrderLandsKeeps
<1>4. CASE OrdersDone
  BY <1>1, <1>4 DEF OrdersDone
<1>5. CASE FeedArrives
  BY <1>1, <1>5 DEF FeedArrives
<1>6. CASE FeedDone
  BY <1>1, <1>6 DEF FeedDone
<1>7. CASE EventHandled
  BY <1>7, EventHandledKeeps
<1>8. CASE Publish
  BY <1>8, PublishKeeps
<1>9. CASE LoopDone
  BY <1>1, <1>9 DEF LoopDone
<1>10. CASE RunDone
  BY <1>1, <1>10 DEF RunDone
<1>11. CASE NoteFillsRead
  <2>1. /\ UNCHANGED <<config, pc, log, tape, fillsSeen, stats, published, inflight>>
        /\ agentRead' = FillsEnd(log)
    BY <1>11 DEF NoteFillsRead
  <2>2. FillsEnd(log) \in Nat
    BY ListParts DEF PublicationInv, LogTellsTape, Tells, FillsEnd
  <2>3. LogTellsTape' /\ MarksAreInside' /\ PublishedTellsTape'
    BY <2>1, <2>2 DEF PublicationInv, LogTellsTape, MarksAreInside, PublishedTellsTape
  <2>4. SentIsCounted' /\ MessagesAreTyped' /\ NoneIsMissing'
    BY <2>1 DEF PublicationInv, SentIsCounted, MessagesAreTyped, NoneIsMissing
  <2> QED
    BY <2>3, <2>4 DEF PublicationInv
<1>12. CASE AgentDone
  BY <1>1, <1>12 DEF AgentDone
<1>13. ASSUME NEW id, NEW sd, NEW price, NEW qty, SendLimit(id, sd, price, qty)
       PROVE  PublicationInv'
  <2>1. Message("Limit", id, sd, price, qty).type \in MessageTypes
    BY DEF Message, MessageTypes
  <2> QED
    BY <1>13, <2>1, SendKeeps DEF SendLimit
<1>14. ASSUME NEW id, NEW sd, NEW qty, SendMarket(id, sd, qty) PROVE PublicationInv'
  <2>1. Message("Market", id, sd, 0, qty).type \in MessageTypes
    BY DEF Message, MessageTypes
  <2> QED
    BY <1>14, <2>1, SendKeeps DEF SendMarket
<1>15. ASSUME NEW id, SendCancel(id) PROVE PublicationInv'
  <2>1. Message("Cancel", id, "Bid", 0, 0).type \in MessageTypes
    BY DEF Message, MessageTypes
  <2> QED
    BY <1>15, <2>1, SendKeeps DEF SendCancel
<1>16. CASE UNCHANGED vars
  BY <1>1, <1>16 DEF vars
<1> QED
  BY <1>2, <1>3, <1>4, <1>5, <1>6, <1>7, <1>8, <1>9, <1>10, <1>11, <1>12, <1>13, <1>14, <1>15,
     <1>16 DEF Next, World

\* The invariant holds in every state.
LEMMA PublicationInvHolds == Spec => []PublicationInv
BY PublicationInvInit, PublicationInvNext, PTL DEF Spec

\* Every execution, whoever caused it, reaches the agent's feed once and in
\* order although the log is trimmed under the marks, and none is missing
\* when the agent acts.
THEOREM ExecutionsArePublished == Spec => []ExecutionsArePublishedOnce
<1>1. PublicationInv => ExecutionsArePublishedOnce
  <2> SUFFICES ASSUME PublicationInv PROVE ExecutionsArePublishedOnce
    OBVIOUS
  <2> DEFINE u == SubSeq(tape, 1, fillsSeen)
  <2>1. IsList(tape) /\ IsList(published) /\ fillsSeen \in Nat /\ fillsSeen <= Len(tape)
    BY DEF PublicationInv, LogTellsTape, Tells, MarksAreInside, PublishedTellsTape
  <2>2. 1 \in Nat \ {0} /\ fillsSeen \in Int
    BY <2>1
  <2>3. /\ IsList(u) /\ Len(u) = IF 1 <= fillsSeen THEN fillsSeen - 1 + 1 ELSE 0
        /\ \A i \in 1 .. Len(u) : u[i] = tape[1 + i - 1]
    BY <2>1, <2>2, ListParts
  <2> HIDE DEF u
  <2>4. Len(u) = fillsSeen /\ \A i \in 1 .. fillsSeen : u[i] = tape[i]
    <3>1. Len(u) = fillsSeen
      BY <2>1, <2>3
    <3>2. \A i \in 1 .. fillsSeen : 1 + i - 1 = i
      BY <2>1
    <3> QED
      BY <2>3, <3>1, <3>2
  <2>5. \A i \in 1 .. fillsSeen : published[i] = u[i]
    BY <2>4 DEF PublicationInv, PublishedTellsTape
  <2>6. PICK X : published \in Seq(X) /\ u \in Seq(X)
    BY <2>1, <2>3, ListsShareASet
  <2>7. published = u
    BY <2>4, <2>5, <2>6, SeqEqual DEF PublicationInv, PublishedTellsTape
  <2> QED
    BY <2>7 DEF u, PublicationInv, NoneIsMissing, ExecutionsArePublishedOnce
<1> QED
  BY <1>1, PublicationInvHolds, PTL

-----------------------------------------------------------------------------
(***************************************************************************)
(* The quiet view.  Replaying a feed is a walk, so feeds can be joined; an *)
(* aggressive order of the market changes the book as its executions do.   *)
(***************************************************************************)
\* Lists that agree are equal.
LEMMA ListsEqual ==
  ASSUME NEW s, NEW t, IsList(s), IsList(t), Len(s) = Len(t),
         \A i \in 1 .. Len(s) : s[i] = t[i]
  PROVE  s = t
<1>1. PICK X : s \in Seq(X) /\ t \in Seq(X)
  BY ListsShareASet
<1> QED
  BY <1>1, SeqEqual

\* One item is a list.
LEMMA OneIsAList ==
  ASSUME NEW x
  PROVE  IsList(<<x>>) /\ Len(<<x>>) = 1 /\ <<x>>[1] = x
<1>1. <<x>> \in Seq({x})
  OBVIOUS
<1> QED
  BY <1>1, SequencesAreLists

\* No events, one event, and events after events.
LEMMA ReplayNothing ==
  ASSUME NEW b
  PROVE  Replay(b, <<>>) = b
<1>1. PICK p : IsWalk("event", b, <<>>, p) /\ p[Len(<<>>)] = Replay(b, <<>>)
  BY NothingIsAList, ReplayWalks DEF Leads
<1>2. Len(<<>>) = 0
  OBVIOUS
<1> QED
  BY <1>1, <1>2 DEF IsWalk

LEMMA ReplayOne ==
  ASSUME NEW b, NEW e
  PROVE  Replay(b, <<e>>) = Apply(b, e).book
<1>1. PICK p : IsWalk("event", b, <<e>>, p) /\ p[Len(<<e>>)] = Replay(b, <<e>>)
  BY OneIsAList, ReplayWalks DEF Leads
<1>2. p[0] = b /\ p[1] = Onward("event", p[0], e)
  BY <1>1, OneIsAList DEF IsWalk
<1> QED
  BY <1>1, <1>2, OneIsAList DEF Onward

LEMMA ReplayJoins ==
  ASSUME NEW b, NEW s, NEW t, IsList(s), IsList(t)
  PROVE  Replay(b, s \o t) = Replay(Replay(b, s), t)
<1>1. Leads("event", b, s, Replay(b, s)) /\ Leads("event", Replay(b, s), t, Replay(Replay(b, s), t))
  BY ReplayWalks
<1>2. Leads("event", b, s \o t, Replay(Replay(b, s), t))
  BY <1>1, WalksJoin
<1>3. IsList(s \o t)
  BY ListsJoined
<1>4. Leads("event", b, s \o t, Replay(b, s \o t))
  BY <1>3, ReplayWalks
<1> QED
  BY ONLY <1>2, <1>3, <1>4, WalksAgree

\* The events that tell of fills s.
Executions(s) == [k \in DOMAIN s |-> ExecutionOf(s[k])]

LEMMA ExecutionsAreEvents ==
  ASSUME NEW s, IsList(s)
  PROVE  /\ IsList(Executions(s)) /\ Len(Executions(s)) = Len(s)
         /\ \A k \in 1 .. Len(s) : Executions(s)[k] = ExecutionOf(s[k])
<1> DEFINE u == Executions(s)
           Y == {ExecutionOf(s[k]) : k \in 1 .. Len(s)}
<1>1. Len(s) \in Nat /\ DOMAIN s = 1 .. Len(s)
  BY ListParts
<1>2. u = [k \in 1 .. Len(s) |-> ExecutionOf(s[k])] /\ u \in [1 .. Len(s) -> Y]
  BY <1>1 DEF Executions
<1> HIDE DEF u, Y
<1>3. u \in Seq(Y)
  BY <1>1, <1>2, SeqDef
<1>4. Len(u) = Len(s)
  BY <1>1, <1>2, <1>3
<1>5. IsList(u)
  BY <1>3, SequencesAreLists
<1> QED
  BY <1>2, <1>4, <1>5 DEF u

\* One more fill, one more execution.
LEMMA ExecutionsAppended ==
  ASSUME NEW s, IsList(s), NEW x
  PROVE  Executions(Append(s, x)) = Executions(s) \o <<ExecutionOf(x)>>
<1> DEFINE a == Append(s, x)
           u == Executions(a)
           e == Executions(s)
           v == e \o <<ExecutionOf(x)>>
<1>1. IsList(a) /\ Len(s) \in Nat /\ Len(a) = Len(s) + 1 /\ a[Len(s) + 1] = x
      /\ \A k \in 1 .. Len(s) : a[k] = s[k]
  <2>1. PICK X : s \in Seq(X)
    BY DEF IsList
  <2>2. s \in Seq(X \cup {x})
    BY <2>1, SeqMonotonic
  <2>3. Len(s) \in Nat
    BY <2>1
  <2>4. Len(a) = Len(s) + 1 /\ a[Len(s) + 1] = x /\ \A k \in 1 .. Len(s) : a[k] = s[k]
    BY <2>2, AppendProperties
  <2> QED
    BY <2>3, <2>4, ListAppended
<1> HIDE DEF a
<1>2. /\ IsList(u) /\ Len(u) = Len(s) + 1 /\ \A k \in 1 .. Len(a) : u[k] = ExecutionOf(a[k])
      /\ IsList(e) /\ Len(e) = Len(s) /\ \A k \in 1 .. Len(s) : e[k] = ExecutionOf(s[k])
  BY <1>1, ExecutionsAreEvents
<1> HIDE DEF u, e
<1>3. /\ IsList(v) /\ Len(v) = Len(s) + 1 /\ \A k \in 1 .. Len(s) : v[k] = e[k]
      /\ v[Len(s) + 1] = ExecutionOf(x)
  <2> DEFINE o == <<ExecutionOf(x)>>
  <2>1. IsList(o) /\ Len(o) = 1 /\ o[1] = ExecutionOf(x)
    BY OneIsAList
  <2> HIDE DEF o
  <2>2. /\ IsList(e \o o) /\ Len(e \o o) = Len(e) + Len(o)
        /\ \A k \in 1 .. Len(e) : (e \o o)[k] = e[k]
        /\ \A k \in 1 .. Len(o) : (e \o o)[Len(e) + k] = o[k]
    <3>1. IsList(e) /\ IsList(o)
      BY <1>2, <2>1
    <3> QED
      BY ONLY <3>1, ListsJoined
  <2>3. v = e \o o
    BY DEF o
  <2> HIDE DEF v
  <2> QED
    BY <1>1, <1>2, <2>1, <2>2, <2>3
<1> HIDE DEF v
<1>4. \A k \in 1 .. Len(u) : u[k] = v[k]
  <2> SUFFICES ASSUME NEW k \in 1 .. Len(u) PROVE u[k] = v[k]
    OBVIOUS
  <2>1. k = Len(s) + 1 \/ k \in 1 .. Len(s)
    BY <1>1, <1>2
  <2>2. u[k] = ExecutionOf(a[k])
    BY <1>1, <1>2
  <2> QED
    BY <1>1, <1>2, <1>3, <2>1, <2>2
<1>5. u = v
  BY <1>2, <1>3, <1>4, ListsEqual
<1> QED
  BY <1>5 DEF u, v, e, a

\* No fills, no executions.
LEMMA NothingTold == Executions(<<>>) = <<>>
<1>1. IsList(Executions(<<>>)) /\ Len(Executions(<<>>)) = Len(<<>>)
  BY NothingIsAList, ExecutionsAreEvents
<1>2. \A i \in 1 .. Len(Executions(<<>>)) : Executions(<<>>)[i] = <<>>[i]
  BY <1>1
<1> QED
  BY <1>1, <1>2, NothingIsAList, ListsEqual

\* A matching of a market order against book b whose fills tell all of it.
IsTold(b, m) == IsMatching(m) /\ m.book = Replay(b, Executions(m.fills))

\* A turn of the loop, for an order that is not ours: no self-match rule
\* applies, and a trade is the execution it is told as.
LEMMA CrossStepIsTold ==
  ASSUME NEW b, NEW m, IsTold(b, m), NEW smp, NEW id, NEW sd, NEW limit, NEW mine, mine = FALSE
  PROVE  IsTold(b, CrossStep(m, smp, id, sd, limit, mine))
<1>1. ASSUME NEW front, NEW price PROVE IsTold(b, TradeWith(m, front, price, id, sd, mine))
  <2> DEFINE take == Take(m.left, front.qty)
             f == [resting |-> front.id, aggressor |-> id, price |-> price,
                   qty |-> take, side |-> Opposite(sd),
                   restingMine |-> front.mine, aggressorMine |-> mine]
             w == TradeWith(m, front, price, id, sd, mine)
  <2>1. /\ w.book = Execute(m.book, front.id, take).book /\ w.fills = Append(m.fills, f)
        /\ w = Matched(w.book, w.left, w.fills)
    BY DEF TradeWith, Matched
  <2>2. f.resting = front.id /\ f.qty = take
    OBVIOUS
  <2> HIDE DEF w, f, take
  <2>3. Apply(m.book, ExecutionOf(f)).book = w.book
    <3>1. ExecutionOf(f).type = "Execute" /\ ExecutionOf(f).id = front.id /\ ExecutionOf(f).qty = take
      BY <2>2 DEF ExecutionOf, Event
    <3>2. Apply(m.book, ExecutionOf(f)) = Execute(m.book, front.id, take)
      BY <3>1 DEF Apply
    <3> QED
      BY <2>1, <3>2
  <2>4. IsMatching(w)
    BY <2>1, ListAppended DEF IsTold, IsMatching
  <2>5. /\ IsList(m.fills) /\ m.book = Replay(b, Executions(m.fills))
        /\ IsList(Executions(m.fills)) /\ IsList(<<ExecutionOf(f)>>)
    BY ExecutionsAreEvents, OneIsAList DEF IsTold, IsMatching
  <2>6. Replay(b, Executions(w.fills)) = Apply(m.book, ExecutionOf(f)).book
    <3>1. Executions(w.fills) = Executions(m.fills) \o <<ExecutionOf(f)>>
      BY <2>1, <2>5, ExecutionsAppended
    <3>2. Replay(b, Executions(w.fills)) = Replay(Replay(b, Executions(m.fills)), <<ExecutionOf(f)>>)
      BY <2>5, <3>1, ReplayJoins
    <3> QED
      BY <2>5, <3>2, ReplayOne
  <2> QED
    BY <2>3, <2>4, <2>6 DEF IsTold, w
<1>2. \/ CrossStep(m, smp, id, sd, limit, mine) = m
      \/ \E front, price : CrossStep(m, smp, id, sd, limit, mine)
                             = TradeWith(m, front, price, id, sd, mine)
  BY Zenon DEF CrossStep, MeetsItself
<1> QED
  BY <1>1, <1>2

\* The matching of a market order is told by its fills.
LEMMA CrossIsTold ==
  ASSUME NEW b, NEW smp, NEW id, NEW sd, NEW limit, NEW qty,
         NEW mine, mine = FALSE
  PROVE  IsTold(b, Cross(b, smp, id, sd, limit, qty, mine))
<1>1. PICK g : /\ TurnsOf(g, b, smp, id, sd, limit, qty, mine)
               /\ Cross(b, smp, id, sd, limit, qty, mine) = g[MaxOrders]
  BY CrossTurns
<1>2. IsTold(b, g[0])
  <2>1. g[0] = Matched(b, qty, <<>>)
    BY <1>1 DEF TurnsOf
  <2>2. g[0].book = b /\ g[0].fills = <<>> /\ IsMatching(g[0])
    BY <2>1, NothingIsAList DEF Matched, IsMatching
  <2> QED
    BY <2>2, NothingTold, ReplayNothing DEF IsTold
<1> USE MaxOrdersAssumption
<1> DEFINE Odd == {k \in 0 .. MaxOrders : ~IsTold(b, g[k])}
<1>3. Odd = {}
  <2> SUFFICES ASSUME Odd # {} PROVE FALSE
    OBVIOUS
  <2>1. PICK k \in Odd : \A j \in Odd : k <= j
    <3>1. Odd \in SUBSET Nat
      OBVIOUS
    <3> QED
      BY <3>1, LeastExists
  <2>2. k # 0
    BY <1>2, <2>1
  <2>3. k - 1 \in 0 .. MaxOrders /\ k - 1 \notin Odd /\ k \in 1 .. MaxOrders
    BY <2>1, <2>2
  <2>4. g[k] = CrossStep(g[k - 1], smp, id, sd, limit, mine)
    BY <1>1, <2>3 DEF TurnsOf
  <2>5. IsTold(b, g[k])
    BY <2>3, <2>4, CrossStepIsTold
  <2> QED
    BY <2>1, <2>5
<1> QED
  BY <1>1, <1>3

\* Submission r changed book b as its executions do.
ChangesByFills(b, r) == r.book = Replay(b, Executions(r.fills))

\* A market order does so.
LEMMA MarketOrderIsTold ==
  ASSUME NEW b, NEW smp, NEW id, NEW sd, NEW qty, NEW mine, mine = FALSE
  PROVE  ChangesByFills(b, SubmitMarket(b, smp, id, sd, qty, mine))
<1> DEFINE m == Cross(b, smp, id, sd, Prices, qty, mine)
           r == SubmitMarket(b, smp, id, sd, qty, mine)
<1>1. m.book = Replay(b, Executions(m.fills))
  BY CrossIsTold DEF IsTold
<1>2. Replay(b, Executions(<<>>)) = b
  BY NothingTold, ReplayNothing
<1>3. \A c, x, n, k, e : /\ Submitted(c, x, n, k, e).book = c
                        /\ Submitted(c, x, n, k, e).fills = x
  BY DEF Submitted
<1>4. \/ r.book = b /\ r.fills = <<>>
      \/ r.book = m.book /\ r.fills = m.fills
  BY <1>3 DEF SubmitMarket, Refused
<1> HIDE DEF m, r
<1> QED
  BY <1>1, <1>2, <1>4 DEF r, ChangesByFills

\* Events delivered are on their way or seen.
LEMMA DeliveredEventsAreReplayed ==
  ASSUME NEW events, IsList(events), Deliver(events), IsList(feed),
         config.latency \/ feed = <<>>
  PROVE  /\ Replay(view', feed') = Replay(Replay(view, feed), events)
         /\ IsList(feed') /\ (config.latency \/ feed' = <<>>)
<1>1. CASE config.latency
  <2>1. feed' = feed \o events /\ view' = view
    BY <1>1 DEF Deliver
  <2>2. IsList(feed \o events)
    BY ListsJoined
  <2> QED
    BY <1>1, <2>1, <2>2, ReplayJoins
<1>2. CASE ~config.latency
  <2>1. view' = Replay(view, events) /\ feed' = feed /\ feed = <<>>
    BY <1>2 DEF Deliver
  <2>2. Replay(view', <<>>) = view' /\ Replay(view, <<>>) = view
    BY ReplayNothing
  <2> QED
    BY <2>1, <2>2
<1> QED
  BY <1>1, <1>2

-----------------------------------------------------------------------------
(***************************************************************************)
(* The inductive invariant of the quiet view: while the agent has sent     *)
(* nothing, no message is in flight, everything executed is published but  *)
(* between the event and the publication, and the view, with the feed and  *)
(* what is about to be published replayed, is the exchange's book.         *)
(***************************************************************************)
Quiet == stats.sent = 0

FeedIsAList == IsList(feed) /\ (config.latency \/ feed = <<>>)

NothingOfOurs == Quiet => inflight = {}

ViewLags ==
  Quiet /\ pc # "publish" => fillsSeen = Len(tape) /\ Replay(view, feed) = truth

ViewLagsByFills ==
  Quiet /\ pc = "publish" =>
    Replay(Replay(view, feed), Executions(FillsFrom(log, fillsSeen))) = truth

ViewInv == PublicationInv /\ FeedIsAList /\ NothingOfOurs /\ ViewLags /\ ViewLagsByFills

\* At the start both books are empty.
LEMMA ViewInvInit == Init => ViewInv
<1> SUFFICES ASSUME Init PROVE ViewInv
  OBVIOUS
<1>1. PublicationInv
  BY PublicationInvInit
<1>2. /\ feed = <<>> /\ inflight = {} /\ pc = "draw" /\ fillsSeen = 0 /\ tape = <<>>
      /\ view = truth
  BY DEF Init
<1>3. Len(<<>>) = 0
  OBVIOUS
<1>4. FeedIsAList /\ NothingOfOurs /\ ViewLagsByFills
  BY <1>2, NothingIsAList DEF FeedIsAList, NothingOfOurs, ViewLagsByFills
<1>5. ViewLags
  BY <1>2, <1>3, ReplayNothing DEF ViewLags
<1> QED
  BY <1>1, <1>4, <1>5 DEF ViewInv

\* The exchange handles an event: what it changes is delivered, or is about
\* to be published.
LEMMA EventKeepsView ==
  ASSUME ViewInv, EventHandled
  PROVE  ViewInv'
<1> DEFINE r == IF event.type = "Aggress"
                  THEN SubmitMarket(truth, Rule, event.id, event.side, event.qty, FALSE)
                  ELSE Submitted(Apply(truth, event).book, <<>>, 0, 0, "Ok")
           events == IF event.type = "Aggress" THEN <<>> ELSE <<event>>
<1>1. /\ ExchangeBecomes(Executed(Exchange, r)) /\ Deliver(events)
      /\ pc = "event" /\ pc' = "publish" /\ UNCHANGED <<config, inflight, fillsSeen>>
  BY DEF EventHandled, Handle
<1>2. PublicationInv' /\ stats'.sent = stats.sent
  BY EventHandledKeeps DEF ViewInv
<1>3. IsList(events)
  BY NothingIsAList, OneIsAList
<1>4. IsList(r.fills) /\ r.book = Replay(Replay(truth, events), Executions(r.fills))
  <2>1. CASE event.type = "Aggress"
    <3>1. r = SubmitMarket(truth, Rule, event.id, event.side, event.qty, FALSE) /\ events = <<>>
      BY <2>1
    <3>2. PICK mine : mine = FALSE
      OBVIOUS
    <3> DEFINE u == SubmitMarket(truth, Rule, event.id, event.side, event.qty, mine)
    <3>3. u.book = Replay(truth, Executions(u.fills)) /\ IsList(u.fills)
      <4>1. ChangesByFills(truth, u)
        BY ONLY <3>2, MarketOrderIsTold
      <4>2. IsList(u.fills)
        BY SubmissionsMakeLists
      <4> QED
        BY <4>1, <4>2 DEF ChangesByFills
    <3>4. u = r
      BY <3>1, <3>2, Zenon
    <3> HIDE DEF u, r, events
    <3> QED
      BY <3>1, <3>3, <3>4, ReplayNothing
  <2>2. CASE event.type # "Aggress"
    <3>1. \A b : /\ Submitted(b, <<>>, 0, 0, "Ok").fills = <<>>
                /\ Submitted(b, <<>>, 0, 0, "Ok").book = b
      BY DEF Submitted
    <3>2. r.fills = <<>> /\ r.book = Apply(truth, event).book /\ events = <<event>>
      BY <2>2, <3>1
    <3> HIDE DEF r, events
    <3> QED
      BY <3>2, NothingIsAList, NothingTold, ReplayNothing, ReplayOne
  <2> QED
    BY <2>1, <2>2
<1> HIDE DEF r, events
<1>5. /\ Replay(view', feed') = Replay(Replay(view, feed), events)
      /\ IsList(feed') /\ (config.latency \/ feed' = <<>>)
  BY <1>1, <1>3, DeliveredEventsAreReplayed DEF ViewInv, FeedIsAList
<1>6. log' = PushFills(log, r.fills) /\ tape' = tape \o r.fills /\ truth' = r.book
  BY <1>1 DEF ExchangeBecomes, Executed, Exchange
<1>7. FeedIsAList' /\ NothingOfOurs' /\ ViewLags'
  BY <1>1, <1>2, <1>5 DEF ViewInv, FeedIsAList, NothingOfOurs, ViewLags, Quiet
<1>8. ViewLagsByFills'
  <2> SUFFICES ASSUME Quiet
               PROVE  Replay(Replay(view', feed'), Executions(FillsFrom(log', fillsSeen'))) = truth'
    BY <1>2 DEF ViewLagsByFills, Quiet
  <2>1. fillsSeen = Len(tape) /\ Replay(view, feed) = truth
    BY <1>1 DEF ViewInv, ViewLags
  <2>2. FillsFrom(log', fillsSeen') = r.fills
    <3> DEFINE u == FillsFrom(log', fillsSeen')
    <3>1. /\ IsList(tape) /\ Len(tape) \in Nat /\ Tells(log', tape')
          /\ fillsSeen' \in Nat /\ log'.base <= fillsSeen' /\ fillsSeen' <= Len(tape')
      BY <1>2, ListParts DEF ViewInv, PublicationInv, LogTellsTape, Tells, MarksAreInside
    <3>2. /\ IsList(u) /\ Len(u) = Len(tape') - fillsSeen'
          /\ \A k \in 1 .. Len(u) : u[k] = tape'[fillsSeen' + k]
      BY <3>1, FillsFromTell
    <3>3. /\ Len(tape \o r.fills) = Len(tape) + Len(r.fills) /\ Len(r.fills) \in Nat
          /\ \A i \in 1 .. Len(r.fills) : (tape \o r.fills)[Len(tape) + i] = r.fills[i]
      BY <1>4, <3>1, ListsJoined
    <3> HIDE DEF u
    <3>4. fillsSeen' = Len(tape) /\ tape' = tape \o r.fills
      BY <1>1, <1>6, <2>1
    <3>5. Len(u) = Len(r.fills)
      BY <3>1, <3>2, <3>3, <3>4
    <3>6. \A k \in 1 .. Len(u) : u[k] = r.fills[k]
      BY <3>2, <3>3, <3>4, <3>5
    <3>7. u = r.fills
      BY <1>4, <3>2, <3>5, <3>6, ListsEqual
    <3> QED
      BY <3>7 DEF u
  <2> QED
    BY <1>4, <1>5, <1>6, <2>1, <2>2
<1> QED
  BY <1>2, <1>7, <1>8 DEF ViewInv

\* Publication: the executions join the feed or are seen.
LEMMA PublishKeepsView ==
  ASSUME ViewInv, Publish
  PROVE  ViewInv'
<1> DEFINE events == Executions(FillsFrom(log, fillsSeen))
<1>1. /\ Deliver(events) /\ pc = "publish" /\ pc' = "agent" /\ fillsSeen' = FillsEnd(log)
      /\ UNCHANGED <<config, truth, inflight, log, stats, tape>>
  BY DEF Publish, Unpublished, Executions
<1>2. PublicationInv'
  BY PublishKeeps DEF ViewInv
<1>3. IsList(events)
  <2>1. IsList(FillsFrom(log, fillsSeen))
    BY FillsFromTell DEF ViewInv, PublicationInv, LogTellsTape, MarksAreInside
  <2> QED
    BY <2>1, ExecutionsAreEvents
<1>4. /\ Replay(view', feed') = Replay(Replay(view, feed), events)
      /\ IsList(feed') /\ (config.latency \/ feed' = <<>>)
  <2> HIDE DEF events
  <2> QED
    BY <1>1, <1>3, DeliveredEventsAreReplayed DEF ViewInv, FeedIsAList
<1>5. FillsEnd(log) = Len(tape)
  BY DEF ViewInv, PublicationInv, LogTellsTape, Tells, FillsEnd
<1>6. FeedIsAList' /\ NothingOfOurs' /\ ViewLagsByFills'
  BY <1>1, <1>4 DEF ViewInv, FeedIsAList, NothingOfOurs, ViewLagsByFills, Quiet
<1>7. ViewLags'
  BY <1>1, <1>4, <1>5 DEF ViewInv, ViewLags, ViewLagsByFills, Quiet
<1> QED
  BY <1>2, <1>6, <1>7 DEF ViewInv

\* An event arrives from the front of the feed.
LEMMA FeedKeepsView ==
  ASSUME ViewInv, FeedArrives, PublicationInv'
  PROVE  ViewInv'
<1>1. /\ pc = "feed" /\ feed # <<>> /\ view' = Apply(view, Head(feed)).book /\ feed' = Tail(feed)
      /\ UNCHANGED <<config, pc, truth, inflight, log, fillsSeen, stats, tape>>
  BY DEF FeedArrives
<1>2. IsList(Tail(feed)) /\ feed = <<Head(feed)>> \o Tail(feed)
  <2>1. PICK X : feed \in Seq(X)
    BY DEF ViewInv, FeedIsAList, IsList
  <2>2. /\ Tail(feed) \in Seq(X) /\ feed = <<Head(feed)>> \o Tail(feed)
    BY <1>1, <2>1, HeadTailProperties
  <2> QED
    BY <2>2, SequencesAreLists
<1>3. Replay(view, feed) = Replay(view', feed')
  <2>1. Replay(view, <<Head(feed)>> \o Tail(feed)) = Replay(Replay(view, <<Head(feed)>>), Tail(feed))
    BY <1>2, OneIsAList, ReplayJoins
  <2> QED
    BY <1>1, <1>2, <2>1, ReplayOne
<1>4. FeedIsAList' /\ NothingOfOurs' /\ ViewLags' /\ ViewLagsByFills'
  BY <1>1, <1>2, <1>3
     DEF ViewInv, FeedIsAList, NothingOfOurs, ViewLags, ViewLagsByFills, Quiet
<1> QED
  BY <1>4 DEF ViewInv

\* Every step keeps the invariant.
LEMMA ViewInvNext == ViewInv /\ [Next]_vars => ViewInv'
<1> SUFFICES ASSUME ViewInv, [Next]_vars PROVE ViewInv'
  OBVIOUS
<1>1. PublicationInv'
  BY PublicationInvNext DEF ViewInv
<1> DEFINE Same == UNCHANGED <<config, truth, view, inflight, feed, fillsSeen, stats, tape>>
<1>2. ASSUME Same, pc # "publish" /\ pc' # "publish" PROVE ViewInv'
  BY <1>1, <1>2 DEF ViewInv, FeedIsAList, NothingOfOurs, ViewLags, ViewLagsByFills, Quiet
<1>3. CASE Draw
  BY <1>2, <1>3 DEF Draw
<1>4. CASE OrderLands
  <2>1. stats'.sent = stats.sent /\ inflight # {} /\ UNCHANGED <<config, feed>>
    BY <1>4, OrderLandsKeeps DEF OrderLands, ViewInv
  <2> QED
    BY <1>1, <2>1 DEF ViewInv, FeedIsAList, NothingOfOurs, ViewLags, ViewLagsByFills, Quiet
<1>5. CASE OrdersDone
  BY <1>2, <1>5 DEF OrdersDone
<1>6. CASE FeedArrives
  BY <1>1, <1>6, FeedKeepsView
<1>7. CASE FeedDone
  BY <1>2, <1>7 DEF FeedDone
<1>8. CASE EventHandled
  BY <1>8, EventKeepsView
<1>9. CASE Publish
  BY <1>9, PublishKeepsView
<1>10. CASE LoopDone
  BY <1>2, <1>10 DEF LoopDone
<1>11. CASE RunDone
  BY <1>2, <1>11 DEF RunDone
<1>12. CASE NoteFillsRead
  BY <1>2, <1>12 DEF NoteFillsRead
<1>13. CASE AgentDone
  BY <1>2, <1>13 DEF AgentDone
<1>14. ASSUME NEW a, a.type \in MessageTypes, Send(a) PROVE ViewInv'
  <2>1. stats'.sent # 0 /\ UNCHANGED <<config, feed>>
    BY <1>14, SendKeeps DEF Send, ViewInv
  <2> QED
    BY <1>1, <2>1 DEF ViewInv, FeedIsAList, NothingOfOurs, ViewLags, ViewLagsByFills, Quiet
<1>15. ASSUME NEW id, NEW sd, NEW price, NEW qty, SendLimit(id, sd, price, qty) PROVE ViewInv'
  <2>1. Message("Limit", id, sd, price, qty).type \in MessageTypes
    BY DEF Message, MessageTypes
  <2> QED
    BY <1>14, <1>15, <2>1 DEF SendLimit
<1>16. ASSUME NEW id, NEW sd, NEW qty, SendMarket(id, sd, qty) PROVE ViewInv'
  <2>1. Message("Market", id, sd, 0, qty).type \in MessageTypes
    BY DEF Message, MessageTypes
  <2> QED
    BY <1>14, <1>16, <2>1 DEF SendMarket
<1>17. ASSUME NEW id, SendCancel(id) PROVE ViewInv'
  <2>1. Message("Cancel", id, "Bid", 0, 0).type \in MessageTypes
    BY DEF Message, MessageTypes
  <2> QED
    BY <1>14, <1>17, <2>1 DEF SendCancel
<1>18. CASE UNCHANGED vars
  <2>1. UNCHANGED <<config, pc, truth, view, inflight, feed, log, fillsSeen, stats, tape>>
    BY <1>18 DEF vars
  <2> QED
    BY <1>1, <2>1 DEF ViewInv, FeedIsAList, NothingOfOurs, ViewLags, ViewLagsByFills, Quiet
<1> QED
  BY <1>3, <1>4, <1>5, <1>6, <1>7, <1>8, <1>9, <1>10, <1>11, <1>12, <1>13, <1>15, <1>16, <1>17,
     <1>18 DEF Next, World

\* While the agent stays quiet its view is behind the exchange and never
\* wrong: with the feed in flight replayed it is the exchange's book, whatever
\* the latency, the market's events and the fills they make.
THEOREM QuietViewLags == Spec => []QuietViewOnlyLags
<1>1. ViewInv => QuietViewOnlyLags
  BY DEF ViewInv, ViewLags, Quiet, QuietViewOnlyLags
<1>2. Spec => []ViewInv
  BY ViewInvInit, ViewInvNext, PTL DEF Spec
<1> QED
  BY <1>1, <1>2, PTL

-----------------------------------------------------------------------------
(***************************************************************************)
(* What the numbers need: prices and quantities are integers all through,  *)
(* in the book, the fills, the events and the messages, and what rests or  *)
(* trades is at least one.                                                 *)
(***************************************************************************)
Positives == Nat \ {0}

RestingOrder == [id : Int, qty : Positives, mine : BOOLEAN]
Book == [Sides -> [Prices -> Seq(RestingOrder)]]

Fill == [resting : Int, aggressor : Int, price : Int, qty : Positives, side : Sides,
         restingMine : BOOLEAN, aggressorMine : BOOLEAN]

MarketEvent == [type : EventTypes, id : Int, new : Int, side : Sides, price : Int, qty : Int]

AgentMessage ==
  [decided : Int, type : MessageTypes, id : Int, side : Sides, price : Int, qty : Int]

Generator ==
  [live : SUBSET [id : Int, qty : Int, price : Int, side : Sides], next : Int,
   touch : [Sides -> Int]]

\* A finite set of integers has a greatest and a least member.
LEMMA FiniteSetsHaveEnds ==
  ASSUME NEW S, IsFiniteSet(S), S \subseteq Int, S # {}
  PROVE  /\ \E p \in S : \A r \in S : r <= p
         /\ \E p \in S : \A r \in S : r >= p
<1> DEFINE HasEnds(T) == /\ \E p \in T : \A r \in T : r <= p
                         /\ \E p \in T : \A r \in T : r >= p
           Count(T) == Cardinality(T)
           Bad == {Count(T) : T \in {U \in SUBSET S : U # {} /\ ~HasEnds(U)}}
<1>1. \A T \in SUBSET S : IsFiniteSet(T) /\ Count(T) \in Nat
  BY FS_Subset, FS_CardinalityType
<1> HIDE DEF Count
<1>2. Bad = {}
  <2> SUFFICES ASSUME Bad # {} PROVE FALSE
    OBVIOUS
  <2>1. PICK n \in Bad : \A m \in Bad : n <= m
    <3>1. Bad \in SUBSET Nat
      BY <1>1
    <3> QED
      BY <3>1, LeastExists
  <2>2. PICK T \in SUBSET S : T # {} /\ ~HasEnds(T) /\ Count(T) = n
    BY <2>1
  <2>3. PICK x \in T : TRUE
    BY <2>2
  <2> DEFINE U == T \ {x}
  <2>4. U \in SUBSET S /\ Count(U) = n - 1 /\ n \in Nat
    BY <1>1, <2>2, <2>3, FS_RemoveElement DEF Count
  <2>5. U # {} => HasEnds(U)
    <3>1. n - 1 \notin Bad
      BY <2>1, <2>4
    <3> HIDE DEF HasEnds, U
    <3> QED
      BY <2>4, <3>1
  <2>6. x \in Int /\ T = U \cup {x} /\ \A r \in U : r \in Int
    BY <2>2, <2>3
  <2> HIDE DEF U
  <2>7. CASE U = {}
    BY <2>2, <2>6, <2>7
  <2>8. CASE U # {}
    <3>1. PICK p \in U : \A r \in U : r <= p
      BY <2>5, <2>8
    <3>2. PICK q \in U : \A r \in U : r >= q
      BY <2>5, <2>8
    <3>3. \E t \in T : \A r \in T : r <= t
      <4>1. CASE x <= p
        BY <2>6, <3>1, <4>1
      <4>2. CASE p <= x
        BY <2>6, <3>1, <4>2
      <4> QED
        BY <2>6, <4>1, <4>2
    <3>4. \E t \in T : \A r \in T : r >= t
      <4>1. CASE x >= q
        BY <2>6, <3>2, <4>1
      <4>2. CASE q >= x
        BY <2>6, <3>2, <4>2
      <4> QED
        BY <2>6, <4>1, <4>2
    <3> QED
      BY <2>2, <3>3, <3>4
  <2> QED
    BY <2>7, <2>8
<1>3. S \in SUBSET S
  OBVIOUS
<1>4. HasEnds(S)
  <2> HIDE DEF HasEnds
  <2> QED
    BY <1>2, <1>3
<1> QED
  BY <1>4

\* The best price of a side that has orders is one of them.
LEMMA BestIsAPrice ==
  ASSUME NEW b, NEW sd
  PROVE  /\ Best(b, sd) \in Int
         /\ HasBest(b, sd) => Best(b, sd) \in Prices /\ b[sd][Best(b, sd)] # <<>>
<1> DEFINE S == Occupied(b, sd)
<1>1. S \in SUBSET Prices /\ IsFiniteSet(S) /\ S \subseteq Int
  BY InputAssumption, FS_Subset DEF Occupied
<1>2. CASE ~HasBest(b, sd)
  BY <1>2 DEF Best
<1>3. CASE HasBest(b, sd)
  <2>1. /\ \E p \in S : \A r \in S : r <= p
        /\ \E p \in S : \A r \in S : r >= p
    BY <1>1, <1>3, FiniteSetsHaveEnds DEF HasBest
  <2>2. \E p \in S : \A r \in S : IF sd = "Bid" THEN r <= p ELSE r >= p
    BY <2>1
  <2>3. Best(b, sd) \in S
    BY <1>3, <2>2, Zenon DEF Best
  <2> QED
    BY <1>1, <2>3 DEF Occupied
<1> QED
  BY <1>2, <1>3

\* The empty book.
LEMMA EmptyIsABook == RefEmpty \in Book
BY DEF RefEmpty, Book

\* A queue of the book replaced.
LEMMA QueueReplaced ==
  ASSUME NEW b \in Book, NEW sd, NEW p, NEW q \in Seq(RestingOrder)
  PROVE  [b EXCEPT ![sd][p] = q] \in Book
BY DEF Book

\* A queue with an order more.
LEMMA QueueJoined ==
  ASSUME NEW b \in Book, NEW id \in Int, NEW sd \in Sides, NEW p \in Prices,
         NEW qty \in Positives, NEW mine \in BOOLEAN
  PROVE  JoinQueue(b, id, sd, p, qty, mine) \in Book
<1> DEFINE e == [id |-> id, qty |-> qty, mine |-> mine]
<1>1. e \in RestingOrder
  BY DEF RestingOrder
<1>2. b[sd][p] \in Seq(RestingOrder)
  BY DEF Book
<1> HIDE DEF e
<1>3. Append(b[sd][p], e) \in Seq(RestingOrder)
  BY <1>1, <1>2
<1>4. JoinQueue(b, id, sd, p, qty, mine) = [b EXCEPT ![sd][p] = Append(b[sd][p], e)]
  BY Zenon DEF JoinQueue, e
<1> DEFINE q == Append(b[sd][p], e)
<1>5. q \in Seq(RestingOrder)
  BY <1>3
<1> HIDE DEF q
<1>6. [b EXCEPT ![sd][p] = q] \in Book
  BY <1>5, QueueReplaced
<1> QED
  BY <1>4, <1>6 DEF q

\* Where a known order rests.
LEMMA OrderFound ==
  ASSUME NEW b \in Book, NEW id, Known(b, id)
  PROVE  /\ Where(b, id)[1] \in Sides /\ Where(b, id)[2] \in Prices
         /\ Queue(b, id) \in Seq(RestingOrder)
         /\ Place(b, id) \in 1 .. Len(Queue(b, id))
         /\ EntryOf(b, id) \in RestingOrder
<1>1. PICK sd \in Sides, p \in Prices : IsAt(b, id, sd, p)
  BY DEF Known
<1>2. <<sd, p>> \in Sides \X Prices /\ IsAt(b, id, <<sd, p>>[1], <<sd, p>>[2])
  BY <1>1
<1> DEFINE w == Where(b, id)
<1>3. w \in Sides \X Prices /\ IsAt(b, id, w[1], w[2])
  BY <1>2, Zenon DEF Where
<1> HIDE DEF w
<1>4. w[1] \in Sides /\ w[2] \in Prices
  BY <1>3
<1>5. Queue(b, id) = b[w[1]][w[2]] /\ Queue(b, id) \in Seq(RestingOrder)
  BY <1>4 DEF Queue, w, Book
<1>6. \E i \in DOMAIN Queue(b, id) : Queue(b, id)[i].id = id
  BY <1>3, <1>5, Zenon DEF IsAt, IdsIn
<1>7. Place(b, id) \in DOMAIN Queue(b, id)
  BY <1>6, Zenon DEF Place
<1>8. Place(b, id) \in 1 .. Len(Queue(b, id))
  BY <1>5, <1>7
<1>9. EntryOf(b, id) \in RestingOrder
  BY <1>5, <1>8 DEF EntryOf
<1> QED
  BY <1>4, <1>5, <1>8, <1>9 DEF w

\* The quantity of an order is a number.
LEMMA QtyOfIsANumber ==
  ASSUME NEW b \in Book, NEW id
  PROVE  QtyOf(b, id) \in Int
BY OrderFound DEF QtyOf, RestingOrder, Positives

\* An order removed.
LEMMA RemoveKeepsBook ==
  ASSUME NEW b \in Book, NEW id
  PROVE  Remove(b, id).book \in Book
<1>1. CASE ~Known(b, id)
  BY <1>1 DEF Remove, Result
<1>2. CASE Known(b, id)
  <2>1. SX!RemoveAt(Queue(b, id), Place(b, id)) \in Seq(RestingOrder)
    BY <1>2, OrderFound DEF SX!RemoveAt
  <2>2. WithQueue(b, id, SX!RemoveAt(Queue(b, id), Place(b, id))) \in Book
    BY <2>1, QueueReplaced DEF WithQueue
  <2> QED
    BY <1>2, <2>2 DEF Remove, Result
<1> QED
  BY <1>1, <1>2

\* An order reduced.
LEMMA ReduceKeepsBook ==
  ASSUME NEW b \in Book, NEW id, NEW by \in Int
  PROVE  Reduce(b, id, by).book \in Book
<1> DEFINE q == Queue(b, id)
           c == [q EXCEPT ![Place(b, id)].qty = @ - by]
<1>1. CASE Known(b, id)
  <2>1. q \in Seq(RestingOrder) /\ Place(b, id) \in 1 .. Len(q)
    BY <1>1, OrderFound
  <2>2. q[Place(b, id)] \in RestingOrder
    BY <2>1
  <2>3. by > 0 /\ by < EntryOf(b, id).qty
          => [q[Place(b, id)] EXCEPT !.qty = @ - by] \in RestingOrder
    BY <2>2 DEF RestingOrder, Positives, EntryOf
  <2>4. c = [q EXCEPT ![Place(b, id)] = [q[Place(b, id)] EXCEPT !.qty = @ - by]]
    BY Zenon
  <2> HIDE DEF c, q
  <2>5. by > 0 /\ by < EntryOf(b, id).qty => c \in Seq(RestingOrder)
    BY <2>1, <2>3, <2>4
  <2>6. by > 0 /\ by < EntryOf(b, id).qty => WithQueue(b, id, c) \in Book
    BY <2>5, QueueReplaced DEF WithQueue
  <2>7. Reduce(b, id, by).book
          = IF by <= 0 \/ by > EntryOf(b, id).qty THEN b
            ELSE IF by = EntryOf(b, id).qty THEN Remove(b, id).book ELSE WithQueue(b, id, c)
    BY <1>1, Zenon DEF Reduce, Result, c, q
  <2>8. EntryOf(b, id).qty \in Int
    BY <1>1, OrderFound DEF RestingOrder, Positives
  <2> QED
    BY <2>6, <2>7, <2>8, RemoveKeepsBook
<1>2. CASE ~Known(b, id)
  BY <1>2 DEF Reduce, Result
<1> QED
  BY <1>1, <1>2

\* An order added.
LEMMA AddKeepsBook ==
  ASSUME NEW b \in Book, NEW id \in Int, NEW sd \in Sides, NEW p, NEW qty \in Int,
         NEW mine \in BOOLEAN
  PROVE  Add(b, id, sd, p, qty, mine).book \in Book
<1>1. p \in Window /\ qty > 0 => JoinQueue(b, id, sd, p, qty, mine) \in Book
  BY WindowAssumption, QueueJoined DEF Positives
<1>2. /\ Add(b, id, sd, p, qty, mine).book \in {b, JoinQueue(b, id, sd, p, qty, mine)}
      /\ p \notin Window \/ qty <= 0 => Add(b, id, sd, p, qty, mine).book = b
  BY DEF Add, Result
<1> QED
  BY <1>1, <1>2

\* An order replaced.
LEMMA ReplaceKeepsBook ==
  ASSUME NEW b \in Book, NEW old, NEW new \in Int, NEW p, NEW qty \in Int
  PROVE  Replace(b, old, new, p, qty).book \in Book
<1>1. CASE Known(b, old)
  <2>1. /\ Remove(b, old).book \in Book /\ Where(b, old)[1] \in Sides
        /\ EntryOf(b, old).mine \in BOOLEAN
    BY <1>1, OrderFound, RemoveKeepsBook DEF RestingOrder
  <2>2. Add(Remove(b, old).book, new, Where(b, old)[1], p, qty, EntryOf(b, old).mine).book \in Book
    BY <2>1, AddKeepsBook
  <2> QED
    BY <1>1, <2>2 DEF Replace
<1>2. CASE ~Known(b, old)
  BY <1>2 DEF Replace, Result
<1> QED
  BY <1>1, <1>2

\* A market event applied.
LEMMA ApplyKeepsBook ==
  ASSUME NEW b \in Book, NEW e \in MarketEvent
  PROVE  Apply(b, e).book \in Book
<1>1. /\ e.type \in EventTypes /\ e.id \in Int /\ e.new \in Int /\ e.side \in Sides
      /\ e.price \in Int /\ e.qty \in Int
  BY DEF MarketEvent
<1>2. /\ Add(b, e.id, e.side, e.price, e.qty, FALSE).book \in Book
      /\ Reduce(b, e.id, e.qty).book \in Book /\ Remove(b, e.id).book \in Book
      /\ Execute(b, e.id, e.qty).book \in Book
      /\ Replace(b, e.id, e.new, e.price, e.qty).book \in Book
      /\ Result(RefEmpty, "Ok").book \in Book /\ Result(b, "Ok").book \in Book
  <2>1. PICK mine \in BOOLEAN : mine = FALSE
    OBVIOUS
  <2>2. Add(b, e.id, e.side, e.price, e.qty, mine).book \in Book
    BY <1>1, AddKeepsBook
  <2>3. Add(b, e.id, e.side, e.price, e.qty, FALSE).book \in Book
    BY <2>1, <2>2, Zenon
  <2>4. Reduce(b, e.id, e.qty).book \in Book
    BY <1>1, ReduceKeepsBook
  <2> QED
    BY <1>1, <2>3, <2>4, RemoveKeepsBook, ReplaceKeepsBook, EmptyIsABook DEF Execute, Result
<1> QED
  BY <1>1, <1>2, Zenon DEF Apply, EventTypes

\* A matching whose numbers are typed.
Trading == [book : Book, left : Nat, fills : Seq(Fill)]

\* A turn of the loop.
LEMMA CrossStepKeepsTrading ==
  ASSUME NEW m \in Trading, NEW smp, NEW id \in Int, NEW sd \in Sides, NEW limit,
         NEW mine \in BOOLEAN
  PROVE  CrossStep(m, smp, id, sd, limit, mine) \in Trading
<1> DEFINE other == Opposite(sd)
           price == Best(m.book, other)
           front == FrontEntry(m.book[other][price])
<1>1. m.book \in Book /\ m.left \in Nat /\ m.fills \in Seq(Fill) /\ other \in Sides
  BY DEF Trading, Opposite, Sides
<1>2. CASE ~HasBest(m.book, other)
  BY <1>2 DEF CrossStep
<1>3. CASE m.left = 0
  BY <1>3 DEF CrossStep
<1>4. CASE HasBest(m.book, other) /\ m.left # 0
  <2>1. price \in Prices /\ price \in Int /\ m.book[other][price] # <<>>
    BY <1>4, BestIsAPrice
  <2> HIDE DEF other, price
  <2>2. m.book[other][price] \in Seq(RestingOrder)
    BY <1>1, <2>1 DEF Book
  <2>3. front \in RestingOrder
    <3>1. \A q \in Seq(RestingOrder) : q # <<>> => Head(q) \in RestingOrder
      OBVIOUS
    <3> QED
      BY <2>1, <2>2, <3>1 DEF FrontEntry
  <2> HIDE DEF front
  <2>4. front.id \in Int /\ front.qty \in Positives /\ front.mine \in BOOLEAN
    BY <2>3 DEF RestingOrder
  <2>5. [m EXCEPT !.book = Remove(m.book, front.id).book] \in Trading
    <3>1. \A c \in Book : [m EXCEPT !.book = c] \in Trading
      BY DEF Trading
    <3> QED
      BY <1>1, <3>1, RemoveKeepsBook
  <2>6. TradeWith(m, front, price, id, sd, mine) \in Trading
    <3> DEFINE take == Take(m.left, front.qty)
               f == [resting |-> front.id, aggressor |-> id, price |-> price,
                     qty |-> take, side |-> Opposite(sd),
                     restingMine |-> front.mine, aggressorMine |-> mine]
    <3>1. take \in Positives /\ take \in Int /\ take <= m.left
      BY <1>1, <1>4, <2>4 DEF Take, Lesser, Positives
    <3> HIDE DEF take
    <3>2. f \in Fill
      BY <1>1, <2>1, <2>4, <3>1 DEF Fill, other
    <3>3. Execute(m.book, front.id, take).book \in Book
      BY <1>1, <3>1, ReduceKeepsBook DEF Execute
    <3>4. TradeWith(m, front, price, id, sd, mine)
            = Matched(Execute(m.book, front.id, take).book, m.left - take, Append(m.fills, f))
      BY Zenon DEF TradeWith, take, f
    <3> HIDE DEF f
    <3>5. m.left - take \in Nat /\ Append(m.fills, f) \in Seq(Fill)
      BY <1>1, <3>1, <3>2
    <3>6. \A c \in Book, n \in Nat, s \in Seq(Fill) : Matched(c, n, s) \in Trading
      BY DEF Matched, Trading
    <3> QED
      BY <3>3, <3>4, <3>5, <3>6
  <2>7. CrossStep(m, smp, id, sd, limit, mine)
          \in {m, [m EXCEPT !.book = Remove(m.book, front.id).book],
               TradeWith(m, front, price, id, sd, mine)}
    BY Zenon DEF CrossStep, other, price, front
  <2> QED
    BY <2>5, <2>6, <2>7
<1> QED
  BY <1>2, <1>3, <1>4

\* The loop.
LEMMA CrossIsTrading ==
  ASSUME NEW b \in Book, NEW smp, NEW id \in Int, NEW sd \in Sides, NEW limit, NEW qty \in Nat,
         NEW mine \in BOOLEAN
  PROVE  Cross(b, smp, id, sd, limit, qty, mine) \in Trading
<1>1. PICK g : /\ TurnsOf(g, b, smp, id, sd, limit, qty, mine)
               /\ Cross(b, smp, id, sd, limit, qty, mine) = g[MaxOrders]
  BY CrossTurns
<1>2. g[0] \in Trading
  <2>1. <<>> \in Seq(Fill)
    OBVIOUS
  <2> QED
    BY <1>1, <2>1 DEF TurnsOf, Matched, Trading
<1> USE MaxOrdersAssumption
<1> DEFINE Odd == {k \in 0 .. MaxOrders : g[k] \notin Trading}
<1>3. Odd = {}
  <2> SUFFICES ASSUME Odd # {} PROVE FALSE
    OBVIOUS
  <2>1. PICK k \in Odd : \A j \in Odd : k <= j
    <3>1. Odd \in SUBSET Nat
      OBVIOUS
    <3> QED
      BY <3>1, LeastExists
  <2>2. k # 0
    BY <1>2, <2>1
  <2>3. k - 1 \in 0 .. MaxOrders /\ k - 1 \notin Odd /\ k \in 1 .. MaxOrders
    BY <2>1, <2>2
  <2>4. g[k] = CrossStep(g[k - 1], smp, id, sd, limit, mine)
    BY <1>1, <2>3 DEF TurnsOf
  <2>5. g[k] \in Trading
    BY <2>3, <2>4, CrossStepKeepsTrading
  <2> QED
    BY <2>1, <2>5
<1> QED
  BY <1>1, <1>3

\* What the engine returns for a submission.
LEMMA SubmissionsAreTyped ==
  ASSUME NEW b \in Book, NEW smp, NEW id \in Int, NEW sd \in Sides, NEW price, NEW qty \in Int,
         NEW mine \in BOOLEAN
  PROVE  /\ SubmitLimit(b, smp, id, sd, price, qty, mine).book \in Book
         /\ SubmitLimit(b, smp, id, sd, price, qty, mine).fills \in Seq(Fill)
         /\ SubmitMarket(b, smp, id, sd, qty, mine).book \in Book
         /\ SubmitMarket(b, smp, id, sd, qty, mine).fills \in Seq(Fill)
<1>1. \A c, s, n, k, e : Submitted(c, s, n, k, e).book = c /\ Submitted(c, s, n, k, e).fills = s
  BY DEF Submitted
<1>2. <<>> \in Seq(Fill)
  OBVIOUS
<1>3. qty > 0 => \A limit : LET m == Cross(b, smp, id, sd, limit, qty, mine)
                            IN m.book \in Book /\ m.left \in Int /\ m.fills \in Seq(Fill)
  <2>1. \A m \in Trading : m.book \in Book /\ m.left \in Int /\ m.fills \in Seq(Fill)
    BY DEF Trading
  <2>2. qty > 0 => qty \in Nat
    OBVIOUS
  <2> QED
    BY <2>1, <2>2, CrossIsTrading
<1> DEFINE m == Cross(b, smp, id, sd, Limit(sd, price), qty, mine)
           r == Add(m.book, id, sd, price, Remainder(m, qty), mine)
<1>4. qty > 0 => r.book \in Book
  <2>1. qty > 0 => m.book \in Book /\ Remainder(m, qty) \in Int
    BY <1>3 DEF Remainder
  <2> HIDE DEF m
  <2> QED
    BY <2>1, AddKeepsBook
<1>5. IF qty <= 0
        THEN SubmitLimit(b, smp, id, sd, price, qty, mine) = Submitted(b, <<>>, 0, 0, "BadQuantity")
        ELSE \/ SubmitLimit(b, smp, id, sd, price, qty, mine) = Submitted(m.book, m.fills, qty, 0, "Ok")
             \/ SubmitLimit(b, smp, id, sd, price, qty, mine)
                  = Submitted(r.book, m.fills, qty - m.left, IF r.err = "Ok" THEN m.left ELSE 0, r.err)
  BY Zenon DEF SubmitLimit, Refused
<1> DEFINE w == Cross(b, smp, id, sd, Prices, qty, mine)
<1>6. IF qty <= 0
        THEN SubmitMarket(b, smp, id, sd, qty, mine) = Submitted(b, <<>>, 0, 0, "BadQuantity")
        ELSE SubmitMarket(b, smp, id, sd, qty, mine)
               = Submitted(w.book, w.fills, qty - w.left, 0, "Ok")
  BY Zenon DEF SubmitMarket, Refused
<1>7. qty > 0 => m.book \in Book /\ m.fills \in Seq(Fill) /\ w.book \in Book /\ w.fills \in Seq(Fill)
  BY <1>3
<1> HIDE DEF m, r, w
<1>8. \A x, c, t, n, k, e : x = Submitted(c, t, n, k, e) /\ c \in Book /\ t \in Seq(Fill)
                            => x.book \in Book /\ x.fills \in Seq(Fill)
  BY <1>1
<1>9. qty <= 0 \/ qty > 0
  OBVIOUS
<1> QED
  BY ONLY <1>2, <1>4, <1>5, <1>6, <1>7, <1>8, <1>9, b \in Book

\* Adding numbers up.
LEMMA TotalWalks ==
  ASSUME NEW e, IsList(e)
  PROVE  Leads("number", 0, e, Total(e))
<1> DEFINE n == Len(e)
           Folds(g) == g = [r \in SUBSET (1 .. n) |->
                 IF r = {} THEN 0 ELSE g[r \ {Highest(r)}] + e[Highest(r)]]
           f == CHOOSE g : Folds(g)
<1>1. n \in Nat /\ DOMAIN e = 1 .. n
  BY ListParts
<1>2. Total(e) = f[1 .. n]
  BY <1>1, Zenon DEF Total, SX!FoldLeft, SX!MapThenFoldSet, Highest
<1> HIDE DEF n
<1>3. \A x, y : x + y = Onward("number", x, y)
  BY DEF Onward
<1>4. \E g : Folds(g)
  <2>1. PICK g : FoldedTo("number", e, 0, n, g, n)
    BY <1>1, FoldExists
  <2>2. \A r \in SUBSET (1 .. n) : g[r] = IF r = {} THEN 0 ELSE g[r \ {Highest(r)}] + e[Highest(r)]
    BY <1>3, <2>1 DEF FoldedTo
  <2>3. g = [r \in SUBSET (1 .. n) |-> g[r]]
    BY <2>1, Zenon DEF FoldedTo
  <2>4. Folds(g)
    BY <2>2, <2>3
  <2> QED
    BY <2>4
<1>5. Folds(f)
  BY <1>4, Zenon
<1> HIDE DEF f
<1>6. IsFold("number", 0, e, f)
  BY <1>3, <1>5 DEF IsFold, n
<1> QED
  BY <1>2, <1>6, FoldIsWalk DEF n

\* The total of nothing, and of one more.
LEMMA TotalOfMore ==
  /\ Total(<<>>) = 0
  /\ \A s, x : IsList(s) => Total(Append(s, x)) = Total(s) + x
<1>1. Total(<<>>) = 0
  <2>1. PICK p : IsWalk("number", 0, <<>>, p) /\ p[Len(<<>>)] = Total(<<>>)
    BY NothingIsAList, TotalWalks DEF Leads
  <2>2. Len(<<>>) = 0
    OBVIOUS
  <2> QED
    BY <2>1, <2>2 DEF IsWalk
<1>2. ASSUME NEW s, NEW x, IsList(s) PROVE Total(Append(s, x)) = Total(s) + x
  <2> DEFINE e == <<x>>
             t == Total(s)
             d == t + x
  <2>1. IsList(e) /\ Len(e) = 1 /\ e[1] = x
    <3>1. e \in Seq({x})
      OBVIOUS
    <3> QED
      BY <3>1, SequencesAreLists
  <2>2. Append(s, x) = s \o e
    <3>1. PICK X : s \in Seq(X)
      BY <1>2 DEF IsList
    <3>2. s \in Seq(X \cup {x})
      BY <3>1, SeqMonotonic
    <3> QED
      BY <3>2, AppendIsConcat
  <2>3. IsList(Append(s, x))
    BY <1>2, ListAppended
  <2>4. Leads("number", 0, s, t)
    BY <1>2, TotalWalks
  <2> HIDE DEF t, e
  <2>5. Leads("number", t, e, d)
    <3> DEFINE p == [k \in 0 .. 1 |-> IF k = 0 THEN t ELSE d]
    <3>1. p[0] = t /\ p[1] = d /\ d = Onward("number", t, e[1])
      BY <2>1 DEF Onward
    <3> HIDE DEF p, d
    <3>2. \A k \in 1 .. 1 : k = 1 /\ k - 1 = 0
      OBVIOUS
    <3>3. IsWalk("number", t, e, p) /\ p[Len(e)] = d
      BY <2>1, <3>1, <3>2 DEF IsWalk
    <3> QED
      BY <3>3 DEF Leads
  <2> HIDE DEF d
  <2>6. Leads("number", 0, s \o e, d)
    BY <1>2, <2>1, <2>4, <2>5, WalksJoin
  <2>7. Leads("number", 0, Append(s, x), Total(Append(s, x)))
    BY <2>3, TotalWalks
  <2>8. Total(Append(s, x)) = d
    BY <2>2, <2>3, <2>6, <2>7, WalksAgree
  <2> QED
    BY <2>8 DEF d, t
<1> QED
  BY <1>1, <1>2

\* What a fill adds to each of the sums that the books are held against.
Columns == {"bought", "sold", "paid", "earned", "ours"}

Share(c, f) ==
  CASE c = "bought" -> IF WeBought(f) THEN QtyIn(f) ELSE 0
    [] c = "sold" -> IF WeSold(f) THEN QtyIn(f) ELSE 0
    [] c = "paid" -> IF WeBought(f) THEN f.qty * f.price ELSE 0
    [] c = "earned" -> IF WeSold(f) THEN f.qty * f.price ELSE 0
    [] c = "ours" -> IF IsOurs(f) THEN QtyIn(f) ELSE 0

Column(c, t) == [i \in DOMAIN t |-> Share(c, t[i])]

\* A fill more.
LEMMA ColumnGrows ==
  ASSUME NEW c \in Columns, NEW t \in Seq(Fill), NEW f \in Fill
  PROVE  /\ Share(c, f) \in Int
         /\ Total(Column(c, Append(t, f))) = Total(Column(c, t)) + Share(c, f)
<1>1. ASSUME NEW x \in Fill PROVE Share(c, x) \in Int
  <2>1. x.qty \in Int /\ x.price \in Int
    BY DEF Fill, Positives
  <2>2. x.qty * x.price \in Int
    BY <2>1
  <2> QED
    BY <2>1, <2>2 DEF Columns, Share, QtyIn
<1> DEFINE s == Column(c, t)
           u == Column(c, Append(t, f))
<1>2. /\ Append(t, f) \in Seq(Fill) /\ Len(Append(t, f)) = Len(t) + 1 /\ Len(t) \in Nat
      /\ \A i \in 1 .. Len(t) + 1 :
           Append(t, f)[i] = IF i = Len(t) + 1 THEN f ELSE t[i]
  OBVIOUS
<1>3. s \in Seq(Int) /\ Len(s) = Len(t) /\ \A i \in 1 .. Len(t) : s[i] = Share(c, t[i])
  BY <1>1 DEF Column
<1>4. u \in Seq(Int) /\ Len(u) = Len(t) + 1
      /\ \A i \in 1 .. Len(t) + 1 : u[i] = Share(c, Append(t, f)[i])
  BY <1>1, <1>2 DEF Column
<1> HIDE DEF s, u
<1>5. u = Append(s, Share(c, f))
  <2> DEFINE k == Share(c, f)
  <2>1. k \in Int
    BY <1>1
  <2>2. \A i \in 1 .. Len(t) + 1 : u[i] = IF i = Len(t) + 1 THEN k ELSE s[i]
    BY <1>2, <1>3, <1>4
  <2> HIDE DEF k
  <2>3. Append(s, k) \in Seq(Int) /\ Len(Append(s, k)) = Len(t) + 1
        /\ \A i \in 1 .. Len(t) + 1 : Append(s, k)[i] = IF i = Len(t) + 1 THEN k ELSE s[i]
    BY <1>3, <2>1
  <2>4. u = Append(s, k)
    BY <1>4, <2>2, <2>3
  <2> QED
    BY <2>4 DEF k
<1>6. IsList(s)
  BY <1>3, SequencesAreLists
<1> QED
  BY <1>1, <1>5, <1>6, TotalOfMore DEF s, u

\* The counters s are what the fills t make them.
Counters ==
  [sent : Int, applied : Int, passive : Int, aggressive : Int, lateCancels : Int,
   inventory : Int, cash : Int]

Accounts(s, t) ==
  /\ s \in Counters /\ t \in Seq(Fill)
  /\ \A c \in Columns : Total(Column(c, t)) \in Int
  /\ s.inventory = Total(Column("bought", t)) - Total(Column("sold", t))
  /\ s.cash = Total(Column("earned", t)) - Total(Column("paid", t))
  /\ s.passive + s.aggressive = Total(Column("ours", t))

\* One fill is booked as what it is.
LEMMA BookFillAccounts ==
  ASSUME NEW s, NEW t, Accounts(s, t), NEW f \in Fill
  PROVE  Accounts(BookFill(s, f), Append(t, f))
<1> DEFINE T(c) == Total(Column(c, t))
           U(c) == Total(Column(c, Append(t, f)))
           k == BookFill(s, f)
<1>1. s \in Counters /\ t \in Seq(Fill) /\ Append(t, f) \in Seq(Fill)
  BY DEF Accounts
<1>2. \A c \in Columns : T(c) \in Int /\ Share(c, f) \in Int /\ U(c) = T(c) + Share(c, f)
  BY <1>1, ColumnGrows DEF Accounts
<1>3. /\ s.inventory = T("bought") - T("sold")
      /\ s.cash = T("earned") - T("paid")
      /\ s.passive + s.aggressive = T("ours")
  BY DEF Accounts
<1> HIDE DEF T, U
<1>4. /\ s.inventory \in Int /\ s.cash \in Int /\ s.passive \in Int /\ s.aggressive \in Int
  BY <1>1 DEF Counters
<1>5. /\ f.qty \in Int /\ f.price \in Int /\ f.side \in Sides
      /\ f.restingMine \in BOOLEAN /\ f.aggressorMine \in BOOLEAN
  BY DEF Fill, Positives
<1> DEFINE bought == Share("bought", f)
           sold == Share("sold", f)
           paid == Share("paid", f)
           earned == Share("earned", f)
           ours == Share("ours", f)
<1>6. /\ bought = (IF WeBought(f) THEN f.qty ELSE 0) /\ sold = (IF WeSold(f) THEN f.qty ELSE 0)
      /\ paid = (IF WeBought(f) THEN f.qty * f.price ELSE 0)
      /\ earned = (IF WeSold(f) THEN f.qty * f.price ELSE 0)
      /\ ours = (IF IsOurs(f) THEN f.qty ELSE 0)
  BY DEF Share, QtyIn
<1> HIDE DEF bought, sold, paid, earned, ours
<1>7. /\ bought \in Int /\ sold \in Int /\ paid \in Int /\ earned \in Int /\ ours \in Int
      /\ U("bought") = T("bought") + bought /\ U("sold") = T("sold") + sold
      /\ U("paid") = T("paid") + paid /\ U("earned") = T("earned") + earned
      /\ U("ours") = T("ours") + ours
      /\ T("bought") \in Int /\ T("sold") \in Int /\ T("paid") \in Int /\ T("earned") \in Int
      /\ T("ours") \in Int
  BY <1>2 DEF Columns, bought, sold, paid, earned, ours
<1>8. /\ k \in Counters
      /\ k.inventory = s.inventory + (bought - sold)
      /\ k.cash = s.cash + (earned - paid)
      /\ k.passive + k.aggressive = s.passive + s.aggressive + ours
  <2>1. CASE ~IsOurs(f)
    <3>1. ~WeBought(f) /\ ~WeSold(f) /\ k = s
      BY <2>1, Zenon DEF IsOurs, WeBought, WeSold, BookFill
    <3> HIDE DEF k
    <3> QED
      BY <1>1, <1>4, <1>6, <2>1, <3>1
  <2>2. CASE IsOurs(f)
    <3> DEFINE n == SignedQty(f)
    <3>1. \/ WeBought(f) /\ ~WeSold(f) /\ n = f.qty
          \/ WeSold(f) /\ ~WeBought(f) /\ n = -f.qty
      <4>1. CASE f.restingMine
        BY <1>5, <4>1 DEF WeBought, WeSold, SignedQty, OurSide, Sides
      <4>2. CASE ~f.restingMine
        <5>1. f.aggressorMine
          BY <2>2, <4>2 DEF IsOurs
        <5> QED
          BY <1>5, <4>2, <5>1 DEF WeBought, WeSold, SignedQty, OurSide, Opposite, Sides
      <4> QED
        BY <4>1, <4>2
    <3>2. n \in Int /\ n = bought - sold /\ n * f.price = paid - earned
      <4>1. \A a, b \in Int : a * b \in Int /\ (-a) * b = 0 - a * b /\ -a \in Int /\ -a = 0 - a
        OBVIOUS
      <4>2. CASE WeBought(f) /\ ~WeSold(f) /\ n = f.qty
        <5> HIDE DEF n
        <5>1. bought = f.qty /\ sold = 0 /\ paid = f.qty * f.price /\ earned = 0
          BY <1>6, <4>2
        <5>2. f.qty * f.price \in Int
          BY <1>5, <4>1
        <5> QED
          BY <1>5, <4>2, <5>1, <5>2
      <4>3. CASE WeSold(f) /\ ~WeBought(f) /\ n = -f.qty
        <5> HIDE DEF n
        <5>1. sold = f.qty /\ bought = 0 /\ earned = f.qty * f.price /\ paid = 0
          BY <1>6, <4>3
        <5>2. /\ n \in Int /\ n = 0 - f.qty /\ n * f.price = 0 - f.qty * f.price
              /\ f.qty * f.price \in Int
          BY <1>5, <4>1, <4>3
        <5> QED
          BY <1>5, <5>1, <5>2
      <4> QED
        BY <3>1, <4>2, <4>3
    <3> HIDE DEF n
    <3> DEFINE p == IF f.restingMine THEN s.passive + f.qty ELSE s.passive
               a == IF f.restingMine THEN s.aggressive ELSE s.aggressive + f.qty
               i == s.inventory + n
               c == s.cash - n * f.price
    <3>3. k = [s EXCEPT !.passive = p, !.aggressive = a, !.inventory = i, !.cash = c]
      BY <2>2, Zenon DEF BookFill, n
    <3>4. /\ p \in Int /\ a \in Int /\ p + a = s.passive + s.aggressive + f.qty
      BY ONLY <1>4, <1>5
    <3>5. i \in Int /\ i = s.inventory + (bought - sold)
      BY ONLY <1>4, <3>2
    <3>6. c \in Int /\ c = s.cash + (earned - paid)
      <4>1. \A x, y, z, w \in Int : w = y - z => x - w = x + (z - y) /\ x - w \in Int
        OBVIOUS
      <4>2. n * f.price = paid - earned /\ paid - earned \in Int
        BY ONLY <1>7, <3>2
      <4> QED
        BY ONLY <1>4, <1>7, <4>1, <4>2
    <3> HIDE DEF p, a, i, c
    <3>7. /\ k \in Counters /\ k.passive = p /\ k.aggressive = a
          /\ k.inventory = i /\ k.cash = c
      <4> HIDE DEF k
      <4> QED
        BY <1>1, <3>3, <3>4, <3>5, <3>6 DEF Counters
    <3>8. ours = f.qty
      BY <1>6, <2>2
    <3> HIDE DEF k
    <3> QED
      BY ONLY <3>4, <3>5, <3>6, <3>7, <3>8
  <2> QED
    BY <2>1, <2>2
<1> HIDE DEF k
<1>9. /\ k.inventory = U("bought") - U("sold")
      /\ k.cash = U("earned") - U("paid")
      /\ k.passive + k.aggressive = U("ours")
  BY <1>3, <1>4, <1>7, <1>8
<1>10. \A c \in Columns : U(c) \in Int
  BY <1>2
<1> QED
  BY <1>1, <1>8, <1>9, <1>10 DEF Accounts, U, k

\* Any number of fills.
LEMMA BookFillsAccount ==
  ASSUME NEW s, NEW t, Accounts(s, t), NEW e \in Seq(Fill)
  PROVE  Accounts(BookFills(s, e), t \o e)
<1> DEFINE n == Len(e)
           Upto(k) == t \o SubSeq(e, 1, k)
<1>1. n \in Nat /\ t \in Seq(Fill) /\ IsList(e)
  BY SequencesAreLists DEF Accounts
<1>2. PICK p : IsWalk("fill", s, e, p) /\ p[n] = BookFills(s, e)
  BY <1>1, BookFillsWalks DEF Leads
<1>3. p[0] = s /\ \A k \in 1 .. n : p[k] = BookFill(p[k - 1], e[k])
  BY <1>2 DEF IsWalk, Onward
<1>4. Upto(0) = t /\ Upto(n) = t \o e
  BY <1>1
<1>5. ASSUME NEW k \in 1 .. n
      PROVE  e[k] \in Fill /\ Upto(k) = Append(Upto(k - 1), e[k])
  <2>1. SubSeq(e, 1, k) = Append(SubSeq(e, 1, k - 1), e[k]) /\ SubSeq(e, 1, k - 1) \in Seq(Fill)
    BY <1>1
  <2>2. e[k] \in Fill
    BY <1>1
  <2>3. \A a, b \in Seq(Fill), x \in Fill : a \o Append(b, x) = Append(a \o b, x)
    OBVIOUS
  <2> QED
    BY <1>1, <2>1, <2>2, <2>3
<1> HIDE DEF n, Upto
<1> DEFINE Odd == {k \in 0 .. n : ~Accounts(p[k], Upto(k))}
<1>6. Odd = {}
  <2> SUFFICES ASSUME Odd # {} PROVE FALSE
    OBVIOUS
  <2>1. PICK m \in Odd : \A k \in Odd : m <= k
    <3>1. Odd \in SUBSET Nat
      BY <1>1
    <3> QED
      BY <3>1, LeastExists
  <2>2. m # 0
    BY <1>3, <1>4, <2>1
  <2>3. m \in 1 .. n /\ m - 1 \in 0 .. n /\ m - 1 \notin Odd
    BY <1>1, <2>1, <2>2
  <2> QED
    BY <1>3, <1>5, <2>1, <2>3, BookFillAccounts
<1>7. Accounts(p[n], Upto(n))
  BY <1>1, <1>6
<1> QED
  BY <1>2, <1>4, <1>7

\* The exchange x holds a book and counts what it executed.
InOrder(x) == IsExchange(x) /\ x.truth \in Book /\ Accounts(x.stats, x.tape)

\* A submission executed.
LEMMA ExecutedInOrder ==
  ASSUME NEW x, InOrder(x), NEW r, r.book \in Book, r.fills \in Seq(Fill)
  PROVE  InOrder(Executed(x, r))
<1> DEFINE y == Executed(x, r)
<1>1. /\ y.truth = r.book /\ y.tape = x.tape \o r.fills
      /\ y.stats = BookFills(x.stats, r.fills) /\ IsExchange(y)
  BY DEF Executed, IsExchange
<1> HIDE DEF y
<1>2. Accounts(y.stats, y.tape)
  BY <1>1, BookFillsAccount DEF InOrder
<1> QED
  BY <1>1, <1>2 DEF InOrder, y

\* Other counters of messages.
LEMMA MessagesCounted ==
  ASSUME NEW s, NEW t, Accounts(s, t), NEW n \in Int
  PROVE  /\ Accounts([s EXCEPT !.sent = n], t) /\ Accounts([s EXCEPT !.applied = n], t)
         /\ Accounts([s EXCEPT !.lateCancels = n], t)
<1> DEFINE k == [s EXCEPT !.sent = n]
           l == [s EXCEPT !.applied = n]
           m == [s EXCEPT !.lateCancels = n]
<1>1. s \in Counters
  BY DEF Accounts
<1>2. /\ k \in Counters /\ k.passive = s.passive /\ k.aggressive = s.aggressive
      /\ k.inventory = s.inventory /\ k.cash = s.cash
  BY <1>1 DEF Counters
<1>3. /\ l \in Counters /\ l.passive = s.passive /\ l.aggressive = s.aggressive
      /\ l.inventory = s.inventory /\ l.cash = s.cash
  BY <1>1 DEF Counters
<1>4. /\ m \in Counters /\ m.passive = s.passive /\ m.aggressive = s.aggressive
      /\ m.inventory = s.inventory /\ m.cash = s.cash
  BY <1>1 DEF Counters
<1> HIDE DEF k, l, m
<1>5. Accounts(k, t) /\ Accounts(l, t) /\ Accounts(m, t)
  BY <1>2, <1>3, <1>4, Zenon DEF Accounts
<1> QED
  BY <1>5 DEF k, l, m

\* One message applied.
LEMMA MessageInOrder ==
  ASSUME NEW x, InOrder(x), NEW a \in AgentMessage
  PROVE  InOrder(ApplyAction(x, a))
<1> DEFINE r == ResultOf(x.truth, a)
<1>1. a.type \in MessageTypes /\ a.id \in Int /\ a.side \in Sides /\ a.price \in Int /\ a.qty \in Int
  BY DEF AgentMessage
<1>2. r.book \in Book /\ r.fills \in Seq(Fill)
  <2>1. PICK mine \in BOOLEAN : mine = TRUE
    OBVIOUS
  <2>2. x.truth \in Book
    BY DEF InOrder
  <2>3. CASE a.type = "Limit"
    <3>1. r = SubmitLimit(x.truth, Rule, a.id, a.side, a.price, a.qty, mine)
      BY <2>1, <2>3, Zenon DEF ResultOf
    <3> HIDE DEF r
    <3> QED
      BY <1>1, <2>2, <3>1, SubmissionsAreTyped
  <2>4. CASE a.type = "Market"
    <3>1. r = SubmitMarket(x.truth, Rule, a.id, a.side, a.qty, mine)
      BY <2>1, <2>4 DEF ResultOf
    <3> HIDE DEF r
    <3> QED
      BY <1>1, <2>2, <3>1, SubmissionsAreTyped
  <2>5. CASE a.type = "Cancel"
    <3>1. r = Submitted(Remove(x.truth, a.id).book, <<>>, 0, 0, Remove(x.truth, a.id).err)
      BY <2>5 DEF ResultOf
    <3>2. r.book = Remove(x.truth, a.id).book /\ r.fills = <<>>
      BY <3>1 DEF Submitted
    <3> HIDE DEF r
    <3> QED
      BY <2>2, <3>2, RemoveKeepsBook
  <2> QED
    BY <1>1, <2>3, <2>4, <2>5 DEF MessageTypes
<1> DEFINE n == x.stats.applied + 1
           s == [x.stats EXCEPT !.applied = n]
           y == [x EXCEPT !.stats = s]
           l == IF a.type = "Cancel" /\ r.error # "Ok" THEN s.lateCancels + 1 ELSE s.lateCancels
           u == [s EXCEPT !.lateCancels = l]
           z == [y EXCEPT !.stats = u]
<1>3. Accounts(s, x.tape)
  <2>1. n \in Int
    BY DEF InOrder, Accounts, Counters
  <2> HIDE DEF n
  <2> QED
    BY <2>1, MessagesCounted DEF InOrder
<1> HIDE DEF s, r
<1>4. Accounts(u, x.tape)
  <2>1. l \in Int
    <3>1. s.lateCancels \in Int
      BY <1>3 DEF Accounts, Counters
    <3> QED
      BY <3>1
  <2> HIDE DEF l
  <2> QED
    BY <1>3, <2>1, MessagesCounted
<1> HIDE DEF u
<1>5. IsExchange(y) /\ y.stats = s /\ y.truth = x.truth /\ y.tape = x.tape
  BY CountersReplaced DEF InOrder
<1> HIDE DEF y
<1>6. IsExchange(z) /\ z.stats = u /\ z.truth = x.truth /\ z.tape = x.tape
  BY <1>5, CountersReplaced
<1> HIDE DEF z
<1>7. InOrder(z)
  BY <1>4, <1>6 DEF InOrder
<1>8. ApplyAction(x, a) = Executed(z, r)
  <2>1. ApplyAction(x, a)
          = Executed([x EXCEPT !.stats.applied = @ + 1,
                               !.stats.lateCancels =
                                 IF a.type = "Cancel" /\ r.error # "Ok" THEN @ + 1 ELSE @], r)
    BY Zenon DEF ApplyAction, r
  <2>2. [x EXCEPT !.stats.applied = @ + 1,
                  !.stats.lateCancels =
                    IF a.type = "Cancel" /\ r.error # "Ok" THEN @ + 1 ELSE @]
          = [y EXCEPT !.stats.lateCancels =
                    IF a.type = "Cancel" /\ r.error # "Ok" THEN @ + 1 ELSE @]
    BY Zenon DEF y, s, n
  <2>3. z = [y EXCEPT !.stats.lateCancels =
                    IF a.type = "Cancel" /\ r.error # "Ok" THEN @ + 1 ELSE @]
    BY <1>5, Zenon DEF z, u, l
  <2> QED
    BY <2>1, <2>2, <2>3, Zenon
<1> QED
  BY <1>2, <1>7, <1>8, ExecutedInOrder

-----------------------------------------------------------------------------
(***************************************************************************)
(* The generator draws typed events, and what it remembers is typed.       *)
(***************************************************************************)
\* What is drawn, and the id counter moved on.
LEMMA DrawsAreTyped ==
  ASSUME NEW g \in Generator, NEW e \in Draws(g)
  PROVE  e \in MarketEvent /\ Drew(g, e) \in Generator
<1>a. Window \subseteq Int /\ Qtys \subseteq Int
  BY InputAssumption, WindowAssumption
<1> USE <1>a
<1> DEFINE Typed(x) == x \in MarketEvent
<1>1. /\ g.next \in Int /\ \A sd \in Sides : g.touch[sd] \in Int
      /\ \A l \in g.live : l.id \in Int /\ l.qty \in Int /\ l.price \in Int /\ l.side \in Sides
  BY DEF Generator
<1>2. \A type \in EventTypes, id, new, price, qty \in Int, sd \in Sides :
        Typed(Event(type, id, new, sd, price, qty))
  BY DEF Event, MarketEvent
<1>3. \A sd \in Sides, p \in Window : PriceFor(g, sd, p) \in Int
  <2> SUFFICES ASSUME NEW sd \in Sides, NEW p \in Window PROVE PriceFor(g, sd, p) \in Int
    OBVIOUS
  <2>1. p \in Int /\ g.touch[Opposite(sd)] \in Int
    BY <1>1 DEF Opposite, Sides
  <2> QED
    BY <2>1 DEF PriceFor
<1>4. \A q \in Positive : q \in Int
  BY DEF Positive
<1>5. {"Add", "Delete", "Reduce", "Execute", "Replace", "Aggress"} \subseteq EventTypes
  BY DEF EventTypes
<1> HIDE DEF Typed
<1>6. \A x \in Adds(g) : Typed(x)
  <2> SUFFICES ASSUME NEW x \in Adds(g) PROVE Typed(x)
    OBVIOUS
  <2>1. PICK sd \in Sides, p \in Window, q \in Positive :
          x = Event("Add", g.next, g.next, sd, PriceFor(g, sd, p), q)
    BY DEF Adds
  <2>2. PriceFor(g, sd, p) \in Int
    BY <1>3
  <2> QED
    BY <1>1, <1>2, <1>4, <1>5, <2>1, <2>2
<1>7. \A x \in Deletes(g) : Typed(x)
  BY <1>1, <1>2, <1>5 DEF Deletes
<1>8. \A type \in EventTypes : \A x \in Takes(g, type) : Typed(x)
  <2> SUFFICES ASSUME NEW type \in EventTypes, NEW x \in Takes(g, type) PROVE Typed(x)
    OBVIOUS
  <2>1. PICK l \in g.live :
          \E q \in 1 .. l.qty : x = Event(type, l.id, l.id, l.side, l.price, q)
    BY Zenon DEF Takes
  <2>2. PICK q \in 1 .. l.qty : x = Event(type, l.id, l.id, l.side, l.price, q)
    BY <2>1
  <2>3. q \in Int
    BY <1>1
  <2> QED
    BY <1>1, <1>2, <2>2, <2>3
<1>9. \A x \in Replaces(g) : Typed(x)
  <2> SUFFICES ASSUME NEW x \in Replaces(g) PROVE Typed(x)
    OBVIOUS
  <2>1. PICK l \in g.live, p \in Window, q \in Positive :
          x = Event("Replace", l.id, g.next, l.side, PriceFor(g, l.side, p), q)
    BY DEF Replaces
  <2>2. PriceFor(g, l.side, p) \in Int
    BY <1>1, <1>3
  <2> QED
    BY <1>1, <1>2, <1>4, <1>5, <2>1, <2>2
<1>10. \A x \in Aggresses(g) : Typed(x)
  <2> SUFFICES ASSUME NEW x \in Aggresses(g) PROVE Typed(x)
    OBVIOUS
  <2> DEFINE S == {Event("Aggress", g.next, g.next, sd, 0, q) : sd \in Sides, q \in Positive}
  <2>1. x \in S
    <3>1. Aggresses(g) = IF g.live = {} THEN {} ELSE S
      BY DEF Aggresses
    <3> HIDE DEF S
    <3> QED
      BY <3>1
  <2>2. PICK sd \in Sides, q \in Positive : x = Event("Aggress", g.next, g.next, sd, 0, q)
    BY <2>1
  <2> QED
    BY <1>1, <1>2, <1>4, <1>5, <2>2
<1>11. Typed(e)
  BY <1>5, <1>6, <1>7, <1>8, <1>9, <1>10 DEF Draws
<1>12. Drew(g, e) \in Generator
  BY <1>1 DEF Drew, Generator
<1> QED
  BY <1>11, <1>12 DEF Typed

\* What the generator remembers after an event it was told of.
LEMMA GeneratorKeepsType ==
  ASSUME NEW g \in Generator, NEW b \in Book, NEW e \in MarketEvent, NEW fills
  PROVE  Observe(OnApplied(ForgetUsedUp(g, b, fills), e, QtyOf(b, e.id)), b) \in Generator
<1> DEFINE Orders == [id : Int, qty : Int, price : Int, side : Sides]
<1>1. ASSUME NEW h \in Generator, NEW live \in SUBSET Orders
      PROVE  [h EXCEPT !.live = live] \in Generator
  BY DEF Generator
<1>2. \A h \in Generator : h.live \in SUBSET Orders
  BY DEF Generator
<1>3. ForgetUsedUp(g, b, fills) \in Generator
  <2> DEFINE usedUp == {id \in {fills[i].resting : i \in DOMAIN fills} : QtyOf(b, id) = 0}
             live == {l \in g.live : l.id \notin usedUp}
  <2>1. live \in SUBSET Orders
    BY <1>2
  <2>2. ForgetUsedUp(g, b, fills) = [g EXCEPT !.live = live]
    BY Zenon DEF ForgetUsedUp
  <2> HIDE DEF live
  <2> QED
    BY <1>1, <2>1, <2>2
<1>4. ASSUME NEW h \in Generator, NEW id PROVE Forget(h, id) \in Generator
  <2> DEFINE live == {l \in h.live : l.id # id}
  <2>1. live \in SUBSET Orders
    BY <1>2
  <2>2. Forget(h, id) = [h EXCEPT !.live = live]
    BY Zenon DEF Forget
  <2> HIDE DEF live
  <2> QED
    BY <1>1, <2>1, <2>2
<1>5. ASSUME NEW h \in Generator, NEW l \in Orders PROVE Remember(h, l) \in Generator
  <2> DEFINE live == h.live \cup {l}
  <2>1. live \in SUBSET Orders
    BY <1>2
  <2>2. Remember(h, l) = [h EXCEPT !.live = live]
    BY Zenon DEF Remember
  <2> HIDE DEF live
  <2> QED
    BY <1>1, <2>1, <2>2
<1>6. ASSUME NEW h \in Generator, NEW n \in Int
      PROVE  OnApplied(h, e, n) \in Generator
  <2> DEFINE l == [id |-> e.id, qty |-> e.qty, price |-> e.price, side |-> e.side]
             m == [id |-> e.new, qty |-> e.qty, price |-> e.price, side |-> e.side]
             less == {IF o.id = e.id THEN [o EXCEPT !.qty = n] ELSE o : o \in h.live}
  <2>1. l \in Orders /\ m \in Orders /\ e.type \in EventTypes
    BY DEF MarketEvent
  <2>2. less \in SUBSET Orders
    <3>1. \A o \in Orders : [o EXCEPT !.qty = n] \in Orders
      OBVIOUS
    <3> HIDE DEF Orders
    <3> QED
      BY <1>2, <3>1
  <2>3. {} \in SUBSET Orders
    OBVIOUS
  <2> DEFINE all == {h, Remember(h, l), Forget(h, e.id), [h EXCEPT !.live = less],
                     Remember(Forget(h, e.id), m), [h EXCEPT !.live = {}]}
  <2>4. OnApplied(h, e, n) \in all
    BY <2>1, Zenon DEF OnApplied, EventTypes
  <2>5. /\ Remember(h, l) \in Generator /\ Forget(h, e.id) \in Generator
        /\ [h EXCEPT !.live = less] \in Generator
        /\ Remember(Forget(h, e.id), m) \in Generator /\ [h EXCEPT !.live = {}] \in Generator
    <3> HIDE DEF l, m, less, Orders
    <3> QED
      BY <1>1, <1>4, <1>5, <2>1, <2>2, <2>3
  <2> HIDE DEF l, m, less, Orders
  <2> QED
    BY <2>4, <2>5
<1>7. \A h \in Generator : Observe(h, b) \in Generator
  <2>1. [sd \in Sides |-> Best(b, sd)] \in [Sides -> Int]
    BY BestIsAPrice
  <2> QED
    BY <2>1 DEF Observe, Generator
<1> QED
  BY <1>3, <1>6, <1>7, QtyOfIsANumber

-----------------------------------------------------------------------------
(***************************************************************************)
(* The inductive invariant of booking: everything that numbers come from   *)
(* is typed, and the counters are what the tape makes them.                *)
(***************************************************************************)
EveryoneIsTyped ==
  /\ event \in MarketEvent /\ gen \in Generator /\ inflight \subseteq AgentMessage
  /\ turn \in Int

BooksAgree == InOrder(Exchange)

BookingInv == EveryoneIsTyped /\ BooksAgree

\* The exchange becomes one that is in order.
LEMMA BecomesInOrder ==
  ASSUME NEW x, InOrder(x), ExchangeBecomes(x)
  PROVE  BooksAgree'
BY DEF InOrder, ExchangeBecomes, BooksAgree, Exchange, IsExchange

\* At the start nothing has been executed.
LEMMA BookingInvInit == Init => BookingInv
<1> SUFFICES ASSUME Init PROVE BookingInv
  OBVIOUS
<1> USE InputAssumption DEF Init
<1>1. event \in MarketEvent
  BY DEF Event, MarketEvent, EventTypes, Sides
<1>2. gen \in Generator
  BY DEF NewGenerator, Generator
<1>3. Accounts(NoStats, <<>>)
  <2>1. \A c : Column(c, <<>>) = <<>>
    BY DEF Column
  <2>2. \A c : Total(Column(c, <<>>)) = 0
    BY <2>1, TotalOfMore
  <2>3. NoStats \in Counters /\ <<>> \in Seq(Fill)
    BY DEF NoStats, Counters
  <2>4. NoStats.inventory = 0 /\ NoStats.cash = 0 /\ NoStats.passive + NoStats.aggressive = 0
    BY DEF NoStats
  <2> QED
    BY <2>2, <2>3, <2>4 DEF Accounts
<1>4. InOrder(Exchange)
  BY <1>3, EmptyIsABook, ExchangeStands DEF InOrder, Exchange
<1> QED
  BY <1>1, <1>2, <1>4 DEF BookingInv, EveryoneIsTyped, BooksAgree

\* The exchange handles an event.
LEMMA EventHandledBooks ==
  ASSUME BookingInv, EventHandled
  PROVE  BookingInv'
<1> USE DEF BookingInv
<1> DEFINE r == IF event.type = "Aggress"
                  THEN SubmitMarket(truth, Rule, event.id, event.side, event.qty, FALSE)
                  ELSE Submitted(Apply(truth, event).book, <<>>, 0, 0, "Ok")
           x == Executed(Exchange, r)
<1>1. /\ ExchangeBecomes(x)
      /\ gen' = Observe(OnApplied(ForgetUsedUp(gen, x.truth, r.fills), event,
                                  QtyOf(x.truth, event.id)),
                        x.truth)
  BY Zenon DEF EventHandled, Handle
<1>2. UNCHANGED <<turn, event, inflight>>
  BY DEF EventHandled
<1>3. truth \in Book /\ event \in MarketEvent /\ gen \in Generator
  BY DEF EveryoneIsTyped, BooksAgree, InOrder, Exchange
<1>4. r.book \in Book /\ r.fills \in Seq(Fill)
  <2>1. event.id \in Int /\ event.side \in Sides /\ event.qty \in Int
    BY <1>3 DEF MarketEvent
  <2>2. PICK mine \in BOOLEAN : mine = FALSE
    OBVIOUS
  <2>3. CASE event.type = "Aggress"
    <3>1. r = SubmitMarket(truth, Rule, event.id, event.side, event.qty, mine)
      BY <2>2, <2>3, Zenon
    <3> HIDE DEF r
    <3> QED
      BY <1>3, <2>1, <3>1, SubmissionsAreTyped
  <2>4. CASE event.type # "Aggress"
    <3>1. r.book = Apply(truth, event).book /\ r.fills = <<>>
      BY <2>4 DEF Submitted
    <3> HIDE DEF r
    <3> QED
      BY <1>3, <3>1, ApplyKeepsBook
  <2> QED
    BY <2>3, <2>4
<1> HIDE DEF r
<1>5. InOrder(x)
  BY <1>4, ExecutedInOrder DEF BooksAgree
<1>6. BooksAgree'
  <2> HIDE DEF x
  <2> QED
    BY <1>1, <1>5, BecomesInOrder
<1>7. gen' \in Generator
  <2>1. x.truth \in Book
    BY <1>5 DEF InOrder
  <2> HIDE DEF x
  <2> QED
    BY <1>1, <1>3, <2>1, GeneratorKeepsType
<1> QED
  BY <1>2, <1>6, <1>7 DEF EveryoneIsTyped

\* The agent sends a message, which is applied at once or put in flight.
LEMMA SendBooks ==
  ASSUME BookingInv, NEW a \in AgentMessage, Send(a)
  PROVE  BookingInv'
<1> USE DEF BookingInv
<1> DEFINE n == stats.sent + Len(<<a>>)
           d == [stats EXCEPT !.sent = n]
           x == [Exchange EXCEPT !.stats = d]
<1>1. UNCHANGED <<turn, event, gen>>
  BY DEF Send
<1>2. Accounts(d, tape)
  <2>1. Accounts(stats, tape)
    BY DEF BooksAgree, InOrder, Exchange
  <2>2. n \in Int
    BY <2>1 DEF Accounts, Counters
  <2> HIDE DEF n
  <2> QED
    BY <2>1, <2>2, MessagesCounted
<1>3. InOrder(x)
  <2> HIDE DEF d
  <2>1. /\ IsExchange(x) /\ x.stats = d /\ x.truth = Exchange.truth /\ x.tape = Exchange.tape
    BY CountersReplaced, ExchangeStands
  <2> HIDE DEF x
  <2> QED
    BY <1>2, <2>1, ExchangeStands DEF BooksAgree, InOrder
<1>4. IF config.latency
        THEN ExchangeBecomes(x) /\ inflight' = inflight \cup SX!ToSet(<<a>>)
        ELSE /\ ExchangeBecomes(SX!FoldLeft(ApplyAction, x, <<a>>))
             /\ UNCHANGED inflight
  <2>1. [Exchange EXCEPT !.stats.sent = @ + Len(<<a>>)] = x
    BY ExchangeStands
  <2>2. \E y \in {[Exchange EXCEPT !.stats.sent = @ + Len(<<a>>)]} :
          IF config.latency
            THEN ExchangeBecomes(y) /\ inflight' = inflight \cup SX!ToSet(<<a>>)
            ELSE /\ \E z \in {SX!FoldLeft(ApplyAction, y, <<a>>)} : ExchangeBecomes(z)
                 /\ UNCHANGED inflight
    BY Zenon DEF Send, QueueActions
  <2> HIDE DEF x
  <2> QED
    BY <2>1, <2>2, Zenon
<1> HIDE DEF x
<1>5. CASE config.latency
  <2>1. inflight' \subseteq AgentMessage
    BY <1>4, <1>5 DEF SX!ToSet, EveryoneIsTyped
  <2> QED
    BY <1>1, <1>3, <1>4, <1>5, <2>1, BecomesInOrder DEF EveryoneIsTyped
<1>6. CASE ~config.latency
  <2>1. ExchangeBecomes(ApplyAction(x, a)) /\ UNCHANGED inflight
    BY <1>4, <1>6, FoldOfOne
  <2>2. BooksAgree'
    BY <1>3, <2>1, MessageInOrder, BecomesInOrder
  <2> QED
    BY <1>1, <2>1, <2>2 DEF EveryoneIsTyped
<1> QED
  BY <1>5, <1>6

\* Every step keeps the invariant.
LEMMA BookingInvNext == BookingInv /\ [Next]_vars => BookingInv'
<1> SUFFICES ASSUME BookingInv, [Next]_vars PROVE BookingInv'
  OBVIOUS
<1> USE InputAssumption, OwnIdsAssumption, WindowAssumption
<1>1. ASSUME UNCHANGED <<truth, log, tape, stats, event, gen, inflight>>, turn' \in Int
      PROVE  BookingInv'
  BY <1>1 DEF BookingInv, EveryoneIsTyped, BooksAgree, Exchange
<1>2. turn \in Int
  BY DEF BookingInv, EveryoneIsTyped
<1>3. CASE Draw
  <2>1. PICK e \in Draws(gen) : event' = e /\ gen' = Drew(gen, e)
    BY <1>3 DEF Draw
  <2>2. event' \in MarketEvent /\ gen' \in Generator
    BY <2>1, DrawsAreTyped DEF BookingInv, EveryoneIsTyped
  <2>3. UNCHANGED <<turn, inflight, truth, tape, stats>>
    BY <1>3 DEF Draw
  <2>4. BooksAgree'
    BY <2>3 DEF BookingInv, BooksAgree, InOrder, Exchange, IsExchange
  <2> QED
    BY <2>2, <2>3, <2>4 DEF BookingInv, EveryoneIsTyped
<1>4. CASE OrderLands
  <2>1. PICK a \in inflight : /\ inflight' = inflight \ {a}
                             /\ ExchangeBecomes(ApplyAction(Exchange, a))
    BY <1>4 DEF OrderLands
  <2>2. UNCHANGED <<turn, event, gen>>
    BY <1>4 DEF OrderLands
  <2>3. BooksAgree'
    BY <2>1, MessageInOrder, BecomesInOrder DEF BookingInv, BooksAgree, EveryoneIsTyped
  <2> QED
    BY <2>1, <2>2, <2>3 DEF BookingInv, EveryoneIsTyped
<1>5. CASE OrdersDone
  BY <1>1, <1>2, <1>5 DEF OrdersDone
<1>6. CASE FeedArrives
  BY <1>1, <1>2, <1>6 DEF FeedArrives
<1>7. CASE FeedDone
  BY <1>1, <1>2, <1>7 DEF FeedDone
<1>8. CASE EventHandled
  BY <1>8, EventHandledBooks
<1>9. CASE Publish
  BY <1>1, <1>2, <1>9 DEF Publish
<1>10. CASE LoopDone
  BY <1>1, <1>2, <1>10 DEF LoopDone
<1>11. CASE RunDone
  BY <1>1, <1>2, <1>11 DEF RunDone
<1>12. CASE NoteFillsRead
  BY <1>1, <1>2, <1>12 DEF NoteFillsRead
<1>13. CASE AgentDone
  BY <1>1, <1>2, <1>13 DEF AgentDone
<1>14. \A type \in MessageTypes, id \in OwnIds, sd \in Sides, price, qty \in Int :
         Message(type, id, sd, price, qty) \in AgentMessage
  BY <1>2 DEF Message, AgentMessage
<1>15. ASSUME NEW id \in OwnIds, NEW sd \in Sides, NEW price \in Window, NEW qty \in Positive,
              SendLimit(id, sd, price, qty)
       PROVE  BookingInv'
  <2>1. Message("Limit", id, sd, price, qty) \in AgentMessage
    BY <1>14 DEF MessageTypes, Positive
  <2> QED
    BY <1>15, <2>1, SendBooks DEF SendLimit
<1>16. ASSUME NEW id \in OwnIds, NEW sd \in Sides, NEW qty \in Positive, SendMarket(id, sd, qty)
       PROVE  BookingInv'
  <2>1. Message("Market", id, sd, 0, qty) \in AgentMessage
    BY <1>14 DEF MessageTypes, Positive
  <2> QED
    BY <1>16, <2>1, SendBooks DEF SendMarket
<1>17. ASSUME NEW id \in OwnIds, SendCancel(id) PROVE BookingInv'
  <2>1. Message("Cancel", id, "Bid", 0, 0) \in AgentMessage
    BY <1>14 DEF MessageTypes, Sides
  <2> QED
    BY <1>17, <2>1, SendBooks DEF SendCancel
<1>18. CASE UNCHANGED vars
  BY <1>1, <1>2, <1>18 DEF vars
<1> QED
  BY <1>3, <1>4, <1>5, <1>6, <1>7, <1>8, <1>9, <1>10, <1>11, <1>12, <1>13, <1>15, <1>16, <1>17,
     <1>18 DEF Next, World

\* Position, cash and fill counts are those of the run's fills, each booked
\* once.
THEOREM BookingIsExact == Spec => []FillsAreBookedOnce
<1>1. BookingInv => FillsAreBookedOnce
  <2> SUFFICES ASSUME BookingInv PROVE FillsAreBookedOnce
    OBVIOUS
  <2>1. Accounts(stats, tape)
    BY DEF BookingInv, BooksAgree, InOrder, Exchange
  <2>2. /\ SumTape(WeBought, QtyIn) = Total(Column("bought", tape))
        /\ SumTape(WeSold, QtyIn) = Total(Column("sold", tape))
        /\ SumTape(WeSold, LAMBDA t : t.qty * t.price) = Total(Column("earned", tape))
        /\ SumTape(WeBought, LAMBDA t : t.qty * t.price) = Total(Column("paid", tape))
        /\ SumTape(IsOurs, QtyIn) = Total(Column("ours", tape))
    BY DEF SumTape, Column, Share
  <2> QED
    BY <2>1, <2>2 DEF FillsAreBookedOnce, Accounts
<1>2. Spec => []BookingInv
  BY BookingInvInit, BookingInvNext, PTL DEF Spec
<1> QED
  BY <1>1, <1>2, PTL

-----------------------------------------------------------------------------
(***************************************************************************)
(* Theorems about Driver, for any configurations, strategies' sizes and    *)
(* limits: whatever fills it has still to read and whatever messages are   *)
(* under way, the driver gives up on no order of its own, and counts no    *)
(* less left of one than rests.                                            *)
(*                                                                         *)
(* The invariant counts the driver's quotes down by the fills it has not   *)
(* read yet: what is then left covers what rests.  Every step of the       *)
(* exchange that fills an order of ours logs the fill, so both sides fall  *)
(* together.                                                               *)
(***************************************************************************)
-----------------------------------------------------------------------------
(***************************************************************************)
(* Books in which an order rests once, and what the operations do to the   *)
(* quantities in them.                                                     *)
(***************************************************************************)
\* There is a k-th order at that price and side.
Spot(b, sd, p, k) == sd \in Sides /\ p \in Prices /\ k \in 1 .. Len(b[sd][p])

Once(b) ==
  \A sd, s, p, r, k, l :
    Spot(b, sd, p, k) /\ Spot(b, s, r, l) /\ b[sd][p][k].id = b[s][r][l].id
    => sd = s /\ p = r /\ k = l

Sound(b) == b \in Book /\ Once(b)

\* What is in c is in b, and no smaller there, but for the orders X.
Lowers(b, c, X) ==
  \A i : i \notin X /\ Known(c, i) => Known(b, i) /\ QtyOf(c, i) <= QtyOf(b, i)

\* An order found at a spot is known, and that is where it is.
LEMMA OrderAtSpot ==
  ASSUME NEW b, Sound(b), NEW sd, NEW p, NEW k, Spot(b, sd, p, k)
  PROVE  LET i == b[sd][p][k].id
         IN /\ Known(b, i) /\ Where(b, i) = <<sd, p>> /\ Place(b, i) = k
            /\ QtyOf(b, i) = b[sd][p][k].qty
<1> DEFINE i == b[sd][p][k].id
<1>1. sd \in Sides /\ p \in Prices /\ k \in 1 .. Len(b[sd][p]) /\ b \in Book
  BY DEF Spot, Sound
<1>2. DOMAIN b[sd][p] = 1 .. Len(b[sd][p])
  BY <1>1 DEF Book
<1>3. Known(b, i)
  BY <1>1, <1>2 DEF Known, IsAt, IdsIn
<1> HIDE DEF i
<1> DEFINE s == Where(b, i)[1]
           r == Where(b, i)[2]
           l == Place(b, i)
<1>4. s \in Sides /\ r \in Prices /\ l \in 1 .. Len(Queue(b, i)) /\ EntryOf(b, i) \in RestingOrder
  BY <1>1, <1>3, OrderFound
<1>5. Spot(b, s, r, l)
  BY <1>4 DEF Spot, Queue
<1>6. b[s][r][l].id = i /\ Where(b, i) \in Sides \X Prices
  <2>1. \E w \in Sides \X Prices : IsAt(b, i, w[1], w[2])
    <3>1. PICK x \in Sides, y \in Prices : IsAt(b, i, x, y)
      BY <1>3 DEF Known
    <3>2. <<x, y>> \in Sides \X Prices /\ IsAt(b, i, <<x, y>>[1], <<x, y>>[2])
      BY <3>1
    <3> QED
      BY <3>2
  <2>2. IsAt(b, i, s, r) /\ Where(b, i) \in Sides \X Prices
    BY <2>1, Zenon DEF Where
  <2>3. \E j \in DOMAIN Queue(b, i) : Queue(b, i)[j].id = i
    BY <2>2, Zenon DEF IsAt, IdsIn, Queue
  <2>4. Queue(b, i)[l].id = i
    BY <2>3, Zenon DEF Place
  <2> QED
    BY <2>2, <2>4 DEF Queue
<1>7. s = sd /\ r = p /\ l = k
  <2>1. b[sd][p][k].id = b[s][r][l].id
    BY <1>6 DEF i
  <2> HIDE DEF s, r, l
  <2> QED
    BY <1>5, <2>1 DEF Sound, Once
<1>8. Where(b, i) = <<sd, p>>
  BY <1>6, <1>7
<1>9. QtyOf(b, i) = b[sd][p][k].qty
  BY <1>3, <1>7 DEF QtyOf, EntryOf, Queue
<1> QED
  BY <1>3, <1>7, <1>8, <1>9 DEF i

\* A known order is at a spot.
LEMMA SpotOfOrder ==
  ASSUME NEW b, b \in Book, NEW i, Known(b, i)
  PROVE  LET sd == Where(b, i)[1]
             p == Where(b, i)[2]
             k == Place(b, i)
         IN /\ Spot(b, sd, p, k) /\ b[sd][p][k].id = i /\ QtyOf(b, i) = b[sd][p][k].qty
            /\ QtyOf(b, i) \in Positives
<1> DEFINE sd == Where(b, i)[1]
           p == Where(b, i)[2]
           k == Place(b, i)
<1>1. /\ sd \in Sides /\ p \in Prices /\ k \in 1 .. Len(Queue(b, i))
      /\ EntryOf(b, i) \in RestingOrder
  BY OrderFound
<1>2. b[sd][p][k].id = i
  <2>1. \E w \in Sides \X Prices : IsAt(b, i, w[1], w[2])
    <3>1. PICK x \in Sides, y \in Prices : IsAt(b, i, x, y)
      BY DEF Known
    <3>2. <<x, y>> \in Sides \X Prices /\ IsAt(b, i, <<x, y>>[1], <<x, y>>[2])
      BY <3>1
    <3> QED
      BY <3>2
  <2>2. IsAt(b, i, sd, p)
    BY <2>1, Zenon DEF Where
  <2>3. \E j \in DOMAIN Queue(b, i) : Queue(b, i)[j].id = i
    BY <2>2, Zenon DEF IsAt, IdsIn, Queue
  <2>4. Queue(b, i)[k].id = i
    BY <2>3, Zenon DEF Place
  <2> QED
    BY <2>4 DEF Queue
<1>3. QtyOf(b, i) = b[sd][p][k].qty /\ QtyOf(b, i) \in Positives
  BY <1>1 DEF QtyOf, EntryOf, Queue, RestingOrder
<1> QED
  BY <1>1, <1>2, <1>3 DEF Spot, Queue

\* A queue of the book is changed: what is at place k comes from place h[k].
ComesFrom(q, o, h) ==
  /\ \A k \in 1 .. Len(q) : /\ h[k] \in 1 .. Len(o)
                            /\ q[k].id = o[h[k]].id /\ q[k].qty <= o[h[k]].qty
  /\ \A k, l \in 1 .. Len(q) : h[k] = h[l] => k = l

IsChanged(b, c, sd, p, q, h) ==
  /\ sd \in Sides /\ p \in Prices /\ q \in Seq(RestingOrder)
  /\ c = [b EXCEPT ![sd][p] = q] /\ ComesFrom(q, b[sd][p], h)

LEMMA QueueChanged ==
  ASSUME NEW b, Sound(b), NEW c, NEW sd, NEW p, NEW q, NEW h, IsChanged(b, c, sd, p, q, h)
  PROVE  /\ Sound(c) /\ Lowers(b, c, {})
         /\ \A i : Known(c, i) /\ Where(b, i) = <<sd, p>> =>
              \E k \in 1 .. Len(q) : h[k] = Place(b, i) /\ q[k].id = i /\ QtyOf(c, i) = q[k].qty
<1> DEFINE G(s, r, k) == IF s = sd /\ r = p THEN h[k] ELSE k
<1>a. /\ sd \in Sides /\ p \in Prices /\ q \in Seq(RestingOrder)
      /\ c = [b EXCEPT ![sd][p] = q] /\ ComesFrom(q, b[sd][p], h)
  BY DEF IsChanged
<1>1. c \in Book /\ b \in Book
  BY <1>a, QueueReplaced DEF Sound
<1>2. \A s \in Sides, r \in Prices : c[s][r] = IF s = sd /\ r = p THEN q ELSE b[s][r]
  BY <1>1, <1>a DEF Book
<1>3. \A s \in Sides, r \in Prices : b[s][r] \in Seq(RestingOrder)
  BY <1>1 DEF Book
<1>4. ASSUME NEW s, NEW r, NEW k, Spot(c, s, r, k)
      PROVE  /\ Spot(b, s, r, G(s, r, k)) /\ c[s][r][k].id = b[s][r][G(s, r, k)].id
             /\ c[s][r][k].qty <= b[s][r][G(s, r, k)].qty
  <2>1. s \in Sides /\ r \in Prices /\ k \in 1 .. Len(c[s][r])
    BY <1>4 DEF Spot
  <2>2. CASE s = sd /\ r = p
    <3>1. c[s][r] = q /\ G(s, r, k) = h[k] /\ b[s][r] = b[sd][p]
      BY <1>2, <2>1, <2>2
    <3>2. k \in 1 .. Len(q)
      BY <2>1, <3>1
    <3>3. /\ h[k] \in 1 .. Len(b[sd][p]) /\ q[k].id = b[sd][p][h[k]].id
          /\ q[k].qty <= b[sd][p][h[k]].qty
      BY <1>a, <3>2 DEF ComesFrom
    <3> DEFINE g == G(s, r, k)
    <3>4. g = h[k]
      BY <3>1
    <3>6. c[s][r] = q /\ b[s][r] = b[sd][p]
      BY <3>1
    <3> HIDE DEF g
    <3>5. /\ Spot(b, s, r, g) /\ c[s][r][k].id = b[s][r][g].id
          /\ c[s][r][k].qty <= b[s][r][g].qty
      BY ONLY <2>1, <3>3, <3>4, <3>6 DEF Spot
    <3> QED
      BY <3>5 DEF g
  <2>3. CASE ~(s = sd /\ r = p)
    <3>1. c[s][r] = b[s][r] /\ b[s][r] \in Seq(RestingOrder) /\ G(s, r, k) = k
      BY <1>2, <1>3, <2>1, <2>3
    <3>2. b[s][r][k] \in RestingOrder
      BY <2>1, <3>1
    <3>3. b[s][r][k].qty \in Int
      BY <3>2 DEF RestingOrder, Positives
    <3>4. Spot(b, s, r, k)
      BY <2>1, <3>1 DEF Spot
    <3> QED
      BY <3>1, <3>3, <3>4
  <2> QED
    BY <2>2, <2>3
<1>5. ASSUME NEW s, NEW r, NEW k, NEW l, Spot(c, s, r, k), Spot(c, s, r, l),
             G(s, r, k) = G(s, r, l)
      PROVE  k = l
  BY <1>a, <1>2, <1>5 DEF Spot, ComesFrom
<1> HIDE DEF G
<1>6. Once(c)
  <2> SUFFICES ASSUME NEW s, NEW r, NEW k, NEW s2, NEW r2, NEW l, Spot(c, s, r, k), Spot(c, s2, r2, l),
                      c[s][r][k].id = c[s2][r2][l].id
               PROVE  s = s2 /\ r = r2 /\ k = l
    BY Zenon DEF Once
  <2>1. s = s2 /\ r = r2 /\ G(s, r, k) = G(s2, r2, l)
    BY <1>4 DEF Sound, Once
  <2> QED
    BY <1>5, <2>1
<1>7. ASSUME NEW i, Known(c, i)
      PROVE  /\ Known(b, i) /\ QtyOf(c, i) <= QtyOf(b, i)
             /\ Where(b, i) = <<sd, p>> =>
                 \E k \in 1 .. Len(q) : h[k] = Place(b, i) /\ q[k].id = i /\ QtyOf(c, i) = q[k].qty
  <2> DEFINE s == Where(c, i)[1]
             r == Where(c, i)[2]
             k == Place(c, i)
             g == G(s, r, k)
  <2>1. Spot(c, s, r, k) /\ c[s][r][k].id = i /\ QtyOf(c, i) = c[s][r][k].qty
    BY <1>1, <1>7, SpotOfOrder
  <2> HIDE DEF s, r, k
  <2>2. Spot(b, s, r, g) /\ b[s][r][g].id = i /\ QtyOf(c, i) <= b[s][r][g].qty
    BY <1>4, <2>1
  <2> HIDE DEF g
  <2>3. Known(b, i) /\ Where(b, i) = <<s, r>> /\ Place(b, i) = g /\ QtyOf(b, i) = b[s][r][g].qty
    BY <2>2, OrderAtSpot
  <2>4. ASSUME Where(b, i) = <<sd, p>>
        PROVE  \E m \in 1 .. Len(q) : h[m] = Place(b, i) /\ q[m].id = i /\ QtyOf(c, i) = q[m].qty
    <3>1. s = sd /\ r = p
      BY <2>3, <2>4
    <3>2. c[s][r] = q /\ g = h[k]
      BY <1>a, <1>2, <3>1 DEF g, G
    <3>3. k \in 1 .. Len(q)
      BY <2>1, <3>2 DEF Spot
    <3> QED
      BY <2>1, <2>3, <3>2, <3>3
  <2> QED
    BY <2>2, <2>3, <2>4
<1>8. Sound(c) /\ Lowers(b, c, {})
  BY <1>1, <1>6, <1>7 DEF Sound, Lowers
<1> QED
  BY <1>7, <1>8

\* Nothing changes.
LEMMA SameLowers ==
  ASSUME NEW b, b \in Book, NEW X
  PROVE  Lowers(b, b, X)
BY QtyOfIsANumber DEF Lowers

\* One change after another.
LEMMA LowersJoin ==
  ASSUME NEW b, NEW c, NEW d, NEW X, b \in Book, c \in Book, d \in Book,
         Lowers(b, c, X), Lowers(c, d, X)
  PROVE  Lowers(b, d, X)
<1> SUFFICES ASSUME NEW i, i \notin X, Known(d, i)
             PROVE  Known(b, i) /\ QtyOf(d, i) <= QtyOf(b, i)
  BY DEF Lowers
<1>1. Known(c, i) /\ QtyOf(d, i) <= QtyOf(c, i)
  BY DEF Lowers
<1>2. Known(b, i) /\ QtyOf(c, i) <= QtyOf(b, i)
  BY <1>1 DEF Lowers
<1>3. QtyOf(b, i) \in Int /\ QtyOf(c, i) \in Int /\ QtyOf(d, i) \in Int
  BY QtyOfIsANumber
<1> QED
  BY <1>1, <1>2, <1>3

\* What removing from a sequence leaves.
LEMMA SequenceShortened ==
  ASSUME NEW S, NEW o \in Seq(S), NEW n \in 1 .. Len(o)
  PROVE  LET q == SX!RemoveAt(o, n)
         IN /\ q \in Seq(S) /\ Len(q) = Len(o) - 1
            /\ \A k \in 1 .. Len(o) - 1 : q[k] = IF k < n THEN o[k] ELSE o[k + 1]
<1> DEFINE u == SubSeq(o, 1, n - 1)
           v == SubSeq(o, n + 1, Len(o))
           q == u \o v
<1> DEFINE m == Len(o)
<1>1. m \in Nat /\ n \in 1 .. m /\ n \in Int /\ \A k \in 1 .. m : o[k] \in S
  OBVIOUS
<1> HIDE DEF m
<1>2. u \in Seq(S) /\ Len(u) = n - 1 /\ \A k \in 1 .. n - 1 : u[k] = o[k]
  <2>1. n - 1 \in Int /\ \A k \in 1 .. n - 1 : o[k] \in S
    BY <1>1
  <2>2. /\ u \in Seq(S) /\ Len(u) = IF 1 <= n - 1 THEN n - 1 - 1 + 1 ELSE 0
        /\ \A k \in 1 .. n - 1 - 1 + 1 : u[k] = o[1 + k - 1]
    BY <2>1, SubSeqProperties
  <2> HIDE DEF u
  <2> QED
    BY <1>1, <2>2
<1>3. v \in Seq(S) /\ Len(v) = m - n /\ \A k \in 1 .. m - n : v[k] = o[n + k]
  <2>1. n + 1 \in Int /\ m \in Int /\ \A k \in n + 1 .. m : o[k] \in S
    BY <1>1
  <2>2. /\ v \in Seq(S) /\ Len(v) = IF n + 1 <= m THEN m - (n + 1) + 1 ELSE 0
        /\ \A k \in 1 .. m - (n + 1) + 1 : v[k] = o[n + 1 + k - 1]
    <3>1. v = SubSeq(o, n + 1, m)
      BY DEF m
    <3> HIDE DEF v
    <3> QED
      BY <2>1, <3>1, SubSeqProperties
  <2> HIDE DEF v
  <2> QED
    BY <1>1, <2>2
<1> HIDE DEF u, v
<1>4. /\ q \in Seq(S) /\ Len(q) = Len(u) + Len(v)
      /\ \A k \in 1 .. Len(u) + Len(v) : q[k] = IF k <= Len(u) THEN u[k] ELSE v[k - Len(u)]
  BY <1>2, <1>3, ConcatProperties
<1> HIDE DEF q
<1>5. ASSUME NEW k \in 1 .. m - 1 PROVE q[k] = IF k < n THEN o[k] ELSE o[k + 1]
  <2>1. CASE k < n
    BY <1>1, <1>2, <1>3, <1>4, <2>1
  <2>2. CASE k >= n
    <3>1. k - (n - 1) \in 1 .. m - n /\ n + (k - (n - 1)) = k + 1
      BY <1>1, <2>2
    <3>2. q[k] = v[k - (n - 1)]
      BY <1>1, <1>2, <1>3, <1>4, <2>2
    <3> QED
      BY <1>1, <1>3, <2>2, <3>1, <3>2
  <2> QED
    BY <1>1, <2>1, <2>2
<1>6. Len(q) = m - 1
  BY <1>1, <1>2, <1>3, <1>4
<1> QED
  BY <1>4, <1>5, <1>6 DEF SX!RemoveAt, q, u, v, m

\* An order removed is gone, and the others stay as they are.
LEMMA RemoveLowers ==
  ASSUME NEW b, Sound(b), NEW i
  PROVE  LET c == Remove(b, i).book
         IN Sound(c) /\ Lowers(b, c, {}) /\ ~Known(c, i)
<1> DEFINE c == Remove(b, i).book
           sd == Where(b, i)[1]
           p == Where(b, i)[2]
           n == Place(b, i)
           o == b[sd][p]
           q == SX!RemoveAt(o, n)
           h == [k \in 1 .. Len(q) |-> IF k < n THEN k ELSE k + 1]
<1>1. CASE ~Known(b, i)
  <2>1. c = b /\ b \in Book
    BY <1>1 DEF Remove, Result, Sound
  <2> QED
    BY <1>1, <2>1, SameLowers
<1>2. CASE Known(b, i)
  <2>1. sd \in Sides /\ p \in Prices /\ o \in Seq(RestingOrder) /\ n \in 1 .. Len(o)
    BY <1>2, OrderFound DEF Sound, Queue
  <2>2. Spot(b, sd, p, n) /\ o[n].id = i
    BY <1>2, SpotOfOrder DEF Sound
  <2>3. Where(b, i) = <<sd, p>>
    BY <2>2, OrderAtSpot
  <2>4. c = [b EXCEPT ![sd][p] = q]
    BY <1>2, Zenon DEF Remove, Result, WithQueue, Queue
  <2> HIDE DEF c, sd, p, n, o
  <2>5. /\ q \in Seq(RestingOrder) /\ Len(q) = Len(o) - 1
        /\ \A k \in 1 .. Len(o) - 1 : q[k] = IF k < n THEN o[k] ELSE o[k + 1]
    BY <2>1, SequenceShortened
  <2> HIDE DEF q
  <2>6. /\ \A k \in 1 .. Len(q) : h[k] \in 1 .. Len(o) /\ h[k] # n /\ q[k] = o[h[k]]
        /\ \A k, l \in 1 .. Len(q) : h[k] = h[l] => k = l
    BY <2>1, <2>5
  <2> HIDE DEF h
  <2>7. \A k \in 1 .. Len(o) : o[k].qty \in Int
    <3>1. \A k \in 1 .. Len(o) : o[k] \in RestingOrder
      BY <2>1
    <3> QED
      BY <3>1 DEF RestingOrder, Positives
  <2>8. ComesFrom(q, o, h)
    BY <2>6, <2>7 DEF ComesFrom
  <2>9. /\ Sound(c) /\ Lowers(b, c, {})
        /\ \A j : Known(c, j) /\ Where(b, j) = <<sd, p>> =>
              \E k \in 1 .. Len(q) : h[k] = Place(b, j) /\ q[k].id = j /\ QtyOf(c, j) = q[k].qty
    <3>1. o = b[sd][p]
      BY DEF o
    <3>2. IsChanged(b, c, sd, p, q, h)
      BY <2>1, <2>4, <2>5, <2>8, <3>1 DEF IsChanged
    <3> QED
      BY <3>2, QueueChanged
  <2>10. ~Known(c, i)
    BY <2>3, <2>6, <2>9 DEF n
  <2> QED
    BY <2>9, <2>10 DEF c
<1> QED
  BY <1>1, <1>2

\* An order reduced by no more than it holds holds that much less, if anything.
LEMMA ReduceLowers ==
  ASSUME NEW b, Sound(b), NEW i, NEW by \in Int
  PROVE  LET c == Reduce(b, i, by).book
         IN /\ Sound(c) /\ Lowers(b, c, {})
            /\ Known(c, i) /\ by > 0 /\ by <= QtyOf(b, i) => QtyOf(c, i) <= QtyOf(b, i) - by
<1> DEFINE c == Reduce(b, i, by).book
           sd == Where(b, i)[1]
           p == Where(b, i)[2]
           n == Place(b, i)
           o == b[sd][p]
           q == [o EXCEPT ![n].qty = @ - by]
           h == [k \in 1 .. Len(q) |-> k]
<1>1. CASE ~Known(b, i) \/ by <= 0 \/ by > EntryOf(b, i).qty
  <2>1. c = b /\ b \in Book
    BY <1>1, Zenon DEF Reduce, Result, Sound
  <2>2. Known(b, i) => QtyOf(b, i) = EntryOf(b, i).qty /\ QtyOf(b, i) \in Int
    BY <2>1, QtyOfIsANumber DEF QtyOf
  <2> HIDE DEF c
  <2>3. Sound(c) /\ Lowers(b, c, {})
    BY <2>1, SameLowers
  <2>4. ~(Known(c, i) /\ by > 0 /\ by <= QtyOf(b, i))
    BY <1>1, <2>1, <2>2
  <2> QED
    BY <2>3, <2>4 DEF c
<1>2. CASE Known(b, i) /\ by > 0 /\ by = EntryOf(b, i).qty
  <2>1. c = Remove(b, i).book
    BY <1>2 DEF Reduce
  <2> HIDE DEF c
  <2>2. Sound(c) /\ Lowers(b, c, {}) /\ ~Known(c, i)
    BY <2>1, RemoveLowers
  <2> QED
    BY <2>2 DEF c
<1>3. CASE Known(b, i) /\ by > 0 /\ by < EntryOf(b, i).qty
  <2>1. /\ sd \in Sides /\ p \in Prices /\ o \in Seq(RestingOrder) /\ n \in 1 .. Len(o)
        /\ EntryOf(b, i) = o[n]
    BY <1>3, OrderFound DEF Sound, Queue, EntryOf
  <2>2. Spot(b, sd, p, n) /\ o[n].id = i /\ QtyOf(b, i) = o[n].qty
    BY <1>3, SpotOfOrder DEF Sound
  <2>3. Where(b, i) = <<sd, p>>
    BY <2>2, OrderAtSpot
  <2>4. c = [b EXCEPT ![sd][p] = q]
    <3>1. ~(by <= 0 \/ by > EntryOf(b, i).qty) /\ by # EntryOf(b, i).qty
      <4>1. EntryOf(b, i).qty \in Int
        BY <1>3, OrderFound DEF Sound, RestingOrder, Positives
      <4> QED
        BY <1>3, <4>1
    <3>2. Reduce(b, i, by) = Result(WithQueue(b, i, q), "Ok")
      BY <1>3, <3>1, Zenon DEF Reduce, Queue
    <3> HIDE DEF q
    <3>3. c = WithQueue(b, i, q)
      BY <3>2 DEF Result
    <3> QED
      BY <3>3, Zenon DEF WithQueue
  <2> HIDE DEF c, sd, p, n, o
  <2> DEFINE e == [o[n] EXCEPT !.qty = @ - by]
  <2>5. e \in RestingOrder /\ e.id = o[n].id /\ e.qty = o[n].qty - by /\ o[n].qty \in Int
    <3>1. o[n] \in RestingOrder /\ by < o[n].qty /\ by > 0
      BY <1>3, <2>1
    <3> HIDE DEF o, n
    <3> QED
      BY <3>1 DEF RestingOrder, Positives
  <2>6. q = [o EXCEPT ![n] = e]
    BY Zenon
  <2> HIDE DEF e, q
  <2>7. /\ q \in Seq(RestingOrder) /\ Len(q) = Len(o)
        /\ q[n] = e /\ \A k \in 1 .. Len(o) : k # n => q[k] = o[k]
    BY <2>1, <2>5, <2>6
  <2>8. \A k \in 1 .. Len(o) : o[k].qty \in Int
    <3>1. \A k \in 1 .. Len(o) : o[k] \in RestingOrder
      BY <2>1
    <3> QED
      BY <3>1 DEF RestingOrder, Positives
  <2>9. \A k \in 1 .. Len(q) : h[k] = k
    OBVIOUS
  <2> HIDE DEF h
  <2>10. ComesFrom(q, o, h)
    <3>1. ASSUME NEW k \in 1 .. Len(q)
          PROVE  h[k] \in 1 .. Len(o) /\ q[k].id = o[h[k]].id /\ q[k].qty <= o[h[k]].qty
      <4>1. k \in 1 .. Len(o) /\ h[k] = k /\ o[k].qty \in Int
        BY <2>7, <2>8, <2>9
      <4> QED
        BY <1>3, <2>5, <2>7, <4>1
    <3> QED
      BY <2>9, <3>1 DEF ComesFrom
  <2>11. /\ Sound(c) /\ Lowers(b, c, {})
         /\ \A j : Known(c, j) /\ Where(b, j) = <<sd, p>> =>
               \E k \in 1 .. Len(q) : h[k] = Place(b, j) /\ q[k].id = j /\ QtyOf(c, j) = q[k].qty
    <3>1. o = b[sd][p]
      BY DEF o
    <3>2. IsChanged(b, c, sd, p, q, h)
      BY <2>1, <2>4, <2>7, <2>10, <3>1 DEF IsChanged
    <3> QED
      BY <3>2, QueueChanged
  <2>12. Known(c, i) => QtyOf(c, i) = QtyOf(b, i) - by
    <3> SUFFICES ASSUME Known(c, i) PROVE QtyOf(c, i) = QtyOf(b, i) - by
      OBVIOUS
    <3>1. PICK k \in 1 .. Len(q) : h[k] = n /\ QtyOf(c, i) = q[k].qty
      BY <2>3, <2>11 DEF n
    <3>2. k = n
      BY <2>9, <3>1
    <3> QED
      BY <2>2, <2>5, <2>7, <3>1, <3>2
  <2> QED
    BY <2>2, <2>5, <2>11, <2>12, <1>3 DEF c
<1>4. Known(b, i) => EntryOf(b, i).qty \in Int
  BY OrderFound DEF Sound, RestingOrder, Positives
<1> QED
  BY <1>1, <1>2, <1>3, <1>4

\* An order added is the only one that is new.
LEMMA AddLowers ==
  ASSUME NEW b, Sound(b), NEW id \in Int, NEW sd \in Sides, NEW p, NEW qty \in Int,
         NEW mine \in BOOLEAN
  PROVE  LET c == Add(b, id, sd, p, qty, mine).book
         IN /\ Sound(c) /\ Lowers(b, c, {id})
            /\ Known(c, id) /\ ~Known(b, id) => QtyOf(c, id) = qty
<1> DEFINE c == Add(b, id, sd, p, qty, mine).book
           e == [id |-> id, qty |-> qty, mine |-> mine]
           n == Len(b[sd][p])
<1>1. b \in Book /\ c \in Book
  BY AddKeepsBook DEF Sound
<1>2. \/ c = b
      \/ /\ c = JoinQueue(b, id, sd, p, qty, mine) /\ ~Known(b, id)
         /\ p \in Prices
  BY WindowAssumption DEF Add, Result
<1> HIDE DEF c
<1>3. CASE c = b
  BY <1>1, <1>3, SameLowers DEF c
<1>4. CASE c = JoinQueue(b, id, sd, p, qty, mine) /\ ~Known(b, id) /\ p \in Prices
  <2>1. b[sd][p] \in Seq(RestingOrder)
    BY <1>1, <1>4 DEF Book
  <2>2. c = [b EXCEPT ![sd][p] = Append(b[sd][p], e)]
    BY <1>4, Zenon DEF JoinQueue
  <2> DEFINE q == Append(b[sd][p], e)
  <2>3. n \in Nat /\ Len(q) = n + 1 /\ q[n + 1] = e /\ \A k \in 1 .. n : q[k] = b[sd][p][k]
    <3> HIDE DEF e
    <3> QED
      BY <2>1
  <2> HIDE DEF q, n
  <2>4. \A s \in Sides, r \in Prices : c[s][r] = IF s = sd /\ r = p THEN q ELSE b[s][r]
    BY <1>1, <1>4, <2>2 DEF Book, q
  <2>5. ASSUME NEW s, NEW r, NEW k, Spot(c, s, r, k)
        PROVE  \/ Spot(b, s, r, k) /\ c[s][r][k] = b[s][r][k]
               \/ s = sd /\ r = p /\ k = n + 1 /\ c[s][r][k] = e
    <3>1. s \in Sides /\ r \in Prices /\ k \in 1 .. Len(c[s][r])
      BY <2>5 DEF Spot
    <3>2. CASE s = sd /\ r = p
      <4>1. c[s][r] = q /\ k \in 1 .. n + 1 /\ b[s][r] = b[sd][p]
        BY <2>3, <2>4, <3>1, <3>2
      <4>2. k = n + 1 \/ k \in 1 .. n
        BY <2>3, <4>1
      <4>3. k \in 1 .. n => Spot(b, s, r, k)
        BY <3>1, <4>1 DEF Spot, n
      <4> QED
        BY <2>3, <3>2, <4>1, <4>2, <4>3
    <3>3. CASE ~(s = sd /\ r = p)
      <4>1. c[s][r] = b[s][r]
        BY <2>4, <3>1, <3>3
      <4> QED
        BY <3>1, <4>1 DEF Spot
    <3> QED
      BY <3>2, <3>3
  <2>6. ASSUME NEW s, NEW r, NEW k, Spot(b, s, r, k) PROVE b[s][r][k].id # id
    BY <1>4, <2>6, OrderAtSpot
  <2>7. e.id = id /\ e.qty = qty
    OBVIOUS
  <2> HIDE DEF e
  <2>8. Once(c)
    <3> SUFFICES ASSUME NEW s, NEW r, NEW k, NEW s2, NEW r2, NEW l, Spot(c, s, r, k), Spot(c, s2, r2, l),
                        c[s][r][k].id = c[s2][r2][l].id
                 PROVE  s = s2 /\ r = r2 /\ k = l
      BY Zenon DEF Once
    <3>1. CASE Spot(b, s, r, k) /\ c[s][r][k] = b[s][r][k]
      <4>1. Spot(b, s2, r2, l) /\ c[s2][r2][l] = b[s2][r2][l]
        BY <2>5, <2>6, <2>7, <3>1
      <4> QED
        BY <3>1, <4>1 DEF Sound, Once
    <3>2. CASE s = sd /\ r = p /\ k = n + 1 /\ c[s][r][k] = e
      <4>1. s2 = sd /\ r2 = p /\ l = n + 1
        BY <2>5, <2>6, <2>7, <3>2
      <4> QED
        BY <3>2, <4>1
    <3> QED
      BY <2>5, <3>1, <3>2
  <2>9. Sound(c)
    BY <1>1, <2>8 DEF Sound
  <2>10. ASSUME NEW i, Known(c, i)
         PROVE  IF i = id THEN QtyOf(c, i) = qty
                ELSE Known(b, i) /\ QtyOf(c, i) <= QtyOf(b, i)
    <3> DEFINE s == Where(c, i)[1]
               r == Where(c, i)[2]
               k == Place(c, i)
    <3>1. Spot(c, s, r, k) /\ c[s][r][k].id = i /\ QtyOf(c, i) = c[s][r][k].qty
          /\ QtyOf(c, i) \in Positives
      BY <1>1, <2>10, SpotOfOrder
    <3> HIDE DEF s, r, k
    <3>2. CASE Spot(b, s, r, k) /\ c[s][r][k] = b[s][r][k]
      <4>1. Known(b, i) /\ QtyOf(b, i) = QtyOf(c, i) /\ i # id
        BY <2>6, <3>1, <3>2, OrderAtSpot
      <4> QED
        BY <3>1, <4>1 DEF Positives
    <3>3. CASE s = sd /\ r = p /\ k = n + 1 /\ c[s][r][k] = e
      BY <2>7, <3>1, <3>3
    <3> QED
      BY <2>5, <3>1, <3>2, <3>3
  <2>11. Lowers(b, c, {id}) /\ (Known(c, id) => QtyOf(c, id) = qty)
    BY <2>10 DEF Lowers
  <2> QED
    BY <2>9, <2>11 DEF c
<1> QED
  BY <1>2, <1>3, <1>4

\* The orders that an event of the market makes known.
Newcomers(e) ==
  IF e.type = "Add" THEN {e.id} ELSE IF e.type = "Replace" THEN {e.new} ELSE {}

LEMMA MoreMayBeNew ==
  ASSUME NEW b, NEW c, Lowers(b, c, {}), NEW X
  PROVE  Lowers(b, c, X)
BY DEF Lowers

\* An order replaced.
LEMMA ReplaceLowers ==
  ASSUME NEW b, Sound(b), NEW old, NEW new \in Int, NEW p, NEW qty \in Int
  PROVE  LET c == Replace(b, old, new, p, qty).book IN Sound(c) /\ Lowers(b, c, {new})
<1> DEFINE c == Replace(b, old, new, p, qty).book
           d == Remove(b, old).book
           sd == Where(b, old)[1]
           mine == EntryOf(b, old).mine
<1>1. CASE Known(b, old)
  <2>1. Sound(d) /\ Lowers(b, d, {new}) /\ b \in Book
    BY RemoveLowers, MoreMayBeNew DEF Sound
  <2>2. sd \in Sides /\ mine \in BOOLEAN
    BY <1>1, <2>1, OrderFound DEF RestingOrder
  <2>3. c = Add(d, new, sd, p, qty, mine).book
    BY <1>1 DEF Replace
  <2> HIDE DEF c, d, sd, mine
  <2>4. Sound(c) /\ Lowers(d, c, {new})
    BY <2>1, <2>2, <2>3, AddLowers
  <2>5. Lowers(b, c, {new})
    BY <2>1, <2>4, LowersJoin DEF Sound
  <2> QED
    BY <2>4, <2>5 DEF c
<1>2. CASE ~Known(b, old)
  <2>1. c = b
    BY <1>2 DEF Replace, Result
  <2> QED
    BY <2>1, SameLowers DEF Sound
<1> QED
  BY <1>1, <1>2

\* An event of the market applied.
LEMMA ApplyLowers ==
  ASSUME NEW b, Sound(b), NEW e \in MarketEvent
  PROVE  LET c == Apply(b, e).book IN Sound(c) /\ Lowers(b, c, Newcomers(e))
<1> DEFINE Fine(c) == Sound(c) /\ Lowers(b, c, Newcomers(e))
<1>1. /\ e.type \in EventTypes /\ e.id \in Int /\ e.new \in Int /\ e.side \in Sides
      /\ e.price \in Int /\ e.qty \in Int
  BY DEF MarketEvent
<1>2. CASE e.type = "Add"
  <2>1. PICK mine \in BOOLEAN : mine = FALSE
    OBVIOUS
  <2>2. Apply(b, e) = Add(b, e.id, e.side, e.price, e.qty, mine)
    BY <1>2, <2>1, Zenon DEF Apply
  <2>3. Newcomers(e) = {e.id}
    BY <1>2 DEF Newcomers
  <2> QED
    <3>1. /\ Sound(Add(b, e.id, e.side, e.price, e.qty, mine).book)
          /\ Lowers(b, Add(b, e.id, e.side, e.price, e.qty, mine).book, {e.id})
      BY <1>1, AddLowers
    <3> QED
      BY <2>2, <2>3, <3>1, Zenon
<1>3. CASE e.type \in {"Reduce", "Execute"}
  <2>1. Apply(b, e) = Reduce(b, e.id, e.qty)
    BY <1>3 DEF Apply, Execute
  <2> QED
    BY <1>1, <2>1, ReduceLowers, MoreMayBeNew
<1>4. CASE e.type = "Delete"
  <2>1. Apply(b, e) = Remove(b, e.id)
    BY <1>4 DEF Apply
  <2> QED
    BY <2>1, RemoveLowers, MoreMayBeNew
<1>5. CASE e.type = "Replace"
  <2>1. Apply(b, e) = Replace(b, e.id, e.new, e.price, e.qty)
    BY <1>5 DEF Apply
  <2>2. Newcomers(e) = {e.new}
    BY <1>5 DEF Newcomers
  <2> QED
    <3>1. /\ Sound(Replace(b, e.id, e.new, e.price, e.qty).book)
          /\ Lowers(b, Replace(b, e.id, e.new, e.price, e.qty).book, {e.new})
      BY <1>1, ReplaceLowers
    <3> QED
      BY <2>1, <2>2, <3>1, Zenon
<1>6. CASE e.type = "Clear"
  <2>1. Apply(b, e).book = RefEmpty
    BY <1>6 DEF Apply, Result
  <2>2. Sound(RefEmpty) /\ \A i : ~Known(RefEmpty, i)
    BY EmptyIsABook DEF Sound, Once, Spot, RefEmpty, Known, IsAt, IdsIn
  <2> QED
    BY <2>1, <2>2 DEF Lowers
<1>7. CASE e.type = "Aggress"
  <2>1. Apply(b, e).book = b
    BY <1>7 DEF Apply, Result
  <2> QED
    BY <2>1, SameLowers DEF Sound
<1> QED
  BY <1>1, <1>2, <1>3, <1>4, <1>5, <1>6, <1>7 DEF EventTypes

-----------------------------------------------------------------------------
(***************************************************************************)
(* What the driver makes of fills.                                         *)
(***************************************************************************)
Quote == [id : Int, price : Int, left : Int]
Quotes == [Sides -> Quote]

\* The quotes q counted down by the fills e.
Counted(q, e) == SX!FoldLeft(CountDown, q, e)

\* Counting down is a walk.
LEMMA CountedWalks ==
  ASSUME NEW s, NEW e, IsList(e)
  PROVE  Leads("countdown", s, e, Counted(s, e))
<1> DEFINE n == Len(e)
           Folds(g) == g = [r \in SUBSET (1 .. n) |->
                 IF r = {} THEN s ELSE CountDown(g[r \ {Highest(r)}], e[Highest(r)])]
           f == CHOOSE g : Folds(g)
<1>1. n \in Nat /\ DOMAIN e = 1 .. n
  BY ListParts
<1>2. Counted(s, e) = f[1 .. n]
  BY <1>1, Zenon DEF Counted, SX!FoldLeft, SX!MapThenFoldSet, Highest
<1> HIDE DEF n
<1>3. \A x, y : CountDown(x, y) = Onward("countdown", x, y)
  BY DEF Onward
<1>4. \E g : Folds(g)
  <2>1. PICK g : FoldedTo("countdown", e, s, n, g, n)
    BY <1>1, FoldExists
  <2>2. \A r \in SUBSET (1 .. n) : g[r] = IF r = {} THEN s ELSE CountDown(g[r \ {Highest(r)}], e[Highest(r)])
    BY <1>3, <2>1 DEF FoldedTo
  <2>3. g = [r \in SUBSET (1 .. n) |-> g[r]]
    BY <2>1, Zenon DEF FoldedTo
  <2>4. Folds(g)
    BY <2>2, <2>3
  <2> QED
    BY <2>4
<1>5. Folds(f)
  BY <1>4, Zenon
<1> HIDE DEF f
<1>6. IsFold("countdown", s, e, f)
  BY <1>3, <1>5 DEF IsFold, n
<1> QED
  BY <1>2, <1>6, FoldIsWalk DEF n

\* Counted down by nothing, and by two lists of fills.
LEMMA CountedJoins ==
  ASSUME NEW q
  PROVE  /\ Counted(q, <<>>) = q
         /\ \A s, t : IsList(s) /\ IsList(t) => Counted(q, s \o t) = Counted(Counted(q, s), t)
<1>1. Counted(q, <<>>) = q
  <2>1. PICK p : IsWalk("countdown", q, <<>>, p) /\ p[Len(<<>>)] = Counted(q, <<>>)
    BY NothingIsAList, CountedWalks DEF Leads
  <2>2. Len(<<>>) = 0
    OBVIOUS
  <2> QED
    BY <2>1, <2>2 DEF IsWalk
<1>2. ASSUME NEW s, NEW t, IsList(s), IsList(t)
      PROVE  Counted(q, s \o t) = Counted(Counted(q, s), t)
  <2>1. /\ Leads("countdown", q, s, Counted(q, s))
        /\ Leads("countdown", Counted(q, s), t, Counted(Counted(q, s), t))
    BY <1>2, CountedWalks
  <2>2. Leads("countdown", q, s \o t, Counted(Counted(q, s), t))
    BY <1>2, <2>1, WalksJoin
  <2>3. IsList(s \o t)
    BY <1>2, ListsJoined
  <2>4. Leads("countdown", q, s \o t, Counted(q, s \o t))
    BY <2>3, CountedWalks
  <2> QED
    BY ONLY <2>2, <2>3, <2>4, WalksAgree
<1> QED
  BY <1>1, <1>2

\* Counted down by one fill more.
LEMMA CountedOneMore ==
  ASSUME NEW q, NEW s, IsList(s), NEW f
  PROVE  Counted(q, Append(s, f)) = CountDown(Counted(q, s), f)
<1> DEFINE e == <<f>>
           m == Counted(q, s)
<1>1. IsList(e) /\ Len(e) = 1 /\ e[1] = f
  BY OneIsAList
<1>2. Append(s, f) = s \o e
  <2>1. PICK X : s \in Seq(X)
    BY DEF IsList
  <2>2. s \in Seq(X \cup {f})
    BY <2>1, SeqMonotonic
  <2> QED
    BY <2>2, AppendIsConcat
<1> HIDE DEF e, m
<1>3. PICK p : IsWalk("countdown", m, e, p) /\ p[Len(e)] = Counted(m, e)
  BY <1>1, CountedWalks DEF Leads
<1>4. p[0] = m /\ p[1] = Onward("countdown", p[0], f)
  BY <1>1, <1>3 DEF IsWalk
<1>5. Counted(m, e) = CountDown(m, f)
  BY <1>1, <1>3, <1>4 DEF Onward
<1>6. Counted(q, s \o e) = Counted(m, e)
  BY <1>1, CountedJoins DEF m
<1> QED
  BY <1>2, <1>5, <1>6 DEF m

\* One fill: every quote keeps its id, and one that names the resting order has
\* so much less left.
LEMMA CountDownOne ==
  ASSUME NEW q \in Quotes, NEW f \in Fill
  PROVE  LET r == CountDown(q, f)
         IN /\ r \in Quotes
            /\ \A sd \in Sides :
                 /\ r[sd].id = q[sd].id
                 /\ IF f.restingMine /\ f.resting = q[sd].id
                      THEN r[sd].left = q[sd].left - f.qty ELSE r[sd].left = q[sd].left
<1>1. f.restingMine \in BOOLEAN /\ f.qty \in Int
  BY DEF Fill, Positives
<1>2. \A sd \in Sides : q[sd] \in Quote
  BY DEF Quotes
<1> DEFINE r == CountDown(q, f)
<1>3. ASSUME NEW sd \in Sides
      PROVE  /\ r[sd] \in Quote /\ r[sd].id = q[sd].id
             /\ IF f.restingMine /\ f.resting = q[sd].id
                  THEN r[sd].left = q[sd].left - f.qty ELSE r[sd].left = q[sd].left
  <2>1. r[sd] = IF f.restingMine /\ f.resting = q[sd].id
                  THEN [q[sd] EXCEPT !.left = @ - f.qty] ELSE q[sd]
    BY DEF CountDown
  <2>2. q[sd] \in Quote
    BY <1>2
  <2> HIDE DEF r
  <2> QED
    BY <1>1, <2>1, <2>2 DEF Quote
<1>4. r = [sd \in Sides |-> r[sd]]
  BY DEF CountDown
<1> HIDE DEF r
<1>5. r \in Quotes
  BY <1>3, <1>4 DEF Quotes
<1> QED
  BY <1>3, <1>5 DEF r

\* No order of ours rests with more than its quote has left.
Covers(q, b) ==
  \A sd \in Sides : q[sd].id \in OwnIds /\ Known(b, q[sd].id) => QtyOf(b, q[sd].id) <= q[sd].left

\* From book b and quotes q to book c and quotes r: orders only shrink, quotes
\* of orders that did not rest stay, and what is covered stays covered.
Tracks(b, q, c, r) ==
  /\ Sound(c) /\ Lowers(b, c, {}) /\ r \in Quotes
  /\ \A sd \in Sides :
       /\ r[sd].id = q[sd].id
       /\ ~Known(b, q[sd].id) => r[sd].left = q[sd].left
  /\ Covers(q, b) => Covers(r, c)

\* Nothing happens.
LEMMA TracksItself ==
  ASSUME NEW b, Sound(b), NEW q \in Quotes
  PROVE  Tracks(b, q, b, q)
BY SameLowers DEF Tracks, Sound

\* Orders shrink further, and nothing is counted.
LEMMA TracksLower ==
  ASSUME NEW b, Sound(b), NEW q, NEW c, NEW r, Tracks(b, q, c, r),
         NEW d, Sound(d), Lowers(c, d, {})
  PROVE  Tracks(b, q, d, r)
<1>1. Lowers(b, d, {})
  BY LowersJoin DEF Tracks, Sound
<1>2. Covers(r, c) => Covers(r, d)
  <2> SUFFICES ASSUME Covers(r, c), NEW sd \in Sides, r[sd].id \in OwnIds, Known(d, r[sd].id)
               PROVE  QtyOf(d, r[sd].id) <= r[sd].left
    BY DEF Covers
  <2> DEFINE i == r[sd].id
  <2>1. Known(c, i) /\ QtyOf(d, i) <= QtyOf(c, i)
    BY DEF Lowers
  <2>2. QtyOf(c, i) <= r[sd].left
    BY <2>1 DEF Covers
  <2>3. QtyOf(c, i) \in Int /\ QtyOf(d, i) \in Int /\ r[sd].left \in Int
    BY QtyOfIsANumber DEF Tracks, Sound, Quotes, Quote
  <2> HIDE DEF i
  <2> QED
    BY <2>1, <2>2, <2>3 DEF i
<1> QED
  BY <1>1, <1>2 DEF Tracks

\* The front order trades, and the fill is counted.
LEMMA TracksTrade ==
  ASSUME NEW b, Sound(b), NEW q, NEW c, NEW r, Tracks(b, q, c, r),
         NEW f \in Fill, Known(c, f.resting), f.qty <= QtyOf(c, f.resting)
  PROVE  Tracks(b, q, Reduce(c, f.resting, f.qty).book, CountDown(r, f))
<1> DEFINE d == Reduce(c, f.resting, f.qty).book
           t == CountDown(r, f)
<1>1. /\ Sound(c) /\ Lowers(b, c, {}) /\ r \in Quotes /\ b \in Book /\ c \in Book
      /\ f.qty \in Int /\ f.qty > 0
  BY DEF Tracks, Sound, Fill, Positives
<1>2. /\ Sound(d) /\ Lowers(c, d, {}) /\ d \in Book
      /\ Known(d, f.resting) => QtyOf(d, f.resting) <= QtyOf(c, f.resting) - f.qty
  BY <1>1, ReduceLowers DEF Sound
<1>3. /\ t \in Quotes
      /\ \A sd \in Sides :
           /\ t[sd].id = r[sd].id
           /\ IF f.restingMine /\ f.resting = r[sd].id
                THEN t[sd].left = r[sd].left - f.qty ELSE t[sd].left = r[sd].left
  BY <1>1, CountDownOne
<1> HIDE DEF d, t
<1>4. Lowers(b, d, {}) /\ Known(b, f.resting)
  <2>1. Lowers(b, d, {})
    BY <1>1, <1>2, LowersJoin
  <2>2. Known(b, f.resting)
    BY <1>1 DEF Lowers
  <2> QED
    BY <2>1, <2>2
<1>5. ASSUME NEW sd \in Sides
      PROVE  t[sd].id = q[sd].id /\ (~Known(b, q[sd].id) => t[sd].left = q[sd].left)
  <2>1. r[sd].id = q[sd].id /\ (~Known(b, q[sd].id) => r[sd].left = q[sd].left)
    BY DEF Tracks
  <2>2. ASSUME ~Known(b, q[sd].id) PROVE f.resting # r[sd].id
    BY <1>4, <2>1, <2>2
  <2> QED
    BY <1>3, <2>1, <2>2
<1>6. ASSUME Covers(r, c), NEW sd \in Sides, t[sd].id \in OwnIds, Known(d, t[sd].id)
      PROVE  QtyOf(d, t[sd].id) <= t[sd].left
  <2> DEFINE i == t[sd].id
             before == QtyOf(c, i)
             after == QtyOf(d, i)
  <2>1. i = r[sd].id /\ Known(c, i) /\ after <= before
    BY <1>2, <1>3, <1>6 DEF Lowers
  <2>2. before <= r[sd].left
    BY <1>6, <2>1 DEF Covers
  <2>3. before \in Int /\ after \in Int /\ r[sd].left \in Int
    BY <1>1, <1>2, QtyOfIsANumber DEF Quotes, Quote
  <2>4. f.resting = i => after <= before - f.qty
    BY <1>2, <1>6
  <2>5. IF f.restingMine /\ f.resting = i
          THEN t[sd].left = r[sd].left - f.qty ELSE t[sd].left = r[sd].left
    BY <1>3, <2>1
  <2> HIDE DEF i, before, after
  <2>6. after <= t[sd].left
    BY <1>1, <2>1, <2>2, <2>3, <2>4, <2>5
  <2> QED
    BY <2>6 DEF after, i
<1> QED
  BY <1>2, <1>3, <1>4, <1>5, <1>6 DEF Tracks, Covers, d, t

\* A turn of the matching loop.
LEMMA CrossStepTracks ==
  ASSUME NEW b, Sound(b), NEW q, NEW m \in Trading, Tracks(b, q, m.book, Counted(q, m.fills)),
         NEW smp, NEW id \in Int, NEW sd \in Sides, NEW limit, NEW mine \in BOOLEAN
  PROVE  LET n == CrossStep(m, smp, id, sd, limit, mine)
         IN Tracks(b, q, n.book, Counted(q, n.fills)) /\ n.left <= m.left
<1> DEFINE other == Opposite(sd)
           price == Best(m.book, other)
           front == FrontEntry(m.book[other][price])
           n == CrossStep(m, smp, id, sd, limit, mine)
<1>1. /\ m.book \in Book /\ m.left \in Nat /\ m.fills \in Seq(Fill) /\ other \in Sides
      /\ Sound(m.book)
  BY DEF Trading, Opposite, Sides, Tracks
<1>2. CASE n = m
  BY <1>1, <1>2
<1>3. CASE n = [m EXCEPT !.book = Remove(m.book, front.id).book]
  <2> DEFINE d == Remove(m.book, front.id).book
  <2>1. Sound(d) /\ Lowers(m.book, d, {})
    BY <1>1, RemoveLowers
  <2> HIDE DEF d
  <2>2. /\ [m EXCEPT !.book = d].book = d /\ [m EXCEPT !.book = d].fills = m.fills
        /\ [m EXCEPT !.book = d].left = m.left /\ m.left <= m.left
    BY DEF Trading
  <2>3. n.book = d /\ n.fills = m.fills /\ n.left <= m.left
    BY <1>3, <2>2, Zenon DEF d
  <2> HIDE DEF n
  <2>4. Tracks(b, q, d, Counted(q, m.fills))
    BY <2>1, TracksLower
  <2> QED
    BY <2>3, <2>4, Zenon DEF n
<1>4. CASE /\ n = TradeWith(m, front, price, id, sd, mine)
           /\ HasBest(m.book, other) /\ m.left # 0
  <2>1. price \in Prices /\ price \in Int /\ m.book[other][price] # <<>>
    BY <1>4, BestIsAPrice
  <2> HIDE DEF other, price
  <2>2. m.book[other][price] \in Seq(RestingOrder)
    BY <1>1, <2>1 DEF Book
  <2>3. front \in RestingOrder /\ front = m.book[other][price][1]
        /\ 1 \in 1 .. Len(m.book[other][price])
    <3>1. \A s \in Seq(RestingOrder) :
            s # <<>> => Head(s) \in RestingOrder /\ Head(s) = s[1] /\ 1 \in 1 .. Len(s)
      OBVIOUS
    <3> QED
      BY <2>1, <2>2, <3>1 DEF FrontEntry
  <2>4. Spot(m.book, other, price, 1)
    BY <1>1, <2>1, <2>3 DEF Spot
  <2>5. Known(m.book, front.id) /\ QtyOf(m.book, front.id) = front.qty
    BY <1>1, <2>3, <2>4, OrderAtSpot
  <2> HIDE DEF front
  <2>6. front.id \in Int /\ front.qty \in Positives /\ front.mine \in BOOLEAN
    BY <2>3 DEF RestingOrder
  <2> DEFINE take == Take(m.left, front.qty)
             f == [resting |-> front.id, aggressor |-> id, price |-> price,
                   qty |-> take, side |-> Opposite(sd),
                   restingMine |-> front.mine, aggressorMine |-> mine]
  <2>7. take \in Positives /\ take <= front.qty /\ m.left - take <= m.left
    BY <1>1, <1>4, <2>6 DEF Take, Lesser, Positives
  <2>8. n = Matched(Execute(m.book, front.id, take).book, m.left - take, Append(m.fills, f))
    BY <1>4, Zenon DEF TradeWith
  <2> HIDE DEF take, n
  <2>9. f \in Fill /\ f.resting = front.id /\ f.qty = take
    BY <1>1, <2>1, <2>6, <2>7 DEF Fill, other
  <2>10. /\ n.book = Execute(m.book, front.id, take).book /\ n.fills = Append(m.fills, f)
         /\ n.left <= m.left
    BY <2>7, <2>8 DEF Matched
  <2> HIDE DEF f
  <2>11. n.book = Reduce(m.book, f.resting, f.qty).book
    BY <2>9, <2>10 DEF Execute
  <2>12. IsList(m.fills)
    BY <1>1, SequencesAreLists
  <2>13. Counted(q, n.fills) = CountDown(Counted(q, m.fills), f)
    BY <2>10, <2>12, CountedOneMore
  <2>14. Tracks(b, q, Reduce(m.book, f.resting, f.qty).book, CountDown(Counted(q, m.fills), f))
    BY <2>5, <2>7, <2>9, TracksTrade
  <2> QED
    BY <2>10, <2>11, <2>13, <2>14, Zenon DEF n
<1>5. \/ n = m
      \/ n = [m EXCEPT !.book = Remove(m.book, front.id).book]
      \/ /\ n = TradeWith(m, front, price, id, sd, mine)
         /\ HasBest(m.book, other) /\ m.left # 0
  BY Zenon DEF CrossStep
<1> QED
  BY ONLY <1>2, <1>3, <1>4, <1>5

\* The loop.
LEMMA CrossTracks ==
  ASSUME NEW b, Sound(b), NEW q \in Quotes, NEW smp, NEW id \in Int, NEW sd \in Sides, NEW limit,
         NEW qty \in Nat, NEW mine \in BOOLEAN
  PROVE  LET m == Cross(b, smp, id, sd, limit, qty, mine)
         IN m \in Trading /\ m.left <= qty /\ Tracks(b, q, m.book, Counted(q, m.fills))
<1> DEFINE Good(m) == m \in Trading /\ m.left <= qty /\ Tracks(b, q, m.book, Counted(q, m.fills))
<1>1. PICK g : /\ TurnsOf(g, b, smp, id, sd, limit, qty, mine)
               /\ Cross(b, smp, id, sd, limit, qty, mine) = g[MaxOrders]
  BY CrossTurns
<1>2. Good(g[0])
  <2>1. <<>> \in Seq(Fill) /\ Counted(q, <<>>) = q /\ Tracks(b, q, b, q)
    BY CountedJoins, TracksItself
  <2>2. g[0] = Matched(b, qty, <<>>)
    BY <1>1 DEF TurnsOf
  <2>3. g[0] \in Trading
    BY <2>1, <2>2 DEF Matched, Trading, Sound
  <2>4. g[0].book = b /\ g[0].left = qty /\ g[0].fills = <<>>
    BY <2>2 DEF Matched
  <2> QED
    BY <2>1, <2>3, <2>4
<1> USE MaxOrdersAssumption
<1>3. ASSUME NEW m, Good(m) PROVE Good(CrossStep(m, smp, id, sd, limit, mine))
  <2> DEFINE n == CrossStep(m, smp, id, sd, limit, mine)
  <2>1. n \in Trading /\ Tracks(b, q, n.book, Counted(q, n.fills)) /\ n.left <= m.left
    BY <1>3, CrossStepKeepsTrading, CrossStepTracks
  <2>2. n.left \in Int /\ m.left \in Int /\ m.left <= qty
    BY <1>3, <2>1 DEF Trading
  <2> HIDE DEF n
  <2>3. n.left <= qty
    BY <2>1, <2>2
  <2> QED
    BY <2>1, <2>3 DEF n
<1> HIDE DEF Good
<1> DEFINE Odd == {k \in 0 .. MaxOrders : ~Good(g[k])}
<1>4. Odd = {}
  <2> SUFFICES ASSUME Odd # {} PROVE FALSE
    OBVIOUS
  <2>1. PICK k \in Odd : \A j \in Odd : k <= j
    <3>1. Odd \in SUBSET Nat
      OBVIOUS
    <3> QED
      BY <3>1, LeastExists
  <2>2. k # 0
    BY <1>2, <2>1
  <2>3. k - 1 \in 0 .. MaxOrders /\ k - 1 \notin Odd /\ k \in 1 .. MaxOrders
    BY <2>1, <2>2
  <2>4. g[k] = CrossStep(g[k - 1], smp, id, sd, limit, mine)
    BY <1>1, <2>3 DEF TurnsOf
  <2>5. Good(g[k])
    BY <1>3, <2>3, <2>4
  <2> QED
    BY <2>1, <2>5
<1> QED
  BY <1>1, <1>4 DEF Good

-----------------------------------------------------------------------------
(***************************************************************************)
(* The orders of a driver that are safe: those that rest are covered by    *)
(* its quotes, and those on their way are new.                             *)
(***************************************************************************)
\* The book b and the quotes q of a driver that has limit orders L still on
\* their way, and counts on the orders A or has sent cancels for them.
Safe(b, q, L, A) ==
  /\ Sound(b) /\ q \in Quotes /\ Covers(q, b)
  /\ L \subseteq OwnIds /\ L \subseteq A
  /\ \A i \in OwnIds : Known(b, i) => i \in A
  /\ \A i \in L : ~Known(b, i) /\ \A sd \in Sides : q[sd].id = i => q[sd].left >= Size

\* Our order ids are numbers.
LEMMA OwnIdsAreNumbers ==
  \A i \in OwnIds : i \in Nat /\ i \in Int
BY InputAssumption, OwnIdsAssumption

\* Own orders that fall, and those that were not there stay untouched.
LEMMA SafeTracks ==
  ASSUME NEW b, NEW q, NEW L, NEW A, Safe(b, q, L, A), NEW c, NEW r, Tracks(b, q, c, r)
  PROVE  Safe(c, r, L, A)
<1>1. /\ Sound(c) /\ r \in Quotes /\ Covers(r, c)
      /\ \A i : Known(c, i) => Known(b, i)
      /\ \A sd \in Sides : r[sd].id = q[sd].id /\ (~Known(b, q[sd].id) => r[sd].left = q[sd].left)
  BY DEF Tracks, Safe, Lowers
<1>2. L \subseteq OwnIds /\ L \subseteq A /\ \A i \in OwnIds : Known(c, i) => i \in A
  BY <1>1 DEF Safe
<1>3. ASSUME NEW i \in L
      PROVE  ~Known(c, i) /\ \A sd \in Sides : r[sd].id = i => r[sd].left >= Size
  BY <1>1, <1>3 DEF Safe
<1> QED
  BY <1>1, <1>2, <1>3 DEF Safe

\* Nothing is counted, and only orders that are not ours may be new.
LEMMA SafeLowers ==
  ASSUME NEW b, NEW q, NEW L, NEW A, Safe(b, q, L, A), NEW c, NEW X, Sound(c), Lowers(b, c, X),
         \A i \in X : i \notin OwnIds
  PROVE  Safe(c, q, L, A)
<1>1. \A i \in OwnIds : Known(c, i) => Known(b, i) /\ QtyOf(c, i) <= QtyOf(b, i)
  BY DEF Lowers
<1>2. Covers(q, c)
  <2> SUFFICES ASSUME NEW sd \in Sides, q[sd].id \in OwnIds, Known(c, q[sd].id)
               PROVE  QtyOf(c, q[sd].id) <= q[sd].left
    BY DEF Covers
  <2> DEFINE i == q[sd].id
  <2>1. Known(b, i) /\ QtyOf(c, i) <= QtyOf(b, i)
    BY <1>1
  <2>2. QtyOf(b, i) <= q[sd].left
    BY <2>1 DEF Safe, Covers
  <2>3. QtyOf(b, i) \in Int /\ QtyOf(c, i) \in Int /\ q[sd].left \in Int
    BY QtyOfIsANumber DEF Safe, Sound, Quotes, Quote
  <2> HIDE DEF i
  <2> QED
    BY <2>1, <2>2, <2>3 DEF i
<1>3. \A i \in L : ~Known(c, i)
  BY <1>1 DEF Safe
<1> QED
  BY <1>1, <1>2, <1>3 DEF Safe

\* A limit order of ours lands: what is left of it joins the book, no larger
\* than its quote has it.
LEMMA LimitLands ==
  ASSUME NEW b, NEW q, NEW L, NEW A, Safe(b, q, L, A), NEW id \in L, NEW sd \in Sides, NEW price,
         NEW mine \in BOOLEAN
  PROVE  LET r == SubmitLimit(b, Rule, id, sd, price, Size, mine)
         IN r.fills \in Seq(Fill) /\ Safe(r.book, Counted(q, r.fills), L \ {id}, A)
<1> DEFINE m == Cross(b, Rule, id, sd, Limit(sd, price), Size, mine)
           d == Add(m.book, id, sd, price, m.left, mine).book
           r == SubmitLimit(b, Rule, id, sd, price, Size, mine)
           n == Counted(q, m.fills)
<1>1. /\ Size \in Nat /\ Size > 0 /\ id \in OwnIds /\ id \in Int /\ id \in A /\ Sound(b) /\ q \in Quotes
      /\ ~Known(b, id)
  <2>1. Size \in Nat /\ Size > 0
    BY SizeAssumption
  <2>2. id \in OwnIds /\ id \in A /\ Sound(b) /\ q \in Quotes /\ ~Known(b, id)
    BY Zenon DEF Safe
  <2> QED
    BY <2>1, <2>2, OwnIdsAreNumbers
<1>2. m \in Trading /\ m.left <= Size /\ Tracks(b, q, m.book, n)
  BY <1>1, CrossTracks
<1>3. \/ r.book = m.book /\ r.fills = m.fills
      \/ r.book = d /\ r.fills = m.fills
  <2>1. r = IF m.left = 0 THEN Submitted(m.book, m.fills, Size, 0, "Ok")
            ELSE LET a == Add(m.book, id, sd, price, m.left, mine)
                 IN Submitted(a.book, m.fills, Size - m.left,
                              IF a.err = "Ok" THEN m.left ELSE 0, a.err)
    BY <1>1 DEF SubmitLimit, Remainder
  <2> HIDE DEF m, r
  <2> QED
    BY <2>1 DEF Submitted
<1> HIDE DEF m, r
<1>4. m.left \in Nat /\ m.fills \in Seq(Fill) /\ Sound(m.book)
  BY <1>2 DEF Trading, Tracks
<1>5. Safe(m.book, n, L, A)
  BY <1>2, SafeTracks
<1>6. Sound(d) /\ Lowers(m.book, d, {id}) /\ (Known(d, id) => QtyOf(d, id) = m.left)
  <2>1. ~Known(m.book, id)
    BY <1>5 DEF Safe
  <2> DEFINE bk == m.book
             left == m.left
  <2>2. Sound(bk) /\ left \in Int
    BY <1>4
  <2> HIDE DEF bk, left
  <2>3. LET c == Add(bk, id, sd, price, left, mine).book
        IN /\ Sound(c) /\ Lowers(bk, c, {id})
           /\ Known(c, id) /\ ~Known(bk, id) => QtyOf(c, id) = left
    BY <1>1, <2>2, AddLowers
  <2> QED
    BY <2>1, <2>3 DEF bk, left
<1> HIDE DEF d, n
<1>7. Safe(m.book, n, L \ {id}, A)
  BY <1>5 DEF Safe
<1>8. Safe(d, n, L \ {id}, A)
  <2>1. \A i \in OwnIds : Known(d, i) => i = id \/ (Known(m.book, i) /\ QtyOf(d, i) <= QtyOf(m.book, i))
    BY <1>6 DEF Lowers
  <2>2. Covers(n, d)
    <3> SUFFICES ASSUME NEW s \in Sides, n[s].id \in OwnIds, Known(d, n[s].id)
                 PROVE  QtyOf(d, n[s].id) <= n[s].left
      BY DEF Covers
    <3> DEFINE i == n[s].id
    <3>1. CASE i = id
      <4>1. n[s].left >= Size /\ n[s].left \in Int
        BY <1>5, <3>1 DEF Safe, Quotes, Quote
      <4>2. QtyOf(d, i) = m.left
        BY <1>6, <3>1
      <4> HIDE DEF i
      <4> QED
        BY <1>1, <1>2, <1>4, <4>1, <4>2 DEF i
    <3>2. CASE i # id
      <4>1. Known(m.book, i) /\ QtyOf(d, i) <= QtyOf(m.book, i)
        BY <2>1, <3>2
      <4>2. QtyOf(m.book, i) <= n[s].left
        BY <1>5, <4>1 DEF Safe, Covers
      <4>3. QtyOf(m.book, i) \in Int /\ QtyOf(d, i) \in Int /\ n[s].left \in Int
        BY <1>4, <1>5, <1>6, QtyOfIsANumber DEF Safe, Sound, Quotes, Quote
      <4> HIDE DEF i
      <4> QED
        BY <4>1, <4>2, <4>3 DEF i
    <3> QED
      BY <3>1, <3>2
  <2>3. \A i \in OwnIds : Known(d, i) => i \in A
    BY <1>1, <1>5, <2>1 DEF Safe
  <2>4. \A i \in L \ {id} : ~Known(d, i)
    BY <1>5, <2>1 DEF Safe
  <2> QED
    BY <1>5, <1>6, <2>2, <2>3, <2>4 DEF Safe
<1> QED
  BY <1>3, <1>4, <1>7, <1>8 DEF n, r

\* An order of the market is matched.
LEMMA MarketCrosses ==
  ASSUME NEW b, NEW q, NEW L, NEW A, Safe(b, q, L, A), NEW id \in Int, NEW sd \in Sides,
         NEW qty \in Int, NEW mine \in BOOLEAN
  PROVE  LET r == SubmitMarket(b, Rule, id, sd, qty, mine)
         IN r.fills \in Seq(Fill) /\ Safe(r.book, Counted(q, r.fills), L, A)
<1> DEFINE m == Cross(b, Rule, id, sd, Prices, qty, mine)
           r == SubmitMarket(b, Rule, id, sd, qty, mine)
<1>1. Sound(b) /\ q \in Quotes
  BY DEF Safe
<1>2. CASE qty <= 0
  <2>1. r.book = b /\ r.fills = <<>>
    BY <1>2 DEF SubmitMarket, Refused, Submitted
  <2> HIDE DEF r
  <2>2. <<>> \in Seq(Fill) /\ Counted(q, <<>>) = q
    BY CountedJoins
  <2> QED
    BY <2>1, <2>2 DEF r
<1>3. CASE qty > 0
  <2>1. r = Submitted(m.book, m.fills, qty - m.left, 0, "Ok")
    BY <1>3 DEF SubmitMarket
  <2>2. qty \in Nat
    BY <1>3
  <2>3. m \in Trading /\ Tracks(b, q, m.book, Counted(q, m.fills))
    BY <1>1, <2>2, CrossTracks
  <2> HIDE DEF m, r
  <2>4. m.fills \in Seq(Fill) /\ Safe(m.book, Counted(q, m.fills), L, A)
    BY <2>3, SafeTracks DEF Trading
  <2>5. r.book = m.book /\ r.fills = m.fills
    BY <2>1 DEF Submitted
  <2> QED
    BY <2>4, <2>5 DEF r
<1> QED
  BY <1>2, <1>3

-----------------------------------------------------------------------------
(***************************************************************************)
(* The window of the fill log and the exchange.                            *)
(***************************************************************************)
\* The window w, and an index into it.
IsMark(w, i) ==
  /\ w = [base |-> w.base, fills |-> w.fills] /\ w.base \in Nat /\ w.fills \in Seq(Fill)
  /\ i \in Nat /\ w.base <= i /\ i <= FillsEnd(w)

\* What is unread are fills; nothing is at the end.
LEMMA UnreadFills ==
  ASSUME NEW w, NEW i, IsMark(w, i)
  PROVE  /\ FillsFrom(w, i) \in Seq(Fill) /\ FillsEnd(w) \in Nat
         /\ IsMark(w, FillsEnd(w)) /\ FillsFrom(w, FillsEnd(w)) = <<>>
<1> DEFINE e == w.fills
           n == Len(e)
           k == w.base
<1>1. /\ k \in Nat /\ e \in Seq(Fill) /\ n \in Nat /\ i \in Nat /\ k <= i /\ i <= k + n
      /\ FillsEnd(w) = k + n
  BY DEF IsMark, FillsEnd
<1>2. ASSUME NEW j \in Nat, k <= j, j <= k + n
      PROVE  /\ FillsFrom(w, j) \in Seq(Fill) /\ Len(FillsFrom(w, j)) = k + n - j
  <2> DEFINE u == SubSeq(e, j - k + 1, n)
  <2>1. \A m \in j - k + 1 .. n : e[m] \in Fill
    BY <1>1, <1>2
  <2>2. j - k + 1 \in Int /\ n \in Int
    BY <1>1, <1>2
  <2>3. u = FillsFrom(w, j)
    BY DEF FillsFrom
  <2>4. u \in Seq(Fill) /\ Len(u) = IF j - k + 1 <= n THEN n - (j - k + 1) + 1 ELSE 0
    <3> HIDE DEF n, k, e
    <3> QED
      BY <2>1, <2>2, SubSeqProperties
  <2> HIDE DEF u, n, k, e
  <2> QED
    BY <1>1, <1>2, <2>3, <2>4
<1> HIDE DEF e, n, k
<1>3. FillsFrom(w, i) \in Seq(Fill)
  BY <1>1, <1>2
<1>4. k + n \in Nat /\ k <= k + n /\ k + n <= k + n
  BY <1>1
<1>5. FillsFrom(w, k + n) \in Seq(Fill) /\ Len(FillsFrom(w, k + n)) = 0
  BY <1>1, <1>2, <1>4
<1>6. FillsFrom(w, k + n) = <<>>
  BY <1>5
<1> QED
  BY <1>1, <1>3, <1>4, <1>6 DEF IsMark, k

\* Fills pushed are unread.
LEMMA PushedIsUnread ==
  ASSUME NEW w, NEW i, IsMark(w, i), NEW f \in Seq(Fill)
  PROVE  LET v == PushFills(w, f)
         IN IsMark(v, i) /\ FillsFrom(v, i) = FillsFrom(w, i) \o f
<1> DEFINE e == w.fills
           n == Len(e)
           k == w.base
           d == e \o f
           v == PushFills(w, f)
           m == i - k + 1
           x == SubSeq(e, m, n)
           y == SubSeq(d, m, Len(d))
<1>1. /\ k \in Nat /\ e \in Seq(Fill) /\ n \in Nat /\ i \in Nat /\ k <= i /\ i <= k + n
      /\ w = [base |-> k, fills |-> e]
  BY DEF IsMark, FillsEnd
<1>2. v = [base |-> k, fills |-> d]
  <2>1. \A a, g, h : [[base |-> a, fills |-> g] EXCEPT !.fills = h] = [base |-> a, fills |-> h]
    OBVIOUS
  <2>2. v = [w EXCEPT !.fills = d]
    BY Zenon DEF PushFills
  <2> HIDE DEF e, k, d, v
  <2> QED
    BY <1>1, <2>1, <2>2, Zenon
<1>3. IsList(e) /\ IsList(f)
  BY <1>1, SequencesAreLists
<1>4. /\ d \in Seq(Fill) /\ IsList(d) /\ Len(d) = n + Len(f) /\ Len(f) \in Nat
      /\ \A j \in 1 .. n : d[j] = e[j]
      /\ \A j \in 1 .. Len(f) : d[n + j] = f[j]
  <2>1. d \in Seq(Fill)
    <3> HIDE DEF e
    <3> QED
      BY <1>1, ConcatProperties
  <2> QED
    BY <1>3, <2>1, ListsJoined
<1>5. IsMark(v, i)
  <2> HIDE DEF e, n, k, d, v
  <2>1. v.base = k /\ v.fills = d
    BY <1>2
  <2> QED
    BY <1>1, <1>2, <1>4, <2>1 DEF IsMark, FillsEnd
<1>6. FillsFrom(v, i) = y /\ FillsFrom(w, i) = x
  <2> HIDE DEF v
  <2> QED
    BY <1>2 DEF FillsFrom
<1>7. m = i - k + 1 /\ m \in Nat \ {0} /\ m <= n + 1 /\ m <= Len(d) + 1
  <2> HIDE DEF n, k, d
  <2> QED
    BY <1>1, <1>4
<1> HIDE DEF m
<1>8. IsList(x) /\ Len(x) = n - m + 1 /\ \A j \in 1 .. Len(x) : x[j] = e[m + j - 1]
  <2> HIDE DEF e
  <2> QED
    BY <1>3, <1>7, ListEnds
<1>9. IsList(y) /\ Len(y) = Len(d) - m + 1 /\ \A j \in 1 .. Len(y) : y[j] = d[m + j - 1]
  <2>1. IsList(d) /\ m \in Nat \ {0} /\ m <= Len(d) + 1
    BY <1>4, <1>7
  <2> HIDE DEF d
  <2> QED
    BY ONLY <2>1, ListEnds
<1> HIDE DEF x, y
<1>10. /\ IsList(x \o f) /\ Len(x \o f) = Len(x) + Len(f)
       /\ \A j \in 1 .. Len(x) : (x \o f)[j] = x[j]
       /\ \A j \in 1 .. Len(f) : (x \o f)[Len(x) + j] = f[j]
  <2>1. IsList(x) /\ IsList(f)
    BY <1>3, <1>8
  <2> QED
    BY ONLY <2>1, ListsJoined
<1> DEFINE z == x \o f
<1> HIDE DEF z, d, e, n, k
<1> DEFINE lx == Len(x)
           ly == Len(y)
           lf == Len(f)
<1>a. /\ n \in Int /\ m \in Int /\ lf \in Int /\ m >= 1 /\ m <= n + 1
      /\ lx = n - m + 1 /\ ly = n + lf - m + 1
  <2>1. lx = n - m + 1 /\ ly = Len(d) - m + 1 /\ Len(d) = n + lf
    BY <1>4, <1>8, <1>9
  <2>2. n \in Int /\ m \in Int /\ lf \in Int /\ m >= 1 /\ m <= n + 1
    <3> HIDE DEF lx, ly
    <3> QED
      BY <1>1, <1>4, <1>7
  <2> HIDE DEF lx, ly, lf
  <2> QED
    BY <2>1, <2>2
<1> HIDE DEF lx, ly, lf
<1>11. ASSUME NEW j \in 1 .. ly PROVE y[j] = z[j]
  <2>1. CASE j <= lx
    <3>1. j \in 1 .. lx /\ m + j - 1 \in 1 .. n
      BY ONLY <1>a, <2>1, j \in 1 .. ly
    <3>2. y[j] = d[m + j - 1]
      BY <1>9 DEF ly
    <3>3. x[j] = e[m + j - 1] /\ z[j] = x[j]
      BY <1>8, <1>10, <3>1 DEF lx, z
    <3> QED
      BY <1>4, <3>1, <3>2, <3>3
  <2>2. CASE ~(j <= lx)
    <3> DEFINE l == j - lx
    <3>1. l \in 1 .. lf /\ lx + l = j /\ n + l = m + j - 1
      BY ONLY <1>a, <2>2, j \in 1 .. ly
    <3> HIDE DEF l
    <3>2. z[lx + l] = f[l] /\ d[n + l] = f[l]
      BY <1>4, <1>10, <3>1 DEF z, lx, lf
    <3>3. y[j] = d[m + j - 1]
      BY <1>9 DEF ly
    <3> QED
      BY <3>1, <3>2, <3>3
  <2> QED
    BY <2>1, <2>2
<1>12. Len(y) = Len(z) /\ IsList(z)
  <2>1. ly = lx + lf
    BY ONLY <1>a
  <2> QED
    BY <1>10, <2>1 DEF z, lx, ly, lf
<1>13. y = z
  BY <1>9, <1>11, <1>12, ListsEqual DEF ly
<1> QED
  BY <1>5, <1>6, <1>13 DEF z, v

\* What is dropped has been read.
LEMMA DroppedIsRead ==
  ASSUME NEW w, NEW i, IsMark(w, i), NEW j \in Nat, j <= i
  PROVE  LET v == ConsumeThrough(w, j)
         IN IsMark(v, i) /\ FillsFrom(v, i) = FillsFrom(w, i)
<1> DEFINE e == w.fills
           n == Len(e)
           k == w.base
           v == ConsumeThrough(w, j)
<1>1. /\ k \in Nat /\ e \in Seq(Fill) /\ n \in Nat /\ i \in Nat /\ k <= i /\ i <= k + n
      /\ w = [base |-> k, fills |-> e] /\ IsList(e)
  BY SequencesAreLists DEF IsMark, FillsEnd
<1>2. CASE j <= k
  <2>1. v = w
    BY <1>2 DEF ConsumeThrough
  <2> QED
    BY <2>1
<1>3. CASE ~(j <= k)
  <2> DEFINE c == j - k
             d == SubSeq(e, c + 1, n)
             m == i - j + 1
             x == SubSeq(e, i - k + 1, n)
             y == SubSeq(d, m, Len(d))
  <2>1. c \in Nat /\ c <= n /\ c + 1 \in Nat \ {0} /\ c + 1 <= n + 1 /\ k + c = j
    <3> HIDE DEF n, k
    <3> QED
      BY <1>1, <1>3
  <2>2. v = [base |-> k + c, fills |-> d]
    <3>1. DropCount(w, j) = c
      BY DEF DropCount
    <3> HIDE DEF c
    <3> QED
      BY <1>3, <2>1, <3>1 DEF ConsumeThrough
  <2> HIDE DEF v
  <2>3. IsList(d) /\ Len(d) = n - c /\ \A l \in 1 .. Len(d) : d[l] = e[c + l]
    <3>1. IsList(d) /\ Len(d) = n - (c + 1) + 1 /\ \A l \in 1 .. Len(d) : d[l] = e[c + 1 + l - 1]
      <4> HIDE DEF e, c
      <4> QED
        BY <1>1, <2>1, ListEnds
    <3> HIDE DEF d, n, c
    <3>2. n - (c + 1) + 1 = n - c /\ \A l \in 1 .. n - c : c + 1 + l - 1 = c + l
      <4>1. n \in Int /\ c \in Int
        BY <1>1, <2>1
      <4> QED
        BY ONLY <4>1
    <3> QED
      BY <3>1, <3>2
  <2>4. d \in Seq(Fill)
    <3>1. \A l \in c + 1 .. n : e[l] \in Fill
      <4> HIDE DEF c
      <4> QED
        BY <1>1, <2>1
    <3>2. c + 1 \in Int /\ n \in Int
      BY <1>1, <2>1
    <3> HIDE DEF e, n, c
    <3> QED
      BY <3>1, <3>2, SubSeqProperties
  <2> HIDE DEF d
  <2>5. IsMark(v, i)
    <3> HIDE DEF e, n, c, k
    <3>1. v.base = k + c /\ v.fills = d
      BY <2>2
    <3>2. k + c <= i /\ i <= k + c + Len(d) /\ k + c \in Nat
      BY <1>1, <1>3, <2>1, <2>3
    <3> QED
      BY <1>1, <2>2, <2>4, <3>1, <3>2 DEF IsMark, FillsEnd
  <2>6. FillsFrom(v, i) = y /\ FillsFrom(w, i) = x
    <3>1. v.base = j /\ v.fills = d
      BY <2>1, <2>2
    <3> QED
      BY <3>1 DEF FillsFrom
  <2>7. IsList(x) /\ Len(x) = n - (i - k + 1) + 1 /\ \A l \in 1 .. Len(x) : x[l] = e[i - k + 1 + l - 1]
    <3> DEFINE a == i - k + 1
    <3>1. a \in Nat \ {0} /\ a <= n + 1
      <4> HIDE DEF n, k
      <4> QED
        BY <1>1
    <3> HIDE DEF e, a
    <3>2. LET u == SubSeq(e, a, Len(e))
          IN IsList(u) /\ Len(u) = Len(e) - a + 1 /\ \A l \in 1 .. Len(u) : u[l] = e[a + l - 1]
      BY <1>1, <3>1, ListEnds
    <3> QED
      BY <3>2 DEF a
  <2>8. IsList(y) /\ Len(y) = Len(d) - m + 1 /\ \A l \in 1 .. Len(y) : y[l] = d[m + l - 1]
    <3>1. m \in Nat \ {0} /\ m <= Len(d) + 1
      <4> HIDE DEF n, c, k
      <4> QED
        BY <1>1, <1>3, <2>1, <2>3, SMTT(30)
    <3> HIDE DEF m
    <3> QED
      BY <2>3, <3>1, ListEnds
  <2> HIDE DEF x, y, e, n, k, c
  <2>9. Len(x) = Len(y)
    BY <1>1, <1>3, <2>1, <2>3, <2>7, <2>8
  <2>10. ASSUME NEW l \in 1 .. Len(x) PROVE x[l] = y[l]
    <3>1. m + l - 1 \in 1 .. Len(d) /\ c + (m + l - 1) = i - k + 1 + l - 1
      BY <1>1, <1>3, <2>1, <2>3, <2>7
    <3>2. d[m + l - 1] = e[c + (m + l - 1)]
      BY <2>3, <3>1
    <3> QED
      BY <2>7, <2>8, <2>9, <3>1, <3>2
  <2>11. x = y
    BY <2>7, <2>8, <2>9, <2>10, ListsEqual
  <2> QED
    BY <2>5, <2>6, <2>11 DEF v
<1> QED
  BY <1>2, <1>3

-----------------------------------------------------------------------------
(***************************************************************************)
(* An exchange at which the driver's orders are safe once its fills are    *)
(* counted, and the messages that land at it.                              *)
(***************************************************************************)
\* A message as the driver sends them.
Orderly(a) ==
  \/ a.type = "Cancel"
  \/ a.type = "Limit" /\ a.id \in OwnIds /\ a.side \in Sides /\ a.qty = Size

\* The order that message a puts in the market, and the one it takes out.
LandedOf(a) == IF a.type = "Limit" THEN {a.id} ELSE {}
CalledBackBy(a) == IF a.type = "Cancel" THEN {a.id} ELSE {}

\* The exchange x, and the quotes q that are yet to be counted down by its
\* fills from index i on.
SafeExchange(x, q, i, L, A) ==
  /\ IsExchange(x) /\ IsMark(x.log, i) /\ q \in Quotes
  /\ Safe(x.truth, Counted(q, FillsFrom(x.log, i)), L, A)

\* What rests nowhere and is not on its way need not be counted on.
LEMMA SafeWithout ==
  ASSUME NEW x, NEW q, NEW i, NEW L, NEW A, SafeExchange(x, q, i, L, A),
         NEW W, W \cap L = {}, \A j \in W : ~Known(x.truth, j)
  PROVE  SafeExchange(x, q, i, L, A \ W)
<1> DEFINE n == Counted(q, FillsFrom(x.log, i))
           b == x.truth
<1>1. Safe(b, n, L, A)
  BY DEF SafeExchange
<1> HIDE DEF n
<1>2. Safe(b, n, L, A \ W)
  BY <1>1 DEF Safe
<1> QED
  BY <1>2 DEF SafeExchange, n

\* More may be counted on.
LEMMA SafeWithMore ==
  ASSUME NEW x, NEW q, NEW i, NEW L, NEW A, SafeExchange(x, q, i, L, A), NEW B, A \subseteq B
  PROVE  SafeExchange(x, q, i, L, B)
<1> DEFINE n == Counted(q, FillsFrom(x.log, i))
           b == x.truth
<1>1. Safe(b, n, L, A)
  BY DEF SafeExchange
<1> HIDE DEF n
<1>2. Safe(b, n, L, B)
  BY <1>1 DEF Safe
<1> QED
  BY <1>2 DEF SafeExchange, n

\* A submission executed.
LEMMA SafeExecuted ==
  ASSUME NEW x, NEW q, NEW i, NEW L, NEW A, SafeExchange(x, q, i, L, A), NEW y, NEW r, NEW M,
         y.truth = x.truth, y.log = x.log,
         r.fills \in Seq(Fill),
         Safe(r.book, Counted(Counted(q, FillsFrom(x.log, i)), r.fills), M, A)
  PROVE  SafeExchange(Executed(y, r), q, i, M, A)
<1> DEFINE z == Executed(y, r)
           u == FillsFrom(x.log, i)
<1>1. z.truth = r.book /\ z.log = PushFills(x.log, r.fills) /\ IsExchange(z)
  BY DEF Executed, IsExchange
<1>2. IsMark(x.log, i) /\ q \in Quotes
  BY DEF SafeExchange
<1>3. u \in Seq(Fill) /\ IsMark(z.log, i) /\ FillsFrom(z.log, i) = u \o r.fills
  <2> DEFINE w == x.log
             f == r.fills
  <2>1. IsMark(w, i) /\ f \in Seq(Fill)
    BY <1>2
  <2> HIDE DEF z, w, f
  <2>2. FillsFrom(w, i) \in Seq(Fill)
    BY <2>1, UnreadFills
  <2>3. IsMark(PushFills(w, f), i) /\ FillsFrom(PushFills(w, f), i) = FillsFrom(w, i) \o f
    BY <2>1, PushedIsUnread
  <2> QED
    BY <1>1, <2>2, <2>3 DEF w, f
<1> HIDE DEF z, u
<1>4. Counted(q, u \o r.fills) = Counted(Counted(q, u), r.fills)
  <2>1. IsList(u) /\ IsList(r.fills)
    BY <1>3, SequencesAreLists
  <2> QED
    BY <2>1, CountedJoins, SMTT(30)
<1> QED
  BY <1>1, <1>2, <1>3, <1>4 DEF SafeExchange, z, u

\* What a message leaves of the exchange, beside its counters.
LEMMA MessageIsExecuted ==
  ASSUME NEW x, IsExchange(x), NEW a
  PROVE  \E y : /\ y.truth = x.truth /\ y.log = x.log
                /\ ApplyAction(x, a) = Executed(y, ResultOf(x.truth, a))
<1> DEFINE r == ResultOf(x.truth, a)
<1>1. ASSUME NEW p, NEW q
      PROVE  LET z == [x EXCEPT !.stats.applied = p, !.stats.lateCancels = q]
             IN z.log = x.log /\ z.truth = x.truth
  <2> DEFINE s == [x.stats EXCEPT !.applied = p]
             y == [x EXCEPT !.stats = s]
             u == [y.stats EXCEPT !.lateCancels = q]
             z == [y EXCEPT !.stats = u]
  <2>1. IsExchange(y) /\ y.log = x.log /\ y.truth = x.truth
    <3> HIDE DEF s
    <3> QED
      BY CountersReplaced
  <2>2. z.log = y.log /\ z.truth = y.truth
    <3> HIDE DEF u, y
    <3> QED
      BY <2>1, CountersReplaced
  <2>3. z.log = x.log /\ z.truth = x.truth
    <3> HIDE DEF s, y, u, z
    <3> QED
      BY <2>1, <2>2
  <2> QED
    BY ONLY <2>3
<1>2. PICK p, q : ApplyAction(x, a)
                    = Executed([x EXCEPT !.stats.applied = p, !.stats.lateCancels = q], r)
  BY Zenon DEF ApplyAction
<1> DEFINE z == [x EXCEPT !.stats.applied = p, !.stats.lateCancels = q]
<1>3. ApplyAction(x, a) = Executed(z, r)
  BY <1>2
<1>4. z.log = x.log /\ z.truth = x.truth
  BY <1>1
<1> HIDE DEF z, r
<1>5. \E y : y.truth = x.truth /\ y.log = x.log /\ ApplyAction(x, a) = Executed(y, r)
  BY <1>3, <1>4
<1> QED
  BY <1>5 DEF r

\* A message of the driver lands.
LEMMA MessageLands ==
  ASSUME NEW x, NEW q, NEW i, NEW L, NEW A, SafeExchange(x, q, i, L, A),
         NEW a, Orderly(a), LandedOf(a) \subseteq L
  PROVE  SafeExchange(ApplyAction(x, a), q, i, L \ LandedOf(a), A)
<1> DEFINE r == ResultOf(x.truth, a)
           n == Counted(q, FillsFrom(x.log, i))
           b == x.truth
<1>1. Safe(b, n, L, A) /\ IsExchange(x)
  BY DEF SafeExchange
<1>2. r.fills \in Seq(Fill) /\ Safe(r.book, Counted(n, r.fills), L \ LandedOf(a), A)
  <2>1. CASE a.type = "Limit"
    <3>1. a.id \in L /\ a.side \in Sides /\ a.qty = Size /\ LandedOf(a) = {a.id}
      BY <2>1 DEF Orderly, LandedOf
    <3>2. PICK mine \in BOOLEAN : mine = TRUE
      OBVIOUS
    <3>3. r = SubmitLimit(b, Rule, a.id, a.side, a.price, Size, mine)
      BY <2>1, <3>1, <3>2, Zenon DEF ResultOf
    <3> HIDE DEF r, n, b
    <3> QED
      BY <1>1, <3>1, <3>3, LimitLands
  <2>2. CASE a.type = "Cancel"
    <3> DEFINE d == Remove(b, a.id).book
    <3>1. r.book = d /\ r.fills = <<>>
      BY <2>2 DEF ResultOf, Submitted
    <3>2. L \ LandedOf(a) = L
      BY <2>2 DEF LandedOf
    <3>3. Sound(d) /\ Lowers(b, d, {})
      <4>1. Sound(b)
        BY <1>1 DEF Safe
      <4> HIDE DEF b
      <4> QED
        BY <4>1, RemoveLowers
    <3> HIDE DEF r, n, b, d
    <3>4. Safe(d, n, L, A)
      BY <1>1, <3>3, SafeLowers
    <3>5. <<>> \in Seq(Fill) /\ Counted(n, <<>>) = n
      BY CountedJoins
    <3> QED
      BY <3>1, <3>2, <3>4, <3>5
  <2> QED
    BY <2>1, <2>2 DEF Orderly
<1>3. PICK y : /\ y.truth = x.truth /\ y.log = x.log
               /\ ApplyAction(x, a) = Executed(y, r)
  BY <1>1, MessageIsExecuted
<1> HIDE DEF r
<1>4. SafeExchange(Executed(y, r), q, i, L \ LandedOf(a), A)
  BY <1>2, <1>3, SafeExecuted
<1> QED
  BY <1>3, <1>4

\* The order of a cancel that has landed rests nowhere.
LEMMA CancelledIsGone ==
  ASSUME NEW x, NEW q, NEW i, NEW L, NEW A, SafeExchange(x, q, i, L, A), NEW a, a.type = "Cancel"
  PROVE  ~Known(ApplyAction(x, a).truth, a.id)
<1> DEFINE b == x.truth
           r == ResultOf(b, a)
           d == Remove(b, a.id).book
<1>1. r.book = d
  BY DEF ResultOf, Submitted
<1>2. Sound(b) /\ IsExchange(x)
  BY DEF SafeExchange, Safe
<1>3. PICK y : ApplyAction(x, a) = Executed(y, r)
  BY <1>2, MessageIsExecuted
<1> HIDE DEF r, b
<1>4. ~Known(d, a.id)
  BY <1>2, RemoveLowers
<1> HIDE DEF d
<1> QED
  BY <1>1, <1>3, <1>4 DEF Executed

\* No message, or one after another.
LEMMA MessagesInTurn ==
  ASSUME NEW x
  PROVE  /\ SX!FoldLeft(ApplyAction, x, <<>>) = x
         /\ \A s, t : IsList(s) /\ IsList(t) =>
              SX!FoldLeft(ApplyAction, x, s \o t)
                = SX!FoldLeft(ApplyAction, SX!FoldLeft(ApplyAction, x, s), t)
<1> DEFINE F(y, s) == SX!FoldLeft(ApplyAction, y, s)
<1>a. \A y, s : IsList(s) => Leads("message", y, s, F(y, s))
  BY MessagesWalk
<1> HIDE DEF F
<1>1. F(x, <<>>) = x
  <2>1. PICK p : IsWalk("message", x, <<>>, p) /\ p[Len(<<>>)] = F(x, <<>>)
    BY <1>a, NothingIsAList DEF Leads
  <2>2. Len(<<>>) = 0
    OBVIOUS
  <2> QED
    BY <2>1, <2>2 DEF IsWalk
<1>2. ASSUME NEW s, NEW t, IsList(s), IsList(t) PROVE F(x, s \o t) = F(F(x, s), t)
  <2>1. Leads("message", x, s, F(x, s)) /\ Leads("message", F(x, s), t, F(F(x, s), t))
    BY <1>a, <1>2
  <2>2. Leads("message", x, s \o t, F(F(x, s), t))
    BY <1>2, <2>1, WalksJoin
  <2>3. IsList(s \o t)
    BY <1>2, ListsJoined
  <2>4. Leads("message", x, s \o t, F(x, s \o t))
    BY <1>a, <2>3
  <2> QED
    BY ONLY <2>2, <2>3, <2>4, WalksAgree
<1> QED
  BY <1>1, <1>2 DEF F

-----------------------------------------------------------------------------
(***************************************************************************)
(* The inductive invariant of the driver.                                  *)
(***************************************************************************)
\* The events drawn so far.
Drawn == IF pc \in {"draw", "drain", "done"} THEN turn ELSE turn + 1

\* The generator has not drawn more ids than it may.
DrawsAreCounted ==
  /\ config \in Configs /\ turn \in Nat /\ Drawn <= config.events
  /\ gen \in Generator /\ gen.next <= FirstId + Drawn

\* The event drawn makes no order of ours.
EventIsTheMarkets == event \in MarketEvent /\ \A i \in Newcomers(event) : i \notin OwnIds

\* What is in flight are messages of the driver, sent in a turn before this
\* one: each limit under its own id, and its cancel in a later turn.
MessagesAreOrderly ==
  /\ \A a \in inflight : Orderly(a) /\ a.decided \in Nat /\ a.decided < turn
  /\ \A a, d \in inflight : a.type = "Limit" /\ d.type = "Limit" /\ a.id = d.id => a = d
  /\ \A a, d \in inflight :
       a.type = "Limit" /\ d.type = "Cancel" /\ a.id = d.id => a.decided < d.decided
  /\ ~config.latency => inflight = {}

IdsAreUsed ==
  /\ used \subseteq OwnIds /\ Out \cup cancelled \subseteq used
  /\ OfType("Cancel") \subseteq cancelled

\* Once the fills it has not read are counted, a quote covers what rests; and
\* the driver counts on what rests and what is on its way, or has cancelled it.
QuotesAreSafe == SafeExchange(Exchange, quote, agentRead, OfType("Limit"), Out \cup cancelled)

\* While messages land in order the cancel is still on its way.
OrdersAreFollowed ==
  ~config.jitter =>
    SafeExchange(Exchange, quote, agentRead, OfType("Limit"), Out \cup OfType("Cancel"))

DriverInv ==
  /\ DrawsAreCounted /\ EventIsTheMarkets /\ MessagesAreOrderly /\ IdsAreUsed
  /\ QuotesAreSafe /\ OrdersAreFollowed
  /\ fillsSeen \in Nat

\* Only an add and a replace make an order known, and under the next id.
LEMMA NewcomersAreNext ==
  ASSUME NEW g, NEW e \in Draws(g)
  PROVE  \A i \in Newcomers(e) : i = g.next
<1> DEFINE IsNext(x) == \A i \in Newcomers(x) : i = g.next
<1>1. \A type, id, new, sd, p, q : LET x == Event(type, id, new, sd, p, q)
                                   IN x.type = type /\ x.id = id /\ x.new = new
  BY DEF Event
<1>2. ASSUME NEW x \in Adds(g) PROVE IsNext(x)
  <2>1. PICK sd \in Sides, p \in Window, q \in Positive :
          x = Event("Add", g.next, g.next, sd, PriceFor(g, sd, p), q)
    BY <1>2 DEF Adds
  <2> QED
    BY <1>1, <2>1 DEF Newcomers
<1>3. ASSUME NEW x \in Replaces(g) PROVE IsNext(x)
  <2>1. PICK l \in g.live, p \in Window, q \in Positive :
          x = Event("Replace", l.id, g.next, l.side, PriceFor(g, l.side, p), q)
    BY <1>3 DEF Replaces
  <2> QED
    BY <1>1, <2>1 DEF Newcomers
<1>4. ASSUME NEW x, x.type \notin {"Add", "Replace"} PROVE IsNext(x)
  BY <1>4 DEF Newcomers
<1>5. \A x \in Deletes(g) : x.type = "Delete"
  BY <1>1 DEF Deletes
<1>6. ASSUME NEW type, NEW x \in Takes(g, type) PROVE x.type = type
  <2>1. PICK l \in g.live :
          \E q \in 1 .. l.qty : x = Event(type, l.id, l.id, l.side, l.price, q)
    BY <1>6, Zenon DEF Takes
  <2> QED
    BY <1>1, <2>1
<1>7. ASSUME NEW x \in Aggresses(g) PROVE x.type = "Aggress"
  <2> DEFINE S == {Event("Aggress", g.next, g.next, sd, 0, q) : sd \in Sides, q \in Positive}
  <2>1. x \in S
    <3>1. Aggresses(g) = IF g.live = {} THEN {} ELSE S
      BY DEF Aggresses
    <3> HIDE DEF S
    <3> QED
      BY <1>7, <3>1
  <2> QED
    <3>1. PICK sd \in Sides, q \in Positive : x = Event("Aggress", g.next, g.next, sd, 0, q)
      BY <2>1
    <3> QED
      BY <1>1, <3>1
<1> HIDE DEF IsNext
<1>8. IsNext(e)
  BY <1>2, <1>3, <1>4, <1>5, <1>6, <1>7 DEF Draws
<1> QED
  BY <1>8 DEF IsNext

\* Being told of an event moves no id counter.
LEMMA CounterStays ==
  ASSUME NEW g \in Generator, NEW b, NEW e, e.type \in EventTypes, NEW n, NEW fills
  PROVE  Observe(OnApplied(ForgetUsedUp(g, b, fills), e, n), b).next = g.next
<1> DEFINE Record(h) == h = [live |-> h.live, next |-> g.next, touch |-> h.touch]
<1>1. ASSUME NEW h, Record(h)
      PROVE  /\ \A l : Record([h EXCEPT !.live = l])
             /\ \A t : Record([h EXCEPT !.touch = t])
  <2>1. \A l, t : Record([live |-> l, next |-> g.next, touch |-> t])
    OBVIOUS
  <2> DEFINE l0 == h.live
             t0 == h.touch
  <2>3. h = [live |-> l0, next |-> g.next, touch |-> t0]
    BY <1>1
  <2> HIDE DEF l0, t0, Record
  <2>4. ASSUME NEW m
        PROVE  /\ [h EXCEPT !.live = m] = [live |-> m, next |-> g.next, touch |-> t0]
               /\ [h EXCEPT !.touch = m] = [live |-> l0, next |-> g.next, touch |-> m]
    BY <2>3
  <2>5. ASSUME NEW m PROVE Record([h EXCEPT !.live = m]) /\ Record([h EXCEPT !.touch = m])
    <3>1. /\ Record([live |-> m, next |-> g.next, touch |-> t0])
          /\ Record([live |-> l0, next |-> g.next, touch |-> m])
      BY <2>1
    <3> QED
      BY <2>4, <3>1
  <2> QED
    BY <2>5
<1>2. Record(g)
  BY DEF Generator
<1> DEFINE f == ForgetUsedUp(g, b, fills)
           o == OnApplied(f, e, n)
<1>3. Record(f)
  <2>1. \E l : f = [g EXCEPT !.live = l]
    BY Zenon DEF ForgetUsedUp
  <2> HIDE DEF f, Record
  <2> QED
    BY <1>1, <1>2, <2>1
<1> HIDE DEF f
<1>4. Record(o)
  <2>1. \A h, l : \E m : Remember(h, l) = [h EXCEPT !.live = m]
    BY Zenon DEF Remember
  <2>2. \A h, i : \E m : Forget(h, i) = [h EXCEPT !.live = m]
    BY Zenon DEF Forget
  <2> HIDE DEF Record
  <2>3. \A h : Record(h) => (\A l : Record(Remember(h, l))) /\ (\A i : Record(Forget(h, i)))
    BY <1>1, <2>1, <2>2
  <2>4. \/ o = f
        \/ \E l : o = Remember(f, l)
        \/ \E i : o = Forget(f, i)
        \/ \E m : o = [f EXCEPT !.live = m]
        \/ \E i, l : o = Remember(Forget(f, i), l)
    BY Zenon DEF OnApplied, EventTypes
  <2> QED
    BY <1>1, <1>3, <2>3, <2>4
<1> HIDE DEF o
<1>5. Record(Observe(o, b))
  <2>1. \E t : Observe(o, b) = [o EXCEPT !.touch = t]
    BY Zenon DEF Observe
  <2> HIDE DEF Record
  <2> QED
    BY <1>1, <1>4, <2>1, SMTT(30)
<1>6. \A h : Record(h) => h.next = g.next
  OBVIOUS
<1> HIDE DEF Record
<1> QED
  BY <1>5, <1>6 DEF o, f

\* The exchange becomes x.
LEMMA BecomesExchange ==
  ASSUME NEW x, IsExchange(x), ExchangeBecomes(x)
  PROVE  Exchange' = x
BY DEF IsExchange, ExchangeBecomes, Exchange

-----------------------------------------------------------------------------
(***************************************************************************)
(* The steps of the exchange, the market and the messages under way.       *)
(***************************************************************************)
\* At the start the driver has nothing out.
LEMMA DriverInvInit == DInit => DriverInv
<1> SUFFICES ASSUME DInit PROVE DriverInv
  OBVIOUS
<1> USE InputAssumption DEF DInit, Init
<1>1. DrawsAreCounted
  <2>1. gen \in Generator /\ gen.next = FirstId
    BY DEF NewGenerator, Generator
  <2> QED
    BY <2>1 DEF DrawsAreCounted, Drawn
<1>2. EventIsTheMarkets
  <2>1. event \in MarketEvent /\ event.type = "Clear"
    BY DEF Event, MarketEvent, EventTypes, Sides
  <2> QED
    BY <2>1 DEF EventIsTheMarkets, Newcomers
<1>3. MessagesAreOrderly
  BY DEF MessagesAreOrderly
<1>4. OfType("Limit") = {} /\ OfType("Cancel") = {} /\ Out = {} /\ cancelled = {}
  <2>1. \A sd \in Sides : quote[sd].id = NoOrderOut
    BY DEF InitQuotes
  <2> QED
    BY <2>1 DEF OfType, Out
<1>5. IdsAreUsed
  BY <1>4 DEF IdsAreUsed
<1>6. QuotesAreSafe /\ OrdersAreFollowed
  <2>1. quote \in Quotes /\ \A sd \in Sides : quote[sd].id = NoOrderOut
    BY DEF InitQuotes, Quotes, Quote, NoOrderOut
  <2>2. IsMark(log, 0)
    <3>1. <<>> \in Seq(Fill) /\ Len(<<>>) = 0
      OBVIOUS
    <3> QED
      BY <3>1 DEF EmptyLog, IsMark, FillsEnd
  <2>3. FillsFrom(log, 0) = <<>>
    <3>1. FillsEnd(log) = 0
      BY DEF EmptyLog, FillsEnd
    <3> QED
      BY <2>2, <3>1, UnreadFills
  <2>4. Sound(truth) /\ \A i : ~Known(truth, i)
    BY EmptyIsABook DEF Sound, Once, Spot, RefEmpty, Known, IsAt, IdsIn
  <2>5. Safe(truth, quote, {}, {})
    BY <2>1, <2>4 DEF Safe, Covers
  <2>6. Counted(quote, <<>>) = quote
    BY CountedJoins
  <2> HIDE DEF DInit, Init
  <2>7. Exchange.truth = truth /\ Exchange.log = log /\ IsExchange(Exchange) /\ agentRead = 0
    BY ExchangeStands DEF DInit, Init, Exchange
  <2>8. SafeExchange(Exchange, quote, agentRead, {}, {})
    BY <2>1, <2>2, <2>3, <2>5, <2>6, <2>7 DEF SafeExchange
  <2>9. OfType("Limit") = {} /\ Out \cup cancelled = {} /\ Out \cup OfType("Cancel") = {}
    BY <1>4
  <2> QED
    BY <2>8, <2>9 DEF QuotesAreSafe, OrdersAreFollowed
<1> QED
  BY <1>1, <1>2, <1>3, <1>5, <1>6 DEF DriverInv

\* The driver and the exchange stay as they are, and no event is drawn.
LEMMA DriverRests ==
  ASSUME DriverInv, fillsSeen' \in Nat, Drawn' = Drawn,
         UNCHANGED <<config, turn, event, truth, gen, inflight, log, agentRead, stats, used, tape,
                     quote, cancelled>>
  PROVE  DriverInv'
<1>1. /\ Exchange' = Exchange /\ Out' = Out
      /\ OfType("Limit")' = OfType("Limit") /\ OfType("Cancel")' = OfType("Cancel")
  BY DEF Exchange, OfType, Out
<1>2. QuotesAreSafe' /\ OrdersAreFollowed'
  BY <1>1 DEF QuotesAreSafe, OrdersAreFollowed, DriverInv
<1>3. DrawsAreCounted'
  BY DEF DriverInv, DrawsAreCounted
<1>4. EventIsTheMarkets' /\ MessagesAreOrderly' /\ IdsAreUsed'
  BY <1>1 DEF DriverInv, EventIsTheMarkets, MessagesAreOrderly, IdsAreUsed
<1> QED
  BY <1>2, <1>3, <1>4 DEF DriverInv

\* Trimming the log as an event is drawn takes no fill that the driver has to
\* count.
LEMMA DrawIsSafe ==
  ASSUME DriverInv, Draw, UNCHANGED quote,
         NEW L, NEW A, SafeExchange(Exchange, quote, agentRead, L, A)
  PROVE  SafeExchange(Exchange', quote', agentRead', L, A)
<1>1. /\ log' = ConsumeThrough(log, ReadByBoth)
      /\ UNCHANGED <<truth, agentRead, stats, tape>>
  BY DEF Draw
<1>2. /\ IsMark(log, agentRead) /\ quote \in Quotes
      /\ Safe(truth, Counted(quote, FillsFrom(log, agentRead)), L, A)
  BY DEF SafeExchange, Exchange
<1>3. ReadByBoth \in Nat /\ ReadByBoth <= agentRead
  BY <1>2 DEF DriverInv, ReadByBoth, Lesser, IsMark
<1>4. IsMark(log', agentRead) /\ FillsFrom(log', agentRead) = FillsFrom(log, agentRead)
  BY <1>1, <1>2, <1>3, DroppedIsRead
<1>5. Exchange'.truth = truth /\ Exchange'.log = log' /\ IsExchange(Exchange')
  BY <1>1 DEF Exchange, IsExchange
<1> QED
  BY <1>1, <1>2, <1>4, <1>5 DEF SafeExchange

\* A message of the driver lands; a cancel leaves its order nowhere.
LEMMA MessageIsSafe ==
  ASSUME NEW a, Orderly(a), ExchangeBecomes(ApplyAction(Exchange, a)),
         UNCHANGED <<quote, agentRead>>,
         NEW L, NEW A, SafeExchange(Exchange, quote, agentRead, L, A), LandedOf(a) \subseteq L
  PROVE  /\ SafeExchange(Exchange', quote', agentRead', L \ LandedOf(a), A)
         /\ a.type = "Cancel" => ~Known(truth', a.id)
<1> DEFINE y == ApplyAction(Exchange, a)
<1>1. SafeExchange(y, quote, agentRead, L \ LandedOf(a), A)
  BY MessageLands
<1>2. a.type = "Cancel" => ~Known(y.truth, a.id)
  BY CancelledIsGone
<1>3. ExchangeBecomes(y)
  OBVIOUS
<1> HIDE DEF y
<1>4. Exchange' = y /\ truth' = y.truth
  BY <1>1, <1>3, BecomesExchange DEF SafeExchange, ExchangeBecomes
<1> QED
  BY <1>1, <1>2, <1>4

\* The exchange handles an event of the market.
LEMMA EventIsSafe ==
  ASSUME DriverInv, EventHandled, UNCHANGED quote,
         NEW L, NEW A, SafeExchange(Exchange, quote, agentRead, L, A)
  PROVE  SafeExchange(Exchange', quote', agentRead', L, A)
<1> DEFINE r == IF event.type = "Aggress"
                  THEN SubmitMarket(truth, Rule, event.id, event.side, event.qty, FALSE)
                  ELSE Submitted(Apply(truth, event).book, <<>>, 0, 0, "Ok")
           x == Executed(Exchange, r)
           n == Counted(quote, FillsFrom(log, agentRead))
<1>1. ExchangeBecomes(x) /\ agentRead' = agentRead
  BY Zenon DEF EventHandled, Handle
<1>2. /\ event \in MarketEvent /\ Safe(truth, n, L, A)
      /\ \A i \in Newcomers(event) : i \notin OwnIds
  BY DEF DriverInv, EventIsTheMarkets, SafeExchange, Exchange
<1> HIDE DEF n
<1>3. r.fills \in Seq(Fill) /\ Safe(r.book, Counted(n, r.fills), L, A)
  <2>1. event.id \in Int /\ event.side \in Sides /\ event.qty \in Int
    BY <1>2 DEF MarketEvent
  <2>2. CASE event.type = "Aggress"
    <3>1. PICK mine \in BOOLEAN : mine = FALSE
      OBVIOUS
    <3>2. r = SubmitMarket(truth, Rule, event.id, event.side, event.qty, mine)
      BY <2>2, <3>1, Zenon
    <3> HIDE DEF r
    <3> QED
      BY <1>2, <2>1, <3>2, MarketCrosses
  <2>3. CASE event.type # "Aggress"
    <3> DEFINE d == Apply(truth, event).book
    <3>1. r.book = d /\ r.fills = <<>>
      BY <2>3 DEF Submitted
    <3>2. Sound(d) /\ Lowers(truth, d, Newcomers(event))
      BY <1>2, ApplyLowers DEF Safe
    <3> HIDE DEF r, d
    <3>3. Safe(d, n, L, A)
      BY <1>2, <3>2, SafeLowers
    <3>4. <<>> \in Seq(Fill) /\ Counted(n, <<>>) = n
      BY CountedJoins
    <3> QED
      BY <3>1, <3>3, <3>4
  <2> QED
    BY <2>2, <2>3
<1> HIDE DEF r
<1>4. SafeExchange(x, quote, agentRead, L, A)
  <2>1. Exchange.truth = truth /\ Exchange.log = log
    BY DEF Exchange
  <2> QED
    BY <1>3, <2>1, SafeExecuted DEF n
<1> HIDE DEF x
<1>5. Exchange' = x
  BY <1>1, <1>4, BecomesExchange DEF SafeExchange
<1> QED
  BY <1>1, <1>4, <1>5

\* An event is drawn; the log is trimmed behind the driver.
LEMMA DrawKeepsDriver ==
  ASSUME DriverInv, Draw, UNCHANGED <<quote, cancelled>>
  PROVE  DriverInv'
<1>1. PICK e \in Draws(gen) : event' = e /\ gen' = Drew(gen, e)
  BY DEF Draw
<1>2. /\ pc = "draw" /\ turn < config.events /\ log' = ConsumeThrough(log, ReadByBoth)
      /\ pc' = "orders"
      /\ UNCHANGED <<config, turn, truth, inflight, fillsSeen, agentRead, stats, used, tape>>
  BY DEF Draw
<1>3. /\ gen \in Generator /\ turn \in Nat /\ config \in Configs /\ config.events \in Nat
      /\ gen.next <= FirstId + turn /\ FirstId \in Nat /\ gen.next \in Int
  BY <1>2, InputAssumption DEF DriverInv, DrawsAreCounted, Drawn, Generator
<1>4. e \in MarketEvent /\ gen' \in Generator
  BY <1>1, <1>3, DrawsAreTyped
<1>5. gen'.next <= gen.next + 1
  BY <1>1, <1>3 DEF Drew, Generator
<1>6. DrawsAreCounted'
  <2>1. Drawn' = turn + 1
    BY <1>2 DEF Drawn
  <2>2. gen'.next \in Int
    BY <1>4 DEF Generator
  <2>3. turn + 1 <= config.events /\ gen'.next <= FirstId + (turn + 1)
    BY <1>2, <1>3, <1>5, <2>2
  <2> QED
    BY <1>2, <1>3, <1>4, <2>1, <2>3 DEF DrawsAreCounted
<1>7. EventIsTheMarkets'
  <2>1. \A i \in Newcomers(e) : i = gen.next
    BY NewcomersAreNext
  <2>2. \A i \in OwnIds : i > FirstId + config.events /\ i \in Int
    BY <1>3, OwnIdsAssumption, OwnIdsAreNumbers
  <2>3. gen.next \notin OwnIds
    BY <1>2, <1>3, <2>2
  <2> QED
    BY <1>1, <1>4, <2>1, <2>3 DEF EventIsTheMarkets
<1>8. /\ OfType("Limit")' = OfType("Limit") /\ OfType("Cancel")' = OfType("Cancel")
      /\ Out' = Out /\ cancelled' = cancelled
  BY <1>2 DEF OfType, Out
<1>9. QuotesAreSafe' /\ OrdersAreFollowed'
  <2>1. SafeExchange(Exchange', quote', agentRead', OfType("Limit"), Out \cup cancelled)
    BY DrawIsSafe DEF DriverInv, QuotesAreSafe
  <2>2. ~config.jitter =>
          SafeExchange(Exchange', quote', agentRead', OfType("Limit"), Out \cup OfType("Cancel"))
    BY DrawIsSafe DEF DriverInv, OrdersAreFollowed
  <2> QED
    BY <1>2, <1>8, <2>1, <2>2 DEF QuotesAreSafe, OrdersAreFollowed
<1>10. MessagesAreOrderly' /\ IdsAreUsed' /\ fillsSeen' \in Nat
  BY <1>2, <1>8 DEF DriverInv, MessagesAreOrderly, IdsAreUsed
<1> QED
  BY <1>6, <1>7, <1>9, <1>10 DEF DriverInv

\* A message of the driver lands.
LEMMA OrderLandsKeepsDriver ==
  ASSUME DriverInv, OrderLands, UNCHANGED <<quote, cancelled>>
  PROVE  DriverInv'
<1>1. PICK a \in inflight : /\ MayLand(a) /\ inflight' = inflight \ {a}
                           /\ ExchangeBecomes(ApplyAction(Exchange, a))
  BY DEF OrderLands
<1>2. UNCHANGED <<config, pc, turn, event, gen, fillsSeen, agentRead, used>>
  BY DEF OrderLands
<1>3. Orderly(a) /\ LandedOf(a) \subseteq OfType("Limit") /\ a.id \in OfType(a.type)
  BY DEF DriverInv, MessagesAreOrderly, LandedOf, OfType
<1>4. /\ OfType("Limit")' = OfType("Limit") \ LandedOf(a)
      /\ OfType("Cancel")' \subseteq OfType("Cancel")
      /\ \A i \in OfType("Cancel") : i \in OfType("Cancel")' \/ (a.type = "Cancel" /\ i = a.id)
  <2>1. \A d \in inflight : d.type = "Limit" /\ d.id \in LandedOf(a) => d = a
    BY DEF LandedOf, DriverInv, MessagesAreOrderly
  <2>2. \A i, type : i \in OfType(type) <=> \E d \in inflight : d.type = type /\ d.id = i
    BY DEF OfType
  <2>3. /\ \A i : i \in OfType("Limit")' <=> \E d \in inflight \ {a} : d.type = "Limit" /\ d.id = i
        /\ \A i : i \in OfType("Cancel")' <=> \E d \in inflight \ {a} : d.type = "Cancel" /\ d.id = i
    BY <1>1 DEF OfType
  <2>4. \A i : i \in LandedOf(a) <=> a.type = "Limit" /\ a.id = i
    BY DEF LandedOf
  <2>5. ASSUME NEW i PROVE i \in OfType("Limit")' <=> i \in OfType("Limit") \ LandedOf(a)
    BY <2>1, <2>2, <2>3, <2>4
  <2>6. \A i \in OfType("Cancel")' : i \in OfType("Cancel")
    BY <2>2, <2>3
  <2>7. \A i \in OfType("Cancel") : i \in OfType("Cancel")' \/ (a.type = "Cancel" /\ i = a.id)
    BY <2>2, <2>3
  <2> QED
    BY <2>5, <2>6, <2>7
<1>5. Out' = Out /\ cancelled' = cancelled
  BY DEF Out
<1>6. QuotesAreSafe'
  <2>1. SafeExchange(Exchange', quote', agentRead', OfType("Limit") \ LandedOf(a), Out \cup cancelled)
    BY <1>1, <1>2, <1>3, MessageIsSafe DEF DriverInv, QuotesAreSafe
  <2> QED
    BY <1>4, <1>5, <2>1 DEF QuotesAreSafe
<1>7. OrdersAreFollowed'
  <2> SUFFICES ASSUME ~config.jitter
               PROVE  SafeExchange(Exchange', quote', agentRead', OfType("Limit")', Out' \cup OfType("Cancel")')
    BY <1>2 DEF OrdersAreFollowed
  <2> DEFINE L == OfType("Limit")
             C == OfType("Cancel")
             M == OfType("Limit")'
             D == OfType("Cancel")'
             W == CalledBackBy(a)
  <2>1. /\ SafeExchange(Exchange', quote', agentRead', L \ LandedOf(a), Out \cup C)
        /\ a.type = "Cancel" => ~Known(truth', a.id)
    BY <1>1, <1>2, <1>3, MessageIsSafe DEF DriverInv, OrdersAreFollowed
  <2>2. W \cap M = {}
    <3> SUFFICES ASSUME a.type = "Cancel", NEW d \in inflight', d.type = "Limit", d.id = a.id
                 PROVE  FALSE
      BY DEF OfType, CalledBackBy
    <3>1. d \in inflight /\ d.decided < a.decided
      BY <1>1 DEF DriverInv, MessagesAreOrderly
    <3> QED
      BY <1>1, <3>1 DEF MayLand, IsBefore
  <2>3. \A i \in W : ~Known(Exchange'.truth, i)
    BY <2>1 DEF CalledBackBy, Exchange
  <2>4. M = L \ LandedOf(a) /\ (Out \cup C) \ W \subseteq Out \cup D
    BY <1>4 DEF CalledBackBy
  <2> HIDE DEF L, C, M, D, W
  <2>5. SafeExchange(Exchange', quote', agentRead', M, (Out \cup C) \ W)
    BY <2>1, <2>2, <2>3, <2>4, SafeWithout
  <2>6. SafeExchange(Exchange', quote', agentRead', M, Out \cup D)
    BY <2>4, <2>5, SafeWithMore
  <2> QED
    BY <1>5, <2>6 DEF M, D
<1>8. MessagesAreOrderly'
  BY <1>1, <1>2 DEF DriverInv, MessagesAreOrderly
<1>9. IdsAreUsed'
  BY <1>2, <1>4, <1>5 DEF DriverInv, IdsAreUsed
<1> QED
  BY <1>2, <1>6, <1>7, <1>8, <1>9 DEF DriverInv, DrawsAreCounted, Drawn, EventIsTheMarkets

\* The exchange handles an event of the market, and the generator is told.
LEMMA EventKeepsDriver ==
  ASSUME DriverInv, EventHandled, UNCHANGED <<quote, cancelled>>
  PROVE  DriverInv'
<1>1. PICK b, fills :
        /\ truth' = b
        /\ gen' = Observe(OnApplied(ForgetUsedUp(gen, b, fills), event, QtyOf(b, event.id)), b)
  BY Zenon DEF EventHandled, Handle, ExchangeBecomes
<1>2. /\ UNCHANGED <<config, turn, event, inflight, fillsSeen, agentRead, used>>
      /\ pc = "event" /\ pc' = "publish"
  BY DEF EventHandled
<1>3. /\ OfType("Limit")' = OfType("Limit") /\ OfType("Cancel")' = OfType("Cancel")
      /\ Out' = Out /\ cancelled' = cancelled
  BY <1>2 DEF OfType, Out
<1>4. SafeExchange(Exchange', quote', agentRead', OfType("Limit"), Out \cup cancelled)
  BY EventIsSafe DEF DriverInv, QuotesAreSafe
<1>5. QuotesAreSafe' /\ OrdersAreFollowed'
  <2>1. ~config.jitter =>
          SafeExchange(Exchange', quote', agentRead', OfType("Limit"), Out \cup OfType("Cancel"))
    BY EventIsSafe DEF DriverInv, OrdersAreFollowed
  <2> QED
    BY <1>2, <1>3, <1>4, <2>1 DEF QuotesAreSafe, OrdersAreFollowed
<1>6. DrawsAreCounted'
  <2>1. b \in Book
    BY <1>1, <1>4 DEF SafeExchange, Safe, Sound, Exchange
  <2>2. gen \in Generator /\ event \in MarketEvent /\ event.type \in EventTypes
    BY DEF DriverInv, DrawsAreCounted, EventIsTheMarkets, MarketEvent
  <2>3. gen' \in Generator
    BY <1>1, <2>1, <2>2, GeneratorKeepsType
  <2>4. gen'.next = gen.next
    BY <1>1, <2>2, CounterStays
  <2> QED
    BY <1>2, <2>3, <2>4 DEF DriverInv, DrawsAreCounted, Drawn
<1>7. EventIsTheMarkets' /\ MessagesAreOrderly' /\ IdsAreUsed' /\ fillsSeen' \in Nat
  BY <1>2, <1>3 DEF DriverInv, EventIsTheMarkets, MessagesAreOrderly, IdsAreUsed
<1> QED
  BY <1>5, <1>6, <1>7 DEF DriverInv

\* A step of the exchange, the market or the messages under way.
LEMMA WorldKeepsDriver ==
  ASSUME DriverInv, World, UNCHANGED <<quote, cancelled>>
  PROVE  DriverInv'
<1>1. turn \in Nat /\ fillsSeen \in Nat /\ FillsEnd(log) \in Nat
  <2>1. IsMark(log, agentRead)
    BY DEF DriverInv, QuotesAreSafe, SafeExchange, Exchange
  <2> QED
    BY <2>1, UnreadFills DEF DriverInv, DrawsAreCounted
<1>2. CASE Draw
  BY <1>2, DrawKeepsDriver
<1>3. CASE OrderLands
  BY <1>3, OrderLandsKeepsDriver
<1>4. CASE OrdersDone
  BY <1>1, <1>4, DriverRests DEF OrdersDone, Drawn
<1>5. CASE FeedArrives
  BY <1>1, <1>5, DriverRests DEF FeedArrives, Drawn
<1>6. CASE FeedDone
  BY <1>1, <1>6, DriverRests DEF FeedDone, Drawn
<1>7. CASE EventHandled
  BY <1>7, EventKeepsDriver
<1>8. CASE Publish
  BY <1>1, <1>8, DriverRests DEF Publish, Drawn
<1>9. CASE LoopDone
  BY <1>1, <1>9, DriverRests DEF LoopDone, Drawn
<1>10. CASE RunDone
  BY <1>1, <1>10, DriverRests DEF RunDone, Drawn
<1> QED
  BY <1>2, <1>3, <1>4, <1>5, <1>6, <1>7, <1>8, <1>9, <1>10 DEF World

-----------------------------------------------------------------------------
(***************************************************************************)
(* The driver's turn: it counts its fills and forgets what is used up.     *)
(***************************************************************************)
\* Counting down leaves every quote its id, and no more than it had.
LEMMA CountedShrinks ==
  ASSUME NEW q \in Quotes, NEW e \in Seq(Fill)
  PROVE  /\ Counted(q, e) \in Quotes
         /\ \A sd \in Sides : /\ Counted(q, e)[sd].id = q[sd].id
                              /\ Counted(q, e)[sd].left <= q[sd].left
<1> DEFINE Less(r) == r \in Quotes /\ \A sd \in Sides : r[sd].id = q[sd].id /\ r[sd].left <= q[sd].left
           n == Len(e)
<1>1. n \in Nat /\ IsList(e) /\ \A k \in 1 .. n : e[k] \in Fill
  BY SequencesAreLists
<1>2. PICK p : IsWalk("countdown", q, e, p) /\ p[n] = Counted(q, e)
  BY <1>1, CountedWalks DEF Leads
<1>3. p[0] = q /\ \A k \in 1 .. n : p[k] = CountDown(p[k - 1], e[k])
  BY <1>2 DEF IsWalk, Onward
<1> HIDE DEF n
<1>4. Less(q)
  <2>1. \A sd \in Sides : q[sd].left \in Int
    BY DEF Quotes, Quote
  <2> QED
    BY <2>1
<1>5. ASSUME NEW r, Less(r), NEW f \in Fill PROVE Less(CountDown(r, f))
  <2> DEFINE s == CountDown(r, f)
  <2>1. /\ s \in Quotes
        /\ \A sd \in Sides :
             /\ s[sd].id = r[sd].id
             /\ IF f.restingMine /\ f.resting = r[sd].id
                  THEN s[sd].left = r[sd].left - f.qty ELSE s[sd].left = r[sd].left
    BY <1>5, CountDownOne
  <2> HIDE DEF s
  <2>2. f.qty \in Int /\ f.qty >= 0
    BY DEF Fill, Positives
  <2>3. \A sd \in Sides : q[sd].left \in Int /\ r[sd].left \in Int
    BY <1>5 DEF Quotes, Quote
  <2>4. ASSUME NEW sd \in Sides PROVE s[sd].id = q[sd].id /\ s[sd].left <= q[sd].left
    <3>1. r[sd].id = q[sd].id /\ r[sd].left <= q[sd].left
      BY <1>5
    <3>2. s[sd].left = r[sd].left - f.qty \/ s[sd].left = r[sd].left
      BY <2>1
    <3> QED
      BY <2>1, <2>2, <2>3, <3>1, <3>2
  <2> QED
    BY <2>1, <2>4 DEF s
<1> HIDE DEF Less
<1> DEFINE Odd == {k \in 0 .. n : ~Less(p[k])}
<1>6. Odd = {}
  <2> SUFFICES ASSUME Odd # {} PROVE FALSE
    OBVIOUS
  <2>1. PICK k \in Odd : \A j \in Odd : k <= j
    <3>1. Odd \in SUBSET Nat
      BY <1>1
    <3> QED
      BY <3>1, LeastExists
  <2>2. k # 0
    BY <1>3, <1>4, <2>1
  <2>3. k \in 1 .. n /\ k - 1 \in 0 .. n /\ k - 1 \notin Odd
    BY <1>1, <2>1, <2>2
  <2>4. p[k] = CountDown(p[k - 1], e[k]) /\ e[k] \in Fill /\ Less(p[k - 1])
    BY <1>1, <1>3, <2>3
  <2>5. Less(p[k])
    BY <1>5, <2>4
  <2> QED
    BY <2>1, <2>5
<1>7. Less(Counted(q, e))
  BY <1>1, <1>2, <1>6
<1> QED
  BY <1>7 DEF Less

\* The orders that quotes q count on.
OutOf(q) == {q[sd].id : sd \in Sides} \ {NoOrderOut}

\* Forgetting what is counted down to nothing forgets no order that rests or
\* is on its way.
LEMMA ForgottenIsGone ==
  ASSUME NEW b, NEW q, NEW L, NEW C, Safe(b, q, L, OutOf(q) \cup C), NoOrderOut \notin OwnIds
  PROVE  LET r == ForgetFilled(q)
         IN Safe(b, r, L, OutOf(r) \cup C) /\ OutOf(r) \subseteq OutOf(q)
<1> DEFINE r == ForgetFilled(q)
<1>1. q \in Quotes /\ b \in Book /\ Sound(b) /\ Covers(q, b) /\ L \subseteq OwnIds
  BY DEF Safe, Sound
<1>2. ASSUME NEW sd \in Sides
      PROVE  /\ r[sd] \in Quote
             /\ \/ r[sd] = q[sd]
                \/ r[sd].id = NoOrderOut /\ q[sd].left <= 0
  <2>1. q[sd] \in Quote
    BY <1>1 DEF Quotes
  <2>2. r[sd] = IF IsOut(q[sd]) /\ q[sd].left <= 0 THEN [q[sd] EXCEPT !.id = NoOrderOut] ELSE q[sd]
    BY DEF ForgetFilled
  <2> HIDE DEF r
  <2> QED
    BY <2>1, <2>2 DEF Quote, NoOrderOut
<1>3. r \in Quotes
  <2>1. r = [sd \in Sides |-> r[sd]]
    BY DEF ForgetFilled
  <2> HIDE DEF r
  <2> QED
    BY <1>2, <2>1 DEF Quotes
<1> HIDE DEF r
<1>4. NoOrderOut \notin OwnIds /\ Size \in Nat /\ Size > 0
  BY SizeAssumption
<1>5. \A i \in OwnIds : Known(b, i) => QtyOf(b, i) \in Int /\ QtyOf(b, i) > 0
  BY <1>1, SpotOfOrder DEF Positives
<1>6. ASSUME NEW i \in OwnIds, i \in L \/ Known(b, i), NEW sd \in Sides, q[sd].id = i
      PROVE  q[sd].left > 0
  <2>1. q[sd].left \in Int
    BY <1>1 DEF Quotes, Quote
  <2>2. i \in L => q[sd].left >= Size
    BY <1>6 DEF Safe
  <2>3. Known(b, i) => QtyOf(b, i) <= q[sd].left
    BY <1>1, <1>6 DEF Covers
  <2> QED
    BY <1>4, <1>5, <1>6, <2>1, <2>2, <2>3
<1>7. ASSUME NEW i \in OwnIds, i \in L \/ Known(b, i) PROVE i \in OutOf(r) \cup C
  <2>1. i \in OutOf(q) \cup C
    BY <1>7 DEF Safe
  <2>2. ASSUME NEW sd \in Sides, q[sd].id = i PROVE i \in OutOf(r)
    <3>1. q[sd].left > 0 /\ q[sd].left \in Int
      BY <1>1, <1>6, <1>7, <2>2 DEF Quotes, Quote
    <3>2. r[sd].id = i
      BY <1>2, <2>2, <3>1
    <3> QED
      BY <1>4, <3>2 DEF OutOf
  <2> QED
    BY <2>1, <2>2 DEF OutOf
<1>8. Covers(r, b)
  BY <1>1, <1>2, <1>4 DEF Covers
<1>9. \A i \in L : ~Known(b, i) /\ \A sd \in Sides : r[sd].id = i => r[sd].left >= Size
  BY <1>1, <1>2, <1>4 DEF Safe
<1>10. L \subseteq OutOf(r) \cup C /\ \A i \in OwnIds : Known(b, i) => i \in OutOf(r) \cup C
  BY <1>1, <1>7
<1>11. OutOf(r) \subseteq OutOf(q)
  BY <1>2 DEF OutOf
<1>12. Safe(b, r, L, OutOf(r) \cup C)
  BY <1>1, <1>3, <1>8, <1>9, <1>10 DEF Safe
<1> QED
  BY <1>11, <1>12 DEF r

\* There are two new ids to give, in order.
LEMMA TwoNextIds ==
  ASSUME used \subseteq OwnIds, Cardinality(NextIds) >= 2
  PROVE  LET i == FirstOf(NextIds)
             j == FirstOf(NextIds \ {i})
         IN i \in NextIds /\ j \in NextIds /\ i # j
<1>1. NextIds \in SUBSET Nat
  BY OwnIdsAreNumbers DEF NextIds
<1>2. NextIds # {}
  <2>1. Cardinality({}) = 0
    BY FS_EmptySet
  <2> QED
    BY <2>1
<1>3. \A i : NextIds # {i}
  <2>1. \A i : Cardinality({i}) = 1
    BY FS_Singleton
  <2> QED
    BY <2>1
<1>4. ASSUME NEW S \in SUBSET Nat, S # {} PROVE FirstOf(S) \in S
  <2>1. \E id \in S : \A k \in S : id <= k
    BY <1>4, LeastExists
  <2> QED
    BY <2>1, Zenon DEF FirstOf
<1> DEFINE i == FirstOf(NextIds)
<1>5. i \in NextIds
  BY <1>1, <1>2, <1>4
<1> HIDE DEF i
<1>6. NextIds \ {i} \in SUBSET Nat /\ NextIds \ {i} # {}
  BY <1>1, <1>3, <1>5
<1>7. FirstOf(NextIds \ {i}) \in NextIds \ {i}
  BY <1>4, <1>6
<1> QED
  BY <1>5, <1>7 DEF i

-----------------------------------------------------------------------------
(***************************************************************************)
(* The driver requotes: what its quotes become.                            *)
(***************************************************************************)
\* The new orders of a requote, and the orders it withdraws.
NewIds(q, t) == {NewOrderId(q, t, sd) : sd \in {s \in Sides : Requoted(q, t, s)}}
Withdrawals(q, t) == {q[sd].id : sd \in {s \in Sides : Withdrawn(q, t, s)}}

\* The ids given are new, one for each side.
LEMMA NewIdsAreNew ==
  ASSUME used \subseteq OwnIds, Cardinality(NextIds) >= 2, NEW q, NEW t
  PROVE  /\ \A sd \in Sides : NewOrderId(q, t, sd) \in OwnIds \ used
         /\ Requoted(q, t, "Bid") /\ Requoted(q, t, "Ask")
              => NewOrderId(q, t, "Bid") # NewOrderId(q, t, "Ask")
<1> DEFINE i == FirstOf(NextIds)
           j == FirstOf(NextIds \ {i})
<1>1. i \in NextIds /\ j \in NextIds /\ i # j
  BY TwoNextIds
<1>2. \A sd : NewOrderId(q, t, sd) = IF sd = "Bid" \/ ~Requoted(q, t, "Bid") THEN i ELSE j
  BY Zenon DEF NewOrderId, Requoted
<1> HIDE DEF i, j
<1>3. \A k \in NextIds : k \in OwnIds \ used
  <2>1. \A k \in OwnIds : k \in Int
    BY OwnIdsAreNumbers
  <2> QED
    BY <2>1 DEF NextIds
<1> QED
  BY <1>1, <1>2, <1>3

\* What each side's quote becomes.
LEMMA SideRequoted ==
  ASSUME NEW q \in Quotes, NEW t \in [Sides -> Int], NEW sd \in Sides, NewOrderId(q, t, sd) \in Int
  PROVE  LET r == AfterRequote(q, t)[sd]
         IN /\ r \in Quote
            /\ \/ Requoted(q, t, sd) /\ r.id = NewOrderId(q, t, sd) /\ r.left = Size
               \/ Withdrawn(q, t, sd) /\ ~Requoted(q, t, sd) /\ r.id = NoOrderOut
               \/ ~Requoted(q, t, sd) /\ ~Withdrawn(q, t, sd) /\ r = q[sd]
<1>1. q[sd] \in Quote /\ t[sd] \in Int /\ Size \in Int
  BY SizeAssumption DEF Quotes
<1>2. AfterRequote(q, t)[sd] =
        IF Requoted(q, t, sd) THEN [id |-> NewOrderId(q, t, sd), price |-> t[sd], left |-> Size]
        ELSE IF Withdrawn(q, t, sd) THEN [q[sd] EXCEPT !.id = NoOrderOut, !.left = 0]
        ELSE q[sd]
  BY DEF AfterRequote
<1> DEFINE r == AfterRequote(q, t)[sd]
<1> HIDE DEF r
<1>3. CASE Requoted(q, t, sd)
  <2>1. r = [id |-> NewOrderId(q, t, sd), price |-> t[sd], left |-> Size]
    BY <1>2, <1>3 DEF r
  <2>2. r \in Quote /\ r.id = NewOrderId(q, t, sd) /\ r.left = Size
    BY <1>1, <2>1 DEF Quote
  <2> QED
    BY <1>3, <2>2 DEF r
<1>4. CASE ~Requoted(q, t, sd) /\ Withdrawn(q, t, sd)
  <2> DEFINE u == [q[sd] EXCEPT !.id = NoOrderOut]
  <2>1. r = [u EXCEPT !.left = 0]
    BY <1>2, <1>4 DEF r
  <2>2. u \in Quote /\ u.id = NoOrderOut
    BY <1>1 DEF Quote, NoOrderOut
  <2> HIDE DEF u
  <2>3. r.id = NoOrderOut /\ r \in Quote
    BY <2>1, <2>2 DEF Quote
  <2> QED
    BY <1>4, <2>3 DEF r
<1>5. CASE ~Requoted(q, t, sd) /\ ~Withdrawn(q, t, sd)
  BY <1>1, <1>2, <1>5
<1> QED
  BY <1>3, <1>4, <1>5

\* After a requote the new orders are on their way, and what it withdraws has
\* its cancel.
LEMMA RequoteIsSafe ==
  ASSUME NEW b, NEW q, NEW L, NEW C, Safe(b, q, L, OutOf(q) \cup C), NoOrderOut \notin OwnIds,
         used \subseteq OwnIds, OutOf(q) \cup C \subseteq used, Cardinality(NextIds) >= 2,
         NEW t \in [Sides -> Int]
  PROVE  LET r == AfterRequote(q, t)
             D == C \cup Withdrawals(q, t)
         IN /\ Safe(b, r, L \cup NewIds(q, t), OutOf(r) \cup D)
            /\ OutOf(r) \cup D \subseteq used \cup NewIds(q, t)
            /\ NewIds(q, t) \subseteq OwnIds
<1> DEFINE r == AfterRequote(q, t)
           D == C \cup Withdrawals(q, t)
           N == NewIds(q, t)
           New(sd) == NewOrderId(q, t, sd)
<1>1. q \in Quotes /\ Sound(b) /\ Covers(q, b) /\ L \subseteq OwnIds
  BY DEF Safe
<1>2. \A sd \in Sides : New(sd) \in OwnIds /\ New(sd) \notin used
  BY NewIdsAreNew
<1>3. \A sd \in Sides :
        /\ r[sd] \in Quote
        /\ \/ Requoted(q, t, sd) /\ r[sd].id = New(sd) /\ r[sd].left = Size
           \/ Withdrawn(q, t, sd) /\ ~Requoted(q, t, sd) /\ r[sd].id = NoOrderOut
           \/ ~Requoted(q, t, sd) /\ ~Withdrawn(q, t, sd) /\ r[sd] = q[sd]
  BY <1>1, <1>2, SideRequoted, OwnIdsAreNumbers
<1>4. \A sd \in Sides : Requoted(q, t, sd) /\ IsOut(q[sd]) => Withdrawn(q, t, sd)
  BY DEF Requoted, Withdrawn
<1>5. \A i : i \in N <=> \E sd \in Sides : Requoted(q, t, sd) /\ i = New(sd)
  BY DEF NewIds
<1>6. \A i : i \in D <=> i \in C \/ \E sd \in Sides : Withdrawn(q, t, sd) /\ i = q[sd].id
  BY DEF Withdrawals
<1>7. /\ \A i : i \in OutOf(q) <=> i # NoOrderOut /\ \E sd \in Sides : i = q[sd].id
      /\ \A i : i \in OutOf(r) <=> i # NoOrderOut /\ \E sd \in Sides : i = r[sd].id
  <2> HIDE DEF r
  <2> QED
    BY DEF OutOf
<1>8. \A sd \in Sides : Withdrawn(q, t, sd) => q[sd].id # NoOrderOut
  BY DEF Withdrawn, IsOut
<1>9. r \in Quotes
  <2>1. r = [sd \in Sides |-> r[sd]]
    BY DEF AfterRequote
  <2> HIDE DEF r
  <2> QED
    BY <1>3, <2>1 DEF Quotes
<1> HIDE DEF r, D, N, New
<1>10. ASSUME NEW i, i \in OutOf(q) \cup C PROVE i \in OutOf(r) \cup D
  <2>1. CASE i \in C
    BY <1>6, <2>1
  <2>2. CASE i \in OutOf(q)
    <3>1. PICK sd \in Sides : i = q[sd].id /\ i # NoOrderOut
      BY <1>7, <2>2
    <3>2. Requoted(q, t, sd) => Withdrawn(q, t, sd)
      BY <1>4, <3>1 DEF IsOut
    <3>3. CASE Withdrawn(q, t, sd)
      BY <1>6, <3>1, <3>3
    <3>4. CASE ~Withdrawn(q, t, sd)
      <4>1. r[sd] = q[sd]
        BY <1>3, <3>2, <3>4
      <4> QED
        BY <1>7, <3>1, <4>1
    <3> QED
      BY <3>3, <3>4
  <2> QED
    BY <1>10, <2>1, <2>2
<1>11. N \subseteq OwnIds /\ N \subseteq OutOf(r)
  <2> SUFFICES ASSUME NEW i \in N PROVE i \in OwnIds /\ i \in OutOf(r)
    OBVIOUS
  <2>1. PICK sd \in Sides : Requoted(q, t, sd) /\ i = New(sd)
    BY <1>5
  <2>2. i \in OwnIds /\ i \notin used /\ i # NoOrderOut
    BY <1>2, <2>1
  <2>3. r[sd].id = New(sd)
    BY <1>3, <2>1
  <2> QED
    BY <1>7, <2>1, <2>2, <2>3
<1>12. L \cup N \subseteq OwnIds /\ L \cup N \subseteq OutOf(r) \cup D
  <2>1. \A i \in L : i \in OutOf(q) \cup C
    BY DEF Safe
  <2> QED
    BY <1>1, <1>10, <1>11, <2>1
<1>13. \A i \in OwnIds : Known(b, i) => i \in used /\ i \in OutOf(r) \cup D
  <2>1. \A i \in OwnIds : Known(b, i) => i \in OutOf(q) \cup C
    BY DEF Safe
  <2> QED
    BY <1>10, <2>1
<1>14. Covers(r, b)
  <2> SUFFICES ASSUME NEW sd \in Sides, r[sd].id \in OwnIds, Known(b, r[sd].id)
               PROVE  QtyOf(b, r[sd].id) <= r[sd].left
    BY DEF Covers
  <2>1. r[sd].id \in used /\ r[sd].id # NoOrderOut
    BY <1>13
  <2>2. r[sd] = q[sd]
    BY <1>2, <1>3, <2>1
  <2> QED
    BY <1>1, <2>2 DEF Covers
<1>15. ASSUME NEW i \in L \cup N, NEW sd \in Sides, r[sd].id = i PROVE r[sd].left >= Size
  <2>0. Size \in Int
    BY SizeAssumption
  <2>1. CASE r[sd].left = Size
    BY <2>0, <2>1
  <2>2. CASE r[sd] = q[sd]
    <3>1. i # NoOrderOut /\ q[sd].id = i
      BY <1>12, <1>15, <2>2
    <3>2. i \in used
      BY <1>7, <3>1
    <3>3. i \in L
      BY <1>2, <1>5, <3>2
    <3> QED
      BY <2>2, <3>1, <3>3 DEF Safe
  <2>3. r[sd].id # NoOrderOut
    BY <1>12, <1>15
  <2> QED
    BY <1>3, <2>1, <2>2, <2>3
<1>16. \A i \in L \cup N : ~Known(b, i)
  <2>1. \A i \in N : i \notin used
    BY <1>2, <1>5
  <2>2. \A i \in L : ~Known(b, i)
    BY DEF Safe
  <2> QED
    BY <1>11, <1>13, <2>1, <2>2
<1>17. Safe(b, r, L \cup N, OutOf(r) \cup D)
  BY <1>1, <1>9, <1>12, <1>13, <1>14, <1>15, <1>16 DEF Safe
<1>18. OutOf(r) \cup D \subseteq used \cup N
  <2> SUFFICES ASSUME NEW i \in OutOf(r) \cup D PROVE i \in used \cup N
    OBVIOUS
  <2>1. CASE i \in D
    <3>1. i \in C \/ i \in OutOf(q)
      BY <1>6, <1>7, <1>8, <2>1
    <3> QED
      BY <3>1
  <2>2. CASE i \in OutOf(r)
    <3>1. PICK sd \in Sides : i = r[sd].id /\ i # NoOrderOut
      BY <1>7, <2>2
    <3>2. CASE Requoted(q, t, sd) /\ r[sd].id = New(sd)
      BY <1>5, <3>1, <3>2
    <3>3. CASE r[sd] = q[sd]
      BY <1>7, <3>1, <3>3
    <3> QED
      BY <1>3, <3>1, <3>2, <3>3
  <2> QED
    BY <2>1, <2>2
<1> QED
  BY <1>11, <1>17, <1>18 DEF r, D, N

-----------------------------------------------------------------------------
(***************************************************************************)
(* The driver requotes: what it sends.                                     *)
(***************************************************************************)
\* A list of one orderly message, or of none, that lands the orders S and takes
\* out the orders W.
Carries(e, S, W) ==
  \/ e = <<>> /\ S = {} /\ W = {}
  \/ \E a : e = <<a>> /\ Orderly(a) /\ S = LandedOf(a) /\ W = CalledBackBy(a) /\ a.decided = turn

\* The orders of such a list land, and those it takes out rest nowhere.
LEMMA CarriedLand ==
  ASSUME NEW x, NEW q, NEW i, NEW L, NEW A, SafeExchange(x, q, i, L, A),
         NEW e, NEW S, NEW W, Carries(e, S, W), S \subseteq L, W \cap L = {}
  PROVE  SafeExchange(SX!FoldLeft(ApplyAction, x, e), q, i, L \ S, A \ W)
<1>1. CASE e = <<>> /\ S = {} /\ W = {}
  <2>1. SX!FoldLeft(ApplyAction, x, e) = x
    BY <1>1, MessagesInTurn
  <2>2. L \ S = L /\ A \ W = A
    BY <1>1
  <2> QED
    BY <2>1, <2>2
<1>2. ASSUME NEW a, e = <<a>>, Orderly(a), S = LandedOf(a), W = CalledBackBy(a)
      PROVE  SafeExchange(SX!FoldLeft(ApplyAction, x, e), q, i, L \ S, A \ W)
  <2> DEFINE y == ApplyAction(x, a)
             M == L \ S
  <2>1. SX!FoldLeft(ApplyAction, x, e) = y
    BY <1>2, FoldOfOne
  <2>2. SafeExchange(y, q, i, M, A)
    BY <1>2, MessageLands
  <2>3. \A j \in W : ~Known(y.truth, j)
    BY <1>2, CancelledIsGone DEF CalledBackBy
  <2>4. W \cap M = {}
    OBVIOUS
  <2> HIDE DEF y, M
  <2>5. SafeExchange(y, q, i, M, A \ W)
    BY <2>2, <2>3, <2>4, SafeWithout
  <2> QED
    BY <2>1, <2>5 DEF M
<1> QED
  BY <1>1, <1>2 DEF Carries

\* The ids of the messages of a type in a list.
IdsOfType(e, type) == {a.id : a \in {m \in SX!ToSet(e) : m.type = type}}

\* Such a list is a list, and what is in it.
LEMMA CarriedMessages ==
  ASSUME NEW e, NEW S, NEW W, Carries(e, S, W)
  PROVE  /\ IsList(e) /\ \A a \in SX!ToSet(e) : Orderly(a) /\ a.decided = turn
         /\ S = IdsOfType(e, "Limit") /\ W = IdsOfType(e, "Cancel")
<1>1. CASE e = <<>> /\ S = {} /\ W = {}
  <2>1. SX!ToSet(e) = {}
    BY <1>1 DEF SX!ToSet
  <2> QED
    BY <1>1, <2>1, NothingIsAList DEF IdsOfType
<1>2. ASSUME NEW a, e = <<a>>, Orderly(a), S = LandedOf(a), W = CalledBackBy(a), a.decided = turn
      PROVE  /\ IsList(e) /\ \A d \in SX!ToSet(e) : Orderly(d) /\ d.decided = turn
             /\ S = IdsOfType(e, "Limit") /\ W = IdsOfType(e, "Cancel")
  <2>1. SX!ToSet(e) = {a}
    BY <1>2 DEF SX!ToSet
  <2>2. IsList(e)
    BY <1>2, OneIsAList
  <2>3. \A type : {d.id : d \in {m \in {a} : m.type = type}} = IF a.type = type THEN {a.id} ELSE {}
    OBVIOUS
  <2>4. S = IdsOfType(e, "Limit") /\ W = IdsOfType(e, "Cancel")
    BY <1>2, <2>1, <2>3 DEF LandedOf, CalledBackBy, IdsOfType
  <2> QED
    BY <1>2, <2>1, <2>2, <2>4
<1> QED
  BY <1>1, <1>2 DEF Carries

\* The items of two lists joined.
LEMMA ItemsJoined ==
  ASSUME NEW s, NEW t, IsList(s), IsList(t)
  PROVE  SX!ToSet(s \o t) = SX!ToSet(s) \cup SX!ToSet(t)
<1> DEFINE m == Len(s)
           n == Len(t)
           u == s \o t
<1>1. /\ m \in Nat /\ n \in Nat /\ Len(u) = m + n /\ IsList(u)
      /\ \A i \in 1 .. m : u[i] = s[i]
      /\ \A i \in 1 .. n : u[m + i] = t[i]
  BY ListsJoined
<1>2. DOMAIN s = 1 .. m /\ DOMAIN t = 1 .. n
  BY ListParts
<1>3. DOMAIN u = 1 .. m + n
  <2> HIDE DEF u
  <2> QED
    BY <1>1, ListParts
<1> HIDE DEF u, m, n
<1>4. ASSUME NEW a \in SX!ToSet(u) PROVE a \in SX!ToSet(s) \cup SX!ToSet(t)
  <2>1. PICK i \in 1 .. m + n : a = u[i]
    BY <1>3 DEF SX!ToSet
  <2>2. CASE i <= m
    <3>1. i \in 1 .. m /\ a = s[i]
      BY <1>1, <2>1, <2>2
    <3> QED
      BY <1>2, <3>1 DEF SX!ToSet
  <2>3. CASE ~(i <= m)
    <3> DEFINE j == i - m
    <3>1. j \in 1 .. n /\ m + j = i
      BY <1>1, <2>1, <2>3
    <3> HIDE DEF j
    <3>2. a = t[j]
      BY <1>1, <2>1, <3>1
    <3> QED
      BY <1>2, <3>1, <3>2 DEF SX!ToSet
  <2> QED
    BY <2>2, <2>3
<1>5. ASSUME NEW a \in SX!ToSet(s) PROVE a \in SX!ToSet(u)
  <2>1. PICK i \in 1 .. m : a = s[i]
    BY <1>2 DEF SX!ToSet
  <2>2. i \in 1 .. m + n /\ a = u[i]
    BY <1>1, <2>1
  <2> QED
    BY <1>3, <2>2 DEF SX!ToSet
<1>6. ASSUME NEW a \in SX!ToSet(t) PROVE a \in SX!ToSet(u)
  <2>1. PICK i \in 1 .. n : a = t[i]
    BY <1>2 DEF SX!ToSet
  <2>2. m + i \in 1 .. m + n /\ a = u[m + i]
    BY <1>1, <2>1
  <2> QED
    BY <1>3, <2>2 DEF SX!ToSet
<1>7. SX!ToSet(u) = SX!ToSet(s) \cup SX!ToSet(t)
  BY <1>4, <1>5, <1>6
<1> QED
  BY <1>7 DEF u

\* The new order of a side, if it is requoted, and the one it withdraws, if any.
NewIdOf(q, t, sd) == IF Requoted(q, t, sd) THEN {NewOrderId(q, t, sd)} ELSE {}
WithdrawalOf(q, t, sd) == IF Withdrawn(q, t, sd) THEN {q[sd].id} ELSE {}

\* What a requote sends for a side.
LEMMA SentForASide ==
  ASSUME NEW q, NEW t, NEW sd \in Sides, NewOrderId(q, t, sd) \in OwnIds
  PROVE  /\ Carries(Cancel(q, t, sd), {}, WithdrawalOf(q, t, sd))
         /\ Carries(NewLimit(q, t, sd), NewIdOf(q, t, sd), {})
<1>1. \A type, id, s, p, n : LET a == Message(type, id, s, p, n)
                             IN /\ a.type = type /\ a.id = id /\ a.side = s /\ a.qty = n
                                /\ a.decided = turn
  BY DEF Message
<1>2. Carries(Cancel(q, t, sd), {}, WithdrawalOf(q, t, sd))
  <2>1. CASE Withdrawn(q, t, sd)
    <3> DEFINE i == q[sd].id
               a == Message("Cancel", i, "Bid", 0, 0)
    <3>1. Cancel(q, t, sd) = <<a>> /\ WithdrawalOf(q, t, sd) = {i}
      BY <2>1 DEF Cancel, WithdrawalOf
    <3>2. a.type = "Cancel" /\ a.decided = turn /\ a.id = i
      BY <1>1
    <3> HIDE DEF a, i
    <3>3. Orderly(a) /\ LandedOf(a) = {} /\ CalledBackBy(a) = {i}
      BY <3>2 DEF Orderly, LandedOf, CalledBackBy
    <3> QED
      BY <3>1, <3>2, <3>3 DEF Carries
  <2>2. CASE ~Withdrawn(q, t, sd)
    BY <2>2 DEF Cancel, WithdrawalOf, Carries
  <2> QED
    BY <2>1, <2>2
<1>3. Carries(NewLimit(q, t, sd), NewIdOf(q, t, sd), {})
  <2>1. CASE Requoted(q, t, sd)
    <3> DEFINE i == NewOrderId(q, t, sd)
               a == Message("Limit", i, sd, t[sd], Size)
    <3>1. NewLimit(q, t, sd) = <<a>> /\ NewIdOf(q, t, sd) = {i}
      BY <2>1 DEF NewLimit, NewIdOf
    <3>2. a.type = "Limit" /\ a.id = i /\ a.side = sd /\ a.qty = Size /\ a.decided = turn
      BY <1>1
    <3> HIDE DEF a, i
    <3>3. Orderly(a) /\ LandedOf(a) = {i} /\ CalledBackBy(a) = {}
      BY <3>2 DEF Orderly, LandedOf, CalledBackBy, i
    <3> QED
      BY <3>1, <3>2, <3>3 DEF Carries
  <2>2. CASE ~Requoted(q, t, sd)
    BY <2>2 DEF NewLimit, NewIdOf, Carries
  <2> QED
    BY <2>1, <2>2
<1> QED
  BY <1>2, <1>3

\* What a requote sends: orderly messages, whose limits are the new orders and
\* whose cancels are of what it withdraws, and which land one after another.
LEMMA RequoteSends ==
  ASSUME NEW q, NEW t, used \subseteq OwnIds, Cardinality(NextIds) >= 2
  PROVE  LET e == Messages(q, t)
             N == NewIds(q, t)
             W == Withdrawals(q, t)
         IN /\ \A a \in SX!ToSet(e) : Orderly(a) /\ a.decided = turn
            /\ N = IdsOfType(e, "Limit") /\ W = IdsOfType(e, "Cancel")
            /\ \A a, d \in SX!ToSet(e) :
                 a.type = "Limit" /\ d.type = "Limit" /\ a.id = d.id => a = d
            /\ \A x, p, i, L, A : SafeExchange(x, p, i, L, A) /\ N \subseteq L /\ W \cap L = {} =>
                 SafeExchange(SX!FoldLeft(ApplyAction, x, e), p, i, L \ N, A \ W)
<1> DEFINE c == Cancel(q, t, "Bid")
           d == Cancel(q, t, "Ask")
           k == NewLimit(q, t, "Bid")
           l == NewLimit(q, t, "Ask")
           K == NewIdOf(q, t, "Bid")
           M == NewIdOf(q, t, "Ask")
           U == WithdrawalOf(q, t, "Bid")
           V == WithdrawalOf(q, t, "Ask")
           N == NewIds(q, t)
           W == Withdrawals(q, t)
           e == Messages(q, t)
<1>1. /\ \A sd \in Sides : NewOrderId(q, t, sd) \in OwnIds
      /\ Requoted(q, t, "Bid") /\ Requoted(q, t, "Ask")
           => NewOrderId(q, t, "Bid") # NewOrderId(q, t, "Ask")
  BY NewIdsAreNew
<1>2. "Bid" \in Sides /\ "Ask" \in Sides /\ \A sd \in Sides : sd = "Bid" \/ sd = "Ask"
  BY DEF Sides
<1>3. Carries(c, {}, U) /\ Carries(d, {}, V) /\ Carries(k, K, {}) /\ Carries(l, M, {})
  BY <1>1, <1>2, SentForASide
<1>4. N = K \cup M /\ K \cap M = {} /\ W = U \cup V
  BY <1>1, <1>2 DEF NewIds, NewIdOf, Withdrawals, WithdrawalOf
<1>5. e = ((c \o d) \o k) \o l
  BY DEF Messages
<1>6. /\ \A a \in SX!ToSet(k) : a = Message("Limit", NewOrderId(q, t, "Bid"), "Bid", t["Bid"], Size)
      /\ \A a \in SX!ToSet(l) : a = Message("Limit", NewOrderId(q, t, "Ask"), "Ask", t["Ask"], Size)
  BY DEF NewLimit, SX!ToSet
<1> HIDE DEF c, d, k, l, K, M, U, V, N, W, e
<1>7. /\ IsList(c) /\ IsList(d) /\ IsList(k) /\ IsList(l)
      /\ \A a \in SX!ToSet(c) \cup SX!ToSet(d) \cup SX!ToSet(k) \cup SX!ToSet(l) :
           Orderly(a) /\ a.decided = turn
      /\ {} = IdsOfType(c, "Limit") /\ {} = IdsOfType(d, "Limit")
      /\ K = IdsOfType(k, "Limit") /\ M = IdsOfType(l, "Limit")
      /\ U = IdsOfType(c, "Cancel") /\ V = IdsOfType(d, "Cancel")
      /\ {} = IdsOfType(k, "Cancel") /\ {} = IdsOfType(l, "Cancel")
  BY <1>3, CarriedMessages
<1>8. IsList(c \o d) /\ IsList((c \o d) \o k)
  BY <1>7, ListsJoined
<1>9. SX!ToSet(e) = SX!ToSet(c) \cup SX!ToSet(d) \cup SX!ToSet(k) \cup SX!ToSet(l)
  <2>1. SX!ToSet(c \o d) = SX!ToSet(c) \cup SX!ToSet(d)
    BY <1>7, ItemsJoined
  <2>2. SX!ToSet((c \o d) \o k) = SX!ToSet(c \o d) \cup SX!ToSet(k)
    BY <1>7, <1>8, ItemsJoined
  <2>3. SX!ToSet(e) = SX!ToSet((c \o d) \o k) \cup SX!ToSet(l)
    BY <1>5, <1>7, <1>8, ItemsJoined
  <2> QED
    BY <2>1, <2>2, <2>3
<1>10. \A a \in SX!ToSet(e) : Orderly(a) /\ a.decided = turn
  BY <1>7, <1>9
<1>11. N = IdsOfType(e, "Limit") /\ W = IdsOfType(e, "Cancel")
  <2>1. \A type : IdsOfType(e, type) = IdsOfType(c, type) \cup IdsOfType(d, type)
                                         \cup IdsOfType(k, type) \cup IdsOfType(l, type)
    BY <1>9 DEF IdsOfType
  <2> QED
    BY <1>4, <1>7, <2>1
<1>12. ASSUME NEW a \in SX!ToSet(e), NEW b \in SX!ToSet(e), a.type = "Limit", b.type = "Limit", a.id = b.id
       PROVE  a = b
  <2>1. \A m \in SX!ToSet(c) \cup SX!ToSet(d) : m.type # "Limit"
    BY <1>7 DEF IdsOfType
  <2>2. a \in SX!ToSet(k) \/ a \in SX!ToSet(l)
    BY <1>9, <1>12, <2>1
  <2>3. b \in SX!ToSet(k) \/ b \in SX!ToSet(l)
    BY <1>9, <1>12, <2>1
  <2>4. \A m \in SX!ToSet(k) : m.type = "Limit" => m.id \in K
    BY <1>7 DEF IdsOfType
  <2>5. \A m \in SX!ToSet(l) : m.type = "Limit" => m.id \in M
    BY <1>7 DEF IdsOfType
  <2> QED
    BY <1>4, <1>6, <1>12, <2>2, <2>3, <2>4, <2>5
<1>13. ASSUME NEW x, NEW p, NEW i, NEW L, NEW A, SafeExchange(x, p, i, L, A),
              N \subseteq L, W \cap L = {}
       PROVE  SafeExchange(SX!FoldLeft(ApplyAction, x, e), p, i, L \ N, A \ W)
  <2> DEFINE F(y, s) == SX!FoldLeft(ApplyAction, y, s)
             v == F(x, c)
             w == F(v, d)
             y == F(w, k)
             z == F(y, l)
             B == (A \ U) \ V
  <2>a. \A g, h : IsList(g) /\ IsList(h) => F(x, g \o h) = F(F(x, g), h)
    BY MessagesInTurn
  <2>b. ASSUME NEW g, NEW O, NEW D, SafeExchange(g, p, i, O, D),
               NEW s, NEW S, NEW R, Carries(s, S, R), S \subseteq O, R \cap O = {}
        PROVE  SafeExchange(F(g, s), p, i, O \ S, D \ R)
    BY <2>b, CarriedLand
  <2>c. \A S : S \ {} = S /\ {} \subseteq S /\ {} \cap S = {}
    OBVIOUS
  <2> HIDE DEF F
  <2>1. F(x, e) = z
    <3>1. F(x, c \o d) = w
      BY <1>7, <2>a
    <3>2. F(x, (c \o d) \o k) = y
      BY <1>7, <1>8, <2>a, <3>1
    <3> QED
      BY <1>5, <1>7, <1>8, <2>a, <3>2
  <2>2. U \cap L = {} /\ V \cap L = {} /\ K \subseteq L /\ M \subseteq L \ K
    BY <1>4, <1>13
  <2> HIDE DEF v, w, y, z
  <2>3. SafeExchange(v, p, i, L, A \ U)
    <3>1. SafeExchange(F(x, c), p, i, L \ {}, A \ U)
      BY <1>3, <1>13, <2>2, <2>b, <2>c
    <3> QED
      BY <2>c, <3>1 DEF v
  <2>4. SafeExchange(w, p, i, L, B)
    <3>1. SafeExchange(F(v, d), p, i, L \ {}, B)
      BY <1>3, <2>2, <2>3, <2>b, <2>c
    <3> QED
      BY <2>c, <3>1 DEF w
  <2> HIDE DEF B
  <2>5. SafeExchange(y, p, i, L \ K, B)
    <3>1. SafeExchange(F(w, k), p, i, L \ K, B \ {})
      BY <1>3, <2>2, <2>4, <2>b, <2>c
    <3> QED
      BY <2>c, <3>1 DEF y
  <2>6. SafeExchange(z, p, i, (L \ K) \ M, B)
    <3>1. SafeExchange(F(y, l), p, i, (L \ K) \ M, B \ {})
      BY <1>3, <2>2, <2>5, <2>b, <2>c
    <3> QED
      BY <2>c, <3>1 DEF z
  <2>7. (L \ K) \ M = L \ N /\ B = A \ W
    BY <1>4 DEF B
  <2> QED
    BY <2>1, <2>6, <2>7 DEF F
<1> QED
  BY <1>10, <1>11, <1>12, <1>13 DEF e, N, W

-----------------------------------------------------------------------------
(***************************************************************************)
(* Every step of the driver's run keeps the invariant.                     *)
(***************************************************************************)
\* No order of ours has the id that stands for no order.
LEMMA NoOrderIsNotOurs ==
  ASSUME DriverInv
  PROVE  NoOrderOut \notin OwnIds
<1>1. config \in Configs /\ config.events \in Nat /\ FirstId \in Nat
  BY InputAssumption DEF DriverInv, DrawsAreCounted
<1>2. \A i \in OwnIds : i > FirstId + config.events /\ i \in Nat
  BY <1>1, OwnIdsAssumption, OwnIdsAreNumbers
<1>3. \A i \in OwnIds : i # 0
  BY <1>1, <1>2
<1> QED
  BY <1>3 DEF NoOrderOut

\* The driver's quotes after it has read its fills.
LEMMA AfterFillsIsSafe ==
  ASSUME DriverInv, NEW L, NEW C, SafeExchange(Exchange, quote, agentRead, L, Out \cup C)
  PROVE  LET q == AfterFills(quote)
         IN Safe(truth, q, L, OutOf(q) \cup C) /\ OutOf(q) \subseteq Out
<1> DEFINE e == FillsFrom(log, agentRead)
           c == Counted(quote, e)
           q == AfterFills(quote)
<1>1. IsMark(log, agentRead) /\ quote \in Quotes /\ Safe(truth, c, L, Out \cup C)
  BY DEF SafeExchange, Exchange
<1>2. e \in Seq(Fill)
  BY <1>1, UnreadFills
<1>3. q = ForgetFilled(c)
  BY DEF AfterFills, Counted
<1> HIDE DEF e, q
<1>4. \A sd \in Sides : c[sd].id = quote[sd].id
  BY <1>1, <1>2, CountedShrinks
<1> HIDE DEF c
<1>5. OutOf(c) = Out
  BY <1>4 DEF OutOf, Out
<1>6. Safe(truth, c, L, OutOf(c) \cup C) /\ NoOrderOut \notin OwnIds
  BY <1>1, <1>5, NoOrderIsNotOurs
<1>7. Safe(truth, q, L, OutOf(q) \cup C) /\ OutOf(q) \subseteq OutOf(c)
  BY <1>3, <1>6, ForgottenIsGone
<1> QED
  BY <1>5, <1>7 DEF q

\* What a turn of the driver leaves alone, and how far it has read.
LEMMA ReadsCount ==
  ASSUME DriverInv, Reads
  PROVE  /\ DrawsAreCounted' /\ EventIsTheMarkets' /\ fillsSeen' \in Nat
         /\ turn \in Nat /\ turn' = turn + 1 /\ config' = config
         /\ IsMark(log, agentRead') /\ FillsFrom(log, agentRead') = <<>>
<1>1. pc = "agent" /\ pc' = "draw" /\ turn' = turn + 1 /\ agentRead' = FillsEnd(log)
      /\ UNCHANGED <<config, event, gen, fillsSeen>>
  BY DEF Reads
<1>2. turn \in Nat /\ turn' \in Nat /\ Drawn' = Drawn
  BY <1>1 DEF DriverInv, DrawsAreCounted, Drawn
<1>3. IsMark(log, agentRead)
  BY DEF DriverInv, QuotesAreSafe, SafeExchange, Exchange
<1> QED
  BY <1>1, <1>2, <1>3, UnreadFills DEF DriverInv, DrawsAreCounted, EventIsTheMarkets

\* A turn in which the driver only reads its fills.
LEMMA WaitsKeepsDriver ==
  ASSUME DriverInv, Waits
  PROVE  DriverInv'
<1> DEFINE q == AfterFills(quote)
           L == OfType("Limit")
<1>1. /\ Reads /\ quote' = q
      /\ UNCHANGED <<truth, inflight, log, stats, used, tape, cancelled>>
  BY DEF Waits
<1>2. ASSUME NEW C, SafeExchange(Exchange, quote, agentRead, L, Out \cup C)
      PROVE  Safe(truth, q, L, OutOf(q) \cup C) /\ OutOf(q) \subseteq Out
  BY <1>2, AfterFillsIsSafe
<1>3. /\ DrawsAreCounted' /\ EventIsTheMarkets' /\ fillsSeen' \in Nat
      /\ turn \in Nat /\ turn' = turn + 1 /\ config' = config
      /\ IsMark(log, agentRead') /\ FillsFrom(log, agentRead') = <<>>
  BY <1>1, ReadsCount
<1> HIDE DEF q, L
<1>4. /\ OfType("Limit")' = L /\ OfType("Cancel")' = OfType("Cancel")
      /\ Out' = OutOf(q) /\ cancelled' = cancelled
  BY <1>1 DEF OfType, Out, OutOf, L
<1>5. ASSUME NEW C, SafeExchange(Exchange, quote, agentRead, L, Out \cup C)
      PROVE  SafeExchange(Exchange', quote', agentRead', L, Out' \cup C)
  <2>1. Exchange' = Exchange /\ IsExchange(Exchange) /\ Exchange.truth = truth /\ Exchange.log = log
    BY <1>1, ExchangeStands DEF Exchange
  <2>2. q \in Quotes /\ Counted(q, <<>>) = q
    BY <1>2, <1>5, CountedJoins DEF Safe
  <2> QED
    BY <1>1, <1>2, <1>3, <1>4, <1>5, <2>1, <2>2 DEF SafeExchange
<1>6. QuotesAreSafe' /\ OrdersAreFollowed'
  <2>1. SafeExchange(Exchange', quote', agentRead', L, Out' \cup cancelled)
    BY <1>5 DEF L, DriverInv, QuotesAreSafe
  <2>2. ~config.jitter => SafeExchange(Exchange', quote', agentRead', L, Out' \cup OfType("Cancel"))
    BY <1>5 DEF L, DriverInv, OrdersAreFollowed
  <2> QED
    BY <1>3, <1>4, <2>1, <2>2 DEF QuotesAreSafe, OrdersAreFollowed
<1>7. OutOf(q) \subseteq Out
  BY <1>2 DEF L, DriverInv, QuotesAreSafe
<1>8. IdsAreUsed'
  BY <1>1, <1>4, <1>7 DEF DriverInv, IdsAreUsed
<1>9. MessagesAreOrderly'
  <2>1. \A a \in inflight : a.decided \in Nat /\ a.decided < turn'
    BY <1>3 DEF DriverInv, MessagesAreOrderly
  <2> QED
    BY <1>1, <1>3, <2>1 DEF DriverInv, MessagesAreOrderly
<1> QED
  BY <1>3, <1>6, <1>8, <1>9 DEF DriverInv

\* A strategy's prices are numbers.
LEMMA TargetsAreNumbers ==
  \A t \in Targets : t \in [Sides -> Int]
<1>1. Window \subseteq Int
  BY InputAssumption, WindowAssumption
<1>2. \A t \in Targets : t \in [Sides -> Window \cup {0}]
  BY DEF Targets
<1> DEFINE W == Window \cup {0}
<1>3. W \subseteq Int
  BY <1>1
<1> HIDE DEF W
<1>4. \A t \in [Sides -> W] : t \in [Sides -> Int]
  BY <1>3
<1> QED
  BY <1>2, <1>4 DEF W

\* What is in flight after a requote: the driver withdraws orders it has sent
\* in an earlier turn, and sends new ones.
LEMMA RequoteIsOrderly ==
  ASSUME DriverInv, NEW e, NEW N, NEW W, turn' = turn + 1,
         \A a \in SX!ToSet(e) : Orderly(a) /\ a.decided = turn,
         N = IdsOfType(e, "Limit"), W = IdsOfType(e, "Cancel"),
         \A a, d \in SX!ToSet(e) : a.type = "Limit" /\ d.type = "Limit" /\ a.id = d.id => a = d,
         W \subseteq used, \A n \in N : n \notin used,
         config' = config, config.latency, inflight' = inflight \cup SX!ToSet(e)
  PROVE  MessagesAreOrderly'
<1>1. turn \in Nat
  BY DEF DriverInv, DrawsAreCounted
<1>2. ASSUME NEW a \in inflight' PROVE Orderly(a) /\ a.decided \in Nat /\ a.decided < turn'
  <2>1. a \in inflight => Orderly(a) /\ a.decided \in Nat /\ a.decided < turn
    BY DEF DriverInv, MessagesAreOrderly
  <2>2. a \in SX!ToSet(e) => Orderly(a) /\ a.decided = turn
    OBVIOUS
  <2> QED
    BY <1>1, <1>2, <2>1, <2>2
<1>3. \A m \in inflight : m.type \in {"Limit", "Cancel"} => m.id \in used
  <2>1. \A m \in inflight : m.type = "Limit" => m.id \in used
    <3>1. OfType("Limit") \subseteq Out \cup cancelled
      BY DEF DriverInv, QuotesAreSafe, SafeExchange, Safe
    <3> QED
      BY <3>1 DEF OfType, DriverInv, IdsAreUsed
  <2>2. \A m \in inflight : m.type = "Cancel" => m.id \in used
    BY DEF OfType, DriverInv, IdsAreUsed
  <2> QED
    BY <2>1, <2>2
<1>4. /\ \A m \in SX!ToSet(e) : m.type = "Limit" => m.id \notin used
      /\ \A m \in SX!ToSet(e) : m.type = "Cancel" => m.id \in used
  BY DEF IdsOfType
<1>5. ASSUME NEW a \in inflight', NEW d \in inflight', a.type = "Limit", d.type = "Limit", a.id = d.id
      PROVE  a = d
  BY <1>3, <1>4, <1>5 DEF DriverInv, MessagesAreOrderly
<1>6. ASSUME NEW a \in inflight', NEW d \in inflight', a.type = "Limit", d.type = "Cancel", a.id = d.id
      PROVE  a.decided < d.decided
  <2>1. a \in inflight
    BY <1>3, <1>4, <1>6
  <2>2. CASE d \in inflight
    BY <1>6, <2>1, <2>2 DEF DriverInv, MessagesAreOrderly
  <2>3. CASE d \in SX!ToSet(e)
    BY <2>1, <2>3 DEF DriverInv, MessagesAreOrderly
  <2> QED
    BY <2>2, <2>3
<1> QED
  BY <1>2, <1>5, <1>6 DEF MessagesAreOrderly

\* A turn in which the driver requotes.
LEMMA RequotesKeepsDriver ==
  ASSUME DriverInv, Requotes
  PROVE  DriverInv'
<1> DEFINE q == AfterFills(quote)
           L == OfType("Limit")
           K == OfType("Cancel")
<1>1. PICK t \in Targets :
        /\ quote' = AfterRequote(q, t)
        /\ QueueActions(Messages(q, t))
        /\ used' = used \cup NewIds(q, t)
        /\ cancelled' = cancelled \cup Withdrawals(q, t)
  BY DEF Requotes, NewIds, Withdrawals
<1>2. Reads /\ Cardinality(NextIds) >= 2
  BY DEF Requotes
<1>3. /\ used \subseteq OwnIds /\ Out \cup cancelled \subseteq used /\ K \subseteq cancelled
      /\ NoOrderOut \notin OwnIds
      /\ SafeExchange(Exchange, quote, agentRead, L, Out \cup cancelled)
      /\ ~config.jitter => SafeExchange(Exchange, quote, agentRead, L, Out \cup K)
  BY NoOrderIsNotOurs DEF DriverInv, IdsAreUsed, QuotesAreSafe, OrdersAreFollowed
<1>4. /\ DrawsAreCounted' /\ EventIsTheMarkets' /\ fillsSeen' \in Nat
      /\ turn \in Nat /\ turn' = turn + 1 /\ config' = config
      /\ IsMark(log, agentRead') /\ FillsFrom(log, agentRead') = <<>>
  BY <1>2, ReadsCount
<1> DEFINE r == AfterRequote(q, t)
           W == Withdrawals(q, t)
           N == NewIds(q, t)
           e == Messages(q, t)
           x == [Exchange EXCEPT !.stats.sent = @ + Len(e)]
           i == FillsEnd(log)
           A(C) == OutOf(r) \cup (C \cup W)
<1>5. ASSUME NEW C, C \subseteq used, SafeExchange(Exchange, quote, agentRead, L, Out \cup C)
      PROVE  /\ Safe(truth, r, L \cup N, A(C)) /\ A(C) \subseteq used \cup N
             /\ N \subseteq OwnIds /\ OutOf(q) \subseteq Out
  <2>1. Safe(truth, q, L, OutOf(q) \cup C) /\ OutOf(q) \subseteq Out
    BY <1>5, AfterFillsIsSafe
  <2>2. t \in [Sides -> Int]
    BY TargetsAreNumbers
  <2> HIDE DEF q
  <2>3. OutOf(q) \cup C \subseteq used
    BY <1>3, <1>5, <2>1
  <2> QED
    BY <1>2, <1>3, <2>1, <2>2, <2>3, RequoteIsSafe, ZenonT(40)
<1> HIDE DEF q
<1>6. /\ \A a \in SX!ToSet(e) : Orderly(a) /\ a.decided = turn
      /\ N = IdsOfType(e, "Limit") /\ W = IdsOfType(e, "Cancel")
      /\ \A a, d \in SX!ToSet(e) :
           a.type = "Limit" /\ d.type = "Limit" /\ a.id = d.id => a = d
      /\ \A y, p, k, M, B : SafeExchange(y, p, k, M, B) /\ N \subseteq M /\ W \cap M = {} =>
           SafeExchange(SX!FoldLeft(ApplyAction, y, e), p, k, M \ N, B \ W)
  BY <1>2, <1>3, RequoteSends
<1>7. OutOf(q) \subseteq Out /\ N \subseteq OwnIds
  <2>1. cancelled \subseteq used
    BY <1>3
  <2> QED
    BY <1>3, <1>5, <2>1
<1>8. W \subseteq used /\ \A n \in N : n \notin used
  <2>1. W \subseteq OutOf(q)
    BY DEF Withdrawals, Withdrawn, IsOut, OutOf
  <2>2. \A n \in N : n \notin used
    BY <1>2, <1>3, NewIdsAreNew DEF NewIds
  <2> QED
    BY <1>3, <1>7, <2>1, <2>2
<1>9. IsExchange(x) /\ x.truth = truth /\ x.log = log
  <2> DEFINE s == [Exchange.stats EXCEPT !.sent = @ + Len(e)]
  <2>1. x = [Exchange EXCEPT !.stats = s]
    BY Zenon
  <2>2. IsExchange(Exchange) /\ Exchange.truth = truth /\ Exchange.log = log
    BY ExchangeStands DEF Exchange
  <2> HIDE DEF s, x
  <2> QED
    BY <2>1, <2>2, CountersReplaced
<1>10. agentRead' = i
  BY <1>2 DEF Reads
<1> HIDE DEF x
<1>11. IF config.latency
         THEN ExchangeBecomes(x) /\ inflight' = inflight \cup SX!ToSet(e)
         ELSE ExchangeBecomes(SX!FoldLeft(ApplyAction, x, e)) /\ inflight' = inflight
  BY <1>1 DEF QueueActions, x
<1> HIDE DEF r, W, N, e, i
<1>12. ASSUME NEW C, C \subseteq used, SafeExchange(Exchange, quote, agentRead, L, Out \cup C)
       PROVE  SafeExchange(x, r, i, L \cup N, A(C)) /\ A(C) \subseteq used \cup N
  <2>1. Safe(truth, r, L \cup N, A(C)) /\ A(C) \subseteq used \cup N
    BY <1>5, <1>12
  <2> HIDE DEF A
  <2>2. r \in Quotes /\ Counted(r, <<>>) = r
    BY <2>1, CountedJoins DEF Safe
  <2>3. IsMark(log, i) /\ FillsFrom(log, i) = <<>>
    BY <1>4, <1>10
  <2> QED
    BY <1>9, <2>1, <2>2, <2>3 DEF SafeExchange
<1>13. quote' = r /\ used' = used \cup N /\ cancelled' = cancelled \cup W
  BY <1>1 DEF r, N, W
<1>14. Out' = OutOf(r)
  BY <1>13 DEF Out, OutOf
<1>15. /\ SafeExchange(x, r, i, L \cup N, A(cancelled)) /\ A(cancelled) \subseteq used \cup N
       /\ ~config.jitter => SafeExchange(x, r, i, L \cup N, A(K))
  <2>1. cancelled \subseteq used /\ K \subseteq used
    BY <1>3
  <2> HIDE DEF A, K, L
  <2> QED
    BY <1>3, <1>12, <2>1
<1>16. Out' \cup cancelled' = A(cancelled)
  BY <1>13, <1>14
<1>17. CASE config.latency
  <2>1. ExchangeBecomes(x) /\ inflight' = inflight \cup SX!ToSet(e)
    BY <1>11, <1>17
  <2>2. OfType("Limit")' = L \cup N /\ OfType("Cancel")' = K \cup W
    BY <1>6, <2>1 DEF OfType, IdsOfType
  <2>3. Exchange' = x
    BY <1>15, <2>1, BecomesExchange DEF SafeExchange
  <2>4. Out' \cup OfType("Cancel")' = A(K)
    BY <1>14, <2>2
  <2> HIDE DEF A, K, L
  <2>5. QuotesAreSafe'
    BY <1>10, <1>13, <1>15, <1>16, <2>2, <2>3 DEF QuotesAreSafe
  <2>6. OrdersAreFollowed'
    BY <1>4, <1>10, <1>13, <1>15, <2>2, <2>3, <2>4 DEF OrdersAreFollowed
  <2>7. MessagesAreOrderly'
    BY <1>4, <1>6, <1>8, <1>17, <2>1, RequoteIsOrderly
  <2>8. OfType("Cancel")' \subseteq cancelled'
    BY <1>3, <1>13, <2>2
  <2>9. IdsAreUsed'
    BY <1>3, <1>7, <1>13, <1>15, <1>16, <2>8 DEF IdsAreUsed
  <2> QED
    BY <1>4, <2>5, <2>6, <2>7, <2>9 DEF DriverInv
<1>18. CASE ~config.latency
  <2> DEFINE y == SX!FoldLeft(ApplyAction, x, e)
  <2>1. ExchangeBecomes(y) /\ inflight' = inflight /\ inflight = {}
    BY <1>11, <1>18 DEF DriverInv, MessagesAreOrderly
  <2>2. L = {} /\ K = {}
    BY <2>1 DEF OfType
  <2>3. OfType("Limit")' = {} /\ OfType("Cancel")' = {}
    BY <2>1 DEF OfType
  <2>4. \A C : SafeExchange(x, r, i, L \cup N, A(C)) =>
                 SafeExchange(y, r, i, (L \cup N) \ N, A(C) \ W)
    <3>1. N \subseteq L \cup N /\ W \cap (L \cup N) = {}
      BY <1>8, <2>2
    <3> HIDE DEF A, L
    <3> QED
      BY <1>6, <3>1
  <2>5. (L \cup N) \ N = {} /\ \A C : A(C) \ W \subseteq A(C)
    BY <2>2
  <2>6. A(K) \ W \subseteq Out' \cup OfType("Cancel")'
    BY <1>14, <2>2
  <2> HIDE DEF y, A, K, L
  <2>7. SafeExchange(y, r, i, {}, A(cancelled))
    BY <1>15, <2>4, <2>5, SafeWithMore
  <2>8. ~config.jitter => SafeExchange(y, r, i, {}, Out' \cup OfType("Cancel")')
    BY <1>15, <2>4, <2>5, <2>6, SafeWithMore
  <2>9. Exchange' = y
    BY <2>1, <2>7, BecomesExchange DEF SafeExchange
  <2>10. QuotesAreSafe'
    BY <1>10, <1>13, <1>16, <2>3, <2>7, <2>9 DEF QuotesAreSafe
  <2>11. OrdersAreFollowed'
    BY <1>4, <1>10, <1>13, <2>3, <2>8, <2>9 DEF OrdersAreFollowed
  <2>12. MessagesAreOrderly'
    BY <2>1 DEF MessagesAreOrderly
  <2>13. IdsAreUsed'
    BY <1>3, <1>7, <1>13, <1>15, <1>16, <2>3 DEF IdsAreUsed
  <2> QED
    BY <1>4, <2>10, <2>11, <2>12, <2>13 DEF DriverInv
<1> QED
  BY <1>17, <1>18

\* Every step of the driver's run keeps the invariant.
LEMMA DriverInvNext ==
  DriverInv /\ [DNext]_dvars => DriverInv'
<1> SUFFICES ASSUME DriverInv, [DNext]_dvars PROVE DriverInv'
  OBVIOUS
<1>1. CASE World /\ UNCHANGED <<quote, cancelled>>
  BY <1>1, WorldKeepsDriver
<1>2. CASE Waits
  BY <1>2, WaitsKeepsDriver
<1>3. CASE Requotes
  BY <1>3, RequotesKeepsDriver
<1>4. CASE UNCHANGED dvars
  <2>1. turn \in Nat /\ fillsSeen \in Nat
    BY DEF DriverInv, DrawsAreCounted
  <2> QED
    BY <1>4, <2>1, DriverRests DEF dvars, vars, Drawn
<1> QED
  BY <1>1, <1>2, <1>3, <1>4 DEF DNext

\* Every state of a driver's run is one in which its quotes are safe.
LEMMA DriverInvHolds == DSpec => []DriverInv
<1> QED
  BY DriverInvInit, DriverInvNext, PTL DEF DSpec

\* driver.hpp: an order of ours that rests, or whose limit is on its way, is
\* one the driver counts on or has sent a cancel for: nothing is given up on.
THEOREM DriverForgetsNothing == DSpec => []NothingIsForgotten
<1>1. DriverInv => NothingIsForgotten
  <2> SUFFICES ASSUME DriverInv PROVE NothingIsForgotten
    OBVIOUS
  <2>1. PICK q : Safe(truth, q, OfType("Limit"), Out \cup cancelled)
    BY DEF DriverInv, QuotesAreSafe, SafeExchange, Exchange
  <2>2. \A i \in OurOrders : i \in OwnIds /\ Known(truth, i)
    BY DEF OurOrders, LiveOrders, Known, IsAt
  <2> QED
    BY <2>1, <2>2 DEF NothingIsForgotten, Safe
<1> QED
  BY <1>1, DriverInvHolds, PTL

\* driver.hpp: what the driver thinks is left of an order is never less than
\* what rests of it, whatever fills it has yet to read.
THEOREM DriverIsNeverShort == DSpec => []NeverShort
<1>1. DriverInv => NeverShort
  <2> SUFFICES ASSUME DriverInv, NEW sd \in Sides, quote[sd].id \in OurOrders
               PROVE  QtyOf(truth, quote[sd].id) <= quote[sd].left
    BY DEF NeverShort
  <2> DEFINE c == Counted(quote, FillsFrom(log, agentRead))
             i == quote[sd].id
  <2>1. /\ IsMark(log, agentRead) /\ quote \in Quotes
        /\ Safe(truth, c, OfType("Limit"), Out \cup cancelled)
    BY DEF DriverInv, QuotesAreSafe, SafeExchange, Exchange
  <2>2. i \in OwnIds /\ Known(truth, i)
    BY DEF OurOrders, LiveOrders, Known, IsAt
  <2>3. c \in Quotes /\ c[sd].id = i /\ c[sd].left <= quote[sd].left
    BY <2>1, UnreadFills, CountedShrinks
  <2> HIDE DEF c
  <2>4. QtyOf(truth, i) <= c[sd].left
    BY <2>1, <2>2, <2>3 DEF Safe, Covers
  <2>5. QtyOf(truth, i) \in Int /\ c[sd].left \in Int /\ quote[sd].left \in Int
    BY <2>1, <2>3, QtyOfIsANumber DEF Safe, Sound, Quotes, Quote
  <2> HIDE DEF i
  <2>6. QtyOf(truth, i) <= quote[sd].left
    BY <2>3, <2>4, <2>5
  <2> QED
    BY <2>6 DEF i
<1> QED
  BY <1>1, DriverInvHolds, PTL

\* driver.hpp: while messages land in the order of the decisions, an order of
\* ours that rests is one the driver counts on, or its cancel is on its way:
\* none is left behind in the market, whatever fills, turns and requotes come
\* between.
THEOREM DriverLeavesNoOrphans == DSpec => []NoOrphansInOrder
<1>1. DriverInv => NoOrphansInOrder
  <2> SUFFICES ASSUME DriverInv, ~config.jitter PROVE OurOrders \subseteq Out \cup OfType("Cancel")
    BY DEF NoOrphansInOrder
  <2>1. PICK q : Safe(truth, q, OfType("Limit"), Out \cup OfType("Cancel"))
    BY DEF DriverInv, OrdersAreFollowed, SafeExchange, Exchange
  <2>2. \A i \in OurOrders : i \in OwnIds /\ Known(truth, i)
    BY DEF OurOrders, LiveOrders, Known, IsAt
  <2> QED
    BY <2>1, <2>2 DEF Safe
<1> QED
  BY <1>1, DriverInvHolds, PTL
=============================================================================
