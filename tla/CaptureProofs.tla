---------------------------- MODULE CaptureProofs ----------------------------
(***************************************************************************)
(* Theorems about Capture, for any ids, prices, offers of the venue,       *)
(* backoff and duration, and any order in which sessions break, snapshots  *)
(* are taken and messages are lost or damaged: what a message does to the  *)
(* decoder, what a snapshot loads, that the venue's matching ends, from    *)
(* these that a loss is reported, and last that the decoder's table stays  *)
(* in step with the book it feeds.                                         *)
(***************************************************************************)
EXTENDS MatchingProofs, Capture

-----------------------------------------------------------------------------
(***************************************************************************)
(* Lists, and folds along them.                                            *)
(***************************************************************************)
\* A nonempty set of naturals with an upper bound has a greatest element.
LEMMA GreatestExists ==
  ASSUME NEW n \in Nat, NEW S \in SUBSET (0 .. n - 1), S # {}
  PROVE  \E x \in S : \A y \in S : y <= x
<1> DEFINE T == {k \in Nat : n - k \in S}
<1>1. T # {}
  <2>1. PICK x \in S : TRUE
    OBVIOUS
  <2>2. n - x \in Nat /\ n - (n - x) = x
    OBVIOUS
  <2> QED
    BY <2>1, <2>2
<1>2. PICK k \in T : \A j \in T : k <= j
  BY <1>1, LeastExists
<1>3. \A y \in S : n - y \in T
  OBVIOUS
<1> QED
  BY <1>2, <1>3

\* s is a sequence, of whatever.
IsList(s) == s \in Seq({s[i] : i \in DOMAIN s})

\* A sequence is a list.
LEMMA SequencesAreLists ==
  ASSUME NEW X, NEW s \in Seq(X)
  PROVE  IsList(s)
<1> DEFINE Y == {s[i] : i \in DOMAIN s}
<1>1. Len(s) \in Nat /\ DOMAIN s = 1 .. Len(s) /\ s = [i \in 1 .. Len(s) |-> s[i]]
  OBVIOUS
<1>2. \A i \in 1 .. Len(s) : s[i] \in Y
  BY <1>1
<1> HIDE DEF Y
<1>3. s \in [1 .. Len(s) -> Y]
  BY <1>1, <1>2
<1>4. s \in Seq(Y)
  BY <1>1, <1>3, SeqDef
<1> QED
  BY <1>4 DEF IsList, Y

\* Two lists are sequences over one set.
LEMMA ListsShareASet ==
  ASSUME NEW s, NEW t, IsList(s), IsList(t)
  PROVE  \E X : s \in Seq(X) /\ t \in Seq(X)
<1> DEFINE Y == {s[i] : i \in DOMAIN s}
           Z == {t[i] : i \in DOMAIN t}
<1>1. s \in Seq(Y) /\ t \in Seq(Z)
  BY DEF IsList
<1> HIDE DEF Y, Z
<1>2. s \in Seq(Y \cup Z) /\ t \in Seq(Y \cup Z)
  BY <1>1, SeqMonotonic
<1> QED
  BY <1>2

\* What concatenation does to lists.
LEMMA ListsJoined ==
  ASSUME NEW s, NEW t, IsList(s), IsList(t)
  PROVE  /\ Len(s) \in Nat /\ Len(t) \in Nat
         /\ IsList(s \o t) /\ Len(s \o t) = Len(s) + Len(t)
         /\ \A i \in 1 .. Len(s) : (s \o t)[i] = s[i]
         /\ \A i \in 1 .. Len(t) : (s \o t)[Len(s) + i] = t[i]
<1>1. PICK X : s \in Seq(X) /\ t \in Seq(X)
  BY ListsShareASet
<1>2. s \o t \in Seq(X)
  BY <1>1, ConcatProperties
<1>3. IsList(s \o t)
  BY <1>2, SequencesAreLists
<1> QED
  BY <1>1, <1>3, ConcatProperties

\* A list with one more item is a list.
LEMMA ListAppended ==
  ASSUME NEW s, IsList(s), NEW x
  PROVE  IsList(Append(s, x))
<1>1. PICK X : s \in Seq(X)
  BY DEF IsList
<1>2. s \in Seq(X \cup {x})
  BY <1>1, SeqMonotonic
<1>3. Append(s, x) \in Seq(X \cup {x})
  BY <1>2, AppendProperties
<1> QED
  BY <1>3, SequencesAreLists

\* What appending does to a list.
LEMMA AppendedAt ==
  ASSUME NEW s, IsList(s), NEW x
  PROVE  /\ IsList(Append(s, x)) /\ Len(s) \in Nat /\ Len(Append(s, x)) = Len(s) + 1
         /\ Append(s, x)[Len(s) + 1] = x
         /\ \A i \in 1 .. Len(s) : Append(s, x)[i] = s[i]
<1>1. PICK X : s \in Seq(X)
  BY DEF IsList
<1>2. s \in Seq(X \cup {x})
  BY <1>1, SeqMonotonic
<1>3. IsList(Append(s, x))
  BY ListAppended
<1> QED
  BY <1>2, <1>3, AppendProperties, LenProperties

\* The empty list.
LEMMA NothingIsAList == IsList(<<>>)
<1>1. <<>> \in Seq({})
  BY EmptySeq
<1> QED
  BY <1>1, SequencesAreLists

\* A list is a function on its indices, and a part of it is a list.
LEMMA ListParts ==
  ASSUME NEW s, IsList(s)
  PROVE  /\ Len(s) \in Nat /\ DOMAIN s = 1 .. Len(s)
         /\ \A m \in Nat \ {0}, n \in Int : n <= Len(s) =>
              LET u == SubSeq(s, m, n)
              IN /\ IsList(u) /\ Len(u) = IF m <= n THEN n - m + 1 ELSE 0
                 /\ \A i \in 1 .. Len(u) : u[i] = s[m + i - 1]
<1>1. PICK X : s \in Seq(X)
  BY DEF IsList
<1>2. Len(s) \in Nat /\ DOMAIN s = 1 .. Len(s)
  BY <1>1
<1>3. ASSUME NEW m \in Nat \ {0}, NEW n \in Int, n <= Len(s)
      PROVE  LET u == SubSeq(s, m, n)
             IN /\ IsList(u) /\ Len(u) = IF m <= n THEN n - m + 1 ELSE 0
                /\ \A i \in 1 .. Len(u) : u[i] = s[m + i - 1]
  <2> DEFINE u == SubSeq(s, m, n)
  <2>1. u \in Seq(X) /\ Len(u) = IF m <= n THEN n - m + 1 ELSE 0
    BY <1>1, <1>3, SubSeqProperties
  <2>2. \A i \in 1 .. Len(u) : u[i] = s[m + i - 1]
    BY <1>1, <1>3, <2>1, SubSeqProperties
  <2>3. IsList(u)
    BY <2>1, SequencesAreLists
  <2> QED
    BY <2>1, <2>2, <2>3
<1> QED
  BY <1>2, <1>3

-----------------------------------------------------------------------------
\* What a fold of the given kind makes of s and the next item x.
Onward(kind, ctx, s, x) ==
  IF kind = "event" THEN ApplyEvent(s, x)
  ELSE IF kind = "line" THEN ReadLine(s, x)
  ELSE IF kind = "row" THEN Placed(s.dec, x, "resting", s.out)
  ELSE IF kind = "add" THEN Apply(s, x).book
  ELSE s \o SeededAt(ctx.book, ctx.side, x)

\* p is the walk from s along the list e: p[k] is reached after k items.
IsWalk(kind, ctx, s, e, p) ==
  /\ p[0] = s
  /\ \A k \in 1 .. Len(e) : p[k] = Onward(kind, ctx, p[k - 1], e[k])

Leads(kind, ctx, s, e, x) == \E p : IsWalk(kind, ctx, s, e, p) /\ p[Len(e)] = x

Highest(S) == SX!Max(S)

\* The highest of some indices up to n.
LEMMA HighestIndex ==
  ASSUME NEW n \in Nat, NEW s \in SUBSET (1 .. n), s # {}
  PROVE  /\ Highest(s) \in s /\ \A y \in s : y <= Highest(s)
         /\ n \in s => Highest(s) = n
<1>1. s \in SUBSET (0 .. (n + 1) - 1) /\ n + 1 \in Nat
  OBVIOUS
<1> DEFINE Top(x) == \A y \in s : x >= y
<1>2. \E x \in s : Top(x)
  BY <1>1, GreatestExists
<1>3. Highest(s) = CHOOSE x \in s : Top(x)
  BY DEF Highest, SX!Max
<1> HIDE DEF Top
<1>4. Highest(s) \in s /\ Top(Highest(s))
  BY <1>2, <1>3
<1>5. \A y \in s : y \in 1 .. n
  OBVIOUS
<1>6. Highest(s) \in 1 .. n /\ \A y \in s : y <= Highest(s)
  BY <1>4, <1>5 DEF Top
<1> QED
  BY <1>4, <1>6

\* g is the fold over every set of indices up to k.
FoldedTo(kind, ctx, e, s, n, g, k) ==
  /\ g = [r \in SUBSET (1 .. n) |-> g[r]]
  /\ \A r \in SUBSET (1 .. k) :
       g[r] = IF r = {} THEN s ELSE Onward(kind, ctx, g[r \ {Highest(r)}], e[Highest(r)])

\* Such a fold exists: if not, take the least k up to which it does not.
LEMMA FoldExists ==
  ASSUME NEW kind, NEW ctx, NEW e, NEW b, NEW n \in Nat
  PROVE  \E g : FoldedTo(kind, ctx, e, b, n, g, n)
<1> DEFINE Bad == {k \in 0 .. n : ~\E g : FoldedTo(kind, ctx, e, b, n, g, k)}
<1> SUFFICES ASSUME Bad # {} PROVE FALSE
  OBVIOUS
<1>1. PICK m \in Bad : \A k \in Bad : m <= k
  <2>1. Bad \in SUBSET Nat
    OBVIOUS
  <2> QED
    BY <2>1, LeastExists
<1>2. m # 0
  <2> DEFINE g == [r \in SUBSET (1 .. n) |-> b]
  <2>1. \A r \in SUBSET (1 .. 0) : r = {} /\ r \in SUBSET (1 .. n)
    OBVIOUS
  <2>2. g = [r \in SUBSET (1 .. n) |-> g[r]] /\ g[{}] = b
    OBVIOUS
  <2> HIDE DEF g
  <2>3. FoldedTo(kind, ctx, e, b, n, g, 0)
    BY <2>1, <2>2 DEF FoldedTo
  <2> QED
    BY <1>1, <2>3
<1>3. m \in 1 .. n /\ m - 1 \in 0 .. n /\ m - 1 \notin Bad
  BY <1>1, <1>2
<1>4. PICK g : FoldedTo(kind, ctx, e, b, n, g, m - 1)
  BY <1>3
<1> DEFINE h == [r \in SUBSET (1 .. n) |->
                   IF m \in r THEN Onward(kind, ctx, g[r \ {m}], e[m]) ELSE g[r]]
<1>5. ASSUME NEW r \in SUBSET (1 .. m)
      PROVE  h[r] = IF r = {} THEN b ELSE Onward(kind, ctx, h[r \ {Highest(r)}], e[Highest(r)])
  <2>1. r \in SUBSET (1 .. n) /\ r \ {Highest(r)} \in SUBSET (1 .. n) /\ m \in Nat
    <3>1. \A y \in 1 .. m : y \in 1 .. n
      BY <1>3
    <3>2. m \in Nat
      BY <1>3
    <3> QED
      BY <3>1, <3>2
  <2>2. CASE m \in r
    <3>1. Highest(r) = m /\ m \notin r \ {m}
      BY <2>1, <2>2, HighestIndex
    <3> QED
      BY <2>1, <2>2, <3>1
  <2>3. CASE m \notin r
    <3>1. r \in SUBSET (1 .. m - 1)
      BY <1>3, <2>3
    <3>2. h[r] = g[r] /\ h[r \ {Highest(r)}] = g[r \ {Highest(r)}]
      BY <2>1, <2>3
    <3> HIDE DEF h
    <3> QED
      BY <1>4, <3>1, <3>2 DEF FoldedTo
  <2> QED
    BY <2>2, <2>3
<1>6. FoldedTo(kind, ctx, e, b, n, h, m)
  <2>1. h = [r \in SUBSET (1 .. n) |-> h[r]]
    OBVIOUS
  <2> HIDE DEF h
  <2> QED
    BY <1>5, <2>1 DEF FoldedTo
<1> QED
  BY <1>1, <1>6

\* f is the fold of s along the list e, over every set of its indices.
IsFold(kind, ctx, s, e, f) ==
  \A r \in SUBSET (1 .. Len(e)) :
    f[r] = IF r = {} THEN s ELSE Onward(kind, ctx, f[r \ {Highest(r)}], e[Highest(r)])

\* The fold over the indices up to each is a walk.
LEMMA FoldIsWalk ==
  ASSUME NEW kind, NEW ctx, NEW s, NEW e, IsList(e), NEW f, IsFold(kind, ctx, s, e, f)
  PROVE  Leads(kind, ctx, s, e, f[1 .. Len(e)])
<1> DEFINE n == Len(e)
           p == [k \in 0 .. n |-> f[1 .. k]]
<1>1. n \in Nat
  BY ListParts
<1> HIDE DEF n
<1>2. ASSUME NEW k \in 1 .. n PROVE p[k] = Onward(kind, ctx, p[k - 1], e[k])
  <2> DEFINE r == 1 .. k
  <2>1. /\ r # {} /\ r \in SUBSET (1 .. n) /\ r \in SUBSET (1 .. k) /\ k \in r /\ k \in Nat
        /\ r \ {k} = 1 .. (k - 1)
    BY <1>1
  <2>2. p[k] = f[r] /\ p[k - 1] = f[1 .. (k - 1)]
    BY <1>1
  <2> HIDE DEF r, p
  <2>3. Highest(r) = k
    BY <2>1, HighestIndex
  <2>4. f[r] = Onward(kind, ctx, f[r \ {k}], e[k])
    BY <2>1, <2>3 DEF n, IsFold
  <2> QED
    BY <2>1, <2>2, <2>4
<1>3. p[0] = s
  <2>1. 1 .. 0 = {} /\ {} \in SUBSET (1 .. n)
    OBVIOUS
  <2>2. p[0] = f[{}]
    BY <1>1, <2>1
  <2> HIDE DEF p
  <2> QED
    BY <2>1, <2>2 DEF n, IsFold
<1>4. p[n] = f[1 .. n]
  BY <1>1
<1> HIDE DEF p
<1>5. IsWalk(kind, ctx, s, e, p)
  BY <1>2, <1>3 DEF IsWalk, n
<1> QED
  BY <1>4, <1>5 DEF n, Leads

\* Applying the events of a line.
LEMMA EventsWalk ==
  ASSUME NEW s, NEW e, IsList(e)
  PROVE  Leads("event", {}, s, e, SX!FoldLeft(ApplyEvent, s, e))
<1> DEFINE n == Len(e)
           Folds(g) == g = [r \in SUBSET (1 .. n) |->
                 IF r = {} THEN s ELSE ApplyEvent(g[r \ {Highest(r)}], e[Highest(r)])]
           f == CHOOSE g : Folds(g)
<1>1. n \in Nat /\ DOMAIN e = 1 .. n
  BY ListParts
<1>2. SX!FoldLeft(ApplyEvent, s, e) = f[1 .. n]
  BY <1>1, Zenon DEF SX!FoldLeft, SX!MapThenFoldSet, Highest
<1> HIDE DEF n
<1>3. \A x, y : ApplyEvent(x, y) = Onward("event", {}, x, y)
  BY DEF Onward
<1>4. \E g : Folds(g)
  <2>1. PICK g : FoldedTo("event", {}, e, s, n, g, n)
    BY <1>1, FoldExists
  <2>2. \A r \in SUBSET (1 .. n) : g[r] = IF r = {} THEN s ELSE ApplyEvent(g[r \ {Highest(r)}], e[Highest(r)])
    BY <1>3, <2>1 DEF FoldedTo
  <2>3. g = [r \in SUBSET (1 .. n) |-> g[r]]
    BY <2>1, Zenon DEF FoldedTo
  <2>4. Folds(g)
    BY <2>2, <2>3
  <2> QED
    BY <2>4
<1>5. Folds(f)
  BY <1>4, Zenon
<1> HIDE DEF f
<1>6. IsFold("event", {}, s, e, f)
  BY <1>3, <1>5 DEF IsFold, n
<1> QED
  BY <1>2, <1>6, FoldIsWalk DEF n

\* Reading lines.
LEMMA LinesWalk ==
  ASSUME NEW s, NEW e, IsList(e)
  PROVE  Leads("line", {}, s, e, SX!FoldLeft(ReadLine, s, e))
<1> DEFINE n == Len(e)
           Folds(g) == g = [r \in SUBSET (1 .. n) |->
                 IF r = {} THEN s ELSE ReadLine(g[r \ {Highest(r)}], e[Highest(r)])]
           f == CHOOSE g : Folds(g)
<1>1. n \in Nat /\ DOMAIN e = 1 .. n
  BY ListParts
<1>2. SX!FoldLeft(ReadLine, s, e) = f[1 .. n]
  BY <1>1, Zenon DEF SX!FoldLeft, SX!MapThenFoldSet, Highest
<1> HIDE DEF n
<1>3. \A x, y : ReadLine(x, y) = Onward("line", {}, x, y)
  BY DEF Onward
<1>4. \E g : Folds(g)
  <2>1. PICK g : FoldedTo("line", {}, e, s, n, g, n)
    BY <1>1, FoldExists
  <2>2. \A r \in SUBSET (1 .. n) : g[r] = IF r = {} THEN s ELSE ReadLine(g[r \ {Highest(r)}], e[Highest(r)])
    BY <1>3, <2>1 DEF FoldedTo
  <2>3. g = [r \in SUBSET (1 .. n) |-> g[r]]
    BY <2>1, Zenon DEF FoldedTo
  <2>4. Folds(g)
    BY <2>2, <2>3
  <2> QED
    BY <2>4
<1>5. Folds(f)
  BY <1>4, Zenon
<1> HIDE DEF f
<1>6. IsFold("line", {}, s, e, f)
  BY <1>3, <1>5 DEF IsFold, n
<1> QED
  BY <1>2, <1>6, FoldIsWalk DEF n

\* The folds of the readers, by name.
Loaded(s, e) == SX!FoldLeft(LAMBDA r, m : Placed(r.dec, m, "resting", r.out), s, e)
AllApplied(s, e) == SX!FoldLeft(LAMBDA b, a : Apply(b, a).book, s, e)
Listed(book, sd, s, e) == SX!FoldLeft(LAMBDA rows, p : rows \o SeededAt(book, sd, p), s, e)

\* Seeding the decoder with the rows of a snapshot.
LEMMA RowsWalk ==
  ASSUME NEW s, NEW e, IsList(e)
  PROVE  Leads("row", {}, s, e, Loaded(s, e))
<1> DEFINE n == Len(e)
           Folds(g) == g = [r \in SUBSET (1 .. n) |->
                 IF r = {} THEN s ELSE Placed(g[r \ {Highest(r)}].dec, e[Highest(r)], "resting", g[r \ {Highest(r)}].out)]
           f == CHOOSE g : Folds(g)
<1>1. n \in Nat /\ DOMAIN e = 1 .. n
  BY ListParts
<1>2. Loaded(s, e) = f[1 .. n]
  BY <1>1, Zenon DEF Loaded, SX!FoldLeft, SX!MapThenFoldSet, Highest
<1> HIDE DEF n
<1>3. \A x, y : Placed(x.dec, y, "resting", x.out) = Onward("row", {}, x, y)
  BY DEF Onward
<1>4. \E g : Folds(g)
  <2>1. PICK g : FoldedTo("row", {}, e, s, n, g, n)
    BY <1>1, FoldExists
  <2>2. ASSUME NEW r \in SUBSET (1 .. n)
        PROVE  g[r] = IF r = {} THEN s ELSE Placed(g[r \ {Highest(r)}].dec, e[Highest(r)], "resting", g[r \ {Highest(r)}].out)
    <3>1. g[r] = IF r = {} THEN s ELSE Onward("row", {}, g[r \ {Highest(r)}], e[Highest(r)])
      BY <2>1, Zenon DEF FoldedTo
    <3>2. Onward("row", {}, g[r \ {Highest(r)}], e[Highest(r)])
            = Placed(g[r \ {Highest(r)}].dec, e[Highest(r)], "resting", g[r \ {Highest(r)}].out)
      BY <1>3, Zenon
    <3> QED
      BY <3>1, <3>2, Zenon
  <2>3. g = [r \in SUBSET (1 .. n) |-> g[r]]
    BY <2>1, Zenon DEF FoldedTo
  <2>4. Folds(g)
    BY <2>2, <2>3
  <2> QED
    BY <2>4
<1>5. Folds(f)
  BY <1>4, Zenon
<1> HIDE DEF f
<1>6. IsFold("row", {}, s, e, f)
  BY <1>3, <1>5 DEF IsFold, n
<1> QED
  BY <1>2, <1>6, FoldIsWalk DEF n

\* Applying events to a book.
LEMMA AddsWalk ==
  ASSUME NEW s, NEW e, IsList(e)
  PROVE  Leads("add", {}, s, e, AllApplied(s, e))
<1> DEFINE n == Len(e)
           Folds(g) == g = [r \in SUBSET (1 .. n) |->
                 IF r = {} THEN s ELSE Apply(g[r \ {Highest(r)}], e[Highest(r)]).book]
           f == CHOOSE g : Folds(g)
<1>1. n \in Nat /\ DOMAIN e = 1 .. n
  BY ListParts
<1>2. AllApplied(s, e) = f[1 .. n]
  BY <1>1, Zenon DEF AllApplied, SX!FoldLeft, SX!MapThenFoldSet, Highest
<1> HIDE DEF n
<1>3. \A x, y : Apply(x, y).book = Onward("add", {}, x, y)
  BY DEF Onward
<1>4. \E g : Folds(g)
  <2>1. PICK g : FoldedTo("add", {}, e, s, n, g, n)
    BY <1>1, FoldExists
  <2>2. \A r \in SUBSET (1 .. n) : g[r] = IF r = {} THEN s ELSE Apply(g[r \ {Highest(r)}], e[Highest(r)]).book
    BY <1>3, <2>1 DEF FoldedTo
  <2>3. g = [r \in SUBSET (1 .. n) |-> g[r]]
    BY <2>1, Zenon DEF FoldedTo
  <2>4. Folds(g)
    BY <2>2, <2>3
  <2> QED
    BY <2>4
<1>5. Folds(f)
  BY <1>4, Zenon
<1> HIDE DEF f
<1>6. IsFold("add", {}, s, e, f)
  BY <1>3, <1>5 DEF IsFold, n
<1> QED
  BY <1>2, <1>6, FoldIsWalk DEF n

\* Listing the rows of a snapshot, price by price.
LEMMA PricesWalk ==
  ASSUME NEW book, NEW sd, NEW s, NEW e, IsList(e)
  PROVE  Leads("rows", [book |-> book, side |-> sd], s, e, Listed(book, sd, s, e))
<1> DEFINE n == Len(e)
           Folds(g) == g = [r \in SUBSET (1 .. n) |->
                 IF r = {} THEN s ELSE (g[r \ {Highest(r)}] \o SeededAt(book, sd, e[Highest(r)]))]
           f == CHOOSE g : Folds(g)
<1>1. n \in Nat /\ DOMAIN e = 1 .. n
  BY ListParts
<1>2. Listed(book, sd, s, e) = f[1 .. n]
  BY <1>1, Zenon DEF Listed, SX!FoldLeft, SX!MapThenFoldSet, Highest
<1> HIDE DEF n
<1>3. \A x, y : (x \o SeededAt(book, sd, y)) = Onward("rows", [book |-> book, side |-> sd], x, y)
  BY DEF Onward
<1>4. \E g : Folds(g)
  <2>1. PICK g : FoldedTo("rows", [book |-> book, side |-> sd], e, s, n, g, n)
    BY <1>1, FoldExists
  <2>2. ASSUME NEW r \in SUBSET (1 .. n)
        PROVE  g[r] = IF r = {} THEN s ELSE (g[r \ {Highest(r)}] \o SeededAt(book, sd, e[Highest(r)]))
    <3>1. g[r] = IF r = {} THEN s ELSE Onward("rows", [book |-> book, side |-> sd], g[r \ {Highest(r)}], e[Highest(r)])
      BY <2>1, Zenon DEF FoldedTo
    <3>2. Onward("rows", [book |-> book, side |-> sd], g[r \ {Highest(r)}], e[Highest(r)])
            = (g[r \ {Highest(r)}] \o SeededAt(book, sd, e[Highest(r)]))
      BY <1>3, Zenon
    <3> QED
      BY <3>1, <3>2, Zenon
  <2>3. g = [r \in SUBSET (1 .. n) |-> g[r]]
    BY <2>1, Zenon DEF FoldedTo
  <2>4. Folds(g)
    BY <2>2, <2>3
  <2> QED
    BY <2>4
<1>5. Folds(f)
  BY <1>4, Zenon
<1> HIDE DEF f
<1>6. IsFold("rows", [book |-> book, side |-> sd], s, e, f)
  BY <1>3, <1>5 DEF IsFold, n
<1> QED
  BY <1>2, <1>6, FoldIsWalk DEF n

-----------------------------------------------------------------------------
(***************************************************************************)
(* Folds of few items.                                                     *)
(***************************************************************************)
\* A fold over no events changes nothing, and the last event comes last.
LEMMA EventsApplied ==
  ASSUME NEW r
  PROVE  /\ SX!FoldLeft(ApplyEvent, r, <<>>) = r
         /\ \A s, e : IsList(s) => SX!FoldLeft(ApplyEvent, r, Append(s, e))
                                     = ApplyEvent(SX!FoldLeft(ApplyEvent, r, s), e)
<1> DEFINE F(s) == SX!FoldLeft(ApplyEvent, r, s)
<1>1. \A s : IsList(s) => Leads("event", {}, r, s, F(s))
  BY EventsWalk
<1> HIDE DEF F
<1>2. F(<<>>) = r
  <2>1. PICK p : IsWalk("event", {}, r, <<>>, p) /\ p[Len(<<>>)] = F(<<>>)
    BY <1>1, NothingIsAList DEF Leads
  <2>2. Len(<<>>) = 0
    OBVIOUS
  <2> QED
    BY <2>1, <2>2 DEF IsWalk
<1>3. ASSUME NEW s, NEW e, IsList(s)
      PROVE  F(Append(s, e)) = ApplyEvent(F(s), e)
  <2> DEFINE u == Append(s, e)
             n == Len(s)
  <2>1. /\ IsList(u) /\ n \in Nat /\ Len(u) = n + 1 /\ u[n + 1] = e
        /\ \A i \in 1 .. n : u[i] = s[i]
    <3>1. PICK X : s \in Seq(X)
      BY <1>3 DEF IsList
    <3>2. s \in Seq(X \cup {e})
      BY <3>1, SeqMonotonic
    <3>3. IsList(u)
      BY <1>3, ListAppended
    <3> QED
      BY <3>2, <3>3, AppendProperties, LenProperties
  <2>2. PICK p : IsWalk("event", {}, r, s, p) /\ p[n] = F(s)
    BY <1>1, <1>3 DEF Leads
  <2>3. PICK q : IsWalk("event", {}, r, u, q) /\ q[n + 1] = F(u)
    BY <1>1, <2>1 DEF Leads
  <2> HIDE DEF u, n
  <2>4. /\ p[0] = r /\ \A k \in 1 .. n : p[k] = Onward("event", {}, p[k - 1], s[k])
        /\ q[0] = r /\ \A k \in 1 .. n + 1 : q[k] = Onward("event", {}, q[k - 1], u[k])
    BY <2>1, <2>2, <2>3 DEF IsWalk, n
  <2> DEFINE Odd == {k \in 0 .. n : p[k] # q[k]}
  <2>5. Odd = {}
    <3> SUFFICES ASSUME Odd # {} PROVE FALSE
      OBVIOUS
    <3>1. PICK k \in Odd : \A j \in Odd : k <= j
      <4>1. Odd \in SUBSET Nat
        BY <2>1
      <4> QED
        BY <4>1, LeastExists
    <3>2. k # 0
      BY <2>4, <3>1
    <3>3. k \in 1 .. n /\ k - 1 \in 0 .. n /\ k - 1 \notin Odd /\ k \in 1 .. n + 1
      BY <2>1, <3>1, <3>2
    <3>4. p[k - 1] = q[k - 1] /\ s[k] = u[k]
      BY <2>1, <3>3
    <3> QED
      BY <2>4, <3>1, <3>3, <3>4
  <2>6. p[n] = q[n] /\ n + 1 \in 1 .. n + 1 /\ n + 1 - 1 = n
    BY <2>1, <2>5
  <2>7. q[n + 1] = Onward("event", {}, q[n], e)
    <3> DEFINE k == n + 1
    <3>1. k \in 1 .. n + 1 /\ k - 1 = n /\ u[k] = e
      BY <2>1
    <3> HIDE DEF k
    <3>2. q[k] = Onward("event", {}, q[k - 1], u[k])
      BY <2>4, <3>1
    <3>3. q[k] = Onward("event", {}, q[n], e)
      BY <3>1, <3>2, Zenon
    <3> QED
      BY <3>3 DEF k
  <2>8. Onward("event", {}, q[n], e) = ApplyEvent(q[n], e)
    BY Zenon DEF Onward
  <2>9. F(u) = ApplyEvent(F(s), e)
    BY <2>2, <2>3, <2>6, <2>7, <2>8, Zenon
  <2> QED
    BY <2>9, Zenon DEF u
<1> QED
  BY <1>2, <1>3 DEF F

-----------------------------------------------------------------------------
(***************************************************************************)
(* The decoder: what one message makes of what it tracks.                  *)
(***************************************************************************)
Types == {"created", "changed", "deleted"}
Kinds == {"none", "suppressed", "pending", "resting"}

\* What is tracked of an order.
Tracks == [left : Nat, side : Sides, price : Int, kind : Kinds]

IsDecoder(d) ==
  /\ d = [live |-> d.live, last |-> d.last, gaps |-> d.gaps, errors |-> d.errors,
          violations |-> d.violations]
  /\ d.live \in [Ids -> Tracks] /\ d.last \in Nat /\ d.gaps \in Nat

\* A message that was sent: only an order that is gone has nothing left.
Messages ==
  {m \in [type : Types, id : Ids, side : Sides, price : Prices, left : Nat, traded : Int,
          readable : BOOLEAN, eid : Nat, pre : Int] : m.type # "deleted" => m.left > 0}

LEMMA MessageIs ==
  ASSUME NEW m \in Messages
  PROVE  /\ m.type \in Types /\ m.id \in Ids /\ m.side \in Sides /\ m.price \in Prices
         /\ m.price \in Int /\ m.left \in Nat /\ m.traded \in Int /\ m.eid \in Nat /\ m.pre \in Int
         /\ m.readable \in BOOLEAN
         /\ m.type # "deleted" => m.left > 0
BY InputAssumption DEF Messages

\* What a message traded of an order and what is left of that order then, as the
\* decoder believes.
Fill(st, m) == FillOf(m, st)
LeftOf(st, m) == st.left - Fill(st, m)
Fills(st, m) ==
  IF Fill(st, m) > 0 THEN <<Event("Execute", m.id, m.id, st.side, st.price, Fill(st, m))>> ELSE <<>>
GoneOf(st, m) == Event("Delete", m.id, m.id, st.side, st.price, LeftOf(st, m))

\* A message that changes nothing; one that ends what is not in the book; one
\* that gives an order a place anew; and the messages about an order in the book.
Nothing(st, m, t, out) ==
  t = st /\ out = <<>> /\ (~m.readable \/ (m.type # "created" /\ st.kind \in {"none", "suppressed"}))
Forgotten(st, m, t, out) ==
  t = Untracked /\ out = <<>> /\ m.type = "deleted" /\ st.kind \in {"suppressed", "pending"}

\* The order is tracked as the message describes it, after the events before.
PlacedAs(m, b, t, before, out) ==
  \/ \E k \in {"suppressed", "pending"} : t = OrderState(m.left, m.side, m.price, k) /\ out = before
  \/ /\ t = OrderState(m.left, m.side, m.price, "resting") /\ out = Append(before, AddOf(m))
     /\ m.price \in Window /\ ~Crosses(b, m.side, m.price)

Appears(st, m, b, t, out) ==
  /\ m.type = "created" \/ (m.type = "changed" /\ st.kind = "pending")
  /\ PlacedAs(m, b, t, <<>>, out)

InTheBook(st, m) == m.type # "created" /\ st.kind = "resting"

Ends(st, m, t, out) ==
  /\ InTheBook(st, m) /\ m.type = "deleted" /\ t = Untracked
  /\ out = IF LeftOf(st, m) > 0 THEN Append(Fills(st, m), GoneOf(st, m)) ELSE Fills(st, m)
Moves(st, m, b, t, out) ==
  /\ InTheBook(st, m) /\ m.type = "changed" /\ m.price # st.price
  /\ PlacedAs(m, b, t, Append(Fills(st, m), GoneOf(st, m)), out)
GetsLess(st, m, t, out) ==
  /\ InTheBook(st, m) /\ m.type = "changed" /\ m.price = st.price /\ m.left < LeftOf(st, m)
  /\ t = OrderState(m.left, st.side, st.price, "resting")
  /\ out = Append(Fills(st, m),
                  Event("Reduce", m.id, m.id, st.side, st.price, LeftOf(st, m) - m.left))
GetsMore(st, m, t, out) ==
  /\ InTheBook(st, m) /\ m.type = "changed" /\ m.price = st.price /\ m.left > LeftOf(st, m)
  /\ t = OrderState(m.left, m.side, st.price, "resting")
  /\ out = Append(Append(Fills(st, m), GoneOf(st, m)), AddOf(m))
Stays(st, m, t, out) ==
  /\ InTheBook(st, m) /\ m.type = "changed" /\ m.price = st.price /\ m.left = LeftOf(st, m)
  /\ t = OrderState(m.left, st.side, st.price, "resting")
  /\ out = Fills(st, m)

Outcome(st, m, b, t, out) ==
  \/ Nothing(st, m, t, out) \/ Forgotten(st, m, t, out) \/ Appears(st, m, b, t, out)
  \/ m.readable /\ \/ Ends(st, m, t, out) \/ Moves(st, m, b, t, out) \/ GetsLess(st, m, t, out)
                   \/ GetsMore(st, m, t, out) \/ Stays(st, m, t, out)

\* The greater and the lesser of two numbers.
LEMMA OfTwo ==
  ASSUME NEW i \in Int, NEW j \in Int
  PROVE  /\ SX!Max({i, j}) = IF i >= j THEN i ELSE j
         /\ SX!Min({i, j}) = IF i <= j THEN i ELSE j
<1> DEFINE Top(x) == \A y \in {i, j} : x >= y
           Low(x) == \A y \in {i, j} : x <= y
<1>1. SX!Max({i, j}) = CHOOSE x \in {i, j} : Top(x)
  BY DEF SX!Max
<1>2. SX!Min({i, j}) = CHOOSE x \in {i, j} : Low(x)
  BY DEF SX!Min
<1>3. /\ \E x \in {i, j} : Top(x)
      /\ \E x \in {i, j} : Low(x)
  OBVIOUS
<1> HIDE DEF Top, Low
<1>4. /\ SX!Max({i, j}) \in {i, j} /\ Top(SX!Max({i, j}))
      /\ SX!Min({i, j}) \in {i, j} /\ Low(SX!Min({i, j}))
  BY <1>1, <1>2, <1>3
<1> QED
  BY <1>4 DEF Top, Low

\* The decoder never takes a message to have traded more than it believes rests.
LEMMA FillIs ==
  ASSUME NEW st \in Tracks, NEW m \in Messages
  PROVE  /\ Fill(st, m) \in Nat /\ LeftOf(st, m) \in Nat /\ Fill(st, m) <= st.left
         /\ LeftOf(st, m) = st.left - Fill(st, m)
         /\ m.traded <= 0 => Fill(st, m) = 0
         /\ m.traded > 0 => Fill(st, m) = IF m.traded <= st.left THEN m.traded ELSE st.left
<1>1. m.traded \in Int /\ st.left \in Nat
  BY MessageIs DEF Tracks
<1>2. SX!Max({0, m.traded}) = IF 0 >= m.traded THEN 0 ELSE m.traded
  BY <1>1, OfTwo
<1>3. SX!Max({0, m.traded}) \in Int
  BY <1>1, <1>2
<1> DEFINE k == SX!Max({0, m.traded})
           l == st.left
<1>4. Fill(st, m) = SX!Min({k, l}) /\ k \in Int /\ l \in Int
  BY <1>1, <1>3 DEF Fill, FillOf
<1> HIDE DEF k, l
<1>5. Fill(st, m) = IF k <= l THEN k ELSE l
  BY <1>4, OfTwo
<1> QED
  BY <1>1, <1>2, <1>5 DEF LeftOf, k, l

\* e is the decoder d with t for the order of the message.
Sets(d, m, t, e) ==
  /\ IsDecoder(e) /\ e.live = [d.live EXCEPT ![m.id] = t]
  /\ e.last = d.last /\ e.gaps = d.gaps

LEMMA SetsAgain ==
  ASSUME NEW d, IsDecoder(d), NEW m \in Messages, NEW t, NEW u, NEW e, NEW f,
         Sets(d, m, t, e), Sets(e, m, u, f)
  PROVE  Sets(d, m, u, f)
<1>1. m.id \in Ids /\ d.live \in [Ids -> Tracks]
  BY MessageIs DEF IsDecoder
<1> QED
  BY <1>1 DEF Sets

LEMMA TrackIs ==
  ASSUME NEW d, IsDecoder(d), NEW m \in Messages, NEW kind \in Kinds
  PROVE  /\ OrderState(m.left, m.side, m.price, kind) \in Tracks
         /\ Sets(d, m, OrderState(m.left, m.side, m.price, kind), Track(d, m, kind))
<1> DEFINE t == OrderState(m.left, m.side, m.price, kind)
<1>1. t \in Tracks
  BY MessageIs DEF OrderState, Tracks
<1>2. m.id \in Ids /\ d.live \in [Ids -> Tracks]
  BY MessageIs DEF IsDecoder
<1>3. Track(d, m, kind) = [d EXCEPT !.live = [d.live EXCEPT ![m.id] = t]]
  BY <1>2 DEF Track, IsDecoder
<1> HIDE DEF t
<1>4. [d.live EXCEPT ![m.id] = t] \in [Ids -> Tracks]
  BY <1>1, <1>2
<1>5. Sets(d, m, t, Track(d, m, kind))
  BY <1>3, <1>4 DEF Sets, IsDecoder
<1> QED
  BY <1>1, <1>5 DEF t

LEMMA EraseIs ==
  ASSUME NEW d, IsDecoder(d), NEW m \in Messages
  PROVE  Untracked \in Tracks /\ Sets(d, m, Untracked, Erase(d, m))
<1>1. Untracked \in Tracks
  BY DEF OrderState, Tracks, Untracked, Sides, Kinds
<1>2. m.id \in Ids /\ d.live \in [Ids -> Tracks]
  BY MessageIs DEF IsDecoder
<1>3. Erase(d, m) = [d EXCEPT !.live = [d.live EXCEPT ![m.id] = Untracked]]
  BY <1>2 DEF Erase, IsDecoder
<1>4. [d.live EXCEPT ![m.id] = Untracked] \in [Ids -> Tracks]
  BY <1>1, <1>2
<1> QED
  BY <1>1, <1>3, <1>4 DEF Sets, IsDecoder

\* The decoder once a message has been linked to the one before it.
LEMMA ChainIs ==
  ASSUME NEW d, IsDecoder(d), NEW m \in Messages
  PROVE  /\ IsDecoder(Chain(d, m)) /\ Chain(d, m).live = d.live /\ Chain(d, m).last = m.eid
         /\ Chain(d, m).gaps = IF d.last # NoEvent /\ m.pre # d.last THEN d.gaps + 1 ELSE d.gaps
<1>1. m.eid \in Nat /\ d.last \in Nat /\ d.gaps \in Nat
  BY MessageIs DEF IsDecoder
<1> DEFINE gaps == IF d.last # NoEvent /\ m.pre # d.last THEN d.gaps + 1 ELSE d.gaps
<1>2. Chain(d, m) = [live |-> d.live, last |-> m.eid, gaps |-> gaps, errors |-> d.errors,
                     violations |-> d.violations]
  <2>1. d = [live |-> d.live, last |-> d.last, gaps |-> d.gaps, errors |-> d.errors,
             violations |-> d.violations]
    BY DEF IsDecoder
  <2>2. Chain(d, m) = [d EXCEPT !.gaps = gaps, !.last = m.eid]
    BY DEF Chain
  <2> HIDE DEF gaps
  <2> QED
    BY <2>1, <2>2
<1>3. gaps \in Nat
  BY <1>1
<1> HIDE DEF gaps
<1>4. d.live \in [Ids -> Tracks]
  BY DEF IsDecoder
<1>5. IsDecoder(Chain(d, m)) /\ Chain(d, m).live = d.live /\ Chain(d, m).last = m.eid
        /\ Chain(d, m).gaps = gaps
  BY <1>1, <1>2, <1>3, <1>4 DEF IsDecoder
<1> QED
  BY <1>5 DEF gaps

\* An order the decoder places.
LEMMA PlacedIs ==
  ASSUME NEW d, IsDecoder(d), NEW m \in Messages, NEW b, NEW kind \in Kinds \ {"none"},
         kind = "resting" => m.price \in Window /\ ~Crosses(b, m.side, m.price),
         NEW before, IsList(before), NEW r, r = Placed(d, m, kind, before)
  PROVE  IsList(r.out) /\ \E t : Sets(d, m, t, r.dec) /\ PlacedAs(m, b, t, before, r.out)
<1> DEFINE t == OrderState(m.left, m.side, m.price, kind)
<1>1. /\ r.dec = Track(d, m, kind)
      /\ r.out = IF kind = "resting" THEN Append(before, AddOf(m)) ELSE before
  BY DEF Placed, Decoded
<1>2. Sets(d, m, t, r.dec)
  BY <1>1, TrackIs
<1>3. IsList(r.out)
  BY <1>1, ListAppended
<1>4. PlacedAs(m, b, t, before, r.out)
  BY <1>1 DEF PlacedAs, Kinds
<1> QED
  BY <1>2, <1>3, <1>4

LEMMA StandingIs ==
  ASSUME NEW m, NEW b
  PROVE  /\ Standing(m, b) \in Kinds \ {"none"}
         /\ Standing(m, b) = "resting" => m.price \in Window /\ ~Crosses(b, m.side, m.price)
         /\ Standing(m, b) = "pending" => m.price \in Window
BY DEF Standing, Kinds

\* The decoder decides what the message m makes of its order.
Decides(d, m, b, r) ==
  IsList(r.out) /\ \E t : Sets(d, m, t, r.dec) /\ Outcome(d.live[m.id], m, b, t, r.out)

\* A message that changes nothing that is tracked.
LEMMA NothingDecided ==
  ASSUME NEW d, IsDecoder(d), NEW m \in Messages, NEW b, NEW e, IsDecoder(e), e.live = d.live,
         e.last = d.last, e.gaps = d.gaps,
         ~m.readable \/ (m.type # "created" /\ d.live[m.id].kind \in {"none", "suppressed"}),
         NEW r, r = Decoded(e, <<>>)
  PROVE  Decides(d, m, b, r)
<1> DEFINE t == d.live[m.id]
<1>1. Sets(d, m, t, e)
  <2>1. d.live \in [Ids -> Tracks] /\ m.id \in Ids
    BY MessageIs DEF IsDecoder
  <2>2. d.live = [d.live EXCEPT ![m.id] = t]
    BY <2>1
  <2> QED
    BY <2>2 DEF Sets
<1>2. r.dec = e /\ r.out = <<>> /\ IsList(r.out)
  BY NothingIsAList DEF Decoded
<1>3. Outcome(t, m, b, t, r.out)
  BY <1>2 DEF Outcome, Nothing
<1> QED
  BY <1>1, <1>2, <1>3 DEF Decides

\* A message about an order that is told of for the first time.
LEMMA CreatedIs ==
  ASSUME NEW d, IsDecoder(d), NEW m \in Messages, NEW b, m.type = "created"
  PROVE  Decides(d, m, b, Created(d, m, b))
<1> DEFINE r == Created(d, m, b)
<1>1. r = Placed(d, m, Standing(m, b), <<>>)
  BY DEF Created
<1> HIDE DEF r
<1>2. IsList(r.out) /\ \E t : Sets(d, m, t, r.dec) /\ PlacedAs(m, b, t, <<>>, r.out)
  BY <1>1, PlacedIs, StandingIs, NothingIsAList
<1>3. Decides(d, m, b, r)
  BY <1>2 DEF Decides, Outcome, Appears
<1> QED
  BY <1>3 DEF r

\* A message about an order outside the window.
LEMMA OfSuppressedIs ==
  ASSUME NEW d, IsDecoder(d), NEW m \in Messages, NEW b, m.type # "created",
         d.live[m.id].kind = "suppressed"
  PROVE  Decides(d, m, b, OfSuppressed(d, m))
<1> DEFINE r == OfSuppressed(d, m)
<1>1. CASE m.type = "deleted"
  <2>1. r.dec = Erase(d, m) /\ r.out = <<>> /\ IsList(r.out)
    BY <1>1, NothingIsAList DEF OfSuppressed, Decoded
  <2> HIDE DEF r
  <2>2. Sets(d, m, Untracked, r.dec)
    BY <2>1, EraseIs
  <2>3. Outcome(d.live[m.id], m, b, Untracked, r.out)
    BY <1>1, <2>1 DEF Outcome, Forgotten
  <2>4. Decides(d, m, b, r)
    BY <2>1, <2>2, <2>3 DEF Decides
  <2> QED
    BY <2>4 DEF r
<1>2. CASE m.type # "deleted"
  <2>1. r = Decoded(d, <<>>)
    BY <1>2 DEF OfSuppressed
  <2> HIDE DEF r
  <2>2. Decides(d, m, b, r)
    BY <2>1, NothingDecided
  <2> QED
    BY <2>2 DEF r
<1> QED
  BY <1>1, <1>2

\* A message about an order that was marketable.
LEMMA OfPendingIs ==
  ASSUME NEW d, IsDecoder(d), NEW m \in Messages, NEW b, m.type # "created",
         d.live[m.id].kind = "pending"
  PROVE  Decides(d, m, b, OfPending(d, m, b))
<1> DEFINE r == OfPending(d, m, b)
<1>1. CASE m.type = "deleted"
  <2>1. r.dec = Erase(d, m) /\ r.out = <<>> /\ IsList(r.out)
    BY <1>1, NothingIsAList DEF OfPending, Decoded
  <2> HIDE DEF r
  <2>2. Sets(d, m, Untracked, r.dec)
    BY <2>1, EraseIs
  <2>3. Outcome(d.live[m.id], m, b, Untracked, r.out)
    BY <1>1, <2>1 DEF Outcome, Forgotten
  <2>4. Decides(d, m, b, r)
    BY <2>1, <2>2, <2>3 DEF Decides
  <2> QED
    BY <2>4 DEF r
<1>2. CASE m.type # "deleted"
  <2>1. \E kind \in Kinds \ {"none"} :
          /\ r = Placed(d, m, kind, <<>>)
          /\ kind = "resting" => m.price \in Window /\ ~Crosses(b, m.side, m.price)
    <3>1. CASE m.left > 0 /\ ~Crosses(b, m.side, m.price)
      <4>1. r = Placed(d, m, Standing(m, b), <<>>)
        BY <1>2, <3>1 DEF OfPending
      <4> QED
        BY <4>1, StandingIs
    <3>2. CASE ~(m.left > 0 /\ ~Crosses(b, m.side, m.price))
      <4>1. r = Placed(d, m, "pending", <<>>)
        BY <1>2, <3>2 DEF OfPending
      <4>2. "pending" \in Kinds \ {"none"} /\ "pending" # "resting"
        BY DEF Kinds
      <4> QED
        BY <4>1, <4>2
    <3> QED
      BY <3>1, <3>2
  <2> HIDE DEF r
  <2>2. IsList(r.out) /\ \E t : Sets(d, m, t, r.dec) /\ PlacedAs(m, b, t, <<>>, r.out)
    BY <2>1, PlacedIs, NothingIsAList
  <2>3. m.type = "changed"
    BY <1>2, MessageIs DEF Types
  <2>4. Decides(d, m, b, r)
    BY <2>2, <2>3 DEF Decides, Outcome, Appears
  <2> QED
    BY <2>4 DEF r
<1> QED
  BY <1>1, <1>2

\* A decoder that takes an order to have n left.
LEMMA LeftSet ==
  ASSUME NEW d, IsDecoder(d), NEW m \in Messages, NEW n \in Nat, NEW t,
         t = [d.live[m.id] EXCEPT !.left = n],
         NEW e, \E v : e = [d EXCEPT !.live[m.id].left = n, !.violations = v]
  PROVE  Sets(d, m, t, e) /\ t \in Tracks
<1>1. d.live \in [Ids -> Tracks] /\ m.id \in Ids
  BY MessageIs DEF IsDecoder
<1>2. d.live[m.id] \in Tracks
  BY <1>1
<1>3. t \in Tracks
  BY <1>2 DEF Tracks
<1> DEFINE f == [d.live EXCEPT ![m.id] = t]
<1>4. f = [d.live EXCEPT ![m.id].left = n]
  BY <1>1
<1>5. f \in [Ids -> Tracks]
  BY <1>1, <1>3
<1>6. PICK v : e = [d EXCEPT !.live[m.id].left = n, !.violations = v]
  OBVIOUS
<1>7. e = [live |-> f, last |-> d.last, gaps |-> d.gaps, errors |-> d.errors, violations |-> v]
  <2>1. d = [live |-> d.live, last |-> d.last, gaps |-> d.gaps, errors |-> d.errors,
             violations |-> d.violations]
    BY DEF IsDecoder
  <2>2. e = [d EXCEPT !.live = [d.live EXCEPT ![m.id].left = n], !.violations = v]
    BY <1>6, <2>1
  <2>3. e = [d EXCEPT !.live = f, !.violations = v]
    BY <1>4, <2>2
  <2> HIDE DEF f
  <2> QED
    BY <2>1, <2>3
<1> HIDE DEF f
<1>8. IsDecoder(e) /\ e.live = f /\ e.last = d.last /\ e.gaps = d.gaps
  BY <1>5, <1>7 DEF IsDecoder
<1> QED
  BY <1>3, <1>8 DEF Sets, f

\* A message about an order in the book.
LEMMA OfRestingIs ==
  ASSUME NEW d, IsDecoder(d), NEW m \in Messages, NEW b, m.readable, m.type # "created",
         d.live[m.id].kind = "resting"
  PROVE  Decides(d, m, b, OfResting(d, m, b))
<1> DEFINE st == d.live[m.id]
           left == LeftOf(st, m)
           events == Fills(st, m)
           gone == GoneOf(st, m)
           broken == m.traded # NotSent /\ SX!Max({0, m.traded}) + m.left > st.left
           v == IF broken THEN d.violations + 1 ELSE d.violations
           e == [d EXCEPT !.live[m.id].left = left, !.violations = v]
           r == OfResting(d, m, b)
           u == OrderState(left, st.side, st.price, "resting")
<1>1. /\ st \in Tracks /\ left \in Nat /\ m.type \in Types /\ m.left \in Nat
      /\ st = OrderState(st.left, st.side, st.price, "resting")
  <2>1. st \in Tracks /\ m.type \in Types /\ m.left \in Nat
    BY MessageIs DEF IsDecoder
  <2>2. left \in Nat
    BY <2>1, FillIs
  <2> HIDE DEF st, left
  <2>3. st.kind = "resting"
    BY DEF st
  <2> QED
    BY <2>1, <2>2, <2>3 DEF Tracks, OrderState
<1>2. r = CASE m.type = "deleted" ->
                 Decoded(Erase(e, m), IF left > 0 THEN Append(events, gone) ELSE events)
            [] m.type = "changed" /\ m.price # st.price ->
                 Placed(e, m, Standing(m, b), Append(events, gone))
            [] m.type = "changed" /\ m.price = st.price ->
                 IF m.left < left THEN Shrink(e, m, st, left, events)
                 ELSE IF m.left > left THEN Grow(e, m, st, left, events)
                 ELSE Decoded(e, events)
  BY DEF OfResting, Fills, GoneOf, LeftOf, Fill
<1>3. IsList(events)
  <2>1. IsList(Append(<<>>, Event("Execute", m.id, m.id, st.side, st.price, Fill(st, m))))
    BY NothingIsAList, ListAppended
  <2>2. \A x : Append(<<>>, x) = <<x>>
    OBVIOUS
  <2>3. IsList(<<Event("Execute", m.id, m.id, st.side, st.price, Fill(st, m))>>)
    BY <2>1, <2>2
  <2> QED
    BY <2>3, NothingIsAList DEF Fills
<1>4. Sets(d, m, u, e)
  <2>1. [st EXCEPT !.left = left] = u
    BY <1>1 DEF OrderState
  <2> HIDE DEF u, left, v
  <2>2. \E w : e = [d EXCEPT !.live[m.id].left = left, !.violations = w]
    OBVIOUS
  <2> HIDE DEF e
  <2>3. left \in Nat /\ u = [d.live[m.id] EXCEPT !.left = left]
    BY <1>1, <2>1
  <2> QED
    BY <2>2, <2>3, LeftSet
<1> HIDE DEF r, e, v, broken, events, gone
<1>5. IsDecoder(e) /\ e.live[m.id] = u
  <2>1. d.live \in [Ids -> Tracks] /\ m.id \in Ids
    BY MessageIs DEF IsDecoder
  <2> HIDE DEF u
  <2> QED
    BY <1>4, <2>1 DEF Sets
<1> HIDE DEF u, st, left
<1>6. InTheBook(st, m)
  BY DEF InTheBook, st
<1>7. CASE m.type = "deleted"
  <2>1. r.dec = Erase(e, m) /\ r.out = IF left > 0 THEN Append(events, gone) ELSE events
    BY <1>2, <1>7 DEF Decoded
  <2>2. Sets(d, m, Untracked, r.dec)
    BY <1>4, <1>5, <2>1, EraseIs, SetsAgain
  <2>3. IsList(r.out)
    BY <1>3, <2>1, ListAppended
  <2>4. Ends(st, m, Untracked, r.out)
    BY <1>6, <1>7, <2>1 DEF Ends, left, events, gone
  <2> QED
    BY <2>2, <2>3, <2>4 DEF Decides, Outcome, r, st
<1>8. CASE m.type = "changed" /\ m.price # st.price
  <2>1. r = Placed(e, m, Standing(m, b), Append(events, gone))
    BY <1>2, <1>8
  <2>2. IsList(Append(events, gone))
    BY <1>3, ListAppended
  <2>3. PICK t : IsList(r.out) /\ Sets(e, m, t, r.dec)
                 /\ PlacedAs(m, b, t, Append(events, gone), r.out)
    BY <1>5, <2>1, <2>2, PlacedIs, StandingIs
  <2>4. Sets(d, m, t, r.dec)
    BY <1>4, <2>3, SetsAgain
  <2>5. Moves(st, m, b, t, r.out)
    BY <1>6, <1>8, <2>3 DEF Moves, events, gone
  <2> QED
    BY <2>3, <2>4, <2>5 DEF Decides, Outcome, r, st
<1>9. CASE m.type = "changed" /\ m.price = st.price /\ m.left < left
  <2>1. r = Shrink(e, m, st, left, events)
    BY <1>2, <1>9
  <2>2. /\ r.dec = [e EXCEPT !.live[m.id].left = m.left]
        /\ r.out = Append(events, Event("Reduce", m.id, m.id, st.side, st.price, left - m.left))
    BY <2>1 DEF Shrink, Decoded
  <2> DEFINE t == OrderState(m.left, st.side, st.price, "resting")
  <2>3. t = [e.live[m.id] EXCEPT !.left = m.left]
    BY <1>5 DEF u, OrderState
  <2>4. r.dec = [e EXCEPT !.live[m.id].left = m.left, !.violations = e.violations]
    BY <1>5, <2>2 DEF IsDecoder
  <2> HIDE DEF t
  <2>5. Sets(e, m, t, r.dec)
    BY <1>1, <1>5, <2>3, <2>4, LeftSet
  <2>6. Sets(d, m, t, r.dec)
    BY <1>4, <2>5, SetsAgain
  <2>7. IsList(r.out)
    BY <1>3, <2>2, ListAppended
  <2>8. GetsLess(st, m, t, r.out)
    BY <1>6, <1>9, <2>2 DEF GetsLess, events, left, t
  <2> QED
    BY <2>6, <2>7, <2>8 DEF Decides, Outcome, r, st
<1>10. CASE m.type = "changed" /\ m.price = st.price /\ m.left > left
  <2>1. r = Grow(e, m, st, left, events)
    BY <1>1, <1>2, <1>10
  <2>2. /\ r.dec = [e EXCEPT !.live[m.id].left = m.left, !.live[m.id].side = m.side]
        /\ r.out = events \o <<gone, AddOf(m)>>
    BY <2>1 DEF Grow, Decoded, gone, GoneOf, left, LeftOf, Fill
  <2> DEFINE t == OrderState(m.left, m.side, st.price, "resting")
  <2>3. t \in Tracks
    BY <1>1, MessageIs DEF Tracks, OrderState, Kinds
  <2>4. e.live \in [Ids -> Tracks] /\ m.id \in Ids
    BY <1>5, MessageIs DEF IsDecoder
  <2>5. r.dec = [e EXCEPT !.live = [e.live EXCEPT ![m.id] = t]]
    <3>1. e = [live |-> e.live, last |-> e.last, gaps |-> e.gaps, errors |-> e.errors,
               violations |-> e.violations]
      BY <1>5 DEF IsDecoder
    <3>2. [[e.live EXCEPT ![m.id].left = m.left] EXCEPT ![m.id].side = m.side]
             = [e.live EXCEPT ![m.id] = t]
      BY <1>5, <2>4 DEF u, OrderState
    <3>3. r.dec = [e EXCEPT !.live = [[e.live EXCEPT ![m.id].left = m.left] EXCEPT ![m.id].side = m.side]]
      BY <2>2, <3>1
    <3> HIDE DEF t
    <3> QED
      BY <3>2, <3>3
  <2> HIDE DEF t
  <2>6. Sets(e, m, t, r.dec)
    <3>1. [e.live EXCEPT ![m.id] = t] \in [Ids -> Tracks]
      BY <2>3, <2>4
    <3> QED
      BY <1>5, <2>5, <3>1 DEF Sets, IsDecoder
  <2>7. Sets(d, m, t, r.dec)
    BY <1>4, <2>6, SetsAgain
  <2>8. r.out = Append(Append(events, gone), AddOf(m)) /\ IsList(r.out)
    <3>1. PICK X : events \in Seq(X)
      BY <1>3 DEF IsList
    <3>2. events \in Seq(X \cup {gone, AddOf(m)})
      BY <3>1, SeqMonotonic
    <3>3. events \o <<gone, AddOf(m)>> = Append(Append(events, gone), AddOf(m))
      BY <3>2
    <3>4. IsList(Append(Append(events, gone), AddOf(m)))
      BY <1>3, ListAppended
    <3> QED
      BY <2>2, <3>3, <3>4
  <2>9. GetsMore(st, m, t, r.out)
    BY <1>6, <1>10, <2>8 DEF GetsMore, events, gone, left, t
  <2> QED
    BY <2>7, <2>8, <2>9 DEF Decides, Outcome, r, st
<1>11. CASE m.type = "changed" /\ m.price = st.price /\ m.left = left
  <2>1. r = Decoded(e, events)
    BY <1>1, <1>2, <1>11
  <2>2. r.dec = e /\ r.out = events
    BY <2>1 DEF Decoded
  <2>3. Stays(st, m, u, r.out)
    BY <1>6, <1>11, <2>2 DEF Stays, events, left, u
  <2> QED
    BY <1>3, <1>4, <2>2, <2>3 DEF Decides, Outcome, r, st
<1>12. m.type \in {"deleted", "changed"}
  BY <1>1 DEF Types
<1>13. m.left < left \/ m.left > left \/ m.left = left
  BY <1>1
<1> QED
  BY <1>7, <1>8, <1>9, <1>10, <1>11, <1>12, <1>13

\* What the decoder makes of a message: the chain, the order it is about, and
\* the events for the book.
LEMMA DecodeIs ==
  ASSUME NEW d, IsDecoder(d), NEW m \in Messages, NEW b
  PROVE  LET r == DecodeLine(d, m, b)
         IN /\ IsDecoder(r.dec) /\ r.dec.last = m.eid
            /\ r.dec.gaps = IF d.last # NoEvent /\ m.pre # d.last THEN d.gaps + 1 ELSE d.gaps
            /\ IsList(r.out)
            /\ \E t : /\ r.dec.live = [d.live EXCEPT ![m.id] = t]
                      /\ Outcome(d.live[m.id], m, b, t, r.out)
<1> DEFINE r == DecodeLine(d, m, b)
           c == Chain(d, m)
<1>1. /\ IsDecoder(c) /\ c.live = d.live /\ c.last = m.eid
      /\ c.gaps = IF d.last # NoEvent /\ m.pre # d.last THEN d.gaps + 1 ELSE d.gaps
  BY ChainIs
<1>2. c.live[m.id].kind \in Kinds
  BY <1>1, MessageIs DEF IsDecoder, Tracks
<1>3. r = IF ~m.readable THEN Decoded([c EXCEPT !.errors = @ + 1], <<>>)
          ELSE IF m.type = "created" THEN Created(c, m, b)
          ELSE CASE c.live[m.id].kind = "none" -> Decoded(c, <<>>)
                 [] c.live[m.id].kind = "suppressed" -> OfSuppressed(c, m)
                 [] c.live[m.id].kind = "pending" -> OfPending(c, m, b)
                 [] c.live[m.id].kind = "resting" -> OfResting(c, m, b)
  BY DEF DecodeLine
<1> HIDE DEF r, c
<1>4. Decides(c, m, b, r)
  <2>1. CASE ~m.readable
    <3> DEFINE e == [c EXCEPT !.errors = @ + 1]
    <3>1. r = Decoded(e, <<>>)
      BY <1>3, <2>1
    <3>2. IsDecoder(e) /\ e.live = c.live /\ e.last = c.last /\ e.gaps = c.gaps
      <4>1. c = [live |-> c.live, last |-> c.last, gaps |-> c.gaps, errors |-> c.errors,
                 violations |-> c.violations]
        BY <1>1 DEF IsDecoder
      <4>2. e = [live |-> c.live, last |-> c.last, gaps |-> c.gaps, errors |-> c.errors + 1,
                 violations |-> c.violations]
        BY <4>1
      <4> HIDE DEF e
      <4> QED
        BY <1>1, <4>2 DEF IsDecoder
    <3> HIDE DEF e
    <3> QED
      BY <1>1, <2>1, <3>1, <3>2, NothingDecided
  <2>2. CASE m.readable /\ m.type = "created"
    BY <1>1, <1>3, <2>2, CreatedIs
  <2>3. CASE m.readable /\ m.type # "created" /\ c.live[m.id].kind = "none"
    <3>1. r = Decoded(c, <<>>)
      BY <1>3, <2>3
    <3> QED
      BY <1>1, <2>3, <3>1, NothingDecided
  <2>4. CASE m.readable /\ m.type # "created" /\ c.live[m.id].kind = "suppressed"
    BY <1>1, <1>3, <2>4, OfSuppressedIs
  <2>5. CASE m.readable /\ m.type # "created" /\ c.live[m.id].kind = "pending"
    BY <1>1, <1>3, <2>5, OfPendingIs
  <2>6. CASE m.readable /\ m.type # "created" /\ c.live[m.id].kind = "resting"
    BY <1>1, <1>3, <2>6, OfRestingIs
  <2> QED
    BY <1>2, <2>1, <2>2, <2>3, <2>4, <2>5, <2>6 DEF Kinds
<1>5. /\ IsDecoder(r.dec) /\ r.dec.last = c.last /\ r.dec.gaps = c.gaps /\ IsList(r.out)
      /\ \E t : /\ r.dec.live = [c.live EXCEPT ![m.id] = t]
                /\ Outcome(c.live[m.id], m, b, t, r.out)
  BY <1>4 DEF Decides, Sets
<1> QED
  BY <1>1, <1>5 DEF r

-----------------------------------------------------------------------------
(***************************************************************************)
(* The rows of a snapshot.                                                 *)
(***************************************************************************)
\* A row of a snapshot tells of an order of the book, on that side, in the window.
RowOf(book, sd, m) ==
  \E j : /\ m.price \in Window /\ Rests(book, m.id, sd, m.price, j)
         /\ m = Line("created", m.id, sd, m.price, book[sd][m.price][j].qty, 0)

\* Rows that tell of orders on these sides, none of them twice.
RowsFrom(book, sds, rows) ==
  /\ IsList(rows)
  /\ \A i \in 1 .. Len(rows) : \E sd \in sds : RowOf(book, sd, rows[i])
  /\ \A i, j \in 1 .. Len(rows) : rows[i].id = rows[j].id => i = j

\* Rows that tell of different orders, one list after the other.
LEMMA RowsJoined ==
  ASSUME NEW book, NEW S, NEW T, NEW s, NEW t, RowsFrom(book, S, s), RowsFrom(book, T, t),
         \A i \in 1 .. Len(s), j \in 1 .. Len(t) : s[i].id # t[j].id
  PROVE  RowsFrom(book, S \cup T, s \o t)
<1> DEFINE u == s \o t
           k == Len(s)
           n == Len(t)
<1>1. /\ k \in Nat /\ n \in Nat /\ IsList(u) /\ Len(u) = k + n
      /\ \A i \in 1 .. k : u[i] = s[i]
      /\ \A i \in 1 .. n : u[k + i] = t[i]
  BY ListsJoined DEF RowsFrom
<1> HIDE DEF u, k, n
<1>2. \A i \in 1 .. Len(u) : \/ i \in 1 .. k /\ u[i] = s[i]
                             \/ i - k \in 1 .. n /\ u[i] = t[i - k] /\ ~(i \in 1 .. k)
  <2> TAKE i \in 1 .. Len(u)
  <2>1. CASE i <= k
    BY <1>1, <2>1
  <2>2. CASE i > k
    <3>1. i - k \in 1 .. n /\ k + (i - k) = i
      BY <1>1, <2>2
    <3>2. u[k + (i - k)] = t[i - k]
      BY <1>1, <3>1
    <3> QED
      BY <1>1, <2>2, <3>1, <3>2
  <2> QED
    BY <1>1, <2>1, <2>2
<1>3. ASSUME NEW i \in 1 .. Len(u) PROVE \E sd \in S \cup T : RowOf(book, sd, u[i])
  BY <1>2 DEF RowsFrom, k, n
<1>4. ASSUME NEW i \in 1 .. Len(u), NEW j \in 1 .. Len(u), u[i].id = u[j].id PROVE i = j
  <2>1. CASE i \in 1 .. k /\ j \in 1 .. k
    BY <1>2, <1>4, <2>1 DEF RowsFrom, k, n
  <2>2. CASE i \notin 1 .. k /\ j \notin 1 .. k
    <3>1. i - k \in 1 .. n /\ j - k \in 1 .. n /\ u[i] = t[i - k] /\ u[j] = t[j - k]
      BY <1>2, <2>2
    <3>2. i - k = j - k
      BY <1>4, <3>1 DEF RowsFrom, n
    <3> QED
      BY <1>1, <3>2
  <2>3. CASE i \in 1 .. k /\ j \notin 1 .. k
    <3>1. u[i] = s[i] /\ j - k \in 1 .. n /\ u[j] = t[j - k]
      BY <1>2, <2>3
    <3> QED
      BY <1>4, <2>3, <3>1 DEF k, n
  <2>4. CASE i \notin 1 .. k /\ j \in 1 .. k
    <3>1. u[j] = s[j] /\ i - k \in 1 .. n /\ u[i] = t[i - k]
      BY <1>2, <2>4
    <3> QED
      BY <1>4, <2>4, <3>1 DEF k, n
  <2> QED
    BY <2>1, <2>2, <2>3, <2>4
<1> QED
  BY <1>1, <1>3, <1>4 DEF RowsFrom, u

LEMMA NoRows ==
  ASSUME NEW book, NEW S
  PROVE  RowsFrom(book, S, <<>>)
<1>1. Len(<<>>) = 0 /\ 1 .. 0 = {}
  OBVIOUS
<1> QED
  BY <1>1, NothingIsAList DEF RowsFrom

\* The rows of one queue.
LEMMA SeededAtIs ==
  ASSUME NEW book, IsSound(book), NEW sd \in Sides, NEW p
  PROVE  /\ RowsFrom(book, {sd}, SeededAt(book, sd, p))
         /\ \A i \in 1 .. Len(SeededAt(book, sd, p)) : SeededAt(book, sd, p)[i].price = p
<1> DEFINE r == SeededAt(book, sd, p)
<1>1. CASE ~(p \in Window /\ BeyondGuard(book, sd, p))
  <2>1. r = <<>>
    BY <1>1 DEF SeededAt
  <2>2. Len(<<>>) = 0 /\ 1 .. 0 = {}
    OBVIOUS
  <2> QED
    BY <2>1, <2>2, NoRows
<1>2. CASE p \in Window /\ BeyondGuard(book, sd, p)
  <2> DEFINE q == book[sd][p]
             n == Len(q)
  <2>1. /\ p \in Prices /\ n \in Nat /\ DOMAIN q = 1 .. n
        /\ \A i \in 1 .. n : q[i] \in RestingOrder
    BY <1>2, QueueIs, WindowAssumption DEF IsSound
  <2>2. r = [i \in 1 .. n |-> Line("created", q[i].id, sd, p, q[i].qty, 0)]
    BY <1>2, <2>1 DEF SeededAt
  <2> HIDE DEF q, n, r
  <2>3. DOMAIN r = 1 .. n /\ \A i \in 1 .. n : r[i] = Line("created", q[i].id, sd, p, q[i].qty, 0)
    BY <2>2
  <2> DEFINE Y == {r[i] : i \in 1 .. n}
  <2>4. r \in [1 .. n -> Y]
    BY <2>2, <2>3
  <2>5. r \in Seq(Y) /\ Len(r) = n
    <3> HIDE DEF Y
    <3> QED
      BY <2>1, <2>4
  <2>6. IsList(r)
    BY <2>3, <2>5 DEF IsList
  <2>7. ASSUME NEW i \in 1 .. n
        PROVE  r[i].id = q[i].id /\ r[i].price = p /\ RowOf(book, sd, r[i])
    <3>1. r[i].id = q[i].id /\ r[i].price = p
      BY <2>3 DEF Line
    <3>2. Rests(book, r[i].id, sd, r[i].price, i)
      BY <2>1, <3>1 DEF Rests, q, n
    <3>3. r[i] = Line("created", r[i].id, sd, r[i].price, book[sd][r[i].price][i].qty, 0)
      BY <2>3, <3>1 DEF q
    <3> QED
      BY <1>2, <3>1, <3>2, <3>3 DEF RowOf
  <2>8. ASSUME NEW i \in 1 .. n, NEW j \in 1 .. n, r[i].id = r[j].id PROVE i = j
    <3>1. Rests(book, q[i].id, sd, p, i) /\ Rests(book, q[j].id, sd, p, j)
      BY <2>1 DEF Rests, q, n
    <3> QED
      BY <2>7, <2>8, <3>1 DEF IsSound, RestsOnce
  <2>9. RowsFrom(book, {sd}, r)
    BY <2>5, <2>6, <2>7, <2>8 DEF RowsFrom
  <2> QED
    BY <2>5, <2>7, <2>9 DEF r
<1> QED
  BY <1>1, <1>2

\* The highest price of the window.
LEMMA TopIs == SX!Max(Window \cup {0}) \in Nat
<1> DEFINE W == Window \cup {0}
           Top(x) == \A y \in W : x >= y
<1>1. IsFiniteSet(W) /\ W \subseteq Int /\ W # {} /\ 0 \in W
  <2>1. IsFiniteSet(Window)
    BY WindowAssumption, InputAssumption, FS_Subset
  <2>2. IsFiniteSet(W)
    BY <2>1, FS_AddElement
  <2> QED
    BY <2>2, WindowAssumption, InputAssumption
<1>2. \E x \in W : Top(x)
  <2>1. PICK x \in W : \A y \in W : y <= x
    BY <1>1, FiniteSetsHaveEnds
  <2>2. x \in Int /\ \A y \in W : y \in Int
    BY <1>1
  <2> QED
    BY <2>1, <2>2
<1>3. SX!Max(W) = CHOOSE x \in W : Top(x)
  BY DEF SX!Max
<1> HIDE DEF Top
<1>4. SX!Max(W) \in W /\ Top(SX!Max(W))
  BY <1>2, <1>3
<1>5. SX!Max(W) \in Int /\ SX!Max(W) >= 0
  BY <1>1, <1>4 DEF Top
<1> QED
  BY <1>5

\* An order with a row rests at the price of the row.
LEMMA RowOrder ==
  ASSUME NEW book, IsSound(book), NEW sd, NEW t, NEW m, NEW n, RowOf(book, sd, m), RowOf(book, t, n),
         m.id = n.id
  PROVE  sd = t /\ m.price = n.price /\ m = n
<1>1. PICK j : /\ Rests(book, m.id, sd, m.price, j)
               /\ m = Line("created", m.id, sd, m.price, book[sd][m.price][j].qty, 0)
  BY DEF RowOf
<1>2. PICK k : /\ Rests(book, n.id, t, n.price, k)
               /\ n = Line("created", n.id, t, n.price, book[t][n.price][k].qty, 0)
  BY DEF RowOf
<1>3. sd = t /\ m.price = n.price /\ j = k
  BY <1>1, <1>2 DEF IsSound, RestsOnce
<1> QED
  BY <1>1, <1>2, <1>3, Zenon

\* The rows of one side, price by price.
LEMMA RowsOfSideAre ==
  ASSUME NEW book, IsSound(book), NEW sd \in Sides
  PROVE  RowsFrom(book, {sd}, RowsOfSide(book, sd))
<1> DEFINE n == SX!Max(Window \cup {0})
           e == [p \in 1 .. n |-> p]
           ctx == [book |-> book, side |-> sd]
<1>1. n \in Nat
  BY TopIs
<1>2. IsList(e) /\ Len(e) = n /\ \A k \in 1 .. n : e[k] = k
  <2> HIDE DEF n
  <2>1. e \in Seq(Nat)
    BY <1>1
  <2>2. IsList(e)
    BY <2>1, SequencesAreLists
  <2> QED
    BY <1>1, <2>2
<1>3. RowsOfSide(book, sd) = Listed(book, sd, <<>>, e)
  BY DEF RowsOfSide, Listed
<1> HIDE DEF n, e
<1>4. Leads("rows", ctx, <<>>, e, RowsOfSide(book, sd))
  <2>1. Leads("rows", ctx, <<>>, e, Listed(book, sd, <<>>, e))
    BY <1>2, PricesWalk, Zenon
  <2> QED
    BY <1>3, <2>1, Zenon
<1>5. PICK g : IsWalk("rows", ctx, <<>>, e, g) /\ g[n] = RowsOfSide(book, sd)
  BY <1>2, <1>4 DEF Leads
<1> DEFINE Right(k) == /\ RowsFrom(book, {sd}, g[k])
                       /\ \A i \in 1 .. Len(g[k]) : g[k][i].price \in 1 .. k
           Bad == {k \in 0 .. n : ~Right(k)}
<1> HIDE DEF Right
<1>6. Bad = {}
  <2> SUFFICES ASSUME Bad # {} PROVE FALSE
    OBVIOUS
  <2>1. PICK k \in Bad : \A j \in Bad : k <= j
    <3>1. Bad \in SUBSET Nat
      BY <1>1
    <3> QED
      BY <3>1, LeastExists
  <2>2. k # 0
    <3>1. g[0] = <<>> /\ Len(<<>>) = 0
      BY <1>5 DEF IsWalk
    <3>2. Right(0)
      BY <3>1, NoRows DEF Right
    <3> QED
      BY <2>1, <3>2
  <2>3. k \in 1 .. n /\ k - 1 \in 0 .. n /\ k - 1 \notin Bad
    BY <1>1, <2>1, <2>2
  <2>4. Right(k - 1)
    BY <2>3
  <2> DEFINE s == g[k - 1]
             t == SeededAt(book, sd, k)
  <2>5. g[k] = s \o t
    BY <1>2, <1>5, <2>3 DEF IsWalk, Onward
  <2>6. RowsFrom(book, {sd}, t) /\ \A i \in 1 .. Len(t) : t[i].price = k
    BY SeededAtIs
  <2>7. RowsFrom(book, {sd}, s) /\ \A i \in 1 .. Len(s) : s[i].price \in 1 .. k - 1
    BY <2>4 DEF Right
  <2> HIDE DEF s, t
  <2>8. \A i \in 1 .. Len(s), j \in 1 .. Len(t) : s[i].id # t[j].id
    <3> SUFFICES ASSUME NEW i \in 1 .. Len(s), NEW j \in 1 .. Len(t), s[i].id = t[j].id PROVE FALSE
      OBVIOUS
    <3>1. RowOf(book, sd, s[i]) /\ RowOf(book, sd, t[j])
      BY <2>6, <2>7 DEF RowsFrom
    <3>2. s[i].price = t[j].price
      BY <3>1, RowOrder
    <3> QED
      BY <2>3, <2>6, <2>7, <3>2
  <2>9. RowsFrom(book, {sd} \cup {sd}, s \o t)
    BY <2>6, <2>7, <2>8, RowsJoined
  <2>10. RowsFrom(book, {sd}, g[k])
    <3>1. {sd} \cup {sd} = {sd}
      OBVIOUS
    <3> QED
      BY <2>5, <2>9, <3>1
  <2>11. \A i \in 1 .. Len(g[k]) : g[k][i].price \in 1 .. k
    <3>1. /\ Len(s) \in Nat /\ Len(t) \in Nat /\ Len(s \o t) = Len(s) + Len(t)
          /\ \A i \in 1 .. Len(s) : (s \o t)[i] = s[i]
          /\ \A i \in 1 .. Len(t) : (s \o t)[Len(s) + i] = t[i]
      BY <2>6, <2>7, ListsJoined DEF RowsFrom
    <3> TAKE i \in 1 .. Len(g[k])
    <3> DEFINE a == Len(s)
               c == Len(t)
               u == s \o t
    <3>2. i \in 1 .. a + c
      BY <2>5, <3>1
    <3>3. g[k][i] = u[i] /\ a \in Nat /\ c \in Nat
      BY <2>5, <3>1
    <3>4. CASE i <= a
      <4>1. i \in 1 .. a
        BY <3>2, <3>4
      <4>2. u[i] = s[i] /\ s[i].price \in 1 .. k - 1
        BY <2>7, <3>1, <4>1
      <4> QED
        BY <2>3, <3>3, <4>2
    <3>5. CASE i > a
      <4>1. i - a \in 1 .. c /\ a + (i - a) = i
        BY <3>2, <3>3, <3>5
      <4>2. u[a + (i - a)] = t[i - a]
        BY <3>1, <4>1
      <4>3. t[i - a].price = k
        BY <2>6, <4>1
      <4> QED
        BY SMTT(30), <2>3, <3>3, <4>1, <4>2, <4>3
    <3> QED
      BY <3>2, <3>3, <3>4, <3>5
  <2> QED
    BY <2>1, <2>10, <2>11 DEF Right
<1>7. n \in 0 .. n
  BY <1>1
<1>8. Right(n)
  BY <1>6, <1>7
<1> QED
  BY <1>5, <1>8 DEF Right

\* The rows of a snapshot, bids before asks.
LEMMA SeededRowsAre ==
  ASSUME NEW book, IsSound(book)
  PROVE  RowsFrom(book, Sides, SeededRows(book))
<1> DEFINE s == RowsOfSide(book, "Bid")
           t == RowsOfSide(book, "Ask")
<1>1. RowsFrom(book, {"Bid"}, s) /\ RowsFrom(book, {"Ask"}, t)
  BY RowsOfSideAre DEF Sides
<1> HIDE DEF s, t
<1>2. \A i \in 1 .. Len(s), j \in 1 .. Len(t) : s[i].id # t[j].id
  <2> SUFFICES ASSUME NEW i \in 1 .. Len(s), NEW j \in 1 .. Len(t), s[i].id = t[j].id PROVE FALSE
    OBVIOUS
  <2>1. RowOf(book, "Bid", s[i]) /\ RowOf(book, "Ask", t[j])
    BY <1>1 DEF RowsFrom
  <2>2. "Bid" = "Ask"
    BY <2>1, RowOrder
  <2> QED
    BY <2>2
<1>3. RowsFrom(book, {"Bid"} \cup {"Ask"}, s \o t) /\ {"Bid"} \cup {"Ask"} = Sides
  BY <1>1, <1>2, RowsJoined DEF Sides
<1>4. RowsFrom(book, Sides, <<>>)
  BY NoRows
<1> QED
  BY <1>3, <1>4 DEF SeededRows, s, t

\* A row is a message.
LEMMA RowsAreMessages ==
  ASSUME NEW book, IsSound(book), NEW sd, NEW m, RowOf(book, sd, m)
  PROVE  /\ m \in Messages /\ m.type = "created" /\ m.side = sd /\ sd \in Sides /\ m.eid = NoEvent
         /\ m.price \in Window
         /\ Known(book, m.id) /\ Where(book, m.id) = <<sd, m.price>> /\ m.left = QtyOf(book, m.id)
<1>1. PICK j : /\ m.price \in Window /\ Rests(book, m.id, sd, m.price, j)
               /\ m = Line("created", m.id, sd, m.price, book[sd][m.price][j].qty, 0)
  BY DEF RowOf
<1>2. /\ sd \in Sides /\ m.price \in Prices /\ j \in 1 .. Len(book[sd][m.price])
      /\ book[sd][m.price][j].id = m.id
  BY <1>1 DEF Rests
<1>3. m.id \in Ids /\ book[sd][m.price][j].qty \in Nat \ {0}
  BY <1>2, QueueIs DEF IsSound
<1>4. /\ Known(book, m.id) /\ Where(book, m.id) = <<sd, m.price>>
      /\ QtyOf(book, m.id) = book[sd][m.price][j].qty
  BY <1>1, RestsIsFound
<1> DEFINE id == m.id
           p == m.price
           n == book[sd][p][j].qty
<1>5. m = Line("created", id, sd, p, n, 0) /\ id \in Ids /\ p \in Prices /\ n \in Nat \ {0}
  BY <1>1, <1>2, <1>3
<1>6. m.left = n /\ m.type = "created" /\ m.side = sd /\ m.eid = NoEvent
  <2> HIDE DEF id, p, n
  <2> QED
    BY <1>5 DEF Line
<1>7. m \in Messages
  <2> HIDE DEF id, p, n
  <2>1. Line("created", id, sd, p, n, 0) \in Messages
    BY <1>2, <1>5 DEF Line, Messages, Types, NoEvent
  <2> QED
    BY <1>5, <2>1
<1> QED
  BY <1>1, <1>2, <1>4, <1>6, <1>7

-----------------------------------------------------------------------------
(***************************************************************************)
(* A reader: its decoder as messages and snapshots come.                   *)
(***************************************************************************)
IsReader(r) ==
  /\ r = [dec |-> r.dec, book |-> r.book, acc |-> r.acc, seen |-> r.seen,
          sessions |-> r.sessions, refused |-> r.refused]
  /\ IsDecoder(r.dec) /\ r.seen \in BOOLEAN

\* r has the decoder of q, and has read as many sessions.
SameDecoder(q, r) == r.dec = q.dec /\ r.seen = q.seen /\ r.sessions = q.sessions

\* An event for the book leaves the decoder alone.
LEMMA EventKeeps ==
  ASSUME NEW r, IsReader(r), NEW e
  PROVE  /\ IsReader(ApplyEvent(r, e)) /\ SameDecoder(r, ApplyEvent(r, e))
         /\ ApplyEvent(r, e).book = Apply(r.book, e).book
<1> DEFINE done == Apply(r.book, e)
           acc == AfterApply(BeforeApply(r.acc, r.book, e), done.book, e)
           n == IF done.err = "Ok" THEN r.refused ELSE r.refused + 1
<1>1. ApplyEvent(r, e) = [r EXCEPT !.acc = acc, !.book = done.book, !.refused = n]
  BY DEF ApplyEvent
<1> DEFINE c == done.book
<1>2. r = [dec |-> r.dec, book |-> r.book, acc |-> r.acc, seen |-> r.seen,
           sessions |-> r.sessions, refused |-> r.refused]
  BY DEF IsReader
<1> HIDE DEF acc, c, n
<1>3. ApplyEvent(r, e) = [dec |-> r.dec, book |-> c, acc |-> acc, seen |-> r.seen,
                          sessions |-> r.sessions, refused |-> n]
  BY <1>1, <1>2 DEF c
<1>4. IsReader(ApplyEvent(r, e)) /\ SameDecoder(r, ApplyEvent(r, e)) /\ ApplyEvent(r, e).book = c
  BY <1>3 DEF IsReader, SameDecoder
<1> QED
  BY <1>4 DEF c

\* So do the events of a message.
LEMMA EventsKeep ==
  ASSUME NEW r, IsReader(r), NEW e, IsList(e)
  PROVE  LET q == SX!FoldLeft(ApplyEvent, r, e) IN IsReader(q) /\ SameDecoder(r, q)
<1> DEFINE q == SX!FoldLeft(ApplyEvent, r, e)
           n == Len(e)
<1>1. Leads("event", {}, r, e, q)
  BY EventsWalk
<1> HIDE DEF q
<1>2. n \in Nat
  BY ListParts
<1>3. PICK g : IsWalk("event", {}, r, e, g) /\ g[n] = q
  BY <1>1 DEF Leads
<1> DEFINE Right(k) == IsReader(g[k]) /\ SameDecoder(r, g[k])
           Bad == {k \in 0 .. n : ~Right(k)}
<1> HIDE DEF Right, n
<1>4. Bad = {}
  <2> SUFFICES ASSUME Bad # {} PROVE FALSE
    OBVIOUS
  <2>1. PICK k \in Bad : \A j \in Bad : k <= j
    <3>1. Bad \in SUBSET Nat
      BY <1>2
    <3> QED
      BY <3>1, LeastExists
  <2>2. k # 0
    <3>1. Right(0)
      BY <1>3 DEF IsWalk, Right, SameDecoder
    <3> QED
      BY <2>1, <3>1
  <2>3. k \in 1 .. n /\ k - 1 \in 0 .. n /\ k - 1 \notin Bad
    BY <1>2, <2>1, <2>2
  <2>4. IsReader(g[k - 1]) /\ SameDecoder(r, g[k - 1])
    BY <2>3 DEF Right
  <2>5. g[k] = ApplyEvent(g[k - 1], e[k])
    BY <1>3, <2>3 DEF IsWalk, Onward, n
  <2>6. IsReader(g[k]) /\ SameDecoder(g[k - 1], g[k])
    BY <2>4, <2>5, EventKeeps
  <2>7. Right(k)
    BY <2>4, <2>6 DEF Right, SameDecoder
  <2> QED
    BY <2>1, <2>7
<1>5. Right(n)
  BY <1>2, <1>4
<1> QED
  BY <1>3, <1>5 DEF Right, q, n

\* A reader before the events of a message: it has decoded it.
Decoding(r, m) ==
  [r EXCEPT !.dec = DecodeLine(r.dec, m, r.book).dec, !.seen = @ \/ m.readable]

LEMMA DecodingIs ==
  ASSUME NEW r, IsReader(r), NEW m \in Messages
  PROVE  LET d == DecodeLine(r.dec, m, r.book)
             s == Decoding(r, m)
         IN /\ ReadLine(r, m) = SX!FoldLeft(ApplyEvent, s, d.out)
            /\ IsReader(s) /\ s.dec = d.dec /\ s.book = r.book /\ s.sessions = r.sessions
            /\ s.refused = r.refused
<1> DEFINE d == DecodeLine(r.dec, m, r.book)
           s == Decoding(r, m)
           e == d.dec
           seen == r.seen \/ m.readable
<1>1. ReadLine(r, m) = SX!FoldLeft(ApplyEvent, s, d.out)
  BY DEF ReadLine, Decoding
<1>2. IsDecoder(e)
  BY DecodeIs DEF IsReader
<1>3. seen \in BOOLEAN
  BY MessageIs DEF IsReader
<1>4. s = [r EXCEPT !.dec = e, !.seen = seen]
  BY DEF Decoding
<1> HIDE DEF e, seen, s
<1>5. s = [dec |-> e, book |-> r.book, acc |-> r.acc, seen |-> seen,
           sessions |-> r.sessions, refused |-> r.refused]
  BY <1>4 DEF IsReader
<1>6. IsReader(s) /\ s.dec = e /\ s.book = r.book /\ s.sessions = r.sessions /\ s.refused = r.refused
  BY <1>2, <1>3, <1>5 DEF IsReader
<1> QED
  BY <1>1, <1>6 DEF e, s

\* A line about an order: the chain it belongs to.
LEMMA ReadLineIs ==
  ASSUME NEW r, IsReader(r), NEW m \in Messages
  PROVE  LET q == ReadLine(r, m)
         IN /\ IsReader(q) /\ q.sessions = r.sessions /\ q.dec.last = m.eid
            /\ q.dec.gaps = IF r.dec.last # NoEvent /\ m.pre # r.dec.last
                            THEN r.dec.gaps + 1 ELSE r.dec.gaps
<1> DEFINE d == DecodeLine(r.dec, m, r.book)
           s == Decoding(r, m)
           q == ReadLine(r, m)
<1>1. /\ q = SX!FoldLeft(ApplyEvent, s, d.out) /\ IsReader(s) /\ s.dec = d.dec
      /\ s.sessions = r.sessions
  BY DecodingIs
<1>2. /\ IsList(d.out) /\ d.dec.last = m.eid
      /\ d.dec.gaps = IF r.dec.last # NoEvent /\ m.pre # r.dec.last
                      THEN r.dec.gaps + 1 ELSE r.dec.gaps
  BY DecodeIs DEF IsReader
<1> HIDE DEF q, s, d
<1>3. IsReader(q) /\ SameDecoder(s, q)
  BY <1>1, <1>2, EventsKeep
<1>4. /\ IsReader(q) /\ q.sessions = r.sessions /\ q.dec.last = m.eid
      /\ q.dec.gaps = IF r.dec.last # NoEvent /\ m.pre # r.dec.last
                      THEN r.dec.gaps + 1 ELSE r.dec.gaps
  BY <1>1, <1>2, <1>3 DEF SameDecoder
<1> QED
  BY <1>4 DEF q

\* The lines that were buffered: the counter of gaps never falls, and the last
\* message heard is one of them.
LEMMA LinesRead ==
  ASSUME NEW r, IsReader(r), NEW e \in Seq(Messages)
  PROVE  LET q == SX!FoldLeft(ReadLine, r, e)
         IN /\ IsReader(q) /\ q.sessions = r.sessions /\ q.dec.gaps >= r.dec.gaps
            /\ q.dec.last = r.dec.last \/ \E i \in 1 .. Len(e) : q.dec.last = e[i].eid
<1> DEFINE q == SX!FoldLeft(ReadLine, r, e)
           n == Len(e)
<1>1. IsList(e) /\ n \in Nat /\ \A i \in 1 .. n : e[i] \in Messages
  BY SequencesAreLists
<1>2. Leads("line", {}, r, e, q)
  BY <1>1, LinesWalk
<1> HIDE DEF q
<1>3. PICK g : IsWalk("line", {}, r, e, g) /\ g[n] = q
  BY <1>2 DEF Leads
<1> DEFINE Right(k) == /\ IsReader(g[k]) /\ g[k].sessions = r.sessions
                       /\ g[k].dec.gaps >= r.dec.gaps
                       /\ g[k].dec.last = r.dec.last \/ \E i \in 1 .. n : g[k].dec.last = e[i].eid
           Bad == {k \in 0 .. n : ~Right(k)}
<1> HIDE DEF Right, n
<1>4. Bad = {}
  <2> SUFFICES ASSUME Bad # {} PROVE FALSE
    OBVIOUS
  <2>1. PICK k \in Bad : \A j \in Bad : k <= j
    <3>1. Bad \in SUBSET Nat
      BY <1>1
    <3> QED
      BY <3>1, LeastExists
  <2>2. k # 0
    <3>1. Right(0)
      BY <1>3 DEF IsWalk, Right, IsReader, IsDecoder
    <3> QED
      BY <2>1, <3>1
  <2>3. k \in 1 .. n /\ k - 1 \in 0 .. n /\ k - 1 \notin Bad
    BY <1>1, <2>1, <2>2
  <2> DEFINE s == g[k - 1]
  <2>4. /\ IsReader(s) /\ s.sessions = r.sessions /\ s.dec.gaps >= r.dec.gaps
    BY <2>3 DEF Right
  <2>5. g[k] = ReadLine(s, e[k])
    BY <1>3, <2>3 DEF IsWalk, Onward, n
  <2> DEFINE m == e[k]
             t == ReadLine(s, m)
  <2>9. m \in Messages
    BY <1>1, <2>3 DEF n
  <2> HIDE DEF s, m
  <2>10. /\ IsReader(t) /\ t.sessions = s.sessions /\ t.dec.last = m.eid
        /\ t.dec.gaps = IF s.dec.last # NoEvent /\ m.pre # s.dec.last
                        THEN s.dec.gaps + 1 ELSE s.dec.gaps
    BY <2>4, <2>9, ReadLineIs
  <2> HIDE DEF t
  <2>6. /\ IsReader(g[k]) /\ g[k].sessions = s.sessions /\ g[k].dec.last = e[k].eid
        /\ g[k].dec.gaps = IF s.dec.last # NoEvent /\ e[k].pre # s.dec.last
                           THEN s.dec.gaps + 1 ELSE s.dec.gaps
    BY <2>5, <2>10 DEF m, t
  <2>7. s.dec.gaps \in Nat /\ r.dec.gaps \in Nat
    BY <2>4 DEF IsReader, IsDecoder
  <2>8. Right(k)
    BY <2>3, <2>4, <2>6, <2>7 DEF Right
  <2> QED
    BY <2>1, <2>8
<1>5. Right(n)
  BY <1>1, <1>4
<1> QED
  BY <1>3, <1>5 DEF Right, q, n

\* A decoder that has forgotten its session.
LEMMA ResetIs ==
  ASSUME NEW d, IsDecoder(d)
  PROVE  /\ IsDecoder(ResetSession(d)) /\ ResetSession(d).gaps = d.gaps
         /\ ResetSession(d).last = NoEvent
         /\ ResetSession(d).live = [id \in Ids |-> Untracked]
<1> DEFINE live == [id \in Ids |-> Untracked]
<1>1. live \in [Ids -> Tracks]
  BY DEF Untracked, OrderState, Tracks, Sides, Kinds
<1>2. NewDecoder.live = live
  BY DEF NewDecoder
<1>3. ResetSession(d) = [d EXCEPT !.live = live, !.last = NoEvent]
  BY <1>2 DEF ResetSession
<1> HIDE DEF live
<1>4. ResetSession(d) = [live |-> live, last |-> NoEvent, gaps |-> d.gaps, errors |-> d.errors,
                         violations |-> d.violations]
  BY <1>3 DEF IsDecoder
<1>5. d.gaps \in Nat
  BY DEF IsDecoder
<1>6. /\ IsDecoder(ResetSession(d)) /\ ResetSession(d).gaps = d.gaps
      /\ ResetSession(d).last = NoEvent /\ ResetSession(d).live = live
  BY <1>1, <1>4, <1>5 DEF IsDecoder, NoEvent
<1> QED
  BY <1>6 DEF live

LEMMA NewDecoderIs ==
  /\ IsDecoder(NewDecoder) /\ NewDecoder.live = [id \in Ids |-> Untracked]
  /\ NewDecoder.last = NoEvent /\ NewDecoder.gaps = 0
<1>1. [id \in Ids |-> Untracked] \in [Ids -> Tracks]
  BY SMTT(30) DEF Untracked, OrderState, Tracks, Sides, Kinds
<1> QED
  BY <1>1 DEF NewDecoder, IsDecoder, NoEvent

\* What is tracked of the order of a row.
Seed(m) == OrderState(m.left, m.side, m.price, "resting")

\* The decoder d with the first k rows of a snapshot tracked, and their events.
LoadedTo(d, rows, k, r) ==
  /\ IsDecoder(r.dec) /\ r.dec.last = d.last /\ r.dec.gaps = d.gaps
  /\ IsList(r.out) /\ Len(r.out) = k
  /\ \A i \in 1 .. k : r.out[i] = AddOf(rows[i]) /\ r.dec.live[rows[i].id] = Seed(rows[i])
  /\ \A id \in Ids : (\A i \in 1 .. k : rows[i].id # id) => r.dec.live[id] = d.live[id]

\* One more row.
LEMMA LoadOne ==
  ASSUME NEW d, IsDecoder(d), NEW rows, IsList(rows), NEW k \in Nat, k + 1 <= Len(rows),
         rows[k + 1] \in Messages, \A i \in 1 .. k : rows[i].id # rows[k + 1].id /\ rows[i].id \in Ids,
         NEW r, LoadedTo(d, rows, k, r),
         NEW s, s = Placed(r.dec, rows[k + 1], "resting", r.out)
  PROVE  LoadedTo(d, rows, k + 1, s)
<1> DEFINE m == rows[k + 1]
<1>1. s.dec = Track(r.dec, m, "resting") /\ s.out = Append(r.out, AddOf(m))
  BY DEF Placed, Decoded
<1>2. m \in Messages /\ m.id \in Ids /\ IsDecoder(r.dec)
  BY MessageIs DEF LoadedTo
<1>3. Sets(r.dec, m, Seed(m), s.dec)
  <2>1. "resting" \in Kinds
    BY DEF Kinds
  <2> HIDE DEF m
  <2> QED
    BY <1>1, <1>2, <2>1, TrackIs DEF Seed
<1>4. /\ IsList(s.out) /\ Len(s.out) = k + 1 /\ s.out[k + 1] = AddOf(m)
      /\ \A i \in 1 .. k : s.out[i] = r.out[i]
  <2>1. IsList(r.out) /\ Len(r.out) = k
    BY DEF LoadedTo
  <2>2. PICK X : r.out \in Seq(X)
    BY <2>1 DEF IsList
  <2>3. r.out \in Seq(X \cup {AddOf(m)})
    BY <2>2, SeqMonotonic
  <2>4. IsList(s.out)
    BY <1>1, <2>1, ListAppended
  <2> QED
    BY <1>1, <2>1, <2>3, <2>4, AppendProperties, LenProperties
<1>5. s.dec.live = [r.dec.live EXCEPT ![m.id] = Seed(m)] /\ r.dec.live \in [Ids -> Tracks]
      /\ IsDecoder(s.dec) /\ s.dec.last = d.last /\ s.dec.gaps = d.gaps
  BY <1>2, <1>3 DEF Sets, IsDecoder, LoadedTo
<1>6. ASSUME NEW i \in 1 .. k + 1
      PROVE  s.out[i] = AddOf(rows[i]) /\ s.dec.live[rows[i].id] = Seed(rows[i])
  <2>1. CASE i = k + 1
    BY <1>2, <1>4, <1>5, <2>1
  <2>2. CASE i \in 1 .. k
    <3>1. s.out[i] = AddOf(rows[i])
      BY <1>4, <2>2 DEF LoadedTo
    <3>2. s.dec.live[rows[i].id] = r.dec.live[rows[i].id]
      BY <1>5, <2>2
    <3>3. r.dec.live[rows[i].id] = Seed(rows[i])
      BY <2>2 DEF LoadedTo
    <3> QED
      BY <3>1, <3>2, <3>3
  <2> QED
    BY <2>1, <2>2
<1>7. ASSUME NEW id \in Ids, \A i \in 1 .. k + 1 : rows[i].id # id
      PROVE  s.dec.live[id] = d.live[id]
  <2>1. k + 1 \in 1 .. k + 1 /\ \A i \in 1 .. k : i \in 1 .. k + 1
    OBVIOUS
  <2>2. id # m.id /\ \A i \in 1 .. k : rows[i].id # id
    BY <1>7, <2>1
  <2>3. s.dec.live[id] = r.dec.live[id]
    BY <1>5, <2>2
  <2>4. r.dec.live[id] = d.live[id]
    BY <2>2 DEF LoadedTo
  <2> QED
    BY <2>3, <2>4
<1> QED
  BY <1>4, <1>5, <1>6, <1>7 DEF LoadedTo

\* The snapshot of a book, read by a decoder.
LEMMA LoadSnapshotIs ==
  ASSUME NEW d, IsDecoder(d), NEW book, IsSound(book)
  PROVE  LoadedTo(d, SeededRows(book), Len(SeededRows(book)), LoadSnapshot(d, book))
<1> DEFINE rows == SeededRows(book)
           n == Len(rows)
           q == LoadSnapshot(d, book)
<1>1. RowsFrom(book, Sides, rows)
  BY SeededRowsAre
<1>2. q = Loaded(Decoded(d, <<>>), rows)
  BY DEF LoadSnapshot, Loaded
<1> HIDE DEF q, rows
<1>3. /\ IsList(rows) /\ n \in Nat
      /\ \A i \in 1 .. n : rows[i] \in Messages /\ rows[i].id \in Ids
      /\ \A i, j \in 1 .. n : rows[i].id = rows[j].id => i = j
  <2>1. IsList(rows) /\ n \in Nat
    BY <1>1, ListParts DEF RowsFrom
  <2>2. \A i \in 1 .. n : rows[i] \in Messages /\ rows[i].id \in Ids
    BY <1>1, RowsAreMessages, MessageIs DEF RowsFrom
  <2> QED
    BY <1>1, <2>1, <2>2 DEF RowsFrom
<1>4. Leads("row", {}, Decoded(d, <<>>), rows, q)
  BY <1>2, <1>3, RowsWalk
<1>5. PICK g : IsWalk("row", {}, Decoded(d, <<>>), rows, g) /\ g[n] = q
  BY <1>4 DEF Leads
<1> DEFINE Right(k) == LoadedTo(d, rows, k, g[k])
           Bad == {k \in 0 .. n : ~Right(k)}
<1> HIDE DEF Right, n
<1>6. Bad = {}
  <2> SUFFICES ASSUME Bad # {} PROVE FALSE
    OBVIOUS
  <2>1. PICK k \in Bad : \A j \in Bad : k <= j
    <3>1. Bad \in SUBSET Nat
      BY <1>3
    <3> QED
      BY <3>1, LeastExists
  <2>2. k # 0
    <3>1. g[0].dec = d /\ g[0].out = <<>>
      BY <1>5 DEF IsWalk, Decoded
    <3>2. Len(<<>>) = 0 /\ 1 .. 0 = {}
      OBVIOUS
    <3>3. Right(0)
      BY <3>1, <3>2, NothingIsAList DEF Right, LoadedTo
    <3> QED
      BY <2>1, <3>3
  <2>3. k \in 1 .. n /\ k - 1 \in 0 .. n /\ k - 1 \notin Bad
    BY <1>3, <2>1, <2>2
  <2>4. Right(k - 1)
    BY <2>3
  <2> DEFINE j == k - 1
  <2>5. j \in Nat /\ j + 1 = k /\ j + 1 <= n /\ j + 1 \in 1 .. n /\ \A i \in 1 .. j : i \in 1 .. n /\ i # j + 1
    BY <1>3, <2>3
  <2>6. LoadedTo(d, rows, j, g[j])
    BY <2>4 DEF Right
  <2>7. g[j + 1] = Placed(g[j].dec, rows[j + 1], "resting", g[j].out)
    BY <1>5, <2>3, <2>5 DEF IsWalk, Onward, n
  <2> HIDE DEF j
  <2>8. rows[j + 1] \in Messages /\ \A i \in 1 .. j : rows[i].id # rows[j + 1].id /\ rows[i].id \in Ids
    BY <1>3, <2>5
  <2>9. LoadedTo(d, rows, j + 1, g[j + 1])
    BY <1>3, <2>5, <2>6, <2>7, <2>8, LoadOne DEF n
  <2>10. Right(k)
    BY <2>5, <2>9 DEF Right
  <2> QED
    BY <2>1, <2>10
<1>7. Right(n)
  BY <1>3, <1>6
<1> QED
  BY <1>5, <1>7 DEF Right, n, q, rows

\* The first snapshot and a later one: the counter of gaps outlives a session.
LEMMA OpenedIs ==
  ASSUME NEW book, IsSound(book)
  PROVE  /\ IsReader(Opened(book)) /\ Opened(book).dec = LoadSnapshot(NewDecoder, book).dec
         /\ Opened(book).dec.last = NoEvent /\ Opened(book).dec.gaps = 0
         /\ Opened(book).sessions = 1 /\ Opened(book).refused = 0 /\ Opened(book).seen = FALSE
         /\ Opened(book).book = AllApplied(RefEmpty, LoadSnapshot(NewDecoder, book).out)
<1> DEFINE s == LoadSnapshot(NewDecoder, book)
           c == AllApplied(RefEmpty, s.out)
<1>1. IsDecoder(s.dec) /\ s.dec.last = NoEvent /\ s.dec.gaps = 0
  BY NewDecoderIs, LoadSnapshotIs DEF LoadedTo
<1>2. Seeded(NewDecoder, book) = [dec |-> s.dec, book |-> c]
  BY DEF Seeded, AllApplied
<1> HIDE DEF s, c
<1>3. Opened(book) = [dec |-> s.dec, book |-> c, acc |-> NewAccumulator, seen |-> FALSE,
                      sessions |-> 1, refused |-> 0]
  BY <1>2 DEF Opened
<1> HIDE DEF NewAccumulator
<1>4. /\ IsReader(Opened(book)) /\ Opened(book).dec = s.dec
      /\ Opened(book).dec.last = NoEvent /\ Opened(book).dec.gaps = 0
      /\ Opened(book).sessions = 1 /\ Opened(book).refused = 0 /\ Opened(book).seen = FALSE
      /\ Opened(book).book = c
  BY <1>1, <1>3 DEF IsReader
<1> QED
  BY <1>4 DEF s, c

LEMMA ReadMarkerIs ==
  ASSUME NEW r, IsReader(r), NEW book, IsSound(book), NEW readable \in BOOLEAN
  PROVE  LET q == ReadMarker(r, book, readable)
             s == LoadSnapshot(ResetSession(r.dec), book)
         IN /\ IsReader(q) /\ q.dec.gaps = r.dec.gaps /\ q.seen = r.seen /\ q.refused = r.refused
            /\ \/ q = r
               \/ /\ q.dec = s.dec /\ q.dec.last = NoEvent
                  /\ q.book = AllApplied(RefEmpty, s.out)
<1> DEFINE q == ReadMarker(r, book, readable)
           s == LoadSnapshot(ResetSession(r.dec), book)
           c == AllApplied(RefEmpty, s.out)
           acc == OnSessionReset(r.acc)
<1>1. CASE ~r.seen \/ ~readable
  <2>1. q = r
    BY <1>1 DEF ReadMarker
  <2> QED
    BY <2>1
<1>2. CASE ~(~r.seen \/ ~readable)
  <2>1. IsDecoder(s.dec) /\ s.dec.last = NoEvent /\ s.dec.gaps = r.dec.gaps
    BY ResetIs, LoadSnapshotIs DEF LoadedTo, IsReader
  <2>2. Seeded(ResetSession(r.dec), book) = [dec |-> s.dec, book |-> c]
    BY DEF Seeded, AllApplied
  <2> HIDE DEF s, c
  <2>3. q = [r EXCEPT !.dec = s.dec, !.book = c, !.sessions = @ + 1, !.acc = acc]
    BY <1>2, <2>2 DEF ReadMarker
  <2> HIDE DEF acc, q
  <2>4. q = [dec |-> s.dec, book |-> c, acc |-> acc, seen |-> r.seen,
             sessions |-> r.sessions + 1, refused |-> r.refused]
    BY <2>3 DEF IsReader
  <2>5. IsReader(q) /\ q.dec = s.dec /\ q.book = c /\ q.seen = r.seen /\ q.refused = r.refused
    BY <2>1, <2>4 DEF IsReader
  <2> QED
    BY <2>1, <2>5 DEF q, s, c
<1> QED
  BY <1>1, <1>2

-----------------------------------------------------------------------------
(***************************************************************************)
(* A book with its sides apart, and what is told of orders: an order stays *)
(* on its side, and is told of as created once.                            *)
(***************************************************************************)
\* Bids are below asks.
Apart(b) ==
  \A y, z \in LiveOrders(b) :
    Where(b, y)[1] = "Bid" /\ Where(b, z)[1] = "Ask" => Where(b, y)[2] < Where(b, z)[2]

\* An order for side sd at this price meets z.
Meets(b, sd, price, z) ==
  /\ Where(b, z)[1] = Opposite(sd)
  /\ IF sd = "Bid" THEN Where(b, z)[2] <= price ELSE Where(b, z)[2] >= price

LEMMA CrossesIs ==
  ASSUME NEW b, IsSound(b), NEW sd \in Sides, NEW price \in Prices
  PROVE  Crosses(b, sd, price) <=> \E z \in LiveOrders(b) : Meets(b, sd, price, z)
<1> DEFINE other == Opposite(sd)
<1>1. other \in Sides /\ price \in Int /\ (sd = "Bid" => other = "Ask") /\ (sd # "Bid" => other = "Bid")
  BY InputAssumption DEF Opposite, Sides
<1>2. Crosses(b, sd, price) <=> /\ HasBest(b, other)
                                /\ IF sd = "Bid" THEN price >= Best(b, other) ELSE price <= Best(b, other)
  BY <1>1 DEF Crosses
<1>3. ASSUME Crosses(b, sd, price) PROVE \E z \in LiveOrders(b) : Meets(b, sd, price, z)
  <2> DEFINE p == Best(b, other)
             z == FrontEntry(b[other][p]).id
  <2>1. HasBest(b, other)
    BY <1>2, <1>3
  <2>2. z \in LiveOrders(b) /\ Where(b, z) = <<other, p>> /\ p \in Int
    BY <1>1, <2>1, FrontHasPriority, BestIs
  <2> HIDE DEF z
  <2>3. IF sd = "Bid" THEN p <= price ELSE p >= price
    BY <1>1, <1>2, <1>3, <2>2
  <2>4. Meets(b, sd, price, z)
    BY <2>2, <2>3 DEF Meets
  <2> QED
    BY <2>2, <2>4
<1>4. ASSUME NEW z \in LiveOrders(b), Meets(b, sd, price, z) PROVE Crosses(b, sd, price)
  <2> DEFINE p == Where(b, z)[2]
             i == Place(b, z)
             best == Best(b, other)
  <2>1. Where(b, z)[1] = other /\ IF sd = "Bid" THEN p <= price ELSE p >= price
    BY <1>4 DEF Meets
  <2>2. Rests(b, z, other, p, i) /\ p \in Prices /\ p \in Int
    BY <2>1, LiveIs, KnownRests, InputAssumption
  <2> HIDE DEF p, i
  <2>3. b[other][p] # <<>>
    BY <1>1, <2>2, QueueIs, EmptySeq DEF Rests, IsSound
  <2>4. p \in Occupied(b, other) /\ HasBest(b, other)
    BY <2>2, <2>3 DEF Occupied, HasBest
  <2>5. best \in Int /\ IF other = "Bid" THEN p <= best ELSE p >= best
    BY <2>4, BestIs
  <2> HIDE DEF best
  <2>6. IF sd = "Bid" THEN price >= best ELSE price <= best
    BY <1>1, <2>1, <2>2, <2>5
  <2> QED
    BY <1>2, <2>4, <2>6 DEF best
<1> QED
  BY <1>3, <1>4

\* The book is sound and its sides are apart.
IsSane(b) == IsSound(b) /\ Apart(b)

\* Orders that leave keep the sides apart, and so does one that joins where it
\* meets nothing.
LEMMA LeavesApart ==
  ASSUME NEW b, Apart(b), NEW c, LiveOrders(c) \subseteq LiveOrders(b),
         \A y \in LiveOrders(c) : Where(c, y) = Where(b, y)
  PROVE  Apart(c)
BY DEF Apart

LEMMA JoinsApart ==
  ASSUME NEW b, IsSane(b), NEW c, NEW x, NEW n, Joins(b, c, x, n),
         NEW sd \in Sides, NEW p \in Prices, Where(c, x) = <<sd, p>>,
         \A z \in LiveOrders(b) : ~Meets(b, sd, p, z)
  PROVE  Apart(c)
<1>1. /\ IsSound(b) /\ Apart(b) /\ p \in Int
      /\ LiveOrders(c) = LiveOrders(b) \cup {x}
      /\ \A y \in LiveOrders(b) : Where(c, y) = Where(b, y)
  BY InputAssumption DEF Joins, IsSane
<1> SUFFICES ASSUME NEW y \in LiveOrders(c), NEW z \in LiveOrders(c),
                    Where(c, y)[1] = "Bid", Where(c, z)[1] = "Ask"
             PROVE  Where(c, y)[2] < Where(c, z)[2]
  BY DEF Apart
<1>2. CASE y \in LiveOrders(b) /\ z \in LiveOrders(b)
  BY <1>1, <1>2 DEF Apart
<1>3. CASE y = x /\ z \in LiveOrders(b)
  <2>1. sd = "Bid" /\ Where(c, y)[2] = p /\ Where(c, z) = Where(b, z)
    BY <1>1, <1>3
  <2>2. ~(Where(b, z)[2] <= p)
    BY <1>3, <2>1 DEF Meets, Opposite
  <2>3. Where(b, z)[2] \in Int
    BY <1>1, <1>3, LiveIs, KnownRests, InputAssumption
  <2> QED
    BY <1>1, <2>1, <2>2, <2>3
<1>4. CASE z = x /\ y \in LiveOrders(b)
  <2>1. sd = "Ask" /\ Where(c, z)[2] = p /\ Where(c, y) = Where(b, y)
    BY <1>1, <1>4
  <2>2. ~(Where(b, y)[2] >= p)
    BY <1>4, <2>1 DEF Meets, Opposite
  <2>3. Where(b, y)[2] \in Int
    BY <1>1, <1>4, LiveIs, KnownRests, InputAssumption
  <2> QED
    BY <1>1, <2>1, <2>2, <2>3
<1>5. CASE y = x /\ z = x
  BY <1>5
<1> QED
  BY <1>1, <1>2, <1>3, <1>4, <1>5

\* The others have bids below the price of a bid, or asks above that of an ask.
LEMMA NoneAcrossIt ==
  ASSUME NEW b, IsSane(b), NEW x \in LiveOrders(b), NEW z \in LiveOrders(b)
  PROVE  ~Meets(b, Where(b, x)[1], Where(b, x)[2], z)
<1> DEFINE sd == Where(b, x)[1]
           p == Where(b, x)[2]
<1>1. sd \in Sides /\ p \in Int /\ Where(b, z)[2] \in Int
  BY LiveIs, KnownRests, InputAssumption DEF IsSane
<1> HIDE DEF sd, p
<1>2. CASE sd = "Bid"
  <2>1. Where(b, z)[1] = "Ask" => p < Where(b, z)[2]
    BY <1>2 DEF Apart, IsSane, sd, p
  <2> QED
    BY <1>1, <1>2, <2>1 DEF Meets, Opposite, sd, p
<1>3. CASE sd = "Ask"
  <2>1. Where(b, z)[1] = "Bid" => Where(b, z)[2] < p
    BY <1>3 DEF Apart, IsSane, sd, p
  <2> QED
    BY <1>1, <1>3, <2>1 DEF Meets, Opposite, sd, p
<1> QED
  BY <1>1, <1>2, <1>3 DEF Sides, sd, p

OnSide(x, sd) == \E o \in Offers : o.id = x /\ o.side = sd

Sided(ms) == \A i \in 1 .. Len(ms) : OnSide(ms[i].id, ms[i].side)

\* The messages tell of this order, or of its creation.
Names(ms, x) == \E i \in 1 .. Len(ms) : ms[i].id = x
Creates(ms, x) == \E i \in 1 .. Len(ms) : ms[i].type = "created" /\ ms[i].id = x

CreatesOnce(ms) ==
  \A i, j \in 1 .. Len(ms) :
    ms[i].type = "created" /\ ms[j].type = "created" /\ ms[i].id = ms[j].id => i = j

LEMMA OneSide ==
  ASSUME NEW x, NEW sd, NEW t, OnSide(x, sd), OnSide(x, t)
  PROVE  sd = t
BY OfferIdsAssumption DEF OnSide

-----------------------------------------------------------------------------
(***************************************************************************)
(* The venue: an order that trades there.                                  *)
(***************************************************************************)
\* A fill of an order for side sd, in a book that was b.
RightFill(b, sd, f) ==
  /\ f.resting \in LiveOrders(b) /\ Where(b, f.resting) = <<f.side, f.price>>
  /\ f.side = Opposite(sd) /\ f.qty \in Nat \ {0}

\* The matching m of an order for side sd and of this size, in a book that was b.
MeetsOrders(b, sd, qty, m) ==
  /\ IsSound(m.book) /\ m.left \in 0 .. qty /\ LiveOrders(m.book) \subseteq LiveOrders(b)
  /\ \A y \in LiveOrders(m.book) : Where(m.book, y) = Where(b, y)
  /\ IsList(m.fills) /\ \A i \in 1 .. Len(m.fills) : RightFill(b, sd, m.fills[i])

\* Nothing is left to trade, or nothing to trade with.
NoMore(m, sd, limit) ==
  \/ m.left = 0 \/ ~HasBest(m.book, Opposite(sd)) \/ Best(m.book, Opposite(sd)) \notin limit

LEMMA OneMoreOf ==
  ASSUME NEW k \in Nat, NEW l, l = k + 1, NEW i \in 1 .. l
  PROVE  i = k + 1 \/ i \in 1 .. k
OBVIOUS

LEMMA LessOf ==
  ASSUME NEW q \in Nat, NEW k \in 0 .. q, NEW n \in Nat \ {0}, n <= k, NEW l, l = k - n
  PROVE  l \in 0 .. q /\ (n = k => l = 0)
OBVIOUS

LEMMA NoLess ==
  ASSUME NEW k \in Nat, k <= 0 PROVE k = 0
OBVIOUS

\* One turn ends the order, uses up an order of the book, or is one too many.
LEMMA TurnAllows ==
  ASSUME NEW b, IsSound(b), NEW sd \in Sides, NEW limit, NEW qty \in Nat, NEW id, NEW mine,
         NEW m, MeetsOrders(b, sd, qty, m),
         NEW d, d = CrossStep(m, "Allow", id, sd, limit, mine)
  PROVE  /\ MeetsOrders(b, sd, qty, d)
         /\ \/ d = m /\ NoMore(m, sd, limit)
            \/ d.left = 0
            \/ \E x \in LiveOrders(m.book) : LiveOrders(d.book) = LiveOrders(m.book) \ {x}
<1> DEFINE other == Opposite(sd)
           price == Best(m.book, other)
           front == FrontEntry(m.book[other][price])
           x == front.id
           n == Lesser(m.left, front.qty)
           f == [resting |-> x, aggressor |-> id, price |-> price, qty |-> n,
                 side |-> other, restingMine |-> front.mine, aggressorMine |-> mine]
           e == Execute(m.book, x, n).book
<1>1. other \in Sides /\ IsSound(m.book) /\ m.left \in Nat /\ m.left <= qty
  <2>1. other \in Sides
    BY DEF Opposite, Sides
  <2>2. IsSound(m.book) /\ m.left \in 0 .. qty
    BY DEF MeetsOrders
  <2> QED
    BY <2>1, <2>2
<1>2. CASE NoMore(m, sd, limit)
  <2>1. d = m
    BY <1>2 DEF CrossStep, NoMore
  <2> QED
    BY <1>2, <2>1
<1>3. CASE ~NoMore(m, sd, limit)
  <2>1. m.left > 0 /\ HasBest(m.book, other) /\ price \in limit
    BY <1>1, <1>3 DEF NoMore
  <2>2. /\ x \in LiveOrders(m.book) /\ Known(m.book, x) /\ x \in Ids
        /\ Where(m.book, x) = <<other, price>>
        /\ front.qty \in Nat \ {0} /\ front.qty = QtyOf(m.book, x)
    BY <1>1, <2>1, FrontHasPriority
  <2>3. x # NoFront
    BY <2>2, IdsAssumption
  <2>4. d = TradeWith(m, front, price, id, sd, mine)
    <3>1. m.left # 0 /\ "Allow" # "CancelResting" /\ "Allow" # "CancelIncoming"
      BY <1>1, <2>1
    <3> QED
      BY <2>1, <2>3, <3>1, Zenon DEF CrossStep
  <2>5. TradeWith(m, front, price, id, sd, mine) = Matched(e, m.left - n, Append(m.fills, f))
    BY DEF TradeWith, Take
  <2> HIDE DEF e, f
  <2>6. d.book = e /\ d.left = m.left - n /\ d.fills = Append(m.fills, f)
    <3> DEFINE l == m.left - n
               s == Append(m.fills, f)
    <3>1. d = Matched(e, l, s)
      BY <2>4, <2>5, Zenon
    <3> HIDE DEF l, s, n, x, front, price, other
    <3>2. d.book = e /\ d.left = l /\ d.fills = s
      BY <3>1 DEF Matched
    <3> QED
      BY <3>2 DEF l, s
  <2>7. n \in Nat \ {0} /\ n <= m.left /\ n <= front.qty /\ (n = m.left \/ n = front.qty)
    BY <1>1, <2>1, <2>2 DEF Lesser
  <2>8. f.resting = x /\ f.side = other /\ f.price = price /\ f.qty = n
    BY DEF f
  <2>9. EntryOf(m.book, x).qty = front.qty
    BY <1>1, <2>2, KnownRests
  <2> HIDE DEF other, price, front, x, n
  <2>10. \/ n = front.qty /\ Leaves(m.book, e, x)
         \/ n < front.qty /\ Shrinks(m.book, e, x, n)
    <3>1. CASE n = front.qty
      <4>1. e = Remove(m.book, x).book
        BY <2>2, <2>7, <2>9, <3>1 DEF e, Execute, Reduce
      <4> QED
        BY <1>1, <2>2, <3>1, <4>1, RemoveLeaves
    <3>2. CASE n < front.qty
      <4>1. e = Reduce(m.book, x, n).book
        BY DEF e, Execute
      <4> QED
        BY <1>1, <2>2, <2>7, <3>2, <4>1, ReduceShrinks
    <3> QED
      BY <2>2, <2>7, <3>1, <3>2
  <2>11. /\ IsSound(e) /\ LiveOrders(e) \subseteq LiveOrders(m.book)
         /\ \A y \in LiveOrders(e) : Where(e, y) = Where(m.book, y)
    BY <2>10 DEF Leaves, Shrinks
  <2>12. /\ IsList(d.fills) /\ Len(m.fills) \in Nat /\ Len(d.fills) = Len(m.fills) + 1
         /\ d.fills[Len(m.fills) + 1] = f /\ \A i \in 1 .. Len(m.fills) : d.fills[i] = m.fills[i]
    <3> DEFINE s == m.fills
               t == d.fills
    <3>1. IsList(s) /\ t = Append(s, f)
      BY <2>6 DEF MeetsOrders
    <3> HIDE DEF s, t
    <3>2. /\ IsList(t) /\ Len(s) \in Nat /\ Len(t) = Len(s) + 1
          /\ t[Len(s) + 1] = f /\ \A i \in 1 .. Len(s) : t[i] = s[i]
      BY <3>1, AppendedAt
    <3> QED
      BY <3>2 DEF s, t
  <2>13. ASSUME NEW i \in 1 .. Len(d.fills)
         PROVE  RightFill(b, sd, d.fills[i])
    <3>1. CASE i = Len(m.fills) + 1
      <4>1. d.fills[i] = f
        BY <2>12, <3>1
      <4>2. x \in LiveOrders(b) /\ Where(b, x) = <<other, price>>
        BY <2>2 DEF MeetsOrders
      <4>3. RightFill(b, sd, f)
        BY <2>7, <2>8, <4>2 DEF RightFill, other
      <4> QED
        BY <4>1, <4>3
    <3>2. CASE i \in 1 .. Len(m.fills)
      <4>1. d.fills[i] = m.fills[i]
        BY <2>12, <3>2
      <4> QED
        BY <3>2, <4>1 DEF MeetsOrders
    <3>3. i = Len(m.fills) + 1 \/ i \in 1 .. Len(m.fills)
      <4>1. Len(m.fills) \in Nat /\ Len(d.fills) = Len(m.fills) + 1
        BY <2>12
      <4> QED
        BY <4>1, OneMoreOf
    <3> QED
      BY <3>1, <3>2, <3>3
  <2>14. d.left \in 0 .. qty /\ (n = m.left => d.left = 0)
    <3>1. m.left \in 0 .. qty /\ d.left = m.left - n
      BY <2>6 DEF MeetsOrders
    <3> QED
      BY <2>7, <3>1, LessOf
  <2>15. MeetsOrders(b, sd, qty, d)
    <3>1. IsSound(d.book) /\ LiveOrders(d.book) \subseteq LiveOrders(b)
          /\ \A y \in LiveOrders(d.book) : Where(d.book, y) = Where(b, y)
      BY <2>6, <2>11 DEF MeetsOrders
    <3> QED
      BY <2>12, <2>13, <2>14, <3>1 DEF MeetsOrders
  <2>16. \/ d.left = 0
         \/ \E y \in LiveOrders(m.book) : LiveOrders(d.book) = LiveOrders(m.book) \ {y}
    <3>1. CASE n = front.qty
      <4>1. Leaves(m.book, e, x)
        BY <2>7, <2>10, <3>1
      <4> QED
        BY <2>2, <2>6, <4>1 DEF Leaves
    <3>2. CASE n = m.left
      <4>1. d.left = 0
        BY <2>14, <3>2
      <4> QED
        BY <4>1
    <3> QED
      BY <2>7, <3>1, <3>2
  <2> QED
    BY <2>15, <2>16
<1> QED
  BY <1>2, <1>3

\* The loop has turns enough.
LEMMA CrossAllows ==
  ASSUME NEW b, IsSound(b), NEW sd \in Sides, NEW limit, NEW qty \in Nat, NEW id, NEW mine,
         NEW m, m = Cross(b, "Allow", id, sd, limit, qty, mine)
  PROVE  MeetsOrders(b, sd, qty, m) /\ NoMore(m, sd, limit)
<1>1. PICK g : TurnsBy(g, b, "Allow", id, sd, limit, qty, mine) /\ m = g[MaxOrders]
  <2>1. \A r : \E g : /\ TurnsBy(g, b, r, id, sd, limit, qty, mine)
                     /\ Cross(b, r, id, sd, limit, qty, mine) = g[MaxOrders]
    BY LoopTurns
  <2>2. \E g : /\ TurnsBy(g, b, "Allow", id, sd, limit, qty, mine)
              /\ Cross(b, "Allow", id, sd, limit, qty, mine) = g[MaxOrders]
    BY <2>1
  <2> QED
    BY <2>2
<1> USE MaxOrdersAssumption
<1> DEFINE Size(a) == Cardinality(LiveOrders(a.book))
           Fine(k) == /\ MeetsOrders(b, sd, qty, g[k])
                      /\ NoMore(g[k], sd, limit) \/ Size(g[k]) <= MaxOrders - k
           Odd == {k \in 0 .. MaxOrders : ~Fine(k)}
<1>2. \A a : Size(a) \in Nat
  BY LiveIsFinite, FS_CardinalityType
<1>3. \A a, d : \A x \in LiveOrders(a.book) :
        LiveOrders(d.book) = LiveOrders(a.book) \ {x} => Size(d) = Size(a) - 1
  <2> SUFFICES ASSUME NEW a, NEW d, NEW x \in LiveOrders(a.book),
                      LiveOrders(d.book) = LiveOrders(a.book) \ {x}
               PROVE  Size(d) = Size(a) - 1
    OBVIOUS
  <2>1. LiveOrders(a.book) \in SUBSET LiveOrders(a.book) /\ IsFiniteSet(LiveOrders(a.book))
    BY LiveIsFinite
  <2> QED
    BY <2>1, OneLess
<1>4. Fine(0)
  <2>1. g[0].book = b /\ g[0].left = qty /\ g[0].fills = <<>>
    BY <1>1 DEF TurnsBy, Matched
  <2>2. Len(<<>>) = 0 /\ 1 .. 0 = {} /\ qty \in 0 .. qty
    OBVIOUS
  <2>3. MeetsOrders(b, sd, qty, g[0])
    BY <2>1, <2>2, NothingIsAList DEF MeetsOrders
  <2>4. Cardinality(LiveOrders(b)) <= MaxOrders
    <3>1. LiveOrders(b) \subseteq Ids /\ IsFiniteSet(Ids)
      BY LiveIsFinite, IdsAssumption
    <3>2. Cardinality(LiveOrders(b)) <= Cardinality(Ids) /\ Cardinality(Ids) \in Nat
          /\ Cardinality(LiveOrders(b)) \in Nat
      BY <3>1, FS_Subset, FS_CardinalityType
    <3> QED
      BY <3>2, RoomAssumption
  <2>5. Size(g[0]) <= MaxOrders - 0
    BY <2>1, <2>4
  <2> QED
    BY <2>3, <2>5
<1>5. ASSUME NEW k \in 1 .. MaxOrders, Fine(k - 1) PROVE Fine(k)
  <2> DEFINE a == g[k - 1]
             d == g[k]
  <2>1. d = CrossStep(a, "Allow", id, sd, limit, mine)
    BY <1>1 DEF TurnsBy
  <2>2. MeetsOrders(b, sd, qty, a) /\ (NoMore(a, sd, limit) \/ Size(a) <= MaxOrders - (k - 1))
    BY <1>5
  <2> HIDE DEF a, d, Size
  <2>3. /\ MeetsOrders(b, sd, qty, d)
        /\ \/ d = a /\ NoMore(a, sd, limit)
           \/ d.left = 0
           \/ \E x \in LiveOrders(a.book) : LiveOrders(d.book) = LiveOrders(a.book) \ {x}
    <3>1. \A u, v : /\ MeetsOrders(b, sd, qty, u)
                    /\ v = CrossStep(u, "Allow", id, sd, limit, mine)
            => /\ MeetsOrders(b, sd, qty, v)
               /\ \/ v = u /\ NoMore(u, sd, limit)
                  \/ v.left = 0
                  \/ \E x \in LiveOrders(u.book) : LiveOrders(v.book) = LiveOrders(u.book) \ {x}
      BY TurnAllows
    <3> QED
      BY <2>1, <2>2, <3>1, Zenon
  <2>4. NoMore(a, sd, limit) => d = a
    BY <2>1 DEF NoMore, CrossStep
  <2>5. NoMore(d, sd, limit) \/ Size(d) <= MaxOrders - k
    <3>1. CASE NoMore(a, sd, limit)
      BY <2>4, <3>1
    <3>2. CASE d.left = 0
      BY <3>2 DEF NoMore
    <3>3. CASE ~NoMore(a, sd, limit) /\ d.left # 0
      <4>1. Size(d) = Size(a) - 1
        BY <1>3, <2>3, <3>3
      <4>2. Size(a) <= MaxOrders - (k - 1) /\ Size(a) \in Nat
        BY <1>2, <2>2, <3>3
      <4> QED
        BY <4>1, <4>2
    <3> QED
      BY <3>1, <3>2, <3>3
  <2> QED
    BY <2>3, <2>5 DEF d, Size
<1> HIDE DEF Fine
<1>6. Odd = {}
  <2> SUFFICES ASSUME Odd # {} PROVE FALSE
    OBVIOUS
  <2>1. PICK k \in Odd : \A j \in Odd : k <= j
    <3>1. Odd \in SUBSET Nat
      OBVIOUS
    <3> QED
      BY <3>1, LeastExists
  <2>2. k # 0
    BY <1>4, <2>1
  <2>3. k - 1 \in 0 .. MaxOrders /\ k - 1 \notin Odd /\ k \in 1 .. MaxOrders
    BY <2>1, <2>2
  <2> QED
    BY <1>5, <2>1, <2>3
<1>7. Fine(MaxOrders)
  BY <1>6
<1>8. MeetsOrders(b, sd, qty, m) /\ (NoMore(m, sd, limit) \/ Size(m) <= 0)
  <2>1. MaxOrders - MaxOrders = 0
    OBVIOUS
  <2> QED
    BY <1>1, <1>7, <2>1 DEF Fine
<1>9. Size(m) <= 0 => NoMore(m, sd, limit)
  <2> SUFFICES ASSUME Size(m) <= 0, HasBest(m.book, Opposite(sd)) PROVE FALSE
    BY DEF NoMore
  <2>1. LiveOrders(m.book) = {}
    <3>1. Cardinality(LiveOrders(m.book)) = 0
      <4>1. Size(m) \in Nat
        BY <1>2, Zenon
      <4> HIDE DEF Size
      <4>2. Size(m) = 0
        BY <4>1, NoLess, Zenon
      <4> QED
        BY <4>2 DEF Size
    <3> QED
      BY <3>1, LiveIsFinite, FS_EmptySet
  <2>2. Opposite(sd) \in Sides /\ IsSound(m.book)
    BY <1>8 DEF Opposite, Sides, MeetsOrders
  <2>3. FrontEntry(m.book[Opposite(sd)][Best(m.book, Opposite(sd))]).id \in LiveOrders(m.book)
    BY <2>2, FrontHasPriority
  <2> QED
    BY <2>1, <2>3
<1> QED
  BY <1>8, <1>9

\* Messages of the venue.
LEMMA LineIs ==
  ASSUME NEW type \in Types, NEW x \in Ids, NEW sd \in Sides, NEW p \in Prices,
         NEW left \in Nat, NEW traded \in Int, type # "deleted" => left > 0
  PROVE  LET m == Line(type, x, sd, p, left, traded)
         IN m \in Messages /\ m.type = type /\ m.id = x /\ m.side = sd
BY DEF Line, Messages, NoEvent

LEMMA TradedIs ==
  ASSUME NEW x \in Ids, NEW sd \in Sides, NEW p \in Prices, NEW left \in Nat, NEW n \in Int
  PROVE  LET m == Traded(x, sd, p, left, n)
         IN m \in Messages /\ m.type # "created" /\ m.id = x /\ m.side = sd
<1> DEFINE m == Traded(x, sd, p, left, n)
<1>1. CASE left = 0
  <2>1. m = Line("deleted", x, sd, p, left, n)
    BY <1>1, Zenon DEF Traded
  <2> HIDE DEF m
  <2>2. m \in Messages /\ m.type = "deleted" /\ m.id = x /\ m.side = sd
    BY <2>1, LineIs DEF Types
  <2> QED
    BY <2>2 DEF m
<1>2. CASE left # 0
  <2>1. m = Line("changed", x, sd, p, left, n)
    BY <1>2, Zenon DEF Traded
  <2>2. left > 0
    BY <1>2
  <2> HIDE DEF m
  <2>3. m \in Messages /\ m.type = "changed" /\ m.id = x /\ m.side = sd
    BY <2>1, <2>2, LineIs DEF Types
  <2> QED
    BY <2>3 DEF m
<1> QED
  BY <1>1, <1>2

\* The book of the venue, and the offers it has not seen.
VenueFits(book, offers) ==
  /\ IsSane(book) /\ offers \subseteq Offers
  /\ \A y \in LiveOrders(book) : OnSide(y, Where(book, y)[1])
  /\ \A o \in offers : o.id \notin LiveOrders(book)

\* Messages about orders on their side, the creation of a new one among them.
News(ms) ==
  /\ Sided(ms) /\ CreatesOnce(ms) /\ unsent' \subseteq unsent
  /\ \A x : Creates(ms, x) => /\ \E o \in unsent : o.id = x
                             /\ \A u \in unsent' : u.id # x

\* What the venue may do next.
Publishes(book, ms) ==
  ms \in Seq(Messages) /\ Publish(book, ms) /\ VenueFits(book, unsent') /\ News(ms)

LEMMA VenueIs ==
  ASSUME VenueFits(venue, unsent)
  PROVE  IsSound(venue) /\ IsSane(venue) /\ Apart(venue)
BY DEF VenueFits, IsSane

\* Messages that only follow what is known.
Followers == {m \in Messages : m.type # "created" /\ OnSide(m.id, m.side)}

LEMMA NewsOfOne ==
  ASSUME NEW m \in Followers, unsent' = unsent
  PROVE  <<m>> \in Seq(Messages) /\ News(<<m>>)
<1>1. m \in Messages /\ m.type # "created" /\ OnSide(m.id, m.side)
  BY DEF Followers
<1>2. <<m>> \in Seq(Messages) /\ Len(<<m>>) = 1 /\ <<m>>[1] = m
  BY <1>1
<1> DEFINE ms == <<m>>
<1> HIDE DEF ms
<1>3. \A i \in 1 .. Len(ms) : ms[i] = m
  BY <1>2 DEF ms
<1>4. Sided(ms) /\ CreatesOnce(ms) /\ \A x : ~Creates(ms, x)
  BY <1>1, <1>3 DEF Sided, CreatesOnce, Creates
<1> QED
  BY <1>2, <1>4 DEF News, ms

\* The creation of an order that was offered, and what follows from it.
LEMMA NewsOfOffer ==
  ASSUME VenueFits(venue, unsent), NEW o \in unsent, unsent' = {u \in unsent : u.id # o.id},
         NEW a \in Messages, a.id = o.id, a.side = o.side,
         NEW s \in Seq(Followers), NEW t \in Seq(Followers)
  PROVE  <<a>> \o s \o t \in Seq(Messages) /\ News(<<a>> \o s \o t)
<1> DEFINE u == <<a>> \o s
           ms == u \o t
           k == Len(s)
           l == Len(t)
<1>1. Followers \subseteq Messages
  BY DEF Followers
<1>2. /\ k \in Nat /\ l \in Nat /\ s \in Seq(Messages) /\ t \in Seq(Messages)
      /\ \A i \in 1 .. k : s[i] \in Followers
      /\ \A i \in 1 .. l : t[i] \in Followers
  BY <1>1, LenProperties, ElementOfSeq, SeqMonotonic
<1>3. <<a>> \in Seq(Messages) /\ Len(<<a>>) = 1 /\ <<a>>[1] = a
  OBVIOUS
<1>4. u \in Seq(Messages) /\ Len(u) = 1 + k /\ u[1] = a /\ \A i \in 1 .. k : u[1 + i] = s[i]
  BY <1>2, <1>3, ConcatProperties
<1> HIDE DEF u, k, l
<1>5. /\ ms \in Seq(Messages) /\ Len(ms) = 1 + k + l /\ ms[1] = a
      /\ \A i \in 1 .. k : ms[1 + i] = s[i]
      /\ \A i \in 1 .. l : ms[1 + k + i] = t[i]
  <2>1. ms \in Seq(Messages) /\ Len(ms) = 1 + k + l
    BY <1>2, <1>4, ConcatProperties DEF l
  <2>2. \A i \in 1 .. (1 + k) : ms[i] = u[i]
    BY <1>2, <1>4, ConcatProperties
  <2>3. \A i \in 1 .. l : ms[1 + k + i] = t[i]
    BY <1>2, <1>4, ConcatProperties DEF l
  <2> HIDE DEF ms
  <2>4. \A i \in 1 .. k : 1 + i \in 1 .. (1 + k)
    BY <1>2
  <2>5. 1 \in 1 .. (1 + k)
    BY <1>2
  <2> QED
    BY <1>4, <2>1, <2>2, <2>3, <2>4, <2>5
<1> HIDE DEF ms
<1>6. ASSUME NEW i \in 1 .. Len(ms), i # 1 PROVE ms[i] \in Followers
  <2>1. CASE i <= 1 + k
    <3>1. i - 1 \in 1 .. k /\ 1 + (i - 1) = i
      BY <1>2, <1>5, <1>6, <2>1
    <3> QED
      BY <1>2, <1>5, <3>1
  <2>2. CASE ~(i <= 1 + k)
    <3>1. i - 1 - k \in 1 .. l /\ 1 + k + (i - 1 - k) = i
      BY <1>2, <1>5, <2>2
    <3> QED
      BY <1>2, <1>5, <3>1
  <2> QED
    BY <2>1, <2>2
<1>7. OnSide(o.id, o.side)
  BY DEF OnSide, VenueFits
<1>8. Sided(ms)
  BY <1>5, <1>6, <1>7 DEF Sided, Followers
<1>9. \A i \in 1 .. Len(ms) : ms[i].type = "created" => i = 1
  BY <1>6 DEF Followers
<1>10. CreatesOnce(ms)
  BY <1>9 DEF CreatesOnce
<1>11. \A x : Creates(ms, x) => x = o.id
  BY <1>5, <1>9 DEF Creates
<1>12. News(ms)
  BY <1>8, <1>10, <1>11 DEF News
<1> QED
  BY <1>5, <1>12 DEF ms, u

LEMMA OfferIs ==
  ASSUME VenueFits(venue, unsent), NEW o \in unsent
  PROVE  /\ o \in Offers /\ o.id \in Ids /\ o.side \in Sides /\ o.price \in Prices
         /\ o.qty \in Nat \ {0} /\ ~Known(venue, o.id) /\ o.id \notin LiveOrders(venue)
<1>1. o \in Offers /\ o.id \notin LiveOrders(venue)
  BY DEF VenueFits
<1>2. o.id \in Ids /\ o.side \in Sides /\ o.price \in Prices /\ o.qty \in Nat \ {0}
  BY <1>1, OffersAssumption
<1> QED
  BY <1>1, <1>2 DEF LiveOrders

\* The orders the venue may lose or change.
LEMMA RestingIs ==
  ASSUME VenueFits(venue, unsent), NEW x \in LiveOrders(venue)
  PROVE  /\ Known(venue, x) /\ x \in Ids /\ Where(venue, x)[1] \in Sides
         /\ Where(venue, x)[2] \in Prices /\ QtyOf(venue, x) \in Nat \ {0}
<1>1. IsSound(venue)
  BY VenueIs
<1>2. Known(venue, x)
  BY <1>1, LiveIs
<1> QED
  BY <1>1, <1>2, KnownRests

\* Two lists of one.
LEMMA PairIs ==
  ASSUME NEW S, NEW a \in S, NEW z \in S
  PROVE  <<a>> \o <<z>> = <<a, z>>
<1> DEFINE one == <<a>>
           last == <<z>>
           two == <<a, z>>
<1>1. /\ one \in Seq(S) /\ last \in Seq(S) /\ two \in Seq(S)
      /\ Len(one) = 1 /\ Len(last) = 1 /\ Len(two) = 2
  OBVIOUS
<1>2. one[1] = a /\ last[1] = z /\ two[1] = a /\ two[2] = z
  OBVIOUS
<1> HIDE DEF one, last, two
<1>3. PICK both : both = one \o last
  OBVIOUS
<1>4. both \in Seq(S) /\ Len(both) = Len(one) + Len(last)
  BY <1>1, <1>3, ConcatProperties
<1>5. \A i \in 1 .. Len(one) + Len(last) :
        both[i] = IF i <= Len(one) THEN one[i] ELSE last[i - Len(one)]
  BY <1>1, <1>3, ConcatProperties
<1>6. Len(both) = 2 /\ both[1] = one[1] /\ both[2] = last[1]
  BY <1>1, <1>4, <1>5
<1>7. both = two
  BY <1>1, <1>2, <1>4, <1>6, SeqEqual
<1> QED
  BY <1>3, <1>7 DEF one, last, two

LEMMA RefusePublishes ==
  ASSUME VenueFits(venue, unsent), RefusePostOnly
  PROVE  \E book, ms : Publishes(book, ms)
<1>1. PICK o \in unsent :
        /\ Publish(venue, <<Line("created", o.id, o.side, o.price, o.qty, 0),
                            Line("deleted", o.id, o.side, o.price, o.qty, 0)>>)
        /\ unsent' = {u \in unsent : u.id # o.id}
  BY Zenon DEF RefusePostOnly
<1> DEFINE a == Line("created", o.id, o.side, o.price, o.qty, 0)
           z == Line("deleted", o.id, o.side, o.price, o.qty, 0)
<1>2. /\ a \in Messages /\ a.id = o.id /\ a.side = o.side
      /\ z \in Messages /\ z.id = o.id /\ z.side = o.side /\ z.type = "deleted"
  <2>1. o.qty \in Nat /\ o.qty > 0 /\ 0 \in Int
    BY OfferIs
  <2> QED
    BY <2>1, OfferIs, LineIs DEF Types
<1> HIDE DEF a, z
<1>3. OnSide(o.id, o.side)
  BY OfferIs DEF OnSide
<1>4. z \in Followers
  BY <1>2, <1>3 DEF Followers
<1>5. <<z>> \in Seq(Followers) /\ <<>> \in Seq(Followers)
  BY <1>4
<1>6. <<a>> \o <<z>> \o <<>> = <<a, z>>
  <2>1. <<a, z>> \in Seq(Messages) /\ <<a>> \in Seq(Messages)
    BY <1>2
  <2>2. <<a>> \o <<z>> = <<a, z>>
    BY <1>2, PairIs
  <2>3. \A s \in Seq(Messages) : s \o <<>> = s
    BY ConcatEmptySeq
  <2> QED
    BY <2>1, <2>2, <2>3, Zenon
<1>7. <<a>> \o <<z>> \o <<>> \in Seq(Messages) /\ News(<<a>> \o <<z>> \o <<>>)
  BY <1>1, <1>2, <1>5, NewsOfOffer, Zenon
<1>8. <<a, z>> \in Seq(Messages) /\ News(<<a, z>>)
  BY <1>6, <1>7, Zenon
<1>9. VenueFits(venue, unsent')
  BY <1>1 DEF VenueFits
<1> QED
  BY <1>1, <1>8, <1>9, Zenon DEF Publishes, a, z

\* An order leaves the venue's book, or stays there in part.
LEMMA CancelPublishes ==
  ASSUME VenueFits(venue, unsent), CancelOrder
  PROVE  \E book, ms : Publishes(book, ms)
<1>1. PICK x \in LiveOrders(venue) :
        /\ Publish(Remove(venue, x).book,
                   <<Line("deleted", x, Where(venue, x)[1], Where(venue, x)[2],
                          QtyOf(venue, x), 0)>>)
        /\ unsent' = unsent
  BY DEF CancelOrder, Departs
<1> DEFINE z == Line("deleted", x, Where(venue, x)[1], Where(venue, x)[2], QtyOf(venue, x), 0)
           c == Remove(venue, x).book
<1>2. z \in Messages /\ z.type = "deleted" /\ z.id = x /\ z.side = Where(venue, x)[1]
  BY RestingIs, LineIs DEF Types
<1> HIDE DEF z
<1>3. z \in Followers
  BY <1>2 DEF Followers, VenueFits
<1>4. <<z>> \in Seq(Messages) /\ News(<<z>>)
  BY <1>1, <1>3, NewsOfOne
<1>5. Leaves(venue, c, x)
  BY RestingIs, RemoveLeaves, VenueIs
<1> HIDE DEF c
<1>6. Apart(c)
  BY <1>5, VenueIs, LeavesApart DEF Leaves
<1>7. VenueFits(c, unsent')
  BY <1>1, <1>5, <1>6 DEF VenueFits, Leaves, IsSane
<1> QED
  BY <1>1, <1>4, <1>7, Zenon DEF Publishes, z, c

\* An order of the venue joins another queue, or its own at the back.
LEMMA RejoinFits ==
  ASSUME VenueFits(venue, unsent), NEW x \in LiveOrders(venue), NEW p \in Prices,
         NEW n \in Nat \ {0},
         \A z \in LiveOrders(venue) : z # x => ~Meets(venue, Where(venue, x)[1], p, z)
  PROVE  VenueFits(JoinQueue(Remove(venue, x).book, x, Where(venue, x)[1], p, n, FALSE), unsent)
<1> DEFINE b == Remove(venue, x).book
           sd == Where(venue, x)[1]
           c == JoinQueue(b, x, sd, p, n, FALSE)
<1>1. Leaves(venue, b, x)
  BY RestingIs, RemoveLeaves, VenueIs
<1> HIDE DEF b
<1>2. /\ IsSound(b) /\ ~Known(b, x) /\ LiveOrders(b) = LiveOrders(venue) \ {x}
      /\ \A y \in LiveOrders(b) : Where(b, y) = Where(venue, y)
  BY <1>1, LiveIs DEF Leaves
<1>3. IsSane(b)
  BY <1>2, VenueIs, LeavesApart DEF IsSane
<1>4. Joins(b, c, x, n) /\ Where(c, x) = <<sd, p>> /\ sd \in Sides
  <2>1. FALSE \in BOOLEAN /\ x \in Ids /\ sd \in Sides
    BY RestingIs
  <2> HIDE DEF sd
  <2>2. \A mine \in BOOLEAN : /\ Joins(b, JoinQueue(b, x, sd, p, n, mine), x, n)
                             /\ Where(JoinQueue(b, x, sd, p, n, mine), x) = <<sd, p>>
    BY <1>2, <2>1, JoinQueueJoins
  <2> QED
    BY <2>1, <2>2, Zenon
<1> HIDE DEF c
<1>5. \A z \in LiveOrders(b) : ~Meets(b, sd, p, z)
  BY <1>2 DEF Meets
<1>6. Apart(c)
  BY <1>3, <1>4, <1>5, JoinsApart
<1>7. /\ IsSound(c) /\ LiveOrders(c) = LiveOrders(venue)
      /\ \A y \in LiveOrders(venue) : Where(c, y)[1] = Where(venue, y)[1]
  BY <1>2, <1>4 DEF Joins
<1>8. VenueFits(c, unsent)
  BY <1>6, <1>7 DEF VenueFits, IsSane
<1> QED
  BY <1>8 DEF c, b

LEMMA AmendPublishes ==
  ASSUME VenueFits(venue, unsent), AmendOrder
  PROVE  \E book, ms : Publishes(book, ms)
<1>1. PICK x \in LiveOrders(venue), n \in Qtys :
        /\ n # QtyOf(venue, x)
        /\ Publish(IF n < QtyOf(venue, x)
                   THEN Reduce(venue, x, QtyOf(venue, x) - n).book
                   ELSE JoinQueue(Remove(venue, x).book, x, Where(venue, x)[1],
                                  Where(venue, x)[2], n, FALSE),
                   <<Line("changed", x, Where(venue, x)[1], Where(venue, x)[2], n, 0)>>)
        /\ unsent' = unsent
  BY Zenon DEF AmendOrder, Departs
<1> DEFINE z == Line("changed", x, Where(venue, x)[1], Where(venue, x)[2], n, 0)
           q == QtyOf(venue, x)
           less == Reduce(venue, x, q - n).book
           more == JoinQueue(Remove(venue, x).book, x, Where(venue, x)[1], Where(venue, x)[2],
                             n, FALSE)
<1>2. n \in Nat \ {0} /\ q \in Nat \ {0} /\ Known(venue, x)
  BY RestingIs, OffersAssumption
<1>3. z \in Messages /\ z.type = "changed" /\ z.id = x /\ z.side = Where(venue, x)[1]
  <2>1. n \in Nat /\ n > 0 /\ 0 \in Int
    BY <1>2
  <2> QED
    BY <2>1, RestingIs, LineIs DEF Types
<1> HIDE DEF z
<1>4. z \in Followers
  BY <1>3 DEF Followers, VenueFits
<1>5. <<z>> \in Seq(Messages) /\ News(<<z>>)
  BY <1>1, <1>4, NewsOfOne
<1>6. CASE n < q
  <2> HIDE DEF q
  <2>1. q - n \in Nat /\ q - n > 0 /\ q - n < q
    BY <1>2, <1>6
  <2>2. Shrinks(venue, less, x, q - n)
    BY <1>2, <2>1, ReduceShrinks, VenueIs DEF q
  <2> HIDE DEF less
  <2>3. Apart(less)
    BY <2>2, VenueIs, LeavesApart DEF Shrinks
  <2>4. VenueFits(less, unsent')
    BY <1>1, <2>2, <2>3 DEF VenueFits, Shrinks, IsSane
  <2>5. Publish(less, <<z>>)
    BY <1>1, <1>6, Zenon DEF z, less, q
  <2> QED
    BY <1>5, <2>4, <2>5 DEF Publishes
<1>7. CASE ~(n < q)
  <2>1. \A y \in LiveOrders(venue) : ~Meets(venue, Where(venue, x)[1], Where(venue, x)[2], y)
    BY NoneAcrossIt, VenueIs
  <2>2. VenueFits(more, unsent')
    BY <1>1, <1>2, <2>1, RestingIs, RejoinFits
  <2>3. Publish(more, <<z>>)
    BY <1>1, <1>7, Zenon DEF z
  <2> HIDE DEF more
  <2> QED
    BY <1>5, <2>2, <2>3 DEF Publishes
<1> QED
  BY <1>6, <1>7

LEMMA RepricePublishes ==
  ASSUME VenueFits(venue, unsent), RepriceOrder
  PROVE  \E book, ms : Publishes(book, ms)
<1>1. PICK x \in LiveOrders(venue), p \in Prices :
        /\ ~Crosses(venue, Where(venue, x)[1], p)
        /\ Publish(JoinQueue(Remove(venue, x).book, x, Where(venue, x)[1], p, QtyOf(venue, x), FALSE),
                   <<Line("changed", x, Where(venue, x)[1], p, QtyOf(venue, x), 0)>>)
        /\ unsent' = unsent
  BY Zenon DEF RepriceOrder, Departs
<1> DEFINE z == Line("changed", x, Where(venue, x)[1], p, QtyOf(venue, x), 0)
           c == JoinQueue(Remove(venue, x).book, x, Where(venue, x)[1], p, QtyOf(venue, x), FALSE)
<1>2. QtyOf(venue, x) \in Nat \ {0}
  BY RestingIs
<1>3. z \in Messages /\ z.type = "changed" /\ z.id = x /\ z.side = Where(venue, x)[1]
  <2>1. QtyOf(venue, x) \in Nat /\ QtyOf(venue, x) > 0 /\ 0 \in Int
    BY <1>2
  <2> QED
    BY <2>1, RestingIs, LineIs DEF Types
<1> HIDE DEF z
<1>4. z \in Followers
  BY <1>3 DEF Followers, VenueFits
<1>5. <<z>> \in Seq(Messages) /\ News(<<z>>)
  BY <1>1, <1>4, NewsOfOne
<1>6. \A y \in LiveOrders(venue) : ~Meets(venue, Where(venue, x)[1], p, y)
  BY <1>1, CrossesIs, RestingIs, VenueIs
<1>7. VenueFits(c, unsent')
  BY <1>1, <1>2, <1>6, RejoinFits
<1>8. Publish(c, <<z>>)
  BY <1>1, Zenon DEF z
<1> HIDE DEF c
<1> QED
  BY <1>5, <1>7, <1>8 DEF Publishes

\* A matching ends between this offer and the orders of the venue.
LEMMA OfferMeets ==
  ASSUME VenueFits(venue, unsent), NEW o \in unsent
  PROVE  LET m == Cross(venue, "Allow", o.id, o.side, Limit(o.side, o.price), o.qty, FALSE)
         IN MeetsOrders(venue, o.side, o.qty, m) /\ NoMore(m, o.side, Limit(o.side, o.price))
<1>1. IsSound(venue) /\ o.side \in Sides /\ o.qty \in Nat
  BY OfferIs, VenueIs
<1>2. \A limit, id, mine :
        LET m == Cross(venue, "Allow", id, o.side, limit, o.qty, mine)
        IN MeetsOrders(venue, o.side, o.qty, m) /\ NoMore(m, o.side, limit)
  BY <1>1, CrossAllows
<1> QED
  BY <1>2, Zenon

\* What is left of it then has nobody to trade with.
LEMMA NobodyLeft ==
  ASSUME NEW m, IsSound(m.book), NEW sd \in Sides, NEW p \in Prices, NoMore(m, sd, Limit(sd, p)),
         m.left # 0
  PROVE  \A z \in LiveOrders(m.book) : ~Meets(m.book, sd, p, z)
<1> DEFINE other == Opposite(sd)
<1>1. other \in Sides /\ (sd = "Bid" => other = "Ask") /\ (sd # "Bid" => other = "Bid")
  BY DEF Opposite, Sides
<1>2. HasBest(m.book, other) => Best(m.book, other) \in Prices
  BY <1>1, BestIs, FrontHasPriority, LiveIs, KnownRests
<1>3. ~HasBest(m.book, other) \/ Best(m.book, other) \notin Limit(sd, p)
  BY DEF NoMore
<1>4. ~Crosses(m.book, sd, p)
  BY <1>1, <1>2, <1>3, InputAssumption DEF Crosses, Limit
<1> QED
  BY <1>4, CrossesIs

LEMMA PlacePublishes ==
  ASSUME VenueFits(venue, unsent), PlaceOrder
  PROVE  \E book, ms : Publishes(book, ms)
<1> DEFINE Meet(o) == Cross(venue, "Allow", o.id, o.side, Limit(o.side, o.price), o.qty, FALSE)
           Rest(o, m) == IF m.left = 0 THEN m.book
                         ELSE JoinQueue(m.book, o.id, o.side, o.price, m.left, FALSE)
           Maker(m, i) == Traded(m.fills[i].resting, m.fills[i].side, m.fills[i].price,
                                 QtyOf(m.book, m.fills[i].resting), m.fills[i].qty)
           Makers(m) == [i \in DOMAIN m.fills |-> Maker(m, i)]
           Own(o, m) == IF m.fills = <<>> THEN <<>>
                        ELSE <<Traded(o.id, o.side, o.price, m.left, o.qty - m.left)>>
           Opening(o) == <<Line("created", o.id, o.side, o.price, o.qty, 0)>>
<1>1. PICK o \in unsent :
        /\ Publish(Rest(o, Meet(o)), Opening(o) \o Makers(Meet(o)) \o Own(o, Meet(o)))
        /\ unsent' = {u \in unsent : u.id # o.id}
  BY Zenon DEF PlaceOrder
<1> DEFINE m == Meet(o)
<1>2. MeetsOrders(venue, o.side, o.qty, m) /\ NoMore(m, o.side, Limit(o.side, o.price))
  BY OfferMeets
<1>3. o.id \in Ids /\ o.side \in Sides /\ o.price \in Prices /\ o.qty \in Nat \ {0}
      /\ ~Known(venue, o.id) /\ o.id \notin LiveOrders(venue) /\ IsSound(venue)
      /\ OnSide(o.id, o.side)
  BY OfferIs, VenueIs DEF OnSide
<1> HIDE DEF m
<1>4. /\ IsSound(m.book) /\ m.left \in Nat /\ LiveOrders(m.book) \subseteq LiveOrders(venue)
      /\ \A y \in LiveOrders(m.book) : Where(m.book, y) = Where(venue, y)
      /\ IsList(m.fills) /\ \A i \in 1 .. Len(m.fills) : RightFill(venue, o.side, m.fills[i])
  BY <1>2, <1>3 DEF MeetsOrders
<1>5. PICK a \in Messages : Opening(o) = <<a>> /\ a.id = o.id /\ a.side = o.side
  <2>1. o.qty \in Nat /\ o.qty > 0 /\ 0 \in Int
    BY <1>3
  <2>2. LET a == Line("created", o.id, o.side, o.price, o.qty, 0)
        IN a \in Messages /\ a.id = o.id /\ a.side = o.side
    BY <1>3, <2>1, LineIs DEF Types
  <2> QED
    BY <2>2
<1>6. Makers(m) \in Seq(Followers)
  <2>1. Len(m.fills) \in Nat /\ DOMAIN m.fills = 1 .. Len(m.fills)
    BY <1>4, LenProperties DEF IsList
  <2>2. ASSUME NEW i \in 1 .. Len(m.fills)
        PROVE  Maker(m, i) \in Followers
    <3> DEFINE f == m.fills[i]
    <3>1. RightFill(venue, o.side, f)
      BY <1>4
    <3> HIDE DEF f
    <3>2. Opposite(o.side) \in Sides
      BY DEF Opposite, Sides
    <3>3. f.resting \in Ids /\ f.side \in Sides /\ f.qty \in Int
      BY <3>1, <3>2, LiveIsFinite DEF RightFill
    <3>4. Where(venue, f.resting)[1] = f.side /\ Where(venue, f.resting)[2] = f.price
          /\ f.resting \in LiveOrders(venue)
      BY <3>1 DEF RightFill
    <3>5. f.price \in Prices
      BY <3>4, RestingIs
    <3>6. QtyOf(m.book, f.resting) \in Nat
      BY <1>4, LiveIs, KnownRests, NoQtyUnknown
    <3>7. OnSide(f.resting, f.side)
      BY <3>4 DEF VenueFits
    <3>8. LET z == Traded(f.resting, f.side, f.price, QtyOf(m.book, f.resting), f.qty)
          IN z \in Messages /\ z.type # "created" /\ z.id = f.resting /\ z.side = f.side
      BY <3>3, <3>5, <3>6, TradedIs
    <3>9. Traded(f.resting, f.side, f.price, QtyOf(m.book, f.resting), f.qty) \in Followers
      BY <3>7, <3>8 DEF Followers
    <3> QED
      BY <3>9 DEF f
  <2> DEFINE T(i) == Maker(m, i)
  <2>3. \A i \in 1 .. Len(m.fills) : T(i) \in Followers
    BY <2>2
  <2>4. Makers(m) = [i \in 1 .. Len(m.fills) |-> T(i)]
    BY <2>1
  <2> HIDE DEF Maker, T, Makers
  <2>5. [i \in 1 .. Len(m.fills) |-> T(i)] \in Seq(Followers)
    BY <2>1, <2>3
  <2> QED
    BY <2>4, <2>5
<1>7. Own(o, m) \in Seq(Followers)
  <2>1. o.qty - m.left \in Int
    BY <1>3, <1>4
  <2>2. LET z == Traded(o.id, o.side, o.price, m.left, o.qty - m.left)
        IN z \in Messages /\ z.type # "created" /\ z.id = o.id /\ z.side = o.side
    BY <1>3, <1>4, <2>1, TradedIs
  <2>3. Traded(o.id, o.side, o.price, m.left, o.qty - m.left) \in Followers
    BY <1>3, <2>2 DEF Followers
  <2> QED
    BY <2>3
<1> HIDE DEF Opening, Makers, Own
<1>8. Opening(o) \o Makers(m) \o Own(o, m) \in Seq(Messages)
      /\ News(Opening(o) \o Makers(m) \o Own(o, m))
  <2>1. <<a>> \o Makers(m) \o Own(o, m) \in Seq(Messages) /\ News(<<a>> \o Makers(m) \o Own(o, m))
    BY <1>1, <1>5, <1>6, <1>7, NewsOfOffer, Zenon
  <2> QED
    BY <1>5, <2>1, Zenon
<1>9. VenueFits(Rest(o, m), unsent')
  <2>1. unsent' \subseteq Offers /\ \A u \in unsent' : u.id \notin LiveOrders(m.book) /\ u.id # o.id
    BY <1>1, <1>4 DEF VenueFits
  <2>2. IsSane(m.book) /\ \A y \in LiveOrders(m.book) : OnSide(y, Where(m.book, y)[1])
    BY <1>4, VenueIs, LeavesApart DEF VenueFits, IsSane
  <2>3. CASE m.left = 0
    BY <1>4, <2>1, <2>2, <2>3 DEF VenueFits
  <2>4. CASE m.left # 0
    <3> DEFINE c == JoinQueue(m.book, o.id, o.side, o.price, m.left, FALSE)
    <3>1. m.left \in Nat \ {0} /\ ~Known(m.book, o.id) /\ FALSE \in BOOLEAN
      BY <1>3, <1>4, <2>4, LiveIs
    <3>2. Joins(m.book, c, o.id, m.left) /\ Where(c, o.id) = <<o.side, o.price>>
      <4>1. \A mine \in BOOLEAN :
              LET d == JoinQueue(m.book, o.id, o.side, o.price, m.left, mine)
              IN Joins(m.book, d, o.id, m.left) /\ Where(d, o.id) = <<o.side, o.price>>
        BY <1>3, <1>4, <3>1, JoinQueueJoins
      <4> QED
        BY <3>1, <4>1, Zenon
    <3> HIDE DEF c
    <3>3. \A z \in LiveOrders(m.book) : ~Meets(m.book, o.side, o.price, z)
      BY <1>2, <1>3, <1>4, <2>4, NobodyLeft
    <3>4. Apart(c)
      BY <1>3, <2>2, <3>2, <3>3, JoinsApart
    <3>5. \A y \in LiveOrders(c) : OnSide(y, Where(c, y)[1])
      BY <1>3, <2>2, <3>2 DEF Joins
    <3>6. VenueFits(c, unsent')
      BY <2>1, <3>2, <3>4, <3>5 DEF VenueFits, Joins, IsSane
    <3>7. Rest(o, m) = c
      BY <2>4 DEF c
    <3> QED
      BY <3>6, <3>7
  <2> QED
    BY <2>3, <2>4
<1> HIDE DEF Rest
<1>10. Publish(Rest(o, m), Opening(o) \o Makers(m) \o Own(o, m))
  BY <1>1, Zenon DEF m
<1> QED
  BY <1>8, <1>9, <1>10, Zenon DEF Publishes

LEMMA VenuePublishes ==
  ASSUME VenueFits(venue, unsent), VenueActs
  PROVE  \E book, ms : Publishes(book, ms)
BY PlacePublishes, RefusePublishes, CancelPublishes, AmendPublishes, RepricePublishes, Zenon
   DEF VenueActs

-----------------------------------------------------------------------------
(***************************************************************************)
(* A lost message.  Every message up to number Passed has been written,    *)
(* buffered or lost; the outbox holds the rest of the venue's last act, in *)
(* order.  The decoder's chain never runs ahead of what has passed, and    *)
(* falls behind when a message is lost, until the next one tells.          *)
(***************************************************************************)
Passed == sent - Len(outbox)

Chained(ms, n) == \A i \in 1 .. Len(ms) : ms[i].eid = n + i /\ ms[i].pre = n + i - 1

OnTheWay ==
  /\ sent \in Nat /\ outbox \in Seq(Messages) /\ Len(outbox) <= sent /\ Chained(outbox, Passed)
  /\ buffered \in Seq(Messages) /\ \A i \in 1 .. Len(buffered) : buffered[i].eid <= Passed

ReadSoFar == IsReader(stats) /\ stats.dec.last <= Passed

LossIsHeld ==
  /\ missed = "lost" => /\ phase = "streaming" /\ stats.dec.last # NoEvent
                        /\ stats.dec.last < Passed
  /\ missed = "heard" => stats.dec.gaps > 0
  /\ markers \in Nat /\ (markers = 0 => missed \notin {"lost", "heard"} /\ phase # "streaming")

CaptureInv == VenueFits(venue, unsent) /\ OnTheWay /\ ReadSoFar /\ LossIsHeld

LEMMA PassedIs ==
  ASSUME OnTheWay
  PROVE  Passed \in Nat /\ Len(outbox) \in Nat /\ sent = Passed + Len(outbox)
<1>1. Len(outbox) \in Nat /\ sent \in Nat /\ Len(outbox) <= sent
  BY LenProperties DEF OnTheWay
<1> QED
  BY <1>1 DEF Passed

LEMMA LessNothing ==
  ASSUME NEW n \in Nat, NEW l, l = 0
  PROVE  n - l = n /\ l <= n
OBVIOUS

LEMMA NothingFollows ==
  ASSUME NEW n
  PROVE  Len(<<>>) = 0 /\ <<>> \in Seq(Messages) /\ Chained(<<>>, n)
<1>1. Len(<<>>) = 0 /\ <<>> \in Seq(Messages) /\ 1 .. 0 = {}
  BY EmptySeq
<1>2. \A i \in 1 .. Len(<<>>) : FALSE
  BY <1>1
<1> QED
  BY <1>1, <1>2, Zenon DEF Chained

LEMMA CaptureStarts == CaptureInit => CaptureInv
<1> SUFFICES ASSUME CaptureInit PROVE CaptureInv
  OBVIOUS
<1>1. IsSound(RefEmpty) /\ LiveOrders(RefEmpty) = {}
  <2>1. IsSound(RefEmpty)
    BY EmptyBookFits DEF Fits
  <2>2. LiveOrders(RefEmpty) = {}
    BY DEF LiveOrders, Known, IsAt, IdsIn, RefEmpty
  <2> QED
    BY <2>1, <2>2
<1>2. venue = RefEmpty /\ unsent = Offers /\ outbox = <<>> /\ sent = 0 /\ buffered = <<>>
      /\ stats = Opened(RefEmpty) /\ markers = 0 /\ missed = "none" /\ phase = "loop"
  BY DEF CaptureInit, RecorderInit
<1>3. VenueFits(venue, unsent)
  BY <1>1, <1>2 DEF VenueFits, IsSane, Apart
<1>4. Len(outbox) = 0 /\ Len(buffered) = 0 /\ outbox \in Seq(Messages) /\ buffered \in Seq(Messages)
      /\ Chained(outbox, Passed)
  BY <1>2, NothingFollows, Zenon
<1>5. OnTheWay /\ Passed = 0
  <2>1. \A i \in 1 .. 0 : FALSE
    OBVIOUS
  <2>2. Passed = 0 /\ Len(outbox) <= sent
    BY <1>2, <1>4, 0 \in Nat, LessNothing, Zenon DEF Passed
  <2>3. \A i \in 1 .. Len(buffered) : buffered[i].eid <= Passed
    BY <1>4, <2>1, Zenon
  <2> QED
    BY <1>2, <1>4, <2>2, <2>3 DEF OnTheWay
<1>6. IsReader(stats) /\ stats.dec.last = NoEvent
  BY <1>1, <1>2, OpenedIs
<1>7. ReadSoFar
  BY <1>5, <1>6 DEF ReadSoFar, NoEvent
<1>8. LossIsHeld
  BY <1>2 DEF LossIsHeld
<1> QED
  BY <1>3, <1>5, <1>7, <1>8 DEF CaptureInv

\* What has passed never comes back: a step that leaves the reader alone keeps
\* what is known of it.
LEMMA PassedOn ==
  ASSUME CaptureInv, Passed' >= Passed, Passed' \in Nat, stats' = stats, markers' = markers,
         missed' = missed \/ missed' \notin {"lost", "heard"}, phase' = phase \/ phase' # "streaming",
         phase' = phase \/ missed' \notin {"lost"}
  PROVE  ReadSoFar' /\ LossIsHeld'
<1>1. Passed \in Nat
  BY PassedIs DEF CaptureInv
<1>2. IsReader(stats) /\ stats.dec.last <= Passed /\ stats.dec.last \in Nat /\ IsReader(stats')
  BY DEF CaptureInv, ReadSoFar, IsReader, IsDecoder
<1>3. ReadSoFar'
  <2>1. stats'.dec.last = stats.dec.last
    OBVIOUS
  <2>2. stats'.dec.last <= Passed'
    BY <1>1, <1>2, <2>1
  <2> QED
    BY <1>2, <2>2 DEF ReadSoFar
<1>4. LossIsHeld'
  <2> DEFINE n == stats.dec.last
  <2>1. n \in Nat /\ (n < Passed => n < Passed')
    BY <1>1, <1>2
  <2>2. LossIsHeld /\ stats'.dec.last = n /\ stats'.dec.gaps = stats.dec.gaps
    BY DEF CaptureInv
  <2> HIDE DEF n
  <2>3. LossIsHeld => (missed = "lost" => phase = "streaming" /\ n # NoEvent /\ n < Passed)
    BY DEF LossIsHeld, n
  <2>4. missed' = "lost" => phase' = "streaming" /\ n # NoEvent /\ n < Passed'
    BY <2>1, <2>2, <2>3
  <2>5. missed' = "heard" => stats'.dec.gaps > 0
    BY <2>2 DEF LossIsHeld
  <2>6. markers' \in Nat /\ (markers' = 0 => missed' \notin {"lost", "heard"} /\ phase' # "streaming")
    BY <2>2 DEF LossIsHeld
  <2> QED
    BY <2>2, <2>4, <2>5, <2>6 DEF LossIsHeld
<1> QED
  BY <1>3, <1>4

\* The messages of the venue's next act, numbered.
LEMMA NumberedIs ==
  ASSUME NEW ms \in Seq(Messages), sent \in Nat
  PROVE  /\ Numbered(ms) \in Seq(Messages) /\ Len(Numbered(ms)) = Len(ms) /\ Len(ms) \in Nat
         /\ Chained(Numbered(ms), sent)
<1> DEFINE l == Len(ms)
           N(i) == [ms[i] EXCEPT !.eid = sent + i, !.pre = sent + i - 1]
<1>1. l \in Nat /\ DOMAIN ms = 1 .. l /\ \A i \in 1 .. l : ms[i] \in Messages
  BY LenProperties, ElementOfSeq
<1>2. ASSUME NEW i \in 1 .. l
      PROVE  N(i) \in Messages /\ N(i).eid = sent + i /\ N(i).pre = sent + i - 1
  <2>1. sent + i \in Nat /\ sent + i - 1 \in Int
    BY <1>1
  <2> DEFINE m == ms[i]
  <2>2. m \in Messages
    BY <1>1
  <2> HIDE DEF m
  <2>3. \A e \in Nat, p \in Int :
          LET c == [m EXCEPT !.eid = e, !.pre = p] IN c \in Messages /\ c.eid = e /\ c.pre = p
    BY <2>2 DEF Messages
  <2> QED
    BY <2>1, <2>3 DEF m
<1>3. Numbered(ms) = [i \in 1 .. l |-> N(i)]
  BY <1>1 DEF Numbered
<1> HIDE DEF N, l
<1>4. [i \in 1 .. l |-> N(i)] \in Seq(Messages) /\ Len([i \in 1 .. l |-> N(i)]) = l
  BY <1>1, <1>2
<1>5. Chained(Numbered(ms), sent)
  BY <1>2, <1>3, <1>4 DEF Chained
<1> QED
  BY <1>1, <1>3, <1>4, <1>5 DEF l

LEMMA VenueKeeps == CaptureInv /\ VenueActs => CaptureInv'
<1> SUFFICES ASSUME CaptureInv, VenueActs PROVE CaptureInv'
  OBVIOUS
<1>1. PICK book, ms : Publishes(book, ms)
  BY VenuePublishes DEF CaptureInv
<1>2. /\ ms \in Seq(Messages) /\ VenueFits(book, unsent') /\ outbox = <<>>
      /\ venue' = book /\ outbox' = IF Connected THEN Numbered(ms) ELSE <<>>
      /\ sent' = sent + Len(ms) /\ buffered' = buffered /\ stats' = stats /\ markers' = markers
      /\ missed' = missed /\ phase' = phase
  BY <1>1 DEF Publishes, Publish, fileVars, rvars
<1>3. sent \in Nat /\ Passed = sent /\ buffered \in Seq(Messages)
      /\ \A i \in 1 .. Len(buffered) : buffered[i].eid <= Passed
  <2>1. Len(<<>>) = 0
    OBVIOUS
  <2>2. sent \in Nat /\ Len(outbox) = 0
    BY <1>2, <2>1 DEF CaptureInv, OnTheWay
  <2> QED
    BY <2>2 DEF CaptureInv, OnTheWay, Passed
<1>4. Len(ms) \in Nat /\ sent' \in Nat
  BY <1>2, <1>3, LenProperties
<1>5. outbox' \in Seq(Messages) /\ Len(outbox') <= sent' /\ Passed' \in Nat /\ Passed' >= Passed
      /\ Chained(outbox', Passed')
  <2>1. CASE Connected
    <3>1. outbox' = Numbered(ms)
      BY <1>2, <2>1
    <3>2. Numbered(ms) \in Seq(Messages) /\ Len(Numbered(ms)) = Len(ms) /\ Chained(Numbered(ms), sent)
      BY <1>2, <1>3, NumberedIs
    <3>3. Passed' = sent
      BY <1>2, <1>3, <1>4, <3>1, <3>2 DEF Passed
    <3>4. Len(ms) <= sent'
      BY <1>2, <1>3, <1>4
    <3> QED
      BY <1>3, <3>1, <3>2, <3>3, <3>4
  <2>2. CASE ~Connected
    <3>1. outbox' = <<>>
      BY <1>2, <2>2
    <3>2. Len(outbox') = 0 /\ outbox' \in Seq(Messages) /\ Chained(outbox', Passed')
      BY <3>1, NothingFollows, Zenon
    <3>3. Passed' = sent' /\ Len(outbox') <= sent'
      BY <1>4, <3>2, LessNothing, Zenon DEF Passed
    <3>4. sent' >= sent
      BY <1>2, <1>3, <1>4
    <3> QED
      BY <1>3, <1>4, <3>2, <3>3, <3>4
  <2> QED
    BY <2>1, <2>2
<1>6. OnTheWay'
  <2>1. \A i \in 1 .. Len(buffered') : buffered'[i].eid <= Passed'
    <3> SUFFICES ASSUME NEW i \in 1 .. Len(buffered) PROVE buffered[i].eid <= Passed'
      BY <1>2
    <3>1. buffered[i] \in Messages /\ buffered[i].eid <= Passed
      BY <1>3, ElementOfSeq
    <3>2. buffered[i].eid \in Nat
      BY <3>1, MessageIs
    <3> QED
      BY <1>3, <1>5, <3>1, <3>2
  <2> QED
    BY <1>2, <1>3, <1>4, <1>5, <2>1 DEF OnTheWay
<1>7. ReadSoFar' /\ LossIsHeld'
  BY <1>2, <1>5, PassedOn
<1> QED
  BY <1>2, <1>6, <1>7 DEF CaptureInv

\* The first message of the outbox, and what is behind it.
LEMMA HeadIs ==
  ASSUME OnTheWay, outbox # <<>>, outbox' = Tail(outbox), sent' = sent
  PROVE  /\ Head(outbox) \in Messages /\ Head(outbox).eid = Passed + 1 /\ Head(outbox).pre = Passed
         /\ Passed' = Passed + 1 /\ Passed \in Nat /\ Passed' \in Nat
         /\ outbox' \in Seq(Messages) /\ Len(outbox') <= sent' /\ Chained(outbox', Passed')
<1> DEFINE l == Len(outbox)
           t == Tail(outbox)
<1>1. /\ outbox \in Seq(Messages) /\ l \in Nat /\ l # 0 /\ l <= sent /\ sent \in Nat
      /\ Chained(outbox, Passed) /\ Passed \in Nat /\ Passed = sent - l
  <2>1. outbox \in Seq(Messages) /\ l \in Nat /\ l <= sent /\ sent \in Nat
        /\ Chained(outbox, Passed) /\ Passed \in Nat /\ Passed = sent - l
    BY PassedIs DEF OnTheWay, Passed
  <2>2. l # 0
    BY <2>1, EmptySeq
  <2> QED
    BY <2>1, <2>2
<1>2. /\ t \in Seq(Messages) /\ Len(t) = l - 1 /\ Head(outbox) = outbox[1] /\ Head(outbox) \in Messages
      /\ \A i \in 1 .. Len(t) : t[i] = outbox[i + 1]
  BY <1>1, HeadTailProperties
<1>3. Passed' = Passed + 1 /\ Passed' \in Nat /\ Len(outbox') <= sent'
  <2>1. Passed' = sent' - Len(outbox')
    BY DEF Passed
  <2>2. Len(outbox') = l - 1
    BY <1>2
  <2> HIDE DEF l
  <2> QED
    BY <1>1, <2>1, <2>2
<1>4. Head(outbox).eid = Passed + 1 /\ Head(outbox).pre = Passed
  <2>1. outbox[1].eid = Passed + 1 /\ outbox[1].pre = Passed + 1 - 1
    BY <1>1 DEF Chained
  <2> QED
    BY <1>1, <1>2, <2>1
<1>5. Chained(t, Passed')
  <2> SUFFICES ASSUME NEW i \in 1 .. Len(t)
               PROVE  t[i].eid = Passed' + i /\ t[i].pre = Passed' + i - 1
    BY DEF Chained
  <2>1. i + 1 \in 1 .. l /\ i \in Nat
    BY <1>1, <1>2
  <2>2. outbox[i + 1].eid = Passed + (i + 1) /\ outbox[i + 1].pre = Passed + (i + 1) - 1
    BY <1>1, <2>1 DEF Chained
  <2>3. t[i] = outbox[i + 1]
    BY <1>2
  <2> QED
    BY <1>1, <1>3, <2>1, <2>2, <2>3
<1> QED
  BY <1>1, <1>2, <1>3, <1>4, <1>5

\* What is buffered stays behind what has passed.
LEMMA BufferedOn ==
  ASSUME OnTheWay, Passed' \in Nat, Passed' >= Passed
  PROVE  \A i \in 1 .. Len(buffered) : buffered[i].eid <= Passed' /\ buffered[i].eid \in Nat
<1> SUFFICES ASSUME NEW i \in 1 .. Len(buffered)
             PROVE  buffered[i].eid <= Passed' /\ buffered[i].eid \in Nat
  OBVIOUS
<1>1. buffered[i] \in Messages /\ buffered[i].eid <= Passed /\ Passed \in Nat
  BY PassedIs, ElementOfSeq DEF OnTheWay
<1>2. buffered[i].eid \in Nat
  BY <1>1, MessageIs
<1> QED
  BY <1>1, <1>2

\* The message leaves the outbox for the buffer or the file, damaged or not.
LEMMA RecordKeeps ==
  ASSUME CaptureInv, outbox # <<>>, outbox' = Tail(outbox), sent' = sent, Connected,
         venue' = venue, unsent' = unsent, phase' = phase, markers' = markers,
         NEW m \in Messages, m.eid = Head(outbox).eid, m.pre = Head(outbox).pre, Record(m)
  PROVE  CaptureInv'
<1>1. OnTheWay /\ ReadSoFar /\ LossIsHeld /\ VenueFits(venue', unsent')
  BY DEF CaptureInv
<1>2. /\ m.eid = Passed + 1 /\ m.pre = Passed /\ Passed' = Passed + 1 /\ Passed \in Nat
      /\ Passed' \in Nat
      /\ outbox' \in Seq(Messages) /\ Len(outbox') <= sent' /\ Chained(outbox', Passed')
      /\ Passed' >= Passed /\ sent' \in Nat
  <2>1. sent' \in Nat
    BY <1>1 DEF OnTheWay
  <2> QED
    BY <1>1, <2>1, HeadIs
<1>3. buffered \in Seq(Messages) /\ \A i \in 1 .. Len(buffered) : buffered[i].eid <= Passed'
  BY <1>1, <1>2, BufferedOn DEF OnTheWay
<1>4. CASE phase = "subscribing"
  <2>1. buffered' = Append(buffered, m) /\ stats' = stats /\ missed' = missed
    BY <1>4 DEF Record
  <2>2. /\ buffered' \in Seq(Messages) /\ Len(buffered) \in Nat /\ Len(buffered') = Len(buffered) + 1
        /\ \A i \in 1 .. Len(buffered) + 1 :
             buffered'[i] = IF i = Len(buffered) + 1 THEN m ELSE buffered[i]
    BY <1>3, <2>1, AppendProperties, LenProperties
  <2>3. ASSUME NEW i \in 1 .. Len(buffered') PROVE buffered'[i].eid <= Passed'
    <3>1. Len(buffered) \in Nat /\ Len(buffered') = Len(buffered) + 1
      BY <2>2
    <3>2. i = Len(buffered) + 1 \/ i \in 1 .. Len(buffered)
      BY <3>1, OneMoreOf
    <3>3. CASE i = Len(buffered) + 1
      <4>1. buffered'[i] = m
        BY <2>2, <3>1, <3>3
      <4> QED
        BY <1>2, <4>1
    <3>4. CASE i \in 1 .. Len(buffered)
      <4>1. buffered'[i] = buffered[i]
        <5>1. i # Len(buffered) + 1 /\ i \in 1 .. Len(buffered) + 1
          BY <3>1, <3>4
        <5> QED
          BY <2>2, <5>1
      <4> QED
        BY <1>3, <3>4, <4>1
    <3> QED
      BY <3>2, <3>3, <3>4
  <2>4. OnTheWay'
    BY <1>2, <2>2, <2>3 DEF OnTheWay
  <2>5. ReadSoFar' /\ LossIsHeld'
    BY <1>2, <2>1, PassedOn
  <2> QED
    BY <1>1, <2>4, <2>5 DEF CaptureInv
<1>5. CASE phase # "subscribing"
  <2>1. /\ stats' = ReadLine(stats, m) /\ buffered' = buffered
        /\ missed' = IF missed = "lost" THEN "heard" ELSE missed
    BY <1>5 DEF Record
  <2>2. OnTheWay'
    BY <1>2, <1>3, <2>1 DEF OnTheWay
  <2>3. /\ IsReader(stats') /\ stats'.dec.last = m.eid
        /\ stats'.dec.gaps = IF stats.dec.last # NoEvent /\ m.pre # stats.dec.last
                             THEN stats.dec.gaps + 1 ELSE stats.dec.gaps
    BY <1>1, <2>1, ReadLineIs DEF ReadSoFar
  <2>4. ReadSoFar'
    BY <1>2, <2>3 DEF ReadSoFar
  <2> DEFINE n == stats.dec.last
             g == stats.dec.gaps
             h == stats'.dec.gaps
  <2>5. n \in Nat /\ g \in Nat
    BY <1>1 DEF ReadSoFar, IsReader, IsDecoder
  <2>6. h = IF n # NoEvent /\ Passed # n THEN g + 1 ELSE g
    BY <1>2, <2>3
  <2>7. /\ missed = "lost" => phase = "streaming" /\ n # NoEvent /\ n < Passed
        /\ missed = "heard" => g > 0
    BY <1>1 DEF LossIsHeld
  <2> HIDE DEF n, g, h
  <2>8. missed' # "lost" /\ (missed' = "heard" => h > 0)
    BY <1>2, <2>1, <2>5, <2>6, <2>7
  <2>9. markers' \in Nat /\ (markers' = 0 => missed' \notin {"lost", "heard"} /\ phase' # "streaming")
    BY <1>1, <2>1 DEF LossIsHeld
  <2>10. LossIsHeld'
    BY <2>8, <2>9 DEF LossIsHeld, h
  <2> QED
    BY <1>1, <2>2, <2>4, <2>10 DEF CaptureInv
<1> QED
  BY <1>4, <1>5

LEMMA DeliverKeeps == CaptureInv /\ Deliver => CaptureInv'
<1> SUFFICES ASSUME CaptureInv, Deliver PROVE CaptureInv'
  OBVIOUS
<1>1. /\ outbox # <<>> /\ Connected /\ outbox' = Tail(outbox) /\ Record(Head(outbox))
      /\ sent' = sent /\ venue' = venue /\ unsent' = unsent /\ phase' = phase /\ markers' = markers
  BY DEF Deliver, rvars
<1>2. Head(outbox) \in Messages
  BY <1>1, HeadIs DEF CaptureInv
<1> QED
  BY <1>1, <1>2, RecordKeeps

LEMMA DamagedKeeps == CaptureInv /\ DeliverDamaged => CaptureInv'
<1> SUFFICES ASSUME CaptureInv, DeliverDamaged PROVE CaptureInv'
  OBVIOUS
<1> DEFINE h == Head(outbox)
<1>1. PICK m \in Damaged(h) :
        /\ outbox # <<>> /\ Connected /\ outbox' = Tail(outbox) /\ Record(m)
        /\ sent' = sent /\ venue' = venue /\ unsent' = unsent /\ phase' = phase /\ markers' = markers
  BY DEF DeliverDamaged, rvars
<1>2. h \in Messages
  BY <1>1, HeadIs DEF CaptureInv
<1>3. m \in Messages /\ m.eid = h.eid /\ m.pre = h.pre
  <2> HIDE DEF h
  <2>1. m = [h EXCEPT !.readable = FALSE] \/ m = [h EXCEPT !.traded = NotSent]
    BY <1>1 DEF Damaged
  <2>2. \A c \in Int : [h EXCEPT !.traded = c] \in Messages
    BY <1>2 DEF Messages
  <2>3. [h EXCEPT !.readable = FALSE] \in Messages
    BY <1>2 DEF Messages
  <2>4. NotSent \in Int
    BY DEF NotSent
  <2>5. /\ [h EXCEPT !.readable = FALSE].eid = h.eid /\ [h EXCEPT !.readable = FALSE].pre = h.pre
        /\ \A c \in Int : [h EXCEPT !.traded = c].eid = h.eid /\ [h EXCEPT !.traded = c].pre = h.pre
    BY <1>2 DEF Messages
  <2> QED
    BY <2>1, <2>2, <2>3, <2>4, <2>5
<1> QED
  BY <1>1, <1>3, RecordKeeps

LEMMA LoseKeeps == CaptureInv /\ Lose => CaptureInv'
<1> SUFFICES ASSUME CaptureInv, Lose PROVE CaptureInv'
  OBVIOUS
<1>1. /\ outbox # <<>> /\ outbox' = Tail(outbox) /\ buffered' = buffered
      /\ missed' = IF phase = "streaming" /\ stats.dec.last # NoEvent THEN "lost" ELSE missed
      /\ sent' = sent /\ venue' = venue /\ unsent' = unsent /\ phase' = phase /\ markers' = markers
      /\ stats' = stats
  BY DEF Lose, rvars, fileVars
<1>2. OnTheWay /\ ReadSoFar /\ LossIsHeld /\ VenueFits(venue', unsent')
  BY <1>1 DEF CaptureInv
<1>3. /\ Passed' = Passed + 1 /\ Passed \in Nat /\ Passed' \in Nat
      /\ outbox' \in Seq(Messages) /\ Len(outbox') <= sent' /\ Chained(outbox', Passed')
      /\ Passed' >= Passed /\ sent' \in Nat
  <2>1. sent' \in Nat
    BY <1>1, <1>2 DEF OnTheWay
  <2> QED
    BY <1>1, <1>2, <2>1, HeadIs
<1>4. OnTheWay'
  BY <1>1, <1>2, <1>3, BufferedOn DEF OnTheWay
<1>5. CASE missed' = missed
  BY <1>1, <1>2, <1>3, <1>4, <1>5, PassedOn DEF CaptureInv
<1>6. CASE missed' = "lost" /\ phase = "streaming" /\ stats.dec.last # NoEvent
  <2> DEFINE n == stats.dec.last
  <2>1. n \in Nat /\ n <= Passed
    BY <1>2 DEF ReadSoFar, IsReader, IsDecoder
  <2> HIDE DEF n
  <2>2. n < Passed' /\ n <= Passed'
    BY <1>3, <2>1
  <2>3. ReadSoFar'
    BY <1>1, <1>2, <2>2 DEF ReadSoFar, n
  <2>4. markers' \in Nat /\ markers' # 0
    BY <1>1, <1>2, <1>6 DEF LossIsHeld
  <2>5. LossIsHeld'
    BY <1>1, <1>6, <2>2, <2>4 DEF LossIsHeld, n
  <2> QED
    BY <1>2, <1>4, <2>3, <2>5 DEF CaptureInv
<1> QED
  BY <1>1, <1>5, <1>6

\* The snapshot starts a chain of its own, and keeps the count of the gaps.
LEMMA SnapshotKeeps == CaptureInv /\ TakeSnapshot => CaptureInv'
<1> SUFFICES ASSUME CaptureInv, TakeSnapshot PROVE CaptureInv'
  OBVIOUS
<1> DEFINE before == IF markers = 0 THEN Opened(venue) ELSE stats
           read(readable) == ReadMarker(before, venue, readable)
<1>1. PICK readable \in BOOLEAN : stats' = SX!FoldLeft(ReadLine, read(readable), buffered)
  BY Zenon DEF TakeSnapshot
<1>2. /\ phase = "subscribing" /\ markers' = markers + 1 /\ buffered' = <<>>
      /\ missed' = IF missed = "lost" THEN "none" ELSE missed
      /\ venue' = venue /\ unsent' = unsent /\ outbox' = outbox /\ sent' = sent
  BY DEF TakeSnapshot, StartStreaming, venueVars
<1>3. OnTheWay /\ ReadSoFar /\ LossIsHeld /\ VenueFits(venue', unsent') /\ IsSound(venue)
  BY <1>2 DEF CaptureInv, VenueFits, IsSane
<1>4. Passed' = Passed /\ Passed \in Nat
  BY <1>2, <1>3, PassedIs DEF Passed
<1>5. OnTheWay'
  <2>1. \A i \in 1 .. 0 : FALSE
    OBVIOUS
  <2>2. Len(buffered') = 0 /\ buffered' \in Seq(Messages)
    BY <1>2, NothingFollows, Zenon
  <2>3. \A i \in 1 .. Len(buffered') : buffered'[i].eid <= Passed'
    BY <2>1, <2>2, Zenon
  <2>4. Chained(outbox', Passed')
    BY <1>2, <1>3, <1>4 DEF OnTheWay
  <2> QED
    BY <1>2, <1>3, <2>2, <2>3, <2>4 DEF OnTheWay
<1>6. /\ IsReader(before) /\ before.dec.last \in Nat /\ before.dec.last <= Passed
      /\ before.dec.gaps \in Nat /\ (missed = "heard" => before.dec.gaps > 0)
  <2>1. CASE markers = 0
    <3>1. before = Opened(venue)
      BY <2>1
    <3>2. IsReader(before) /\ before.dec.last = 0 /\ before.dec.gaps = 0
      BY <1>3, <3>1, OpenedIs DEF NoEvent
    <3>3. missed # "heard"
      BY <1>3, <2>1 DEF LossIsHeld
    <3> HIDE DEF before
    <3> QED
      BY <1>4, <3>2, <3>3
  <2>2. CASE markers # 0
    <3>1. before = stats
      BY <2>2
    <3> HIDE DEF before
    <3> QED
      BY <1>3, <3>1 DEF ReadSoFar, LossIsHeld, IsReader, IsDecoder
  <2> QED
    BY <2>1, <2>2
<1> HIDE DEF before
<1> DEFINE r == read(readable)
<1>7. /\ IsReader(r) /\ r.dec.gaps = before.dec.gaps
      /\ r.dec.last = before.dec.last \/ r.dec.last = NoEvent
  <2>1. \A y \in BOOLEAN : /\ IsReader(read(y)) /\ read(y).dec.gaps = before.dec.gaps
                           /\ read(y).dec.last = before.dec.last \/ read(y).dec.last = NoEvent
    BY <1>3, <1>6, ReadMarkerIs
  <2> HIDE DEF read
  <2> QED
    BY <2>1, Zenon DEF r
<1>8. stats' = SX!FoldLeft(ReadLine, r, buffered)
  BY <1>1, Zenon DEF r
<1> HIDE DEF r
<1>9. /\ IsReader(stats') /\ stats'.dec.gaps >= r.dec.gaps
      /\ stats'.dec.last = r.dec.last \/ \E i \in 1 .. Len(buffered) : stats'.dec.last = buffered[i].eid
  BY <1>3, <1>7, <1>8, LinesRead DEF OnTheWay
<1>10. ReadSoFar'
  <2> DEFINE n == stats'.dec.last
  <2>1. CASE n = r.dec.last
    <3>1. n = before.dec.last \/ n = 0
      BY <1>7, <2>1 DEF NoEvent
    <3> HIDE DEF n
    <3>2. n <= Passed
      BY <1>4, <1>6, <3>1
    <3> QED
      BY <1>4, <1>9, <3>2 DEF ReadSoFar, n
  <2>2. CASE \E i \in 1 .. Len(buffered) : n = buffered[i].eid
    <3>1. n <= Passed
      BY <1>3, <2>2 DEF OnTheWay
    <3> QED
      BY <1>4, <1>9, <3>1 DEF ReadSoFar
  <2> QED
    BY <1>9, <2>1, <2>2
<1>11. LossIsHeld'
  <2> DEFINE g == stats'.dec.gaps
  <2>1. g \in Nat /\ g >= before.dec.gaps
    BY <1>7, <1>9 DEF IsReader, IsDecoder
  <2> HIDE DEF g
  <2>2. missed = "heard" => g > 0
    BY <1>6, <2>1
  <2>3. markers' \in Nat /\ markers' # 0
    BY <1>2, <1>3 DEF LossIsHeld
  <2>4. missed' # "lost" /\ (missed' = "heard" => missed = "heard")
    BY <1>2
  <2> QED
    BY <2>2, <2>3, <2>4 DEF LossIsHeld, g
<1> QED
  BY <1>3, <1>5, <1>10, <1>11 DEF CaptureInv

\* The session ends: what was on its way has passed.
LEMMA EndKeeps == CaptureInv /\ EndSession => CaptureInv'
<1> SUFFICES ASSUME CaptureInv, EndSession PROVE CaptureInv'
  OBVIOUS
<1>1. /\ outbox' = <<>> /\ buffered' = <<>>
      /\ missed' = IF missed = "lost" THEN "none" ELSE missed
      /\ venue' = venue /\ unsent' = unsent /\ sent' = sent /\ stats' = stats /\ markers' = markers
  BY DEF EndSession, fileVars
<1>2. phase' # "streaming"
  BY DEF EndSession, EndsCleanly, Fails, Exits, AfterSession
<1>3. OnTheWay /\ LossIsHeld /\ VenueFits(venue', unsent') /\ sent' \in Nat
  BY <1>1 DEF CaptureInv, OnTheWay
<1>4. /\ Len(outbox') = 0 /\ outbox' \in Seq(Messages) /\ Chained(outbox', Passed')
      /\ Len(buffered') = 0 /\ buffered' \in Seq(Messages)
  BY <1>1, NothingFollows, Zenon
<1>5. Passed' = sent' /\ Len(outbox') <= sent'
  BY <1>3, <1>4, LessNothing, Zenon DEF Passed
<1>6. Passed' \in Nat /\ Passed' >= Passed
  BY <1>1, <1>3, <1>5, PassedIs
<1>7. OnTheWay'
  <2>1. \A i \in 1 .. 0 : FALSE
    OBVIOUS
  <2>2. \A i \in 1 .. Len(buffered') : buffered'[i].eid <= Passed'
    BY <1>4, <2>1, Zenon
  <2> QED
    BY <1>3, <1>4, <1>5, <2>2 DEF OnTheWay
<1>8. missed' = missed \/ missed' \notin {"lost", "heard"}
  BY <1>1
<1>9. missed' # "lost"
  BY <1>1
<1>10. ReadSoFar' /\ LossIsHeld'
  BY <1>1, <1>2, <1>6, <1>8, <1>9, PassedOn
<1> QED
  BY <1>3, <1>7, <1>10 DEF CaptureInv

\* The loop of the recorder between two sessions, and the interrupt.
LEMMA IdleKeeps ==
  ASSUME CaptureInv, UNCHANGED <<venueVars, stats, markers, buffered, missed>>,
         phase' = phase \/ (phase # "streaming" /\ phase' # "streaming")
  PROVE  CaptureInv'
<1>1. /\ outbox' = outbox /\ buffered' = buffered /\ missed' = missed
      /\ venue' = venue /\ unsent' = unsent /\ sent' = sent /\ stats' = stats /\ markers' = markers
  BY DEF venueVars
<1>2. OnTheWay /\ LossIsHeld /\ VenueFits(venue', unsent')
  BY <1>1 DEF CaptureInv
<1>3. Passed' = Passed /\ Passed \in Nat
  BY <1>1, <1>2, PassedIs DEF Passed
<1>4. OnTheWay'
  BY <1>1, <1>2, <1>3 DEF OnTheWay, Chained
<1>5. phase' = phase \/ missed' # "lost"
  BY <1>1, <1>2 DEF LossIsHeld
<1>6. Passed' >= Passed /\ Passed' \in Nat
  BY <1>3
<1>7. ReadSoFar' /\ LossIsHeld'
  BY <1>1, <1>5, <1>6, PassedOn
<1> QED
  BY <1>2, <1>4, <1>7 DEF CaptureInv

LEMMA CaptureStep == CaptureInv /\ [CaptureNext]_cvars => CaptureInv'
<1> SUFFICES ASSUME CaptureInv, [CaptureNext]_cvars PROVE CaptureInv'
  OBVIOUS
<1>1. CASE VenueActs
  BY <1>1, VenueKeeps
<1>2. CASE Deliver
  BY <1>2, DeliverKeeps
<1>3. CASE DeliverDamaged
  BY <1>3, DamagedKeeps
<1>4. CASE Lose
  BY <1>4, LoseKeeps
<1>5. CASE TakeSnapshot
  BY <1>5, SnapshotKeeps
<1>6. CASE EndSession
  BY <1>6, EndKeeps
<1>7. CASE Loop
  <2>1. UNCHANGED <<venueVars, stats, markers, buffered, missed>>
    BY <1>7 DEF Loop
  <2>2. phase # "streaming" /\ phase' # "streaming"
    BY <1>7 DEF Loop, StartSession, Leave, Wake
  <2> QED
    BY <2>1, <2>2, IdleKeeps
<1>8. CASE Interrupted
  <2>1. UNCHANGED <<venueVars, stats, markers, buffered, missed>> /\ phase' = phase
    BY <1>8 DEF Interrupted, Interrupt, fileVars
  <2> QED
    BY <2>1, IdleKeeps
<1>9. CASE UNCHANGED cvars
  <2>1. UNCHANGED <<venueVars, stats, markers, buffered, missed>> /\ phase' = phase
    BY <1>9 DEF cvars, rvars, fileVars
  <2> QED
    BY <2>1, IdleKeeps
<1> QED
  BY <1>1, <1>2, <1>3, <1>4, <1>5, <1>6, <1>7, <1>8, <1>9 DEF CaptureNext, RecorderActs

\* The numbering of the messages, what of them has been read, and what is known
\* of a loss hold in every state of a capture.
THEOREM CaptureInvHolds == CaptureSpec => []CaptureInv
<1> USE CaptureStarts, CaptureStep
<1>1. CaptureInit => CaptureInv
  OBVIOUS
<1>2. CaptureInv /\ [CaptureNext]_cvars => CaptureInv'
  OBVIOUS
<1> QED
  BY <1>1, <1>2, PTL DEF CaptureSpec

\* A message lost between two that were heard in one session is always reported
\* as a gap in the chain, through reconnects and damaged messages
\* (src/bitstamp.cpp:81).
THEOREM LossIsReportedHolds == CaptureSpec => []LossIsReported
<1>1. CaptureInv => LossIsReported
  BY DEF CaptureInv, LossIsHeld, LossIsReported
<1> QED
  BY <1>1, CaptureInvHolds, PTL

-----------------------------------------------------------------------------
(***************************************************************************)
(* The table and the book.  What the events of a message do to a book is   *)
(* said of the order they name, and that all others stay as they are.      *)
(***************************************************************************)
\* Book c is book b but for order x.
ButFor(b, c, x) ==
  /\ IsSane(c)
  /\ \A y : y # x => (y \in LiveOrders(c) <=> y \in LiveOrders(b))
  /\ \A y \in LiveOrders(b) : y # x => Where(c, y) = Where(b, y) /\ QtyOf(c, y) = QtyOf(b, y)

\* Order x rests there, in the window, with this much left.
Holds(b, x, sd, p, n) ==
  /\ x \in LiveOrders(b) /\ Where(b, x) = <<sd, p>> /\ QtyOf(b, x) = n
  /\ n \in Nat \ {0} /\ p \in Window /\ sd \in Sides

LEMMA ButForTwice ==
  ASSUME NEW b, NEW c, NEW d, NEW x, ButFor(b, c, x), ButFor(c, d, x)
  PROVE  ButFor(b, d, x)
BY DEF ButFor

LEMMA NoneMeets ==
  ASSUME NEW b, NEW c, NEW x, ButFor(b, c, x), x \notin LiveOrders(c), NEW sd, NEW p,
         \A z \in LiveOrders(b) : z # x => ~Meets(b, sd, p, z)
  PROVE  \A z \in LiveOrders(c) : ~Meets(c, sd, p, z)
BY DEF ButFor, Meets

\* Taking an order out of a book, or some of it.
LEMMA GoneIs ==
  ASSUME NEW b, IsSane(b), NEW x \in Ids
  PROVE  ButFor(b, Remove(b, x).book, x) /\ x \notin LiveOrders(Remove(b, x).book)
<1> DEFINE c == Remove(b, x).book
<1>1. CASE ~Known(b, x)
  <2>1. c = b
    BY <1>1 DEF Remove, Result
  <2>2. x \notin LiveOrders(b)
    BY <1>1, LiveIs DEF IsSane
  <2> HIDE DEF c
  <2> QED
    BY <2>1, <2>2 DEF ButFor, c
<1>2. CASE Known(b, x)
  <2>1. Leaves(b, c, x)
    BY <1>2, RemoveLeaves DEF IsSane
  <2> HIDE DEF c
  <2>2. /\ IsSound(c) /\ IsSound(b) /\ Apart(b) /\ LiveOrders(c) = LiveOrders(b) \ {x}
        /\ \A y \in LiveOrders(c) : Where(c, y) = Where(b, y) /\ EntryOf(c, y) = EntryOf(b, y)
    BY <2>1 DEF Leaves, IsSane
  <2>3. Apart(c)
    BY <2>2 DEF Apart
  <2>4. ASSUME NEW y \in LiveOrders(c) PROVE QtyOf(c, y) = QtyOf(b, y)
    <3>1. Known(c, y) /\ Known(b, y)
      BY <2>2, LiveIs
    <3> QED
      BY <2>2, <3>1 DEF QtyOf
  <2>5. ButFor(b, c, x) /\ x \notin LiveOrders(c)
    BY <2>2, <2>3, <2>4 DEF ButFor, IsSane
  <2> QED
    BY <2>5 DEF c
<1> QED
  BY <1>1, <1>2

LEMMA LessIs ==
  ASSUME NEW b, IsSane(b), NEW x \in Ids, NEW sd, NEW p, NEW n, Holds(b, x, sd, p, n),
         NEW k \in Nat \ {0}, k <= n
  PROVE  /\ ButFor(b, Reduce(b, x, k).book, x)
         /\ k = n => x \notin LiveOrders(Reduce(b, x, k).book)
         /\ k < n => Holds(Reduce(b, x, k).book, x, sd, p, n - k)
<1> DEFINE c == Reduce(b, x, k).book
<1>1. IsSound(b) /\ Apart(b) /\ x \in LiveOrders(b) /\ Known(b, x) /\ EntryOf(b, x).qty = n
      /\ QtyOf(b, x) = n /\ n \in Nat \ {0} /\ Where(b, x) = <<sd, p>>
  <2>1. IsSound(b) /\ Apart(b) /\ x \in LiveOrders(b) /\ QtyOf(b, x) = n /\ n \in Nat \ {0}
        /\ Where(b, x) = <<sd, p>>
    BY DEF Holds, IsSane
  <2>2. Known(b, x) /\ QtyOf(b, x) = EntryOf(b, x).qty
    BY <2>1, LiveIs, KnownRests
  <2> QED
    BY <2>1, <2>2
<1>2. CASE k = n
  <2>1. c = Remove(b, x).book
    <3>1. ~(k <= 0 \/ k > n)
      BY <1>1, <1>2
    <3> QED
      BY <1>1, <1>2, <3>1, Zenon DEF Reduce
  <2> HIDE DEF c
  <2>2. ButFor(b, c, x) /\ x \notin LiveOrders(c)
    BY <2>1, GoneIs
  <2>3. ~(k < n)
    BY <1>1, <1>2
  <2> QED
    BY <1>2, <2>2, <2>3 DEF c
<1>3. CASE k < n
  <2>1. Shrinks(b, c, x, k)
    BY <1>1, <1>3, ReduceShrinks
  <2> HIDE DEF c
  <2>2. /\ IsSound(c) /\ LiveOrders(c) = LiveOrders(b)
        /\ \A y \in LiveOrders(b) : Where(c, y) = Where(b, y)
        /\ \A y \in LiveOrders(b) : QtyOf(c, y) = IF y = x THEN QtyOf(b, y) - k ELSE QtyOf(b, y)
    BY <2>1 DEF Shrinks
  <2>3. Apart(c)
    BY <1>1, <2>2 DEF Apart
  <2>4. ButFor(b, c, x)
    BY <2>2, <2>3 DEF ButFor, IsSane
  <2>5. n - k \in Nat \ {0} /\ k # n
    BY <1>1, <1>3
  <2>6. Holds(c, x, sd, p, n - k)
    BY <1>1, <2>2, <2>5 DEF Holds
  <2> QED
    BY <2>4, <2>5, <2>6 DEF c
<1>4. k = n \/ k < n
  BY <1>1
<1> QED
  BY <1>2, <1>3, <1>4

\* Putting an order into a book where it meets nothing.
LEMMA MoreIs ==
  ASSUME NEW b, IsSane(b), NEW x \in Ids, x \notin LiveOrders(b), NEW sd \in Sides,
         NEW p \in Window, NEW n \in Nat \ {0}, NEW mine \in BOOLEAN,
         \A z \in LiveOrders(b) : ~Meets(b, sd, p, z)
  PROVE  /\ ButFor(b, Add(b, x, sd, p, n, mine).book, x)
         /\ Holds(Add(b, x, sd, p, n, mine).book, x, sd, p, n)
<1> DEFINE c == JoinQueue(b, x, sd, p, n, mine)
<1>1. IsSound(b) /\ Apart(b) /\ p \in Prices /\ p \in Int
  BY WindowAssumption, InputAssumption DEF IsSane
<1>2. ~Known(b, x) /\ ~Crosses(b, sd, p) /\ ~(n <= 0)
  BY <1>1, LiveIs, CrossesIs
<1>3. ~Full(b)
  <2>1. LiveOrders(b) \in SUBSET (Ids \ {x}) /\ IsFiniteSet(Ids) /\ IsFiniteSet(Ids \ {x})
    BY LiveIsFinite, IdsAssumption, FS_RemoveElement
  <2>2. Cardinality(LiveOrders(b)) <= Cardinality(Ids \ {x})
        /\ Cardinality(LiveOrders(b)) \in Nat /\ Cardinality(Ids \ {x}) \in Nat
    BY <2>1, FS_Subset, FS_CardinalityType
  <2>3. Cardinality(Ids \ {x}) = Cardinality(Ids) - 1 /\ Cardinality(Ids) \in Nat
    BY <2>1, FS_RemoveElement, FS_CardinalityType
  <2> QED
    BY <2>2, <2>3, RoomAssumption, MaxOrdersAssumption DEF Full
<1>4. Add(b, x, sd, p, n, mine).book = c
  BY <1>2, <1>3 DEF Add, Result
<1>5. Joins(b, c, x, n) /\ Where(c, x) = <<sd, p>>
  BY <1>1, <1>2, JoinQueueJoins
<1> HIDE DEF c
<1>6. /\ IsSound(c) /\ LiveOrders(c) = LiveOrders(b) \cup {x} /\ QtyOf(c, x) = n
      /\ \A y \in LiveOrders(b) : QtyOf(c, y) = QtyOf(b, y) /\ Where(c, y) = Where(b, y)
  BY <1>5 DEF Joins
<1>7. Apart(c)
  BY <1>1, <1>5, JoinsApart DEF IsSane
<1>8. ButFor(b, c, x)
  BY <1>6, <1>7 DEF ButFor, IsSane
<1>9. Holds(c, x, sd, p, n)
  BY <1>5, <1>6 DEF Holds
<1> QED
  BY <1>4, <1>8, <1>9

\* The book after these events.
After(r, s) == SX!FoldLeft(ApplyEvent, r, s).book

LEMMA AfterEvents ==
  ASSUME NEW r, IsReader(r)
  PROVE  /\ After(r, <<>>) = r.book
         /\ \A s, e : IsList(s) => After(r, Append(s, e)) = Apply(After(r, s), e).book
<1>1. After(r, <<>>) = r.book
  BY EventsApplied DEF After
<1>2. ASSUME NEW s, NEW e, IsList(s) PROVE After(r, Append(s, e)) = Apply(After(r, s), e).book
  <2> DEFINE q == SX!FoldLeft(ApplyEvent, r, s)
             acc == AfterApply(BeforeApply(q.acc, q.book, e), Apply(q.book, e).book, e)
             refused == IF Apply(q.book, e).err = "Ok" THEN q.refused ELSE q.refused + 1
             c == Apply(q.book, e).book
  <2>1. SX!FoldLeft(ApplyEvent, r, Append(s, e)) = ApplyEvent(q, e)
    <3>1. \A u, f : IsList(u) =>
            SX!FoldLeft(ApplyEvent, r, Append(u, f)) = ApplyEvent(SX!FoldLeft(ApplyEvent, r, u), f)
      BY EventsApplied
    <3> QED
      BY <1>2, <3>1, Zenon
  <2>2. IsReader(q)
    BY <1>2, EventsKeep
  <2> HIDE DEF q
  <2>3. ApplyEvent(q, e) = [q EXCEPT !.acc = acc, !.book = c, !.refused = refused]
    BY Zenon DEF ApplyEvent
  <2> HIDE DEF acc, refused, c
  <2>4. ApplyEvent(q, e).book = c
    BY <2>2, <2>3 DEF IsReader
  <2> QED
    BY <2>1, <2>4 DEF After, c, q
<1> QED
  BY <1>1, <1>2

\* What the events do, by their type.
LEMMA EventIs ==
  ASSUME NEW b, NEW x, NEW sd, NEW p, NEW n
  PROVE  /\ Apply(b, Event("Execute", x, x, sd, p, n)) = Reduce(b, x, n)
         /\ Apply(b, Event("Reduce", x, x, sd, p, n)) = Reduce(b, x, n)
         /\ Apply(b, Event("Delete", x, x, sd, p, n)) = Remove(b, x)
         /\ \E mine \in BOOLEAN : Apply(b, Event("Add", x, x, sd, p, n)) = Add(b, x, sd, p, n, mine)
<1>1. \A ty : /\ Event(ty, x, x, sd, p, n).type = ty /\ Event(ty, x, x, sd, p, n).id = x
              /\ Event(ty, x, x, sd, p, n).side = sd /\ Event(ty, x, x, sd, p, n).price = p
              /\ Event(ty, x, x, sd, p, n).qty = n
  BY DEF Event
<1>2. /\ \A e : e.type = "Execute" => Apply(b, e) = Reduce(b, e.id, e.qty)
      /\ \A e : e.type = "Reduce" => Apply(b, e) = Reduce(b, e.id, e.qty)
      /\ \A e : e.type = "Delete" => Apply(b, e) = Remove(b, e.id)
  BY DEF Apply, Execute
<1>3. ASSUME NEW no \in BOOLEAN, no = FALSE
      PROVE  Apply(b, Event("Add", x, x, sd, p, n)) = Add(b, x, sd, p, n, no)
  <2> DEFINE e == Event("Add", x, x, sd, p, n)
  <2>1. e.type = "Add" /\ e.id = x /\ e.side = sd /\ e.price = p /\ e.qty = n
    BY <1>1
  <2> HIDE DEF e
  <2>2. Apply(b, e) = Add(b, e.id, e.side, e.price, e.qty, no)
    BY <1>3, <2>1, Zenon DEF Apply
  <2> QED
    BY <2>1, <2>2, Zenon DEF e
<1>4. FALSE \in BOOLEAN /\ FALSE = FALSE
  OBVIOUS
<1>5. \E mine \in BOOLEAN : Apply(b, Event("Add", x, x, sd, p, n)) = Add(b, x, sd, p, n, mine)
  BY <1>3, <1>4, Zenon
<1> QED
  BY <1>1, <1>2, <1>5

\* What is tracked of order x is what the book has of it.
Tells(t, x, b) ==
  IF t.kind = "resting" THEN Holds(b, x, t.side, t.price, t.left) ELSE x \notin LiveOrders(b)

InStep(T, b) == IsSane(b) /\ T \in [Ids -> Tracks] /\ \A x \in Ids : Tells(T[x], x, b)

LEMMA ButForOne ==
  ASSUME NEW T, NEW b, InStep(T, b), NEW x \in Ids, NEW c, ButFor(b, c, x),
         NEW t \in Tracks, Tells(t, x, c)
  PROVE  InStep([T EXCEPT ![x] = t], c)
<1> DEFINE U == [T EXCEPT ![x] = t]
<1>1. U \in [Ids -> Tracks] /\ U[x] = t /\ \A y \in Ids : y # x => U[y] = T[y]
  BY DEF InStep
<1> HIDE DEF U
<1>2. ASSUME NEW y \in Ids PROVE Tells(U[y], y, c)
  <2>1. CASE y = x
    BY <1>1, <2>1
  <2>2. CASE y # x
    <3>1. U[y] = T[y] /\ Tells(T[y], y, b)
      BY <1>1, <2>2 DEF InStep
    <3>2. /\ y \in LiveOrders(c) <=> y \in LiveOrders(b)
          /\ y \in LiveOrders(b) => Where(c, y) = Where(b, y) /\ QtyOf(c, y) = QtyOf(b, y)
      BY <2>2 DEF ButFor
    <3>3. Tells(T[y], y, c)
      BY <3>1, <3>2 DEF Tells, Holds
    <3> QED
      BY <3>1, <3>3
  <2> QED
    BY <2>1, <2>2
<1>3. InStep(U, c)
  BY <1>1, <1>2 DEF InStep, ButFor
<1> QED
  BY <1>3 DEF U

\* What a message traded leaves the book, and then what is left.
LEMMA FillsLeave ==
  ASSUME NEW r, IsReader(r), NEW st \in Tracks, NEW m \in Messages, IsSane(r.book),
         st.kind = "resting", Tells(st, m.id, r.book)
  PROVE  /\ IsList(Fills(st, m)) /\ ButFor(r.book, After(r, Fills(st, m)), m.id)
         /\ LeftOf(st, m) = 0 => m.id \notin LiveOrders(After(r, Fills(st, m)))
         /\ LeftOf(st, m) > 0 => Holds(After(r, Fills(st, m)), m.id, st.side, st.price, LeftOf(st, m))
         /\ ButFor(r.book, After(r, Append(Fills(st, m), GoneOf(st, m))), m.id)
         /\ m.id \notin LiveOrders(After(r, Append(Fills(st, m), GoneOf(st, m))))
<1> DEFINE b == r.book
           x == m.id
           k == Fill(st, m)
           n == LeftOf(st, m)
           l == st.left
           c == After(r, Fills(st, m))
           e == Event("Execute", x, x, st.side, st.price, k)
           z == After(r, Append(Fills(st, m), GoneOf(st, m)))
<1>1. x \in Ids /\ k \in Nat /\ n \in Nat /\ n = l - k /\ k <= l /\ l \in Nat \ {0}
      /\ Holds(b, x, st.side, st.price, l)
  <2>1. Holds(b, x, st.side, st.price, l)
    BY DEF Tells
  <2>2. l \in Nat \ {0}
    BY <2>1 DEF Holds
  <2> QED
    BY <2>1, <2>2, MessageIs, FillIs
<1>2. Fills(st, m) = IF k > 0 THEN <<e>> ELSE <<>>
  BY DEF Fills
<1> HIDE DEF e
<1>3. /\ IsList(Fills(st, m)) /\ ButFor(b, c, x)
      /\ n = 0 => x \notin LiveOrders(c)
      /\ n > 0 => Holds(c, x, st.side, st.price, n)
  <2>1. CASE k = 0
    <3>1. Fills(st, m) = <<>>
      BY <1>2, <2>1
    <3>2. c = b /\ IsList(Fills(st, m))
      BY <3>1, AfterEvents, NothingIsAList
    <3>3. n = l /\ n # 0
      BY <1>1, <2>1
    <3>4. ButFor(b, b, x)
      BY DEF ButFor
    <3> HIDE DEF c, n, l, x, b
    <3> QED
      BY <1>1, <3>2, <3>3, <3>4
  <2>2. CASE k # 0
    <3>1. Fills(st, m) = <<e>> /\ <<e>> = Append(<<>>, e)
      BY <1>1, <1>2, <2>2
    <3>2. IsList(Fills(st, m)) /\ c = Apply(b, e).book
      <4>1. IsList(Append(<<>>, e))
        BY NothingIsAList, ListAppended
      <4>2. After(r, Append(<<>>, e)) = Apply(After(r, <<>>), e).book /\ After(r, <<>>) = b
        <5>1. /\ After(r, <<>>) = r.book
              /\ \A s, f : IsList(s) => After(r, Append(s, f)) = Apply(After(r, s), f).book
          BY AfterEvents
        <5> QED
          BY <5>1, NothingIsAList, Zenon
      <4> HIDE DEF b
      <4>3. Fills(st, m) = Append(<<>>, e)
        BY <3>1, Zenon
      <4>4. c = Apply(b, e).book
        BY <4>2, <4>3, Zenon
      <4> QED
        BY <4>1, <4>3, <4>4, Zenon
    <3>3. Apply(b, e) = Reduce(b, x, k)
      BY EventIs DEF e
    <3> DEFINE d == Reduce(b, x, k).book
    <3>4. k \in Nat \ {0} /\ (n = 0 <=> k = l) /\ (n > 0 <=> k < l)
      BY <1>1, <2>2
    <3>5. ButFor(b, d, x) /\ (k = l => x \notin LiveOrders(d))
          /\ (k < l => Holds(d, x, st.side, st.price, l - k))
      BY <1>1, <3>4, LessIs
    <3>6. c = d
      BY <3>2, <3>3
    <3> HIDE DEF c, d, n, l, x, b, k
    <3> QED
      BY <1>1, <3>2, <3>4, <3>5, <3>6
  <2> QED
    BY <2>1, <2>2
<1>4. ButFor(b, z, x) /\ x \notin LiveOrders(z)
  <2>1. z = Apply(c, GoneOf(st, m)).book
    BY <1>3, AfterEvents
  <2>2. Apply(c, GoneOf(st, m)) = Remove(c, x)
    BY EventIs DEF GoneOf
  <2>3. IsSane(c)
    BY <1>3 DEF ButFor
  <2>4. ButFor(c, Remove(c, x).book, x) /\ x \notin LiveOrders(Remove(c, x).book)
    BY <1>1, <2>3, GoneIs
  <2> HIDE DEF c, z, b, x
  <2> QED
    BY <1>3, <2>1, <2>2, <2>4, ButForTwice
<1> QED
  BY <1>3, <1>4

\* An order comes to rest where it meets nothing.
LEMMA RestsInStep ==
  ASSUME NEW r, IsReader(r), NEW T, InStep(T, r.book), NEW m \in Messages, m.type # "deleted",
         NEW before, IsList(before), ButFor(r.book, After(r, before), m.id),
         m.id \notin LiveOrders(After(r, before)), m.price \in Window,
         \A z \in LiveOrders(r.book) : z # m.id => ~Meets(r.book, m.side, m.price, z)
  PROVE  InStep([T EXCEPT ![m.id] = OrderState(m.left, m.side, m.price, "resting")],
                After(r, Append(before, AddOf(m))))
<1> DEFINE b == r.book
           c == After(r, before)
           x == m.id
           sd == m.side
           p == m.price
           n == m.left
           t == OrderState(n, sd, p, "resting")
           f == After(r, Append(before, AddOf(m)))
<1>1. x \in Ids /\ sd \in Sides /\ p \in Window /\ n \in Nat \ {0}
  <2>1. m.left \in Nat /\ m.left > 0
    BY MessageIs
  <2>2. m.left \in Nat \ {0}
    BY <2>1
  <2> QED
    BY <2>2, MessageIs
<1>2. t \in Tracks /\ t.kind = "resting" /\ t.side = sd /\ t.price = p /\ t.left = n
  <2>1. p \in Int
    BY MessageIs
  <2> HIDE DEF sd, p, n
  <2> QED
    BY <1>1, <2>1 DEF OrderState, Tracks, Kinds
<1>3. f = Apply(c, AddOf(m)).book
  <2>1. \A s, e : IsList(s) => After(r, Append(s, e)) = Apply(After(r, s), e).book
    BY AfterEvents
  <2> QED
    BY <2>1, Zenon
<1>4. \E mine \in BOOLEAN : Apply(c, AddOf(m)) = Add(c, x, sd, p, n, mine)
  BY EventIs DEF AddOf
<1>5. PICK mine \in BOOLEAN : f = Add(c, x, sd, p, n, mine).book
  BY <1>3, <1>4, Zenon
<1>6. \A z \in LiveOrders(c) : ~Meets(c, sd, p, z)
  BY NoneMeets
<1>7. ButFor(c, f, x) /\ Holds(f, x, sd, p, n)
  <2>1. IsSane(c) /\ x \notin LiveOrders(c)
    BY DEF ButFor
  <2> HIDE DEF c, x, sd, p, n, f
  <2> QED
    BY <1>1, <1>5, <1>6, <2>1, MoreIs
<1>8. ButFor(b, f, x)
  <2> HIDE DEF c, f, x
  <2>1. ButFor(b, c, x)
    BY DEF c, x
  <2> QED
    BY <1>7, <2>1, ButForTwice
<1>9. Tells(t, x, f)
  <2> HIDE DEF t, f, x
  <2> QED
    BY <1>2, <1>7 DEF Tells
<1> HIDE DEF t, f
<1>10. InStep([T EXCEPT ![x] = t], f)
  BY <1>1, <1>2, <1>8, <1>9, ButForOne
<1> QED
  BY <1>10 DEF t, f

\* An order that the decoder gives a place anew.
LEMMA PlacedInStep ==
  ASSUME NEW r, IsReader(r), NEW T, InStep(T, r.book), NEW m \in Messages, m.type # "deleted",
         NEW before, IsList(before), ButFor(r.book, After(r, before), m.id),
         m.id \notin LiveOrders(After(r, before)),
         NEW t \in Tracks, NEW out, PlacedAs(m, r.book, t, before, out)
  PROVE  InStep([T EXCEPT ![m.id] = t], After(r, out))
<1>1. m.id \in Ids /\ m.side \in Sides /\ m.price \in Prices /\ IsSound(r.book)
  BY MessageIs DEF InStep, IsSane
<1>2. CASE t.kind # "resting" /\ out = before
  <2>1. Tells(t, m.id, After(r, out))
    BY <1>2 DEF Tells
  <2> QED
    BY <1>1, <1>2, <2>1, ButForOne
<1>3. CASE /\ t = OrderState(m.left, m.side, m.price, "resting") /\ out = Append(before, AddOf(m))
           /\ m.price \in Window /\ ~Crosses(r.book, m.side, m.price)
  <2>1. \A z \in LiveOrders(r.book) : ~Meets(r.book, m.side, m.price, z)
    BY <1>1, <1>3, CrossesIs
  <2> QED
    BY <1>3, <2>1, RestsInStep
<1>4. \A k \in {"suppressed", "pending"} : OrderState(m.left, m.side, m.price, k).kind # "resting"
  BY DEF OrderState
<1> QED
  BY <1>2, <1>3, <1>4 DEF PlacedAs

LEMMA NoneAcross ==
  ASSUME NEW b, IsSane(b), NEW x, NEW sd, NEW p, NEW n, Holds(b, x, sd, p, n),
         NEW z \in LiveOrders(b)
  PROVE  ~Meets(b, sd, p, z)
BY NoneAcrossIt DEF Holds

LEMMA LessAgain ==
  ASSUME NEW n \in Nat, NEW k \in Nat, 0 < k, k < n
  PROVE  n - k \in Nat \ {0} /\ n - k <= n /\ n - k < n /\ n - (n - k) = k
OBVIOUS

\* A message keeps table and book in step.
LEMMA OutcomeInStep ==
  ASSUME NEW r, IsReader(r), NEW T, InStep(T, r.book), NEW m \in Messages,
         NEW t \in Tracks, NEW out, Outcome(T[m.id], m, r.book, t, out),
         m.type = "created" => T[m.id].kind # "resting",
         T[m.id].kind = "resting" => m.side = T[m.id].side
  PROVE  InStep([T EXCEPT ![m.id] = t], After(r, out))
<1> DEFINE b == r.book
           x == m.id
           st == T[x]
           before == Append(Fills(st, m), GoneOf(st, m))
<1>1. /\ x \in Ids /\ m.left \in Nat /\ (m.type # "deleted" => m.left > 0)
      /\ T \in [Ids -> Tracks] /\ st \in Tracks /\ IsSane(b) /\ Tells(st, x, b)
  <2>1. x \in Ids /\ m.left \in Nat /\ (m.type # "deleted" => m.left > 0)
    BY MessageIs
  <2>2. T \in [Ids -> Tracks] /\ IsSane(b) /\ \A y \in Ids : Tells(T[y], y, b)
    BY DEF InStep
  <2> HIDE DEF b, x
  <2> QED
    BY <2>1, <2>2
<1>2. After(r, <<>>) = b /\ IsList(<<>>) /\ ButFor(b, b, x)
  BY <1>1, AfterEvents, NothingIsAList DEF ButFor
<1>3. ASSUME NEW s, s = <<>>, st.kind # "resting" PROVE ButFor(b, After(r, s), x) /\ x \notin LiveOrders(After(r, s))
  BY <1>1, <1>2, <1>3 DEF Tells
<1>4. ASSUME st.kind = "resting"
      PROVE  /\ IsList(Fills(st, m)) /\ ButFor(b, After(r, Fills(st, m)), x)
             /\ LeftOf(st, m) = 0 => x \notin LiveOrders(After(r, Fills(st, m)))
             /\ LeftOf(st, m) > 0 => Holds(After(r, Fills(st, m)), x, st.side, st.price, LeftOf(st, m))
             /\ ButFor(b, After(r, before), x) /\ x \notin LiveOrders(After(r, before))
             /\ IsList(before) /\ LeftOf(st, m) \in Nat
  <2>1. LeftOf(st, m) \in Nat
    BY <1>1, FillIs
  <2>2. IsList(Fills(st, m)) => IsList(before)
    BY ListAppended
  <2> QED
    BY <1>1, <1>4, <2>1, <2>2, FillsLeave
<1> HIDE DEF before, st, b
<1>5. CASE Nothing(st, m, t, out)
  <2>1. out = <<>> /\ [T EXCEPT ![x] = t] = T
    BY <1>1, <1>5 DEF Nothing, st
  <2> QED
    BY <1>2, <2>1 DEF b
<1>6. CASE Forgotten(st, m, t, out)
  <2>1. out = <<>> /\ t.kind # "resting" /\ st.kind # "resting"
    BY <1>6 DEF Forgotten, Untracked, OrderState
  <2>2. ButFor(b, After(r, out), x) /\ x \notin LiveOrders(After(r, out))
    BY <1>3, <2>1
  <2>3. Tells(t, x, After(r, out))
    BY <2>1, <2>2 DEF Tells
  <2> QED
    BY <1>1, <2>2, <2>3, ButForOne DEF b
<1>7. CASE Appears(st, m, b, t, out)
  <2>1. m.type # "deleted" /\ st.kind # "resting" /\ PlacedAs(m, b, t, <<>>, out)
    BY <1>7 DEF Appears, st
  <2>2. ButFor(b, After(r, <<>>), x) /\ x \notin LiveOrders(After(r, <<>>))
    BY <1>3, <2>1
  <2> QED
    BY <1>2, <2>1, <2>2, PlacedInStep DEF b
<1>8. CASE Ends(st, m, t, out)
  <2>1. st.kind = "resting" /\ t.kind # "resting"
        /\ out = IF LeftOf(st, m) > 0 THEN before ELSE Fills(st, m)
    BY <1>8 DEF Ends, InTheBook, Untracked, OrderState, before
  <2>2. ButFor(b, After(r, out), x) /\ x \notin LiveOrders(After(r, out))
    <3>1. CASE LeftOf(st, m) > 0
      BY <1>4, <2>1, <3>1
    <3>2. CASE ~(LeftOf(st, m) > 0)
      <4>1. LeftOf(st, m) = 0
        BY <1>4, <2>1, <3>2
      <4> QED
        BY <1>4, <2>1, <3>2, <4>1
    <3> QED
      BY <3>1, <3>2
  <2>3. Tells(t, x, After(r, out))
    BY <2>1, <2>2 DEF Tells
  <2> QED
    BY <1>1, <2>2, <2>3, ButForOne DEF b
<1>9. CASE Moves(st, m, b, t, out)
  <2>1. m.type # "deleted" /\ st.kind = "resting" /\ PlacedAs(m, b, t, before, out)
    BY <1>9 DEF Moves, InTheBook, before
  <2> QED
    BY <1>4, <2>1, PlacedInStep DEF b
<1>10. CASE GetsLess(st, m, t, out)
  <2> DEFINE n == LeftOf(st, m)
             k == m.left
             c == After(r, Fills(st, m))
             f == After(r, out)
             d == Reduce(c, x, n - k).book
  <2>1. /\ st.kind = "resting" /\ m.type # "deleted" /\ k < n
        /\ t = OrderState(k, st.side, st.price, "resting")
        /\ out = Append(Fills(st, m), Event("Reduce", x, x, st.side, st.price, n - k))
    BY <1>10 DEF GetsLess, InTheBook
  <2>2. n \in Nat /\ k \in Nat /\ 0 < k /\ k < n /\ n > 0
    BY <1>1, <1>4, <2>1
  <2>3. n - k \in Nat \ {0} /\ n - k <= n /\ n - k < n /\ n - (n - k) = k
    <3> HIDE DEF n, k
    <3> QED
      BY <2>2, LessAgain
  <2>4. ButFor(b, c, x) /\ Holds(c, x, st.side, st.price, n) /\ IsList(Fills(st, m))
    BY <1>4, <2>1, <2>2
  <2>5. f = d
    <3>1. \A s, e : IsList(s) => After(r, Append(s, e)) = Apply(After(r, s), e).book
      BY AfterEvents
    <3>2. f = Apply(c, Event("Reduce", x, x, st.side, st.price, n - k)).book
      <4> HIDE DEF n, k
      <4> QED
        BY <2>1, <2>4, <3>1, Zenon
    <3>3. Apply(c, Event("Reduce", x, x, st.side, st.price, n - k)) = Reduce(c, x, n - k)
      <4> HIDE DEF n, k, c
      <4> QED
        BY EventIs
    <3> QED
      BY <3>2, <3>3, Zenon
  <2> HIDE DEF n, k, c, f
  <2>6. IsSane(c)
    BY <2>4 DEF ButFor
  <2>7. ButFor(c, d, x) /\ Holds(d, x, st.side, st.price, n - (n - k))
    <3> DEFINE j == n - k
    <3>1. j \in Nat \ {0} /\ j <= n /\ j < n
      BY <2>3
    <3> HIDE DEF j
    <3>2. ButFor(c, Reduce(c, x, j).book, x) /\ Holds(Reduce(c, x, j).book, x, st.side, st.price, n - j)
      BY <1>1, <2>4, <2>6, <3>1, LessIs
    <3> QED
      BY <3>2 DEF j
  <2>8. ButFor(b, f, x) /\ Holds(f, x, st.side, st.price, k)
    <3> HIDE DEF d, x
    <3> QED
      BY <2>3, <2>4, <2>5, <2>7, ButForTwice
  <2>9. Tells(t, x, f)
    BY <2>1, <2>8 DEF Tells, OrderState
  <2> QED
    BY <1>1, <2>8, <2>9, ButForOne DEF b, f
<1>11. CASE GetsMore(st, m, t, out)
  <2>1. /\ st.kind = "resting" /\ m.type # "deleted" /\ m.price = st.price /\ m.side = st.side
        /\ t = OrderState(m.left, m.side, m.price, "resting") /\ out = Append(before, AddOf(m))
    BY <1>11 DEF GetsMore, InTheBook, before, st
  <2>2. Holds(b, x, st.side, st.price, st.left)
    BY <1>1, <2>1 DEF Tells
  <2>3. m.price \in Window /\ \A z \in LiveOrders(b) : ~Meets(b, m.side, m.price, z)
    BY <1>1, <2>1, <2>2, NoneAcross DEF Holds
  <2> QED
    BY <1>4, <2>1, <2>3, RestsInStep DEF b
<1>12. CASE Stays(st, m, t, out)
  <2>1. /\ st.kind = "resting" /\ m.type # "deleted" /\ m.left = LeftOf(st, m)
        /\ t = OrderState(m.left, st.side, st.price, "resting") /\ out = Fills(st, m)
    BY <1>12 DEF Stays, InTheBook
  <2>2. ButFor(b, After(r, out), x) /\ Holds(After(r, out), x, st.side, st.price, m.left)
    BY <1>1, <1>4, <2>1
  <2>3. Tells(t, x, After(r, out))
    BY <2>1, <2>2 DEF Tells, OrderState
  <2> QED
    BY <1>1, <2>2, <2>3, ButForOne DEF b
<1>13. Outcome(st, m, b, t, out)
  BY DEF st, b
<1> QED
  BY <1>5, <1>6, <1>7, <1>8, <1>9, <1>10, <1>11, <1>12, <1>13 DEF Outcome

-----------------------------------------------------------------------------
(***************************************************************************)
(* Lines that keep table and book in step: an order stays on its side, and *)
(* is told of as created once, before anything else is told of it.         *)
(***************************************************************************)
KnowsSides(T) == \A x \in Ids : T[x].kind # "none" => OnSide(x, T[x].side)

\* What a message leaves tracked was tracked before or is created by it.
LEMMA OutcomeTracks ==
  ASSUME NEW st, NEW m, NEW b, NEW t, NEW out, Outcome(st, m, b, t, out)
  PROVE  \/ t.kind = "none"
         \/ t.side = m.side /\ (m.type = "created" \/ st.kind # "none")
         \/ t.side = st.side /\ st.kind # "none"
<1>1. \A n, sd, p, k : OrderState(n, sd, p, k).kind = k /\ OrderState(n, sd, p, k).side = sd
  BY DEF OrderState
<1>2. Untracked.kind = "none"
  BY DEF OrderState, Untracked
<1>3. CASE Nothing(st, m, t, out)
  <2>1. t = st
    BY <1>3 DEF Nothing
  <2> QED
    BY <2>1
<1>4. CASE Forgotten(st, m, t, out) \/ Ends(st, m, t, out)
  BY <1>2, <1>4 DEF Forgotten, Ends
<1>5. ASSUME NEW before, PlacedAs(m, b, t, before, out) PROVE t.side = m.side
  BY <1>1, <1>5 DEF PlacedAs
<1>6. CASE Appears(st, m, b, t, out)
  BY <1>5, <1>6 DEF Appears
<1>7. CASE Moves(st, m, b, t, out)
  BY <1>5, <1>7 DEF Moves, InTheBook
<1>8. CASE GetsLess(st, m, t, out) \/ Stays(st, m, t, out)
  BY <1>1, <1>8 DEF GetsLess, Stays, InTheBook
<1>9. CASE GetsMore(st, m, t, out)
  BY <1>1, <1>9 DEF GetsMore, InTheBook
<1> QED
  BY <1>3, <1>4, <1>6, <1>7, <1>8, <1>9 DEF Outcome

\* One line.
LEMMA LineTracks ==
  ASSUME NEW r, IsReader(r), NEW m \in Messages, OnSide(m.id, m.side), KnowsSides(r.dec.live),
         NEW q, q = ReadLine(r, m)
  PROVE  /\ IsReader(q) /\ KnowsSides(q.dec.live)
         /\ \A x \in Ids : q.dec.live[x].kind # "none" =>
                             r.dec.live[x].kind # "none" \/ (m.type = "created" /\ x = m.id)
         /\ InStep(r.dec.live, r.book) /\ (m.type = "created" => r.dec.live[m.id].kind = "none")
              => InStep(q.dec.live, q.book)
<1> DEFINE d == DecodeLine(r.dec, m, r.book)
           s == Decoding(r, m)
           T == r.dec.live
           st == T[m.id]
<1>1. q = SX!FoldLeft(ApplyEvent, s, d.out) /\ IsReader(s) /\ s.dec = d.dec /\ s.book = r.book
  BY DecodingIs
<1>2. /\ IsDecoder(d.dec) /\ IsList(d.out)
      /\ \E t : d.dec.live = [T EXCEPT ![m.id] = t] /\ Outcome(st, m, r.book, t, d.out)
  BY DecodeIs DEF IsReader
<1>3. m.id \in Ids /\ m.side \in Sides
  BY MessageIs
<1>4. T \in [Ids -> Tracks] /\ d.dec.live \in [Ids -> Tracks]
  BY <1>2 DEF IsReader, IsDecoder
<1> HIDE DEF d, s, T
<1>5. PICK t : d.dec.live = [T EXCEPT ![m.id] = t] /\ Outcome(st, m, r.book, t, d.out)
  BY <1>2
<1>6. IsReader(q) /\ q.dec = d.dec /\ q.book = After(s, d.out)
  BY <1>1, <1>2, EventsKeep DEF SameDecoder, After
<1>7. /\ d.dec.live[m.id] = t /\ t \in Tracks
      /\ \A x \in Ids : x # m.id => d.dec.live[x] = T[x]
  BY <1>3, <1>4, <1>5
<1>8. \/ t.kind = "none"
      \/ t.side = m.side /\ (m.type = "created" \/ st.kind # "none")
      \/ t.side = st.side /\ st.kind # "none"
  BY <1>5, OutcomeTracks
<1>9. st.kind # "none" => OnSide(m.id, st.side)
  BY <1>3 DEF KnowsSides, T
<1>10. KnowsSides(q.dec.live)
  <2> SUFFICES ASSUME NEW x \in Ids, d.dec.live[x].kind # "none" PROVE OnSide(x, d.dec.live[x].side)
    BY <1>6 DEF KnowsSides
  <2>1. CASE x = m.id
    BY <1>7, <1>8, <1>9, <2>1
  <2>2. CASE x # m.id
    BY <1>7, <2>2 DEF KnowsSides, T
  <2> QED
    BY <2>1, <2>2
<1>11. ASSUME NEW x \in Ids, q.dec.live[x].kind # "none"
       PROVE  T[x].kind # "none" \/ (m.type = "created" /\ x = m.id)
  BY <1>6, <1>7, <1>8, <1>11
<1>12. ASSUME InStep(T, r.book), m.type = "created" => st.kind = "none"
       PROVE  InStep(q.dec.live, q.book)
  <2>1. m.type = "created" => st.kind # "resting"
    BY <1>12
  <2>2. st.kind = "resting" => m.side = st.side
    BY <1>9, OneSide
  <2>3. InStep(T, s.book) /\ Outcome(T[m.id], m, s.book, t, d.out)
    BY <1>1, <1>5, <1>12
  <2>4. InStep([T EXCEPT ![m.id] = t], After(s, d.out))
    BY <1>1, <1>7, <2>1, <2>2, <2>3, OutcomeInStep
  <2> QED
    BY <1>5, <1>6, <2>4
<1> QED
  BY <1>6, <1>10, <1>11, <1>12 DEF T

\* Many lines.
LEMMA LinesTrack ==
  ASSUME NEW r, IsReader(r), NEW e \in Seq(Messages), Sided(e), CreatesOnce(e),
         KnowsSides(r.dec.live), NEW q, q = SX!FoldLeft(ReadLine, r, e)
  PROVE  /\ KnowsSides(q.dec.live)
         /\ \A x \in Ids : q.dec.live[x].kind # "none" => r.dec.live[x].kind # "none" \/ Creates(e, x)
         /\ InStep(r.dec.live, r.book) /\ (\A x \in Ids : Creates(e, x) => r.dec.live[x].kind = "none")
              => InStep(q.dec.live, q.book)
<1> DEFINE n == Len(e)
           Fresh == InStep(r.dec.live, r.book)
                      /\ \A x \in Ids : Creates(e, x) => r.dec.live[x].kind = "none"
<1>1. IsList(e) /\ n \in Nat /\ \A i \in 1 .. n : e[i] \in Messages
  BY SequencesAreLists, LenProperties, ElementOfSeq
<1>2. Leads("line", {}, r, e, q)
  BY <1>1, LinesWalk
<1>3. PICK g : IsWalk("line", {}, r, e, g) /\ g[n] = q
  BY <1>2 DEF Leads
<1> DEFINE Told(k, x) == \E i \in 1 .. k : e[i].type = "created" /\ e[i].id = x
           Right(k) == /\ IsReader(g[k]) /\ KnowsSides(g[k].dec.live)
                       /\ \A x \in Ids : g[k].dec.live[x].kind # "none" =>
                                           r.dec.live[x].kind # "none" \/ Told(k, x)
                       /\ Fresh => InStep(g[k].dec.live, g[k].book)
           Bad == {k \in 0 .. n : ~Right(k)}
<1> HIDE DEF Right, n
<1>4. Bad = {}
  <2> SUFFICES ASSUME Bad # {} PROVE FALSE
    OBVIOUS
  <2>1. PICK k \in Bad : \A j \in Bad : k <= j
    <3>1. Bad \in SUBSET Nat
      BY <1>1
    <3> QED
      BY <3>1, LeastExists
  <2>2. k # 0
    <3>1. Right(0)
      BY <1>3 DEF IsWalk, Right
    <3> QED
      BY <2>1, <3>1
  <2>3. k \in 1 .. n /\ k - 1 \in 0 .. n /\ k - 1 \notin Bad
    BY SMTT(30), <1>1, <2>1, <2>2
  <2> DEFINE s == g[k - 1]
             m == e[k]
  <2>4. /\ IsReader(s) /\ KnowsSides(s.dec.live)
        /\ \A x \in Ids : s.dec.live[x].kind # "none" => r.dec.live[x].kind # "none" \/ Told(k - 1, x)
        /\ Fresh => InStep(s.dec.live, s.book)
    BY <2>3 DEF Right
  <2>5. g[k] = ReadLine(s, m)
    BY <1>3, <2>3 DEF IsWalk, Onward, n
  <2>6. m \in Messages /\ m.id \in Ids /\ OnSide(m.id, m.side)
    <3>1. m \in Messages /\ OnSide(m.id, m.side)
      BY <1>1, <2>3 DEF Sided, n
    <3> QED
      BY <3>1, MessageIs
  <2> HIDE DEF s
  <2>7. /\ IsReader(g[k]) /\ KnowsSides(g[k].dec.live)
        /\ \A x \in Ids : g[k].dec.live[x].kind # "none" =>
                            s.dec.live[x].kind # "none" \/ (m.type = "created" /\ x = m.id)
        /\ InStep(s.dec.live, s.book) /\ (m.type = "created" => s.dec.live[m.id].kind = "none")
             => InStep(g[k].dec.live, g[k].book)
    <3> HIDE DEF m
    <3> QED
      BY <2>4, <2>5, <2>6, LineTracks
  <2>8. ASSUME NEW x \in Ids, g[k].dec.live[x].kind # "none"
        PROVE  r.dec.live[x].kind # "none" \/ Told(k, x)
    <3>1. k \in 1 .. k /\ \A i \in 1 .. k - 1 : i \in 1 .. k
      BY <1>1, <2>3
    <3>2. CASE s.dec.live[x].kind # "none"
      BY <2>4, <3>1, <3>2
    <3>3. CASE m.type = "created" /\ x = m.id
      BY <3>1, <3>3
    <3> QED
      BY <2>7, <2>8, <3>2, <3>3
  <2>9. ASSUME Fresh PROVE InStep(g[k].dec.live, g[k].book)
    <3>1. ASSUME m.type = "created" PROVE s.dec.live[m.id].kind = "none"
      <4>1. Creates(e, m.id)
        BY <2>3, <3>1 DEF Creates, n
      <4>2. r.dec.live[m.id].kind = "none"
        BY <2>6, <2>9, <4>1
      <4>3. \A i \in 1 .. k - 1 : i \in 1 .. n /\ i # k
        BY <1>1, <2>3
      <4>4. ~Told(k - 1, m.id)
        BY <2>3, <3>1, <4>3 DEF CreatesOnce, n
      <4> QED
        BY <2>4, <2>6, <4>2, <4>4
    <3> QED
      BY <2>4, <2>7, <2>9, <3>1
  <2>10. Right(k)
    BY <2>7, <2>8, <2>9 DEF Right
  <2> QED
    BY <2>1, <2>10
<1>5. Right(n)
  BY <1>1, <1>4
<1>6. \A x \in Ids : Told(n, x) => Creates(e, x)
  BY DEF Creates, n
<1> QED
  BY <1>3, <1>5, <1>6 DEF Right

\* The book shows the first k rows, and nothing else.
Shows(rows, k, b) ==
  /\ IsSane(b)
  /\ \A x : x \in LiveOrders(b) <=> \E i \in 1 .. k : rows[i].id = x
  /\ \A i \in 1 .. k : Holds(b, rows[i].id, rows[i].side, rows[i].price, rows[i].left)

\* Rows that rest in a book with its sides apart.
RowsRest(book, rows) ==
  /\ \A i \in 1 .. Len(rows) :
       /\ rows[i] \in Messages /\ rows[i].type = "created"
       /\ Holds(book, rows[i].id, rows[i].side, rows[i].price, rows[i].left)
  /\ \A i, j \in 1 .. Len(rows) : rows[i].id = rows[j].id => i = j

LEMMA SeededRest ==
  ASSUME NEW book, IsSane(book)
  PROVE  RowsRest(book, SeededRows(book)) /\ Len(SeededRows(book)) \in Nat
<1> DEFINE rows == SeededRows(book)
<1>1. RowsFrom(book, Sides, rows) /\ IsSound(book)
  BY SeededRowsAre DEF IsSane
<1> HIDE DEF rows
<1>2. Len(rows) \in Nat
  BY <1>1, ListParts DEF RowsFrom
<1>3. ASSUME NEW i \in 1 .. Len(rows)
      PROVE  /\ rows[i] \in Messages /\ rows[i].type = "created"
             /\ Holds(book, rows[i].id, rows[i].side, rows[i].price, rows[i].left)
  <2> DEFINE m == rows[i]
  <2>1. PICK sd \in Sides : RowOf(book, sd, m)
    BY <1>1 DEF RowsFrom
  <2> HIDE DEF m
  <2>2. /\ m \in Messages /\ m.type = "created" /\ m.side = sd /\ m.price \in Window
        /\ Known(book, m.id) /\ Where(book, m.id) = <<sd, m.price>> /\ m.left = QtyOf(book, m.id)
    BY <1>1, <2>1, RowsAreMessages
  <2>3. m.id \in LiveOrders(book) /\ m.left \in Nat \ {0}
    BY <1>1, <2>2, LiveIs, KnownRests
  <2>4. Holds(book, m.id, m.side, m.price, m.left)
    BY <2>2, <2>3 DEF Holds
  <2> QED
    BY <2>2, <2>4 DEF m
<1> QED
  BY <1>1, <1>2, <1>3 DEF RowsRest, RowsFrom, rows

\* One more row is added.
LEMMA OneMoreShows ==
  ASSUME NEW book, IsSane(book), NEW rows, RowsRest(book, rows), NEW k \in Nat, k + 1 \in 1 .. Len(rows),
         \A i \in 1 .. k : i \in 1 .. Len(rows),
         NEW c, Shows(rows, k, c), NEW f, f = Apply(c, AddOf(rows[k + 1])).book
  PROVE  Shows(rows, k + 1, f)
<1> DEFINE m == rows[k + 1]
           x == m.id
           sd == m.side
           p == m.price
           n == m.left
<1>1. m \in Messages /\ Holds(book, x, sd, p, n) /\ x \in Ids /\ sd \in Sides /\ p \in Window /\ n \in Nat \ {0}
  <2>1. m \in Messages /\ Holds(book, x, sd, p, n)
    BY DEF RowsRest
  <2> HIDE DEF m
  <2> QED
    BY <2>1, MessageIs DEF Holds
<1>2. \A i \in 1 .. k + 1 : i = k + 1 \/ i \in 1 .. k
  OBVIOUS
<1>3. k + 1 \in 1 .. k + 1 /\ \A i \in 1 .. k : i \in 1 .. k + 1 /\ i # k + 1
  OBVIOUS
<1>4. x \notin LiveOrders(c)
  BY <1>3 DEF Shows, RowsRest
<1>5. ASSUME NEW z \in LiveOrders(c) PROVE ~Meets(c, sd, p, z)
  <2>1. PICK i \in 1 .. k : rows[i].id = z
    BY DEF Shows
  <2>2. z \in LiveOrders(book) /\ Where(c, z) = Where(book, z)
    BY <2>1 DEF Shows, RowsRest, Holds
  <2>3. ~Meets(book, sd, p, z)
    BY <1>1, <2>2, NoneAcross
  <2> QED
    BY <2>2, <2>3 DEF Meets
<1>6. \E mine \in BOOLEAN : Apply(c, AddOf(m)) = Add(c, x, sd, p, n, mine)
  BY EventIs DEF AddOf
<1>7. PICK mine \in BOOLEAN : f = Add(c, x, sd, p, n, mine).book
  BY <1>6, Zenon
<1> HIDE DEF m, x, sd, p, n
<1>8. ButFor(c, f, x) /\ Holds(f, x, sd, p, n)
  <2>1. IsSane(c)
    BY DEF Shows
  <2> QED
    BY <1>1, <1>4, <1>5, <1>7, <2>1, MoreIs
<1>9. ASSUME NEW y PROVE y \in LiveOrders(f) <=> \E i \in 1 .. k + 1 : rows[i].id = y
  <2>1. rows[k + 1].id = x
    BY DEF x, m
  <2>2. CASE y = x
    BY <1>3, <1>8, <2>1, <2>2 DEF Holds
  <2>3. CASE y # x
    <3>1. y \in LiveOrders(f) <=> y \in LiveOrders(c)
      BY <1>8, <2>3 DEF ButFor
    <3>2. y \in LiveOrders(c) <=> \E i \in 1 .. k : rows[i].id = y
      BY DEF Shows
    <3> QED
      BY <1>2, <1>3, <2>1, <2>3, <3>1, <3>2
  <2> QED
    BY <2>2, <2>3
<1>10. ASSUME NEW i \in 1 .. k + 1
       PROVE  Holds(f, rows[i].id, rows[i].side, rows[i].price, rows[i].left)
  <2>1. CASE i = k + 1
    BY <1>8, <2>1 DEF m, x, sd, p, n
  <2>2. CASE i \in 1 .. k
    <3> DEFINE y == rows[i].id
    <3>1. y # x
      BY <1>3, <2>2 DEF RowsRest, x, m
    <3>2. Holds(c, y, rows[i].side, rows[i].price, rows[i].left)
      BY <2>2 DEF Shows
    <3> QED
      BY <1>8, <3>1, <3>2 DEF ButFor, Holds
  <2> QED
    BY <1>2, <2>1, <2>2
<1> QED
  BY <1>8, <1>9, <1>10 DEF Shows, ButFor

LEMMA SnapshotShows ==
  ASSUME NEW book, IsSane(book), NEW rows, RowsRest(book, rows), Len(rows) \in Nat,
         NEW out, IsList(out), Len(out) = Len(rows), \A i \in 1 .. Len(rows) : out[i] = AddOf(rows[i])
  PROVE  Shows(rows, Len(rows), AllApplied(RefEmpty, out))
<1> DEFINE n == Len(rows)
           q == AllApplied(RefEmpty, out)
<1>1. Leads("add", {}, RefEmpty, out, q)
  BY AddsWalk
<1> HIDE DEF q
<1>2. PICK g : IsWalk("add", {}, RefEmpty, out, g) /\ g[n] = q
  BY <1>1 DEF Leads
<1> DEFINE Right(k) == Shows(rows, k, g[k])
           Bad == {k \in 0 .. n : ~Right(k)}
<1> HIDE DEF Right, n
<1>3. n \in Nat
  BY DEF n
<1>4. Bad = {}
  <2> SUFFICES ASSUME Bad # {} PROVE FALSE
    OBVIOUS
  <2>1. PICK k \in Bad : \A j \in Bad : k <= j
    <3>1. Bad \in SUBSET Nat
      BY <1>3
    <3> QED
      BY <3>1, LeastExists
  <2>2. k # 0
    <3>1. IsSane(RefEmpty) /\ LiveOrders(RefEmpty) = {}
      <4>1. IsSound(RefEmpty)
        BY EmptyBookFits DEF Fits
      <4>2. LiveOrders(RefEmpty) = {}
        BY DEF LiveOrders, Known, IsAt, IdsIn, RefEmpty
      <4>3. Apart(RefEmpty)
        BY <4>2 DEF Apart
      <4> QED
        BY <4>1, <4>2, <4>3 DEF IsSane
    <3>2. g[0] = RefEmpty
      BY <1>2 DEF IsWalk
    <3>3. \A i \in 1 .. 0 : FALSE
      OBVIOUS
    <3>4. Right(0)
      BY <3>1, <3>2, <3>3 DEF Right, Shows
    <3> QED
      BY <2>1, <3>4
  <2>3. k \in 1 .. n /\ k - 1 \in 0 .. n /\ k - 1 \notin Bad
    BY <1>3, <2>1, <2>2
  <2> DEFINE j == k - 1
  <2>4. j \in Nat /\ j + 1 = k /\ j + 1 \in 1 .. n /\ \A i \in 1 .. j : i \in 1 .. n
    BY <1>3, <2>3
  <2>5. Right(j)
    BY <2>3
  <2> HIDE DEF j
  <2>6. g[j + 1] = Apply(g[j], AddOf(rows[j + 1])).book
    <3>1. g[k] = Onward("add", {}, g[k - 1], out[k])
      BY <1>2, <2>3 DEF IsWalk, n
    <3>2. \A x, y : Onward("add", {}, x, y) = Apply(x, y).book
      BY DEF Onward
    <3>3. k - 1 = j /\ k = j + 1 /\ out[k] = AddOf(rows[k])
      BY <2>3, <2>4 DEF n, j
    <3>4. g[k] = Apply(g[k - 1], out[k]).book
      BY <3>1, <3>2, Zenon
    <3> QED
      BY <3>3, <3>4, Zenon
  <2>7. Shows(rows, j + 1, g[j + 1])
    BY <2>4, <2>5, <2>6, OneMoreShows DEF Right, n
  <2>8. Right(k)
    BY <2>4, <2>7 DEF Right
  <2> QED
    BY <2>1, <2>8
<1>5. Right(n)
  BY <1>3, <1>4
<1> QED
  BY <1>2, <1>5 DEF Right, n, q

\* After a snapshot the table tells of the orders that were seeded, which are
\* those of the book that was built from them.
LEMMA SeededInStep ==
  ASSUME NEW d, IsDecoder(d), d.live = [x \in Ids |-> Untracked], NEW book, IsSane(book),
         NEW r, r = LoadSnapshot(d, book)
  PROVE  /\ InStep(r.dec.live, AllApplied(RefEmpty, r.out))
         /\ \A x \in Ids : r.dec.live[x].kind # "none" =>
              /\ x \in LiveOrders(book) /\ r.dec.live[x].side = Where(book, x)[1]
              /\ Names(SeededRows(book), x)
<1> DEFINE rows == SeededRows(book)
           n == Len(rows)
           c == AllApplied(RefEmpty, r.out)
           T == r.dec.live
<1>1. LoadedTo(d, rows, n, r)
  BY LoadSnapshotIs DEF IsSane
<1>2. RowsRest(book, rows) /\ n \in Nat
  BY SeededRest
<1> HIDE DEF rows
<1>3. Shows(rows, n, c)
  BY <1>1, <1>2, SnapshotShows DEF LoadedTo
<1> HIDE DEF c
<1>4. /\ T \in [Ids -> Tracks]
      /\ \A i \in 1 .. n : T[rows[i].id] = Seed(rows[i])
      /\ \A x \in Ids : (\A i \in 1 .. n : rows[i].id # x) => T[x] = Untracked
  BY <1>1 DEF LoadedTo, IsDecoder
<1> HIDE DEF T
<1>5. \A m : /\ Seed(m).kind = "resting" /\ Seed(m).side = m.side /\ Seed(m).price = m.price
             /\ Seed(m).left = m.left
  BY DEF Seed, OrderState
<1>6. Untracked.kind = "none"
  BY DEF Untracked, OrderState
<1>7. ASSUME NEW x \in Ids, NEW i \in 1 .. n, rows[i].id = x
      PROVE  /\ Tells(T[x], x, c) /\ x \in LiveOrders(book) /\ T[x].side = Where(book, x)[1]
  <2>1. T[x] = Seed(rows[i])
    BY <1>4, <1>7
  <2>2. /\ Holds(c, x, rows[i].side, rows[i].price, rows[i].left)
        /\ Holds(book, x, rows[i].side, rows[i].price, rows[i].left)
    BY <1>2, <1>3, <1>7 DEF Shows, RowsRest
  <2>3. Tells(T[x], x, c)
    BY <1>5, <2>1, <2>2 DEF Tells
  <2>4. x \in LiveOrders(book) /\ T[x].side = Where(book, x)[1]
    BY <1>5, <2>1, <2>2 DEF Holds
  <2> QED
    BY <2>3, <2>4
<1>8. ASSUME NEW x \in Ids, \A i \in 1 .. n : rows[i].id # x
      PROVE  Tells(T[x], x, c) /\ T[x].kind = "none"
  <2>1. x \notin LiveOrders(c)
    BY <1>3, <1>8 DEF Shows
  <2> QED
    BY <1>4, <1>6, <1>8, <2>1 DEF Tells
<1>9. InStep(T, c)
  BY <1>3, <1>4, <1>7, <1>8 DEF InStep, Shows
<1>10. ASSUME NEW x \in Ids, T[x].kind # "none"
       PROVE  x \in LiveOrders(book) /\ T[x].side = Where(book, x)[1] /\ Names(rows, x)
  BY <1>7, <1>8, <1>10 DEF Names
<1> QED
  BY <1>9, <1>10 DEF T, c, rows

-----------------------------------------------------------------------------
(***************************************************************************)
(* The table and the book of apps/stats, through a whole capture.  An      *)
(* order is on one side from its offer on, what is on its way or buffered  *)
(* creates only orders the table does not hold, and so each message keeps  *)
(* the two in step - until a snapshot tells of an order that messages read *)
(* after it tell of too.                                                   *)
(***************************************************************************)
\* What lists of messages tell when they are empty, extended, cut or numbered.
LEMMA NothingTells ==
  ASSUME NEW ms, ms = <<>>
  PROVE  Sided(ms) /\ CreatesOnce(ms) /\ \A x : ~Creates(ms, x)
<1>1. \A i \in 1 .. Len(ms) : FALSE
  OBVIOUS
<1> QED
  BY <1>1 DEF Sided, CreatesOnce, Creates

LEMMA TailTells ==
  ASSUME NEW ms \in Seq(Messages), ms # <<>>, NEW h, h = Head(ms), NEW t, t = Tail(ms)
  PROVE  /\ Sided(ms) => Sided(t) /\ OnSide(h.id, h.side)
         /\ CreatesOnce(ms) => CreatesOnce(t) /\ (h.type = "created" => ~Creates(t, h.id))
         /\ \A x : Creates(t, x) => Creates(ms, x)
         /\ h.type = "created" => Creates(ms, h.id)
<1>1. /\ Len(ms) \in Nat /\ Len(t) = Len(ms) - 1 /\ h = ms[1]
      /\ \A i \in 1 .. Len(t) : t[i] = ms[i + 1]
  BY LenProperties, HeadTailProperties
<1>2. Len(ms) # 0
  BY EmptySeq
<1>3. 1 \in 1 .. Len(ms)
  BY <1>1, <1>2
<1>4. \A i \in 1 .. Len(t) : i + 1 \in 1 .. Len(ms) /\ i + 1 # 1
  BY <1>1
<1>5. \A i, j \in 1 .. Len(t) : i + 1 = j + 1 => i = j
  OBVIOUS
<1>6. Sided(ms) => Sided(t) /\ OnSide(h.id, h.side)
  BY <1>1, <1>3, <1>4 DEF Sided
<1>7. CreatesOnce(ms) => CreatesOnce(t) /\ (h.type = "created" => ~Creates(t, h.id))
  <2> SUFFICES ASSUME CreatesOnce(ms)
               PROVE  CreatesOnce(t) /\ (h.type = "created" => ~Creates(t, h.id))
    OBVIOUS
  <2>1. CreatesOnce(t)
    <3> SUFFICES ASSUME NEW i \in 1 .. Len(t), NEW j \in 1 .. Len(t), t[i].type = "created",
                        t[j].type = "created", t[i].id = t[j].id
                 PROVE  i = j
      BY DEF CreatesOnce
    <3>1. i + 1 = j + 1
      BY <1>1, <1>4 DEF CreatesOnce
    <3> QED
      BY <1>5, <3>1
  <2>2. ASSUME h.type = "created", NEW i \in 1 .. Len(t), t[i].type = "created", t[i].id = h.id
        PROVE  FALSE
    BY <1>1, <1>3, <1>4, <2>2 DEF CreatesOnce
  <2> QED
    BY <2>1, <2>2 DEF Creates
<1>8. \A x : Creates(t, x) => Creates(ms, x)
  BY <1>1, <1>4 DEF Creates
<1>9. h.type = "created" => Creates(ms, h.id)
  BY <1>1, <1>3 DEF Creates
<1> QED
  BY <1>6, <1>7, <1>8, <1>9

LEMMA AppendTells ==
  ASSUME NEW ms \in Seq(Messages), NEW m \in Messages, NEW s, s = Append(ms, m)
  PROVE  /\ Sided(ms) /\ OnSide(m.id, m.side) => Sided(s)
         /\ \A x : Creates(s, x) => Creates(ms, x) \/ (m.type = "created" /\ m.id = x)
         /\ CreatesOnce(ms) /\ (m.type = "created" => ~Creates(ms, m.id)) => CreatesOnce(s)
<1> DEFINE l == Len(ms)
<1>1. /\ l \in Nat /\ Len(s) = l + 1 /\ s[l + 1] = m
      /\ \A i \in 1 .. l : s[i] = ms[i]
  BY AppendProperties, LenProperties
<1>2. \A i \in 1 .. Len(s) : i = l + 1 \/ i \in 1 .. l
  BY <1>1
<1> HIDE DEF l
<1>3. \A i \in 1 .. Len(s) : s[i] = m \/ i \in 1 .. l
  BY <1>1, <1>2
<1>4. Sided(ms) /\ OnSide(m.id, m.side) => Sided(s)
  BY <1>1, <1>3 DEF Sided, l
<1>5. \A x : Creates(s, x) => Creates(ms, x) \/ (m.type = "created" /\ m.id = x)
  BY <1>1, <1>3 DEF Creates, l
<1>6. ASSUME CreatesOnce(ms), m.type = "created" => ~Creates(ms, m.id),
             NEW i \in 1 .. Len(s), NEW j \in 1 .. Len(s), s[i].type = "created",
             s[j].type = "created", s[i].id = s[j].id
      PROVE  i = j
  <2>1. CASE i \in 1 .. l /\ j \in 1 .. l
    BY <1>1, <1>6, <2>1 DEF CreatesOnce, l
  <2>2. CASE i = l + 1 /\ j \in 1 .. l
    BY <1>1, <1>6, <2>2 DEF Creates, l
  <2>3. CASE j = l + 1 /\ i \in 1 .. l
    BY <1>1, <1>6, <2>3 DEF Creates, l
  <2> QED
    BY <1>2, <2>1, <2>2, <2>3
<1> QED
  BY <1>4, <1>5, <1>6 DEF CreatesOnce

LEMMA NumberedTells ==
  ASSUME NEW ms \in Seq(Messages), sent \in Nat, NEW n, n = Numbered(ms)
  PROVE  /\ Sided(ms) => Sided(n)
         /\ CreatesOnce(ms) => CreatesOnce(n)
         /\ \A x : Creates(n, x) <=> Creates(ms, x)
<1>1. Len(n) = Len(ms) /\ Len(ms) \in Nat /\ DOMAIN ms = 1 .. Len(ms)
      /\ \A i \in 1 .. Len(ms) : ms[i] \in Messages
  BY NumberedIs, LenProperties, ElementOfSeq
<1>2. ASSUME NEW i \in 1 .. Len(ms)
      PROVE  n[i].id = ms[i].id /\ n[i].side = ms[i].side /\ n[i].type = ms[i].type
  <2> DEFINE m == ms[i]
             e == sent + i
             p == sent + i - 1
  <2>1. m \in Messages
    BY <1>1
  <2>2. n[i] = [m EXCEPT !.eid = e, !.pre = p]
    BY <1>1 DEF Numbered
  <2> HIDE DEF m, e, p
  <2>3. n[i].id = m.id /\ n[i].side = m.side /\ n[i].type = m.type
    BY <2>1, <2>2 DEF Messages
  <2> QED
    BY <2>3 DEF m
<1>3. Sided(ms) => Sided(n)
  BY <1>1, <1>2 DEF Sided
<1>4. CreatesOnce(ms) => CreatesOnce(n)
  BY <1>1, <1>2 DEF CreatesOnce
<1>5. \A x : Creates(n, x) <=> Creates(ms, x)
  BY <1>1, <1>2 DEF Creates
<1> QED
  BY <1>3, <1>4, <1>5

\* What apps/stats tracks.
Table == stats.dec.live

SidesKept == Sided(outbox) /\ Sided(buffered) /\ KnowsSides(Table)

NewsIsNew ==
  /\ \A o \in unsent : /\ ~Creates(outbox, o.id) /\ ~Creates(buffered, o.id)
                       /\ Table[o.id].kind = "none"
  /\ CreatesOnce(outbox) /\ CreatesOnce(buffered)
  /\ \A x : ~(Creates(outbox, x) /\ Creates(buffered, x))
  /\ ~overlap => \A x \in Ids : Creates(outbox, x) \/ Creates(buffered, x) => Table[x].kind = "none"

StaysInStep == ~overlap => InStep(Table, stats.book)

BookInv == CaptureInv /\ SidesKept /\ NewsIsNew /\ StaysInStep

\* What is known of a capture under way.
LEMMA UnderWay ==
  ASSUME BookInv
  PROVE  /\ IsReader(stats) /\ outbox \in Seq(Messages) /\ buffered \in Seq(Messages) /\ sent \in Nat
         /\ VenueFits(venue, unsent) /\ \A o \in unsent : o \in Offers /\ o.id \in Ids
<1>1. CaptureInv
  BY DEF BookInv
<1>2. /\ IsReader(stats) /\ outbox \in Seq(Messages) /\ buffered \in Seq(Messages) /\ sent \in Nat
      /\ VenueFits(venue, unsent)
  BY <1>1 DEF CaptureInv, ReadSoFar, OnTheWay
<1> QED
  BY <1>2, OfferIs

\* The venue acts: its new order is news to everyone.
LEMMA VenueTells == BookInv /\ VenueActs => BookInv'
<1> SUFFICES ASSUME BookInv, VenueActs PROVE BookInv'
  OBVIOUS
<1>1. CaptureInv' /\ CaptureInv
  BY VenueKeeps DEF BookInv
<1>2. PICK book, ms : Publishes(book, ms)
  BY <1>1, VenuePublishes DEF CaptureInv
<1>3. /\ ms \in Seq(Messages) /\ News(ms) /\ outbox' = IF Connected THEN Numbered(ms) ELSE <<>>
      /\ buffered' = buffered /\ stats' = stats /\ overlap' = overlap
  BY <1>2 DEF Publishes, Publish, fileVars
<1>4. /\ Sided(ms) /\ CreatesOnce(ms) /\ unsent' \subseteq unsent
      /\ \A x : Creates(ms, x) => (\E o \in unsent : o.id = x) /\ \A u \in unsent' : u.id # x
  BY <1>3 DEF News
<1>5. Sided(outbox') /\ CreatesOnce(outbox') /\ \A x : Creates(outbox', x) => Creates(ms, x)
  <2>1. CASE Connected
    <3>1. outbox' = Numbered(ms) /\ sent \in Nat
      BY <1>3, <2>1, UnderWay
    <3> QED
      BY <1>3, <1>4, <3>1, NumberedTells
  <2>2. CASE ~Connected
    <3>1. outbox' = <<>>
      BY <1>3, <2>2
    <3> QED
      BY <3>1, NothingTells
  <2> QED
    BY <2>1, <2>2
<1>6. SidesKept'
  BY <1>3, <1>5 DEF BookInv, SidesKept, Table
<1>7. NewsIsNew'
  <2>1. NewsIsNew
    BY DEF BookInv
  <2> DEFINE T == Table
  <2>2. Table' = T
    BY <1>3 DEF Table
  <2> HIDE DEF T
  <2>3. ASSUME NEW o \in unsent'
        PROVE  ~Creates(outbox', o.id) /\ ~Creates(buffered', o.id) /\ T[o.id].kind = "none"
    BY <1>3, <1>4, <1>5, <2>1 DEF NewsIsNew, T
  <2>4. \A x : Creates(outbox', x) => ~Creates(buffered, x) /\ T[x].kind = "none"
    BY <1>4, <1>5, <2>1 DEF NewsIsNew, T
  <2>5. ~overlap => \A x \in Ids : Creates(buffered, x) => T[x].kind = "none"
    BY <2>1 DEF NewsIsNew, T
  <2>6. CreatesOnce(buffered)
    BY <2>1 DEF NewsIsNew
  <2> QED
    BY <1>3, <1>5, <2>2, <2>3, <2>4, <2>5, <2>6 DEF NewsIsNew
<1>8. StaysInStep'
  BY <1>3 DEF BookInv, StaysInStep, Table
<1> QED
  BY <1>1, <1>6, <1>7, <1>8 DEF BookInv

\* The message leaves the outbox for the buffer or the file, damaged or not.
LEMMA RecordTells ==
  ASSUME BookInv, CaptureInv', outbox # <<>>, outbox' = Tail(outbox), unsent' = unsent,
         overlap' = overlap, NEW m \in Messages, m.id = Head(outbox).id,
         m.side = Head(outbox).side, m.type = Head(outbox).type, Record(m)
  PROVE  BookInv'
<1>1. SidesKept /\ NewsIsNew /\ StaysInStep /\ CaptureInv
  BY DEF BookInv
<1>2. /\ Sided(outbox') /\ OnSide(m.id, m.side) /\ CreatesOnce(outbox')
      /\ m.type = "created" => ~Creates(outbox', m.id) /\ Creates(outbox, m.id)
      /\ \A x : Creates(outbox', x) => Creates(outbox, x)
  BY <1>1, UnderWay, TailTells DEF SidesKept, NewsIsNew
<1>3. m.id \in Ids
  BY MessageIs
<1>4. CASE phase = "subscribing"
  <2>1. buffered' = Append(buffered, m) /\ stats' = stats
    BY <1>4 DEF Record
  <2>2. /\ Sided(buffered') /\ CreatesOnce(buffered')
        /\ \A x : Creates(buffered', x) => Creates(buffered, x) \/ (m.type = "created" /\ m.id = x)
    BY <1>1, <1>2, <2>1, UnderWay, AppendTells DEF SidesKept, NewsIsNew
  <2>3. Table' = Table /\ stats'.book = stats.book
    BY <2>1 DEF Table
  <2>4. SidesKept'
    BY <1>1, <1>2, <2>2, <2>3 DEF SidesKept
  <2>5. NewsIsNew'
    BY <1>1, <1>2, <2>2, <2>3 DEF NewsIsNew
  <2>6. StaysInStep'
    BY <1>1, <2>3 DEF StaysInStep
  <2> QED
    BY <2>4, <2>5, <2>6 DEF BookInv
<1>5. CASE phase # "subscribing"
  <2>1. stats' = ReadLine(stats, m) /\ buffered' = buffered
    BY <1>5 DEF Record
  <2> DEFINE T == Table
             U == Table'
             b == stats.book
             c == stats'.book
  <2>2. /\ KnowsSides(U)
        /\ \A x \in Ids : U[x].kind # "none" => T[x].kind # "none" \/ (m.type = "created" /\ x = m.id)
        /\ InStep(T, b) /\ (m.type = "created" => T[m.id].kind = "none") => InStep(U, c)
    <3> DEFINE q == stats'
    <3>1. q = ReadLine(stats, m)
      BY <2>1
    <3> HIDE DEF q
    <3>2. /\ KnowsSides(q.dec.live)
          /\ \A x \in Ids : q.dec.live[x].kind # "none" =>
               stats.dec.live[x].kind # "none" \/ (m.type = "created" /\ x = m.id)
          /\ InStep(stats.dec.live, stats.book) /\ (m.type = "created" => stats.dec.live[m.id].kind = "none")
               => InStep(q.dec.live, q.book)
      BY <1>1, <1>2, <3>1, UnderWay, LineTracks DEF SidesKept, Table
    <3> QED
      BY <3>2, Zenon DEF Table, q
  <2>3. NewsIsNew /\ Table = T /\ Table' = U
    BY <1>1
  <2> HIDE DEF T, U, b, c
  <2>4. SidesKept'
    BY <1>1, <1>2, <2>1, <2>2, <2>3 DEF SidesKept
  <2>5. ASSUME NEW o \in unsent
        PROVE  ~Creates(outbox', o.id) /\ ~Creates(buffered', o.id) /\ U[o.id].kind = "none"
    <3>1. /\ ~Creates(outbox, o.id) /\ ~Creates(buffered, o.id) /\ T[o.id].kind = "none"
          /\ o.id \in Ids
      BY <2>3, UnderWay DEF NewsIsNew
    <3> QED
      BY <1>2, <2>1, <2>2, <3>1
  <2>6. ASSUME ~overlap, NEW x \in Ids, Creates(outbox', x) \/ Creates(buffered', x)
        PROVE  U[x].kind = "none"
    <3>1. T[x].kind = "none"
      BY <1>2, <2>1, <2>3, <2>6 DEF NewsIsNew
    <3>2. m.type = "created" => x # m.id
      BY <1>2, <2>1, <2>3, <2>6 DEF NewsIsNew
    <3> QED
      BY <2>2, <3>1, <3>2
  <2>7. NewsIsNew'
    <3>1. /\ CreatesOnce(outbox') /\ CreatesOnce(buffered')
          /\ \A x : ~(Creates(outbox', x) /\ Creates(buffered', x))
      BY <1>2, <2>1, <2>3 DEF NewsIsNew
    <3> QED
      BY <2>3, <2>5, <2>6, <3>1 DEF NewsIsNew
  <2>8. StaysInStep'
    <3>1. ~overlap => InStep(T, b)
      BY <1>1 DEF StaysInStep, T, b
    <3>2. ~overlap /\ m.type = "created" => T[m.id].kind = "none"
      BY <1>2, <1>3, <2>3 DEF NewsIsNew
    <3>3. ~overlap' => InStep(U, c)
      BY <2>2, <3>1, <3>2
    <3> QED
      BY <3>3 DEF StaysInStep, U, c
  <2> QED
    BY <2>4, <2>7, <2>8 DEF BookInv
<1> QED
  BY <1>4, <1>5

LEMMA DeliverTells == BookInv /\ Deliver => BookInv'
<1> SUFFICES ASSUME BookInv, Deliver PROVE BookInv'
  OBVIOUS
<1>1. /\ outbox # <<>> /\ outbox' = Tail(outbox) /\ Record(Head(outbox))
      /\ sent' = sent /\ unsent' = unsent /\ overlap' = overlap
  BY DEF Deliver
<1>2. Head(outbox) \in Messages /\ CaptureInv'
  BY <1>1, HeadIs, DeliverKeeps DEF BookInv, CaptureInv
<1> QED
  BY <1>1, <1>2, RecordTells

LEMMA DamagedTells == BookInv /\ DeliverDamaged => BookInv'
<1> SUFFICES ASSUME BookInv, DeliverDamaged PROVE BookInv'
  OBVIOUS
<1> DEFINE h == Head(outbox)
<1>1. PICK m \in Damaged(h) :
        /\ outbox # <<>> /\ outbox' = Tail(outbox) /\ Record(m)
        /\ sent' = sent /\ unsent' = unsent /\ overlap' = overlap
  BY DEF DeliverDamaged
<1>2. h \in Messages /\ CaptureInv'
  BY <1>1, HeadIs, DamagedKeeps DEF BookInv, CaptureInv
<1>3. m \in Messages /\ m.id = h.id /\ m.side = h.side /\ m.type = h.type
  <2> HIDE DEF h
  <2>1. m = [h EXCEPT !.readable = FALSE] \/ m = [h EXCEPT !.traded = NotSent]
    BY <1>1 DEF Damaged
  <2>2. \A c \in Int : LET d == [h EXCEPT !.traded = c]
                       IN d \in Messages /\ d.id = h.id /\ d.side = h.side /\ d.type = h.type
    BY <1>2 DEF Messages
  <2>3. LET d == [h EXCEPT !.readable = FALSE]
        IN d \in Messages /\ d.id = h.id /\ d.side = h.side /\ d.type = h.type
    BY <1>2 DEF Messages
  <2>4. NotSent \in Int
    BY DEF NotSent
  <2> QED
    BY <2>1, <2>2, <2>3, <2>4
<1> QED
  BY <1>1, <1>2, <1>3, RecordTells

\* Messages that never arrive tell nothing.
LEMMA LessTells ==
  ASSUME BookInv, CaptureInv', stats' = stats, unsent' = unsent, overlap' = overlap,
         NEW s, NEW t, outbox' = s, buffered' = t,
         s = outbox \/ s = <<>> \/ (outbox # <<>> /\ s = Tail(outbox)),
         t = buffered \/ t = <<>>
  PROVE  BookInv'
<1>1. SidesKept /\ NewsIsNew /\ StaysInStep /\ Table' = Table
  BY DEF BookInv, Table
<1>2. Sided(s) /\ CreatesOnce(s) /\ \A x : Creates(s, x) => Creates(outbox, x)
  <2>1. CASE s = outbox
    BY <1>1, <2>1 DEF SidesKept, NewsIsNew
  <2>2. CASE s = <<>>
    BY <2>2, NothingTells
  <2>3. CASE outbox # <<>> /\ s = Tail(outbox)
    BY <1>1, <2>3, UnderWay, TailTells DEF SidesKept, NewsIsNew
  <2> QED
    BY <2>1, <2>2, <2>3
<1>3. Sided(t) /\ CreatesOnce(t) /\ \A x : Creates(t, x) => Creates(buffered, x)
  BY <1>1, NothingTells DEF SidesKept, NewsIsNew
<1>4. SidesKept'
  BY <1>1, <1>2, <1>3 DEF SidesKept
<1>5. NewsIsNew'
  BY <1>1, <1>2, <1>3 DEF NewsIsNew
<1>6. StaysInStep'
  BY <1>1 DEF StaysInStep
<1> QED
  BY <1>4, <1>5, <1>6 DEF BookInv

LEMMA LoseTells == BookInv /\ Lose => BookInv'
<1> SUFFICES ASSUME BookInv, Lose PROVE BookInv'
  OBVIOUS
<1>1. CaptureInv'
  BY LoseKeeps DEF BookInv
<1>2. /\ outbox # <<>> /\ outbox' = Tail(outbox) /\ buffered' = buffered /\ stats' = stats
      /\ unsent' = unsent /\ overlap' = overlap
  BY DEF Lose, fileVars
<1> QED
  BY <1>1, <1>2, LessTells

LEMMA EndTells == BookInv /\ EndSession => BookInv'
<1> SUFFICES ASSUME BookInv, EndSession PROVE BookInv'
  OBVIOUS
<1>1. CaptureInv'
  BY EndKeeps DEF BookInv
<1>2. /\ outbox' = <<>> /\ buffered' = <<>> /\ stats' = stats /\ unsent' = unsent
      /\ overlap' = overlap
  BY DEF EndSession, fileVars
<1> QED
  BY <1>1, <1>2, LessTells

\* A snapshot that overlaps nothing tells of no order that what is buffered or on
\* its way creates.
LEMMA OverlapIs ==
  ASSUME BookInv, TakeSnapshot, ~overlap', NEW x, Names(SeededRows(venue), x)
  PROVE  ~overlap /\ ~Creates(outbox, x) /\ ~Creates(buffered, x)
<1> DEFINE rows == SeededRows(venue)
           all == buffered \o outbox
           ids == {row.id : row \in SX!ToSet(rows)}
           k == Len(buffered)
           l == Len(outbox)
<1>1. ~overlap /\ \A m \in SX!ToSet(all) : m.id \notin ids
  BY DEF TakeSnapshot
<1>2. IsList(rows) /\ DOMAIN rows = 1 .. Len(rows)
  BY UnderWay, SeededRowsAre, ListParts DEF VenueFits, IsSane, RowsFrom
<1>3. x \in ids
  BY <1>2 DEF Names, SX!ToSet
<1>4. /\ k \in Nat /\ l \in Nat /\ all \in Seq(Messages) /\ Len(all) = k + l
      /\ \A i \in 1 .. k : all[i] = buffered[i]
      /\ \A i \in 1 .. l : all[k + i] = outbox[i]
  <2>1. buffered \in Seq(Messages) /\ outbox \in Seq(Messages)
    BY UnderWay
  <2> QED
    BY <2>1, ConcatProperties, LenProperties
<1>5. DOMAIN all = 1 .. (k + l)
  BY <1>4, LenProperties
<1> HIDE DEF all, ids, k, l
<1>6. \A i \in 1 .. (k + l) : all[i].id # x
  BY <1>1, <1>3, <1>5 DEF SX!ToSet
<1>7. \A i \in 1 .. k : i \in 1 .. (k + l)
  BY <1>4
<1>8. \A i \in 1 .. l : k + i \in 1 .. (k + l)
  BY <1>4
<1>9. \A i \in 1 .. k : buffered[i].id # x
  BY <1>4, <1>6, <1>7
<1>10. \A i \in 1 .. l : outbox[i].id # x
  BY <1>4, <1>6, <1>8
<1> QED
  BY <1>1, <1>9, <1>10 DEF Creates, k, l

\* What is tracked after a snapshot was tracked before it or is one of its rows.
FromSnapshot(T, r) ==
  /\ IsReader(r) /\ KnowsSides(r.dec.live)
  /\ \A x \in Ids : r.dec.live[x].kind # "none" =>
       T[x].kind # "none" \/ (x \in LiveOrders(venue) /\ Names(SeededRows(venue), x))

LEMMA SeedTells ==
  ASSUME VenueFits(venue, unsent), NEW d, IsDecoder(d), d.live = [x \in Ids |-> Untracked],
         NEW r, IsReader(r), NEW s, s = LoadSnapshot(d, venue), r.dec = s.dec,
         r.book = AllApplied(RefEmpty, s.out), NEW T
  PROVE  FromSnapshot(T, r) /\ InStep(r.dec.live, r.book)
<1>1. /\ InStep(r.dec.live, r.book)
      /\ \A x \in Ids : r.dec.live[x].kind # "none" =>
           /\ x \in LiveOrders(venue) /\ r.dec.live[x].side = Where(venue, x)[1]
           /\ Names(SeededRows(venue), x)
  BY SeededInStep DEF VenueFits
<1>2. KnowsSides(r.dec.live)
  BY <1>1 DEF KnowsSides, VenueFits
<1> QED
  BY <1>1, <1>2 DEF FromSnapshot

\* The decoder is reset and seeded, or it is left as it was.
LEMMA MarkerTells ==
  ASSUME BookInv, NEW readable \in BOOLEAN, NEW before,
         before = IF markers = 0 THEN Opened(venue) ELSE stats,
         NEW r, r = ReadMarker(before, venue, readable)
  PROVE  FromSnapshot(Table, r) /\ (~overlap => InStep(r.dec.live, r.book))
<1>1. /\ VenueFits(venue, unsent) /\ IsSound(venue) /\ IsReader(stats)
      /\ SidesKept /\ StaysInStep
  BY UnderWay DEF VenueFits, IsSane, BookInv
<1>2. IsReader(before) /\ FromSnapshot(Table, before) /\ (~overlap => InStep(before.dec.live, before.book))
  <2>1. CASE markers = 0
    <3>1. before = Opened(venue)
      BY <2>1
    <3>2. /\ IsReader(before) /\ before.dec = LoadSnapshot(NewDecoder, venue).dec
          /\ before.book = AllApplied(RefEmpty, LoadSnapshot(NewDecoder, venue).out)
      BY <1>1, <3>1, OpenedIs
    <3> QED
      BY <1>1, <3>2, NewDecoderIs, SeedTells
  <2>2. CASE markers # 0
    <3>1. before = stats
      BY <2>2
    <3> QED
      BY <1>1, <3>1 DEF FromSnapshot, SidesKept, StaysInStep, Table
  <2> QED
    BY <2>1, <2>2
<1> DEFINE d == ResetSession(before.dec)
           s == LoadSnapshot(d, venue)
<1>3. IsReader(r) /\ (r = before \/ (r.dec = s.dec /\ r.book = AllApplied(RefEmpty, s.out)))
  BY <1>1, <1>2, ReadMarkerIs
<1>4. IsDecoder(d) /\ d.live = [x \in Ids |-> Untracked]
  BY <1>2, ResetIs DEF IsReader
<1> HIDE DEF d
<1>5. CASE r = before
  BY <1>2, <1>5
<1>6. CASE r.dec = s.dec /\ r.book = AllApplied(RefEmpty, s.out)
  BY <1>1, <1>3, <1>4, <1>6, SeedTells
<1> QED
  BY <1>3, <1>5, <1>6

LEMMA SnapshotTells == BookInv /\ TakeSnapshot => BookInv'
<1> SUFFICES ASSUME BookInv, TakeSnapshot PROVE BookInv'
  OBVIOUS
<1> DEFINE before == IF markers = 0 THEN Opened(venue) ELSE stats
           read(readable) == ReadMarker(before, venue, readable)
<1>1. PICK readable \in BOOLEAN : stats' = SX!FoldLeft(ReadLine, read(readable), buffered)
  BY Zenon DEF TakeSnapshot
<1>2. CaptureInv' /\ SidesKept /\ NewsIsNew /\ buffered \in Seq(Messages)
  BY SnapshotKeeps, UnderWay DEF BookInv
<1>3. buffered' = <<>> /\ outbox' = outbox /\ unsent' = unsent /\ (~overlap' => ~overlap)
  BY DEF TakeSnapshot, venueVars
<1>4. PICK r : r = read(readable)
  OBVIOUS
<1>5. FromSnapshot(Table, r) /\ (~overlap => InStep(r.dec.live, r.book))
  <2>1. r = ReadMarker(before, venue, readable)
    BY <1>4
  <2> HIDE DEF before
  <2>2. before = IF markers = 0 THEN Opened(venue) ELSE stats
    BY DEF before
  <2> QED
    BY <2>1, <2>2, MarkerTells
<1>6. stats' = SX!FoldLeft(ReadLine, r, buffered)
  BY <1>1, <1>4, Zenon
<1> DEFINE q == stats'
           R == r.dec.live
           U == q.dec.live
<1>7. /\ KnowsSides(U)
      /\ \A x \in Ids : U[x].kind # "none" => R[x].kind # "none" \/ Creates(buffered, x)
      /\ InStep(R, r.book) /\ (\A x \in Ids : Creates(buffered, x) => R[x].kind = "none")
           => InStep(U, q.book)
  <2>1. q = SX!FoldLeft(ReadLine, r, buffered)
    BY <1>6
  <2>2. IsReader(r) /\ KnowsSides(r.dec.live) /\ Sided(buffered) /\ CreatesOnce(buffered)
    BY <1>2, <1>5 DEF FromSnapshot, SidesKept, NewsIsNew
  <2> HIDE DEF q
  <2> QED
    BY <1>2, <2>1, <2>2, LinesTrack
<1>8. \A x \in Ids : R[x].kind # "none" =>
        Table[x].kind # "none" \/ (x \in LiveOrders(venue) /\ Names(SeededRows(venue), x))
  BY <1>5 DEF FromSnapshot
<1>9. Table' = U
  BY DEF Table
<1> HIDE DEF q, R, U
<1>10. ASSUME ~overlap', NEW x \in Ids, Creates(outbox, x) \/ Creates(buffered, x)
       PROVE  R[x].kind = "none"
  <2>1. ~Names(SeededRows(venue), x)
    BY <1>10, OverlapIs
  <2>2. Table[x].kind = "none"
    BY <1>2, <1>3, <1>10 DEF NewsIsNew
  <2> QED
    BY <1>8, <2>1, <2>2
<1>11. Sided(buffered') /\ CreatesOnce(buffered') /\ \A x : ~Creates(buffered', x)
  BY <1>3, NothingTells
<1>12. SidesKept'
  BY <1>2, <1>3, <1>7, <1>9, <1>11 DEF SidesKept
<1>13. NewsIsNew'
  <2>1. ASSUME NEW o \in unsent PROVE ~Creates(outbox, o.id) /\ U[o.id].kind = "none"
    <3>1. /\ ~Creates(outbox, o.id) /\ ~Creates(buffered, o.id) /\ Table[o.id].kind = "none"
          /\ o.id \in Ids /\ o.id \notin LiveOrders(venue)
      BY <1>2, UnderWay DEF NewsIsNew, VenueFits
    <3> QED
      BY <1>7, <1>8, <3>1
  <2>2. ASSUME ~overlap', NEW x \in Ids, Creates(outbox, x) PROVE U[x].kind = "none"
    <3>1. R[x].kind = "none" /\ ~Creates(buffered, x)
      BY <1>2, <1>10, <2>2 DEF NewsIsNew
    <3> QED
      BY <1>7, <3>1
  <2>3. CreatesOnce(outbox)
    BY <1>2 DEF NewsIsNew
  <2> QED
    BY <1>3, <1>9, <1>11, <2>1, <2>2, <2>3 DEF NewsIsNew
<1>14. StaysInStep'
  <2>1. ~overlap' => InStep(U, q.book)
    BY <1>3, <1>5, <1>7, <1>10 DEF R
  <2> QED
    BY <1>9, <2>1 DEF StaysInStep, q
<1> QED
  BY <1>2, <1>12, <1>13, <1>14 DEF BookInv

\* A capture starts with nothing known.
LEMMA BookStarts == CaptureInit => BookInv
<1> SUFFICES ASSUME CaptureInit PROVE BookInv
  OBVIOUS
<1>1. CaptureInv
  BY CaptureStarts
<1>2. /\ venue = RefEmpty /\ stats = Opened(RefEmpty) /\ outbox = <<>> /\ buffered = <<>>
  BY DEF CaptureInit
<1>3. VenueFits(venue, unsent) /\ IsSound(venue) /\ LiveOrders(venue) = {}
  <2>1. VenueFits(venue, unsent)
    BY <1>1 DEF CaptureInv
  <2>2. LiveOrders(venue) = {}
    BY <1>2 DEF LiveOrders, Known, IsAt, IdsIn, RefEmpty
  <2> QED
    BY <2>1, <2>2 DEF VenueFits, IsSane
<1>4. /\ IsReader(stats) /\ stats.dec = LoadSnapshot(NewDecoder, venue).dec
      /\ stats.book = AllApplied(RefEmpty, LoadSnapshot(NewDecoder, venue).out)
  BY <1>2, <1>3, OpenedIs
<1>5. InStep(Table, stats.book) /\ \A x \in Ids : Table[x].kind = "none"
  <2>1. \A x \in Ids : stats.dec.live[x].kind # "none" => x \in LiveOrders(venue)
    BY <1>3, <1>4, NewDecoderIs, SeededInStep DEF VenueFits
  <2>2. InStep(stats.dec.live, stats.book)
    BY <1>3, <1>4, NewDecoderIs, SeededInStep DEF VenueFits
  <2> QED
    BY <1>3, <2>1, <2>2 DEF Table
<1>6. /\ Sided(outbox) /\ CreatesOnce(outbox) /\ \A x : ~Creates(outbox, x)
      /\ Sided(buffered) /\ CreatesOnce(buffered) /\ \A x : ~Creates(buffered, x)
  BY <1>2, NothingTells
<1>7. SidesKept
  BY <1>5, <1>6 DEF SidesKept, KnowsSides
<1>8. NewsIsNew
  <2>1. \A o \in unsent : o.id \in Ids
    BY <1>3, OfferIs
  <2> QED
    BY <1>5, <1>6, <2>1 DEF NewsIsNew
<1>9. StaysInStep
  BY <1>5 DEF StaysInStep
<1> QED
  BY <1>1, <1>7, <1>8, <1>9 DEF BookInv

LEMMA BookStep == BookInv /\ [CaptureNext]_cvars => BookInv'
<1> SUFFICES ASSUME BookInv, [CaptureNext]_cvars PROVE BookInv'
  OBVIOUS
<1>1. CASE VenueActs
  BY <1>1, VenueTells
<1>2. CASE Deliver
  BY <1>2, DeliverTells
<1>3. CASE DeliverDamaged
  BY <1>3, DamagedTells
<1>4. CASE Lose
  BY <1>4, LoseTells
<1>5. CASE TakeSnapshot
  BY <1>5, SnapshotTells
<1>6. CASE EndSession
  BY <1>6, EndTells
<1>7. CaptureInv'
  BY CaptureStep DEF BookInv
<1>8. CASE Loop \/ Interrupted \/ UNCHANGED cvars
  <2>1. /\ outbox' = outbox /\ buffered' = buffered /\ stats' = stats /\ unsent' = unsent
        /\ overlap' = overlap
    BY <1>8 DEF Loop, Interrupted, cvars, venueVars, fileVars
  <2> QED
    BY <1>7, <2>1, LessTells
<1> QED
  BY <1>1, <1>2, <1>3, <1>4, <1>5, <1>6, <1>8 DEF CaptureNext, RecorderActs

\* What the decoder tracks stays in step with the book it feeds.
THEOREM BookInvHolds == CaptureSpec => []BookInv
<1>1. CaptureInit => BookInv
  BY BookStarts
<1>2. BookInv /\ [CaptureNext]_cvars => BookInv'
  BY BookStep
<1> QED
  BY <1>1, <1>2, PTL DEF CaptureSpec

\* As long as no snapshot has overlapped the messages read after it, every order
\* the decoder holds as resting is in the book at the side, price and size it has
\* for it, and no other order is: whatever is lost or damaged on the way
\* (include/lob/feed/bitstamp.hpp:237).
THEOREM BeliefIsTheBookHolds == CaptureSpec => []BeliefIsTheBook
<1>1. BookInv => BeliefIsTheBook
  <2> SUFFICES ASSUME BookInv, ~overlap, NEW id \in Ids
               PROVE  LET st == stats.dec.live[id]
                      IN IF st.kind = "resting" /\ st.left > 0
                         THEN /\ IsAt(stats.book, id, st.side, st.price)
                              /\ QtyOf(stats.book, id) = st.left
                         ELSE ~Known(stats.book, id)
    BY Zenon DEF BeliefIsTheBook
  <2> DEFINE st == stats.dec.live[id]
             b == stats.book
  <2>1. IsSound(b) /\ Tells(st, id, b)
    BY DEF BookInv, StaysInStep, InStep, IsSane, Table
  <2> HIDE DEF st, b
  <2>2. CASE st.kind = "resting"
    <3>1. /\ id \in LiveOrders(b) /\ Where(b, id) = <<st.side, st.price>>
          /\ QtyOf(b, id) = st.left /\ st.left \in Nat \ {0}
      BY <2>1, <2>2 DEF Tells, Holds
    <3>2. IsAt(b, id, st.side, st.price)
      <4> DEFINE sd == st.side
                 p == st.price
      <4>1. Where(b, id)[1] = sd /\ Where(b, id)[2] = p
        BY <3>1
      <4> HIDE DEF sd, p
      <4>2. PICK i : Rests(b, id, sd, p, i)
        BY <2>1, <3>1, <4>1, LiveIs, KnownRests
      <4>3. DOMAIN b[sd][p] = 1 .. Len(b[sd][p])
        BY <2>1, <4>2, QueueIs, LenProperties DEF Rests, IsSound
      <4> QED
        BY <4>2, <4>3 DEF Rests, IsAt, IdsIn, sd, p
    <3>3. st.left > 0
      BY <3>1
    <3> QED
      BY <2>2, <3>1, <3>2, <3>3 DEF st, b
  <2>3. CASE st.kind # "resting"
    <3>1. ~Known(b, id)
      BY <2>1, <2>3, LiveIs DEF Tells
    <3> QED
      BY <2>3, <3>1 DEF st, b
  <2> QED
    BY <2>2, <2>3
<1> QED
  BY <1>1, BookInvHolds, PTL
=============================================================================
