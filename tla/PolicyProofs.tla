---------------------------- MODULE PolicyProofs ----------------------------
(***************************************************************************)
(* Theorems about Solver and PolicyTable, for any size of the table, any   *)
(* budget of sweeps and any history of solves, saves, damaged files and    *)
(* loads; and about TabulatedPolicy, for any prices, sizes and depth, with *)
(* latency or without: the place in a queue it estimates from the sizes    *)
(* shown is better than the true one by no more than what joined the price *)
(* while the order and the pictures were on their way.                     *)
(***************************************************************************)
EXTENDS PolicyTable, TabulatedPolicy, SequenceTheorems, WellFoundedInduction,
        TLAPS

-----------------------------------------------------------------------------
(***************************************************************************)
(* The solver and the table's file.                                        *)
(***************************************************************************)
\* The inductive invariant.  While the solver runs it has no verdict, so a
\* verdict of converged is that of the sweep that chose the policy; and the
\* file is the beginning of a shipped table, or one that load refuses.
SolverInv ==
  /\ sweeps \in Nat /\ sweeps <= MaxSweeps
  /\ stage \in {"improve", "evaluate", "done"}
  /\ stage # "done" => verdict = "none"
  /\ ShipsItsPolicy

Part(n, k) == SubSeq(Items(OurShape, n, n), 1, k)

Written == {Part(n, k) : n \in shipped, k \in 0 .. 2 * TableSize + 1}
Foreign == {Items(shape, n, n) : shape \in OtherShapes, n \in Nat}
Damaged == {Items(OurShape, Outside, n) : n \in Nat} \cup {<<[header |-> NoHeader]>>, Absent}

HistoryInv ==
  /\ solves \in Nat
  /\ shipped \subseteq Nat
  /\ tfile \in Written \cup Foreign \cup Damaged
  /\ table = Empty \/ \E n \in shipped : table = Loaded(n)

TableInv == SolverInv /\ HistoryInv

-----------------------------------------------------------------------------
\* The solver's own steps: a sweep is taken only inside the budget, and the
\* verdict is given by the improvement that chose the policy.
LEMMA SolverKeepsInv ==
  ASSUME SolverInv, SolverNext
  PROVE  SolverInv'
<1> USE MaxSweepsAssumption DEF SolverInv, ShipsItsPolicy
<1>1. CASE Improve
  BY <1>1 DEF Improve
<1>2. CASE Evaluate
  BY <1>2 DEF Evaluate, MayEvaluate
<1>3. CASE GiveUp
  BY <1>3 DEF GiveUp
<1> QED
  BY <1>1, <1>2, <1>3 DEF SolverNext

-----------------------------------------------------------------------------
\* What a file that was cut short holds: its first items.
LEMMA PartOfFile ==
  ASSUME NEW n \in Nat, NEW k \in 0 .. 2 * TableSize + 1
  PROVE  Part(n, k) = [i \in 1 .. k |-> Items(OurShape, n, n)[i]]
<1> DEFINE f == Items(OurShape, n, n)
           S == {f[i] : i \in 1 .. 2 * TableSize + 1}
<1>1. k \in Int /\ \A i \in 1 .. k : f[i] \in S
  BY TableSizeAssumption
<1>2. /\ SubSeq(f, 1, k) \in Seq(S)
      /\ Len(SubSeq(f, 1, k)) = IF 1 <= k THEN k - 1 + 1 ELSE 0
      /\ \A i \in 1 .. k - 1 + 1 : SubSeq(f, 1, k)[i] = f[1 + i - 1]
  <2> HIDE DEF f, S
  <2>1. 1 \in Int /\ k \in Int /\ \A i \in 1 .. k : f[i] \in S
    BY <1>1
  <2> QED
    BY <2>1, SubSeqProperties
<1> HIDE DEF S, f
<1>3. /\ SubSeq(f, 1, k) = [i \in 1 .. k |-> SubSeq(f, 1, k)[i]]
      /\ \A i \in 1 .. k : SubSeq(f, 1, k)[i] = f[i]
  BY <1>2
<1>4. Part(n, k) = [i \in 1 .. k |-> f[i]]
  BY <1>3, Zenon DEF Part, f
<1> QED
  BY <1>4 DEF f

\* A part of a shipped table is taken whole, or leaves nothing.
LEMMA LoadsWholeOrNothing ==
  ASSUME NEW t, t = Empty \/ \E m \in Nat : t = Loaded(m),
         NEW n \in Nat, NEW k \in 0 .. 2 * TableSize + 1
  PROVE  Load(t, Part(n, k)) \in {Empty, Loaded(n)}
<1> DEFINE f == Part(n, k)
<1>1. f = [i \in 1 .. k |-> Items(OurShape, n, n)[i]]
  BY PartOfFile
<1>2. Len(f) = k
  BY <1>1, TableSizeAssumption
<1>3. CASE k < 2 * TableSize + 1
  BY <1>2, <1>3 DEF Load, Fail
<1>4. CASE k = 2 * TableSize + 1
  <2>1. f # Absent
    BY <1>1, <1>4, TableSizeAssumption DEF Absent
  <2>2. f[1].header = HeaderOf(OurShape, n)
    BY <1>1, <1>4, TableSizeAssumption DEF Items
  <2>3. f[1].header.known /\ f[1].header.shape = OurShape
    BY <2>2 DEF HeaderOf
  <2>4. \A i \in 1 .. TableSize : Body(f)[i].action = n /\ Body(f)[TableSize + i].value = n
    BY <1>1, <1>4, TableSizeAssumption DEF Body, Items
  <2> DEFINE actions == [i \in 1 .. TableSize |-> Body(f)[i].action]
             values == [i \in 1 .. TableSize |-> Body(f)[TableSize + i].value]
  <2>5. actions = [i \in 1 .. TableSize |-> n] /\ values = [i \in 1 .. TableSize |-> n]
    BY <2>4
  <2>6. Outside \notin PX!ToSet(actions)
    BY <2>5 DEF Outside, PX!ToSet
  <2>7. [header |-> f[1].header, actions |-> actions, values |-> values] = Loaded(n)
    <3> HIDE DEF actions, values, f
    <3> QED
      BY <2>2, <2>5 DEF Loaded
  <2>8. Load(t, f) = Loaded(n)
    <3>1. ~(Len(f) < 2 * TableSize + 1)
      BY <1>2, <1>4, TableSizeAssumption
    <3> HIDE DEF f
    <3>2. Load(t, f) = [header |-> f[1].header, actions |-> actions, values |-> values]
      BY <2>1, <2>3, <2>6, <3>1, Zenon DEF Load
    <3> QED
      BY <2>7, <3>2, Zenon
  <2> QED
    BY <2>8
<1> QED
  BY <1>3, <1>4, TableSizeAssumption

\* A table of another build is refused at its header.
LEMMA RefusesForeign ==
  ASSUME NEW t, NEW f \in Foreign
  PROVE  Load(t, f) = Empty
<1>1. PICK shape \in OtherShapes, n \in Nat : f = Items(shape, n, n)
  BY DEF Foreign
<1>2. f[1].header.shape = shape
  BY <1>1, TableSizeAssumption DEF Items, HeaderOf
<1> QED
  BY <1>2, ShapesAssumption DEF Load, Fail

\* An unknown header, no file at all, and a body with an action outside the
\* action set are refused.
LEMMA RefusesDamaged ==
  ASSUME NEW t, t = Empty \/ \E m \in Nat : t = Loaded(m), NEW f \in Damaged
  PROVE  Load(t, f) = Empty
<1>1. CASE f = Absent
  BY <1>1 DEF Load, Fail
<1>2. CASE f = <<[header |-> NoHeader]>>
  BY <1>2 DEF Load, Fail, NoHeader
<1>3. CASE \E n \in Nat : f = Items(OurShape, Outside, n)
  <2>1. PICK n \in Nat : f = Items(OurShape, Outside, n)
    BY <1>3
  <2>2. Body(f)[1].action = Outside
    BY <2>1, TableSizeAssumption DEF Body, Items
  <2>3. Outside \in PX!ToSet([i \in 1 .. TableSize |-> Body(f)[i].action])
    BY <2>2, TableSizeAssumption DEF PX!ToSet
  <2> QED
    BY <2>3 DEF Load, Fail
<1> QED
  BY <1>1, <1>2, <1>3 DEF Damaged

-----------------------------------------------------------------------------
\* Loading keeps the history: the table is empty or a shipped one.
LEMMA LoadKeepsInv ==
  ASSUME HistoryInv, LoadTable
  PROVE  HistoryInv'
<1>1. table = Empty \/ \E m \in Nat : table = Loaded(m)
  BY DEF HistoryInv
<1>2. CASE tfile \in Written
  <2>1. PICK n \in shipped, k \in 0 .. 2 * TableSize + 1 : tfile = Part(n, k)
    BY <1>2 DEF Written
  <2>2. Load(table, tfile) \in {Empty, Loaded(n)}
    BY <1>1, <2>1, LoadsWholeOrNothing DEF HistoryInv
  <2> QED
    BY <2>1, <2>2 DEF HistoryInv, LoadTable, Written
<1>3. CASE tfile \in Foreign \cup Damaged
  <2>1. Load(table, tfile) = Empty
    BY <1>1, <1>3, RefusesForeign, RefusesDamaged
  <2> QED
    BY <2>1 DEF HistoryInv, LoadTable, Written
<1> QED
  BY <1>2, <1>3 DEF HistoryInv

\* Saving writes some beginning of the table of a solve that has converged.
LEMMA SaveKeepsInv ==
  ASSUME HistoryInv, SaveTable
  PROVE  HistoryInv'
<1>1. PICK k \in 0 .. 2 * TableSize + 1 : tfile' = Part(solves, k)
  BY DEF SaveTable, Part
<1>2. shipped' = shipped \cup {solves} /\ UNCHANGED <<solves, table>>
  BY DEF SaveTable
<1>3. tfile' \in Written'
  BY <1>1, <1>2 DEF Written
<1> QED
  BY <1>2, <1>3 DEF HistoryInv

LEMMA InvInit == TableInit => TableInv
  BY MaxSweepsAssumption
  DEF TableInit, TableInv, SolverInit, SolverInv, ShipsItsPolicy, HistoryInv, Damaged

LEMMA InvKept == TableInv /\ [TableNext]_tvars => TableInv'
<1> SUFFICES ASSUME TableInv, [TableNext]_tvars PROVE TableInv'
  OBVIOUS
<1>1. CASE Solving
  <2>1. SolverInv'
    BY <1>1, SolverKeepsInv DEF Solving, TableInv
  <2>2. HistoryInv'
    BY <1>1 DEF Solving, TableInv, HistoryInv, Written
  <2> QED
    BY <2>1, <2>2 DEF TableInv
<1>2. CASE SolveAgain
  <2>1. SolverInv'
    BY <1>2, MaxSweepsAssumption DEF SolveAgain, TableInv, SolverInv, ShipsItsPolicy
  <2>2. HistoryInv'
    BY <1>2 DEF SolveAgain, TableInv, HistoryInv, Written
  <2> QED
    BY <2>1, <2>2 DEF TableInv
<1>3. CASE SaveTable
  <2>1. SolverInv'
    BY <1>3 DEF SaveTable, svars, TableInv, SolverInv, ShipsItsPolicy
  <2> QED
    BY <1>3, <2>1, SaveKeepsInv DEF TableInv
<1>4. CASE Replaced
  <2>1. SolverInv'
    BY <1>4 DEF Replaced, svars, TableInv, SolverInv, ShipsItsPolicy
  <2>2. tfile' \in Foreign \cup Damaged
    BY <1>4 DEF Replaced, TableInv, HistoryInv, Foreign, Damaged
  <2> QED
    BY <1>4, <2>1, <2>2 DEF Replaced, TableInv, HistoryInv
<1>5. CASE LoadTable
  <2>1. SolverInv'
    BY <1>5 DEF LoadTable, svars, TableInv, SolverInv, ShipsItsPolicy
  <2> QED
    BY <1>5, <2>1, LoadKeepsInv DEF TableInv
<1>6. CASE UNCHANGED tvars
  BY <1>6 DEF tvars, svars, TableInv, SolverInv, ShipsItsPolicy, HistoryInv, Written
<1> QED
  BY <1>1, <1>2, <1>3, <1>4, <1>5, <1>6 DEF TableNext

-----------------------------------------------------------------------------
\* The invariant holds in every reachable state.
THEOREM TableInvHolds == TableSpec => []TableInv
  BY InvInit, InvKept, PTL DEF TableSpec

\* Improvements and evaluations together never take more sweeps than solve was
\* given (src/mdp.cpp:381).
THEOREM BudgetIsKept == TableSpec => []KeepsItsBudget
<1>1. TableInv => KeepsItsBudget
  BY DEF TableInv, SolverInv, KeepsItsBudget
<1> QED
  BY <1>1, TableInvHolds, PTL

\* Whatever became of the file, the strategy's table is empty or the whole of
\* one that a converged solve shipped (src/policy_table.cpp:49).
THEOREM TableIsOneSolvesHolds == TableSpec => []TableIsOneSolves
<1>1. TableInv => TableIsOneSolves
  BY DEF TableInv, SolverInv, HistoryInv, TableIsOneSolves
<1> QED
  BY <1>1, TableInvHolds, PTL

-----------------------------------------------------------------------------
(***************************************************************************)
(* The estimate of a place in the queue.                                   *)
(***************************************************************************)
\* A set of naturals has a least one.
LEMMA LeastExists ==
  ASSUME NEW S \in SUBSET Nat, S # {}
  PROVE  \E n \in S : \A m \in S : n <= m
<1>1. PICK n \in S : \A m \in S : ~(<<m, n>> \in OpToRel(<, Nat))
  BY WFMin, NatLessThanWellFounded
<1> SUFFICES ASSUME NEW m \in S PROVE n <= m
  BY <1>1
<1>2. <<m, n>> \notin OpToRel(<, Nat)
  BY <1>1
<1>3. ~(m < n)
  BY <1>2 DEF OpToRel
<1> QED
  BY <1>3

-----------------------------------------------------------------------------
(***************************************************************************)
(* The sum of a sequence of sizes.                                         *)
(***************************************************************************)
Highest(S) == TX!Max(S)

\* The highest of some indices up to n.
LEMMA HighestIndex ==
  ASSUME NEW n \in Nat, NEW s \in SUBSET (1 .. n), s # {}
  PROVE  /\ Highest(s) \in s /\ \A y \in s : y <= Highest(s)
         /\ n \in s => Highest(s) = n
<1> DEFINE U == {k \in Nat : n - k \in s}
<1>1. U # {} /\ \A y \in s : n - y \in U
  <2>1. \A y \in s : n - y \in Nat /\ n - (n - y) = y
    OBVIOUS
  <2> QED
    BY <2>1
<1>2. PICK k \in U : \A j \in U : k <= j
  BY <1>1, LeastExists
<1>3. n - k \in s /\ \A y \in s : n - k >= y
  BY <1>1, <1>2
<1>4. Highest(s) \in s /\ \A y \in s : Highest(s) >= y
  BY <1>3 DEF Highest, TX!Max
<1>5. Highest(s) \in 1 .. n /\ \A y \in s : y \in 1 .. n
  BY <1>4
<1> QED
  BY <1>4, <1>5

\* g is the sum over every set of indices up to k.
SumsTo(q, n, g, k) ==
  /\ g = [r \in SUBSET (1 .. n) |-> g[r]]
  /\ \A r \in SUBSET (1 .. k) :
       g[r] = IF r = {} THEN 0 ELSE g[r \ {Highest(r)}] + q[Highest(r)]

\* Such a sum exists: if not, take the least k up to which it does not.
LEMMA SumsExist ==
  ASSUME NEW q, NEW n \in Nat
  PROVE  \E g : SumsTo(q, n, g, n)
<1> DEFINE Bad == {k \in 0 .. n : ~\E g : SumsTo(q, n, g, k)}
<1> SUFFICES ASSUME Bad # {} PROVE FALSE
  OBVIOUS
<1>1. PICK m \in Bad : \A k \in Bad : m <= k
  <2>1. Bad \in SUBSET Nat
    OBVIOUS
  <2> QED
    BY <2>1, LeastExists
<1>2. m # 0
  <2> DEFINE g == [r \in SUBSET (1 .. n) |-> 0]
  <2>1. \A r \in SUBSET (1 .. 0) : r = {} /\ r \in SUBSET (1 .. n)
    OBVIOUS
  <2>2. g = [r \in SUBSET (1 .. n) |-> g[r]] /\ g[{}] = 0
    OBVIOUS
  <2> HIDE DEF g
  <2>3. SumsTo(q, n, g, 0)
    BY <2>1, <2>2 DEF SumsTo
  <2> QED
    BY <1>1, <2>3
<1>3. m \in 1 .. n /\ m - 1 \in 0 .. n /\ m - 1 \notin Bad
  BY <1>1, <1>2
<1>4. PICK g : SumsTo(q, n, g, m - 1)
  BY <1>3
<1> DEFINE h == [r \in SUBSET (1 .. n) |-> IF m \in r THEN g[r \ {m}] + q[m] ELSE g[r]]
<1>5. ASSUME NEW r \in SUBSET (1 .. m)
      PROVE  h[r] = IF r = {} THEN 0 ELSE h[r \ {Highest(r)}] + q[Highest(r)]
  <2>1. r \in SUBSET (1 .. n) /\ r \ {Highest(r)} \in SUBSET (1 .. n) /\ m \in Nat
    <3>1. \A y \in 1 .. m : y \in 1 .. n
      BY <1>3
    <3>2. m \in Nat
      BY <1>3
    <3> QED
      BY <3>1, <3>2
  <2>2. CASE m \in r
    <3>1. Highest(r) = m /\ m \notin r \ {m}
      BY <2>1, <2>2, HighestIndex
    <3> QED
      BY <2>1, <2>2, <3>1
  <2>3. CASE m \notin r
    <3>1. r \in SUBSET (1 .. m - 1)
      BY <1>3, <2>3
    <3>2. h[r] = g[r] /\ h[r \ {Highest(r)}] = g[r \ {Highest(r)}]
      BY <2>1, <2>3
    <3> HIDE DEF h
    <3> QED
      BY <1>4, <3>1, <3>2 DEF SumsTo
  <2> QED
    BY <2>2, <2>3
<1>6. SumsTo(q, n, h, m)
  <2>1. h = [r \in SUBSET (1 .. n) |-> h[r]]
    OBVIOUS
  <2> HIDE DEF h
  <2> QED
    BY <1>5, <2>1 DEF SumsTo
<1> QED
  BY <1>1, <1>6

\* w holds the sums of the beginnings of q, n naturals.
Adds(q, n, w) ==
  /\ w[0] = 0
  /\ \A k \in 1 .. n : w[k] = w[k - 1] + q[k] /\ q[k] \in Nat
  /\ \A k \in 0 .. n : w[k] \in Nat

LEMMA SizesAdd ==
  ASSUME NEW q \in Seq(Nat)
  PROVE  \E w : Adds(q, Len(q), w) /\ SizesIn(q) = w[Len(q)]
<1> DEFINE n == Len(q)
           Folds(g) == g = [r \in SUBSET (1 .. n) |->
                              IF r = {} THEN 0 ELSE g[r \ {Highest(r)}] + q[Highest(r)]]
           f == CHOOSE g : Folds(g)
<1>0. n \in Nat
  BY LenProperties
<1>1. n \in Nat /\ DOMAIN q = 1 .. n /\ \A i \in 1 .. n : q[i] \in Nat
  BY LenProperties, ElementOfSeq
<1>2. SizesIn(q) = f[1 .. n]
  BY <1>1, Zenon DEF SizesIn, TX!FoldLeft, TX!MapThenFoldSet, Highest
<1> HIDE DEF n
<1>4. \E g : Folds(g)
  <2>1. PICK g : SumsTo(q, n, g, n)
    BY <1>1, SumsExist
  <2>2. Folds(g)
    BY <2>1 DEF SumsTo
  <2> QED
    BY <2>2
<1>5. Folds(f)
  BY <1>4, Zenon
<1> HIDE DEF f
<1> DEFINE w == [k \in 0 .. n |-> f[1 .. k]]
<1>6. w[n] = f[1 .. n]
  BY <1>1
<1>7. w[0] = 0
  <2>1. 1 .. 0 = {} /\ {} \in SUBSET (1 .. n)
    OBVIOUS
  <2>2. w[0] = f[{}]
    BY <1>1, <2>1
  <2> QED
    BY <1>5, <2>1, <2>2
<1>8. ASSUME NEW k \in 1 .. n PROVE w[k] = w[k - 1] + q[k]
  <2> DEFINE r == 1 .. k
  <2>1. /\ r # {} /\ r \in SUBSET (1 .. n) /\ r \in SUBSET (1 .. k) /\ k \in r /\ k \in Nat
        /\ r \ {k} = 1 .. (k - 1)
    <3>1. k \in Nat /\ k >= 1 /\ k <= n
      BY <1>0
    <3>2. \A y \in 1 .. k : y \in 1 .. n
      BY <1>0, <3>1
    <3>3. k \in r /\ r \ {k} = 1 .. (k - 1)
      BY <3>1
    <3> QED
      BY <3>1, <3>2, <3>3
  <2>2. w[k] = f[r] /\ w[k - 1] = f[1 .. (k - 1)]
    BY <1>1
  <2> HIDE DEF r, w
  <2>3. Highest(r) = k
    BY <2>1, HighestIndex
  <2>4. f[r] = f[r \ {k}] + q[k]
    BY <1>5, <2>1, <2>3
  <2> QED
    BY <2>1, <2>2, <2>4
<1> HIDE DEF w
<1> DEFINE Odd == {k \in 0 .. n : w[k] \notin Nat}
<1>9. Odd = {}
  <2> SUFFICES ASSUME Odd # {} PROVE FALSE
    OBVIOUS
  <2>1. PICK k \in Odd : \A j \in Odd : k <= j
    <3>1. Odd \in SUBSET Nat
      BY <1>1
    <3> QED
      BY <3>1, LeastExists
  <2>2. k # 0
    BY <1>7, <2>1
  <2>3. k \in 1 .. n /\ k - 1 \in 0 .. n /\ k - 1 \notin Odd
    BY <1>1, <2>1, <2>2
  <2> QED
    BY <1>1, <1>8, <2>1, <2>3
<1>10. Adds(q, n, w)
  BY <1>1, <1>7, <1>8, <1>9 DEF Adds
<1> QED
  BY <1>2, <1>6, <1>10 DEF n

\* Sums of naturals only grow.
LEMMA SumsGrow ==
  ASSUME NEW n \in Nat, NEW q, NEW v, Adds(q, n, v), NEW k \in 0 .. n
  PROVE  v[k] <= v[n]
<1> DEFINE Fine(j) == v[n - j] <= v[n]
           Late == {j \in 0 .. n : ~Fine(j)}
<1>0. v[n] \in Nat
  BY DEF Adds
<1>1. Fine(0)
  BY <1>0
<1>2. ASSUME NEW j \in 1 .. n, Fine(j - 1) PROVE Fine(j)
  <2> DEFINE h == n - (j - 1)
  <2>1. h \in 1 .. n /\ h - 1 = n - j /\ h \in 0 .. n /\ h - 1 \in 0 .. n
    OBVIOUS
  <2>2. v[h] <= v[n]
    BY <1>2
  <2> HIDE DEF h
  <2>3. v[h] = v[h - 1] + q[h] /\ v[h - 1] \in Nat /\ q[h] \in Nat
    BY <2>1 DEF Adds
  <2>4. v[h - 1] <= v[n]
    BY <1>0, <2>2, <2>3
  <2> QED
    BY <2>1, <2>4
<1> HIDE DEF Fine
<1>3. Late = {}
  <2> SUFFICES ASSUME Late # {} PROVE FALSE
    OBVIOUS
  <2>1. PICK j \in Late : \A h \in Late : j <= h
    <3>1. Late \in SUBSET Nat
      OBVIOUS
    <3> QED
      BY <3>1, LeastExists
  <2>2. j # 0
    BY <1>1, <2>1
  <2>3. j \in 1 .. n /\ j - 1 \in 0 .. n /\ j - 1 \notin Late
    BY <2>1, <2>2
  <2> QED
    BY <1>2, <2>1, <2>3
<1>4. n - k \in 0 .. n /\ n - (n - k) = k
  OBVIOUS
<1>5. Fine(n - k)
  BY <1>3, <1>4
<1> QED
  BY <1>4, <1>5 DEF Fine

\* The first m of r are no greater than those of q, one of q left out at i.
NoGreater(r, m, q, i) ==
  \A k \in 1 .. m : (k < i => r[k] <= q[k]) /\ (k >= i => r[k] <= q[k + 1])

LEMMA SumsCompare ==
  ASSUME NEW n \in Nat, NEW q, NEW v, Adds(q, n, v),
         NEW m \in Nat, NEW r, NEW w, Adds(r, m, w),
         NEW i \in Nat \ {0}, m <= n, i <= m => m < n, NoGreater(r, m, q, i)
  PROVE  w[m] <= v[n]
<1> DEFINE Fine(k) == (k < i => w[k] <= v[k]) /\ (k >= i => w[k] <= v[k + 1])
           Odd == {k \in 0 .. m : ~Fine(k)}
<1>1. Fine(0)
  BY DEF Adds
<1>2. ASSUME NEW k \in 1 .. m, Fine(k - 1) PROVE Fine(k)
  <2>1. k \in 1 .. n /\ k \in 0 .. n /\ k - 1 \in 0 .. m /\ k - 1 \in 0 .. n
    OBVIOUS
  <2>2. w[k] = w[k - 1] + r[k] /\ w[k - 1] \in Nat /\ r[k] \in Nat
    BY <2>1 DEF Adds
  <2>3. v[k] = v[k - 1] + q[k] /\ v[k - 1] \in Nat /\ q[k] \in Nat /\ v[k] \in Nat
    BY <2>1 DEF Adds
  <2>4. CASE k < i
    <3>1. w[k - 1] <= v[k - 1]
      BY <1>2, <2>4
    <3>2. r[k] <= q[k]
      BY <2>4 DEF NoGreater
    <3>3. w[k] <= v[k]
      BY <2>2, <2>3, <3>1, <3>2
    <3> QED
      BY <2>4, <3>3
  <2>5. CASE k >= i
    <3>1. k + 1 \in 1 .. n /\ (k + 1) - 1 = k
      BY <2>5
    <3>2. v[k + 1] = v[k] + q[k + 1] /\ q[k + 1] \in Nat
      BY <3>1 DEF Adds
    <3>3. r[k] <= q[k + 1]
      BY <2>5 DEF NoGreater
    <3>4. w[k - 1] <= v[k]
      <4>1. CASE k = i
        <5>1. w[k - 1] <= v[k - 1]
          BY <1>2, <4>1
        <5> QED
          BY <2>2, <2>3, <5>1
      <4>2. CASE k # i
        <5>1. k - 1 >= i /\ (k - 1) + 1 = k
          BY <2>5, <4>2
        <5> QED
          BY <1>2, <5>1
      <4> QED
        BY <4>1, <4>2
    <3>5. w[k] <= v[k + 1]
      BY <2>2, <2>3, <3>2, <3>3, <3>4
    <3> QED
      BY <2>5, <3>5
  <2> QED
    BY <2>4, <2>5
<1> HIDE DEF Fine
<1>3. Odd = {}
  <2> SUFFICES ASSUME Odd # {} PROVE FALSE
    OBVIOUS
  <2>1. PICK k \in Odd : \A j \in Odd : k <= j
    <3>1. Odd \in SUBSET Nat
      OBVIOUS
    <3> QED
      BY <3>1, LeastExists
  <2>2. k # 0
    BY <1>1, <2>1
  <2>3. k \in 1 .. m /\ k - 1 \in 0 .. m /\ k - 1 \notin Odd
    BY <2>1, <2>2
  <2> QED
    BY <1>2, <2>1, <2>3
<1>4. Fine(m) /\ w[m] \in Nat /\ v[n] \in Nat
  <2>1. m \in 0 .. m /\ n \in 0 .. n
    OBVIOUS
  <2> QED
    BY <1>3, <2>1 DEF Adds
<1>5. CASE m < i
  <2>1. m \in 0 .. n
    OBVIOUS
  <2>2. v[m] <= v[n] /\ v[m] \in Nat
    BY <2>1, SumsGrow DEF Adds
  <2>3. w[m] <= v[m]
    BY <1>4, <1>5 DEF Fine
  <2> QED
    BY <1>4, <2>2, <2>3
<1>6. CASE m >= i
  <2>1. m + 1 \in 0 .. n
    BY <1>6
  <2>2. v[m + 1] <= v[n] /\ v[m + 1] \in Nat
    BY <2>1, SumsGrow DEF Adds
  <2>3. w[m] <= v[m + 1]
    BY <1>4, <1>6 DEF Fine
  <2> QED
    BY <1>4, <2>2, <2>3
<1> QED
  BY <1>5, <1>6

\* A sequence without one of the items of another, and with no greater ones in
\* place of the others, adds up to no more.
LEMMA FewerAddUpToLess ==
  ASSUME NEW q \in Seq(Nat), NEW r \in Seq(Nat), NEW i \in Nat \ {0},
         Len(r) <= Len(q), i <= Len(r) => Len(r) < Len(q), NoGreater(r, Len(r), q, i)
  PROVE  SizesIn(q) \in Nat /\ SizesIn(r) \in Nat /\ SizesIn(r) <= SizesIn(q)
<1>1. PICK v : Adds(q, Len(q), v) /\ SizesIn(q) = v[Len(q)]
  BY SizesAdd
<1>2. PICK w : Adds(r, Len(r), w) /\ SizesIn(r) = w[Len(r)]
  BY SizesAdd
<1>3. Len(q) \in Nat /\ Len(r) \in Nat
  BY LenProperties
<1>4. v[Len(q)] \in Nat /\ w[Len(r)] \in Nat
  <2>1. Len(q) \in 0 .. Len(q) /\ Len(r) \in 0 .. Len(r)
    BY <1>3
  <2> QED
    BY <1>1, <1>2, <2>1 DEF Adds
<1>5. w[Len(r)] <= v[Len(q)]
  BY <1>1, <1>2, <1>3, SumsCompare
<1> QED
  BY <1>1, <1>2, <1>4, <1>5

-----------------------------------------------------------------------------
(***************************************************************************)
(* Queues with our order in them, or not.                                  *)
(***************************************************************************)
OursOnce(q) == \A i \in 1 .. Len(q), j \in 1 .. Len(q) : q[i] = Ours /\ q[j] = Ours => i = j

\* The beginning of a queue.
LEMMA FrontIs ==
  ASSUME NEW q \in Seq(Nat), NEW n \in 0 .. Len(q)
  PROVE  /\ SubSeq(q, 1, n) \in Seq(Nat)
         /\ Len(SubSeq(q, 1, n)) = n
         /\ \A i \in 1 .. n : SubSeq(q, 1, n)[i] = q[i]
<1>1. 1 \in Int /\ n \in Int /\ \A i \in 1 .. n : q[i] \in Nat
  BY ElementOfSeq, LenProperties
<1>2. /\ SubSeq(q, 1, n) \in Seq(Nat)
      /\ Len(SubSeq(q, 1, n)) = IF 1 <= n THEN n - 1 + 1 ELSE 0
      /\ \A i \in 1 .. n - 1 + 1 : SubSeq(q, 1, n)[i] = q[1 + i - 1]
  BY <1>1, SubSeqProperties
<1>3. n \in Nat
  BY LenProperties
<1> QED
  BY <1>2, <1>3

\* Our place, where there is only one, and what is ahead of it.
LEMMA OurPlaceIs ==
  ASSUME NEW q \in Seq(Nat), OursOnce(q), NEW k \in 1 .. Len(q), q[k] = Ours
  PROVE  /\ OurPlace(q) = k /\ HasOurs(q)
         /\ Ahead(q) = SizesIn(SubSeq(q, 1, k - 1))
         /\ Ahead(q) \in Nat /\ Ahead(q) <= SizesIn(q)
<1>1. DOMAIN q = 1 .. Len(q) /\ Len(q) \in Nat
  BY LenProperties
<1>2. OurPlace(q) = k /\ HasOurs(q)
  BY <1>1 DEF OurPlace, HasOurs, OursOnce
<1>3. Ahead(q) = SizesIn(SubSeq(q, 1, k - 1))
  BY <1>2 DEF Ahead
<1> DEFINE r == SubSeq(q, 1, k - 1)
<1>4. k - 1 \in 0 .. Len(q) /\ k \in Nat \ {0}
  BY <1>1
<1>5. r \in Seq(Nat) /\ Len(r) = k - 1 /\ \A i \in 1 .. k - 1 : r[i] = q[i]
  BY <1>4, FrontIs
<1> HIDE DEF r
<1>6. \A i \in 1 .. Len(r) : i < k /\ r[i] = q[i] /\ q[i] \in Nat
  BY <1>1, <1>5, ElementOfSeq
<1>7. NoGreater(r, Len(r), q, k)
  BY <1>4, <1>6 DEF NoGreater
<1>8. Len(r) <= Len(q) /\ ~(k <= Len(r))
  BY <1>1, <1>5
<1>9. SizesIn(r) \in Nat /\ SizesIn(r) <= SizesIn(q)
  BY <1>4, <1>5, <1>7, <1>8, FewerAddUpToLess
<1> QED
  BY <1>2, <1>3, <1>9 DEF r

LEMMA NoPlaceIsNone ==
  ASSUME NEW q \in Seq(Nat)
  PROVE  HasOurs(q) <=> \E k \in 1 .. Len(q) : q[k] = Ours
BY LenProperties DEF HasOurs

\* r is q with the item at i left out, or with some of the market's sizes reduced.
LeavesOut(r, q, i) ==
  /\ i \in 1 .. Len(q) + 1
  /\ Len(r) = IF i <= Len(q) THEN Len(q) - 1 ELSE Len(q)
  /\ \A k \in 1 .. Len(r) :
       /\ k < i => r[k] <= q[k] /\ (r[k] = Ours <=> q[k] = Ours)
       /\ k >= i => r[k] <= q[k + 1] /\ (r[k] = Ours <=> q[k + 1] = Ours)

\* What is ahead of us only shrinks when the market leaves or is traded with.
LEMMA LeavingKeepsOurs ==
  ASSUME NEW q \in Seq(Nat), OursOnce(q), NEW r \in Seq(Nat), NEW i, LeavesOut(r, q, i),
         i \in 1 .. Len(q) => q[i] # Ours
  PROVE  /\ OursOnce(r)
         /\ HasOurs(r) <=> HasOurs(q)
         /\ HasOurs(q) => Ahead(r) <= Ahead(q)
<1> DEFINE n == Len(q)
           m == Len(r)
<1>1. n \in Nat /\ m \in Nat
  BY LenProperties
<1>2. i \in 1 .. n + 1 /\ m = IF i <= n THEN n - 1 ELSE n
  BY DEF LeavesOut
<1>3. ASSUME NEW k \in 1 .. m
      PROVE  /\ k < i => r[k] <= q[k] /\ (r[k] = Ours <=> q[k] = Ours)
             /\ k >= i => r[k] <= q[k + 1] /\ (r[k] = Ours <=> q[k + 1] = Ours)
  BY DEF LeavesOut
<1>4. \A j \in 1 .. n : q[j] = Ours => j # i
  OBVIOUS
<1>5. \A j \in 1 .. n, k \in 1 .. n : q[j] = Ours /\ q[k] = Ours => j = k
  BY DEF OursOnce
<1> HIDE DEF n, m
<1> DEFINE Old(k) == IF k < i THEN k ELSE k + 1
<1>6. ASSUME NEW k \in 1 .. m, r[k] = Ours
      PROVE  Old(k) \in 1 .. n /\ q[Old(k)] = Ours
  BY <1>1, <1>2, <1>3, <1>6
<1>7. OursOnce(r)
  <2> SUFFICES ASSUME NEW k \in 1 .. m, NEW h \in 1 .. m, r[k] = Ours, r[h] = Ours
               PROVE  k = h
    BY DEF OursOnce, m
  <2>1. Old(k) = Old(h)
    BY <1>5, <1>6
  <2>2. k \in Nat /\ h \in Nat /\ i \in Nat
    BY <1>1, <1>2
  <2> QED
    BY <2>1, <2>2
<1>8. ASSUME NEW j \in 1 .. n, q[j] = Ours
      PROVE  \E k \in 1 .. m : r[k] = Ours /\ (k < i => k = j) /\ (k >= i => j = k + 1)
  <2>1. j \in Nat /\ i \in Nat /\ j # i
    BY <1>1, <1>2, <1>4, <1>8
  <2>2. CASE j < i
    <3>1. j \in 1 .. m
      BY <1>1, <1>2, <2>1, <2>2
    <3> QED
      BY <1>3, <1>8, <2>1, <2>2, <3>1
  <2>3. CASE j > i
    <3>1. j - 1 \in 1 .. m /\ j - 1 >= i /\ (j - 1) + 1 = j /\ ~(j - 1 < i)
      BY <1>1, <1>2, <2>1, <2>3
    <3>2. r[j - 1] = Ours
      BY <1>3, <1>8, <3>1
    <3> QED
      BY <3>1, <3>2
  <2> QED
    BY <2>1, <2>2, <2>3
<1>9. HasOurs(r) <=> HasOurs(q)
  BY <1>6, <1>8, NoPlaceIsNone DEF n, m
<1>10. ASSUME HasOurs(q) PROVE Ahead(r) <= Ahead(q)
  <2>1. PICK j \in 1 .. n : q[j] = Ours
    BY <1>10, NoPlaceIsNone DEF n
  <2>2. PICK k \in 1 .. m : r[k] = Ours /\ (k < i => k = j) /\ (k >= i => j = k + 1)
    BY <1>8, <2>1
  <2> DEFINE a == SubSeq(q, 1, j - 1)
             b == SubSeq(r, 1, k - 1)
  <2>3. Ahead(q) = SizesIn(a) /\ Ahead(r) = SizesIn(b)
    BY <1>7, <2>1, <2>2, OurPlaceIs DEF n, m
  <2>4. j - 1 \in 0 .. n /\ k - 1 \in 0 .. m /\ j \in Nat /\ k \in Nat /\ i \in Nat \ {0}
    BY <1>1, <1>2
  <2>5. /\ a \in Seq(Nat) /\ Len(a) = j - 1 /\ \A h \in 1 .. j - 1 : a[h] = q[h]
        /\ b \in Seq(Nat) /\ Len(b) = k - 1 /\ \A h \in 1 .. k - 1 : b[h] = r[h]
    BY <2>4, FrontIs DEF n, m
  <2> HIDE DEF a, b
  <2>6. Len(b) <= Len(a) /\ (i <= Len(b) => Len(b) < Len(a))
    BY <2>2, <2>4, <2>5
  <2>7. NoGreater(b, Len(b), a, i)
    <3> SUFFICES ASSUME NEW h \in 1 .. k - 1
                 PROVE  (h < i => b[h] <= a[h]) /\ (h >= i => b[h] <= a[h + 1])
      BY <2>5 DEF NoGreater
    <3>1. h \in 1 .. m /\ h \in Nat
      BY <1>1, <2>4
    <3>2. CASE h < i
      <4>1. h \in 1 .. j - 1
        BY <2>2, <2>4, <3>2
      <4>2. r[h] <= q[h] /\ b[h] = r[h] /\ a[h] = q[h]
        BY <1>3, <2>5, <3>1, <3>2, <4>1
      <4> QED
        BY <2>4, <3>1, <3>2, <4>2
    <3>3. CASE h >= i
      <4>1. h + 1 \in 1 .. j - 1
        BY <2>2, <2>4, <3>3
      <4> QED
        BY <1>3, <2>4, <2>5, <3>1, <3>3, <4>1
    <3> QED
      BY <2>4, <3>1, <3>2, <3>3
  <2>8. SizesIn(b) <= SizesIn(a)
    BY <2>4, <2>5, <2>6, <2>7, FewerAddUpToLess
  <2> QED
    BY <2>3, <2>8
<1> QED
  BY <1>7, <1>9, <1>10

\* The market joins behind.
LEMMA JoiningKeepsOurs ==
  ASSUME NEW q \in Seq(Nat), OursOnce(q), NEW x \in Nat \ {0}
  PROVE  /\ Append(q, x) \in Seq(Nat) /\ OursOnce(Append(q, x))
         /\ HasOurs(Append(q, x)) <=> HasOurs(q)
         /\ HasOurs(q) => Ahead(Append(q, x)) = Ahead(q)
<1> DEFINE r == Append(q, x)
           n == Len(q)
<1>1. /\ n \in Nat /\ r \in Seq(Nat) /\ Len(r) = n + 1
      /\ (\A i \in 1 .. n : r[i] = q[i]) /\ r[n + 1] = x
  BY LenProperties, AppendProperties
<1>2. \A i \in 1 .. n, j \in 1 .. n : q[i] = Ours /\ q[j] = Ours => i = j
  BY DEF OursOnce
<1>3. r[n + 1] # Ours
  BY <1>1 DEF Ours
<1> HIDE DEF n, r
<1>4. \A i \in 1 .. n + 1 : r[i] = Ours <=> (i \in 1 .. n /\ q[i] = Ours)
  BY <1>1, <1>3
<1>5. OursOnce(r)
  BY <1>1, <1>2, <1>4 DEF OursOnce
<1>6. HasOurs(r) <=> HasOurs(q)
  <2>1. HasOurs(r) <=> \E k \in 1 .. n + 1 : r[k] = Ours
    BY <1>1, NoPlaceIsNone
  <2>2. HasOurs(q) <=> \E k \in 1 .. n : q[k] = Ours
    BY NoPlaceIsNone DEF n
  <2> QED
    BY <1>1, <1>4, <2>1, <2>2
<1>7. ASSUME HasOurs(q) PROVE Ahead(r) = Ahead(q)
  <2>1. PICK k \in 1 .. n : q[k] = Ours
    BY <1>7, NoPlaceIsNone DEF n
  <2>2. k \in 1 .. n + 1 /\ r[k] = Ours /\ k - 1 \in 0 .. n /\ k - 1 \in 0 .. n + 1
    BY <1>1, <1>4, <2>1
  <2>3. Ahead(q) = SizesIn(SubSeq(q, 1, k - 1)) /\ Ahead(r) = SizesIn(SubSeq(r, 1, k - 1))
    BY <1>1, <1>5, <2>1, <2>2, OurPlaceIs DEF n
  <2>4. /\ SubSeq(q, 1, k - 1) \in Seq(Nat) /\ Len(SubSeq(q, 1, k - 1)) = k - 1
        /\ \A i \in 1 .. k - 1 : SubSeq(q, 1, k - 1)[i] = q[i]
    BY <2>2, FrontIs DEF n
  <2>5. /\ SubSeq(r, 1, k - 1) \in Seq(Nat) /\ Len(SubSeq(r, 1, k - 1)) = k - 1
        /\ \A i \in 1 .. k - 1 : SubSeq(r, 1, k - 1)[i] = r[i]
    BY <1>1, <2>2, FrontIs
  <2>6. \A i \in 1 .. k - 1 : i \in 1 .. n
    BY <1>1, <2>1
  <2>7. SubSeq(q, 1, k - 1) = SubSeq(r, 1, k - 1)
    BY <1>1, <2>4, <2>5, <2>6, SeqEqual
  <2> QED
    BY <2>3, <2>7
<1> QED
  BY <1>1, <1>5, <1>6, <1>7 DEF r

\* We join behind.
LEMMA WeJoinOnce ==
  ASSUME NEW q \in Seq(Nat), ~HasOurs(q)
  PROVE  /\ Append(q, Ours) \in Seq(Nat) /\ OursOnce(Append(q, Ours))
         /\ HasOurs(Append(q, Ours))
<1> DEFINE r == Append(q, Ours)
           n == Len(q)
<1>1. /\ n \in Nat /\ r \in Seq(Nat) /\ Len(r) = n + 1
      /\ (\A i \in 1 .. n : r[i] = q[i]) /\ r[n + 1] = Ours
  BY LenProperties, AppendProperties DEF Ours
<1>2. \A i \in 1 .. n : q[i] # Ours
  BY NoPlaceIsNone
<1> HIDE DEF n, r
<1>3. \A i \in 1 .. n + 1 : r[i] = Ours => i = n + 1
  BY <1>1, <1>2
<1>4. OursOnce(r)
  BY <1>1, <1>3 DEF OursOnce
<1>5. HasOurs(r)
  BY <1>1, NoPlaceIsNone
<1> QED
  BY <1>1, <1>4, <1>5 DEF r

\* A queue without the item at i.
LEMMA RemoveAtIs ==
  ASSUME NEW q \in Seq(Nat), NEW i \in 1 .. Len(q)
  PROVE  /\ TX!RemoveAt(q, i) \in Seq(Nat)
         /\ Len(TX!RemoveAt(q, i)) = Len(q) - 1
         /\ \A k \in 1 .. Len(q) - 1 :
              TX!RemoveAt(q, i)[k] = IF k < i THEN q[k] ELSE q[k + 1]
<1> DEFINE n == Len(q)
           a == SubSeq(q, 1, i - 1)
           b == SubSeq(q, i + 1, n)
<1>1. n \in Nat /\ i - 1 \in 0 .. n /\ i \in Nat
  BY LenProperties
<1>2. a \in Seq(Nat) /\ Len(a) = i - 1 /\ \A k \in 1 .. i - 1 : a[k] = q[k]
  BY <1>1, FrontIs
<1>3. /\ b \in Seq(Nat) /\ Len(b) = IF i + 1 <= n THEN n - (i + 1) + 1 ELSE 0
      /\ \A k \in 1 .. n - (i + 1) + 1 : b[k] = q[i + 1 + k - 1]
  <2>1. i + 1 \in Int /\ n \in Int /\ \A k \in i + 1 .. n : q[k] \in Nat
    BY <1>1, ElementOfSeq
  <2> QED
    BY <2>1, SubSeqProperties
<1>4. TX!RemoveAt(q, i) = a \o b
  BY DEF TX!RemoveAt
<1>5. i \in 1 .. n
  OBVIOUS
<1> HIDE DEF n, a, b
<1>6. Len(b) = n - i
  BY <1>1, <1>3, <1>5
<1>7. /\ a \o b \in Seq(Nat) /\ Len(a \o b) = Len(a) + Len(b)
      /\ \A k \in 1 .. Len(a) + Len(b) : (a \o b)[k] = IF k <= Len(a) THEN a[k] ELSE b[k - Len(a)]
  BY <1>2, <1>3, ConcatProperties
<1>8. Len(a) + Len(b) = n - 1
  BY <1>1, <1>2, <1>6
<1>9. ASSUME NEW k \in 1 .. n - 1
      PROVE  (a \o b)[k] = IF k < i THEN q[k] ELSE q[k + 1]
  <2>1. (a \o b)[k] = IF k <= i - 1 THEN a[k] ELSE b[k - (i - 1)]
    BY <1>2, <1>7, <1>8
  <2>2. CASE k < i
    <3>1. k \in 1 .. i - 1 /\ k <= i - 1
      BY <1>1, <2>2
    <3> QED
      BY <1>2, <2>1, <2>2, <3>1
  <2>3. CASE k >= i
    <3> DEFINE h == k - (i - 1)
    <3>1. h \in 1 .. n - (i + 1) + 1 /\ i + 1 + h - 1 = k + 1 /\ ~(k <= i - 1) /\ ~(k < i)
      BY <1>1, <1>5, <2>3
    <3> HIDE DEF h
    <3>2. b[h] = q[k + 1]
      BY <1>3, <3>1
    <3> QED
      BY <2>1, <3>1, <3>2 DEF h
  <2>4. k < i \/ k >= i
    BY <1>1
  <2> QED
    BY <2>2, <2>3, <2>4
<1> QED
  BY <1>4, <1>7, <1>8, <1>9 DEF n

\* The market leaves.
LEMMA RemovalLeavesOut ==
  ASSUME NEW q \in Seq(Nat), NEW i \in 1 .. Len(q)
  PROVE  LeavesOut(TX!RemoveAt(q, i), q, i)
<1> DEFINE r == TX!RemoveAt(q, i)
<1>1. Len(q) \in Nat /\ i \in 1 .. Len(q) + 1 /\ i <= Len(q)
  BY LenProperties
<1>2. r \in Seq(Nat) /\ Len(r) = Len(q) - 1 /\ \A k \in 1 .. Len(q) - 1 : r[k] = IF k < i THEN q[k] ELSE q[k + 1]
  BY RemoveAtIs
<1> HIDE DEF r
<1>3. \A k \in 1 .. Len(q) - 1 : q[k] \in Nat /\ q[k + 1] \in Nat
  <2>1. \A k \in 1 .. Len(q) - 1 : k \in 1 .. Len(q) /\ k + 1 \in 1 .. Len(q)
    BY <1>1
  <2> QED
    BY <2>1, ElementOfSeq
<1>4. \A k \in 1 .. Len(r) :
        /\ k < i => r[k] <= q[k] /\ (r[k] = Ours <=> q[k] = Ours)
        /\ k >= i => r[k] <= q[k + 1] /\ (r[k] = Ours <=> q[k + 1] = Ours)
  <2> SUFFICES ASSUME NEW k \in 1 .. Len(q) - 1
               PROVE  /\ k < i => r[k] <= q[k] /\ (r[k] = Ours <=> q[k] = Ours)
                      /\ k >= i => r[k] <= q[k + 1] /\ (r[k] = Ours <=> q[k + 1] = Ours)
    BY <1>2
  <2>1. k \in Nat /\ i \in Nat
    BY <1>1
  <2>2. CASE k < i
    <3>1. r[k] = q[k]
      BY <1>2, <2>2
    <3> QED
      BY <1>3, <2>1, <2>2, <3>1
  <2>3. CASE k >= i
    <3>1. r[k] = q[k + 1]
      BY <1>2, <2>1, <2>3
    <3> QED
      BY <1>3, <2>1, <2>3, <3>1
  <2> QED
    BY <2>1, <2>2, <2>3
<1>5. LeavesOut(r, q, i)
  BY <1>1, <1>2, <1>4 DEF LeavesOut
<1> QED
  BY <1>5 DEF r

\* A trade takes from the size in front, or all of it.
LEMMA TradeLeavesOut ==
  ASSUME NEW q \in Seq(Nat), q # <<>>
  PROVE  /\ Head(q) > 1 => /\ <<Head(q) - 1>> \o Tail(q) \in Seq(Nat)
                           /\ LeavesOut(<<Head(q) - 1>> \o Tail(q), q, Len(q) + 1)
         /\ Tail(q) \in Seq(Nat) /\ LeavesOut(Tail(q), q, 1)
         /\ 1 \in 1 .. Len(q) /\ Head(q) = q[1] /\ Head(q) \in Nat
<1> DEFINE n == Len(q)
           t == Tail(q)
<1>1. n \in Nat \ {0} /\ Head(q) = q[1] /\ 1 \in 1 .. n
  BY EmptySeq
<1>2. t \in Seq(Nat) /\ Len(t) = n - 1 /\ (\A i \in 1 .. n - 1 : t[i] = q[i + 1]) /\ Head(q) \in Nat
  BY HeadTailProperties
<1>3. \A i \in 1 .. n : q[i] \in Nat
  BY ElementOfSeq
<1> HIDE DEF n, t
<1>4. LeavesOut(t, q, 1)
  <2>1. \A k \in 1 .. Len(t) :
          /\ k < 1 => t[k] <= q[k] /\ (t[k] = Ours <=> q[k] = Ours)
          /\ k >= 1 => t[k] <= q[k + 1] /\ (t[k] = Ours <=> q[k + 1] = Ours)
    <3> SUFFICES ASSUME NEW k \in 1 .. n - 1
                 PROVE  ~(k < 1) /\ t[k] <= q[k + 1] /\ (t[k] = Ours <=> q[k + 1] = Ours)
      BY <1>2
    <3>1. t[k] = q[k + 1] /\ k + 1 \in 1 .. n /\ ~(k < 1)
      BY <1>1, <1>2
    <3>2. q[k + 1] \in Nat
      BY <1>3, <3>1
    <3> QED
      BY <3>1, <3>2
  <2> QED
    BY <1>1, <1>2, <2>1 DEF LeavesOut, n
<1>5. ASSUME Head(q) > 1
      PROVE  /\ <<Head(q) - 1>> \o t \in Seq(Nat)
             /\ LeavesOut(<<Head(q) - 1>> \o t, q, n + 1)
  <2> DEFINE r == <<Head(q) - 1>> \o t
  <2>1. Head(q) - 1 \in Nat /\ Head(q) - 1 # 0 /\ Head(q) # 0
    BY <1>2, <1>5
  <2>2. <<Head(q) - 1>> \in Seq(Nat) /\ Len(<<Head(q) - 1>>) = 1 /\ <<Head(q) - 1>>[1] = Head(q) - 1
    BY <2>1
  <2>3. /\ r \in Seq(Nat) /\ Len(r) = 1 + (n - 1)
        /\ \A i \in 1 .. 1 + (n - 1) : r[i] = IF i <= 1 THEN <<Head(q) - 1>>[i] ELSE t[i - 1]
    BY <1>2, <2>2, ConcatProperties
  <2> HIDE DEF r
  <2>4. Len(r) = n /\ r[1] = Head(q) - 1
    BY <1>1, <2>2, <2>3
  <2>5. \A k \in 2 .. n : r[k] = q[k]
    <3> SUFFICES ASSUME NEW k \in 2 .. n PROVE r[k] = q[k]
      OBVIOUS
    <3>1. k \in 1 .. 1 + (n - 1) /\ ~(k <= 1) /\ k - 1 \in 1 .. n - 1 /\ (k - 1) + 1 = k
      BY <1>1
    <3>2. r[k] = t[k - 1]
      BY <2>3, <3>1
    <3> QED
      BY <1>2, <3>1, <3>2
  <2>6. \A k \in 1 .. n : ~(k >= n + 1) /\ r[k] <= q[k] /\ (r[k] = Ours <=> q[k] = Ours)
    <3> SUFFICES ASSUME NEW k \in 1 .. n
                 PROVE  ~(k >= n + 1) /\ r[k] <= q[k] /\ (r[k] = Ours <=> q[k] = Ours)
      OBVIOUS
    <3>1. k \in Nat /\ ~(k >= n + 1)
      BY <1>1
    <3>2. CASE k = 1
      BY <1>1, <2>1, <2>4, <3>1, <3>2 DEF Ours
    <3>3. CASE k # 1
      <4>1. k \in 2 .. n
        BY <1>1, <3>3
      <4> QED
        BY <1>3, <2>5, <3>1, <4>1
    <3> QED
      BY <3>2, <3>3
  <2>7. n + 1 \in 1 .. n + 1 /\ ~(n + 1 <= n)
    BY <1>1
  <2>8. LeavesOut(r, q, n + 1)
    BY <2>4, <2>6, <2>7 DEF LeavesOut, n
  <2> QED
    BY <2>3, <2>8 DEF r
<1> QED
  BY <1>1, <1>2, <1>4, <1>5 DEF n, t

\* Without our order there is none of ours.
LEMMA OursTakenOut ==
  ASSUME NEW q \in Seq(Nat), OursOnce(q), HasOurs(q)
  PROVE  TX!RemoveAt(q, OurPlace(q)) \in Seq(Nat) /\ ~HasOurs(TX!RemoveAt(q, OurPlace(q)))
<1>1. PICK i \in 1 .. Len(q) : q[i] = Ours
  BY NoPlaceIsNone
<1>2. OurPlace(q) = i
  BY <1>1, OurPlaceIs
<1> DEFINE r == TX!RemoveAt(q, i)
<1>3. r \in Seq(Nat) /\ Len(r) = Len(q) - 1 /\ \A k \in 1 .. Len(q) - 1 : r[k] = IF k < i THEN q[k] ELSE q[k + 1]
  BY RemoveAtIs
<1>4. Len(q) \in Nat /\ i \in Nat
  BY LenProperties
<1> HIDE DEF r
<1>5. \A k \in 1 .. Len(q) : q[k] = Ours => k = i
  BY <1>1 DEF OursOnce
<1>6. ASSUME NEW k \in 1 .. Len(q) - 1, r[k] = Ours PROVE FALSE
  <2>1. k \in 1 .. Len(q) /\ k + 1 \in 1 .. Len(q) /\ k \in Nat
    BY <1>4
  <2>2. CASE k < i
    BY <1>3, <1>4, <1>5, <1>6, <2>1, <2>2, SMTT(30)
  <2>3. CASE ~(k < i)
    <3>1. q[k + 1] = Ours
      BY <1>3, <1>6, <2>3
    <3>2. k + 1 = i
      BY <1>5, <2>1, <3>1
    <3> QED
      BY <1>4, <2>1, <2>3, <3>2
  <2> QED
    BY <2>2, <2>3
<1>7. ~HasOurs(r)
  BY <1>3, <1>6, NoPlaceIsNone
<1> QED
  BY <1>2, <1>3, <1>7 DEF r

\* The same if ours was first and is taken from the front.
LEMMA OursFilledOut ==
  ASSUME NEW q \in Seq(Nat), OursOnce(q), q # <<>>, Head(q) = Ours
  PROVE  Tail(q) \in Seq(Nat) /\ ~HasOurs(Tail(q))
<1>1. 1 \in 1 .. Len(q) /\ q[1] = Ours /\ Len(q) \in Nat
  BY TradeLeavesOut, LenProperties
<1>2. /\ Tail(q) \in Seq(Nat) /\ Len(Tail(q)) = Len(q) - 1
      /\ \A i \in 1 .. Len(Tail(q)) : Tail(q)[i] = q[i + 1]
  BY HeadTailProperties
<1>3. ASSUME NEW i \in 1 .. Len(q) - 1, q[i + 1] = Ours PROVE FALSE
  <2>1. i + 1 \in 1 .. Len(q) /\ i + 1 # 1
    BY <1>1
  <2> QED
    BY <1>1, <1>3, <2>1 DEF OursOnce
<1> QED
  BY <1>2, <1>3, NoPlaceIsNone

\* What a queue shows is a size.
LEMMA SizesAreSizes ==
  ASSUME NEW q \in Seq(Nat)
  PROVE  SizesIn(q) \in Nat
<1>1. PICK w : Adds(q, Len(q), w) /\ SizesIn(q) = w[Len(q)]
  BY SizesAdd
<1>2. Len(q) \in Nat
  BY LenProperties
<1> QED
  BY <1>1, <1>2 DEF Adds

\* It grows by no more than the size that joins.
LEMMA JoiningAddsItsSize ==
  ASSUME NEW q \in Seq(Nat), NEW x \in Nat
  PROVE  SizesIn(Append(q, x)) <= SizesIn(q) + x
<1> DEFINE r == Append(q, x)
           n == Len(q)
<1>1. /\ n \in Nat /\ r \in Seq(Nat) /\ Len(r) = n + 1
      /\ (\A i \in 1 .. n : r[i] = q[i] /\ q[i] \in Nat) /\ r[n + 1] = x
  BY LenProperties, AppendProperties, ElementOfSeq
<1>2. PICK v : Adds(q, n, v) /\ SizesIn(q) = v[n]
  BY SizesAdd
<1>3. PICK w : Adds(r, n + 1, w) /\ SizesIn(r) = w[n + 1]
  BY <1>1, SizesAdd
<1> HIDE DEF n, r
<1>4. Adds(r, n, w)
  BY <1>1, <1>3 DEF Adds
<1>5. NoGreater(r, n, q, n + 1)
  BY <1>1 DEF NoGreater
<1>6. w[n] <= v[n]
  <2>1. n <= n /\ ~(n + 1 <= n) /\ n + 1 \in Nat \ {0}
    BY <1>1
  <2> QED
    BY <1>1, <1>2, <1>4, <1>5, <2>1, SumsCompare
<1>7. w[n + 1] = w[n] + x /\ w[n] \in Nat /\ v[n] \in Nat
  <2>1. n + 1 \in 1 .. n + 1 /\ n \in 0 .. n + 1 /\ n \in 0 .. n /\ (n + 1) - 1 = n
    BY <1>1
  <2> QED
    BY <1>1, <1>2, <1>3, <2>1 DEF Adds
<1> QED
  BY <1>2, <1>3, <1>6, <1>7 DEF r

\* It grows no greater when the market leaves or is traded with.
LEMMA LeavingShowsLess ==
  ASSUME NEW q \in Seq(Nat), NEW r \in Seq(Nat), NEW i, LeavesOut(r, q, i)
  PROVE  SizesIn(r) <= SizesIn(q)
<1> DEFINE n == Len(q)
           m == Len(r)
<1>1. n \in Nat /\ m \in Nat
  BY LenProperties
<1>2. i \in 1 .. n + 1 /\ m = IF i <= n THEN n - 1 ELSE n
  BY DEF LeavesOut
<1> HIDE DEF n, m
<1>3. i \in Nat \ {0} /\ m <= n /\ (i <= m => m < n)
  BY <1>1, <1>2
<1>4. NoGreater(r, Len(r), q, i)
  BY DEF LeavesOut, NoGreater
<1> QED
  BY <1>3, <1>4, FewerAddUpToLess DEF n, m

\* All of a queue is ahead of us when we join it, and we show nothing.
LEMMA WeJoinBehindAll ==
  ASSUME NEW q \in Seq(Nat), ~HasOurs(q)
  PROVE  /\ Ahead(Append(q, Ours)) = SizesIn(q)
         /\ SizesIn(Append(q, Ours)) <= SizesIn(q)
<1> DEFINE r == Append(q, Ours)
           n == Len(q)
<1>0. Ours \in Nat /\ Ours = 0
  BY DEF Ours
<1>1. /\ n \in Nat /\ r \in Seq(Nat) /\ Len(r) = n + 1
      /\ (\A i \in 1 .. n : r[i] = q[i]) /\ r[n + 1] = Ours
  BY <1>0, LenProperties, AppendProperties
<1>2. OursOnce(r)
  BY WeJoinOnce
<1>3. SizesIn(r) <= SizesIn(q)
  BY <1>0, <1>1, JoiningAddsItsSize, SizesAreSizes
<1> HIDE DEF n, r
<1>4. n + 1 \in 1 .. Len(r) /\ (n + 1) - 1 = n /\ n \in 0 .. Len(r)
  BY <1>1
<1>5. Ahead(r) = SizesIn(SubSeq(r, 1, n))
  BY <1>1, <1>2, <1>4, OurPlaceIs
<1>6. SubSeq(r, 1, n) \in Seq(Nat) /\ Len(SubSeq(r, 1, n)) = n /\ \A i \in 1 .. n : SubSeq(r, 1, n)[i] = r[i]
  BY <1>1, <1>4, FrontIs
<1>7. SubSeq(r, 1, n) = q
  BY <1>1, <1>6, SeqEqual DEF n
<1> QED
  BY <1>3, <1>5, <1>7 DEF r

-----------------------------------------------------------------------------
(***************************************************************************)
(* The estimate and the place in the queue.                                *)
(*                                                                         *)
(* Everything the strategy can know is a size shown and the moment it was  *)
(* true, counted by what had joined the price by then.  Such a pair bounds *)
(* what is there now, as only what joined since can add to it, and what is *)
(* ahead of us, as only what joined before we landed can.  The pictures of *)
(* the feed are such pairs, and so is the estimate with the moment our     *)
(* order was sent.                                                         *)
(***************************************************************************)
Pictures == [size : [PricesHere -> Nat], joined : [PricesHere -> Nat]]

QueueTypes ==
  /\ levels = [p \in PricesHere |-> levels[p]] /\ \A p \in PricesHere : levels[p] \in Seq(Nat)
  /\ order \in [state : {"none", "sent", "resting"}, price : PricesHere, seen : Nat, landed : Nat]
  /\ estimate \in [on : BOOLEAN, price : PricesHere, ahead : Nat]
  /\ feed \in Seq(Pictures) /\ feed # <<>>

\* Our order stands once at its price, and nowhere else, while it rests.
OursWhereItRests ==
  \A p \in PricesHere :
    OursOnce(levels[p]) /\ (HasOurs(levels[p]) <=> order.state = "resting" /\ order.price = p)

\* What had joined before we landed and after so much had.
Between(joined) == IF order.landed > joined THEN order.landed - joined ELSE 0

Bounds(shown, joined, p) ==
  /\ SizesIn(levels[p]) <= shown + (Now.joined[p] - joined)
  /\ order.state = "resting" /\ order.price = p => TrueAhead <= shown + Between(joined)

FeedBounds ==
  \A i \in 1 .. Len(feed), p \in PricesHere : Bounds(feed[i].size[p], feed[i].joined[p], p)

FeedGrows ==
  \A i \in 1 .. Len(feed), j \in 1 .. Len(feed), p \in PricesHere :
    i <= j => feed[i].joined[p] <= feed[j].joined[p]

\* The picture our order was sent on is no later than those there are.
SentBefore ==
  order.state # "none" =>
    /\ \A i \in 1 .. Len(feed) : order.seen <= feed[i].joined[order.price]
    /\ order.state = "resting" => order.seen <= order.landed

EstimateBounds ==
  order.state # "none" /\ estimate.on /\ estimate.price = order.price =>
    Bounds(estimate.ahead, order.seen, order.price)

\* The inductive invariant.
QueueInv ==
  QueueTypes /\ OursWhereItRests /\ FeedGrows /\ FeedBounds /\ SentBefore /\ EstimateBounds

LEMMA TouchIsHere ==
  Touch \in PricesHere
BY PricesAssumption DEF PricesHere

\* Nothing of ours in a queue of the market's sizes.
LEMMA MarketOnly ==
  ASSUME NEW q \in Seq(Nat), \A i \in 1 .. Len(q) : q[i] # Ours
  PROVE  OursOnce(q) /\ ~HasOurs(q)
BY NoPlaceIsNone DEF OursOnce

\* What is ahead of us is a size, and of what is there.
LEMMA AheadIsASize ==
  ASSUME NEW q \in Seq(Nat), OursOnce(q), HasOurs(q)
  PROVE  Ahead(q) \in Nat /\ Ahead(q) <= SizesIn(q)
<1>1. PICK k \in 1 .. Len(q) : q[k] = Ours
  BY NoPlaceIsNone
<1> QED
  BY <1>1, OurPlaceIs

\* The numbers of a picture.
LEMMA PictureIs ==
  ASSUME QueueTypes
  PROVE  /\ Len(feed) \in Nat \ {0} /\ Len(feed) \in 1 .. Len(feed) /\ 1 \in 1 .. Len(feed)
         /\ \A i \in 1 .. Len(feed) : feed[i] \in Pictures
         /\ \A i \in 1 .. Len(feed), p \in PricesHere :
              feed[i].size[p] \in Nat /\ feed[i].joined[p] \in Nat
         /\ Now \in Pictures /\ Now.joined \in [PricesHere -> Nat]
         /\ \A p \in PricesHere : Now.joined[p] \in Nat
<1>1. feed \in Seq(Pictures) /\ feed # <<>>
  BY DEF QueueTypes
<1>2. Len(feed) \in Nat \ {0}
  BY <1>1, EmptySeq
<1>3. Len(feed) \in 1 .. Len(feed) /\ 1 \in 1 .. Len(feed)
  BY <1>2
<1>4. \A i \in 1 .. Len(feed) : feed[i] \in Pictures
  BY <1>1, ElementOfSeq
<1>5. Now \in Pictures
  BY <1>3, <1>4 DEF Now
<1> QED
  BY <1>2, <1>3, <1>4, <1>5 DEF Pictures

\* What there is makes a picture.
LEMMA PictureOf ==
  ASSUME NEW ls, \A p \in PricesHere : ls[p] \in Seq(Nat), NEW joined \in [PricesHere -> Nat]
  PROVE  /\ Picture(ls, joined) \in Pictures
         /\ Picture(ls, joined).joined = joined
         /\ \A p \in PricesHere : Picture(ls, joined).size[p] = SizesIn(ls[p])
<1>1. [p \in PricesHere |-> SizesIn(ls[p])] \in [PricesHere -> Nat]
  BY SizesAreSizes
<1> QED
  BY <1>1 DEF Picture, Pictures

LEMMA QueueInvInit ==
  ASSUME QueueInit
  PROVE  QueueInv
<1>1. ASSUME NEW p \in PricesHere
      PROVE  levels[p] \in Seq(Nat) /\ OursOnce(levels[p]) /\ ~HasOurs(levels[p])
  <2>1. levels[p] = <<>> \/ \E n \in LevelSizes : levels[p] = <<n>>
    BY DEF QueueInit
  <2>2. CASE levels[p] = <<>>
    <3>1. levels[p] \in Seq(Nat) /\ Len(levels[p]) = 0
      BY <2>2, EmptySeq
    <3> QED
      BY <3>1, MarketOnly
  <2>3. CASE \E n \in LevelSizes : levels[p] = <<n>>
    <3>1. PICK n \in LevelSizes : levels[p] = <<n>>
      BY <2>3
    <3>2. n \in Nat /\ n # 0
      BY SizesAssumption
    <3>3. levels[p] \in Seq(Nat) /\ Len(levels[p]) = 1 /\ levels[p][1] = n
      BY <3>1, <3>2
    <3> QED
      BY <3>2, <3>3, MarketOnly DEF Ours
  <2> QED
    BY <2>1, <2>2, <2>3
<1>2. levels = [p \in PricesHere |-> levels[p]]
  BY DEF QueueInit
<1>3. /\ order = [state |-> "none", price |-> Touch, seen |-> 0, landed |-> 0]
      /\ estimate = [on |-> FALSE, price |-> Touch, ahead |-> 0]
  BY DEF QueueInit, NoOrderOut, Flat
<1> DEFINE none == [p \in PricesHere |-> 0]
           pic == Picture(levels, none)
<1>4. /\ pic \in Pictures /\ pic.joined = none
      /\ \A p \in PricesHere : pic.size[p] = SizesIn(levels[p])
  <2>1. none \in [PricesHere -> Nat]
    OBVIOUS
  <2> QED
    BY <1>1, <2>1, PictureOf
<1>5. feed = <<pic>>
  BY DEF QueueInit
<1> HIDE DEF pic
<1>6. feed \in Seq(Pictures) /\ feed # <<>> /\ Len(feed) = 1 /\ feed[1] = pic
  BY <1>4, <1>5
<1>7. QueueTypes
  BY <1>1, <1>2, <1>3, <1>6, TouchIsHere DEF QueueTypes
<1>8. OursWhereItRests
  BY <1>1, <1>3 DEF OursWhereItRests
<1>9. FeedGrows
  BY <1>4, <1>6 DEF FeedGrows
<1>10. FeedBounds
  <2> SUFFICES ASSUME NEW p \in PricesHere
               PROVE  Bounds(pic.size[p], pic.joined[p], p)
    BY <1>6 DEF FeedBounds
  <2>1. SizesIn(levels[p]) \in Nat /\ pic.size[p] = SizesIn(levels[p]) /\ Now.joined[p] = 0
        /\ pic.joined[p] = 0
    BY <1>1, <1>4, <1>6, SizesAreSizes DEF Now
  <2> QED
    BY <1>3, <2>1 DEF Bounds
<1>11. SentBefore /\ EstimateBounds
  BY <1>3 DEF SentBefore, EstimateBounds
<1> QED
  BY <1>7, <1>8, <1>9, <1>10, <1>11 DEF QueueInv

LEMMA OnePicture ==
  ASSUME NEW pic \in Pictures
  PROVE  /\ <<pic>> \in Seq(Pictures) /\ <<pic>> # <<>> /\ Len(<<pic>>) = 1
         /\ <<pic>>[1] = pic
OBVIOUS

\* A message: the view's pictures stay, and there is one more or the last only.
LEMMA FeedIs ==
  ASSUME QueueTypes, NEW pic \in Pictures,
         feed' = IF UseLatency THEN Append(feed, pic) ELSE <<pic>>
  PROVE  /\ feed' \in Seq(Pictures) /\ feed' # <<>> /\ Now' = pic
         /\ Len(feed') \in Nat \ {0}
         /\ feed'[Len(feed')] = pic
         /\ \A i \in 1 .. Len(feed') :
              i # Len(feed') => i \in 1 .. Len(feed) /\ feed'[i] = feed[i]
<1>1. feed \in Seq(Pictures) /\ Len(feed) \in Nat
  BY PictureIs DEF QueueTypes
<1>2. CASE UseLatency
  <2> DEFINE g == Append(feed, pic)
             n == Len(feed)
  <2>1. g \in Seq(Pictures) /\ g # <<>> /\ Len(g) = n + 1
        /\ (\A i \in 1 .. n : g[i] = feed[i]) /\ g[n + 1] = pic
    BY <1>1, AppendProperties
  <2>2. feed' = g
    BY <1>2
  <2> HIDE DEF g, n
  <2>3. n \in Nat /\ Len(feed') = n + 1
    BY <1>1, <2>1, <2>2 DEF n
  <2>4. \A i \in 1 .. n + 1 : i # n + 1 => i \in 1 .. n
    BY <2>3
  <2>5. \A i \in 1 .. n + 1 : i # n + 1 => i \in 1 .. Len(feed) /\ feed'[i] = feed[i]
    BY <2>1, <2>2, <2>4 DEF n
  <2>6. Len(feed') \in Nat \ {0} /\ feed'[Len(feed')] = pic
    BY <2>1, <2>2, <2>3
  <2>7. Now' = pic
    BY <2>6 DEF Now
  <2> QED
    BY <2>1, <2>2, <2>3, <2>5, <2>6, <2>7
<1>3. CASE ~UseLatency
  <2>1. feed' = <<pic>>
    BY <1>3
  <2>2. feed' \in Seq(Pictures) /\ feed' # <<>> /\ Len(feed') = 1 /\ feed'[1] = pic
    BY <2>1, OnePicture
  <2>3. Now' = pic
    BY <2>2 DEF Now
  <2>4. \A i \in 1 .. 1 : i = 1
    OBVIOUS
  <2> QED
    BY <2>2, <2>3, <2>4
<1> QED
  BY <1>2, <1>3

\* What a pair bounds, it bounds when more joins and when the rest leaves, if no
\* more is ahead of us.
LEMMA BoundsKept ==
  ASSUME NEW p \in PricesHere, NEW shown \in Nat, NEW joined \in Nat, Bounds(shown, joined, p),
         SizesIn(levels[p]) \in Nat, SizesIn(levels'[p]) \in Nat,
         Now.joined[p] \in Nat, Now.joined'[p] \in Nat,
         SizesIn(levels'[p]) <= SizesIn(levels[p]) + (Now.joined'[p] - Now.joined[p]),
         order'.state = "resting" /\ order'.price = p =>
           /\ order.state = "resting" /\ order.price = p /\ order'.landed = order.landed
           /\ order.landed \in Nat
           /\ TrueAhead \in Nat /\ TrueAhead' \in Nat /\ TrueAhead' <= TrueAhead
  PROVE  Bounds(shown, joined, p)'
<1>1. SizesIn(levels[p]) <= shown + (Now.joined[p] - joined)
  BY DEF Bounds
<1>2. SizesIn(levels'[p]) <= shown + (Now.joined'[p] - joined)
  BY <1>1
<1>3. ASSUME order'.state = "resting", order'.price = p
      PROVE  TrueAhead' <= shown + Between(joined)'
  <2>1. TrueAhead <= shown + Between(joined)
    BY <1>3 DEF Bounds
  <2>2. Between(joined)' = Between(joined) /\ Between(joined) \in Nat
    BY <1>3 DEF Between
  <2> HIDE DEF Between
  <2> QED
    BY <1>3, <2>1, <2>2
<1> QED
  BY <1>2, <1>3 DEF Bounds

\* Whatever happens to one queue, if no more than d joins it, and ours stays where
\* it is with no more ahead or is gone.
LEMMA OneQueueChanges ==
  ASSUME NEW p \in PricesHere, NEW r \in Seq(Nat), NEW d \in Nat, NEW joins
  PROVE  /\ QueueInv
         /\ joins = [Now.joined EXCEPT ![p] = @ + d]
         /\ levels' = [levels EXCEPT ![p] = r] /\ estimate' = estimate
         /\ feed' = IF UseLatency THEN Append(feed, Picture(levels', joins))
                    ELSE <<Picture(levels', joins)>>
         /\ SizesIn(r) <= SizesIn(levels[p]) + d /\ OursOnce(r)
         /\ \/ /\ order' = order /\ (HasOurs(r) <=> HasOurs(levels[p]))
               /\ HasOurs(levels[p]) => Ahead(r) <= Ahead(levels[p])
            \/ order' = NoOrderOut /\ HasOurs(levels[p]) /\ ~HasOurs(r)
         => QueueInv'
<1>a. SUFFICES ASSUME QueueInv, joins = [Now.joined EXCEPT ![p] = @ + d],
                      levels' = [levels EXCEPT ![p] = r], estimate' = estimate,
                      feed' = IF UseLatency THEN Append(feed, Picture(levels', joins))
                              ELSE <<Picture(levels', joins)>>,
                      SizesIn(r) <= SizesIn(levels[p]) + d, OursOnce(r),
                      \/ /\ order' = order /\ (HasOurs(r) <=> HasOurs(levels[p]))
                         /\ HasOurs(levels[p]) => Ahead(r) <= Ahead(levels[p])
                      \/ order' = NoOrderOut /\ HasOurs(levels[p]) /\ ~HasOurs(r)
               PROVE  QueueInv'
  OBVIOUS
<1>b. FeedGrows /\ FeedBounds /\ SentBefore /\ EstimateBounds
  BY <1>a DEF QueueInv
<1>c. SizesIn(r) <= SizesIn(levels[p]) + d /\ OursOnce(r) /\ estimate' = estimate
  BY <1>a
<1>d. \/ /\ order' = order /\ (HasOurs(r) <=> HasOurs(levels[p]))
         /\ HasOurs(levels[p]) => Ahead(r) <= Ahead(levels[p])
      \/ order' = NoOrderOut /\ HasOurs(levels[p]) /\ ~HasOurs(r)
  BY <1>a
<1>0. /\ QueueTypes /\ OursWhereItRests
      /\ levels = [h \in PricesHere |-> levels[h]] /\ \A h \in PricesHere : levels[h] \in Seq(Nat)
      /\ order \in [state : {"none", "sent", "resting"}, price : PricesHere, seen : Nat, landed : Nat]
      /\ estimate \in [on : BOOLEAN, price : PricesHere, ahead : Nat]
  BY <1>a DEF QueueInv, QueueTypes
<1>1. /\ levels' = [h \in PricesHere |-> levels'[h]]
      /\ \A h \in PricesHere : levels'[h] = IF h = p THEN r ELSE levels[h]
      /\ \A h \in PricesHere : levels'[h] \in Seq(Nat)
  BY <1>0, <1>a
<1>2. /\ joins \in [PricesHere -> Nat]
      /\ \A h \in PricesHere : joins[h] = IF h = p THEN Now.joined[h] + d ELSE Now.joined[h]
      /\ \A h \in PricesHere : Now.joined[h] \in Nat /\ joins[h] \in Nat /\ Now.joined[h] <= joins[h]
  <2>1. Now.joined \in [PricesHere -> Nat] /\ \A h \in PricesHere : Now.joined[h] \in Nat
    BY <1>0, PictureIs
  <2>2. /\ joins \in [PricesHere -> Nat]
        /\ \A h \in PricesHere : joins[h] = IF h = p THEN Now.joined[h] + d ELSE Now.joined[h]
    BY <1>a, <2>1
  <2>3. ASSUME NEW h \in PricesHere
        PROVE  Now.joined[h] \in Nat /\ joins[h] \in Nat /\ Now.joined[h] <= joins[h]
    <3>1. Now.joined[h] \in Nat
      BY <2>1
    <3>2. joins[h] = Now.joined[h] + d \/ joins[h] = Now.joined[h]
      BY <2>2
    <3> QED
      BY <3>1, <3>2
  <2> QED
    BY <2>2, <2>3
<1> DEFINE pic == Picture(levels', joins)
<1>3. /\ pic \in Pictures /\ pic.joined = joins
      /\ \A h \in PricesHere : pic.size[h] = SizesIn(levels'[h])
  BY <1>1, <1>2, PictureOf
<1>4. feed' = IF UseLatency THEN Append(feed, pic) ELSE <<pic>>
  BY <1>a
<1> HIDE DEF pic
<1>5. /\ feed' \in Seq(Pictures) /\ feed' # <<>> /\ Now' = pic /\ Now.joined' = joins
      /\ Len(feed') \in Nat \ {0} /\ feed'[Len(feed')] = pic
      /\ \A i \in 1 .. Len(feed') : i # Len(feed') => i \in 1 .. Len(feed) /\ feed'[i] = feed[i]
  BY <1>0, <1>3, <1>4, FeedIs
<1>6. order' = order \/ order' = [state |-> "none", price |-> Touch, seen |-> 0, landed |-> 0]
  BY <1>d DEF NoOrderOut
<1>7. QueueTypes'
  BY <1>0, <1>1, <1>5, <1>6, <1>c, TouchIsHere DEF QueueTypes
<1>8. OursWhereItRests'
  <2>1. \A h \in PricesHere : OursOnce(levels[h]) /\ (HasOurs(levels[h]) <=> order.state = "resting" /\ order.price = h)
    BY <1>0 DEF OursWhereItRests
  <2>2. CASE order' = order /\ (HasOurs(r) <=> HasOurs(levels[p]))
    BY <1>1, <1>c, <2>1, <2>2 DEF OursWhereItRests
  <2>3. CASE order' = NoOrderOut /\ HasOurs(levels[p]) /\ ~HasOurs(r)
    <3>1. order.state = "resting" /\ order.price = p /\ order'.state = "none"
      BY <2>1, <2>3 DEF NoOrderOut
    <3>2. \A h \in PricesHere : h # p => ~HasOurs(levels[h])
      BY <2>1, <3>1
    <3> QED
      BY <1>1, <1>c, <2>1, <2>3, <3>1, <3>2 DEF OursWhereItRests
  <2> QED
    BY <1>d, <2>2, <2>3
\* What is there grows by no more than what joins, and no more is ahead of us.
<1>9. \A h \in PricesHere :
        /\ SizesIn(levels[h]) \in Nat /\ SizesIn(levels'[h]) \in Nat
        /\ SizesIn(levels'[h]) <= SizesIn(levels[h]) + (joins[h] - Now.joined[h])
  <2> SUFFICES ASSUME NEW h \in PricesHere
               PROVE  /\ SizesIn(levels[h]) \in Nat /\ SizesIn(levels'[h]) \in Nat
                      /\ SizesIn(levels'[h]) <= SizesIn(levels[h]) + (joins[h] - Now.joined[h])
    OBVIOUS
  <2>1. SizesIn(levels[h]) \in Nat /\ SizesIn(levels'[h]) \in Nat /\ Now.joined[h] \in Nat
    BY <1>0, <1>1, <1>2, SizesAreSizes
  <2>2. CASE h = p
    <3>1. levels'[h] = r /\ joins[h] = Now.joined[h] + d
      BY <1>1, <1>2, <2>2
    <3>2. SizesIn(levels'[h]) <= SizesIn(levels[h]) + d
      BY <1>c, <2>2, <3>1
    <3> QED
      BY <2>1, <3>1, <3>2
  <2>3. CASE h # p
    <3>1. levels'[h] = levels[h] /\ joins[h] = Now.joined[h]
      BY <1>1, <1>2, <2>3
    <3> QED
      BY <2>1, <3>1
  <2> QED
    BY <2>2, <2>3
<1>10. ASSUME order'.state = "resting"
       PROVE  /\ order' = order /\ order.price \in PricesHere
              /\ TrueAhead \in Nat /\ TrueAhead' \in Nat /\ TrueAhead' <= TrueAhead
              /\ TrueAhead' <= SizesIn(levels'[order.price])
  <2>1. order' = order /\ (HasOurs(r) <=> HasOurs(levels[p]))
        /\ (HasOurs(levels[p]) => Ahead(r) <= Ahead(levels[p]))
    BY <1>10, <1>d DEF NoOrderOut
  <2> DEFINE h == order.price
  <2>2. h \in PricesHere
    BY <1>0
  <2>3. HasOurs(levels[h]) /\ OursOnce(levels[h]) /\ HasOurs(levels'[h]) /\ OursOnce(levels'[h])
    BY <1>0, <1>8, <1>10, <2>1, <2>2 DEF OursWhereItRests
  <2>4. TrueAhead = Ahead(levels[h]) /\ TrueAhead' = Ahead(levels'[h])
    BY <2>1 DEF TrueAhead
  <2>5. /\ Ahead(levels[h]) \in Nat /\ Ahead(levels'[h]) \in Nat
        /\ Ahead(levels'[h]) <= SizesIn(levels'[h])
    BY <1>0, <1>1, <2>2, <2>3, AheadIsASize
  <2> HIDE DEF h
  <2>6. Ahead(levels'[h]) <= Ahead(levels[h])
    <3>1. CASE h = p
      <4>1. levels'[h] = r /\ levels[h] = levels[p]
        BY <1>1, <2>2, <3>1
      <4>2. Ahead(r) <= Ahead(levels[p])
        BY <2>1, <2>3, <4>1
      <4> QED
        BY <4>1, <4>2
    <3>2. CASE h # p
      <4>1. levels'[h] = levels[h]
        BY <1>1, <2>2, <3>2
      <4> QED
        BY <2>5, <4>1
    <3> QED
      BY <3>1, <3>2
  <2> QED
    BY <2>1, <2>2, <2>4, <2>5, <2>6 DEF h
\* So every pair goes on bounding.
<1>11. ASSUME NEW h \in PricesHere, NEW shown \in Nat, NEW joined \in Nat, Bounds(shown, joined, h)
       PROVE  Bounds(shown, joined, h)'
  <2>1. /\ SizesIn(levels[h]) \in Nat /\ SizesIn(levels'[h]) \in Nat
        /\ Now.joined[h] \in Nat /\ Now.joined'[h] \in Nat
        /\ SizesIn(levels'[h]) <= SizesIn(levels[h]) + (Now.joined'[h] - Now.joined[h])
    BY <1>2, <1>5, <1>9
  <2>2. order'.state = "resting" /\ order'.price = h =>
           /\ order.state = "resting" /\ order.price = h /\ order'.landed = order.landed
           /\ order.landed \in Nat
           /\ TrueAhead \in Nat /\ TrueAhead' \in Nat /\ TrueAhead' <= TrueAhead
    BY <1>0, <1>10
  <2> QED
    BY <1>11, <2>1, <2>2, BoundsKept
<1>12. FeedBounds'
  <2> SUFFICES ASSUME NEW i \in 1 .. Len(feed'), NEW h \in PricesHere
               PROVE  Bounds(feed[i].size[h], feed[i].joined[h], h)'
    BY DEF FeedBounds
  <2>1. CASE i # Len(feed')
    <3>1. i \in 1 .. Len(feed) /\ feed'[i] = feed[i]
      BY <1>5, <2>1
    <3> DEFINE shown == feed[i].size[h]
               joined == feed[i].joined[h]
    <3>2. shown \in Nat /\ joined \in Nat /\ Bounds(shown, joined, h)
      BY <1>0, <1>b, <3>1, PictureIs DEF FeedBounds
    <3>3. feed'[i].size[h] = shown /\ feed'[i].joined[h] = joined
      BY <3>1
    <3> HIDE DEF shown, joined
    <3>4. \A x \in Nat, y \in Nat : Bounds(x, y, h) => Bounds(x, y, h)'
      BY <1>11
    <3> QED
      BY <3>2, <3>3, <3>4 DEF Bounds, Between
  <2>2. CASE i = Len(feed')
    <3>1. feed'[i].size[h] = SizesIn(levels'[h]) /\ feed'[i].joined[h] = joins[h] /\ Now.joined' = joins
      BY <1>3, <1>5, <2>2
    <3>2. SizesIn(levels'[h]) \in Nat /\ joins[h] \in Nat
      BY <1>2, <1>9
    <3>3. SizesIn(levels'[h]) <= SizesIn(levels'[h]) + (joins[h] - joins[h])
      BY <3>2
    <3>4. ASSUME order'.state = "resting", order'.price = h
          PROVE  TrueAhead' <= SizesIn(levels'[h]) + Between(joins[h])'
      <4>1. TrueAhead' <= SizesIn(levels'[h]) /\ TrueAhead' \in Nat /\ order' = order /\ order.landed \in Nat
        BY <1>0, <1>10, <3>4
      <4> DEFINE b == IF order'.landed > joins[h] THEN order'.landed - joins[h] ELSE 0
      <4>2. b \in Nat
        BY <3>2, <4>1
      <4> HIDE DEF b
      <4>3. TrueAhead' <= SizesIn(levels'[h]) + b
        BY <3>2, <4>1, <4>2
      <4> QED
        BY <4>3 DEF b, Between
    <3> QED
      BY <3>1, <3>3, <3>4 DEF Bounds, Between
  <2> QED
    BY <2>1, <2>2
<1>13. FeedGrows'
  <2> SUFFICES ASSUME NEW i \in 1 .. Len(feed'), NEW j \in 1 .. Len(feed'), NEW h \in PricesHere, i <= j
               PROVE  feed'[i].joined[h] <= feed'[j].joined[h]
    BY DEF FeedGrows
  <2>0. Len(feed') \in Nat
    BY <1>5
  <2>1. CASE j # Len(feed')
    <3>1. i # Len(feed')
      BY <2>0, <2>1
    <3>2. i \in 1 .. Len(feed) /\ j \in 1 .. Len(feed) /\ feed'[i] = feed[i] /\ feed'[j] = feed[j]
      BY <1>5, <2>1, <3>1
    <3> QED
      BY <1>b, <3>2 DEF FeedGrows
  <2>2. CASE j = Len(feed') /\ i # Len(feed')
    <3>1. i \in 1 .. Len(feed) /\ feed'[i] = feed[i] /\ feed'[j].joined[h] = joins[h]
      BY <1>3, <1>5, <2>2
    <3>2. feed[i].joined[h] <= Now.joined[h] /\ feed[i].joined[h] \in Nat
      <4>1. Len(feed) \in 1 .. Len(feed) /\ i <= Len(feed) /\ feed[i].joined[h] \in Nat
        <5>1. Len(feed) \in Nat /\ Len(feed) \in 1 .. Len(feed)
          BY <1>0, PictureIs
        <5>2. feed[i].joined[h] \in Nat
          BY <1>0, <3>1, PictureIs
        <5> QED
          BY <3>1, <5>1, <5>2
      <4> QED
        BY <1>b, <3>1, <4>1 DEF FeedGrows, Now
    <3>3. Now.joined[h] \in Nat /\ joins[h] \in Nat /\ Now.joined[h] <= joins[h]
      BY <1>2
    <3>4. feed[i].joined[h] <= joins[h]
      <4>1. feed[i].joined[h] \in Nat
        BY <1>0, <3>1, PictureIs
      <4> QED
        BY <3>2, <3>3, <4>1, SMTT(30)
    <3> QED
      BY <3>1, <3>4
  <2>3. CASE j = Len(feed') /\ i = Len(feed')
    BY <1>2, <1>3, <1>5, <2>3
  <2> QED
    BY <2>1, <2>2, <2>3
<1>14. SentBefore'
  <2> SUFFICES ASSUME order'.state # "none"
               PROVE  /\ \A i \in 1 .. Len(feed') : order'.seen <= feed'[i].joined[order'.price]
                      /\ order'.state = "resting" => order'.seen <= order'.landed
    BY DEF SentBefore
  <2>1. order' = order
    BY <1>6
  <2>2. order.price \in PricesHere /\ order.seen \in Nat
    BY <1>0
  <2>3. /\ \A i \in 1 .. Len(feed) : order.seen <= feed[i].joined[order.price]
        /\ order.state = "resting" => order.seen <= order.landed
    BY <1>b, <2>1 DEF SentBefore
  <2>4. order.seen <= joins[order.price]
    <3>1. Len(feed) \in 1 .. Len(feed)
      BY <1>0, PictureIs
    <3>2. order.seen <= Now.joined[order.price]
      BY <2>3, <3>1 DEF Now
    <3> QED
      BY <1>2, <2>2, <3>2
  <2>5. ASSUME NEW i \in 1 .. Len(feed') PROVE order.seen <= feed'[i].joined[order.price]
    <3>1. CASE i # Len(feed')
      BY <1>5, <2>3, <3>1
    <3>2. CASE i = Len(feed')
      BY <1>3, <1>5, <2>4, <3>2
    <3> QED
      BY <3>1, <3>2
  <2> QED
    BY <2>1, <2>3, <2>5
<1>15. EstimateBounds'
  <2> SUFFICES ASSUME order'.state # "none", estimate.on, estimate.price = order'.price
               PROVE  Bounds(estimate.ahead, order.seen, order.price)'
    BY <1>c DEF EstimateBounds
  <2>1. order' = order
    BY <1>6
  <2> DEFINE shown == estimate.ahead
             joined == order.seen
             h == order.price
  <2>2. shown \in Nat /\ joined \in Nat /\ h \in PricesHere /\ Bounds(shown, joined, h)
    BY <1>0, <1>b, <2>1 DEF EstimateBounds
  <2>3. estimate'.ahead = shown /\ order'.seen = joined /\ order'.price = h
    BY <1>c, <2>1
  <2> HIDE DEF shown, joined, h
  <2>4. \A x \in Nat, y \in Nat, z \in PricesHere : Bounds(x, y, z) => Bounds(x, y, z)'
    BY <1>11
  <2> QED
    BY <2>2, <2>3, <2>4 DEF Bounds, Between
<1> QED
  BY <1>7, <1>8, <1>12, <1>13, <1>14, <1>15 DEF QueueInv

LEMMA NothingJoins ==
  ASSUME NEW f \in [PricesHere -> Nat], NEW p \in PricesHere
  PROVE  f = [f EXCEPT ![p] = @ + 0]
<1>1. f[p] \in Nat
  OBVIOUS
<1>2. f[p] + 0 = f[p]
  BY <1>1
<1>3. f = [f EXCEPT ![p] = f[p]]
  OBVIOUS
<1> QED
  BY <1>2, <1>3

LEMMA MarketKeepsInv ==
  ASSUME QueueInv, MarketJoins \/ MarketCancels
  PROVE  QueueInv'
<1>1. /\ \A p \in PricesHere : levels[p] \in Seq(Nat) /\ OursOnce(levels[p])
      /\ Now.joined \in [PricesHere -> Nat] /\ \A p \in PricesHere : Now.joined[p] \in Nat
  BY PictureIs DEF QueueInv, QueueTypes, OursWhereItRests
<1>2. CASE MarketJoins
  <2>0. PICK p \in PricesHere, n \in LevelSizes :
          /\ levels' = [levels EXCEPT ![p] = Append(@, n)]
          /\ Publish(levels', [Now.joined EXCEPT ![p] = @ + n]) /\ UNCHANGED <<order, estimate>>
    BY <1>2 DEF MarketJoins
  <2>1. n \in Nat \ {0}
    BY SizesAssumption
  <2> DEFINE r == Append(levels[p], n)
             joins == [Now.joined EXCEPT ![p] = @ + n]
  <2>2. /\ r \in Seq(Nat) /\ OursOnce(r) /\ (HasOurs(r) <=> HasOurs(levels[p]))
        /\ HasOurs(levels[p]) => Ahead(r) = Ahead(levels[p])
    BY <1>1, <2>1, JoiningKeepsOurs
  <2>3. HasOurs(levels[p]) => Ahead(levels[p]) \in Nat
    BY <1>1, AheadIsASize
  <2>4. SizesIn(r) <= SizesIn(levels[p]) + n
    BY <1>1, <2>1, JoiningAddsItsSize
  <2>5. /\ levels' = [levels EXCEPT ![p] = r] /\ order' = order /\ estimate' = estimate
        /\ feed' = IF UseLatency THEN Append(feed, Picture(levels', joins))
                   ELSE <<Picture(levels', joins)>>
    BY <2>0 DEF Publish
  <2>6. joins = [Now.joined EXCEPT ![p] = @ + n]
    OBVIOUS
  <2> HIDE DEF r, joins
  <2>7. HasOurs(levels[p]) => Ahead(r) <= Ahead(levels[p])
    BY <2>2, <2>3
  <2>8. n \in Nat
    BY <2>1
  <2> QED
    BY <2>2, <2>4, <2>5, <2>6, <2>7, <2>8, OneQueueChanges
<1>3. CASE MarketCancels
  <2>0. PICK p \in PricesHere : \E i \in DOMAIN levels[p] :
          /\ levels[p][i] # Ours
          /\ levels' = [levels EXCEPT ![p] = TX!RemoveAt(@, i)]
          /\ Publish(levels', Now.joined) /\ UNCHANGED <<order, estimate>>
    BY <1>3 DEF MarketCancels
  <2>1. PICK i \in DOMAIN levels[p] :
          /\ levels[p][i] # Ours
          /\ levels' = [levels EXCEPT ![p] = TX!RemoveAt(@, i)]
          /\ Publish(levels', Now.joined) /\ UNCHANGED <<order, estimate>>
    BY <2>0
  <2>2. i \in 1 .. Len(levels[p])
    BY <1>1, <2>1, LenProperties
  <2> DEFINE r == TX!RemoveAt(levels[p], i)
             joins == Now.joined
  <2>3. r \in Seq(Nat) /\ LeavesOut(r, levels[p], i)
    BY <1>1, <2>2, RemoveAtIs, RemovalLeavesOut
  <2>4. /\ levels' = [levels EXCEPT ![p] = r] /\ order' = order /\ estimate' = estimate
        /\ feed' = IF UseLatency THEN Append(feed, Picture(levels', joins))
                   ELSE <<Picture(levels', joins)>>
    BY <2>1 DEF Publish
  <2>5. joins = [Now.joined EXCEPT ![p] = @ + 0]
    BY <1>1, NothingJoins
  <2> HIDE DEF r, joins
  <2>6. /\ OursOnce(r) /\ (HasOurs(r) <=> HasOurs(levels[p]))
        /\ HasOurs(levels[p]) => Ahead(r) <= Ahead(levels[p])
    BY <1>1, <2>1, <2>3, LeavingKeepsOurs
  <2>7. SizesIn(r) <= SizesIn(levels[p]) + 0
    <3>1. SizesIn(r) <= SizesIn(levels[p])
      BY <1>1, <2>3, LeavingShowsLess
    <3>2. SizesIn(levels[p]) \in Nat
      BY <1>1, SizesAreSizes
    <3> QED
      BY <3>1, <3>2
  <2> QED
    BY <2>3, <2>4, <2>5, <2>6, <2>7, OneQueueChanges
<1> QED
  BY <1>2, <1>3

LEMMA TradesKeepInv ==
  ASSUME QueueInv, MarketTrades
  PROVE  QueueInv'
<1>1. PICK p \in PricesHere :
        /\ levels[p] # <<>>
        /\ levels' = [levels EXCEPT ![p] = IF Head(@) > 1 THEN <<Head(@) - 1>> \o Tail(@) ELSE Tail(@)]
        /\ order' = IF Head(levels[p]) = Ours THEN NoOrderOut ELSE order
        /\ Publish(levels', Now.joined) /\ UNCHANGED estimate
  BY DEF MarketTrades
<1> DEFINE q == levels[p]
           r == IF Head(q) > 1 THEN <<Head(q) - 1>> \o Tail(q) ELSE Tail(q)
           joins == Now.joined
<1>2. q \in Seq(Nat) /\ OursOnce(q) /\ joins \in [PricesHere -> Nat] /\ joins[p] \in Nat
  BY PictureIs DEF QueueInv, QueueTypes, OursWhereItRests
<1>3. /\ levels' = [levels EXCEPT ![p] = r] /\ estimate' = estimate
      /\ feed' = IF UseLatency THEN Append(feed, Picture(levels', joins))
                 ELSE <<Picture(levels', joins)>>
  BY <1>1 DEF Publish
<1>4. joins = [Now.joined EXCEPT ![p] = @ + 0]
  BY <1>2, NothingJoins
<1>5. q # <<>> /\ 1 \in 1 .. Len(q) /\ Head(q) = q[1] /\ Head(q) \in Nat /\ Len(q) \in Nat
  BY <1>1, <1>2, TradeLeavesOut, LenProperties
<1>6. PICK i : /\ r \in Seq(Nat) /\ LeavesOut(r, q, i)
               /\ Head(q) # Ours => (i \in 1 .. Len(q) => q[i] # Ours)
  <2>1. CASE Head(q) > 1
    <3>1. r = <<Head(q) - 1>> \o Tail(q)
      BY <2>1
    <3>2. r \in Seq(Nat) /\ LeavesOut(r, q, Len(q) + 1)
      BY <1>2, <1>5, <2>1, <3>1, TradeLeavesOut
    <3>3. Len(q) + 1 \notin 1 .. Len(q)
      BY <1>5
    <3> HIDE DEF r, q
    <3> QED
      BY <3>2, <3>3
  <2>2. CASE ~(Head(q) > 1)
    <3>1. r = Tail(q)
      BY <2>2
    <3>2. r \in Seq(Nat) /\ LeavesOut(r, q, 1)
      BY <1>2, <1>5, <3>1, TradeLeavesOut
    <3>3. Head(q) # Ours => q[1] # Ours
      BY <1>5
    <3> HIDE DEF r, q
    <3> QED
      BY <3>2, <3>3
  <2> QED
    BY <2>1, <2>2
<1>7. SizesIn(r) <= SizesIn(q) + 0
  <2> HIDE DEF r, q
  <2>1. SizesIn(r) <= SizesIn(q)
    BY <1>2, <1>6, LeavingShowsLess
  <2>2. SizesIn(q) \in Nat /\ SizesIn(r) \in Nat
    BY <1>2, <1>6, SizesAreSizes
  <2> QED
    BY <2>1, <2>2
<1>8. CASE Head(q) # Ours
  <2>1. order' = order
    BY <1>1, <1>8
  <2> HIDE DEF r
  <2>2. /\ OursOnce(r) /\ (HasOurs(r) <=> HasOurs(q))
        /\ HasOurs(q) => Ahead(r) <= Ahead(q)
    BY <1>2, <1>6, <1>8, LeavingKeepsOurs
  <2> HIDE DEF joins
  <2> QED
    BY <1>3, <1>4, <1>6, <1>7, <2>1, <2>2, OneQueueChanges
<1>9. CASE Head(q) = Ours
  <2>1. r = Tail(q)
    BY <1>9 DEF Ours
  <2>2. r \in Seq(Nat) /\ ~HasOurs(r)
    BY <1>2, <1>5, <1>9, <2>1, OursFilledOut
  <2>3. order' = NoOrderOut
    BY <1>1, <1>9
  <2> HIDE DEF r, joins
  <2>4. OursOnce(r)
    BY <2>2, NoPlaceIsNone DEF OursOnce
  <2>5. HasOurs(q)
    BY <1>2, <1>5, <1>9, NoPlaceIsNone
  <2> QED
    BY <1>3, <1>4, <1>7, <2>2, <2>3, <2>4, <2>5, OneQueueChanges
<1> QED
  BY <1>8, <1>9

\* What there is where we land is then ahead of us.
LEMMA LandsKeepsInv ==
  ASSUME QueueInv, Lands
  PROVE  QueueInv'
<1>a. /\ FeedGrows /\ FeedBounds /\ SentBefore /\ EstimateBounds
      /\ QueueTypes /\ OursWhereItRests
  BY DEF QueueInv
<1> DEFINE h == order.price
           r == Append(levels[h], Ours)
<1>0. /\ levels = [p \in PricesHere |-> levels[p]] /\ \A p \in PricesHere : levels[p] \in Seq(Nat)
      /\ order \in [state : {"none", "sent", "resting"}, price : PricesHere, seen : Nat, landed : Nat]
      /\ h \in PricesHere /\ order.seen \in Nat /\ estimate.ahead \in Nat
  BY <1>a DEF QueueTypes
<1>1. /\ order.state = "sent" /\ order' = [order EXCEPT !.state = "resting", !.landed = Now.joined[h]]
      /\ levels' = [levels EXCEPT ![h] = r] /\ estimate' = estimate /\ feed' = feed
  BY DEF Lands, JoinBack
<1>2. Now.joined[h] \in Nat /\ Now' = Now
  BY <1>0, <1>1, <1>a, PictureIs DEF Now
<1>3. /\ order'.state = "resting" /\ order'.price = h /\ order'.seen = order.seen
      /\ order'.landed = Now.joined[h]
      /\ order' \in [state : {"none", "sent", "resting"}, price : PricesHere, seen : Nat, landed : Nat]
  BY <1>0, <1>1, <1>2
<1>4. \A p \in PricesHere : OursOnce(levels[p]) /\ ~HasOurs(levels[p])
  BY <1>1, <1>a DEF OursWhereItRests
<1>5. /\ r \in Seq(Nat) /\ OursOnce(r) /\ HasOurs(r)
      /\ Ahead(r) = SizesIn(levels[h]) /\ SizesIn(r) <= SizesIn(levels[h])
      /\ SizesIn(r) \in Nat
  <2>1. levels[h] \in Seq(Nat) /\ ~HasOurs(levels[h])
    BY <1>0, <1>4
  <2>2. /\ r \in Seq(Nat) /\ OursOnce(r) /\ HasOurs(r)
        /\ Ahead(r) = SizesIn(levels[h]) /\ SizesIn(r) <= SizesIn(levels[h])
    BY <2>1, WeJoinOnce, WeJoinBehindAll
  <2> HIDE DEF r
  <2> QED
    BY <2>2, SizesAreSizes
<1> HIDE DEF r, h
<1>6. /\ levels' = [p \in PricesHere |-> levels'[p]]
      /\ \A p \in PricesHere : levels'[p] = IF p = h THEN r ELSE levels[p]
  BY <1>0, <1>1
<1>7. QueueTypes'
  BY <1>0, <1>1, <1>3, <1>5, <1>6, <1>a DEF QueueTypes
<1>8. OursWhereItRests'
  BY <1>3, <1>4, <1>5, <1>6 DEF OursWhereItRests
<1>9. TrueAhead' = SizesIn(levels[h])
  BY <1>0, <1>3, <1>5, <1>6 DEF TrueAhead
<1>10. \A p \in PricesHere : SizesIn(levels[p]) \in Nat /\ SizesIn(levels'[p]) <= SizesIn(levels[p])
                             /\ SizesIn(levels'[p]) \in Nat
  <2> SUFFICES ASSUME NEW p \in PricesHere
               PROVE  SizesIn(levels[p]) \in Nat /\ SizesIn(levels'[p]) <= SizesIn(levels[p])
                      /\ SizesIn(levels'[p]) \in Nat
    OBVIOUS
  <2>1. SizesIn(levels[p]) \in Nat
    BY <1>0, SizesAreSizes
  <2>2. CASE p = h
    BY <1>5, <1>6, <2>1, <2>2
  <2>3. CASE p # h
    BY <1>6, <2>1, <2>3
  <2> QED
    BY <2>2, <2>3
<1>11. ASSUME NEW p \in PricesHere, NEW shown \in Nat, NEW joined \in Nat, Bounds(shown, joined, p),
              p = h => joined <= Now.joined[h]
       PROVE  Bounds(shown, joined, p)'
  <2>1. SizesIn(levels[p]) <= shown + (Now.joined[p] - joined)
    BY <1>11 DEF Bounds
  <2>2. Now'.joined[p] = Now.joined[p] /\ Now.joined[p] \in Nat
    BY <1>2, <1>a, PictureIs
  <2>3. SizesIn(levels'[p]) <= shown + (Now'.joined[p] - joined)
    BY <1>10, <2>1, <2>2
  <2>4. ASSUME order'.price = p PROVE TrueAhead' <= shown + Between(joined)'
    <3>1. p = h
      BY <1>3, <2>4
    <3>2. TrueAhead' = SizesIn(levels[p]) /\ SizesIn(levels[p]) \in Nat
      BY <1>9, <1>10, <3>1
    <3>3. joined <= Now.joined[p] /\ order'.landed = Now.joined[p]
      BY <1>3, <1>11, <3>1
    <3>4. Between(joined)' = Now.joined[p] - joined
      BY <2>2, <3>3 DEF Between
    <3> QED
      BY <2>1, <3>2, <3>4
  <2> QED
    BY <2>3, <2>4 DEF Bounds
<1>12. /\ Len(feed) \in 1 .. Len(feed)
       /\ \A i \in 1 .. Len(feed), p \in PricesHere :
            /\ feed[i].size[p] \in Nat /\ feed[i].joined[p] \in Nat
            /\ feed[i].joined[p] <= Now.joined[p]
  <2>1. /\ Len(feed) \in 1 .. Len(feed) /\ Len(feed) \in Nat
        /\ \A i \in 1 .. Len(feed), p \in PricesHere : feed[i].size[p] \in Nat /\ feed[i].joined[p] \in Nat
    BY <1>a, PictureIs
  <2>2. ASSUME NEW i \in 1 .. Len(feed), NEW p \in PricesHere
        PROVE  feed[i].joined[p] <= Now.joined[p]
    <3>1. i <= Len(feed)
      BY <2>1
    <3> QED
      BY <1>a, <2>1, <3>1 DEF FeedGrows, Now
  <2> QED
    BY <2>1, <2>2
<1>13. FeedBounds'
  <2> SUFFICES ASSUME NEW i \in 1 .. Len(feed), NEW p \in PricesHere
               PROVE  Bounds(feed[i].size[p], feed[i].joined[p], p)'
    BY <1>1 DEF FeedBounds
  <2> DEFINE shown == feed[i].size[p]
             joined == feed[i].joined[p]
  <2>1. shown \in Nat /\ joined \in Nat /\ Bounds(shown, joined, p) /\ joined <= Now.joined[p]
    BY <1>12, <1>a DEF FeedBounds
  <2>2. feed'[i].size[p] = shown /\ feed'[i].joined[p] = joined
    BY <1>1
  <2> HIDE DEF shown, joined
  <2>3. Bounds(shown, joined, p) /\ (p = h => joined <= Now.joined[h])
    BY <2>1
  <2>4. \A x \in Nat, y \in Nat :
          Bounds(x, y, p) /\ (p = h => y <= Now.joined[h]) => Bounds(x, y, p)'
    BY <1>11
  <2> QED
    BY <2>1, <2>2, <2>3, <2>4 DEF Bounds, Between
<1>14. FeedGrows'
  BY <1>1, <1>a DEF FeedGrows
<1>15. order.seen <= Now.joined[h]
  BY <1>1, <1>12, <1>a DEF SentBefore, Now, h
<1>16. SentBefore'
  BY <1>1, <1>3, <1>15, <1>a DEF SentBefore, h
<1>17. EstimateBounds'
  <2> SUFFICES ASSUME estimate.on, estimate.price = h
               PROVE  Bounds(estimate.ahead, order.seen, order.price)'
    BY <1>1, <1>3 DEF EstimateBounds
  <2> DEFINE shown == estimate.ahead
             joined == order.seen
  <2>1. shown \in Nat /\ joined \in Nat /\ h \in PricesHere /\ Bounds(shown, joined, h)
    BY <1>0, <1>1, <1>a DEF EstimateBounds, h
  <2>2. estimate'.ahead = shown /\ order'.seen = joined /\ order'.price = h /\ joined <= Now.joined[h]
    BY <1>1, <1>3, <1>15
  <2> HIDE DEF shown, joined
  <2>3. \A x \in Nat, y \in Nat, p \in PricesHere :
          Bounds(x, y, p) /\ (p = h => y <= Now.joined[h]) => Bounds(x, y, p)'
    BY <1>11
  <2> QED
    BY <2>1, <2>2, <2>3 DEF Bounds, Between
<1> QED
  BY <1>7, <1>8, <1>13, <1>14, <1>16, <1>17 DEF QueueInv

\* The view takes the next picture.
LEMMA FeedArrivesKeepsInv ==
  ASSUME QueueInv, FeedArrives
  PROVE  QueueInv'
<1>a. /\ FeedGrows /\ FeedBounds /\ SentBefore /\ EstimateBounds
      /\ QueueTypes /\ OursWhereItRests
  BY DEF QueueInv
<1>1. /\ Len(feed) > 1 /\ feed' = Tail(feed) /\ feed \in Seq(Pictures) /\ feed # <<>>
      /\ levels' = levels /\ order' = order /\ estimate' = estimate
  BY <1>a DEF FeedArrives, QueueTypes
<1> DEFINE n == Len(feed)
           g == Tail(feed)
<1>2. n \in Nat /\ g \in Seq(Pictures) /\ Len(g) = n - 1 /\ \A i \in 1 .. n - 1 : g[i] = feed[i + 1]
  BY <1>1, HeadTailProperties, LenProperties
<1>3. feed' = g /\ n > 1
  BY <1>1
<1> HIDE DEF n, g
<1>4. feed' \in Seq(Pictures) /\ Len(feed') = n - 1 /\ \A i \in 1 .. n - 1 : feed'[i] = feed[i + 1]
  BY <1>2, <1>3
<1>5. feed' # <<>>
  <2>1. Len(feed') # 0
    BY <1>2, <1>3, <1>4
  <2> QED
    BY <2>1, EmptySeq
<1>6. Now' = Now
  <2>1. n - 1 \in 1 .. n - 1 /\ (n - 1) + 1 = n
    BY <1>2, <1>3
  <2>2. feed'[n - 1] = feed[n]
    BY <1>4, <2>1
  <2> QED
    BY <1>4, <2>2 DEF Now, n
<1>7. \A i \in 1 .. Len(feed') : i + 1 \in 1 .. Len(feed) /\ feed'[i] = feed[i + 1]
  <2>1. \A i \in 1 .. n - 1 : i + 1 \in 1 .. n
    BY <1>2
  <2> QED
    BY <1>4, <2>1 DEF n
<1>8. QueueTypes'
  BY <1>1, <1>4, <1>5, <1>a DEF QueueTypes
<1>9. OursWhereItRests'
  BY <1>1, <1>a DEF OursWhereItRests
<1>10. TrueAhead' = TrueAhead /\ \A joined : Between(joined)' = Between(joined)
  BY <1>1 DEF TrueAhead, Between
<1>11. FeedBounds'
  <2> SUFFICES ASSUME NEW i \in 1 .. Len(feed'), NEW p \in PricesHere
               PROVE  Bounds(feed[i].size[p], feed[i].joined[p], p)'
    BY DEF FeedBounds
  <2>1. Bounds(feed[i + 1].size[p], feed[i + 1].joined[p], p)
    BY <1>7, <1>a DEF FeedBounds
  <2>2. feed'[i].size[p] = feed[i + 1].size[p] /\ feed'[i].joined[p] = feed[i + 1].joined[p]
    BY <1>7
  <2> QED
    BY <1>1, <1>6, <1>10, <2>1, <2>2 DEF Bounds, Between
<1>12. FeedGrows'
  <2> SUFFICES ASSUME NEW i \in 1 .. Len(feed'), NEW j \in 1 .. Len(feed'), NEW p \in PricesHere, i <= j
               PROVE  feed'[i].joined[p] <= feed'[j].joined[p]
    BY DEF FeedGrows
  <2>1. i + 1 <= j + 1 /\ i + 1 \in 1 .. Len(feed) /\ j + 1 \in 1 .. Len(feed)
    BY <1>7
  <2>2. feed[i + 1].joined[p] <= feed[j + 1].joined[p]
    BY <1>a, <2>1 DEF FeedGrows
  <2> QED
    BY <1>7, <2>2
<1>13. SentBefore'
  BY <1>1, <1>7, <1>a DEF SentBefore
<1>14. EstimateBounds'
  BY <1>1, <1>6, <1>10, <1>a DEF EstimateBounds, Bounds, Between
<1> QED
  BY <1>8, <1>9, <1>11, <1>12, <1>13, <1>14 DEF QueueInv

\* Our order and its queues after the driver's turn.
LEMMA WithoutOursIs ==
  ASSUME QueueTypes, OursWhereItRests, NEW p \in PricesHere
  PROVE  /\ WithoutOurs(levels)[p] \in Seq(Nat) /\ OursOnce(WithoutOurs(levels)[p])
         /\ ~HasOurs(WithoutOurs(levels)[p])
         /\ SizesIn(WithoutOurs(levels)[p]) <= SizesIn(levels[p])
<1>1. levels[p] \in Seq(Nat) /\ OursOnce(levels[p])
  BY DEF QueueTypes, OursWhereItRests
<1> DEFINE q == levels[p]
           r == WithoutOurs(levels)[p]
<1>2. r = IF HasOurs(q) THEN TX!RemoveAt(q, OurPlace(q)) ELSE q
  BY DEF WithoutOurs
<1> HIDE DEF r
<1>3. r \in Seq(Nat) /\ ~HasOurs(r)
  BY <1>1, <1>2, OursTakenOut
<1>4. SizesIn(r) <= SizesIn(q)
  <2>1. CASE HasOurs(q)
    <3>1. PICK k \in 1 .. Len(q) : q[k] = Ours
      BY <1>1, <2>1, NoPlaceIsNone
    <3>2. OurPlace(q) = k
      BY <1>1, <3>1, OurPlaceIs
    <3>3. LeavesOut(r, q, k)
      BY <1>1, <1>2, <2>1, <3>2, RemovalLeavesOut
    <3> QED
      BY <1>1, <1>3, <3>3, LeavingShowsLess
  <2>2. CASE ~HasOurs(q)
    <3>1. r = q
      BY <1>2, <2>2
    <3>2. SizesIn(q) \in Nat
      BY <1>1, SizesAreSizes
    <3> QED
      BY <3>1, <3>2
  <2> QED
    BY <2>1, <2>2
<1> QED
  BY <1>3, <1>4, NoPlaceIsNone DEF OursOnce, r

\* track: the estimate is of the order that is out, and a pair that bounds.
LEMMA TrackBounds ==
  ASSUME QueueInv
  PROVE  LET e == Track(estimate, order.state # "none", order.price)
         IN /\ e \in [on : BOOLEAN, price : PricesHere, ahead : Nat]
            /\ order.state = "none" => e.on = FALSE
            /\ order.state # "none" => e.price = order.price /\ Bounds(e.ahead, order.seen, order.price)
<1>a. /\ FeedGrows /\ FeedBounds /\ SentBefore /\ EstimateBounds
      /\ QueueTypes /\ OursWhereItRests
  BY DEF QueueInv
<1> DEFINE h == order.price
           s == Shown(h)
           e == Track(estimate, order.state # "none", h)
<1> SUFFICES /\ e \in [on : BOOLEAN, price : PricesHere, ahead : Nat]
             /\ order.state = "none" => e.on = FALSE
             /\ order.state # "none" => e.price = h /\ Bounds(e.ahead, order.seen, h)
  OBVIOUS
<1>0. /\ \A p \in PricesHere : levels[p] \in Seq(Nat)
      /\ h \in PricesHere /\ order.seen \in Nat /\ order.landed \in Nat
      /\ estimate \in [on : BOOLEAN, price : PricesHere, ahead : Nat]
  BY <1>a DEF QueueTypes
\* The picture shown, with the moment our order was sent.
<1>1. /\ s \in Nat
      /\ order.state # "none" => Bounds(s, order.seen, h)
  <2> DEFINE x == feed[1].joined[h]
  <2>1. /\ 1 \in 1 .. Len(feed) /\ s \in Nat /\ x \in Nat /\ Now.joined[h] \in Nat
    BY <1>0, <1>a, PictureIs DEF Shown
  <2>2. Bounds(s, x, h)
    BY <1>0, <1>a, <2>1 DEF FeedBounds, Shown
  <2>3. order.state # "none" => order.seen <= x
    BY <1>a, <2>1 DEF SentBefore
  <2> HIDE DEF x, s, h
  <2>4. SizesIn(levels[h]) \in Nat
    BY <1>0, SizesAreSizes
  <2>5. ASSUME order.state # "none" PROVE Bounds(s, order.seen, h)
    <3>1. SizesIn(levels[h]) <= s + (Now.joined[h] - x)
      BY <2>2 DEF Bounds
    <3>2. SizesIn(levels[h]) <= s + (Now.joined[h] - order.seen)
      BY <1>0, <2>1, <2>3, <2>4, <2>5, <3>1
    <3>3. ASSUME order.state = "resting", order.price = h
          PROVE  TrueAhead <= s + Between(order.seen)
      <4>1. TrueAhead <= s + Between(x)
        BY <2>2, <3>3 DEF Bounds
      <4>2. HasOurs(levels[h]) /\ OursOnce(levels[h])
        BY <1>0, <1>a, <3>3 DEF OursWhereItRests
      <4>3. TrueAhead \in Nat
        BY <1>0, <3>3, <4>2, AheadIsASize DEF TrueAhead
      <4>4. Between(x) \in Nat /\ Between(order.seen) \in Nat /\ Between(x) <= Between(order.seen)
        BY <1>0, <2>1, <2>3, <2>5 DEF Between
      <4> QED
        BY <2>1, <4>1, <4>3, <4>4
    <3> QED
      BY <3>2, <3>3 DEF Bounds
  <2> QED
    BY <2>1, <2>5
<1> HIDE DEF s, h
<1>2. CASE order.state = "none"
  <2>1. e = [estimate EXCEPT !.on = FALSE, !.ahead = 0]
    BY <1>2 DEF Track
  <2> HIDE DEF e
  <2>2. e \in [on : BOOLEAN, price : PricesHere, ahead : Nat] /\ e.on = FALSE
    BY <1>0, <2>1
  <2> QED
    BY <1>2, <2>2
<1>3. CASE order.state # "none" /\ (~estimate.on \/ h # estimate.price)
  <2>1. e = [on |-> TRUE, price |-> h, ahead |-> s]
    BY <1>3 DEF Track, s
  <2> HIDE DEF e
  <2>2. e \in [on : BOOLEAN, price : PricesHere, ahead : Nat] /\ e.price = h /\ e.ahead = s
    BY <1>0, <1>1, <2>1
  <2> QED
    BY <1>1, <1>3, <2>2
<1>4. CASE order.state # "none" /\ estimate.on /\ h = estimate.price
  <2>1. e = [estimate EXCEPT !.ahead = IF s < @ THEN s ELSE @]
    BY <1>4 DEF Track, s
  <2> HIDE DEF e
  <2>2. /\ e \in [on : BOOLEAN, price : PricesHere, ahead : Nat] /\ e.price = h
        /\ e.ahead = s \/ e.ahead = estimate.ahead
    BY <1>0, <1>1, <1>4, <2>1
  <2>3. Bounds(estimate.ahead, order.seen, h)
    BY <1>4, <1>a DEF EstimateBounds, h
  <2> QED
    BY <1>1, <1>4, <2>2, <2>3
<1> QED
  BY <1>2, <1>3, <1>4

LEMMA DecideKeepsInv ==
  ASSUME QueueInv, Decide
  PROVE  QueueInv'
<1>a. /\ FeedGrows /\ FeedBounds /\ SentBefore /\ EstimateBounds
      /\ QueueTypes /\ OursWhereItRests
  BY DEF QueueInv
<1> DEFINE e == Track(estimate, order.state # "none", order.price)
<1>0. /\ levels = [p \in PricesHere |-> levels[p]] /\ \A p \in PricesHere : levels[p] \in Seq(Nat)
      /\ order \in [state : {"none", "sent", "resting"}, price : PricesHere, seen : Nat, landed : Nat]
      /\ feed \in Seq(Pictures) /\ feed # <<>>
  BY <1>a DEF QueueTypes
<1>1. /\ estimate' = e /\ feed' = feed
      /\ e \in [on : BOOLEAN, price : PricesHere, ahead : Nat]
      /\ order.state = "none" => e.on = FALSE
      /\ order.state # "none" => e.price = order.price /\ Bounds(e.ahead, order.seen, order.price)
  BY TrackBounds DEF Decide
<1> HIDE DEF e
<1>2. PICK act \in 0 .. Behind + 1 :
        IF act = 0 THEN order' = NoOrderOut /\ levels' = WithoutOurs(levels)
        ELSE IF order.state # "none" /\ order.price = Asked(act)
        THEN UNCHANGED <<order, levels>>
        ELSE /\ Asked(act) \in PricesHere
             /\ order' = [state |-> IF UseLatency THEN "sent" ELSE "resting", price |-> Asked(act),
                          seen |-> feed[1].joined[Asked(act)], landed |-> Now.joined[Asked(act)]]
             /\ levels' = IF UseLatency THEN WithoutOurs(levels)
                          ELSE JoinBack(WithoutOurs(levels), Asked(act))
  BY DEF Decide
<1>3. Now' = Now /\ \A p \in PricesHere : Now.joined[p] \in Nat /\ Now'.joined[p] = Now.joined[p]
  BY <1>1, <1>a, PictureIs DEF Now
<1>4. /\ 1 \in 1 .. Len(feed) /\ Len(feed) \in 1 .. Len(feed)
      /\ \A i \in 1 .. Len(feed) : 1 <= i /\ i <= Len(feed)
      /\ \A i \in 1 .. Len(feed), p \in PricesHere : feed[i].size[p] \in Nat /\ feed[i].joined[p] \in Nat
  <2>1. /\ 1 \in 1 .. Len(feed) /\ Len(feed) \in 1 .. Len(feed) /\ Len(feed) \in Nat
        /\ \A i \in 1 .. Len(feed), p \in PricesHere : feed[i].size[p] \in Nat /\ feed[i].joined[p] \in Nat
    BY <1>a, PictureIs
  <2> QED
    BY <2>1
<1>5. FeedGrows'
  BY <1>1, <1>a DEF FeedGrows
<1> DEFINE ls == WithoutOurs(levels)
<1>6. /\ ls = [p \in PricesHere |-> ls[p]]
      /\ \A p \in PricesHere :
           /\ ls[p] \in Seq(Nat) /\ OursOnce(ls[p]) /\ ~HasOurs(ls[p])
           /\ SizesIn(ls[p]) <= SizesIn(levels[p])
           /\ SizesIn(ls[p]) \in Nat /\ SizesIn(levels[p]) \in Nat
  <2>1. ls = [p \in PricesHere |-> ls[p]]
    BY DEF WithoutOurs
  <2>2. \A p \in PricesHere :
          /\ ls[p] \in Seq(Nat) /\ OursOnce(ls[p]) /\ ~HasOurs(ls[p])
          /\ SizesIn(ls[p]) <= SizesIn(levels[p])
    BY <1>a, WithoutOursIs
  <2> HIDE DEF ls
  <2> QED
    BY <1>0, <2>1, <2>2, SizesAreSizes
<1> HIDE DEF ls
\* The pictures bound what is there, whether it was taken out or not, if what is
\* ahead of us is bounded too.
<1>7. ASSUME \A p \in PricesHere :
               SizesIn(levels'[p]) \in Nat /\ SizesIn(levels'[p]) <= SizesIn(levels[p]),
             NEW p \in PricesHere, NEW shown \in Nat, NEW joined \in Nat, Bounds(shown, joined, p),
             order'.state = "resting" /\ order'.price = p => TrueAhead' <= shown + Between(joined)'
      PROVE  Bounds(shown, joined, p)'
  <2>1. SizesIn(levels[p]) <= shown + (Now.joined[p] - joined) /\ SizesIn(levels[p]) \in Nat
    BY <1>6, <1>7 DEF Bounds
  <2>2. SizesIn(levels'[p]) <= shown + (Now'.joined[p] - joined)
    BY <1>3, <1>7, <2>1
  <2> QED
    BY <1>7, <2>2 DEF Bounds
<1>8. CASE order'.state = "none" /\ order'.price = Touch /\ order' = NoOrderOut /\ levels' = ls
  <2>1. order' = [state |-> "none", price |-> Touch, seen |-> 0, landed |-> 0]
    BY <1>8 DEF NoOrderOut
  <2>2. QueueTypes'
    BY <1>0, <1>1, <1>6, <1>8, <2>1, TouchIsHere DEF QueueTypes
  <2>3. OursWhereItRests'
    BY <1>6, <1>8 DEF OursWhereItRests
  <2>4. FeedBounds'
    <3> SUFFICES ASSUME NEW i \in 1 .. Len(feed), NEW p \in PricesHere
                 PROVE  Bounds(feed[i].size[p], feed[i].joined[p], p)'
      BY <1>1 DEF FeedBounds
    <3> DEFINE shown == feed[i].size[p]
               joined == feed[i].joined[p]
    <3>1. shown \in Nat /\ joined \in Nat /\ Bounds(shown, joined, p)
      BY <1>4, <1>a DEF FeedBounds
    <3>2. feed'[i].size[p] = shown /\ feed'[i].joined[p] = joined
      BY <1>1
    <3> HIDE DEF shown, joined
    <3>3. \A h \in PricesHere : SizesIn(levels'[h]) \in Nat /\ SizesIn(levels'[h]) <= SizesIn(levels[h])
      BY <1>6, <1>8
    <3>4. order'.state # "resting"
      BY <1>8
    <3>5. \A x \in Nat, y \in Nat : Bounds(x, y, p) => Bounds(x, y, p)'
      BY <1>7, <3>3, <3>4
    <3> QED
      BY <3>1, <3>2, <3>5 DEF Bounds, Between
  <2>5. SentBefore' /\ EstimateBounds'
    BY <1>8 DEF SentBefore, EstimateBounds
  <2> QED
    BY <1>5, <2>2, <2>3, <2>4, <2>5 DEF QueueInv
<1>9. CASE order' = order /\ levels' = levels
  <2>1. QueueTypes' /\ OursWhereItRests' /\ SentBefore'
    BY <1>0, <1>1, <1>9, <1>a DEF QueueTypes, OursWhereItRests, SentBefore
  <2>2. TrueAhead' = TrueAhead /\ \A x : Between(x)' = Between(x)
    BY <1>9 DEF TrueAhead, Between
  <2>3. FeedBounds'
    BY <1>1, <1>3, <1>9, <1>a, <2>2 DEF FeedBounds, Bounds
  <2>4. EstimateBounds'
    <3> SUFFICES ASSUME order.state # "none"
                 PROVE  Bounds(estimate.ahead, order.seen, order.price)'
      BY <1>9 DEF EstimateBounds
    <3>1. Bounds(e.ahead, order.seen, order.price)
      BY <1>1
    <3>2. estimate'.ahead = e.ahead /\ order'.seen = order.seen /\ order'.price = order.price
      BY <1>1, <1>9
    <3> QED
      BY <1>3, <1>9, <2>2, <3>1, <3>2 DEF Bounds, Between
  <2> QED
    BY <1>5, <2>1, <2>3, <2>4 DEF QueueInv
<1>10. ASSUME act # 0, ~(order.state # "none" /\ order.price = Asked(act))
       PROVE  QueueInv'
  <2> DEFINE a == Asked(act)
             r == Append(ls[a], Ours)
  <2>1. /\ a \in PricesHere
        /\ order' = [state |-> IF UseLatency THEN "sent" ELSE "resting", price |-> a,
                     seen |-> feed[1].joined[a], landed |-> Now.joined[a]]
        /\ levels' = IF UseLatency THEN ls ELSE [ls EXCEPT ![a] = r]
        /\ order.state # "none" => order.price # a
    BY <1>2, <1>10 DEF JoinBack, ls
  <2> HIDE DEF a
  <2>2. /\ r \in Seq(Nat) /\ OursOnce(r) /\ HasOurs(r)
        /\ Ahead(r) = SizesIn(ls[a]) /\ SizesIn(r) <= SizesIn(ls[a]) /\ SizesIn(r) \in Nat
    <3>1. ls[a] \in Seq(Nat) /\ ~HasOurs(ls[a])
      BY <1>6, <2>1
    <3>2. /\ r \in Seq(Nat) /\ OursOnce(r) /\ HasOurs(r)
          /\ Ahead(r) = SizesIn(ls[a]) /\ SizesIn(r) <= SizesIn(ls[a])
      BY <3>1, WeJoinOnce, WeJoinBehindAll
    <3> HIDE DEF r
    <3> QED
      BY <3>2, SizesAreSizes
  <2> HIDE DEF r
  <2>3. feed[1].joined[a] \in Nat /\ Now.joined[a] \in Nat
    BY <1>3, <1>4, <2>1
  <2>4. /\ order' \in [state : {"none", "sent", "resting"}, price : PricesHere, seen : Nat, landed : Nat]
        /\ order'.price = a /\ order'.seen = feed[1].joined[a] /\ order'.landed = Now.joined[a]
        /\ order'.state = IF UseLatency THEN "sent" ELSE "resting"
    BY <2>1, <2>3
  <2>5. /\ levels' = [p \in PricesHere |-> levels'[p]]
        /\ \A p \in PricesHere :
             levels'[p] = IF order'.state = "resting" /\ p = a THEN r ELSE ls[p]
    BY <1>6, <2>1, <2>4
  <2>6. QueueTypes'
    BY <1>0, <1>1, <1>6, <2>2, <2>4, <2>5 DEF QueueTypes
  <2>7. OursWhereItRests'
    BY <1>6, <2>2, <2>4, <2>5 DEF OursWhereItRests
  <2>8. \A p \in PricesHere : SizesIn(levels'[p]) \in Nat /\ SizesIn(levels'[p]) <= SizesIn(levels[p])
    <3> SUFFICES ASSUME NEW p \in PricesHere
                 PROVE  SizesIn(levels'[p]) \in Nat /\ SizesIn(levels'[p]) <= SizesIn(levels[p])
      OBVIOUS
    <3>1. SizesIn(ls[p]) <= SizesIn(levels[p]) /\ SizesIn(ls[p]) \in Nat /\ SizesIn(levels[p]) \in Nat
      BY <1>6
    <3>2. levels'[p] = ls[p] \/ (p = a /\ levels'[p] = r)
      BY <2>5
    <3>3. CASE levels'[p] = ls[p]
      BY <3>1, <3>3
    <3>4. CASE p = a /\ levels'[p] = r
      BY <2>2, <3>1, <3>4
    <3> QED
      BY <3>2, <3>3, <3>4
  <2>9. order'.state = "resting" => TrueAhead' = SizesIn(ls[a])
    BY <2>1, <2>2, <2>4, <2>5 DEF TrueAhead
  <2>10. \A i \in 1 .. Len(feed) :
           feed[1].joined[a] <= feed[i].joined[a] /\ feed[i].joined[a] <= Now.joined[a]
    BY <1>4, <1>a, <2>1 DEF FeedGrows, Now
  <2>11. FeedBounds'
    <3> SUFFICES ASSUME NEW i \in 1 .. Len(feed), NEW p \in PricesHere
                 PROVE  Bounds(feed[i].size[p], feed[i].joined[p], p)'
      BY <1>1 DEF FeedBounds
    <3> DEFINE shown == feed[i].size[p]
               joined == feed[i].joined[p]
    <3>1. shown \in Nat /\ joined \in Nat /\ Bounds(shown, joined, p)
          /\ (p = a => joined <= Now.joined[a])
      BY <1>4, <1>a, <2>10 DEF FeedBounds
    <3>2. feed'[i].size[p] = shown /\ feed'[i].joined[p] = joined
      BY <1>1
    <3> HIDE DEF shown, joined
    <3>3. ASSUME order'.state = "resting", order'.price = p
          PROVE  TrueAhead' <= shown + (IF order'.landed > joined THEN order'.landed - joined ELSE 0)
      <4>1. p = a /\ TrueAhead' = SizesIn(ls[p]) /\ order'.landed = Now.joined[p] /\ joined <= Now.joined[p]
        BY <2>4, <2>9, <3>1, <3>3
      <4>2. SizesIn(levels[p]) <= shown + (Now.joined[p] - joined) /\ SizesIn(ls[p]) <= SizesIn(levels[p])
            /\ SizesIn(levels[p]) \in Nat /\ SizesIn(ls[p]) \in Nat /\ Now.joined[p] \in Nat
        BY <1>3, <1>6, <3>1 DEF Bounds
      <4>3. (IF order'.landed > joined THEN order'.landed - joined ELSE 0) = Now.joined[p] - joined
        BY <3>1, <4>1, <4>2
      <4>4. SizesIn(ls[p]) <= shown + (Now.joined[p] - joined)
        BY <3>1, <4>2
      <4> QED
        BY <4>1, <4>3, <4>4
    <3>4. \A x \in Nat, y \in Nat :
            /\ Bounds(x, y, p)
            /\ order'.state = "resting" /\ order'.price = p => TrueAhead' <= x + Between(y)'
            => Bounds(x, y, p)'
      BY <1>7, <2>8
    <3> QED
      BY <3>1, <3>2, <3>3, <3>4 DEF Bounds, Between
  <2>12. SentBefore'
    <3>1. \A i \in 1 .. Len(feed') : order'.seen <= feed'[i].joined[order'.price]
      BY <1>1, <2>4, <2>10
    <3>2. order'.seen <= order'.landed
      BY <1>4, <2>4, <2>10
    <3> QED
      BY <3>1, <3>2 DEF SentBefore
  <2>13. EstimateBounds'
    <3>1. estimate'.on => order.state # "none"
      BY <1>1
    <3>2. estimate'.on => estimate'.price # a
      BY <1>1, <2>1, <3>1
    <3> QED
      BY <2>4, <3>2 DEF EstimateBounds
  <2> QED
    BY <1>5, <2>6, <2>7, <2>11, <2>12, <2>13 DEF QueueInv
<1> QED
  <2>1. CASE act = 0
    <3>1. order' = NoOrderOut /\ levels' = ls
      BY <1>2, <2>1 DEF ls
    <3> QED
      BY <1>8, <3>1 DEF NoOrderOut
  <2>2. CASE act # 0 /\ order.state # "none" /\ order.price = Asked(act)
    BY <1>2, <1>9, <2>2
  <2> QED
    BY <1>10, <2>1, <2>2

LEMMA QueueInvKept ==
  ASSUME QueueInv, [QueueNext]_qvars
  PROVE  QueueInv'
<1>1. CASE Decide
  BY <1>1, DecideKeepsInv
<1>2. CASE Lands
  BY <1>2, LandsKeepsInv
<1>3. CASE MarketJoins \/ MarketCancels
  BY <1>3, MarketKeepsInv
<1>4. CASE MarketTrades
  BY <1>4, TradesKeepInv
<1>5. CASE FeedArrives
  BY <1>5, FeedArrivesKeepsInv
<1>6. CASE UNCHANGED qvars
  <2>1. levels' = levels /\ order' = order /\ estimate' = estimate /\ feed' = feed
    BY <1>6 DEF qvars
  <2>2. QueueTypes' /\ OursWhereItRests' /\ FeedGrows' /\ SentBefore'
    BY <2>1 DEF QueueInv, QueueTypes, OursWhereItRests, FeedGrows, SentBefore
  <2>3. FeedBounds' /\ EstimateBounds'
    BY <2>1 DEF QueueInv, FeedBounds, EstimateBounds, Bounds, Between, TrueAhead, Now
  <2> QED
    BY <2>2, <2>3 DEF QueueInv
<1> QED
  BY <1>1, <1>2, <1>3, <1>4, <1>5, <1>6 DEF QueueNext

-----------------------------------------------------------------------------
(***************************************************************************)
(* The bucket of the place.                                                *)
(***************************************************************************)
\* The edges passed by so much size.
Passed(ahead, scale) == {i \in DOMAIN QueueEdges : 100 * ahead > QueueEdges[i] * scale}

\* Buckets are those there are.
LEMMA BucketIs ==
  ASSUME NEW a \in Nat, NEW scale \in Int
  PROVE  /\ QueueBucket(a, scale) \in 0 .. QueueBuckets - 1
         /\ a > 0 /\ scale > 0 =>
              /\ QueueBucket(a, scale) >= 1
              /\ \A i \in Passed(a, scale) : QueueBucket(a, scale) >= 1 + i
              /\ QueueBucket(a, scale) = 1 \/ QueueBucket(a, scale) - 1 \in Passed(a, scale)
<1> DEFINE n == Len(QueueEdges)
           passed == Passed(a, scale)
           top == CHOOSE i \in passed : \A j \in passed : j <= i
<1>1. n \in Nat /\ QueueBuckets = n + 2 /\ DOMAIN QueueEdges = 1 .. n
  BY EdgesAssumption, LenProperties
<1>2. passed \in SUBSET (1 .. n)
  BY <1>1 DEF Passed
<1>3. QueueBucket(a, scale) = IF a <= 0 THEN 0 ELSE IF scale <= 0 THEN QueueBuckets - 1
                              ELSE IF passed = {} THEN 1 ELSE 1 + top
  BY DEF QueueBucket, Passed, BackOfQueue
<1> HIDE DEF passed, n
<1>4. passed # {} => top \in passed /\ \A j \in passed : j <= top
  <2> SUFFICES ASSUME passed # {} PROVE \E i \in passed : \A j \in passed : j <= i
    OBVIOUS
  <2>1. Highest(passed) \in passed /\ \A y \in passed : y <= Highest(passed)
    BY <1>1, <1>2, HighestIndex
  <2> QED
    BY <2>1
<1> HIDE DEF top
<1>5. passed # {} => top \in 1 .. n
  BY <1>2, <1>4
<1>6. QueueBucket(a, scale) \in 0 .. QueueBuckets - 1
  BY <1>1, <1>3, <1>5
<1>7. ASSUME a > 0, scale > 0
      PROVE  /\ QueueBucket(a, scale) >= 1
             /\ \A i \in passed : QueueBucket(a, scale) >= 1 + i
             /\ QueueBucket(a, scale) = 1 \/ QueueBucket(a, scale) - 1 \in passed
  <2>1. QueueBucket(a, scale) = IF passed = {} THEN 1 ELSE 1 + top
    BY <1>3, <1>7
  <2>2. \A i \in passed : i \in 1 .. n
    BY <1>2
  <2>3. CASE passed = {}
    BY <2>1, <2>3
  <2>4. CASE passed # {}
    <3>1. QueueBucket(a, scale) = 1 + top /\ top \in 1 .. n /\ top \in Nat
      BY <1>1, <1>5, <2>1, <2>4
    <3>2. QueueBucket(a, scale) - 1 = top
      BY <3>1
    <3> QED
      BY <1>1, <1>4, <2>2, <2>4, <3>1, <3>2
  <2> QED
    BY <2>3, <2>4
<1> QED
  BY <1>6, <1>7 DEF passed

\* More ahead is never a better place.
LEMMA BucketsGrow ==
  ASSUME NEW a \in Nat, NEW b \in Nat, a <= b, NEW scale \in Int
  PROVE  QueueBucket(a, scale) <= QueueBucket(b, scale)
<1>1. QueueBucket(a, scale) \in 0 .. QueueBuckets - 1 /\ QueueBucket(b, scale) \in 0 .. QueueBuckets - 1
  BY BucketIs
<1>2. CASE a = 0
  <2>1. QueueBucket(a, scale) = 0
    BY <1>2 DEF QueueBucket
  <2> QED
    BY <1>1, <2>1
<1>3. CASE a > 0 /\ scale <= 0
  <2>1. QueueBucket(a, scale) = QueueBuckets - 1 /\ QueueBucket(b, scale) = QueueBuckets - 1
    BY <1>3 DEF QueueBucket, BackOfQueue
  <2> QED
    BY <1>1, <2>1
<1>4. CASE a > 0 /\ scale > 0
  <2> DEFINE x == QueueBucket(a, scale)
             y == QueueBucket(b, scale)
  <2>0. b > 0
    BY <1>4
  <2>1. /\ x = 1 \/ x - 1 \in Passed(a, scale)
        /\ y >= 1 /\ \A i \in Passed(b, scale) : y >= 1 + i
    <3>1. x = 1 \/ x - 1 \in Passed(a, scale)
      BY <1>4, BucketIs
    <3>2. y >= 1 /\ \A i \in Passed(b, scale) : y >= 1 + i
      BY <1>4, <2>0, BucketIs
    <3> QED
      BY <3>1, <3>2
  <2>2. x \in Nat /\ y \in Nat
    BY <1>1
  <2> HIDE DEF x, y
  <2>3. CASE x - 1 \in Passed(a, scale)
    <3> DEFINE k == x - 1
    <3>1. k \in DOMAIN QueueEdges /\ 100 * a > QueueEdges[k] * scale
      BY <2>3 DEF Passed
    <3>2. QueueEdges[k] \in Nat
      BY <3>1, EdgesAssumption, ElementOfSeq, LenProperties
    <3>3. QueueEdges[k] * scale \in Int
      BY <3>2
    <3>4. 100 * b > QueueEdges[k] * scale
      BY <3>1, <3>3
    <3>5. k \in Passed(b, scale)
      BY <3>1, <3>4 DEF Passed
    <3>6. y >= 1 + k
      BY <2>1, <3>5
    <3> QED
      BY <2>2, <3>6 DEF x, y
  <2>4. CASE x = 1
    BY <2>1, <2>2, <2>4 DEF x, y
  <2> QED
    BY <2>1, <2>3, <2>4
<1> QED
  BY <1>2, <1>3, <1>4

\* The place is in the side it is made of.
LEMMA QueueOfMade ==
  ASSUME NEW level \in Nat, NEW queue \in 0 .. QueueBuckets - 1
  PROVE  MakeSide(level, queue) # NoQuote /\ QueueOf(MakeSide(level, queue)) = queue
<1>1. QueueBuckets \in Nat \ {0}
  BY BucketsAssumption
<1> DEFINE x == level * QueueBuckets
<1>2. x \in Nat
  BY <1>1
<1>3. MakeSide(level, queue) = 1 + x + queue
  BY DEF MakeSide
<1>4. (x + queue) % QueueBuckets = queue
  BY <1>1
<1> HIDE DEF x
<1>5. MakeSide(level, queue) \in Nat /\ MakeSide(level, queue) # 0 /\ MakeSide(level, queue) - 1 = x + queue
  BY <1>1, <1>2, <1>3
<1> QED
  BY <1>4, <1>5 DEF QueueOf, NoQuote

LEMMA ShortByItsDelay ==
  ASSUME QueueInv
  PROVE  PlaceIsShortByItsDelay
<1> SUFFICES ASSUME order.state = "resting", estimate.on, estimate.price = order.price
             PROVE  /\ estimate.ahead + Missed >= TrueAhead
                    /\ \A touch \in PricesHere :
                         LET side == SideState(estimate, touch, Depth)
                         IN side # NoQuote => QueueOf(side) >= QueueBucket(TrueAhead - Missed, Depth)
  BY DEF PlaceIsShortByItsDelay
<1>1. /\ estimate.ahead \in Nat /\ estimate.price \in PricesHere /\ order.price \in PricesHere
      /\ order.seen \in Nat /\ order.landed \in Nat
  BY DEF QueueInv, QueueTypes
<1>2. TrueAhead \in Nat
  <2>1. levels[order.price] \in Seq(Nat) /\ OursOnce(levels[order.price]) /\ HasOurs(levels[order.price])
    BY <1>1 DEF QueueInv, QueueTypes, OursWhereItRests
  <2> QED
    BY <2>1, AheadIsASize DEF TrueAhead
<1>3. Missed \in Nat /\ TrueAhead <= estimate.ahead + Missed
  <2>1. order.seen <= order.landed
    BY DEF QueueInv, SentBefore
  <2>2. TrueAhead <= estimate.ahead + Between(order.seen)
    BY DEF QueueInv, EstimateBounds, Bounds
  <2>3. Between(order.seen) = Missed /\ Missed \in Nat
    BY <1>1, <2>1 DEF Between, Missed
  <2> QED
    BY <2>2, <2>3
<1>4. ASSUME NEW touch \in PricesHere, SideState(estimate, touch, Depth) # NoQuote
      PROVE  QueueOf(SideState(estimate, touch, Depth)) >= QueueBucket(TrueAhead - Missed, Depth)
  <2> DEFINE side == SideState(estimate, touch, Depth)
             level == touch - estimate.price
             bucket == QueueBucket(estimate.ahead, Depth)
             least == TrueAhead - Missed
  <2>1. side = MakeSide(level, bucket) /\ ~(level < 0)
    BY <1>4 DEF SideState
  <2>2. level \in Nat
    BY <1>1, <2>1, PricesAssumption DEF PricesHere
  <2>3. bucket \in 0 .. QueueBuckets - 1
    BY <1>1, DepthAssumption, BucketIs
  <2>4. least \in Int /\ least <= estimate.ahead
    BY <1>1, <1>2, <1>3
  <2> HIDE DEF side, bucket, level, least
  <2>5. QueueOf(side) = bucket
    BY <2>1, <2>2, <2>3, QueueOfMade
  <2>6. bucket >= QueueBucket(least, Depth)
    <3>1. CASE least <= 0
      <4>1. QueueBucket(least, Depth) = 0
        BY <3>1 DEF QueueBucket
      <4> QED
        BY <2>3, <4>1
    <3>2. CASE least > 0
      <4>1. least \in Nat
        BY <2>4, <3>2
      <4>2. QueueBucket(least, Depth) <= bucket /\ QueueBucket(least, Depth) \in 0 .. QueueBuckets - 1
        BY <1>1, <2>4, <4>1, DepthAssumption, BucketIs, BucketsGrow DEF bucket
      <4> QED
        BY <2>3, <4>2
    <3> QED
      BY <2>4, <3>1, <3>2
  <2> QED
    BY <2>5, <2>6 DEF side, least
<1> QED
  BY <1>3, <1>4, <1>1, <1>2

\* The place the table is asked about is better than the true one by no more than
\* what joined its price between the picture the order was sent on and its
\* landing: for any latency or none, any delay of the pictures, and whatever the
\* market does at either end of a queue and wherever the table moves the order
\* (include/lob/strat/tabulated.hpp:16 and :104).
THEOREM PlaceIsShortByItsDelayHolds == QueueSpec => []PlaceIsShortByItsDelay
<1>1. QueueInit => QueueInv
  BY QueueInvInit
<1>2. QueueInv /\ [QueueNext]_qvars => QueueInv'
  BY QueueInvKept
<1>3. QueueInv => PlaceIsShortByItsDelay
  BY ShortByItsDelay
<1> QED
  BY <1>1, <1>2, <1>3, PTL DEF QueueSpec
=============================================================================
